------------------------------ MODULE MCRunVerb -------------------------------
(***************************************************************************)
(* A workload for checking RunVerb: a read that samples part of the        *)
(* family's pool and all of the generic one, a write, and a query without  *)
(* a pool.                                                                 *)
(***************************************************************************)
EXTENDS RunVerb

TheWrite == {2}
NoPool == {3}
FamilySizes == <<3, 2, 1>>
GenericSizes == <<2, 3, 1>>
SampleSizes == <<2, 2, 2>>
Counts == <<4, 3, 1>>

\* A whole plain schedule and one cut by the budget; in a mixed run of 3 draws the first
\* goes round them and the second, as a warmup, ends in the middle of a pass.
SomeCounts == {Counts, <<2, 1, 1>>}

\* Every shape with and without a binder; the cold pass where it is taken, and the
\* answers of the command where they are asked for.
Commands ==
  {a \in AnyCommand :
     /\ a.cold => a.shape = "plain"
     /\ a.focused \/ a.publish => ~a.binder /\ ~a.cold /\ a.shape = "plain"}
=============================================================================
