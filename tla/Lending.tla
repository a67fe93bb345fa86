-------------------------------- MODULE Lending --------------------------------
(***************************************************************************)
(* What a pool of connections promises the callers of a session            *)
(* (engine/engine.go, Session: Exec "must be safe for concurrent use"),    *)
(* with no mutex, no free list and no handles in sight:                    *)
(*                                                                         *)
(*   - a connection is in one hand at a time;                              *)
(*   - a connection in a hand is open, and stays open until it is given    *)
(*     back or the session is closed;                                      *)
(*   - a closed session lends nothing.                                     *)
(*                                                                         *)
(* The pools of the zu and zu2 adapters are shown to implement it.         *)
(***************************************************************************)
CONSTANTS
  Callers,  \* who may call the session at once
  Nobody    \* no connection

VARIABLES
  held,     \* per caller, the connection it holds
  usable    \* the open connections

vars == <<held, usable>>

Init == held = [c \in Callers |-> Nobody] /\ usable = {}

Lent == {held[c] : c \in Callers} \ {Nobody}

\* One that is open, or one opened for this caller.
Take(c, k) ==
  /\ held[c] = Nobody
  /\ k \notin Lent \cup {Nobody}
  /\ held' = [held EXCEPT ![c] = k]
  /\ usable' = usable \cup {k}

GiveBack(c) ==
  /\ held[c] # Nobody
  /\ held' = [held EXCEPT ![c] = Nobody]
  /\ UNCHANGED usable

\* Connections may be opened, or freed while nobody holds them.
Refill ==
  /\ Lent \subseteq usable'
  /\ UNCHANGED held

\* Close frees every connection, those a caller leaked among them.
CloseAll ==
  /\ usable' = {}
  /\ held' = [c \in Callers |-> Nobody]

Next ==
  \/ \E c \in Callers : Take(c, held'[c]) \/ GiveBack(c)
  \/ Refill
  \/ CloseAll

Spec == Init /\ [][Next]_vars
=============================================================================
