-------------------------------- MODULE Answers --------------------------------
(***************************************************************************)
(* The normalized comparison (workload/compare.go): an engine's answer     *)
(* against the reference's under a CompareSpec.                            *)
(*                                                                         *)
(* A value is a tuple that starts with its kind: <<"null">>, <<"int", n>>, *)
(* <<"float", n>>, <<"string", s>> (a bool, a time and bytes are like it), *)
(* <<"list", values>>, <<"map", f>>, <<"node", id, labels, props>>,        *)
(* <<"rel", id, type, start, end, props>> and <<"path", nodes, rels>>.     *)
(* Numbers are whole; no string holds a separator of the sort key.         *)
(***************************************************************************)
EXTENDS Integers, SequencesExt

CONSTANTS
  Digits,  \* twelve: the significant digits of a number in the sort key
  Recip    \* 10^9: one over the relative tolerance

Spec == [Ordered : BOOLEAN, CoerceNum : BOOLEAN, IncludeElementIDs : BOOLEAN]

Pow[n \in Nat] == IF n = 0 THEN 1 ELSE 10 * Pow[n - 1]
Magnitude(n) == IF n < 0 THEN -n ELSE n

\* asFloat, isInteger.
IsNumber(v) == v[1] \in {"int", "float"}
IsInteger(v) == v[1] = "int"

WithinTol(a, b) ==
  a = b \/ Magnitude(a - b) * Recip <= Max({Magnitude(a), Magnitude(b)})

FloatEqual(got, want, spec) ==
  /\ IsInteger(got) # IsInteger(want) => spec.CoerceNum
  /\ IF IsInteger(got) /\ IsInteger(want) THEN got[2] = want[2] ELSE WithinTol(got[2], want[2])

\* sameSet: the same strings, each as often.
SameSet(a, b) == \A x \in ToSet(a) \cup ToSet(b) :
                   Cardinality({i \in DOMAIN a : a[i] = x}) = Cardinality({i \in DOMAIN b : b[i] = x})

RECURSIVE ValueEqual(_, _, _)

ListEqual(got, want, spec) ==
  Len(got) = Len(want) /\ \A i \in DOMAIN want : ValueEqual(got[i], want[i], spec)
MapEqual(got, want, spec) ==
  DOMAIN got = DOMAIN want /\ \A k \in DOMAIN want : ValueEqual(got[k], want[k], spec)

NodeEqual(got, want, spec) ==
  /\ spec.IncludeElementIDs => got[2] = want[2]
  /\ SameSet(got[3], want[3])
  /\ MapEqual(got[4], want[4], spec)
RelEqual(got, want, spec) ==
  /\ got[3] = want[3]
  /\ spec.IncludeElementIDs => <<got[2], got[4], got[5]>> = <<want[2], want[4], want[5]>>
  /\ MapEqual(got[6], want[6], spec)
PathEqual(got, want, spec) ==
  /\ Len(got[2]) = Len(want[2]) /\ Len(got[3]) = Len(want[3])
  /\ \A i \in DOMAIN want[2] : NodeEqual(got[2][i], want[2][i], spec)
  /\ \A i \in DOMAIN want[3] : RelEqual(got[3][i], want[3][i], spec)

ValueEqual(got, want, spec) ==
  IF IsNumber(got) /\ IsNumber(want) THEN FloatEqual(got, want, spec)
  ELSE got[1] = want[1] /\
       CASE want[1] = "null" -> TRUE
         [] want[1] = "string" -> got[2] = want[2]
         [] want[1] = "list" -> ListEqual(got[2], want[2], spec)
         [] want[1] = "map" -> MapEqual(got[2], want[2], spec)
         [] want[1] = "node" -> NodeEqual(got, want, spec)
         [] want[1] = "rel" -> RelEqual(got, want, spec)
         [] want[1] = "path" -> PathEqual(got, want, spec)
         [] OTHER -> FALSE

-----------------------------------------------------------------------------
(* The sort key.                                                             *)

\* %.12g: what is left of a number at Digits significant digits.
Rounded(n) ==
  LET over == {d \in 0..4 : Pow[Digits + d] > Magnitude(n)}
      unit == Pow[Min(over)]
  IN ((Magnitude(n) + (unit \div 2)) \div unit) * unit * (IF n < 0 THEN -1 ELSE 1)

Counted(labels) == [l \in ToSet(labels) |-> Cardinality({i \in DOMAIN labels : labels[i] = l})]

RECURSIVE WriteKey(_, _)
WriteKey(v, spec) ==
  LET id(x) == IF spec.IncludeElementIDs THEN x ELSE ""
      props(f) == [k \in DOMAIN f |-> WriteKey(f[k], spec)]
      each(s) == [i \in DOMAIN s |-> WriteKey(s[i], spec)]
  IN CASE IsNumber(v) -> <<"n", Rounded(v[2])>>
       [] v[1] \in {"null", "string"} -> v
       [] v[1] = "list" -> <<"list", each(v[2])>>
       [] v[1] = "map" -> <<"map", props(v[2])>>
       [] v[1] = "node" -> <<"node", id(v[2]), Counted(v[3]), props(v[4])>>
       [] v[1] = "rel" -> <<"rel", id(v[2]), v[3], id(v[4]), id(v[5]), props(v[6])>>
       [] v[1] = "path" -> <<"path", each(v[2]), each(v[3])>>

\* A plausible slip: the key holds the ids that the comparison leaves out.
RowKeyOfIds(row, spec) == [i \in DOMAIN row |-> WriteKey(row[i], [spec EXCEPT !.IncludeElementIDs = TRUE])]

RowKey(row, spec) == [i \in DOMAIN row |-> WriteKey(row[i], spec)]

\* Rows by their keys, in one order of the keys for both sides; ties as they came.
SortedRows(rows, order, spec) ==
  FoldLeft(LAMBDA sorted, key : sorted \o SelectSeq(rows, LAMBDA r : RowKey(r, spec) = key), <<>>, order)

Keys(got, want, spec) == {RowKey(r, spec) : r \in ToSet(got.rows) \cup ToSet(want.rows)}

\* Compare, for an order of the keys. An answer is [columns, rows].
CompareIn(got, want, spec, order) ==
  LET g == IF spec.Ordered THEN got.rows ELSE SortedRows(got.rows, order, spec)
      w == IF spec.Ordered THEN want.rows ELSE SortedRows(want.rows, order, spec)
  IN /\ got.columns = want.columns
     /\ Len(g) = Len(w)
     /\ \A i \in DOMAIN w : ListEqual(g[i], w[i], spec)

\* The order of the keys is that of their texts, which are not modelled: any one order.
Compare(got, want, spec) == CompareIn(got, want, spec, SetToSeq(Keys(got, want, spec)))

-----------------------------------------------------------------------------
(* What it is supposed to tell apart.                                        *)

\* A value without what the spec leaves to the engine, its numbers "exact", "rounded" as
\* they are for the sort, or left out ("any").
RECURSIVE Logical(_, _, _)
Logical(v, spec, numbers) ==
  LET id(x) == IF spec.IncludeElementIDs THEN x ELSE ""
      props(f) == [k \in DOMAIN f |-> Logical(f[k], spec, numbers)]
      each(s) == [i \in DOMAIN s |-> Logical(s[i], spec, numbers)]
      kind == IF spec.CoerceNum \/ numbers = "rounded" THEN "number" ELSE v[1]
  IN CASE IsNumber(v) -> <<kind, CASE numbers = "exact" -> v[2]
                                   [] numbers = "rounded" -> Rounded(v[2])
                                   [] numbers = "any" -> 0>>
       [] v[1] \in {"null", "string"} -> v
       [] v[1] = "list" -> <<"list", each(v[2])>>
       [] v[1] = "map" -> <<"map", props(v[2])>>
       [] v[1] = "node" -> <<"node", id(v[2]), Counted(v[3]), props(v[4])>>
       [] v[1] = "rel" -> <<"rel", id(v[2]), v[3], id(v[4]), id(v[5]), props(v[6])>>
       [] v[1] = "path" -> <<"path", each(v[2]), each(v[3])>>

Says(rows, spec, numbers) == [i \in DOMAIN rows |-> [j \in DOMAIN rows[i] |-> Logical(rows[i][j], spec, numbers)]]

\* The same rows, in the same order if the spec fixes it.
SameAnswer(got, want, spec, numbers) ==
  LET g == Says(got.rows, spec, numbers)  w == Says(want.rows, spec, numbers)
  IN got.columns = want.columns /\ IF spec.Ordered THEN g = w ELSE Len(g) = Len(w) /\ SameSet(g, w)

\* A row of one answer and one of the other that round alike.
Alike(r, s, spec) == Says(<<r>>, spec, "rounded") = Says(<<s>>, spec, "rounded")

\* The ways to pair off two answers, row by equal row.
Pairings(got, want, spec) ==
  {p \in [DOMAIN want.rows -> DOMAIN got.rows] :
     /\ Len(got.rows) = Len(want.rows)
     /\ \A i, j \in DOMAIN p : i # j => p[i] # p[j]
     /\ spec.Ordered => \A i \in DOMAIN p : p[i] = i
     /\ \A i \in DOMAIN p : ListEqual(got.rows[p[i]], want.rows[i], spec)}

\* Rounding and the tolerance disagree on two rows: equal ones round apart, or rows that
\* round alike are not equal.
Torn(got, want, spec) ==
  \E r \in ToSet(got.rows), s \in ToSet(want.rows) : ListEqual(r, s, spec) # Alike(r, s, spec)

\* In whatever order the keys sort: an answer that rounds to the reference is accepted if
\* rows that round alike are equal; an accepted one differs in no more than its numbers and
\* pairs off within tolerance; and one that pairs off is refused only where rounding and the
\* tolerance disagree.
ComparesFairly(got, want, spec) ==
  LET pairs == got.columns = want.columns /\ Pairings(got, want, spec) # {}
      orders == IF spec.Ordered THEN {<<>>} ELSE SetToSeqs(Keys(got, want, spec))
  IN \A order \in orders :
       LET accepted == CompareIn(got, want, spec, order)
       IN /\ /\ SameAnswer(got, want, spec, "rounded")
             /\ IF spec.Ordered THEN pairs
                ELSE \A r \in ToSet(got.rows), s \in ToSet(want.rows) :
                       Alike(r, s, spec) => ListEqual(r, s, spec)
             => accepted
          /\ accepted => SameAnswer(got, want, spec, "any") /\ pairs
          /\ pairs /\ ~accepted => ~spec.Ordered /\ Torn(got, want, spec)
=============================================================================
