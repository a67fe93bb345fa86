------------------------------- MODULE Schedule -------------------------------
(***************************************************************************)
(* Who fires when: the weighted interleave of a mixed workload             *)
(* (measure/mixed.go), the arrivals of an open run (BuildSchedule and      *)
(* Options.window in measure/run.go) and how measurePlan and warmupPass    *)
(* (cmd/graph-bench/exec.go) put the warmup in front.                      *)
(*                                                                         *)
(* Query ids are numbers, which sort the way the code sorts the ids.       *)
(* The code's float shares are exact fractions here.                       *)
(***************************************************************************)
EXTENDS Integers, SequencesExt

CONSTANTS
  Second,  \* ticks in a second
  Valve    \* warmupPass never fires more than one op past this

\* What each query of a mix weighs, and how many bindings of it there are.
IsMix(pools, weights) ==
  /\ IsFiniteSet(DOMAIN weights) /\ DOMAIN weights \subseteq Nat
  /\ \A q \in DOMAIN weights : weights[q] \in Int
  /\ \A q \in DOMAIN pools : pools[q] \in Nat

\* Ids with a positive weight and something to fire.
Firing(pools, weights) ==
  {q \in DOMAIN weights : weights[q] > 0 /\ q \in DOMAIN pools /\ pools[q] > 0}

\* A sum over a set is the number of units its members have together.
Units(ids, f) == UNION {{q} \X (1..f[q]) : q \in ids}
Sum(ids, f) == Cardinality(Units(ids, f))

\* The slots an exact share buys, and what of it is cut off, in parts of a slot.
Whole(ids, weights, total) == [q \in ids |-> (weights[q] * total) \div Sum(ids, weights)]
Cut(ids, weights, total) == [q \in ids |-> (weights[q] * total) % Sum(ids, weights)]

\* Who is served before q: those cut by more, ties to the id that sorts first.
Before(ids, cut, q) == {p \in ids : cut[p] > cut[q] \/ (cut[p] = cut[q] /\ p < q)}

\* One turn for each slot left over, round and round the order.
Turns(ids, cut, left, q) ==
  {n \in 0..(left - 1) : n % Cardinality(ids) = Cardinality(Before(ids, cut, q))}

\* Largest remainder.
Shares(pools, weights, total) ==
  LET ids == Firing(pools, weights)
      whole == Whole(ids, weights, total)
      left == total - Sum(ids, whole)
  IN [q \in ids |-> whole[q] + Cardinality(Turns(ids, Cut(ids, weights, total), left, q))]

\* What the shuffle may make of the slots; which of them is the seed's.
Interleavings(shares, total) ==
  {s \in [1..total -> DOMAIN shares] :
     \A q \in DOMAIN shares : Cardinality({i \in 1..total : s[i] = q}) = shares[q]}

\* A query's ops in their order, over again when its share exceeds them.
OpsOf(slots, pools) ==
  [i \in DOMAIN slots |->
     [query |-> slots[i],
      draw |-> (Cardinality({j \in 1..(i - 1) : slots[j] = slots[i]}) % pools[slots[i]]) + 1]]

\* When op i fires. A rate of zero leaves every op at the start; the interval is cut to a
\* whole tick.
Interval(rate) == Second \div rate
Offset(i, rate) == IF rate <= 0 THEN 0 ELSE (i - 1) * Interval(rate)

MixedSchedules(pools, weights, total) ==
  IF total <= 0 \/ Firing(pools, weights) = {} THEN {<<>>}
  ELSE {OpsOf(s, pools) : s \in Interleavings(Shares(pools, weights, total), total)}

\* measurePlan: an open run fires its warmup as a prefix of the schedule.
MixTotal(count, rate, warmup) == IF rate > 0 THEN count + (rate * warmup) \div Second ELSE count

RecordedToo(total, rate, warmup) == 1..total

\* The ops of a schedule that Run records.
Recorded(total, rate, warmup) ==
  {i \in 1..total : Offset(i, rate) >= (IF rate > 0 THEN warmup ELSE 0)}

\* The window throughput is taken over.
Window(count, rate, warmup) ==
  LET all == (count * Second) \div rate
  IN IF rate > 0 /\ count > 0 /\ all > warmup THEN all - warmup ELSE 0

\* WarmupOps: a fifth of the schedule, rounded up.
WarmupOps(total) == (total + 4) \div 5

\* warmupPass: how many ops it fires, ops[i] taking took[i] ticks. A fixed window
\* is a fast profile's; otherwise three seconds and forty rounds, whichever is later.
Fired(took, fixed) ==
  LET n == Len(took)
      deadline == IF fixed > 0 THEN fixed ELSE 3 * Second
      least == IF fixed > 0 THEN 0 ELSE WarmupOps(200 * n)
      elapsed[k \in 0..(Valve + 1)] ==
        IF k = 0 THEN 0 ELSE elapsed[k - 1] + took[((k - 1) % n) + 1]
      done(k) == k > Valve \/ (elapsed[k] > deadline /\ k >= least)
  IN IF n = 0 THEN 0 ELSE CHOOSE k \in 0..(Valve + 1) : done(k) /\ \A j \in 0..(k - 1) : ~done(j)

-----------------------------------------------------------------------------
(* What a schedule is held to.                                               *)

\* The mix is the composition asked for: every query within one slot of its exact share,
\* no slot lost or invented, a share worth a slot never without one, and a query that
\* weighs at least as much never fired less.
MixIsExact(pools, weights, total, shares) ==
  LET all == Sum(Firing(pools, weights), weights)
  IN /\ Sum(DOMAIN shares, shares) = total
     /\ \A q \in DOMAIN shares :
          /\ all * shares[q] < weights[q] * total + all
          /\ all * shares[q] > weights[q] * total - all
          /\ weights[q] * total >= all => shares[q] >= 1
          /\ \A p \in DOMAIN shares : weights[p] > weights[q] => shares[p] >= shares[q]

\* Each query goes through its draws evenly, from the first one, whatever the seed.
DrawsAreEven(ops, pools) ==
  \A q \in {ops[i].query : i \in DOMAIN ops} :
    LET uses(d) == Cardinality({i \in DOMAIN ops : ops[i] = [query |-> q, draw |-> d]})
    IN \A d, e \in 1..pools[q] : d < e => uses(d) \in {uses(e), uses(e) + 1}

\* What Run records is what was asked for, but for one op of the warmup's last interval
\* and for what cutting the interval, once for each in the warmup, moves into it. All of
\* it falls in the window its throughput is taken over.
WindowHoldsRecorded(kept, count, rate, warmup) ==
  LET total == MixTotal(count, rate, warmup)
      lost == count - Cardinality(kept)
  IN rate \in 1..Second =>
       /\ lost >= 0
       /\ (lost - 2) * Interval(rate) * Second < warmup * (Second % rate)
       /\ \A i \in kept : Offset(i, rate) - warmup <= Window(total, rate, warmup)

\* Every query of the schedule is warm before the full profile measures it.
WarmsEveryQuery(fired, took) == fired >= WarmupOps(200 * Len(took)) \/ fired > Valve
=============================================================================
