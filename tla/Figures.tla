------------------------------- MODULE Figures -------------------------------
(***************************************************************************)
(* The numbers of the harness, one question at a time: asked is the        *)
(* question and its input, told the answer of the code's algorithm. The    *)
(* warmup detector is a machine of its own and moves sample by sample.     *)
(***************************************************************************)
EXTENDS Warmup

CONSTANTS
  None,      \* no answer yet, and no error
  Second, Valve,  \* as in Schedule
  RowClasses, RowNames, Metrics, Thousand,  \* as in Matrix
  Questions  \* the inputs that are tried, for each part that is asked about

VARIABLES part, asked, told

S == INSTANCE Statistics WITH Classes <- {"PointRead", "Write"}, NoError <- None
G == INSTANCE Gate
R == INSTANCE Comparisons
Q == INSTANCE Schedule
M == INSTANCE Matrix WITH Classes <- RowClasses, Names <- RowNames

\* The inputs are documents, runs and readings as the harness writes them.
ASSUME FiguresAssumption ==
  /\ Second \in Nat \ {0} /\ Valve \in Nat
  /\ M!IsLayout
  /\ \A q \in Questions.stats \cup Questions.drift : S!IsSamples(q)
  /\ \A q \in Questions.teps : q[1] \in Int /\ q[2] \in Seq(Int)
  /\ \A q \in Questions.gate :
       /\ G!IsDocument(q[1])
       /\ \A b \in q[2] : G!IsDocument(b) /\ q[2] = {b}
       /\ G!IsFactor(q[3])
  /\ \A q \in Questions.verb : \A side \in {q[1], q[2]} :
       /\ DOMAIN side = 1..Len(side) /\ Len(side) \in Nat
       /\ \A i \in DOMAIN side : G!IsDocument(side[i])
  /\ \A q \in Questions.flat : G!IsStat(q[1]) /\ G!IsStat(q[2])
  /\ \A q \in Questions.ceiling :
       q[1] \in {"InProc", "Subprocess", "Bolt"} /\ q[2] \in Int /\ q[3] \in Seq(Nat)
  /\ \A q \in Questions.noise : R!IsRuns(q)
  /\ \A q \in Questions.pairs : R!IsSide(q[1]) /\ R!IsSide(q[2]) /\ R!IsRun(q[3])
  /\ \A q \in Questions.costs : R!IsReadings(q[1]) /\ R!IsReadings(q[2])
  /\ \A q \in Questions.mix : Q!IsMix(q[1], q[2]) /\ q[3] \in Int
  /\ \A q \in Questions.open : q[1] \in Nat /\ q[2] \in Int /\ q[3] \in Nat
  /\ \A q \in Questions.warm : q[1] \in Seq(Nat) /\ q[2] \in Nat
  /\ \A q \in Questions.rival : R!IsRivalRun(q[1]) /\ R!IsRivalRun(q[2])
  /\ \A q \in Questions.matrix : M!IsLineage(q)

-----------------------------------------------------------------------------
(* The answers.                                                            *)

Summarise == part = "stats" /\ told' = S!Summarize(asked, 60)
Compare == part = "drift" /\ told' = S!DriftOf(asked, 2)
Rate == part = "teps" /\ told' = S!NewTraversal(asked[1], asked[2])
Rule == part = "gate" /\ told' = G!Violations(asked[1], asked[2], asked[3])
Spread == part = "noise" /\ told' = R!MeasureNoise(asked, 0)
Pair == part = "pairs" /\ told' = R!PairedAB(asked[1], asked[2], "min", <<11, 10>>)
Price == part = "costs" /\ told' = R!PairedCosts(asked[1], asked[2])
Race == part = "rival" /\ told' = R!CheckRival(R!CompareRival(asked[1], asked[2]))
Interleaved == part = "mix" /\ told' \in Q!MixedSchedules(asked[1], asked[2], asked[3])
Arrive ==
  /\ part = "open"
  /\ LET total == Q!MixTotal(asked[1], asked[2], asked[3])
     IN told' = Q!Recorded(total, asked[2], asked[3])
Judge == part = "verb" /\ told' = G!GateVerb(asked[1], asked[2], G!NoFloor)
Flatten ==
  /\ part = "flat"
  /\ told' = G!CheckFlatness([stats |-> [PointRead |-> asked[1]]],
                            [stats |-> [PointRead |-> asked[2]]], G!RegressionFactor)
Allow == part = "ceiling" /\ told' = G!WriteCeiling(asked[1], asked[2], G!PeakConcurrency(asked[3]))
Render == part = "matrix" /\ told' = M!Rendered([i \in DOMAIN asked |-> M!ReadDoc(asked[i])])
Heat == part = "warm" /\ told' = Q!Fired(asked[1], asked[2])

Detect == part = "warmup" /\ Next /\ UNCHANGED <<part, asked, told>>

FiguresInit ==
  /\ Init
  /\ told = None
  /\ part \in DOMAIN Questions \cup {"warmup"}
  /\ asked \in IF part = "warmup" THEN {None} ELSE Questions[part]

Answer ==
  /\ told = None
  /\ \/ Summarise \/ Compare \/ Rate \/ Rule \/ Spread \/ Pair \/ Price \/ Race
     \/ Judge \/ Flatten \/ Allow \/ Interleaved \/ Arrive \/ Heat \/ Render
  /\ UNCHANGED <<part, asked, vars>>

FiguresNext == Answer \/ Detect

FiguresSpec == FiguresInit /\ [][FiguresNext]_<<part, asked, told, vars>>

Answered(p) == part = p /\ told # None

-----------------------------------------------------------------------------
(* What the figures are held to; the words of the code are at the names    *)
(* behind a !.                                                             *)

\* A summary describes the queries that completed, by class and by query; a class's drift
\* compares whole windows none of which is empty; a traversal rate is all the work of the
\* repetitions over all their time.
SummaryOfCompleted ==
  /\ Answered("stats") => S!IsSummaryOf(told, asked)
  /\ Answered("drift") => S!ComparesWholeWindows(told, asked, 2)
  /\ Answered("teps") => S!IsAggregateRate(told, asked[2])

GateIsSound ==
  /\ Answered("gate") =>
       /\ G!SlowerNeverHelps(asked[1], asked[2], asked[3])
       /\ G!RulesOnEvidence(asked[1], asked[2], asked[3])
       /\ G!ExitTellsVerdict(asked[1], asked[2], asked[3])
  /\ Answered("verb") => G!NewestAgainstNewest(asked[1], asked[2], told)
  /\ Answered("flat") =>
       (told # {} <=> asked[1].p50 > 0 /\ 10 * asked[2].p50 > 11 * asked[1].p50)
  /\ Answered("ceiling") => G!CeilingAllowsDisk(asked[1], asked[2], asked[3])

RepeatsAreFair ==
  /\ Answered("noise") => R!FloorCoversRuns(asked)
  /\ Answered("pairs") => R!PairingIsFair(asked[1], asked[2], asked[3], "min", <<11, 10>>)
  /\ Answered("costs") => R!UnknownIsNoSaving(asked[1], asked[2])

RivalIsFair ==
  Answered("rival") =>
    /\ R!ProbesDoNotDecide(asked[1], asked[2])
    /\ R!CeilingOutsideBand(asked[1], asked[2])
    /\ R!FasterRivalNeverHelps(asked[1], asked[2])

\* A verdict is fair: a slower query never helps, a regression is ruled only on what both
\* sides measured and outside the noise, the exit code tells, a pairing has no favourite,
\* an unread cost is no saving, and the probe of the disk decides no race on one machine.
VerdictsAreFair == GateIsSound /\ RepeatsAreFair /\ RivalIsFair

\* A schedule is what was asked for: the mix is the composition of its weights, every draw
\* is used evenly, an open run records what it was asked to, and the full warmup reaches
\* every query.
ScheduleIsExact ==
  /\ (Answered("mix") /\ told # <<>>) =>
       /\ Q!MixIsExact(asked[1], asked[2], asked[3], Q!Shares(asked[1], asked[2], asked[3]))
       /\ Q!DrawsAreEven(told, asked[1])
  /\ Answered("open") => Q!WindowHoldsRecorded(told, asked[1], asked[2], asked[3])
  /\ (Answered("warm") /\ asked[2] = 0) => Q!WarmsEveryQuery(told, asked[1])

\* A matrix shows what its documents hold: no number that was not earned, no failure or skip
\* without its mark, no row left out, one unit to a row.
MatrixTellsAll == Answered("matrix") => M!TellsAll(asked, told)

\* budgets.go, FinBenchReadP99: "every fb-* read query holds p99 < 100 ms", a service level
\* of reads.
ReadSloIsForReads == Answered("gate") => G!SloIsForReads(asked[1])
=============================================================================
