--------------------------------- MODULE Prng ---------------------------------
(***************************************************************************)
(* The one source of randomness of a generator (dataset/gen/prng.go), with *)
(* words of Bits bits in place of 64. A draw takes the state it starts     *)
(* from and returns [v, st]: the value and the state it leaves.            *)
(***************************************************************************)
EXTENDS Integers, FiniteSets, Bitwise

CONSTANTS Bits,      \* an even number
          Golden,    \* the increment, odd
          Mixers     \* the two multipliers, odd, and the three shifts

Words == 2^Bits
Word == 0..(Words - 1)

\* Two rounds of xor-shift-multiply and a last xor-shift.
Mixed ==
  [s \in Word |->
     LET shifted(z, k) == z ^^ shiftR(z, Mixers.shifts[k])
         round(z, k) == (shifted(z, k) * Mixers.by[k]) % Words
     IN shifted(round(round(s, 1), 2), 3)]

\* A negative seed is its two's complement.
NewPRNG(seed) == seed % Words
WordOf(s) == [v |-> Mixed[s], st |-> s]
NextWord(st) == WordOf((st + Golden) % Words)

\* The schoolbook product of two words, from halves of them.
Mul64[x \in Word, y \in Word] ==
  LET half == 2^(Bits \div 2)
      low(z) == z % half
      high(z) == z \div half
      inner(t) == ((low(t) + low(x) * high(y)) % Words)
      top(t) == (high(x) * high(y) + high(t) + high(inner(t))) % Words
  IN [hi |-> top((high(x) * low(y) + high(low(x) * low(y))) % Words), lo |-> (x * y) % Words]

PowerOfTwo(n) == n \in {2^k : k \in 0..Bits}
Threshold(n) == (Words - n) % n

\* Mask or multiply: the word x gives, or none when it would favour a bucket.
Accepts(n, x) == PowerOfTwo(n) \/ Mul64[x, n].lo >= Threshold(n)
Bucket(n, x) == IF PowerOfTwo(n) THEN x % n ELSE Mul64[x, n].hi

RECURSIVE Below(_, _)
Below(x, n) ==
  IF Accepts(n, x.v) THEN [v |-> Bucket(n, x.v), st |-> x.st] ELSE Below(NextWord(x.st), n)
Int63n(st, n) == Below(NextWord(st), n)

\* A fraction of Unit: the word without its low bits, which a mantissa has no room for.
Unit == Words \div 2
Fraction(x) == [v |-> x.v \div 2, st |-> x.st]
Float64(st) == Fraction(NextWord(st))

-----------------------------------------------------------------------------
(* What a draw promises.                                                     *)

\* Every value below n is drawn, and from as many words as any other.
Unbiased(n) ==
  LET words == {x \in Word : Accepts(n, x)}
      from == [v \in 0..(n - 1) |-> Cardinality({x \in words : Bucket(n, x) = v})]
  IN \A v \in 0..(n - 1) : from[v] = from[0] /\ from[v] > 0

\* The product is that of the integers; every word comes up once in a period.
ExactProducts == \A x, y \in Word : Mul64[x, y] = [hi |-> (x * y) \div Words, lo |-> (x * y) % Words]
FullPeriod == {Mixed[s] : s \in Word} = Word
=============================================================================
