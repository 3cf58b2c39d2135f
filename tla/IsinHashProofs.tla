--------------------------- MODULE IsinHashProofs ---------------------------
(***************************************************************************)
(* The index of a worker is one: for which sums it is, that the sum of an  *)
(* ISIN is one of those, and that every string has a sum.                  *)
(***************************************************************************)
EXTENDS IsinHash, SequenceTheorems, WellFoundedInduction, NaturalsInduction, TLAPS

\* A remainder is in its range.
LEMMA ModRange == ASSUME NEW a \in Int, NEW n \in Nat \ {0} PROVE a % n \in 0 .. n - 1
OBVIOUS

\* What is in the range is its own remainder.
LEMMA ModSmall == ASSUME NEW n \in Nat \ {0}, NEW a \in 0 .. n - 1 PROVE a % n = a
OBVIOUS

\* An int does not wrap around.
LEMMA WrapKeeps == ASSUME Half \in Nat \ {0}, NEW x \in Ints PROVE Wrap(x) = x
BY ModSmall, x + Half \in 0 .. 2 * Half - 1 DEF Wrap, Ints

\* The negation of a negative sum is positive, but for the smallest integer.
LEMMA MagnitudeRange ==
    ASSUME Half \in Nat \ {0}, NEW h \in Ints, h # -Half
    PROVE  Magnitude(h) \in 0 .. Half - 1
BY WrapKeeps, -h \in Ints DEF Magnitude, Ints

\* -Half wraps around to itself.
LEMMA SmallestStays == ASSUME Half \in Nat \ {0} PROVE Magnitude(-Half) = -Half
<1>1. (Half + Half) % (2 * Half) = 0
  OBVIOUS
<1> QED
  BY <1>1 DEF Magnitude, Wrap

\* hash(isin) % workerNum is the index of a worker for every sum but the
\* smallest integer, and for that too when it divides by the number of workers,
\* as it does for two, four or eight of them (bond_quote_service.go:163, 333).
THEOREM IndexInRange ==
    ASSUME Half \in Nat \ {0}, NEW n \in Nat \ {0}, NEW h \in Ints,
           h # -Half \/ Half % n = 0
    PROVE  Remainder(Magnitude(h), n) \in 0 .. n - 1
<1>1. CASE h # -Half
  <2>1. Magnitude(h) \in 0 .. Half - 1
    BY <1>1, MagnitudeRange
  <2>2. Magnitude(h) \in Int /\ ~(Magnitude(h) < 0)
    BY <2>1
  <2>3. Magnitude(h) % n \in 0 .. n - 1
    BY <2>2, ModRange
  <2> QED
    BY <2>2, <2>3, Zenon DEF Remainder
<1>2. CASE h = -Half /\ Half % n = 0
  <2>1. Magnitude(h) = -Half
    BY <1>2, SmallestStays
  <2> QED
    BY <1>2, <2>1 DEF Remainder
<1> QED
  BY <1>1, <1>2

\* One more character: the bound on the variable becomes 31 times itself and
\* one code.
LEMMA Character ==
    ASSUME Half \in Nat \ {0}, NEW B \in Nat, 31 * B + 127 < Half,
           NEW h \in 0 .. B, NEW c \in 0 .. 127
    PROVE  Wrap(h * 31 + c) \in 0 .. 31 * B + 127
<1>1. h * 31 + c \in 0 .. 31 * B + 127
  OBVIOUS
<1>2. h * 31 + c \in Ints
  BY <1>1 DEF Ints
<1> QED
  BY <1>1, <1>2, WrapKeeps

\* The elements of a sequence over S are in S.
LEMMA Elements == ASSUME NEW S, NEW s \in Seq(S) PROVE \A k \in 1 .. Len(s) : s[k] \in S
BY ElementOfSeq

\* The characters of an ISIN are ASCII.
Codes == 0 .. 127
\* On the machine Half is 2^63; at least 2^62 is all that is needed.
Machine == Half \in Nat /\ Half > 4611686018427387903

\* An ISIN, twelve letters and digits, is a string whose sum never wraps around
\* on 64 bits: the loop's variable is never negative, and neither the negation
\* nor its exception is reached (bond_quote_service.go:328-337).
THEOREM IsinsNeverWrap ==
    ASSUME Machine, NEW s \in Seq(Codes), Len(s) \in 0 .. 12, NEW h, IsLoop(s, h)
    PROVE  \A k \in 0 .. Len(s) : h[k] \in 0 .. Half - 1
<1> DEFINE n == Len(s)
           Within(k, B) == B \in Nat /\ B < Half /\ (k <= n => h[k] \in 0 .. B)
<1>n. n \in 0 .. 12
  OBVIOUS
<1> HIDE DEF n, Within
<1>1. \A k \in 1 .. Len(s) : s[k] \in Codes
  BY Elements
<1>2. ASSUME NEW k \in 1 .. 12, NEW B \in Nat, 31 * B + 127 < Half, Within(k - 1, B)
      PROVE  Within(k, 31 * B + 127)
  <2> SUFFICES ASSUME k <= n PROVE h[k] \in 0 .. 31 * B + 127
    BY <1>2 DEF Within
  <2>1. s[k] \in Codes /\ h[k] = Wrap(h[k - 1] * 31 + s[k])
    BY <1>1, <1>n DEF IsLoop, n
  <2>2. h[k - 1] \in 0 .. B
    BY <1>2, <1>n DEF Within
  <2>3. Half \in Nat \ {0}
    BY SMT DEF Machine
  <2>4. \A x \in 0 .. B, c \in 0 .. 127 : Wrap(x * 31 + c) \in 0 .. 31 * B + 127
    BY <1>2, <2>3, Character
  <2> QED
    BY <2>1, <2>2, <2>4 DEF Codes
<1>3. Within(0, 0)
  BY <1>n, SMT DEF Within, IsLoop, Machine
<1>4. Within(1, 127)
  BY <1>2, <1>3, SMT DEF Machine
<1>5. Within(2, 4064)
  BY <1>2, <1>4, SMT DEF Machine
<1>6. Within(3, 126111)
  BY <1>2, <1>5, SMT DEF Machine
<1>7. Within(4, 3909568)
  BY <1>2, <1>6, SMT DEF Machine
<1>8. Within(5, 121196735)
  BY <1>2, <1>7, SMT DEF Machine
<1>9. Within(6, 3757098912)
  BY <1>2, <1>8, SMT DEF Machine
<1>10. Within(7, 116470066399)
  BY <1>2, <1>9, SMT DEF Machine
<1>11. Within(8, 3610572058496)
  BY <1>2, <1>10, SMT DEF Machine
<1>12. Within(9, 111927733813503)
  BY <1>2, <1>11, SMT DEF Machine
<1>13. Within(10, 3469759748218720)
  BY <1>2, <1>12, SMT DEF Machine
<1>14. Within(11, 107562552194780447)
  BY <1>2, <1>13, SMT DEF Machine
<1>15. Within(12, 3334439118038193984)
  BY <1>2, <1>14, SMT DEF Machine
<1>16. ASSUME NEW k \in 0 .. n, NEW B, Within(k, B) PROVE h[k] \in 0 .. Half - 1
  <2>1. B \in Nat /\ B < Half /\ h[k] \in 0 .. B
    BY <1>16, <1>n DEF Within
  <2>2. Half \in Nat
    BY SMT DEF Machine
  <2> QED
    BY <2>1, <2>2
<1> QED
  <2> SUFFICES ASSUME NEW k \in 0 .. n PROVE h[k] \in 0 .. Half - 1
    BY DEF n
  <2>1. k = 0 \/ k = 1 \/ k = 2 \/ k = 3 \/ k = 4 \/ k = 5 \/ k = 6 \/ k = 7 \/ k = 8
        \/ k = 9 \/ k = 10 \/ k = 11 \/ k = 12
    BY <1>n
  <2>2. CASE k \in {0, 1, 2, 3}
    BY <1>3, <1>4, <1>5, <1>6, <1>16, <2>2
  <2>3. CASE k \in {4, 5, 6}
    BY <1>7, <1>8, <1>9, <1>16, <2>3
  <2>4. CASE k \in {7, 8, 9}
    BY <1>10, <1>11, <1>12, <1>16, <2>4
  <2>5. CASE k \in {10, 11, 12}
    BY <1>13, <1>14, <1>15, <1>16, <2>5
  <2> QED
    BY <2>1, <2>2, <2>3, <2>4, <2>5
-----------------------------------------------------------------------------
(* The sum of a string of any length, by induction.                        *)

\* Induction over the naturals: the least number outside S would have its
\* predecessor in S.
LEMMA Induct ==
    ASSUME NEW S \in SUBSET Nat, 0 \in S, \A n \in S : n + 1 \in S
    PROVE  S = Nat
<1> DEFINE LessThan == OpToRel(<, Nat)
<1>1. \A x, y \in Nat : <<x, y>> \in LessThan <=> x < y
  BY DEF OpToRel
<1>2. IsWellFoundedOn(LessThan, Nat)
  BY NatLessThanWellFounded
<1> HIDE DEF LessThan
<1> SUFFICES ASSUME Nat \ S # {} PROVE FALSE
  OBVIOUS
<1>3. PICK x \in Nat \ S : \A y \in Nat \ S : ~ (<<y, x>> \in LessThan)
  BY <1>2, WFMin
<1>4. x - 1 \in Nat \ S /\ x - 1 < x
  BY <1>3
<1> QED
  BY <1>1, <1>3, <1>4

\* Wrapping around gives an int.
LEMMA WrapRange == ASSUME Half \in Nat \ {0}, NEW x \in Int PROVE Wrap(x) \in Ints
<1>1. (x + Half) % (2 * Half) \in 0 .. 2 * Half - 1
  BY ModRange, x + Half \in Int, 2 * Half \in Nat \ {0}
<1> QED
  BY <1>1 DEF Wrap, Ints

\* The loop runs for every string, its variable is always an int, and the sum
\* is what it holds at the end.
LEMMA LoopRuns ==
    ASSUME Half \in Nat \ {0}, NEW s \in Seq(Int)
    PROVE  \E h : /\ IsLoop(s, h) /\ Sum(s) = h[Len(s)]
                  /\ \A k \in 0 .. Len(s) : h[k] \in Ints
<1> DEFINE Step(h, k) == IF k = 0 THEN 0 ELSE Wrap(h[k - 1] * 31 + s[k])
           Runs(n, h) == h = [k \in 0 .. n |-> Step(h, k)]
           N == {n \in Nat : \E h : Runs(n, h)}
<1>1. N = Nat
  <2>1. 0 \in N
    <3>1. Runs(0, [k \in 0 .. 0 |-> 0])
      OBVIOUS
    <3> HIDE DEF Runs
    <3> QED
      BY <3>1
  <2>2. ASSUME NEW n \in N PROVE n + 1 \in N
    <3>1. PICK h : Runs(n, h)
      OBVIOUS
    <3> DEFINE g == [k \in 0 .. n + 1 |-> IF k = n + 1 THEN Step(h, k) ELSE h[k]]
    <3>2. ASSUME NEW k \in 0 .. n + 1 PROVE g[k] = Step(g, k)
      <4>1. k # 0 => g[k - 1] = h[k - 1]
        OBVIOUS
      <4>2. k \in 0 .. n => h[k] = Step(h, k)
        BY <3>1
      <4>3. g[k] = Step(h, k)
        BY <4>2
      <4> QED
        BY <4>1, <4>3
    <3>3. Runs(n + 1, g) /\ n + 1 \in Nat
      <4>1. DOMAIN g = 0 .. n + 1 /\ g = [k \in DOMAIN g |-> g[k]]
        OBVIOUS
      <4> HIDE DEF g, Step
      <4> QED
        BY <3>2, <4>1
    <3> HIDE DEF Runs, g
    <3> QED
      BY <3>3
  <2> HIDE DEF N
  <2> QED
    BY <2>1, <2>2, Induct DEF N
<1>2. Len(s) \in Nat
  OBVIOUS
<1>3. PICK h : Runs(Len(s), h) /\ Sum(s) = h[Len(s)]
  <2>1. \E h : Runs(Len(s), h)
    BY <1>1, <1>2
  <2>2. Runs(Len(s), CHOOSE h : Runs(Len(s), h))
    <3> HIDE DEF Runs
    <3> QED
      BY <2>1, Zenon
  <2>3. Sum(s) = (CHOOSE h : Runs(Len(s), h))[Len(s)]
    BY Zenon DEF Sum
  <2> QED
    BY <2>2, <2>3
<1>4. h[0] = 0 /\ \A k \in 1 .. Len(s) : h[k] = Wrap(h[k - 1] * 31 + s[k])
  <2>1. \A k \in 0 .. Len(s) : h[k] = Step(h, k)
    <3> HIDE DEF Step
    <3> QED
      BY <1>3
  <2>2. Step(h, 0) = 0 /\ 0 \in 0 .. Len(s)
    BY <1>2
  <2>3. ASSUME NEW k \in 1 .. Len(s) PROVE k \in 0 .. Len(s) /\ Step(h, k) = Wrap(h[k - 1] * 31 + s[k])
    BY <1>2
  <2> HIDE DEF Step
  <2> QED
    BY <2>1, <2>2, <2>3
<1>5. \A k \in 1 .. Len(s) : s[k] \in Int
  BY Elements
<1> DEFINE T == {n \in Nat : n \in 0 .. Len(s) => h[n] \in Ints}
<1>6. T = Nat
  <2>1. 0 \in T
    BY <1>4 DEF Ints
  <2>2. ASSUME NEW n \in T PROVE n + 1 \in T
    <3> SUFFICES ASSUME n + 1 \in 0 .. Len(s) PROVE h[n + 1] \in Ints
      OBVIOUS
    <3>1. n \in 0 .. Len(s) /\ n + 1 \in 1 .. Len(s) /\ (n + 1) - 1 = n
      BY <1>2
    <3>2. h[n] \in Ints /\ s[n + 1] \in Int /\ h[n + 1] = Wrap(h[n] * 31 + s[n + 1])
      BY <1>4, <1>5, <3>1
    <3>3. h[n] * 31 + s[n + 1] \in Int
      BY <3>2 DEF Ints
    <3> QED
      BY <3>2, <3>3, WrapRange
  <2> HIDE DEF T
  <2> QED
    BY <2>1, <2>2, Induct DEF T
<1>7. \A k \in 0 .. Len(s) : h[k] \in Ints
  BY <1>2, <1>6
<1>8. h \in [0 .. Len(s) -> Int]
  <2>1. h = [k \in 0 .. Len(s) |-> Step(h, k)]
    BY <1>3
  <2> HIDE DEF Step
  <2>2. DOMAIN h = 0 .. Len(s) /\ h = [k \in DOMAIN h |-> h[k]]
    BY <2>1
  <2> QED
    BY <1>7, <2>2 DEF Ints
<1> QED
  BY <1>3, <1>4, <1>7, <1>8 DEF IsLoop

\* Every string, of any characters and any length, goes to a worker, unless its
\* sum is the smallest integer and the number of workers does not divide that
\* (bond_quote_service.go:163, 328-337).
THEOREM StringsHaveWorkers ==
    ASSUME Half \in Nat \ {0}, NEW s \in Seq(Int), NEW n \in Nat \ {0},
           Sum(s) # -Half \/ Half % n = 0
    PROVE  WorkerIndex(s, n) \in 0 .. n - 1
<1>1. Sum(s) \in Ints
  <2>1. Len(s) \in 0 .. Len(s)
    OBVIOUS
  <2> QED
    BY <2>1, LoopRuns
<1> QED
  BY <1>1, IndexInRange DEF WorkerIndex

\* Every ISIN goes to a worker, however many there are: the index into
\* workerChans is never out of its range (bond_quote_service.go:163, 328-337).
THEOREM IsinsHaveWorkers ==
    ASSUME Machine, NEW s \in Seq(Codes), Len(s) \in 0 .. 12, NEW n \in Nat \ {0}
    PROVE  WorkerIndex(s, n) \in 0 .. n - 1
<1>1. Half \in Nat \ {0}
  BY SMT DEF Machine
<1>2. s \in Seq(Int)
  <2>1. \A k \in 1 .. Len(s) : s[k] \in Int
    <3>1. \A k \in 1 .. Len(s) : s[k] \in Codes
      BY Elements
    <3>2. Codes \subseteq Int
      BY DEF Codes
    <3> QED
      BY <3>1, <3>2
  <2> QED
    BY <2>1
<1>3. PICK h : IsLoop(s, h) /\ Sum(s) = h[Len(s)]
  BY <1>1, <1>2, LoopRuns
<1>4. Sum(s) \in 0 .. Half - 1
  BY <1>3, IsinsNeverWrap, Len(s) \in 0 .. Len(s)
<1>5. Sum(s) # -Half
  BY <1>1, <1>4
<1> QED
  BY <1>1, <1>2, <1>5, StringsHaveWorkers
=============================================================================
