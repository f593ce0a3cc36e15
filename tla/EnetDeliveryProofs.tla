------------------------- MODULE EnetDeliveryProofs -------------------------
(***************************************************************************)
(* One channel of ENet with all the commands that carry data, for windows, *)
(* packets and fragments of any size and number.                           *)
(***************************************************************************)
EXTENDS EnetDelivery, FiniteSetTheorems, SequenceTheorems, WellFoundedInduction, TLAPS

-----------------------------------------------------------------------------
(***************************************************************************)
(* Arithmetic of numbers that are cut.                                     *)
(***************************************************************************)

\* The quotient and the remainder that div and % give.
LEMMA DivMod ==
  ASSUME NEW a \in Int, NEW b \in Nat \ {0}
  PROVE  /\ a \div b \in Int /\ a % b \in 0 .. b - 1
         /\ a = b * (a \div b) + (a % b)
OBVIOUS

\* A larger factor makes a difference of at least one b.
LEMMA Times ==
  ASSUME NEW b \in Nat, NEW p \in Int, NEW q \in Int, p < q
  PROVE  b * p + b <= b * q
<1>1. PICK d \in Nat : q = p + 1 + d
  <2>1. q - p - 1 \in Nat /\ q = p + 1 + (q - p - 1)
    OBVIOUS
  <2> QED
    BY <2>1
<1>2. b * q = b * p + b + b * d
  BY <1>1
<1>3. b * d \in Nat /\ b * p \in Int
  OBVIOUS
<1> QED
  BY <1>2, <1>3

\* A quotient and a remainder are the only ones.
LEMMA QuotientIs ==
  ASSUME NEW a \in Int, NEW b \in Nat \ {0}, NEW q \in Int, NEW r \in 0 .. b - 1,
         a = b * q + r
  PROVE  a \div b = q /\ a % b = r
<1> DEFINE p == a \div b
           s == a % b
<1>1. p \in Int /\ s \in 0 .. b - 1 /\ a = b * p + s
  BY DivMod
<1> HIDE DEF p, s
<1>2. b * p \in Int /\ b * q \in Int
  BY <1>1
<1>3. ~(p < q)
  BY <1>1, <1>2, Times
<1>4. ~(q < p)
  BY <1>1, <1>2, Times
<1>5. p = q
  BY <1>1, <1>3, <1>4
<1> QED
  BY <1>1, <1>5 DEF p, s

\* Two numbers less than a lap apart are not cut to the same.
LEMMA CutUnique ==
  ASSUME NEW b \in Nat \ {0}, NEW m \in Nat, NEW n \in Nat, m % b = n % b,
         m - n < b, n - m < b
  PROVE  m = n
<1> DEFINE p == m \div b
           q == n \div b
           r == m % b
<1>1. p \in Int /\ q \in Int /\ r \in 0 .. b - 1 /\ m = b * p + r /\ n = b * q + r
  <2>1. p \in Int /\ r \in 0 .. b - 1 /\ m = b * p + r
    BY DivMod
  <2>2. q \in Int /\ n = b * q + (n % b)
    BY DivMod
  <2> QED
    BY <2>1, <2>2
<1> HIDE DEF p, q, r
<1>2. b * p \in Int /\ b * q \in Int
  BY <1>1
<1>3. ~(p < q)
  BY <1>1, <1>2, Times
<1>4. ~(q < p)
  BY <1>1, <1>2, Times
<1> QED
  BY <1>1, <1>3, <1>4

\* Numbers may be cut before they are added,
LEMMA CutAdd ==
  ASSUME NEW b \in Nat \ {0}, NEW m \in Nat, NEW k \in Nat
  PROVE  ((m % b) + k) % b = (m + k) % b
<1> DEFINE p == m \div b
           r == m % b
           a == r + k
           q == a \div b
           t == a % b
<1>1. p \in Int /\ r \in 0 .. b - 1 /\ m = b * p + r
  BY DivMod
<1> HIDE DEF p, r
<1>2. a \in Int
  BY <1>1
<1>3. q \in Int /\ t \in 0 .. b - 1 /\ a = b * q + t
  BY <1>2, DivMod
<1> HIDE DEF q, t
<1>4. m + k = b * (p + q) + t /\ p + q \in Int /\ m + k \in Int
  BY <1>1, <1>3
<1>5. (m + k) % b = t
  <2> DEFINE u == p + q
             v == m + k
  <2>1. v = b * u + t /\ u \in Int /\ v \in Int
    BY <1>4
  <2> HIDE DEF u, v
  <2>2. v % b = t
    BY <1>3, <2>1, QuotientIs
  <2> QED
    BY <2>2 DEF v
<1> QED
  BY <1>5 DEF t, r

\* and before they are subtracted.
LEMMA CutSubtract ==
  ASSUME NEW b \in Nat \ {0}, NEW m \in Nat, NEW n \in Nat, n <= m, m - n < b
  PROVE  ((m % b) - (n % b)) % b = m - n
<1> DEFINE p == m \div b
           r == m % b
           q == n \div b
           t == n % b
           a == r - t
           d == m - n
<1>1. p \in Int /\ r \in 0 .. b - 1 /\ m = b * p + r
  BY DivMod
<1>2. q \in Int /\ t \in 0 .. b - 1 /\ n = b * q + t
  BY DivMod
<1> HIDE DEF p, r, q, t
<1>3. a \in Int /\ d \in 0 .. b - 1 /\ q - p \in Int /\ a = b * (q - p) + d
  BY <1>1, <1>2
<1>4. a % b = d
  <2> DEFINE u == q - p
  <2>1. a \in Int /\ d \in 0 .. b - 1 /\ u \in Int /\ a = b * u + d
    BY <1>3
  <2> HIDE DEF u, a, d
  <2> QED
    BY <2>1, QuotientIs
<1> QED
  BY <1>4 DEF r, t

\* How many windows apart numbers are.
LEMMA WindowsApart ==
  ASSUME NEW m \in Nat, NEW n \in Nat, NEW k \in Nat
  PROVE  /\ n <= m + WindowSize * k => Window(n) <= Window(m) + k
         /\ n >= m + WindowSize * k => Window(n) >= Window(m) + k
<1> DEFINE b == WindowSize
           p == Window(m)
           q == Window(n)
           r == m % WindowSize
           s == n % WindowSize
<1>1. /\ b \in Nat \ {0} /\ p \in Int /\ q \in Int /\ r \in 0 .. b - 1 /\ s \in 0 .. b - 1
      /\ m = b * p + r /\ n = b * q + s
  <2>1. WindowSize \in Nat \ {0}
    BY DeliveryAssumption
  <2>2. p \in Int /\ r \in 0 .. b - 1 /\ m = b * p + r
    BY <2>1, DivMod DEF Window
  <2>3. q \in Int /\ s \in 0 .. b - 1 /\ n = b * q + s
    BY <2>1, DivMod DEF Window
  <2> QED
    BY <2>1, <2>2, <2>3
<1> HIDE DEF b, p, q, r, s
<1>2. b * p \in Int /\ b * q \in Int /\ b * k \in Int /\ b * (p + k) = b * p + b * k /\ p + k \in Int
  BY <1>1
<1>3. ASSUME n <= m + b * k, p + k < q PROVE FALSE
  <2>1. b * (p + k) + b <= b * q
    BY <1>1, <1>2, <1>3, Times
  <2> QED
    BY <1>1, <1>2, <1>3, <2>1
<1>4. ASSUME n >= m + b * k, q < p + k PROVE FALSE
  <2>1. b * q + b <= b * (p + k)
    BY <1>1, <1>2, <1>4, Times
  <2> QED
    BY <1>1, <1>2, <1>4, <2>1
<1> QED
  BY <1>1, <1>3, <1>4 DEF b, p, q

\* By how many numbers a command may lag behind the last one delivered.
Reach == (Windows - FreeWindows + 1) * WindowSize

LEMMA Sizes ==
  /\ WindowSize \in Nat \ {0} /\ Windows \in Nat \ {0} /\ FreeWindows \in Nat /\ FreeWindows >= 2
  /\ Space \in Nat \ {0} /\ GroupSpace \in Nat \ {0} /\ GroupWindowSize \in Nat \ {0}
  /\ Reach \in Nat /\ Reach + (FreeWindows - 1) * WindowSize = Space /\ Reach < Space
  /\ Fragments \in Nat /\ Fragments >= 2 /\ UnreliableLimit \in Nat
  /\ Before \in Nat /\ MaxPackets \in Nat /\ MaxAhead \in Nat /\ MaxLag \in Nat
<1>1. /\ WindowSize \in Nat \ {0} /\ Windows \in Nat \ {0} /\ FreeWindows \in Nat /\ FreeWindows >= 2
      /\ Windows >= FreeWindows
      /\ GroupWindowSize \in Nat \ {0} /\ FreeGroupWindows \in Nat \ {0} /\ UnreliableLimit \in Nat
      /\ Fragments \in Nat /\ Fragments >= 2
      /\ Before \in Nat /\ MaxPackets \in Nat /\ MaxAhead \in Nat /\ MaxLag \in Nat
  BY DeliveryAssumption
<1>2. Space \in Nat \ {0}
  BY <1>1 DEF Space
<1>3. GroupSpace \in Nat \ {0}
  <2>1. 2 * FreeGroupWindows \in Nat \ {0}
    BY <1>1
  <2> HIDE DEF GroupSpace
  <2> DEFINE d == 2 * FreeGroupWindows
  <2>2. d * GroupWindowSize \in Nat \ {0}
    <3> HIDE DEF d
    <3> QED
      BY <1>1, <2>1 DEF d
  <2> QED
    BY <2>2 DEF GroupSpace
<1>4. PICK d \in Nat : Windows = FreeWindows + d
  <2>1. Windows - FreeWindows \in Nat /\ Windows = FreeWindows + (Windows - FreeWindows)
    BY <1>1
  <2> QED
    BY <2>1
<1>5. PICK e \in Nat : FreeWindows = e + 2
  <2>1. FreeWindows - 2 \in Nat /\ FreeWindows = (FreeWindows - 2) + 2
    BY <1>1
  <2> QED
    BY <2>1
<1>6. Reach = d * WindowSize + WindowSize /\ d * WindowSize \in Nat
  BY <1>1, <1>4 DEF Reach
<1>7. (FreeWindows - 1) * WindowSize = e * WindowSize + WindowSize /\ e * WindowSize \in Nat
  BY <1>1, <1>5
<1>8. Space = d * WindowSize + e * WindowSize + 2 * WindowSize
  BY <1>1, <1>4, <1>5 DEF Space
<1> QED
  BY <1>1, <1>2, <1>3, <1>6, <1>7, <1>8

\* What was delivered is not taken for new as long as it lags by no more than Reach.
LEMMA OldIsOld ==
  ASSUME NEW last \in Nat, inRel = last % Space, NEW n \in Nat, n <= last, last - n <= Reach
  PROVE  n % Space = inRel \/ ~InWindow(n % Space)
<1> DEFINE l == last % Space
           r == n % Space
           q == last \div Space
           p == n \div Space
<1>1. q \in Int /\ last = Space * q + l /\ l \in 0 .. Space - 1
  BY DivMod, Sizes
<1>2. p \in Int /\ n = Space * p + r /\ r \in 0 .. Space - 1
  BY DivMod, Sizes
<1> HIDE DEF l, r, p, q
<1>3. Space * p \in Int /\ Space * q \in Int /\ Space * (p + 1) = Space * p + Space
  BY <1>1, <1>2, Sizes
<1>4. ~(q < p)
  <2> SUFFICES ASSUME q < p PROVE FALSE
    OBVIOUS
  <2>1. Space * q + Space <= Space * p
    BY <1>1, <1>2, Times, Sizes
  <2> QED
    BY <1>1, <1>2, <1>3, <2>1, Sizes
<1>5. ~(p + 1 < q)
  <2> SUFFICES ASSUME p + 1 < q PROVE FALSE
    OBVIOUS
  <2>1. Space * (p + 1) + Space <= Space * q
    <3> DEFINE u == p + 1
    <3>1. u \in Int /\ u < q
      BY <1>2
    <3> HIDE DEF u
    <3>2. Space * u + Space <= Space * q
      BY <1>1, <3>1, Times, Sizes
    <3> QED
      BY <3>2 DEF u
  <2> QED
    BY <1>1, <1>2, <1>3, <2>1, Sizes
<1>6. Window(l) \in Int /\ Window(r) \in Int
  BY <1>1, <1>2, DivMod, Sizes DEF Window
<1>7. CASE q = p
  <2>1. r <= l /\ l <= r + Reach
    BY <1>1, <1>2, <1>3, <1>7, Sizes
  <2> DEFINE k == Windows - FreeWindows + 1
  <2>2. k \in Nat /\ Reach = WindowSize * k
    BY DeliveryAssumption DEF Reach
  <2> HIDE DEF k
  <2>3. Window(l) <= Window(r) + k
    BY <1>1, <1>2, <2>1, <2>2, WindowsApart
  <2>4. CASE r < l
    BY <1>6, <2>3, <2>4, Sizes DEF InWindow, k, l, r
  <2>5. CASE r = l
    BY <2>5 DEF r, l
  <2> QED
    BY <1>1, <1>2, <2>1, <2>4, <2>5
<1>8. CASE q = p + 1
  <2>1. r >= l + WindowSize * (FreeWindows - 1)
    <3>1. r >= l + (Space - Reach)
      BY <1>1, <1>2, <1>3, <1>8, Sizes
    <3>2. Space - Reach = WindowSize * (FreeWindows - 1)
      BY Sizes
    <3> QED
      BY <3>1, <3>2
  <2>2. Window(r) >= Window(l) + (FreeWindows - 1) /\ ~(r < l)
    <3> DEFINE k == FreeWindows - 1
    <3>1. k \in Nat /\ WindowSize * k \in Nat
      BY Sizes
    <3> HIDE DEF k
    <3>2. r >= l + WindowSize * k
      BY <2>1 DEF k
    <3>3. Window(r) >= Window(l) + k
      BY <1>1, <1>2, <3>1, <3>2, WindowsApart
    <3> QED
      BY <1>1, <1>2, <3>1, <3>2, <3>3 DEF k
  <2> QED
    BY <1>6, <2>2, Sizes DEF InWindow, l, r
<1> QED
  BY <1>1, <1>2, <1>4, <1>5, <1>7, <1>8

-----------------------------------------------------------------------------
(***************************************************************************)
(* Loops, and the largest and the smallest of a set.                       *)
(***************************************************************************)

\* What holds at the start of a loop, and after a turn if before, holds throughout.
LEMMA Throughout ==
  ASSUME NEW n \in Nat, NEW T, 0 \in T, \A k \in 1 .. n : k - 1 \in T => k \in T
  PROVE  \A k \in 0 .. n : k \in T
<1> DEFINE Bad == {k \in 0 .. n : k \notin T}
<1>1. ASSUME Bad # {} PROVE FALSE
  <2>1. Bad \subseteq Nat
    OBVIOUS
  <2>2. \E k \in Bad : \A j \in Bad : ~(j < k)
    <3> HIDE DEF Bad
    <3>1. PICK k \in Bad : \A j \in Bad : <<j, k>> \notin OpToRel(<, Nat)
      BY <1>1, <2>1, WFMin, NatLessThanWellFounded, Zenon
    <3>2. \A j \in Bad : ~(j < k)
      BY <2>1, <3>1, Zenon DEF OpToRel
    <3> QED
      BY <3>2
  <2>3. PICK k \in Bad : \A j \in Bad : ~(j < k)
    BY <2>2
  <2>4. k \in 0 .. n /\ k \notin T /\ k # 0
    OBVIOUS
  <2>5. k - 1 \in Bad /\ k - 1 < k
    BY <2>4
  <2> QED
    BY <2>3, <2>5
<1> QED
  BY <1>1

LEMMA MinExists ==
  ASSUME NEW S \in SUBSET Nat, S # {}
  PROVE  Min(S) \in S /\ \A x \in S : Min(S) <= x
<1>1. PICK k \in S : \A j \in S : <<j, k>> \notin OpToRel(<, Nat)
  BY WFMin, NatLessThanWellFounded, Zenon
<1>2. \A j \in S : ~(j < k)
  BY <1>1, Zenon DEF OpToRel
<1>3. \A j \in S : k <= j
  BY <1>2
<1> QED
  BY <1>3 DEF Min

LEMMA MaxExists ==
  ASSUME NEW n \in Nat, NEW S \in SUBSET (0 .. n), S # {}
  PROVE  Max(S) \in S /\ \A x \in S : x <= Max(S)
<1> DEFINE B == {n - x : x \in S}
<1>1. B \in SUBSET Nat /\ B # {}
  <2>1. \A x \in S : x \in 0 .. n /\ n - x \in Nat
    OBVIOUS
  <2>2. PICK x \in S : TRUE
    OBVIOUS
  <2>3. n - x \in B
    BY <2>2
  <2> QED
    BY <2>1, <2>3
<1>2. Min(B) \in B /\ \A y \in B : Min(B) <= y
  BY <1>1, MinExists
<1>3. PICK m \in S : Min(B) = n - m
  BY <1>2
<1>4. \A x \in S : m >= x
  <2> SUFFICES ASSUME NEW x \in S PROVE m >= x
    OBVIOUS
  <2>1. n - m <= n - x
    BY <1>2, <1>3
  <2> QED
    BY <2>1
<1>5. Max(S) \in S /\ \A x \in S : Max(S) >= x
  BY <1>4 DEF Max
<1> QED
  BY <1>5

\* How many numbers an incoming command takes.
LEMMA MaxOfTwo ==
  ASSUME NEW a \in Nat
  PROVE  Max({a, 1}) = IF a = 0 THEN 1 ELSE a
<1>1. /\ {a, 1} \in SUBSET (0 .. a + 1) /\ {a, 1} # {} /\ a + 1 \in Nat
  OBVIOUS
<1>2. Max({a, 1}) \in {a, 1} /\ \A x \in {a, 1} : x <= Max({a, 1})
  <2> HIDE DEF Max
  <2> QED
    BY <1>1, MaxExists
<1> QED
  BY <1>2

ReachUpTo(f, in, queue, n) ==
  f = [k \in 0 .. n |-> IF k = 0 THEN [last |-> in, taken |-> <<>>] ELSE TakeInTurn(f[k - 1], queue)]

\* The function that defines InSequence exists, for any number of turns.
LEMMA ReachExists ==
  ASSUME NEW in, NEW queue, NEW n \in Nat
  PROVE  \E f : ReachUpTo(f, in, queue, n)
<1> DEFINE start == [last |-> in, taken |-> <<>>]
           T == {k \in Nat : \E f : ReachUpTo(f, in, queue, k)}
<1>1. 0 \in T
  <2>1. ReachUpTo([i \in 0 .. 0 |-> start], in, queue, 0)
    BY DEF ReachUpTo
  <2> QED
    BY <2>1
<1>2. ASSUME NEW k \in 1 .. n, k - 1 \in T
      PROVE  k \in T
  <2>1. PICK f : ReachUpTo(f, in, queue, k - 1)
    BY <1>2
  <2> DEFINE g == [i \in 0 .. k |-> IF i = k THEN TakeInTurn(f[k - 1], queue) ELSE f[i]]
  <2>2. ReachUpTo(g, in, queue, k)
    <3>1. \A i \in 0 .. k - 1 : f[i] = IF i = 0 THEN start ELSE TakeInTurn(f[i - 1], queue)
      BY <2>1 DEF ReachUpTo
    <3> HIDE DEF start
    <3>2. \A i \in 0 .. k : g[i] = IF i = 0 THEN start ELSE TakeInTurn(g[i - 1], queue)
      BY <3>1
    <3> HIDE DEF g
    <3>3. g = [i \in 0 .. k |-> g[i]]
      BY DEF g
    <3> QED
      BY <3>2, <3>3 DEF ReachUpTo, start
  <2> QED
    BY <2>2
<1> HIDE DEF T
<1>3. \A k \in 0 .. n : k \in T
  BY <1>1, <1>2, Throughout
<1>4. n \in T
  BY <1>3
<1> QED
  BY <1>4 DEF T

\* The steps from a number to what follows it without a gap.
LEMMA InSequenceSteps ==
  ASSUME NEW in, NEW queue, IsFiniteSet(queue)
  PROVE  /\ Cardinality(queue) \in Nat
         /\ \E f : /\ f[0] = [last |-> in, taken |-> <<>>]
                   /\ InSequence(in, queue) = f[Cardinality(queue)]
                   /\ \A k \in 1 .. Cardinality(queue) : f[k] = TakeInTurn(f[k - 1], queue)
<1> DEFINE n == Cardinality(queue)
           f == CHOOSE f : ReachUpTo(f, in, queue, n)
<1>1. n \in Nat
  BY FS_CardinalityType
<1>2. ReachUpTo(f, in, queue, n) /\ InSequence(in, queue) = f[n]
  BY <1>1, ReachExists DEF ReachUpTo, InSequence
<1> HIDE DEF f, n
<1>3. /\ f[0] = [last |-> in, taken |-> <<>>] /\ InSequence(in, queue) = f[n]
      /\ \A k \in 1 .. n : f[k] = TakeInTurn(f[k - 1], queue)
  BY <1>1, <1>2 DEF ReachUpTo
<1> QED
  BY <1>1, <1>3 DEF n

LEMMA TakeInTurnCases ==
  ASSUME NEW r, NEW queue
  PROVE  \/ InTurn(r.last, queue) = {} /\ TakeInTurn(r, queue) = r
         \/ \E h \in InTurn(r.last, queue) :
              TakeInTurn(r, queue) = [last |-> LastNumber(r.last, h), taken |-> Append(r.taken, h)]
BY DEF TakeInTurn

\* Numbers stay in their range, what is taken is of the queue, and the number
\* stays if nothing is taken.
LEMMA InSequenceTypes ==
  ASSUME NEW in \in 0 .. Space - 1, NEW queue, IsFiniteSet(queue), \A h \in queue : h.count \in Nat
  PROVE  LET r == InSequence(in, queue)
         IN  r.last \in 0 .. Space - 1 /\ r.taken \in Seq(queue) /\ (r.taken = <<>> => r.last = in)
<1> DEFINE n == Cardinality(queue)
           R == [last : 0 .. Space - 1, taken : Seq(queue)]
<1>1. n \in Nat
  BY InSequenceSteps
<1>2. PICK f : /\ f[0] = [last |-> in, taken |-> <<>>] /\ InSequence(in, queue) = f[n]
               /\ \A k \in 1 .. n : f[k] = TakeInTurn(f[k - 1], queue)
  BY InSequenceSteps
<1> HIDE DEF n
<1> DEFINE T == {k \in 0 .. n : f[k] \in R /\ (f[k].taken = <<>> => f[k].last = in)}
<1>3. 0 \in T
  <2>1. <<>> \in Seq(queue)
    BY EmptySeq
  <2> DEFINE start == [last |-> in, taken |-> <<>>]
  <2>2. start \in R
    BY <2>1
  <2>3. f[0] = start /\ start.last = in
    BY <1>2
  <2>4. start.taken = <<>>
    OBVIOUS
  <2> HIDE DEF start, R
  <2> QED
    BY <1>1, <2>2, <2>3, <2>4
<1>4. \A k \in 1 .. n : k - 1 \in T => k \in T
  <2> SUFFICES ASSUME NEW k \in 1 .. n, k - 1 \in T PROVE k \in T
    OBVIOUS
  <2> DEFINE r == f[k - 1]
  <2>1. r.last \in 0 .. Space - 1 /\ r.taken \in Seq(queue) /\ f[k] = TakeInTurn(r, queue)
    BY <1>2
  <2>2. r \in R /\ (r.taken = <<>> => r.last = in)
    OBVIOUS
  <2> HIDE DEF r
  <2>3. ASSUME NEW h \in InTurn(r.last, queue),
               TakeInTurn(r, queue) = [last |-> LastNumber(r.last, h), taken |-> Append(r.taken, h)]
        PROVE  f[k] \in R /\ f[k].taken # <<>>
    <3>1. h \in queue
      BY DEF InTurn
    <3>2. Append(r.taken, h) \in Seq(queue) /\ Append(r.taken, h) # <<>>
      BY <2>1, <3>1, AppendProperties
    <3>3. LastNumber(r.last, h) \in 0 .. Space - 1
      <4>1. h.count \in Nat
        BY <3>1
      <4>2. Max({h.count, 1}) \in Nat
        BY <4>1, MaxOfTwo
      <4> HIDE DEF Max
      <4>3. r.last + Max({h.count, 1}) \in Int
        BY <2>1, <4>2, Sizes
      <4> QED
        BY <4>3, DivMod, Sizes DEF LastNumber
    <3> QED
      BY <2>1, <2>3, <3>2, <3>3
  <2> QED
    BY <2>1, <2>2, <2>3, TakeInTurnCases, SMTT(30)
<1> HIDE DEF T
<1>5. n \in T
  <2>1. \A k \in 0 .. n : k \in T
    BY <1>1, <1>3, <1>4, Throughout
  <2> QED
    BY <1>1, <2>1
<1>6. f[n] \in R /\ (f[n].taken = <<>> => f[n].last = in)
  BY <1>5 DEF T
<1> QED
  BY <1>2, <1>6

\* A number is no less than what is left of it.
LEMMA CutIsLess ==
  ASSUME NEW a \in Nat, NEW b \in Nat \ {0}
  PROVE  a % b \in 0 .. b - 1 /\ a - (a % b) \in 0 .. a
<1> DEFINE q == a \div b
           r == a % b
<1>1. q \in Int /\ r \in 0 .. b - 1 /\ a = b * q + r
  BY DivMod
<1> HIDE DEF q, r
<1>2. ~(q < 0)
  <2> SUFFICES ASSUME q < 0 PROVE FALSE
    OBVIOUS
  <2>1. b * q + b <= b * 0
    BY <1>1, Times
  <2> QED
    BY <1>1, <2>1
<1>3. b * q \in Nat
  BY <1>1, <1>2
<1>4. r \in 0 .. b - 1 /\ a - r \in 0 .. a
  BY <1>1, <1>3
<1> QED
  BY <1>4 DEF r

-----------------------------------------------------------------------------
(***************************************************************************)
(* Types. The numbers of unreliable and unsequenced commands have a range. *)
(***************************************************************************)

Minors ==
  \A c \in network : /\ c.kind = "unreliable" => c.minor \in 0 .. UnreliableLimit
                     /\ c.kind = "unsequenced" => c.minor \in 0 .. GroupSpace - 1

Types == TypeOK /\ IsFiniteSet(held) /\ Minors

\* What is due goes up to the first unreliable command of another reliable
\* number, and of the rest nothing is due.
LEMMA DueIsDue ==
  ASSUME NEW S, NEW queue \in Seq(S), NEW in
  PROVE  LET k == DueLength(in, queue)
         IN  /\ k \in 0 .. Len(queue)
             /\ DueLength(in, SubSeq(queue, k + 1, Len(queue))) = 0
<1> DEFINE k == DueLength(in, queue)
           rest == SubSeq(queue, k + 1, Len(queue))
           other == {i \in DOMAIN queue : queue[i].kind = "unreliable" /\ queue[i].rel # in}
           next == {i \in DOMAIN rest : rest[i].kind = "unreliable" /\ rest[i].rel # in}
<1>1. Len(queue) \in Nat /\ DOMAIN queue = 1 .. Len(queue) /\ \A i \in 1 .. Len(queue) : queue[i] \in S
  BY LenProperties, ElementOfSeq
<1>2. k = IF other = {} THEN Len(queue) ELSE Min(other) - 1
  BY DEF DueLength
<1>3. DueLength(in, rest) = IF next = {} THEN Len(rest) ELSE Min(next) - 1
  BY DEF DueLength
<1> SUFFICES k \in 0 .. Len(queue) /\ DueLength(in, rest) = 0
  OBVIOUS
<1> HIDE DEF k
<1>4. CASE other = {}
  <2>1. k = Len(queue)
    BY <1>2, <1>4
  <2>2. rest = <<>>
    BY <1>1, <2>1, SubSeqEmpty
  <2>3. Len(rest) = 0 /\ DOMAIN rest = {}
    <3> HIDE DEF rest
    <3> QED
      BY <2>2
  <2>4. next = {}
    BY <2>3
  <2> HIDE DEF rest, next
  <2> QED
    BY <1>1, <1>3, <2>1, <2>3, <2>4
<1>5. CASE other # {}
  <2>1. Min(other) \in other
    <3>1. other \in SUBSET Nat
      BY <1>1
    <3> QED
      BY <1>5, <3>1, MinExists
  <2>2. k + 1 \in other /\ k + 1 \in 1 .. Len(queue) /\ k \in 0 .. Len(queue)
    <3> DEFINE m == Min(other)
    <3>1. m \in other /\ m \in 1 .. Len(queue)
      BY <1>1, <2>1
    <3>2. k = m - 1
      BY <1>2, <1>5
    <3> HIDE DEF m
    <3>3. k + 1 = m
      BY <1>1, <3>1, <3>2
    <3> HIDE DEF other
    <3> QED
      BY <1>1, <3>1, <3>2, <3>3
  <2>3. rest \in Seq(S) /\ Len(rest) = Len(queue) - (k + 1) + 1 /\ rest[1] = queue[k + 1]
    <3>1. \A i \in k + 1 .. Len(queue) : queue[i] \in S
      BY <1>1, <2>2
    <3> QED
      BY <1>1, <2>2, <3>1, SubSeqProperties
  <2> HIDE DEF rest
  <2>4. Len(rest) \in Nat /\ DOMAIN rest = 1 .. Len(rest) /\ 1 \in DOMAIN rest
    BY <1>1, <2>2, <2>3, LenProperties
  <2>5. 1 \in next /\ next \in SUBSET Nat /\ \A i \in next : i \in Nat /\ i >= 1
    BY <2>2, <2>3, <2>4
  <2> HIDE DEF next, other
  <2>6. Min(next) \in next /\ Min(next) <= 1
    BY <2>5, MinExists
  <2>7. Min(next) = 1
    <3>1. Min(next) \in Nat /\ Min(next) >= 1
      BY <2>5, <2>6, Zenon
    <3> QED
      BY <2>6, <3>1
  <2>8. DueLength(in, rest) = 0
    BY <1>3, <2>5, <2>7
  <2> QED
    BY <2>2, <2>8
<1> QED
  BY <1>4, <1>5

LEMMA LastUnreliableRange ==
  ASSUME NEW S, NEW queue \in Seq(S), NEW k \in 0 .. Len(queue), NEW last \in 0 .. UnreliableLimit,
         \A c \in S : c.kind = "unreliable" => c.minor \in 0 .. UnreliableLimit
  PROVE  LastUnreliable(queue, k, last) \in 0 .. UnreliableLimit
<1> DEFINE numbered == {i \in 1 .. k : queue[i].kind = "unreliable"}
<1>1. CASE numbered = {}
  BY <1>1 DEF LastUnreliable
<1>2. CASE numbered # {}
  <2>1. Len(queue) \in Nat
    OBVIOUS
  <2>2. k \in Nat /\ numbered \in SUBSET (0 .. k)
    BY <2>1
  <2>3. Max(numbered) \in numbered
    BY <1>2, <2>2, MaxExists
  <2>4. queue[Max(numbered)] \in S /\ queue[Max(numbered)].kind = "unreliable"
    BY <2>1, <2>3, ElementOfSeq
  <2>5. LastUnreliable(queue, k, last) = queue[Max(numbered)].minor
    BY <1>2 DEF LastUnreliable
  <2> QED
    BY <2>4, <2>5
<1> QED
  BY <1>1, <1>2

\* The unreliable queue after a dispatch, and what was dispatched from it.
LEMMA DispatchUnreliableOf ==
  ASSUME NEW S, NEW T, \A c \in S : {c} \in T, delivered \in Seq(T),
         NEW queue \in Seq(S), NEW before \in Seq(T), NEW in, NEW last,
         DispatchUnreliable(queue, before, in, last)
  PROVE  /\ delivered' \in Seq(T) /\ waiting' \in Seq(S)
         /\ DueLength(in, waiting') = 0
<1> DEFINE k == DueLength(in, queue)
<1>1. k \in 0 .. Len(queue) /\ DueLength(in, SubSeq(queue, k + 1, Len(queue))) = 0
  BY DueIsDue
<1>2. /\ delivered' = delivered \o before \o [i \in 1 .. k |-> {queue[i]}]
      /\ waiting' = SubSeq(queue, k + 1, Len(queue))
  BY DEF DispatchUnreliable
<1> HIDE DEF k
<1>3. Len(queue) \in Nat /\ \A i \in 1 .. Len(queue) : queue[i] \in S
  BY ElementOfSeq
<1>4. [i \in 1 .. k |-> {queue[i]}] \in Seq(T)
  <2>1. \A i \in 1 .. k : {queue[i]} \in T
    BY <1>1, <1>3
  <2> QED
    BY <1>1, <2>1
<1>5. delivered' \in Seq(T)
  <2>1. delivered \o before \in Seq(T)
    BY ConcatProperties
  <2> QED
    BY <1>2, <1>4, <2>1, ConcatProperties
<1>6. waiting' \in Seq(S)
  <2>1. \A i \in k + 1 .. Len(queue) : queue[i] \in S
    BY <1>1, <1>3
  <2> QED
    BY <1>1, <1>2, <1>3, <2>1, SubSeqProperties
<1> QED
  BY <1>1, <1>2, <1>5, <1>6

LEMMA DispatchUnreliableTypes ==
  ASSUME Types, UNCHANGED network, NEW queue \in Seq(network), NEW before \in Seq(SUBSET network),
         NEW in, NEW last \in 0 .. UnreliableLimit, DispatchUnreliable(queue, before, in, last)
  PROVE  /\ delivered' \in Seq(SUBSET network') /\ waiting' \in Seq(network')
         /\ inUnrel' \in 0 .. UnreliableLimit
         /\ DueLength(in, waiting') = 0
<1>1. \A c \in network : {c} \in SUBSET network
  OBVIOUS
<1>2. delivered \in Seq(SUBSET network)
  BY DEF Types, TypeOK
<1>3. delivered' \in Seq(SUBSET network) /\ waiting' \in Seq(network) /\ DueLength(in, waiting') = 0
  BY <1>1, <1>2, DispatchUnreliableOf
<1>4. inUnrel' \in 0 .. UnreliableLimit
  <2> DEFINE k == DueLength(in, queue)
  <2>1. k \in 0 .. Len(queue)
    BY DueIsDue
  <2>2. inUnrel' = LastUnreliable(queue, k, last)
    BY DEF DispatchUnreliable
  <2> HIDE DEF k
  <2> QED
    BY <2>1, <2>2, LastUnreliableRange DEF Types, Minors
<1> QED
  BY <1>3, <1>4

\* Everything that a dispatch of the reliable queue changes.
LEMMA DispatchReliableTypes ==
  ASSUME Types, UNCHANGED network, NEW queue \in SUBSET Incoming, IsFiniteSet(queue),
         DispatchReliable(queue)
  PROVE  /\ held' \subseteq Incoming' /\ IsFiniteSet(held') /\ inRel' \in 0 .. Space - 1
         /\ delivered' \in Seq(SUBSET network') /\ waiting' \in Seq(network')
         /\ inUnrel' \in 0 .. UnreliableLimit
         /\ DueLength(inRel, waiting) = 0 => DueLength(inRel', waiting') = 0
<1> DEFINE r == InSequence(inRel, queue)
           before == [i \in DOMAIN r.taken |-> r.taken[i].got]
<1>1. /\ held' = queue \ Range(r.taken) /\ inRel' = r.last
      /\ IF r.taken = <<>> THEN UNCHANGED <<delivered, waiting, inUnrel>>
                           ELSE DispatchUnreliable(waiting, before, r.last, 0)
  BY DEF DispatchReliable
<1>2. r.last \in 0 .. Space - 1 /\ r.taken \in Seq(queue) /\ (r.taken = <<>> => r.last = inRel)
  <2>1. inRel \in 0 .. Space - 1 /\ \A h \in queue : h.count \in Nat
    BY Sizes DEF Types, TypeOK, Incoming
  <2> QED
    BY <2>1, InSequenceTypes
<1>3. Incoming' = Incoming
  BY DEF Incoming, Space
<1>4. held' \subseteq Incoming' /\ IsFiniteSet(held')
  <2>1. held' \in SUBSET queue
    BY <1>1
  <2>2. IsFiniteSet(held')
    BY <2>1, FS_Subset
  <2> QED
    BY <1>3, <2>1, <2>2
<1> HIDE DEF r
<1>5. CASE r.taken = <<>>
  <2>1. UNCHANGED <<delivered, waiting, inUnrel>>
    BY <1>1, <1>5
  <2>2. inRel' = inRel
    BY <1>1, <1>2, <1>5
  <2> QED
    BY <1>1, <1>2, <1>4, <2>1, <2>2 DEF Types, TypeOK
<1>6. CASE r.taken # <<>>
  <2>1. DispatchUnreliable(waiting, before, r.last, 0)
    BY <1>1, <1>6
  <2>2. before \in Seq(SUBSET network)
    <3>1. Len(r.taken) \in Nat /\ DOMAIN r.taken = 1 .. Len(r.taken)
      BY <1>2, LenProperties
    <3>2. \A i \in 1 .. Len(r.taken) : r.taken[i].got \in SUBSET network
      BY <1>2, ElementOfSeq DEF Incoming
    <3> QED
      BY <3>1, <3>2
  <2>3. waiting \in Seq(network) /\ 0 \in 0 .. UnreliableLimit
    BY Sizes DEF Types, TypeOK
  <2> HIDE DEF before
  <2>4. /\ delivered' \in Seq(SUBSET network') /\ waiting' \in Seq(network')
        /\ inUnrel' \in 0 .. UnreliableLimit /\ DueLength(r.last, waiting') = 0
    BY <2>1, <2>2, <2>3, DispatchUnreliableTypes
  <2> QED
    BY <1>1, <1>2, <1>4, <2>4
<1> QED
  BY <1>5, <1>6

\* What is sent, and what it becomes.
LEMMA SendCases ==
  ASSUME NEW kind \in Kinds, Send(kind)
  PROVE  \E becomes \in Kinds \cup {"reliable"} :
           /\ Len(kinds) < MaxPackets /\ kinds' = Append(kinds, becomes)
           /\ \/ becomes = "reliable" /\ SendReliable
              \/ becomes = "fragmented" /\ SendFragments
              \/ becomes = "unreliable" /\ SendUnreliable /\ ~(outUnrel >= UnreliableLimit)
              \/ becomes = "unsequenced" /\ SendUnsequenced
           /\ UNCHANGED <<inUnrel, waiting, delivered, reliableVars, groupVars>>
<1> DEFINE becomes == IF kind = "unreliable" /\ outUnrel >= UnreliableLimit THEN "reliable" ELSE kind
<1>1. becomes \in Kinds \cup {"reliable"} /\ becomes \in {"reliable", "fragmented", "unreliable", "unsequenced"}
  BY DeliveryAssumption
<1>2. /\ Len(kinds) < MaxPackets /\ kinds' = Append(kinds, becomes)
      /\ CASE becomes = "reliable"    -> SendReliable
           [] becomes = "fragmented"  -> SendFragments
           [] becomes = "unreliable"  -> SendUnreliable
           [] becomes = "unsequenced" -> SendUnsequenced
      /\ UNCHANGED <<inUnrel, waiting, delivered, reliableVars, groupVars>>
  BY DEF Send
<1>3. becomes = "unreliable" => ~(outUnrel >= UnreliableLimit)
  OBVIOUS
<1> HIDE DEF becomes
<1>4. \/ becomes = "reliable" /\ SendReliable
      \/ becomes = "fragmented" /\ SendFragments
      \/ becomes = "unreliable" /\ SendUnreliable /\ ~(outUnrel >= UnreliableLimit)
      \/ becomes = "unsequenced" /\ SendUnsequenced
  BY <1>1, <1>2, <1>3
<1> QED
  BY <1>1, <1>2, <1>4

\* The sender keeps to the ranges of the numbers.
LEMMA SendTypes ==
  ASSUME Types, NEW kind \in Kinds, Send(kind)
  PROVE  Types'
<1>1. PICK becomes \in Kinds \cup {"reliable"} :
           /\ Len(kinds) < MaxPackets /\ kinds' = Append(kinds, becomes)
           /\ \/ becomes = "reliable" /\ SendReliable
              \/ becomes = "fragmented" /\ SendFragments
              \/ becomes = "unreliable" /\ SendUnreliable /\ ~(outUnrel >= UnreliableLimit)
              \/ becomes = "unsequenced" /\ SendUnsequenced
           /\ UNCHANGED <<inUnrel, waiting, delivered, reliableVars, groupVars>>
  BY SendCases
<1> USE DEF Types, TypeOK
<1>2. kinds' \in Seq(Kinds \cup {"reliable"})
  BY <1>1, AppendProperties
<1>3. This \in 1 .. MaxPackets /\ \A n \in Nat : (outRel + n) % Space \in 0 .. Space - 1
  <2>1. Len(kinds) \in Nat
    OBVIOUS
  <2>2. \A n \in Nat : (outRel + n) % Space \in 0 .. Space - 1
    <3> SUFFICES ASSUME NEW n \in Nat PROVE (outRel + n) % Space \in 0 .. Space - 1
      OBVIOUS
    <3>1. outRel + n \in Int
      BY Sizes
    <3> QED
      BY <3>1, DivMod, Sizes
  <2> QED
    BY <1>1, <2>1, <2>2, Sizes DEF This
<1>4. Command' = Command
  BY DEF Command, Space
<1>5. /\ outRel' \in 0 .. Space - 1 /\ outUnrel' \in 0 .. UnreliableLimit
      /\ outGroup' \in 0 .. GroupSpace - 1
      /\ network \subseteq network' /\ network' \subseteq Command /\ Minors'
  <2>1. CASE SendReliable
    <3> DEFINE c == [kind |-> "reliable", packet |-> This, rel |-> outRel', minor |-> 0, count |-> 0]
    <3>1. outRel' = (outRel + 1) % Space /\ outUnrel' = 0 /\ outGroup' = outGroup
      BY <2>1 DEF SendReliable, QueueReliable
    <3>2. network' = network \cup {c} /\ c.kind = "reliable"
      BY <2>1 DEF SendReliable, Put
    <3>3. outRel' \in 0 .. Space - 1
      BY <1>3, <3>1
    <3>4. c \in Command
      BY <1>3, <3>3, Sizes DEF Command
    <3> HIDE DEF c
    <3>5. Minors'
      BY <3>2 DEF Minors
    <3> QED
      BY <3>1, <3>2, <3>3, <3>4, <3>5, Sizes
  <2>2. CASE SendFragments
    <3> DEFINE first == (outRel + 1) % Space
               C == {[kind |-> "fragment", packet |-> This, rel |-> first, minor |-> i,
                      count |-> Fragments] : i \in 0 .. Fragments - 1}
    <3>1. outRel' = (outRel + Fragments) % Space /\ outUnrel' = 0 /\ outGroup' = outGroup
      BY <2>2 DEF SendFragments, QueueReliable
    <3>2. network' = network \cup C
      BY <2>2 DEF SendFragments, Put
    <3>3. outRel' \in 0 .. Space - 1 /\ first \in 0 .. Space - 1
      BY <1>3, <3>1, Sizes
    <3> HIDE DEF first
    <3>4. C \subseteq Command /\ \A c \in C : c.kind = "fragment"
      BY <1>3, <3>3, Sizes DEF Command
    <3> HIDE DEF C
    <3>5. Minors'
      BY <3>2, <3>4 DEF Minors
    <3> QED
      BY <3>1, <3>2, <3>3, <3>4, <3>5, Sizes
  <2>3. CASE SendUnreliable /\ ~(outUnrel >= UnreliableLimit)
    <3> DEFINE c == [kind |-> "unreliable", packet |-> This, rel |-> outRel, minor |-> outUnrel', count |-> 0]
    <3>1. outUnrel' = outUnrel + 1 /\ outRel' = outRel /\ outGroup' = outGroup
      BY <2>3 DEF SendUnreliable
    <3>2. network' = network \cup {c} /\ c.kind = "unreliable" /\ c.minor = outUnrel'
      BY <2>3 DEF SendUnreliable, Put
    <3>3. outUnrel' \in 0 .. UnreliableLimit
      BY <2>3, <3>1, Sizes
    <3>4. c \in Command
      BY <1>3, <3>3, Sizes DEF Command
    <3> HIDE DEF c
    <3>5. Minors'
      BY <3>2, <3>3 DEF Minors, GroupSpace
    <3> QED
      BY <3>1, <3>2, <3>3, <3>4, <3>5
  <2>4. CASE SendUnsequenced
    <3> DEFINE c == [kind |-> "unsequenced", packet |-> This, rel |-> 0, minor |-> outGroup', count |-> 0]
    <3>1. outGroup' = (outGroup + 1) % GroupSpace /\ outRel' = outRel /\ outUnrel' = outUnrel
      BY <2>4 DEF SendUnsequenced
    <3>2. network' = network \cup {c} /\ c.kind = "unsequenced" /\ c.minor = outGroup'
      BY <2>4 DEF SendUnsequenced, Put
    <3>3. outGroup' \in 0 .. GroupSpace - 1
      <4>1. outGroup + 1 \in Int
        BY Sizes
      <4> QED
        BY <3>1, <4>1, DivMod, Sizes
    <3>4. c \in Command
      BY <1>3, <3>3, Sizes DEF Command
    <3> HIDE DEF c
    <3>5. Minors'
      BY <3>2, <3>3 DEF Minors, GroupSpace
    <3> QED
      BY <3>1, <3>2, <3>3, <3>4, <3>5
  <2> QED
    BY <1>1, <2>1, <2>2, <2>3, <2>4
<1>6. UNCHANGED <<inRel, inUnrel, held, waiting, groupBase, groupsSeen, delivered>>
  BY <1>1 DEF reliableVars, groupVars
<1>7. held' \subseteq Incoming'
  BY <1>5, <1>6 DEF Incoming, Space
<1>8. waiting' \in Seq(network') /\ delivered' \in Seq(SUBSET network')
  <2>1. SUBSET network \subseteq SUBSET network'
    BY <1>5
  <2> QED
    BY <1>5, <1>6, <2>1, SeqMonotonic
<1> QED
  BY <1>2, <1>4, <1>5, <1>6, <1>7, <1>8 DEF Space, GroupSpace

\* The place of an insertion lies in the queue.
LEMMA Inserted ==
  ASSUME NEW S, NEW c \in S, waiting \in Seq(S)
  PROVE  /\ Place(c) \in 0 .. Len(waiting)
         /\ \A k \in 0 .. Len(waiting) : InsertAfter(k, c) \in Seq(S)
<1>1. Len(waiting) \in Nat /\ DOMAIN waiting = 1 .. Len(waiting)
      /\ \A i \in 1 .. Len(waiting) : waiting[i] \in S
  BY LenProperties, ElementOfSeq
<1>2. Place(c) \in 0 .. Len(waiting)
  <2> DEFINE P == {0} \cup {i \in DOMAIN waiting : StaysBefore(waiting[i], c)}
  <2>1. P \in SUBSET (0 .. Len(waiting)) /\ P # {}
    BY <1>1
  <2> HIDE DEF P
  <2>2. Max(P) \in P
    BY <1>1, <2>1, MaxExists
  <2>3. Max(P) \in 0 .. Len(waiting)
    BY <2>1, <2>2
  <2> QED
    BY <2>3 DEF Place, P
<1>3. ASSUME NEW k \in 0 .. Len(waiting) PROVE InsertAfter(k, c) \in Seq(S)
  <2>1. SubSeq(waiting, 1, k) \in Seq(S)
    <3>1. \A i \in 1 .. k : waiting[i] \in S
      BY <1>1
    <3> QED
      BY <1>1, <3>1, SubSeqProperties
  <2>2. SubSeq(waiting, k + 1, Len(waiting)) \in Seq(S)
    <3>1. \A i \in k + 1 .. Len(waiting) : waiting[i] \in S
      BY <1>1
    <3> QED
      BY <1>1, <3>1, SubSeqProperties
  <2>3. <<c>> \in Seq(S)
    OBVIOUS
  <2>4. SubSeq(waiting, 1, k) \o <<c>> \in Seq(S)
    BY <2>1, <2>3, ConcatProperties
  <2> QED
    BY <2>2, <2>4, ConcatProperties DEF InsertAfter
<1> QED
  BY <1>2, <1>3

\* A packet of fragments that has been started, or is to be.
LEMMA Started ==
  ASSUME NEW c
  PROVE  \/ Start(c) \in held /\ Start(c).rel = c.rel
         \/ (\A h \in held : h.rel # c.rel) /\ Start(c) = [rel |-> c.rel, count |-> c.count, got |-> {}]
BY DEF Start

LEMMA ReceiveTypes ==
  ASSUME Types, NEW c \in network, Receive(c)
  PROVE  Types' /\ (DueLength(inRel, waiting) = 0 => DueLength(inRel', waiting') = 0)
<1> USE DEF Types, TypeOK
<1>1. Command' = Command /\ c \in Command
  BY DEF Command, Space
<1>2. CASE ReceiveReliable(c)
  <2> DEFINE new == [rel |-> c.rel, count |-> 0, got |-> {c}]
  <2>1. DispatchReliable(held \cup {new}) /\ UNCHANGED <<senderVars, groupVars>>
    BY <1>2 DEF ReceiveReliable
  <2>2. new \in Incoming
    BY <1>1 DEF Incoming, Command
  <2> HIDE DEF new
  <2>3. held \cup {new} \in SUBSET Incoming /\ IsFiniteSet(held \cup {new})
    BY <2>2, FS_AddElement
  <2>4. UNCHANGED <<kinds, outRel, outUnrel, outGroup, network, groupBase, groupsSeen>>
    BY <2>1 DEF senderVars, groupVars
  <2>5. /\ held' \subseteq Incoming' /\ IsFiniteSet(held') /\ inRel' \in 0 .. Space - 1
        /\ delivered' \in Seq(SUBSET network') /\ waiting' \in Seq(network')
        /\ inUnrel' \in 0 .. UnreliableLimit
        /\ DueLength(inRel, waiting) = 0 => DueLength(inRel', waiting') = 0
    BY <2>1, <2>3, <2>4, DispatchReliableTypes
  <2> QED
    BY <1>1, <2>4, <2>5 DEF Minors
<1>3. CASE ReceiveFragment(c)
  <2> DEFINE start == Start(c)
             more == [start EXCEPT !.got = @ \cup {c}]
             queue == (held \ {h \in held : h.rel = c.rel}) \cup {more}
  <2>1. DispatchReliable(queue) /\ UNCHANGED <<senderVars, groupVars>>
    BY <1>3 DEF ReceiveFragment
  <2>2. start \in Incoming
    <3>1. [rel |-> c.rel, count |-> c.count, got |-> {}] \in Incoming
      BY <1>1 DEF Incoming, Command
    <3> HIDE DEF start
    <3>2. start \in held \/ start = [rel |-> c.rel, count |-> c.count, got |-> {}]
      BY Started DEF start
    <3> QED
      BY <3>1, <3>2
  <2> HIDE DEF start
  <2>3. more \in Incoming
    BY <2>2 DEF Incoming
  <2> HIDE DEF more
  <2>4. queue \in SUBSET Incoming /\ IsFiniteSet(queue)
    <3>1. held \ {h \in held : h.rel = c.rel} \in SUBSET held
      OBVIOUS
    <3>2. IsFiniteSet(held \ {h \in held : h.rel = c.rel})
      BY <3>1, FS_Subset
    <3> QED
      BY <2>3, <3>2, FS_AddElement
  <2> HIDE DEF queue
  <2>5. UNCHANGED <<kinds, outRel, outUnrel, outGroup, network, groupBase, groupsSeen>>
    BY <2>1 DEF senderVars, groupVars
  <2>6. /\ held' \subseteq Incoming' /\ IsFiniteSet(held') /\ inRel' \in 0 .. Space - 1
        /\ delivered' \in Seq(SUBSET network') /\ waiting' \in Seq(network')
        /\ inUnrel' \in 0 .. UnreliableLimit
        /\ DueLength(inRel, waiting) = 0 => DueLength(inRel', waiting') = 0
    BY <2>1, <2>4, <2>5, DispatchReliableTypes
  <2> QED
    BY <1>1, <2>5, <2>6 DEF Minors
<1>4. CASE ReceiveUnreliable(c)
  <2> DEFINE queue == InsertAfter(Place(c), c)
  <2>1. /\ DispatchUnreliable(queue, <<>>, inRel, inUnrel)
        /\ UNCHANGED <<senderVars, reliableVars, groupVars>>
    BY <1>4 DEF ReceiveUnreliable
  <2>2. queue \in Seq(network) /\ <<>> \in Seq(SUBSET network)
    BY Inserted, EmptySeq
  <2> HIDE DEF queue
  <2>3. UNCHANGED <<kinds, outRel, outUnrel, outGroup, network, groupBase, groupsSeen, inRel, held>>
    BY <2>1 DEF senderVars, groupVars, reliableVars
  <2>4. /\ delivered' \in Seq(SUBSET network') /\ waiting' \in Seq(network')
        /\ inUnrel' \in 0 .. UnreliableLimit /\ DueLength(inRel, waiting') = 0
    BY <2>1, <2>2, <2>3, DispatchUnreliableTypes
  <2>5. Incoming' = Incoming
    BY <2>3 DEF Incoming, Space
  <2> QED
    BY <1>1, <2>3, <2>4, <2>5 DEF Minors
<1>5. CASE ReceiveUnsequenced(c)
  <2> DEFINE g == c.minor
             queue == InsertAfter(0, c)
  <2>1. /\ groupBase' = g - Index(g) /\ groupsSeen' = Bits(g) \cup {Index(g)}
        /\ DispatchUnreliable(queue, <<>>, inRel, inUnrel)
        /\ UNCHANGED <<senderVars, reliableVars>> /\ c.kind = "unsequenced"
    BY <1>5 DEF ReceiveUnsequenced
  <2>2. queue \in Seq(network) /\ <<>> \in Seq(SUBSET network)
    <3>1. 0 \in 0 .. Len(waiting)
      BY LenProperties
    <3> QED
      BY <3>1, Inserted, EmptySeq
  <2> HIDE DEF queue
  <2>3. UNCHANGED <<kinds, outRel, outUnrel, outGroup, network, inRel, held>>
    BY <2>1 DEF senderVars, reliableVars
  <2>4. /\ delivered' \in Seq(SUBSET network') /\ waiting' \in Seq(network')
        /\ inUnrel' \in 0 .. UnreliableLimit /\ DueLength(inRel, waiting') = 0
    BY <2>1, <2>2, <2>3, DispatchUnreliableTypes
  <2>5. Incoming' = Incoming
    BY <2>3 DEF Incoming, Space
  <2>6. groupBase' \in 0 .. GroupSpace - 1 /\ groupsSeen' \subseteq 0 .. GroupWindowSize - 1
    <3>1. g \in 0 .. GroupSpace - 1
      BY <2>1 DEF Minors
    <3>2. g \in Nat
      BY <3>1, Sizes
    <3> HIDE DEF g
    <3>3. Index(g) \in 0 .. GroupWindowSize - 1 /\ g - Index(g) \in 0 .. g
      BY <3>2, CutIsLess, Sizes DEF Index
    <3>4. Bits(g) \subseteq 0 .. GroupWindowSize - 1
      BY DEF Bits
    <3>5. groupBase' \in 0 .. GroupSpace - 1
      BY <2>1, <3>1, <3>3, Sizes
    <3> QED
      BY <2>1, <3>3, <3>4, <3>5
  <2> QED
    BY <1>1, <2>3, <2>4, <2>5, <2>6 DEF Minors
<1> QED
  BY <1>2, <1>3, <1>4, <1>5 DEF Receive

LEMMA InitTypes ==
  ASSUME Init
  PROVE  Types
<1> USE DEF Init
<1>0. Before \in Nat
  BY Sizes
<1>1. Before % Space \in 0 .. Space - 1
  BY <1>0, DivMod, Sizes
<1>2. outGroup \in 0 .. GroupSpace - 1 /\ outGroup \in Nat
  <2>1. Before % GroupSpace \in 0 .. GroupSpace - 1
    <3>1. Before \in Int /\ GroupSpace \in Nat \ {0}
      BY <1>0, Sizes
    <3> QED
      BY <3>1, DivMod
  <2> QED
    BY <2>1, Sizes
<1>3. groupBase \in 0 .. GroupSpace - 1
  <2>1. outGroup - (outGroup % GroupWindowSize) \in 0 .. outGroup
    BY <1>2, CutIsLess, Sizes
  <2> QED
    BY <1>2, <2>1, Sizes
<1>4. groupsSeen \subseteq 0 .. GroupWindowSize - 1
  <2> DEFINE first == Before - (Before % GroupWindowSize)
             S == {1, first}
  <2>1. first \in 0 .. Before
    BY <1>0, CutIsLess, Sizes
  <2>2. S \in SUBSET (0 .. Before + 1) /\ S # {} /\ Before + 1 \in Nat
    <3> HIDE DEF first
    <3>1. 1 \in 0 .. Before + 1 /\ first \in 0 .. Before + 1 /\ Before + 1 \in Nat
      BY <1>0, <2>1
    <3> QED
      BY <3>1
  <2>3. Max(S) \in S
    BY <2>2, MaxExists
  <2>4. Max(S) \in Int
    BY <2>2, <2>3
  <2>5. groupsSeen = {n % GroupWindowSize : n \in Max(S) .. Before}
    OBVIOUS
  <2> DEFINE m == Max(S)
  <2> HIDE DEF m, S
  <2>6. \A n \in m .. Before : n % GroupWindowSize \in 0 .. GroupWindowSize - 1
    <3> SUFFICES ASSUME NEW n \in m .. Before PROVE n % GroupWindowSize \in 0 .. GroupWindowSize - 1
      OBVIOUS
    <3>1. n \in Int
      BY <2>4, Sizes DEF m
    <3> QED
      BY <3>1, DivMod, Sizes
  <2> QED
    BY <2>5, <2>6 DEF m
<1>5. <<>> \in Seq(Kinds \cup {"reliable"}) /\ <<>> \in Seq(network) /\ <<>> \in Seq(SUBSET network)
  BY EmptySeq
<1>6. IsFiniteSet({})
  BY FS_EmptySet
<1>7. /\ outRel \in 0 .. Space - 1 /\ inRel \in 0 .. Space - 1
      /\ outUnrel \in 0 .. UnreliableLimit /\ inUnrel \in 0 .. UnreliableLimit
      /\ network = {} /\ held = {} /\ kinds = <<>> /\ waiting = <<>> /\ delivered = <<>>
  BY <1>1, Sizes
<1> QED
  BY <1>2, <1>3, <1>4, <1>5, <1>6, <1>7 DEF Types, TypeOK, Minors

LEMMA NextTypes ==
  ASSUME Types, [Next]_vars
  PROVE  Types'
<1>1. CASE UNCHANGED vars
  BY <1>1 DEF vars, Types, TypeOK, Minors, Command, Incoming, Space, GroupSpace
<1>2. ASSUME NEW k \in Kinds, Send(k) PROVE Types'
  BY <1>2, SendTypes
<1>3. ASSUME NEW c \in network, Receive(c) PROVE Types'
  BY <1>3, ReceiveTypes
<1> QED
  BY <1>1, <1>2, <1>3 DEF Next

\* The numbers of a channel and of a peer stay in their ranges, whatever comes:
\* cut to sixteen bits, and an unreliable number below its limit, for windows of
\* any number and size.
THEOREM DeliveryTypeCorrect == Spec => []TypeOK
<1>1. Init => Types
  BY InitTypes
<1>2. Types /\ [Next]_vars => Types'
  BY NextTypes
<1>3. Types => TypeOK
  BY DEF Types
<1> QED
  BY <1>1, <1>2, <1>3, PTL DEF Spec

-----------------------------------------------------------------------------
(***************************************************************************)
(* The numbers of packets before they are cut. When packets of the kinds   *)
(* ks are sent, Number(ks, p) is the number of the first reliable command  *)
(* of packet p, or else of the next one behind the packet.                 *)
(***************************************************************************)

Earlier(ks, p, kind) == {q \in 1 .. p - 1 : ks[q] = kind}

Number(ks, p) == Before + 1 + Cardinality(Earlier(ks, p, "reliable"))
                        + Fragments * Cardinality(Earlier(ks, p, "fragmented"))

\* How many numbers a packet takes.
Size(kind) == CASE kind = "reliable" -> 1 [] kind = "fragmented" -> Fragments [] OTHER -> 0

\* The last number sent.
LastSent == Number(kinds, Len(kinds) + 1) - 1

LEMMA EarlierStep ==
  ASSUME NEW ks, NEW p \in Nat \ {0}, NEW kind
  PROVE  /\ IsFiniteSet(Earlier(ks, p, kind)) /\ Cardinality(Earlier(ks, p, kind)) \in Nat
         /\ Cardinality(Earlier(ks, p + 1, kind)) =
              Cardinality(Earlier(ks, p, kind)) + (IF ks[p] = kind THEN 1 ELSE 0)
<1>1. IsFiniteSet(Earlier(ks, p, kind))
  <2>1. Earlier(ks, p, kind) \in SUBSET (1 .. p - 1)
    BY DEF Earlier
  <2>2. IsFiniteSet(1 .. p - 1)
    BY FS_Interval
  <2> QED
    BY <2>1, <2>2, FS_Subset
<1>2. Cardinality(Earlier(ks, p, kind)) \in Nat
  BY <1>1, FS_CardinalityType
<1>3. p \notin Earlier(ks, p, kind)
  BY DEF Earlier
<1>4. Earlier(ks, p + 1, kind) = IF ks[p] = kind THEN Earlier(ks, p, kind) \cup {p} ELSE Earlier(ks, p, kind)
  BY DEF Earlier
<1>5. CASE ks[p] = kind
  <2>1. Earlier(ks, p + 1, kind) = Earlier(ks, p, kind) \cup {p}
    BY <1>4, <1>5
  <2>2. Cardinality(Earlier(ks, p, kind) \cup {p}) = Cardinality(Earlier(ks, p, kind)) + 1
    BY <1>1, <1>3, FS_AddElement
  <2> QED
    BY <1>1, <1>2, <1>5, <2>1, <2>2
<1>6. CASE ks[p] # kind
  BY <1>1, <1>2, <1>4, <1>6
<1> QED
  BY <1>5, <1>6

LEMMA SizeType ==
  ASSUME NEW kind
  PROVE  /\ Size(kind) \in 0 .. Fragments
         /\ kind \in {"reliable", "fragmented"} => Size(kind) >= 1
BY Sizes DEF Size

LEMMA NumberType ==
  ASSUME NEW ks, NEW p \in Nat \ {0}
  PROVE  Number(ks, p) \in Nat /\ Number(ks, p) >= 1
<1> DEFINE a == Cardinality(Earlier(ks, p, "reliable"))
           b == Cardinality(Earlier(ks, p, "fragmented"))
<1>1. a \in Nat /\ b \in Nat
  BY EarlierStep
<1> HIDE DEF a, b
<1>2. Fragments * b \in Nat /\ Before \in Nat
  BY <1>1, Sizes
<1>3. Number(ks, p) = Before + 1 + a + Fragments * b
  BY DEF Number, a, b
<1> QED
  BY <1>1, <1>2, <1>3

LEMMA NumberStep ==
  ASSUME NEW ks, NEW p \in Nat \ {0}
  PROVE  Number(ks, p + 1) = Number(ks, p) + Size(ks[p])
<1> DEFINE a == Cardinality(Earlier(ks, p, "reliable"))
           b == Cardinality(Earlier(ks, p, "fragmented"))
           x == IF ks[p] = "reliable" THEN 1 ELSE 0
           y == IF ks[p] = "fragmented" THEN 1 ELSE 0
<1>1. a \in Nat /\ b \in Nat
  BY EarlierStep
<1>2. Cardinality(Earlier(ks, p + 1, "reliable")) = a + x /\ Cardinality(Earlier(ks, p + 1, "fragmented")) = b + y
  BY EarlierStep
<1> HIDE DEF a, b
<1>3. Number(ks, p) = Before + 1 + a + Fragments * b
  BY DEF Number, a, b
<1>4. Number(ks, p + 1) = Before + 1 + (a + x) + Fragments * (b + y)
  BY <1>2 DEF Number
<1>5. Fragments * (b + y) = Fragments * b + (IF ks[p] = "fragmented" THEN Fragments ELSE 0)
  BY <1>1, Sizes
<1>6. Size(ks[p]) = x + (IF ks[p] = "fragmented" THEN Fragments ELSE 0)
  BY Sizes DEF Size
<1>7. Fragments * b \in Nat /\ Before \in Nat
  BY <1>1, Sizes
<1> QED
  BY <1>1, <1>3, <1>4, <1>5, <1>6, <1>7, Sizes

LEMMA Product ==
  ASSUME NEW a \in Nat, NEW b \in Nat, NEW c \in Nat, a <= b
  PROVE  c * a \in Nat /\ c * b \in Nat /\ c * a <= c * b
<1>1. PICK d \in Nat : b = a + d
  <2>1. b - a \in Nat /\ b = a + (b - a)
    OBVIOUS
  <2> QED
    BY <2>1
<1>2. c * b = c * a + c * d /\ c * d \in Nat /\ c * a \in Nat
  BY <1>1
<1> QED
  BY <1>2

\* Numbers grow with the packets, by at most Fragments for each.
LEMMA NumberGrows ==
  ASSUME NEW ks, NEW p \in Nat \ {0}, NEW q \in Nat, p <= q
  PROVE  Number(ks, p) <= Number(ks, q) /\ Number(ks, q) <= Number(ks, p) + Fragments * (q - p)
<1> DEFINE n == q - p
           T == {k \in 0 .. n : Number(ks, p) <= Number(ks, p + k) /\ Number(ks, p + k) <= Number(ks, p) + Fragments * k}
<1>1. n \in Nat /\ p + n = q
  OBVIOUS
<1>2. Number(ks, p) \in Nat
  BY NumberType
<1> HIDE DEF n
<1>3. 0 \in T
  BY <1>1, <1>2, Sizes
<1>4. \A k \in 1 .. n : k - 1 \in T => k \in T
  <2> SUFFICES ASSUME NEW k \in 1 .. n, k - 1 \in T PROVE k \in T
    OBVIOUS
  <2> DEFINE j == k - 1
             s == p + j
  <2>1. j \in Nat /\ j + 1 = k /\ s \in Nat \ {0} /\ s + 1 = p + k
    BY <1>1
  <2>2. Number(ks, s) \in Nat /\ Number(ks, p) <= Number(ks, s) /\ Number(ks, s) <= Number(ks, p) + Fragments * j
    BY <2>1, NumberType
  <2> HIDE DEF j, s
  <2>3. Number(ks, s + 1) = Number(ks, s) + Size(ks[s]) /\ Size(ks[s]) \in 0 .. Fragments
    BY <2>1, NumberStep, SizeType
  <2>4. Fragments * k = Fragments * j + Fragments /\ Fragments * j \in Nat
    BY <2>1, Sizes
  <2>5. Number(ks, p) <= Number(ks, p + k) /\ Number(ks, p + k) <= Number(ks, p) + Fragments * k
    BY <1>2, <2>1, <2>2, <2>3, <2>4, Sizes
  <2> QED
    BY <2>5
<1> HIDE DEF T
<1>5. \A k \in 0 .. n : k \in T
  BY <1>1, <1>3, <1>4, Throughout
<1>6. n \in T
  BY <1>1, <1>5
<1>7. Number(ks, p) <= Number(ks, p + n) /\ Number(ks, p + n) <= Number(ks, p) + Fragments * n
  BY <1>6 DEF T
<1> QED
  BY <1>1, <1>7 DEF n

\* Is packet p one that takes numbers?
Numbered(p) == p \in DOMAIN kinds /\ kinds[p] \in {"reliable", "fragmented"}

\* The numbers of a packet lie before those of the packets after it.
LEMMA NumberApart ==
  ASSUME NEW ks, NEW p \in Nat \ {0}, NEW q \in Nat \ {0}, ks[p] \in {"reliable", "fragmented"}, p < q
  PROVE  Number(ks, p) + Size(ks[p]) <= Number(ks, q) /\ Number(ks, p) < Number(ks, q)
<1>1. Number(ks, p + 1) = Number(ks, p) + Size(ks[p]) /\ Size(ks[p]) \in Nat /\ Size(ks[p]) >= 1
  BY NumberStep, SizeType, Sizes
<1>2. Number(ks, p + 1) <= Number(ks, q)
  <2>1. p + 1 \in Nat \ {0} /\ p + 1 <= q
    OBVIOUS
  <2> QED
    BY <2>1, NumberGrows
<1>3. Number(ks, p) \in Nat /\ Number(ks, q) \in Nat
  BY NumberType
<1> QED
  BY <1>1, <1>2, <1>3

LEMMA NumberUnique ==
  ASSUME Types, NEW p, Numbered(p), NEW q, Numbered(q), Number(kinds, p) = Number(kinds, q)
  PROVE  p = q
<1>1. p \in Nat \ {0} /\ q \in Nat \ {0}
  <2>1. kinds \in Seq(Kinds \cup {"reliable"})
    BY DEF Types, TypeOK
  <2>2. Len(kinds) \in Nat /\ DOMAIN kinds = 1 .. Len(kinds)
    BY <2>1, LenProperties
  <2> QED
    BY <2>2 DEF Numbered
<1>2. kinds[p] \in {"reliable", "fragmented"} /\ kinds[q] \in {"reliable", "fragmented"}
  BY DEF Numbered
<1>3. Number(kinds, p) \in Nat /\ Number(kinds, q) \in Nat
  BY <1>1, NumberType
<1>4. ~(p < q)
  BY <1>1, <1>2, <1>3, NumberApart
<1>5. ~(q < p)
  BY <1>1, <1>2, <1>3, NumberApart
<1> QED
  BY <1>1, <1>4, <1>5

\* The numbers of a packet that has been sent.
LEMMA NumberSent ==
  ASSUME Types, NEW p \in DOMAIN kinds
  PROVE  /\ Len(kinds) \in Nat /\ p \in 1 .. Len(kinds) /\ LastSent \in Nat
         /\ Number(kinds, p) \in Nat /\ Number(kinds, p) + Size(kinds[p]) - 1 <= LastSent
         /\ LastSent - Number(kinds, p) + 1 <= Fragments * (Len(kinds) + 1 - p)
<1>1. Len(kinds) \in Nat /\ p \in 1 .. Len(kinds)
  <2>1. kinds \in Seq(Kinds \cup {"reliable"})
    BY DEF Types, TypeOK
  <2> QED
    BY <2>1, LenProperties
<1> DEFINE q == Len(kinds) + 1
<1>2. q \in Nat \ {0} /\ p \in Nat \ {0} /\ p + 1 <= q /\ p <= q /\ p + 1 \in Nat \ {0}
  BY <1>1
<1> HIDE DEF q
<1>3. Number(kinds, p) \in Nat /\ Number(kinds, q) \in Nat /\ Number(kinds, q) >= 1
  BY <1>2, NumberType
<1>4. Number(kinds, p + 1) = Number(kinds, p) + Size(kinds[p]) /\ Size(kinds[p]) \in Nat
  BY <1>2, NumberStep, SizeType, Sizes
<1>5. Number(kinds, p + 1) <= Number(kinds, q)
  BY <1>2, NumberGrows
<1>6. Number(kinds, q) <= Number(kinds, p) + Fragments * (q - p)
  BY <1>2, NumberGrows
<1>7. Fragments * (q - p) \in Int
  BY <1>2, Sizes
<1>8. LastSent = Number(kinds, q) - 1
  BY DEF LastSent, q
<1>9. LastSent - Number(kinds, p) + 1 <= Fragments * (q - p)
  BY <1>3, <1>6, <1>7, <1>8
<1>10. LastSent \in Nat /\ Number(kinds, p) + Size(kinds[p]) - 1 <= LastSent
  BY <1>3, <1>4, <1>5, <1>8
<1> QED
  BY <1>1, <1>3, <1>9, <1>10 DEF q

\* A packet more leaves the numbers of the others as they are.
LEMMA NumberKept ==
  ASSUME Types, NEW kind, kinds' = Append(kinds, kind)
  PROVE  /\ Len(kinds') = Len(kinds) + 1 /\ DOMAIN kinds' = 1 .. Len(kinds) + 1
         /\ \A p \in DOMAIN kinds : kinds'[p] = kinds[p]
         /\ kinds'[Len(kinds) + 1] = kind
         /\ \A p \in 1 .. Len(kinds) + 1 : Number(kinds', p) = Number(kinds, p)
         /\ LastSent' = LastSent + Size(kind) /\ LastSent \in Nat
<1> DEFINE n == Len(kinds)
           K == (Kinds \cup {"reliable"}) \cup {kind}
<1>1. kinds \in Seq(K) /\ kind \in K
  <2>1. kinds \in Seq(Kinds \cup {"reliable"}) /\ Kinds \cup {"reliable"} \subseteq K
    BY DEF Types, TypeOK
  <2> QED
    BY <2>1, SeqMonotonic
<1> HIDE DEF K
<1>2. /\ n \in Nat /\ DOMAIN kinds = 1 .. n /\ kinds' \in Seq(K) /\ Len(kinds') = n + 1
      /\ \A i \in 1 .. n : kinds'[i] = kinds[i]
      /\ kinds'[n + 1] = kind
  BY <1>1, LenProperties, AppendProperties
<1>3. DOMAIN kinds' = 1 .. n + 1
  BY <1>2, LenProperties
<1> HIDE DEF n
<1>4. ASSUME NEW p \in 1 .. n + 1 PROVE Number(kinds', p) = Number(kinds, p)
  <2>1. Earlier(kinds', p, "reliable") = Earlier(kinds, p, "reliable")
    BY <1>2 DEF Earlier
  <2>2. Earlier(kinds', p, "fragmented") = Earlier(kinds, p, "fragmented")
    BY <1>2 DEF Earlier
  <2> QED
    BY <2>1, <2>2 DEF Number
<1>5. LastSent' = LastSent + Size(kind) /\ LastSent \in Nat
  <2> DEFINE q == n + 1
  <2>1. q \in Nat \ {0} /\ q \in 1 .. n + 1
    BY <1>2
  <2>2. LastSent = Number(kinds, q) - 1
    BY DEF LastSent, n
  <2>3. LastSent' = Number(kinds', q + 1) - 1
    BY <1>2 DEF LastSent
  <2>4. Number(kinds', q) = Number(kinds, q) /\ kinds'[q] = kind
    BY <1>2, <1>4, <2>1
  <2> HIDE DEF q
  <2>5. Number(kinds', q + 1) = Number(kinds', q) + Size(kinds'[q])
    BY <2>1, NumberStep
  <2>6. Number(kinds, q) \in Nat /\ Number(kinds, q) >= 1
    BY <2>1, NumberType
  <2>7. Size(kind) \in Int
    BY SizeType, Sizes
  <2> QED
    BY <2>2, <2>3, <2>4, <2>5, <2>6, <2>7
<1> QED
  BY <1>2, <1>3, <1>4, <1>5 DEF n

-----------------------------------------------------------------------------
(***************************************************************************)
(* The invariant: the commands on the network are those of the packets     *)
(* sent, and what is held are parts of packets behind number last, the     *)
(* last one delivered before it was cut.                                   *)
(***************************************************************************)

\* The sender is less than a lap ahead, and the network overtakes a datagram
\* by no more packets than the windows tell apart.
Limits == MaxAhead < Space /\ MaxLag * Fragments <= Reach + 1

Fragment(ks, p, i) ==
  [kind |-> "fragment", packet |-> p, rel |-> Number(ks, p) % Space, minor |-> i, count |-> Fragments]

Whole(ks, p) ==
  [kind |-> "reliable", packet |-> p, rel |-> Number(ks, p) % Space, minor |-> 0, count |-> 0]

\* Are these the commands of packet p?
AreSentFor(ks, p, commands) ==
  \/ ks[p] = "reliable" /\ commands = {Whole(ks, p)}
  \/ ks[p] = "fragmented" /\ commands = {Fragment(ks, p, i) : i \in 0 .. Fragments - 1}
  \/ ks[p] \in {"unreliable", "unsequenced"} /\ \E c : commands = {c} /\ c.kind = ks[p]

Network == /\ \A c \in network : c.packet \in DOMAIN kinds
           /\ \A p \in DOMAIN kinds : AreSentFor(kinds, p, Commands(p))

\* Is n the last number of a packet, or of none?
AtEnd(ks, n) == \E p \in 1 .. Len(ks) + 1 : n = Number(ks, p) - 1

Numbers(last) == /\ inRel = last % Space /\ outRel = LastSent % Space
                 /\ last <= LastSent /\ LastSent <= last + MaxAhead
                 /\ AtEnd(kinds, last)

\* The packet that an incoming command is of.
Of(h) == (CHOOSE c \in h.got : TRUE).packet

\* An incoming command behind number last.
IsPart(ks, h, last) ==
  /\ h.got # {} /\ \A c \in h.got : c.packet = Of(h)
  /\ Of(h) \in DOMAIN ks /\ h.rel = Number(ks, Of(h)) % Space /\ last < Number(ks, Of(h))
  /\ \/ ks[Of(h)] = "reliable" /\ h.count = 0
     \/ ks[Of(h)] = "fragmented" /\ h.count = Fragments

IsQueue(ks, queue, last) ==
  /\ \A h \in queue : IsPart(ks, h, last)
  /\ \A g, h \in queue : Of(g) = Of(h) => g = h

Line == \E last \in Nat : Numbers(last) /\ IsQueue(kinds, held, last)

\* The commands that are a packet each and not acknowledged.
Loose == {c \in network : c.kind \in {"unreliable", "unsequenced"}}

\* The contents that are whole packets.
Packets == {Commands(p) : p \in DOMAIN kinds}

Inv == /\ Types /\ Network /\ Line
       /\ waiting \in Seq(Loose) /\ delivered \in Seq(Packets)
       /\ NothingHeldBack

\* Numbers behind the last one delivered are told apart when they are cut.
LEMMA SameNumber ==
  ASSUME Types, Limits, NEW last \in Nat, Numbers(last), NEW p, Numbered(p), NEW n \in Nat,
         last < Number(kinds, p), last < n, n <= LastSent + 1, Number(kinds, p) % Space = n % Space
  PROVE  Number(kinds, p) = n
<1>1. Number(kinds, p) \in Nat /\ Number(kinds, p) <= LastSent /\ LastSent \in Nat
  <2>1. p \in DOMAIN kinds /\ kinds[p] \in {"reliable", "fragmented"}
    BY DEF Numbered
  <2>2. Size(kinds[p]) \in Nat /\ Size(kinds[p]) >= 1
    BY <2>1, SizeType, Sizes
  <2> QED
    BY <2>1, <2>2, NumberSent
<1>2. LastSent <= last + MaxAhead /\ MaxAhead < Space /\ Space \in Nat \ {0} /\ MaxAhead \in Nat
  BY Sizes DEF Numbers, Limits
<1>3. Number(kinds, p) - n < Space /\ n - Number(kinds, p) < Space
  BY <1>1, <1>2
<1> QED
  BY <1>1, <1>2, <1>3, CutUnique

\* A reliable command that is accepted has not been delivered.
LEMMA Accepted ==
  ASSUME Types, Limits, NEW last \in Nat, Numbers(last), NEW p \in DOMAIN kinds,
         Len(kinds) - p < MaxLag,
         InWindow(Number(kinds, p) % Space), Number(kinds, p) % Space # inRel
  PROVE  last < Number(kinds, p)
<1> DEFINE n == Number(kinds, p)
<1>1. /\ Len(kinds) \in Nat /\ p \in 1 .. Len(kinds) /\ n \in Nat /\ LastSent \in Nat
      /\ LastSent - n + 1 <= Fragments * (Len(kinds) + 1 - p)
  BY NumberSent
<1> HIDE DEF n
<1>2. Fragments * (Len(kinds) + 1 - p) <= Fragments * MaxLag
  <2> DEFINE k == Len(kinds) + 1 - p
  <2>1. k \in Nat /\ k <= MaxLag /\ MaxLag \in Nat /\ Fragments \in Nat
    BY <1>1, Sizes
  <2> HIDE DEF k
  <2>2. Fragments * k <= Fragments * MaxLag
    BY <2>1, Product
  <2> QED
    BY <2>2 DEF k
<1>3. Fragments * MaxLag <= Reach + 1 /\ Fragments * MaxLag \in Nat /\ Reach \in Nat
  <2>1. MaxLag \in Nat /\ Fragments \in Nat /\ Reach \in Nat /\ MaxLag * Fragments <= Reach + 1
    BY Sizes DEF Limits
  <2>2. Fragments * MaxLag = MaxLag * Fragments /\ Fragments * MaxLag \in Nat
    BY <2>1
  <2> QED
    BY <2>1, <2>2
<1>4. Fragments * (Len(kinds) + 1 - p) \in Int
  BY <1>1, Sizes
<1>5. LastSent - n <= Reach
  BY <1>1, <1>2, <1>3, <1>4
<1>6. ASSUME n <= last PROVE FALSE
  <2>1. last <= LastSent /\ inRel = last % Space
    BY DEF Numbers
  <2>2. last - n <= Reach
    BY <1>1, <1>3, <1>5, <2>1
  <2>3. n % Space = inRel \/ ~InWindow(n % Space)
    BY <1>1, <1>6, <2>1, <2>2, OldIsOld
  <2> QED
    BY <2>3 DEF n
<1> QED
  BY <1>1, <1>6 DEF n

\* An incoming command that is complete has all commands of its packet.
LEMMA CompleteIsWhole ==
  ASSUME Types, Network, NEW h \in Incoming, NEW last, IsPart(kinds, h, last), Complete(h)
  PROVE  h.got \in Packets
<1> DEFINE p == Of(h)
<1>1. /\ p \in DOMAIN kinds /\ h.got # {} /\ \A c \in h.got : c.packet = p
      /\ \/ kinds[p] = "reliable" /\ h.count = 0
         \/ kinds[p] = "fragmented" /\ h.count = Fragments
  BY DEF IsPart
<1> HIDE DEF p
<1>2. h.got \in SUBSET Commands(p)
  BY <1>1 DEF Incoming, Commands
<1>3. AreSentFor(kinds, p, Commands(p))
  BY <1>1 DEF Network
<1>4. CASE kinds[p] = "reliable"
  <2>1. Commands(p) = {Whole(kinds, p)}
    BY <1>3, <1>4 DEF AreSentFor
  <2>2. h.got = Commands(p)
    BY <1>1, <1>2, <2>1
  <2> QED
    BY <1>1, <2>2 DEF Packets
<1>5. CASE kinds[p] = "fragmented"
  <2> DEFINE S == 0 .. Fragments - 1
             T == Commands(p)
             f == [i \in S |-> Fragment(kinds, p, i)]
  <2>1. T = {Fragment(kinds, p, i) : i \in S}
    BY <1>3, <1>5 DEF AreSentFor
  <2>2. IsFiniteSet(S) /\ Cardinality(S) = Fragments
    <3>1. 0 \in Int /\ Fragments - 1 \in Int /\ ~(0 > Fragments - 1) /\ (Fragments - 1) - 0 + 1 = Fragments
      BY Sizes
    <3> QED
      BY <3>1, FS_Interval
  <2> HIDE DEF T, S
  <2>3. f \in Surjection(S, T)
    BY <2>1 DEF Surjection
  <2> HIDE DEF f
  <2>4. IsFiniteSet(T) /\ Cardinality(T) <= Fragments
    BY <2>2, <2>3, FS_Surjection
  <2>5. Cardinality(h.got) = Fragments
    <3>1. h.count = Fragments /\ h.count # 0
      BY <1>1, <1>5, Sizes
    <3> QED
      BY <3>1 DEF Complete
  <2>6. h.got \in SUBSET T
    BY <1>2 DEF T
  <2>7. Cardinality(h.got) <= Cardinality(T) /\ Cardinality(T) \in Nat
    BY <2>4, <2>6, FS_Subset, FS_CardinalityType
  <2>8. Cardinality(T) = Cardinality(h.got)
    BY <2>4, <2>5, <2>7, Sizes
  <2>9. T = h.got
    BY <2>4, <2>6, <2>8, FS_Subset
  <2> QED
    BY <1>1, <2>9 DEF Packets, T
<1> QED
  BY <1>1, <1>4, <1>5

LEMMA AppendRange ==
  ASSUME NEW S, NEW s \in Seq(S), NEW e \in S
  PROVE  Range(Append(s, e)) = Range(s) \cup {e}
<1> DEFINE t == Append(s, e)
<1>1. /\ Len(s) \in Nat /\ DOMAIN s = 1 .. Len(s) /\ t \in Seq(S) /\ Len(t) = Len(s) + 1
      /\ \A i \in 1 .. Len(s) : t[i] = s[i]
      /\ t[Len(s) + 1] = e
  BY LenProperties, AppendProperties
<1>2. DOMAIN t = 1 .. Len(s) + 1
  BY <1>1, LenProperties
<1> HIDE DEF t
<1> QED
  BY <1>1, <1>2 DEF Range, t

LEMMA RangeType ==
  ASSUME NEW S, NEW s \in Seq(S)
  PROVE  Range(s) \subseteq S
BY LenProperties, ElementOfSeq DEF Range

\* With nothing in turn nothing is taken.
LEMMA NoneInTurn ==
  ASSUME NEW in, NEW queue, IsFiniteSet(queue), InTurn(in, queue) = {}
  PROVE  InSequence(in, queue).taken = <<>>
<1> DEFINE n == Cardinality(queue)
           start == [last |-> in, taken |-> <<>>]
<1>1. n \in Nat
  BY InSequenceSteps
<1>2. PICK f : /\ f[0] = start /\ InSequence(in, queue) = f[n]
               /\ \A k \in 1 .. n : f[k] = TakeInTurn(f[k - 1], queue)
  BY InSequenceSteps
<1> HIDE DEF n
<1>3. start.last = in /\ start.taken = <<>>
  OBVIOUS
<1> HIDE DEF start
<1>4. TakeInTurn(start, queue) = start
  BY <1>3 DEF TakeInTurn
<1> DEFINE T == {k \in 0 .. n : f[k] = start}
<1>5. 0 \in T
  BY <1>1, <1>2
<1>6. \A k \in 1 .. n : k - 1 \in T => k \in T
  BY <1>2, <1>4
<1> HIDE DEF T
<1>7. \A k \in 0 .. n : k \in T
  BY <1>1, <1>5, <1>6, Throughout
<1>8. f[n] = start
  BY <1>1, <1>7 DEF T
<1> QED
  BY <1>2, <1>3, <1>8

\* What r has taken are the packets from last to t without a gap.
IsRun(r, last, t) ==
  /\ AtEnd(kinds, t)
  /\ \A i, j \in DOMAIN r.taken : i < j => Number(kinds, Of(r.taken[i])) < Number(kinds, Of(r.taken[j]))
  /\ \A q : Numbered(q) /\ last < Number(kinds, q) /\ Number(kinds, q) <= t =>
              \E h \in Range(r.taken) : Of(h) = q

\* What r has taken of a queue: everything complete up to number t.
IsTaken(r, queue, last, t) ==
  /\ IsRun(r, last, t)
  /\ t \in Nat /\ r.last = t % Space /\ last <= t /\ t <= LastSent
  /\ r.taken \in Seq(queue) /\ \A h \in Range(r.taken) : Complete(h)
  /\ \A h \in queue : h \in Range(r.taken) <=> Number(kinds, Of(h)) <= t

\* What comes in turn has the next number.
LEMMA InTurnIsNext ==
  ASSUME Types, Limits, NEW last \in Nat, Numbers(last), NEW queue, IsQueue(kinds, queue, last),
         NEW r, NEW t, IsTaken(r, queue, last, t), NEW h \in InTurn(r.last, queue)
  PROVE  /\ h \in queue /\ Complete(h) /\ Numbered(Of(h)) /\ Number(kinds, Of(h)) = t + 1
         /\ h \notin Range(r.taken)
<1>1. h \in queue /\ h.rel = (r.last + 1) % Space /\ Complete(h)
  BY DEF InTurn
<1>2. /\ Numbered(Of(h)) /\ h.rel = Number(kinds, Of(h)) % Space /\ last < Number(kinds, Of(h))
  BY <1>1 DEF IsQueue, IsPart, Numbered
<1>3. t \in Nat /\ r.last = t % Space /\ last <= t /\ t <= LastSent
      /\ (h \in Range(r.taken) <=> Number(kinds, Of(h)) <= t)
  BY <1>1 DEF IsTaken
<1>4. (r.last + 1) % Space = (t + 1) % Space
  <2>1. Space \in Nat \ {0} /\ 1 \in Nat
    BY Sizes
  <2>2. ((t % Space) + 1) % Space = (t + 1) % Space
    BY <1>3, <2>1, CutAdd
  <2> QED
    BY <1>3, <2>2
<1>5. LastSent \in Nat
  BY <1>2, NumberSent DEF Numbered
<1>6. t + 1 \in Nat /\ last < t + 1 /\ t + 1 <= LastSent + 1
  BY <1>3, <1>5
<1>7. Number(kinds, Of(h)) = t + 1
  <2> DEFINE n == t + 1
  <2>1. n \in Nat /\ last < n /\ n <= LastSent + 1 /\ Number(kinds, Of(h)) % Space = n % Space
    BY <1>1, <1>2, <1>4, <1>6
  <2> HIDE DEF n
  <2>2. Number(kinds, Of(h)) = n
    BY <1>2, <2>1, SameNumber
  <2> QED
    BY <2>2 DEF n
<1> QED
  BY <1>1, <1>2, <1>3, <1>7

\* One more is taken.
LEMMA TakeKeeps ==
  ASSUME Types, Limits, NEW last \in Nat, Numbers(last), NEW queue \in SUBSET Incoming,
         IsQueue(kinds, queue, last),
         NEW r, NEW t, IsTaken(r, queue, last, t), NEW h \in InTurn(r.last, queue)
  PROVE  LET s == [last |-> LastNumber(r.last, h), taken |-> Append(r.taken, h)]
         IN  /\ \E u : IsTaken(s, queue, last, u)
             /\ Range(s.taken) = Range(r.taken) \cup {h} /\ h \notin Range(r.taken)
<1> DEFINE s == [last |-> LastNumber(r.last, h), taken |-> Append(r.taken, h)]
           p == Of(h)
           n == Number(kinds, p)
           u == t + Size(kinds[p])
<1>1. h \in queue /\ Complete(h) /\ Numbered(p) /\ n = t + 1 /\ h \notin Range(r.taken)
  BY InTurnIsNext
<1>2. IsPart(kinds, h, last) /\ p \in DOMAIN kinds /\ kinds[p] \in {"reliable", "fragmented"}
  BY <1>1 DEF IsQueue, Numbered
<1>3. /\ t \in Nat /\ r.last = t % Space /\ last <= t /\ r.taken \in Seq(queue)
      /\ \A g \in Range(r.taken) : Complete(g)
      /\ \A g \in queue : g \in Range(r.taken) <=> Number(kinds, Of(g)) <= t
  BY DEF IsTaken
<1>4. /\ Len(kinds) \in Nat /\ p \in 1 .. Len(kinds) /\ n \in Nat /\ n + Size(kinds[p]) - 1 <= LastSent
      /\ LastSent \in Nat
  BY <1>2, NumberSent
<1>5. Size(kinds[p]) \in Nat /\ Size(kinds[p]) >= 1
  BY <1>2, SizeType, Sizes
<1>6. Max({h.count, 1}) = Size(kinds[p])
  <2>1. h.count \in Nat
    BY <1>1, Sizes DEF Incoming
  <2>2. Max({h.count, 1}) = IF h.count = 0 THEN 1 ELSE h.count
    BY <2>1, MaxOfTwo
  <2> QED
    BY <1>2, <2>2, Sizes DEF IsPart, Size
<1>7. LastNumber(r.last, h) = u % Space
  <2> DEFINE k == Size(kinds[p])
  <2>1. Space \in Nat \ {0} /\ k \in Nat
    BY <1>5, Sizes
  <2>2. LastNumber(r.last, h) = (r.last + k) % Space
    BY <1>6 DEF LastNumber
  <2> HIDE DEF k
  <2>3. ((t % Space) + k) % Space = (t + k) % Space
    BY <1>3, <2>1, CutAdd
  <2> QED
    BY <1>3, <2>2, <2>3 DEF k
<1>8. s.last = u % Space /\ s.taken = Append(r.taken, h)
  BY <1>7
<1> HIDE DEF s, u, n
<1>9. s.taken \in Seq(queue) /\ Range(s.taken) = Range(r.taken) \cup {h}
  BY <1>1, <1>3, <1>8, AppendProperties, AppendRange
<1>10. u \in Nat /\ t < u /\ last <= u /\ u <= LastSent /\ n <= u /\ u = n + Size(kinds[p]) - 1
  BY <1>1, <1>3, <1>4, <1>5 DEF u
<1>11. ASSUME NEW g \in queue PROVE g \in Range(s.taken) <=> Number(kinds, Of(g)) <= u
  <2> DEFINE q == Of(g)
             m == Number(kinds, q)
  <2>1. q \in DOMAIN kinds /\ kinds[q] \in {"reliable", "fragmented"}
    BY DEF IsQueue, IsPart
  <2>2. q \in 1 .. Len(kinds) /\ m \in Nat /\ (g \in Range(r.taken) <=> m <= t)
    BY <1>3, <2>1, NumberSent
  <2> HIDE DEF q, m
  <2>3. CASE q = p
    <3>1. g = h
      BY <1>1, <2>3 DEF q, IsQueue
    <3>2. m = n
      BY <2>3 DEF m, n
    <3> QED
      BY <1>9, <1>10, <3>1, <3>2 DEF m, q
  <2>4. CASE q < p
    <3>1. m < n
      BY <1>4, <2>1, <2>2, <2>4, NumberApart DEF m, n
    <3>2. m <= t /\ m <= u
      BY <1>1, <1>3, <1>4, <1>10, <2>2, <3>1
    <3> QED
      BY <1>9, <2>2, <3>2 DEF m, q
  <2>5. CASE p < q
    <3>1. n + Size(kinds[p]) <= m
      BY <1>2, <1>4, <2>2, <2>5, NumberApart DEF m, n
    <3>2. ~(m <= u) /\ ~(m <= t)
      BY <1>3, <1>4, <1>5, <1>10, <2>2, <3>1
    <3>3. g # h
      BY <1>4, <2>2, <2>5 DEF q
    <3> QED
      BY <1>9, <2>2, <3>2, <3>3 DEF m, q
  <2> QED
    BY <1>4, <2>2, <2>3, <2>4, <2>5
<1>12. IsRun(s, last, u)
  <2>1. AtEnd(kinds, u)
    <3>1. p + 1 \in 1 .. Len(kinds) + 1 /\ p \in Nat \ {0}
      BY <1>4
    <3>2. Number(kinds, p + 1) = n + Size(kinds[p])
      BY <3>1, NumberStep DEF n
    <3>3. u = Number(kinds, p + 1) - 1
      BY <1>4, <1>5, <1>10, <3>2
    <3> QED
      BY <3>1, <3>3 DEF AtEnd
  <2>2. ASSUME NEW i \in DOMAIN s.taken, NEW j \in DOMAIN s.taken, i < j
        PROVE  Number(kinds, Of(s.taken[i])) < Number(kinds, Of(s.taken[j]))
    <3>1. /\ Len(r.taken) \in Nat /\ DOMAIN r.taken = 1 .. Len(r.taken)
          /\ DOMAIN s.taken = 1 .. Len(r.taken) + 1
          /\ \A k \in 1 .. Len(r.taken) : s.taken[k] = r.taken[k]
          /\ s.taken[Len(r.taken) + 1] = h
      BY <1>1, <1>3, <1>8, <1>9, AppendProperties, LenProperties
    <3>2. i \in 1 .. Len(r.taken) /\ s.taken[i] = r.taken[i]
      BY <2>2, <3>1
    <3>3. CASE j \in 1 .. Len(r.taken)
      BY <2>2, <3>1, <3>2, <3>3 DEF IsTaken, IsRun
    <3>4. CASE j = Len(r.taken) + 1
      <4>1. r.taken[i] \in Range(r.taken) /\ r.taken[i] \in queue
        BY <1>3, <3>1, <3>2, ElementOfSeq DEF Range
      <4>2. Number(kinds, Of(r.taken[i])) <= t
        BY <1>3, <4>1
      <4>3. Number(kinds, Of(r.taken[i])) \in Nat
        BY <4>1, NumberSent DEF IsQueue, IsPart
      <4>4. s.taken[j] = h
        BY <3>1, <3>4
      <4>5. Number(kinds, Of(h)) = t + 1
        BY <1>1 DEF n
      <4> QED
        BY <1>3, <3>2, <4>2, <4>3, <4>4, <4>5
    <3> QED
      BY <3>1, <3>3, <3>4
  <2>3. ASSUME NEW q, Numbered(q), last < Number(kinds, q), Number(kinds, q) <= u
        PROVE  \E g \in Range(s.taken) : Of(g) = q
    <3> DEFINE m == Number(kinds, q)
    <3>1. q \in DOMAIN kinds /\ q \in 1 .. Len(kinds) /\ m \in Nat /\ kinds[q] \in {"reliable", "fragmented"}
      BY <2>3, NumberSent DEF Numbered
    <3>2. m <= u
      BY <2>3
    <3> HIDE DEF m
    <3>3. CASE m <= t
      <4>1. \E g \in Range(r.taken) : Of(g) = q
        BY <2>3, <3>3 DEF IsTaken, IsRun, m
      <4> QED
        BY <1>9, <4>1
    <3>4. CASE q = p
      BY <1>9, <3>4
    <3>5. CASE ~(m <= t) /\ q < p
      <4>1. m < n
        BY <1>4, <3>1, <3>5, NumberApart DEF m, n
      <4> QED
        BY <1>1, <1>3, <1>4, <3>1, <3>5, <4>1
    <3>6. CASE p < q
      <4>1. n + Size(kinds[p]) <= m
        BY <1>2, <1>4, <3>1, <3>6, NumberApart DEF m, n
      <4> QED
        BY <1>4, <1>5, <1>10, <3>1, <3>2, <4>1
    <3> QED
      BY <1>4, <3>1, <3>3, <3>4, <3>5, <3>6
  <2> QED
    BY <2>1, <2>2, <2>3 DEF IsRun
<1>13. IsTaken(s, queue, last, u)
  <2>1. \A g \in Range(s.taken) : Complete(g)
    BY <1>1, <1>3, <1>9
  <2> QED
    BY <1>8, <1>9, <1>10, <1>11, <1>12, <2>1 DEF IsTaken
<1> QED
  BY <1>1, <1>9, <1>13 DEF s

\* An unreliable or unsequenced command is a packet.
LEMMA LooseIsWhole ==
  ASSUME Network, NEW c \in Loose
  PROVE  {c} \in Packets
<1> DEFINE p == c.packet
<1>1. c \in network /\ c.kind \in {"unreliable", "unsequenced"} /\ c \in Commands(p)
  BY DEF Loose, Commands
<1>2. p \in DOMAIN kinds /\ AreSentFor(kinds, p, Commands(p))
  BY <1>1 DEF Network
<1> HIDE DEF p
<1>3. PICK d : Commands(p) = {d}
  <2>1. CASE Commands(p) = {Whole(kinds, p)}
    BY <2>1
  <2>2. CASE Commands(p) = {Fragment(kinds, p, i) : i \in 0 .. Fragments - 1}
    <3>1. c.kind = "fragment"
      BY <1>1, <2>2 DEF Fragment
    <3> QED
      BY <1>1, <3>1
  <2> QED
    BY <1>2, <2>1, <2>2 DEF AreSentFor
<1>4. Commands(p) = {c}
  BY <1>1, <1>3
<1> QED
  BY <1>2, <1>4 DEF Packets

\* All that is in turn is taken, and nothing else.
LEMMA Taken ==
  ASSUME Types, Limits, NEW last \in Nat, Numbers(last), NEW queue \in SUBSET Incoming,
         IsFiniteSet(queue), IsQueue(kinds, queue, last)
  PROVE  LET r == InSequence(inRel, queue)
         IN  /\ \E t : IsTaken(r, queue, last, t)
             /\ InTurn(r.last, queue \ Range(r.taken)) = {}
<1> DEFINE n == Cardinality(queue)
           Stuck(r) == InTurn(r.last, queue) = {}
           IsReached(r, k) ==
             /\ \E t : IsTaken(r, queue, last, t)
             /\ IsFiniteSet(Range(r.taken)) /\ (Stuck(r) \/ Cardinality(Range(r.taken)) = k)
<1>1. n \in Nat
  BY InSequenceSteps
<1>2. PICK f : /\ f[0] = [last |-> inRel, taken |-> <<>>] /\ InSequence(inRel, queue) = f[n]
               /\ \A k \in 1 .. n : f[k] = TakeInTurn(f[k - 1], queue)
  BY InSequenceSteps
<1> HIDE DEF n, IsReached, Stuck
<1> DEFINE T == {k \in 0 .. n : IsReached(f[k], k)}
<1>3. IsReached(f[0], 0)
  <2>1. f[0].last = inRel /\ f[0].taken = <<>>
    BY <1>2
  <2>2. <<>> \in Seq(queue) /\ Range(<<>>) = {}
    BY EmptySeq DEF Range
  <2>3. ASSUME NEW h \in queue PROVE ~(Number(kinds, Of(h)) <= last)
    <3>1. Of(h) \in DOMAIN kinds /\ last < Number(kinds, Of(h))
      BY DEF IsQueue, IsPart
    <3>2. Number(kinds, Of(h)) \in Nat
      BY <3>1, NumberSent
    <3> QED
      BY <3>1, <3>2
  <2>4. inRel = last % Space /\ last <= LastSent
    BY DEF Numbers
  <2>5. IsTaken(f[0], queue, last, last)
    <3>1. \A q : ~(Numbered(q) /\ last < Number(kinds, q) /\ Number(kinds, q) <= last)
      <4> SUFFICES ASSUME NEW q, Numbered(q), last < Number(kinds, q), Number(kinds, q) <= last
                   PROVE  FALSE
        OBVIOUS
      <4>1. Number(kinds, q) \in Nat
        BY NumberSent DEF Numbered
      <4> QED
        BY <4>1
    <3>2. DOMAIN <<>> = {}
      OBVIOUS
    <3>3. IsRun(f[0], last, last)
      BY <2>1, <3>1, <3>2 DEF IsRun, Numbers
    <3> QED
      BY <2>1, <2>2, <2>3, <2>4, <3>3 DEF IsTaken
  <2>6. IsFiniteSet({}) /\ Cardinality({}) = 0
    BY FS_EmptySet
  <2> QED
    BY <2>1, <2>2, <2>5, <2>6 DEF IsReached
<1>4. ASSUME NEW k \in 1 .. n, IsReached(f[k - 1], k - 1) PROVE IsReached(f[k], k)
  <2> DEFINE r == f[k - 1]
             s == f[k]
  <2>1. s = TakeInTurn(r, queue) /\ k \in Int
    BY <1>1, <1>2
  <2>2. PICK t : IsTaken(r, queue, last, t)
    BY <1>4 DEF IsReached
  <2>3. IsFiniteSet(Range(r.taken)) /\ (Stuck(r) \/ Cardinality(Range(r.taken)) = k - 1)
    BY <1>4 DEF IsReached
  <2> HIDE DEF r, s
  <2>4. CASE InTurn(r.last, queue) = {}
    <3>1. s = r
      BY <2>1, <2>4 DEF TakeInTurn
    <3> QED
      BY <2>2, <2>3, <2>4, <3>1 DEF IsReached, Stuck, s
  <2>5. ASSUME NEW h \in InTurn(r.last, queue),
               s = [last |-> LastNumber(r.last, h), taken |-> Append(r.taken, h)]
        PROVE  IsReached(s, k)
    <3>1. /\ \E u : IsTaken(s, queue, last, u)
          /\ Range(s.taken) = Range(r.taken) \cup {h} /\ h \notin Range(r.taken)
      <4> DEFINE x == [last |-> LastNumber(r.last, h), taken |-> Append(r.taken, h)]
      <4>1. /\ \E u : IsTaken(x, queue, last, u)
            /\ Range(x.taken) = Range(r.taken) \cup {h} /\ h \notin Range(r.taken)
        BY <2>2, <2>5, TakeKeeps
      <4>2. s = x
        BY <2>5
      <4> HIDE DEF x
      <4> QED
        BY <4>1, <4>2
    <3>2. Cardinality(Range(r.taken)) = k - 1
      BY <2>3 DEF Stuck
    <3>3. IsFiniteSet(Range(s.taken)) /\ Cardinality(Range(s.taken)) = Cardinality(Range(r.taken)) + 1
      BY <2>3, <3>1, FS_AddElement
    <3>4. Cardinality(Range(s.taken)) = k
      BY <2>1, <3>2, <3>3
    <3> QED
      BY <3>1, <3>3, <3>4 DEF IsReached
  <2> QED
    BY <2>1, <2>4, <2>5, TakeInTurnCases DEF s
<1>5. 0 \in T
  BY <1>1, <1>3
<1>6. \A k \in 1 .. n : k - 1 \in T => k \in T
  <2> SUFFICES ASSUME NEW k \in 1 .. n, k - 1 \in T PROVE k \in T
    OBVIOUS
  <2>1. IsReached(f[k], k)
    BY <1>4
  <2> QED
    BY <2>1
<1> HIDE DEF T
<1>7. \A k \in 0 .. n : k \in T
  BY <1>1, <1>5, <1>6, Throughout
<1>8. IsReached(f[n], n)
  BY <1>1, <1>7 DEF T
<1> DEFINE r == f[n]
<1>9. /\ \E t : IsTaken(r, queue, last, t)
      /\ IsFiniteSet(Range(r.taken)) /\ (Stuck(r) \/ Cardinality(Range(r.taken)) = n)
  BY <1>8 DEF IsReached
<1> HIDE DEF r
<1>10. InTurn(r.last, queue \ Range(r.taken)) = {}
  <2>1. CASE Stuck(r)
    BY <2>1 DEF Stuck, InTurn
  <2>2. CASE Cardinality(Range(r.taken)) = n
    <3>1. Range(r.taken) \in SUBSET queue
      BY <1>9, RangeType DEF IsTaken
    <3>2. queue = Range(r.taken)
      BY <2>2, <3>1, FS_Subset DEF n
    <3> QED
      BY <3>2 DEF InTurn
  <2> QED
    BY <1>9, <2>1, <2>2
<1> QED
  BY <1>2, <1>9, <1>10 DEF r

\* The reliable numbers after a dispatch that took the packets up to number t.
LEMMA DispatchNumbers ==
  ASSUME Types, NEW last \in Nat, Numbers(last), NEW queue, IsQueue(kinds, queue, last),
         UNCHANGED senderVars, NEW r, NEW t, IsTaken(r, queue, last, t),
         held' = queue \ Range(r.taken), inRel' = r.last
  PROVE  Numbers(t)' /\ IsQueue(kinds, held', t)
<1>1. /\ t \in Nat /\ r.last = t % Space /\ last <= t /\ t <= LastSent
      /\ \A h \in queue : h \in Range(r.taken) <=> Number(kinds, Of(h)) <= t
  BY DEF IsTaken
<1>2. Numbers(t)'
  <2>1. LastSent' = LastSent /\ outRel' = outRel
    BY DEF senderVars, LastSent
  <2>2. LastSent <= last + MaxAhead /\ outRel = LastSent % Space
    BY DEF Numbers
  <2>3. LastSent \in Int
    <3>1. LastSent = Number(kinds, Len(kinds) + 1) - 1
      BY DEF LastSent
    <3>2. Len(kinds) + 1 \in Nat \ {0}
      BY LenProperties DEF Types, TypeOK
    <3> QED
      BY <3>1, <3>2, NumberType
  <2>4. LastSent <= t + MaxAhead
    BY <1>1, <2>2, <2>3, Sizes
  <2>5. AtEnd(kinds, t) /\ kinds' = kinds
    BY DEF IsTaken, IsRun, senderVars
  <2> QED
    BY <1>1, <2>1, <2>2, <2>4, <2>5 DEF Numbers
<1>3. IsQueue(kinds, held', t)
  <2>1. ASSUME NEW h \in held' PROVE IsPart(kinds, h, t)
    <3>1. h \in queue /\ h \notin Range(r.taken) /\ IsPart(kinds, h, last)
      BY DEF IsQueue
    <3>2. Of(h) \in DOMAIN kinds
      BY <3>1 DEF IsPart
    <3>3. ~(Number(kinds, Of(h)) <= t) /\ Number(kinds, Of(h)) \in Nat
      BY <1>1, <3>1, <3>2, NumberSent
    <3>4. t < Number(kinds, Of(h))
      BY <1>1, <3>3
    <3> QED
      BY <3>1, <3>4 DEF IsPart
  <2> QED
    BY <2>1 DEF IsQueue
<1> QED
  BY <1>2, <1>3

\* What the dispatch of a queue leaves behind.
LEMMA DispatchKeeps ==
  ASSUME Types, Limits, Network, NEW last \in Nat, Numbers(last), NEW queue \in SUBSET Incoming,
         IsFiniteSet(queue), IsQueue(kinds, queue, last), UNCHANGED senderVars,
         waiting \in Seq(Loose), delivered \in Seq(Packets), DueLength(inRel, waiting) = 0,
         DispatchReliable(queue)
  PROVE  /\ \E t \in Nat : Numbers(t)' /\ IsQueue(kinds, held', t)
         /\ waiting' \in Seq(Loose) /\ delivered' \in Seq(Packets)
         /\ InSequence(inRel', held').taken = <<>>
<1> DEFINE r == InSequence(inRel, queue)
           before == [i \in DOMAIN r.taken |-> r.taken[i].got]
<1>1. /\ held' = queue \ Range(r.taken) /\ inRel' = r.last
      /\ IF r.taken = <<>> THEN UNCHANGED <<delivered, waiting, inUnrel>>
                           ELSE DispatchUnreliable(waiting, before, r.last, 0)
  BY DEF DispatchReliable
<1>2. (\E t : IsTaken(r, queue, last, t)) /\ InTurn(r.last, queue \ Range(r.taken)) = {}
  BY Taken
<1> HIDE DEF r
<1>3. PICK t : IsTaken(r, queue, last, t)
  BY <1>2
<1>4. /\ t \in Nat /\ r.last = t % Space /\ last <= t /\ t <= LastSent
      /\ r.taken \in Seq(queue) /\ \A h \in Range(r.taken) : Complete(h)
      /\ \A h \in queue : h \in Range(r.taken) <=> Number(kinds, Of(h)) <= t
  BY <1>3 DEF IsTaken
<1>5. Numbers(t)' /\ IsQueue(kinds, held', t)
  BY <1>1, <1>3, DispatchNumbers
<1>7. InSequence(inRel', held').taken = <<>>
  <2>1. IsFiniteSet(held')
    <3>1. held' \in SUBSET queue
      BY <1>1
    <3> QED
      BY <3>1, FS_Subset
  <2>2. InTurn(inRel', held') = {}
    BY <1>1, <1>2
  <2> QED
    BY <2>1, <2>2, NoneInTurn
<1>8. waiting' \in Seq(Loose) /\ delivered' \in Seq(Packets)
  <2>1. CASE r.taken = <<>>
    BY <1>1, <2>1
  <2>2. CASE r.taken # <<>>
    <3>1. DispatchUnreliable(waiting, before, r.last, 0)
      BY <1>1, <2>2
    <3>2. before \in Seq(Packets)
      <4>1. Len(r.taken) \in Nat /\ DOMAIN r.taken = 1 .. Len(r.taken)
        BY <1>4, LenProperties
      <4>2. ASSUME NEW i \in 1 .. Len(r.taken) PROVE r.taken[i].got \in Packets
        <5>1. r.taken[i] \in queue /\ r.taken[i] \in Range(r.taken)
          BY <1>4, <4>1, ElementOfSeq DEF Range
        <5>2. r.taken[i] \in Incoming /\ IsPart(kinds, r.taken[i], last) /\ Complete(r.taken[i])
          BY <1>4, <5>1 DEF IsQueue
        <5> QED
          BY <5>2, CompleteIsWhole
      <4> QED
        BY <4>1, <4>2
    <3>3. \A c \in Loose : {c} \in Packets
      BY LooseIsWhole
    <3> HIDE DEF before
    <3> QED
      BY <3>1, <3>2, <3>3, DispatchUnreliableOf
  <2> QED
    BY <2>1, <2>2
<1> QED
  BY <1>4, <1>5, <1>7, <1>8

\* The packet that a reliable command or a fragment is of.
LEMMA CommandOf ==
  ASSUME Types, Network, NEW c \in network
  PROVE  LET p == c.packet
         IN  /\ p \in DOMAIN kinds
             /\ c.kind = "reliable" =>
                  kinds[p] = "reliable" /\ c.rel = Number(kinds, p) % Space
             /\ c.kind = "fragment" =>
                  kinds[p] = "fragmented" /\ c.rel = Number(kinds, p) % Space /\ c.count = Fragments
<1> DEFINE p == c.packet
<1>1. c \in Commands(p)
  BY DEF Commands
<1>2. p \in DOMAIN kinds /\ AreSentFor(kinds, p, Commands(p))
  BY DEF Network
<1> HIDE DEF p
<1>3. CASE kinds[p] = "reliable" /\ Commands(p) = {Whole(kinds, p)}
  BY <1>1, <1>2, <1>3 DEF Whole, p
<1>4. CASE kinds[p] = "fragmented" /\ Commands(p) = {Fragment(kinds, p, i) : i \in 0 .. Fragments - 1}
  BY <1>1, <1>2, <1>4 DEF Fragment, p
<1>5. CASE kinds[p] \in {"unreliable", "unsequenced"} /\ \E d : Commands(p) = {d} /\ d.kind = kinds[p]
  <2>1. c.kind = kinds[p]
    BY <1>1, <1>5
  <2> QED
    BY <1>2, <1>5, <2>1 DEF p
<1> QED
  BY <1>2, <1>3, <1>4, <1>5 DEF AreSentFor

\* The packet of an incoming command that got c, and perhaps others of its packet.
LEMMA OfAll ==
  ASSUME NEW h, NEW p, h.got # {}, \A c \in h.got : c.packet = p
  PROVE  Of(h) = p
BY DEF Of

\* A reliable command joins the queue.
LEMMA ReliableJoins ==
  ASSUME Types, Limits, Network, NEW last \in Nat, Numbers(last), IsQueue(kinds, held, last),
         NEW c \in network, ReceiveReliable(c), Len(kinds) - c.packet < MaxLag
  PROVE  IsQueue(kinds, held \cup {[rel |-> c.rel, count |-> 0, got |-> {c}]}, last)
<1> DEFINE new == [rel |-> c.rel, count |-> 0, got |-> {c}]
           p == c.packet
<1>1. c.kind = "reliable" /\ InWindow(c.rel) /\ c.rel # inRel /\ \A h \in held : h.rel # c.rel
  BY DEF ReceiveReliable
<1>2. p \in DOMAIN kinds /\ kinds[p] = "reliable" /\ c.rel = Number(kinds, p) % Space
  BY <1>1, CommandOf
<1>3. last < Number(kinds, p)
  BY <1>1, <1>2, Accepted
<1>4. new.rel = c.rel /\ new.count = 0 /\ new.got # {} /\ \A d \in new.got : d.packet = p
  OBVIOUS
<1> HIDE DEF new, p
<1>5. Of(new) = p
  BY <1>4, OfAll
<1>6. IsPart(kinds, new, last)
  BY <1>2, <1>3, <1>4, <1>5 DEF IsPart
<1>7. \A g \in held : Of(g) # p
  <2>1. \A g \in held : g.rel = Number(kinds, Of(g)) % Space
    BY DEF IsQueue, IsPart
  <2> QED
    BY <1>1, <1>2, <2>1
<1>8. IsQueue(kinds, held \cup {new}, last)
  BY <1>5, <1>6, <1>7 DEF IsQueue
<1> QED
  BY <1>8 DEF new

\* A fragment joins its packet.
\* What is held under the number of a fragment that comes is of the same packet.
LEMMA FragmentOf ==
  ASSUME Types, Limits, Network, NEW last \in Nat, Numbers(last), IsQueue(kinds, held, last),
         NEW c \in network, ReceiveFragment(c), Len(kinds) - c.packet < MaxLag
  PROVE  /\ c.packet \in DOMAIN kinds /\ kinds[c.packet] = "fragmented"
         /\ c.rel = Number(kinds, c.packet) % Space /\ c.count = Fragments
         /\ last < Number(kinds, c.packet)
         /\ \A g \in held : g.rel = c.rel => Of(g) = c.packet
<1> DEFINE p == c.packet
<1>1. c.kind = "fragment" /\ InWindow(c.rel) /\ c.rel # inRel
  BY DEF ReceiveFragment
<1>2. /\ p \in DOMAIN kinds /\ kinds[p] = "fragmented" /\ c.rel = Number(kinds, p) % Space
      /\ c.count = Fragments
  BY <1>1, CommandOf
<1>3. last < Number(kinds, p)
  BY <1>1, <1>2, Accepted
<1>4. Number(kinds, p) \in Nat /\ Number(kinds, p) <= LastSent + 1
  <2>1. Size(kinds[p]) \in Nat
    BY SizeType, Sizes
  <2>2. Number(kinds, p) \in Nat /\ LastSent \in Nat /\ Number(kinds, p) + Size(kinds[p]) - 1 <= LastSent
    BY <1>2, NumberSent
  <2> QED
    BY <2>1, <2>2
<1> HIDE DEF p
<1>5. ASSUME NEW g \in held, g.rel = c.rel PROVE Of(g) = p
  <2>1. Numbered(Of(g)) /\ last < Number(kinds, Of(g)) /\ g.rel = Number(kinds, Of(g)) % Space
    BY DEF IsQueue, IsPart, Numbered
  <2>2. Number(kinds, Of(g)) = Number(kinds, p)
    BY <1>2, <1>3, <1>4, <1>5, <2>1, SameNumber
  <2>3. Numbered(p)
    BY <1>2 DEF Numbered
  <2> QED
    BY <2>1, <2>2, <2>3, NumberUnique
<1> QED
  BY <1>2, <1>3, <1>5 DEF p

LEMMA FragmentJoins ==
  ASSUME Types, Limits, Network, NEW last \in Nat, Numbers(last), IsQueue(kinds, held, last),
         NEW c \in network, ReceiveFragment(c), Len(kinds) - c.packet < MaxLag
  PROVE  IsQueue(kinds, (held \ {h \in held : h.rel = c.rel})
                          \cup {[Start(c) EXCEPT !.got = @ \cup {c}]}, last)
<1> DEFINE start == Start(c)
           more == [start EXCEPT !.got = @ \cup {c}]
           p == c.packet
<1>1. /\ p \in DOMAIN kinds /\ kinds[p] = "fragmented"
      /\ c.rel = Number(kinds, p) % Space /\ c.count = Fragments
      /\ last < Number(kinds, p) /\ c.packet = p
      /\ \A g \in held : g.rel = c.rel => Of(g) = p
  BY FragmentOf
<1> HIDE DEF p
<1>2. start.rel = c.rel /\ start.count = Fragments /\ \A d \in start.got : d.packet = p
  <2>1. CASE start \in held /\ start.rel = c.rel
    <3>1. Of(start) = p
      BY <1>1, <2>1
    <3>2. IsPart(kinds, start, last)
      BY <2>1 DEF IsQueue
    <3> HIDE DEF start
    <3> QED
      BY <1>1, <2>1, <3>1, <3>2 DEF IsPart
  <2>2. CASE start = [rel |-> c.rel, count |-> c.count, got |-> {}]
    <3> HIDE DEF start
    <3> QED
      BY <1>1, <2>2
  <2> QED
    BY <2>1, <2>2, Started
<1>3. start \in Incoming
  <2>1. c \in Command /\ held \subseteq Incoming
    BY DEF Types, TypeOK
  <2>2. [rel |-> c.rel, count |-> c.count, got |-> {}] \in Incoming
    BY <2>1 DEF Incoming, Command
  <2> QED
    BY <2>1, <2>2, Started
<1> HIDE DEF start
<1>4. more.rel = c.rel /\ more.count = Fragments /\ more.got # {} /\ \A d \in more.got : d.packet = p
  BY <1>1, <1>2, <1>3 DEF Incoming
<1> HIDE DEF more
<1>5. Of(more) = p
  BY <1>4, OfAll
<1>6. IsPart(kinds, more, last)
  BY <1>1, <1>4, <1>5 DEF IsPart
<1>7. \A g \in held : Of(g) = p => g.rel = c.rel
  <2>1. \A g \in held : g.rel = Number(kinds, Of(g)) % Space
    BY DEF IsQueue, IsPart
  <2> QED
    BY <1>1, <2>1
<1>8. IsQueue(kinds, (held \ {h \in held : h.rel = c.rel}) \cup {more}, last)
  BY <1>5, <1>6, <1>7 DEF IsQueue
<1> QED
  BY <1>8 DEF more, start

\* What is sent gets the next numbers, and is the packet just queued.
LEMMA SendNumbers ==
  ASSUME Types, Limits, NEW last \in Nat, Numbers(last), NEW kind \in Kinds, Send(kind)
  PROVE  \E becomes \in Kinds \cup {"reliable"} : \E commands :
           /\ kinds' = Append(kinds, becomes) /\ network' = network \cup commands
           /\ \A c \in commands : c.packet = This
           /\ AreSentFor(kinds', This, commands)
           /\ outRel' = (LastSent + Size(becomes)) % Space
           /\ LastSent + Size(becomes) <= last + MaxAhead
           /\ UNCHANGED <<inRel, held, waiting, delivered>>
<1>1. PICK becomes \in Kinds \cup {"reliable"} :
           /\ Len(kinds) < MaxPackets /\ kinds' = Append(kinds, becomes)
           /\ \/ becomes = "reliable" /\ SendReliable
              \/ becomes = "fragmented" /\ SendFragments
              \/ becomes = "unreliable" /\ SendUnreliable /\ ~(outUnrel >= UnreliableLimit)
              \/ becomes = "unsequenced" /\ SendUnsequenced
           /\ UNCHANGED <<inUnrel, waiting, delivered, reliableVars, groupVars>>
  BY SendCases
<1>2. UNCHANGED <<inRel, held, waiting, delivered>>
  BY <1>1 DEF reliableVars
<1>3. LastSent \in Nat /\ kinds'[This] = becomes /\ Number(kinds', This) = LastSent + 1
  <2>1. /\ kinds'[Len(kinds) + 1] = becomes
        /\ \A p \in 1 .. Len(kinds) + 1 : Number(kinds', p) = Number(kinds, p)
        /\ LastSent \in Nat
    BY <1>1, NumberKept
  <2>2. Len(kinds) \in Nat
    BY LenProperties DEF Types, TypeOK
  <2>3. LastSent = Number(kinds, Len(kinds) + 1) - 1 /\ Number(kinds, Len(kinds) + 1) \in Nat
    BY <2>2, NumberType DEF LastSent
  <2>4. Number(kinds', Len(kinds) + 1) = Number(kinds, Len(kinds) + 1)
    BY <2>1, <2>2
  <2> QED
    BY <2>1, <2>3, <2>4 DEF This
<1>4. /\ outRel = LastSent % Space /\ inRel = last % Space
      /\ last <= LastSent /\ LastSent <= last + MaxAhead
      /\ MaxAhead < Space /\ MaxAhead \in Nat /\ Space \in Nat \ {0}
  BY Sizes DEF Numbers, Limits
<1>5. ASSUME NEW n \in Nat PROVE (outRel + n) % Space = (LastSent + n) % Space
  BY <1>3, <1>4, CutAdd
<1>6. ASSUME NEW n \in Nat, QueueReliable(n) PROVE LastSent + n <= last + MaxAhead
  <2>1. ((outRel - inRel) % Space) + n <= MaxAhead
    BY <1>6 DEF QueueReliable
  <2>2. LastSent - last < Space
    BY <1>3, <1>4
  <2>3. ((LastSent % Space) - (last % Space)) % Space = LastSent - last
    BY <1>3, <1>4, <2>2, CutSubtract
  <2> QED
    BY <1>3, <1>4, <2>1, <2>3
<1>7. CASE becomes = "reliable" /\ SendReliable
  <2> DEFINE c == [kind |-> "reliable", packet |-> This, rel |-> outRel', minor |-> 0, count |-> 0]
  <2>1. outRel' = (outRel + 1) % Space /\ network' = network \cup {c} /\ QueueReliable(1)
    BY <1>7 DEF SendReliable, QueueReliable, Put
  <2>2. outRel' = (LastSent + 1) % Space /\ LastSent + 1 <= last + MaxAhead
    BY <1>5, <1>6, <2>1
  <2>3. c = Whole(kinds', This) /\ c.packet = This
    BY <1>3, <2>2 DEF Whole
  <2> HIDE DEF c
  <2>4. AreSentFor(kinds', This, {c})
    BY <1>3, <1>7, <2>3 DEF AreSentFor
  <2>5. Size(becomes) = 1
    BY <1>7 DEF Size
  <2> QED
    BY <1>1, <1>2, <2>1, <2>2, <2>3, <2>4, <2>5
<1>8. CASE becomes = "fragmented" /\ SendFragments
  <2> DEFINE C == {Fragment(kinds', This, i) : i \in 0 .. Fragments - 1}
  <2>1. outRel' = (outRel + Fragments) % Space /\ QueueReliable(Fragments)
    BY <1>8 DEF SendFragments, QueueReliable
  <2>2. outRel' = (LastSent + Fragments) % Space /\ LastSent + Fragments <= last + MaxAhead
    BY <1>5, <1>6, <2>1, Sizes
  <2>3. (outRel + 1) % Space = Number(kinds', This) % Space
    BY <1>3, <1>5
  <2>4. network' = network \cup C
    BY <1>8, <2>3 DEF SendFragments, Put, Fragment
  <2>5. \A c \in C : c.packet = This
    BY DEF Fragment
  <2> HIDE DEF C
  <2>6. AreSentFor(kinds', This, C)
    BY <1>3, <1>8 DEF AreSentFor, C
  <2>7. Size(becomes) = Fragments
    BY <1>8 DEF Size
  <2> QED
    BY <1>1, <1>2, <2>2, <2>4, <2>5, <2>6, <2>7
<1>9. CASE becomes = "unreliable" /\ SendUnreliable
  <2> DEFINE c == [kind |-> "unreliable", packet |-> This, rel |-> outRel, minor |-> outUnrel', count |-> 0]
  <2>1. outRel' = outRel /\ network' = network \cup {c}
    BY <1>9 DEF SendUnreliable, Put
  <2>2. c.kind = "unreliable" /\ c.packet = This
    OBVIOUS
  <2> HIDE DEF c
  <2>3. AreSentFor(kinds', This, {c})
    BY <1>3, <1>9, <2>2 DEF AreSentFor
  <2>4. Size(becomes) = 0
    BY <1>9 DEF Size
  <2>5. outRel' = (LastSent + 0) % Space /\ LastSent + 0 <= last + MaxAhead
    BY <1>3, <1>4, <2>1
  <2> QED
    BY <1>1, <1>2, <2>1, <2>2, <2>3, <2>4, <2>5
<1>10. CASE becomes = "unsequenced" /\ SendUnsequenced
  <2> DEFINE c == [kind |-> "unsequenced", packet |-> This, rel |-> 0, minor |-> outGroup', count |-> 0]
  <2>1. outRel' = outRel /\ network' = network \cup {c}
    BY <1>10 DEF SendUnsequenced, Put
  <2>2. c.kind = "unsequenced" /\ c.packet = This
    OBVIOUS
  <2> HIDE DEF c
  <2>3. AreSentFor(kinds', This, {c})
    BY <1>3, <1>10, <2>2 DEF AreSentFor
  <2>4. Size(becomes) = 0
    BY <1>10 DEF Size
  <2>5. outRel' = (LastSent + 0) % Space /\ LastSent + 0 <= last + MaxAhead
    BY <1>3, <1>4, <2>1
  <2> QED
    BY <1>1, <1>2, <2>1, <2>2, <2>3, <2>4, <2>5
<1> QED
  BY <1>1, <1>7, <1>8, <1>9, <1>10

\* What is queued takes the next numbers, and nothing that is held changes.
LEMMA SendLine ==
  ASSUME Types, Limits, NEW last \in Nat, Numbers(last), IsQueue(kinds, held, last),
         NEW kind \in Kinds, Send(kind)
  PROVE  Numbers(last)' /\ IsQueue(kinds', held', last)
<1>1. PICK becomes \in Kinds \cup {"reliable"} : \E commands :
           /\ kinds' = Append(kinds, becomes) /\ network' = network \cup commands
           /\ \A c \in commands : c.packet = This
           /\ AreSentFor(kinds', This, commands)
           /\ outRel' = (LastSent + Size(becomes)) % Space
           /\ LastSent + Size(becomes) <= last + MaxAhead
           /\ UNCHANGED <<inRel, held, waiting, delivered>>
  BY SendNumbers
<1>2. /\ kinds' = Append(kinds, becomes) /\ outRel' = (LastSent + Size(becomes)) % Space
      /\ LastSent + Size(becomes) <= last + MaxAhead /\ UNCHANGED <<inRel, held>>
  BY <1>1
<1>3. /\ Len(kinds') = Len(kinds) + 1 /\ DOMAIN kinds' = 1 .. Len(kinds) + 1
      /\ \A p \in DOMAIN kinds : kinds'[p] = kinds[p]
      /\ \A p \in 1 .. Len(kinds) + 1 : Number(kinds', p) = Number(kinds, p)
      /\ LastSent' = LastSent + Size(becomes) /\ LastSent \in Nat
  BY <1>2, NumberKept
<1>4. Len(kinds) \in Nat /\ DOMAIN kinds = 1 .. Len(kinds)
  BY LenProperties DEF Types, TypeOK
<1>5. Numbers(last)'
  <2>1. last <= LastSent /\ inRel = last % Space
    BY DEF Numbers
  <2>2. Size(becomes) \in Nat
    BY SizeType, Sizes
  <2>3. AtEnd(kinds', last)
    <3>1. PICK p \in 1 .. Len(kinds) + 1 : last = Number(kinds, p) - 1
      BY DEF Numbers, AtEnd
    <3>2. Number(kinds', p) = Number(kinds, p)
      BY <1>3
    <3> QED
      BY <1>3, <1>4, <3>1, <3>2 DEF AtEnd
  <2> QED
    BY <1>2, <1>3, <2>1, <2>2, <2>3 DEF Numbers
<1>6. IsQueue(kinds', held', last)
  <2>1. ASSUME NEW h \in held PROVE IsPart(kinds', h, last)
    <3>1. IsPart(kinds, h, last) /\ Of(h) \in DOMAIN kinds
      BY DEF IsQueue, IsPart
    <3>2. Of(h) \in DOMAIN kinds' /\ Number(kinds', Of(h)) = Number(kinds, Of(h)) /\ kinds'[Of(h)] = kinds[Of(h)]
      BY <1>3, <1>4, <3>1
    <3> QED
      BY <3>1, <3>2 DEF IsPart
  <2> QED
    BY <1>2, <2>1 DEF IsQueue
<1> QED
  BY <1>5, <1>6

LEMMA SendKeeps ==
  ASSUME Limits, Inv, NEW kind \in Kinds, Send(kind)
  PROVE  Inv'
<1>1. Types /\ Network /\ waiting \in Seq(Loose) /\ delivered \in Seq(Packets)
  BY DEF Inv
<1>2. PICK last \in Nat : Numbers(last) /\ IsQueue(kinds, held, last)
  BY DEF Inv, Line
<1>3. PICK becomes \in Kinds \cup {"reliable"} : \E commands :
           /\ kinds' = Append(kinds, becomes) /\ network' = network \cup commands
           /\ \A c \in commands : c.packet = This
           /\ AreSentFor(kinds', This, commands)
           /\ outRel' = (LastSent + Size(becomes)) % Space
           /\ LastSent + Size(becomes) <= last + MaxAhead
           /\ UNCHANGED <<inRel, held, waiting, delivered>>
  BY <1>1, <1>2, SendNumbers
<1>4. PICK commands :
           /\ kinds' = Append(kinds, becomes) /\ network' = network \cup commands
           /\ \A c \in commands : c.packet = This
           /\ AreSentFor(kinds', This, commands)
           /\ outRel' = (LastSent + Size(becomes)) % Space
           /\ LastSent + Size(becomes) <= last + MaxAhead
           /\ UNCHANGED <<inRel, held, waiting, delivered>>
  BY <1>3
<1>5. /\ DOMAIN kinds' = 1 .. Len(kinds) + 1
      /\ \A p \in DOMAIN kinds : kinds'[p] = kinds[p]
      /\ \A p \in 1 .. Len(kinds) + 1 : Number(kinds', p) = Number(kinds, p)
      /\ LastSent' = LastSent + Size(becomes) /\ LastSent \in Nat
  BY <1>1, <1>4, NumberKept
<1>6. Len(kinds) \in Nat /\ DOMAIN kinds = 1 .. Len(kinds) /\ This = Len(kinds) + 1
  BY <1>1, LenProperties DEF Types, TypeOK, This
<1>7. ASSUME NEW p \in DOMAIN kinds PROVE Commands(p)' = Commands(p)
  <2>1. p # This
    BY <1>6
  <2> QED
    BY <1>4, <2>1 DEF Commands
<1>8. \A p \in DOMAIN kinds : p \in DOMAIN kinds' /\ Number(kinds', p) = Number(kinds, p)
  BY <1>5, <1>6
<1>9. Network'
  <2>1. \A c \in network' : c.packet \in DOMAIN kinds'
    BY <1>1, <1>4, <1>5, <1>6 DEF Network
  <2>2. ASSUME NEW p \in DOMAIN kinds' PROVE AreSentFor(kinds', p, Commands(p)')
    <3>1. CASE p \in DOMAIN kinds
      <4>1. AreSentFor(kinds, p, Commands(p))
        BY <1>1, <3>1 DEF Network
      <4>2. Commands(p)' = Commands(p) /\ Number(kinds', p) = Number(kinds, p) /\ kinds'[p] = kinds[p]
        BY <1>5, <1>7, <1>8, <3>1
      <4> QED
        BY <4>1, <4>2 DEF AreSentFor, Whole, Fragment
    <3>2. CASE p = This
      <4>1. \A c \in network : c.packet # p
        BY <1>1, <1>6, <3>2 DEF Network
      <4>2. Commands(p)' = commands
        BY <1>4, <3>2, <4>1 DEF Commands
      <4> QED
        BY <1>4, <3>2, <4>2
    <3> QED
      BY <1>5, <1>6, <3>1, <3>2
  <2> QED
    BY <2>1, <2>2 DEF Network
<1>10. Numbers(last)' /\ IsQueue(kinds', held', last)
  BY <1>1, <1>2, SendLine
<1>11. waiting' \in Seq(Loose') /\ delivered' \in Seq(Packets')
  <2>1. Loose \subseteq Loose'
    BY <1>4 DEF Loose
  <2>2. Packets \subseteq Packets'
    BY <1>7, <1>8 DEF Packets
  <2> QED
    BY <1>1, <1>4, <2>1, <2>2, SeqMonotonic
<1>12. NothingHeldBack'
  BY <1>4 DEF Inv, NothingHeldBack
<1>13. Types'
  BY <1>1, SendTypes
<1> QED
  BY <1>9, <1>10, <1>11, <1>12, <1>13 DEF Inv, Line

LEMMA ReceiveKeeps ==
  ASSUME Limits, Inv, NEW c \in network, Receive(c)
  PROVE  Inv'
<1>1. /\ Types /\ Network /\ waiting \in Seq(Loose) /\ delivered \in Seq(Packets)
      /\ InSequence(inRel, held).taken = <<>> /\ DueLength(inRel, waiting) = 0
  BY DEF Inv, NothingHeldBack
<1>2. PICK last \in Nat : Numbers(last) /\ IsQueue(kinds, held, last)
  BY DEF Inv, Line
<1>3. Types' /\ DueLength(inRel', waiting') = 0
  BY <1>1, ReceiveTypes
<1>4. Len(kinds) - c.packet < MaxLag
  BY DEF Receive
<1>5. UNCHANGED senderVars
  BY DEF Receive, ReceiveReliable, ReceiveFragment, ReceiveUnreliable, ReceiveUnsequenced
<1>6. Network' /\ Loose' = Loose /\ Packets' = Packets /\ kinds' = kinds
  <2>1. UNCHANGED <<kinds, network>>
    BY <1>5 DEF senderVars
  <2>2. Loose' = Loose /\ Packets' = Packets
    BY <2>1 DEF Loose, Packets, Commands
  <2> QED
    BY <1>1, <2>1, <2>2 DEF Network, Commands
<1>7. SUFFICES /\ \E t \in Nat : Numbers(t)' /\ IsQueue(kinds, held', t)
               /\ waiting' \in Seq(Loose) /\ delivered' \in Seq(Packets)
               /\ InSequence(inRel', held').taken = <<>>
  BY <1>3, <1>6, <1>7 DEF Inv, Line, NothingHeldBack
<1>8. held \subseteq Incoming /\ IsFiniteSet(held) /\ c \in Command
  BY <1>1 DEF Types, TypeOK
<1>9. CASE ReceiveReliable(c)
  <2> DEFINE queue == held \cup {[rel |-> c.rel, count |-> 0, got |-> {c}]}
  <2>1. DispatchReliable(queue)
    BY <1>9 DEF ReceiveReliable
  <2>2. IsQueue(kinds, queue, last)
    BY <1>1, <1>2, <1>4, <1>9, ReliableJoins
  <2>3. queue \in SUBSET Incoming /\ IsFiniteSet(queue)
    <3>1. [rel |-> c.rel, count |-> 0, got |-> {c}] \in Incoming
      BY <1>8 DEF Incoming, Command
    <3> QED
      BY <1>8, <3>1, FS_AddElement
  <2> HIDE DEF queue
  <2> QED
    BY <1>1, <1>2, <1>5, <2>1, <2>2, <2>3, DispatchKeeps
<1>10. CASE ReceiveFragment(c)
  <2> DEFINE more == [Start(c) EXCEPT !.got = @ \cup {c}]
             rest == held \ {h \in held : h.rel = c.rel}
             queue == rest \cup {more}
  <2>1. DispatchReliable(queue)
    BY <1>10 DEF ReceiveFragment
  <2>2. IsQueue(kinds, queue, last)
    BY <1>1, <1>2, <1>4, <1>10, FragmentJoins
  <2>3. more \in Incoming
    <3>1. [rel |-> c.rel, count |-> c.count, got |-> {}] \in Incoming
      BY <1>8 DEF Incoming, Command
    <3>2. Start(c) \in Incoming
      BY <1>8, <3>1, Started
    <3> QED
      BY <3>2 DEF Incoming
  <2> HIDE DEF more
  <2>4. queue \in SUBSET Incoming /\ IsFiniteSet(queue)
    <3>1. rest \in SUBSET held
      OBVIOUS
    <3>2. IsFiniteSet(rest)
      BY <1>8, <3>1, FS_Subset
    <3> HIDE DEF rest
    <3> QED
      BY <1>8, <2>3, <3>1, <3>2, FS_AddElement
  <2> HIDE DEF queue
  <2> QED
    BY <1>1, <1>2, <1>5, <2>1, <2>2, <2>4, DispatchKeeps
<1>11. ASSUME ReceiveUnreliable(c) \/ ReceiveUnsequenced(c)
       PROVE  \E k \in 0 .. Len(waiting) : \E n :
                /\ DispatchUnreliable(InsertAfter(k, c), <<>>, inRel, n)
                /\ UNCHANGED <<inRel, held, outRel, kinds>> /\ c \in Loose
  <2>1. CASE ReceiveUnreliable(c)
    <3>1. Place(c) \in 0 .. Len(waiting)
      BY <1>1, Inserted DEF Types, TypeOK
    <3>2. c \in Loose
      BY <2>1 DEF ReceiveUnreliable, Loose
    <3> QED
      BY <2>1, <3>1, <3>2 DEF ReceiveUnreliable, senderVars, reliableVars
  <2>2. CASE ReceiveUnsequenced(c)
    <3>1. 0 \in 0 .. Len(waiting)
      BY <1>1, LenProperties
    <3>2. c \in Loose
      BY <2>2 DEF ReceiveUnsequenced, Loose
    <3> QED
      BY <2>2, <3>1, <3>2 DEF ReceiveUnsequenced, senderVars, reliableVars
  <2> QED
    BY <1>11, <2>1, <2>2
<1>12. CASE ReceiveUnreliable(c) \/ ReceiveUnsequenced(c)
  <2>1. PICK k \in 0 .. Len(waiting) : \E n :
           /\ DispatchUnreliable(InsertAfter(k, c), <<>>, inRel, n)
           /\ UNCHANGED <<inRel, held, outRel, kinds>> /\ c \in Loose
    BY <1>11, <1>12
  <2>2. PICK n : /\ DispatchUnreliable(InsertAfter(k, c), <<>>, inRel, n)
                 /\ UNCHANGED <<inRel, held, outRel, kinds>> /\ c \in Loose
    BY <2>1
  <2>3. InsertAfter(k, c) \in Seq(Loose) /\ <<>> \in Seq(Packets)
    BY <1>1, <2>2, Inserted, EmptySeq
  <2>4. \A d \in Loose : {d} \in Packets
    BY <1>1, LooseIsWhole
  <2>5. waiting' \in Seq(Loose) /\ delivered' \in Seq(Packets)
    BY <1>1, <2>2, <2>3, <2>4, DispatchUnreliableOf
  <2>6. Numbers(last)' /\ IsQueue(kinds, held', last)
    BY <1>2, <2>2 DEF Numbers, LastSent
  <2>7. InSequence(inRel', held').taken = <<>>
    BY <1>1, <2>2
  <2> QED
    BY <2>5, <2>6, <2>7
<1> QED
  BY <1>9, <1>10, <1>12 DEF Receive

LEMMA InitNumbers ==
  ASSUME Init
  PROVE  Numbers(Before) /\ IsQueue(kinds, held, Before)
<1>1. kinds = <<>> /\ held = {} /\ inRel = Before % Space /\ outRel = Before % Space
  BY DEF Init
<1>2. Len(<<>>) = 0
  OBVIOUS
<1>3. LastSent = Before
  <2>1. \A kind : Earlier(kinds, 1, kind) = {}
    BY DEF Earlier
  <2>2. Cardinality({}) = 0
    BY FS_EmptySet
  <2>3. Number(kinds, 1) = Before + 1
    <3>1. /\ Cardinality(Earlier(kinds, 1, "reliable")) = 0
          /\ Cardinality(Earlier(kinds, 1, "fragmented")) = 0
      BY <2>1, <2>2, Zenon
    <3>2. Number(kinds, 1) = Before + 1 + 0 + Fragments * 0
      BY <3>1 DEF Number
    <3> QED
      BY <3>2, Sizes
  <2>4. LastSent = Number(kinds, 1) - 1
    BY <1>1, <1>2 DEF LastSent
  <2> QED
    BY <2>3, <2>4, Sizes
<1>4. Before \in Nat /\ Before <= Before + MaxAhead
  BY Sizes
<1>5. 1 \in 1 .. Len(kinds) + 1 /\ LastSent = Number(kinds, 1) - 1
  BY <1>1, <1>2 DEF LastSent
<1>6. Numbers(Before)
  BY <1>1, <1>3, <1>4, <1>5 DEF Numbers, AtEnd
<1> QED
  BY <1>1, <1>6 DEF IsQueue

LEMMA InitInv ==
  ASSUME Limits, Init
  PROVE  Inv
<1>1. Types
  BY InitTypes
<1>2. /\ kinds = <<>> /\ network = {} /\ held = {} /\ waiting = <<>> /\ delivered = <<>>
      /\ inRel = Before % Space /\ outRel = Before % Space
  BY DEF Init
<1>3. DOMAIN <<>> = {} /\ Len(<<>>) = 0
  OBVIOUS
<1>4. Network
  BY <1>2, <1>3 DEF Network
<1>5. Line
  BY InitNumbers, Sizes DEF Line
<1>6. waiting \in Seq(Loose) /\ delivered \in Seq(Packets)
  BY <1>2, EmptySeq
<1>7. NothingHeldBack
  <2>1. InTurn(inRel, {}) = {} /\ IsFiniteSet({})
    BY FS_EmptySet DEF InTurn
  <2>2. InSequence(inRel, held).taken = <<>>
    BY <1>2, <2>1, NoneInTurn
  <2>3. DueLength(inRel, waiting) = 0
    <3>1. DueLength(inRel, waiting) \in 0 .. Len(waiting)
      BY <1>6, DueIsDue
    <3> QED
      BY <1>2, <1>3, <3>1
  <2> QED
    BY <2>2, <2>3 DEF NothingHeldBack
<1> QED
  BY <1>1, <1>4, <1>5, <1>6, <1>7 DEF Inv

LEMMA NextInv ==
  ASSUME Limits, Inv, [Next]_vars
  PROVE  Inv'
<1>1. CASE UNCHANGED vars
  <2>1. Types'
    BY <1>1, NextTypes DEF Inv
  <2>2. UNCHANGED <<kinds, outRel, network, inRel, held, waiting, delivered>>
    BY <1>1 DEF vars
  <2>3. Loose' = Loose /\ Packets' = Packets
    BY <2>2 DEF Loose, Packets, Commands
  <2>4. Network'
    BY <2>2 DEF Inv, Network, Commands
  <2>5. Line'
    BY <2>2 DEF Inv, Line, Numbers, LastSent
  <2>6. NothingHeldBack'
    BY <2>2 DEF Inv, NothingHeldBack
  <2> QED
    BY <2>1, <2>2, <2>3, <2>4, <2>5, <2>6 DEF Inv
<1>2. ASSUME NEW k \in Kinds, Send(k) PROVE Inv'
  BY <1>2, SendKeeps
<1>3. ASSUME NEW c \in network, Receive(c) PROVE Inv'
  BY <1>3, ReceiveKeeps
<1> QED
  BY <1>1, <1>2, <1>3 DEF Next

LEMMA InvAlways ==
  ASSUME Limits
  PROVE  Spec => []Inv
<1>1. Init => Inv
  BY InitInv
<1>2. Inv /\ [Next]_vars => Inv'
  BY NextInv
<1> QED
  BY <1>1, <1>2, PTL DEF Spec

\* Nothing that is complete and has its turn is held back on a channel, however
\* the network orders, repeats and loses the commands within the limits.
THEOREM NothingHeldBackTheorem == ASSUME Limits PROVE Spec => []NothingHeldBack
<1>1. Inv => NothingHeldBack
  BY DEF Inv
<1> QED
  BY <1>1, InvAlways, PTL

\* What a channel hands over is always one whole packet: fragments of two packets
\* are never put together, although their numbers come round, and no packet is
\* handed over with a fragment missing.
THEOREM OnlyWholePacketsTheorem == ASSUME Limits PROVE Spec => []OnlyWholePackets
<1>1. ASSUME Inv PROVE OnlyWholePackets
  <2>1. delivered \in Seq(Packets) /\ kinds \in Seq(Kinds \cup {"reliable"})
    BY <1>1 DEF Inv, Types, TypeOK
  <2>2. 0 \notin DOMAIN kinds
    BY <2>1, LenProperties
  <2>3. ASSUME NEW i \in DOMAIN delivered PROVE PacketOf(delivered[i]) # 0
    <3>1. delivered[i] \in Packets
      BY <2>1, LenProperties, ElementOfSeq
    <3>2. \E p \in DOMAIN kinds : delivered[i] = Commands(p)
      BY <3>1 DEF Packets
    <3>3. PacketOf(delivered[i]) \in DOMAIN kinds
      BY <3>2 DEF PacketOf
    <3> QED
      BY <2>2, <3>3
  <2> QED
    BY <2>3 DEF OnlyWholePackets, Output, Range
<1>2. Inv => OnlyWholePackets
  BY <1>1
<1> QED
  BY <1>2, InvAlways, PTL

-----------------------------------------------------------------------------
(***************************************************************************)
(* What has been handed over, packet by packet. The commands that are not  *)
(* acknowledged have their places among those that are by the number of    *)
(* the last reliable one before them, and are told apart as long as the    *)
(* numbers have not come round.                                            *)
(***************************************************************************)

\* No more packets than a lap has numbers, and a datagram overtaken by no more
\* groups than are accepted ahead.
OneLap == MaxPackets * Fragments < Space /\ MaxLag <= FreeGroupWindows * GroupWindowSize + 1

\* The group of an unsequenced packet before it was cut.
GroupNo(ks, p) == Before + 1 + Cardinality(Earlier(ks, p, "unsequenced"))

CommandsIn(net, p) == {c \in net : c.packet = p}

\* Are d the contents of the packets out?
IsOutput(net, d, out) ==
  Len(d) = Len(out) /\ \A i \in 1 .. Len(out) : d[i] = CommandsIn(net, out[i])

\* May packet x be handed over before packet y?
Precedes(ks, x, y) == x # y /\ (ks[x] # "unsequenced" /\ ks[y] # "unsequenced" => x < y)

Ordered(ks, s) == \A i, j \in DOMAIN s : i < j => Precedes(ks, s[i], s[j])

\* Packets handed over up to number last: all reliable ones, and of the unreliable
\* ones none that follows a later one.
Good(ks, out, last) ==
  /\ out \in Seq(DOMAIN ks)
  /\ \A p \in DOMAIN ks : ks[p] \in {"reliable", "fragmented"} =>
                            (p \in Range(out) <=> Number(ks, p) <= last)
  /\ \A p \in Range(out) : ks[p] = "unreliable" => Number(ks, p) <= last + 1
  /\ Ordered(ks, out)

\* inUnrel is not behind the unreliable commands of the last number.
Heard(out, last) ==
  \A c \in network : c.kind = "unreliable" /\ c.packet \in Range(out) /\ Number(kinds, c.packet) = last + 1
                       => c.minor <= inUnrel

\* Those of the unreliable queue whose turn is still to come stand in order.
Sorted(ks, s, last) ==
  /\ \A i \in DOMAIN s : s[i].kind = "unreliable"
  /\ \A i, j \in DOMAIN s :
       i < j /\ last < Number(ks, s[i].packet) /\ last < Number(ks, s[j].packet)
         => s[i].packet < s[j].packet

\* gb is groupBase before it was cut. What was handed over is older, or has its bit.
Groups(out, gb) ==
  /\ groupBase = gb % GroupSpace /\ gb % GroupWindowSize = 0
  /\ gb <= GroupNo(kinds, Len(kinds) + 1) - 1
  /\ \A p \in Range(out) : kinds[p] = "unsequenced" =>
       \/ GroupNo(kinds, p) < gb
       \/ GroupNo(kinds, p) < gb + GroupWindowSize /\ Index(GroupNo(kinds, p)) \in groupsSeen

Unreliables ==
  \A c \in network : c.kind = "unreliable" =>
    /\ c.rel = (Number(kinds, c.packet) - 1) % Space
    /\ Number(kinds, c.packet) = LastSent + 1 => c.minor <= outUnrel
    /\ \A d \in network : d.kind = "unreliable" /\ c.packet < d.packet
                            /\ Number(kinds, c.packet) = Number(kinds, d.packet) => c.minor < d.minor

Unsequenceds ==
  /\ outGroup = (GroupNo(kinds, Len(kinds) + 1) - 1) % GroupSpace
  /\ \A c \in network : c.kind = "unsequenced" => c.minor = GroupNo(kinds, c.packet) % GroupSpace

\* Handed over are the packets out, up to number last.
Record(last, gb, out) ==
  /\ Numbers(last) /\ IsQueue(kinds, held, last) /\ InTurn(inRel, held) = {}
  /\ IsOutput(network, delivered, out) /\ Good(kinds, out, last)
  /\ Heard(out, last) /\ Groups(out, gb) /\ Sorted(kinds, waiting, last)

FullInv ==
  /\ Inv /\ Len(kinds) <= MaxPackets /\ Unreliables /\ Unsequenceds
  /\ \E last, gb \in Nat : \E out : Record(last, gb, out)

-----------------------------------------------------------------------------
(***************************************************************************)
(* Sequences that grow.                                                    *)
(***************************************************************************)

LEMMA ConcatRange ==
  ASSUME NEW S, NEW s \in Seq(S), NEW t \in Seq(S)
  PROVE  Range(s \o t) = Range(s) \cup Range(t)
<1> DEFINE u == s \o t
           m == Len(s)
           n == Len(t)
<1>1. m \in Nat /\ DOMAIN s = 1 .. m /\ n \in Nat /\ DOMAIN t = 1 .. n
  BY LenProperties
<1>2. /\ u \in Seq(S) /\ Len(u) = m + n
      /\ \A i \in 1 .. m + n : u[i] = IF i <= m THEN s[i] ELSE t[i - m]
  BY ConcatProperties
<1>3. DOMAIN u = 1 .. m + n
  BY <1>2, LenProperties
<1> HIDE DEF u, m, n
<1>4. ASSUME NEW i \in 1 .. m PROVE s[i] \in Range(u)
  <2>1. i \in 1 .. m + n /\ u[i] = s[i]
    BY <1>1, <1>2
  <2> QED
    BY <1>3, <2>1 DEF Range
<1>5. ASSUME NEW i \in 1 .. n PROVE t[i] \in Range(u)
  <2>1. m + i \in 1 .. m + n /\ u[m + i] = t[i]
    BY <1>1, <1>2
  <2> QED
    BY <1>3, <2>1 DEF Range
<1>6. ASSUME NEW i \in 1 .. m + n PROVE u[i] \in Range(s) \cup Range(t)
  <2>1. CASE i <= m
    <3>1. i \in 1 .. m /\ u[i] = s[i]
      BY <1>1, <1>2, <2>1
    <3> QED
      BY <1>1, <3>1 DEF Range
  <2>2. CASE ~(i <= m)
    <3>1. i - m \in 1 .. n /\ u[i] = t[i - m]
      BY <1>1, <1>2, <2>2
    <3> QED
      BY <1>1, <3>1 DEF Range
  <2> QED
    BY <2>1, <2>2
<1>7. Range(u) = Range(s) \cup Range(t)
  BY <1>1, <1>3, <1>4, <1>5, <1>6 DEF Range
<1> QED
  BY <1>7 DEF u

\* Two ordered sequences follow each other if each element of the first may
\* precede each of the second.
LEMMA ConcatOrdered ==
  ASSUME NEW ks, NEW S, NEW s \in Seq(S), NEW t \in Seq(S), Ordered(ks, s), Ordered(ks, t),
         \A x \in Range(s), y \in Range(t) : Precedes(ks, x, y)
  PROVE  Ordered(ks, s \o t)
<1> DEFINE u == s \o t
           m == Len(s)
           n == Len(t)
<1>1. m \in Nat /\ DOMAIN s = 1 .. m /\ n \in Nat /\ DOMAIN t = 1 .. n
  BY LenProperties
<1>2. /\ u \in Seq(S) /\ Len(u) = m + n
      /\ \A i \in 1 .. m + n : u[i] = IF i <= m THEN s[i] ELSE t[i - m]
  BY ConcatProperties
<1>3. DOMAIN u = 1 .. m + n
  BY <1>2, LenProperties
<1> HIDE DEF u, m, n
<1>4. ASSUME NEW i \in 1 .. m + n, NEW j \in 1 .. m + n, i < j PROVE Precedes(ks, u[i], u[j])
  <2>1. CASE j <= m
    <3>1. i \in 1 .. m /\ j \in 1 .. m /\ u[i] = s[i] /\ u[j] = s[j]
      BY <1>1, <1>2, <1>4, <2>1
    <3> QED
      BY <1>1, <1>4, <3>1 DEF Ordered
  <2>2. CASE i <= m /\ ~(j <= m)
    <3>1. i \in 1 .. m /\ j - m \in 1 .. n /\ u[i] = s[i] /\ u[j] = t[j - m]
      BY <1>1, <1>2, <2>2
    <3>2. s[i] \in Range(s) /\ t[j - m] \in Range(t)
      BY <1>1, <3>1 DEF Range
    <3> QED
      BY <3>1, <3>2
  <2>3. CASE ~(i <= m)
    <3>1. i - m \in 1 .. n /\ j - m \in 1 .. n /\ i - m < j - m /\ u[i] = t[i - m] /\ u[j] = t[j - m]
      BY <1>1, <1>2, <1>4, <2>3
    <3> QED
      BY <1>1, <3>1 DEF Ordered
  <2> QED
    BY <1>1, <2>1, <2>2, <2>3
<1> QED
  BY <1>3, <1>4 DEF Ordered, u

LEMMA ConcatOutput ==
  ASSUME NEW net, NEW D, NEW O, NEW d \in Seq(D), NEW e \in Seq(D), NEW s \in Seq(O), NEW t \in Seq(O),
         IsOutput(net, d, s), IsOutput(net, e, t)
  PROVE  IsOutput(net, d \o e, s \o t)
<1> DEFINE u == s \o t
           f == d \o e
           m == Len(s)
           n == Len(t)
<1>1. /\ m \in Nat /\ n \in Nat /\ Len(d) = m /\ Len(e) = n
      /\ \A i \in 1 .. m : d[i] = CommandsIn(net, s[i])
      /\ \A i \in 1 .. n : e[i] = CommandsIn(net, t[i])
  BY LenProperties DEF IsOutput
<1>2. /\ Len(u) = m + n /\ \A i \in 1 .. m + n : u[i] = IF i <= m THEN s[i] ELSE t[i - m]
  BY ConcatProperties
<1>3. /\ Len(f) = m + n /\ \A i \in 1 .. m + n : f[i] = IF i <= m THEN d[i] ELSE e[i - m]
  <2>1. /\ Len(f) = Len(d) + Len(e)
        /\ \A i \in 1 .. Len(d) + Len(e) : f[i] = IF i <= Len(d) THEN d[i] ELSE e[i - Len(d)]
    BY ConcatProperties
  <2> HIDE DEF f, m, n
  <2> QED
    BY <1>1, <2>1
<1> HIDE DEF u, f, m, n
<1>4. ASSUME NEW i \in 1 .. m + n PROVE f[i] = CommandsIn(net, u[i])
  <2>1. CASE i <= m
    <3>1. i \in 1 .. m /\ f[i] = d[i] /\ u[i] = s[i]
      BY <1>1, <1>2, <1>3, <2>1
    <3> QED
      BY <1>1, <3>1
  <2>2. CASE ~(i <= m)
    <3>1. i - m \in 1 .. n /\ f[i] = e[i - m] /\ u[i] = t[i - m]
      BY <1>1, <1>2, <1>3, <2>2
    <3> QED
      BY <1>1, <3>1
  <2> QED
    BY <2>1, <2>2
<1> QED
  BY <1>2, <1>3, <1>4 DEF IsOutput, f, u

\* What is handed over stays.
LEMMA ConcatPrefix ==
  ASSUME NEW S, NEW s \in Seq(S), NEW t \in Seq(S)
  PROVE  IsPrefix(s, s \o t)
<1> DEFINE u == s \o t
           m == Len(s)
           n == Len(t)
           a == SubSeq(s, 1, m)
           b == SubSeq(u, 1, m)
<1>1. m \in Nat /\ n \in Nat /\ \A i \in 1 .. m : s[i] \in S
  BY LenProperties, ElementOfSeq
<1>2. /\ u \in Seq(S) /\ Len(u) = m + n
      /\ \A i \in 1 .. m + n : u[i] = IF i <= m THEN s[i] ELSE t[i - m]
  BY ConcatProperties
<1> HIDE DEF u, m, n
<1>3. \A i \in 1 .. m : u[i] = s[i] /\ u[i] \in S
  BY <1>1, <1>2
<1>4. a \in Seq(S) /\ Len(a) = m /\ \A i \in 1 .. m : a[i] = s[i]
  BY <1>1, SubSeqProperties
<1>5. b \in Seq(S) /\ Len(b) = m /\ \A i \in 1 .. m : b[i] = u[i]
  BY <1>1, <1>3, SubSeqProperties
<1> HIDE DEF a, b
<1>6. a = b
  BY <1>3, <1>4, <1>5, SeqEqual
<1> QED
  BY <1>1, <1>2, <1>6 DEF IsPrefix, a, b, m, u

\* A sequence of one.
LEMMA OneElement ==
  ASSUME NEW S, NEW x \in S
  PROVE  <<x>> \in Seq(S) /\ Len(<<x>>) = 1 /\ <<x>>[1] = x /\ Range(<<x>>) = {x}
BY DEF Range
-----------------------------------------------------------------------------
(***************************************************************************)
(* Numbers within a lap.                                                   *)
(***************************************************************************)

\* A number less than a lap after another is cut to one further on, or has come
\* round.
LEMMA LapCut ==
  ASSUME NEW S \in Nat \ {0}, NEW m \in Nat, NEW n \in Nat, m <= n, n - m < S
  PROVE  \/ n % S = (m % S) + (n - m)
         \/ n % S = (m % S) + (n - m) - S
<1> DEFINE r == m % S
           k == n - m
           a == r + k
<1>1. r \in 0 .. S - 1
  BY DivMod
<1>2. k \in Nat /\ k < S /\ m + k = n
  OBVIOUS
<1>3. n % S = a % S
  <2> HIDE DEF k
  <2>1. (r + k) % S = (m + k) % S
    BY <1>2, CutAdd
  <2> QED
    BY <1>2, <2>1
<1> HIDE DEF r, k
<1>4. CASE a < S
  <2>1. a \in Int /\ a \in 0 .. S - 1 /\ a = S * 0 + a
    BY <1>1, <1>2, <1>4
  <2>2. a % S = a
    <3> HIDE DEF a
    <3> QED
      BY <2>1, QuotientIs
  <2> QED
    BY <1>3, <2>2 DEF r, k
<1>5. CASE ~(a < S)
  <2> DEFINE b == a - S
  <2>1. a \in Int /\ b \in 0 .. S - 1 /\ a = S * 1 + b
    BY <1>1, <1>2, <1>5
  <2>2. a % S = b
    <3> HIDE DEF a, b
    <3> QED
      BY <2>1, QuotientIs
  <2> QED
    BY <1>3, <2>2 DEF r, k
<1> QED
  BY <1>4, <1>5

\* The order of numbers that are cut, counted from last on, is the order of the
\* numbers from last on; those before last are behind.
LEMMA Circular ==
  ASSUME NEW S \in Nat \ {0}, NEW last \in Nat, NEW m \in Nat, NEW n \in Nat,
         last <= n, n - last < S, last - m < S, m - last < S, n - m < S, m - n < S
  PROVE  LET l == last % S
             a == m % S
             b == n % S
         IN  /\ (a >= l /\ b < l) \/ ((b < l \/ a >= l) /\ a < b) <=> last <= m /\ m < n
             /\ a = b <=> m = n
             /\ a = b => (b < l \/ a >= l)
<1> DEFINE l == last % S
           a == m % S
           b == n % S
<1>1. l \in 0 .. S - 1 /\ a \in 0 .. S - 1 /\ b \in 0 .. S - 1
  BY DivMod
<1>2. b = l + (n - last) \/ b = l + (n - last) - S
  BY LapCut
<1>3. a = b <=> m = n
  BY CutUnique
<1>4. CASE last <= m
  <2>1. a = l + (m - last) \/ a = l + (m - last) - S
    BY <1>4, LapCut
  <2> HIDE DEF l, a, b
  <2>2. (a >= l /\ b < l) \/ ((b < l \/ a >= l) /\ a < b) <=> m < n
    BY <1>1, <1>2, <1>4, <2>1
  <2>3. a = b => (b < l \/ a >= l)
    BY <1>1
  <2> QED
    BY <1>3, <1>4, <2>2, <2>3 DEF l, a, b
<1>5. CASE ~(last <= m)
  <2>1. l = a + (last - m) \/ l = a + (last - m) - S
    <3>1. m <= last
      BY <1>5
    <3> QED
      BY <3>1, LapCut
  <2> HIDE DEF l, a, b
  <2>2. ~((a >= l /\ b < l) \/ ((b < l \/ a >= l) /\ a < b))
    BY <1>1, <1>2, <1>5, <2>1
  <2>3. a = b => (b < l \/ a >= l)
    BY <1>1
  <2> QED
    BY <1>3, <1>5, <2>2, <2>3 DEF l, a, b
<1> QED
  BY <1>4, <1>5

\* The numbers of a connection on which no more packets are sent than a lap has
\* numbers.
LEMMA WithinLap ==
  ASSUME Types, OneLap, Len(kinds) <= MaxPackets, NEW p \in 1 .. Len(kinds) + 1
  PROVE  /\ Number(kinds, p) \in Nat /\ Before < Number(kinds, p)
         /\ Number(kinds, p) <= LastSent + 1 /\ LastSent \in Nat /\ LastSent - Before < Space
<1> DEFINE q == Len(kinds) + 1
<1>1. Len(kinds) \in Nat
  BY LenProperties DEF Types, TypeOK
<1>2. q \in Nat \ {0} /\ p \in Nat \ {0} /\ p <= q /\ 1 <= p /\ q - 1 <= MaxPackets /\ q - 1 \in Nat
  BY <1>1
<1> HIDE DEF q
<1>3. Number(kinds, p) <= Number(kinds, q)
  BY <1>2, NumberGrows
<1>4. Number(kinds, 1) <= Number(kinds, p)
  BY <1>2, NumberGrows
<1>5. Number(kinds, q) <= Number(kinds, 1) + Fragments * (q - 1)
  BY <1>2, NumberGrows
<1>6. Number(kinds, 1) = Before + 1
  <2>1. \A kind : Earlier(kinds, 1, kind) = {}
    BY DEF Earlier
  <2>2. Cardinality({}) = 0
    BY FS_EmptySet
  <2>3. /\ Cardinality(Earlier(kinds, 1, "reliable")) = 0
        /\ Cardinality(Earlier(kinds, 1, "fragmented")) = 0
    BY <2>1, <2>2, Zenon
  <2>4. Number(kinds, 1) = Before + 1 + 0 + Fragments * 0
    BY <2>3 DEF Number
  <2> QED
    BY <2>4, Sizes
<1>7. Fragments * (q - 1) <= Fragments * MaxPackets /\ Fragments * (q - 1) \in Nat
  <2> DEFINE k == q - 1
  <2>1. k \in Nat /\ k <= MaxPackets /\ MaxPackets \in Nat /\ Fragments \in Nat
    BY <1>2, Sizes
  <2> HIDE DEF k
  <2>2. Fragments * k <= Fragments * MaxPackets /\ Fragments * k \in Nat
    BY <2>1, Product
  <2> QED
    BY <2>2 DEF k
<1>8. Fragments * MaxPackets < Space /\ Fragments * MaxPackets \in Nat
  <2>1. MaxPackets \in Nat /\ Fragments \in Nat /\ MaxPackets * Fragments < Space
    BY Sizes DEF OneLap
  <2>2. Fragments * MaxPackets = MaxPackets * Fragments /\ Fragments * MaxPackets \in Nat
    BY <2>1
  <2> QED
    BY <2>1, <2>2
<1>9. Number(kinds, p) \in Nat /\ Number(kinds, q) \in Nat /\ Before \in Nat /\ Space \in Nat
  BY <1>2, NumberType, Sizes
<1>10. LastSent = Number(kinds, q) - 1
  BY DEF LastSent, q
<1> QED
  BY <1>3, <1>4, <1>5, <1>6, <1>7, <1>8, <1>9, <1>10, SMTT(30)

\* The number of the last reliable command before an unreliable one, and the last
\* number delivered, lie within one lap.
LEMMA LastWithinLap ==
  ASSUME Types, OneLap, Len(kinds) <= MaxPackets, NEW last \in Nat, Numbers(last)
  PROVE  /\ Before \in Nat /\ Before <= last /\ last <= LastSent /\ LastSent \in Nat
         /\ LastSent - Before < Space /\ Space \in Nat \ {0}
<1>1. PICK p \in 1 .. Len(kinds) + 1 : last = Number(kinds, p) - 1
  BY DEF Numbers, AtEnd
<1>2. /\ Number(kinds, p) \in Nat /\ Before < Number(kinds, p)
      /\ LastSent \in Nat /\ LastSent - Before < Space
  BY WithinLap
<1>3. Before \in Nat /\ Space \in Nat \ {0} /\ last <= LastSent
  BY Sizes DEF Numbers
<1> QED
  BY <1>1, <1>2, <1>3

\* An unreliable or unsequenced command is the only one of its packet.
LEMMA LooseCommand ==
  ASSUME Types, Network, NEW c \in network, c.kind \in {"unreliable", "unsequenced"}
  PROVE  /\ c.packet \in DOMAIN kinds /\ kinds[c.packet] = c.kind
         /\ Commands(c.packet) = {c}
<1> DEFINE p == c.packet
<1>1. c \in Commands(p)
  BY DEF Commands
<1>2. p \in DOMAIN kinds /\ AreSentFor(kinds, p, Commands(p))
  BY DEF Network
<1> HIDE DEF p
<1>3. kinds[p] # "reliable" \/ Commands(p) # {Whole(kinds, p)}
  BY <1>1 DEF Whole
<1>4. Commands(p) # {Fragment(kinds, p, i) : i \in 0 .. Fragments - 1}
  BY <1>1 DEF Fragment
<1>5. PICK d : Commands(p) = {d} /\ d.kind = kinds[p]
  BY <1>2, <1>3, <1>4 DEF AreSentFor
<1>6. c = d
  BY <1>1, <1>5
<1> QED
  BY <1>2, <1>5, <1>6 DEF p

LEMMA UnreliableCommand ==
  ASSUME Types, Network, OneLap, Len(kinds) <= MaxPackets, Unreliables,
         NEW c \in network, c.kind = "unreliable"
  PROVE  LET n == Number(kinds, c.packet) - 1
         IN  /\ c.packet \in Nat \ {0} /\ c.packet \in 1 .. Len(kinds) /\ kinds[c.packet] = "unreliable"
             /\ Commands(c.packet) = {c} /\ c.rel = n % Space
             /\ n \in Nat /\ Before <= n /\ n <= LastSent /\ c.minor \in Nat
<1> DEFINE p == c.packet
           n == Number(kinds, p) - 1
<1>1. p \in DOMAIN kinds /\ kinds[p] = "unreliable" /\ Commands(p) = {c}
  BY LooseCommand
<1>2. c.rel = n % Space
  BY DEF Unreliables
<1>3. Len(kinds) \in Nat /\ p \in 1 .. Len(kinds)
  <2>1. kinds \in Seq(Kinds \cup {"reliable"})
    BY DEF Types, TypeOK
  <2> QED
    BY <1>1, <2>1, LenProperties
<1>4. p \in 1 .. Len(kinds) + 1 /\ p \in Nat \ {0}
  BY <1>3
<1>5. c.minor \in Nat
  BY Sizes DEF Types, Minors
<1> HIDE DEF p
<1>6. Number(kinds, p) \in Nat /\ Before < Number(kinds, p) /\ Number(kinds, p) <= LastSent + 1 /\ LastSent \in Nat
  BY <1>4, WithinLap
<1>7. n \in Nat /\ Before <= n /\ n <= LastSent
  BY <1>6, Sizes
<1> QED
  BY <1>1, <1>2, <1>3, <1>4, <1>5, <1>7 DEF p

\* The unreliable commands behind number last are queued in the order of sending,
\* before those that are left from earlier numbers.
LEMMA StaysBeforeIs ==
  ASSUME Types, Network, OneLap, Len(kinds) <= MaxPackets, Unreliables,
         NEW last \in Nat, Numbers(last), NEW e \in network, e.kind = "unreliable",
         NEW c \in network, c.kind = "unreliable", last < Number(kinds, c.packet)
  PROVE  StaysBefore(e, c) <=> last < Number(kinds, e.packet) /\ e.packet < c.packet
<1> DEFINE m == Number(kinds, e.packet) - 1
           n == Number(kinds, c.packet) - 1
<1>1. /\ e.packet \in Nat \ {0} /\ e.rel = m % Space
      /\ m \in Nat /\ Before <= m /\ m <= LastSent /\ e.minor \in Nat
  BY UnreliableCommand
<1>2. /\ c.packet \in Nat \ {0} /\ c.rel = n % Space
      /\ n \in Nat /\ Before <= n /\ n <= LastSent /\ c.minor \in Nat
  BY UnreliableCommand
<1>3. /\ Before \in Nat /\ Before <= last /\ last <= LastSent /\ LastSent \in Nat
      /\ LastSent - Before < Space /\ Space \in Nat \ {0}
  BY LastWithinLap
<1>4. last <= n
  <2>1. Number(kinds, c.packet) \in Nat
    BY <1>2, NumberType
  <2> QED
    BY <2>1
<1>5. Number(kinds, e.packet) = m + 1 /\ Number(kinds, c.packet) = n + 1
  <2>1. Number(kinds, e.packet) \in Nat /\ Number(kinds, c.packet) \in Nat
    BY <1>1, <1>2, NumberType
  <2> QED
    BY <2>1
<1>6. inRel = last % Space
  BY DEF Numbers
<1>7. e.packet <= c.packet => m <= n
  <2>1. e.packet <= c.packet => Number(kinds, e.packet) <= Number(kinds, c.packet)
    BY <1>1, <1>2, NumberGrows
  <2> QED
    BY <1>1, <1>2, <1>5, <2>1
<1>8. c.packet <= e.packet => n <= m
  <2>1. c.packet <= e.packet => Number(kinds, c.packet) <= Number(kinds, e.packet)
    BY <1>1, <1>2, NumberGrows
  <2> QED
    BY <1>1, <1>2, <1>5, <2>1
<1>9. m = n => (e.packet < c.packet => e.minor < c.minor) /\ (c.packet < e.packet => c.minor < e.minor)
  BY <1>5 DEF Unreliables
<1>10. c.packet = e.packet => c = e
  <2>1. Commands(c.packet) = {c} /\ Commands(e.packet) = {e}
    BY UnreliableCommand
  <2> QED
    BY <2>1
<1> HIDE DEF m, n
<1> DEFINE l == last % Space
           a == m % Space
           b == n % Space
<1>11. /\ (a >= l /\ b < l) \/ ((b < l \/ a >= l) /\ a < b) <=> last <= m /\ m < n
       /\ a = b <=> m = n
       /\ a = b => (b < l \/ a >= l)
  <2>1. n - last < Space /\ last - m < Space /\ m - last < Space /\ n - m < Space /\ m - n < Space
    BY <1>1, <1>2, <1>3
  <2> QED
    BY <1>1, <1>2, <1>3, <1>4, <2>1, Circular
<1>12. StaysBefore(e, c) <=> \/ (a >= l /\ b < l) \/ ((b < l \/ a >= l) /\ a < b)
                             \/ (b < l \/ a >= l) /\ a = b /\ e.minor < c.minor
  <2> HIDE DEF a, b, l
  <2>1. e.rel = a /\ c.rel = b /\ inRel = l
    BY <1>1, <1>2, <1>6 DEF a, b, l
  <2> QED
    BY <2>1 DEF StaysBefore
<1>13. StaysBefore(e, c) <=> (last <= m /\ m < n) \/ (m = n /\ e.minor < c.minor)
  <2> HIDE DEF a, b, l
  <2> QED
    BY <1>11, <1>12
<1>14. (last <= m /\ m < n) \/ (m = n /\ e.minor < c.minor) <=> last <= m /\ e.packet < c.packet
  <2>1. CASE m < n
    <3>1. ~(c.packet <= e.packet)
      BY <1>1, <1>2, <1>8, <2>1
    <3> QED
      BY <1>1, <1>2, <2>1, <3>1
  <2>2. CASE n < m
    <3>1. ~(e.packet <= c.packet)
      BY <1>1, <1>2, <1>7, <2>2
    <3> QED
      BY <1>1, <1>2, <2>2, <3>1
  <2>3. CASE m = n
    <3>1. CASE e.packet < c.packet
      BY <1>4, <1>9, <2>3, <3>1
    <3>2. CASE c.packet < e.packet
      <4>1. ~(e.minor < c.minor) /\ ~(e.packet < c.packet)
        BY <1>1, <1>2, <1>9, <2>3, <3>2
      <4> QED
        BY <2>3, <4>1, <1>1, <1>2
    <3>3. CASE c.packet = e.packet
      <4>1. c = e
        BY <1>10, <3>3
      <4>2. ~(e.minor < c.minor) /\ ~(e.packet < c.packet)
        BY <1>1, <4>1
      <4> QED
        BY <1>1, <1>2, <2>3, <4>2
    <3> QED
      BY <1>1, <1>2, <3>1, <3>2, <3>3
  <2> QED
    BY <1>1, <1>2, <2>1, <2>2, <2>3
<1>15. last < Number(kinds, e.packet) <=> last <= m
  BY <1>1, <1>5
<1> QED
  BY <1>13, <1>14, <1>15

-----------------------------------------------------------------------------
(***************************************************************************)
(* The unreliable queue.                                                   *)
(***************************************************************************)

\* Of unreliable commands those are due that follow number in, up to the first
\* that does not.
LEMMA DuePrefix ==
  ASSUME NEW S, NEW queue \in Seq(S), NEW in, NEW i \in 1 .. DueLength(in, queue),
         queue[i].kind = "unreliable"
  PROVE  queue[i].rel = in
<1> DEFINE k == DueLength(in, queue)
           other == {j \in DOMAIN queue : queue[j].kind = "unreliable" /\ queue[j].rel # in}
<1>1. k \in 0 .. Len(queue)
  BY DueIsDue
<1>2. Len(queue) \in Nat /\ DOMAIN queue = 1 .. Len(queue)
  BY LenProperties
<1>3. k = IF other = {} THEN Len(queue) ELSE Min(other) - 1
  BY DEF DueLength
<1>4. i \in 1 .. k
  OBVIOUS
<1> HIDE DEF k
<1>5. i \in DOMAIN queue
  BY <1>1, <1>2, <1>4
<1>6. ASSUME i \in other PROVE FALSE
  <2>1. other \in SUBSET Nat /\ other # {}
    BY <1>2, <1>6
  <2> HIDE DEF other
  <2>2. Min(other) \in other /\ Min(other) <= i
    BY <1>6, <2>1, MinExists
  <2>3. k = Min(other) - 1 /\ Min(other) \in Nat
    BY <1>3, <2>1, <2>2
  <2> QED
    BY <1>1, <1>2, <1>4, <2>2, <2>3
<1> QED
  BY <1>5, <1>6

\* Nothing is due if the first is not,
LEMMA NoneDue ==
  ASSUME NEW S, NEW queue \in Seq(S), NEW in, Len(queue) > 0,
         queue[1].kind = "unreliable", queue[1].rel # in
  PROVE  DueLength(in, queue) = 0
<1> DEFINE k == DueLength(in, queue)
<1>1. k \in 0 .. Len(queue) /\ Len(queue) \in Nat
  BY DueIsDue, LenProperties
<1>2. ~(1 \in 1 .. k)
  BY DuePrefix
<1> HIDE DEF k
<1>3. k = 0
  BY <1>1, <1>2
<1> QED
  BY <1>3 DEF k

\* and the first is not if nothing is.
LEMMA FirstNotDue ==
  ASSUME NEW S, NEW queue \in Seq(S), NEW in, DueLength(in, queue) = 0, Len(queue) > 0
  PROVE  queue[1].kind = "unreliable" /\ queue[1].rel # in
<1> DEFINE other == {j \in DOMAIN queue : queue[j].kind = "unreliable" /\ queue[j].rel # in}
<1>1. Len(queue) \in Nat /\ DOMAIN queue = 1 .. Len(queue)
  BY LenProperties
<1>2. 0 = IF other = {} THEN Len(queue) ELSE Min(other) - 1
  BY DEF DueLength
<1>3. other \in SUBSET Nat
  BY <1>1
<1>4. 1 \in other
  <2> HIDE DEF other
  <2>1. other # {}
    BY <1>1, <1>2
  <2>2. Min(other) \in other
    BY <1>3, <2>1, MinExists
  <2>3. Min(other) \in Nat /\ Min(other) - 1 = 0
    BY <1>2, <1>3, <2>1, <2>2
  <2>4. Min(other) = 1
    BY <2>3
  <2> QED
    BY <2>2, <2>4
<1> QED
  BY <1>4

\* Of a queue of which only the first is due, the first goes.
LEMMA FirstDue ==
  ASSUME NEW S, NEW queue \in Seq(S), NEW in, Len(queue) > 0,
         queue[1].kind = "unreliable" => queue[1].rel = in,
         Len(queue) > 1 => queue[2].kind = "unreliable" /\ queue[2].rel # in
  PROVE  DueLength(in, queue) = 1
<1> DEFINE k == DueLength(in, queue)
           other == {j \in DOMAIN queue : queue[j].kind = "unreliable" /\ queue[j].rel # in}
<1>1. k \in 0 .. Len(queue) /\ Len(queue) \in Nat /\ DOMAIN queue = 1 .. Len(queue)
  BY DueIsDue, LenProperties
<1>2. k = IF other = {} THEN Len(queue) ELSE Min(other) - 1
  BY DEF DueLength
<1>3. other \in SUBSET Nat /\ 1 \notin other
  BY <1>1
<1>4. CASE Len(queue) = 1
  <2>1. other = {}
    BY <1>1, <1>3, <1>4
  <2> HIDE DEF other
  <2> QED
    BY <1>2, <1>4, <2>1
<1>5. CASE Len(queue) > 1
  <2>1. 2 \in other
    BY <1>1, <1>5
  <2>2. \A j \in other : j >= 2
    <3>1. \A j \in other : j \in 1 .. Len(queue) /\ j # 1
      BY <1>1, <1>3
    <3> QED
      BY <1>1, <3>1
  <2> HIDE DEF other
  <2>3. Min(other) \in other /\ Min(other) <= 2
    BY <1>3, <2>1, MinExists
  <2>4. Min(other) = 2
    <3>1. Min(other) \in Nat /\ Min(other) >= 2
      BY <1>3, <2>2, <2>3, Zenon
    <3> QED
      BY <2>3, <3>1
  <2> QED
    BY <1>2, <2>1, <2>4
<1> QED
  BY <1>1, <1>4, <1>5

\* The queue with a command inserted, element by element.
LEMMA InsertedAt ==
  ASSUME NEW S, NEW c \in S, waiting \in Seq(S), NEW k \in 0 .. Len(waiting)
  PROVE  LET queue == InsertAfter(k, c)
         IN  /\ queue \in Seq(S) /\ Len(queue) = Len(waiting) + 1
             /\ \A i \in 1 .. k : queue[i] = waiting[i]
             /\ queue[k + 1] = c
             /\ \A i \in k + 1 .. Len(waiting) : queue[i + 1] = waiting[i]
<1> DEFINE a == SubSeq(waiting, 1, k)
           b == SubSeq(waiting, k + 1, Len(waiting))
           n == Len(waiting)
           e == a \o <<c>>
           queue == InsertAfter(k, c)
<1>1. n \in Nat /\ k \in 0 .. n /\ \A i \in 1 .. n : waiting[i] \in S
  BY LenProperties, ElementOfSeq
<1>2. a \in Seq(S) /\ Len(a) = k /\ \A i \in 1 .. k : a[i] = waiting[i]
  <2>1. \A i \in 1 .. k : waiting[i] \in S
    BY <1>1
  <2> QED
    BY <1>1, <2>1, SubSeqProperties
<1>3. b \in Seq(S) /\ Len(b) = n - k /\ \A i \in 1 .. n - k : b[i] = waiting[k + i]
  <2>1. \A i \in k + 1 .. n : waiting[i] \in S
    BY <1>1
  <2>2. b \in Seq(S) /\ \A i \in 1 .. n - (k + 1) + 1 : b[i] = waiting[(k + 1) + i - 1]
    BY <1>1, <2>1, SubSeqProperties
  <2>3. Len(b) = IF k + 1 <= n THEN n - (k + 1) + 1 ELSE 0
    BY <1>1, <2>1, SubSeqProperties
  <2> HIDE DEF b
  <2> QED
    BY <1>1, <2>2, <2>3
<1>4. <<c>> \in Seq(S) /\ Len(<<c>>) = 1 /\ <<c>>[1] = c
  BY OneElement
<1>5. queue = e \o b
  BY DEF InsertAfter
<1> HIDE DEF a, b, n, queue
<1>6. /\ e \in Seq(S) /\ Len(e) = k + 1
      /\ \A i \in 1 .. k + 1 : e[i] = IF i <= k THEN a[i] ELSE <<c>>[i - k]
  BY <1>1, <1>2, <1>4, ConcatProperties
<1>7. e[k + 1] = c /\ \A i \in 1 .. k : e[i] = waiting[i]
  <2>1. k + 1 \in 1 .. k + 1 /\ ~(k + 1 <= k) /\ (k + 1) - k = 1
    BY <1>1
  <2>2. e[k + 1] = c
    BY <1>4, <1>6, <2>1
  <2> QED
    BY <1>1, <1>2, <1>6, <2>2
<1> HIDE DEF e
<1>8. /\ queue \in Seq(S) /\ Len(queue) = n + 1
      /\ \A i \in 1 .. n + 1 : queue[i] = IF i <= k + 1 THEN e[i] ELSE b[i - (k + 1)]
  <2>1. /\ queue \in Seq(S) /\ Len(queue) = Len(e) + Len(b)
        /\ \A i \in 1 .. Len(e) + Len(b) : queue[i] = IF i <= Len(e) THEN e[i] ELSE b[i - Len(e)]
    BY <1>3, <1>5, <1>6, ConcatProperties
  <2>2. Len(e) + Len(b) = n + 1 /\ Len(e) = k + 1
    BY <1>1, <1>3, <1>6
  <2> QED
    BY <2>1, <2>2
<1>9. \A i \in 1 .. k : queue[i] = waiting[i]
  BY <1>1, <1>7, <1>8
<1>10. queue[k + 1] = c
  BY <1>1, <1>7, <1>8
<1>11. ASSUME NEW i \in k + 1 .. n PROVE queue[i + 1] = waiting[i]
  <2> DEFINE j == i - k
  <2>1. i + 1 \in 1 .. n + 1 /\ ~(i + 1 <= k + 1) /\ (i + 1) - (k + 1) = j /\ j \in 1 .. n - k /\ k + j = i
    BY <1>1
  <2> HIDE DEF j
  <2>2. queue[i + 1] = b[j]
    BY <1>8, <2>1
  <2> QED
    BY <1>3, <2>1, <2>2
<1> QED
  BY <1>8, <1>9, <1>10, <1>11 DEF n, queue

\* Where nothing is due, only a command inserted at the front may go at once.
LEMMA InsertOne ==
  ASSUME NEW S, NEW c \in S, waiting \in Seq(S), NEW in, DueLength(in, waiting) = 0,
         NEW k \in 0 .. Len(waiting)
  PROVE  LET queue == InsertAfter(k, c)
         IN  IF k = 0 /\ (c.kind = "unreliable" => c.rel = in)
               THEN DueLength(in, queue) = 1 /\ SubSeq(queue, 2, Len(queue)) = waiting /\ queue[1] = c
               ELSE DueLength(in, queue) = 0
<1> DEFINE n == Len(waiting)
           queue == InsertAfter(k, c)
<1>1. /\ queue \in Seq(S) /\ Len(queue) = n + 1
      /\ \A i \in 1 .. k : queue[i] = waiting[i]
      /\ queue[k + 1] = c
      /\ \A i \in k + 1 .. n : queue[i + 1] = waiting[i]
  <2>1. InsertAfter(k, c) \in Seq(S)
    BY InsertedAt
  <2>2. Len(InsertAfter(k, c)) = Len(waiting) + 1
    BY InsertedAt
  <2>3. \A i \in 1 .. k : InsertAfter(k, c)[i] = waiting[i]
    BY InsertedAt
  <2>4. InsertAfter(k, c)[k + 1] = c
    BY InsertedAt
  <2>5. \A i \in k + 1 .. Len(waiting) : InsertAfter(k, c)[i + 1] = waiting[i]
    BY InsertedAt
  <2> QED
    BY <2>1, <2>2, <2>3, <2>4, <2>5
<1>2. n \in Nat /\ k \in 0 .. n
  BY LenProperties
<1>3. n > 0 => waiting[1].kind = "unreliable" /\ waiting[1].rel # in
  BY FirstNotDue
<1> HIDE DEF n, queue
<1>4. CASE k = 0 /\ (c.kind = "unreliable" => c.rel = in)
  <2>1. queue[1] = c /\ \A i \in 1 .. n : queue[i + 1] = waiting[i]
    BY <1>1, <1>4
  <2>2. n + 1 > 1 => queue[2] = waiting[1]
    <3>1. n > 0 => queue[1 + 1] = waiting[1]
      BY <1>2, <2>1
    <3> QED
      BY <1>2, <3>1
  <2>3. n + 1 > 1 => n > 0
    BY <1>2
  <2>4. n + 1 > 0
    BY <1>2
  <2>5. DueLength(in, queue) = 1
    BY <1>1, <1>3, <1>4, <2>1, <2>2, <2>3, <2>4, FirstDue
  <2> DEFINE w == SubSeq(queue, 2, n + 1)
  <2>6. \A i \in 2 .. n + 1 : queue[i] \in S
    BY <1>1, <1>2, ElementOfSeq
  <2>7. /\ w \in Seq(S) /\ Len(w) = (IF 2 <= n + 1 THEN n + 1 - 2 + 1 ELSE 0)
        /\ \A i \in 1 .. n + 1 - 2 + 1 : w[i] = queue[2 + i - 1]
    BY <1>2, <2>6, SubSeqProperties
  <2> HIDE DEF w
  <2>8. Len(w) = n /\ \A i \in 1 .. n : w[i] = queue[i + 1]
    BY <1>2, <2>7
  <2>9. Len(waiting) = n
    BY DEF n
  <2>10. w = waiting
    BY <2>1, <2>7, <2>8, <2>9, SeqEqual
  <2> QED
    BY <1>1, <1>4, <2>1, <2>5, <2>10 DEF queue, w
<1>5. CASE k = 0 /\ c.kind = "unreliable" /\ c.rel # in
  <2>1. queue[1] = c /\ Len(queue) > 0
    BY <1>1, <1>2, <1>5
  <2>2. DueLength(in, queue) = 0
    BY <1>1, <1>5, <2>1, NoneDue
  <2> QED
    BY <1>5, <2>2 DEF queue
<1>6. CASE k # 0
  <2>1. queue[1] = waiting[1] /\ n > 0 /\ Len(queue) > 0
    BY <1>1, <1>2, <1>6
  <2>2. DueLength(in, queue) = 0
    BY <1>1, <1>3, <2>1, NoneDue
  <2> QED
    BY <1>6, <2>2 DEF queue
<1> QED
  BY <1>4, <1>5, <1>6

\* A smaller number is that of an earlier packet,
LEMMA NumberOrder ==
  ASSUME NEW ks, NEW x \in Nat \ {0}, NEW y \in Nat \ {0}, Number(ks, x) < Number(ks, y)
  PROVE  x < y
<1>1. y <= x => Number(ks, y) <= Number(ks, x)
  BY NumberGrows
<1>2. Number(ks, x) \in Nat /\ Number(ks, y) \in Nat
  BY NumberType
<1> QED
  BY <1>1, <1>2

\* and of packets with the same number all are before the reliable one.
LEMMA NumberedLast ==
  ASSUME NEW ks, NEW x \in Nat \ {0}, NEW y \in Nat \ {0}, ks[y] \in {"reliable", "fragmented"},
         Number(ks, x) <= Number(ks, y), x # y
  PROVE  x < y
<1>1. y < x => Number(ks, y) < Number(ks, x)
  BY NumberApart
<1>2. Number(ks, x) \in Nat /\ Number(ks, y) \in Nat
  BY NumberType
<1> QED
  BY <1>1, <1>2

\* An unreliable command that is accepted does not lag behind.
LEMMA UnreliableFresh ==
  ASSUME Types, Limits, Network, OneLap, Len(kinds) <= MaxPackets, Unreliables,
         NEW last \in Nat, Numbers(last), NEW c \in network, c.kind = "unreliable",
         Len(kinds) - c.packet < MaxLag, InWindow(c.rel)
  PROVE  last < Number(kinds, c.packet)
<1> DEFINE p == c.packet
           n == Number(kinds, p) - 1
           q == p + 1
           m == Len(kinds) + 1
<1>1. /\ p \in Nat \ {0} /\ p \in 1 .. Len(kinds) /\ kinds[p] = "unreliable"
      /\ c.rel = n % Space /\ n \in Nat /\ Before <= n /\ n <= LastSent
  BY UnreliableCommand
<1>2. Len(kinds) - p < MaxLag
  OBVIOUS
<1> HIDE DEF p
<1>3. /\ Before \in Nat /\ Before <= last /\ last <= LastSent /\ LastSent \in Nat
      /\ LastSent - Before < Space /\ Space \in Nat \ {0}
  BY LastWithinLap
<1>4. Len(kinds) \in Nat
  BY LenProperties DEF Types, TypeOK
<1>5. Number(kinds, q) = Number(kinds, p) /\ Number(kinds, p) \in Nat
  <2>1. Size(kinds[p]) = 0
    BY <1>1 DEF Size
  <2>2. Number(kinds, p + 1) = Number(kinds, p) + Size(kinds[p])
    BY <1>1, NumberStep
  <2>3. Number(kinds, p) \in Nat
    BY <1>1, NumberType
  <2>4. Number(kinds, p + 1) = Number(kinds, p)
    BY <2>1, <2>2, <2>3
  <2> QED
    BY <2>3, <2>4
<1>6. Number(kinds, m) <= Number(kinds, q) + Fragments * (m - q)
  <2>1. q \in Nat \ {0} /\ m \in Nat /\ q <= m
    BY <1>1, <1>4
  <2> HIDE DEF q, m
  <2> QED
    BY <2>1, NumberGrows
<1>7. LastSent = Number(kinds, m) - 1 /\ Number(kinds, m) \in Nat
  <2>1. m \in Nat \ {0}
    BY <1>4
  <2>2. LastSent = Number(kinds, m) - 1
    BY DEF LastSent
  <2> HIDE DEF m
  <2> QED
    BY <2>1, <2>2, NumberType
<1>8. Fragments * (m - q) <= Reach /\ Fragments * (m - q) \in Nat /\ Reach \in Nat
  <2> DEFINE k == m - q
             j == k + 1
  <2>1. k \in Nat /\ k + 1 <= MaxLag /\ MaxLag \in Nat /\ Fragments \in Nat /\ Fragments >= 2 /\ Reach \in Nat
    BY <1>1, <1>2, <1>4, Sizes
  <2> HIDE DEF k
  <2>2. j \in Nat /\ j <= MaxLag /\ Fragments * j = Fragments * k + Fragments /\ Fragments * k \in Nat
    BY <2>1
  <2> HIDE DEF j
  <2>3. Fragments * j <= Fragments * MaxLag
    BY <2>1, <2>2, Product
  <2>4. MaxLag * Fragments <= Reach + 1 /\ Fragments * MaxLag = MaxLag * Fragments /\ Fragments * MaxLag \in Nat
    BY <2>1 DEF Limits
  <2>5. Fragments * k <= Reach
    BY <2>1, <2>2, <2>3, <2>4
  <2> QED
    BY <2>1, <2>2, <2>5 DEF k
<1> HIDE DEF m, q, n
<1>9. n = Number(kinds, p) - 1
  BY DEF n
<1>10. ASSUME ~(last < Number(kinds, p)) PROVE FALSE
  <2>1. n + 1 <= last
    BY <1>3, <1>5, <1>9, <1>10
  <2>2. Number(kinds, m) <= Number(kinds, p) + Reach
    <3> DEFINE d == Fragments * (m - q)
    <3>1. d \in Nat /\ d <= Reach /\ Number(kinds, m) <= Number(kinds, p) + d
      BY <1>5, <1>6, <1>8
    <3> HIDE DEF d
    <3> QED
      BY <1>5, <1>7, <1>8, <3>1
  <2>3. n <= last /\ n # last /\ last - n <= Reach
    <3>1. Reach \in Nat /\ n \in Nat
      BY <1>1, Sizes
    <3>2. last \in Nat /\ last <= LastSent
      BY <1>3
    <3> QED
      BY <1>5, <1>7, <1>9, <2>1, <2>2, <3>1, <3>2
  <2>4. inRel = last % Space
    BY DEF Numbers
  <2>5. n % Space = inRel \/ ~InWindow(n % Space)
    BY <1>1, <2>3, <2>4, OldIsOld
  <2>6. n % Space = last % Space
    BY <1>1, <2>4, <2>5
  <2>7. last - n < Space /\ n - last < Space
    BY <1>1, <1>3, <2>3
  <2>8. n = last
    BY <1>1, <1>3, <2>6, <2>7, CutUnique
  <2> QED
    BY <2>3, <2>8
<1> QED
  BY <1>10 DEF p

\* A command is put into the unreliable queue in the order of sending.
LEMMA InsertSorted ==
  ASSUME Types, Network, OneLap, Len(kinds) <= MaxPackets, Unreliables,
         NEW last \in Nat, Numbers(last), waiting \in Seq(Loose), Sorted(kinds, waiting, last),
         NEW c \in Loose, c.kind = "unreliable", last < Number(kinds, c.packet), c \notin Range(waiting)
  PROVE  Sorted(kinds, InsertAfter(Place(c), c), last)
<1> DEFINE n == Len(waiting)
           k == Place(c)
           queue == InsertAfter(k, c)
           Fresh(e) == last < Number(kinds, e.packet)
<1>1. n \in Nat /\ DOMAIN waiting = 1 .. n /\ \A i \in 1 .. n : waiting[i] \in Loose
  BY LenProperties, ElementOfSeq
<1>2. /\ k \in 0 .. n
      /\ k # 0 => StaysBefore(waiting[k], c)
      /\ \A i \in 1 .. n : StaysBefore(waiting[i], c) => i <= k
  <2> DEFINE S == {0} \cup {i \in DOMAIN waiting : StaysBefore(waiting[i], c)}
  <2>1. S \in SUBSET (0 .. n) /\ S # {}
    BY <1>1
  <2>2. k = Max(S)
    BY DEF Place
  <2>3. \A i \in 1 .. n : StaysBefore(waiting[i], c) => i \in S
    BY <1>1
  <2>4. \A i \in S : i # 0 => StaysBefore(waiting[i], c)
    OBVIOUS
  <2> HIDE DEF S, k, n
  <2>5. Max(S) \in S /\ \A x \in S : x <= Max(S)
    BY <1>1, <2>1, MaxExists
  <2> QED
    BY <2>1, <2>2, <2>3, <2>4, <2>5
<1>3. /\ Len(queue) = n + 1 /\ queue \in Seq(Loose)
      /\ \A i \in 1 .. k : queue[i] = waiting[i]
      /\ queue[k + 1] = c
      /\ \A i \in k + 1 .. n : queue[i + 1] = waiting[i]
  <2> HIDE DEF k
  <2>1. k \in 0 .. Len(waiting)
    BY <1>2
  <2>2. Len(queue) = n + 1 /\ queue \in Seq(Loose)
    BY <2>1, InsertedAt
  <2>3. \A i \in 1 .. k : queue[i] = waiting[i]
    BY <2>1, InsertedAt
  <2>4. queue[k + 1] = c
    BY <2>1, InsertedAt
  <2>5. \A i \in k + 1 .. n : queue[i + 1] = waiting[i]
    BY <2>1, InsertedAt
  <2> QED
    BY <2>2, <2>3, <2>4, <2>5
<1>4. DOMAIN queue = 1 .. n + 1
  BY <1>3, LenProperties
<1> HIDE DEF n, k, queue, Fresh
<1>5. \A i \in 1 .. n : waiting[i].kind = "unreliable" /\ waiting[i] \in network /\ waiting[i] # c
  BY <1>1 DEF Sorted, Loose, Range
<1>6. \A i \in 1 .. n : waiting[i].packet \in Nat /\ waiting[i].packet # c.packet
  <2> SUFFICES ASSUME NEW i \in 1 .. n
               PROVE  waiting[i].packet \in Nat /\ waiting[i].packet # c.packet
    OBVIOUS
  <2>1. waiting[i] \in network /\ waiting[i].kind = "unreliable" /\ waiting[i] # c
    BY <1>5
  <2>2. waiting[i].packet \in Nat /\ Commands(waiting[i].packet) = {waiting[i]}
    BY <2>1, UnreliableCommand
  <2>3. Commands(c.packet) = {c}
    BY UnreliableCommand DEF Loose
  <2> QED
    BY <2>1, <2>2, <2>3
<1>7. c \in network /\ c.packet \in Nat
  BY UnreliableCommand DEF Loose
<1>8. \A i \in 1 .. n : StaysBefore(waiting[i], c) <=> Fresh(waiting[i]) /\ waiting[i].packet < c.packet
  <2> SUFFICES ASSUME NEW i \in 1 .. n
               PROVE  StaysBefore(waiting[i], c) <=> Fresh(waiting[i]) /\ waiting[i].packet < c.packet
    OBVIOUS
  <2>1. waiting[i] \in network /\ waiting[i].kind = "unreliable"
    BY <1>5
  <2> QED
    BY <1>7, <2>1, StaysBeforeIs DEF Fresh
<1>9. \A i, j \in 1 .. n : i < j /\ Fresh(waiting[i]) /\ Fresh(waiting[j]) => waiting[i].packet < waiting[j].packet
  BY <1>1 DEF Sorted, Fresh
<1>10. ASSUME NEW i \in 1 .. k, Fresh(waiting[i]) PROVE waiting[i].packet < c.packet
  <2>1. k \in 1 .. n /\ i \in 1 .. n
    BY <1>1, <1>2
  <2>2. Fresh(waiting[k]) /\ waiting[k].packet < c.packet
    BY <1>2, <1>8, <2>1
  <2>3. i = k \/ i < k
    BY <2>1
  <2>4. i < k => waiting[i].packet < waiting[k].packet
    BY <1>9, <1>10, <2>1, <2>2
  <2>5. waiting[i].packet \in Nat /\ waiting[k].packet \in Nat
    BY <1>6, <2>1
  <2> QED
    BY <1>7, <2>2, <2>3, <2>4, <2>5
<1>11. ASSUME NEW i \in k + 1 .. n, Fresh(waiting[i]) PROVE c.packet < waiting[i].packet
  <2>1. i \in 1 .. n /\ ~(i <= k)
    BY <1>1, <1>2
  <2>2. ~(waiting[i].packet < c.packet)
    BY <1>2, <1>8, <1>11, <2>1
  <2>3. waiting[i].packet \in Nat /\ waiting[i].packet # c.packet
    BY <1>6, <2>1
  <2> QED
    BY <1>7, <2>2, <2>3
<1>12. ASSUME NEW j \in 1 .. n + 1
       PROVE  \/ j \in 1 .. k /\ j \in 1 .. n /\ queue[j] = waiting[j]
              \/ j = k + 1 /\ queue[j] = c
              \/ j - 1 \in k + 1 .. n /\ j - 1 \in 1 .. n /\ queue[j] = waiting[j - 1]
  <2>1. CASE j <= k
    BY <1>1, <1>2, <1>3, <2>1
  <2>2. CASE j = k + 1
    BY <1>3, <2>2
  <2>3. CASE j > k + 1
    <3> DEFINE i == j - 1
    <3>1. i \in k + 1 .. n /\ i \in 1 .. n /\ j = i + 1
      BY <1>1, <1>2, <2>3
    <3> HIDE DEF i
    <3>2. queue[j] = waiting[i]
      BY <1>3, <3>1
    <3> QED
      BY <3>1, <3>2 DEF i
  <2> QED
    BY <1>1, <1>2, <2>1, <2>2, <2>3
<1>13. \A j \in 1 .. n + 1 : queue[j].kind = "unreliable"
  BY <1>5, <1>12
<1>14. ASSUME NEW i \in 1 .. n + 1, NEW j \in 1 .. n + 1, i < j, Fresh(queue[i]), Fresh(queue[j])
       PROVE  queue[i].packet < queue[j].packet
  <2>1. CASE i \in 1 .. k /\ i \in 1 .. n /\ queue[i] = waiting[i]
    <3>1. CASE j \in 1 .. k /\ j \in 1 .. n /\ queue[j] = waiting[j]
      BY <1>9, <1>14, <2>1, <3>1
    <3>2. CASE j = k + 1 /\ queue[j] = c
      BY <1>10, <1>14, <2>1, <3>2
    <3>3. CASE j - 1 \in k + 1 .. n /\ j - 1 \in 1 .. n /\ queue[j] = waiting[j - 1]
      <4>1. i < j - 1
        BY <1>2, <2>1, <3>3
      <4> QED
        BY <1>9, <1>14, <2>1, <3>3, <4>1
    <3> QED
      BY <1>12, <3>1, <3>2, <3>3
  <2>2. CASE i = k + 1 /\ queue[i] = c
    <3>1. ~(j \in 1 .. k) /\ j # k + 1
      BY <1>2, <1>14, <2>2
    <3>2. j - 1 \in k + 1 .. n /\ queue[j] = waiting[j - 1]
      BY <1>12, <3>1
    <3> QED
      BY <1>11, <1>14, <2>2, <3>2
  <2>3. CASE i - 1 \in k + 1 .. n /\ i - 1 \in 1 .. n /\ queue[i] = waiting[i - 1]
    <3>1. ~(j \in 1 .. k) /\ j # k + 1 /\ i - 1 < j - 1
      BY <1>2, <1>14, <2>3
    <3>2. j - 1 \in 1 .. n /\ queue[j] = waiting[j - 1]
      BY <1>12, <3>1
    <3> QED
      BY <1>9, <1>14, <2>3, <3>1, <3>2
  <2> QED
    BY <1>12, <2>1, <2>2, <2>3
<1> QED
  BY <1>4, <1>13, <1>14 DEF Sorted, Fresh, queue, k

-----------------------------------------------------------------------------
(***************************************************************************)
(* What is handed over by one command.                                     *)
(***************************************************************************)

\* The packets of the first k commands of a queue.
First(k, queue) == [i \in 1 .. k |-> queue[i].packet]

LEMMA FirstIs ==
  ASSUME NEW queue, NEW k \in Nat
  PROVE  /\ Len(First(k, queue)) = k /\ DOMAIN First(k, queue) = 1 .. k
         /\ \A i \in 1 .. k : First(k, queue)[i] = queue[i].packet
         /\ Range(First(k, queue)) = {queue[i].packet : i \in 1 .. k}
<1> DEFINE s == First(k, queue)
           D == {queue[i].packet : i \in 1 .. k}
<1>1. s = [i \in 1 .. k |-> queue[i].packet]
  BY DEF First
<1> HIDE DEF s
<1>2. s \in [1 .. k -> D]
  BY <1>1
<1>3. Len(s) = k /\ DOMAIN s = 1 .. k
  BY <1>1, <1>2
<1>4. Range(s) = D
  BY <1>1, <1>3 DEF Range
<1> QED
  BY <1>1, <1>3, <1>4 DEF s

LEMMA FirstPackets ==
  ASSUME NEW S, NEW D, NEW queue \in Seq(S), \A c \in S : c.packet \in D, NEW k \in 0 .. Len(queue)
  PROVE  First(k, queue) \in Seq(D) /\ k \in Nat
<1>1. Len(queue) \in Nat /\ k \in Nat /\ \A i \in 1 .. k : i \in 1 .. Len(queue) /\ queue[i] \in S
  BY LenProperties, ElementOfSeq
<1>2. [i \in 1 .. k |-> queue[i].packet] \in [1 .. k -> D]
  BY <1>1
<1> QED
  BY <1>1, <1>2 DEF First

\* A dispatch of a queue hands over what came before and the packets due.
LEMMA HandOver ==
  ASSUME Types, Network, UNCHANGED network, NEW queue \in Seq(Loose), NEW in, NEW last,
         delivered \in Seq(Packets), NEW out \in Seq(DOMAIN kinds), IsOutput(network, delivered, out),
         NEW before \in Seq(Packets), NEW more \in Seq(DOMAIN kinds), IsOutput(network, before, more),
         DispatchUnreliable(queue, before, in, last)
  PROVE  LET k == DueLength(in, queue)
         IN  /\ k \in 0 .. Len(queue) /\ First(k, queue) \in Seq(DOMAIN kinds)
             /\ IsOutput(network', delivered', (out \o more) \o First(k, queue))
<1> DEFINE k == DueLength(in, queue)
           s == First(k, queue)
           e == [i \in 1 .. k |-> {queue[i]}]
<1>1. k \in 0 .. Len(queue)
  BY DueIsDue
<1>2. delivered' = delivered \o before \o e
  BY DEF DispatchUnreliable
<1> HIDE DEF k
<1>3. \A c \in Loose : c.packet \in DOMAIN kinds /\ CommandsIn(network, c.packet) = {c} /\ {c} \in Packets
  BY LooseCommand, LooseIsWhole DEF Loose, CommandsIn, Commands
<1>4. /\ s \in Seq(DOMAIN kinds) /\ Len(s) = k /\ \A i \in 1 .. k : s[i] = queue[i].packet
  <2>1. \A c \in Loose : c.packet \in DOMAIN kinds
    BY <1>3
  <2>2. s \in Seq(DOMAIN kinds) /\ k \in Nat
    BY <1>1, <2>1, FirstPackets
  <2> QED
    BY <2>2, FirstIs
<1>5. \A i \in 1 .. k : queue[i] \in Loose
  <2>1. Len(queue) \in Nat /\ \A i \in 1 .. k : i \in 1 .. Len(queue)
    BY <1>1, LenProperties
  <2> QED
    BY <2>1, ElementOfSeq
<1>6. k \in Nat
  BY <1>1, LenProperties
<1>7. e \in [1 .. k -> Packets] /\ \A i \in 1 .. k : e[i] = {queue[i]}
  BY <1>3, <1>5
<1>8. e \in Seq(Packets) /\ Len(e) = k
  BY <1>6, <1>7
<1> HIDE DEF s, e
<1>9. IsOutput(network, e, s)
  BY <1>3, <1>4, <1>5, <1>7, <1>8 DEF IsOutput
<1>10. IsOutput(network, delivered \o before, out \o more)
  BY ConcatOutput
<1>11. delivered \o before \in Seq(Packets) /\ out \o more \in Seq(DOMAIN kinds)
  BY ConcatProperties
<1> DEFINE d == delivered \o before
           o == out \o more
<1> HIDE DEF d, o
<1>12. IsOutput(network, d \o e, o \o s)
  BY <1>4, <1>8, <1>9, <1>10, <1>11, ConcatOutput DEF d, o
<1>13. network' = network /\ delivered' = d \o e
  BY <1>2 DEF d
<1> QED
  BY <1>1, <1>4, <1>12, <1>13 DEF o, s, k

\* More packets are handed over, up to number t.
LEMMA GoodMore ==
  ASSUME NEW ks, NEW out, NEW last \in Nat, Good(ks, out, last), DOMAIN ks \subseteq Nat \ {0},
         NEW t \in Nat, last <= t, NEW more \in Seq(DOMAIN ks), Ordered(ks, more),
         \A x \in Range(out), y \in Range(more) : Precedes(ks, x, y),
         \A p \in DOMAIN ks : ks[p] \in {"reliable", "fragmented"} =>
           (p \in Range(more) <=> last < Number(ks, p) /\ Number(ks, p) <= t),
         \A p \in Range(more) : ks[p] = "unreliable" => Number(ks, p) <= t + 1
  PROVE  Good(ks, out \o more, t)
<1>1. out \in Seq(DOMAIN ks) /\ Ordered(ks, out)
  BY DEF Good
<1>2. out \o more \in Seq(DOMAIN ks)
  BY <1>1, ConcatProperties
<1>3. Range(out \o more) = Range(out) \cup Range(more)
  BY <1>1, ConcatRange
<1>4. Ordered(ks, out \o more)
  BY <1>1, ConcatOrdered
<1> DEFINE u == out \o more
<1> HIDE DEF u
<1>5. ASSUME NEW p \in DOMAIN ks, ks[p] \in {"reliable", "fragmented"}
      PROVE  p \in Range(u) <=> Number(ks, p) <= t
  <2>1. p \in Range(out) <=> Number(ks, p) <= last
    BY <1>5 DEF Good
  <2>2. p \in Range(more) <=> last < Number(ks, p) /\ Number(ks, p) <= t
    BY <1>5
  <2>3. Number(ks, p) \in Nat
    BY NumberType
  <2>4. p \in Range(u) <=> p \in Range(out) \/ p \in Range(more)
    BY <1>3 DEF u
  <2> QED
    BY <2>1, <2>2, <2>3, <2>4
<1>6. ASSUME NEW p \in Range(u), ks[p] = "unreliable" PROVE Number(ks, p) <= t + 1
  <2>1. p \in DOMAIN ks
    BY <1>2, RangeType DEF u
  <2>2. Number(ks, p) \in Nat
    BY <2>1, NumberType
  <2>3. CASE p \in Range(out)
    <3>1. Number(ks, p) <= last + 1
      BY <1>6, <2>3 DEF Good
    <3> QED
      BY <2>2, <3>1
  <2>4. CASE p \in Range(more)
    BY <1>6, <2>4
  <2> QED
    BY <1>3, <2>3, <2>4 DEF u
<1> QED
  BY <1>2, <1>4, <1>5, <1>6 DEF Good, u

\* Packets that are not unsequenced leave the groups alone.
LEMMA GroupsKept ==
  ASSUME NEW out \in Seq(DOMAIN kinds), NEW gb, Groups(out, gb), UNCHANGED <<kinds, groupVars>>,
         NEW more \in Seq(DOMAIN kinds), \A y \in Range(more) : kinds[y] # "unsequenced"
  PROVE  Groups(out \o more, gb)'
<1> DEFINE u == out \o more
<1>1. Range(u) = Range(out) \cup Range(more)
  BY ConcatRange
<1>2. groupBase' = groupBase /\ groupsSeen' = groupsSeen /\ kinds' = kinds
  BY DEF groupVars
<1> HIDE DEF u
<1>3. \A p \in Range(u) : kinds[p] = "unsequenced" => p \in Range(out)
  BY <1>1
<1>4. Groups(u, gb)'
  BY <1>2, <1>3 DEF Groups
<1> QED
  BY <1>4 DEF u

\* The number kept of those that are handed over from an unreliable queue.
LEMMA LastUnreliableIs ==
  ASSUME NEW S, NEW queue \in Seq(S), NEW k \in 0 .. Len(queue), NEW last,
         \A i \in 1 .. k : queue[i].kind = "unreliable"
  PROVE  LastUnreliable(queue, k, last) = IF k = 0 THEN last ELSE queue[k].minor
<1> DEFINE numbered == {i \in 1 .. k : queue[i].kind = "unreliable"}
<1>1. LastUnreliable(queue, k, last) = IF numbered = {} THEN last ELSE queue[Max(numbered)].minor
  BY DEF LastUnreliable
<1>2. k \in Nat
  BY LenProperties
<1>3. numbered = 1 .. k
  OBVIOUS
<1> HIDE DEF numbered
<1>4. CASE k = 0
  <2>1. numbered = {}
    BY <1>3, <1>4
  <2> QED
    BY <1>1, <1>4, <2>1
<1>5. CASE k # 0
  <2>1. numbered \in SUBSET (0 .. k) /\ k \in numbered
    BY <1>2, <1>3, <1>5
  <2>2. Max(numbered) \in numbered /\ k <= Max(numbered)
    BY <1>2, <2>1, MaxExists
  <2>3. Max(numbered) = k
    BY <1>2, <1>3, <2>2
  <2> QED
    BY <1>1, <1>5, <2>1, <2>3
<1> QED
  BY <1>4, <1>5

\* The packets handed over may precede an unreliable one behind number last that
\* is not late,
LEMMA UnreliableFollows ==
  ASSUME Types, Network, Unreliables, NEW last \in Nat, NEW out, Good(kinds, out, last), Heard(out, last),
         NEW c \in network, c.kind = "unreliable", Number(kinds, c.packet) = last + 1,
         inUnrel < c.minor, NEW x \in Range(out)
  PROVE  Precedes(kinds, x, c.packet)
<1> DEFINE p == c.packet
<1>1. p \in DOMAIN kinds /\ kinds[p] = "unreliable" /\ Commands(p) = {c}
  BY LooseCommand
<1>2. x \in DOMAIN kinds
  BY RangeType DEF Good
<1>3. DOMAIN kinds \subseteq Nat \ {0} /\ kinds \in Seq(Kinds \cup {"reliable"})
  <2>1. kinds \in Seq(Kinds \cup {"reliable"})
    BY DEF Types, TypeOK
  <2> QED
    BY <2>1, LenProperties
<1>4. Number(kinds, p) = last + 1
  OBVIOUS
<1>5. Number(kinds, x) \in Nat
  BY <1>2, <1>3, NumberType
<1>6. kinds[x] \in {"reliable", "fragmented", "unreliable", "unsequenced"}
  <2>1. kinds[x] \in Kinds \cup {"reliable"}
    BY <1>2, <1>3, LenProperties, ElementOfSeq
  <2> QED
    BY <2>1, DeliveryAssumption
<1> HIDE DEF p
<1>7. CASE kinds[x] \in {"reliable", "fragmented"}
  <2>1. Number(kinds, x) <= last
    BY <1>2, <1>7 DEF Good
  <2>2. Number(kinds, x) < Number(kinds, p)
    BY <1>4, <1>5, <2>1
  <2>3. x < p /\ x # p
    BY <1>1, <1>2, <1>3, <2>2, <1>5, NumberOrder
  <2> QED
    BY <2>3 DEF Precedes, p
<1>8. CASE kinds[x] = "unsequenced"
  BY <1>1, <1>8 DEF Precedes, p
<1>9. CASE kinds[x] = "unreliable"
  <2>1. Number(kinds, x) <= last + 1
    BY <1>9 DEF Good
  <2>2. CASE Number(kinds, x) = last + 1
    <3>1. PICK d : Commands(x) = {d} /\ d.kind = "unreliable"
      <4>1. AreSentFor(kinds, x, Commands(x))
        BY <1>2 DEF Network
      <4> QED
        BY <1>9, <4>1 DEF AreSentFor
    <3>2. d \in network /\ d.packet = x
      BY <3>1 DEF Commands
    <3>3. d.minor <= inUnrel
      BY <2>2, <3>1, <3>2 DEF Heard
    <3>4. d.minor \in Nat /\ c.minor \in Nat /\ inUnrel \in Nat
      BY <3>1, <3>2, Sizes DEF Types, TypeOK, Minors
    <3>5. ~(c.minor < d.minor) /\ c # d
      BY <3>3, <3>4
    <3>6. ~(p < x)
      BY <1>4, <2>2, <3>1, <3>2, <3>5 DEF Unreliables, p
    <3>7. p # x
      BY <1>1, <3>1, <3>5
    <3>8. x < p
      BY <1>1, <1>2, <1>3, <3>6, <3>7
    <3> QED
      BY <3>7, <3>8 DEF Precedes, p
  <2>3. CASE Number(kinds, x) # last + 1
    <3>1. Number(kinds, x) < Number(kinds, p)
      BY <1>4, <1>5, <2>1, <2>3
    <3>2. x < p /\ x # p
      BY <1>1, <1>2, <1>3, <3>1, <1>5, NumberOrder
    <3> QED
      BY <3>2 DEF Precedes, p
  <2> QED
    BY <2>2, <2>3
<1> QED
  BY <1>6, <1>7, <1>8, <1>9 DEF p

\* and an unreliable command that is accepted is handed over in its turn, or waits
\* in its place.
LEMMA UnreliableRecord ==
  ASSUME Limits, OneLap, Inv, Len(kinds) <= MaxPackets, Unreliables,
         NEW last \in Nat, NEW gb \in Nat, NEW out, Record(last, gb, out),
         NEW c \in network, ReceiveUnreliable(c), Len(kinds) - c.packet < MaxLag
  PROVE  \E more \in Seq(DOMAIN kinds) : Record(last, gb, out \o more)'
<1> DEFINE p == c.packet
           queue == InsertAfter(Place(c), c)
           k == DueLength(inRel, queue)
           f == First(k, queue)
<1>1. /\ Types /\ Network /\ waiting \in Seq(Loose) /\ delivered \in Seq(Packets)
      /\ DueLength(inRel, waiting) = 0
  BY DEF Inv, NothingHeldBack
<1>2. /\ Numbers(last) /\ IsQueue(kinds, held, last) /\ InTurn(inRel, held) = {}
      /\ IsOutput(network, delivered, out) /\ Good(kinds, out, last)
      /\ Heard(out, last) /\ Groups(out, gb) /\ Sorted(kinds, waiting, last)
  BY DEF Record
<1>3. /\ c.kind = "unreliable" /\ InWindow(c.rel) /\ ~IsLate(c) /\ c \notin Range(waiting)
      /\ DispatchUnreliable(queue, <<>>, inRel, inUnrel)
      /\ UNCHANGED <<kinds, network, outRel, inRel, held, groupVars>>
  BY DEF ReceiveUnreliable, senderVars, reliableVars
<1>4. /\ p \in DOMAIN kinds /\ kinds[p] = "unreliable" /\ c \in Loose
      /\ last < Number(kinds, p)
  BY <1>1, <1>2, <1>3, LooseCommand, UnreliableFresh DEF Loose
<1>5. Place(c) \in 0 .. Len(waiting) /\ queue \in Seq(Loose)
  BY <1>1, <1>4, Inserted
<1>6. out \in Seq(DOMAIN kinds)
  BY <1>2 DEF Good
<1>7. /\ k \in 0 .. Len(queue) /\ f \in Seq(DOMAIN kinds)
      /\ IsOutput(network', delivered', out \o f)
  <2>1. <<>> \in Seq(Packets) /\ <<>> \in Seq(DOMAIN kinds) /\ IsOutput(network, <<>>, <<>>)
    BY EmptySeq DEF IsOutput
  <2>2. out \o <<>> = out
    BY <1>6, ConcatEmptySeq
  <2> HIDE DEF queue
  <2>3. /\ k \in 0 .. Len(queue) /\ f \in Seq(DOMAIN kinds)
        /\ IsOutput(network', delivered', (out \o <<>>) \o f)
    BY <1>1, <1>2, <1>3, <1>5, <1>6, <2>1, HandOver
  <2> QED
    BY <2>2, <2>3
<1>8. waiting' = SubSeq(queue, k + 1, Len(queue)) /\ inUnrel' = LastUnreliable(queue, k, inUnrel)
  BY <1>3 DEF DispatchUnreliable
<1>9. \/ k = 1 /\ c.rel = inRel /\ SubSeq(queue, 2, Len(queue)) = waiting /\ queue[1] = c
      \/ k = 0
  <2> HIDE DEF queue
  <2>1. IF Place(c) = 0 /\ (c.kind = "unreliable" => c.rel = inRel)
          THEN DueLength(inRel, queue) = 1 /\ SubSeq(queue, 2, Len(queue)) = waiting /\ queue[1] = c
          ELSE DueLength(inRel, queue) = 0
    BY <1>1, <1>4, <1>5, InsertOne DEF queue
  <2> QED
    BY <1>3, <2>1
<1>10. Sorted(kinds, queue, last)
  BY <1>1, <1>2, <1>3, <1>4, InsertSorted
<1>11. Len(f) = k /\ DOMAIN f = 1 .. k /\ Range(f) = {queue[i].packet : i \in 1 .. k}
  <2>1. k \in Nat
    BY <1>5, <1>7, LenProperties
  <2> HIDE DEF k
  <2> QED
    BY <2>1, FirstIs
<1> HIDE DEF p, queue, k, f
<1>12. PICK s \in Seq(DOMAIN kinds) : s = f
  BY <1>7
<1>13. /\ DOMAIN s = 1 .. k /\ Range(s) = {queue[i].packet : i \in 1 .. k}
       /\ IsOutput(network', delivered', out \o s)
  BY <1>7, <1>11, <1>12
<1>14. inUnrel \in Nat /\ \A d \in network : d.kind = "unreliable" => d.minor \in Nat
  BY <1>1, Sizes DEF Types, TypeOK, Minors
<1>15. DOMAIN kinds \subseteq Nat \ {0}
  BY <1>1, LenProperties DEF Types, TypeOK
<1>16. ASSUME k = 1
       PROVE  /\ Range(s) = {p} /\ Number(kinds, p) = last + 1 /\ inUnrel < c.minor
              /\ inUnrel' = c.minor /\ waiting' = waiting
  <2>1. c.rel = inRel /\ SubSeq(queue, 2, Len(queue)) = waiting /\ queue[1] = c
    BY <1>9, <1>16
  <2>2. Range(s) = {p}
    BY <1>13, <1>16, <2>1 DEF p
  <2>3. Number(kinds, p) = last + 1
    <3> DEFINE n == Number(kinds, p) - 1
    <3>1. c.rel = n % Space /\ n \in Nat /\ Before <= n /\ n <= LastSent
      BY <1>1, <1>3, UnreliableCommand DEF p
    <3>2. /\ Before \in Nat /\ Before <= last /\ last <= LastSent /\ LastSent \in Nat
          /\ LastSent - Before < Space /\ Space \in Nat \ {0}
      BY <1>1, <1>2, LastWithinLap
    <3>3. inRel = last % Space
      BY <1>2 DEF Numbers
    <3>4. Number(kinds, p) \in Nat
      <4>1. p \in Nat \ {0}
        BY <1>1, <1>3, UnreliableCommand DEF p
      <4> QED
        BY <4>1, NumberType
    <3>5. n = Number(kinds, p) - 1
      OBVIOUS
    <3> HIDE DEF n
    <3>6. n - last < Space /\ last - n < Space
      BY <3>1, <3>2
    <3>7. n = last
      BY <2>1, <3>1, <3>2, <3>3, <3>6, CutUnique
    <3> QED
      BY <3>4, <3>5, <3>7
  <2>4. inUnrel < c.minor
    <3>1. inUnrel \in Nat /\ c.minor \in Nat
      BY <1>3, <1>14
    <3> QED
      BY <1>3, <2>1, <3>1 DEF IsLate
  <2>5. inUnrel' = c.minor
    <3>1. \A i \in 1 .. k : queue[i].kind = "unreliable"
      BY <1>3, <1>16, <2>1
    <3>2. LastUnreliable(queue, k, inUnrel) = IF k = 0 THEN inUnrel ELSE queue[k].minor
      BY <1>5, <1>7, <3>1, LastUnreliableIs
    <3>3. inUnrel' = queue[k].minor
      BY <1>8, <1>16, <3>2
    <3> QED
      BY <1>16, <2>1, <3>3
  <2>6. waiting' = waiting
    BY <1>8, <1>16, <2>1
  <2> QED
    BY <2>2, <2>3, <2>4, <2>5, <2>6
<1>17. ASSUME k = 0 PROVE Range(s) = {} /\ inUnrel' = inUnrel /\ waiting' = queue
  <2>1. Range(s) = {}
    BY <1>13, <1>17
  <2>2. inUnrel' = inUnrel
    <3>1. \A i \in 1 .. k : queue[i].kind = "unreliable"
      BY <1>17
    <3> QED
      BY <1>5, <1>7, <1>8, <1>17, <3>1, LastUnreliableIs
  <2>3. SubSeq(queue, 1, Len(queue)) = queue
    BY <1>5, SubSeqFull
  <2> QED
    BY <1>8, <1>17, <2>1, <2>2, <2>3
<1>18. Good(kinds, out \o s, last)
  <2>1. \A y \in Range(s) : kinds[y] = "unreliable" /\ Number(kinds, y) = last + 1
    BY <1>4, <1>9, <1>16, <1>17
  <2>2. \A x \in Range(out), y \in Range(s) : Precedes(kinds, x, y)
    BY <1>1, <1>2, <1>3, <1>9, <1>16, <1>17, UnreliableFollows DEF p
  <2>3. Ordered(kinds, s)
    <3>1. \A i, j \in 1 .. k : ~(i < j)
      BY <1>9
    <3> QED
      BY <1>13, <3>1 DEF Ordered
  <2>4. \A q \in DOMAIN kinds : kinds[q] \in {"reliable", "fragmented"} =>
          (q \in Range(s) <=> last < Number(kinds, q) /\ Number(kinds, q) <= last)
    <3> SUFFICES ASSUME NEW q \in DOMAIN kinds, kinds[q] \in {"reliable", "fragmented"}
                 PROVE  q \notin Range(s) /\ ~(last < Number(kinds, q) /\ Number(kinds, q) <= last)
      OBVIOUS
    <3>1. Number(kinds, q) \in Nat
      BY <1>15, NumberType
    <3> QED
      BY <2>1, <3>1
  <2>5. \A y \in Range(s) : kinds[y] = "unreliable" => Number(kinds, y) <= last + 1
    BY <2>1
  <2> QED
    BY <1>2, <1>15, <2>2, <2>3, <2>4, <2>5, GoodMore
<1>19. Heard(out \o s, last)'
  <2> DEFINE u == out \o s
  <2>1. Range(u) = Range(out) \cup Range(s)
    BY <1>6, ConcatRange
  <2> HIDE DEF u
  <2>2. ASSUME NEW d \in network, d.kind = "unreliable", d.packet \in Range(u), Number(kinds, d.packet) = last + 1
        PROVE  d.minor <= inUnrel'
    <3>1. d.minor \in Nat /\ inUnrel \in Nat /\ c.minor \in Nat
      BY <1>3, <1>14, <2>2
    <3>2. CASE d.packet \in Range(out)
      <4>1. d.minor <= inUnrel
        BY <1>2, <2>2, <3>2 DEF Heard
      <4> QED
        BY <1>9, <1>16, <1>17, <3>1, <4>1
    <3>3. CASE d.packet \in Range(s)
      <4>1. k = 1 /\ d.packet = p
        BY <1>9, <1>16, <1>17, <3>3
      <4>2. Commands(d.packet) = {d} /\ Commands(p) = {c}
        BY <1>1, <1>3, <2>2, LooseCommand DEF p
      <4>3. d = c
        BY <4>1, <4>2
      <4> QED
        BY <1>16, <3>1, <4>1, <4>3
    <3> QED
      BY <2>1, <2>2, <3>2, <3>3
  <2>3. network' = network /\ kinds' = kinds
    BY <1>3
  <2>4. Heard(u, last)'
    BY <2>2, <2>3 DEF Heard
  <2> QED
    BY <2>4 DEF u
<1>20. Groups(out \o s, gb)'
  <2>1. \A y \in Range(s) : kinds[y] # "unsequenced"
    BY <1>4, <1>9, <1>16, <1>17
  <2> QED
    BY <1>2, <1>3, <1>6, <2>1, GroupsKept
<1>21. Sorted(kinds, waiting', last)
  BY <1>2, <1>9, <1>10, <1>16, <1>17
<1>22. Numbers(last)' /\ IsQueue(kinds, held', last) /\ InTurn(inRel', held') = {} /\ kinds' = kinds
  BY <1>2, <1>3 DEF Numbers, LastSent
<1> DEFINE u == out \o s
<1> HIDE DEF u
<1>23. Record(last, gb, u)'
  BY <1>13, <1>18, <1>19, <1>20, <1>21, <1>22 DEF Record, u
<1> QED
  BY <1>23 DEF u

-----------------------------------------------------------------------------
(***************************************************************************)
(* The groups of unsequenced packets.                                      *)
(***************************************************************************)

LEMMA GroupStep ==
  ASSUME NEW ks, NEW p \in Nat \ {0}
  PROVE  /\ GroupNo(ks, p) \in Nat /\ GroupNo(ks, p) >= 1
         /\ GroupNo(ks, p + 1) = GroupNo(ks, p) + (IF ks[p] = "unsequenced" THEN 1 ELSE 0)
<1> DEFINE a == Cardinality(Earlier(ks, p, "unsequenced"))
<1>1. /\ a \in Nat
      /\ Cardinality(Earlier(ks, p + 1, "unsequenced")) = a + (IF ks[p] = "unsequenced" THEN 1 ELSE 0)
  BY EarlierStep
<1> HIDE DEF a
<1>2. GroupNo(ks, p) = Before + 1 + a
  BY DEF GroupNo, a
<1>3. GroupNo(ks, p + 1) = Before + 1 + (a + (IF ks[p] = "unsequenced" THEN 1 ELSE 0))
  BY <1>1 DEF GroupNo
<1> QED
  BY <1>1, <1>2, <1>3, Sizes

\* Groups grow with the packets, by at most one for each.
LEMMA GroupGrows ==
  ASSUME NEW ks, NEW p \in Nat \ {0}, NEW q \in Nat, p <= q
  PROVE  /\ GroupNo(ks, p) \in Nat /\ GroupNo(ks, q) \in Nat
         /\ GroupNo(ks, p) <= GroupNo(ks, q) /\ GroupNo(ks, q) <= GroupNo(ks, p) + (q - p)
<1> DEFINE n == q - p
           T == {k \in 0 .. n : GroupNo(ks, p) <= GroupNo(ks, p + k) /\ GroupNo(ks, p + k) <= GroupNo(ks, p) + k}
<1>1. n \in Nat /\ p + n = q /\ q \in Nat \ {0}
  OBVIOUS
<1>2. GroupNo(ks, p) \in Nat /\ GroupNo(ks, q) \in Nat
  BY <1>1, GroupStep
<1> HIDE DEF n
<1>3. 0 \in T
  BY <1>1, <1>2
<1>4. \A k \in 1 .. n : k - 1 \in T => k \in T
  <2> SUFFICES ASSUME NEW k \in 1 .. n, k - 1 \in T PROVE k \in T
    OBVIOUS
  <2> DEFINE j == k - 1
             s == p + j
  <2>1. j \in Nat /\ j + 1 = k /\ s \in Nat \ {0} /\ s + 1 = p + k
    BY <1>1
  <2>2. GroupNo(ks, s) \in Nat /\ GroupNo(ks, p) <= GroupNo(ks, s) /\ GroupNo(ks, s) <= GroupNo(ks, p) + j
    BY <2>1, GroupStep
  <2> HIDE DEF j, s
  <2>3. GroupNo(ks, s + 1) = GroupNo(ks, s) + (IF ks[s] = "unsequenced" THEN 1 ELSE 0)
    BY <2>1, GroupStep
  <2> DEFINE x == IF ks[s] = "unsequenced" THEN 1 ELSE 0
  <2>4. x \in 0 .. 1 /\ GroupNo(ks, p + k) = GroupNo(ks, s) + x
    BY <2>1, <2>3
  <2> HIDE DEF x
  <2>5. GroupNo(ks, p) <= GroupNo(ks, p + k) /\ GroupNo(ks, p + k) <= GroupNo(ks, p) + k
    BY <1>2, <2>1, <2>2, <2>4
  <2> QED
    BY <2>5
<1> HIDE DEF T
<1>5. \A k \in 0 .. n : k \in T
  BY <1>1, <1>3, <1>4, Throughout
<1>6. n \in T
  BY <1>1, <1>5
<1>7. GroupNo(ks, p) <= GroupNo(ks, p + n) /\ GroupNo(ks, p + n) <= GroupNo(ks, p) + n
  BY <1>6 DEF T
<1> QED
  BY <1>1, <1>2, <1>7 DEF n

\* The window of a group may be found after the group is cut.
LEMMA CutWindow ==
  ASSUME NEW n \in Nat
  PROVE  /\ (n % GroupSpace) % GroupWindowSize = n % GroupWindowSize
         /\ (n - (n % GroupWindowSize)) % GroupSpace = (n % GroupSpace) - (n % GroupWindowSize)
         /\ n - (n % GroupWindowSize) \in Nat /\ (n - (n % GroupWindowSize)) % GroupWindowSize = 0
<1> DEFINE W == GroupWindowSize
           G == GroupSpace
           d == 2 * FreeGroupWindows
           g == n % G
           q == n \div G
           r == n % W
           p == n \div W
           s == g % W
           t == g \div W
<1>1. W \in Nat \ {0} /\ G \in Nat \ {0} /\ d \in Nat
  BY Sizes, DeliveryAssumption
<1>2. G = d * W
  BY DEF GroupSpace
<1>3. q \in Int /\ g \in 0 .. G - 1 /\ n = G * q + g
  <2> HIDE DEF G
  <2> QED
    BY <1>1, DivMod
<1>4. p \in Int /\ r \in 0 .. W - 1 /\ n = W * p + r
  <2> HIDE DEF W
  <2> QED
    BY <1>1, DivMod
<1> HIDE DEF G, d, g, q
<1>5. g \in Nat /\ g \in Int
  BY <1>1, <1>3
<1>6. t \in Int /\ s \in 0 .. W - 1 /\ g = W * t + s
  <2> HIDE DEF W
  <2> QED
    BY <1>1, <1>5, DivMod
<1> HIDE DEF W, r, p, s, t
<1>7. s = r
  <2> DEFINE u == d * q + t
  <2>1. n = W * u + s /\ u \in Int /\ n \in Int
    <3>1. G * q = W * (d * q) /\ d * q \in Int
      BY <1>1, <1>2, <1>3
    <3> DEFINE e == d * q
    <3>2. n = W * e + (W * t + s) /\ e \in Int
      BY <1>3, <1>6, <3>1
    <3> HIDE DEF e
    <3>3. n = W * (e + t) + s /\ e + t \in Int
      BY <1>1, <1>6, <3>2
    <3> QED
      BY <3>3 DEF e
  <2> HIDE DEF u
  <2>2. n % W = s
    BY <1>1, <1>6, <2>1, QuotientIs
  <2> QED
    BY <2>2 DEF r
<1>8. (n - r) % G = g - r
  <2> DEFINE v == n - r
             w == g - r
  <2>1. w \in 0 .. G - 1 /\ v = G * q + w /\ v \in Int
    <3>1. W * t \in Int /\ W * t >= 0
      <4>1. W * t \in Int
        BY <1>1, <1>6
      <4>2. ASSUME t < 0 PROVE FALSE
        <5>1. W * t + W <= W * 0
          BY <1>1, <1>6, <4>2, Times
        <5>2. W * 0 = 0
          BY <1>1
        <5> QED
          BY <1>1, <1>5, <1>6, <4>1, <5>1, <5>2
      <4>3. PICK m \in Nat : t = m
        BY <1>6, <4>2
      <4>4. W * m \in Nat
        BY <1>1
      <4> QED
        BY <4>3, <4>4
    <3>2. w = W * t
      BY <1>5, <1>6, <1>7, <3>1
    <3>3. w \in 0 .. G - 1
      BY <1>1, <1>3, <1>4, <3>1, <3>2
    <3>4. G * q \in Int
      BY <1>1, <1>3
    <3> DEFINE x == G * q
    <3> HIDE DEF x, w
    <3>5. x \in Int /\ n = x + g
      BY <1>3, <3>4 DEF x
    <3>6. v = x + w
      BY <1>4, <1>5, <3>5 DEF w
    <3> QED
      BY <1>4, <3>3, <3>6 DEF x
  <2> HIDE DEF v, w
  <2>2. v % G = w
    BY <1>1, <1>3, <2>1, QuotientIs
  <2> QED
    BY <2>2 DEF v, w
<1>9. n - r \in Nat /\ (n - r) % W = 0
  <2> DEFINE v == n - r
  <2>1. r = n % GroupWindowSize /\ GroupWindowSize \in Nat \ {0}
    BY <1>1 DEF r, W
  <2>2. v \in Nat
    BY <2>1, CutIsLess
  <2>3. v = W * p + 0 /\ 0 \in 0 .. W - 1
    BY <1>1, <1>4
  <2> HIDE DEF v
  <2>4. v % W = 0
    BY <1>1, <1>4, <2>2, <2>3, QuotientIs
  <2> QED
    BY <2>2, <2>4 DEF v
<1> QED
  BY <1>7, <1>8, <1>9 DEF s, r, g, W, G

\* A group that is accepted is not behind the window,
LEMMA GroupAccepted ==
  ASSUME Types, OneLap, Unsequenceds, NEW gb \in Nat, groupBase = gb % GroupSpace,
         gb <= GroupNo(kinds, Len(kinds) + 1) - 1,
         NEW c \in network, c.kind = "unsequenced", c.packet \in DOMAIN kinds,
         kinds[c.packet] = "unsequenced",
         GroupInWindow(c.minor), Len(kinds) - c.packet < MaxLag
  PROVE  LET n == GroupNo(kinds, c.packet)
         IN  n \in Nat /\ gb <= n /\ n <= GroupNo(kinds, Len(kinds) + 1) - 1 /\ c.minor = n % GroupSpace
<1> DEFINE p == c.packet
           n == GroupNo(kinds, p)
           l == Len(kinds)
           m == GroupNo(kinds, l + 1)
           G == GroupSpace
           H == FreeGroupWindows * GroupWindowSize
           g == n % G
           b == gb % G
<1>1. l \in Nat /\ p \in 1 .. l /\ p \in Nat \ {0} /\ l - p < MaxLag
  BY LenProperties DEF Types, TypeOK
<1>2. c.minor = g
  BY DEF Unsequenceds
<1>3. kinds[p] = "unsequenced" /\ gb <= m - 1
  OBVIOUS
<1> HIDE DEF p
<1>4. n \in Nat /\ GroupNo(kinds, p + 1) = n + 1
  BY <1>1, <1>3, GroupStep
<1>5. m \in Nat /\ n + 1 <= m /\ m <= n + 1 + (l - p)
  <2> DEFINE q == p + 1
             r == l + 1
  <2>1. q \in Nat \ {0} /\ r \in Nat /\ q <= r /\ r - q = l - p
    BY <1>1
  <2>2. GroupNo(kinds, q) = n + 1 /\ m = GroupNo(kinds, r)
    BY <1>4
  <2> HIDE DEF q, r, n, m
  <2>3. GroupNo(kinds, r) \in Nat /\ GroupNo(kinds, q) <= GroupNo(kinds, r)
        /\ GroupNo(kinds, r) <= GroupNo(kinds, q) + (r - q)
    BY <2>1, GroupGrows
  <2> QED
    BY <2>1, <2>2, <2>3
<1>6. /\ H \in Nat \ {0} /\ G = 2 * H /\ G \in Nat \ {0} /\ MaxLag \in Nat /\ MaxLag <= H + 1
  <2>1. FreeGroupWindows \in Nat \ {0} /\ GroupWindowSize \in Nat \ {0}
    BY DeliveryAssumption
  <2>2. H \in Nat \ {0}
    BY <2>1
  <2>3. G = 2 * H
    BY <2>1 DEF GroupSpace
  <2> QED
    BY <2>2, <2>3, Sizes DEF OneLap
<1>7. g + (IF g < b THEN G ELSE 0) < b + H
  BY <1>2 DEF GroupInWindow
<1>8. n \in Nat /\ G \in Nat \ {0}
  BY <1>4, <1>6
<1> HIDE DEF n, m, l, G, H
<1>9. g \in 0 .. G - 1 /\ b \in 0 .. G - 1
  <2>1. n \in Int /\ gb \in Int
    BY <1>8
  <2>2. g \in 0 .. G - 1
    BY <1>8, <2>1, DivMod
  <2>3. b \in 0 .. G - 1
    BY <1>8, <2>1, DivMod
  <2> QED
    BY <2>2, <2>3
<1>10. ASSUME n < gb PROVE FALSE
  <2>1. n <= gb /\ gb - n <= H /\ gb - n < G
    BY <1>1, <1>3, <1>5, <1>6, <1>8, <1>10
  <2>2. b = g + (gb - n) \/ b = g + (gb - n) - G
    BY <1>8, <2>1, LapCut
  <2> HIDE DEF g, b
  <2> QED
    BY <1>6, <1>7, <1>8, <1>9, <1>10, <2>1, <2>2
<1>11. n \in Nat /\ gb <= n /\ n <= m - 1
  BY <1>3, <1>5, <1>8, <1>10
<1> QED
  BY <1>2, <1>11 DEF n, g, G, p, m, l

\* and the window moves on with it.
LEMMA WindowMoves ==
  ASSUME NEW gb \in Nat, gb % GroupWindowSize = 0, NEW n \in Nat, gb <= n
  PROVE  LET gc == n - (n % GroupWindowSize)
         IN  /\ gc \in Nat /\ gb <= gc /\ gc <= n /\ n < gc + GroupWindowSize
             /\ gc # gb => gb + GroupWindowSize <= gc
<1> DEFINE W == GroupWindowSize
           r == n % W
           q == n \div W
           p == gb \div W
<1>1. W \in Nat \ {0}
  BY Sizes
<1>2. q \in Int /\ r \in 0 .. W - 1 /\ n = W * q + r
  <2> HIDE DEF W
  <2> QED
    BY <1>1, DivMod
<1>3. p \in Int /\ gb = W * p
  <2>1. gb % W = 0
    OBVIOUS
  <2> HIDE DEF W
  <2>2. p \in Int /\ gb = W * p + (gb % W)
    BY <1>1, DivMod
  <2>3. W * p \in Int
    BY <1>1, <2>2
  <2> QED
    BY <2>1, <2>2, <2>3
<1> HIDE DEF W, r, q, p
<1>4. W * q \in Int /\ W * p \in Int
  BY <1>1, <1>2, <1>3
<1>5. ~(q < p)
  <2>1. ASSUME q < p PROVE FALSE
    <3>1. W * q + W <= W * p
      BY <1>1, <1>2, <1>3, <2>1, Times
    <3> QED
      BY <1>1, <1>2, <1>3, <1>4, <3>1
  <2> QED
    BY <2>1
<1>6. p < q => W * p + W <= W * q
  BY <1>1, <1>2, <1>3, Times
<1>7. p = q \/ p < q
  BY <1>2, <1>3, <1>5
<1>8. n - r = W * q
  <2> DEFINE a == W * q
  <2>1. a \in Int /\ n = a + r /\ r \in Int
    BY <1>2, <1>4
  <2> HIDE DEF a
  <2>2. n - r = a
    BY <2>1
  <2> QED
    BY <2>2 DEF a
<1>9. n - r \in Nat /\ gb <= n - r /\ n - r <= n /\ n < n - r + W /\ (n - r # gb => gb + W <= n - r)
  <2> DEFINE a == W * q
             b == W * p
  <2>1. /\ a \in Int /\ b \in Int /\ gb = b /\ n = a + r /\ n - r = a /\ r \in 0 .. W - 1 /\ W \in Nat
        /\ a = b \/ b + W <= a
    BY <1>1, <1>2, <1>3, <1>4, <1>6, <1>7, <1>8
  <2> HIDE DEF a, b
  <2> QED
    BY <2>1
<1> QED
  BY <1>9 DEF r, W

\* An unsequenced command that is accepted has not been handed over, and is handed
\* over at once.
LEMMA UnsequencedRecord ==
  ASSUME Limits, OneLap, Inv, Len(kinds) <= MaxPackets, Unsequenceds,
         NEW last \in Nat, NEW gb \in Nat, NEW out, Record(last, gb, out),
         NEW c \in network, ReceiveUnsequenced(c), Len(kinds) - c.packet < MaxLag
  PROVE  \E gc \in Nat : \E more \in Seq(DOMAIN kinds) : Record(last, gc, out \o more)'
<1> DEFINE p == c.packet
           n == GroupNo(kinds, p)
           gc == n - (n % GroupWindowSize)
           queue == InsertAfter(0, c)
           k == DueLength(inRel, queue)
           f == First(k, queue)
<1>1. /\ Types /\ Network /\ waiting \in Seq(Loose) /\ delivered \in Seq(Packets)
      /\ DueLength(inRel, waiting) = 0
  BY DEF Inv, NothingHeldBack
<1>2. /\ Numbers(last) /\ IsQueue(kinds, held, last) /\ InTurn(inRel, held) = {}
      /\ IsOutput(network, delivered, out) /\ Good(kinds, out, last)
      /\ Heard(out, last) /\ Groups(out, gb) /\ Sorted(kinds, waiting, last)
  BY DEF Record
<1>3. /\ c.kind = "unsequenced" /\ GroupInWindow(c.minor) /\ Index(c.minor) \notin Bits(c.minor)
      /\ groupBase' = c.minor - Index(c.minor) /\ groupsSeen' = Bits(c.minor) \cup {Index(c.minor)}
      /\ DispatchUnreliable(queue, <<>>, inRel, inUnrel)
      /\ UNCHANGED <<kinds, network, outRel, inRel, held>>
  BY DEF ReceiveUnsequenced, senderVars, reliableVars
<1>4. /\ p \in DOMAIN kinds /\ kinds[p] = "unsequenced" /\ c \in Loose
  BY <1>1, <1>3, LooseCommand DEF Loose
<1>5. /\ groupBase = gb % GroupSpace /\ gb % GroupWindowSize = 0
      /\ gb <= GroupNo(kinds, Len(kinds) + 1) - 1
      /\ \A x \in Range(out) : kinds[x] = "unsequenced" =>
           \/ GroupNo(kinds, x) < gb
           \/ GroupNo(kinds, x) < gb + GroupWindowSize /\ Index(GroupNo(kinds, x)) \in groupsSeen
  BY <1>2 DEF Groups
<1>6. n \in Nat /\ gb <= n /\ n <= GroupNo(kinds, Len(kinds) + 1) - 1 /\ c.minor = n % GroupSpace
  BY <1>1, <1>3, <1>4, <1>5, GroupAccepted
<1>7. 0 \in 0 .. Len(waiting)
  BY <1>1, LenProperties
<1>8. queue \in Seq(Loose)
  BY <1>1, <1>4, <1>7, Inserted
<1>9. out \in Seq(DOMAIN kinds)
  BY <1>2 DEF Good
<1>10. k = 1 /\ SubSeq(queue, 2, Len(queue)) = waiting /\ queue[1] = c
  <2> HIDE DEF queue
  <2>1. IF 0 = 0 /\ (c.kind = "unreliable" => c.rel = inRel)
          THEN DueLength(inRel, queue) = 1 /\ SubSeq(queue, 2, Len(queue)) = waiting /\ queue[1] = c
          ELSE DueLength(inRel, queue) = 0
    BY <1>1, <1>4, <1>7, InsertOne DEF queue
  <2> QED
    BY <1>3, <2>1
<1>11. /\ k \in 0 .. Len(queue) /\ f \in Seq(DOMAIN kinds)
       /\ IsOutput(network', delivered', out \o f)
  <2>1. <<>> \in Seq(Packets) /\ <<>> \in Seq(DOMAIN kinds) /\ IsOutput(network, <<>>, <<>>)
    BY EmptySeq DEF IsOutput
  <2>2. out \o <<>> = out
    BY <1>9, ConcatEmptySeq
  <2> HIDE DEF queue
  <2>3. /\ k \in 0 .. Len(queue) /\ f \in Seq(DOMAIN kinds)
        /\ IsOutput(network', delivered', (out \o <<>>) \o f)
    BY <1>1, <1>2, <1>3, <1>8, <1>9, <2>1, HandOver
  <2> QED
    BY <2>2, <2>3
<1>12. waiting' = waiting /\ inUnrel' = inUnrel
  <2>1. waiting' = SubSeq(queue, k + 1, Len(queue)) /\ inUnrel' = LastUnreliable(queue, k, inUnrel)
    BY <1>3 DEF DispatchUnreliable
  <2> HIDE DEF queue, k
  <2>2. {i \in 1 .. k : queue[i].kind = "unreliable"} = {}
    BY <1>3, <1>10
  <2>3. LastUnreliable(queue, k, inUnrel) = inUnrel
    BY <2>2 DEF LastUnreliable
  <2> QED
    BY <1>10, <2>1, <2>3
<1>13. DOMAIN f = 1 .. 1 /\ Range(f) = {p}
  <2>1. DOMAIN f = 1 .. k /\ Range(f) = {queue[i].packet : i \in 1 .. k}
    <3>1. k \in Nat
      BY <1>10
    <3> HIDE DEF k, queue
    <3> QED
      BY <3>1, FirstIs
  <2> HIDE DEF f, k, queue
  <2> QED
    BY <1>10, <2>1
<1> HIDE DEF p, n, gc, queue, k, f
<1>14. PICK s \in Seq(DOMAIN kinds) : s = f
  BY <1>11
<1>15. IsOutput(network', delivered', out \o s) /\ DOMAIN s = 1 .. 1 /\ Range(s) = {p}
  BY <1>11, <1>13, <1>14
<1>16. /\ gc \in Nat /\ gb <= gc /\ gc <= n /\ n < gc + GroupWindowSize
       /\ gc # gb => gb + GroupWindowSize <= gc
  BY <1>5, <1>6, WindowMoves DEF gc
<1>17. /\ Index(c.minor) = n % GroupWindowSize
       /\ groupBase' = gc % GroupSpace /\ gc % GroupWindowSize = 0
  <2>1. /\ (n % GroupSpace) % GroupWindowSize = n % GroupWindowSize
        /\ (n - (n % GroupWindowSize)) % GroupSpace = (n % GroupSpace) - (n % GroupWindowSize)
        /\ (n - (n % GroupWindowSize)) % GroupWindowSize = 0
    BY <1>6, CutWindow
  <2> QED
    BY <1>3, <1>6, <2>1 DEF Index, gc
<1>18. gc = gb => Bits(c.minor) = groupsSeen
  BY <1>3, <1>5, <1>17 DEF Bits
<1>19. p \notin Range(out)
  <2>1. ASSUME p \in Range(out) PROVE FALSE
    <3>1. \/ n < gb
          \/ n < gb + GroupWindowSize /\ Index(n) \in groupsSeen
      BY <1>4, <1>5, <2>1 DEF n
    <3>2. n < gb + GroupWindowSize /\ Index(n) \in groupsSeen
      BY <1>6, <3>1
    <3>3. gc = gb
      BY <1>6, <1>16, <3>2, Sizes
    <3>4. Index(n) = Index(c.minor)
      BY <1>17 DEF Index
    <3> QED
      BY <1>3, <1>18, <3>2, <3>3, <3>4
  <2> QED
    BY <2>1
<1> DEFINE u == out \o s
<1>20. Range(u) = Range(out) \cup {p}
  BY <1>9, <1>15, ConcatRange
<1>21. DOMAIN kinds \subseteq Nat \ {0}
  BY <1>1, LenProperties DEF Types, TypeOK
<1>22. Good(kinds, u, last)
  <2>1. \A x \in Range(out), y \in Range(s) : Precedes(kinds, x, y)
    BY <1>4, <1>15, <1>19 DEF Precedes
  <2>2. Ordered(kinds, s)
    <3>1. \A i, j \in 1 .. 1 : ~(i < j)
      OBVIOUS
    <3> QED
      BY <1>15, <3>1 DEF Ordered
  <2>3. \A q \in DOMAIN kinds : kinds[q] \in {"reliable", "fragmented"} =>
          (q \in Range(s) <=> last < Number(kinds, q) /\ Number(kinds, q) <= last)
    <3> SUFFICES ASSUME NEW q \in DOMAIN kinds, kinds[q] \in {"reliable", "fragmented"}
                 PROVE  q \notin Range(s) /\ ~(last < Number(kinds, q) /\ Number(kinds, q) <= last)
      OBVIOUS
    <3>1. Number(kinds, q) \in Nat
      BY <1>21, NumberType
    <3> QED
      BY <1>4, <1>15, <3>1
  <2>4. \A y \in Range(s) : kinds[y] = "unreliable" => Number(kinds, y) <= last + 1
    BY <1>4, <1>15
  <2> QED
    BY <1>2, <1>21, <2>1, <2>2, <2>3, <2>4, GoodMore
<1> HIDE DEF u
<1>23. Heard(u, last)'
  <2>1. \A d \in network : d.kind = "unreliable" => d.packet # p
    BY <1>1, <1>4, LooseCommand
  <2> QED
    BY <1>2, <1>3, <1>12, <1>20, <2>1 DEF Heard
<1>24. PICK gd \in Nat : gd = gc
  BY <1>16
<1>25. Groups(u, gd)'
  <2>1. ASSUME NEW x \in Range(u), kinds[x] = "unsequenced"
        PROVE  \/ GroupNo(kinds, x) < gc
               \/ GroupNo(kinds, x) < gc + GroupWindowSize /\ Index(GroupNo(kinds, x)) \in groupsSeen'
    <3>1. CASE x = p
      <4>1. GroupNo(kinds, x) = n /\ Index(n) \in groupsSeen'
        BY <1>3, <1>17, <3>1 DEF n, Index
      <4> QED
        BY <1>16, <4>1
    <3>2. CASE x \in Range(out)
      <4>1. \/ GroupNo(kinds, x) < gb
            \/ GroupNo(kinds, x) < gb + GroupWindowSize /\ Index(GroupNo(kinds, x)) \in groupsSeen
        BY <1>5, <2>1, <3>2
      <4>2. GroupNo(kinds, x) \in Nat
        <5>1. x \in DOMAIN kinds
          BY <1>9, <3>2, RangeType
        <5> QED
          BY <1>21, <5>1, GroupStep
      <4>3. CASE gc = gb
        BY <1>3, <1>18, <4>1, <4>3
      <4>4. CASE gc # gb
        <5>1. gb + GroupWindowSize <= gc /\ GroupWindowSize \in Nat
          BY <1>16, <4>4, Sizes
        <5> QED
          BY <1>16, <4>1, <4>2, <5>1
      <4> QED
        BY <4>3, <4>4
    <3> QED
      BY <1>20, <3>1, <3>2
  <2>2. gc <= GroupNo(kinds, Len(kinds) + 1) - 1
    <3>1. GroupNo(kinds, Len(kinds) + 1) \in Nat
      <4>1. Len(kinds) + 1 \in Nat \ {0}
        BY <1>1, LenProperties DEF Types, TypeOK
      <4> QED
        BY <4>1, GroupStep
    <3> QED
      BY <1>6, <1>16, <3>1
  <2>3. kinds' = kinds
    BY <1>3
  <2> QED
    BY <1>17, <1>24, <2>1, <2>2, <2>3 DEF Groups
<1>26. /\ Numbers(last)' /\ IsQueue(kinds, held', last) /\ InTurn(inRel', held') = {}
       /\ kinds' = kinds /\ Sorted(kinds, waiting', last) /\ IsOutput(network', delivered', u)
  BY <1>2, <1>3, <1>12, <1>15 DEF Numbers, LastSent, u
<1>27. Record(last, gd, u)'
  BY <1>22, <1>23, <1>25, <1>26 DEF Record
<1> QED
  BY <1>27 DEF u

-----------------------------------------------------------------------------
(***************************************************************************)
(* What is handed over with a reliable command.                            *)
(***************************************************************************)

LEMMA GotIsAll ==
  ASSUME Types, Network, NEW h \in Incoming, NEW last, IsPart(kinds, h, last), Complete(h)
  PROVE  h.got = CommandsIn(network, Of(h)) /\ h.got \in Packets
<1>1. h.got \in Packets
  BY CompleteIsWhole
<1>2. PICK q \in DOMAIN kinds : h.got = Commands(q)
  BY <1>1 DEF Packets
<1>3. h.got # {} /\ \A c \in h.got : c.packet = Of(h)
  BY DEF IsPart
<1>4. \A c \in h.got : c.packet = q
  BY <1>2 DEF Commands
<1>5. q = Of(h)
  BY <1>3, <1>4
<1> QED
  BY <1>1, <1>2, <1>5 DEF Commands, CommandsIn

\* The packets that are taken from a queue.
PacketsTaken(taken) == [i \in DOMAIN taken |-> Of(taken[i])]

LEMMA TakenPackets ==
  ASSUME Types, Limits, NEW last \in Nat, NEW queue \in SUBSET Incoming, IsQueue(kinds, queue, last),
         NEW r, NEW t, IsTaken(r, queue, last, t)
  PROVE  LET s == PacketsTaken(r.taken)
         IN  /\ s \in Seq(DOMAIN kinds) /\ Len(s) = Len(r.taken) /\ Ordered(kinds, s)
             /\ \A y \in Range(s) : /\ kinds[y] \in {"reliable", "fragmented"}
                                    /\ last < Number(kinds, y) /\ Number(kinds, y) <= t
             /\ \A p \in DOMAIN kinds :
                  kinds[p] \in {"reliable", "fragmented"} /\ last < Number(kinds, p) /\ Number(kinds, p) <= t
                    => p \in Range(s)
<1> DEFINE n == Len(r.taken)
           s == PacketsTaken(r.taken)
<1>1. /\ r.taken \in Seq(queue) /\ n \in Nat /\ DOMAIN r.taken = 1 .. n
      /\ \A i \in 1 .. n : r.taken[i] \in queue /\ r.taken[i] \in Range(r.taken)
  <2>1. r.taken \in Seq(queue)
    BY DEF IsTaken
  <2>2. n \in Nat /\ DOMAIN r.taken = 1 .. n
    BY <2>1, LenProperties
  <2>3. \A i \in 1 .. n : r.taken[i] \in queue
    BY <2>1, ElementOfSeq
  <2> QED
    BY <2>1, <2>2, <2>3 DEF Range
<1>2. s = [i \in 1 .. n |-> Of(r.taken[i])]
  BY <1>1 DEF PacketsTaken
<1> HIDE DEF n, s
<1>3. \A h \in queue : Of(h) \in DOMAIN kinds /\ kinds[Of(h)] \in {"reliable", "fragmented"} /\ last < Number(kinds, Of(h))
  BY DEF IsQueue, IsPart
<1>4. \A h \in Range(r.taken) : h \in queue /\ Number(kinds, Of(h)) <= t
  <2>1. Range(r.taken) \subseteq queue
    BY <1>1, RangeType
  <2> QED
    BY <2>1 DEF IsTaken
<1>5. s \in [1 .. n -> DOMAIN kinds]
  BY <1>1, <1>2, <1>3
<1>6. s \in Seq(DOMAIN kinds) /\ Len(s) = n /\ DOMAIN s = 1 .. n
  BY <1>1, <1>5
<1>7. DOMAIN kinds \subseteq Nat \ {0}
  BY LenProperties DEF Types, TypeOK
<1>8. ASSUME NEW i \in 1 .. n, NEW j \in 1 .. n, i < j PROVE Precedes(kinds, s[i], s[j])
  <2>1. Number(kinds, s[i]) < Number(kinds, s[j])
    BY <1>1, <1>2, <1>8 DEF IsTaken, IsRun
  <2>2. s[i] \in Nat \ {0} /\ s[j] \in Nat \ {0}
    BY <1>5, <1>7
  <2>3. s[i] < s[j]
    BY <2>1, <2>2, NumberOrder
  <2> QED
    BY <2>2, <2>3 DEF Precedes
<1>9. Ordered(kinds, s)
  BY <1>6, <1>8 DEF Ordered
<1>10. ASSUME NEW y \in Range(s)
       PROVE  /\ kinds[y] \in {"reliable", "fragmented"}
              /\ last < Number(kinds, y) /\ Number(kinds, y) <= t
  <2>1. PICK i \in 1 .. n : y = Of(r.taken[i])
    BY <1>2, <1>6 DEF Range
  <2> QED
    BY <1>1, <1>3, <1>4, <2>1
<1>11. ASSUME NEW p \in DOMAIN kinds, kinds[p] \in {"reliable", "fragmented"},
              last < Number(kinds, p), Number(kinds, p) <= t
       PROVE  p \in Range(s)
  <2>1. PICK h \in Range(r.taken) : Of(h) = p
    BY <1>11 DEF IsTaken, IsRun, Numbered
  <2>2. PICK i \in 1 .. n : h = r.taken[i]
    BY <1>1 DEF Range
  <2>3. s[i] = p
    BY <1>2, <2>1, <2>2
  <2> QED
    BY <1>6, <2>3 DEF Range
<1> QED
  BY <1>6, <1>9, <1>10, <1>11 DEF s, n

\* The packets taken go after those handed over before.
LEMMA TakenGood ==
  ASSUME Types, Limits, NEW last \in Nat, NEW queue \in SUBSET Incoming, IsQueue(kinds, queue, last),
         NEW r, NEW t, IsTaken(r, queue, last, t), NEW out, Good(kinds, out, last)
  PROVE  Good(kinds, out \o PacketsTaken(r.taken), t)
<1> DEFINE s == PacketsTaken(r.taken)
<1>1. /\ s \in Seq(DOMAIN kinds) /\ Ordered(kinds, s)
      /\ \A y \in Range(s) : /\ kinds[y] \in {"reliable", "fragmented"}
                             /\ last < Number(kinds, y) /\ Number(kinds, y) <= t
      /\ \A p \in DOMAIN kinds :
           kinds[p] \in {"reliable", "fragmented"} /\ last < Number(kinds, p) /\ Number(kinds, p) <= t
             => p \in Range(s)
  BY TakenPackets
<1> HIDE DEF s
<1>2. DOMAIN kinds \subseteq Nat \ {0} /\ kinds \in Seq(Kinds \cup {"reliable"})
  BY LenProperties DEF Types, TypeOK
<1>3. t \in Nat /\ last <= t
  BY DEF IsTaken
<1>4. ASSUME NEW x \in Range(out), NEW y \in Range(s) PROVE Precedes(kinds, x, y)
  <2>1. x \in DOMAIN kinds /\ y \in DOMAIN kinds
    BY <1>1, RangeType DEF Good
  <2>2. Number(kinds, x) \in Nat /\ Number(kinds, y) \in Nat /\ x \in Nat \ {0} /\ y \in Nat \ {0}
    BY <1>2, <2>1, NumberType
  <2>3. kinds[y] \in {"reliable", "fragmented"} /\ last < Number(kinds, y)
    BY <1>1
  <2>4. kinds[x] \in {"reliable", "fragmented", "unreliable", "unsequenced"}
    <3>1. kinds[x] \in Kinds \cup {"reliable"}
      BY <1>2, <2>1, LenProperties, ElementOfSeq
    <3> QED
      BY <3>1, DeliveryAssumption
  <2>5. x # y
    <3>1. kinds[x] \in {"reliable", "fragmented"} => Number(kinds, x) <= last
      BY <2>1 DEF Good
    <3> QED
      BY <2>2, <2>3, <3>1
  <2>6. CASE kinds[x] = "unsequenced"
    BY <2>3, <2>5, <2>6 DEF Precedes
  <2>7. CASE kinds[x] # "unsequenced"
    <3>1. Number(kinds, x) <= last + 1
      BY <2>1, <2>2, <2>4, <2>7 DEF Good
    <3>2. Number(kinds, x) <= Number(kinds, y)
      BY <2>2, <2>3, <3>1
    <3>3. x < y
      BY <2>2, <2>3, <2>5, <3>2, NumberedLast
    <3> QED
      BY <2>5, <3>3 DEF Precedes
  <2> QED
    BY <2>6, <2>7
<1>5. \A p \in DOMAIN kinds : kinds[p] \in {"reliable", "fragmented"} =>
        (p \in Range(s) <=> last < Number(kinds, p) /\ Number(kinds, p) <= t)
  BY <1>1
<1>6. \A y \in Range(s) : kinds[y] = "unreliable" => Number(kinds, y) <= t + 1
  BY <1>1
<1>7. Good(kinds, out \o s, t)
  BY <1>1, <1>2, <1>3, <1>4, <1>5, <1>6, GoodMore
<1> QED
  BY <1>7 DEF s

\* The unreliable packets due follow number t.
LEMMA DueFollow ==
  ASSUME Types, Network, OneLap, Len(kinds) <= MaxPackets, Unreliables,
         NEW last \in Nat, Numbers(last), waiting \in Seq(Loose), Sorted(kinds, waiting, last),
         NEW t \in Nat, last <= t, t <= LastSent
  PROVE  LET k == DueLength(t % Space, waiting)
         IN  /\ k \in 0 .. Len(waiting)
             /\ \A i \in 1 .. k : /\ waiting[i] \in network /\ waiting[i].kind = "unreliable"
                                  /\ kinds[waiting[i].packet] = "unreliable"
                                  /\ Commands(waiting[i].packet) = {waiting[i]}
                                  /\ Number(kinds, waiting[i].packet) = t + 1
             /\ \A i, j \in 1 .. k : i < j => waiting[i].packet < waiting[j].packet
<1> DEFINE k == DueLength(t % Space, waiting)
<1>1. k \in 0 .. Len(waiting) /\ Len(waiting) \in Nat /\ DOMAIN waiting = 1 .. Len(waiting)
  BY DueIsDue, LenProperties
<1>2. \A i \in 1 .. k : i \in DOMAIN waiting /\ waiting[i] \in network /\ waiting[i].kind = "unreliable"
  <2>1. \A i \in 1 .. k : i \in 1 .. Len(waiting)
    BY <1>1
  <2> HIDE DEF k
  <2>2. \A i \in 1 .. Len(waiting) : waiting[i] \in Loose /\ waiting[i].kind = "unreliable"
    BY <1>1, ElementOfSeq DEF Sorted
  <2> QED
    BY <1>1, <2>1, <2>2 DEF Loose
<1>3. \A i \in 1 .. k : waiting[i].rel = t % Space
  BY <1>2, DuePrefix
<1>4. /\ Before \in Nat /\ Before <= last /\ last <= LastSent /\ LastSent \in Nat
      /\ LastSent - Before < Space /\ Space \in Nat \ {0}
  BY LastWithinLap
<1> HIDE DEF k
<1>5. ASSUME NEW i \in 1 .. k
      PROVE  /\ kinds[waiting[i].packet] = "unreliable" /\ Commands(waiting[i].packet) = {waiting[i]}
             /\ Number(kinds, waiting[i].packet) = t + 1
  <2> DEFINE p == waiting[i].packet
             n == Number(kinds, p) - 1
  <2>1. /\ p \in Nat \ {0} /\ kinds[p] = "unreliable" /\ Commands(p) = {waiting[i]}
        /\ waiting[i].rel = n % Space /\ n \in Nat /\ Before <= n /\ n <= LastSent
    BY <1>2, UnreliableCommand
  <2>2. waiting[i].rel = t % Space
    BY <1>3
  <2> HIDE DEF p
  <2>3. Number(kinds, p) \in Nat
    BY <2>1, NumberType
  <2>4. n = Number(kinds, p) - 1
    OBVIOUS
  <2> HIDE DEF n
  <2>5. n - t < Space /\ t - n < Space
    BY <1>4, <2>1
  <2>6. n = t
    BY <1>4, <2>1, <2>2, <2>5, CutUnique
  <2> QED
    BY <2>1, <2>3, <2>4, <2>6 DEF p
<1>6. ASSUME NEW i \in 1 .. k, NEW j \in 1 .. k, i < j PROVE waiting[i].packet < waiting[j].packet
  <2>1. last < t + 1
    OBVIOUS
  <2>2. Number(kinds, waiting[i].packet) = t + 1 /\ Number(kinds, waiting[j].packet) = t + 1
    BY <1>5
  <2> QED
    BY <1>2, <1>6, <2>1, <2>2 DEF Sorted
<1> QED
  BY <1>1, <1>2, <1>5, <1>6 DEF k

LEMMA DueGood ==
  ASSUME Types, Network, OneLap, Len(kinds) <= MaxPackets, Unreliables,
         NEW last \in Nat, Numbers(last), waiting \in Seq(Loose), Sorted(kinds, waiting, last),
         NEW t \in Nat, last < t, t <= LastSent,
         NEW out, Good(kinds, out, t), \A x \in Range(out) : kinds[x] = "unreliable" => Number(kinds, x) <= last + 1
  PROVE  LET s == First(DueLength(t % Space, waiting), waiting)
         IN  /\ s \in Seq(DOMAIN kinds) /\ Good(kinds, out \o s, t)
             /\ \A y \in Range(s) : kinds[y] = "unreliable"
<1> DEFINE k == DueLength(t % Space, waiting)
           s == First(k, waiting)
<1>1. /\ k \in 0 .. Len(waiting)
      /\ \A i \in 1 .. k : /\ waiting[i] \in network /\ waiting[i].kind = "unreliable"
                           /\ kinds[waiting[i].packet] = "unreliable"
                           /\ Commands(waiting[i].packet) = {waiting[i]}
                           /\ Number(kinds, waiting[i].packet) = t + 1
      /\ \A i, j \in 1 .. k : i < j => waiting[i].packet < waiting[j].packet
  <2>1. last <= t
    OBVIOUS
  <2> QED
    BY <2>1, DueFollow
<1> HIDE DEF k
<1>2. s \in Seq(DOMAIN kinds) /\ k \in Nat
  <2>1. \A c \in Loose : c.packet \in DOMAIN kinds
    BY LooseCommand DEF Loose
  <2> QED
    BY <1>1, <2>1, FirstPackets
<1>3. /\ DOMAIN s = 1 .. k /\ \A i \in 1 .. k : s[i] = waiting[i].packet
      /\ Range(s) = {waiting[i].packet : i \in 1 .. k}
  BY <1>2, FirstIs
<1> HIDE DEF s
<1>4. DOMAIN kinds \subseteq Nat \ {0} /\ kinds \in Seq(Kinds \cup {"reliable"})
  BY LenProperties DEF Types, TypeOK
<1>5. \A y \in Range(s) : y \in DOMAIN kinds /\ kinds[y] = "unreliable" /\ Number(kinds, y) = t + 1
  <2>1. \A y \in Range(s) : y \in DOMAIN kinds
    BY <1>2, RangeType
  <2> QED
    BY <1>1, <1>3, <2>1
<1>6. Ordered(kinds, s)
  <2> SUFFICES ASSUME NEW i \in 1 .. k, NEW j \in 1 .. k, i < j PROVE Precedes(kinds, s[i], s[j])
    BY <1>3 DEF Ordered
  <2>1. s[i] < s[j]
    BY <1>1, <1>3
  <2>2. s[i] \in Nat /\ s[j] \in Nat
    BY <1>3, <1>4, <1>5
  <2> QED
    BY <2>1, <2>2 DEF Precedes
<1>7. ASSUME NEW x \in Range(out), NEW y \in Range(s) PROVE Precedes(kinds, x, y)
  <2>1. x \in DOMAIN kinds /\ y \in DOMAIN kinds /\ kinds[y] = "unreliable" /\ Number(kinds, y) = t + 1
    BY <1>5, RangeType DEF Good
  <2>2. Number(kinds, x) \in Nat /\ x \in Nat \ {0} /\ y \in Nat \ {0}
    BY <1>4, <2>1, NumberType
  <2>3. kinds[x] \in {"reliable", "fragmented", "unreliable", "unsequenced"}
    <3>1. kinds[x] \in Kinds \cup {"reliable"}
      BY <1>4, <2>1, LenProperties, ElementOfSeq
    <3> QED
      BY <3>1, DeliveryAssumption
  <2>4. CASE kinds[x] = "unsequenced"
    BY <2>1, <2>4 DEF Precedes
  <2>5. CASE kinds[x] # "unsequenced"
    <3>1. Number(kinds, x) <= t
      <4>1. CASE kinds[x] \in {"reliable", "fragmented"}
        BY <2>1, <4>1 DEF Good
      <4>2. CASE kinds[x] = "unreliable"
        <5>1. Number(kinds, x) <= last + 1
          BY <4>2
        <5> QED
          BY <2>2, <5>1
      <4> QED
        BY <2>3, <2>5, <4>1, <4>2
    <3>2. Number(kinds, x) < Number(kinds, y)
      BY <2>1, <2>2, <3>1
    <3>3. x < y
      BY <2>2, <3>2, NumberOrder
    <3> QED
      BY <2>2, <3>3 DEF Precedes
  <2> QED
    BY <2>4, <2>5
<1>8. \A p \in DOMAIN kinds : kinds[p] \in {"reliable", "fragmented"} =>
        (p \in Range(s) <=> t < Number(kinds, p) /\ Number(kinds, p) <= t)
  <2> SUFFICES ASSUME NEW p \in DOMAIN kinds, kinds[p] \in {"reliable", "fragmented"}
               PROVE  p \notin Range(s) /\ ~(t < Number(kinds, p) /\ Number(kinds, p) <= t)
    OBVIOUS
  <2>1. Number(kinds, p) \in Nat
    BY <1>4, NumberType
  <2> QED
    BY <1>5, <2>1
<1>9. \A y \in Range(s) : kinds[y] = "unreliable" => Number(kinds, y) <= t + 1
  BY <1>5
<1>10. Good(kinds, out \o s, t)
  <2>1. t <= t
    OBVIOUS
  <2> QED
    BY <1>2, <1>4, <1>6, <1>7, <1>8, <1>9, <2>1, GoodMore
<1> QED
  BY <1>2, <1>5, <1>10 DEF s, k

\* What a dispatch of the reliable queue hands over.
LEMMA DispatchRecord ==
  ASSUME Limits, OneLap, Inv, Len(kinds) <= MaxPackets, Unreliables,
         NEW last \in Nat, NEW gb \in Nat, NEW out, Record(last, gb, out),
         NEW queue \in SUBSET Incoming, IsFiniteSet(queue), IsQueue(kinds, queue, last),
         UNCHANGED <<senderVars, groupVars>>, DispatchReliable(queue)
  PROVE  \E t \in Nat : /\ \E more \in Seq(DOMAIN kinds) : Record(t, gb, out \o more)'
                       /\ held' = {h \in queue : ~(Number(kinds, Of(h)) <= t)}
<1> DEFINE r == InSequence(inRel, queue)
           before == [i \in DOMAIN r.taken |-> r.taken[i].got]
           e == PacketsTaken(r.taken)
           k == DueLength(r.last, waiting)
           f == First(k, waiting)
<1>1. /\ Types /\ Network /\ waiting \in Seq(Loose) /\ delivered \in Seq(Packets)
      /\ DueLength(inRel, waiting) = 0
  BY DEF Inv, NothingHeldBack
<1>2. /\ Numbers(last) /\ IsQueue(kinds, held, last) /\ InTurn(inRel, held) = {}
      /\ IsOutput(network, delivered, out) /\ Good(kinds, out, last)
      /\ Heard(out, last) /\ Groups(out, gb) /\ Sorted(kinds, waiting, last)
  BY DEF Record
<1>3. /\ held' = queue \ Range(r.taken) /\ inRel' = r.last
      /\ IF r.taken = <<>> THEN UNCHANGED <<delivered, waiting, inUnrel>>
                           ELSE DispatchUnreliable(waiting, before, r.last, 0)
      /\ UNCHANGED <<kinds, network, outRel, groupVars, senderVars>>
  BY DEF DispatchReliable, senderVars
<1>4. (\E t : IsTaken(r, queue, last, t)) /\ InTurn(r.last, queue \ Range(r.taken)) = {}
  BY <1>1, <1>2, Taken
<1>5. r.taken = <<>> => r.last = inRel
  <2>1. inRel \in 0 .. Space - 1 /\ \A h \in queue : h.count \in Nat
    BY <1>1, Sizes DEF Types, TypeOK, Incoming
  <2> QED
    BY <2>1, InSequenceTypes
<1> HIDE DEF r
<1>6. PICK t : IsTaken(r, queue, last, t)
  BY <1>4
<1>7. /\ t \in Nat /\ r.last = t % Space /\ last <= t /\ t <= LastSent
      /\ r.taken \in Seq(queue) /\ \A h \in Range(r.taken) : Complete(h)
  BY <1>6 DEF IsTaken
<1>8. Numbers(t)' /\ IsQueue(kinds, held', t)
  BY <1>1, <1>2, <1>3, <1>6, DispatchNumbers
<1>9. InTurn(inRel', held') = {}
  BY <1>3, <1>4
<1>10. out \in Seq(DOMAIN kinds)
  BY <1>2 DEF Good
<1>11. held' = {h \in queue : ~(Number(kinds, Of(h)) <= t)}
  BY <1>3, <1>6 DEF IsTaken
<1>12. CASE r.taken = <<>>
  <2>1. t = last
    <3>1. /\ LastSent \in Nat /\ LastSent - Before < Space /\ Space \in Nat \ {0}
          /\ Before \in Nat /\ Before <= last
      BY <1>1, <1>2, LastWithinLap
    <3>2. t % Space = last % Space
      BY <1>2, <1>5, <1>7, <1>12 DEF Numbers
    <3>3. t - last < Space /\ last - t < Space
      BY <1>7, <3>1
    <3> QED
      BY <1>7, <3>1, <3>2, <3>3, CutUnique
  <2>2. UNCHANGED <<delivered, waiting, inUnrel>>
    BY <1>3, <1>12
  <2>3. Heard(out, last)' /\ Groups(out, gb)'
    BY <1>2, <1>3, <2>2 DEF Heard, Groups, groupVars
  <2>4. /\ IsOutput(network', delivered', out) /\ Good(kinds', out, last)
        /\ Sorted(kinds', waiting', last) /\ IsQueue(kinds', held', last)
    BY <1>2, <1>3, <1>8, <2>1, <2>2
  <2>5. Record(last, gb, out)'
    BY <1>8, <1>9, <2>1, <2>3, <2>4 DEF Record
  <2>6. out \o <<>> = out /\ <<>> \in Seq(DOMAIN kinds)
    BY <1>10, ConcatEmptySeq, EmptySeq
  <2> QED
    BY <1>11, <2>1, <2>5, <2>6
<1>13. CASE r.taken # <<>>
  <2>1. /\ e \in Seq(DOMAIN kinds) /\ Len(e) = Len(r.taken)
        /\ \A y \in Range(e) : /\ kinds[y] \in {"reliable", "fragmented"}
                               /\ last < Number(kinds, y) /\ Number(kinds, y) <= t
    BY <1>1, <1>6, TakenPackets
  <2>2. Good(kinds, out \o e, t)
    BY <1>1, <1>2, <1>6, TakenGood
  <2>3. Len(r.taken) \in Nat \ {0} /\ DOMAIN r.taken = 1 .. Len(r.taken)
    BY <1>7, <1>13, EmptySeq, LenProperties
  <2>4. \A i \in 1 .. Len(r.taken) : r.taken[i].got = CommandsIn(network, Of(r.taken[i])) /\ r.taken[i].got \in Packets
    <3> SUFFICES ASSUME NEW i \in 1 .. Len(r.taken)
                 PROVE  r.taken[i].got = CommandsIn(network, Of(r.taken[i])) /\ r.taken[i].got \in Packets
      OBVIOUS
    <3>1. r.taken[i] \in queue /\ r.taken[i] \in Range(r.taken)
      BY <1>7, <2>3, ElementOfSeq DEF Range
    <3>2. r.taken[i] \in Incoming /\ IsPart(kinds, r.taken[i], last) /\ Complete(r.taken[i])
      BY <1>7, <3>1 DEF IsQueue
    <3> QED
      BY <1>1, <3>2, GotIsAll
  <2>5. before \in Seq(Packets) /\ Len(before) = Len(r.taken) /\ \A i \in 1 .. Len(r.taken) : before[i] = r.taken[i].got
    BY <2>3, <2>4
  <2>6. \A i \in 1 .. Len(r.taken) : e[i] = Of(r.taken[i])
    BY <2>3 DEF PacketsTaken
  <2> HIDE DEF before, e
  <2>7. IsOutput(network, before, e)
    BY <2>1, <2>4, <2>5, <2>6 DEF IsOutput
  <2>8. last < t
    <3>1. e[1] \in Range(e) /\ e[1] \in DOMAIN kinds
      <4>1. 1 \in 1 .. Len(e)
        BY <2>1, <2>3
      <4> QED
        BY <2>1, <4>1, LenProperties, ElementOfSeq DEF Range
    <3>2. Number(kinds, e[1]) \in Nat
      BY <1>1, <3>1, NumberSent
    <3> QED
      BY <1>7, <2>1, <3>1, <3>2
  <2>9. \A x \in Range(out \o e) : kinds[x] = "unreliable" => x \in Range(out) /\ Number(kinds, x) <= last + 1
    <3>1. Range(out \o e) = Range(out) \cup Range(e)
      BY <1>10, <2>1, ConcatRange
    <3> QED
      BY <1>2, <2>1, <3>1 DEF Good
  <2>10. f \in Seq(DOMAIN kinds) /\ Good(kinds, (out \o e) \o f, t) /\ \A y \in Range(f) : kinds[y] = "unreliable"
    <3> DEFINE o == out \o e
    <3>1. Good(kinds, o, t) /\ \A x \in Range(o) : kinds[x] = "unreliable" => Number(kinds, x) <= last + 1
      BY <2>2, <2>9
    <3> HIDE DEF o
    <3>2. LET s == First(DueLength(t % Space, waiting), waiting)
          IN  /\ s \in Seq(DOMAIN kinds) /\ Good(kinds, o \o s, t)
              /\ \A y \in Range(s) : kinds[y] = "unreliable"
      BY <1>1, <1>2, <1>7, <2>8, <3>1, DueGood
    <3> QED
      BY <1>7, <3>2 DEF o
  <2>11. DispatchUnreliable(waiting, before, r.last, 0)
    BY <1>3, <1>13 DEF before
  <2>12. k \in 0 .. Len(waiting) /\ IsOutput(network', delivered', (out \o e) \o f)
    BY <1>1, <1>2, <1>3, <1>10, <2>1, <2>5, <2>7, <2>11, HandOver
  <2>13. waiting' = SubSeq(waiting, k + 1, Len(waiting)) /\ inUnrel' = LastUnreliable(waiting, k, 0)
    BY <2>11 DEF DispatchUnreliable
  <2>14. /\ \A i \in 1 .. k : /\ waiting[i] \in network /\ waiting[i].kind = "unreliable"
                              /\ Commands(waiting[i].packet) = {waiting[i]}
                              /\ Number(kinds, waiting[i].packet) = t + 1
         /\ \A i, j \in 1 .. k : i < j => waiting[i].packet < waiting[j].packet
    BY <1>1, <1>2, <1>7, DueFollow
  <2>15. Range(f) = {waiting[i].packet : i \in 1 .. k} /\ k \in Nat /\ Len(waiting) \in Nat
    <3>1. k \in Nat /\ Len(waiting) \in Nat
      BY <1>1, <2>12, LenProperties
    <3> HIDE DEF k
    <3> QED
      BY <3>1, FirstIs
  <2> HIDE DEF k, f
  <2>16. Sorted(kinds, waiting', t)
    <3> DEFINE w == SubSeq(waiting, k + 1, Len(waiting))
               n == Len(waiting)
    <3>1. \A i \in 1 .. n : waiting[i] \in Loose /\ waiting[i].kind = "unreliable"
      BY <1>1, <1>2, LenProperties, ElementOfSeq DEF Sorted
    <3>2. \A i \in k + 1 .. n : waiting[i] \in Loose
      BY <2>12, <2>15, <3>1
    <3>3. /\ w \in Seq(Loose) /\ Len(w) = (IF k + 1 <= n THEN n - (k + 1) + 1 ELSE 0)
          /\ \A i \in 1 .. n - (k + 1) + 1 : w[i] = waiting[(k + 1) + i - 1]
      BY <2>12, <2>15, <3>2, SubSeqProperties
    <3> HIDE DEF w, n
    <3>4. n \in Nat /\ DOMAIN waiting = 1 .. n
      BY <1>1, LenProperties DEF n
    <3>5. Len(w) = n - k
      <4>1. k \in Nat /\ k <= n
        BY <2>12, <2>15, <3>4 DEF n
      <4> QED
        BY <3>3, <3>4, <4>1
    <3>6. DOMAIN w = 1 .. n - k
      BY <3>3, <3>5, LenProperties
    <3>7. \A i \in 1 .. n - k : w[i] = waiting[k + i] /\ k + i \in 1 .. n
      BY <2>15, <3>3, <3>4
    <3>8. ASSUME NEW i \in 1 .. n - k, NEW j \in 1 .. n - k, i < j,
                 t < Number(kinds, w[i].packet), t < Number(kinds, w[j].packet)
          PROVE  w[i].packet < w[j].packet
      <4> DEFINE a == k + i
                 b == k + j
      <4>1. a \in 1 .. n /\ b \in 1 .. n /\ a < b /\ w[i] = waiting[a] /\ w[j] = waiting[b]
        BY <2>15, <3>7, <3>8, SMTT(30)
      <4> HIDE DEF a, b
      <4>2. Number(kinds, w[i].packet) \in Nat /\ Number(kinds, w[j].packet) \in Nat
        <5>1. w[i] \in network /\ w[j] \in network /\ w[i].kind = "unreliable" /\ w[j].kind = "unreliable"
          BY <3>1, <4>1 DEF Loose
        <5>2. w[i].packet \in Nat \ {0} /\ w[j].packet \in Nat \ {0}
          BY <1>1, <5>1, UnreliableCommand
        <5> QED
          BY <5>2, NumberType
      <4>3. last < Number(kinds, w[i].packet) /\ last < Number(kinds, w[j].packet)
        BY <1>7, <3>8, <4>2
      <4> QED
        BY <1>2, <3>4, <4>1, <4>3 DEF Sorted
    <3>9. \A i \in 1 .. n - k : w[i].kind = "unreliable"
      BY <3>1, <3>7
    <3>10. waiting' = w
      BY <2>13 DEF w
    <3> QED
      BY <3>6, <3>8, <3>9, <3>10 DEF Sorted
  <2>17. PICK s \in Seq(DOMAIN kinds) : s = e \o f
    BY <2>1, <2>10, ConcatProperties
  <2>18. (out \o e) \o f = out \o s /\ Range(s) = Range(e) \cup Range(f)
    <3>1. (out \o e) \o f = out \o (e \o f)
      <4> DEFINE D == DOMAIN kinds
      <4>1. out \in Seq(D) /\ e \in Seq(D) /\ f \in Seq(D)
        BY <1>10, <2>1, <2>10
      <4> HIDE DEF D
      <4> QED
        BY <4>1, SMT
    <3>2. Range(e \o f) = Range(e) \cup Range(f)
      BY <2>1, <2>10, ConcatRange
    <3> QED
      BY <2>17, <3>1, <3>2
  <2> DEFINE u == out \o s
  <2>19. Good(kinds, u, t) /\ IsOutput(network', delivered', u)
    BY <2>10, <2>12, <2>18
  <2>20. Range(u) = Range(out) \cup Range(s)
    BY <1>10, ConcatRange
  <2>21. Groups(u, gb)'
    <3>1. \A y \in Range(s) : kinds[y] # "unsequenced"
      BY <2>1, <2>10, <2>18
    <3> QED
      BY <1>2, <1>3, <1>10, <3>1, GroupsKept
  <2> HIDE DEF u
  <2>22. ASSUME NEW d \in network, d.kind = "unreliable", d.packet \in Range(u),
                Number(kinds, d.packet) = t + 1
         PROVE  d.minor <= inUnrel'
    <3>1. kinds[d.packet] = "unreliable" /\ Commands(d.packet) = {d}
      BY <1>1, <2>22, LooseCommand
    <3>2. d.packet \notin Range(out)
      BY <1>2, <1>7, <2>8, <2>22, <3>1 DEF Good
    <3>3. d.packet \in Range(f)
      BY <2>1, <2>18, <2>20, <2>22, <3>1, <3>2
    <3>4. PICK i \in 1 .. k : d.packet = waiting[i].packet
      BY <2>15, <3>3
    <3>5. d = waiting[i]
      BY <2>14, <3>1, <3>4
    <3>6. k # 0 /\ k \in 1 .. k
      BY <2>15
    <3>7. inUnrel' = waiting[k].minor
      <4>1. LastUnreliable(waiting, k, 0) = IF k = 0 THEN 0 ELSE waiting[k].minor
        BY <1>1, <2>12, <2>14, LastUnreliableIs
      <4> QED
        BY <2>13, <3>6, <4>1
    <3>8. CASE i = k
      <4>1. d.minor \in Nat
        BY <1>1, <2>22, Sizes DEF Types, Minors
      <4> QED
        BY <3>5, <3>7, <3>8, <4>1
    <3>9. CASE i # k
      <4>1. i < k
        BY <2>15, <3>9
      <4>2. waiting[i].packet < waiting[k].packet /\ Number(kinds, waiting[i].packet) = Number(kinds, waiting[k].packet)
        BY <2>14, <3>6, <4>1
      <4>3. waiting[k] \in network /\ waiting[k].kind = "unreliable"
        BY <2>14, <3>6
      <4>4. d.minor < waiting[k].minor
        BY <2>22, <3>5, <4>2, <4>3 DEF Unreliables
      <4>5. d.minor \in Nat /\ waiting[k].minor \in Nat
        BY <1>1, <2>22, <4>3, Sizes DEF Types, Minors
      <4> QED
        BY <3>7, <4>4, <4>5
    <3> QED
      BY <3>8, <3>9
  <2>23. Heard(u, t)'
    BY <1>3, <2>22 DEF Heard
  <2>24. /\ Good(kinds', u, t) /\ Sorted(kinds', waiting', t) /\ IsQueue(kinds', held', t)
    BY <1>3, <1>8, <2>16, <2>19
  <2>25. Record(t, gb, u)'
    BY <1>8, <1>9, <2>19, <2>21, <2>23, <2>24 DEF Record
  <2> QED
    BY <1>7, <1>11, <2>25 DEF u
<1> QED
  BY <1>12, <1>13

\* What a packet changes that is sent.
LEMMA SendNew ==
  ASSUME NEW kind \in Kinds, Send(kind)
  PROVE  \E becomes \in {"reliable", "fragmented", "unreliable", "unsequenced"} :
           /\ Len(kinds) < MaxPackets /\ kinds' = Append(kinds, becomes)
           /\ \A c \in network' : c \in network \/
                /\ c.packet = This
                /\ c.kind = "unreliable" => becomes = "unreliable" /\ c.rel = outRel /\ c.minor = outUnrel'
                /\ c.kind = "unsequenced" => becomes = "unsequenced" /\ c.minor = outGroup'
           /\ network \subseteq network'
           /\ becomes = "unreliable" => outUnrel' = outUnrel + 1
           /\ becomes = "unsequenced" => outUnrel' = outUnrel /\ outGroup' = (outGroup + 1) % GroupSpace
           /\ becomes # "unsequenced" => outGroup' = outGroup
           /\ UNCHANGED <<inRel, inUnrel, held, waiting, delivered, groupBase, groupsSeen>>
<1>1. PICK becomes \in Kinds \cup {"reliable"} :
           /\ Len(kinds) < MaxPackets /\ kinds' = Append(kinds, becomes)
           /\ \/ becomes = "reliable" /\ SendReliable
              \/ becomes = "fragmented" /\ SendFragments
              \/ becomes = "unreliable" /\ SendUnreliable /\ ~(outUnrel >= UnreliableLimit)
              \/ becomes = "unsequenced" /\ SendUnsequenced
           /\ UNCHANGED <<inUnrel, waiting, delivered, reliableVars, groupVars>>
  BY SendCases
<1>2. UNCHANGED <<inRel, inUnrel, held, waiting, delivered, groupBase, groupsSeen>>
  BY <1>1 DEF reliableVars, groupVars
<1>3. CASE becomes = "reliable" /\ SendReliable
  <2>1. outGroup' = outGroup
    BY <1>3 DEF SendReliable, QueueReliable
  <2>2. network' = network \cup {[kind |-> "reliable", packet |-> This, rel |-> outRel', minor |-> 0, count |-> 0]}
    BY <1>3 DEF SendReliable, Put
  <2> QED
    BY <1>1, <1>2, <1>3, <2>1, <2>2
<1>4. CASE becomes = "fragmented" /\ SendFragments
  <2>1. outGroup' = outGroup
    BY <1>4 DEF SendFragments, QueueReliable
  <2>2. network' = network \cup {[kind |-> "fragment", packet |-> This, rel |-> (outRel + 1) % Space, minor |-> i,
                                  count |-> Fragments] : i \in 0 .. Fragments - 1}
    BY <1>4 DEF SendFragments, Put
  <2>3. ASSUME NEW c \in network', c \notin network PROVE c.packet = This /\ c.kind = "fragment"
    <3>1. PICK i \in 0 .. Fragments - 1 :
            c = [kind |-> "fragment", packet |-> This, rel |-> (outRel + 1) % Space, minor |-> i, count |-> Fragments]
      BY <2>2, <2>3
    <3> QED
      BY <3>1
  <2> QED
    BY <1>1, <1>2, <1>4, <2>1, <2>2, <2>3
<1>5. CASE becomes = "unreliable" /\ SendUnreliable
  <2>1. network' = network \cup {[kind |-> "unreliable", packet |-> This, rel |-> outRel, minor |-> outUnrel', count |-> 0]}
    BY <1>5 DEF SendUnreliable, Put
  <2>2. outUnrel' = outUnrel + 1 /\ outGroup' = outGroup
    BY <1>5 DEF SendUnreliable
  <2> QED
    BY <1>1, <1>2, <1>5, <2>1, <2>2
<1>6. CASE becomes = "unsequenced" /\ SendUnsequenced
  <2>1. network' = network \cup {[kind |-> "unsequenced", packet |-> This, rel |-> 0, minor |-> outGroup', count |-> 0]}
    BY <1>6 DEF SendUnsequenced, Put
  <2>2. outUnrel' = outUnrel /\ outGroup' = (outGroup + 1) % GroupSpace
    BY <1>6 DEF SendUnsequenced
  <2> QED
    BY <1>1, <1>2, <1>6, <2>1, <2>2
<1> QED
  BY <1>1, <1>3, <1>4, <1>5, <1>6

\* The groups of the packets sent before stay what they are.
LEMMA GroupKept ==
  ASSUME Types, NEW kind, kinds' = Append(kinds, kind)
  PROVE  \A p \in 1 .. Len(kinds) + 1 : GroupNo(kinds', p) = GroupNo(kinds, p)
<1>1. Len(kinds) \in Nat
  BY LenProperties DEF Types, TypeOK
<1>2. \A p \in DOMAIN kinds : kinds'[p] = kinds[p]
  BY NumberKept
<1> SUFFICES ASSUME NEW p \in 1 .. Len(kinds) + 1
             PROVE  GroupNo(kinds', p) = GroupNo(kinds, p)
  OBVIOUS
<1>3. \A q \in 1 .. p - 1 : q \in DOMAIN kinds
  BY <1>1, LenProperties DEF Types, TypeOK
<1>4. Earlier(kinds', p, "unsequenced") = Earlier(kinds, p, "unsequenced")
  BY <1>2, <1>3 DEF Earlier
<1> QED
  BY <1>4 DEF GroupNo

LEMMA SendRecord ==
  ASSUME Limits, OneLap, Inv, Len(kinds) <= MaxPackets, Unreliables, Unsequenceds,
         NEW last \in Nat, NEW gb \in Nat, NEW out, Record(last, gb, out),
         NEW kind \in Kinds, Send(kind)
  PROVE  Record(last, gb, out)' /\ Unreliables' /\ Unsequenceds' /\ Len(kinds') <= MaxPackets
<1>1. Types /\ Network /\ waiting \in Seq(Loose)
  BY DEF Inv
<1>2. /\ Numbers(last) /\ IsQueue(kinds, held, last) /\ InTurn(inRel, held) = {}
      /\ IsOutput(network, delivered, out) /\ Good(kinds, out, last)
      /\ Heard(out, last) /\ Groups(out, gb) /\ Sorted(kinds, waiting, last)
  BY DEF Record
<1>3. PICK becomes \in {"reliable", "fragmented", "unreliable", "unsequenced"} :
           /\ Len(kinds) < MaxPackets /\ kinds' = Append(kinds, becomes)
           /\ \A c \in network' : c \in network \/
                /\ c.packet = This
                /\ c.kind = "unreliable" => becomes = "unreliable" /\ c.rel = outRel /\ c.minor = outUnrel'
                /\ c.kind = "unsequenced" => becomes = "unsequenced" /\ c.minor = outGroup'
           /\ network \subseteq network'
           /\ becomes = "unreliable" => outUnrel' = outUnrel + 1
           /\ becomes = "unsequenced" => outUnrel' = outUnrel /\ outGroup' = (outGroup + 1) % GroupSpace
           /\ becomes # "unsequenced" => outGroup' = outGroup
           /\ UNCHANGED <<inRel, inUnrel, held, waiting, delivered, groupBase, groupsSeen>>
  BY SendNew
<1>4. /\ Len(kinds') = Len(kinds) + 1 /\ DOMAIN kinds' = 1 .. Len(kinds) + 1
      /\ \A p \in DOMAIN kinds : kinds'[p] = kinds[p]
      /\ kinds'[Len(kinds) + 1] = becomes
      /\ \A p \in 1 .. Len(kinds) + 1 : Number(kinds', p) = Number(kinds, p)
      /\ LastSent' = LastSent + Size(becomes) /\ LastSent \in Nat
  BY <1>1, <1>3, NumberKept
<1>5. \A p \in 1 .. Len(kinds) + 1 : GroupNo(kinds', p) = GroupNo(kinds, p)
  BY <1>1, <1>3, GroupKept
<1>6. /\ Len(kinds) \in Nat /\ DOMAIN kinds = 1 .. Len(kinds) /\ This = Len(kinds) + 1
      /\ This \in Nat \ {0} /\ This \notin DOMAIN kinds
  BY <1>1, LenProperties DEF Types, TypeOK, This
<1>7. Number(kinds', This) = LastSent + 1 /\ GroupNo(kinds', This) = GroupNo(kinds, This)
  BY <1>4, <1>5, <1>6, NumberType DEF LastSent
<1>8. \A p \in DOMAIN kinds : /\ p \in DOMAIN kinds' /\ kinds'[p] = kinds[p] /\ p < This
                              /\ Number(kinds', p) = Number(kinds, p)
                              /\ GroupNo(kinds', p) = GroupNo(kinds, p)
  BY <1>4, <1>5, <1>6
<1>9. \A c \in network : c.packet \in DOMAIN kinds
  BY <1>1 DEF Network
<1>10. out \in Seq(DOMAIN kinds) /\ Range(out) \subseteq DOMAIN kinds
  BY <1>2, RangeType DEF Good
<1>11. ASSUME NEW p \in DOMAIN kinds PROVE CommandsIn(network', p) = CommandsIn(network, p)
  BY <1>3, <1>6, <1>8 DEF CommandsIn
<1>12. Types' /\ Network'
  BY SendKeeps DEF Inv
<1>13. outUnrel \in Nat /\ outUnrel' \in Nat /\ \A c \in network : c.kind = "unreliable" => c.minor \in Nat
  BY <1>1, <1>12, Sizes, SMTT(30) DEF Types, TypeOK, Minors
<1>14. Unreliables'
  <2>1. ASSUME NEW c \in network', c.kind = "unreliable", c \in network
        PROVE  /\ c.rel = (Number(kinds', c.packet) - 1) % Space
               /\ Number(kinds', c.packet) = LastSent' + 1 => c.minor <= outUnrel'
               /\ \A d \in network' : d.kind = "unreliable" /\ c.packet < d.packet
                                        /\ Number(kinds', c.packet) = Number(kinds', d.packet) => c.minor < d.minor
    <3>1. /\ c.packet \in DOMAIN kinds /\ Number(kinds', c.packet) = Number(kinds, c.packet)
          /\ c.rel = (Number(kinds, c.packet) - 1) % Space
          /\ Number(kinds, c.packet) = LastSent + 1 => c.minor <= outUnrel
          /\ c.minor \in Nat
      BY <1>8, <1>9, <1>13, <2>1 DEF Unreliables
    <3>2. ASSUME Number(kinds', c.packet) = LastSent' + 1 PROVE c.minor <= outUnrel'
      <4>1. Number(kinds, c.packet) \in Nat /\ Number(kinds, c.packet) + Size(kinds[c.packet]) - 1 <= LastSent
        BY <1>1, <3>1, NumberSent
      <4>2. Size(kinds[c.packet]) \in Nat /\ Size(becomes) \in Nat
        BY SizeType, Sizes
      <4>3. Number(kinds, c.packet) = LastSent + 1 /\ Size(becomes) = 0
        BY <1>4, <3>1, <3>2, <4>1, <4>2, SMTT(30)
      <4>4. becomes \notin {"reliable", "fragmented"}
        BY <4>3, SizeType
      <4> QED
        BY <1>3, <1>13, <3>1, <4>3, <4>4
    <3>3. ASSUME NEW d \in network', d.kind = "unreliable", c.packet < d.packet,
                 Number(kinds', c.packet) = Number(kinds', d.packet)
          PROVE  c.minor < d.minor
      <4>1. CASE d \in network
        <5>1. Number(kinds', d.packet) = Number(kinds, d.packet)
          BY <1>8, <1>9, <4>1
        <5> QED
          BY <2>1, <3>1, <3>3, <4>1, <5>1 DEF Unreliables
      <4>2. CASE d \notin network
        <5>1. d.packet = This /\ d.minor = outUnrel + 1
          BY <1>3, <3>3, <4>2
        <5>2. Number(kinds, c.packet) = LastSent + 1
          BY <1>7, <3>1, <3>3, <5>1
        <5> QED
          BY <1>13, <3>1, <5>1, <5>2
      <4> QED
        BY <4>1, <4>2
    <3> QED
      BY <3>1, <3>2, <3>3
  <2>2. ASSUME NEW c \in network', c.kind = "unreliable", c \notin network
        PROVE  /\ c.rel = (Number(kinds', c.packet) - 1) % Space
               /\ Number(kinds', c.packet) = LastSent' + 1 => c.minor <= outUnrel'
               /\ \A d \in network' : d.kind = "unreliable" /\ c.packet < d.packet
                                        /\ Number(kinds', c.packet) = Number(kinds', d.packet) => c.minor < d.minor
    <3>1. c.packet = This /\ c.rel = outRel /\ c.minor = outUnrel'
      BY <1>3, <2>2
    <3>2. outRel = LastSent % Space /\ Number(kinds', c.packet) - 1 = LastSent
      BY <1>2, <1>4, <1>7, <3>1 DEF Numbers
    <3>3. \A d \in network' : ~(c.packet < d.packet)
      <4>1. \A d \in network' : d.packet \in 1 .. Len(kinds) + 1
        BY <1>4, <1>12 DEF Network
      <4> QED
        BY <1>6, <3>1, <4>1
    <3> QED
      BY <1>13, <3>1, <3>2, <3>3
  <2>3. \A c \in network' : c.kind = "unreliable" =>
               /\ c.rel = (Number(kinds', c.packet) - 1) % Space
               /\ Number(kinds', c.packet) = LastSent' + 1 => c.minor <= outUnrel'
               /\ \A d \in network' : d.kind = "unreliable" /\ c.packet < d.packet
                                        /\ Number(kinds', c.packet) = Number(kinds', d.packet) => c.minor < d.minor
    BY <2>1, <2>2
  <2> QED
    BY <2>3 DEF Unreliables
<1>15. Unsequenceds' /\ GroupNo(kinds, This) <= GroupNo(kinds', Len(kinds') + 1)
  <2> DEFINE g == GroupNo(kinds, This)
             u == GroupNo(kinds', Len(kinds') + 1)
  <2>1. g \in Nat /\ g >= 1
    BY <1>6, GroupStep
  <2>2. u = g + (IF becomes = "unsequenced" THEN 1 ELSE 0)
    <3>1. GroupNo(kinds', This + 1) = GroupNo(kinds', This) + (IF kinds'[This] = "unsequenced" THEN 1 ELSE 0)
      BY <1>6, GroupStep
    <3> QED
      BY <1>4, <1>6, <1>7, <3>1
  <2>3. outGroup = (g - 1) % GroupSpace
    BY <1>6 DEF Unsequenceds
  <2> HIDE DEF g, u
  <2>4. outGroup' = (u - 1) % GroupSpace /\ (becomes = "unsequenced" => outGroup' = g % GroupSpace)
    <3>1. CASE becomes = "unsequenced"
      <4> DEFINE m == g - 1
      <4>1. m \in Nat /\ g = m + 1 /\ u - 1 = m + 1
        BY <2>1, <2>2, <3>1
      <4> HIDE DEF m
      <4>2. ((m % GroupSpace) + 1) % GroupSpace = (m + 1) % GroupSpace
        BY <4>1, CutAdd, Sizes
      <4>3. outGroup' = ((m % GroupSpace) + 1) % GroupSpace
        BY <1>3, <2>3, <3>1 DEF m
      <4> QED
        BY <4>1, <4>2, <4>3
    <3>2. CASE becomes # "unsequenced"
      BY <1>3, <2>1, <2>2, <2>3, <3>2
    <3> QED
      BY <3>1, <3>2
  <2>5. ASSUME NEW c \in network', c.kind = "unsequenced" PROVE c.minor = GroupNo(kinds', c.packet) % GroupSpace
    <3>1. CASE c \in network
      BY <1>8, <1>9, <2>5, <3>1 DEF Unsequenceds
    <3>2. CASE c \notin network
      <4>1. c.packet = This /\ becomes = "unsequenced" /\ c.minor = outGroup'
        BY <1>3, <2>5, <3>2
      <4> QED
        BY <1>7, <2>4, <4>1 DEF g
    <3> QED
      BY <3>1, <3>2
  <2>6. Unsequenceds'
    BY <2>4, <2>5 DEF Unsequenceds, u
  <2> QED
    BY <2>1, <2>2, <2>6 DEF g, u
<1>16. Numbers(last)' /\ IsQueue(kinds', held', last)
  BY <1>1, <1>2, SendLine
<1>17. IsOutput(network', delivered', out)
  <2>1. Len(out) \in Nat /\ \A i \in 1 .. Len(out) : out[i] \in DOMAIN kinds
    BY <1>10, LenProperties, ElementOfSeq
  <2> QED
    BY <1>2, <1>3, <1>11, <2>1 DEF IsOutput
<1>18. Good(kinds', out, last)
  <2>1. out \in Seq(DOMAIN kinds')
    <3>1. DOMAIN kinds \subseteq DOMAIN kinds'
      BY <1>8
    <3> QED
      BY <1>10, <3>1, SeqMonotonic
  <2>2. ASSUME NEW p \in DOMAIN kinds', kinds'[p] \in {"reliable", "fragmented"}
        PROVE  p \in Range(out) <=> Number(kinds', p) <= last
    <3>1. CASE p \in DOMAIN kinds
      BY <1>2, <1>8, <2>2, <3>1 DEF Good
    <3>2. CASE p = This
      <4>1. last <= LastSent
        BY <1>2 DEF Numbers
      <4> QED
        BY <1>4, <1>6, <1>7, <1>10, <3>2, <4>1
    <3> QED
      BY <1>4, <1>6, <3>1, <3>2
  <2>3. \A p \in Range(out) : kinds'[p] = "unreliable" => Number(kinds', p) <= last + 1
    BY <1>2, <1>8, <1>10 DEF Good
  <2>4. Ordered(kinds', out)
    <3>1. \A i \in DOMAIN out : out[i] \in DOMAIN kinds
      BY <1>10, LenProperties, ElementOfSeq
    <3> QED
      BY <1>2, <1>8, <3>1 DEF Good, Ordered, Precedes
  <2> QED
    BY <2>1, <2>2, <2>3, <2>4 DEF Good
<1>19. Heard(out, last)'
  <2>1. ASSUME NEW c \in network', c.packet \in Range(out)
        PROVE  c \in network /\ Number(kinds', c.packet) = Number(kinds, c.packet)
    BY <1>3, <1>6, <1>8, <1>10, <2>1
  <2> QED
    BY <1>2, <1>3, <2>1 DEF Heard
<1>20. Groups(out, gb)'
  <2>1. groupBase' = gb % GroupSpace /\ gb % GroupWindowSize = 0
    BY <1>2, <1>3 DEF Groups
  <2>2. gb <= GroupNo(kinds', Len(kinds') + 1) - 1
    <3>1. gb <= GroupNo(kinds, This) - 1
      BY <1>2, <1>6 DEF Groups
    <3>2. GroupNo(kinds, This) \in Nat /\ GroupNo(kinds', Len(kinds') + 1) \in Nat
      <4>1. Len(kinds') + 1 \in Nat \ {0}
        BY <1>4, <1>6
      <4>2. GroupNo(kinds, This) \in Nat
        BY <1>6, GroupStep
      <4> QED
        BY <4>1, <4>2, GroupStep
    <3> QED
      BY <1>15, <3>1, <3>2
  <2>3. \A p \in Range(out) : kinds'[p] = "unsequenced" =>
          \/ GroupNo(kinds', p) < gb
          \/ GroupNo(kinds', p) < gb + GroupWindowSize /\ Index(GroupNo(kinds', p)) \in groupsSeen'
    BY <1>2, <1>3, <1>8, <1>10 DEF Groups
  <2> QED
    BY <2>1, <2>2, <2>3 DEF Groups, Index
<1>21. Sorted(kinds', waiting', last)
  <2>1. \A i \in DOMAIN waiting : Number(kinds', waiting[i].packet) = Number(kinds, waiting[i].packet)
    <3>1. \A i \in DOMAIN waiting : waiting[i] \in network
      BY <1>1, LenProperties, ElementOfSeq DEF Loose
    <3> QED
      BY <1>8, <1>9, <3>1
  <2> QED
    BY <1>2, <1>3, <2>1 DEF Sorted
<1>22. InTurn(inRel', held') = {}
  BY <1>2, <1>3
<1>23. Record(last, gb, out)'
  BY <1>16, <1>17, <1>18, <1>19, <1>20, <1>21, <1>22 DEF Record
<1>24. Len(kinds') <= MaxPackets
  BY <1>3, <1>4, <1>6, Sizes
<1> QED
  BY <1>14, <1>15, <1>23, <1>24

LEMMA InitRecord ==
  ASSUME Limits, Init
  PROVE  FullInv
<1>1. /\ kinds = <<>> /\ network = {} /\ held = {} /\ waiting = <<>> /\ delivered = <<>>
      /\ outGroup = Before % GroupSpace
      /\ groupBase = outGroup - (outGroup % GroupWindowSize)
  BY DEF Init
<1>2. DOMAIN <<>> = {} /\ Len(<<>>) = 0 /\ Range(<<>>) = {} /\ <<>> \in Seq(DOMAIN <<>>)
  BY DEF Range
<1>3. Inv
  BY InitInv
<1>4. Numbers(Before) /\ IsQueue(kinds, held, Before) /\ Before \in Nat /\ MaxPackets \in Nat
  BY InitNumbers, Sizes
<1>5. Unreliables
  BY <1>1 DEF Unreliables
<1>6. GroupNo(kinds, Len(kinds) + 1) = Before + 1
  <2>1. Earlier(kinds, 1, "unsequenced") = {}
    BY DEF Earlier
  <2>2. GroupNo(kinds, 1) = Before + 1 + 0
    BY <2>1, FS_EmptySet DEF GroupNo
  <2> QED
    BY <1>1, <1>2, <1>4, <2>2
<1>7. Unsequenceds
  BY <1>1, <1>4, <1>6 DEF Unsequenceds
<1> DEFINE gb == Before - (Before % GroupWindowSize)
<1>8. gb \in Nat /\ gb <= Before /\ gb % GroupWindowSize = 0 /\ groupBase = gb % GroupSpace
  <2>1. gb \in Nat
    BY <1>4, CutWindow
  <2>2. gb % GroupWindowSize = 0
    BY <1>4, CutWindow
  <2>3. gb % GroupSpace = (Before % GroupSpace) - (Before % GroupWindowSize)
    BY <1>4, CutWindow
  <2>4. (Before % GroupSpace) % GroupWindowSize = Before % GroupWindowSize
    BY <1>4, CutWindow
  <2>5. Before % GroupWindowSize \in Nat
    BY <1>4, DivMod, Sizes
  <2> QED
    BY <1>1, <1>4, <2>1, <2>2, <2>3, <2>4, <2>5
<1> HIDE DEF gb
<1>9. Groups(<<>>, gb)
  BY <1>2, <1>4, <1>6, <1>8 DEF Groups
<1>10. Good(kinds, <<>>, Before) /\ Heard(<<>>, Before) /\ Sorted(kinds, waiting, Before)
  BY <1>1, <1>2 DEF Good, Heard, Sorted, Ordered
<1>11. IsOutput(network, delivered, <<>>)
  BY <1>1, <1>2 DEF IsOutput
<1>12. InTurn(inRel, held) = {}
  BY <1>1 DEF InTurn
<1>13. Record(Before, gb, <<>>)
  BY <1>4, <1>9, <1>10, <1>11, <1>12 DEF Record
<1>14. Len(kinds) <= MaxPackets
  BY <1>1, <1>2, <1>4
<1> QED
  BY <1>3, <1>4, <1>5, <1>7, <1>8, <1>13, <1>14 DEF FullInv

\* What is held and whole stays held, or has its turn.
LEMMA ReceiveRecord ==
  ASSUME Limits, OneLap, Inv, Len(kinds) <= MaxPackets, Unreliables, Unsequenceds,
         NEW last \in Nat, NEW gb \in Nat, NEW out, Record(last, gb, out),
         NEW c \in network, Receive(c)
  PROVE  /\ UNCHANGED senderVars
         /\ \E t, gc \in Nat : /\ \E more \in Seq(DOMAIN kinds) : Record(t, gc, out \o more)'
                               /\ \A h \in held : \/ h \in held' \/ Number(kinds, Of(h)) <= t
                                                  \/ h.got # Commands(Of(h))
<1>1. Types /\ Network
  BY DEF Inv
<1>2. Numbers(last) /\ IsQueue(kinds, held, last)
  BY DEF Record
<1>3. Len(kinds) - c.packet < MaxLag
  BY DEF Receive
<1>4. UNCHANGED senderVars
  BY DEF Receive, ReceiveReliable, ReceiveFragment, ReceiveUnreliable, ReceiveUnsequenced
<1>5. held \subseteq Incoming /\ IsFiniteSet(held) /\ c \in Command
  BY <1>1 DEF Types, TypeOK
<1>6. CASE ReceiveReliable(c)
  <2> DEFINE queue == held \cup {[rel |-> c.rel, count |-> 0, got |-> {c}]}
  <2>1. DispatchReliable(queue) /\ UNCHANGED <<senderVars, groupVars>>
    BY <1>6 DEF ReceiveReliable
  <2>2. IsQueue(kinds, queue, last)
    BY <1>1, <1>2, <1>3, <1>6, ReliableJoins
  <2>3. queue \in SUBSET Incoming /\ IsFiniteSet(queue)
    <3>1. [rel |-> c.rel, count |-> 0, got |-> {c}] \in Incoming
      BY <1>5 DEF Incoming, Command
    <3> QED
      BY <1>5, <3>1, FS_AddElement
  <2>4. \A h \in held : h \in queue
    OBVIOUS
  <2> HIDE DEF queue
  <2>5. PICK t \in Nat : /\ \E more \in Seq(DOMAIN kinds) : Record(t, gb, out \o more)'
                         /\ held' = {h \in queue : ~(Number(kinds, Of(h)) <= t)}
    BY <2>1, <2>2, <2>3, DispatchRecord
  <2>6. \A h \in held : h \in held' \/ Number(kinds, Of(h)) <= t
    BY <2>4, <2>5
  <2> QED
    BY <1>4, <2>5, <2>6
<1>7. CASE ReceiveFragment(c)
  <2> DEFINE more == [Start(c) EXCEPT !.got = @ \cup {c}]
             rest == held \ {h \in held : h.rel = c.rel}
             queue == rest \cup {more}
  <2>1. DispatchReliable(queue) /\ UNCHANGED <<senderVars, groupVars>>
    BY <1>7 DEF ReceiveFragment
  <2>2. IsQueue(kinds, queue, last)
    BY <1>1, <1>2, <1>3, <1>7, FragmentJoins
  <2>3. more \in Incoming
    <3>1. [rel |-> c.rel, count |-> c.count, got |-> {}] \in Incoming
      BY <1>5 DEF Incoming, Command
    <3>2. Start(c) \in Incoming
      BY <1>5, <3>1, Started
    <3> QED
      BY <3>2 DEF Incoming
  <2> HIDE DEF more
  <2>4. queue \in SUBSET Incoming /\ IsFiniteSet(queue)
    <3>1. rest \in SUBSET held
      OBVIOUS
    <3>2. IsFiniteSet(rest)
      BY <1>5, <3>1, FS_Subset
    <3> HIDE DEF rest
    <3> QED
      BY <1>5, <2>3, <3>1, <3>2, FS_AddElement
  <2>5. \A h \in held : h \in queue \/ h.rel = c.rel
    OBVIOUS
  <2> HIDE DEF queue
  <2>6. ASSUME NEW h \in held, h.rel = c.rel PROVE h.got # Commands(Of(h))
    <3>1. c.packet \in DOMAIN kinds /\ \A g \in held : g.rel = c.rel => Of(g) = c.packet
      BY <1>1, <1>2, <1>3, <1>7, FragmentOf
    <3>2. Start(c) \in held /\ Start(c).rel = c.rel
      BY <2>6, Started
    <3>3. h = Start(c)
      BY <1>2, <2>6, <3>1, <3>2 DEF IsQueue
    <3>4. c \notin h.got
      BY <1>7, <3>3 DEF ReceiveFragment
    <3>5. c \in Commands(Of(h))
      BY <2>6, <3>1 DEF Commands
    <3> QED
      BY <3>4, <3>5
  <2>7. PICK t \in Nat : /\ \E s \in Seq(DOMAIN kinds) : Record(t, gb, out \o s)'
                         /\ held' = {h \in queue : ~(Number(kinds, Of(h)) <= t)}
    BY <2>1, <2>2, <2>4, DispatchRecord
  <2>8. \A h \in held : h \in held' \/ Number(kinds, Of(h)) <= t \/ h.got # Commands(Of(h))
    BY <2>5, <2>6, <2>7
  <2> QED
    BY <1>4, <2>7, <2>8
<1>8. CASE ReceiveUnreliable(c)
  <2>1. \E s \in Seq(DOMAIN kinds) : Record(last, gb, out \o s)'
    BY <1>3, <1>8, UnreliableRecord
  <2>2. held' = held
    BY <1>8 DEF ReceiveUnreliable, reliableVars
  <2> QED
    BY <1>4, <2>1, <2>2
<1>9. CASE ReceiveUnsequenced(c)
  <2>1. \E gc \in Nat : \E s \in Seq(DOMAIN kinds) : Record(last, gc, out \o s)'
    BY <1>3, <1>9, UnsequencedRecord
  <2>2. held' = held
    BY <1>9 DEF ReceiveUnsequenced, reliableVars
  <2> QED
    BY <1>4, <2>1, <2>2
<1> QED
  BY <1>6, <1>7, <1>8, <1>9 DEF Receive

LEMMA NextFull ==
  ASSUME Limits, OneLap, FullInv, [Next]_vars
  PROVE  FullInv'
<1>1. Inv'
  BY NextInv DEF FullInv
<1>2. PICK last \in Nat : \E gb \in Nat : \E out : Record(last, gb, out)
  BY DEF FullInv
<1>3. PICK gb \in Nat : \E out : Record(last, gb, out)
  BY <1>2
<1>4. PICK out : Record(last, gb, out)
  BY <1>3
<1>5. Inv /\ Len(kinds) <= MaxPackets /\ Unreliables /\ Unsequenceds
  BY DEF FullInv
<1>6. CASE UNCHANGED vars
  <2>1. /\ UNCHANGED <<kinds, outRel, outUnrel, outGroup, network, inRel, inUnrel, held>>
        /\ UNCHANGED <<waiting, groupBase, groupsSeen, delivered>>
    BY <1>6 DEF vars
  <2>2. (Len(kinds) <= MaxPackets)' /\ Unreliables' /\ Unsequenceds'
    BY <1>5, <2>1 DEF Unreliables, Unsequenceds, LastSent
  <2>3. Record(last, gb, out)'
    <3>1. Numbers(last)' /\ IsQueue(kinds, held, last)' /\ (InTurn(inRel, held) = {})'
      BY <1>4, <2>1 DEF Record, Numbers, LastSent
    <3>2. IsOutput(network, delivered, out)' /\ Good(kinds, out, last)' /\ Sorted(kinds, waiting, last)'
      BY <1>4, <2>1 DEF Record
    <3>3. Heard(out, last)' /\ Groups(out, gb)'
      BY <1>4, <2>1 DEF Record, Heard, Groups
    <3> QED
      BY <3>1, <3>2, <3>3 DEF Record
  <2> QED
    BY <1>1, <2>2, <2>3 DEF FullInv
<1>7. ASSUME NEW k \in Kinds, Send(k) PROVE FullInv'
  <2>1. Record(last, gb, out)' /\ Unreliables' /\ Unsequenceds' /\ Len(kinds') <= MaxPackets
    BY <1>4, <1>5, <1>7, SendRecord
  <2> QED
    BY <1>1, <2>1 DEF FullInv
<1>8. ASSUME NEW c \in network, Receive(c) PROVE FullInv'
  <2>1. /\ UNCHANGED senderVars
        /\ \E t, gc \in Nat : /\ \E more \in Seq(DOMAIN kinds) : Record(t, gc, out \o more)'
                              /\ \A h \in held : \/ h \in held' \/ Number(kinds, Of(h)) <= t
                                                 \/ h.got # Commands(Of(h))
    BY <1>4, <1>5, <1>8, ReceiveRecord
  <2>2. Len(kinds') <= MaxPackets /\ Unreliables' /\ Unsequenceds'
    <3>1. UNCHANGED <<kinds, outRel, outUnrel, outGroup, network>>
      BY <2>1 DEF senderVars
    <3> QED
      BY <1>5, <3>1 DEF Unreliables, Unsequenceds, LastSent
  <2>3. \E t, gc \in Nat : \E u : Record(t, gc, u)'
    BY <2>1
  <2> QED
    BY <1>1, <2>2, <2>3 DEF FullInv
<1> QED
  BY <1>6, <1>7, <1>8 DEF Next

LEMMA FullAlways ==
  ASSUME Limits, OneLap
  PROVE  Spec => []FullInv
<1>1. Init => FullInv
  BY InitRecord
<1>2. FullInv /\ [Next]_vars => FullInv'
  BY NextFull
<1> QED
  BY <1>1, <1>2, PTL DEF Spec

-----------------------------------------------------------------------------
(***************************************************************************)
(* A channel implements its contract.                                      *)
(***************************************************************************)

LEMMA CommandsSent ==
  ASSUME Network, NEW p \in DOMAIN kinds
  PROVE  CommandsIn(network, p) = Commands(p) /\ Commands(p) # {}
<1>1. AreSentFor(kinds, p, Commands(p))
  BY DEF Network
<1>2. 0 \in 0 .. Fragments - 1
  BY Sizes
<1>3. Commands(p) # {}
  BY <1>1, <1>2 DEF AreSentFor
<1> QED
  BY <1>3 DEF Commands, CommandsIn

\* Output, for the packets P with the commands of net.
PacketIn(P, net, content) ==
  IF \E p \in P : content = CommandsIn(net, p) THEN CHOOSE p \in P : content = CommandsIn(net, p) ELSE 0

OutputIn(P, net, d) == [i \in DOMAIN d |-> PacketIn(P, net, d[i])]

\* Contents that belong to packets that were sent say which packets they are.
LEMMA OutputIs ==
  ASSUME NEW P, NEW net, \A p \in P : CommandsIn(net, p) # {},
         NEW D, NEW d \in Seq(D), NEW out \in Seq(P), IsOutput(net, d, out)
  PROVE  OutputIn(P, net, d) = out
<1> DEFINE o == OutputIn(P, net, d)
<1>1. DOMAIN d = 1 .. Len(out) /\ DOMAIN out = 1 .. Len(out) /\ Len(out) \in Nat
  BY LenProperties DEF IsOutput
<1>2. ASSUME NEW i \in 1 .. Len(out) PROVE o[i] = out[i]
  <2>1. out[i] \in P /\ d[i] = CommandsIn(net, out[i])
    BY ElementOfSeq DEF IsOutput
  <2>2. ASSUME NEW p \in P, d[i] = CommandsIn(net, p) PROVE p = out[i]
    <3>1. PICK c \in CommandsIn(net, p) : TRUE
      OBVIOUS
    <3>2. c.packet = p /\ c.packet = out[i]
      BY <2>1, <2>2, <3>1 DEF CommandsIn
    <3> QED
      BY <3>2
  <2>3. o[i] = PacketIn(P, net, d[i])
    BY <1>1 DEF OutputIn
  <2>4. PacketIn(P, net, d[i]) = CHOOSE p \in P : d[i] = CommandsIn(net, p)
    BY <2>1 DEF PacketIn
  <2> HIDE DEF o
  <2> QED
    BY <2>1, <2>2, <2>3, <2>4
<1>3. o = [i \in 1 .. Len(out) |-> out[i]]
  <2>1. o = [i \in 1 .. Len(out) |-> o[i]]
    BY <1>1 DEF OutputIn
  <2> HIDE DEF o
  <2> QED
    BY <1>2, <2>1
<1>4. out = [i \in 1 .. Len(out) |-> out[i]]
  BY <1>1
<1> QED
  BY <1>3, <1>4

\* What is handed over is as the record says.
LEMMA RecordOutput ==
  ASSUME Network, delivered \in Seq(Packets), NEW last, NEW gb, NEW out, Record(last, gb, out)
  PROVE  /\ Output = out /\ out \in Seq(DOMAIN kinds)
         /\ \A p \in DOMAIN kinds : p \in Range(out) <=> Commands(p) \in Range(delivered)
<1>1. out \in Seq(DOMAIN kinds) /\ IsOutput(network, delivered, out)
  BY DEF Record, Good
<1>2. \A p \in DOMAIN kinds : CommandsIn(network, p) # {} /\ CommandsIn(network, p) = Commands(p)
  BY CommandsSent
<1>3. Output = OutputIn(DOMAIN kinds, network, delivered)
  BY DEF Output, PacketOf, Commands, CommandsIn, OutputIn, PacketIn
<1>4. Output = out
  <2> DEFINE P == DOMAIN kinds
  <2>1. \A p \in P : CommandsIn(network, p) # {}
    BY <1>2
  <2>2. out \in Seq(P)
    BY <1>1
  <2>3. Output = OutputIn(P, network, delivered)
    BY <1>3
  <2> HIDE DEF P
  <2> QED
    BY <1>1, <2>1, <2>2, <2>3, OutputIs
<1>5. DOMAIN delivered = 1 .. Len(out) /\ DOMAIN out = 1 .. Len(out)
  BY <1>1, LenProperties DEF IsOutput
<1>6. \A i \in 1 .. Len(out) : out[i] \in DOMAIN kinds /\ delivered[i] = Commands(out[i])
  BY <1>1, <1>2, ElementOfSeq DEF IsOutput
<1>7. ASSUME NEW p \in DOMAIN kinds PROVE p \in Range(out) <=> Commands(p) \in Range(delivered)
  <2>1. ASSUME p \in Range(out) PROVE Commands(p) \in Range(delivered)
    BY <1>5, <1>6, <2>1 DEF Range
  <2>2. ASSUME Commands(p) \in Range(delivered) PROVE p \in Range(out)
    <3>1. PICK i \in 1 .. Len(out) : Commands(p) = delivered[i]
      BY <1>5, <2>2 DEF Range
    <3>2. Commands(p) = Commands(out[i]) /\ Commands(p) # {}
      BY <1>2, <1>6, <3>1
    <3>3. p = out[i]
      BY <3>2 DEF Commands
    <3> QED
      BY <1>5, <3>3 DEF Range
  <2> QED
    BY <2>1, <2>2
<1> QED
  BY <1>1, <1>4, <1>7

\* With all its commands there a packet is complete.
LEMMA WholeIsComplete ==
  ASSUME Network, NEW h, NEW last, IsPart(kinds, h, last), h.got = Commands(Of(h))
  PROVE  Complete(h)
<1> DEFINE p == Of(h)
<1>1. /\ p \in DOMAIN kinds /\ h.got = Commands(p)
      /\ \/ kinds[p] = "reliable" /\ h.count = 0
         \/ kinds[p] = "fragmented" /\ h.count = Fragments
  BY DEF IsPart
<1>2. AreSentFor(kinds, p, Commands(p))
  BY <1>1 DEF Network
<1> HIDE DEF p
<1>3. CASE h.count = 0
  BY <1>3 DEF Complete
<1>4. CASE kinds[p] = "fragmented" /\ h.count = Fragments
  <2> DEFINE S == 0 .. Fragments - 1
             T == Commands(p)
             f == [i \in S |-> Fragment(kinds, p, i)]
  <2>1. T = {Fragment(kinds, p, i) : i \in S}
    BY <1>2, <1>4 DEF AreSentFor
  <2>2. IsFiniteSet(S) /\ Cardinality(S) = Fragments
    <3>1. 0 \in Int /\ Fragments - 1 \in Int /\ ~(0 > Fragments - 1) /\ (Fragments - 1) - 0 + 1 = Fragments
      BY Sizes
    <3> QED
      BY <3>1, FS_Interval
  <2>3. \A i, j \in S : Fragment(kinds, p, i) = Fragment(kinds, p, j) => i = j
    <3>1. \A i \in S : Fragment(kinds, p, i).minor = i
      BY DEF Fragment
    <3> QED
      BY <3>1
  <2> HIDE DEF T, S
  <2>4. f \in Bijection(S, T)
    <3>1. f \in [S -> T] /\ \A i \in S : f[i] = Fragment(kinds, p, i)
      BY <2>1
    <3> HIDE DEF f
    <3>2. f \in Surjection(S, T)
      BY <2>1, <3>1 DEF Surjection
    <3>3. f \in Injection(S, T)
      BY <2>3, <3>1 DEF Injection, IsInjective
    <3> QED
      BY <3>2, <3>3 DEF Bijection
  <2>5. Cardinality(T) = Fragments
    BY <2>2, <2>4, FS_Bijection DEF ExistsBijection
  <2> QED
    BY <1>1, <1>4, <2>5 DEF Complete, T
<1> QED
  BY <1>1, <1>3, <1>4

\* The first packet behind the last number handed over that has a number.
LEMMA FirstBehind ==
  ASSUME Types, NEW last \in Nat, AtEnd(kinds, last), NEW p, Numbered(p), last < Number(kinds, p)
  PROVE  \E q \in DOMAIN kinds : Numbered(q) /\ q <= p /\ Number(kinds, q) = last + 1
<1>1. Len(kinds) \in Nat /\ DOMAIN kinds = 1 .. Len(kinds)
  BY LenProperties DEF Types, TypeOK
<1>2. p \in DOMAIN kinds /\ p \in Nat \ {0} /\ kinds[p] \in {"reliable", "fragmented"}
  BY <1>1 DEF Numbered
<1>3. PICK r \in 1 .. Len(kinds) + 1 : last = Number(kinds, r) - 1
  BY DEF AtEnd
<1>4. r \in Nat \ {0} /\ Number(kinds, r) \in Nat /\ Number(kinds, p) \in Nat /\ Number(kinds, r) = last + 1
  <2>1. r \in Nat \ {0}
    BY <1>1
  <2>2. Number(kinds, r) \in Nat /\ Number(kinds, p) \in Nat
    BY <1>2, <2>1, NumberType
  <2> QED
    BY <1>3, <2>1, <2>2
<1>5. r <= p
  <2> SUFFICES ASSUME p < r PROVE FALSE
    BY <1>2, <1>4
  <2>1. Number(kinds, p) + Size(kinds[p]) <= Number(kinds, r)
    BY <1>2, <1>4, NumberApart
  <2>2. Size(kinds[p]) >= 1 /\ Size(kinds[p]) \in Nat
    BY <1>2, SizeType, Sizes
  <2> QED
    BY <1>4, <2>1, <2>2
<1> DEFINE S == {q \in DOMAIN kinds : r <= q /\ Numbered(q)}
           q == Min(S)
<1>6. S \in SUBSET Nat /\ p \in S
  BY <1>1, <1>2, <1>5
<1>7. q \in S /\ \A x \in S : q <= x
  <2> HIDE DEF S
  <2> QED
    BY <1>6, MinExists
<1> HIDE DEF q
<1>8. q \in DOMAIN kinds /\ r <= q /\ Numbered(q) /\ q <= p
  BY <1>6, <1>7
<1>9. ASSUME NEW kind \in {"reliable", "fragmented"} PROVE Earlier(kinds, q, kind) = Earlier(kinds, r, kind)
  <2>1. ASSUME NEW x \in 1 .. q - 1, kinds[x] = kind PROVE x \in 1 .. r - 1
    <3>1. x \in DOMAIN kinds /\ Numbered(x) /\ ~(q <= x)
      BY <1>1, <1>8, <2>1 DEF Numbered
    <3>2. ~(r <= x)
      BY <1>7, <3>1
    <3> QED
      BY <1>1, <1>4, <3>1, <3>2
  <2>2. \A x \in 1 .. r - 1 : x \in 1 .. q - 1
    BY <1>1, <1>4, <1>8
  <2> QED
    BY <2>1, <2>2 DEF Earlier
<1>10. Number(kinds, q) = last + 1
  <2>1. Number(kinds, q) = Number(kinds, r)
    BY <1>9 DEF Number
  <2> QED
    BY <1>4, <2>1
<1> QED
  BY <1>8, <1>10

\* The contract holds in every state of the channel.
LEMMA RecordLegal ==
  ASSUME Limits, Inv, NEW last \in Nat, NEW gb, NEW out, Record(last, gb, out)
  PROVE  Contract!Legal
<1>1. Types /\ Network /\ delivered \in Seq(Packets)
  BY DEF Inv
<1>2. /\ Numbers(last) /\ IsQueue(kinds, held, last) /\ InTurn(inRel, held) = {}
      /\ Good(kinds, out, last)
  BY DEF Record
<1>3. /\ Output = out /\ out \in Seq(DOMAIN kinds)
      /\ \A p \in DOMAIN kinds : p \in Range(out) <=> Commands(p) \in Range(delivered)
  BY <1>1, RecordOutput
<1>4. Len(kinds) \in Nat /\ DOMAIN kinds = 1 .. Len(kinds) /\ Range(out) \subseteq DOMAIN kinds
  BY <1>1, <1>3, LenProperties, RangeType DEF Types, TypeOK
<1>5. \A p \in DOMAIN kinds : Number(kinds, p) \in Nat
  BY <1>1, NumberSent
<1>6. \A p : Numbered(p) => (p \in Range(out) <=> Number(kinds, p) <= last)
  BY <1>2 DEF Numbered, Good
<1>7. \A p \in DOMAIN kinds : kinds[p] \in {"reliable", "fragmented", "unreliable", "unsequenced"}
  <2>1. \A p \in DOMAIN kinds : kinds[p] \in Kinds \cup {"reliable"}
    BY <1>1, <1>4, ElementOfSeq DEF Types, TypeOK
  <2> QED
    BY <2>1, DeliveryAssumption
<1>8. /\ Contract!Packets = DOMAIN kinds /\ Contract!Reliable = {p \in DOMAIN kinds : Numbered(p)}
      /\ Contract!Sequenced = {p \in DOMAIN kinds : kinds[p] # "unsequenced"}
  BY <1>4 DEF Contract!Packets, Contract!Reliable, Contract!Sequenced, Contract!Unsequenced, Numbered
<1>9. \A p : Numbered(p) => p \in DOMAIN kinds /\ kinds[p] \in {"reliable", "fragmented"} /\ p \in Nat \ {0}
  BY <1>4 DEF Numbered
<1>10. ASSUME NEW p, Numbered(p), p \in Range(out), NEW q, Numbered(q), q <= p PROVE q \in ArrivedReliably
  <2>1. Number(kinds, p) <= last
    BY <1>6, <1>10
  <2>2. Number(kinds, q) <= Number(kinds, p)
    BY <1>9, <1>10, NumberGrows
  <2>3. q \in Range(out)
    BY <1>5, <1>6, <1>9, <1>10, <2>1, <2>2
  <2>4. Commands(q) \in Range(delivered)
    BY <1>3, <1>9, <1>10, <2>3
  <2> QED
    BY <1>9, <1>10, <2>4 DEF ArrivedReliably
<1>11. ASSUME NEW q, Numbered(q), q \in ArrivedReliably PROVE Number(kinds, q) # last + 1
  <2> SUFFICES ASSUME Number(kinds, q) = last + 1 PROVE FALSE
    OBVIOUS
  <2>1. q \notin Range(out)
    BY <1>6, <1>11
  <2>2. Commands(q) \notin Range(delivered)
    BY <1>3, <1>9, <1>11, <2>1
  <2>3. PICK h \in held : h.got = Commands(q)
    BY <1>11, <2>2 DEF ArrivedReliably
  <2>4. IsPart(kinds, h, last) /\ h.got # {} /\ h.rel = Number(kinds, Of(h)) % Space
    BY <1>2 DEF IsQueue, IsPart
  <2>5. Of(h) = q
    BY <2>3, <2>4, OfAll DEF Commands
  <2>6. Complete(h)
    BY <1>1, <2>3, <2>4, <2>5, WholeIsComplete
  <2>7. h.rel = (inRel + 1) % Space
    <3>1. ((last % Space) + 1) % Space = (last + 1) % Space
      <4>1. Space \in Nat \ {0} /\ 1 \in Nat
        BY Sizes
      <4> QED
        BY <4>1, CutAdd
    <3> QED
      BY <1>2, <2>4, <2>5, <3>1 DEF Numbers
  <2>8. h \in InTurn(inRel, held)
    BY <2>6, <2>7 DEF InTurn
  <2> QED
    BY <1>2, <2>8
<1>12. ASSUME NEW p, Numbered(p), \A q : Numbered(q) /\ q <= p => q \in ArrivedReliably PROVE p \in Range(out)
  <2> SUFFICES ASSUME p \notin Range(out) PROVE FALSE
    OBVIOUS
  <2>1. last < Number(kinds, p)
    BY <1>5, <1>6, <1>9, <1>12
  <2>2. AtEnd(kinds, last)
    BY <1>2 DEF Numbers
  <2>3. PICK q \in DOMAIN kinds : Numbered(q) /\ q <= p /\ Number(kinds, q) = last + 1
    BY <1>1, <1>12, <2>1, <2>2, FirstBehind
  <2> QED
    BY <1>11, <1>12, <2>3
<1>13. Range(Output) \cap Contract!Reliable = Contract!Due
  <2>1. Contract!Due = {p \in DOMAIN kinds : Numbered(p) /\ \A q : Numbered(q) /\ q <= p => q \in ArrivedReliably}
    BY <1>8, <1>9 DEF Contract!Due
  <2> QED
    BY <1>3, <1>4, <1>8, <1>9, <1>10, <1>12, <2>1
<1>14. \A i, j \in DOMAIN Output : i < j =>
         /\ Output[i] # Output[j]
         /\ {Output[i], Output[j]} \subseteq Contract!Sequenced => Output[i] < Output[j]
  BY <1>2, <1>3, <1>8 DEF Good, Ordered, Precedes
<1>15. ASSUME NEW p \in Range(Output) \cap Contract!Sequenced, NEW q \in Contract!Reliable, q < p
       PROVE  q \in Range(Output)
  <2>1. p \in DOMAIN kinds /\ p \in Range(out) /\ kinds[p] # "unsequenced" /\ Numbered(q) /\ p \in Nat \ {0}
    BY <1>3, <1>4, <1>8
  <2>2. Number(kinds, q) < Number(kinds, p)
    BY <1>9, <1>15, <2>1, NumberApart
  <2>3. Number(kinds, p) <= last + 1
    <3>1. CASE Numbered(p)
      BY <1>5, <1>6, <2>1, <3>1
    <3>2. CASE kinds[p] = "unreliable"
      BY <1>2, <2>1, <3>2 DEF Good
    <3> QED
      BY <1>7, <2>1, <3>1, <3>2 DEF Numbered
  <2>4. Number(kinds, q) <= last
    BY <1>5, <1>9, <2>1, <2>2, <2>3
  <2> QED
    BY <1>3, <1>6, <2>1, <2>4
<1>16. \A f : Contract!Range(f) = Range(f)
  BY DEF Contract!Range, Range
<1> QED
  BY <1>13, <1>14, <1>15, <1>16 DEF Contract!Legal

LEMMA ReceiveDelivers ==
  ASSUME Limits, OneLap, FullInv, FullInv', Contract!Legal', NEW c \in network, Receive(c)
  PROVE  Contract!Deliver
<1>1. Inv /\ Len(kinds) <= MaxPackets /\ Unreliables /\ Unsequenceds
  BY DEF FullInv
<1>2. Network /\ delivered \in Seq(Packets)
  BY <1>1 DEF Inv
<1>3. PICK last \in Nat : \E gb \in Nat : \E out : Record(last, gb, out)
  BY DEF FullInv
<1>4. PICK gb \in Nat : \E out : Record(last, gb, out)
  BY <1>3
<1>5. PICK out : Record(last, gb, out)
  BY <1>4
<1>6. /\ UNCHANGED senderVars
      /\ \E t, gc \in Nat : /\ \E more \in Seq(DOMAIN kinds) : Record(t, gc, out \o more)'
                            /\ \A h \in held : \/ h \in held' \/ Number(kinds, Of(h)) <= t
                                               \/ h.got # Commands(Of(h))
  BY <1>1, <1>5, ReceiveRecord
<1>7. PICK t \in Nat : \E gc \in Nat :
        /\ \E more \in Seq(DOMAIN kinds) : Record(t, gc, out \o more)'
        /\ \A h \in held : h \in held' \/ Number(kinds, Of(h)) <= t \/ h.got # Commands(Of(h))
  BY <1>6
<1>8. PICK gc \in Nat :
        /\ \E more \in Seq(DOMAIN kinds) : Record(t, gc, out \o more)'
        /\ \A h \in held : h \in held' \/ Number(kinds, Of(h)) <= t \/ h.got # Commands(Of(h))
  BY <1>7
<1>9. PICK more \in Seq(DOMAIN kinds) : Record(t, gc, out \o more)'
  BY <1>8
<1>10. PICK u : u = out \o more
  OBVIOUS
<1>11. kinds' = kinds /\ network' = network
  BY <1>6 DEF senderVars
<1>12. \A p \in DOMAIN kinds : Commands(p)' = Commands(p)
  BY <1>11 DEF Commands
<1>13. /\ Output = out /\ out \in Seq(DOMAIN kinds)
       /\ \A p \in DOMAIN kinds : p \in Range(out) <=> Commands(p) \in Range(delivered)
  BY <1>2, <1>5, RecordOutput
<1>14. Record(t, gc, u)'
  BY <1>9, <1>10
<1>15. /\ Output' = u /\ u \in Seq(DOMAIN kinds)
       /\ \A p \in DOMAIN kinds : p \in Range(u) => Commands(p) \in Range(delivered')
  <2>1. u \in Seq(DOMAIN kinds)
    BY <1>10, <1>13, ConcatProperties
  <2>2. IsOutput(network, delivered', u) /\ delivered' \in Seq(Packets)
    <3>1. delivered' \in Seq(Packets')
      BY DEF FullInv, Inv
    <3>2. Packets' = Packets
      BY <1>11, <1>12 DEF Packets
    <3> QED
      BY <1>11, <1>14, <3>1, <3>2 DEF Record
  <2>3. \A p \in DOMAIN kinds : CommandsIn(network, p) # {} /\ CommandsIn(network, p) = Commands(p)
    BY <1>2, CommandsSent
  <2>4. Output' = OutputIn(DOMAIN kinds, network, delivered')
    BY <1>11 DEF Output, PacketOf, Commands, CommandsIn, OutputIn, PacketIn
  <2>5. Output' = u
    <3> DEFINE P == DOMAIN kinds
               D == Packets
    <3>1. (\A p \in P : CommandsIn(network, p) # {}) /\ u \in Seq(P) /\ delivered' \in Seq(D)
      BY <2>1, <2>2, <2>3
    <3>2. Output' = OutputIn(P, network, delivered')
      BY <2>4
    <3> HIDE DEF P, D
    <3> QED
      BY <2>2, <3>1, <3>2, OutputIs
  <2>6. ASSUME NEW p \in DOMAIN kinds, p \in Range(u) PROVE Commands(p) \in Range(delivered')
    <3>1. PICK i \in 1 .. Len(u) : p = u[i]
      BY <2>1, <2>6, LenProperties DEF Range
    <3>2. Len(delivered') = Len(u) /\ delivered'[i] = CommandsIn(network, u[i])
      BY <2>2, <3>1 DEF IsOutput
    <3>3. i \in DOMAIN delivered'
      BY <2>2, <3>1, <3>2, LenProperties
    <3> QED
      BY <2>3, <3>1, <3>2, <3>3 DEF Range
  <2> QED
    BY <2>1, <2>5, <2>6
<1>16. Range(u) = Range(out) \cup Range(more)
  BY <1>10, <1>13, ConcatRange
<1>17. ASSUME NEW p \in ArrivedReliably PROVE p \in ArrivedReliably'
  <2>1. /\ p \in DOMAIN kinds /\ kinds[p] \in {"reliable", "fragmented"}
        /\ \E content \in Range(delivered) \cup {h.got : h \in held} : content = Commands(p)
    BY DEF ArrivedReliably
  <2>2. CASE p \in Range(u)
    <3>1. Commands(p)' \in Range(delivered')
      BY <1>12, <1>15, <2>1, <2>2
    <3> QED
      BY <1>11, <2>1, <3>1 DEF ArrivedReliably
  <2>3. CASE p \notin Range(u)
    <3>1. Commands(p) \notin Range(delivered)
      BY <1>13, <1>16, <2>1, <2>3
    <3>2. PICK h \in held : h.got = Commands(p)
      BY <2>1, <3>1
    <3>3. h.got # {}
      BY <1>2, <2>1, <3>2, CommandsSent
    <3>4. Of(h) = p
      BY <3>2, <3>3, OfAll DEF Commands
    <3>5. ~(Number(kinds, p) <= t)
      <4>1. Good(kinds, u, t)
        BY <1>11, <1>14 DEF Record
      <4> QED
        BY <2>1, <2>3, <4>1 DEF Good
    <3>6. h \in held'
      BY <1>8, <3>2, <3>4, <3>5
    <3> QED
      BY <1>11, <1>12, <2>1, <3>2, <3>6 DEF ArrivedReliably
  <2> QED
    BY <2>2, <2>3
<1>18. ArrivedReliably' \subseteq Contract!Reliable
  <2>1. DOMAIN kinds = 1 .. Len(kinds)
    BY <1>1, LenProperties DEF Inv, Types, TypeOK
  <2> QED
    BY <1>11, <2>1 DEF ArrivedReliably, Contract!Reliable, Contract!Packets
<1>19. Range(Output') \subseteq Contract!Packets
  <2>1. DOMAIN kinds = 1 .. Len(kinds)
    BY <1>1, LenProperties DEF Inv, Types, TypeOK
  <2> QED
    BY <1>15, <2>1, RangeType DEF Contract!Packets
<1>20. IsPrefix(Output, Output')
  BY <1>10, <1>13, <1>15, ConcatPrefix
<1>21. ArrivedReliably \subseteq ArrivedReliably'
  BY <1>17
<1>22. Contract!Range(Output') = Range(Output')
  BY DEF Contract!Range, Range
<1>23. Contract!IsPrefix(Output, Output')
  BY <1>20 DEF Contract!IsPrefix, IsPrefix
<1> QED
  BY <1>11, <1>18, <1>19, <1>21, <1>22, <1>23 DEF Contract!Deliver

LEMMA SendSends ==
  ASSUME Limits, OneLap, FullInv, FullInv', NEW kind \in Kinds, Send(kind)
  PROVE  Contract!Send
<1>1. Inv /\ Len(kinds) <= MaxPackets /\ Unreliables /\ Unsequenceds
  BY DEF FullInv
<1>2. Types /\ Network /\ delivered \in Seq(Packets)
  BY <1>1 DEF Inv
<1>3. PICK last \in Nat : \E gb \in Nat : \E out : Record(last, gb, out)
  BY DEF FullInv
<1>4. PICK gb \in Nat : \E out : Record(last, gb, out)
  BY <1>3
<1>5. PICK out : Record(last, gb, out)
  BY <1>4
<1>6. PICK becomes \in {"reliable", "fragmented", "unreliable", "unsequenced"} :
           /\ Len(kinds) < MaxPackets /\ kinds' = Append(kinds, becomes)
           /\ \A c \in network' : c \in network \/
                /\ c.packet = This
                /\ c.kind = "unreliable" => becomes = "unreliable" /\ c.rel = outRel /\ c.minor = outUnrel'
                /\ c.kind = "unsequenced" => becomes = "unsequenced" /\ c.minor = outGroup'
           /\ network \subseteq network'
           /\ becomes = "unreliable" => outUnrel' = outUnrel + 1
           /\ becomes = "unsequenced" => outUnrel' = outUnrel /\ outGroup' = (outGroup + 1) % GroupSpace
           /\ becomes # "unsequenced" => outGroup' = outGroup
           /\ UNCHANGED <<inRel, inUnrel, held, waiting, delivered, groupBase, groupsSeen>>
  BY SendNew
<1>7. /\ kinds' = Append(kinds, becomes) /\ UNCHANGED <<held, delivered>>
      /\ network \subseteq network' /\ \A c \in network' : c \in network \/ c.packet = This
  BY <1>6
<1>8. /\ DOMAIN kinds' = 1 .. Len(kinds) + 1 /\ \A p \in DOMAIN kinds : kinds'[p] = kinds[p]
  BY <1>2, <1>7, NumberKept
<1>9. PICK n \in Nat : n = Len(kinds) + 1
  BY <1>2, LenProperties DEF Types, TypeOK
<1>10. DOMAIN kinds = 1 .. n - 1 /\ DOMAIN kinds' = 1 .. n /\ This = n
  BY <1>2, <1>8, <1>9, LenProperties DEF Types, TypeOK, This
<1>11. \A p \in DOMAIN kinds : p \in DOMAIN kinds' /\ Commands(p)' = Commands(p)
  <2>1. \A p \in DOMAIN kinds : p # n
    BY <1>10
  <2> QED
    BY <1>7, <1>10, <2>1 DEF Commands
<1>12. Commands(n)' # {} /\ \A c \in Commands(n)' : c.packet = n
  <2>1. Network'
    BY DEF FullInv, Inv
  <2>2. AreSentFor(kinds', n, Commands(n)')
    BY <1>9, <1>10, <2>1 DEF Network
  <2>3. 0 \in 0 .. Fragments - 1
    BY Sizes
  <2>4. Commands(n)' # {}
    BY <2>2, <2>3 DEF AreSentFor
  <2> QED
    BY <2>4 DEF Commands
<1>13. ASSUME NEW content \in Range(delivered) \cup {h.got : h \in held}
       PROVE  content # Commands(n)'
  <2>1. CASE content \in Range(delivered)
    <3>1. content \in Packets
      BY <1>2, <2>1, RangeType
    <3>2. PICK p \in DOMAIN kinds : content = Commands(p)
      BY <3>1 DEF Packets
    <3>3. \A c \in content : c.packet = p /\ p # n
      BY <1>10, <3>2 DEF Commands
    <3> QED
      BY <1>12, <3>3
  <2>2. CASE content \in {h.got : h \in held}
    <3>1. PICK h \in held : content = h.got
      BY <2>2
    <3>2. IsPart(kinds, h, last)
      BY <1>5 DEF Record, IsQueue
    <3>3. \A c \in content : c.packet = Of(h) /\ Of(h) # n
      BY <1>10, <3>1, <3>2 DEF IsPart
    <3> QED
      BY <1>12, <3>3
  <2> QED
    BY <2>1, <2>2
<1>14. ArrivedReliably' = ArrivedReliably
  <2> DEFINE contents == Range(delivered) \cup {h.got : h \in held}
             old == {p \in DOMAIN kinds : kinds[p] \in {"reliable", "fragmented"} /\
                                            \E content \in contents : content = Commands(p)}
  <2>1. \A p : p \in DOMAIN kinds' <=> p \in DOMAIN kinds \/ p = n
    BY <1>9, <1>10
  <2>2. \A content \in contents : content # Commands(n)'
    BY <1>13
  <2>3. contents' = contents
    BY <1>7
  <2> HIDE DEF contents
  <2>4. ArrivedReliably' = {p \in DOMAIN kinds' : kinds'[p] \in {"reliable", "fragmented"} /\
                                                    \E content \in contents : content = Commands(p)'}
    BY <2>3 DEF ArrivedReliably, contents
  <2>5. ArrivedReliably' = old
    BY <1>8, <1>11, <2>1, <2>2, <2>4
  <2>6. ArrivedReliably = old
    BY DEF ArrivedReliably, contents
  <2> QED
    BY <2>5, <2>6
<1>15. Output' = Output
  <2>1. Output = out /\ out \in Seq(DOMAIN kinds)
    BY <1>2, <1>5, RecordOutput
  <2>2. Record(last, gb, out)'
    BY <1>1, <1>5, SendRecord
  <2>3. IsOutput(network', delivered, out) /\ delivered \in Seq(Packets)
    BY <1>2, <1>7, <2>2 DEF Record
  <2>4. \A p \in DOMAIN kinds' : CommandsIn(network', p) = Commands(p)' /\ Commands(p)' # {}
    <3>1. Network'
      BY DEF FullInv, Inv
    <3>2. 0 \in 0 .. Fragments - 1
      BY Sizes
    <3>3. \A p \in DOMAIN kinds' : AreSentFor(kinds', p, Commands(p)')
      BY <3>1 DEF Network
    <3>4. \A p \in DOMAIN kinds' : Commands(p)' # {}
      BY <3>2, <3>3 DEF AreSentFor
    <3> QED
      BY <3>4 DEF Commands, CommandsIn
  <2>5. Output' = OutputIn(DOMAIN kinds', network', delivered')
    BY DEF Output, PacketOf, Commands, CommandsIn, OutputIn, PacketIn
  <2> DEFINE P == DOMAIN kinds'
             D == Packets
             m == network'
  <2>6. (\A p \in P : CommandsIn(m, p) # {}) /\ delivered \in Seq(D) /\ Output' = OutputIn(P, m, delivered)
    BY <1>7, <2>3, <2>4, <2>5
  <2>7. IsOutput(m, delivered, out) /\ out \in Seq(P)
    <3>1. DOMAIN kinds \subseteq P
      BY <1>11
    <3> QED
      BY <2>1, <2>3, <3>1, SeqMonotonic
  <2> HIDE DEF P, D, m
  <2>8. OutputIn(P, m, delivered) = out
    BY <2>6, <2>7, OutputIs
  <2> QED
    BY <2>1, <2>6, <2>8
<1> QED
  BY <1>6, <1>7, <1>14, <1>15 DEF Contract!Send

\* Whatever the network does with the commands, a channel hands over its packets
\* as its contract says: each once at most, the reliable ones without a gap and in
\* order, and an unreliable one only between the reliable ones it was sent between.
THEOREM DeliveryContractTheorem == ASSUME Limits, OneLap PROVE Spec => ImplementsDeliveryContract
<1>1. Init => Contract!Init
  <2> SUFFICES ASSUME Init PROVE Contract!Init
    OBVIOUS
  <2>1. kinds = <<>> /\ delivered = <<>> /\ DOMAIN <<>> = {}
    BY DEF Init
  <2>2. ArrivedReliably = {}
    BY <2>1 DEF ArrivedReliably
  <2>3. Output = <<>>
    BY <2>1 DEF Output
  <2> QED
    BY <2>1, <2>2, <2>3 DEF Contract!Init
<1>2. FullInv => Contract!Legal
  <2> SUFFICES ASSUME FullInv PROVE Contract!Legal
    OBVIOUS
  <2>1. PICK last \in Nat : \E gb \in Nat : \E out : Record(last, gb, out)
    BY DEF FullInv
  <2>2. PICK gb \in Nat : \E out : Record(last, gb, out)
    BY <2>1
  <2>3. PICK out : Record(last, gb, out)
    BY <2>2
  <2> QED
    BY <2>3, RecordLegal DEF FullInv
<1>3. FullInv /\ FullInv' /\ Contract!Legal' /\ [Next]_vars => [Contract!Next]_(Contract!contractVars)
  <2> SUFFICES ASSUME FullInv, FullInv', Contract!Legal', [Next]_vars
               PROVE  Contract!Next \/ UNCHANGED Contract!contractVars
    OBVIOUS
  <2>1. CASE UNCHANGED vars
    <3>1. UNCHANGED <<kinds, network, held, delivered>>
      BY <2>1 DEF vars
    <3>2. ArrivedReliably' = ArrivedReliably /\ Output' = Output
      BY <3>1 DEF ArrivedReliably, Output, PacketOf, Commands
    <3> QED
      BY <3>1, <3>2 DEF Contract!contractVars
  <2>2. ASSUME NEW k \in Kinds, Send(k) PROVE Contract!Next
    BY <2>2, SendSends DEF Contract!Next
  <2>3. ASSUME NEW c \in network, Receive(c) PROVE Contract!Next
    BY <2>3, ReceiveDelivers DEF Contract!Next
  <2> QED
    BY <2>1, <2>2, <2>3 DEF Next
<1> QED
  BY <1>1, <1>2, <1>3, FullAlways, PTL DEF Spec, ImplementsDeliveryContract, Contract!Spec

=============================================================================
