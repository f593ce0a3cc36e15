------------------------- MODULE EnetChannelProofs -------------------------
(***************************************************************************)
(* The reliable channel, for windows of any size and number with           *)
(* Windows >= 2 * FreeWindows: types, no command forgotten before it has   *)
(* arrived, and the refinement of ChannelContract, if neither the network  *)
(* nor the sender keeps a command for more than Reach commands.            *)
(*                                                                         *)
(* The invariant counts commands without a bound, to say by how many they  *)
(* are apart; SeqNo(n) is what the code sees of command n.  MayStart lets  *)
(* the sender enter a window only when some command of the window before   *)
(* was acknowledged, so it stays within FreeWindows - 1 windows of what    *)
(* was delivered (Ahead), and nothing that is still to be delivered can be *)
(* taken for old (NewIsNew).  Recent is the other half: what lags by no    *)
(* more than Reach cannot be taken for new (OldIsOld).                     *)
(***************************************************************************)
EXTENDS EnetChannel, FiniteSetTheorems, SequenceTheorems, WellFoundedInduction, TLAPS

-----------------------------------------------------------------------------
(***************************************************************************)
(* Arithmetic: quotients, remainders and the windows of a number.          *)
(***************************************************************************)

\* The quotient and the remainder that div and % give.
LEMMA DivMod ==
  ASSUME NEW a \in Nat, NEW b \in Nat \ {0}
  PROVE  /\ a \div b \in Nat /\ a % b \in 0 .. b - 1
         /\ a = b * (a \div b) + (a % b)
OBVIOUS

\* A larger factor makes a difference of at least one b.
LEMMA Times ==
  ASSUME NEW b \in Nat, NEW p \in Int, NEW q \in Int, p < q
  PROVE  b * p + b <= b * q
<1>1. PICK d \in Nat : q = p + 1 + d
  <2>1. q - p - 1 \in Nat /\ q = p + 1 + (q - p - 1)
    OBVIOUS
  <2> QED
    BY <2>1
<1>2. b * q = b * p + b + b * d
  BY <1>1
<1>3. b * d \in Nat /\ b * p \in Int
  OBVIOUS
<1> QED
  BY <1>2, <1>3

\* A quotient and a remainder are the only ones.
LEMMA DivModUnique ==
  ASSUME NEW b \in Nat \ {0}, NEW p \in Int, NEW q \in Int,
         NEW r \in 0 .. b - 1, NEW s \in 0 .. b - 1, b * p + r = b * q + s
  PROVE  p = q /\ r = s
<1>1. b * p \in Int /\ b * q \in Int
  OBVIOUS
<1>2. ~(p < q)
  BY <1>1, Times
<1>3. ~(q < p)
  BY <1>1, Times
<1>4. p = q
  BY <1>2, <1>3
<1> QED
  BY <1>1, <1>4

\* What has the form of a quotient and a remainder is div and %.
LEMMA QuotientIs ==
  ASSUME NEW a \in Nat, NEW b \in Nat \ {0}, NEW q \in Int, NEW r \in 0 .. b - 1,
         a = b * q + r
  PROVE  a \div b = q /\ a % b = r
<1> DEFINE p == a \div b
           s == a % b
<1>1. p \in Int /\ s \in 0 .. b - 1 /\ a = b * p + s
  BY DivMod, SMTT(30)
<1> HIDE DEF p, s
<1>2. p = q /\ s = r
  <2>1. b * p + s = b * q + r
    BY <1>1
  <2> QED
    BY <1>1, <2>1, DivModUnique
<1> QED
  BY <1>2 DEF p, s

\* The window of a command, before its number is cut to 16 bits.
Win(n) == n \div WindowSize

Reach == (Windows - FreeWindows + 1) * WindowSize

\* The types of the sizes, and how they compare.
LEMMA Sizes ==
  /\ WindowSize \in Nat \ {0} /\ Windows \in Nat \ {0} /\ FreeWindows \in Nat
  /\ FreeWindows >= 3 /\ Windows >= 2 * FreeWindows
  /\ SequenceSpace \in Nat \ {0}
  /\ Reach \in Nat /\ Reach + FreeWindows * WindowSize = SequenceSpace + WindowSize
  /\ FreeWindows * WindowSize \in Nat /\ FreeWindows * WindowSize >= 3 * WindowSize
  /\ SequenceSpace >= 2 * (FreeWindows * WindowSize)
<1>1. /\ WindowSize \in Nat \ {0} /\ Windows \in Nat \ {0} /\ FreeWindows \in Nat
      /\ FreeWindows >= 3 /\ Windows >= 2 * FreeWindows
  BY WindowAssumption
<1>2. SequenceSpace \in Nat \ {0}
  BY <1>1 DEF SequenceSpace
<1>3. Windows - FreeWindows + 1 \in Nat
  BY <1>1
<1>4. Reach \in Nat
  BY <1>1, <1>3 DEF Reach
<1>5. Reach + FreeWindows * WindowSize = SequenceSpace + WindowSize
  BY <1>1 DEF Reach, SequenceSpace
<1>6. FreeWindows * WindowSize \in Nat /\ FreeWindows * WindowSize >= 3 * WindowSize
  <2>1. PICK d \in Nat : FreeWindows = 3 + d
    <3>1. FreeWindows - 3 \in Nat /\ FreeWindows = 3 + (FreeWindows - 3)
      BY <1>1
    <3> QED
      BY <3>1
  <2>2. FreeWindows * WindowSize = 3 * WindowSize + d * WindowSize
    BY <1>1, <2>1
  <2>3. d * WindowSize \in Nat
    BY <1>1
  <2> QED
    BY <1>1, <2>2, <2>3
<1>7. SequenceSpace >= 2 * (FreeWindows * WindowSize)
  <2>1. PICK d \in Nat : Windows = 2 * FreeWindows + d
    <3>1. Windows - 2 * FreeWindows \in Nat /\ Windows = 2 * FreeWindows + (Windows - 2 * FreeWindows)
      BY <1>1
    <3> QED
      BY <3>1
  <2>2. SequenceSpace = 2 * (FreeWindows * WindowSize) + d * WindowSize
    BY <1>1, <2>1 DEF SequenceSpace
  <2>3. d * WindowSize \in Nat
    BY <1>1
  <2> QED
    BY <1>6, <2>2, <2>3
<1> QED
  BY <1>1, <1>2, <1>4, <1>5, <1>6, <1>7

\* Cutting a number leaves its window but for whole laps.
LEMMA WindowOfSeqNo ==
  ASSUME NEW n \in Nat
  PROVE  /\ SeqNo(n) \in 0 .. SequenceSpace - 1
         /\ Window(SeqNo(n)) \in 0 .. Windows - 1
         /\ Win(n) \in Nat
         /\ Win(n) = Windows * (n \div SequenceSpace) + Window(SeqNo(n))
         /\ SeqNo(n) % WindowSize = n % WindowSize
<1> DEFINE q == n \div SequenceSpace
           s == SeqNo(n)
           w == Window(s)
           r == s % WindowSize
<1>1. q \in Nat /\ s \in 0 .. SequenceSpace - 1 /\ n = SequenceSpace * q + s
  BY DivMod, Sizes DEF SeqNo
<1> HIDE DEF q, s
<1>2. w \in Nat /\ r \in 0 .. WindowSize - 1 /\ s = WindowSize * w + r
  <2>1. s \in Nat
    BY <1>1
  <2>2. /\ s \div WindowSize \in Nat /\ s % WindowSize \in 0 .. WindowSize - 1
        /\ s = WindowSize * (s \div WindowSize) + (s % WindowSize)
    BY ONLY <2>1, DivMod, Sizes
  <2> QED
    BY ONLY <2>2 DEF Window
<1> DEFINE m == n % WindowSize
<1>3. Win(n) \in Nat /\ m \in 0 .. WindowSize - 1 /\ n = WindowSize * Win(n) + m
  BY DivMod, Sizes DEF Win
<1> HIDE DEF w, r, m
<1>4. w < Windows
  <2> SUFFICES ASSUME ~(w < Windows) PROVE FALSE
    OBVIOUS
  <2>1. CASE w = Windows
    BY <1>1, <1>2, <2>1, Sizes DEF SequenceSpace
  <2>2. CASE Windows < w
    <3>1. WindowSize * Windows + WindowSize <= WindowSize * w
      BY <1>2, <2>2, Times, Sizes
    <3> QED
      BY <1>1, <1>2, <3>1, Sizes DEF SequenceSpace
  <2> QED
    BY <1>2, <2>1, <2>2, Sizes
<1>5. n = WindowSize * (Windows * q + w) + r
  BY <1>1, <1>2, Sizes DEF SequenceSpace
<1>6. Windows * q + w \in Int
  BY <1>1, <1>2, Sizes
<1>7. Win(n) = Windows * q + w /\ m = r
  BY <1>2, <1>3, <1>5, <1>6, DivModUnique, Sizes
<1> QED
  BY <1>1, <1>2, <1>3, <1>4, <1>7, Sizes DEF q, s, w, r, m

\* Two numbers less than a lap apart are not cut to the same.
LEMMA SeqNoUnique ==
  ASSUME NEW m \in Nat, NEW n \in Nat, SeqNo(m) = SeqNo(n),
         m - n < SequenceSpace, n - m < SequenceSpace
  PROVE  m = n
<1> DEFINE p == m \div SequenceSpace
           q == n \div SequenceSpace
<1>1. /\ p \in Nat /\ m = SequenceSpace * p + SeqNo(m) /\ SeqNo(m) \in 0 .. SequenceSpace - 1
      /\ q \in Nat /\ n = SequenceSpace * q + SeqNo(n)
  BY DivMod, Sizes DEF SeqNo
<1> HIDE DEF p, q
<1>2. SequenceSpace * p \in Nat /\ SequenceSpace * q \in Nat
  BY <1>1, Sizes
<1>3. ~(p < q)
  <2> SUFFICES ASSUME p < q PROVE FALSE
    OBVIOUS
  <2>1. SequenceSpace * p + SequenceSpace <= SequenceSpace * q
    BY <1>1, Times, Sizes
  <2> QED
    BY <1>1, <1>2, <2>1, Sizes
<1>4. ~(q < p)
  <2> SUFFICES ASSUME q < p PROVE FALSE
    OBVIOUS
  <2>1. SequenceSpace * q + SequenceSpace <= SequenceSpace * p
    BY <1>1, Times, Sizes
  <2> QED
    BY <1>1, <1>2, <2>1, Sizes
<1> QED
  BY <1>1, <1>3, <1>4

\* Numbers may be cut before they are added.
LEMMA SeqNoAdd ==
  ASSUME NEW m \in Nat, NEW k \in Nat
  PROVE  SeqNo(SeqNo(m) + k) = SeqNo(m + k)
<1> DEFINE p == m \div SequenceSpace
           a == SeqNo(m) + k
           q == a \div SequenceSpace
           r == (m + k) \div SequenceSpace
<1>1. /\ p \in Nat /\ m = SequenceSpace * p + SeqNo(m) /\ SeqNo(m) \in 0 .. SequenceSpace - 1
  BY DivMod, Sizes DEF SeqNo
<1>2. a \in Nat /\ m + k \in Nat /\ m + k = SequenceSpace * p + a
  BY <1>1, Sizes
<1> HIDE DEF p, a
<1>3. /\ q \in Nat /\ a = SequenceSpace * q + SeqNo(a) /\ SeqNo(a) \in 0 .. SequenceSpace - 1
      /\ r \in Nat /\ m + k = SequenceSpace * r + SeqNo(m + k)
      /\ SeqNo(m + k) \in 0 .. SequenceSpace - 1
  BY <1>2, DivMod, Sizes DEF SeqNo
<1> HIDE DEF q, r
<1>4. SequenceSpace * (p + q) = SequenceSpace * p + SequenceSpace * q /\ p + q \in Int
  BY <1>1, <1>3, Sizes
<1>5. SequenceSpace * p \in Nat /\ SequenceSpace * q \in Nat
  BY <1>1, <1>3, Sizes
<1>6. SequenceSpace * (p + q) + SeqNo(a) = SequenceSpace * r + SeqNo(m + k)
  BY <1>2, <1>3, <1>4, <1>5
<1>7. SeqNo(a) = SeqNo(m + k)
  <2> DEFINE u == p + q
             v == SeqNo(m + k)
  <2>1. /\ u \in Int /\ r \in Int /\ SeqNo(a) \in 0 .. SequenceSpace - 1
        /\ v \in 0 .. SequenceSpace - 1 /\ SequenceSpace * u + SeqNo(a) = SequenceSpace * r + v
        /\ SequenceSpace \in Nat \ {0}
    BY <1>3, <1>4, <1>6, Sizes
  <2> HIDE DEF u, v
  <2>2. u = r /\ SeqNo(a) = v
    BY ONLY <2>1, DivModUnique
  <2> QED
    BY <2>2 DEF v
<1> QED
  BY <1>7 DEF a

\* Later commands are in later windows, or in the same.
LEMMA WinMonotone ==
  ASSUME NEW m \in Nat, NEW n \in Nat, NEW k \in Nat, n <= m + WindowSize * k
  PROVE  Win(n) <= Win(m) + k
<1>1. /\ Win(m) \in Nat /\ m = WindowSize * Win(m) + (m % WindowSize)
      /\ m % WindowSize \in 0 .. WindowSize - 1
      /\ Win(n) \in Nat /\ n = WindowSize * Win(n) + (n % WindowSize)
      /\ n % WindowSize \in 0 .. WindowSize - 1
  BY DivMod, Sizes DEF Win
<1> SUFFICES ASSUME Win(m) + k < Win(n) PROVE FALSE
  BY <1>1
<1>2. WindowSize * (Win(m) + k) + WindowSize <= WindowSize * Win(n)
  BY <1>1, Times, Sizes
<1>3. WindowSize * (Win(m) + k) = WindowSize * Win(m) + WindowSize * k
  BY <1>1, Sizes
<1>4. WindowSize * Win(m) \in Nat /\ WindowSize * k \in Nat /\ WindowSize * Win(n) \in Nat
  BY <1>1, Sizes
<1> QED
  BY <1>1, <1>2, <1>3, <1>4, Sizes

\* How far ahead a number is, in windows, that is a number of the next lap at
\* most; and how far ahead one seems that is of the lap before.
LEMMA SeenAhead ==
  ASSUME NEW d \in Nat, NEW n \in Nat, d < n, n < d + SequenceSpace
  PROVE  /\ WindowSeenFrom(SeqNo(d), SeqNo(n)) - Window(SeqNo(d)) = Win(n) - Win(d)
         /\ SeqNo(n) # SeqNo(d)
<1> DEFINE p == d \div SequenceSpace
           q == n \div SequenceSpace
<1>1. /\ p \in Nat /\ d = SequenceSpace * p + SeqNo(d) /\ SeqNo(d) \in 0 .. SequenceSpace - 1
      /\ q \in Nat /\ n = SequenceSpace * q + SeqNo(n) /\ SeqNo(n) \in 0 .. SequenceSpace - 1
  BY DivMod, Sizes DEF SeqNo
<1>2. /\ Win(d) = Windows * p + Window(SeqNo(d)) /\ Win(n) = Windows * q + Window(SeqNo(n))
      /\ Window(SeqNo(d)) \in 0 .. Windows - 1 /\ Window(SeqNo(n)) \in 0 .. Windows - 1
  BY WindowOfSeqNo
<1> HIDE DEF p, q
<1>3. SequenceSpace * p \in Nat /\ SequenceSpace * q \in Nat
  BY <1>1, Sizes
<1>4. CASE SeqNo(n) < SeqNo(d)
  <2>1. n = SequenceSpace * (p + 1) + SeqNo(n) - SequenceSpace + SequenceSpace * (q - p)
    BY <1>1, Sizes
  <2>2. ~(q < p + 1)
    <3> SUFFICES ASSUME q < p + 1 PROVE FALSE
      OBVIOUS
    <3>1. SequenceSpace * q + SequenceSpace <= SequenceSpace * (p + 1)
      BY <1>1, Times, Sizes
    <3>2. SequenceSpace * (p + 1) = SequenceSpace * p + SequenceSpace
      BY <1>1, Sizes
    <3> QED
      BY <1>1, <1>3, <1>4, <3>1, <3>2, Sizes
  <2>3. ~(p + 1 < q)
    <3> SUFFICES ASSUME p + 1 < q PROVE FALSE
      OBVIOUS
    <3>1. SequenceSpace * (p + 1) + SequenceSpace <= SequenceSpace * q
      BY <1>1, Times, Sizes
    <3>2. SequenceSpace * (p + 1) = SequenceSpace * p + SequenceSpace
      BY <1>1, Sizes
    <3> QED
      BY <1>1, <1>3, <3>1, <3>2, Sizes
  <2>4. q = p + 1 /\ Windows * q = Windows * p + Windows /\ Windows * p \in Nat
    BY <1>1, <2>2, <2>3, Sizes
  <2> QED
    BY <1>1, <1>2, <1>4, <2>4, Sizes DEF WindowSeenFrom
<1>5. CASE ~(SeqNo(n) < SeqNo(d))
  <2>1. ~(q < p)
    <3> SUFFICES ASSUME q < p PROVE FALSE
      OBVIOUS
    <3>1. SequenceSpace * q + SequenceSpace <= SequenceSpace * p
      BY <1>1, Times, Sizes
    <3> QED
      BY <1>1, <1>3, <3>1, Sizes
  <2>2. ~(p < q)
    <3> SUFFICES ASSUME p < q PROVE FALSE
      OBVIOUS
    <3>1. SequenceSpace * p + SequenceSpace <= SequenceSpace * q
      BY <1>1, Times, Sizes
    <3> QED
      BY <1>1, <1>3, <1>5, <3>1, Sizes
  <2>3. q = p /\ Windows * p \in Nat
    BY <1>1, <2>1, <2>2, Sizes
  <2> QED
    BY <1>1, <1>2, <1>5, <2>3, Sizes DEF WindowSeenFrom
<1> QED
  BY <1>4, <1>5

\* Where a command is seen that is behind by less than a lap.
LEMMA SeenBehind ==
  ASSUME NEW d \in Nat, NEW n \in Nat, n < d, d < n + SequenceSpace
  PROVE  /\ WindowSeenFrom(SeqNo(d), SeqNo(n)) - Window(SeqNo(d)) = Win(n) + Windows - Win(d)
         /\ SeqNo(n) # SeqNo(d)
<1> DEFINE m == n + SequenceSpace
<1>1. m \in Nat /\ d < m /\ m < d + SequenceSpace
  BY Sizes
<1>2. SeqNo(m) = SeqNo(n) /\ Win(m) = Win(n) + Windows
  <2> DEFINE p == m \div SequenceSpace
             q == n \div SequenceSpace
  <2>1. /\ p \in Nat /\ m = SequenceSpace * p + SeqNo(m) /\ SeqNo(m) \in 0 .. SequenceSpace - 1
        /\ q \in Nat /\ n = SequenceSpace * q + SeqNo(n) /\ SeqNo(n) \in 0 .. SequenceSpace - 1
    BY <1>1, DivMod, Sizes DEF SeqNo
  <2>2. /\ Win(m) = Windows * p + Window(SeqNo(m)) /\ Win(n) = Windows * q + Window(SeqNo(n))
        /\ Window(SeqNo(n)) \in 0 .. Windows - 1
    BY <1>1, WindowOfSeqNo
  <2>3. SequenceSpace * (q + 1) + SeqNo(n) = SequenceSpace * p + SeqNo(m)
    <3>1. SequenceSpace * (q + 1) = SequenceSpace * q + SequenceSpace
      BY <2>1, Sizes
    <3>2. m = n + SequenceSpace
      OBVIOUS
    <3> HIDE DEF m, p, q
    <3> QED
      BY <2>1, <3>1, <3>2, Sizes
  <2> HIDE DEF m, p, q
  <2>4. p = q + 1 /\ SeqNo(m) = SeqNo(n)
    <3> DEFINE u == q + 1
    <3>1. /\ u \in Int /\ p \in Int /\ SeqNo(n) \in 0 .. SequenceSpace - 1
          /\ SeqNo(m) \in 0 .. SequenceSpace - 1
          /\ SequenceSpace * u + SeqNo(n) = SequenceSpace * p + SeqNo(m)
          /\ SequenceSpace \in Nat \ {0}
      BY <2>1, <2>3, Sizes
    <3> HIDE DEF u
    <3>2. u = p /\ SeqNo(n) = SeqNo(m)
      BY ONLY <3>1, DivModUnique
    <3> QED
      BY <3>2 DEF u
  <2>5. Windows * (q + 1) = Windows * q + Windows /\ Windows * q \in Nat
    BY <2>1, Sizes
  <2> QED
    BY <2>2, <2>4, <2>5, Sizes
<1> HIDE DEF m
<1>3. /\ WindowSeenFrom(SeqNo(d), SeqNo(m)) - Window(SeqNo(d)) = Win(m) - Win(d)
      /\ SeqNo(m) # SeqNo(d)
  BY <1>1, SeenAhead
<1>4. Win(n) \in Nat /\ Win(d) \in Nat
  BY WindowOfSeqNo
<1> QED
  BY <1>2, <1>3, <1>4, Sizes

-----------------------------------------------------------------------------
(***************************************************************************)
(* The inductive invariant.                                                *)
(***************************************************************************)

Last == Len(delivered)

Ordered ==
  /\ \A i \in 1 .. Last : delivered[i] = i
  /\ Last <= sent /\ incoming = SeqNo(Last)

\* What is held is behind a gap, and was accepted.
Held == \A n \in held : n > Last + 1 /\ Win(n) <= Win(Last) + FreeWindows - 2

\* The network and the sender keep nothing for longer than their limits allow.
Recent == \A n \in unacked \cup toReceiver \cup toSender : sent - n <= Reach

HasArrived(n) == n \in held \/ n <= Last
Kept == \A n \in 1 .. sent : n \notin unacked => HasArrived(n)
Answered == \A n \in toSender : HasArrived(n)

\* The sender does not run away from the receiver.
Ahead == Win(sent) <= Win(Last) + FreeWindows - 1

Inv == TypeOK /\ Ordered /\ Held /\ Recent /\ Kept /\ Answered /\ Ahead

\* The types of the numbers the invariant compares.
LEMMA LastFacts ==
  ASSUME TypeOK
  PROVE  /\ Last \in Nat /\ sent \in Nat /\ Win(Last) \in Nat /\ Win(sent) \in Nat
         /\ \A n \in Nat : Win(n) \in Nat
<1>1. Last \in Nat /\ sent \in Nat
  BY LenProperties DEF TypeOK, Last
<1> QED
  BY <1>1, WindowOfSeqNo

\* Nothing was sent: the invariant holds at the start.
LEMMA InitInv == Init => Inv
<1> SUFFICES ASSUME Init PROVE Inv
  OBVIOUS
<1>1. 0 \div WindowSize = 0 /\ 0 % SequenceSpace = 0
  BY Sizes
<1>2. TypeOK
  BY Sizes DEF Init, TypeOK
<1> QED
  BY <1>1, <1>2, Sizes DEF Init, Inv, Ordered, Held, Recent, Kept, Answered, Ahead, Last, Win,
     SeqNo

\* The commands that were not delivered are less than FreeWindows windows, so that
\* none of them has the number of another.
LEMMA NotFar ==
  ASSUME TypeOK, Ordered, Ahead
  PROVE  sent - Last < FreeWindows * WindowSize
<1>1. /\ sent = WindowSize * Win(sent) + (sent % WindowSize)
      /\ sent % WindowSize \in 0 .. WindowSize - 1
      /\ Last = WindowSize * Win(Last) + (Last % WindowSize)
      /\ Last % WindowSize \in 0 .. WindowSize - 1
  BY LastFacts, DivMod, Sizes DEF Win
<1>2. Win(sent) < Win(Last) + FreeWindows
  BY LastFacts, Sizes DEF Ahead
<1>3. WindowSize * Win(sent) + WindowSize <= WindowSize * (Win(Last) + FreeWindows)
  BY <1>2, LastFacts, Times, Sizes
<1>4. WindowSize * (Win(Last) + FreeWindows) = WindowSize * Win(Last) + FreeWindows * WindowSize
  BY LastFacts, Sizes
<1>5. WindowSize * Win(Last) \in Nat /\ WindowSize * Win(sent) \in Nat
  BY LastFacts, Sizes
<1> QED
  BY <1>1, <1>3, <1>4, <1>5, LastFacts, Sizes

-----------------------------------------------------------------------------
(***************************************************************************)
(* The sender.                                                             *)
(***************************************************************************)

\* The windows before that of n = WindowSize * v: its commands are those that
\* MayStart counts.
LEMMA WindowBefore ==
  ASSUME NEW n \in Nat, NEW v \in Nat, v > 0, n = WindowSize * v,
         NEW m \in n - WindowSize .. n - 1
  PROVE  /\ m \in Nat /\ Win(n) = v /\ Win(m) = v - 1
         /\ Window(SeqNo(m)) = (Window(SeqNo(n)) + Windows - 1) % Windows
<1>1. WindowSize * v = WindowSize * (v - 1) + WindowSize /\ WindowSize * (v - 1) \in Nat
  BY Sizes
<1> DEFINE r == m - (n - WindowSize)
<1>2. r \in 0 .. WindowSize - 1 /\ m = WindowSize * (v - 1) + r /\ m \in Nat
  BY <1>1, Sizes
<1> HIDE DEF r
<1>3. Win(m) = v - 1
  <2> DEFINE u == v - 1
  <2>1. u \in Int /\ m = WindowSize * u + r /\ WindowSize \in Nat \ {0}
    BY <1>2, Sizes
  <2> HIDE DEF u
  <2>2. m \div WindowSize = u
    BY <1>2, <2>1, QuotientIs
  <2> QED
    BY <2>2 DEF u, Win
<1>4. Win(n) = v
  <2>1. WindowSize * v \in Int /\ n = WindowSize * v + 0 /\ 0 \in 0 .. WindowSize - 1
        /\ WindowSize \in Nat \ {0}
    BY Sizes
  <2>2. n \div WindowSize = v
    BY <2>1, QuotientIs
  <2> QED
    BY <2>2 DEF Win
<1> DEFINE p == m \div SequenceSpace
           q == n \div SequenceSpace
           x == Window(SeqNo(m))
           w == Window(SeqNo(n))
<1>5. /\ Win(m) = Windows * p + x /\ Win(n) = Windows * q + w
      /\ x \in 0 .. Windows - 1 /\ w \in 0 .. Windows - 1 /\ p \in Nat /\ q \in Nat
  BY <1>2, WindowOfSeqNo, DivMod, Sizes
<1> HIDE DEF p, q, x, w
<1> DEFINE a == v - 1
           e == w + Windows - 1
<1>6. a \in Nat /\ a % Windows = x
  <2>1. /\ a \in Nat /\ a = Windows * p + x /\ Windows \in Nat \ {0}
        /\ p \in Int /\ x \in 0 .. Windows - 1
    BY <1>3, <1>5, Sizes
  <2> HIDE DEF a
  <2>2. a \div Windows = p /\ a % Windows = x
    BY ONLY <2>1, QuotientIs
  <2> QED
    BY <2>1, <2>2
<1>7. e \in Nat /\ Windows \in Nat \ {0} /\ Windows * q \in Int
  BY <1>5, Sizes
<1>8. CASE w > 0
  <2> DEFINE b == w - 1
  <2>1. /\ b \in 0 .. Windows - 1 /\ a = Windows * q + b /\ e = Windows * 1 + b
        /\ q \in Int /\ 1 \in Int /\ a \in Nat /\ e \in Nat /\ Windows \in Nat \ {0}
    BY <1>4, <1>5, <1>6, <1>7, <1>8
  <2> HIDE DEF a, b, e
  <2>2. a \div Windows = q /\ a % Windows = b /\ e \div Windows = 1 /\ e % Windows = b
    BY ONLY <2>1, QuotientIs
  <2> QED
    BY <1>2, <1>3, <1>4, <1>6, <2>2 DEF x, w, e
<1>9. CASE w = 0
  <2> DEFINE u == q - 1
             b == Windows - 1
  <2>1. Windows * q = Windows * u + Windows /\ Windows * u \in Int
    BY <1>5, Sizes
  <2>2. /\ u \in Int /\ b \in 0 .. Windows - 1 /\ a = Windows * u + b /\ e = Windows * 0 + b
        /\ 0 \in Int /\ a \in Nat /\ e \in Nat /\ Windows \in Nat \ {0}
    BY <1>4, <1>5, <1>6, <1>7, <1>9, <2>1
  <2> HIDE DEF a, b, e, u
  <2>3. a \div Windows = u /\ a % Windows = b /\ e \div Windows = 0 /\ e % Windows = b
    BY ONLY <2>2, QuotientIs
  <2> QED
    BY <1>2, <1>3, <1>4, <1>6, <2>3 DEF x, w, e
<1> QED
  BY <1>5, <1>8, <1>9

\* The sender enters a window only when something of the window before was
\* acknowledged, so that the receiver is not far behind.
LEMMA SendAhead ==
  ASSUME Inv, MayStart(sent + 1)
  PROVE  Win(sent + 1) <= Win(Last) + FreeWindows - 1
<1> DEFINE n == sent + 1
           v == Win(n)
<1>1. /\ n \in Nat /\ v \in Nat /\ n = WindowSize * v + (n % WindowSize)
      /\ n % WindowSize \in 0 .. WindowSize - 1 /\ Last \in Nat /\ Win(Last) \in Nat
  <2>1. TypeOK
    BY DEF Inv
  <2>2. n \in Nat /\ Last \in Nat /\ Win(Last) \in Nat
    BY <2>1, LastFacts
  <2> HIDE DEF n
  <2> QED
    BY <2>2, DivMod, Sizes DEF Win
<1>2. CASE n % WindowSize # 0
  <2> DEFINE r == (n % WindowSize) - 1
  <2>1. r \in 0 .. WindowSize - 1 /\ WindowSize * v \in Int /\ sent = WindowSize * v + r
    <3>1. sent \in Nat /\ n = sent + 1
      BY LastFacts DEF Inv
    <3> DEFINE d == n % WindowSize
    <3> HIDE DEF v, d, n
    <3>2. n = WindowSize * v + d /\ d \in 1 .. WindowSize - 1 /\ WindowSize * v \in Int
      BY <1>1, <1>2, Sizes DEF d
    <3>3. d - 1 \in 0 .. WindowSize - 1 /\ sent = WindowSize * v + (d - 1)
      BY ONLY <3>1, <3>2, Sizes
    <3> QED
      BY <3>2, <3>3 DEF d
  <2>2. sent \in Nat /\ v \in Int /\ WindowSize \in Nat \ {0}
    BY <1>1, LastFacts, Sizes DEF Inv
  <2> HIDE DEF r, v
  <2>3. Win(sent) = v
    BY <2>1, <2>2, QuotientIs DEF Win
  <2> QED
    BY <2>3 DEF Inv, Ahead, v
<1>3. CASE n % WindowSize = 0 /\ v <= 1
  BY <1>1, <1>3, Sizes
<1>4. CASE n % WindowSize = 0 /\ v > 1
  <2> DEFINE B == n - WindowSize .. n - 1
             U == InWindow((Window(SeqNo(n)) + Windows - 1) % Windows)
  <2>1. n = WindowSize * v /\ n - WindowSize >= WindowSize
    <3> HIDE DEF n, v
    <3>1. WindowSize * 1 + WindowSize <= WindowSize * v
      BY <1>1, <1>4, Times, Sizes
    <3>2. WindowSize * v \in Int
      BY <1>1, Sizes
    <3> QED
      BY <1>1, <1>4, <3>1, <3>2, Sizes
  <2>2. SeqNo(n) % WindowSize = 0
    BY <1>1, <1>4, WindowOfSeqNo
  <2>3. Cardinality(U) < WindowSize
    BY <2>2 DEF MayStart
  <2>4. IsFiniteSet(U) /\ Cardinality(B) = WindowSize
    <3>1. U \subseteq unacked
      BY DEF InWindow
    <3> HIDE DEF U
    <3>2. U \subseteq 1 .. sent /\ sent \in Int
      BY <3>1 DEF Inv, TypeOK
    <3>3. IsFiniteSet(1 .. sent)
      BY <3>2, FS_Interval
    <3>4. IsFiniteSet(U)
      BY <3>2, <3>3, FS_Subset
    <3>5. n - WindowSize \in Int /\ n - 1 \in Int /\ n - WindowSize <= n - 1
      BY <1>1, Sizes
    <3>6. Cardinality(B) = (n - 1) - (n - WindowSize) + 1
      BY <3>5, FS_Interval
    <3> QED
      BY <1>1, <3>4, <3>6, Sizes
  <2>5. ~(B \subseteq U)
    <3> SUFFICES ASSUME B \subseteq U PROVE FALSE
      OBVIOUS
    <3>1. Cardinality(B) <= Cardinality(U)
      BY <2>4, FS_Subset
    <3>2. Cardinality(U) \in Nat
      BY <2>4, FS_CardinalityType
    <3> QED
      BY <2>3, <2>4, <3>1, <3>2, Sizes
  <2>6. PICK m \in B : m \notin U
    BY <2>5
  <2>7. Win(m) = v - 1 /\ m \notin unacked /\ m \in 1 .. sent
    <3>1. m \in 1 .. sent
      <4>1. n - 1 = sent /\ sent \in Nat
        BY LastFacts DEF Inv
      <4> QED
        BY <1>1, <2>1, <2>6, <4>1, Sizes
    <3>2. /\ Win(m) = v - 1
          /\ Window(SeqNo(m)) = (Window(SeqNo(n)) + Windows - 1) % Windows
      BY <1>1, <1>4, <2>1, WindowBefore
    <3> QED
      BY <2>6, <3>1, <3>2 DEF InWindow
  <2>8. HasArrived(m)
    BY <2>7 DEF Inv, Kept
  <2>9. CASE m \in held
    BY <1>1, <2>7, <2>9, Sizes DEF Inv, Held
  <2>10. CASE m <= Last
    <3>1. Win(m) <= Win(Last) + 0
      BY <1>1, <2>7, <2>10, WinMonotone, Sizes
    <3> QED
      BY <1>1, <2>7, <3>1, Sizes
  <2> QED
    BY <2>8, <2>9, <2>10 DEF HasArrived
<1> QED
  BY <1>1, <1>2, <1>3, <1>4

Limits == MaxSpan <= Reach + 1 /\ MaxLag <= Reach + 1

\* Sending keeps the invariant: a command is only sent when the oldest is not too far back.
LEMMA SendInv ==
  ASSUME Limits, Inv, SendCommand
  PROVE  Inv'
<1>1. /\ sent \in Nat /\ sent' = sent + 1 /\ MayStart(sent + 1) /\ NothingLags
      /\ unacked' = unacked \cup {sent + 1} /\ toReceiver' = toReceiver \cup {sent + 1}
      /\ UNCHANGED <<toSender, incoming, held, delivered>>
  BY DEF SendCommand, receiverVars, Inv, TypeOK
<1>2. Last' = Last /\ Last \in Nat
  BY <1>1, LastFacts DEF Last, Inv
<1>3. TypeOK'
  <2>1. delivered \in Seq(1 .. sent + 1)
    BY <1>1 DEF Inv, TypeOK
  <2> QED
    BY <1>1, <2>1 DEF Inv, TypeOK
<1>4. Ordered' /\ Held'
  BY <1>1, <1>2 DEF Inv, Ordered, Held
<1>5. Recent'
  <2> SUFFICES ASSUME NEW n \in unacked' \cup toReceiver' \cup toSender' PROVE sent' - n <= Reach
    BY DEF Recent
  <2>1. CASE n = sent + 1
    BY <1>1, <2>1, Sizes
  <2>2. CASE n \in unacked
    <3>1. sent + 1 - n < MaxSpan /\ n \in Nat
      BY <1>1, <2>2 DEF NothingLags, Inv, TypeOK
    <3> QED
      BY <1>1, <3>1, Sizes, BoundsAssumption DEF Limits
  <2>3. CASE n \in toReceiver \cup toSender
    <3>1. sent + 1 - n < MaxLag /\ n \in Nat
      BY <1>1, <2>3 DEF NothingLags, Inv, TypeOK
    <3> QED
      BY <1>1, <3>1, Sizes, BoundsAssumption DEF Limits
  <2> QED
    BY <1>1, <2>1, <2>2, <2>3
<1>6. Kept' /\ Answered'
  BY <1>1, <1>2 DEF Inv, Kept, Answered, HasArrived
<1>7. Ahead'
  BY <1>1, <1>2, SendAhead DEF Ahead
<1> QED
  BY <1>3, <1>4, <1>5, <1>6, <1>7 DEF Inv

\* An acknowledgement is only taken for the command it was given for.
LEMMA ReceiveAckInv ==
  ASSUME Inv, NEW n \in 1 .. sent, ReceiveAck(n)
  PROVE  Inv'
<1>1. /\ n \in toSender /\ unacked' = {m \in unacked : SeqNo(m) # SeqNo(n)}
      /\ toSender' \subseteq toSender
      /\ UNCHANGED <<sent, toReceiver, incoming, held, delivered>>
  BY DEF ReceiveAck, receiverVars
<1>2. Last' = Last /\ sent \in Nat
  BY <1>1 DEF Last, Inv, TypeOK
<1>3. \A m \in unacked : SeqNo(m) = SeqNo(n) => m = n
  <2> SUFFICES ASSUME NEW m \in unacked, SeqNo(m) = SeqNo(n) PROVE m = n
    OBVIOUS
  <2>1. /\ m \in 1 .. sent /\ sent - m <= Reach /\ sent - n <= Reach
    BY <1>1 DEF Inv, TypeOK, Recent
  <2>2. m - n < SequenceSpace /\ n - m < SequenceSpace /\ m \in Nat /\ n \in Nat
    BY <1>2, <2>1, Sizes
  <2> QED
    BY <2>2, SeqNoUnique
<1>4. TypeOK' /\ Ordered' /\ Held' /\ Recent' /\ Answered' /\ Ahead'
  BY <1>1, <1>2 DEF Inv, TypeOK, Ordered, Held, Recent, Answered, HasArrived, Ahead
<1>5. Kept'
  BY <1>1, <1>2, <1>3 DEF Inv, Kept, Answered, HasArrived
<1> QED
  BY <1>4, <1>5 DEF Inv

\* What the sender repeats is no older than what it keeps, and what is lost is
\* missed by nobody.
LEMMA NetworkInv ==
  ASSUME Inv, (\E n \in 1 .. sent : Resend(n)) \/ Lose
  PROVE  Inv'
<1>1. /\ toReceiver' \subseteq toReceiver \cup unacked /\ toSender' \subseteq toSender
      /\ UNCHANGED <<senderVars, receiverVars>>
  BY DEF Resend, Lose
<1>2. UNCHANGED <<sent, unacked, incoming, held, delivered, Last>>
  BY <1>1 DEF senderVars, receiverVars, Last
<1> QED
  BY <1>1, <1>2 DEF Inv, TypeOK, Ordered, Held, Recent, Kept, Answered, HasArrived, Ahead

-----------------------------------------------------------------------------
(***************************************************************************)
(* The receiver.                                                           *)
(***************************************************************************)

\* Where the receiver sees a window is a number.
LEMMA SeenIsNat ==
  ASSUME NEW m \in Nat, NEW n \in Nat
  PROVE  WindowSeenFrom(SeqNo(m), SeqNo(n)) \in Nat /\ Window(SeqNo(m)) \in Nat
<1>1. /\ Window(SeqNo(n)) \in Nat /\ Window(SeqNo(m)) \in Nat /\ Windows \in Nat
  BY WindowOfSeqNo, Sizes
<1> QED
  BY ONLY <1>1 DEF WindowSeenFrom

\* What was delivered is not taken for new.
LEMMA OldIsOld ==
  ASSUME Inv, NEW n \in toReceiver, n <= Last
  PROVE  ~IsNew(SeqNo(n))
<1>1. /\ n \in Nat /\ n \in 1 .. sent /\ sent \in Nat /\ Last \in Nat /\ Last <= sent
      /\ sent - n <= Reach /\ incoming = SeqNo(Last)
  BY LastFacts DEF Inv, TypeOK, Recent, Ordered
<1>2. CASE n = Last
  BY <1>1, <1>2 DEF IsNew
<1>3. CASE n < Last
  <2>1. Last < n + SequenceSpace /\ Last <= n + Reach
    BY <1>1, Sizes
  <2>2. WindowSeenFrom(incoming, SeqNo(n)) - Window(incoming) = Win(n) + Windows - Win(Last)
    BY <1>1, <1>3, <2>1, SeenBehind
  <2>3. Win(Last) <= Win(n) + (Windows - FreeWindows + 1)
    <3> DEFINE k == Windows - FreeWindows + 1
    <3>1. k \in Nat /\ Reach = WindowSize * k
      BY Sizes DEF Reach
    <3> HIDE DEF k
    <3>2. Win(Last) <= Win(n) + k
      BY <1>1, <2>1, <3>1, WinMonotone
    <3> QED
      BY <3>2 DEF k
  <2>4. /\ Win(n) \in Nat /\ Win(Last) \in Nat /\ Window(incoming) \in Nat
        /\ WindowSeenFrom(incoming, SeqNo(n)) \in Nat
    BY <1>1, SeenIsNat, WindowOfSeqNo
  <2> QED
    BY <2>2, <2>3, <2>4, Sizes DEF IsNew
<1> QED
  BY <1>1, <1>2, <1>3

\* What was not delivered and is not taken for new is held, or gets no answer.
LEMMA NewIsNew ==
  ASSUME Inv, NEW n \in 1 .. sent, n > Last
  PROVE  /\ IsNew(SeqNo(n)) => n \notin held /\ Win(n) <= Win(Last) + FreeWindows - 2
         /\ ~IsNew(SeqNo(n)) => n \in held \/ ~Acknowledges(incoming, SeqNo(n))
<1>1. /\ n \in Nat /\ sent \in Nat /\ Last \in Nat /\ Last <= sent /\ incoming = SeqNo(Last)
      /\ sent - Last < FreeWindows * WindowSize /\ held \subseteq 1 .. sent
      /\ \A m \in held : m > Last
  <2>1. \A m \in held : m > Last + 1 /\ m \in Nat
    BY DEF Inv, Held, TypeOK
  <2>2. TypeOK /\ Ordered /\ Ahead
    BY DEF Inv
  <2>3. sent - Last < FreeWindows * WindowSize /\ Last \in Nat
    BY <2>2, NotFar, LastFacts
  <2> QED
    BY <2>1, <2>2, <2>3 DEF TypeOK, Ordered
<1> DEFINE seen == WindowSeenFrom(incoming, SeqNo(n))
<1>2. seen - Window(incoming) = Win(n) - Win(Last) /\ SeqNo(n) # incoming
  <2>1. n < Last + SequenceSpace
    BY <1>1, Sizes
  <2> QED
    BY <1>1, <2>1, SeenAhead
<1>3. /\ Win(n) \in Nat /\ Win(Last) \in Nat /\ Window(incoming) \in Nat /\ seen \in Nat
  BY <1>1, SeenIsNat, WindowOfSeqNo
<1>4. \A m \in held : SeqNo(m) = SeqNo(n) => m = n
  <2> SUFFICES ASSUME NEW m \in held, SeqNo(m) = SeqNo(n) PROVE m = n
    OBVIOUS
  <2>1. m \in Nat /\ m > Last /\ m <= sent
    BY <1>1
  <2>2. m - n < SequenceSpace /\ n - m < SequenceSpace
    BY <1>1, <2>1, Sizes
  <2> QED
    BY <1>1, <2>1, <2>2, SeqNoUnique
<1>5. Win(n) <= Win(Last) + FreeWindows - 1
  <2>1. Win(n) <= Win(sent) + 0
    <3>1. n <= sent + WindowSize * 0
      BY <1>1, Sizes
    <3> QED
      BY <1>1, <3>1, WinMonotone
  <2> QED
    BY <1>1, <1>3, <2>1, LastFacts, Sizes DEF Inv, Ahead
<1>6. IsNew(SeqNo(n)) <=> Win(n) - Win(Last) < FreeWindows - 1 /\ n \notin held
  <2> HIDE DEF seen
  <2>1. seen < Window(incoming) + FreeWindows - 1 <=> Win(n) - Win(Last) < FreeWindows - 1
    BY <1>2, <1>3, Sizes
  <2> QED
    BY <1>2, <1>4, <2>1 DEF IsNew, seen
<1>7. Win(n) - Win(Last) = FreeWindows - 1 => ~Acknowledges(incoming, SeqNo(n))
  <2> HIDE DEF seen
  <2>1. Win(n) - Win(Last) = FreeWindows - 1 => seen = Window(incoming) + FreeWindows - 1
    BY <1>2, <1>3, Sizes
  <2> QED
    BY <2>1 DEF Acknowledges, seen
<1> QED
  BY <1>3, <1>5, <1>6, <1>7, Sizes

\* What goes to dispatchedCommands when n has come: the commands from the next one
\* up to the first gap.
LEMMA InSequenceIs ==
  ASSUME Inv, NEW n \in 1 .. sent, n > Last
  PROVE  LET h == held \cup {n}
         IN  \E k \in Nat : /\ InSequence(h) = [i \in 1 .. k |-> Last + i]
                            /\ Last + 1 .. Last + k \subseteq h
                            /\ Last + k + 1 \notin h
<1> DEFINE h == held \cup {n}
           has(i) == \E m \in h : SeqNo(m) = SeqNo(incoming + i)
           size == Cardinality(h)
<1>1. /\ sent \in Nat /\ Last \in Nat /\ Last <= sent /\ incoming = SeqNo(Last)
      /\ sent - Last < FreeWindows * WindowSize
      /\ \A m \in h : m \in Last + 1 .. sent
  <2>1. TypeOK /\ Ordered /\ Ahead /\ Held
    BY DEF Inv
  <2>2. sent - Last < FreeWindows * WindowSize /\ Last \in Nat /\ sent \in Nat
    BY <2>1, NotFar, LastFacts
  <2>3. \A m \in held : m \in Last + 1 .. sent
    BY <2>1, <2>2 DEF Held, TypeOK
  <2> QED
    BY <2>1, <2>2, <2>3 DEF Ordered
<1>2. IsFiniteSet(h) /\ size \in Nat /\ size <= sent - Last
  <2>1. h \subseteq Last + 1 .. sent /\ Last + 1 \in Int /\ sent \in Int /\ ~(Last + 1 > sent)
    BY <1>1
  <2>2. IsFiniteSet(Last + 1 .. sent) /\ Cardinality(Last + 1 .. sent) = sent - (Last + 1) + 1
    BY <2>1, FS_Interval
  <2>3. IsFiniteSet(h) /\ size <= Cardinality(Last + 1 .. sent)
    BY <2>1, <2>2, FS_Subset
  <2>4. size \in Nat
    BY <2>3, FS_CardinalityType
  <2> QED
    BY <1>1, <2>2, <2>3, <2>4
<1> HIDE DEF h, size
\* The number of a command that is awaited is that of no other.
<1>3. ASSUME NEW i \in 1 .. size + 1
      PROVE  /\ has(i) <=> Last + i \in h
             /\ \A m \in h : SeqNo(m) = SeqNo(incoming + i) => m = Last + i
             /\ SeqNo(Last + i) = SeqNo(incoming + i)
  <2>1. SeqNo(incoming + i) = SeqNo(Last + i)
    BY <1>1, <1>2, SeqNoAdd
  <2>2. ASSUME NEW m \in h, SeqNo(m) = SeqNo(Last + i)
        PROVE  m = Last + i
    <3>1. /\ m \in Nat /\ Last + i \in Nat /\ m - (Last + i) < SequenceSpace
          /\ (Last + i) - m < SequenceSpace
      BY <1>1, <1>2, Sizes
    <3> QED
      BY <2>2, <3>1, SeqNoUnique
  <2> QED
    BY <2>1, <2>2
<1> DEFINE Gaps == {j \in Nat : Last + (j + 1) \notin h}
\* There is a first gap, and what is before it can be counted.
<1>4. PICK j \in Gaps : \A i \in Gaps : ~(i < j)
  <2>1. sent - Last \in Gaps
    <3>1. sent - Last \in Nat /\ Last + ((sent - Last) + 1) = sent + 1
      BY <1>1
    <3>2. sent + 1 \notin h
      BY <1>1
    <3> QED
      BY <3>1, <3>2
  <2>2. Gaps \subseteq Nat /\ Gaps # {}
    BY <2>1
  <2> HIDE DEF Gaps
  <2>3. PICK j \in Gaps : \A i \in Gaps : <<i, j>> \notin OpToRel(<, Nat)
    BY <2>2, WFMin, NatLessThanWellFounded, Zenon
  <2>4. \A i \in Gaps : ~(i < j)
    BY <2>2, <2>3, Zenon DEF OpToRel
  <2> QED
    BY <2>4
<1>5. j \in Nat /\ Last + (j + 1) \notin h /\ \A i \in 1 .. j : Last + i \in h
  <2>1. j \in Nat /\ Last + (j + 1) \notin h
    OBVIOUS
  <2>2. ASSUME NEW i \in 1 .. j
        PROVE  Last + i \in h
    <3>1. i - 1 \in Nat /\ i - 1 < j /\ (i - 1) + 1 = i
      BY <2>1
    <3>2. i - 1 \notin Gaps
      BY <1>4, <3>1
    <3> QED
      BY <3>1, <3>2
  <2> QED
    BY <2>1, <2>2
<1>6. j \in 0 .. size
  <2>1. Last + 1 .. Last + j \subseteq h
    <3> SUFFICES ASSUME NEW m \in Last + 1 .. Last + j PROVE m \in h
      OBVIOUS
    <3>1. m - Last \in 1 .. j /\ Last + (m - Last) = m
      BY <1>1, <1>5
    <3> QED
      BY <1>5, <3>1
  <2>2. Cardinality(Last + 1 .. Last + j) <= size
    BY <1>2, <2>1, FS_Subset DEF size
  <2>3. Cardinality(Last + 1 .. Last + j) = j
    <3>1. Last + 1 \in Int /\ Last + j \in Int
      BY <1>1, <1>5
    <3>2. Cardinality(Last + 1 .. Last + j)
            = IF Last + 1 > Last + j THEN 0 ELSE (Last + j) - (Last + 1) + 1
      BY <3>1, FS_Interval
    <3> QED
      BY <1>1, <1>5, <3>2
  <2> QED
    BY <1>2, <1>5, <2>2, <2>3
<1> DEFINE Good(c) == ~has(c + 1) /\ \A i \in 1 .. c : has(i)
           k == CHOOSE c \in 0 .. size : Good(c)
<1>7. k \in 0 .. size /\ Good(k)
  <2>1. Good(j)
    <3>1. j + 1 \in 1 .. size + 1 /\ \A i \in 1 .. j : i \in 1 .. size + 1
      BY <1>2, <1>6
    <3> HIDE DEF has
    <3> QED
      BY <1>3, <1>5, <3>1
  <2> HIDE DEF Good
  <2> QED
    BY <1>6, <2>1
<1>8. InSequence(h) = [i \in 1 .. k |-> CHOOSE m \in h : SeqNo(m) = SeqNo(incoming + i)]
  BY DEF InSequence, size
<1> HIDE DEF k
<1>9. /\ \A i \in 1 .. k : i \in 1 .. size + 1 /\ Last + i \in h
      /\ Last + (k + 1) \notin h
  <2>1. k + 1 \in 1 .. size + 1 /\ \A i \in 1 .. k : i \in 1 .. size + 1
    BY <1>2, <1>7
  <2> HIDE DEF has
  <2> QED
    BY <1>3, <1>7, <2>1
<1>10. \A i \in 1 .. k : (CHOOSE m \in h : SeqNo(m) = SeqNo(incoming + i)) = Last + i
  <2> SUFFICES ASSUME NEW i \in 1 .. k
               PROVE  (CHOOSE m \in h : SeqNo(m) = SeqNo(incoming + i)) = Last + i
    OBVIOUS
  <2>1. /\ \A m \in h : SeqNo(m) = SeqNo(incoming + i) => m = Last + i
        /\ SeqNo(Last + i) = SeqNo(incoming + i) /\ Last + i \in h
    BY <1>3, <1>9
  <2> QED
    BY <2>1
<1>11. InSequence(h) = [i \in 1 .. k |-> Last + i]
  BY <1>8, <1>10
<1>12. Last + 1 .. Last + k \subseteq h
  <2> SUFFICES ASSUME NEW m \in Last + 1 .. Last + k PROVE m \in h
    OBVIOUS
  <2>1. m - Last \in 1 .. k /\ Last + (m - Last) = m
    BY <1>1, <1>2, <1>7
  <2> QED
    BY <1>9, <2>1
<1>13. k \in Nat /\ Last + k + 1 \notin h
  BY <1>1, <1>2, <1>7, <1>9
<1> QED
  BY <1>11, <1>12, <1>13 DEF h

\* Accepting a command delivers it with those held that follow, up to the first gap.
LEMMA AcceptResult ==
  ASSUME Inv, NEW n \in 1 .. sent, n > Last, Accept(n)
  PROVE  \E k \in Nat : /\ Last' = Last + k /\ delivered' = [i \in 1 .. Last + k |-> i]
                        /\ incoming' = SeqNo(Last + k)
                        /\ Last + 1 .. Last + k \subseteq held \cup {n}
                        /\ held' = (held \cup {n}) \ (Last + 1 .. Last + k)
                        /\ Last + k + 1 \notin held \cup {n}
<1> DEFINE h == held \cup {n}
<1>1. PICK k \in Nat : /\ InSequence(h) = [i \in 1 .. k |-> Last + i]
                       /\ Last + 1 .. Last + k \subseteq h
                       /\ Last + k + 1 \notin h
  BY InSequenceIs
<1> DEFINE out == InSequence(h)
<1>2. /\ delivered' = delivered \o out /\ held' = h \ Range(out) /\ Advance(Len(out))
  BY DEF Accept
<1> HIDE DEF h, out
<1>3. out \in Seq(Nat) /\ Len(out) = k /\ \A i \in 1 .. k : out[i] = Last + i
  <2>1. Last \in Nat
    BY LastFacts DEF Inv
  <2> QED
    BY <1>1, <2>1 DEF out
<1>4. Range(out) = Last + 1 .. Last + k
  <2>1. Last \in Nat /\ DOMAIN out = 1 .. k
    BY <1>1, LastFacts DEF Inv, out
  <2>2. ASSUME NEW m \in Last + 1 .. Last + k
        PROVE  m \in Range(out)
    <3>1. m - Last \in 1 .. k /\ out[m - Last] = Last + (m - Last)
      BY <1>3, <2>1
    <3>2. out[m - Last] = m
      BY <2>1, <3>1
    <3> QED
      BY <2>1, <3>1, <3>2 DEF Range
  <2>3. ASSUME NEW m \in Range(out)
        PROVE  m \in Last + 1 .. Last + k
    <3>1. PICK i \in 1 .. k : m = out[i]
      BY <2>1 DEF Range
    <3> QED
      BY <1>3, <2>1, <3>1
  <2> QED
    BY <2>2, <2>3
<1>5. /\ delivered \in Seq(Nat) /\ Last \in Nat /\ Last = Len(delivered)
      /\ \A i \in 1 .. Last : delivered[i] = i
  <2>1. sent \in Nat /\ delivered \in Seq(1 .. sent)
    BY DEF Inv, TypeOK
  <2>2. delivered \in Seq(Nat)
    BY <2>1
  <2> QED
    BY <2>2, LastFacts DEF Inv, Ordered, Last
<1>6. /\ delivered' \in Seq(Nat) /\ Len(delivered') = Last + k
      /\ \A i \in 1 .. Last + k : delivered'[i] = IF i <= Last THEN delivered[i] ELSE out[i - Last]
  BY <1>2, <1>3, <1>5, ConcatProperties, ZenonT(30)
<1>7. \A i \in 1 .. Last + k : delivered'[i] = i
  <2> SUFFICES ASSUME NEW i \in 1 .. Last + k PROVE delivered'[i] = i
    OBVIOUS
  <2>1. CASE i <= Last
    <3>1. i \in 1 .. Last
      BY <1>5, <2>1
    <3> QED
      BY <1>5, <1>6, <2>1, <3>1
  <2>2. CASE ~(i <= Last)
    <3>1. i - Last \in 1 .. k /\ Last + (i - Last) = i
      BY <1>5, <2>2
    <3> QED
      BY <1>3, <1>6, <2>2, <3>1
  <2> QED
    BY <2>1, <2>2
<1>8. delivered' = [i \in 1 .. Last + k |-> i] /\ Last' = Last + k
  BY <1>6, <1>7 DEF Last
<1>9. incoming' = SeqNo(Last + k)
  <2>1. incoming = SeqNo(Last)
    BY DEF Inv, Ordered
  <2> QED
    BY <1>2, <1>3, <1>5, <2>1, SeqNoAdd DEF Advance
<1> QED
  BY <1>1, <1>2, <1>4, <1>8, <1>9 DEF h

\* A command that is accepted is kept or delivered; a gap remains behind what was
\* delivered.
LEMMA AcceptInv ==
  ASSUME Inv, NEW n \in toReceiver, n > Last, IsNew(SeqNo(n)), Accept(n),
         UNCHANGED <<sent, unacked>>, toReceiver' \subseteq toReceiver,
         toSender' \subseteq toSender \cup {n}
  PROVE  Inv'
<1>1. PICK k \in Nat : /\ Last' = Last + k /\ delivered' = [i \in 1 .. Last + k |-> i]
                       /\ incoming' = SeqNo(Last + k)
                       /\ Last + 1 .. Last + k \subseteq held \cup {n}
                       /\ held' = (held \cup {n}) \ (Last + 1 .. Last + k)
                       /\ Last + k + 1 \notin held \cup {n}
  <2>1. n \in 1 .. sent
    BY DEF Inv, TypeOK
  <2> QED
    BY <2>1, AcceptResult
<1>2. /\ n \in 1 .. sent /\ sent \in Nat /\ Last \in Nat /\ Last <= sent
      /\ held \subseteq 1 .. sent /\ unacked \subseteq 1 .. sent
      /\ toReceiver \subseteq 1 .. sent /\ toSender \subseteq 1 .. sent
  BY LastFacts DEF Inv, TypeOK, Ordered
<1>3. Last + k <= sent
  <2>1. CASE k = 0
    BY <1>2, <2>1
  <2>2. CASE k > 0
    <3>1. Last + k \in held \cup {n}
      BY <1>1, <1>2, <2>2
    <3> QED
      BY <1>2, <3>1
  <2> QED
    BY <2>1, <2>2
<1>4. TypeOK'
  <2>1. delivered' \in Seq(1 .. sent)
    BY <1>1, <1>2, <1>3
  <2>2. incoming' \in 0 .. SequenceSpace - 1
    BY <1>1, <1>2, WindowOfSeqNo
  <2> QED
    BY <1>1, <1>2, <2>1, <2>2 DEF TypeOK
<1>5. Ordered'
  BY <1>1, <1>2, <1>3 DEF Ordered
<1>6. Win(Last) <= Win(Last') /\ Win(Last') \in Nat /\ Win(Last) \in Nat
  <2>1. Last <= Last + k + WindowSize * 0 /\ Last + k \in Nat
    BY <1>2, Sizes
  <2>2. Win(Last) <= Win(Last + k) + 0
    BY <1>2, <2>1, WinMonotone
  <2> QED
    BY <1>1, <1>2, <2>1, <2>2, WindowOfSeqNo, SMTT(30)
<1>7. Held'
  <2> SUFFICES ASSUME NEW m \in held'
               PROVE  m > Last' + 1 /\ Win(m) <= Win(Last') + FreeWindows - 2
    BY DEF Held
  <2>1. /\ m \in held \cup {n} /\ m \notin Last + 1 .. Last + k /\ m # Last + k + 1 /\ m \in Nat
    BY <1>1, <1>2
  <2>2. m > Last /\ Win(m) <= Win(Last) + FreeWindows - 2
    <3>1. CASE m = n
      BY <1>2, <3>1, NewIsNew
    <3>2. CASE m \in held
      BY <1>2, <2>1, <3>2 DEF Inv, Held
    <3> QED
      BY <2>1, <3>1, <3>2
  <2>3. m > Last' + 1
    BY <1>1, <1>2, <2>1, <2>2
  <2>4. Win(m) \in Nat
    BY <2>1, WindowOfSeqNo
  <2> QED
    BY <1>6, <2>2, <2>3, <2>4, Sizes
<1>8. Recent'
  BY DEF Inv, Recent
<1>9. \A m \in 1 .. sent : HasArrived(m) \/ m = n => HasArrived(m)'
  <2> SUFFICES ASSUME NEW m \in 1 .. sent, HasArrived(m) \/ m = n
               PROVE  m \in held' \/ m <= Last'
    BY DEF HasArrived
  <2> QED
    BY <1>1, <1>2 DEF HasArrived
<1>10. Kept' /\ Answered'
  BY <1>2, <1>9 DEF Inv, Kept, Answered
<1>11. Ahead'
  <2>1. Win(sent) \in Nat
    BY <1>2, WindowOfSeqNo
  <2> QED
    BY <1>6, <2>1, Sizes DEF Inv, Ahead
<1> QED
  BY <1>4, <1>5, <1>7, <1>8, <1>10, <1>11 DEF Inv

\* What is not accepted is acknowledged only if it came before.
LEMMA ReceiveCommandInv ==
  ASSUME Inv, NEW n \in 1 .. sent, ReceiveCommand(n)
  PROVE  Inv'
<1>1. /\ n \in toReceiver /\ toReceiver' \subseteq toReceiver
      /\ toSender' \subseteq toSender \cup {n} /\ UNCHANGED <<sent, unacked>>
  BY DEF ReceiveCommand, senderVars
<1>2. n \in Nat /\ Last \in Nat
  BY LastFacts DEF Inv
<1>3. CASE IsNew(SeqNo(n))
  <2>1. n > Last /\ Accept(n)
    BY <1>1, <1>2, <1>3, OldIsOld DEF ReceiveCommand
  <2> QED
    BY <1>1, <1>3, <2>1, AcceptInv
<1>4. CASE ~IsNew(SeqNo(n))
  <2>1. UNCHANGED <<incoming, held, delivered, Last>>
    BY <1>4 DEF ReceiveCommand, receiverVars, Last
  <2>2. toSender' \subseteq toSender \/ (HasArrived(n) /\ toSender' \subseteq toSender \cup {n})
    <3>1. CASE n <= Last
      BY <1>1, <3>1 DEF HasArrived
    <3>2. CASE n > Last
      <4>1. n \in held \/ ~Acknowledges(incoming, SeqNo(n))
        BY <1>4, <3>2, NewIsNew
      <4> QED
        BY <1>1, <2>1, <4>1 DEF ReceiveCommand, HasArrived
    <3> QED
      BY <1>2, <3>1, <3>2
  <2>3. TypeOK' /\ Ordered' /\ Held' /\ Recent' /\ Kept' /\ Ahead'
    BY <1>1, <2>1 DEF Inv, TypeOK, Ordered, Held, Recent, Kept, HasArrived, Ahead
  <2>4. Answered'
    BY <2>1, <2>2 DEF Inv, Answered, HasArrived
  <2> QED
    BY <2>3, <2>4 DEF Inv
<1> QED
  BY <1>3, <1>4

\* The strengthened invariant: kept by every step of sender, network and receiver.
LEMMA Invariant ==
  ASSUME Limits
  PROVE  Spec => []Inv
<1>1. Inv /\ [Next]_vars => Inv'
  <2> SUFFICES ASSUME Inv, [Next]_vars PROVE Inv'
    OBVIOUS
  <2>1. CASE UNCHANGED vars
    BY <2>1 DEF vars, Inv, TypeOK, Ordered, Held, Recent, Kept, Answered, HasArrived, Ahead, Last
  <2> QED
    BY <2>1, SendInv, ReceiveAckInv, NetworkInv, ReceiveCommandInv DEF Next
<1> QED
  BY <1>1, InitInv, PTL DEF Spec

-----------------------------------------------------------------------------

\* What the invariant says of the sequence delivered, as sets.
LEMMA Delivered ==
  ASSUME Inv
  PROVE  /\ Range(delivered) = 1 .. Last /\ delivered = [i \in 1 .. Last |-> i]
         /\ \A n \in Nat \ {0} : n \in held \cup Range(delivered) <=> HasArrived(n)
<1>1. Last \in Nat /\ DOMAIN delivered = 1 .. Last /\ \A i \in 1 .. Last : delivered[i] = i
  BY LastFacts DEF Inv, TypeOK, Ordered, Last
<1>2. delivered = [i \in 1 .. Last |-> i]
  BY <1>1 DEF Inv, TypeOK
<1>3. Range(delivered) = 1 .. Last
  BY <1>1 DEF Range
<1> QED
  BY <1>1, <1>2, <1>3 DEF HasArrived

\* Numbers, and the number of numbers, have their types.
THEOREM ChannelTypeCorrect ==
  ASSUME Limits
  PROVE  Spec => []TypeOK
<1>1. Inv => TypeOK
  BY DEF Inv
<1> QED
  BY <1>1, Invariant, PTL

\* The sender forgets no command that the receiver has not accepted, if nothing
\* lags by more than Reach commands.
THEOREM ForgottenHasArrivedTheorem ==
  ASSUME Limits
  PROVE  Spec => []ForgottenHasArrived
<1>1. Inv => ForgottenHasArrived
  <2> SUFFICES ASSUME Inv, NEW n \in 1 .. sent, n \notin unacked
               PROVE  n \in held \cup Range(delivered)
    BY DEF ForgottenHasArrived
  <2>1. HasArrived(n) /\ n \in Nat \ {0}
    BY DEF Inv, Kept, TypeOK
  <2> QED
    BY <2>1, Delivered
<1> QED
  BY <1>1, Invariant, PTL

-----------------------------------------------------------------------------
(***************************************************************************)
(* The channel implements ChannelContract.                                 *)
(***************************************************************************)

Arrived == held \cup Range(delivered)

\* A command that is accepted is one that arrives.
LEMMA AcceptRefines ==
  ASSUME Inv, Inv', NEW n \in toReceiver, n > Last, IsNew(SeqNo(n)), Accept(n), UNCHANGED sent
  PROVE  Contract!Arrive(n)
<1>1. n \in 1 .. sent /\ sent \in Nat /\ Last \in Nat
  BY LastFacts DEF Inv, TypeOK
<1>2. PICK k \in Nat : /\ Last' = Last + k /\ delivered' = [i \in 1 .. Last + k |-> i]
                       /\ incoming' = SeqNo(Last + k)
                       /\ Last + 1 .. Last + k \subseteq held \cup {n}
                       /\ held' = (held \cup {n}) \ (Last + 1 .. Last + k)
                       /\ Last + k + 1 \notin held \cup {n}
  BY <1>1, AcceptResult
<1>3. Range(delivered) = 1 .. Last /\ Range(delivered') = 1 .. Last + k
  <2>1. Range(delivered') = 1 .. Last + k
    BY <1>1, <1>2 DEF Range
  <2> QED
    BY <2>1, Delivered
<1>4. n \notin Arrived /\ Arrived' = Arrived \cup {n}
  <2>1. n \notin held
    BY <1>1, NewIsNew
  <2>2. 1 .. Last + k = (1 .. Last) \cup (Last + 1 .. Last + k)
    BY <1>1
  <2> QED
    BY <1>1, <1>2, <1>3, <2>1, <2>2 DEF Arrived
<1>5. Contract!InOrder(Arrived') = 1 .. Last + k
  <2>1. /\ Last + k + 1 \notin Arrived' /\ 1 .. Last + k \subseteq Arrived'
        /\ \A m \in Arrived' : m \in Nat \ {0}
    <3>1. Arrived' = held' \cup (1 .. Last + k)
      BY <1>3 DEF Arrived
    <3>2. Last + k + 1 \notin held' /\ Last + k + 1 \notin 1 .. Last + k
      BY <1>1, <1>2
    <3>3. \A m \in held' : m \in Nat \ {0}
      <4>1. held' \subseteq 1 .. sent' /\ sent' \in Nat
        BY DEF Inv, TypeOK
      <4> QED
        BY <4>1
    <3> QED
      BY <1>1, <3>1, <3>2, <3>3
  <2>2. ASSUME NEW m \in Arrived', 1 .. m \subseteq Arrived'
        PROVE  m \in 1 .. Last + k
    <3>1. ~(Last + k + 1 \in 1 .. m)
      BY <2>1, <2>2
    <3> QED
      BY <1>1, <2>1, <3>1
  <2>3. ASSUME NEW m \in 1 .. Last + k
        PROVE  m \in Arrived' /\ 1 .. m \subseteq Arrived'
    <3>1. 1 .. m \subseteq 1 .. Last + k
      BY <1>1
    <3> QED
      BY <2>1, <3>1
  <2> QED
    BY <2>2, <2>3 DEF Contract!InOrder
<1>6. Contract!InOrder((held \cup Range(delivered))') = 1 .. Last + k
  BY <1>5 DEF Arrived
<1>7. /\ n \in (1 .. sent) \ (held \cup Range(delivered))
      /\ (held \cup Range(delivered))' = (held \cup Range(delivered)) \cup {n}
  BY <1>1, <1>4 DEF Arrived
<1>8. delivered' = [i \in Contract!InOrder((held \cup Range(delivered))') |-> i]
  BY <1>2, <1>6
<1> QED
  BY <1>7, <1>8 DEF Contract!Arrive

\* If nothing lags by more than Reach commands, the reliable channel hands over
\* what was sent, in order and once each, for windows of any size and number and
\* however the network loses, repeats and reorders.
THEOREM ChannelContractTheorem ==
  ASSUME Limits
  PROVE  Spec => ImplementsChannelContract
<1>1. Init => Contract!Init
  BY DEF Init, Contract!Init, Range
<1>2. Inv /\ Inv' /\ [Next]_vars => [Contract!Next]_(Contract!contractVars)
  <2> SUFFICES ASSUME Inv, Inv', [Next]_vars PROVE Contract!Next \/ UNCHANGED Contract!contractVars
    OBVIOUS
  <2>1. ASSUME UNCHANGED <<sent, held, delivered>>
        PROVE  UNCHANGED Contract!contractVars
    BY <2>1 DEF Contract!contractVars
  <2>2. CASE SendCommand
    BY <2>2 DEF SendCommand, receiverVars, Contract!Next, Contract!Send
  <2>3. ASSUME NEW n \in 1 .. sent, ReceiveCommand(n)
        PROVE  Contract!Next \/ UNCHANGED Contract!contractVars
    <3>1. n \in toReceiver /\ UNCHANGED sent /\ n \in Nat /\ Last \in Nat
      BY <2>3, LastFacts DEF ReceiveCommand, senderVars, Inv
    <3>2. CASE IsNew(SeqNo(n))
      <4>1. n > Last /\ Accept(n)
        BY <2>3, <3>1, <3>2, OldIsOld DEF ReceiveCommand
      <4> QED
        BY <3>1, <3>2, <4>1, AcceptRefines DEF Contract!Next
    <3>3. CASE ~IsNew(SeqNo(n))
      BY <2>1, <2>3, <3>1, <3>3 DEF ReceiveCommand, receiverVars
    <3> QED
      BY <3>2, <3>3
  <2>4. CASE UNCHANGED vars \/ Lose \/ \E n \in 1 .. sent : Resend(n) \/ ReceiveAck(n)
    <3>1. UNCHANGED <<sent, held, delivered>>
      BY <2>4 DEF vars, Lose, Resend, ReceiveAck, senderVars, receiverVars
    <3> QED
      BY <2>1, <3>1
  <2> QED
    BY <2>2, <2>3, <2>4 DEF Next
<1> QED
  BY <1>1, <1>2, Invariant, PTL DEF Spec, ImplementsChannelContract, Contract!Spec

=============================================================================
