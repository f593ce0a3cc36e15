--------------------------- MODULE SnifferProofs ---------------------------
(***************************************************************************)
(* What Sniffer passes on, for messages of any number and size and any     *)
(* number of datagrams: only pieces that share a start number together; as *)
(* long as datagrams come in order, the whole of each message; and what    *)
(* the game sends.                                                         *)
(***************************************************************************)
EXTENDS Sniffer, SequenceTheorems, WellFoundedInduction, TLAPS

-----------------------------------------------------------------------------
(***************************************************************************)
(* Loops: recursive functions over 0 .. n.                                 *)
(***************************************************************************)

\* What holds at the start of a loop, and after a turn if before, holds throughout.
LEMMA Throughout ==
  ASSUME NEW n \in Nat, NEW T, 0 \in T, \A k \in 1 .. n : k - 1 \in T => k \in T
  PROVE  \A k \in 0 .. n : k \in T
<1> DEFINE Bad == {k \in 0 .. n : k \notin T}
<1>1. ASSUME Bad # {} PROVE FALSE
  <2>1. Bad \subseteq Nat
    OBVIOUS
  <2>2. \E k \in Bad : \A j \in Bad : ~(j < k)
    <3> HIDE DEF Bad
    <3>1. PICK k \in Bad : \A j \in Bad : <<j, k>> \notin OpToRel(<, Nat)
      BY <1>1, <2>1, WFMin, NatLessThanWellFounded, Zenon
    <3>2. \A j \in Bad : ~(j < k)
      BY <2>1, <3>1, Zenon DEF OpToRel
    <3> QED
      BY <3>2
  <2>3. PICK k \in Bad : \A j \in Bad : ~(j < k)
    BY <2>2
  <2>4. k \in 0 .. n /\ k \notin T /\ k # 0
    OBVIOUS
  <2>5. k - 1 \in Bad /\ k - 1 < k
    BY <2>4
  <2> QED
    BY <2>3, <2>5
<1> QED
  BY <1>1

LaterUpTo(f, c, n) == f = [i \in 0 .. n |-> IF i = 0 THEN c ELSE Following(f[i - 1])]

\* The function that defines Later exists, for any number of turns.
LEMMA LaterExists ==
  ASSUME NEW c, NEW n \in Nat
  PROVE  \E f : LaterUpTo(f, c, n)
<1> DEFINE T == {k \in Nat : \E f : LaterUpTo(f, c, k)}
<1>1. 0 \in T
  <2>1. LaterUpTo([i \in 0 .. 0 |-> c], c, 0)
    BY DEF LaterUpTo
  <2> QED
    BY <2>1
<1>2. ASSUME NEW k \in 1 .. n, k - 1 \in T
      PROVE  k \in T
  <2>1. PICK f : LaterUpTo(f, c, k - 1)
    BY <1>2
  <2> DEFINE g == [i \in 0 .. k |-> IF i = k THEN Following(f[k - 1]) ELSE f[i]]
  <2>2. LaterUpTo(g, c, k)
    <3>1. \A i \in 0 .. k - 1 : f[i] = IF i = 0 THEN c ELSE Following(f[i - 1])
      BY <2>1 DEF LaterUpTo
    <3>2. \A i \in 0 .. k : g[i] = IF i = 0 THEN c ELSE Following(g[i - 1])
      BY <3>1
    <3> HIDE DEF g
    <3>3. g = [i \in 0 .. k |-> g[i]]
      BY DEF g
    <3> QED
      BY <3>2, <3>3 DEF LaterUpTo
  <2> QED
    BY <2>2
<1> HIDE DEF T
<1>3. n \in T
  BY <1>1, <1>2, Throughout
<1> QED
  BY <1>3 DEF T

LEMMA LaterIs ==
  ASSUME NEW c, NEW n \in Nat
  PROVE  Later(c, 0) = c /\ Later(c, n + 1) = Following(Later(c, n))
<1> DEFINE F(k) == CHOOSE f : LaterUpTo(f, c, k)
<1>1. \A k \in Nat : LaterUpTo(F(k), c, k) /\ Later(c, k) = F(k)[k]
  BY LaterExists DEF LaterUpTo, Later
<1> HIDE DEF F
<1>2. \A k \in Nat : /\ F(k)[0] = c
                     /\ \A i \in 1 .. k : F(k)[i] = Following(F(k)[i - 1])
  BY <1>1 DEF LaterUpTo
<1> DEFINE T == {i \in 0 .. n : F(n)[i] = F(n + 1)[i]}
<1>3. \A i \in 0 .. n : i \in T
  <2>1. 0 \in T
    BY <1>2
  <2>2. \A i \in 1 .. n : i - 1 \in T => i \in T
    BY <1>2
  <2> HIDE DEF T
  <2> QED
    BY <2>1, <2>2, Throughout
<1> QED
  BY <1>1, <1>2, <1>3

ParseUpTo(f, state, d, n) ==
  f = [i \in 0 .. n |-> IF i = 0 THEN state ELSE ParseCommand(f[i - 1], d[i])]

LEMMA ParseExists ==
  ASSUME NEW state, NEW d, NEW n \in Nat
  PROVE  \E f : ParseUpTo(f, state, d, n)
<1> DEFINE T == {k \in Nat : \E f : ParseUpTo(f, state, d, k)}
<1>1. 0 \in T
  <2>1. ParseUpTo([i \in 0 .. 0 |-> state], state, d, 0)
    BY DEF ParseUpTo
  <2> QED
    BY <2>1
<1>2. ASSUME NEW k \in 1 .. n, k - 1 \in T
      PROVE  k \in T
  <2>1. PICK f : ParseUpTo(f, state, d, k - 1)
    BY <1>2
  <2> DEFINE g == [i \in 0 .. k |-> IF i = k THEN ParseCommand(f[k - 1], d[k]) ELSE f[i]]
  <2>2. ParseUpTo(g, state, d, k)
    <3>1. \A i \in 0 .. k - 1 : f[i] = IF i = 0 THEN state ELSE ParseCommand(f[i - 1], d[i])
      BY <2>1 DEF ParseUpTo
    <3>2. \A i \in 0 .. k : g[i] = IF i = 0 THEN state ELSE ParseCommand(g[i - 1], d[i])
      BY <3>1
    <3> HIDE DEF g
    <3>3. g = [i \in 0 .. k |-> g[i]]
      BY DEF g
    <3> QED
      BY <3>2, <3>3 DEF ParseUpTo
  <2> QED
    BY <2>2
<1> HIDE DEF T
<1>3. n \in T
  BY <1>1, <1>2, Throughout
<1> QED
  BY <1>3 DEF T

\* The states while a datagram is parsed.
LEMMA ParseIs ==
  ASSUME NEW state, NEW D, NEW d \in Seq(D)
  PROVE  \E f : /\ f[0] = state /\ Parse(state, d) = f[Len(d)]
               /\ \A i \in 1 .. Len(d) : f[i] = ParseCommand(f[i - 1], d[i])
<1> DEFINE f == CHOOSE f : ParseUpTo(f, state, d, Len(d))
<1>1. Len(d) \in Nat
  OBVIOUS
<1>2. ParseUpTo(f, state, d, Len(d)) /\ Parse(state, d) = f[Len(d)]
  BY <1>1, ParseExists, SMTT(30) DEF ParseUpTo, Parse
<1> HIDE DEF f
<1>3. /\ f[0] = state /\ Parse(state, d) = f[Len(d)]
      /\ \A i \in 1 .. Len(d) : f[i] = ParseCommand(f[i - 1], d[i])
  BY <1>1, <1>2 DEF ParseUpTo
<1> QED
  BY <1>3

TakenUpTo(f, b, n) ==
  f = [k \in 0 .. n |-> IF k = 0 THEN <<>>
                        ELSE IF LooksLikeMessage(b[2 * k]) THEN Append(f[k - 1], b[2 * k + 1])
                        ELSE f[k - 1]]

LEMMA TakenExists ==
  ASSUME NEW b, NEW n \in Nat
  PROVE  \E f : TakenUpTo(f, b, n)
<1> DEFINE T == {k \in Nat : \E f : TakenUpTo(f, b, k)}
           Step(t, k) == IF LooksLikeMessage(b[2 * k]) THEN Append(t, b[2 * k + 1]) ELSE t
<1>1. 0 \in T
  <2>1. TakenUpTo([i \in 0 .. 0 |-> <<>>], b, 0)
    BY DEF TakenUpTo
  <2> QED
    BY <2>1
<1>2. ASSUME NEW k \in 1 .. n, k - 1 \in T
      PROVE  k \in T
  <2>1. PICK f : TakenUpTo(f, b, k - 1)
    BY <1>2
  <2> DEFINE g == [i \in 0 .. k |-> IF i = k THEN Step(f[k - 1], k) ELSE f[i]]
  <2>2. TakenUpTo(g, b, k)
    <3>1. \A i \in 0 .. k - 1 : f[i] = IF i = 0 THEN <<>> ELSE Step(f[i - 1], i)
      BY <2>1 DEF TakenUpTo
    <3> HIDE DEF Step
    <3>2. \A i \in 0 .. k : g[i] = IF i = 0 THEN <<>> ELSE Step(g[i - 1], i)
      BY <3>1
    <3> HIDE DEF g
    <3>3. g = [i \in 0 .. k |-> g[i]]
      BY DEF g
    <3>4. g = [i \in 0 .. k |-> IF i = 0 THEN <<>> ELSE Step(g[i - 1], i)]
      BY <3>2, <3>3
    <3> QED
      BY <3>4 DEF TakenUpTo, Step
  <2> QED
    BY <2>2
<1> HIDE DEF T
<1>3. n \in T
  BY <1>1, <1>2, Throughout
<1> QED
  BY <1>3 DEF T

LEMMA TakenIs ==
  ASSUME NEW b, (Len(b) - 1) \div 2 \in Nat
  PROVE  \E f : /\ f[0] = <<>> /\ Taken(b) = f[(Len(b) - 1) \div 2]
               /\ \A k \in 1 .. (Len(b) - 1) \div 2 :
                    f[k] = IF LooksLikeMessage(b[2 * k]) THEN Append(f[k - 1], b[2 * k + 1])
                                                        ELSE f[k - 1]
<1> DEFINE n == (Len(b) - 1) \div 2
           f == CHOOSE f : TakenUpTo(f, b, n)
<1>1. TakenUpTo(f, b, n) /\ Taken(b) = f[n]
  BY TakenExists, ZenonT(30) DEF TakenUpTo, Taken
<1> HIDE DEF f, n
<1>2. n \in Nat
  BY DEF n
<1> DEFINE Step(t, k) == IF LooksLikeMessage(b[2 * k]) THEN Append(t, b[2 * k + 1]) ELSE t
<1>3. /\ f[0] = <<>> /\ Taken(b) = f[n]
      /\ \A k \in 1 .. n : f[k] = Step(f[k - 1], k)
  <2>1. f = [k \in 0 .. n |-> IF k = 0 THEN <<>> ELSE Step(f[k - 1], k)]
    BY <1>1 DEF TakenUpTo
  <2> HIDE DEF Step
  <2> QED
    BY <1>1, <1>2, <2>1
<1> QED
  BY <1>3 DEF n

-----------------------------------------------------------------------------
(***************************************************************************)
(* Types, and what buffers are made of, whatever the network does.         *)
(***************************************************************************)

AllPieces == UNION {Pieces(m) : m \in Messages}
Buffer == [length : Nat, parts : SUBSET AllPieces, decrypted : Nat]
Starts == {Start[m] : m \in Messages}
ParseState == [buffers : [Starts -> Buffer], shown : Seq(Buffer), crashed : BOOLEAN, stopped : BOOLEAN]
State == [buffers |-> reassemble, shown |-> received, crashed |-> FALSE, stopped |-> FALSE]

\* A command of the server, or the place behind the last one.
IsPlace(c) ==
  /\ c = Command(c.msg, c.number) /\ c.msg \in Nat \ {0} /\ c.number \in Nat
  /\ c.msg \in Messages => c.number < Count[c.msg]
  /\ c.msg \notin Messages => c.number = 0 /\ c.msg = Len(Count) + 1

Types ==
  /\ IsPlace(next)
  /\ net \in Seq(Seq(AllPieces \cup {Ack}))
  /\ reassemble \in [Starts -> Buffer]
  /\ crashed \in BOOLEAN
  /\ received \in Seq(Buffer)
  /\ orderly \in BOOLEAN

Begins(parts) == \E first \in Messages : Command(first, 0) \in parts

\* What is passed on as message m, or as one with its number.
OfOne(parts) ==
  /\ Begins(parts)
  /\ \E m \in Messages :
       /\ Command(m, Count[m] - 1) \in parts
       /\ \A c \in parts : Start[c.msg] = Start[m]

\* A buffer has pieces of messages only that start with its number, and a first one.
Unmixed(buffers) ==
  \A s \in Starts :
    /\ \A c \in buffers[s].parts : Start[c.msg] = s
    /\ buffers[s].length > 0 => Begins(buffers[s].parts)

AllOfOne(shown) == \A i \in DOMAIN shown : OfOne(shown[i].parts)

Inv == Types /\ Unmixed(reassemble) /\ AllOfOne(received)

LEMMA CountFacts ==
  /\ Len(Count) \in Nat /\ Messages = 1 .. Len(Count)
  /\ \A m \in Messages : Count[m] \in Nat \ {0}
BY SnifferAssumption DEF Messages

LEMMA PieceFacts ==
  ASSUME NEW c \in AllPieces
  PROVE  /\ c.msg \in Messages /\ c.number \in 0 .. Count[c.msg] - 1
         /\ c = Command(c.msg, c.number) /\ c \in Pieces(c.msg) /\ c # Ack
<1>1. PICK m \in Messages : c \in Pieces(m)
  BY DEF AllPieces
<1>2. PICK k \in 0 .. Count[m] - 1 : c = Command(m, k)
  BY <1>1 DEF Pieces
<1>3. c.msg = m /\ c.number = k
  BY <1>2 DEF Command
<1> QED
  BY <1>1, <1>2, <1>3, CountFacts DEF Command, Ack

LEMMA PlaceIsPiece ==
  ASSUME NEW c, IsPlace(c), c.msg \in Messages
  PROVE  c \in AllPieces
BY CountFacts DEF IsPlace, AllPieces, Pieces

\* What follows a command is a place.
LEMMA FollowingIsPlace ==
  ASSUME NEW c, IsPlace(c), c.msg \in Messages
  PROVE  IsPlace(Following(c))
BY CountFacts DEF IsPlace, Following, Command

LEMMA ParseCases ==
  ASSUME NEW st, NEW c
  PROVE  /\ st.stopped \/ st.crashed => ParseCommand(st, c) = st
         /\ ~st.stopped /\ ~st.crashed /\ c = Ack =>
              ParseCommand(st, c) = [st EXCEPT !.stopped = TRUE]
         /\ ~st.stopped /\ ~st.crashed /\ c # Ack /\ Count[c.msg] = 1 =>
              ParseCommand(st, c) = Show(st, Alone(c))
         /\ ~st.stopped /\ ~st.crashed /\ c # Ack /\ Count[c.msg] # 1 =>
              ParseCommand(st, c) = Reassemble(st, c)
BY DEF ParseCommand

LEMMA ShowTypes ==
  ASSUME NEW st \in ParseState, NEW b \in Buffer
  PROVE  Show(st, b) \in ParseState
<1>1. Append(st.shown, b) \in Seq(Buffer)
  BY DEF ParseState
<1> QED
  BY <1>1 DEF Show, ParseState

LEMMA ParseCommandTypes ==
  ASSUME NEW st \in ParseState, NEW c \in AllPieces \cup {Ack}
  PROVE  ParseCommand(st, c) \in ParseState
<1>1. CASE st.stopped \/ st.crashed
  BY <1>1, ParseCases
<1>2. CASE c = Ack /\ ~st.stopped /\ ~st.crashed
  BY <1>2, ParseCases, ZenonT(30) DEF ParseState
<1>3. ASSUME c # Ack, ~st.stopped, ~st.crashed
      PROVE  ParseCommand(st, c) \in ParseState
  <2>1. c \in AllPieces /\ c.msg \in Messages /\ c.number \in Nat /\ Count[c.msg] \in Nat
    BY <1>3, PieceFacts, CountFacts
  <2>2. CASE Count[c.msg] = 1
    <3>1. ParseCommand(st, c) = Show(st, Alone(c))
      BY <1>3, <2>2, ParseCases
    <3>2. Alone(c) \in Buffer
      BY <2>1 DEF Alone, Buffer
    <3> QED
      BY <3>1, <3>2, ShowTypes
  <2>3. CASE Count[c.msg] # 1
    <3> DEFINE s == Start[c.msg]
               last == c.number = Count[c.msg] - 1
               buffer == IF c.number = 0 THEN [length |-> Count[c.msg], parts |-> {}, decrypted |-> 0]
                         ELSE st.buffers[s]
               written == [buffer EXCEPT !.parts = @ \cup {c}]
               kept == IF last THEN [written EXCEPT !.decrypted = @ + 1] ELSE written
               stored == [st EXCEPT !.buffers[s] = kept]
    <3>1. ParseCommand(st, c) = IF c.number >= buffer.length THEN [st EXCEPT !.crashed = TRUE]
                                ELSE IF last THEN Show(stored, written) ELSE stored
      BY <1>3, <2>3, ParseCases DEF Reassemble, WriteFragment
    <3>2. s \in Starts
      BY <2>1 DEF Starts
    <3>3. buffer \in Buffer
      BY <2>1, <3>2 DEF Buffer, ParseState
    <3> HIDE DEF buffer, s
    <3>4. written \in Buffer
      BY <2>1, <3>3 DEF Buffer
    <3> HIDE DEF written, last
    <3>5. kept \in Buffer
      BY <3>4 DEF Buffer, kept
    <3> HIDE DEF kept
    <3>6. stored \in ParseState
      BY <3>2, <3>5 DEF ParseState
    <3>7. Show(stored, written) \in ParseState
      BY <3>4, <3>6, ShowTypes
    <3>8. [st EXCEPT !.crashed = TRUE] \in ParseState
      BY DEF ParseState
    <3> QED
      BY <3>1, <3>6, <3>7, <3>8
  <2> QED
    BY <2>2, <2>3
<1> QED
  BY <1>1, <1>2, <1>3

\* A piece goes into the buffer of its message; what is passed on is of one message
\* and ends with the last piece.
LEMMA ParseCommandUnmixed ==
  ASSUME NEW st \in ParseState, NEW c \in AllPieces \cup {Ack},
         Unmixed(st.buffers), AllOfOne(st.shown)
  PROVE  LET next_st == ParseCommand(st, c) IN Unmixed(next_st.buffers) /\ AllOfOne(next_st.shown)
<1>1. CASE st.stopped \/ st.crashed
  BY <1>1, ParseCases
<1>2. CASE c = Ack /\ ~st.stopped /\ ~st.crashed
  BY <1>2, ParseCases DEF ParseState
<1>3. ASSUME c # Ack, ~st.stopped, ~st.crashed
      PROVE  LET next_st == ParseCommand(st, c)
             IN  Unmixed(next_st.buffers) /\ AllOfOne(next_st.shown)
  <2>1. /\ c \in AllPieces /\ c.msg \in Messages /\ c.number \in Nat /\ Count[c.msg] \in Nat
        /\ c \in Pieces(c.msg) /\ c = Command(c.msg, c.number)
    BY <1>3, PieceFacts, CountFacts
  <2>2. ASSUME NEW shown \in Seq(Buffer), NEW b \in Buffer, AllOfOne(shown), OfOne(b.parts)
        PROVE  AllOfOne(Append(shown, b))
    BY <2>2 DEF AllOfOne
  <2>3. CASE Count[c.msg] = 1
    <3>1. ParseCommand(st, c) = Show(st, Alone(c))
      BY <1>3, <2>3, ParseCases
    <3>2. Alone(c) \in Buffer
      BY <2>1 DEF Alone, Buffer
    <3>3. /\ Alone(c).parts = {c}
          /\ c = Command(c.msg, Count[c.msg] - 1) /\ c = Command(c.msg, 0)
      <4>1. c.number = Count[c.msg] - 1 /\ c.number = 0
        BY <1>3, <2>1, <2>3, PieceFacts
      <4> QED
        BY <2>1, <4>1 DEF Alone
    <3>4. OfOne(Alone(c).parts)
      BY <2>1, <3>3 DEF OfOne, Begins
    <3>5. AllOfOne(Append(st.shown, Alone(c)))
      BY <2>2, <3>2, <3>4 DEF ParseState
    <3> QED
      BY <3>1, <3>5 DEF Show, ParseState
  <2>4. CASE Count[c.msg] # 1
    <3> DEFINE s == Start[c.msg]
               last == c.number = Count[c.msg] - 1
               buffer == IF c.number = 0 THEN [length |-> Count[c.msg], parts |-> {}, decrypted |-> 0]
                         ELSE st.buffers[s]
               written == [buffer EXCEPT !.parts = @ \cup {c}]
               kept == IF last THEN [written EXCEPT !.decrypted = @ + 1] ELSE written
               stored == [st EXCEPT !.buffers[s] = kept]
    <3>1. ParseCommand(st, c) = IF c.number >= buffer.length THEN [st EXCEPT !.crashed = TRUE]
                                ELSE IF last THEN Show(stored, written) ELSE stored
      BY <1>3, <2>4, ParseCases DEF Reassemble, WriteFragment
    <3>2. s \in Starts /\ Count[c.msg] > 1
      BY <2>1, <2>4, CountFacts DEF Starts
    <3>3. buffer \in Buffer /\ \A x \in buffer.parts : Start[x.msg] = s
      <4>1. CASE c.number = 0
        BY <2>1, <4>1 DEF Buffer
      <4>2. CASE c.number # 0
        BY <2>1, <3>2, <4>2 DEF Unmixed, ParseState
      <4> QED
        BY <4>1, <4>2
    <3>11. c.number # 0 /\ buffer.length > 0 => Begins(buffer.parts)
      BY <3>2 DEF Unmixed
    <3> HIDE DEF buffer
    <3>4. /\ written \in Buffer /\ \A x \in written.parts : Start[x.msg] = s
          /\ written.parts = buffer.parts \cup {c}
      BY <2>1, <3>3 DEF Buffer
    <3>12. ~(c.number >= buffer.length) => Begins(written.parts)
      <4>1. CASE c.number = 0
        BY <2>1, <3>4, <4>1 DEF Begins
      <4>2. CASE c.number # 0
        BY <2>1, <3>3, <3>4, <3>11, <4>2 DEF Begins, Buffer
      <4> QED
        BY <4>1, <4>2
    <3> HIDE DEF written
    <3>5. kept \in Buffer /\ kept.parts = written.parts /\ \A x \in kept.parts : Start[x.msg] = s
      BY <3>4 DEF Buffer
    <3> HIDE DEF kept
    <3>6. /\ stored \in ParseState /\ stored.shown = st.shown
          /\ stored.buffers = [st.buffers EXCEPT ![s] = kept]
      BY <3>2, <3>5 DEF ParseState
    <3>7. ~(c.number >= buffer.length) => Unmixed(stored.buffers)
      <4> SUFFICES ASSUME ~(c.number >= buffer.length), NEW k \in Starts
                   PROVE  /\ \A x \in stored.buffers[k].parts : Start[x.msg] = k
                          /\ stored.buffers[k].length > 0 => Begins(stored.buffers[k].parts)
        BY DEF Unmixed
      <4>1. CASE k = s
        BY <3>2, <3>5, <3>6, <3>12, <4>1 DEF ParseState
      <4>2. CASE k # s
        BY <3>6, <4>2 DEF Unmixed, ParseState
      <4> QED
        BY <4>1, <4>2
    <3> HIDE DEF stored
    <3>8. ~(c.number >= buffer.length) /\ last => AllOfOne(Append(stored.shown, written))
      <4>1. ASSUME ~(c.number >= buffer.length), last PROVE OfOne(written.parts)
        <5>1. Command(c.msg, Count[c.msg] - 1) \in written.parts
          BY <2>1, <3>4, <4>1
        <5> QED
          BY <2>1, <3>4, <3>12, <4>1, <5>1 DEF OfOne
      <4> QED
        BY <2>2, <3>4, <3>6, <4>1 DEF ParseState
    <3> HIDE DEF last
    <3>9. /\ Show(stored, written).buffers = stored.buffers
          /\ Show(stored, written).shown = Append(stored.shown, written)
      BY <3>6 DEF Show, ParseState
    <3>10. /\ [st EXCEPT !.crashed = TRUE].buffers = st.buffers
           /\ [st EXCEPT !.crashed = TRUE].shown = st.shown
      BY DEF ParseState
    <3> QED
      BY <3>1, <3>6, <3>7, <3>8, <3>9, <3>10
  <2> QED
    BY <2>3, <2>4
<1> QED
  BY <1>1, <1>2, <1>3

\* All commands of a datagram.
LEMMA ParseTypes ==
  ASSUME NEW st \in ParseState, NEW d \in Seq(AllPieces \cup {Ack})
  PROVE  Parse(st, d) \in ParseState
<1>1. PICK f : /\ f[0] = st /\ Parse(st, d) = f[Len(d)]
               /\ \A i \in 1 .. Len(d) : f[i] = ParseCommand(f[i - 1], d[i])
  BY ParseIs
<1> DEFINE T == {i \in 0 .. Len(d) : f[i] \in ParseState}
<1>2. Len(d) \in Nat /\ 0 \in T
  BY <1>1
<1>3. \A i \in 1 .. Len(d) : i - 1 \in T => i \in T
  <2> SUFFICES ASSUME NEW i \in 1 .. Len(d), f[i - 1] \in ParseState
               PROVE  f[i] \in ParseState
    BY <1>2
  <2>1. d[i] \in AllPieces \cup {Ack} /\ f[i] = ParseCommand(f[i - 1], d[i])
    BY <1>1, ElementOfSeq
  <2> QED
    BY <2>1, ParseCommandTypes
<1> HIDE DEF T
<1>4. \A i \in 0 .. Len(d) : i \in T
  BY <1>2, <1>3, Throughout
<1>5. Len(d) \in T
  BY <1>2, <1>4
<1> QED
  BY <1>1, <1>5 DEF T

LEMMA ParseUnmixed ==
  ASSUME NEW st \in ParseState, NEW d \in Seq(AllPieces \cup {Ack}),
         Unmixed(st.buffers), AllOfOne(st.shown)
  PROVE  LET end == Parse(st, d)
         IN  end \in ParseState /\ Unmixed(end.buffers) /\ AllOfOne(end.shown)
<1>1. PICK f : /\ f[0] = st /\ Parse(st, d) = f[Len(d)]
               /\ \A i \in 1 .. Len(d) : f[i] = ParseCommand(f[i - 1], d[i])
  BY ParseIs
<1> DEFINE Good == {x \in ParseState : Unmixed(x.buffers) /\ AllOfOne(x.shown)}
           T == {i \in 0 .. Len(d) : f[i] \in Good}
<1>2. Len(d) \in Nat
  OBVIOUS
<1>3. 0 \in T
  BY <1>1, <1>2
<1>4. \A i \in 1 .. Len(d) : i - 1 \in T => i \in T
  <2> SUFFICES ASSUME NEW i \in 1 .. Len(d), f[i - 1] \in Good
               PROVE  f[i] \in Good
    BY <1>2
  <2>1. d[i] \in AllPieces \cup {Ack} /\ f[i] = ParseCommand(f[i - 1], d[i])
    BY <1>1, ElementOfSeq
  <2> QED
    BY <2>1, ParseCommandTypes, ParseCommandUnmixed
<1> HIDE DEF T
<1>5. \A i \in 0 .. Len(d) : i \in T
  BY <1>2, <1>3, <1>4, Throughout
<1>6. Len(d) \in T
  BY <1>2, <1>5
<1> QED
  BY <1>1, <1>6 DEF T

LEMMA InitTypes == Init => Types /\ Inv
<1> SUFFICES ASSUME Init PROVE Types /\ Inv
  OBVIOUS
<1>1. IsPlace(next)
  BY CountFacts DEF Init, IsPlace, Command
<1>2. None \in Buffer /\ None.parts = {} /\ None.length = 0
  BY DEF None, Buffer
<1>3. reassemble \in [Starts -> Buffer] /\ Unmixed(reassemble)
  <2>1. reassemble = [s \in Starts |-> None]
    BY DEF Init, Starts
  <2> QED
    BY <1>2, <2>1 DEF Unmixed, Starts
<1>4. net \in Seq(Seq(AllPieces \cup {Ack})) /\ received \in Seq(Buffer) /\ DOMAIN received = {}
  BY DEF Init
<1>5. crashed \in BOOLEAN /\ orderly \in BOOLEAN
  BY DEF Init
<1> QED
  BY <1>1, <1>3, <1>4, <1>5 DEF Inv, Types, AllOfOne

\* What the server has sent of messages, and where it goes on.
LEMMA SentPlaces ==
  ASSUME IsPlace(next), NEW n \in Nat, \A i \in 0 .. n - 1 : Later(next, i).msg \in Messages
  PROVE  \A i \in 0 .. n : IsPlace(Later(next, i))
<1> DEFINE T == {i \in 0 .. n : IsPlace(Later(next, i))}
<1>1. 0 \in T
  BY LaterIs
<1>2. \A i \in 1 .. n : i - 1 \in T => i \in T
  <2> SUFFICES ASSUME NEW i \in 1 .. n, IsPlace(Later(next, i - 1))
               PROVE  IsPlace(Later(next, i))
    OBVIOUS
  <2>1. Later(next, i) = Following(Later(next, i - 1))
    <3>1. i - 1 \in Nat /\ (i - 1) + 1 = i
      OBVIOUS
    <3> QED
      BY <3>1, LaterIs
  <2>2. Later(next, i - 1).msg \in Messages
    OBVIOUS
  <2> QED
    BY <2>1, <2>2, FollowingIsPlace
<1> HIDE DEF T
<1>3. \A i \in 0 .. n : i \in T
  BY <1>1, <1>2, Throughout
<1> QED
  BY <1>3 DEF T

LEMMA RemoveAtIs ==
  ASSUME NEW S, NEW s \in Seq(S), NEW i \in DOMAIN s
  PROVE  /\ RemoveAt(s, i) \in Seq(S) /\ Len(RemoveAt(s, i)) = Len(s) - 1
         /\ \A j \in 1 .. Len(s) - 1 : RemoveAt(s, i)[j] = IF j < i THEN s[j] ELSE s[j + 1]
<1> DEFINE a == SubSeq(s, 1, i - 1)
           b == SubSeq(s, i + 1, Len(s))
<1>1. i \in 1 .. Len(s) /\ Len(s) \in Nat
  OBVIOUS
<1>2. /\ a \in Seq(S) /\ Len(a) = i - 1
      /\ \A j \in 1 .. i - 1 : a[j] = s[j]
  <2>1. \A j \in 1 .. i - 1 : s[j] \in S
    BY <1>1
  <2> QED
    BY <1>1, <2>1, SubSeqProperties
<1>3. /\ b \in Seq(S) /\ Len(b) = Len(s) - i
      /\ \A j \in 1 .. Len(s) - i : b[j] = s[i + j]
  <2>1. \A j \in i + 1 .. Len(s) : s[j] \in S
    BY <1>1
  <2> QED
    BY <1>1, <2>1, SubSeqProperties
<1> HIDE DEF a, b
<1>4. /\ a \o b \in Seq(S) /\ Len(a \o b) = Len(s) - 1
      /\ \A j \in 1 .. Len(s) - 1 : (a \o b)[j] = IF j <= i - 1 THEN a[j] ELSE b[j - (i - 1)]
  BY <1>1, <1>2, <1>3, ConcatProperties, SMTT(30)
<1>5. \A j \in 1 .. Len(s) - 1 : (a \o b)[j] = IF j < i THEN s[j] ELSE s[j + 1]
  <2> SUFFICES ASSUME NEW j \in 1 .. Len(s) - 1
               PROVE  (a \o b)[j] = IF j < i THEN s[j] ELSE s[j + 1]
    OBVIOUS
  <2>1. CASE j < i
    BY <1>1, <1>2, <1>4, <2>1
  <2>2. CASE ~(j < i)
    <3>1. j - (i - 1) \in 1 .. Len(s) - i /\ i + (j - (i - 1)) = j + 1
      BY <1>1, <2>2
    <3>2. b[j - (i - 1)] = s[j + 1]
      BY <1>3, <3>1
    <3> QED
      BY <1>1, <1>4, <2>2, <3>2
  <2> QED
    BY <2>1, <2>2
<1> QED
  BY <1>4, <1>5 DEF RemoveAt, a, b

\* The network only takes datagrams away.
LEMMA RemovedTypes ==
  ASSUME Types, NEW i \in DOMAIN net
  PROVE  RemoveAt(net, i) \in Seq(Seq(AllPieces \cup {Ack})) /\ net[i] \in Seq(AllPieces \cup {Ack})
BY RemoveAtIs DEF Types

LEMMA ServerSendsTypes == Types /\ ServerSends => Types'
<1> SUFFICES ASSUME Types, ServerSends PROVE Types'
  OBVIOUS
<1>1. PICK acks \in {<<>>, <<Ack>>}, n \in 1 .. MaxCommands :
        /\ \A i \in 0 .. n - 1 : Later(next, i).msg \in Messages
        /\ net' = Append(net, acks \o [i \in 1 .. n |-> Later(next, i - 1)])
        /\ next' = Later(next, n)
        /\ orderly' = (orderly /\ acks = <<>>)
  BY DEF ServerSends
<1>2. n \in Nat /\ MaxCommands \in Nat
  BY SnifferAssumption
<1>3. \A i \in 0 .. n : IsPlace(Later(next, i))
  BY <1>1, <1>2, SentPlaces DEF Types
<1> DEFINE D == AllPieces \cup {Ack}
           cmds == [i \in 1 .. n |-> Later(next, i - 1)]
<1>4. cmds \in Seq(D)
  <2>1. \A i \in 1 .. n : Later(next, i - 1) \in D
    BY <1>1, <1>2, <1>3, PlaceIsPiece
  <2> QED
    BY <1>2, <2>1
<1>5. acks \in Seq(D)
  <2>1. <<Ack>> \in Seq(D) /\ <<>> \in Seq(D)
    OBVIOUS
  <2> QED
    BY <2>1
<1>6. net' \in Seq(Seq(D))
  <2>1. acks \o cmds \in Seq(D)
    BY <1>4, <1>5, ConcatProperties
  <2> HIDE DEF cmds, D
  <2>2. net \in Seq(Seq(D))
    BY DEF Types, D
  <2> QED
    BY <1>1, <2>1, <2>2, AppendProperties DEF cmds
<1>7. IsPlace(next')
  BY <1>1, <1>2, <1>3
<1>8. UNCHANGED <<reassemble, crashed, received>>
  BY DEF ServerSends, receiveVars
<1> QED
  BY <1>1, <1>6, <1>7, <1>8 DEF Types

LEMMA NetworkTypes == Types /\ (Lose \/ Resend) => Types'
<1>1. ASSUME Types, Lose PROVE Types'
  <2>1. net' \in Seq(Seq(AllPieces \cup {Ack}))
    BY <1>1, RemovedTypes DEF Lose
  <2> QED
    BY <1>1, <2>1 DEF Lose, receiveVars, Types
<1>2. ASSUME Types, Resend PROVE Types'
  <2>0. PICK m \in Messages : \E n \in 0 .. Count[m] - 1 : net' = Append(net, <<Command(m, n)>>)
    BY <1>2 DEF Resend
  <2>1. PICK n \in 0 .. Count[m] - 1 : net' = Append(net, <<Command(m, n)>>)
    BY <2>0
  <2>2. Command(m, n) \in AllPieces
    BY DEF AllPieces, Pieces
  <2>3. net' \in Seq(Seq(AllPieces \cup {Ack}))
    <3>1. <<Command(m, n)>> \in Seq(AllPieces \cup {Ack})
      BY <2>2
    <3> QED
      BY <1>2, <2>1, <3>1, AppendProperties DEF Types
  <2> QED
    BY <1>2, <2>3 DEF Resend, receiveVars, Types
<1> QED
  BY <1>1, <1>2

\* What newWSARecvFrom() does with a datagram.
LEMMA Received ==
  ASSUME Types, NewWSARecvFrom
  PROVE  \E i \in DOMAIN net :
           LET end == Parse(State, net[i])
           IN  /\ end \in ParseState /\ State \in ParseState /\ net[i] \in Seq(AllPieces \cup {Ack})
               /\ reassemble' = end.buffers /\ received' = end.shown /\ crashed' = end.crashed
               /\ net' = RemoveAt(net, i) /\ orderly' = (orderly /\ i = 1)
<1>1. PICK i \in DOMAIN net :
        LET end == Parse(State, net[i])
        IN  /\ reassemble' = end.buffers /\ received' = end.shown /\ crashed' = end.crashed
            /\ net' = RemoveAt(net, i) /\ orderly' = (orderly /\ i = 1)
  BY DEF NewWSARecvFrom, State
<1>2. State \in ParseState
  BY DEF State, ParseState, Types
<1>3. net[i] \in Seq(AllPieces \cup {Ack})
  BY RemovedTypes
<1>4. Parse(State, net[i]) \in ParseState
  BY <1>2, <1>3, ParseTypes
<1> QED
  BY <1>1, <1>2, <1>3, <1>4

LEMMA ReceiveTypes == Types /\ NewWSARecvFrom => Types'
<1> SUFFICES ASSUME Types, NewWSARecvFrom PROVE Types'
  OBVIOUS
<1>1. PICK i \in DOMAIN net :
        LET end == Parse(State, net[i])
        IN  /\ end \in ParseState
            /\ reassemble' = end.buffers /\ received' = end.shown /\ crashed' = end.crashed
            /\ net' = RemoveAt(net, i) /\ orderly' = (orderly /\ i = 1)
  BY Received
<1>2. net' \in Seq(Seq(AllPieces \cup {Ack}))
  BY <1>1, RemovedTypes
<1>3. reassemble' \in [Starts -> Buffer] /\ received' \in Seq(Buffer) /\ crashed' \in BOOLEAN
  BY <1>1 DEF ParseState
<1>4. orderly' \in BOOLEAN /\ next' = next
  BY <1>1 DEF NewWSARecvFrom
<1> QED
  BY <1>2, <1>3, <1>4 DEF Types, IsPlace

LEMMA NextTypes == Types /\ [Next]_vars => Types'
<1> SUFFICES ASSUME Types, [Next]_vars PROVE Types'
  OBVIOUS
<1>1. CASE NewWSASendTo
  BY <1>1 DEF NewWSASendTo, receiveVars, Types
<1>2. CASE UNCHANGED vars
  BY <1>2 DEF vars, receiveVars, Types
<1> QED
  BY <1>1, <1>2, ServerSendsTypes, NetworkTypes, ReceiveTypes DEF Next

\* Only newWSARecvFrom() touches the buffers and passes messages of the server on.
LEMMA NextInv == Inv /\ [Next]_vars => Inv'
<1> SUFFICES ASSUME Inv, [Next]_vars PROVE Inv'
  OBVIOUS
<1>1. Types'
  BY NextTypes DEF Inv
<1>2. ASSUME NewWSARecvFrom PROVE Unmixed(reassemble') /\ AllOfOne(received')
  <2>1. PICK i \in DOMAIN net :
          LET end == Parse(State, net[i])
          IN  /\ State \in ParseState /\ net[i] \in Seq(AllPieces \cup {Ack})
              /\ reassemble' = end.buffers /\ received' = end.shown
    BY <1>2, Received DEF Inv
  <2>2. Unmixed(State.buffers) /\ AllOfOne(State.shown)
    BY DEF State, Inv
  <2> QED
    BY <2>1, <2>2, ParseUnmixed
<1>3. ASSUME UNCHANGED <<reassemble, received>> PROVE Unmixed(reassemble') /\ AllOfOne(received')
  BY <1>3 DEF Inv
<1>4. Unmixed(reassemble') /\ AllOfOne(received')
  BY <1>2, <1>3 DEF Next, ServerSends, Lose, Resend, NewWSASendTo, vars, receiveVars
<1> QED
  BY <1>1, <1>4 DEF Inv, Unmixed, AllOfOne

\* Whatever the network loses, repeats or reorders, newWSARecvFrom() passes on pieces of
\* messages with one start sequence number only, a first and a last one among them.
THEOREM NotMixedTheorem == Spec => []NotMixed
<1>1. Inv => NotMixed
  BY DEF Inv, AllOfOne, OfOne, Begins, NotMixed
<1> QED
  BY <1>1, InitTypes, NextInv, PTL DEF Spec

-----------------------------------------------------------------------------
(***************************************************************************)
(* Datagrams delivered once and in order, that hold messages only.         *)
(***************************************************************************)

\* The datagram d holds the commands from c on, and e comes after them.
Holds(d, c, e) ==
  /\ Len(d) > 0 /\ d[1] = c /\ e = Following(d[Len(d)])
  /\ \A i \in 1 .. Len(d) : IsPlace(d[i]) /\ d[i].msg \in Messages
  /\ \A i \in 1 .. Len(d) - 1 : d[i + 1] = Following(d[i])

\* The state st in which the command c is the next to be parsed.
Expects(st, c) ==
  /\ ~st.crashed /\ ~st.stopped /\ IsPlace(c)
  /\ Len(st.shown) = c.msg - 1
  /\ \A i \in 1 .. c.msg - 1 : st.shown[i].parts = Pieces(i) /\ st.shown[i].decrypted = 0
  /\ c.number > 0 =>
       st.buffers[Start[c.msg]] = [length |-> Count[c.msg], decrypted |-> 0,
                                   parts |-> {Command(c.msg, k) : k \in 0 .. c.number - 1}]

\* place[i] is the command that follows the first i datagrams on their way.
Lined(place) ==
  /\ Expects(State, place[0]) /\ place[Len(net)] = next
  /\ \A i \in 1 .. Len(net) : Holds(net[i], place[i - 1], place[i])

Orderly == orderly => ~crashed /\ \E place : Lined(place)

\* One command in its turn.
LEMMA ExpectedCommand ==
  ASSUME NEW st \in ParseState, NEW c, Expects(st, c), c.msg \in Messages
  PROVE  Expects(ParseCommand(st, c), Following(c))
<1>1. /\ c \in AllPieces /\ c # Ack /\ c.number \in Nat /\ c.msg \in Nat \ {0}
      /\ Count[c.msg] \in Nat \ {0} /\ c.number < Count[c.msg] /\ c = Command(c.msg, c.number)
  BY PlaceIsPiece, PieceFacts, CountFacts DEF Expects, IsPlace
<1>2. IsPlace(Following(c))
  BY FollowingIsPlace DEF Expects
<1>3. ASSUME NEW b \in Buffer, b.parts = Pieces(c.msg), b.decrypted = 0,
             NEW x \in ParseState, ~x.crashed, ~x.stopped, x.shown = Append(st.shown, b),
             c.number = Count[c.msg] - 1
      PROVE  Expects(x, Following(c))
  <2>1. Following(c) = Command(c.msg + 1, 0)
    BY <1>1, <1>3 DEF Following
  <2>2. Following(c).msg = c.msg + 1 /\ Following(c).number = 0
    BY <2>1 DEF Command
  <2>3. /\ Len(x.shown) = c.msg /\ x.shown[c.msg] = b
        /\ \A i \in 1 .. c.msg - 1 : x.shown[i] = st.shown[i]
    <3>1. st.shown \in Seq(Buffer) /\ Len(st.shown) = c.msg - 1
      BY DEF ParseState, Expects
    <3> QED
      BY <1>1, <1>3, <3>1
  <2>4. \A i \in 1 .. c.msg : x.shown[i].parts = Pieces(i) /\ x.shown[i].decrypted = 0
    BY <1>1, <1>3, <2>3 DEF Expects
  <2> QED
    BY <1>1, <1>2, <1>3, <2>2, <2>3, <2>4 DEF Expects
<1>4. CASE Count[c.msg] = 1
  <2>1. ParseCommand(st, c) = Show(st, Alone(c)) /\ c.number = Count[c.msg] - 1
    BY <1>1, <1>4, ParseCases DEF Expects
  <2>2. Alone(c) \in Buffer /\ Alone(c).parts = Pieces(c.msg) /\ Alone(c).decrypted = 0
    <3>1. c = Command(c.msg, 0) /\ 0 .. Count[c.msg] - 1 = {0}
      BY <1>1, <1>4
    <3> QED
      BY <1>1, <3>1 DEF Alone, Buffer, Pieces
  <2>3. /\ Show(st, Alone(c)) \in ParseState /\ ~Show(st, Alone(c)).crashed
        /\ ~Show(st, Alone(c)).stopped /\ Show(st, Alone(c)).shown = Append(st.shown, Alone(c))
    BY <2>2, ShowTypes DEF Show, ParseState, Expects
  <2> QED
    BY <1>3, <2>1, <2>2, <2>3
<1>5. CASE Count[c.msg] # 1
  <2> DEFINE s == Start[c.msg]
             last == c.number = Count[c.msg] - 1
             buffer == IF c.number = 0 THEN [length |-> Count[c.msg], parts |-> {}, decrypted |-> 0]
                       ELSE st.buffers[s]
             written == [buffer EXCEPT !.parts = @ \cup {c}]
             kept == IF last THEN [written EXCEPT !.decrypted = @ + 1] ELSE written
             stored == [st EXCEPT !.buffers[s] = kept]
             arrived(n) == {Command(c.msg, k) : k \in 0 .. n - 1}
  <2>1. ParseCommand(st, c) = IF c.number >= buffer.length THEN [st EXCEPT !.crashed = TRUE]
                              ELSE IF last THEN Show(stored, written) ELSE stored
    BY <1>1, <1>5, ParseCases DEF Reassemble, WriteFragment, Expects
  <2>2. s \in Starts
    BY DEF Starts
  <2>3. buffer = [length |-> Count[c.msg], decrypted |-> 0, parts |-> arrived(c.number)]
    <3>1. CASE c.number = 0
      <4>1. arrived(c.number) = {}
        BY <3>1
      <4> QED
        BY <3>1, <4>1
    <3>2. CASE c.number # 0
      BY <1>1, <3>2 DEF Expects
    <3> QED
      BY <3>1, <3>2
  <2>4. arrived(c.number) \cup {c} = arrived(c.number + 1) /\ arrived(c.number + 1) \subseteq AllPieces
    <3>1. 0 .. (c.number + 1) - 1 = (0 .. c.number - 1) \cup {c.number}
      BY <1>1
    <3>2. arrived(c.number + 1) = arrived(c.number) \cup {c}
      BY <1>1, <3>1
    <3>3. arrived(c.number + 1) \subseteq Pieces(c.msg)
      BY <1>1 DEF Pieces
    <3> QED
      BY <3>2, <3>3 DEF AllPieces
  <2> HIDE DEF buffer, arrived
  <2>5. written = [length |-> Count[c.msg], decrypted |-> 0, parts |-> arrived(c.number + 1)]
    BY <2>3, <2>4
  <2>6. ~(c.number >= buffer.length)
    BY <1>1, <2>3 DEF None
  <2>7. written \in Buffer /\ kept \in Buffer
    <3> HIDE DEF written, last
    <3>1. written \in Buffer
      BY <1>1, <2>4, <2>5 DEF Buffer
    <3> QED
      BY <3>1 DEF Buffer
  <2> HIDE DEF written, kept
  <2>8. /\ stored \in ParseState /\ stored.shown = st.shown /\ stored.buffers[s] = kept
        /\ ~stored.crashed /\ ~stored.stopped
    BY <2>2, <2>7 DEF ParseState, Expects
  <2> HIDE DEF stored
  <2>9. CASE last
    <3>1. /\ Show(stored, written) \in ParseState /\ ~Show(stored, written).crashed
          /\ ~Show(stored, written).stopped /\ Show(stored, written).shown = Append(st.shown, written)
      BY <2>7, <2>8, ShowTypes DEF Show, ParseState
    <3>2. written.parts = Pieces(c.msg) /\ written.decrypted = 0
      <4>1. c.number + 1 = Count[c.msg]
        BY <1>1, <2>9
      <4> QED
        BY <2>5, <4>1 DEF Pieces, arrived
    <3> QED
      BY <1>3, <2>1, <2>6, <2>7, <2>9, <3>1, <3>2
  <2>10. CASE ~last
    <3>1. Following(c) = Command(c.msg, c.number + 1)
      BY <1>1, <2>10 DEF Following
    <3>2. Following(c).msg = c.msg /\ Following(c).number = c.number + 1
      BY <3>1 DEF Command
    <3>3. stored.buffers[s] = written
      BY <2>8, <2>10 DEF kept
    <3>4. ParseCommand(st, c) = stored
      BY <2>1, <2>6, <2>10
    <3> QED
      BY <1>2, <2>5, <2>8, <3>2, <3>3, <3>4 DEF Expects, arrived
  <2> QED
    BY <2>9, <2>10
<1> QED
  BY <1>4, <1>5

\* A whole datagram in its turn.
LEMMA ExpectedDatagram ==
  ASSUME NEW st \in ParseState, NEW d \in Seq(AllPieces \cup {Ack}), NEW c, NEW e,
         Expects(st, c), Holds(d, c, e)
  PROVE  Expects(Parse(st, d), e)
<1>1. PICK f : /\ f[0] = st /\ Parse(st, d) = f[Len(d)]
               /\ \A i \in 1 .. Len(d) : f[i] = ParseCommand(f[i - 1], d[i])
  BY ParseIs
<1> DEFINE coming(i) == IF i < Len(d) THEN d[i + 1] ELSE e
           T == {i \in 0 .. Len(d) : f[i] \in ParseState /\ Expects(f[i], coming(i))}
<1>2. Len(d) \in Nat /\ Len(d) > 0 /\ coming(0) = c
  BY DEF Holds
<1>3. 0 \in T
  BY <1>1, <1>2
<1>4. \A i \in 1 .. Len(d) : i - 1 \in T => i \in T
  <2> SUFFICES ASSUME NEW i \in 1 .. Len(d), i - 1 \in T
               PROVE  i \in T
    OBVIOUS
  <2>1. /\ f[i] = ParseCommand(f[i - 1], d[i]) /\ f[i - 1] \in ParseState
        /\ Expects(f[i - 1], d[i]) /\ d[i].msg \in Messages /\ d[i] \in AllPieces \cup {Ack}
    <3>1. (i - 1) + 1 = i /\ i - 1 < Len(d)
      BY <1>2
    <3> QED
      BY <1>1, <3>1, ElementOfSeq DEF Holds
  <2>2. Following(d[i]) = coming(i)
    <3>1. CASE i < Len(d)
      BY <1>2, <3>1 DEF Holds
    <3>2. CASE ~(i < Len(d))
      <4>1. i = Len(d)
        BY <1>2, <3>2
      <4> QED
        BY <3>2, <4>1 DEF Holds
    <3> QED
      BY <3>1, <3>2
  <2> HIDE DEF coming
  <2>3. f[i] \in ParseState /\ Expects(f[i], coming(i))
    BY <2>1, <2>2, ParseCommandTypes, ExpectedCommand
  <2> QED
    BY <2>3
<1> HIDE DEF T
<1>5. \A i \in 0 .. Len(d) : i \in T
  BY <1>2, <1>3, <1>4, Throughout
<1>6. Len(d) \in T
  BY <1>2, <1>5
<1>7. f[Len(d)] \in ParseState /\ Expects(f[Len(d)], coming(Len(d)))
  BY <1>6 DEF T
<1> QED
  BY <1>1, <1>2, <1>7

LEMMA InitOrderly == Init => Orderly
<1> SUFFICES ASSUME Init PROVE ~crashed /\ Lined([i \in 0 .. 0 |-> next])
  BY DEF Orderly
<1>1. IsPlace(next) /\ next.msg = 1 /\ next.number = 0
  BY InitTypes DEF Init, Types, Command
<1>2. Expects(State, next)
  BY <1>1 DEF Init, State, Expects
<1> QED
  BY <1>2 DEF Init, Lined

\* The server goes on where it stopped: its datagram comes behind the others.
LEMMA ServerSendsOrderly == Types /\ Orderly /\ ServerSends => Orderly'
<1> SUFFICES ASSUME Types, Orderly, ServerSends, orderly' PROVE ~crashed' /\ \E q : Lined(q)'
  BY DEF Orderly
<1>1. PICK acks \in {<<>>, <<Ack>>}, n \in 1 .. MaxCommands :
        /\ \A i \in 0 .. n - 1 : Later(next, i).msg \in Messages
        /\ net' = Append(net, acks \o [i \in 1 .. n |-> Later(next, i - 1)])
        /\ next' = Later(next, n)
        /\ orderly' = (orderly /\ acks = <<>>)
  BY DEF ServerSends
<1>2. n \in Nat /\ n > 0
  BY SnifferAssumption
<1>3. \A i \in 0 .. n : IsPlace(Later(next, i))
  BY <1>1, <1>2, SentPlaces DEF Types
<1> DEFINE cmds == [i \in 1 .. n |-> Later(next, i - 1)]
<1>4. cmds \in Seq(AllPieces) /\ acks \o cmds = cmds /\ Len(cmds) = n
  <2>1. \A i \in 1 .. n : Later(next, i - 1) \in AllPieces
    BY <1>1, <1>2, <1>3, PlaceIsPiece
  <2>2. cmds \in Seq(AllPieces) /\ Len(cmds) = n
    BY <1>2, <2>1
  <2>3. acks = <<>>
    BY <1>1
  <2> QED
    BY <2>2, <2>3, ConcatEmptySeq
<1>5. Holds(cmds, next, next')
  <2>1. \A i \in 1 .. n : IsPlace(cmds[i]) /\ cmds[i].msg \in Messages
    BY <1>1, <1>2, <1>3
  <2>2. \A i \in 1 .. n : Later(next, i) = Following(Later(next, i - 1))
    <3> SUFFICES ASSUME NEW i \in 1 .. n
                 PROVE  Later(next, i) = Following(Later(next, i - 1))
      OBVIOUS
    <3>1. i - 1 \in Nat /\ (i - 1) + 1 = i
      OBVIOUS
    <3> QED
      BY <3>1, LaterIs
  <2>3. cmds[1] = next /\ cmds[n] = Later(next, n - 1)
    BY <1>2, LaterIs
  <2>4. \A i \in 1 .. n - 1 : cmds[i + 1] = Following(cmds[i])
    BY <1>2, <2>2
  <2>5. next' = Following(cmds[n])
    BY <1>1, <1>2, <2>2, <2>3
  <2>6. Len(cmds) = n
    BY <1>4
  <2> HIDE DEF cmds
  <2> QED
    BY <1>2, <2>1, <2>3, <2>4, <2>5, <2>6 DEF Holds
<1> HIDE DEF cmds
<1>6. PICK place : Lined(place)
  BY <1>1 DEF Orderly
<1> PICK q : q = [i \in 0 .. Len(net) + 1 |-> IF i <= Len(net) THEN place[i] ELSE next']
  OBVIOUS
<1>7. /\ Len(net) \in Nat /\ Len(net') = Len(net) + 1 /\ net'[Len(net) + 1] = cmds
      /\ \A i \in 1 .. Len(net) : net'[i] = net[i]
  <2>1. net' = Append(net, cmds)
    BY <1>1, <1>4 DEF cmds
  <2> QED
    BY <2>1, AppendProperties DEF Types
<1>8. \A i \in 0 .. Len(net) : q[i] = place[i]
  BY <1>7
<1>9. q[Len(net) + 1] = next'
  BY <1>7
<1>10. \A i \in 1 .. Len(net) : Holds(net'[i], q[i - 1], q[i])
  BY <1>6, <1>7, <1>8 DEF Lined
<1>11. Holds(net'[Len(net) + 1], q[Len(net)], q[Len(net) + 1])
  BY <1>5, <1>6, <1>7, <1>8, <1>9 DEF Lined
<1>12. State' = State /\ ~crashed' /\ crashed' = crashed
  BY <1>1 DEF ServerSends, receiveVars, State, Orderly
<1>13. Expects(State, q[0])
  BY <1>6, <1>7, <1>8 DEF Lined
<1>14. Lined(q)'
  <2>1. \A i \in 1 .. Len(net') : Holds(net'[i], q[i - 1], q[i])
    <3>1. \A i \in 1 .. Len(net') : i \in 1 .. Len(net) \/ i = Len(net) + 1
      BY <1>7
    <3>2. (Len(net) + 1) - 1 = Len(net)
      BY <1>7
    <3> QED
      BY <1>10, <1>11, <3>1, <3>2
  <2> QED
    BY <1>7, <1>9, <1>12, <1>13, <2>1 DEF Lined
<1> QED
  BY <1>12, <1>14

\* The first datagram on its way is the one that newWSARecvFrom() expects.
LEMMA ReceiveOrderly == Types /\ Orderly /\ NewWSARecvFrom => Orderly'
<1> SUFFICES ASSUME Types, Orderly, NewWSARecvFrom, orderly' PROVE ~crashed' /\ \E q : Lined(q)'
  BY DEF Orderly
<1>1. PICK i \in DOMAIN net :
        LET end == Parse(State, net[i])
        IN  /\ end \in ParseState /\ State \in ParseState /\ net[i] \in Seq(AllPieces \cup {Ack})
            /\ reassemble' = end.buffers /\ received' = end.shown /\ crashed' = end.crashed
            /\ net' = RemoveAt(net, i) /\ orderly' = (orderly /\ i = 1)
  BY Received
<1>2. orderly /\ i = 1 /\ Len(net) \in Nat /\ Len(net) > 0
  <2>1. orderly /\ i = 1
    BY <1>1
  <2>2. Len(net) \in Nat /\ DOMAIN net = 1 .. Len(net)
    BY DEF Types
  <2> QED
    BY <2>1, <2>2
<1>3. PICK place : Lined(place)
  BY <1>2 DEF Orderly
<1>4. Expects(Parse(State, net[1]), place[1])
  <2>1. Expects(State, place[0]) /\ Holds(net[1], place[0], place[1])
    BY <1>2, <1>3 DEF Lined
  <2> QED
    BY <1>1, <1>2, <2>1, ExpectedDatagram
<1>5. ~crashed' /\ State' = Parse(State, net[1])
  <2> DEFINE end == Parse(State, net[1])
  <2>1. end \in ParseState /\ ~end.crashed /\ ~end.stopped
    BY <1>1, <1>2, <1>4 DEF Expects
  <2> HIDE DEF end
  <2>2. end = [buffers |-> end.buffers, shown |-> end.shown, crashed |-> FALSE, stopped |-> FALSE]
    BY <2>1 DEF ParseState
  <2> QED
    BY <1>1, <1>2, <2>1, <2>2 DEF State, end
<1> PICK q : q = [j \in 0 .. Len(net) - 1 |-> place[j + 1]]
  OBVIOUS
<1>6. /\ Len(net') = Len(net) - 1
      /\ \A j \in 1 .. Len(net) - 1 : net'[j] = net[j + 1]
  <2>1. net' = RemoveAt(net, 1) /\ 1 \in DOMAIN net
    BY <1>1, <1>2
  <2>2. net \in Seq(Seq(AllPieces \cup {Ack}))
    BY DEF Types
  <2>3. /\ Len(net') = Len(net) - 1
        /\ \A j \in 1 .. Len(net) - 1 : net'[j] = IF j < 1 THEN net[j] ELSE net[j + 1]
    BY <2>1, <2>2, RemoveAtIs
  <2> QED
    BY <1>2, <2>3
<1>7. /\ q[0] = place[1] /\ q[Len(net) - 1] = place[Len(net)]
      /\ \A j \in 1 .. Len(net) - 1 : q[j - 1] = place[j] /\ q[j] = place[j + 1]
  BY <1>2
<1>8. \A j \in 1 .. Len(net) - 1 : Holds(net'[j], q[j - 1], q[j])
  <2> SUFFICES ASSUME NEW j \in 1 .. Len(net) - 1 PROVE Holds(net[j + 1], place[j], place[j + 1])
    BY <1>6, <1>7
  <2>1. j + 1 \in 1 .. Len(net) /\ (j + 1) - 1 = j
    BY <1>2
  <2> QED
    BY <1>3, <2>1 DEF Lined
<1>9. next' = next /\ place[Len(net)] = next
  BY <1>3 DEF NewWSARecvFrom, Lined
<1>10. Lined(q)'
  BY <1>4, <1>5, <1>6, <1>7, <1>8, <1>9 DEF Lined
<1> QED
  BY <1>5, <1>10

LEMMA NextOrderly == Types /\ Orderly /\ [Next]_vars => Orderly'
<1> SUFFICES ASSUME Types, Orderly, [Next]_vars PROVE Orderly'
  OBVIOUS
<1>1. CASE Lose \/ Resend
  BY <1>1 DEF Lose, Resend, Orderly
<1>2. CASE NewWSASendTo \/ UNCHANGED vars
  BY <1>2 DEF NewWSASendTo, vars, receiveVars, Orderly, Lined, State
<1> QED
  BY <1>1, <1>2, ServerSendsOrderly, ReceiveOrderly DEF Next

\* As long as datagrams hold messages only and come once and in order, newWSARecvFrom()
\* passes every message of the server on, whole and as often as it was sent.
THEOREM ReceivedWholeTheorem == Spec => []ReceivedWhole
<1>1. Types /\ Orderly => ReceivedWhole
  <2> SUFFICES ASSUME Types, Orderly, orderly PROVE
                 /\ ~crashed
                 /\ \A i \in DOMAIN received :
                      received[i].parts = Pieces(i) /\ received[i].decrypted = 0
                 /\ net = <<>> => Len(received) = next.msg - 1
    BY DEF ReceivedWhole
  <2>1. PICK place : Lined(place)
    BY DEF Orderly
  <2>2. /\ Len(received) = place[0].msg - 1
        /\ \A i \in 1 .. Len(received) : received[i].parts = Pieces(i) /\ received[i].decrypted = 0
    BY <2>1 DEF Lined, Expects, State
  <2>3. ASSUME net = <<>> PROVE place[0] = next
    BY <2>1, <2>3 DEF Lined
  <2>4. DOMAIN received = 1 .. Len(received)
    BY DEF Types
  <2> QED
    BY <2>2, <2>3, <2>4 DEF Orderly
<1> QED
  BY <1>1, InitTypes, InitOrderly, NextTypes, NextOrderly, PTL DEF Spec

-----------------------------------------------------------------------------
(***************************************************************************)
(* The messages of the game.                                               *)
(***************************************************************************)

GameBuffer == [what : {"header", "ack", "command", "data"}, msg : Nat]
PassedOn == [what : {"header", "ack", "command", "data"}, msg : Nat, decrypted : BOOLEAN]

Item(k) == [what |-> "data", msg |-> k]
Shown(k) == [what |-> "data", msg |-> k, decrypted |-> k # 1]

SentInv ==
  /\ count \in Nat /\ doFirst \in BOOLEAN /\ plain \in BOOLEAN
  /\ sent \in Seq(PassedOn) /\ Len(sent) <= count
  /\ plain => sent = [i \in 1 .. count |-> Shown(i)] /\ (doFirst <=> count = 0)
  /\ ~plain => Len(sent) < count

\* The buffers of a datagram: the header, one for each acknowledgement, and pairs.
LEMMA BuffersAre ==
  ASSUME NEW acks \in Nat, NEW n \in Nat, NEW msgs \in [1 .. n -> Nat]
  PROVE  LET b == Buffers(acks, msgs)
         IN  /\ b \in Seq(GameBuffer) /\ Len(b) = 1 + acks + 2 * n
             /\ \A i \in 1 .. acks : b[i + 1].what = "ack"
             /\ \A k \in 1 .. n : b[acks + 2 * k].what = "command" /\ b[acks + 2 * k + 1] = Item(msgs[k])
<1> DEFINE answers == [i \in 1 .. acks |-> [what |-> "ack", msg |-> 0]]
           pair(i) == [what |-> IF i % 2 = 1 THEN "command" ELSE "data", msg |-> msgs[(i + 1) \div 2]]
           pairs == [i \in 1 .. 2 * n |-> pair(i)]
<1>1. answers \in Seq(GameBuffer) /\ Len(answers) = acks /\ \A i \in 1 .. acks : answers[i].what = "ack"
  BY DEF GameBuffer
<1>2. Len(msgs) = n
  OBVIOUS
<1>3. pairs \in Seq(GameBuffer) /\ Len(pairs) = 2 * n
  <2>1. \A i \in 1 .. 2 * n : (i + 1) \div 2 \in 1 .. n
    OBVIOUS
  <2>2. \A i \in 1 .. 2 * n : pair(i) \in GameBuffer
    <3> SUFFICES ASSUME NEW i \in 1 .. 2 * n PROVE pair(i) \in GameBuffer
      OBVIOUS
    <3>1. msgs[(i + 1) \div 2] \in Nat
      BY <2>1
    <3> HIDE DEF pair
    <3>2. pair(i).msg = msgs[(i + 1) \div 2] /\ pair(i).what \in {"command", "data"}
      BY DEF pair
    <3>3. pair(i) = [what |-> pair(i).what, msg |-> pair(i).msg]
      BY DEF pair
    <3> QED
      BY <3>1, <3>2, <3>3 DEF GameBuffer
  <2> HIDE DEF pair
  <2> QED
    BY <2>2
<1>4. <<Header>> \in Seq(GameBuffer) /\ Len(<<Header>>) = 1
  <2>1. Header \in GameBuffer
    BY DEF Header, GameBuffer
  <2> QED
    BY <2>1
<1>5. \A k \in 1 .. n : /\ pairs[2 * k - 1].what = "command"
                        /\ pairs[2 * k] = Item(msgs[k])
  <2> SUFFICES ASSUME NEW k \in 1 .. n
               PROVE  /\ pairs[2 * k - 1].what = "command"
                      /\ pairs[2 * k] = Item(msgs[k])
    OBVIOUS
  <2>1. /\ 2 * k - 1 \in 1 .. 2 * n /\ (2 * k - 1) % 2 = 1
        /\ 2 * k \in 1 .. 2 * n /\ (2 * k) % 2 = 0 /\ (2 * k + 1) \div 2 = k
    OBVIOUS
  <2> QED
    BY <2>1 DEF Item
<1>6. Buffers(acks, msgs) = (<<Header>> \o answers) \o pairs
  BY <1>2 DEF Buffers
<1> HIDE DEF answers, pairs
<1> DEFINE front == <<Header>> \o answers
<1>7. /\ front \in Seq(GameBuffer) /\ Len(front) = 1 + acks
      /\ \A i \in 1 .. 1 + acks : front[i] = IF i <= 1 THEN <<Header>>[i] ELSE answers[i - 1]
  BY <1>1, <1>4, ConcatProperties
<1> HIDE DEF front
<1> DEFINE b == Buffers(acks, msgs)
<1> HIDE DEF b
<1>8. /\ b \in Seq(GameBuffer) /\ Len(b) = (1 + acks) + 2 * n
      /\ \A i \in 1 .. (1 + acks) + 2 * n :
           b[i] = IF i <= 1 + acks THEN front[i] ELSE pairs[i - (1 + acks)]
  <2>1. b = front \o pairs
    BY <1>6 DEF b, front
  <2>2. /\ front \o pairs \in Seq(GameBuffer) /\ Len(front \o pairs) = Len(front) + Len(pairs)
        /\ \A i \in 1 .. Len(front) + Len(pairs) :
             (front \o pairs)[i] = IF i <= Len(front) THEN front[i] ELSE pairs[i - Len(front)]
    BY <1>3, <1>7, ConcatProperties
  <2>3. Len(front) = 1 + acks /\ Len(pairs) = 2 * n
    BY <1>3, <1>7
  <2> QED
    BY <2>1, <2>2, <2>3
<1>9. \A i \in 1 .. acks : b[i + 1].what = "ack"
  <2> SUFFICES ASSUME NEW i \in 1 .. acks PROVE b[i + 1].what = "ack"
    OBVIOUS
  <2>1. b[i + 1] = front[i + 1] /\ front[i + 1] = answers[i]
    BY <1>7, <1>8
  <2> QED
    BY <1>1, <2>1
<1>10. \A k \in 1 .. n : b[acks + 2 * k].what = "command" /\ b[acks + 2 * k + 1] = Item(msgs[k])
  <2> SUFFICES ASSUME NEW k \in 1 .. n
               PROVE  b[acks + 2 * k].what = "command" /\ b[acks + 2 * k + 1] = Item(msgs[k])
    OBVIOUS
  <2>1. /\ (acks + 2 * k) - (1 + acks) = 2 * k - 1 /\ (acks + 2 * k + 1) - (1 + acks) = 2 * k
        /\ acks + 2 * k \in 1 .. (1 + acks) + 2 * n /\ acks + 2 * k + 1 \in 1 .. (1 + acks) + 2 * n
        /\ ~(acks + 2 * k <= 1 + acks) /\ ~(acks + 2 * k + 1 <= 1 + acks)
    OBVIOUS
  <2>2. b[acks + 2 * k] = pairs[2 * k - 1] /\ b[acks + 2 * k + 1] = pairs[2 * k]
    BY <1>8, <2>1
  <2> QED
    BY <1>5, <2>2
<1> QED
  BY <1>8, <1>9, <1>10 DEF b

\* Acknowledgements in pairs are passed over, and all messages are found.
LEMMA TakenOfEven ==
  ASSUME NEW h \in Nat, NEW n \in Nat, NEW msgs \in [1 .. n -> Nat]
  PROVE  Taken(Buffers(2 * h, msgs)) = [i \in 1 .. n |-> Item(msgs[i])]
<1> DEFINE b == Buffers(2 * h, msgs)
           found(k) == [i \in 1 .. k |-> Item(msgs[i])]
<1>1. /\ Len(b) = 1 + 2 * h + 2 * n
      /\ \A i \in 1 .. 2 * h : b[i + 1].what = "ack"
      /\ \A k \in 1 .. n : b[2 * h + 2 * k].what = "command" /\ b[2 * h + 2 * k + 1] = Item(msgs[k])
  <2>1. 2 * h \in Nat
    OBVIOUS
  <2> QED
    BY <2>1, BuffersAre
<1> HIDE DEF b
<1>2. (Len(b) - 1) \div 2 = h + n
  BY <1>1
<1>3. PICK f : /\ f[0] = <<>> /\ Taken(b) = f[h + n]
               /\ \A k \in 1 .. h + n :
                    f[k] = IF LooksLikeMessage(b[2 * k]) THEN Append(f[k - 1], b[2 * k + 1])
                                                        ELSE f[k - 1]
  BY <1>2, TakenIs
<1> HIDE DEF found
<1> DEFINE T == {k \in 0 .. h + n : f[k] = IF k <= h THEN <<>> ELSE found(k - h)}
<1>4. 0 \in T
  BY <1>3
<1>5. \A k \in 1 .. h + n : k - 1 \in T => k \in T
  <2> SUFFICES ASSUME NEW k \in 1 .. h + n, k - 1 \in T
               PROVE  f[k] = IF k <= h THEN <<>> ELSE found(k - h)
    OBVIOUS
  <2>1. CASE k <= h
    <3>1. 2 * k - 1 \in 1 .. 2 * h /\ (2 * k - 1) + 1 = 2 * k /\ k - 1 <= h
      BY <2>1
    <3>2. b[2 * k].what = "ack"
      BY <1>1, <3>1
    <3>3. ~LooksLikeMessage(b[2 * k])
      BY <3>2 DEF LooksLikeMessage
    <3> QED
      BY <1>3, <2>1, <3>1, <3>3
  <2>2. CASE k > h
    <3>1. k - h \in 1 .. n /\ 2 * h + 2 * (k - h) = 2 * k /\ (k - 1) - h = (k - h) - 1
      BY <2>2
    <3>2. b[2 * k].what = "command" /\ b[2 * k + 1] = Item(msgs[k - h])
      BY <1>1, <3>1
    <3>3. f[k] = Append(f[k - 1], Item(msgs[k - h]))
      BY <1>3, <3>2 DEF LooksLikeMessage
    <3>4. f[k - 1] = found((k - h) - 1)
      <4>1. CASE k - 1 <= h
        <5>1. f[k - 1] = <<>> /\ (k - h) - 1 = 0
          BY <2>2, <4>1
        <5>2. found(0) = <<>>
          BY DEF found
        <5> QED
          BY <5>1, <5>2
      <4>2. CASE ~(k - 1 <= h)
        BY <3>1, <4>2
      <4> QED
        BY <4>1, <4>2
    <3>5. Append(found((k - h) - 1), Item(msgs[k - h])) = found(k - h)
      BY <3>1 DEF found
    <3> QED
      BY <2>2, <3>3, <3>4, <3>5
  <2> QED
    BY <2>1, <2>2
<1> HIDE DEF T
<1>6. h + n \in T
  <2>1. h + n \in Nat
    OBVIOUS
  <2>2. \A k \in 0 .. h + n : k \in T
    BY <1>4, <1>5, <2>1, Throughout
  <2> QED
    BY <2>1, <2>2
<1>7. f[h + n] = found(n)
  <2>1. CASE n = 0
    BY <1>6, <2>1 DEF T, found
  <2>2. CASE n # 0
    <3>1. ~(h + n <= h) /\ (h + n) - h = n
      BY <2>2
    <3> QED
      BY <1>6, <3>1 DEF T
  <2> QED
    BY <2>1, <2>2
<1> QED
  BY <1>3, <1>7 DEF found, b

\* Behind an odd number of acknowledgements at least one message is missed.
LEMMA TakenOfOdd ==
  ASSUME NEW h \in Nat, NEW n \in Nat, NEW msgs \in [1 .. n -> Nat]
  PROVE  LET taken == Taken(Buffers(2 * h + 1, msgs))
         IN  taken \in Seq(GameBuffer) /\ Len(taken) <= IF n = 0 THEN 0 ELSE n - 1
<1> DEFINE b == Buffers(2 * h + 1, msgs)
<1>1. /\ b \in Seq(GameBuffer) /\ Len(b) = 1 + (2 * h + 1) + 2 * n
      /\ \A i \in 1 .. 2 * h + 1 : b[i + 1].what = "ack"
  <2>1. 2 * h + 1 \in Nat
    OBVIOUS
  <2> QED
    BY <2>1, BuffersAre
<1> HIDE DEF b
<1>2. (Len(b) - 1) \div 2 = h + n
  <2>1. Len(b) - 1 = 2 * (h + n) + 1 /\ h + n \in Nat
    BY <1>1
  <2> HIDE <1>1
  <2> QED
    BY <2>1
<1>3. PICK f : /\ f[0] = <<>> /\ Taken(b) = f[h + n]
               /\ \A k \in 1 .. h + n :
                    f[k] = IF LooksLikeMessage(b[2 * k]) THEN Append(f[k - 1], b[2 * k + 1])
                                                        ELSE f[k - 1]
  BY <1>2, TakenIs
<1> DEFINE most(k) == IF k <= h + 1 THEN 0 ELSE k - (h + 1)
           T == {k \in 0 .. h + n : f[k] \in Seq(GameBuffer) /\ Len(f[k]) <= most(k)}
<1>4. 0 \in T
  <2>1. f[0] \in Seq(GameBuffer) /\ Len(f[0]) = 0
    BY <1>3
  <2>2. most(0) = 0 /\ 0 \in 0 .. h + n
    OBVIOUS
  <2> HIDE DEF most
  <2> QED
    BY <2>1, <2>2
<1>5. \A k \in 1 .. h + n : k - 1 \in T => k \in T
  <2> SUFFICES ASSUME NEW k \in 1 .. h + n, k - 1 \in T
               PROVE  f[k] \in Seq(GameBuffer) /\ Len(f[k]) <= most(k)
    OBVIOUS
  <2>1. f[k - 1] \in Seq(GameBuffer) /\ Len(f[k - 1]) <= most(k - 1)
    OBVIOUS
  <2> HIDE DEF T
  <2>2. CASE k <= h + 1
    <3>1. 2 * k - 1 \in 1 .. 2 * h + 1 /\ (2 * k - 1) + 1 = 2 * k /\ most(k - 1) = 0 /\ most(k) = 0
      BY <2>2
    <3>2. b[2 * k].what = "ack"
      BY <1>1, <3>1
    <3>3. ~LooksLikeMessage(b[2 * k])
      BY <3>2 DEF LooksLikeMessage
    <3>4. f[k] = f[k - 1]
      BY <1>3, <3>3
    <3> QED
      BY <2>1, <3>1, <3>4
  <2>3. CASE k > h + 1
    <3>1. most(k) = most(k - 1) + 1 /\ most(k - 1) \in Nat
      BY <2>3
    <3>2. b[2 * k + 1] \in GameBuffer
      <4>1. 2 * k + 1 \in 1 .. Len(b)
        BY <1>1
      <4> QED
        BY <1>1, <4>1
    <3>3. f[k] = f[k - 1] \/ f[k] = Append(f[k - 1], b[2 * k + 1])
      BY <1>3
    <3> HIDE DEF most
    <3>4. /\ Append(f[k - 1], b[2 * k + 1]) \in Seq(GameBuffer)
          /\ Len(Append(f[k - 1], b[2 * k + 1])) = Len(f[k - 1]) + 1 /\ Len(f[k - 1]) \in Nat
      BY <2>1, <3>2
    <3>5. f[k] \in Seq(GameBuffer)
      BY <2>1, <3>3, <3>4
    <3>6. Len(f[k]) = Len(f[k - 1]) \/ Len(f[k]) = Len(f[k - 1]) + 1
      BY <3>3, <3>4
    <3> QED
      BY <2>1, <3>1, <3>4, <3>5, <3>6
  <2> QED
    BY <2>2, <2>3
<1> HIDE DEF T
<1>6. h + n \in T
  <2>1. h + n \in Nat
    OBVIOUS
  <2>2. \A k \in 0 .. h + n : k \in T
    BY <1>4, <1>5, <2>1, Throughout
  <2> QED
    BY <2>1, <2>2
<1>7. most(h + n) = IF n = 0 THEN 0 ELSE n - 1
  OBVIOUS
<1> QED
  BY <1>3, <1>6, <1>7 DEF T, b

\* What is passed on of a datagram.
LEMMA DecryptedIs ==
  ASSUME NEW taken \in Seq(GameBuffer), NEW first \in BOOLEAN
  PROVE  Decrypted(taken, first) \in Seq(PassedOn) /\ Len(Decrypted(taken, first)) = Len(taken)
<1> DEFINE new(k) == [what |-> taken[k].what, msg |-> taken[k].msg, decrypted |-> ~(first /\ k = 1)]
<1>1. \A k \in 1 .. Len(taken) : new(k) \in PassedOn
  <2> SUFFICES ASSUME NEW k \in 1 .. Len(taken) PROVE new(k) \in PassedOn
    OBVIOUS
  <2>1. taken[k] \in GameBuffer
    OBVIOUS
  <2>2. taken[k].what \in {"header", "ack", "command", "data"} /\ taken[k].msg \in Nat
    BY <2>1 DEF GameBuffer
  <2>3. CASE first /\ k = 1
    <3>1. new(k) = [what |-> taken[k].what, msg |-> taken[k].msg, decrypted |-> FALSE]
      BY <2>3
    <3> QED
      BY <2>2, <3>1 DEF PassedOn
  <2>4. CASE ~(first /\ k = 1)
    <3>1. new(k) = [what |-> taken[k].what, msg |-> taken[k].msg, decrypted |-> TRUE]
      BY <2>4
    <3> QED
      BY <2>2, <3>1 DEF PassedOn
  <2> QED
    BY <2>3, <2>4
<1>2. Decrypted(taken, first) = [k \in 1 .. Len(taken) |-> new(k)]
  BY DEF Decrypted
<1> HIDE DEF new
<1> QED
  BY <1>1, <1>2

LEMMA SendToSent == SentInv /\ NewWSASendTo => SentInv'
<1> SUFFICES ASSUME SentInv, NewWSASendTo PROVE SentInv'
  OBVIOUS
<1>1. PICK n \in 0 .. MaxCommands, acks \in 0 .. MaxCommands :
        /\ LET taken == Taken(Buffers(acks, [i \in 1 .. n |-> count + i]))
           IN  /\ sent' = sent \o Decrypted(taken, doFirst)
               /\ doFirst' = (doFirst /\ taken = <<>>)
        /\ count' = count + n /\ plain' = (plain /\ (n = 0 \/ acks % 2 = 0))
  BY DEF NewWSASendTo
<1> DEFINE msgs == [i \in 1 .. n |-> count + i]
           taken == Taken(Buffers(acks, msgs))
<1>2. /\ n \in Nat /\ acks \in Nat /\ count \in Nat /\ count' = count + n
      /\ doFirst' \in BOOLEAN /\ plain' \in BOOLEAN
  BY <1>1, SnifferAssumption DEF SentInv
<1>3. msgs \in [1 .. n -> Nat] /\ \A i \in 1 .. n : msgs[i] = count + i
  BY <1>2
<1> HIDE DEF msgs
<1>4. acks % 2 = 0 => taken = [i \in 1 .. n |-> Item(count + i)]
  <2> SUFFICES ASSUME acks % 2 = 0 PROVE taken = [i \in 1 .. n |-> Item(count + i)]
    OBVIOUS
  <2>1. acks \div 2 \in Nat /\ acks = 2 * (acks \div 2)
    BY <1>2
  <2>2. taken = [i \in 1 .. n |-> Item(msgs[i])]
    <3>1. taken = Taken(Buffers(2 * (acks \div 2), msgs))
      BY <2>1
    <3> QED
      BY <1>2, <1>3, <2>1, <3>1, TakenOfEven
  <2> QED
    BY <1>3, <2>2
<1>5. acks % 2 # 0 => taken \in Seq(GameBuffer) /\ Len(taken) <= IF n = 0 THEN 0 ELSE n - 1
  <2> SUFFICES ASSUME acks % 2 # 0
               PROVE  taken \in Seq(GameBuffer) /\ Len(taken) <= IF n = 0 THEN 0 ELSE n - 1
    OBVIOUS
  <2>1. acks \div 2 \in Nat /\ acks = 2 * (acks \div 2) + 1
    BY <1>2
  <2> QED
    BY <1>2, <1>3, <2>1, TakenOfOdd
<1>6. sent' = sent \o Decrypted(taken, doFirst) /\ doFirst' = (doFirst /\ taken = <<>>)
  BY <1>1 DEF msgs
<1> HIDE DEF taken
<1>7. n = 0 \/ acks % 2 = 0 => taken = [i \in 1 .. n |-> Item(count + i)]
  <2>1. CASE acks % 2 = 0
    BY <1>4, <2>1
  <2>2. CASE acks % 2 # 0 /\ n = 0
    <3>1. taken \in Seq(GameBuffer) /\ Len(taken) <= 0
      BY <1>5, <2>2
    <3>2. taken = <<>>
      BY <3>1
    <3> QED
      BY <2>2, <3>2
  <2> QED
    BY <2>1, <2>2
<1>8. /\ taken \in Seq(GameBuffer) /\ Len(taken) <= n
      /\ ~(n = 0 \/ acks % 2 = 0) => Len(taken) < n
  <2>1. CASE acks % 2 = 0
    <3>1. \A i \in 1 .. n : Item(count + i) \in GameBuffer
      BY <1>2 DEF Item, GameBuffer
    <3>2. taken \in Seq(GameBuffer) /\ Len(taken) = n
      <4>1. taken = [i \in 1 .. n |-> Item(count + i)]
        BY <1>4, <2>1
      <4> QED
        BY <1>2, <3>1, <4>1
    <3> QED
      BY <1>2, <2>1, <3>2
  <2>2. CASE acks % 2 # 0
    BY <1>2, <1>5, <2>2
  <2> QED
    BY <2>1, <2>2
<1>9. /\ sent' \in Seq(PassedOn) /\ Len(sent') = Len(sent) + Len(taken)
      /\ Len(sent) \in Nat /\ Len(taken) \in Nat
  <2>1. sent \in Seq(PassedOn) /\ doFirst \in BOOLEAN
    BY DEF SentInv
  <2>2. Decrypted(taken, doFirst) \in Seq(PassedOn) /\ Len(Decrypted(taken, doFirst)) = Len(taken)
    BY <1>8, <2>1, DecryptedIs
  <2> DEFINE new == Decrypted(taken, doFirst)
  <2>3. sent' = sent \o new /\ new \in Seq(PassedOn) /\ Len(new) = Len(taken)
    BY <1>6, <2>2
  <2> HIDE DEF new
  <2>4. sent' \in Seq(PassedOn) /\ Len(sent') = Len(sent) + Len(new)
    BY <2>1, <2>3, ConcatProperties
  <2> QED
    BY <1>8, <2>1, <2>3, <2>4
<1>10. Len(sent') <= count' /\ (~plain' => Len(sent') < count')
  <2>1. Len(sent) <= count /\ (~plain => Len(sent) < count)
    BY DEF SentInv
  <2>2. ~plain' => ~plain \/ ~(n = 0 \/ acks % 2 = 0)
    BY <1>1, Zenon
  <2>3. Len(sent') <= count'
    BY <1>2, <1>8, <1>9, <2>1
  <2>4. ASSUME ~plain PROVE Len(sent') < count'
    <3>1. Len(sent) < count
      BY <2>1, <2>4, Zenon
    <3> QED
      BY <1>2, <1>8, <1>9, <3>1
  <2>5. ASSUME ~(n = 0 \/ acks % 2 = 0) PROVE Len(sent') < count'
    BY <1>2, <1>8, <1>9, <2>1, <2>5
  <2> QED
    BY <2>2, <2>3, <2>4, <2>5, Zenon
<1>11. ASSUME plain'
       PROVE  sent' = [i \in 1 .. count' |-> Shown(i)] /\ (doFirst' <=> count' = 0)
  <2>1. plain /\ (n = 0 \/ acks % 2 = 0)
    BY <1>1, <1>11, Zenon
  <2>2. taken = [i \in 1 .. n |-> Item(count + i)]
    BY <1>7, <2>1, Zenon
  <2>4. (doFirst <=> count = 0) /\ sent = [i \in 1 .. count |-> Shown(i)]
    BY <2>1, Zenon DEF SentInv
  <2>5. taken = <<>> <=> n = 0
    BY <1>2, <2>2
  <2>6. Decrypted(taken, doFirst) = [k \in 1 .. n |-> Shown(count + k)]
    <3>1. DOMAIN taken = 1 .. n
      BY <2>2
    <3>2. ASSUME NEW k \in 1 .. n
          PROVE  [what |-> taken[k].what, msg |-> taken[k].msg, decrypted |-> ~(doFirst /\ k = 1)]
                   = Shown(count + k)
      <4>1. taken[k] = [what |-> "data", msg |-> count + k]
        BY <2>2 DEF Item
      <4>2. (~(doFirst /\ k = 1)) = (count + k # 1)
        BY <1>2, <2>4 DEF SentInv
      <4> QED
        BY <4>1, <4>2 DEF Shown
    <3> QED
      BY <3>1, <3>2 DEF Decrypted
  <2>7. sent' = [i \in 1 .. count + n |-> Shown(i)]
    <3> DEFINE new == [k \in 1 .. n |-> Shown(count + k)]
               S == {Shown(i) : i \in Nat}
    <3>1. sent \in Seq(S) /\ Len(sent) = count
      BY <1>2, <2>4
    <3>2. new \in Seq(S) /\ Len(new) = n
      BY <1>2
    <3>3. \A i \in 1 .. count + n : IF i <= count THEN sent[i] = Shown(i)
                                                  ELSE new[i - count] = Shown(i)
      <4>1. \A i \in 1 .. count : sent[i] = Shown(i)
        BY <2>4
      <4>2. \A i \in 1 .. count + n : ~(i <= count) => new[i - count] = Shown(i)
        <5> SUFFICES ASSUME NEW i \in 1 .. count + n, ~(i <= count)
                     PROVE  new[i - count] = Shown(i)
          OBVIOUS
        <5>1. i - count \in 1 .. n /\ count + (i - count) = i
          BY <1>2
        <5> QED
          BY <5>1
      <4> QED
        BY <1>2, <4>1, <4>2
    <3> HIDE DEF S, new
    <3>4. /\ sent \o new \in Seq(S) /\ Len(sent \o new) = count + n
          /\ \A i \in 1 .. count + n :
               (sent \o new)[i] = IF i <= count THEN sent[i] ELSE new[i - count]
      BY <3>1, <3>2, ConcatProperties
    <3>5. \A i \in 1 .. count + n : (sent \o new)[i] = Shown(i)
      BY <3>3, <3>4
    <3> DEFINE all == sent \o new
    <3>6. all \in Seq(S) /\ Len(all) = count + n /\ \A i \in 1 .. count + n : all[i] = Shown(i)
      BY <3>4, <3>5
    <3>7. sent' = all
      BY <1>6, <2>6 DEF new
    <3> HIDE DEF all
    <3>8. DOMAIN all = 1 .. count + n
      BY <3>6
    <3>9. all = [i \in DOMAIN all |-> all[i]]
      BY <3>6
    <3> QED
      BY <3>6, <3>7, <3>8, <3>9
  <2>8. doFirst' <=> count' = 0
    <3>1. count' = 0 <=> count = 0 /\ n = 0
      BY <1>2
    <3> QED
      BY <1>6, <2>4, <2>5, <3>1, Zenon
  <2> QED
    BY <1>2, <2>7, <2>8
<1>12. count' \in Nat
  BY <1>2
<1> QED
  BY <1>2, <1>9, <1>10, <1>11, <1>12, Zenon DEF SentInv

\* The messages of the game are passed on, the first one as it is and the others
\* decrypted, exactly as long as no acknowledgements shift the buffers of one.
THEOREM SentRightTheorem == Spec => []SentRight
<1>1. Init => SentInv
  BY DEF Init, SentInv
<1>2. SentInv /\ [Next]_vars => SentInv'
  BY SendToSent DEF Next, ServerSends, Lose, Resend, NewWSARecvFrom, vars, sendVars, SentInv
<1>3. SentInv => SentRight
  <2> SUFFICES ASSUME SentInv PROVE SentRight
    OBVIOUS
  <2>1. plain => InPairs
    BY DEF SentInv, Shown, InPairs
  <2>2. ~plain => ~InPairs
    <3> SUFFICES ASSUME ~plain, InPairs PROVE FALSE
      OBVIOUS
    <3>1. Len(sent) = count
      BY DEF SentInv, InPairs
    <3> QED
      BY <3>1 DEF SentInv
  <2> QED
    BY <2>1, <2>2, Zenon DEF SentRight
<1> QED
  BY <1>1, <1>2, <1>3, PTL DEF Spec

=============================================================================
