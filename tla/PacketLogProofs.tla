-------------------------- MODULE PacketLogProofs --------------------------
(***************************************************************************)
(* What the viewer reads before and after the game has ended, for any      *)
(* number of packets that the count can hold.                              *)
(*                                                                         *)
(* AllOrNothing speaks of the file alone; Inv says at every step before    *)
(* what file and buffer hold together (Content), wherever the border       *)
(* between them is: the count, which is zero, the fields of the packets    *)
(* that were logged, and those that are written of the packet at hand,     *)
(* which the count does not take in.                                       *)
(***************************************************************************)
EXTENDS PacketLog, SequenceTheorems, TLAPS

Record == [kind : {"count", "type", "time", "length", "data"}, of : Nat]

Content == file \o buffer

\* The fields of s are those of the first n packets.
Holds(s, n) ==
  /\ Len(s) >= 1 + 4 * n
  /\ \A i \in 1 .. n, k \in 1 .. 4 : s[4 * (i - 1) + 1 + k] = Field(Fields[k], i)

TypeInv ==
  /\ game \in {"new", "runs", "exited", "stuck", "killed"}
  /\ file \in Seq(Record) /\ buffer \in Seq(Record)
  /\ written \in 0 .. 4 /\ packet \in 0 .. MaxPackets
  /\ logged \in Seq(Nat) /\ \A i \in 1 .. Len(logged) : logged[i] = i
  /\ packet \in {Len(logged), Len(logged) + 1}
  /\ written > 0 => packet = Len(logged) + 1
  /\ inside => packet = Len(logged) + 1 /\ written < 4
  /\ packetCount = Len(logged)

Written ==
  game = "runs" =>
    /\ Len(Content) = 1 + 4 * Len(logged) + written
    /\ Content[1] = Field("count", 0)
    /\ Holds(Content, Len(logged))
    /\ \A k \in 1 .. written : Content[1 + 4 * Len(logged) + k] = Field(Fields[k], packet)

Closed ==
  game = "exited" =>
    /\ Holds(file, Len(logged))
    /\ file[1] = Field("count", Len(logged))

Uncounted == game # "exited" /\ file # <<>> => file[1] = Field("count", 0)

Fresh ==
  game = "new" => file = <<>> /\ buffer = <<>> /\ written = 0 /\ ~inside /\ logged = <<>>

Inv == TypeInv /\ Written /\ Closed /\ Uncounted /\ Fresh

LEMMA ContentIsSeq ==
  ASSUME TypeInv
  PROVE  Content \in Seq(Record) /\ Len(Content) \in Nat /\ Len(logged) \in Nat
BY ConcatProperties DEF TypeInv, Content

LEMMA FieldIsRecord ==
  ASSUME NEW k \in 1 .. 4, NEW p \in Nat
  PROVE  Field(Fields[k], p) \in Record
BY DEF Field, Fields, Record

LEMMA InitInv == Init => Inv
<1> SUFFICES ASSUME Init PROVE Inv
  OBVIOUS
<1>1. file \in Seq(Record) /\ buffer \in Seq(Record) /\ logged \in Seq(Nat) /\ Len(logged) = 0
  BY DEF Init
<1>2. 0 \in 0 .. MaxPackets /\ 0 \in 0 .. 4
  BY LogAssumption
<1>3. TypeInv
  BY <1>1, <1>2 DEF Init, TypeInv
<1> QED
  BY <1>3 DEF Init, Inv, Written, Closed, Uncounted, Fresh

LEMMA AttachInv == Inv /\ Attach => Inv'
<1> SUFFICES ASSUME Inv, Attach PROVE Inv'
  OBVIOUS
<1>1. /\ file = <<>> /\ file' = <<>> /\ written' = 0 /\ logged' = <<>> /\ packetCount = 0
      /\ game' = "runs" /\ buffer' = <<Field("count", packetCount)>>
  BY DEF Inv, TypeInv, Fresh, Attach
<1>2. Field("count", packetCount) \in Record
  BY <1>1 DEF Field, Record
<1>3. TypeInv'
  BY <1>1, <1>2 DEF Inv, TypeInv, Attach
<1>4. Content' = <<Field("count", packetCount)>>
  BY <1>1, <1>2, ConcatEmptySeq DEF Content
<1>5. Written'
  BY <1>1, <1>4 DEF Written, Holds
<1> QED
  BY <1>1, <1>3, <1>5 DEF Inv, Closed, Uncounted, Fresh

LEMMA OnPacketInv == Inv /\ OnPacket => Inv'
<1> SUFFICES ASSUME Inv, OnPacket PROVE Inv'
  OBVIOUS
<1>1. TypeInv'
  BY LogAssumption DEF Inv, TypeInv, OnPacket
<1>2. written = 0 /\ Content' = Content
  BY ContentIsSeq DEF Inv, TypeInv, OnPacket, Content
<1> QED
  BY <1>1, <1>2 DEF Inv, Written, Closed, Uncounted, Fresh, OnPacket

LEMMA EnterWriteInv == Inv /\ EnterWrite => Inv'
<1> SUFFICES ASSUME Inv, EnterWrite PROVE Inv'
  OBVIOUS
<1>1. /\ inside' = TRUE /\ packet = Len(logged) + 1 /\ written < 4 /\ game = "runs"
      /\ UNCHANGED <<game, file, buffer, packetCount, written, packet, logged>>
  BY ContentIsSeq DEF Inv, TypeInv, EnterWrite
<1>2. TypeInv' /\ Content' = Content
  BY <1>1 DEF Inv, TypeInv, Content
<1> QED
  BY <1>1, <1>2 DEF Inv, Written, Closed, Uncounted, Fresh

LEMMA WriteFieldInv == Inv /\ WriteField => Inv'
<1> SUFFICES ASSUME Inv, WriteField PROVE Inv'
  OBVIOUS
<1> DEFINE x == Field(Fields[written + 1], packet)
           n == Len(logged)
<1>1. /\ written \in 0 .. 3 /\ written' = written + 1 /\ packet = n + 1 /\ n \in Nat
      /\ packet \in Nat /\ game = "runs"
      /\ buffer' = Append(buffer, x) /\ UNCHANGED <<game, file, packetCount, packet, logged>>
  BY ContentIsSeq DEF Inv, TypeInv, WriteField
<1>2. x \in Record
  BY <1>1, FieldIsRecord
<1>3. TypeInv'
  <2>1. buffer' \in Seq(Record)
    BY <1>1, <1>2, AppendProperties DEF Inv, TypeInv
  <2>2. ~inside'
    BY DEF WriteField
  <2> QED
    BY <1>1, <2>1, <2>2 DEF Inv, TypeInv
<1>4. /\ Content' \in Seq(Record) /\ Len(Content') = Len(Content) + 1
      /\ \A i \in 1 .. Len(Content) : Content'[i] = Content[i]
      /\ Content'[Len(Content) + 1] = x
  <2>1. /\ buffer' \in Seq(Record) /\ Len(buffer') = Len(buffer) + 1
        /\ \A i \in 1 .. Len(buffer) : buffer'[i] = buffer[i]
        /\ buffer'[Len(buffer) + 1] = x
    BY <1>1, <1>2, AppendProperties DEF Inv, TypeInv
  <2>2. /\ file \in Seq(Record) /\ buffer \in Seq(Record) /\ Len(file) \in Nat /\ Len(buffer) \in Nat
    BY DEF Inv, TypeInv
  <2>3. /\ Len(Content) = Len(file) + Len(buffer)
        /\ \A i \in 1 .. Len(file) + Len(buffer) :
             Content[i] = IF i <= Len(file) THEN file[i] ELSE buffer[i - Len(file)]
    BY <2>2, ConcatProperties DEF Content
  <2>4. /\ Content' = file \o buffer' /\ Content' \in Seq(Record)
        /\ Len(Content') = Len(file) + Len(buffer')
        /\ \A i \in 1 .. Len(file) + Len(buffer') :
             Content'[i] = IF i <= Len(file) THEN file[i] ELSE buffer'[i - Len(file)]
    BY <1>1, <2>1, <2>2, ConcatProperties DEF Content
  <2>5. Len(Content') = Len(Content) + 1
    BY <2>1, <2>2, <2>3, <2>4
  <2>6. ASSUME NEW i \in 1 .. Len(Content)
        PROVE  Content'[i] = Content[i]
    <3>1. /\ i \in 1 .. Len(file) + Len(buffer) /\ i \in 1 .. Len(file) + Len(buffer')
          /\ i > Len(file) => i - Len(file) \in 1 .. Len(buffer)
      BY <2>1, <2>2, <2>3
    <3>2. /\ Content[i] = IF i <= Len(file) THEN file[i] ELSE buffer[i - Len(file)]
          /\ Content'[i] = IF i <= Len(file) THEN file[i] ELSE buffer'[i - Len(file)]
      BY ONLY <2>3, <2>4, <3>1
    <3>3. i > Len(file) => buffer'[i - Len(file)] = buffer[i - Len(file)]
      BY ONLY <2>1, <3>1
    <3>4. i <= Len(file) \/ i > Len(file)
      BY <2>2, <3>1
    <3> QED
      BY <2>2, <3>2, <3>3, <3>4
  <2>7. Content'[Len(Content) + 1] = x
    <3>1. /\ Len(Content) + 1 \in 1 .. Len(file) + Len(buffer')
          /\ ~ (Len(Content) + 1 <= Len(file))
          /\ Len(Content) + 1 - Len(file) = Len(buffer) + 1
      BY <2>1, <2>2, <2>3
    <3> QED
      BY ONLY <2>1, <2>4, <3>1
  <2> QED
    BY ONLY <2>4, <2>5, <2>6, <2>7
<1>5. /\ Len(Content) = 1 + 4 * n + written /\ Holds(Content, n)
      /\ Content[1] = Field("count", 0) /\ 1 \in 1 .. Len(Content)
      /\ \A k \in 1 .. written : Content[1 + 4 * n + k] = Field(Fields[k], packet)
  BY <1>1 DEF Inv, Written
<1>6. Holds(Content', n)
  <2>1. \A i \in 1 .. n, k \in 1 .. 4 : 4 * (i - 1) + 1 + k \in 1 .. Len(Content)
    BY <1>1, <1>5
  <2> QED
    BY <1>1, <1>4, <1>5, <2>1, SMTT(30) DEF Holds
<1>7. \A k \in 1 .. written + 1 : Content'[1 + 4 * n + k] = Field(Fields[k], packet)
  <2> SUFFICES ASSUME NEW k \in 1 .. written + 1
               PROVE  Content'[1 + 4 * n + k] = Field(Fields[k], packet)
    OBVIOUS
  <2>1. CASE k \in 1 .. written
    <3>1. 1 + 4 * n + k \in 1 .. Len(Content)
      BY <1>1, <1>5, <2>1
    <3> QED
      BY ONLY <1>4, <1>5, <2>1, <3>1
  <2>2. CASE k = written + 1
    <3>1. 1 + 4 * n + k = Len(Content) + 1
      BY <1>1, <1>5, <2>2
    <3> QED
      BY ONLY <1>4, <2>2, <3>1
  <2> QED
    BY <1>1, <2>1, <2>2
<1>8. Written'
  BY <1>1, <1>4, <1>5, <1>6, <1>7 DEF Written
<1> QED
  BY <1>1, <1>3, <1>8 DEF Inv, Closed, Uncounted, Fresh

\* Where the border between file and buffer is does not matter.
LEMMA FlushInv == Inv /\ Flush => Inv'
<1> SUFFICES ASSUME Inv, Flush PROVE Inv'
  OBVIOUS
<1>1. /\ file' = Content /\ buffer' = <<>> /\ game = "runs"
      /\ UNCHANGED <<game, packetCount, written, inside, packet, logged>>
  BY DEF Flush, Content
<1>2. Content \in Seq(Record)
  BY ContentIsSeq DEF Inv
<1>3. TypeInv'
  BY <1>1, <1>2 DEF Inv, TypeInv
<1>4. Content' = Content
  BY <1>1, <1>2, ConcatEmptySeq DEF Content
<1> QED
  BY <1>1, <1>3, <1>4 DEF Inv, Written, Closed, Uncounted, Fresh

LEMMA CountPacketInv ==
  ASSUME MaxPackets < MaxCount, Inv, CountPacket
  PROVE  Inv'
<1> DEFINE n == Len(logged)
<1>1. /\ n \in Nat /\ packet = n + 1 /\ written = 4 /\ game = "runs" /\ packet <= MaxPackets
      /\ packetCount = n /\ written' = 0 /\ packetCount' = (packetCount + 1) % MaxCount
      /\ logged' = Append(logged, packet) /\ UNCHANGED <<game, file, buffer, inside, packet>>
  BY ContentIsSeq, LogAssumption DEF Inv, TypeInv, CountPacket
<1>2. packetCount' = n + 1
  <2>1. n + 1 \in 0 .. MaxCount - 1 /\ MaxCount \in Nat
    BY <1>1, LogAssumption
  <2> QED
    BY <1>1, <2>1
<1>3. /\ logged' \in Seq(Nat) /\ Len(logged') = n + 1
      /\ \A i \in 1 .. n : logged'[i] = logged[i]
      /\ logged'[n + 1] = n + 1
  BY <1>1, AppendProperties DEF Inv, TypeInv
<1>4. TypeInv'
  BY <1>1, <1>2, <1>3 DEF Inv, TypeInv
<1>5. /\ Content' = Content /\ Len(Content) = 1 + 4 * n + 4 /\ Holds(Content, n)
      /\ Content[1] = Field("count", 0)
      /\ \A k \in 1 .. 4 : Content[1 + 4 * n + k] = Field(Fields[k], n + 1)
  BY <1>1 DEF Inv, Written, Content
<1>6. Holds(Content, n + 1)
  <2>1. Len(Content) >= 1 + 4 * (n + 1)
    BY <1>1, <1>5
  <2>2. ASSUME NEW i \in 1 .. n + 1, NEW k \in 1 .. 4
        PROVE  Content[4 * (i - 1) + 1 + k] = Field(Fields[k], i)
    <3>1. CASE i \in 1 .. n
      BY <1>5, <3>1 DEF Holds
    <3>2. CASE i = n + 1
      <4>1. 4 * (i - 1) + 1 + k = 1 + 4 * n + k
        BY <1>1, <3>2
      <4> QED
        BY <1>5, <3>2, <4>1
    <3> QED
      BY <1>1, <3>1, <3>2
  <2> QED
    BY <2>1, <2>2 DEF Holds
<1>7. Written'
  BY <1>1, <1>3, <1>5, <1>6 DEF Written
<1> QED
  BY <1>1, <1>4, <1>7 DEF Inv, Closed, Uncounted, Fresh

\* The count takes the place of the first field, and no other.
LEMMA DetachInv == Inv /\ Detach => Inv'
<1> SUFFICES ASSUME Inv, Detach PROVE Inv'
  OBVIOUS
<1> DEFINE n == Len(logged)
           x == Field("count", packetCount)
<1>1. /\ file' = [Content EXCEPT ![1] = x] /\ buffer' = <<>> /\ game = "runs" /\ game' = "exited"
      /\ UNCHANGED <<packetCount, written, inside, packet, logged>>
  BY DEF Detach, Content
<1>2. /\ Content \in Seq(Record) /\ Holds(Content, n) /\ n \in Nat /\ packetCount = n
      /\ Len(Content) \in Nat
  BY <1>1, ContentIsSeq DEF Inv, TypeInv, Written
<1>3. x \in Record /\ 1 \in 1 .. Len(Content)
  BY <1>2 DEF Field, Record, Holds
<1>4. /\ file' \in Seq(Record) /\ Len(file') = Len(Content)
      /\ \A j \in 1 .. Len(Content) : file'[j] = IF j = 1 THEN x ELSE Content[j]
  BY <1>1, <1>2, <1>3, ExceptSeq
<1>5. TypeInv'
  BY <1>1, <1>4 DEF Inv, TypeInv
<1>6. Holds(file', n)
  <2>1. \A i \in 1 .. n, k \in 1 .. 4 :
          4 * (i - 1) + 1 + k \in 1 .. Len(Content) /\ 4 * (i - 1) + 1 + k # 1
    BY <1>2 DEF Holds
  <2> QED
    BY <1>2, <1>4, <2>1 DEF Holds
<1>7. Closed'
  BY <1>1, <1>2, <1>3, <1>4, <1>6 DEF Closed
<1> QED
  BY <1>1, <1>5, <1>7 DEF Inv, Written, Uncounted, Fresh

\* What was in the buffer is lost, and the count stays as it was.
LEMMA DetachStuckInv == Inv /\ DetachStuck => Inv'
<1> SUFFICES ASSUME Inv, DetachStuck PROVE Inv'
  OBVIOUS
<1>1. TypeInv'
  BY DEF Inv, TypeInv, DetachStuck
<1> QED
  BY <1>1 DEF Inv, Written, Closed, Uncounted, Fresh, DetachStuck

LEMMA KillInv == Inv /\ Kill => Inv'
<1> SUFFICES ASSUME Inv, Kill PROVE Inv'
  OBVIOUS
<1>1. TypeInv'
  BY DEF Inv, TypeInv, Kill
<1> QED
  BY <1>1 DEF Inv, Written, Closed, Uncounted, Fresh, Kill

LEMMA NextInv ==
  ASSUME MaxPackets < MaxCount
  PROVE  Inv /\ [Next]_vars => Inv'
<1>1. ASSUME Inv, UNCHANGED vars PROVE Inv'
  BY <1>1 DEF vars, Inv, TypeInv, Written, Closed, Uncounted, Fresh, Content, Holds
<1> QED
  BY <1>1, AttachInv, OnPacketInv, WriteFieldInv, FlushInv, CountPacketInv, DetachInv,
     DetachStuckInv, KillInv, EnterWriteInv DEF Next

-----------------------------------------------------------------------------

LEMMA InvExited == Inv /\ game = "exited" => Load = {logged}
<1> SUFFICES ASSUME Inv, game = "exited" PROVE Load = {logged}
  OBVIOUS
<1> DEFINE n == Len(logged)
<1>1. /\ n \in Nat /\ Holds(file, n) /\ file[1] = Field("count", n) /\ file \in Seq(Record)
      /\ Len(file) \in Nat /\ file # <<>>
  BY ContentIsSeq DEF Inv, TypeInv, Closed, Holds
<1>2. \A i \in 1 .. n : PacketAt(i) = i
  <2> SUFFICES ASSUME NEW i \in 1 .. n PROVE PacketAt(i) = i
    OBVIOUS
  <2> DEFINE first == 4 * (i - 1) + 2
  <2>1. \A k \in 1 .. 4 : file[first + k - 1] = Field(Fields[k], i)
    <3> SUFFICES ASSUME NEW k \in 1 .. 4 PROVE file[first + k - 1] = Field(Fields[k], i)
      OBVIOUS
    <3>1. first + k - 1 = 4 * (i - 1) + 1 + k
      BY <1>1
    <3> QED
      BY <1>1, <3>1 DEF Holds
  <2>2. first + 3 <= Len(file)
    BY <1>1 DEF Holds
  <2>3. file[first] = Field(Fields[1], i)
    BY <1>1, <2>1
  <2>4. file[first].of = i
    BY <2>3 DEF Field
  <2> QED
    BY <2>1, <2>2, <2>4 DEF PacketAt
<1>3. Load = {[i \in 1 .. n |-> PacketAt(i)]}
  BY <1>1 DEF Load, Field
<1>4. logged = [i \in 1 .. n |-> i]
  BY <1>1 DEF Inv, TypeInv
<1>5. [i \in 1 .. n |-> PacketAt(i)] = [i \in 1 .. n |-> i]
  BY <1>2
<1> QED
  BY <1>3, <1>4, <1>5

LEMMA InvUncounted == Inv /\ game # "exited" /\ file # <<>> => Load = {<<>>}
<1> SUFFICES ASSUME Inv, game # "exited", file # <<>> PROVE Load = {<<>>}
  OBVIOUS
<1>1. file[1].of = 0
  BY DEF Inv, Uncounted, Field
<1>2. Load = {[i \in 1 .. 0 |-> PacketAt(i)]}
  BY <1>1 DEF Load
<1>3. [i \in 1 .. 0 |-> PacketAt(i)] = <<>>
  OBVIOUS
<1> QED
  BY <1>2, <1>3

\* However the game exits or is killed, the viewer shows the packets that were logged
\* or none, if the count can hold their number.
THEOREM AllOrNothingTheorem ==
  ASSUME MaxPackets < MaxCount
  PROVE  Spec => []AllOrNothing
<1>1. Spec => []Inv
  BY InitInv, NextInv, PTL DEF Spec
<1>2. Inv => AllOrNothing
  BY InvExited, InvUncounted DEF AllOrNothing
<1> QED
  BY <1>1, <1>2, PTL

=============================================================================
