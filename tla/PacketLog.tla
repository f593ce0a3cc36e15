----------------------------- MODULE PacketLog -----------------------------
(***************************************************************************)
(* The log that LOLProxy, loaded into the game, writes of its packets, and *)
(* what LOLPacketViewer reads of it, then or while it is being written.    *)
(*                                                                         *)
(* The file begins with the number of packets, which is known and written  *)
(* when the DLL is detached; until then it is zero. A packet is four       *)
(* fields. What the game's thread writes goes to a buffer of the C library *)
(* and from there to the file when it is full or the file is closed. When  *)
(* the game exits, its thread stops anywhere, and the DLL is detached; if  *)
(* the thread stops inside fwrite() it keeps the lock of the stream, and   *)
(* the detaching gets no further than the first call that takes this lock. *)
(* When the game is killed, the DLL is not detached. Either way the buffer *)
(* is lost.                                                                *)
(***************************************************************************)
EXTENDS Naturals, Sequences

CONSTANTS
  MaxPackets,   \* bound: packets of the game
  MaxCount      \* one more than the largest value of packetCount: 2^32

ASSUME LogAssumption == MaxPackets \in Nat /\ MaxCount \in Nat \ {0}

VARIABLES
  game,         \* "runs", "exited", "stuck" in the detaching, or "killed"; "new" at first
  file,         \* the fields in the file
  buffer,       \* those in the buffer of logFile
  packetCount,
  written,      \* fields written of the packet at hand
  inside,       \* the game's thread is inside fwrite(), with the lock of logFile
  packet,       \* that packet
  logged        \* packets whose hook has returned

vars == <<game, file, buffer, packetCount, written, inside, packet, logged>>

Fields == <<"type", "time", "length", "data">>
Field(kind, value) == [kind |-> kind, of |-> value]

Init ==
  /\ game = "new" /\ file = <<>> /\ buffer = <<>>
  /\ packetCount = 0 /\ written = 0 /\ inside = FALSE /\ packet = 0 /\ logged = <<>>

\* DLL_PROCESS_ATTACH: the file is created, zero is written, and the hooks are set.
Attach ==
  /\ game = "new" /\ game' = "runs"
  /\ buffer' = <<Field("count", packetCount)>>
  /\ UNCHANGED <<file, packetCount, written, inside, packet, logged>>

\* The game has received a packet, or sends one: OnReceivePacket(), OnSendPacket().
OnPacket ==
  /\ game = "runs" /\ packet = Len(logged) /\ packet < MaxPackets
  /\ packet' = packet + 1
  /\ UNCHANGED <<game, file, buffer, packetCount, written, inside, logged>>

\* fwrite() of the next field is called, and takes the lock.
EnterWrite ==
  /\ game = "runs" /\ ~inside /\ packet > Len(logged) /\ written < 4
  /\ inside' = TRUE
  /\ UNCHANGED <<game, file, buffer, packetCount, written, packet, logged>>

\* fwrite() finds the buffer full.
Flush ==
  /\ game = "runs" /\ inside /\ buffer # <<>>
  /\ file' = file \o buffer /\ buffer' = <<>>
  /\ UNCHANGED <<game, packetCount, written, inside, packet, logged>>

\* fwrite() has the field in the buffer, gives back the lock and returns.
WriteField ==
  /\ game = "runs" /\ inside
  /\ buffer' = Append(buffer, Field(Fields[written + 1], packet))
  /\ written' = written + 1 /\ inside' = FALSE
  /\ UNCHANGED <<game, file, packetCount, packet, logged>>

CountPacket ==
  /\ game = "runs" /\ written = 4
  /\ packetCount' = (packetCount + 1) % MaxCount
  /\ logged' = Append(logged, packet) /\ written' = 0
  /\ UNCHANGED <<game, file, buffer, inside, packet>>

\* Fault: the count goes to the end of the file.
AppendCount ==
  /\ game = "runs" /\ ~inside /\ game' = "exited"
  /\ file' = file \o buffer \o <<Field("count", packetCount)>> /\ buffer' = <<>>
  /\ UNCHANGED <<packetCount, written, inside, packet, logged>>

\* DLL_PROCESS_DETACH: fseek() empties the buffer, the number is written over the
\* zero, and the file is closed.
Detach ==
  /\ game = "runs" /\ ~inside /\ game' = "exited"
  /\ file' = [file \o buffer EXCEPT ![1] = Field("count", packetCount)] /\ buffer' = <<>>
  /\ UNCHANGED <<packetCount, written, inside, packet, logged>>

\* The same, when the thread that has stopped keeps the lock that fseek() needs.
DetachStuck ==
  /\ game = "runs" /\ inside /\ game' = "stuck"
  /\ buffer' = <<>>
  /\ UNCHANGED <<file, packetCount, written, inside, packet, logged>>

Kill ==
  /\ game = "runs" /\ game' = "killed"
  /\ buffer' = <<>>
  /\ UNCHANGED <<file, packetCount, written, inside, packet, logged>>

Next ==
  \/ Attach \/ OnPacket \/ EnterWrite \/ Flush \/ WriteField \/ CountPacket
  \/ Detach \/ DetachStuck \/ Kill

Spec == Init /\ [][Next]_vars

-----------------------------------------------------------------------------
(***************************************************************************)
(* LOLPacketViewer: LogFile::load(). What is read past the end of the file *)
(* is not set: a number of packets is any number, a packet is no packet.   *)
(***************************************************************************)

NoPacket == 0

PacketAt(i) ==
  LET first == 4 * (i - 1) + 2
  IN  IF first + 3 <= Len(file)
         /\ \A k \in 1 .. 4 : file[first + k - 1] = Field(Fields[k], file[first].of)
      THEN file[first].of ELSE NoPacket

\* What m_packets may be after load().
Load ==
  {[i \in 1 .. n |-> PacketAt(i)] :
     n \in (IF file = <<>> THEN 0 .. MaxCount - 1 ELSE {file[1].of})}

-----------------------------------------------------------------------------
(***************************************************************************)
(* Properties.                                                             *)
(***************************************************************************)

\* The viewer shows all of a log or nothing: when the game has exited, wherever its
\* thread was between two calls, the packets whose hooks had returned, all of them in
\* order and no other; before, or when the detaching was stuck or did not take place,
\* no packet, however many of them are in the file. What it shows of an empty file is
\* not determined.
AllOrNothing ==
  /\ game = "exited" => Load = {logged}
  /\ game # "exited" /\ file # <<>> => Load = {<<>>}

=============================================================================
