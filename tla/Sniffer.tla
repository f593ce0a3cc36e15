------------------------------ MODULE Sniffer ------------------------------
(***************************************************************************)
(* What the code that IntPe9 injects into the game makes of its datagrams. *)
(* It stands between the game's ENet and the socket, sees the datagrams as *)
(* the network delivers them, before ENet has put them in order, and is to *)
(* pass every message on (sendPacket(), PacketQueue), decrypted.           *)
(*                                                                         *)
(* A datagram holds commands of ENet: first acknowledgements, then those   *)
(* with a message, or with a fragment of a large one. A lost command is    *)
(* sent again in another datagram.                                         *)
(***************************************************************************)
EXTENDS Integers, Sequences, SequencesExt

CONSTANTS
  Count,       \* fragments of each message of the server; 1 if it is in one piece
  Start,       \* its start sequence number; channels have the same ones
  MaxCommands, \* bound: commands with a message, or acknowledgements, in a datagram
  MaxSent,     \* bound: messages of the game
  MaxShown,    \* bound: messages passed on until nothing is sent again
  MaxUnderway, \* bound: datagrams on their way, with one that is sent again
  Misleading   \* messages of the game that begin like a command with a message

Messages == DOMAIN Count

ASSUME SnifferAssumption ==
  /\ Count \in Seq(Nat \ {0}) /\ DOMAIN Start = Messages
  /\ {MaxCommands, MaxSent, MaxShown, MaxUnderway} \subseteq Nat /\ Misleading \subseteq 1 .. MaxSent

VARIABLES
  next,        \* the next command of the server: message and fragment
  net,         \* datagrams on their way to the game
  reassemble,  \* by start sequence number: what is written in the buffer
  crashed,     \* something was written where there is no buffer
  received,    \* messages passed on by newWSARecvFrom()
  count,       \* messages that the game has sent
  doFirst,     \* the next message of the game is not encrypted
  sent,        \* messages passed on by newWSASendTo()
  orderly,     \* all datagrams to the game held messages only, and were delivered
               \* once and in order
  plain        \* no message of the game was sent behind an odd number of
               \* acknowledgements

receiveVars == <<reassemble, crashed, received>>
sendVars == <<count, doFirst, sent, plain>>
vars == <<next, net, receiveVars, orderly, sendVars>>

None == [length |-> 0, parts |-> {}, decrypted |-> 0]
Command(m, n) == [msg |-> m, number |-> n]
Ack == Command(0, 0)

Init ==
  /\ next = Command(1, 0) /\ net = <<>>
  /\ reassemble = [s \in {Start[m] : m \in Messages} |-> None]
  /\ crashed = FALSE /\ received = <<>>
  /\ count = 0 /\ doFirst = TRUE /\ sent = <<>>
  /\ orderly = TRUE /\ plain = TRUE

-----------------------------------------------------------------------------
(***************************************************************************)
(* The server's ENet, and the network.                                     *)
(***************************************************************************)

Following(c) ==
  IF c.msg \in Messages /\ c.number + 1 < Count[c.msg] THEN Command(c.msg, c.number + 1)
                                                      ELSE Command(c.msg + 1, 0)

\* The command that comes n commands after c.
Later(c, n) ==
  LET later[i \in 0 .. n] == IF i = 0 THEN c ELSE Following(later[i - 1]) IN later[n]

\* One or more commands, after an acknowledgement or not.
ServerSends ==
  /\ \E acks \in {<<>>, <<Ack>>}, n \in 1 .. MaxCommands :
       /\ \A i \in 0 .. n - 1 : Later(next, i).msg \in Messages
       /\ net' = Append(net, acks \o [i \in 1 .. n |-> Later(next, i - 1)])
       /\ next' = Later(next, n)
       /\ orderly' = (orderly /\ acks = <<>>)
  /\ UNCHANGED <<receiveVars, sendVars>>

Lose ==
  /\ \E i \in DOMAIN net : net' = RemoveAt(net, i)
  /\ orderly' = FALSE
  /\ UNCHANGED <<next, receiveVars, sendVars>>

\* The commands of a datagram that seems lost.
Resend ==
  /\ Len(net) < MaxUnderway /\ Len(received) < MaxShown
  /\ \E m \in Messages : \E n \in 0 .. Count[m] - 1 :
       /\ (m < next.msg \/ (m = next.msg /\ n < next.number))
       /\ net' = Append(net, <<Command(m, n)>>)
  /\ orderly' = FALSE
  /\ UNCHANGED <<next, receiveVars, sendVars>>

-----------------------------------------------------------------------------
(***************************************************************************)
(* newWSARecvFrom(): the commands of a datagram one after the other, up to *)
(* the first that has no message.                                          *)
(***************************************************************************)

Show(state, buffer) == [state EXCEPT !.shown = Append(@, buffer)]

Alone(c) == [length |-> 1, parts |-> {c}, decrypted |-> 0]

\* The fragment goes into the buffer s; fragment 0 brings a new one, and the last
\* one ends it. Without a buffer it is written through a null pointer, and beyond
\* the end if the buffer is for a shorter message. A buffer that has been passed on
\* stays, decrypted in place.
WriteFragment(state, c, s, last) ==
  LET buffer == IF c.number = 0 THEN [length |-> Count[c.msg], parts |-> {}, decrypted |-> 0]
                ELSE state.buffers[s]
      written == [buffer EXCEPT !.parts = @ \cup {c}]
      stored == [state EXCEPT
                   !.buffers[s] = IF last THEN [written EXCEPT !.decrypted = @ + 1] ELSE written]
  IN  IF c.number >= buffer.length THEN [state EXCEPT !.crashed = TRUE]
      ELSE IF last THEN Show(stored, written) ELSE stored

\* Fault: the last fragment is told by its count.
ReassembleShort(state, c) == WriteFragment(state, c, Start[c.msg], c.number + 2 >= Count[c.msg])

\* Fault: one buffer serves for all messages.
ReassembleOne(state, c) == WriteFragment(state, c, Start[1], c.number = Count[c.msg] - 1)

\* reassemblePacket().
Reassemble(state, c) == WriteFragment(state, c, Start[c.msg], c.number = Count[c.msg] - 1)

ParseCommand(state, c) ==
  LET over == state.stopped \/ state.crashed
  IN  CASE over -> state
        [] ~over /\ c = Ack -> [state EXCEPT !.stopped = TRUE]
        [] ~over /\ c # Ack /\ Count[c.msg] = 1 -> Show(state, Alone(c))
        [] OTHER -> Reassemble(state, c)

\* What the commands of a datagram do, from a state on.
Parse(state, datagram) ==
  LET after[i \in 0 .. Len(datagram)] ==
        IF i = 0 THEN state ELSE ParseCommand(after[i - 1], datagram[i])
  IN  after[Len(datagram)]

NewWSARecvFrom ==
  /\ ~crashed
  /\ \E i \in DOMAIN net :
       LET end == Parse([buffers |-> reassemble, shown |-> received,
                         crashed |-> FALSE, stopped |-> FALSE], net[i])
       IN  /\ reassemble' = end.buffers /\ received' = end.shown /\ crashed' = end.crashed
           /\ net' = RemoveAt(net, i) /\ orderly' = (orderly /\ i = 1)
  /\ UNCHANGED <<next, sendVars>>

-----------------------------------------------------------------------------
(***************************************************************************)
(* newWSASendTo(): the buffers that the game's ENet sends as a datagram.   *)
(***************************************************************************)

Header == [what |-> "header", msg |-> 0]
Buffers(acks, msgs) ==
  <<Header>> \o [i \in 1 .. acks |-> [what |-> "ack", msg |-> 0]]
             \o [i \in 1 .. 2 * Len(msgs) |->
                   [what |-> IF i % 2 = 1 THEN "command" ELSE "data", msg |-> msgs[(i + 1) \div 2]]]

\* Every second buffer is taken for a command.
LooksLikeMessage(b) == b.what = "command" \/ (b.what = "data" /\ b.msg \in Misleading)

\* The buffers behind them that are passed on as messages.
Taken(buffers) ==
  LET pairs == (Len(buffers) - 1) \div 2
      taken[k \in 0 .. pairs] ==
        IF k = 0 THEN <<>>
        ELSE IF LooksLikeMessage(buffers[2 * k]) THEN Append(taken[k - 1], buffers[2 * k + 1])
        ELSE taken[k - 1]
  IN  taken[pairs]

\* Fault: everything is decrypted.
DecryptedAll(taken, first) ==
  [k \in DOMAIN taken |-> [what |-> taken[k].what, msg |-> taken[k].msg, decrypted |-> TRUE]]

\* All but the first message ever are decrypted.
Decrypted(taken, first) ==
  [k \in DOMAIN taken |->
     [what |-> taken[k].what, msg |-> taken[k].msg, decrypted |-> ~(first /\ k = 1)]]

\* The game sends messages and acknowledges commands in one datagram, or does only
\* one of both.
NewWSASendTo ==
  \E n \in 0 .. MaxCommands, acks \in 0 .. MaxCommands :
    /\ n + acks > 0 /\ count + n <= MaxSent
    /\ LET taken == Taken(Buffers(acks, [i \in 1 .. n |-> count + i]))
       IN  /\ sent' = sent \o Decrypted(taken, doFirst)
           /\ doFirst' = (doFirst /\ taken = <<>>)
    /\ count' = count + n /\ plain' = (plain /\ (n = 0 \/ acks % 2 = 0))
    /\ UNCHANGED <<next, net, receiveVars, orderly>>

Next == ServerSends \/ Lose \/ Resend \/ NewWSARecvFrom \/ NewWSASendTo

Spec == Init /\ [][Next]_vars

-----------------------------------------------------------------------------
(***************************************************************************)
(* Properties.                                                             *)
(***************************************************************************)

Pieces(m) == {Command(m, n) : n \in 0 .. Count[m] - 1}

\* As long as the network delivers every datagram once and in order, and datagrams
\* hold messages only, each message of the server is passed on, whole, undisturbed by
\* others and in order, as soon as its last command has arrived. What comes behind an
\* acknowledgement in the same datagram is not.
ReceivedWhole ==
  orderly =>
    /\ ~crashed
    /\ \A i \in DOMAIN received :
         received[i].parts = Pieces(i) /\ received[i].decrypted = 0
    /\ net = <<>> => Len(received) = next.msg - 1

\* "lpBuffer[1,3,5...] = ENetProtocol, lpBuffer[2,4,6...] = Packet data": every message
\* of the game is in such a pair of buffers, and passed on, the first one as it is and
\* the others decrypted.
InPairs == sent = [i \in 1 .. count |-> [what |-> "data", msg |-> i, decrypted |-> i # 1]]

\* The messages of the game are passed on right exactly as long as none has an odd number
\* of acknowledgements in front of it. These are buffers without data, and shift the
\* others by one; what is then missing, or is a command in place of a message, is never
\* made good.
SentRight == plain <=> InPairs

\* Whatever the network does, what is passed on begins with the first piece of a message
\* and ends with the last piece of one, and all its pieces are of messages with the same
\* start sequence number: of one message, unless another channel uses the number too, or
\* it has come round. Pieces between these may be missing.
NotMixed ==
  \A i \in DOMAIN received : \E first, m \in Messages :
    /\ {Command(first, 0), Command(m, Count[m] - 1)} \subseteq received[i].parts
    /\ \A c \in received[i].parts : Start[c.msg] = Start[m]

=============================================================================
