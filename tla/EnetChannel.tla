---------------------------- MODULE EnetChannel ----------------------------
(***************************************************************************)
(* One direction of one channel between two CONNECTED peers of ENet: the   *)
(* reliable commands, their 16-bit sequence numbers, and the windows that  *)
(* keep the two ends from mistaking an old number for a new one.           *)
(*                                                                         *)
(* Commands are numbered 1, 2, ... in the order enet_peer_send() queues    *)
(* them; on the wire a command carries its number modulo the sequence      *)
(* space. The number stands for the packet too, so that a receiver that    *)
(* takes one command for another can be told from one that does not.       *)
(*                                                                         *)
(* The space is cut into Windows windows of WindowSize numbers. The sender *)
(* enters a window if the next FreeWindows windows are free of commands it *)
(* still has to see acknowledged; the receiver accepts what is less than   *)
(* FreeWindows - 1 windows ahead and takes what is further for old.        *)
(***************************************************************************)
EXTENDS Integers, Sequences, FiniteSets, Functions

CONSTANTS
  WindowSize,    \* ENET_PEER_RELIABLE_WINDOW_SIZE, 4096
  Windows,       \* ENET_PEER_RELIABLE_WINDOWS, 16
  FreeWindows,   \* ENET_PEER_FREE_RELIABLE_WINDOWS, 8
  MaxSpan,       \* how many commands leave before an unacknowledged one
                 \* times out and takes the connection with it
  MaxLag,        \* by how many commands the network overtakes a datagram
  MaxUnacked,    \* how many commands may be in transit, in place of the
                 \* limit on their bytes
  MaxPackets     \* bound: commands sent

ASSUME WindowAssumption ==
  /\ WindowSize \in Nat \ {0}
  /\ FreeWindows \in Nat /\ FreeWindows >= 3
  /\ Windows \in Nat /\ Windows >= 2 * FreeWindows
ASSUME BoundsAssumption ==
  /\ MaxSpan \in Nat /\ MaxLag \in Nat
  /\ MaxUnacked \in Nat /\ MaxPackets \in Nat

VARIABLES
  sent,        \* outgoingReliableSequenceNumber, before it is cut to 16 bits
  unacked,     \* sentReliableCommands, and those timed out and queued again
  incoming,    \* incomingReliableSequenceNumber
  held,        \* incomingReliableCommands: arrived, but not in order
  delivered,   \* what went to dispatchedCommands
  toReceiver,  \* commands in the network
  toSender     \* acknowledgements in the network

senderVars == <<sent, unacked>>
receiverVars == <<incoming, held, delivered>>
vars == <<sent, unacked, incoming, held, delivered, toReceiver, toSender>>

SequenceSpace == WindowSize * Windows

\* The sequence number of a command, and the window of a sequence number.
SeqNo(n) == n % SequenceSpace
Window(seq) == seq \div WindowSize

TypeOK ==
  /\ sent \in Nat
  /\ unacked \subseteq 1 .. sent
  /\ incoming \in 0 .. SequenceSpace - 1
  /\ held \subseteq 1 .. sent
  /\ delivered \in Seq(1 .. sent)
  /\ toReceiver \subseteq 1 .. sent
  /\ toSender \subseteq 1 .. sent

Init ==
  /\ sent = 0
  /\ unacked = {}
  /\ incoming = 0
  /\ held = {}
  /\ delivered = <<>>
  /\ toReceiver = {}
  /\ toSender = {}

-----------------------------------------------------------------------------
(***************************************************************************)
(* The sender.                                                             *)
(***************************************************************************)

\* The commands counted by reliableWindows[w]. A window is used if there are.
InWindow(w) == {n \in unacked : Window(SeqNo(n)) = w}

\* The FreeWindows windows from w on, as the mask of the test in
\* enet_protocol_send_reliable_outgoing_commands() has them. The bits that go
\* over the end should come in again at the start, but are shifted by
\* WindowSize - w instead of Windows - w. That is undefined for a 32-bit int;
\* on the x86 targets of the project files the count is taken modulo 32, which
\* leaves no bit of them unless w is 0, when they are a copy of the others.
WindowsFrom(w) == {w + i : i \in 0 .. FreeWindows - 1} \cap 0 .. Windows - 1

\* A command that starts a window is held back, and all those behind it, while
\* the window before is full or one of the next windows is used.
MayStart(n) ==
  LET w == Window(SeqNo(n))
  IN SeqNo(n) % WindowSize = 0 =>
       /\ Cardinality(InWindow((w + Windows - 1) % Windows)) < WindowSize
       /\ \A v \in WindowsFrom(w) : InWindow(v) = {}

\* The network does not keep a datagram for so long that the sequence numbers
\* come round to it again, and enet_protocol_check_timeouts() does not keep a
\* connection on which one command stays unacknowledged for thirty seconds.
NothingLags ==
  /\ \A n \in toReceiver \cup toSender : sent + 1 - n < MaxLag
  /\ \A n \in unacked : sent + 1 - n < MaxSpan

\* The next command leaves for the first time.
SendCommand ==
  /\ sent < MaxPackets
  /\ Cardinality(unacked) < MaxUnacked
  /\ MayStart(sent + 1)
  /\ NothingLags
  /\ sent' = sent + 1
  /\ unacked' = unacked \cup {sent + 1}
  /\ toReceiver' = toReceiver \cup {sent + 1}
  /\ UNCHANGED <<toSender, receiverVars>>

\* enet_protocol_check_timeouts() puts a command back at the front of the
\* queue, from where it is sent again whatever the windows are.
Resend(n) ==
  /\ n \in unacked
  /\ toReceiver' = toReceiver \cup {n}
  /\ UNCHANGED <<toSender, senderVars, receiverVars>>

\* enet_protocol_handle_acknowledge(): the command with the number that was
\* acknowledged is dropped, and counted out of its window.
ReceiveAck(n) ==
  /\ n \in toSender
  /\ unacked' = {m \in unacked : SeqNo(m) # SeqNo(n)}
  /\ toSender' \in {toSender, toSender \ {n}}
  /\ UNCHANGED <<sent, toReceiver, receiverVars>>

-----------------------------------------------------------------------------
(***************************************************************************)
(* The receiver.                                                           *)
(***************************************************************************)

\* The window of a sequence number as seen from the number in was last
\* delivered: a smaller number is one that has come round.
WindowSeenFrom(in, seq) == Window(seq) + (IF seq < in THEN Windows ELSE 0)

\* enet_peer_queue_incoming_command() inserts the command; it drops what is too
\* far ahead or old, and what it has already.
IsNew(seq) ==
  /\ WindowSeenFrom(incoming, seq) < Window(incoming) + FreeWindows - 1
  /\ seq # incoming
  /\ \A n \in held : SeqNo(n) # seq

\* Fault: whatever comes is acknowledged.
AcknowledgesAll(in, seq) == TRUE

\* enet_peer_queue_acknowledgement(), in being what was last delivered by then.
\* Numbers just ahead of what is accepted get no answer, those further are old.
Acknowledges(in, seq) ==
  WindowSeenFrom(in, seq) \notin {Window(in) + FreeWindows - 1, Window(in) + FreeWindows}

\* Fault: the last number delivered is not cut to 16 bits.
AdvanceUncut(k) == incoming' = incoming + k

\* incomingReliableSequenceNumber moves on by k commands.
Advance(k) == incoming' = SeqNo(incoming + k)

\* Fault: gaps are not noticed.
InArrivalOrder(h) ==
  [i \in 1 .. Cardinality(h) |-> CHOOSE n \in h : Cardinality({m \in h : m <= n}) = i]

\* The commands of h from the next number on, up to the first gap: what
\* enet_peer_dispatch_incoming_reliable_commands() moves to dispatchedCommands.
InSequence(h) ==
  LET has(i) == \E n \in h : SeqNo(n) = SeqNo(incoming + i)
      k == CHOOSE j \in 0 .. Cardinality(h) : ~has(j + 1) /\ \A i \in 1 .. j : has(i)
  IN [i \in 1 .. k |-> CHOOSE n \in h : SeqNo(n) = SeqNo(incoming + i)]

Accept(n) ==
  LET out == InSequence(held \cup {n})
  IN /\ delivered' = delivered \o out
     /\ held' = (held \cup {n}) \ Range(out)
     /\ Advance(Len(out))

\* A command arrives: accepted or not, it is acknowledged as old or new.
ReceiveCommand(n) ==
  /\ n \in toReceiver
  /\ IF IsNew(SeqNo(n)) THEN Accept(n) ELSE UNCHANGED receiverVars
  /\ toSender' = IF Acknowledges(incoming', SeqNo(n)) THEN toSender \cup {n} ELSE toSender
  /\ toReceiver' \in {toReceiver, toReceiver \ {n}}
  /\ UNCHANGED senderVars

-----------------------------------------------------------------------------

\* The network loses a datagram.
Lose ==
  \/ /\ \E n \in toReceiver : toReceiver' = toReceiver \ {n}
     /\ UNCHANGED <<toSender, senderVars, receiverVars>>
  \/ /\ \E n \in toSender : toSender' = toSender \ {n}
     /\ UNCHANGED <<toReceiver, senderVars, receiverVars>>

Next ==
  \/ SendCommand
  \/ \E n \in 1 .. sent : Resend(n) \/ ReceiveCommand(n) \/ ReceiveAck(n)
  \/ Lose

Spec == Init /\ [][Next]_vars

-----------------------------------------------------------------------------
(***************************************************************************)
(* Properties.                                                             *)
(***************************************************************************)

\* Nothing is lost silently: a command the sender no longer keeps has been
\* accepted by the receiver. An acknowledgement is never given for a command
\* that was dropped, nor taken for that of another lap of the numbers.
ForgottenHasArrived ==
  \A n \in 1 .. sent : n \notin unacked => n \in held \cup Range(delivered)

\* The channel is what EnetHost takes it for: commands come out in the order sent
\* and once each, though their numbers repeat.
Contract == INSTANCE ChannelContract
              WITH sent <- sent, arrived <- held \cup Range(delivered),
                   delivered <- delivered
ImplementsChannelContract == Contract!Spec

=============================================================================
