---------------------------- MODULE EnetDelivery ----------------------------
(***************************************************************************)
(* The receiving side of one channel of ENet 1.2.5 for all the commands    *)
(* that carry data: reliable ones, fragments of packets longer than a      *)
(* datagram, unreliable and unsequenced ones. EnetChannel has the windows  *)
(* and acknowledgements of the reliable numbers; here is what becomes of   *)
(* a command that arrives: how fragments find their packet, and how the    *)
(* two queues of a channel wait for each other.                            *)
(*                                                                         *)
(* The network loses, repeats, delays and reorders: a command that was     *)
(* sent may be received at any time, any number of times, or never. The    *)
(* content of a packet is the set of commands that brought it.             *)
(*                                                                         *)
(* A connection that has been used before has its counters somewhere in    *)
(* their 16-bit range: Before is how many reliable numbers and unsequenced *)
(* groups are behind both ends at the start.                               *)
(***************************************************************************)
EXTENDS Integers, Sequences, SequencesExt, FiniteSets, FiniteSetsExt

CONSTANTS
  WindowSize,         \* ENET_PEER_RELIABLE_WINDOW_SIZE, 4096
  Windows,            \* ENET_PEER_RELIABLE_WINDOWS, 16
  FreeWindows,        \* ENET_PEER_FREE_RELIABLE_WINDOWS, 8
  GroupWindowSize,    \* ENET_PEER_UNSEQUENCED_WINDOW_SIZE, 1024
  FreeGroupWindows,   \* ENET_PEER_FREE_UNSEQUENCED_WINDOWS, 32
  UnreliableLimit,    \* 0xFFFF: an unreliable number no higher than this
  Fragments,          \* fragments of a packet that is fragmented
  Before,             \* numbers used up before the start
  Kinds,              \* kinds of packets that are sent
  MaxPackets,         \* bound: packets sent
  MaxAhead,           \* by how many reliable numbers the sender is ahead of the
                      \* last one delivered: the windows of EnetChannel hold it there
  MaxLag              \* by how many packets the network overtakes a datagram

ASSUME DeliveryAssumption ==
  /\ {WindowSize, GroupWindowSize, FreeGroupWindows, UnreliableLimit} \subseteq Nat \ {0}
  /\ FreeWindows \in Nat /\ FreeWindows >= 2
  /\ Windows \in Nat /\ Windows >= 2 * FreeWindows
  /\ Fragments \in Nat /\ Fragments >= 2
  /\ {Before, MaxPackets, MaxAhead, MaxLag} \subseteq Nat
  /\ Kinds \subseteq {"reliable", "fragmented", "unreliable", "unsequenced"}

VARIABLES
  kinds,       \* the kind of every packet sent
  outRel,      \* outgoingReliableSequenceNumber
  outUnrel,    \* outgoingUnreliableSequenceNumber
  outGroup,    \* outgoingUnsequencedGroup of the peer
  network,     \* the commands sent
  inRel,       \* incomingReliableSequenceNumber
  inUnrel,     \* incomingUnreliableSequenceNumber
  held,        \* incomingReliableCommands
  waiting,     \* incomingUnreliableCommands
  groupBase,   \* incomingUnsequencedGroup of the peer
  groupsSeen,  \* unsequencedWindow: the bits that are set
  delivered    \* contents of what went to dispatchedCommands

senderVars == <<kinds, outRel, outUnrel, outGroup, network>>
reliableVars == <<inRel, held>>
groupVars == <<groupBase, groupsSeen>>
vars == <<kinds, outRel, outUnrel, outGroup, network, inRel, inUnrel, held,
          waiting, groupBase, groupsSeen, delivered>>

Space == WindowSize * Windows
GroupSpace == 2 * FreeGroupWindows * GroupWindowSize

\* A command. rel is its reliable number, for a fragment startSequenceNumber;
\* minor the fragmentNumber, unreliable number or group; count the number of
\* fragments of its packet, 0 for what is no fragment.
Command == [kind : {"reliable", "fragment", "unreliable", "unsequenced"}, packet : 1 .. MaxPackets,
            rel : 0 .. Space - 1, minor : Nat, count : {0, Fragments}]

\* An incoming reliable command: fragmentsRemaining is count less what it got.
Incoming == [rel : 0 .. Space - 1, count : {0, Fragments}, got : SUBSET network]

TypeOK ==
  /\ kinds \in Seq(Kinds \cup {"reliable"})
  /\ outRel \in 0 .. Space - 1 /\ outUnrel \in 0 .. UnreliableLimit /\ outGroup \in 0 .. GroupSpace - 1
  /\ network \subseteq Command
  /\ inRel \in 0 .. Space - 1 /\ inUnrel \in 0 .. UnreliableLimit
  /\ held \subseteq Incoming
  /\ waiting \in Seq(network)
  /\ groupBase \in 0 .. GroupSpace - 1 /\ groupsSeen \subseteq 0 .. GroupWindowSize - 1
  /\ delivered \in Seq(SUBSET network)

\* What the two ends of a channel have after Before reliable commands, and of a
\* peer after as many unsequenced ones, all of them delivered.
Init ==
  /\ kinds = <<>>
  /\ outRel = Before % Space /\ inRel = Before % Space
  /\ outUnrel = 0 /\ inUnrel = 0
  /\ outGroup = Before % GroupSpace
  /\ groupBase = outGroup - (outGroup % GroupWindowSize)
  /\ groupsSeen = {n % GroupWindowSize : n \in Max({1, Before - (Before % GroupWindowSize)}) .. Before}
  /\ network = {}
  /\ held = {} /\ waiting = <<>> /\ delivered = <<>>

-----------------------------------------------------------------------------
(***************************************************************************)
(* The sender numbers its packets.                                         *)
(***************************************************************************)

\* The packet being queued.
This == Len(kinds) + 1

Put(commands) == network' = network \cup commands

\* enet_peer_setup_outgoing_command() with commands to be acknowledged, which leave
\* when their windows are free.
QueueReliable(n) ==
  /\ ((outRel - inRel) % Space) + n <= MaxAhead
  /\ outRel' = (outRel + n) % Space
  /\ outUnrel' = 0
  /\ UNCHANGED outGroup

SendReliable ==
  /\ QueueReliable(1)
  /\ Put({[kind |-> "reliable", packet |-> This, rel |-> outRel', minor |-> 0, count |-> 0]})

\* A packet that does not fit one datagram goes in fragments, reliable whatever
\* its flags are.
SendFragments ==
  /\ QueueReliable(Fragments)
  /\ Put({[kind |-> "fragment", packet |-> This, rel |-> (outRel + 1) % Space, minor |-> i,
           count |-> Fragments] : i \in 0 .. Fragments - 1})

SendUnreliable ==
  /\ outUnrel' = outUnrel + 1
  /\ Put({[kind |-> "unreliable", packet |-> This, rel |-> outRel, minor |-> outUnrel', count |-> 0]})
  /\ UNCHANGED <<outRel, outGroup>>

SendUnsequenced ==
  /\ outGroup' = (outGroup + 1) % GroupSpace
  /\ Put({[kind |-> "unsequenced", packet |-> This, rel |-> 0, minor |-> outGroup', count |-> 0]})
  /\ UNCHANGED <<outRel, outUnrel>>

\* enet_peer_send(). When the unreliable numbers of a reliable one are used up,
\* a reliable command starts them again.
Send(kind) ==
  LET becomes == IF kind = "unreliable" /\ outUnrel >= UnreliableLimit THEN "reliable" ELSE kind
  IN /\ Len(kinds) < MaxPackets
     /\ kinds' = Append(kinds, becomes)
     /\ CASE becomes = "reliable"    -> SendReliable
          [] becomes = "fragmented"  -> SendFragments
          [] becomes = "unreliable"  -> SendUnreliable
          [] becomes = "unsequenced" -> SendUnsequenced
     /\ UNCHANGED <<inUnrel, waiting, delivered, reliableVars, groupVars>>

-----------------------------------------------------------------------------
(***************************************************************************)
(* The receiver.                                                           *)
(***************************************************************************)

Window(seq) == seq \div WindowSize

\* Is a reliable number neither old nor too far ahead? A number smaller than
\* the last one delivered has come round, or is old.
InWindow(seq) ==
  Window(seq) + (IF seq < inRel THEN Windows ELSE 0) < Window(inRel) + FreeWindows - 1

\* Fault: fragments that are missing do not hold a packet up.
CompleteAlways(h) == TRUE

\* fragmentsRemaining <= 0.
Complete(h) == h.count = Cardinality(h.got) \/ h.count = 0

\* Fault: the number is not cut to 16 bits.
LastNumberUncut(in, h) == in + Max({h.count, 1})

\* The last number of the incoming command h that follows number in.
LastNumber(in, h) == (in + Max({h.count, 1})) % Space

\* What of queue comes after number in and is complete.
InTurn(in, queue) == {h \in queue : h.rel = (in + 1) % Space /\ Complete(h)}

TakeInTurn(r, queue) ==
  IF InTurn(r.last, queue) = {} THEN r
  ELSE LET h == CHOOSE g \in InTurn(r.last, queue) : TRUE
       IN  [last |-> LastNumber(r.last, h), taken |-> Append(r.taken, h)]

\* The commands of queue that follow number in without a gap and are complete.
\* At most Cardinality(queue) steps lead there.
InSequence(in, queue) ==
  LET reach[k \in 0 .. Cardinality(queue)] ==
        IF k = 0 THEN [last |-> in, taken |-> <<>>] ELSE TakeInTurn(reach[k - 1], queue)
  IN  reach[Cardinality(queue)]

\* What of the unreliable queue is due when in was the last reliable number:
\* everything up to the first unreliable command of another reliable number.
DueLength(in, queue) ==
  LET other == {i \in DOMAIN queue : queue[i].kind = "unreliable" /\ queue[i].rel # in}
  IN IF other = {} THEN Len(queue) ELSE Min(other) - 1

\* The number of the last unreliable command among the first k, or else last.
LastUnreliable(queue, k, last) ==
  LET numbered == {i \in 1 .. k : queue[i].kind = "unreliable"}
  IN IF numbered = {} THEN last ELSE queue[Max(numbered)].minor

\* enet_peer_dispatch_incoming_unreliable_commands() with queue in place of
\* what waits now, after the commands of before have been dispatched.
DispatchUnreliable(queue, before, in, last) ==
  LET k == DueLength(in, queue)
  IN /\ delivered' = delivered \o before \o [i \in 1 .. k |-> {queue[i]}]
     /\ waiting' = SubSeq(queue, k + 1, Len(queue))
     /\ inUnrel' = LastUnreliable(queue, k, last)

\* Fault: the unreliable commands that waited are left waiting.
DispatchReliableOnly(queue) ==
  LET r == InSequence(inRel, queue)
  IN /\ held' = queue \ Range(r.taken)
     /\ inRel' = r.last
     /\ delivered' = delivered \o [i \in DOMAIN r.taken |-> r.taken[i].got]
     /\ UNCHANGED <<waiting, inUnrel>>

\* enet_peer_dispatch_incoming_reliable_commands() with queue in place of what
\* is held now. If nothing can go, the unreliable queue is not looked at.
DispatchReliable(queue) ==
  \E r \in {InSequence(inRel, queue)} :
    /\ held' = queue \ Range(r.taken)
    /\ inRel' = r.last
    /\ IF r.taken = <<>>
         THEN UNCHANGED <<delivered, waiting, inUnrel>>
         ELSE DispatchUnreliable(waiting, [i \in DOMAIN r.taken |-> r.taken[i].got], r.last, 0)

\* enet_protocol_handle_send_reliable().
ReceiveReliable(c) ==
  /\ c.kind = "reliable"
  /\ InWindow(c.rel) /\ c.rel # inRel /\ \A h \in held : h.rel # c.rel
  /\ DispatchReliable(held \cup {[rel |-> c.rel, count |-> 0, got |-> {c}]})
  /\ UNCHANGED <<senderVars, groupVars>>

\* Fault: a packet is started again by its first fragment.
StartAtFirst(c) ==
  IF c.minor # 0 /\ \E h \in held : h.rel = c.rel
    THEN CHOOSE h \in held : h.rel = c.rel
    ELSE [rel |-> c.rel, count |-> c.count, got |-> {}]

\* The packet a fragment belongs to, to be created if it is the first to come.
Start(c) ==
  IF \E h \in held : h.rel = c.rel
    THEN CHOOSE h \in held : h.rel = c.rel
    ELSE [rel |-> c.rel, count |-> c.count, got |-> {}]

\* enet_protocol_handle_send_fragment(). A fragment that is there already, or
\* whose packet was delivered, is dropped.
ReceiveFragment(c) ==
  LET start == Start(c)
      more == [start EXCEPT !.got = @ \cup {c}]
  IN /\ c.kind = "fragment"
     /\ InWindow(c.rel) /\ c.rel # inRel
     /\ c \notin start.got
     /\ DispatchReliable((held \ {h \in held : h.rel = c.rel}) \cup {more})
     /\ UNCHANGED <<senderVars, groupVars>>

\* An unreliable command that comes after a later one of the same reliable
\* number was dispatched.
IsLate(c) == c.rel = inRel /\ c.minor <= inUnrel

\* Does e stay in front of c in the unreliable queue? The numbers below inRel
\* have come round and follow those above.
StaysBefore(e, c) ==
  /\ e.kind = "unreliable"
  /\ \/ e.rel >= inRel /\ c.rel < inRel
     \/ /\ c.rel < inRel \/ e.rel >= inRel
        /\ e.rel < c.rel \/ (e.rel = c.rel /\ e.minor < c.minor)

InsertAfter(k, c) == SubSeq(waiting, 1, k) \o <<c>> \o SubSeq(waiting, k + 1, Len(waiting))

\* The place behind which an unreliable command is inserted.
Place(c) == Max({0} \cup {i \in DOMAIN waiting : StaysBefore(waiting[i], c)})

\* enet_protocol_handle_send_unreliable().
ReceiveUnreliable(c) ==
  /\ c.kind = "unreliable"
  /\ InWindow(c.rel) /\ ~IsLate(c) /\ c \notin Range(waiting)
  /\ DispatchUnreliable(InsertAfter(Place(c), c), <<>>, inRel, inUnrel)
  /\ UNCHANGED <<senderVars, reliableVars, groupVars>>

Index(g) == g % GroupWindowSize

\* Is a group at or after the current window, and not more than the free
\* windows after it?
GroupInWindow(g) ==
  g + (IF g < groupBase THEN GroupSpace ELSE 0) < groupBase + FreeGroupWindows * GroupWindowSize

\* The bits that are set when g is looked at: none in a window just entered.
Bits(g) == IF g - Index(g) # groupBase THEN {} ELSE groupsSeen

\* enet_protocol_handle_send_unsequenced(). The command goes to the front of
\* the unreliable queue, and so is always dispatched at once.
ReceiveUnsequenced(c) ==
  LET g == c.minor
  IN /\ c.kind = "unsequenced"
     /\ GroupInWindow(g) /\ Index(g) \notin Bits(g)
     /\ groupBase' = g - Index(g)
     /\ groupsSeen' = Bits(g) \cup {Index(g)}
     /\ DispatchUnreliable(InsertAfter(0, c), <<>>, inRel, inUnrel)
     /\ UNCHANGED <<senderVars, reliableVars>>

\* A command that none of the four accepts is dropped without a trace.
Receive(c) ==
  /\ Len(kinds) - c.packet < MaxLag
  /\ ReceiveReliable(c) \/ ReceiveFragment(c) \/ ReceiveUnreliable(c) \/ ReceiveUnsequenced(c)

Next ==
  \/ \E k \in Kinds : Send(k)
  \/ \E c \in network : Receive(c)

Spec == Init /\ [][Next]_vars

-----------------------------------------------------------------------------
(***************************************************************************)
(* Properties.                                                             *)
(***************************************************************************)

Commands(p) == {c \in network : c.packet = p}

\* The packet a content is the whole of, 0 if it is none.
PacketOf(content) ==
  IF \E p \in DOMAIN kinds : content = Commands(p)
    THEN CHOOSE p \in DOMAIN kinds : content = Commands(p) ELSE 0

Output == [i \in DOMAIN delivered |-> PacketOf(delivered[i])]

\* What is handed over is a whole packet and no mixture of two, in whatever
\* order its fragments came, and however often.
OnlyWholePackets == 0 \notin Range(Output)

\* What is held for later has not been delivered, and has not yet a place at
\* the front: nothing complete and next in turn is kept back.
NothingHeldBack ==
  /\ InSequence(inRel, held).taken = <<>>
  /\ DueLength(inRel, waiting) = 0

ArrivedReliably ==
  {p \in DOMAIN kinds : kinds[p] \in {"reliable", "fragmented"} /\
     \E content \in Range(delivered) \cup {h.got : h \in held} : content = Commands(p)}

\* Reliable packets without a gap, unreliable ones in between, no packet twice.
Contract == INSTANCE DeliveryContract WITH arrived <- ArrivedReliably, delivered <- Output
ImplementsDeliveryContract == Contract!Spec

(***************************************************************************)
(* Liveness: a reliable command is sent again until it is acknowledged, so *)
(* a copy of it is received in the end.                                    *)
(***************************************************************************)
IsReliable(c) == c.kind \in {"reliable", "fragment"}

Fairness ==
  /\ WF_vars(\E k \in Kinds : Send(k))
  /\ \A p \in 1 .. MaxPackets, i \in 0 .. Fragments - 1 :
       WF_vars(\E c \in network : IsReliable(c) /\ c.packet = p /\ c.minor = i /\ Receive(c))

FairSpec == Spec /\ Fairness

\* Every reliable packet is handed over, whatever becomes of the others.
ReliableGetThrough ==
  <>[](/\ Len(kinds) = MaxPackets
       /\ \A p \in DOMAIN kinds : kinds[p] \in {"reliable", "fragmented"} => p \in Range(Output))

=============================================================================
