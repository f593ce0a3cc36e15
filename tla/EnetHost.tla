------------------------------ MODULE EnetHost ------------------------------
(***************************************************************************)
(* The two ends of ENet 1.2.5 as the game server uses it: the peer table   *)
(* of the server's ENetHost, driven by enet_host_service(), and the client *)
(* end of every session that tries to use the server.                      *)
(*                                                                         *)
(* A session is one run of enet_host_connect() on a client: an address and *)
(* the session ID drawn for it, taken to be different for every session.   *)
(* The network loses, delays, reorders and repeats datagrams: a datagram   *)
(* that was sent stays in toServer or toClient and may be received any     *)
(* number of times, or never.                                              *)
(*                                                                         *)
(* The code that calls enet_host_service() is a module of its own; here it *)
(* is whoever acts when svc = "event".                                     *)
(***************************************************************************)
EXTENDS Integers, Sequences, SequencesExt

CONSTANTS
  PeerCount,        \* slots of the peer table (32 in gamed)
  Sessions,         \* the connections clients will attempt
  MaxData,          \* bound: reliable packets a session sends on one channel
  EarlyDisconnect   \* may a DISCONNECT reach a slot whose handshake is open?

ASSUME PeerCountAssumption == PeerCount \in Nat \ {0}
ASSUME MaxDataAssumption == MaxData \in Nat
ASSUME EarlyDisconnectAssumption == EarlyDisconnect \in BOOLEAN

VARIABLES
  peers,          \* the server's peer table
  dispatchQueue,  \* slots whose needsDispatch flag is set, in queue order
  event,          \* the ENetEvent of the running enet_host_service() call
  svc,            \* how far that call has come
  cursor,         \* the next slot of a pass of send_outgoing_commands()
  clients,        \* the client end of each session
  toServer,       \* datagrams sent by clients
  toClient        \* commands sent by the server

hostVars == <<peers, dispatchQueue, event, svc, cursor>>
netVars == <<clients, toServer, toClient>>
enetVars == <<peers, dispatchQueue, event, svc, cursor, clients, toServer, toClient>>

Slots == 1 .. PeerCount
Data == 1 .. MaxData

\* No session, no peer, no reliable command.
NoSession == "none"
NoPeer == 0
NoData == 0

ASSUME SessionsAssumption == NoSession \notin Sessions

-----------------------------------------------------------------------------
(***************************************************************************)
(* Data structures.                                                        *)
(***************************************************************************)

\* The states of ENetPeerState that a slot of the server can be in; the
\* others belong to the connecting side, to enet_peer_disconnect() (which
\* gamed never calls) or to a service call without an event argument.
PeerState == {"DISCONNECTED", "ACKNOWLEDGING_CONNECT", "CONNECTED",
              "ACKNOWLEDGING_DISCONNECT", "ZOMBIE"}

\* verify is the VERIFY_CONNECT command: waiting in outgoingReliableCommands
\* with no send attempt, in flight (or timed out and to be sent again), or
\* not there.  ackDisconnect: an acknowledgement of a DISCONNECT is queued;
\* the other acknowledgements change no peer's state and are left out.
\* arrived are the reliable commands accepted on the channel, in order or
\* not, and received how many of them were handed out as events.
Peer == [state : PeerState, session : Sessions \cup {NoSession},
         verify : {"none", "queued", "sent"}, ackDisconnect : BOOLEAN,
         arrived : SUBSET Data, received : Nat]

Event == [type : {"NONE", "CONNECT", "RECEIVE", "DISCONNECT"},
          peer : Slots \cup {NoPeer}]

\* Where enet_host_service() is: it dispatches, then sends, receives, sends and
\* dispatches again until there is an event or nothing to wait for. "event" is
\* the return to the caller with an event to handle, "aborted" the end of a
\* process whose heap is corrupt.
ServicePoint == {"dispatch", "send1", "receive", "send2", "event", "aborted"}

\* IDLE is a session that has not begun, CLOSED one whose ENetPeer was reset.
Client == [state : {"IDLE", "CONNECTING", "CONNECTED", "DISCONNECTING", "CLOSED"},
           peer : Slots \cup {NoPeer}, ackVerify : BOOLEAN]

\* Datagrams with the commands that can travel together: a CONNECT goes
\* alone, a DISCONNECT too (enet_peer_disconnect() empties every queue first),
\* the acknowledgement of VERIFY_CONNECT goes ahead of reliable data. Several
\* reliable commands in one datagram are handled like so many datagrams, so
\* one is enough (NoData: none).
ConnectMsg == [type : {"CONNECT"}, session : Sessions]
DataMsg == [type : {"DATA"}, session : Sessions, peer : Slots,
            ack : BOOLEAN, data : Data \cup {NoData}]
DisconnectMsg == [type : {"DISCONNECT"}, session : Sessions, peer : Slots,
                  reliable : BOOLEAN]
ToServer == ConnectMsg \cup DataMsg \cup DisconnectMsg

VerifyMsg == [type : {"VERIFY_CONNECT"}, session : Sessions, peer : Slots]
AckMsg == [type : {"ACK_DISCONNECT"}, session : Sessions]
ToClient == VerifyMsg \cup AckMsg

NoEvent == [type |-> "NONE", peer |-> NoPeer]
EventOf(type, s) == [type |-> type, peer |-> s]

-----------------------------------------------------------------------------
(***************************************************************************)
(* Operations on one peer.                                                 *)
(***************************************************************************)

\* enet_peer_reset_queues(): every command and acknowledgement is dropped.
ResetQueues(p) ==
  [p EXCEPT !.verify = "none", !.ackDisconnect = FALSE,
            !.arrived = {}, !.received = 0]

\* enet_peer_reset().
ResetPeer(p) ==
  [ResetQueues(p) EXCEPT !.state = "DISCONNECTED", !.session = NoSession]

\* The commands of the channel that are in order, up to the first gap: those
\* enet_peer_dispatch_incoming_reliable_commands() has moved to
\* dispatchedCommands, the events already taken included.
InOrder(arrived) == {n \in arrived : 1 .. n \subseteq arrived}

\* dispatchedCommands is not empty.
HasDispatched(p) == p.received + 1 \in InOrder(p.arrived)

\* enet_peer_receive(): the first dispatched command is handed out.
TakePacket(p) == [p EXCEPT !.received = @ + 1]

\* Fault: the acknowledgement leaves, the connection stays.
SendAndStay(p) ==
  [p EXCEPT !.ackDisconnect = FALSE, !.verify = IF @ = "none" THEN @ ELSE "sent"]

\* What a pass of enet_protocol_send_outgoing_commands() does to a peer: queued
\* acknowledgements leave, and that of a DISCONNECT turns the peer into a
\* ZOMBIE, whatever state it is in. VERIFY_CONNECT leaves in the same datagram,
\* for the first time or again after its round trip timeout.
SendQueued(p) ==
  [p EXCEPT !.state = IF p.ackDisconnect THEN "ZOMBIE" ELSE @,
            !.ackDisconnect = FALSE,
            !.verify = IF @ = "none" THEN @ ELSE "sent"]

\* Fault: the flag is set, the peer is not linked.
EnqueueNothing(q, s) == q

\* Set needsDispatch and append to the dispatch queue, unless it is set.
Enqueue(q, s) == IF Contains(q, s) THEN q ELSE Append(q, s)

\* Fault: the peer stays linked.
UnlinkNothing(q, s) == q

\* Unlink a peer from the dispatch queue and clear needsDispatch.
Unlink(q, s) ==
  IF Contains(q, s) THEN RemoveAt(q, CHOOSE i \in 1 .. Len(q) : q[i] = s) ELSE q

-----------------------------------------------------------------------------
(***************************************************************************)
(* The service call of the server.                                         *)
(***************************************************************************)

EnetInit ==
  /\ peers = [s \in Slots |->
                [state |-> "DISCONNECTED", session |-> NoSession, verify |-> "none",
                 ackDisconnect |-> FALSE, arrived |-> {}, received |-> 0]]
  /\ dispatchQueue = <<>>
  /\ event = NoEvent
  /\ svc = "dispatch"
  /\ cursor = 1
  /\ clients = [x \in Sessions |->
                  [state |-> "IDLE", peer |-> NoPeer, ackVerify |-> FALSE]]
  /\ toServer = {}
  /\ toClient = {}

\* The call returns 1 with an event of the given type.
ReturnEvent(type, s) ==
  /\ event' = EventOf(type, s)
  /\ svc' = "event"

\* enet_protocol_dispatch_incoming_commands(), the peer at the head is a
\* ZOMBIE: its connection is reported as gone and the slot becomes free.
DispatchZombie ==
  /\ svc = "dispatch"
  /\ dispatchQueue # <<>>
  /\ peers[Head(dispatchQueue)].state = "ZOMBIE"
  /\ peers' = [peers EXCEPT ![Head(dispatchQueue)] = ResetPeer(@)]
  /\ dispatchQueue' = Tail(dispatchQueue)
  /\ ReturnEvent("DISCONNECT", Head(dispatchQueue))
  /\ UNCHANGED <<cursor, netVars>>

\* A peer whose packet was taken goes to the back of the queue if it has more.
QueueIfMore(q, p, s) == IF HasDispatched(p) THEN Append(q, s) ELSE q

\* The peer at the head has packets in order: the first is handed out. (A head
\* with nothing to report would be unlinked; DispatchQueueSound says there is
\* none.)
DispatchReceive ==
  /\ svc = "dispatch"
  /\ dispatchQueue # <<>>
  /\ LET s == Head(dispatchQueue)
         p == TakePacket(peers[s])
     IN /\ peers[s].state = "CONNECTED"
        /\ HasDispatched(peers[s])
        /\ peers' = [peers EXCEPT ![s] = p]
        /\ dispatchQueue' = QueueIfMore(Tail(dispatchQueue), p, s)
        /\ ReturnEvent("RECEIVE", s)
  /\ UNCHANGED <<cursor, netVars>>

\* The queue is empty. A call that ends here without an event is followed by
\* one whose first dispatch finds nothing either, so both go on to send.
DispatchNone ==
  /\ svc = "dispatch"
  /\ dispatchQueue = <<>>
  /\ svc' = "send1"
  /\ cursor' = 1
  /\ UNCHANGED <<peers, dispatchQueue, event, netVars>>

\* enet_protocol_send_outgoing_commands() passes over these slots.
Idle(s) == peers[s].state \in {"DISCONNECTED", "ZOMBIE"}

\* A pass of enet_protocol_send_outgoing_commands() comes to slot s.
AtSlot(s) ==
  /\ svc \in {"send1", "send2"}
  /\ cursor <= s /\ ~Idle(s)
  /\ \A t \in cursor .. s - 1 : Idle(t)

\* The peer's queued commands leave, and the pass goes on with the next slot.
SendToPeer(s) ==
  /\ AtSlot(s)
  /\ LET p == peers[s]
         acks == IF p.ackDisconnect
                 THEN {[type |-> "ACK_DISCONNECT", session |-> p.session]} ELSE {}
         verifies == IF p.verify # "none"
                     THEN {[type |-> "VERIFY_CONNECT", session |-> p.session, peer |-> s]}
                     ELSE {}
     IN /\ peers' = [peers EXCEPT ![s] = SendQueued(@)]
        /\ dispatchQueue' = IF p.ackDisconnect THEN Enqueue(dispatchQueue, s)
                                               ELSE dispatchQueue
        /\ toClient' = toClient \cup acks \cup verifies
  /\ cursor' = s + 1
  /\ UNCHANGED <<event, svc, clients, toServer>>

\* Fault: a handshake waits for ever.
ConnectedUnanswered(s) == peers[s].state = "CONNECTED"

\* enet_protocol_check_timeouts(): a reliable command has been sent and can go
\* unanswered for too long. In CONNECTED there is always one, a ping if nothing
\* else.
Unanswered(s) ==
  \/ peers[s].state = "ACKNOWLEDGING_CONNECT" /\ peers[s].verify = "sent"
  \/ peers[s].state = "CONNECTED"

\* Faults: the end of every connection is reported, or of none.
NotifyAlways(s) == ReturnEvent("DISCONNECT", s)
NotifyNever(s) == svc' = "dispatch" /\ UNCHANGED event

\* enet_protocol_notify_disconnect() is silent about a peer that never got
\* past the handshake. Either way the service call returns at once.
NotifyDisconnect(s) ==
  IF peers[s].state = "CONNECTED"
  THEN ReturnEvent("DISCONNECT", s)
  ELSE svc' = "dispatch" /\ UNCHANGED event

\* The peer is given up.
TimeoutPeer(s) ==
  /\ AtSlot(s)
  /\ Unanswered(s)
  /\ NotifyDisconnect(s)
  /\ peers' = [peers EXCEPT ![s] = ResetPeer(@)]
  /\ dispatchQueue' = Unlink(dispatchQueue, s)
  /\ cursor' = 1
  /\ UNCHANGED netVars

\* The pass is over.
SendDone ==
  /\ svc \in {"send1", "send2"}
  /\ \A t \in cursor .. PeerCount : Idle(t)
  /\ svc' = IF svc = "send1" THEN "receive" ELSE "dispatch"
  /\ cursor' = 1
  /\ UNCHANGED <<peers, dispatchQueue, event, netVars>>

-----------------------------------------------------------------------------
(***************************************************************************)
(* enet_protocol_receive_incoming_commands(): datagrams are handled until  *)
(* one of them makes an event or the socket has no more.                   *)
(***************************************************************************)

FreeSlots == {s \in Slots : peers[s].state = "DISCONNECTED"}
FirstFreeSlot == CHOOSE s \in FreeSlots : \A t \in FreeSlots : s <= t

\* Fault: only established connections are looked at.
HasConnectedSlot(x) == \E s \in Slots : peers[s].state = "CONNECTED" /\ peers[s].session = x

\* Session x has a slot, in whatever state.
HasSlot(x) == \E s \in Slots : peers[s].state # "DISCONNECTED" /\ peers[s].session = x

\* enet_protocol_handle_connect(): a session that already has a slot, or that
\* finds none free, gets no answer. What is in the acknowledgement queue of
\* the slot stays there.
ReceiveConnect(m) ==
  /\ svc = "receive"
  /\ ~HasSlot(m.session)
  /\ FreeSlots # {}
  /\ peers' = [peers EXCEPT
       ![FirstFreeSlot] = [@ EXCEPT !.state = "ACKNOWLEDGING_CONNECT",
                                    !.session = m.session, !.verify = "queued",
                                    !.arrived = {}, !.received = 0]]
  /\ UNCHANGED <<dispatchQueue, event, svc, cursor, netVars>>

\* The test at the start of enet_protocol_handle_incoming_commands().
Accepts(m) ==
  /\ ~Idle(m.peer)
  /\ peers[m.peer].session = m.session

\* The acknowledgement completes the handshake if VERIFY_CONNECT was sent.
CompletesHandshake(m) ==
  /\ m.ack
  /\ peers[m.peer].state = "ACKNOWLEDGING_CONNECT"
  /\ peers[m.peer].verify = "sent"

\* Fault: a datagram without data counts as a command.
AcceptAnything(p, m) ==
  [p EXCEPT !.state = "CONNECTED", !.verify = "none", !.arrived = @ \cup {m.data}]

\* What the datagram does to its peer.
AcceptData(p, m) ==
  [p EXCEPT !.state = "CONNECTED", !.verify = "none",
            !.arrived = @ \cup ({m.data} \ {NoData})]

\* A datagram of the running session: the acknowledgement, then the reliable
\* commands behind it. Those are refused unless the peer is CONNECTED by then,
\* and in any state but these two the datagram changes nothing.
ReceiveData(m) ==
  /\ svc = "receive"
  /\ Accepts(m)
  /\ CompletesHandshake(m) \/ peers[m.peer].state = "CONNECTED"
  /\ LET p == AcceptData(peers[m.peer], m)
     IN /\ peers' = [peers EXCEPT ![m.peer] = p]
        /\ dispatchQueue' = IF HasDispatched(p) THEN Enqueue(dispatchQueue, m.peer)
                                                 ELSE dispatchQueue
  /\ IF CompletesHandshake(m) THEN ReturnEvent("CONNECT", m.peer)
                              ELSE UNCHANGED <<event, svc>>
  /\ UNCHANGED <<cursor, netVars>>

\* Fault: a peer that asks for no answer is reset at once.
DisconnectedSilently(p, reliable) ==
  IF p.state = "CONNECTED" /\ reliable
  THEN [ResetQueues(p) EXCEPT !.state = "ACKNOWLEDGING_DISCONNECT", !.ackDisconnect = TRUE]
  ELSE ResetPeer(p)

\* What enet_protocol_handle_disconnect() and the acknowledgement queued after
\* it make of a peer: a CONNECTED one that asks for an answer gets it before it
\* is gone, one that does not is a ZOMBIE at once, and one in the middle of its
\* handshake is reset, the acknowledgement queued on the slot it has just left.
Disconnected(p, reliable) ==
  IF p.state = "CONNECTED"
  THEN [ResetQueues(p) EXCEPT
          !.state = IF reliable THEN "ACKNOWLEDGING_DISCONNECT" ELSE "ZOMBIE",
          !.ackDisconnect = reliable]
  ELSE [ResetPeer(p) EXCEPT !.ackDisconnect = reliable]

\* A peer in ACKNOWLEDGING_DISCONNECT is left alone.
ReceiveDisconnect(m) ==
  /\ svc = "receive"
  /\ Accepts(m)
  /\ \/ peers[m.peer].state = "CONNECTED"
     \/ peers[m.peer].state = "ACKNOWLEDGING_CONNECT" /\ EarlyDisconnect
  /\ LET p == Disconnected(peers[m.peer], m.reliable)
         q == Unlink(dispatchQueue, m.peer)
     IN /\ peers' = [peers EXCEPT ![m.peer] = p]
        /\ dispatchQueue' = IF p.state = "ZOMBIE" THEN Enqueue(q, m.peer) ELSE q
  /\ UNCHANGED <<event, svc, cursor, netVars>>

\* enet_socket_receive() returns 0: nothing more to read for now.
ReceiveNone ==
  /\ svc = "receive"
  /\ svc' = "send2"
  /\ UNCHANGED <<peers, dispatchQueue, event, cursor, netVars>>

Receive ==
  \E m \in toServer : \/ m.type = "CONNECT" /\ ReceiveConnect(m)
                      \/ m.type = "DATA" /\ ReceiveData(m)
                      \/ m.type = "DISCONNECT" /\ ReceiveDisconnect(m)

\* The steps of the service call that do not depend on the network.
Service ==
  \/ DispatchZombie \/ DispatchReceive \/ DispatchNone
  \/ \E s \in Slots : SendToPeer(s)
  \/ SendDone \/ ReceiveNone

Timeout == \E s \in Slots : TimeoutPeer(s)

-----------------------------------------------------------------------------
(***************************************************************************)
(* The client end of session x.                                            *)
(***************************************************************************)

\* enet_host_connect(), and the CONNECT command it queues.
ClientConnect(x) ==
  /\ clients[x].state = "IDLE"
  /\ clients' = [clients EXCEPT ![x].state = "CONNECTING"]
  /\ toServer' = toServer \cup {[type |-> "CONNECT", session |-> x]}
  /\ UNCHANGED <<toClient, hostVars>>

\* enet_protocol_handle_verify_connect(); a repeated VERIFY_CONNECT is only
\* acknowledged again, and not even that in DISCONNECTING.
ClientVerify(x, s) ==
  /\ [type |-> "VERIFY_CONNECT", session |-> x, peer |-> s] \in toClient
  /\ clients[x].state \in {"CONNECTING", "CONNECTED"}
  /\ clients' = [clients EXCEPT
       ![x] = [state |-> "CONNECTED", ackVerify |-> TRUE,
               peer |-> IF @.state = "CONNECTING" THEN s ELSE @.peer]]
  /\ UNCHANGED <<toServer, toClient, hostVars>>

\* The service call of the client sends what is queued: the acknowledgement
\* if there is one, and a reliable command, a new or a timed out one.
ClientFlush(x, data) ==
  /\ clients[x].state = "CONNECTED"
  /\ clients[x].ackVerify \/ data # NoData
  /\ clients' = [clients EXCEPT ![x].ackVerify = FALSE]
  /\ toServer' = toServer \cup
       {[type |-> "DATA", session |-> x, peer |-> clients[x].peer,
         ack |-> clients[x].ackVerify, data |-> data]}
  /\ UNCHANGED <<toClient, hostVars>>

\* enet_peer_disconnect(): every queue is emptied, an acknowledgement not yet
\* sent with them, and a DISCONNECT to be acknowledged is sent.
ClientDisconnect(x) ==
  /\ clients[x].state = "CONNECTED"
  /\ clients' = [clients EXCEPT ![x] = [@ EXCEPT !.state = "DISCONNECTING",
                                                !.ackVerify = FALSE]]
  /\ toServer' = toServer \cup
       {[type |-> "DISCONNECT", session |-> x, peer |-> clients[x].peer,
         reliable |-> TRUE]}
  /\ UNCHANGED <<toClient, hostVars>>

\* The client's ENetPeer is reset; what still arrives for the session finds
\* no peer with its ID and is dropped.
CloseClient(x) ==
  /\ clients' = [clients EXCEPT
       ![x] = [state |-> "CLOSED", peer |-> NoPeer, ackVerify |-> FALSE]]
  /\ toClient' = {m \in toClient : m.session # x}

\* enet_peer_disconnect_now(): one DISCONNECT that wants no answer.
ClientDisconnectNow(x) ==
  /\ clients[x].state = "CONNECTED"
  /\ CloseClient(x)
  /\ toServer' = toServer \cup
       {[type |-> "DISCONNECT", session |-> x, peer |-> clients[x].peer,
         reliable |-> FALSE]}
  /\ UNCHANGED hostVars

\* The acknowledgement of the client's DISCONNECT arrives.
ClientDisconnected(x) ==
  /\ clients[x].state = "DISCONNECTING"
  /\ [type |-> "ACK_DISCONNECT", session |-> x] \in toClient
  /\ CloseClient(x)
  /\ UNCHANGED <<toServer, hostVars>>

\* The client's own timeout, or the end of its process: the server hears
\* nothing of it.
ClientReset(x) ==
  /\ clients[x].state \in {"CONNECTING", "CONNECTED", "DISCONNECTING"}
  /\ CloseClient(x)
  /\ UNCHANGED <<toServer, hostVars>>

ClientStep ==
  \E x \in Sessions :
    \/ ClientConnect(x)
    \/ \E s \in Slots : ClientVerify(x, s)
    \/ \E data \in Data \cup {NoData} : ClientFlush(x, data)
    \/ ClientDisconnect(x)
    \/ ClientDisconnectNow(x)
    \/ ClientDisconnected(x)
    \/ ClientReset(x)

EnetNext == Service \/ Timeout \/ Receive \/ ClientStep

=============================================================================
