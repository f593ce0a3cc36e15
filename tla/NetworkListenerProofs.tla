----------------------- MODULE NetworkListenerProofs -----------------------
(***************************************************************************)
(* What NetworkListener promises, for any number of slots, sessions and    *)
(* packets.                                                                *)
(*                                                                         *)
(* TypeInv is the type invariant with what the steps need to keep it: a    *)
(* slot has a session unless it is free, and a client knows its slot. Inv  *)
(* adds SlotInv, which ties the state of each slot, the ClientInfo on it,  *)
(* the packets handled and the event under way together; the properties    *)
(* follow from it, and so does the refinement of PeerContract. A step that *)
(* changes one slot keeps Inv if that slot does (OneSlotChanges).          *)
(***************************************************************************)
EXTENDS NetworkListener, SequenceTheorems, WellFoundedInduction, TLAPS

-----------------------------------------------------------------------------
(***************************************************************************)
(* The operators on peers and on the dispatch queue stay within the types. *)
(***************************************************************************)

\* Every operation on a peer leaves a peer.
LEMMA PeerOperators ==
  ASSUME NEW p \in Peer
  PROVE  /\ ResetQueues(p) \in Peer
         /\ ResetPeer(p) \in Peer
         /\ TakePacket(p) \in Peer
         /\ SendQueued(p) \in Peer
         /\ \A m \in DataMsg : AcceptData(p, m) \in Peer
         /\ \A r \in BOOLEAN :
              /\ Disconnected(p, r) \in Peer
              /\ Disconnected(p, r).session = NoSession
                   <=> p.state # "CONNECTED" \/ p.session = NoSession
              /\ Disconnected(p, r).state = "DISCONNECTED" <=> p.state # "CONNECTED"
<1>1. ResetQueues(p) \in Peer /\ ResetPeer(p) \in Peer
  BY DEF ResetQueues, ResetPeer, Peer, PeerState
<1>2. TakePacket(p) \in Peer
  BY DEF TakePacket, Peer
<1>3. SendQueued(p) \in Peer
  BY DEF SendQueued, Peer, PeerState
<1>4. ASSUME NEW m \in DataMsg PROVE AcceptData(p, m) \in Peer
  <2>1. m.data \in Data \cup {NoData}
    BY DEF DataMsg
  <2> QED
    BY <2>1 DEF AcceptData, Peer, PeerState
<1>5. ASSUME NEW r \in BOOLEAN
      PROVE  /\ Disconnected(p, r) \in Peer
             /\ Disconnected(p, r).session = NoSession
                  <=> p.state # "CONNECTED" \/ p.session = NoSession
             /\ Disconnected(p, r).state = "DISCONNECTED" <=> p.state # "CONNECTED"
  BY DEF Disconnected, ResetPeer, ResetQueues, Peer, PeerState
<1> QED
  BY <1>1, <1>2, <1>3, <1>4, <1>5

\* Appending to the dispatch queue, or unlinking from it, leaves a queue.
LEMMA QueueOperators ==
  ASSUME NEW q \in Seq(Slots), NEW s \in Slots
  PROVE  /\ Enqueue(q, s) \in Seq(Slots)
         /\ Unlink(q, s) \in Seq(Slots)
         /\ q # <<>> => Head(q) \in Slots /\ Tail(q) \in Seq(Slots)
<1>1. Enqueue(q, s) \in Seq(Slots)
  BY AppendProperties DEF Enqueue
<1>2. Unlink(q, s) \in Seq(Slots)
  <2>1. CASE Contains(q, s)
    <3> DEFINE i == CHOOSE k \in 1 .. Len(q) : q[k] = s
    <3>1. i \in 1 .. Len(q)
      BY <2>1 DEF Contains
    <3>2. Len(q) \in Nat
      BY LenProperties
    <3> HIDE DEF i
    <3>3. SubSeq(q, 1, i - 1) \in Seq(Slots)
      BY <3>1, <3>2
    <3>4. SubSeq(q, i + 1, Len(q)) \in Seq(Slots)
      BY <3>1, <3>2
    <3>5. SubSeq(q, 1, i - 1) \o SubSeq(q, i + 1, Len(q)) \in Seq(Slots)
      BY <3>3, <3>4, ConcatProperties
    <3> QED
      BY <2>1, <3>5 DEF Unlink, RemoveAt, i
  <2>2. CASE ~Contains(q, s)
    BY <2>2 DEF Unlink
  <2> QED
    BY <2>1, <2>2
<1>3. q # <<>> => Head(q) \in Slots /\ Tail(q) \in Seq(Slots)
  BY HeadTailProperties
<1> QED
  BY <1>1, <1>2, <1>3

-----------------------------------------------------------------------------
(***************************************************************************)
(* Type correctness.                                                       *)
(***************************************************************************)

\* What makes the types inductive: a slot is held by a session exactly as long
\* as it is not DISCONNECTED, and a connected client knows its slot.
SlotsHeld ==
  \A s \in Slots : peers[s].session = NoSession <=> peers[s].state = "DISCONNECTED"
PeersKnown ==
  \A x \in Sessions : clients[x].state = "CONNECTED" => clients[x].peer \in Slots

TypeInv == TypeOK /\ SlotsHeld /\ PeersKnown

\* The types hold in the initial state.
LEMMA InitTypeInv == Init => TypeInv
<1> SUFFICES ASSUME Init PROVE TypeInv
  OBVIOUS
<1>1. /\ peers \in [Slots -> Peer]
      /\ dispatchQueue \in Seq(Slots)
      /\ event \in Event /\ svc \in ServicePoint /\ svc # "event"
      /\ cursor \in 1 .. PeerCount + 1
  BY PeerCountAssumption, EmptySeq DEF Init, EnetInit, Peer, PeerState, Event, NoEvent,
     ServicePoint
<1>2. /\ clients \in [Sessions -> Client]
      /\ toServer \subseteq ToServer /\ toClient \subseteq ToClient
  BY DEF Init, EnetInit, Client
<1>3. data \in [Slots -> Pointer] /\ handled \in [Slots -> Seq(Nat)]
  BY EmptySeq DEF Init, Pointer
<1>4. SlotsHeld /\ PeersKnown
  BY DEF SlotsHeld, PeersKnown, Init, EnetInit
<1> QED
  BY <1>1, <1>2, <1>3, <1>4 DEF TypeOK, TypeInv

\* The steps of enet_host_service() that need no datagram keep them.
LEMMA ServiceTypeInv ==
  ASSUME TypeInv, Service \/ Timeout, UNCHANGED listenerVars
  PROVE  TypeInv'
<1> USE DEF TypeInv, TypeOK, SlotsHeld, PeersKnown, listenerVars, netVars, ReturnEvent, EventOf,
            Event, ServicePoint
<1>1. CASE DispatchZombie
  <2> DEFINE s == Head(dispatchQueue)
  <2>1. s \in Slots /\ Tail(dispatchQueue) \in Seq(Slots)
    BY <1>1, HeadTailProperties DEF DispatchZombie
  <2>2. ResetPeer(peers[s]) \in Peer
    BY <2>1, PeerOperators
  <2>3. SlotsHeld'
    BY <1>1, <2>1 DEF DispatchZombie, ResetPeer, ResetQueues, Peer
  <2> QED
    BY <1>1, <2>1, <2>2, <2>3 DEF DispatchZombie
<1>2. CASE DispatchReceive
  <2> DEFINE s == Head(dispatchQueue)
  <2>1. s \in Slots /\ Tail(dispatchQueue) \in Seq(Slots)
    BY <1>2, HeadTailProperties DEF DispatchReceive, QueueIfMore
  <2>2. TakePacket(peers[s]) \in Peer
    BY <2>1, PeerOperators
  <2>3. peers' \in [Slots -> Peer]
    BY <1>2, <2>1, <2>2 DEF DispatchReceive, QueueIfMore
  <2>4. dispatchQueue' \in Seq(Slots)
    BY <1>2, <2>1, AppendProperties DEF DispatchReceive, QueueIfMore
  <2>5. SlotsHeld'
    BY <1>2, <2>1 DEF DispatchReceive, QueueIfMore, TakePacket, Peer
  <2> QED
    BY <1>2, <2>1, <2>3, <2>4, <2>5 DEF DispatchReceive, QueueIfMore
<1>3. CASE DispatchNone
  BY <1>3, PeerCountAssumption DEF DispatchNone
<1>4. ASSUME NEW s \in Slots, SendToPeer(s)
      PROVE  TypeInv'
  <2>1. peers' \in [Slots -> Peer]
    BY <1>4, PeerOperators DEF SendToPeer
  <2>2. dispatchQueue' \in Seq(Slots)
    BY <1>4, QueueOperators DEF SendToPeer
  <2>3. toClient' \subseteq ToClient
    <3>1. peers[s].session \in Sessions
      BY <1>4 DEF SendToPeer, AtSlot, Idle, Peer
    <3> QED
      BY <1>4, <3>1 DEF SendToPeer, ToClient, VerifyMsg, AckMsg
  <2>4. cursor' \in 1 .. PeerCount + 1
    BY <1>4, PeerCountAssumption DEF SendToPeer, Slots
  <2>5. SlotsHeld'
    BY <1>4 DEF SendToPeer, SendQueued, AtSlot, Idle, Peer
  <2> QED
    BY <1>4, <2>1, <2>2, <2>3, <2>4, <2>5 DEF SendToPeer, AtSlot
<1>5. ASSUME NEW s \in Slots, TimeoutPeer(s)
      PROVE  TypeInv'
  <2>1. peers' \in [Slots -> Peer] /\ dispatchQueue' \in Seq(Slots)
    BY <1>5, PeerOperators, QueueOperators DEF TimeoutPeer, Unanswered, NotifyDisconnect
  <2>2. SlotsHeld'
    BY <1>5 DEF TimeoutPeer, Unanswered, NotifyDisconnect, ResetPeer, ResetQueues, Peer
  <2> QED
    BY <1>5, <2>1, <2>2, PeerCountAssumption DEF TimeoutPeer, Unanswered, NotifyDisconnect
<1>6. CASE SendDone
  BY <1>6, PeerCountAssumption DEF SendDone
<1>7. CASE ReceiveNone
  BY <1>7 DEF ReceiveNone
<1> QED
  BY <1>1, <1>2, <1>3, <1>4, <1>5, <1>6, <1>7 DEF Service, Timeout

\* enet_protocol_handle_connect() takes a free slot when there is one.
LEMMA FirstFreeSlotIsFree ==
  ASSUME FreeSlots # {}
  PROVE  FirstFreeSlot \in FreeSlots
<1>1. FreeSlots \subseteq Nat
  BY PeerCountAssumption DEF FreeSlots, Slots
<1>2. PICK s \in FreeSlots : \A t \in FreeSlots : <<t, s>> \notin OpToRel(<, Nat)
  BY <1>1, WFMin, NatLessThanWellFounded, Zenon
<1>3. \A t \in FreeSlots : ~(t < s)
  BY <1>1, <1>2, Zenon DEF OpToRel
<1>4. \A t \in FreeSlots : s <= t
  BY <1>1, <1>3
<1> QED
  BY <1>4 DEF FirstFreeSlot

\* So do the datagrams the server receives.
LEMMA ReceiveTypeInv ==
  ASSUME TypeInv, Receive, UNCHANGED listenerVars
  PROVE  TypeInv'
<1> USE DEF TypeInv, TypeOK, SlotsHeld, PeersKnown, listenerVars, netVars, ReturnEvent, EventOf,
            Event, ServicePoint
<1> PICK m \in toServer : \/ m.type = "CONNECT" /\ ReceiveConnect(m)
                          \/ m.type = "DATA" /\ ReceiveData(m)
                          \/ m.type = "DISCONNECT" /\ ReceiveDisconnect(m)
  BY DEF Receive
<1>0. m \in ToServer
  OBVIOUS
<1>1. CASE m.type = "CONNECT" /\ ReceiveConnect(m)
  <2>1. m.session \in Sessions
    BY <1>0, <1>1 DEF ToServer, ConnectMsg, DataMsg, DisconnectMsg
  <2>2. FirstFreeSlot \in Slots
    BY <1>1, FirstFreeSlotIsFree DEF ReceiveConnect, FreeSlots
  <2>3. peers' \in [Slots -> Peer]
    <3> DEFINE p == peers[FirstFreeSlot]
    <3>1. p \in Peer
      BY <2>2
    <3>2. [p EXCEPT !.state = "ACKNOWLEDGING_CONNECT", !.session = m.session,
                    !.verify = "queued", !.arrived = {}, !.received = 0] \in Peer
      BY <2>1, <3>1 DEF Peer, PeerState
    <3> QED
      BY <1>1, <2>2, <3>2 DEF ReceiveConnect
  <2>4. SlotsHeld'
    BY <1>1, <2>1, <2>2, SessionsAssumption DEF ReceiveConnect, Peer
  <2> QED
    BY <1>1, <2>3, <2>4 DEF ReceiveConnect
<1>2. CASE m.type = "DATA" /\ ReceiveData(m)
  <2>1. m \in DataMsg /\ m.peer \in Slots
    BY <1>0, <1>2 DEF ToServer, ConnectMsg, DataMsg, DisconnectMsg
  <2> DEFINE p == AcceptData(peers[m.peer], m)
  <2>2. p \in Peer
    BY <2>1, PeerOperators
  <2>3. peers' = [peers EXCEPT ![m.peer] = p]
    BY <1>2 DEF ReceiveData
  <2>4. dispatchQueue' \in Seq(Slots)
    BY <1>2, <2>1, QueueOperators DEF ReceiveData
  <2>5. SlotsHeld'
    BY <1>2, <2>1, <2>3 DEF ReceiveData, Accepts, Idle, AcceptData, Peer
  <2>6. event' \in Event /\ svc' \in ServicePoint /\ (svc' = "event" => event'.peer \in Slots)
    BY <1>2, <2>1 DEF ReceiveData
  <2> QED
    BY <1>2, <2>1, <2>2, <2>3, <2>4, <2>5, <2>6 DEF ReceiveData
<1>3. CASE m.type = "DISCONNECT" /\ ReceiveDisconnect(m)
  <2>1. m \in DisconnectMsg /\ m.peer \in Slots /\ m.reliable \in BOOLEAN
    BY <1>0, <1>3 DEF ToServer, ConnectMsg, DataMsg, DisconnectMsg
  <2> DEFINE p == Disconnected(peers[m.peer], m.reliable)
             q == Unlink(dispatchQueue, m.peer)
  <2>2. p \in Peer /\ (p.session = NoSession <=> p.state = "DISCONNECTED")
    BY <1>3, <2>1, PeerOperators DEF ReceiveDisconnect, Accepts, Idle
  <2>3. peers' = [peers EXCEPT ![m.peer] = p]
    BY <1>3 DEF ReceiveDisconnect
  <2>4. dispatchQueue' \in Seq(Slots)
    <3>1. dispatchQueue' = IF p.state = "ZOMBIE" THEN Enqueue(q, m.peer) ELSE q
      BY <1>3 DEF ReceiveDisconnect
    <3> QED
      BY <2>1, <3>1, QueueOperators
  <2> HIDE DEF p
  <2>5. peers' \in [Slots -> Peer] /\ SlotsHeld'
    BY <2>1, <2>2, <2>3
  <2> QED
    BY <1>3, <2>4, <2>5 DEF ReceiveDisconnect
<1> QED
  BY <1>1, <1>2, <1>3

\* So does whatever a client does.
LEMMA ClientTypeInv ==
  ASSUME TypeInv, ClientStep, UNCHANGED listenerVars
  PROVE  TypeInv'
<1>1. PICK x \in Sessions :
        \/ ClientConnect(x)
        \/ \E s \in Slots : ClientVerify(x, s)
        \/ \E n \in Data \cup {NoData} : ClientFlush(x, n)
        \/ ClientDisconnect(x)
        \/ ClientDisconnectNow(x)
        \/ ClientDisconnected(x)
        \/ ClientReset(x)
  BY DEF ClientStep
<1> DEFINE Goal == /\ clients' \in [Sessions -> Client]
                   /\ toServer' \subseteq ToServer
                   /\ toClient' \subseteq ToClient
                   /\ PeersKnown'
<1>2. /\ clients \in [Sessions -> Client]
      /\ toServer \subseteq ToServer /\ toClient \subseteq ToClient
      /\ PeersKnown
  BY DEF TypeInv, TypeOK
<1>3. clients[x] \in Client
  BY <1>2
<1> USE DEF PeersKnown, Client
<1>4. ASSUME ClientConnect(x) PROVE Goal
  BY <1>2, <1>3, <1>4 DEF ClientConnect, ToServer, ConnectMsg
<1>5. ASSUME NEW s \in Slots, ClientVerify(x, s) PROVE Goal
  BY <1>2, <1>3, <1>5 DEF ClientVerify
<1>6. ASSUME NEW n \in Data \cup {NoData}, ClientFlush(x, n) PROVE Goal
  <2>1. /\ toServer' \subseteq ToServer
    BY <1>2, <1>3, <1>6 DEF ClientFlush, ToServer, DataMsg
  <2> QED
    BY <1>2, <1>3, <1>6, <2>1 DEF ClientFlush
<1>7. ASSUME ClientDisconnect(x) PROVE Goal
  <2> DEFINE c == [clients[x] EXCEPT !.state = "DISCONNECTING", !.ackVerify = FALSE]
             m == [type |-> "DISCONNECT", session |-> x, peer |-> clients[x].peer,
                   reliable |-> TRUE]
  <2>1. c \in Client /\ c.state = "DISCONNECTING"
    BY <1>3
  <2>2. m \in ToServer
    BY <1>2, <1>7 DEF ClientDisconnect, ToServer, DisconnectMsg
  <2>3. /\ clients' = [clients EXCEPT ![x] = c]
        /\ toServer' = toServer \cup {m} /\ toClient' = toClient
    BY <1>7 DEF ClientDisconnect
  <2> HIDE DEF c, m, Client
  <2> QED
    BY <1>2, <2>1, <2>2, <2>3
<1>8. ASSUME CloseClient(x)
      PROVE  /\ clients' \in [Sessions -> Client]
             /\ toClient' \subseteq ToClient
             /\ PeersKnown'
  <2>1. clients' \in [Sessions -> Client]
    BY <1>2, <1>8 DEF CloseClient
  <2>2. toClient' \subseteq ToClient
    BY <1>2, <1>8 DEF CloseClient
  <2>3. PeersKnown'
    BY <1>2, <1>8 DEF CloseClient
  <2> QED
    BY <2>1, <2>2, <2>3
<1>9. ASSUME ClientDisconnectNow(x) \/ ClientDisconnected(x) \/ ClientReset(x) PROVE Goal
  <2>1. CASE ClientDisconnectNow(x)
    <3> DEFINE m == [type |-> "DISCONNECT", session |-> x, peer |-> clients[x].peer,
                     reliable |-> FALSE]
    <3>1. m \in ToServer
      BY <1>2, <2>1 DEF ClientDisconnectNow, ToServer, DisconnectMsg
    <3>2. toServer' = toServer \cup {m}
      BY <2>1 DEF ClientDisconnectNow
    <3> QED
      BY <1>2, <1>8, <2>1, <3>1, <3>2 DEF ClientDisconnectNow
  <2> QED
    BY <1>2, <1>8, <1>9, <2>1 DEF ClientDisconnected, ClientReset
<1>10. Goal
  BY <1>1, <1>4, <1>5, <1>6, <1>7, <1>8, <1>9
<1>11. UNCHANGED <<hostVars, listenerVars>>
  BY <1>1 DEF ClientConnect, ClientVerify, ClientFlush, ClientDisconnect, CloseClient,
     ClientDisconnectNow, ClientDisconnected, ClientReset
<1> QED
  BY <1>10, <1>11 DEF TypeInv, TypeOK, SlotsHeld, hostVars, listenerVars

\* And so do the handlers of the events.
LEMMA NetLoopTypeInv ==
  ASSUME TypeInv, NetLoop
  PROVE  TypeInv'
<1> USE DEF TypeInv, TypeOK, SlotsHeld, PeersKnown, Handling, CallService, NoEvent, Event, ServicePoint,
            Pointer, netVars
<1>1. CASE OnConnect
  BY <1>1, EmptySeq DEF OnConnect
<1>2. CASE OnReceive
  <2>1. event.peer \in Slots /\ peers[event.peer].received \in Nat
    BY <1>2 DEF OnReceive, Peer
  <2>2. Append(handled[event.peer], peers[event.peer].received) \in Seq(Nat)
    BY <2>1, AppendProperties
  <2> QED
    BY <1>2, <2>1, <2>2 DEF OnReceive
<1>3. CASE OnDisconnect
  BY <1>3 DEF OnDisconnect
<1> QED
  BY <1>1, <1>2, <1>3 DEF NetLoop

\* Every variable keeps its type, and every slot that is in use its session.
LEMMA TypeInvariant == Spec => []TypeInv
<1>1. TypeInv /\ [Next]_vars => TypeInv'
  <2> SUFFICES ASSUME TypeInv, [Next]_vars PROVE TypeInv'
    OBVIOUS
  <2>1. CASE UNCHANGED vars
    BY <2>1 DEF vars, TypeInv, TypeOK, SlotsHeld, PeersKnown
  <2> QED
    BY <2>1, ServiceTypeInv, ReceiveTypeInv, ClientTypeInv, NetLoopTypeInv
    DEF Next, EnetNext
<1> QED
  BY <1>1, InitTypeInv, PTL DEF Spec

\* Type correctness of the server's peer table, the dispatch queue, the event
\* and the datagrams in the network, for any number of slots and sessions.
THEOREM TypeCorrect == Spec => []TypeOK
BY TypeInvariant, PTL DEF TypeInv

-----------------------------------------------------------------------------
(***************************************************************************)
(* The ClientInfo of a connection. The inductive invariant is local to a   *)
(* slot: it relates the peer p, the pointer d in peer->data, the packets h *)
(* handled on its connection and the type e of the event that is about to  *)
(* be handled for the slot ("NONE" if there is none).                      *)
(***************************************************************************)
Pending(s) == IF svc = "event" /\ event.peer = s THEN event.type ELSE "NONE"

\* An event finds its peer in the state the event speaks of. A connection has
\* its ClientInfo from the handling of its CONNECT on, and nothing else has
\* one. The packets handled are those received but for the one being handled.
\* Unless a DISCONNECT meets an open handshake, its acknowledgement waits only
\* on the connection it ends, and what is reported as gone had been announced.
SlotInv(p, d, h, e) ==
  /\ e \in {"CONNECT", "RECEIVE"} => p.state = "CONNECTED"
  /\ e = "DISCONNECT" => p.state = "DISCONNECTED"
  /\ p.state \in {"CONNECTED", "ACKNOWLEDGING_DISCONNECT"} => (d = "live" <=> e # "CONNECT")
  /\ d = "live" => \/ p.state \in {"CONNECTED", "ACKNOWLEDGING_DISCONNECT", "ZOMBIE"}
                   \/ e = "DISCONNECT"
  /\ p.state = "ACKNOWLEDGING_CONNECT" \/ e = "CONNECT" => p.received = 0
  /\ p.state = "CONNECTED" /\ e # "CONNECT"
       => p.received = IF e = "RECEIVE" THEN Len(h) + 1 ELSE Len(h)
  /\ EarlyDisconnect = FALSE =>
       /\ p.ackDisconnect = TRUE => p.state = "ACKNOWLEDGING_DISCONNECT"
       /\ p.state = "ZOMBIE" \/ e = "DISCONNECT" => d = "live"

SlotsInv == \A s \in Slots : SlotInv(peers[s], data[s], handled[s], Pending(s))

Inv == TypeInv /\ SlotsInv

\* A step of the server that changes one slot keeps the invariant if that slot
\* and the event it may return with do.
LEMMA OneSlotChanges ==
  ASSUME SlotsInv, NEW s \in Slots, NEW p, NEW e,
         svc # "event", peers \in [Slots -> Peer],
         peers' = [peers EXCEPT ![s] = p], UNCHANGED listenerVars,
         \/ svc' # "event" /\ e = "NONE"
         \/ svc' = "event" /\ event' = EventOf(e, s),
         SlotInv(peers[s], data[s], handled[s], "NONE") => SlotInv(p, data[s], handled[s], e)
  PROVE  SlotsInv'
<1> SUFFICES ASSUME NEW t \in Slots
             PROVE  SlotInv(peers'[t], data[t], handled[t], Pending(t)')
  BY DEF SlotsInv, listenerVars
<1>1. Pending(t) = "NONE"
  BY DEF Pending
<1>2. CASE t = s
  <2>1. Pending(s)' = e
    BY DEF Pending, EventOf
  <2> QED
    BY <1>1, <1>2, <2>1 DEF SlotsInv
<1>3. CASE t # s
  <2>1. Pending(t)' = "NONE"
    BY <1>3 DEF Pending, EventOf
  <2> QED
    BY <1>1, <1>3, <2>1 DEF SlotsInv
<1> QED
  BY <1>2, <1>3

\* The fields the invariant speaks of, after each operation on a peer.
LEMMA PeerOperatorFields ==
  ASSUME NEW p \in Peer
  PROVE  /\ ResetPeer(p).state = "DISCONNECTED" /\ ResetPeer(p).ackDisconnect = FALSE
         /\ TakePacket(p).state = p.state /\ TakePacket(p).received = p.received + 1
         /\ TakePacket(p).ackDisconnect = p.ackDisconnect
         /\ SendQueued(p).state = (IF p.ackDisconnect = TRUE THEN "ZOMBIE" ELSE p.state)
         /\ SendQueued(p).ackDisconnect = FALSE
         /\ SendQueued(p).received = p.received
BY DEF ResetPeer, ResetQueues, TakePacket, SendQueued, Peer

\* A datagram of the session leaves its peer CONNECTED and hands nothing out.
LEMMA AcceptDataFields ==
  ASSUME NEW p \in Peer, NEW m \in DataMsg
  PROVE  /\ AcceptData(p, m).state = "CONNECTED"
         /\ AcceptData(p, m).received = p.received
         /\ AcceptData(p, m).ackDisconnect = p.ackDisconnect
BY DEF AcceptData, Peer

\* A DISCONNECT leaves a peer that will answer, a ZOMBIE or a free slot.
LEMMA DisconnectedFields ==
  ASSUME NEW p \in Peer, NEW r \in BOOLEAN
  PROVE  /\ p.state = "CONNECTED" /\ r = TRUE
              => Disconnected(p, r).state = "ACKNOWLEDGING_DISCONNECT"
         /\ p.state = "CONNECTED" /\ r = FALSE
              => /\ Disconnected(p, r).state = "ZOMBIE"
                 /\ Disconnected(p, r).ackDisconnect = FALSE
         /\ p.state # "CONNECTED" => Disconnected(p, r).state = "DISCONNECTED"
BY DEF Disconnected, ResetPeer, ResetQueues, Peer

\* The service call keeps the invariant,
LEMMA ServiceSlotsInv ==
  ASSUME TypeInv, SlotsInv, Service \/ Timeout, UNCHANGED listenerVars
  PROVE  SlotsInv'
<1>0. peers \in [Slots -> Peer] /\ dispatchQueue \in Seq(Slots)
  BY DEF TypeInv, TypeOK
<1>1. CASE DispatchZombie
  <2> DEFINE s == Head(dispatchQueue)
  <2>1. s \in Slots
    BY <1>0, <1>1, HeadTailProperties DEF DispatchZombie
  <2>2. /\ ResetPeer(peers[s]).state = "DISCONNECTED"
        /\ ResetPeer(peers[s]).ackDisconnect = FALSE
    BY <1>0, <2>1, PeerOperatorFields
  <2>3. SlotInv(peers[s], data[s], handled[s], "NONE")
          => SlotInv(ResetPeer(peers[s]), data[s], handled[s], "DISCONNECT")
    BY <1>1, <2>2 DEF DispatchZombie, SlotInv
  <2> QED
    BY <1>0, <1>1, <2>1, <2>3, OneSlotChanges DEF DispatchZombie, ReturnEvent
<1>2. CASE DispatchReceive
  <2> DEFINE s == Head(dispatchQueue)
  <2>1. s \in Slots
    BY <1>0, <1>2, HeadTailProperties DEF DispatchReceive, QueueIfMore
  <2>2. /\ TakePacket(peers[s]).state = "CONNECTED"
        /\ TakePacket(peers[s]).received = peers[s].received + 1
        /\ TakePacket(peers[s]).ackDisconnect = peers[s].ackDisconnect
    BY <1>0, <1>2, <2>1, PeerOperatorFields DEF DispatchReceive, QueueIfMore
  <2>3. SlotInv(peers[s], data[s], handled[s], "NONE")
          => SlotInv(TakePacket(peers[s]), data[s], handled[s], "RECEIVE")
    BY <1>2, <2>2 DEF DispatchReceive, QueueIfMore, SlotInv
  <2> QED
    BY <1>0, <1>2, <2>1, <2>3, OneSlotChanges DEF DispatchReceive, QueueIfMore, ReturnEvent
<1>3. ASSUME NEW s \in Slots, SendToPeer(s)
      PROVE  SlotsInv'
  <2>1. SlotInv(peers[s], data[s], handled[s], "NONE")
          => SlotInv(SendQueued(peers[s]), data[s], handled[s], "NONE")
    BY <1>0, <1>3, PeerOperatorFields DEF SendToPeer, AtSlot, Idle, SlotInv
  <2> QED
    BY <1>0, <1>3, <2>1, OneSlotChanges DEF SendToPeer, AtSlot
<1>4. ASSUME NEW s \in Slots, TimeoutPeer(s)
      PROVE  SlotsInv'
  <2> DEFINE e == IF peers[s].state = "CONNECTED" THEN "DISCONNECT" ELSE "NONE"
  <2>1. SlotInv(peers[s], data[s], handled[s], "NONE")
          => SlotInv(ResetPeer(peers[s]), data[s], handled[s], e)
    BY <1>0, <1>4, PeerOperatorFields DEF TimeoutPeer, Unanswered, NotifyDisconnect, SlotInv
  <2>2. \/ svc' # "event" /\ e = "NONE"
        \/ svc' = "event" /\ event' = EventOf(e, s)
    BY <1>4 DEF TimeoutPeer, Unanswered, NotifyDisconnect, ReturnEvent
  <2> QED
    BY <1>0, <1>4, <2>1, <2>2, OneSlotChanges DEF TimeoutPeer, Unanswered, NotifyDisconnect, AtSlot
<1>5. CASE DispatchNone \/ SendDone \/ ReceiveNone
  BY <1>5 DEF DispatchNone, SendDone, ReceiveNone, SlotsInv, Pending, listenerVars
<1> QED
  BY <1>1, <1>2, <1>3, <1>4, <1>5 DEF Service, Timeout

\* the datagrams received do,
LEMMA ReceiveSlotsInv ==
  ASSUME TypeInv, SlotsInv, Receive, UNCHANGED listenerVars
  PROVE  SlotsInv'
<1> PICK m \in toServer : \/ m.type = "CONNECT" /\ ReceiveConnect(m)
                          \/ m.type = "DATA" /\ ReceiveData(m)
                          \/ m.type = "DISCONNECT" /\ ReceiveDisconnect(m)
  BY DEF Receive
<1>0. peers \in [Slots -> Peer] /\ m \in ToServer
  BY DEF TypeInv, TypeOK
<1>1. CASE m.type = "CONNECT" /\ ReceiveConnect(m)
  <2> DEFINE s == FirstFreeSlot
             p == [peers[s] EXCEPT !.state = "ACKNOWLEDGING_CONNECT", !.session = m.session,
                                   !.verify = "queued", !.arrived = {}, !.received = 0]
  <2>1. s \in Slots /\ peers[s].state = "DISCONNECTED"
    BY <1>1, FirstFreeSlotIsFree DEF ReceiveConnect, FreeSlots
  <2>2. peers[s] \in Peer
    BY <1>0, <2>1
  <2>3. /\ p.state = "ACKNOWLEDGING_CONNECT" /\ p.received = 0
        /\ p.ackDisconnect = peers[s].ackDisconnect
    BY <2>2 DEF Peer
  <2>4. peers' = [peers EXCEPT ![s] = p]
    BY <1>1 DEF ReceiveConnect
  <2> HIDE DEF s, p
  <2>5. SlotInv(peers[s], data[s], handled[s], "NONE")
          => SlotInv(p, data[s], handled[s], "NONE")
    BY <2>1, <2>3 DEF SlotInv
  <2> QED
    BY <1>0, <1>1, <2>1, <2>4, <2>5, OneSlotChanges DEF ReceiveConnect
<1>2. CASE m.type = "DATA" /\ ReceiveData(m)
  <2>1. m \in DataMsg /\ m.peer \in Slots
    BY <1>0, <1>2 DEF ToServer, ConnectMsg, DataMsg, DisconnectMsg
  <2> DEFINE s == m.peer
             p == AcceptData(peers[s], m)
             e == IF CompletesHandshake(m) THEN "CONNECT" ELSE "NONE"
  <2>2. SlotInv(peers[s], data[s], handled[s], "NONE")
          => SlotInv(p, data[s], handled[s], e)
    BY <1>0, <1>2, <2>1, AcceptDataFields DEF ReceiveData, CompletesHandshake, SlotInv
  <2>3. \/ svc' # "event" /\ e = "NONE"
        \/ svc' = "event" /\ event' = EventOf(e, s)
    BY <1>2 DEF ReceiveData, ReturnEvent
  <2>4. svc # "event" /\ peers' = [peers EXCEPT ![s] = p]
    BY <1>2 DEF ReceiveData
  <2> QED
    BY <1>0, <2>1, <2>2, <2>3, <2>4, OneSlotChanges
<1>3. CASE m.type = "DISCONNECT" /\ ReceiveDisconnect(m)
  <2>1. m \in DisconnectMsg /\ m.peer \in Slots /\ m.reliable \in BOOLEAN
    BY <1>0, <1>3 DEF ToServer, ConnectMsg, DataMsg, DisconnectMsg
  <2> DEFINE s == m.peer
             p == Disconnected(peers[s], m.reliable)
  <2>2. SlotInv(peers[s], data[s], handled[s], "NONE")
          => SlotInv(p, data[s], handled[s], "NONE")
    BY <1>0, <1>3, <2>1, DisconnectedFields DEF ReceiveDisconnect, SlotInv
  <2>3. /\ svc # "event" /\ svc' # "event"
        /\ peers' = [peers EXCEPT ![s] = p]
    BY <1>3 DEF ReceiveDisconnect
  <2> QED
    BY <1>0, <2>1, <2>2, <2>3, OneSlotChanges
<1> QED
  BY <1>1, <1>2, <1>3

\* and so do the handlers of the events.
LEMMA NetLoopSlotsInv ==
  ASSUME TypeInv, SlotsInv, NetLoop
  PROVE  SlotsInv'
<1> DEFINE s == event.peer
<1>1. /\ s \in Slots /\ svc = "event" /\ UNCHANGED peers
      /\ Pending(s) = event.type
      /\ data \in [Slots -> Pointer] /\ handled \in [Slots -> Seq(Nat)]
      /\ peers[s].received \in Nat
  BY DEF TypeInv, TypeOK, NetLoop, OnConnect, OnReceive, OnDisconnect, Handling, CallService,
     Pending, Peer
<1>2. svc' # "event"
  BY DEF NetLoop, OnConnect, OnReceive, OnDisconnect, CallService
<1>3. SlotInv(peers[s], data[s], handled[s], event.type)
  BY <1>1 DEF SlotsInv
<1>4. SlotInv(peers[s], data'[s], handled'[s], "NONE")
  <2>1. CASE OnConnect
    BY <1>1, <1>3, <2>1 DEF OnConnect, Handling, SlotInv
  <2>2. CASE OnReceive
    <3>1. handled'[s] = Append(handled[s], peers[s].received) /\ UNCHANGED data
      BY <1>1, <2>2 DEF OnReceive
    <3>2. Len(handled'[s]) = Len(handled[s]) + 1
      BY <1>1, <3>1, AppendProperties
    <3> QED
      BY <1>3, <2>2, <3>1, <3>2 DEF OnReceive, Handling, SlotInv
  <2>3. CASE OnDisconnect
    BY <1>1, <1>3, <2>3 DEF OnDisconnect, Handling, SlotInv
  <2> QED
    BY <2>1, <2>2, <2>3 DEF NetLoop
<1>5. ASSUME NEW t \in Slots, t # s
      PROVE  SlotInv(peers[t], data'[t], handled'[t], "NONE")
  <2>1. Pending(t) = "NONE"
    BY <1>5 DEF Pending
  <2>2. data'[t] = data[t] /\ handled'[t] = handled[t]
    BY <1>1, <1>5 DEF NetLoop, OnConnect, OnReceive, OnDisconnect
  <2> QED
    BY <2>1, <2>2 DEF SlotsInv
<1> QED
  BY <1>1, <1>2, <1>4, <1>5 DEF SlotsInv, Pending

\* The inductive invariant holds in every reachable state.
LEMMA Invariant == Spec => []Inv
<1>1. Init => SlotsInv
  BY DEF Init, EnetInit, SlotsInv, SlotInv, Pending, NoEvent
<1>2. Inv /\ [Next]_vars => SlotsInv'
  <2> SUFFICES ASSUME Inv, [Next]_vars PROVE SlotsInv'
    OBVIOUS
  <2>1. CASE UNCHANGED vars
    BY <2>1 DEF vars, Inv, SlotsInv, Pending
  <2>2. CASE ClientStep /\ UNCHANGED listenerVars
    <3>1. UNCHANGED hostVars
      BY <2>2 DEF ClientStep, ClientConnect, ClientVerify, ClientFlush, ClientDisconnect,
         ClientDisconnectNow, ClientDisconnected, ClientReset
    <3> QED
      BY <2>2, <3>1 DEF hostVars, listenerVars, Inv, SlotsInv, Pending
  <2> QED
    BY <2>1, <2>2, ServiceSlotsInv, ReceiveSlotsInv, NetLoopSlotsInv DEF Inv, Next, EnetNext
<1> QED
  BY <1>1, <1>2, TypeInvariant, PTL DEF Spec, Inv

\* handlePacket() never runs on a peer without its ClientInfo, whatever clients
\* and network do: the unchecked reads of peerInfo(peer) are safe.
THEOREM HandlersReadLiveInfoTheorem == Spec => []HandlersReadLiveInfo
<1>1. Inv => HandlersReadLiveInfo
  BY DEF Inv, TypeInv, TypeOK, SlotsInv, SlotInv, Pending, Handling, HandlersReadLiveInfo
<1> QED
  BY <1>1, Invariant, PTL

\* No ClientInfo outlives its connection, so none is overwritten in peer->data.
THEOREM NoClientInfoLostTheorem == Spec => []NoClientInfoLost
<1>1. Inv => NoClientInfoLost
  <2> SUFFICES ASSUME Inv, NEW s \in Slots, data[s] = "live"
               PROVE  \/ peers[s].state \in {"CONNECTED", "ACKNOWLEDGING_DISCONNECT", "ZOMBIE"}
                      \/ Handling("DISCONNECT") /\ event.peer = s
    BY DEF NoClientInfoLost
  <2> QED
    BY DEF Inv, SlotsInv, SlotInv, Pending, Handling
<1> QED
  BY <1>1, Invariant, PTL

\* Without a DISCONNECT in the middle of a handshake, every DISCONNECT event
\* deletes a ClientInfo that is allocated.
THEOREM DisconnectDeletesLiveInfoTheorem ==
  ASSUME EarlyDisconnect = FALSE
  PROVE  Spec => []DisconnectDeletesLiveInfo
<1>1. Inv => DisconnectDeletesLiveInfo
  BY DEF Inv, TypeInv, TypeOK, SlotsInv, SlotInv, Pending, Handling, DisconnectDeletesLiveInfo
<1> QED
  BY <1>1, Invariant, PTL

-----------------------------------------------------------------------------
(***************************************************************************)
(* The listener implements PeerContract: every step that is not a handler  *)
(* stutters, and a handler takes the step of its event.                    *)
(***************************************************************************)
Open == {s \in Slots : data[s] = "live"}

\* CONNECT opens a slot that was not open.
LEMMA OnConnectRefines ==
  ASSUME Inv, OnConnect
  PROVE  Contract!Connect(event.peer)
<1>1. event.peer \in Slots /\ Pending(event.peer) = "CONNECT" /\ data \in [Slots -> Pointer]
  BY DEF Inv, TypeInv, TypeOK, OnConnect, Handling, Pending
<1>2. data[event.peer] # "live"
  BY <1>1 DEF Inv, SlotsInv, SlotInv
<1>3. Open' = Open \cup {event.peer}
  BY <1>1 DEF OnConnect, Open
<1> QED
  BY <1>1, <1>2, <1>3 DEF OnConnect, Contract!Connect, Open

\* RECEIVE hands over the next packet of an open slot.
LEMMA OnReceiveRefines ==
  ASSUME Inv, OnReceive
  PROVE  Contract!Handle(event.peer)
<1>1. event.peer \in Slots /\ Pending(event.peer) = "RECEIVE"
  BY DEF Inv, TypeInv, TypeOK, OnReceive, Handling, Pending
<1>2. data[event.peer] = "live" /\ peers[event.peer].received = Len(handled[event.peer]) + 1
  BY <1>1 DEF Inv, SlotsInv, SlotInv
<1> QED
  BY <1>1, <1>2 DEF OnReceive, Contract!Handle

\* DISCONNECT closes an open slot, and the heap stays sound.
LEMMA OnDisconnectRefines ==
  ASSUME EarlyDisconnect = FALSE, Inv, OnDisconnect
  PROVE  Contract!Disconnect(event.peer)
<1>1. event.peer \in Slots /\ Pending(event.peer) = "DISCONNECT" /\ data \in [Slots -> Pointer]
  BY DEF Inv, TypeInv, TypeOK, OnDisconnect, Handling, Pending
<1>2. data[event.peer] = "live"
  BY <1>1 DEF Inv, SlotsInv, SlotInv
<1>3. Open' = Open \ {event.peer}
  BY <1>1, <1>2 DEF OnDisconnect, Open
<1> QED
  BY <1>1, <1>2, <1>3 DEF OnDisconnect, Contract!Disconnect, Open

\* enet_host_service() keeps its promise to netLoop(): each connection of a slot
\* is announced, its packets handed over in order and once each, and its end
\* reported once, unless a DISCONNECT arrives in the middle of a handshake.
THEOREM PeerContractTheorem ==
  ASSUME EarlyDisconnect = FALSE
  PROVE  Spec => ImplementsPeerContract
<1>1. Init => Contract!Init
  BY DEF Init, Contract!Init
<1>2. Inv /\ [Next]_vars => [Contract!Next]_(Contract!contractVars)
  <2>1. ASSUME UNCHANGED vars \/ (EnetNext /\ UNCHANGED listenerVars)
        PROVE  UNCHANGED Contract!contractVars
    BY <2>1 DEF vars, listenerVars, Contract!contractVars
  <2>2. ASSUME Inv, NetLoop
        PROVE  Contract!Next
    <3>1. event.peer \in Slots
      BY <2>2 DEF Inv, TypeInv, TypeOK, NetLoop, OnConnect, OnReceive, OnDisconnect, Handling
    <3>2. \/ Contract!Connect(event.peer)
          \/ Contract!Handle(event.peer)
          \/ Contract!Disconnect(event.peer)
      BY <2>2, OnConnectRefines, OnReceiveRefines, OnDisconnectRefines DEF NetLoop
    <3> QED
      BY <3>1, <3>2 DEF Contract!Next, Contract!Connect, Contract!Handle, Contract!Disconnect
  <2> QED
    BY <2>1, <2>2 DEF Next
<1> QED
  BY <1>1, <1>2, Invariant, PTL DEF Spec, ImplementsPeerContract, Contract!Spec

-----------------------------------------------------------------------------
(***************************************************************************)
(* A session holds one slot: only a CONNECT gives a slot to a session, and *)
(* it looks through the whole table first.                                 *)
(***************************************************************************)

\* A slot that keeps its session or loses it makes no new pair.
LEMMA SessionKeptOrLost ==
  ASSUME OneSlotPerSession, NEW s \in Slots, NEW p, peers \in [Slots -> Peer],
         peers' = [peers EXCEPT ![s] = p], p.session \in {NoSession, peers[s].session}
  PROVE  OneSlotPerSession'
BY DEF OneSlotPerSession

\* What the operations on a peer do to its session.
LEMMA PeerOperatorSessions ==
  ASSUME NEW p \in Peer
  PROVE  /\ ResetPeer(p).session = NoSession
         /\ TakePacket(p).session = p.session
         /\ SendQueued(p).session = p.session
         /\ \A m \in DataMsg : AcceptData(p, m).session = p.session
         /\ \A r \in BOOLEAN : Disconnected(p, r).session \in {NoSession, p.session}
BY DEF ResetPeer, ResetQueues, TakePacket, SendQueued, AcceptData, Disconnected, Peer

\* However CONNECTs are repeated, delayed and reordered, no session occupies two
\* slots of the peer table.
THEOREM OneSlotPerSessionTheorem == Spec => []OneSlotPerSession
<1>1. Init => OneSlotPerSession
  BY DEF Init, EnetInit, OneSlotPerSession
<1>2. TypeInv /\ OneSlotPerSession /\ [Next]_vars => OneSlotPerSession'
  <2> SUFFICES ASSUME TypeInv, OneSlotPerSession, [Next]_vars PROVE OneSlotPerSession'
    OBVIOUS
  <2>0. peers \in [Slots -> Peer] /\ dispatchQueue \in Seq(Slots) /\ toServer \subseteq ToServer
    BY DEF TypeInv, TypeOK
  <2>1. CASE UNCHANGED peers
    BY <2>1 DEF OneSlotPerSession
  <2>2. CASE DispatchZombie \/ DispatchReceive
    <3>1. Head(dispatchQueue) \in Slots
      BY <2>0, <2>2, HeadTailProperties DEF DispatchZombie, DispatchReceive
    <3> QED
      BY <2>0, <2>2, <3>1, PeerOperatorSessions, SessionKeptOrLost
      DEF DispatchZombie, DispatchReceive
  <2>3. ASSUME NEW s \in Slots, SendToPeer(s) \/ TimeoutPeer(s)
        PROVE  OneSlotPerSession'
    BY <2>0, <2>3, PeerOperatorSessions, SessionKeptOrLost DEF SendToPeer, TimeoutPeer
  <2>4. ASSUME NEW m \in toServer, m.type = "DATA", ReceiveData(m)
        PROVE  OneSlotPerSession'
    <3>1. m \in DataMsg /\ m.peer \in Slots
      BY <2>0, <2>4 DEF ToServer, ConnectMsg, DataMsg, DisconnectMsg
    <3>2. peers' = [peers EXCEPT ![m.peer] = AcceptData(peers[m.peer], m)]
      BY <2>4 DEF ReceiveData
    <3> QED
      BY <2>0, <3>1, <3>2, PeerOperatorSessions, SessionKeptOrLost
  <2>5. ASSUME NEW m \in toServer, m.type = "DISCONNECT", ReceiveDisconnect(m)
        PROVE  OneSlotPerSession'
    <3>1. m \in DisconnectMsg /\ m.peer \in Slots /\ m.reliable \in BOOLEAN
      BY <2>0, <2>5 DEF ToServer, ConnectMsg, DataMsg, DisconnectMsg
    <3>2. peers' = [peers EXCEPT ![m.peer] = Disconnected(peers[m.peer], m.reliable)]
      BY <2>5 DEF ReceiveDisconnect
    <3> QED
      BY <2>0, <3>1, <3>2, PeerOperatorSessions, SessionKeptOrLost
  <2>6. ASSUME NEW m \in toServer, m.type = "CONNECT", ReceiveConnect(m)
        PROVE  OneSlotPerSession'
    <3>1. FirstFreeSlot \in Slots
      BY <2>6, FirstFreeSlotIsFree DEF ReceiveConnect, FreeSlots
    <3>2. \A s \in Slots : peers[s].session = m.session => m.session = NoSession
      BY <2>6 DEF ReceiveConnect, HasSlot, TypeInv, SlotsHeld
    <3>3. m.session \in Sessions
      BY <2>0, <2>6 DEF ToServer, ConnectMsg, DataMsg, DisconnectMsg
    <3>4. /\ peers'[FirstFreeSlot].session = m.session
          /\ \A s \in Slots \ {FirstFreeSlot} : peers'[s] = peers[s]
      BY <2>0, <2>6, <3>1 DEF ReceiveConnect, Peer
    <3> QED
      BY <3>1, <3>2, <3>3, <3>4, SessionsAssumption DEF OneSlotPerSession
  <2> QED
    <3>1. CASE UNCHANGED vars \/ NetLoop \/ ClientStep
      BY <2>1, <3>1 DEF vars, NetLoop, OnConnect, OnReceive, OnDisconnect, CallService,
         ClientStep, ClientConnect, ClientVerify, ClientFlush, ClientDisconnect,
         ClientDisconnectNow, ClientDisconnected, ClientReset, hostVars
    <3>2. CASE Service \/ Timeout
      BY <2>1, <2>2, <2>3, <3>2 DEF Service, Timeout, DispatchNone, SendDone, ReceiveNone
    <3>3. CASE Receive
      BY <2>4, <2>5, <2>6, <3>3 DEF Receive
    <3> QED
      BY <3>1, <3>2, <3>3 DEF Next, EnetNext
<1> QED
  BY <1>1, <1>2, TypeInvariant, PTL DEF Spec

-----------------------------------------------------------------------------
(***************************************************************************)
(* The dispatch queue of an ENetHost and its needsDispatch flags: the      *)
(* queue holds the slots that have something to report, each once.         *)
(*                                                                         *)
(* DispatchQueueSound is inductive over the type invariant. Of a step it   *)
(* only matters which slot it changes, what that slot has to report then,  *)
(* and what the queue is after it; the operations on the queue are first   *)
(* described by the set of slots they leave in it.                         *)
(***************************************************************************)

Distinct(q) == \A i, j \in 1 .. Len(q) : q[i] = q[j] => i = j

ToReport(p) == p.state = "ZOMBIE" \/ (p.state = "CONNECTED" /\ HasDispatched(p))

-----------------------------------------------------------------------------

\* What is appended waits behind what was there.
LEMMA AppendWaits ==
  ASSUME NEW q \in Seq(Slots), NEW s \in Slots, Distinct(q), ~Contains(q, s)
  PROVE  /\ Append(q, s) \in Seq(Slots) /\ Distinct(Append(q, s))
         /\ \A t \in Slots : Contains(Append(q, s), t) <=> Contains(q, t) \/ t = s
<1> DEFINE a == Append(q, s)
<1>1. /\ a \in Seq(Slots) /\ Len(a) = Len(q) + 1 /\ Len(q) \in Nat
      /\ \A i \in 1 .. Len(q) : a[i] = q[i]
      /\ a[Len(q) + 1] = s
  BY AppendProperties, LenProperties
<1> HIDE DEF a
<1>2. \A i \in 1 .. Len(a) : i \in 1 .. Len(q) \/ i = Len(q) + 1
  BY <1>1
<1>3. \A i \in 1 .. Len(q) : a[i] # s
  BY <1>1 DEF Contains
<1>4. Distinct(a)
  BY <1>1, <1>2, <1>3 DEF Distinct
<1>5. \A t \in Slots : Contains(a, t) <=> Contains(q, t) \/ t = s
  BY <1>1, <1>2 DEF Contains
<1> QED
  BY <1>1, <1>4, <1>5 DEF a

LEMMA EnqueueWaits ==
  ASSUME NEW q \in Seq(Slots), NEW s \in Slots, Distinct(q)
  PROVE  /\ Enqueue(q, s) \in Seq(Slots) /\ Distinct(Enqueue(q, s))
         /\ \A t \in Slots : Contains(Enqueue(q, s), t) <=> Contains(q, t) \/ t = s
<1>1. CASE Contains(q, s)
  BY <1>1 DEF Enqueue
<1>2. CASE ~Contains(q, s)
  BY <1>2, AppendWaits DEF Enqueue
<1> QED
  BY <1>1, <1>2

\* The head is taken away, and was there once.
LEMMA TailWaits ==
  ASSUME NEW q \in Seq(Slots), q # <<>>, Distinct(q)
  PROVE  /\ Head(q) \in Slots /\ Contains(q, Head(q))
         /\ Tail(q) \in Seq(Slots) /\ Distinct(Tail(q))
         /\ \A t \in Slots : Contains(Tail(q), t) <=> Contains(q, t) /\ t # Head(q)
<1> DEFINE r == Tail(q)
<1>1. /\ r \in Seq(Slots) /\ Len(q) \in Nat \ {0} /\ Len(r) = Len(q) - 1
      /\ \A i \in 1 .. Len(r) : r[i] = q[i + 1]
      /\ Head(q) = q[1] /\ Head(q) \in Slots
  BY HeadTailProperties, LenProperties, EmptySeq
<1> HIDE DEF r
<1>2. Distinct(r)
  <2> SUFFICES ASSUME NEW i \in 1 .. Len(r), NEW j \in 1 .. Len(r), r[i] = r[j] PROVE i = j
    BY DEF Distinct
  <2>1. i + 1 \in 1 .. Len(q) /\ j + 1 \in 1 .. Len(q) /\ q[i + 1] = q[j + 1]
    BY <1>1
  <2>2. i + 1 = j + 1
    BY ONLY <2>1, Distinct(q) DEF Distinct
  <2> QED
    BY <1>1, <2>2
<1>3. ASSUME NEW t \in Slots
      PROVE  Contains(r, t) <=> Contains(q, t) /\ t # Head(q)
  <2>1. ASSUME NEW i \in 1 .. Len(r), r[i] = t
        PROVE  Contains(q, t) /\ t # Head(q)
    <3>1. i + 1 \in 1 .. Len(q) /\ 1 \in 1 .. Len(q) /\ i + 1 # 1 /\ q[i + 1] = t
      BY <1>1, <2>1
    <3> QED
      BY <1>1, <3>1 DEF Contains, Distinct
  <2>2. ASSUME NEW i \in 1 .. Len(q), q[i] = t, t # Head(q)
        PROVE  Contains(r, t)
    <3>1. i - 1 \in 1 .. Len(r) /\ r[i - 1] = t
      BY <1>1, <2>2
    <3> QED
      BY <3>1 DEF Contains
  <2> QED
    BY <2>1, <2>2 DEF Contains
<1>4. Contains(q, Head(q))
  BY <1>1 DEF Contains
<1> QED
  BY <1>1, <1>2, <1>3, <1>4 DEF r

\* What is unlinked is gone, and the others stay.
LEMMA UnlinkWaits ==
  ASSUME NEW q \in Seq(Slots), NEW s \in Slots, Distinct(q)
  PROVE  /\ Unlink(q, s) \in Seq(Slots) /\ Distinct(Unlink(q, s))
         /\ \A t \in Slots : Contains(Unlink(q, s), t) <=> Contains(q, t) /\ t # s
<1>1. CASE ~Contains(q, s)
  BY <1>1 DEF Unlink, Contains
<1>2. CASE Contains(q, s)
  <2> DEFINE k == CHOOSE i \in 1 .. Len(q) : q[i] = s
             r == Unlink(q, s)
  <2>1. k \in 1 .. Len(q) /\ q[k] = s /\ Len(q) \in Nat
    BY <1>2, LenProperties DEF Contains
  <2>2. r = SubSeq(q, 1, k - 1) \o SubSeq(q, k + 1, Len(q)) /\ r \in Seq(Slots)
    BY <1>2, QueueOperators DEF Unlink, RemoveAt
  <2> HIDE DEF k, r
  <2> DEFINE a == SubSeq(q, 1, k - 1)
             b == SubSeq(q, k + 1, Len(q))
  <2>3. /\ a \in Seq(Slots) /\ Len(a) = k - 1 /\ \A i \in 1 .. k - 1 : a[i] = q[i]
        /\ b \in Seq(Slots) /\ Len(b) = Len(q) - k /\ \A i \in 1 .. Len(q) - k : b[i] = q[k + i]
    BY <2>1
  <2> HIDE DEF a, b
  <2>4. /\ Len(r) = Len(a) + Len(b)
        /\ \A i \in 1 .. Len(a) + Len(b) : r[i] = IF i <= Len(a) THEN a[i] ELSE b[i - Len(a)]
    BY <2>2, <2>3, ConcatProperties DEF a, b
  <2>5. /\ Len(r) = Len(q) - 1
        /\ \A i \in 1 .. Len(r) : r[i] = IF i < k THEN q[i] ELSE q[i + 1]
    <3>1. Len(r) = Len(q) - 1
      BY <2>1, <2>3, <2>4
    <3>2. ASSUME NEW i \in 1 .. Len(r)
          PROVE  r[i] = IF i < k THEN q[i] ELSE q[i + 1]
      <4>1. r[i] = IF i <= Len(a) THEN a[i] ELSE b[i - Len(a)]
        BY <2>4
      <4>2. CASE i < k
        <5>1. i <= Len(a) /\ i \in 1 .. k - 1
          BY <2>1, <2>3, <3>1, <4>2
        <5> QED
          BY ONLY <2>3, <4>1, <4>2, <5>1
      <4>3. CASE ~(i < k)
        <5>1. /\ ~(i <= Len(a)) /\ i - Len(a) \in 1 .. Len(q) - k
              /\ k + (i - Len(a)) = i + 1
          BY <2>1, <2>3, <3>1, <4>3
        <5>2. r[i] = b[i - Len(a)] /\ b[i - Len(a)] = q[k + (i - Len(a))]
          BY ONLY <2>3, <4>1, <5>1
        <5>3. r[i] = q[i + 1]
          BY ONLY <5>1, <5>2
        <5> QED
          BY <4>3, <5>3
      <4> QED
        BY <4>2, <4>3
    <3> QED
      BY <3>1, <3>2
  <2> DEFINE At(i) == IF i < k THEN i ELSE i + 1
  <2>6. /\ \A i \in 1 .. Len(r) : At(i) \in 1 .. Len(q) /\ At(i) # k /\ r[i] = q[At(i)]
        /\ \A i, j \in 1 .. Len(r) : At(i) = At(j) => i = j
        /\ \A n \in 1 .. Len(q) : n # k => \E i \in 1 .. Len(r) : At(i) = n
    <3>1. \A i \in 1 .. Len(r) : At(i) \in 1 .. Len(q) /\ At(i) # k /\ r[i] = q[At(i)]
      BY <2>1, <2>5
    <3>2. \A i, j \in 1 .. Len(r) : At(i) = At(j) => i = j
      BY <2>1, <2>5
    <3>3. ASSUME NEW n \in 1 .. Len(q), n # k
          PROVE  \E i \in 1 .. Len(r) : At(i) = n
      <4>1. CASE n < k
        <5>1. n \in 1 .. Len(r) /\ At(n) = n
          BY <2>1, <2>5, <4>1
        <5> QED
          BY <5>1
      <4>2. CASE n > k
        <5>1. n - 1 \in 1 .. Len(r) /\ At(n - 1) = n
          BY <2>1, <2>5, <4>2
        <5> QED
          BY <5>1
      <4> QED
        BY <2>1, <3>3, <4>1, <4>2
    <3> QED
      BY <3>1, <3>2, <3>3
  <2> HIDE DEF At
  <2>7. Distinct(r)
    BY ONLY <2>6, Distinct(q) DEF Distinct
  <2>8. \A t : Contains(r, t) <=> Contains(q, t) /\ t # s
    BY ONLY <2>1, <2>6, Distinct(q) DEF Contains, Distinct
  <2> QED
    BY <2>2, <2>7, <2>8 DEF r
<1> QED
  BY <1>1, <1>2

-----------------------------------------------------------------------------

\* A step that changes one slot has to put it into the queue or take it out, as
\* that slot then has something to report or not.
LEMMA OneSlotQueued ==
  ASSUME DispatchQueueSound, peers \in [Slots -> Peer], NEW s \in Slots, NEW p,
         peers' = [peers EXCEPT ![s] = p],
         Distinct(dispatchQueue'),
         \A t \in Slots \ {s} : Contains(dispatchQueue', t) <=> Contains(dispatchQueue, t),
         Contains(dispatchQueue', s) <=> ToReport(p)
  PROVE  DispatchQueueSound'
<1>1. \A t \in Slots : Contains(dispatchQueue', t) <=> ToReport(peers'[t])
  <2> TAKE t \in Slots
  <2>1. CASE t = s
    BY <2>1
  <2>2. CASE t # s
    BY <2>2 DEF DispatchQueueSound, ToReport
  <2> QED
    BY <2>1, <2>2
<1> QED
  BY <1>1 DEF DispatchQueueSound, Distinct, ToReport

LEMMA QueueFacts ==
  ASSUME TypeInv, DispatchQueueSound
  PROVE  /\ peers \in [Slots -> Peer] /\ dispatchQueue \in Seq(Slots) /\ Distinct(dispatchQueue)
         /\ \A s \in Slots : Contains(dispatchQueue, s) <=> ToReport(peers[s])
BY DEF TypeInv, TypeOK, DispatchQueueSound, Distinct, ToReport

LEMMA DispatchQueued ==
  ASSUME TypeInv, DispatchQueueSound, DispatchZombie \/ DispatchReceive
  PROVE  DispatchQueueSound'
<1> DEFINE s == Head(dispatchQueue)
<1>1. dispatchQueue # <<>> /\ s \in Slots /\ peers[s] \in Peer
  BY QueueFacts, TailWaits DEF DispatchZombie, DispatchReceive
<1>2. /\ Tail(dispatchQueue) \in Seq(Slots) /\ Distinct(Tail(dispatchQueue))
      /\ \A t \in Slots : Contains(Tail(dispatchQueue), t) <=> Contains(dispatchQueue, t) /\ t # s
  BY <1>1, QueueFacts, TailWaits
<1>3. CASE DispatchZombie
  <2>1. ~ToReport(ResetPeer(peers[s]))
    BY <1>1 DEF ResetPeer, ResetQueues, Peer, ToReport
  <2>2. peers' = [peers EXCEPT ![s] = ResetPeer(peers[s])] /\ dispatchQueue' = Tail(dispatchQueue)
    BY <1>3 DEF DispatchZombie
  <2> QED
    BY <1>1, <1>2, <2>1, <2>2, QueueFacts, OneSlotQueued
<1>4. CASE DispatchReceive
  <2> DEFINE p == TakePacket(peers[s])
  <2>1. /\ peers' = [peers EXCEPT ![s] = p]
        /\ dispatchQueue' = QueueIfMore(Tail(dispatchQueue), p, s)
    BY <1>4 DEF DispatchReceive
  <2>2. p.state = "CONNECTED"
    BY <1>1, <1>4 DEF DispatchReceive, TakePacket, Peer
  <2> HIDE DEF p
  <2>3. ~Contains(Tail(dispatchQueue), s)
    BY <1>1, <1>2
  <2>4. CASE HasDispatched(p)
    <3>1. dispatchQueue' = Append(Tail(dispatchQueue), s) /\ ToReport(p)
      BY <2>1, <2>2, <2>4 DEF QueueIfMore, ToReport
    <3>2. /\ Distinct(dispatchQueue')
          /\ \A t \in Slots : Contains(dispatchQueue', t)
                                <=> Contains(Tail(dispatchQueue), t) \/ t = s
      BY <1>1, <1>2, <2>3, <3>1, AppendWaits
    <3>3. \A t \in Slots \ {s} : Contains(dispatchQueue', t) <=> Contains(dispatchQueue, t)
      BY <1>2, <3>2
    <3>4. Contains(dispatchQueue', s) <=> ToReport(p)
      BY <1>1, <3>1, <3>2
    <3> HIDE DEF s
    <3> QED
      BY <1>1, <2>1, <3>2, <3>3, <3>4, QueueFacts, OneSlotQueued
  <2>5. CASE ~HasDispatched(p)
    <3>1. dispatchQueue' = Tail(dispatchQueue) /\ ~ToReport(p)
      BY <2>1, <2>2, <2>5 DEF QueueIfMore, ToReport
    <3>2. Distinct(dispatchQueue') /\ ~Contains(dispatchQueue', s)
      BY <1>2, <2>3, <3>1
    <3>3. \A t \in Slots \ {s} : Contains(dispatchQueue', t) <=> Contains(dispatchQueue, t)
      BY <1>2, <3>1
    <3> HIDE DEF s
    <3> QED
      BY <1>1, <2>1, <3>1, <3>2, <3>3, QueueFacts, OneSlotQueued
  <2> QED
    BY <2>4, <2>5
<1> QED
  BY <1>3, <1>4

LEMMA SendQueuedSound ==
  ASSUME TypeInv, DispatchQueueSound, NEW s \in Slots, SendToPeer(s) \/ TimeoutPeer(s)
  PROVE  DispatchQueueSound'
<1>1. peers[s] \in Peer /\ peers[s].state # "ZOMBIE"
  BY QueueFacts DEF SendToPeer, TimeoutPeer, AtSlot, Idle
<1>2. CASE SendToPeer(s)
  <2> DEFINE p == SendQueued(peers[s])
  <2>1. /\ peers' = [peers EXCEPT ![s] = p]
        /\ dispatchQueue' = IF peers[s].ackDisconnect THEN Enqueue(dispatchQueue, s) ELSE dispatchQueue
    BY <1>2 DEF SendToPeer
  <2>2. /\ peers[s].ackDisconnect \in BOOLEAN
        /\ p.state = IF peers[s].ackDisconnect THEN "ZOMBIE" ELSE peers[s].state
        /\ p.arrived = peers[s].arrived /\ p.received = peers[s].received
    BY <1>1 DEF SendQueued, Peer
  <2> HIDE DEF p
  <2>3. CASE peers[s].ackDisconnect
    <3>1. ToReport(p) /\ dispatchQueue' = Enqueue(dispatchQueue, s)
      BY <2>1, <2>2, <2>3 DEF ToReport
    <3>2. /\ Distinct(dispatchQueue')
          /\ \A t \in Slots : Contains(dispatchQueue', t) <=> Contains(dispatchQueue, t) \/ t = s
      BY <3>1, QueueFacts, EnqueueWaits
    <3> QED
      BY <2>1, <3>1, <3>2, QueueFacts, OneSlotQueued
  <2>4. CASE ~peers[s].ackDisconnect
    <3>1. ToReport(p) <=> ToReport(peers[s])
      BY <2>2, <2>4 DEF ToReport, HasDispatched, InOrder
    <3> QED
      BY <2>1, <2>4, <3>1, QueueFacts, OneSlotQueued
  <2> QED
    BY <2>3, <2>4
<1>3. CASE TimeoutPeer(s)
  <2>1. ~ToReport(ResetPeer(peers[s]))
    BY <1>1 DEF ResetPeer, ResetQueues, Peer, ToReport
  <2>2. /\ peers' = [peers EXCEPT ![s] = ResetPeer(peers[s])]
        /\ dispatchQueue' = Unlink(dispatchQueue, s)
    BY <1>3 DEF TimeoutPeer
  <2>3. /\ Distinct(dispatchQueue')
        /\ \A t \in Slots : Contains(dispatchQueue', t) <=> Contains(dispatchQueue, t) /\ t # s
    BY <2>2, QueueFacts, UnlinkWaits
  <2> QED
    BY <2>1, <2>2, <2>3, QueueFacts, OneSlotQueued
<1> QED
  BY <1>2, <1>3

LEMMA ReceiveQueued ==
  ASSUME TypeInv, DispatchQueueSound, Receive
  PROVE  DispatchQueueSound'
<1> PICK m \in toServer : \/ m.type = "CONNECT" /\ ReceiveConnect(m)
                          \/ m.type = "DATA" /\ ReceiveData(m)
                          \/ m.type = "DISCONNECT" /\ ReceiveDisconnect(m)
  BY DEF Receive
<1>0. m \in ToServer
  BY DEF TypeInv, TypeOK
<1>1. CASE m.type = "CONNECT" /\ ReceiveConnect(m)
  <2> DEFINE s == FirstFreeSlot
             p == [peers[s] EXCEPT !.state = "ACKNOWLEDGING_CONNECT", !.session = m.session,
                                   !.verify = "queued", !.arrived = {}, !.received = 0]
  <2>1. s \in Slots /\ peers[s].state = "DISCONNECTED"
    BY <1>1, FirstFreeSlotIsFree DEF ReceiveConnect, FreeSlots
  <2>2. peers[s] \in Peer
    BY <2>1, QueueFacts
  <2>3. ~ToReport(peers[s]) /\ ~ToReport(p)
    BY <2>1, <2>2 DEF Peer, ToReport
  <2>4. peers' = [peers EXCEPT ![s] = p] /\ dispatchQueue' = dispatchQueue
    BY <1>1 DEF ReceiveConnect
  <2> HIDE DEF s, p
  <2> QED
    BY <2>1, <2>3, <2>4, QueueFacts, OneSlotQueued
<1>2. CASE m.type = "DATA" /\ ReceiveData(m)
  <2> DEFINE s == m.peer
             p == AcceptData(peers[s], m)
  <2>1. m \in DataMsg /\ s \in Slots
    BY <1>0, <1>2 DEF ToServer, ConnectMsg, DataMsg, DisconnectMsg
  <2>2. peers[s] \in Peer /\ peers[s].state \in {"ACKNOWLEDGING_CONNECT", "CONNECTED"}
    BY <1>2, <2>1, QueueFacts DEF ReceiveData, CompletesHandshake
  <2>3. /\ peers' = [peers EXCEPT ![s] = p]
        /\ dispatchQueue' = IF HasDispatched(p) THEN Enqueue(dispatchQueue, s) ELSE dispatchQueue
    BY <1>2 DEF ReceiveData
  <2>4. /\ p.state = "CONNECTED" /\ p.received = peers[s].received
        /\ peers[s].arrived \subseteq p.arrived
    BY <2>2 DEF AcceptData, Peer
  <2> HIDE DEF p, s
  <2>5. CASE HasDispatched(p)
    <3>1. /\ Distinct(dispatchQueue')
          /\ \A t \in Slots : Contains(dispatchQueue', t) <=> Contains(dispatchQueue, t) \/ t = s
      BY <2>1, <2>3, <2>5, QueueFacts, EnqueueWaits
    <3>2. ToReport(p)
      BY <2>4, <2>5 DEF ToReport
    <3> QED
      BY <2>1, <2>3, <3>1, <3>2, QueueFacts, OneSlotQueued
  <2>6. CASE ~HasDispatched(p)
    <3>1. ~HasDispatched(peers[s])
      BY <2>4, <2>6 DEF HasDispatched, InOrder
    <3>2. ~ToReport(p) /\ ~ToReport(peers[s])
      BY <2>2, <2>4, <2>6, <3>1 DEF ToReport
    <3> QED
      BY <2>1, <2>3, <2>6, <3>2, QueueFacts, OneSlotQueued
  <2> QED
    BY <2>5, <2>6
<1>3. CASE m.type = "DISCONNECT" /\ ReceiveDisconnect(m)
  <2> DEFINE s == m.peer
             p == Disconnected(peers[s], m.reliable)
             q == Unlink(dispatchQueue, s)
  <2>1. m \in DisconnectMsg /\ s \in Slots /\ m.reliable \in BOOLEAN
    BY <1>0, <1>3 DEF ToServer, ConnectMsg, DataMsg, DisconnectMsg
  <2>2. peers[s] \in Peer
    BY <2>1, QueueFacts
  <2>3. p.state # "CONNECTED"
    BY <2>1, <2>2 DEF Disconnected, ResetPeer, ResetQueues, Peer
  <2>4. /\ peers' = [peers EXCEPT ![s] = p]
        /\ dispatchQueue' = IF p.state = "ZOMBIE" THEN Enqueue(q, s) ELSE q
    BY <1>3 DEF ReceiveDisconnect
  <2>5. /\ q \in Seq(Slots) /\ Distinct(q)
        /\ \A t \in Slots : Contains(q, t) <=> Contains(dispatchQueue, t) /\ t # s
    BY <2>1, QueueFacts, UnlinkWaits
  <2> HIDE DEF p, q, s
  <2>6. CASE p.state = "ZOMBIE"
    <3>1. /\ Distinct(dispatchQueue')
          /\ \A t \in Slots : Contains(dispatchQueue', t) <=> Contains(q, t) \/ t = s
      BY <2>1, <2>4, <2>5, <2>6, EnqueueWaits
    <3> QED
      BY <2>1, <2>4, <2>5, <2>6, <3>1, QueueFacts, OneSlotQueued DEF ToReport
  <2>7. CASE p.state # "ZOMBIE"
    BY <2>1, <2>3, <2>4, <2>5, <2>7, QueueFacts, OneSlotQueued DEF ToReport
  <2> QED
    BY <2>6, <2>7
<1> QED
  BY <1>1, <1>2, <1>3

\* The dispatch queue and the flags of the peers agree, however slots are reset
\* and used again: no event is forgotten, and none is looked for in vain.
THEOREM DispatchQueueTheorem == Spec => []DispatchQueueSound
<1>1. Init => DispatchQueueSound
  <2> SUFFICES ASSUME Init PROVE DispatchQueueSound
    OBVIOUS
  <2>1. dispatchQueue = <<>> /\ \A s \in Slots : peers[s].state = "DISCONNECTED"
    BY DEF Init, EnetInit
  <2> QED
    BY <2>1 DEF DispatchQueueSound, Contains
<1>2. TypeInv /\ DispatchQueueSound /\ [Next]_vars => DispatchQueueSound'
  <2> SUFFICES ASSUME TypeInv, DispatchQueueSound, [Next]_vars PROVE DispatchQueueSound'
    OBVIOUS
  <2>1. CASE UNCHANGED <<peers, dispatchQueue>>
    BY <2>1 DEF DispatchQueueSound, HasDispatched, InOrder
  <2>2. CASE UNCHANGED vars \/ NetLoop \/ ClientStep
    <3>1. UNCHANGED <<peers, dispatchQueue>>
      BY <2>2 DEF vars, NetLoop, OnConnect, OnReceive, OnDisconnect, CallService,
         ClientStep, ClientConnect, ClientVerify, ClientFlush, ClientDisconnect,
         ClientDisconnectNow, ClientDisconnected, ClientReset, hostVars
    <3> QED
      BY <2>1, <3>1
  <2>3. CASE Service \/ Timeout
    BY <2>1, <2>3, DispatchQueued, SendQueuedSound DEF Service, Timeout, DispatchNone, SendDone,
       ReceiveNone
  <2> QED
    BY <2>2, <2>3, ReceiveQueued DEF Next, EnetNext
<1> QED
  BY <1>1, <1>2, TypeInvariant, PTL DEF Spec

=============================================================================
