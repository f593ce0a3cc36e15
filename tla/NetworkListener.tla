-------------------------- MODULE NetworkListener --------------------------
(***************************************************************************)
(* NetworkListener::netLoop() of gamed on top of EnetHost: one thread that *)
(* calls enet_host_service() and handles the event it returns with. A      *)
(* CONNECT hangs a new ClientInfo on peer->data, a DISCONNECT deletes what *)
(* hangs there and leaves the pointer as it is, and a RECEIVE calls        *)
(* PacketHandler::handlePacket(), which reads the ClientInfo.              *)
(***************************************************************************)
EXTENDS EnetHost

VARIABLES
  data,      \* peer->data of each slot
  handled    \* the packets of a slot's last connection given to handlePacket()

listenerVars == <<data, handled>>
vars == <<peers, dispatchQueue, event, svc, cursor, clients, toServer, toClient,
          data, handled>>

\* NULL, a ClientInfo, or the address of a ClientInfo that was deleted.
Pointer == {"null", "live", "freed"}

TypeOK ==
  /\ peers \in [Slots -> Peer]
  /\ dispatchQueue \in Seq(Slots)
  /\ event \in Event
  /\ svc = "event" => event.peer \in Slots
  /\ svc \in ServicePoint
  /\ cursor \in 1 .. PeerCount + 1
  /\ clients \in [Sessions -> Client]
  /\ toServer \subseteq ToServer
  /\ toClient \subseteq ToClient
  /\ data \in [Slots -> Pointer]
  /\ handled \in [Slots -> Seq(Nat)]

Init ==
  /\ EnetInit
  /\ data = [s \in Slots |-> "null"]
  /\ handled = [s \in Slots |-> <<>>]

\* Back into enet_host_service(), which clears the event first.
CallService ==
  /\ svc' = "dispatch"
  /\ event' = NoEvent
  /\ UNCHANGED <<peers, dispatchQueue, cursor, netVars>>

Handling(type) == svc = "event" /\ event.type = type

\* Fault: a ClientInfo is made only for a slot that never had one.
OnFirstConnect ==
  /\ Handling("CONNECT")
  /\ data' = [data EXCEPT ![event.peer] = IF @ = "null" THEN "live" ELSE @]
  /\ handled' = [handled EXCEPT ![event.peer] = <<>>]
  /\ CallService

\* peer->data = new ClientInfo().
OnConnect ==
  /\ Handling("CONNECT")
  /\ data' = [data EXCEPT ![event.peer] = "live"]
  /\ handled' = [handled EXCEPT ![event.peer] = <<>>]
  /\ CallService

\* handlePacket() on the packet of the event; its result is not used.
OnReceive ==
  /\ Handling("RECEIVE")
  /\ handled' = [handled EXCEPT ![event.peer] = Append(@, peers[event.peer].received)]
  /\ UNCHANGED data
  /\ CallService

\* delete peer->data: nothing on NULL. A second delete of the same address
\* ends the process, or goes unnoticed.
OnDisconnect ==
  /\ Handling("DISCONNECT")
  /\ data' = [data EXCEPT ![event.peer] = IF @ = "live" THEN "freed" ELSE @]
  /\ UNCHANGED handled
  /\ \/ CallService
     \/ /\ data[event.peer] = "freed"
        /\ svc' = "aborted"
        /\ UNCHANGED <<peers, dispatchQueue, event, cursor, netVars>>

NetLoop == OnConnect \/ OnReceive \/ OnDisconnect

Next == NetLoop \/ (EnetNext /\ UNCHANGED listenerVars)

Spec == Init /\ [][Next]_vars

-----------------------------------------------------------------------------
(***************************************************************************)
(* Properties.                                                             *)
(***************************************************************************)

\* handlePacket() and every handler read peerInfo(peer) without a test: the
\* ClientInfo of the peer is there and not deleted whenever they run.
HandlersReadLiveInfo == Handling("RECEIVE") => data[event.peer] = "live"

\* A ClientInfo never outlives its connection: while it is allocated the slot
\* is held by the connection it was made for, or its end is being reported.
\* So the assignment in the CONNECT case never loses a ClientInfo, however
\* often the slots are reused and whichever way a connection ends.
NoClientInfoLost ==
  \A s \in Slots :
    data[s] = "live" =>
      \/ peers[s].state \in {"CONNECTED", "ACKNOWLEDGING_DISCONNECT", "ZOMBIE"}
      \/ Handling("DISCONNECT") /\ event.peer = s

\* The delete in the DISCONNECT case finds a ClientInfo that is allocated: no
\* end of a connection is reported twice, or without its beginning.
DisconnectDeletesLiveInfo == Handling("DISCONNECT") => data[event.peer] = "live"

\* However often a CONNECT is repeated or delayed, a session never occupies
\* two slots of the peer table at once.
OneSlotPerSession ==
  \A s, t \in Slots :
    (peers[s].session # NoSession /\ peers[s].session = peers[t].session) => s = t

\* What waits for dispatch is there once and has something to report, and
\* everything that has something to report waits: the needsDispatch flags and
\* the intrusive dispatch list never disagree, across resets and reuse.
DispatchQueueSound ==
  /\ \A i, j \in 1 .. Len(dispatchQueue) : dispatchQueue[i] = dispatchQueue[j] => i = j
  /\ \A s \in Slots :
       Contains(dispatchQueue, s) <=>
         \/ peers[s].state = "ZOMBIE"
         \/ (peers[s].state = "CONNECTED" /\ HasDispatched(peers[s]))

\* The listener sees every slot go through connections as PeerContract says.
Contract == INSTANCE PeerContract
              WITH open <- {s \in Slots : data[s] = "live"}, handled <- handled
ImplementsPeerContract == Contract!Spec

-----------------------------------------------------------------------------
(***************************************************************************)
(* Liveness. netLoop() never stops calling enet_host_service(), the socket *)
(* is drained from time to time (clients do not outrun the server), and a  *)
(* VERIFY_CONNECT that stays unanswered times out in the end. A connection *)
(* that is alive need never time out, nor any client answer.               *)
(***************************************************************************)
Fairness ==
  /\ WF_vars(NetLoop)
  /\ WF_vars(Service /\ UNCHANGED listenerVars)
  /\ \A s \in Slots : SF_vars(/\ peers[s].state = "ACKNOWLEDGING_CONNECT"
                              /\ TimeoutPeer(s) /\ UNCHANGED listenerVars)

FairSpec == Spec /\ Fairness

\* A slot taken by a handshake that is never completed becomes usable again:
\* half-open connections cannot hold the peer table for good.
HandshakeEnds ==
  \A s \in Slots : peers[s].state = "ACKNOWLEDGING_CONNECT"
                    ~> peers[s].state # "ACKNOWLEDGING_CONNECT"

\* A client that asked to leave is let go: its ClientInfo is deleted.
DisconnectCompletes ==
  \A s \in Slots : peers[s].state = "ACKNOWLEDGING_DISCONNECT" ~> data[s] # "live"

\* A packet in order on a connection is handed to handlePacket(), unless the
\* connection ends first.
DispatchedIsHandled ==
  \A s \in Slots : (peers[s].state = "CONNECTED" /\ HasDispatched(peers[s]))
                    ~> \/ Handling("RECEIVE") /\ event.peer = s
                       \/ peers[s].state # "CONNECTED"

=============================================================================
