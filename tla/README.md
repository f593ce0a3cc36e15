# HeroWars: verification

TLA+ models of the parts of this repository in which several things happen at
once, TLC configurations that check them on small instances, and proofs of the
main results for instances of any size.

The repository is a set of programs around one game client: `HeroWars/gamed`, a
game server on top of a vendored and patched ENet 1.2.5; two packet loggers that
are injected into the client (`IntPe9`, `LOLProxy` with `LOLPacketViewer`); and
a Wireshark dissector (`packet-lol`). The server and the ENet below it come
first: everything else depends on what they do, and that is where messages are
lost, repeated and reordered, and where slots, queues and pointers are used
again and again.

Paths are relative to `src/`; `enet/` is `HeroWars/dep/src/enet/`.

## Inventory

| Component | State | Operations | Works with | What is hard | What makes it correct |
|---|---|---|---|---|---|
| ENet host and peers (`enet/protocol.c`, `peer.c`, `host.c`) | 32 slots with a state each, queues of commands and acknowledgements, the intrusive dispatch list, the event of the running call | `enet_host_service()`: dispatch, send, receive, send; connect, disconnect, timeouts | socket; called by the listener, which handles one event between two calls | CONNECTs that are repeated or late, a DISCONNECT in any state, a timeout against a late answer, a slot that is reset while it waits in the dispatch list | every connection is announced before and reported gone after its packets, each once; a session has one slot; the list holds exactly the peers with something to report; half-open handshakes end |
| ENet reliable channel (same files) | sequence number and window counters at the sender, last number and waiting commands at the receiver, datagrams on the way | send, time out and repeat, acknowledge, accept, put in order | below the packets of the host | 16-bit numbers that come round, datagrams lost, repeated and late, commands left without an answer at window boundaries | order, once each, nothing forgotten before it has arrived, everything arrives |
| ENet fragments, unreliable and unsequenced commands | partial packets with bitmaps, unsequenced window | reassembly | the channel | fragments in any order, twice, with fields that disagree | a packet is handed over complete and once |
| ENet flow control | throttle, bandwidth limits, round trip times | throttle, bandwidth limit | send pass | rounding, starvation | progress only |
| Network listener (`gamed/NetworkListener.cpp`, `main.cpp`) | `peer->data` | `netLoop()`: new, handle, delete | ENet below, packet handler above | slots used again, pointers that are not cleared | handlers find the ClientInfo of their connection; it is deleted once and never lost |
| Packet handler and handlers (`gamed/PacketHandler.cpp`, `Handlers.cpp`) | handler table; `keyChecked` and `userId` per client | key check, login, loading, chat, movement; replies and broadcasts | listener; sends through ENet on several channels | channels are not ordered against each other, packets before the key check, broadcasts to clients in other stages, failing sends | nothing is decrypted that was not encrypted, `userId` is set before it is used |
| Log, Blowfish, base64 (`gamed/Log.cpp`, `dep/src/intlib`) | none to speak of | format, encrypt, decode | handler, listener | padding and length of base64 | decode inverts encode |
| Boost.Interprocess queue (`IntPe9/Libs/boost/interprocess`: `message_queue`, `spin_condition`, `spin_mutex`, managed shared memory) | an index of slots, a count, mutex, two conditions, all in a mapped file | try_send, receive, wait, notify; create, open, remove | IntPe9 on one side, the game on the other | hand-over of the enter mutex, time limits, a process that ends with a lock, a file that is opened while it is written | no wake-up is lost, first in first out, an opened queue has been constructed |
| IntPe9 sniffer (`IntPe9/Cores`, `IntPe9/IntPe9/Models`) | fragment map, `doFirst`, list of packets | hooks, reassembly, poll thread, start-up | the queue; ENet of the game | datagrams as the network delivers them, injection and creation side by side, IntPe9 closed while the game runs | packets shown whole and in order; calls of the game return; start-up ends |
| LOLProxy and LOLPacketViewer | a log file and its header | append in hooks, finish on detach, read | the game's thread; file | an exit in the middle of a record, a crash before detach | the viewer reads what was logged |
| packet-lol | port and key, decoder state | listener thread, dissection | two threads | key read while it is written, decoder not reset | packets decrypted with one key |
| User interfaces, loaders, vendored code, captures | - | - | - | - | - |

`PROJECT.json` lists the same components with their sources and, under
`hazards`, each place where something can go wrong that a test would hardly
reach, with the property that covers it.

## Modules

    PeerContract                    what netLoop() may count on
        ^ implemented by
    NetworkListener                 netLoop(), peer->data, handled packets
        | EXTENDS
    EnetHost                        enet_host_service(), peer table, clients, network

    ChannelContract                 what EnetHost takes a channel for
        ^ implemented by
    EnetChannel                     reliable numbers, windows, acknowledgements

    DeliveryContract                what a handler may count on with all kinds of packets
        ^ implemented by
    EnetDelivery                    fragments, unreliable and unsequenced packets

    GameServer                      requests, key check, handlers, broadcasts

    ConditionContract               what a condition variable promises
        ^ implemented by
    SpinCondition                   spin_condition and spin_mutex, operation by operation
        ^ EXTENDS
    PacketQueue                     message_queue, sendPacket(), packetPoll()

    SnifferStartup                  creating, opening and removing the queue's file
    Sniffer                         the hooks of the game's socket functions
    PacketLog                       the log of LOLProxy and its reader

    NetworkListenerMC, EnetChannelMC, SnifferMC       constants, bounds and symmetry for TLC
    NetworkListenerProofs, EnetChannelProofs, EnetDeliveryProofs, GameServerProofs,
    PacketQueueProofs, SnifferStartupProofs, SnifferProofs, PacketLogProofs    theorems

The layers meet at their contracts. `EnetHost` uses of a channel only that reliable
commands come in order and once, which is `ChannelContract`; `EnetDelivery` takes up what
`EnetChannel` leaves out, the commands that are no single reliable ones, and leaves out the
acknowledgements. `GameServer` assumes of a connection what `PeerContract` says, order
within a channel and one end per connection, and no order between channels. `Sniffer`
says which packets are passed on, `PacketQueue` what becomes of them, and
`SnifferStartup` how the queue between the two processes comes about.

Definitions whose comment begins with "Fault" are what the code would be with a
plausible mistake in it. No action uses them; they are put in the place of the
definition that follows, to see that a property notices (`mutants` in
`PROJECT.json`).

### EnetHost and NetworkListener

| Model | Code |
|---|---|
| `peers[s]` | `host->peers[s-1]`: `state`; address and `sessionID` are `session`; `verify` is the VERIFY_CONNECT command in `outgoingReliableCommands` or `sentReliableCommands`; `ackDisconnect` an entry of `acknowledgements`; `arrived` and `received` are the reliable commands accepted, and taken by `enet_peer_receive()` |
| `dispatchQueue` | `host->dispatchQueue` and the `needsDispatch` flags |
| `svc`, `cursor`, `event` | the position in `enet_host_service()`, in the loop over the peers of `enet_protocol_send_outgoing_commands()`, and the `ENetEvent` |
| `clients` | the `ENetPeer` of each client |
| `toServer`, `toClient` | datagrams that were sent; they are never removed, so they may arrive late, twice, in any order, or not at all |
| `data`, `handled` | `peer->data`; the packets given to `handlePacket()` on the last connection of a slot |

A step is one peer of a send pass, one datagram, one dispatch or one event
handled. The server has one thread; between its steps clients and network do
what they like. Several reliable commands in one datagram are handled in the
same way as several datagrams, and a received ping or data only matters for its
acknowledgement, which is not modelled: it changes no state of a peer. Packets
are numbers; one channel stands for all, since `EnetHost` uses only how many
commands are in order. Time is left out: a timeout may happen whenever a
reliable command is unanswered, which for a CONNECTED peer is always (ping).

gamed never calls `enet_peer_disconnect()`, `_now()`, `_later()` or
`enet_peer_reset()`, so the server's side of these is left out, the client's is in.

`EarlyDisconnect` says whether a DISCONNECT may reach a slot whose handshake is
still open. It may in reality: `TRUE` is the code. `FALSE` separates what depends
on the flaw described below from what does not.

### EnetChannel

One direction of one channel of two CONNECTED peers. A command has a number that
never wraps, and `SeqNo` is what the wire carries; so the model can tell a packet
from the one that has the same number a lap later. `unacked` is
`sentReliableCommands` with those timed out and queued again; `reliableWindows[w]`
and `usedReliableWindows` are counted from it (`InWindow`). `held` is
`incomingReliableCommands`, `delivered` what went to `dispatchedCommands`.

Constants have the code's roles: `WindowSize` (4096), `Windows` (16),
`FreeWindows` (8). `MaxSpan` stands for the thirty-second timeout: how many
commands can leave while one is unacknowledged. `MaxLag` is the lifetime of a
datagram in the network. `MaxUnacked` stands for the limit on bytes in transit.

### EnetDelivery

One channel from the sender's numbering to `dispatchedCommands`.

| Model | Code |
|---|---|
| `outRel`, `outUnrel`, `outGroup` | the counters of `enet_peer_setup_outgoing_command()` |
| `network` | every command sent; it may be received at any time, any number of times, or never |
| `inRel`, `inUnrel` | `incomingReliableSequenceNumber`, `incomingUnreliableSequenceNumber` |
| `held` | `incomingReliableCommands`; of a fragmented packet, `got` is what the bitmap `fragments` says has come |
| `waiting` | `incomingUnreliableCommands`, in the order of the list |
| `groupBase`, `groupsSeen` | `incomingUnsequencedGroup` and the bits set in `unsequencedWindow` |
| `delivered` | what has gone to `dispatchedCommands` |

The content of a packet is the set of commands that brought it, so that a packet put
together wrongly differs from every packet that was sent. A handler of `protocol.c` is an
action, with the dispatch it ends in: `enet_peer_dispatch_incoming_reliable_commands()`
and, if something went, `..._unreliable_commands()`. `Before` puts the counters where
numbers wrap, as after a long connection. `MaxAhead` stands for the windows and
acknowledgements, which are those of `EnetChannel`: the sender is at most so many reliable
numbers ahead of the last one delivered (`Ahead` in `EnetChannelProofs`).

### GameServer

`keyChecked` and `userId` are the fields of `ClientInfo`; `open` is the clients with a
connection. `inbox[c][channel]` holds what ENet has yet to hand over. `Handle` is
`handlePacket()` with the handler it calls: decrypt or not, look up by channel and
command, reply to the sender, broadcast to everyone connected. A packet that is read
wrongly (decrypted without need, or not, or with another key) may be anything its channel
has a handler for, or nothing (`Readings`). `got` is what was queued for a client since it
connected, each message with its kind and the user ID in it.

The client is external. In the captures the code was written by it begins with the key check
and waits for the reply; a request made so is `inTurn`. Nothing in the server asks for that, so
every request may also be made out of turn, before the key check is answered, and the key check
again after it (`Strays`). These may be misread, and be answered with a user ID that is not set
(`Unset`) or was decrypted once too often (`Garbled`): the code promises nothing for them, and
the properties say that they do no harm to what is asked in turn, by this client or another.
`OtherKey` are clients whose key is not the server's.

### SpinCondition and PacketQueue

Each step of `SpinCondition` is one atomic operation of the code on one of its three words:
`enter` is `m_enter_mut`, `m_command` and `m_num_waiters` are themselves; `mutex` is the
mutex the callers hold. `pc` is where a thread is in `do_wait()`, `do_timed_wait()` or
`notify()`. The callers of `SpinCondition` alone do whatever the interface allows; in
`PacketQueue`, which extends it, they are the threads of `try_send()` and `receive()`:
`mp_index` is the array of pointers, `data` the slots, `at` the place in the call,
`buffer` the local copy of a packet, `list` is `_packets`, and `accepted` remembers which
packets `try_send()` took. `Quit` is the end of the process of IntPe9, wherever its thread is.
Packets that are `TooLarge` for a slot are rejected by an exception before the mutex is locked
(`RejectSize`). The exception of `packetPoll()` for a size that does not fit (`PacketList.cpp:30`)
is not in the model: the size of a message is stored with it, and `sendPacket()` sends as many
bytes as the packet says it has.

### SnifferStartup

A file is what `managed_open_or_create_impl` makes of it: `size` in the pieces
`truncate_file()` writes, the first `word` ("uninitialized", "initializing",
"initialized"), and whether a queue was `built` in it. `name` is the file that
`packetSniffer` names; removing a name does not remove a file that is mapped. `ui` is where
`packetPoll()` is, `injected` the flag of `listenerLoop()`, and `dll` where the constructor of
`Skeleton` is. `Fail` and `Spoil` are the exceptions of the creator, `Quit` its end,
`Restart` the end of the game; all of them may come anywhere.

### Sniffer

`reassemble` is the map of partial packets by start sequence number, `doFirst` the flag
of the first message sent. The contents of a buffer are the commands written to it and how
often it was decrypted. What `newWSASendTo()` sees is the array of buffers ENet hands to
the socket, in which commands and data alternate until there is an acknowledgement. A
buffer of data whose first byte happens to be that of a command is `Misleading`. Messages may
have the same start number, as those of two channels may, or of one when the 16 bits come round. A
fragment is `crashed` if it is written where no buffer is, or past the end of one that was made for a
shorter message.
`orderly` and `plain` remember whether the network, and the game, did what the code counts on: the
network kept the order, and no message of the game had an odd number of acknowledgements in front.

### PacketLog

The file is a sequence of fields: the count, and four for each packet. `buffer` is that of
the C library, which goes to the file when it is full or closed. `inside` is the lock of the
stream, which `fwrite()` holds: a thread that is stopped there by the end of the game keeps it, and
`DLL_PROCESS_DETACH` gets no further than `fseek()` (`DetachStuck`). `Load` is
`LogFile::load()`: the set of lists of packets the viewer may end with, since what it reads
past the end of the file is not set.

## What is checked

| Run | Instance | Shows |
|---|---|---|
| `listener` | 2 slots, 2 sessions, 2 packets, 4 datagrams of clients, early DISCONNECT included | `TypeOK`, `HandlersReadLiveInfo`, `NoClientInfoLost`, `OneSlotPerSession`, `DispatchQueueSound`, with every way a connection can end |
| `contract` | 1 slot, 2 sessions, 1 packet, any datagrams, no early DISCONNECT | `DisconnectDeletesLiveInfo`, `ImplementsPeerContract`; `HandshakeEnds`, `DisconnectCompletes`, `DispatchedIsHandled`; no deadlock |
| `early_disconnect` | 1 slot, 1 session | violates `DisconnectDeletesLiveInfo` (below) |
| `channel` | 6 windows of 2 numbers, 3 free, 13 commands, 3 unacknowledged, 2 datagrams each way | `TypeOK`, `ForgottenHasArrived`, `ImplementsChannelContract` |
| `window_shift` | 15 commands, `MaxSpan` no limit | violates `ForgottenHasArrived` (below) |
| `delivery` | 8 windows of 3 numbers, 4 free, groups of 2, 4 packets of any kinds, 3 fragments | `TypeOK`, `OnlyWholePackets`, `NothingHeldBack`, `ImplementsDeliveryContract`; `ReliableGetThrough` |
| `handlers` | 2 clients, one with another key, 4 kinds of requests on 3 channels, 2 of them out of turn | `TypeOK`, `Understood`, `KnowsWhom`; `Served` |
| `condition` | 3 threads, waits with and without a limit, both notifications | `TypeOK`, `MutualExclusion`, `EnterMutex`, `CountsWaiters`, `ImplementsConditionContract`; `NotificationTaken` |
| `queue` | 2 threads of the game, a queue of 2, 5 packets, one of them too large, IntPe9 may be closed | `QueueTypeOK`, `InOrder`, `NoLostWakeup`; `Listed` while it is not closed, `SendReturns` |
| `startup` | 3 starts of IntPe9, a file of 3 pieces | `OpenedIsBuilt`, `LateIsWhole`; `LoadingEnds` |
| `sniffer` | messages of 3, 2, 1 and 2 fragments one way, the first and the last with the same start number, 2 messages the other | `ReceivedWhole`, `SentRight`, `NotMixed` |
| `log` | 6 packets | `AllOrNothing` |

**Bounds.**

*The listener.* Slots interact only through the dispatch list and the search for a session or a
free slot: `listener` has two slots and shows those. The bound on datagrams there is a
CONSTRAINT on what clients send; all of a session's life (CONNECT, acknowledgement, data,
DISCONNECT) fits in four, but not two lives. The reuse of a slot is the subject of
`contract`, where two sessions share one slot and nothing is cut off (9 datagrams is more
than two sessions can send). Order among several packets of a connection is not for this
run to show: `PeerContractTheorem` proves it for any number. Sessions are symmetric in
`listener`; not in `contract`, which has liveness properties. `listener` stops without
more to do when the bound cuts a state off or the double delete has ended the server.

*The channel.* Six windows keep the proportion of the code, `Windows = 2 * FreeWindows`, with
the smallest `FreeWindows` that lets the receiver cross a window (it accepts
`FreeWindows - 1`). Thirteen commands are more than a lap of the twelve numbers, so that
numbers repeat while old datagrams are about. `MaxSpan` and `MaxLag` are
9 = `(Windows - FreeWindows + 1) * WindowSize + 1`; with 10 the run fails, so this is the
exact limit for the code: with the real constants, things go wrong with the 36865th command that
leaves behind an unacknowledged one, and not before. That the limit is enough
for windows of any size and number is proved (`EnetChannelProofs`). The run stops at
`MaxPackets`.

*Delivery.* Twenty-two numbers are used up at the start, of twenty-four reliable ones and
of eight groups, so that both wrap within the four packets; two unreliable numbers per
reliable one make the sender reach the end of those as well. Three fragments leave one between
the first and the last. `MaxAhead` 12 is half a lap, as the free windows of the code are.
`MaxLag` 4 lets every command arrive after all the others.

*The handlers.* A client with the right key and one without see each other's broadcasts and
leave and return in any order. The four requests are those of three channels, short and long,
with reply and with broadcast; of those that copy `userId` there is one that replies with it and
one that broadcasts it. The others differ in the contents of their replies. Each request is made
at most once in turn and once out of turn on a connection, and two are out of turn at a time on
all connections (`MaxStrays`): a request before the key check, and the key check again. The theorems are about any set
of requests, clients and strays.

*The queue.* Two senders contend with each other and with the receiver; a queue of two is full
and empty by turns, and its slots are used again. `condition` has a third thread that may
wait, so that one of two sleepers is notified while its time runs out. The number of packets is
finite, so `SendReturns` does not show that a thread wins the lock against others that send
without end: with a spin lock it need not.

*Start-up.* Three files: one left by an earlier run, one in use, one to come. *Sniffer*: two
fragmented messages with the same start number, one with another and one in one piece between
them, two commands in a datagram at most, and a command sent again when nothing else is on its
way, which the server's next ones may overtake. *Log*: the state is a file and a position in
a record; six packets are several of each.

**Fairness.** In `NetworkListener`: `netLoop()` and the steps of the service call
that need no datagram go on (one thread in an endless loop), and a handshake that
waits for an answer times out (strong fairness, since a pass of the sender comes by
again and again). Nothing is assumed of clients, of the network, or of timeouts of
live connections. `ReceiveNone` is among the steps of the service call: the socket
is empty from time to time, or `enet_protocol_receive_incoming_commands()` would
never return. In `EnetDelivery`: each reliable command is received in the end, since
ENet repeats it until it is acknowledged; nothing of unreliable ones. In `GameServer`:
what has arrived from a client is handed over (`netLoop()`); clients may stop at any time. In
`SpinCondition` and `PacketQueue`: a thread in a call gets its turn. That a thread wins a
lock for which others contend is not assumed: `queue` needs no more, since the game
passes on finitely many packets there, and the lock is won at the latest when the others have
done. In `SnifferStartup`: threads that were started get their turn as long as their process lives.
`EnetChannel`, `Sniffer` and `PacketLog` state no liveness: whether a packet arrives
there depends on the network, or on who ends first.

## What the code does differently from what it says

Two runs end in a violation.

* `early_disconnect` (`enet/protocol.c:657`, `978`): a DISCONNECT that reaches a
  slot in ACKNOWLEDGING_CONNECT resets the slot and then queues its
  acknowledgement there. The next connection on the slot is turned into a ZOMBIE
  when that acknowledgement is sent, and the listener gets a DISCONNECT event
  without a CONNECT. `NetworkListener.cpp:71` then deletes `peer->data`, which may
  have been deleted with the connection before.
* `window_shift` (`enet/protocol.c:1246`): the mask of the windows that must be free
  is shifted by `ENET_PEER_RELIABLE_WINDOW_SIZE - reliableWindow` where
  `ENET_PEER_RELIABLE_WINDOWS - reliableWindow` is meant. Undefined for an int, no
  wrapped windows on the targets of the project files. A repeated command can then
  be taken for one of the next lap. It takes 36865 reliable commands on one
  channel before a single unacknowledged one times out, so it is a matter of
  principle more than of everyday use.

The rest was read in the code while modelling it. The models do what the code does; a property
that it limits names the exception in its formula or its comment.

* `enet/peer.c:500`: the sender may come eight or nine windows ahead of a command that has
  arrived but is unacknowledged; the receiver gives no answer to its repetitions there. The
  sender waits until the connection times out.
* `enet/peer.c:656`: when one batch brings two reliable numbers, unreliable commands that
  follow the first of them stay queued; they are not dropped, and go when the numbers come round
  (`NothingHeldBack` speaks of what is due).
* `Handlers.cpp:77-79`: the comment says "For all players send this info"; the messages go to the
  player itself only, so that players do not learn of each other.
* `Handlers.cpp:21`: after "WRONG KEY, GTFO!!!" nothing happens; the disconnect in
  `NetworkListener.cpp:58-61` is commented out. Such a client stays connected, and what it asks in
  less than eight bytes is answered (`Served` is about the others).
* `IntPe9/Cores/Skeleton.cpp:26`: "instant returns, we can have packet loss but keeping client
  alive is more important". `try_send()` does not wait for room, but it does wait for the mutexes
  and, if a receiver is counted, for it to take the notification. If IntPe9 is closed while its
  thread has the mutex or is inside `wait()`, the game may wait for ever. It is most likely closed
  in `wait()`, between packets. `SendReturns` says that the game waits in no other case
  (`Stranded`).
* `managed_open_or_create_impl.hpp:428-433`, `mapped_region.hpp:244-259`: a file is visible by its
  name while it is written, and whoever opens it maps what is there (`LateIsWhole` is about files
  that were complete).
* `managed_open_or_create_impl.hpp:444`: if IntPe9 ends in between, the loading of the DLL spins
  (`LoadingEnds` excepts `Abandoned`).
* `Views/Main.cpp:12-13`, `Injector.cpp:78`, `Skeleton.cpp:45`: the DLL may be injected before the
  queue it opens exists; it is then not loaded, and nobody tries again.
* `LeagueOfLegends.cpp:79-89`: "i hope so... else my code would crash so hard". The hook sees
  datagrams before ENet has put them in order, and a later fragment before fragment 0 is written
  through a null pointer (`crashed`). `NotMixed` holds all the same, `ReceivedWhole` as long as the
  network keeps the order.
* `LeagueOfLegends.cpp:187-197`: "lpBuffer[1,3,5...] = ENetProtocol, lpBuffer[2,4,6...] = Packet
  data". Acknowledgements have one buffer each (`protocol.c:1061-1078`); behind an odd number of
  them messages are not passed on, or a command is in place of one. `SentRight` says that this is the only
  case.
* `LeagueOfLegends.cpp:163`, `244`: parsing stops at the first command without a message, so that
  what follows an acknowledgement in a datagram is not seen (`ReceivedWhole`).
* `LeagueOfLegends.cpp:85`: messages with the same start number share a buffer; if they are under
  way at the same time, they are mixed.
* `LeagueOfLegends.cpp:213`: the first message the DLL sees is taken for the key check. If it is loaded
  later, that one stays encrypted; if the key check is sent again, it is decrypted without need.
* `LOLProxy/LOLDllProxy/Proxy.cpp:29`, `225`, `263`: the count is written at detach; the log of a game that
  was killed reads as empty, and so does that of one whose thread was stopped inside `fwrite()`
  (`AllOrNothing`).

## What is proved

`NetworkListenerProofs`, for any `PeerCount`, `Sessions`, `MaxData`, from the assumptions
named in `EnetHost`:

| Theorem | States |
|---|---|
| `TypeCorrect` | `Spec => []TypeOK` |
| `HandlersReadLiveInfoTheorem` | `Spec => []HandlersReadLiveInfo` |
| `NoClientInfoLostTheorem` | `Spec => []NoClientInfoLost` |
| `OneSlotPerSessionTheorem` | `Spec => []OneSlotPerSession` |
| `DisconnectDeletesLiveInfoTheorem` | if `EarlyDisconnect = FALSE`, `Spec => []DisconnectDeletesLiveInfo` |
| `DispatchQueueTheorem` | `Spec => []DispatchQueueSound` |
| `PeerContractTheorem` | if `EarlyDisconnect = FALSE`, `Spec => ImplementsPeerContract` |

Most of the properties are not inductive. `HandlersReadLiveInfo`, for one, speaks only of a
RECEIVE event; that the ClientInfo is there when it comes follows from what the
CONNECT event did some calls earlier. `Inv` is `TypeInv` (types; a slot has a session
unless it is DISCONNECTED; a connected client knows a slot) and, for each slot,
`SlotInv`: which states a pending event goes with, that a CONNECTED slot has its
ClientInfo except between the CONNECT event and its handling, that the packets
handled are those received but for the one under way, and, without early DISCONNECT,
that a DISCONNECT's acknowledgement waits only on the connection it ends. `SlotInv`
speaks of one slot at a time, and a step changes one slot: `OneSlotChanges` reduces each
step to that slot. The proof of `PeerContractTheorem` maps the three cases of `netLoop()`
to the three actions of the contract and everything else to stuttering steps.
`OneSlotPerSession` is inductive over `TypeInv`: only `ReceiveConnect` gives a slot a
session, and it asks `HasSlot` first.

`DispatchQueueSound` is inductive over `TypeInv`: of a step it only matters which slot it changes, what
that slot has to report then, and which slots the queue holds after it, and the lemmas on
`Append`, `Enqueue`, `Tail` and `Unlink` say the last.

`EnetChannelProofs`, for any `WindowSize`, `Windows` and `FreeWindows` with
`Windows >= 2 * FreeWindows` (`WindowAssumption`), if `MaxSpan` and `MaxLag` are at most
`Reach + 1`, where `Reach` is `(Windows - FreeWindows + 1) * WindowSize`:

| Theorem | States |
|---|---|
| `ChannelTypeCorrect` | `Spec => []TypeOK` |
| `ForgottenHasArrivedTheorem` | `Spec => []ForgottenHasArrived` |
| `ChannelContractTheorem` | `Spec => ImplementsChannelContract` |

The code compares numbers cut to 16 bits; that it never mistakes one for another follows from
how far apart the commands are that can meet. `Inv` says so without the cut. The sender enters a
window only after some command of the window before was acknowledged, and an acknowledgement
means arrival (`Answered`, `Kept`), within `FreeWindows - 1` windows of the last one delivered
(`Held`). So the sender is never more than `FreeWindows - 1` windows ahead (`Ahead`), and what is
yet to be delivered is never taken for old. What was delivered is never taken for new because
nothing lags by more than `Reach` (`Recent`, which is the assumption on the network and the
sender at work). The mask test of `MayStart` is not used: it would keep the sender from running
far ahead of its oldest unacknowledged command, which is what `MaxSpan` does here, and what the
run `window_shift` shows the code does not do.

`EnetDeliveryProofs`, for windows, fragments and packets of any size and number
(`DeliveryAssumption`):

| Theorem | States |
|---|---|
| `DeliveryTypeCorrect` | `Spec => []TypeOK` |
| `NothingHeldBackTheorem` | if `Limits`, `Spec => []NothingHeldBack` |
| `OnlyWholePacketsTheorem` | if `Limits`, `Spec => []OnlyWholePackets` |
| `DeliveryContractTheorem` | if `Limits` and `OneLap`, `Spec => ImplementsDeliveryContract` |

`Limits` is what holds between the two ends by the windows and by the age of datagrams:
`MaxAhead < Space`, and `MaxLag * Fragments <= Reach + 1`, the limit of `EnetChannelProofs` in
packets of at most `Fragments` numbers each. A packet has a `Number` that is not cut, counted
from the kinds of those before it. `Line` says that there is an uncut `last` number delivered,
that what is held belongs to packets behind it, by the numbers those have uncut, and that no two
entries are of one packet. A command that is accepted is of a packet behind `last`
(`OldIsOld`: an older one that still arrives looks old), and finds the entry of its own packet or none
(`SameNumber`: two cut numbers are the same only if the uncut ones are, since both are within a
lap). So an entry that is `Complete` by its count is a whole packet (`CompleteIsWhole`), and
each step of `InSequence` goes from the end of a packet to the end of the next (`TakeKeeps`).

`OneLap` is for what is not acknowledged. It says that the packets sent have fewer numbers than a
lap, wherever in it they begin, and that a datagram is overtaken by no more unsequenced packets
than the receiver accepts ahead (32768 in the code). The first half cannot be left out: when
reliable commands are handed over several at a time, an unreliable command that follows one in the
middle stays in the queue, and goes when its number comes round. (With eight numbers, four of the
windows free and ten packets, TLC shows a packet that is handed over behind eight reliable ones sent
after it.)

The refinement needs to know which packets were handed over. `Record` names them, `out`, beside
the uncut numbers `last` and `gb` (the uncut `groupBase`):

| Part of `Record` | Says |
|---|---|
| `IsOutput`, `Good` | `delivered` are the contents of `out`: all numbered packets up to `last` and no others, unreliable ones with at most the number after, in the order of sending; none twice |
| `Heard` | `inUnrel` is not behind the unreliable packets handed over since `last` |
| `Sorted` | of the unreliable queue, those still to come stand in the order of sending |
| `Groups` | an unsequenced packet handed over is older than `groupBase`, or has its bit |
| `InTurn = {}` | nothing complete and next is held |

`Unreliables` and `Unsequenceds` say of the network that numbers and groups are the uncut ones,
cut. Then the comparison of `StaysBefore` orders packets as they were sent, however their numbers
wrap (`Circular`, `StaysBeforeIs`), an unreliable command that is accepted belongs behind `last`
(`UnreliableFresh`), and a group that is accepted is not older than the window (`GroupAccepted`). Each
step adds to `out` what it hands over (`UnreliableRecord`, `UnsequencedRecord`, `DispatchRecord`)
and keeps the rest, so `FullInv` is an invariant. Every state with a `Record` is `Legal`
(`RecordLegal`): if all reliable packets up to one have arrived, it has been handed over, or else the
first one that was not would be complete and next in turn. TLC checked `FullInv` on the instance of
the run `delivery` before it was proved.

The type invariant needs `Minors`: an unreliable number is at most `UnreliableLimit`
because the sender makes a packet a reliable one there, whatever kinds are sent.

`SnifferProofs`, for any messages, numbers of fragments and bounds (`SnifferAssumption`):

| Theorem | States |
|---|---|
| `NotMixedTheorem` | `Spec => []NotMixed` |
| `ReceivedWholeTheorem` | `Spec => []ReceivedWhole` |
| `SentRightTheorem` | `Spec => []SentRight` |

`NotMixed` follows from what the entries of the map hold (`Unmixed`), and that they begin with the
first piece of a message once they are there (`Begins`), through each command of a datagram. For `ReceivedWhole`, `Orderly` gives the datagrams
under way a place each in the stream of the server (`Lined`), and the state the sniffer is in
before a command in its turn (`Expects`). `SentRight` is an equivalence, and `SentInv` has both
halves: while `plain`, what was passed on is the list of messages so far, and `doFirst` is set until
the first; once it is not, fewer messages were passed on than the game has sent, which nothing makes
good. Both rest on what is found behind an even number of acknowledgements (`TakenOfEven`: every
message) and an odd one (`TakenOfOdd`: at least one is missed, whatever data looks like).

`GameServerProofs`, for any `Clients`, any `OtherKey` among them and any set `Uses` of requests
with the key check (`ClientsAssumption`):

| Theorem | States |
|---|---|
| `HandlersTypeCorrect` | `Spec => []TypeOK` |
| `UnderstoodTheorem` | `Spec => []Understood` |
| `KnowsWhomTheorem` | `Spec => []KnowsWhom` |

`Understood` compares what a client meant with what the server makes of it later, by the state
it has then. `Inv` therefore says what lies between: an answer to a key check is the sign that it
was right (`AnswerMeans`), and of a client that is checked the server knows the user, or has him
garbled by a second check (`Trusted`); what waits was asked on its channel (`Waiting`), the
first key check before every other one and of a client that is not checked (`Once`); a request
in turn on another channel is of a client that is (`Expected`). Requests out of turn stand anywhere
in between, and nothing is said of what they are taken for.

`PacketQueueProofs`, first about `SpinCondition`, for any finite set of threads
(`ThreadsAssumption`):

| Theorem | States |
|---|---|
| `ConditionTypeCorrect` | `Spec => []TypeOK` |
| `MutualExclusionTheorem` | `Spec => []MutualExclusion` |
| `EnterMutexTheorem` | `Spec => []EnterMutex` |
| `CountsWaitersTheorem` | `Spec => []CountsWaiters` |
| `ConditionRefinement` | `Spec => ImplementsConditionContract` |

The four invariants need each other and `Places`, what the place of a thread tells of the rest:
who leaves last unlocks a mutex that another thread locked, and that it is the last depends on a
count that several threads change.

then about `PacketQueue`, for any number of threads, packets and slots (`QueueAssumption`):

| Theorem | States |
|---|---|
| `QueueTypeCorrect` | `QueueSpec => []QueueTypeOK` |
| `InOrderTheorem` | `QueueSpec => []InOrder` |
| `NoLostWakeupTheorem` | `QueueSpec => []NoLostWakeup` |
| `QueueMutualExclusion` | `QueueSpec => []MutualExclusion` |

First every step of the queue is shown to be one of a caller of `SpinCondition`
(`StepOfCallers`), so that the invariant of that module holds here. `QInv` adds who holds the
mutex where (`Positions`), what slots and local copies hold there (`Contents`), and that a
receiver that sleeps on a message has a sender that will notify it (`Wakes`).

`SnifferStartupProofs`, for any number of starts and any size of the file
(`StartupAssumption`):

| Theorem | States |
|---|---|
| `OpenedIsBuiltTheorem` | `Spec => []OpenedIsBuilt` |
| `LateIsWholeTheorem` | `Spec => []LateIsWhole` |

`Inv` follows the file through the hands of its creator (`Creator`), says what its first word
tells whoever reads it (`WordTells`), and what the opener knows of the file it has opened, which
may be an older one (`Opener`).

`PacketLogProofs`, for any number of packets that the 32 bits of `packetCount` can hold
(`MaxPackets < MaxCount`; with more the count wraps and the viewer shows the remainder):

| Theorem | States |
|---|---|
| `AllOrNothingTheorem` | `Spec => []AllOrNothing` |

`Inv` says at every step what file and buffer hold together (`Written`), wherever the border
between them is, and that the fields of an unfinished packet are behind those that are counted.

**Only model-checked.** All liveness (`HandshakeEnds`, `DisconnectCompletes`,
`DispatchedIsHandled`, `ReliableGetThrough`, `Served`, `NotificationTaken`, `Listed`,
`SendReturns`, `LoadingEnds`), which is beyond the prover.

## What is not modelled

`PROJECT.json` names the reason for each component. In general:

* By far the most lines of the repository are vendored: Boost headers, of which the program
  uses the interprocess queue modelled here, a Qt hex editor, further copies of ENet. They are
  not logic of this program, and most of them nothing here instantiates.
* ENet: bandwidth limits and the packet throttle, which choose how many commands leave at a
  time (any number may, here); the linked lists (sequences and sets); `enet_time_get()` and its
  differences, timeouts being choices; commands that do not parse; calls that gamed does not
  make (`enet_peer_disconnect()`, broadcasts, resizing).
* gamed: memory that is not there, sends that fail, what is in a packet beyond its kind and the
  user it names, the log. Blowfish is taken as a bijection that another key does not undo;
  base64 is a pure function.
* IntPe9: the model behind the table, which the GUI thread reads while the other appends, the
  parsing of packets for display, and the loader's changes to import tables.
* LOLProxy: the search for code patterns and the injector; packet-lol: the dissector.

## Plan

In order of what they would add:

1. `KeyListener`: the thread of packet-lol (`lol.c`) that hands port and key to the dissector
   without synchronisation.
2. `Base64`: the decoder against a reference definition over short inputs, checked by TLC.
