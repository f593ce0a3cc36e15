---------------------------- MODULE PacketQueue ----------------------------
(***************************************************************************)
(* The way of a packet from the game to the window of IntPe9: the code     *)
(* injected into the game copies it into a message_queue in shared memory, *)
(* from where a thread of IntPe9 takes it into its list of packets.        *)
(*                                                                         *)
(* The game's threads must not be held up by this; so they use try_send(), *)
(* which drops the packet when the queue is full. The queue is an index of *)
(* pointers to message slots, guarded by a mutex, and a condition variable *)
(* for the receiver (SpinCondition). Nobody waits for the other condition  *)
(* variable, m_cond_send, so that its notifications have no effect.        *)
(*                                                                         *)
(* The user may close IntPe9 at any time: its threads stop where they are. *)
(***************************************************************************)
EXTENDS SpinCondition, Sequences

CONSTANTS
  Receiver,     \* the thread of packetPoll(); the others are the game's
  MaxMsg,       \* m_max_num_msg
  MaxPackets,   \* bound: packets that the game passes on
  TooLarge      \* those of them that are larger than m_max_msg_size

ASSUME QueueAssumption ==
  /\ Receiver \in Threads
  /\ MaxMsg \in Nat \ {0} /\ MaxPackets \in Nat
  /\ TooLarge \subseteq 1 .. MaxPackets

Senders == Threads \ {Receiver}
Slots == 0 .. MaxMsg - 1
Packets == 1 .. MaxPackets

VARIABLES
  mp_index,     \* the slots: those in use, the newest first, then the free ones
  m_cur_num_msg,
  data,         \* the packet in each slot
  at,           \* where in try_send(), receive() or packetPoll() a thread is
  buffer,       \* the packet that a thread sends or has received
  accepted,     \* packets that try_send() has taken, in that order
  list,         \* _packets
  started,      \* number of calls of sendPacket()
  quit          \* IntPe9 has been closed

queueVars == <<mp_index, m_cur_num_msg, data>>
ghostVars == <<accepted, started>>
allVars == <<vars, queueVars, at, buffer, ghostVars, list, quit>>

QueueTypeOK ==
  /\ TypeOK
  /\ mp_index \in [Slots -> Slots] /\ \A i, j \in Slots : mp_index[i] = mp_index[j] => i = j
  /\ m_cur_num_msg \in 0 .. MaxMsg
  /\ data \in [Slots -> Packets \cup {0}]
  /\ at \in [Threads -> {"idle", "lock", "locked", "filled", "inserted", "copied", "unlock", "handle"}]
  /\ buffer \in [Threads -> Packets \cup {0}]
  /\ started \in 0 .. MaxPackets /\ quit \in BOOLEAN
  /\ accepted \in Seq(Packets) /\ list \in Seq(Packets)

QueueInit ==
  /\ Init
  /\ mp_index = [i \in Slots |-> i] /\ m_cur_num_msg = 0 /\ data = [s \in Slots |-> 0]
  /\ at = [t \in Threads |-> "idle"] /\ buffer = [t \in Threads |-> 0]
  /\ accepted = <<>> /\ list = <<>> /\ started = 0 /\ quit = FALSE

IsFull == m_cur_num_msg = MaxMsg
IsEmpty == m_cur_num_msg = 0

Runs(t) == t = Receiver => ~quit
InCall(t, place) == Runs(t) /\ at[t] = place /\ At(t, "run")
Proceed(t, place) == at' = [at EXCEPT ![t] = place]

-----------------------------------------------------------------------------
(***************************************************************************)
(* Both: the mutex of the queue, and the work in notify() and wait().      *)
(***************************************************************************)

LockQueue(t) ==
  /\ InCall(t, "lock") /\ Lock(t)
  /\ Proceed(t, "locked")
  /\ UNCHANGED <<queueVars, buffer, ghostVars, list, quit>>

UnlockQueue(t) ==
  /\ InCall(t, "unlock") /\ Unlock(t)
  /\ Proceed(t, IF t = Receiver THEN "handle" ELSE "idle")
  /\ UNCHANGED <<queueVars, buffer, ghostVars, list, quit>>

Work(t) ==
  /\ Runs(t)
  /\ WaitStep(t) \/ NotifyStep(t)
  /\ UNCHANGED <<queueVars, at, buffer, ghostVars, list, quit>>

-----------------------------------------------------------------------------
(***************************************************************************)
(* The game: Skeleton::sendPacket(), do_send().                            *)
(***************************************************************************)

\* try_send() throws before it locks the mutex, and sendPacket() returns false.
RejectSize(s) ==
  /\ InCall(s, "idle") /\ started < MaxPackets /\ started + 1 \in TooLarge
  /\ started' = started + 1
  /\ UNCHANGED <<vars, queueVars, at, buffer, accepted, list, quit>>

SendPacket(s) ==
  /\ InCall(s, "idle") /\ started < MaxPackets /\ started + 1 \notin TooLarge
  /\ started' = started + 1
  /\ buffer' = [buffer EXCEPT ![s] = started + 1]
  /\ Proceed(s, "lock")
  /\ UNCHANGED <<vars, queueVars, accepted, list, quit>>

\* Fault: the early return leaves the mutex locked.
RefuseLocked(s) ==
  /\ InCall(s, "locked") /\ IsFull
  /\ Proceed(s, "idle")
  /\ UNCHANGED <<vars, queueVars, buffer, ghostVars, list, quit>>

\* try_send() returns false: the packet is lost.
Refuse(s) ==
  /\ InCall(s, "locked") /\ IsFull
  /\ Proceed(s, "unlock")
  /\ UNCHANGED <<vars, queueVars, buffer, ghostVars, list, quit>>

\* The message is copied into the first free slot.
FillFreeMsg(s) ==
  /\ InCall(s, "locked") /\ ~IsFull
  /\ data' = [data EXCEPT ![mp_index[m_cur_num_msg]] = buffer[s]]
  /\ Proceed(s, "filled")
  /\ UNCHANGED <<vars, mp_index, m_cur_num_msg, buffer, ghostVars, list, quit>>

\* Fault: the free message stays where it is, and is the next one to be received.
QueueOnTop(s) ==
  /\ InCall(s, "filled")
  /\ m_cur_num_msg' = m_cur_num_msg + 1
  /\ accepted' = Append(accepted, buffer[s])
  /\ Proceed(s, "inserted")
  /\ UNCHANGED <<vars, mp_index, data, buffer, started, list, quit>>

\* Every packet has priority 0, for which lower_bound() finds the beginning: the
\* messages in use move one place up and the new one goes first.
QueueFreeMsg(s) ==
  /\ InCall(s, "filled")
  /\ mp_index' = [i \in Slots |->
       IF i = 0 THEN mp_index[m_cur_num_msg]
       ELSE IF i <= m_cur_num_msg THEN mp_index[i - 1] ELSE mp_index[i]]
  /\ m_cur_num_msg' = m_cur_num_msg + 1
  /\ accepted' = Append(accepted, buffer[s])
  /\ Proceed(s, "inserted")
  /\ UNCHANGED <<vars, data, buffer, started, list, quit>>

\* Fault: the receiver is notified only if the queue was empty, which is asked too
\* late.
NotifyIfEmpty(s) ==
  /\ InCall(s, "inserted")
  /\ IF IsEmpty THEN CallNotify(s, "NOTIFY_ONE") ELSE UNCHANGED vars
  /\ Proceed(s, "unlock")
  /\ UNCHANGED <<queueVars, buffer, ghostVars, list, quit>>

\* m_cond_recv.notify_one(), with the mutex locked.
NotifyReceiver(s) ==
  /\ InCall(s, "inserted")
  /\ CallNotify(s, "NOTIFY_ONE")
  /\ Proceed(s, "unlock")
  /\ UNCHANGED <<queueVars, buffer, ghostVars, list, quit>>

Sending(s) ==
  \/ LockQueue(s) \/ Refuse(s) \/ FillFreeMsg(s) \/ QueueFreeMsg(s) \/ NotifyReceiver(s)
  \/ UnlockQueue(s) \/ Work(s)

-----------------------------------------------------------------------------
(***************************************************************************)
(* IntPe9: packetPoll(), do_receive().                                     *)
(***************************************************************************)

Receive(t) ==
  /\ InCall(t, "idle")
  /\ Proceed(t, "lock")
  /\ UNCHANGED <<vars, queueVars, buffer, ghostVars, list, quit>>

\* m_cond_recv.wait() as long as there is nothing.
WaitForMessage(t) ==
  /\ InCall(t, "locked") /\ IsEmpty
  /\ CallWait(t, "wait")
  /\ UNCHANGED <<queueVars, at, buffer, ghostVars, list, quit>>

CopyTopMsg(t) ==
  /\ InCall(t, "locked") /\ ~IsEmpty
  /\ buffer' = [buffer EXCEPT ![t] = data[mp_index[m_cur_num_msg - 1]]]
  /\ Proceed(t, "copied")
  /\ UNCHANGED <<vars, queueVars, ghostVars, list, quit>>

\* Fault: the message is freed twice.
FreeTopMsgTwice(t) ==
  /\ InCall(t, "copied")
  /\ m_cur_num_msg' = m_cur_num_msg - 2
  /\ Proceed(t, "unlock")
  /\ UNCHANGED <<vars, mp_index, data, buffer, ghostVars, list, quit>>

FreeTopMsg(t) ==
  /\ InCall(t, "copied")
  /\ m_cur_num_msg' = m_cur_num_msg - 1
  /\ Proceed(t, "unlock")
  /\ UNCHANGED <<vars, mp_index, data, buffer, ghostVars, list, quit>>

\* _packets.push_back(). The size that was received is the one that was sent, which
\* is that of the packet, so that packetPoll() does not throw.
ListPacket(t) ==
  /\ InCall(t, "handle")
  /\ list' = Append(list, buffer[t])
  /\ Proceed(t, "idle")
  /\ UNCHANGED <<vars, queueVars, buffer, ghostVars, quit>>

Receiving(t) ==
  \/ Receive(t) \/ LockQueue(t) \/ WaitForMessage(t) \/ CopyTopMsg(t) \/ FreeTopMsg(t)
  \/ UnlockQueue(t) \/ ListPacket(t) \/ Work(t)

\* main() returns: neither ~PacketList() runs nor is a thread asked to stop.
Quit ==
  /\ ~quit /\ quit' = TRUE
  /\ UNCHANGED <<vars, queueVars, at, buffer, ghostVars, list>>

QueueNext ==
  \/ \E s \in Senders : RejectSize(s) \/ SendPacket(s) \/ Sending(s)
  \/ Receiving(Receiver)
  \/ Quit

QueueSpec == QueueInit /\ [][QueueNext]_allVars

\* Threads get their turn, the game's once they have called try_send(). That one of
\* them wins the lock against others is not assumed.
QueueFairSpec ==
  /\ QueueSpec
  /\ \A s \in Senders : WF_allVars(Sending(s))
  /\ WF_allVars(Receiving(Receiver))

-----------------------------------------------------------------------------
(***************************************************************************)
(* Properties.                                                             *)
(***************************************************************************)

\* The packets in the queue, the oldest first, and the one on its way to the list.
InQueue == [i \in 1 .. m_cur_num_msg |-> data[mp_index[m_cur_num_msg - i]]]
OnItsWay == IF at[Receiver] \in {"unlock", "handle"} THEN <<buffer[Receiver]>> ELSE <<>>

\* What try_send() took comes into the list, each packet once, unchanged and in
\* order.
InOrder == accepted = list \o OnItsWay \o InQueue

\* The receiver does not sleep on a message: if there is one, a notification is
\* under way or will be given before the game's thread goes on.
NoLostWakeup ==
  (pc[Receiver] \in Sleeping /\ ~IsEmpty) =>
    m_command # "SLEEP" \/ \E s \in Senders :
      at[s] = "inserted" \/ (at[s] = "unlock" /\ pc[s] \in InNotify)

\* A packet that was taken comes into the list, if the user does not close IntPe9.
Listed == \A p \in Packets : (\E i \in DOMAIN accepted : accepted[i] = p)
                             ~> quit \/ \E i \in DOMAIN list : list[i] = p

\* The thread of IntPe9 has stopped with the mutex, or inside wait(): with the enter
\* mutex, or counted as a waiter that is to take the next notification.
Stranded == quit /\ (Receiver \in holds \/ pc[Receiver] \in InWait \ {"relock"})

\* "instant returns, we can have packet loss but keeping client alive is more
\* important": try_send() returns, whether the queue is full or not, and also when
\* IntPe9 is closed, unless its thread is stopped where it is Stranded. Then the game
\* may wait for ever.
SendReturns == \A s \in Senders : at[s] # "idle" ~> Stranded \/ at[s] = "idle"

=============================================================================
