--------------------------- MODULE SpinCondition ---------------------------
(***************************************************************************)
(* The condition variable between the processes of IntPe9, and the mutex   *)
(* it is used with: spin_condition and spin_mutex of the library that      *)
(* message_queue is built on, in shared memory and made of atomic          *)
(* operations on three words. A step is one of those operations.           *)
(*                                                                         *)
(* m_enter_mut is locked by the thread that notifies, and unlocked by the  *)
(* one that wakes up last: while a notification is under way, threads can  *)
(* neither begin to wait nor notify nor give up.                           *)
(*                                                                         *)
(* Who calls what is the business of the module that extends this one; the *)
(* callers here do anything that the interface allows.                     *)
(***************************************************************************)
EXTENDS Naturals, FiniteSets

CONSTANT Threads

ASSUME ThreadsAssumption == IsFiniteSet(Threads)

VARIABLES
  mutex,        \* m_s of the mutex that callers hold around a wait
  enter,        \* m_s of m_enter_mut
  m_command,    \* the notification under way
  m_num_waiters,
  pc,           \* where in wait() or notify() a thread is; "run" outside
  call,         \* what it called: a command, or a wait, timed or not
  holds         \* threads that took the mutex and have not given it back

spinVars == <<mutex, enter, m_command, m_num_waiters>>
vars == <<mutex, enter, m_command, m_num_waiters, pc, call, holds>>

Commands == {"NOTIFY_ONE", "NOTIFY_ALL"}
Waits == {"wait", "timed_wait"}

\* In wait(): before the enter mutex is taken, with it, and after.
Entering == {"enter"}
Counting == {"count", "unlock", "leave"}
Sleeping == {"asleep", "check"}
Leaving == {"expired", "woken", "woken_all", "last", "unenter"}
InWait == Entering \cup Counting \cup Sleeping \cup Leaving \cup {"relock"}

InNotify == {"notify", "read", "command", "return"}

TypeOK ==
  /\ mutex \in BOOLEAN /\ enter \in BOOLEAN
  /\ m_command \in Commands \cup {"SLEEP"}
  /\ m_num_waiters \in Nat
  /\ pc \in [Threads -> InWait \cup InNotify \cup {"run"}]
  /\ call \in [Threads -> Commands \cup Waits]
  /\ holds \in SUBSET Threads

Init ==
  /\ mutex = FALSE /\ enter = FALSE /\ m_command = "SLEEP" /\ m_num_waiters = 0
  /\ pc = [t \in Threads |-> "run"]
  /\ call = [t \in Threads |-> "wait"]
  /\ holds = {}

At(t, from) == pc[t] = from
GoTo(t, to) == pc' = [pc EXCEPT ![t] = to]

\* spin_mutex::lock(): the exchange that succeeds.
LockMutex(t) ==
  /\ ~mutex /\ mutex' = TRUE
  /\ holds' = holds \cup {t}

\* spin_mutex::unlock().
UnlockMutex(t) ==
  /\ mutex' = FALSE
  /\ holds' = holds \ {t}

-----------------------------------------------------------------------------
(***************************************************************************)
(* do_timed_wait().                                                        *)
(***************************************************************************)

\* lock(m_enter_mut): no notification is under way.
TakeEnter(t) ==
  /\ At(t, "enter")
  /\ ~enter /\ enter' = TRUE
  /\ GoTo(t, "count")
  /\ UNCHANGED <<mutex, m_command, m_num_waiters, call, holds>>

\* The time is up before the wait has begun.
TooLate(t) ==
  /\ At(t, "enter") /\ call[t] = "timed_wait"
  /\ GoTo(t, "run")
  /\ UNCHANGED <<spinVars, call, holds>>

CountWaiter(t) ==
  /\ At(t, "count")
  /\ m_num_waiters' = m_num_waiters + 1
  /\ GoTo(t, "unlock")
  /\ UNCHANGED <<mutex, enter, m_command, call, holds>>

ReleaseMutex(t) ==
  /\ At(t, "unlock")
  /\ UnlockMutex(t)
  /\ GoTo(t, "leave")
  /\ UNCHANGED <<enter, m_command, m_num_waiters, call>>

ReleaseEnter(t) ==
  /\ At(t, "leave")
  /\ enter' = FALSE
  /\ GoTo(t, "asleep")
  /\ UNCHANGED <<mutex, m_command, m_num_waiters, call, holds>>

\* The loop over m_command ends.
SeeCommand(t) ==
  /\ At(t, "asleep") /\ m_command # "SLEEP"
  /\ GoTo(t, "check")
  /\ UNCHANGED <<spinVars, call, holds>>

\* Fault: the time is up, whatever notification is under way.
ExpireAnyway(t) ==
  /\ At(t, "asleep") /\ call[t] = "timed_wait"
  /\ enter' = TRUE
  /\ GoTo(t, "expired")
  /\ UNCHANGED <<mutex, m_command, m_num_waiters, call, holds>>

\* Fault: who gives up stays counted.
ExpireCounted(t) ==
  /\ At(t, "asleep") /\ call[t] = "timed_wait"
  /\ ~enter /\ enter' = TRUE
  /\ GoTo(t, "unenter")
  /\ UNCHANGED <<mutex, m_command, m_num_waiters, call, holds>>

\* The time is up, and try_lock() shows that no notification is under way.
Expire(t) ==
  /\ At(t, "asleep") /\ call[t] = "timed_wait"
  /\ ~enter /\ enter' = TRUE
  /\ GoTo(t, "expired")
  /\ UNCHANGED <<mutex, m_command, m_num_waiters, call, holds>>

\* Fault: the command is read and reset in two steps that are not one.
CheckLeavingIt(t) ==
  /\ At(t, "check")
  /\ \/ /\ m_command = "SLEEP" /\ GoTo(t, "asleep")
     \/ /\ m_command = "NOTIFY_ONE" /\ GoTo(t, "woken")
     \/ /\ m_command = "NOTIFY_ALL" /\ GoTo(t, "woken_all")
  /\ UNCHANGED <<spinVars, call, holds>>

\* The exchange of NOTIFY_ONE by SLEEP: who makes it is the one that wakes.
Check(t) ==
  /\ At(t, "check")
  /\ \/ /\ m_command = "SLEEP"
        /\ GoTo(t, "asleep")
        /\ UNCHANGED m_command
     \/ /\ m_command = "NOTIFY_ONE"
        /\ m_command' = "SLEEP"
        /\ GoTo(t, "woken")
     \/ /\ m_command = "NOTIFY_ALL"
        /\ GoTo(t, "woken_all")
        /\ UNCHANGED m_command
  /\ UNCHANGED <<mutex, enter, m_num_waiters, call, holds>>

\* One notified thread, or one whose time is up, is counted out.
CountOut(t) ==
  /\ pc[t] \in {"woken", "expired"}
  /\ m_num_waiters' = m_num_waiters - 1
  /\ GoTo(t, "unenter")
  /\ UNCHANGED <<mutex, enter, m_command, call, holds>>

\* Fault: the first of all that are notified opens the way for others.
CountOutFirst(t) ==
  /\ At(t, "woken_all")
  /\ m_num_waiters' = m_num_waiters - 1
  /\ GoTo(t, "last")
  /\ UNCHANGED <<mutex, enter, m_command, call, holds>>

\* Fault: of all that are notified each one is counted out twice.
CountOutTwice(t) ==
  /\ At(t, "woken_all")
  /\ m_num_waiters' = m_num_waiters - 1
  /\ GoTo(t, IF m_num_waiters = 1 THEN "last" ELSE "woken")
  /\ UNCHANGED <<mutex, enter, m_command, call, holds>>

\* Of all that are notified the last one closes the notification.
CountOutAll(t) ==
  /\ At(t, "woken_all")
  /\ m_num_waiters' = m_num_waiters - 1
  /\ GoTo(t, IF m_num_waiters = 1 THEN "last" ELSE "relock")
  /\ UNCHANGED <<mutex, enter, m_command, call, holds>>

ResetCommand(t) ==
  /\ At(t, "last")
  /\ m_command' = IF m_command = "NOTIFY_ALL" THEN "SLEEP" ELSE m_command
  /\ GoTo(t, "unenter")
  /\ UNCHANGED <<mutex, enter, m_num_waiters, call, holds>>

UnlockEnter(t) ==
  /\ At(t, "unenter")
  /\ enter' = FALSE
  /\ GoTo(t, "relock")
  /\ UNCHANGED <<mutex, m_command, m_num_waiters, call, holds>>

\* Fault: the caller goes on without its mutex.
RelockNothing(t) ==
  /\ At(t, "relock")
  /\ holds' = holds \cup {t}
  /\ GoTo(t, "run")
  /\ UNCHANGED <<spinVars, call>>

Relock(t) ==
  /\ At(t, "relock")
  /\ LockMutex(t)
  /\ GoTo(t, "run")
  /\ UNCHANGED <<enter, m_command, m_num_waiters, call>>

WaitStep(t) ==
  \/ TakeEnter(t) \/ TooLate(t) \/ CountWaiter(t) \/ ReleaseMutex(t) \/ ReleaseEnter(t)
  \/ SeeCommand(t) \/ Expire(t) \/ Check(t) \/ CountOut(t) \/ CountOutAll(t)
  \/ ResetCommand(t) \/ UnlockEnter(t) \/ Relock(t)

-----------------------------------------------------------------------------
(***************************************************************************)
(* notify().                                                               *)
(***************************************************************************)

NotifyEnter(t) ==
  /\ At(t, "notify")
  /\ ~enter /\ enter' = TRUE
  /\ GoTo(t, "read")
  /\ UNCHANGED <<mutex, m_command, m_num_waiters, call, holds>>

ReadWaiters(t) ==
  /\ At(t, "read")
  /\ GoTo(t, IF m_num_waiters = 0 THEN "return" ELSE "command")
  /\ UNCHANGED <<spinVars, call, holds>>

\* The enter mutex stays locked.
GiveCommand(t) ==
  /\ At(t, "command") /\ m_command = "SLEEP"
  /\ m_command' = call[t]
  /\ GoTo(t, "run")
  /\ UNCHANGED <<mutex, enter, m_num_waiters, call, holds>>

NobodyWaits(t) ==
  /\ At(t, "return")
  /\ enter' = FALSE
  /\ GoTo(t, "run")
  /\ UNCHANGED <<mutex, m_command, m_num_waiters, call, holds>>

NotifyStep(t) == NotifyEnter(t) \/ ReadWaiters(t) \/ GiveCommand(t) \/ NobodyWaits(t)

-----------------------------------------------------------------------------
(***************************************************************************)
(* The callers.                                                            *)
(***************************************************************************)

Lock(t) ==
  /\ At(t, "run") /\ t \notin holds
  /\ LockMutex(t)
  /\ UNCHANGED <<enter, m_command, m_num_waiters, pc, call>>

Unlock(t) ==
  /\ At(t, "run") /\ t \in holds
  /\ UnlockMutex(t)
  /\ UNCHANGED <<enter, m_command, m_num_waiters, pc, call>>

\* wait() needs the mutex.
CallWait(t, how) ==
  /\ At(t, "run") /\ t \in holds
  /\ call' = [call EXCEPT ![t] = how]
  /\ GoTo(t, "enter")
  /\ UNCHANGED <<spinVars, holds>>

\* notify_one() and notify_all() do not.
CallNotify(t, command) ==
  /\ At(t, "run")
  /\ call' = [call EXCEPT ![t] = command]
  /\ GoTo(t, "notify")
  /\ UNCHANGED <<spinVars, holds>>

Caller(t) ==
  \/ Lock(t) \/ Unlock(t)
  \/ \E how \in Waits : CallWait(t, how)
  \/ \E command \in Commands : CallNotify(t, command)

Next == \E t \in Threads : WaitStep(t) \/ NotifyStep(t) \/ Caller(t)

Spec == Init /\ [][Next]_vars

\* A thread that has something to do in wait() or notify() gets to do it; that
\* it wins a lock others compete for is not assumed.
FairSpec == Spec /\ \A t \in Threads : WF_vars(WaitStep(t) \/ NotifyStep(t))

-----------------------------------------------------------------------------
(***************************************************************************)
(* Properties.                                                             *)
(***************************************************************************)

\* The threads that count as waiters, and those at work with the enter mutex.
Waiters == {t \in Threads : pc[t] \in {"unlock", "leave"} \cup Sleeping
                                      \cup {"expired", "woken", "woken_all"}}
EnterOwners == {t \in Threads : pc[t] \in Counting \cup {"expired", "woken", "last", "unenter"}
                                          \cup {"read", "command", "return"}}

\* At most one thread is between lock() and unlock(), also when wait() gives the
\* mutex back and takes it again.
MutualExclusion ==
  /\ \A t, u \in holds : t = u
  /\ mutex <=> holds # {}

\* The enter mutex, locked by one thread and unlocked by another, is locked as
\* long as one of them works under it or a notification is under way, has never
\* two of them, and is not unlocked twice.
EnterMutex ==
  /\ \A t, u \in EnterOwners : t = u
  /\ m_command # "SLEEP" => \A t \in EnterOwners : pc[t] = "last"
  /\ enter <=> EnterOwners # {} \/ m_command # "SLEEP"

\* m_num_waiters counts the threads that can take a notification.
CountsWaiters == m_num_waiters = Cardinality(Waiters)

\* A notification that was given finds a thread to wake.
NotificationTaken == m_command # "SLEEP" ~> m_command = "SLEEP"

\* Who has been counted and has not taken a notification is asleep.
Asleep == {t \in Threads : pc[t] \in {"unlock", "leave", "asleep", "check"}
                           \/ pc[t] = "expired" \/ pc[t] = "woken_all"}

\* A notification to all is over when the last one has been counted out.
Due == IF m_command = "NOTIFY_ALL" /\ Asleep = {} THEN "SLEEP" ELSE m_command

Contract == INSTANCE ConditionContract WITH asleep <- Asleep, due <- Due

\* spin_condition implements ConditionContract.
ImplementsConditionContract == Contract!Spec

=============================================================================
