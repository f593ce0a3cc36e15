------------------------- MODULE PacketQueueProofs -------------------------
(***************************************************************************)
(* What spin_condition and its mutex promise to any number of threads, and *)
(* with them the queue between the game and IntPe9, for queues of any      *)
(* length and any number of packets, wherever IntPe9 is closed.            *)
(***************************************************************************)
EXTENDS PacketQueue, FiniteSetTheorems, SequenceTheorems, TLAPS

-----------------------------------------------------------------------------
(***************************************************************************)
(* spin_condition. The properties hold together or not at all: that a      *)
(* thread is the only one at work under the enter mutex depends on whether *)
(* a notification is under way; that one of several threads that are       *)
(* notified closes the notification depends on the count of waiters; and   *)
(* the count is right because only one thread at a time changes it, but    *)
(* for those that a notification to all has woken. Places says what the    *)
(* place of a thread tells of the rest; with it they are inductive (Inv).  *)
(***************************************************************************)

Places ==
  \A t \in Threads :
    /\ pc[t] \in {"enter", "count", "unlock"} => t \in holds
    /\ pc[t] = "woken_all" => m_command = "NOTIFY_ALL"
    /\ pc[t] = "last" => m_command = "NOTIFY_ALL" /\ m_num_waiters = 0
    /\ pc[t] = "command" => m_num_waiters # 0
    /\ pc[t] \in InNotify => call[t] \in Commands

Inv == TypeOK /\ MutualExclusion /\ EnterMutex /\ CountsWaiters /\ Places

\* The waiters are a finite set, and there are none of them if none is counted.
LEMMA WaitersFinite ==
  /\ IsFiniteSet(Waiters)
  /\ CountsWaiters => (m_num_waiters = 0 <=> Waiters = {})
<1>1. Waiters \subseteq Threads
  BY DEF Waiters
<1>2. IsFiniteSet(Waiters)
  BY <1>1, ThreadsAssumption, FS_Subset
<1> QED
  BY <1>2, FS_EmptySet DEF CountsWaiters

\* The count stays right when one thread joins the waiters, leaves them, or
\* neither.
LEMMA CountChanges ==
  ASSUME CountsWaiters, TypeOK, NEW t \in Threads,
         \/ t \notin Waiters /\ Waiters' = Waiters \cup {t} /\ m_num_waiters' = m_num_waiters + 1
         \/ t \in Waiters /\ Waiters' = Waiters \ {t} /\ m_num_waiters' = m_num_waiters - 1
         \/ Waiters' = Waiters /\ m_num_waiters' = m_num_waiters
  PROVE  CountsWaiters' /\ m_num_waiters' \in Nat
<1>1. IsFiniteSet(Waiters) /\ Cardinality(Waiters) \in Nat
  BY WaitersFinite, FS_CardinalityType
<1>2. CASE t \notin Waiters /\ Waiters' = Waiters \cup {t} /\ m_num_waiters' = m_num_waiters + 1
  BY <1>1, <1>2, FS_AddElement, SMTT(30) DEF CountsWaiters
<1>3. CASE t \in Waiters /\ Waiters' = Waiters \ {t} /\ m_num_waiters' = m_num_waiters - 1
  <2>1. Cardinality(Waiters') = Cardinality(Waiters) - 1 /\ Cardinality(Waiters') \in Nat
    BY <1>1, <1>3, FS_RemoveElement, FS_CardinalityType
  <2> QED
    BY <1>3, <2>1 DEF CountsWaiters
<1>4. CASE Waiters' = Waiters /\ m_num_waiters' = m_num_waiters
  BY <1>1, <1>4 DEF CountsWaiters
<1> QED
  BY <1>2, <1>3, <1>4

LEMMA InitInv == Init => Inv
<1> SUFFICES ASSUME Init PROVE Inv
  OBVIOUS
<1>1. Waiters = {} /\ EnterOwners = {}
  BY DEF Init, Waiters, EnterOwners, Sleeping, Counting
<1>2. TypeOK
  BY DEF Init, TypeOK, InWait, Entering, Counting, Sleeping, Leaving, InNotify, Commands, Waits
<1>3. MutualExclusion
  BY DEF Init, MutualExclusion
<1>4. EnterMutex
  BY <1>1 DEF Init, EnterMutex
<1>5. Places
  BY DEF Init, Places, InNotify
<1> QED
  BY <1>1, <1>2, <1>3, <1>4, <1>5, FS_EmptySet DEF Inv, CountsWaiters, Init

\* What a step of a thread that moves from one place to another does to the sets
\* of waiters and owners.
LEMMA Move ==
  ASSUME TypeOK, NEW t \in Threads, NEW to, GoTo(t, to)
  PROVE  /\ pc'[t] = to /\ \A u \in Threads \ {t} : pc'[u] = pc[u]
         /\ Waiters' = IF to \in {"unlock", "leave"} \cup Sleeping
                                 \cup {"expired", "woken", "woken_all"}
                         THEN Waiters \cup {t} ELSE Waiters \ {t}
         /\ EnterOwners' = IF to \in Counting \cup {"expired", "woken", "last", "unenter"}
                                     \cup {"read", "command", "return"}
                             THEN EnterOwners \cup {t} ELSE EnterOwners \ {t}
         /\ Asleep' = IF to \in {"unlock", "leave", "asleep", "check"} \cup {"expired", "woken_all"}
                        THEN Asleep \cup {t} ELSE Asleep \ {t}
<1>1. pc'[t] = to /\ \A u \in Threads \ {t} : pc'[u] = pc[u]
  BY DEF TypeOK, GoTo
<1> QED
  BY <1>1 DEF Waiters, EnterOwners, Asleep

LEMMA TakeEnterInv ==
  ASSUME Inv, NEW t \in Threads, TakeEnter(t)
  PROVE  Inv'
<1> USE DEF Inv, TakeEnter, At, spinVars, InWait, Entering, Counting, Sleeping, Leaving, InNotify, Commands, Waits
<1>1. TypeOK'
  BY DEF TypeOK, GoTo, LockMutex, UnlockMutex
<1>2. MutualExclusion'
  BY DEF MutualExclusion, Places, LockMutex, UnlockMutex
<1>3. EnterMutex'
  BY Move DEF EnterMutex, EnterOwners, Places, TypeOK
<1>4. CountsWaiters'
  BY Move, CountChanges DEF Waiters, TypeOK
<1>5. Places'
  BY Move DEF Places, TypeOK
<1> QED
  BY <1>1, <1>2, <1>3, <1>4, <1>5

LEMMA TooLateInv ==
  ASSUME Inv, NEW t \in Threads, TooLate(t)
  PROVE  Inv'
<1> USE DEF Inv, TooLate, At, spinVars, InWait, Entering, Counting, Sleeping, Leaving, InNotify, Commands, Waits
<1>1. TypeOK'
  BY DEF TypeOK, GoTo, LockMutex, UnlockMutex
<1>2. MutualExclusion'
  BY DEF MutualExclusion, Places, LockMutex, UnlockMutex
<1>3. EnterMutex'
  BY Move DEF EnterMutex, EnterOwners, Places, TypeOK
<1>4. CountsWaiters'
  BY Move, CountChanges DEF Waiters, TypeOK
<1>5. Places'
  BY Move DEF Places, TypeOK
<1> QED
  BY <1>1, <1>2, <1>3, <1>4, <1>5

LEMMA CountWaiterInv ==
  ASSUME Inv, NEW t \in Threads, CountWaiter(t)
  PROVE  Inv'
<1> USE DEF Inv, CountWaiter, At, spinVars, InWait, Entering, Counting, Sleeping, Leaving, InNotify, Commands, Waits
<1>1. TypeOK'
  BY DEF TypeOK, GoTo, LockMutex, UnlockMutex
<1>2. MutualExclusion'
  BY DEF MutualExclusion, Places, LockMutex, UnlockMutex
<1>3. EnterMutex'
  BY Move DEF EnterMutex, EnterOwners, Places, TypeOK
<1>4. CountsWaiters'
  BY Move, CountChanges DEF Waiters, TypeOK
<1>5. Places'
  BY Move DEF Places, TypeOK, EnterMutex, EnterOwners
<1> QED
  BY <1>1, <1>2, <1>3, <1>4, <1>5

LEMMA ReleaseMutexInv ==
  ASSUME Inv, NEW t \in Threads, ReleaseMutex(t)
  PROVE  Inv'
<1> USE DEF Inv, ReleaseMutex, At, spinVars, InWait, Entering, Counting, Sleeping, Leaving, InNotify, Commands, Waits
<1>1. TypeOK'
  BY DEF TypeOK, GoTo, LockMutex, UnlockMutex
<1>2. MutualExclusion'
  BY DEF MutualExclusion, Places, LockMutex, UnlockMutex
<1>3. EnterMutex'
  BY Move DEF EnterMutex, EnterOwners, Places, TypeOK
<1>4. CountsWaiters'
  BY Move, CountChanges DEF Waiters, TypeOK
<1>5. Places'
  BY Move DEF Places, TypeOK, MutualExclusion, UnlockMutex
<1> QED
  BY <1>1, <1>2, <1>3, <1>4, <1>5

LEMMA ReleaseEnterInv ==
  ASSUME Inv, NEW t \in Threads, ReleaseEnter(t)
  PROVE  Inv'
<1> USE DEF Inv, ReleaseEnter, At, spinVars, InWait, Entering, Counting, Sleeping, Leaving, InNotify, Commands, Waits
<1>1. TypeOK'
  BY DEF TypeOK, GoTo, LockMutex, UnlockMutex
<1>2. MutualExclusion'
  BY DEF MutualExclusion, Places, LockMutex, UnlockMutex
<1>3. EnterMutex'
  BY Move DEF EnterMutex, EnterOwners, Places, TypeOK
<1>4. CountsWaiters'
  BY Move, CountChanges DEF Waiters, TypeOK
<1>5. Places'
  BY Move DEF Places, TypeOK
<1> QED
  BY <1>1, <1>2, <1>3, <1>4, <1>5

LEMMA SeeCommandInv ==
  ASSUME Inv, NEW t \in Threads, SeeCommand(t)
  PROVE  Inv'
<1> USE DEF Inv, SeeCommand, At, spinVars, InWait, Entering, Counting, Sleeping, Leaving, InNotify, Commands, Waits
<1>1. TypeOK'
  BY DEF TypeOK, GoTo, LockMutex, UnlockMutex
<1>2. MutualExclusion'
  BY DEF MutualExclusion, Places, LockMutex, UnlockMutex
<1>3. EnterMutex'
  BY Move DEF EnterMutex, EnterOwners, Places, TypeOK
<1>4. CountsWaiters'
  BY Move, CountChanges DEF Waiters, TypeOK
<1>5. Places'
  BY Move DEF Places, TypeOK
<1> QED
  BY <1>1, <1>2, <1>3, <1>4, <1>5

LEMMA ExpireInv ==
  ASSUME Inv, NEW t \in Threads, Expire(t)
  PROVE  Inv'
<1> USE DEF Inv, Expire, At, spinVars, InWait, Entering, Counting, Sleeping, Leaving, InNotify, Commands, Waits
<1>1. TypeOK'
  BY DEF TypeOK, GoTo, LockMutex, UnlockMutex
<1>2. MutualExclusion'
  BY DEF MutualExclusion, Places, LockMutex, UnlockMutex
<1>3. EnterMutex'
  BY Move DEF EnterMutex, EnterOwners, Places, TypeOK
<1>4. CountsWaiters'
  BY Move, CountChanges DEF Waiters, TypeOK
<1>5. Places'
  BY Move DEF Places, TypeOK
<1> QED
  BY <1>1, <1>2, <1>3, <1>4, <1>5

LEMMA CheckInv ==
  ASSUME Inv, NEW t \in Threads, Check(t)
  PROVE  Inv'
<1> USE DEF Inv, Check, At, spinVars, InWait, Entering, Counting, Sleeping, Leaving, InNotify, Commands, Waits
<1>1. TypeOK'
  BY DEF TypeOK, GoTo, LockMutex, UnlockMutex
<1>2. MutualExclusion'
  BY DEF MutualExclusion, Places, LockMutex, UnlockMutex
<1>3. EnterMutex'
  BY Move DEF EnterMutex, EnterOwners, Places, TypeOK
<1>4. CountsWaiters'
  BY Move, CountChanges DEF Waiters, TypeOK
<1>5. Places'
  BY Move DEF Places, TypeOK
<1> QED
  BY <1>1, <1>2, <1>3, <1>4, <1>5

LEMMA CountOutInv ==
  ASSUME Inv, NEW t \in Threads, CountOut(t)
  PROVE  Inv'
<1> USE DEF Inv, CountOut, At, spinVars, InWait, Entering, Counting, Sleeping, Leaving, InNotify, Commands, Waits
<1>2. MutualExclusion'
  BY DEF MutualExclusion, Places, LockMutex, UnlockMutex
<1>3. EnterMutex'
  BY Move DEF EnterMutex, EnterOwners, Places, TypeOK
<1>4. CountsWaiters' /\ m_num_waiters' \in Nat
  BY Move, CountChanges DEF Waiters, TypeOK
<1>1. TypeOK'
  BY <1>4 DEF TypeOK, GoTo
<1>5. Places'
  BY Move DEF Places, TypeOK, EnterMutex, EnterOwners
<1> QED
  BY <1>1, <1>2, <1>3, <1>4, <1>5

LEMMA CountOutAllInv ==
  ASSUME Inv, NEW t \in Threads, CountOutAll(t)
  PROVE  Inv'
<1> USE DEF Inv, CountOutAll, At, spinVars, InWait, Entering, Counting, Sleeping, Leaving, InNotify, Commands, Waits
<1>2. MutualExclusion'
  BY DEF MutualExclusion, Places, LockMutex, UnlockMutex
<1>3. EnterMutex'
  BY Move DEF EnterMutex, EnterOwners, Places, TypeOK
<1>4. CountsWaiters' /\ m_num_waiters' \in Nat
  BY Move, CountChanges DEF Waiters, TypeOK
<1>1. TypeOK'
  BY <1>4 DEF TypeOK, GoTo
<1>5. Places'
  <2>1. \A u \in Threads : pc[u] \notin {"last", "command"}
    BY WaitersFinite DEF Places, Waiters, EnterMutex, EnterOwners
  <2> QED
    BY <2>1, Move DEF Places, TypeOK
<1> QED
  BY <1>1, <1>2, <1>3, <1>4, <1>5

LEMMA ResetCommandInv ==
  ASSUME Inv, NEW t \in Threads, ResetCommand(t)
  PROVE  Inv'
<1> USE DEF Inv, ResetCommand, At, spinVars, InWait, Entering, Counting, Sleeping, Leaving, InNotify, Commands, Waits
<1>1. TypeOK'
  BY DEF TypeOK, GoTo, LockMutex, UnlockMutex
<1>2. MutualExclusion'
  BY DEF MutualExclusion, Places, LockMutex, UnlockMutex
<1>3. EnterMutex'
  BY Move DEF EnterMutex, EnterOwners, Places, TypeOK
<1>4. CountsWaiters'
  BY Move, CountChanges DEF Waiters, TypeOK
<1>5. Places'
  <2>1. \A u \in Threads : pc[u] # "woken_all"
    BY WaitersFinite DEF Places, Waiters
  <2> QED
    BY <2>1, Move DEF Places, TypeOK, EnterMutex, EnterOwners
<1> QED
  BY <1>1, <1>2, <1>3, <1>4, <1>5

LEMMA UnlockEnterInv ==
  ASSUME Inv, NEW t \in Threads, UnlockEnter(t)
  PROVE  Inv'
<1> USE DEF Inv, UnlockEnter, At, spinVars, InWait, Entering, Counting, Sleeping, Leaving, InNotify, Commands, Waits
<1>1. TypeOK'
  BY DEF TypeOK, GoTo, LockMutex, UnlockMutex
<1>2. MutualExclusion'
  BY DEF MutualExclusion, Places, LockMutex, UnlockMutex
<1>3. EnterMutex'
  BY Move DEF EnterMutex, EnterOwners, Places, TypeOK
<1>4. CountsWaiters'
  BY Move, CountChanges DEF Waiters, TypeOK
<1>5. Places'
  BY Move DEF Places, TypeOK
<1> QED
  BY <1>1, <1>2, <1>3, <1>4, <1>5

LEMMA RelockInv ==
  ASSUME Inv, NEW t \in Threads, Relock(t)
  PROVE  Inv'
<1> USE DEF Inv, Relock, At, spinVars, InWait, Entering, Counting, Sleeping, Leaving, InNotify, Commands, Waits
<1>1. TypeOK'
  BY DEF TypeOK, GoTo, LockMutex, UnlockMutex
<1>2. MutualExclusion'
  BY DEF MutualExclusion, Places, LockMutex, UnlockMutex
<1>3. EnterMutex'
  BY Move DEF EnterMutex, EnterOwners, Places, TypeOK
<1>4. CountsWaiters'
  BY Move, CountChanges DEF Waiters, TypeOK
<1>5. Places'
  BY Move DEF Places, TypeOK, LockMutex
<1> QED
  BY <1>1, <1>2, <1>3, <1>4, <1>5

LEMMA NotifyEnterInv ==
  ASSUME Inv, NEW t \in Threads, NotifyEnter(t)
  PROVE  Inv'
<1> USE DEF Inv, NotifyEnter, At, spinVars, InWait, Entering, Counting, Sleeping, Leaving, InNotify, Commands, Waits
<1>1. TypeOK'
  BY DEF TypeOK, GoTo, LockMutex, UnlockMutex
<1>2. MutualExclusion'
  BY DEF MutualExclusion, Places, LockMutex, UnlockMutex
<1>3. EnterMutex'
  BY Move DEF EnterMutex, EnterOwners, Places, TypeOK
<1>4. CountsWaiters'
  BY Move, CountChanges DEF Waiters, TypeOK
<1>5. Places'
  BY Move DEF Places, TypeOK
<1> QED
  BY <1>1, <1>2, <1>3, <1>4, <1>5

LEMMA ReadWaitersInv ==
  ASSUME Inv, NEW t \in Threads, ReadWaiters(t)
  PROVE  Inv'
<1> USE DEF Inv, ReadWaiters, At, spinVars, InWait, Entering, Counting, Sleeping, Leaving, InNotify, Commands, Waits
<1>1. TypeOK'
  BY DEF TypeOK, GoTo, LockMutex, UnlockMutex
<1>2. MutualExclusion'
  BY DEF MutualExclusion, Places, LockMutex, UnlockMutex
<1>3. EnterMutex'
  BY Move DEF EnterMutex, EnterOwners, Places, TypeOK
<1>4. CountsWaiters'
  BY Move, CountChanges DEF Waiters, TypeOK
<1>5. Places'
  BY Move DEF Places, TypeOK
<1> QED
  BY <1>1, <1>2, <1>3, <1>4, <1>5

LEMMA GiveCommandInv ==
  ASSUME Inv, NEW t \in Threads, GiveCommand(t)
  PROVE  Inv'
<1> USE DEF Inv, GiveCommand, At, spinVars, InWait, Entering, Counting, Sleeping, Leaving, InNotify, Commands, Waits
<1>1. TypeOK'
  BY DEF TypeOK, GoTo, Places
<1>2. MutualExclusion'
  BY DEF MutualExclusion, Places, LockMutex, UnlockMutex
<1>3. EnterMutex'
  BY Move DEF EnterMutex, EnterOwners, Places, TypeOK
<1>4. CountsWaiters'
  BY Move, CountChanges DEF Waiters, TypeOK
<1>5. Places'
  BY Move DEF Places, TypeOK
<1> QED
  BY <1>1, <1>2, <1>3, <1>4, <1>5

LEMMA NobodyWaitsInv ==
  ASSUME Inv, NEW t \in Threads, NobodyWaits(t)
  PROVE  Inv'
<1> USE DEF Inv, NobodyWaits, At, spinVars, InWait, Entering, Counting, Sleeping, Leaving, InNotify, Commands, Waits
<1>1. TypeOK'
  BY DEF TypeOK, GoTo, LockMutex, UnlockMutex
<1>2. MutualExclusion'
  BY DEF MutualExclusion, Places, LockMutex, UnlockMutex
<1>3. EnterMutex'
  BY Move DEF EnterMutex, EnterOwners, Places, TypeOK
<1>4. CountsWaiters'
  BY Move, CountChanges DEF Waiters, TypeOK
<1>5. Places'
  BY Move DEF Places, TypeOK
<1> QED
  BY <1>1, <1>2, <1>3, <1>4, <1>5

LEMMA LockInv ==
  ASSUME Inv, NEW t \in Threads, Lock(t)
  PROVE  Inv'
<1> USE DEF Inv, Lock, At, LockMutex
<1>1. TypeOK' /\ Places'
  BY DEF TypeOK, Places
<1>2. MutualExclusion'
  BY DEF MutualExclusion
<1>3. EnterMutex' /\ CountsWaiters'
  BY DEF EnterMutex, EnterOwners, CountsWaiters, Waiters
<1> QED
  BY <1>1, <1>2, <1>3

\* A thread that unlocks is not in wait(), and no other one holds the mutex.
LEMMA UnlockInv ==
  ASSUME Inv, NEW t \in Threads, Unlock(t)
  PROVE  Inv'
<1> USE DEF Inv, Unlock, At, UnlockMutex
<1>1. TypeOK'
  BY DEF TypeOK
<1>2. MutualExclusion'
  BY DEF MutualExclusion
<1>3. EnterMutex' /\ CountsWaiters'
  BY DEF EnterMutex, EnterOwners, CountsWaiters, Waiters
<1>4. Places'
  BY DEF Places, MutualExclusion, TypeOK
<1> QED
  BY <1>1, <1>2, <1>3, <1>4

LEMMA CallWaitInv ==
  ASSUME Inv, NEW t \in Threads, NEW how \in Waits, CallWait(t, how)
  PROVE  Inv'
<1> USE DEF Inv, CallWait, At, spinVars, InWait, Entering, Counting, Sleeping, Leaving, InNotify, Commands, Waits
<1>1. TypeOK'
  BY DEF TypeOK, GoTo
<1>2. MutualExclusion'
  BY DEF MutualExclusion
<1>3. EnterMutex'
  BY Move DEF EnterMutex, EnterOwners, Places, TypeOK
<1>4. CountsWaiters'
  BY Move, CountChanges DEF Waiters, TypeOK
<1>5. Places'
  BY Move DEF Places, TypeOK
<1> QED
  BY <1>1, <1>2, <1>3, <1>4, <1>5

LEMMA CallNotifyInv ==
  ASSUME Inv, NEW t \in Threads, NEW command \in Commands, CallNotify(t, command)
  PROVE  Inv'
<1> USE DEF Inv, CallNotify, At, spinVars, InWait, Entering, Counting, Sleeping, Leaving, InNotify, Commands, Waits
<1>1. TypeOK'
  BY DEF TypeOK, GoTo
<1>2. MutualExclusion'
  BY DEF MutualExclusion
<1>3. EnterMutex'
  BY Move DEF EnterMutex, EnterOwners, Places, TypeOK
<1>4. CountsWaiters'
  BY Move, CountChanges DEF Waiters, TypeOK
<1>5. Places'
  BY Move DEF Places, TypeOK
<1> QED
  BY <1>1, <1>2, <1>3, <1>4, <1>5

LEMMA NextInv == Inv /\ [Next]_vars => Inv'
<1> SUFFICES ASSUME Inv, [Next]_vars PROVE Inv'
  OBVIOUS
<1>1. ASSUME NEW t \in Threads, WaitStep(t) PROVE Inv'
  BY <1>1, TakeEnterInv, TooLateInv, CountWaiterInv, ReleaseMutexInv, ReleaseEnterInv,
     SeeCommandInv, ExpireInv, CheckInv, CountOutInv, CountOutAllInv, ResetCommandInv,
     UnlockEnterInv, RelockInv DEF WaitStep
<1>2. ASSUME NEW t \in Threads, NotifyStep(t) PROVE Inv'
  BY <1>2, NotifyEnterInv, ReadWaitersInv, GiveCommandInv, NobodyWaitsInv DEF NotifyStep
<1>3. ASSUME NEW t \in Threads, Caller(t) PROVE Inv'
  BY <1>3, LockInv, UnlockInv, CallWaitInv, CallNotifyInv DEF Caller
<1>4. CASE UNCHANGED vars
  BY <1>4 DEF vars, Inv, TypeOK, MutualExclusion, EnterMutex, EnterOwners, CountsWaiters, Waiters, Places
<1> QED
  BY <1>1, <1>2, <1>3, <1>4 DEF Next

LEMMA SpecInv == Spec => []Inv
<1> QED
  BY InitInv, NextInv, PTL DEF Spec

\* Every word and every thread of spin_condition is in one of its states; the
\* count of waiters is never below zero.
THEOREM ConditionTypeCorrect == Spec => []TypeOK
<1>1. Inv => TypeOK
  BY DEF Inv
<1> QED
  BY <1>1, SpecInv, PTL

\* The mutex around a wait is held by at most one thread.
THEOREM MutualExclusionTheorem == Spec => []MutualExclusion
<1>1. Inv => MutualExclusion
  BY DEF Inv
<1> QED
  BY <1>1, SpecInv, PTL

\* m_enter_mut, which one thread locks and another unlocks, is a lock.
THEOREM EnterMutexTheorem == Spec => []EnterMutex
<1>1. Inv => EnterMutex
  BY DEF Inv
<1> QED
  BY <1>1, SpecInv, PTL

\* m_num_waiters is the number of threads that can take a notification.
THEOREM CountsWaitersTheorem == Spec => []CountsWaiters
<1>1. Inv => CountsWaiters
  BY DEF Inv
<1> QED
  BY <1>1, SpecInv, PTL

-----------------------------------------------------------------------------

\* Sleepers count as waiters; who takes a notification to one is no longer one.
LEMMA SleepersWait ==
  /\ Asleep \subseteq Waiters
  /\ \A t \in Waiters \ Asleep : pc[t] = "woken"
BY DEF Asleep, Waiters, Sleeping

\* A thread at work in wait() or notify() takes a step of a condition variable,
\* or one that does not show.
LEMMA StepImplements ==
  ASSUME Inv, NEW t \in Threads, WaitStep(t) \/ NotifyStep(t) \/ Caller(t)
  PROVE  [Contract!Next]_(Contract!vars)
<1> DEFINE Same == Asleep' = Asleep /\ m_command' = m_command
<1> USE DEF Inv, At, spinVars, InWait, Entering, Counting, Sleeping, Leaving, InNotify, Commands, Waits
<1>0. Same => UNCHANGED Contract!vars
  BY DEF Due, Contract!vars
<1>1. CASE CountWaiter(t)
  <2>1. m_command = "SLEEP" /\ m_command' = "SLEEP" /\ t \notin Asleep
    BY <1>1 DEF CountWaiter, EnterMutex, EnterOwners, Asleep
  <2>2. Asleep' = Asleep \cup {t}
    BY <1>1, Move DEF CountWaiter
  <2>3. Contract!Sleep(t)
    BY <2>1, <2>2 DEF Contract!Sleep, Due
  <2> QED
    BY <2>3 DEF Contract!Next
<1>2. CASE Check(t)
  <2>1. CASE m_command = "NOTIFY_ONE" /\ m_command' = "SLEEP" /\ GoTo(t, "woken")
    <3>1. Asleep' = Asleep \ {t} /\ t \in Asleep
      BY <1>2, <2>1, Move DEF Check, Asleep
    <3>2. Contract!Wake(t)
      BY <2>1, <3>1 DEF Contract!Wake, Due
    <3> QED
      BY <3>2 DEF Contract!Next
  <2>2. CASE m_command' = m_command /\ (GoTo(t, "asleep") \/ GoTo(t, "woken_all"))
    <3>1. t \in Asleep
      BY <1>2 DEF Check, Asleep
    <3>2. Same
      BY <2>2, <3>1, Move
    <3> QED
      BY <1>0, <3>2
  <2> QED
    BY <1>2, <2>1, <2>2 DEF Check
<1>3. CASE CountOut(t)
  <2>1. CASE pc[t] = "woken"
    <3>1. Same
      BY <1>3, <2>1, Move DEF CountOut, Asleep
    <3> QED
      BY <1>0, <3>1
  <2>2. CASE pc[t] = "expired"
    <3>1. m_command = "SLEEP" /\ m_command' = "SLEEP"
      BY <1>3, <2>2 DEF CountOut, EnterMutex, EnterOwners
    <3>2. t \in Asleep /\ Asleep' = Asleep \ {t}
      BY <1>3, <2>2, Move DEF CountOut, Asleep
    <3>3. Contract!GiveUp(t)
      BY <3>1, <3>2 DEF Contract!GiveUp, Due
    <3> QED
      BY <3>3 DEF Contract!Next
  <2> QED
    BY <1>3, <2>1, <2>2 DEF CountOut
<1>4. CASE CountOutAll(t)
  <2>1. m_command = "NOTIFY_ALL" /\ m_command' = "NOTIFY_ALL" /\ t \in Asleep
    BY <1>4 DEF CountOutAll, Places, Asleep
  <2>2. Asleep' = Asleep \ {t}
    <3>1. CASE GoTo(t, "last")
      BY <3>1, Move
    <3>2. CASE GoTo(t, "relock")
      BY <3>2, Move
    <3> QED
      BY <1>4, <3>1, <3>2 DEF CountOutAll
  <2>3. Contract!Wake(t)
    BY <2>1, <2>2 DEF Contract!Wake, Due
  <2> QED
    BY <2>3 DEF Contract!Next
<1>5. CASE ResetCommand(t)
  <2>1. m_command = "NOTIFY_ALL" /\ m_command' = "SLEEP" /\ Asleep = {}
    BY <1>5, WaitersFinite, SleepersWait DEF ResetCommand, Places
  <2>2. Asleep' = Asleep
    BY <1>5, Move, <2>1 DEF ResetCommand
  <2> QED
    BY <2>1, <2>2 DEF Due, Contract!vars
<1>6. CASE GiveCommand(t)
  <2>1. m_command = "SLEEP" /\ m_command' \in {"NOTIFY_ONE", "NOTIFY_ALL"}
    BY <1>6 DEF GiveCommand, Places
  <2>2. Asleep # {}
    <3>1. Waiters # {}
      BY <1>6, WaitersFinite DEF GiveCommand, Places
    <3>2. \A u \in Threads : pc[u] # "woken"
      BY <1>6 DEF GiveCommand, EnterMutex, EnterOwners
    <3> QED
      BY <3>1, <3>2, SleepersWait DEF Waiters
  <2>3. Asleep' = Asleep
    BY <1>6, Move DEF GiveCommand, Asleep
  <2>4. Contract!Notify(m_command')
    BY <2>1, <2>2, <2>3 DEF Contract!Notify, Due
  <2> QED
    BY <2>1, <2>4 DEF Contract!Next
<1>7. CASE TakeEnter(t) \/ TooLate(t) \/ ReleaseMutex(t) \/ ReleaseEnter(t) \/ SeeCommand(t)
  BY <1>0, <1>7, Move DEF TakeEnter, TooLate, ReleaseMutex, ReleaseEnter, SeeCommand, Asleep
<1>8. CASE Expire(t) \/ UnlockEnter(t) \/ Relock(t)
  BY <1>0, <1>8, Move DEF Expire, UnlockEnter, Relock, Asleep
<1>9. CASE NotifyEnter(t) \/ ReadWaiters(t) \/ NobodyWaits(t)
  <2>1. CASE ReadWaiters(t)
    BY <1>0, <2>1, Move DEF ReadWaiters, Asleep
  <2> QED
    BY <1>0, <1>9, <2>1, Move DEF NotifyEnter, NobodyWaits, Asleep
<1>10. CASE Caller(t)
  <2>1. CASE Lock(t) \/ Unlock(t)
    BY <1>0, <2>1 DEF Lock, Unlock, Asleep
  <2>2. ASSUME NEW how \in Waits, CallWait(t, how) PROVE Same
    BY <2>2, Move DEF CallWait, Asleep
  <2>3. ASSUME NEW command \in Commands, CallNotify(t, command) PROVE Same
    BY <2>3, Move DEF CallNotify, Asleep
  <2> QED
    BY <1>0, <1>10, <2>1, <2>2, <2>3 DEF Caller
<1> QED
  BY <1>1, <1>2, <1>3, <1>4, <1>5, <1>6, <1>7, <1>8, <1>9, <1>10 DEF WaitStep, NotifyStep

\* spin_condition is a condition variable: a notification wakes those who slept
\* when it was given, and nobody else, whatever number of threads wait, notify
\* and give up at the same time.
THEOREM ConditionRefinement == Spec => ImplementsConditionContract
<1>1. Init => Contract!Init
  <2>1. Init => Asleep = {}
    BY DEF Init, Asleep
  <2> QED
    BY <2>1 DEF Init, Due, Contract!Init
<1>2. Inv /\ [Next]_vars => [Contract!Next]_(Contract!vars)
  <2>1. CASE UNCHANGED vars
    BY <2>1 DEF vars, Asleep, Due, Contract!vars
  <2> QED
    BY <2>1, StepImplements DEF Next
<1> QED
  BY <1>1, <1>2, SpecInv, PTL DEF Spec, ImplementsConditionContract, Contract!Spec

-----------------------------------------------------------------------------
(***************************************************************************)
(* message_queue. Every step of the queue is one that the callers of       *)
(* spin_condition may make, so that Inv holds here. With it QInv says who  *)
(* is where with the mutex (Positions), what the slots and the local       *)
(* copies hold at each place (Contents), and what is known of the receiver *)
(* from before it sleeps until it is woken (Wakes).                        *)
(***************************************************************************)

Outside == {"idle", "lock", "handle"}
Inside == {"locked", "filled", "inserted", "copied", "unlock"}

\* A thread has the mutex from lock() to unlock(); only the receiver waits, only
\* the others notify.
Positions ==
  /\ \A t \in Threads :
       /\ at[t] \in Outside => pc[t] = "run" /\ t \notin holds
       /\ at[t] \in Inside /\ pc[t] = "run" => t \in holds
       /\ at[t] \in {"filled", "inserted", "copied"} => pc[t] = "run"
  /\ \A s \in Senders :
       /\ at[s] \notin {"copied", "handle"}
       /\ pc[s] # "run" => pc[s] \in InNotify /\ at[s] = "unlock" /\ s \in holds
  /\ at[Receiver] \notin {"filled", "inserted"}
  /\ pc[Receiver] # "run" => pc[Receiver] \in InWait /\ at[Receiver] = "locked"

\* The messages in use hold packets. A slot that was filled is the first free one,
\* and what was copied is the oldest message, as long as the mutex is held.
Contents ==
  /\ \A i \in Slots : i < m_cur_num_msg => data[mp_index[i]] \in Packets
  /\ \A s \in Senders :
       /\ at[s] # "idle" => buffer[s] \in Packets
       /\ at[s] = "filled" => m_cur_num_msg < MaxMsg /\ data[mp_index[m_cur_num_msg]] = buffer[s]
  /\ at[Receiver] = "copied" =>
       m_cur_num_msg > 0 /\ buffer[Receiver] = data[mp_index[m_cur_num_msg - 1]]
  /\ at[Receiver] \in {"unlock", "handle"} => buffer[Receiver] \in Packets

\* A thread of the game that has still to notify.
ToNotify(s) == at[s] = "inserted" \/ (at[s] = "unlock" /\ pc[s] \in InNotify)

\* Nobody begins to wait while a notifier, who has the enter mutex, finds no waiter.
\* The receiver begins to wait, with both mutexes, when the queue is empty; when it
\* has given back the first, a message may come, but its notifier waits for the
\* second.
Wakes ==
  /\ \A s \in Senders : pc[s] \in InNotify => call[s] = "NOTIFY_ONE"
  /\ m_command # "NOTIFY_ALL"
  /\ \A s \in Senders : pc[s] = "return" => m_num_waiters = 0
  /\ pc[Receiver] \in {"enter", "count", "unlock"} => IsEmpty
  /\ pc[Receiver] \in {"leave"} \cup Sleeping /\ ~IsEmpty =>
       m_command # "SLEEP" \/ \E s \in Senders : ToNotify(s)

QInv == Inv /\ QueueTypeOK /\ Positions /\ Contents /\ Wakes /\ InOrder

-----------------------------------------------------------------------------
(***************************************************************************)
(* The queue as a caller of the condition variable.                        *)
(***************************************************************************)

LEMMA ThreadsOfQueue ==
  /\ Receiver \in Threads /\ Receiver \notin Senders
  /\ Threads = Senders \cup {Receiver}
BY QueueAssumption DEF Senders

\* Each step is one of a caller, or leaves the condition variable alone.
LEMMA StepOfCallers == QueueNext => [Next]_vars
<1> SUFFICES ASSUME QueueNext PROVE [Next]_vars
  OBVIOUS
<1>1. ASSUME NEW t \in Threads, LockQueue(t) \/ UnlockQueue(t) \/ Work(t)
      PROVE  Next
  BY <1>1 DEF LockQueue, UnlockQueue, Work, Next, Caller
<1>2. ASSUME NEW s \in Senders, RejectSize(s) \/ SendPacket(s) \/ Refuse(s)
                             \/ FillFreeMsg(s) \/ QueueFreeMsg(s)
      PROVE  UNCHANGED vars
  BY <1>2 DEF RejectSize, SendPacket, Refuse, FillFreeMsg, QueueFreeMsg
<1>3. ASSUME NEW s \in Senders, NotifyReceiver(s)
      PROVE  Next
  <2>1. CallNotify(s, "NOTIFY_ONE") /\ "NOTIFY_ONE" \in Commands
    BY <1>3 DEF NotifyReceiver, Commands
  <2> QED
    BY <2>1, ThreadsOfQueue DEF Next, Caller
<1>4. CASE Receive(Receiver) \/ CopyTopMsg(Receiver) \/ FreeTopMsg(Receiver) \/ ListPacket(Receiver) \/ Quit
  BY <1>4 DEF Receive, CopyTopMsg, FreeTopMsg, ListPacket, Quit
<1>5. CASE WaitForMessage(Receiver)
  <2>1. CallWait(Receiver, "wait") /\ "wait" \in Waits
    BY <1>5 DEF WaitForMessage, Waits
  <2> QED
    BY <2>1, ThreadsOfQueue DEF Next, Caller
<1> QED
  BY <1>1, <1>2, <1>3, <1>4, <1>5, ThreadsOfQueue DEF QueueNext, Sending, Receiving

\* What PacketQueue has of spin_condition behaves as SpinCondition says.
LEMMA QueueSpins == QueueSpec => Spec
<1>1. QueueInit => Init
  BY DEF QueueInit
<1>2. [QueueNext]_allVars => [Next]_vars
  BY StepOfCallers DEF allVars
<1> QED
  BY <1>1, <1>2, PTL DEF QueueSpec, Spec

\* A step of the condition variable keeps its invariant.
LEMMA SpinInv == QInv /\ [QueueNext]_allVars => Inv'
BY StepOfCallers, NextInv DEF QInv, allVars

-----------------------------------------------------------------------------
(***************************************************************************)
(* The messages in the queue.                                              *)
(***************************************************************************)

LEMMA QueueIsSeq ==
  ASSUME QueueTypeOK, Contents
  PROVE  /\ InQueue \in Seq(Packets) /\ Len(InQueue) = m_cur_num_msg
         /\ m_cur_num_msg \in Nat
         /\ \A i \in 1 .. m_cur_num_msg : InQueue[i] = data[mp_index[m_cur_num_msg - i]]
<1>1. m_cur_num_msg \in Nat /\ m_cur_num_msg <= MaxMsg /\ MaxMsg \in Nat
  BY QueueAssumption DEF QueueTypeOK
<1>2. \A i \in 1 .. m_cur_num_msg : data[mp_index[m_cur_num_msg - i]] \in Packets
  BY <1>1 DEF Contents, Slots
<1> QED
  BY <1>1, <1>2 DEF InQueue

LEMMA OnItsWayIsSeq ==
  ASSUME Contents
  PROVE  OnItsWay \in Seq(Packets)
BY DEF Contents, OnItsWay

\* The new message is the last to be received.
LEMMA MessageAdded ==
  ASSUME QInv, NEW s \in Senders, QueueFreeMsg(s)
  PROVE  /\ mp_index' \in [Slots -> Slots]
         /\ \A i, j \in Slots : mp_index'[i] = mp_index'[j] => i = j
         /\ m_cur_num_msg' \in 0 .. MaxMsg
         /\ \A i \in Slots : i < m_cur_num_msg' => data[mp_index'[i]] \in Packets
         /\ InQueue' = Append(InQueue, buffer[s])
<1> DEFINE n == m_cur_num_msg
<1>1. n \in Nat /\ n < MaxMsg /\ MaxMsg \in Nat
  BY QueueAssumption DEF QInv, QueueTypeOK, Contents, QueueFreeMsg, InCall
<1>2. /\ mp_index \in [Slots -> Slots]
      /\ \A i, j \in Slots : mp_index[i] = mp_index[j] => i = j
  BY DEF QInv, QueueTypeOK
<1>3. /\ mp_index' = [i \in Slots |-> IF i = 0 THEN mp_index[n]
                                      ELSE IF i <= n THEN mp_index[i - 1] ELSE mp_index[i]]
      /\ m_cur_num_msg' = n + 1 /\ data' = data
  BY DEF QueueFreeMsg
<1>4. n \in Slots /\ \A i \in Slots : i # 0 => i - 1 \in Slots
  BY <1>1 DEF Slots
<1>5. mp_index' \in [Slots -> Slots]
  BY <1>2, <1>3, <1>4
<1>6. \A i, j \in Slots : mp_index'[i] = mp_index'[j] => i = j
  <2> SUFFICES ASSUME NEW i \in Slots, NEW j \in Slots, mp_index'[i] = mp_index'[j]
               PROVE  i = j
    OBVIOUS
  <2> DEFINE from(k) == IF k = 0 THEN n ELSE IF k <= n THEN k - 1 ELSE k
  <2>1. from(i) \in Slots /\ from(j) \in Slots
    BY <1>4
  <2>2. mp_index'[i] = mp_index[from(i)] /\ mp_index'[j] = mp_index[from(j)]
    BY <1>3
  <2>3. from(i) = from(j)
    BY <1>2, <2>1, <2>2
  <2> QED
    BY <1>1, <2>3 DEF Slots
<1>7. /\ mp_index'[0] = mp_index[n]
      /\ \A i \in Slots : 0 < i /\ i <= n => mp_index'[i] = mp_index[i - 1]
  BY <1>1, <1>3 DEF Slots
<1>8. data[mp_index[n]] = buffer[s] /\ buffer[s] \in Packets
  BY DEF QInv, Contents, QueueFreeMsg, InCall
<1>9. \A i \in Slots : i < n + 1 => data[mp_index'[i]] \in Packets
  <2>1. \A i \in Slots : 0 < i /\ i <= n => data[mp_index[i - 1]] \in Packets
    BY <1>1, <1>4 DEF QInv, Contents, Slots
  <2> QED
    BY <1>1, <1>7, <1>8, <2>1 DEF Slots
<1>10. InQueue' = Append(InQueue, buffer[s])
  <2>1. /\ InQueue \in Seq(Packets) /\ Len(InQueue) = n
        /\ \A i \in 1 .. n : InQueue[i] = data[mp_index[n - i]]
    BY QueueIsSeq DEF QInv
  <2>2. InQueue' = [i \in 1 .. m_cur_num_msg' |-> data'[mp_index'[m_cur_num_msg' - i]]]
    BY DEF InQueue
  <2>3. \A i \in 1 .. n : data[mp_index'[n + 1 - i]] = data[mp_index[n - i]]
    <3> SUFFICES ASSUME NEW i \in 1 .. n PROVE data[mp_index'[n + 1 - i]] = data[mp_index[n - i]]
      OBVIOUS
    <3>1. n + 1 - i \in Slots /\ 0 < n + 1 - i /\ n + 1 - i <= n /\ (n + 1 - i) - 1 = n - i
      BY <1>1 DEF Slots
    <3> QED
      BY <1>7, <3>1
  <2>4. \A i \in 1 .. n : data[mp_index'[n + 1 - i]] = InQueue[i] /\ InQueue[i] \in Packets
    BY <2>1, <2>3
  <2>5. \A i \in 1 .. n + 1 : i \in 1 .. n \/ (i = n + 1 /\ n + 1 - i = 0)
    BY <1>1
  <2>6. \A i \in 1 .. n + 1 :
          data[mp_index'[n + 1 - i]] = (IF i \in 1 .. n THEN InQueue[i] ELSE buffer[s])
    BY <1>7, <1>8, <2>4, <2>5
  <2>7. /\ InQueue' \in Seq(Packets) /\ Len(InQueue') = n + 1
        /\ \A i \in 1 .. n : InQueue'[i] = InQueue[i]
        /\ InQueue'[n + 1] = buffer[s]
    <3>1. m_cur_num_msg' = n + 1 /\ n + 1 \in Nat /\ data' = data
      BY <1>1, <1>3
    <3>2. \A i \in 1 .. n + 1 :
            data'[mp_index'[m_cur_num_msg' - i]] = (IF i \in 1 .. n THEN InQueue[i] ELSE buffer[s])
      BY <1>1, <2>6, <3>1
    <3>3. \A i \in 1 .. n + 1 : data'[mp_index'[m_cur_num_msg' - i]] \in Packets
      BY <1>8, <2>4, <3>2
    <3>4. InQueue' \in Seq(Packets) /\ Len(InQueue') = n + 1
      BY <2>2, <3>1, <3>3
    <3>5. \A i \in 1 .. n + 1 : InQueue'[i] = (IF i \in 1 .. n THEN InQueue[i] ELSE buffer[s])
      BY <2>2, <3>1, <3>2
    <3>6. n + 1 \in 1 .. n + 1 /\ n + 1 \notin 1 .. n /\ \A i \in 1 .. n : i \in 1 .. n + 1
      BY <1>1
    <3> QED
      BY <3>4, <3>5, <3>6
  <2>8. /\ Append(InQueue, buffer[s]) \in Seq(Packets)
        /\ Len(Append(InQueue, buffer[s])) = n + 1
        /\ \A i \in 1 .. n : Append(InQueue, buffer[s])[i] = InQueue[i]
        /\ Append(InQueue, buffer[s])[n + 1] = buffer[s]
    BY <1>8, <2>1, AppendProperties
  <2>9. \A i \in 1 .. Len(InQueue') : InQueue'[i] = Append(InQueue, buffer[s])[i]
    BY <2>5, <2>7, <2>8
  <2> QED
    BY <2>7, <2>8, <2>9, SeqEqual
<1> QED
  BY <1>1, <1>3, <1>5, <1>6, <1>9, <1>10

\* The oldest message is taken away, and the others stay.
LEMMA MessageRemoved ==
  ASSUME QInv, FreeTopMsg(Receiver)
  PROVE  InQueue \in Seq(Packets) /\ InQueue # <<>>
         /\ buffer[Receiver] = Head(InQueue) /\ InQueue' = Tail(InQueue)
<1> DEFINE n == m_cur_num_msg
<1>1. /\ InQueue \in Seq(Packets) /\ Len(InQueue) = n /\ n \in Nat
      /\ \A i \in 1 .. n : InQueue[i] = data[mp_index[n - i]]
  BY QueueIsSeq DEF QInv
<1>2. n > 0 /\ buffer[Receiver] = data[mp_index[n - 1]]
  BY DEF QInv, Contents, FreeTopMsg, InCall
<1>3. m_cur_num_msg' = n - 1 /\ data' = data /\ mp_index' = mp_index
  BY DEF FreeTopMsg
<1>4. InQueue' = [i \in 1 .. m_cur_num_msg' |-> data'[mp_index'[m_cur_num_msg' - i]]]
  BY DEF InQueue
<1>5. \A i \in 1 .. n - 1 : data[mp_index[n - 1 - i]] = InQueue[i + 1] /\ InQueue[i + 1] \in Packets
  <2> SUFFICES ASSUME NEW i \in 1 .. n - 1
               PROVE  data[mp_index[n - 1 - i]] = InQueue[i + 1] /\ InQueue[i + 1] \in Packets
    OBVIOUS
  <2>1. i + 1 \in 1 .. n /\ n - (i + 1) = n - 1 - i
    BY <1>1
  <2> QED
    BY <1>1, <2>1
<1>6. /\ InQueue' \in Seq(Packets) /\ Len(InQueue') = n - 1
      /\ \A i \in 1 .. n - 1 : InQueue'[i] = InQueue[i + 1]
  BY <1>1, <1>2, <1>3, <1>4, <1>5
<1>7. Head(InQueue) = InQueue[1] /\ InQueue # <<>>
  BY <1>1, <1>2
<1>8. /\ Tail(InQueue) \in Seq(Packets) /\ Len(Tail(InQueue)) = n - 1
      /\ \A i \in 1 .. n - 1 : Tail(InQueue)[i] = InQueue[i + 1]
  BY <1>1, <1>7, HeadTailProperties
<1>9. InQueue' = Tail(InQueue)
  BY <1>6, <1>8, SeqEqual
<1>10. 1 \in 1 .. n
  BY <1>1, <1>2
<1> QED
  BY <1>1, <1>2, <1>7, <1>9, <1>10

-----------------------------------------------------------------------------
(***************************************************************************)
(* The steps.                                                              *)
(***************************************************************************)

\* Only one thread works on the queue.
LEMMA OneInside ==
  ASSUME QInv, NEW t \in Threads, NEW u \in Threads,
         at[t] \in Inside, pc[t] = "run",
         \/ at[u] \in Inside /\ pc[u] = "run"
         \/ u \in Senders /\ pc[u] # "run"
         \/ pc[u] \in {"enter", "count", "unlock"}
  PROVE  t = u
<1>1. t \in holds /\ u \in holds
  BY DEF QInv, Positions, Inv, Places
<1> QED
  BY <1>1 DEF QInv, Inv, MutualExclusion

LEMMA OrderStays ==
  ASSUME QInv, UNCHANGED <<accepted, list, queueVars>>, OnItsWay' = OnItsWay
  PROVE  InOrder'
<1>1. InQueue' = InQueue
  BY DEF InQueue, queueVars
<1> QED
  BY <1>1 DEF QInv, InOrder

\* How a packet passes from the queue into the list.
LEMMA HeadOnItsWay ==
  ASSUME NEW S, NEW a \in Seq(S), NEW q \in Seq(S), q # <<>>
  PROVE  a \o <<>> \o q = a \o <<Head(q)>> \o Tail(q)
<1>1. Head(q) \in S /\ Tail(q) \in Seq(S) /\ Len(Tail(q)) = Len(q) - 1
      /\ \A i \in 1 .. Len(Tail(q)) : Tail(q)[i] = q[i + 1]
  BY HeadTailProperties
<1>2. <<Head(q)>> \in Seq(S) /\ Head(q) = q[1] /\ Len(q) \in Nat /\ Len(q) > 0
  BY <1>1
<1>3. /\ <<Head(q)>> \o Tail(q) \in Seq(S)
      /\ Len(<<Head(q)>> \o Tail(q)) = Len(q)
      /\ \A i \in 1 .. Len(q) : (<<Head(q)>> \o Tail(q))[i] = q[i]
  BY <1>1, <1>2, ConcatProperties
<1>4. <<Head(q)>> \o Tail(q) = q
  BY <1>3, SeqEqual
<1> QED
  BY <1>1, <1>2, <1>4, ConcatAssociative, ConcatEmptySeq, SMTT(30)

LEMMA ArrivedAtEnd ==
  ASSUME NEW S, NEW a \in Seq(S), NEW q \in Seq(S), NEW x \in S
  PROVE  Append(a, x) \o <<>> \o q = a \o <<x>> \o q
<1>1. Append(a, x) \in Seq(S) /\ Append(a, x) = a \o <<x>>
  BY AppendProperties, AppendIsConcat
<1> QED
  BY <1>1, ConcatEmptySeq

LEMMA QueueInitInv == QueueInit => QInv
<1> SUFFICES ASSUME QueueInit PROVE QInv
  OBVIOUS
<1>1. Inv
  BY InitInv DEF QueueInit
<1>2. QueueTypeOK
  <2>1. 0 \in 0 .. MaxMsg /\ 0 \in 0 .. MaxPackets
    BY QueueAssumption
  <2>2. /\ mp_index \in [Slots -> Slots] /\ \A i, j \in Slots : mp_index[i] = mp_index[j] => i = j
        /\ data \in [Slots -> Packets \cup {0}] /\ buffer \in [Threads -> Packets \cup {0}]
    BY DEF QueueInit
  <2>3. accepted \in Seq(Packets) /\ list \in Seq(Packets)
    BY DEF QueueInit
  <2> QED
    BY <1>1, <2>1, <2>2, <2>3 DEF QueueInit, QueueTypeOK, Inv
<1>3. Positions
  BY ThreadsOfQueue DEF QueueInit, Init, Positions, Outside, Inside
<1>4. Contents
  BY ThreadsOfQueue DEF QueueInit, Contents
<1>5. Wakes
  BY ThreadsOfQueue DEF QueueInit, Init, Wakes, InNotify, Sleeping
<1>6. InOrder
  <2>1. InQueue = <<>> /\ OnItsWay = <<>>
    BY ThreadsOfQueue DEF QueueInit, InQueue, OnItsWay
  <2> QED
    BY <2>1 DEF QueueInit, InOrder
<1> QED
  BY <1>1, <1>2, <1>3, <1>4, <1>5, <1>6 DEF QInv

\* A packet that is not taken for its size.
LEMMA RejectSizeInv ==
  ASSUME QInv, Inv', NEW s \in Senders, RejectSize(s)
  PROVE  QInv'
<1> USE DEF RejectSize, QInv
<1>0. started + 1 \in 0 .. MaxPackets
  BY QueueAssumption DEF QueueTypeOK
<1>1. QueueTypeOK' /\ Contents'
  BY <1>0 DEF QueueTypeOK, Inv, Contents, queueVars
<1>2. Positions' /\ Wakes'
  BY DEF Positions, Wakes, ToNotify, IsEmpty, vars, queueVars
<1>3. InOrder'
  BY OrderStays DEF OnItsWay
<1> QED
  BY <1>1, <1>2, <1>3

\* A packet of the game.
LEMMA SendPacketInv ==
  ASSUME QInv, Inv', NEW s \in Senders, SendPacket(s)
  PROVE  QInv'
<1> USE DEF SendPacket, InCall, At, Proceed, QInv
<1>0. started + 1 \in Packets /\ started + 1 \in 0 .. MaxPackets
  BY QueueAssumption DEF QueueTypeOK, Packets
<1>1. QueueTypeOK'
  BY <1>0, ThreadsOfQueue DEF QueueTypeOK, Inv, queueVars
<1>2. Positions'
  BY ThreadsOfQueue DEF Positions, QueueTypeOK, Inside, Outside, vars, InNotify
<1>3. Contents'
  BY <1>0, ThreadsOfQueue DEF Contents, QueueTypeOK, queueVars
<1>4. Wakes'
  BY ThreadsOfQueue DEF Wakes, ToNotify, IsEmpty, QueueTypeOK, vars, queueVars, InNotify
<1>5. InOrder'
  BY OrderStays, ThreadsOfQueue DEF OnItsWay, ghostVars
<1> QED
  BY <1>1, <1>2, <1>3, <1>4, <1>5

\* A packet for which there is no room.
LEMMA RefuseInv ==
  ASSUME QInv, Inv', NEW s \in Senders, Refuse(s)
  PROVE  QInv'
<1> USE DEF Refuse, InCall, At, Proceed, QInv
<1>1. QueueTypeOK'
  BY ThreadsOfQueue DEF QueueTypeOK, Inv, queueVars, ghostVars, Packets
<1>2. Positions'
  BY ThreadsOfQueue DEF Positions, QueueTypeOK, Inside, Outside, vars, InNotify
<1>3. Contents'
  BY ThreadsOfQueue DEF Contents, QueueTypeOK, queueVars, ghostVars, Packets
<1>4. Wakes'
  BY ThreadsOfQueue DEF Wakes, ToNotify, IsEmpty, QueueTypeOK, vars, queueVars, InNotify
<1>5. InOrder'
  BY OrderStays, ThreadsOfQueue DEF OnItsWay, ghostVars
<1> QED
  BY <1>1, <1>2, <1>3, <1>4, <1>5

\* The slot that is filled is none of those in use.
LEMMA FillFreeMsgInv ==
  ASSUME QInv, Inv', NEW s \in Senders, FillFreeMsg(s)
  PROVE  QInv'
<1> USE DEF FillFreeMsg, InCall, At, Proceed, QInv
<1>0. /\ m_cur_num_msg \in Slots /\ m_cur_num_msg < MaxMsg /\ m_cur_num_msg \in Nat
      /\ \A i \in Slots : i < m_cur_num_msg => data'[mp_index[i]] = data[mp_index[i]]
      /\ data'[mp_index[m_cur_num_msg]] = buffer[s]
  <2>1. m_cur_num_msg \in Slots /\ m_cur_num_msg < MaxMsg /\ m_cur_num_msg \in Nat
    BY QueueAssumption DEF QueueTypeOK, IsFull, Slots
  <2>2. \A i \in Slots : i < m_cur_num_msg => mp_index[i] # mp_index[m_cur_num_msg]
    BY <2>1 DEF QueueTypeOK
  <2> QED
    BY <2>1, <2>2 DEF QueueTypeOK
<1>1. QueueTypeOK'
  BY ThreadsOfQueue DEF QueueTypeOK, Inv, queueVars, ghostVars, Packets
<1>2. Positions'
  BY ThreadsOfQueue DEF Positions, QueueTypeOK, Inside, Outside, vars, InNotify
<1>3. Contents'
  <2>1. \A t \in Threads : at[t] \in {"filled", "copied"} => t = s
    BY OneInside, ThreadsOfQueue DEF Positions, Inside
  <2>2. at[Receiver] # "copied" /\ \A t \in Senders : at'[t] = "filled" => t = s
    BY <2>1, ThreadsOfQueue DEF QueueTypeOK
  <2> QED
    BY <1>0, <2>2, ThreadsOfQueue DEF Contents, QueueTypeOK
<1>4. Wakes'
  BY ThreadsOfQueue DEF Wakes, ToNotify, IsEmpty, QueueTypeOK, vars, queueVars, InNotify
<1>5. InOrder'
  <2>1. \A i \in 1 .. m_cur_num_msg : m_cur_num_msg - i \in Slots /\ m_cur_num_msg - i < m_cur_num_msg
    BY <1>0, QueueAssumption DEF Slots
  <2>2. \A i \in 1 .. m_cur_num_msg :
          data'[mp_index[m_cur_num_msg - i]] = data[mp_index[m_cur_num_msg - i]]
    BY <1>0, <2>1
  <2>3. InQueue' = [i \in 1 .. m_cur_num_msg |-> data'[mp_index[m_cur_num_msg - i]]]
    BY DEF InQueue
  <2>4. InQueue' = InQueue
    BY <2>2, <2>3 DEF InQueue
  <2> QED
    BY <2>4, ThreadsOfQueue DEF InOrder, OnItsWay, QueueTypeOK, ghostVars
<1> QED
  BY <1>1, <1>2, <1>3, <1>4, <1>5

\* The message is in the queue, and the receiver is to be notified.
LEMMA QueueFreeMsgInv ==
  ASSUME QInv, Inv', NEW s \in Senders, QueueFreeMsg(s)
  PROVE  QInv'
<1> USE DEF QueueFreeMsg, InCall, At, Proceed, QInv
<1>0. s \in Threads /\ buffer[s] \in Packets
  BY ThreadsOfQueue DEF Contents
<1>1. QueueTypeOK'
  <2>1. accepted' \in Seq(Packets)
    BY <1>0, AppendProperties DEF QueueTypeOK
  <2> QED
    BY <1>0, <2>1, MessageAdded DEF QueueTypeOK, Inv
<1>2. Positions'
  BY ThreadsOfQueue DEF Positions, QueueTypeOK, Inside, Outside, vars, InNotify
<1>3. Contents'
  <2>1. \A t \in Threads : at[t] \in {"filled", "copied"} => t = s
    BY <1>0, OneInside DEF Positions, Inside
  <2>2. at'[Receiver] # "copied" /\ \A t \in Senders : at'[t] # "filled"
    BY <1>0, <2>1, ThreadsOfQueue DEF QueueTypeOK
  <2> QED
    BY <2>2, MessageAdded, ThreadsOfQueue DEF Contents, QueueTypeOK
<1>4. Wakes'
  <2>1. pc[Receiver] \notin {"enter", "count", "unlock"}
    BY <1>0, OneInside, ThreadsOfQueue DEF Inside
  <2>2. ToNotify(s)'
    BY <1>0 DEF ToNotify, QueueTypeOK
  <2> QED
    BY <2>1, <2>2 DEF Wakes, vars
<1>5. InOrder'
  <2>1. InQueue' = Append(InQueue, buffer[s])
    BY MessageAdded
  <2>2. OnItsWay' = OnItsWay
    BY <1>0, ThreadsOfQueue DEF OnItsWay, QueueTypeOK
  <2>3. InQueue \in Seq(Packets) /\ OnItsWay \in Seq(Packets) /\ list \in Seq(Packets)
    BY QueueIsSeq, OnItsWayIsSeq DEF QueueTypeOK
  <2>4. Append(list \o OnItsWay \o InQueue, buffer[s]) = list \o OnItsWay \o Append(InQueue, buffer[s])
    <3>1. <<buffer[s]>> \in Seq(Packets) /\ list \o OnItsWay \in Seq(Packets)
          /\ list \o OnItsWay \o InQueue \in Seq(Packets)
      BY <1>0, <2>3, ConcatProperties
    <3>2. Append(list \o OnItsWay \o InQueue, buffer[s]) = (list \o OnItsWay \o InQueue) \o <<buffer[s]>>
      BY <1>0, <3>1, AppendIsConcat
    <3>3. Append(InQueue, buffer[s]) = InQueue \o <<buffer[s]>>
      BY <1>0, <2>3, AppendIsConcat
    <3>4. (list \o OnItsWay \o InQueue) \o <<buffer[s]>> = list \o OnItsWay \o (InQueue \o <<buffer[s]>>)
      BY ONLY <2>3, <3>1, ConcatAssociative, SMTT(30)
    <3> QED
      BY ONLY <3>2, <3>3, <3>4
  <2> QED
    BY <2>1, <2>2, <2>4 DEF InOrder
<1> QED
  BY <1>1, <1>2, <1>3, <1>4, <1>5

\* The receiver begins.
LEMMA ReceiveInv ==
  ASSUME QInv, Inv', Receive(Receiver)
  PROVE  QInv'
<1> USE DEF Receive, InCall, At, Proceed, QInv
<1>1. QueueTypeOK'
  BY ThreadsOfQueue DEF QueueTypeOK, Inv, queueVars, ghostVars, Packets
<1>2. Positions'
  BY ThreadsOfQueue DEF Positions, QueueTypeOK, Inside, Outside, vars, InNotify
<1>3. Contents'
  BY ThreadsOfQueue DEF Contents, QueueTypeOK, queueVars, ghostVars, Packets
<1>4. Wakes'
  BY ThreadsOfQueue DEF Wakes, ToNotify, IsEmpty, QueueTypeOK, vars, queueVars, InNotify
<1>5. InOrder'
  BY OrderStays, ThreadsOfQueue DEF OnItsWay, ghostVars
<1> QED
  BY <1>1, <1>2, <1>3, <1>4, <1>5

\* The message that is copied is the oldest.
LEMMA CopyTopMsgInv ==
  ASSUME QInv, Inv', CopyTopMsg(Receiver)
  PROVE  QInv'
<1> USE DEF CopyTopMsg, InCall, At, Proceed, QInv
<1>0. /\ m_cur_num_msg \in Nat /\ m_cur_num_msg > 0
      /\ data[mp_index[m_cur_num_msg - 1]] \in Packets
  <2>1. m_cur_num_msg \in Nat /\ m_cur_num_msg > 0 /\ m_cur_num_msg - 1 \in Slots
    BY QueueAssumption DEF QueueTypeOK, IsEmpty, Slots
  <2> QED
    BY <2>1 DEF Contents
<1>1. QueueTypeOK'
  BY <1>0, ThreadsOfQueue DEF QueueTypeOK, Inv, queueVars, ghostVars
<1>2. Positions'
  BY ThreadsOfQueue DEF Positions, QueueTypeOK, Inside, Outside, vars, InNotify
<1>3. Contents'
  BY <1>0, ThreadsOfQueue DEF Contents, QueueTypeOK, queueVars
<1>4. Wakes'
  BY ThreadsOfQueue DEF Wakes, ToNotify, IsEmpty, QueueTypeOK, vars, queueVars, InNotify
<1>5. InOrder'
  BY OrderStays, ThreadsOfQueue DEF OnItsWay, ghostVars
<1> QED
  BY <1>1, <1>2, <1>3, <1>4, <1>5

\* It leaves the queue, and is on its way.
LEMMA FreeTopMsgInv ==
  ASSUME QInv, Inv', FreeTopMsg(Receiver)
  PROVE  QInv'
<1> USE DEF FreeTopMsg, InCall, At, Proceed, QInv
<1>0. m_cur_num_msg \in Nat /\ m_cur_num_msg > 0 /\ m_cur_num_msg - 1 \in 0 .. MaxMsg
  BY QueueAssumption DEF QueueTypeOK, Contents
<1>1. QueueTypeOK'
  BY <1>0, ThreadsOfQueue DEF QueueTypeOK, Inv, ghostVars
<1>2. Positions'
  BY ThreadsOfQueue DEF Positions, QueueTypeOK, Inside, Outside, vars, InNotify
<1>3. Contents'
  <2>1. buffer[Receiver] \in Packets
    <3>1. m_cur_num_msg - 1 \in Slots
      BY <1>0, QueueAssumption DEF QueueTypeOK, Slots
    <3> QED
      BY <1>0, <3>1 DEF Contents
  <2>2. \A t \in Senders : at[t] # "filled"
    BY OneInside, ThreadsOfQueue DEF Positions, Inside
  <2>3. \A i \in Slots : i < m_cur_num_msg - 1 => i < m_cur_num_msg
    BY <1>0 DEF Slots
  <2> QED
    BY <2>1, <2>2, <2>3, ThreadsOfQueue DEF Contents, QueueTypeOK
<1>4. Wakes'
  BY DEF Wakes, vars, Sleeping
<1>5. InOrder'
  <2>1. OnItsWay = <<>> /\ OnItsWay' = <<Head(InQueue)>>
    BY ThreadsOfQueue, MessageRemoved DEF OnItsWay, QueueTypeOK
  <2>2. InQueue' = Tail(InQueue) /\ InQueue \in Seq(Packets) /\ InQueue # <<>>
    BY MessageRemoved
  <2>3. list \in Seq(Packets) /\ accepted' = accepted /\ list' = list
    BY DEF QueueTypeOK, ghostVars
  <2>4. list \o <<>> \o InQueue = list \o <<Head(InQueue)>> \o Tail(InQueue)
    BY <2>2, <2>3, HeadOnItsWay
  <2> QED
    BY <2>1, <2>2, <2>3, <2>4 DEF InOrder
<1> QED
  BY <1>1, <1>2, <1>3, <1>4, <1>5

\* It arrives.
LEMMA ListPacketInv ==
  ASSUME QInv, Inv', ListPacket(Receiver)
  PROVE  QInv'
<1> USE DEF ListPacket, InCall, At, Proceed, QInv
<1>0. buffer[Receiver] \in Packets
  BY DEF Contents
<1>1. QueueTypeOK'
  <2>1. list' \in Seq(Packets)
    BY <1>0, AppendProperties DEF QueueTypeOK
  <2> QED
    BY <2>1, ThreadsOfQueue DEF QueueTypeOK, Inv, queueVars, ghostVars
<1>2. Positions'
  BY ThreadsOfQueue DEF Positions, QueueTypeOK, Inside, Outside, vars, InNotify
<1>3. Contents'
  BY ThreadsOfQueue DEF Contents, QueueTypeOK, queueVars, ghostVars, Packets
<1>4. Wakes'
  BY ThreadsOfQueue DEF Wakes, ToNotify, IsEmpty, QueueTypeOK, vars, queueVars, InNotify
<1>5. InOrder'
  <2>1. OnItsWay = <<buffer[Receiver]>> /\ OnItsWay' = <<>>
    BY ThreadsOfQueue DEF OnItsWay, QueueTypeOK
  <2>2. InQueue' = InQueue
    BY DEF InQueue, queueVars
  <2>3. InQueue \in Seq(Packets) /\ list \in Seq(Packets)
    BY QueueIsSeq DEF QueueTypeOK
  <2>4. Append(list, buffer[Receiver]) \o <<>> \o InQueue = list \o <<buffer[Receiver]>> \o InQueue
    BY <1>0, <2>3, ArrivedAtEnd
  <2> QED
    BY <2>1, <2>2, <2>4 DEF InOrder, ghostVars
<1> QED
  BY <1>1, <1>2, <1>3, <1>4, <1>5

\* The mutex is taken.
LEMMA LockQueueInv ==
  ASSUME QInv, Inv', NEW t \in Threads, LockQueue(t)
  PROVE  QInv'
<1> USE DEF LockQueue, InCall, At, Proceed, QInv, Lock, LockMutex
<1>1. QueueTypeOK'
  BY ThreadsOfQueue DEF QueueTypeOK, Inv, queueVars, ghostVars
<1>2. Positions'
  BY ThreadsOfQueue DEF Positions, QueueTypeOK, TypeOK, Inside, Outside, InNotify, InWait, Entering
<1>3. Contents'
  BY ThreadsOfQueue DEF Contents, QueueTypeOK, queueVars
<1>4. Wakes'
  BY ThreadsOfQueue DEF Wakes, ToNotify, IsEmpty, QueueTypeOK, TypeOK, queueVars, spinVars, InNotify,
     InWait, Sleeping, Inside
<1>5. InOrder'
  BY OrderStays, ThreadsOfQueue DEF OnItsWay, ghostVars, QueueTypeOK, Inside
<1> QED
  BY <1>1, <1>2, <1>3, <1>4, <1>5

\* The mutex is given back.
LEMMA UnlockQueueInv ==
  ASSUME QInv, Inv', NEW t \in Threads, UnlockQueue(t)
  PROVE  QInv'
<1> USE DEF UnlockQueue, InCall, At, Proceed, QInv, Unlock, UnlockMutex
<1>1. QueueTypeOK'
  BY ThreadsOfQueue DEF QueueTypeOK, Inv, queueVars, ghostVars
<1>2. Positions'
  BY ThreadsOfQueue DEF Positions, QueueTypeOK, TypeOK, Inside, Outside, InNotify, InWait, Entering
<1>3. Contents'
  BY ThreadsOfQueue DEF Contents, QueueTypeOK, queueVars
<1>4. Wakes'
  BY ThreadsOfQueue DEF Wakes, ToNotify, IsEmpty, QueueTypeOK, TypeOK, queueVars, spinVars, InNotify,
     InWait, Sleeping, Inside
<1>5. InOrder'
  BY OrderStays, ThreadsOfQueue DEF OnItsWay, ghostVars, QueueTypeOK, Inside
<1> QED
  BY <1>1, <1>2, <1>3, <1>4, <1>5

\* The notification begins.
LEMMA NotifyReceiverInv ==
  ASSUME QInv, Inv', NEW s \in Senders, NotifyReceiver(s)
  PROVE  QInv'
<1> USE DEF NotifyReceiver, InCall, At, Proceed, QInv, CallNotify, GoTo
<1>1. QueueTypeOK'
  BY ThreadsOfQueue DEF QueueTypeOK, Inv, queueVars, ghostVars
<1>2. Positions'
  BY ThreadsOfQueue DEF Positions, QueueTypeOK, TypeOK, Inside, Outside, InNotify, InWait, Entering
<1>3. Contents'
  BY ThreadsOfQueue DEF Contents, QueueTypeOK, queueVars
<1>4. Wakes'
  BY ThreadsOfQueue DEF Wakes, ToNotify, IsEmpty, QueueTypeOK, TypeOK, queueVars, spinVars, InNotify,
     InWait, Sleeping, Inside
<1>5. InOrder'
  BY OrderStays, ThreadsOfQueue DEF OnItsWay, ghostVars, QueueTypeOK, Inside
<1> QED
  BY <1>1, <1>2, <1>3, <1>4, <1>5

\* The receiver begins to wait, as there is no message.
LEMMA WaitForMessageInv ==
  ASSUME QInv, Inv', WaitForMessage(Receiver)
  PROVE  QInv'
<1> USE DEF WaitForMessage, InCall, At, Proceed, QInv, CallWait, GoTo
<1>1. QueueTypeOK'
  BY ThreadsOfQueue DEF QueueTypeOK, Inv, queueVars, ghostVars
<1>2. Positions'
  BY ThreadsOfQueue DEF Positions, QueueTypeOK, TypeOK, Inside, Outside, InNotify, InWait, Entering
<1>3. Contents'
  BY ThreadsOfQueue DEF Contents, QueueTypeOK, queueVars
<1>4. Wakes'
  BY ThreadsOfQueue DEF Wakes, ToNotify, IsEmpty, QueueTypeOK, TypeOK, queueVars, spinVars, InNotify,
     InWait, Sleeping, Inside
<1>5. InOrder'
  BY OrderStays, ThreadsOfQueue DEF OnItsWay, ghostVars, QueueTypeOK, Inside
<1> QED
  BY <1>1, <1>2, <1>3, <1>4, <1>5

-----------------------------------------------------------------------------
(***************************************************************************)
(* The steps of the condition variable.                                    *)
(***************************************************************************)

\* In wait() there is only the receiver; it goes on with the mutex.
LEMMA WaitStepMoves ==
  ASSUME QInv, NEW t \in Threads, WaitStep(t)
  PROVE  /\ t = Receiver /\ at[t] = "locked"
         /\ \A u \in Threads \ {t} : pc'[u] = pc[u] /\ (u \in holds' <=> u \in holds)
         /\ pc'[t] \in InWait \cup {"run"} /\ (pc'[t] = "run" => t \in holds')
         /\ call' = call
<1>1. pc[t] \in InWait
  BY DEF WaitStep, TakeEnter, TooLate, CountWaiter, ReleaseMutex, ReleaseEnter, SeeCommand, Expire, Check,
         CountOut, CountOutAll, ResetCommand, UnlockEnter, Relock, At, InWait, Entering, Counting,
         Sleeping, Leaving
<1>2. t = Receiver /\ at[t] = "locked"
  BY <1>1, ThreadsOfQueue DEF QInv, Positions, InWait, InNotify, Entering, Counting, Sleeping, Leaving
<1>3. pc[t] = "enter" => t \in holds
  BY DEF QInv, Inv, Places
<1>4. pc \in [Threads -> InWait \cup InNotify \cup {"run"}]
  BY DEF QInv, Inv, TypeOK
<1> QED
  BY <1>2, <1>3, <1>4
     DEF WaitStep, TakeEnter, TooLate, CountWaiter, ReleaseMutex, ReleaseEnter, SeeCommand, Expire, Check,
         CountOut, CountOutAll, ResetCommand, UnlockEnter, Relock, At, GoTo, LockMutex, UnlockMutex,
         InWait, Entering, Counting, Sleeping, Leaving, spinVars

\* In notify() there are only the others; the mutex is none of their business.
LEMMA NotifyStepMoves ==
  ASSUME QInv, NEW t \in Threads, NotifyStep(t)
  PROVE  /\ t \in Senders /\ at[t] = "unlock"
         /\ \A u \in Threads \ {t} : pc'[u] = pc[u]
         /\ pc'[t] \in InNotify \cup {"run"} /\ holds' = holds
         /\ call' = call
<1>1. pc[t] \in InNotify
  BY DEF NotifyStep, NotifyEnter, ReadWaiters, GiveCommand, NobodyWaits, At, InNotify
<1>2. t \in Senders /\ at[t] = "unlock"
  BY <1>1, ThreadsOfQueue DEF QInv, Positions, InWait, InNotify, Entering, Counting, Sleeping, Leaving
<1>3. pc \in [Threads -> InWait \cup InNotify \cup {"run"}]
  BY DEF QInv, Inv, TypeOK
<1> QED
  BY <1>2, <1>3 DEF NotifyStep, NotifyEnter, ReadWaiters, GiveCommand, NobodyWaits, At, GoTo, InNotify, spinVars

\* A notification that the receiver takes wakes it.
LEMMA WaitStepWakes ==
  ASSUME QInv, NEW t \in Threads, WaitStep(t), m_cur_num_msg' = m_cur_num_msg, at' = at
  PROVE  Wakes'
<1>1. /\ t = Receiver /\ call' = call
      /\ \A s \in Senders : pc'[s] = pc[s] /\ (ToNotify(s)' <=> ToNotify(s))
  BY WaitStepMoves, ThreadsOfQueue DEF ToNotify
<1>2. \A s \in Senders : pc[s] = "return" => pc[t] \notin Counting \cup {"expired", "woken", "last", "unenter"}
  BY <1>1, ThreadsOfQueue DEF QInv, Inv, EnterMutex, EnterOwners
<1>3. m_command # "NOTIFY_ALL" /\ pc[t] \notin {"woken_all", "last"}
  BY DEF QInv, Wakes, Inv, Places
<1>4. m_command' # "NOTIFY_ALL"
  BY <1>3 DEF WaitStep, TakeEnter, TooLate, CountWaiter, ReleaseMutex, ReleaseEnter, SeeCommand, Expire, Check,
              CountOut, CountOutAll, ResetCommand, UnlockEnter, Relock, spinVars
<1>5. \A s \in Senders : pc[s] = "return" => m_num_waiters' = m_num_waiters
  BY <1>2, <1>3 DEF WaitStep, TakeEnter, TooLate, CountWaiter, ReleaseMutex, ReleaseEnter, SeeCommand, Expire,
              Check, CountOut, CountOutAll, ResetCommand, UnlockEnter, Relock, spinVars, At, Counting
<1>6. /\ pc'[t] \in {"enter", "count", "unlock"} => pc[t] \in {"enter", "count", "unlock"}
      /\ pc'[t] \in {"leave"} \cup Sleeping =>
           pc[t] = "unlock" \/ (pc[t] \in {"leave"} \cup Sleeping /\ m_command' = m_command)
  BY DEF QInv, Inv, TypeOK, WaitStep, TakeEnter, TooLate, CountWaiter, ReleaseMutex, ReleaseEnter, SeeCommand,
         Expire, Check, CountOut, CountOutAll, ResetCommand, UnlockEnter, Relock, At, GoTo, spinVars, Sleeping
<1> QED
  BY <1>1, <1>3, <1>4, <1>5, <1>6 DEF QInv, Wakes, IsEmpty

\* A notifier that has found no waiter leaves nobody asleep.
LEMMA NotifyStepWakes ==
  ASSUME QInv, NEW t \in Threads, NotifyStep(t), m_cur_num_msg' = m_cur_num_msg, at' = at
  PROVE  Wakes'
<1>1. /\ t \in Senders /\ at[t] = "unlock" /\ call' = call
      /\ \A u \in Threads \ {t} : pc'[u] = pc[u] /\ (ToNotify(u)' <=> ToNotify(u))
      /\ pc'[Receiver] = pc[Receiver]
  BY NotifyStepMoves, ThreadsOfQueue DEF ToNotify
<1>2. pc \in [Threads -> InWait \cup InNotify \cup {"run"}] /\ call[t] = "NOTIFY_ONE"
  BY <1>1 DEF QInv, Inv, TypeOK, Wakes, NotifyStep, NotifyEnter, ReadWaiters, GiveCommand, NobodyWaits,
              At, InNotify
<1>3. CASE NotifyEnter(t) \/ ReadWaiters(t)
  <2>1. ToNotify(t)' /\ (pc'[t] = "return" => m_num_waiters = 0)
    BY <1>1, <1>2, <1>3 DEF NotifyEnter, ReadWaiters, GoTo, ToNotify, InNotify
  <2>2. UNCHANGED <<m_command, m_num_waiters>>
    BY <1>3 DEF NotifyEnter, ReadWaiters, spinVars
  <2> QED
    BY <1>1, <1>2, <2>1, <2>2, ThreadsOfQueue DEF QInv, Wakes, IsEmpty
<1>4. CASE GiveCommand(t)
  <2>1. m_command' = "NOTIFY_ONE" /\ m_num_waiters' = m_num_waiters /\ pc'[t] = "run"
    BY <1>2, <1>4 DEF GiveCommand, GoTo
  <2> QED
    BY <1>1, <2>1, ThreadsOfQueue DEF QInv, Wakes, IsEmpty, InNotify
<1>5. CASE NobodyWaits(t)
  <2>1. m_num_waiters = 0
    BY <1>1, <1>5 DEF QInv, Wakes, NobodyWaits, At
  <2>2. pc[Receiver] \notin {"leave"} \cup Sleeping
    BY <2>1, WaitersFinite, ThreadsOfQueue DEF QInv, Inv, Waiters
  <2>3. UNCHANGED <<m_command, m_num_waiters>> /\ pc'[t] = "run"
    BY <1>2, <1>5 DEF NobodyWaits, GoTo
  <2> QED
    BY <1>1, <2>2, <2>3, ThreadsOfQueue DEF QInv, Wakes, IsEmpty, InNotify
<1> QED
  BY <1>3, <1>4, <1>5 DEF NotifyStep

LEMMA WorkInv ==
  ASSUME QInv, Inv', NEW t \in Threads, Work(t)
  PROVE  QInv'
<1> USE DEF QInv
<1>0. UNCHANGED <<queueVars, at, buffer, ghostVars, list, quit>> /\ (WaitStep(t) \/ NotifyStep(t))
  BY DEF Work
<1>1. QueueTypeOK'
  BY <1>0 DEF QueueTypeOK, Inv, queueVars, ghostVars
<1>2. Positions'
  <2>1. CASE WaitStep(t)
    BY <1>0, <2>1, WaitStepMoves, ThreadsOfQueue DEF Positions, Inside, Outside
  <2>2. CASE NotifyStep(t)
    BY <1>0, <2>2, NotifyStepMoves, ThreadsOfQueue DEF Positions, Inside, Outside
  <2> QED
    BY <1>0, <2>1, <2>2
<1>3. Contents'
  BY <1>0 DEF Contents, queueVars
<1>4. Wakes'
  BY <1>0, WaitStepWakes, NotifyStepWakes DEF queueVars
<1>5. InOrder'
  BY <1>0, OrderStays DEF OnItsWay, ghostVars
<1> QED
  BY <1>1, <1>2, <1>3, <1>4, <1>5

LEMMA QueueNextInv == QInv /\ [QueueNext]_allVars => QInv'
<1> SUFFICES ASSUME QInv, [QueueNext]_allVars PROVE QInv'
  OBVIOUS
<1>1. Inv'
  BY SpinInv
<1>2. CASE UNCHANGED <<vars, queueVars, at, buffer, ghostVars, list>> /\ quit' \in BOOLEAN
  <2>1. QueueTypeOK' /\ Contents'
    BY <1>1, <1>2 DEF QInv, QueueTypeOK, Inv, Contents, queueVars, ghostVars
  <2>2. Positions' /\ Wakes'
    BY <1>2 DEF QInv, Positions, Wakes, ToNotify, IsEmpty, vars, queueVars
  <2>3. InOrder'
    BY <1>2, OrderStays DEF OnItsWay, ghostVars
  <2> QED
    BY <1>1, <2>1, <2>2, <2>3 DEF QInv
<1>3. ASSUME NEW s \in Senders, RejectSize(s) \/ SendPacket(s) \/ Sending(s)
      PROVE  QInv'
  BY <1>1, <1>3, ThreadsOfQueue, RejectSizeInv, SendPacketInv, LockQueueInv, RefuseInv, FillFreeMsgInv, QueueFreeMsgInv,
     NotifyReceiverInv, UnlockQueueInv, WorkInv DEF Sending
<1>4. CASE Receiving(Receiver)
  BY <1>1, <1>4, ThreadsOfQueue, ReceiveInv, LockQueueInv, WaitForMessageInv, CopyTopMsgInv, FreeTopMsgInv,
     UnlockQueueInv, ListPacketInv, WorkInv DEF Receiving
<1>5. CASE UNCHANGED allVars
  BY <1>2, <1>5 DEF allVars, QInv, QueueTypeOK
<1> QED
  BY <1>2, <1>3, <1>4, <1>5 DEF QueueNext, Quit

LEMMA QueueSpecInv == QueueSpec => []QInv
BY QueueInitInv, QueueNextInv, PTL DEF QueueSpec

-----------------------------------------------------------------------------

\* The index stays a permutation of the slots, and its length between none and all.
THEOREM QueueTypeCorrect == QueueSpec => []QueueTypeOK
<1>1. QInv => QueueTypeOK
  BY DEF QInv
<1> QED
  BY <1>1, QueueSpecInv, PTL

\* What try_send() took comes out unchanged, once and in order.
THEOREM InOrderTheorem == QueueSpec => []InOrder
<1>1. QInv => InOrder
  BY DEF QInv
<1> QED
  BY <1>1, QueueSpecInv, PTL

\* The receiver does not sleep on a message.
THEOREM NoLostWakeupTheorem == QueueSpec => []NoLostWakeup
<1>1. QInv => NoLostWakeup
  BY DEF QInv, Wakes, NoLostWakeup, ToNotify
<1> QED
  BY <1>1, QueueSpecInv, PTL

\* The queue uses spin_condition as its interface asks; so what is proved of it
\* holds here.
THEOREM QueueMutualExclusion == QueueSpec => []MutualExclusion
BY QueueSpins, MutualExclusionTheorem, PTL

=============================================================================
