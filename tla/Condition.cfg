\* Three threads that lock, wait with and without a time limit, and notify; they
\* get their turn.
CONSTANTS
  t1 = t1  t2 = t2  t3 = t3
  Threads = {t1, t2, t3}
SPECIFICATION FairSpec
INVARIANTS TypeOK MutualExclusion EnterMutex CountsWaiters
PROPERTIES ImplementsConditionContract NotificationTaken
CHECK_DEADLOCK FALSE
