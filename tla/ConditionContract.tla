------------------------- MODULE ConditionContract -------------------------
(***************************************************************************)
(* What a condition variable promises: a notification is for those who     *)
(* slept when it was given. One of them, or all of them, wake up for it,   *)
(* and until they have nobody joins the sleepers, nobody leaves without    *)
(* having been woken, and no other notification is given.                  *)
(***************************************************************************)
CONSTANT Threads

VARIABLES
  asleep,   \* threads that wait for a notification
  due       \* the notification that is to be answered: "SLEEP" if there is none

vars == <<asleep, due>>

Init == asleep = {} /\ due = "SLEEP"

Sleep(t) ==
  /\ due = "SLEEP" /\ t \notin asleep
  /\ asleep' = asleep \cup {t}
  /\ UNCHANGED due

\* Nobody is notified if nobody sleeps: notifications are not kept.
Notify(command) ==
  /\ due = "SLEEP" /\ asleep # {}
  /\ due' = command
  /\ UNCHANGED asleep

Wake(t) ==
  /\ due # "SLEEP" /\ t \in asleep
  /\ asleep' = asleep \ {t}
  /\ due' = IF due = "NOTIFY_ONE" \/ asleep = {t} THEN "SLEEP" ELSE due

\* The time of a timed wait is up, and no notification is under way.
GiveUp(t) ==
  /\ due = "SLEEP" /\ t \in asleep
  /\ asleep' = asleep \ {t}
  /\ UNCHANGED due

Next ==
  \/ \E t \in Threads : Sleep(t) \/ Wake(t) \/ GiveUp(t)
  \/ \E command \in {"NOTIFY_ONE", "NOTIFY_ALL"} : Notify(command)

Spec == Init /\ [][Next]_vars

=============================================================================
