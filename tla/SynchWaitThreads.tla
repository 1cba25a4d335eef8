-------------------------- MODULE SynchWaitThreads --------------------------
(***************************************************************************)
(* Any number of threads sleeping on one wait structure while others call  *)
(* wake_up and wait_exit on it, in every interleaving.                     *)
(***************************************************************************)
EXTENDS SynchWait

CONSTANT Thread                     \* the threads that may call sleep_on

ASSUME ThreadAssumption == Thread # {}

VARIABLES wait,                     \* the wait structure
          pc                        \* "run", or "blocked" inside pthread_cond_wait

vars == <<wait, pc>>

Init == wait = WaitInit /\ pc = [t \in Thread |-> "run"]

\* mutant: sleep_on returns although its thread is queued
SleepOnReturns(t) ==
  /\ pc[t] = "run"
  /\ wait' = Sleep(wait, t)
  /\ UNCHANGED pc

\* sleep_on(wait) is called by t
SleepOn(t) ==
  /\ pc[t] = "run"
  /\ wait' = Sleep(wait, t)
  /\ pc' = [pc EXCEPT ![t] = IF SleepReturnsAtOnce(wait) THEN "run" ELSE "blocked"]

\* t was signalled and sleep_on returns
SleepReturn(t) ==
  /\ pc[t] = "blocked"
  /\ t \notin wait.waiters
  /\ wait' = Resume(wait)
  /\ pc' = [pc EXCEPT ![t] = "run"]

\* pthread_cond_wait may return without a signal; sleep_on has no loop around it
SpuriousWakeup(t) ==
  /\ t \in wait.waiters
  /\ wait' = [wait EXCEPT !.waiters = @ \ {t}]
  /\ UNCHANGED pc

DoWakeUp == wait' \in WakeUps(wait) /\ UNCHANGED pc

DoWaitExit == wait' = WaitExit(wait) /\ UNCHANGED pc

Next ==
  \/ DoWakeUp
  \/ DoWaitExit
  \/ \E t \in Thread : SleepOn(t) \/ SleepReturn(t) \/ SpuriousWakeup(t)

Spec == Init /\ [][Next]_vars

-----------------------------------------------------------------------------
\* Types, and that the threads the condition variable holds are inside pthread_cond_wait.
TypeOK ==
  /\ wait \in WaitStructs(Thread)
  /\ pc \in [Thread -> {"run", "blocked"}]
  /\ \A t \in wait.waiters : pc[t] = "blocked"

\* No lost wake-up: a notification that nobody consumed never stands while
\* every thread is asleep on the condition variable (the latch of wake_up and
\* the sleep flag together make up for the missing loop around cond_wait).
NotifiedNotAllAsleep == wait.notified => wait.waiters # Thread

\* wait_exit ("exit and notify all others") never leaves every thread asleep; with one
\* sleeper to a wait structure, as in this program, it wakes whoever sleeps.
ExitNotAllAsleep == wait.dead => wait.waiters # Thread

\* The sleep flag may be down while some threads wait (the first one to return
\* clears it for all), but never while all of them do.
SleepFlagWhenAllWait == wait.waiters = Thread => wait.sleep
=============================================================================
