------------------------------ MODULE SynchWait ------------------------------
(***************************************************************************)
(* struct synch_wait of code-exp2/include/synch_wait.h: the latch on which *)
(* connect, accept, read and write sleep until the receive or the timer    *)
(* thread wakes them.                                                      *)
(*                                                                         *)
(* A wait structure is a record:                                           *)
(*   notified  a wake-up that no sleeper has consumed yet                  *)
(*   dead      wait_exit was called                                        *)
(*   sleep     the flag sleep_on raises around pthread_cond_wait           *)
(*   waiters   the threads blocked on the condition variable               *)
(* Every function below runs under wait->lock from its first statement to  *)
(* its last, except that pthread_cond_wait gives the lock up: sleep_on is  *)
(* therefore two steps (Sleep, Resume) and the others are one.             *)
(***************************************************************************)

\* wait_init
WaitInit == [notified |-> FALSE, dead |-> FALSE, sleep |-> FALSE, waiters |-> {}]

WaitStructs(T) ==
  [notified : BOOLEAN, dead : BOOLEAN, sleep : BOOLEAN, waiters : SUBSET T]

\* sleep_on up to the point where it returns or blocks
SleepReturnsAtOnce(w) == w.dead \/ w.notified

\* mutant: a sleep_on that blocks without raising the flag
SleepSilently(w, t) ==
  IF w.dead THEN w
  ELSE IF w.notified THEN [w EXCEPT !.notified = FALSE, !.sleep = FALSE]
  ELSE [w EXCEPT !.waiters = @ \cup {t}]

Sleep(w, t) ==
  IF w.dead THEN w
  ELSE IF w.notified THEN [w EXCEPT !.notified = FALSE, !.sleep = FALSE]
  ELSE [w EXCEPT !.sleep = TRUE, !.waiters = @ \cup {t}]

\* sleep_on after pthread_cond_wait returned
Resume(w) == [w EXCEPT !.notified = FALSE, !.sleep = FALSE]

\* pthread_cond_signal: wakes one of the blocked threads, if there is one
Signal(w) ==
  {[w EXCEPT !.waiters = W] :
     W \in IF w.waiters = {} THEN {{}} ELSE {w.waiters \ {t} : t \in w.waiters}}

\* mutant: a wake_up that raises the flag and never signals
WakeUpsNoSignal(w) == {[w EXCEPT !.notified = TRUE]}

\* wake_up: the structures it may leave behind
WakeUps(w) ==
  IF w.dead \/ w.notified THEN {w}
  ELSE IF w.sleep THEN Signal([w EXCEPT !.notified = TRUE])
  ELSE {[w EXCEPT !.notified = TRUE]}

\* mutant: wait_exit forgets the threads already asleep
WaitExitSilently(w) == [w EXCEPT !.dead = TRUE]

\* wait_exit
WaitExit(w) ==
  IF w.dead THEN w
  ELSE [w EXCEPT !.dead = TRUE, !.waiters = IF w.sleep THEN {} ELSE @]
=============================================================================
