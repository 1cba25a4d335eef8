--------------------------- MODULE SynchWaitProofs ---------------------------
(***************************************************************************)
(* No wake-up and no exit is lost on a wait structure, for any set of      *)
(* threads.  The inductive invariant adds the sleep flag to the two        *)
(* claims: wake_up and wait_exit signal only if the flag is up, so they    *)
(* may rely on it being up whenever every thread waits.                    *)
(***************************************************************************)
EXTENDS SynchWaitThreads, TLAPS

WaitInv == TypeOK /\ NotifiedNotAllAsleep /\ ExitNotAllAsleep /\ SleepFlagWhenAllWait

\* A new wait structure (wait_init) satisfies the invariant.
LEMMA WaitInvInit == Init => WaitInv
BY ThreadAssumption
DEF Init, WaitInit, WaitInv, TypeOK, WaitStructs, NotifiedNotAllAsleep, ExitNotAllAsleep,
    SleepFlagWhenAllWait

\* Every call on the structure preserves the invariant.
LEMMA WaitInvStep == WaitInv /\ [Next]_vars => WaitInv'
<1> SUFFICES ASSUME WaitInv, [Next]_vars PROVE WaitInv'
  OBVIOUS
<1> USE ThreadAssumption
    DEF WaitInv, TypeOK, WaitStructs, NotifiedNotAllAsleep, ExitNotAllAsleep,
        SleepFlagWhenAllWait
<1>1. CASE DoWakeUp
  <2>1. CASE wait.dead \/ wait.notified
    BY <1>1, <2>1 DEF DoWakeUp, WakeUps
  <2>2. CASE ~ (wait.dead \/ wait.notified) /\ ~ wait.sleep
    BY <1>1, <2>2 DEF DoWakeUp, WakeUps
  <2>3. CASE ~ (wait.dead \/ wait.notified) /\ wait.sleep
    <3> DEFINE w == [wait EXCEPT !.notified = TRUE]
    <3>1. wait' \in Signal(w) /\ UNCHANGED pc
      BY <1>1, <2>3 DEF DoWakeUp, WakeUps
    <3>a. w \in WaitStructs(Thread) /\ w.waiters = wait.waiters /\ w.dead = wait.dead
          /\ w.sleep = wait.sleep
      OBVIOUS
    <3> HIDE DEF w
    <3>2. CASE wait.waiters = {}
      <4>1. wait' = [w EXCEPT !.waiters = {}]
        BY <3>1, <3>a, <3>2 DEF Signal
      <4> QED
        BY <2>3, <3>1, <3>a, <4>1
    <3>3. CASE wait.waiters # {}
      <4>1. PICK t \in wait.waiters : wait' = [w EXCEPT !.waiters = wait.waiters \ {t}]
        BY <3>1, <3>a, <3>3 DEF Signal
      <4> QED
        BY <2>3, <3>1, <3>a, <4>1
    <3> QED
      BY <3>2, <3>3
  <2> HIDE DEF WaitInv
  <2> QED
    BY <2>1, <2>2, <2>3
<1>2. CASE DoWaitExit
  BY <1>2 DEF DoWaitExit, WaitExit
<1>3. ASSUME NEW t \in Thread, SleepOn(t) PROVE WaitInv'
  <2>1. t \notin wait.waiters
    BY <1>3 DEF SleepOn
  <2>2. CASE wait.dead
    <3>1. wait' = wait /\ pc' = [pc EXCEPT ![t] = "run"]
      BY <1>3, <2>2 DEF SleepOn, Sleep, SleepReturnsAtOnce
    <3>2. pc' = pc
      BY <1>3, <3>1 DEF SleepOn
    <3> QED
      BY <3>1, <3>2
  <2>3. CASE ~ wait.dead /\ wait.notified
    BY <1>3, <2>1, <2>3 DEF SleepOn, Sleep, SleepReturnsAtOnce
  <2>4. CASE ~ wait.dead /\ ~ wait.notified
    <3>1. /\ wait' = [wait EXCEPT !.sleep = TRUE, !.waiters = wait.waiters \cup {t}]
          /\ pc' = [pc EXCEPT ![t] = "blocked"]
      BY <1>3, <2>4 DEF SleepOn, Sleep, SleepReturnsAtOnce
    <3>2. TypeOK'
      <4>1. wait' \in WaitStructs(Thread)
        BY <3>1
      <4>2. wait'.waiters = wait.waiters \cup {t}
        BY <3>1
      <4>3. pc' \in [Thread -> {"run", "blocked"}] /\ \A u \in wait.waiters \cup {t} : pc'[u] = "blocked"
        BY <3>1
      <4> QED
        BY <4>1, <4>2, <4>3
    <3>3. ~ wait'.dead /\ ~ wait'.notified /\ wait'.sleep
      BY <2>4, <3>1
    <3> QED
      BY <3>2, <3>3
  <2> HIDE DEF WaitInv
  <2> QED
    BY <2>2, <2>3, <2>4
<1>4. ASSUME NEW t \in Thread, SleepReturn(t) PROVE WaitInv'
  BY <1>4 DEF SleepReturn, Resume
<1>5. ASSUME NEW t \in Thread, SpuriousWakeup(t) PROVE WaitInv'
  BY <1>5 DEF SpuriousWakeup
<1>6. CASE UNCHANGED vars
  BY <1>6 DEF vars
<1> QED
  BY <1>1, <1>2, <1>3, <1>4, <1>5, <1>6 DEF Next

\* The types of the structure and of the threads sleeping on it, for any set of threads.
THEOREM WaitTypeOK == Spec => []TypeOK
<1>1. WaitInv => TypeOK
  BY DEF WaitInv
<1> QED
  BY WaitInvInit, WaitInvStep, <1>1, PTL DEF Spec

\* A notification nobody consumed never stands while every thread sleeps (sleep_on, wake_up).
THEOREM NoWakeupIsLost == Spec => []NotifiedNotAllAsleep
<1>1. WaitInv => NotifiedNotAllAsleep
  BY DEF WaitInv
<1> QED
  BY WaitInvInit, WaitInvStep, <1>1, PTL DEF Spec

\* wait_exit never leaves every thread asleep, and nobody falls asleep after it.
THEOREM NoExitIsLost == Spec => []ExitNotAllAsleep
<1>1. WaitInv => ExitNotAllAsleep
  BY DEF WaitInv
<1> QED
  BY WaitInvInit, WaitInvStep, <1>1, PTL DEF Spec

\* Whenever every thread waits the flag sleep is up, so that wake_up and wait_exit signal,
\* although a thread that returns from sleep_on clears it for all the others.
THEOREM AllWaitFlagged == Spec => []SleepFlagWhenAllWait
<1>1. WaitInv => SleepFlagWhenAllWait
  BY DEF WaitInv
<1> QED
  BY WaitInvInit, WaitInvStep, <1>1, PTL DEF Spec
=============================================================================
