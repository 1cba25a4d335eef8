----------------------------- MODULE MCSynchWait -----------------------------
(* Three threads: one may sleep, one be about to and one have been woken.     *)
EXTENDS SynchWaitThreads

CONSTANTS t1, t2, t3

MCThread == {t1, t2, t3}
=============================================================================
