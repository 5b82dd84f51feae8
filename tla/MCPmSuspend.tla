---------------------------- MODULE MCPmSuspend -----------------------------
(***************************************************************************)
(* PmSuspend with one driver lock.  Its timeouts, 0 and 1 jiffy, let it    *)
(* expire before, during and after each step of the suspend path.          *)
(***************************************************************************)
EXTENDS PmSuspend

CONSTANT a

MCLocks == {main_wake_lock, unknown_wakeup, a}
MCTimeouts == {0, 1}
=============================================================================
