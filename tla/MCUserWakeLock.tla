--------------------------- MODULE MCUserWakeLock ---------------------------
(***************************************************************************)
(* UserWakeLock with one user lock and one driver lock, a jiffy of 4 ns, a *)
(* long of 3 bits and a u64 of 6.                                          *)
(***************************************************************************)
EXTENDS UserWakeLock

CONSTANTS u, a

MCLocks == {main_wake_lock, unknown_wakeup, u, a}
MCNames == {u}
MCTimeouts == {0, 1, 2}
=============================================================================
