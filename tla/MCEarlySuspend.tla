--------------------------- MODULE MCEarlySuspend ---------------------------
(***************************************************************************)
(* EarlySuspend with two handlers, one at the frame buffer's level (150)   *)
(* and one below it, and two tasks that write /sys/power/state.            *)
(***************************************************************************)
EXTENDS EarlySuspend

CONSTANTS c1, c2, fb, kpd

MCTwoCallers == {c1, c2}
MCHandlers == {fb, kpd}
MCLevel == [h \in MCHandlers |-> IF h = fb THEN 150 ELSE 50]
=============================================================================
