------------------------------ MODULE MCAlarm ------------------------------
(***************************************************************************)
(* Alarm with the two wakeup alarms, half a second to the tick and one     *)
(* thread that waits.  The wakeup alarms are set two seconds and one       *)
(* second ahead, the power-on alarm behind.                                *)
(***************************************************************************)
EXTENDS Alarm

CONSTANT th

MCAlarmTypes == WAKEUP
MCThreads == {th}
MCBehind == {-3}
MCLefts == [t \in MCAlarmTypes |-> IF t = "RTC_WAKEUP" THEN {4} ELSE {2}]
=============================================================================
