------------------------------ MODULE DevicePM ------------------------------
(***************************************************************************)
(* The device part of a suspend, drivers/base/power/main.c: dpm_list, the  *)
(* walks that prepare, suspend, resume and complete every device on it,    *)
(* and devices that come and go meanwhile.                                 *)
(*                                                                         *)
(* A walk moves the devices it has dealt with to its own list.  It holds   *)
(* dpm_list_mtx except while it is in a driver's callback, so each of its  *)
(* critical sections is one action or, from one callback to the next, two; *)
(* a device may be added or removed during a callback and between walks.   *)
(*                                                                         *)
(* A driver's callback is reduced to its result.  The watchdog that ends a *)
(* suspend callback with BUG() after 3 s is left out: callbacks return.    *)
(***************************************************************************)
EXTENDS Integers, Sequences, SequencesExt

CONSTANTS Devices,
          NoParent,
          Parent,              \* dev->parent
          AddsWhileCompleting  \* devices may be added during dpm_complete

ASSUME ParentAssumption == /\ NoParent \notin Devices
                           /\ Parent \in [Devices -> Devices \cup {NoParent}]
                           /\ AddsWhileCompleting \in BOOLEAN

VARIABLES dpm_list,
          list,                \* the local list of the walk under way
          status,              \* dev->power.status
          transition_started,
          pc,                  \* where the suspend thread is
          cur,                 \* the device whose callback it is in
          prepared,            \* prepare() succeeded, complete() not yet called
          alive,               \* added with device_add and not yet deleted
          asleep               \* which of its hooks has put the device to sleep

lists == <<dpm_list, list>>
devVars == <<status, prepared, asleep>>
dpmVars == <<lists, devVars, transition_started, pc, cur, alive>>

Statuses == {"ON", "PREPARING", "RESUMING", "SUSPENDING", "OFF", "OFF_IRQ"}
AtLeastSuspending == {"SUSPENDING", "OFF", "OFF_IRQ"}

Registered == Range(dpm_list) \cup Range(list)

SetStatus(d, s) == status' = [status EXCEPT ![d] = s]

\* list_del, of an entry that is on the list once or not at all.
ListDel(s, d) ==
    IF \E i \in 1 .. Len(s) : s[i] = d
    THEN RemoveAt(s, CHOOSE i \in 1 .. Len(s) : s[i] = d) ELSE s

\* list_move_tail and list_move to the local list.  A device that was removed
\* during its callback is on no list and stays so.
MoveTailUnchecked(d) ==
    /\ dpm_list' = ListDel(dpm_list, d)
    /\ list' = Append(list, d)
MoveTail(d) ==
    /\ dpm_list' = ListDel(dpm_list, d)
    /\ list' = IF d \in Registered THEN Append(list, d) ELSE list
MoveHeadToTail(d) == MoveTail(d)
MoveHead(d) ==
    /\ dpm_list' = ListDel(dpm_list, d)
    /\ list' = IF d \in Registered THEN <<d>> \o list ELSE list

\* list_splice of the local list at the head, or at the tail, of dpm_list.
SpliceHead == dpm_list' = list \o dpm_list /\ list' = << >>
SpliceTail == dpm_list' = dpm_list \o list /\ list' = << >>

IrqsOff == pc \in {"power_up", "off"}

\* dpm_list_mtx is held from the return of one callback to the next call.
ListLocked == pc \in {"prepare", "suspend", "resume", "complete"}

----------------------------------------------------------------------------
(* device_pm_add and device_pm_remove. *)

\* What device_pm_init leaves in the status of a new device, and what a device
\* that was only zeroed would have.
NewStatus == "ON"

\* The two warnings of device_pm_add are the contract of its callers: the
\* parent is not sleeping, and nothing without a parent comes in a transition.
DevicePmAdd(d) ==
    /\ ~ IrqsOff /\ ~ ListLocked
    /\ d \notin alive /\ d # cur
    /\ IF Parent[d] # NoParent
       THEN Parent[d] \in alive /\ status[Parent[d]] \notin AtLeastSuspending
       ELSE ~ transition_started
    /\ pc = "completing" => AddsWhileCompleting
    /\ dpm_list' = Append(dpm_list, d)
    /\ SetStatus(d, NewStatus)
    /\ prepared' = prepared \ {d}
    /\ asleep' = [asleep EXCEPT ![d] = "no"]
    /\ alive' = alive \cup {d}
    /\ UNCHANGED <<list, transition_started, pc, cur>>

\* device_del: children go before their parents.
DevicePmRemove(d) ==
    /\ ~ IrqsOff /\ ~ ListLocked
    /\ d \in alive
    /\ \A e \in alive : Parent[e] # d
    /\ dpm_list' = ListDel(dpm_list, d)
    /\ list' = ListDel(list, d)
    /\ alive' = alive \ {d}
    /\ UNCHANGED <<devVars, transition_started, pc, cur>>

----------------------------------------------------------------------------
(* dpm_prepare. *)

DpmPrepare ==
    /\ pc = "idle"
    /\ pc' = "prepare"
    /\ transition_started' = TRUE
    /\ UNCHANGED <<lists, devVars, cur, alive>>

PrepareNext ==
    /\ pc = "prepare"
    /\ dpm_list # << >>
    /\ pc' = "preparing"
    /\ cur' = Head(dpm_list)
    /\ SetStatus(cur', "PREPARING")
    /\ UNCHANGED <<lists, prepared, asleep, transition_started, alive>>

\* prepare_device succeeded, or returned -EAGAIN, or failed.
Prepared ==
    /\ pc = "preparing"
    /\ SetStatus(cur, "SUSPENDING")
    /\ prepared' = prepared \cup {cur}
    /\ MoveTail(cur)
    /\ pc' = "prepare"
    /\ cur' = NoParent
    /\ UNCHANGED <<asleep, transition_started, alive>>

PrepareAgain ==
    /\ pc = "preparing"
    /\ SetStatus(cur, "ON")
    /\ pc' = "prepare"
    /\ cur' = NoParent
    /\ UNCHANGED <<lists, prepared, asleep, transition_started, alive>>

PrepareFailed ==
    /\ pc = "preparing"
    /\ SetStatus(cur, "ON")
    /\ SpliceHead
    /\ pc' = "device_resume"
    /\ cur' = NoParent
    /\ UNCHANGED <<prepared, asleep, transition_started, alive>>

PrepareEnd ==
    /\ pc = "prepare"
    /\ dpm_list = << >>
    /\ SpliceHead
    /\ pc' = "all_prepared"
    /\ UNCHANGED <<devVars, transition_started, cur, alive>>

----------------------------------------------------------------------------
(* dpm_suspend, last device first. *)

DpmSuspend ==
    /\ pc = "all_prepared"
    /\ pc' = "suspend"
    /\ UNCHANGED <<lists, devVars, transition_started, cur, alive>>

SuspendNextFromHead ==
    /\ pc = "suspend"
    /\ dpm_list # << >>
    /\ pc' = "suspending"
    /\ cur' = Head(dpm_list)
    /\ UNCHANGED <<lists, devVars, transition_started, alive>>
SuspendNext ==
    /\ pc = "suspend"
    /\ dpm_list # << >>
    /\ pc' = "suspending"
    /\ cur' = Last(dpm_list)
    /\ UNCHANGED <<lists, devVars, transition_started, alive>>

SuspendedNotMoved ==
    /\ pc = "suspending"
    /\ SetStatus(cur, "OFF")
    /\ asleep' = [asleep EXCEPT ![cur] = "suspend"]
    /\ pc' = "suspend"
    /\ cur' = NoParent
    /\ UNCHANGED <<lists, prepared, transition_started, alive>>
Suspended ==
    /\ pc = "suspending"
    /\ SetStatus(cur, "OFF")
    /\ asleep' = [asleep EXCEPT ![cur] = "suspend"]
    /\ MoveHead(cur)
    /\ pc' = "suspend"
    /\ cur' = NoParent
    /\ UNCHANGED <<prepared, transition_started, alive>>

SuspendFailed ==
    /\ pc = "suspending"
    /\ SpliceTail
    /\ pc' = "device_resume"
    /\ cur' = NoParent
    /\ UNCHANGED <<devVars, transition_started, alive>>

SuspendEnd ==
    /\ pc = "suspend"
    /\ dpm_list = << >>
    /\ SpliceTail
    /\ pc' = "suspended"
    /\ UNCHANGED <<devVars, transition_started, cur, alive>>

----------------------------------------------------------------------------
(* device_power_down and device_power_up, with interrupts off. *)

\* The walk powers down the n last devices; before the first, it failed.
DevicePowerDown ==
    /\ pc = "suspended"
    /\ \E n \in 0 .. Len(dpm_list) :
          LET down == {dpm_list[i] : i \in Len(dpm_list) - n + 1 .. Len(dpm_list)}
          IN  /\ status' = [d \in Devices |-> IF d \in down THEN "OFF_IRQ" ELSE status[d]]
              /\ asleep' = [d \in Devices |-> IF d \in down THEN "noirq" ELSE asleep[d]]
              /\ pc' = IF n = Len(dpm_list) THEN "off" ELSE "power_up"
    /\ UNCHANGED <<lists, prepared, transition_started, cur, alive>>

\* dpm_power_up, after a failure of device_power_down or when the system wakes.
DpmPowerUp ==
    /\ IrqsOff
    /\ LET up == {d \in Range(dpm_list) : status[d] = "OFF_IRQ"}
       IN  /\ status' = [d \in Devices |-> IF d \in up THEN "OFF" ELSE status[d]]
           /\ asleep' = [d \in Devices |-> IF d \in up THEN "suspend" ELSE asleep[d]]
    /\ pc' = "device_resume"
    /\ UNCHANGED <<lists, prepared, transition_started, cur, alive>>

----------------------------------------------------------------------------
(* device_resume: dpm_resume, first device first, then dpm_complete. *)

DpmResume ==
    /\ pc = "device_resume"
    /\ pc' = "resume"
    /\ transition_started' = FALSE
    /\ UNCHANGED <<lists, devVars, cur, alive>>

ResumeNextIfOffIrq ==
    /\ pc = "resume"
    /\ dpm_list # << >>
    /\ LET d == Head(dpm_list)
       IN  IF status[d] = "OFF_IRQ"
           THEN /\ SetStatus(d, "RESUMING")
                /\ asleep' = [asleep EXCEPT ![d] = "no"]
                /\ cur' = d
                /\ pc' = "resuming"
                /\ UNCHANGED lists
           ELSE /\ SetStatus(d, IF status[d] \in {"SUSPENDING", "OFF"} THEN "RESUMING" ELSE status[d])
                /\ MoveTail(d)
                /\ UNCHANGED <<asleep, cur, pc>>
    /\ UNCHANGED <<prepared, transition_started, alive>>
ResumeNext ==
    /\ pc = "resume"
    /\ dpm_list # << >>
    /\ LET d == Head(dpm_list)
       IN  IF status[d] \in {"OFF", "OFF_IRQ"}
           THEN /\ SetStatus(d, "RESUMING")
                /\ asleep' = [asleep EXCEPT ![d] = "no"]
                /\ cur' = d
                /\ pc' = "resuming"
                /\ UNCHANGED lists
           ELSE /\ SetStatus(d, IF status[d] = "SUSPENDING" THEN "RESUMING" ELSE status[d])
                /\ MoveTail(d)
                /\ UNCHANGED <<asleep, cur, pc>>
    /\ UNCHANGED <<prepared, transition_started, alive>>

\* resume_device returned; its error is only reported.
Resumed ==
    /\ pc = "resuming"
    /\ MoveTail(cur)
    /\ pc' = "resume"
    /\ cur' = NoParent
    /\ UNCHANGED <<devVars, transition_started, alive>>

ResumeEnd ==
    /\ pc = "resume"
    /\ dpm_list = << >>
    /\ SpliceHead
    /\ pc' = "resumed"
    /\ UNCHANGED <<devVars, transition_started, cur, alive>>

DpmComplete ==
    /\ pc = "resumed"
    /\ pc' = "complete"
    /\ UNCHANGED <<lists, devVars, transition_started, cur, alive>>

CompleteNext ==
    /\ pc = "complete"
    /\ dpm_list # << >>
    /\ LET d == Last(dpm_list)
       IN  IF status[d] # "ON"
           THEN /\ SetStatus(d, "ON")
                /\ prepared' = prepared \ {d}
                /\ cur' = d
                /\ pc' = "completing"
                /\ UNCHANGED lists
           ELSE /\ MoveHead(d)
                /\ UNCHANGED <<status, prepared, cur, pc>>
    /\ UNCHANGED <<asleep, transition_started, alive>>

Completed ==
    /\ pc = "completing"
    /\ MoveHead(cur)
    /\ pc' = "complete"
    /\ cur' = NoParent
    /\ UNCHANGED <<devVars, transition_started, alive>>

CompleteEnd ==
    /\ pc = "complete"
    /\ dpm_list = << >>
    /\ SpliceHead
    /\ pc' = "idle"
    /\ UNCHANGED <<devVars, transition_started, cur, alive>>

----------------------------------------------------------------------------
DPMInit ==
    /\ dpm_list = << >>
    /\ list = << >>
    /\ status = [d \in Devices |-> "ON"]
    /\ transition_started = FALSE
    /\ pc = "idle"
    /\ cur = NoParent
    /\ prepared = {}
    /\ alive = {}
    /\ asleep = [d \in Devices |-> "no"]

Hotplug == \E d \in Devices : DevicePmAdd(d) \/ DevicePmRemove(d)

\* The steps of the suspend thread once it has begun and while it is awake.
DPMStep ==
    \/ PrepareNext \/ Prepared \/ PrepareAgain \/ PrepareFailed \/ PrepareEnd
    \/ DpmSuspend \/ SuspendNext \/ Suspended \/ SuspendFailed \/ SuspendEnd
    \/ DevicePowerDown
    \/ DpmResume \/ ResumeNext \/ Resumed \/ ResumeEnd
    \/ DpmComplete \/ CompleteNext \/ Completed \/ CompleteEnd

DPMNext == DpmPrepare \/ DPMStep \/ DpmPowerUp \/ Hotplug

DPMSpec == DPMInit /\ [][DPMNext]_dpmVars

\* The suspend thread runs and callbacks return; a failed device_power_down is
\* followed by dpm_power_up, but nothing makes the hardware wake up.
DPMFairSpec == /\ DPMSpec
               /\ WF_dpmVars(DPMStep)
               /\ WF_dpmVars(pc = "power_up" /\ DpmPowerUp)

----------------------------------------------------------------------------
(* Properties. *)

DPMTypeOK ==
    /\ dpm_list \in Seq(Devices) /\ list \in Seq(Devices)
    /\ status \in [Devices -> Statuses]
    /\ transition_started \in BOOLEAN
    /\ pc \in {"idle", "prepare", "preparing", "all_prepared", "suspend",
               "suspending", "suspended", "power_up", "off", "device_resume",
               "resume", "resuming", "resumed", "complete", "completing"}
    /\ cur \in Devices \cup {NoParent}
    /\ prepared \subseteq Devices
    /\ alive \subseteq Devices
    /\ asleep \in [Devices -> {"no", "suspend", "noirq"}]

\* The lists hold exactly the devices that exist, each once: list_move and
\* list_splice lose none, and never enter again one that was removed while its
\* callback ran.
ListsExact ==
    LET all == dpm_list \o list
    IN  /\ DPMTypeOK
        /\ Range(all) = alive
        /\ \A i, j \in 1 .. Len(all) : all[i] = all[j] => i = j

\* The comment on dpm_list: it is in depth first order, parents before their
\* children, in the middle of a walk as well (the walk's list is the part it
\* has dealt with, at the front or at the back).
WholeList == IF pc \in {"suspend", "suspending", "complete", "completing"}
             THEN dpm_list \o list ELSE list \o dpm_list
DepthFirst ==
    \A i, j \in 1 .. Len(WholeList) : WholeList[j] = Parent[WholeList[i]] => j < i

\* A device sleeps, in either sense, only while all of its children do: they
\* are suspended before it and resumed after it, also when a walk fails half
\* way and whatever is added or removed meanwhile.
Depth == [no |-> 0, suspend |-> 1, noirq |-> 2]
ChildrenSleepFirst ==
    \A d \in Registered :
        Parent[d] \in Registered => Depth[asleep[Parent[d]]] <= Depth[asleep[d]]

\* complete() is owed to exactly the devices whose prepare() succeeded, and the
\* status of a device tells, at every moment, which those are; and a transition,
\* failed or not, leaves every device awake and completed.
AllBackOn ==
    \A d \in Registered :
        /\ d \in prepared <=> status[d] \in AtLeastSuspending \cup {"RESUMING"}
        /\ pc = "idle" => status[d] = "ON" /\ asleep[d] = "no" /\ d \notin prepared

\* Unless prepare() asks for ever to be called again or devices keep coming, a
\* transition ends: the system is asleep or the thread is out of it.
Calm == <>[][~ PrepareAgain /\ ~ Hotplug]_dpmVars
TransitionEnds == Calm => []<>(pc \in {"idle", "off"})
=============================================================================
