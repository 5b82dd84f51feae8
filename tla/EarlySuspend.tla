---------------------------- MODULE EarlySuspend ----------------------------
(***************************************************************************)
(* Early suspend and late resume, kernel/power/earlysuspend.c: user space  *)
(* writes "mem" or "on" to /sys/power/state, the handlers of the drivers   *)
(* are called on the suspend work queue, and the main wake lock is given   *)
(* up and taken back.                                                      *)
(*                                                                         *)
(* request_suspend_state blocks on fb_drv_ready inside its state_lock      *)
(* section.  On this build (one CPU, no preemption) a spin lock is only    *)
(* an interrupt mask and wait_for_completion opens it, so other tasks run  *)
(* request_suspend_state, and the work queue runs, while a caller waits.   *)
(*                                                                         *)
(* The wake lock core is abstracted to the main lock: while it is not held *)
(* the suspend work may or may not be queued, and may or may not find      *)
(* another lock.  Every handler has both hooks.                            *)
(***************************************************************************)
EXTENDS Integers, Sequences, FiniteSets

CONSTANTS Callers,   \* tasks that write /sys/power/state
          Handlers,  \* struct early_suspend objects
          Level,     \* their levels
          FbLevel    \* EARLY_SUSPEND_LEVEL_DISABLE_FB

ASSUME CallersAssumption == IsFiniteSet(Callers)
ASSUME LevelAssumption == Level \in [Handlers -> Int] /\ FbLevel \in Int

VARIABLES state,         \* the bits SUSPEND_REQUESTED and SUSPENDED
          requested_suspend_state,
          main_held,     \* main_wake_lock is active
          queue,         \* the pending works of suspend_work_queue
          worker,        \* where the thread of suspend_work_queue is
          todo,          \* handlers the current walk still has to call
          completed,     \* late_resume's local variable
          arg,           \* the argument of the last pm_suspend
          handlers,      \* the list early_suspend_handlers
          off,           \* handlers whose last hook called was suspend
          fb_done,       \* fb_drv_ready.done
          pc,            \* each caller of request_suspend_state
          writers        \* history: the tasks that have written so far

userVars == <<state, requested_suspend_state, main_held, pc, writers>>
workVars == <<worker, todo, completed, arg>>
handlerVars == <<handlers, off>>
esVars == <<userVars, workVars, handlerVars, queue, fb_done>>

REQUESTED == "SUSPEND_REQUESTED"
SUSPENDED == "SUSPENDED"
RequestedAndSuspended == {REQUESTED, SUSPENDED}

Works == {"suspend_work", "early_suspend_work", "late_resume_work"}
Queued(w) == \E i \in 1 .. Len(queue) : queue[i] = w
QueueWork(w) == queue' = IF Queued(w) THEN queue ELSE Append(queue, w)

Registered == {handlers[i] : i \in 1 .. Len(handlers)}

\* early_suspend_lock is held by the work queue while it walks the handlers.
MutexFree == worker \notin {"call_suspend", "call_resume"}

----------------------------------------------------------------------------
(* request_suspend_state, called by user space through state_store. *)

\* "mem" when nothing was requested: early suspend is queued.
RequestSleepNotStored(c) ==
    /\ pc[c] = "out"
    /\ REQUESTED \notin state
    /\ state' = state \cup {REQUESTED}
    /\ QueueWork("early_suspend_work")
    /\ writers' = writers \cup {c}
    /\ UNCHANGED <<requested_suspend_state, main_held, pc, workVars, handlerVars, fb_done>>
RequestSleep(c) ==
    /\ pc[c] = "out"
    /\ REQUESTED \notin state
    /\ state' = state \cup {REQUESTED}
    /\ QueueWork("early_suspend_work")
    /\ requested_suspend_state' = "mem"
    /\ writers' = writers \cup {c}
    /\ UNCHANGED <<main_held, pc, workVars, handlerVars, fb_done>>

\* "on" when a sleep was requested: the main lock is taken, late resume is
\* queued, and the caller that queued it waits for the frame buffer.
RequestOn(c) ==
    /\ pc[c] = "out"
    /\ REQUESTED \in state
    /\ state' = state \ {REQUESTED}
    /\ main_held' = TRUE
    /\ QueueWork("late_resume_work")
    /\ IF Queued("late_resume_work")
       THEN requested_suspend_state' = "on" /\ UNCHANGED pc
       ELSE pc' = [pc EXCEPT ![c] = "waiting"] /\ UNCHANGED requested_suspend_state
    /\ writers' = writers \cup {c}
    /\ UNCHANGED <<workVars, handlerVars, fb_done>>

\* A request for what was requested already only stores it.
RequestSame(c) ==
    /\ pc[c] = "out"
    /\ requested_suspend_state' = IF REQUESTED \in state THEN "mem" ELSE "on"
    /\ writers' = writers \cup {c}
    /\ UNCHANGED <<state, main_held, pc, workVars, handlerVars, queue, fb_done>>

\* wait_for_completion returns: any waiter may take the completion.
FbReady(c) ==
    /\ pc[c] = "waiting"
    /\ fb_done > 0
    /\ fb_done' = fb_done - 1
    /\ pc' = [pc EXCEPT ![c] = "out"]
    /\ requested_suspend_state' = "on"
    /\ UNCHANGED <<state, main_held, writers, workVars, handlerVars, queue>>

----------------------------------------------------------------------------
(* Registration, from a driver's probe and remove. *)

\* The list is kept sorted: h goes before the first handler of a higher level.
\* With the handlers suspended, the new one is suspended on the spot.
RegisterAwake(h) ==
    /\ MutexFree
    /\ h \notin Registered
    /\ handlers' = IF \A g \in Registered : Level[g] <= Level[h]
                   THEN Append(handlers, h) ELSE <<h>> \o handlers
    /\ off' = off \ {h}
    /\ UNCHANGED <<userVars, workVars, queue, fb_done>>
Register(h) ==
    /\ MutexFree
    /\ h \notin Registered
    /\ \E p \in 1 .. Len(handlers) + 1 :
          /\ \A i \in 1 .. p - 1 : Level[handlers[i]] <= Level[h]
          /\ p <= Len(handlers) => Level[handlers[p]] > Level[h]
          /\ handlers' = SubSeq(handlers, 1, p - 1) \o <<h>>
                             \o SubSeq(handlers, p, Len(handlers))
    /\ off' = IF SUSPENDED \in state THEN off \cup {h} ELSE off \ {h}
    /\ UNCHANGED <<userVars, workVars, queue, fb_done>>

Unregister(h) ==
    /\ MutexFree
    /\ h \in Registered
    /\ \E p \in 1 .. Len(handlers) :
          /\ handlers[p] = h
          /\ handlers' = SubSeq(handlers, 1, p - 1) \o SubSeq(handlers, p + 1, Len(handlers))
    /\ UNCHANGED <<off, userVars, workVars, queue, fb_done>>

----------------------------------------------------------------------------
(* The works, on the single thread of suspend_work_queue. *)

Dequeue ==
    /\ worker = "idle"
    /\ queue # << >>
    /\ worker' = Head(queue)
    /\ queue' = Tail(queue)
    /\ UNCHANGED <<userVars, todo, completed, arg, handlerVars, fb_done>>

\* early_suspend: its first critical section, with the mutex.
EarlySuspendAbortReturns ==
    /\ worker = "early_suspend_work"
    /\ IF state = {REQUESTED}
       THEN /\ state' = RequestedAndSuspended
            /\ worker' = "call_suspend"
            /\ todo' = handlers
       ELSE /\ worker' = "idle"
            /\ UNCHANGED <<state, todo>>
    /\ UNCHANGED <<requested_suspend_state, main_held, pc, writers, completed, arg,
                   handlerVars, queue, fb_done>>
EarlySuspendStart ==
    /\ worker = "early_suspend_work"
    /\ IF state = {REQUESTED}
       THEN /\ state' = RequestedAndSuspended
            /\ worker' = "call_suspend"
            /\ todo' = handlers
       ELSE /\ worker' = "sync"
            /\ UNCHANGED <<state, todo>>
    /\ UNCHANGED <<requested_suspend_state, main_held, pc, writers, completed, arg,
                   handlerVars, queue, fb_done>>

CallSuspend ==
    /\ worker = "call_suspend"
    /\ IF todo = << >>
       THEN worker' = "sync" /\ UNCHANGED <<todo, off>>
       ELSE /\ off' = off \cup {Head(todo)}
            /\ todo' = Tail(todo)
            /\ UNCHANGED worker
    /\ UNCHANGED <<userVars, completed, arg, handlers, queue, fb_done>>

\* The end of early_suspend: the main lock goes only if nobody has asked for
\* "on" in the meantime.  Without any other lock this queues the suspend work.
EarlySuspendEnd ==
    /\ worker = "sync"
    /\ worker' = "idle"
    /\ IF state = RequestedAndSuspended
       THEN /\ main_held' = FALSE
            /\ QueueWork("suspend_work") \/ UNCHANGED queue
       ELSE UNCHANGED <<main_held, queue>>
    /\ UNCHANGED <<state, requested_suspend_state, pc, writers, todo, completed, arg,
                   handlerVars, fb_done>>

\* late_resume: the walk is in reverse order; the first handler below the frame
\* buffer's level is preceded by complete(&fb_drv_ready).
LateResumeAbortSilent ==
    /\ worker = "late_resume_work"
    /\ IF state = {SUSPENDED}
       THEN /\ state' = {}
            /\ worker' = "call_resume"
            /\ todo' = handlers
            /\ completed' = FALSE
       ELSE /\ worker' = "idle"
            /\ UNCHANGED <<state, todo, completed>>
    /\ UNCHANGED <<requested_suspend_state, main_held, pc, writers, arg, handlerVars, queue, fb_done>>
LateResumeCompletesFirst ==
    /\ worker = "late_resume_work"
    /\ fb_done' = fb_done + 1
    /\ IF state = {SUSPENDED}
       THEN /\ state' = {}
            /\ worker' = "call_resume"
            /\ todo' = handlers
            /\ completed' = TRUE
       ELSE /\ worker' = "idle"
            /\ UNCHANGED <<state, todo, completed>>
    /\ UNCHANGED <<requested_suspend_state, main_held, pc, writers, arg, handlerVars, queue>>
LateResumeStart ==
    /\ worker = "late_resume_work"
    /\ IF state = {SUSPENDED}
       THEN /\ state' = {}
            /\ worker' = "call_resume"
            /\ todo' = handlers
            /\ completed' = FALSE
            /\ UNCHANGED fb_done
       ELSE /\ worker' = "idle"
            /\ fb_done' = fb_done + 1
            /\ UNCHANGED <<state, todo, completed>>
    /\ UNCHANGED <<requested_suspend_state, main_held, pc, writers, arg, handlerVars, queue>>

CallResume ==
    /\ worker = "call_resume"
    /\ todo # << >>
    /\ LET h == todo[Len(todo)]
           complete == ~ completed /\ Level[h] < FbLevel
       IN  /\ off' = off \ {h}
           /\ fb_done' = IF complete THEN fb_done + 1 ELSE fb_done
           /\ completed' = (completed \/ complete)
    /\ todo' = SubSeq(todo, 1, Len(todo) - 1)
    /\ UNCHANGED <<userVars, worker, arg, handlers, queue>>

LateResumeEndCompletes ==
    /\ worker = "call_resume"
    /\ todo = << >>
    /\ worker' = "idle"
    /\ fb_done' = fb_done + 1
    /\ UNCHANGED <<userVars, todo, completed, arg, handlerVars, queue>>
LateResumeEnd ==
    /\ worker = "call_resume"
    /\ todo = << >>
    /\ worker' = "idle"
    /\ fb_done' = IF completed THEN fb_done ELSE fb_done + 1
    /\ UNCHANGED <<userVars, todo, completed, arg, handlerVars, queue>>

----------------------------------------------------------------------------
(* The wake lock core, as far as it matters here. *)

\* The last other lock is released or expires with the main lock released.
OtherLocksGone ==
    /\ ~ main_held
    /\ QueueWork("suspend_work")
    /\ UNCHANGED <<userVars, workVars, handlerVars, fb_done>>

\* suspend(): returns at once if a lock is held, main or another.
SuspendCheck ==
    /\ worker = "suspend_work"
    /\ \/ worker' = "idle"
       \/ ~ main_held /\ worker' = "sys_sync"
    /\ UNCHANGED <<userVars, todo, completed, arg, handlerVars, queue, fb_done>>

\* pm_suspend(requested_suspend_state), after sys_sync.
SuspendEnter ==
    /\ worker = "sys_sync"
    /\ worker' = "pm_suspend"
    /\ arg' = requested_suspend_state
    /\ UNCHANGED <<userVars, todo, completed, handlerVars, queue, fb_done>>

\* A held main lock makes pm_suspend return; so may anything else.
SuspendReturn ==
    /\ worker = "pm_suspend"
    /\ worker' = "idle"
    /\ UNCHANGED <<userVars, todo, completed, arg, handlerVars, queue, fb_done>>

----------------------------------------------------------------------------
ESInit ==
    /\ state = {}
    /\ requested_suspend_state = "mem"
    /\ main_held = TRUE
    /\ queue = << >>
    /\ worker = "idle"
    /\ todo = << >>
    /\ completed = FALSE
    /\ arg = "mem"
    /\ handlers = << >>
    /\ off = {}
    /\ fb_done = 0
    /\ pc = [c \in Callers |-> "out"]
    /\ writers = {}

Waiters == {c \in Callers : pc[c] = "waiting"}

CallerStep == \E c \in Callers : \/ RequestSleep(c)
                                 \/ RequestOn(c)
                                 \/ RequestSame(c)
                                 \/ FbReady(c)

DriverStep == \E h \in Handlers : Register(h) \/ Unregister(h)

WorkStep == \/ Dequeue
            \/ EarlySuspendStart
            \/ CallSuspend
            \/ EarlySuspendEnd
            \/ LateResumeStart
            \/ CallResume
            \/ LateResumeEnd
            \/ SuspendCheck
            \/ SuspendEnter

ESNext == CallerStep \/ DriverStep \/ WorkStep \/ OtherLocksGone \/ SuspendReturn

\* The work queue's thread is never frozen and handlers return; a task that is
\* woken runs.  pm_suspend returns when the main lock is held, and also when a
\* caller waits for fb_drv_ready: its sleep is uninterruptible, so the freezer
\* gives up on it after 20 s (kernel/power/process.c).
ESFairness == /\ WF_esVars(WorkStep)
              /\ WF_esVars((main_held \/ Waiters # {}) /\ SuspendReturn)
              /\ \A c \in Callers : WF_esVars(FbReady(c))

ESSpec == ESInit /\ [][ESNext]_esVars
ESFairSpec == ESSpec /\ ESFairness

----------------------------------------------------------------------------
(* Properties. *)

ESTypeOK ==
    /\ state \subseteq RequestedAndSuspended
    /\ requested_suspend_state \in {"on", "mem"}
    /\ main_held \in BOOLEAN
    /\ queue \in Seq(Works)
    /\ worker \in Works \cup {"idle", "call_suspend", "call_resume", "sync",
                              "sys_sync", "pm_suspend"}
    /\ todo \in Seq(Handlers)
    /\ completed \in BOOLEAN
    /\ arg \in {"on", "mem"}
    /\ handlers \in Seq(Handlers)
    /\ off \subseteq Handlers
    /\ fb_done \in Nat
    /\ pc \in [Callers -> {"out", "waiting"}]
    /\ writers \subseteq Callers

\* Whenever nobody is walking the handlers, the registered ones are suspended
\* exactly if the state says so, whenever they were registered; in a walk none
\* is ahead of one of a lower level, as earlysuspend.h has it; and the main lock
\* is given up only while a sleep is requested and early suspend has run: an
\* "on" that comes at any moment takes it back at once.
HandlersMatchState ==
    /\ MutexFree => \A h \in Registered : h \in off <=> SUSPENDED \in state
    /\ ~ MutexFree =>
          \A g, h \in Registered : Level[g] < Level[h] /\ h \in off => g \in off
    /\ ~ main_held => state = RequestedAndSuspended

\* Each wait on fb_drv_ready has its own completion, taken, pending or to come:
\* none is lost and none is left over to let a later caller through early.
ToCome ==
    (IF Queued("late_resume_work") THEN 1 ELSE 0)
    + (IF worker = "late_resume_work" \/ (worker = "call_resume" /\ ~ completed)
       THEN 1 ELSE 0)
CompletionsMatchWaiters == ESTypeOK /\ fb_done + ToCome = Cardinality(Waiters)

\* The comment in request_suspend_state: the caller is blocked until the frame
\* buffer driver's late resume is done.  So a return from a request that turned
\* the system on should find every handler of its level or above resumed,
\* unless a sleep was requested again.
FbHandlers == {h \in Registered : Level[h] >= FbLevel}
FbUpOnReturn ==
    \A c \in Callers :
        (pc[c] = "waiting" \/ RequestOn(c)) /\ pc'[c] = "out"
        => REQUESTED \in state' \/ FbHandlers \cap off' = {}

\* It does as long as all the requests came from one task; another's request
\* that finds late_resume_work pending returns without waiting.
OneWriterWaits == [][Cardinality(writers') = 1 => FbUpOnReturn]_esVars

\* kernel/power/Kconfig: a sleep request is delayed until no wake locks are
\* held.  So when the system does go to suspend for a request that stands, with
\* no other request under way, it is called with a sleep state.
SleepRequestHonoured ==
    worker = "pm_suspend" /\ state = RequestedAndSuspended /\ Waiters = {}
        => arg = "mem"

\* It does hold as long as all the requests came from one task.
OneWriterHonoured == Cardinality(writers) = 1 => SleepRequestHonoured

\* Once no further "on" arrives to take its completion, a caller that waits for
\* the frame buffer is let go.
NoMoreOn == <>[][\A c \in Callers : ~ RequestOn(c)]_esVars
OnReturns == NoMoreOn => \A c \in Callers : pc[c] = "waiting" ~> pc[c] = "out"

\* A sleep request that is not withdrawn releases the main lock.
SleepReleasesMainLock == REQUESTED \in state ~> ~ main_held \/ REQUESTED \notin state
=============================================================================
