------------------------- MODULE EarlySuspendProofs -------------------------
(***************************************************************************)
(* Proofs about EarlySuspend for any finite set of callers and any         *)
(* handlers with their levels.                                             *)
(***************************************************************************)
EXTENDS EarlySuspend, SequenceTheorems, FiniteSetTheorems, TLAPS

----------------------------------------------------------------------------
(* The inductive invariant. *)

\* A work is pending at most once.
OneEach == \A i, j \in 1 .. Len(queue) : queue[i] = queue[j] => i = j

Matched == fb_done + ToCome = Cardinality(Waiters)

\* The list of handlers is sorted, each is on it once, and the ones that are off
\* are the first n.
Sorted == \A i, j \in 1 .. Len(handlers) :
              /\ i < j => Level[handlers[i]] <= Level[handlers[j]]
              /\ handlers[i] = handlers[j] => i = j
OffPrefix(n) == \A i \in 1 .. Len(handlers) : handlers[i] \in off <=> i <= n

\* early_suspend has called the hooks of all but the last Len(todo) handlers.
SuspendWalk ==
    /\ SUSPENDED \in state
    /\ Len(todo) <= Len(handlers) /\ OffPrefix(Len(handlers) - Len(todo))
    /\ \A i \in 1 .. Len(todo) : todo[i] = handlers[Len(handlers) - Len(todo) + i]

\* late_resume has called those of all but the first Len(todo), and once it has
\* completed fb_drv_ready only handlers below the frame buffer are left.
ResumeWalk ==
    /\ SUSPENDED \notin state
    /\ Len(todo) <= Len(handlers) /\ OffPrefix(Len(todo))
    /\ \A i \in 1 .. Len(todo) : todo[i] = handlers[i]
    /\ completed => \A i \in 1 .. Len(todo) : Level[todo[i]] < FbLevel

Walks ==
    /\ MutexFree => \A i \in 1 .. Len(handlers) : handlers[i] \in off <=> SUSPENDED \in state
    /\ worker = "call_suspend" => SuspendWalk
    /\ worker = "call_resume" => ResumeWalk

MainLock == ~ main_held => state = RequestedAndSuspended

\* As long as all requests came from one task: while it waits no sleep is
\* requested; the state it asked for is stored when the system goes to sleep;
\* and a completion it can take was made when the handlers were up.
Single == \A a, b \in writers : a = b
OneWriter ==
    /\ Waiters # {} => REQUESTED \notin state
    /\ REQUESTED \in state => requested_suspend_state = "mem"
    /\ worker \in {"sys_sync", "pm_suspend"} =>
          /\ requested_suspend_state = "mem"
          /\ REQUESTED \in state \/ Queued("late_resume_work")
    /\ worker = "pm_suspend" => arg = "mem"
    /\ Waiters # {} /\ fb_done > 0 => SUSPENDED \notin state

ESInv == /\ ESTypeOK /\ OneEach /\ Matched
         /\ Sorted /\ Walks /\ MainLock
         /\ Waiters \subseteq writers /\ (Single => OneWriter)

----------------------------------------------------------------------------
(* Lists and queues. *)

\* __queue_work appends a work that is not pending.
LEMMA QueueWorkFacts ==
    ASSUME queue \in Seq(Works), OneEach, NEW w \in Works, QueueWork(w)
    PROVE  queue' \in Seq(Works) /\ OneEach' /\ \A v : Queued(v)' <=> Queued(v) \/ v = w
<1>1. CASE Queued(w)
  BY <1>1 DEF QueueWork, Queued, OneEach
<1>2. CASE ~ Queued(w)
  <2>1. /\ queue' \in Seq(Works) /\ Len(queue') = Len(queue) + 1 /\ Len(queue) \in Nat
        /\ \A i \in 1 .. Len(queue) : queue'[i] = queue[i]
        /\ queue'[Len(queue) + 1] = w
    BY <1>2 DEF QueueWork
  <2>2. \A i \in 1 .. Len(queue) : queue[i] # w
    BY <1>2 DEF Queued
  <2>3. OneEach'
    BY <2>1, <2>2 DEF OneEach
  <2>4. ASSUME NEW v PROVE Queued(v)' <=> Queued(v) \/ v = w
    <3>1. Queued(v)' => Queued(v) \/ v = w
      BY <2>1 DEF Queued
    <3>2. Queued(v) => Queued(v)'
      BY <2>1 DEF Queued
    <3>3. v = w => Queued(v)'
      BY <2>1 DEF Queued
    <3>. QED
      BY <3>1, <3>2, <3>3
  <2>. QED
    BY <2>1, <2>3, <2>4
<1>. QED
  BY <1>1, <1>2

\* The work queue's thread takes the first one.
LEMMA DequeueFacts ==
    ASSUME queue \in Seq(Works), OneEach, queue # << >>, queue' = Tail(queue)
    PROVE  /\ Head(queue) \in Works /\ queue' \in Seq(Works) /\ OneEach'
           /\ Queued(Head(queue))
           /\ \A v : Queued(v)' <=> Queued(v) /\ v # Head(queue)
<1>1. /\ Len(queue) \in Nat /\ Len(queue) > 0 /\ Head(queue) = queue[1]
      /\ queue' \in Seq(Works) /\ Len(queue') = Len(queue) - 1
      /\ \A i \in 1 .. Len(queue') : queue'[i] = queue[i + 1]
  OBVIOUS
<1>2. Head(queue) \in Works /\ Queued(Head(queue))
  BY <1>1 DEF Queued
<1>3. OneEach'
  BY <1>1 DEF OneEach
<1>4. ASSUME NEW v PROVE Queued(v)' <=> Queued(v) /\ v # Head(queue)
  <2>1. ASSUME NEW i \in 1 .. Len(queue'), queue'[i] = v PROVE Queued(v) /\ v # Head(queue)
    <3>1. i + 1 \in 1 .. Len(queue) /\ queue[i + 1] = v /\ i + 1 # 1 /\ 1 \in 1 .. Len(queue)
      BY <1>1, <2>1
    <3>. QED
      BY <1>1, <3>1 DEF Queued, OneEach
  <2>2. ASSUME NEW i \in 1 .. Len(queue), queue[i] = v, v # Head(queue) PROVE Queued(v)'
    <3>1. i - 1 \in 1 .. Len(queue') /\ queue'[i - 1] = v
      BY <1>1, <2>2
    <3>. QED
      BY <3>1 DEF Queued
  <2>. QED
    BY <2>1, <2>2 DEF Queued
<1>. QED
  BY <1>1, <1>2, <1>3, <1>4

\* list_add_tail before the element at p.
WithElement(S, s, h, p) ==
    {t \in Seq(S) : /\ Len(t) = Len(s) + 1
                    /\ \A i \in 1 .. Len(t) :
                          t[i] = IF i < p THEN s[i] ELSE IF i = p THEN h ELSE s[i - 1]}
LEMMA Inserted ==
    ASSUME NEW S, NEW s \in Seq(S), NEW h \in S, NEW p \in 1 .. Len(s) + 1
    PROVE  SubSeq(s, 1, p - 1) \o <<h>> \o SubSeq(s, p, Len(s)) \in WithElement(S, s, h, p)
<1>. DEFINE a == SubSeq(s, 1, p - 1)
            b == SubSeq(s, p, Len(s))
            c == a \o <<h>>
            t == c \o b
<1>0. Len(s) \in Nat /\ p \in Nat
  OBVIOUS
<1>1. a \in Seq(S) /\ Len(a) = p - 1 /\ \A i \in 1 .. p - 1 : a[i] = s[i]
  BY <1>0, SubSeqProperties
<1>2. b \in Seq(S) /\ Len(b) = Len(s) - p + 1 /\ \A i \in 1 .. Len(b) : b[i] = s[p + i - 1]
  <2>1. \A i \in p .. Len(s) : s[i] \in S
    BY <1>0
  <2>2. /\ b \in Seq(S) /\ Len(b) = IF p <= Len(s) THEN Len(s) - p + 1 ELSE 0
        /\ \A i \in 1 .. Len(s) - p + 1 : b[i] = s[p + i - 1]
    BY ONLY <1>0, <2>1, SubSeqProperties DEF b
  <2>. QED
    BY <1>0, <2>2
<1>. HIDE DEF a, b
<1>3. c \in Seq(S) /\ Len(c) = p /\ (\A i \in 1 .. p - 1 : c[i] = s[i]) /\ c[p] = h
  BY <1>0, <1>1
<1>. HIDE DEF c
<1>4. /\ t \in Seq(S) /\ Len(t) = Len(s) + 1
      /\ \A i \in 1 .. p : t[i] = c[i]
      /\ \A i \in p + 1 .. Len(t) : t[i] = b[i - p]
  <2>1. /\ t \in Seq(S) /\ Len(t) = Len(c) + Len(b)
        /\ \A i \in 1 .. Len(c) + Len(b) : t[i] = IF i <= Len(c) THEN c[i] ELSE b[i - Len(c)]
    BY <1>2, <1>3, ConcatProperties
  <2>. HIDE DEF t
  <2>2. Len(t) = Len(s) + 1
    BY <1>0, <1>2, <1>3, <2>1
  <2>. QED
    BY <1>0, <1>2, <1>3, <2>1, <2>2
<1>. HIDE DEF t
<1>5. ASSUME NEW i \in 1 .. Len(t)
      PROVE  t[i] = IF i < p THEN s[i] ELSE IF i = p THEN h ELSE s[i - 1]
  BY <1>0, <1>2, <1>3, <1>4
<1>6. t = SubSeq(s, 1, p - 1) \o <<h>> \o SubSeq(s, p, Len(s))
  BY DEF a, b, c, t
<1>. QED
  BY <1>4, <1>5, <1>6 DEF WithElement

\* list_del of the element at p.
WithoutElement(S, s, p) ==
    {t \in Seq(S) : /\ Len(t) = Len(s) - 1
                    /\ \A i \in 1 .. Len(t) : t[i] = IF i < p THEN s[i] ELSE s[i + 1]}
LEMMA Deleted ==
    ASSUME NEW S, NEW s \in Seq(S), NEW p \in 1 .. Len(s)
    PROVE  SubSeq(s, 1, p - 1) \o SubSeq(s, p + 1, Len(s)) \in WithoutElement(S, s, p)
<1>. DEFINE a == SubSeq(s, 1, p - 1)
            b == SubSeq(s, p + 1, Len(s))
            t == a \o b
<1>0. Len(s) \in Nat /\ p \in Nat
  OBVIOUS
<1>1. a \in Seq(S) /\ Len(a) = p - 1 /\ \A i \in 1 .. p - 1 : a[i] = s[i]
  BY <1>0, SubSeqProperties
<1>2. b \in Seq(S) /\ Len(b) = Len(s) - p /\ \A i \in 1 .. Len(b) : b[i] = s[p + i]
  <2>1. \A i \in p + 1 .. Len(s) : s[i] \in S
    BY <1>0
  <2>2. /\ b \in Seq(S) /\ Len(b) = IF p + 1 <= Len(s) THEN Len(s) - (p + 1) + 1 ELSE 0
        /\ \A i \in 1 .. Len(s) - (p + 1) + 1 : b[i] = s[p + 1 + i - 1]
    <3>1. p + 1 \in Int /\ Len(s) \in Int
      BY <1>0
    <3>. QED
      BY ONLY <3>1, <2>1, SubSeqProperties DEF b
  <2>. QED
    BY <1>0, <2>2
<1>. HIDE DEF a, b
<1>3. /\ t \in Seq(S) /\ Len(t) = Len(s) - 1
      /\ \A i \in 1 .. Len(t) : t[i] = IF i < p THEN a[i] ELSE b[i - (p - 1)]
  <2>1. /\ t \in Seq(S) /\ Len(t) = Len(a) + Len(b)
        /\ \A i \in 1 .. Len(a) + Len(b) : t[i] = IF i <= Len(a) THEN a[i] ELSE b[i - Len(a)]
    BY <1>1, <1>2, ConcatProperties
  <2>. HIDE DEF t
  <2>2. Len(t) = Len(s) - 1
    BY <1>0, <1>1, <1>2, <2>1
  <2>3. ASSUME NEW i \in 1 .. Len(t) PROVE t[i] = IF i < p THEN a[i] ELSE b[i - (p - 1)]
    <3>1. i <= Len(a) <=> i < p
      BY <1>0, <1>1
    <3>. QED
      BY <1>1, <2>1, <3>1
  <2>. QED
    BY <2>1, <2>2, <2>3
<1>. HIDE DEF t
<1>4. ASSUME NEW i \in 1 .. Len(t) PROVE t[i] = IF i < p THEN s[i] ELSE s[i + 1]
  <2>0. i \in Nat /\ i >= 1 /\ i <= Len(s) - 1
    BY <1>0, <1>3
  <2>1. CASE i < p
    <3>1. i \in 1 .. p - 1
      BY <1>0, <2>0, <2>1
    <3>. QED
      BY <1>1, <1>3, <2>1, <3>1
  <2>2. CASE i >= p
    <3>1. i - (p - 1) \in 1 .. Len(b) /\ p + (i - (p - 1)) = i + 1 /\ ~ (i < p)
      BY <1>0, <1>2, <2>0, <2>2
    <3>2. b[i - (p - 1)] = s[p + (i - (p - 1))]
      BY <1>2, <3>1
    <3>. QED
      BY <1>3, <3>1, <3>2
  <2>. QED
    BY <1>0, <2>0, <2>1, <2>2
<1>5. t = SubSeq(s, 1, p - 1) \o SubSeq(s, p + 1, Len(s))
  BY DEF a, b, t
<1>. QED
  BY <1>3, <1>4, <1>5 DEF WithoutElement

----------------------------------------------------------------------------
(* Types, and the queue. *)

Data ==
    /\ state \subseteq RequestedAndSuspended
    /\ requested_suspend_state \in {"on", "mem"}
    /\ worker \in Works \cup {"idle", "call_suspend", "call_resume", "sync",
                              "sys_sync", "pm_suspend"}
    /\ arg \in {"on", "mem"}
    /\ off \subseteq Handlers
    /\ fb_done \in Nat
    /\ pc \in [Callers -> {"out", "waiting"}]
    /\ writers \subseteq Callers
Lists == queue \in Seq(Works) /\ todo \in Seq(Handlers) /\ handlers \in Seq(Handlers)
Flags == main_held \in BOOLEAN /\ completed \in BOOLEAN

\* The two flags of early suspend are flags.
LEMMA FlagsNext == Flags /\ [ESNext]_esVars => Flags'
<1>. SUFFICES ASSUME Flags, [ESNext]_esVars PROVE Flags'
  OBVIOUS
<1>1. ASSUME NEW c \in Callers, \/ RequestSleep(c) \/ RequestOn(c) \/ RequestSame(c)
                                \/ FbReady(c)
      PROVE  Flags'
  BY <1>1, Zenon DEF Flags, RequestSleep, RequestOn, RequestSame, FbReady, workVars
<1>2. ASSUME NEW h \in Handlers, Register(h) \/ Unregister(h) PROVE Flags'
  BY <1>2, Zenon DEF Flags, Register, Unregister, userVars, workVars
<1>3. CASE Dequeue \/ EarlySuspendStart \/ CallSuspend \/ EarlySuspendEnd
  BY <1>3, Zenon DEF Flags, Dequeue, EarlySuspendStart, CallSuspend, EarlySuspendEnd, userVars
<1>4. CASE LateResumeStart \/ LateResumeEnd \/ SuspendCheck \/ SuspendEnter \/ SuspendReturn
  BY <1>4, Zenon DEF Flags, LateResumeStart, LateResumeEnd, SuspendCheck, SuspendEnter,
                     SuspendReturn, userVars
<1>5. CASE CallResume
  <2>1. completed' \in BOOLEAN
    <3>. DEFINE b == ~ completed /\ Level[todo[Len(todo)]] < FbLevel
    <3>1. completed' = (completed \/ b)
      BY <1>5 DEF CallResume
    <3>. HIDE DEF b
    <3>. QED
      BY <3>1, Zenon
  <2>2. main_held' = main_held
    BY <1>5 DEF CallResume, userVars
  <2>. QED
    BY <2>1, <2>2 DEF Flags
<1>6. CASE OtherLocksGone \/ UNCHANGED esVars
  BY <1>6, Zenon DEF Flags, OtherLocksGone, esVars, userVars, workVars
<1>. QED
  BY <1>1, <1>2, <1>3, <1>4, <1>5, <1>6 DEF ESNext, CallerStep, DriverStep, WorkStep

\* The lists have their elements, and a work is pending once.
LEMMA ListsNext == Lists /\ OneEach /\ [ESNext]_esVars => Lists' /\ OneEach'
<1>. SUFFICES ASSUME Lists, OneEach, [ESNext]_esVars PROVE Lists' /\ OneEach'
  OBVIOUS
<1>0. "early_suspend_work" \in Works /\ "late_resume_work" \in Works /\ "suspend_work" \in Works
  BY DEF Works
<1>1. queue' = queue => OneEach'
  BY DEF OneEach
<1>2. ASSUME NEW c \in Callers, RequestSleep(c) PROVE Lists' /\ OneEach'
  BY <1>0, <1>2, QueueWorkFacts DEF Lists, RequestSleep, workVars, handlerVars
<1>3. ASSUME NEW c \in Callers, RequestOn(c) PROVE Lists' /\ OneEach'
  BY <1>0, <1>3, QueueWorkFacts DEF Lists, RequestOn, workVars, handlerVars
<1>4. ASSUME NEW c \in Callers, RequestSame(c) \/ FbReady(c) PROVE Lists' /\ OneEach'
  BY <1>1, <1>4 DEF Lists, RequestSame, FbReady, workVars, handlerVars
<1>5. ASSUME NEW h \in Handlers, Register(h) PROVE Lists' /\ OneEach'
  <2>1. PICK p \in 1 .. Len(handlers) + 1 :
            handlers' = SubSeq(handlers, 1, p - 1) \o <<h>> \o SubSeq(handlers, p, Len(handlers))
    BY <1>5 DEF Register
  <2>2. handlers' \in Seq(Handlers)
    BY <2>1, Inserted DEF Lists, WithElement
  <2>. QED
    BY <1>1, <1>5, <2>2 DEF Lists, Register, workVars
<1>6. ASSUME NEW h \in Handlers, Unregister(h) PROVE Lists' /\ OneEach'
  <2>1. PICK p \in 1 .. Len(handlers) :
            handlers' = SubSeq(handlers, 1, p - 1) \o SubSeq(handlers, p + 1, Len(handlers))
    BY <1>6 DEF Unregister
  <2>2. handlers' \in Seq(Handlers)
    BY <2>1, Deleted DEF Lists, WithoutElement
  <2>. QED
    BY <1>1, <1>6, <2>2 DEF Lists, Unregister, workVars
<1>7. CASE Dequeue
  BY <1>7, DequeueFacts DEF Lists, Dequeue, handlerVars
<1>8. CASE EarlySuspendStart \/ LateResumeStart
  BY <1>1, <1>8 DEF Lists, EarlySuspendStart, LateResumeStart, handlerVars
<1>9. CASE CallSuspend
  <2>1. todo # << >> => Tail(todo) \in Seq(Handlers)
    BY DEF Lists
  <2>. QED
    BY <1>1, <1>9, <2>1 DEF Lists, CallSuspend
<1>10. CASE CallResume
  <2>1. todo \in Seq(Handlers) /\ todo # << >> /\ todo' = SubSeq(todo, 1, Len(todo) - 1)
        /\ queue' = queue /\ handlers' = handlers
    BY <1>10 DEF Lists, CallResume
  <2>2. todo' \in Seq(Handlers)
    BY <2>1
  <2>. QED
    BY <1>1, <2>1, <2>2 DEF Lists
<1>11. CASE EarlySuspendEnd
  BY <1>0, <1>1, <1>11, QueueWorkFacts DEF Lists, EarlySuspendEnd, handlerVars
<1>12. CASE OtherLocksGone
  BY <1>0, <1>12, QueueWorkFacts DEF Lists, OtherLocksGone, workVars, handlerVars
<1>13. CASE LateResumeEnd \/ SuspendCheck \/ SuspendEnter \/ SuspendReturn \/ UNCHANGED esVars
  BY <1>1, <1>13 DEF Lists, LateResumeEnd, SuspendCheck, SuspendEnter, SuspendReturn, esVars,
                     workVars, handlerVars
<1>. QED
  BY <1>2, <1>3, <1>4, <1>5, <1>6, <1>7, <1>8, <1>9, <1>10, <1>11, <1>12, <1>13
     DEF ESNext, CallerStep, DriverStep, WorkStep

\* The rest of the variables have their types.
LEMMA DataNext == Data /\ Lists /\ [ESNext]_esVars => Data'
<1>. SUFFICES ASSUME Data, Lists, [ESNext]_esVars PROVE Data'
  OBVIOUS
<1>1. ASSUME NEW c \in Callers, \/ RequestSleep(c) \/ RequestOn(c) \/ RequestSame(c)
                                \/ FbReady(c)
      PROVE  Data'
  BY <1>1 DEF Data, RequestSleep, RequestOn, RequestSame, FbReady, workVars, handlerVars,
              RequestedAndSuspended
<1>2. ASSUME NEW h \in Handlers, Register(h) \/ Unregister(h) PROVE Data'
  BY <1>2 DEF Data, Register, Unregister, userVars, workVars
<1>3. CASE Dequeue
  <2>1. Head(queue) \in Works
    BY <1>3 DEF Dequeue, Lists
  <2>. QED
    BY <1>3, <2>1 DEF Data, Dequeue, userVars, handlerVars
<1>4. CASE EarlySuspendStart \/ EarlySuspendEnd
  BY <1>4 DEF Data, EarlySuspendStart, EarlySuspendEnd, userVars, handlerVars,
              RequestedAndSuspended
<1>5. CASE LateResumeStart \/ LateResumeEnd \/ SuspendCheck \/ SuspendEnter \/ SuspendReturn
  BY <1>5 DEF Data, LateResumeStart, LateResumeEnd, SuspendCheck, SuspendEnter,
              SuspendReturn, userVars, handlerVars
<1>6. CASE CallSuspend
  <2>1. todo # << >> => Head(todo) \in Handlers
    BY DEF Lists
  <2>. QED
    BY <1>6, <2>1 DEF Data, CallSuspend, userVars
<1>7. CASE CallResume
  BY <1>7 DEF Data, CallResume, userVars
<1>8. CASE OtherLocksGone \/ UNCHANGED esVars
  BY <1>8 DEF Data, OtherLocksGone, esVars, userVars, workVars, handlerVars
<1>. QED
  BY <1>1, <1>2, <1>3, <1>4, <1>5, <1>6, <1>7, <1>8 DEF ESNext, CallerStep, DriverStep, WorkStep

\* The three together are the type invariant.
LEMMA TypesSplit == ESTypeOK <=> Data /\ Lists /\ Flags
BY DEF ESTypeOK, Data, Lists, Flags

----------------------------------------------------------------------------
(* Completions and waiters. *)

\* A caller that begins or ends its wait.
LEMMA WaitersChange ==
    ASSUME Data, NEW c \in Callers
    PROVE  /\ Cardinality(Waiters) \in Nat
           /\ Cardinality(Waiters) = 0 <=> Waiters = {}
           /\ pc[c] = "out" /\ pc' = [pc EXCEPT ![c] = "waiting"] =>
                 /\ Waiters' = Waiters \cup {c}
                 /\ Cardinality(Waiters') = Cardinality(Waiters) + 1
           /\ pc[c] = "waiting" /\ pc' = [pc EXCEPT ![c] = "out"] =>
                 /\ Waiters' = Waiters \ {c}
                 /\ Cardinality(Waiters') = Cardinality(Waiters) - 1
<1>1. IsFiniteSet(Waiters)
  BY CallersAssumption, FS_Subset DEF Waiters
<1>2. Cardinality(Waiters) \in Nat /\ (Cardinality(Waiters) = 0 <=> Waiters = {})
  BY <1>1, FS_CardinalityType, FS_EmptySet
<1>3. ASSUME pc[c] = "out", pc' = [pc EXCEPT ![c] = "waiting"]
      PROVE  /\ Waiters' = Waiters \cup {c}
             /\ Cardinality(Waiters') = Cardinality(Waiters) + 1
  <2>1. Waiters' = Waiters \cup {c} /\ c \notin Waiters
    BY <1>3 DEF Data, Waiters
  <2>. QED
    BY <1>1, <2>1, FS_AddElement
<1>4. ASSUME pc[c] = "waiting", pc' = [pc EXCEPT ![c] = "out"]
      PROVE  /\ Waiters' = Waiters \ {c}
             /\ Cardinality(Waiters') = Cardinality(Waiters) - 1
  <2>1. Waiters' = Waiters \ {c} /\ c \in Waiters
    BY <1>4 DEF Data, Waiters
  <2>. QED
    BY <1>1, <2>1, FS_RemoveElement
<1>. QED
  BY <1>2, <1>3, <1>4

\* The steps after which the same completions are to come for the same waiters.
Late == worker = "late_resume_work" \/ (worker = "call_resume" /\ ~ completed)
LEMMA MatchedSame ==
    ASSUME Matched, pc' = pc, fb_done' = fb_done,
           Queued("late_resume_work")' <=> Queued("late_resume_work"), Late' <=> Late
    PROVE  Matched'
<1>1. Waiters' = Waiters
  BY DEF Waiters
<1>. QED
  BY <1>1 DEF Matched, ToCome, Late

\* late_resume lets exactly one caller go for each time it was queued.
LEMMA MatchedNext == Data /\ Lists /\ OneEach /\ Matched /\ [ESNext]_esVars => Matched'
<1>. SUFFICES ASSUME Data, Lists, OneEach, Matched, [ESNext]_esVars PROVE Matched'
  OBVIOUS
<1>0. /\ "early_suspend_work" \in Works /\ "late_resume_work" \in Works /\ "suspend_work" \in Works
      /\ queue \in Seq(Works) /\ fb_done \in Nat
      /\ pc \in [Callers -> {"out", "waiting"}]
  BY DEF Works, Lists, Data
<1>1. queue' = queue => (Queued("late_resume_work")' <=> Queued("late_resume_work"))
  BY DEF Queued
<1>2. ASSUME NEW c \in Callers, RequestSleep(c) PROVE Matched'
  <2>1. Queued("late_resume_work")' <=> Queued("late_resume_work")
    BY <1>0, <1>2, QueueWorkFacts DEF RequestSleep
  <2>. QED
    BY <1>2, <2>1, MatchedSame DEF RequestSleep, workVars, Late
<1>3. ASSUME NEW c \in Callers, RequestOn(c) PROVE Matched'
  <2>1. Queued("late_resume_work")'
    BY <1>0, <1>3, QueueWorkFacts DEF RequestOn
  <2>2. /\ fb_done' = fb_done /\ (Late' <=> Late)
    BY <1>3 DEF RequestOn, workVars, Late
  <2>3. CASE Queued("late_resume_work")
    <3>1. pc' = pc
      BY <1>3, <2>3 DEF RequestOn
    <3>. QED
      BY <2>1, <2>2, <2>3, <3>1, MatchedSame
  <2>4. CASE ~ Queued("late_resume_work")
    <3>1. pc[c] = "out" /\ pc' = [pc EXCEPT ![c] = "waiting"]
      BY <1>3, <2>4 DEF RequestOn
    <3>2. Cardinality(Waiters') = Cardinality(Waiters) + 1 /\ Cardinality(Waiters) \in Nat
      BY <3>1, WaitersChange
    <3>3. ToCome' = ToCome + 1
      BY <2>1, <2>2, <2>4 DEF ToCome, Late
    <3>4. ToCome \in Nat
      BY DEF ToCome
    <3>. QED
      BY <1>0, <2>2, <3>2, <3>3, <3>4 DEF Matched
  <2>. QED
    BY <2>3, <2>4
<1>4. ASSUME NEW c \in Callers, RequestSame(c) PROVE Matched'
  BY <1>1, <1>4, MatchedSame DEF RequestSame, workVars, Late
<1>5. ASSUME NEW c \in Callers, FbReady(c) PROVE Matched'
  <2>1. /\ pc[c] = "waiting" /\ pc' = [pc EXCEPT ![c] = "out"]
        /\ fb_done' = fb_done - 1 /\ queue' = queue /\ (Late' <=> Late)
    BY <1>5 DEF FbReady, workVars, Late
  <2>2. Cardinality(Waiters') = Cardinality(Waiters) - 1 /\ Cardinality(Waiters) \in Nat
    BY <2>1, WaitersChange
  <2>3. ToCome' = ToCome /\ ToCome \in Nat
    BY <1>1, <2>1 DEF ToCome, Late
  <2>. QED
    BY <1>0, <2>1, <2>2, <2>3 DEF Matched
<1>6. CASE DriverStep
  <2>1. pc' = pc /\ fb_done' = fb_done /\ queue' = queue /\ worker' = worker
        /\ completed' = completed
    BY <1>6 DEF DriverStep, Register, Unregister, userVars, workVars
  <2>. QED
    BY <1>1, <2>1, MatchedSame DEF Late
<1>7. CASE Dequeue
  <2>1. /\ queue # << >> /\ queue' = Tail(queue) /\ worker = "idle" /\ worker' = Head(queue)
        /\ fb_done' = fb_done /\ Waiters' = Waiters
    BY <1>7 DEF Dequeue, userVars, Waiters
  <2>2. /\ Head(queue) \in Works /\ Queued(Head(queue))
        /\ Queued("late_resume_work")' <=>
              Queued("late_resume_work") /\ "late_resume_work" # Head(queue)
    BY <1>0, <2>1, DequeueFacts
  <2>3. ~ Late /\ (Late' <=> Head(queue) = "late_resume_work")
    BY <2>1, <2>2 DEF Late, Works
  <2>4. ToCome' = ToCome
    BY <2>2, <2>3 DEF ToCome, Late
  <2>. QED
    BY <2>1, <2>4 DEF Matched
<1>8. CASE EarlySuspendStart \/ CallSuspend
  <2>1. pc' = pc /\ fb_done' = fb_done /\ queue' = queue /\ ~ Late /\ ~ Late'
    BY <1>8 DEF EarlySuspendStart, CallSuspend, userVars, Late
  <2>. QED
    BY <1>1, <2>1, MatchedSame
<1>9. CASE EarlySuspendEnd
  <2>1. Queued("late_resume_work")' <=> Queued("late_resume_work")
    BY <1>0, <1>1, <1>9, QueueWorkFacts DEF EarlySuspendEnd
  <2>. QED
    BY <1>9, <2>1, MatchedSame DEF EarlySuspendEnd, Late
<1>10. CASE LateResumeStart
  <2>1. CASE state = {SUSPENDED}
    BY <1>1, <1>10, <2>1, MatchedSame DEF LateResumeStart, Late
  <2>2. CASE state # {SUSPENDED}
    <3>1. Late /\ ~ Late' /\ fb_done' = fb_done + 1 /\ queue' = queue /\ Waiters' = Waiters
      BY <1>10, <2>2 DEF LateResumeStart, Late, Waiters
    <3>2. ToCome' = ToCome - 1 /\ ToCome \in Nat
      BY <1>1, <3>1 DEF ToCome, Late
    <3>. QED
      BY <1>0, <3>1, <3>2 DEF Matched
  <2>. QED
    BY <2>1, <2>2
<1>11. CASE CallResume
  <2>. DEFINE complete == ~ completed /\ Level[todo[Len(todo)]] < FbLevel
  <2>1. /\ worker = "call_resume" /\ worker' = worker /\ queue' = queue /\ pc' = pc
        /\ fb_done' = IF complete THEN fb_done + 1 ELSE fb_done
        /\ completed' = (completed \/ complete)
    BY <1>11 DEF CallResume, userVars
  <2>2. CASE complete
    <3>1. completed' /\ ~ completed
      BY <2>1, <2>2
    <3>2. Late /\ ~ Late' /\ fb_done' = fb_done + 1
      BY <2>1, <2>2, <3>1 DEF Late
    <3>3. ToCome' = ToCome - 1 /\ ToCome \in Nat
      BY <1>1, <2>1, <3>2 DEF ToCome, Late
    <3>4. Waiters' = Waiters
      BY <2>1 DEF Waiters
    <3>. QED
      BY <1>0, <3>2, <3>3, <3>4 DEF Matched
  <2>3. CASE ~ complete
    <3>. HIDE DEF complete
    <3>1. completed' <=> completed
      BY <2>1, <2>3
    <3>. QED
      BY <1>1, <2>1, <2>3, <3>1, MatchedSame DEF Late
  <2>. QED
    BY <2>2, <2>3
<1>12. CASE LateResumeEnd
  <2>1. /\ worker = "call_resume" /\ worker' = "idle" /\ queue' = queue /\ pc' = pc
        /\ fb_done' = IF completed THEN fb_done ELSE fb_done + 1
    BY <1>12 DEF LateResumeEnd, userVars
  <2>2. Waiters' = Waiters
    BY <2>1 DEF Waiters
  <2>3. CASE completed
    BY <1>1, <2>1, <2>3, MatchedSame DEF Late
  <2>4. CASE ~ completed
    <3>1. ToCome' = ToCome - 1 /\ ToCome \in Nat
      BY <1>1, <2>1, <2>4 DEF ToCome
    <3>. QED
      BY <1>0, <2>1, <2>2, <2>4, <3>1 DEF Matched
  <2>. QED
    BY <2>3, <2>4
<1>13. CASE SuspendCheck \/ SuspendEnter \/ SuspendReturn
  <2>1. pc' = pc /\ fb_done' = fb_done /\ queue' = queue /\ ~ Late /\ ~ Late'
    BY <1>13 DEF SuspendCheck, SuspendEnter, SuspendReturn, userVars, Late
  <2>. QED
    BY <1>1, <2>1, MatchedSame
<1>14. CASE OtherLocksGone
  <2>1. Queued("late_resume_work")' <=> Queued("late_resume_work")
    BY <1>0, <1>14, QueueWorkFacts DEF OtherLocksGone
  <2>. QED
    BY <1>14, <2>1, MatchedSame DEF OtherLocksGone, userVars, workVars, Late
<1>15. CASE UNCHANGED esVars
  BY <1>1, <1>15, MatchedSame DEF esVars, userVars, workVars, Late
<1>. QED
  BY <1>2, <1>3, <1>4, <1>5, <1>6, <1>7, <1>8, <1>9, <1>10, <1>11, <1>12, <1>13, <1>14, <1>15
     DEF ESNext, CallerStep, WorkStep

----------------------------------------------------------------------------
(* The handlers. *)

\* Registration keeps the list sorted and suspends the new handler with the rest.
LEMMA RegisterKeeps ==
    ASSUME Lists, Sorted, Walks, NEW h \in Handlers, Register(h)
    PROVE  Sorted' /\ Walks'
<1>1. PICK p \in 1 .. Len(handlers) + 1 :
          /\ \A i \in 1 .. p - 1 : Level[handlers[i]] <= Level[h]
          /\ p <= Len(handlers) => Level[handlers[p]] > Level[h]
          /\ handlers' = SubSeq(handlers, 1, p - 1) \o <<h>> \o SubSeq(handlers, p, Len(handlers))
  BY DEF Register
<1>2. /\ handlers \in Seq(Handlers) /\ Len(handlers) \in Nat /\ p \in Nat
      /\ Len(handlers') = Len(handlers) + 1
      /\ \A i \in 1 .. Len(handlers') :
            handlers'[i] = IF i < p THEN handlers[i] ELSE IF i = p THEN h ELSE handlers[i - 1]
  <2>1. handlers' \in WithElement(Handlers, handlers, h, p)
    BY <1>1, Inserted DEF Lists
  <2>2. handlers \in Seq(Handlers) /\ Len(handlers) \in Nat /\ p \in Nat
    BY DEF Lists
  <2>3. /\ Len(handlers') = Len(handlers) + 1
        /\ \A i \in 1 .. Len(handlers') :
              handlers'[i] = IF i < p THEN handlers[i] ELSE IF i = p THEN h
                             ELSE handlers[i - 1]
    BY ONLY <2>1, Zenon DEF WithElement
  <2>. QED
    BY <2>2, <2>3
<1>3. /\ MutexFree /\ worker' = worker /\ state' = state
      /\ off' = IF SUSPENDED \in state THEN off \cup {h} ELSE off \ {h}
  BY DEF Register, workVars, userVars
<1>4. \A i \in 1 .. Len(handlers) : handlers[i] # h
  BY DEF Register, Registered
<1>5. \A g \in Handlers : Level[g] \in Int
  BY LevelAssumption
<1>6. \A i \in 1 .. Len(handlers) : Level[handlers[i]] \in Int /\ Level[h] \in Int
  BY <1>2, <1>5
<1>7. ASSUME NEW i \in 1 .. Len(handlers'), NEW j \in 1 .. Len(handlers')
      PROVE  /\ i < j => Level[handlers'[i]] <= Level[handlers'[j]]
             /\ handlers'[i] = handlers'[j] => i = j
  <2>. DEFINE old(x) == IF x < p THEN x ELSE x - 1
  <2>1. \A x \in 1 .. Len(handlers') : x # p =>
            old(x) \in 1 .. Len(handlers) /\ handlers'[x] = handlers[old(x)]
    BY <1>2
  <2>2. CASE i # p /\ j # p
    <3>1. /\ old(i) \in 1 .. Len(handlers) /\ old(j) \in 1 .. Len(handlers)
          /\ handlers'[i] = handlers[old(i)] /\ handlers'[j] = handlers[old(j)]
      BY <2>1, <2>2
    <3>2. (i < j => old(i) < old(j)) /\ (old(i) = old(j) => i = j)
      BY <1>2, <2>2
    <3>. HIDE DEF old
    <3>. QED
      BY <3>1, <3>2 DEF Sorted
  <2>3. CASE i = p /\ j # p
    <3>1. handlers'[i] = h
      BY <1>2, <2>3
    <3>2. old(j) \in 1 .. Len(handlers) /\ handlers'[j] = handlers[old(j)]
      BY <2>1, <2>3
    <3>3. ASSUME i < j PROVE Level[h] <= Level[handlers[old(j)]]
      <4>1. p \in 1 .. Len(handlers) /\ p <= old(j)
        BY <1>2, <2>3, <3>2, <3>3
      <4>2. Level[handlers[p]] <= Level[handlers[old(j)]]
        <5>1. CASE p = old(j)
          BY <1>6, <3>2, <5>1
        <5>2. CASE p < old(j)
          BY <3>2, <4>1, <5>2 DEF Sorted
        <5>. QED
          BY <1>2, <3>2, <4>1, <5>1, <5>2
      <4>3. Level[h] < Level[handlers[p]]
        BY <1>1, <1>6, <4>1
      <4>. QED
        BY <1>6, <3>2, <4>1, <4>2, <4>3
    <3>4. handlers[old(j)] # h
      BY <1>4, <3>2
    <3>. QED
      BY <3>1, <3>2, <3>3, <3>4
  <2>4. CASE i # p /\ j = p
    <3>1. handlers'[j] = h
      BY <1>2, <2>4
    <3>2. old(i) \in 1 .. Len(handlers) /\ handlers'[i] = handlers[old(i)]
      BY <2>1, <2>4
    <3>3. ASSUME i < j PROVE Level[handlers[old(i)]] <= Level[h]
      BY <1>1, <1>2, <2>4, <3>2, <3>3
    <3>4. handlers[old(i)] # h
      BY <1>4, <3>2
    <3>. QED
      BY <3>1, <3>2, <3>3, <3>4
  <2>5. CASE i = p /\ j = p
    BY <1>2, <2>5
  <2>. QED
    BY <2>2, <2>3, <2>4, <2>5
<1>8. ASSUME NEW i \in 1 .. Len(handlers') PROVE handlers'[i] \in off' <=> SUSPENDED \in state'
  <2>1. CASE i = p
    BY <1>2, <1>3, <2>1
  <2>2. CASE i # p
    <3>1. PICK x \in 1 .. Len(handlers) : handlers'[i] = handlers[x]
      BY <1>2, <2>2
    <3>2. handlers[x] \in off <=> SUSPENDED \in state
      BY <1>3 DEF Walks
    <3>. QED
      BY <1>3, <1>4, <3>1, <3>2
  <2>. QED
    BY <2>1, <2>2
<1>9. Walks'
  BY <1>3, <1>8 DEF Walks, MutexFree
<1>. QED
  BY <1>7, <1>9 DEF Sorted

\* A handler that leaves does not disturb the others.
LEMMA UnregisterKeeps ==
    ASSUME Lists, Sorted, Walks, NEW h \in Handlers, Unregister(h)
    PROVE  Sorted' /\ Walks'
<1>1. PICK p \in 1 .. Len(handlers) :
          handlers' = SubSeq(handlers, 1, p - 1) \o SubSeq(handlers, p + 1, Len(handlers))
  BY DEF Unregister
<1>2. /\ handlers \in Seq(Handlers) /\ Len(handlers) \in Nat /\ p \in Nat
      /\ Len(handlers') = Len(handlers) - 1
      /\ \A i \in 1 .. Len(handlers') :
            handlers'[i] = IF i < p THEN handlers[i] ELSE handlers[i + 1]
  <2>1. handlers' \in WithoutElement(Handlers, handlers, p)
    BY <1>1, Deleted DEF Lists
  <2>. QED
    BY <2>1 DEF Lists, WithoutElement
<1>3. MutexFree /\ worker' = worker /\ state' = state /\ off' = off
  BY DEF Unregister, workVars, userVars
<1>. DEFINE old(x) == IF x < p THEN x ELSE x + 1
<1>4. \A x \in 1 .. Len(handlers') :
         old(x) \in 1 .. Len(handlers) /\ handlers'[x] = handlers[old(x)]
  BY <1>2
<1>5. \A i, j \in 1 .. Len(handlers') :
         (i < j => old(i) < old(j)) /\ (old(i) = old(j) => i = j)
  BY <1>2
<1>. HIDE DEF old
<1>6. Sorted'
  BY <1>4, <1>5 DEF Sorted
<1>7. ASSUME NEW i \in 1 .. Len(handlers') PROVE handlers'[i] \in off' <=> SUSPENDED \in state'
  BY <1>3, <1>4 DEF Walks
<1>8. Walks'
  BY <1>3, <1>7 DEF Walks, MutexFree
<1>. QED
  BY <1>6, <1>8

\* One hook called, in order.
LEMMA CallSuspendKeeps ==
    ASSUME Lists, Sorted, Walks, CallSuspend
    PROVE  Walks'
<1>1. /\ worker = "call_suspend" /\ handlers' = handlers /\ state' = state /\ SuspendWalk
      /\ todo \in Seq(Handlers) /\ handlers \in Seq(Handlers)
      /\ Len(todo) \in Nat /\ Len(handlers) \in Nat
  BY DEF CallSuspend, Walks, userVars, Lists
<1>2. CASE todo = << >>
  <2>1. worker' = "sync" /\ off' = off
    BY <1>2 DEF CallSuspend
  <2>2. \A i \in 1 .. Len(handlers) : handlers[i] \in off
    BY <1>1, <1>2 DEF SuspendWalk, OffPrefix
  <2>. QED
    BY <1>1, <2>1, <2>2 DEF Walks, SuspendWalk, MutexFree
<1>3. CASE todo # << >>
  <2>. DEFINE n == Len(handlers) - Len(todo)
  <2>1. /\ worker' = worker /\ off' = off \cup {Head(todo)} /\ todo' = Tail(todo)
    BY <1>3 DEF CallSuspend
  <2>2. /\ Len(todo') = Len(todo) - 1 /\ Len(todo) > 0 /\ Head(todo) = todo[1]
        /\ \A i \in 1 .. Len(todo') : todo'[i] = todo[i + 1]
    BY <1>1, <1>3, <2>1
  <2>3. Head(todo) = handlers[n + 1] /\ n + 1 \in 1 .. Len(handlers)
    BY <1>1, <2>2 DEF SuspendWalk
  <2>4. ASSUME NEW i \in 1 .. Len(handlers)
        PROVE  handlers[i] \in off' <=> i <= Len(handlers) - Len(todo')
    <3>1. handlers[i] \in off <=> i <= n
      BY <1>1 DEF SuspendWalk, OffPrefix
    <3>2. handlers[i] = Head(todo) <=> i = n + 1
      BY <2>3 DEF Sorted
    <3>3. Len(handlers) - Len(todo') = n + 1
      BY <1>1, <2>2
    <3>. QED
      BY <1>1, <2>1, <3>1, <3>2, <3>3
  <2>5. ASSUME NEW i \in 1 .. Len(todo')
        PROVE  todo'[i] = handlers[Len(handlers) - Len(todo') + i]
    <3>1. i + 1 \in 1 .. Len(todo) /\ n + (i + 1) = Len(handlers) - Len(todo') + i
      BY <1>1, <2>2
    <3>. QED
      BY <1>1, <2>2, <3>1 DEF SuspendWalk
  <2>6. SuspendWalk'
    BY <1>1, <2>2, <2>4, <2>5 DEF SuspendWalk, OffPrefix
  <2>. QED
    BY <1>1, <2>1, <2>6 DEF Walks, MutexFree
<1>. QED
  BY <1>2, <1>3

\* One hook called, in reverse order; when the first handler below the frame
\* buffer's level comes, the ones that are left are below it too.
LEMMA CallResumeKeeps ==
    ASSUME Lists, Sorted, Walks, CallResume
    PROVE  Walks'
<1>. DEFINE n == Len(todo)
            h == todo[n]
<1>1. /\ worker = "call_resume" /\ worker' = worker /\ handlers' = handlers /\ state' = state
      /\ todo # << >> /\ todo' = SubSeq(todo, 1, n - 1) /\ off' = off \ {h}
      /\ completed' => completed \/ Level[h] < FbLevel
  BY DEF CallResume, userVars
<1>2. /\ ResumeWalk /\ todo \in Seq(Handlers) /\ handlers \in Seq(Handlers)
      /\ n \in Nat /\ n > 0 /\ Len(handlers) \in Nat
  BY <1>1 DEF Walks, Lists
<1>3. /\ Len(todo') = n - 1 /\ \A i \in 1 .. n - 1 : todo'[i] = todo[i]
  <2>1. \A i \in 1 .. n - 1 : todo[i] \in Handlers
    BY <1>2
  <2>2. /\ Len(SubSeq(todo, 1, n - 1)) = IF 1 <= n - 1 THEN (n - 1) - 1 + 1 ELSE 0
        /\ \A i \in 1 .. (n - 1) - 1 + 1 : SubSeq(todo, 1, n - 1)[i] = todo[1 + i - 1]
    <3>1. n - 1 \in Int /\ 1 \in Int
      BY <1>2
    <3>. HIDE DEF n
    <3>. QED
      BY ONLY <2>1, <3>1, SubSeqProperties
  <2>. HIDE DEF n
  <2>. QED
    BY <1>1, <1>2, <2>2
<1>4. h = handlers[n] /\ n \in 1 .. Len(handlers)
  BY <1>2 DEF ResumeWalk
<1>. HIDE DEF n, h
<1>5. ASSUME NEW i \in 1 .. Len(handlers) PROVE handlers[i] \in off' <=> i <= n - 1
  <2>1. handlers[i] \in off <=> i <= n
    BY <1>2 DEF ResumeWalk, OffPrefix, n
  <2>2. handlers[i] = h <=> i = n
    BY <1>4 DEF Sorted
  <2>. QED
    BY <1>1, <1>2, <2>1, <2>2
<1>6. ASSUME NEW i \in 1 .. n - 1
      PROVE  todo'[i] = handlers[i] /\ todo[i] = handlers[i] /\ i \in 1 .. n
  <2>1. i \in 1 .. n
    BY <1>2
  <2>. QED
    BY <1>2, <1>3, <2>1 DEF ResumeWalk, n
<1>7. ASSUME completed', NEW i \in 1 .. n - 1 PROVE Level[todo'[i]] < FbLevel
  <2>1. CASE completed
    BY <1>2, <1>3, <1>6, <2>1 DEF ResumeWalk, n
  <2>2. CASE Level[h] < FbLevel
    <3>1. Level[handlers[i]] <= Level[handlers[n]]
      BY <1>2, <1>4, <1>6 DEF Sorted
    <3>2. handlers[i] \in Handlers /\ handlers[n] \in Handlers
      BY <1>2, <1>4
    <3>3. Level[handlers[i]] \in Int /\ Level[handlers[n]] \in Int /\ FbLevel \in Int
      BY <3>2, LevelAssumption
    <3>. QED
      BY <1>4, <1>6, <2>2, <3>1, <3>3
  <2>. QED
    BY <1>1, <1>7, <2>1, <2>2
<1>8. ResumeWalk'
  <2>1. SUSPENDED \notin state' /\ Len(todo') <= Len(handlers')
    BY <1>1, <1>2, <1>3, <1>4 DEF ResumeWalk, n
  <2>. QED
    BY <1>1, <1>3, <1>5, <1>6, <1>7, <2>1 DEF ResumeWalk, OffPrefix
<1>. QED
  BY <1>1, <1>8 DEF Walks, MutexFree

\* The first critical sections of early_suspend and late_resume begin a walk if
\* the state is what they expect.
LEMMA StartKeeps ==
    ASSUME Lists, Walks, EarlySuspendStart \/ LateResumeStart
    PROVE  Walks'
<1>0. Len(handlers) \in Nat /\ SUSPENDED # REQUESTED
  BY DEF Lists, SUSPENDED, REQUESTED
<1>1. /\ MutexFree /\ handlers' = handlers /\ off' = off
      /\ \A i \in 1 .. Len(handlers) : handlers[i] \in off <=> SUSPENDED \in state
  BY DEF EarlySuspendStart, LateResumeStart, MutexFree, Walks, handlerVars
<1>2. CASE EarlySuspendStart /\ state = {REQUESTED}
  <2>1. worker' = "call_suspend" /\ todo' = handlers /\ SUSPENDED \in state'
        /\ SUSPENDED \notin state
    BY <1>0, <1>2 DEF EarlySuspendStart, RequestedAndSuspended
  <2>2. SuspendWalk'
    BY <1>0, <1>1, <2>1 DEF SuspendWalk, OffPrefix
  <2>. QED
    BY <2>1, <2>2 DEF Walks, MutexFree
<1>3. CASE LateResumeStart /\ state = {SUSPENDED}
  <2>1. worker' = "call_resume" /\ todo' = handlers /\ SUSPENDED \notin state'
        /\ SUSPENDED \in state /\ ~ completed'
    BY <1>3 DEF LateResumeStart
  <2>2. ResumeWalk'
    BY <1>0, <1>1, <2>1 DEF ResumeWalk, OffPrefix
  <2>. QED
    BY <2>1, <2>2 DEF Walks, MutexFree
<1>4. CASE EarlySuspendStart /\ state # {REQUESTED}
  <2>1. worker' = "sync" /\ state' = state
    BY <1>4 DEF EarlySuspendStart
  <2>. QED
    BY <1>1, <2>1 DEF Walks, MutexFree
<1>5. CASE LateResumeStart /\ state # {SUSPENDED}
  <2>1. worker' = "idle" /\ state' = state
    BY <1>5 DEF LateResumeStart
  <2>. QED
    BY <1>1, <2>1 DEF Walks, MutexFree
<1>. QED
  BY <1>2, <1>3, <1>4, <1>5

\* The end of late_resume.
LEMMA LateResumeEndKeeps ==
    ASSUME Lists, Walks, LateResumeEnd
    PROVE  Walks'
<1>1. /\ worker = "call_resume" /\ worker' = "idle" /\ todo = << >>
      /\ handlers' = handlers /\ off' = off /\ state' = state /\ Len(handlers) \in Nat
  BY DEF LateResumeEnd, handlerVars, userVars, Lists
<1>2. SUSPENDED \notin state /\ \A i \in 1 .. Len(handlers) : handlers[i] \notin off
  BY <1>1 DEF Walks, ResumeWalk, OffPrefix
<1>. QED
  BY <1>1, <1>2 DEF Walks, MutexFree

\* The steps that neither walk nor touch SUSPENDED.
LEMMA WalksSame ==
    ASSUME Walks, UNCHANGED <<todo, completed, handlers, off>>,
           SUSPENDED \in state' <=> SUSPENDED \in state,
           worker' = worker \/ (MutexFree /\ MutexFree')
    PROVE  Walks'
<1>1. CASE worker' = worker
  BY <1>1 DEF Walks, SuspendWalk, ResumeWalk, OffPrefix, MutexFree
<1>2. CASE MutexFree /\ MutexFree'
  BY <1>2 DEF Walks, MutexFree
<1>. QED
  BY <1>1, <1>2

\* Every step leaves the handlers as the state and the walk have them.
LEMMA WalksNext == Data /\ Lists /\ Sorted /\ Walks /\ [ESNext]_esVars => Sorted' /\ Walks'
<1>. SUFFICES ASSUME Data, Lists, Sorted, Walks, [ESNext]_esVars PROVE Sorted' /\ Walks'
  OBVIOUS
<1>0. handlers' = handlers => Sorted'
  BY DEF Sorted
<1>1. SUSPENDED # REQUESTED
  BY DEF SUSPENDED, REQUESTED
<1>2. CASE CallerStep
  <2>1. UNCHANGED <<todo, completed, handlers, off, worker>>
    BY <1>2 DEF CallerStep, RequestSleep, RequestOn, RequestSame, FbReady, workVars, handlerVars
  <2>2. SUSPENDED \in state' <=> SUSPENDED \in state
    BY <1>1, <1>2 DEF CallerStep, RequestSleep, RequestOn, RequestSame, FbReady
  <2>. QED
    BY <1>0, <2>1, <2>2, WalksSame
<1>3. CASE DriverStep
  BY <1>3, RegisterKeeps, UnregisterKeeps DEF DriverStep
<1>4. CASE Dequeue
  <2>1. Head(queue) \in Works
    BY <1>4 DEF Dequeue, Lists
  <2>2. MutexFree /\ MutexFree'
    BY <1>4, <2>1 DEF Dequeue, MutexFree, Works
  <2>3. UNCHANGED <<todo, completed, handlers, off, state>>
    BY <1>4 DEF Dequeue, userVars, handlerVars
  <2>. QED
    BY <1>0, <2>2, <2>3, WalksSame
<1>5. CASE EarlySuspendStart \/ LateResumeStart
  <2>1. handlers' = handlers
    BY <1>5 DEF EarlySuspendStart, LateResumeStart, handlerVars
  <2>. QED
    BY <1>0, <1>5, <2>1, StartKeeps
<1>6. CASE CallSuspend
  <2>1. handlers' = handlers
    BY <1>6 DEF CallSuspend
  <2>. QED
    BY <1>0, <1>6, <2>1, CallSuspendKeeps
<1>7. CASE CallResume
  <2>1. handlers' = handlers
    BY <1>7 DEF CallResume
  <2>. QED
    BY <1>0, <1>7, <2>1, CallResumeKeeps
<1>8. CASE LateResumeEnd
  <2>1. handlers' = handlers
    BY <1>8 DEF LateResumeEnd, handlerVars
  <2>. QED
    BY <1>0, <1>8, <2>1, LateResumeEndKeeps
<1>9. CASE EarlySuspendEnd \/ SuspendCheck \/ SuspendEnter \/ SuspendReturn
  <2>1. UNCHANGED <<todo, completed, handlers, off, state>>
    BY <1>9 DEF EarlySuspendEnd, SuspendCheck, SuspendEnter, SuspendReturn, userVars, handlerVars
  <2>2. MutexFree /\ MutexFree'
    BY <1>9 DEF EarlySuspendEnd, SuspendCheck, SuspendEnter, SuspendReturn, MutexFree
  <2>. QED
    BY <1>0, <2>1, <2>2, WalksSame
<1>10. CASE OtherLocksGone \/ UNCHANGED esVars
  <2>1. UNCHANGED <<todo, completed, handlers, off, state, worker>>
    BY <1>10 DEF OtherLocksGone, esVars, userVars, workVars, handlerVars
  <2>. QED
    BY <1>0, <2>1, WalksSame
<1>. QED
  BY <1>2, <1>3, <1>4, <1>5, <1>6, <1>7, <1>8, <1>9, <1>10 DEF ESNext, WorkStep

\* An "on" takes the main lock back at once.
LEMMA MainLockNext == Data /\ MainLock /\ [ESNext]_esVars => MainLock'
<1>. SUFFICES ASSUME Data, MainLock, [ESNext]_esVars PROVE MainLock'
  OBVIOUS
<1>0. SUSPENDED # REQUESTED
  BY DEF SUSPENDED, REQUESTED
<1>1. ASSUME NEW c \in Callers, RequestSleep(c) \/ RequestOn(c) \/ RequestSame(c) \/ FbReady(c)
      PROVE  MainLock'
  BY <1>1 DEF RequestSleep, RequestOn, RequestSame, FbReady, MainLock, RequestedAndSuspended
<1>2. CASE EarlySuspendStart \/ LateResumeStart
  BY <1>0, <1>2 DEF EarlySuspendStart, LateResumeStart, MainLock, RequestedAndSuspended
<1>3. CASE EarlySuspendEnd
  BY <1>3 DEF EarlySuspendEnd, MainLock
<1>4. CASE DriverStep \/ OtherLocksGone \/ SuspendReturn \/ UNCHANGED esVars
  BY <1>4 DEF DriverStep, Register, Unregister, OtherLocksGone, SuspendReturn, esVars, userVars,
              MainLock
<1>5. CASE Dequeue \/ CallSuspend \/ CallResume \/ LateResumeEnd \/ SuspendCheck \/ SuspendEnter
  BY <1>5 DEF Dequeue, CallSuspend, CallResume, LateResumeEnd, SuspendCheck, SuspendEnter,
              userVars, MainLock
<1>. QED
  BY <1>1, <1>2, <1>3, <1>4, <1>5 DEF ESNext, CallerStep, WorkStep

----------------------------------------------------------------------------
(* One writer. *)

\* Only tasks that have written wait.
LEMMA WaitersWrite ==
    Data /\ Waiters \subseteq writers /\ [ESNext]_esVars => (Waiters \subseteq writers)'
<1>. SUFFICES ASSUME Data, Waiters \subseteq writers, [ESNext]_esVars
              PROVE  Waiters' \subseteq writers'
  OBVIOUS
<1>1. ASSUME NEW c \in Callers, RequestSleep(c) \/ RequestSame(c) \/ RequestOn(c)
      PROVE  Waiters' \subseteq writers'
  <2>1. Waiters' \subseteq Waiters \cup {c} /\ writers' = writers \cup {c}
    BY <1>1 DEF RequestSleep, RequestSame, RequestOn, Waiters, Data
  <2>. QED
    BY <2>1
<1>2. ASSUME NEW c \in Callers, FbReady(c) PROVE Waiters' \subseteq writers'
  BY <1>2 DEF FbReady, Waiters, Data
<1>3. CASE DriverStep \/ OtherLocksGone \/ SuspendReturn \/ UNCHANGED esVars
  BY <1>3 DEF DriverStep, Register, Unregister, OtherLocksGone, SuspendReturn, esVars, userVars,
              Waiters
<1>4. CASE WorkStep
  BY <1>4 DEF WorkStep, Dequeue, EarlySuspendStart, CallSuspend, EarlySuspendEnd, LateResumeStart,
              CallResume, LateResumeEnd, SuspendCheck, SuspendEnter, userVars, Waiters
<1>. QED
  BY <1>1, <1>2, <1>3, <1>4 DEF ESNext, CallerStep

\* What the counts say of a single writer: when it does not wait nobody does,
\* and there is no completion and none to come.
LEMMA SingleFacts ==
    ASSUME Data, Matched, Waiters \subseteq writers, NEW c \in Callers
    PROVE  /\ (\A a \in writers : a = c) /\ pc[c] = "out" =>
                 Waiters = {} /\ fb_done = 0 /\ ~ Queued("late_resume_work") /\ ~ Late
           /\ (\A a \in writers : a = c) /\ pc[c] = "waiting" /\ fb_done > 0 =>
                 fb_done = 1 /\ ~ Queued("late_resume_work") /\ ~ Late
<1>1. /\ Cardinality(Waiters) \in Nat /\ (Cardinality(Waiters) = 0 <=> Waiters = {})
      /\ fb_done \in Nat
  BY WaitersChange DEF Data
<1>2. /\ ToCome \in Nat
      /\ Queued("late_resume_work") \/ Late => ToCome > 0
  BY DEF ToCome, Late
<1>3. ASSUME \A a \in writers : a = c, pc[c] = "out"
      PROVE  Waiters = {} /\ fb_done = 0 /\ ~ Queued("late_resume_work") /\ ~ Late
  <2>1. Waiters = {}
    BY <1>3 DEF Waiters
  <2>. QED
    BY <1>1, <1>2, <2>1 DEF Matched
<1>4. ASSUME \A a \in writers : a = c, pc[c] = "waiting", fb_done > 0
      PROVE  fb_done = 1 /\ ~ Queued("late_resume_work") /\ ~ Late
  <2>1. Waiters = {c}
    BY <1>4 DEF Waiters
  <2>2. Cardinality(Waiters) = 1
    BY <2>1, FS_Singleton
  <2>. QED
    BY <1>1, <1>2, <1>4, <2>2 DEF Matched
<1>. QED
  BY <1>3, <1>4

\* What the invariant says of one writer is kept while there is one.
LEMMA OneWriterNext ==
    ESInv /\ [ESNext]_esVars => (Single => OneWriter)'
<1>. SUFFICES ASSUME ESInv, [ESNext]_esVars, Single' PROVE OneWriter'
  OBVIOUS
<1>0. /\ Data /\ Lists /\ OneEach /\ Matched /\ Walks /\ MainLock /\ Waiters \subseteq writers
      /\ Single => OneWriter
  BY TypesSplit DEF ESInv
<1>1. /\ queue \in Seq(Works) /\ "early_suspend_work" \in Works /\ "late_resume_work" \in Works
      /\ "suspend_work" \in Works /\ SUSPENDED # REQUESTED
      /\ state \subseteq {REQUESTED, SUSPENDED}
  BY <1>0 DEF Works, Lists, Data, SUSPENDED, REQUESTED, RequestedAndSuspended
<1>2. writers \subseteq writers' => Single /\ OneWriter
  BY <1>0 DEF Single
<1>3. ASSUME NEW c \in Callers, RequestSleep(c) PROVE OneWriter'
  <2>1. /\ pc[c] = "out" /\ writers' = writers \cup {c} /\ pc' = pc
        /\ state' = state \cup {REQUESTED} /\ requested_suspend_state' = "mem"
        /\ worker' = worker /\ arg' = arg
    BY <1>3 DEF RequestSleep, workVars
  <2>2. Single /\ OneWriter /\ \A a \in writers : a = c
    BY <1>2, <2>1 DEF Single
  <2>3. Waiters = {}
    BY <1>0, <2>1, <2>2, SingleFacts
  <2>4. Waiters' = {}
    BY <2>1, <2>3 DEF Waiters
  <2>. QED
    BY <2>1, <2>2, <2>4 DEF OneWriter
<1>4. ASSUME NEW c \in Callers, RequestOn(c) PROVE OneWriter'
  <2>1. /\ pc[c] = "out" /\ writers' = writers \cup {c} /\ state' = state \ {REQUESTED}
        /\ worker' = worker /\ arg' = arg /\ fb_done' = fb_done /\ QueueWork("late_resume_work")
        /\ REQUESTED \in state
    BY <1>4 DEF RequestOn, workVars
  <2>2. Single /\ OneWriter /\ \A a \in writers : a = c
    BY <1>2, <2>1 DEF Single
  <2>3. fb_done = 0 /\ ~ Queued("late_resume_work")
    BY <1>0, <2>1, <2>2, SingleFacts
  <2>4. requested_suspend_state' = requested_suspend_state
    BY <1>4, <2>3 DEF RequestOn
  <2>5. Queued("late_resume_work")'
    BY <1>0, <1>1, <2>1, QueueWorkFacts
  <2>. QED
    BY <2>1, <2>2, <2>3, <2>4, <2>5 DEF OneWriter
<1>5. ASSUME NEW c \in Callers, RequestSame(c) PROVE OneWriter'
  <2>1. /\ pc[c] = "out" /\ writers' = writers \cup {c} /\ pc' = pc /\ state' = state
        /\ requested_suspend_state' = IF REQUESTED \in state THEN "mem" ELSE "on"
        /\ worker' = worker /\ arg' = arg
    BY <1>5 DEF RequestSame, workVars
  <2>2. Single /\ OneWriter /\ \A a \in writers : a = c
    BY <1>2, <2>1 DEF Single
  <2>3. Waiters = {} /\ ~ Queued("late_resume_work")
    BY <1>0, <2>1, <2>2, SingleFacts
  <2>4. Waiters' = {}
    BY <2>1, <2>3 DEF Waiters
  <2>. QED
    BY <2>1, <2>2, <2>3, <2>4 DEF OneWriter
<1>6. ASSUME NEW c \in Callers, FbReady(c) PROVE OneWriter'
  <2>1. /\ pc[c] = "waiting" /\ fb_done > 0 /\ pc' = [pc EXCEPT ![c] = "out"]
        /\ writers' = writers /\ state' = state
        /\ requested_suspend_state' = "on" /\ worker' = worker /\ queue' = queue
    BY <1>6 DEF FbReady, workVars
  <2>2. Single /\ OneWriter
    BY <1>2, <2>1
  <2>3. c \in Waiters /\ \A a \in writers : a = c
    BY <1>0, <2>1, <2>2 DEF Waiters, Single
  <2>4. ~ Queued("late_resume_work") /\ REQUESTED \notin state
    BY <1>0, <2>1, <2>2, <2>3, SingleFacts DEF OneWriter
  <2>5. Waiters' = {}
    <3>1. Waiters' = Waiters \ {c}
      BY <1>0, <2>1, WaitersChange
    <3>. QED
      BY <1>0, <2>3, <3>1
  <2>6. worker \notin {"sys_sync", "pm_suspend"}
    BY <2>2, <2>4 DEF OneWriter
  <2>. QED
    BY <2>1, <2>4, <2>5, <2>6 DEF OneWriter
<1>7. ASSUME UNCHANGED <<pc, requested_suspend_state, writers>>
      PROVE  Single /\ OneWriter /\ Waiters' = Waiters
  BY <1>2, <1>7 DEF Waiters
<1>8. queue' = queue => (Queued("late_resume_work")' <=> Queued("late_resume_work"))
  BY DEF Queued
<1>9. CASE DriverStep \/ UNCHANGED esVars
  <2>1. /\ UNCHANGED <<pc, requested_suspend_state, writers>>
        /\ UNCHANGED <<state, worker, arg, queue, fb_done>>
    BY <1>9 DEF DriverStep, Register, Unregister, esVars, userVars, workVars
  <2>. QED
    BY <1>7, <1>8, <2>1 DEF OneWriter
<1>10. CASE OtherLocksGone
  <2>1. /\ UNCHANGED <<pc, requested_suspend_state, writers>>
        /\ UNCHANGED <<state, worker, arg, fb_done>> /\ QueueWork("suspend_work")
    BY <1>10 DEF OtherLocksGone, userVars, workVars
  <2>2. Queued("late_resume_work")' <=> Queued("late_resume_work")
    BY <1>0, <1>1, <2>1, QueueWorkFacts
  <2>. QED
    BY <1>7, <2>1, <2>2 DEF OneWriter
<1>11. CASE Dequeue
  <2>1. /\ UNCHANGED <<pc, requested_suspend_state, writers>>
        /\ UNCHANGED <<state, arg, fb_done>> /\ queue # << >> /\ worker' = Head(queue)
    BY <1>11 DEF Dequeue, userVars
  <2>2. Head(queue) \in Works
    BY <1>1, <2>1
  <2>3. worker' \notin {"sys_sync", "pm_suspend"}
    BY <2>1, <2>2 DEF Works
  <2>. QED
    BY <1>7, <2>1, <2>3 DEF OneWriter
<1>12. CASE EarlySuspendStart
  <2>1. /\ UNCHANGED <<pc, requested_suspend_state, writers>>
        /\ fb_done' = fb_done /\ worker' \notin {"sys_sync", "pm_suspend"}
        /\ state' = state \/ state = {REQUESTED}
        /\ state' = state \/ state' = {REQUESTED, SUSPENDED}
    BY <1>12 DEF EarlySuspendStart, RequestedAndSuspended
  <2>2. REQUESTED \in state' <=> REQUESTED \in state
    BY <2>1
  <2>3. Waiters # {} => state' = state
    BY <1>7, <2>1 DEF OneWriter
  <2>. QED
    BY <1>7, <2>1, <2>2, <2>3 DEF OneWriter
<1>13. CASE EarlySuspendEnd
  <2>1. /\ UNCHANGED <<pc, requested_suspend_state, writers>>
        /\ UNCHANGED <<state, fb_done>> /\ worker' = "idle"
    BY <1>13 DEF EarlySuspendEnd
  <2>. QED
    BY <1>7, <2>1 DEF OneWriter
<1>14. CASE CallSuspend \/ CallResume \/ LateResumeEnd
  <2>1. /\ UNCHANGED <<pc, requested_suspend_state, writers>>
        /\ state' = state /\ worker' \notin {"sys_sync", "pm_suspend"}
    BY <1>14 DEF CallSuspend, CallResume, LateResumeEnd, userVars
  <2>2. fb_done' = fb_done \/ SUSPENDED \notin state
    BY <1>0, <1>14 DEF CallSuspend, CallResume, LateResumeEnd, Walks, ResumeWalk
  <2>. QED
    BY <1>7, <2>1, <2>2 DEF OneWriter
<1>15. CASE LateResumeStart
  <2>1. /\ UNCHANGED <<pc, requested_suspend_state, writers>>
        /\ worker' \notin {"sys_sync", "pm_suspend"}
    BY <1>15 DEF LateResumeStart
  <2>2. CASE state = {SUSPENDED}
    <3>1. state' = {} /\ fb_done' = fb_done
      BY <1>15, <2>2 DEF LateResumeStart
    <3>. QED
      BY <1>7, <2>1, <3>1 DEF OneWriter
  <2>3. CASE state # {SUSPENDED}
    <3>1. state' = state
      BY <1>15, <2>3 DEF LateResumeStart
    <3>2. Waiters # {} => REQUESTED \notin state /\ SUSPENDED \notin state
      BY <1>1, <1>7, <2>1, <2>3 DEF OneWriter
    <3>. QED
      BY <1>7, <2>1, <3>1, <3>2 DEF OneWriter
  <2>. QED
    BY <2>2, <2>3
<1>16. CASE SuspendCheck
  <2>1. /\ UNCHANGED <<pc, requested_suspend_state, writers>>
        /\ UNCHANGED <<state, queue, fb_done>> /\ worker' # "pm_suspend"
        /\ worker' = "sys_sync" => ~ main_held
    BY <1>16 DEF SuspendCheck, userVars
  <2>2. worker' = "sys_sync" => REQUESTED \in state
    BY <1>0, <2>1 DEF MainLock, RequestedAndSuspended
  <2>. QED
    BY <1>7, <2>1, <2>2 DEF OneWriter
<1>17. CASE SuspendEnter
  <2>1. /\ UNCHANGED <<pc, requested_suspend_state, writers>>
        /\ UNCHANGED <<state, queue, fb_done>> /\ worker = "sys_sync" /\ worker' = "pm_suspend"
        /\ arg' = requested_suspend_state
    BY <1>17 DEF SuspendEnter, userVars
  <2>. QED
    BY <1>7, <1>8, <2>1 DEF OneWriter
<1>18. CASE SuspendReturn
  <2>1. /\ UNCHANGED <<pc, requested_suspend_state, writers>>
        /\ UNCHANGED <<state, fb_done>> /\ worker' = "idle"
    BY <1>18 DEF SuspendReturn, userVars
  <2>. QED
    BY <1>7, <2>1 DEF OneWriter
<1>. QED
  BY <1>3, <1>4, <1>5, <1>6, <1>9, <1>10, <1>11, <1>12, <1>13, <1>14, <1>15, <1>16, <1>17, <1>18
     DEF ESNext, CallerStep, WorkStep

----------------------------------------------------------------------------
(* What follows for every behaviour. *)

\* At the start nothing is requested and no handler is registered.
LEMMA ESInvInit == ESInit => ESInv
<1>. SUFFICES ASSUME ESInit PROVE ESInv
  OBVIOUS
<1>1. Waiters = {} /\ Cardinality(Waiters) = 0
  <2>1. Waiters = {}
    BY DEF ESInit, Waiters
  <2>. QED
    BY <2>1, FS_EmptySet
<1>2. Data /\ Lists
  BY DEF ESInit, Data, Lists
<1>3. Flags
  BY Zenon DEF ESInit, Flags
<1>4. Matched
  BY <1>1 DEF ESInit, Matched, ToCome, Queued
<1>5. OneEach /\ Sorted /\ Walks /\ MainLock
  BY DEF ESInit, OneEach, Sorted, Walks, MainLock
<1>6. OneWriter
  BY <1>1 DEF ESInit, OneWriter
<1>. QED
  BY <1>1, <1>2, <1>3, <1>4, <1>5, <1>6, TypesSplit DEF ESInv

\* Every step keeps the whole invariant.
LEMMA ESInvNext == ESInv /\ [ESNext]_esVars => ESInv'
<1>. SUFFICES ASSUME ESInv, [ESNext]_esVars PROVE ESInv'
  OBVIOUS
<1>1. /\ Data /\ Lists /\ Flags /\ OneEach /\ Matched /\ Sorted /\ Walks /\ MainLock
      /\ Waiters \subseteq writers
  BY TypesSplit DEF ESInv
<1>2. ESTypeOK' /\ OneEach'
  <2>1. Data' /\ Lists' /\ Flags' /\ OneEach'
    BY <1>1, DataNext, ListsNext, FlagsNext
  <2>. QED
    BY <2>1 DEF ESTypeOK, Data, Lists, Flags
<1>3. Matched' /\ Sorted' /\ Walks' /\ MainLock'
  BY <1>1, MatchedNext, WalksNext, MainLockNext
<1>4. (Waiters \subseteq writers)' /\ (Single => OneWriter)'
  BY <1>1, WaitersWrite, OneWriterNext
<1>. QED
  BY <1>2, <1>3, <1>4 DEF ESInv

\* The inductive invariant holds throughout.
LEMMA ESInvAlways == ESSpec => []ESInv
<1>. QED
  BY ESInvInit, ESInvNext, PTL DEF ESSpec

\* In either walk the handlers that are off are the first ones of a sorted list.
LEMMA HandlersFollow == ESInv => HandlersMatchState
<1>. SUFFICES ASSUME ESInv PROVE HandlersMatchState
  OBVIOUS
<1>1. /\ Lists /\ Sorted /\ Walks /\ MainLock
  BY TypesSplit DEF ESInv
<1>2. ASSUME MutexFree, NEW h \in Registered PROVE h \in off <=> SUSPENDED \in state
  BY <1>1, <1>2 DEF Registered, Walks
<1>3. ASSUME ~ MutexFree, NEW g \in Registered, NEW h \in Registered,
             Level[g] < Level[h], h \in off
      PROVE  g \in off
  <2>1. PICK i \in 1 .. Len(handlers) : handlers[i] = g
    BY DEF Registered
  <2>2. PICK j \in 1 .. Len(handlers) : handlers[j] = h
    BY DEF Registered
  <2>3. Len(handlers) \in Nat /\ Len(todo) \in Nat /\ g \in Handlers /\ h \in Handlers
    BY <1>1, <2>1, <2>2 DEF Lists
  <2>4. Level[g] \in Int /\ Level[h] \in Int
    BY <2>3, LevelAssumption
  <2>5. i < j
    <3>1. ~ (j < i) /\ i # j
      BY <1>1, <1>3, <2>1, <2>2, <2>4 DEF Sorted
    <3>. QED
      BY <2>3, <3>1
  <2>6. PICK n \in Int : OffPrefix(n)
    BY <1>1, <1>3, <2>3 DEF Walks, MutexFree, SuspendWalk, ResumeWalk
  <2>. QED
    BY <1>3, <2>1, <2>2, <2>3, <2>5, <2>6 DEF OffPrefix
<1>. QED
  BY <1>1, <1>2, <1>3 DEF HandlersMatchState, MainLock

\* A set of one writer has no two.
LEMMA OneIsSingle ==
    ASSUME NEW W, W \subseteq Callers, Cardinality(W) = 1
    PROVE  \A a, b \in W : a = b
<1>1. IsFiniteSet(W)
  BY CallersAssumption, FS_Subset
<1>. QED
  BY <1>1, FS_Singleton

\* With one writer the stored state is the one it last asked for.
LEMMA HonouredFollows == ESInv => OneWriterHonoured
<1>. SUFFICES ASSUME ESInv, Cardinality(writers) = 1, worker = "pm_suspend" PROVE arg = "mem"
  BY DEF OneWriterHonoured, SleepRequestHonoured
<1>1. writers \subseteq Callers /\ (Single => OneWriter)
  BY DEF ESInv, ESTypeOK
<1>2. Single
  BY <1>1, OneIsSingle DEF Single
<1>. QED
  BY <1>1, <1>2 DEF OneWriter

\* With one writer a completion is taken only with the frame buffer up.
LEMMA WaitsFollow ==
    ESInv /\ ESInv' /\ [ESNext]_esVars => [Cardinality(writers') = 1 => FbUpOnReturn]_esVars
<1>. SUFFICES ASSUME ESInv, ESInv', [ESNext]_esVars, Cardinality(writers') = 1,
                     NEW c \in Callers, pc[c] = "waiting" \/ RequestOn(c), pc'[c] = "out"
              PROVE  REQUESTED \in state' \/ FbHandlers \cap off' = {}
  BY DEF FbUpOnReturn
<1>0. /\ Data /\ Lists /\ Matched /\ Sorted /\ Walks /\ Waiters \subseteq writers
      /\ Single => OneWriter
  BY TypesSplit DEF ESInv
<1>1. \A a, b \in writers' : a = b
  BY OneIsSingle DEF ESInv, ESTypeOK
<1>2. pc \in [Callers -> {"out", "waiting"}]
  BY <1>0 DEF Data
<1>3. ~ RequestOn(c)
  <2>1. SUFFICES ASSUME RequestOn(c) PROVE FALSE
    OBVIOUS
  <2>2. pc[c] = "out" /\ \A a \in writers : a = c
    BY <1>1, <2>1 DEF RequestOn
  <2>3. ~ Queued("late_resume_work")
    BY <1>0, <2>2, SingleFacts
  <2>. QED
    BY <1>2, <2>1, <2>3 DEF RequestOn
<1>4. pc[c] = "waiting"
  BY <1>3
<1>5. FbReady(c)
  <2>1. CASE DriverStep \/ OtherLocksGone \/ SuspendReturn \/ UNCHANGED esVars
    BY <1>4, <2>1 DEF DriverStep, Register, Unregister, OtherLocksGone, SuspendReturn, esVars,
                      userVars
  <2>2. CASE WorkStep
    BY <1>4, <2>2 DEF WorkStep, Dequeue, EarlySuspendStart, CallSuspend, EarlySuspendEnd,
       LateResumeStart, CallResume, LateResumeEnd, SuspendCheck, SuspendEnter, userVars
  <2>3. ASSUME NEW d \in Callers, RequestSleep(d) \/ RequestSame(d) \/ RequestOn(d)
        PROVE  FALSE
    <3>1. pc[d] = "out" /\ pc' = [pc EXCEPT ![d] = pc'[d]]
      BY <1>2, <2>3 DEF RequestSleep, RequestSame, RequestOn
    <3>. QED
      BY <1>2, <1>4, <3>1
  <2>4. ASSUME NEW d \in Callers, FbReady(d) PROVE d = c
    BY <1>2, <1>4, <2>4 DEF FbReady
  <2>. QED
    BY <2>1, <2>2, <2>3, <2>4 DEF ESNext, CallerStep
<1>6. fb_done > 0 /\ UNCHANGED <<state, off, handlers, writers>>
  BY <1>5 DEF FbReady, handlerVars
<1>7. Single /\ OneWriter /\ c \in Waiters /\ \A a \in writers : a = c
  BY <1>0, <1>1, <1>4, <1>6 DEF Single, Waiters
<1>8. SUSPENDED \notin state /\ ~ Late
  BY <1>0, <1>4, <1>6, <1>7, SingleFacts DEF OneWriter
<1>9. ASSUME NEW h \in Registered, Level[h] >= FbLevel PROVE h \notin off
  <2>1. PICK i \in 1 .. Len(handlers) : handlers[i] = h
    BY DEF Registered
  <2>2. CASE MutexFree
    BY <1>0, <1>8, <2>1, <2>2 DEF Walks
  <2>3. CASE worker = "call_suspend"
    BY <1>0, <1>8, <2>3 DEF Walks, SuspendWalk
  <2>4. CASE worker = "call_resume"
    <3>1. ResumeWalk /\ completed /\ Len(handlers) \in Nat /\ Len(todo) \in Nat
      BY <1>0, <1>8, <2>4 DEF Walks, Late, Lists
    <3>2. ASSUME h \in off PROVE FALSE
      <4>1. i \in 1 .. Len(todo)
        BY <2>1, <3>1, <3>2 DEF ResumeWalk, OffPrefix
      <4>2. Level[h] < FbLevel
        BY <2>1, <3>1, <4>1 DEF ResumeWalk
      <4>3. h \in Handlers
        BY <1>0, <2>1 DEF Lists
      <4>. QED
        BY <1>9, <4>2, <4>3, LevelAssumption
    <3>. QED
      BY <3>2
  <2>. QED
    BY <2>2, <2>3, <2>4 DEF MutexFree
<1>. QED
  BY <1>6, <1>9 DEF FbHandlers

\* For any number of writers and handlers: the handlers follow the state, in
\* order, and the main lock is given up only for a sleep that is still wanted.
THEOREM HandlersAlwaysMatch == ESSpec => []HandlersMatchState
<1>. QED
  BY ESInvAlways, HandlersFollow, PTL

\* For any number of writers no completion of fb_drv_ready is lost or left over.
THEOREM CompletionsAlwaysMatch == ESSpec => []CompletionsMatchWaiters
<1>1. ESInv => CompletionsMatchWaiters
  BY DEF ESInv, CompletionsMatchWaiters, Matched
<1>. QED
  BY <1>1, ESInvAlways, PTL

\* A single writer's sleep request is never turned into pm_suspend("on").
THEOREM OneWriterIsHonoured == ESSpec => []OneWriterHonoured
<1>. QED
  BY ESInvAlways, HonouredFollows, PTL

\* A single writer's "on" returns only when the frame buffer is up.
THEOREM OneWriterAlwaysWaits == ESSpec => OneWriterWaits
<1>. QED
  BY ESInvAlways, WaitsFollow, PTL DEF ESSpec, OneWriterWaits
=============================================================================
