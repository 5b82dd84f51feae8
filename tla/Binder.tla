------------------------------- MODULE Binder -------------------------------
(***************************************************************************)
(* Reference counts and death notifications of the binder driver,          *)
(* drivers/staging/android/binder.c: one object of an owner process, its   *)
(* binder_node, and a binder_ref for each client process that has it.      *)
(*                                                                         *)
(* Every command is one step, since binder_lock is held throughout.  What  *)
(* a transaction carries is reduced to this object, what a buffer is to    *)
(* the reference it holds until BC_FREE_BUFFER.  User space keeps its part *)
(* of the protocol: it gives back what it took, sends a strong reference   *)
(* only if it has one, and acknowledges what it is told.                   *)
(***************************************************************************)
EXTENDS Integers, FiniteSets

CONSTANTS Clients,
          Deaths,       \* the death notifications a client may have at a time
          MaxBuffers,   \* bound on the buffers of one kind in a process
          MaxUser       \* bound on what a client takes by BC_ACQUIRE or BC_INCREFS

VARIABLES node,      \* the binder_node, or NoNode
          ref,       \* the binder_ref of each client, or NoRef
          death,     \* the binder_ref_death objects of each client
          alive,     \* the processes whose file is open
          buffers,   \* of each client, with a strong or weak handle
          local,     \* of the owner, for the object or with it
          user,      \* what each client has taken and not given back
          lost,      \* history: processes whose thread exited with work to do
          refused    \* history: clients whose reference was not counted, -EINVAL

Owner == "owner"
strong == "strong"
weak == "weak"
Kinds == {strong, weak}

countVars == <<node, ref>>
userVars == <<buffers, local, user>>
historyVars == <<lost, refused>>
binderVars == <<countVars, death, alive, userVars, historyVars>>

\* Where a binder_work is queued: on the todo list of the thread that made the
\* call, on that of the process, or nowhere.
Nowhere == "nowhere"
OnThread == "thread"
OnProc == "proc"
Delivered == "delivered_death"
Queued == {OnThread, OnProc}

NoNode == [work |-> "freed"]
NewNode == [dead |-> FALSE,       \* node->proc is NULL
            internal_strong |-> 0, local |-> [k \in Kinds |-> 0],
            has |-> [k \in Kinds |-> FALSE], pending |-> [k \in Kinds |-> FALSE],
            work |-> Nowhere]

NoDeath == "none"
NoRef == [death |-> "freed"]
NewRef == [count |-> [k \in Kinds |-> 0], death |-> NoDeath]
Refs == {c \in Clients : ref[c] # NoRef}   \* node->refs

\* There are finitely many processes; the owner is another one than the clients,
\* and a death notification is none of the marks for having none.
ASSUME BinderAssumption ==
    /\ IsFiniteSet(Clients) /\ Owner \notin Clients
    /\ NoDeath \notin Deaths /\ NoRef.death \notin Deaths
    /\ MaxBuffers \in Nat /\ MaxUser \in Nat

Freed == [on |-> "freed"]

----------------------------------------------------------------------------
(* Counts. *)

CanInc(n, k, internal, list) ==
    IF k = strong THEN ~ internal \/ list # Nowhere \/ n.internal_strong # 0
    ELSE n.has[weak] \/ n.work # Nowhere \/ list # Nowhere

binder_inc_node(n, k, internal, list) ==
    [n EXCEPT !.internal_strong = IF internal /\ k = strong THEN @ + 1 ELSE @,
              !.local[k] = IF internal THEN @ ELSE @ + 1,
              !.work = IF /\ ~ n.has[k] /\ list # Nowhere
                          /\ k = strong \/ @ = Nowhere THEN list ELSE @]

\* With no reference of this kind left the owner is told, or the node goes.
DecNodeSilently(n, k, internal, refs) ==
    LET m == [n EXCEPT !.internal_strong = IF internal /\ k = strong THEN @ - 1 ELSE @,
                       !.local[k] = IF internal THEN @ ELSE @ - 1]
        left == m.local[k] # 0 \/ IF k = strong THEN m.internal_strong # 0 ELSE refs # {}
    IN  IF left \/ (~ m.dead /\ (m.has[strong] \/ m.has[weak])) THEN m
        ELSE IF refs = {} /\ m.local[strong] = 0 /\ m.local[weak] = 0 THEN NoNode
        ELSE m
binder_dec_node(n, k, internal, refs) ==
    LET m == [n EXCEPT !.internal_strong = IF internal /\ k = strong THEN @ - 1 ELSE @,
                       !.local[k] = IF internal THEN @ ELSE @ - 1]
        left == m.local[k] # 0 \/ IF k = strong THEN m.internal_strong # 0 ELSE refs # {}
    IN  IF left THEN m
        ELSE IF ~ m.dead /\ (m.has[strong] \/ m.has[weak])
             THEN [m EXCEPT !.work = IF @ = Nowhere THEN OnProc ELSE @]
        ELSE IF refs = {} /\ m.local[strong] = 0 /\ m.local[weak] = 0 THEN NoNode
        ELSE m

\* The node and the reference after binder_inc_ref.
Counts(n, r) == [node |-> n, ref |-> r]
binder_inc_ref(n, r, k, list) ==
    IF r.count[k] # 0 THEN Counts(n, [r EXCEPT !.count[k] = @ + 1])
    ELSE IF CanInc(n, k, TRUE, list)
         THEN Counts(binder_inc_node(n, k, TRUE, list), [r EXCEPT !.count[k] = @ + 1])
    ELSE Counts(n, r)

\* The node after binder_delete_ref.
DeleteRefAsWeak(n, c, r) == binder_dec_node(n, weak, TRUE, Refs \ {c})
binder_delete_ref(n, c, r) ==
    binder_dec_node(IF r.count[strong] # 0 THEN binder_dec_node(n, strong, TRUE, Refs) ELSE n,
                    weak, TRUE, Refs \ {c})

binder_dec_ref(c, k) ==
    LET r == [ref[c] EXCEPT !.count[k] = @ - 1]
        n == IF k = strong /\ r.count[strong] = 0
             THEN binder_dec_node(node, strong, TRUE, Refs) ELSE node
    IN  IF ref[c] = NoRef \/ ref[c].count[k] = 0 THEN Counts(node, ref[c])
        ELSE IF r.count[strong] = 0 /\ r.count[weak] = 0
             THEN Counts(binder_delete_ref(n, c, r), NoRef)
        ELSE Counts(n, r)

\* A death notification goes with its reference, wherever it is queued.
WithoutDeath(c) == IF ref[c].death \in Deaths
                   THEN [death[c] EXCEPT ![ref[c].death] = Freed] ELSE death[c]

Inc(c, k, n, list) ==
    LET old == IF ref[c] = NoRef THEN NewRef ELSE ref[c]
        new == binder_inc_ref(n, old, k, list)
    IN  /\ node' = new.node
        /\ ref' = [ref EXCEPT ![c] = new.ref]
        /\ refused' = IF new.ref = old THEN refused \cup {c} ELSE refused

Dec(c, k) ==
    LET new == binder_dec_ref(c, k)
    IN  /\ node' = new.node
        /\ ref' = [ref EXCEPT ![c] = new.ref]
        /\ death' = [death EXCEPT ![c] = IF new.ref = NoRef THEN WithoutDeath(c) ELSE @]

----------------------------------------------------------------------------
(* The object in transactions. *)

Has(c, k) == ref[c] # NoRef /\ (ref[c].count[strong] > 0 \/ k = weak)

\* BINDER_TYPE_BINDER or BINDER_TYPE_WEAK_BINDER, from the owner to c.
SendBinder(c, k) ==
    /\ {Owner, c} \subseteq alive
    /\ buffers[c][k] < MaxBuffers
    /\ Inc(c, k, IF node = NoNode THEN NewNode ELSE node, OnThread)
    /\ buffers' = [buffers EXCEPT ![c][k] = @ + 1]
    /\ UNCHANGED <<death, alive, local, user, lost>>

\* The same, with the node allocated and then no memory for the reference: the
\* transaction fails and the node stays.  With a node there already, or none
\* allocated, a failure changes nothing.
SendBinderFails(c) ==
    /\ {Owner, c} \subseteq alive
    /\ node = NoNode
    /\ node' = NewNode
    /\ UNCHANGED <<ref, death, alive, userVars, historyVars>>

\* BINDER_TYPE_HANDLE or BINDER_TYPE_WEAK_HANDLE, from c to another client.
SendHandle(c, d, k) ==
    /\ {c, d} \subseteq alive /\ c # d
    /\ Has(c, k)
    /\ buffers[d][k] < MaxBuffers
    /\ Inc(d, k, node, Nowhere)
    /\ buffers' = [buffers EXCEPT ![d][k] = @ + 1]
    /\ UNCHANGED <<death, alive, local, user, lost>>

\* The same to the owner, and a transaction with the object as its target.
SendBack(c, k) ==
    /\ c \in alive
    /\ Has(c, k)
    /\ ~ node.dead
    /\ local[k] < MaxBuffers
    /\ node' = binder_inc_node(node, k, FALSE, Nowhere)
    /\ local' = [local EXCEPT ![k] = @ + 1]
    /\ UNCHANGED <<ref, death, alive, buffers, user, historyVars>>

\* BC_FREE_BUFFER.
FreeBuffer(c, k) ==
    /\ buffers[c][k] > 0
    /\ buffers' = [buffers EXCEPT ![c][k] = @ - 1]
    /\ Dec(c, k)
    /\ UNCHANGED <<alive, local, user, historyVars>>

FreeOwnerBuffer(k) ==
    /\ local[k] > 0
    /\ local' = [local EXCEPT ![k] = @ - 1]
    /\ node' = binder_dec_node(node, k, FALSE, Refs)
    /\ UNCHANGED <<ref, death, alive, buffers, user, historyVars>>

----------------------------------------------------------------------------
(* Commands on references. *)

\* BC_ACQUIRE and BC_INCREFS; the result of binder_inc_ref is not looked at.
Acquire(c, k) ==
    /\ c \in alive
    /\ Has(c, k)
    /\ user[c][k] < MaxUser
    /\ Inc(c, k, node, Nowhere)
    /\ user' = [user EXCEPT ![c][k] = @ + 1]
    /\ UNCHANGED <<death, alive, buffers, local, lost>>

\* BC_RELEASE and BC_DECREFS.
Release(c, k) ==
    /\ user[c][k] > 0
    /\ user' = [user EXCEPT ![c][k] = @ - 1]
    /\ Dec(c, k)
    /\ UNCHANGED <<alive, buffers, local, historyVars>>

\* BINDER_WORK_NODE in binder_thread_read: tells the owner one thing at a time.
Strong(n) == n.internal_strong # 0 \/ n.local[strong] # 0
Weak(n) == Refs # {} \/ n.local[weak] # 0 \/ Strong(n)
OwnerRead ==
    LET Tell(k) == [node EXCEPT !.has[k] = TRUE, !.pending[k] = TRUE, !.local[k] = @ + 1]
        Untell(k) == [node EXCEPT !.has[k] = FALSE]
    IN  /\ node.work \in Queued
        /\ node' = IF Weak(node) /\ ~ node.has[weak] THEN Tell(weak)
                   ELSE IF Strong(node) /\ ~ node.has[strong] THEN Tell(strong)
                   ELSE IF ~ Strong(node) /\ node.has[strong] THEN Untell(strong)
                   ELSE IF ~ Weak(node) /\ node.has[weak] THEN Untell(weak)
                   ELSE IF Weak(node) THEN [node EXCEPT !.work = Nowhere]
                   ELSE NoNode
        /\ UNCHANGED <<ref, death, alive, userVars, historyVars>>

\* BC_INCREFS_DONE and BC_ACQUIRE_DONE.
Done(k) ==
    /\ node # NoNode /\ ~ node.dead
    /\ node.pending[k]
    /\ node' = binder_dec_node([node EXCEPT !.pending[k] = FALSE], k, FALSE, Refs)
    /\ UNCHANGED <<ref, death, alive, userVars, historyVars>>

----------------------------------------------------------------------------
(* Death notifications. *)

\* A binder_ref_death: its work item, and whether BR_DEAD_BINDER was read.
NewDeath(on) == [on |-> on, type |-> "dead", told |-> FALSE]
SetDeath(c, d, on, type) == [death EXCEPT ![c][d].on = on, ![c][d].type = type]

\* BC_REQUEST_DEATH_NOTIFICATION; the list depends on the thread's looper state.
RequestDeathUnchecked(c, d, list) ==
    /\ c \in alive
    /\ ref[c] # NoRef
    /\ ref[c].death = NoDeath
    /\ death[c][d] = Freed
    /\ ref' = [ref EXCEPT ![c].death = d]
    /\ death' = [death EXCEPT ![c][d] = NewDeath(list)]
    /\ UNCHANGED <<node, alive, userVars, historyVars>>
RequestDeathLate(c, d, list) ==
    /\ c \in alive
    /\ ref[c] # NoRef
    /\ ref[c].death = NoDeath
    /\ death[c][d] = Freed
    /\ ref' = [ref EXCEPT ![c].death = d]
    /\ death' = [death EXCEPT ![c][d] = NewDeath(Nowhere)]
    /\ UNCHANGED <<node, alive, userVars, historyVars>>
RequestDeath(c, d, list) ==
    /\ c \in alive
    /\ ref[c] # NoRef
    /\ ref[c].death = NoDeath
    /\ death[c][d] = Freed
    /\ ref' = [ref EXCEPT ![c].death = d]
    /\ death' = [death EXCEPT ![c][d] = NewDeath(IF node.dead THEN list ELSE Nowhere)]
    /\ UNCHANGED <<node, alive, userVars, historyVars>>

\* BC_CLEAR_DEATH_NOTIFICATION.
ClearDeath(c, list) ==
    LET d == ref[c].death
    IN  /\ c \in alive
        /\ d \in Deaths
        /\ ref' = [ref EXCEPT ![c].death = NoDeath]
        /\ death' = IF death[c][d].on = Nowhere THEN SetDeath(c, d, list, "clear")
                    ELSE SetDeath(c, d, death[c][d].on, "dead_and_clear")
        /\ UNCHANGED <<node, alive, userVars, historyVars>>

\* BR_DEAD_BINDER or BR_CLEAR_DEATH_NOTIFICATION_DONE in binder_thread_read.
ReadDeath(c, d) ==
    /\ death[c][d].on \in Queued
    /\ death' = [death EXCEPT ![c][d] = IF @.type = "clear" THEN Freed
                                        ELSE [@ EXCEPT !.on = Delivered, !.told = TRUE]]
    /\ UNCHANGED <<countVars, alive, userVars, historyVars>>

\* BC_DEAD_BINDER_DONE.
DeadBinderDoneOnly(c, d, list) ==
    /\ death[c][d].on = Delivered
    /\ death' = SetDeath(c, d, Nowhere, "dead")
    /\ UNCHANGED <<countVars, alive, userVars, historyVars>>
DeadBinderDone(c, d, list) ==
    /\ death[c][d].on = Delivered
    /\ death' = IF death[c][d].type = "dead_and_clear" THEN SetDeath(c, d, list, "clear")
                ELSE SetDeath(c, d, Nowhere, "dead")
    /\ UNCHANGED <<countVars, alive, userVars, historyVars>>

----------------------------------------------------------------------------
(* Threads and processes that exit. *)

\* binder_release_work takes node and death work off the list, and no more.
OwnerThreadExit ==
    /\ node.work = OnThread
    /\ node' = [node EXCEPT !.work = Nowhere]
    /\ lost' = lost \cup {Owner}
    /\ UNCHANGED <<ref, death, alive, userVars, refused>>

ClientThreadExit(c) ==
    /\ \E d \in Deaths : death[c][d].on = OnThread
    /\ death' = [death EXCEPT ![c] = [d \in Deaths |->
                    IF @[d].on = OnThread THEN [@[d] EXCEPT !.on = Nowhere] ELSE @[d]]]
    /\ lost' = lost \cup {c}
    /\ UNCHANGED <<countVars, alive, userVars, refused>>

\* binder_deferred_release of the owner.
OwnerDies ==
    /\ Owner \in alive
    /\ alive' = alive \ {Owner}
    /\ node' = IF Refs = {} THEN NoNode
               ELSE [node EXCEPT !.dead = TRUE, !.local = [k \in Kinds |-> 0],
                                 !.work = Nowhere]
    /\ death' = [c \in Clients |-> [d \in Deaths |->
                    IF ref[c].death = d THEN [death[c][d] EXCEPT !.on = OnProc]
                    ELSE death[c][d]]]
    /\ local' = [k \in Kinds |-> 0]
    /\ UNCHANGED <<ref, buffers, user, historyVars>>

\* And of a client.
ClientDies(c) ==
    /\ c \in alive
    /\ alive' = alive \ {c}
    /\ node' = IF ref[c] = NoRef THEN node ELSE binder_delete_ref(node, c, ref[c])
    /\ ref' = [ref EXCEPT ![c] = NoRef]
    /\ death' = [death EXCEPT ![c] = [d \in Deaths |-> Freed]]
    /\ buffers' = [buffers EXCEPT ![c] = [k \in Kinds |-> 0]]
    /\ user' = [user EXCEPT ![c] = [k \in Kinds |-> 0]]
    /\ UNCHANGED <<local, historyVars>>

----------------------------------------------------------------------------
BinderInit ==
    /\ node = NoNode
    /\ ref = [c \in Clients |-> NoRef]
    /\ death = [c \in Clients |-> [d \in Deaths |-> Freed]]
    /\ alive = Clients \cup {Owner}
    /\ buffers = [c \in Clients |-> [k \in Kinds |-> 0]]
    /\ local = [k \in Kinds |-> 0]
    /\ user = [c \in Clients |-> [k \in Kinds |-> 0]]
    /\ lost = {} /\ refused = {}

TransactionStep ==
    \/ \E c \in Clients : SendBinderFails(c)
    \/ \E k \in Kinds : \/ FreeOwnerBuffer(k)
                        \/ \E c \in Clients : \/ SendBinder(c, k) \/ SendBack(c, k)
                                              \/ FreeBuffer(c, k)
                                              \/ \E d \in Clients : SendHandle(c, d, k)

ReferenceStep == \E k \in Kinds : \/ Done(k)
                                  \/ \E c \in Clients : Acquire(c, k) \/ Release(c, k)

DeathStep == \E c \in Clients, d \in Deaths :
                 \/ ReadDeath(c, d)
                 \/ \E list \in Queued : \/ RequestDeath(c, d, list)
                                         \/ DeadBinderDone(c, d, list)

ClearStep == \E c \in Clients, list \in Queued : ClearDeath(c, list)

ExitStep == \/ OwnerThreadExit \/ OwnerDies
            \/ \E c \in Clients : ClientThreadExit(c) \/ ClientDies(c)

BinderNext == TransactionStep \/ ReferenceStep \/ OwnerRead \/ DeathStep \/ ClearStep
              \/ ExitStep

\* The processes' threads go on reading what is queued for them, and
\* acknowledge it.
BinderFairness ==
    /\ WF_binderVars(OwnerRead)
    /\ \A k \in Kinds : WF_binderVars(Done(k))
    /\ \A c \in Clients, d \in Deaths :
          /\ WF_binderVars(ReadDeath(c, d))
          /\ WF_binderVars(\E list \in Queued : DeadBinderDone(c, d, list))

BinderSpec == BinderInit /\ [][BinderNext]_binderVars /\ BinderFairness

----------------------------------------------------------------------------
(* Properties. *)

BinderTypeOK ==
    /\ node = NoNode \/ /\ node.internal_strong \in Nat
                        /\ node.local \in [Kinds -> Nat]
                        /\ node.has \in [Kinds -> BOOLEAN]
                        /\ node.pending \in [Kinds -> BOOLEAN]
                        /\ node.work \in Queued \cup {Nowhere}
    /\ \A c \in Refs : ref[c].count \in [Kinds -> Nat] /\ ref[c].death \in Deaths \cup {NoDeath}
    /\ alive \subseteq Clients \cup {Owner} /\ lost \subseteq Clients \cup {Owner}

One(b) == IF b THEN 1 ELSE 0

\* Every count is the number of those it counts, and the node is there as long
\* as anyone has it: commands, transactions, acknowledgements and exits in any
\* order neither leak a reference nor drop one that is in use.  A reference is
\* refused only if the owner is dead or lost the work that would have told it.
CountsExact ==
    /\ BinderTypeOK
    /\ node = NoNode => /\ Refs = {} /\ local = [k \in Kinds |-> 0]
    /\ node # NoNode =>
          /\ node.internal_strong = Cardinality({c \in Refs : ref[c].count[strong] > 0})
          /\ ~ node.dead => \A k \in Kinds :
                node.local[k] = local[k] + One(node.pending[k])
    /\ refused # {} => Owner \in lost \/ Owner \notin alive
    /\ \A c \in Clients \ refused, k \in Kinds :
          (IF ref[c] = NoRef THEN 0 ELSE ref[c].count[k]) = buffers[c][k] + user[c][k]

\* The owner has been told what it has to keep, or work is queued that will
\* tell it; it is told to let go only when nobody has the object and it has
\* acknowledged all before.
OwnerWillKnow ==
    node # NoNode /\ ~ node.dead =>
        /\ Owner \notin lost /\ node.work = Nowhere =>
              node.has[strong] = Strong(node) /\ node.has[weak] = Weak(node)
        /\ \A k \in Kinds : node.pending[k] => node.has[k]
        /\ node.has[strong] => node.has[weak]

\* A notification is queued only once its object is dead, so that the BUG() of
\* binder_deferred_release and the BUG_ON of BC_CLEAR_DEATH_NOTIFICATION are out
\* of reach; it goes away only when cleared or with its reference; and
\* BR_DEAD_BINDER is given once.
DeathsInStep ==
    \A c \in Clients :
        /\ ref[c].death \in Deaths =>
              LET w == death[c][ref[c].death]
              IN  /\ w # Freed /\ w.type = "dead"
                  /\ ~ node.dead => w.on = Nowhere
        /\ \A d \in Deaths : death[c][d].on \in Queued /\ death[c][d].type # "clear"
                              => ~ death[c][d].told

\* A client that asks to be told of the owner's death, before or after, is told,
\* if it keeps the reference, does not change its mind, and no thread of its
\* own exits with the notification.
DeathTold ==
    \A c \in Clients, d \in Deaths :
        ref[c].death = d /\ node.dead
            ~> c \in lost \/ ref[c].death # d \/ death[c][d].told

\* A client that clears its notification is answered, also in a race with the
\* owner's death.
ClearAnswered ==
    \A c \in Clients, d \in Deaths :
        death[c][d] # Freed /\ ref[c].death # d ~> c \in lost \/ death[c][d] = Freed

\* Once nobody refers to the object any more, the owner is told to let go of it
\* and the node is freed, unless a thread of the owner exits with the work.
\* Only a node that is still as binder_new_node made it, because the first
\* reference to it could not be allocated, has nobody who would free it.
NodeReleased ==
    node \notin {NoNode, NewNode} /\ Refs = {} /\ local = [k \in Kinds |-> 0]
        ~> node = NoNode \/ Refs # {} \/ Owner \in lost
=============================================================================
