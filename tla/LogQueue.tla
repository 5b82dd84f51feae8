------------------------------ MODULE LogQueue ------------------------------
(***************************************************************************)
(* What the Android logger promises: a log of bounded size that keeps the  *)
(* newest entries.  Every reader has a queue of the entries it has yet to  *)
(* read, and a new reader starts with the entries that are kept.  A write  *)
(* makes room in every queue that has none, by taking entries from its     *)
(* front, and then adds its entry to all of them, or fails and adds        *)
(* nothing.                                                                *)
(***************************************************************************)
EXTENDS Integers, SequencesExt

CONSTANTS Entries,       \* what can be written
          Readers,
          Capacity,      \* a queue holds less than this
          EntrySize(_),
          Nothing, Warning  \* results of a read that are no entries

VARIABLES open,    \* the readers that have the log open
          kept,    \* the queue of a new reader
          unread,  \* the queue of each reader
          got      \* what its last read returned

queueVars == <<open, kept, unread, got>>

Bytes(q) == LET upto[i \in 0 .. Len(q)] ==
                    IF i = 0 THEN 0 ELSE upto[i - 1] + EntrySize(q[i])
            IN  upto[Len(q)]
Fits(q, e) == Bytes(q) + EntrySize(e) < Capacity

QInit == /\ open = {}
         /\ kept = << >>
         /\ unread = [r \in Readers |-> << >>]
         /\ got = [r \in Readers |-> Nothing]

Open(r) == /\ r \notin open
           /\ open' = open \cup {r}
           /\ unread' = [unread EXCEPT ![r] = kept]
           /\ got' = [got EXCEPT ![r] = Nothing]
           /\ UNCHANGED kept

Close(r) == /\ r \in open
            /\ open' = open \ {r}
            /\ unread' = [unread EXCEPT ![r] = << >>]
            /\ got' = [got EXCEPT ![r] = Nothing]
            /\ UNCHANGED kept

Room(q, q1, e) == IF Fits(q, e) THEN q1 = q ELSE IsSuffix(q1, q) /\ Fits(q1, e)

MakeRoom(e) == /\ Room(kept, kept', e)
               /\ \A r \in open : Room(unread[r], unread'[r], e)
               /\ DOMAIN unread' = Readers
               /\ \A r \in Readers \ open : unread'[r] = << >>
               /\ UNCHANGED <<open, got>>

Add(e) == /\ Fits(kept, e)
          /\ \A r \in open : Fits(unread[r], e)
          /\ kept' = Append(kept, e)
          /\ unread' = [r \in Readers |->
                           IF r \in open THEN Append(unread[r], e) ELSE << >>]
          /\ UNCHANGED <<open, got>>

Read(r) == /\ r \in open
           /\ unread[r] # << >>
           /\ got' = [got EXCEPT ![r] = Head(unread[r])]
           /\ unread' = [unread EXCEPT ![r] = Tail(@)]
           /\ UNCHANGED <<open, kept>>

Warn(r) == /\ r \in open
           /\ unread[r] # << >>
           /\ got' = [got EXCEPT ![r] = Warning]
           /\ UNCHANGED <<open, kept, unread>>

Flush == /\ kept' = << >>
         /\ unread' = [r \in Readers |-> << >>]
         /\ UNCHANGED <<open, got>>

QNext == \/ \E r \in Readers : Open(r) \/ Close(r) \/ Read(r) \/ Warn(r)
         \/ \E e \in Entries : MakeRoom(e) \/ Add(e)
         \/ Flush

QSpec == QInit /\ [][QNext]_queueVars
=============================================================================
