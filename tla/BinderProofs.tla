---------------------------- MODULE BinderProofs ----------------------------
(***************************************************************************)
(* Proofs about Binder for any finite set of clients, any notifications    *)
(* and any bounds.                                                         *)
(***************************************************************************)
EXTENDS Binder, FiniteSetTheorems, TLAPS

----------------------------------------------------------------------------
(* The inductive invariant. *)

Nodes == [dead : BOOLEAN, internal_strong : Nat, local : [Kinds -> Nat],
          has : [Kinds -> BOOLEAN], pending : [Kinds -> BOOLEAN],
          work : Queued \cup {Nowhere}]
RefRecords == [count : [Kinds -> Nat], death : Deaths \cup {NoDeath}]

Types ==
    /\ ref \in [Clients -> RefRecords \cup {NoRef}]
    /\ buffers \in [Clients -> [Kinds -> Nat]]
    /\ user \in [Clients -> [Kinds -> Nat]]
    /\ local \in [Kinds -> Nat]
    /\ alive \subseteq Clients \cup {Owner} /\ lost \subseteq Clients \cup {Owner}
    /\ refused \subseteq Clients

StrongRefs == {c \in Refs : ref[c].count[strong] > 0}

\* What the owner knows of a node with these references, as OwnerWillKnow has it.
WeakWith(n, refs) == refs # {} \/ n.local[weak] # 0 \/ Strong(n)
Told(n, refs) ==
    /\ Owner \notin lost /\ n.work = Nowhere =>
          (n.has[strong] <=> Strong(n)) /\ (n.has[weak] <=> WeakWith(n, refs))
    /\ \A k \in Kinds : n.pending[k] => n.has[k]
    /\ n.has[strong] => n.has[weak]

\* A node whose counts are right: loc are the buffers of the owner, refs the
\* references, strongs those of them that are strong.  The owner's death is
\* marked, and leaves no work.
GoodNode(n, loc, refs, strongs) ==
    /\ n \in Nodes
    /\ n.dead <=> Owner \notin alive
    /\ n.dead => n.work = Nowhere /\ \A k \in Kinds : n.local[k] = 0
    /\ ~ n.dead => \A k \in Kinds : n.local[k] = loc[k] + One(n.pending[k])
    /\ n.internal_strong = Cardinality(strongs)
    /\ ~ n.dead => Told(n, refs)

\* The node is there while anyone has it, and its counts are right.
GoodOrGone(n, loc, refs, strongs) ==
    IF n = NoNode THEN refs = {} /\ \A k \in Kinds : loc[k] = 0
    ELSE GoodNode(n, loc, refs, strongs)
NodeOK == GoodOrGone(node, local, Refs, StrongRefs)

\* A dead owner has no buffers.
NoneOfTheDead == Owner \notin alive => \A k \in Kinds : local[k] = 0

\* What a client's reference counts, and why one was not counted.
CountOf(c, k) == IF ref[c] = NoRef THEN 0 ELSE ref[c].count[k]
RefsExact == \A c \in Clients \ refused, k \in Kinds :
                 CountOf(c, k) = buffers[c][k] + user[c][k]
OnlyLateRefused == refused # {} => Owner \in lost \/ Owner \notin alive

BinderInv == Types /\ NodeOK /\ NoneOfTheDead /\ RefsExact /\ OnlyLateRefused

----------------------------------------------------------------------------
(* What the operators on a node return. *)

LEMMA NoNodeApart == NoNode \notin Nodes /\ NewNode \in Nodes /\ NewNode # NoNode
<1>1. NewNode \in Nodes
  BY DEF NewNode, Nodes
<1>2. ASSUME NEW n \in Nodes PROVE n.work # "freed"
  BY DEF Nodes, Queued, OnThread, OnProc, Nowhere
<1>3. NoNode.work = "freed"
  BY DEF NoNode
<1>. QED
  BY <1>1, <1>2, <1>3

\* binder_inc_node counts, and leaves work if the owner is to be told.
IncResult(n, k, internal, list, m) ==
    /\ m \in Nodes
    /\ m.dead = n.dead /\ m.has = n.has /\ m.pending = n.pending
    /\ m.internal_strong = IF internal /\ k = strong THEN n.internal_strong + 1
                           ELSE n.internal_strong
    /\ m.local = [n.local EXCEPT ![k] = IF internal THEN @ ELSE @ + 1]
    /\ m.work = Nowhere => n.work = Nowhere /\ (n.has[k] \/ list = Nowhere)
    /\ list = Nowhere => m.work = n.work

LEMMA IncFacts ==
    ASSUME NEW n \in Nodes, NEW k \in Kinds, NEW internal \in BOOLEAN,
           NEW list \in Queued \cup {Nowhere}
    PROVE  IncResult(n, k, internal, list, binder_inc_node(n, k, internal, list))
<1>. DEFINE m == binder_inc_node(n, k, internal, list)
            s == IF internal /\ k = strong THEN n.internal_strong + 1 ELSE n.internal_strong
            v == IF internal THEN n.local[k] ELSE n.local[k] + 1
            w == IF /\ ~ n.has[k] /\ list # Nowhere
                    /\ k = strong \/ n.work = Nowhere THEN list ELSE n.work
<1>1. n.internal_strong \in Nat /\ n.local[k] \in Nat /\ n.work \in Queued \cup {Nowhere}
  BY DEF Nodes
<1>2. s \in Nat /\ v \in Nat /\ w \in Queued \cup {Nowhere}
  BY <1>1
<1>3. m = [n EXCEPT !.internal_strong = s, !.local[k] = v, !.work = w]
  BY DEF binder_inc_node
<1>4. /\ w = Nowhere => n.work = Nowhere /\ (n.has[k] \/ list = Nowhere)
      /\ list = Nowhere => w = n.work
  BY DEF Kinds
<1>. HIDE DEF s, v, w, m
<1>5. /\ m.work = w /\ m.internal_strong = s
      /\ m.local = [n.local EXCEPT ![k] = v]
  BY <1>2, <1>3 DEF Nodes
<1>6. m.dead = n.dead /\ m.has = n.has /\ m.pending = n.pending
  BY <1>3 DEF Nodes
<1>7. [n EXCEPT !.internal_strong = s, !.local[k] = v, !.work = w] \in Nodes
  BY ONLY <1>2, n \in Nodes, k \in Kinds DEF Nodes
<1>8. IncResult(n, k, internal, list, m)
  BY <1>3, <1>4, <1>5, <1>6, <1>7 DEF s, v, IncResult
<1>. QED
  BY <1>8 DEF m

\* binder_dec_node counts down; the node goes only when nothing is left, and if
\* the owner knew of the last reference of the kind there is work for it.
DecStays(n, k, internal, refs, r) ==
    /\ r \in Nodes
    /\ r.dead = n.dead /\ r.has = n.has /\ r.pending = n.pending
    /\ r.internal_strong = IF internal /\ k = strong THEN n.internal_strong - 1
                           ELSE n.internal_strong
    /\ r.local = [n.local EXCEPT ![k] = IF internal THEN @ ELSE @ - 1]
    /\ n.dead => r.work = n.work
    /\ ~ n.dead /\ r.work = Nowhere =>
          /\ n.work = Nowhere
          /\ \/ r.local[k] # 0
             \/ k = strong /\ r.internal_strong # 0
             \/ k = weak /\ refs # {}
             \/ ~ n.has[strong] /\ ~ n.has[weak]
DecFrees(n, k, internal, refs) ==
    /\ refs = {}
    /\ \A j \in Kinds : n.local[j] = 0 \/ (~ internal /\ j = k /\ n.local[j] = 1)
DecResult(n, k, internal, refs, r) ==
    \/ r = NoNode /\ DecFrees(n, k, internal, refs)
    \/ r # NoNode /\ DecStays(n, k, internal, refs, r)

LEMMA DecFacts ==
    ASSUME NEW n \in Nodes, NEW k \in Kinds, NEW internal \in BOOLEAN, NEW refs,
           internal /\ k = strong => n.internal_strong > 0,
           ~ internal => n.local[k] > 0
    PROVE  DecResult(n, k, internal, refs, binder_dec_node(n, k, internal, refs))
<1>. DEFINE m == [n EXCEPT !.internal_strong = IF internal /\ k = strong THEN @ - 1 ELSE @,
                           !.local[k] = IF internal THEN @ ELSE @ - 1]
            r == binder_dec_node(n, k, internal, refs)
            left == m.local[k] # 0 \/ IF k = strong THEN m.internal_strong # 0 ELSE refs # {}
<1>1. /\ m \in Nodes
      /\ m.dead = n.dead /\ m.has = n.has /\ m.pending = n.pending /\ m.work = n.work
      /\ m.internal_strong = IF internal /\ k = strong THEN n.internal_strong - 1
                             ELSE n.internal_strong
      /\ m.local = [n.local EXCEPT ![k] = IF internal THEN @ ELSE @ - 1]
  <2>. DEFINE s == IF internal /\ k = strong THEN n.internal_strong - 1 ELSE n.internal_strong
              v == IF internal THEN n.local[k] ELSE n.local[k] - 1
  <2>1. n.internal_strong \in Nat /\ n.local[k] \in Nat /\ n.work \in Queued \cup {Nowhere}
    BY DEF Nodes
  <2>2. s \in Nat /\ v \in Nat
    BY <2>1
  <2>3. m = [n EXCEPT !.internal_strong = s, !.local[k] = v, !.work = n.work]
    BY DEF Nodes
  <2>4. m.local = [n.local EXCEPT ![k] = v] /\ m.internal_strong = s
    <3>. HIDE DEF s, v, m
    <3>. QED
      BY <2>1, <2>2, <2>3 DEF Nodes
  <2>5. /\ m \in Nodes /\ m.dead = n.dead /\ m.has = n.has /\ m.pending = n.pending
        /\ m.work = n.work
    <3>. HIDE DEF s, v, m
    <3>. QED
      BY <2>1, <2>2, <2>3 DEF Nodes
  <2>. QED
    BY <2>4, <2>5 DEF s, v
<1>2. r = IF left THEN m
          ELSE IF ~ m.dead /\ (m.has[strong] \/ m.has[weak])
               THEN [m EXCEPT !.work = IF @ = Nowhere THEN OnProc ELSE @]
          ELSE IF refs = {} /\ m.local[strong] = 0 /\ m.local[weak] = 0 THEN NoNode
          ELSE m
  BY DEF binder_dec_node
<1>3. \A j \in Kinds : m.local[j] \in Nat
  BY <1>1 DEF Nodes
<1>. HIDE DEF m, r
<1>. SUFFICES DecResult(n, k, internal, refs, r)
  BY DEF r
<1>4. CASE left
  BY <1>1, <1>2, <1>3, <1>4, NoNodeApart DEF Kinds, DecResult, DecStays
<1>5. CASE ~ left /\ ~ m.dead /\ (m.has[strong] \/ m.has[weak])
  <2>1. r = [m EXCEPT !.work = IF @ = Nowhere THEN OnProc ELSE @]
    BY <1>2, <1>5
  <2>2. /\ r \in Nodes /\ r.work # Nowhere
        /\ r.dead = m.dead /\ r.has = m.has /\ r.pending = m.pending
        /\ r.internal_strong = m.internal_strong /\ r.local = m.local
    BY <1>1, <2>1 DEF Nodes, Queued, OnProc, OnThread, Nowhere
  <2>. QED
    BY <1>1, <1>5, <2>2, NoNodeApart DEF DecResult, DecStays
<1>6. CASE /\ ~ left /\ ~ (~ m.dead /\ (m.has[strong] \/ m.has[weak]))
           /\ refs = {} /\ m.local[strong] = 0 /\ m.local[weak] = 0
  <2>1. r = NoNode
    BY <1>2, <1>6
  <2>2. n.local \in [Kinds -> Nat]
    BY DEF Nodes
  <2>3. ASSUME NEW j \in Kinds
        PROVE  n.local[j] = 0 \/ (~ internal /\ j = k /\ n.local[j] = 1)
    <3>1. m.local[j] = 0
      BY <1>6 DEF Kinds
    <3>2. m.local[j] = IF j = k /\ ~ internal THEN n.local[j] - 1 ELSE n.local[j]
      BY <1>1, <2>2
    <3>. QED
      BY <2>2, <3>1, <3>2
  <2>4. refs = {}
    BY <1>6
  <2>. QED
    BY <2>1, <2>3, <2>4 DEF DecResult, DecFrees
<1>7. CASE /\ ~ left /\ ~ (~ m.dead /\ (m.has[strong] \/ m.has[weak]))
           /\ ~ (refs = {} /\ m.local[strong] = 0 /\ m.local[weak] = 0)
  <2>1. r = m
    BY <1>2, <1>7
  <2>. QED
    BY <1>1, <1>7, <2>1, NoNodeApart DEF DecResult, DecStays
<1>. QED
  BY <1>4, <1>5, <1>6, <1>7

----------------------------------------------------------------------------
(* What the operators do to a node whose counts are right. *)

\* Sets of clients are finite, so taking one in or out changes the number by 1.
LEMMA OneMore ==
    ASSUME NEW S \in SUBSET Clients, NEW x \in Clients
    PROVE  /\ Cardinality(S) \in Nat
           /\ x \notin S => Cardinality(S \cup {x}) = Cardinality(S) + 1
           /\ x \in S => /\ Cardinality(S) > 0
                         /\ Cardinality(S \ {x}) = Cardinality(S) - 1
           /\ Cardinality(S) = 0 => S = {}
<1>1. IsFiniteSet(S)
  BY BinderAssumption, FS_Subset
<1>2. Cardinality(S) \in Nat
  BY <1>1, FS_CardinalityType
<1>3. Cardinality(S) = 0 <=> S = {}
  BY <1>1, FS_EmptySet
<1>4. x \notin S => Cardinality(S \cup {x}) = Cardinality(S) + 1
  BY <1>1, FS_AddElement
<1>5. x \in S => Cardinality(S \ {x}) = Cardinality(S) - 1
  BY <1>1, FS_RemoveElement
<1>. QED
  BY <1>2, <1>3, <1>4, <1>5

\* One more strong reference: the owner has been told of one, or will be.
LEMMA GoodIncStrong ==
    ASSUME NEW n, NEW loc, NEW refs \in SUBSET Clients, NEW strongs \in SUBSET refs,
           NEW x \in Clients, x \notin strongs, NEW list \in Queued \cup {Nowhere},
           GoodNode(n, loc, refs, strongs),
           CanInc(n, strong, TRUE, list), list # Nowhere => Owner \in alive
    PROVE  GoodNode(binder_inc_node(n, strong, TRUE, list), loc, refs \cup {x}, strongs \cup {x})
<1>. DEFINE m == binder_inc_node(n, strong, TRUE, list)
<1>1. n \in Nodes /\ strong \in Kinds /\ weak \in Kinds
  BY DEF GoodNode, Kinds
<1>0. IncResult(n, strong, TRUE, list, m)
  BY <1>1, IncFacts
<1>. HIDE DEF m
<1>2. /\ m \in Nodes
      /\ m.dead = n.dead /\ m.has = n.has /\ m.pending = n.pending
      /\ m.internal_strong = n.internal_strong + 1
      /\ m.local = [n.local EXCEPT ![strong] = @]
      /\ m.work = Nowhere => n.work = Nowhere /\ (n.has[strong] \/ list = Nowhere)
      /\ list = Nowhere => m.work = n.work
  BY <1>0 DEF IncResult
<1>3. m.local = n.local
  BY <1>1, <1>2 DEF Nodes
<1>4. m.internal_strong = Cardinality(strongs \cup {x})
  BY <1>2, OneMore DEF GoodNode
<1>5. n.internal_strong \in Nat
  BY <1>1 DEF Nodes
<1>6. ASSUME ~ n.dead PROVE Told(m, refs \cup {x})
  <2>1. Told(n, refs)
    BY <1>6 DEF GoodNode
  <2>2. Strong(m)
    BY <1>2, <1>5 DEF Strong
  <2>3. ASSUME Owner \notin lost, m.work = Nowhere PROVE n.has[strong]
    BY <1>2, <2>1, <2>3 DEF Told, CanInc, Strong
  <2>. QED
    BY <1>2, <2>1, <2>2, <2>3 DEF Told, WeakWith
<1>. QED
  BY <1>2, <1>3, <1>4, <1>6 DEF GoodNode, m

\* One more weak reference.
LEMMA GoodIncWeak ==
    ASSUME NEW n, NEW loc, NEW refs \in SUBSET Clients, NEW strongs,
           NEW x \in Clients, NEW list \in Queued \cup {Nowhere},
           GoodNode(n, loc, refs, strongs),
           CanInc(n, weak, TRUE, list), list # Nowhere => Owner \in alive
    PROVE  GoodNode(binder_inc_node(n, weak, TRUE, list), loc, refs \cup {x}, strongs)
<1>. DEFINE m == binder_inc_node(n, weak, TRUE, list)
<1>1. n \in Nodes /\ strong \in Kinds /\ weak \in Kinds /\ weak # strong
  BY DEF GoodNode, Kinds, strong, weak
<1>0. IncResult(n, weak, TRUE, list, m)
  BY <1>1, IncFacts
<1>. HIDE DEF m
<1>2. /\ m \in Nodes
      /\ m.dead = n.dead /\ m.has = n.has /\ m.pending = n.pending
      /\ m.internal_strong = n.internal_strong
      /\ m.local = [n.local EXCEPT ![weak] = @]
      /\ m.work = Nowhere => n.work = Nowhere /\ (n.has[weak] \/ list = Nowhere)
      /\ list = Nowhere => m.work = n.work
  BY <1>0, <1>1 DEF IncResult
<1>3. m.local = n.local
  BY <1>1, <1>2 DEF Nodes
<1>4. ASSUME ~ n.dead PROVE Told(m, refs \cup {x})
  <2>1. Told(n, refs)
    BY <1>4 DEF GoodNode
  <2>2. WeakWith(m, refs \cup {x}) /\ (Strong(m) <=> Strong(n))
    BY <1>2, <1>3 DEF Strong, WeakWith
  <2>3. ASSUME Owner \notin lost, m.work = Nowhere PROVE n.has[weak]
    BY <1>1, <1>2, <2>3 DEF CanInc
  <2>. QED
    BY <1>2, <2>1, <2>2, <2>3 DEF Told
<1>. QED
  BY <1>2, <1>3, <1>4 DEF GoodNode, m

\* One more buffer of the owner with the object in it.
LEMMA GoodIncLocal ==
    ASSUME NEW n, NEW loc \in [Kinds -> Nat], NEW refs \in SUBSET Clients, NEW strongs,
           NEW k \in Kinds, GoodNode(n, loc, refs, strongs), ~ n.dead,
           refs # {}, k = strong => n.internal_strong > 0
    PROVE  GoodNode(binder_inc_node(n, k, FALSE, Nowhere), [loc EXCEPT ![k] = @ + 1], refs, strongs)
<1>. DEFINE m == binder_inc_node(n, k, FALSE, Nowhere)
<1>1. n \in Nodes /\ strong \in Kinds /\ weak \in Kinds
  BY DEF GoodNode, Kinds
<1>0. IncResult(n, k, FALSE, Nowhere, m)
  BY <1>1, IncFacts
<1>. HIDE DEF m
<1>2. /\ m \in Nodes
      /\ m.dead = n.dead /\ m.has = n.has /\ m.pending = n.pending
      /\ m.internal_strong = n.internal_strong
      /\ m.local = [n.local EXCEPT ![k] = @ + 1]
      /\ m.work = n.work
  BY <1>0 DEF IncResult
<1>3. n.local \in [Kinds -> Nat] /\ n.internal_strong \in Nat
  BY <1>1 DEF Nodes
<1>4. ASSUME NEW j \in Kinds
      PROVE  m.local[j] = [loc EXCEPT ![k] = @ + 1][j] + One(m.pending[j])
  <2>1. n.local[j] = loc[j] + One(n.pending[j])
    BY DEF GoodNode
  <2>. QED
    BY <1>2, <1>3, <2>1 DEF One
<1>5. Told(m, refs)
  <2>1. Told(n, refs)
    BY DEF GoodNode
  <2>2. WeakWith(m, refs) /\ WeakWith(n, refs) /\ (Strong(m) <=> Strong(n))
    BY <1>1, <1>2, <1>3 DEF Strong, WeakWith
  <2>. QED
    BY <1>2, <2>1, <2>2 DEF Told
<1>. QED
  BY <1>2, <1>4, <1>5 DEF GoodNode, m

\* One reference more or less matters only to a node that had none.
LEMMA GoodMoreRefs ==
    ASSUME NEW n, NEW loc, NEW refs, NEW more, NEW strongs,
           GoodNode(n, loc, refs, strongs), refs # {}, more # {}
    PROVE  GoodNode(n, loc, more, strongs)
BY DEF GoodNode, Told, WeakWith

\* One strong reference less: the client still has its weak part, so the node
\* stays, and if it was the last strong one there is work to tell the owner.
LEMMA GoodDecStrong ==
    ASSUME NEW n, NEW loc, NEW refs \in SUBSET Clients, NEW strongs \in SUBSET refs,
           NEW x \in strongs, GoodNode(n, loc, refs, strongs)
    PROVE  /\ binder_dec_node(n, strong, TRUE, refs) # NoNode
           /\ GoodNode(binder_dec_node(n, strong, TRUE, refs), loc, refs, strongs \ {x})
<1>. DEFINE r == binder_dec_node(n, strong, TRUE, refs)
<1>1. n \in Nodes /\ strong \in Kinds /\ weak \in Kinds
  BY DEF GoodNode, Kinds
<1>2. n.internal_strong = Cardinality(strongs)
  BY DEF GoodNode
<1>3. /\ Cardinality(strongs) \in Nat /\ Cardinality(strongs) > 0
      /\ Cardinality(strongs \ {x}) = Cardinality(strongs) - 1
  <2>1. strongs \in SUBSET Clients /\ x \in Clients
    OBVIOUS
  <2>. QED
    BY <2>1, OneMore
<1>4. DecResult(n, strong, TRUE, refs, r)
  <2>1. n.internal_strong > 0
    BY <1>2, <1>3
  <2>. QED
    BY <1>1, <2>1, DecFacts
<1>. HIDE DEF r
<1>5. r # NoNode /\ DecStays(n, strong, TRUE, refs, r)
  BY <1>4 DEF DecResult, DecFrees
<1>6. /\ r \in Nodes
      /\ r.dead = n.dead /\ r.has = n.has /\ r.pending = n.pending
      /\ r.internal_strong = n.internal_strong - 1
      /\ n.dead => r.work = n.work
      /\ ~ n.dead /\ r.work = Nowhere =>
            /\ n.work = Nowhere
            /\ \/ r.local[strong] # 0 \/ r.internal_strong # 0
               \/ ~ n.has[strong] /\ ~ n.has[weak]
  BY <1>5 DEF DecStays, strong, weak
<1>7. r.local = n.local
  BY <1>1, <1>5 DEF DecStays, Nodes
<1>8. ASSUME ~ n.dead PROVE Told(r, refs)
  <2>1. Told(n, refs) /\ Strong(n)
    BY <1>2, <1>3, <1>8 DEF GoodNode, Strong
  <2>2. ASSUME Owner \notin lost, r.work = Nowhere
        PROVE  n.has[strong] /\ n.has[weak] /\ Strong(r)
    BY <1>6, <1>8, <2>1, <2>2 DEF Told, Strong
  <2>. QED
    BY <1>6, <2>1, <2>2 DEF Told, WeakWith
<1>9. GoodNode(r, loc, refs, strongs \ {x})
  <2>1. r.internal_strong = Cardinality(strongs \ {x})
    BY <1>2, <1>3, <1>6
  <2>. QED
    BY <1>6, <1>7, <1>8, <2>1 DEF GoodNode
<1>. QED
  BY <1>5, <1>9 DEF r

\* A reference that is not strong is deleted.
LEMMA GoodDecWeak ==
    ASSUME NEW n, NEW loc \in [Kinds -> Nat], NEW refs \in SUBSET Clients,
           NEW strongs \in SUBSET refs,
           NEW x \in refs, GoodNode(n, loc, refs, strongs),
           Owner \notin alive => \A k \in Kinds : loc[k] = 0
    PROVE  GoodOrGone(binder_dec_node(n, weak, TRUE, refs \ {x}), loc, refs \ {x}, strongs)
<1>. DEFINE r == binder_dec_node(n, weak, TRUE, refs \ {x})
<1>1. n \in Nodes /\ strong \in Kinds /\ weak \in Kinds /\ weak # strong
  BY DEF GoodNode, Kinds, weak, strong
<1>2. DecResult(n, weak, TRUE, refs \ {x}, r)
  BY <1>1, DecFacts
<1>. HIDE DEF r, GoodOrGone
<1>3. CASE r = NoNode
  <2>1. refs \ {x} = {} /\ \A k \in Kinds : n.local[k] = 0
    BY <1>2, <1>3 DEF DecResult, DecFrees
  <2>2. ASSUME NEW k \in Kinds PROVE loc[k] = 0
    <3>1. CASE n.dead
      BY <3>1 DEF GoodNode
    <3>2. CASE ~ n.dead
      <4>1. n.local[k] = loc[k] + One(n.pending[k])
        BY <3>2 DEF GoodNode
      <4>. QED
        BY <2>1, <4>1 DEF One
    <3>. QED
      BY <3>1, <3>2
  <2>. QED
    BY <1>3, <2>1, <2>2 DEF r, GoodOrGone
<1>4. CASE r # NoNode
  <2>1. DecStays(n, weak, TRUE, refs \ {x}, r)
    BY <1>2, <1>4 DEF DecResult
  <2>2. /\ r \in Nodes
        /\ r.dead = n.dead /\ r.has = n.has /\ r.pending = n.pending
        /\ r.internal_strong = n.internal_strong
        /\ n.dead => r.work = n.work
        /\ ~ n.dead /\ r.work = Nowhere =>
              /\ n.work = Nowhere
              /\ \/ r.local[weak] # 0 \/ refs \ {x} # {}
                 \/ ~ n.has[strong] /\ ~ n.has[weak]
    BY <1>1, <2>1 DEF DecStays
  <2>3. r.local = n.local
    BY <1>1, <2>1 DEF DecStays, Nodes
  <2>4. ASSUME ~ n.dead PROVE Told(r, refs \ {x})
    <3>1. Told(n, refs) /\ WeakWith(n, refs) /\ (Strong(r) <=> Strong(n))
      BY <2>2, <2>3, <2>4 DEF GoodNode, WeakWith, Strong
    <3>2. ASSUME Owner \notin lost, r.work = Nowhere
          PROVE  n.has[weak] /\ WeakWith(r, refs \ {x}) /\ (n.has[strong] <=> Strong(n))
      BY <2>2, <2>4, <3>1, <3>2 DEF Told, WeakWith
    <3>. QED
      BY <2>2, <3>1, <3>2 DEF Told
  <2>5. GoodNode(r, loc, refs \ {x}, strongs)
    BY <2>2, <2>3, <2>4 DEF GoodNode
  <2>. QED
    BY <1>4, <2>5 DEF r, GoodOrGone
<1>. QED
  BY <1>3, <1>4

\* One local count less, for a buffer that is freed or an acknowledgement; loc
\* is what is left.
LEMMA GoodDecLocal ==
    ASSUME NEW n \in Nodes, NEW loc \in [Kinds -> Nat], NEW refs, NEW strongs,
           NEW k \in Kinds, ~ n.dead, Owner \in alive,
           \A j \in Kinds : n.local[j] = loc[j] + One(n.pending[j]) + One(j = k),
           n.internal_strong = Cardinality(strongs), Told(n, refs)
    PROVE  GoodOrGone(binder_dec_node(n, k, FALSE, refs), loc, refs, strongs)
<1>. DEFINE r == binder_dec_node(n, k, FALSE, refs)
<1>1. strong \in Kinds /\ weak \in Kinds /\ Kinds = {strong, weak} /\ weak # strong
  BY DEF Kinds, weak, strong
<1>2. /\ n.local \in [Kinds -> Nat] /\ n.local[k] > 0
      /\ \A j \in Kinds : n.local[j] > 0 \/ loc[j] = 0
  BY DEF Nodes, One
<1>3. DecResult(n, k, FALSE, refs, r)
  BY <1>2, DecFacts
<1>. HIDE DEF r, GoodOrGone
<1>4. CASE r = NoNode
  <2>1. refs = {} /\ \A j \in Kinds : n.local[j] = 0 \/ (j = k /\ n.local[j] = 1)
    BY <1>3, <1>4 DEF DecResult, DecFrees
  <2>2. ASSUME NEW j \in Kinds PROVE loc[j] = 0
    BY <1>2, <2>1 DEF One
  <2>. QED
    BY <1>4, <2>1, <2>2 DEF r, GoodOrGone
<1>5. CASE r # NoNode
  <2>1. DecStays(n, k, FALSE, refs, r)
    BY <1>3, <1>5 DEF DecResult
  <2>2. /\ r \in Nodes
        /\ r.dead = n.dead /\ r.has = n.has /\ r.pending = n.pending
        /\ r.internal_strong = n.internal_strong
        /\ r.local = [n.local EXCEPT ![k] = @ - 1]
        /\ r.work = Nowhere =>
              /\ n.work = Nowhere
              /\ \/ r.local[k] # 0
                 \/ k = strong /\ r.internal_strong # 0
                 \/ k = weak /\ refs # {}
                 \/ ~ n.has[strong] /\ ~ n.has[weak]
    BY <2>1 DEF DecStays
  <2>3. ASSUME NEW j \in Kinds PROVE r.local[j] = loc[j] + One(r.pending[j])
    <3>1. r.local[j] = n.local[j] - One(j = k)
      BY <1>2, <2>2 DEF One
    <3>. QED
      BY <2>2, <3>1 DEF One
  <2>4. Told(r, refs)
    <3>1. /\ k = strong => Strong(n)
          /\ k = weak => WeakWith(n, refs) /\ (Strong(r) <=> Strong(n))
      BY <1>1, <1>2, <2>2 DEF WeakWith, Strong
    <3>2. ASSUME Owner \notin lost, r.work = Nowhere
          PROVE  (n.has[strong] <=> Strong(r)) /\ (n.has[weak] <=> WeakWith(r, refs))
      <4>1. CASE k = strong
        BY <1>1, <1>2, <2>2, <3>1, <3>2, <4>1 DEF Told, WeakWith, Strong
      <4>2. CASE k = weak
        BY <1>1, <1>2, <2>2, <3>1, <3>2, <4>2 DEF Told, WeakWith
      <4>. QED
        BY <1>1, <4>1, <4>2
    <3>. QED
      BY <2>2, <3>1, <3>2 DEF Told
  <2>5. GoodNode(r, loc, refs, strongs)
    BY <2>2, <2>3, <2>4 DEF GoodNode
  <2>. QED
    BY <1>5, <2>5 DEF r, GoodOrGone
<1>. QED
  BY <1>4, <1>5

\* binder_delete_ref of a client's reference.
LEMMA GoodDelete ==
    ASSUME NEW n, NEW loc \in [Kinds -> Nat], NEW strongs \in SUBSET Refs, NEW x \in Refs,
           NEW r, r.count[strong] # 0 <=> x \in strongs,
           GoodNode(n, loc, Refs, strongs),
           Owner \notin alive => \A k \in Kinds : loc[k] = 0
    PROVE  GoodOrGone(binder_delete_ref(n, x, r), loc, Refs \ {x}, strongs \ {x})
<1>0. Refs \in SUBSET Clients
  BY DEF Refs
<1>1. CASE x \in strongs
  <2>. DEFINE m1 == binder_dec_node(n, strong, TRUE, Refs)
  <2>1. GoodNode(m1, loc, Refs, strongs \ {x})
    BY <1>0, <1>1, GoodDecStrong
  <2>2. binder_delete_ref(n, x, r) = binder_dec_node(m1, weak, TRUE, Refs \ {x})
    BY <1>1 DEF binder_delete_ref
  <2>3. strongs \ {x} \in SUBSET Refs
    OBVIOUS
  <2>. HIDE DEF m1
  <2>4. GoodOrGone(binder_dec_node(m1, weak, TRUE, Refs \ {x}), loc, Refs \ {x},
                   strongs \ {x})
    BY <1>0, <2>1, <2>3, GoodDecWeak, Zenon
  <2>. QED
    BY <2>2, <2>4
<1>2. CASE x \notin strongs
  <2>1. binder_delete_ref(n, x, r) = binder_dec_node(n, weak, TRUE, Refs \ {x})
    BY <1>2 DEF binder_delete_ref
  <2>2. strongs \ {x} = strongs
    BY <1>2
  <2>3. GoodOrGone(binder_dec_node(n, weak, TRUE, Refs \ {x}), loc, Refs \ {x}, strongs)
    BY <1>0, GoodDecWeak, Zenon
  <2>. QED
    BY <2>1, <2>2, <2>3
<1>. QED
  BY <1>1, <1>2

----------------------------------------------------------------------------
(* What a command does to a client's reference. *)

LEMMA RefApart ==
    /\ NoRef \notin RefRecords
    /\ NewRef \in RefRecords /\ \A k \in Kinds : NewRef.count[k] = 0
<1>1. ASSUME NEW r \in RefRecords PROVE r.death # NoRef.death
  BY BinderAssumption DEF RefRecords, NoRef, NoDeath
<1>2. NewRef \in RefRecords /\ \A k \in Kinds : NewRef.count[k] = 0
  BY DEF NewRef, RefRecords
<1>. QED
  BY <1>1, <1>2

\* A reference with one count changed.
LEMMA RefFields ==
    ASSUME NEW r \in RefRecords, NEW k \in Kinds, NEW v \in Nat
    PROVE  LET q == [r EXCEPT !.count[k] = v] IN
           /\ q \in RefRecords /\ q.death = r.death
           /\ \A j \in Kinds : q.count[j] = IF j = k THEN v ELSE r.count[j]
BY DEF RefRecords

\* The sets of references when one client's changes.
LEMMA SetsOfRefs ==
    ASSUME ref \in [Clients -> RefRecords \cup {NoRef}], NEW c \in Clients,
           NEW q \in RefRecords \cup {NoRef}, ref' = [ref EXCEPT ![c] = q]
    PROVE  /\ ref' \in [Clients -> RefRecords \cup {NoRef}]
           /\ ref'[c] = q /\ \A x \in Clients \ {c} : ref'[x] = ref[x]
           /\ Refs' = IF q = NoRef THEN Refs \ {c} ELSE Refs \cup {c}
           /\ StrongRefs' = IF q # NoRef /\ q.count[strong] > 0 THEN StrongRefs \cup {c}
                            ELSE StrongRefs \ {c}
<1>1. /\ ref' \in [Clients -> RefRecords \cup {NoRef}]
      /\ ref'[c] = q /\ \A x \in Clients \ {c} : ref'[x] = ref[x]
  OBVIOUS
<1>2. Refs' = IF q = NoRef THEN Refs \ {c} ELSE Refs \cup {c}
  BY <1>1 DEF Refs
<1>. DEFINE isStrong(r) == r # NoRef /\ r.count[strong] > 0
<1>3. ASSUME NEW x PROVE /\ x \in StrongRefs' <=> x \in Clients /\ isStrong(ref'[x])
                         /\ x \in StrongRefs <=> x \in Clients /\ isStrong(ref[x])
  BY DEF StrongRefs, Refs
<1>4. CASE isStrong(q)
  <2>. HIDE DEF isStrong
  <2>1. StrongRefs' = StrongRefs \cup {c}
    BY <1>1, <1>3, <1>4
  <2>. QED
    BY <1>1, <1>2, <1>4, <2>1 DEF isStrong
<1>5. CASE ~ isStrong(q)
  <2>. HIDE DEF isStrong
  <2>1. StrongRefs' = StrongRefs \ {c}
    BY <1>1, <1>3, <1>5
  <2>. QED
    BY <1>1, <1>2, <1>5, <2>1 DEF isStrong
<1>. QED
  BY <1>4, <1>5

\* binder_inc_ref through a command or a transaction: c's count grows by one, or
\* the reference is refused, and that only late.
LEMMA IncKeeps ==
    ASSUME BinderInv, NEW c \in Clients, NEW k \in Kinds, NEW n,
           NEW list \in Queued \cup {Nowhere},
           GoodNode(n, local, Refs, StrongRefs),
           list = Nowhere => Refs # {} /\ (k = strong => StrongRefs # {}),
           list # Nowhere => Owner \in alive,
           Inc(c, k, n, list)
    PROVE  /\ GoodNode(node', local, Refs', StrongRefs')
           /\ ref' \in [Clients -> RefRecords \cup {NoRef}]
           /\ \A x \in Clients \ {c} : ref'[x] = ref[x]
           /\ ref'[c] \in RefRecords
           /\ \/ /\ refused' = refused
                 /\ \A j \in Kinds : ref'[c].count[j] = CountOf(c, j) + One(j = k)
              \/ /\ refused' = refused \cup {c}
                 /\ Owner \in lost \/ Owner \notin alive
<1>. DEFINE old == IF ref[c] = NoRef THEN NewRef ELSE ref[c]
            new == binder_inc_ref(n, old, k, list)
            up == [old EXCEPT !.count[k] = old.count[k] + 1]
<1>1. ref \in [Clients -> RefRecords \cup {NoRef}]
  BY DEF BinderInv, Types
<1>2. /\ old \in RefRecords /\ old.count[k] \in Nat /\ old.count[strong] \in Nat
      /\ \A j \in Kinds : old.count[j] = CountOf(c, j)
  BY <1>1, RefApart DEF CountOf, RefRecords, Kinds
<1>3. /\ node' = new.node /\ ref' = [ref EXCEPT ![c] = new.ref]
      /\ refused' = IF new.ref = old THEN refused \cup {c} ELSE refused
  BY DEF Inc
<1>4. c \in StrongRefs <=> old.count[strong] > 0
  BY <1>1, <1>2, RefApart DEF StrongRefs, Refs, Kinds
<1>5. old.count[k] # 0 => c \in Refs
  BY RefApart DEF Refs
<1>6. new = IF old.count[k] # 0 THEN Counts(n, up)
            ELSE IF CanInc(n, k, TRUE, list)
                 THEN Counts(binder_inc_node(n, k, TRUE, list), up)
            ELSE Counts(n, old)
  BY DEF binder_inc_ref
<1>. HIDE DEF new, old
<1>7. /\ up \in RefRecords /\ up # NoRef
      /\ \A j \in Kinds : up.count[j] = IF j = k THEN old.count[j] + 1 ELSE old.count[j]
      /\ up # old
  <2>1. /\ up \in RefRecords
        /\ \A j \in Kinds : up.count[j] = IF j = k THEN old.count[k] + 1 ELSE old.count[j]
    <3>1. old.count[k] + 1 \in Nat
      BY <1>2
    <3>. QED
      BY <1>2, <3>1, RefFields
  <2>2. up.count[k] # old.count[k]
    BY <1>2, <2>1
  <2>. QED
    BY <2>1, <2>2, RefApart
<1>. HIDE DEF up
<1>8. ASSUME new.ref = up
      PROVE  /\ ref' \in [Clients -> RefRecords \cup {NoRef}]
             /\ \A x \in Clients \ {c} : ref'[x] = ref[x]
             /\ ref'[c] = up /\ ref'[c] \in RefRecords
             /\ refused' = refused
             /\ \A j \in Kinds : ref'[c].count[j] = CountOf(c, j) + One(j = k)
             /\ Refs' = Refs \cup {c}
             /\ StrongRefs' = IF k = strong THEN StrongRefs \cup {c} ELSE StrongRefs
  <2>1. /\ ref' \in [Clients -> RefRecords \cup {NoRef}]
        /\ ref'[c] = up /\ \A x \in Clients \ {c} : ref'[x] = ref[x]
        /\ Refs' = Refs \cup {c}
        /\ StrongRefs' = IF up.count[strong] > 0 THEN StrongRefs \cup {c}
                         ELSE StrongRefs \ {c}
    BY <1>1, <1>3, <1>7, <1>8, SetsOfRefs
  <2>2. refused' = refused
    BY <1>3, <1>7, <1>8
  <2>3. StrongRefs' = IF k = strong THEN StrongRefs \cup {c} ELSE StrongRefs
    <3>1. CASE k = strong
      <4>1. up.count[strong] > 0
        BY <1>2, <1>7, <3>1
      <4>. QED
        BY <2>1, <3>1, <4>1
    <3>2. CASE k # strong
      <4>1. up.count[strong] = old.count[strong]
        BY <1>7, <3>2 DEF Kinds
      <4>. QED
        BY <1>2, <1>4, <2>1, <3>2, <4>1
    <3>. QED
      BY <3>1, <3>2
  <2>4. ASSUME NEW j \in Kinds PROVE ref'[c].count[j] = CountOf(c, j) + One(j = k)
    BY <1>2, <1>7, <2>1 DEF One, RefRecords
  <2>. QED
    BY <1>7, <2>1, <2>2, <2>3, <2>4
<1>9. CASE old.count[k] # 0
  <2>1. new.node = n /\ new.ref = up
    BY <1>6, <1>9 DEF Counts
  <2>2. c \in Refs /\ (k = strong => c \in StrongRefs)
    BY <1>2, <1>4, <1>5, <1>9
  <2>3. Refs' = Refs \cup {c} /\ StrongRefs' = IF k = strong THEN StrongRefs \cup {c}
                                               ELSE StrongRefs
    BY <1>8, <2>1
  <2>4. Refs' = Refs /\ StrongRefs' = StrongRefs
    BY <2>2, <2>3
  <2>. QED
    BY <1>3, <1>8, <2>1, <2>4
<1>10. CASE old.count[k] = 0 /\ CanInc(n, k, TRUE, list)
  <2>1. new.node = binder_inc_node(n, k, TRUE, list) /\ new.ref = up
    BY <1>6, <1>10 DEF Counts
  <2>2. Refs \in SUBSET Clients /\ StrongRefs \in SUBSET Refs
    BY DEF Refs, StrongRefs
  <2>3. CASE k = strong
    <3>1. c \notin StrongRefs
      BY <1>4, <1>10, <2>3
    <3>2. GoodNode(binder_inc_node(n, strong, TRUE, list), local, Refs \cup {c},
                   StrongRefs \cup {c})
      BY <1>10, <2>2, <2>3, <3>1, GoodIncStrong, Zenon
    <3>. QED
      BY <1>3, <1>8, <2>1, <2>3, <3>2
  <2>4. CASE k = weak
    <3>1. GoodNode(binder_inc_node(n, weak, TRUE, list), local, Refs \cup {c}, StrongRefs)
      BY <1>10, <2>2, <2>4, GoodIncWeak, Zenon
    <3>2. k # strong
      BY <2>4 DEF weak, strong
    <3>. QED
      BY <1>3, <1>8, <2>1, <2>4, <3>1, <3>2
  <2>. QED
    BY <2>3, <2>4 DEF Kinds
<1>11. CASE old.count[k] = 0 /\ ~ CanInc(n, k, TRUE, list)
  <2>1. new.node = n /\ new.ref = old
    BY <1>6, <1>11 DEF Counts
  <2>2. list = Nowhere /\ Refs # {} /\ n.internal_strong \in Nat
    BY <1>11 DEF CanInc, GoodNode, Nodes
  <2>3. k = weak
    <3>1. ASSUME k = strong PROVE FALSE
      <4>1. PICK x : x \in StrongRefs
        BY <2>2, <3>1
      <4>2. n.internal_strong > 0
        <5>1. StrongRefs \in SUBSET Clients
          BY DEF StrongRefs, Refs
        <5>2. Cardinality(StrongRefs) > 0
          BY <4>1, <5>1, OneMore
        <5>. QED
          BY <5>2 DEF GoodNode
      <4>. QED
        BY <1>11, <2>2, <3>1, <4>2 DEF CanInc
    <3>. QED
      BY <3>1 DEF Kinds
  <2>4. Owner \in lost \/ Owner \notin alive
    <3>1. ~ n.has[weak] /\ n.work = Nowhere
      BY <1>11, <2>3 DEF CanInc, weak, strong
    <3>. QED
      BY <2>2, <3>1 DEF GoodNode, Told, WeakWith
  <2>5. /\ ref' \in [Clients -> RefRecords \cup {NoRef}]
        /\ ref'[c] = old /\ \A x \in Clients \ {c} : ref'[x] = ref[x]
        /\ Refs' = Refs \cup {c}
        /\ StrongRefs' = IF old.count[strong] > 0 THEN StrongRefs \cup {c}
                         ELSE StrongRefs \ {c}
    BY <1>1, <1>2, <1>3, <2>1, SetsOfRefs, RefApart
  <2>6. StrongRefs' = StrongRefs
    BY <1>2, <1>4, <2>5
  <2>7. GoodNode(n, local, Refs', StrongRefs)
    BY <2>2, <2>5, GoodMoreRefs
  <2>. QED
    BY <1>2, <1>3, <2>1, <2>4, <2>5, <2>6, <2>7
<1>. QED
  BY <1>9, <1>10, <1>11

\* binder_dec_ref: c's count goes down by one if it has any; with the last one
\* the reference goes, and with the last reference perhaps the node.
LEMMA DecKeeps ==
    ASSUME BinderInv, NEW c \in Clients, NEW k \in Kinds, Dec(c, k)
    PROVE  /\ GoodOrGone(node', local, Refs', StrongRefs')
           /\ ref' \in [Clients -> RefRecords \cup {NoRef}]
           /\ \A x \in Clients \ {c} : ref'[x] = ref[x]
           /\ CountOf(c, k) > 0 =>
                 \A j \in Kinds : CountOf(c, j)' = CountOf(c, j) - One(j = k)
<1>. DEFINE old == ref[c]
            r == [old EXCEPT !.count[k] = old.count[k] - 1]
            n == IF k = strong /\ r.count[strong] = 0
                 THEN binder_dec_node(node, strong, TRUE, Refs) ELSE node
            new == binder_dec_ref(c, k)
            strongs == IF k = strong /\ r.count[strong] = 0 THEN StrongRefs \ {c}
                       ELSE StrongRefs
<1>1. /\ ref \in [Clients -> RefRecords \cup {NoRef}] /\ local \in [Kinds -> Nat]
      /\ GoodOrGone(node, local, Refs, StrongRefs)
      /\ Owner \notin alive => \A j \in Kinds : local[j] = 0
  BY DEF BinderInv, Types, NodeOK, NoneOfTheDead
<1>2. node' = new.node /\ ref' = [ref EXCEPT ![c] = new.ref]
  BY DEF Dec
<1>3. new = IF old = NoRef \/ old.count[k] = 0 THEN Counts(node, old)
            ELSE IF r.count[strong] = 0 /\ r.count[weak] = 0
                 THEN Counts(binder_delete_ref(n, c, r), NoRef)
            ELSE Counts(n, r)
  BY DEF binder_dec_ref
<1>4. Refs \in SUBSET Clients /\ StrongRefs \in SUBSET Refs
  BY DEF Refs, StrongRefs
<1>. HIDE DEF new
<1>5. CASE old = NoRef \/ old.count[k] = 0
  <2>1. new.node = node /\ new.ref = ref[c]
    BY <1>3, <1>5 DEF Counts
  <2>2. node' = node /\ ref' = ref
    BY <1>1, <1>2, <2>1
  <2>3. Refs' = Refs /\ StrongRefs' = StrongRefs
    BY <2>2 DEF Refs, StrongRefs
  <2>. QED
    BY <1>1, <1>5, <2>2, <2>3 DEF CountOf
<1>6. CASE old # NoRef /\ old.count[k] # 0
  <2>1. /\ old \in RefRecords /\ c \in Refs
        /\ \A j \in Kinds : old.count[j] \in Nat /\ CountOf(c, j) = old.count[j]
    BY <1>1, <1>6 DEF Refs, CountOf, RefRecords
  <2>2. /\ r \in RefRecords /\ r # NoRef
        /\ \A j \in Kinds : r.count[j] = IF j = k THEN old.count[j] - 1 ELSE old.count[j]
    <3>1. old.count[k] - 1 \in Nat
      BY <1>6, <2>1
    <3>. QED
      BY <2>1, <3>1, RefFields, RefApart
  <2>3. c \in StrongRefs <=> old.count[strong] > 0
    BY <1>6, <2>1 DEF StrongRefs
  <2>. HIDE DEF r
  <2>4. /\ strongs \in SUBSET Refs
        /\ c \in strongs <=> r.count[strong] # 0
        /\ r.count[strong] \in Nat
        /\ strongs = IF r.count[strong] > 0 THEN StrongRefs \cup {c} ELSE StrongRefs \ {c}
    <3>1. strong \in Kinds /\ old.count[strong] \in Nat /\ r.count[strong] \in Nat
      BY <2>1, <2>2 DEF Kinds, RefRecords
    <3>2. CASE k = strong
      BY <1>4, <1>6, <2>2, <2>3, <3>1, <3>2
    <3>3. CASE k # strong
      BY <1>4, <2>2, <2>3, <3>1, <3>3
    <3>. QED
      BY <3>2, <3>3
  <2>5. GoodNode(n, local, Refs, strongs)
    <3>1. GoodNode(node, local, Refs, StrongRefs)
      BY <1>1, <2>1 DEF GoodOrGone
    <3>2. CASE k = strong /\ r.count[strong] = 0
      <4>1. c \in StrongRefs
        BY <1>6, <2>1, <2>3, <3>2
      <4>2. GoodNode(binder_dec_node(node, strong, TRUE, Refs), local, Refs, StrongRefs \ {c})
        BY <1>4, <3>1, <4>1, GoodDecStrong
      <4>. QED
        BY <3>2, <4>2
    <3>3. CASE ~ (k = strong /\ r.count[strong] = 0)
      BY <3>1, <3>3
    <3>. QED
      BY <3>2, <3>3
  <2>. HIDE DEF n, strongs, old
  <2>6. CASE r.count[strong] = 0 /\ r.count[weak] = 0
    <3>1. new.node = binder_delete_ref(n, c, r) /\ new.ref = NoRef
      BY <1>3, <1>6, <2>6 DEF Counts
    <3>2. GoodOrGone(binder_delete_ref(n, c, r), local, Refs \ {c}, strongs \ {c})
      BY <1>1, <2>1, <2>4, <2>5, GoodDelete, Zenon
    <3>3. /\ ref' \in [Clients -> RefRecords \cup {NoRef}]
          /\ ref'[c] = NoRef /\ \A x \in Clients \ {c} : ref'[x] = ref[x]
          /\ Refs' = Refs \ {c} /\ StrongRefs' = StrongRefs \ {c}
      BY <1>1, <1>2, <3>1, SetsOfRefs
    <3>4. strongs \ {c} = StrongRefs \ {c}
      BY <2>4
    <3>5. ASSUME NEW j \in Kinds PROVE CountOf(c, j)' = CountOf(c, j) - One(j = k)
      <4>1. r.count[j] = 0
        BY <2>6 DEF Kinds
      <4>2. CountOf(c, j) = One(j = k)
        BY <2>1, <2>2, <4>1 DEF One
      <4>3. CountOf(c, j)' = 0
        BY <3>3 DEF CountOf
      <4>. QED
        BY <4>2, <4>3 DEF One
    <3>. QED
      BY <1>2, <3>1, <3>2, <3>3, <3>4, <3>5
  <2>7. CASE ~ (r.count[strong] = 0 /\ r.count[weak] = 0)
    <3>1. new.node = n /\ new.ref = r
      BY <1>3, <1>6, <2>7 DEF Counts
    <3>2. /\ ref' \in [Clients -> RefRecords \cup {NoRef}]
          /\ ref'[c] = r /\ \A x \in Clients \ {c} : ref'[x] = ref[x]
          /\ Refs' = Refs \cup {c}
          /\ StrongRefs' = IF r.count[strong] > 0 THEN StrongRefs \cup {c}
                           ELSE StrongRefs \ {c}
      BY <1>1, <1>2, <2>2, <3>1, SetsOfRefs
    <3>3. Refs' = Refs /\ StrongRefs' = strongs
      BY <2>1, <2>4, <3>2
    <3>4. n # NoNode
      BY <2>5, NoNodeApart DEF GoodNode
    <3>5. ASSUME NEW j \in Kinds PROVE CountOf(c, j)' = CountOf(c, j) - One(j = k)
      <4>1. CountOf(c, j)' = r.count[j]
        BY <2>2, <3>2 DEF CountOf
      <4>. QED
        BY <2>1, <2>2, <4>1 DEF One
    <3>. QED
      BY <1>2, <2>5, <3>1, <3>2, <3>3, <3>4, <3>5 DEF GoodOrGone
  <2>. QED
    BY <2>6, <2>7
<1>. QED
  BY <1>5, <1>6

----------------------------------------------------------------------------
(* Every step keeps the invariant. *)

\* A good node stays good while the owner's life and losses stay the same.
LEMMA NodeNext ==
    ASSUME GoodOrGone(node', local', Refs', StrongRefs'),
           Owner \in alive' <=> Owner \in alive, Owner \in lost' <=> Owner \in lost
    PROVE  NodeOK'
BY DEF NodeOK, GoodOrGone, GoodNode, Told, Strong, WeakWith

\* Only the client of a command has its counts to be looked at.
LEMMA CountsElsewhere ==
    ASSUME BinderInv, NEW c \in Clients, refused \subseteq refused',
           \A x \in Clients \ {c} :
              ref'[x] = ref[x] /\ buffers'[x] = buffers[x] /\ user'[x] = user[x],
           c \notin refused' =>
              \A j \in Kinds : CountOf(c, j)' = buffers'[c][j] + user'[c][j]
    PROVE  RefsExact'
<1>. SUFFICES ASSUME NEW x \in Clients \ refused', NEW j \in Kinds
              PROVE  CountOf(x, j)' = buffers'[x][j] + user'[x][j]
  BY DEF RefsExact
<1>1. CASE x = c
  BY <1>1
<1>2. CASE x # c
  <2>1. CountOf(x, j)' = CountOf(x, j)
    BY <1>2 DEF CountOf
  <2>. QED
    BY <1>2, <2>1 DEF BinderInv, RefsExact
<1>. QED
  BY <1>1, <1>2

\* The commands that count a reference: a transaction or BC_ACQUIRE, BC_INCREFS.
LEMMA IncStep ==
    ASSUME BinderInv, NEW c \in Clients, NEW k \in Kinds, NEW n,
           NEW list \in Queued \cup {Nowhere},
           GoodNode(n, local, Refs, StrongRefs),
           list = Nowhere => Refs # {} /\ (k = strong => StrongRefs # {}),
           list # Nowhere => Owner \in alive,
           Inc(c, k, n, list),
           \/ buffers' = [buffers EXCEPT ![c][k] = @ + 1] /\ user' = user
           \/ user' = [user EXCEPT ![c][k] = @ + 1] /\ buffers' = buffers,
           UNCHANGED <<alive, local, lost>>
    PROVE  BinderInv'
<1>1. /\ GoodNode(node', local, Refs', StrongRefs')
      /\ ref' \in [Clients -> RefRecords \cup {NoRef}]
      /\ \A x \in Clients \ {c} : ref'[x] = ref[x]
      /\ ref'[c] \in RefRecords
      /\ \/ /\ refused' = refused
            /\ \A j \in Kinds : ref'[c].count[j] = CountOf(c, j) + One(j = k)
         \/ /\ refused' = refused \cup {c}
            /\ Owner \in lost \/ Owner \notin alive
  BY IncKeeps
<1>2. NodeOK'
  BY <1>1, NodeNext, NoNodeApart DEF GoodNode, GoodOrGone
<1>3. /\ buffers \in [Clients -> [Kinds -> Nat]] /\ user \in [Clients -> [Kinds -> Nat]]
      /\ buffers[c][k] + 1 \in Nat /\ user[c][k] + 1 \in Nat
  BY DEF BinderInv, Types
<1>4. /\ buffers' \in [Clients -> [Kinds -> Nat]] /\ user' \in [Clients -> [Kinds -> Nat]]
      /\ \A x \in Clients \ {c} : buffers'[x] = buffers[x] /\ user'[x] = user[x]
      /\ \A j \in Kinds :
            buffers'[c][j] + user'[c][j] = buffers[c][j] + user[c][j] + One(j = k)
  <2>1. CASE buffers' = [buffers EXCEPT ![c][k] = @ + 1] /\ user' = user
    <3>1. /\ buffers' \in [Clients -> [Kinds -> Nat]]
          /\ \A x \in Clients \ {c} : buffers'[x] = buffers[x]
          /\ \A j \in Kinds : buffers'[c][j] = buffers[c][j] + One(j = k)
      BY <1>3, <2>1 DEF One
    <3>. QED
      BY <1>3, <2>1, <3>1 DEF One
  <2>2. CASE user' = [user EXCEPT ![c][k] = @ + 1] /\ buffers' = buffers
    <3>1. /\ user' \in [Clients -> [Kinds -> Nat]]
          /\ \A x \in Clients \ {c} : user'[x] = user[x]
          /\ \A j \in Kinds : user'[c][j] = user[c][j] + One(j = k)
      BY <1>3, <2>2 DEF One
    <3>. QED
      BY <1>3, <2>2, <3>1 DEF One
  <2>. QED
    BY <2>1, <2>2
<1>5. RefsExact'
  <2>1. refused \subseteq refused'
    BY <1>1
  <2>2. ASSUME c \notin refused', NEW j \in Kinds
        PROVE  CountOf(c, j)' = buffers'[c][j] + user'[c][j]
    <3>1. CountOf(c, j)' = CountOf(c, j) + One(j = k)
      BY <1>1, <2>2, RefApart DEF CountOf
    <3>2. CountOf(c, j) = buffers[c][j] + user[c][j]
      BY <2>1, <2>2 DEF BinderInv, RefsExact
    <3>. QED
      BY <1>4, <3>1, <3>2
  <2>. QED
    BY <1>1, <1>4, <2>1, <2>2, CountsElsewhere
<1>7. Types'
  BY <1>1, <1>4 DEF BinderInv, Types
<1>6. OnlyLateRefused' /\ NoneOfTheDead'
  BY <1>1 DEF BinderInv, OnlyLateRefused, NoneOfTheDead
<1>. QED
  BY <1>2, <1>5, <1>6, <1>7 DEF BinderInv

\* The commands that give one back: BC_FREE_BUFFER, BC_RELEASE, BC_DECREFS.
LEMMA DecStep ==
    ASSUME BinderInv, NEW c \in Clients, NEW k \in Kinds, Dec(c, k),
           \/ /\ buffers[c][k] > 0
              /\ buffers' = [buffers EXCEPT ![c][k] = @ - 1] /\ user' = user
           \/ /\ user[c][k] > 0
              /\ user' = [user EXCEPT ![c][k] = @ - 1] /\ buffers' = buffers,
           UNCHANGED <<alive, local, lost, refused>>
    PROVE  BinderInv'
<1>1. /\ GoodOrGone(node', local, Refs', StrongRefs')
      /\ ref' \in [Clients -> RefRecords \cup {NoRef}]
      /\ \A x \in Clients \ {c} : ref'[x] = ref[x]
      /\ CountOf(c, k) > 0 =>
            \A j \in Kinds : CountOf(c, j)' = CountOf(c, j) - One(j = k)
  BY DecKeeps
<1>2. NodeOK'
  BY <1>1, NodeNext
<1>3. /\ buffers \in [Clients -> [Kinds -> Nat]] /\ user \in [Clients -> [Kinds -> Nat]]
      /\ ref \in [Clients -> RefRecords \cup {NoRef}]
  BY DEF BinderInv, Types
<1>4. /\ buffers' \in [Clients -> [Kinds -> Nat]] /\ user' \in [Clients -> [Kinds -> Nat]]
      /\ \A x \in Clients \ {c} : buffers'[x] = buffers[x] /\ user'[x] = user[x]
      /\ \A j \in Kinds :
            buffers'[c][j] + user'[c][j] = buffers[c][j] + user[c][j] - One(j = k)
      /\ buffers[c][k] + user[c][k] > 0
  <2>1. CASE /\ buffers[c][k] > 0
             /\ buffers' = [buffers EXCEPT ![c][k] = @ - 1] /\ user' = user
    BY <1>3, <2>1 DEF One
  <2>2. CASE /\ user[c][k] > 0
             /\ user' = [user EXCEPT ![c][k] = @ - 1] /\ buffers' = buffers
    BY <1>3, <2>2 DEF One
  <2>. QED
    BY <2>1, <2>2
<1>5. Types'
  BY <1>1, <1>4 DEF BinderInv, Types
<1>6. ASSUME c \notin refused', NEW j \in Kinds
      PROVE  CountOf(c, j)' = buffers'[c][j] + user'[c][j]
  <2>1. \A i \in Kinds : CountOf(c, i) = buffers[c][i] + user[c][i]
    BY <1>6 DEF BinderInv, RefsExact
  <2>2. CountOf(c, k) > 0
    BY <1>4, <2>1
  <2>3. CountOf(c, j)' = CountOf(c, j) - One(j = k)
    BY <1>1, <2>2
  <2>. QED
    BY <1>3, <1>4, <2>1, <2>3 DEF One
<1>8. RefsExact'
  BY <1>1, <1>4, <1>6, CountsElsewhere
<1>9. OnlyLateRefused' /\ NoneOfTheDead'
  BY DEF BinderInv, OnlyLateRefused, NoneOfTheDead
<1>. QED
  BY <1>2, <1>5, <1>8, <1>9 DEF BinderInv

\* The steps of the owner: only its node and its buffers change.
LEMMA NodeStep ==
    ASSUME BinderInv, GoodOrGone(node', local', Refs, StrongRefs),
           local' \in [Kinds -> Nat], Owner \notin alive => \A k \in Kinds : local'[k] = 0,
           UNCHANGED <<ref, alive, buffers, user, lost, refused>>
    PROVE  BinderInv'
<1>1. Refs' = Refs /\ StrongRefs' = StrongRefs
  BY DEF Refs, StrongRefs
<1>2. NodeOK'
  BY <1>1, NodeNext
<1>3. Types' /\ NoneOfTheDead' /\ OnlyLateRefused'
  BY DEF BinderInv, Types, NoneOfTheDead, OnlyLateRefused
<1>4. RefsExact'
  BY DEF BinderInv, RefsExact, CountOf
<1>. QED
  BY <1>2, <1>3, <1>4 DEF BinderInv

\* The commands on notifications leave the counts alone.
LEMMA DeathFieldStep ==
    ASSUME BinderInv, NEW c \in Clients, ref[c] # NoRef, NEW v \in Deaths \cup {NoDeath},
           ref' = [ref EXCEPT ![c].death = v],
           UNCHANGED <<node, alive, local, buffers, user, lost, refused>>
    PROVE  BinderInv'
<1>. DEFINE q == [ref[c] EXCEPT !.death = v]
<1>1. ref \in [Clients -> RefRecords \cup {NoRef}] /\ ref[c] \in RefRecords
  BY DEF BinderInv, Types
<1>2. q \in RefRecords /\ q.count = ref[c].count
  BY <1>1 DEF RefRecords
<1>3. ref' = [ref EXCEPT ![c] = q]
  BY <1>1
<1>. HIDE DEF q
<1>4. /\ ref' \in [Clients -> RefRecords \cup {NoRef}]
      /\ ref'[c] = q /\ \A x \in Clients \ {c} : ref'[x] = ref[x]
      /\ Refs' = Refs \cup {c}
      /\ StrongRefs' = IF q.count[strong] > 0 THEN StrongRefs \cup {c} ELSE StrongRefs \ {c}
  BY <1>1, <1>2, <1>3, SetsOfRefs, RefApart
<1>5. Refs' = Refs /\ StrongRefs' = StrongRefs
  BY <1>2, <1>4 DEF Refs, StrongRefs
<1>6. NodeOK'
  BY <1>5, NodeNext DEF BinderInv, NodeOK
<1>7. Types' /\ NoneOfTheDead' /\ OnlyLateRefused'
  BY <1>4 DEF BinderInv, Types, NoneOfTheDead, OnlyLateRefused
<1>8. ASSUME NEW j \in Kinds PROVE CountOf(c, j)' = CountOf(c, j)
  BY <1>2, <1>4, RefApart DEF CountOf
<1>9. RefsExact'
  <2>1. c \notin refused' => \A j \in Kinds : CountOf(c, j)' = buffers'[c][j] + user'[c][j]
    BY <1>8 DEF BinderInv, RefsExact
  <2>. QED
    BY <1>4, <2>1, CountsElsewhere
<1>. QED
  BY <1>6, <1>7, <1>9 DEF BinderInv

\* So do the threads that read a notification, acknowledge it or exit with it.
LEMMA DeathStepKeeps ==
    ASSUME BinderInv, UNCHANGED <<node, ref, alive, buffers, local, user, refused>>,
           lost \subseteq lost', lost' \subseteq lost \cup Clients
    PROVE  BinderInv'
<1>1. Refs' = Refs /\ StrongRefs' = StrongRefs
  BY DEF Refs, StrongRefs
<1>2. Owner \in lost' <=> Owner \in lost
  BY BinderAssumption
<1>3. NodeOK'
  BY <1>1, <1>2, NodeNext DEF BinderInv, NodeOK
<1>4. Types' /\ NoneOfTheDead' /\ OnlyLateRefused'
  BY <1>2 DEF BinderInv, Types, NoneOfTheDead, OnlyLateRefused
<1>5. RefsExact'
  BY DEF BinderInv, RefsExact, CountOf
<1>. QED
  BY <1>3, <1>4, <1>5 DEF BinderInv

\* What a client that has the object shows of the node.
LEMMA HasFacts ==
    ASSUME BinderInv, NEW c \in Clients, NEW k \in Kinds, Has(c, k)
    PROVE  /\ GoodNode(node, local, Refs, StrongRefs)
           /\ Refs # {} /\ (k = strong => StrongRefs # {} /\ node.internal_strong > 0)
<1>1. c \in Refs
  BY DEF Has, Refs
<1>2. GoodNode(node, local, Refs, StrongRefs)
  BY <1>1 DEF BinderInv, NodeOK, GoodOrGone
<1>3. ASSUME k = strong PROVE c \in StrongRefs
  BY <1>1, <1>3 DEF Has, StrongRefs, strong, weak
<1>4. ASSUME k = strong PROVE node.internal_strong > 0
  <2>1. StrongRefs \in SUBSET Clients
    BY DEF StrongRefs, Refs
  <2>2. Cardinality(StrongRefs) > 0
    BY <1>3, <1>4, <2>1, OneMore
  <2>. QED
    BY <1>2, <2>2 DEF GoodNode
<1>. QED
  BY <1>1, <1>2, <1>3, <1>4

\* binder_new_node makes a node that nobody refers to.
LEMMA NewNodeGood ==
    ASSUME BinderInv, node = NoNode, Owner \in alive
    PROVE  GoodNode(NewNode, local, Refs, StrongRefs)
<1>1. Refs = {} /\ StrongRefs = {} /\ \A j \in Kinds : local[j] = 0
  BY DEF BinderInv, NodeOK, GoodOrGone, StrongRefs
<1>2. /\ NewNode.dead = FALSE /\ NewNode.internal_strong = 0 /\ NewNode.work = Nowhere
      /\ \A j \in Kinds : /\ NewNode.local[j] = 0 /\ ~ NewNode.has[j]
                          /\ ~ NewNode.pending[j]
  BY DEF NewNode
<1>3. Cardinality(StrongRefs) = 0
  BY <1>1, FS_EmptySet
<1>4. Told(NewNode, Refs)
  BY <1>1, <1>2 DEF Told, WeakWith, Strong, Kinds
<1>. QED
  BY <1>1, <1>2, <1>3, <1>4, NoNodeApart DEF GoodNode, One

\* The first transaction makes the node, with work for the thread that sent it.
LEMMA SendBinderKeeps ==
    ASSUME BinderInv, NEW c \in Clients, NEW k \in Kinds, SendBinder(c, k)
    PROVE  BinderInv'
<1>. DEFINE n == IF node = NoNode THEN NewNode ELSE node
<1>1. GoodOrGone(node, local, Refs, StrongRefs) /\ Owner \in alive
  BY DEF BinderInv, NodeOK, SendBinder
<1>2. GoodNode(n, local, Refs, StrongRefs)
  <2>1. CASE node # NoNode
    BY <1>1, <2>1 DEF GoodOrGone
  <2>2. CASE node = NoNode
    BY <1>1, <2>2, NewNodeGood
  <2>. QED
    BY <2>1, <2>2
<1>3. /\ Inc(c, k, n, OnThread)
      /\ buffers' = [buffers EXCEPT ![c][k] = @ + 1]
      /\ UNCHANGED <<alive, local, user, lost>>
  BY DEF SendBinder
<1>4. OnThread \in Queued \cup {Nowhere} /\ OnThread # Nowhere
  BY DEF Queued, OnThread, Nowhere
<1>. HIDE DEF n
<1>. QED
  BY <1>1, <1>2, <1>3, <1>4, IncStep

\* Without its first reference the node stays as it was made.
LEMMA SendBinderFailsKeeps ==
    ASSUME BinderInv, NEW c \in Clients, SendBinderFails(c)
    PROVE  BinderInv'
<1>1. /\ Owner \in alive /\ node = NoNode /\ node' = NewNode
      /\ UNCHANGED <<ref, alive, buffers, local, user, lost, refused>>
  BY DEF SendBinderFails, userVars, historyVars
<1>2. GoodNode(node', local, Refs, StrongRefs)
  BY <1>1, NewNodeGood
<1>3. GoodOrGone(node', local, Refs, StrongRefs)
  BY <1>1, <1>2, NoNodeApart DEF GoodOrGone
<1>4. local \in [Kinds -> Nat]
  BY DEF BinderInv, Types
<1>. QED
  BY <1>1, <1>3, <1>4, NodeStep

\* A client can only send on what it has.
LEMMA SendHandleKeeps ==
    ASSUME BinderInv, NEW c \in Clients, NEW d \in Clients, NEW k \in Kinds,
           SendHandle(c, d, k)
    PROVE  BinderInv'
<1>1. Has(c, k) /\ Inc(d, k, node, Nowhere)
      /\ buffers' = [buffers EXCEPT ![d][k] = @ + 1]
      /\ UNCHANGED <<alive, local, user, lost>>
  BY DEF SendHandle
<1>2. /\ GoodNode(node, local, Refs, StrongRefs)
      /\ Refs # {} /\ (k = strong => StrongRefs # {})
  BY <1>1, HasFacts
<1>. QED
  BY <1>1, <1>2, IncStep

\* BC_ACQUIRE and BC_INCREFS.
LEMMA AcquireKeeps ==
    ASSUME BinderInv, NEW c \in Clients, NEW k \in Kinds, Acquire(c, k)
    PROVE  BinderInv'
<1>1. Has(c, k) /\ Inc(c, k, node, Nowhere)
      /\ user' = [user EXCEPT ![c][k] = @ + 1]
      /\ UNCHANGED <<alive, local, buffers, lost>>
  BY DEF Acquire
<1>2. /\ GoodNode(node, local, Refs, StrongRefs)
      /\ Refs # {} /\ (k = strong => StrongRefs # {})
  BY <1>1, HasFacts
<1>. QED
  BY <1>1, <1>2, IncStep

\* The object on its way back to its owner.
LEMMA SendBackKeeps ==
    ASSUME BinderInv, NEW c \in Clients, NEW k \in Kinds, SendBack(c, k)
    PROVE  BinderInv'
<1>1. /\ Has(c, k) /\ ~ node.dead /\ node' = binder_inc_node(node, k, FALSE, Nowhere)
      /\ local' = [local EXCEPT ![k] = @ + 1]
      /\ UNCHANGED <<ref, alive, buffers, user, lost, refused>>
  BY DEF SendBack, historyVars
<1>2. /\ GoodNode(node, local, Refs, StrongRefs) /\ local \in [Kinds -> Nat]
      /\ Refs # {} /\ (k = strong => node.internal_strong > 0)
  BY <1>1, HasFacts DEF BinderInv, Types
<1>3. GoodNode(node', [local EXCEPT ![k] = @ + 1], Refs, StrongRefs)
  <2>1. Refs \in SUBSET Clients
    BY DEF Refs
  <2>. QED
    BY <1>1, <1>2, <2>1, GoodIncLocal
<1>4. GoodOrGone(node', local', Refs, StrongRefs)
  BY <1>1, <1>3, NoNodeApart DEF GoodNode, GoodOrGone
<1>5. local' \in [Kinds -> Nat] /\ Owner \in alive
  BY <1>1, <1>2 DEF GoodNode
<1>. QED
  BY <1>1, <1>4, <1>5, NodeStep

\* BC_FREE_BUFFER of the owner.
LEMMA FreeOwnerBufferKeeps ==
    ASSUME BinderInv, NEW k \in Kinds, FreeOwnerBuffer(k)
    PROVE  BinderInv'
<1>1. /\ local[k] > 0 /\ local' = [local EXCEPT ![k] = @ - 1]
      /\ node' = binder_dec_node(node, k, FALSE, Refs)
      /\ UNCHANGED <<ref, alive, buffers, user, lost, refused>>
  BY DEF FreeOwnerBuffer, historyVars
<1>2. local \in [Kinds -> Nat]
  BY DEF BinderInv, Types
<1>3. /\ Owner \in alive /\ GoodNode(node, local, Refs, StrongRefs)
  BY <1>1, <1>2 DEF BinderInv, NodeOK, NoneOfTheDead, GoodOrGone
<1>4. /\ node \in Nodes /\ ~ node.dead /\ Told(node, Refs)
      /\ node.internal_strong = Cardinality(StrongRefs)
      /\ \A j \in Kinds : node.local[j] = local[j] + One(node.pending[j])
  BY <1>3 DEF GoodNode
<1>5. /\ local' \in [Kinds -> Nat]
      /\ \A j \in Kinds : local[j] = local'[j] + One(j = k)
  BY <1>1, <1>2 DEF One
<1>6. \A j \in Kinds : node.local[j] = local'[j] + One(node.pending[j]) + One(j = k)
  BY <1>4, <1>5 DEF One
<1>7. GoodOrGone(node', local', Refs, StrongRefs)
  BY <1>1, <1>3, <1>4, <1>5, <1>6, GoodDecLocal
<1>. QED
  BY <1>1, <1>3, <1>5, <1>7, NodeStep

\* BC_INCREFS_DONE and BC_ACQUIRE_DONE.
LEMMA DoneKeeps ==
    ASSUME BinderInv, NEW k \in Kinds, Done(k)
    PROVE  BinderInv'
<1>. DEFINE n == [node EXCEPT !.pending[k] = FALSE]
<1>1. /\ node # NoNode /\ ~ node.dead /\ node.pending[k]
      /\ node' = binder_dec_node(n, k, FALSE, Refs)
      /\ UNCHANGED <<ref, alive, buffers, local, user, lost, refused>>
  BY DEF Done, userVars, historyVars
<1>2. local \in [Kinds -> Nat] /\ GoodNode(node, local, Refs, StrongRefs)
  BY <1>1 DEF BinderInv, Types, NodeOK, GoodOrGone
<1>3. /\ node \in Nodes /\ Owner \in alive /\ Told(node, Refs)
      /\ node.internal_strong = Cardinality(StrongRefs)
      /\ \A j \in Kinds : node.local[j] = local[j] + One(node.pending[j])
  BY <1>1, <1>2 DEF GoodNode
<1>4. /\ n \in Nodes /\ n.dead = node.dead /\ n.local = node.local /\ n.has = node.has
      /\ n.work = node.work /\ n.internal_strong = node.internal_strong
      /\ n.pending = [node.pending EXCEPT ![k] = FALSE]
  BY <1>3 DEF Nodes
<1>. HIDE DEF n
<1>5. ASSUME NEW j \in Kinds
      PROVE  n.local[j] = local[j] + One(n.pending[j]) + One(j = k)
  <2>1. CASE j = k
    <3>1. ~ n.pending[j]
      BY <1>3, <1>4, <2>1 DEF Nodes
    <3>. QED
      BY <1>1, <1>2, <1>3, <1>4, <2>1, <3>1 DEF One
  <2>2. CASE j # k
    <3>1. n.pending[j] = node.pending[j]
      BY <1>3, <1>4, <2>2 DEF Nodes
    <3>. QED
      BY <1>2, <1>3, <1>4, <2>2, <3>1 DEF One
  <2>. QED
    BY <2>1, <2>2
<1>6. Told(n, Refs)
  <2>1. ASSUME NEW j \in Kinds, n.pending[j] PROVE node.pending[j]
    BY <1>1, <1>3, <1>4, <2>1 DEF Nodes
  <2>. QED
    BY <1>3, <1>4, <2>1 DEF Told, Strong, WeakWith
<1>7. GoodOrGone(node', local, Refs, StrongRefs)
  BY <1>1, <1>2, <1>3, <1>4, <1>5, <1>6, GoodDecLocal
<1>. QED
  BY <1>1, <1>2, <1>3, <1>7, NodeStep

\* BINDER_WORK_NODE: whichever of its branches is taken.
LEMMA OwnerReadKeeps ==
    ASSUME BinderInv, OwnerRead
    PROVE  BinderInv'
<1>. DEFINE Tell(k) == [node EXCEPT !.has[k] = TRUE, !.pending[k] = TRUE, !.local[k] = @ + 1]
            Untell(k) == [node EXCEPT !.has[k] = FALSE]
            Gone == [node EXCEPT !.work = Nowhere]
<1>1. /\ node.work \in Queued
      /\ node' = IF Weak(node) /\ ~ node.has[weak] THEN Tell(weak)
                 ELSE IF Strong(node) /\ ~ node.has[strong] THEN Tell(strong)
                 ELSE IF ~ Strong(node) /\ node.has[strong] THEN Untell(strong)
                 ELSE IF ~ Weak(node) /\ node.has[weak] THEN Untell(weak)
                 ELSE IF Weak(node) THEN Gone
                 ELSE NoNode
      /\ UNCHANGED <<ref, alive, buffers, local, user, lost, refused>>
  BY DEF OwnerRead, userVars, historyVars
<1>2. node # NoNode /\ node.work # Nowhere
  BY <1>1 DEF NoNode, Queued, OnThread, OnProc, Nowhere
<1>3. local \in [Kinds -> Nat] /\ GoodNode(node, local, Refs, StrongRefs)
  BY <1>2 DEF BinderInv, Types, NodeOK, GoodOrGone
<1>4. /\ node \in Nodes /\ ~ node.dead /\ Owner \in alive
      /\ node.internal_strong = Cardinality(StrongRefs)
      /\ \A j \in Kinds : node.local[j] = local[j] + One(node.pending[j])
      /\ \A j \in Kinds : node.pending[j] => node.has[j]
      /\ node.has[strong] => node.has[weak]
  BY <1>2, <1>3 DEF GoodNode, Told
<1>5. /\ node.local \in [Kinds -> Nat] /\ node.pending \in [Kinds -> BOOLEAN]
      /\ node.has \in [Kinds -> BOOLEAN] /\ node.internal_strong \in Nat
      /\ strong \in Kinds /\ weak \in Kinds /\ Kinds = {strong, weak} /\ strong # weak
  BY <1>4 DEF Nodes, Kinds, strong, weak
<1>6. ASSUME NEW k \in Kinds, ~ node.has[k], k = strong => node.has[weak]
      PROVE  GoodNode(Tell(k), local, Refs, StrongRefs)
  <2>. DEFINE v == node.local[k] + 1
              m == Tell(k)
  <2>1. v \in Nat
    BY <1>5
  <2>2. m = [node EXCEPT !.has[k] = TRUE, !.pending[k] = TRUE, !.local[k] = v]
    BY <1>4 DEF Nodes
  <2>. HIDE DEF v, m
  <2>3. /\ m \in Nodes /\ m.dead = node.dead /\ m.work = node.work
        /\ m.internal_strong = node.internal_strong
        /\ m.has = [node.has EXCEPT ![k] = TRUE]
        /\ m.pending = [node.pending EXCEPT ![k] = TRUE]
        /\ m.local = [node.local EXCEPT ![k] = v]
    BY <1>4, <2>1, <2>2 DEF Nodes
  <2>4. ASSUME NEW j \in Kinds PROVE m.local[j] = local[j] + One(m.pending[j])
    <3>1. CASE j = k
      <4>1. m.local[j] = node.local[j] + 1 /\ m.pending[j]
        BY <1>5, <2>3, <3>1 DEF v
      <4>2. node.local[j] = local[j]
        BY <1>3, <1>4, <1>6, <3>1 DEF One
      <4>. QED
        BY <1>3, <4>1, <4>2 DEF One
    <3>2. CASE j # k
      BY <1>4, <1>5, <2>3, <3>2
    <3>. QED
      BY <3>1, <3>2
  <2>5. Told(m, Refs)
    <3>1. ASSUME NEW j \in Kinds PROVE m.pending[j] => m.has[j]
      BY <1>4, <1>5, <2>3
    <3>2. m.has[strong] => m.has[weak]
      BY <1>4, <1>5, <1>6, <2>3
    <3>. QED
      BY <1>2, <2>3, <3>1, <3>2 DEF Told
  <2>6. GoodNode(m, local, Refs, StrongRefs)
    BY <1>4, <2>3, <2>4, <2>5 DEF GoodNode
  <2>. QED
    BY <2>6 DEF m
<1>7. ASSUME NEW k \in Kinds, node.local[k] = 0, k = weak => ~ node.has[strong]
      PROVE  GoodNode(Untell(k), local, Refs, StrongRefs)
  <2>. DEFINE m == Untell(k)
  <2>1. /\ m \in Nodes /\ m.dead = node.dead /\ m.work = node.work
        /\ m.internal_strong = node.internal_strong
        /\ m.has = [node.has EXCEPT ![k] = FALSE]
        /\ m.pending = node.pending /\ m.local = node.local
    BY <1>4 DEF Nodes
  <2>. HIDE DEF m
  <2>2. ~ node.pending[k]
    BY <1>3, <1>4, <1>7 DEF One
  <2>3. Told(m, Refs)
    <3>1. ASSUME NEW j \in Kinds PROVE m.pending[j] => m.has[j]
      BY <1>4, <1>5, <2>1, <2>2
    <3>2. m.has[strong] => m.has[weak]
      BY <1>4, <1>5, <1>7, <2>1
    <3>. QED
      BY <1>2, <2>1, <3>1, <3>2 DEF Told
  <2>4. GoodNode(m, local, Refs, StrongRefs)
    BY <1>4, <2>1, <2>3 DEF GoodNode
  <2>. QED
    BY <2>4 DEF m
<1>8. ASSUME node.has[strong] <=> Strong(node), node.has[weak] <=> Weak(node)
      PROVE  GoodNode(Gone, local, Refs, StrongRefs)
  <2>. DEFINE m == Gone
  <2>1. /\ m \in Nodes /\ m.dead = node.dead /\ m.work = Nowhere
        /\ m.internal_strong = node.internal_strong
        /\ m.has = node.has /\ m.pending = node.pending /\ m.local = node.local
    BY <1>4 DEF Nodes
  <2>. HIDE DEF m
  <2>2. Told(m, Refs)
    BY <1>4, <1>8, <2>1 DEF Told, Strong, Weak, WeakWith
  <2>3. GoodNode(m, local, Refs, StrongRefs)
    BY <1>4, <2>1, <2>2 DEF GoodNode
  <2>. QED
    BY <2>3 DEF m
<1>9. ~ Strong(node) => node.local[strong] = 0
  BY DEF Strong
<1>10. ~ Weak(node) => Refs = {} /\ ~ Strong(node) /\ node.local[weak] = 0
  BY DEF Weak
<1>11. Strong(node) => Weak(node)
  BY DEF Weak
<1>12. ASSUME NEW m, GoodNode(m, local, Refs, StrongRefs)
       PROVE  GoodOrGone(m, local, Refs, StrongRefs)
  BY <1>12, NoNodeApart DEF GoodNode, GoodOrGone
<1>13. ~ Weak(node) => GoodOrGone(NoNode, local, Refs, StrongRefs)
  <2>1. ASSUME ~ Weak(node), NEW j \in Kinds PROVE local[j] = 0
    BY <1>3, <1>4, <1>5, <1>9, <1>10, <2>1 DEF One
  <2>. QED
    BY <1>10, <2>1 DEF GoodOrGone
<1>14. GoodOrGone(node', local, Refs, StrongRefs)
  <2>. HIDE DEF Tell, Untell, Gone
  <2>1. CASE Weak(node) /\ ~ node.has[weak]
    <3>1. node' = Tell(weak)
      BY <1>1, <2>1
    <3>. QED
      BY <1>5, <1>6, <1>12, <2>1, <3>1
  <2>2. CASE Weak(node) => node.has[weak]
    <3>1. CASE Strong(node) /\ ~ node.has[strong]
      <4>1. node' = Tell(strong) /\ node.has[weak]
        BY <1>1, <1>11, <2>2, <3>1
      <4>. QED
        BY <1>5, <1>6, <1>12, <3>1, <4>1
    <3>2. CASE ~ Strong(node) /\ node.has[strong]
      <4>1. node' = Untell(strong)
        BY <1>1, <2>2, <3>2
      <4>. QED
        BY <1>5, <1>7, <1>9, <1>12, <3>2, <4>1
    <3>3. CASE (Strong(node) <=> node.has[strong]) /\ ~ Weak(node) /\ node.has[weak]
      <4>1. node' = Untell(weak) /\ ~ node.has[strong] /\ node.local[weak] = 0
        BY <1>1, <1>10, <2>2, <3>3
      <4>. QED
        BY <1>5, <1>7, <1>12, <4>1
    <3>4. CASE (Strong(node) <=> node.has[strong]) /\ Weak(node)
      <4>1. node' = Gone /\ node.has[weak]
        BY <1>1, <2>2, <3>4
      <4>. QED
        BY <1>8, <1>12, <3>4, <4>1
    <3>5. CASE (Strong(node) <=> node.has[strong]) /\ ~ Weak(node) /\ ~ node.has[weak]
      <4>1. node' = NoNode
        BY <1>1, <2>2, <3>5
      <4>. QED
        BY <1>13, <3>5, <4>1
    <3>. QED
      BY <3>1, <3>2, <3>3, <3>4, <3>5
  <2>. QED
    BY <2>1, <2>2
<1>. QED
  BY <1>1, <1>3, <1>4, <1>14, NodeStep

\* A thread of the owner exits and its work is lost; that is noted.
LEMMA OwnerThreadExitKeeps ==
    ASSUME BinderInv, OwnerThreadExit
    PROVE  BinderInv'
<1>. DEFINE m == [node EXCEPT !.work = Nowhere]
<1>1. /\ node.work = OnThread /\ node' = m /\ lost' = lost \cup {Owner}
      /\ UNCHANGED <<ref, alive, buffers, local, user, refused>>
  BY DEF OwnerThreadExit, userVars
<1>2. node # NoNode /\ node.work # Nowhere
  BY <1>1 DEF NoNode, OnThread, Nowhere
<1>3. GoodNode(node, local, Refs, StrongRefs)
  BY <1>2 DEF BinderInv, NodeOK, GoodOrGone
<1>4. /\ m \in Nodes /\ m.dead = node.dead /\ m.work = Nowhere
      /\ m.internal_strong = node.internal_strong
      /\ m.has = node.has /\ m.pending = node.pending /\ m.local = node.local
  BY <1>3 DEF GoodNode, Nodes
<1>. HIDE DEF m
<1>5. Refs' = Refs /\ StrongRefs' = StrongRefs /\ node' # NoNode
  BY <1>1, <1>4, NoNodeApart DEF Refs, StrongRefs
<1>6. ~ node.dead => Told(node, Refs)'
  <2>1. ~ node.dead => Told(node, Refs)
    BY <1>3 DEF GoodNode
  <2>2. Owner \in lost'
    BY <1>1
  <2>. QED
    BY <1>1, <1>4, <2>1, <2>2 DEF Told
<1>7. NodeOK'
  <2>1. GoodNode(node, local, Refs, StrongRefs)'
    BY <1>1, <1>3, <1>4, <1>5, <1>6 DEF GoodNode
  <2>. QED
    BY <1>5, <2>1 DEF NodeOK, GoodOrGone
<1>8. Types' /\ NoneOfTheDead' /\ OnlyLateRefused'
  BY <1>1 DEF BinderInv, Types, NoneOfTheDead, OnlyLateRefused
<1>9. RefsExact'
  BY <1>1 DEF BinderInv, RefsExact, CountOf
<1>. QED
  BY <1>7, <1>8, <1>9 DEF BinderInv

\* The owner dies: its buffers go, and the node with them if nobody has it.
LEMMA OwnerDiesKeeps ==
    ASSUME BinderInv, OwnerDies
    PROVE  BinderInv'
<1>. DEFINE m == [node EXCEPT !.dead = TRUE, !.local = [k \in Kinds |-> 0], !.work = Nowhere]
<1>1. /\ Owner \in alive /\ alive' = alive \ {Owner} /\ local' = [k \in Kinds |-> 0]
      /\ node' = IF Refs = {} THEN NoNode ELSE m
      /\ UNCHANGED <<ref, buffers, user, lost, refused>>
  BY DEF OwnerDies, historyVars
<1>2. Refs' = Refs /\ StrongRefs' = StrongRefs
  BY <1>1 DEF Refs, StrongRefs
<1>3. NodeOK'
  <2>1. CASE Refs = {}
    BY <1>1, <1>2, <2>1 DEF NodeOK, GoodOrGone
  <2>2. CASE Refs # {}
    <3>1. GoodNode(node, local, Refs, StrongRefs)
      BY <2>2 DEF BinderInv, NodeOK, GoodOrGone
    <3>2. /\ m \in Nodes /\ m.dead /\ m.work = Nowhere /\ m.local = [k \in Kinds |-> 0]
          /\ m.internal_strong = node.internal_strong
      BY <3>1 DEF GoodNode, Nodes
    <3>. HIDE DEF m
    <3>3. node' = m /\ node' # NoNode
      BY <1>1, <2>2, <3>2, NoNodeApart
    <3>4. GoodNode(node, local, Refs, StrongRefs)'
      BY <1>1, <1>2, <3>1, <3>2, <3>3 DEF GoodNode
    <3>. QED
      BY <3>3, <3>4 DEF NodeOK, GoodOrGone
  <2>. QED
    BY <2>1, <2>2
<1>4. Types' /\ NoneOfTheDead' /\ OnlyLateRefused'
  BY <1>1 DEF BinderInv, Types, NoneOfTheDead, OnlyLateRefused
<1>5. RefsExact'
  BY <1>1 DEF BinderInv, RefsExact, CountOf
<1>. QED
  BY <1>3, <1>4, <1>5 DEF BinderInv

\* A client dies: its reference is deleted whatever it counts.
LEMMA ClientDiesKeeps ==
    ASSUME BinderInv, NEW c \in Clients, ClientDies(c)
    PROVE  BinderInv'
<1>1. /\ alive' = alive \ {c} /\ ref' = [ref EXCEPT ![c] = NoRef]
      /\ node' = IF ref[c] = NoRef THEN node ELSE binder_delete_ref(node, c, ref[c])
      /\ buffers' = [buffers EXCEPT ![c] = [k \in Kinds |-> 0]]
      /\ user' = [user EXCEPT ![c] = [k \in Kinds |-> 0]]
      /\ UNCHANGED <<local, lost, refused>>
  BY DEF ClientDies, historyVars
<1>2. /\ ref \in [Clients -> RefRecords \cup {NoRef}] /\ local \in [Kinds -> Nat]
      /\ GoodOrGone(node, local, Refs, StrongRefs)
      /\ Owner \notin alive => \A j \in Kinds : local[j] = 0
      /\ buffers \in [Clients -> [Kinds -> Nat]] /\ user \in [Clients -> [Kinds -> Nat]]
  BY DEF BinderInv, Types, NodeOK, NoneOfTheDead
<1>3. /\ ref' \in [Clients -> RefRecords \cup {NoRef}]
      /\ ref'[c] = NoRef /\ \A x \in Clients \ {c} : ref'[x] = ref[x]
      /\ Refs' = Refs \ {c} /\ StrongRefs' = StrongRefs \ {c}
  BY <1>1, <1>2, SetsOfRefs
<1>4. GoodOrGone(node', local, Refs', StrongRefs')
  <2>1. CASE ref[c] = NoRef
    <3>1. Refs \ {c} = Refs /\ StrongRefs \ {c} = StrongRefs
      BY <2>1 DEF Refs, StrongRefs
    <3>. QED
      BY <1>1, <1>2, <1>3, <2>1, <3>1
  <2>2. CASE ref[c] # NoRef
    <3>1. c \in Refs /\ StrongRefs \in SUBSET Refs
      BY <2>2 DEF Refs, StrongRefs
    <3>2. GoodNode(node, local, Refs, StrongRefs)
      BY <1>2, <3>1 DEF GoodOrGone
    <3>3. ref[c].count[strong] # 0 <=> c \in StrongRefs
      BY <1>2, <2>2, <3>1 DEF StrongRefs, RefRecords, Kinds
    <3>4. GoodOrGone(binder_delete_ref(node, c, ref[c]), local, Refs \ {c}, StrongRefs \ {c})
      BY <1>2, <3>1, <3>2, <3>3, GoodDelete, Zenon
    <3>. QED
      BY <1>1, <1>3, <2>2, <3>4
  <2>. QED
    BY <2>1, <2>2
<1>5. Owner \in alive' <=> Owner \in alive
  BY <1>1, BinderAssumption
<1>6. NodeOK'
  BY <1>1, <1>4, <1>5, NodeNext
<1>7. /\ buffers' \in [Clients -> [Kinds -> Nat]] /\ user' \in [Clients -> [Kinds -> Nat]]
      /\ \A j \in Kinds : buffers'[c][j] = 0 /\ user'[c][j] = 0
      /\ \A x \in Clients \ {c} : buffers'[x] = buffers[x] /\ user'[x] = user[x]
  BY <1>1, <1>2
<1>8. Types' /\ NoneOfTheDead' /\ OnlyLateRefused'
  BY <1>1, <1>3, <1>5, <1>7 DEF BinderInv, Types, NoneOfTheDead, OnlyLateRefused
<1>9. RefsExact'
  <2>1. \A j \in Kinds : CountOf(c, j)' = buffers'[c][j] + user'[c][j]
    BY <1>3, <1>7 DEF CountOf
  <2>. QED
    BY <1>1, <1>3, <1>7, <2>1, CountsElsewhere
<1>. QED
  BY <1>6, <1>8, <1>9 DEF BinderInv

\* The commands on notifications, and a client's threads that read or exit.
LEMMA NotificationsKeep ==
    ASSUME BinderInv, DeathStep \/ ClearStep \/ \E c \in Clients : ClientThreadExit(c)
    PROVE  BinderInv'
<1>1. ASSUME NEW c \in Clients, NEW d \in Deaths, NEW list \in Queued, RequestDeath(c, d, list)
      PROVE  BinderInv'
  BY <1>1, DeathFieldStep DEF RequestDeath, userVars, historyVars
<1>2. ASSUME NEW c \in Clients, NEW list \in Queued, ClearDeath(c, list)
      PROVE  BinderInv'
  <2>1. ref[c] # NoRef
    BY <1>2, BinderAssumption DEF ClearDeath
  <2>. QED
    BY <1>2, <2>1, DeathFieldStep DEF ClearDeath, userVars, historyVars
<1>3. ASSUME NEW c \in Clients, NEW d \in Deaths,
             ReadDeath(c, d) \/ \E list \in Queued : DeadBinderDone(c, d, list)
      PROVE  BinderInv'
  BY <1>3, DeathStepKeeps DEF ReadDeath, DeadBinderDone, countVars, userVars, historyVars
<1>4. ASSUME NEW c \in Clients, ClientThreadExit(c) PROVE BinderInv'
  BY <1>4, DeathStepKeeps DEF ClientThreadExit, countVars, userVars
<1>. QED
  BY <1>1, <1>2, <1>3, <1>4 DEF DeathStep, ClearStep

\* BC_FREE_BUFFER of a client, BC_RELEASE and BC_DECREFS.
LEMMA GiveBackKeeps ==
    ASSUME BinderInv, NEW c \in Clients, NEW k \in Kinds, FreeBuffer(c, k) \/ Release(c, k)
    PROVE  BinderInv'
<1>1. CASE FreeBuffer(c, k)
  BY <1>1, DecStep DEF FreeBuffer, historyVars
<1>2. CASE Release(c, k)
  BY <1>2, DecStep DEF Release, historyVars
<1>. QED
  BY <1>1, <1>2

\* At the start there is no node and nobody refers to it.
LEMMA BinderInvInit == BinderInit => BinderInv
<1>. SUFFICES ASSUME BinderInit PROVE BinderInv
  OBVIOUS
<1>1. Refs = {}
  BY DEF BinderInit, Refs
<1>2. Types /\ NoneOfTheDead /\ RefsExact /\ OnlyLateRefused
  BY DEF BinderInit, Types, NoneOfTheDead, RefsExact, OnlyLateRefused, CountOf
<1>3. NodeOK
  BY <1>1 DEF BinderInit, NodeOK, GoodOrGone
<1>. QED
  BY <1>2, <1>3 DEF BinderInv

\* One case for each kind of step.
LEMMA BinderInvNext == BinderInv /\ [BinderNext]_binderVars => BinderInv'
<1>. SUFFICES ASSUME BinderInv, [BinderNext]_binderVars PROVE BinderInv'
  OBVIOUS
<1>1. CASE UNCHANGED binderVars
  BY <1>1, DeathStepKeeps DEF binderVars, countVars, userVars, historyVars
<1>2. CASE TransactionStep
  BY <1>2, FreeOwnerBufferKeeps, SendBinderKeeps, SendBinderFailsKeeps, SendBackKeeps,
     GiveBackKeeps, SendHandleKeeps DEF TransactionStep
<1>3. CASE ReferenceStep
  BY <1>3, DoneKeeps, AcquireKeeps, GiveBackKeeps DEF ReferenceStep
<1>4. CASE OwnerRead
  BY <1>4, OwnerReadKeeps
<1>5. CASE DeathStep \/ ClearStep
  BY <1>5, NotificationsKeep
<1>6. CASE ExitStep
  BY <1>6, OwnerThreadExitKeeps, OwnerDiesKeeps, ClientDiesKeeps, NotificationsKeep DEF ExitStep
<1>. QED
  BY <1>1, <1>2, <1>3, <1>4, <1>5, <1>6 DEF BinderNext

----------------------------------------------------------------------------
(* What follows for every behaviour. *)

\* The inductive invariant holds throughout.
LEMMA BinderInvAlways == BinderSpec => []BinderInv
<1>. QED
  BY BinderInvInit, BinderInvNext, PTL DEF BinderSpec

\* The invariant says what CountsExact says, and more.
LEMMA CountsFollow == BinderInv => CountsExact
<1>. SUFFICES ASSUME BinderInv PROVE CountsExact
  OBVIOUS
<1>1. node = NoNode => Refs = {} /\ local = [k \in Kinds |-> 0]
  BY DEF BinderInv, NodeOK, GoodOrGone, Types
<1>2. node # NoNode => GoodNode(node, local, Refs, StrongRefs)
  BY DEF BinderInv, NodeOK, GoodOrGone
<1>3. BinderTypeOK
  <2>1. \A c \in Refs : ref[c].count \in [Kinds -> Nat] /\ ref[c].death \in Deaths \cup {NoDeath}
    BY DEF BinderInv, Types, Refs, RefRecords
  <2>2. node # NoNode => node \in Nodes
    BY <1>2 DEF GoodNode
  <2>. QED
    BY <2>1, <2>2 DEF BinderInv, Types, BinderTypeOK, Nodes
<1>4. node # NoNode => node.internal_strong = Cardinality({c \in Refs : ref[c].count[strong] > 0})
  BY <1>2 DEF GoodNode, StrongRefs
<1>. QED
  BY <1>1, <1>2, <1>3, <1>4 DEF BinderInv, GoodNode, OnlyLateRefused, RefsExact, CountOf, CountsExact

\* What the owner has been told is part of a good node.
LEMMA KnowledgeFollows == BinderInv => OwnerWillKnow
<1>. SUFFICES ASSUME BinderInv, node # NoNode, ~ node.dead
              PROVE  /\ Owner \notin lost /\ node.work = Nowhere =>
                           node.has[strong] = Strong(node) /\ node.has[weak] = Weak(node)
                     /\ \A k \in Kinds : node.pending[k] => node.has[k]
                     /\ node.has[strong] => node.has[weak]
  BY DEF OwnerWillKnow
<1>1. node \in Nodes /\ Told(node, Refs)
  BY DEF BinderInv, NodeOK, GoodOrGone, GoodNode
<1>2. node.has[strong] \in BOOLEAN /\ node.has[weak] \in BOOLEAN
  BY <1>1 DEF Nodes, Kinds
<1>3. Strong(node) \in BOOLEAN /\ Weak(node) \in BOOLEAN
  BY Zenon DEF Strong, Weak
<1>4. Weak(node) <=> WeakWith(node, Refs)
  BY DEF Weak, WeakWith
<1>. QED
  BY <1>1, <1>2, <1>3, <1>4, Zenon DEF Told

\* The counts of the driver are those of the world: for any number of clients,
\* any interleaving of commands, transactions, acknowledgements and exits leaks
\* no reference and drops none that is in use.
THEOREM CountsAreExact == BinderSpec => []CountsExact
<1>. QED
  BY BinderInvAlways, CountsFollow, PTL

\* The owner always knows what it has to keep, or has work queued that will tell it.
THEOREM OwnerAlwaysKnows == BinderSpec => []OwnerWillKnow
<1>. QED
  BY BinderInvAlways, KnowledgeFollows, PTL

----------------------------------------------------------------------------
(* Death notifications. *)

DeathRecords == [on : Queued \cup {Nowhere, Delivered},
                 type : {"dead", "dead_and_clear", "clear"}, told : BOOLEAN]

\* The notifications ds of a client whose reference has current as its own: as
\* DeathsInStep has it, and while the owner lives nobody was told of its death.
DeathGood(current, ds) ==
    /\ current \in Deaths =>
          /\ ds[current] \in DeathRecords /\ ds[current].type = "dead"
          /\ Owner \in alive => ds[current].on = Nowhere /\ ~ ds[current].told
    /\ \A d \in Deaths : ds[d].on \in Queued /\ ds[d].type # "clear" => ~ ds[d].told

DeathInv ==
    /\ death \in [Clients -> [Deaths -> DeathRecords \cup {Freed}]]
    /\ \A c \in Clients : DeathGood(ref[c].death, death[c])

\* Only the client of a command has its notifications to be looked at.
LEMMA DeathsElsewhere ==
    ASSUME DeathInv, NEW c \in Clients, Owner \in alive' => Owner \in alive,
           NEW ds \in [Deaths -> DeathRecords \cup {Freed}],
           death' = [death EXCEPT ![c] = ds],
           \A x \in Clients \ {c} : ref'[x] = ref[x],
           DeathGood(ref'[c].death, ds)
    PROVE  DeathInv'
<1>1. death \in [Clients -> [Deaths -> DeathRecords \cup {Freed}]]
  BY DEF DeathInv
<1>2. /\ death' \in [Clients -> [Deaths -> DeathRecords \cup {Freed}]]
      /\ death'[c] = ds /\ \A x \in Clients \ {c} : death'[x] = death[x]
  BY <1>1
<1>3. ASSUME NEW x \in Clients PROVE DeathGood(ref[x].death, death[x])'
  <2>1. DeathGood(ref'[x].death, death'[x])
    BY <1>2 DEF DeathInv
  <2>. QED
    BY <2>1 DEF DeathGood
<1>. QED
  BY <1>2, <1>3 DEF DeathInv

\* And of those only the one that changes.
WithDeath(c, d, w) == [death EXCEPT ![c] = [death[c] EXCEPT ![d] = w]]
LEMMA OneDeath ==
    ASSUME DeathInv, NEW c \in Clients, NEW d \in Deaths, Owner \in alive' => Owner \in alive,
           NEW w \in DeathRecords \cup {Freed},
           death' = WithDeath(c, d, w),
           \A x \in Clients \ {c} : ref'[x] = ref[x],
           ref'[c].death \in {ref[c].death, d} \/ ref'[c].death \notin Deaths,
           ref'[c].death = d => /\ w \in DeathRecords /\ w.type = "dead"
                                /\ Owner \in alive => w.on = Nowhere /\ ~ w.told,
           w.on \in Queued /\ w.type # "clear" => ~ w.told
    PROVE  DeathInv'
<1>. DEFINE ds == [death[c] EXCEPT ![d] = w]
<1>1. death[c] \in [Deaths -> DeathRecords \cup {Freed}] /\ DeathGood(ref[c].death, death[c])
  BY DEF DeathInv
<1>2. /\ ds \in [Deaths -> DeathRecords \cup {Freed}]
      /\ ds[d] = w /\ \A e \in Deaths \ {d} : ds[e] = death[c][e]
  BY <1>1
<1>. HIDE DEF ds
<1>3. DeathGood(ref'[c].death, ds)
  <2>1. ASSUME NEW e \in Deaths PROVE ds[e].on \in Queued /\ ds[e].type # "clear" => ~ ds[e].told
    BY <1>1, <1>2 DEF DeathGood
  <2>2. ASSUME ref'[c].death \in Deaths
        PROVE  /\ ds[ref'[c].death] \in DeathRecords /\ ds[ref'[c].death].type = "dead"
               /\ Owner \in alive => /\ ds[ref'[c].death].on = Nowhere
                                     /\ ~ ds[ref'[c].death].told
    <3>1. CASE ref'[c].death = d
      BY <1>2, <3>1
    <3>2. CASE ref'[c].death # d
      BY <1>1, <1>2, <2>2, <3>2 DEF DeathGood
    <3>. QED
      BY <3>1, <3>2
  <2>. QED
    BY <2>1, <2>2 DEF DeathGood
<1>4. death' = [death EXCEPT ![c] = ds]
  BY DEF ds, WithDeath
<1>. QED
  BY <1>2, <1>3, <1>4, DeathsElsewhere

\* A reference keeps its notification while it is counted up.
LEMMA IncDeath ==
    ASSUME BinderInv, DeathInv, NEW c \in Clients, NEW k \in Kinds, NEW n, NEW list,
           Inc(c, k, n, list), UNCHANGED <<death, alive>>
    PROVE  DeathInv'
<1>. DEFINE old == IF ref[c] = NoRef THEN NewRef ELSE ref[c]
            new == binder_inc_ref(n, old, k, list)
            up == [old EXCEPT !.count[k] = old.count[k] + 1]
<1>1. /\ ref \in [Clients -> RefRecords \cup {NoRef}]
      /\ death \in [Clients -> [Deaths -> DeathRecords \cup {Freed}]]
      /\ DeathGood(ref[c].death, death[c])
  BY DEF BinderInv, Types, DeathInv
<1>2. old \in RefRecords /\ (old.death = ref[c].death \/ old.death \notin Deaths)
  BY <1>1, RefApart, BinderAssumption DEF NewRef
<1>3. ref' = [ref EXCEPT ![c] = new.ref]
  BY DEF Inc
<1>4. new.ref = old \/ new.ref = up
  BY DEF binder_inc_ref, Counts
<1>. HIDE DEF old, new
<1>5. up.death = old.death
  BY <1>2 DEF RefRecords
<1>. HIDE DEF up
<1>6. /\ ref'[c].death = ref[c].death \/ ref'[c].death \notin Deaths
      /\ \A x \in Clients \ {c} : ref'[x] = ref[x]
  BY <1>1, <1>2, <1>3, <1>4, <1>5
<1>7. DeathGood(ref'[c].death, death[c])
  BY <1>1, <1>6 DEF DeathGood
<1>8. death' = [death EXCEPT ![c] = death[c]] /\ death[c] \in [Deaths -> DeathRecords \cup {Freed}]
  BY <1>1
<1>. QED
  BY <1>6, <1>7, <1>8, DeathsElsewhere

\* A reference that goes takes its notification with it.
LEMMA DecDeath ==
    ASSUME BinderInv, DeathInv, NEW c \in Clients, NEW k \in Kinds, Dec(c, k), alive' = alive
    PROVE  DeathInv'
<1>. DEFINE new == binder_dec_ref(c, k)
            r == [ref[c] EXCEPT !.count[k] = ref[c].count[k] - 1]
            ds == IF new.ref = NoRef THEN WithoutDeath(c) ELSE death[c]
<1>1. /\ ref \in [Clients -> RefRecords \cup {NoRef}]
      /\ death \in [Clients -> [Deaths -> DeathRecords \cup {Freed}]]
      /\ DeathGood(ref[c].death, death[c])
  BY DEF BinderInv, Types, DeathInv
<1>2. ref' = [ref EXCEPT ![c] = new.ref] /\ death' = [death EXCEPT ![c] = ds]
  BY <1>1 DEF Dec
<1>3. \/ new.ref = NoRef \/ new.ref = ref[c]
      \/ ref[c] # NoRef /\ new.ref = r
  BY DEF binder_dec_ref, Counts
<1>. HIDE DEF new
<1>4. ref[c] # NoRef => r.death = ref[c].death
  BY <1>1 DEF RefRecords
<1>. HIDE DEF r
<1>5. /\ ref'[c] = new.ref /\ \A x \in Clients \ {c} : ref'[x] = ref[x]
  BY <1>1, <1>2
<1>6. CASE new.ref = NoRef
  <2>1. ref'[c].death \notin Deaths
    BY <1>5, <1>6, BinderAssumption
  <2>2. ds = WithoutDeath(c) /\ Freed.on \notin Queued
    BY <1>6 DEF Freed, Queued, OnThread, OnProc
  <2>3. ds \in [Deaths -> DeathRecords \cup {Freed}]
    BY <1>1, <2>2 DEF WithoutDeath
  <2>4. ASSUME NEW d \in Deaths PROVE ds[d] = Freed \/ ds[d] = death[c][d]
    BY <1>1, <2>2 DEF WithoutDeath
  <2>. HIDE DEF ds
  <2>5. DeathGood(ref'[c].death, ds)
    BY <1>1, <2>1, <2>2, <2>4 DEF DeathGood
  <2>. QED
    BY <1>2, <1>5, <2>3, <2>5, DeathsElsewhere
<1>7. CASE new.ref # NoRef
  <2>1. ref'[c].death = ref[c].death /\ ds = death[c]
    BY <1>3, <1>4, <1>5, <1>7
  <2>. QED
    BY <1>1, <1>2, <1>5, <2>1, DeathsElsewhere
<1>. QED
  BY <1>6, <1>7

\* BC_REQUEST_DEATH_NOTIFICATION.
LEMMA RequestDeathInStep ==
    ASSUME BinderInv, DeathInv, NEW c \in Clients, NEW d \in Deaths, NEW list \in Queued,
           RequestDeath(c, d, list)
    PROVE  DeathInv'
<1>. DEFINE w == NewDeath(IF node.dead THEN list ELSE Nowhere)
<1>1. /\ ref[c] # NoRef /\ ref' = [ref EXCEPT ![c].death = d]
      /\ death' = [death EXCEPT ![c][d] = w] /\ alive' = alive
  BY DEF RequestDeath
<1>2. /\ ref \in [Clients -> RefRecords \cup {NoRef}]
      /\ death \in [Clients -> [Deaths -> DeathRecords \cup {Freed}]]
  BY DEF BinderInv, Types, DeathInv
<1>3. node.dead <=> Owner \notin alive
  <2>1. c \in Refs
    BY <1>1 DEF Refs
  <2>. QED
    BY <2>1 DEF BinderInv, NodeOK, GoodOrGone, GoodNode
<1>4. /\ w \in DeathRecords /\ w.type = "dead" /\ ~ w.told
      /\ Owner \in alive => w.on = Nowhere
  BY <1>3 DEF NewDeath, DeathRecords
<1>5. /\ ref'[c].death = d /\ \A x \in Clients \ {c} : ref'[x] = ref[x]
  <2>1. ref[c] \in RefRecords
    BY <1>1, <1>2
  <2>. QED
    BY <1>1, <1>2, <2>1 DEF RefRecords
<1>. HIDE DEF w
<1>6. death' = WithDeath(c, d, w)
  BY <1>1, <1>2 DEF WithDeath
<1>. QED
  BY <1>1, <1>4, <1>5, <1>6, OneDeath

\* SetDeath changes where a notification is and what it is, not whether it was told.
Moved(w, on, type) == [w EXCEPT !.on = on, !.type = type]
LEMMA SetDeathFacts ==
    ASSUME DeathInv, NEW c \in Clients, NEW d \in Deaths, death[c][d] \in DeathRecords,
           NEW on \in Queued \cup {Nowhere, Delivered},
           NEW type \in {"dead", "dead_and_clear", "clear"}
    PROVE  /\ Moved(death[c][d], on, type) \in DeathRecords
           /\ Moved(death[c][d], on, type).on = on
           /\ Moved(death[c][d], on, type).type = type
           /\ Moved(death[c][d], on, type).told = death[c][d].told
           /\ SetDeath(c, d, on, type) =
                 WithDeath(c, d, Moved(death[c][d], on, type))
<1>1. death \in [Clients -> [Deaths -> DeathRecords \cup {Freed}]]
  BY DEF DeathInv
<1>2. /\ Moved(death[c][d], on, type) \in DeathRecords
      /\ Moved(death[c][d], on, type).on = on
      /\ Moved(death[c][d], on, type).type = type
      /\ Moved(death[c][d], on, type).told = death[c][d].told
  BY DEF DeathRecords, Moved
<1>3. SetDeath(c, d, on, type) =
         WithDeath(c, d, Moved(death[c][d], on, type))
  BY <1>1 DEF SetDeath, Moved, WithDeath
<1>. QED
  BY <1>2, <1>3

\* BC_CLEAR_DEATH_NOTIFICATION.
LEMMA ClearDeathInStep ==
    ASSUME BinderInv, DeathInv, NEW c \in Clients, NEW list \in Queued, ClearDeath(c, list)
    PROVE  DeathInv'
<1>. DEFINE d == ref[c].death
            w == IF death[c][d].on = Nowhere
                 THEN Moved(death[c][d], list, "clear")
                 ELSE Moved(death[c][d], death[c][d].on, "dead_and_clear")
<1>1. /\ d \in Deaths /\ ref' = [ref EXCEPT ![c].death = NoDeath] /\ alive' = alive
      /\ death' = IF death[c][d].on = Nowhere THEN SetDeath(c, d, list, "clear")
                  ELSE SetDeath(c, d, death[c][d].on, "dead_and_clear")
  BY DEF ClearDeath
<1>2. /\ ref \in [Clients -> RefRecords \cup {NoRef}] /\ ref[c] # NoRef
      /\ death \in [Clients -> [Deaths -> DeathRecords \cup {Freed}]]
  BY <1>1, BinderAssumption DEF BinderInv, Types, DeathInv
<1>3. /\ ref'[c].death \notin Deaths /\ \A x \in Clients \ {c} : ref'[x] = ref[x]
  <2>1. ref[c] \in RefRecords
    BY <1>2
  <2>2. ref'[c].death = NoDeath
    BY <1>1, <1>2, <2>1 DEF RefRecords
  <2>. QED
    BY <1>1, <1>2, <2>2, BinderAssumption
<1>4. /\ death[c][d] \in DeathRecords /\ death[c][d].type = "dead"
      /\ death[c][d].on \in Queued => ~ death[c][d].told
      /\ death[c][d].on \in Queued \cup {Nowhere, Delivered}
  <2>1. DeathGood(ref[c].death, death[c])
    BY DEF DeathInv
  <2>. QED
    BY <1>1, <2>1 DEF DeathGood, DeathRecords
<1>5. /\ w \in DeathRecords /\ death' = WithDeath(c, d, w)
      /\ w.on \in Queued /\ w.type # "clear" => ~ w.told
  <2>1. CASE death[c][d].on = Nowhere
    <3>1. list \in Queued \cup {Nowhere, Delivered}
      OBVIOUS
    <3>. QED
      BY <1>1, <1>4, <2>1, <3>1, SetDeathFacts
  <2>2. CASE death[c][d].on # Nowhere
    <3>0. PICK on \in Queued \cup {Nowhere, Delivered} : on = death[c][d].on
      BY <1>4
    <3>1. w = Moved(death[c][d], on, "dead_and_clear")
      BY <2>2, <3>0
    <3>2. /\ w \in DeathRecords /\ w.on = death[c][d].on /\ w.told = death[c][d].told
          /\ SetDeath(c, d, death[c][d].on, "dead_and_clear") = WithDeath(c, d, w)
      <4>. DEFINE v == Moved(death[c][d], on, "dead_and_clear")
      <4>1. /\ v \in DeathRecords /\ v.on = on /\ v.told = death[c][d].told
            /\ SetDeath(c, d, on, "dead_and_clear") = WithDeath(c, d, v)
        <5>1. d \in Deaths /\ death[c][d] \in DeathRecords
          BY <1>1, <1>4
        <5>2. "dead_and_clear" \in {"dead", "dead_and_clear", "clear"}
          OBVIOUS
        <5>. QED
          BY <5>1, <5>2, SetDeathFacts
      <4>. HIDE DEF w, v
      <4>2. w = v
        BY <3>1 DEF v
      <4>. QED
        BY <3>0, <4>1, <4>2, Zenon
    <3>. HIDE DEF w
    <3>3. death' = WithDeath(c, d, w)
      BY <1>1, <2>2, <3>2
    <3>. QED
      BY <1>4, <3>2, <3>3
  <2>. QED
    BY <2>1, <2>2
<1>. HIDE DEF w
<1>6. ref'[c].death # d
  BY <1>1, <1>3
<1>. QED
  BY <1>1, <1>3, <1>5, <1>6, OneDeath

\* BR_DEAD_BINDER and BR_CLEAR_DEATH_NOTIFICATION_DONE.
LEMMA ReadDeathInStep ==
    ASSUME BinderInv, DeathInv, NEW c \in Clients, NEW d \in Deaths, ReadDeath(c, d)
    PROVE  DeathInv'
<1>. DEFINE old == death[c][d]
            w == IF old.type = "clear" THEN Freed ELSE [old EXCEPT !.on = Delivered, !.told = TRUE]
<1>1. /\ old.on \in Queued /\ ref' = ref /\ alive' = alive
      /\ death' = [death EXCEPT ![c][d] = IF @.type = "clear" THEN Freed
                                          ELSE [@ EXCEPT !.on = Delivered, !.told = TRUE]]
  BY DEF ReadDeath, countVars
<1>2. death \in [Clients -> [Deaths -> DeathRecords \cup {Freed}]]
  BY DEF DeathInv
<1>3. old \in DeathRecords
  BY <1>1, <1>2 DEF Freed, Queued, OnThread, OnProc
<1>4. death' = WithDeath(c, d, w)
  BY <1>1, <1>2 DEF WithDeath
<1>5. /\ w \in DeathRecords \cup {Freed} /\ w.on \notin Queued
      /\ old.type # "clear" => w \in DeathRecords /\ w.type = old.type
  <2>1. Freed.on \notin Queued /\ Delivered \notin Queued
    BY DEF Freed, Queued, OnThread, OnProc, Delivered
  <2>2. CASE old.type = "clear"
    BY <2>1, <2>2
  <2>3. CASE old.type # "clear"
    <3>1. w = [old EXCEPT !.on = Delivered, !.told = TRUE]
      BY <2>3
    <3>. HIDE DEF w, old
    <3>. QED
      BY <1>3, <2>1, <3>1 DEF DeathRecords
  <2>. QED
    BY <2>2, <2>3
<1>6. ref[c].death = d => old.type = "dead" /\ Owner \notin alive
  <2>1. DeathGood(ref[c].death, death[c])
    BY DEF DeathInv
  <2>. QED
    BY <1>1, <2>1 DEF DeathGood, Queued, OnThread, OnProc, Nowhere
<1>7. ref[c].death = d => w \in DeathRecords /\ w.type = "dead"
  BY <1>5, <1>6
<1>. HIDE DEF w, old
<1>8. /\ ref'[c].death \in {ref[c].death, d} \/ ref'[c].death \notin Deaths
      /\ ref'[c].death = d => /\ w \in DeathRecords /\ w.type = "dead"
                              /\ Owner \in alive => w.on = Nowhere /\ ~ w.told
      /\ \A x \in Clients \ {c} : ref'[x] = ref[x]
  BY <1>1, <1>6, <1>7
<1>. QED
  BY <1>1, <1>4, <1>5, <1>8, OneDeath, Zenon

\* BC_DEAD_BINDER_DONE.
LEMMA DeadBinderDoneInStep ==
    ASSUME BinderInv, DeathInv, NEW c \in Clients, NEW d \in Deaths, NEW list \in Queued,
           DeadBinderDone(c, d, list)
    PROVE  DeathInv'
<1>. DEFINE old == death[c][d]
            w == IF old.type = "dead_and_clear"
                 THEN Moved(old, list, "clear")
                 ELSE Moved(old, Nowhere, "dead")
<1>1. /\ old.on = Delivered /\ ref' = ref /\ alive' = alive
      /\ death' = IF old.type = "dead_and_clear" THEN SetDeath(c, d, list, "clear")
                  ELSE SetDeath(c, d, Nowhere, "dead")
  BY DEF DeadBinderDone, countVars
<1>2. death \in [Clients -> [Deaths -> DeathRecords \cup {Freed}]]
  BY DEF DeathInv
<1>3. old \in DeathRecords
  BY <1>1, <1>2 DEF Freed, Delivered
<1>4. /\ w \in DeathRecords /\ death' = WithDeath(c, d, w)
      /\ w.on \in Queued => w.type = "clear"
      /\ old.type # "dead_and_clear" => w.type = "dead"
  <2>1. CASE old.type = "dead_and_clear"
    BY <1>1, <1>3, <2>1, SetDeathFacts
  <2>2. CASE old.type # "dead_and_clear"
    BY <1>1, <1>3, <2>2, SetDeathFacts DEF Queued, OnThread, OnProc, Nowhere
  <2>. QED
    BY <2>1, <2>2
<1>5. ref[c].death = d => old.type = "dead" /\ Owner \notin alive
  <2>1. DeathGood(ref[c].death, death[c])
    BY DEF DeathInv
  <2>. QED
    BY <1>1, <2>1 DEF DeathGood, Delivered, Nowhere
<1>. HIDE DEF w
<1>. QED
  BY <1>1, <1>4, <1>5, OneDeath

\* A thread of a client exits: what was on its list is nowhere.
LEMMA ClientThreadExitInStep ==
    ASSUME BinderInv, DeathInv, NEW c \in Clients, ClientThreadExit(c)
    PROVE  DeathInv'
<1>. DEFINE ds == [d \in Deaths |-> IF death[c][d].on = OnThread
                                    THEN [death[c][d] EXCEPT !.on = Nowhere] ELSE death[c][d]]
<1>1. ref' = ref /\ alive' = alive
  BY DEF ClientThreadExit, countVars
<1>2. /\ death \in [Clients -> [Deaths -> DeathRecords \cup {Freed}]]
      /\ DeathGood(ref[c].death, death[c])
  BY DEF DeathInv
<1>3. death' = [death EXCEPT ![c] = ds]
  BY <1>2 DEF ClientThreadExit
<1>4. ASSUME NEW d \in Deaths
      PROVE  \/ ds[d] = death[c][d]
             \/ /\ death[c][d] \in DeathRecords /\ ds[d] \in DeathRecords
                /\ death[c][d].on = OnThread /\ ds[d].on = Nowhere
                /\ ds[d].type = death[c][d].type /\ ds[d].told = death[c][d].told
  <2>1. CASE death[c][d].on = OnThread
    <3>1. death[c][d] \in DeathRecords
      BY <1>2, <2>1 DEF Freed, OnThread
    <3>. QED
      BY <2>1, <3>1 DEF DeathRecords
  <2>2. CASE death[c][d].on # OnThread
    BY <2>2
  <2>. QED
    BY <2>1, <2>2
<1>5. ds \in [Deaths -> DeathRecords \cup {Freed}]
  <2>1. \A d \in Deaths : ds[d] \in DeathRecords \cup {Freed}
    BY <1>2, <1>4
  <2>. QED
    BY <2>1
<1>. HIDE DEF ds
<1>6. Nowhere \notin Queued /\ OnThread # Nowhere
  BY DEF Nowhere, Queued, OnThread, OnProc
<1>7. DeathGood(ref[c].death, ds)
  BY <1>2, <1>4, <1>6 DEF DeathGood
<1>. QED
  BY <1>1, <1>3, <1>5, <1>7, DeathsElsewhere

\* The owner dies: the notification of every reference is queued, none of which
\* was queued before.
LEMMA OwnerDiesInStep ==
    ASSUME BinderInv, DeathInv, OwnerDies
    PROVE  DeathInv'
<1>1. /\ Owner \in alive /\ Owner \notin alive' /\ ref' = ref
      /\ death' = [c \in Clients |-> [d \in Deaths |->
                      IF ref[c].death = d THEN [death[c][d] EXCEPT !.on = OnProc]
                      ELSE death[c][d]]]
  BY DEF OwnerDies
<1>2. death \in [Clients -> [Deaths -> DeathRecords \cup {Freed}]]
  BY DEF DeathInv
<1>3. ASSUME NEW c \in Clients, NEW d \in Deaths
      PROVE  /\ ref[c].death # d => death'[c][d] = death[c][d]
             /\ ref[c].death = d => /\ death'[c][d] \in DeathRecords
                                    /\ death'[c][d].type = "dead" /\ ~ death'[c][d].told
  <2>1. CASE ref[c].death # d
    BY <1>1, <2>1
  <2>2. CASE ref[c].death = d
    <3>1. DeathGood(ref[c].death, death[c])
      BY DEF DeathInv
    <3>2. death[c][d] \in DeathRecords /\ death[c][d].type = "dead" /\ ~ death[c][d].told
      BY <1>1, <2>2, <3>1 DEF DeathGood
    <3>3. death'[c][d] = [death[c][d] EXCEPT !.on = OnProc]
      BY <1>1, <2>2
    <3>. QED
      BY <2>2, <3>2, <3>3 DEF DeathRecords, Queued
  <2>. QED
    BY <2>1, <2>2
<1>4. death' \in [Clients -> [Deaths -> DeathRecords \cup {Freed}]]
  <2>1. \A c \in Clients, d \in Deaths : death'[c][d] \in DeathRecords \cup {Freed}
    BY <1>2, <1>3
  <2>. QED
    BY <1>1, <2>1
<1>5. ASSUME NEW c \in Clients PROVE DeathGood(ref[c].death, death[c])'
  <2>1. DeathGood(ref[c].death, death[c])
    BY DEF DeathInv
  <2>. QED
    BY <1>1, <1>3, <2>1 DEF DeathGood
<1>. QED
  BY <1>4, <1>5 DEF DeathInv

\* A client dies with its notifications.
LEMMA ClientDiesInStep ==
    ASSUME BinderInv, DeathInv, NEW c \in Clients, ClientDies(c)
    PROVE  DeathInv'
<1>. DEFINE ds == [d \in Deaths |-> Freed]
<1>1. /\ alive' = alive \ {c} /\ ref' = [ref EXCEPT ![c] = NoRef]
      /\ death' = [death EXCEPT ![c] = ds] /\ ref \in [Clients -> RefRecords \cup {NoRef}]
  BY DEF ClientDies, BinderInv, Types
<1>2. /\ ref'[c].death \notin Deaths /\ \A x \in Clients \ {c} : ref'[x] = ref[x]
  BY <1>1, BinderAssumption
<1>3. ds \in [Deaths -> DeathRecords \cup {Freed}]
  OBVIOUS
<1>4. DeathGood(ref'[c].death, ds)
  BY <1>2 DEF DeathGood, Freed, Queued, OnThread, OnProc
<1>5. Owner \in alive' => Owner \in alive
  BY <1>1
<1>. HIDE DEF ds
<1>. QED
  BY <1>1, <1>2, <1>3, <1>4, <1>5, DeathsElsewhere

\* The steps that leave references, notifications and lives as they are.
LEMMA DeathsUntouched ==
    ASSUME DeathInv, UNCHANGED <<ref, death, alive>>
    PROVE  DeathInv'
BY DEF DeathInv, DeathGood

\* At the start there is no notification.
LEMMA DeathInvInit == BinderInit => DeathInv
BY BinderAssumption DEF BinderInit, DeathInv, DeathGood, Freed, Queued, OnThread, OnProc

\* One case for each kind of step.
LEMMA DeathInvNext == BinderInv /\ DeathInv /\ [BinderNext]_binderVars => DeathInv'
<1>. SUFFICES ASSUME BinderInv, DeathInv, [BinderNext]_binderVars PROVE DeathInv'
  OBVIOUS
<1>1. CASE UNCHANGED binderVars
  BY <1>1, DeathsUntouched DEF binderVars, countVars
<1>2. ASSUME NEW k \in Kinds, FreeOwnerBuffer(k) \/ Done(k) PROVE DeathInv'
  BY <1>2, DeathsUntouched DEF FreeOwnerBuffer, Done
<1>3. ASSUME NEW k \in Kinds, NEW c \in Clients, SendBack(c, k) PROVE DeathInv'
  BY <1>3, DeathsUntouched DEF SendBack
<1>4. ASSUME NEW k \in Kinds, NEW c \in Clients, FreeBuffer(c, k) \/ Release(c, k)
      PROVE  DeathInv'
  BY <1>4, DecDeath DEF FreeBuffer, Release
<1>5. ASSUME NEW k \in Kinds, NEW c \in Clients, SendBinder(c, k) PROVE DeathInv'
  BY <1>5, IncDeath DEF SendBinder
<1>14. ASSUME NEW c \in Clients, SendBinderFails(c) PROVE DeathInv'
  BY <1>14, DeathsUntouched DEF SendBinderFails
<1>6. ASSUME NEW k \in Kinds, NEW c \in Clients, Acquire(c, k) PROVE DeathInv'
  BY <1>6, IncDeath DEF Acquire
<1>7. ASSUME NEW k \in Kinds, NEW c \in Clients, NEW d \in Clients, SendHandle(c, d, k)
      PROVE  DeathInv'
  BY <1>7, IncDeath DEF SendHandle
<1>8. CASE OwnerRead \/ OwnerThreadExit
  BY <1>8, DeathsUntouched DEF OwnerRead, OwnerThreadExit
<1>9. CASE DeathStep
  BY <1>9, ReadDeathInStep, RequestDeathInStep, DeadBinderDoneInStep DEF DeathStep
<1>10. CASE ClearStep
  BY <1>10, ClearDeathInStep DEF ClearStep
<1>11. CASE ExitStep
  BY <1>8, <1>11, OwnerDiesInStep, ClientThreadExitInStep, ClientDiesInStep DEF ExitStep
<1>12. CASE TransactionStep
  BY <1>2, <1>3, <1>4, <1>5, <1>7, <1>12, <1>14 DEF TransactionStep
<1>13. CASE ReferenceStep
  BY <1>2, <1>4, <1>6, <1>13 DEF ReferenceStep
<1>. QED
  BY <1>1, <1>8, <1>9, <1>10, <1>11, <1>12, <1>13 DEF BinderNext

\* The owner's life shows in its node as long as there is a reference.
LEMMA DeathsFollow == BinderInv /\ DeathInv => DeathsInStep
<1>. SUFFICES ASSUME BinderInv, DeathInv, NEW c \in Clients
              PROVE  /\ ref[c].death \in Deaths =>
                           /\ death[c][ref[c].death] # Freed
                           /\ death[c][ref[c].death].type = "dead"
                           /\ ~ node.dead => death[c][ref[c].death].on = Nowhere
                     /\ \A d \in Deaths : death[c][d].on \in Queued /\ death[c][d].type # "clear"
                                           => ~ death[c][d].told
  BY DEF DeathsInStep
<1>1. DeathGood(ref[c].death, death[c])
  BY DEF DeathInv
<1>2. ASSUME ref[c].death \in Deaths PROVE node.dead <=> Owner \notin alive
  <2>1. c \in Refs
    BY <1>2, BinderAssumption DEF Refs
  <2>. QED
    BY <2>1 DEF BinderInv, NodeOK, GoodOrGone, GoodNode
<1>3. Freed \notin DeathRecords
  BY DEF Freed, DeathRecords, Queued, OnThread, OnProc, Nowhere, Delivered
<1>. QED
  BY <1>1, <1>2, <1>3 DEF DeathGood

\* Whatever the order of requests, clears, deaths and acknowledgements, the
\* driver's two BUG checks on a notification's list are out of reach, and
\* BR_DEAD_BINDER is given at most once.
THEOREM DeathsStayInStep == BinderSpec => []DeathsInStep
<1>1. BinderSpec => []DeathInv
  BY BinderInvAlways, DeathInvInit, DeathInvNext, PTL DEF BinderSpec
<1>. QED
  BY <1>1, BinderInvAlways, DeathsFollow, PTL
=============================================================================
