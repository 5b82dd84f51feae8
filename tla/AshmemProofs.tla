---------------------------- MODULE AshmemProofs ----------------------------
(***************************************************************************)
(* Proofs about Ashmem for any areas, sizes, ranges and requests.          *)
(***************************************************************************)
EXTENDS Ashmem, FiniteSetTheorems, SequenceTheorems, TLAPS

----------------------------------------------------------------------------
(* Lists. *)

\* A set of naturals that is not empty has a least member.
LEMMA LeastMember ==
    ASSUME NEW S \in SUBSET Nat, S # {}
    PROVE  \E x \in S : \A y \in S : x <= y
<1>1. IsWellFoundedOn(OpToRel(<,Nat), Nat)
  BY NatLessThanWellFounded
<1>2. PICK x \in S : \A y \in S : ~ (<<y, x>> \in OpToRel(<,Nat))
  BY <1>1, WFMin
<1>3. \A y \in S : ~ (y < x)
  BY <1>2 DEF OpToRel
<1>. QED
  BY <1>3

\* The positions of a list that list_del leaves, and how many of them are not
\* after one of them.
Kept(list, s) == {i \in 1 .. Len(list) : list[i] \notin s}
UpTo(kept, i) == {k \in kept : k <= i}

\* The kept positions are counted off one by one.
LEMMA Counted ==
    ASSUME NEW n \in Nat, NEW kept \in SUBSET (1 .. n)
    PROVE  /\ IsFiniteSet(kept)
           /\ \A i \in kept : Cardinality(UpTo(kept, i)) \in 1 .. Cardinality(kept)
           /\ \A i, j \in kept : i < j => Cardinality(UpTo(kept, i)) < Cardinality(UpTo(kept, j))
           /\ \A m \in 1 .. Cardinality(kept) : \E i \in kept : Cardinality(UpTo(kept, i)) = m
<1>1. IsFiniteSet(1 .. n)
  BY FS_Interval
<1>2. IsFiniteSet(kept) /\ Cardinality(kept) \in Nat
  BY <1>1, FS_Subset, FS_CardinalityType
<1>3. \A i \in kept : /\ IsFiniteSet(UpTo(kept, i))
                      /\ Cardinality(UpTo(kept, i)) \in Nat
                      /\ Cardinality(UpTo(kept, i)) <= Cardinality(kept)
  <2>. TAKE i \in kept
  <2>1. UpTo(kept, i) \in SUBSET kept
    BY DEF UpTo
  <2>. QED
    BY <2>1, <1>2, FS_Subset, FS_CardinalityType
<1>4. \A i \in kept : Cardinality(UpTo(kept, i)) \in 1 .. Cardinality(kept)
  <2>. TAKE i \in kept
  <2>1. UpTo(kept, i) # {}
    BY DEF UpTo
  <2>2. Cardinality(UpTo(kept, i)) # 0
    BY <2>1, <1>3, FS_EmptySet
  <2>. QED
    BY <2>2, <1>2, <1>3
<1>5. ASSUME NEW i \in kept, NEW j \in kept, i < j
      PROVE  Cardinality(UpTo(kept, i)) < Cardinality(UpTo(kept, j))
  <2>1. UpTo(kept, i) \in SUBSET UpTo(kept, j)
    <3>. SUFFICES ASSUME NEW k \in kept, k <= i
                  PROVE  k <= j
      BY DEF UpTo
    <3>. QED
      BY <1>5
  <2>2. j \in UpTo(kept, j) /\ j \notin UpTo(kept, i)
    BY <1>5 DEF UpTo
  <2>3. /\ Cardinality(UpTo(kept, i)) <= Cardinality(UpTo(kept, j))
        /\ Cardinality(UpTo(kept, j)) # Cardinality(UpTo(kept, i))
    BY <2>1, <2>2, <1>3, FS_Subset
  <2>. QED
    BY <2>3, <1>3
<1>6. ASSUME NEW m \in 1 .. Cardinality(kept)
      PROVE  \E i \in kept : Cardinality(UpTo(kept, i)) = m
  <2>. DEFINE C == 1 .. Cardinality(kept)
              f == [i \in kept |-> Cardinality(UpTo(kept, i))]
  <2>1. f \in [kept -> C]
    BY <1>4
  <2>2. \A i, j \in kept : f[i] = f[j] => i = j
    <3>. SUFFICES ASSUME NEW i \in kept, NEW j \in kept, f[i] = f[j], i # j
                  PROVE  FALSE
      OBVIOUS
    <3>1. i < j \/ j < i
      OBVIOUS
    <3>. QED
      BY <3>1, <1>5, <1>3
  <2>3. f \in Injection(kept, C)
    <3>. HIDE DEF f
    <3>. QED
      BY <2>1, <2>2 DEF Injection, IsInjective
  <2>4. IsFiniteSet(C) /\ Cardinality(C) = Cardinality(kept)
    BY <1>2, FS_Interval
  <2>5. f \in Surjection(kept, C)
    <3>. HIDE DEF f, C
    <3>. QED
      BY <2>3, <2>4, FS_Injection
  <2>6. \E i \in kept : f[i] = m
    <3>. HIDE DEF f
    <3>. QED
      BY <2>5 DEF Surjection
  <2>. QED
    BY <2>6
<1>. QED
  BY <1>2, <1>4, <1>5, <1>6

\* What is left of a list is in the same order.
InOrder(part, list) ==
    \A i, j \in 1 .. Len(part) : i < j =>
        \E k, l \in 1 .. Len(list) : k < l /\ part[i] = list[k] /\ part[j] = list[l]

\* list_del takes the members of s from a list and nothing else.
LEMMA WithoutIs ==
    ASSUME NEW X, NEW list \in Seq(X), NEW s
    PROVE  /\ Without(list, s) \in Seq(X)
           /\ ToSet(Without(list, s)) = ToSet(list) \ s
           /\ InOrder(Without(list, s), list)
           /\ IsInjective(list) => IsInjective(Without(list, s))
<1>. DEFINE kept == Kept(list, s)
            nth == [n \in 1 .. Cardinality(kept) |->
                       CHOOSE i \in kept : Cardinality(UpTo(kept, i)) = n]
            W == Without(list, s)
<1>1. Len(list) \in Nat /\ kept \in SUBSET (1 .. Len(list)) /\ DOMAIN list = 1 .. Len(list)
  BY DEF Kept
<1>2. /\ IsFiniteSet(kept)
      /\ \A i \in kept : Cardinality(UpTo(kept, i)) \in 1 .. Cardinality(kept)
      /\ \A i, j \in kept : i < j => Cardinality(UpTo(kept, i)) < Cardinality(UpTo(kept, j))
      /\ \A m \in 1 .. Cardinality(kept) : \E i \in kept : Cardinality(UpTo(kept, i)) = m
  <2>. HIDE DEF kept
  <2>. QED
    BY <1>1, Counted
<1>3. Cardinality(kept) \in Nat
  BY <1>2, FS_CardinalityType
<1>4. \A n \in 1 .. Cardinality(kept) : nth[n] \in kept /\ Cardinality(UpTo(kept, nth[n])) = n
  <2>. HIDE DEF kept
  <2>. QED
    BY <1>2
<1>5. W = [n \in 1 .. Cardinality(kept) |-> list[nth[n]]]
  BY DEF Without, Kept, UpTo
<1>0. \A i \in kept : i \in 1 .. Len(list) /\ i \in Int
  BY DEF Kept
<1>. HIDE DEF kept, nth, W
<1>6. W \in Seq(X) /\ Len(W) = Cardinality(kept) /\ DOMAIN W = 1 .. Cardinality(kept)
  <2>1. \A n \in 1 .. Cardinality(kept) : list[nth[n]] \in X
    BY <1>0, <1>4
  <2>. QED
    BY <2>1, <1>5, <1>3
<1>7. \A i, j \in 1 .. Len(W) : i < j => nth[i] < nth[j]
  <2>. SUFFICES ASSUME NEW i \in 1 .. Len(W), NEW j \in 1 .. Len(W), i < j, ~ (nth[i] < nth[j])
                PROVE  FALSE
    OBVIOUS
  <2>1. nth[i] \in kept /\ nth[j] \in kept /\ nth[i] \in Int /\ nth[j] \in Int
    BY <1>4, <1>6, <1>0
  <2>2. Cardinality(UpTo(kept, nth[i])) = i /\ Cardinality(UpTo(kept, nth[j])) = j
    BY <1>4, <1>6
  <2>3. CASE nth[j] < nth[i]
    <3>1. Cardinality(UpTo(kept, nth[j])) < Cardinality(UpTo(kept, nth[i]))
      BY <2>1, <2>3, <1>2
    <3>. QED
      BY <3>1, <2>2
  <2>4. CASE nth[j] = nth[i]
    BY <2>2, <2>4
  <2>. QED
    BY <2>1, <2>3, <2>4
<1>8. InOrder(W, list)
  <2>. SUFFICES ASSUME NEW i \in 1 .. Len(W), NEW j \in 1 .. Len(W), i < j
                PROVE  \E k, l \in 1 .. Len(list) : k < l /\ W[i] = list[k] /\ W[j] = list[l]
    BY DEF InOrder
  <2>1. nth[i] < nth[j] /\ nth[i] \in 1 .. Len(list) /\ nth[j] \in 1 .. Len(list)
    BY <1>7, <1>4, <1>6, <1>1
  <2>2. W[i] = list[nth[i]] /\ W[j] = list[nth[j]]
    BY <1>5, <1>6
  <2>. QED
    BY <2>1, <2>2
<1>9. ToSet(W) = ToSet(list) \ s
  <2>1. ASSUME NEW x \in ToSet(W) PROVE x \in ToSet(list) \ s
    <3>1. PICK n \in 1 .. Cardinality(kept) : x = list[nth[n]]
      BY <2>1, <1>5, <1>6 DEF ToSet
    <3>2. nth[n] \in kept
      BY <1>4
    <3>. QED
      BY <3>1, <3>2, <1>1 DEF ToSet, Kept, kept
  <2>2. ASSUME NEW x \in ToSet(list), x \notin s PROVE x \in ToSet(W)
    <3>1. PICK i \in 1 .. Len(list) : x = list[i]
      BY <2>2, <1>1 DEF ToSet
    <3>2. i \in kept
      BY <3>1, <2>2 DEF kept, Kept
    <3>3. PICK n \in 1 .. Cardinality(kept) : n = Cardinality(UpTo(kept, i))
      BY <3>2, <1>2
    <3>4. nth[n] = i
      <4>1. nth[n] \in kept /\ Cardinality(UpTo(kept, nth[n])) = n
        BY <1>4
      <4>2. nth[n] \in Int /\ i \in Int
        BY <4>1, <3>2, <1>0
      <4>3. ~ (nth[n] < i) /\ ~ (i < nth[n])
        <5>1. Cardinality(UpTo(kept, nth[n])) = Cardinality(UpTo(kept, i))
          BY <4>1, <3>3
        <5>2. Cardinality(UpTo(kept, i)) \in Int
          BY <3>3
        <5>3. nth[n] < i => Cardinality(UpTo(kept, nth[n])) < Cardinality(UpTo(kept, i))
          BY <4>1, <3>2, <1>2
        <5>4. i < nth[n] => Cardinality(UpTo(kept, i)) < Cardinality(UpTo(kept, nth[n]))
          BY <4>1, <3>2, <1>2
        <5>. QED
          BY <5>1, <5>2, <5>3, <5>4
      <4>. QED
        BY <4>2, <4>3
    <3>. QED
      BY <3>1, <3>4, <1>5, <1>6 DEF ToSet
  <2>. QED
    BY <2>1, <2>2
<1>10. ASSUME IsInjective(list) PROVE IsInjective(W)
  <2>. SUFFICES ASSUME NEW i \in 1 .. Len(W), NEW j \in 1 .. Len(W), W[i] = W[j], i # j
                PROVE  FALSE
    BY <1>6 DEF IsInjective
  <2>1. nth[i] \in 1 .. Len(list) /\ nth[j] \in 1 .. Len(list)
    BY <1>4, <1>6, <1>1
  <2>2. list[nth[i]] = list[nth[j]]
    BY <1>5, <1>6
  <2>3. nth[i] = nth[j]
    BY <2>1, <2>2, <1>10, <1>1 DEF IsInjective
  <2>4. i < j \/ j < i
    BY <1>6, <1>3
  <2>. QED
    BY <2>1, <2>3, <2>4, <1>7
<1>. QED
  BY <1>6, <1>8, <1>9, <1>10 DEF W

\* Where list_add_tail puts a range.
Place(list, prev) == IF prev = ListHead THEN Len(list) + 1
                     ELSE CHOOSE i \in 1 .. Len(list) : list[i] = prev

\* list_add_tail moves what is behind that place back by one.
LEMMA InsertBeforeIs ==
    ASSUME NEW X, NEW list \in Seq(X), NEW x \in X, NEW prev,
           prev = ListHead \/ prev \in ToSet(list)
    PROVE  LET k == Place(list, prev)
               new == InsertBefore(list, x, prev)
           IN  /\ k \in 1 .. Len(list) + 1
               /\ prev # ListHead => k <= Len(list) /\ list[k] = prev
               /\ new \in Seq(X)
               /\ Len(new) = Len(list) + 1
               /\ \A i \in 1 .. Len(list) + 1 :
                     new[i] = IF i < k THEN list[i] ELSE IF i = k THEN x ELSE list[i - 1]
<1>. DEFINE k == Place(list, prev)
            new == InsertBefore(list, x, prev)
<1>0. Len(list) \in Nat
  OBVIOUS
<1>1. CASE prev = ListHead
  <2>1. new = Append(list, x) /\ k = Len(list) + 1
    BY <1>1 DEF InsertBefore, Place
  <2>. QED
    BY <2>1, <1>0, <1>1
<1>2. CASE prev # ListHead
  <2>1. \E i \in 1 .. Len(list) : list[i] = prev
    BY <1>2 DEF ToSet
  <2>2. k \in 1 .. Len(list) /\ list[k] = prev
    BY <1>2, <2>1 DEF Place
  <2>3. new = SubSeq(list, 1, k - 1) \o <<x>> \o SubSeq(list, k, Len(list))
    <3>1. new = InsertAt(list, k, x)
      BY <1>2 DEF InsertBefore, Place
    <3>. QED
      BY <3>1 DEF InsertAt
  <2>. HIDE DEF k, new
  <2>. DEFINE front == SubSeq(list, 1, k - 1)
              back == SubSeq(list, k, Len(list))
  <2>4. /\ front \in Seq(X) /\ Len(front) = k - 1
        /\ \A i \in 1 .. k - 1 : front[i] = list[i]
    BY <2>2, <1>0
  <2>5. /\ back \in Seq(X) /\ Len(back) = Len(list) - k + 1
        /\ \A i \in 1 .. Len(list) - k + 1 : back[i] = list[k + i - 1]
    BY <2>2, <1>0
  <2>. HIDE DEF front, back
  <2>. DEFINE two == front \o <<x>>
  <2>6. /\ two \in Seq(X) /\ Len(two) = k
        /\ \A i \in 1 .. k : two[i] = IF i < k THEN list[i] ELSE x
    BY <2>4, <2>2
  <2>7. new = two \o back
    BY <2>3 DEF front, back
  <2>. HIDE DEF two
  <2>0. /\ new \in Seq(X) /\ Len(new) = Len(two) + Len(back)
        /\ \A i \in 1 .. Len(two) + Len(back) :
              new[i] = IF i <= Len(two) THEN two[i] ELSE back[i - Len(two)]
    BY <2>5, <2>6, <2>7, ConcatProperties
  <2>8. new \in Seq(X) /\ Len(new) = Len(list) + 1
    BY <2>0, <2>5, <2>6, <2>2, <1>0
  <2>9. ASSUME NEW i \in 1 .. Len(list) + 1
        PROVE  new[i] = IF i < k THEN list[i] ELSE IF i = k THEN x ELSE list[i - 1]
    <3>1. CASE i <= k
      BY <3>1, <2>0, <2>5, <2>6, <2>2, <1>0
    <3>2. CASE i > k
      <4>1. new[i] = back[i - k]
        BY <3>2, <2>0, <2>5, <2>6, <2>2, <1>0
      <4>2. i - k \in 1 .. Len(list) - k + 1 /\ k + (i - k) - 1 = i - 1
        BY <3>2, <2>2, <1>0
      <4>3. back[i - k] = list[i - 1]
        <5>1. back[i - k] = list[k + (i - k) - 1]
          BY <4>2, <2>5
        <5>. QED
          BY <5>1, <4>2
      <4>. QED
        BY <4>1, <4>3, <2>2, <3>2
    <3>. QED
      BY <3>1, <3>2, <2>2
  <2>. QED
    BY <2>2, <2>8, <2>9, <1>0, <1>2 DEF k, new
<1>. QED
  BY <1>1, <1>2

\* So it adds one member and keeps the others apart.
LEMMA InsertBeforeAdds ==
    ASSUME NEW X, NEW list \in Seq(X), NEW x \in X, NEW prev,
           prev = ListHead \/ prev \in ToSet(list)
    PROVE  /\ InsertBefore(list, x, prev) \in Seq(X)
           /\ ToSet(InsertBefore(list, x, prev)) = ToSet(list) \cup {x}
           /\ IsInjective(list) /\ x \notin ToSet(list) => IsInjective(InsertBefore(list, x, prev))
<1>. DEFINE k == Place(list, prev)
            new == InsertBefore(list, x, prev)
            at(i) == IF i < k THEN i ELSE i + 1
<1>1. /\ k \in 1 .. Len(list) + 1
      /\ new \in Seq(X)
      /\ Len(new) = Len(list) + 1
      /\ \A i \in 1 .. Len(list) + 1 :
            new[i] = IF i < k THEN list[i] ELSE IF i = k THEN x ELSE list[i - 1]
  BY InsertBeforeIs
<1>2. Len(list) \in Nat /\ DOMAIN list = 1 .. Len(list) /\ DOMAIN new = 1 .. Len(list) + 1
  BY <1>1
<1>. HIDE DEF k, new
<1>3. ASSUME NEW y \in ToSet(new) PROVE y \in ToSet(list) \cup {x}
  <2>1. PICK i \in 1 .. Len(list) + 1 : y = new[i]
    BY <1>3, <1>2 DEF ToSet
  <2>2. \A j \in 1 .. Len(list) : list[j] \in ToSet(list)
    BY <1>2 DEF ToSet
  <2>3. CASE i < k
    BY <2>1, <2>2, <2>3, <1>1, <1>2
  <2>4. CASE i = k
    BY <2>1, <2>4, <1>1
  <2>5. CASE i > k
    <3>1. y = list[i - 1] /\ i - 1 \in 1 .. Len(list)
      BY <2>1, <2>5, <1>1, <1>2
    <3>. QED
      BY <3>1, <2>2
  <2>. QED
    BY <2>3, <2>4, <2>5, <1>1
<1>4. ASSUME NEW y \in ToSet(list) PROVE y \in ToSet(new)
  <2>1. PICK i \in 1 .. Len(list) : y = list[i]
    BY <1>4, <1>2 DEF ToSet
  <2>2. at(i) \in 1 .. Len(list) + 1 /\ new[at(i)] = y
    BY <2>1, <1>1, <1>2
  <2>. QED
    BY <2>2, <1>2 DEF ToSet
<1>5. x \in ToSet(new)
  <2>1. k \in DOMAIN new /\ new[k] = x
    BY <1>1, <1>2
  <2>. QED
    BY <2>1 DEF ToSet
<1>6. ASSUME IsInjective(list), x \notin ToSet(list) PROVE IsInjective(new)
  <2>1. \A i \in 1 .. Len(list) : list[i] # x
    BY <1>6, <1>2 DEF ToSet
  <2>2. \A i, j \in 1 .. Len(list) : list[i] = list[j] => i = j
    BY <1>6, <1>2 DEF IsInjective
  <2>3. ASSUME NEW i \in 1 .. Len(list) + 1, NEW j \in 1 .. Len(list) + 1, i < j, new[i] = new[j]
        PROVE  FALSE
    <3>1. CASE i < k /\ j < k
      BY <3>1, <2>2, <2>3, <1>1, <1>2
    <3>2. CASE i < k /\ j = k
      BY <3>2, <2>1, <2>3, <1>1, <1>2
    <3>3. CASE i < k /\ k < j
      <4>1. new[i] = list[i] /\ new[j] = list[j - 1] /\ i \in 1 .. Len(list) /\ j - 1 \in 1 .. Len(list)
        BY <3>3, <1>1, <1>2
      <4>2. i = j - 1
        BY <4>1, <2>2, <2>3
      <4>. QED
        BY <4>2, <3>3, <1>1
    <3>4. CASE i = k /\ k < j
      BY <3>4, <2>1, <2>3, <1>1, <1>2
    <3>5. CASE k < i
      <4>1. new[i] = list[i - 1] /\ new[j] = list[j - 1] /\ i - 1 \in 1 .. Len(list) /\ j - 1 \in 1 .. Len(list)
        BY <3>5, <2>3, <1>1, <1>2
      <4>2. i - 1 = j - 1
        BY <4>1, <2>2, <2>3
      <4>. QED
        BY <4>2, <2>3, <1>2
    <3>. QED
      BY <3>1, <3>2, <3>3, <3>4, <3>5, <2>3, <1>1
  <2>4. \A i, j \in 1 .. Len(list) + 1 : i = j \/ i < j \/ j < i
    BY <1>2
  <2>. QED
    BY <2>3, <2>4, <1>2 DEF IsInjective
<1>. QED
  BY <1>1, <1>3, <1>4, <1>5, <1>6 DEF new

----------------------------------------------------------------------------
(* Counting pages.  lru_count changes by sums of range_size; they are the   *)
(* numbers of these pairs, which add up.                                    *)

PagePairs(s, bounds) == UNION {{x} \X PagesCounted(bounds[x]) : x \in s}
Bounded(s, bounds) == \A x \in s : bounds[x].pgstart \in Int /\ bounds[x].pgend \in Int

\* range_size is the number of pages that count, the wrapped case included.
LEMMA CountedSize ==
    ASSUME NEW r, r.pgstart \in Int, r.pgend \in Int
    PROVE  /\ IsFiniteSet(PagesCounted(r))
           /\ range_size(r) \in Int
           /\ r.pgend >= r.pgstart - 1 => Cardinality(PagesCounted(r)) = range_size(r)
<1>1. CASE AllPages(r)
  BY <1>1, FS_EmptySet DEF PagesCounted, range_size
<1>2. CASE ~ AllPages(r)
  <2>1. PagesCounted(r) = r.pgstart .. r.pgend /\ range_size(r) = r.pgend - r.pgstart + 1
    BY <1>2 DEF PagesCounted, PagesOf, range_size
  <2>2. /\ IsFiniteSet(r.pgstart .. r.pgend)
        /\ Cardinality(r.pgstart .. r.pgend) = IF r.pgstart > r.pgend THEN 0 ELSE r.pgend - r.pgstart + 1
    BY FS_Interval
  <2>. QED
    BY <2>1, <2>2
<1>. QED
  BY <1>1, <1>2

LEMMA PagePairsIs ==
    ASSUME NEW s, NEW bounds, NEW z
    PROVE  z \in PagePairs(s, bounds) <=>
               \E x \in s : z \in {x} \X PagesCounted(bounds[x])
BY DEF PagePairs

LEMMA PagePairsFinite ==
    ASSUME NEW s, IsFiniteSet(s), NEW bounds, Bounded(s, bounds)
    PROVE  IsFiniteSet(PagePairs(s, bounds)) /\ Cardinality(PagePairs(s, bounds)) \in Nat
<1>. DEFINE f == [x \in s |-> {x} \X PagesCounted(bounds[x])]
            T == {{x} \X PagesCounted(bounds[x]) : x \in s}
<1>1. f \in Surjection(s, T)
  BY DEF Surjection
<1>2. IsFiniteSet(T)
  <2>. HIDE DEF f, T
  <2>. QED
    BY <1>1, FS_Surjection
<1>3. ASSUME NEW x \in s PROVE IsFiniteSet({x} \X PagesCounted(bounds[x]))
  <2>1. IsFiniteSet(PagesCounted(bounds[x]))
    BY CountedSize DEF Bounded
  <2>2. IsFiniteSet({x})
    BY FS_Singleton
  <2>. QED
    BY <2>1, <2>2, FS_Product
<1>4. \A U \in T : IsFiniteSet(U)
  BY <1>3
<1>5. IsFiniteSet(UNION T)
  <2>. HIDE DEF T
  <2>. QED
    BY <1>2, <1>4, FS_UNION
<1>. QED
  BY <1>5, FS_CardinalityType DEF PagePairs

LEMMA PagePairsUnion ==
    ASSUME NEW s, NEW t, IsFiniteSet(s), IsFiniteSet(t), s \cap t = {}, NEW bounds,
           Bounded(s, bounds), Bounded(t, bounds)
    PROVE  Cardinality(PagePairs(s \cup t, bounds))
               = Cardinality(PagePairs(s, bounds)) + Cardinality(PagePairs(t, bounds))
<1>1. PagePairs(s \cup t, bounds) = PagePairs(s, bounds) \cup PagePairs(t, bounds)
  BY DEF PagePairs
<1>2. PagePairs(s, bounds) \cap PagePairs(t, bounds) = {}
  <2>. SUFFICES ASSUME NEW z \in PagePairs(s, bounds), z \in PagePairs(t, bounds)
                PROVE  FALSE
    OBVIOUS
  <2>1. PICK x \in s : z \in {x} \X PagesCounted(bounds[x])
    BY PagePairsIs
  <2>2. PICK y \in t : z \in {y} \X PagesCounted(bounds[y])
    BY PagePairsIs
  <2>3. z[1] = x /\ z[1] = y
    BY <2>1, <2>2
  <2>. QED
    BY <2>3
<1>3. /\ IsFiniteSet(PagePairs(s, bounds)) /\ Cardinality(PagePairs(s, bounds)) \in Nat
      /\ IsFiniteSet(PagePairs(t, bounds)) /\ Cardinality(PagePairs(t, bounds)) \in Nat
  BY PagePairsFinite
<1>4. Cardinality(PagePairs(s, bounds) \cup PagePairs(t, bounds))
          = Cardinality(PagePairs(s, bounds)) + Cardinality(PagePairs(t, bounds))
            - Cardinality(PagePairs(s, bounds) \cap PagePairs(t, bounds))
  BY <1>3, FS_Union
<1>5. Cardinality(PagePairs(s, bounds) \cap PagePairs(t, bounds)) = 0
  BY <1>2, FS_EmptySet
<1>6. Cardinality(PagePairs(s \cup t, bounds))
          = Cardinality(PagePairs(s, bounds) \cup PagePairs(t, bounds))
  BY <1>1
<1>. QED
  BY <1>3, <1>4, <1>5, <1>6

LEMMA PagePairsOne ==
    ASSUME NEW x, NEW bounds, Bounded({x}, bounds),
           bounds[x].pgend >= bounds[x].pgstart - 1
    PROVE  Cardinality(PagePairs({x}, bounds)) = range_size(bounds[x])
<1>1. PagePairs({x}, bounds) = {x} \X PagesCounted(bounds[x])
  BY DEF PagePairs
<1>2. IsFiniteSet({x}) /\ Cardinality({x}) = 1
  BY FS_Singleton
<1>3. bounds[x].pgstart \in Int /\ bounds[x].pgend \in Int
  BY DEF Bounded
<1>4. /\ IsFiniteSet(PagesCounted(bounds[x]))
      /\ Cardinality(PagesCounted(bounds[x])) = range_size(bounds[x])
  BY <1>3, CountedSize
<1>5. Cardinality({x} \X PagesCounted(bounds[x])) = 1 * Cardinality(PagesCounted(bounds[x]))
  BY <1>2, <1>4, FS_Product
<1>6. /\ Cardinality(PagesCounted(bounds[x])) = range_size(bounds[x])
      /\ range_size(bounds[x]) \in Int
  BY <1>3, <1>4, CountedSize
<1>7. Cardinality(PagePairs({x}, bounds)) = Cardinality({x} \X PagesCounted(bounds[x]))
  BY <1>1
<1>. QED
  BY <1>5, <1>6, <1>7

LEMMA PagePairsSame ==
    ASSUME NEW s, NEW bounds, NEW other, 
           \A x \in s : bounds[x].pgstart = other[x].pgstart /\ bounds[x].pgend = other[x].pgend
    PROVE  PagePairs(s, bounds) = PagePairs(s, other)
<1>1. \A x \in s : PagesCounted(bounds[x]) = PagesCounted(other[x])
  BY DEF PagesCounted, AllPages, PagesOf
<1>. QED
  BY <1>1 DEF PagePairs

\* The members of a list are finitely many.
LEMMA ListFinite ==
    ASSUME NEW X, NEW list \in Seq(X)
    PROVE  IsFiniteSet(ToSet(list))
<1>1. IsFiniteSet(1 .. Len(list))
  BY FS_Interval
<1>2. list \in Surjection(1 .. Len(list), ToSet(list))
  BY DEF Surjection, ToSet
<1>. QED
  BY <1>1, <1>2, FS_Surjection

----------------------------------------------------------------------------
(* The inductive invariant, in parts.  Between the steps of an unpin, and   *)
(* of a pin that cuts a range in two, the lists lack the pages that the     *)
(* task holding the mutex is about to put there: holder says which.         *)

RangeEntry == [asma : Areas, pgstart : Nat, pgend : Int, purged : BOOLEAN]
Request == [pgstart : Nat, pgend : Int]
InUse(x) == range[x] # Free

\* A range may be empty, at the end of its area, but no emptier than that.
RangesOK ==
    /\ range \in [Ranges -> RangeEntry \cup {Free}]
    /\ \A x \in Ranges : InUse(x) => range[x].pgend >= range[x].pgstart - 1

\* Of any two ranges of a list the later one has the earlier pages.
Descending(list, bounds) ==
    \A i, j \in 1 .. Len(list) : i < j => bounds[list[j]].pgend < bounds[list[i]].pgstart

ListsOK ==
    /\ unpinned_list \in [Areas -> Seq(Ranges)]
    /\ \A a \in Areas : /\ ToSet(unpinned_list[a]) = {x \in Ranges : InUse(x) /\ range[x].asma = a}
                        /\ IsInjective(unpinned_list[a])
                        /\ Descending(unpinned_list[a], range)

LruOK ==
    /\ lru \in Seq(Ranges)
    /\ ToSet(lru) = {x \in Ranges : InUse(x) /\ range_on_lru(range[x])}
    /\ IsInjective(lru)
    /\ lru_count = PagesOnLru(ToSet(lru))

AreasOK ==
    /\ open \subseteq Areas
    /\ size \in [Areas -> Nat] /\ file \in [Areas -> Nat]
    /\ \A a \in Areas : /\ {size[a], file[a]} \subseteq Sizes[a] \cup {0}
                        /\ file[a] # 0 => a \in open
                        /\ unpinned_list[a] # << >> => file[a] # 0

\* The new bounds of some of the ranges of an area lie within the old ones.
Within(a, to) ==
    /\ DOMAIN to \subseteq ToSet(unpinned_list[a])
    /\ \A x \in DOMAIN to : /\ to[x] \in Request
                            /\ to[x].pgstart >= range[x].pgstart
                            /\ to[x].pgend <= range[x].pgend
                            /\ to[x].pgend >= to[x].pgstart - 1

\* A range for the pages q goes before prev and after the others.
Fits(list, bounds, q, prev) ==
    /\ prev = ListHead \/ prev \in ToSet(list)
    /\ \A j \in 1 .. Len(list) : IF j < Place(list, prev) THEN bounds[list[j]].pgstart > q.pgend
                                  ELSE bounds[list[j]].pgend < q.pgstart

Walking == holder.op = "walk"
Allocating == holder.op \in {"pin", "unpin"}

HolderOK ==
    /\ holder.op \in {"none", "mmap", "pin", "walk", "unpin", "stuck"}
    /\ holder.op = "none" => holder = Nobody
    /\ holder.op = "mmap" => /\ holder \in [op : {"mmap"}, area : Areas, size : Nat]
                             /\ holder.size \in Sizes[holder.area]
                             /\ holder.area \in open
                             /\ file[holder.area] = 0
    /\ Walking => holder \in [op : {"walk"}, area : Areas, q : Request, purged : BOOLEAN]
    /\ Allocating => /\ holder.area \in Areas /\ holder.q \in Request
                     /\ holder.purged \in BOOLEAN
                     /\ Within(holder.area, holder.to)
                     /\ Fits(unpinned_list[holder.area], range_shrink(holder.to), holder.q,
                             holder.prev_range)
    /\ Walking \/ Allocating => /\ file[holder.area] # 0
                                /\ holder.q.pgend >= holder.q.pgstart - 1

\* The bounds of the ranges once the allocation under way is over.
Bounds == IF Allocating THEN range_shrink(holder.to) ELSE range
ListedIn(a, p) == \E x \in ToSet(unpinned_list[a]) : p \in PagesOf(Bounds[x])
PurgedIn(a, p) == \E x \in ToSet(unpinned_list[a]) : Bounds[x].purged /\ p \in PagesOf(Bounds[x])
Pending(a, p) == (Walking \/ Allocating) /\ holder.area = a /\ p \in PagesOf(holder.q)

\* The pages of the lists, with those that are about to be there, are the
\* unpinned ones but for the forgotten ones.
PagesOK ==
    holder.op # "stuck" => \A a \in Areas, p \in Int :
        /\ ListedIn(a, p) \/ Pending(a, p) => p \in unpinned[a]
        /\ p \in unpinned[a] => ListedIn(a, p) \/ Pending(a, p) \/ p \in forgotten[a]

\* A purged page is in a range marked so; a walk that has taken that range out
\* carries the mark, and no other range has the page.
PurgedOK ==
    holder.op # "stuck" => \A a \in Areas : \A p \in gone[a] \ forgotten[a] :
        \/ PurgedIn(a, p)
        \/ Pending(a, p) /\ holder.purged /\ (Walking => ~ ListedIn(a, p))

HistoryOK ==
    /\ unpinned \in [Areas -> SUBSET Int]
    /\ gone \in [Areas -> SUBSET Int] /\ forgotten \in [Areas -> SUBSET Int]
    /\ \A a \in Areas : gone[a] \subseteq unpinned[a] /\ forgotten[a] \subseteq unpinned[a]

AshmemInv == RangesOK /\ ListsOK /\ LruOK /\ AreasOK /\ HolderOK /\ PagesOK /\ PurgedOK /\ HistoryOK

----------------------------------------------------------------------------
(* What the invariant says of the ranges of an area. *)

\* A range in a list is in use, of that area.
LEMMA ListedRange ==
    ASSUME RangesOK, ListsOK, NEW a \in Areas, NEW x \in ToSet(unpinned_list[a])
    PROVE  /\ x \in Ranges /\ InUse(x) /\ range[x] \in RangeEntry /\ range[x].asma = a
           /\ range[x].pgstart \in Nat /\ range[x].pgend \in Int
           /\ range[x].pgend >= range[x].pgstart - 1
<1>1. x \in Ranges /\ InUse(x) /\ range[x].asma = a
  BY DEF ListsOK
<1>2. range[x] \in RangeEntry
  BY <1>1 DEF RangesOK, InUse
<1>. QED
  BY <1>1, <1>2 DEF RangesOK, RangeEntry

LEMMA ListedAt ==
    ASSUME ListsOK, NEW a \in Areas
    PROVE  /\ Len(unpinned_list[a]) \in Nat
           /\ DOMAIN unpinned_list[a] = 1 .. Len(unpinned_list[a])
           /\ \A i \in 1 .. Len(unpinned_list[a]) : unpinned_list[a][i] \in ToSet(unpinned_list[a])
           /\ \A x \in ToSet(unpinned_list[a]) :
                 \E i \in 1 .. Len(unpinned_list[a]) : x = unpinned_list[a][i]
<1>1. unpinned_list[a] \in Seq(Ranges)
  BY DEF ListsOK
<1>. QED
  BY <1>1 DEF ToSet

\* Two of them have no page in common.
LEMMA Apart ==
    ASSUME RangesOK, ListsOK, NEW a \in Areas,
           NEW x \in ToSet(unpinned_list[a]), NEW y \in ToSet(unpinned_list[a]), x # y
    PROVE  range[x].pgend < range[y].pgstart \/ range[y].pgend < range[x].pgstart
<1>1. PICK i \in 1 .. Len(unpinned_list[a]) : x = unpinned_list[a][i]
  BY ListedAt
<1>2. PICK j \in 1 .. Len(unpinned_list[a]) : y = unpinned_list[a][j]
  BY ListedAt
<1>3. i < j \/ j < i
  BY <1>1, <1>2, ListedAt
<1>. QED
  BY <1>1, <1>2, <1>3 DEF ListsOK, Descending

\* A walk sees each range that is not before the pages asked for.
LEMMA VisitedIs ==
    ASSUME RangesOK, ListsOK, NEW a \in Areas, NEW q, q.pgstart \in Int
    PROVE  Visited(a, q) = {x \in ToSet(unpinned_list[a]) : range[x].pgend >= q.pgstart}
<1>. DEFINE list == unpinned_list[a]
<1>1. ASSUME NEW x \in Visited(a, q)
      PROVE  x \in ToSet(list) /\ range[x].pgend >= q.pgstart
  <2>1. PICK i \in 1 .. Len(list) :
            x = list[i] /\ \A j \in 1 .. i : ~ range_before_page(range[list[j]], q.pgstart)
    BY <1>1 DEF Visited
  <2>2. x \in ToSet(list)
    BY <2>1, ListedAt
  <2>3. ~ range_before_page(range[x], q.pgstart)
    <3>1. i \in 1 .. i
      BY ListedAt
    <3>. QED
      BY <2>1, <3>1
  <2>. QED
    BY <2>2, <2>3, ListedRange DEF range_before_page
<1>2. ASSUME NEW x \in ToSet(list), range[x].pgend >= q.pgstart
      PROVE  x \in Visited(a, q)
  <2>1. PICK i \in 1 .. Len(list) : x = list[i]
    BY <1>2, ListedAt
  <2>2. ASSUME NEW j \in 1 .. i PROVE ~ range_before_page(range[list[j]], q.pgstart)
    <3>1. i \in Nat /\ j \in 1 .. Len(list)
      BY ListedAt
    <3>2. list[j] \in ToSet(list)
      BY <3>1, ListedAt
    <3>3. /\ range[x].pgend \in Int /\ range[list[j]].pgend \in Int /\ range[list[j]].pgstart \in Int
          /\ range[list[j]].pgend >= range[list[j]].pgstart - 1
      BY <3>2, ListedRange
    <3>4. CASE j = i
      BY <3>4, <2>1, <1>2, <3>3 DEF range_before_page
    <3>5. CASE j < i
      <4>1. range[x].pgend < range[list[j]].pgstart
        BY <3>5, <3>1, <2>1 DEF ListsOK, Descending
      <4>. QED
        BY <4>1, <3>3, <1>2 DEF range_before_page
    <3>. QED
      BY <3>1, <3>4, <3>5
  <2>. QED
    BY <2>1, <2>2 DEF Visited
<1>. QED
  BY <1>1, <1>2

LEMMA HitIs ==
    ASSUME RangesOK, ListsOK, NEW a \in Areas, NEW q, q.pgstart \in Int, NEW x
    PROVE  x \in Hit(a, q) <=> /\ x \in ToSet(unpinned_list[a])
                               /\ range[x].pgend >= q.pgstart
                               /\ page_range_in_range(range[x], q)
BY VisitedIs DEF Hit

\* So it misses no range with a page asked for.
LEMMA OverlapHit ==
    ASSUME RangesOK, ListsOK, NEW a \in Areas, NEW q, q.pgstart \in Int, q.pgend \in Int,
           NEW x \in ToSet(unpinned_list[a]), NEW p \in Int,
           p \in PagesOf(range[x]), p \in PagesOf(q)
    PROVE  x \in Hit(a, q)
<1>1. range[x].pgstart \in Int /\ range[x].pgend \in Int
  BY ListedRange
<1>2. /\ range[x].pgstart <= p /\ p <= range[x].pgend
      /\ q.pgstart <= p /\ p <= q.pgend
  BY <1>1 DEF PagesOf
<1>3. range[x].pgend >= q.pgstart /\ page_range_in_range(range[x], q)
  BY <1>1, <1>2 DEF page_range_in_range, page_in_range, page_range_subsumes_range
<1>. QED
  BY <1>3, HitIs

\* A request that ashmem_pin_unpin lets through.
LEMMA RequestIs ==
    ASSUME AreasOK, NEW a \in Areas, NEW q \in Requests(a)
    PROVE  q \in Request /\ q.pgend >= q.pgstart - 1
<1>1. PICK o \in Offsets, n \in Lengths :
          /\ q = Interval(o, PageBefore(o + Length(a, o, n)))
          /\ Length(a, o, n) >= 0
  BY DEF Requests
<1>2. o \in Nat /\ n \in Nat /\ size[a] \in Nat /\ MaxPage \in Nat
  BY AshmemAssumption DEF AreasOK
<1>3. Length(a, o, n) \in Int
  BY <1>2 DEF Length
<1>4. PageBefore(o + Length(a, o, n)) \in Int /\ PageBefore(o + Length(a, o, n)) >= o - 1
  BY <1>1, <1>2, <1>3 DEF PageBefore
<1>. QED
  BY <1>1, <1>2, <1>4 DEF Interval, Request

----------------------------------------------------------------------------
(* range_shrink and range_del. *)

\* range_shrink changes the bounds of a range and nothing else.
LEMMA ShrinkIs ==
    ASSUME RangesOK, ListsOK, NEW a \in Areas, NEW to, Within(a, to), NEW x \in Ranges
    PROVE  /\ x \notin DOMAIN to => range_shrink(to)[x] = range[x]
           /\ x \in DOMAIN to => /\ range_shrink(to)[x] \in RangeEntry
                                 /\ range_shrink(to)[x].asma = range[x].asma
                                 /\ range_shrink(to)[x].purged = range[x].purged
                                 /\ range_shrink(to)[x].pgstart = to[x].pgstart
                                 /\ range_shrink(to)[x].pgend = to[x].pgend
<1>1. CASE x \in DOMAIN to
  <2>1. x \in ToSet(unpinned_list[a]) /\ to[x].pgstart \in Nat /\ to[x].pgend \in Int
    BY <1>1 DEF Within, Request
  <2>2. range[x] \in RangeEntry
    BY <2>1, ListedRange
  <2>3. range_shrink(to)[x] = [range[x] EXCEPT !.pgstart = to[x].pgstart, !.pgend = to[x].pgend]
    BY <1>1 DEF range_shrink
  <2>. QED
    BY <2>1, <2>2, <2>3, <1>1 DEF RangeEntry
<1>2. CASE x \notin DOMAIN to
  BY <1>2 DEF range_shrink
<1>. QED
  BY <1>1, <1>2

LEMMA FreeIsNoEntry == Free \notin RangeEntry
BY DEF Free, RangeEntry

\* A range that was in use still is, and has some of its pages left or none.
LEMMA ShrinkInUse ==
    ASSUME RangesOK, ListsOK, NEW a \in Areas, NEW to, Within(a, to), NEW x \in Ranges
    PROVE  /\ InUse(x) <=> range_shrink(to)[x] # Free
           /\ InUse(x) => /\ range_shrink(to)[x] \in RangeEntry
                          /\ range_shrink(to)[x].asma = range[x].asma
                          /\ range_shrink(to)[x].purged = range[x].purged
                          /\ range_shrink(to)[x].pgstart \in Nat
                          /\ range_shrink(to)[x].pgend \in Int
                          /\ range_shrink(to)[x].pgstart >= range[x].pgstart
                          /\ range_shrink(to)[x].pgend <= range[x].pgend
                          /\ range_shrink(to)[x].pgend >= range_shrink(to)[x].pgstart - 1
<1>1. CASE x \in DOMAIN to
  <2>1. /\ x \in ToSet(unpinned_list[a]) /\ to[x].pgstart \in Nat /\ to[x].pgend \in Int
        /\ to[x].pgstart >= range[x].pgstart
        /\ to[x].pgend <= range[x].pgend
        /\ to[x].pgend >= to[x].pgstart - 1
    BY <1>1 DEF Within, Request
  <2>2. InUse(x) /\ range[x].pgstart \in Nat /\ range[x].pgend \in Int
    BY <2>1, ListedRange
  <2>3. /\ range_shrink(to)[x] \in RangeEntry
        /\ range_shrink(to)[x].asma = range[x].asma
        /\ range_shrink(to)[x].purged = range[x].purged
        /\ range_shrink(to)[x].pgstart = to[x].pgstart
        /\ range_shrink(to)[x].pgend = to[x].pgend
    BY <1>1, ShrinkIs
  <2>. QED
    BY <2>1, <2>2, <2>3, FreeIsNoEntry
<1>2. CASE x \notin DOMAIN to
  <2>1. range_shrink(to)[x] = range[x]
    BY <1>2, ShrinkIs
  <2>2. InUse(x) => /\ range[x] \in RangeEntry
                    /\ range[x].pgstart \in Nat /\ range[x].pgend \in Int
                    /\ range[x].pgend >= range[x].pgstart - 1
    BY DEF RangesOK, InUse, RangeEntry
  <2>. QED
    BY <2>1, <2>2 DEF InUse
<1>. QED
  BY <1>1, <1>2

\* So the order in the lists stays.
LEMMA ShrinkDescending ==
    ASSUME RangesOK, ListsOK, NEW a \in Areas, NEW to, Within(a, to), NEW b \in Areas
    PROVE  Descending(unpinned_list[b], range_shrink(to))
<1>. DEFINE list == unpinned_list[b]
<1>. SUFFICES ASSUME NEW i \in 1 .. Len(list), NEW j \in 1 .. Len(list), i < j
              PROVE  range_shrink(to)[list[j]].pgend < range_shrink(to)[list[i]].pgstart
  BY DEF Descending
<1>1. list[i] \in ToSet(list) /\ list[j] \in ToSet(list)
  BY ListedAt
<1>2. /\ list[i] \in Ranges /\ InUse(list[i]) /\ range[list[i]].pgstart \in Nat
      /\ list[j] \in Ranges /\ InUse(list[j]) /\ range[list[j]].pgend \in Int
  BY <1>1, ListedRange
<1>3. range[list[j]].pgend < range[list[i]].pgstart
  BY DEF ListsOK, Descending
<1>4. /\ range_shrink(to)[list[j]].pgend <= range[list[j]].pgend
      /\ range_shrink(to)[list[j]].pgend \in Int
  BY <1>2, ShrinkInUse
<1>5. /\ range_shrink(to)[list[i]].pgstart >= range[list[i]].pgstart
      /\ range_shrink(to)[list[i]].pgstart \in Nat
  BY <1>2, ShrinkInUse
<1>. QED
  BY <1>2, <1>3, <1>4, <1>5

\* The ranges with those of s freed and others shrunk.
Freed(s, to) == [x \in Ranges |-> IF x \in s THEN Free ELSE range_shrink(to)[x]]

LEMMA FreedInUse ==
    ASSUME RangesOK, ListsOK, NEW a \in Areas, NEW to, Within(a, to), NEW s, NEW x \in Ranges,
           range' = Freed(s, to)
    PROVE  /\ x \in s => range'[x] = Free
           /\ x \notin s => range'[x] = range_shrink(to)[x]
           /\ InUse(x)' <=> InUse(x) /\ x \notin s
           /\ InUse(x)' => /\ range'[x] \in RangeEntry
                           /\ range'[x].asma = range[x].asma
                           /\ range'[x].purged = range[x].purged
                           /\ range'[x].pgend >= range'[x].pgstart - 1
<1>1. range'[x] = IF x \in s THEN Free ELSE range_shrink(to)[x]
  BY DEF Freed
<1>. QED
  BY <1>1, ShrinkInUse DEF InUse

LEMMA FreedRangesOK ==
    ASSUME RangesOK, ListsOK, NEW a \in Areas, NEW to, Within(a, to), NEW s,
           range' = Freed(s, to)
    PROVE  RangesOK'
<1>1. \A x \in Ranges : range'[x] \in RangeEntry \cup {Free}
  BY FreedInUse DEF InUse
<1>2. range' = [x \in Ranges |-> range'[x]]
  BY DEF Freed
<1>3. range' \in [Ranges -> RangeEntry \cup {Free}]
  BY <1>1, <1>2
<1>4. \A x \in Ranges : InUse(x)' => range'[x].pgend >= range'[x].pgstart - 1
  BY FreedInUse
<1>. QED
  BY <1>3, <1>4 DEF RangesOK

\* A part of a list in order is in order.
LEMMA PartDescending ==
    ASSUME NEW part, NEW list, NEW bounds, InOrder(part, list), Descending(list, bounds)
    PROVE  Descending(part, bounds)
BY DEF InOrder, Descending

LEMMA FreedListsOK ==
    ASSUME RangesOK, ListsOK, NEW a \in Areas, NEW to, Within(a, to),
           NEW s, s \subseteq ToSet(unpinned_list[a]),
           range' = Freed(s, to),
           unpinned_list' = [unpinned_list EXCEPT ![a] = Without(@, s)]
    PROVE  ListsOK'
<1>1. \A b \in Areas : unpinned_list[b] \in Seq(Ranges)
  BY DEF ListsOK
<1>2. /\ Without(unpinned_list[a], s) \in Seq(Ranges)
      /\ ToSet(Without(unpinned_list[a], s)) = ToSet(unpinned_list[a]) \ s
      /\ InOrder(Without(unpinned_list[a], s), unpinned_list[a])
      /\ IsInjective(Without(unpinned_list[a], s))
  BY <1>1, WithoutIs DEF ListsOK
<1>3. unpinned_list'[a] = Without(unpinned_list[a], s)
  BY DEF ListsOK
<1>4. \A b \in Areas \ {a} : unpinned_list'[b] = unpinned_list[b]
  BY DEF ListsOK
<1>5. unpinned_list' \in [Areas -> Seq(Ranges)]
  BY <1>1, <1>2 DEF ListsOK
<1>6. ASSUME NEW b \in Areas
      PROVE  /\ ToSet(unpinned_list'[b]) = ToSet(unpinned_list[b]) \ s
             /\ IsInjective(unpinned_list'[b])
             /\ InOrder(unpinned_list'[b], unpinned_list[b])
  <2>1. CASE b = a
    BY <2>1, <1>2, <1>3
  <2>2. CASE b # a
    <3>1. ToSet(unpinned_list[b]) \cap s = {}
      BY <2>2 DEF ListsOK
    <3>2. InOrder(unpinned_list[b], unpinned_list[b])
      BY DEF InOrder
    <3>. QED
      BY <2>2, <3>1, <3>2, <1>4 DEF ListsOK
  <2>. QED
    BY <2>1, <2>2
<1>7. ASSUME NEW b \in Areas
      PROVE  ToSet(unpinned_list'[b]) = {x \in Ranges : InUse(x)' /\ range'[x].asma = b}
  <2>1. ToSet(unpinned_list[b]) = {x \in Ranges : InUse(x) /\ range[x].asma = b}
    BY DEF ListsOK
  <2>2. \A x \in Ranges : /\ InUse(x)' <=> InUse(x) /\ x \notin s
                          /\ InUse(x)' => range'[x].asma = range[x].asma
    BY FreedInUse
  <2>. QED
    BY <1>6, <2>1, <2>2
<1>8. ASSUME NEW b \in Areas PROVE Descending(unpinned_list'[b], range')
  <2>1. Descending(unpinned_list'[b], range_shrink(to))
    BY <1>6, ShrinkDescending, PartDescending
  <2>2. ASSUME NEW i \in 1 .. Len(unpinned_list'[b])
        PROVE  range'[unpinned_list'[b][i]] = range_shrink(to)[unpinned_list'[b][i]]
    <3>1. unpinned_list'[b][i] \in ToSet(unpinned_list'[b])
      BY <1>5 DEF ToSet
    <3>2. unpinned_list'[b][i] \in Ranges /\ unpinned_list'[b][i] \notin s
      BY <3>1, <1>6, <1>7
    <3>. QED
      BY <3>2 DEF Freed
  <2>. QED
    BY <2>1, <2>2 DEF Descending
<1>. QED
  BY <1>5, <1>6, <1>7, <1>8 DEF ListsOK

\* The ranges on the LRU list are those in use and not purged, so lru_count is
\* the number of their pages.
LEMMA LruRange ==
    ASSUME RangesOK, LruOK, NEW x \in ToSet(lru)
    PROVE  /\ x \in Ranges /\ InUse(x) /\ range_on_lru(range[x])
           /\ range[x].pgstart \in Int /\ range[x].pgend \in Int
<1>1. x \in Ranges /\ InUse(x) /\ range_on_lru(range[x])
  BY DEF LruOK
<1>2. range[x] \in RangeEntry
  BY <1>1 DEF RangesOK, InUse
<1>. QED
  BY <1>1, <1>2 DEF RangeEntry

LEMMA CountedPages ==
    ASSUME RangesOK, LruOK, NEW s, NEW bounds, \A x \in s : x \in Ranges /\ InUse(x)
    PROVE  OnLru(s, bounds) = PagePairs(s \cap ToSet(lru), bounds)
<1>1. {y \in s : range_on_lru(range[y])} = s \cap ToSet(lru)
  BY DEF LruOK
<1>. QED
  BY <1>1 DEF OnLru, PagePairs

LEMMA CountIsNatural ==
    ASSUME RangesOK, LruOK
    PROVE  lru_count = Cardinality(PagePairs(ToSet(lru), range)) /\ lru_count \in Nat
<1>. DEFINE L == ToSet(lru)
<1>1. Bounded(L, range) /\ IsFiniteSet(L)
  BY LruRange, ListFinite DEF Bounded, LruOK
<1>2. \A y \in L : y \in Ranges /\ InUse(y)
  BY LruRange
<1>3. PagesOnLru(L) = Cardinality(PagePairs(L \cap L, range))
  BY <1>2, CountedPages DEF PagesOnLru
<1>4. L \cap L = L
  OBVIOUS
<1>5. lru_count = Cardinality(PagePairs(L, range))
  BY <1>3, <1>4 DEF LruOK
<1>. QED
  BY <1>5, <1>1, PagePairsFinite

LEMMA NoPages == PagesOnLru({}) = 0
<1>1. OnLru({}, range) = {}
  BY DEF OnLru
<1>. QED
  BY <1>1, FS_EmptySet DEF PagesOnLru

\* What range_del and range_shrink take off lru_count leaves the pages of the
\* ranges that are left, within their new bounds.
LEMMA CountFreed ==
    ASSUME RangesOK, ListsOK, LruOK, NEW a \in Areas, NEW to, Within(a, to),
           NEW s, s \subseteq ToSet(unpinned_list[a]), s \cap DOMAIN to = {}
    PROVE  Cardinality(PagePairs(ToSet(lru) \ s, range_shrink(to)))
               = lru_count - PagesOnLru(s) - ShrunkBy(to)
<1>. DEFINE L == ToSet(lru)
            D == DOMAIN to
            S1 == s \cap L
            D1 == D \cap L
            R1 == L \ (s \cup D)
            N(u, b) == Cardinality(PagePairs(u, b))
<1>1. IsFiniteSet(L)
  BY ListFinite DEF LruOK
<1>2. IsFiniteSet(S1) /\ IsFiniteSet(D1) /\ IsFiniteSet(R1) /\ IsFiniteSet(D1 \cup R1)
  <2>1. S1 \subseteq L /\ D1 \subseteq L /\ R1 \subseteq L /\ D1 \cup R1 \subseteq L
    OBVIOUS
  <2>. QED
    BY <2>1, <1>1, FS_Subset
<1>3. L = S1 \cup (D1 \cup R1) /\ S1 \cap (D1 \cup R1) = {} /\ D1 \cap R1 = {} /\ L \ s = D1 \cup R1
  OBVIOUS
<1>4. Bounded(L, range)
  BY LruRange DEF Bounded
<1>5. Bounded(S1, range) /\ Bounded(D1, range) /\ Bounded(R1, range) /\ Bounded(D1 \cup R1, range)
  BY <1>4 DEF Bounded
<1>6. \A x \in L : range_shrink(to)[x].pgstart \in Int /\ range_shrink(to)[x].pgend \in Int
  BY LruRange, ShrinkInUse
<1>7. Bounded(D1, range_shrink(to)) /\ Bounded(R1, range_shrink(to))
  BY <1>6 DEF Bounded
<1>8. N(L, range) = N(S1, range) + (N(D1, range) + N(R1, range))
  <2>1. N(S1 \cup (D1 \cup R1), range) = N(S1, range) + N(D1 \cup R1, range)
    BY <1>2, <1>3, <1>5, PagePairsUnion
  <2>2. N(D1 \cup R1, range) = N(D1, range) + N(R1, range)
    BY <1>2, <1>3, <1>5, PagePairsUnion
  <2>3. N(L, range) = N(S1 \cup (D1 \cup R1), range)
    BY <1>3
  <2>. QED
    BY <2>1, <2>2, <2>3
<1>9. N(L \ s, range_shrink(to)) = N(D1, to) + N(R1, range)
  <2>1. N(D1 \cup R1, range_shrink(to)) = N(D1, range_shrink(to)) + N(R1, range_shrink(to))
    BY <1>2, <1>3, <1>7, PagePairsUnion
  <2>2. PagePairs(D1, range_shrink(to)) = PagePairs(D1, to)
    <3>1. \A x \in D1 : /\ range_shrink(to)[x].pgstart = to[x].pgstart
                       /\ range_shrink(to)[x].pgend = to[x].pgend
      BY LruRange, ShrinkIs
    <3>. QED
      BY <3>1, PagePairsSame
  <2>3. PagePairs(R1, range_shrink(to)) = PagePairs(R1, range)
    <3>1. \A x \in R1 : /\ range_shrink(to)[x].pgstart = range[x].pgstart
                       /\ range_shrink(to)[x].pgend = range[x].pgend
      BY LruRange, ShrinkIs
    <3>. QED
      BY <3>1, PagePairsSame
  <2>4. L \ s = D1 \cup R1
    BY <1>3
  <2>. QED
    BY <2>1, <2>2, <2>3, <2>4
<1>10. PagesOnLru(L) = N(L, range) /\ PagesOnLru(s) = N(S1, range)
  <2>1. \A x \in L : x \in Ranges /\ InUse(x)
    BY LruRange
  <2>2. \A x \in s : x \in Ranges /\ InUse(x)
    BY ListedRange
  <2>3. OnLru(L, range) = PagePairs(L \cap L, range) /\ OnLru(s, range) = PagePairs(S1, range)
    BY <2>1, <2>2, CountedPages
  <2>4. L \cap L = L
    OBVIOUS
  <2>. QED
    BY <2>3, <2>4 DEF PagesOnLru
<1>11. ShrunkBy(to) = N(D1, range) - N(D1, to)
  <2>1. \A x \in D : x \in Ranges /\ InUse(x)
    BY ListedRange DEF Within
  <2>2. OnLru(D, range) = PagePairs(D1, range) /\ OnLru(D, to) = PagePairs(D1, to)
    BY <2>1, CountedPages
  <2>. QED
    BY <2>2 DEF ShrunkBy, PagesOnLru
<1>12. /\ N(S1, range) \in Int /\ N(D1, range) \in Int /\ N(R1, range) \in Int /\ N(D1, to) \in Int
  <2>1. Bounded(D1, to)
    BY <1>6, LruRange, ShrinkIs DEF Bounded
  <2>. QED
    BY <2>1, <1>2, <1>5, PagePairsFinite
<1>13. lru_count = N(L, range)
  BY <1>10 DEF LruOK
<1>. HIDE DEF L, D, S1, D1, R1, N
<1>14. N(L \ s, range_shrink(to)) = lru_count - PagesOnLru(s) - ShrunkBy(to)
  BY <1>8, <1>9, <1>10, <1>11, <1>12, <1>13
<1>. QED
  BY <1>14 DEF N, L

LEMMA FreedLruOK ==
    ASSUME RangesOK, ListsOK, LruOK, NEW a \in Areas, NEW to, Within(a, to),
           NEW s, s \subseteq ToSet(unpinned_list[a]), s \cap DOMAIN to = {},
           range' = Freed(s, to),
           lru' \in Seq(Ranges), IsInjective(lru'), ToSet(lru') = ToSet(lru) \ s,
           lru_count' = lru_count - PagesOnLru(s) - ShrunkBy(to)
    PROVE  LruOK'
<1>1. \A x \in Ranges : /\ InUse(x)' <=> InUse(x) /\ x \notin s
                        /\ InUse(x)' => range'[x].purged = range[x].purged
                        /\ x \notin s => range'[x] = range_shrink(to)[x]
  BY FreedInUse
<1>2. ToSet(lru') = {x \in Ranges : InUse(x)' /\ range_on_lru(range'[x])}
  BY <1>1 DEF LruOK, range_on_lru
<1>3. PagesOnLru(ToSet(lru))' = Cardinality(PagePairs(ToSet(lru'), range'))
  <2>1. {y \in ToSet(lru') : range_on_lru(range'[y])} = ToSet(lru')
    BY <1>2
  <2>. QED
    BY <2>1 DEF PagesOnLru, OnLru, PagePairs
<1>4. PagePairs(ToSet(lru'), range') = PagePairs(ToSet(lru) \ s, range_shrink(to))
  <2>1. \A x \in ToSet(lru') : /\ range'[x].pgstart = range_shrink(to)[x].pgstart
                               /\ range'[x].pgend = range_shrink(to)[x].pgend
    BY <1>1, <1>2
  <2>2. PagePairs(ToSet(lru'), range') = PagePairs(ToSet(lru'), range_shrink(to))
    BY <2>1, PagePairsSame
  <2>. QED
    BY <2>2
<1>5. lru_count' = PagesOnLru(ToSet(lru))'
  BY <1>3, <1>4, CountFreed
<1>. QED
  BY <1>2, <1>5 DEF LruOK

LEMMA DeleteAndShrinkOK ==
    ASSUME RangesOK, ListsOK, LruOK, NEW a \in Areas, NEW to, Within(a, to),
           NEW s, s \subseteq ToSet(unpinned_list[a]), s \cap DOMAIN to = {},
           DeleteAndShrink(a, s, to)
    PROVE  /\ RangesOK' /\ ListsOK' /\ LruOK'
           /\ range' = Freed(s, to)
           /\ ToSet(unpinned_list'[a]) = ToSet(unpinned_list[a]) \ s
           /\ \A b \in Areas \ {a} : unpinned_list'[b] = unpinned_list[b]
<1>1. range' = Freed(s, to)
  BY DEF DeleteAndShrink, Freed
<1>2. RangesOK'
  BY <1>1, FreedRangesOK
<1>3. unpinned_list' = [unpinned_list EXCEPT ![a] = Without(@, s)]
  BY DEF DeleteAndShrink
<1>4. ListsOK'
  BY <1>1, <1>3, FreedListsOK
<1>5. lru' \in Seq(Ranges) /\ IsInjective(lru') /\ ToSet(lru') = ToSet(lru) \ s
  BY WithoutIs DEF LruOK, DeleteAndShrink
<1>6. lru_count' = lru_count - PagesOnLru(s) - ShrunkBy(to)
  BY DEF DeleteAndShrink
<1>7. LruOK'
  BY <1>1, <1>5, <1>6, FreedLruOK
<1>8. unpinned_list[a] \in Seq(Ranges)
  BY DEF ListsOK
<1>9. unpinned_list'[a] = Without(unpinned_list[a], s)
  BY <1>3 DEF ListsOK
<1>10. ToSet(unpinned_list'[a]) = ToSet(unpinned_list[a]) \ s
  BY <1>8, <1>9, WithoutIs
<1>11. \A b \in Areas \ {a} : unpinned_list'[b] = unpinned_list[b]
  BY <1>3 DEF ListsOK
<1>. QED
  BY <1>1, <1>2, <1>4, <1>7, <1>10, <1>11

----------------------------------------------------------------------------
(* range_alloc. *)

\* A range put where its pages fit keeps the list in order.
LEMMA InsertDescending ==
    ASSUME NEW list \in Seq(Ranges), NEW x \in Ranges, NEW q, NEW prev,
           NEW old, NEW new, Fits(list, old, q, prev), Descending(list, old),
           new[x].pgstart = q.pgstart, new[x].pgend = q.pgend,
           \A y \in ToSet(list) : new[y] = old[y]
    PROVE  Descending(InsertBefore(list, x, prev), new)
<1>. DEFINE k == Place(list, prev)
            longer == InsertBefore(list, x, prev)
<1>1. prev = ListHead \/ prev \in ToSet(list)
  BY DEF Fits
<1>2. /\ k \in 1 .. Len(list) + 1
      /\ Len(longer) = Len(list) + 1
      /\ \A i \in 1 .. Len(list) + 1 :
            longer[i] = IF i < k THEN list[i] ELSE IF i = k THEN x ELSE list[i - 1]
  BY <1>1, InsertBeforeIs
<1>3. \A j \in 1 .. Len(list) : IF j < k THEN old[list[j]].pgstart > q.pgend
                                ELSE old[list[j]].pgend < q.pgstart
  BY DEF Fits
<1>4. Len(list) \in Nat /\ \A i \in 1 .. Len(list) : new[list[i]] = old[list[i]]
  BY DEF ToSet
<1>. HIDE DEF k, longer
<1>5. ASSUME NEW i \in 1 .. Len(list) + 1, NEW j \in 1 .. Len(list) + 1, i < j
      PROVE  new[longer[j]].pgend < new[longer[i]].pgstart
  <2>1. CASE i < k /\ j < k
    <3>1. longer[i] = list[i] /\ longer[j] = list[j] /\ i \in 1 .. Len(list) /\ j \in 1 .. Len(list)
      BY <2>1, <1>2, <1>4
    <3>. QED
      BY <3>1, <1>4, <1>5 DEF Descending
  <2>2. CASE i < k /\ j = k
    <3>1. longer[i] = list[i] /\ longer[j] = x /\ i \in 1 .. Len(list)
      BY <2>2, <1>2, <1>4
    <3>2. old[list[i]].pgstart > q.pgend
      BY <3>1, <2>2, <1>3
    <3>. QED
      BY <3>1, <3>2, <1>4
  <2>3. CASE i < k /\ k < j
    <3>1. longer[i] = list[i] /\ longer[j] = list[j - 1] /\ i \in 1 .. Len(list) /\ j - 1 \in 1 .. Len(list) /\ i < j - 1
      BY <2>3, <1>2, <1>4
    <3>. QED
      BY <3>1, <1>4 DEF Descending
  <2>4. CASE i = k /\ k < j
    <3>1. longer[i] = x /\ longer[j] = list[j - 1] /\ j - 1 \in 1 .. Len(list) /\ ~ (j - 1 < k)
      BY <2>4, <1>2, <1>4
    <3>2. old[list[j - 1]].pgend < q.pgstart
      BY <3>1, <1>3
    <3>. QED
      BY <3>1, <3>2, <1>4
  <2>5. CASE k < i
    <3>1. longer[i] = list[i - 1] /\ longer[j] = list[j - 1] /\ i - 1 \in 1 .. Len(list) /\ j - 1 \in 1 .. Len(list) /\ i - 1 < j - 1
      BY <2>5, <1>5, <1>2, <1>4
    <3>. QED
      BY <3>1, <1>4 DEF Descending
  <2>. QED
    BY <2>1, <2>2, <2>3, <2>4, <2>5, <1>2, <1>4, <1>5
<1>. QED
  BY <1>2, <1>5 DEF Descending, longer

\* A range from the slab is nobody's.
LEMMA FreeIsNowhere ==
    ASSUME RangesOK, ListsOK, LruOK, NEW x \in Ranges, range[x] = Free
    PROVE  x \notin ToSet(lru) /\ \A a \in Areas : x \notin ToSet(unpinned_list[a])
BY DEF ListsOK, LruOK, InUse

\* The state after range_alloc, and the range_shrink that follows.
LEMMA AllocatedIs ==
    ASSUME RangesOK, ListsOK, LruOK, HolderOK, NEW x \in Ranges, AllocSucceeds(x)
    PROVE  /\ holder.area \in Areas /\ Within(holder.area, holder.to) /\ Allocating
           /\ ~ InUse(x) /\ InUse(x)' /\ range'[x] \in RangeEntry
           /\ range'[x].asma = holder.area /\ range'[x].purged = holder.purged
           /\ range'[x].pgstart = holder.q.pgstart /\ range'[x].pgend = holder.q.pgend
           /\ range'[x].pgend >= range'[x].pgstart - 1
           /\ \A y \in Ranges : y # x => range'[y] = range_shrink(holder.to)[y]
           /\ range' \in [Ranges -> RangeEntry \cup {Free}]
<1>1. Allocating
  BY DEF AllocSucceeds, Allocating
<1>2. /\ holder.area \in Areas /\ holder.q \in Request /\ holder.purged \in BOOLEAN
      /\ Within(holder.area, holder.to) /\ holder.q.pgend >= holder.q.pgstart - 1
  BY <1>1 DEF HolderOK
<1>3. holder.q.pgstart \in Nat /\ holder.q.pgend \in Int
  BY <1>2 DEF Request
<1>. DEFINE new == [asma |-> holder.area, pgstart |-> holder.q.pgstart,
                    pgend |-> holder.q.pgend, purged |-> holder.purged]
<1>4. new \in RangeEntry
  BY <1>2, <1>3 DEF RangeEntry
<1>5. range' = [range_shrink(holder.to) EXCEPT ![x] = new] /\ range[x] = Free
  BY DEF AllocSucceeds
<1>6. DOMAIN range_shrink(holder.to) = Ranges
  BY DEF range_shrink
<1>7. range'[x] = new /\ \A y \in Ranges : y # x => range'[y] = range_shrink(holder.to)[y]
  BY <1>5, <1>6 DEF range_shrink
<1>8. \A y \in Ranges : range'[y] \in RangeEntry \cup {Free}
  <2>. TAKE y \in Ranges
  <2>1. CASE y = x
    BY <2>1, <1>7, <1>4
  <2>2. CASE y # x
    BY <2>2, <1>7, <1>2, ShrinkInUse
  <2>. QED
    BY <2>1, <2>2
<1>9. range' \in [Ranges -> RangeEntry \cup {Free}]
  BY <1>5, <1>6, <1>8 DEF range_shrink
<1>10. ~ InUse(x) /\ InUse(x)'
  BY <1>4, <1>5, <1>7, FreeIsNoEntry DEF InUse
<1>. QED
  BY <1>1, <1>2, <1>4, <1>7, <1>9, <1>10

LEMMA AllocSucceedsOK ==
    ASSUME RangesOK, ListsOK, LruOK, HolderOK, NEW x \in Ranges, AllocSucceeds(x)
    PROVE  RangesOK' /\ ListsOK' /\ LruOK'
<1>. DEFINE rs == range_shrink(holder.to)
            a == holder.area
<1>1. /\ a \in Areas /\ Within(a, holder.to) /\ Allocating
      /\ ~ InUse(x) /\ InUse(x)' /\ range'[x] \in RangeEntry
      /\ range'[x].asma = a /\ range'[x].purged = holder.purged
      /\ range'[x].pgstart = holder.q.pgstart /\ range'[x].pgend = holder.q.pgend
      /\ range'[x].pgend >= range'[x].pgstart - 1
      /\ \A y \in Ranges : y # x => range'[y] = rs[y]
      /\ range' \in [Ranges -> RangeEntry \cup {Free}]
  BY AllocatedIs
<1>2. ASSUME NEW y \in Ranges, y # x
      PROVE  /\ InUse(y)' <=> InUse(y)
             /\ InUse(y) => /\ range'[y].asma = range[y].asma
                            /\ range'[y].purged = range[y].purged
                            /\ range'[y].pgstart \in Int /\ range'[y].pgend \in Int
                            /\ range'[y].pgend >= range'[y].pgstart - 1
  <2>1. range'[y] = rs[y]
    BY <1>1, <1>2
  <2>. QED
    BY <2>1, <1>1, ShrinkInUse DEF InUse
<1>3. RangesOK'
  <2>1. \A y \in Ranges : InUse(y)' => range'[y].pgend >= range'[y].pgstart - 1
    BY <1>1, <1>2
  <2>. QED
    BY <1>1, <2>1 DEF RangesOK
<1>4. x \notin ToSet(lru) /\ \A b \in Areas : x \notin ToSet(unpinned_list[b])
  BY <1>1, FreeIsNowhere DEF InUse
<1>5. ListsOK'
  <2>1. \A b \in Areas : unpinned_list[b] \in Seq(Ranges) /\ IsInjective(unpinned_list[b])
    BY DEF ListsOK
  <2>2. unpinned_list' = [unpinned_list EXCEPT ![a] = InsertBefore(@, x, holder.prev_range)]
    BY DEF AllocSucceeds
  <2>3. unpinned_list'[a] = InsertBefore(unpinned_list[a], x, holder.prev_range)
    BY <1>1, <2>2 DEF ListsOK
  <2>4. \A b \in Areas \ {a} : unpinned_list'[b] = unpinned_list[b]
    BY <2>2 DEF ListsOK
  <2>5. Fits(unpinned_list[a], rs, holder.q, holder.prev_range)
    BY <1>1 DEF HolderOK
  <2>6. /\ unpinned_list'[a] \in Seq(Ranges)
        /\ ToSet(unpinned_list'[a]) = ToSet(unpinned_list[a]) \cup {x}
        /\ IsInjective(unpinned_list'[a])
    <3>1. holder.prev_range = ListHead \/ holder.prev_range \in ToSet(unpinned_list[a])
      BY <2>5 DEF Fits
    <3>. QED
      BY <3>1, <2>1, <2>3, <1>1, <1>4, InsertBeforeAdds
  <2>7. unpinned_list' \in [Areas -> Seq(Ranges)]
    BY <2>2, <2>3, <2>6 DEF ListsOK
  <2>8. ASSUME NEW b \in Areas
        PROVE  /\ ToSet(unpinned_list'[b]) = {y \in Ranges : InUse(y)' /\ range'[y].asma = b}
               /\ IsInjective(unpinned_list'[b])
    <3>1. ToSet(unpinned_list[b]) = {y \in Ranges : InUse(y) /\ range[y].asma = b}
      BY DEF ListsOK
    <3>2. {y \in Ranges : InUse(y)' /\ range'[y].asma = b}
              = {y \in Ranges : InUse(y) /\ range[y].asma = b} \cup (IF b = a THEN {x} ELSE {})
      <4>1. ASSUME NEW y \in Ranges
            PROVE  InUse(y)' /\ range'[y].asma = b
                     <=> (InUse(y) /\ range[y].asma = b) \/ (b = a /\ y = x)
        <5>1. CASE y = x
          BY <5>1, <1>1
        <5>2. CASE y # x
          BY <5>2, <1>2
        <5>. QED
          BY <5>1, <5>2
      <4>. QED
        BY <4>1
    <3>3. CASE b = a
      BY <3>1, <3>2, <3>3, <2>6
    <3>4. CASE b # a
      BY <3>1, <3>2, <3>4, <2>4, <2>1
    <3>. QED
      BY <3>3, <3>4
  <2>9. ASSUME NEW b \in Areas PROVE Descending(unpinned_list'[b], range')
    <3>1. Descending(unpinned_list[b], rs)
      BY <1>1, ShrinkDescending
    <3>2. \A y \in ToSet(unpinned_list[b]) : range'[y] = rs[y]
      BY <1>1, <1>4, ListedRange
    <3>3. CASE b = a
      BY <3>1, <3>2, <3>3, <2>1, <2>3, <2>5, <1>1, InsertDescending
    <3>4. CASE b # a
      <4>1. \A i \in 1 .. Len(unpinned_list[b]) : range'[unpinned_list[b][i]] = rs[unpinned_list[b][i]]
        BY <3>2, ListedAt
      <4>2. Descending(unpinned_list[b], range')
        BY <3>1, <4>1 DEF Descending
      <4>. QED
        BY <4>2, <3>4, <2>4
    <3>. QED
      BY <3>3, <3>4
  <2>. QED
    BY <2>7, <2>8, <2>9 DEF ListsOK
<1>6. LruOK'
  <2>. DEFINE L == ToSet(lru)
              on == range_on_lru(range'[x])
              L2 == IF on THEN L \cup {x} ELSE L
  <2>1. on <=> ~ holder.purged
    BY <1>1 DEF range_on_lru
  <2>2. lru' = IF ~ holder.purged THEN Append(lru, x) ELSE lru
    BY DEF AllocSucceeds, range_on_lru
  <2>3. lru' \in Seq(Ranges) /\ ToSet(lru') = L2 /\ IsInjective(lru')
    <3>1. lru \in Seq(Ranges) /\ IsInjective(lru)
      BY DEF LruOK
    <3>2. InsertBefore(lru, x, ListHead) = Append(lru, x)
      BY DEF InsertBefore
    <3>3. /\ Append(lru, x) \in Seq(Ranges) /\ ToSet(Append(lru, x)) = L \cup {x}
          /\ IsInjective(Append(lru, x))
      <4>1. /\ InsertBefore(lru, x, ListHead) \in Seq(Ranges)
            /\ ToSet(InsertBefore(lru, x, ListHead)) = L \cup {x}
            /\ IsInjective(InsertBefore(lru, x, ListHead))
        BY <3>1, <1>4, InsertBeforeAdds
      <4>. QED
        BY <3>2, <4>1
    <3>. QED
      BY <2>1, <2>2, <3>1, <3>3
  <2>4. L2 = {y \in Ranges : InUse(y)' /\ range_on_lru(range'[y])}
    <3>1. ASSUME NEW y \in Ranges
          PROVE  InUse(y)' /\ range_on_lru(range'[y]) <=> y \in L2
      <4>1. CASE y = x
        BY <4>1, <1>1, <1>4
      <4>2. CASE y # x
        BY <4>2, <1>2 DEF LruOK, range_on_lru
      <4>. QED
        BY <4>1, <4>2
    <3>2. L2 \subseteq Ranges
      BY DEF LruOK
    <3>. QED
      BY <3>1, <3>2
  <2>5. /\ Cardinality(PagePairs(L, rs)) = lru_count - ShrunkBy(holder.to)
        /\ Cardinality(PagePairs(L, rs)) \in Int
    <3>1. Cardinality(PagePairs(L \ {}, rs)) = lru_count - PagesOnLru({}) - ShrunkBy(holder.to)
      BY <1>1, CountFreed
    <3>2. PagesOnLru({}) = 0
      BY NoPages
    <3>3. L \ {} = L
      OBVIOUS
    <3>4. lru_count \in Int /\ ShrunkBy(holder.to) \in Int
      <4>1. Bounded(L, range) /\ IsFiniteSet(L)
        BY LruRange, ListFinite DEF Bounded, LruOK
      <4>5. lru_count \in Int
        BY CountIsNatural
      <4>. DEFINE D == DOMAIN holder.to
      <4>6. \A y \in D : y \in Ranges /\ InUse(y)
        BY <1>1, ListedRange DEF Within
      <4>7. IsFiniteSet(D \cap L) /\ Bounded(D \cap L, range) /\ Bounded(D \cap L, holder.to)
        <5>1. IsFiniteSet(D \cap L)
          BY <4>1, FS_Subset
        <5>2. Bounded(D \cap L, holder.to)
          BY <1>1 DEF Within, Bounded, Request
        <5>. QED
          BY <5>1, <5>2, <4>1 DEF Bounded
      <4>8. /\ Cardinality(OnLru(D, range)) = Cardinality(PagePairs(D \cap L, range))
            /\ Cardinality(OnLru(D, holder.to)) = Cardinality(PagePairs(D \cap L, holder.to))
        BY <4>6, CountedPages
      <4>9. /\ Cardinality(PagePairs(D \cap L, range)) \in Int
            /\ Cardinality(PagePairs(D \cap L, holder.to)) \in Int
        BY <4>7, PagePairsFinite
      <4>. QED
        BY <4>5, <4>8, <4>9 DEF ShrunkBy, PagesOnLru
    <3>. QED
      BY <3>1, <3>2, <3>3, <3>4
  <2>6. lru_count' = Cardinality(PagePairs(L, rs)) + (IF on THEN range_size(range'[x]) ELSE 0)
    <3>1. lru_count' = lru_count - ShrunkBy(holder.to)
                       + IF ~ holder.purged THEN range_size(holder.q) ELSE 0
      BY DEF AllocSucceeds, range_on_lru, range_size, AllPages
    <3>2. range_size(holder.q) = range_size(range'[x])
      BY <1>1 DEF range_size, AllPages
    <3>. QED
      BY <3>1, <3>2, <2>1, <2>5
  <2>7. PagePairs(L, range') = PagePairs(L, rs)
    <3>1. \A y \in L : range'[y].pgstart = rs[y].pgstart /\ range'[y].pgend = rs[y].pgend
      BY <1>1, <1>4, LruRange
    <3>. QED
      BY <3>1, PagePairsSame
  <2>8. Bounded(L, range') /\ Bounded({x}, range') /\ IsFiniteSet(L) /\ IsFiniteSet({x}) /\ L \cap {x} = {}
    <3>1. Bounded(L, range')
      BY <1>2, <1>4, LruRange DEF Bounded
    <3>2. Bounded({x}, range')
      BY <1>1 DEF Bounded, RangeEntry
    <3>. QED
      BY <3>1, <3>2, <1>4, ListFinite, FS_Singleton DEF LruOK
  <2>9. lru_count' = Cardinality(PagePairs(L2, range'))
    <3>1. CASE on
      <4>1. Cardinality(PagePairs(L \cup {x}, range'))
                = Cardinality(PagePairs(L, range')) + Cardinality(PagePairs({x}, range'))
        BY <2>8, PagePairsUnion
      <4>2. Cardinality(PagePairs({x}, range')) = range_size(range'[x])
        BY <2>8, <1>1, PagePairsOne
      <4>3. L2 = L \cup {x}
        BY <3>1
      <4>. QED
        BY <4>1, <4>2, <4>3, <2>6, <2>7, <3>1
    <3>2. CASE ~ on
      <4>1. L2 = L
        BY <3>2
      <4>. QED
        BY <4>1, <3>2, <2>5, <2>6, <2>7
    <3>. QED
      BY <3>1, <3>2
  <2>10. PagesOnLru(ToSet(lru))' = Cardinality(PagePairs(ToSet(lru'), range'))
    <3>1. {y \in ToSet(lru') : range_on_lru(range'[y])} = ToSet(lru')
      BY <2>3, <2>4
    <3>. QED
      BY <3>1 DEF PagesOnLru, OnLru, PagePairs
  <2>. HIDE DEF L2
  <2>. QED
    BY <2>3, <2>4, <2>9, <2>10 DEF LruOK
<1>. QED
  BY <1>3, <1>5, <1>6

LEMMA AllocFailsOK ==
    ASSUME RangesOK, ListsOK, LruOK, HolderOK, AllocFails
    PROVE  RangesOK' /\ ListsOK' /\ LruOK'
<1>1. Allocating
  BY DEF AllocFails, Allocating
<1>2. PICK a \in Areas : a = holder.area
  BY <1>1 DEF HolderOK
<1>3. PICK to : to = holder.to
  OBVIOUS
<1>4. Within(a, to)
  BY <1>1, <1>2, <1>3 DEF HolderOK
<1>5. /\ range' = range_shrink(to) /\ unpinned_list' = unpinned_list /\ lru' = lru
      /\ lru_count' = lru_count - ShrunkBy(to)
  BY <1>3 DEF AllocFails
<1>6. range' = Freed({}, to)
  BY <1>5 DEF Freed, range_shrink
<1>7. RangesOK'
  BY <1>4, <1>6, FreedRangesOK
<1>8. ListsOK'
  <2>1. \A x \in Ranges : /\ InUse(x)' <=> InUse(x)
                          /\ InUse(x) => range'[x].asma = range[x].asma
    BY <1>4, <1>5, ShrinkInUse DEF InUse
  <2>2. ASSUME NEW b \in Areas
        PROVE  ToSet(unpinned_list[b]) = {x \in Ranges : InUse(x)' /\ range'[x].asma = b}
    BY <2>1 DEF ListsOK
  <2>3. \A b \in Areas : Descending(unpinned_list[b], range')
    BY <1>4, <1>5, ShrinkDescending
  <2>. QED
    BY <2>2, <2>3, <1>5 DEF ListsOK
<1>9. LruOK'
  <2>1. lru_count' = lru_count - PagesOnLru({}) - ShrunkBy(to)
    BY <1>5, NoPages, CountIsNatural
  <2>2. lru' \in Seq(Ranges) /\ IsInjective(lru') /\ ToSet(lru') = ToSet(lru) \ {}
    BY <1>5 DEF LruOK
  <2>3. {} \subseteq ToSet(unpinned_list[a]) /\ {} \cap DOMAIN to = {}
    OBVIOUS
  <2>. QED
    BY <2>1, <2>2, <2>3, <1>4, <1>6, FreedLruOK
<1>. QED
  BY <1>7, <1>8, <1>9

----------------------------------------------------------------------------
(* The shrinker. *)

LEMMA VictimsOnLru ==
    ASSUME LruOK, NEW n
    PROVE  Victims(n) \subseteq ToSet(lru)
<1>1. DOMAIN lru = 1 .. Len(lru)
  BY DEF LruOK
<1>2. ASSUME NEW x \in Victims(n) PROVE x \in ToSet(lru)
  <2>1. PICK i \in 1 .. Len(lru) : x = lru[i]
    BY <1>2 DEF Victims
  <2>. QED
    BY <2>1, <1>1 DEF ToSet
<1>. QED
  BY <1>2

LEMMA ShrinkerOK ==
    ASSUME RangesOK, ListsOK, LruOK, NEW n, ashmem_shrink(n)
    PROVE  /\ RangesOK' /\ ListsOK' /\ LruOK'
           /\ \A x \in Ranges : /\ InUse(x)' <=> InUse(x)
                                /\ InUse(x) => /\ range'[x].asma = range[x].asma
                                               /\ range'[x].pgstart = range[x].pgstart
                                               /\ range'[x].pgend = range[x].pgend
                                               /\ range'[x].purged <=> range[x].purged \/ x \in Victims(n)
<1>. DEFINE V == Victims(n)
            L == ToSet(lru)
<1>1. V \subseteq L
  BY VictimsOnLru
<1>2. /\ range' = [x \in Ranges |-> IF x \in V THEN [range[x] EXCEPT !.purged = TRUE] ELSE range[x]]
      /\ lru' = Without(lru, V)
      /\ lru_count' = lru_count - PagesOnLru(V)
      /\ unpinned_list' = unpinned_list
  BY DEF ashmem_shrink
<1>. HIDE DEF V
<1>3. ASSUME NEW x \in Ranges
      PROVE  /\ x \notin V => range'[x] = range[x]
             /\ x \in V => /\ InUse(x) /\ range'[x] \in RangeEntry
                           /\ range'[x].asma = range[x].asma
                           /\ range'[x].pgstart = range[x].pgstart
                           /\ range'[x].pgend = range[x].pgend
                           /\ range'[x].purged = TRUE
  <2>1. CASE x \in V
    <3>1. InUse(x)
      BY <2>1, <1>1, LruRange
    <3>2. range[x] \in RangeEntry
      BY <3>1 DEF RangesOK, InUse
    <3>3. range'[x] = [range[x] EXCEPT !.purged = TRUE]
      BY <2>1, <1>2
    <3>. QED
      BY <2>1, <3>1, <3>2, <3>3 DEF RangeEntry
  <2>2. CASE x \notin V
    BY <2>2, <1>2
  <2>. QED
    BY <2>1, <2>2
<1>4. \A x \in Ranges : /\ InUse(x)' <=> InUse(x)
                        /\ InUse(x) => /\ range'[x] \in RangeEntry
                                       /\ range'[x].asma = range[x].asma
                                       /\ range'[x].pgstart = range[x].pgstart
                                       /\ range'[x].pgend = range[x].pgend
  BY <1>3, FreeIsNoEntry DEF InUse, RangesOK
<1>5. \A x \in Ranges : InUse(x) => (range'[x].purged <=> range[x].purged \/ x \in V)
  BY <1>3
<1>6. RangesOK'
  <2>1. \A x \in Ranges : range'[x] \in RangeEntry \cup {Free}
    BY <1>4 DEF InUse
  <2>2. range' \in [Ranges -> RangeEntry \cup {Free}]
    BY <1>2, <2>1
  <2>3. \A x \in Ranges : InUse(x)' => range'[x].pgend >= range'[x].pgstart - 1
    BY <1>4 DEF RangesOK
  <2>. QED
    BY <2>2, <2>3 DEF RangesOK
<1>7. ListsOK'
  <2>1. ASSUME NEW b \in Areas
        PROVE  /\ ToSet(unpinned_list[b]) = {x \in Ranges : InUse(x)' /\ range'[x].asma = b}
               /\ IsInjective(unpinned_list[b])
    BY <1>4 DEF ListsOK
  <2>2. ASSUME NEW b \in Areas PROVE Descending(unpinned_list[b], range')
    <3>1. \A i \in 1 .. Len(unpinned_list[b]) :
              /\ range'[unpinned_list[b][i]].pgstart = range[unpinned_list[b][i]].pgstart
              /\ range'[unpinned_list[b][i]].pgend = range[unpinned_list[b][i]].pgend
      BY <1>4, ListedAt, ListedRange
    <3>2. Descending(unpinned_list[b], range)
      BY DEF ListsOK
    <3>. QED
      BY <3>1, <3>2 DEF Descending
  <2>. QED
    BY <2>1, <2>2, <1>2 DEF ListsOK
<1>8. LruOK'
  <2>1. lru' \in Seq(Ranges) /\ IsInjective(lru') /\ ToSet(lru') = L \ V
    BY <1>2, WithoutIs DEF LruOK
  <2>2. L \ V = {x \in Ranges : InUse(x)' /\ range_on_lru(range'[x])}
    <3>1. ASSUME NEW x \in Ranges
          PROVE  x \in L \ V <=> InUse(x)' /\ range_on_lru(range'[x])
      BY <1>4, <1>5, <1>1 DEF LruOK, range_on_lru
    <3>2. L \subseteq Ranges
      BY DEF LruOK
    <3>. QED
      BY <3>1, <3>2
  <2>3. IsFiniteSet(V) /\ IsFiniteSet(L \ V) /\ Bounded(V, range) /\ Bounded(L \ V, range)
    <3>1. IsFiniteSet(L)
      BY ListFinite DEF LruOK
    <3>2. IsFiniteSet(V) /\ IsFiniteSet(L \ V)
      BY <3>1, <1>1, FS_Subset
    <3>. QED
      BY <3>2, <1>1, LruRange DEF Bounded
  <2>4. Cardinality(PagePairs(V \cup (L \ V), range))
            = Cardinality(PagePairs(V, range)) + Cardinality(PagePairs(L \ V, range))
    BY <2>3, PagePairsUnion
  <2>5. PagesOnLru(V) = Cardinality(PagePairs(V, range))
    <3>1. \A x \in V : x \in Ranges /\ InUse(x)
      BY <1>1, LruRange
    <3>2. OnLru(V, range) = PagePairs(V \cap L, range)
      BY <3>1, CountedPages
    <3>3. V \cap L = V
      BY <1>1
    <3>. QED
      BY <3>2, <3>3 DEF PagesOnLru
  <2>6. lru_count = Cardinality(PagePairs(V \cup (L \ V), range))
    <3>1. V \cup (L \ V) = L
      BY <1>1
    <3>. QED
      BY <3>1, CountIsNatural
  <2>7. Cardinality(PagePairs(V, range)) \in Int /\ Cardinality(PagePairs(L \ V, range)) \in Int
    BY <2>3, PagePairsFinite
  <2>8. lru_count' = Cardinality(PagePairs(L \ V, range))
    BY <1>2, <2>4, <2>5, <2>6, <2>7
  <2>9. PagePairs(L \ V, range') = PagePairs(L \ V, range)
    <3>1. \A x \in L \ V : range'[x].pgstart = range[x].pgstart /\ range'[x].pgend = range[x].pgend
      BY <1>3, LruRange
    <3>. QED
      BY <3>1, PagePairsSame
  <2>10. PagesOnLru(ToSet(lru))' = Cardinality(PagePairs(ToSet(lru'), range'))
    <3>1. {y \in ToSet(lru') : range_on_lru(range'[y])} = ToSet(lru')
      BY <2>1, <2>2
    <3>. QED
      BY <3>1 DEF PagesOnLru, OnLru, PagePairs
  <2>11. lru_count' = PagesOnLru(ToSet(lru))'
    BY <2>1, <2>8, <2>9, <2>10
  <2>. QED
    BY <2>1, <2>2, <2>11 DEF LruOK
<1>. QED
  BY <1>4, <1>5, <1>6, <1>7, <1>8 DEF V

----------------------------------------------------------------------------
(* What follows from the invariant. *)

LEMMA InvListsAgree == AshmemInv => ListsAgree
<1>. SUFFICES ASSUME AshmemInv PROVE ListsAgree
  OBVIOUS
<1>. USE DEF AshmemInv
<1>1. AshmemTypeOK
  <2>1. lru_count \in Nat
    BY CountIsNatural
  <2>2. range \in [Ranges -> [asma : Areas, pgstart : Nat, pgend : Int, purged : BOOLEAN] \cup {Free}]
    BY DEF RangesOK, RangeEntry
  <2>. QED
    BY <2>1, <2>2 DEF AshmemTypeOK, AreasOK, ListsOK, LruOK, HolderOK, HistoryOK
<1>2. ASSUME NEW a \in Areas
      PROVE  /\ ToSet(unpinned_list[a]) = {x \in Ranges : range[x] # Free /\ range[x].asma = a}
             /\ IsInjective(unpinned_list[a])
             /\ \A i \in 2 .. Len(unpinned_list[a]) :
                   range_before_page(range[unpinned_list[a][i]], range[unpinned_list[a][i-1]].pgstart)
             /\ unpinned_list[a] # << >> => a \in open /\ file[a] # 0
  <2>1. ASSUME NEW i \in 2 .. Len(unpinned_list[a])
        PROVE  range_before_page(range[unpinned_list[a][i]], range[unpinned_list[a][i-1]].pgstart)
    <3>1. i \in 1 .. Len(unpinned_list[a]) /\ i - 1 \in 1 .. Len(unpinned_list[a]) /\ i - 1 < i
      BY ListedAt
    <3>. QED
      BY <3>1 DEF ListsOK, Descending, range_before_page
  <2>. QED
    BY <2>1 DEF ListsOK, AreasOK, InUse
<1>3. /\ ToSet(lru) = {x \in Ranges : range[x] # Free /\ range_on_lru(range[x])}
      /\ IsInjective(lru)
      /\ lru_count = PagesOnLru(ToSet(lru))
  BY DEF LruOK, InUse
<1>. QED
  BY <1>1, <1>2, <1>3 DEF ListsAgree

\* With nobody in the middle of something, the lists are up to date.
LEMMA BoundsIdle ==
    ASSUME HolderOK, holder.op \in {"none", "mmap"}
    PROVE  Bounds = range /\ \A a, p : ~ Pending(a, p)
BY DEF HolderOK, Bounds, Pending, Walking, Allocating

LEMMA InvUnpinnedExact == AshmemInv => UnpinnedExact
<1>. SUFFICES ASSUME AshmemInv, holder.op \in {"none", "mmap"}, NEW a \in Areas
              PROVE  /\ Listed(a) \subseteq unpinned[a]
                     /\ unpinned[a] \subseteq Purgeable(a) \cup MarkedPurged(a) \cup forgotten[a]
                     /\ \A q \in Requests(a) :
                           Listed(a) \cap PagesOf(q) # {} => ashmem_get_pin_status(a, q)
  BY DEF UnpinnedExact
<1>. USE DEF AshmemInv
<1>0. ASSUME NEW x
      PROVE  x \in ToSet(unpinned_list[a]) <=>
                 \/ x \in ToSet(lru) /\ range[x].asma = a
                 \/ x \in ToSet(unpinned_list[a]) /\ range[x].purged
  BY DEF ListsOK, LruOK, range_on_lru
<1>1. \A p : p \in Listed(a) <=> \E x \in ToSet(unpinned_list[a]) : p \in PagesOf(range[x])
  BY <1>0 DEF Listed, Purgeable, MarkedPurged
<1>2. ASSUME NEW x \in ToSet(unpinned_list[a]), NEW p \in PagesOf(range[x]) PROVE p \in Int
  BY ListedRange DEF PagesOf
<1>3. \A p \in Int : p \in Listed(a) <=> ListedIn(a, p)
  BY <1>1, BoundsIdle DEF ListedIn
<1>4. unpinned[a] \subseteq Int /\ Listed(a) \subseteq Int
  BY <1>1, <1>2 DEF HistoryOK
<1>5. ASSUME NEW p \in Int
      PROVE  /\ p \in Listed(a) => p \in unpinned[a]
             /\ p \in unpinned[a] => p \in Listed(a) \/ p \in forgotten[a]
  BY <1>3, BoundsIdle DEF PagesOK
<1>6. ASSUME NEW q \in Requests(a), Listed(a) \cap PagesOf(q) # {}
      PROVE  ashmem_get_pin_status(a, q)
  <2>1. PICK p : p \in Listed(a) /\ p \in PagesOf(q)
    BY <1>6
  <2>2. PICK x \in ToSet(unpinned_list[a]) : p \in PagesOf(range[x])
    BY <1>1, <2>1
  <2>3. q \in Request
    BY RequestIs
  <2>4. q.pgstart \in Int /\ q.pgend \in Int
    BY <2>3 DEF Request
  <2>5. x \in Hit(a, q)
    BY <2>1, <2>2, <2>4, <1>2, OverlapHit
  <2>. QED
    BY <2>5 DEF ashmem_get_pin_status
<1>. QED
  BY <1>4, <1>5, <1>6 DEF Listed

LEMMA InvPurgeReported == AshmemInv => PurgeReported
<1>. SUFFICES ASSUME AshmemInv, holder.op \in {"none", "mmap"}, NEW a \in Areas,
                     NEW q \in Requests(a), NEW p \in gone[a] \cap PagesOf(q), p \notin forgotten[a]
              PROVE  PinStatus(a, q)
  BY DEF PurgeReported
<1>. USE DEF AshmemInv
<1>1. PurgedIn(a, p)
  BY BoundsIdle DEF PurgedOK
<1>2. PICK x \in ToSet(unpinned_list[a]) : range[x].purged /\ p \in PagesOf(range[x])
  BY <1>1, BoundsIdle DEF PurgedIn
<1>3. p \in Int
  BY DEF HistoryOK
<1>4. q \in Request
  BY RequestIs
<1>5. q.pgstart \in Int /\ q.pgend \in Int
  BY <1>4 DEF Request
<1>6. x \in Hit(a, q)
  BY <1>2, <1>3, <1>5, OverlapHit
<1>. QED
  BY <1>2, <1>6 DEF PinStatus

----------------------------------------------------------------------------
(* Each step preserves the invariant.  First those that leave the lists and *)
(* the pages alone.                                                         *)

LEMMA ListsStay ==
    ASSUME RangesOK, ListsOK, LruOK, UNCHANGED listVars
    PROVE  RangesOK' /\ ListsOK' /\ LruOK'
<1>1. range' = range /\ unpinned_list' = unpinned_list /\ lru' = lru /\ lru_count' = lru_count
  BY DEF listVars
<1>2. RangesOK'
  BY <1>1 DEF RangesOK, InUse
<1>3. ListsOK'
  BY <1>1 DEF ListsOK, InUse
<1>4. PagesOnLru(ToSet(lru))' = PagesOnLru(ToSet(lru))
  BY <1>1 DEF PagesOnLru, OnLru
<1>5. LruOK'
  BY <1>1, <1>4 DEF LruOK, InUse
<1>. QED
  BY <1>2, <1>3, <1>5

Quiet == holder.op \in {"none", "mmap"}

LEMMA QuietPages ==
    ASSUME Quiet, NEW a, NEW p
    PROVE  /\ ~ Pending(a, p)
           /\ ListedIn(a, p) <=> \E x \in ToSet(unpinned_list[a]) : p \in PagesOf(range[x])
           /\ PurgedIn(a, p) <=> \E x \in ToSet(unpinned_list[a]) : range[x].purged /\ p \in PagesOf(range[x])
<1>1. ~ Walking /\ ~ Allocating
  BY DEF Quiet, Walking, Allocating
<1>2. Bounds = range
  BY <1>1 DEF Bounds
<1>. QED
  BY <1>1, <1>2 DEF Pending, ListedIn, PurgedIn

\* The histories keep their meaning as long as nobody is in the middle of an
\* unpin, before and after.
LEMMA QuietStays ==
    ASSUME Quiet, Quiet', PagesOK, PurgedOK, UNCHANGED <<listVars, historyVars>>
    PROVE  PagesOK' /\ PurgedOK'
<1>1. /\ range' = range /\ unpinned_list' = unpinned_list
      /\ unpinned' = unpinned /\ gone' = gone /\ forgotten' = forgotten
  BY DEF listVars, historyVars
<1>2. holder.op # "stuck"
  BY DEF Quiet
<1>3. ASSUME NEW a, NEW p
      PROVE  /\ ~ Pending(a, p) /\ ~ Pending(a, p)'
             /\ ListedIn(a, p)' <=> ListedIn(a, p)
             /\ PurgedIn(a, p)' <=> PurgedIn(a, p)
  <2>1. ~ (Walking)' /\ ~ (Allocating)' /\ ~ Walking /\ ~ Allocating
    BY DEF Quiet, Walking, Allocating
  <2>2. Bounds' = range' /\ Bounds = range
    BY <2>1 DEF Bounds
  <2>. QED
    BY <2>1, <2>2, <1>1 DEF Pending, ListedIn, PurgedIn
<1>4. PagesOK'
  BY <1>1, <1>2, <1>3 DEF PagesOK
<1>5. PurgedOK'
  BY <1>1, <1>2, <1>3 DEF PurgedOK
<1>. QED
  BY <1>4, <1>5

\* What the task that holds the mutex is doing keeps its meaning as long as it
\* does nothing.
LEMMA HolderStays ==
    ASSUME HolderOK, PagesOK, PurgedOK, holder' = holder, UNCHANGED <<listVars, historyVars>>,
           open \subseteq open', file' = file
    PROVE  HolderOK' /\ PagesOK' /\ PurgedOK'
<1>1. /\ range' = range /\ unpinned_list' = unpinned_list
      /\ unpinned' = unpinned /\ gone' = gone /\ forgotten' = forgotten
  BY DEF listVars, historyVars
<1>2. Walking' = Walking /\ Allocating' = Allocating
  BY DEF Walking, Allocating
<1>3. (range_shrink(holder.to))' = range_shrink(holder.to)
  BY <1>1 DEF range_shrink
<1>4. HolderOK'
  <2>1. Within(holder.area, holder.to)' <=> Within(holder.area, holder.to)
    BY <1>1 DEF Within
  <2>. QED
    BY <1>1, <1>2, <1>3, <2>1 DEF HolderOK
<1>5. Bounds' = Bounds
  BY <1>1, <1>2, <1>3 DEF Bounds
<1>6. \A a, p : /\ Pending(a, p)' <=> Pending(a, p)
                /\ ListedIn(a, p)' <=> ListedIn(a, p)
                /\ PurgedIn(a, p)' <=> PurgedIn(a, p)
  BY <1>1, <1>2, <1>5 DEF Pending, ListedIn, PurgedIn
<1>7. PagesOK'
  BY <1>1, <1>6 DEF PagesOK
<1>8. PurgedOK'
  BY <1>1, <1>2, <1>6 DEF PurgedOK
<1>. QED
  BY <1>4, <1>7, <1>8

LEMMA HistoryStays ==
    ASSUME HistoryOK, UNCHANGED historyVars
    PROVE  HistoryOK'
BY DEF HistoryOK, historyVars

LEMMA OpenOK == ASSUME AshmemInv, NEW a \in Areas, ashmem_open(a) PROVE AshmemInv'
<1>. USE DEF AshmemInv
<1>1. /\ open' = open \cup {a}
      /\ UNCHANGED <<size, file, listVars, holder, historyVars>>
  BY DEF ashmem_open
<1>2. RangesOK' /\ ListsOK' /\ LruOK'
  BY <1>1, ListsStay
<1>3. AreasOK'
  BY <1>1 DEF AreasOK, listVars
<1>4. HolderOK' /\ PagesOK' /\ PurgedOK'
  BY <1>1, HolderStays
<1>5. HistoryOK'
  BY <1>1, HistoryStays
<1>. QED
  BY <1>2, <1>3, <1>4, <1>5

LEMMA SetSizeOK == ASSUME AshmemInv, NEW a \in Areas, NEW n \in Sizes[a], SetSize(a, n) PROVE AshmemInv'
<1>. USE DEF AshmemInv
<1>1. /\ size' = [size EXCEPT ![a] = n]
      /\ UNCHANGED <<open, file, listVars, holder, historyVars>>
  BY DEF SetSize
<1>2. RangesOK' /\ ListsOK' /\ LruOK'
  BY <1>1, ListsStay
<1>3. AreasOK'
  <2>1. n \in Nat
    BY AshmemAssumption
  <2>. QED
    BY <1>1, <2>1 DEF AreasOK, listVars
<1>4. HolderOK' /\ PagesOK' /\ PurgedOK'
  BY <1>1, HolderStays
<1>5. HistoryOK'
  BY <1>1, HistoryStays
<1>. QED
  BY <1>2, <1>3, <1>4, <1>5

LEMMA MmapStartOK == ASSUME AshmemInv, NEW a \in Areas, MmapStart(a) PROVE AshmemInv'
<1>. USE DEF AshmemInv
<1>1. /\ a \in open /\ holder = Nobody /\ size[a] # 0 /\ file[a] = 0
      /\ holder' = [op |-> "mmap", area |-> a, size |-> size[a]]
      /\ UNCHANGED <<areaVars, listVars, historyVars>>
  BY DEF MmapStart
<1>2. RangesOK' /\ ListsOK' /\ LruOK'
  BY <1>1, ListsStay
<1>3. AreasOK'
  BY <1>1 DEF AreasOK, areaVars, listVars
<1>4. HolderOK'
  <2>1. size[a] \in Nat /\ size[a] \in Sizes[a]
    BY <1>1 DEF AreasOK
  <2>2. holder'.op = "mmap" /\ holder'.area = a /\ holder'.size = size[a]
    BY <1>1
  <2>3. holder' \in [op : {"mmap"}, area : Areas, size : Nat]
    BY <1>1, <2>1
  <2>4. ~ Walking' /\ ~ Allocating'
    BY <2>2 DEF Walking, Allocating
  <2>. QED
    BY <1>1, <2>1, <2>2, <2>3, <2>4 DEF HolderOK, areaVars
<1>5. Quiet /\ Quiet'
  BY <1>1 DEF Quiet, Nobody
<1>6. PagesOK' /\ PurgedOK'
  BY <1>1, <1>5, QuietStays
<1>7. HistoryOK'
  BY <1>1, HistoryStays
<1>. QED
  BY <1>2, <1>3, <1>4, <1>6, <1>7

LEMMA NobodyOK == ASSUME holder' = Nobody PROVE HolderOK' /\ Quiet'
BY DEF HolderOK, Quiet, Nobody, Walking, Allocating

LEMMA MmapEndOK == ASSUME AshmemInv, NEW a \in Areas, NEW ok \in BOOLEAN, MmapEnd(a, ok) PROVE AshmemInv'
<1>. USE DEF AshmemInv
<1>1. /\ holder.op = "mmap" /\ holder.area = a
      /\ file' = [file EXCEPT ![a] = IF ok THEN holder.size ELSE 0]
      /\ holder' = Nobody
      /\ UNCHANGED <<open, size, listVars, historyVars>>
  BY DEF MmapEnd
<1>2. RangesOK' /\ ListsOK' /\ LruOK'
  BY <1>1, ListsStay
<1>3. AreasOK'
  <2>1. holder.size \in Nat /\ holder.size \in Sizes[a] /\ a \in open /\ file[a] = 0
    BY <1>1 DEF HolderOK
  <2>2. file' \in [Areas -> Nat] /\ file'[a] \in Sizes[a] \cup {0} /\ \A b \in Areas \ {a} : file'[b] = file[b]
    BY <1>1, <2>1 DEF AreasOK
  <2>3. unpinned_list[a] = << >>
    BY <2>1 DEF AreasOK
  <2>. QED
    BY <1>1, <2>1, <2>2, <2>3 DEF AreasOK, listVars
<1>4. HolderOK' /\ Quiet'
  BY <1>1, NobodyOK
<1>5. Quiet
  BY <1>1 DEF Quiet
<1>6. PagesOK' /\ PurgedOK'
  BY <1>1, <1>4, <1>5, QuietStays
<1>7. HistoryOK'
  BY <1>1, HistoryStays
<1>. QED
  BY <1>2, <1>3, <1>4, <1>6, <1>7

LEMMA DirectReclaimOK == ASSUME AshmemInv, DirectReclaim PROVE AshmemInv'
<1>. USE DEF AshmemInv
<1>1. holder' = [op |-> "stuck"] /\ UNCHANGED <<areaVars, listVars, historyVars>>
  BY DEF DirectReclaim
<1>2. RangesOK' /\ ListsOK' /\ LruOK'
  BY <1>1, ListsStay
<1>3. AreasOK'
  BY <1>1 DEF AreasOK, areaVars, listVars
<1>4. holder'.op = "stuck"
  BY <1>1
<1>5. HolderOK' /\ PagesOK' /\ PurgedOK'
  BY <1>4 DEF HolderOK, PagesOK, PurgedOK, Walking, Allocating
<1>6. HistoryOK'
  BY <1>1, HistoryStays
<1>. QED
  BY <1>2, <1>3, <1>5, <1>6

----------------------------------------------------------------------------
(* The steps of ashmem_unpin. *)

LEMMA WalkPages ==
    ASSUME Walking, NEW a, NEW p
    PROVE  /\ Pending(a, p) <=> holder.area = a /\ p \in PagesOf(holder.q)
           /\ ListedIn(a, p) <=> \E x \in ToSet(unpinned_list[a]) : p \in PagesOf(range[x])
           /\ PurgedIn(a, p) <=> \E x \in ToSet(unpinned_list[a]) : range[x].purged /\ p \in PagesOf(range[x])
<1>1. ~ Allocating
  BY DEF Walking, Allocating
<1>2. Bounds = range
  BY <1>1 DEF Bounds
<1>. QED
  BY <1>1, <1>2 DEF Pending, ListedIn, PurgedIn

LEMMA UnpinStartOK == ASSUME AshmemInv, NEW a \in Areas, NEW q \in Requests(a), UnpinStart(a, q) PROVE AshmemInv'
<1>. USE DEF AshmemInv
<1>1. /\ file[a] # 0 /\ holder = Nobody
      /\ holder' = [op |-> "walk", area |-> a, q |-> q, purged |-> FALSE]
      /\ unpinned' = [unpinned EXCEPT ![a] = @ \cup PagesOf(q)]
      /\ UNCHANGED <<areaVars, listVars, gone, forgotten>>
  BY DEF UnpinStart
<1>2. RangesOK' /\ ListsOK' /\ LruOK'
  BY <1>1, ListsStay
<1>3. AreasOK'
  BY <1>1 DEF AreasOK, areaVars, listVars
<1>4. q \in Request /\ q.pgend >= q.pgstart - 1
  BY RequestIs
<1>5. holder'.op = "walk" /\ holder'.area = a /\ holder'.q = q /\ holder'.purged = FALSE
  BY <1>1
<1>6. Walking' /\ ~ Allocating'
  BY <1>5 DEF Walking, Allocating
<1>7. HolderOK'
  <2>1. holder' \in [op : {"walk"}, area : Areas, q : Request, purged : BOOLEAN]
    BY <1>1, <1>4
  <2>. QED
    BY <2>1, <1>1, <1>4, <1>5, <1>6 DEF HolderOK, areaVars
<1>8. Quiet
  BY <1>1 DEF Quiet, Nobody
<1>9. range' = range /\ unpinned_list' = unpinned_list /\ gone' = gone /\ forgotten' = forgotten
  BY <1>1 DEF listVars
<1>10. \A b, p : /\ Pending(b, p)' <=> b = a /\ p \in PagesOf(q)
                 /\ ~ Pending(b, p)
                 /\ ListedIn(b, p)' <=> ListedIn(b, p)
                 /\ PurgedIn(b, p)' <=> PurgedIn(b, p)
  <2>1. Bounds' = range' /\ Bounds = range /\ ~ Walking /\ ~ Allocating
    BY <1>6, <1>8 DEF Bounds, Quiet, Walking, Allocating
  <2>. QED
    BY <2>1, <1>5, <1>6, <1>9 DEF Pending, ListedIn, PurgedIn
<1>11. holder.op # "stuck" /\ holder'.op # "stuck"
  BY <1>5, <1>8 DEF Quiet
<1>12. unpinned'[a] = unpinned[a] \cup PagesOf(q) /\ \A b \in Areas \ {a} : unpinned'[b] = unpinned[b]
  BY <1>1 DEF HistoryOK
<1>13. PagesOK'
  BY <1>9, <1>10, <1>11, <1>12 DEF PagesOK
<1>14. PurgedOK'
  BY <1>9, <1>10, <1>11 DEF PurgedOK
<1>15. HistoryOK'
  <2>1. PagesOf(q) \subseteq Int
    BY <1>4 DEF PagesOf, Request
  <2>2. unpinned' \in [Areas -> SUBSET Int]
    BY <2>1, <1>1 DEF HistoryOK
  <2>3. \A b \in Areas : unpinned[b] \subseteq unpinned'[b]
    BY <1>12
  <2>. QED
    BY <2>2, <2>3, <1>9 DEF HistoryOK
<1>. QED
  BY <1>2, <1>3, <1>7, <1>13, <1>14, <1>15

LEMMA FirstHitIs ==
    ASSUME ListsOK, RangesOK, NEW a \in Areas, NEW q, q.pgstart \in Int, Hit(a, q) # {}
    PROVE  FirstHit(a, q) \in Hit(a, q)
<1>. DEFINE list == unpinned_list[a]
            at == {i \in 1 .. Len(list) : list[i] \in Hit(a, q)}
<1>1. PICK x : x \in Hit(a, q)
  OBVIOUS
<1>2. x \in ToSet(list)
  BY <1>1, HitIs
<1>3. PICK i \in 1 .. Len(list) : x = list[i]
  BY <1>2, ListedAt
<1>4. at # {} /\ at \in SUBSET Nat
  BY <1>1, <1>3, ListedAt
<1>5. \E i1 \in at : \A j \in at : i1 <= j
  <2>. HIDE DEF at
  <2>. QED
    BY <1>4, LeastMember
<1>6. Min(at) \in at
  <2>. HIDE DEF at
  <2>. QED
    BY <1>5 DEF Min
<1>7. FirstHit(a, q) = list[Min(at)]
  BY DEF FirstHit
<1>. QED
  BY <1>6, <1>7

LEMMA MinOfTwo == ASSUME NEW m \in Int, NEW n \in Int PROVE Min({m, n}) = IF m <= n THEN m ELSE n
<1>1. CASE m <= n
  <2>1. m \in {m, n} /\ \A y \in {m, n} : m <= y
    BY <1>1
  <2>2. \A z \in {m, n} : (\A y \in {m, n} : z <= y) => z = m
    BY <1>1
  <2>. QED
    BY <1>1, <2>1, <2>2 DEF Min
<1>2. CASE ~ (m <= n)
  <2>1. n \in {m, n} /\ \A y \in {m, n} : n <= y
    BY <1>2
  <2>2. \A z \in {m, n} : (\A y \in {m, n} : z <= y) => z = n
    BY <1>2
  <2>. QED
    BY <1>2, <2>1, <2>2 DEF Min
<1>. QED
  BY <1>1, <1>2

LEMMA MaxOfTwo == ASSUME NEW m \in Int, NEW n \in Int PROVE Max({m, n}) = IF m >= n THEN m ELSE n
<1>1. CASE m >= n
  <2>1. m \in {m, n} /\ \A y \in {m, n} : m >= y
    BY <1>1
  <2>2. \A z \in {m, n} : (\A y \in {m, n} : z >= y) => z = m
    BY <1>1
  <2>. QED
    BY <1>1, <2>1, <2>2 DEF Max
<1>2. CASE ~ (m >= n)
  <2>1. n \in {m, n} /\ \A y \in {m, n} : n >= y
    BY <1>2
  <2>2. \A z \in {m, n} : (\A y \in {m, n} : z >= y) => z = n
    BY <1>2
  <2>. QED
    BY <1>2, <2>1, <2>2 DEF Max
<1>. QED
  BY <1>1, <1>2

\* The pages of two intervals that page_range_in_range has found to meet.
LEMMA MergedPages ==
    ASSUME NEW r, NEW q, r.pgstart \in Nat, r.pgend \in Int, q \in Request,
           r.pgend >= r.pgstart - 1, q.pgend >= q.pgstart - 1,
           r.pgend >= q.pgstart, page_range_in_range(r, q)
    PROVE  LET both == Interval(Min({r.pgstart, q.pgstart}), Max({r.pgend, q.pgend}))
           IN  /\ both \in Request /\ both.pgend >= both.pgstart - 1
               /\ \A p \in Int : p \in PagesOf(both) <=> p \in PagesOf(r) \/ p \in PagesOf(q)
<1>. DEFINE lo == IF r.pgstart <= q.pgstart THEN r.pgstart ELSE q.pgstart
            hi == IF r.pgend >= q.pgend THEN r.pgend ELSE q.pgend
            both == Interval(Min({r.pgstart, q.pgstart}), Max({r.pgend, q.pgend}))
<1>1. q.pgstart \in Nat /\ q.pgend \in Int
  BY DEF Request
<1>2. Min({r.pgstart, q.pgstart}) = lo /\ Max({r.pgend, q.pgend}) = hi
  BY <1>1, MinOfTwo, MaxOfTwo
<1>3. both.pgstart = lo /\ both.pgend = hi /\ both \in Request
  BY <1>1, <1>2 DEF Interval, Request
<1>4. hi >= lo - 1
  BY <1>1
<1>5. ASSUME NEW p \in Int
      PROVE  p \in lo .. hi <=> p \in r.pgstart .. r.pgend \/ p \in q.pgstart .. q.pgend
  BY <1>1 DEF page_range_in_range, page_in_range, page_range_subsumes_range
<1>. QED
  BY <1>3, <1>4, <1>5 DEF PagesOf

LEMMA EmptyList == ASSUME NEW X, NEW list \in Seq(X), ToSet(list) = {} PROVE list = << >>
<1>1. Len(list) \in Nat /\ DOMAIN list = 1 .. Len(list)
  OBVIOUS
<1>2. ~ (Len(list) >= 1)
  <2>. SUFFICES ASSUME Len(list) >= 1 PROVE FALSE
    OBVIOUS
  <2>1. 1 \in DOMAIN list
    BY <1>1
  <2>2. list[1] \in ToSet(list)
    BY <2>1 DEF ToSet
  <2>. QED
    BY <2>2
<1>3. Len(list) = 0
  BY <1>1, <1>2
<1>. QED
  BY <1>3

\* Nothing to shrink.
LEMMA NoShrink ==
    ASSUME RangesOK, NEW a
    PROVE  Within(a, << >>) /\ range_shrink(<< >>) = range /\ DOMAIN << >> = {}
<1>1. DOMAIN << >> = {}
  OBVIOUS
<1>2. Within(a, << >>)
  BY <1>1 DEF Within
<1>3. range_shrink(<< >>) = range
  BY <1>1 DEF range_shrink, RangesOK
<1>. QED
  BY <1>1, <1>2, <1>3

\* What is in the lists after range_del and range_shrink.
LEMMA FreedLists ==
    ASSUME RangesOK, ListsOK, LruOK, NEW a \in Areas, NEW to, Within(a, to),
           NEW s, s \subseteq ToSet(unpinned_list[a]), s \cap DOMAIN to = {},
           DeleteAndShrink(a, s, to)
    PROVE  \A b \in Areas :
              /\ ToSet(unpinned_list'[b]) = ToSet(unpinned_list[b]) \ s
              /\ \A x \in ToSet(unpinned_list'[b]) : range'[x] = range_shrink(to)[x]
              /\ unpinned_list[b] = << >> => unpinned_list'[b] = << >>
<1>1. /\ RangesOK' /\ ListsOK' /\ LruOK'
      /\ range' = Freed(s, to)
      /\ ToSet(unpinned_list'[a]) = ToSet(unpinned_list[a]) \ s
      /\ \A b \in Areas \ {a} : unpinned_list'[b] = unpinned_list[b]
  BY DeleteAndShrinkOK
<1>. TAKE b \in Areas
<1>2. ToSet(unpinned_list'[b]) = ToSet(unpinned_list[b]) \ s
  <2>1. CASE b = a
    BY <1>1, <2>1
  <2>2. CASE b # a
    <3>1. ToSet(unpinned_list[b]) \cap s = {}
      BY <2>2 DEF ListsOK
    <3>. QED
      BY <1>1, <2>2, <3>1
  <2>. QED
    BY <2>1, <2>2
<1>3. ASSUME NEW x \in ToSet(unpinned_list'[b]) PROVE range'[x] = range_shrink(to)[x]
  <2>1. x \in ToSet(unpinned_list[b]) /\ x \notin s
    BY <1>2, <1>3
  <2>2. x \in Ranges
    BY <2>1, ListedRange
  <2>. QED
    BY <2>1, <2>2, <1>1 DEF Freed
<1>4. ASSUME unpinned_list[b] = << >> PROVE unpinned_list'[b] = << >>
  <2>1. ToSet(unpinned_list[b]) = {}
    BY <1>4 DEF ToSet
  <2>2. ToSet(unpinned_list'[b]) = {} /\ unpinned_list'[b] \in Seq(Ranges)
    BY <2>1, <1>1, <1>2 DEF ListsOK
  <2>. QED
    BY <2>2, EmptyList
<1>. QED
  BY <1>2, <1>3, <1>4

\* The areas stay as they are and no list gets its first range.
LEMMA AreasStay ==
    ASSUME AreasOK, UNCHANGED areaVars,
           \A b \in Areas : unpinned_list[b] = << >> => unpinned_list'[b] = << >>
    PROVE  AreasOK'
BY DEF AreasOK, areaVars

LEMMA UnpinMergeOK == ASSUME AshmemInv, UnpinMerge PROVE AshmemInv'
<1>. USE DEF AshmemInv
<1>1. Walking
  BY DEF UnpinMerge, Walking
<1>2. /\ holder \in [op : {"walk"}, area : Areas, q : Request, purged : BOOLEAN]
      /\ file[holder.area] # 0 /\ holder.q.pgend >= holder.q.pgstart - 1
  BY <1>1 DEF HolderOK
<1>3. PICK a \in Areas : a = holder.area
  BY <1>2
<1>4. PICK q \in Request : q = holder.q
  BY <1>2
<1>5. q.pgstart \in Nat /\ q.pgend \in Int /\ q.pgend >= q.pgstart - 1
  BY <1>2, <1>4 DEF Request
<1>6. PICK x : x = FirstHit(a, q)
  OBVIOUS
<1>7. x \in Hit(a, q)
  BY <1>3, <1>4, <1>5, <1>6, FirstHitIs DEF UnpinMerge
<1>8. x \in ToSet(unpinned_list[a]) /\ range[x].pgend >= q.pgstart /\ page_range_in_range(range[x], q)
  BY <1>5, <1>7, HitIs
<1>9. /\ x \in Ranges /\ range[x] \in RangeEntry
      /\ range[x].pgstart \in Nat /\ range[x].pgend \in Int /\ range[x].pgend >= range[x].pgstart - 1
  BY <1>8, ListedRange
<1>10. PICK both : both = Interval(Min({range[x].pgstart, q.pgstart}), Max({range[x].pgend, q.pgend}))
  OBVIOUS
<1>11. /\ both \in Request /\ both.pgend >= both.pgstart - 1
       /\ \A p \in Int : p \in PagesOf(both) <=> p \in PagesOf(range[x]) \/ p \in PagesOf(q)
  BY <1>5, <1>8, <1>9, <1>10, MergedPages
<1>12. /\ holder' = [holder EXCEPT !.q = both, !.purged = @ \/ range[x].purged]
       /\ DeleteAndShrink(a, {x}, << >>)
       /\ UNCHANGED <<areaVars, historyVars>>
  BY <1>3, <1>4, <1>6, <1>10 DEF UnpinMerge
<1>13. PICK to : to = << >>
  OBVIOUS
<1>14. Within(a, to) /\ range_shrink(to) = range /\ {x} \cap DOMAIN to = {} /\ {x} \subseteq ToSet(unpinned_list[a])
  BY <1>8, <1>13, NoShrink
<1>15. DeleteAndShrink(a, {x}, to)
  BY <1>12, <1>13
<1>16. RangesOK' /\ ListsOK' /\ LruOK'
  BY <1>14, <1>15, DeleteAndShrinkOK
<1>17. \A b \in Areas :
          /\ ToSet(unpinned_list'[b]) = ToSet(unpinned_list[b]) \ {x}
          /\ \A y \in ToSet(unpinned_list'[b]) : range'[y] = range[y]
          /\ unpinned_list[b] = << >> => unpinned_list'[b] = << >>
  BY <1>14, <1>15, FreedLists
<1>18. AreasOK'
  BY <1>12, <1>17, AreasStay
<1>19. range[x].purged \in BOOLEAN /\ holder.purged \in BOOLEAN
  BY <1>2, <1>9 DEF RangeEntry
<1>20. /\ holder'.op = "walk" /\ holder'.area = a /\ holder'.q = both
       /\ holder'.purged = (holder.purged \/ range[x].purged)
  BY <1>2, <1>3, <1>12
<1>21. holder' \in [op : {"walk"}, area : Areas, q : Request, purged : BOOLEAN]
  <2>1. (holder.purged \/ range[x].purged) \in BOOLEAN
    BY <1>19, Zenon
  <2>2. PICK new \in BOOLEAN : new = (holder.purged \/ range[x].purged)
    BY <2>1
  <2>3. holder' = [holder EXCEPT !.q = both, !.purged = new]
    BY <2>2, <1>2, <1>12
  <2>. QED
    BY <2>3, <1>2, <1>11
<1>22. Walking' /\ ~ Allocating'
  BY <1>20 DEF Walking, Allocating
<1>23. HolderOK'
  BY <1>2, <1>3, <1>11, <1>12, <1>20, <1>21, <1>22 DEF HolderOK, areaVars
<1>24. /\ unpinned' = unpinned /\ gone' = gone /\ forgotten' = forgotten
  BY <1>12 DEF historyVars
<1>25. HistoryOK'
  BY <1>12, HistoryStays
<1>26. \A b, p : /\ Pending(b, p)' <=> a = b /\ p \in PagesOf(both)
                 /\ ListedIn(b, p)' <=> \E y \in ToSet(unpinned_list'[b]) : p \in PagesOf(range'[y])
                 /\ PurgedIn(b, p)' <=> \E y \in ToSet(unpinned_list'[b]) : range'[y].purged /\ p \in PagesOf(range'[y])
  <2>1. Bounds' = range'
    BY <1>22 DEF Bounds
  <2>. QED
    BY <2>1, <1>20, <1>22 DEF Pending, ListedIn, PurgedIn
<1>27. \A b, p : /\ Pending(b, p) <=> a = b /\ p \in PagesOf(q)
                 /\ ListedIn(b, p) <=> \E y \in ToSet(unpinned_list[b]) : p \in PagesOf(range[y])
                 /\ PurgedIn(b, p) <=> \E y \in ToSet(unpinned_list[b]) : range[y].purged /\ p \in PagesOf(range[y])
  BY <1>1, <1>3, <1>4, WalkPages
<1>28. \A b \in Areas : x \in ToSet(unpinned_list[b]) => b = a
  BY <1>8, ListedRange
<1>29. ASSUME NEW b \in Areas, NEW p \in Int
       PROVE  /\ ListedIn(b, p)' <=> \E y \in ToSet(unpinned_list[b]) \ {x} : p \in PagesOf(range[y])
              /\ PurgedIn(b, p)' <=> \E y \in ToSet(unpinned_list[b]) \ {x} : range[y].purged /\ p \in PagesOf(range[y])
  <2>1. /\ ToSet(unpinned_list'[b]) = ToSet(unpinned_list[b]) \ {x}
        /\ \A y \in ToSet(unpinned_list'[b]) : range'[y] = range[y]
    BY <1>17
  <2>2. ListedIn(b, p)' <=> \E y \in ToSet(unpinned_list'[b]) : p \in PagesOf(range'[y])
    BY <1>26
  <2>3. PurgedIn(b, p)' <=> \E y \in ToSet(unpinned_list'[b]) : range'[y].purged /\ p \in PagesOf(range'[y])
    BY <1>26
  <2>4. ListedIn(b, p)' <=> \E y \in ToSet(unpinned_list[b]) \ {x} : p \in PagesOf(range[y])
    BY <2>1, <2>2
  <2>5. PurgedIn(b, p)' <=> \E y \in ToSet(unpinned_list[b]) \ {x} : range[y].purged /\ p \in PagesOf(range[y])
    BY <2>1, <2>3
  <2>. QED
    BY <2>4, <2>5
<1>30. ASSUME NEW b \in Areas, NEW p \in Int
       PROVE  ListedIn(b, p)' \/ Pending(b, p)' <=> ListedIn(b, p) \/ Pending(b, p)
  BY <1>8, <1>11, <1>26, <1>27, <1>28, <1>29
<1>31. holder.op # "stuck"
  BY <1>1 DEF Walking
<1>32. PagesOK'
  BY <1>24, <1>30, <1>31 DEF PagesOK
<1>33. PurgedOK'
  <2>. SUFFICES ASSUME NEW b \in Areas, NEW p \in gone[b], p \notin forgotten[b]
                PROVE  PurgedIn(b, p)' \/ (Pending(b, p)' /\ holder'.purged /\ ~ ListedIn(b, p)')
    BY <1>24 DEF PurgedOK
  <2>1. p \in Int
    BY DEF HistoryOK
  <2>2. PurgedIn(b, p) \/ (Pending(b, p) /\ holder.purged /\ ~ ListedIn(b, p))
    BY <1>1, <1>31 DEF PurgedOK
  <2>3. CASE Pending(b, p) /\ holder.purged /\ ~ ListedIn(b, p)
    <3>1. Pending(b, p)'
      BY <2>1, <2>3, <1>11, <1>26, <1>27
    <3>2. ~ ListedIn(b, p)'
      BY <2>1, <2>3, <1>27, <1>29
    <3>3. holder'.purged
      BY <2>3, <1>20
    <3>. QED
      BY <3>1, <3>2, <3>3
  <2>4. CASE PurgedIn(b, p)
    <3>1. PICK y \in ToSet(unpinned_list[b]) : range[y].purged /\ p \in PagesOf(range[y])
      BY <2>4, <1>27
    <3>2. CASE y # x
      BY <3>1, <3>2, <2>1, <1>29
    <3>3. CASE y = x
      <4>1. b = a
        BY <3>1, <3>3, <1>28
      <4>2. Pending(b, p)'
        BY <4>1, <3>1, <3>3, <2>1, <1>11, <1>26
      <4>3. holder'.purged
        BY <3>1, <3>3, <1>20
      <4>4. ASSUME NEW z \in ToSet(unpinned_list[b]), z # x, p \in PagesOf(range[z]) PROVE FALSE
        <5>1. range[z].pgend < range[x].pgstart \/ range[x].pgend < range[z].pgstart
          BY <4>1, <4>4, <1>8, Apart
        <5>2. range[z].pgstart \in Int /\ range[z].pgend \in Int
          BY <4>4, ListedRange
        <5>. QED
          BY <5>1, <5>2, <4>4, <3>1, <3>3, <2>1, <1>9 DEF PagesOf
      <4>5. ~ ListedIn(b, p)'
        BY <4>4, <2>1, <1>29
      <4>. QED
        BY <4>2, <4>3, <4>5
    <3>. QED
      BY <3>2, <3>3
  <2>. QED
    BY <2>2, <2>3, <2>4
<1>. QED
  BY <1>16, <1>18, <1>23, <1>25, <1>32, <1>33

LEMMA UnpinSubsumedOK == ASSUME AshmemInv, UnpinSubsumed PROVE AshmemInv'
<1>. USE DEF AshmemInv
<1>1. Walking
  BY DEF UnpinSubsumed, Walking
<1>2. /\ holder \in [op : {"walk"}, area : Areas, q : Request, purged : BOOLEAN]
      /\ holder.q.pgend >= holder.q.pgstart - 1
  BY <1>1 DEF HolderOK
<1>3. PICK a \in Areas : a = holder.area
  BY <1>2
<1>4. PICK q \in Request : q = holder.q
  BY <1>2
<1>5. q.pgstart \in Nat /\ q.pgend \in Int
  BY <1>4 DEF Request
<1>6. PICK x : x = FirstHit(a, q)
  OBVIOUS
<1>7. x \in Hit(a, q) /\ page_range_subsumed_by_range(range[x], q)
  BY <1>3, <1>4, <1>5, <1>6, FirstHitIs DEF UnpinSubsumed
<1>8. x \in ToSet(unpinned_list[a])
  BY <1>5, <1>7, HitIs
<1>9. holder' = Nobody /\ UNCHANGED <<areaVars, listVars, historyVars>>
  BY DEF UnpinSubsumed
<1>10. RangesOK' /\ ListsOK' /\ LruOK'
  BY <1>9, ListsStay
<1>11. AreasOK'
  BY <1>9 DEF AreasOK, areaVars, listVars
<1>12. HolderOK' /\ Quiet'
  BY <1>9, NobodyOK
<1>13. HistoryOK'
  BY <1>9, HistoryStays
<1>14. /\ range' = range /\ unpinned_list' = unpinned_list
       /\ unpinned' = unpinned /\ gone' = gone /\ forgotten' = forgotten
  BY <1>9 DEF listVars, historyVars
<1>15. \A b, p : /\ ~ Pending(b, p)'
                 /\ ListedIn(b, p)' <=> ListedIn(b, p)
                 /\ PurgedIn(b, p)' <=> PurgedIn(b, p)
  <2>1. ~ Walking' /\ ~ Allocating' /\ ~ Allocating
    BY <1>1, <1>12 DEF Quiet, Walking, Allocating
  <2>2. Bounds' = range' /\ Bounds = range
    BY <2>1 DEF Bounds
  <2>. QED
    BY <2>1, <2>2, <1>14 DEF Pending, ListedIn, PurgedIn
<1>16. ASSUME NEW b \in Areas, NEW p \in Int, Pending(b, p) PROVE ListedIn(b, p)
  <2>1. b = a /\ p \in PagesOf(q)
    BY <1>1, <1>3, <1>4, <1>16, WalkPages
  <2>2. range[x].pgstart \in Int /\ range[x].pgend \in Int
    BY <1>8, ListedRange
  <2>3. p \in PagesOf(range[x])
    BY <2>1, <2>2, <1>5, <1>7 DEF PagesOf, page_range_subsumed_by_range
  <2>. QED
    BY <2>1, <2>3, <1>1, <1>8, WalkPages
<1>17. holder.op # "stuck"
  BY <1>1 DEF Walking
<1>18. PagesOK'
  BY <1>14, <1>15, <1>16, <1>17 DEF PagesOK
<1>19. PurgedOK'
  <2>. SUFFICES ASSUME NEW b \in Areas, NEW p \in gone[b], p \notin forgotten[b]
                PROVE  PurgedIn(b, p)'
    BY <1>14 DEF PurgedOK
  <2>1. p \in Int
    BY DEF HistoryOK
  <2>2. PurgedIn(b, p) \/ (Pending(b, p) /\ ~ ListedIn(b, p))
    BY <1>1, <1>17 DEF PurgedOK
  <2>. QED
    BY <2>1, <2>2, <1>15, <1>16
<1>. QED
  BY <1>10, <1>11, <1>12, <1>13, <1>18, <1>19

\* With no range to merge, those that the walk has seen are after the pages.
LEMMA VisitedAfter ==
    ASSUME RangesOK, ListsOK, NEW a \in Areas, NEW q \in Request, Hit(a, q) = {},
           NEW x \in Visited(a, q)
    PROVE  range[x].pgstart > q.pgend
<1>1. q.pgstart \in Nat /\ q.pgend \in Int
  BY DEF Request
<1>2. x \in ToSet(unpinned_list[a]) /\ range[x].pgend >= q.pgstart
  BY <1>1, VisitedIs
<1>3. ~ page_range_in_range(range[x], q)
  BY <1>1, <1>2, HitIs
<1>4. range[x].pgstart \in Nat /\ range[x].pgend \in Int
  BY <1>2, ListedRange
<1>. QED
  BY <1>1, <1>2, <1>3, <1>4 DEF page_range_in_range, page_in_range, page_range_subsumes_range

\* The insertion point of ashmem_unpin is the right one.
LEMMA InsertionPoint ==
    ASSUME RangesOK, ListsOK, NEW a \in Areas, NEW q \in Request, Hit(a, q) = {},
           NEW rest, rest = Without(unpinned_list[a], Visited(a, q)),
           NEW prev, prev = IF rest = << >> THEN ListHead ELSE Head(rest)
    PROVE  Fits(unpinned_list[a], range, q, prev)
<1>. DEFINE list == unpinned_list[a]
            V == Visited(a, q)
            k == Place(list, prev)
<1>1. q.pgstart \in Nat /\ q.pgend \in Int
  BY DEF Request
<1>2. list \in Seq(Ranges) /\ IsInjective(list) /\ Descending(list, range)
  BY DEF ListsOK
<1>3. rest \in Seq(Ranges) /\ ToSet(rest) = ToSet(list) \ V /\ InOrder(rest, list) /\ IsInjective(rest)
  BY <1>2, WithoutIs
<1>4. \A x \in V : range[x].pgstart > q.pgend
  BY VisitedAfter
<1>5. V = {x \in ToSet(list) : range[x].pgend >= q.pgstart}
  BY <1>1, VisitedIs
<1>. HIDE DEF V
<1>6. /\ Len(list) \in Nat /\ DOMAIN list = 1 .. Len(list)
      /\ \A i \in 1 .. Len(list) : list[i] \in ToSet(list)
  BY ListedAt
<1>7. \A x \in ToSet(list) : /\ x \in Ranges /\ range[x].pgstart \in Nat /\ range[x].pgend \in Int
                             /\ range[x].pgend >= range[x].pgstart - 1
  BY ListedRange
<1>8. CASE rest = << >>
  <2>1. ToSet(list) \subseteq V
    BY <1>3, <1>8 DEF ToSet
  <2>2. prev = ListHead /\ k = Len(list) + 1
    BY <1>8 DEF Place
  <2>3. \A j \in 1 .. Len(list) : j < k /\ range[list[j]].pgstart > q.pgend
    BY <2>1, <2>2, <1>4, <1>6
  <2>. QED
    BY <2>2, <2>3 DEF Fits
<1>9. CASE rest # << >>
  <2>1. prev = rest[1] /\ 1 \in 1 .. Len(rest) /\ Len(rest) \in Nat /\ DOMAIN rest = 1 .. Len(rest)
    BY <1>3, <1>9
  <2>2. prev \in ToSet(list) /\ prev \notin V
    BY <2>1, <1>3 DEF ToSet
  <2>3. prev # ListHead
    BY <2>2, <1>7, AshmemAssumption
  <2>4. \E i \in 1 .. Len(list) : list[i] = prev
    BY <2>2, <1>6 DEF ToSet
  <2>5. k \in 1 .. Len(list) /\ list[k] = prev
    BY <2>3, <2>4 DEF Place
  <2>. HIDE DEF k
  <2>6. range[prev].pgend < q.pgstart
    BY <2>2, <1>1, <1>5, <1>7
  <2>7. ASSUME NEW j \in 1 .. Len(list), j < k PROVE range[list[j]].pgstart > q.pgend
    <3>. SUFFICES ASSUME list[j] \notin V PROVE FALSE
      BY <1>4
    <3>1. list[j] \in ToSet(rest)
      BY <1>3, <1>6
    <3>2. PICK m \in 1 .. Len(rest) : list[j] = rest[m]
      BY <3>1, <2>1 DEF ToSet
    <3>3. list[j] # list[k]
      BY <2>5, <2>7, <1>2, <1>6 DEF IsInjective
    <3>4. m # 1
      BY <3>2, <3>3, <2>1, <2>5
    <3>5. 1 < m
      BY <3>4, <2>1
    <3>6. PICK k1 \in 1 .. Len(list), l1 \in 1 .. Len(list) : k1 < l1 /\ rest[1] = list[k1] /\ rest[m] = list[l1]
      BY <3>5, <2>1, <1>3 DEF InOrder
    <3>7. k1 = k /\ l1 = j
      BY <3>2, <3>6, <2>1, <2>5, <1>2, <1>6 DEF IsInjective
    <3>. QED
      BY <3>6, <3>7, <2>7, <2>5, <1>6
  <2>8. ASSUME NEW j \in 1 .. Len(list), ~ (j < k) PROVE range[list[j]].pgend < q.pgstart
    <3>1. CASE j = k
      BY <3>1, <2>5, <2>6
    <3>2. CASE k < j
      <4>1. range[list[j]].pgend < range[prev].pgstart
        BY <3>2, <2>5, <1>2 DEF Descending
      <4>2. range[list[j]].pgend \in Int /\ range[prev].pgstart \in Nat /\ range[prev].pgend \in Int
            /\ range[prev].pgend >= range[prev].pgstart - 1
        BY <2>2, <1>6, <1>7
      <4>. QED
        BY <4>1, <4>2, <2>6, <1>1
    <3>. QED
      BY <3>1, <3>2, <2>5, <2>8
  <2>. QED
    BY <2>2, <2>7, <2>8 DEF Fits, k
<1>. QED
  BY <1>8, <1>9

LEMMA UnpinAllocOK == ASSUME AshmemInv, UnpinAlloc PROVE AshmemInv'
<1>. USE DEF AshmemInv
<1>1. Walking
  BY DEF UnpinAlloc, Walking
<1>2. /\ holder \in [op : {"walk"}, area : Areas, q : Request, purged : BOOLEAN]
      /\ file[holder.area] # 0 /\ holder.q.pgend >= holder.q.pgstart - 1
  BY <1>1 DEF HolderOK
<1>3. PICK a \in Areas : a = holder.area
  BY <1>2
<1>4. PICK q \in Request : q = holder.q
  BY <1>2
<1>5. PICK rest : rest = Without(unpinned_list[a], Visited(a, q))
  OBVIOUS
<1>6. PICK prev : prev = IF rest = << >> THEN ListHead ELSE Head(rest)
  OBVIOUS
<1>7. /\ Hit(a, q) = {}
      /\ holder' = [op |-> "unpin", area |-> a, q |-> q, purged |-> holder.purged,
                    prev_range |-> prev, to |-> << >>]
      /\ UNCHANGED <<areaVars, listVars, historyVars>>
  BY <1>3, <1>4, <1>5, <1>6 DEF UnpinAlloc
<1>8. Fits(unpinned_list[a], range, q, prev)
  BY <1>5, <1>6, <1>7, InsertionPoint
<1>9. RangesOK' /\ ListsOK' /\ LruOK'
  BY <1>7, ListsStay
<1>10. AreasOK'
  BY <1>7 DEF AreasOK, areaVars, listVars
<1>11. /\ holder'.op = "unpin" /\ holder'.area = a /\ holder'.q = q /\ holder'.purged = holder.purged
       /\ holder'.prev_range = prev /\ holder'.to = << >>
  BY <1>7
<1>12. /\ range' = range /\ unpinned_list' = unpinned_list
       /\ unpinned' = unpinned /\ gone' = gone /\ forgotten' = forgotten /\ file' = file
  BY <1>7 DEF listVars, historyVars, areaVars
<1>13. (range_shrink(holder.to))' = range /\ Within(holder.area, holder.to)'
  <2>1. DOMAIN holder'.to = {}
    BY <1>11
  <2>2. (range_shrink(holder.to))' = range
    BY <2>1, <1>12 DEF range_shrink, RangesOK
  <2>3. Within(holder.area, holder.to)'
    BY <2>1 DEF Within
  <2>. QED
    BY <2>2, <2>3
<1>14. Allocating' /\ ~ Walking' /\ ~ Allocating
  BY <1>1, <1>11 DEF Walking, Allocating
<1>15. HolderOK'
  <2>1. holder.purged \in BOOLEAN
    BY <1>2
  <2>. QED
    BY <2>1, <1>2, <1>3, <1>4, <1>8, <1>11, <1>12, <1>13, <1>14 DEF HolderOK
<1>16. HistoryOK'
  BY <1>7, HistoryStays
<1>17. \A b, p : /\ Pending(b, p)' <=> Pending(b, p)
                 /\ ListedIn(b, p)' <=> ListedIn(b, p)
                 /\ PurgedIn(b, p)' <=> PurgedIn(b, p)
  <2>1. Bounds' = range /\ Bounds = range
    BY <1>13, <1>14 DEF Bounds
  <2>. QED
    BY <2>1, <1>1, <1>3, <1>4, <1>11, <1>12, <1>14 DEF Pending, ListedIn, PurgedIn
<1>18. holder.op # "stuck"
  BY <1>1 DEF Walking
<1>19. PagesOK'
  BY <1>12, <1>17, <1>18 DEF PagesOK
<1>20. PurgedOK'
  BY <1>11, <1>12, <1>14, <1>17, <1>18 DEF PurgedOK
<1>. QED
  BY <1>9, <1>10, <1>15, <1>16, <1>19, <1>20

----------------------------------------------------------------------------
(* The end of an allocation. *)

LEMMA AllocPages ==
    ASSUME Allocating, NEW a, NEW p
    PROVE  /\ Pending(a, p) <=> holder.area = a /\ p \in PagesOf(holder.q)
           /\ ListedIn(a, p) <=> \E x \in ToSet(unpinned_list[a]) : p \in PagesOf(range_shrink(holder.to)[x])
           /\ PurgedIn(a, p) <=> \E x \in ToSet(unpinned_list[a]) :
                                    /\ range_shrink(holder.to)[x].purged
                                    /\ p \in PagesOf(range_shrink(holder.to)[x])
<1>1. Bounds = range_shrink(holder.to)
  BY DEF Bounds
<1>. QED
  BY <1>1 DEF Pending, ListedIn, PurgedIn

LEMMA AllocSucceedsInv == ASSUME AshmemInv, NEW x \in Ranges, AllocSucceeds(x) PROVE AshmemInv'
<1>. USE DEF AshmemInv
<1>. DEFINE rs == range_shrink(holder.to)
<1>1. RangesOK' /\ ListsOK' /\ LruOK'
  BY AllocSucceedsOK
<1>2. /\ holder.area \in Areas /\ Within(holder.area, holder.to) /\ Allocating
      /\ ~ InUse(x) /\ InUse(x)' /\ range'[x].asma = holder.area
      /\ range'[x].purged = holder.purged
      /\ range'[x].pgstart = holder.q.pgstart /\ range'[x].pgend = holder.q.pgend
      /\ \A y \in Ranges : y # x => range'[y] = rs[y]
  BY AllocatedIs
<1>3. PICK a \in Areas : a = holder.area
  BY <1>2
<1>4. PICK q : q = holder.q
  OBVIOUS
<1>5. holder' = Nobody /\ UNCHANGED <<areaVars, historyVars>>
  BY DEF AllocSucceeds
<1>6. HolderOK' /\ Quiet'
  BY <1>5, NobodyOK
<1>7. HistoryOK'
  BY <1>5, HistoryStays
<1>8. PagesOf(range'[x]) = PagesOf(q)
  BY <1>2, <1>4 DEF PagesOf
<1>. HIDE DEF rs
<1>9. ASSUME NEW b \in Areas
      PROVE  /\ ToSet(unpinned_list'[b]) = ToSet(unpinned_list[b]) \cup (IF b = a THEN {x} ELSE {})
             /\ \A y \in ToSet(unpinned_list[b]) : y # x /\ range'[y] = rs[y]
  <2>1. ToSet(unpinned_list[b]) = {y \in Ranges : InUse(y) /\ range[y].asma = b}
    BY DEF ListsOK
  <2>2. ToSet(unpinned_list'[b]) = {y \in Ranges : InUse(y)' /\ range'[y].asma = b}
    BY <1>1 DEF ListsOK
  <2>3. \A y \in Ranges : y # x => /\ InUse(y)' <=> InUse(y)
                                   /\ InUse(y) => range'[y].asma = range[y].asma
    <3>. TAKE y \in Ranges
    <3>. HAVE y # x
    <3>1. range'[y] = rs[y]
      BY <1>2
    <3>. QED
      BY <3>1, <1>2, ShrinkInUse DEF InUse, rs
  <2>4. ToSet(unpinned_list'[b]) = ToSet(unpinned_list[b]) \cup (IF b = a THEN {x} ELSE {})
    BY <2>1, <2>2, <2>3, <1>2, <1>3
  <2>. QED
    BY <2>1, <2>4, <1>2
<1>10. AreasOK'
  <2>1. unpinned_list' = [unpinned_list EXCEPT ![a] = InsertBefore(@, x, holder.prev_range)]
    BY <1>3 DEF AllocSucceeds
  <2>2. \A b \in Areas \ {a} : unpinned_list'[b] = unpinned_list[b]
    BY <2>1 DEF ListsOK
  <2>3. file[a] # 0
    BY <1>2, <1>3 DEF HolderOK
  <2>. QED
    BY <2>2, <2>3, <1>5 DEF AreasOK, areaVars
<1>11. ASSUME NEW b \in Areas, NEW p
       PROVE  /\ ~ Pending(b, p)'
              /\ ListedIn(b, p)' <=> ListedIn(b, p) \/ Pending(b, p)
              /\ PurgedIn(b, p)' <=> PurgedIn(b, p) \/ (Pending(b, p) /\ holder.purged)
  <2>1. Bounds' = range' /\ ~ Walking' /\ ~ Allocating'
    BY <1>6 DEF Bounds, Quiet, Walking, Allocating
  <2>2. ListedIn(b, p)' <=> \E y \in ToSet(unpinned_list'[b]) : p \in PagesOf(range'[y])
    BY <2>1 DEF ListedIn
  <2>3. PurgedIn(b, p)' <=> \E y \in ToSet(unpinned_list'[b]) : range'[y].purged /\ p \in PagesOf(range'[y])
    BY <2>1 DEF PurgedIn
  <2>4. /\ Pending(b, p) <=> b = a /\ p \in PagesOf(range'[x])
        /\ ListedIn(b, p) <=> \E y \in ToSet(unpinned_list[b]) : p \in PagesOf(rs[y])
        /\ PurgedIn(b, p) <=> \E y \in ToSet(unpinned_list[b]) : rs[y].purged /\ p \in PagesOf(rs[y])
    BY <1>2, <1>3, <1>4, <1>8, AllocPages DEF rs
  <2>5. /\ ListedIn(b, p) <=> \E y \in ToSet(unpinned_list[b]) : p \in PagesOf(range'[y])
        /\ PurgedIn(b, p) <=> \E y \in ToSet(unpinned_list[b]) : range'[y].purged /\ p \in PagesOf(range'[y])
    BY <2>4, <1>9
  <2>6. ~ Pending(b, p)'
    BY <2>1 DEF Pending
  <2>7. CASE b = a
    <3>1. ToSet(unpinned_list'[b]) = ToSet(unpinned_list[b]) \cup {x}
      BY <2>7, <1>9
    <3>. QED
      BY <3>1, <2>2, <2>3, <2>4, <2>5, <2>6, <2>7, <1>2
  <2>8. CASE b # a
    <3>1. ToSet(unpinned_list'[b]) = ToSet(unpinned_list[b])
      BY <2>8, <1>9
    <3>. QED
      BY <3>1, <2>2, <2>3, <2>4, <2>5, <2>6, <2>8
  <2>. QED
    BY <2>7, <2>8
<1>12. /\ unpinned' = unpinned /\ gone' = gone /\ forgotten' = forgotten /\ holder.op # "stuck"
  BY <1>2, <1>5 DEF historyVars, Allocating
<1>13. PagesOK'
  BY <1>11, <1>12 DEF PagesOK
<1>14. PurgedOK'
  BY <1>11, <1>12 DEF PurgedOK
<1>. QED
  BY <1>1, <1>6, <1>7, <1>10, <1>13, <1>14

LEMMA AllocFailsInv == ASSUME AshmemInv, AllocFails PROVE AshmemInv'
<1>. USE DEF AshmemInv
<1>1. RangesOK' /\ ListsOK' /\ LruOK'
  BY AllocFailsOK
<1>2. Allocating
  BY DEF AllocFails, Allocating
<1>3. /\ range' = range_shrink(holder.to) /\ unpinned_list' = unpinned_list
      /\ forgotten' = [forgotten EXCEPT ![holder.area] = @ \cup PagesOf(holder.q)]
      /\ holder' = Nobody
      /\ UNCHANGED areaVars /\ unpinned' = unpinned /\ gone' = gone
  BY DEF AllocFails
<1>4. HolderOK' /\ Quiet'
  BY <1>3, NobodyOK
<1>5. AreasOK'
  BY <1>3, AreasStay
<1>6. holder.area \in Areas /\ holder.q \in Request
  BY <1>2 DEF HolderOK
<1>7. ASSUME NEW b \in Areas, NEW p
      PROVE  /\ ~ Pending(b, p)'
             /\ ListedIn(b, p)' <=> ListedIn(b, p)
             /\ PurgedIn(b, p)' <=> PurgedIn(b, p)
             /\ p \in forgotten'[b] <=> p \in forgotten[b] \/ Pending(b, p)
  <2>1. Bounds' = range' /\ ~ Walking' /\ ~ Allocating'
    BY <1>4 DEF Bounds, Quiet, Walking, Allocating
  <2>2. Bounds = range'
    BY <1>2, <1>3 DEF Bounds
  <2>3. ~ Pending(b, p)' /\ (ListedIn(b, p)' <=> ListedIn(b, p)) /\ (PurgedIn(b, p)' <=> PurgedIn(b, p))
    BY <2>1, <2>2, <1>3 DEF Pending, ListedIn, PurgedIn
  <2>4. p \in forgotten'[b] <=> p \in forgotten[b] \/ (b = holder.area /\ p \in PagesOf(holder.q))
    BY <1>3, <1>6 DEF HistoryOK
  <2>. QED
    BY <2>3, <2>4, <1>2, AllocPages
<1>8. holder.op # "stuck"
  BY <1>2 DEF Allocating
<1>9. PagesOK'
  BY <1>3, <1>7, <1>8 DEF PagesOK
<1>10. PurgedOK'
  <2>. SUFFICES ASSUME NEW b \in Areas, NEW p \in gone[b], p \notin forgotten'[b]
                PROVE  PurgedIn(b, p)'
    BY <1>3 DEF PurgedOK
  <2>1. p \notin forgotten[b] /\ ~ Pending(b, p)
    BY <1>7
  <2>2. PurgedIn(b, p)
    BY <2>1, <1>8 DEF PurgedOK
  <2>. QED
    BY <2>2, <1>7
<1>11. HistoryOK'
  <2>1. PagesOf(holder.q) \subseteq Int
    BY <1>6 DEF PagesOf, Request
  <2>2. forgotten' \in [Areas -> SUBSET Int]
    BY <2>1, <1>3, <1>6 DEF HistoryOK
  <2>3. ASSUME NEW b \in Areas PROVE forgotten'[b] \subseteq unpinned[b]
    <3>1. \A p : p \in forgotten'[b] => p \in Int
      BY <2>2
    <3>2. \A p \in Int : p \in forgotten'[b] => p \in unpinned[b]
      BY <1>7, <1>8 DEF PagesOK, HistoryOK
    <3>. QED
      BY <3>1, <3>2
  <2>. QED
    BY <2>2, <2>3, <1>3 DEF HistoryOK
<1>. QED
  BY <1>1, <1>4, <1>5, <1>9, <1>10, <1>11

----------------------------------------------------------------------------
(* The shrinker, and the end of an area. *)

LEMMA ShrinkInv == ASSUME AshmemInv, NEW n, ashmem_shrink(n) PROVE AshmemInv'
<1>. USE DEF AshmemInv
<1>1. /\ RangesOK' /\ ListsOK' /\ LruOK'
      /\ \A x \in Ranges : /\ InUse(x)' <=> InUse(x)
                           /\ InUse(x) => /\ range'[x].asma = range[x].asma
                                          /\ range'[x].pgstart = range[x].pgstart
                                          /\ range'[x].pgend = range[x].pgend
                                          /\ range'[x].purged <=> range[x].purged \/ x \in Victims(n)
  BY ShrinkerOK
<1>2. PICK V : V = Victims(n)
  OBVIOUS
<1>3. /\ holder = Nobody /\ holder' = Nobody
      /\ gone' = [a \in Areas |-> gone[a] \cup UNION {PagesOf(range[x]) : x \in {y \in V : range[y].asma = a}}]
      /\ UNCHANGED areaVars /\ unpinned_list' = unpinned_list /\ unpinned' = unpinned /\ forgotten' = forgotten
  BY <1>2 DEF ashmem_shrink
<1>4. \A x \in V : x \in Ranges /\ InUse(x)
  BY <1>2, VictimsOnLru, LruRange
<1>5. HolderOK' /\ Quiet' /\ Quiet /\ holder.op # "stuck"
  BY <1>3, NobodyOK DEF Quiet, Nobody
<1>6. AreasOK'
  BY <1>3, AreasStay
<1>7. ASSUME NEW b \in Areas, NEW x \in ToSet(unpinned_list[b])
      PROVE  /\ PagesOf(range'[x]) = PagesOf(range[x])
             /\ range'[x].purged <=> range[x].purged \/ x \in V
  BY <1>1, <1>2, ListedRange DEF PagesOf
<1>8. ASSUME NEW b \in Areas, NEW x \in V, range[x].asma = b PROVE x \in ToSet(unpinned_list[b])
  BY <1>4, <1>8 DEF ListsOK
<1>9. ASSUME NEW b \in Areas, NEW p
      PROVE  /\ ~ Pending(b, p)' /\ ~ Pending(b, p)
             /\ ListedIn(b, p)' <=> ListedIn(b, p)
             /\ PurgedIn(b, p) => PurgedIn(b, p)'
             /\ p \in gone'[b] => p \in gone[b] \/ (ListedIn(b, p) /\ PurgedIn(b, p)')
  <2>1. Bounds' = range' /\ Bounds = range /\ ~ Walking' /\ ~ Allocating' /\ ~ Walking /\ ~ Allocating
    BY <1>5 DEF Bounds, Quiet, Walking, Allocating
  <2>2. ~ Pending(b, p)' /\ ~ Pending(b, p)
    BY <2>1 DEF Pending
  <2>3. /\ ListedIn(b, p)' <=> \E x \in ToSet(unpinned_list[b]) : p \in PagesOf(range'[x])
        /\ ListedIn(b, p) <=> \E x \in ToSet(unpinned_list[b]) : p \in PagesOf(range[x])
    BY <2>1, <1>3 DEF ListedIn
  <2>4. /\ PurgedIn(b, p)' <=> \E x \in ToSet(unpinned_list[b]) : range'[x].purged /\ p \in PagesOf(range'[x])
        /\ PurgedIn(b, p) <=> \E x \in ToSet(unpinned_list[b]) : range[x].purged /\ p \in PagesOf(range[x])
    BY <2>1, <1>3 DEF PurgedIn
  <2>5. (ListedIn(b, p)' <=> ListedIn(b, p)) /\ (PurgedIn(b, p) => PurgedIn(b, p)')
    BY <2>3, <2>4, <1>7
  <2>6. ASSUME p \in gone'[b], p \notin gone[b] PROVE ListedIn(b, p) /\ PurgedIn(b, p)'
    <3>1. PICK x \in V : range[x].asma = b /\ p \in PagesOf(range[x])
      BY <2>6, <1>3
    <3>. QED
      BY <3>1, <2>3, <2>4, <1>7, <1>8
  <2>. QED
    BY <2>2, <2>5, <2>6
<1>10. PagesOK'
  BY <1>3, <1>5, <1>9 DEF PagesOK
<1>11. PurgedOK'
  BY <1>3, <1>5, <1>9 DEF PurgedOK
<1>12. HistoryOK'
  <2>1. ASSUME NEW b \in Areas, NEW p \in gone'[b] PROVE p \in Int /\ p \in unpinned[b]
    <3>1. CASE p \in gone[b]
      BY <3>1 DEF HistoryOK
    <3>2. CASE p \notin gone[b]
      <4>1. PICK x \in V : range[x].asma = b /\ p \in PagesOf(range[x])
        BY <2>1, <3>2, <1>3
      <4>2. range[x].pgstart \in Int /\ range[x].pgend \in Int
        BY <4>1, <1>8, ListedRange
      <4>3. p \in Int
        BY <4>1, <4>2 DEF PagesOf
      <4>4. ListedIn(b, p)
        BY <2>1, <3>2, <1>9
      <4>. QED
        BY <4>3, <4>4, <1>5 DEF PagesOK
    <3>. QED
      BY <3>1, <3>2
  <2>2. gone' \in [Areas -> SUBSET Int]
    BY <2>1, <1>3
  <2>. QED
    BY <2>1, <2>2, <1>3 DEF HistoryOK
<1>. QED
  BY <1>1, <1>5, <1>6, <1>10, <1>11, <1>12

LEMMA ReleaseOK == ASSUME AshmemInv, NEW a \in Areas, ashmem_release(a) PROVE AshmemInv'
<1>. USE DEF AshmemInv
<1>1. /\ holder = Nobody /\ holder' = Nobody
      /\ open' = open \ {a}
      /\ size' = [size EXCEPT ![a] = 0]
      /\ file' = [file EXCEPT ![a] = 0]
      /\ DeleteAndShrink(a, ToSet(unpinned_list[a]), << >>)
      /\ unpinned' = [unpinned EXCEPT ![a] = {}]
      /\ gone' = [gone EXCEPT ![a] = {}]
      /\ forgotten' = [forgotten EXCEPT ![a] = {}]
  BY DEF ashmem_release
<1>2. PICK s : s = ToSet(unpinned_list[a])
  OBVIOUS
<1>3. PICK to : to = << >>
  OBVIOUS
<1>4. Within(a, to) /\ range_shrink(to) = range /\ s \cap DOMAIN to = {} /\ s \subseteq ToSet(unpinned_list[a])
  BY <1>2, <1>3, NoShrink
<1>5. DeleteAndShrink(a, s, to)
  BY <1>1, <1>2, <1>3
<1>6. RangesOK' /\ ListsOK' /\ LruOK'
  BY <1>4, <1>5, DeleteAndShrinkOK
<1>7. \A b \in Areas :
          /\ ToSet(unpinned_list'[b]) = ToSet(unpinned_list[b]) \ s
          /\ \A y \in ToSet(unpinned_list'[b]) : range'[y] = range[y]
          /\ unpinned_list[b] = << >> => unpinned_list'[b] = << >>
  BY <1>4, <1>5, FreedLists
<1>8. \A b \in Areas \ {a} : unpinned_list'[b] = unpinned_list[b]
  BY <1>4, <1>5, DeleteAndShrinkOK
<1>9. unpinned_list'[a] = << >> /\ ToSet(unpinned_list'[a]) = {}
  <2>1. ToSet(unpinned_list'[a]) = {}
    BY <1>2, <1>7
  <2>2. unpinned_list'[a] \in Seq(Ranges)
    BY <1>6 DEF ListsOK
  <2>. QED
    BY <2>1, <2>2, EmptyList
<1>10. HolderOK' /\ Quiet' /\ Quiet /\ holder.op # "stuck"
  BY <1>1, NobodyOK DEF Quiet, Nobody
<1>11. AreasOK'
  BY <1>1, <1>8, <1>9 DEF AreasOK
<1>12. /\ unpinned'[a] = {} /\ gone'[a] = {} /\ forgotten'[a] = {}
       /\ \A b \in Areas \ {a} : unpinned'[b] = unpinned[b] /\ gone'[b] = gone[b] /\ forgotten'[b] = forgotten[b]
  BY <1>1 DEF HistoryOK
<1>13. HistoryOK'
  BY <1>1, <1>12 DEF HistoryOK
<1>14. \A b, p : /\ ~ Pending(b, p)' /\ ~ Pending(b, p)
                 /\ ListedIn(b, p)' <=> \E x \in ToSet(unpinned_list'[b]) : p \in PagesOf(range'[x])
                 /\ PurgedIn(b, p)' <=> \E x \in ToSet(unpinned_list'[b]) : range'[x].purged /\ p \in PagesOf(range'[x])
  <2>1. Bounds' = range' /\ ~ Walking' /\ ~ Allocating'
    BY <1>10 DEF Bounds, Quiet, Walking, Allocating
  <2>. QED
    BY <2>1, <1>10, QuietPages DEF Pending, ListedIn, PurgedIn
<1>15. ASSUME NEW b \in Areas, b # a, NEW p
       PROVE  (ListedIn(b, p)' <=> ListedIn(b, p)) /\ (PurgedIn(b, p)' <=> PurgedIn(b, p))
  <2>1. unpinned_list'[b] = unpinned_list[b] /\ \A y \in ToSet(unpinned_list[b]) : range'[y] = range[y]
    BY <1>7, <1>8, <1>15
  <2>. QED
    BY <2>1, <1>10, <1>14, QuietPages
<1>16. \A p : ~ ListedIn(a, p)'
  BY <1>9, <1>14
<1>17. PagesOK'
  BY <1>10, <1>12, <1>14, <1>15, <1>16 DEF PagesOK
<1>18. PurgedOK'
  BY <1>10, <1>12, <1>14, <1>15 DEF PurgedOK
<1>. QED
  BY <1>6, <1>10, <1>11, <1>13, <1>17, <1>18

----------------------------------------------------------------------------
(* ashmem_pin. *)

\* What each case of ashmem_pin leaves of a range is its pages that are not
\* pinned.
LEMMA PinRange ==
    ASSUME RangesOK, ListsOK, NEW a \in Areas, NEW q \in Request, q.pgend >= q.pgstart - 1,
           NEW x \in ToSet(unpinned_list[a])
    PROVE  LET r == range[x]
               left == Remainder(r, q)
           IN  /\ x \in Deleted(a, q) => \A p \in Int : p \in PagesOf(r) => p \in PagesOf(q)
               /\ x \notin Hit(a, q) => \A p \in Int : p \in PagesOf(r) => p \notin PagesOf(q)
               /\ x \in Hit(a, q) \ Deleted(a, q) =>
                     /\ left \in Request
                     /\ left.pgstart >= r.pgstart /\ left.pgend <= r.pgend
                     /\ left.pgend >= left.pgstart - 1
               /\ x \in Hit(a, q) \ (Deleted(a, q) \cup Split(a, q)) =>
                     \A p \in Int : p \in PagesOf(left) <=> p \in PagesOf(r) /\ p \notin PagesOf(q)
               /\ x \in Split(a, q) =>
                     /\ r.pgstart < q.pgstart /\ q.pgend < r.pgend
                     /\ left.pgend = q.pgstart - 1
                     /\ Interval(q.pgend + 1, r.pgend) \in Request
                     /\ \A p \in Int : p \in PagesOf(left) \/ p \in PagesOf(Interval(q.pgend + 1, r.pgend))
                                         <=> p \in PagesOf(r) /\ p \notin PagesOf(q)
<1>. DEFINE r == range[x]
            left == Remainder(r, q)
<1>1. q.pgstart \in Nat /\ q.pgend \in Int
  BY DEF Request
<1>2. r.pgstart \in Nat /\ r.pgend \in Int /\ r.pgend >= r.pgstart - 1
  BY ListedRange
<1>3. x \in Hit(a, q) <=> r.pgend >= q.pgstart /\ page_range_in_range(r, q)
  BY <1>1, HitIs
<1>4. x \in Deleted(a, q) <=> x \in Hit(a, q) /\ r.pgstart >= q.pgstart /\ r.pgend <= q.pgend
  BY DEF Deleted, page_range_subsumes_range
<1>5. x \in Split(a, q) <=> x \in Hit(a, q) /\ r.pgstart < q.pgstart /\ r.pgend > q.pgend
  BY DEF Split
<1>6. \A p \in Int : /\ p \in PagesOf(r) <=> r.pgstart <= p /\ p <= r.pgend
                     /\ p \in PagesOf(q) <=> q.pgstart <= p /\ p <= q.pgend
  BY <1>1, <1>2 DEF PagesOf
<1>7. /\ r.pgstart >= q.pgstart => left = Interval(q.pgend + 1, r.pgend)
      /\ ~ (r.pgstart >= q.pgstart) => left = Interval(r.pgstart, q.pgstart - 1)
  BY DEF Remainder
<1>8. /\ Interval(q.pgend + 1, r.pgend).pgstart = q.pgend + 1
      /\ Interval(q.pgend + 1, r.pgend).pgend = r.pgend
      /\ Interval(q.pgend + 1, r.pgend) \in Request
      /\ \A p \in Int : p \in PagesOf(Interval(q.pgend + 1, r.pgend)) <=> q.pgend + 1 <= p /\ p <= r.pgend
  BY <1>1, <1>2 DEF Interval, Request, PagesOf
<1>9. /\ Interval(r.pgstart, q.pgstart - 1).pgstart = r.pgstart
      /\ Interval(r.pgstart, q.pgstart - 1).pgend = q.pgstart - 1
      /\ Interval(r.pgstart, q.pgstart - 1) \in Request
      /\ \A p \in Int : p \in PagesOf(Interval(r.pgstart, q.pgstart - 1)) <=> r.pgstart <= p /\ p <= q.pgstart - 1
  BY <1>1, <1>2 DEF Interval, Request, PagesOf
<1>. HIDE DEF r, left
<1>10. x \in Deleted(a, q) => \A p \in Int : p \in PagesOf(r) => p \in PagesOf(q)
  BY <1>1, <1>2, <1>4, <1>6
<1>11. x \notin Hit(a, q) => \A p \in Int : p \in PagesOf(r) => p \notin PagesOf(q)
  BY <1>1, OverlapHit DEF r
<1>12. ASSUME x \in Hit(a, q) \ Deleted(a, q)
       PROVE  /\ left \in Request
              /\ left.pgstart >= r.pgstart /\ left.pgend <= r.pgend
              /\ left.pgend >= left.pgstart - 1
  <2>1. page_in_range(r, q.pgstart) \/ page_in_range(r, q.pgend) \/ page_range_subsumes_range(r, q)
    BY <1>3, <1>12 DEF page_range_in_range
  <2>2. r.pgend >= q.pgstart
    BY <1>3, <1>12
  <2>3. CASE r.pgstart >= q.pgstart
    <3>1. r.pgend > q.pgend
      BY <2>3, <1>1, <1>2, <1>4, <1>12
    <3>2. q.pgend + 1 >= r.pgstart
      BY <2>1, <2>3, <3>1, <1>1, <1>2 DEF page_in_range, page_range_subsumes_range
    <3>. QED
      BY <2>3, <3>1, <3>2, <1>1, <1>2, <1>7, <1>8
  <2>4. CASE ~ (r.pgstart >= q.pgstart)
    BY <2>2, <2>4, <1>1, <1>2, <1>7, <1>9
  <2>. QED
    BY <2>3, <2>4
<1>13. ASSUME x \in Hit(a, q) \ (Deleted(a, q) \cup Split(a, q)), NEW p \in Int
       PROVE  p \in PagesOf(left) <=> p \in PagesOf(r) /\ p \notin PagesOf(q)
  <2>1. left.pgstart >= r.pgstart /\ left.pgend <= r.pgend /\ r.pgend >= q.pgstart
    BY <1>3, <1>12, <1>13
  <2>2. CASE r.pgstart >= q.pgstart
    <3>1. p \in PagesOf(left) <=> q.pgend + 1 <= p /\ p <= r.pgend
      BY <2>2, <1>7, <1>8
    <3>2. q.pgend + 1 >= r.pgstart
      BY <2>1, <2>2, <1>7, <1>8
    <3>. QED
      BY <2>2, <3>1, <3>2, <1>1, <1>2, <1>6
  <2>3. CASE ~ (r.pgstart >= q.pgstart)
    <3>1. p \in PagesOf(left) <=> r.pgstart <= p /\ p <= q.pgstart - 1
      BY <2>3, <1>7, <1>9
    <3>2. r.pgend <= q.pgend
      BY <2>3, <1>1, <1>2, <1>5, <1>13
    <3>. QED
      BY <2>1, <3>1, <3>2, <1>1, <1>2, <1>6
  <2>. QED
    BY <2>2, <2>3
<1>14. ASSUME x \in Split(a, q)
       PROVE  /\ r.pgstart < q.pgstart /\ q.pgend < r.pgend
              /\ left = Interval(r.pgstart, q.pgstart - 1)
  BY <1>1, <1>2, <1>5, <1>7, <1>14
<1>15. ASSUME x \in Split(a, q), NEW p \in Int
       PROVE  p \in PagesOf(left) \/ p \in PagesOf(Interval(q.pgend + 1, r.pgend))
                <=> p \in PagesOf(r) /\ p \notin PagesOf(q)
  <2>1. p \in PagesOf(left) <=> r.pgstart <= p /\ p <= q.pgstart - 1
    BY <1>9, <1>14, <1>15
  <2>2. r.pgstart < q.pgstart /\ q.pgend < r.pgend
    BY <1>14, <1>15
  <2>. QED
    BY <2>1, <2>2, <1>1, <1>2, <1>6, <1>8
<1>16. x \in Split(a, q) => left.pgend = q.pgstart - 1
  BY <1>9, <1>14
<1>. QED
  BY <1>8, <1>10, <1>11, <1>12, <1>13, <1>14, <1>15, <1>16 DEF r, left

\* At most one range is cut in two.
LEMMA SplitUnique ==
    ASSUME RangesOK, ListsOK, NEW a \in Areas, NEW q \in Request, q.pgend >= q.pgstart - 1,
           NEW x \in Split(a, q), NEW y \in Split(a, q)
    PROVE  x = y
<1>. SUFFICES ASSUME x # y PROVE FALSE
  OBVIOUS
<1>1. q.pgstart \in Nat /\ q.pgend \in Int
  BY DEF Request
<1>2. x \in ToSet(unpinned_list[a]) /\ y \in ToSet(unpinned_list[a])
  BY <1>1, HitIs DEF Split
<1>3. range[x].pgend < range[y].pgstart \/ range[y].pgend < range[x].pgstart
  BY <1>2, Apart
<1>4. /\ range[x].pgstart \in Int /\ range[x].pgend \in Int
      /\ range[y].pgstart \in Int /\ range[y].pgend \in Int
  BY <1>2, ListedRange
<1>. QED
  BY <1>1, <1>3, <1>4 DEF Split

\* The lists when the walk of ashmem_pin is over and the ranges of s are freed.
PinnedLists(a, q, s) ==
    /\ ToSet(unpinned_list'[a]) = ToSet(unpinned_list[a]) \ s
    /\ \A b \in Areas \ {a} : /\ unpinned_list'[b] = unpinned_list[b]
                              /\ \A x \in ToSet(unpinned_list[b]) : range'[x] = range[x]
    /\ \A x \in ToSet(unpinned_list'[a]) :
          /\ range'[x].purged = range[x].purged
          /\ x \in Split(a, q) => range'[x] = range[x]
          /\ x \notin Split(a, q) =>
                \A p \in Int : p \in PagesOf(range'[x]) <=> p \in PagesOf(range[x]) /\ p \notin PagesOf(q)

LEMMA PinLists ==
    ASSUME RangesOK, ListsOK, LruOK, NEW a \in Areas, NEW q \in Request, q.pgend >= q.pgstart - 1,
           NEW s, s = Deleted(a, q),
           NEW to, DOMAIN to = Hit(a, q) \ (s \cup Split(a, q)),
           \A x \in DOMAIN to : to[x] = Remainder(range[x], q),
           DeleteAndShrink(a, s, to)
    PROVE  /\ RangesOK' /\ ListsOK' /\ LruOK'
           /\ \A b \in Areas : unpinned_list[b] = << >> => unpinned_list'[b] = << >>
           /\ PinnedLists(a, q, s)
<1>0. q.pgstart \in Nat /\ q.pgend \in Int
  BY DEF Request
<1>1. Hit(a, q) \subseteq ToSet(unpinned_list[a])
  BY <1>0, HitIs
<1>2. s \subseteq Hit(a, q) /\ Split(a, q) \subseteq Hit(a, q)
  BY DEF Deleted, Split
<1>3. DOMAIN to = Hit(a, q) \ (s \cup Split(a, q)) /\ \A x \in DOMAIN to : to[x] = Remainder(range[x], q)
  OBVIOUS
<1>4. s \subseteq ToSet(unpinned_list[a]) /\ s \cap DOMAIN to = {} /\ DOMAIN to \subseteq ToSet(unpinned_list[a])
  BY <1>1, <1>2, <1>3
<1>5. ASSUME NEW x \in DOMAIN to
      PROVE  /\ to[x] \in Request
             /\ to[x].pgstart >= range[x].pgstart
             /\ to[x].pgend <= range[x].pgend
             /\ to[x].pgend >= to[x].pgstart - 1
             /\ \A p \in Int : p \in PagesOf(to[x]) <=> p \in PagesOf(range[x]) /\ p \notin PagesOf(q)
  <2>1. x \in ToSet(unpinned_list[a]) /\ to[x] = Remainder(range[x], q)
    BY <1>3, <1>4, <1>5
  <2>2. x \in Hit(a, q) \ (Deleted(a, q) \cup Split(a, q))
    BY <1>3, <1>5
  <2>. QED
    BY <2>1, <2>2, PinRange
<1>6. Within(a, to)
  BY <1>4, <1>5 DEF Within
<1>7. RangesOK' /\ ListsOK' /\ LruOK' /\ \A b \in Areas \ {a} : unpinned_list'[b] = unpinned_list[b]
  BY <1>4, <1>6, DeleteAndShrinkOK
<1>8. \A b \in Areas :
          /\ ToSet(unpinned_list'[b]) = ToSet(unpinned_list[b]) \ s
          /\ \A x \in ToSet(unpinned_list'[b]) : range'[x] = range_shrink(to)[x]
          /\ unpinned_list[b] = << >> => unpinned_list'[b] = << >>
  BY <1>4, <1>6, FreedLists
<1>9. ASSUME NEW b \in Areas \ {a}, NEW x \in ToSet(unpinned_list[b]) PROVE range'[x] = range[x]
  <2>1. range'[x] = range_shrink(to)[x]
    BY <1>7, <1>8, <1>9
  <2>2. x \notin ToSet(unpinned_list[a]) /\ x \in Ranges
    BY <1>9, ListedRange
  <2>3. x \notin DOMAIN to
    BY <2>2, <1>4
  <2>. QED
    BY <2>1, <2>2, <2>3, <1>6, ShrinkIs
<1>10. ASSUME NEW x \in ToSet(unpinned_list'[a])
       PROVE  /\ range'[x].purged = range[x].purged
              /\ x \in Split(a, q) => range'[x] = range[x]
              /\ x \notin Split(a, q) =>
                    \A p \in Int : p \in PagesOf(range'[x]) <=> p \in PagesOf(range[x]) /\ p \notin PagesOf(q)
  <2>1. x \in ToSet(unpinned_list[a]) /\ x \notin s /\ range'[x] = range_shrink(to)[x]
    BY <1>8, <1>10
  <2>2. x \in Ranges
    BY <2>1, ListedRange
  <2>3. CASE x \in DOMAIN to
    <3>1. /\ range'[x].purged = range[x].purged
          /\ range'[x].pgstart = to[x].pgstart /\ range'[x].pgend = to[x].pgend
      BY <2>1, <2>2, <2>3, <1>6, ShrinkIs
    <3>2. PagesOf(range'[x]) = PagesOf(to[x])
      BY <3>1 DEF PagesOf
    <3>. QED
      BY <3>1, <3>2, <2>3, <1>3, <1>5
  <2>4. CASE x \notin DOMAIN to
    <3>1. range'[x] = range[x]
      BY <2>1, <2>2, <2>4, <1>6, ShrinkIs
    <3>2. x \notin Split(a, q) => x \notin Hit(a, q)
      BY <2>1, <2>4, <1>3
    <3>3. x \notin Split(a, q) => \A p \in Int : p \in PagesOf(range[x]) => p \notin PagesOf(q)
      BY <2>1, <3>2, PinRange
    <3>. QED
      BY <3>1, <3>3
  <2>. QED
    BY <2>3, <2>4
<1>. QED
  BY <1>7, <1>8, <1>9, <1>10 DEF PinnedLists

\* The histories when pages of an area are pinned and no others.
LEMMA PinHistory ==
    ASSUME AshmemInv, NEW a \in Areas, NEW q, Quiet, ~ Walking',
           unpinned' = [unpinned EXCEPT ![a] = @ \ PagesOf(q)],
           gone' = [gone EXCEPT ![a] = @ \ PagesOf(q)],
           forgotten' = [forgotten EXCEPT ![a] = @ \ PagesOf(q)],
           \A b \in Areas, p \in Int :
              /\ ListedIn(b, p)' \/ Pending(b, p)' <=> ListedIn(b, p) /\ ~ (b = a /\ p \in PagesOf(q))
              /\ PurgedIn(b, p) /\ ~ (b = a /\ p \in PagesOf(q)) =>
                    PurgedIn(b, p)' \/ (Pending(b, p)' /\ holder'.purged)
    PROVE  PagesOK' /\ PurgedOK' /\ HistoryOK'
<1>. USE DEF AshmemInv
<1>1. \A b \in Areas : \A p :
         /\ p \in unpinned'[b] <=> p \in unpinned[b] /\ ~ (b = a /\ p \in PagesOf(q))
         /\ p \in gone'[b] <=> p \in gone[b] /\ ~ (b = a /\ p \in PagesOf(q))
         /\ p \in forgotten'[b] <=> p \in forgotten[b] /\ ~ (b = a /\ p \in PagesOf(q))
  BY DEF HistoryOK
<1>2. holder.op # "stuck" /\ \A b, p : ~ Pending(b, p)
  BY QuietPages DEF Quiet
<1>3. ASSUME NEW b \in Areas, NEW p \in Int
      PROVE  /\ ListedIn(b, p)' \/ Pending(b, p)' => p \in unpinned'[b]
             /\ p \in unpinned'[b] => ListedIn(b, p)' \/ Pending(b, p)' \/ p \in forgotten'[b]
  <2>1. /\ ListedIn(b, p) => p \in unpinned[b]
        /\ p \in unpinned[b] => ListedIn(b, p) \/ p \in forgotten[b]
    BY <1>2 DEF PagesOK
  <2>. QED
    BY <2>1, <1>1
<1>4. PagesOK'
  BY <1>3 DEF PagesOK
<1>5. ASSUME NEW b \in Areas, NEW p \in gone'[b], p \notin forgotten'[b]
      PROVE  PurgedIn(b, p)' \/ (Pending(b, p)' /\ holder'.purged)
  <2>1. p \in gone[b] /\ p \notin forgotten[b] /\ ~ (b = a /\ p \in PagesOf(q))
    BY <1>1, <1>5
  <2>2. p \in Int
    BY <2>1 DEF HistoryOK
  <2>3. PurgedIn(b, p)
    BY <2>1, <1>2 DEF PurgedOK
  <2>. QED
    BY <2>1, <2>2, <2>3
<1>6. PurgedOK'
  BY <1>5 DEF PurgedOK
<1>7. HistoryOK'
  <2>1. /\ unpinned' \in [Areas -> SUBSET Int] /\ gone' \in [Areas -> SUBSET Int]
        /\ forgotten' \in [Areas -> SUBSET Int]
    BY DEF HistoryOK
  <2>2. \A b \in Areas : gone'[b] \subseteq unpinned'[b] /\ forgotten'[b] \subseteq unpinned'[b]
    BY <1>1 DEF HistoryOK
  <2>. QED
    BY <2>1, <2>2 DEF HistoryOK
<1>. QED
  BY <1>4, <1>6, <1>7

\* The pages of an area after the walk.
LEMMA PinPages ==
    ASSUME RangesOK, ListsOK, LruOK, NEW a \in Areas, NEW q \in Request, q.pgend >= q.pgstart - 1,
           NEW s, s = Deleted(a, q), Split(a, q) = {},
           NEW to, DOMAIN to = Hit(a, q) \ (s \cup Split(a, q)),
           \A x \in DOMAIN to : to[x] = Remainder(range[x], q),
           DeleteAndShrink(a, s, to),
           Quiet, Quiet'
    PROVE  \A b \in Areas, p \in Int :
              /\ ~ Pending(b, p)'
              /\ ListedIn(b, p)' <=> ListedIn(b, p) /\ ~ (b = a /\ p \in PagesOf(q))
              /\ PurgedIn(b, p) /\ ~ (b = a /\ p \in PagesOf(q)) => PurgedIn(b, p)'
<1>0. PinnedLists(a, q, s)
  BY PinLists
<1>. TAKE b \in Areas, p \in Int
<1>1. /\ ToSet(unpinned_list'[a]) = ToSet(unpinned_list[a]) \ s
      /\ \A x \in ToSet(unpinned_list'[a]) :
            /\ range'[x].purged = range[x].purged
            /\ \A p1 \in Int : p1 \in PagesOf(range'[x]) <=> p1 \in PagesOf(range[x]) /\ p1 \notin PagesOf(q)
  BY <1>0 DEF PinnedLists
<1>2. b # a => unpinned_list'[b] = unpinned_list[b] /\ \A x \in ToSet(unpinned_list[b]) : range'[x] = range[x]
  BY <1>0 DEF PinnedLists
<1>3. \A x \in s : p \in PagesOf(range[x]) => p \in PagesOf(q)
  <2>. TAKE x \in s
  <2>1. x \in Deleted(a, q) /\ x \in ToSet(unpinned_list[a])
    BY HitIs DEF Deleted, Request
  <2>. QED
    BY <2>1, PinRange
<1>4. /\ ~ Pending(b, p)'
      /\ ListedIn(b, p)' <=> \E x \in ToSet(unpinned_list'[b]) : p \in PagesOf(range'[x])
      /\ PurgedIn(b, p)' <=> \E x \in ToSet(unpinned_list'[b]) : range'[x].purged /\ p \in PagesOf(range'[x])
  <2>1. Bounds' = range' /\ ~ Walking' /\ ~ Allocating'
    BY DEF Bounds, Quiet, Walking, Allocating
  <2>. QED
    BY <2>1 DEF Pending, ListedIn, PurgedIn
<1>5. /\ ListedIn(b, p) <=> \E x \in ToSet(unpinned_list[b]) : p \in PagesOf(range[x])
      /\ PurgedIn(b, p) <=> \E x \in ToSet(unpinned_list[b]) : range[x].purged /\ p \in PagesOf(range[x])
  BY QuietPages
<1>6. CASE b = a
  <2>1. \A x \in ToSet(unpinned_list'[a]) : /\ range'[x].purged = range[x].purged
                                            /\ p \in PagesOf(range'[x]) <=> p \in PagesOf(range[x]) /\ p \notin PagesOf(q)
    BY <1>1
  <2>2. ListedIn(a, p)' <=> ListedIn(a, p) /\ p \notin PagesOf(q)
    BY <2>1, <1>1, <1>3, <1>4, <1>5, <1>6
  <2>3. PurgedIn(a, p) /\ p \notin PagesOf(q) => PurgedIn(a, p)'
    BY <2>1, <1>1, <1>3, <1>4, <1>5, <1>6
  <2>. QED
    BY <2>2, <2>3, <1>4, <1>6
<1>7. CASE b # a
  BY <1>2, <1>4, <1>5, <1>7
<1>. QED
  BY <1>6, <1>7

LEMMA PinOK == ASSUME AshmemInv, NEW a \in Areas, NEW q \in Requests(a), ashmem_pin(a, q), Split(a, q) = {}
               PROVE  AshmemInv'
<1>. USE DEF AshmemInv
<1>1. q \in Request /\ q.pgend >= q.pgstart - 1
  BY RequestIs
<1>2. PICK s : s = Deleted(a, q)
  OBVIOUS
<1>3. PICK to : to = [x \in Hit(a, q) \ (s \cup Split(a, q)) |-> Remainder(range[x], q)]
  OBVIOUS
<1>4. /\ holder = Nobody /\ holder' = Nobody
      /\ DeleteAndShrink(a, s, to)
      /\ unpinned' = [unpinned EXCEPT ![a] = @ \ PagesOf(q)]
      /\ gone' = [gone EXCEPT ![a] = @ \ PagesOf(q)]
      /\ forgotten' = [forgotten EXCEPT ![a] = @ \ PagesOf(q)]
      /\ UNCHANGED areaVars
  BY <1>2, <1>3 DEF ashmem_pin
<1>5. DOMAIN to = Hit(a, q) \ (s \cup Split(a, q)) /\ \A x \in DOMAIN to : to[x] = Remainder(range[x], q)
  BY <1>3
<1>6. RangesOK' /\ ListsOK' /\ LruOK' /\ \A b \in Areas : unpinned_list[b] = << >> => unpinned_list'[b] = << >>
  BY <1>1, <1>2, <1>4, <1>5, PinLists
<1>7. AreasOK'
  BY <1>4, <1>6, AreasStay
<1>8. HolderOK' /\ Quiet' /\ Quiet
  BY <1>4, NobodyOK DEF Quiet, Nobody
<1>9. \A b \in Areas, p \in Int :
              /\ ~ Pending(b, p)'
              /\ ListedIn(b, p)' <=> ListedIn(b, p) /\ ~ (b = a /\ p \in PagesOf(q))
              /\ PurgedIn(b, p) /\ ~ (b = a /\ p \in PagesOf(q)) => PurgedIn(b, p)'
  BY <1>1, <1>2, <1>4, <1>5, <1>8, PinPages
<1>10. ~ Walking'
  BY <1>8 DEF Quiet, Walking
<1>11. \A b \in Areas, p \in Int :
          /\ ListedIn(b, p)' \/ Pending(b, p)' <=> ListedIn(b, p) /\ ~ (b = a /\ p \in PagesOf(q))
          /\ PurgedIn(b, p) /\ ~ (b = a /\ p \in PagesOf(q)) =>
                PurgedIn(b, p)' \/ (Pending(b, p)' /\ holder'.purged)
  BY <1>9
<1>12. PagesOK' /\ PurgedOK' /\ HistoryOK'
  BY <1>4, <1>8, <1>10, <1>11, PinHistory
<1>. QED
  BY <1>6, <1>7, <1>8, <1>12

\* The range that is cut in two: its later part is put before it once there is
\* a struct for it.
LEMMA PinSplitOK == ASSUME AshmemInv, NEW a \in Areas, NEW q \in Requests(a), ashmem_pin(a, q), Split(a, q) # {}
                    PROVE  AshmemInv'
<1>. USE DEF AshmemInv
<1>1. q \in Request /\ q.pgend >= q.pgstart - 1
  BY RequestIs
<1>2. q.pgstart \in Nat /\ q.pgend \in Int
  BY <1>1 DEF Request
<1>3. PICK s : s = Deleted(a, q)
  OBVIOUS
<1>4. PICK to : to = [x \in Hit(a, q) \ (s \cup Split(a, q)) |-> Remainder(range[x], q)]
  OBVIOUS
<1>5. PICK x : x = CHOOSE y \in Split(a, q) : TRUE
  OBVIOUS
<1>6. PICK r : r = range[x]
  OBVIOUS
<1>7. PICK left : left = Remainder(r, q)
  OBVIOUS
<1>8. PICK q2 : q2 = Interval(q.pgend + 1, r.pgend)
  OBVIOUS
<1>9. /\ holder = Nobody
      /\ DeleteAndShrink(a, s, to)
      /\ file[a] # 0
      /\ unpinned' = [unpinned EXCEPT ![a] = @ \ PagesOf(q)]
      /\ gone' = [gone EXCEPT ![a] = @ \ PagesOf(q)]
      /\ forgotten' = [forgotten EXCEPT ![a] = @ \ PagesOf(q)]
      /\ UNCHANGED areaVars
  BY <1>3, <1>4 DEF ashmem_pin
<1>10. holder' = [op |-> "pin", area |-> a, q |-> q2, purged |-> r.purged, prev_range |-> x,
                  to |-> [y \in {x} |-> left]]
  BY <1>5, <1>6, <1>7, <1>8 DEF ashmem_pin
<1>11. /\ holder'.op = "pin" /\ holder'.area = a /\ holder'.q = q2 /\ holder'.purged = r.purged
       /\ holder'.prev_range = x /\ DOMAIN holder'.to = {x} /\ holder'.to[x] = left
  BY <1>10
<1>12. x \in Split(a, q) /\ \A y \in Split(a, q) : y = x
  <2>1. x \in Split(a, q)
    BY <1>5
  <2>. QED
    BY <2>1, <1>1, SplitUnique
<1>13. x \in Hit(a, q) /\ x \in ToSet(unpinned_list[a]) /\ x \notin s
  <2>1. x \in Hit(a, q) /\ r.pgstart < q.pgstart
    BY <1>6, <1>12 DEF Split
  <2>2. x \in ToSet(unpinned_list[a])
    BY <2>1, <1>2, HitIs
  <2>3. r.pgstart \in Nat
    BY <2>2, <1>6, ListedRange
  <2>4. x \notin s
    BY <2>1, <2>3, <1>2, <1>3, <1>6 DEF Deleted, page_range_subsumes_range
  <2>. QED
    BY <2>1, <2>2, <2>4
<1>14. /\ r.pgstart \in Nat /\ r.pgend \in Int /\ r.purged \in BOOLEAN /\ x \in Ranges
  BY <1>6, <1>13, ListedRange DEF RangeEntry
<1>15. /\ left \in Request
       /\ left.pgstart >= r.pgstart /\ left.pgend <= r.pgend
       /\ left.pgend >= left.pgstart - 1
       /\ r.pgstart < q.pgstart /\ q.pgend < r.pgend
       /\ left.pgend = q.pgstart - 1
       /\ q2 \in Request
       /\ \A p \in Int : p \in PagesOf(left) \/ p \in PagesOf(q2) <=> p \in PagesOf(r) /\ p \notin PagesOf(q)
  <2>1. x \in Hit(a, q) \ Deleted(a, q)
    BY <1>3, <1>13
  <2>. QED
    BY <2>1, <1>1, <1>6, <1>7, <1>8, <1>12, <1>13, PinRange
<1>16. q2.pgstart = q.pgend + 1 /\ q2.pgend = r.pgend
  BY <1>8 DEF Interval
<1>17. DOMAIN to = Hit(a, q) \ (s \cup Split(a, q)) /\ \A y \in DOMAIN to : to[y] = Remainder(range[y], q)
  BY <1>4
<1>0. /\ RangesOK' /\ ListsOK' /\ LruOK' /\ PinnedLists(a, q, s)
       /\ \A b \in Areas : unpinned_list[b] = << >> => unpinned_list'[b] = << >>
  BY <1>1, <1>3, <1>9, <1>17, PinLists
<1>18. /\ RangesOK' /\ ListsOK' /\ LruOK'
       /\ \A b \in Areas : unpinned_list[b] = << >> => unpinned_list'[b] = << >>
       /\ ToSet(unpinned_list'[a]) = ToSet(unpinned_list[a]) \ s
       /\ \A b \in Areas \ {a} : /\ unpinned_list'[b] = unpinned_list[b]
                                 /\ \A y \in ToSet(unpinned_list[b]) : range'[y] = range[y]
       /\ \A y \in ToSet(unpinned_list'[a]) :
             /\ range'[y].purged = range[y].purged
             /\ y \in Split(a, q) => range'[y] = range[y]
             /\ y \notin Split(a, q) =>
                   \A p \in Int : p \in PagesOf(range'[y]) <=> p \in PagesOf(range[y]) /\ p \notin PagesOf(q)
  BY <1>0 DEF PinnedLists
<1>19. AreasOK'
  BY <1>9, <1>18, AreasStay
<1>20. x \in ToSet(unpinned_list'[a]) /\ range'[x] = r
  BY <1>6, <1>12, <1>13, <1>18
<1>21. Allocating' /\ ~ Walking' /\ Quiet
  BY <1>9, <1>11 DEF Allocating, Walking, Quiet, Nobody
<1>22. PICK rs : rs = (range_shrink(holder.to))'
  OBVIOUS
<1>23. Within(holder.area, holder.to)'
  BY <1>11, <1>15, <1>20 DEF Within
<1>24. /\ \A y \in Ranges : y # x => rs[y] = range'[y]
       /\ rs[x].purged = r.purged /\ rs[x].pgstart = left.pgstart /\ rs[x].pgend = left.pgend
  <2>1. \A y \in Ranges : y # x => rs[y] = range'[y]
    BY <1>11, <1>22 DEF range_shrink
  <2>2. rs[x] = [range'[x] EXCEPT !.pgstart = left.pgstart, !.pgend = left.pgend]
    BY <1>11, <1>14, <1>22 DEF range_shrink
  <2>3. range'[x] \in RangeEntry
    BY <1>6, <1>13, <1>20, ListedRange
  <2>. QED
    BY <2>1, <2>2, <2>3, <1>20 DEF RangeEntry
<1>25. Fits(unpinned_list'[a], rs, q2, x)
  <2>. DEFINE list == unpinned_list'[a]
              k == Place(list, x)
  <2>1. list \in Seq(Ranges) /\ IsInjective(list) /\ Descending(list, range')
    BY <1>18 DEF ListsOK
  <2>2. /\ Len(list) \in Nat /\ DOMAIN list = 1 .. Len(list)
        /\ \A i \in 1 .. Len(list) : list[i] \in Ranges
    BY <2>1
  <2>3. k \in 1 .. Len(list) /\ list[k] = x
    <3>1. x # ListHead
      BY <1>14, AshmemAssumption
    <3>2. \E i \in 1 .. Len(list) : list[i] = x
      BY <1>20, <2>2 DEF ToSet
    <3>. QED
      BY <3>1, <3>2 DEF Place
  <2>4. \A j \in 1 .. Len(list) : list[j] \in Ranges /\ (j # k => list[j] # x)
    BY <2>1, <2>2, <2>3 DEF IsInjective
  <2>6. \A j \in 1 .. Len(list) : range'[list[j]] \in RangeEntry
    <3>1. ASSUME NEW y \in ToSet(unpinned_list'[a]) PROVE range'[y] \in RangeEntry
      <4>1. y \in Ranges /\ InUse(y)'
        BY <3>1, <1>18 DEF ListsOK
      <4>. QED
        BY <4>1, <1>18 DEF RangesOK, InUse
    <3>2. \A j \in 1 .. Len(list) : list[j] \in ToSet(unpinned_list'[a])
      BY <2>2 DEF ToSet
    <3>. QED
      BY <3>1, <3>2
  <2>. HIDE DEF list, k
  <2>5. ASSUME NEW j \in 1 .. Len(list)
        PROVE  IF j < k THEN rs[list[j]].pgstart > q2.pgend ELSE rs[list[j]].pgend < q2.pgstart
    <3>1. CASE j < k
      <4>1. range'[x].pgend < range'[list[j]].pgstart
        BY <3>1, <2>1, <2>3 DEF Descending
      <4>2. rs[list[j]] = range'[list[j]]
        BY <3>1, <2>3, <2>4, <1>24
      <4>3. rs[list[j]].pgstart \in Nat
        BY <2>6, <4>2 DEF RangeEntry
      <4>. QED
        BY <3>1, <4>1, <4>2, <4>3, <1>14, <1>16, <1>20
    <3>2. CASE j = k
      BY <3>2, <2>3, <1>1, <1>2, <1>15, <1>16, <1>24
    <3>3. CASE k < j
      <4>1. range'[list[j]].pgend < range'[x].pgstart
        BY <3>3, <2>1, <2>3 DEF Descending
      <4>2. rs[list[j]] = range'[list[j]]
        BY <3>3, <2>3, <2>4, <1>24
      <4>3. rs[list[j]].pgend \in Int
        BY <2>6, <4>2 DEF RangeEntry
      <4>4. r.pgstart < q2.pgstart
        BY <1>1, <1>2, <1>14, <1>15, <1>16
      <4>5. range'[list[j]].pgend < q2.pgstart
        BY <4>1, <4>2, <4>3, <4>4, <1>2, <1>14, <1>16, <1>20
      <4>. QED
        BY <3>3, <4>2, <4>5, <2>3
    <3>. QED
      BY <3>1, <3>2, <3>3, <2>3
  <2>. QED
    BY <2>5, <1>20 DEF Fits, list, k
<1>26. HolderOK'
  <2>1. q2.pgend >= q2.pgstart - 1
    BY <1>2, <1>14, <1>15, <1>16
  <2>2. file'[a] # 0
    BY <1>9 DEF areaVars
  <2>. QED
    BY <2>1, <2>2, <1>11, <1>14, <1>15, <1>21, <1>22, <1>23, <1>25 DEF HolderOK
<1>27. ASSUME NEW b \in Areas, NEW p \in Int
       PROVE  /\ ListedIn(b, p)' \/ Pending(b, p)' <=> ListedIn(b, p) /\ ~ (b = a /\ p \in PagesOf(q))
              /\ PurgedIn(b, p) /\ ~ (b = a /\ p \in PagesOf(q)) =>
                    PurgedIn(b, p)' \/ (Pending(b, p)' /\ holder'.purged)
  <2>1. /\ Pending(b, p)' <=> b = a /\ p \in PagesOf(q2)
        /\ ListedIn(b, p)' <=> \E y \in ToSet(unpinned_list'[b]) : p \in PagesOf(rs[y])
        /\ PurgedIn(b, p)' <=> \E y \in ToSet(unpinned_list'[b]) : rs[y].purged /\ p \in PagesOf(rs[y])
    <3>1. Bounds' = rs
      BY <1>21, <1>22 DEF Bounds
    <3>. QED
      BY <3>1, <1>11, <1>21 DEF Pending, ListedIn, PurgedIn
  <2>2. /\ ListedIn(b, p) <=> \E y \in ToSet(unpinned_list[b]) : p \in PagesOf(range[y])
        /\ PurgedIn(b, p) <=> \E y \in ToSet(unpinned_list[b]) : range[y].purged /\ p \in PagesOf(range[y])
    BY <1>21, QuietPages
  <2>3. CASE b # a
    <3>1. unpinned_list'[b] = unpinned_list[b] /\ \A y \in ToSet(unpinned_list[b]) : range'[y] = range[y]
      BY <2>3, <1>18
    <3>2. \A y \in ToSet(unpinned_list[b]) : y \in Ranges /\ y # x
      BY <2>3, <1>13, ListedRange
    <3>3. \A y \in ToSet(unpinned_list[b]) : rs[y] = range[y]
      BY <3>1, <3>2, <1>24
    <3>. QED
      BY <2>1, <2>2, <2>3, <3>1, <3>3
  <2>4. CASE b = a
    <3>1. ASSUME NEW y \in ToSet(unpinned_list'[a]), y # x
          PROVE  /\ rs[y].purged = range[y].purged
                 /\ p \in PagesOf(rs[y]) <=> p \in PagesOf(range[y]) /\ p \notin PagesOf(q)
      <4>1. y \in Ranges
        BY <3>1, <1>18, ListedRange
      <4>2. rs[y] = range'[y] /\ y \notin Split(a, q)
        BY <4>1, <3>1, <1>12, <1>24
      <4>. QED
        BY <4>2, <3>1, <1>18
    <3>2. PagesOf(rs[x]) = PagesOf(left) /\ rs[x].purged = range[x].purged
      BY <1>6, <1>24 DEF PagesOf
    <3>3. p \in PagesOf(rs[x]) \/ p \in PagesOf(q2) <=> p \in PagesOf(range[x]) /\ p \notin PagesOf(q)
      BY <3>2, <1>6, <1>15
    <3>4. \A y \in s : p \in PagesOf(range[y]) => p \in PagesOf(q)
      <4>. TAKE y \in s
      <4>1. y \in Deleted(a, q) /\ y \in ToSet(unpinned_list[a])
        BY <1>2, <1>3, HitIs DEF Deleted
      <4>. QED
        BY <4>1, <1>1, PinRange
    <3>5. /\ Pending(a, p)' <=> p \in PagesOf(q2)
          /\ ListedIn(a, p)' <=> \E y \in ToSet(unpinned_list[a]) \ s : p \in PagesOf(rs[y])
          /\ PurgedIn(a, p)' <=> \E y \in ToSet(unpinned_list[a]) \ s : rs[y].purged /\ p \in PagesOf(rs[y])
      BY <2>1, <2>4, <1>18
    <3>6. \A y \in ToSet(unpinned_list[a]) \ s : y # x =>
                 /\ rs[y].purged = range[y].purged
                 /\ p \in PagesOf(rs[y]) <=> p \in PagesOf(range[y]) /\ p \notin PagesOf(q)
      BY <3>1, <1>18
    <3>7. x \in ToSet(unpinned_list[a]) \ s
      BY <1>13
    <3>8. ListedIn(a, p)' \/ Pending(a, p)' <=> ListedIn(a, p) /\ p \notin PagesOf(q)
      <4>1. ASSUME ListedIn(a, p)' \/ Pending(a, p)' PROVE ListedIn(a, p) /\ p \notin PagesOf(q)
        BY <4>1, <2>2, <2>4, <3>3, <3>5, <3>6, <3>7
      <4>2. ASSUME ListedIn(a, p), p \notin PagesOf(q) PROVE ListedIn(a, p)' \/ Pending(a, p)'
        <5>1. PICK y \in ToSet(unpinned_list[a]) : p \in PagesOf(range[y])
          BY <4>2, <2>2, <2>4
        <5>2. y \notin s
          BY <5>1, <4>2, <3>4
        <5>. QED
          BY <5>1, <5>2, <4>2, <3>3, <3>5, <3>6
      <4>. QED
        BY <4>1, <4>2
    <3>9. ASSUME PurgedIn(a, p), p \notin PagesOf(q) PROVE PurgedIn(a, p)' \/ (Pending(a, p)' /\ holder'.purged)
      <4>1. PICK y \in ToSet(unpinned_list[a]) : range[y].purged /\ p \in PagesOf(range[y])
        BY <3>9, <2>2, <2>4
      <4>2. y \notin s
        BY <4>1, <3>9, <3>4
      <4>3. CASE y = x
        BY <4>1, <4>2, <4>3, <3>2, <3>3, <3>5, <3>7, <3>9, <1>6, <1>11
      <4>4. CASE y # x
        BY <4>1, <4>2, <4>4, <3>5, <3>6, <3>9
      <4>. QED
        BY <4>3, <4>4
    <3>. QED
      BY <3>8, <3>9, <2>4
  <2>. QED
    BY <2>3, <2>4
<1>28. PagesOK' /\ PurgedOK' /\ HistoryOK'
  BY <1>9, <1>21, <1>27, PinHistory
<1>. QED
  BY <1>18, <1>19, <1>26, <1>28

----------------------------------------------------------------------------
(* The invariant holds in every reachable state. *)

LEMMA AshmemInitInv == AshmemInit => AshmemInv
<1>. SUFFICES ASSUME AshmemInit PROVE AshmemInv
  OBVIOUS
<1>1. /\ open = {} /\ size = [a \in Areas |-> 0] /\ file = [a \in Areas |-> 0]
      /\ range = [x \in Ranges |-> Free] /\ unpinned_list = [a \in Areas |-> << >>]
      /\ lru = << >> /\ lru_count = 0 /\ holder = Nobody
      /\ unpinned = [a \in Areas |-> {}] /\ gone = [a \in Areas |-> {}] /\ forgotten = [a \in Areas |-> {}]
  BY DEF AshmemInit
<1>2. RangesOK
  BY <1>1 DEF RangesOK, InUse
<1>3. ToSet(<< >>) = {} /\ << >> \in Seq(Ranges) /\ IsInjective(<< >>)
  BY DEF ToSet, IsInjective
<1>4. ListsOK
  BY <1>1, <1>3 DEF ListsOK, InUse, Descending
<1>5. LruOK
  BY <1>1, <1>3, NoPages DEF LruOK, InUse
<1>6. AreasOK
  BY <1>1 DEF AreasOK
<1>7. HolderOK /\ Quiet /\ holder.op # "stuck"
  BY <1>1 DEF HolderOK, Quiet, Nobody, Walking, Allocating
<1>8. HistoryOK
  BY <1>1 DEF HistoryOK
<1>9. PagesOK
  BY <1>1, <1>3, <1>7, QuietPages DEF PagesOK
<1>10. PurgedOK
  BY <1>1 DEF PurgedOK
<1>. QED
  BY <1>2, <1>4, <1>5, <1>6, <1>7, <1>8, <1>9, <1>10 DEF AshmemInv

LEMMA AshmemStepInv == AshmemInv /\ [AshmemNext]_ashmemVars => AshmemInv'
<1>. SUFFICES ASSUME AshmemInv, [AshmemNext]_ashmemVars PROVE AshmemInv'
  OBVIOUS
<1>1. ASSUME NEW a \in Areas, ashmem_open(a) PROVE AshmemInv'
  BY <1>1, OpenOK
<1>2. ASSUME NEW a \in Areas, ashmem_release(a) PROVE AshmemInv'
  BY <1>2, ReleaseOK
<1>3. ASSUME NEW a \in Areas, NEW n \in Sizes[a], SetSize(a, n) PROVE AshmemInv'
  BY <1>3, SetSizeOK
<1>4. ASSUME NEW a \in Areas, MmapStart(a) PROVE AshmemInv'
  BY <1>4, MmapStartOK
<1>5. ASSUME NEW a \in Areas, NEW ok \in BOOLEAN, MmapEnd(a, ok) PROVE AshmemInv'
  BY <1>5, MmapEndOK
<1>6. ASSUME NEW a \in Areas, NEW q \in Requests(a), ashmem_pin(a, q) PROVE AshmemInv'
  BY <1>6, PinOK, PinSplitOK
<1>7. ASSUME NEW a \in Areas, NEW q \in Requests(a), UnpinStart(a, q) PROVE AshmemInv'
  BY <1>7, UnpinStartOK
<1>8. CASE UnpinMerge
  BY <1>8, UnpinMergeOK
<1>9. CASE UnpinSubsumed
  BY <1>9, UnpinSubsumedOK
<1>10. CASE UnpinAlloc
  BY <1>10, UnpinAllocOK
<1>11. CASE AllocStep
  BY <1>11, AllocSucceedsInv, AllocFailsInv, DirectReclaimOK DEF AllocStep
<1>12. ASSUME NEW n \in Scans, ashmem_shrink(n) PROVE AshmemInv'
  BY <1>12, ShrinkInv
<1>13. CASE UNCHANGED ashmemVars
  <2>1. UNCHANGED <<listVars, historyVars>> /\ holder' = holder /\ open' = open /\ size' = size /\ file' = file
    BY <1>13 DEF ashmemVars, areaVars
  <2>2. RangesOK' /\ ListsOK' /\ LruOK'
    BY <2>1, ListsStay DEF AshmemInv
  <2>3. AreasOK'
    BY <2>1 DEF AshmemInv, AreasOK, listVars
  <2>4. HolderOK' /\ PagesOK' /\ PurgedOK'
    BY <2>1, HolderStays DEF AshmemInv
  <2>5. HistoryOK'
    BY <2>1, HistoryStays DEF AshmemInv
  <2>. QED
    BY <2>2, <2>3, <2>4, <2>5 DEF AshmemInv
<1>14. CASE UserStep
  BY <1>1, <1>2, <1>3, <1>4, <1>5, <1>6, <1>7, <1>14 DEF UserStep
<1>. QED
  BY <1>8, <1>9, <1>10, <1>11, <1>12, <1>13, <1>14 DEF AshmemNext

\* The invariant holds in every state that the operations of ashmem.c reach, in
\* the middle of ashmem_pin and ashmem_unpin too.
THEOREM AshmemInvariant == AshmemSpec => []AshmemInv
<1>1. AshmemInit => AshmemInv
  BY AshmemInitInv
<1>2. AshmemInv /\ [AshmemNext]_ashmemVars => AshmemInv'
  BY AshmemStepInv
<1>. QED
  BY <1>1, <1>2, PTL DEF AshmemSpec

\* However operations, allocation failures and the shrinker follow each other,
\* the lists of the areas, the LRU list and lru_count agree at every step.
THEOREM ListsAlwaysAgree == AshmemSpec => []ListsAgree
<1>1. AshmemInv => ListsAgree
  BY InvListsAgree
<1>. QED
  BY <1>1, AshmemInvariant, PTL

\* Whatever requests merge and split ranges, once ashmem_pin_unpin has returned
\* only unpinned pages are up for purging, and all of them but those of ranges
\* marked purged and those that a failed range_alloc left out; and
\* ASHMEM_GET_PIN_STATUS finds each page that is listed.
THEOREM UnpinnedPagesAreListed == AshmemSpec => []UnpinnedExact
<1>1. AshmemInv => UnpinnedExact
  BY InvUnpinnedExact
<1>. QED
  BY <1>1, AshmemInvariant, PTL

\* A purge is never lost by merging, splitting or shrinking ranges: the next
\* ASHMEM_PIN of the page returns ASHMEM_WAS_PURGED.
THEOREM PurgesAreReported == AshmemSpec => []PurgeReported
<1>1. AshmemInv => PurgeReported
  BY InvPurgeReported
<1>. QED
  BY <1>1, AshmemInvariant, PTL
=============================================================================
