--------------------------- MODULE DevicePMProofs ---------------------------
(***************************************************************************)
(* Proofs about DevicePM for any set of devices and any tree of them.      *)
(***************************************************************************)
EXTENDS DevicePM, SequenceTheorems, TLAPS

----------------------------------------------------------------------------
(* Lists of devices: that each is on it once, that parents come first, and   *)
(* that no device of one list has its parent on another that comes later.    *)

Once(s) == \A i, j \in 1 .. Len(s) : s[i] = s[j] => i = j
Ordered(s) == \A i, j \in 1 .. Len(s) : s[j] = Parent[s[i]] => j < i
Before(s, t) == \A x \in Range(s), y \in Range(t) : y # Parent[x]

\* The elements of a sequence.
LEMMA RangeSeq ==
    ASSUME NEW s \in Seq(Devices)
    PROVE  /\ \A x : x \in Range(s) <=> \E i \in 1 .. Len(s) : s[i] = x
           /\ Range(s) \subseteq Devices
BY DEF Range

\* list_splice: one list in front of another.
LEMMA Spliced ==
    ASSUME NEW s \in Seq(Devices), NEW t \in Seq(Devices)
    PROVE  /\ s \o t \in Seq(Devices)
           /\ Range(s \o t) = Range(s) \cup Range(t)
           /\ Once(s) /\ Once(t) /\ Range(s) \cap Range(t) = {} => Once(s \o t)
           /\ Ordered(s) /\ Ordered(t) /\ Before(s, t) => Ordered(s \o t)
<1>. DEFINE u == s \o t
<1>1. /\ u \in Seq(Devices) /\ Len(u) = Len(s) + Len(t)
      /\ Len(s) \in Nat /\ Len(t) \in Nat
      /\ \A i \in 1 .. Len(s) + Len(t) : u[i] = IF i <= Len(s) THEN s[i] ELSE t[i - Len(s)]
  BY ConcatProperties
<1>. HIDE DEF u
<1>2. /\ \A i \in 1 .. Len(s) : i \in 1 .. Len(u) /\ u[i] = s[i]
      /\ \A i \in 1 .. Len(t) : i + Len(s) \in 1 .. Len(u) /\ u[i + Len(s)] = t[i]
  <2>1. ASSUME NEW i \in 1 .. Len(s) PROVE i \in 1 .. Len(u) /\ u[i] = s[i]
    BY <1>1
  <2>2. ASSUME NEW i \in 1 .. Len(t)
        PROVE  i + Len(s) \in 1 .. Len(u) /\ u[i + Len(s)] = t[i]
    <3>1. /\ i + Len(s) \in 1 .. Len(s) + Len(t) /\ ~ (i + Len(s) <= Len(s))
          /\ i + Len(s) - Len(s) = i
      BY <1>1
    <3>. QED
      BY <1>1, <3>1
  <2>. QED
    BY <2>1, <2>2
<1>3. ASSUME NEW i \in 1 .. Len(u)
      PROVE  \/ i \in 1 .. Len(s) /\ u[i] = s[i] /\ u[i] \in Range(s)
             \/ /\ i - Len(s) \in 1 .. Len(t) /\ u[i] = t[i - Len(s)]
                /\ u[i] \in Range(t) /\ i > Len(s)
  <2>1. CASE i <= Len(s)
    <3>1. i \in 1 .. Len(s) /\ u[i] = s[i]
      BY <1>1, <2>1
    <3>. QED
      BY <3>1, RangeSeq
  <2>2. CASE ~ (i <= Len(s))
    <3>1. i - Len(s) \in 1 .. Len(t) /\ u[i] = t[i - Len(s)] /\ i > Len(s)
      BY <1>1, <2>2
    <3>. QED
      BY <3>1, RangeSeq
  <2>. QED
    BY <2>1, <2>2
<1>4. Range(u) = Range(s) \cup Range(t)
  <2>1. ASSUME NEW x \in Range(u) PROVE x \in Range(s) \cup Range(t)
    <3>1. PICK i \in 1 .. Len(u) : u[i] = x
      BY <1>1, <2>1, RangeSeq
    <3>. QED
      BY <1>3, <3>1
  <2>2. ASSUME NEW x \in Range(s) PROVE x \in Range(u)
    BY <1>1, <1>2, <2>2, RangeSeq
  <2>3. ASSUME NEW x \in Range(t) PROVE x \in Range(u)
    <3>1. PICK i \in 1 .. Len(t) : t[i] = x
      BY <2>3, RangeSeq
    <3>2. i + Len(s) \in 1 .. Len(u) /\ u[i + Len(s)] = x
      BY <1>2, <3>1
    <3>. QED
      BY <1>1, <3>2, RangeSeq
  <2>. QED
    BY <2>1, <2>2, <2>3
<1>5. ASSUME Once(s), Once(t), Range(s) \cap Range(t) = {} PROVE Once(u)
  <2>. SUFFICES ASSUME NEW i \in 1 .. Len(u), NEW j \in 1 .. Len(u), u[i] = u[j]
                PROVE  i = j
    BY DEF Once
  <2>1. \/ i \in 1 .. Len(s) /\ j \in 1 .. Len(s) /\ s[i] = s[j]
        \/ /\ i - Len(s) \in 1 .. Len(t) /\ j - Len(s) \in 1 .. Len(t)
           /\ t[i - Len(s)] = t[j - Len(s)]
    BY <1>3, <1>5
  <2>2. i = j \/ i - Len(s) = j - Len(s)
    BY <1>5, <2>1 DEF Once
  <2>. QED
    BY <1>1, <2>2
<1>6. ASSUME Ordered(s), Ordered(t), Before(s, t) PROVE Ordered(u)
  <2>. SUFFICES ASSUME NEW i \in 1 .. Len(u), NEW j \in 1 .. Len(u), u[j] = Parent[u[i]]
                PROVE  j < i
    BY DEF Ordered
  <2>1. CASE i \in 1 .. Len(s) /\ u[i] = s[i] /\ u[i] \in Range(s)
    <3>1. u[j] \notin Range(t)
      BY <1>6, <2>1 DEF Before
    <3>2. j \in 1 .. Len(s) /\ u[j] = s[j]
      BY <1>3, <3>1
    <3>. QED
      BY <1>6, <2>1, <3>2 DEF Ordered
  <2>2. CASE i - Len(s) \in 1 .. Len(t) /\ u[i] = t[i - Len(s)] /\ i > Len(s)
    <3>1. CASE j \in 1 .. Len(s)
      BY <1>1, <2>2, <3>1
    <3>2. CASE j - Len(s) \in 1 .. Len(t) /\ u[j] = t[j - Len(s)]
      <4>1. j - Len(s) < i - Len(s)
        BY <1>6, <2>2, <3>2 DEF Ordered
      <4>. QED
        BY <1>1, <4>1
    <3>. QED
      BY <1>3, <3>1, <3>2
  <2>. QED
    BY <1>3, <2>1, <2>2
<1>. QED
  BY <1>1, <1>4, <1>5, <1>6 DEF u

\* One device alone.
LEMMA Alone ==
    ASSUME NEW d \in Devices
    PROVE  /\ <<d>> \in Seq(Devices) /\ Range(<<d>>) = {d} /\ Once(<<d>>)
           /\ Parent[d] # d => Ordered(<<d>>)
<1>1. <<d>> \in Seq(Devices) /\ Len(<<d>>) = 1 /\ <<d>>[1] = d
  OBVIOUS
<1>2. Range(<<d>>) = {d}
  <2>. DEFINE one == <<d>>
  <2>0. one \in Seq(Devices) /\ 1 .. Len(one) = {1} /\ one[1] = d
    OBVIOUS
  <2>. HIDE DEF one
  <2>1. \A x : x \in Range(one) <=> x = d
    BY <2>0, RangeSeq
  <2>. USE DEF one
  <2>. QED
    BY <2>1
<1>. QED
  BY <1>1, <1>2 DEF Once, Ordered

\* list_add_tail.
LEMMA Appended ==
    ASSUME NEW s \in Seq(Devices), NEW d \in Devices, d \notin Range(s)
    PROVE  /\ Append(s, d) \in Seq(Devices)
           /\ Range(Append(s, d)) = Range(s) \cup {d}
           /\ Once(s) => Once(Append(s, d))
           /\ Ordered(s) /\ Parent[d] # d /\ (\A x \in Range(s) : Parent[x] # d)
              => Ordered(Append(s, d))
           /\ s # << >> => Append(s, d)[1] = s[1]
           /\ Append(s, d) # << >>
<1>1. Append(s, d) = s \o <<d>>
  <2>1. <<d>> \in Seq(Devices) /\ Len(<<d>>) = 1 /\ <<d>>[1] = d
    OBVIOUS
  <2>2. /\ s \o <<d>> \in Seq(Devices) /\ Len(s \o <<d>>) = Len(s) + 1
        /\ \A i \in 1 .. Len(s) + 1 : (s \o <<d>>)[i] = IF i <= Len(s) THEN s[i] ELSE d
    <3>1. /\ s \o <<d>> \in Seq(Devices) /\ Len(s \o <<d>>) = Len(s) + Len(<<d>>)
          /\ \A i \in 1 .. Len(s) + Len(<<d>>) :
                (s \o <<d>>)[i] = IF i <= Len(s) THEN s[i] ELSE <<d>>[i - Len(s)]
      BY <2>1, ConcatProperties
    <3>2. \A i \in 1 .. Len(s) + 1 : ~ (i <= Len(s)) => i - Len(s) = 1
      OBVIOUS
    <3>. QED
      BY <2>1, <3>1, <3>2
  <2>3. /\ Append(s, d) \in Seq(Devices) /\ Len(Append(s, d)) = Len(s) + 1
        /\ \A i \in 1 .. Len(s) + 1 : Append(s, d)[i] = IF i <= Len(s) THEN s[i] ELSE d
    BY AppendProperties
  <2>. DEFINE a == Append(s, d)
              b == s \o <<d>>
  <2>. HIDE DEF a, b
  <2>4. a \in Seq(Devices) /\ b \in Seq(Devices) /\ Len(a) = Len(b)
        /\ \A i \in 1 .. Len(a) : a[i] = b[i]
    BY <2>2, <2>3 DEF a, b
  <2>5. a = b
    BY <2>4, SeqEqual
  <2>. QED
    BY <2>5 DEF a, b
<1>2. /\ <<d>> \in Seq(Devices) /\ Range(<<d>>) = {d} /\ Once(<<d>>)
      /\ Parent[d] # d => Ordered(<<d>>)
  BY Alone
<1>3. (\A x \in Range(s) : Parent[x] # d) => Before(s, <<d>>)
  BY <1>2 DEF Before
<1>4. (s # << >> => Append(s, d)[1] = s[1]) /\ Append(s, d) # << >>
  <2>1. s # << >> => 1 \in 1 .. Len(s)
    OBVIOUS
  <2>. QED
    BY <2>1, AppendProperties
<1>. DEFINE one == <<d>>
<1>. HIDE DEF one
<1>5. /\ s \o one \in Seq(Devices)
      /\ Range(s \o one) = Range(s) \cup {d}
      /\ Once(s) => Once(s \o one)
      /\ Ordered(s) /\ Parent[d] # d /\ (\A x \in Range(s) : Parent[x] # d)
              => Ordered(s \o one)
  <2>1. one \in Seq(Devices) /\ Range(one) = {d} /\ Once(one)
        /\ (Parent[d] # d => Ordered(one))
        /\ ((\A x \in Range(s) : Parent[x] # d) => Before(s, one))
    BY <1>2, <1>3 DEF one
  <2>. QED
    BY <2>1, Spliced
<1>. QED
  BY <1>1, <1>4, <1>5 DEF one

\* list_add.
LEMMA Prepended ==
    ASSUME NEW s \in Seq(Devices), NEW d \in Devices, d \notin Range(s)
    PROVE  /\ <<d>> \o s \in Seq(Devices)
           /\ Range(<<d>> \o s) = Range(s) \cup {d}
           /\ Once(s) => Once(<<d>> \o s)
           /\ Ordered(s) /\ Parent[d] # d /\ Parent[d] \notin Range(s)
              => Ordered(<<d>> \o s)
<1>. DEFINE one == <<d>>
<1>. HIDE DEF one
<1>1. /\ one \in Seq(Devices) /\ Range(one) = {d} /\ Once(one)
      /\ Parent[d] # d => Ordered(one)
  BY Alone DEF one
<1>2. Parent[d] \notin Range(s) => Before(one, s)
  BY <1>1 DEF Before
<1>3. /\ one \o s \in Seq(Devices)
      /\ Range(one \o s) = Range(s) \cup {d}
      /\ Once(s) => Once(one \o s)
      /\ Ordered(s) /\ Parent[d] # d /\ Parent[d] \notin Range(s) => Ordered(one \o s)
  BY <1>1, <1>2, Spliced
<1>. QED
  BY <1>3 DEF one

\* list_del.
LEMMA Deleted ==
    ASSUME NEW s \in Seq(Devices), NEW d, Once(s)
    PROVE  /\ ListDel(s, d) \in Seq(Devices)
           /\ Range(ListDel(s, d)) = Range(s) \ {d}
           /\ Once(ListDel(s, d))
           /\ Ordered(s) => Ordered(ListDel(s, d))
           /\ s # << >> /\ s[1] # d =>
                 ListDel(s, d) # << >> /\ ListDel(s, d)[1] = s[1]
           /\ s # << >> /\ s[Len(s)] # d =>
                 ListDel(s, d) # << >> /\ ListDel(s, d)[Len(ListDel(s, d))] = s[Len(s)]
<1>1. CASE ~ \E i \in 1 .. Len(s) : s[i] = d
  <2>1. ListDel(s, d) = s
    BY <1>1 DEF ListDel
  <2>2. Range(s) \ {d} = Range(s)
    BY <1>1, RangeSeq
  <2>. QED
    BY <2>1, <2>2
<1>2. CASE \E i \in 1 .. Len(s) : s[i] = d
  <2>. DEFINE p == CHOOSE i \in 1 .. Len(s) : s[i] = d
              a == SubSeq(s, 1, p - 1)
              b == SubSeq(s, p + 1, Len(s))
              u == a \o b
  <2>1. p \in 1 .. Len(s) /\ s[p] = d /\ Len(s) \in Nat
    BY <1>2
  <2>2. ListDel(s, d) = u
    BY <1>2 DEF ListDel, RemoveAt
  <2>. HIDE DEF p
  <2>3. a \in Seq(Devices) /\ Len(a) = p - 1 /\ \A i \in 1 .. p - 1 : a[i] = s[i]
    BY <2>1, SubSeqProperties
  <2>4. b \in Seq(Devices) /\ Len(b) = Len(s) - p /\ \A i \in 1 .. Len(b) : b[i] = s[p + i]
    <3>1. \A i \in p + 1 .. Len(s) : s[i] \in Devices
      BY <2>1
    <3>2. p + 1 \in Int /\ Len(s) \in Int
      BY <2>1
    <3>3. /\ b \in Seq(Devices)
          /\ Len(b) = IF p + 1 <= Len(s) THEN Len(s) - (p + 1) + 1 ELSE 0
          /\ \A i \in 1 .. Len(s) - (p + 1) + 1 : b[i] = s[p + 1 + i - 1]
      BY ONLY <3>1, <3>2, SubSeqProperties DEF b
    <3>. QED
      BY <2>1, <3>3
  <2>. HIDE DEF a, b
  <2>5. /\ u \in Seq(Devices) /\ Len(u) = Len(a) + Len(b)
        /\ \A i \in 1 .. Len(a) + Len(b) : u[i] = IF i <= Len(a) THEN a[i] ELSE b[i - Len(a)]
    BY <2>3, <2>4, ConcatProperties
  <2>. HIDE DEF u
  <2>6. Len(u) = Len(s) - 1
    BY <2>1, <2>3, <2>4, <2>5
  <2>7. /\ \A i \in 1 .. Len(u) : i < p => u[i] = s[i]
        /\ \A i \in 1 .. Len(u) : i >= p => u[i] = s[i + 1]
    <3>1. ASSUME NEW i \in 1 .. Len(u), i < p PROVE u[i] = s[i]
      <4>1. i \in 1 .. p - 1 /\ i <= Len(a) /\ i \in 1 .. Len(a) + Len(b)
        BY <2>1, <2>3, <2>4, <2>6, <3>1
      <4>. QED
        BY <2>3, <2>5, <4>1
    <3>2. ASSUME NEW i \in 1 .. Len(u), i >= p PROVE u[i] = s[i + 1]
      <4>1. /\ ~ (i <= Len(a)) /\ i \in 1 .. Len(a) + Len(b)
            /\ i - Len(a) \in 1 .. Len(b) /\ p + (i - Len(a)) = i + 1
        BY <2>1, <2>3, <2>4, <2>6, <3>2
      <4>2. b[i - Len(a)] = s[p + (i - Len(a))]
        BY <2>4, <4>1
      <4>. QED
        BY <2>5, <4>1, <4>2
    <3>. QED
      BY <3>1, <3>2
  <2>8. Range(u) = Range(s) \ {d}
    <3>1. ASSUME NEW x \in Range(u) PROVE x \in Range(s) \ {d}
      <4>1. PICK i \in 1 .. Len(u) : u[i] = x
        BY <2>5, <3>1, RangeSeq
      <4>2. CASE i < p
        <5>1. i \in 1 .. Len(s) /\ s[i] = x /\ i # p
          BY <2>1, <2>6, <2>7, <4>1, <4>2
        <5>. QED
          BY <2>1, <5>1, RangeSeq DEF Once
      <4>3. CASE i >= p
        <5>1. i + 1 \in 1 .. Len(s) /\ s[i + 1] = x /\ i + 1 # p
          BY <2>1, <2>6, <2>7, <4>1, <4>3
        <5>. QED
          BY <2>1, <5>1, RangeSeq DEF Once
      <4>. QED
        BY <2>1, <4>2, <4>3
    <3>2. ASSUME NEW x \in Range(s), x # d PROVE x \in Range(u)
      <4>1. PICK i \in 1 .. Len(s) : s[i] = x
        BY <3>2, RangeSeq
      <4>2. i < p \/ i > p
        BY <2>1, <3>2, <4>1
      <4>3. CASE i < p
        <5>1. i \in 1 .. Len(u) /\ u[i] = x
          BY <2>1, <2>6, <2>7, <4>1, <4>3
        <5>. QED
          BY <2>5, <5>1, RangeSeq
      <4>4. CASE i > p
        <5>1. i - 1 \in 1 .. Len(u) /\ i - 1 >= p /\ i - 1 + 1 = i
          BY <2>1, <2>6, <4>4
        <5>2. u[i - 1] = s[i - 1 + 1]
          BY <2>7, <5>1
        <5>. QED
          BY <2>5, <4>1, <5>1, <5>2, RangeSeq
      <4>. QED
        BY <4>2, <4>3, <4>4
    <3>. QED
      BY <3>1, <3>2
  <2>9. ASSUME NEW i \in 1 .. Len(u), NEW j \in 1 .. Len(u)
        PROVE  \E k, m \in 1 .. Len(s) :
                  u[i] = s[k] /\ u[j] = s[m] /\ (k = m => i = j) /\ (m < k => j < i)
    <3>. DEFINE k == IF i < p THEN i ELSE i + 1
                m == IF j < p THEN j ELSE j + 1
    <3>1. k \in 1 .. Len(s) /\ m \in 1 .. Len(s)
      BY <2>1, <2>6
    <3>2. u[i] = s[k] /\ u[j] = s[m]
      BY <2>1, <2>6, <2>7
    <3>3. (k = m => i = j) /\ (m < k => j < i)
      BY <2>1, <2>6
    <3>. HIDE DEF k, m
    <3>. QED
      BY <3>1, <3>2, <3>3
  <2>10. Once(u)
    <3>. SUFFICES ASSUME NEW i \in 1 .. Len(u), NEW j \in 1 .. Len(u), u[i] = u[j]
                  PROVE  i = j
      BY DEF Once
    <3>1. PICK k \in 1 .. Len(s), m \in 1 .. Len(s) :
             u[i] = s[k] /\ u[j] = s[m] /\ (k = m => i = j)
      BY <2>9
    <3>. QED
      BY <3>1 DEF Once
  <2>11. ASSUME Ordered(s) PROVE Ordered(u)
    <3>. SUFFICES ASSUME NEW i \in 1 .. Len(u), NEW j \in 1 .. Len(u), u[j] = Parent[u[i]]
                  PROVE  j < i
      BY DEF Ordered
    <3>1. PICK k \in 1 .. Len(s), m \in 1 .. Len(s) :
             u[i] = s[k] /\ u[j] = s[m] /\ (m < k => j < i)
      BY <2>9
    <3>2. m < k
      BY <2>11, <3>1 DEF Ordered
    <3>. QED
      BY <3>1, <3>2
  <2>12. ASSUME s # << >>, s[1] # d PROVE u # << >> /\ u[1] = s[1]
    <3>1. p > 1 /\ 1 \in 1 .. Len(u)
      BY <2>1, <2>6, <2>12
    <3>. QED
      BY <2>1, <2>5, <2>7, <3>1
  <2>13. ASSUME s # << >>, s[Len(s)] # d PROVE u # << >> /\ u[Len(u)] = s[Len(s)]
    <3>1. p < Len(s) /\ Len(u) \in 1 .. Len(u) /\ Len(u) >= p /\ Len(u) + 1 = Len(s)
      BY <2>1, <2>6, <2>13
    <3>2. u[Len(u)] = s[Len(u) + 1]
      BY <2>7, <3>1
    <3>3. u # << >>
      BY <2>5, <3>1
    <3>. QED
      BY <3>1, <3>2, <3>3
  <2>. QED
    BY <2>2, <2>5, <2>8, <2>10, <2>11, <2>12, <2>13
<1>. QED
  BY <1>1, <1>2

----------------------------------------------------------------------------
(* The invariant.  Lists, Stages and Marks give ListsExact and AllBackOn: at *)
(* each place of the suspend thread the devices it has yet to deal with and  *)
(* those it has dealt with are in known states, and the state of a device    *)
(* tells whether it is owed complete() and how deep it sleeps.  Order and    *)
(* SleepOrder, which need that nothing is added under dpm_complete, give the *)
(* other two.                                                                *)

Callback == {"preparing", "suspending", "resuming", "completing"}
NoWalk == {"idle", "all_prepared", "suspended", "power_up", "off", "device_resume",
           "resumed"}
Backwards == {"suspend", "suspending", "complete", "completing"}
InTransition == {"prepare", "preparing", "all_prepared", "suspend", "suspending",
                 "suspended", "power_up", "off", "device_resume"}

Data ==
    /\ status \in [Devices -> Statuses]
    /\ pc \in NoWalk \cup Callback \cup {"prepare", "suspend", "resume", "complete"}
    /\ cur \in Devices \cup {NoParent}
    /\ prepared \subseteq Devices
    /\ alive \subseteq Devices
    /\ asleep \in [Devices -> {"no", "suspend", "noirq"}]

Started == /\ transition_started \in BOOLEAN
           /\ transition_started = TRUE <=> pc \in InTransition

Lists ==
    /\ dpm_list \in Seq(Devices) /\ list \in Seq(Devices)
    /\ Once(dpm_list) /\ Once(list)
    /\ Range(dpm_list) \cap Range(list) = {}
    /\ Range(dpm_list) \cup Range(list) = alive
    /\ pc \in NoWalk => list = << >>
    /\ pc \in Callback => cur \in Devices /\ cur \notin Range(list)

Todo(S) == \A d \in Range(dpm_list) : status[d] \in S
TodoBut(s, S) == \A d \in Range(dpm_list) : status[d] \in IF d = cur THEN {s} ELSE S
Dealt(S) == \A d \in Range(list) : status[d] \in S

Stages ==
    /\ pc = "idle" => Todo({"ON"})
    /\ pc = "prepare" => Todo({"ON"}) /\ Dealt({"SUSPENDING"})
    /\ pc = "preparing" => TodoBut("PREPARING", {"ON"}) /\ Dealt({"SUSPENDING"})
    /\ pc = "all_prepared" => Todo({"SUSPENDING"})
    /\ pc \in {"suspend", "suspending"} => Todo({"SUSPENDING"}) /\ Dealt({"OFF"})
    /\ pc = "suspended" => Todo({"OFF"})
    /\ pc \in {"power_up", "off"} => Todo({"OFF", "OFF_IRQ"})
    /\ pc = "device_resume" => Todo({"ON", "SUSPENDING", "OFF"})
    /\ pc = "resume" => Todo({"ON", "SUSPENDING", "OFF"}) /\ Dealt({"ON", "RESUMING"})
    /\ pc = "resuming" => /\ TodoBut("RESUMING", {"ON", "SUSPENDING", "OFF"})
                          /\ Dealt({"ON", "RESUMING"})
    /\ pc = "resumed" => Todo({"ON", "RESUMING"})
    /\ pc = "complete" => Todo({"ON", "RESUMING"}) /\ Dealt({"ON"})
    /\ pc = "completing" => TodoBut("ON", {"ON", "RESUMING"}) /\ Dealt({"ON"})

Marks ==
    \A d \in alive :
        /\ d \in prepared <=> status[d] \in AtLeastSuspending \cup {"RESUMING"}
        /\ asleep[d] = "suspend" <=> status[d] = "OFF"
        /\ asleep[d] = "noirq" <=> status[d] = "OFF_IRQ"

StageInv == Data /\ Started /\ Lists /\ Stages /\ Marks

Order ==
    /\ Ordered(dpm_list) /\ Ordered(list)
    /\ IF pc \in Backwards THEN Before(dpm_list, list) ELSE Before(list, dpm_list)
    /\ \A d \in alive : Parent[d] \in alive \cup {NoParent}
    /\ pc \in {"preparing", "resuming"} /\ cur \in alive =>
          dpm_list # << >> /\ dpm_list[1] = cur
    /\ pc \in {"suspending", "completing"} /\ cur \in alive =>
          dpm_list # << >> /\ dpm_list[Len(dpm_list)] = cur

SleepOrder ==
    \A d, e \in alive : e = Parent[d] =>
        /\ status[e] = "OFF" => status[d] \in {"OFF", "OFF_IRQ"}
        /\ status[e] = "OFF_IRQ" => status[d] = "OFF_IRQ"

----------------------------------------------------------------------------
(* What the list operations of a walk do. *)

Moved(d) ==
    /\ dpm_list' \in Seq(Devices) /\ list' \in Seq(Devices)
    /\ Once(dpm_list') /\ Once(list')
    /\ Range(dpm_list') = Range(dpm_list) \ {d}
    /\ Range(list') = Range(list) \cup (Range(dpm_list) \cap {d})

AllSpliced ==
    /\ dpm_list' \in Seq(Devices) /\ Once(dpm_list')
    /\ Range(dpm_list') = alive
    /\ list' = << >>

\* An empty list.
LEMMA EmptyList == << >> \in Seq(Devices) /\ Range(<< >>) = {} /\ Once(<< >>) /\ Ordered(<< >>)
<1>. DEFINE e == << >>
<1>1. e \in Seq(Devices) /\ 1 .. Len(e) = {}
  OBVIOUS
<1>. HIDE DEF e
<1>2. Range(e) = {}
  BY <1>1, RangeSeq
<1>3. Once(e) /\ Ordered(e)
  BY <1>1 DEF Once, Ordered
<1>. QED
  BY <1>1, <1>2, <1>3 DEF e

\* The ends of a list.
LEMMA Ends ==
    ASSUME NEW s \in Seq(Devices), s # << >>
    PROVE  /\ Head(s) = s[1] /\ Head(s) \in Range(s) /\ Head(s) \in Devices
           /\ Last(s) = s[Len(s)] /\ Last(s) \in Range(s) /\ Last(s) \in Devices
           /\ Len(s) \in Nat /\ 1 \in 1 .. Len(s) /\ Len(s) \in 1 .. Len(s)
<1>1. Len(s) \in Nat /\ Len(s) >= 1 /\ Head(s) = s[1] /\ Last(s) = s[Len(s)]
  BY DEF Last
<1>2. 1 \in 1 .. Len(s) /\ Len(s) \in 1 .. Len(s)
  BY <1>1
<1>. QED
  BY <1>1, <1>2, RangeSeq

\* list_move and list_move_tail of a device that the walk has not dealt with.
LEMMA MoveEffect ==
    ASSUME Lists, NEW d \in Devices, d \notin Range(list), MoveTail(d) \/ MoveHead(d)
    PROVE  Moved(d)
<1>1. /\ dpm_list' \in Seq(Devices) /\ Once(dpm_list')
      /\ Range(dpm_list') = Range(dpm_list) \ {d}
  BY Deleted DEF MoveTail, MoveHead, Lists
<1>2. CASE d \in Range(dpm_list)
  <2>1. list' = Append(list, d) \/ list' = <<d>> \o list
    BY <1>2 DEF MoveTail, MoveHead, Registered
  <2>2. list' \in Seq(Devices) /\ Once(list') /\ Range(list') = Range(list) \cup {d}
    <3>1. list \in Seq(Devices) /\ Once(list)
      BY DEF Lists
    <3>2. CASE list' = Append(list, d)
      BY <3>1, <3>2, Appended
    <3>3. CASE list' = <<d>> \o list
      BY <3>1, <3>3, Prepended
    <3>. QED
      BY <2>1, <3>2, <3>3
  <2>3. Range(dpm_list) \cap {d} = {d}
    BY <1>2
  <2>. QED
    BY <1>1, <2>2, <2>3 DEF Moved
<1>3. CASE d \notin Range(dpm_list)
  <2>1. list' = list
    BY <1>3 DEF MoveTail, MoveHead, Registered
  <2>2. Range(dpm_list) \cap {d} = {}
    BY <1>3
  <2>. QED
    BY <1>1, <2>1, <2>2 DEF Moved, Lists
<1>. QED
  BY <1>2, <1>3

\* list_splice of what the walk has dealt with.
LEMMA SpliceEffect ==
    ASSUME Lists, SpliceHead \/ SpliceTail
    PROVE  AllSpliced
<1>1. CASE SpliceHead
  <2>1. dpm_list' = list \o dpm_list /\ list' = << >>
    BY <1>1 DEF SpliceHead
  <2>2. Range(list) \cap Range(dpm_list) = {} /\ Range(list) \cup Range(dpm_list) = alive
    BY DEF Lists
  <2>. QED
    BY <2>1, <2>2, Spliced DEF Lists, AllSpliced
<1>2. CASE SpliceTail
  <2>1. dpm_list' = dpm_list \o list /\ list' = << >>
    BY <1>2 DEF SpliceTail
  <2>. QED
    BY <2>1, Spliced DEF Lists, AllSpliced
<1>. QED
  BY <1>1, <1>2

----------------------------------------------------------------------------
(* The parts of StageInv, one by one. *)

\* transition_started is set exactly from dpm_prepare to dpm_resume.
LEMMA StartedNext == Data /\ Started /\ [DPMNext]_dpmVars => Started'
<1>. SUFFICES ASSUME Data, Started, [DPMNext]_dpmVars PROVE Started'
  OBVIOUS
<1>. USE DEF InTransition
<1>1. ASSUME transition_started' = transition_started,
             pc' \in InTransition <=> pc \in InTransition
      PROVE  Started'
  BY <1>1, Zenon DEF Started
<1>2. ASSUME DpmPrepare PROVE Started'
  <2>1. transition_started' = TRUE /\ pc' \in InTransition
    BY <1>2 DEF DpmPrepare
  <2>. QED
    BY <2>1, Zenon DEF Started
<1>3. ASSUME DpmResume PROVE Started'
  <2>1. transition_started' = FALSE /\ pc' \notin InTransition
    BY <1>3 DEF DpmResume
  <2>. QED
    BY <2>1, Zenon DEF Started
<1>4. ASSUME DPMStep, ~ DpmResume
      PROVE  transition_started' = transition_started /\ (pc' \in InTransition <=> pc \in InTransition)
  BY <1>4 DEF DPMStep, PrepareNext, Prepared, PrepareAgain, PrepareFailed, PrepareEnd,
              DpmSuspend, SuspendNext, Suspended, SuspendFailed, SuspendEnd, DevicePowerDown,
              ResumeNext, Resumed, ResumeEnd, DpmComplete, CompleteNext, Completed,
              CompleteEnd
<1>5. ASSUME DpmPowerUp \/ Hotplug \/ UNCHANGED dpmVars
      PROVE  transition_started' = transition_started /\ (pc' \in InTransition <=> pc \in InTransition)
  BY <1>5 DEF DpmPowerUp, IrqsOff, Hotplug, DevicePmAdd, DevicePmRemove, dpmVars
<1>. QED
  BY <1>1, <1>2, <1>3, <1>4, <1>5, Zenon DEF DPMNext

\* The rest of the types.
LEMMA DataNext == Data /\ Lists /\ [DPMNext]_dpmVars => Data'
<1>. SUFFICES ASSUME Data, Lists, [DPMNext]_dpmVars PROVE Data'
  OBVIOUS
<1>. USE DEF Data, NoWalk, Callback, Statuses, SetStatus, devVars
<1>1. ASSUME Hotplug PROVE Data'
  BY <1>1 DEF Hotplug, DevicePmAdd, DevicePmRemove, NewStatus
<1>2. ASSUME PrepareNext PROVE Data'
  BY <1>2, Ends DEF PrepareNext, Lists
<1>3. ASSUME Prepared \/ PrepareAgain \/ PrepareFailed PROVE Data'
  BY <1>3 DEF Prepared, PrepareAgain, PrepareFailed, Lists
<1>4. ASSUME SuspendNext PROVE Data'
  BY <1>4, Ends DEF SuspendNext, Lists
<1>5. ASSUME Suspended \/ SuspendFailed PROVE Data'
  BY <1>5 DEF Suspended, SuspendFailed
<1>6. ASSUME DevicePowerDown PROVE Data'
  BY <1>6 DEF DevicePowerDown
<1>7. ASSUME DpmPowerUp PROVE Data'
  BY <1>7 DEF DpmPowerUp
<1>8. ASSUME ResumeNext PROVE Data'
  <2>1. PICK d \in Devices, s \in Statuses :
           /\ SetStatus(d, s)
           /\ asleep' = asleep \/ asleep' = [asleep EXCEPT ![d] = "no"]
           /\ cur' = cur \/ cur' = d
           /\ pc' = pc \/ pc' = "resuming"
    <3>1. Head(dpm_list) \in Devices
      BY <1>8, Ends DEF ResumeNext, Lists
    <3>. QED
      BY <1>8, <3>1 DEF ResumeNext
  <2>2. prepared' = prepared /\ alive' = alive
    BY <1>8 DEF ResumeNext
  <2>. QED
    BY <2>1, <2>2
<1>9. ASSUME CompleteNext PROVE Data'
  BY <1>9, Ends DEF CompleteNext, Lists
<1>10. ASSUME Resumed \/ Completed PROVE Data'
  BY <1>10 DEF Resumed, Completed
<1>11. ASSUME DpmPrepare \/ PrepareEnd \/ DpmSuspend \/ SuspendEnd \/ DpmResume \/ ResumeEnd
              \/ DpmComplete \/ CompleteEnd \/ UNCHANGED dpmVars
       PROVE  Data'
  BY <1>11 DEF DpmPrepare, PrepareEnd, DpmSuspend, SuspendEnd, DpmResume, ResumeEnd,
               DpmComplete, CompleteEnd, dpmVars
<1>. QED
  BY <1>1, <1>2, <1>3, <1>4, <1>5, <1>6, <1>7, <1>8, <1>9, <1>10, <1>11
     DEF DPMNext, DPMStep

\* Each device that exists is on one of the lists, once.
LEMMA ListsNext == Data /\ Started /\ Lists /\ [DPMNext]_dpmVars => Lists'
<1>. SUFFICES ASSUME Data, Lists, [DPMNext]_dpmVars PROVE Lists'
  OBVIOUS
<1>. USE DEF NoWalk, Callback
<1>1. ASSUME NEW d \in Devices, DevicePmAdd(d) PROVE Lists'
  <2>1. d \notin Range(dpm_list) /\ d \notin Range(list) /\ list' = list
        /\ alive' = alive \cup {d} /\ pc' = pc /\ cur' = cur
        /\ dpm_list' = Append(dpm_list, d)
    BY <1>1 DEF DevicePmAdd, Lists
  <2>2. dpm_list' \in Seq(Devices) /\ Once(dpm_list')
        /\ Range(dpm_list') = Range(dpm_list) \cup {d}
    BY <2>1, Appended DEF Lists
  <2>. QED
    BY <2>1, <2>2 DEF Lists
<1>2. ASSUME NEW d \in Devices, DevicePmRemove(d) PROVE Lists'
  <2>1. /\ dpm_list' = ListDel(dpm_list, d) /\ list' = ListDel(list, d)
        /\ alive' = alive \ {d} /\ pc' = pc /\ cur' = cur
    BY <1>2 DEF DevicePmRemove
  <2>2. /\ dpm_list' \in Seq(Devices) /\ Once(dpm_list')
        /\ Range(dpm_list') = Range(dpm_list) \ {d}
        /\ list' \in Seq(Devices) /\ Once(list') /\ Range(list') = Range(list) \ {d}
    BY <2>1, Deleted DEF Lists
  <2>3. list = << >> => list' = << >>
    BY <2>1 DEF ListDel
  <2>. QED
    BY <2>1, <2>2, <2>3 DEF Lists
<1>3. ASSUME UNCHANGED <<dpm_list, list, alive>>,
             pc' \in NoWalk => pc \in NoWalk,
             pc' \in Callback => cur' \in Range(dpm_list)
      PROVE  Lists'
  BY <1>3, RangeSeq DEF Lists
<1>4. ASSUME NEW d \in Devices, d \notin Range(list), Moved(d), alive' = alive,
             pc' \notin NoWalk, pc' \notin Callback
      PROVE  Lists'
  BY <1>4 DEF Lists, Moved
<1>5. ASSUME AllSpliced, alive' = alive, pc' \notin Callback
      PROVE  Lists'
  BY <1>5, EmptyList DEF Lists, AllSpliced
<1>6. ASSUME PrepareNext \/ SuspendNext PROVE Lists'
  BY <1>3, <1>6, Ends DEF PrepareNext, SuspendNext, lists, Lists
<1>7. ASSUME PrepareAgain \/ DevicePowerDown \/ DpmPowerUp \/ DpmPrepare \/ DpmSuspend
             \/ DpmResume \/ DpmComplete
      PROVE  Lists'
  BY <1>3, <1>7 DEF PrepareAgain, DevicePowerDown, DpmPowerUp, DpmPrepare, DpmSuspend,
                    DpmResume, DpmComplete, lists, IrqsOff
<1>8. ASSUME Prepared \/ Suspended \/ Resumed \/ Completed PROVE Lists'
  <2>1. /\ MoveTail(cur) \/ MoveHead(cur)
        /\ cur \in Devices /\ cur \notin Range(list)
        /\ alive' = alive /\ pc' \notin NoWalk /\ pc' \notin Callback
    BY <1>8 DEF Prepared, Suspended, Resumed, Completed, Lists
  <2>2. Moved(cur)
    BY <2>1, MoveEffect
  <2>. QED
    BY <1>4, <2>1, <2>2
<1>9. ASSUME PrepareFailed \/ PrepareEnd \/ SuspendFailed \/ SuspendEnd \/ ResumeEnd
             \/ CompleteEnd
      PROVE  Lists'
  <2>1. (SpliceHead \/ SpliceTail) /\ alive' = alive /\ pc' \notin Callback
    BY <1>9 DEF PrepareFailed, PrepareEnd, SuspendFailed, SuspendEnd, ResumeEnd, CompleteEnd
  <2>. QED
    BY <1>5, <2>1, SpliceEffect
<1>10. ASSUME ResumeNext \/ CompleteNext PROVE Lists'
  <2>1. PICK d : /\ d \in Devices /\ d \in Range(dpm_list) /\ d \notin Range(list)
                 /\ alive' = alive
                 /\ \/ UNCHANGED lists /\ cur' = d /\ pc' \in Callback
                    \/ pc' = pc /\ (MoveTail(d) \/ MoveHead(d))
    <3>1. CASE ResumeNext
      <4>1. Head(dpm_list) \in Devices /\ Head(dpm_list) \in Range(dpm_list)
            /\ Head(dpm_list) \notin Range(list)
        BY <3>1, Ends DEF ResumeNext, Lists
      <4>. QED
        BY <3>1, <4>1 DEF ResumeNext
    <3>2. CASE CompleteNext
      <4>1. Last(dpm_list) \in Devices /\ Last(dpm_list) \in Range(dpm_list)
            /\ Last(dpm_list) \notin Range(list)
        BY <3>2, Ends DEF CompleteNext, Lists
      <4>. QED
        BY <3>2, <4>1 DEF CompleteNext
    <3>. QED
      BY <1>10, <3>1, <3>2
  <2>2. pc \in {"resume", "complete"}
    BY <1>10 DEF ResumeNext, CompleteNext
  <2>3. CASE UNCHANGED lists /\ cur' = d /\ pc' \in Callback
    BY <1>3, <2>1, <2>3 DEF lists
  <2>4. CASE pc' = pc /\ (MoveTail(d) \/ MoveHead(d))
    BY <1>4, <2>1, <2>2, <2>4, MoveEffect
  <2>. QED
    BY <2>1, <2>3, <2>4
<1>11. ASSUME UNCHANGED dpmVars PROVE Lists'
  BY <1>11 DEF dpmVars, lists, Lists
<1>. QED
  BY <1>1, <1>2, <1>6, <1>7, <1>8, <1>9, <1>10, <1>11 DEF DPMNext, DPMStep, Hotplug

\* When a device is added: it is at the back of dpm_list, on, and none of the
\* devices is past prepare(), or the walk would be in a callback of resume.
LEMMA AddEffect ==
    ASSUME StageInv, NEW d \in Devices, DevicePmAdd(d)
    PROVE  /\ d \notin alive /\ d # cur
           /\ Range(dpm_list') = Range(dpm_list) \cup {d} /\ list' = list
           /\ dpm_list' = Append(dpm_list, d)
           /\ alive' = alive \cup {d}
           /\ status'[d] = "ON" /\ d \notin prepared' /\ asleep'[d] = "no"
           /\ \A e \in Devices \ {d} : /\ status'[e] = status[e] /\ asleep'[e] = asleep[e]
                                       /\ e \in prepared' <=> e \in prepared
           /\ pc' = pc /\ cur' = cur
           /\ pc \in {"idle", "preparing", "device_resume", "resuming", "resumed",
                      "completing"}
<1>1. /\ d \notin alive /\ d # cur /\ list' = list /\ dpm_list' = Append(dpm_list, d)
      /\ alive' = alive \cup {d} /\ pc' = pc /\ cur' = cur
      /\ prepared' = prepared \ {d} /\ d \notin Range(dpm_list)
  BY DEF DevicePmAdd, StageInv, Lists
<1>2. /\ status'[d] = "ON" /\ asleep'[d] = "no"
      /\ \A e \in Devices \ {d} : status'[e] = status[e] /\ asleep'[e] = asleep[e]
  BY DEF DevicePmAdd, StageInv, Data, SetStatus, NewStatus
<1>3. Range(dpm_list') = Range(dpm_list) \cup {d}
  BY <1>1, Appended DEF StageInv, Lists
<1>4. pc \notin {"all_prepared", "suspending", "suspended"}
  <2>. SUFFICES ASSUME pc \in {"all_prepared", "suspending", "suspended"} PROVE FALSE
    OBVIOUS
  <2>1. \A e \in alive : status[e] \in AtLeastSuspending
    BY EmptyList DEF StageInv, Lists, Stages, Todo, Dealt, AtLeastSuspending, NoWalk
  <2>2. transition_started = TRUE
    BY DEF StageInv, Started, InTransition
  <2>. QED
    BY <2>1, <2>2 DEF DevicePmAdd
<1>5. pc \in {"idle", "preparing", "device_resume", "resuming", "resumed", "completing"}
  BY <1>4 DEF DevicePmAdd, StageInv, Data, NoWalk, Callback, IrqsOff, ListLocked
<1>. QED
  BY <1>1, <1>2, <1>3, <1>5

\* When a device is removed it is on neither list.
LEMMA RemoveEffect ==
    ASSUME StageInv, NEW d \in Devices, DevicePmRemove(d)
    PROVE  /\ dpm_list' = ListDel(dpm_list, d) /\ list' = ListDel(list, d)
           /\ Range(dpm_list') = Range(dpm_list) \ {d}
           /\ Range(list') = Range(list) \ {d}
           /\ alive' = alive \ {d}
           /\ UNCHANGED <<status, prepared, asleep, pc, cur>>
<1>1. dpm_list' = ListDel(dpm_list, d) /\ list' = ListDel(list, d)
      /\ alive' = alive \ {d} /\ UNCHANGED <<status, prepared, asleep, pc, cur>>
  BY DEF DevicePmRemove, devVars
<1>. QED
  BY <1>1, Deleted DEF StageInv, Lists

\* Where the suspend thread is tells how far each device is.
LEMMA StagesNext == StageInv /\ [DPMNext]_dpmVars => Stages'
<1>. SUFFICES ASSUME StageInv, [DPMNext]_dpmVars PROVE Stages'
  OBVIOUS
<1>0. /\ Range(dpm_list) \subseteq Devices /\ Range(list) \subseteq Devices
      /\ Range(dpm_list) \cup Range(list) = alive
      /\ dpm_list = << >> => Range(dpm_list) = {}
      /\ list = << >> => Range(list) = {}
      /\ pc \in NoWalk => Range(list) = {}
      /\ status \in [Devices -> Statuses]
  BY RangeSeq, EmptyList DEF StageInv, Lists, Data
<1>. USE DEF Stages, Todo, TodoBut, Dealt, SetStatus
<1>1. ASSUME NEW d \in Devices, DevicePmAdd(d) PROVE Stages'
  BY <1>0, <1>1, AddEffect DEF StageInv
<1>2. ASSUME NEW d \in Devices, DevicePmRemove(d) PROVE Stages'
  BY <1>0, <1>2, RemoveEffect DEF StageInv
<1>3. ASSUME DpmPrepare \/ DpmSuspend \/ DpmResume \/ DpmComplete PROVE Stages'
  BY <1>0, <1>3 DEF StageInv, DpmPrepare, DpmSuspend, DpmResume, DpmComplete, lists, devVars,
                    NoWalk
<1>4. ASSUME PrepareNext PROVE Stages'
  <2>1. Head(dpm_list) \in Devices /\ Head(dpm_list) \in Range(dpm_list)
        /\ Head(dpm_list) \notin Range(list)
    BY <1>4, Ends DEF PrepareNext, StageInv, Lists
  <2>. QED
    BY <1>0, <1>4, <2>1 DEF StageInv, PrepareNext, lists
<1>5. ASSUME Prepared PROVE Stages'
  <2>1. cur \in Devices /\ cur \notin Range(list) /\ MoveTail(cur)
    BY <1>5 DEF Prepared, StageInv, Lists, Callback
  <2>2. Moved(cur)
    BY <2>1, MoveEffect DEF StageInv
  <2>. QED
    BY <1>0, <1>5, <2>1, <2>2 DEF StageInv, Prepared, Moved
<1>6. ASSUME PrepareAgain PROVE Stages'
  BY <1>0, <1>6 DEF StageInv, PrepareAgain, lists, Lists, Callback
<1>7. ASSUME PrepareFailed PROVE Stages'
  <2>1. cur \in Devices /\ cur \notin Range(list) /\ AllSpliced
    BY <1>7, SpliceEffect DEF PrepareFailed, StageInv, Lists, Callback
  <2>. QED
    BY <1>0, <1>7, <2>1 DEF StageInv, PrepareFailed, AllSpliced
<1>8. ASSUME PrepareEnd \/ SuspendEnd \/ ResumeEnd \/ CompleteEnd PROVE Stages'
  <2>1. AllSpliced /\ status' = status /\ dpm_list = << >>
    BY <1>8, SpliceEffect
       DEF PrepareEnd, SuspendEnd, ResumeEnd, CompleteEnd, StageInv, devVars
  <2>2. /\ PrepareEnd => pc = "prepare" /\ pc' = "all_prepared"
        /\ SuspendEnd => pc = "suspend" /\ pc' = "suspended"
        /\ ResumeEnd => pc = "resume" /\ pc' = "resumed"
        /\ CompleteEnd => pc = "complete" /\ pc' = "idle"
    BY DEF PrepareEnd, SuspendEnd, ResumeEnd, CompleteEnd
  <2>. QED
    BY <1>0, <1>8, <2>1, <2>2 DEF StageInv, AllSpliced
<1>9. ASSUME SuspendNext PROVE Stages'
  BY <1>9 DEF StageInv, SuspendNext, lists, devVars
<1>10. ASSUME Suspended PROVE Stages'
  <2>1. cur \in Devices /\ cur \notin Range(list) /\ MoveHead(cur)
    BY <1>10 DEF Suspended, StageInv, Lists, Callback
  <2>2. Moved(cur)
    BY <2>1, MoveEffect DEF StageInv
  <2>. QED
    BY <1>0, <1>10, <2>1, <2>2 DEF StageInv, Suspended, Moved
<1>11. ASSUME SuspendFailed PROVE Stages'
  <2>1. AllSpliced
    BY <1>11, SpliceEffect DEF SuspendFailed, StageInv
  <2>. QED
    BY <1>0, <1>11, <2>1 DEF StageInv, SuspendFailed, AllSpliced, devVars
<1>12. ASSUME DevicePowerDown PROVE Stages'
  <2>1. PICK S : /\ status' = [d \in Devices |-> IF d \in S THEN "OFF_IRQ" ELSE status[d]]
                 /\ pc = "suspended" /\ pc' \in {"off", "power_up"} /\ UNCHANGED lists
    BY <1>12 DEF DevicePowerDown
  <2>. QED
    BY <1>0, <2>1 DEF StageInv, lists
<1>13. ASSUME DpmPowerUp PROVE Stages'
  BY <1>0, <1>13 DEF StageInv, DpmPowerUp, IrqsOff, lists
<1>14. ASSUME ResumeNext PROVE Stages'
  <2>. DEFINE d == Head(dpm_list)
  <2>1. d \in Devices /\ d \in Range(dpm_list) /\ d \notin Range(list)
    BY <1>14, Ends DEF ResumeNext, StageInv, Lists
  <2>2. CASE status[d] \in {"OFF", "OFF_IRQ"}
    <3>1. SetStatus(d, "RESUMING") /\ cur' = d /\ pc = "resume" /\ pc' = "resuming"
          /\ UNCHANGED lists
      BY <1>14, <2>2 DEF ResumeNext
    <3>. HIDE DEF d
    <3>. QED
      BY <1>0, <2>1, <3>1 DEF StageInv, lists
  <2>3. CASE status[d] \notin {"OFF", "OFF_IRQ"}
    <3>1. /\ SetStatus(d, IF status[d] = "SUSPENDING" THEN "RESUMING" ELSE status[d])
          /\ MoveTail(d) /\ pc = "resume" /\ pc' = "resume"
      BY <1>14, <2>3 DEF ResumeNext
    <3>. HIDE DEF d
    <3>2. Moved(d)
      BY <2>1, <3>1, MoveEffect DEF StageInv
    <3>3. status[d] \in {"ON", "SUSPENDING"}
      BY <2>1, <2>3, <3>1 DEF StageInv
    <3>. QED
      BY <1>0, <2>1, <3>1, <3>2, <3>3 DEF StageInv, Moved
  <2>. QED
    BY <2>2, <2>3
<1>15. ASSUME Resumed PROVE Stages'
  <2>1. cur \in Devices /\ cur \notin Range(list) /\ MoveTail(cur)
    BY <1>15 DEF Resumed, StageInv, Lists, Callback
  <2>2. Moved(cur)
    BY <2>1, MoveEffect DEF StageInv
  <2>. QED
    BY <1>0, <1>15, <2>1, <2>2 DEF StageInv, Resumed, Moved, devVars
<1>16. ASSUME CompleteNext PROVE Stages'
  <2>. DEFINE d == Last(dpm_list)
  <2>1. d \in Devices /\ d \in Range(dpm_list) /\ d \notin Range(list)
    BY <1>16, Ends DEF CompleteNext, StageInv, Lists
  <2>2. CASE status[d] # "ON"
    <3>1. SetStatus(d, "ON") /\ cur' = d /\ pc = "complete" /\ pc' = "completing"
          /\ UNCHANGED lists
      BY <1>16, <2>2 DEF CompleteNext
    <3>. HIDE DEF d
    <3>. QED
      BY <1>0, <2>1, <3>1 DEF StageInv, lists
  <2>3. CASE status[d] = "ON"
    <3>1. status' = status /\ MoveHead(d) /\ pc = "complete" /\ pc' = "complete"
      BY <1>16, <2>3 DEF CompleteNext
    <3>. HIDE DEF d
    <3>2. Moved(d)
      BY <2>1, <3>1, MoveEffect DEF StageInv
    <3>. QED
      BY <1>0, <2>1, <2>3, <3>1, <3>2 DEF StageInv, Moved
  <2>. QED
    BY <2>2, <2>3
<1>17. ASSUME Completed PROVE Stages'
  <2>1. cur \in Devices /\ cur \notin Range(list) /\ MoveHead(cur)
    BY <1>17 DEF Completed, StageInv, Lists, Callback
  <2>2. Moved(cur)
    BY <2>1, MoveEffect DEF StageInv
  <2>. QED
    BY <1>0, <1>17, <2>1, <2>2 DEF StageInv, Completed, Moved, devVars
<1>18. ASSUME UNCHANGED dpmVars PROVE Stages'
  BY <1>18 DEF dpmVars, lists, devVars, StageInv
<1>. QED
  BY <1>1, <1>2, <1>3, <1>4, <1>5, <1>6, <1>7, <1>8, <1>9, <1>10, <1>11, <1>12, <1>13,
     <1>14, <1>15, <1>16, <1>17, <1>18, Zenon DEF DPMNext, DPMStep, Hotplug

\* The status of a device tells whether complete() is owed to it and how deep
\* it sleeps.
LEMMA MarksNext == StageInv /\ [DPMNext]_dpmVars => Marks'
<1>. SUFFICES ASSUME StageInv, [DPMNext]_dpmVars PROVE Marks'
  OBVIOUS
<1>0. /\ Range(dpm_list) \subseteq Devices /\ Range(list) \subseteq Devices
      /\ Range(dpm_list) \cup Range(list) = alive /\ alive \subseteq Devices
      /\ pc \in NoWalk => Range(list) = {}
      /\ status \in [Devices -> Statuses]
      /\ asleep \in [Devices -> {"no", "suspend", "noirq"}]
  BY RangeSeq, EmptyList DEF StageInv, Lists, Data
<1>. USE DEF Marks, SetStatus, AtLeastSuspending
<1>1. ASSUME NEW d \in Devices, DevicePmAdd(d) PROVE Marks'
  BY <1>0, <1>1, AddEffect DEF StageInv
<1>2. ASSUME NEW d \in Devices, DevicePmRemove(d) PROVE Marks'
  BY <1>0, <1>2, RemoveEffect DEF StageInv
<1>3. ASSUME UNCHANGED <<status, prepared, asleep, alive>> PROVE Marks'
  BY <1>3 DEF StageInv
<1>4. ASSUME PrepareNext PROVE Marks'
  <2>1. Head(dpm_list) \in Devices /\ status[Head(dpm_list)] = "ON"
    BY <1>4, Ends DEF PrepareNext, StageInv, Lists, Stages, Todo
  <2>. QED
    BY <1>0, <1>4, <2>1 DEF StageInv, PrepareNext
<1>5. ASSUME Prepared \/ PrepareAgain \/ PrepareFailed PROVE Marks'
  <2>1. cur \in Devices /\ (cur \in alive => status[cur] = "PREPARING")
    BY <1>5 DEF Prepared, PrepareAgain, PrepareFailed, StageInv, Lists, Stages, TodoBut,
                Callback
  <2>. QED
    BY <1>0, <1>5, <2>1 DEF StageInv, Prepared, PrepareAgain, PrepareFailed
<1>6. ASSUME Suspended PROVE Marks'
  <2>1. cur \in Devices /\ (cur \in alive => status[cur] = "SUSPENDING")
    BY <1>6 DEF Suspended, StageInv, Lists, Stages, Todo, Callback
  <2>. QED
    BY <1>0, <1>6, <2>1 DEF StageInv, Suspended
<1>7. ASSUME DevicePowerDown PROVE Marks'
  <2>1. PICK S : /\ status' = [d \in Devices |-> IF d \in S THEN "OFF_IRQ" ELSE status[d]]
                 /\ asleep' = [d \in Devices |-> IF d \in S THEN "noirq" ELSE asleep[d]]
                 /\ UNCHANGED <<prepared, alive>>
    BY <1>7 DEF DevicePowerDown
  <2>2. \A d \in alive : status[d] = "OFF"
    BY <1>0, <1>7 DEF DevicePowerDown, StageInv, Stages, Todo, NoWalk
  <2>. QED
    BY <1>0, <2>1, <2>2 DEF StageInv
<1>8. ASSUME DpmPowerUp PROVE Marks'
  <2>1. Range(dpm_list) = alive
    BY <1>0, <1>8 DEF DpmPowerUp, IrqsOff, NoWalk
  <2>. QED
    BY <1>0, <1>8, <2>1 DEF DpmPowerUp, StageInv
<1>9. ASSUME ResumeNext PROVE Marks'
  <2>. DEFINE d == Head(dpm_list)
  <2>1. d \in Devices /\ status[d] \in {"ON", "SUSPENDING", "OFF"} /\ d \in alive
    BY <1>0, <1>9, Ends DEF ResumeNext, StageInv, Lists, Stages, Todo
  <2>2. \/ /\ status[d] = "OFF"
           /\ SetStatus(d, "RESUMING") /\ asleep' = [asleep EXCEPT ![d] = "no"]
        \/ /\ status[d] # "OFF"
           /\ SetStatus(d, IF status[d] = "SUSPENDING" THEN "RESUMING" ELSE status[d])
           /\ asleep' = asleep
    BY <1>9, <2>1 DEF ResumeNext
  <2>3. UNCHANGED <<prepared, alive>>
    BY <1>9 DEF ResumeNext
  <2>. HIDE DEF d
  <2>. QED
    BY <1>0, <2>1, <2>2, <2>3 DEF StageInv
<1>10. ASSUME CompleteNext PROVE Marks'
  <2>. DEFINE d == Last(dpm_list)
  <2>1. d \in Devices /\ status[d] \in {"ON", "RESUMING"} /\ d \in alive
    BY <1>0, <1>10, Ends DEF CompleteNext, StageInv, Lists, Stages, Todo
  <2>2. \/ status[d] = "RESUMING" /\ SetStatus(d, "ON") /\ prepared' = prepared \ {d}
        \/ status[d] = "ON" /\ UNCHANGED <<status, prepared>>
    BY <1>10, <2>1 DEF CompleteNext
  <2>3. UNCHANGED <<asleep, alive>>
    BY <1>10 DEF CompleteNext
  <2>. HIDE DEF d
  <2>. QED
    BY <1>0, <2>1, <2>2, <2>3 DEF StageInv
<1>11. ASSUME DpmPrepare \/ PrepareEnd \/ DpmSuspend \/ SuspendNext \/ SuspendFailed
              \/ SuspendEnd \/ DpmResume \/ Resumed \/ ResumeEnd \/ DpmComplete
              \/ Completed \/ CompleteEnd \/ UNCHANGED dpmVars
       PROVE  Marks'
  BY <1>3, <1>11 DEF DpmPrepare, PrepareEnd, DpmSuspend, SuspendNext, SuspendFailed,
             SuspendEnd, DpmResume, Resumed, ResumeEnd, DpmComplete, Completed, CompleteEnd,
             dpmVars, devVars
<1>. QED
  BY <1>1, <1>2, <1>4, <1>5, <1>6, <1>7, <1>8, <1>9, <1>10, <1>11, Zenon
     DEF DPMNext, DPMStep, Hotplug

\* At boot there are no devices.
LEMMA StageInit == DPMInit => StageInv
<1>. SUFFICES ASSUME DPMInit PROVE StageInv
  OBVIOUS
<1>1. Started
  BY DEF DPMInit, Started, InTransition
<1>2. Data
  BY DEF DPMInit, Data, NoWalk, Statuses
<1>3. Range(dpm_list) = {} /\ Range(list) = {} /\ Lists
  BY EmptyList DEF DPMInit, Lists, Callback
<1>. QED
  BY <1>1, <1>2, <1>3 DEF DPMInit, StageInv, Stages, Todo, Marks

\* StageInv is inductive.
LEMMA StageNext == StageInv /\ [DPMNext]_dpmVars => StageInv'
BY StartedNext, DataNext, ListsNext, StagesNext, MarksNext DEF StageInv

LEMMA StageAlways == DPMSpec => []StageInv
BY StageInit, StageNext, PTL DEF DPMSpec

\* Both lists together hold each existing device once (main.c): nothing is lost
\* or entered again by a walk, whatever comes and goes in its callbacks.
THEOREM ListsAlwaysExact == DPMSpec => []ListsExact
<1>1. StageInv => ListsExact
  <2>. SUFFICES ASSUME StageInv PROVE ListsExact
    OBVIOUS
  <2>1. transition_started \in BOOLEAN
    BY Zenon DEF StageInv, Started
  <2>2. DPMTypeOK
    BY <2>1 DEF StageInv, Data, Lists, DPMTypeOK, NoWalk, Callback
  <2>3. Range(dpm_list \o list) = alive /\ Once(dpm_list \o list)
    BY Spliced DEF StageInv, Lists
  <2>. QED
    BY <2>2, <2>3 DEF ListsExact, Once
<1>. QED
  BY <1>1, StageAlways, PTL

\* complete() is owed to exactly the devices that were prepared, and a
\* transition leaves every device on, however it ended (main.c).
THEOREM DevicesAllBackOn == DPMSpec => []AllBackOn
<1>1. StageInv => AllBackOn
  <2>. SUFFICES ASSUME StageInv PROVE AllBackOn
    OBVIOUS
  <2>1. Registered = alive
    BY DEF Registered, StageInv, Lists
  <2>2. alive \subseteq Devices /\ asleep \in [Devices -> {"no", "suspend", "noirq"}]
    BY DEF StageInv, Data
  <2>3. pc = "idle" => \A d \in alive : status[d] = "ON"
    BY EmptyList DEF StageInv, Lists, Stages, Todo, NoWalk
  <2>. QED
    BY <2>1, <2>2, <2>3 DEF AllBackOn, StageInv, Marks, AtLeastSuspending
<1>. QED
  BY <1>1, StageAlways, PTL

----------------------------------------------------------------------------
(* The order of the lists. *)

\* A walk from the front takes a device whose parent it has dealt with.
LEMMA FrontMove ==
    ASSUME Lists, Ordered(dpm_list), Ordered(list), Before(list, dpm_list),
           NEW d \in Devices, d \notin Range(list), MoveTail(d),
           d \in Range(dpm_list) => dpm_list[1] = d
    PROVE  Ordered(dpm_list') /\ Ordered(list') /\ Before(list', dpm_list')
<1>1. /\ Ordered(dpm_list') /\ Range(dpm_list') = Range(dpm_list) \ {d}
      /\ Range(list') = Range(list) \cup (Range(dpm_list) \cap {d})
  BY Deleted, MoveEffect DEF MoveTail, Lists, Moved
<1>2. CASE d \notin Range(dpm_list)
  <2>1. list' = list
    BY <1>2 DEF MoveTail, Registered
  <2>. QED
    BY <1>1, <1>2, <2>1 DEF Before
<1>3. CASE d \in Range(dpm_list)
  <2>1. list' = Append(list, d)
    BY <1>3 DEF MoveTail, Registered
  <2>2. \A x \in Range(list) : Parent[x] # d
    BY <1>3 DEF Before
  <2>3. Parent[d] \notin Range(dpm_list)
    <3>1. SUFFICES ASSUME Parent[d] \in Range(dpm_list) PROVE FALSE
      OBVIOUS
    <3>2. dpm_list \in Seq(Devices)
      BY DEF Lists
    <3>3. PICK j \in 1 .. Len(dpm_list) : dpm_list[j] = Parent[d]
      BY <3>1, <3>2, RangeSeq
    <3>4. 1 \in 1 .. Len(dpm_list) /\ dpm_list[1] = d
      BY <1>3, <3>2, <3>3
    <3>5. j < 1
      BY <3>3, <3>4 DEF Ordered
    <3>. QED
      BY <3>2, <3>3, <3>5
  <2>4. Parent[d] # d
    BY <1>3, <2>3
  <2>5. Ordered(list')
    BY <2>1, <2>2, <2>4, Appended DEF Lists
  <2>. QED
    BY <1>1, <2>3, <2>5 DEF Before
<1>. QED
  BY <1>2, <1>3

\* A walk from the back takes a device whose children it has dealt with.
LEMMA BackMove ==
    ASSUME Lists, Ordered(dpm_list), Ordered(list), Before(dpm_list, list),
           NEW d \in Devices, d \notin Range(list), MoveHead(d),
           d \in Range(dpm_list) => dpm_list[Len(dpm_list)] = d
    PROVE  /\ Ordered(dpm_list') /\ Ordered(list') /\ Before(dpm_list', list')
           /\ d \in Range(dpm_list) => \A x \in Range(dpm_list) : Parent[x] # d
<1>1. /\ Ordered(dpm_list') /\ Range(dpm_list') = Range(dpm_list) \ {d}
      /\ Range(list') = Range(list) \cup (Range(dpm_list) \cap {d})
  BY Deleted, MoveEffect DEF MoveHead, Lists, Moved
<1>2. CASE d \notin Range(dpm_list)
  <2>1. list' = list
    BY <1>2 DEF MoveHead, Registered
  <2>. QED
    BY <1>1, <1>2, <2>1 DEF Before
<1>3. CASE d \in Range(dpm_list)
  <2>1. list' = <<d>> \o list
    BY <1>3 DEF MoveHead, Registered
  <2>2. \A x \in Range(dpm_list) : Parent[x] # d
    <3>1. SUFFICES ASSUME NEW x \in Range(dpm_list), Parent[x] = d PROVE FALSE
      OBVIOUS
    <3>2. dpm_list \in Seq(Devices)
      BY DEF Lists
    <3>3. PICK k \in 1 .. Len(dpm_list) : dpm_list[k] = x
      BY <3>2, RangeSeq
    <3>4. Len(dpm_list) \in 1 .. Len(dpm_list) /\ dpm_list[Len(dpm_list)] = d
      BY <1>3, <3>2, <3>3
    <3>5. Len(dpm_list) < k
      BY <3>1, <3>3, <3>4 DEF Ordered
    <3>. QED
      BY <3>2, <3>3, <3>5
  <2>3. Parent[d] \notin Range(list)
    BY <1>3 DEF Before
  <2>4. Parent[d] # d
    BY <1>3, <2>2
  <2>5. Ordered(list')
    BY <2>1, <2>3, <2>4, Prepended DEF Lists
  <2>6. Before(dpm_list', list')
    BY <1>1, <2>2 DEF Before
  <2>. QED
    BY <1>1, <2>2, <2>5, <2>6
<1>. QED
  BY <1>2, <1>3

\* Parents come before their children on the lists, in every stage.
LEMMA OrderNext ==
    ASSUME StageInv, Order, [DPMNext]_dpmVars, AddsWhileCompleting = FALSE
    PROVE  Order'
<1>0. /\ dpm_list \in Seq(Devices) /\ list \in Seq(Devices) /\ Lists
      /\ Range(dpm_list) \subseteq Devices /\ Range(list) \subseteq Devices
      /\ Range(dpm_list) \cup Range(list) = alive /\ alive \subseteq Devices
      /\ pc \in NoWalk => list = << >> /\ Range(list) = {}
      /\ pc \in Callback => cur \in Devices /\ cur \notin Range(list)
      /\ Range(<< >>) = {} /\ Ordered(<< >>)
      /\ Once(dpm_list) /\ Once(list)
  BY RangeSeq, EmptyList DEF StageInv, Lists, Data
<1>. USE DEF Backwards
<1>1. ASSUME NEW d \in Devices, DevicePmAdd(d) PROVE Order'
  <2>1. /\ d \notin alive /\ d # cur /\ list' = list /\ dpm_list' = Append(dpm_list, d)
        /\ Range(dpm_list') = Range(dpm_list) \cup {d}
        /\ alive' = alive \cup {d} /\ pc' = pc /\ cur' = cur
        /\ pc \in {"idle", "preparing", "device_resume", "resuming", "resumed",
                   "completing"}
    BY <1>1, AddEffect
  <2>2. pc # "completing"
    BY <1>1 DEF DevicePmAdd
  <2>3. Parent[d] \in alive \cup {NoParent} /\ Parent[d] # d
    BY <1>0, <1>1, <2>1, ParentAssumption DEF DevicePmAdd
  <2>4. \A x \in alive : Parent[x] # d
    BY <2>1, ParentAssumption DEF Order
  <2>5. Ordered(dpm_list') /\ (dpm_list # << >> => dpm_list'[1] = dpm_list[1])
        /\ dpm_list' # << >>
    BY <1>0, <2>1, <2>3, <2>4, Appended DEF Order
  <2>6. Before(list', dpm_list')
    BY <1>0, <2>1, <2>2, <2>4 DEF Order, Before
  <2>. QED
    BY <2>1, <2>2, <2>3, <2>5, <2>6 DEF Order
<1>2. ASSUME NEW d \in Devices, DevicePmRemove(d) PROVE Order'
  <2>1. /\ dpm_list' = ListDel(dpm_list, d) /\ list' = ListDel(list, d)
        /\ Range(dpm_list') = Range(dpm_list) \ {d}
        /\ Range(list') = Range(list) \ {d}
        /\ alive' = alive \ {d} /\ pc' = pc /\ cur' = cur
    BY <1>2, RemoveEffect
  <2>2. \A e \in alive : Parent[e] # d
    BY <1>2 DEF DevicePmRemove
  <2>3. Ordered(dpm_list') /\ Ordered(list')
    BY <1>0, <2>1, Deleted DEF Order
  <2>4. /\ dpm_list # << >> /\ dpm_list[1] # d =>
              dpm_list' # << >> /\ dpm_list'[1] = dpm_list[1]
        /\ dpm_list # << >> /\ dpm_list[Len(dpm_list)] # d =>
              dpm_list' # << >> /\ dpm_list'[Len(dpm_list')] = dpm_list[Len(dpm_list)]
    BY <1>0, <2>1, Deleted
  <2>5. IF pc' \in Backwards THEN Before(dpm_list', list') ELSE Before(list', dpm_list')
    BY <2>1 DEF Order, Before
  <2>. QED
    BY <2>1, <2>2, <2>3, <2>4, <2>5 DEF Order
<1>3. ASSUME UNCHANGED <<dpm_list, list, alive>>,
             list = << >> \/ (pc' \in Backwards <=> pc \in Backwards),
             pc' \in {"preparing", "resuming"} =>
                dpm_list # << >> /\ cur' = Head(dpm_list),
             pc' \in {"suspending", "completing"} =>
                dpm_list # << >> /\ cur' = Last(dpm_list)
      PROVE  Order'
  <2>1. /\ pc' \in {"preparing", "resuming"} => dpm_list'[1] = cur'
        /\ pc' \in {"suspending", "completing"} => dpm_list'[Len(dpm_list')] = cur'
    BY <1>0, <1>3, Ends
  <2>2. IF pc' \in Backwards THEN Before(dpm_list', list') ELSE Before(list', dpm_list')
    BY <1>0, <1>3 DEF Order, Before
  <2>. QED
    BY <1>3, <2>1, <2>2 DEF Order
<1>4. ASSUME DpmPrepare \/ DpmSuspend \/ DpmResume \/ DpmComplete \/ PrepareNext
             \/ SuspendNext \/ PrepareAgain \/ DevicePowerDown \/ DpmPowerUp
      PROVE  Order'
  <2>1. UNCHANGED <<dpm_list, list, alive>>
    BY <1>4 DEF DpmPrepare, DpmSuspend, DpmResume, DpmComplete, PrepareNext, SuspendNext,
                PrepareAgain, DevicePowerDown, DpmPowerUp, lists
  <2>2. list = << >> \/ (pc' \in Backwards <=> pc \in Backwards)
    BY <1>0, <1>4 DEF DpmPrepare, DpmSuspend, DpmResume, DpmComplete, PrepareNext,
                SuspendNext, PrepareAgain, DevicePowerDown, DpmPowerUp, NoWalk, IrqsOff
  <2>3. /\ pc' \in {"preparing", "resuming"} => dpm_list # << >> /\ cur' = Head(dpm_list)
        /\ pc' \in {"suspending", "completing"} => dpm_list # << >> /\ cur' = Last(dpm_list)
    BY <1>4 DEF DpmPrepare, DpmSuspend, DpmResume, DpmComplete, PrepareNext, SuspendNext,
                PrepareAgain, DevicePowerDown, DpmPowerUp
  <2>. QED
    BY <1>3, <2>1, <2>2, <2>3
<1>5. ASSUME NEW d \in Devices, d \notin Range(list), MoveTail(d), alive' = alive,
             d \in alive => dpm_list[1] = d,
             pc \notin Backwards, pc' \in {"prepare", "resume"}
      PROVE  Order'
  <2>1. d \in Range(dpm_list) => dpm_list[1] = d
    BY <1>0, <1>5
  <2>2. Ordered(dpm_list') /\ Ordered(list') /\ Before(list', dpm_list')
    BY <1>0, <1>5, <2>1, FrontMove DEF Order
  <2>. QED
    BY <1>5, <2>2 DEF Order
<1>6. ASSUME NEW d \in Devices, d \notin Range(list), MoveHead(d), alive' = alive,
             d \in alive => dpm_list[Len(dpm_list)] = d,
             pc \in Backwards, pc' \in {"suspend", "complete"}
      PROVE  Order'
  <2>1. d \in Range(dpm_list) => dpm_list[Len(dpm_list)] = d
    BY <1>0, <1>6
  <2>2. Ordered(dpm_list') /\ Ordered(list') /\ Before(dpm_list', list')
    BY <1>0, <1>6, <2>1, BackMove DEF Order
  <2>. QED
    BY <1>6, <2>2 DEF Order
<1>7. ASSUME Prepared \/ Resumed PROVE Order'
  <2>1. /\ cur \in Devices /\ cur \notin Range(list) /\ MoveTail(cur) /\ alive' = alive
        /\ cur \in alive => dpm_list[1] = cur
        /\ pc \notin Backwards /\ pc' \in {"prepare", "resume"}
    BY <1>0, <1>7 DEF Prepared, Resumed, Order, Callback
  <2>. QED
    BY <1>5, <2>1
<1>8. ASSUME Suspended \/ Completed PROVE Order'
  <2>1. /\ cur \in Devices /\ cur \notin Range(list) /\ MoveHead(cur) /\ alive' = alive
        /\ cur \in alive => dpm_list[Len(dpm_list)] = cur
        /\ pc \in Backwards /\ pc' \in {"suspend", "complete"}
    BY <1>0, <1>8 DEF Suspended, Completed, Order, Callback
  <2>. QED
    BY <1>6, <2>1
<1>9. ASSUME ResumeNext PROVE Order'
  <2>1. /\ pc = "resume" /\ alive' = alive /\ dpm_list # << >>
        /\ \/ UNCHANGED lists /\ cur' = Head(dpm_list) /\ pc' = "resuming"
           \/ MoveTail(Head(dpm_list)) /\ pc' = "resume"
    BY <1>9 DEF ResumeNext
  <2>2. Head(dpm_list) \in Devices /\ Head(dpm_list) \notin Range(list)
        /\ dpm_list[1] = Head(dpm_list)
    BY <1>0, <2>1, Ends DEF Lists
  <2>. QED
    BY <1>3, <1>5, <2>1, <2>2 DEF lists
<1>10. ASSUME CompleteNext PROVE Order'
  <2>1. /\ pc = "complete" /\ alive' = alive /\ dpm_list # << >>
        /\ \/ UNCHANGED lists /\ cur' = Last(dpm_list) /\ pc' = "completing"
           \/ MoveHead(Last(dpm_list)) /\ pc' = "complete"
    BY <1>10 DEF CompleteNext
  <2>2. Last(dpm_list) \in Devices /\ Last(dpm_list) \notin Range(list)
        /\ dpm_list[Len(dpm_list)] = Last(dpm_list)
    BY <1>0, <2>1, Ends DEF Lists
  <2>. QED
    BY <1>3, <1>6, <2>1, <2>2 DEF lists
<1>11. ASSUME Ordered(dpm_list'), list' = << >>, alive' = alive, pc' \in NoWalk
       PROVE  Order'
  BY <1>0, <1>11 DEF Order, Before, NoWalk
<1>12. ASSUME PrepareFailed \/ PrepareEnd \/ ResumeEnd \/ CompleteEnd PROVE Order'
  <2>1. /\ dpm_list' = list \o dpm_list /\ list' = << >> /\ alive' = alive /\ pc' \in NoWalk
        /\ pc \notin Backwards \/ dpm_list = << >>
    BY <1>12 DEF PrepareFailed, PrepareEnd, ResumeEnd, CompleteEnd, SpliceHead, NoWalk
  <2>2. Before(list, dpm_list)
    BY <1>0, <2>1 DEF Order, Before
  <2>3. Ordered(dpm_list')
    BY <1>0, <2>1, <2>2, Spliced DEF Order
  <2>. QED
    BY <1>11, <2>1, <2>3
<1>13. ASSUME SuspendFailed \/ SuspendEnd PROVE Order'
  <2>1. /\ dpm_list' = dpm_list \o list /\ list' = << >> /\ alive' = alive /\ pc' \in NoWalk
        /\ pc \in Backwards
    BY <1>13 DEF SuspendFailed, SuspendEnd, SpliceTail, NoWalk
  <2>2. Ordered(dpm_list')
    BY <1>0, <2>1, Spliced DEF Order
  <2>. QED
    BY <1>11, <2>1, <2>2
<1>14. ASSUME UNCHANGED dpmVars PROVE Order'
  BY <1>14 DEF dpmVars, lists, Order, Before
<1>. QED
  BY <1>1, <1>2, <1>4, <1>7, <1>8, <1>9, <1>10, <1>12, <1>13, <1>14, Zenon
     DEF DPMNext, DPMStep, Hotplug

\* No device sleeps deeper than one of its children.
LEMMA SleepOrderNext ==
    ASSUME StageInv, Order, SleepOrder, [DPMNext]_dpmVars
    PROVE  SleepOrder'
<1>0. /\ dpm_list \in Seq(Devices) /\ list \in Seq(Devices) /\ Lists
      /\ Range(dpm_list) \subseteq Devices /\ Range(list) \subseteq Devices
      /\ Range(dpm_list) \cup Range(list) = alive /\ alive \subseteq Devices
      /\ pc \in NoWalk => Range(list) = {}
      /\ pc \in Callback => cur \in Devices /\ cur \notin Range(list)
      /\ status \in [Devices -> Statuses]
  BY RangeSeq, EmptyList DEF StageInv, Lists, Data
<1>. USE DEF SleepOrder, SetStatus
<1>1. ASSUME NEW d \in Devices, DevicePmAdd(d) PROVE SleepOrder'
  <2>1. /\ d \notin alive /\ alive' = alive \cup {d} /\ status'[d] = "ON"
        /\ \A e \in Devices \ {d} : status'[e] = status[e]
    BY <1>1, AddEffect
  <2>2. Parent[d] \in alive => status[Parent[d]] \notin {"OFF", "OFF_IRQ"}
    BY <1>0, <1>1, ParentAssumption DEF DevicePmAdd, AtLeastSuspending
  <2>. QED
    BY <1>0, <2>1, <2>2
<1>2. ASSUME NEW d \in Devices, DevicePmRemove(d) PROVE SleepOrder'
  BY <1>2, RemoveEffect
<1>3. ASSUME alive' = alive, status' = status PROVE SleepOrder'
  BY <1>3
<1>4. ASSUME alive' = alive, \A e \in alive : status'[e] \notin {"OFF", "OFF_IRQ"}
      PROVE  SleepOrder'
  BY <1>4
<1>5. ASSUME PrepareNext PROVE SleepOrder'
  <2>1. Head(dpm_list) \in Devices
    BY <1>0, <1>5, Ends DEF PrepareNext
  <2>2. \A e \in alive : status[e] \notin {"OFF", "OFF_IRQ"}
    BY <1>0, <1>5 DEF PrepareNext, StageInv, Stages, Todo, Dealt
  <2>. QED
    BY <1>0, <1>4, <1>5, <2>1, <2>2 DEF PrepareNext
<1>6. ASSUME Prepared \/ PrepareAgain \/ PrepareFailed PROVE SleepOrder'
  <2>1. \A e \in alive : status[e] \notin {"OFF", "OFF_IRQ"}
    BY <1>0, <1>6 DEF Prepared, PrepareAgain, PrepareFailed, StageInv, Stages, TodoBut, Dealt
  <2>2. PICK s \in {"SUSPENDING", "ON"} : SetStatus(cur, s) /\ alive' = alive /\ cur \in Devices
    BY <1>0, <1>6 DEF Prepared, PrepareAgain, PrepareFailed, Callback
  <2>. QED
    BY <1>0, <1>4, <2>1, <2>2
<1>7. ASSUME Suspended PROVE SleepOrder'
  <2>1. /\ cur \in Devices /\ cur \notin Range(list) /\ MoveHead(cur) /\ alive' = alive
        /\ status' = [status EXCEPT ![cur] = "OFF"]
        /\ cur \in Range(dpm_list) => dpm_list[Len(dpm_list)] = cur
        /\ Before(dpm_list, list)
        /\ \A x \in Range(list) : status[x] = "OFF"
        /\ \A x \in Range(dpm_list) : status[x] = "SUSPENDING"
    BY <1>0, <1>7 DEF Suspended, Order, Callback, Backwards, StageInv, Stages, Todo, Dealt
  <2>2. cur \in Range(dpm_list) => \A x \in Range(dpm_list) : Parent[x] # cur
    BY <1>0, <2>1, BackMove DEF Order
  <2>3. \A x \in alive : status'[x] \in {"SUSPENDING", "OFF"}
    BY <1>0, <2>1
  <2>4. ASSUME NEW d \in alive, NEW e \in alive, e = Parent[d], status'[e] = "OFF"
        PROVE  status'[d] = "OFF"
    <3>1. CASE e = cur
      BY <1>0, <2>1, <2>2, <2>4, <3>1
    <3>2. CASE e # cur
      BY <1>0, <2>1, <2>4, <3>2 DEF Before
    <3>. QED
      BY <3>1, <3>2
  <2>. QED
    BY <2>1, <2>3, <2>4
<1>8. ASSUME DevicePowerDown PROVE SleepOrder'
  <2>1. PICK n \in 0 .. Len(dpm_list) :
           status' = [d \in Devices |->
              IF d \in {dpm_list[i] : i \in Len(dpm_list) - n + 1 .. Len(dpm_list)}
              THEN "OFF_IRQ" ELSE status[d]]
    BY <1>8 DEF DevicePowerDown
  <2>2. Range(dpm_list) = alive /\ alive' = alive /\ \A d \in alive : status[d] = "OFF"
    BY <1>0, <1>8 DEF DevicePowerDown, StageInv, Stages, Todo, NoWalk
  <2>3. \A d \in alive : status'[d] \in {"OFF", "OFF_IRQ"}
    BY <1>0, <2>1, <2>2
  <2>4. ASSUME NEW d \in alive, NEW e \in alive, e = Parent[d], status'[e] = "OFF_IRQ"
        PROVE  status'[d] = "OFF_IRQ"
    <3>1. PICK j \in Len(dpm_list) - n + 1 .. Len(dpm_list) : dpm_list[j] = e
      BY <1>0, <2>1, <2>2, <2>4
    <3>2. PICK k \in 1 .. Len(dpm_list) : dpm_list[k] = d
      BY <1>0, <2>2, RangeSeq
    <3>3. Len(dpm_list) \in Nat /\ n \in Nat /\ j \in 1 .. Len(dpm_list)
      BY <1>0, <2>1, <3>1
    <3>4. j < k
      BY <2>4, <3>1, <3>2, <3>3 DEF Order, Ordered
    <3>5. k \in Len(dpm_list) - n + 1 .. Len(dpm_list)
      BY <3>1, <3>2, <3>3, <3>4
    <3>6. d \in {dpm_list[i] : i \in Len(dpm_list) - n + 1 .. Len(dpm_list)}
      BY <3>2, <3>5
    <3>. QED
      BY <1>0, <2>1, <3>6
  <2>. QED
    BY <2>2, <2>3, <2>4
<1>9. ASSUME DpmPowerUp PROVE SleepOrder'
  <2>1. Range(dpm_list) = alive /\ alive' = alive
    BY <1>0, <1>9 DEF DpmPowerUp, IrqsOff, NoWalk
  <2>2. \A d \in alive : status[d] \in {"OFF", "OFF_IRQ"}
    BY <1>9, <2>1 DEF DpmPowerUp, IrqsOff, StageInv, Stages, Todo
  <2>3. \A d \in alive : status'[d] = "OFF"
    BY <1>0, <1>9, <2>1, <2>2 DEF DpmPowerUp
  <2>. QED
    BY <2>1, <2>3
<1>10. ASSUME ResumeNext PROVE SleepOrder'
  <2>. DEFINE d == Head(dpm_list)
  <2>1. /\ d \in Devices /\ d \in Range(dpm_list) /\ d = dpm_list[1] /\ 1 \in 1 .. Len(dpm_list)
        /\ Before(list, dpm_list)
        /\ \A x \in Range(list) : status[x] \in {"ON", "RESUMING"}
        /\ \A x \in Range(dpm_list) : status[x] \in {"ON", "SUSPENDING", "OFF"}
        /\ alive' = alive
    BY <1>0, <1>10, Ends DEF ResumeNext, Order, Backwards, StageInv, Stages, Todo, Dealt
  <2>2. PICK s \in {"ON", "RESUMING"} : status' = [status EXCEPT ![d] = s]
    BY <1>10, <2>1 DEF ResumeNext
  <2>. HIDE DEF d
  <2>3. Parent[d] \notin Range(dpm_list)
    <3>1. SUFFICES ASSUME NEW j \in 1 .. Len(dpm_list), dpm_list[j] = Parent[d] PROVE FALSE
      BY <1>0, RangeSeq
    <3>2. j < 1
      BY <2>1, <3>1 DEF Order, Ordered
    <3>. QED
      BY <1>0, <3>1, <3>2
  <2>. QED
    BY <1>0, <2>1, <2>2, <2>3
<1>11. ASSUME CompleteNext PROVE SleepOrder'
  <2>1. \A e \in alive : status[e] \notin {"OFF", "OFF_IRQ"}
    BY <1>0, <1>11 DEF CompleteNext, StageInv, Stages, Todo, Dealt
  <2>2. alive' = alive /\ Last(dpm_list) \in Devices
        /\ (status' = status \/ status' = [status EXCEPT ![Last(dpm_list)] = "ON"])
    BY <1>0, <1>11, Ends DEF CompleteNext
  <2>. QED
    BY <1>0, <1>4, <2>1, <2>2
<1>12. ASSUME DpmPrepare \/ PrepareEnd \/ DpmSuspend \/ SuspendNext \/ SuspendFailed
              \/ SuspendEnd \/ DpmResume \/ Resumed \/ ResumeEnd \/ DpmComplete
              \/ Completed \/ CompleteEnd \/ UNCHANGED dpmVars
       PROVE  SleepOrder'
  BY <1>3, <1>12 DEF DpmPrepare, PrepareEnd, DpmSuspend, SuspendNext, SuspendFailed,
             SuspendEnd, DpmResume, Resumed, ResumeEnd, DpmComplete, Completed, CompleteEnd,
             dpmVars, devVars
<1>. QED
  BY <1>1, <1>2, <1>5, <1>6, <1>7, <1>8, <1>9, <1>10, <1>11, <1>12, Zenon
     DEF DPMNext, DPMStep, Hotplug

\* At boot there is nothing to order.
LEMMA OrderInit == DPMInit => Order /\ SleepOrder
<1>. SUFFICES ASSUME DPMInit PROVE Order /\ SleepOrder
  OBVIOUS
<1>1. Range(dpm_list) = {} /\ Range(list) = {} /\ Ordered(dpm_list) /\ Ordered(list)
      /\ alive = {} /\ pc = "idle"
  BY EmptyList DEF DPMInit
<1>. QED
  BY <1>1 DEF Order, SleepOrder, Before, Backwards

\* With nothing added under dpm_complete, the lists stay ordered.
LEMMA OrderAlways ==
    ASSUME AddsWhileCompleting = FALSE
    PROVE  DPMSpec => [](StageInv /\ Order /\ SleepOrder)
<1>. DEFINE Inv == StageInv /\ Order /\ SleepOrder
<1>1. DPMInit => Inv
  BY StageInit, OrderInit
<1>2. Inv /\ [DPMNext]_dpmVars => Inv'
  BY StageNext, OrderNext, SleepOrderNext
<1>. QED
  BY <1>1, <1>2, PTL DEF DPMSpec

\* dpm_list is in depth first order at every moment, as the comment on it says,
\* if no device is added while dpm_complete runs (main.c).
THEOREM ListAlwaysDepthFirst == AddsWhileCompleting = FALSE => (DPMSpec => []DepthFirst)
<1>. SUFFICES ASSUME AddsWhileCompleting = FALSE PROVE DPMSpec => []DepthFirst
  OBVIOUS
<1>1. StageInv /\ Order => DepthFirst
  <2>. SUFFICES ASSUME StageInv, Order PROVE DepthFirst
    OBVIOUS
  <2>1. dpm_list \in Seq(Devices) /\ list \in Seq(Devices)
    BY DEF StageInv, Lists
  <2>2. Ordered(WholeList)
    <3>1. CASE pc \in Backwards
      <4>1. WholeList = dpm_list \o list /\ Before(dpm_list, list)
        BY <3>1 DEF WholeList, Backwards, Order
      <4>. QED
        BY <2>1, <4>1, Spliced DEF Order
    <3>2. CASE pc \notin Backwards
      <4>1. WholeList = list \o dpm_list /\ Before(list, dpm_list)
        BY <3>2 DEF WholeList, Backwards, Order
      <4>. QED
        BY <2>1, <4>1, Spliced DEF Order
    <3>. QED
      BY <3>1, <3>2
  <2>. QED
    BY <2>2 DEF DepthFirst, Ordered
<1>. QED
  BY <1>1, OrderAlways, PTL

\* A device sleeps only while all of its children do, at least as deep, through
\* failed walks and hotplug, if none is added while dpm_complete runs (main.c).
THEOREM ChildrenAlwaysSleepFirst ==
    AddsWhileCompleting = FALSE => (DPMSpec => []ChildrenSleepFirst)
<1>. SUFFICES ASSUME AddsWhileCompleting = FALSE PROVE DPMSpec => []ChildrenSleepFirst
  OBVIOUS
<1>1. StageInv /\ SleepOrder => ChildrenSleepFirst
  <2>. SUFFICES ASSUME StageInv, SleepOrder, NEW d \in Registered, Parent[d] \in Registered
                PROVE  Depth[asleep[Parent[d]]] <= Depth[asleep[d]]
    BY DEF ChildrenSleepFirst
  <2>1. d \in alive /\ Parent[d] \in alive /\ alive \subseteq Devices
    BY DEF Registered, StageInv, Lists, Data
  <2>2. /\ Depth["no"] = 0 /\ Depth["suspend"] = 1 /\ Depth["noirq"] = 2
    BY DEF Depth
  <2>3. asleep[d] \in {"no", "suspend", "noirq"} /\ asleep[Parent[d]] \in {"no", "suspend", "noirq"}
    BY <2>1 DEF StageInv, Data
  <2>4. /\ asleep[Parent[d]] = "suspend" => asleep[d] \in {"suspend", "noirq"}
        /\ asleep[Parent[d]] = "noirq" => asleep[d] = "noirq"
    BY <2>1 DEF StageInv, Marks, SleepOrder
  <2>. QED
    BY <2>2, <2>3, <2>4
<1>. QED
  BY <1>1, OrderAlways, PTL
=============================================================================
