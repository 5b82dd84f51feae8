------------------------------- MODULE Ashmem -------------------------------
(***************************************************************************)
(* Anonymous shared memory, mm/ashmem.c.  A process unpins pages of an     *)
(* area that it can do without; under memory pressure the shrinker purges  *)
(* them, the least recently unpinned range first; pinning them again tells *)
(* whether their content was lost.                                         *)
(*                                                                         *)
(* Sizes and offsets are in pages.  Names and protection masks are left    *)
(* out.  An operation that holds ashmem_mutex over a point where it may    *)
(* sleep is kept in `holder`; the others are one step.                     *)
(***************************************************************************)
EXTENDS Integers, Sequences, FiniteSets, SequencesExt

ListHead == "head"  \* asma->unpinned_list itself, where a range would be

CONSTANTS Areas,       \* struct ashmem_area, one per open file
          Ranges,      \* the objects of ashmem_range_cachep
          Sizes,       \* sizes that are set, by area
          Offsets,     \* values of pin.offset
          Lengths,     \* values of pin.len
          Scans,       \* values of nr_to_scan
          MaxPage      \* the last page there can be, (size_t) -1

ASSUME AshmemAssumption ==
    /\ MaxPage \in Nat
    /\ Sizes \in [Areas -> SUBSET (0 .. MaxPage)]
    /\ Offsets \subseteq Nat /\ Lengths \subseteq Nat
    /\ Scans \subseteq Nat \ {0}
    /\ ListHead \notin Ranges

VARIABLES open,           \* the areas whose file is open
          size, file,     \* asma->size; the size asma->file was set up with, 0 for NULL
          range,          \* the contents of each struct ashmem_range
          unpinned_list,  \* the ranges of an area, the last pages first
          lru, lru_count,
          holder,         \* what is done with ashmem_mutex held
          unpinned,       \* history: the pages unpinned and not pinned since
          gone,           \* history: those of them whose content was purged
          forgotten       \* history: those whose range an -ENOMEM left out

areaVars == <<open, size, file>>
listVars == <<range, unpinned_list, lru, lru_count>>
historyVars == <<unpinned, gone, forgotten>>
ashmemVars == <<areaVars, listVars, holder, historyVars>>

Free == [on |-> "slab"]
Nobody == [op |-> "none"]

----------------------------------------------------------------------------
(* Ranges and requests. *)

Interval(s, e) == [pgstart |-> s, pgend |-> e]
PagesOf(r) == r.pgstart .. r.pgend

\* In size_t there are no pages from the first to the last.
AllPages(r) == r.pgstart = 0 /\ r.pgend = MaxPage
PagesCounted(r) == IF AllPages(r) THEN {} ELSE PagesOf(r)
range_size(r) == IF AllPages(r) THEN 0 ELSE r.pgend - r.pgstart + 1

range_on_lru(r) == ~ r.purged
page_in_range(r, page) == r.pgstart <= page /\ r.pgend >= page
page_range_subsumes_range(r, q) == r.pgstart >= q.pgstart /\ r.pgend <= q.pgend
page_range_subsumed_by_range(r, q) == r.pgstart <= q.pgstart /\ r.pgend >= q.pgend
OverlapsAtEnds(r, q) == page_in_range(r, q.pgstart) \/ page_in_range(r, q.pgend)
page_range_in_range(r, q) == \/ page_in_range(r, q.pgstart)
                             \/ page_in_range(r, q.pgend)
                             \/ page_range_subsumes_range(r, q)
range_before_page(r, page) == r.pgend < page

\* The ranges that a walk over the list visits before it breaks off.
Visited(a, q) ==
    {unpinned_list[a][i] : i \in
        {i \in 1 .. Len(unpinned_list[a]) :
            \A j \in 1 .. i : ~ range_before_page(range[unpinned_list[a][j]], q.pgstart)}}
Hit(a, q) == {x \in Visited(a, q) : page_range_in_range(range[x], q)}

\* The checks of ashmem_pin_unpin: the requests it lets through.  A length of
\* zero is everything onward: nothing if the offset is the end, but in an area
\* of size 0, where pgend is 0 - 1, all the pages there can be.
Length(a, o, n) == IF n = 0 THEN size[a] - o ELSE n
PageBefore(n) == IF n = 0 THEN MaxPage ELSE n - 1
Requests(a) ==
    {Interval(p[1], PageBefore(p[1] + Length(a, p[1], p[2]))) :
        p \in {p \in Offsets \X Lengths :
                 /\ Length(a, p[1], p[2]) >= 0
                 /\ p[1] + Length(a, p[1], p[2]) <= size[a]}}

----------------------------------------------------------------------------
(* Changes to the lists. *)

\* list_del of each member of s: what is left of a list, by position.
Without(list, s) ==
    LET kept == {i \in 1 .. Len(list) : list[i] \notin s}
        nth(n) == CHOOSE i \in kept : Cardinality({k \in kept : k <= i}) = n
    IN  [n \in 1 .. Cardinality(kept) |-> list[nth(n)]]

\* The pages of a set of ranges that count in lru_count, with the bounds given;
\* how many they are is the sum of range_size.
OnLru(s, bounds) == UNION {{x} \X PagesCounted(bounds[x]) : x \in {y \in s : range_on_lru(range[y])}}
PagesOnLru(s) == Cardinality(OnLru(s, range))

\* range_shrink of each range in the domain of `to`, and what it takes off
\* lru_count.
range_shrink(to) == [x \in Ranges |-> IF x \in DOMAIN to
                                      THEN [range[x] EXCEPT !.pgstart = to[x].pgstart,
                                                            !.pgend = to[x].pgend]
                                      ELSE range[x]]
ShrunkBy(to) == PagesOnLru(DOMAIN to) - Cardinality(OnLru(DOMAIN to, to))

\* range_del of the set s and range_shrink of others, all of the area a.
DeleteAndShrink(a, s, to) ==
    /\ range' = [x \in Ranges |-> IF x \in s THEN Free ELSE range_shrink(to)[x]]
    /\ unpinned_list' = [unpinned_list EXCEPT ![a] = Without(@, s)]
    /\ lru' = Without(lru, s)
    /\ lru_count' = lru_count - PagesOnLru(s) - ShrunkBy(to)

----------------------------------------------------------------------------
(* The life of an area. *)

ashmem_open(a) ==
    /\ a \notin open
    /\ open' = open \cup {a}
    /\ UNCHANGED <<size, file, listVars, holder, historyVars>>

ashmem_release(a) ==
    /\ a \in open
    /\ holder = Nobody
    /\ open' = open \ {a}
    /\ size' = [size EXCEPT ![a] = 0]
    /\ file' = [file EXCEPT ![a] = 0]
    /\ DeleteAndShrink(a, ToSet(unpinned_list[a]), << >>)
    /\ unpinned' = [unpinned EXCEPT ![a] = {}]
    /\ gone' = [gone EXCEPT ![a] = {}]
    /\ forgotten' = [forgotten EXCEPT ![a] = {}]
    /\ UNCHANGED holder

\* ASHMEM_SET_SIZE does not take the mutex, and takes any size, 0 too.
SetSize(a, n) ==
    /\ a \in open
    /\ file[a] = 0
    /\ size' = [size EXCEPT ![a] = n]
    /\ UNCHANGED <<open, file, listVars, holder, historyVars>>

\* ashmem_mmap of an area without a file; shmem_file_setup may sleep.  With a
\* file, or with no size yet, nothing changes.
MmapStart(a) ==
    /\ a \in open
    /\ holder = Nobody
    /\ size[a] # 0
    /\ file[a] = 0
    /\ holder' = [op |-> "mmap", area |-> a, size |-> size[a]]
    /\ UNCHANGED <<areaVars, listVars, historyVars>>

MmapEnd(a, ok) ==
    /\ holder.op = "mmap" /\ holder.area = a
    /\ file' = [file EXCEPT ![a] = IF ok THEN holder.size ELSE 0]
    /\ holder' = Nobody
    /\ UNCHANGED <<open, size, listVars, historyVars>>

----------------------------------------------------------------------------
(* range_alloc, which may sleep, and may fail. *)

\* list_add_tail: before prev_range, or at the end if that is the list's head.
InsertBefore(seq, x, prev_range) ==
    IF prev_range = ListHead THEN Append(seq, x)
    ELSE InsertAt(seq, CHOOSE i \in 1 .. Len(seq) : seq[i] = prev_range, x)

\* The call of ashmem_unpin, and that of the fourth case of ashmem_pin with
\* the range_shrink that follows it whether it fails or not.
AllocSucceeds(x) ==
    LET a == holder.area
        new == [asma |-> a, pgstart |-> holder.q.pgstart, pgend |-> holder.q.pgend,
                purged |-> holder.purged]
    IN  /\ holder.op \in {"pin", "unpin"}
        /\ range[x] = Free
        /\ range' = [range_shrink(holder.to) EXCEPT ![x] = new]
        /\ unpinned_list' = [unpinned_list EXCEPT
                                ![a] = InsertBefore(@, x, holder.prev_range)]
        /\ lru' = IF range_on_lru(new) THEN Append(lru, x) ELSE lru
        /\ lru_count' = lru_count - ShrunkBy(holder.to)
                        + IF range_on_lru(new) THEN range_size(new) ELSE 0
        /\ holder' = Nobody
        /\ UNCHANGED <<areaVars, historyVars>>

\* -ENOMEM, with the slab empty or not: ashmem_unpin returns it, ashmem_pin
\* takes no notice.
AllocFails ==
    /\ holder.op \in {"pin", "unpin"}
    /\ range' = range_shrink(holder.to)
    /\ lru_count' = lru_count - ShrunkBy(holder.to)
    /\ forgotten' = [forgotten EXCEPT ![holder.area] = @ \cup PagesOf(holder.q)]
    /\ holder' = Nobody
    /\ UNCHANGED <<areaVars, unpinned_list, lru, unpinned, gone>>

\* GFP_KERNEL: the allocation may itself reclaim memory, and then calls
\* ashmem_shrink, which waits for the mutex that this task holds.
DirectReclaim ==
    /\ holder.op \in {"mmap", "pin", "unpin"}
    /\ lru_count > 0
    /\ holder' = [op |-> "stuck"]
    /\ UNCHANGED <<areaVars, listVars, historyVars>>

----------------------------------------------------------------------------
(* ASHMEM_PIN. *)

\* The value of ashmem_pin: was any of it purged.
PinStatus(a, q) == \E x \in Hit(a, q) : range[x].purged

\* The four cases: the ranges that go, those cut at an end, the one cut in two.
Deleted(a, q) == {x \in Hit(a, q) : page_range_subsumes_range(range[x], q)}
Split(a, q) == {x \in Hit(a, q) : range[x].pgstart < q.pgstart /\ range[x].pgend > q.pgend}
RemainderWithPage(r, q) == IF r.pgstart >= q.pgstart THEN Interval(q.pgend, r.pgend)
                           ELSE Interval(r.pgstart, q.pgstart - 1)
Remainder(r, q) == IF r.pgstart >= q.pgstart THEN Interval(q.pgend + 1, r.pgend)
                   ELSE Interval(r.pgstart, q.pgstart - 1)

ashmem_pin(a, q) ==
    LET del == Deleted(a, q)
        to == [x \in Hit(a, q) \ (del \cup Split(a, q)) |-> Remainder(range[x], q)]
    IN  /\ file[a] # 0
        /\ holder = Nobody
        /\ q \in Requests(a)
        /\ DeleteAndShrink(a, del, to)
        /\ IF Split(a, q) = {} THEN holder' = Nobody
           ELSE LET x == CHOOSE x \in Split(a, q) : TRUE
                IN  holder' = [op |-> "pin", area |-> a,
                               q |-> Interval(q.pgend + 1, range[x].pgend),
                               purged |-> range[x].purged, prev_range |-> x,
                               to |-> [y \in {x} |-> Remainder(range[x], q)]]
        /\ unpinned' = [unpinned EXCEPT ![a] = @ \ PagesOf(q)]
        /\ gone' = [gone EXCEPT ![a] = @ \ PagesOf(q)]
        /\ forgotten' = [forgotten EXCEPT ![a] = @ \ PagesOf(q)]
        /\ UNCHANGED <<areaVars>>

----------------------------------------------------------------------------
(* ASHMEM_UNPIN: a pass over the list for each range to merge. *)

UnpinStart(a, q) ==
    /\ file[a] # 0
    /\ holder = Nobody
    /\ q \in Requests(a)
    /\ holder' = [op |-> "walk", area |-> a, q |-> q, purged |-> FALSE]
    /\ unpinned' = [unpinned EXCEPT ![a] = @ \cup PagesOf(q)]
    /\ UNCHANGED <<areaVars, listVars, gone, forgotten>>

\* The first range in the list that the walk does more than pass over.
FirstHit(a, q) == LET list == unpinned_list[a]
                  IN  list[Min({i \in 1 .. Len(list) : list[i] \in Hit(a, q)})]

UnpinMergeAsNew ==
    LET a == holder.area
        x == FirstHit(a, holder.q)
        r == range[x]
        q == holder.q
    IN  /\ holder.op = "walk"
        /\ Hit(a, q) # {}
        /\ ~ page_range_subsumed_by_range(r, q)
        /\ holder' = [holder EXCEPT
                         !.q = Interval(Min({r.pgstart, q.pgstart}), Max({r.pgend, q.pgend}))]
        /\ DeleteAndShrink(a, {x}, << >>)
        /\ UNCHANGED <<areaVars, historyVars>>
UnpinMerge ==
    LET a == holder.area
        x == FirstHit(a, holder.q)
        r == range[x]
        q == holder.q
    IN  /\ holder.op = "walk"
        /\ Hit(a, q) # {}
        /\ ~ page_range_subsumed_by_range(r, q)
        /\ holder' = [holder EXCEPT
                         !.q = Interval(Min({r.pgstart, q.pgstart}), Max({r.pgend, q.pgend})),
                         !.purged = @ \/ r.purged]
        /\ DeleteAndShrink(a, {x}, << >>)
        /\ UNCHANGED <<areaVars, historyVars>>

\* It is all unpinned already.
UnpinSubsumed ==
    /\ holder.op = "walk"
    /\ Hit(holder.area, holder.q) # {}
    /\ page_range_subsumed_by_range(range[FirstHit(holder.area, holder.q)], holder.q)
    /\ holder' = Nobody
    /\ UNCHANGED <<areaVars, listVars, historyVars>>

\* At the insertion point, the first range before these pages.
UnpinAlloc ==
    LET a == holder.area
        rest == Without(unpinned_list[a], Visited(a, holder.q))
    IN  /\ holder.op = "walk"
        /\ Hit(a, holder.q) = {}
        /\ holder' = [op |-> "unpin", area |-> a, q |-> holder.q, purged |-> holder.purged,
                      prev_range |-> IF rest = << >> THEN ListHead ELSE Head(rest),
                      to |-> << >>]
        /\ UNCHANGED <<areaVars, listVars, historyVars>>

\* ASHMEM_GET_PIN_STATUS: are any of the pages unpinned.
ashmem_get_pin_status(a, q) == Hit(a, q) # {}

----------------------------------------------------------------------------
(* The shrinker. *)

\* The ranges purged for nr_to_scan pages: until as many are freed.
Victims(n) == {lru[i] : i \in {i \in 1 .. Len(lru) :
                                   PagesOnLru({lru[j] : j \in 1 .. i - 1}) < n}}

\* Called by a task that reclaims memory, in shrink_slab, and for
\* ASHMEM_PURGE_ALL_CACHES, with a count that was read without the mutex and so
\* may be anything by now.
ashmem_shrink(n) ==
    LET victims == Victims(n)
    IN  /\ holder = Nobody
        /\ range' = [x \in Ranges |-> IF x \in victims THEN [range[x] EXCEPT !.purged = TRUE]
                                      ELSE range[x]]
        /\ lru' = Without(lru, victims)
        /\ lru_count' = lru_count - PagesOnLru(victims)
        /\ gone' = [a \in Areas |->
                       gone[a] \cup UNION {PagesOf(range[x]) :
                                              x \in {y \in victims : range[y].asma = a}}]
        /\ UNCHANGED <<areaVars, unpinned_list, holder, unpinned, forgotten>>

----------------------------------------------------------------------------
AshmemInit ==
    /\ open = {}
    /\ size = [a \in Areas |-> 0]
    /\ file = [a \in Areas |-> 0]
    /\ range = [x \in Ranges |-> Free]
    /\ unpinned_list = [a \in Areas |-> << >>]
    /\ lru = << >>
    /\ lru_count = 0
    /\ holder = Nobody
    /\ unpinned = [a \in Areas |-> {}]
    /\ gone = [a \in Areas |-> {}]
    /\ forgotten = [a \in Areas |-> {}]

AllocStep == (\E x \in Ranges : AllocSucceeds(x)) \/ AllocFails \/ DirectReclaim

UserStep == \E a \in Areas : \/ ashmem_open(a) \/ ashmem_release(a)
                             \/ \E n \in Sizes[a] : SetSize(a, n)
                             \/ MmapStart(a)
                             \/ \E ok \in BOOLEAN : MmapEnd(a, ok)
                             \/ \E q \in Requests(a) : ashmem_pin(a, q) \/ UnpinStart(a, q)

AshmemNext == \/ UserStep
              \/ UnpinMerge \/ UnpinSubsumed \/ UnpinAlloc \/ AllocStep
              \/ \E n \in Scans : ashmem_shrink(n)

AshmemSpec == AshmemInit /\ [][AshmemNext]_ashmemVars

----------------------------------------------------------------------------
(* Properties. *)

AshmemTypeOK ==
    /\ open \subseteq Areas
    /\ \A a \in Areas : {size[a], file[a]} \subseteq Sizes[a] \cup {0}
    /\ range \in [Ranges -> [asma : Areas, pgstart : Nat, pgend : Int, purged : BOOLEAN]
                            \cup {Free}]
    /\ unpinned_list \in [Areas -> Seq(Ranges)]
    /\ lru \in Seq(Ranges)
    /\ lru_count \in Nat
    /\ holder.op \in {"none", "mmap", "pin", "walk", "unpin", "stuck"}
    /\ \A a \in Areas : gone[a] \subseteq unpinned[a] /\ forgotten[a] \subseteq unpinned[a]

\* The lists agree with each other at every step: a range in use is in the list
\* of its area, which has a backing file, and nowhere else; the list is in
\* order and its ranges do not overlap; those not purged are on the LRU list,
\* once; and lru_count is the number of their pages.
ListsAgree ==
    /\ AshmemTypeOK
    /\ \A a \in Areas :
          LET list == unpinned_list[a]
          IN  /\ ToSet(list) = {x \in Ranges : range[x] # Free /\ range[x].asma = a}
              /\ IsInjective(list)
              /\ \A i \in 2 .. Len(list) : range_before_page(range[list[i]],
                                                              range[list[i-1]].pgstart)
              /\ list # << >> => a \in open /\ file[a] # 0
    /\ ToSet(lru) = {x \in Ranges : range[x] # Free /\ range_on_lru(range[x])}
    /\ IsInjective(lru)
    /\ lru_count = PagesOnLru(ToSet(lru))

\* The pages of an area that are up for purging, and those of its ranges that
\* are marked purged, which the shrinker does not see.
Purgeable(a) == UNION {PagesOf(range[x]) : x \in {y \in ToSet(lru) : range[y].asma = a}}
MarkedPurged(a) == UNION {PagesOf(range[x]) : x \in {y \in ToSet(unpinned_list[a]) : range[y].purged}}
Listed(a) == Purgeable(a) \cup MarkedPurged(a)

\* The ranges of an area stand for the pages that were unpinned and not pinned
\* since.  No pinned page is ever up for purging.  An unpinned one is, with two
\* exceptions: an allocation failure left it out, or its range is marked purged
\* (ashmem_unpin joined it to a purged range, say), which keeps it from the
\* shrinker until it is pinned.  And ASHMEM_GET_PIN_STATUS, whose walk breaks
\* off early, misses none of them.
UnpinnedExact ==
    holder.op \in {"none", "mmap"} =>
        \A a \in Areas :
            /\ Listed(a) \subseteq unpinned[a]
            /\ unpinned[a] \subseteq Purgeable(a) \cup MarkedPurged(a) \cup forgotten[a]
            /\ \A q \in Requests(a) :
                  Listed(a) \cap PagesOf(q) # {} => ashmem_get_pin_status(a, q)

\* Whoever pins a page whose content was purged is told, whatever merging and
\* splitting its range went through, unless a failed allocation lost the range.
PurgeReported ==
    holder.op \in {"none", "mmap"} =>
        \A a \in Areas : file[a] # 0 =>
            \A q \in Requests(a) :
                (gone[a] \cap PagesOf(q)) \ forgotten[a] # {} => PinStatus(a, q)
=============================================================================
