---------------------------- MODULE LoggerProofs ----------------------------
(***************************************************************************)
(* Proofs about Logger for any writers, readers, entries and size.         *)
(***************************************************************************)
EXTENDS Logger, NaturalsInduction, WellFoundedInduction, SequenceTheorems, TLAPS

----------------------------------------------------------------------------
(* Offsets. *)

\* Offsets are in the buffer.
LEMMA OffsetTypes ==
    ASSUME NEW n \in Int
    PROVE  logger_offset(n) \in 0 .. Size - 1
BY LoggerAssumption DEF logger_offset

\* A number is its own offset if it is in the buffer, and so is one that differs
\* from it by whole turns.
LEMMA OffsetUnique ==
    ASSUME NEW n \in Int, NEW q \in Int, NEW o \in 0 .. Size - 1, n = Size * q + o
    PROVE  logger_offset(n) = o
<1>1. Size \in Nat \ {0}
  BY LoggerAssumption
<1>2. PICK p \in Int : n = Size * p + logger_offset(n)
  <2>1. n = Size * (n \div Size) + (n % Size) /\ n \div Size \in Int
    BY <1>1
  <2>. QED
    BY <2>1 DEF logger_offset
<1>3. logger_offset(n) \in 0 .. Size - 1
  BY OffsetTypes
<1>. HIDE DEF logger_offset
<1>4. Size * (p - q) = o - logger_offset(n)
  BY <1>1, <1>2, <1>3
<1>5. p - q = 0
  <2>1. ASSUME p - q >= 1 PROVE FALSE
    <3>1. Size * (p - q) >= Size
      BY <1>1, <2>1
    <3>. QED
      BY <1>1, <1>3, <1>4, <3>1
  <2>2. ASSUME p - q <= -1 PROVE FALSE
    <3>1. Size * (p - q) <= -Size
      BY <1>1, <2>2
    <3>. QED
      BY <1>1, <1>3, <1>4, <3>1
  <2>. QED
    BY <1>2, <2>1, <2>2
<1>. QED
  BY <1>1, <1>3, <1>4, <1>5

\* Writing n bytes moves both w_off and the count: the start stays.
LEMMA StartStays ==
    ASSUME NEW o \in Int, NEW c \in Int, NEW n \in Int
    PROVE  logger_offset(logger_offset(o + n) - (c + n)) = logger_offset(o - c)
<1>1. Size \in Nat \ {0}
  BY LoggerAssumption
<1>2. ASSUME NEW x \in Int
      PROVE  \E p \in Int : x = Size * p + logger_offset(x)
  <2>1. x = Size * (x \div Size) + (x % Size) /\ x \div Size \in Int
    BY <1>1
  <2>. QED
    BY <2>1 DEF logger_offset
<1>3. PICK p \in Int : o + n = Size * p + logger_offset(o + n)
  BY <1>2
<1>4. PICK q \in Int : o - c = Size * q + logger_offset(o - c)
  BY <1>2
<1>5. logger_offset(o + n) \in Int /\ logger_offset(o - c) \in 0 .. Size - 1
  BY OffsetTypes
<1>. HIDE DEF logger_offset
<1>6. Size * (q - p) = Size * q - Size * p
  BY <1>1
<1>7. logger_offset(o + n) - (c + n) = Size * (q - p) + logger_offset(o - c)
  BY <1>1, <1>3, <1>4, <1>5, <1>6
<1>. QED
  BY <1>5, <1>7, OffsetUnique

----------------------------------------------------------------------------
(* No reader waits for an entry that is there.  WaitersCaughtUp only speaks  *)
(* of the time when the mutex is free.  While a writer has it, a reader that *)
(* waits is where the write began: there it is caught up if the write is     *)
(* taken back, and fix_up_readers leaves it.                                 *)

WaitTypes ==
    /\ w_off \in 0 .. Size - 1
    /\ copied \in Nat
    /\ mutex = Nobody => copied = 0
    /\ writing \in Entries \cup {NoEntry}
    /\ readers \subseteq Readers
    /\ DOMAIN r_off = Readers
    /\ reading \in [Readers -> {Idle, "start", "waiting", "get"}]

WaitInv ==
    /\ WaitTypes
    /\ \A r \in Readers : reading[r] # Idle => r \in readers
    /\ \A r \in Readers : reading[r] = "waiting" => r_off[r] = Base_off

\* With the mutex free the current write would begin at w_off.
LEMMA FreeStart ==
    ASSUME WaitTypes, mutex = Nobody
    PROVE  Base_off = w_off
<1>1. w_off - copied = Size * 0 + w_off /\ w_off - copied \in Int
  BY LoggerAssumption DEF WaitTypes
<1>. QED
  BY <1>1, OffsetUnique DEF Base_off, WaitTypes

\* do_write_log leaves the start of the write where it is.
LEMMA WriteMoves ==
    ASSUME WaitTypes, NEW bytes, Len(bytes) \in Nat, DoWrite(bytes),
           copied' = copied + Len(bytes)
    PROVE  /\ w_off' \in 0 .. Size - 1
           /\ Base_off' = Base_off
<1>1. w_off \in Int /\ copied \in Int /\ Len(bytes) \in Int
  BY DEF WaitTypes
<1>2. w_off' = logger_offset(w_off + Len(bytes))
  BY DEF DoWrite
<1>3. Base_off' = logger_offset(w_off' - copied')
  BY DEF Base_off, logger_offset
<1>4. w_off' \in 0 .. Size - 1
  BY <1>1, <1>2, OffsetTypes
<1>5. logger_offset(logger_offset(w_off + Len(bytes)) - (copied + Len(bytes)))
         = logger_offset(w_off - copied)
  BY <1>1, StartStays
<1>. QED
  BY <1>2, <1>3, <1>4, <1>5, Zenon DEF Base_off

\* fix_up_readers does not move a reader that has read everything.
LEMMA CaughtUpStays ==
    ASSUME w_off \in Int, NEW len \in Int
    PROVE  FixUp(w_off, len) = w_off
<1>1. logger_offset(w_off + len) \in Int
  BY OffsetTypes
<1>2. ~ clock_interval(w_off, logger_offset(w_off + len), w_off)
  BY <1>1 DEF clock_interval
<1>. QED
  BY <1>2 DEF FixUp

\* The steps of writers.
LEMMA WriterWaits ==
    ASSUME WaitInv, ~ StaleFaults, WriterStep
    PROVE  WaitInv'
<1>. USE DEF logVars, readerVars, writerVars, Unlock
<1>1. PICK w \in Writers : \/ WriteBlocked(w)
                           \/ \E e \in Entries : WriteHeader(w, e)
                           \/ WriteSegment(w)
                           \/ WriteEnd(w)
                           \/ WriteFault(w)
  BY DEF WriterStep
<1>2. w # Nobody
  BY LoggerAssumption
<1>3. CASE WriteBlocked(w)
  BY <1>3 DEF WriteBlocked, WaitInv, WaitTypes, Base_off
<1>4. ASSUME NEW e \in Entries, WriteHeader(w, e)
      PROVE  WaitInv'
  <2>. DEFINE bytes == SubSeq(Image(e), 1, HEADER)
  <2>1. /\ mutex = Nobody /\ mutex' = w /\ copied' = HEADER
        /\ writing' = e /\ readers' = readers /\ reading' = reading
        /\ r_off' = [r \in Readers |-> IF r \in readers THEN FixUp(r_off[r], EntrySize(e))
                                       ELSE 0]
        /\ DoWrite(bytes)
    BY <1>4 DEF WriteHeader
  <2>2. e \in Seq(0 .. Base - 1) /\ Len(e) \in Nat
    BY LoggerAssumption
  <2>3. Len(bytes) = HEADER
    <3>1. e \in Seq(Int) /\ <<Len(e) % Base, Len(e) \div Base>> \in Seq(Int)
      BY <2>2, LoggerAssumption
    <3>2. Image(e) \in Seq(Int) /\ Len(Image(e)) = 2 + Len(e)
      BY <2>2, <3>1 DEF Image
    <3>. HIDE DEF Image
    <3>. QED
      BY <2>2, <3>2 DEF HEADER
  <2>. HIDE DEF bytes
  <2>4. copied = 0 /\ copied' = copied + Len(bytes)
    BY <2>1, <2>3 DEF WaitInv, WaitTypes, HEADER
  <2>5. w_off' \in 0 .. Size - 1 /\ Base_off' = Base_off
    BY <2>1, <2>3, <2>4, WriteMoves DEF WaitInv, HEADER
  <2>6. WaitTypes'
    BY <1>2, <2>1, <2>5 DEF WaitInv, WaitTypes, HEADER
  <2>7. EntrySize(e) \in Int /\ w_off \in Int
    BY <2>2 DEF EntrySize, HEADER, WaitInv, WaitTypes
  <2>8. Base_off = w_off
    BY <2>1, FreeStart DEF WaitInv
  <2>9. ASSUME NEW r \in Readers, reading'[r] # Idle
        PROVE  /\ r \in readers'
               /\ reading'[r] = "waiting" => r_off'[r] = Base_off'
    <3>1. r \in readers /\ reading[r] # Idle
      BY <2>1, <2>9 DEF WaitInv
    <3>2. r_off'[r] = FixUp(r_off[r], EntrySize(e))
      BY <2>1, <3>1
    <3>. QED
      BY <2>1, <2>5, <2>7, <2>8, <3>1, <3>2, CaughtUpStays DEF WaitInv
  <2>. QED
    BY <2>6, <2>9 DEF WaitInv, Idle
<1>5. CASE WriteSegment(w)
  <2>. PICK byte : byte = Image(writing)[copied + 1]
    OBVIOUS
  <2>1. DoWrite(<<byte>>) /\ copied' = copied + Len(<<byte>>) /\ Len(<<byte>>) = 1
    BY <1>5 DEF WriteSegment
  <2>2. w_off' \in 0 .. Size - 1 /\ Base_off' = Base_off
    BY <2>1, WriteMoves DEF WaitInv
  <2>3. WaitTypes'
    BY <1>2, <1>5, <2>2 DEF WriteSegment, WaitInv, WaitTypes
  <2>. QED
    BY <1>5, <2>2, <2>3 DEF WriteSegment, WaitInv
<1>6. CASE WriteEnd(w)
  <2>1. WaitTypes'
    BY <1>6 DEF WriteEnd, WaitInv, WaitTypes
  <2>. QED
    BY <1>6, <2>1 DEF WriteEnd, WaitInv, WaitTypes, Idle
<1>7. CASE WriteFault(w)
  <2>1. /\ w_off' = Base_off /\ copied' = 0 /\ mutex' = Nobody
        /\ UNCHANGED <<readers, r_off, reading>> /\ writing' = NoEntry
    BY <1>7 DEF WriteFault
  <2>2. Base_off \in 0 .. Size - 1
    BY OffsetTypes DEF Base_off, WaitInv, WaitTypes
  <2>3. WaitTypes'
    BY <2>1, <2>2 DEF WaitInv, WaitTypes
  <2>4. Base_off' = w_off'
    <3>1. w_off' - copied' = Size * 0 + w_off' /\ w_off' - copied' \in Int
      BY LoggerAssumption, <2>1, <2>3 DEF WaitTypes
    <3>2. Base_off' = logger_offset(w_off' - copied')
      BY DEF Base_off, logger_offset
    <3>. QED
      BY <2>3, <3>1, <3>2, OffsetUnique DEF WaitTypes
  <2>. QED
    BY <2>1, <2>3, <2>4 DEF WaitInv
<1>. QED
  BY <1>1, <1>3, <1>4, <1>5, <1>6, <1>7

\* The steps of readers, and LOGGER_FLUSH_LOG.
LEMMA ReaderWaits ==
    ASSUME WaitInv, ReaderStep
    PROVE  WaitInv'
<1>. USE DEF logVars, readerVars, writerVars
<1>1. PICK r \in Readers : \/ LoggerOpen(r) \/ LoggerRelease(r)
                           \/ ReadStart(r) \/ ReadCheck(r) \/ ReadRaced(r)
                           \/ WarnOverflow(r) \/ ReadEntry(r) \/ ReadFails(r)
  BY DEF ReaderStep
<1>2. /\ w_off' = w_off /\ copied' = copied /\ mutex' = mutex /\ writing' = writing
      /\ Base_off' = Base_off
  BY <1>1 DEF LoggerOpen, LoggerRelease, ReadStart, ReadCheck, ReadRaced, WarnOverflow,
              ReadEntry, ReadFails, Base_off
<1>3. WaitTypes'
  BY <1>1, <1>2 DEF LoggerOpen, LoggerRelease, ReadStart, ReadCheck, ReadRaced,
                    WarnOverflow, ReadEntry, ReadFails, WaitInv, WaitTypes
<1>4. ASSUME NEW s \in Readers \ {r}
      PROVE  /\ reading'[s] = reading[s] /\ r_off'[s] = r_off[s]
             /\ s \in readers <=> s \in readers'
  BY <1>1, <1>4 DEF LoggerOpen, LoggerRelease, ReadStart, ReadCheck, ReadRaced,
                    WarnOverflow, ReadEntry, ReadFails, WaitInv, WaitTypes
<1>5. CASE ReadCheck(r)
  <2>1. /\ reading'[r] = IF w_off = r_off[r] THEN "waiting" ELSE "get"
        /\ r \in readers' /\ r_off' = r_off /\ Base_off = w_off
    BY <1>5, FreeStart DEF ReadCheck, WaitInv, WaitTypes, Idle
  <2>. QED
    BY <1>2, <1>3, <1>4, <2>1 DEF WaitInv
<1>6. CASE ~ ReadCheck(r)
  <2>1. \/ reading'[r] = Idle
        \/ r \in readers' /\ reading'[r] = "start"
    BY <1>1, <1>6 DEF LoggerOpen, LoggerRelease, ReadStart, ReadRaced, WarnOverflow,
                      ReadEntry, ReadFails, WaitInv, WaitTypes, Idle
  <2>. QED
    BY <1>2, <1>3, <1>4, <2>1 DEF WaitInv, Idle
<1>. QED
  BY <1>5, <1>6

\* The invariant is inductive if a fault takes back only its own write.
LEMMA WaitStep == WaitInv /\ ~ StaleFaults /\ [LoggerNext]_loggerVars => WaitInv'
<1>. SUFFICES ASSUME WaitInv, ~ StaleFaults, [LoggerNext]_loggerVars
              PROVE  WaitInv'
  OBVIOUS
<1>1. CASE FlushLog
  <2>1. /\ r_off' = [r \in Readers |-> IF r \in readers THEN w_off ELSE 0]
        /\ UNCHANGED <<w_off, readers, reading, mutex, copied, writing>>
        /\ Base_off' = Base_off /\ mutex = Nobody
    BY <1>1 DEF FlushLog, writerVars, Base_off
  <2>2. Base_off = w_off
    BY <2>1, FreeStart DEF WaitInv
  <2>3. WaitTypes'
    BY <2>1 DEF WaitInv, WaitTypes
  <2>. QED
    BY <2>1, <2>2, <2>3 DEF WaitInv, Idle
<1>2. CASE UNCHANGED loggerVars
  BY <1>2 DEF loggerVars, logVars, readerVars, writerVars, WaitInv, WaitTypes, Base_off
<1>. QED
  BY <1>1, <1>2, WriterWaits, ReaderWaits DEF LoggerNext

\* A reader that waits in logger_read has read all there is, as long as no
\* write takes back another's entry (run logger_fault shows what then happens).
THEOREM NoWaiterMissesAnEntry == ~ StaleFaults => (LoggerSpec => []WaitersCaughtUp)
<1>. SUFFICES ASSUME ~ StaleFaults PROVE LoggerSpec => []WaitersCaughtUp
  OBVIOUS
<1>1. LoggerInit => WaitInv
  BY LoggerAssumption DEF LoggerInit, WaitInv, WaitTypes, Idle
<1>2. WaitInv => WaitersCaughtUp
  BY FreeStart DEF WaitInv, WaitersCaughtUp
<1>3. WaitInv /\ [LoggerNext]_loggerVars => WaitInv'
  BY WaitStep
<1>. QED
  BY <1>1, <1>2, <1>3, PTL DEF LoggerSpec

----------------------------------------------------------------------------
(* A reader that was overtaken is told.  That takes the ring: the places    *)
(* where entries begin, from each of which the lengths lead to where the    *)
(* current write began, and out of whose way fix_up_readers has gone.       *)

\* How far it is from a place on to another.
Dist(o, b) == logger_offset(b - o)

\* The places B are where entries begin.
Laid(B) == \A b \in B \ {Base_off} : /\ get_entry_len(b) <= Dist(b, Base_off)
                                     /\ logger_offset(b + get_entry_len(b)) \in B
                                     /\ Payload(b) \in Entries

\* None of them is under what is being written.
Clear(B, len) == \A b \in B : Dist(b, Base_off) + len < Size

Ring(B) ==
    /\ Base_off \in B /\ head \in B
    /\ \A r \in readers : r_off[r] \in B
    /\ Laid(B)
    /\ mutex # Nobody => Clear(B, EntrySize(writing))

LogTypes ==
    /\ buffer \in [0 .. Size - 1 -> 0 .. Base - 1]
    /\ head \in 0 .. Size - 1 /\ sign \in 0 .. Size - 1
    /\ overtaken \subseteq readers
    /\ r_off \in [Readers -> 0 .. Size - 1]
    /\ lag \in [Readers -> Int]
    /\ mutex \in Writers \cup {Nobody}
    /\ orig \in [Writers -> NotWriting .. Size - 1]
    /\ faults \in 0 .. MaxFaults

\* What there is of the entry that is being written, at least its header, is
\* in the buffer.
Written == \A i \in 1 .. copied :
              buffer[logger_offset(Base_off + (i - 1))] = Image(writing)[i]
WriteOK ==
    mutex # Nobody => /\ writing \in Entries
                      /\ copied \in HEADER .. EntrySize(writing)
                      /\ get_entry_len(Base_off) = EntrySize(writing)
                      /\ Written

RingOK == \E B \in SUBSET (0 .. Size - 1) : Ring(B)

\* What the reader has not read, with what there is of the current write.
Behind(r) == Dist(r_off[r], Base_off) + copied
ToCome == IF mutex = Nobody THEN 0 ELSE EntrySize(writing) - copied

\* Faults make sign too large, and a lag that is taken from it anything below
\* Size.  Without them it is at least what the reader has not read.
LagOK ==
    /\ \A r \in Readers : IF r \in readers THEN lag[r] <= Size /\ lag[r] - Behind(r) > -Size
                          ELSE lag[r] = 0
    /\ faults = 0 => /\ sign = w_off
                     /\ \A r \in readers : lag[r] >= Behind(r)
                     /\ \A r \in overtaken : lag[r] + ToCome >= Size

LossInv == WaitInv /\ LogTypes /\ WriteOK /\ RingOK /\ LagOK

\* Offsets within a turn of the buffer.
LEMMA OffsetNear ==
    ASSUME NEW n \in Int, -Size <= n, n < 2 * Size
    PROVE  logger_offset(n) = IF n < 0 THEN n + Size ELSE IF n < Size THEN n ELSE n - Size
<1>1. Size \in Nat \ {0}
  BY LoggerAssumption
<1>2. CASE n < 0
  <2>1. n + Size \in 0 .. Size - 1 /\ n = Size * (-1) + (n + Size)
    BY <1>1, <1>2
  <2>. QED
    BY <1>2, <2>1, OffsetUnique
<1>3. CASE 0 <= n /\ n < Size
  <2>1. n \in 0 .. Size - 1 /\ n = Size * 0 + n
    BY <1>1, <1>3
  <2>. QED
    BY <1>3, <2>1, OffsetUnique
<1>4. CASE Size <= n
  <2>1. PICK q \in Int : q = 1
    OBVIOUS
  <2>2. n - Size \in 0 .. Size - 1 /\ n = Size * q + (n - Size)
    BY <1>1, <1>4, <2>1
  <2>3. logger_offset(n) = n - Size
    BY <2>2, OffsetUnique
  <2>. QED
    BY <1>1, <1>4, <2>3
<1>. QED
  BY <1>1, <1>2, <1>3, <1>4

LEMMA DistIs ==
    ASSUME NEW o \in 0 .. Size - 1, NEW b \in 0 .. Size - 1
    PROVE  /\ Dist(o, b) = IF o <= b THEN b - o ELSE b - o + Size
           /\ Dist(o, b) \in 0 .. Size - 1
<1>1. Size \in Nat \ {0}
  BY LoggerAssumption
<1>2. b - o \in Int /\ -Size <= b - o /\ b - o < Size /\ b - o < 2 * Size
  BY <1>1
<1>. QED
  BY <1>1, <1>2, OffsetNear DEF Dist

LEMMA MoveIs ==
    ASSUME NEW o \in 0 .. Size - 1, NEW n \in 0 .. Size
    PROVE  /\ logger_offset(o + n) = IF o + n < Size THEN o + n ELSE o + n - Size
           /\ logger_offset(o + n) \in 0 .. Size - 1
<1>1. Size \in Nat \ {0}
  BY LoggerAssumption
<1>2. o + n \in Int /\ -Size <= o + n /\ o + n < 2 * Size
  BY <1>1
<1>. QED
  BY <1>1, <1>2, OffsetNear

\* Going on from a place towards another.
LEMMA Nearer ==
    ASSUME NEW o \in 0 .. Size - 1, NEW b \in 0 .. Size - 1, NEW n \in 0 .. Dist(o, b)
    PROVE  Dist(logger_offset(o + n), b) = Dist(o, b) - n
<1>1. Size \in Nat \ {0}
  BY LoggerAssumption
<1>2. Dist(o, b) = (IF o <= b THEN b - o ELSE b - o + Size) /\ Dist(o, b) \in 0 .. Size - 1
  BY DistIs
<1>3. n \in 0 .. Size
  BY <1>1, <1>2
<1>4. PICK m \in 0 .. Size - 1 : /\ m = logger_offset(o + n)
                                 /\ m = IF o + n < Size THEN o + n ELSE o + n - Size
  BY <1>3, MoveIs
<1>5. Dist(m, b) = IF m <= b THEN b - m ELSE b - m + Size
  BY DistIs
<1>6. Dist(m, b) = Dist(o, b) - n
  BY <1>1, <1>2, <1>4, <1>5
<1>. QED
  BY <1>4, <1>6

\* The place that is left behind goes on.
LEMMA Farther ==
    ASSUME NEW o \in 0 .. Size - 1, NEW b \in 0 .. Size - 1, NEW n \in Nat,
           Dist(o, b) + n < Size
    PROVE  Dist(o, logger_offset(b + n)) = Dist(o, b) + n
<1>1. Size \in Nat \ {0}
  BY LoggerAssumption
<1>2. Dist(o, b) = (IF o <= b THEN b - o ELSE b - o + Size) /\ Dist(o, b) \in 0 .. Size - 1
  BY DistIs
<1>3. n \in 0 .. Size
  BY <1>1, <1>2
<1>4. PICK m \in 0 .. Size - 1 : /\ m = logger_offset(b + n)
                                 /\ m = IF b + n < Size THEN b + n ELSE b + n - Size
  BY <1>3, MoveIs
<1>5. Dist(o, m) = IF o <= m THEN m - o ELSE m - o + Size
  BY DistIs
<1>6. Dist(o, m) = Dist(o, b) + n
  BY <1>1, <1>2, <1>4, <1>5
<1>. QED
  BY <1>4, <1>6

\* Two steps on are one.
LEMMA TwoSteps ==
    ASSUME NEW o \in 0 .. Size - 1, NEW m \in Nat, NEW n \in Nat, m + n <= Size
    PROVE  logger_offset(logger_offset(o + m) + n) = logger_offset(o + (m + n))
<1>1. Size \in Nat \ {0}
  BY LoggerAssumption
<1>2. m \in 0 .. Size /\ n \in 0 .. Size /\ m + n \in 0 .. Size
  BY <1>1
<1>3. PICK a \in 0 .. Size - 1 : /\ a = logger_offset(o + m)
                                 /\ a = IF o + m < Size THEN o + m ELSE o + m - Size
  BY <1>2, MoveIs
<1>4. logger_offset(a + n) = IF a + n < Size THEN a + n ELSE a + n - Size
  BY <1>2, MoveIs
<1>5. logger_offset(o + (m + n)) = IF o + (m + n) < Size THEN o + (m + n)
                                   ELSE o + (m + n) - Size
  BY <1>2, MoveIs
<1>6. logger_offset(a + n) = logger_offset(o + (m + n))
  BY <1>1, <1>2, <1>3, <1>4, <1>5
<1>. QED
  BY <1>3, <1>6

----------------------------------------------------------------------------
(* The loop of get_next_entry. *)

\* A set of numbers has a least one.
LEMMA LeastMember ==
    ASSUME NEW S \in SUBSET Nat, S # {}
    PROVE  \E x \in S : \A y \in S : x <= y
<1>1. IsWellFoundedOn(OpToRel(<,Nat), Nat)
  BY NatLessThanWellFounded
<1>2. PICK x \in S : \A y \in S : ~ (<<y, x>> \in OpToRel(<,Nat))
  BY <1>1, WFMin
<1>3. \A y \in S : ~ (y < x)
  BY <1>2 DEF OpToRel
<1>. QED
  BY <1>3

\* f counts up from a number to at least len, in steps.
Counts(f, from, len, step) ==
    \A c \in Nat : c >= from => f[c] = IF c >= len THEN c ELSE f[c + step[c]]

\* The loop ends, since it counts up: the recursion defines a function.
LEMMA LoopEnds ==
    ASSUME NEW len \in Nat, NEW step \in [Nat -> Nat \ {0}]
    PROVE  \E f \in [Nat -> Nat] : f = [c \in Nat |-> IF c >= len THEN c ELSE f[c + step[c]]]
<1>. DEFINE Bad == {m \in 0 .. len : ~ \E f \in [Nat -> Nat] : Counts(f, len - m, len, step)}
<1>1. Bad = {}
  <2>. SUFFICES ASSUME Bad # {} PROVE FALSE
    OBVIOUS
  <2>1. Bad \in SUBSET Nat
    OBVIOUS
  <2>2. PICK m \in Bad : \A n \in Bad : m <= n
    <3>. HIDE DEF Bad
    <3>. QED
      BY <2>1, LeastMember
  <2>3. m \in 0 .. len /\ ~ \E f \in [Nat -> Nat] : Counts(f, len - m, len, step)
    OBVIOUS
  <2>4. m # 0
    <3>1. [c \in Nat |-> c] \in [Nat -> Nat] /\ Counts([c \in Nat |-> c], len, len, step)
      BY DEF Counts
    <3>. QED
      BY <3>1, <2>3
  <2>5. m - 1 \in 0 .. len /\ m - 1 \notin Bad
    <3>1. m - 1 \in 0 .. len /\ ~ (m <= m - 1)
      BY <2>3, <2>4
    <3>. HIDE DEF Bad
    <3>. QED
      BY <3>1, <2>2
  <2>6. PICK f \in [Nat -> Nat] : Counts(f, len - (m - 1), len, step)
    BY <2>5
  <2>. DEFINE n == len - m
              g == [f EXCEPT ![n] = f[n + step[n]]]
  <2>7. n \in Nat /\ n < len /\ len - (m - 1) = n + 1
    BY <2>3, <2>4
  <2>. HIDE DEF n
  <2>8. step[n] \in Nat /\ step[n] > 0 /\ n + step[n] \in Nat
    BY <2>7
  <2>9. g \in [Nat -> Nat] /\ g[n] = f[n + step[n]] /\ \A c \in Nat : c # n => g[c] = f[c]
    BY <2>7, <2>8
  <2>. HIDE DEF g
  <2>10. ASSUME NEW c \in Nat, c >= n PROVE g[c] = IF c >= len THEN c ELSE g[c + step[c]]
    <3>0. step[c] \in Nat /\ step[c] > 0 /\ c + step[c] \in Nat /\ c + step[c] # n
      BY <2>7, <2>10
    <3>1. CASE c = n
      <4>1. g[n + step[n]] = f[n + step[n]]
        BY <3>0, <3>1, <2>8, <2>9
      <4>. QED
        BY <4>1, <3>1, <2>7, <2>9
    <3>2. CASE c # n
      <4>1. c >= n + 1
        BY <3>2, <2>7, <2>10
      <4>2. f[c] = IF c >= len THEN c ELSE f[c + step[c]]
        BY <4>1, <2>6, <2>7 DEF Counts
      <4>. QED
        BY <4>2, <3>0, <3>2, <2>9
    <3>. QED
      BY <3>1, <3>2
  <2>11. Counts(g, n, len, step)
    BY <2>10 DEF Counts
  <2>. QED
    BY <2>3, <2>9, <2>11 DEF n
<1>2. PICK f \in [Nat -> Nat] : Counts(f, 0, len, step)
  <2>1. len \in 0 .. len /\ len - len = 0
    OBVIOUS
  <2>2. \E f \in [Nat -> Nat] : Counts(f, len - len, len, step)
    BY <1>1, <2>1
  <2>. QED
    BY <2>1, <2>2
<1>3. \A c \in Nat : f[c] = IF c >= len THEN c ELSE f[c + step[c]]
  BY <1>2 DEF Counts
<1>. QED
  BY <1>3

\* What get_next_entry computes.
LEMMA NextEntryIs ==
    ASSUME NEW off \in Int, NEW len \in Nat,
           \A o \in Int : get_entry_len(logger_offset(o)) \in Nat \ {0}
    PROVE  \E f :
              /\ \A c \in Nat : f[c] = IF c >= len THEN c
                                       ELSE f[c + get_entry_len(logger_offset(off + c))]
              /\ get_next_entry(off, len) = logger_offset(off + f[get_entry_len(off)])
<1>. DEFINE step == [c \in Nat |-> get_entry_len(logger_offset(off + c))]
            Loop == CHOOSE skip : skip = [count \in Nat |-> IF count >= len THEN count
                                  ELSE skip[count + get_entry_len(logger_offset(off + count))]]
<1>1. step \in [Nat -> Nat \ {0}]
  OBVIOUS
<1>2. PICK f \in [Nat -> Nat] : f = [c \in Nat |-> IF c >= len THEN c ELSE f[c + step[c]]]
  <2>. HIDE DEF step
  <2>. QED
    BY <1>1, LoopEnds
<1>3. f = [count \in Nat |-> IF count >= len THEN count
                                  ELSE f[count + get_entry_len(logger_offset(off + count))]]
  BY <1>2
<1>4. Loop = [count \in Nat |-> IF count >= len THEN count
                                  ELSE Loop[count + get_entry_len(logger_offset(off + count))]]
  BY <1>3, Zenon
<1>5. get_next_entry(off, len) = logger_offset(off + Loop[get_entry_len(off)])
  BY Zenon DEF get_next_entry
<1>. HIDE DEF Loop
<1>6. \A c \in Nat : Loop[c] = IF c >= len THEN c
                                       ELSE Loop[c + get_entry_len(logger_offset(off + c))]
  BY <1>4
<1>. QED
  BY <1>5, <1>6

\* An entry is not shorter than its header.
LEMMA LenTypes ==
    ASSUME LogTypes, NEW o \in 0 .. Size - 1
    PROVE  get_entry_len(o) \in Nat /\ get_entry_len(o) >= HEADER
<1>1. Size \in Nat \ {0} /\ Base \in Nat
  BY LoggerAssumption
<1>2. PICK s \in 0 .. Size - 1 : s = IF o = Size - 1 THEN 0 ELSE o + 1
  BY <1>1
<1>3. buffer[o] \in Nat /\ buffer[s] \in Nat
  BY <1>1, <1>2 DEF LogTypes
<1>4. Base * buffer[s] \in Nat
  BY <1>1, <1>3
<1>5. get_entry_len(o) = HEADER + buffer[o] + Base * buffer[s]
  BY <1>2 DEF get_entry_len
<1>. QED
  BY <1>3, <1>4, <1>5 DEF HEADER

\* T relates a place to those that lead to it, from entry to entry.
Onward(B, T) ==
    /\ \A b \in B : <<b, b>> \in T
    /\ \A b \in B \ {Base_off}, x \in B :
          <<x, logger_offset(b + get_entry_len(b))>> \in T => <<x, b>> \in T

\* From a place where an entry begins, get_next_entry gets to another one that
\* is at least len further on and not past where the current write began.
LEMMA NextInRing ==
    ASSUME LogTypes, NEW base, base = Base_off,
           NEW B \in SUBSET (0 .. Size - 1), base \in B, Laid(B),
           NEW T, Onward(B, T),
           NEW off \in B, off # base, NEW len \in Nat, len <= Dist(off, base)
    PROVE  \E t \in len .. Dist(off, base) :
              /\ get_next_entry(off, len) = logger_offset(off + t)
              /\ logger_offset(off + t) \in B
              /\ <<logger_offset(off + t), off>> \in T
<1>1. Size \in Nat \ {0} /\ off \in 0 .. Size - 1 /\ base \in 0 .. Size - 1 /\ off \in Int
  BY LoggerAssumption
<1>2. \A o \in Int : get_entry_len(logger_offset(o)) \in Nat \ {0}
  BY OffsetTypes, LenTypes DEF HEADER
<1>3. PICK f : /\ \A c \in Nat : f[c] = IF c >= len THEN c
                                        ELSE f[c + get_entry_len(logger_offset(off + c))]
               /\ get_next_entry(off, len) = logger_offset(off + f[get_entry_len(off)])
  BY <1>1, <1>2, NextEntryIs
<1>4. PICK D \in 0 .. Size - 1 : D = Dist(off, base)
  BY <1>1, DistIs
<1>. DEFINE Lands(c) == /\ f[c] \in len .. D /\ logger_offset(off + f[c]) \in B
                        /\ <<logger_offset(off + f[c]), logger_offset(off + c)>> \in T
            Bad == {m \in 0 .. D : logger_offset(off + (D - m)) \in B /\ ~ Lands(D - m)}
<1>5. Bad = {}
  <2>. SUFFICES ASSUME Bad # {} PROVE FALSE
    OBVIOUS
  <2>1. Bad \in SUBSET Nat
    OBVIOUS
  <2>2. PICK m \in Bad : \A n \in Bad : m <= n
    <3>. HIDE DEF Bad
    <3>. QED
      BY <2>1, LeastMember
  <2>3. PICK c \in 0 .. D : c = D - m
    BY <1>4
  <2>4. logger_offset(off + c) \in B /\ ~ Lands(c) /\ m \in 0 .. D
    BY <2>3
  <2>5. c < len
    <3>1. ASSUME c >= len PROVE FALSE
      <4>1. f[c] = c
        BY <1>3, <2>3, <3>1
      <4>2. <<logger_offset(off + c), logger_offset(off + c)>> \in T
        BY <2>4 DEF Onward
      <4>. QED
        BY <2>3, <2>4, <3>1, <4>1, <4>2
    <3>. QED
      BY <2>3, <3>1
  <2>6. PICK b \in B : b = logger_offset(off + c)
    BY <2>4
  <2>7. Dist(b, base) = D - c /\ D - c > 0
    BY <1>1, <1>4, <2>3, <2>5, <2>6, Nearer
  <2>8. b # base
    BY <1>1, <1>4, <2>3, <2>7, DistIs
  <2>9. PICK l \in Nat \ {0} : l = get_entry_len(b)
    BY <1>1, <1>2, <2>3, <2>6
  <2>10. l <= D - c /\ logger_offset(b + l) \in B
    BY <2>7, <2>8, <2>9 DEF Laid
  <2>11. logger_offset(b + l) = logger_offset(off + (c + l))
    <3>1. c \in Nat /\ c + l <= Size
      BY <1>1, <1>4, <2>3, <2>9, <2>10
    <3>2. logger_offset(logger_offset(off + c) + l) = logger_offset(off + (c + l))
      BY <1>1, <3>1, <2>9, TwoSteps
    <3>. QED
      BY <2>6, <3>2
  <2>12. f[c] = f[c + l]
    BY <1>3, <2>3, <2>5, <2>6, <2>9
  <2>13. ~ Lands(c + l)
    <3>1. ASSUME Lands(c + l) PROVE FALSE
      <4>1. PICK x \in B : /\ x = logger_offset(off + f[c])
                           /\ <<x, logger_offset(b + l)>> \in T
        BY <2>11, <2>12, <3>1
      <4>2. <<x, b>> \in T
        BY <1>1, <2>8, <2>9, <4>1 DEF Onward
      <4>. QED
        BY <2>4, <2>6, <2>12, <3>1, <4>1, <4>2
    <3>. QED
      BY <3>1
  <2>. HIDE DEF Lands
  <2>14. m - l \in 0 .. D /\ D - (m - l) = c + l /\ m - l < m
    BY <1>4, <2>3, <2>4, <2>9, <2>10
  <2>15. m - l \in Bad
    BY <2>10, <2>11, <2>13, <2>14
  <2>. HIDE DEF Bad
  <2>. QED
    BY <2>2, <2>4, <2>14, <2>15
<1>6. PICK n \in Nat : n = get_entry_len(off) /\ n <= D /\ logger_offset(off + n) \in B
  BY <1>1, <1>4, LenTypes DEF Laid
<1>7. D - n \in 0 .. D /\ D - (D - n) = n
  BY <1>4, <1>6
<1>8. Lands(n)
  <2>. HIDE DEF Lands
  <2>. QED
    BY <1>5, <1>6, <1>7
<1>9. <<logger_offset(off + f[n]), off>> \in T
  BY <1>6, <1>8 DEF Onward
<1>. QED
  BY <1>3, <1>4, <1>6, <1>8, <1>9

\* clock_interval tells whether a place is within len ahead of w_off.
LEMMA IntervalIs ==
    ASSUME NEW w \in 0 .. Size - 1, NEW off \in 0 .. Size - 1, NEW len \in 1 .. Size - 1
    PROVE  clock_interval(w, logger_offset(w + len), off)
              <=> off # w /\ Dist(off, w) >= Size - len
<1>1. Size \in Nat \ {0} /\ len \in 0 .. Size
  BY LoggerAssumption
<1>2. PICK b \in 0 .. Size - 1 : /\ b = logger_offset(w + len)
                                 /\ b = IF w + len < Size THEN w + len ELSE w + len - Size
  BY <1>1, MoveIs
<1>3. Dist(off, w) = IF off <= w THEN w - off ELSE w - off + Size
  BY DistIs
<1>4. clock_interval(w, b, off) <=> off # w /\ Dist(off, w) >= Size - len
  BY <1>1, <1>2, <1>3 DEF clock_interval
<1>. QED
  BY <1>2, <1>4

\* fix_up_readers leaves a place alone or takes it on, to a place from where
\* the write that follows does not reach round to it.
LEMMA FixUpLands ==
    ASSUME LogTypes, WaitTypes, mutex = Nobody,
           NEW B \in SUBSET (0 .. Size - 1), Base_off \in B, Laid(B),
           NEW T, Onward(B, T),
           NEW off \in B, NEW len \in Nat, len >= 1, 2 * len <= Size
    PROVE  /\ FixUp(off, len) \in B /\ <<FixUp(off, len), off>> \in T
           /\ Dist(FixUp(off, len), Base_off) + len < Size
           /\ Dist(FixUp(off, len), Base_off) <= Dist(off, Base_off)
           /\ FixUp(off, len) # off => Dist(off, Base_off) >= Size - len
           /\ Dist(off, Base_off) + len < Size => FixUp(off, len) = off
<1>1. PICK w \in B : w = Base_off /\ w = w_off
  BY FreeStart
<1>2. Size \in Nat \ {0} /\ w \in 0 .. Size - 1 /\ off \in 0 .. Size - 1 /\ len \in 1 .. Size - 1
  BY LoggerAssumption
<1>3. PICK D \in 0 .. Size - 1 : D = Dist(off, w)
  BY <1>2, DistIs
<1>4. clock_interval(w, logger_offset(w + len), off) <=> off # w /\ D >= Size - len
  BY <1>2, <1>3, IntervalIs
<1>5. CASE off # w /\ D >= Size - len
  <2>1. FixUp(off, len) = get_next_entry(off, len)
    BY <1>1, <1>4, <1>5 DEF FixUp
  <2>2. PICK t \in len .. D : /\ FixUp(off, len) = logger_offset(off + t)
                              /\ logger_offset(off + t) \in B
                              /\ <<logger_offset(off + t), off>> \in T
    <3>1. len <= Dist(off, w)
      BY <1>2, <1>3, <1>5
    <3>2. \E t \in len .. Dist(off, w) :
             /\ get_next_entry(off, len) = logger_offset(off + t)
             /\ logger_offset(off + t) \in B
             /\ <<logger_offset(off + t), off>> \in T
      BY <1>1, <1>5, <3>1, NextInRing
    <3>. QED
      BY <1>3, <2>1, <3>2
  <2>3. t \in 0 .. D
    BY <1>2, <1>3
  <2>4. Dist(FixUp(off, len), w) = D - t
    BY <1>2, <1>3, <2>2, <2>3, Nearer
  <2>. QED
    BY <1>1, <1>2, <1>3, <1>5, <2>2, <2>4
<1>6. CASE ~ (off # w /\ D >= Size - len)
  <2>1. FixUp(off, len) = off
    BY <1>1, <1>4, <1>6 DEF FixUp
  <2>2. D + len < Size
    <3>1. Dist(w, w) = 0
      BY <1>2, DistIs
    <3>. QED
      BY <1>2, <1>3, <1>6, <3>1
  <2>3. <<off, off>> \in T
    BY DEF Onward
  <2>. QED
    BY <1>1, <1>2, <1>3, <2>1, <2>2, <2>3
<1>. QED
  BY <1>5, <1>6

----------------------------------------------------------------------------
(* What a write leaves in the buffer. *)

\* The two digits of a length.
LEMMA HeaderDigits ==
    ASSUME NEW n \in 1 .. Base * Base - 1
    PROVE  /\ n % Base \in 0 .. Base - 1
           /\ n \div Base \in 0 .. Base - 1
           /\ (n % Base) + Base * (n \div Base) = n
<1>1. Base \in Nat \ {0, 1} /\ n \in Nat /\ n < Base * Base
  BY LoggerAssumption
<1>2. n % Base \in 0 .. Base - 1 /\ n \div Base \in Int /\ n = Base * (n \div Base) + (n % Base)
  BY <1>1
<1>3. PICK q \in Int : q = n \div Base
  BY <1>2
<1>4. PICK m \in 0 .. Base - 1 : m = n % Base
  BY <1>2
<1>5. n = Base * q + m
  BY <1>2, <1>3, <1>4
<1>6. q >= 0
  <2>1. ASSUME q <= -1 PROVE FALSE
    <3>1. Base * q <= -Base
      BY <1>1, <2>1
    <3>2. Base * q \in Int
      BY <1>1
    <3>. QED
      BY <1>1, <1>4, <1>5, <3>1, <3>2
  <2>. QED
    BY <2>1
<1>7. q < Base
  <2>1. ASSUME q >= Base PROVE FALSE
    <3>1. Base * q >= Base * Base
      BY <1>1, <2>1
    <3>2. Base * q \in Int /\ Base * Base \in Int
      BY <1>1
    <3>. QED
      BY <1>1, <1>4, <1>5, <3>1, <3>2
  <2>. QED
    BY <1>1, <2>1
<1>8. q \in 0 .. Base - 1
  BY <1>1, <1>6, <1>7
<1>9. Base * q \in Int /\ m + Base * q = n
  BY <1>1, <1>5
<1>. QED
  BY <1>3, <1>4, <1>8, <1>9

\* The bytes that are written for an entry.
LEMMA ImageIs ==
    ASSUME NEW e \in Entries
    PROVE  /\ Image(e) \in Seq(0 .. Base - 1)
           /\ Len(Image(e)) = EntrySize(e)
           /\ Image(e)[1] = Len(e) % Base /\ Image(e)[2] = Len(e) \div Base
           /\ \A i \in 1 .. Len(e) : Image(e)[HEADER + i] = e[i]
           /\ EntrySize(e) \in Nat /\ EntrySize(e) > HEADER /\ 2 * EntrySize(e) <= Size
<1>1. e \in Seq(0 .. Base - 1) /\ Len(e) \in 1 .. Base * Base - 1 /\ 2 * EntrySize(e) <= Size
  BY LoggerAssumption
<1>2. Len(e) % Base \in 0 .. Base - 1 /\ Len(e) \div Base \in 0 .. Base - 1
  BY <1>1, HeaderDigits
<1>3. PICK S : S = 0 .. Base - 1
  OBVIOUS
<1>4. PICK lo \in S, hi \in S : lo = Len(e) % Base /\ hi = Len(e) \div Base
  BY <1>2, <1>3
<1>5. Image(e) = <<lo, hi>> \o e
  BY <1>4 DEF Image
<1>6. /\ <<lo, hi>> \o e \in Seq(S) /\ Len(<<lo, hi>> \o e) = 2 + Len(e)
      /\ (<<lo, hi>> \o e)[1] = lo /\ (<<lo, hi>> \o e)[2] = hi
      /\ \A i \in 1 .. Len(e) : (<<lo, hi>> \o e)[2 + i] = e[i]
  <2>1. PICK h \in Seq(S) : h = <<lo, hi>>
    <3>1. <<lo, hi>> \in Seq(S)
      OBVIOUS
    <3>. QED
      BY <3>1
  <2>2. Len(h) = 2 /\ h[1] = lo /\ h[2] = hi
    BY <2>1
  <2>3. e \in Seq(S)
    BY <1>1, <1>3
  <2>4. /\ h \o e \in Seq(S)
        /\ Len(h \o e) = Len(h) + Len(e)
        /\ \A i \in 1 .. Len(h) + Len(e) : (h \o e)[i] = IF i <= Len(h) THEN h[i]
                                                         ELSE e[i - Len(h)]
    BY <2>3, ConcatProperties
  <2>5. 1 \in 1 .. 2 + Len(e) /\ 2 \in 1 .. 2 + Len(e)
    BY <1>1
  <2>6. ASSUME NEW i \in 1 .. Len(e) PROVE (h \o e)[2 + i] = e[i]
    <3>1. 2 + i \in 1 .. 2 + Len(e) /\ ~ (2 + i <= 2) /\ 2 + i - 2 = i
      BY <1>1
    <3>. QED
      BY <2>2, <2>4, <3>1
  <2>. QED
    BY <2>1, <2>2, <2>4, <2>5, <2>6
<1>7. Len(e) \in Nat /\ Len(e) >= 1
  BY <1>1
<1>. QED
  BY <1>1, <1>3, <1>4, <1>5, <1>6, <1>7 DEF EntrySize, HEADER

\* The bytes lie from w_off on.
LEMMA BytesAre ==
    ASSUME NEW bytes, DoWrite(bytes), NEW o \in 0 .. Size - 1
    PROVE  buffer'[o] = IF Dist(w_off, o) + 1 <= Len(bytes) THEN bytes[Dist(w_off, o) + 1]
                        ELSE buffer[o]
BY DEF DoWrite, Dist

LEMMA BufferTypes ==
    ASSUME LogTypes, WaitTypes, NEW bytes \in Seq(0 .. Base - 1), DoWrite(bytes)
    PROVE  buffer' \in [0 .. Size - 1 -> 0 .. Base - 1]
<1>1. ASSUME NEW o \in 0 .. Size - 1 PROVE buffer'[o] \in 0 .. Base - 1
  <2>1. PICK d \in Nat : d = Dist(w_off, o)
    <3>1. Dist(w_off, o) \in 0 .. Size - 1
      BY DistIs DEF WaitTypes
    <3>. QED
      BY <3>1
  <2>2. buffer'[o] = IF d + 1 <= Len(bytes) THEN bytes[d + 1] ELSE buffer[o]
    BY <2>1, BytesAre
  <2>3. ASSUME d + 1 <= Len(bytes) PROVE bytes[d + 1] \in 0 .. Base - 1
    <3>1. d + 1 \in 1 .. Len(bytes)
      BY <2>1, <2>3
    <3>. QED
      BY <3>1, ElementOfSeq
  <2>4. buffer[o] \in 0 .. Base - 1
    BY DEF LogTypes
  <2>. QED
    BY <2>2, <2>3, <2>4
<1>2. buffer' = [o \in 0 .. Size - 1 |-> buffer'[o]]
  BY DEF DoWrite
<1>. QED
  BY <1>1, <1>2

\* A write that does not reach round to a header leaves it.
LEMMA LenKept ==
    ASSUME WaitTypes, NEW bytes, Len(bytes) \in Nat, DoWrite(bytes),
           NEW b \in 0 .. Size - 1,
           Dist(w_off, b) >= Len(bytes), Dist(w_off, b) + 1 < Size
    PROVE  get_entry_len(b)' = get_entry_len(b)
<1>1. Size \in Nat \ {0} /\ w_off \in 0 .. Size - 1
  BY LoggerAssumption DEF WaitTypes
<1>2. PICK s \in 0 .. Size - 1 : s = IF b = Size - 1 THEN 0 ELSE b + 1
  BY <1>1
<1>3. s = logger_offset(b + 1)
  BY <1>1, <1>2, OffsetNear
<1>4. PICK d \in Nat : d = Dist(w_off, b)
  BY <1>1, DistIs
<1>5. Dist(w_off, s) = d + 1
  BY <1>1, <1>3, <1>4, Farther
<1>6. buffer'[b] = buffer[b]
  BY <1>4, BytesAre
<1>7. buffer'[s] = buffer[s]
  BY <1>4, <1>5, BytesAre
<1>. QED
  BY <1>2, <1>6, <1>7 DEF get_entry_len

\* Nor does one that stays off a whole entry change it.
LEMMA EntryKept ==
    ASSUME LogTypes, WaitTypes, NEW bytes, Len(bytes) \in Nat, DoWrite(bytes),
           NEW b \in 0 .. Size - 1,
           Dist(w_off, b) >= Len(bytes), Dist(w_off, b) + get_entry_len(b) <= Size
    PROVE  get_entry_len(b)' = get_entry_len(b) /\ Payload(b)' = Payload(b)
<1>1. Size \in Nat \ {0} /\ w_off \in 0 .. Size - 1
  BY LoggerAssumption DEF WaitTypes
<1>2. PICK d \in Nat : d = Dist(w_off, b)
  BY <1>1, DistIs
<1>3. PICK l \in Nat : l = get_entry_len(b) /\ l >= 2
  BY LenTypes DEF HEADER
<1>4. d >= Len(bytes) /\ d + l <= Size
  BY <1>2, <1>3
<1>5. get_entry_len(b)' = l
  <2>1. d + 1 < Size
    BY <1>1, <1>3, <1>4
  <2>. QED
    BY <1>2, <1>3, <1>4, <2>1, LenKept
<1>6. ASSUME NEW i \in 1 .. l - HEADER
      PROVE  buffer'[logger_offset(b + HEADER + i - 1)] = buffer[logger_offset(b + HEADER + i - 1)]
  <2>1. PICK k \in Nat : k = HEADER + i - 1 /\ k < l /\ b + HEADER + i - 1 = b + k
    BY <1>3, <1>6 DEF HEADER
  <2>2. d + k < Size
    BY <1>1, <1>3, <1>4, <2>1
  <2>3. PICK o \in 0 .. Size - 1 : o = logger_offset(b + k) /\ Dist(w_off, o) = d + k
    <3>1. logger_offset(b + k) \in 0 .. Size - 1
      <4>1. b + k \in Int
        BY <2>1
      <4>. QED
        BY <4>1, OffsetTypes
    <3>2. Dist(w_off, logger_offset(b + k)) = Dist(w_off, b) + k
      BY <1>1, <1>2, <2>2, Farther
    <3>. QED
      BY <1>2, <3>1, <3>2
  <2>4. ~ (d + k + 1 <= Len(bytes))
    BY <1>4, <2>1
  <2>5. buffer'[o] = buffer[o]
    BY <2>3, <2>4, BytesAre
  <2>. QED
    BY <2>1, <2>3, <2>5
<1>7. Payload(b)' = [i \in 1 .. l - HEADER |-> buffer'[logger_offset(b + HEADER + i - 1)]]
  BY <1>5 DEF Payload, logger_offset
<1>8. Payload(b) = [i \in 1 .. l - HEADER |-> buffer[logger_offset(b + HEADER + i - 1)]]
  BY <1>3 DEF Payload
<1>. QED
  BY <1>3, <1>5, <1>6, <1>7, <1>8

\* The entries are in the buffer alone.
LEMMA SameBuffer ==
    ASSUME buffer' = buffer
    PROVE  \A b : get_entry_len(b)' = get_entry_len(b) /\ Payload(b)' = Payload(b)
BY DEF get_entry_len, Payload, logger_offset

\* Where the write is, seen from where it began.
LEMMA PlaceIs ==
    ASSUME WaitTypes, copied <= Size
    PROVE  Base_off \in 0 .. Size - 1 /\ w_off = logger_offset(Base_off + copied)
<1>1. Size \in Nat \ {0} /\ w_off \in 0 .. Size - 1 /\ copied \in 0 .. Size
  BY LoggerAssumption DEF WaitTypes
<1>2. PICK b : /\ b = Base_off
               /\ b = IF w_off - copied < 0 THEN w_off - copied + Size ELSE w_off - copied
  <2>1. w_off - copied \in Int /\ -Size <= w_off - copied /\ w_off - copied < Size
    BY <1>1
  <2>. QED
    BY <1>1, <2>1, OffsetNear DEF Base_off
<1>3. b \in 0 .. Size - 1
  BY <1>1, <1>2
<1>4. logger_offset(b + copied) = IF b + copied < Size THEN b + copied ELSE b + copied - Size
  BY <1>1, <1>3, MoveIs
<1>5. logger_offset(b + copied) = w_off
  BY <1>1, <1>2, <1>3, <1>4
<1>. QED
  BY <1>2, <1>3, <1>5

\* From a write that has got c bytes on, round to a place before its start.
LEMMA WayRound ==
    ASSUME NEW base \in 0 .. Size - 1, NEW b \in 0 .. Size - 1, NEW c \in Nat,
           Dist(b, base) + c < Size, b # base \/ c > 0
    PROVE  Dist(logger_offset(base + c), b) = Size - Dist(b, base) - c
<1>1. Size \in Nat \ {0}
  BY LoggerAssumption
<1>2. Dist(b, base) = (IF b <= base THEN base - b ELSE base - b + Size)
      /\ Dist(b, base) \in 0 .. Size - 1
  BY DistIs
<1>3. c \in 0 .. Size
  BY <1>1, <1>2
<1>4. PICK m \in 0 .. Size - 1 : /\ m = logger_offset(base + c)
                                 /\ m = IF base + c < Size THEN base + c ELSE base + c - Size
  BY <1>3, MoveIs
<1>5. Dist(m, b) = IF m <= b THEN b - m ELSE b - m + Size
  BY DistIs
<1>6. Dist(m, b) = Size - Dist(b, base) - c
  BY <1>1, <1>2, <1>4, <1>5
<1>. QED
  BY <1>4, <1>6

----------------------------------------------------------------------------
(* The parts of the invariant that speak of the log and the lags. *)

LogOK == LogTypes /\ WriteOK /\ RingOK /\ LagOK

\* The bytes of the header.
LEMMA HeaderBytes ==
    ASSUME NEW e \in Entries
    PROVE  \E bytes \in Seq(0 .. Base - 1) :
              /\ bytes = SubSeq(Image(e), 1, HEADER)
              /\ Len(bytes) = HEADER
              /\ bytes[1] = Len(e) % Base /\ bytes[2] = Len(e) \div Base
<1>1. PICK S : S = 0 .. Base - 1
  OBVIOUS
<1>2. PICK m : m = Image(e)
  OBVIOUS
<1>3. /\ m \in Seq(S) /\ Len(m) \in Nat /\ Len(m) > 2
      /\ m[1] = Len(e) % Base /\ m[2] = Len(e) \div Base
  BY <1>1, <1>2, ImageIs DEF HEADER
<1>4. \A i \in 1 .. 2 : m[i] \in S
  <2>1. ASSUME NEW i \in 1 .. 2 PROVE i \in 1 .. Len(m)
    BY <1>3
  <2>. QED
    BY <1>3, <2>1, ElementOfSeq
<1>. DEFINE bytes == SubSeq(m, 1, 2)
<1>5. /\ bytes \in Seq(S)
      /\ Len(bytes) = IF 1 <= 2 THEN 2 - 1 + 1 ELSE 0
      /\ \A i \in 1 .. 2 - 1 + 1 : bytes[i] = m[1 + i - 1]
  BY <1>4, SubSeqProperties
<1>6. bytes = SubSeq(Image(e), 1, HEADER)
  BY <1>2 DEF HEADER
<1>. HIDE DEF bytes
<1>7. Len(bytes) = 2 /\ bytes[1] = m[1] /\ bytes[2] = m[2]
  <2>1. 1 \in 1 .. 2 - 1 + 1 /\ 2 \in 1 .. 2 - 1 + 1 /\ 1 + 1 - 1 = 1 /\ 1 + 2 - 1 = 2
    OBVIOUS
  <2>2. bytes[1] = m[1 + 1 - 1] /\ bytes[2] = m[1 + 2 - 1]
    BY <1>5, <2>1
  <2>. QED
    BY <1>5, <2>1, <2>2
<1>. QED
  BY <1>1, <1>3, <1>5, <1>6, <1>7 DEF HEADER

\* The header that is written is the entry's length.
LEMMA HeaderWritten ==
    ASSUME LossInv, NEW e \in Entries, mutex = Nobody,
           NEW bytes, Len(bytes) = HEADER,
           bytes[1] = Len(e) % Base, bytes[2] = Len(e) \div Base,
           DoWrite(bytes), copied' = HEADER, writing' = e
    PROVE  /\ Base_off = w_off /\ Base_off' = Base_off /\ w_off' \in 0 .. Size - 1
           /\ get_entry_len(Base_off)' = EntrySize(e) /\ Written'
<1>1. Size \in Nat \ {0} /\ WaitTypes /\ LogTypes /\ copied = 0 /\ Len(bytes) = 2
  BY LoggerAssumption DEF LossInv, WaitInv, WaitTypes, HEADER
<1>2. PICK b \in 0 .. Size - 1 : b = w_off /\ b = Base_off
  BY <1>1, FreeStart DEF WaitTypes
<1>3. copied' = copied + Len(bytes) /\ Len(bytes) \in Nat
  BY <1>1 DEF HEADER
<1>4. Base_off' = b /\ w_off' \in 0 .. Size - 1
  BY <1>1, <1>2, <1>3, WriteMoves
<1>5. PICK s \in 0 .. Size - 1 : s = IF b = Size - 1 THEN 0 ELSE b + 1
  BY <1>1
<1>6. Size > 2
  BY <1>1, ImageIs DEF HEADER
<1>7. Dist(b, b) = 0
  BY <1>1, DistIs
<1>8. Dist(b, s) = 1
  <2>1. Dist(b, s) = IF b <= s THEN s - b ELSE s - b + Size
    BY DistIs
  <2>. QED
    BY <1>1, <1>5, <1>6, <2>1
<1>9. buffer'[b] = bytes[1]
  <2>1. buffer'[b] = IF 0 + 1 <= Len(bytes) THEN bytes[0 + 1] ELSE buffer[b]
    BY <1>2, <1>7, BytesAre
  <2>. QED
    BY <1>1, <2>1
<1>10. buffer'[s] = bytes[2]
  <2>1. buffer'[s] = IF 1 + 1 <= Len(bytes) THEN bytes[1 + 1] ELSE buffer[s]
    BY <1>2, <1>8, BytesAre
  <2>. QED
    BY <1>1, <2>1
<1>11. get_entry_len(Base_off)' = HEADER + buffer'[b] + Base * buffer'[s]
  BY <1>4, <1>5 DEF get_entry_len
<1>12. Len(e) \in 1 .. Base * Base - 1
  BY LoggerAssumption
<1>13. PICK lo \in Int, hi \in Int : lo = bytes[1] /\ hi = bytes[2] /\ lo + Base * hi = Len(e)
  BY <1>12, HeaderDigits
<1>14. Base * hi \in Int
  BY <1>13, LoggerAssumption
<1>15. get_entry_len(Base_off)' = HEADER + Len(e)
  BY <1>9, <1>10, <1>11, <1>13, <1>14 DEF HEADER
<1>16. Written'
  <2>1. logger_offset(b + (1 - 1)) = b /\ logger_offset(b + (2 - 1)) = s
    BY <1>1, <1>5, OffsetNear
  <2>2. Image(e)[1] = bytes[1] /\ Image(e)[2] = bytes[2]
    BY ImageIs
  <2>3. \A i \in 1 .. 2 : buffer'[logger_offset(b + (i - 1))] = Image(e)[i]
    <3>1. ASSUME NEW i \in 1 .. 2
          PROVE  buffer'[logger_offset(b + (i - 1))] = Image(e)[i]
      <4>1. i = 1 \/ i = 2
        OBVIOUS
      <4>. QED
        BY <1>9, <1>10, <2>1, <2>2, <4>1
    <3>. QED
      BY <3>1
  <2>. QED
    BY <1>4, <2>3 DEF Written, HEADER, logger_offset
<1>. QED
  BY <1>2, <1>4, <1>15, <1>16 DEF EntrySize

\* The entries at the places B, but for the one being written, stay.
EntriesStay(B) == \A b \in B \ {Base_off} : /\ get_entry_len(b)' = get_entry_len(b)
                                            /\ Payload(b)' = Payload(b)

\* The places that the new entry leaves.
LEMMA PlacesLeft ==
    ASSUME LossInv, mutex = Nobody, NEW len \in Nat, len > HEADER, 2 * len <= Size,
           NEW bytes, Len(bytes) = HEADER, DoWrite(bytes), Base_off' = Base_off,
           NEW B \in SUBSET (0 .. Size - 1), Ring(B)
    PROVE  /\ Laid({b \in B : Dist(b, Base_off) + len < Size})'
           /\ Laid({b \in B : Dist(b, Base_off) + len < Size})
           /\ EntriesStay({b \in B : Dist(b, Base_off) + len < Size})
<1>1. Size \in Nat \ {0} /\ WaitTypes /\ LogTypes /\ Laid(B)
  BY LoggerAssumption DEF LossInv, WaitInv, Ring
<1>2. PICK w \in 0 .. Size - 1 : w = w_off /\ w = Base_off
  BY <1>1, FreeStart DEF WaitTypes
<1>. DEFINE A == {b \in B : Dist(b, w) + len < Size}
<1>3. ASSUME NEW b \in A \ {w}
      PROVE  /\ get_entry_len(b)' = get_entry_len(b) /\ Payload(b)' = Payload(b)
             /\ get_entry_len(b) <= Dist(b, w)
             /\ logger_offset(b + get_entry_len(b)) \in A
             /\ Payload(b) \in Entries
  <2>1. PICK l \in Nat : l = get_entry_len(b) /\ l >= 2
    BY <1>1, LenTypes DEF HEADER
  <2>2. PICK d \in Nat : d = Dist(b, w) /\ d < Size
    <3>1. Dist(b, w) \in 0 .. Size - 1
      BY DistIs
    <3>. QED
      BY <1>1, <3>1
  <2>3. l <= d /\ logger_offset(b + l) \in B /\ d + len < Size /\ Payload(b) \in Entries
    BY <1>1, <1>2, <1>3, <2>1, <2>2 DEF Laid
  <2>4. Dist(w_off, b) = Size - d
    <3>1. logger_offset(w + 0) = w
      BY <1>1, OffsetNear
    <3>2. Dist(b, w) + 0 < Size
      BY <2>2
    <3>3. Dist(logger_offset(w + 0), b) = Size - Dist(b, w) - 0
      BY <1>3, <3>2, WayRound
    <3>. QED
      BY <1>1, <1>2, <2>2, <3>1, <3>3
  <2>5. get_entry_len(b)' = l /\ Payload(b)' = Payload(b)
    <3>1. Dist(w_off, b) >= Len(bytes) /\ Dist(w_off, b) + l <= Size /\ Len(bytes) \in Nat
      BY <1>1, <2>1, <2>2, <2>3, <2>4 DEF HEADER
    <3>. QED
      BY <1>1, <1>3, <2>1, <3>1, EntryKept
  <2>6. Dist(logger_offset(b + l), w) = d - l
    BY <1>3, <2>1, <2>2, <2>3, Nearer
  <2>7. logger_offset(b + l) \in A
    <3>1. d - l + len < Size
      BY <1>1, <2>1, <2>2, <2>3
    <3>. QED
      BY <2>3, <2>6, <3>1
  <2>. QED
    BY <2>1, <2>2, <2>3, <2>5, <2>7
<1>4. Base_off' = w
  BY <1>2
<1>5. A = {b \in B : Dist(b, Base_off) + len < Size}
  BY <1>2
<1>. HIDE DEF A
<1>6. Laid(A)' /\ Laid(A)
  BY <1>2, <1>3, <1>4 DEF Laid
<1>7. EntriesStay(A)
  BY <1>2, <1>3 DEF EntriesStay
<1>. QED
  BY <1>2, <1>4, <1>5, <1>6, <1>7

\* fix_up_readers and the header.
LEMMA HeaderKeepsLog ==
    ASSUME LossInv, NEW w \in Writers, NEW e \in Entries, WriteHeader(w, e)
    PROVE  LogOK'
<1>1. PICK len : len = EntrySize(e)
  OBVIOUS
<1>2. PICK bytes \in Seq(0 .. Base - 1) :
              /\ bytes = SubSeq(Image(e), 1, HEADER)
              /\ Len(bytes) = HEADER
              /\ bytes[1] = Len(e) % Base /\ bytes[2] = Len(e) \div Base
  BY HeaderBytes
<1>3. /\ mutex = Nobody /\ mutex' = w /\ copied' = HEADER /\ writing' = e
      /\ head' = FixUp(head, len)
      /\ r_off' = [r \in Readers |-> IF r \in readers THEN FixUp(r_off[r], len) ELSE 0]
      /\ overtaken' = overtaken \cup {r \in readers : r_off'[r] # r_off[r]}
      /\ orig' = IF orig[w] = NotWriting THEN [orig EXCEPT ![w] = w_off] ELSE orig
      /\ DoWrite(bytes)
      /\ readers' = readers /\ faults' = faults
  BY <1>1, <1>2 DEF WriteHeader
<1>4. w # Nobody /\ Size \in Nat \ {0}
  BY LoggerAssumption
<1>5. len \in Nat /\ len > 2 /\ 2 * len <= Size
  BY <1>1, ImageIs DEF HEADER
<1>6. /\ Base_off = w_off /\ Base_off' = Base_off /\ w_off' \in 0 .. Size - 1
      /\ get_entry_len(Base_off)' = EntrySize(e) /\ Written'
  BY <1>2, <1>3, HeaderWritten
<1>7. WaitTypes /\ LogTypes /\ RingOK /\ LagOK /\ readers \subseteq Readers
  BY DEF LossInv, WaitInv, WaitTypes
<1>8. PICK base \in 0 .. Size - 1 : base = Base_off
  BY <1>6, <1>7 DEF WaitTypes
<1>9. PICK B \in SUBSET (0 .. Size - 1) : Ring(B)
  BY <1>7 DEF RingOK
<1>10. base \in B /\ head \in B /\ Laid(B) /\ \A r \in readers : r_off[r] \in B
  BY <1>8, <1>9 DEF Ring
<1>. DEFINE A == {b \in B : Dist(b, base) + len < Size}
<1>11. ASSUME NEW off \in B
       PROVE  /\ FixUp(off, len) \in A /\ FixUp(off, len) \in 0 .. Size - 1
              /\ Dist(FixUp(off, len), base) + len < Size
              /\ Dist(FixUp(off, len), base) <= Dist(off, base)
              /\ FixUp(off, len) # off => Dist(off, base) >= Size - len
  <2>1. len >= 1
    BY <1>5
  <2>2. /\ FixUp(off, len) \in B
        /\ Dist(FixUp(off, len), Base_off) + len < Size
        /\ Dist(FixUp(off, len), Base_off) <= Dist(off, Base_off)
        /\ FixUp(off, len) # off => Dist(off, Base_off) >= Size - len
    <3>1. PICK T : T = B \X B
      OBVIOUS
    <3>2. Onward(B, T)
      BY <1>8, <1>10, <3>1 DEF Onward, Laid
    <3>. QED
      BY <1>3, <1>5, <1>7, <1>8, <1>10, <2>1, <3>2, FixUpLands
  <2>. QED
    BY <1>8, <2>2
<1>12. Laid(A)'
  <2>1. Laid({b \in B : Dist(b, Base_off) + len < Size})'
    BY <1>2, <1>3, <1>5, <1>6, <1>9, PlacesLeft DEF HEADER
  <2>2. {b \in B : Dist(b, Base_off) + len < Size}' = A
    BY <1>6, <1>8
  <2>. QED
    BY <1>6, <1>8, <2>1, <2>2
<1>13. base \in A
  <2>1. Dist(base, base) = 0
    BY <1>4, DistIs
  <2>. QED
    BY <1>4, <1>5, <1>10, <2>1
<1>14. \A r \in readers : r_off'[r] = FixUp(r_off[r], len) /\ r_off'[r] \in A
  BY <1>3, <1>7, <1>10, <1>11
<1>15. A \in SUBSET (0 .. Size - 1) /\ \A b \in A : Dist(b, base) + len < Size
  OBVIOUS
<1>16. head' \in A
  BY <1>3, <1>10, <1>11
<1>17. RingOK'
  <2>. HIDE DEF A
  <2>1. Ring(A)'
    BY <1>1, <1>3, <1>6, <1>8, <1>12, <1>13, <1>14, <1>15, <1>16 DEF Ring, Clear
  <2>. QED
    BY <1>15, <2>1 DEF RingOK
<1>18. WriteOK'
  <2>1. 2 \in 2 .. EntrySize(e)
    BY <1>1, <1>5
  <2>. QED
    BY <1>3, <1>6, <2>1 DEF WriteOK, HEADER
<1>19. /\ sign' = (sign + 2) % Size
       /\ w_off' = logger_offset(w_off + 2)
       /\ lag' = [r \in Readers |-> IF r \in readers THEN Capped(lag[r] + 2) ELSE 0]
  BY <1>2, <1>3 DEF DoWrite, HEADER
<1>20. LogTypes'
  <2>1. buffer' \in [0 .. Size - 1 -> 0 .. Base - 1]
    BY <1>2, <1>3, <1>7, BufferTypes
  <2>2. head' \in 0 .. Size - 1 /\ r_off' \in [Readers -> 0 .. Size - 1]
    <3>1. \A r \in readers : FixUp(r_off[r], len) \in 0 .. Size - 1
      BY <1>10, <1>11
    <3>2. 0 \in 0 .. Size - 1
      BY <1>4
    <3>3. r_off' \in [Readers -> 0 .. Size - 1]
      BY <1>3, <3>1, <3>2
    <3>. QED
      BY <1>3, <1>10, <1>11, <3>3
  <2>3. sign' \in 0 .. Size - 1
    BY <1>4, <1>7, <1>19 DEF LogTypes
  <2>4. lag' \in [Readers -> Int]
    BY <1>4, <1>7, <1>19 DEF LogTypes, Capped
  <2>5. orig' \in [Writers -> NotWriting .. Size - 1]
    BY <1>3, <1>4, <1>7 DEF LogTypes, WaitTypes, NotWriting
  <2>. QED
    BY <1>3, <1>7, <2>1, <2>2, <2>3, <2>4, <2>5 DEF LogTypes
<1>21. LagOK'
  <2>. HIDE DEF A
  <2>1. ToCome' = len - 2
    BY <1>1, <1>3, <1>4 DEF ToCome, HEADER
  <2>2. ASSUME NEW r \in readers
        PROVE  /\ lag'[r] <= Size /\ lag'[r] - Behind(r)' > -Size
               /\ faults = 0 => lag'[r] >= Behind(r)'
               /\ faults = 0 /\ r \in overtaken' => lag'[r] + ToCome' >= Size
    <3>1. PICK d \in 0 .. Size - 1, n \in 0 .. Size - 1 :
              /\ d = Dist(r_off[r], base) /\ n = Dist(r_off'[r], base)
      <4>1. Dist(r_off[r], base) \in 0 .. Size - 1
        BY <1>10, DistIs
      <4>2. Dist(r_off'[r], base) \in 0 .. Size - 1
        BY <1>14, <1>15, DistIs
      <4>. QED
        BY <4>1, <4>2
    <3>2. n + len < Size /\ n <= d /\ (r_off'[r] # r_off[r] => d >= Size - len)
      BY <1>10, <1>11, <1>14, <3>1
    <3>3. Behind(r)' = n + 2
      BY <1>3, <1>6, <1>8, <3>1 DEF Behind, HEADER
    <3>4. Behind(r) = d /\ ToCome = 0
      BY <1>3, <1>7, <1>8, <3>1 DEF Behind, ToCome, WaitTypes
    <3>5. PICK l \in Int : l = lag[r]
      BY <1>7 DEF LogTypes
    <3>6. lag'[r] = IF l + 2 > Size THEN Size ELSE l + 2
      BY <1>7, <1>19, <3>5 DEF Capped
    <3>7. /\ l <= Size /\ l - d > -Size
          /\ faults = 0 => l >= d
          /\ faults = 0 /\ r \in overtaken => l >= Size
      BY <1>7, <3>4, <3>5 DEF LagOK
    <3>8. r \in overtaken' => r \in overtaken \/ d >= Size - len
      BY <1>3, <3>2
    <3>9. PICK k \in Int : k = lag'[r] /\ k = IF l + 2 > Size THEN Size ELSE l + 2
      BY <1>4, <3>6
    <3>10. l <= Size /\ l - d > -Size /\ n + len < Size /\ n <= d
      BY <3>2, <3>7
    <3>11. k <= Size /\ k - (n + 2) > -Size /\ (l >= d => k >= n + 2)
      BY <1>4, <1>5, <3>9, <3>10
    <3>12. d >= Size - len /\ l >= d => k + (len - 2) >= Size
      BY <1>4, <1>5, <3>9
    <3>13. l >= Size => k + (len - 2) >= Size
      BY <1>4, <1>5, <3>9
    <3>. QED
      BY <2>1, <3>3, <3>7, <3>8, <3>9, <3>11, <3>12, <3>13
  <2>3. \A r \in Readers \ readers : lag'[r] = 0
    BY <1>19
  <2>4. faults = 0 => sign' = w_off'
    BY <1>7, <1>19 DEF LagOK, logger_offset
  <2>5. overtaken' \subseteq readers
    BY <1>3, <1>7 DEF LogTypes
  <2>. QED
    BY <1>3, <1>7, <2>2, <2>3, <2>4, <2>5 DEF LagOK
<1>. QED
  BY <1>17, <1>18, <1>20, <1>21 DEF LogOK

\* A segment of the payload: the header and the other entries stay.
LEMMA SegmentKeepsLog ==
    ASSUME LossInv, NEW w \in Writers, WriteSegment(w)
    PROVE  /\ LogOK' /\ Base_off' = Base_off
           /\ \A B \in SUBSET (0 .. Size - 1) : Ring(B) => EntriesStay(B)
<1>1. PICK c, len : c = copied /\ len = EntrySize(writing)
  OBVIOUS
<1>2. PICK byte : byte = Image(writing)[c + 1]
  OBVIOUS
<1>3. /\ mutex = w /\ c < len
      /\ DoWrite(<<byte>>)
      /\ copied' = c + 1
      /\ UNCHANGED <<head, readers, r_off, overtaken, mutex, orig, writing, faults>>
  BY <1>1, <1>2 DEF WriteSegment
<1>4. w # Nobody /\ Size \in Nat \ {0}
  BY LoggerAssumption
<1>5. WaitTypes /\ LogTypes /\ WriteOK /\ RingOK /\ LagOK /\ readers \subseteq Readers
  BY DEF LossInv, WaitInv, WaitTypes
<1>6. /\ writing \in Entries /\ c \in HEADER .. len
      /\ get_entry_len(Base_off) = len
  BY <1>1, <1>3, <1>4, <1>5 DEF WriteOK
<1>7. len \in Nat /\ len > 2 /\ 2 * len <= Size /\ c \in Nat /\ c >= 2 /\ c + 1 <= len
  <2>1. len \in Nat /\ len > 2 /\ 2 * len <= Size
    BY <1>1, <1>6, ImageIs DEF HEADER
  <2>. QED
    BY <1>3, <1>6, <2>1 DEF HEADER
<1>8. byte \in 0 .. Base - 1
  <2>1. Image(writing) \in Seq(0 .. Base - 1) /\ Len(Image(writing)) = len
    BY <1>1, <1>6, ImageIs
  <2>2. c + 1 \in 1 .. Len(Image(writing))
    BY <1>7, <2>1
  <2>. QED
    BY <1>2, <2>1, <2>2, ElementOfSeq
<1>9. PICK bytes \in Seq(0 .. Base - 1) : bytes = <<byte>> /\ Len(bytes) = 1
  <2>1. <<byte>> \in Seq(0 .. Base - 1) /\ Len(<<byte>>) = 1
    BY <1>8
  <2>. QED
    BY <2>1
<1>10. Base_off' = Base_off /\ w_off' \in 0 .. Size - 1
  <2>1. DoWrite(bytes) /\ copied' = copied + Len(bytes) /\ Len(bytes) \in Nat
    BY <1>1, <1>3, <1>9
  <2>. QED
    BY <1>5, <2>1, WriteMoves
<1>11. PICK base \in 0 .. Size - 1 : base = Base_off /\ w_off = logger_offset(base + c)
  <2>1. copied <= Size
    BY <1>1, <1>4, <1>7
  <2>. QED
    BY <1>1, <1>5, <2>1, PlaceIs
<1>12. ASSUME NEW b \in 0 .. Size - 1, NEW d \in Nat, d = Dist(b, base), d + len < Size
       PROVE  /\ Dist(w_off, b) = Size - d - c
              /\ Dist(w_off, b) >= Len(bytes) /\ Len(bytes) \in Nat
  <2>1. Dist(b, base) + c < Size /\ c > 0
    BY <1>4, <1>7, <1>12
  <2>2. Dist(w_off, b) = Size - d - c
    BY <1>7, <1>11, <1>12, <2>1, WayRound
  <2>. QED
    BY <1>4, <1>7, <1>9, <1>12, <2>2
<1>13. ASSUME NEW B \in SUBSET (0 .. Size - 1), Ring(B)
       PROVE  /\ base \in B /\ head \in B /\ Laid(B) /\ \A r \in readers : r_off[r] \in B
              /\ \A b \in B : Dist(b, base) + len < Size
  BY <1>1, <1>3, <1>4, <1>11, <1>13 DEF Ring, Clear
<1>14. ASSUME NEW B \in SUBSET (0 .. Size - 1), Ring(B), NEW b \in B \ {base}
       PROVE  get_entry_len(b)' = get_entry_len(b) /\ Payload(b)' = Payload(b)
  <2>1. PICK d \in Nat : d = Dist(b, base)
    <3>1. Dist(b, base) \in 0 .. Size - 1
      BY DistIs
    <3>. QED
      BY <3>1
  <2>2. PICK l \in Nat : l = get_entry_len(b) /\ l <= d
    BY <1>5, <1>11, <1>13, <1>14, <2>1, LenTypes DEF Laid
  <2>3. d + len < Size
    BY <1>13, <1>14, <2>1
  <2>4. /\ Dist(w_off, b) = Size - d - c
        /\ Dist(w_off, b) >= Len(bytes) /\ Len(bytes) \in Nat
    BY <1>12, <2>1, <2>3
  <2>5. Dist(w_off, b) + get_entry_len(b) <= Size
    BY <1>4, <1>7, <2>2, <2>4
  <2>. QED
    BY <1>3, <1>5, <1>9, <2>4, <2>5, EntryKept
<1>15. PICK B \in SUBSET (0 .. Size - 1) : Ring(B)
  BY <1>5 DEF RingOK
<1>16. Laid(B)'
  BY <1>10, <1>11, <1>13, <1>14, <1>15 DEF Laid
<1>17. RingOK'
  <2>1. Ring(B)'
    BY <1>1, <1>3, <1>10, <1>11, <1>13, <1>15, <1>16 DEF Ring, Clear
  <2>. QED
    BY <2>1 DEF RingOK
<1>18. WriteOK'
  <2>1. get_entry_len(Base_off)' = len
    <3>1. Dist(base, base) = 0
      BY <1>4, DistIs
    <3>2. Dist(w_off, base) = Size - 0 - c /\ Dist(w_off, base) >= Len(bytes)
          /\ Len(bytes) \in Nat
      BY <1>4, <1>7, <1>12, <3>1
    <3>3. Dist(w_off, base) + 1 < Size
      BY <1>4, <1>7, <3>2
    <3>4. get_entry_len(base)' = get_entry_len(base)
      BY <1>3, <1>5, <1>9, <3>2, <3>3, LenKept
    <3>. QED
      BY <1>6, <1>10, <1>11, <3>4 DEF get_entry_len
  <2>2. c + 1 \in 2 .. len
    BY <1>7
  <2>3. ASSUME NEW i \in 1 .. c + 1
        PROVE  buffer'[logger_offset(base + (i - 1))] = Image(writing)[i]
    <3>1. PICK o \in 0 .. Size - 1 : o = logger_offset(base + (i - 1))
      BY <1>7, OffsetTypes
    <3>2. CASE i = c + 1
      <4>1. o = w_off
        <5>1. i - 1 = c
          BY <1>7, <3>2
        <5>. QED
          BY <1>11, <3>1, <5>1
      <4>2. Dist(o, o) = 0
        BY <1>4, DistIs
      <4>3. buffer'[o] = IF 0 + 1 <= Len(bytes) THEN bytes[0 + 1] ELSE buffer[o]
        BY <1>3, <1>9, <4>1, <4>2, BytesAre
      <4>4. buffer'[o] = byte
        BY <1>9, <4>3
      <4>. QED
        BY <1>2, <3>1, <3>2, <4>4
    <3>3. CASE i \in 1 .. c
      <4>1. PICK n \in Nat : n = i - 1 /\ n < c /\ c - n \in Nat
        BY <1>7, <3>3
      <4>2. w_off = logger_offset(o + (c - n))
        <5>1. n + (c - n) <= Size /\ n + (c - n) = c
          BY <1>4, <1>7, <4>1
        <5>2. logger_offset(logger_offset(base + n) + (c - n)) = logger_offset(base + (n + (c - n)))
          BY <4>1, <5>1, TwoSteps
        <5>. QED
          BY <1>11, <3>1, <4>1, <5>1, <5>2
      <4>3. Dist(o, o) = 0
        BY <1>4, DistIs
      <4>4. Dist(w_off, o) = Size - 0 - (c - n)
        <5>1. Dist(o, o) + (c - n) < Size /\ c - n > 0
          BY <1>4, <1>7, <4>1, <4>3
        <5>. QED
          BY <4>1, <4>2, <4>3, <5>1, WayRound
      <4>5. ~ (Dist(w_off, o) + 1 <= Len(bytes))
        BY <1>4, <1>7, <1>9, <4>1, <4>4
      <4>6. buffer'[o] = buffer[o]
        BY <1>3, <1>9, <4>5, BytesAre
      <4>7. buffer[logger_offset(base + (i - 1))] = Image(writing)[i]
        BY <1>1, <1>3, <1>4, <1>5, <1>11, <3>3 DEF WriteOK, Written
      <4>. QED
        BY <3>1, <4>6, <4>7
    <3>. QED
      BY <1>7, <3>2, <3>3
  <2>4. Written'
    BY <1>3, <1>10, <1>11, <2>3 DEF Written, logger_offset
  <2>. QED
    BY <1>1, <1>3, <1>6, <2>1, <2>2, <2>4 DEF WriteOK, HEADER
<1>19. /\ sign' = (sign + 1) % Size
       /\ w_off' = logger_offset(w_off + 1)
       /\ lag' = [r \in Readers |-> IF r \in readers THEN Capped(lag[r] + 1) ELSE 0]
  BY <1>3, <1>9 DEF DoWrite
<1>20. LogTypes'
  <2>1. buffer' \in [0 .. Size - 1 -> 0 .. Base - 1]
    BY <1>3, <1>5, <1>9, BufferTypes
  <2>2. sign' \in 0 .. Size - 1
    BY <1>4, <1>5, <1>19 DEF LogTypes
  <2>3. lag' \in [Readers -> Int]
    BY <1>4, <1>5, <1>19 DEF LogTypes, Capped
  <2>. QED
    BY <1>3, <1>5, <2>1, <2>2, <2>3 DEF LogTypes
<1>21. LagOK'
  <2>1. ToCome' = len - (c + 1) /\ ToCome = len - c
    BY <1>1, <1>3, <1>4 DEF ToCome
  <2>2. ASSUME NEW r \in readers
        PROVE  /\ lag'[r] <= Size /\ lag'[r] - Behind(r)' > -Size
               /\ faults = 0 => lag'[r] >= Behind(r)'
               /\ faults = 0 /\ r \in overtaken' => lag'[r] + ToCome' >= Size
    <3>1. PICK d \in 0 .. Size - 1 : d = Dist(r_off[r], base)
      BY <1>13, <1>15, DistIs
    <3>2. d + len < Size
      BY <1>13, <1>15, <3>1
    <3>3. Behind(r)' = d + (c + 1)
      BY <1>3, <1>10, <1>11, <3>1 DEF Behind
    <3>4. Behind(r) = d + c
      BY <1>1, <1>11, <3>1 DEF Behind
    <3>5. PICK l \in Int : l = lag[r]
      BY <1>5 DEF LogTypes
    <3>6. PICK k \in Int : k = lag'[r] /\ k = IF l + 1 > Size THEN Size ELSE l + 1
      BY <1>4, <1>5, <1>19, <3>5 DEF Capped
    <3>7. /\ l <= Size /\ l - (d + c) > -Size
          /\ faults = 0 => l >= d + c
          /\ faults = 0 /\ r \in overtaken => l + (len - c) >= Size
      BY <1>5, <2>1, <3>4, <3>5 DEF LagOK
    <3>8. l - (d + c) > -Size
      BY <3>7
    <3>9. k <= Size /\ k - (d + (c + 1)) > -Size /\ (l >= d + c => k >= d + (c + 1))
      BY <1>4, <1>7, <3>2, <3>6, <3>8
    <3>10. l + (len - c) >= Size => k + (len - (c + 1)) >= Size
      BY <1>4, <1>7, <3>6
    <3>. QED
      BY <1>3, <2>1, <3>3, <3>6, <3>7, <3>9, <3>10
  <2>3. \A r \in Readers \ readers : lag'[r] = 0
    BY <1>19
  <2>4. faults = 0 => sign' = w_off'
    BY <1>5, <1>19 DEF LagOK, logger_offset
  <2>. QED
    BY <1>3, <1>5, <2>2, <2>3, <2>4 DEF LagOK, LogTypes
<1>22. \A A \in SUBSET (0 .. Size - 1) : Ring(A) => EntriesStay(A)
  BY <1>11, <1>14 DEF EntriesStay
<1>. QED
  BY <1>10, <1>17, <1>18, <1>20, <1>21, <1>22 DEF LogOK

\* When the whole entry is there it can be read.
LEMMA PayloadWritten ==
    ASSUME LossInv, mutex # Nobody, copied = EntrySize(writing)
    PROVE  Payload(Base_off) = writing
<1>1. PICK e, len : e = writing /\ len = EntrySize(e)
  OBVIOUS
<1>2. /\ e \in Entries /\ get_entry_len(Base_off) = len
      /\ \A i \in 1 .. len : buffer[logger_offset(Base_off + (i - 1))] = Image(e)[i]
  BY <1>1 DEF LossInv, WriteOK, Written
<1>3. e \in Seq(0 .. Base - 1) /\ Len(e) \in Nat /\ len = 2 + Len(e)
  BY <1>1, <1>2, LoggerAssumption DEF EntrySize, HEADER
<1>4. PICK base \in Int : base = Base_off
  <2>1. w_off \in Int /\ copied \in Int
    BY DEF LossInv, WaitInv, WaitTypes
  <2>2. Base_off \in 0 .. Size - 1
    BY <2>1, OffsetTypes DEF Base_off
  <2>. QED
    BY <2>2
<1>5. ASSUME NEW i \in 1 .. Len(e)
      PROVE  buffer[logger_offset(base + HEADER + i - 1)] = e[i]
  <2>1. PICK k \in 1 .. len : k = HEADER + i
    BY <1>3 DEF HEADER
  <2>2. base + HEADER + i - 1 = base + (k - 1)
    BY <1>3, <1>4, <2>1 DEF HEADER
  <2>3. Image(e)[HEADER + i] = e[i]
    BY <1>2, ImageIs
  <2>. QED
    BY <1>2, <1>4, <2>1, <2>2, <2>3
<1>6. Payload(Base_off) = [i \in 1 .. Len(e) |-> buffer[logger_offset(base + HEADER + i - 1)]]
  <2>1. len - HEADER = Len(e)
    BY <1>3 DEF HEADER
  <2>. QED
    BY <1>2, <1>4, <2>1 DEF Payload
<1>7. Payload(Base_off) = [i \in 1 .. Len(e) |-> e[i]]
  BY <1>5, <1>6
<1>. QED
  BY <1>1, <1>3, <1>7

\* The entry that is complete is one more.
LEMMA EndKeepsLog ==
    ASSUME LossInv, NEW w \in Writers, WriteEnd(w)
    PROVE  LogOK'
<1>1. PICK len : len = EntrySize(writing)
  OBVIOUS
<1>2. /\ mutex = w /\ copied = len
      /\ mutex' = Nobody /\ copied' = 0 /\ writing' = NoEntry
      /\ orig' = [orig EXCEPT ![w] = NotWriting]
      /\ UNCHANGED <<buffer, w_off, head, sign, readers, r_off, lag, overtaken, faults>>
  BY <1>1 DEF WriteEnd, Unlock, logVars
<1>3. w # Nobody /\ Size \in Nat \ {0}
  BY LoggerAssumption
<1>4. WaitTypes /\ LogTypes /\ WriteOK /\ RingOK /\ LagOK
  BY DEF LossInv, WaitInv
<1>5. writing \in Entries /\ get_entry_len(Base_off) = len
  BY <1>1, <1>2, <1>3, <1>4 DEF WriteOK
<1>6. len \in Nat /\ len > 2 /\ 2 * len <= Size
  BY <1>1, <1>5, ImageIs DEF HEADER
<1>7. PICK base \in 0 .. Size - 1 : base = Base_off /\ w_off = logger_offset(base + len)
  <2>1. copied <= Size
    BY <1>2, <1>3, <1>6
  <2>. QED
    BY <1>2, <1>4, <2>1, PlaceIs
<1>8. PICK next \in 0 .. Size - 1 : next = w_off
  BY <1>4 DEF WaitTypes
<1>9. Base_off' = next
  <2>1. Base_off' = logger_offset(w_off' - copied')
    BY DEF Base_off, logger_offset
  <2>2. logger_offset(next - 0) = next
    BY <1>3, OffsetNear
  <2>. QED
    BY <1>2, <1>8, <2>1, <2>2
<1>10. PICK B \in SUBSET (0 .. Size - 1) : Ring(B)
  BY <1>4 DEF RingOK
<1>11. /\ base \in B /\ head \in B /\ Laid(B) /\ \A r \in readers : r_off[r] \in B
       /\ \A b \in B : Dist(b, base) + len < Size
  BY <1>1, <1>2, <1>3, <1>7, <1>10 DEF Ring, Clear
<1>12. ASSUME NEW b \in B
       PROVE  /\ Dist(b, base) \in Nat
              /\ Dist(b, next) = Dist(b, base) + len
  <2>1. Dist(b, base) \in 0 .. Size - 1
    BY DistIs
  <2>. QED
    BY <1>6, <1>7, <1>8, <1>11, <2>1, Farther
<1>13. \A b \in B : get_entry_len(b)' = get_entry_len(b) /\ Payload(b)' = Payload(b)
  BY <1>2, SameBuffer
<1>14. ASSUME NEW b \in B \ {next}
       PROVE  /\ get_entry_len(b)' <= Dist(b, next)
              /\ logger_offset(b + get_entry_len(b)') \in B \cup {next}
              /\ Payload(b)' \in Entries
  <2>1. CASE b = base
    <3>1. Dist(base, base) = 0
      BY <1>3, DistIs
    <3>2. Payload(base) \in Entries
      BY <1>1, <1>2, <1>3, <1>5, <1>7, PayloadWritten
    <3>. QED
      BY <1>5, <1>6, <1>7, <1>8, <1>12, <1>13, <2>1, <3>1, <3>2
  <2>2. CASE b # base
    <3>1. PICK l \in Nat : l = get_entry_len(b)
      BY <1>4, LenTypes
    <3>2. l <= Dist(b, base) /\ logger_offset(b + l) \in B /\ Payload(b) \in Entries
      BY <1>7, <1>11, <2>2, <3>1 DEF Laid
    <3>. QED
      BY <1>6, <1>12, <1>13, <3>1, <3>2
  <2>. QED
    BY <2>1, <2>2
<1>15. RingOK'
  <2>. DEFINE A == B \cup {next}
  <2>1. A \in SUBSET (0 .. Size - 1) /\ next \in A /\ A \ {next} \subseteq B \ {next}
    OBVIOUS
  <2>2. head' \in A /\ \A r \in readers' : r_off'[r] \in A
    BY <1>2, <1>11
  <2>3. Laid(A)'
    BY <1>9, <1>14 DEF Laid
  <2>. HIDE DEF A
  <2>4. Ring(A)'
    BY <1>2, <1>9, <2>1, <2>2, <2>3 DEF Ring
  <2>. QED
    BY <2>1, <2>4 DEF RingOK
<1>16. WriteOK'
  BY <1>2 DEF WriteOK
<1>17. LogTypes'
  BY <1>2, <1>3, <1>4 DEF LogTypes, NotWriting
<1>18. LagOK'
  <2>1. ToCome = 0 /\ ToCome' = 0
    BY <1>1, <1>2, <1>3, <1>6 DEF ToCome
  <2>2. \A r \in readers : Behind(r)' = Behind(r)
    <3>1. ASSUME NEW r \in readers PROVE Behind(r)' = Behind(r)
      <4>1. Behind(r) = Dist(r_off[r], base) + len
        BY <1>2, <1>7 DEF Behind
      <4>2. Behind(r)' = Dist(r_off[r], next) + 0
        BY <1>2, <1>9 DEF Behind
      <4>3. r_off[r] \in B
        BY <1>11
      <4>4. Dist(r_off[r], base) \in Nat /\ Dist(r_off[r], next) = Dist(r_off[r], base) + len
        BY <1>12, <4>3
      <4>. QED
        BY <1>6, <4>1, <4>2, <4>4
    <3>. QED
      BY <3>1
  <2>. QED
    BY <1>2, <1>4, <2>1, <2>2 DEF LagOK
<1>. QED
  BY <1>15, <1>16, <1>17, <1>18 DEF LogOK

\* A write that is taken back leaves the log as it was before.
LEMMA FaultKeepsLog ==
    ASSUME LossInv, ~ StaleFaults, NEW w \in Writers, WriteFault(w)
    PROVE  LogOK'
<1>1. PICK base \in 0 .. Size - 1 : base = Base_off
  <2>1. w_off \in Int /\ copied \in Int
    BY DEF LossInv, WaitInv, WaitTypes
  <2>. QED
    BY <2>1, OffsetTypes DEF Base_off
<1>2. /\ mutex = w /\ w_off' = base /\ faults < MaxFaults /\ faults' = faults + 1
      /\ mutex' = Nobody /\ copied' = 0 /\ writing' = NoEntry
      /\ orig' = [orig EXCEPT ![w] = NotWriting]
      /\ UNCHANGED <<buffer, head, sign, readers, r_off, lag, overtaken>>
  BY <1>1 DEF WriteFault, Unlock, readerVars
<1>3. w # Nobody /\ Size \in Nat \ {0} /\ MaxFaults \in Nat
  BY LoggerAssumption
<1>4. LogTypes /\ RingOK /\ LagOK /\ copied \in Nat
  BY DEF LossInv, WaitInv, WaitTypes
<1>5. Base_off' = base
  <2>1. Base_off' = logger_offset(w_off' - copied')
    BY DEF Base_off, logger_offset
  <2>2. logger_offset(base - 0) = base
    BY <1>3, OffsetNear
  <2>. QED
    BY <1>2, <2>1, <2>2
<1>6. PICK B \in SUBSET (0 .. Size - 1) : Ring(B)
  BY <1>4 DEF RingOK
<1>7. RingOK'
  <2>1. \A b \in B : get_entry_len(b)' = get_entry_len(b) /\ Payload(b)' = Payload(b)
    BY <1>2, SameBuffer
  <2>2. Laid(B)'
    BY <1>1, <1>5, <1>6, <2>1 DEF Ring, Laid
  <2>3. Ring(B)'
    BY <1>1, <1>2, <1>5, <1>6, <2>2 DEF Ring
  <2>. QED
    BY <2>3 DEF RingOK
<1>8. WriteOK'
  BY <1>2 DEF WriteOK
<1>9. LogTypes'
  <2>1. faults' \in 0 .. MaxFaults
    BY <1>2, <1>3, <1>4 DEF LogTypes
  <2>. QED
    BY <1>2, <1>3, <1>4, <2>1 DEF LogTypes, NotWriting
<1>10. LagOK'
  <2>1. faults' # 0
    BY <1>2, <1>4 DEF LogTypes
  <2>2. ASSUME NEW r \in readers PROVE lag[r] - Behind(r)' > -Size
    <3>1. PICK d \in 0 .. Size - 1 : d = Dist(r_off[r], base)
      <4>1. r_off[r] \in 0 .. Size - 1
        BY <1>6 DEF Ring
      <4>. QED
        BY <4>1, DistIs
    <3>2. Behind(r)' = d /\ Behind(r) = d + copied
      BY <1>1, <1>2, <1>5, <3>1 DEF Behind
    <3>3. lag[r] \in Int /\ lag[r] - (d + copied) > -Size
      BY <1>4, <3>2 DEF LagOK, LogTypes, LossInv, WaitInv, WaitTypes
    <3>. QED
      BY <1>3, <1>4, <3>1, <3>2, <3>3
  <2>. QED
    BY <1>2, <1>4, <2>1, <2>2 DEF LagOK
<1>. QED
  BY <1>7, <1>8, <1>9, <1>10 DEF LogOK

\* The steps that only change where a task is.
LEMMA SameLog ==
    ASSUME LossInv,
           orig' \in [Writers -> NotWriting .. Size - 1],
           UNCHANGED <<buffer, w_off, head, sign, readers, r_off, lag, overtaken,
                       mutex, writing, copied, faults>>
    PROVE  LogOK'
<1>1. Base_off' = Base_off /\ ToCome' = ToCome
  BY DEF Base_off, ToCome
<1>2. \A b : get_entry_len(b)' = get_entry_len(b) /\ Payload(b)' = Payload(b)
  BY SameBuffer
<1>3. \A r : Behind(r)' = Behind(r)
  BY <1>1 DEF Behind
<1>4. LogTypes'
  BY DEF LossInv, LogTypes
<1>5. WriteOK'
  <2>1. get_entry_len(Base_off)' = get_entry_len(Base_off)
    BY <1>1 DEF get_entry_len
  <2>2. Written' <=> Written
    BY <1>1 DEF Written, logger_offset
  <2>. QED
    BY <2>1, <2>2 DEF LossInv, WriteOK
<1>6. RingOK'
  <2>1. PICK B \in SUBSET (0 .. Size - 1) : Ring(B)
    BY DEF LossInv, RingOK
  <2>2. Laid(B)'
    BY <1>1, <1>2, <2>1 DEF Ring, Laid
  <2>3. Ring(B)'
    BY <1>1, <2>1, <2>2 DEF Ring, Clear
  <2>. QED
    BY <2>3 DEF RingOK
<1>7. LagOK'
  BY <1>1, <1>3 DEF LossInv, LagOK
<1>. QED
  BY <1>4, <1>5, <1>6, <1>7 DEF LogOK

\* A step that moves one reader, to where an entry begins.
LEMMA ReaderMoves ==
    ASSUME LossInv, NEW r \in Readers,
           UNCHANGED <<buffer, w_off, head, sign, mutex, orig, writing, copied, faults>>,
           NEW B \in SUBSET (0 .. Size - 1), Ring(B),
           readers' \subseteq Readers, overtaken' \subseteq readers',
           r_off' \in [Readers -> 0 .. Size - 1], lag' \in [Readers -> Int],
           \A s \in Readers \ {r} : /\ s \in readers' <=> s \in readers
                                    /\ s \in overtaken' <=> s \in overtaken
                                    /\ r_off'[s] = r_off[s] /\ lag'[s] = lag[s],
           r \notin readers' => lag'[r] = 0,
           r \in readers' => /\ r_off'[r] \in B
                             /\ lag'[r] <= Size /\ lag'[r] - Behind(r)' > -Size
                             /\ faults = 0 => lag'[r] >= Behind(r)' /\ r \notin overtaken'
    PROVE  LogOK'
<1>1. Base_off' = Base_off /\ ToCome' = ToCome
  BY DEF Base_off, ToCome
<1>2. \A b : get_entry_len(b)' = get_entry_len(b) /\ Payload(b)' = Payload(b)
  BY SameBuffer
<1>3. \A s \in Readers \ {r} : Behind(s)' = Behind(s)
  BY <1>1 DEF Behind
<1>4. LogTypes'
  BY DEF LossInv, LogTypes
<1>5. WriteOK'
  <2>1. get_entry_len(Base_off)' = get_entry_len(Base_off)
    BY <1>1 DEF get_entry_len
  <2>2. Written' <=> Written
    BY <1>1 DEF Written, logger_offset
  <2>. QED
    BY <2>1, <2>2 DEF LossInv, WriteOK
<1>6. RingOK'
  <2>1. Laid(B)'
    BY <1>1, <1>2 DEF Ring, Laid
  <2>2. Ring(B)'
    BY <1>1, <2>1 DEF Ring, Clear
  <2>. QED
    BY <2>2 DEF RingOK
<1>7. LagOK'
  <2>1. \A s \in Readers \ {r} :
           /\ IF s \in readers' THEN lag'[s] <= Size /\ lag'[s] - Behind(s)' > -Size
              ELSE lag'[s] = 0
           /\ faults = 0 => /\ s \in readers' => lag'[s] >= Behind(s)'
                            /\ s \in overtaken' => lag'[s] + ToCome' >= Size
    BY <1>1, <1>3 DEF LossInv, LagOK
  <2>2. faults = 0 => sign' = w_off'
    BY DEF LossInv, LagOK
  <2>. QED
    BY <2>1, <2>2 DEF LagOK
<1>. QED
  BY <1>4, <1>5, <1>6, <1>7 DEF LogOK

\* The lag that a reader is given at a place of the ring, with the mutex free.
LEMMA LagGiven ==
    ASSUME LossInv, mutex = Nobody, NEW off \in 0 .. Size - 1
    PROVE  /\ LagAt(off) \in 0 .. Size - 1
           /\ LagAt(off) <= Size /\ LagAt(off) - (Dist(off, Base_off) + copied) > -Size
           /\ faults = 0 => LagAt(off) >= Dist(off, Base_off) + copied
<1>1. Size \in Nat \ {0} /\ WaitTypes /\ copied = 0 /\ sign \in 0 .. Size - 1
  BY LoggerAssumption DEF LossInv, WaitInv, WaitTypes, LogTypes
<1>2. PICK base \in 0 .. Size - 1 : base = Base_off /\ base = w_off
  BY <1>1, FreeStart DEF WaitTypes
<1>3. PICK l \in 0 .. Size - 1 : l = LagAt(off)
  BY <1>1 DEF LagAt
<1>4. PICK d \in 0 .. Size - 1 : d = Dist(off, base)
  BY DistIs
<1>5. faults = 0 => l = d
  BY <1>2, <1>3, <1>4 DEF LossInv, LagOK, LagAt, Dist, logger_offset
<1>6. l <= Size /\ l - (d + 0) > -Size /\ (l = d => l >= d + 0)
  BY <1>1
<1>. QED
  BY <1>1, <1>2, <1>3, <1>4, <1>5, <1>6

LEMMA OpenKeepsLog ==
    ASSUME LossInv, NEW r \in Readers, LoggerOpen(r)
    PROVE  LogOK'
<1>1. /\ r \notin readers /\ mutex = Nobody
      /\ readers' = readers \cup {r}
      /\ r_off' = [r_off EXCEPT ![r] = head]
      /\ lag' = [lag EXCEPT ![r] = LagAt(head)]
      /\ overtaken' = overtaken
      /\ UNCHANGED <<buffer, w_off, head, sign, mutex, orig, writing, copied, faults>>
  BY DEF LoggerOpen, logVars, writerVars
<1>2. LogTypes /\ readers \subseteq Readers
  BY DEF LossInv, WaitInv, WaitTypes
<1>3. PICK B \in SUBSET (0 .. Size - 1) : Ring(B)
  BY DEF LossInv, RingOK
<1>4. head \in 0 .. Size - 1 /\ head \in B
  BY <1>3 DEF Ring
<1>5. /\ LagAt(head) \in 0 .. Size - 1
      /\ LagAt(head) <= Size /\ LagAt(head) - (Dist(head, Base_off) + copied) > -Size
      /\ faults = 0 => LagAt(head) >= Dist(head, Base_off) + copied
  BY <1>1, <1>4, LagGiven
<1>6. r_off'[r] = head /\ lag'[r] = LagAt(head)
  BY <1>1, <1>2 DEF LogTypes
<1>7. Behind(r)' = Dist(head, Base_off) + copied
  <2>1. Base_off' = Base_off
    BY <1>1 DEF Base_off
  <2>. QED
    BY <1>1, <1>6, <2>1 DEF Behind
<1>8. r_off' \in [Readers -> 0 .. Size - 1] /\ lag' \in [Readers -> Int]
  BY <1>1, <1>2, <1>4, <1>5 DEF LogTypes
<1>9. overtaken' \subseteq readers' /\ readers' \subseteq Readers /\ r \notin overtaken'
  BY <1>1, <1>2 DEF LogTypes
<1>10. \A s \in Readers \ {r} : /\ s \in readers' <=> s \in readers
                                /\ s \in overtaken' <=> s \in overtaken
                                /\ r_off'[s] = r_off[s] /\ lag'[s] = lag[s]
  BY <1>1, <1>2 DEF LogTypes
<1>11. /\ r_off'[r] \in B /\ r \in readers'
       /\ lag'[r] <= Size /\ lag'[r] - Behind(r)' > -Size
       /\ faults = 0 => lag'[r] >= Behind(r)' /\ r \notin overtaken'
  BY <1>1, <1>4, <1>5, <1>6, <1>7, <1>9
<1>. QED
  BY <1>1, <1>3, <1>8, <1>9, <1>10, <1>11, ReaderMoves

LEMMA ReleaseKeepsLog ==
    ASSUME LossInv, NEW r \in Readers, LoggerRelease(r)
    PROVE  LogOK'
<1>1. /\ readers' = readers \ {r}
      /\ r_off' = [r_off EXCEPT ![r] = 0]
      /\ lag' = [lag EXCEPT ![r] = 0]
      /\ overtaken' = overtaken \ {r}
      /\ UNCHANGED <<buffer, w_off, head, sign, mutex, orig, writing, copied, faults>>
  BY DEF LoggerRelease, logVars, writerVars
<1>2. LogTypes /\ readers \subseteq Readers /\ Size \in Nat \ {0}
  BY LoggerAssumption DEF LossInv, WaitInv, WaitTypes
<1>3. PICK B \in SUBSET (0 .. Size - 1) : Ring(B)
  BY DEF LossInv, RingOK
<1>4. r_off' \in [Readers -> 0 .. Size - 1] /\ lag' \in [Readers -> Int] /\ lag'[r] = 0
  BY <1>1, <1>2 DEF LogTypes
<1>5. overtaken' \subseteq readers' /\ readers' \subseteq Readers /\ r \notin readers'
  BY <1>1, <1>2 DEF LogTypes
<1>6. \A s \in Readers \ {r} : /\ s \in readers' <=> s \in readers
                               /\ s \in overtaken' <=> s \in overtaken
                               /\ r_off'[s] = r_off[s] /\ lag'[s] = lag[s]
  BY <1>1, <1>2 DEF LogTypes
<1>. QED
  BY <1>1, <1>3, <1>4, <1>5, <1>6, ReaderMoves

\* The warning takes the lag anew.
LEMMA WarningKeepsLog ==
    ASSUME LossInv, NEW r \in Readers, WarnOverflow(r)
    PROVE  LogOK'
<1>1. /\ reading[r] = "get" /\ mutex = Nobody
      /\ readers' = readers /\ r_off' = r_off
      /\ lag' = [lag EXCEPT ![r] = LagAt(r_off[r])]
      /\ overtaken' = overtaken \ {r}
      /\ UNCHANGED <<buffer, w_off, head, sign, mutex, orig, writing, copied, faults>>
  BY DEF WarnOverflow, logVars, writerVars
<1>2. LogTypes /\ readers \subseteq Readers /\ r \in readers
  BY <1>1 DEF LossInv, WaitInv, WaitTypes, Idle
<1>3. PICK B \in SUBSET (0 .. Size - 1) : Ring(B)
  BY DEF LossInv, RingOK
<1>4. PICK off \in 0 .. Size - 1 : off = r_off[r] /\ off \in B
  BY <1>2, <1>3 DEF Ring
<1>5. /\ LagAt(off) \in 0 .. Size - 1
      /\ LagAt(off) <= Size /\ LagAt(off) - (Dist(off, Base_off) + copied) > -Size
      /\ faults = 0 => LagAt(off) >= Dist(off, Base_off) + copied
  BY <1>1, LagGiven
<1>6. r_off'[r] = off /\ lag'[r] = LagAt(off)
  BY <1>1, <1>2, <1>4 DEF LogTypes
<1>7. Behind(r)' = Dist(off, Base_off) + copied
  <2>1. Base_off' = Base_off
    BY <1>1 DEF Base_off
  <2>. QED
    BY <1>1, <1>6, <2>1 DEF Behind
<1>8. r_off' \in [Readers -> 0 .. Size - 1] /\ lag' \in [Readers -> Int]
  BY <1>1, <1>2, <1>4, <1>5 DEF LogTypes
<1>9. overtaken' \subseteq readers' /\ readers' \subseteq Readers /\ r \notin overtaken'
  BY <1>1, <1>2 DEF LogTypes
<1>10. \A s \in Readers \ {r} : /\ s \in readers' <=> s \in readers
                                /\ s \in overtaken' <=> s \in overtaken
                                /\ r_off'[s] = r_off[s] /\ lag'[s] = lag[s]
  BY <1>1, <1>2 DEF LogTypes
<1>11. /\ r_off'[r] \in B /\ r \in readers'
       /\ lag'[r] <= Size /\ lag'[r] - Behind(r)' > -Size
       /\ faults = 0 => lag'[r] >= Behind(r)' /\ r \notin overtaken'
  BY <1>1, <1>2, <1>4, <1>5, <1>6, <1>7, <1>9
<1>. QED
  BY <1>1, <1>3, <1>8, <1>9, <1>10, <1>11, ReaderMoves

\* The reader goes on by the entry it has read.
LEMMA ReadKeepsLog ==
    ASSUME LossInv, NEW r \in Readers, ReadEntry(r)
    PROVE  LogOK'
<1>1. PICK off, len : off = r_off[r] /\ len = get_entry_len(off)
  OBVIOUS
<1>2. /\ reading[r] = "get" /\ mutex = Nobody /\ w_off # off
      /\ ~ (lag[r] >= Size)
      /\ readers' = readers /\ overtaken' = overtaken
      /\ r_off' = [r_off EXCEPT ![r] = logger_offset(r_off[r] + len)]
      /\ lag' = [lag EXCEPT ![r] = lag[r] - len]
      /\ UNCHANGED <<buffer, w_off, head, sign, mutex, orig, writing, copied, faults>>
  BY <1>1 DEF ReadEntry, IsOverflow, logVars, writerVars
<1>3. LogTypes /\ LagOK /\ WaitTypes /\ readers \subseteq Readers /\ r \in readers
  BY <1>2 DEF LossInv, WaitInv, WaitTypes, Idle
<1>4. PICK B \in SUBSET (0 .. Size - 1) : Ring(B)
  BY DEF LossInv, RingOK
<1>5. off \in 0 .. Size - 1 /\ off \in B /\ Laid(B)
  BY <1>1, <1>3, <1>4 DEF Ring
<1>6. PICK base \in 0 .. Size - 1 : base = Base_off /\ base = w_off
  BY <1>2, <1>3, FreeStart DEF WaitTypes
<1>7. PICK d \in 0 .. Size - 1 : d = Dist(off, base)
  BY <1>5, DistIs
<1>8. len \in Nat /\ len <= d /\ logger_offset(off + len) \in B
  BY <1>1, <1>2, <1>3, <1>5, <1>6, <1>7, LenTypes DEF Laid
<1>9. PICK to \in B : to = logger_offset(off + len) /\ Dist(to, base) = d - len
  <2>1. len \in 0 .. Dist(off, base)
    BY <1>7, <1>8
  <2>2. Dist(logger_offset(off + len), base) = Dist(off, base) - len
    BY <1>5, <2>1, Nearer
  <2>. QED
    BY <1>7, <1>8, <2>2
<1>10. PICK l \in Int : l = lag[r]
  BY <1>3 DEF LogTypes
<1>11. r_off'[r] = to /\ lag'[r] = l - len
  BY <1>1, <1>2, <1>3, <1>9, <1>10 DEF LogTypes
<1>12. Behind(r)' = d - len + copied /\ Behind(r) = d + copied
  <2>1. Base_off' = Base_off
    BY <1>2 DEF Base_off
  <2>. QED
    BY <1>1, <1>2, <1>6, <1>7, <1>9, <1>11, <2>1 DEF Behind
<1>13. copied = 0 /\ ToCome = 0
  BY <1>2, <1>3 DEF WaitTypes, ToCome
<1>14. /\ l < Size /\ l <= Size /\ l - d > -Size
       /\ faults = 0 => l >= d
       /\ faults = 0 => r \notin overtaken
  <2>1. /\ l <= Size /\ l - (d + 0) > -Size
        /\ faults = 0 => l >= d + 0
        /\ faults = 0 /\ r \in overtaken => l + 0 >= Size
    BY <1>3, <1>10, <1>12, <1>13 DEF LagOK
  <2>2. ~ (l >= Size)
    BY <1>2, <1>10
  <2>. QED
    BY <2>1, <2>2, LoggerAssumption
<1>15. l <= Size /\ l - d > -Size
  BY <1>14
<1>16. l - len <= Size /\ l - len - (d - len + 0) > -Size /\ (l >= d => l - len >= d - len + 0)
  BY <1>8, <1>15, LoggerAssumption
<1>17. r_off' \in [Readers -> 0 .. Size - 1] /\ lag' \in [Readers -> Int]
  <2>1. to \in 0 .. Size - 1 /\ l - len \in Int
    BY <1>8
  <2>. QED
    BY <1>1, <1>2, <1>3, <1>9, <1>10, <2>1 DEF LogTypes
<1>18. overtaken' \subseteq readers' /\ readers' \subseteq Readers
  BY <1>2, <1>3 DEF LogTypes
<1>19. \A s \in Readers \ {r} : /\ s \in readers' <=> s \in readers
                                /\ s \in overtaken' <=> s \in overtaken
                                /\ r_off'[s] = r_off[s] /\ lag'[s] = lag[s]
  BY <1>2, <1>3 DEF LogTypes
<1>20. /\ r_off'[r] \in B /\ r \in readers'
       /\ lag'[r] <= Size /\ lag'[r] - Behind(r)' > -Size
       /\ faults = 0 => lag'[r] >= Behind(r)' /\ r \notin overtaken'
  BY <1>2, <1>3, <1>9, <1>11, <1>12, <1>13, <1>14, <1>16
<1>. QED
  BY <1>2, <1>4, <1>17, <1>18, <1>19, <1>20, ReaderMoves

\* LOGGER_FLUSH_LOG.
LEMMA FlushKeepsLog ==
    ASSUME LossInv, FlushLog
    PROVE  LogOK'
<1>1. /\ mutex = Nobody /\ head' = w_off
      /\ r_off' = [r \in Readers |-> IF r \in readers THEN w_off ELSE 0]
      /\ overtaken' = {}
      /\ UNCHANGED <<buffer, w_off, sign, readers, lag, mutex, orig, writing, copied, faults>>
  BY DEF FlushLog, writerVars
<1>2. LogTypes /\ LagOK /\ WaitTypes /\ readers \subseteq Readers /\ copied = 0
      /\ Size \in Nat \ {0}
  BY <1>1, LoggerAssumption DEF LossInv, WaitInv, WaitTypes
<1>3. PICK base \in 0 .. Size - 1 : base = Base_off /\ base = w_off /\ base = Base_off'
  BY <1>1, <1>2, FreeStart DEF WaitTypes, Base_off
<1>4. PICK B \in SUBSET (0 .. Size - 1) : Ring(B)
  BY DEF LossInv, RingOK
<1>5. RingOK'
  <2>1. \A b \in B : get_entry_len(b)' = get_entry_len(b) /\ Payload(b)' = Payload(b)
    BY <1>1, SameBuffer
  <2>2. Laid(B)'
    BY <1>3, <1>4, <2>1 DEF Ring, Laid
  <2>3. base \in B /\ \A r \in readers' : r_off'[r] = base
    BY <1>1, <1>2, <1>3, <1>4 DEF Ring
  <2>4. Ring(B)'
    BY <1>1, <1>3, <2>2, <2>3 DEF Ring
  <2>. QED
    BY <2>4 DEF RingOK
<1>6. WriteOK'
  BY <1>1 DEF WriteOK
<1>7. LogTypes'
  BY <1>1, <1>2, <1>3 DEF LogTypes
<1>8. LagOK'
  <2>1. ASSUME NEW r \in readers
        PROVE  /\ lag[r] - Behind(r)' > -Size
               /\ faults = 0 => lag[r] >= Behind(r)'
    <3>1. PICK d \in 0 .. Size - 1 : d = Dist(r_off[r], base)
      BY <1>2, DistIs DEF LogTypes
    <3>2. Behind(r) = d + 0
      BY <1>2, <1>3, <3>1 DEF Behind
    <3>3. Dist(base, base) = 0
      BY <1>2, DistIs
    <3>4. Behind(r)' = 0 + 0
      BY <1>1, <1>2, <1>3, <3>3 DEF Behind
    <3>5. PICK l \in Int : l = lag[r]
      BY <1>2 DEF LogTypes
    <3>6. l - (d + 0) > -Size /\ (faults = 0 => l >= d + 0)
      BY <1>2, <3>2, <3>5 DEF LagOK
    <3>7. l - (0 + 0) > -Size /\ (l >= d + 0 => l >= 0 + 0)
      BY <1>2, <3>1, <3>6
    <3>. QED
      BY <3>4, <3>5, <3>6, <3>7
  <2>. QED
    BY <1>1, <1>2, <2>1 DEF LagOK
<1>. QED
  BY <1>5, <1>6, <1>7, <1>8 DEF LogOK

LEMMA LossInit == LoggerInit => LossInv
<1>. SUFFICES ASSUME LoggerInit PROVE LossInv
  OBVIOUS
<1>1. Size \in Nat \ {0} /\ Base \in Nat \ {0, 1} /\ MaxFaults \in Nat
  BY LoggerAssumption
<1>2. WaitInv
  BY LoggerAssumption DEF LoggerInit, WaitInv, WaitTypes, Idle
<1>3. LogTypes
  <2>1. 0 \in 0 .. Size - 1 /\ 0 \in 0 .. Base - 1 /\ 0 \in 0 .. MaxFaults
        /\ NotWriting \in NotWriting .. Size - 1
    BY <1>1 DEF NotWriting
  <2>. QED
    BY <2>1 DEF LoggerInit, LogTypes
<1>4. WriteOK
  BY DEF LoggerInit, WriteOK
<1>5. Base_off = 0
  <2>1. logger_offset(0 - 0) = 0
    BY <1>1, OffsetNear
  <2>. QED
    BY <2>1 DEF LoggerInit, Base_off
<1>6. RingOK
  <2>1. {0} \in SUBSET (0 .. Size - 1)
    BY <1>1
  <2>2. Ring({0})
    BY <1>5 DEF LoggerInit, Ring, Laid
  <2>. QED
    BY <2>1, <2>2 DEF RingOK
<1>7. LagOK
  BY DEF LoggerInit, LagOK
<1>. QED
  BY <1>2, <1>3, <1>4, <1>6, <1>7 DEF LossInv

\* The invariant is inductive if a fault takes back only its own write.
LEMMA LossStep == LossInv /\ ~ StaleFaults /\ [LoggerNext]_loggerVars => LossInv'
<1>. SUFFICES ASSUME LossInv, ~ StaleFaults, [LoggerNext]_loggerVars
              PROVE  LossInv'
  OBVIOUS
<1>1. WaitInv'
  BY WaitStep DEF LossInv
<1>2. orig \in [Writers -> NotWriting .. Size - 1] /\ w_off \in 0 .. Size - 1
      /\ Size \in Nat \ {0}
  BY LoggerAssumption DEF LossInv, LogTypes, WaitInv, WaitTypes
<1>3. CASE WriterStep
  <2>1. PICK w \in Writers : \/ WriteBlocked(w)
                             \/ \E e \in Entries : WriteHeader(w, e)
                             \/ WriteSegment(w)
                             \/ WriteEnd(w)
                             \/ WriteFault(w)
    BY <1>3 DEF WriterStep
  <2>2. CASE WriteBlocked(w)
    <3>1. orig' \in [Writers -> NotWriting .. Size - 1]
      BY <1>2, <2>2 DEF WriteBlocked, NotWriting
    <3>2. LogOK'
      BY <2>2, <3>1, SameLog DEF WriteBlocked, logVars, readerVars
    <3>. QED
      BY <1>1, <3>2 DEF LossInv, LogOK
  <2>3. LogOK'
    BY <2>1, <2>2, HeaderKeepsLog, SegmentKeepsLog, EndKeepsLog, FaultKeepsLog
       DEF LossInv, LogOK
  <2>. QED
    BY <1>1, <2>3 DEF LossInv, LogOK
<1>4. CASE ReaderStep
  <2>1. PICK r \in Readers : \/ LoggerOpen(r) \/ LoggerRelease(r)
                             \/ ReadStart(r) \/ ReadCheck(r) \/ ReadRaced(r)
                             \/ WarnOverflow(r) \/ ReadEntry(r) \/ ReadFails(r)
    BY <1>4 DEF ReaderStep
  <2>2. CASE ReadStart(r) \/ ReadCheck(r) \/ ReadRaced(r) \/ ReadFails(r)
    <3>1. UNCHANGED <<buffer, w_off, head, sign, readers, r_off, lag, overtaken,
                      mutex, writing, copied, faults, orig>>
      BY <2>2 DEF ReadStart, ReadCheck, ReadRaced, ReadFails, logVars, writerVars
    <3>. QED
      BY <1>1, <1>2, <3>1, SameLog DEF LossInv, LogOK
  <2>3. CASE LoggerOpen(r) \/ LoggerRelease(r) \/ WarnOverflow(r) \/ ReadEntry(r)
    <3>1. LogOK'
      BY <2>3, OpenKeepsLog, ReleaseKeepsLog, WarningKeepsLog, ReadKeepsLog
    <3>. QED
      BY <1>1, <3>1 DEF LossInv, LogOK
  <2>. QED
    BY <2>1, <2>2, <2>3
<1>5. CASE FlushLog
  <2>1. LogOK'
    BY <1>5, FlushKeepsLog
  <2>. QED
    BY <1>1, <2>1 DEF LossInv, LogOK
<1>6. CASE UNCHANGED loggerVars
  <2>1. LogOK'
    BY <1>2, <1>6, SameLog DEF loggerVars, logVars, readerVars, writerVars
  <2>. QED
    BY <1>1, <2>1 DEF LossInv, LogOK
<1>. QED
  BY <1>3, <1>4, <1>5, <1>6 DEF LoggerNext

\* With the mutex free nothing is to come of a write, and the lag is at least
\* what the reader has not read.
LEMMA LossIsTold == LossInv => NoSilentLoss
<1>. SUFFICES ASSUME LossInv PROVE NoSilentLoss
  OBVIOUS
<1>1. Size \in Nat \ {0} /\ LogTypes /\ WaitTypes /\ LagOK
  BY LoggerAssumption DEF LossInv, WaitInv
<1>2. lag \in [Readers -> -Size .. Size]
  <2>1. ASSUME NEW r \in Readers PROVE lag[r] \in -Size .. Size
    <3>1. lag[r] \in Int
      BY <1>1 DEF LogTypes
    <3>2. CASE r \in readers
      <4>1. Base_off \in 0 .. Size - 1
        BY <1>1, OffsetTypes DEF Base_off, WaitTypes
      <4>2. Dist(r_off[r], Base_off) \in 0 .. Size - 1
        BY <1>1, <4>1, DistIs DEF LogTypes
      <4>3. Behind(r) \in Nat
        BY <1>1, <4>2 DEF Behind, WaitTypes
      <4>4. lag[r] <= Size /\ lag[r] - Behind(r) > -Size
        BY <1>1, <3>2 DEF LagOK
      <4>. QED
        BY <1>1, <3>1, <4>3, <4>4
    <3>3. CASE r \notin readers
      <4>1. lag[r] = 0
        BY <1>1, <3>3 DEF LagOK
      <4>. QED
        BY <1>1, <4>1
    <3>. QED
      BY <3>2, <3>3
  <2>. QED
    BY <1>1, <2>1 DEF LogTypes
<1>3. LoggerTypeOK
  BY <1>1, <1>2 DEF LoggerTypeOK, LogTypes, WaitTypes, LossInv, WaitInv
<1>4. ASSUME mutex = Nobody, faults = 0, NEW r \in overtaken PROVE IsOverflow(r)
  <2>1. ToCome = 0 /\ lag[r] + ToCome >= Size /\ lag[r] \in Int
    BY <1>1, <1>4 DEF LagOK, ToCome, LogTypes, WaitTypes
  <2>. QED
    BY <1>1, <2>1 DEF IsOverflow
<1>. QED
  BY <1>3, <1>4 DEF NoSilentLoss

\* A reader that lost entries to writers finds its lag at the size of the log,
\* and is warned, as long as no write has failed.
THEOREM LossIsNeverSilent == ~ StaleFaults => (LoggerSpec => []NoSilentLoss)
<1>. SUFFICES ASSUME ~ StaleFaults PROVE LoggerSpec => []NoSilentLoss
  OBVIOUS
<1>1. LossInv /\ [LoggerNext]_loggerVars => LossInv'
  BY LossStep
<1>. QED
  BY <1>1, LossInit, LossIsTold, PTL DEF LoggerSpec

----------------------------------------------------------------------------
(* The ring buffer implements the queue of entries, LogQueue.  The queue at *)
(* a place of the ring is what is parsed from there, which is a matter of   *)
(* the buffer and of where the current write began.                         *)

LenIn(buf, at) == HEADER + buf[at] + Base * buf[IF at = Size - 1 THEN 0 ELSE at + 1]

PayIn(buf, at) == [i \in 1 .. LenIn(buf, at) - HEADER |->
                      buf[logger_offset(at + HEADER + i - 1)]]

ParseIn(buf, base) ==
    CHOOSE parse : parse = [left \in 0 .. Size |->
        IF left = 0 THEN << >>
        ELSE IF LenIn(buf, logger_offset(base - left)) > left THEN <<Corrupt>>
        ELSE <<PayIn(buf, logger_offset(base - left))>>
             \o parse[left - LenIn(buf, logger_offset(base - left))]]

QueueAt(buf, base, b) == ParseIn(buf, base)[Dist(b, base)]

Buffers == [0 .. Size - 1 -> 0 .. Base - 1]

LEMMA LenInTypes ==
    ASSUME NEW buf \in Buffers, NEW o \in 0 .. Size - 1
    PROVE  LenIn(buf, o) \in Nat /\ LenIn(buf, o) >= HEADER
<1>1. Size \in Nat \ {0} /\ Base \in Nat
  BY LoggerAssumption
<1>2. PICK s \in 0 .. Size - 1 : s = IF o = Size - 1 THEN 0 ELSE o + 1
  BY <1>1
<1>3. buf[o] \in Nat /\ buf[s] \in Nat
  BY <1>1, <1>2 DEF Buffers
<1>4. Base * buf[s] \in Nat
  BY <1>1, <1>3
<1>5. LenIn(buf, o) = HEADER + buf[o] + Base * buf[s]
  BY <1>2 DEF LenIn
<1>. QED
  BY <1>3, <1>4, <1>5 DEF HEADER

IsParse(f, n, step, pay) ==
    f = [i \in 0 .. n |-> IF i = 0 THEN << >> ELSE IF step[i] > i THEN <<Corrupt>>
                         ELSE <<pay[i]>> \o f[i - step[i]]]

\* The recursion of Parsed defines a function, since each entry has a length.
LEMMA ParseExists ==
    ASSUME NEW n \in Nat, NEW step \in [0 .. n -> Nat \ {0}], NEW pay
    PROVE  \E f : IsParse(f, n, step, pay)
<1>. DEFINE At(f, i) == IF i = 0 THEN << >> ELSE IF step[i] > i THEN <<Corrupt>>
                        ELSE <<pay[i]>> \o f[i - step[i]]
            Good(f, k) == /\ f = [i \in 0 .. n |-> f[i]]
                          /\ \A i \in 0 .. k : f[i] = At(f, i)
            Bad == {k \in 0 .. n : ~ \E f : Good(f, k)}
<1>1. Bad = {}
  <2>. SUFFICES ASSUME Bad # {} PROVE FALSE
    OBVIOUS
  <2>1. Bad \in SUBSET Nat
    OBVIOUS
  <2>2. PICK k \in Bad : \A m \in Bad : k <= m
    <3>. HIDE DEF Bad
    <3>. QED
      BY <2>1, LeastMember
  <2>3. k \in 0 .. n /\ ~ \E f : Good(f, k)
    <3>. HIDE DEF Good
    <3>. QED
      OBVIOUS
  <2>4. \E f : f = [i \in 0 .. n |-> f[i]] /\ \A i \in 0 .. k - 1 : f[i] = At(f, i)
    <3>1. CASE k = 0
      <4>. DEFINE f == [i \in 0 .. n |-> 0]
      <4>1. f = [i \in 0 .. n |-> f[i]] /\ 0 .. k - 1 = {}
        BY <3>1
      <4>. QED
        BY <4>1
    <3>2. CASE k # 0
      <4>1. k - 1 \in 0 .. n /\ ~ (k <= k - 1)
        BY <2>3, <3>2
      <4>2. k - 1 \notin Bad
        <5>. HIDE DEF Bad
        <5>. QED
          BY <2>2, <4>1
      <4>3. \E f : Good(f, k - 1)
        <5>. HIDE DEF Good
        <5>. QED
          BY <4>1, <4>2
      <4>. QED
        BY <4>3
    <3>. QED
      BY <3>1, <3>2
  <2>5. PICK f : f = [i \in 0 .. n |-> f[i]] /\ \A i \in 0 .. k - 1 : f[i] = At(f, i)
    BY <2>4
  <2>. DEFINE g == [i \in 0 .. n |-> IF i = k THEN At(f, k) ELSE f[i]]
  <2>6. g = [i \in 0 .. n |-> g[i]]
    OBVIOUS
  <2>7. g[k] = At(f, k) /\ \A i \in 0 .. n : i # k => g[i] = f[i]
    <3>. HIDE DEF At
    <3>. QED
      BY <2>3
  <2>. HIDE DEF g
  <2>8. ASSUME NEW i \in 0 .. k PROVE g[i] = At(g, i)
    <3>1. i \in 0 .. n /\ step[i] \in Nat \ {0}
      BY <2>3
    <3>2. step[i] <= i => i - step[i] \in 0 .. n /\ i - step[i] # k
      BY <2>3, <3>1
    <3>3. At(g, i) = At(f, i)
      BY <2>7, <3>1, <3>2
    <3>4. CASE i = k
      BY <2>7, <3>3, <3>4
    <3>5. CASE i # k
      <4>1. i \in 0 .. k - 1
        BY <2>3, <3>5
      <4>. HIDE DEF At
      <4>. QED
        BY <2>5, <2>7, <3>1, <3>3, <3>5, <4>1
    <3>. QED
      BY <3>4, <3>5
  <2>9. Good(g, k)
    <3>. HIDE DEF At
    <3>. QED
      BY <2>6, <2>8
  <2>. QED
    <3>. HIDE DEF Good
    <3>. QED
      BY <2>3, <2>9
<1>2. \E f : Good(f, n)
  <2>1. n \in 0 .. n
    OBVIOUS
  <2>. HIDE DEF Good
  <2>. QED
    BY <1>1, <2>1
<1>3. PICK f : f = [i \in 0 .. n |-> f[i]] /\ \A i \in 0 .. n : f[i] = At(f, i)
  BY <1>2
<1>4. f = [i \in 0 .. n |-> At(f, i)]
  <2>. HIDE DEF At
  <2>. QED
    BY <1>3
<1>. QED
  BY <1>4 DEF IsParse

\* What Parsed computes.
LEMMA ParseIs ==
    ASSUME NEW buf \in Buffers, NEW base \in 0 .. Size - 1
    PROVE  \A left \in 0 .. Size : ParseIn(buf, base)[left] =
              IF left = 0 THEN << >>
              ELSE IF LenIn(buf, logger_offset(base - left)) > left THEN <<Corrupt>>
              ELSE <<PayIn(buf, logger_offset(base - left))>>
                   \o ParseIn(buf, base)[left - LenIn(buf, logger_offset(base - left))]
<1>. DEFINE step == [i \in 0 .. Size |-> LenIn(buf, logger_offset(base - i))]
            pay == [i \in 0 .. Size |-> PayIn(buf, logger_offset(base - i))]
<1>1. Size \in Nat
  BY LoggerAssumption
<1>2. step \in [0 .. Size -> Nat \ {0}]
  <2>1. ASSUME NEW i \in 0 .. Size
        PROVE  LenIn(buf, logger_offset(base - i)) \in Nat \ {0}
    <3>1. logger_offset(base - i) \in 0 .. Size - 1
      BY <1>1, OffsetTypes
    <3>. QED
      BY <3>1, LenInTypes DEF HEADER
  <2>. QED
    BY <2>1
<1>3. PICK f : IsParse(f, Size, step, pay)
  <2>. HIDE DEF step, pay
  <2>. QED
    BY <1>1, <1>2, ParseExists
<1>4. f = [left \in 0 .. Size |->
              IF left = 0 THEN << >>
              ELSE IF LenIn(buf, logger_offset(base - left)) > left THEN <<Corrupt>>
              ELSE <<PayIn(buf, logger_offset(base - left))>>
                   \o f[left - LenIn(buf, logger_offset(base - left))]]
  BY <1>3 DEF IsParse
<1>. DEFINE P == ParseIn(buf, base)
<1>5. P = [left \in 0 .. Size |->
              IF left = 0 THEN << >>
              ELSE IF LenIn(buf, logger_offset(base - left)) > left THEN <<Corrupt>>
              ELSE <<PayIn(buf, logger_offset(base - left))>>
                   \o P[left - LenIn(buf, logger_offset(base - left))]]
  BY <1>4, Zenon DEF ParseIn
<1>. HIDE DEF P
<1>6. \A left \in 0 .. Size : P[left] =
              IF left = 0 THEN << >>
              ELSE IF LenIn(buf, logger_offset(base - left)) > left THEN <<Corrupt>>
              ELSE <<PayIn(buf, logger_offset(base - left))>>
                   \o P[left - LenIn(buf, logger_offset(base - left))]
  BY <1>5
<1>. QED
  BY <1>6 DEF P

\* A queue is empty where the current write began, and elsewhere it is the
\* entry there and the queue at the next.
LEMMA QueueIs ==
    ASSUME NEW buf \in Buffers, NEW base \in 0 .. Size - 1
    PROVE  /\ QueueAt(buf, base, base) = << >>
           /\ \A b \in 0 .. Size - 1 :
                 b # base /\ LenIn(buf, b) <= Dist(b, base) =>
                    QueueAt(buf, base, b) =
                       <<PayIn(buf, b)>> \o QueueAt(buf, base, logger_offset(b + LenIn(buf, b)))
<1>1. Size \in Nat \ {0}
  BY LoggerAssumption
<1>2. QueueAt(buf, base, base) = << >>
  <2>1. Dist(base, base) = 0 /\ 0 \in 0 .. Size
    BY <1>1, DistIs
  <2>. QED
    <3>1. ParseIn(buf, base)[0] = << >>
      BY <2>1, ParseIs
    <3>. QED
      BY <2>1, <3>1 DEF QueueAt
<1>3. ASSUME NEW b \in 0 .. Size - 1, b # base, LenIn(buf, b) <= Dist(b, base)
      PROVE  QueueAt(buf, base, b) =
                <<PayIn(buf, b)>> \o QueueAt(buf, base, logger_offset(b + LenIn(buf, b)))
  <2>1. PICK d \in 0 .. Size - 1 : /\ d = Dist(b, base)
                                   /\ d = IF b <= base THEN base - b ELSE base - b + Size
    BY DistIs
  <2>2. d # 0 /\ d \in 0 .. Size
    BY <1>1, <1>3, <2>1
  <2>3. logger_offset(base - d) = b
    <3>1. -Size <= base - d /\ base - d < 2 * Size /\ base - d \in Int
      BY <1>1
    <3>. QED
      BY <1>1, <2>1, <3>1, OffsetNear
  <2>4. PICK l \in Nat : l = LenIn(buf, b) /\ l <= d
    BY <1>3, <2>1, LenInTypes
  <2>5. Dist(logger_offset(b + l), base) = d - l
    <3>1. l \in 0 .. Dist(b, base)
      BY <2>1, <2>4
    <3>. QED
      BY <2>1, <3>1, Nearer
  <2>6. ~ (l > d)
    BY <2>1, <2>4
  <2>7. ParseIn(buf, base)[d] = <<PayIn(buf, b)>> \o ParseIn(buf, base)[d - l]
    BY <2>2, <2>3, <2>4, <2>6, ParseIs
  <2>. QED
    BY <2>1, <2>4, <2>5, <2>7 DEF QueueAt
<1>. QED
  BY <1>2, <1>3

\* Sums, and so Queue!Bytes, are well defined.
IsSum(f, n, a) == f = [i \in 0 .. n |-> IF i = 0 THEN 0 ELSE f[i - 1] + a[i]]

LEMMA SumExists ==
    ASSUME NEW n \in Nat, NEW a \in [1 .. n -> Int]
    PROVE  \E f \in [0 .. n -> Int] : IsSum(f, n, a)
<1>. DEFINE Good(f, k) == \A i \in 0 .. k : f[i] = IF i = 0 THEN 0 ELSE f[i - 1] + a[i]
            Bad == {k \in 0 .. n : ~ \E f \in [0 .. n -> Int] : Good(f, k)}
<1>1. Bad = {}
  <2>. SUFFICES ASSUME Bad # {} PROVE FALSE
    OBVIOUS
  <2>1. Bad \in SUBSET Nat
    OBVIOUS
  <2>2. PICK k \in Bad : \A m \in Bad : k <= m
    <3>. HIDE DEF Bad
    <3>. QED
      BY <2>1, LeastMember
  <2>3. k \in 0 .. n /\ ~ \E f \in [0 .. n -> Int] : Good(f, k)
    <3>. HIDE DEF Good
    <3>. QED
      OBVIOUS
  <2>4. k # 0
    <3>1. ASSUME k = 0 PROVE FALSE
      <4>1. [i \in 0 .. n |-> 0] \in [0 .. n -> Int] /\ Good([i \in 0 .. n |-> 0], k)
        BY <3>1
      <4>. HIDE DEF Good
      <4>. QED
        BY <2>3, <4>1
    <3>. QED
      BY <3>1
  <2>5. k - 1 \in 0 .. n /\ ~ (k <= k - 1)
    BY <2>3, <2>4
  <2>6. k - 1 \notin Bad
    <3>. HIDE DEF Bad
    <3>. QED
      BY <2>2, <2>5
  <2>7. PICK f \in [0 .. n -> Int] : Good(f, k - 1)
    <3>. HIDE DEF Good
    <3>. QED
      BY <2>5, <2>6
  <2>. DEFINE g == [f EXCEPT ![k] = f[k - 1] + a[k]]
  <2>8. /\ g \in [0 .. n -> Int] /\ g[k] = f[k - 1] + a[k]
        /\ \A i \in 0 .. n : i # k => g[i] = f[i]
    <3>1. f[k - 1] + a[k] \in Int
      <4>1. k \in 1 .. n
        BY <2>3, <2>4
      <4>. QED
        BY <2>5, <4>1
    <3>. QED
      BY <2>3, <3>1
  <2>. HIDE DEF g
  <2>9. ASSUME NEW i \in 0 .. k PROVE g[i] = IF i = 0 THEN 0 ELSE g[i - 1] + a[i]
    <3>1. i \in 0 .. n /\ (i # 0 => i - 1 \in 0 .. n /\ i - 1 # k)
      BY <2>3
    <3>2. CASE i = k
      BY <2>4, <2>8, <3>1, <3>2
    <3>3. CASE i # k
      <4>1. i \in 0 .. k - 1
        BY <2>3, <3>3
      <4>2. f[i] = IF i = 0 THEN 0 ELSE f[i - 1] + a[i]
        BY <2>7, <4>1
      <4>. QED
        BY <2>8, <3>1, <3>3, <4>2
    <3>. QED
      BY <3>2, <3>3
  <2>10. Good(g, k)
    BY <2>9
  <2>. QED
    <3>. HIDE DEF Good
    <3>. QED
      BY <2>3, <2>8, <2>10
<1>2. \E f \in [0 .. n -> Int] : Good(f, n)
  <2>1. n \in 0 .. n
    OBVIOUS
  <2>. HIDE DEF Good
  <2>. QED
    BY <1>1, <2>1
<1>3. PICK f \in [0 .. n -> Int] : Good(f, n)
  BY <1>2
<1>. QED
  BY <1>3 DEF IsSum

LEMMA SumUnique ==
    ASSUME NEW n \in Nat, NEW a \in [1 .. n -> Int], NEW f, IsSum(f, n, a)
    PROVE  f \in [0 .. n -> Int]
<1>1. f = [i \in 0 .. n |-> f[i]]
  BY DEF IsSum
<1>. DEFINE Bad == {k \in 0 .. n : f[k] \notin Int}
<1>2. Bad = {}
  <2>. SUFFICES ASSUME Bad # {} PROVE FALSE
    OBVIOUS
  <2>1. Bad \in SUBSET Nat
    OBVIOUS
  <2>2. PICK k \in Bad : \A m \in Bad : k <= m
    <3>. HIDE DEF Bad
    <3>. QED
      BY <2>1, LeastMember
  <2>3. k \in 0 .. n /\ f[k] \notin Int
    OBVIOUS
  <2>4. f[k] = IF k = 0 THEN 0 ELSE f[k - 1] + a[k]
    BY <2>3 DEF IsSum
  <2>5. k # 0
    BY <2>3, <2>4
  <2>6. k - 1 \in 0 .. n /\ k \in 1 .. n /\ ~ (k <= k - 1)
    BY <2>3, <2>5
  <2>7. f[k - 1] \in Int
    BY <2>2, <2>6
  <2>. QED
    BY <2>3, <2>4, <2>5, <2>6, <2>7
<1>. QED
  BY <1>1, <1>2

\* What Queue!Bytes computes.
LEMMA BytesIs ==
    ASSUME NEW q \in Seq(Entries)
    PROVE  \E f \in [0 .. Len(q) -> Int] :
              /\ f[0] = 0
              /\ \A i \in 1 .. Len(q) : f[i] = f[i - 1] + EntrySize(q[i])
              /\ Queue!Bytes(q) = f[Len(q)]
<1>1. PICK n \in Nat : n = Len(q)
  OBVIOUS
<1>. DEFINE a == [i \in 1 .. n |-> EntrySize(q[i])]
<1>2. a \in [1 .. n -> Int]
  <2>1. ASSUME NEW i \in 1 .. n PROVE EntrySize(q[i]) \in Int
    <3>1. q[i] \in Entries
      BY <1>1, <2>1, ElementOfSeq
    <3>. QED
      BY <3>1, ImageIs
  <2>. QED
    BY <2>1
<1>. DEFINE F == CHOOSE upto : upto = [i \in 0 .. Len(q) |->
                                 IF i = 0 THEN 0 ELSE upto[i - 1] + EntrySize(q[i])]
<1>3. Queue!Bytes(q) = F[Len(q)]
  BY Zenon DEF Queue!Bytes
<1>4. PICK f : IsSum(f, n, a)
  <2>. HIDE DEF a
  <2>. QED
    BY <1>2, SumExists
<1>5. f = [i \in 0 .. Len(q) |-> IF i = 0 THEN 0 ELSE f[i - 1] + EntrySize(q[i])]
  <2>1. \A i \in 0 .. n : i # 0 => a[i] = EntrySize(q[i])
    OBVIOUS
  <2>2. f = [i \in 0 .. n |-> IF i = 0 THEN 0 ELSE f[i - 1] + a[i]]
    BY <1>4 DEF IsSum
  <2>. HIDE DEF a
  <2>. QED
    BY <1>1, <2>1, <2>2
<1>6. F = [i \in 0 .. Len(q) |-> IF i = 0 THEN 0 ELSE F[i - 1] + EntrySize(q[i])]
  BY <1>5, Zenon
<1>. HIDE DEF F
<1>7. IsSum(F, n, a)
  <2>1. \A i \in 0 .. n : i # 0 => a[i] = EntrySize(q[i])
    OBVIOUS
  <2>. HIDE DEF a
  <2>. QED
    BY <1>1, <1>6, <2>1 DEF IsSum
<1>8. F \in [0 .. n -> Int]
  <2>. HIDE DEF a
  <2>. QED
    BY <1>2, <1>7, SumUnique
<1>9. F[0] = 0 /\ \A i \in 1 .. n : F[i] = F[i - 1] + EntrySize(q[i])
  BY <1>1, <1>6
<1>. QED
  BY <1>1, <1>3, <1>8, <1>9

LEMMA BytesEmpty == Queue!Bytes(<< >>) = 0
<1>1. << >> \in Seq(Entries) /\ Len(<< >>) = 0
  OBVIOUS
<1>. QED
  BY <1>1, BytesIs

LEMMA BytesCons ==
    ASSUME NEW x \in Entries, NEW q \in Seq(Entries)
    PROVE  Queue!Bytes(<<x>> \o q) = EntrySize(x) + Queue!Bytes(q)
<1>1. PICK n \in Nat : n = Len(q)
  OBVIOUS
<1>2. PICK s \in Seq(Entries) :
         /\ s = <<x>> \o q /\ Len(s) = n + 1 /\ s[1] = x
         /\ \A i \in 1 .. n : s[i + 1] = q[i]
  <2>1. PICK h \in Seq(Entries) : h = <<x>> /\ Len(h) = 1 /\ h[1] = x
    <3>1. <<x>> \in Seq(Entries) /\ Len(<<x>>) = 1
      OBVIOUS
    <3>. QED
      BY <3>1
  <2>2. /\ h \o q \in Seq(Entries)
        /\ Len(h \o q) = Len(h) + Len(q)
        /\ \A i \in 1 .. Len(h) + Len(q) : (h \o q)[i] = IF i <= Len(h) THEN h[i]
                                                         ELSE q[i - Len(h)]
    BY ConcatProperties
  <2>3. (h \o q)[1] = x
    <3>1. 1 \in 1 .. 1 + n
      OBVIOUS
    <3>. QED
      BY <1>1, <2>1, <2>2, <3>1
  <2>4. ASSUME NEW i \in 1 .. n PROVE (h \o q)[i + 1] = q[i]
    <3>1. i + 1 \in 1 .. 1 + n /\ ~ (i + 1 <= 1) /\ i + 1 - 1 = i
      OBVIOUS
    <3>. QED
      BY <1>1, <2>1, <2>2, <3>1
  <2>5. Len(h \o q) = n + 1
    BY <1>1, <2>1, <2>2
  <2>. QED
    BY <2>1, <2>2, <2>3, <2>4, <2>5
<1>3. PICK f \in [0 .. n -> Int] :
              /\ f[0] = 0
              /\ \A i \in 1 .. n : f[i] = f[i - 1] + EntrySize(q[i])
              /\ Queue!Bytes(q) = f[n]
  BY <1>1, BytesIs
<1>4. PICK g \in [0 .. n + 1 -> Int] :
              /\ g[0] = 0
              /\ \A i \in 1 .. n + 1 : g[i] = g[i - 1] + EntrySize(s[i])
              /\ Queue!Bytes(s) = g[n + 1]
  BY <1>2, BytesIs
<1>5. PICK z \in Int : z = EntrySize(x)
  BY ImageIs
<1>. DEFINE Bad == {k \in 0 .. n : g[k + 1] # z + f[k]}
<1>6. Bad = {}
  <2>. SUFFICES ASSUME Bad # {} PROVE FALSE
    OBVIOUS
  <2>1. Bad \in SUBSET Nat
    OBVIOUS
  <2>2. PICK k \in Bad : \A m \in Bad : k <= m
    <3>. HIDE DEF Bad
    <3>. QED
      BY <2>1, LeastMember
  <2>3. k \in 0 .. n /\ g[k + 1] # z + f[k]
    OBVIOUS
  <2>4. k # 0
    <3>1. ASSUME k = 0 PROVE FALSE
      <4>1. 1 \in 1 .. n + 1 /\ 1 - 1 = 0
        OBVIOUS
      <4>2. g[1] = g[0] + EntrySize(s[1])
        BY <1>4, <4>1
      <4>3. g[1] = 0 + z
        BY <1>2, <1>4, <1>5, <4>2
      <4>. QED
        BY <1>3, <1>5, <2>3, <3>1, <4>3
    <3>. QED
      BY <3>1
  <2>5. k - 1 \in 0 .. n /\ k \in 1 .. n /\ ~ (k <= k - 1) /\ k + 1 \in 1 .. n + 1
        /\ k + 1 - 1 = k /\ k - 1 + 1 = k
    BY <2>3, <2>4
  <2>6. g[k] = z + f[k - 1]
    BY <2>2, <2>5
  <2>7. PICK y \in Int : y = EntrySize(q[k])
    <3>1. q[k] \in Entries
      BY <1>1, <2>5, ElementOfSeq
    <3>2. EntrySize(q[k]) \in Nat
      BY <3>1, ImageIs
    <3>. QED
      BY <3>2
  <2>8. g[k + 1] = g[k] + y
    <3>1. g[k + 1] = g[k + 1 - 1] + EntrySize(s[k + 1])
      BY <1>4, <2>5
    <3>2. s[k + 1] = q[k]
      BY <1>2, <2>5
    <3>. QED
      BY <2>5, <2>7, <3>1, <3>2
  <2>9. f[k] = f[k - 1] + y
    BY <1>3, <2>5, <2>7
  <2>10. PICK v \in Int : v = f[k - 1]
    BY <2>5
  <2>11. g[k + 1] = (z + v) + y /\ f[k] = v + y
    BY <2>6, <2>8, <2>9, <2>10
  <2>12. (z + v) + y = z + (v + y)
    OBVIOUS
  <2>. HIDE DEF Bad
  <2>. QED
    BY <2>3, <2>11, <2>12
<1>7. g[n + 1] = z + f[n]
  <2>1. n \in 0 .. n
    OBVIOUS
  <2>. QED
    BY <1>6, <2>1
<1>. QED
  BY <1>2, <1>3, <1>4, <1>5, <1>7

LaidIn(B, buf, base) ==
    \A b \in B \ {base} : /\ LenIn(buf, b) <= Dist(b, base)
                          /\ logger_offset(b + LenIn(buf, b)) \in B
                          /\ PayIn(buf, b) \in Entries

\* Induction along the ring: what holds where the write began, and at a place
\* if at the next, holds everywhere.
LEMMA RingInduction ==
    ASSUME NEW buf \in Buffers, NEW base \in 0 .. Size - 1,
           NEW B \in SUBSET (0 .. Size - 1), LaidIn(B, buf, base),
           NEW S, base \in S,
           \A b \in B \ {base} : logger_offset(b + LenIn(buf, b)) \in S => b \in S
    PROVE  B \subseteq S
<1>. DEFINE Bad == {n \in 0 .. Size - 1 : \E b \in B \ S : n = Dist(b, base)}
<1>1. Bad = {}
  <2>. SUFFICES ASSUME Bad # {} PROVE FALSE
    OBVIOUS
  <2>1. Bad \in SUBSET Nat
    OBVIOUS
  <2>2. PICK k \in Bad : \A m \in Bad : k <= m
    <3>. HIDE DEF Bad
    <3>. QED
      BY <2>1, LeastMember
  <2>3. PICK b \in B \ S : k = Dist(b, base) /\ k \in 0 .. Size - 1
    OBVIOUS
  <2>4. b # base
    OBVIOUS
  <2>5. PICK l \in Nat : l = LenIn(buf, b) /\ l >= 2
    BY LenInTypes DEF HEADER
  <2>6. l <= k /\ logger_offset(b + l) \in B /\ logger_offset(b + l) \notin S
    BY <2>3, <2>4, <2>5 DEF LaidIn
  <2>7. Dist(logger_offset(b + l), base) = k - l
    <3>1. l \in 0 .. Dist(b, base)
      BY <2>3, <2>5, <2>6
    <3>2. b \in 0 .. Size - 1
      BY <2>3
    <3>3. Dist(logger_offset(b + l), base) = Dist(b, base) - l
      BY <3>1, <3>2, Nearer
    <3>. QED
      BY <2>3, <3>3
  <2>8. k - l \in 0 .. Size - 1 /\ ~ (k <= k - l)
    <3>. HIDE DEF Bad
    <3>1. k \in 0 .. Size - 1 /\ l \in Nat /\ l >= 2 /\ l <= k /\ Size \in Nat
      BY <2>3, <2>5, <2>6, LoggerAssumption
    <3>. QED
      BY <3>1
  <2>9. k - l \in Bad
    <3>1. PICK c \in B \ S : k - l = Dist(c, base)
      BY <2>6, <2>7
    <3>. QED
      BY <2>8, <3>1
  <2>. HIDE DEF Bad
  <2>. QED
    BY <2>2, <2>8, <2>9
<1>2. ASSUME NEW b \in B PROVE b \in S
  <2>1. Dist(b, base) \in 0 .. Size - 1
    BY DistIs
  <2>. QED
    BY <1>1, <2>1
<1>. QED
  BY <1>2

\* A queue is one of entries, and takes up the way to where the write began.
LEMMA QueueTypes ==
    ASSUME NEW buf \in Buffers, NEW base \in 0 .. Size - 1,
           NEW B \in SUBSET (0 .. Size - 1), LaidIn(B, buf, base)
    PROVE  \A b \in B : /\ QueueAt(buf, base, b) \in Seq(Entries)
                        /\ Queue!Bytes(QueueAt(buf, base, b)) = Dist(b, base)
<1>. DEFINE OK(b) == /\ QueueAt(buf, base, b) \in Seq(Entries)
                     /\ Queue!Bytes(QueueAt(buf, base, b)) = Dist(b, base)
            S == {b \in 0 .. Size - 1 : OK(b)}
<1>1. base \in S
  <2>1. QueueAt(buf, base, base) = << >>
    BY QueueIs
  <2>2. Dist(base, base) = 0
    BY DistIs, LoggerAssumption
  <2>. QED
    BY <2>1, <2>2, BytesEmpty
<1>2. ASSUME NEW b \in B \ {base}, logger_offset(b + LenIn(buf, b)) \in S
      PROVE  b \in S
  <2>1. PICK l \in Nat : l = LenIn(buf, b) /\ l >= 2
    BY LenInTypes DEF HEADER
  <2>2. PICK d \in 0 .. Size - 1 : d = Dist(b, base)
    BY DistIs
  <2>3. l <= d /\ PayIn(buf, b) \in Entries
    BY <2>1, <2>2 DEF LaidIn
  <2>4. PICK x \in Entries, q \in Seq(Entries) :
           /\ x = PayIn(buf, b)
           /\ q = QueueAt(buf, base, logger_offset(b + l))
           /\ Queue!Bytes(q) = Dist(logger_offset(b + l), base)
    BY <1>2, <2>1, <2>3
  <2>5. QueueAt(buf, base, b) = <<x>> \o q
    BY <2>1, <2>2, <2>3, <2>4, QueueIs
  <2>6. Dist(logger_offset(b + l), base) = d - l
    <3>1. l \in 0 .. Dist(b, base)
      BY <2>1, <2>2, <2>3
    <3>. QED
      BY <2>2, <3>1, Nearer
  <2>7. EntrySize(x) = l
    <3>1. PICK m \in Nat : m = l - HEADER
      BY <2>1 DEF HEADER
    <3>2. x = [i \in 1 .. m |-> buf[logger_offset(b + HEADER + i - 1)]]
      BY <2>1, <2>4, <3>1 DEF PayIn
    <3>3. Len(x) = m
      BY <3>1, <3>2
    <3>. QED
      BY <2>1, <3>1, <3>3 DEF EntrySize, HEADER
  <2>8. Queue!Bytes(<<x>> \o q) = EntrySize(x) + Queue!Bytes(q)
    BY BytesCons
  <2>9. Queue!Bytes(<<x>> \o q) = d
    BY <2>1, <2>2, <2>4, <2>6, <2>7, <2>8
  <2>10. <<x>> \o q \in Seq(Entries)
    OBVIOUS
  <2>. QED
    BY <2>2, <2>5, <2>9, <2>10
<1>3. B \subseteq S
  <2>. HIDE DEF S
  <2>. QED
    BY <1>1, <1>2, RingInduction
<1>. QED
  BY <1>3

\* The queues stay if the entries do.
LEMMA QueueSame ==
    ASSUME NEW buf \in Buffers, NEW new \in Buffers, NEW base \in 0 .. Size - 1,
           NEW B \in SUBSET (0 .. Size - 1), LaidIn(B, buf, base),
           \A b \in B \ {base} : LenIn(new, b) = LenIn(buf, b) /\ PayIn(new, b) = PayIn(buf, b)
    PROVE  \A b \in B : QueueAt(new, base, b) = QueueAt(buf, base, b)
<1>. DEFINE S == {b \in 0 .. Size - 1 : QueueAt(new, base, b) = QueueAt(buf, base, b)}
<1>1. base \in S
  BY QueueIs
<1>2. ASSUME NEW b \in B \ {base}, logger_offset(b + LenIn(buf, b)) \in S
      PROVE  b \in S
  <2>1. LenIn(buf, b) <= Dist(b, base) /\ LenIn(new, b) = LenIn(buf, b)
        /\ PayIn(new, b) = PayIn(buf, b)
    BY DEF LaidIn
  <2>2. QueueAt(buf, base, b)
           = <<PayIn(buf, b)>> \o QueueAt(buf, base, logger_offset(b + LenIn(buf, b)))
    BY <2>1, QueueIs
  <2>3. QueueAt(new, base, b)
           = <<PayIn(new, b)>> \o QueueAt(new, base, logger_offset(b + LenIn(new, b)))
    BY <2>1, QueueIs
  <2>. QED
    BY <1>2, <2>1, <2>2, <2>3
<1>3. B \subseteq S
  <2>. HIDE DEF S
  <2>. QED
    BY <1>1, <1>2, RingInduction
<1>. QED
  BY <1>3

\* An entry written after the others is the last of every queue.
LEMMA QueueAppend ==
    ASSUME NEW buf \in Buffers, NEW base \in 0 .. Size - 1,
           NEW B \in SUBSET (0 .. Size - 1), LaidIn(B, buf, base),
           NEW e \in Entries, PayIn(buf, base) = e,
           NEW len \in Nat, len > 0, LenIn(buf, base) = len,
           NEW next \in 0 .. Size - 1, next = logger_offset(base + len),
           base \in B, \A b \in B : Dist(b, base) + len < Size
    PROVE  \A b \in B : QueueAt(buf, next, b) = Append(QueueAt(buf, base, b), e)
<1>. DEFINE S == {b \in B : QueueAt(buf, next, b) = Append(QueueAt(buf, base, b), e)}
<1>1. ASSUME NEW b \in B
      PROVE  /\ Dist(b, base) \in Nat /\ Dist(b, next) = Dist(b, base) + len
             /\ b # next
  <2>1. Dist(b, base) \in 0 .. Size - 1
    BY DistIs
  <2>2. Dist(b, next) = Dist(b, base) + len
    BY <2>1, Farther
  <2>3. Dist(next, next) = 0
    BY DistIs, LoggerAssumption
  <2>. QED
    BY <2>1, <2>2, <2>3
<1>2. base \in S
  <2>1. Dist(base, base) = 0
    BY DistIs, LoggerAssumption
  <2>2. base # next /\ LenIn(buf, base) <= Dist(base, next)
    BY <1>1, <2>1
  <2>3. QueueAt(buf, next, base)
          = <<PayIn(buf, base)>> \o QueueAt(buf, next, logger_offset(base + LenIn(buf, base)))
    BY <2>2, QueueIs
  <2>4. QueueAt(buf, next, next) = << >> /\ QueueAt(buf, base, base) = << >>
    BY QueueIs
  <2>5. QueueAt(buf, next, base) = <<e>> \o << >>
    BY <2>3, <2>4
  <2>6. <<e>> \o << >> = Append(<< >>, e)
    OBVIOUS
  <2>. QED
    BY <2>4, <2>5, <2>6
<1>3. ASSUME NEW b \in B \ {base}, logger_offset(b + LenIn(buf, b)) \in S
      PROVE  b \in S
  <2>1. PICK l \in Nat : l = LenIn(buf, b)
    BY LenInTypes
  <2>2. l <= Dist(b, base) /\ logger_offset(b + l) \in B /\ PayIn(buf, b) \in Entries
    BY <2>1 DEF LaidIn
  <2>3. b # next /\ l <= Dist(b, next)
    BY <1>1, <2>1, <2>2
  <2>4. PICK x \in Entries, q \in Seq(Entries) :
           x = PayIn(buf, b) /\ q = QueueAt(buf, base, logger_offset(b + l))
    BY <2>2, QueueTypes
  <2>5. QueueAt(buf, base, b) = <<x>> \o q
    BY <2>1, <2>2, <2>4, QueueIs
  <2>6. QueueAt(buf, next, b) = <<x>> \o QueueAt(buf, next, logger_offset(b + l))
    BY <2>1, <2>3, <2>4, QueueIs
  <2>7. QueueAt(buf, next, b) = <<x>> \o Append(q, e)
    BY <1>3, <2>1, <2>4, <2>6
  <2>8. <<x>> \o Append(q, e) = Append(<<x>> \o q, e)
    OBVIOUS
  <2>. QED
    BY <2>5, <2>7, <2>8
<1>4. B \subseteq S
  <2>. HIDE DEF S
  <2>. QED
    BY <1>2, <1>3, RingInduction
<1>. QED
  BY <1>4

----------------------------------------------------------------------------
(* Suffixes. *)

Ends(s, t) == /\ Len(s) <= Len(t)
              /\ \A i \in 1 .. Len(s) : s[i] = t[Len(t) - Len(s) + i]

LEMMA ReverseIs ==
    ASSUME NEW S, NEW s \in Seq(S)
    PROVE  /\ Queue!Reverse(s) \in Seq(S) /\ Len(Queue!Reverse(s)) = Len(s)
           /\ \A i \in 1 .. Len(s) : Queue!Reverse(s)[i] = s[Len(s) - i + 1]
<1>1. PICK n \in Nat : n = Len(s)
  OBVIOUS
<1>. DEFINE r == [i \in 1 .. n |-> s[(n - i) + 1]]
<1>2. \A i \in 1 .. n : s[(n - i) + 1] \in S
  <2>1. ASSUME NEW i \in 1 .. n PROVE s[(n - i) + 1] \in S
    <3>1. (n - i) + 1 \in 1 .. Len(s)
      BY <1>1
    <3>. QED
      BY <3>1, ElementOfSeq
  <2>. QED
    BY <2>1
<1>3. r \in Seq(S) /\ Len(r) = n
  BY <1>2
<1>4. Queue!Reverse(s) = r
  BY <1>1 DEF Queue!Reverse
<1>5. \A i \in 1 .. n : r[i] = s[n - i + 1]
  OBVIOUS
<1>. HIDE DEF r
<1>. QED
  BY <1>1, <1>3, <1>4, <1>5

LEMMA EndsIsSuffix ==
    ASSUME NEW S, NEW s \in Seq(S), NEW t \in Seq(S), Ends(s, t)
    PROVE  Queue!IsSuffix(s, t)
<1>1. PICK n \in Nat, m \in Nat : n = Len(s) /\ m = Len(t) /\ n <= m
  BY DEF Ends
<1>2. PICK a \in Seq(S) : /\ a = Queue!Reverse(s) /\ Len(a) = n
                          /\ \A i \in 1 .. n : a[i] = s[n - i + 1]
  BY <1>1, ReverseIs
<1>3. PICK b \in Seq(S) : /\ b = Queue!Reverse(t) /\ Len(b) = m
                          /\ \A i \in 1 .. m : b[i] = t[m - i + 1]
  BY <1>1, ReverseIs
<1>4. ASSUME NEW i \in 1 .. n PROVE a[i] = b[i] /\ a[i] \in S /\ b[i] \in S
  <2>1. i \in 1 .. m /\ n - i + 1 \in 1 .. n /\ m - n + (n - i + 1) = m - i + 1
    BY <1>1
  <2>2. s[n - i + 1] = t[m - n + (n - i + 1)]
    BY <1>1, <2>1 DEF Ends
  <2>3. a[i] = b[i]
    BY <1>2, <1>3, <2>1, <2>2
  <2>4. a[i] \in S /\ b[i] \in S
    BY <1>2, <1>3, <2>1, ElementOfSeq
  <2>. QED
    BY <2>3, <2>4
<1>5. /\ SubSeq(a, 1, n) \in Seq(S)
      /\ Len(SubSeq(a, 1, n)) = IF 1 <= n THEN n - 1 + 1 ELSE 0
      /\ \A i \in 1 .. n - 1 + 1 : SubSeq(a, 1, n)[i] = a[1 + i - 1]
  BY <1>4, SubSeqProperties
<1>6. /\ SubSeq(b, 1, n) \in Seq(S)
      /\ Len(SubSeq(b, 1, n)) = IF 1 <= n THEN n - 1 + 1 ELSE 0
      /\ \A i \in 1 .. n - 1 + 1 : SubSeq(b, 1, n)[i] = b[1 + i - 1]
  BY <1>4, SubSeqProperties
<1>7. SubSeq(a, 1, n) = SubSeq(b, 1, n)
  <2>1. PICK x \in Seq(S), y \in Seq(S) : x = SubSeq(a, 1, n) /\ y = SubSeq(b, 1, n)
    BY <1>5, <1>6
  <2>2. Len(x) = n /\ Len(y) = n
    BY <1>5, <1>6, <2>1
  <2>3. ASSUME NEW i \in 1 .. n PROVE x[i] = y[i]
    <3>1. i \in 1 .. n - 1 + 1 /\ 1 + i - 1 = i
      OBVIOUS
    <3>2. x[i] = a[i] /\ y[i] = b[i]
      BY <1>5, <1>6, <2>1, <3>1
    <3>. QED
      BY <1>4, <3>2
  <2>4. x = y
    BY <2>2, <2>3, SeqEqual
  <2>. QED
    BY <2>1, <2>4
<1>8. Queue!IsPrefix(a, b)
  BY <1>1, <1>2, <1>3, <1>7 DEF Queue!IsPrefix
<1>. QED
  BY <1>2, <1>3, <1>8 DEF Queue!IsSuffix

LEMMA EndsCons ==
    ASSUME NEW S, NEW x \in S, NEW s \in Seq(S), NEW t \in Seq(S), Ends(s, t)
    PROVE  Ends(s, <<x>> \o t)
<1>1. PICK n \in Nat, m \in Nat : n = Len(s) /\ m = Len(t) /\ n <= m
  BY DEF Ends
<1>2. PICK h \in Seq(S) : h = <<x>> /\ Len(h) = 1
  <2>1. <<x>> \in Seq(S) /\ Len(<<x>>) = 1
    OBVIOUS
  <2>. QED
    BY <2>1
<1>3. /\ h \o t \in Seq(S)
      /\ Len(h \o t) = Len(h) + Len(t)
      /\ \A i \in 1 .. Len(h) + Len(t) : (h \o t)[i] = IF i <= Len(h) THEN h[i]
                                                       ELSE t[i - Len(h)]
  BY ConcatProperties
<1>4. PICK c : c = h \o t /\ Len(c) = 1 + m
  BY <1>1, <1>2, <1>3
<1>5. ASSUME NEW i \in 1 .. n PROVE s[i] = c[1 + m - n + i]
  <2>1. /\ 1 + m - n + i \in 1 .. 1 + m /\ ~ (1 + m - n + i <= 1)
        /\ 1 + m - n + i - 1 = m - n + i
    BY <1>1
  <2>2. c[1 + m - n + i] = t[m - n + i]
    BY <1>1, <1>2, <1>3, <1>4, <2>1
  <2>3. s[i] = t[m - n + i]
    BY <1>1 DEF Ends
  <2>. QED
    BY <2>2, <2>3
<1>6. n <= 1 + m
  BY <1>1
<1>. QED
  BY <1>1, <1>2, <1>4, <1>5, <1>6 DEF Ends

LEMMA EndsSelf ==
    ASSUME NEW S, NEW s \in Seq(S)
    PROVE  Ends(s, s)
<1>1. PICK n \in Nat : n = Len(s)
  OBVIOUS
<1>2. \A i \in 1 .. n : n - n + i = i
  OBVIOUS
<1>. QED
  BY <1>1, <1>2 DEF Ends

\* A place that is reached from another has the end of its queue.
LEMMA QueuesOnward ==
    ASSUME LogTypes, NEW buf, NEW base, buf = buffer, base = Base_off,
           base \in 0 .. Size - 1, buf \in Buffers,
           NEW B \in SUBSET (0 .. Size - 1), LaidIn(B, buf, base),
           \A b \in B : LenIn(buf, b) = get_entry_len(b),
           NEW T, T = {p \in B \X B : Ends(QueueAt(buf, base, p[1]), QueueAt(buf, base, p[2]))}
    PROVE  Onward(B, T)
<1>1. \A b \in B : QueueAt(buf, base, b) \in Seq(Entries)
  BY QueueTypes
<1>2. ASSUME NEW b \in B PROVE <<b, b>> \in T
  <2>1. Ends(QueueAt(buf, base, b), QueueAt(buf, base, b))
    BY <1>1, EndsSelf
  <2>. QED
    BY <2>1
<1>3. ASSUME NEW b \in B \ {base}, NEW x \in B,
             <<x, logger_offset(b + LenIn(buf, b))>> \in T
      PROVE  <<x, b>> \in T
  <2>1. /\ LenIn(buf, b) <= Dist(b, base) /\ PayIn(buf, b) \in Entries
        /\ logger_offset(b + LenIn(buf, b)) \in B
    BY DEF LaidIn
  <2>2. PICK y \in Entries, q \in Seq(Entries) :
           y = PayIn(buf, b) /\ q = QueueAt(buf, base, logger_offset(b + LenIn(buf, b)))
    BY <1>1, <2>1
  <2>3. QueueAt(buf, base, b) = <<y>> \o q
    BY <2>1, <2>2, QueueIs
  <2>4. Ends(QueueAt(buf, base, x), q)
    BY <1>3, <2>2
  <2>5. Ends(QueueAt(buf, base, x), <<y>> \o q)
    BY <1>1, <2>4, EndsCons
  <2>. QED
    BY <2>3, <2>5
<1>. QED
  BY <1>2, <1>3 DEF Onward

----------------------------------------------------------------------------
(* The steps of the logger are steps of the queues. *)

\* The queues as Logger's refinement mapping has them.
Kept == Parsed(head)
Unread == [r \in Readers |-> IF r \in readers THEN Parsed(r_off[r]) ELSE << >>]

\* What a read returned is kept only for readers that have the log open.
GotOK == /\ got = [r \in Readers |-> got[r]]
         /\ \A r \in Readers \ readers : got[r] = NoEntry

QueueInv == LossInv /\ GotOK

LEMMA EntryIn ==
    /\ \A b : get_entry_len(b) = LenIn(buffer, b) /\ Payload(b) = PayIn(buffer, b)
    /\ \A b : get_entry_len(b)' = LenIn(buffer', b) /\ Payload(b)' = PayIn(buffer', b)
BY DEF get_entry_len, Payload, LenIn, PayIn, logger_offset

LEMMA MappingIs ==
    /\ Kept = QueueAt(buffer, Base_off, head)
    /\ Unread = [r \in Readers |-> IF r \in readers THEN QueueAt(buffer, Base_off, r_off[r])
                                   ELSE << >>]
<1>1. Parsed(head) = ParseIn(buffer, Base_off)[logger_offset(Base_off - head)]
  BY Zenon DEF Parsed, ParseIn, LenIn, PayIn, get_entry_len, Payload
<1>2. \A r : Parsed(r_off[r]) = ParseIn(buffer, Base_off)[logger_offset(Base_off - r_off[r])]
  BY Zenon DEF Parsed, ParseIn, LenIn, PayIn, get_entry_len, Payload
<1>. QED
  BY <1>1, <1>2, Zenon DEF Kept, Unread, QueueAt, Dist

LEMMA MappingNext ==
    /\ Kept' = QueueAt(buffer', Base_off', head')
    /\ Unread' = [r \in Readers |-> IF r \in readers' THEN QueueAt(buffer', Base_off', r_off'[r])
                                    ELSE << >>]
<1>1. Parsed(head)' = ParseIn(buffer', Base_off')[logger_offset(Base_off' - head')]
  BY Zenon DEF Parsed, ParseIn, LenIn, PayIn, get_entry_len, Payload, logger_offset
<1>2. \A r : Parsed(r_off[r])'
               = ParseIn(buffer', Base_off')[logger_offset(Base_off' - r_off'[r])]
  BY Zenon DEF Parsed, ParseIn, LenIn, PayIn, get_entry_len, Payload, logger_offset
<1>. QED
  BY <1>1, <1>2, Zenon DEF Kept, Unread, QueueAt, Dist

\* The ring with all that the facts about queues ask for.
LEMMA RingNow ==
    ASSUME LossInv
    PROVE  \E buf \in Buffers, base \in 0 .. Size - 1, B \in SUBSET (0 .. Size - 1) :
              /\ buf = buffer /\ base = Base_off /\ Ring(B) /\ LaidIn(B, buf, base)
              /\ base \in B /\ head \in B /\ \A r \in readers : r_off[r] \in B
<1>1. PICK buf \in Buffers : buf = buffer
  BY DEF LossInv, LogTypes, Buffers
<1>2. PICK base \in 0 .. Size - 1 : base = Base_off
  <2>1. w_off \in Int /\ copied \in Int
    BY DEF LossInv, WaitInv, WaitTypes
  <2>. QED
    BY <2>1, OffsetTypes DEF Base_off
<1>3. PICK B \in SUBSET (0 .. Size - 1) : Ring(B)
  BY DEF LossInv, RingOK
<1>4. base \in B /\ head \in B /\ Laid(B) /\ \A r \in readers : r_off[r] \in B
  BY <1>2, <1>3 DEF Ring
<1>5. \A b : get_entry_len(b) = LenIn(buf, b) /\ Payload(b) = PayIn(buf, b)
  BY <1>1, EntryIn
<1>6. LaidIn(B, buf, base)
  BY <1>2, <1>4, <1>5 DEF Laid, LaidIn
<1>. QED
  BY <1>1, <1>2, <1>3, <1>4, <1>6

\* A step that leaves the entries and the places leaves the queues.
LEMMA QueuesStay ==
    ASSUME LossInv, buffer' \in Buffers, Base_off' = Base_off,
           UNCHANGED <<head, readers, r_off, got>>,
           \A B \in SUBSET (0 .. Size - 1) : Ring(B) => EntriesStay(B)
    PROVE  UNCHANGED <<Kept, Unread, readers, got>>
<1>1. PICK buf \in Buffers, base \in 0 .. Size - 1, B \in SUBSET (0 .. Size - 1) :
              /\ buf = buffer /\ base = Base_off /\ Ring(B) /\ LaidIn(B, buf, base)
              /\ base \in B /\ head \in B /\ \A r \in readers : r_off[r] \in B
  BY RingNow
<1>2. PICK new \in Buffers : new = buffer'
  OBVIOUS
<1>3. \A b \in B \ {base} : LenIn(new, b) = LenIn(buf, b) /\ PayIn(new, b) = PayIn(buf, b)
  <2>1. \A b \in B \ {base} : get_entry_len(b)' = get_entry_len(b) /\ Payload(b)' = Payload(b)
    BY <1>1 DEF EntriesStay
  <2>. QED
    BY <1>1, <1>2, <2>1, EntryIn
<1>4. \A b \in B : QueueAt(new, base, b) = QueueAt(buf, base, b)
  BY <1>1, <1>3, QueueSame
<1>5. Kept' = Kept
  BY <1>1, <1>2, <1>4, MappingIs, MappingNext
<1>6. Unread' = Unread
  <2>1. Unread = [r \in Readers |-> IF r \in readers THEN QueueAt(buf, base, r_off[r]) ELSE << >>]
    BY <1>1, MappingIs
  <2>2. Unread' = [r \in Readers |-> IF r \in readers THEN QueueAt(new, base, r_off[r]) ELSE << >>]
    BY <1>1, <1>2, MappingNext
  <2>3. \A r \in readers : QueueAt(new, base, r_off[r]) = QueueAt(buf, base, r_off[r])
    BY <1>1, <1>4
  <2>. QED
    BY <2>1, <2>2, <2>3
<1>. QED
  BY <1>5, <1>6

LEMMA QueuesStill ==
    ASSUME LossInv, Base_off' = Base_off,
           UNCHANGED <<buffer, head, readers, r_off, got>>
    PROVE  UNCHANGED Queue!queueVars
<1>1. buffer' \in Buffers
  BY DEF LossInv, LogTypes, Buffers
<1>2. \A B \in SUBSET (0 .. Size - 1) : EntriesStay(B)
  BY SameBuffer DEF EntriesStay
<1>3. UNCHANGED <<Kept, Unread, readers, got>>
  BY <1>1, <1>2, QueuesStay
<1>. QED
  BY <1>3 DEF Queue!queueVars, Kept, Unread

\* The queues are not concerned.
LEMMA QuietSteps ==
    ASSUME LossInv,
           \/ UNCHANGED loggerVars
           \/ \E w \in Writers : WriteBlocked(w)
           \/ \E r \in Readers : ReadStart(r) \/ ReadCheck(r) \/ ReadRaced(r) \/ ReadFails(r)
    PROVE  UNCHANGED Queue!queueVars
<1>1. UNCHANGED <<buffer, w_off, copied, head, readers, r_off, got>>
  BY DEF loggerVars, logVars, readerVars, writerVars, WriteBlocked, ReadStart, ReadCheck,
         ReadRaced, ReadFails
<1>2. Base_off' = Base_off
  BY <1>1 DEF Base_off
<1>. QED
  BY <1>1, <1>2, QueuesStill

\* A segment lies beyond all the places.
LEMMA SegmentIsQuiet ==
    ASSUME LossInv, NEW w \in Writers, WriteSegment(w)
    PROVE  UNCHANGED Queue!queueVars
<1>1. /\ LogOK' /\ Base_off' = Base_off
      /\ \A B \in SUBSET (0 .. Size - 1) : Ring(B) => EntriesStay(B)
  BY SegmentKeepsLog
<1>2. buffer' \in Buffers
  BY <1>1 DEF LogOK, LogTypes, Buffers
<1>3. UNCHANGED <<head, readers, r_off, got>>
  BY DEF WriteSegment
<1>4. UNCHANGED <<Kept, Unread, readers, got>>
  BY <1>1, <1>2, <1>3, QueuesStay
<1>. QED
  BY <1>4 DEF Queue!queueVars, Kept, Unread

\* A write that fails leaves nothing, when orig is where it began.
LEMMA FaultIsQuiet ==
    ASSUME LossInv, ~ StaleFaults, NEW w \in Writers, WriteFault(w)
    PROVE  UNCHANGED Queue!queueVars
<1>1. PICK base \in 0 .. Size - 1 : base = Base_off
  BY RingNow
<1>2. /\ w_off' = base /\ copied' = 0
      /\ UNCHANGED <<buffer, head, readers, r_off, got>>
  BY <1>1 DEF WriteFault, Unlock, readerVars
<1>3. Base_off' = base
  <2>1. Base_off' = logger_offset(w_off' - copied')
    BY DEF Base_off, logger_offset
  <2>2. Size \in Nat \ {0}
    BY LoggerAssumption
  <2>3. logger_offset(base - 0) = base
    BY <2>2, OffsetNear
  <2>. QED
    BY <1>2, <2>1, <2>3
<1>. QED
  BY <1>1, <1>2, <1>3, QueuesStill

\* The queues before and after a step that only moves readers and the head.
LEMMA QueuesMove ==
    ASSUME LossInv, UNCHANGED <<buffer, w_off, copied>>
    PROVE  \E buf \in Buffers, base \in 0 .. Size - 1, B \in SUBSET (0 .. Size - 1) :
              /\ buf = buffer /\ base = Base_off /\ LaidIn(B, buf, base)
              /\ base \in B /\ head \in B /\ \A r \in readers : r_off[r] \in B
              /\ Kept = QueueAt(buf, base, head)
              /\ Kept' = QueueAt(buf, base, head')
              /\ Unread = [r \in Readers |-> IF r \in readers THEN QueueAt(buf, base, r_off[r])
                                             ELSE << >>]
              /\ Unread' = [r \in Readers |-> IF r \in readers' THEN QueueAt(buf, base, r_off'[r])
                                              ELSE << >>]
<1>1. PICK buf \in Buffers, base \in 0 .. Size - 1, B \in SUBSET (0 .. Size - 1) :
              /\ buf = buffer /\ base = Base_off /\ Ring(B) /\ LaidIn(B, buf, base)
              /\ base \in B /\ head \in B /\ \A r \in readers : r_off[r] \in B
  BY RingNow
<1>2. buf = buffer' /\ base = Base_off'
  BY <1>1 DEF Base_off
<1>. QED
  BY <1>1, <1>2, MappingIs, MappingNext

LEMMA OpenIsOpen ==
    ASSUME QueueInv, NEW r \in Readers, LoggerOpen(r)
    PROVE  Queue!Open(r) /\ GotOK'
<1>1. /\ r \notin readers /\ readers' = readers \cup {r}
      /\ r_off' = [r_off EXCEPT ![r] = head]
      /\ UNCHANGED <<buffer, w_off, copied, head, got>>
  BY DEF LoggerOpen, logVars, writerVars
<1>2. /\ LossInv /\ GotOK /\ r_off \in [Readers -> 0 .. Size - 1] /\ readers \subseteq Readers
  BY DEF QueueInv, LossInv, LogTypes, WaitInv, WaitTypes
<1>3. PICK buf \in Buffers, base \in 0 .. Size - 1, B \in SUBSET (0 .. Size - 1) :
              /\ Kept = QueueAt(buf, base, head)
              /\ Kept' = QueueAt(buf, base, head')
              /\ Unread = [s \in Readers |-> IF s \in readers THEN QueueAt(buf, base, r_off[s])
                                             ELSE << >>]
              /\ Unread' = [s \in Readers |-> IF s \in readers' THEN QueueAt(buf, base, r_off'[s])
                                              ELSE << >>]
  BY <1>1, <1>2, QueuesMove
<1>4. Kept' = Kept
  BY <1>1, <1>3
<1>5. Unread' = [Unread EXCEPT ![r] = Kept]
  BY <1>1, <1>2, <1>3
<1>6. got' = [got EXCEPT ![r] = NoEntry] /\ GotOK'
  BY <1>1, <1>2 DEF GotOK
<1>. QED
  BY <1>1, <1>4, <1>5, <1>6 DEF Queue!Open, Kept, Unread

LEMMA ReleaseIsClose ==
    ASSUME QueueInv, NEW r \in Readers, LoggerRelease(r)
    PROVE  Queue!Close(r) /\ GotOK'
<1>1. /\ r \in readers /\ readers' = readers \ {r}
      /\ r_off' = [r_off EXCEPT ![r] = 0]
      /\ got' = [got EXCEPT ![r] = NoEntry]
      /\ UNCHANGED <<buffer, w_off, copied, head>>
  BY DEF LoggerRelease, logVars, writerVars
<1>2. /\ LossInv /\ GotOK /\ r_off \in [Readers -> 0 .. Size - 1] /\ readers \subseteq Readers
  BY DEF QueueInv, LossInv, LogTypes, WaitInv, WaitTypes
<1>3. PICK buf \in Buffers, base \in 0 .. Size - 1, B \in SUBSET (0 .. Size - 1) :
              /\ Kept = QueueAt(buf, base, head)
              /\ Kept' = QueueAt(buf, base, head')
              /\ Unread = [s \in Readers |-> IF s \in readers THEN QueueAt(buf, base, r_off[s])
                                             ELSE << >>]
              /\ Unread' = [s \in Readers |-> IF s \in readers' THEN QueueAt(buf, base, r_off'[s])
                                              ELSE << >>]
  BY <1>1, <1>2, QueuesMove
<1>4. Kept' = Kept
  BY <1>1, <1>3
<1>5. Unread' = [Unread EXCEPT ![r] = << >>]
  BY <1>1, <1>2, <1>3
<1>6. GotOK'
  BY <1>1, <1>2 DEF GotOK
<1>. QED
  BY <1>1, <1>4, <1>5, <1>6 DEF Queue!Close, Kept, Unread

LEMMA FlushIsFlush ==
    ASSUME QueueInv, FlushLog
    PROVE  Queue!Flush /\ GotOK'
<1>1. /\ mutex = Nobody /\ head' = w_off
      /\ r_off' = [r \in Readers |-> IF r \in readers THEN w_off ELSE 0]
      /\ UNCHANGED <<buffer, w_off, copied, readers, got>>
  BY DEF FlushLog, writerVars
<1>2. LossInv /\ GotOK /\ WaitTypes
  BY DEF QueueInv, LossInv, WaitInv
<1>3. PICK buf \in Buffers, base \in 0 .. Size - 1, B \in SUBSET (0 .. Size - 1) :
              /\ base = Base_off
              /\ Kept' = QueueAt(buf, base, head')
              /\ Unread' = [s \in Readers |-> IF s \in readers' THEN QueueAt(buf, base, r_off'[s])
                                              ELSE << >>]
  BY <1>1, <1>2, QueuesMove
<1>4. base = w_off
  BY <1>1, <1>2, <1>3, FreeStart
<1>5. QueueAt(buf, base, base) = << >>
  BY QueueIs
<1>6. Kept' = << >> /\ Unread' = [r \in Readers |-> << >>]
  BY <1>1, <1>3, <1>4, <1>5
<1>7. GotOK'
  BY <1>1, <1>2 DEF GotOK
<1>. QED
  BY <1>1, <1>6, <1>7 DEF Queue!Flush, Kept, Unread

LEMMA ConsIs ==
    ASSUME NEW S, NEW x \in S, NEW q \in Seq(S)
    PROVE  /\ <<x>> \o q # << >>
           /\ Head(<<x>> \o q) = x /\ Tail(<<x>> \o q) = q
<1>1. PICK h \in Seq(S) : h = <<x>> /\ Len(h) = 1 /\ h[1] = x
  <2>1. <<x>> \in Seq(S) /\ Len(<<x>>) = 1
    OBVIOUS
  <2>. QED
    BY <2>1
<1>2. PICK n \in Nat : n = Len(q)
  OBVIOUS
<1>3. /\ h \o q \in Seq(S)
      /\ Len(h \o q) = Len(h) + Len(q)
      /\ \A i \in 1 .. Len(h) + Len(q) : (h \o q)[i] = IF i <= Len(h) THEN h[i]
                                                       ELSE q[i - Len(h)]
  BY ConcatProperties
<1>4. PICK c \in Seq(S) : c = h \o q /\ Len(c) = n + 1
  <2>1. Len(h) + Len(q) = n + 1
    BY <1>1, <1>2
  <2>. QED
    BY <1>3, <2>1
<1>5. c[1] = x /\ \A i \in 1 .. n : c[i + 1] = q[i]
  <2>1. ASSUME NEW i \in 1 .. n
        PROVE  i + 1 \in 1 .. 1 + n /\ ~ (i + 1 <= 1) /\ i + 1 - 1 = i
    BY <1>2
  <2>2. 1 \in 1 .. 1 + n /\ 1 <= 1
    BY <1>2
  <2>. QED
    BY <1>1, <1>2, <1>3, <1>4, <2>1, <2>2
<1>6. c # << >>
  BY <1>2, <1>4
<1>7. Head(c) = x
  BY <1>5, <1>6
<1>8. Tail(c) = q
  <2>1. Tail(c) \in Seq(S) /\ Len(Tail(c)) = n /\ \A i \in 1 .. n : Tail(c)[i] = c[i + 1]
    BY <1>2, <1>4, <1>6
  <2>. QED
    BY <1>2, <1>5, <2>1, SeqEqual
<1>. QED
  BY <1>1, <1>4, <1>6, <1>7, <1>8

\* A reader that is not at w_off is at an entry.
LEMMA QueueOfReader ==
    ASSUME LossInv, NEW r \in Readers, reading[r] # Idle, mutex = Nobody, w_off # r_off[r],
           NEW buf, buf = buffer, buf \in Buffers,
           NEW base \in 0 .. Size - 1, base = Base_off,
           NEW B \in SUBSET (0 .. Size - 1), LaidIn(B, buf, base),
           \A s \in readers : r_off[s] \in B
    PROVE  /\ r \in readers
           /\ \E x \in Entries, next \in B, q \in Seq(Entries) :
                 /\ x = Payload(r_off[r])
                 /\ next = logger_offset(r_off[r] + get_entry_len(r_off[r]))
                 /\ q = QueueAt(buf, base, next)
                 /\ QueueAt(buf, base, r_off[r]) = <<x>> \o q
<1>1. r \in readers /\ WaitTypes
  BY DEF LossInv, WaitInv
<1>2. base = w_off
  BY <1>1, FreeStart
<1>3. PICK b \in B : b = r_off[r] /\ b # base
  BY <1>1, <1>2
<1>4. LenIn(buf, b) = get_entry_len(b) /\ PayIn(buf, b) = Payload(b)
  BY EntryIn
<1>5. /\ LenIn(buf, b) <= Dist(b, base) /\ PayIn(buf, b) \in Entries
      /\ logger_offset(b + LenIn(buf, b)) \in B
  BY <1>3 DEF LaidIn
<1>6. PICK next \in B : next = logger_offset(b + LenIn(buf, b))
  BY <1>5
<1>7. QueueAt(buf, base, next) \in Seq(Entries)
  BY QueueTypes
<1>8. QueueAt(buf, base, b) = <<PayIn(buf, b)>> \o QueueAt(buf, base, next)
  BY <1>3, <1>5, <1>6, QueueIs
<1>. QED
  BY <1>1, <1>3, <1>4, <1>5, <1>6, <1>7, <1>8

LEMMA WarningIsWarn ==
    ASSUME QueueInv, NEW r \in Readers, WarnOverflow(r)
    PROVE  Queue!Warn(r) /\ GotOK'
<1>1. /\ reading[r] # Idle /\ mutex = Nobody /\ w_off # r_off[r]
      /\ got' = [got EXCEPT ![r] = Warning]
      /\ UNCHANGED <<buffer, w_off, copied, head, readers, r_off>>
  BY DEF WarnOverflow, logVars, writerVars, Idle
<1>2. LossInv /\ GotOK
  BY DEF QueueInv
<1>3. PICK buf \in Buffers, base \in 0 .. Size - 1, B \in SUBSET (0 .. Size - 1) :
              /\ buf = buffer /\ base = Base_off /\ LaidIn(B, buf, base)
              /\ base \in B /\ head \in B /\ \A s \in readers : r_off[s] \in B
              /\ Kept = QueueAt(buf, base, head)
              /\ Kept' = QueueAt(buf, base, head')
              /\ Unread = [s \in Readers |-> IF s \in readers THEN QueueAt(buf, base, r_off[s])
                                             ELSE << >>]
              /\ Unread' = [s \in Readers |-> IF s \in readers' THEN QueueAt(buf, base, r_off'[s])
                                              ELSE << >>]
  BY <1>1, <1>2, QueuesMove
<1>4. /\ r \in readers
      /\ \E x \in Entries, next \in B, q \in Seq(Entries) :
            /\ x = Payload(r_off[r])
            /\ next = logger_offset(r_off[r] + get_entry_len(r_off[r]))
            /\ q = QueueAt(buf, base, next)
            /\ QueueAt(buf, base, r_off[r]) = <<x>> \o q
  <2>1. reading[r] # Idle /\ mutex = Nobody /\ w_off # r_off[r] /\ LossInv
    BY <1>1, <1>2
  <2>2. /\ buf = buffer /\ base = Base_off /\ LaidIn(B, buf, base)
        /\ \A s \in readers : r_off[s] \in B
    BY <1>3
  <2>. QED
    BY <2>1, <2>2, QueueOfReader
<1>5. Unread[r] # << >>
  BY <1>3, <1>4, ConsIs
<1>6. Kept' = Kept /\ Unread' = Unread
  BY <1>1, <1>3
<1>7. GotOK'
  BY <1>1, <1>2, <1>4 DEF GotOK
<1>. QED
  BY <1>1, <1>4, <1>5, <1>6, <1>7 DEF Queue!Warn, Kept, Unread

LEMMA ReadIsRead ==
    ASSUME QueueInv, NEW r \in Readers, ReadEntry(r)
    PROVE  Queue!Read(r) /\ GotOK'
<1>1. /\ reading[r] # Idle /\ mutex = Nobody /\ w_off # r_off[r]
      /\ got' = [got EXCEPT ![r] = Payload(r_off[r])]
      /\ r_off' = [r_off EXCEPT ![r] = logger_offset(r_off[r] + get_entry_len(r_off[r]))]
      /\ UNCHANGED <<buffer, w_off, copied, head, readers>>
  BY DEF ReadEntry, logVars, writerVars, Idle
<1>2. LossInv /\ GotOK /\ r_off \in [Readers -> 0 .. Size - 1]
  BY DEF QueueInv, LossInv, LogTypes
<1>3. PICK buf \in Buffers, base \in 0 .. Size - 1, B \in SUBSET (0 .. Size - 1) :
              /\ buf = buffer /\ base = Base_off /\ LaidIn(B, buf, base)
              /\ base \in B /\ head \in B /\ \A s \in readers : r_off[s] \in B
              /\ Kept = QueueAt(buf, base, head)
              /\ Kept' = QueueAt(buf, base, head')
              /\ Unread = [s \in Readers |-> IF s \in readers THEN QueueAt(buf, base, r_off[s])
                                             ELSE << >>]
              /\ Unread' = [s \in Readers |-> IF s \in readers' THEN QueueAt(buf, base, r_off'[s])
                                              ELSE << >>]
  BY <1>1, <1>2, QueuesMove
<1>4. /\ r \in readers
      /\ \E x \in Entries, next \in B, q \in Seq(Entries) :
            /\ x = Payload(r_off[r])
            /\ next = logger_offset(r_off[r] + get_entry_len(r_off[r]))
            /\ q = QueueAt(buf, base, next)
            /\ QueueAt(buf, base, r_off[r]) = <<x>> \o q
  <2>1. reading[r] # Idle /\ mutex = Nobody /\ w_off # r_off[r] /\ LossInv
    BY <1>1, <1>2
  <2>2. /\ buf = buffer /\ base = Base_off /\ LaidIn(B, buf, base)
        /\ \A s \in readers : r_off[s] \in B
    BY <1>3
  <2>. QED
    BY <2>1, <2>2, QueueOfReader
<1>5. PICK x \in Entries, next \in B, q \in Seq(Entries) :
         /\ x = Payload(r_off[r]) /\ next = logger_offset(r_off[r] + get_entry_len(r_off[r]))
         /\ q = QueueAt(buf, base, next) /\ QueueAt(buf, base, r_off[r]) = <<x>> \o q
  BY <1>4
<1>6. Unread[r] = <<x>> \o q /\ Unread'[r] = q
  <2>1. r_off'[r] = next
    BY <1>1, <1>2, <1>5
  <2>. QED
    BY <1>1, <1>3, <1>4, <1>5, <2>1
<1>7. Unread[r] # << >> /\ Head(Unread[r]) = x /\ Tail(Unread[r]) = q
  BY <1>6, ConsIs
<1>8. Kept' = Kept
  BY <1>1, <1>3
<1>9. Unread' = [Unread EXCEPT ![r] = Tail(Unread[r])]
  <2>1. \A s \in Readers \ {r} : Unread'[s] = Unread[s]
    BY <1>1, <1>2, <1>3
  <2>2. /\ Unread' = [s \in Readers |-> Unread'[s]]
        /\ Unread = [s \in Readers |-> Unread[s]]
    BY <1>3
  <2>. QED
    BY <1>6, <1>7, <2>1, <2>2
<1>10. got' = [got EXCEPT ![r] = Head(Unread[r])]
  BY <1>1, <1>5, <1>7
<1>11. GotOK'
  BY <1>1, <1>2, <1>4 DEF GotOK
<1>. QED
  BY <1>1, <1>4, <1>7, <1>8, <1>9, <1>10, <1>11 DEF Queue!Read, Kept, Unread

\* The write that ends adds its entry to every queue, and there is room in all.
LEMMA EndIsAdd ==
    ASSUME QueueInv, NEW w \in Writers, WriteEnd(w)
    PROVE  (\E e \in Entries : Queue!Add(e)) /\ GotOK'
<1>1. PICK e, len : e = writing /\ len = EntrySize(e)
  OBVIOUS
<1>2. /\ mutex = w /\ copied = len /\ copied' = 0
      /\ UNCHANGED <<buffer, w_off, head, readers, r_off, got>>
  BY <1>1 DEF WriteEnd, Unlock, logVars
<1>3. w # Nobody /\ Size \in Nat \ {0}
  BY LoggerAssumption
<1>4. LossInv /\ GotOK /\ WaitTypes /\ WriteOK
  BY DEF QueueInv, LossInv, WaitInv
<1>5. e \in Entries /\ get_entry_len(Base_off) = len /\ Payload(Base_off) = e
  BY <1>1, <1>2, <1>3, <1>4, PayloadWritten DEF WriteOK
<1>6. len \in Nat /\ len > 2 /\ 2 * len <= Size
  BY <1>1, <1>5, ImageIs DEF HEADER
<1>7. PICK buf \in Buffers, base \in 0 .. Size - 1, B \in SUBSET (0 .. Size - 1) :
              /\ buf = buffer /\ base = Base_off /\ Ring(B) /\ LaidIn(B, buf, base)
              /\ base \in B /\ head \in B /\ \A r \in readers : r_off[r] \in B
  BY <1>4, RingNow
<1>8. w_off = logger_offset(base + len)
  <2>1. copied <= Size
    BY <1>2, <1>3, <1>6
  <2>. QED
    BY <1>2, <1>4, <1>7, <2>1, PlaceIs
<1>9. PICK next \in 0 .. Size - 1 : next = w_off
  BY <1>4 DEF WaitTypes
<1>10. Base_off' = next
  <2>1. Base_off' = logger_offset(w_off' - copied')
    BY DEF Base_off, logger_offset
  <2>2. logger_offset(next - 0) = next
    BY <1>3, OffsetNear
  <2>. QED
    BY <1>2, <1>9, <2>1, <2>2
<1>11. \A b \in B : Dist(b, base) + len < Size
  BY <1>1, <1>2, <1>3, <1>7 DEF Ring, Clear
<1>12. LenIn(buf, base) = len /\ PayIn(buf, base) = e
  BY <1>5, <1>7, EntryIn
<1>13. \A b \in B : QueueAt(buf, next, b) = Append(QueueAt(buf, base, b), e)
  <2>1. len > 0
    BY <1>6
  <2>. QED
    BY <1>5, <1>6, <1>7, <1>8, <1>9, <1>11, <1>12, <2>1, QueueAppend
<1>14. \A b \in B : Queue!Fits(QueueAt(buf, base, b), e)
  <2>1. \A b \in B : Queue!Bytes(QueueAt(buf, base, b)) = Dist(b, base)
    BY <1>7, QueueTypes
  <2>. QED
    BY <1>1, <1>11, <2>1 DEF Queue!Fits
<1>15. /\ Kept = QueueAt(buf, base, head) /\ Kept' = QueueAt(buf, next, head)
       /\ Unread = [r \in Readers |-> IF r \in readers THEN QueueAt(buf, base, r_off[r])
                                      ELSE << >>]
       /\ Unread' = [r \in Readers |-> IF r \in readers THEN QueueAt(buf, next, r_off[r])
                                       ELSE << >>]
  BY <1>2, <1>7, <1>10, MappingIs, MappingNext
<1>16. readers \subseteq Readers
  BY <1>4 DEF WaitTypes
<1>17. Queue!Fits(Kept, e) /\ \A r \in readers : Queue!Fits(Unread[r], e)
  BY <1>7, <1>14, <1>15, <1>16
<1>18. Kept' = Append(Kept, e)
  BY <1>7, <1>13, <1>15
<1>19. Unread' = [r \in Readers |-> IF r \in readers THEN Append(Unread[r], e) ELSE << >>]
  BY <1>7, <1>13, <1>15
<1>20. GotOK'
  BY <1>2, <1>4 DEF GotOK
<1>21. Queue!Add(e)
  BY <1>2, <1>17, <1>18, <1>19 DEF Queue!Add, Kept, Unread
<1>. QED
  BY <1>1, <1>5, <1>20, <1>21

\* fix_up_readers makes room in the queues that have none for the new entry,
\* by taking entries from their front.
LEMMA HeaderIsMakeRoom ==
    ASSUME QueueInv, NEW w \in Writers, NEW e \in Entries, WriteHeader(w, e)
    PROVE  Queue!MakeRoom(e) /\ GotOK'
<1>1. PICK len : len = EntrySize(e)
  OBVIOUS
<1>2. PICK bytes \in Seq(0 .. Base - 1) :
              /\ bytes = SubSeq(Image(e), 1, HEADER)
              /\ Len(bytes) = HEADER
              /\ bytes[1] = Len(e) % Base /\ bytes[2] = Len(e) \div Base
  BY HeaderBytes
<1>3. /\ mutex = Nobody /\ copied' = HEADER /\ writing' = e
      /\ head' = FixUp(head, len)
      /\ r_off' = [r \in Readers |-> IF r \in readers THEN FixUp(r_off[r], len) ELSE 0]
      /\ DoWrite(bytes)
      /\ readers' = readers /\ got' = got
  BY <1>1, <1>2 DEF WriteHeader
<1>4. LossInv /\ GotOK /\ WaitTypes /\ LogTypes /\ readers \subseteq Readers /\ Size \in Nat \ {0}
  BY LoggerAssumption DEF QueueInv, LossInv, WaitInv, WaitTypes
<1>5. len \in Nat /\ len > 2 /\ 2 * len <= Size /\ len >= 1 /\ len > HEADER
  BY <1>1, ImageIs DEF HEADER
<1>6. Base_off' = Base_off
  BY <1>2, <1>3, <1>4, HeaderWritten
<1>7. PICK buf \in Buffers, base \in 0 .. Size - 1, B \in SUBSET (0 .. Size - 1) :
              /\ buf = buffer /\ base = Base_off /\ Ring(B) /\ LaidIn(B, buf, base)
              /\ base \in B /\ head \in B /\ \A r \in readers : r_off[r] \in B
  BY <1>4, RingNow
<1>8. PICK new \in Buffers : new = buffer'
  <2>1. LogOK'
    BY <1>4, HeaderKeepsLog
  <2>. QED
    BY <2>1 DEF LogOK, LogTypes, Buffers
<1>9. PICK A \in SUBSET (0 .. Size - 1) : A = {b \in B : Dist(b, base) + len < Size}
  OBVIOUS
<1>10. Laid(A) /\ EntriesStay(A)
  BY <1>2, <1>3, <1>4, <1>5, <1>6, <1>7, <1>9, PlacesLeft
<1>11. LaidIn(A, buf, base)
  BY <1>7, <1>10, EntryIn DEF Laid, LaidIn
<1>12. \A b \in A \ {base} : LenIn(new, b) = LenIn(buf, b) /\ PayIn(new, b) = PayIn(buf, b)
  <2>1. \A b \in A \ {base} : get_entry_len(b)' = get_entry_len(b) /\ Payload(b)' = Payload(b)
    BY <1>7, <1>10 DEF EntriesStay
  <2>. QED
    BY <1>7, <1>8, <2>1, EntryIn
<1>13. \A b \in A : QueueAt(new, base, b) = QueueAt(buf, base, b)
  BY <1>11, <1>12, QueueSame
<1>14. PICK T : T = {p \in B \X B : Ends(QueueAt(buf, base, p[1]), QueueAt(buf, base, p[2]))}
  OBVIOUS
<1>15. Onward(B, T)
  <2>1. \A b \in B : LenIn(buf, b) = get_entry_len(b)
    BY <1>7, EntryIn
  <2>. QED
    BY <1>4, <1>7, <1>14, <2>1, QueuesOnward
<1>16. \A b \in B : /\ QueueAt(buf, base, b) \in Seq(Entries)
                    /\ Queue!Bytes(QueueAt(buf, base, b)) = Dist(b, base)
  BY <1>7, QueueTypes
<1>17. ASSUME NEW off \in B
       PROVE  Queue!Room(QueueAt(buf, base, off), QueueAt(new, base, FixUp(off, len)), e)
  <2>1. PICK on \in B : /\ on = FixUp(off, len) /\ <<on, off>> \in T
                        /\ Dist(on, base) + len < Size
                        /\ Dist(off, base) + len < Size => on = off
    <3>1. Laid(B)
      BY <1>7 DEF Ring
    <3>. QED
      BY <1>3, <1>4, <1>5, <1>7, <1>15, <3>1, FixUpLands
  <2>2. QueueAt(new, base, on) = QueueAt(buf, base, on)
    BY <1>9, <1>13, <2>1
  <2>3. Queue!Fits(QueueAt(buf, base, on), e)
    BY <1>1, <1>16, <2>1 DEF Queue!Fits
  <2>4. Queue!Fits(QueueAt(buf, base, off), e) => on = off
    BY <1>1, <1>16, <2>1 DEF Queue!Fits
  <2>5. Ends(QueueAt(buf, base, on), QueueAt(buf, base, off))
    BY <1>14, <2>1
  <2>6. Queue!IsSuffix(QueueAt(buf, base, on), QueueAt(buf, base, off))
    BY <1>16, <2>5, EndsIsSuffix
  <2>. QED
    BY <2>1, <2>2, <2>3, <2>4, <2>6 DEF Queue!Room
<1>18. /\ Kept = QueueAt(buf, base, head) /\ Kept' = QueueAt(new, base, FixUp(head, len))
       /\ Unread = [r \in Readers |-> IF r \in readers THEN QueueAt(buf, base, r_off[r])
                                      ELSE << >>]
       /\ Unread' = [r \in Readers |-> IF r \in readers
                                       THEN QueueAt(new, base, FixUp(r_off[r], len))
                                       ELSE << >>]
  <2>1. /\ Kept' = QueueAt(new, base, head')
        /\ Unread' = [r \in Readers |-> IF r \in readers THEN QueueAt(new, base, r_off'[r])
                                        ELSE << >>]
    BY <1>3, <1>6, <1>7, <1>8, MappingNext
  <2>2. \A r \in readers : r_off'[r] = FixUp(r_off[r], len)
    BY <1>3, <1>4
  <2>. QED
    BY <1>3, <1>7, <2>1, <2>2, MappingIs
<1>19. Queue!Room(Kept, Kept', e)
  BY <1>7, <1>17, <1>18
<1>20. \A r \in readers : Queue!Room(Unread[r], Unread'[r], e)
  BY <1>4, <1>7, <1>17, <1>18
<1>21. DOMAIN Unread' = Readers /\ \A r \in Readers \ readers : Unread'[r] = << >>
  BY <1>18
<1>22. GotOK'
  BY <1>3, <1>4 DEF GotOK
<1>23. Queue!MakeRoom(e)
  BY <1>3, <1>19, <1>20, <1>21 DEF Queue!MakeRoom, Kept, Unread
<1>. QED
  BY <1>22, <1>23

LEMMA QueueInit == LoggerInit => QueueInv /\ Queue!QInit
<1>. SUFFICES ASSUME LoggerInit PROVE QueueInv /\ Queue!QInit
  OBVIOUS
<1>1. LossInv
  BY LossInit
<1>2. /\ head = 0 /\ readers = {} /\ got = [r \in Readers |-> NoEntry]
      /\ mutex = Nobody /\ w_off = 0
  BY DEF LoggerInit
<1>3. PICK buf \in Buffers, base \in 0 .. Size - 1, B \in SUBSET (0 .. Size - 1) :
         buf = buffer /\ base = Base_off
  BY <1>1, RingNow
<1>4. base = 0
  BY <1>1, <1>2, <1>3, FreeStart DEF LossInv, WaitInv
<1>5. Kept = << >>
  BY <1>2, <1>3, <1>4, QueueIs, MappingIs
<1>6. Unread = [r \in Readers |-> << >>]
  BY <1>2, MappingIs
<1>7. GotOK
  BY <1>2 DEF GotOK
<1>. QED
  BY <1>1, <1>2, <1>5, <1>6, <1>7 DEF QueueInv, Queue!QInit, Kept, Unread

\* Every step of the logger is a step of the queues or leaves them alone.
LEMMA QueueStep ==
    ASSUME QueueInv, ~ StaleFaults, [LoggerNext]_loggerVars
    PROVE  QueueInv' /\ [Queue!QNext]_(Queue!queueVars)
<1>1. LossInv /\ GotOK /\ LossInv'
  BY LossStep DEF QueueInv
<1>2. ASSUME UNCHANGED <<readers, got>> PROVE GotOK'
  BY <1>1, <1>2 DEF GotOK
<1>3. CASE \/ UNCHANGED loggerVars
           \/ \E w \in Writers : WriteBlocked(w)
           \/ \E r \in Readers : ReadStart(r) \/ ReadCheck(r) \/ ReadRaced(r) \/ ReadFails(r)
  <2>1. UNCHANGED Queue!queueVars
    BY <1>1, <1>3, QuietSteps
  <2>2. UNCHANGED <<readers, got>>
    BY <1>3 DEF loggerVars, readerVars, WriteBlocked, ReadStart, ReadCheck, ReadRaced, ReadFails
  <2>. QED
    BY <1>1, <1>2, <2>1, <2>2 DEF QueueInv
<1>4. ASSUME NEW w \in Writers, WriteSegment(w) PROVE GotOK' /\ UNCHANGED Queue!queueVars
  BY <1>1, <1>2, <1>4, SegmentIsQuiet DEF WriteSegment
<1>5. ASSUME NEW w \in Writers, WriteFault(w) PROVE GotOK' /\ UNCHANGED Queue!queueVars
  BY <1>1, <1>2, <1>5, FaultIsQuiet DEF WriteFault, readerVars
<1>6. ASSUME NEW w \in Writers, NEW e \in Entries, WriteHeader(w, e)
      PROVE  GotOK' /\ Queue!QNext
  BY <1>6, HeaderIsMakeRoom DEF Queue!QNext
<1>7. ASSUME NEW w \in Writers, WriteEnd(w) PROVE GotOK' /\ Queue!QNext
  BY <1>7, EndIsAdd DEF Queue!QNext
<1>8. ASSUME NEW r \in Readers, LoggerOpen(r) PROVE GotOK' /\ Queue!QNext
  BY <1>8, OpenIsOpen DEF Queue!QNext
<1>9. ASSUME NEW r \in Readers, LoggerRelease(r) PROVE GotOK' /\ Queue!QNext
  BY <1>9, ReleaseIsClose DEF Queue!QNext
<1>10. ASSUME NEW r \in Readers, WarnOverflow(r) PROVE GotOK' /\ Queue!QNext
  BY <1>10, WarningIsWarn DEF Queue!QNext
<1>11. ASSUME NEW r \in Readers, ReadEntry(r) PROVE GotOK' /\ Queue!QNext
  BY <1>11, ReadIsRead DEF Queue!QNext
<1>12. CASE FlushLog
  BY <1>1, <1>12, FlushIsFlush DEF Queue!QNext, QueueInv
<1>13. CASE WriterStep
  BY <1>1, <1>3, <1>4, <1>5, <1>6, <1>7, <1>13 DEF WriterStep, QueueInv
<1>14. CASE ReaderStep
  BY <1>1, <1>3, <1>8, <1>9, <1>10, <1>11, <1>14 DEF ReaderStep, QueueInv
<1>. QED
  BY <1>3, <1>12, <1>13, <1>14 DEF LoggerNext

\* The ring buffer implements the queue of entries: whatever is overtaken or
\* wraps, each reader gets the entries in the order they were written, each
\* once, with none missing but the oldest, and those only when there is no room
\* for a write, as long as a write that fails takes back only its own bytes.
THEOREM RingImplementsQueue == ~ StaleFaults => (LoggerSpec => ImplementsQueue)
<1>. SUFFICES ASSUME ~ StaleFaults PROVE LoggerSpec => ImplementsQueue
  OBVIOUS
<1>1. QueueInv /\ [LoggerNext]_loggerVars => QueueInv' /\ [Queue!QNext]_(Queue!queueVars)
  BY QueueStep
<1>. QED
  BY <1>1, QueueInit, PTL DEF LoggerSpec, ImplementsQueue, Queue!QSpec

\* A read returns one whole entry that was written, or the warning.
LEMMA GotWhole ==
    ASSUME QueueInv, ReadsOneEntry, [LoggerNext]_loggerVars
    PROVE  ReadsOneEntry'
<1>1. CASE UNCHANGED got
  BY <1>1 DEF ReadsOneEntry
<1>2. ASSUME NEW r \in Readers, NEW x \in Entries \cup {NoEntry, Warning},
             got' = [got EXCEPT ![r] = x]
      PROVE  ReadsOneEntry'
  BY <1>2 DEF QueueInv, GotOK, ReadsOneEntry
<1>3. ASSUME NEW r \in Readers, LoggerRelease(r) PROVE ReadsOneEntry'
  BY <1>2, <1>3 DEF LoggerRelease
<1>4. ASSUME NEW r \in Readers, WarnOverflow(r) PROVE ReadsOneEntry'
  BY <1>2, <1>4 DEF WarnOverflow
<1>5. ASSUME NEW r \in Readers, ReadEntry(r) PROVE ReadsOneEntry'
  <2>1. /\ reading[r] # Idle /\ mutex = Nobody /\ w_off # r_off[r]
        /\ got' = [got EXCEPT ![r] = Payload(r_off[r])]
    BY <1>5 DEF ReadEntry, Idle
  <2>2. Payload(r_off[r]) \in Entries
    <3>1. LossInv
      BY DEF QueueInv
    <3>2. PICK buf \in Buffers, base \in 0 .. Size - 1, B \in SUBSET (0 .. Size - 1) :
              /\ buf = buffer /\ base = Base_off /\ Ring(B) /\ LaidIn(B, buf, base)
              /\ base \in B /\ head \in B /\ \A s \in readers : r_off[s] \in B
      BY <3>1, RingNow
    <3>. QED
      BY <2>1, <3>1, <3>2, QueueOfReader
  <2>. QED
    BY <1>2, <2>1, <2>2
<1>6. WriterStep \/ FlushLog => UNCHANGED got
  BY DEF WriterStep, WriteBlocked, WriteHeader, WriteSegment, WriteEnd, WriteFault,
         FlushLog, readerVars
<1>7. CASE ReaderStep
  <2>1. ASSUME NEW r \in Readers,
               LoggerOpen(r) \/ ReadStart(r) \/ ReadCheck(r) \/ ReadRaced(r) \/ ReadFails(r)
        PROVE  UNCHANGED got
    BY <2>1 DEF LoggerOpen, ReadStart, ReadCheck, ReadRaced, ReadFails
  <2>. QED
    BY <1>1, <1>3, <1>4, <1>5, <1>7, <2>1 DEF ReaderStep
<1>. QED
  BY <1>1, <1>6, <1>7 DEF LoggerNext, loggerVars, readerVars

\* Atomically one log entry: what a read returns is an entry that was written,
\* as long as a write that fails takes back only its own bytes.
THEOREM ReadsAreWhole == ~ StaleFaults => (LoggerSpec => []ReadsOneEntry)
<1>. SUFFICES ASSUME ~ StaleFaults PROVE LoggerSpec => []ReadsOneEntry
  OBVIOUS
<1>1. QueueInv /\ [LoggerNext]_loggerVars => QueueInv' /\ [Queue!QNext]_(Queue!queueVars)
  BY QueueStep
<1>2. QueueInv /\ ReadsOneEntry /\ [LoggerNext]_loggerVars => ReadsOneEntry'
  BY GotWhole
<1>3. LoggerInit => QueueInv /\ ReadsOneEntry
  BY QueueInit DEF LoggerInit, ReadsOneEntry
<1>. QED
  BY <1>1, <1>2, <1>3, PTL DEF LoggerSpec
=============================================================================
