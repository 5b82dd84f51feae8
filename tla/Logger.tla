------------------------------- MODULE Logger -------------------------------
(***************************************************************************)
(* The Android logger, drivers/staging/android/logger.c: one log, a ring   *)
(* buffer in which writers overtake the readers that are too slow.         *)
(*                                                                         *)
(* A byte of the buffer is a digit below Base and the header of an entry   *)
(* is just its two byte length, low digit first; an entry is the sequence  *)
(* of its payload's digits.  The build has one CPU and no preemption, so   *)
(* tasks switch only where the code sleeps: waiting for the mutex, for an  *)
(* entry, or for user memory, which a writer may do between any two of its *)
(* segments with the mutex held.  A reader may also lose the CPU between   *)
(* its two critical sections, as logger_read allows for.                   *)
(*                                                                         *)
(* The byte counters log->sign and reader->sign, by which the overflow     *)
(* warning is given, are kept as what is compared: their difference, up to *)
(* the size of the log, and log->sign % log->size.                         *)
(***************************************************************************)
EXTENDS Integers, Sequences, FiniteSets

CONSTANTS Writers, Readers,
          Entries,      \* payloads that are written
          Base,         \* values of a byte
          Size,         \* log->size
          MaxFaults,    \* bound on the number of writes that fault
          StaleFaults   \* may a write fault whose orig is out of date

Nobody == "nobody"
HEADER == 2             \* sizeof(struct logger_entry)
EntrySize(e) == HEADER + Len(e)

\* get_next_entry skips at least the new entry's length, from a place that is
\* up to as much ahead of w_off: it must not get past w_off again.
ASSUME LoggerAssumption ==
    /\ Base \in Nat \ {0, 1}
    /\ Size \in Nat \ {0}
    /\ Nobody \notin Writers
    /\ \A e \in Entries : /\ e \in Seq(0 .. Base - 1)
                          /\ Len(e) \in 1 .. Base * Base - 1
                          /\ 2 * EntrySize(e) <= Size
    /\ MaxFaults \in Nat /\ StaleFaults \in BOOLEAN

VARIABLES buffer, w_off, head,
          sign,        \* log->sign % log->size
          readers,     \* log->readers
          r_off,
          lag,         \* log->sign - reader->sign, up to Size
          mutex,       \* the writer that holds log->mutex, or Nobody
          orig,        \* logger_aio_write's local variable, or NotWriting
          writing,     \* the entry of the write under way
          copied,      \* bytes of it that are in the buffer
          reading,     \* where each reader is in logger_read
          got,         \* what its last read returned
          overtaken,   \* history: readers pulled forward and not yet warned
          faults       \* history: writes that have failed

Idle == "idle"
NotWriting == -1
NoEntry == << >>     \* null writes never get to the buffer
Warning == <<-1>>    \* the text of warn_overflow

logVars == <<buffer, w_off, head, sign>>
readerVars == <<readers, r_off, lag, reading, got, overtaken>>
writerVars == <<mutex, orig, writing, copied, faults>>
loggerVars == <<logVars, readerVars, writerVars>>

logger_offset(n) == n % Size

----------------------------------------------------------------------------
(* Entries in the ring. *)

\* The second byte of the length may lie at the start of the buffer.
get_entry_len(off) == HEADER + buffer[off]
                      + Base * buffer[IF off = Size - 1 THEN 0 ELSE off + 1]

Payload(off) == [i \in 1 .. get_entry_len(off) - HEADER |->
                    buffer[logger_offset(off + HEADER + i - 1)]]

get_next_entry(off, len) ==
    LET skip[count \in Nat] ==
            IF count >= len THEN count
            ELSE skip[count + get_entry_len(logger_offset(off + count))]
    IN  logger_offset(off + skip[get_entry_len(off)])

IntervalOpen(a, b, c) == IF b < a THEN a < c \/ b > c ELSE a < c /\ b > c
clock_interval(a, b, c) == IF b < a THEN a < c \/ b >= c ELSE a < c /\ b >= c

\* The bytes of an entry with its header.
Image(e) == <<Len(e) % Base, Len(e) \div Base>> \o e

\* do_write_log and do_write_log_from_user: both count every byte in sign.
Capped(n) == IF n > Size THEN Size ELSE n
DoWrite(bytes) ==
    /\ buffer' = [o \in 0 .. Size - 1 |->
                     LET i == logger_offset(o - w_off) + 1
                     IN  IF i <= Len(bytes) THEN bytes[i] ELSE buffer[o]]
    /\ w_off' = logger_offset(w_off + Len(bytes))
    /\ sign' = (sign + Len(bytes)) % Size
    /\ lag' = [r \in Readers |-> IF r \in readers THEN Capped(lag[r] + Len(bytes)) ELSE 0]

----------------------------------------------------------------------------
(* Writers: logger_aio_write. *)

\* w_off is read before mutex_lock, which sleeps if the mutex is held.
WriteBlocked(w) ==
    /\ orig[w] = NotWriting
    /\ mutex # Nobody
    /\ orig' = [orig EXCEPT ![w] = w_off]
    /\ UNCHANGED <<logVars, readerVars, mutex, writing, copied, faults>>

\* fix_up_readers, then the header.
FixUp(off, len) == IF clock_interval(w_off, logger_offset(w_off + len), off)
                   THEN get_next_entry(off, len) ELSE off
WriteHeader(w, e) ==
    LET len == EntrySize(e)
    IN  /\ mutex = Nobody
        /\ mutex' = w
        /\ head' = FixUp(head, len)
        /\ r_off' = [r \in Readers |-> IF r \in readers THEN FixUp(r_off[r], len) ELSE 0]
        /\ overtaken' = overtaken \cup {r \in readers : r_off'[r] # r_off[r]}
        /\ writing' = e
        /\ orig' = IF orig[w] = NotWriting THEN [orig EXCEPT ![w] = w_off] ELSE orig
        /\ DoWrite(SubSeq(Image(e), 1, HEADER))
        /\ copied' = HEADER
        /\ UNCHANGED <<readers, reading, got, faults>>

\* A segment of the payload, here a byte.
WriteSegment(w) ==
    /\ mutex = w
    /\ copied < EntrySize(writing)
    /\ DoWrite(<<Image(writing)[copied + 1]>>)
    /\ copied' = copied + 1
    /\ UNCHANGED <<head, readers, r_off, reading, got, overtaken, mutex, orig,
                   writing, faults>>

Unlock(w) == /\ mutex' = Nobody
             /\ copied' = 0
             /\ writing' = NoEntry
             /\ orig' = [orig EXCEPT ![w] = NotWriting]

WriteEndSilent(w) ==
    /\ mutex = w
    /\ copied = EntrySize(writing)
    /\ Unlock(w)
    /\ UNCHANGED <<logVars, readerVars, faults>>
WriteEnd(w) ==
    /\ mutex = w
    /\ copied = EntrySize(writing)
    /\ Unlock(w)
    /\ reading' = [r \in Readers |->
                      IF reading[r] = "waiting" THEN "start" ELSE reading[r]]
    /\ UNCHANGED <<logVars, readers, r_off, lag, got, overtaken, faults>>

\* copy_from_user fails in the next segment.
Base_off == logger_offset(w_off - copied)  \* where the current write began
WriteFault(w) ==
    /\ mutex = w
    /\ copied < EntrySize(writing)
    /\ StaleFaults \/ orig[w] = Base_off
    /\ w_off' = orig[w]
    /\ faults < MaxFaults
    /\ faults' = faults + 1
    /\ Unlock(w)
    /\ UNCHANGED <<buffer, head, sign, readerVars>>

----------------------------------------------------------------------------
(* Readers. *)

\* The lag of a reader at off, by logger_open and warn_overflow.
LagZero(off) == 0
LagAt(off) == (sign - off) % Size

LoggerOpen(r) ==
    /\ r \notin readers
    /\ mutex = Nobody
    /\ readers' = readers \cup {r}
    /\ r_off' = [r_off EXCEPT ![r] = head]
    /\ lag' = [lag EXCEPT ![r] = LagAt(head)]
    /\ UNCHANGED <<logVars, reading, got, overtaken, writerVars>>

\* Without the mutex, so also while a writer sleeps with it.
LoggerRelease(r) ==
    /\ r \in readers
    /\ reading[r] = Idle
    /\ readers' = readers \ {r}
    /\ r_off' = [r_off EXCEPT ![r] = 0]
    /\ lag' = [lag EXCEPT ![r] = 0]
    /\ got' = [got EXCEPT ![r] = NoEntry]
    /\ overtaken' = overtaken \ {r}
    /\ UNCHANGED <<logVars, reading, writerVars>>

ReadStart(r) ==
    /\ r \in readers
    /\ reading[r] = Idle
    /\ reading' = [reading EXCEPT ![r] = "start"]
    /\ UNCHANGED <<logVars, readers, r_off, lag, got, overtaken, writerVars>>

\* The loop of logger_read: wait while there is nothing.
ReadCheck(r) ==
    /\ reading[r] = "start"
    /\ mutex = Nobody
    /\ reading' = [reading EXCEPT ![r] = IF w_off = r_off[r] THEN "waiting" ELSE "get"]
    /\ UNCHANGED <<logVars, readers, r_off, lag, got, overtaken, writerVars>>

\* With the mutex taken again, there may be nothing left: start over.
ReadRaced(r) ==
    /\ reading[r] = "get"
    /\ mutex = Nobody
    /\ w_off = r_off[r]
    /\ reading' = [reading EXCEPT ![r] = "start"]
    /\ UNCHANGED <<logVars, readers, r_off, lag, got, overtaken, writerVars>>

\* The first read after an overflow returns a warning in place of an entry.
IsOverflow(r) == lag[r] >= Size
WarnOverflow(r) ==
    /\ reading[r] = "get"
    /\ mutex = Nobody
    /\ w_off # r_off[r]
    /\ IsOverflow(r)
    /\ got' = [got EXCEPT ![r] = Warning]
    /\ lag' = [lag EXCEPT ![r] = LagAt(r_off[r])]
    /\ overtaken' = overtaken \ {r}
    /\ reading' = [reading EXCEPT ![r] = Idle]
    /\ UNCHANGED <<logVars, readers, r_off, writerVars>>

ReadEntry(r) ==
    /\ reading[r] = "get"
    /\ mutex = Nobody
    /\ w_off # r_off[r]
    /\ ~ IsOverflow(r)
    /\ LET len == get_entry_len(r_off[r])
       IN  /\ got' = [got EXCEPT ![r] = Payload(r_off[r])]
           /\ r_off' = [r_off EXCEPT ![r] = logger_offset(@ + len)]
           /\ lag' = [lag EXCEPT ![r] = @ - len]
    /\ reading' = [reading EXCEPT ![r] = Idle]
    /\ UNCHANGED <<logVars, readers, overtaken, writerVars>>

\* -EAGAIN, -EINTR, -EINVAL for a buffer too small, -EFAULT.
ReadFails(r) ==
    /\ reading[r] \in {"waiting", "get"}
    /\ reading' = [reading EXCEPT ![r] = Idle]
    /\ UNCHANGED <<logVars, readers, r_off, lag, got, overtaken, writerVars>>

\* LOGGER_FLUSH_LOG; the counters stay.
FlushLog ==
    /\ mutex = Nobody
    /\ head' = w_off
    /\ r_off' = [r \in Readers |-> IF r \in readers THEN w_off ELSE 0]
    /\ overtaken' = {}
    /\ UNCHANGED <<buffer, w_off, sign, readers, lag, reading, got, writerVars>>

----------------------------------------------------------------------------
LoggerInit ==
    /\ buffer = [o \in 0 .. Size - 1 |-> 0]
    /\ w_off = 0 /\ head = 0 /\ sign = 0
    /\ readers = {}
    /\ r_off = [r \in Readers |-> 0]
    /\ lag = [r \in Readers |-> 0]
    /\ reading = [r \in Readers |-> Idle]
    /\ got = [r \in Readers |-> NoEntry]
    /\ overtaken = {}
    /\ mutex = Nobody
    /\ orig = [w \in Writers |-> NotWriting]
    /\ writing = NoEntry
    /\ copied = 0
    /\ faults = 0

WriterStep == \E w \in Writers : \/ WriteBlocked(w)
                                 \/ \E e \in Entries : WriteHeader(w, e)
                                 \/ WriteSegment(w)
                                 \/ WriteEnd(w)
                                 \/ WriteFault(w)

ReaderStep == \E r \in Readers : \/ LoggerOpen(r) \/ LoggerRelease(r)
                                 \/ ReadStart(r) \/ ReadCheck(r) \/ ReadRaced(r)
                                 \/ WarnOverflow(r) \/ ReadEntry(r) \/ ReadFails(r)

LoggerNext == WriterStep \/ ReaderStep \/ FlushLog

LoggerSpec == LoggerInit /\ [][LoggerNext]_loggerVars

----------------------------------------------------------------------------
(* Properties. *)

LoggerTypeOK ==
    /\ buffer \in [0 .. Size - 1 -> 0 .. Base - 1]
    /\ w_off \in 0 .. Size - 1 /\ head \in 0 .. Size - 1 /\ sign \in 0 .. Size - 1
    /\ readers \subseteq Readers /\ overtaken \subseteq readers
    /\ r_off \in [Readers -> 0 .. Size - 1]
    /\ lag \in [Readers -> -Size .. Size]
    /\ reading \in [Readers -> {Idle, "start", "waiting", "get"}]
    /\ mutex \in Writers \cup {Nobody}
    /\ orig \in [Writers -> NotWriting .. Size - 1]
    /\ writing \in Entries \cup {NoEntry}
    /\ copied \in Nat /\ faults \in 0 .. MaxFaults

\* The whole entries from an offset to where the current write began.
Corrupt == <<-2>>
Parsed(off) ==
    LET parse[left \in 0 .. Size] ==
            LET at == logger_offset(Base_off - left)
            IN  IF left = 0 THEN << >>
                ELSE IF get_entry_len(at) > left THEN <<Corrupt>>
                ELSE <<Payload(at)>> \o parse[left - get_entry_len(at)]
    IN  parse[logger_offset(Base_off - off)]

\* The ring buffer implements the queue of entries: whatever is overtaken,
\* wraps or fails, each reader gets the entries in the order they were written,
\* each once, with none missing but the oldest, and those only when there is
\* no room.  The queue of a reader is read off the buffer.
Queue == INSTANCE LogQueue WITH
             Nothing <- NoEntry,
             Capacity <- Size,
             open <- readers,
             kept <- Parsed(head),
             unread <- [r \in Readers |-> IF r \in readers THEN Parsed(r_off[r])
                                          ELSE << >>]
ImplementsQueue == Queue!QSpec

\* A reader that lost entries is told: its next read that finds anything gives
\* the warning.  Once a write has failed this is off, since sign counts what
\* was taken back.
NoSilentLoss ==
    /\ LoggerTypeOK
    /\ mutex = Nobody /\ faults = 0 => \A r \in overtaken : IsOverflow(r)

\* No reader is left waiting for an entry that is there.
WaitersCaughtUp ==
    mutex = Nobody => \A r \in Readers : reading[r] = "waiting" => r_off[r] = w_off

\* logger_read: "Atomically reads exactly one log entry".
ReadsOneEntry == \A r \in Readers : got[r] \in Entries \cup {NoEntry, Warning}
=============================================================================
