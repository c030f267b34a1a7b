---------------------------- MODULE TickWalWriter ----------------------------
(***************************************************************************)
(* TickWalWriter of the collector (collector/src/tick_wal_writer.hpp): it  *)
(* appends every valid tick to the current WAL segment through a buffered  *)
(* ofstream, rotates segments by size and age, and stops when the disk is  *)
(* nearly full.                                                            *)
(***************************************************************************)
EXTENDS WalDirectory

CONSTANTS
    SegmentLines,   \* lines that fill a segment (25 MB in the code)
    FlushEvery,     \* explicit flush period in ticks (1,000 in the code)
    CheckEvery,     \* disk check period in ticks (10,000 in the code)
    CutAnywhere     \* TRUE: the stream buffer may be written out mid-line

ASSUME WriterAssumption ==
    /\ SegmentLines \in Nat \ {0}
    /\ FlushEvery \in Nat \ {0}
    /\ CheckEvery \in Nat \ {0}
    /\ CutAnywhere \in BOOLEAN

VARIABLES
    running,        \* the collector process is alive
    current,        \* segment m_file has open, or NoFile
    pending,        \* half lines still in the ofstream's buffer
    lines,          \* m_current_file_bytes, in lines
    aged,           \* 900 s have passed since m_segment_start_time
    opened,         \* segments opened so far: the newest time tag
    written,        \* m_ticks_written
    healthy,        \* m_disk_healthy
    nextTick        \* next tick of the feed

writerVars == <<running, current, pending, lines, aged, opened, written,
                healthy, nextTick>>

WriterTypeOK ==
    /\ running \in BOOLEAN
    /\ current \in Segment \cup {NoFile}
    /\ pending \in Seq(Tick)
    /\ lines \in Nat
    /\ aged \in BOOLEAN
    /\ opened \in 0..MaxSegments
    /\ written \in Nat
    /\ healthy \in BOOLEAN
    /\ nextTick \in 1..(NTicks + 1)

WriterInit ==
    /\ running = FALSE
    /\ current = NoFile
    /\ pending = <<>>
    /\ lines = 0
    /\ aged = FALSE
    /\ opened = 0
    /\ written = 0
    /\ healthy = TRUE
    /\ nextTick = 1

-----------------------------------------------------------------------------
\* check_disk_space and the guard write_tick puts before it.
DiskHasRoom == space # "critical"
CheckIsDue  == written % CheckEvery = 0
HealthyNow  == IF CheckIsDue THEN DiskHasRoom ELSE healthy

\* should_rotate
ShouldRotate == current = NoFile \/ lines >= SegmentLines \/ aged

\* The first n half lines of the stream buffer reach the file: all of them on
\* an explicit flush, otherwise what the buffer happens to have spilled.
Spills(buf, n) ==
    /\ n \in 0..Len(buf)
    /\ CutAnywhere \/ (Len(buf) - n) % 2 = 0
    /\ (written + 1) % FlushEvery = 0 => n = Len(buf)

\* Half lines appended to a segment that was unlinked reach no reader.
Orphans(s) == IF current \in files THEN {} ELSE ToSet(s)

\* Another tick of the feed passes the sanity filter.
TakeTick ==
    /\ running
    /\ nextTick <= NTicks
    /\ nextTick' = nextTick + 1

\* write_tick while the disk was last seen full: the tick is dropped.
WriteHalted ==
    /\ TakeTick
    /\ ~HealthyNow
    /\ healthy' = FALSE
    /\ lost' = lost \cup {nextTick}
    /\ UNCHANGED <<running, current, pending, lines, aged, opened, written>>
    /\ UNCHANGED <<files, content, space>>

\* write_tick into the open segment.
WriteAppend ==
    /\ TakeTick
    /\ HealthyNow
    /\ ~ShouldRotate
    /\ \E n \in 0..(Len(pending) + 2) :
        LET buf == pending \o Line(nextTick) IN
        /\ Spills(buf, n)
        /\ content' = Appended(current, SubSeq(buf, 1, n))
        /\ pending' = SubSeq(buf, n + 1, Len(buf))
        /\ lost' = lost \cup Orphans(SubSeq(buf, 1, n))
    /\ healthy' = HealthyNow
    /\ lines' = lines + 1
    /\ written' = written + 1
    /\ UNCHANGED <<running, current, aged, opened, files, space>>

\* rotate_if_needed: flush and close the open segment, look at the disk, open
\* the next segment, whose name is newer than any before.
\* Mutant: the next file is created while the old one stays open and in use.
OpenNextEarly(lead) ==
    /\ DiskHasRoom
    /\ opened < MaxSegments
    /\ opened' = opened + 1
    /\ current' = IF current = NoFile THEN opened + 1 ELSE current
    /\ files' = files \cup {opened + 1}
    /\ content' = Appended(current', pending \o lead)
    /\ healthy' = TRUE
    /\ aged' = FALSE
OpenNext(lead) ==
    /\ DiskHasRoom
    /\ opened < MaxSegments
    /\ opened' = opened + 1
    /\ current' = opened + 1
    /\ files' = files \cup {opened + 1}
    /\ content' = [Appended(current, pending) EXCEPT ![opened + 1] = lead]
    /\ healthy' = TRUE
    /\ aged' = FALSE

\* write_tick that rotates first.
WriteRotate ==
    /\ TakeTick
    /\ HealthyNow
    /\ ShouldRotate
    /\ \E n \in 0..2 :
        /\ Spills(Line(nextTick), n)
        /\ OpenNext(SubSeq(Line(nextTick), 1, n))
        /\ pending' = SubSeq(Line(nextTick), n + 1, 2)
    /\ lost' = lost \cup Orphans(pending)
    /\ lines' = 1
    /\ written' = written + 1
    /\ UNCHANGED <<running, space>>

\* write_tick that closes the segment and cannot open another one, because
\* the disk is full or open() fails: the tick is dropped.
WriteRotateFails ==
    /\ TakeTick
    /\ HealthyNow
    /\ ShouldRotate
    /\ content' = Appended(current, pending)
    /\ lost' = lost \cup Orphans(pending) \cup {nextTick}
    /\ current' = NoFile
    /\ pending' = <<>>
    /\ healthy' = DiskHasRoom
    /\ UNCHANGED <<running, lines, aged, opened, written, files, space>>

WriteTick == WriteHalted \/ WriteAppend \/ WriteRotate \/ WriteRotateFails

\* The segment's age reaches MAX_WAL_SEGMENT_SECONDS.
SegmentAges ==
    /\ current # NoFile
    /\ ~aged
    /\ aged' = TRUE
    /\ UNCHANGED <<running, current, pending, lines, opened, written, healthy,
                   nextTick, lost, files, content, space>>

\* A new collector process: a fresh writer whose init() opens a segment if
\* the disk has room and open() succeeds.
WriterStart ==
    /\ ~running
    /\ running' = TRUE
    /\ written' = 0
    /\ lines' = 0
    /\ \/ OpenNext(<<>>)
       \/ /\ healthy' = DiskHasRoom
          /\ UNCHANGED <<current, opened, aged, files, content>>
    /\ UNCHANGED <<pending, nextTick, lost, space>>

\* The process is killed (the expiry manager uses pkill -9) or crashes: what
\* the stream buffer held is gone.
WriterKilled ==
    /\ running
    /\ running' = FALSE
    /\ current' = NoFile
    /\ pending' = <<>>
    /\ aged' = FALSE
    /\ lost' = lost \cup ToSet(pending)
    /\ UNCHANGED <<lines, opened, written, healthy, nextTick>>
    /\ UNCHANGED <<files, content, space>>

\* The process ends in order: the destructor flushes and closes.
WriterStops ==
    /\ running
    /\ running' = FALSE
    /\ current' = NoFile
    /\ pending' = <<>>
    /\ content' = Appended(current, pending)
    /\ lost' = lost \cup Orphans(pending)
    /\ aged' = FALSE
    /\ UNCHANGED <<lines, opened, written, healthy, nextTick>>
    /\ UNCHANGED <<files, space>>
=============================================================================
