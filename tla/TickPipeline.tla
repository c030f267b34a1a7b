---------------------------- MODULE TickPipeline ----------------------------
(***************************************************************************)
(* The tick persistence pipeline: the collector's TickWalWriter and the    *)
(* ClickHouse streamer, two processes that meet only in the WAL directory, *)
(* under process kills, failed inserts and a filling disk.                 *)
(***************************************************************************)
EXTENDS TickWalWriter, WalStreamer

CONSTANTS
    MaxFaults,      \* bound: how often each kind of fault may happen
    MaxTogether     \* bound: kinds of fault that meet in one behaviour

FaultKind == {"writer", "streamer", "insert", "applied", "disk", "cleanup"}

\* 70% of the cap holds two full segments (25 MB each against 350 MB).
ASSUME QuotaAssumption == QuotaLow >= 4 * SegmentLines

ASSUME FaultAssumption == MaxFaults \in [FaultKind -> Nat] /\ MaxTogether \in Nat

VARIABLE faults         \* how often each kind of fault has happened

vars == <<files, content, space, writerVars, streamerVars, lost, faults>>

TypeOK == DirTypeOK /\ WriterTypeOK /\ StreamerTypeOK /\ faults \in [FaultKind -> Nat]

Init ==
    /\ DirInit
    /\ WriterInit
    /\ StreamerInit
    /\ faults = [k \in FaultKind |-> 0]

Fault(k) ==
    /\ faults[k] < MaxFaults[k]
    /\ Cardinality({j \in FaultKind : faults[j] > 0} \cup {k}) <= MaxTogether
    /\ faults' = [faults EXCEPT ![k] = @ + 1]

WriterStep ==
    /\ WriteTick \/ SegmentAges \/ WriterStart \/ WriterStops
    /\ UNCHANGED <<streamerVars, faults>>

WriterFault ==
    /\ WriterKilled
    /\ Fault("writer")
    /\ UNCHANGED streamerVars

\* One step of the streamer's own loop.
StreamerLoop ==
    /\ \/ StreamerStart \/ Scan
       \/ ReadLine \/ ReadFragment \/ ReadNothing
       \/ ListNewer \/ ListNone
       \/ FlushOk \/ SaveWatermark
       \/ Rotate \/ PurgeOld
    /\ UNCHANGED <<writerVars, faults>>

TimerStep == FlushFallsDue /\ UNCHANGED <<writerVars, faults>>

StreamerFault ==
    /\ \/ StreamerKilled /\ Fault("streamer")
       \/ FlushFails(FALSE) /\ Fault("insert")
       \/ FlushFails(TRUE) /\ Fault("applied")
    /\ UNCHANGED writerVars

MachineFault ==
    \/ SpaceChanges /\ Fault("disk") /\ UNCHANGED <<writerVars, streamerVars>>
    \/ EodCleanup /\ Fault("cleanup") /\ UNCHANGED writerVars

Next == WriterStep \/ WriterFault \/ StreamerLoop \/ TimerStep \/ StreamerFault \/ MachineFault

Spec == Init /\ [][Next]_vars

\* The streamer's loop and its timer run as long as its process does, and
\* systemd starts it again when it ends.  Nothing is assumed of the feed.
FairSpec == Spec /\ WF_vars(StreamerLoop) /\ WF_vars(TimerStep)

-----------------------------------------------------------------------------
Accepted == 1..(nextTick - 1)
InStore  == ToSet(stored)

\* No tick write_tick was given is forgotten while the streamer runs: it is in
\* the collector's stream buffer, on disk in front of the streamer, in the
\* streamer's buffer, in ClickHouse, or lost to one of the causes the code
\* does not guard against (kill of the collector with a buffered stream, halt
\* or failed open, a line read in two pieces, the tail of a segment written
\* after its last readline, eviction, a watermark saved after a failed flush).
NothingSkipped ==
    pc # "down" =>
        Accepted \subseteq TicksAhead(reading, offset) \cup ToSet(pending) \cup ToSet(buffer)
                              \cup InStore \cup lost

\* What a streamer that dies now and restarts from its watermark can still
\* deliver, plus what is delivered: everything but the known losses.  This is
\* what the order insert, watermark, delete is for.
CrashSafe ==
    Accepted \subseteq TicksAhead(watermark.file, watermark.offset) \cup ToSet(pending)
                          \cup InStore \cup exposed \cup lost

Copies(t) == Cardinality({i \in DOMAIN stored : stored[i] = t})

\* ClickHouse holds a tick more than once only because an insert that raised
\* had been applied or because a streamer that was killed reads again what
\* its watermark did not cover.
BoundedDuplication ==
    \A t \in Tick : Copies(t) <= 1 + faults["streamer"] + faults["applied"]

\* A segment that is not the newest never changes again: the collector closes
\* it before it creates the next.  It is why the streamer may take a newer
\* name in the directory as the end of the segment it reads.
SealedSegments ==
    [][\A f \in Segment : HasNewer(f) => content'[f] = content[f]]_vars

\* Neither the quota nor the purge deletes the segment the streamer has open,
\* and, while the disk has room, the quota also spares the one the collector
\* writes: two segments fit under 70% of the cap.
OpenSegmentsKept ==
    faults["cleanup"] = 0 =>
        /\ pc \in Labels \ {"down", "scan"} => reading \in files
        /\ faults["disk"] = 0 /\ current # NoFile => current \in files

\* What reached a segment on disk is delivered in the end, or lost to one of
\* the named causes.
Delivery ==
    \A t \in Tick : (\E f \in files : t \in ToSet(content[f])) ~> (t \in InStore \cup lost)
=============================================================================
