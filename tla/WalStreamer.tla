----------------------------- MODULE WalStreamer -----------------------------
(***************************************************************************)
(* ClickHouseTickStreamer.stream_from_wal (clickhouse_streamer.py): it     *)
(* tails the WAL segments from a persistent watermark, batches the rows,   *)
(* inserts them into ClickHouse, and deletes each segment once a newer one *)
(* exists.  One action per stretch of the loop between two points where    *)
(* the collector, a crash or ClickHouse can come in between.               *)
(***************************************************************************)
EXTENDS WalDirectory

CONSTANTS
    BatchSize,      \* rows that force a flush (5,000 in the code)
    QuotaMax,       \* MAX_WAL_DIR_BYTES, in half lines
    QuotaLow        \* 70% of it

ASSUME StreamerAssumption ==
    /\ BatchSize \in Nat \ {0}
    /\ QuotaMax \in Nat
    /\ QuotaLow \in 0..QuotaMax

VARIABLES
    pc,         \* where the streamer's loop stands, see Labels
    reading,    \* cur_file
    offset,     \* cur_offset
    target,     \* rotate_to_file, or NoFile
    buffer,     \* rows read and not yet inserted
    due,        \* FLUSH_INTERVAL_SEC has passed since last_flush_time
    watermark,  \* what .watermark.json holds
    stored,     \* rows in ClickHouse, in insertion order
    exposed     \* history: rows only in memory though the watermark is past them

streamerVars == <<pc, reading, offset, target, buffer, due, watermark, stored, exposed>>

\* "down": no process; "scan": lists the directory (379); "read": before
\* readline (399); "list": readline was empty, before listdir (401);
\* "flush", "mark": in flush_buffer, then before save_watermark, after a line
\* (500-501); "idleflush", "idlemark": the same at the end of the segment
\* (414-415); "drain": flushing before a rotation (406); "rotate": segment to
\* move to chosen (411); "purge": watermark moved, old segment still there.
Labels == {"down", "scan", "read", "list", "flush", "mark", "idleflush",
           "idlemark", "drain", "rotate", "purge"}

Watermark == [file : Segment \cup {NoFile}, offset : Nat]

StreamerTypeOK ==
    /\ pc \in Labels
    /\ reading \in Segment \cup {NoFile}
    /\ offset \in Nat
    /\ target \in Segment \cup {NoFile}
    /\ buffer \in Seq(Tick)
    /\ due \in BOOLEAN
    /\ watermark \in Watermark
    /\ stored \in Seq(Tick)
    /\ exposed \in SUBSET Tick

StreamerInit ==
    /\ pc = "down"
    /\ reading = NoFile
    /\ offset = 0
    /\ target = NoFile
    /\ buffer = <<>>
    /\ due = FALSE
    /\ watermark = [file |-> NoFile, offset |-> 0]
    /\ stored = <<>>
    /\ exposed = {}

-----------------------------------------------------------------------------
Size(F) == SumFunction([f \in F |-> Len(content[f])])

\* enforce_wal_disk_quota(active) on the listing F: when the directory is over
\* its cap or the disk is low, segments go oldest first, sparing one, until the
\* directory is small enough; while the disk is low every other one goes,
\* because free_bytes is read once.
QuotaExceeded(F) == Size(F) > QuotaMax \/ space # "ok"
\* Mutant: the newest segment is the only one spared.
SparedNewest(F, active) == Max(F)
Spared(F, active) == IF active # NoFile THEN active ELSE Max(F)
Evicted(F, active) ==
    IF F = {} \/ ~QuotaExceeded(F) THEN {}
    ELSE {f \in F \ {Spared(F, active)} :
            \/ space # "ok"
            \/ Size({g \in F : g >= f \/ g = Spared(F, active)}) > QuotaLow}

\* The ticks an eviction takes away from a reader at offset o of segment f.
EvictedTicks(E, f) == UNION {ToSet(content[g]) : g \in {h \in E : h > f}}

\* Delete the segments in P, then enforce the quota around segment f.
PurgeThenQuota(P, f) ==
    LET E == Evicted(files \ P, f) IN
    /\ files' = (files \ P) \ E
    /\ lost' = lost \cup EvictedTicks(E, f)
    /\ UNCHANGED <<content, space>>

NoDirChange == UNCHANGED <<files, content, space, lost>>

-----------------------------------------------------------------------------
\* A new streamer process: watermark loaded, older segments purged, quota
\* enforced (356-365).  run() enters WAL mode only if a segment exists.
StreamerStart ==
    /\ pc = "down"
    /\ files # {}
    /\ pc' = "scan"
    /\ reading' = watermark.file
    /\ offset' = watermark.offset
    /\ due' = FALSE
    /\ PurgeThenQuota({f \in files : f < watermark.file}, watermark.file)
    /\ UNCHANGED <<target, buffer, watermark, stored, exposed>>

\* List the directory and open the segment to read: the one the streamer was
\* at, or the oldest when that one is gone (379-396).
Scan ==
    /\ pc = "scan"
    /\ files # {}
    /\ pc' = "read"
    /\ IF reading \in files
       THEN UNCHANGED <<reading, offset>>
       ELSE reading' = Min(files) /\ offset' = 0
    /\ UNCHANGED <<target, buffer, due, watermark, stored, exposed>>
    /\ NoDirChange

\* The statistics block after a line: every 10 s it enforces the quota
\* (503-508).
MaybeQuota == NoDirChange \/ PurgeThenQuota({}, reading)

\* readline returns a whole line: it becomes a row, and a full or overdue
\* buffer is flushed (419, 496-499).
ReadLine ==
    /\ pc = "read"
    /\ WholeLine(content[reading], offset)
    /\ offset' = LineEnd(content[reading], offset)
    /\ buffer' = Append(buffer, content[reading][offset + 1])
    /\ IF Len(buffer') >= BatchSize \/ due
       THEN pc' = "flush" /\ NoDirChange
       ELSE pc' = "read" /\ MaybeQuota
    /\ UNCHANGED <<reading, target, due, watermark, stored, exposed>>

\* readline returns part of a line: the offset moves past it all the same, it
\* does not parse, and the loop goes on (419-424).
ReadFragment ==
    /\ pc = "read"
    /\ offset < Len(content[reading])
    /\ ~WholeLine(content[reading], offset)
    /\ offset' = LineEnd(content[reading], offset)
    /\ lost' = lost \cup {content[reading][offset + 1]}
    /\ UNCHANGED <<pc, reading, target, buffer, due, watermark, stored, exposed>>
    /\ UNCHANGED <<files, content, space>>

\* readline returns nothing (400).
ReadNothing ==
    /\ pc = "read"
    /\ offset >= Len(content[reading])
    /\ pc' = "list"
    /\ UNCHANGED <<reading, offset, target, buffer, due, watermark, stored, exposed>>
    /\ NoDirChange

\* The segment the streamer moves to from f: the one after it in the listing, or
\* the oldest if f is not listed (403).
\* Mutants: the index is not advanced; the newest is taken.
NextAfterSame(f)   == Min({g \in files : f \in files => g >= f})
NextAfterNewest(f) == Max(files)
NextAfter(f) == Min({g \in files : f \in files => g > f})

\* A newer segment is listed: it is read next, after a flush (401-412).
ListNewer ==
    /\ pc = "list"
    /\ HasNewer(reading)
    /\ target' = NextAfter(reading)
    /\ pc' = IF buffer = <<>> THEN "rotate" ELSE "drain"
    /\ UNCHANGED <<reading, offset, buffer, due, watermark, stored, exposed>>
    /\ NoDirChange

\* At the end of the segment a partial batch is flushed when it is overdue (413).
\* Mutant: only full batches are flushed.
FullBatchOnly == Len(buffer) >= BatchSize /\ due
IdleFlush == buffer # <<>> /\ due

\* No newer segment: flush if it is time, or sleep and read again (413-417).
ListNone ==
    /\ pc = "list"
    /\ ~HasNewer(reading)
    /\ pc' = IF IdleFlush THEN "idleflush" ELSE "read"
    /\ UNCHANGED <<reading, offset, target, buffer, due, watermark, stored, exposed>>
    /\ NoDirChange

\* FLUSH_INTERVAL_SEC passes.
FlushFallsDue ==
    /\ pc # "down"
    /\ ~due
    /\ due' = TRUE
    /\ UNCHANGED <<pc, reading, offset, target, buffer, watermark, stored, exposed>>
    /\ NoDirChange

Flushing == {"flush", "idleflush", "drain"}

\* After a flush comes save_watermark; before a rotation the rotation, or, if
\* rows are still buffered, another look at the segment (407-410).
\* Mutant: the rotation goes on with rows still buffered.
AfterFlushNoRetry(l, flushed) ==
    CASE l = "flush"     -> "mark"
      [] l = "idleflush" -> "idlemark"
      [] l = "drain"     -> "rotate"
AfterFlush(l, flushed) ==
    CASE l = "flush"     -> "mark"
      [] l = "idleflush" -> "idlemark"
      [] l = "drain"     -> IF flushed THEN "rotate" ELSE "read"

\* flush_buffer: the insert succeeds.
FlushOk ==
    /\ pc \in Flushing
    /\ stored' = stored \o buffer
    /\ buffer' = <<>>
    /\ due' = FALSE
    /\ exposed' = {}
    /\ pc' = AfterFlush(pc, TRUE)
    /\ UNCHANGED <<reading, offset, target, watermark>>
    /\ NoDirChange

\* flush_buffer: the insert raises, with or without the rows having reached
\* the table; they go back to the buffer and the client reconnects.
FlushFails(applied) ==
    /\ pc \in Flushing
    /\ stored' = IF applied THEN stored \o buffer ELSE stored
    /\ due' = FALSE
    /\ pc' = AfterFlush(pc, FALSE)
    /\ UNCHANGED <<reading, offset, target, buffer, watermark, exposed>>
    /\ NoDirChange

\* save_watermark replaces the file atomically; on a full disk it fails, logs,
\* and the old watermark stays.
Saved(f, o) == watermark' = [file |-> f, offset |-> o]
SaveFails    == space = "critical" /\ watermark' = watermark

\* save_watermark after a flush, whatever became of the flush.
SaveWatermark ==
    /\ pc \in {"mark", "idlemark"}
    /\ pc' = "read"
    /\ \/ Saved(reading, offset) /\ exposed' = exposed \cup ToSet(buffer)
       \/ SaveFails /\ exposed' = exposed
    /\ IF pc = "mark" THEN MaybeQuota ELSE NoDirChange
    /\ UNCHANGED <<reading, offset, target, buffer, due, stored>>

\* Rotation: move to the next segment and save that (511-514).  What the old
\* segment gained after the last readline is never read.
Rotate ==
    /\ pc = "rotate"
    /\ pc' = "purge"
    /\ reading' = target
    /\ offset' = 0
    /\ Saved(target, 0) \/ SaveFails
    /\ lost' = lost \cup TicksPast(content[reading], offset)
    /\ UNCHANGED <<target, buffer, due, stored, exposed, files, content, space>>

\* Then delete the old segment and everything older, and enforce the quota
\* (516-518).
PurgeOld ==
    /\ pc = "purge"
    /\ pc' = "scan"
    /\ target' = NoFile
    /\ PurgeThenQuota({f \in files : f < reading}, reading)
    /\ UNCHANGED <<reading, offset, buffer, due, watermark, stored, exposed>>

\* The process is killed or crashes: its memory is gone.
StreamerKilled ==
    /\ pc # "down"
    /\ pc' = "down"
    /\ reading' = NoFile
    /\ offset' = 0
    /\ target' = NoFile
    /\ buffer' = <<>>
    /\ due' = FALSE
    /\ exposed' = {}
    /\ lost' = lost \cup (exposed \ ToSet(stored))
    /\ UNCHANGED <<watermark, stored, files, content, space>>

\* eod_cleanup.sh, at 16:15 and ten minutes after every boot, deletes every
\* segment and the watermark, whatever the streamer has got to.
EodCleanup ==
    /\ files # {}
    /\ files' = {}
    /\ watermark' = [file |-> NoFile, offset |-> 0]
    /\ lost' = lost \cup (IF pc = "down" THEN TicksAhead(watermark.file, watermark.offset)
                          ELSE TicksAhead(reading, offset))
    /\ exposed' = exposed \cup ToSet(buffer)
    /\ UNCHANGED <<pc, reading, offset, target, buffer, due, stored, content, space>>
=============================================================================
