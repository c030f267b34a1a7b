------------------------------ MODULE DepthSpill ------------------------------
(***************************************************************************)
(* The stock depth collector (stock_depth_collector.py) between its feeds  *)
(* and ClickHouse: two stream workers and a timer fill and flush one       *)
(* buffer; what cannot be inserted is spilled to a file, and every flush   *)
(* first inserts the oldest spilled files again.                           *)
(*                                                                         *)
(* A flush awaits nothing, so no other task runs inside it; the process    *)
(* may die at any of its steps.  A few rows are followed; all others are   *)
(* one filler row that the feeds may send at any time.                     *)
(***************************************************************************)
EXTENDS Integers, FiniteSets, FiniteSetsExt

CONSTANTS
    Rows,        \* the rows that are followed
    Filler,      \* any other row
    BatchSize,   \* BATCH_SIZE
    DrainLimit,  \* files drained per flush, 5 in the code
    Allowed      \* bound on every kind of fault

FaultKind == {"outage", "doubt", "torn", "crash"}

ASSUME DepthAssumption ==
    /\ Filler \notin Rows
    /\ BatchSize \in Nat /\ DrainLimit \in Nat \ {0}
    /\ Allowed \in [FaultKind -> Nat]

VARIABLES
    received,  \* followed rows the feeds have delivered
    buffer,    \* self.buffer
    pc,        \* the next step of flush_buffer
    hand,      \* rows_to_insert
    files,     \* data/depth_spillover
    queue,     \* files[:5] still to be drained by this flush
    current,   \* the file whose rows were just inserted
    tag,       \* the clock that names files
    table,     \* how often each followed row is in ClickHouse
    lost,      \* followed rows that died with the process or a failed spill
    faults     \* faults so far, by kind

vars == <<received, buffer, pc, hand, files, queue, current, tag, table, lost,
          faults>>

Step   == {"idle", "drain", "remove", "insert", "spill"}
File   == [tag : Nat, rows : SUBSET (Rows \cup {Filler}), whole : BOOLEAN]
NoFile == [tag |-> 0, rows |-> {}, whole |-> TRUE]

Init ==
    /\ received = {} /\ buffer = {} /\ hand = {}
    /\ pc = "idle"
    /\ files = {} /\ queue = {} /\ current = NoFile /\ tag = 1
    /\ table = [r \in Rows |-> 0]
    /\ lost = {}
    /\ faults = [k \in FaultKind |-> 0]

Fault(kind) ==
    /\ faults[kind] < Allowed[kind]
    /\ faults' = [faults EXCEPT ![kind] = @ + 1]

\* ClickHouse has stored these rows once more.
Inserted(rows) == [r \in Rows |-> IF r \in rows THEN table[r] + 1 ELSE table[r]]

\* Mutant: all but the oldest files.
NewerFiles(listed) ==
    {f \in listed : Cardinality({g \in listed : g.tag < f.tag}) >= DrainLimit}

\* sorted(...)[:5]: the oldest files.
OldestFiles(listed) ==
    {f \in listed : Cardinality({g \in listed : g.tag < f.tag}) < DrainLimit}

-----------------------------------------------------------------------------
\* flush_buffer takes the buffer and lists the spilled files.
StartFlush(rows) ==
    /\ hand' = rows
    /\ buffer' = {}
    /\ queue' = OldestFiles(files)
    /\ pc' = IF OldestFiles(files) = {} THEN "insert" ELSE "drain"

\* A worker adds a row, and flushes a full buffer.
Receive(r) ==
    /\ pc = "idle"
    /\ r \notin received
    /\ received' = IF r = Filler THEN received ELSE received \cup {r}
    /\ LET filled == buffer \cup {r} IN
       IF Cardinality(filled) >= BatchSize
       THEN StartFlush(filled)
       ELSE buffer' = filled /\ UNCHANGED <<hand, queue, pc>>
    /\ UNCHANGED <<files, current, tag, table, lost, faults>>

\* flush_loop wakes up and the last flush is old enough.
FlushDue ==
    /\ pc = "idle" /\ buffer # {}
    /\ StartFlush(buffer)
    /\ UNCHANGED <<received, files, current, tag, table, lost, faults>>

Drainable(f) == f \in queue /\ \A g \in queue : f.tag <= g.tag

\* A spilled file is read and its rows inserted.
DrainOk ==
    /\ pc = "drain"
    /\ \E f \in queue :
          /\ Drainable(f) /\ f.whole
          /\ table' = Inserted(f.rows)
          /\ current' = f
    /\ pc' = "remove"
    /\ UNCHANGED <<received, buffer, hand, files, queue, tag, lost, faults>>

\* It cannot be parsed, or the insert raises, before or after the rows were
\* stored: the loop over the files is left.
DrainFails ==
    /\ pc = "drain"
    /\ \E f \in queue :
          /\ Drainable(f)
          /\ \/ ~f.whole /\ UNCHANGED <<table, faults>>
             \/ f.whole /\ Fault("outage") /\ UNCHANGED table
             \/ f.whole /\ Fault("doubt") /\ table' = Inserted(f.rows)
    /\ queue' = {}
    /\ pc' = "insert"
    /\ UNCHANGED <<received, buffer, hand, files, current, tag, lost>>

\* Mutant: the file is left where it is.
DrainForgets ==
    /\ pc = "remove"
    /\ queue' = queue \ {current}
    /\ current' = NoFile
    /\ pc' = IF queue' = {} THEN "insert" ELSE "drain"
    /\ UNCHANGED <<received, buffer, hand, files, tag, table, lost, faults>>

DrainRemove ==
    /\ pc = "remove"
    /\ files' = files \ {current}
    /\ queue' = queue \ {current}
    /\ current' = NoFile
    /\ pc' = IF queue' = {} THEN "insert" ELSE "drain"
    /\ UNCHANGED <<received, buffer, hand, tag, table, lost, faults>>

\* os.remove raises: the rows are stored and the file is still there.
RemoveFails ==
    /\ pc = "remove"
    /\ Fault("doubt")
    /\ queue' = {}
    /\ current' = NoFile
    /\ pc' = "insert"
    /\ UNCHANGED <<received, buffer, hand, files, tag, table, lost>>

InsertOk ==
    /\ pc = "insert"
    /\ table' = Inserted(hand)
    /\ hand' = {}
    /\ pc' = "idle"
    /\ UNCHANGED <<received, buffer, files, queue, current, tag, lost, faults>>

\* Mutant: rows that could not be inserted are dropped.
InsertDrops ==
    /\ pc = "insert"
    /\ Fault("outage")
    /\ hand' = {}
    /\ pc' = "idle"
    /\ UNCHANGED <<received, buffer, files, queue, current, tag, table, lost>>

\* The insert raises, before or after the rows were stored.
InsertFails ==
    /\ pc = "insert"
    /\ \/ Fault("outage") /\ UNCHANGED table
       \/ Fault("doubt") /\ table' = Inserted(hand)
    /\ pc' = "spill"
    /\ UNCHANGED <<received, buffer, hand, files, queue, current, tag, lost>>

Spill ==
    /\ pc = "spill"
    /\ files' = files \cup {[tag |-> tag, rows |-> hand, whole |-> TRUE]}
    /\ tag' = tag + 1
    /\ hand' = {}
    /\ pc' = "idle"
    /\ UNCHANGED <<received, buffer, queue, current, table, lost, faults>>

\* The disk fills up while the file is opened or written: the error is logged.
SpillFails ==
    /\ pc = "spill"
    /\ Fault("torn")
    /\ \/ UNCHANGED files
       \/ files' = files \cup {[tag |-> tag, rows |-> {}, whole |-> FALSE]}
    /\ tag' = tag + 1
    /\ lost' = lost \cup (hand \ {Filler})
    /\ hand' = {}
    /\ pc' = "idle"
    /\ UNCHANGED <<received, buffer, queue, current, table>>

\* The process dies and is started again.  A file it was writing stays as it is.
Crash ==
    /\ Fault("crash")
    /\ \/ UNCHANGED files
       \/ /\ pc = "spill"
          /\ files' = files \cup {[tag |-> tag, rows |-> {}, whole |-> FALSE]}
    /\ tag' = tag + 1
    /\ lost' = lost \cup ((buffer \cup hand) \ {Filler})
    /\ buffer' = {} /\ hand' = {} /\ queue' = {} /\ current' = NoFile
    /\ pc' = "idle"
    /\ UNCHANGED <<received, table>>

Flush == DrainOk \/ DrainFails \/ DrainRemove \/ RemoveFails
           \/ InsertOk \/ InsertFails \/ Spill \/ SpillFails

Next ==
    \/ \E r \in Rows \cup {Filler} : Receive(r)
    \/ FlushDue
    \/ Flush
    \/ Crash

Spec == Init /\ [][Next]_vars

\* The feeds go on, the flush timer fires, and a flush runs to its end.
FairSpec ==
    /\ Spec
    /\ WF_vars(Receive(Filler)) /\ WF_vars(FlushDue) /\ WF_vars(Flush)

-----------------------------------------------------------------------------
TypeOK ==
    /\ received \subseteq Rows /\ lost \subseteq received
    /\ buffer \subseteq received \cup {Filler}
    /\ hand \subseteq received \cup {Filler}
    /\ pc \in Step
    /\ files \subseteq File /\ queue \subseteq files
    /\ current \in files \cup {NoFile} /\ tag \in Nat
    /\ \A f \in files : f.tag < tag
    /\ table \in [Rows -> Nat]

\* The files that still have to be inserted.
Unsent == {f \in files : f.whole /\ f # current}

\* No row gets lost between the buffer, the disk and the table: what neither
\* died with the process nor with a failed spill is in one of them.
RowsAccounted ==
    \A r \in received :
        \/ r \in lost \/ r \in buffer \/ r \in hand
        \/ table[r] > 0
        \/ \E f \in files : f.whole /\ r \in f.rows

\* A row is stored, or still to be stored, once more than it should be only
\* for every insert that raised after storing, every drained file that could
\* not be removed and every crash.
DuplicatesHaveCause ==
    \A r \in Rows :
        table[r] + Cardinality({f \in Unsent : r \in f.rows})
                 + (IF r \in buffer \cup hand THEN 1 ELSE 0)
            <= 1 + faults["doubt"] + faults["crash"]

\* Every row the feeds delivered is in the table in the end, unless it died
\* with the process or with a failed spill, or a torn spill file stands at the
\* head of the drain, which leaves the loop at the first error.
RowsArrive ==
    \A r \in Rows :
        r \in received ~>
            (table[r] > 0 \/ r \in lost \/ \E f \in files : ~f.whole)
=============================================================================
