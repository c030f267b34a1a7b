-------------------------- MODULE CollectorProofs --------------------------
(***************************************************************************)
(* Proofs about the two collectors' feeds, each for every value of the     *)
(* constants.  The tick collector: a connection that is read is watched,   *)
(* and a trigger is answered, for every silence limit and number of        *)
(* attempts.  The stock depth collector: no row vanishes between the feeds *)
(* and ClickHouse unless the process dies with it or a spill fails, for    *)
(* every set of rows, batch size, drain limit and number of faults.        *)
(***************************************************************************)
EXTENDS FeedWatchdog, DepthSpill, FiniteSetTheorems, TLAPS

-----------------------------------------------------------------------------
(* The feed connection and its watchdog.                                   *)

\* From the first store to the handler, an open connection can be reached
\* through the shared pointer, or the watchdog is about to close it.  Without
\* this part NeverUnwatched is not inductive: Drop needs to know that Take
\* will find the pointer.
Reachable ==
    rpc \in {"stamp", "raise", "clear", "read", "process"} /\ ws = "open" =>
        active = "live" \/ (wpc = "close" /\ held = "live")

FeedInv == Reachable /\ NeverUnwatched

\* The types fall into three parts that no action mixes.  The count of
\* attempts stays below its limit until the reader gives up.
FlagsTyped ==
    /\ dead \in BOOLEAN
    /\ connected \in BOOLEAN
    /\ triggered \in BOOLEAN
    /\ market \in BOOLEAN
    /\ told \in BOOLEAN

LabelsTyped ==
    /\ rpc \in ReaderLabels
    /\ ws \in {"none", "open", "closed"}
    /\ active \in Pointer
    /\ wpc \in WatchdogLabels
    /\ held \in Pointer

CountsTyped ==
    /\ attempts \in 0..MaxAttempts
    /\ rpc # "exited" => attempts < MaxAttempts
    /\ age \in 0..Limit
    /\ seen \in 0..Limit

\* Every action, expanded.
USE DEF Connect, ConnectFails, Publish, Stamp, Raise, Clear, Read, Process, PeerDies,
        ReadCut, ReadFails, Unwind, Dangles, Lower, Forget, Ask, GivesUp, Backoff,
        WatchdogStep, Poll, Load, Judge, Trigger, Drop, Take, Close, CutsOpen, CutsNone,
        Restamp, Tick, Later, MarketOpensOrCloses,
        Reader, Network, Watchdog, FeedNext,
        feedVars, sharedVars, readerVars, watchdogVars

\* Every step keeps the flags typed.
LEMMA FlagsStep == FlagsTyped /\ [FeedNext]_feedVars => FlagsTyped'
  BY Zenon DEF FlagsTyped

\* Every step keeps the labels and pointers typed.
LEMMA LabelsStep == LabelsTyped /\ [FeedNext]_feedVars => LabelsTyped'
  BY DEF LabelsTyped, ReaderLabels, WatchdogLabels, Pointer

\* Every step keeps the counts typed.
LEMMA CountsStep == CountsTyped /\ [FeedNext]_feedVars => CountsTyped'
  BY FeedAssumption DEF CountsTyped

HIDE DEF FeedNext, feedVars

\* Every variable has its type in every reachable state.
THEOREM FeedTyped == FeedSpec => []FeedTypeOK
<1>1. FeedInit => FlagsTyped /\ LabelsTyped /\ CountsTyped
  <2>1. FeedInit => FlagsTyped
    BY Zenon DEF FeedInit, FlagsTyped
  <2>2. FeedInit => LabelsTyped /\ CountsTyped
    BY FeedAssumption DEF FeedInit, LabelsTyped, CountsTyped, ReaderLabels, WatchdogLabels, Pointer
  <2>3. QED  BY <2>1, <2>2
<1>2. FlagsTyped /\ LabelsTyped /\ CountsTyped => FeedTypeOK
  BY Zenon DEF FlagsTyped, LabelsTyped, CountsTyped, FeedTypeOK
<1>3. QED  BY <1>1, <1>2, FlagsStep, LabelsStep, CountsStep, PTL DEF FeedSpec

\* The reader is never left reading an open connection the watchdog ignores.
THEOREM FeedWatched == FeedSpec => []NeverUnwatched
<1>1. FeedInit => FeedInv
  BY DEF FeedInit, FeedInv, Reachable, NeverUnwatched
<1>2. FeedInv /\ [FeedNext]_feedVars => FeedInv'
  <2> SUFFICES ASSUME FeedInv, [FeedNext]_feedVars PROVE FeedInv'
    OBVIOUS
  <2> USE DEF FeedInv, Reachable, NeverUnwatched
  <2>1. CASE Connect \/ ConnectFails \/ Publish \/ Stamp \/ Raise \/ Clear
    BY <2>1
  <2>2. CASE Read \/ Process \/ PeerDies
    BY <2>2
  <2>3. CASE ReadCut \/ ReadFails
    BY <2>3
  <2>4. CASE Lower \/ Forget \/ Ask \/ Backoff
    BY <2>4
  <2>5. CASE Poll \/ Load \/ Judge \/ Trigger \/ Drop \/ Take \/ Restamp
    BY <2>5
  <2>6. CASE Close
    BY <2>6
  <2>7. CASE Tick \/ MarketOpensOrCloses
    BY <2>7
  <2>8. CASE UNCHANGED feedVars
    BY <2>8 DEF feedVars
  <2>9. QED
    BY <2>1, <2>2, <2>3, <2>4, <2>5, <2>6, <2>7, <2>8 DEF FeedNext
<1>3. FeedInv => NeverUnwatched
  BY DEF FeedInv
<1>4. QED  BY <1>1, <1>2, <1>3, PTL DEF FeedSpec

\* From the trigger to the answer the reader only passes the stores of its
\* handler, none of which lowers the trigger before it is asked for.
ToldInv ==
    told => /\ rpc \in {"read", "process", "lower", "forget", "ask", "connect"}
            /\ rpc # "connect" => triggered

\* A trigger that falls while the reader reads is never forgotten: the reader
\* reconnects at once, and neither backs off nor gives up.
THEOREM ToldIsAnswered == FeedSpec => []ToldReconnects
<1>1. FeedInit => ToldInv
  BY DEF FeedInit, ToldInv
<1>2. ToldInv /\ [FeedNext]_feedVars => ToldInv'
  <2> SUFFICES ASSUME ToldInv, [FeedNext]_feedVars PROVE ToldInv'
    OBVIOUS
  <2> USE DEF ToldInv
  <2>1. CASE Connect \/ ConnectFails \/ Publish \/ Stamp \/ Raise \/ Clear
    BY <2>1
  <2>2. CASE Read \/ Process \/ PeerDies \/ ReadCut \/ ReadFails
    BY <2>2
  <2>3. CASE Lower \/ Forget \/ Ask \/ Backoff
    BY <2>3
  <2>4. CASE Poll \/ Load \/ Judge \/ Trigger \/ Drop \/ Take \/ Close \/ Restamp
    BY <2>4
  <2>5. CASE Tick \/ MarketOpensOrCloses
    BY <2>5
  <2>6. CASE UNCHANGED feedVars
    BY <2>6 DEF feedVars
  <2>7. QED
    BY <2>1, <2>2, <2>3, <2>4, <2>5, <2>6 DEF FeedNext
<1>3. ToldInv => ToldReconnects
  BY DEF ToldInv, ToldReconnects
<1>4. QED  BY <1>1, <1>2, <1>3, PTL DEF FeedSpec

HIDE DEF Connect, ConnectFails, Publish, Stamp, Raise, Clear, Read, Process,
         PeerDies, ReadCut, ReadFails, Unwind, Dangles, Lower, Forget, Ask,
         GivesUp, Backoff, WatchdogStep, Poll, Load, Judge, Trigger, Drop,
         Take, Close, CutsOpen, CutsNone, Restamp, Tick, Later,
         MarketOpensOrCloses, Reader, Network, Watchdog, sharedVars,
         readerVars, watchdogVars

-----------------------------------------------------------------------------
(* The stock depth collector's rows.                                       *)

\* A flush leaves nothing in its hand, and a file is only removed after its
\* rows were inserted.
Inv ==
    /\ received \subseteq Rows
    /\ table \in [Rows -> Nat]
    /\ pc \in {"idle", "drain", "remove", "insert", "spill"}
    /\ pc = "idle" => hand = {}
    /\ pc = "remove" => \A r \in Rows : r \in current.rows => table[r] > 0
    /\ RowsAccounted

\* What is in the table stays there, and inserted rows are in it.
LEMMA InsertedGrows ==
  ASSUME NEW S, table \in [Rows -> Nat]
  PROVE  /\ Inserted(S) \in [Rows -> Nat]
         /\ \A r \in Rows : table[r] > 0 => Inserted(S)[r] > 0
         /\ \A r \in Rows : r \in S => Inserted(S)[r] > 0
  BY DEF Inserted

\* A flush moves the rows it is given from the buffer into its hand.
LEMMA FlushTakesAll ==
  ASSUME NEW S, hand = {}, StartFlush(S)
  PROVE  /\ hand' = S /\ buffer' = {} /\ pc' \in {"insert", "drain"}
  BY DEF StartFlush

\* Every step of the depth collector keeps the rows accounted for.
LEMMA StepInv == Inv /\ [Next]_vars => Inv'
  <1> SUFFICES ASSUME Inv, [Next]_vars PROVE Inv'  OBVIOUS
  <1> USE DEF Inv, RowsAccounted
  <1>1. ASSUME NEW r \in Rows \cup {Filler}, Receive(r) PROVE Inv'
    <2>1. /\ received' \subseteq received \cup {r} /\ received' \subseteq Rows
          /\ UNCHANGED <<files, table, lost>> /\ hand = {}
      BY <1>1 DEF Receive
    <2>2. CASE StartFlush(buffer \cup {r})
      <3>1. /\ hand' = buffer \cup {r} /\ pc' \in {"insert", "drain"}
        BY <2>1, <2>2, FlushTakesAll
      <3> QED  BY <2>1, <3>1
    <2>3. CASE buffer' = buffer \cup {r} /\ UNCHANGED <<hand, queue, pc>>
      BY <1>1, <2>1, <2>3 DEF Receive
    <2> QED  BY <1>1, <2>2, <2>3 DEF Receive
  <1>2. CASE FlushDue
    <2>1. /\ UNCHANGED <<received, files, table, lost>> /\ hand = {}
      BY <1>2 DEF FlushDue
    <2>2. hand' = buffer /\ pc' \in {"insert", "drain"}
      BY <1>2, <2>1, FlushTakesAll DEF FlushDue
    <2> QED  BY <2>1, <2>2
  <1>3. CASE DrainOk
    <2>1. PICK f \in queue : table' = Inserted(f.rows) /\ current' = f
      BY <1>3 DEF DrainOk
    <2>2. UNCHANGED <<received, buffer, hand, files, lost>> /\ pc' = "remove"
      BY <1>3 DEF DrainOk
    <2> QED  BY <2>1, <2>2, InsertedGrows
  <1>4. CASE DrainFails
    <2>1. /\ table' = table \/ \E f \in queue : table' = Inserted(f.rows)
          /\ UNCHANGED <<received, buffer, hand, files, lost>> /\ pc' = "insert"
      BY <1>4 DEF DrainFails
    <2> QED  BY <2>1, InsertedGrows
  <1>5. CASE DrainRemove
    <2>1. /\ files' = files \ {current} /\ pc' \in {"insert", "drain"}
          /\ \A r \in Rows : r \in current.rows => table[r] > 0
          /\ UNCHANGED <<received, buffer, hand, table, lost>>
      BY <1>5 DEF DrainRemove
    <2> QED  BY <2>1
  <1>6. CASE InsertOk
    <2>1. /\ table' = Inserted(hand) /\ hand' = {} /\ pc' = "idle"
          /\ UNCHANGED <<received, buffer, files, lost>>
      BY <1>6 DEF InsertOk
    <2> QED  BY <2>1, InsertedGrows
  <1>7. CASE InsertFails
    <2>1. /\ table' = table \/ table' = Inserted(hand)
          /\ UNCHANGED <<received, buffer, hand, files, lost>> /\ pc' = "spill"
      BY <1>7 DEF InsertFails
    <2> QED  BY <2>1, InsertedGrows
  <1>8. CASE Spill
    <2> DEFINE f == [tag |-> tag, rows |-> hand, whole |-> TRUE]
    <2>1. /\ files' = files \cup {f} /\ hand' = {} /\ pc' = "idle"
          /\ UNCHANGED <<received, buffer, table, lost>>
      BY <1>8 DEF Spill
    <2>2. f.whole /\ f.rows = hand  OBVIOUS
    <2> HIDE DEF f
    <2> QED  BY <2>1, <2>2
  <1>9. CASE SpillFails
    <2>1. /\ files \subseteq files' /\ lost' = lost \cup (hand \ {Filler})
          /\ hand' = {} /\ pc' = "idle" /\ UNCHANGED <<received, buffer, table>>
      BY <1>9 DEF SpillFails
    <2> QED  BY <2>1, DepthAssumption
  <1>10. CASE Crash
    <2>1. /\ files \subseteq files' /\ hand' = {} /\ pc' = "idle"
          /\ lost' = lost \cup ((buffer \cup hand) \ {Filler})
          /\ UNCHANGED <<received, table>>
      BY <1>10 DEF Crash
    <2> QED  BY <2>1, DepthAssumption
  <1>11. CASE RemoveFails
    BY <1>11 DEF RemoveFails
  <1>12. CASE UNCHANGED vars  BY <1>12 DEF vars
  <1> QED  BY <1>1, <1>2, <1>3, <1>4, <1>5, <1>6, <1>7, <1>8, <1>9, <1>10,
              <1>11, <1>12 DEF Next, Flush

\* Every row the feeds delivered is in the buffer, in the hand of a flush, in a
\* readable spill file or in ClickHouse, or died with the process or a failed
\* spill: no order of flushes, drains and outages drops one.
THEOREM NoRowVanishes == Spec => []RowsAccounted
  <1>1. Init => Inv  BY DEF Init, Inv, RowsAccounted
  <1>2. Inv => RowsAccounted  BY DEF Inv
  <1> QED  BY <1>1, <1>2, StepInv, PTL DEF Spec

-----------------------------------------------------------------------------
(* How often a row is stored.  The bound counts what can still be inserted,  *)
(* so it must know where a row may be at all: a row that was not delivered   *)
(* is nowhere, a flush has taken all of the buffer, and only between the     *)
(* insertion of a file and its removal is there a current one.               *)

Holders(r) == {f \in Unsent : r \in f.rows}

Mine(r) == IF r \in buffer \cup hand THEN 1 ELSE 0

Nowhere(r) ==
    /\ table[r] = 0 /\ r \notin buffer /\ r \notin hand
    /\ \A f \in files : r \notin f.rows

Places ==
    /\ IsFiniteSet(files) /\ queue \subseteq files /\ tag \in Nat \ {0}
    /\ \A f \in files : f.tag \in 1..tag
    /\ IF pc = "remove" THEN current \in files ELSE current = NoFile
    /\ pc # "idle" => buffer = {}
    /\ pc = "idle" => hand = {}
    /\ table \in [Rows -> Nat]
    /\ faults \in [FaultKind -> Nat]
    /\ \A r \in Rows \ received : Nowhere(r)

CountInv == Places /\ DuplicatesHaveCause

\* The copies on the disk can be counted.
LEMMA HoldersFinite ==
  ASSUME IsFiniteSet(files), NEW r
  PROVE  IsFiniteSet(Holders(r)) /\ Cardinality(Holders(r)) \in Nat
  <1>1. Holders(r) \subseteq files  BY DEF Holders, Unsent
  <1> QED  BY <1>1, FS_Subset, FS_CardinalityType

\* One more copy at most.
LEMMA OneMoreHolder ==
  ASSUME NEW S, NEW T, NEW x, IsFiniteSet(S), T \subseteq S \cup {x}
  PROVE  Cardinality(T) \in Nat /\ Cardinality(T) <= Cardinality(S) + 1
  <1>0. Cardinality(S) \in Nat
    BY FS_CardinalityType
  <1>1. IsFiniteSet(S \cup {x}) /\ Cardinality(S \cup {x}) <= Cardinality(S) + 1
    BY <1>0, FS_AddElement
  <1>2. IsFiniteSet(T) /\ Cardinality(T) <= Cardinality(S \cup {x})
    BY <1>1, FS_Subset
  <1>3. Cardinality(S \cup {x}) \in Nat /\ Cardinality(T) \in Nat
    BY <1>1, <1>2, FS_CardinalityType
  <1> QED  BY <1>0, <1>1, <1>2, <1>3

\* The count of a row may grow by what its faults do.
Allowance == 1 + faults["doubt"] + faults["crash"]

Count(r) == table[r] + Cardinality(Holders(r)) + Mine(r)

\* The counts are numbers, and DuplicatesHaveCause bounds one count per row.
LEMMA Counted ==
  ASSUME Places
  PROVE  /\ Allowance \in Nat
         /\ \A r \in Rows :
              /\ Count(r) \in Nat /\ Mine(r) \in 0..1 /\ table[r] \in Nat
              /\ IsFiniteSet(Holders(r)) /\ Cardinality(Holders(r)) \in Nat
         /\ DuplicatesHaveCause <=> \A r \in Rows : Count(r) <= Allowance
  <1>1. Allowance \in Nat
    BY DEF Places, Allowance, FaultKind
  <1>2. ASSUME NEW r \in Rows
        PROVE  /\ Count(r) \in Nat /\ Mine(r) \in 0..1 /\ table[r] \in Nat
               /\ IsFiniteSet(Holders(r)) /\ Cardinality(Holders(r)) \in Nat
    <2>1. IsFiniteSet(Holders(r)) /\ Cardinality(Holders(r)) \in Nat
      BY HoldersFinite DEF Places
    <2>2. Mine(r) \in 0..1 /\ table[r] \in Nat
      BY DEF Mine, Places
    <2> QED  BY <2>1, <2>2 DEF Count
  <1>3. DuplicatesHaveCause <=> \A r \in Rows : Count(r) <= Allowance
    BY DEF DuplicatesHaveCause, Count, Mine, Holders, Allowance
  <1> QED  BY <1>1, <1>2, <1>3

\* A flush takes the rows it is given into its hand, and the oldest files.
LEMMA StartPlaces ==
  ASSUME NEW S, StartFlush(S), hand = {}
  PROVE  /\ hand' = S /\ buffer' = {} /\ queue' \subseteq files
         /\ pc' \in {"insert", "drain"}
  BY DEF StartFlush, OldestFiles

\* Every copy of a row stays where the step of the flush says it is.
LEMMA PlacesKept == Places /\ [Next]_vars => Places'
  <1> SUFFICES ASSUME Places, [Next]_vars PROVE Places'  OBVIOUS
  <1> USE DEF Places, Nowhere
  <1>0. \A k \in FaultKind : Fault(k) => faults' \in [FaultKind -> Nat]
    BY DEF Fault
  <1>f. \A S : Inserted(S) \in [Rows -> Nat]
    BY DEF Inserted
  <1>1. ASSUME NEW r \in Rows \cup {Filler}, Receive(r) PROVE Places'
    <2>1. /\ UNCHANGED <<files, current, tag, table, faults>> /\ hand = {}
          /\ pc = "idle" /\ received \subseteq received'
          /\ r \in Rows => r \in received'
      BY <1>1, DepthAssumption DEF Receive
    <2>2. CASE StartFlush(buffer \cup {r})
      <3>1. hand' = buffer \cup {r} /\ buffer' = {} /\ queue' \subseteq files /\ pc' \in {"insert", "drain"}
        BY <2>1, <2>2, StartPlaces
      <3> QED  BY <2>1, <3>1
    <2>3. CASE buffer' = buffer \cup {r} /\ UNCHANGED <<hand, queue, pc>>
      BY <2>1, <2>3
    <2> QED  BY <1>1, <2>2, <2>3 DEF Receive
  <1>2. CASE FlushDue
    <2>1. UNCHANGED <<received, files, current, tag, table, faults>> /\ hand = {} /\ pc = "idle"
      BY <1>2 DEF FlushDue
    <2>2. hand' = buffer /\ buffer' = {} /\ queue' \subseteq files /\ pc' \in {"insert", "drain"}
      BY <1>2, <2>1, StartPlaces DEF FlushDue
    <2> QED  BY <2>1, <2>2
  <1>3. CASE DrainOk
    <2>1. PICK f \in queue : table' = Inserted(f.rows) /\ current' = f
      BY <1>3 DEF DrainOk
    <2>2. /\ UNCHANGED <<received, buffer, hand, files, queue, tag, faults>>
          /\ pc = "drain" /\ pc' = "remove"
      BY <1>3 DEF DrainOk
    <2>3. \A r \in Rows \ received : table'[r] = 0
      BY <2>1 DEF Inserted
    <2> QED  BY <2>1, <2>2, <2>3, <1>f
  <1>4. CASE DrainFails
    <2>1. /\ table' = table \/ \E f \in queue : table' = Inserted(f.rows)
          /\ UNCHANGED <<received, buffer, hand, files, current, tag>>
          /\ pc = "drain" /\ pc' = "insert" /\ queue' = {}
          /\ faults' = faults \/ Fault("outage") \/ Fault("doubt")
      BY <1>4 DEF DrainFails
    <2>2. \A r \in Rows \ received : table'[r] = 0
      BY <2>1 DEF Inserted
    <2> QED  BY <2>1, <2>2, <1>0, <1>f DEF FaultKind
  <1>5. CASE DrainRemove
    <2>1. /\ files' = files \ {current} /\ queue' = queue \ {current} /\ current' = NoFile
          /\ pc = "remove" /\ pc' \in {"insert", "drain"}
          /\ UNCHANGED <<received, buffer, hand, tag, table, faults>>
      BY <1>5 DEF DrainRemove
    <2>2. IsFiniteSet(files')
      BY <2>1, FS_Subset
    <2> QED  BY <2>1, <2>2
  <1>6. CASE RemoveFails
    <2>1. /\ UNCHANGED <<received, buffer, hand, files, tag, table>> /\ current' = NoFile
          /\ pc = "remove" /\ pc' = "insert" /\ queue' = {} /\ Fault("doubt")
      BY <1>6 DEF RemoveFails
    <2> QED  BY <2>1, <1>0 DEF FaultKind
  <1>7. CASE InsertOk
    <2>1. /\ table' = Inserted(hand) /\ hand' = {} /\ pc = "insert" /\ pc' = "idle"
          /\ UNCHANGED <<received, buffer, files, queue, current, tag, faults>>
      BY <1>7 DEF InsertOk
    <2>2. \A r \in Rows \ received : table'[r] = 0
      BY <2>1 DEF Inserted
    <2> QED  BY <2>1, <2>2, <1>f
  <1>8. CASE InsertFails
    <2>1. /\ table' = table \/ table' = Inserted(hand)
          /\ UNCHANGED <<received, buffer, hand, files, queue, current, tag>>
          /\ pc = "insert" /\ pc' = "spill" /\ (Fault("outage") \/ Fault("doubt"))
      BY <1>8 DEF InsertFails
    <2>2. \A r \in Rows \ received : table'[r] = 0
      BY <2>1 DEF Inserted
    <2> QED  BY <2>1, <2>2, <1>0, <1>f DEF FaultKind
  <1>9. ASSUME NEW f, f.tag = tag, \A r \in Rows : r \in f.rows => r \in hand,
               files' \in {files, files \cup {f}}, tag' = tag + 1,
               hand' = {}, pc' = "idle", current' = NoFile, queue' \subseteq queue,
               buffer' \subseteq buffer, UNCHANGED <<received, table>>,
               faults' = faults \/ Fault("torn") \/ Fault("crash")
        PROVE  Places'
    <2>1. IsFiniteSet(files')
      BY <1>9, FS_AddElement
    <2>2. \A g \in files' : g.tag \in 1..tag'
      BY <1>9
    <2>3. \A r \in Rows \ received : \A g \in files' : r \notin g.rows
      BY <1>9
    <2>4. faults' \in [FaultKind -> Nat]
      BY <1>0, <1>9 DEF FaultKind
    <2> QED  BY <1>9, <2>1, <2>2, <2>3, <2>4
  <1>10. CASE Spill
    <2> DEFINE f == [tag |-> tag, rows |-> hand, whole |-> TRUE]
    <2>1. f.tag = tag /\ f.rows = hand  OBVIOUS
    <2>2. files' = files \cup {f} /\ current = NoFile
      BY <1>10 DEF Spill
    <2> HIDE DEF f
    <2> QED  BY <1>9, <1>10, <2>1, <2>2 DEF Spill
  <1>11. CASE SpillFails \/ Crash
    <2> DEFINE f == [tag |-> tag, rows |-> {}, whole |-> FALSE]
    <2>1. f.tag = tag /\ f.rows = {}  OBVIOUS
    <2>2. files' \in {files, files \cup {f}} /\ current' = NoFile
      BY <1>11 DEF SpillFails, Crash
    <2> HIDE DEF f
    <2> QED  BY <1>9, <1>11, <2>1, <2>2 DEF SpillFails, Crash
  <1>12. CASE UNCHANGED vars  BY <1>12 DEF vars
  <1> QED  BY <1>1, <1>2, <1>3, <1>4, <1>5, <1>6, <1>7, <1>8, <1>10, <1>11, <1>12
           DEF Next, Flush

\* A followed row that was not delivered counts nothing.
LEMMA NotYet ==
  ASSUME Places, NEW r \in Rows, r \notin received
  PROVE  Count(r) = 0
  <1>1. Holders(r) = {} /\ table[r] = 0 /\ Mine(r) = 0
    BY DEF Places, Nowhere, Holders, Unsent, Mine
  <1> QED  BY <1>1, FS_EmptySet DEF Count

\* Every step that stores a row, or puts a stored one back among those to be
\* inserted, either takes a copy away or is allowed for.
LEMMA CountKept == CountInv /\ [Next]_vars => DuplicatesHaveCause'
  <1>a. DuplicatesHaveCause' <=> \A r \in Rows : Count(r)' <= Allowance'
    BY DEF DuplicatesHaveCause, Count, Mine, Holders, Allowance
  <1> SUFFICES ASSUME CountInv, [Next]_vars, NEW r \in Rows
               PROVE  Count(r)' <= Allowance'
    BY <1>a
  <1> DEFINE old == Cardinality(Holders(r))
             new == Cardinality(Holders(r)')
  <1>0. /\ Places /\ Allowance \in Nat /\ Count(r) <= Allowance
        /\ table[r] \in Nat /\ Mine(r) \in 0..1 /\ IsFiniteSet(Holders(r))
        /\ old \in Nat /\ Count(r) = table[r] + old + Mine(r)
    BY Counted DEF CountInv, Count
  <1>c. Count(r)' = table'[r] + new + Mine(r)'
    BY DEF Count
  <1>t. \A S : Inserted(S)[r] = IF r \in S THEN table[r] + 1 ELSE table[r]
    BY DEF Inserted
  <1>s. /\ UNCHANGED faults => Allowance' = Allowance
        /\ Fault("doubt") => Allowance' = Allowance + 1
        /\ Fault("crash") => Allowance' = Allowance + 1
        /\ Fault("outage") => Allowance' = Allowance
        /\ Fault("torn") => Allowance' = Allowance
    BY <1>0 DEF Allowance, Fault, Places, FaultKind
  <1>h. UNCHANGED <<files, current>> => new = old
    BY DEF Holders, Unsent
  <1>m. Mine(r)' \in 0..1
    BY DEF Mine
  <1>1. ASSUME NEW x \in Rows \cup {Filler}, Receive(x) PROVE Count(r)' <= Allowance'
    <2>1. UNCHANGED <<files, current, table, faults>> /\ pc = "idle" /\ hand = {} /\ x \notin received
      BY <1>0, <1>1 DEF Receive, Places
    <2>2. buffer' \cup hand' = buffer \cup {x}
      BY <1>1, <2>1 DEF Receive, StartFlush
    <2>3. CASE x = r
      <3>1. Count(r) = 0
        BY <1>0, <2>1, <2>3, NotYet
      <3> QED  BY <1>0, <1>c, <1>s, <1>h, <1>m, <2>1, <3>1 DEF Allowance, Places, FaultKind
    <2>4. CASE x # r
      <3>1. Mine(r)' = Mine(r)
        BY <2>1, <2>2, <2>4 DEF Mine
      <3> QED  BY <1>0, <1>c, <1>s, <1>h, <2>1, <3>1
    <2> QED  BY <2>3, <2>4
  <1>2. CASE FlushDue
    <2>1. UNCHANGED <<files, current, table, faults>> /\ Mine(r)' = Mine(r)
      BY <1>0, <1>2 DEF FlushDue, StartFlush, Places, Mine
    <2> QED  BY <1>0, <1>c, <1>s, <1>h, <2>1
  <1>3. CASE DrainOk
    <2>1. PICK f \in queue : f.whole /\ table' = Inserted(f.rows) /\ current' = f
      BY <1>3 DEF DrainOk
    <2>2. /\ current = NoFile /\ UNCHANGED <<files, faults>> /\ Mine(r)' = Mine(r)
          /\ f \in files /\ \A g \in files : g # NoFile
      BY <1>0, <1>3 DEF DrainOk, Places, Mine, NoFile
    <2>3. Holders(r)' = Holders(r) \ {f}
      BY <2>1, <2>2 DEF Holders, Unsent
    <2>4. r \in f.rows => f \in Holders(r)
      BY <2>1, <2>2 DEF Holders, Unsent
    <2>5. new = IF f \in Holders(r) THEN old - 1 ELSE old
      BY <1>0, <2>3, FS_RemoveElement
    <2>6. /\ r \in f.rows => new = old - 1 /\ table'[r] = table[r] + 1
          /\ r \notin f.rows => new = old /\ table'[r] = table[r]
      <3>1. r \notin f.rows => f \notin Holders(r)
        BY DEF Holders
      <3> QED  BY <1>t, <2>1, <2>4, <2>5, <3>1
    <2> HIDE DEF old, new
    <2> QED  BY <1>0, <1>c, <1>s, <2>2, <2>6
  <1>4. CASE DrainFails
    <2>1. /\ UNCHANGED <<files, current>> /\ Mine(r)' = Mine(r)
          /\ \/ UNCHANGED table /\ (UNCHANGED faults \/ Fault("outage"))
             \/ Fault("doubt") /\ \E f \in queue : table' = Inserted(f.rows)
      BY <1>4 DEF DrainFails, Mine
    <2>2. CASE UNCHANGED table /\ (UNCHANGED faults \/ Fault("outage"))
      BY <1>0, <1>c, <1>s, <1>h, <2>1, <2>2
    <2>3. CASE Fault("doubt") /\ \E f \in queue : table' = Inserted(f.rows)
      <3>1. table'[r] = table[r] \/ table'[r] = table[r] + 1
        BY <1>t, <2>3
      <3> QED  BY <1>0, <1>c, <1>s, <1>h, <2>1, <2>3, <3>1
    <2> QED  BY <2>1, <2>2, <2>3
  <1>5. CASE DrainRemove
    <2>1. /\ files' = files \ {current} /\ current' = NoFile
          /\ UNCHANGED <<table, faults>> /\ Mine(r)' = Mine(r)
      BY <1>5 DEF DrainRemove, Mine
    <2>2. Holders(r)' \subseteq Holders(r)
      BY <2>1 DEF Holders, Unsent
    <2>3. new \in Nat /\ new <= old
      BY <1>0, <2>2, FS_Subset, FS_CardinalityType
    <2> HIDE DEF old, new
    <2> QED  BY <1>0, <1>c, <1>s, <2>1, <2>3
  <1>6. CASE RemoveFails \/ Crash
    <2>1. Holders(r)' \subseteq Holders(r) \cup {current}
      BY <1>6 DEF RemoveFails, Crash, Holders, Unsent
    <2>2. new \in Nat /\ new <= old + 1
      BY <1>0, <2>1, OneMoreHolder
    <2>3. UNCHANGED table /\ (Fault("doubt") \/ Fault("crash")) /\ Mine(r)' <= Mine(r)
      BY <1>6 DEF RemoveFails, Crash, Mine
    <2> HIDE DEF old, new
    <2> QED  BY <1>0, <1>c, <1>s, <1>m, <2>2, <2>3
  <1>7. CASE InsertOk
    <2>1. /\ UNCHANGED <<files, current, faults>> /\ table' = Inserted(hand)
          /\ buffer = {} /\ buffer' = {} /\ hand' = {}
      BY <1>0, <1>7 DEF InsertOk, Places
    <2>2. table'[r] + Mine(r)' = table[r] + Mine(r)
      BY <1>0, <1>t, <2>1 DEF Mine
    <2>3. table'[r] \in Nat
      BY <1>0, <1>t, <2>1
    <2> QED  BY <1>0, <1>c, <1>s, <1>h, <1>m, <2>1, <2>2, <2>3
  <1>8. CASE InsertFails
    <2>1. /\ UNCHANGED <<files, current>> /\ Mine(r)' = Mine(r)
          /\ \/ Fault("outage") /\ UNCHANGED table
             \/ Fault("doubt") /\ table' = Inserted(hand)
      BY <1>8 DEF InsertFails, Mine
    <2>2. CASE Fault("outage") /\ UNCHANGED table
      BY <1>0, <1>c, <1>s, <1>h, <2>1, <2>2
    <2>3. CASE Fault("doubt") /\ table' = Inserted(hand)
      <3>1. table'[r] = table[r] \/ table'[r] = table[r] + 1
        BY <1>t, <2>3
      <3> QED  BY <1>0, <1>c, <1>s, <1>h, <2>1, <2>3, <3>1
    <2> QED  BY <2>1, <2>2, <2>3
  <1>9. CASE Spill
    <2> DEFINE f == [tag |-> tag, rows |-> hand, whole |-> TRUE]
    <2>1. /\ files' = files \cup {f} /\ UNCHANGED <<current, table, faults>>
          /\ buffer = {} /\ buffer' = {} /\ hand' = {}
      BY <1>0, <1>9 DEF Spill, Places
    <2>2. f.rows = hand  OBVIOUS
    <2> HIDE DEF f
    <2>3. CASE r \in hand
      <3>1. Mine(r) = 1 /\ Mine(r)' = 0
        BY <2>1, <2>3 DEF Mine
      <3>2. Holders(r)' \subseteq Holders(r) \cup {f}
        BY <2>1 DEF Holders, Unsent
      <3>3. new \in Nat /\ new <= old + 1
        BY <1>0, <3>2, OneMoreHolder
      <3> HIDE DEF old, new
      <3> QED  BY <1>0, <1>c, <1>s, <2>1, <3>1, <3>3
    <2>4. CASE r \notin hand
      <3>1. Mine(r) = 0 /\ Mine(r)' = 0
        BY <2>1, <2>4 DEF Mine
      <3>2. Holders(r)' = Holders(r)
        BY <2>1, <2>2, <2>4 DEF Holders, Unsent
      <3> QED  BY <1>0, <1>c, <1>s, <2>1, <3>1, <3>2
    <2> QED  BY <2>3, <2>4
  <1>10. CASE SpillFails
    <2>1. Holders(r)' = Holders(r)
      BY <1>10 DEF SpillFails, Holders, Unsent
    <2>2. UNCHANGED table /\ Fault("torn") /\ Mine(r)' <= Mine(r)
      BY <1>10 DEF SpillFails, Mine
    <2> QED  BY <1>0, <1>c, <1>s, <1>m, <2>1, <2>2
  <1>11. CASE UNCHANGED vars
    <2>1. UNCHANGED <<files, current, table, faults>> /\ Mine(r)' = Mine(r)
      BY <1>11 DEF vars, Mine
    <2> QED  BY <1>0, <1>c, <1>s, <1>h, <2>1
  <1> QED  BY <1>1, <1>2, <1>3, <1>4, <1>5, <1>6, <1>7, <1>8, <1>9, <1>10, <1>11
           DEF Next, Flush

\* No row is stored more often than the inserts that raised after storing, the
\* files that could not be removed and the crashes allow for, in whatever order
\* flushes, drains and failures come (flush_buffer).
THEOREM DuplicatesCounted == Spec => []DuplicatesHaveCause
  <1>1. Init => CountInv
    <2> SUFFICES ASSUME Init PROVE CountInv  OBVIOUS
    <2>1. Places
      BY FS_EmptySet DEF Init, Places, Nowhere, NoFile
    <2>2. \A r \in Rows : Count(r) = 0
      BY <2>1, NotYet DEF Init
    <2>3. \A r \in Rows : Count(r) <= Allowance
      BY <2>1, <2>2, Counted
    <2> QED  BY <2>1, <2>3, Counted DEF CountInv
  <1>2. CountInv /\ [Next]_vars => CountInv'
    BY PlacesKept, CountKept DEF CountInv
  <1>3. CountInv => DuplicatesHaveCause
    BY DEF CountInv
  <1> QED  BY <1>1, <1>2, <1>3, PTL DEF Spec
=============================================================================
