---------------------------- MODULE ForwardEngine ---------------------------
(***************************************************************************)
(* forward_tester/run.py and engine.py: Strategy 6 sells two pairs of      *)
(* option legs at 9:18, watches their stops and closes at 15:00 what is    *)
(* left.  Each change of the book is saved in a CSV file, from which a     *)
(* restarted process reads its positions back.                             *)
(***************************************************************************)
EXTENDS RawInputLogger

CONSTANTS
    Primary, Secondary,     \* the legs of either pair (a call and a put)
    MaxStarts,              \* bound: processes started
    MaxEntries,             \* bound: entries made on the day
    MaxErrors               \* bound: exceptions

ASSUME EngineAssumption ==
    /\ Primary \cap Secondary = {} /\ Primary # {} /\ Secondary # {}
    /\ MaxStarts \in Nat /\ MaxEntries \in Nat /\ MaxErrors \in Nat

VARIABLES
    clock,      \* part of the day
    now,        \* its value when the loop began
    pc,         \* stage of the loop
    mem,        \* the status of every position in the memory of the process
    deaf,       \* positions read back: the file has no column for the symbol
    flags,      \* what else the process remembers of the day
    raw,        \* the log of the process
    file,       \* the rows of the day in dual_model_trades.csv
    book,       \* history: the status the program last gave every position
    fault,      \* history: where the record parts from the book
    past        \* history: starts, entries, errors, and whether a process that
                \* knew its positions ran to the end of the session

procVars   == <<now, pc, mem, deaf, flags, raw>>
engineVars == <<clock, procVars, file, book, fault, past>>

\* Before 9:15, 9:18, 15:00 and 15:00:05, and after.
Clock == {"early", "open", "trade", "square", "over"}

After(c) == CASE c = "early" -> "open" [] c = "open" -> "trade"
              [] c = "trade" -> "square" [] OTHER -> "over"

Stage == {"down", "top", "entry", "logEntry", "monitor", "logMonitor",
          "square", "logSquare", "exit", "asleep"}

Leg == Primary \cup Secondary

Position == (1..MaxEntries) \X Leg

Status == {"NONE", "OPEN", "SL_HIT", "EOD_EXIT"}

Empty == [p \in Position |-> "NONE"]

Open(f) == {p \in Position : f[p] = "OPEN"}

Recorded(f) == {p \in Position : f[p] # "NONE"}

Marked(f, S, s) == [p \in Position |-> IF p \in S THEN s ELSE f[p]]

NewFlags == [executed |-> FALSE, expiry |-> FALSE, triggered |-> FALSE,
             refreshed |-> FALSE, squared |-> FALSE]

EngineInit ==
    /\ clock = "early" /\ now = "early"
    /\ pc = "down"
    /\ mem = Empty /\ deaf = {} /\ flags = NewFlags
    /\ raw = Unopened
    /\ file = Empty /\ book = Empty
    /\ fault = [unsaved |-> FALSE, forgotten |-> FALSE, lost |-> FALSE]
    /\ past = [starts |-> 0, entries |-> 0, errors |-> 0, ended |-> FALSE]

Failing == past.errors < MaxErrors /\ past' = [past EXCEPT !.errors = @ + 1]

\* Reading a quote logs it.
Reads == raw' \in {raw} \cup (IF raw.sent < MaxMessages THEN Logged(raw) ELSE {})

Tick ==
    /\ clock # "over"
    /\ clock' = After(clock)
    /\ UNCHANGED <<procVars, file, book, fault, past>>

-----------------------------------------------------------------------------
(* Reading the positions back.                                             *)

\* Mutant: every row read back becomes a closed position.
LoadedClosed ==
    /\ mem' = Marked(file, Open(file), "EOD_EXIT")
    /\ deaf' = Recorded(file)
    /\ fault' = [fault EXCEPT !.forgotten = FALSE, !.lost = @ \/ fault.unsaved, !.unsaved = FALSE]

\* load_saved_positions, after the memory was cleared.
LoadSavedPositions ==
    /\ mem' = file
    /\ deaf' = Recorded(file)
    /\ fault' = [fault EXCEPT !.forgotten = FALSE, !.lost = @ \/ fault.unsaved, !.unsaved = FALSE]

\* Nothing is read back: the file cannot be read, or init_trading_day, which
\* clears the memory first, raises.
Forgets(f) ==
    /\ mem' = Empty
    /\ deaf' = {}
    /\ fault' = [fault EXCEPT !.forgotten = @ \/ f # Empty, !.lost = @ \/ fault.unsaved,
                              !.unsaved = FALSE]

\* MultiModelEngine.__init__ and the head of run_live.  Without market data,
\* or with the exchange closed, the process ends at once.
Start ==
    /\ pc = "down"
    /\ past.starts < MaxStarts
    /\ \/ /\ past' = [past EXCEPT !.starts = @ + 1]
          /\ LoadSavedPositions
       \/ /\ past.errors < MaxErrors
          /\ past' = [past EXCEPT !.starts = @ + 1, !.errors = @ + 1]
          /\ Forgets(file)
    /\ \E e \in BOOLEAN : flags' = [NewFlags EXCEPT !.expiry = e, !.triggered = Open(mem') # {}]
    /\ raw' \in InitWriter(Unopened)
    /\ pc' = "top"
    /\ UNCHANGED <<clock, now, file, book>>

RefreshDue == ~flags.refreshed /\ clock \in {"open", "trade", "square"}

\* The head of the loop, and the refresh at market open.
Top ==
    /\ pc = "top"
    /\ now' = clock
    /\ \/ /\ ~RefreshDue
          /\ pc' = "entry"
          /\ UNCHANGED <<mem, deaf, flags, fault, past>>
       \/ /\ RefreshDue
          /\ \/ LoadSavedPositions /\ UNCHANGED past
             \/ Forgets(file) /\ Failing
          /\ \E e \in BOOLEAN :
                flags' = [flags EXCEPT !.refreshed = TRUE, !.executed = FALSE, !.expiry = e]
          /\ pc' = "entry"
       \/ /\ RefreshDue
          /\ Forgets(mem)
          /\ Failing
          /\ flags' = [flags EXCEPT !.executed = FALSE]
          /\ pc' = "asleep"
    /\ UNCHANGED <<clock, raw, file, book>>

-----------------------------------------------------------------------------
(* The entry.                                                              *)

EntryDue == ~flags.triggered /\ now = "trade"

\* Nothing is due; the stages computed ahead of time may raise.
NoEntry ==
    /\ pc = "entry"
    /\ \/ ~EntryDue /\ pc' = "monitor" /\ UNCHANGED past
       \/ ~flags.triggered /\ now \in {"open", "trade"} /\ pc' = "asleep" /\ Failing
    /\ UNCHANGED <<clock, now, mem, deaf, flags, raw, file, book, fault>>

\* Without an expiry the day is initialised again, and nothing is read back.
NoExpiry ==
    /\ pc = "entry" /\ EntryDue /\ ~flags.expiry
    /\ Forgets(mem)
    /\ \/ /\ \E e \in BOOLEAN : flags' = [flags EXCEPT !.executed = FALSE, !.expiry = e]
          /\ pc' = IF flags'.expiry THEN "entry" ELSE "monitor"
          /\ UNCHANGED past
       \/ /\ flags' = [flags EXCEPT !.executed = FALSE]
          /\ pc' = "asleep"
          /\ Failing
    /\ UNCHANGED <<clock, now, raw, file, book>>

\* execute_0918_entry returns the positions there are.
EntryHeld ==
    /\ pc = "entry" /\ EntryDue /\ flags.expiry
    /\ flags.executed \/ Open(mem) # {}
    /\ flags' = [flags EXCEPT !.triggered = Open(mem) # {}]
    /\ pc' = IF Open(mem) # {} THEN "logEntry" ELSE "monitor"
    /\ UNCHANGED <<clock, now, mem, deaf, raw, file, book, fault, past>>

\* Spot price or option chain are missing, or an entry price is stale and the
\* legs created so far are dropped.
EntryFails ==
    /\ pc = "entry" /\ EntryDue /\ flags.expiry
    /\ ~flags.executed /\ Open(mem) = {}
    /\ Reads
    /\ \/ pc' = "monitor" /\ UNCHANGED past
       \/ pc' = "asleep" /\ Failing
    /\ UNCHANGED <<clock, now, mem, deaf, flags, file, book, fault>>

\* Either pair is sold whole or not at all; an entry without legs is final.
\* Mutant: positions still open do not stop an entry.
EnterAlways ==
    /\ pc = "entry" /\ now = "trade" /\ flags.expiry
    /\ ~flags.executed
    /\ past.entries < MaxEntries
    /\ \E S \in {{}, Primary, Secondary, Leg} :
          LET new == {past.entries + 1} \X S
          IN  /\ mem' = Marked(mem, new, "OPEN")
              /\ book' = Marked(book, new, "OPEN")
              /\ flags' = [flags EXCEPT !.executed = TRUE, !.triggered = S # {}]
              /\ fault' = [fault EXCEPT !.unsaved = @ \/ S # {}]
              /\ pc' = IF S = {} THEN "monitor" ELSE "logEntry"
    /\ past' = [past EXCEPT !.entries = @ + 1]
    /\ Reads
    /\ UNCHANGED <<clock, now, deaf, file>>

Enter ==
    /\ pc = "entry" /\ EntryDue /\ flags.expiry
    /\ ~flags.executed /\ Open(mem) = {}
    /\ past.entries < MaxEntries
    /\ \E S \in {{}, Primary, Secondary, Leg} :
          LET new == {past.entries + 1} \X S
          IN  /\ mem' = Marked(mem, new, "OPEN")
              /\ book' = Marked(book, new, "OPEN")
              /\ flags' = [flags EXCEPT !.executed = TRUE, !.triggered = S # {}]
              /\ fault' = [fault EXCEPT !.unsaved = @ \/ S # {}]
              /\ pc' = IF S = {} THEN "monitor" ELSE "logEntry"
    /\ past' = [past EXCEPT !.entries = @ + 1]
    /\ Reads
    /\ UNCHANGED <<clock, now, deaf, file>>

-----------------------------------------------------------------------------
(* Stops, the close of 15:00 and the end of the session.                   *)

\* A position whose symbol is not known keeps its last price.
Monitor ==
    /\ pc = "monitor"
    /\ \E S \in SUBSET (Open(mem) \ deaf) :
          /\ mem' = Marked(mem, S, "SL_HIT")
          /\ book' = Marked(book, S, "SL_HIT")
          /\ fault' = [fault EXCEPT !.unsaved = @ \/ S # {}]
          /\ pc' = IF S = {} THEN "square" ELSE "logMonitor"
    /\ Reads
    /\ UNCHANGED <<clock, now, deaf, flags, file, past>>

SquareOff ==
    /\ mem' = Marked(mem, Open(mem), "EOD_EXIT")
    /\ book' = Marked(book, Open(mem), "EOD_EXIT")

\* Mutant: the close is due in the five seconds after 15:00 only.
SquareDueShortly == ~flags.squared /\ now = "square"

SquareDue == ~flags.squared /\ now \in {"square", "over"}

Square ==
    /\ pc = "square"
    /\ IF SquareDue
       THEN /\ SquareOff
            /\ flags' = [flags EXCEPT !.squared = TRUE]
            /\ fault' = [fault EXCEPT !.unsaved = @ \/ Open(mem) # {}]
            /\ pc' = "logSquare"
       ELSE /\ pc' = "exit"
            /\ UNCHANGED <<mem, flags, book, fault>>
    /\ UNCHANGED <<clock, now, deaf, raw, file, past>>

\* log_trade_execution: the rows of the day become the positions in memory.
Saved == mem

Logging == {"logEntry", "logMonitor", "logSquare"}

AfterLog == CASE pc = "logEntry" -> "monitor" [] pc = "logMonitor" -> "square" [] OTHER -> "exit"

\* Its exceptions are only printed.
LogTradeExecution ==
    \/ /\ file' = Saved
       /\ fault' = [fault EXCEPT !.unsaved = FALSE, !.lost = @ \/ fault.forgotten]
       /\ UNCHANGED past
    \/ /\ UNCHANGED <<file, fault>>
       /\ Failing

Log ==
    /\ pc \in Logging
    /\ LogTradeExecution
    /\ pc' = AfterLog
    /\ UNCHANGED <<clock, now, mem, deaf, flags, raw, book>>

\* The process ends and its memory with it.
Gone ==
    /\ pc' = "down"
    /\ mem' = Empty /\ deaf' = {} /\ flags' = NewFlags
    /\ UNCHANGED <<clock, now>>

LoopEnd ==
    /\ pc = "exit"
    /\ \/ /\ now # "over"
          /\ pc' = "top"
          /\ UNCHANGED <<clock, now, mem, deaf, flags, raw, fault, past>>
       \/ /\ now = "over"
          /\ Gone
          /\ raw' \in Closed(raw)
          /\ fault' = [unsaved |-> FALSE, forgotten |-> FALSE, lost |-> fault.lost \/ fault.unsaved]
          /\ past' = [past EXCEPT !.ended = @ \/ ~fault.forgotten]
    /\ UNCHANGED <<file, book>>

Wake ==
    /\ pc = "asleep"
    /\ pc' = "top"
    /\ UNCHANGED <<clock, now, mem, deaf, flags, raw, file, book, fault, past>>

\* Control-C: what is open is closed and saved first.
Interrupt ==
    /\ pc \in {"top", "entry", "monitor", "square", "exit"}
    /\ book' = Marked(book, Open(mem), "EOD_EXIT")
    /\ \/ /\ Open(mem) # {}
          /\ file' = Marked(mem, Open(mem), "EOD_EXIT")
          /\ fault' = [unsaved |-> FALSE, forgotten |-> FALSE, lost |-> fault.lost \/ fault.forgotten]
          /\ UNCHANGED past
       \/ /\ Open(mem) # {}
          /\ Failing
          /\ fault' = [unsaved |-> FALSE, forgotten |-> FALSE, lost |-> TRUE]
          /\ UNCHANGED file
       \/ /\ Open(mem) = {}
          /\ fault' = [unsaved |-> FALSE, forgotten |-> FALSE, lost |-> fault.lost \/ fault.unsaved]
          /\ UNCHANGED <<file, past>>
    /\ raw' \in Closed(raw)
    /\ Gone

\* Killed.  A writer killed in to_csv leaves some of the rows.
EngineKilled ==
    /\ pc # "down"
    /\ Gone
    /\ raw' = [raw EXCEPT !.buffer = 0, !.writer = FALSE]
    /\ \/ /\ fault' = [unsaved |-> FALSE, forgotten |-> FALSE, lost |-> fault.lost \/ fault.unsaved]
          /\ UNCHANGED file
       \/ /\ pc \in Logging
          /\ \E S \in SUBSET Recorded(mem) : S # {} /\ file' = Marked(mem, S, "NONE")
          /\ fault' = [unsaved |-> FALSE, forgotten |-> FALSE, lost |-> TRUE]
    /\ UNCHANGED <<book, past>>

Loop == Top \/ NoEntry \/ NoExpiry \/ EntryHeld \/ EntryFails \/ Enter \/ Monitor \/ Square
            \/ Log \/ LoopEnd \/ Wake

EngineNext == Tick \/ Start \/ Loop \/ Interrupt \/ EngineKilled

EngineSpec == EngineInit /\ [][EngineNext]_engineVars /\ WF_engineVars(Tick) /\ WF_engineVars(Loop)

-----------------------------------------------------------------------------
EngineTypeOK ==
    /\ clock \in Clock /\ now \in Clock
    /\ pc \in Stage
    /\ mem \in [Position -> Status] /\ file \in [Position -> Status] /\ book \in [Position -> Status]
    /\ deaf \subseteq Position
    /\ flags \in [executed : BOOLEAN, expiry : BOOLEAN, triggered : BOOLEAN,
                  refreshed : BOOLEAN, squared : BOOLEAN]
    /\ raw \in RawLog
    /\ fault \in [unsaved : BOOLEAN, forgotten : BOOLEAN, lost : BOOLEAN]
    /\ past \in [starts : 0..MaxStarts, entries : 0..MaxEntries, errors : 0..MaxErrors,
                 ended : BOOLEAN]

\* Process, file and truth agree on the fate of every position of the day, also
\* of those of earlier processes (engine.py load_saved_positions, log_trade_execution),
\* unless the memory was cleared and the file not read back, or a save is still
\* outstanding.  A row is lost by a save that failed or was cut short by a kill, or
\* that was made from a memory that had been cleared.
RecordKept ==
    ~fault.lost => /\ pc # "down" /\ ~fault.forgotten => mem = book
                   /\ ~fault.unsaved => file = book

\* The legs open at any time are those of one entry: no restart enters again
\* while legs of the day are open (run.py entry_triggered, BUG-25).
OneEntryOpen ==
    ~fault.lost /\ ~fault.forgotten => \A p, q \in Open(book) : p[1] = q[1]

\* Every message the process logged is in the file, waits in the buffer or was
\* dropped for want of a writer, exactly once (raw_logger.py flush and close).
RawAccounted ==
    pc # "down" \/ raw.sealed => raw.sent = raw.rows + raw.buffer + raw.dropped

\* A leg that is open gets closed, whatever raises in the loop, unless the
\* process dies or the record is lost.  The loop and the clock go on.
LegsSettle ==
    (pc # "down" /\ Open(book) # {})
        ~> (Open(book) = {} \/ (pc = "down" /\ ~past.ended) \/ fault.lost \/ fault.forgotten)
=============================================================================
