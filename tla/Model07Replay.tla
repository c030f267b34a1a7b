---------------------------- MODULE Model07Replay ---------------------------
(***************************************************************************)
(* run_model07_replay: one process per session date feeds the day's bars   *)
(* to the model and saves its tranches in three files.  The process may be *)
(* killed anywhere.                                                        *)
(***************************************************************************)
EXTENDS Model07, TradeLedger

CONSTANTS
    Excluded,       \* dates of the macro calendar
    LastMinute,     \* bound: last minute of a session, after Close
    MaxSessions     \* bound: replays that are started

ASSUME ReplayAssumption ==
    /\ Excluded \subseteq Date
    /\ LastMinute \in Nat /\ LastMinute > Close
    /\ MaxSessions \in Nat
    /\ MaxRows >= Windows

VARIABLES
    phase,      \* what the process does next
    date,       \* the session it replays
    source,     \* where its bars and quotes come from
    day,        \* the state of Model07Strategy
    minute,     \* minute of the last bar
    gap,        \* longest step between two bars of the session
    daily,      \* daily_logs/model07_trades_<date>.csv
    master,     \* model07_trades.csv
    summary,    \* model07_daily_summary.csv
    suspect,    \* history: dates whose last save was interrupted or cut away
    sessions    \* history: replays started

sessionVars == <<date, source, day, minute, gap>>
ledgerVars  == <<daily, master, summary, suspect>>
vars        == <<phase, sessionVars, ledgerVars, sessions>>

Phase == {"down", "bars", "daily", "master", "summary"}

Saving == {"daily", "master", "summary"}

Init ==
    /\ phase = "down"
    /\ date = CHOOSE d \in Date : TRUE
    /\ source = "csv"
    /\ day = NewDay
    /\ minute = 0
    /\ gap = 0
    /\ daily = NoHistory
    /\ master = NoHistory
    /\ summary = NoHistory
    /\ suspect = {}
    /\ sessions = 0

\* The process ends and its memory with it.
Exit ==
    /\ phase' = "down"
    /\ day' = NewDay
    /\ minute' = 0
    /\ gap' = 0
    /\ UNCHANGED <<date, source>>

\* An excluded date, or one without bars, ends before the strategy exists.
StartSession ==
    /\ phase = "down"
    /\ sessions < MaxSessions
    /\ sessions' = sessions + 1
    /\ \E d \in Date \ Excluded, s \in {"csv", "clickhouse"} :
          /\ date' = d
          /\ source' = s
    /\ phase' = "bars"
    /\ day' = NewDay
    /\ minute' = 0
    /\ gap' = 0
    /\ UNCHANGED ledgerVars

\* ClickHouse is asked for the quotes of the roll minutes only.
QuotedAt(m) ==
    IF source = "csv" \/ \E w \in 1..(Windows + 1) : m = EntryAt(w)
    THEN SUBSET Centre ELSE {{}}

\* The next bar there is.  A halted model returns at once.
Bar ==
    /\ phase = "bars"
    /\ \E m \in (minute + 1)..LastMinute :
          /\ minute' = m
          /\ gap' = Max({gap, m - minute})
          /\ IF day.state = "HALTED" THEN UNCHANGED day
             ELSE \E bar \in Bars, quoted \in QuotedAt(m) : day' = OnMinuteBar(day, m, bar, quoted)
    /\ UNCHANGED <<phase, date, source, ledgerVars, sessions>>

\* No bar is left.  A day without a closed tranche is not saved.
EndOfBars ==
    /\ phase = "bars"
    /\ IF day.closed = <<>> THEN Exit ELSE phase' = "daily" /\ UNCHANGED sessionVars
    /\ UNCHANGED <<ledgerVars, sessions>>

SaveDaily ==
    /\ phase = "daily"
    /\ daily' = [daily EXCEPT ![date] = Len(day.closed)]
    /\ suspect' = suspect \cup {date}
    /\ phase' = "master"
    /\ UNCHANGED <<sessionVars, master, summary, sessions>>

SaveMaster ==
    /\ phase = "master"
    /\ master' = Rewritten(master, date, Len(day.closed))
    /\ phase' = "summary"
    /\ UNCHANGED <<sessionVars, daily, summary, suspect, sessions>>

SaveSummary ==
    /\ phase = "summary"
    /\ summary' = Rewritten(summary, date, Len(day.closed))
    /\ suspect' = suspect \ {date}
    /\ Exit
    /\ UNCHANGED <<daily, master, sessions>>

Killed ==
    /\ phase # "down"
    /\ Exit
    /\ UNCHANGED <<ledgerVars, sessions>>

Differs(f, g) == {d \in Date : f[d] # g[d]}

\* Killed inside to_csv.
KilledSaving ==
    /\ phase \in {"master", "summary"}
    /\ Exit
    /\ LET n == Len(day.closed)
       IN  \/ /\ phase = "master"
              /\ master' \in CutShort(Rewritten(master, date, n))
              /\ suspect' = suspect \cup {date} \cup Differs(master', master)
              /\ UNCHANGED summary
           \/ /\ phase = "summary"
              /\ summary' \in CutShort(Rewritten(summary, date, n))
              /\ suspect' = suspect \cup {date} \cup Differs(summary', summary)
              /\ UNCHANGED master
    /\ UNCHANGED <<daily, sessions>>

Next ==
    \/ StartSession \/ Bar \/ EndOfBars
    \/ SaveDaily \/ SaveMaster \/ SaveSummary
    \/ Killed \/ KilledSaving

Spec == Init /\ [][Next]_vars

-----------------------------------------------------------------------------
Held == IF day.active = None THEN {} ELSE {day.active}

\* What every window of the day became: settled, held or dropped.
CoveredBy(i) == day.closed[i].covered

TypeOK ==
    /\ phase \in Phase
    /\ date \in Date
    /\ source \in {"csv", "clickhouse"}
    /\ day.state \in {"ACTIVE", "HALTED"}
    /\ day.active = None \/ day.active \in Tranche
    /\ day.closed \in Seq(Settled)
    /\ day.executed \subseteq Window
    /\ day.completed \in BOOLEAN
    /\ day.dropped \subseteq Window
    /\ minute \in 0..LastMinute /\ gap \in 0..LastMinute
    /\ daily \in Ledger /\ master \in Ledger /\ summary \in Ledger
    /\ suspect \subseteq Date
    /\ sessions \in 0..MaxSessions

\* A window of the day is sold once: entered, or rolled into, never both, and
\* never by two tranches (model_07.py: executed_tranche_indices is filled on
\* both paths, in sections that do not look at each other).
WindowsOnce ==
    /\ \A i, j \in DOMAIN day.closed : i # j => CoveredBy(i) \cap CoveredBy(j) = {}
    /\ \A i \in DOMAIN day.closed, t \in Held : CoveredBy(i) \cap t.covered = {}
    /\ \A w \in day.dropped : /\ \A i \in DOMAIN day.closed : w \notin CoveredBy(i)
                              /\ \A t \in Held : w \notin t.covered
    /\ UNION ({CoveredBy(i) : i \in DOMAIN day.closed} \cup {t.covered : t \in Held} \cup {day.dropped})
          \subseteq day.executed

\* A strangle leaves the book at its exit and not later (model_07.py: a bar rolls
\* or exits once only, elif on exit_time), and not unsettled: another takes its
\* place only after a halt at its exit (model_07.py:274).  With the bars of a whole
\* window missing it may roll into a window already over, and then neither holds.
HeldWithinWindow ==
    gap <= Hour => /\ \A t \in Held : day.state = "ACTIVE" => minute < t.exit
                   /\ day.dropped # {} => day.state = "HALTED"

\* The end-of-day report, sent once, names every tranche the day settles: none
\* settles after it (model_07.py section 3; gaps as above).
ReportIsFinal == day.completed => day.report = day.closed \/ gap > Hour

\* The three files agree on every date whose save was not interrupted
\* (run_model_07.py save_session_trades: three rewrites, no transaction).
LedgersAgree ==
    \A d \in Date \ suspect :
        (phase \in Saving /\ d = date) \/ (daily[d] = master[d] /\ master[d] = summary[d])
=============================================================================
