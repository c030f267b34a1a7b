----------------------------- MODULE DailyManager ----------------------------
(***************************************************************************)
(* expiry_manager.py with the scripts it runs: once a minute it looks at   *)
(* the clock and at keys in Redis and decides whether the contracts must   *)
(* be chosen anew, the collector restarted, the day's trades copied.  The  *)
(* machine is off over night, and Redis keeps nothing on disk.             *)
(***************************************************************************)
EXTENDS Integers, Sequences, FiniteSets

CONSTANTS
    Underlying,     \* NIFTY and SENSEX
    LastDay,        \* bound: working days
    Expiries,       \* Underlying -> the days its contracts expire
    Trading,        \* the days that are no exchange holidays
    MaxTroubles     \* bound: failures, deaths of processes and recoveries, together

ASSUME DailyAssumption ==
    /\ Underlying # {} /\ LastDay \in Nat \ {0} /\ MaxTroubles \in Nat
    /\ Expiries \in [Underlying -> SUBSET (Nat \ {0})]
    /\ \A u \in Underlying : Cardinality({e \in Expiries[u] : e > LastDay}) >= 2
    /\ Trading \subseteq 1..LastDay

VARIABLES
    day, phase,     \* the clock
    redis,          \* the keys of the day
    symbols,        \* nifty_option_symbols.json: the front expiry, 0 for none
    config,         \* collector/config.json: the expiries it subscribes to
    collectors,     \* the configurations of the running collectors
    mgr,            \* the manager: stage, job, clock and expiries it saw
    today,          \* history: what went wrong since the machine was switched on
    troubles        \* how many troubles there have been

clockVars == <<day, phase>>
fileVars  == <<symbols, config>>
dailyVars == <<clockVars, redis, fileVars, collectors, mgr, today, troubles>>

\* 8:30, 8:45, 9:14, 9:15, 15:30, 15:35, 15:45 and 16:30.
Boot == 0
Setup == 1
Reopen == 2
Session == 3
Closed == 4
Sync == 5
Evening == 6
Off == 7

InSession == phase = Session

Expiry == {0} \cup UNION {Expiries[u] : u \in Underlying}

Fronts == [Underlying -> Expiry]

Config == [front : Fronts, whole : BOOLEAN]

Stage == {"down", "asleep", "setup", "reopen", "roll", "sync", "copy",
          "find", "merge", "kill", "launch", "mark"}

Job == {"setup", "reopen", "roll"}

NoKeys == [processed |-> "none", reopened |-> FALSE, updated |-> FALSE, synced |-> FALSE, chain |-> FALSE]

Untroubled == [failed |-> FALSE, killed |-> FALSE, overwritten |-> FALSE, caughtUp |-> FALSE,
               overlap |-> FALSE, blank |-> FALSE, loopedHere |-> FALSE]

Idle == [pc |-> "asleep", job |-> "setup", at |-> Boot, seen |-> [u \in Underlying |-> 0]]

Dead == [Idle EXCEPT !.pc = "down"]

\* The first day is taken up at 15:30, after an ordinary session.
DailyInit ==
    /\ day = 1 /\ phase = Closed
    /\ redis = [NoKeys EXCEPT !.processed = "open", !.reopened = TRUE, !.chain = TRUE]
    /\ symbols \in {f \in Fronts : \A u \in Underlying :
                      f[u] \in Expiries[u] /\ \A e \in Expiries[u] : e >= f[u]}
    /\ config = [front |-> symbols, whole |-> TRUE]
    /\ collectors = <<config>>
    /\ mgr = Idle
    /\ today = Untroubled
    /\ troubles = 0

Trouble == troubles < MaxTroubles /\ troubles' = troubles + 1

\* Something fails: a script, a query, a Redis call.
Fault(t) ==
    /\ Trouble
    /\ today' = [t EXCEPT !.failed = TRUE]

-----------------------------------------------------------------------------
(* get_nifty_options.py and update_instruments.py.                         *)

\* Mutant: a contract stays valid after 15:45 of its last day.
ValidAllDay(u) == {e \in Expiries[u] : e >= day}

ValidExpiries(u) == {e \in Expiries[u] : e > day \/ (e = day /\ phase < Evening)}

Front(u) == CHOOSE e \in ValidExpiries(u) : \A f \in ValidExpiries(u) : e <= f

\* An underlying with fewer than two expiries listed is left out.
Chosen(listed) == [u \in Underlying |-> IF u \in listed THEN Front(u) ELSE 0]

\* The exit code tells of a failed download only.  A failed save is printed.
OptionsFound == symbols' = Chosen(Underlying) /\ UNCHANGED <<today, troubles>>

OptionsFoundInPart ==
    /\ \E listed \in SUBSET Underlying :
          listed # Underlying /\ symbols' \in {Chosen(listed), symbols}
    /\ Fault(today)

\* Mutant: the expiries the loop began with are merged.
MergesSeen == config' = [front |-> mgr.seen, whole |-> TRUE]

\* scripts/update_instruments.py: options and futures, equities and indices.
UpdateInstruments == config' = [front |-> symbols, whole |-> TRUE]

-----------------------------------------------------------------------------
(* The manager.                                                            *)

Goes(stage) == mgr' = [mgr EXCEPT !.pc = stage]

Starts(job, stage) == mgr' = [mgr EXCEPT !.pc = stage, !.job = job]

AfterJob == CASE mgr.job = "setup" -> "reopen" [] mgr.job = "reopen" -> "roll" [] OTHER -> "sync"

\* What is_market_open_today answers; with the calendar or the status out of
\* reach a weekday counts as open, and the exchange may report itself closed
\* ahead of its hours.
SeesMarket(answer) ==
    \/ answer = (day \in Trading /\ phase < Closed) /\ UNCHANGED <<today, troubles>>
    \/ phase < Closed /\ answer = (day \notin Trading) /\ Fault(today)

Empty(f) == \A u \in Underlying : f[u] = 0

\* The loop begins: the expiries of the file and the time are read.  With an
\* empty file it only waits.
Look ==
    /\ mgr.pc = "asleep"
    /\ ~Empty(symbols)
    /\ mgr' = [mgr EXCEPT !.pc = "setup", !.at = phase, !.seen = symbols]
    /\ UNCHANGED <<clockVars, redis, fileVars, collectors, today, troubles>>

SetupDue == mgr.at >= Setup /\ redis.processed = "none"

NoSetup ==
    /\ mgr.pc = "setup" /\ ~SetupDue
    /\ Goes("reopen")
    /\ UNCHANGED <<clockVars, redis, fileVars, collectors, today, troubles>>

MorningSetup ==
    /\ mgr.pc = "setup" /\ SetupDue
    /\ \/ /\ SeesMarket(TRUE)
          /\ Starts("setup", "find")
          /\ UNCHANGED <<redis, collectors>>
       \/ /\ SeesMarket(FALSE)
          /\ collectors' = <<>>
          /\ redis' = [redis EXCEPT !.processed = "closed"]
          /\ Goes("reopen")
    /\ UNCHANGED <<clockVars, fileVars>>

\* Only a loop that began within 9:14 restarts the collector; its wait of up to
\* 58 seconds is part of the step.
ReopenDue == mgr.at = Reopen /\ ~redis.reopened

MarketReopen ==
    /\ mgr.pc = "reopen"
    /\ IF ReopenDue
       THEN \E open \in BOOLEAN :
               /\ SeesMarket(open)
               /\ IF open THEN Starts("reopen", "kill") ELSE Goes("roll")
       ELSE Goes("roll") /\ UNCHANGED <<today, troubles>>
    /\ UNCHANGED <<clockVars, redis, fileVars, collectors>>

Listed == {u \in Underlying : mgr.seen[u] # 0}

ExpiryReached == mgr.at = Evening /\ \E u \in Listed : mgr.seen[u] = day

ExpiryStale == \E u \in Listed : mgr.seen[u] < day

\* One key for both reasons.
RolloverDue == (ExpiryReached \/ ExpiryStale) /\ ~redis.updated

Rollover ==
    /\ mgr.pc = "roll"
    /\ IF RolloverDue
       THEN /\ Starts("roll", "find")
            /\ today' = [today EXCEPT !.caughtUp = @ \/ ~ExpiryReached]
       ELSE Goes("sync") /\ UNCHANGED today
    /\ UNCHANGED <<clockVars, redis, fileVars, collectors, troubles>>

\* Step A of either job.  A failed download is tried again in the next loop.
FindOptions ==
    /\ mgr.pc = "find"
    /\ \/ /\ OptionsFound \/ OptionsFoundInPart
          /\ redis' = [redis EXCEPT !.chain = TRUE]
          /\ Goes("merge")
       \/ /\ Fault(today)
          /\ Goes(AfterJob)
          /\ UNCHANGED <<symbols, redis>>
    /\ UNCHANGED <<clockVars, config, collectors>>

\* Nobody looks at the exit code.
Merge ==
    /\ mgr.pc = "merge"
    /\ \/ UpdateInstruments /\ UNCHANGED <<today, troubles>>
       \/ Fault(today) /\ UNCHANGED config
    /\ Goes("kill")
    /\ UNCHANGED <<clockVars, redis, symbols, collectors>>

\* Mutant: the old collector is left running.
KilledNone == collectors

\* restart_collector: pkill -9, and a new collector half a second later.
KilledAll == <<>>

KillCollector ==
    /\ mgr.pc = "kill"
    /\ collectors' = KilledAll
    /\ today' = [today EXCEPT !.overlap = FALSE]
    /\ Goes("launch")
    /\ UNCHANGED <<clockVars, redis, fileVars, troubles>>

\* other: whether somebody else is about to start a collector.
LaunchCollector(other) ==
    /\ mgr.pc = "launch"
    /\ collectors' = Append(collectors, config)
    /\ today' = [today EXCEPT !.overlap = @ \/ other]
    /\ Goes("mark")
    /\ UNCHANGED <<clockVars, redis, fileVars, troubles>>

\* The key of a job is set when its work is done.
Marked(job) ==
    CASE job = "setup"  -> [redis EXCEPT !.processed = "open"]
      [] job = "reopen" -> [redis EXCEPT !.reopened = TRUE]
      [] job = "roll"   -> [redis EXCEPT !.updated = TRUE]

MarkJob ==
    /\ mgr.pc = "mark"
    /\ redis' = Marked(mgr.job)
    /\ Goes(AfterJob)
    /\ UNCHANGED <<clockVars, fileVars, collectors, today, troubles>>

Slept == [today EXCEPT !.loopedHere = @ \/ mgr.at = phase]

SyncDue == mgr.at >= Sync /\ ~redis.synced

\* Without a file of detailed trades nothing is copied and no key set.
NoSync ==
    /\ mgr.pc = "sync"
    /\ mgr' = Idle
    /\ today' = Slept
    /\ UNCHANGED <<clockVars, redis, fileVars, collectors, troubles>>

\* The trades go to the history of another project, which nothing here reads.
SyncTrades ==
    /\ mgr.pc = "sync" /\ SyncDue
    /\ Goes("copy")
    /\ UNCHANGED <<clockVars, redis, fileVars, collectors, today, troubles>>

\* The tracker has run and the key is set, or an exception leaves it unset.
SyncEnds ==
    /\ mgr.pc = "copy"
    /\ \/ redis' = [redis EXCEPT !.synced = TRUE] /\ today' = Slept /\ UNCHANGED troubles
       \/ Fault(Slept) /\ UNCHANGED redis
    /\ mgr' = Idle
    /\ UNCHANGED <<clockVars, fileVars, collectors>>

\* An exception in the loop is printed.
LoopRaises ==
    /\ mgr.pc \notin {"down", "asleep"}
    /\ Fault(today)
    /\ mgr' = Idle
    /\ UNCHANGED <<clockVars, redis, fileVars, collectors>>

\* systemd ends the collector with the service it was started from, or the unit
\* leaves it running.
ManagerKilled ==
    /\ mgr.pc # "down"
    /\ Trouble
    /\ collectors' \in {collectors, <<>>}
    /\ mgr' = Dead
    /\ today' = [today EXCEPT !.killed = TRUE]
    /\ UNCHANGED <<clockVars, redis, fileVars>>

ManagerRestarted ==
    /\ mgr.pc = "down" /\ phase # Off
    /\ mgr' = Idle
    /\ UNCHANGED <<clockVars, redis, fileVars, collectors, today, troubles>>

CollectorDies ==
    /\ collectors # <<>>
    /\ Trouble
    /\ collectors' = Tail(collectors)
    /\ UNCHANGED <<clockVars, redis, fileVars, mgr, today>>

ManagerLoop ==
    Look \/ NoSetup \/ MorningSetup \/ MarketReopen \/ Rollover \/ FindOptions
         \/ Merge \/ KillCollector \/ MarkJob \/ NoSync \/ SyncTrades \/ SyncEnds
=============================================================================
