------------------------------ MODULE Operations -----------------------------
(***************************************************************************)
(* The working days of the machine: the daily manager, the recovery script *)
(* an operator may run at any time (recover_services.py), and the monitor  *)
(* that restarts services within market hours (health_check.py).           *)
(***************************************************************************)
EXTENDS DailyManager

CONSTANT Service        \* what the monitor restarts: the forward tester

VARIABLES
    rec,        \* recovery script: stage, expiries it read
    service,    \* the services that are up, those with the alarm on
    story       \* history: what became of each service's last restart, see Story

monitorVars == <<service, story>>
vars == <<dailyVars, rec, monitorVars>>

Nothing == [u \in Underlying |-> 0]

\* "fine": seen up or never restarted since the alarms were last off;
\* "restarted": its restart succeeded and it has not been seen up yet;
\* "lost": the restart failed, or the service died before it was seen up.
Story == {"fine", "restarted", "lost"}

NoStory == [s \in Service |-> "fine"]

RecoveryStage == {"idle", "chain", "read", "write", "collector", "launch", "manager"}

Init ==
    /\ DailyInit
    /\ rec = [pc |-> "idle", opts |-> Nothing]
    /\ service = [up |-> Service, alarm |-> {}]
    /\ story = NoStory

-----------------------------------------------------------------------------
(* The clock and the power.                                                *)

\* Timing: a part of the day of a quarter of an hour or more holds a whole loop
\* of a manager that is up; 9:14 may pass between two loops.
Long == {Setup, Session, Sync, Evening}

Passes == phase \in Long /\ mgr.pc # "down" => today.loopedHere \/ Empty(symbols)

Tick ==
    /\ phase < Off
    /\ Passes
    /\ phase' = phase + 1
    /\ today' = [today EXCEPT !.loopedHere = FALSE]
    /\ IF phase' = Off
       THEN /\ mgr' = Dead
            /\ collectors' = <<>>
            /\ redis' = NoKeys
            /\ rec' = [rec EXCEPT !.pc = "idle", !.opts = Nothing]
            /\ service' = [up |-> {}, alarm |-> {}]
            /\ story' = NoStory
            /\ UNCHANGED troubles
       ELSE /\ service' = [service EXCEPT !.up = IF phase' = Session THEN Service ELSE @]
            /\ UNCHANGED <<mgr, collectors, redis, rec, troubles, story>>
    /\ UNCHANGED <<day, fileVars>>

\* The machine is switched on at 8:30 of every working day; a timer of systemd
\* starts the forward tester at 9:15.
PowerOn ==
    /\ phase = Off /\ day < LastDay
    /\ day' = day + 1
    /\ phase' = Boot
    /\ mgr' = Idle
    /\ today' = [Untroubled EXCEPT !.blank = Empty(symbols)]
    /\ service' = [up |-> {}, alarm |-> {}]
    /\ story' = NoStory
    /\ UNCHANGED <<redis, fileVars, collectors, troubles, rec>>

-----------------------------------------------------------------------------
(* recover_services.py.                                                    *)

RecoveryGoes(stage) == rec' = [rec EXCEPT !.pc = stage]

Recover ==
    /\ rec.pc = "idle" /\ phase # Off
    /\ Trouble
    /\ RecoveryGoes("chain")
    /\ UNCHANGED <<clockVars, redis, fileVars, collectors, mgr, today, monitorVars>>

\* The chain in Redis is all that is looked at, not the age of the file.
RecoverChain ==
    /\ rec.pc = "chain"
    /\ \/ redis.chain /\ UNCHANGED <<symbols, redis, today, troubles>>
       \/ /\ OptionsFound \/ OptionsFoundInPart
          /\ redis' = [redis EXCEPT !.chain = TRUE]
       \/ Fault(today) /\ UNCHANGED <<symbols, redis>>
    /\ RecoveryGoes("read")
    /\ UNCHANGED <<clockVars, config, collectors, mgr, monitorVars>>

RecoverReads ==
    /\ rec.pc = "read"
    /\ rec' = [rec EXCEPT !.pc = "write", !.opts = symbols]
    /\ UNCHANGED <<dailyVars, monitorVars>>

\* The index and option symbols only: the list never equals the one
\* update_instruments.py writes, and replaces it.
RecoverMerges ==
    /\ rec.pc = "write"
    /\ config' = [front |-> rec.opts, whole |-> FALSE]
    /\ today' = [today EXCEPT !.overwritten = TRUE]
    /\ RecoveryGoes("collector")
    /\ UNCHANGED <<clockVars, redis, symbols, collectors, mgr, troubles, monitorVars>>

\* pgrep.
RecoverLooks ==
    /\ rec.pc = "collector"
    /\ RecoveryGoes(IF collectors = <<>> THEN "launch" ELSE "manager")
    /\ UNCHANGED <<dailyVars, monitorVars>>

RecoverLaunches ==
    /\ rec.pc = "launch"
    /\ \/ /\ collectors' = Append(collectors, config)
          /\ today' = [today EXCEPT !.overlap = @ \/ mgr.pc = "launch"]
          /\ UNCHANGED troubles
       \/ Fault(today) /\ UNCHANGED collectors
    /\ RecoveryGoes("manager")
    /\ UNCHANGED <<clockVars, redis, fileVars, mgr, monitorVars>>

\* The day counts as set up before the manager is started.
RecoverManager ==
    /\ rec.pc = "manager"
    /\ IF mgr.pc = "down"
       THEN /\ redis' = [redis EXCEPT !.processed = IF @ = "none" THEN "open" ELSE @]
            /\ mgr' = Idle
       ELSE UNCHANGED <<redis, mgr>>
    /\ rec' = [rec EXCEPT !.pc = "idle", !.opts = Nothing]
    /\ UNCHANGED <<clockVars, fileVars, collectors, today, troubles, monitorVars>>

LaunchesCollector ==
    /\ LaunchCollector(rec.pc = "launch")
    /\ UNCHANGED <<rec, monitorVars>>

-----------------------------------------------------------------------------
(* health_check.py.                                                        *)

\* 9:14 to 15:35, holidays or not.
MarketHours == phase \in Reopen..Closed

ServiceDies(s) ==
    /\ s \in service.up
    /\ Trouble
    /\ service' = [service EXCEPT !.up = @ \ {s}]
    /\ story' = [story EXCEPT ![s] = IF @ = "restarted" THEN "lost" ELSE @]
    /\ UNCHANGED <<clockVars, redis, fileVars, collectors, mgr, today, rec>>

\* Mutant: the alarm stays on when the service is up again.
AlarmKept(s) == service.alarm

AlarmOff(s) == service.alarm \ {s}

\* Up, or out of hours.
CheckFine(s) ==
    /\ phase # Off
    /\ s \in service.up \/ ~MarketHours
    /\ service' = [service EXCEPT !.alarm = AlarmOff(s)]
    /\ story' = [story EXCEPT ![s] = "fine"]
    /\ UNCHANGED <<dailyVars, rec>>

\* The services that are up once systemctl has restarted s.
\* Mutant: the alarm is raised and nothing is restarted, as for the collector.
AlarmOnly(s) == service.up

Relaunched(s) == service.up \cup {s}

\* Only the first check that finds the service down restarts it.
CheckDown(s) ==
    /\ MarketHours
    /\ s \notin service.up /\ s \notin service.alarm
    /\ \/ /\ service' = [up |-> Relaunched(s), alarm |-> service.alarm \cup {s}]
          /\ story' = [story EXCEPT ![s] = "restarted"]
          /\ UNCHANGED <<today, troubles>>
       \/ /\ service' = [service EXCEPT !.alarm = @ \cup {s}]
          /\ story' = [story EXCEPT ![s] = "lost"]
          /\ Fault(today)
    /\ UNCHANGED <<clockVars, redis, fileVars, collectors, mgr, rec>>

\* The alarms live in memory only.
MonitorRestarted ==
    /\ Trouble
    /\ service' = [service EXCEPT !.alarm = {}]
    /\ story' = NoStory
    /\ UNCHANGED <<clockVars, redis, fileVars, collectors, mgr, today, rec>>

ManagerSteps == ManagerLoop /\ UNCHANGED <<rec, monitorVars>>

Checks == \E s \in Service : CheckFine(s) \/ CheckDown(s)

Troubles ==
    \/ (LoopRaises \/ ManagerKilled \/ CollectorDies) /\ UNCHANGED <<rec, monitorVars>>
    \/ MonitorRestarted
    \/ \E s \in Service : ServiceDies(s)

Restarted == ManagerRestarted /\ UNCHANGED <<rec, monitorVars>>

Recovery == RecoverChain \/ RecoverReads \/ RecoverMerges \/ RecoverLooks \/ RecoverLaunches
                \/ RecoverManager

Next ==
    Tick \/ PowerOn \/ ManagerSteps \/ LaunchesCollector \/ Restarted \/ Recover \/ Recovery
         \/ Checks \/ Troubles

\* The monitor looks at every service every ten seconds.
Fairness == \A s \in Service : WF_vars(CheckFine(s)) /\ WF_vars(CheckDown(s))

Spec == Init /\ [][Next]_vars /\ Fairness

-----------------------------------------------------------------------------
TypeOK ==
    /\ day \in 1..LastDay /\ phase \in Boot..Off
    /\ redis \in [processed : {"none", "open", "closed"}, reopened : BOOLEAN, updated : BOOLEAN, synced : BOOLEAN, chain : BOOLEAN]
    /\ symbols \in Fronts /\ config \in Config
    /\ collectors \in Seq(Config)
    /\ mgr.pc \in Stage /\ mgr.job \in Job /\ mgr.at \in Boot..Evening /\ mgr.seen \in Fronts
    /\ rec.pc \in RecoveryStage /\ rec.opts \in Fronts
    /\ service.up \subseteq Service /\ service.alarm \subseteq Service
    /\ story \in [Service -> Story]

\* Two collectors run only if the recovery script and the restart of the manager
\* looked and launched within each other: a restart otherwise leaves exactly the
\* one it started (expiry_manager.py restart_collector; recover_services.py 6).
OneCollector == Len(collectors) <= (IF today.overlap THEN 2 ELSE 1)

\* Something failed today, or the file was left empty the day before.
Troubled == today.failed \/ today.killed \/ today.blank

\* On a trading day without failures the manager has chosen contracts that are
\* still valid by 9:15 (expiry_manager.py trigger 1, and trigger 2 for stale dates),
\* and the machine is switched off with the contracts rolled over, if no earlier
\* rollover of the day had used the key of trigger 2.  An underlying that a choice
\* left out stays so over a holiday: nothing looks for it before the next setup.
ReadyAtOpen ==
    ~Troubled =>
        /\ InSession /\ day \in Trading =>
               redis.processed = "open" /\ \A u \in Underlying : symbols[u] >= day
        /\ phase = Off /\ ~today.caughtUp =>
               \A u \in Underlying : symbols[u] > day \/ (day \notin Trading /\ symbols[u] = 0)

\* A collector that runs in the session after the manager's first loop subscribes
\* to no expired front contracts, and to the whole universe, unless a recovery of
\* that day wrote its own list (update_instruments.py, recover_services.py 4).
SubscribesCurrent ==
    InSession /\ day \in Trading /\ ~Troubled /\ ~today.overwritten
        => \A i \in 1..Len(collectors) :
              collectors[i].whole /\ \A u \in Underlying : collectors[i].front[u] >= day

\* The monitor brings back every service that is down in market hours, as often
\* as it dies, unless the one restart of an alarm failed or the service died again
\* before it was seen up: then nothing restarts it (health_check.py check_processes).
ServiceBack ==
    \A s \in Service :
        (MarketHours /\ s \notin service.up)
            ~> (s \in service.up \/ ~MarketHours \/ story[s] = "lost")
=============================================================================
