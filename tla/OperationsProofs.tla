--------------------------- MODULE OperationsProofs --------------------------
(***************************************************************************)
(* For every calendar of expiries and holidays and any number of failures: *)
(* a second collector runs only beside a launch of the manager and one of  *)
(* the recovery script that met; without failures the contracts are valid  *)
(* at the open and rolled over at night, and the collector's list is made  *)
(* of them.                                                                *)
(*                                                                         *)
(* OneCollector alone is not inductive: whoever is about to launch has     *)
(* already looked, or killed.  The invariant counts the launches to come   *)
(* with the collectors, and knows that a launch to come found none, unless *)
(* the other one has met it.                                               *)
(***************************************************************************)
EXTENDS Operations, SequenceTheorems, FiniteSetTheorems, WellFoundedInduction, TLAPS

Starting(pc) == IF pc = "launch" THEN 1 ELSE 0

Coming == Starting(mgr.pc) + Starting(rec.pc)

Typed ==
    /\ \E S : collectors \in Seq(S)
    /\ "pc" \in DOMAIN mgr /\ "pc" \in DOMAIN rec
    /\ "overlap" \in DOMAIN today /\ today.overlap \in BOOLEAN

Room ==
    /\ Len(collectors) + Coming <= 2
    /\ ~today.overlap =>
           Len(collectors) <= 1 /\ (Coming > 0 => Len(collectors) = 0)

NothingAtNight ==
    phase = Off => collectors = <<>> /\ mgr.pc = "down" /\ rec.pc = "idle"

Inv == Typed /\ Room /\ NothingAtNight

-----------------------------------------------------------------------------
\* A launch makes the list one longer.
LEMMA OneMore ==
  ASSUME NEW s, NEW e, \E S : s \in Seq(S)
  PROVE  /\ \E S : Append(s, e) \in Seq(S)
         /\ Len(s) \in Nat /\ Len(Append(s, e)) = Len(s) + 1
  <1>1. PICK S : s \in Seq(S)  OBVIOUS
  <1> DEFINE T == S \cup {e}
  <1>2. s \in Seq(T)  BY <1>1, SeqMonotonic
  <1>3. e \in T  OBVIOUS
  <1> HIDE DEF T
  <1> QED  BY <1>2, <1>3

\* A death makes it one shorter.
LEMMA OneLess ==
  ASSUME NEW s, s # <<>>, \E S : s \in Seq(S)
  PROVE  /\ \E S : Tail(s) \in Seq(S)
         /\ Len(s) \in Nat /\ Len(Tail(s)) = Len(s) - 1
  <1>1. PICK S : s \in Seq(S)  OBVIOUS
  <1> QED  BY <1>1, HeadTailProperties

\* No collector is a list of length nought.
LEMMA NoneLeft == (\E S : <<>> \in Seq(S)) /\ Len(<<>>) = 0
  BY EmptySeq

LEMMA Counted == Typed => Len(collectors) \in Nat
  BY LenProperties DEF Typed

\* Whatever adds no collector, starts no launch and leaves the clock and the
\* flag of the overlap alone, keeps the invariant.
Calm ==
    /\ collectors' = collectors \/ collectors' = <<>>
    /\ mgr' = mgr \/ ("pc" \in DOMAIN mgr' /\ mgr'.pc # "launch")
    /\ rec' = rec \/ ("pc" \in DOMAIN rec' /\ rec'.pc # "launch")
    /\ "overlap" \in DOMAIN today' /\ today'.overlap = today.overlap
    /\ phase' # Off \/ UNCHANGED <<phase, mgr, rec>>

LEMMA CalmKeeps == Inv /\ Calm => Inv'
  <1> SUFFICES ASSUME Inv, Calm PROVE Inv'  OBVIOUS
  <1>1. Typed'  BY NoneLeft DEF Inv, Typed, Calm
  <1>2. Len(collectors) \in Nat /\ Len(collectors') \in Nat /\ Len(collectors') <= Len(collectors)
    BY Counted, NoneLeft DEF Inv, Calm
  <1>3. Coming \in 0..2 /\ Coming' \in 0..2 /\ Coming' <= Coming
    BY DEF Inv, Typed, Calm, Coming, Starting
  <1>4. Room'
    BY <1>2, <1>3 DEF Inv, Room, Calm
  <1>5. NothingAtNight'
    BY DEF Inv, NothingAtNight, Calm
  <1> QED  BY <1>1, <1>4, <1>5 DEF Inv

-----------------------------------------------------------------------------
LEMMA InitInv == Init => Inv
  <1> SUFFICES ASSUME Init PROVE Inv  OBVIOUS
  <1>1. collectors \in Seq({config}) /\ Len(collectors) = 1
    BY DEF Init, DailyInit
  <1>2. Typed
    BY <1>1 DEF Init, DailyInit, Typed, Idle, Untroubled
  <1>3. Coming = 0
    BY DEF Init, DailyInit, Coming, Starting, Idle
  <1>4. phase # Off
    BY DEF Init, DailyInit, Closed, Off
  <1> QED  BY <1>1, <1>2, <1>3, <1>4 DEF Inv, Room, NothingAtNight

\* The steps of the manager's loop, but for the kill.
LEMMA LoopCalm ==
  ASSUME Typed, NothingAtNight, ManagerSteps, ~KillCollector
  PROVE  Calm
  <1> USE DEF Typed, Calm, clockVars, fileVars
  <1>0. rec' = rec  BY DEF ManagerSteps
  <1>1. ASSUME mgr.pc # "down" PROVE phase # Off
    BY <1>1 DEF NothingAtNight
  <1>2. CASE Look
    BY <1>0, <1>1, <1>2 DEF Look
  <1>3. CASE NoSetup
    BY <1>0, <1>1, <1>3 DEF NoSetup, Goes
  <1>4. CASE MorningSetup
    BY <1>0, <1>1, <1>4 DEF MorningSetup, Goes, Starts, SeesMarket, Fault
  <1>5. CASE MarketReopen
    BY <1>0, <1>1, <1>5 DEF MarketReopen, Goes, Starts, SeesMarket, Fault
  <1>6. CASE Rollover
    BY <1>0, <1>1, <1>6 DEF Rollover, Goes, Starts
  <1>7. CASE FindOptions
    BY <1>0, <1>1, <1>7 DEF FindOptions, Goes, AfterJob, OptionsFound, OptionsFoundInPart, Fault
  <1>8. CASE Merge
    BY <1>0, <1>1, <1>8 DEF Merge, Goes, Fault
  <1>9. CASE MarkJob
    BY <1>0, <1>1, <1>9 DEF MarkJob, Goes, AfterJob
  <1>10. CASE NoSync
    BY <1>0, <1>1, <1>10 DEF NoSync, Idle, Slept
  <1>11. CASE SyncTrades
    BY <1>0, <1>1, <1>11 DEF SyncTrades, Goes
  <1>12. CASE SyncEnds
    BY <1>0, <1>1, <1>12 DEF SyncEnds, Idle, Slept, Fault
  <1> QED
    BY <1>2, <1>3, <1>4, <1>5, <1>6, <1>7, <1>8, <1>9, <1>10, <1>11, <1>12
       DEF ManagerSteps, ManagerLoop

\* The steps of the recovery script, but for the look and the launch.
LEMMA RecoveryCalm ==
  ASSUME Typed, NothingAtNight, Recover \/ Recovery, ~RecoverLooks, ~RecoverLaunches
  PROVE  Calm
  <1> USE DEF Typed, Calm, clockVars, fileVars, RecoveryGoes
  <1>1. ASSUME rec.pc # "idle" PROVE phase # Off
    BY <1>1 DEF NothingAtNight
  <1>2. CASE Recover
    BY <1>2 DEF Recover
  <1>3. CASE RecoverChain
    BY <1>1, <1>3 DEF RecoverChain, OptionsFound, OptionsFoundInPart, Fault
  <1>4. CASE RecoverReads
    BY <1>1, <1>4 DEF RecoverReads, dailyVars
  <1>5. CASE RecoverMerges
    BY <1>1, <1>5 DEF RecoverMerges
  <1>6. CASE RecoverManager
    BY <1>1, <1>6 DEF RecoverManager, Idle
  <1> QED  BY <1>2, <1>3, <1>4, <1>5, <1>6 DEF Recovery

\* The monitor and what goes wrong, but for the death of a collector.
LEMMA TroubleCalm ==
  ASSUME Typed, NothingAtNight, Checks \/ Troubles \/ Restarted
  PROVE  Calm \/ (CollectorDies /\ UNCHANGED rec)
  <1> USE DEF Typed, Calm, clockVars, fileVars, NothingAtNight
  <1>1. CASE Checks
    BY <1>1 DEF Checks, CheckFine, CheckDown, Fault, dailyVars
  <1>2. CASE LoopRaises /\ UNCHANGED <<rec, monitorVars>>
    BY <1>2 DEF LoopRaises, Idle, Fault
  <1>3. CASE ManagerKilled /\ UNCHANGED <<rec, monitorVars>>
    BY <1>3 DEF ManagerKilled, Dead, Idle
  <1>4. CASE MonitorRestarted
    BY <1>4 DEF MonitorRestarted
  <1>5. CASE \E s \in Service : ServiceDies(s)
    BY <1>5 DEF ServiceDies
  <1>6. CASE Restarted
    BY <1>6 DEF Restarted, ManagerRestarted, Idle
  <1>7. CASE CollectorDies /\ UNCHANGED <<rec, monitorVars>>
    BY <1>7
  <1> QED  BY <1>1, <1>2, <1>3, <1>4, <1>5, <1>6, <1>7 DEF Troubles

LEMMA NextInv == Inv /\ [Next]_vars => Inv'
  <1> SUFFICES ASSUME Inv, [Next]_vars PROVE Inv'
    OBVIOUS
  <1> USE DEF clockVars, fileVars
  <1>0. Typed /\ Room /\ NothingAtNight /\ Len(collectors) \in Nat
    BY Counted DEF Inv
  <1>1. CASE Tick
    <2>1. CASE phase' = Off
      <3>1. collectors' = <<>> /\ mgr'.pc = "down" /\ rec'.pc = "idle"
        BY <1>0, <1>1, <2>1 DEF Tick, Typed, Dead, Idle
      <3>2. Typed'
        BY <1>0, <1>1, <2>1, NoneLeft DEF Tick, Typed, Dead, Idle
      <3> QED  BY <3>1, <3>2, NoneLeft DEF Inv, Room, NothingAtNight, Coming, Starting
    <2>2. CASE phase' # Off
      <3>1. Calm  BY <1>0, <1>1, <2>2 DEF Tick, Typed, Calm
      <3> QED  BY <3>1, CalmKeeps
    <2> QED  BY <2>1, <2>2
  <1>2. CASE PowerOn
    <2>1. collectors' = <<>> /\ rec' = rec /\ rec.pc = "idle"
      BY <1>0, <1>2 DEF PowerOn, NothingAtNight
    <2>2. mgr' = Idle /\ phase' # Off
      BY <1>2 DEF PowerOn, Boot, Off
    <2>3. Typed'
      BY <1>0, <1>2, <2>1, <2>2, NoneLeft DEF PowerOn, Typed, Idle, Untroubled
    <2>4. Coming' = 0
      BY <2>1, <2>2 DEF Coming, Starting, Idle
    <2> QED  BY <2>1, <2>2, <2>3, <2>4, NoneLeft DEF Inv, Room, NothingAtNight
  <1>3. CASE ManagerSteps
    <2>1. CASE KillCollector
      <3>1. /\ collectors' = <<>> /\ mgr'.pc = "launch" /\ rec' = rec
            /\ phase' = phase /\ mgr.pc = "kill"
        BY <1>0, <1>3, <2>1 DEF ManagerSteps, KillCollector, KilledAll, Goes, Typed
      <3>2. Typed'
        BY <1>0, <1>3, <2>1, <3>1, NoneLeft DEF ManagerSteps, KillCollector, KilledAll, Goes, Typed
      <3>3. Len(collectors') = 0
        BY <3>1, NoneLeft
      <3>4. Room'
        BY <3>3 DEF Room, Coming, Starting
      <3>5. NothingAtNight'
        BY <1>0, <3>1 DEF NothingAtNight
      <3> QED  BY <3>2, <3>4, <3>5 DEF Inv
    <2>2. CASE ~KillCollector
      BY <1>0, <1>3, <2>2, LoopCalm, CalmKeeps
    <2> QED  BY <2>1, <2>2
  <1>4. CASE LaunchesCollector
    <2>1. /\ collectors' = Append(collectors, config)
          /\ mgr.pc = "launch" /\ mgr'.pc = "mark" /\ rec' = rec /\ phase' = phase
          /\ today'.overlap <=> today.overlap \/ rec.pc = "launch"
      BY <1>0, <1>4 DEF LaunchesCollector, LaunchCollector, Goes, Typed
    <2>2. Typed'
      BY <1>0, <1>4, OneMore DEF LaunchesCollector, LaunchCollector, Goes, Typed
    <2>3. Len(collectors') = Len(collectors) + 1
      BY <1>0, <2>1, OneMore DEF Typed
    <2>4. Room'
      <3>1. CASE rec.pc = "launch"
        BY <1>0, <2>1, <2>3, <3>1 DEF Room, Coming, Starting
      <3>2. CASE rec.pc # "launch"
        BY <1>0, <2>1, <2>3, <3>2 DEF Room, Coming, Starting
      <3> QED  BY <3>1, <3>2
    <2> QED  BY <1>0, <2>1, <2>2, <2>4 DEF Inv, NothingAtNight
  <1>5. CASE RecoverLooks
    <2>1. /\ collectors' = collectors /\ mgr' = mgr /\ phase' = phase /\ today' = today
          /\ rec.pc = "collector"
          /\ rec'.pc = IF collectors = <<>> THEN "launch" ELSE "manager"
          /\ "pc" \in DOMAIN rec'
      BY <1>0, <1>5 DEF RecoverLooks, RecoveryGoes, dailyVars, Typed
    <2>2. CASE collectors = <<>>
      <3>1. Len(collectors') = 0
        BY <2>1, <2>2, NoneLeft
      <3>2. Room'
        BY <3>1 DEF Room, Coming, Starting
      <3> QED  BY <1>0, <2>1, <3>2 DEF Inv, Typed, NothingAtNight
    <2>3. CASE collectors # <<>>
      <3>1. Calm  BY <1>0, <2>1, <2>3 DEF Calm, Typed, NothingAtNight
      <3> QED  BY <3>1, CalmKeeps
    <2> QED  BY <2>2, <2>3
  <1>6. CASE RecoverLaunches
    <2>1. CASE collectors' = Append(collectors, config)
                 /\ today' = [today EXCEPT !.overlap = @ \/ mgr.pc = "launch"]
      <3>1. /\ mgr' = mgr /\ phase' = phase
            /\ rec.pc = "launch" /\ rec'.pc = "manager" /\ "pc" \in DOMAIN rec'
            /\ today'.overlap <=> today.overlap \/ mgr.pc = "launch"
        BY <1>0, <1>6, <2>1 DEF RecoverLaunches, RecoveryGoes, Typed
      <3>2. Typed'
        BY <1>0, <2>1, <3>1, OneMore DEF Typed
      <3>3. Len(collectors') = Len(collectors) + 1
        BY <1>0, <2>1, OneMore DEF Typed
      <3>4. Room'
        <4>1. CASE mgr.pc = "launch"
          BY <1>0, <3>1, <3>3, <4>1 DEF Room, Coming, Starting
        <4>2. CASE mgr.pc # "launch"
          BY <1>0, <3>1, <3>3, <4>2 DEF Room, Coming, Starting
        <4> QED  BY <4>1, <4>2
      <3> QED  BY <1>0, <3>1, <3>2, <3>4 DEF Inv, NothingAtNight
    <2>2. CASE Fault(today) /\ UNCHANGED collectors
      <3>1. Calm
        BY <1>0, <1>6, <2>2 DEF RecoverLaunches, RecoveryGoes, Fault, Calm, Typed, NothingAtNight
      <3> QED  BY <3>1, CalmKeeps
    <2> QED  BY <1>6, <2>1, <2>2 DEF RecoverLaunches
  <1>7. CASE (Recover \/ Recovery) /\ ~RecoverLooks /\ ~RecoverLaunches
    BY <1>0, <1>7, RecoveryCalm, CalmKeeps
  <1>8. CASE CollectorDies /\ UNCHANGED rec
    <2>1. /\ collectors # <<>> /\ collectors' = Tail(collectors)
          /\ UNCHANGED <<phase, mgr, rec, today>>
      BY <1>8 DEF CollectorDies
    <2>2. Len(collectors') = Len(collectors) - 1 /\ Typed'
      BY <1>0, <2>1, OneLess DEF Typed
    <2>3. Coming' = Coming /\ Coming \in 0..2
      BY <2>1 DEF Coming, Starting
    <2> QED  BY <1>0, <2>1, <2>2, <2>3 DEF Inv, Room, NothingAtNight
  <1>9. CASE Checks \/ Troubles \/ Restarted
    BY <1>0, <1>8, <1>9, TroubleCalm, CalmKeeps
  <1>10. CASE UNCHANGED vars
    <2>1. Calm
      BY <1>0, <1>10 DEF vars, dailyVars, Calm, Typed
    <2> QED  BY <2>1, CalmKeeps
  <1> QED
    BY <1>1, <1>2, <1>3, <1>4, <1>5, <1>6, <1>7, <1>9, <1>10 DEF Next

\* Two collectors run only if a launch of the manager and one of the recovery
\* script met, and never more than two (expiry_manager.py restart_collector,
\* recover_services.py 6).
THEOREM CollectorsMeet == Spec => []OneCollector
  <1>1. Inv => OneCollector
    BY Counted DEF Inv, Typed, Room, OneCollector, Coming, Starting
  <1> QED  BY <1>1, InitInv, NextInv, PTL DEF Spec

-----------------------------------------------------------------------------
(* Valid contracts.  The manager's word for a job done is a key in Redis,  *)
(* set last: in the morning the setup's key stands for fresh files, at     *)
(* night the loop that began after 15:45 for the rollover.                 *)

Manager == [pc : Stage, job : Job, at : Boot..Evening, seen : Fronts]

Recoverer == [pc : RecoveryStage, opts : Fronts]

Keys == [processed : {"none", "open", "closed"}, reopened : BOOLEAN,
         updated : BOOLEAN, synced : BOOLEAN, chain : BOOLEAN]

Flags == [failed : BOOLEAN, killed : BOOLEAN, overwritten : BOOLEAN, caughtUp : BOOLEAN,
          overlap : BOOLEAN, blank : BOOLEAN, loopedHere : BOOLEAN]

DayTyped ==
    /\ day \in 1..LastDay /\ phase \in Boot..Off
    /\ mgr \in Manager /\ rec \in Recoverer /\ redis \in Keys /\ today \in Flags
    /\ symbols \in Fronts /\ config \in Config /\ collectors \in Seq(Config)

\* While nothing went wrong the manager is up all day and has a file to read.
Awake ==
    /\ ~Troubled => ~Empty(symbols) /\ (phase # Off => mgr.pc # "down")
    /\ phase = Off => redis = NoKeys /\ mgr = Dead /\ rec.pc = "idle" /\ collectors = <<>>
    /\ mgr.at <= phase
    /\ rec.pc \in {"collector", "launch", "manager"} => today.overwritten

Current(c) == c.whole /\ \A u \in Underlying : c.front[u] >= day

Working == {"find", "merge", "kill", "launch", "mark"}

\* The loop is past the morning setup.
PastSetup == mgr.pc \in {"reopen", "roll", "sync", "copy"} \/ (mgr.pc \in Working /\ mgr.job # "setup")

\* On the morning of a trading day.
FreshFiles ==
    /\ redis.processed # "closed"
    /\ redis.processed = "open" \/ mgr.pc \in Working \ {"find"} => \A u \in Underlying : symbols[u] >= day
    /\ (mgr.at >= Setup /\ PastSetup) \/ phase > Setup \/ (phase = Setup /\ today.loopedHere)
           => redis.processed = "open"

FreshCollectors ==
    /\ redis.processed = "open" \/ mgr.pc \in {"kill", "launch", "mark"} => Current(config)
    /\ \A i \in 1..Len(collectors) : Current(collectors[i])

Morning ==
    ~Troubled /\ day \in Trading /\ phase <= Session =>
        FreshFiles /\ (~today.overwritten => FreshCollectors)

\* The contracts of tomorrow.
Rolled == \A u \in Underlying : symbols[u] > day

RolledOver == \A u \in Underlying : symbols[u] > day \/ (day \notin Trading /\ symbols[u] = 0)

\* At the evening of a day without a catch-up.
RollsOver ==
    /\ redis.updated => phase >= Evening /\ Rolled
    /\ mgr.job = "roll" /\ mgr.pc \in Working => mgr.at = Evening /\ (mgr.pc # "find" => Rolled)
    /\ mgr.at = Evening /\ mgr.pc \in {"sync", "copy"} => RolledOver
    /\ mgr.at = Evening /\ mgr.pc \notin {"asleep", "down"} =>
           \A u \in Underlying : symbols[u] = mgr.seen[u] \/ symbols[u] > day
    /\ (phase = Evening /\ today.loopedHere) \/ phase = Off => RolledOver

AtNight ==
    /\ ~Troubled /\ day \in Trading /\ phase > Session => \A u \in Underlying : symbols[u] # 0
    /\ ~Troubled /\ ~today.caughtUp => RollsOver

DayInv == DayTyped /\ Awake /\ Morning /\ AtNight

-----------------------------------------------------------------------------
\* A set of days has a first one.
LEMMA FirstDay ==
  ASSUME NEW F \in SUBSET Nat, F # {}
  PROVE  \E x \in F : \A y \in F : x <= y
  <1> DEFINE R == StrictSubsetOrdering(Nat)
             T == {0..x : x \in F}
  <1>1. IsWellFoundedOn(R, FiniteSubsetsOf(Nat))
    BY FS_StrictSubsetOrderingWellFounded
  <1>2. T \subseteq FiniteSubsetsOf(Nat) /\ T # {}
    <2> SUFFICES ASSUME NEW x \in F PROVE 0..x \in FiniteSubsetsOf(Nat)
      OBVIOUS
    <2>1. IsFiniteSet(0..x) /\ 0..x \in SUBSET Nat
      BY FS_Interval
    <2> QED  BY <2>1 DEF FiniteSubsetsOf
  <1> HIDE DEF R
  <1>3. PICK X \in T : \A Y \in T : <<Y, X>> \notin R
    BY <1>1, <1>2, WFMin
  <1>4. PICK x \in F : X = 0..x
    BY <1>3
  <1>5. ASSUME NEW y \in F, y < x PROVE FALSE
    <2>1. 0..y \in SUBSET Nat /\ 0..x \in SUBSET Nat
      OBVIOUS
    <2>2. 0..y \subseteq 0..x /\ x \notin 0..y /\ x \in 0..x
      BY <1>5
    <2>3. <<0..y, 0..x>> \in R
      BY <2>1, <2>2 DEF R, StrictSubsetOrdering
    <2> QED  BY <1>3, <1>4, <2>3
  <1> QED  BY <1>5

\* There is always a valid expiry, and the first is chosen.
LEMMA FrontValid ==
  ASSUME DayTyped, NEW u \in Underlying
  PROVE  /\ Front(u) \in Nat \ {0} /\ Front(u) \in Expiries[u] /\ Front(u) >= day
         /\ phase >= Evening => Front(u) > day
  <1>1. Expiries[u] \in SUBSET Nat /\ 0 \notin Expiries[u] /\ day \in Nat /\ LastDay \in Nat /\ day <= LastDay
    BY DailyAssumption DEF DayTyped
  <1>2. PICK e \in Expiries[u] : e > LastDay
    <2>1. Cardinality({e \in Expiries[u] : e > LastDay}) >= 2
      BY DailyAssumption
    <2>2. {e \in Expiries[u] : e > LastDay} # {}
      <3> SUFFICES ASSUME {e \in Expiries[u] : e > LastDay} = {} PROVE FALSE
        OBVIOUS
      <3>1. Cardinality({e \in Expiries[u] : e > LastDay}) = 0
        BY FS_EmptySet
      <3> QED  BY <2>1, <3>1
    <2> QED  BY <2>2
  <1>3. e \in ValidExpiries(u) /\ ValidExpiries(u) \in SUBSET Nat
    BY <1>1, <1>2 DEF ValidExpiries
  <1>4. \E x \in ValidExpiries(u) : \A y \in ValidExpiries(u) : x <= y
    BY <1>3, FirstDay
  <1>5. Front(u) \in ValidExpiries(u)
    BY <1>4 DEF Front
  <1>6. phase \in Nat /\ Evening \in Nat
    BY DEF DayTyped, Boot, Off, Evening
  <1> QED  BY <1>1, <1>5, <1>6 DEF ValidExpiries

LEMMA ChosenTyped ==
  ASSUME DayTyped, NEW listed \in SUBSET Underlying
  PROVE  Chosen(listed) \in Fronts
  <1>1. 0 \in Expiry  BY DEF Expiry
  <1>2. \A u \in Underlying : Front(u) \in Expiry
    BY FrontValid DEF Expiry
  <1> QED  BY <1>1, <1>2 DEF Chosen, Fronts

\* A choice that succeeds.
LEMMA Found ==
  ASSUME DayTyped, OptionsFound
  PROVE  /\ symbols' \in Fronts /\ ~Empty(symbols')
         /\ \A u \in Underlying : symbols'[u] >= day /\ symbols'[u] # 0
         /\ phase >= Evening => \A u \in Underlying : symbols'[u] > day
         /\ today' = today
  <1>1. symbols' = Chosen(Underlying) /\ today' = today
    BY DEF OptionsFound
  <1>2. \A u \in Underlying : symbols'[u] = Front(u)
    BY <1>1 DEF Chosen
  <1>3. \A u \in Underlying : symbols'[u] >= day /\ symbols'[u] # 0
    BY <1>2, FrontValid
  <1>4. phase >= Evening => \A u \in Underlying : symbols'[u] > day
    BY <1>2, FrontValid
  <1>5. ~Empty(symbols')
    BY <1>3, DailyAssumption DEF Empty
  <1> QED  BY <1>1, <1>3, <1>4, <1>5, ChosenTyped

LEMMA FrontsAreDays == \A f \in Fronts, u \in Underlying : f[u] \in Nat
  <1>1. Expiry \subseteq Nat
    BY DailyAssumption DEF Expiry
  <1> QED  BY <1>1 DEF Fronts

-----------------------------------------------------------------------------
\* What the day keeps of itself.
LEMMA InitTyped == Init => DayTyped
  <1> SUFFICES ASSUME Init PROVE DayTyped  OBVIOUS
  <1> USE DEF Init, DailyInit
  <1>1. Nothing \in Fronts /\ [u \in Underlying |-> 0] \in Fronts
    BY DEF Nothing, Fronts, Expiry
  <1>2. mgr \in Manager /\ rec \in Recoverer
    BY <1>1 DEF Manager, Recoverer, Idle, Stage, Job, RecoveryStage, Boot, Evening
  <1>3. redis \in Keys
    BY DEF NoKeys, Keys
  <1>4. today \in Flags
    BY DEF Untroubled, Flags
  <1>5. config \in Config /\ collectors \in Seq(Config)
    <2>1. config \in Config  BY DEF Config
    <2> QED  BY <2>1
  <1> QED  BY <1>2, <1>3, <1>4, <1>5, DailyAssumption DEF DayTyped, Closed, Boot, Off

\* The parts of the type, as the actions change them.
LEMMA Goings ==
  ASSUME DayTyped, NEW stage \in Stage, NEW job \in Job
  PROVE  /\ Goes(stage) => mgr' \in Manager /\ mgr'.pc = stage /\ mgr'.job = mgr.job
                               /\ mgr'.at = mgr.at /\ mgr'.seen = mgr.seen
         /\ Starts(job, stage) => mgr' \in Manager /\ mgr'.pc = stage /\ mgr'.job = job
                               /\ mgr'.at = mgr.at /\ mgr'.seen = mgr.seen
  BY DEF DayTyped, Manager, Goes, Starts

LEMMA RecoveryGoings ==
  ASSUME DayTyped, NEW stage \in RecoveryStage, RecoveryGoes(stage)
  PROVE  rec' \in Recoverer /\ rec'.pc = stage
  BY DEF DayTyped, Recoverer, RecoveryGoes

LEMMA Idles ==
  /\ Idle \in Manager /\ Idle.pc = "asleep" /\ Idle.at = Boot /\ Idle.job = "setup"
  /\ Dead \in Manager /\ Dead.pc = "down" /\ Dead.at = Boot /\ Dead.job = "setup"
  /\ Nothing \in Fronts
  <1>1. Nothing \in Fronts /\ [u \in Underlying |-> 0] \in Fronts
    BY DEF Nothing, Fronts, Expiry
  <1>2. Idle \in Manager /\ Idle.pc = "asleep" /\ Idle.at = Boot /\ Idle.job = "setup"
    BY <1>1 DEF Idle, Manager, Stage, Job, Boot, Evening
  <1> QED  BY <1>1, <1>2 DEF Dead, Manager, Stage

\* A fault is remembered for the day; nothing else is.
SameFlags ==
    /\ today' \in Flags
    /\ today'.overwritten = today.overwritten /\ today'.caughtUp = today.caughtUp
    /\ today'.loopedHere = today.loopedHere
    /\ Troubled => Troubled'

LEMMA FaultFlags ==
  ASSUME DayTyped, Fault(today)
  PROVE  SameFlags /\ Troubled'
  BY DEF DayTyped, Flags, Fault, SameFlags, Troubled

LEMMA NoFlags ==
  ASSUME DayTyped, today' = today
  PROVE  SameFlags
  BY DEF DayTyped, SameFlags, Troubled

LEMMA MarketFlags ==
  ASSUME DayTyped, NEW answer \in BOOLEAN, SeesMarket(answer)
  PROVE  /\ SameFlags
         /\ ~Troubled' => answer = (day \in Trading /\ phase < Closed)
  BY FaultFlags, NoFlags DEF SeesMarket

LEMMA SleptFlags ==
  ASSUME DayTyped, today' = Slept
  PROVE  /\ today' \in Flags
         /\ today'.overwritten = today.overwritten /\ today'.caughtUp = today.caughtUp
         /\ today'.loopedHere <=> today.loopedHere \/ mgr.at = phase
         /\ Troubled => Troubled'
  <1>1. (today.loopedHere \/ mgr.at = phase) \in BOOLEAN
    OBVIOUS
  <1> QED  BY <1>1 DEF DayTyped, Flags, Slept, Troubled

-----------------------------------------------------------------------------
\* On a day with a trouble there is little left to keep.
LEMMA TroubledKeeps ==
  ASSUME DayTyped', Troubled', phase' # Off, mgr'.at <= phase',
         rec'.pc \in {"collector", "launch", "manager"} => today'.overwritten
  PROVE  DayInv'
  BY DEF DayInv, Awake, Morning, AtNight

\* A step that leaves the manager, the files and the keys of the jobs alone.
Quiet ==
    /\ UNCHANGED <<day, phase, mgr, symbols, config>>
    /\ redis' \in Keys /\ redis'.processed = redis.processed /\ redis'.updated = redis.updated
    /\ SameFlags
    /\ rec' \in Recoverer
    /\ rec'.pc \in {"collector", "launch", "manager"} => today.overwritten
    /\ collectors' \in Seq(Config)
    /\ \A i \in 1..Len(collectors') : \E j \in 1..Len(collectors) : collectors'[i] = collectors[j]
    /\ phase = Off => redis' = redis /\ rec'.pc = "idle" /\ collectors' = <<>>

LEMMA QuietKeeps ==
  ASSUME DayInv, Quiet
  PROVE  DayInv'
  <1> USE DEF Quiet, SameFlags
  <1>1. DayTyped'
    BY DEF DayInv, DayTyped
  <1>2. Awake'
    BY DEF DayInv, Awake
  <1>3. FreshFiles => FreshFiles'
    BY DEF FreshFiles, PastSetup
  <1>4. FreshCollectors => FreshCollectors'
    BY DEF FreshCollectors, Current
  <1>5. Morning'
    BY <1>3, <1>4 DEF DayInv, Morning
  <1>6. RollsOver => RollsOver'
    BY DEF RollsOver, Rolled, RolledOver
  <1>7. AtNight'
    BY <1>6 DEF DayInv, AtNight
  <1> QED  BY <1>1, <1>2, <1>5, <1>7 DEF DayInv

\* The list of collectors loses one, or stays.
LEMMA FewerCollectors ==
  ASSUME collectors \in Seq(Config),
         collectors' = collectors \/ (collectors # <<>> /\ collectors' = Tail(collectors))
  PROVE  /\ collectors' \in Seq(Config)
         /\ \A i \in 1..Len(collectors') : \E j \in 1..Len(collectors) : collectors'[i] = collectors[j]
  <1>1. CASE collectors' = collectors
    BY <1>1
  <1>2. CASE collectors # <<>> /\ collectors' = Tail(collectors)
    <2>1. /\ collectors' \in Seq(Config) /\ Len(collectors') = Len(collectors) - 1
          /\ \A i \in 1..Len(collectors') : collectors'[i] = collectors[i + 1]
      BY <1>2, HeadTailProperties
    <2>2. \A i \in 1..(Len(collectors) - 1) : i + 1 \in 1..Len(collectors)
      BY LenProperties
    <2> QED  BY <2>1, <2>2
  <1> QED  BY <1>1, <1>2

\* Steps that a day does not notice.
LEMMA QuietDays ==
  ASSUME DayInv,
         \/ Recover \/ RecoverReads \/ RecoverLooks
         \/ \E s \in Service : CheckFine(s) \/ CheckDown(s) \/ ServiceDies(s)
         \/ MonitorRestarted
         \/ CollectorDies /\ UNCHANGED rec
         \/ UNCHANGED vars
  PROVE  DayInv'
  <1> SUFFICES Quiet
    BY QuietKeeps
  <1>0. DayTyped /\ Awake
    BY DEF DayInv
  <1> USE DEF clockVars, fileVars, dailyVars, monitorVars
  <1>1. /\ collectors \in Seq(Config) /\ redis \in Keys /\ rec \in Recoverer
        /\ rec.pc \in {"collector", "launch", "manager"} => today.overwritten
        /\ phase = Off => rec.pc = "idle" /\ collectors = <<>>
    BY <1>0 DEF DayTyped, Awake
  <1>2. CASE Recover
    <2>1. rec' \in Recoverer /\ rec'.pc = "chain"
      BY <1>0, <1>2, RecoveryGoings DEF Recover, RecoveryStage
    <2>2. /\ UNCHANGED <<day, phase, mgr, symbols, config, redis, today, collectors>>
          /\ phase # Off
      BY <1>2 DEF Recover
    <2> QED  BY <1>0, <1>1, <2>1, <2>2, NoFlags DEF Quiet
  <1>3. CASE RecoverReads
    <2>1. rec' \in Recoverer /\ rec'.pc = "write" /\ rec.pc = "read"
      BY <1>0, <1>3 DEF RecoverReads, RecoveryStage, DayTyped, Recoverer
    <2>2. UNCHANGED <<day, phase, mgr, symbols, config, redis, today, collectors>>
      BY <1>3 DEF RecoverReads
    <2> QED  BY <1>0, <1>1, <2>1, <2>2, NoFlags DEF Quiet
  <1>4. CASE RecoverLooks
    <2>1. PICK stage \in {"launch", "manager"} : RecoveryGoes(stage)
      BY <1>4 DEF RecoverLooks
    <2>2. rec' \in Recoverer /\ rec'.pc = stage /\ rec.pc = "collector"
      BY <1>0, <1>4, <2>1, RecoveryGoings DEF RecoverLooks, RecoveryStage
    <2>3. UNCHANGED <<day, phase, mgr, symbols, config, redis, today, collectors>>
      BY <1>4 DEF RecoverLooks
    <2> QED  BY <1>0, <1>1, <2>2, <2>3, NoFlags DEF Quiet
  <1>5. CASE \E s \in Service : CheckFine(s) \/ CheckDown(s) \/ ServiceDies(s)
    <2>1. UNCHANGED <<day, phase, mgr, symbols, config, redis, collectors, rec>>
      BY <1>5 DEF CheckFine, CheckDown, ServiceDies
    <2>2. today' = today \/ Fault(today)
      BY <1>5 DEF CheckFine, CheckDown, ServiceDies
    <2> QED  BY <1>0, <1>1, <2>1, <2>2, NoFlags, FaultFlags DEF Quiet
  <1>6. CASE MonitorRestarted \/ UNCHANGED vars
    <2>1. UNCHANGED <<day, phase, mgr, symbols, config, redis, collectors, rec, today>>
      BY <1>6 DEF MonitorRestarted, vars
    <2> QED  BY <1>0, <1>1, <2>1, NoFlags DEF Quiet
  <1>7. CASE CollectorDies /\ UNCHANGED rec
    <2>1. /\ UNCHANGED <<day, phase, mgr, symbols, config, redis, rec, today>>
          /\ collectors # <<>> /\ collectors' = Tail(collectors)
      BY <1>7 DEF CollectorDies
    <2> QED  BY <1>0, <1>1, <2>1, NoFlags, FewerCollectors DEF Quiet
  <1> QED  BY <1>2, <1>3, <1>4, <1>5, <1>6, <1>7

\* Steps that put the manager back to its start, or down, on a day that has
\* trouble then.
LEMMA TroubledDays ==
  ASSUME DayInv,
         \/ (LoopRaises \/ ManagerKilled) /\ UNCHANGED <<rec, monitorVars>>
         \/ Restarted
         \/ RecoverManager
  PROVE  DayInv'
  <1>0. DayTyped /\ Awake /\ phase \in Nat
    BY DEF DayInv, DayTyped, Boot, Off
  <1> USE DEF clockVars, fileVars
  <1>1. /\ collectors \in Seq(Config) /\ redis \in Keys /\ rec \in Recoverer /\ today \in Flags
        /\ rec.pc \in {"collector", "launch", "manager"} => today.overwritten
        /\ phase = Off => mgr.pc = "down" /\ rec.pc = "idle"
        /\ phase # Off /\ mgr.pc = "down" => Troubled
    BY <1>0, Idles DEF DayTyped, Awake
  <1>2. CASE LoopRaises /\ UNCHANGED <<rec, monitorVars>>
    <2>1. /\ UNCHANGED <<day, phase, symbols, config, redis, rec, collectors>>
          /\ mgr' = Idle /\ Fault(today) /\ phase # Off
      BY <1>1, <1>2 DEF LoopRaises
    <2>2. SameFlags /\ Troubled'
      BY <1>0, <2>1, FaultFlags
    <2>3. DayTyped'
      BY <1>0, <2>1, <2>2, Idles DEF DayTyped, SameFlags
    <2> QED  BY <1>0, <1>1, <2>1, <2>2, <2>3, Idles, TroubledKeeps DEF SameFlags, Boot
  <1>3. CASE ManagerKilled /\ UNCHANGED <<rec, monitorVars>>
    <2>1. /\ UNCHANGED <<day, phase, symbols, config, redis, rec>>
          /\ collectors' \in {collectors, <<>>}
          /\ mgr' = Dead /\ today' = [today EXCEPT !.killed = TRUE] /\ phase # Off
      BY <1>1, <1>3 DEF ManagerKilled
    <2>2. today' \in Flags /\ Troubled' /\ today'.overwritten = today.overwritten
      BY <1>1, <2>1 DEF Flags, Troubled
    <2>3. collectors' \in Seq(Config)
      <3>1. <<>> \in Seq(Config)
        BY EmptySeq
      <3> QED  BY <1>1, <2>1, <3>1
    <2>4. DayTyped'
      BY <1>0, <2>1, <2>2, <2>3, Idles DEF DayTyped
    <2> QED  BY <1>0, <1>1, <2>1, <2>2, <2>4, Idles, TroubledKeeps DEF Boot
  <1>4. CASE Restarted
    <2>1. /\ UNCHANGED <<day, phase, symbols, config, redis, rec, collectors, today>>
          /\ mgr' = Idle /\ phase # Off /\ mgr.pc = "down"
      BY <1>4 DEF Restarted, ManagerRestarted
    <2>2. DayTyped' /\ Troubled'
      BY <1>0, <1>1, <2>1, Idles DEF DayTyped, Troubled
    <2> QED  BY <1>0, <1>1, <2>1, <2>2, Idles, TroubledKeeps DEF Boot
  <1>5. CASE RecoverManager
    <2>1. /\ UNCHANGED <<day, phase, symbols, config, collectors, today>>
          /\ rec.pc = "manager" /\ phase # Off
          /\ rec' = [rec EXCEPT !.pc = "idle", !.opts = Nothing]
      BY <1>1, <1>5 DEF RecoverManager
    <2>2. rec' \in Recoverer /\ rec'.pc = "idle"
      BY <1>1, <2>1, Idles DEF Recoverer, RecoveryStage
    <2>3. CASE mgr.pc = "down"
      <3>1. mgr' = Idle /\ redis' \in Keys
        BY <1>1, <1>5, <2>3 DEF RecoverManager, Keys
      <3>2. DayTyped' /\ Troubled'
        BY <1>0, <1>1, <2>1, <2>2, <2>3, <3>1, Idles DEF DayTyped, Troubled
      <3> QED  BY <1>0, <2>1, <2>2, <3>1, <3>2, Idles, TroubledKeeps DEF Boot
    <2>4. CASE mgr.pc # "down"
      <3>1. UNCHANGED <<redis, mgr>>
        BY <1>5, <2>4 DEF RecoverManager
      <3>2. Quiet
        BY <1>0, <1>1, <2>1, <2>2, <3>1, NoFlags DEF Quiet
      <3> QED  BY <3>2, QuietKeeps
    <2> QED  BY <2>3, <2>4
  <1> QED  BY <1>2, <1>3, <1>4, <1>5

\* The recovery script chooses, writes the list, launches.
LEMMA RecoveryDays ==
  ASSUME DayInv, RecoverChain \/ RecoverMerges \/ RecoverLaunches
  PROVE  DayInv'
  <1>0. DayTyped /\ Awake /\ Morning /\ AtNight /\ phase \in Nat
    BY DEF DayInv, DayTyped, Boot, Off
  <1> USE DEF clockVars, fileVars
  <1>1. /\ collectors \in Seq(Config) /\ redis \in Keys /\ rec \in Recoverer /\ today \in Flags
        /\ config \in Config /\ mgr \in Manager
        /\ rec.pc \in {"collector", "launch", "manager"} => today.overwritten
        /\ phase = Off => rec.pc = "idle"
        /\ ~Troubled => (~Empty(symbols) /\ mgr.pc # "down") \/ phase = Off
        /\ mgr.at <= phase /\ mgr.at \in Nat
    BY <1>0 DEF DayTyped, Awake, Manager, Boot, Evening
  <1>2. CASE RecoverChain
    <2>1. /\ UNCHANGED <<day, phase, config, collectors, mgr>> /\ rec.pc = "chain" /\ phase # Off
          /\ RecoveryGoes("read")
      BY <1>1, <1>2 DEF RecoverChain
    <2>2. rec' \in Recoverer /\ rec'.pc = "read"
      BY <1>0, <2>1, RecoveryGoings DEF RecoveryStage
    <2>3. redis' \in Keys /\ redis'.processed = redis.processed /\ redis'.updated = redis.updated
      BY <1>1, <1>2 DEF RecoverChain, Keys
    <2>4. CASE symbols' = symbols
      <3>1. today' = today \/ Fault(today)
        BY <1>2 DEF RecoverChain, OptionsFound, OptionsFoundInPart
      <3>2. Quiet
        BY <1>0, <1>1, <2>1, <2>2, <2>3, <2>4, <3>1, NoFlags, FaultFlags DEF Quiet
      <3> QED  BY <3>2, QuietKeeps
    <2>5. CASE OptionsFoundInPart
      <3>1. symbols' \in Fronts
        BY <1>0, <2>5, ChosenTyped DEF OptionsFoundInPart, DayTyped
      <3>2. SameFlags /\ Troubled'
        BY <1>0, <2>5, FaultFlags DEF OptionsFoundInPart
      <3>3. DayTyped'
        BY <1>0, <2>1, <2>2, <2>3, <3>1, <3>2 DEF DayTyped, SameFlags
      <3> QED  BY <1>1, <2>1, <2>2, <3>2, <3>3, TroubledKeeps
    <2>6. CASE OptionsFound
      <3>1. /\ symbols' \in Fronts /\ ~Empty(symbols') /\ today' = today
            /\ \A u \in Underlying : symbols'[u] >= day /\ symbols'[u] # 0
            /\ phase >= Evening => \A u \in Underlying : symbols'[u] > day
        BY <1>0, <2>6, Found
      <3>2. SameFlags /\ (Troubled' <=> Troubled)
        BY <1>0, <3>1, NoFlags DEF Troubled
      <3>3. DayTyped'
        BY <1>0, <2>1, <2>2, <2>3, <3>1, <3>2 DEF DayTyped, SameFlags
      <3>4. Awake'
        BY <1>1, <2>1, <2>2, <3>1, <3>2 DEF Awake
      <3>5. FreshFiles => FreshFiles'
        BY <2>1, <2>3, <3>1 DEF FreshFiles, PastSetup
      <3>6. FreshCollectors => FreshCollectors'
        BY <2>1, <2>3 DEF FreshCollectors, Current
      <3>7. Morning'
        BY <1>0, <2>1, <3>1, <3>2, <3>5, <3>6 DEF Morning
      <3>8. RollsOver => RollsOver'
        BY <1>1, <2>1, <2>3, <3>1 DEF RollsOver, Rolled, RolledOver, Evening
      <3>9. AtNight'
        BY <1>0, <2>1, <3>1, <3>2, <3>8 DEF AtNight
      <3> QED  BY <3>3, <3>4, <3>7, <3>9 DEF DayInv
    <2> QED  BY <1>2, <2>4, <2>5, <2>6 DEF RecoverChain
  <1>3. CASE RecoverMerges
    <2>1. /\ UNCHANGED <<day, phase, symbols, collectors, mgr, redis>> /\ phase # Off
          /\ config' = [front |-> rec.opts, whole |-> FALSE]
          /\ today' = [today EXCEPT !.overwritten = TRUE]
          /\ RecoveryGoes("collector")
      BY <1>1, <1>3 DEF RecoverMerges
    <2>2. rec' \in Recoverer /\ rec'.pc = "collector"
      BY <1>0, <2>1, RecoveryGoings DEF RecoveryStage
    <2>3. /\ today' \in Flags /\ today'.overwritten /\ (Troubled' <=> Troubled)
          /\ today'.caughtUp = today.caughtUp /\ today'.loopedHere = today.loopedHere
      BY <1>1, <2>1 DEF Flags, Troubled
    <2>4. config' \in Config
      BY <1>1, <2>1 DEF Recoverer, Config
    <2>5. DayTyped'
      BY <1>0, <2>1, <2>2, <2>3, <2>4 DEF DayTyped
    <2>6. Awake'
      BY <1>1, <2>1, <2>2, <2>3 DEF Awake
    <2>7. FreshFiles => FreshFiles'
      BY <2>1, <2>3 DEF FreshFiles, PastSetup
    <2>8. Morning'
      BY <1>0, <2>1, <2>3, <2>7 DEF Morning
    <2>9. RollsOver => RollsOver'
      BY <2>1, <2>3 DEF RollsOver, Rolled, RolledOver
    <2>10. AtNight'
      BY <1>0, <2>1, <2>3, <2>9 DEF AtNight
    <2> QED  BY <2>5, <2>6, <2>8, <2>10 DEF DayInv
  <1>4. CASE RecoverLaunches
    <2>1. /\ UNCHANGED <<day, phase, symbols, config, mgr, redis>> /\ phase # Off
          /\ rec.pc = "launch" /\ RecoveryGoes("manager")
      BY <1>1, <1>4 DEF RecoverLaunches
    <2>2. rec' \in Recoverer /\ rec'.pc = "manager"
      BY <1>0, <2>1, RecoveryGoings DEF RecoveryStage
    <2>3. /\ today' \in Flags /\ today'.overwritten /\ (Troubled => Troubled')
          /\ today'.caughtUp = today.caughtUp /\ today'.loopedHere = today.loopedHere
      <3>1. CASE today' = [today EXCEPT !.overlap = @ \/ mgr.pc = "launch"]
        <4>1. (today.overlap \/ mgr.pc = "launch") \in BOOLEAN
          OBVIOUS
        <4> QED  BY <1>1, <2>1, <3>1, <4>1 DEF Flags, Troubled
      <3>2. CASE Fault(today)
        BY <1>0, <1>1, <2>1, <3>2, FaultFlags DEF SameFlags
      <3> QED  BY <1>4, <3>1, <3>2 DEF RecoverLaunches
    <2>4. collectors' \in Seq(Config)
      <3>1. Append(collectors, config) \in Seq(Config)
        BY <1>1
      <3> QED  BY <1>1, <1>4, <3>1 DEF RecoverLaunches
    <2>5. DayTyped'
      BY <1>0, <2>1, <2>2, <2>3, <2>4 DEF DayTyped
    <2>6. Awake'
      BY <1>1, <2>1, <2>2, <2>3 DEF Awake
    <2>7. FreshFiles => FreshFiles'
      BY <2>1, <2>3 DEF FreshFiles, PastSetup
    <2>8. Morning'
      BY <1>0, <2>1, <2>3, <2>7 DEF Morning
    <2>9. RollsOver => RollsOver'
      BY <2>1, <2>3 DEF RollsOver, Rolled, RolledOver
    <2>10. AtNight'
      BY <1>0, <2>1, <2>3, <2>9 DEF AtNight
    <2> QED  BY <2>5, <2>6, <2>8, <2>10 DEF DayInv
  <1> QED  BY <1>2, <1>3, <1>4

-----------------------------------------------------------------------------
\* What every step of a manager that is up begins with.
LEMMA Up ==
  ASSUME DayInv, mgr.pc # "down"
  PROVE  /\ DayTyped /\ phase # Off /\ phase \in Nat /\ mgr.at \in Nat /\ mgr.at <= phase
         /\ mgr \in Manager /\ mgr.job \in Job /\ mgr.seen \in Fronts
         /\ rec.pc \in {"collector", "launch", "manager"} => today.overwritten
         /\ collectors \in Seq(Config) /\ redis \in Keys /\ today \in Flags
         /\ AfterJob \in Stage /\ AfterJob # "down"
         /\ ~Troubled => ~Empty(symbols)
  <1>1. DayTyped /\ Awake
    BY DEF DayInv
  <1>2. mgr \in Manager /\ mgr.job \in Job /\ mgr.seen \in Fronts /\ mgr.at \in Nat /\ phase \in Nat
    BY <1>1 DEF DayTyped, Manager, Boot, Evening, Off
  <1>3. AfterJob \in Stage /\ AfterJob # "down"
    BY <1>2 DEF AfterJob, Stage, Job
  <1> QED  BY <1>1, <1>2, <1>3, Idles DEF DayTyped, Awake

\* A step of the manager that leaves the file of options alone.
LEMMA WorksOn ==
  ASSUME DayInv, UNCHANGED <<day, phase, symbols, rec>>,
         config' \in Config, redis' \in Keys, collectors' \in Seq(Config),
         mgr.pc # "down", mgr' \in Manager, mgr'.at <= phase, mgr'.pc # "down",
         today' \in Flags, Troubled => Troubled',
         today'.overwritten = today.overwritten,
         ~Troubled' /\ day \in Trading /\ phase <= Session /\ FreshFiles => FreshFiles',
         ~Troubled' /\ day \in Trading /\ phase <= Session /\ FreshFiles
             /\ FreshCollectors => FreshCollectors',
         ~Troubled' /\ ~today'.caughtUp => ~today.caughtUp /\ RollsOver'
  PROVE  DayInv'
  <1>0. DayTyped /\ Awake /\ Morning /\ AtNight /\ phase # Off
    BY Up DEF DayInv
  <1>1. DayTyped'
    BY <1>0 DEF DayTyped
  <1>2. Awake'
    BY <1>0 DEF Awake
  <1>3. Morning'
    BY <1>0 DEF Morning
  <1>4. AtNight'
    BY <1>0 DEF AtNight
  <1> QED  BY <1>1, <1>2, <1>3, <1>4 DEF DayInv

\* One that only goes on, or rests.
LEMMA GoesOn ==
  ASSUME DayInv, UNCHANGED <<day, phase, symbols, config, redis, collectors, rec>>,
         mgr.pc # "down", mgr' \in Manager, mgr'.at <= phase, mgr'.pc # "down",
         today' \in Flags, Troubled => Troubled',
         today'.overwritten = today.overwritten,
         ~Troubled' /\ day \in Trading /\ phase <= Session /\ FreshFiles => FreshFiles',
         ~Troubled' /\ day \in Trading /\ phase <= Session /\ FreshFiles
             /\ FreshCollectors => FreshCollectors',
         ~Troubled' /\ ~today'.caughtUp => ~today.caughtUp /\ RollsOver'
  PROVE  DayInv'
  <1>1. config' \in Config /\ redis' \in Keys /\ collectors' \in Seq(Config)
    BY DEF DayInv, DayTyped
  <1> QED  BY <1>1, WorksOn

LEMMA LookDays ==
  ASSUME DayInv, Look, UNCHANGED rec
  PROVE  DayInv'
  <1>1. /\ UNCHANGED <<day, phase, symbols, config, redis, collectors, today>>
        /\ mgr.pc = "asleep"
        /\ mgr' = [mgr EXCEPT !.pc = "setup", !.at = phase, !.seen = symbols]
    BY DEF Look, clockVars, fileVars
  <1>2. DayTyped /\ phase # Off /\ mgr \in Manager /\ phase \in Nat /\ symbols \in Fronts
    BY <1>1, Up DEF DayTyped
  <1>3. mgr' \in Manager /\ mgr'.pc = "setup" /\ mgr'.at = phase /\ mgr'.seen = symbols
    <2>1. phase \in Boot..Evening /\ "setup" \in Stage
      BY <1>2 DEF DayTyped, Boot, Evening, Off, Stage
    <2> QED  BY <1>1, <1>2, <2>1 DEF Manager
  <1>4. FreshFiles => FreshFiles'
    BY <1>1, <1>3 DEF FreshFiles, PastSetup, Working
  <1>5. FreshCollectors => FreshCollectors'
    BY <1>1, <1>3 DEF FreshCollectors, Current
  <1>6. ~Troubled /\ ~today.caughtUp => RollsOver'
    BY <1>1, <1>3 DEF DayInv, AtNight, RollsOver, Rolled, RolledOver, Working
  <1>7. SameFlags
    BY <1>1, <1>2, NoFlags
  <1> QED  BY <1>1, <1>2, <1>3, <1>4, <1>5, <1>6, <1>7, GoesOn DEF SameFlags, Troubled

LEMMA SetupDays ==
  ASSUME DayInv, NoSetup \/ MorningSetup, UNCHANGED rec
  PROVE  DayInv'
  <1>1. UNCHANGED <<day, phase, symbols, config>> /\ mgr.pc = "setup"
    BY DEF NoSetup, MorningSetup, clockVars, fileVars
  <1>2. /\ DayTyped /\ phase # Off /\ mgr \in Manager /\ phase \in Nat /\ mgr.at <= phase
        /\ redis \in Keys /\ mgr.job \in Job /\ today \in Flags
    BY <1>1, Up
  <1>3. CASE NoSetup
    <2>1. UNCHANGED <<redis, collectors, today>> /\ ~SetupDue /\ Goes("reopen")
      BY <1>3 DEF NoSetup
    <2>2. /\ mgr' \in Manager /\ mgr'.pc = "reopen" /\ mgr'.job = mgr.job
          /\ mgr'.at = mgr.at /\ mgr'.seen = mgr.seen
      BY <1>2, <2>1, Goings DEF Stage
    <2>3. FreshFiles => FreshFiles'
      BY <1>1, <1>2, <2>1, <2>2 DEF FreshFiles, PastSetup, Working, SetupDue, Keys
    <2>4. FreshCollectors => FreshCollectors'
      BY <1>1, <2>1, <2>2 DEF FreshCollectors, Current
    <2>5. ~Troubled /\ ~today.caughtUp => RollsOver'
      BY <1>1, <2>1, <2>2 DEF DayInv, AtNight, RollsOver, Rolled, RolledOver, Working
    <2>6. SameFlags
      BY <1>2, <2>1, NoFlags
    <2> QED  BY <1>1, <1>2, <2>1, <2>2, <2>3, <2>4, <2>5, <2>6, GoesOn DEF SameFlags, Troubled
  <1>4. CASE MorningSetup /\ Starts("setup", "find") /\ SeesMarket(TRUE) /\ UNCHANGED <<redis, collectors>>
    <2>1. /\ mgr' \in Manager /\ mgr'.pc = "find" /\ mgr'.job = "setup"
          /\ mgr'.at = mgr.at /\ mgr'.seen = mgr.seen
      BY <1>2, <1>4, Goings DEF Stage, Job
    <2>2. SameFlags
      BY <1>2, <1>4, MarketFlags
    <2>3. FreshFiles => FreshFiles'
      BY <1>1, <1>4, <2>1, <2>2 DEF FreshFiles, PastSetup, Working, SameFlags
    <2>4. FreshCollectors => FreshCollectors'
      BY <1>1, <1>4, <2>1 DEF FreshCollectors, Current
    <2>5. ~Troubled /\ ~today.caughtUp => RollsOver'
      BY <1>1, <1>4, <2>1, <2>2 DEF DayInv, AtNight, RollsOver, Rolled, RolledOver, Working, SameFlags
    <2> QED  BY <1>1, <1>2, <1>4, <2>1, <2>2, <2>3, <2>4, <2>5, GoesOn DEF SameFlags
  <1>5. CASE MorningSetup /\ Goes("reopen") /\ SeesMarket(FALSE) /\ collectors' = <<>>
                /\ redis' = [redis EXCEPT !.processed = "closed"]
    <2>1. /\ mgr' \in Manager /\ mgr'.pc = "reopen" /\ mgr'.job = mgr.job
          /\ mgr'.at = mgr.at /\ mgr'.seen = mgr.seen
      BY <1>2, <1>5, Goings DEF Stage
    <2>2. SameFlags /\ (~Troubled' => ~(day \in Trading /\ phase < Closed))
      BY <1>2, <1>5, MarketFlags
    <2>3. redis' \in Keys /\ redis'.updated = redis.updated
      BY <1>2, <1>5 DEF Keys
    <2>4. collectors' \in Seq(Config)
      BY <1>5, EmptySeq
    <2>5. DayTyped'
      BY <1>1, <1>2, <2>1, <2>2, <2>3, <2>4 DEF DayTyped, SameFlags
    <2>6. Awake'
      BY <1>1, <1>2, <2>1, <2>2 DEF DayInv, Awake, SameFlags
    <2>7. Morning'
      BY <1>1, <1>2, <2>2 DEF Morning, Session, Closed
    <2>8. RollsOver => RollsOver'
      BY <1>1, <1>2, <2>1, <2>2, <2>3 DEF RollsOver, Rolled, RolledOver, Working, SameFlags
    <2>9. AtNight'
      BY <1>1, <2>2, <2>8 DEF DayInv, AtNight, SameFlags
    <2> QED  BY <2>5, <2>6, <2>7, <2>9 DEF DayInv
  <1> QED  BY <1>3, <1>4, <1>5 DEF MorningSetup

LEMMA ReopenDays ==
  ASSUME DayInv, MarketReopen, UNCHANGED rec
  PROVE  DayInv'
  <1>1. UNCHANGED <<day, phase, symbols, config, redis, collectors>> /\ mgr.pc = "reopen"
    BY DEF MarketReopen, clockVars, fileVars
  <1>2. /\ DayTyped /\ phase # Off /\ mgr \in Manager /\ phase \in Nat /\ mgr.at <= phase
        /\ redis \in Keys /\ mgr.job \in Job /\ today \in Flags
    BY <1>1, Up
  <1>3. SameFlags
    <2>1. today' = today \/ \E open \in BOOLEAN : SeesMarket(open)
      BY DEF MarketReopen
    <2> QED  BY <1>2, <2>1, MarketFlags, NoFlags
  <1>4. CASE Goes("roll")
    <2>1. /\ mgr' \in Manager /\ mgr'.pc = "roll" /\ mgr'.job = mgr.job
          /\ mgr'.at = mgr.at /\ mgr'.seen = mgr.seen
      BY <1>2, <1>4, Goings DEF Stage
    <2>2. FreshFiles => FreshFiles'
      BY <1>1, <1>3, <2>1 DEF FreshFiles, PastSetup, Working, SameFlags
    <2>3. FreshCollectors => FreshCollectors'
      BY <1>1, <2>1 DEF FreshCollectors, Current
    <2>4. ~Troubled /\ ~today.caughtUp => RollsOver'
      BY <1>1, <1>3, <2>1 DEF DayInv, AtNight, RollsOver, Rolled, RolledOver, Working, SameFlags
    <2> QED  BY <1>1, <1>2, <1>3, <2>1, <2>2, <2>3, <2>4, GoesOn DEF SameFlags
  <1>5. CASE Starts("reopen", "kill") /\ ReopenDue
    <2>1. /\ mgr' \in Manager /\ mgr'.pc = "kill" /\ mgr'.job = "reopen"
          /\ mgr'.at = mgr.at /\ mgr'.seen = mgr.seen
      BY <1>2, <1>5, Goings DEF Stage, Job
    <2>2. mgr.at >= Setup /\ PastSetup
      BY <1>1, <1>5 DEF ReopenDue, Reopen, Setup, PastSetup
    <2>3. FreshFiles => redis.processed = "open"
      BY <2>2 DEF FreshFiles
    <2>4. FreshFiles => FreshFiles'
      BY <1>1, <1>3, <2>1, <2>2, <2>3 DEF FreshFiles, PastSetup, Working, SameFlags
    <2>5. FreshFiles /\ FreshCollectors => FreshCollectors'
      BY <1>1, <2>1, <2>3 DEF FreshCollectors, Current
    <2>6. ~Troubled /\ ~today.caughtUp => RollsOver'
      BY <1>1, <1>3, <2>1 DEF DayInv, AtNight, RollsOver, Rolled, RolledOver, Working, SameFlags
    <2> QED  BY <1>1, <1>2, <1>3, <2>1, <2>4, <2>5, <2>6, GoesOn DEF SameFlags
  <1> QED  BY <1>4, <1>5 DEF MarketReopen

\* A loop that finds no rollover due read contracts of tomorrow.
LEMMA NothingDue ==
  ASSUME DayTyped, ~RolloverDue, mgr.at = Evening, phase >= Evening, RollsOver, mgr.pc = "roll",
         day \in Trading => \A u \in Underlying : symbols[u] # 0
  PROVE  RolledOver
  <1>1. CASE redis.updated
    BY <1>1 DEF RollsOver, Rolled, RolledOver
  <1>2. CASE ~redis.updated
    <2> SUFFICES ASSUME NEW u \in Underlying
                 PROVE  symbols[u] > day \/ (day \notin Trading /\ symbols[u] = 0)
      BY DEF RolledOver
    <2>1. mgr.seen[u] \in Nat /\ day \in Nat /\ symbols[u] \in Nat
      BY FrontsAreDays, DailyAssumption DEF DayTyped, Manager
    <2>2. symbols[u] = mgr.seen[u] \/ symbols[u] > day
      BY DEF RollsOver
    <2>3. mgr.seen[u] # 0 => mgr.seen[u] > day
      BY <1>2, <2>1 DEF RolloverDue, ExpiryReached, ExpiryStale, Listed
    <2> QED  BY <2>1, <2>2, <2>3
  <1> QED  BY <1>1, <1>2

LEMMA RolloverDays ==
  ASSUME DayInv, Rollover, UNCHANGED rec
  PROVE  DayInv'
  <1>1. UNCHANGED <<day, phase, symbols, config, redis, collectors>> /\ mgr.pc = "roll"
    BY DEF Rollover, clockVars, fileVars
  <1>2. /\ DayTyped /\ phase # Off /\ mgr \in Manager /\ phase \in Nat /\ mgr.at <= phase
        /\ redis \in Keys /\ mgr.job \in Job /\ today \in Flags /\ mgr.at \in Nat
    BY <1>1, Up
  <1>3. CASE RolloverDue
    <2>1. /\ Starts("roll", "find")
          /\ today' = [today EXCEPT !.caughtUp = @ \/ ~ExpiryReached]
      BY <1>3 DEF Rollover
    <2>2. /\ mgr' \in Manager /\ mgr'.pc = "find" /\ mgr'.job = "roll"
          /\ mgr'.at = mgr.at /\ mgr'.seen = mgr.seen
      BY <1>2, <2>1, Goings DEF Stage, Job
    <2>3. /\ today' \in Flags /\ today'.overwritten = today.overwritten
          /\ today'.loopedHere = today.loopedHere /\ (Troubled' <=> Troubled)
          /\ today'.caughtUp <=> today.caughtUp \/ ~ExpiryReached
      <3>1. (today.caughtUp \/ ~ExpiryReached) \in BOOLEAN
        OBVIOUS
      <3> QED  BY <1>2, <2>1, <3>1 DEF Flags, Troubled
    <2>4. FreshFiles => FreshFiles'
      BY <1>1, <2>2, <2>3 DEF FreshFiles, PastSetup, Working
    <2>5. FreshCollectors => FreshCollectors'
      BY <1>1, <2>2 DEF FreshCollectors, Current
    <2>6. ~Troubled /\ ~today'.caughtUp => ~today.caughtUp /\ RollsOver'
      BY <1>1, <2>2, <2>3 DEF DayInv, AtNight, RollsOver, Rolled, RolledOver, Working, ExpiryReached
    <2> QED  BY <1>1, <1>2, <2>2, <2>3, <2>4, <2>5, <2>6, GoesOn
  <1>4. CASE ~RolloverDue
    <2>1. Goes("sync") /\ today' = today
      BY <1>4 DEF Rollover
    <2>2. /\ mgr' \in Manager /\ mgr'.pc = "sync" /\ mgr'.job = mgr.job
          /\ mgr'.at = mgr.at /\ mgr'.seen = mgr.seen
      BY <1>2, <2>1, Goings DEF Stage
    <2>3. SameFlags /\ (Troubled' <=> Troubled)
      BY <1>2, <2>1, NoFlags DEF Troubled
    <2>4. FreshFiles => FreshFiles'
      BY <1>1, <2>1, <2>2 DEF FreshFiles, PastSetup, Working
    <2>5. FreshCollectors => FreshCollectors'
      BY <1>1, <2>2 DEF FreshCollectors, Current
    <2>6. ASSUME ~Troubled, ~today.caughtUp PROVE RollsOver'
      <3>1. RollsOver /\ (day \in Trading /\ phase > Session => \A u \in Underlying : symbols[u] # 0)
        BY <2>6 DEF DayInv, AtNight
      <3>2. mgr.at = Evening => RolledOver
        BY <1>1, <1>2, <1>4, <3>1, NothingDue DEF Evening, Session
      <3> QED  BY <1>1, <2>1, <2>2, <3>1, <3>2 DEF RollsOver, Rolled, RolledOver, Working
    <2> QED  BY <1>1, <1>2, <2>1, <2>2, <2>3, <2>4, <2>5, <2>6, GoesOn DEF SameFlags
  <1> QED  BY <1>3, <1>4

\* The steps of a job: it chooses, merges, kills, launches and sets its key.
LEMMA FindDays ==
  ASSUME DayInv, FindOptions, UNCHANGED rec
  PROVE  DayInv'
  <1>1. UNCHANGED <<day, phase, config, collectors>> /\ mgr.pc = "find"
    BY DEF FindOptions, clockVars
  <1>2. /\ DayTyped /\ phase # Off /\ mgr \in Manager /\ phase \in Nat /\ mgr.at <= phase
        /\ redis \in Keys /\ mgr.job \in Job /\ today \in Flags /\ mgr.at \in Nat
        /\ rec.pc \in {"collector", "launch", "manager"} => today.overwritten
        /\ AfterJob \in Stage
    BY <1>1, Up
  <1>3. CASE Fault(today) /\ (Goes(AfterJob) \/ Goes("merge"))
                /\ symbols' \in Fronts /\ redis' \in Keys
    <2>1. mgr' \in Manager /\ mgr'.at = mgr.at
      BY <1>2, <1>3, Goings DEF Stage
    <2>2. SameFlags /\ Troubled'
      BY <1>2, <1>3, FaultFlags
    <2>3. DayTyped'
      BY <1>1, <1>2, <1>3, <2>1, <2>2 DEF DayTyped, SameFlags
    <2> QED  BY <1>1, <1>2, <2>1, <2>2, <2>3, TroubledKeeps DEF SameFlags
  <1>4. CASE OptionsFound /\ redis' = [redis EXCEPT !.chain = TRUE] /\ Goes("merge")
    <2>1. /\ mgr' \in Manager /\ mgr'.pc = "merge" /\ mgr'.job = mgr.job
          /\ mgr'.at = mgr.at /\ mgr'.seen = mgr.seen
      BY <1>2, <1>4, Goings DEF Stage
    <2>2. redis' \in Keys /\ redis'.processed = redis.processed /\ redis'.updated = redis.updated
      BY <1>2, <1>4 DEF Keys
    <2>3. /\ symbols' \in Fronts /\ ~Empty(symbols') /\ today' = today
          /\ \A u \in Underlying : symbols'[u] >= day /\ symbols'[u] # 0
          /\ phase >= Evening => \A u \in Underlying : symbols'[u] > day
      BY <1>2, <1>4, Found
    <2>4. SameFlags /\ (Troubled' <=> Troubled)
      BY <1>2, <2>3, NoFlags DEF Troubled
    <2>5. DayTyped'
      BY <1>1, <1>2, <2>1, <2>2, <2>3, <2>4 DEF DayTyped, SameFlags
    <2>6. Awake'
      BY <1>1, <1>2, <2>1, <2>3, <2>4 DEF DayInv, Awake, SameFlags
    <2>7. FreshFiles => FreshFiles'
      BY <1>1, <2>1, <2>2, <2>3 DEF FreshFiles, PastSetup, Working
    <2>8. FreshCollectors => FreshCollectors'
      BY <1>1, <2>1, <2>2 DEF FreshCollectors, Current
    <2>9. Morning'
      BY <1>1, <2>3, <2>4, <2>7, <2>8 DEF DayInv, Morning
    <2>10. RollsOver => RollsOver'
      BY <1>1, <1>2, <2>1, <2>2, <2>3 DEF RollsOver, Rolled, RolledOver, Working, Evening, Off
    <2>11. AtNight'
      BY <1>1, <2>3, <2>4, <2>10 DEF DayInv, AtNight
    <2> QED  BY <2>5, <2>6, <2>9, <2>11 DEF DayInv
  <1>5. ASSUME OptionsFoundInPart, redis' = [redis EXCEPT !.chain = TRUE]
        PROVE  Fault(today) /\ symbols' \in Fronts /\ redis' \in Keys
    BY <1>2, <1>5, ChosenTyped DEF OptionsFoundInPart, DayTyped, Keys
  <1>6. symbols \in Fronts
    BY <1>2 DEF DayTyped
  <1> QED  BY <1>2, <1>3, <1>4, <1>5, <1>6 DEF FindOptions

LEMMA MergeDays ==
  ASSUME DayInv, Merge, UNCHANGED rec
  PROVE  DayInv'
  <1>1. UNCHANGED <<day, phase, symbols, redis, collectors>> /\ mgr.pc = "merge" /\ Goes("kill")
    BY DEF Merge, clockVars
  <1>2. /\ DayTyped /\ phase # Off /\ mgr \in Manager /\ phase \in Nat /\ mgr.at <= phase
        /\ redis \in Keys /\ mgr.job \in Job /\ today \in Flags /\ collectors \in Seq(Config)
    BY <1>1, Up
  <1>3. /\ mgr' \in Manager /\ mgr'.pc = "kill" /\ mgr'.job = mgr.job
        /\ mgr'.at = mgr.at /\ mgr'.seen = mgr.seen
    BY <1>1, <1>2, Goings DEF Stage
  <1>4. config' \in Config
    <2>1. config \in Config /\ symbols \in Fronts
      BY <1>2 DEF DayTyped
    <2>2. [front |-> symbols, whole |-> TRUE] \in Config
      BY <2>1 DEF Config
    <2> QED  BY <2>1, <2>2 DEF Merge, UpdateInstruments
  <1>5. SameFlags
    BY <1>2, NoFlags, FaultFlags DEF Merge
  <1>6. FreshFiles => FreshFiles'
    BY <1>1, <1>3, <1>5 DEF FreshFiles, PastSetup, Working, SameFlags
  <1>7. ~Troubled' => UpdateInstruments
    BY <1>2, FaultFlags DEF Merge
  <1>8. ~Troubled' /\ FreshFiles /\ FreshCollectors => FreshCollectors'
    <2>1. FreshFiles => \A u \in Underlying : symbols[u] >= day
      BY <1>1 DEF FreshFiles, Working
    <2>2. ~Troubled' /\ FreshFiles => Current(config)'
      BY <1>1, <1>7, <2>1 DEF UpdateInstruments, Current
    <2> QED  BY <1>1, <2>2 DEF FreshCollectors, Current
  <1>9. ~Troubled /\ ~today.caughtUp => RollsOver'
    BY <1>1, <1>3, <1>5 DEF DayInv, AtNight, RollsOver, Rolled, RolledOver, Working, SameFlags
  <1> QED  BY <1>1, <1>2, <1>3, <1>4, <1>5, <1>6, <1>8, <1>9, WorksOn DEF SameFlags

LEMMA KillDays ==
  ASSUME DayInv, KillCollector, UNCHANGED rec
  PROVE  DayInv'
  <1>1. /\ UNCHANGED <<day, phase, symbols, config, redis>> /\ mgr.pc = "kill"
        /\ collectors' = <<>> /\ Goes("launch")
        /\ today' = [today EXCEPT !.overlap = FALSE]
    BY DEF KillCollector, KilledAll, clockVars, fileVars
  <1>2. /\ DayTyped /\ phase # Off /\ mgr \in Manager /\ phase \in Nat /\ mgr.at <= phase
        /\ redis \in Keys /\ mgr.job \in Job /\ today \in Flags /\ config \in Config
    BY <1>1, Up DEF DayTyped
  <1>3. /\ mgr' \in Manager /\ mgr'.pc = "launch" /\ mgr'.job = mgr.job
        /\ mgr'.at = mgr.at /\ mgr'.seen = mgr.seen
    BY <1>1, <1>2, Goings DEF Stage
  <1>4. collectors' \in Seq(Config) /\ Len(collectors') = 0
    BY <1>1, EmptySeq
  <1>5. SameFlags
    BY <1>1, <1>2 DEF Flags, SameFlags, Troubled
  <1>6. FreshFiles => FreshFiles'
    BY <1>1, <1>3, <1>5 DEF FreshFiles, PastSetup, Working, SameFlags
  <1>7. FreshCollectors => FreshCollectors'
    BY <1>1, <1>3, <1>4 DEF FreshCollectors, Current
  <1>8. Troubled' <=> Troubled
    BY <1>1, <1>2 DEF Flags, Troubled
  <1>9. ~Troubled /\ ~today.caughtUp => RollsOver'
    BY <1>1, <1>3, <1>5 DEF DayInv, AtNight, RollsOver, Rolled, RolledOver, Working, SameFlags
  <1> QED  BY <1>1, <1>2, <1>3, <1>4, <1>5, <1>6, <1>7, <1>8, <1>9, WorksOn DEF SameFlags

\* The new collector reads the list as it is.
LEMMA LaunchDays ==
  ASSUME DayInv, LaunchesCollector
  PROVE  DayInv'
  <1>1. /\ UNCHANGED <<day, phase, symbols, config, redis, rec>> /\ mgr.pc = "launch"
        /\ collectors' = Append(collectors, config) /\ Goes("mark")
        /\ today' = [today EXCEPT !.overlap = @ \/ rec.pc = "launch"]
    BY DEF LaunchesCollector, LaunchCollector, clockVars, fileVars
  <1>2. /\ DayTyped /\ phase # Off /\ mgr \in Manager /\ phase \in Nat /\ mgr.at <= phase
        /\ redis \in Keys /\ mgr.job \in Job /\ today \in Flags /\ config \in Config
        /\ collectors \in Seq(Config)
    BY <1>1, Up DEF DayTyped
  <1>3. /\ mgr' \in Manager /\ mgr'.pc = "mark" /\ mgr'.job = mgr.job
        /\ mgr'.at = mgr.at /\ mgr'.seen = mgr.seen
    BY <1>1, <1>2, Goings DEF Stage
  <1>4. /\ collectors' \in Seq(Config)
        /\ \A i \in 1..Len(collectors') : collectors'[i] = config
               \/ (i \in 1..Len(collectors) /\ collectors'[i] = collectors[i])
    BY <1>1, <1>2, AppendProperties
  <1>5. SameFlags /\ (Troubled' <=> Troubled)
    <2>1. (today.overlap \/ rec.pc = "launch") \in BOOLEAN
      OBVIOUS
    <2> QED  BY <1>1, <1>2, <2>1 DEF Flags, SameFlags, Troubled
  <1>6. FreshFiles => FreshFiles'
    BY <1>1, <1>3, <1>5 DEF FreshFiles, PastSetup, Working, SameFlags
  <1>7. FreshCollectors => FreshCollectors'
    <2> SUFFICES ASSUME FreshCollectors PROVE FreshCollectors'
      OBVIOUS
    <2>1. Current(config) /\ Current(config)'
      BY <1>1 DEF FreshCollectors, Current
    <2>2. \A i \in 1..Len(collectors) : Current(collectors[i])
      BY DEF FreshCollectors
    <2>3. ASSUME NEW i \in 1..Len(collectors') PROVE Current(collectors[i])'
      BY <1>1, <1>4, <2>1, <2>2 DEF Current
    <2> QED  BY <2>1, <2>3 DEF FreshCollectors
  <1>8. ~Troubled /\ ~today.caughtUp => RollsOver'
    BY <1>1, <1>3, <1>5 DEF DayInv, AtNight, RollsOver, Rolled, RolledOver, Working, SameFlags
  <1> QED  BY <1>1, <1>2, <1>3, <1>4, <1>5, <1>6, <1>7, <1>8, WorksOn DEF SameFlags

LEMMA MarkDays ==
  ASSUME DayInv, MarkJob, UNCHANGED rec
  PROVE  DayInv'
  <1>1. /\ UNCHANGED <<day, phase, symbols, config, collectors, today>> /\ mgr.pc = "mark"
        /\ redis' = Marked(mgr.job) /\ Goes(AfterJob)
    BY DEF MarkJob, clockVars, fileVars
  <1>2. /\ DayTyped /\ phase # Off /\ mgr \in Manager /\ phase \in Nat /\ mgr.at <= phase
        /\ redis \in Keys /\ mgr.job \in Job /\ today \in Flags /\ config \in Config
        /\ collectors \in Seq(Config) /\ AfterJob \in Stage /\ AfterJob # "down" /\ mgr.at \in Nat
    BY <1>1, Up DEF DayTyped
  <1>3. /\ mgr' \in Manager /\ mgr'.pc = AfterJob /\ mgr'.job = mgr.job
        /\ mgr'.at = mgr.at /\ mgr'.seen = mgr.seen
    BY <1>1, <1>2, Goings
  <1>4. redis' \in Keys
    BY <1>1, <1>2 DEF Marked, Keys, Job
  <1>5. /\ mgr.job = "setup" => AfterJob = "reopen" /\ redis'.processed = "open" /\ redis'.updated = redis.updated
        /\ mgr.job # "setup" => AfterJob \in {"roll", "sync"} /\ redis'.processed = redis.processed
        /\ mgr.job = "roll" => AfterJob = "sync" /\ redis'.updated
        /\ mgr.job # "roll" => AfterJob # "sync" /\ redis'.updated = redis.updated
    BY <1>1, <1>2 DEF AfterJob, Marked, Keys, Job
  <1>6. SameFlags /\ (Troubled' <=> Troubled)
    BY <1>1, <1>2, NoFlags DEF Troubled
  <1>7. FreshFiles => FreshFiles'
    <2> SUFFICES ASSUME FreshFiles PROVE FreshFiles'
      OBVIOUS
    <2>1. \A u \in Underlying : symbols[u] >= day
      BY <1>1 DEF FreshFiles, Working
    <2>2. redis'.processed # "closed"
      BY <1>2, <1>5 DEF FreshFiles
    <2>3. (mgr.at >= Setup /\ PastSetup') \/ phase > Setup \/ (phase = Setup /\ today.loopedHere)
              => redis'.processed = "open"
      BY <1>1, <1>2, <1>3, <1>5 DEF FreshFiles, PastSetup, Working
    <2> QED  BY <1>1, <1>3, <2>1, <2>2, <2>3 DEF FreshFiles
  <1>8. FreshCollectors => FreshCollectors'
    BY <1>1, <1>3, <1>5 DEF FreshCollectors, Current
  <1>9. ASSUME ~Troubled, ~today.caughtUp PROVE RollsOver'
    <2>1. RollsOver
      BY <1>9 DEF DayInv, AtNight
    <2>2. mgr.job = "roll" => mgr.at = Evening /\ phase >= Evening /\ Rolled
      BY <1>1, <1>2, <2>1 DEF RollsOver, Working, Evening
    <2>3. redis'.updated => phase >= Evening /\ Rolled
      BY <1>5, <2>1, <2>2 DEF RollsOver
    <2> QED  BY <1>1, <1>3, <1>5, <2>1, <2>2, <2>3 DEF RollsOver, Rolled, RolledOver, Working
  <1> QED  BY <1>1, <1>2, <1>3, <1>4, <1>6, <1>7, <1>8, <1>9, WorksOn DEF SameFlags

-----------------------------------------------------------------------------
\* The loop ends, and sleeps: the part of the day has had its loop.
LEMMA SleepsDays ==
  ASSUME DayInv, UNCHANGED <<day, phase, symbols, config, collectors, rec>>, mgr.pc \in {"sync", "copy"},
         mgr' = Idle, redis' \in Keys, redis'.processed = redis.processed, redis'.updated = redis.updated,
         today' = Slept
  PROVE  DayInv'
  <1>1. /\ DayTyped /\ phase # Off /\ mgr \in Manager /\ phase \in Nat /\ mgr.at <= phase /\ mgr.at \in Nat
        /\ today \in Flags /\ config \in Config /\ collectors \in Seq(Config)
    BY Up DEF DayTyped
  <1>2. /\ today' \in Flags
        /\ today'.overwritten = today.overwritten /\ today'.caughtUp = today.caughtUp
        /\ today'.loopedHere <=> today.loopedHere \/ mgr.at = phase
        /\ Troubled => Troubled'
    BY <1>1, SleptFlags
  <1>3. Troubled' <=> Troubled
    BY <1>1 DEF Slept, Flags, Troubled
  <1>4. mgr' \in Manager /\ mgr'.pc = "asleep" /\ mgr'.at = Boot
    BY Idles
  <1>5. FreshFiles => FreshFiles'
    BY <1>1, <1>2, <1>4 DEF FreshFiles, PastSetup, Working, Boot, Setup
  <1>6. FreshCollectors => FreshCollectors'
    BY <1>4 DEF FreshCollectors, Current
  <1>7. ~Troubled /\ ~today.caughtUp => RollsOver'
    BY <1>1, <1>2, <1>4 DEF DayInv, AtNight, RollsOver, Rolled, RolledOver, Working, Boot, Evening
  <1>8. mgr'.at <= phase
    BY <1>1, <1>4 DEF Boot
  <1> QED  BY <1>1, <1>2, <1>3, <1>4, <1>5, <1>6, <1>7, <1>8, WorksOn

LEMMA SyncDays ==
  ASSUME DayInv, NoSync \/ SyncTrades \/ SyncEnds, UNCHANGED rec
  PROVE  DayInv'
  <1>1. UNCHANGED <<day, phase, symbols, config, collectors>> /\ mgr.pc \in {"sync", "copy"}
    BY DEF NoSync, SyncTrades, SyncEnds, clockVars, fileVars
  <1>2. /\ DayTyped /\ phase # Off /\ mgr \in Manager /\ phase \in Nat /\ mgr.at <= phase /\ mgr.at \in Nat
        /\ redis \in Keys /\ mgr.job \in Job /\ today \in Flags
        /\ rec.pc \in {"collector", "launch", "manager"} => today.overwritten
    BY <1>1, Up DEF DayTyped
  <1>3. CASE NoSync
    BY <1>1, <1>2, <1>3, SleepsDays DEF NoSync
  <1>4. CASE SyncTrades
    <2>1. UNCHANGED <<redis, today>> /\ mgr.pc = "sync" /\ Goes("copy")
      BY <1>4 DEF SyncTrades
    <2>2. /\ mgr' \in Manager /\ mgr'.pc = "copy" /\ mgr'.job = mgr.job
          /\ mgr'.at = mgr.at /\ mgr'.seen = mgr.seen
      BY <1>2, <2>1, Goings DEF Stage
    <2>3. SameFlags /\ (Troubled' <=> Troubled)
      BY <1>2, <2>1, NoFlags DEF Troubled
    <2>4. FreshFiles => FreshFiles'
      BY <1>1, <2>1, <2>2 DEF FreshFiles, PastSetup, Working
    <2>5. FreshCollectors => FreshCollectors'
      BY <1>1, <2>1, <2>2 DEF FreshCollectors, Current
    <2>6. ~Troubled /\ ~today.caughtUp => RollsOver'
      BY <1>1, <2>1, <2>2 DEF DayInv, AtNight, RollsOver, Rolled, RolledOver, Working
    <2> QED  BY <1>1, <1>2, <2>1, <2>2, <2>3, <2>4, <2>5, <2>6, GoesOn DEF SameFlags
  <1>5. CASE SyncEnds /\ redis' = [redis EXCEPT !.synced = TRUE] /\ today' = Slept
    <2>1. redis' \in Keys /\ redis'.processed = redis.processed /\ redis'.updated = redis.updated
      BY <1>2, <1>5 DEF Keys
    <2> QED  BY <1>1, <1>5, <2>1, SleepsDays DEF SyncEnds
  <1>6. CASE SyncEnds /\ Fault(Slept) /\ UNCHANGED redis
    <2>1. today' \in Flags /\ Troubled' /\ today'.overwritten = today.overwritten
      <3>1. (today.loopedHere \/ mgr.at = phase) \in BOOLEAN
        OBVIOUS
      <3> QED  BY <1>2, <1>6, <3>1 DEF Fault, Slept, Flags, Troubled
    <2>2. mgr' \in Manager /\ mgr'.at = Boot
      BY <1>6, Idles DEF SyncEnds
    <2>3. DayTyped'
      BY <1>1, <1>2, <1>6, <2>1, <2>2 DEF DayTyped
    <2> QED  BY <1>1, <1>2, <2>1, <2>2, <2>3, TroubledKeeps DEF Boot
  <1> QED  BY <1>3, <1>4, <1>5, <1>6 DEF SyncEnds

-----------------------------------------------------------------------------
\* The clock.  The machine begins at night with what the loop of the evening left.
LEMMA TickDays ==
  ASSUME DayInv, Tick
  PROVE  DayInv'
  <1>0. DayTyped /\ Awake /\ Morning /\ AtNight
    BY DEF DayInv
  <1>1. /\ UNCHANGED <<day, symbols, config>> /\ phase < Off /\ phase' = phase + 1 /\ Passes
        /\ today' = [today EXCEPT !.loopedHere = FALSE]
    BY DEF Tick, fileVars
  <1>2. /\ phase \in Boot..Evening /\ phase' \in Boot..Off /\ phase \in Nat /\ phase' \in Nat
        /\ mgr \in Manager /\ rec \in Recoverer /\ redis \in Keys /\ today \in Flags
        /\ collectors \in Seq(Config) /\ mgr.at <= phase /\ mgr.at \in Nat
        /\ day \in Nat \ {0}
        /\ rec.pc \in {"collector", "launch", "manager"} => today.overwritten
    BY <1>0, <1>1, DailyAssumption DEF DayTyped, Awake, Manager, Boot, Evening, Off
  <1>3. /\ today' \in Flags /\ ~today'.loopedHere /\ (Troubled' <=> Troubled)
        /\ today'.overwritten = today.overwritten /\ today'.caughtUp = today.caughtUp
    BY <1>1, <1>2 DEF Flags, Troubled
  <1>4. ~Troubled /\ phase \in Long => today.loopedHere
    BY <1>0, <1>1, <1>2 DEF Passes, Awake, Off, Evening
  <1>5. FreshFiles /\ phase > Setup => \A u \in Underlying : symbols[u] >= day
    BY DEF FreshFiles
  <1>6. CASE phase' = Off
    <2>1. /\ phase = Evening /\ mgr' = Dead /\ collectors' = <<>> /\ redis' = NoKeys
          /\ rec' = [rec EXCEPT !.pc = "idle", !.opts = Nothing]
      BY <1>1, <1>2, <1>6 DEF Tick, Evening, Off
    <2>2. /\ mgr' \in Manager /\ mgr'.pc = "down" /\ mgr'.at = Boot /\ mgr'.job = "setup"
          /\ rec' \in Recoverer /\ rec'.pc = "idle"
      BY <1>2, <2>1, Idles DEF Recoverer, RecoveryStage
    <2>3. redis' \in Keys /\ ~redis'.updated
      BY <2>1 DEF Keys, NoKeys
    <2>4. collectors' \in Seq(Config)
      BY <2>1, EmptySeq
    <2>5. DayTyped'
      BY <1>0, <1>1, <1>2, <1>3, <2>2, <2>3, <2>4 DEF DayTyped
    <2>6. Awake'
      BY <1>0, <1>1, <1>2, <1>3, <1>6, <2>1, <2>2 DEF Awake, Boot
    <2>7. Morning'
      BY <1>6 DEF Morning, Session, Off
    <2>8. ~Troubled /\ ~today.caughtUp => RolledOver
      BY <1>0, <1>4, <2>1 DEF AtNight, RollsOver, Long
    <2>9. ~Troubled /\ ~today.caughtUp => RollsOver'
      BY <1>1, <2>2, <2>3, <2>8 DEF RollsOver, RolledOver, Working, Boot, Evening
    <2>10. AtNight'
      BY <1>0, <1>1, <1>3, <2>1, <2>9 DEF AtNight, Session, Evening
    <2> QED  BY <2>5, <2>6, <2>7, <2>10 DEF DayInv
  <1>7. CASE phase' # Off
    <2>1. UNCHANGED <<mgr, collectors, redis, rec>> /\ phase # Evening
      BY <1>1, <1>7 DEF Tick, Evening, Off
    <2>2. DayTyped'
      BY <1>0, <1>1, <1>2, <1>3, <2>1 DEF DayTyped
    <2>3. Awake'
      BY <1>0, <1>1, <1>2, <1>3, <1>7, <2>1 DEF Awake, Off, Evening
    <2>4. ~Troubled /\ FreshFiles => FreshFiles'
      <3>1. ~Troubled /\ FreshFiles /\ phase = Setup => redis.processed = "open"
        BY <1>4 DEF FreshFiles, Long
      <3>2. phase' > Setup => phase > Setup \/ phase = Setup
        BY <1>1, <1>2 DEF Setup
      <3> QED  BY <1>1, <1>3, <2>1, <3>1, <3>2 DEF FreshFiles, PastSetup
    <2>5. FreshCollectors => FreshCollectors'
      BY <1>1, <2>1 DEF FreshCollectors, Current
    <2>6. Morning'
      BY <1>0, <1>1, <1>2, <1>3, <2>4, <2>5 DEF Morning, Session
    <2>7. ~Troubled /\ day \in Trading /\ phase' > Session => \A u \in Underlying : symbols[u] # 0
      <3>1. CASE phase > Session
        BY <1>0, <3>1 DEF AtNight
      <3>2. CASE phase <= Session
        <4>1. phase' > Session => phase = Session
          BY <1>1, <1>2, <3>2 DEF Session
        <4>2. ~Troubled /\ day \in Trading /\ phase = Session => \A u \in Underlying : symbols[u] >= day
          BY <1>0, <1>5 DEF Morning, Session, Setup
        <4>3. \A u \in Underlying : symbols[u] \in Nat
          BY <1>0, FrontsAreDays DEF DayTyped
        <4> QED  BY <1>2, <4>1, <4>2, <4>3
      <3> QED  BY <1>2, <3>1, <3>2 DEF Session
    <2>8. RollsOver => RollsOver'
      BY <1>1, <1>2, <1>3, <1>7, <2>1 DEF RollsOver, Rolled, RolledOver, Evening
    <2>9. AtNight'
      BY <1>0, <1>1, <1>3, <2>7, <2>8 DEF AtNight
    <2> QED  BY <2>2, <2>3, <2>6, <2>9 DEF DayInv
  <1> QED  BY <1>6, <1>7

LEMMA PowerDays ==
  ASSUME DayInv, PowerOn
  PROVE  DayInv'
  <1>0. DayTyped /\ Awake /\ phase = Off
    BY DEF DayInv, PowerOn
  <1>1. /\ UNCHANGED <<redis, symbols, config, collectors, rec>> /\ day' = day + 1 /\ phase' = Boot
        /\ mgr' = Idle /\ today' = [Untroubled EXCEPT !.blank = Empty(symbols)] /\ day < LastDay
    BY DEF PowerOn, fileVars
  <1>2. redis = NoKeys /\ rec.pc = "idle" /\ collectors = <<>>
    BY <1>0 DEF Awake
  <1>3. today' \in Flags /\ (Troubled' <=> Empty(symbols)) /\ ~today'.loopedHere
    <2>1. Empty(symbols) \in BOOLEAN
      BY DEF Empty
    <2> QED  BY <1>1, <2>1 DEF Flags, Untroubled, Troubled
  <1>4. mgr' \in Manager /\ mgr'.pc = "asleep" /\ mgr'.at = Boot
    BY <1>1, Idles
  <1>5. day' \in 1..LastDay /\ phase' \in Boot..Off
    BY <1>0, <1>1, DailyAssumption DEF DayTyped, Boot, Off
  <1>6. DayTyped'
    BY <1>0, <1>1, <1>3, <1>4, <1>5 DEF DayTyped
  <1>7. Awake'
    BY <1>1, <1>2, <1>3, <1>4 DEF Awake, Empty, Boot, Off
  <1>8. FreshFiles'
    BY <1>1, <1>2, <1>3, <1>4 DEF FreshFiles, NoKeys, Working, PastSetup, Boot, Setup
  <1>9. FreshCollectors'
    <2>1. Len(collectors') = 0
      BY <1>1, <1>2, EmptySeq
    <2> QED  BY <1>1, <1>2, <1>4, <2>1 DEF FreshCollectors, NoKeys
  <1>10. Morning'
    BY <1>8, <1>9 DEF Morning
  <1>11. AtNight'
    BY <1>1, <1>2, <1>3, <1>4 DEF AtNight, RollsOver, NoKeys, Working, Boot, Session, Evening, Off
  <1> QED  BY <1>6, <1>7, <1>10, <1>11 DEF DayInv

LEMMA InitDays == Init => DayInv
  <1> SUFFICES ASSUME Init PROVE DayInv  OBVIOUS
  <1>1. DayTyped /\ phase = Closed
    BY InitTyped DEF Init, DailyInit
  <1>2. /\ mgr = Idle /\ rec.pc = "idle" /\ redis = [NoKeys EXCEPT !.processed = "open", !.reopened = TRUE, !.chain = TRUE]
        /\ today = Untroubled
    BY DEF Init, DailyInit
  <1>3. \A u \in Underlying : symbols[u] # 0
    BY DailyAssumption DEF Init, DailyInit
  <1>4. Awake
    BY <1>1, <1>2, <1>3, Idles, DailyAssumption DEF Awake, Empty, Closed, Boot, Off
  <1>5. Morning
    BY <1>1 DEF Morning, Closed, Session
  <1>6. RollsOver
    BY <1>1, <1>2, Idles DEF RollsOver, NoKeys, Untroubled, Working, Closed, Evening, Off, Boot
  <1>7. AtNight
    BY <1>3, <1>6 DEF AtNight
  <1> QED  BY <1>1, <1>4, <1>5, <1>7 DEF DayInv

LEMMA NextDays == DayInv /\ [Next]_vars => DayInv'
  <1> SUFFICES ASSUME DayInv, [Next]_vars PROVE DayInv'  OBVIOUS
  <1>1. CASE UNCHANGED vars
    BY <1>1, QuietDays
  <1>2. CASE Tick \/ PowerOn
    BY <1>2, TickDays, PowerDays
  <1>3. CASE ManagerSteps
    <2>1. ManagerLoop /\ UNCHANGED rec
      BY <1>3 DEF ManagerSteps
    <2> QED
      BY <2>1, LookDays, SetupDays, ReopenDays, RolloverDays, FindDays, MergeDays, KillDays,
         MarkDays, SyncDays DEF ManagerLoop
  <1>4. CASE LaunchesCollector \/ Restarted \/ Recover
    BY <1>4, LaunchDays, TroubledDays, QuietDays
  <1>5. CASE Recovery
    BY <1>5, RecoveryDays, QuietDays, TroubledDays DEF Recovery
  <1>6. CASE Checks
    BY <1>6, QuietDays DEF Checks
  <1>7. CASE Troubles
    BY <1>7, QuietDays, TroubledDays DEF Troubles
  <1> QED  BY <1>1, <1>2, <1>3, <1>4, <1>5, <1>6, <1>7 DEF Next

\* On a trading day without failures the manager has chosen contracts that are
\* still valid by 9:15, and the machine is switched off with the contracts rolled
\* over, but for what an earlier rollover of the day or a holiday left behind
\* (expiry_manager.py triggers 1 and 2).
THEOREM ReadyEveryMorning == Spec => []ReadyAtOpen
  <1>1. DayInv => ReadyAtOpen
    <2> SUFFICES ASSUME DayInv, ~Troubled
                 PROVE  /\ InSession /\ day \in Trading =>
                               redis.processed = "open" /\ \A u \in Underlying : symbols[u] >= day
                        /\ phase = Off /\ ~today.caughtUp => RolledOver
      BY DEF ReadyAtOpen, RolledOver
    <2>1. InSession /\ day \in Trading => FreshFiles
      BY DEF DayInv, Morning, InSession, Session
    <2> QED  BY <2>1 DEF DayInv, AtNight, RollsOver, FreshFiles, InSession, Session, Setup
  <1> QED  BY <1>1, InitDays, NextDays, PTL DEF Spec

\* A collector that runs in the session subscribes to no expired front contracts,
\* and to the whole universe, unless a recovery of that day wrote its own list
\* (update_instruments.py, recover_services.py 4).
THEOREM SubscribesFresh == Spec => []SubscribesCurrent
  <1>1. DayInv => SubscribesCurrent
    BY DEF DayInv, Morning, FreshCollectors, Current, SubscribesCurrent, InSession, Session
  <1> QED  BY <1>1, InitDays, NextDays, PTL DEF Spec
=============================================================================
