---------------------------- MODULE CandleProofs ----------------------------
(***************************************************************************)
(* Proofs about the two places where candles are made, each for every      *)
(* value of the constants.                                                 *)
(*                                                                         *)
(* The collector and its reconciler: on a feed that keeps its order, no    *)
(* candle ever holds a tick of another interval: for every number of       *)
(* ticks, minutes and workers, every length of the parent candle, and      *)
(* whatever is lost, restarted or not answered.  The collector decides by  *)
(* comparison whether a tick belongs to the candle in memory.  That is     *)
(* right because nothing in memory or in the index is ever ahead of the    *)
(* ticks still to come, whoever wrote it.                                  *)
(*                                                                         *)
(* The replay of a recorded day: for every recording, time window, slice   *)
(* length, size of the pipeline and list of timeframes, every row is fed   *)
(* once, Redis shows the bars of the rows, and the strategy trades what    *)
(* the tape had shown by then.                                             *)
(***************************************************************************)
EXTENDS CandleHealing, MarketReplay, SequenceTheorems, FiniteSetTheorems, InductionTheorems, TLAPS

-----------------------------------------------------------------------------
(* The collector and the reconciler.                                       *)

\* Ticks the collector may still fold into a candle.
Coming == {i \in Tick : i > traded \/ (todo # <<>> /\ i = tick)}

NotAhead(m)       == \A i \in Coming : m <= MinuteOf[i]
ParentNotAhead(p) == \A i \in Coming : p <= ParentOf(MinuteOf[i])

FeedInv ==
    /\ traded \in Nat /\ delayed = {}
    /\ todo # <<>> => tick \in Tick /\ tick <= traded

BookInv ==
    /\ DOMAIN minutes = Minute /\ DOMAIN parents = Parent
    /\ \A m \in Minute :
          /\ {"ticks", "opened"} \subseteq DOMAIN minutes[m]
          /\ minutes[m].ticks \subseteq TicksOf(m)
          /\ minutes[m].opened => NotAhead(m)
    /\ \A p \in Parent :
          /\ {"ticks", "opened"} \subseteq DOMAIN parents[p]
          /\ parents[p].ticks \subseteq TicksIn(p)
          /\ parents[p].opened => ParentNotAhead(p)

ActiveInv ==
    /\ {"at", "ticks"} \subseteq DOMAIN minuteNow
    /\ {"at", "ticks"} \subseteq DOMAIN parentNow
    /\ minuteNow # NoActive =>
          minuteNow.at \in Minute /\ NotAhead(minuteNow.at)
    /\ parentNow # NoActive =>
          parentNow.at \in Parent /\ ParentNotAhead(parentNow.at)
    /\ minuteNow.ticks \subseteq TicksOf(minuteNow.at)
    /\ parentNow.ticks \subseteq TicksIn(parentNow.at)

WorkInv ==
    /\ inbox \subseteq Minute
    /\ \A m \in inbox : NotAhead(m)
    /\ DOMAIN jobs = JobId
    /\ \A j \in JobId :
          /\ jobs[j].at # "none" => NotAhead(j[1])
          /\ jobs[j].at \in {"compare", "stamp", "heal"} =>
                jobs[j].ticks \subseteq TicksOf(j[1])
          /\ jobs[j].at = "store" =>
                jobs[j].ticks \subseteq TicksIn(ParentOf(j[1]))

Inv == FeedInv /\ BookInv /\ ActiveInv /\ WorkInv

-----------------------------------------------------------------------------
\* Minutes and the parents they belong to are numbered from 0 in time order.
LEMMA Numbering ==
  /\ Minute \subseteq Nat /\ Parent \subseteq Nat
  /\ \A i \in Tick : MinuteOf[i] \in Minute
  /\ \A m \in Minute : ParentOf(m) \in Parent
  /\ \A m, n \in Minute : m <= n => ParentOf(m) <= ParentOf(n)
  /\ \A i, j \in Tick : i <= j => MinuteOf[i] <= MinuteOf[j]
  <1>1. Minute \subseteq Nat  BY BookAssumption DEF Minute
  <1>2. \A m, n \in Minute : m <= n => ParentOf(m) <= ParentOf(n)
    BY <1>1, BookAssumption DEF ParentOf
  <1>3. \A m \in Minute : ParentOf(m) \in Nat
    BY <1>1, BookAssumption DEF ParentOf
  <1> QED  BY <1>1, <1>2, <1>3, BookAssumption DEF Parent, ParentOf, Tick

\* The ticks to come only become fewer, on a feed that delays none.
LEMMA ComingShrinks ==
  ASSUME MaxDelayed = 0, FeedInv, Collector \/ Correction
  PROVE  Coming' \subseteq Coming /\ FeedInv'
  <1> USE DEF FeedInv, Coming, Tick, memory
  <1>1. CASE Collector
    <2>1. CASE Receive  BY <2>1, BookAssumption DEF Receive
    <2>2. CASE Lose  BY <2>2, BookAssumption DEF Lose
    <2>3. CASE Delay
      BY <2>3, FS_EmptySet DEF Delay
    <2>4. CASE ReceiveLate  BY <2>4 DEF ReceiveLate
    <2>5. CASE CountVolume  BY <2>5 DEF CountVolume, Due
    <2>6. CASE Publish(listening)  BY <2>6 DEF Publish, Due
    <2>7. CASE FoldMinute  BY <2>7 DEF FoldMinute, Due
    <2>8. CASE FoldParent  BY <2>8 DEF FoldParent, Due
    <2>9. CASE RestartManager  BY <2>9 DEF RestartManager
    <2> QED  BY <1>1, <2>1, <2>2, <2>3, <2>4, <2>5, <2>6, <2>7, <2>8, <2>9
             DEF Collector, ManagerNext
  <1>2. CASE Correction
    <2>1. UNCHANGED traded
      BY <1>2 DEF Correction, ReconcilerNext, Take, Work, Ask, Compare, Stamp,
                  Heal, Gather, Store, Die, CatchUp, Subscribe
    <2> QED  BY <1>2, <2>1 DEF Correction, manager
  <1> QED  BY <1>1, <1>2

\* So what was not ahead of them is not ahead after any step.
LEMMA StaysBehind ==
  ASSUME Coming' \subseteq Coming
  PROVE  /\ \A m : NotAhead(m) => NotAhead(m)'
         /\ \A p : ParentNotAhead(p) => ParentNotAhead(p)'
  BY DEF NotAhead, ParentNotAhead

\* The interval of the tick in hand is not ahead of the ticks to come.
LEMMA TickIsNotAhead ==
  ASSUME FeedInv, todo # <<>>
  PROVE  /\ tick \in Coming /\ TheMinute \in Minute /\ TheParent \in Parent
         /\ NotAhead(TheMinute) /\ ParentNotAhead(TheParent)
  <1>1. tick \in Coming /\ tick \in Tick  BY DEF FeedInv, Coming
  <1>2. \A i \in Coming : i \in Tick /\ tick <= i
    BY <1>1 DEF FeedInv, Coming, Tick
  <1>3. \A i \in Coming : TheMinute <= MinuteOf[i]
    BY <1>1, <1>2, Numbering DEF TheMinute
  <1>4. \A i \in Coming : TheParent <= ParentOf(MinuteOf[i])
    BY <1>1, <1>2, <1>3, Numbering DEF TheMinute, TheParent
  <1> QED  BY <1>1, <1>3, <1>4, Numbering
           DEF TheMinute, TheParent, NotAhead, ParentNotAhead

\* A candle in memory that is not ahead of the tick, folded with it, is the
\* candle of the tick's interval: it holds no other ticks.
LEMMA FoldIsOwn ==
  ASSUME NEW active, NEW t \in Nat, NEW S,
         {"at", "ticks"} \subseteq DOMAIN active,
         active.at = -1 \/ (active.at \in Nat /\ active.at <= t),
         active.at = t => active.ticks \subseteq S,
         tick \in S
  PROVE  /\ {"at", "ticks"} \subseteq DOMAIN Fold(active, t)
         /\ Fold(active, t).at = t
         /\ Fold(active, t).ticks \subseteq S
  <1>1. CASE active.at < t  BY <1>1 DEF Fold
  <1>2. CASE ~(active.at < t)
    <2>1. active.at = t  BY <1>2
    <2>2. Fold(active, t) =
             [active EXCEPT !.ticks = @ \cup {tick}, !.vol = @ + inc]
      BY <1>2 DEF Fold
    <2>3. /\ DOMAIN Fold(active, t) = DOMAIN active
          /\ Fold(active, t).at = active.at
          /\ Fold(active, t).ticks = active.ticks \cup {tick}
      BY <2>2
    <2> QED  BY <2>1, <2>3
  <1> QED  BY <1>1, <1>2

-----------------------------------------------------------------------------
LEMMA NothingActive ==
  /\ {"at", "ticks"} \subseteq DOMAIN NoActive
  /\ NoActive.at = -1 /\ NoActive.ticks = {}
  BY DEF NoActive

LEMMA InitInv == Init => Inv
  <1> SUFFICES ASSUME Init PROVE Inv  OBVIOUS
  <1> USE DEF Init, ManagerInit, ReconcilerInit
  <1>1. FeedInv  BY DEF FeedInv
  <1>2. BookInv
    <2> USE DEF Absent
    <2>1. DOMAIN minutes = Minute /\ DOMAIN parents = Parent  OBVIOUS
    <2>2. /\ \A m \in Minute : minutes[m] = Absent
          /\ \A p \in Parent : parents[p] = Absent
      OBVIOUS
    <2>3. {"ticks", "opened"} \subseteq DOMAIN Absent  OBVIOUS
    <2>4. Absent.ticks = {} /\ ~Absent.opened  OBVIOUS
    <2> HIDE DEF Absent, Init
    <2> QED  BY <2>1, <2>2, <2>3, <2>4 DEF BookInv
  <1>3. ActiveInv
    <2>1. minuteNow = NoActive /\ parentNow = NoActive  OBVIOUS
    <2> HIDE DEF Init
    <2> QED  BY <2>1, NothingActive DEF ActiveInv
  <1>4. WorkInv
    <2>1. inbox = {} /\ DOMAIN jobs = JobId  OBVIOUS
    <2>2. \A j \in JobId : jobs[j].at = "none"  BY DEF NoJob
    <2> HIDE DEF Init, ManagerInit, ReconcilerInit
    <2> QED  BY <2>1, <2>2 DEF WorkInv
  <1> QED  BY <1>1, <1>2, <1>3, <1>4 DEF Inv

\* A step that leaves the candles and the jobs alone keeps them in order.
LEMMA Untouched ==
  ASSUME Inv, FeedInv', Coming' \subseteq Coming,
         UNCHANGED <<redis, minuteNow, parentNow, jobs>>,
         inbox' \subseteq inbox \cup {minuteNow.at},
         inbox' # inbox => minuteNow.at \in Minute
  PROVE  Inv'
  <1>1. BookInv'  BY StaysBehind DEF Inv, BookInv, redis
  <1>2. ActiveInv'  BY StaysBehind DEF Inv, ActiveInv
  <1>3. WorkInv'
    <2>1. minuteNow.at \in Minute => NotAhead(minuteNow.at)
      <3>1. minuteNow.at \in Minute => minuteNow # NoActive
        BY Numbering, NothingActive
      <3> QED  BY <3>1 DEF Inv, ActiveInv
    <2>2. \A m \in inbox' : m \in Minute /\ NotAhead(m)
      BY <2>1 DEF Inv, WorkInv
    <2>3. inbox' \subseteq Minute /\ \A m \in inbox' : NotAhead(m)'
      BY <2>2, StaysBehind
    <2> QED  BY <2>3, StaysBehind DEF Inv, WorkInv
  <1> QED  BY <1>1, <1>2, <1>3 DEF Inv

\* The collector's steps.
LEMMA CollectorInv ==
  ASSUME MaxDelayed = 0, Inv, Collector
  PROVE  Inv'
  <1> USE DEF memory, reconciler
  <1>0. Coming' \subseteq Coming /\ FeedInv'  BY ComingShrinks DEF Inv
  <1>r. UNCHANGED jobs  BY DEF Collector
  <1>1. CASE Receive  BY <1>0, <1>r, <1>1, Untouched DEF Receive
  <1>2. CASE Lose  BY <1>0, <1>r, <1>2, Untouched DEF Lose
  <1>3. CASE Delay  BY <1>0, <1>r, <1>3, Untouched DEF Delay
  <1>4. CASE ReceiveLate  BY <1>0, <1>r, <1>4, Untouched DEF ReceiveLate
  <1>5. CASE CountVolume  BY <1>0, <1>r, <1>5, Untouched DEF CountVolume
  <1>6. CASE Publish(listening)
    <2>1. /\ inbox' \subseteq inbox \cup {minuteNow.at}
          /\ inbox' # inbox => minuteNow # NoActive
      BY <1>6 DEF Publish, Closes
    <2>2. inbox' # inbox => minuteNow.at \in Minute
      BY <2>1 DEF Inv, ActiveInv
    <2> QED  BY <1>0, <1>r, <1>6, <2>1, <2>2, Untouched DEF Publish
  <1>7. CASE FoldMinute
    <2>0. PICK t \in Minute : t = TheMinute
      BY <1>7, TickIsNotAhead DEF Inv, FoldMinute, Due
    <2> DEFINE new == Fold(minuteNow, t)
    <2>1. /\ todo # <<>> /\ minuteNow' = new
          /\ minutes' = [minutes EXCEPT ![t] = Written(@, minuteNow, t)]
          /\ UNCHANGED <<parents, inbox, parentNow>>
      BY <1>7, <2>0 DEF FoldMinute, Due
    <2>2. /\ tick \in Coming /\ t \in Minute /\ t \in Nat /\ NotAhead(t)
      BY <2>0, <2>1, TickIsNotAhead, Numbering DEF Inv
    <2>3. tick \in TicksOf(t)  BY <2>0, <2>2 DEF TicksOf, Coming, TheMinute
    <2>4. minuteNow.at = -1 \/ (minuteNow.at \in Nat /\ minuteNow.at <= t)
      <3>1. CASE minuteNow = NoActive  BY <3>1, NothingActive
      <3>2. CASE minuteNow # NoActive
        BY <2>0, <2>2, <3>2, Numbering DEF Inv, ActiveInv, NotAhead, TheMinute
      <3> QED  BY <3>1, <3>2
    <2>5. /\ {"at", "ticks"} \subseteq DOMAIN new
          /\ new.at = t /\ new.ticks \subseteq TicksOf(t)
      BY <2>2, <2>3, <2>4, FoldIsOwn DEF Inv, ActiveInv
    <2>6. /\ {"ticks", "opened"} \subseteq DOMAIN Written(minutes[t], minuteNow, t)
          /\ Written(minutes[t], minuteNow, t).ticks = new.ticks
      BY DEF Written
    <2> HIDE DEF new
    <2>7. BookInv'
      <3>1. DOMAIN minutes' = Minute /\ DOMAIN parents' = Parent
        BY <2>1 DEF Inv, BookInv
      <3>2. /\ minutes'[t] = Written(minutes[t], minuteNow, t)
            /\ \A m \in Minute : m # t => minutes'[m] = minutes[m]
        BY <2>1, <2>2 DEF Inv, BookInv
      <3>3. NotAhead(t)'  BY <1>0, <2>2, StaysBehind
      <3>4. \A m \in Minute :
               /\ {"ticks", "opened"} \subseteq DOMAIN minutes'[m]
               /\ minutes'[m].ticks \subseteq TicksOf(m)
               /\ minutes'[m].opened => NotAhead(m)'
        BY <1>0, <2>5, <2>6, <3>2, <3>3, StaysBehind DEF Inv, BookInv
      <3>5. \A p \in Parent :
               /\ {"ticks", "opened"} \subseteq DOMAIN parents'[p]
               /\ parents'[p].ticks \subseteq TicksIn(p)
               /\ parents'[p].opened => ParentNotAhead(p)'
        BY <1>0, <2>1, StaysBehind DEF Inv, BookInv
      <3> QED  BY <3>1, <3>4, <3>5 DEF BookInv
    <2>8. ActiveInv'
      <3>1. NotAhead(t)'  BY <1>0, <2>2, StaysBehind
      <3> QED  BY <1>0, <2>1, <2>2, <2>5, <3>1, StaysBehind DEF Inv, ActiveInv
    <2>9. WorkInv'  BY <1>0, <1>r, <2>1, StaysBehind DEF Inv, WorkInv
    <2> QED  BY <1>0, <2>7, <2>8, <2>9 DEF Inv
  <1>8. CASE FoldParent
    <2>0. PICK t \in Parent : t = TheParent
      BY <1>8, TickIsNotAhead DEF Inv, FoldParent, Due
    <2> DEFINE new == Fold(parentNow, t)
    <2>1. /\ todo # <<>> /\ parentNow' = new
          /\ parents' = [parents EXCEPT ![t] = Written(@, parentNow, t)]
          /\ UNCHANGED <<minutes, inbox, minuteNow>>
      BY <1>8, <2>0 DEF FoldParent, Due
    <2>2. /\ tick \in Coming /\ t \in Parent /\ t \in Nat /\ ParentNotAhead(t)
      BY <2>0, <2>1, TickIsNotAhead, Numbering DEF Inv
    <2>3. tick \in TicksIn(t)  BY <2>0, <2>2 DEF TicksIn, Coming, TheParent
    <2>4. parentNow.at = -1 \/ (parentNow.at \in Nat /\ parentNow.at <= t)
      <3>1. CASE parentNow = NoActive  BY <3>1, NothingActive
      <3>2. CASE parentNow # NoActive
        BY <2>0, <2>2, <3>2, Numbering DEF Inv, ActiveInv, ParentNotAhead, TheParent
      <3> QED  BY <3>1, <3>2
    <2>5. /\ {"at", "ticks"} \subseteq DOMAIN new
          /\ new.at = t /\ new.ticks \subseteq TicksIn(t)
      BY <2>2, <2>3, <2>4, FoldIsOwn DEF Inv, ActiveInv
    <2>6. /\ {"ticks", "opened"} \subseteq DOMAIN Written(parents[t], parentNow, t)
          /\ Written(parents[t], parentNow, t).ticks = new.ticks
      BY DEF Written
    <2> HIDE DEF new
    <2>7. BookInv'
      <3>1. DOMAIN minutes' = Minute /\ DOMAIN parents' = Parent
        BY <2>1 DEF Inv, BookInv
      <3>2. /\ parents'[t] = Written(parents[t], parentNow, t)
            /\ \A p \in Parent : p # t => parents'[p] = parents[p]
        BY <2>1, <2>2 DEF Inv, BookInv
      <3>3. ParentNotAhead(t)'  BY <1>0, <2>2, StaysBehind
      <3>4. \A p \in Parent :
               /\ {"ticks", "opened"} \subseteq DOMAIN parents'[p]
               /\ parents'[p].ticks \subseteq TicksIn(p)
               /\ parents'[p].opened => ParentNotAhead(p)'
        BY <1>0, <2>5, <2>6, <3>2, <3>3, StaysBehind DEF Inv, BookInv
      <3>5. \A m \in Minute :
               /\ {"ticks", "opened"} \subseteq DOMAIN minutes'[m]
               /\ minutes'[m].ticks \subseteq TicksOf(m)
               /\ minutes'[m].opened => NotAhead(m)'
        BY <1>0, <2>1, StaysBehind DEF Inv, BookInv
      <3> QED  BY <3>1, <3>4, <3>5 DEF BookInv
    <2>8. ActiveInv'
      <3>1. ParentNotAhead(t)'  BY <1>0, <2>2, StaysBehind
      <3> QED  BY <1>0, <2>1, <2>2, <2>5, <3>1, StaysBehind DEF Inv, ActiveInv
    <2>9. WorkInv'  BY <1>0, <1>r, <2>1, StaysBehind DEF Inv, WorkInv
    <2> QED  BY <1>0, <2>7, <2>8, <2>9 DEF Inv
  <1>9. CASE RestartManager
    <2>1. /\ minuteNow' \in Loaded(minutes) /\ parentNow' \in Loaded(parents)
          /\ UNCHANGED <<minutes, parents, inbox>>
      BY <1>9 DEF RestartManager, redis
    <2>2. BookInv'  BY <1>0, <2>1, StaysBehind DEF Inv, BookInv
    <2>3. /\ {"at", "ticks"} \subseteq DOMAIN minuteNow'
          /\ minuteNow'.ticks \subseteq TicksOf(minuteNow'.at)
          /\ minuteNow' # NoActive => minuteNow'.at \in Minute /\ NotAhead(minuteNow'.at)
      <3>1. CASE minuteNow' = NoActive  BY <3>1, NothingActive
      <3>2. CASE minuteNow' # NoActive
        <4>1. PICK u \in Indexed(minutes) :
                 minuteNow' = [at |-> u, ticks |-> minutes[u].ticks,
                               vol |-> minutes[u].vol]
          BY <2>1, <3>2 DEF Loaded, Newest
        <4>2. u \in Minute /\ minutes[u].opened
          BY DEF Indexed, Inv, BookInv
        <4> QED  BY <4>1, <4>2 DEF Inv, BookInv
      <3> QED  BY <3>1, <3>2
    <2>4. /\ {"at", "ticks"} \subseteq DOMAIN parentNow'
          /\ parentNow'.ticks \subseteq TicksIn(parentNow'.at)
          /\ parentNow' # NoActive => parentNow'.at \in Parent /\ ParentNotAhead(parentNow'.at)
      <3>1. CASE parentNow' = NoActive  BY <3>1, NothingActive
      <3>2. CASE parentNow' # NoActive
        <4>1. PICK u \in Indexed(parents) :
                 parentNow' = [at |-> u, ticks |-> parents[u].ticks,
                               vol |-> parents[u].vol]
          BY <2>1, <3>2 DEF Loaded, Newest
        <4>2. u \in Parent /\ parents[u].opened
          BY DEF Indexed, Inv, BookInv
        <4> QED  BY <4>1, <4>2 DEF Inv, BookInv
      <3> QED  BY <3>1, <3>2
    <2>5. ActiveInv'  BY <1>0, <2>3, <2>4, StaysBehind DEF ActiveInv
    <2>6. WorkInv'  BY <1>0, <1>r, <2>1, StaysBehind DEF Inv, WorkInv
    <2> QED  BY <1>0, <2>2, <2>5, <2>6 DEF Inv
  <1> QED  BY <1>1, <1>2, <1>3, <1>4, <1>5, <1>6, <1>7, <1>8, <1>9
           DEF Collector, ManagerNext

-----------------------------------------------------------------------------
\* A job that moves on keeps the jobs in order when the minute it is for is
\* not ahead and what it holds are ticks of that minute, or of its parent.
LEMMA MoveInv ==
  ASSUME Inv, Coming' \subseteq Coming,
         NEW j \in JobId, NEW at, NEW ticks, NEW vol,
         Moves(j, at, ticks, vol), inbox' \subseteq inbox, NotAhead(j[1]),
         at \in {"compare", "stamp", "heal"} => ticks \subseteq TicksOf(j[1]),
         at = "store" => ticks \subseteq TicksIn(ParentOf(j[1]))
  PROVE  WorkInv'
  <1>1. /\ DOMAIN jobs' = JobId
        /\ jobs'[j] = [at |-> at, ticks |-> ticks, vol |-> vol]
        /\ \A k \in JobId : k # j => jobs'[k] = jobs[k]
    BY DEF Moves, Inv, WorkInv
  <1>2. jobs'[j].at = at /\ jobs'[j].ticks = ticks  BY <1>1
  <1>3. \A k \in JobId :
           /\ jobs'[k].at # "none" => NotAhead(k[1])'
           /\ jobs'[k].at \in {"compare", "stamp", "heal"} =>
                 jobs'[k].ticks \subseteq TicksOf(k[1])
           /\ jobs'[k].at = "store" =>
                 jobs'[k].ticks \subseteq TicksIn(ParentOf(k[1]))
    BY <1>1, <1>2, StaysBehind DEF Inv, WorkInv
  <1>4. inbox' \subseteq Minute /\ \A m \in inbox' : NotAhead(m)'
    BY StaysBehind DEF Inv, WorkInv
  <1> QED  BY <1>1, <1>3, <1>4 DEF WorkInv

\* The reconciler's steps.
LEMMA CorrectionInv ==
  ASSUME MaxDelayed = 0, Inv, Correction
  PROVE  Inv'
  <1>0. Coming' \subseteq Coming /\ FeedInv'  BY ComingShrinks DEF Inv
  <1>a. ActiveInv'
    BY <1>0, StaysBehind DEF Inv, ActiveInv, Correction, manager, memory
  <1>b. ASSUME UNCHANGED redis PROVE BookInv'
    BY <1>0, <1>b, StaysBehind DEF Inv, BookInv, redis
  <1>1. CASE \E m \in Minute : Take(m)
    <2>1. PICK m \in Minute : Take(m)  BY <1>1
    <2>2. <<m, "trigger">> \in JobId /\ <<m, "trigger">>[1] = m
      BY DEF JobId, Origin
    <2>3. NotAhead(m) /\ inbox' \subseteq inbox
      BY <2>1 DEF Take, Inv, WorkInv
    <2>4. WorkInv'  BY <1>0, <2>1, <2>2, <2>3, MoveInv DEF Take
    <2> QED  BY <1>0, <1>a, <1>b, <2>1, <2>4 DEF Take, Inv
  <1>2. CASE \E j \in JobId : Work(j)
    <2>1. PICK j \in JobId : Work(j)  BY <1>2
    <2>2. /\ j[1] \in Minute
          /\ jobs[j].at # "none" => NotAhead(j[1])
          /\ jobs[j].at \in {"compare", "stamp", "heal"} =>
                jobs[j].ticks \subseteq TicksOf(j[1])
          /\ jobs[j].at = "store" =>
                jobs[j].ticks \subseteq TicksIn(ParentOf(j[1]))
      BY DEF Inv, WorkInv, JobId
    <2>3. CASE Ask(j)
      <3>1. NotAhead(j[1])  BY <2>2, <2>3 DEF Ask
      <3>2. Reported(j[1], traded) \subseteq TicksOf(j[1])  BY DEF Reported
      <3>3. \/ Moves(j, "compare", Reported(j[1], traded),
                     Cardinality(Reported(j[1], traded)))
            \/ Moves(j, "failed", {}, 0)
        BY <2>3 DEF Ask
      <3>4. inbox' = inbox /\ UNCHANGED redis  BY <2>3 DEF Ask
      <3>5. WorkInv'  BY <1>0, <3>1, <3>2, <3>3, <3>4, MoveInv
      <3> QED  BY <1>0, <1>a, <1>b, <3>4, <3>5 DEF Inv
    <2>4. CASE Compare(j)
      <3>1. NotAhead(j[1]) /\ jobs[j].ticks \subseteq TicksOf(j[1])
        BY <2>2, <2>4 DEF Compare
      <3>2. inbox' = inbox /\ UNCHANGED redis  BY <2>4 DEF Compare
      <3>3. WorkInv'  BY <1>0, <2>4, <3>1, <3>2, MoveInv DEF Compare
      <3> QED  BY <1>0, <1>a, <1>b, <3>2, <3>3 DEF Inv
    <2>5. CASE Stamp(j)
      <3>1. NotAhead(j[1])  BY <2>2, <2>5 DEF Stamp
      <3>2. WorkInv'  BY <1>0, <2>5, <3>1, MoveInv DEF Stamp
      <3>3. /\ DOMAIN minutes' = Minute /\ parents' = parents
            /\ \A m \in Minute :
                  /\ DOMAIN minutes'[m] = DOMAIN minutes[m]
                  /\ minutes'[m].ticks = minutes[m].ticks
                  /\ minutes'[m].opened = minutes[m].opened
        <4>1. minutes' = [minutes EXCEPT ![j[1]].status = "reconciled"]
          BY <2>5 DEF Stamp
        <4>2. /\ minutes'[j[1]] = [minutes[j[1]] EXCEPT !.status = "reconciled"]
              /\ \A m \in Minute : m # j[1] => minutes'[m] = minutes[m]
          BY <2>2, <4>1 DEF Inv, BookInv
        <4>3. {"ticks", "opened"} \subseteq DOMAIN minutes[j[1]]
          BY <2>2 DEF Inv, BookInv
        <4>4. /\ DOMAIN minutes'[j[1]] = DOMAIN minutes[j[1]]
              /\ minutes'[j[1]].ticks = minutes[j[1]].ticks
              /\ minutes'[j[1]].opened = minutes[j[1]].opened
          BY <4>2, <4>3
        <4> QED  BY <2>5, <4>1, <4>2, <4>4 DEF Stamp, Inv, BookInv
      <3>4. BookInv'  BY <1>0, <3>3, StaysBehind DEF Inv, BookInv
      <3> QED  BY <1>0, <1>a, <3>2, <3>4 DEF Inv
    <2>6. CASE Heal(j)
      <3>1. NotAhead(j[1]) /\ jobs[j].ticks \subseteq TicksOf(j[1])
        BY <2>2, <2>6 DEF Heal
      <3>2. WorkInv'  BY <1>0, <2>6, <3>1, MoveInv DEF Heal
      <3> DEFINE c == [ticks |-> jobs[j].ticks, vol |-> jobs[j].vol,
                       opened |-> TRUE, status |-> "reconciled"]
      <3>3. /\ DOMAIN minutes' = Minute /\ parents' = parents
            /\ minutes'[j[1]] = c
            /\ \A m \in Minute : m # j[1] => minutes'[m] = minutes[m]
        BY <2>2, <2>6 DEF Heal, Inv, BookInv
      <3>4. {"ticks", "opened"} \subseteq DOMAIN c /\ c.ticks = jobs[j].ticks
        OBVIOUS
      <3> HIDE DEF c
      <3>5. BookInv'
        BY <1>0, <3>1, <3>3, <3>4, StaysBehind DEF Inv, BookInv
      <3> QED  BY <1>0, <1>a, <3>2, <3>5 DEF Inv
    <2>7. CASE Gather(j)
      <3> DEFINE siblings == {m \in MinutesIn(ParentOf(j[1])) : minutes[m] # Absent}
                 all == UNION {minutes[m].ticks : m \in siblings}
                 sum == MapThenSumSet(LAMBDA m : minutes[m].vol, siblings)
      <3>1. NotAhead(j[1])  BY <2>2, <2>7 DEF Gather
      <3>2. all \subseteq TicksIn(ParentOf(j[1]))
        BY DEF Inv, BookInv, MinutesIn, TicksOf, TicksIn
      <3>3. inbox' = inbox /\ UNCHANGED redis  BY <2>7 DEF Gather
      <3>4. Moves(j, "failed", {}, 0) \/ Moves(j, "store", all, sum)
        BY <2>7 DEF Gather
      <3> HIDE DEF all, sum, siblings
      <3>5. WorkInv'  BY <1>0, <3>1, <3>2, <3>3, <3>4, MoveInv
      <3> QED  BY <1>0, <1>a, <1>b, <3>3, <3>5 DEF Inv
    <2>8. CASE Store(j)
      <3>1. NotAhead(j[1]) /\ jobs[j].ticks \subseteq TicksIn(ParentOf(j[1]))
        BY <2>2, <2>8 DEF Store
      <3>2. WorkInv'  BY <1>0, <2>8, <3>1, MoveInv DEF Store
      <3> DEFINE c == [ticks |-> jobs[j].ticks, vol |-> jobs[j].vol,
                       opened |-> TRUE, status |-> "reconciled"]
                 q == ParentOf(j[1])
      <3>3. q \in Parent  BY <2>2, Numbering
      <3>4. /\ DOMAIN parents' = Parent /\ minutes' = minutes
            /\ parents'[q] = c
            /\ \A p \in Parent : p # q => parents'[p] = parents[p]
        BY <2>8, <3>3 DEF Store, Inv, BookInv
      <3>5. {"ticks", "opened"} \subseteq DOMAIN c /\ c.ticks = jobs[j].ticks
        OBVIOUS
      <3>6. ParentNotAhead(q)
        <4>1. \A i \in Coming : MinuteOf[i] \in Minute /\ j[1] <= MinuteOf[i]
          BY <3>1, Numbering DEF NotAhead, Coming
        <4> QED  BY <2>2, <4>1, Numbering DEF ParentNotAhead
      <3> HIDE DEF c
      <3>7. BookInv'
        BY <1>0, <3>1, <3>4, <3>5, <3>6, StaysBehind DEF Inv, BookInv
      <3> QED  BY <1>0, <1>a, <3>2, <3>7 DEF Inv
    <2> QED  BY <2>1, <2>3, <2>4, <2>5, <2>6, <2>7, <2>8 DEF Work
  <1>3. CASE Die
    <2>1. WorkInv'  BY <1>3 DEF Die, WorkInv, NoJob
    <2> QED  BY <1>0, <1>a, <1>b, <1>3, <2>1 DEF Die, Inv
  <1>4. CASE CatchUp
    <2>1. /\ inbox' = inbox /\ UNCHANGED redis /\ DOMAIN jobs' = JobId
          /\ \A j \in JobId :
                \/ jobs'[j] = jobs[j]
                \/ /\ minutes[j[1]].opened
                   /\ jobs'[j] = [at |-> "ask", ticks |-> {}, vol |-> 0]
      BY <1>4 DEF CatchUp
    <2>2. \A j \in JobId : j[1] \in Minute  BY DEF JobId
    <2>3. \A j \in JobId : minutes[j[1]].opened => NotAhead(j[1])'
      BY <1>0, <2>2, StaysBehind DEF Inv, BookInv
    <2>4. WorkInv'  BY <1>0, <2>1, <2>3, StaysBehind DEF Inv, WorkInv
    <2> QED  BY <1>0, <1>a, <1>b, <2>1, <2>4 DEF Inv
  <1>5. CASE Subscribe
    <2>1. inbox' = inbox /\ jobs' = jobs /\ UNCHANGED redis
      BY <1>5 DEF Subscribe
    <2>2. WorkInv'  BY <1>0, <2>1, StaysBehind DEF Inv, WorkInv
    <2> QED  BY <1>0, <1>a, <1>b, <2>1, <2>2 DEF Inv
  <1> QED  BY <1>1, <1>2, <1>3, <1>4, <1>5 DEF Correction, ReconcilerNext

LEMMA NextInv ==
  ASSUME MaxDelayed = 0, Inv, [Next]_vars
  PROVE  Inv'
  <1>1. CASE Collector  BY <1>1, CollectorInv
  <1>2. CASE Correction  BY <1>2, CorrectionInv
  <1>3. CASE UNCHANGED vars
    <2>1. /\ UNCHANGED <<redis, minuteNow, parentNow, jobs, inbox>>
          /\ UNCHANGED <<traded, delayed, todo, tick>>
      BY <1>3 DEF vars, manager, memory, reconciler
    <2>2. Coming' = Coming /\ FeedInv'  BY <2>1 DEF Coming, Inv, FeedInv
    <2> QED  BY <2>1, <2>2, Untouched
  <1> QED  BY <1>1, <1>2, <1>3 DEF Next

\* On a feed that delays no tick, a candle only ever holds ticks of its own
\* interval, in the collector's writes and in the reconciler's, through lost
\* ticks, restarts of either process and requests that fail.
THEOREM CandlesHoldOwnTicks ==
  ASSUME MaxDelayed = 0
  PROVE  Spec => []OwnTicksOnly
  <1>1. Inv => OwnTicksOnly  BY DEF Inv, BookInv, OwnTicksOnly
  <1>2. Inv /\ [Next]_vars => Inv'  BY NextInv
  <1> QED  BY <1>1, <1>2, InitInv, PTL DEF Spec

-----------------------------------------------------------------------------
(* Only indexed minutes are announced and worked on, on any feed: a minute   *)
(* that was opened stays so, and the candle in memory is of an opened one.   *)

IndexInv ==
    /\ traded \in Nat /\ delayed \subseteq Tick
    /\ todo # <<>> => tick \in Tick
    /\ DOMAIN minutes = Minute /\ \A m \in Minute : "opened" \in DOMAIN minutes[m]
    /\ "at" \in DOMAIN minuteNow
    /\ minuteNow # NoActive => minuteNow.at \in Minute /\ minutes[minuteNow.at].opened
    /\ inbox \subseteq Minute /\ DOMAIN jobs = JobId
    /\ WorksOnIndexed

\* What stays opened keeps what was announced and taken up in the index.
LEMMA OpenedStays ==
  ASSUME IndexInv, DOMAIN minutes' = Minute,
         \A m \in Minute : /\ "opened" \in DOMAIN minutes'[m]
                           /\ minutes[m].opened => minutes'[m].opened
  PROVE  /\ \A m \in inbox : minutes'[m].opened
         /\ \A j \in JobId : jobs[j].at # "none" => minutes'[j[1]].opened
         /\ minuteNow # NoActive => minutes'[minuteNow.at].opened
  BY DEF IndexInv, WorksOnIndexed, JobId

LEMMA IndexCollector == IndexInv /\ Collector => IndexInv'
  <1> SUFFICES ASSUME IndexInv, Collector PROVE IndexInv'  OBVIOUS
  <1> USE DEF memory, redis
  <1>0. UNCHANGED jobs
    BY DEF Collector, reconciler
  <1>1. CASE Receive \/ Lose \/ Delay \/ ReceiveLate \/ CountVolume
    <2>1. /\ traded' \in Nat /\ delayed' \subseteq Tick
          /\ todo' # <<>> => tick' \in Tick
      BY <1>1, BookAssumption
         DEF IndexInv, Receive, Lose, Delay, ReceiveLate, CountVolume, Due, Tick
    <2>2. UNCHANGED <<minutes, minuteNow, inbox>>
      BY <1>1 DEF Receive, Lose, Delay, ReceiveLate, CountVolume
    <2> QED  BY <1>0, <2>1, <2>2 DEF IndexInv, WorksOnIndexed
  <1>2. CASE Publish(listening)
    <2>1. /\ inbox' = inbox \/ (minuteNow # NoActive /\ inbox' = inbox \cup {minuteNow.at})
          /\ todo # <<>> /\ UNCHANGED <<minutes, minuteNow, traded, delayed, tick>>
      BY <1>2 DEF Publish, Closes, Due
    <2>2. inbox' \subseteq Minute /\ \A m \in inbox' : minutes[m].opened
      BY <2>1 DEF IndexInv, WorksOnIndexed
    <2> QED  BY <1>0, <2>1, <2>2 DEF IndexInv, WorksOnIndexed
  <1>3. CASE FoldMinute
    <2> DEFINE t == TheMinute
               new == Fold(minuteNow, t)
    <2>1. /\ minuteNow' = new
          /\ minutes' = [minutes EXCEPT ![t] = Written(@, minuteNow, t)]
          /\ todo # <<>> /\ UNCHANGED <<inbox, traded, delayed, tick>>
      BY <1>3 DEF FoldMinute, Due
    <2>2. t \in Minute /\ t \in Nat
      BY <2>1, Numbering DEF IndexInv, TheMinute
    <2>3. /\ "opened" \in DOMAIN Written(minutes[t], minuteNow, t)
          /\ Written(minutes[t], minuteNow, t).opened
                 <=> minutes[t].opened \/ minuteNow.at < t
      BY DEF Written
    <2>4. /\ DOMAIN minutes' = Minute
          /\ minutes'[t] = Written(minutes[t], minuteNow, t)
          /\ \A m \in Minute : m # t => minutes'[m] = minutes[m]
      BY <2>1, <2>2 DEF IndexInv
    <2> HIDE DEF t
    <2>5. \A m \in Minute : /\ "opened" \in DOMAIN minutes'[m]
                            /\ minutes[m].opened => minutes'[m].opened
      BY <2>3, <2>4 DEF IndexInv
    <2>6. /\ "at" \in DOMAIN new /\ new.at \in Minute /\ minutes'[new.at].opened
      <3>1. CASE minuteNow.at < t
        BY <2>2, <2>3, <2>4, <3>1 DEF Fold
      <3>2. CASE ~(minuteNow.at < t)
        <4>1. minuteNow # NoActive
          BY <2>2, <3>2, NothingActive
        <4>2. new = [minuteNow EXCEPT !.ticks = @ \cup {tick}, !.vol = @ + inc]
          BY <3>2 DEF Fold
        <4>3. "at" \in DOMAIN new /\ new.at = minuteNow.at
          BY <4>2 DEF IndexInv
        <4> QED  BY <2>4, <2>5, <4>1, <4>3, OpenedStays DEF IndexInv
      <3> QED  BY <3>1, <3>2
    <2> HIDE DEF new
    <2> QED  BY <1>0, <2>1, <2>4, <2>5, <2>6, OpenedStays DEF IndexInv, WorksOnIndexed
  <1>4. CASE FoldParent
    BY <1>0, <1>4 DEF FoldParent, Due, IndexInv, WorksOnIndexed
  <1>5. CASE RestartManager
    <2>1. /\ minuteNow' \in Loaded(minutes) /\ todo' = <<>>
          /\ UNCHANGED <<minutes, inbox, traded, delayed>>
      BY <1>5 DEF RestartManager
    <2>2. /\ "at" \in DOMAIN minuteNow'
          /\ minuteNow' # NoActive => minuteNow'.at \in Minute /\ minutes[minuteNow'.at].opened
      <3>1. CASE minuteNow' = NoActive
        BY <3>1, NothingActive
      <3>2. CASE minuteNow' # NoActive
        <4>1. PICK u \in Indexed(minutes) :
                 minuteNow' = [at |-> u, ticks |-> minutes[u].ticks, vol |-> minutes[u].vol]
          BY <2>1, <3>2 DEF Loaded, Newest
        <4> QED  BY <4>1 DEF Indexed, IndexInv
      <3> QED  BY <3>1, <3>2
    <2> QED  BY <1>0, <2>1, <2>2 DEF IndexInv, WorksOnIndexed
  <1> QED  BY <1>1, <1>2, <1>3, <1>4, <1>5 DEF Collector, ManagerNext

LEMMA IndexReconciler == IndexInv /\ Correction => IndexInv'
  <1> SUFFICES ASSUME IndexInv, Correction PROVE IndexInv'  OBVIOUS
  <1> USE DEF redis
  <1>0. UNCHANGED <<traded, delayed, todo, tick, minuteNow>>
    BY DEF Correction, manager, memory, ReconcilerNext, Take, Work, Ask, Compare, Stamp,
           Heal, Gather, Store, Die, CatchUp, Subscribe
  <1>1. ASSUME NEW m \in Minute, Take(m) PROVE IndexInv'
    <2>1. /\ inbox' = inbox \ {m} /\ m \in inbox /\ UNCHANGED minutes
          /\ DOMAIN jobs' = JobId
          /\ \A j \in JobId : j[1] = m \/ jobs'[j] = jobs[j]
      BY <1>1 DEF Take, Moves, IndexInv
    <2> QED  BY <1>0, <2>1 DEF IndexInv, WorksOnIndexed
  <1>2. ASSUME NEW j \in JobId, Work(j) PROVE IndexInv'
    <2>1. jobs[j].at # "none" /\ UNCHANGED inbox
      BY <1>2 DEF Work, Ask, Compare, Stamp, Heal, Gather, Store
    <2>2. DOMAIN jobs' = JobId /\ \A k \in JobId : k # j => jobs'[k] = jobs[k]
      BY <1>2 DEF Work, Ask, Compare, Stamp, Heal, Gather, Store, Moves, IndexInv
    <2>3. j[1] \in Minute /\ minutes[j[1]].opened
      BY <2>1 DEF IndexInv, WorksOnIndexed, JobId
    <2>4. /\ DOMAIN minutes' = Minute
          /\ \A m \in Minute : /\ "opened" \in DOMAIN minutes'[m]
                               /\ minutes[m].opened => minutes'[m].opened
      <3>1. CASE Stamp(j)
        BY <2>3, <3>1 DEF Stamp, IndexInv
      <3>2. CASE Heal(j)
        BY <2>3, <3>2 DEF Heal, IndexInv
      <3>3. CASE ~Stamp(j) /\ ~Heal(j)
        BY <1>2, <3>3 DEF Work, Ask, Compare, Gather, Store, IndexInv
      <3> QED  BY <3>1, <3>2, <3>3
    <2> QED  BY <1>0, <2>1, <2>2, <2>3, <2>4, OpenedStays DEF IndexInv, WorksOnIndexed
  <1>3. CASE Die
    <2>1. inbox' = {} /\ jobs' = [j \in JobId |-> NoJob] /\ UNCHANGED minutes
      BY <1>3 DEF Die
    <2> QED  BY <1>0, <2>1 DEF IndexInv, WorksOnIndexed, NoJob
  <1>4. CASE CatchUp
    <2>1. /\ UNCHANGED <<minutes, inbox>> /\ DOMAIN jobs' = JobId
          /\ \A j \in JobId : minutes[j[1]].opened \/ jobs'[j] = jobs[j]
      BY <1>4 DEF CatchUp
    <2> QED  BY <1>0, <2>1 DEF IndexInv, WorksOnIndexed
  <1>5. CASE Subscribe
    BY <1>0, <1>5 DEF Subscribe, IndexInv, WorksOnIndexed
  <1> QED  BY <1>1, <1>2, <1>3, <1>4, <1>5 DEF Correction, ReconcilerNext

\* The reconciler only works on minutes that have an indexed candle, also on a
\* feed that delays ticks and over restarts of either process: its own write
\* (reconciler.py:320) does not add to the index.
THEOREM OnlyIndexed == Spec => []WorksOnIndexed
  <1>1. Init => IndexInv
    <2> SUFFICES ASSUME Init PROVE IndexInv  OBVIOUS
    <2>1. minutes = [m \in Minute |-> Absent] /\ minuteNow = NoActive
      BY DEF Init, ManagerInit
    <2>2. inbox = {} /\ jobs = [j \in JobId |-> NoJob]
      BY DEF Init, ReconcilerInit
    <2>3. traded \in Nat /\ delayed = {} /\ todo = <<>>
      BY DEF Init, ManagerInit
    <2> QED  BY <2>1, <2>2, <2>3, NothingActive DEF IndexInv, WorksOnIndexed, Absent, NoJob
  <1>2. IndexInv /\ [Next]_vars => IndexInv'
    <2>1. IndexInv /\ UNCHANGED vars => IndexInv'
      BY DEF vars, redis, manager, memory, reconciler, IndexInv, WorksOnIndexed
    <2> QED  BY <2>1, IndexCollector, IndexReconciler DEF Next
  <1>3. IndexInv => WorksOnIndexed  BY DEF IndexInv
  <1> QED  BY <1>1, <1>2, <1>3, PTL DEF Spec

-----------------------------------------------------------------------------
(* A healed minute stays official: once a minute is announced it is over,    *)
(* so the broker knows all of it and no tick still to come touches its hash. *)
(* A reconciler that restarts is left out: the scan it makes at its start    *)
(* takes up the minute still forming, and may write what it was told of that *)
(* minute when a later job has healed it.                                    *)

Over(m) == \A i \in Coming : m < MinuteOf[i]

\* What job j, at step at with what it holds, means for its minute.
HealsWith(j, at, ticks, vol) ==
    /\ at # "none" => j[2] = "trigger" /\ Over(j[1])
    /\ at \in {"compare", "stamp", "heal"} =>
          ticks = TicksOf(j[1]) /\ vol = Cardinality(TicksOf(j[1]))
    /\ at \in {"stamp", "gather", "store", "done"} => Official(j[1])

HealInv ==
    /\ boots = 0 /\ listening
    /\ \A m \in Minute : {"ticks", "vol"} \subseteq DOMAIN minutes[m]
    /\ \A m \in inbox : Over(m)
    /\ \A j \in JobId : HealsWith(j, jobs[j].at, jobs[j].ticks, jobs[j].vol)

\* A step that writes no minute that is over, nor any job.
LEMMA OverStays ==
  ASSUME Inv, HealInv, Coming' \subseteq Coming, UNCHANGED <<boots, listening, jobs>>,
         \A m \in Minute : {"ticks", "vol"} \subseteq DOMAIN minutes'[m],
         \A m \in Minute : Over(m) => minutes'[m] = minutes[m],
         \A m \in inbox' : m \in inbox \/ Over(m)
  PROVE  HealInv'
  <1>1. \A m : Over(m) => Over(m)'  BY DEF Over
  <1>2. \A m \in inbox' : Over(m)'  BY <1>1 DEF HealInv
  <1>3. ASSUME NEW j \in JobId
        PROVE  HealsWith(j, jobs[j].at, jobs[j].ticks, jobs[j].vol)'
    <2>1. HealsWith(j, jobs[j].at, jobs[j].ticks, jobs[j].vol) /\ j[1] \in Minute
      BY DEF HealInv, JobId
    <2>2. jobs[j].at # "none" => minutes'[j[1]] = minutes[j[1]]
      BY <2>1 DEF HealsWith
    <2> QED  BY <1>1, <2>1, <2>2 DEF HealsWith, Official
  <1> QED  BY <1>2, <1>3 DEF HealInv

LEMMA HealCollector ==
  ASSUME MaxDelayed = 0, Inv, HealInv, Collector
  PROVE  HealInv'
  <1> USE DEF memory, reconciler, redis
  <1>0. Coming' \subseteq Coming  BY ComingShrinks DEF Inv
  <1>r. UNCHANGED <<boots, listening, jobs>>  BY DEF Collector
  <1>1. CASE UNCHANGED <<minutes, inbox>>
    BY <1>0, <1>r, <1>1, OverStays DEF HealInv
  <1>2. CASE Publish(listening)
    <2>1. /\ UNCHANGED minutes /\ todo # <<>>
          /\ inbox' \subseteq inbox \cup {minuteNow.at}
          /\ inbox' # inbox => minuteNow # NoActive /\ minuteNow.at < TheMinute
      BY <1>2 DEF Publish, Closes, Due
    <2>2. ASSUME inbox' # inbox PROVE Over(minuteNow.at)
      <3>1. minuteNow.at \in Minute /\ minuteNow.at < TheMinute
        BY <2>1, <2>2 DEF Inv, ActiveInv
      <3>2. TheMinute \in Minute /\ \A i \in Coming : TheMinute <= MinuteOf[i]
        BY <2>1, TickIsNotAhead DEF Inv, NotAhead
      <3>3. \A i \in Coming : MinuteOf[i] \in Nat
        BY Numbering DEF Coming
      <3>4. \A a, t \in Nat : a < t => \A k \in Nat : t <= k => a < k
        OBVIOUS
      <3>5. minuteNow.at \in Nat /\ TheMinute \in Nat
        BY <3>1, <3>2, Numbering
      <3>6. \A i \in Coming : minuteNow.at < MinuteOf[i]
        BY <3>1, <3>2, <3>3, <3>4, <3>5
      <3> QED  BY <3>6 DEF Over
    <2>3. \A m \in inbox' : m \in inbox \/ Over(m)
      BY <2>1, <2>2
    <2> QED  BY <1>0, <1>r, <2>1, <2>3, OverStays DEF HealInv
  <1>3. CASE FoldMinute
    <2>1. /\ todo # <<>> /\ UNCHANGED inbox
          /\ minutes' = [minutes EXCEPT ![TheMinute] = Written(@, minuteNow, TheMinute)]
      BY <1>3 DEF FoldMinute, Due
    <2>2. PICK t \in Minute : t = TheMinute /\ ~Over(t)
      <3>1. tick \in Coming /\ TheMinute \in Minute
        BY <2>1, TickIsNotAhead DEF Inv
      <3>2. ~(TheMinute < MinuteOf[tick])
        <4>1. \A t \in Nat : ~(t < t)  OBVIOUS
        <4> QED  BY <3>1, <4>1, Numbering DEF TheMinute
      <3> QED  BY <3>1, <3>2 DEF Over
    <2>3. /\ minutes'[t] = Written(minutes[t], minuteNow, t)
          /\ \A m \in Minute : m # t => minutes'[m] = minutes[m]
      BY <2>1, <2>2 DEF Inv, BookInv
    <2>4. {"ticks", "vol"} \subseteq DOMAIN Written(minutes[t], minuteNow, t)
      BY DEF Written
    <2>5. \A m \in Minute : {"ticks", "vol"} \subseteq DOMAIN minutes'[m]
      BY <2>3, <2>4 DEF HealInv
    <2> QED  BY <1>0, <1>r, <2>1, <2>2, <2>3, <2>5, OverStays
  <1> QED
    BY <1>1, <1>2, <1>3
    DEF Collector, ManagerNext, Receive, Lose, Delay, ReceiveLate, CountVolume,
        FoldParent, RestartManager

\* A job of a minute that is over moves on, and its minute is written only
\* with what that job was told.
LEMMA JobHeals ==
  ASSUME Inv, HealInv, Coming' = Coming, UNCHANGED <<boots, listening>>,
         inbox' \subseteq inbox,
         NEW j \in JobId, j[2] = "trigger", Over(j[1]),
         NEW at, NEW ticks, NEW vol, Moves(j, at, ticks, vol),
         at \in {"compare", "stamp", "heal"} =>
            ticks = TicksOf(j[1]) /\ vol = Cardinality(TicksOf(j[1])),
         at \in {"stamp", "gather", "store", "done"} => Official(j[1])',
         {"ticks", "vol"} \subseteq DOMAIN minutes'[j[1]],
         \A m \in Minute : m # j[1] => minutes'[m] = minutes[m]
  PROVE  HealInv'
  <1>1. /\ jobs'[j] = [at |-> at, ticks |-> ticks, vol |-> vol]
        /\ \A k \in JobId : k # j => jobs'[k] = jobs[k]
    BY DEF Moves, Inv, WorkInv
  <1>2. jobs'[j].at = at /\ jobs'[j].ticks = ticks /\ jobs'[j].vol = vol
    BY <1>1
  <1>3. \A m : Over(m)' <=> Over(m)  BY DEF Over
  <1>4. ASSUME NEW k \in JobId
        PROVE  HealsWith(k, jobs[k].at, jobs[k].ticks, jobs[k].vol)'
    <2>1. CASE k = j
      BY <1>2, <1>3, <2>1 DEF HealsWith
    <2>2. CASE k # j /\ jobs[k].at # "none"
      <3>1. HealsWith(k, jobs[k].at, jobs[k].ticks, jobs[k].vol) /\ k[2] = "trigger"
        BY <2>2 DEF HealInv, HealsWith
      <3>2. k[1] # j[1] /\ k[1] \in Minute
        BY <2>2, <3>1 DEF JobId
      <3>3. minutes'[k[1]] = minutes[k[1]]  BY <3>2
      <3> QED  BY <1>1, <1>3, <2>2, <3>1, <3>3 DEF HealsWith, Official
    <2>3. CASE k # j /\ jobs[k].at = "none"
      BY <1>1, <2>3 DEF HealsWith
    <2> QED  BY <2>1, <2>2, <2>3
  <1>5. \A m \in Minute : {"ticks", "vol"} \subseteq DOMAIN minutes'[m]
    BY DEF HealInv
  <1>6. \A m \in inbox' : Over(m)'  BY <1>3 DEF HealInv
  <1> QED  BY <1>4, <1>5, <1>6 DEF HealInv

LEMMA HealCorrection ==
  ASSUME MaxDelayed = 0, MaxBoots = 0, Inv, HealInv, Correction
  PROVE  HealInv'
  <1> USE DEF redis
  <1>0. Coming' = Coming
    BY DEF Coming, Correction, manager, memory, ReconcilerNext, Take, Work, Ask, Compare,
           Stamp, Heal, Gather, Store, Die, CatchUp, Subscribe
  <1>1. ASSUME NEW m \in Minute, Take(m) PROVE HealInv'
    <2> DEFINE j == <<m, "trigger">>
    <2>1. j \in JobId /\ j[1] = m /\ j[2] = "trigger"
      BY DEF JobId, Origin
    <2>2. /\ Moves(j, "ask", {}, 0) /\ inbox' \subseteq inbox
          /\ UNCHANGED <<minutes, boots, listening>>
      BY <1>1, <2>1 DEF Take
    <2>3. Over(j[1]) /\ j[1] \in Minute
      BY <1>1, <2>1 DEF Take, HealInv
    <2> QED  BY <1>0, <2>1, <2>2, <2>3, JobHeals DEF HealInv
  <1>2. ASSUME NEW j \in JobId, Work(j) PROVE HealInv'
    <2>0. /\ HealsWith(j, jobs[j].at, jobs[j].ticks, jobs[j].vol) /\ j[1] \in Minute
          /\ {"ticks", "vol"} \subseteq DOMAIN minutes[j[1]]
      BY DEF HealInv, JobId
    <2>1. /\ j[2] = "trigger" /\ Over(j[1]) /\ UNCHANGED <<boots, listening, inbox>>
      BY <1>2, <2>0 DEF HealsWith, Work, Ask, Compare, Stamp, Heal, Gather, Store
    <2>2. CASE Ask(j)
      <3>1. Reported(j[1], traded) = TicksOf(j[1])
        <4>1. \A i \in Tick : i > traded => j[1] < MinuteOf[i]
          BY <2>1 DEF Over, Coming
        <4>2. j[1] \in Nat /\ traded \in Nat
          BY <2>0, Numbering DEF Inv, FeedInv
        <4>3. \A i \in Tick : i \in Int  BY BookAssumption DEF Tick
        <4>4. \A i \in TicksOf(j[1]) : i \in Tick /\ ~(j[1] < MinuteOf[i])
          BY <4>2 DEF TicksOf
        <4>5. \A i \in TicksOf(j[1]) : i <= traded
          BY <4>1, <4>2, <4>3, <4>4
        <4> QED  BY <4>5 DEF Reported
      <3>2. \/ Moves(j, "compare", TicksOf(j[1]), Cardinality(TicksOf(j[1])))
            \/ Moves(j, "failed", {}, 0)
        BY <2>2, <3>1 DEF Ask
      <3> QED  BY <1>0, <2>0, <2>1, <2>2, <3>2, JobHeals DEF Ask
    <2>3. CASE Compare(j)
      <3>1. jobs[j].ticks = TicksOf(j[1]) /\ jobs[j].vol = Cardinality(TicksOf(j[1]))
        BY <2>0, <2>3 DEF Compare, HealsWith
      <3>2. UNCHANGED minutes  BY <2>3 DEF Compare
      <3>3. CASE Agrees(minutes[j[1]], jobs[j])
        <4>1. Moves(j, "stamp", jobs[j].ticks, jobs[j].vol)
          BY <2>3, <3>3 DEF Compare
        <4>2. Official(j[1])'  BY <3>1, <3>2, <3>3 DEF Agrees, Official
        <4> QED  BY <1>0, <2>0, <2>1, <3>1, <3>2, <4>1, <4>2, JobHeals
      <3>4. CASE ~Agrees(minutes[j[1]], jobs[j])
        <4>1. Moves(j, "heal", jobs[j].ticks, jobs[j].vol)
          BY <2>3, <3>4 DEF Compare
        <4> QED  BY <1>0, <2>0, <2>1, <3>1, <3>2, <4>1, JobHeals
      <3> QED  BY <3>3, <3>4
    <2>4. CASE Stamp(j)
      <3>1. /\ minutes' = [minutes EXCEPT ![j[1]].status = "reconciled"]
            /\ Moves(j, "done", {}, 0)
        BY <2>4 DEF Stamp
      <3>2. /\ minutes'[j[1]] = [minutes[j[1]] EXCEPT !.status = "reconciled"]
            /\ \A m \in Minute : m # j[1] => minutes'[m] = minutes[m]
        BY <2>0, <3>1 DEF Inv, BookInv
      <3>3. /\ {"ticks", "vol"} \subseteq DOMAIN minutes'[j[1]]
            /\ minutes'[j[1]].ticks = minutes[j[1]].ticks
            /\ minutes'[j[1]].vol = minutes[j[1]].vol
        BY <2>0, <3>2
      <3>4. Official(j[1])'
        BY <2>0, <2>4, <3>3 DEF Stamp, HealsWith, Official
      <3> QED  BY <1>0, <2>1, <3>1, <3>2, <3>3, <3>4, JobHeals
    <2>5. CASE Heal(j)
      <3>1. jobs[j].ticks = TicksOf(j[1]) /\ jobs[j].vol = Cardinality(TicksOf(j[1]))
        BY <2>0, <2>5 DEF Heal, HealsWith
      <3>2. /\ minutes'[j[1]] = [ticks |-> jobs[j].ticks, vol |-> jobs[j].vol,
                                 opened |-> TRUE, status |-> "reconciled"]
            /\ \A m \in Minute : m # j[1] => minutes'[m] = minutes[m]
            /\ Moves(j, "gather", {}, 0)
        BY <2>0, <2>5 DEF Heal, Inv, BookInv
      <3>3. {"ticks", "vol"} \subseteq DOMAIN minutes'[j[1]] /\ Official(j[1])'
        BY <3>1, <3>2 DEF Official
      <3> QED  BY <1>0, <2>1, <3>2, <3>3, JobHeals
    <2>6. CASE Gather(j)
      <3>1. UNCHANGED minutes /\ Official(j[1])
        BY <2>0, <2>6 DEF Gather, HealsWith
      <3>2. \/ Moves(j, "failed", {}, 0)
            \/ \E ticks, vol : Moves(j, "store", ticks, vol)
        BY <2>6 DEF Gather
      <3>3. Official(j[1])'  BY <3>1 DEF Official
      <3> QED  BY <1>0, <2>0, <2>1, <3>1, <3>2, <3>3, JobHeals
    <2>7. CASE Store(j)
      <3>1. UNCHANGED minutes /\ Official(j[1]) /\ Moves(j, "done", {}, 0)
        BY <2>0, <2>7 DEF Store, HealsWith
      <3>2. Official(j[1])'  BY <3>1 DEF Official
      <3> QED  BY <1>0, <2>0, <2>1, <3>1, <3>2, JobHeals
    <2> QED  BY <1>2, <2>2, <2>3, <2>4, <2>5, <2>6, <2>7 DEF Work
  <1>3. CASE Die  BY <1>3 DEF Die, HealInv
  <1>4. CASE CatchUp  BY <1>4 DEF CatchUp, HealInv
  <1>5. CASE Subscribe
    <2>1. UNCHANGED <<minutes, inbox, jobs, boots>> /\ listening'
      BY <1>5 DEF Subscribe
    <2> QED  BY <1>0, <2>1, OverStays DEF HealInv
  <1> QED  BY <1>1, <1>2, <1>3, <1>4, <1>5 DEF Correction, ReconcilerNext

\* On a feed that delays no tick and under a reconciler that is not restarted,
\* a minute whose announced job ran to its end holds what the broker reports,
\* and keeps it while the collector restarts and later minutes trade
\* (reconciler.py process_item, candle_manager.hpp process_tick_candle).
THEOREM HealedIsOfficial ==
  ASSUME MaxDelayed = 0, MaxBoots = 0
  PROVE  Spec => []HealedStaysOfficial
  <1>1. Init => HealInv
    <2> SUFFICES ASSUME Init PROVE HealInv  OBVIOUS
    <2>1. boots = 0 /\ listening /\ inbox = {} /\ jobs = [j \in JobId |-> NoJob]
      BY DEF Init, ReconcilerInit
    <2>2. minutes = [m \in Minute |-> Absent]
      BY DEF Init, ManagerInit
    <2>3. \A m \in Minute : {"ticks", "vol"} \subseteq DOMAIN minutes[m]
      BY <2>2 DEF Absent
    <2> QED  BY <2>1, <2>3 DEF HealInv, HealsWith, NoJob
  <1>2. Inv /\ HealInv /\ [Next]_vars => HealInv'
    <2>1. ASSUME Inv, HealInv, UNCHANGED vars PROVE HealInv'
      <3>1. Coming' = Coming
        BY <2>1 DEF vars, manager, memory, Coming
      <3> QED  BY <2>1, <3>1, OverStays DEF vars, redis, reconciler, HealInv
    <2> QED  BY <2>1, HealCollector, HealCorrection DEF Next
  <1>3. Inv /\ [Next]_vars => Inv'  BY NextInv
  <1>4. HealInv => HealedStaysOfficial
    <2> SUFFICES ASSUME HealInv, NEW m \in Minute, jobs[<<m, "trigger">>].at = "done"
                 PROVE  Official(m)
      BY DEF HealedStaysOfficial
    <2>1. <<m, "trigger">> \in JobId /\ <<m, "trigger">>[1] = m
      BY DEF JobId, Origin
    <2> QED  BY <2>1 DEF HealInv, HealsWith
  <1> QED  BY <1>1, <1>2, <1>3, <1>4, InitInv, PTL DEF Spec

-----------------------------------------------------------------------------
(* Numbers: the largest and the smallest of a set, and the start of a bar.  *)

\* A finite set of numbers has a largest and a smallest ...
LEMMA Extremes ==
  ASSUME NEW F \in SUBSET Int, IsFiniteSet(F), F # {}
  PROVE  /\ \E x \in F : \A y \in F : x >= y
         /\ \E x \in F : \A y \in F : x <= y
  <1> DEFINE Good == {T \in SUBSET F : T # {} => /\ \E x \in T : \A y \in T : x >= y
                                                 /\ \E x \in T : \A y \in T : x <= y}
  <1>1. {} \in Good
    OBVIOUS
  <1>2. ASSUME NEW T \in SUBSET F, NEW z \in T, T \ {z} \in Good PROVE T \in Good
    <2>1. CASE T = {z}
      BY <2>1
    <2>2. CASE T # {z}
      <3>1. PICK x \in T \ {z} : \A y \in T \ {z} : x >= y
        BY <1>2, <2>2
      <3>2. PICK w \in T \ {z} : \A y \in T \ {z} : w <= y
        BY <1>2, <2>2
      <3>3. \A y \in T : (IF x >= z THEN x ELSE z) >= y
        BY <3>1
      <3>4. \A y \in T : (IF w <= z THEN w ELSE z) <= y
        BY <3>2
      <3> QED  BY <3>3, <3>4
    <2> QED  BY <2>1, <2>2
  <1>3. Good \in SUBSET SUBSET F
    OBVIOUS
  <1> HIDE DEF Good
  <1>4. Good = SUBSET F
    BY <1>1, <1>2, <1>3, SubsetInduction
  <1> QED  BY <1>4 DEF Good

\* ... which are the ones that Max and Min choose.
LEMMA Chosen ==
  ASSUME NEW F \in SUBSET Int, IsFiniteSet(F), F # {}
  PROVE  /\ Max(F) \in F /\ \A y \in F : Max(F) >= y
         /\ Min(F) \in F /\ \A y \in F : Min(F) <= y
  BY Extremes DEF Max, Min

\* Whatever is the largest, or the smallest, is chosen.
LEMMA IsMax ==
  ASSUME NEW F \in SUBSET Int, NEW x \in F, \A y \in F : x >= y
  PROVE  Max(F) = x
  <1>1. Max(F) \in F /\ \A y \in F : Max(F) >= y
    BY Zenon DEF Max
  <1>2. x \in Int /\ Max(F) \in Int /\ x >= Max(F) /\ Max(F) >= x
    BY <1>1
  <1> QED  BY <1>2

LEMMA IsMin ==
  ASSUME NEW F \in SUBSET Int, NEW x \in F, \A y \in F : x <= y
  PROVE  Min(F) = x
  <1>1. Min(F) \in F /\ \A y \in F : Min(F) <= y
    BY Zenon DEF Min
  <1>2. x \in Int /\ Min(F) \in Int /\ x <= Min(F) /\ Min(F) <= x
    BY <1>1
  <1> QED  BY <1>2

LEMMA LargerOfTwo == \A x, y \in Int : Max({x, y}) = IF x >= y THEN x ELSE y
  BY DEF Max

LEMMA SmallerOfTwo == \A x, y \in Int : Min({x, y}) = IF x <= y THEN x ELSE y
  BY DEF Min

LEMMA OnlyOne == \A x \in Int : Max({x}) = x /\ Min({x}) = x
  BY DEF Max, Min

\* What a finite set is mapped to is finite.
LEMMA FiniteImage ==
  ASSUME NEW S, IsFiniteSet(S), NEW h
  PROVE  IsFiniteSet({h[x] : x \in S})
  <1> DEFINE Good == {T \in SUBSET S : IsFiniteSet({h[x] : x \in T})}
  <1>1. {} \in Good
    <2>1. {h[x] : x \in {}} = {}
      OBVIOUS
    <2> QED  BY <2>1, FS_EmptySet
  <1>2. ASSUME NEW T \in SUBSET S, NEW z \in T, T \ {z} \in Good PROVE T \in Good
    <2>1. {h[x] : x \in T} = {h[x] : x \in T \ {z}} \cup {h[z]}
      OBVIOUS
    <2>2. IsFiniteSet({h[x] : x \in T \ {z}})
      BY <1>2
    <2>3. IsFiniteSet({h[x] : x \in T \ {z}} \cup {h[z]})
      BY <2>2, FS_AddElement
    <2> QED  BY <2>1, <2>3
  <1>3. Good \in SUBSET SUBSET S
    OBVIOUS
  <1> HIDE DEF Good
  <1>4. Good = SUBSET S
    BY <1>1, <1>2, <1>3, SubsetInduction
  <1> QED  BY <1>4 DEF Good

\* One element more.
LEMMA ChosenWith ==
  ASSUME NEW F \in SUBSET Int, IsFiniteSet(F), F # {}, NEW x \in Int
  PROVE  /\ Max(F \cup {x}) = Max({Max(F), x})
         /\ Min(F \cup {x}) = Min({Min(F), x})
  <1> DEFINE a == Max(F)
             b == Min(F)
  <1>1. a \in F /\ b \in F /\ a \in Int /\ b \in Int /\ \A y \in F : a >= y /\ b <= y
    BY Chosen
  <1> HIDE DEF a, b
  <1>2. Max({a, x}) = (IF a >= x THEN a ELSE x) /\ Min({b, x}) = (IF b <= x THEN b ELSE x)
    BY <1>1, LargerOfTwo, SmallerOfTwo
  <1>3. \A y \in F : y \in Int
    OBVIOUS
  <1>4. Max(F \cup {x}) = IF a >= x THEN a ELSE x
    BY <1>1, <1>3, IsMax, SMTT(30)
  <1>5. Min(F \cup {x}) = IF b <= x THEN b ELSE x
    BY <1>1, <1>3, IsMin
  <1> QED  BY <1>2, <1>4, <1>5 DEF a, b

\* Sets of positions in a sequence.
LEMMA Positions ==
  ASSUME NEW n \in Nat, NEW I \in SUBSET (1..n), I # {}
  PROVE  /\ IsFiniteSet(I) /\ I \in SUBSET Int
         /\ Max(I) \in I /\ \A i \in I : Max(I) >= i
         /\ Min(I) \in I /\ \A i \in I : Min(I) <= i
  <1>1. IsFiniteSet(1..n)
    BY FS_Interval
  <1>2. IsFiniteSet(I)
    BY <1>1, FS_Subset
  <1>3. I \in SUBSET Int
    OBVIOUS
  <1> QED  BY <1>2, <1>3, Chosen

\* A bar starts at or before its ticks, and later ticks belong to the same or a later bar.
LEMMA Starts ==
  ASSUME NEW tf \in Nat \ {0}
  PROVE  /\ \A t \in Nat : Start(tf, t) \in Nat /\ Start(tf, t) <= t
         /\ \A t, u \in Nat : t <= u => Start(tf, t) <= Start(tf, u)
  <1>1. \A t \in Nat : t \div tf \in Nat /\ (t \div tf) * tf \in Nat /\ (t \div tf) * tf <= t /\ t < (t \div tf) * tf + tf
    OBVIOUS
  <1>2. ASSUME NEW p \in Nat, NEW q \in Nat, p < q PROVE p * tf + tf <= q * tf
    <2>1. PICK d \in Nat : q = p + 1 + d
      BY <1>2
    <2>2. q * tf = p * tf + tf + d * tf /\ d * tf \in Nat /\ p * tf \in Nat
      BY <2>1
    <2> QED  BY <2>2
  <1>3. ASSUME NEW t \in Nat, NEW u \in Nat, t <= u PROVE Start(tf, t) <= Start(tf, u)
    <2> DEFINE p == u \div tf
               q == t \div tf
    <2>1. /\ p \in Nat /\ p * tf \in Nat /\ u < p * tf + tf
          /\ q \in Nat /\ q * tf \in Nat /\ q * tf <= t
      BY <1>1
    <2> HIDE DEF p, q
    <2>2. CASE p < q
      BY <1>2, <1>3, <2>1, <2>2
    <2>3. CASE p >= q
      <3>1. p = q \/ q < p
        BY <2>1, <2>3
      <3>2. q * tf <= p * tf
        BY <1>2, <2>1, <3>1
      <3> QED  BY <3>2 DEF Start, p, q
    <2> QED  BY <2>1, <2>2, <2>3
  <1> QED  BY <1>1, <1>3 DEF Start

-----------------------------------------------------------------------------
(* The rows of the tape with given numbers.                                *)

NextRows(I, n, rows) ==
    IF n = 0 THEN <<>> ELSE IF n \in I THEN Append(rows[n - 1], plan.tape[n]) ELSE rows[n - 1]

IsRows(I, rows) == rows = [n \in 0..Len(plan.tape) |-> NextRows(I, n, rows)]

RowsTo(I) == CHOOSE rows : IsRows(I, rows)

TapeOK == plan.tape \in Seq(Row) /\ \A i, j \in DOMAIN plan.tape : i < j => plan.tape[i].t <= plan.tape[j].t

\* Time does not run back.
Ordered(R) == \A i, j \in DOMAIN R : i < j => R[i].t <= R[j].t

\* They are taken one after the other.
LEMMA RowByRow ==
  ASSUME TapeOK, NEW I
  PROVE  /\ RowsAt(I) = RowsTo(I)[Len(plan.tape)]
         /\ \A n \in 0..Len(plan.tape) : RowsTo(I)[n] = NextRows(I, n, RowsTo(I))
  <1>0. Len(plan.tape) \in Nat
    BY DEF TapeOK
  <1> DEFINE Upto(n, rows) == \A i \in 0..n : rows[i] = NextRows(I, i, rows)
             Good == {n \in Nat : \E rows : Upto(n, rows)}
  <1>1. 0 \in Good
    <2>1. Upto(0, [i \in {0} |-> <<>>])
      BY DEF NextRows
    <2> QED  BY <2>1
  <1>2. ASSUME NEW n \in Good PROVE n + 1 \in Good
    <2>1. PICK rows : Upto(n, rows)
      OBVIOUS
    <2> DEFINE more == [i \in 0..(n + 1) |-> IF i <= n THEN rows[i] ELSE NextRows(I, i, rows)]
    <2>2. ASSUME NEW i \in 0..(n + 1) PROVE more[i] = NextRows(I, i, more)
      <3>1. more[i] = NextRows(I, i, rows)
        BY <2>1
      <3>2. i # 0 => more[i - 1] = rows[i - 1]
        OBVIOUS
      <3> QED  BY <3>1, <3>2 DEF NextRows
    <2>3. \E r : Upto(n + 1, r)
      BY <2>2
    <2> QED  BY <2>3
  <1> HIDE DEF Good
  <1>3. Good = Nat
    BY <1>1, <1>2, NumberInduction DEF Good
  <1>4. PICK rows : Upto(Len(plan.tape), rows)
    BY <1>0, <1>3 DEF Good
  <1> DEFINE f == [n \in 0..Len(plan.tape) |-> rows[n]]
  <1>5. \A n \in 0..Len(plan.tape) : f[n] = NextRows(I, n, f)
    BY <1>0, <1>4 DEF NextRows
  <1>6. \E r : IsRows(I, r)
    BY <1>5 DEF IsRows
  <1>7. IsRows(I, RowsTo(I))
    BY <1>6 DEF RowsTo
  <1>8. RowsAt(I) = RowsTo(I)[Len(plan.tape)]
    BY DEF RowsAt, RowsTo, IsRows, NextRows
  <1> QED  BY <1>7, <1>8 DEF IsRows

\* Induction up to a bound.
LEMMA BoundedInduction ==
  ASSUME NEW N \in Nat, NEW Good \in SUBSET (0..N), 0 \in Good, \A n \in 0..(N - 1) : n \in Good => n + 1 \in Good
  PROVE  \A n \in 0..N : n \in Good
  <1> DEFINE All == {n \in Nat : n <= N => n \in Good}
  <1>1. 0 \in All
    OBVIOUS
  <1>2. \A n \in All : n + 1 \in All
    OBVIOUS
  <1>3. All \in SUBSET Nat
    OBVIOUS
  <1> HIDE DEF All
  <1>4. All = Nat
    BY <1>1, <1>2, <1>3, NumberInduction
  <1> QED  BY <1>4 DEF All

\* One row more, or not.
LEMMA RowStep ==
  ASSUME TapeOK, NEW n \in 0..(Len(plan.tape) - 1)
  PROVE  /\ n \in Nat /\ n + 1 \in DOMAIN plan.tape /\ plan.tape[n + 1] \in Row
         /\ \A S : RowsTo(S)[n + 1] = IF n + 1 \in S THEN Append(RowsTo(S)[n], plan.tape[n + 1])
                                                     ELSE RowsTo(S)[n]
  <1>1. Len(plan.tape) \in Nat /\ plan.tape \in Seq(Row)
    BY DEF TapeOK
  <1>2. n \in Nat /\ n + 1 \in 0..Len(plan.tape) /\ n + 1 \in DOMAIN plan.tape /\ (n + 1) - 1 = n /\ n + 1 # 0
    BY <1>1
  <1>3. plan.tape[n + 1] \in Row
    BY <1>1, <1>2
  <1>4. \A S : RowsTo(S)[n + 1] = NextRows(S, n + 1, RowsTo(S))
    BY <1>2, RowByRow
  <1> QED  BY <1>2, <1>3, <1>4 DEF NextRows

\* The first of them are rows of the tape up to n, in its order.
TakenTo(rows, n) ==
    /\ rows \in Seq(Row) /\ Ordered(rows)
    /\ \A i \in DOMAIN rows : \E m \in DOMAIN plan.tape : m <= n /\ rows[i] = plan.tape[m]

LEMMA TakeOne ==
  ASSUME TapeOK, NEW n \in Nat, n + 1 \in DOMAIN plan.tape, NEW old, TakenTo(old, n)
  PROVE  TakenTo(old, n + 1) /\ TakenTo(Append(old, plan.tape[n + 1]), n + 1)
  <1>1. PICK row, new : row = plan.tape[n + 1] /\ new = Append(old, row)
    OBVIOUS
  <1>2. old \in Seq(Row) /\ row \in Row /\ plan.tape \in Seq(Row)
    BY <1>1 DEF TakenTo, TapeOK
  <1>3. \A i \in DOMAIN old : old[i].t <= row.t
    BY <1>1, SMTT(30) DEF TakenTo, TapeOK
  <1>4. /\ new \in Seq(Row) /\ Len(new) = Len(old) + 1 /\ DOMAIN new = 1..Len(new) /\ DOMAIN old = 1..Len(old)
        /\ Len(old) \in Nat
        /\ \A i \in DOMAIN old : new[i] = old[i]
        /\ new[Len(old) + 1] = row
    BY <1>1, <1>2
  <1>5. Ordered(new)
    BY <1>3, <1>4 DEF Ordered, TakenTo
  <1>6. \A i \in DOMAIN old : \E m \in DOMAIN plan.tape : m <= n + 1 /\ old[i] = plan.tape[m]
    BY <1>2 DEF TakenTo
  <1>7. \A i \in DOMAIN new : \E m \in DOMAIN plan.tape : m <= n + 1 /\ new[i] = plan.tape[m]
    BY <1>1, <1>4, <1>6
  <1> QED  BY <1>1, <1>4, <1>5, <1>6, <1>7 DEF TakenTo

\* They are rows of the tape, and in its order.
LEMMA RowsOrdered ==
  ASSUME TapeOK, NEW I
  PROVE  RowsAt(I) \in Seq(Row) /\ Ordered(RowsAt(I))
  <1> DEFINE N == Len(plan.tape)
             Good == {n \in 0..N : TakenTo(RowsTo(I)[n], n)}
  <1>0. N \in Nat
    BY DEF TapeOK
  <1>1. 0 \in Good
    <2>1. RowsTo(I)[0] = <<>>
      BY <1>0, RowByRow DEF NextRows
    <2>2. TakenTo(<<>>, 0)
      BY DEF TakenTo, Ordered
    <2> QED  BY <1>0, <2>1, <2>2
  <1>2. ASSUME NEW n \in 0..(N - 1), n \in Good PROVE n + 1 \in Good
    <2>1. n + 1 \in 0..N
      BY <1>0
    <2>2. TakenTo(RowsTo(I)[n], n)
      BY <1>2
    <2>3. TakenTo(RowsTo(I)[n + 1], n + 1)
      BY <2>2, RowStep, TakeOne
    <2> QED  BY <2>1, <2>3
  <1>3. N \in Good
    <2> HIDE DEF N, Good
    <2>1. Good \in SUBSET (0..N)
      BY DEF Good
    <2> QED  BY <1>0, <1>1, <1>2, <2>1, BoundedInduction
  <1> QED  BY <1>3, RowByRow DEF TakenTo

\* Two parts of the tape, one behind the other.
LEMMA RowsJoined ==
  ASSUME TapeOK, NEW I \in SUBSET Nat, NEW J \in SUBSET Nat, \A i \in I, j \in J : i < j
  PROVE  RowsAt(I \cup J) = RowsAt(I) \o RowsAt(J)
  <1> DEFINE N == Len(plan.tape)
             K == I \cup J
             Fine(a, b, c, n) == /\ a \in Seq(Row) /\ b \in Seq(Row) /\ c = a \o b
                                 /\ (\A j \in J : j > n) => b = <<>>
             Good == {n \in 0..N : Fine(RowsTo(I)[n], RowsTo(J)[n], RowsTo(K)[n], n)}
  <1>0. N \in Nat
    BY DEF TapeOK
  <1>1. 0 \in Good
    <2>1. RowsTo(I)[0] = <<>> /\ RowsTo(J)[0] = <<>> /\ RowsTo(K)[0] = <<>>
      BY <1>0, RowByRow DEF NextRows
    <2>2. Fine(<<>>, <<>>, <<>>, 0)
      OBVIOUS
    <2> HIDE DEF Fine, K
    <2> QED  BY <1>0, <2>1, <2>2
  <1>2. ASSUME NEW n \in 0..(N - 1), n \in Good PROVE n + 1 \in Good
    <2>1. n + 1 \in 0..N
      BY <1>0
    <2>2. PICK a, b, c : a = RowsTo(I)[n] /\ b = RowsTo(J)[n] /\ c = RowsTo(K)[n]
      OBVIOUS
    <2>3. PICK row : row = plan.tape[n + 1]
      OBVIOUS
    <2>4. Fine(a, b, c, n) /\ n \in Nat /\ row \in Row
      BY <1>2, <2>2, <2>3, RowStep
    <2>5. /\ RowsTo(I)[n + 1] = IF n + 1 \in I THEN Append(a, row) ELSE a
          /\ RowsTo(J)[n + 1] = IF n + 1 \in J THEN Append(b, row) ELSE b
          /\ RowsTo(K)[n + 1] = IF n + 1 \in K THEN Append(c, row) ELSE c
      BY <2>2, <2>3, RowStep
    <2>6. CASE n + 1 \in I
      <3>1. \A j \in J : j > n + 1
        BY <2>6
      <3>2. \A j \in J : j > n
        BY <2>4, <3>1
      <3>3. b = <<>> /\ n + 1 \notin J
        BY <2>4, <3>1, <3>2
      <3>4. Fine(Append(a, row), b, Append(c, row), n + 1)
        BY <2>4, <3>3
      <3> HIDE DEF Fine
      <3> QED  BY <2>1, <2>5, <2>6, <3>3, <3>4
    <2>7. CASE n + 1 \notin I /\ n + 1 \in J
      <3>1. Append(c, row) = a \o Append(b, row)
        <4>1. c = a \o b /\ a \in Seq(Row) /\ b \in Seq(Row) /\ row \in Row
          BY <2>4
        <4> HIDE DEF Fine
        <4>2. <<row>> \in Seq(Row) /\ a \o b \in Seq(Row)
          BY <4>1
        <4>3. Append(a \o b, row) = (a \o b) \o <<row>>
          BY <4>1, <4>2, AppendIsConcat
        <4>4. Append(b, row) = b \o <<row>>
          BY <4>1, AppendIsConcat
        <4>5. (a \o b) \o <<row>> = a \o (b \o <<row>>)
          BY <4>1, <4>2, ConcatAssociative
        <4> QED  BY <4>1, <4>3, <4>4, <4>5
      <3>2. Fine(a, Append(b, row), Append(c, row), n + 1)
        BY <2>4, <2>7, <3>1
      <3> HIDE DEF Fine
      <3> QED  BY <2>1, <2>5, <2>7, <3>2
    <2>8. CASE n + 1 \notin I /\ n + 1 \notin J
      <3>1. (\A j \in J : j > n + 1) => \A j \in J : j > n
        BY <2>4
      <3>2. Fine(a, b, c, n + 1)
        BY <2>4, <3>1, <2>8
      <3> HIDE DEF Fine
      <3> QED  BY <2>1, <2>5, <2>8, <3>2
    <2> QED  BY <2>6, <2>7, <2>8
  <1>3. N \in Good
    <2> HIDE DEF N, Good
    <2>1. Good \in SUBSET (0..N)
      BY DEF Good
    <2> QED  BY <1>0, <1>1, <1>2, <2>1, BoundedInduction
  <1> QED  BY <1>3, RowByRow

\* No numbers, no rows.
LEMMA NoRows ==
  ASSUME TapeOK
  PROVE  RowsAt({}) = <<>>
  <1> DEFINE N == Len(plan.tape)
             Good == {n \in 0..N : RowsTo({})[n] = <<>>}
  <1>0. N \in Nat
    BY DEF TapeOK
  <1>1. 0 \in Good
    BY <1>0, RowByRow DEF NextRows
  <1>2. ASSUME NEW n \in 0..(N - 1), n \in Good PROVE n + 1 \in Good
    BY <1>0, <1>2, RowStep
  <1>3. N \in Good
    <2> HIDE DEF N, Good
    <2>1. Good \in SUBSET (0..N)
      BY DEF Good
    <2> QED  BY <1>0, <1>1, <1>2, <2>1, BoundedInduction
  <1> QED  BY <1>3, RowByRow

-----------------------------------------------------------------------------
(* The bars of a recording when it grows by a row.                         *)

\* S is R and a row that is not earlier.
Grown(R, row, S) ==
    /\ R \in Seq(Row) /\ row \in Row /\ S = Append(R, row)
    /\ \A i \in DOMAIN R : R[i].t <= row.t

LEMMA Grows ==
  ASSUME NEW R, NEW row, NEW S, Grown(R, row, S)
  PROVE  /\ Len(R) \in Nat /\ DOMAIN R = 1..Len(R) /\ DOMAIN S = 1..(Len(R) + 1) /\ S \in Seq(Row)
         /\ Len(S) = Len(R) + 1
         /\ \A i \in 1..Len(R) : S[i] = R[i] /\ R[i] \in Row
         /\ S[Len(R) + 1] = row
  BY DEF Grown

\* The positions of priced rows.
LEMMA PricedPositions ==
  ASSUME NEW R \in Seq(Row), NEW s
  PROVE  Priced(R, s) \in SUBSET (1..Len(R)) /\ Len(R) \in Nat
  BY DEF Priced

LEMMA PricedGrow ==
  ASSUME NEW R, NEW row, NEW S, Grown(R, row, S), NEW s
  PROVE  Priced(S, s) = IF row.sym = s /\ row.px > 0 THEN Priced(R, s) \cup {Len(R) + 1} ELSE Priced(R, s)
  <1>1. /\ \A i \in 1..(Len(R) + 1) : i \in 1..Len(R) \/ i = Len(R) + 1
        /\ Len(R) + 1 \in 1..(Len(R) + 1) /\ 1..Len(R) \subseteq 1..(Len(R) + 1)
    BY Grows
  <1>2. \A i \in 1..Len(R) : i \in Priced(S, s) <=> i \in Priced(R, s)
    BY <1>1, Grows DEF Priced
  <1>3. Len(R) + 1 \in Priced(S, s) <=> row.sym = s /\ row.px > 0
    BY <1>1, Grows DEF Priced
  <1>4. Priced(S, s) \subseteq 1..(Len(R) + 1) /\ Priced(R, s) \subseteq 1..Len(R)
    BY Grows DEF Priced
  <1> QED  BY <1>1, <1>2, <1>3, <1>4

\* Earlier rows add what they added.
LEMMA GainStays ==
  ASSUME NEW R, NEW row, NEW S, Grown(R, row, S), NEW i \in 1..Len(R)
  PROVE  Gain(S, i) = Gain(R, i)
  <1>1. S[i] = R[i] /\ i \in Nat /\ i < Len(R) + 1
    BY Grows
  <1>2. {j \in Priced(S, R[i].sym) : j < i} = {j \in Priced(R, R[i].sym) : j < i}
    BY <1>1, PricedGrow
  <1>3. PICK J : J = {j \in Priced(R, R[i].sym) : j < i}
    OBVIOUS
  <1>4. CASE J = {}
    BY <1>1, <1>2, <1>3, <1>4 DEF Gain
  <1>5. CASE J # {}
    <2>1. J \in SUBSET (1..Len(R)) /\ Len(R) \in Nat
      BY <1>3, PricedPositions DEF Grown
    <2>2. Max(J) \in 1..Len(R)
      BY <1>5, <2>1, Positions
    <2>3. S[Max(J)] = R[Max(J)]
      BY <2>2, Grows
    <2> QED  BY <1>1, <1>2, <1>3, <2>3 DEF Gain
  <1> QED  BY <1>4, <1>5

\* A row adds a number.
LEMMA GainType ==
  ASSUME NEW R \in Seq(Row), NEW i \in DOMAIN R
  PROVE  Gain(R, i) \in Nat
  <1>1. PICK J : J = {j \in Priced(R, R[i].sym) : j < i}
    OBVIOUS
  <1>2. CASE J = {}
    BY <1>1, <1>2 DEF Gain
  <1>3. CASE J # {}
    <2>1. J \in SUBSET (1..Len(R)) /\ Len(R) \in Nat
      BY <1>1, PricedPositions
    <2>2. Max(J) \in 1..Len(R)
      BY <1>3, <2>1, Positions
    <2>3. R[Max(J)].vol \in Nat /\ R[i].vol \in Nat
      <3>1. PICK m : m = Max(J)
        OBVIOUS
      <3>2. R[m] \in Row /\ R[i] \in Row
        BY <2>2, <3>1
      <3> QED  BY <3>1, <3>2 DEF Row
    <2>4. PICK d : d = R[i].vol - R[Max(J)].vol
      OBVIOUS
    <2>5. d \in Int /\ 0 \in Int
      BY <2>3, <2>4
    <2>6. Max({0, d}) \in Nat
      BY <2>5, LargerOfTwo
    <2> QED  BY <1>1, <2>4, <2>6 DEF Gain
  <1> QED  BY <1>2, <1>3

\* The rows of a bar are priced rows of its symbol.
LEMMA InsidePositions ==
  ASSUME NEW R \in Seq(Row), NEW k
  PROVE  /\ Len(R) \in Nat
         /\ Inside(R, k) \in SUBSET Priced(R, k[1]) /\ Inside(R, k) \in SUBSET (1..Len(R))
         /\ Beyond(R, k) \in SUBSET Priced(R, k[1]) /\ Beyond(R, k) \in SUBSET (1..Len(R))
  BY PricedPositions DEF Inside, Beyond

LEMMA InsideGrow ==
  ASSUME NEW R, NEW row, NEW S, Grown(R, row, S), NEW k
  PROVE  /\ Inside(S, k) = IF row.sym = k[1] /\ row.px > 0 /\ Start(k[2], row.t) = k[3]
                           THEN Inside(R, k) \cup {Len(R) + 1} ELSE Inside(R, k)
         /\ Beyond(S, k) = IF row.sym = k[1] /\ row.px > 0 /\ Start(k[2], row.t) > k[3]
                           THEN Beyond(R, k) \cup {Len(R) + 1} ELSE Beyond(R, k)
  <1>1. S[Len(R) + 1] = row /\ Priced(R, k[1]) \subseteq 1..Len(R) /\ \A i \in 1..Len(R) : S[i] = R[i]
    BY Grows, PricedPositions DEF Grown
  <1>2. Len(R) + 1 \notin 1..Len(R)
    BY Grows
  <1>3. \A i \in Priced(R, k[1]) : S[i].t = R[i].t
    BY <1>1
  <1>4. CASE row.sym = k[1] /\ row.px > 0
    <2>1. Priced(S, k[1]) = Priced(R, k[1]) \cup {Len(R) + 1}
      BY <1>4, PricedGrow
    <2> QED  BY <1>1, <1>3, <1>4, <2>1 DEF Inside, Beyond
  <1>5. CASE ~(row.sym = k[1] /\ row.px > 0)
    <2>1. Priced(S, k[1]) = Priced(R, k[1])
      BY <1>5, PricedGrow
    <2> QED  BY <1>3, <1>5, <2>1 DEF Inside, Beyond
  <1> QED  BY <1>4, <1>5

Bar == [ts : Nat, open : Nat, close : Nat, high : Nat, low : Nat, volume : Nat,
        status : {"live", "historical"}]

PricesOf(R, I) == {R[i].px : i \in I}

GainsOf(R, I) == [i \in I |-> Gain(R, i)]

\* The rows of a bar have prices and gains.
LEMMA BarParts ==
  ASSUME NEW R \in Seq(Row), NEW I \in SUBSET (1..Len(R)), I # {}
  PROVE  /\ PricesOf(R, I) \in SUBSET Int /\ IsFiniteSet(PricesOf(R, I)) /\ PricesOf(R, I) # {}
         /\ Max(PricesOf(R, I)) \in Nat /\ Min(PricesOf(R, I)) \in Nat
         /\ R[Min(I)] \in Row /\ R[Max(I)] \in Row /\ Min(I) \in I /\ Max(I) \in I
         /\ Addable(GainsOf(R, I), I) /\ SumOf(GainsOf(R, I), I) \in Nat
  <1>0. Len(R) \in Nat /\ \A i \in 1..Len(R) : R[i] \in Row
    OBVIOUS
  <1>1. Len(R) \in Nat /\ \A i \in 1..Len(R) : R[i] \in Row /\ R[i].px \in Nat
    BY <1>0 DEF Row
  <1>2. IsFiniteSet(I) /\ Min(I) \in I /\ Max(I) \in I
    BY <1>1, Positions
  <1>3. PricesOf(R, I) \in SUBSET Nat /\ PricesOf(R, I) \in SUBSET Int /\ PricesOf(R, I) # {}
    BY <1>1 DEF PricesOf
  <1>4. IsFiniteSet(PricesOf(R, I))
    <2>1. PICK h : h = [i \in I |-> R[i].px]
      OBVIOUS
    <2>2. PricesOf(R, I) = {h[i] : i \in I}
      BY <2>1 DEF PricesOf
    <2>3. IsFiniteSet({h[i] : i \in I})
      BY <1>2, FiniteImage
    <2> QED  BY <2>2, <2>3
  <1>5. Max(PricesOf(R, I)) \in Nat /\ Min(PricesOf(R, I)) \in Nat
    <2>1. PICK P : P = PricesOf(R, I)
      OBVIOUS
    <2>2. P \in SUBSET Int /\ IsFiniteSet(P) /\ P # {} /\ P \in SUBSET Nat
      BY <1>3, <1>4, <2>1
    <2>3. Max(P) \in P /\ Min(P) \in P
      BY <2>2, Chosen
    <2> QED  BY <2>1, <2>2, <2>3
  <1>6. R[Min(I)] \in Row /\ R[Max(I)] \in Row
    BY <1>1, <1>2
  <1>7. \A i \in I : GainsOf(R, I)[i] \in Int /\ GainsOf(R, I)[i] >= 0
    BY GainType DEF GainsOf
  <1>8. Addable(GainsOf(R, I), I)
    BY <1>2, <1>7 DEF Addable
  <1>9. SumOf(GainsOf(R, I), I) \in Nat
    BY <1>7, <1>8, SumPositive
  <1> QED  BY <1>2, <1>3, <1>4, <1>5, <1>6, <1>8, <1>9

LEMMA UpdatedShape ==
  ASSUME NEW ts, NEW open, NEW close, NEW high, NEW low, NEW vol, NEW st, NEW row, NEW extra
  PROVE  Updated([ts |-> ts, open |-> open, close |-> close, high |-> high, low |-> low,
                  volume |-> vol, status |-> st], row, extra)
           = [ts |-> ts, open |-> open, close |-> row.px, high |-> Max({high, row.px}),
              low |-> Min({low, row.px}), volume |-> vol + extra, status |-> st]
  BY DEF Updated

LEMMA BarShape ==
  ASSUME NEW R, NEW k
  PROVE  BarOf(R, k) = [ts |-> k[3], open |-> R[Min(Inside(R, k))].px, close |-> R[Max(Inside(R, k))].px,
                        high |-> Max(PricesOf(R, Inside(R, k))), low |-> Min(PricesOf(R, Inside(R, k))),
                        volume |-> SumOf(GainsOf(R, Inside(R, k)), Inside(R, k)),
                        status |-> IF Beyond(R, k) = {} THEN "live" ELSE "historical"]
  BY DEF BarOf, PricesOf, GainsOf, SumOf

\* A bar with a row is a bar.
LEMMA BarType ==
  ASSUME NEW R \in Seq(Row), NEW k, k[3] \in Nat, Inside(R, k) # {}
  PROVE  BarOf(R, k) \in Bar
  <1>1. PICK I : I = Inside(R, k)
    OBVIOUS
  <1>2. I \in SUBSET (1..Len(R)) /\ I # {}
    BY <1>1, InsidePositions
  <1>3. /\ Max(PricesOf(R, I)) \in Nat /\ Min(PricesOf(R, I)) \in Nat
        /\ R[Min(I)] \in Row /\ R[Max(I)] \in Row /\ SumOf(GainsOf(R, I), I) \in Nat
    BY <1>2, BarParts
  <1>4. R[Min(I)].px \in Nat /\ R[Max(I)].px \in Nat
    BY <1>3 DEF Row
  <1> QED  BY <1>1, <1>3, <1>4, BarShape DEF Bar

\* A bar that the row does not belong to is closed by it, or stays.
LEMMA BarStays ==
  ASSUME NEW R, NEW row, NEW S, Grown(R, row, S), NEW k, k[3] \in Nat,
         Inside(R, k) # {}, Inside(S, k) = Inside(R, k)
  PROVE  BarOf(S, k) = [BarOf(R, k) EXCEPT !.status = IF Beyond(S, k) = {} THEN "live" ELSE "historical"]
  <1>0. R \in Seq(Row)
    BY DEF Grown
  <1>1. PICK I : I = Inside(R, k)
    OBVIOUS
  <1>2. I \in SUBSET (1..Len(R)) /\ I # {}
    BY <1>0, <1>1, InsidePositions
  <1>3. \A i \in I : S[i] = R[i] /\ Gain(S, i) = Gain(R, i)
    BY <1>2, Grows, GainStays
  <1>4. Min(I) \in I /\ Max(I) \in I
    BY <1>0, <1>2, BarParts
  <1>5. PricesOf(S, I) = PricesOf(R, I) /\ GainsOf(S, I) = GainsOf(R, I)
    BY <1>3 DEF PricesOf, GainsOf
  <1>6. S[Min(I)] = R[Min(I)] /\ S[Max(I)] = R[Max(I)]
    BY <1>3, <1>4
  <1>7. Inside(S, k) = I
    BY <1>1
  <1> QED  BY <1>1, <1>5, <1>6, <1>7, BarShape

\* The first row of a bar.
LEMMA BarBegins ==
  ASSUME NEW R, NEW row, NEW S, Grown(R, row, S), NEW k,
         Inside(R, k) = {}, Inside(S, k) = {Len(R) + 1}, Beyond(S, k) = {}
  PROVE  BarOf(S, k) = NewBar(k[3], row, Gain(S, Len(R) + 1))
  <1>1. PICK n : n = Len(R) + 1
    OBVIOUS
  <1>2. n \in Nat /\ n \in DOMAIN S /\ S[n] = row /\ S \in Seq(Row)
    BY <1>1, Grows
  <1>3. Min({n}) = n /\ Max({n}) = n
    BY <1>2, OnlyOne
  <1>4. PricesOf(S, {n}) = {row.px} /\ row.px \in Int
    BY <1>2, SMTT(30) DEF PricesOf, Grown, Row
  <1>5. Min({row.px}) = row.px /\ Max({row.px}) = row.px
    BY <1>4, OnlyOne
  <1>6. SumOf(GainsOf(S, {n}), {n}) = Gain(S, n)
    <2>1. GainsOf(S, {n})[n] = Gain(S, n) /\ Gain(S, n) \in Int
      BY <1>2, GainType DEF GainsOf
    <2>2. IsFiniteSet({n}) /\ {n} \ {n} = {}
      BY FS_Singleton
    <2>3. Addable(GainsOf(S, {n}), {n})
      BY <2>1, <2>2 DEF Addable
    <2>4. SumOf(GainsOf(S, {n}), {n}) = GainsOf(S, {n})[n] + SumOf(GainsOf(S, {n}), {})
      BY <2>2, <2>3, SumOne
    <2>5. SumOf(GainsOf(S, {n}), {}) = 0
      BY SumNothing
    <2> QED  BY <2>1, <2>4, <2>5
  <1> QED  BY <1>1, <1>2, <1>3, <1>4, <1>5, <1>6, BarShape DEF NewBar

\* Its next rows.
LEMMA BarGoesOn ==
  ASSUME NEW R, NEW row, NEW S, Grown(R, row, S), NEW k, k[3] \in Nat,
         Inside(R, k) # {}, Inside(S, k) = Inside(R, k) \cup {Len(R) + 1}, Beyond(S, k) = Beyond(R, k)
  PROVE  BarOf(S, k) = Updated(BarOf(R, k), row, Gain(S, Len(R) + 1))
  <1>0. R \in Seq(Row)
    BY DEF Grown
  <1>1. PICK I, n : I = Inside(R, k) /\ n = Len(R) + 1
    OBVIOUS
  <1>2. I \in SUBSET (1..Len(R)) /\ I # {} /\ Len(R) \in Nat
    BY <1>0, <1>1, InsidePositions
  <1>3. /\ \A i \in I : S[i] = R[i] /\ Gain(S, i) = Gain(R, i)
        /\ S[n] = row /\ n \in DOMAIN S /\ S \in Seq(Row) /\ n \notin I /\ n \in Nat
    BY <1>1, <1>2, Grows, GainStays
  <1>4. PICK J : J = I \cup {n}
    OBVIOUS
  <1>5. Inside(S, k) = J
    BY <1>1, <1>4
  <1>6. Min(J) = Min(I) /\ Max(J) = n
    <2>1. Min(I) \in I /\ \A i \in I : Min(I) <= i
      BY <1>2, Positions
    <2>2. \A i \in I : i \in Nat /\ i < n
      BY <1>1, <1>2
    <2>3. Min(I) \in J /\ \A i \in J : Min(I) <= i
      BY <1>3, <1>4, <2>1, <2>2
    <2>4. n \in J /\ \A i \in J : n >= i
      BY <1>3, <1>4, <2>2
    <2>5. J \in SUBSET Int
      BY <1>3, <1>4, <2>2
    <2> QED  BY <2>3, <2>4, <2>5, IsMin, IsMax
  <1>7. S[Min(J)] = R[Min(I)] /\ S[Max(J)] = row
    BY <1>2, <1>3, <1>6, Positions
  <1>8. PricesOf(S, J) = PricesOf(R, I) \cup {row.px} /\ row.px \in Int
    <2>1. row.px \in Int
      BY DEF Grown, Row
    <2>2. \A i \in I : S[i].px = R[i].px
      BY <1>3
    <2>3. S[n].px = row.px
      BY <1>3
    <2> QED  BY <1>4, <2>1, <2>2, <2>3 DEF PricesOf
  <1>9. /\ Max(PricesOf(S, J)) = Max({Max(PricesOf(R, I)), row.px})
        /\ Min(PricesOf(S, J)) = Min({Min(PricesOf(R, I)), row.px})
    <2>1. PICK P : P = PricesOf(R, I)
      OBVIOUS
    <2>2. P \in SUBSET Int /\ IsFiniteSet(P) /\ P # {}
      BY <1>0, <1>2, <2>1, BarParts
    <2> QED  BY <1>8, <2>1, <2>2, ChosenWith
  <1>10. SumOf(GainsOf(S, J), J) = SumOf(GainsOf(R, I), I) + Gain(S, n)
    <2>1. PICK f, g : f = GainsOf(R, I) /\ g = GainsOf(S, J)
      OBVIOUS
    <2>2. Addable(f, I)
      BY <1>0, <1>2, <2>1, BarParts
    <2>3. (\A i \in I : g[i] = f[i]) /\ g[n] = Gain(S, n) /\ Gain(S, n) \in Int
      BY <1>3, <1>4, <2>1, GainType DEF GainsOf
    <2>4. Addable(g, I)
      BY <2>2, <2>3 DEF Addable
    <2>5. SumOf(f, I) = SumOf(g, I)
      BY <2>2, <2>3, <2>4, SumSame
    <2>6. SumOf(g, I \cup {n}) = SumOf(g, I) + g[n]
      BY <1>3, <2>3, <2>4, SumWith
    <2> QED  BY <1>4, <2>1, <2>3, <2>5, <2>6
  <1>11. BarOf(R, k) = [ts |-> k[3], open |-> R[Min(I)].px, close |-> R[Max(I)].px,
                        high |-> Max(PricesOf(R, I)), low |-> Min(PricesOf(R, I)),
                        volume |-> SumOf(GainsOf(R, I), I),
                        status |-> IF Beyond(R, k) = {} THEN "live" ELSE "historical"]
    BY <1>1, BarShape
  <1>12. BarOf(S, k) = [ts |-> k[3], open |-> R[Min(I)].px, close |-> row.px,
                        high |-> Max({Max(PricesOf(R, I)), row.px}), low |-> Min({Min(PricesOf(R, I)), row.px}),
                        volume |-> SumOf(GainsOf(R, I), I) + Gain(S, n),
                        status |-> IF Beyond(R, k) = {} THEN "live" ELSE "historical"]
    BY <1>5, <1>7, <1>9, <1>10, BarShape
  <1>13. PICK old, open, close, high, low, vol, gain :
            /\ old = BarOf(R, k)
            /\ open = R[Min(I)].px /\ close = R[Max(I)].px /\ high = Max(PricesOf(R, I))
            /\ low = Min(PricesOf(R, I)) /\ vol = SumOf(GainsOf(R, I), I) /\ gain = Gain(S, n)
    OBVIOUS
  <1>14. Updated(old, row, gain) =
            [ts |-> k[3], open |-> open, close |-> row.px, high |-> Max({high, row.px}), low |-> Min({low, row.px}),
             volume |-> vol + gain, status |-> IF Beyond(R, k) = {} THEN "live" ELSE "historical"]
    BY <1>11, <1>13, UpdatedShape
  <1> QED  BY <1>1, <1>12, <1>13, <1>14

-----------------------------------------------------------------------------
(* Which bars there are, and what a row does to each.                      *)

BarKey == Symbols \X Timeframes \X Nat

KeysOf(R) == {k \in BarKey : Inside(R, k) # {}}

LEMMA FramesTyped ==
  /\ OneMinute \in Timeframes /\ Timeframes \in SUBSET (Nat \ {0})
  /\ \A i \in DOMAIN TimeframeList : TimeframeList[i] \in Timeframes
  /\ \A tf \in Timeframes, t \in Nat : Start(tf, t) \in Nat
  <1>1. TimeframeList \in Seq(Nat \ {0}) /\ Len(TimeframeList) > 0
    BY ReplayAssumption
  <1>2. 1 \in DOMAIN TimeframeList /\ \A i \in DOMAIN TimeframeList : TimeframeList[i] \in Nat \ {0}
    BY <1>1
  <1>3. Timeframes \in SUBSET (Nat \ {0})
    BY <1>2 DEF Timeframes
  <1> QED  BY <1>2, <1>3, Starts DEF Timeframes, OneMinute

\* The key of a row's bar.
LEMMA KeyTyped ==
  ASSUME NEW row \in Row, NEW tf \in Timeframes
  PROVE  /\ KeyOf(row, tf) \in BarKey
         /\ KeyOf(row, tf)[1] = row.sym /\ KeyOf(row, tf)[2] = tf /\ KeyOf(row, tf)[3] = Start(tf, row.t)
  <1>1. row.sym \in Symbols /\ row.t \in Nat
    BY DEF Row
  <1> QED  BY <1>1, FramesTyped DEF KeyOf, BarKey

\* The keys are those of the priced rows.
LEMMA KeysFound ==
  ASSUME NEW R \in Seq(Row)
  PROVE  KeysOf(R) = {KeyOf(R[i], tf) : i \in {j \in DOMAIN R : R[j].px > 0}, tf \in Timeframes}
  <1>1. ASSUME NEW k \in KeysOf(R)
        PROVE  \E i \in {j \in DOMAIN R : R[j].px > 0}, tf \in Timeframes : k = KeyOf(R[i], tf)
    <2>1. k \in BarKey /\ k = <<k[1], k[2], k[3]>> /\ k[2] \in Timeframes
      BY DEF KeysOf, BarKey
    <2>2. PICK i : i \in Inside(R, k)
      BY DEF KeysOf
    <2>3. i \in DOMAIN R /\ R[i].px > 0 /\ R[i].sym = k[1] /\ Start(k[2], R[i].t) = k[3]
      BY <2>2 DEF Inside, Priced
    <2>4. k = KeyOf(R[i], k[2])
      BY <2>1, <2>3 DEF KeyOf
    <2> QED  BY <2>1, <2>3, <2>4
  <1>2. ASSUME NEW i \in {j \in DOMAIN R : R[j].px > 0}, NEW tf \in Timeframes
        PROVE  KeyOf(R[i], tf) \in KeysOf(R)
    <2>1. R[i] \in Row
      OBVIOUS
    <2>2. i \in Inside(R, KeyOf(R[i], tf))
      BY <2>1, KeyTyped DEF Inside, Priced
    <2> QED  BY <2>1, <2>2, KeyTyped DEF KeysOf
  <1> QED  BY <1>1, <1>2

LEMMA BarsFound ==
  ASSUME NEW R \in Seq(Row)
  PROVE  BarsOf(R) = [k \in KeysOf(R) |-> BarOf(R, k)]
  BY KeysFound DEF BarsOf

\* The keys of the closed minutes of the index.
ClosedOf(R) == {k \in KeysOf(R) : k[1] = Spot /\ k[2] = OneMinute /\ Beyond(R, k) # {}}

SpotVolume(R, k) == Max({0, R[Min(Beyond(R, k))].vol - R[Min(Inside(R, k))].vol})

SpotBar(R, k) == [BarOf(R, k) EXCEPT !.volume = SpotVolume(R, k)]

LEMMA SpotBarsFound ==
  ASSUME NEW R \in Seq(Row)
  PROVE  SpotBarsOf(R) = [k \in ClosedOf(R) |-> SpotBar(R, k)]
  <1>1. ASSUME NEW i \in Priced(R, Spot)
        PROVE  KeyOf(R[i], OneMinute) \in KeysOf(R) /\ KeyOf(R[i], OneMinute)[1] = Spot /\ KeyOf(R[i], OneMinute)[2] = OneMinute
    <2>1. i \in DOMAIN R /\ R[i] \in Row /\ R[i].px > 0 /\ R[i].sym = Spot
      BY DEF Priced
    <2> QED  BY <2>1, KeysFound, KeyTyped, FramesTyped
  <1>2. ASSUME NEW k \in KeysOf(R), k[1] = Spot, k[2] = OneMinute
        PROVE  \E i \in Priced(R, Spot) : k = KeyOf(R[i], OneMinute)
    <2>1. PICK i : i \in Inside(R, k)
      BY DEF KeysOf
    <2>2. i \in Priced(R, Spot) /\ R[i].sym = Spot /\ Start(OneMinute, R[i].t) = k[3]
      BY <1>2, <2>1 DEF Inside, Priced
    <2>3. k = <<k[1], k[2], k[3]>>
      BY DEF KeysOf, BarKey
    <2> QED  BY <1>2, <2>2, <2>3 DEF KeyOf
  <1>3. {b \in {KeyOf(R[i], OneMinute) : i \in Priced(R, Spot)} : Beyond(R, b) # {}} = ClosedOf(R)
    BY <1>1, <1>2 DEF ClosedOf
  <1> QED  BY <1>3 DEF SpotBarsOf, SpotBar, SpotVolume

\* No bar of the symbol is later than that of the row.
LEMMA NoneLater ==
  ASSUME NEW R, NEW row, NEW S, Grown(R, row, S), NEW tf \in Timeframes
  PROVE  /\ \A i \in DOMAIN R : Start(tf, R[i].t) \in Nat /\ Start(tf, R[i].t) <= Start(tf, row.t)
         /\ Beyond(R, KeyOf(row, tf)) = {} /\ Beyond(S, KeyOf(row, tf)) = {}
  <1>1. row \in Row /\ row.t \in Nat /\ R \in Seq(Row) /\ tf \in Nat \ {0}
    BY FramesTyped DEF Grown, Row
  <1>2. ASSUME NEW i \in DOMAIN R PROVE Start(tf, R[i].t) \in Nat /\ Start(tf, R[i].t) <= Start(tf, row.t)
    <2>1. R[i] \in Row /\ R[i].t <= row.t
      BY <1>1 DEF Grown
    <2>2. R[i].t \in Nat
      BY <2>1 DEF Row
    <2> QED  BY <1>1, <2>1, <2>2, Starts
  <1>3. Start(tf, row.t) \in Nat
    BY <1>1, Starts
  <1>4. Beyond(R, KeyOf(row, tf)) = {}
    BY <1>1, <1>2, <1>3, KeyTyped DEF Beyond, Priced
  <1>5. ~(Start(tf, row.t) > Start(tf, row.t))
    BY <1>3
  <1> QED  BY <1>1, <1>2, <1>4, <1>5, KeyTyped, InsideGrow

\* The bar of another symbol stays, and an unpriced row changes none.
LEMMA OtherBar ==
  ASSUME NEW R, NEW row, NEW S, Grown(R, row, S), NEW k \in KeysOf(R),
         row.sym # k[1] \/ row.px = 0
  PROVE  k \in KeysOf(S) /\ BarOf(S, k) = BarOf(R, k) /\ Beyond(S, k) = Beyond(R, k) /\ Inside(S, k) = Inside(R, k)
  <1>1. Inside(S, k) = Inside(R, k) /\ Beyond(S, k) = Beyond(R, k)
    BY InsideGrow
  <1>2. k[3] \in Nat /\ Inside(R, k) # {}
    BY DEF KeysOf, BarKey
  <1>3. BarOf(S, k) = [BarOf(R, k) EXCEPT !.status = IF Beyond(S, k) = {} THEN "live" ELSE "historical"]
    BY <1>1, <1>2, BarStays
  <1>4. BarOf(S, k) = BarOf(R, k)
    BY <1>1, <1>3, BarShape
  <1> QED  BY <1>1, <1>4 DEF KeysOf

\* An earlier bar of the symbol is closed.
LEMMA OlderBar ==
  ASSUME NEW R, NEW row, NEW S, Grown(R, row, S), NEW k \in KeysOf(R),
         row.sym = k[1], row.px > 0, k[3] # Start(k[2], row.t)
  PROVE  /\ k \in KeysOf(S) /\ BarOf(S, k) = Historical(BarOf(R, k))
         /\ Inside(S, k) = Inside(R, k) /\ Beyond(S, k) = Beyond(R, k) \cup {Len(R) + 1}
  <1>1. k[3] \in Nat /\ Inside(R, k) # {} /\ k[2] \in Timeframes
    BY DEF KeysOf, BarKey
  <1>2. PICK i : i \in Inside(R, k)
    BY <1>1
  <1>3. i \in DOMAIN R /\ Start(k[2], R[i].t) = k[3]
    BY <1>2 DEF Inside, Priced
  <1>4. k[3] <= Start(k[2], row.t) /\ Start(k[2], row.t) \in Nat
    <2>1. PICK tf \in Timeframes : tf = k[2]
      BY <1>1
    <2>2. Start(tf, R[i].t) <= Start(tf, row.t)
      BY <1>3, NoneLater
    <2>3. row.t \in Nat
      BY DEF Grown, Row
    <2> QED  BY <1>3, <2>1, <2>2, <2>3, FramesTyped
  <1>5. Start(k[2], row.t) > k[3]
    BY <1>1, <1>4
  <1>6. Inside(S, k) = Inside(R, k) /\ Beyond(S, k) = Beyond(R, k) \cup {Len(R) + 1}
    BY <1>5, InsideGrow
  <1>7. BarOf(S, k) = [BarOf(R, k) EXCEPT !.status = IF Beyond(S, k) = {} THEN "live" ELSE "historical"]
    <2>1. Inside(S, k) = Inside(R, k) /\ Inside(R, k) # {} /\ k[3] \in Nat
      BY <1>1, <1>6
    <2> QED  BY <2>1, BarStays
  <1>8. Beyond(S, k) # {}
    BY <1>6
  <1> QED  BY <1>1, <1>6, <1>7, <1>8 DEF KeysOf, Historical

\* The bar of the row is begun, or goes on.
LEMMA ThisBar ==
  ASSUME NEW R, NEW row, NEW S, Grown(R, row, S), row.px > 0, NEW tf \in Timeframes
  PROVE  LET k == KeyOf(row, tf)
         IN  /\ k \in KeysOf(S)
             /\ Inside(S, k) = Inside(R, k) \cup {Len(R) + 1}
             /\ Inside(R, k) = {} => BarOf(S, k) = NewBar(k[3], row, Gain(S, Len(R) + 1))
             /\ Inside(R, k) # {} => BarOf(S, k) = Updated(BarOf(R, k), row, Gain(S, Len(R) + 1))
  <1>1. PICK k : k = KeyOf(row, tf)
    OBVIOUS
  <1>2. k \in BarKey /\ k[1] = row.sym /\ k[2] = tf /\ k[3] = Start(tf, row.t) /\ k[3] \in Nat
    BY <1>1, KeyTyped DEF Grown, BarKey
  <1>3. Inside(S, k) = Inside(R, k) \cup {Len(R) + 1}
    BY <1>2, InsideGrow
  <1>4. Beyond(R, k) = {} /\ Beyond(S, k) = {}
    BY <1>1, NoneLater
  <1>5. k \in KeysOf(S)
    BY <1>2, <1>3 DEF KeysOf
  <1>6. Inside(R, k) = {} => BarOf(S, k) = NewBar(k[3], row, Gain(S, Len(R) + 1))
    BY <1>3, <1>4, BarBegins
  <1>7. Inside(R, k) # {} => BarOf(S, k) = Updated(BarOf(R, k), row, Gain(S, Len(R) + 1))
    BY <1>2, <1>3, <1>4, BarGoesOn
  <1> QED  BY <1>1, <1>3, <1>5, <1>6, <1>7

\* The keys grow by those of the row.
LEMMA KeysGrow ==
  ASSUME NEW R, NEW row, NEW S, Grown(R, row, S)
  PROVE  KeysOf(S) = IF row.px > 0 THEN KeysOf(R) \cup {KeyOf(row, tf) : tf \in Timeframes} ELSE KeysOf(R)
  <1>0. row \in Row /\ row.px \in Nat
    BY DEF Grown, Row
  <1>1. CASE row.px > 0
    <2>1. ASSUME NEW k \in KeysOf(S), k \notin KeysOf(R) PROVE \E tf \in Timeframes : k = KeyOf(row, tf)
      <3>1. k \in BarKey /\ Inside(S, k) # {} /\ Inside(R, k) = {}
        BY <2>1 DEF KeysOf
      <3>2. row.sym = k[1] /\ Start(k[2], row.t) = k[3]
        BY <3>1, InsideGrow
      <3>3. k = <<k[1], k[2], k[3]>> /\ k[2] \in Timeframes
        BY <3>1 DEF BarKey
      <3> QED  BY <3>2, <3>3 DEF KeyOf
    <2>2. ASSUME NEW k \in KeysOf(R) PROVE k \in KeysOf(S)
      BY InsideGrow DEF KeysOf
    <2>3. \A tf \in Timeframes : KeyOf(row, tf) \in KeysOf(S)
      BY <1>1, ThisBar
    <2> QED  BY <1>1, <2>1, <2>2, <2>3
  <1>2. CASE ~(row.px > 0)
    BY <1>2, InsideGrow DEF KeysOf
  <1> QED  BY <1>1, <1>2

-----------------------------------------------------------------------------
(* What the two aggregators hold after the rows of a recording.            *)

\* The newest priced row of a symbol.
LastOf(R, s) == R[Max(Priced(R, s))]

BarNow(R, s, tf) == IF Priced(R, s) = {} THEN NoBar ELSE BarOf(R, KeyOf(LastOf(R, s), tf))

AggOf(R) ==
    [bars |-> [k \in Symbols \X Timeframes |-> BarNow(R, k[1], k[2])],
     seen |-> [s \in Symbols |-> IF Priced(R, s) = {} THEN 0 ELSE LastOf(R, s).vol]]

\* The volume field of the running minute is the volume its first row showed.
RunningMinute(R) ==
    IF Priced(R, Spot) = {} THEN NoBar
    ELSE [BarNow(R, Spot, OneMinute) EXCEPT !.volume = R[Min(Inside(R, KeyOf(LastOf(R, Spot), OneMinute)))].vol]

LEMMA LastIs ==
  ASSUME NEW R \in Seq(Row), NEW s, Priced(R, s) # {}
  PROVE  /\ LastOf(R, s) \in Row /\ LastOf(R, s).sym = s /\ LastOf(R, s).px > 0
         /\ Max(Priced(R, s)) \in Priced(R, s) /\ \A i \in Priced(R, s) : i <= Max(Priced(R, s))
         /\ \A tf \in Timeframes : /\ Max(Priced(R, s)) \in Inside(R, KeyOf(LastOf(R, s), tf))
                                   /\ KeyOf(LastOf(R, s), tf) \in KeysOf(R)
  <1>1. Priced(R, s) \in SUBSET (1..Len(R)) /\ Len(R) \in Nat
    BY PricedPositions
  <1>2. PICK m : m = Max(Priced(R, s))
    OBVIOUS
  <1>3. m \in Priced(R, s) /\ \A i \in Priced(R, s) : i \in Int /\ m \in Int /\ m >= i
    BY <1>1, <1>2, Positions
  <1>4. R[m] \in Row /\ R[m].sym = s /\ R[m].px > 0
    BY <1>3 DEF Priced
  <1>5. ASSUME NEW tf \in Timeframes PROVE m \in Inside(R, KeyOf(R[m], tf)) /\ KeyOf(R[m], tf) \in KeysOf(R)
    <2>1. m \in Inside(R, KeyOf(R[m], tf))
      BY <1>3, <1>4, KeyTyped DEF Inside
    <2> QED  BY <1>4, <2>1, KeyTyped DEF KeysOf
  <1> QED  BY <1>2, <1>3, <1>4, <1>5 DEF LastOf

LEMMA LastGrow ==
  ASSUME NEW R, NEW row, NEW S, Grown(R, row, S), NEW s
  PROVE  /\ row.sym = s /\ row.px > 0 => Priced(S, s) # {} /\ LastOf(S, s) = row
         /\ ~(row.sym = s /\ row.px > 0) =>
              /\ Priced(S, s) = Priced(R, s)
              /\ Priced(R, s) # {} => LastOf(S, s) = LastOf(R, s)
  <1>0. R \in Seq(Row)
    BY DEF Grown
  <1>1. CASE row.sym = s /\ row.px > 0
    <2>1. PICK n : n = Len(R) + 1
      OBVIOUS
    <2>2. Priced(S, s) = Priced(R, s) \cup {n} /\ n \in Nat /\ S[n] = row
      BY <1>1, <2>1, PricedGrow, Grows
    <2>3. \A i \in Priced(R, s) : i \in Nat /\ i <= n
      BY <1>0, <2>1, PricedPositions
    <2>4. Max(Priced(R, s) \cup {n}) = n
      BY <2>2, <2>3, IsMax
    <2> QED  BY <1>1, <2>2, <2>4 DEF LastOf
  <1>2. CASE ~(row.sym = s /\ row.px > 0)
    <2>1. Priced(S, s) = Priced(R, s)
      BY <1>2, PricedGrow
    <2>2. CASE Priced(R, s) # {}
      <3>1. Max(Priced(R, s)) \in 1..Len(R)
        BY <1>0, <2>2, LastIs, PricedPositions
      <3>2. S[Max(Priced(R, s))] = R[Max(Priced(R, s))]
        BY <3>1, Grows
      <3> QED  BY <1>2, <2>1, <3>2 DEF LastOf
    <2> QED  BY <1>2, <2>1, <2>2
  <1> QED  BY <1>1, <1>2

\* A bar that no row has left behind is the one of the newest row.
LEMMA OpenIsLast ==
  ASSUME NEW R \in Seq(Row), Ordered(R), NEW k \in KeysOf(R), Beyond(R, k) = {}
  PROVE  Priced(R, k[1]) # {} /\ k = KeyOf(LastOf(R, k[1]), k[2])
  <1>1. k \in BarKey /\ k = <<k[1], k[2], k[3]>> /\ k[2] \in Timeframes /\ k[3] \in Nat
    BY DEF KeysOf, BarKey
  <1>2. PICK i : i \in Inside(R, k)
    BY DEF KeysOf
  <1>3. i \in Priced(R, k[1]) /\ Start(k[2], R[i].t) = k[3]
    BY <1>2 DEF Inside
  <1>4. PICK s, m, tf : s = k[1] /\ m = Max(Priced(R, s)) /\ tf = k[2]
    OBVIOUS
  <1>5. m \in Priced(R, s) /\ i <= m /\ m \in DOMAIN R /\ i \in DOMAIN R
    <2>1. i \in Priced(R, s)
      BY <1>3, <1>4
    <2>2. m \in Priced(R, s) /\ i <= m
      BY <1>4, <2>1, LastIs
    <2> QED  BY <2>1, <2>2 DEF Priced
  <1>6. R[m] \in Row /\ R[i] \in Row /\ R[i].t <= R[m].t
    <2>1. i = m \/ i < m
      BY <1>5
    <2>2. R[m] \in Row /\ R[i] \in Row
      BY <1>5
    <2> QED  BY <1>5, <2>1, <2>2, SMTT(30) DEF Ordered, Row
  <1>7. R[m].t \in Nat /\ R[i].t \in Nat /\ tf \in Nat \ {0} /\ tf \in Timeframes
    BY <1>1, <1>4, <1>6, FramesTyped DEF Row
  <1>8. Start(tf, R[i].t) <= Start(tf, R[m].t) /\ Start(tf, R[m].t) \in Nat
    BY <1>6, <1>7, Starts
  <1>9. ~(Start(tf, R[m].t) > k[3])
    BY <1>4, <1>5 DEF Beyond
  <1>10. Start(tf, R[m].t) = k[3]
    BY <1>1, <1>3, <1>4, <1>8, <1>9
  <1>11. R[m].sym = s
    BY <1>5 DEF Priced
  <1> QED  BY <1>1, <1>3, <1>4, <1>10, <1>11 DEF LastOf, KeyOf

\* The bar an aggregator holds is the newest, and no row is beyond it.
LEMMA BarNowIs ==
  ASSUME NEW R \in Seq(Row), Ordered(R), NEW s \in Symbols, NEW tf \in Timeframes, Priced(R, s) # {}
  PROVE  LET k == KeyOf(LastOf(R, s), tf)
         IN  /\ k \in KeysOf(R) /\ k[1] = s /\ k[2] = tf /\ Beyond(R, k) = {}
             /\ BarNow(R, s, tf) = BarOf(R, k) /\ BarOf(R, k) \in Bar /\ BarOf(R, k).ts = k[3]
             /\ BarNow(R, s, tf) # NoBar
  <1>1. PICK last, k, m : last = LastOf(R, s) /\ k = KeyOf(last, tf) /\ m = Max(Priced(R, s))
    OBVIOUS
  <1>2. last \in Row /\ last.sym = s /\ k \in KeysOf(R) /\ m \in Priced(R, s) /\ \A i \in Priced(R, s) : i <= m
    BY <1>1, LastIs
  <1>3. k[1] = s /\ k[2] = tf /\ k[3] = Start(tf, last.t) /\ k[3] \in Nat /\ Inside(R, k) # {}
    BY <1>1, <1>2, KeyTyped DEF KeysOf, BarKey
  <1>4. ASSUME NEW i \in Priced(R, s) PROVE ~(Start(tf, R[i].t) > Start(tf, last.t))
    <2>1. i \in DOMAIN R /\ m \in DOMAIN R /\ i <= m
      BY <1>2 DEF Priced
    <2>2. R[i] \in Row /\ R[m] \in Row /\ last = R[m]
      BY <1>1, <2>1 DEF LastOf
    <2>3. i = m \/ i < m
      BY <2>1
    <2>4. R[i].t <= R[m].t /\ R[i].t \in Nat /\ R[m].t \in Nat
      BY <2>1, <2>2, <2>3 DEF Ordered, Row
    <2>5. tf \in Nat \ {0}
      BY FramesTyped
    <2>6. Start(tf, R[i].t) <= Start(tf, R[m].t) /\ Start(tf, R[i].t) \in Nat /\ Start(tf, R[m].t) \in Nat
      BY <2>4, <2>5, Starts
    <2> QED  BY <2>2, <2>6
  <1>5. Beyond(R, k) = {}
    BY <1>3, <1>4 DEF Beyond
  <1>6. BarOf(R, k) \in Bar /\ BarOf(R, k).ts = k[3]
    BY <1>3, BarType, BarShape
  <1>7. BarOf(R, k) # NoBar
    <2>1. NoBar.ts = -1
      BY DEF NoBar
    <2> QED  BY <1>3, <1>6, <2>1
  <1> QED  BY <1>1, <1>2, <1>3, <1>5, <1>6, <1>7 DEF BarNow

\* The increment the aggregator computes is the gain of the row.
LEMMA IncrementIsGain ==
  ASSUME NEW R, NEW row, NEW S, Grown(R, row, S)
  PROVE  Increment(AggOf(R), row) = Gain(S, Len(R) + 1)
  <1>1. PICK n, s : n = Len(R) + 1 /\ s = row.sym
    OBVIOUS
  <1>2. R \in Seq(Row) /\ s \in Symbols /\ S[n] = row
    BY <1>1, Grows DEF Grown, Row
  <1>3. {j \in Priced(S, s) : j < n} = Priced(R, s)
    <2>1. \A j \in Priced(R, s) : j < n
      BY <1>1, <1>2, PricedPositions
    <2>2. ~(n < n)
      BY <1>1, Grows
    <2> QED  BY <1>1, <2>1, <2>2, PricedGrow
  <1>4. AggOf(R).seen[s] = IF Priced(R, s) = {} THEN 0 ELSE LastOf(R, s).vol
    BY <1>2 DEF AggOf
  <1>5. CASE Priced(R, s) = {}
    BY <1>1, <1>2, <1>3, <1>4, <1>5 DEF Increment, Gain
  <1>6. CASE Priced(R, s) # {}
    <2>1. PICK m : m = Max(Priced(R, s))
      OBVIOUS
    <2>2. m \in 1..Len(R)
      BY <1>2, <1>6, <2>1, LastIs, PricedPositions
    <2>3. S[m] = R[m] /\ LastOf(R, s) = R[m]
      BY <2>1, <2>2, Grows DEF LastOf
    <2> QED  BY <1>1, <1>2, <1>3, <1>4, <1>6, <2>1, <2>3 DEF Increment, Gain
  <1> QED  BY <1>5, <1>6

\* The bar the aggregator goes on with is the bar of the row.
LEMMA NextIsBar ==
  ASSUME NEW R, NEW row, NEW S, Grown(R, row, S), Ordered(R), row.px > 0, NEW tf \in Timeframes
  PROVE  NextBar(BarNow(R, row.sym, tf), row, tf, Gain(S, Len(R) + 1)) = BarOf(S, KeyOf(row, tf))
  <1>1. PICK s, g, k : s = row.sym /\ g = Gain(S, Len(R) + 1) /\ k = KeyOf(row, tf)
    OBVIOUS
  <1>2. R \in Seq(Row) /\ s \in Symbols /\ row \in Row /\ Start(tf, row.t) \in Nat
    BY <1>1, FramesTyped DEF Grown, Row
  <1>3. k[1] = s /\ k[2] = tf /\ k[3] = Start(tf, row.t)
    BY <1>1, <1>2, KeyTyped
  <1>4. CASE Priced(R, s) = {}
    <2>1. BarNow(R, s, tf).ts = -1
      BY <1>4 DEF BarNow, NoBar
    <2>2. Inside(R, k) = {}
      BY <1>3, <1>4 DEF Inside
    <2>3. BarOf(S, k) = NewBar(k[3], row, g)
      BY <1>1, <2>2, ThisBar
    <2> QED  BY <1>1, <1>2, <1>3, <2>1, <2>3 DEF NextBar
  <1>5. CASE Priced(R, s) # {}
    <2>1. PICK last, old : last = LastOf(R, s) /\ old = KeyOf(last, tf)
      OBVIOUS
    <2>2. /\ old \in KeysOf(R) /\ Beyond(R, old) = {} /\ BarNow(R, s, tf) = BarOf(R, old) /\ BarOf(R, old).ts = old[3]
          /\ old[1] = s /\ old[2] = tf
      BY <1>2, <1>5, <2>1, BarNowIs
    <2>3. old = <<s, tf, old[3]>> /\ k = <<s, tf, k[3]>> /\ old[3] \in Nat /\ Inside(R, old) # {}
      BY <1>1, <1>3, <2>2 DEF KeysOf, BarKey, KeyOf
    <2>4. old[3] <= k[3]
      <3>1. PICK i : i \in Inside(R, old)
        BY <2>3
      <3>2. i \in DOMAIN R /\ Start(tf, R[i].t) = old[3]
        BY <2>2, <3>1 DEF Inside, Priced
      <3> QED  BY <1>3, <3>2, NoneLater
    <2>5. CASE k[3] > old[3]
      <3>1. ASSUME NEW i \in Inside(R, k) PROVE FALSE
        <4>1. i \in Priced(R, s) /\ Start(tf, R[i].t) = k[3]
          BY <1>3 DEF Inside
        <4> QED  BY <2>2, <2>5, <4>1 DEF Beyond
      <3>2. BarOf(S, k) = NewBar(k[3], row, g)
        BY <1>1, <3>1, ThisBar
      <3> QED  BY <1>1, <1>3, <2>2, <2>5, <3>2 DEF NextBar
    <2>6. CASE k[3] = old[3]
      <3>1. k = old
        BY <2>3, <2>6
      <3>2. BarOf(S, k) = Updated(BarOf(R, k), row, g)
        <4>1. Inside(R, k) # {}
          BY <2>3, <3>1
        <4> QED  BY <1>1, <4>1, ThisBar
      <3> QED  BY <1>1, <1>2, <1>3, <2>2, <3>1, <3>2 DEF NextBar
    <2> QED  BY <1>2, <1>3, <2>3, <2>4, <2>5, <2>6
  <1> QED  BY <1>4, <1>5

\* The bar of a symbol changes with its priced rows only.
LEMMA BarNowStays ==
  ASSUME NEW R, NEW row, NEW S, Grown(R, row, S), NEW s \in Symbols, NEW tf \in Timeframes,
         row.sym # s \/ row.px = 0
  PROVE  BarNow(S, s, tf) = BarNow(R, s, tf)
  <1>0. R \in Seq(Row)
    BY DEF Grown
  <1>1. Priced(S, s) = Priced(R, s) /\ (Priced(R, s) # {} => LastOf(S, s) = LastOf(R, s))
    BY LastGrow
  <1>2. CASE Priced(R, s) # {}
    <2>1. PICK k : k = KeyOf(LastOf(R, s), tf)
      OBVIOUS
    <2>2. k \in KeysOf(R) /\ k[1] = s
      BY <1>0, <1>2, <2>1, LastIs, KeyTyped
    <2>3. BarOf(S, k) = BarOf(R, k)
      BY <2>2, OtherBar
    <2> QED  BY <1>1, <1>2, <2>1, <2>3 DEF BarNow
  <1> QED  BY <1>1, <1>2 DEF BarNow

\* process_tick keeps the aggregator at the newest bars.
LEMMA AggStep ==
  ASSUME NEW R, NEW row, NEW S, Grown(R, row, S), Ordered(R)
  PROVE  Aggregated(AggOf(R), row) = AggOf(S)
  <1>1. row \in Row /\ row.px \in Nat /\ row.sym \in Symbols
    BY DEF Grown, Row
  <1>2. CASE row.px = 0
    <2>1. \A k \in Symbols \X Timeframes : BarNow(S, k[1], k[2]) = BarNow(R, k[1], k[2])
      BY <1>2, BarNowStays
    <2>2. \A s \in Symbols : Priced(S, s) = Priced(R, s) /\ (Priced(R, s) # {} => LastOf(S, s) = LastOf(R, s))
      BY <1>2, LastGrow
    <2>3. AggOf(S) = AggOf(R)
      BY <2>1, <2>2 DEF AggOf
    <2> QED  BY <1>2, <2>3 DEF Aggregated
  <1>3. CASE row.px > 0
    <2>1. PICK g : g = Gain(S, Len(R) + 1)
      OBVIOUS
    <2>2. \A k \in Symbols \X Timeframes :
             BarNow(S, k[1], k[2]) = IF k[1] = row.sym THEN NextBar(BarNow(R, k[1], k[2]), row, k[2], g)
                                                       ELSE BarNow(R, k[1], k[2])
      <3> SUFFICES ASSUME NEW k \in Symbols \X Timeframes
                   PROVE  BarNow(S, k[1], k[2]) = IF k[1] = row.sym THEN NextBar(BarNow(R, k[1], k[2]), row, k[2], g)
                                                                    ELSE BarNow(R, k[1], k[2])
        OBVIOUS
      <3>1. PICK s, tf : s = k[1] /\ tf = k[2] /\ s \in Symbols /\ tf \in Timeframes
        OBVIOUS
      <3>2. CASE s = row.sym
        <4>1. BarNow(S, s, tf) = BarOf(S, KeyOf(row, tf))
          BY <1>3, <3>2, LastGrow DEF BarNow
        <4> QED  BY <1>3, <2>1, <3>1, <3>2, <4>1, NextIsBar
      <3>3. CASE s # row.sym
        BY <3>1, <3>3, BarNowStays
      <3> QED  BY <3>1, <3>2, <3>3
    <2>3. Increment(AggOf(R), row) = g
      BY <2>1, IncrementIsGain
    <2>4. [k \in DOMAIN AggOf(R).bars |->
              IF k[1] = row.sym THEN NextBar(AggOf(R).bars[k], row, k[2], g) ELSE AggOf(R).bars[k]] = AggOf(S).bars
      BY <2>2 DEF AggOf
    <2>5. [AggOf(R).seen EXCEPT ![row.sym] = row.vol] = AggOf(S).seen
      <3>1. \A s \in Symbols : /\ s = row.sym => Priced(S, s) # {} /\ LastOf(S, s) = row
                               /\ s # row.sym => /\ Priced(S, s) = Priced(R, s)
                                                 /\ Priced(R, s) # {} => LastOf(S, s) = LastOf(R, s)
        BY <1>3, LastGrow
      <3> QED  BY <1>1, <3>1 DEF AggOf
    <2>6. Aggregated(AggOf(R), row) = [bars |-> AggOf(S).bars, seen |-> AggOf(S).seen]
      BY <1>1, <1>3, <2>3, <2>4, <2>5 DEF Aggregated
    <2> QED  BY <2>6 DEF AggOf
  <1> QED  BY <1>1, <1>2, <1>3
-----------------------------------------------------------------------------
(* The commands an aggregator gives for a row.                             *)

BarCommand == [op : {"bar"}, key : BarKey, bar : Bar] \cup [op : {"trigger"}, key : BarKey]

WritesBar(cmd, k) == cmd.op = "bar" /\ cmd.key = k

\* The commands c take the bars F to the bars G: they write bars of G only, none
\* of F that was closed, and announce a closed bar after its last write.
Faithful(c, F, G) ==
    /\ c \in Seq(BarCommand)
    /\ \A i \in DOMAIN c : c[i].op = "bar" =>
          /\ c[i].key \in DOMAIN G /\ c[i].bar = G[c[i].key]
          /\ c[i].key \in DOMAIN F => F[c[i].key].status # "historical"
    /\ \A i \in DOMAIN c : c[i].op = "trigger" =>
          /\ c[i].key \in DOMAIN G /\ G[c[i].key].status = "historical"
          /\ \A j \in DOMAIN c : j > i => ~WritesBar(c[j], c[i].key)

\* What they do not write was there before.
Covered(c, F, G) ==
    /\ DOMAIN F \subseteq DOMAIN G
    /\ \A k \in DOMAIN G : (\A i \in DOMAIN c : ~WritesBar(c[i], k)) => k \in DOMAIN F /\ F[k] = G[k]

LEMMA NothingFaithful == \A F, G : Faithful(<<>>, F, G)
  BY DEF Faithful

\* Where the commands of two sequences are when they are joined.
LEMMA JoinedParts ==
  ASSUME NEW X, NEW c \in Seq(X), NEW d \in Seq(X), NEW e, e = c \o d
  PROVE  /\ e \in Seq(X) /\ Len(c) \in Nat /\ Len(d) \in Nat /\ DOMAIN e = 1..(Len(c) + Len(d))
         /\ DOMAIN c = 1..Len(c) /\ DOMAIN d = 1..Len(d)
         /\ \A i \in DOMAIN e : /\ i \in DOMAIN c => e[i] = c[i]
                               /\ i \notin DOMAIN c => i - Len(c) \in DOMAIN d /\ e[i] = d[i - Len(c)]
         /\ \A i \in DOMAIN c : i \in DOMAIN e /\ e[i] = c[i]
         /\ \A i \in DOMAIN d : i + Len(c) \in DOMAIN e /\ e[i + Len(c)] = d[i]
  <1>1. /\ e \in Seq(X) /\ Len(c) \in Nat /\ Len(d) \in Nat /\ DOMAIN e = 1..(Len(c) + Len(d))
        /\ DOMAIN c = 1..Len(c) /\ DOMAIN d = 1..Len(d)
    OBVIOUS
  <1>2. \A i \in 1..(Len(c) + Len(d)) : e[i] = IF i <= Len(c) THEN c[i] ELSE d[i - Len(c)]
    OBVIOUS
  <1> QED  BY <1>1, <1>2

LEMMA FaithfulJoin ==
  ASSUME NEW c, NEW d, NEW F, NEW G, Faithful(c, F, G), Faithful(d, F, G),
         \A i \in DOMAIN c : c[i].op = "trigger" => \A j \in DOMAIN d : ~WritesBar(d[j], c[i].key)
  PROVE  Faithful(c \o d, F, G)
  <1>1. c \in Seq(BarCommand) /\ d \in Seq(BarCommand) /\ Len(c) \in Nat /\ Len(d) \in Nat
    BY DEF Faithful
  <1>2. PICK e, m, n : e = c \o d /\ m = Len(c) /\ n = Len(d)
    OBVIOUS
  <1>3. /\ e \in Seq(BarCommand) /\ DOMAIN e = 1..(m + n) /\ DOMAIN c = 1..m /\ DOMAIN d = 1..n
        /\ m \in Nat /\ n \in Nat
    BY <1>1, <1>2, JoinedParts
  <1>4. \A i \in DOMAIN e : /\ i \in DOMAIN c => e[i] = c[i]
                            /\ i \notin DOMAIN c => i - m \in DOMAIN d /\ e[i] = d[i - m]
    BY <1>1, <1>2, JoinedParts
  <1>5. \A i \in DOMAIN e : e[i].op = "bar" =>
          /\ e[i].key \in DOMAIN G /\ e[i].bar = G[e[i].key]
          /\ e[i].key \in DOMAIN F => F[e[i].key].status # "historical"
    BY <1>4 DEF Faithful
  <1>6. ASSUME NEW i \in DOMAIN e, e[i].op = "trigger"
        PROVE  /\ e[i].key \in DOMAIN G /\ G[e[i].key].status = "historical"
               /\ \A j \in DOMAIN e : j > i => ~WritesBar(e[j], e[i].key)
    <2>1. e[i].key \in DOMAIN G /\ G[e[i].key].status = "historical"
      BY <1>4, <1>6 DEF Faithful
    <2>2. ASSUME NEW j \in DOMAIN e, j > i PROVE ~WritesBar(e[j], e[i].key)
      <3>1. CASE i \in DOMAIN c /\ j \in DOMAIN c
        BY <1>4, <1>6, <2>2, <3>1 DEF Faithful
      <3>2. CASE i \in DOMAIN c /\ j \notin DOMAIN c
        BY <1>4, <1>6, <3>2
      <3>3. CASE i \notin DOMAIN c
        <4>1. j \notin DOMAIN c /\ i - m \in DOMAIN d /\ j - m \in DOMAIN d /\ j - m > i - m
          BY <1>3, <1>4, <2>2, <3>3
        <4>2. e[i] = d[i - m] /\ e[j] = d[j - m]
          BY <1>4, <3>3, <4>1
        <4> QED  BY <1>6, <4>1, <4>2 DEF Faithful
      <3> QED  BY <3>1, <3>2, <3>3
    <2> QED  BY <2>1, <2>2
  <1> QED  BY <1>2, <1>3, <1>5, <1>6 DEF Faithful

\* The bars of a symbol that a row may write, one timeframe at a time.
OpenKeys(R, row, tf) ==
    {KeyOf(row, tf)} \cup {k \in KeysOf(R) : Priced(R, row.sym) # {} /\ k = KeyOf(LastOf(R, row.sym), tf)}

\* Commands for bars of one timeframe.
OfFrame(c, tf) == \A i \in DOMAIN c : c[i].key[2] = tf

LEMMA FrameFaithful ==
  ASSUME NEW R, NEW row, NEW S, Grown(R, row, S), Ordered(R), row.px > 0, NEW tf \in Timeframes,
         NEW c, c = BarCommands(BarNow(R, row.sym, tf), row, tf, Gain(S, Len(R) + 1))
  PROVE  /\ Faithful(c, BarsOf(R), BarsOf(S))
         /\ OfFrame(c, tf)
         /\ \A k \in OpenKeys(R, row, tf) : \E i \in DOMAIN c : WritesBar(c[i], k)
  <1>1. PICK s, g, key, bar, F, G :
           /\ s = row.sym /\ g = Gain(S, Len(R) + 1) /\ key = KeyOf(row, tf) /\ bar = BarNow(R, s, tf)
           /\ F = BarsOf(R) /\ G = BarsOf(S)
    OBVIOUS
  <1>2. R \in Seq(Row) /\ S \in Seq(Row) /\ s \in Symbols /\ row \in Row /\ Start(tf, row.t) \in Nat
    BY <1>1, Grows, FramesTyped DEF Grown, Row
  <1>3. F = [k \in KeysOf(R) |-> BarOf(R, k)] /\ G = [k \in KeysOf(S) |-> BarOf(S, k)]
    BY <1>1, <1>2, BarsFound
  <1>4. key \in KeysOf(S) /\ key = <<s, tf, Start(tf, row.t)>> /\ key \in BarKey /\ key[3] = Start(tf, row.t) /\ key[2] = tf
    BY <1>1, <1>2, ThisBar, KeyTyped DEF KeyOf
  <1>5. BarOf(S, key) \in Bar
    BY <1>2, <1>4, BarType DEF KeysOf, BarKey
  <1>6. PICK next : next = SetBar(s, tf, Start(tf, row.t), NextBar(bar, row, tf, g))
    OBVIOUS
  <1>7. next = [op |-> "bar", key |-> key, bar |-> G[key]]
    <2>1. NextBar(bar, row, tf, g) = BarOf(S, key)
      BY <1>1, NextIsBar
    <2> QED  BY <1>3, <1>4, <1>6, <2>1 DEF SetBar
  <1>8. next \in BarCommand
    BY <1>3, <1>4, <1>5, <1>7 DEF BarCommand
  <1>9. key \in DOMAIN F => F[key].status # "historical"
    <2>1. Beyond(R, key) = {}
      BY <1>1, NoneLater
    <2> QED  BY <1>3, <2>1, BarShape
  <1>10. Faithful(<<next>>, F, G)
    BY <1>3, <1>4, <1>7, <1>8, <1>9 DEF Faithful
  <1>11. CASE Priced(R, s) = {}
    <2>1. bar = NoBar
      BY <1>1, <1>11 DEF BarNow
    <2>2. c = <<next>>
      BY <1>1, <1>6, <2>1 DEF BarCommands
    <2>3. OpenKeys(R, row, tf) = {key}
      BY <1>1, <1>11 DEF OpenKeys
    <2> QED  BY <1>1, <1>4, <1>7, <1>10, <2>2, <2>3 DEF WritesBar, OfFrame
  <1>12. CASE Priced(R, s) # {}
    <2>1. PICK last, old : last = LastOf(R, s) /\ old = KeyOf(last, tf)
      OBVIOUS
    <2>2. /\ old \in KeysOf(R) /\ Beyond(R, old) = {} /\ bar = BarOf(R, old) /\ bar.ts = old[3]
          /\ old[1] = s /\ old[2] = tf /\ bar # NoBar /\ bar \in Bar
      BY <1>1, <1>2, <1>12, <2>1, BarNowIs
    <2>3. old \in BarKey /\ old = <<s, tf, old[3]>> /\ old[3] \in Nat
      BY <2>2 DEF KeysOf, BarKey
    <2>4. OpenKeys(R, row, tf) = {key, old}
      BY <1>1, <1>12, <2>1, <2>2 DEF OpenKeys
    <2>5. CASE Start(tf, row.t) <= bar.ts
      <3>1. c = <<next>>
        BY <1>1, <1>6, <2>5 DEF BarCommands
      <3>2. old[3] = key[3]
        <4>1. PICK i : i \in Inside(R, old)
          BY <2>2 DEF KeysOf
        <4>2. i \in DOMAIN R /\ Start(tf, R[i].t) = old[3]
          BY <2>2, <4>1 DEF Inside, Priced
        <4>3. old[3] <= Start(tf, row.t)
          BY <4>2, NoneLater
        <4> QED  BY <1>2, <1>4, <2>2, <2>3, <2>5, <4>3
      <3>3. old = key
        BY <1>4, <2>3, <3>2
      <3> QED  BY <1>1, <1>4, <1>7, <1>10, <2>4, <3>1, <3>3 DEF WritesBar, OfFrame
    <2>6. CASE ~(Start(tf, row.t) <= bar.ts)
      <3>1. PICK close, said : /\ close = SetBar(s, tf, bar.ts, Historical(bar))
                               /\ said = IF tf = OneMinute THEN <<Trigger(s, bar.ts)>> ELSE <<>>
        OBVIOUS
      <3>2. c = (<<close>> \o said) \o <<next>>
        BY <1>1, <1>6, <2>2, <2>6, <3>1 DEF BarCommands
      <3>3. old[3] # Start(tf, row.t) /\ old # key
        BY <1>2, <1>4, <2>2, <2>3, <2>6
      <3>4. old \in KeysOf(S) /\ BarOf(S, old) = Historical(bar)
        BY <1>1, <2>2, <3>3, OlderBar
      <3>5. G[old] = Historical(bar) /\ old \in DOMAIN G
        BY <1>3, <3>4
      <3>6. G[old].status = "historical" /\ G[old] \in Bar
        BY <2>2, <3>5 DEF Historical, Bar
      <3>7. F[old].status # "historical"
        BY <1>3, <2>2, BarShape
      <3>8. close = [op |-> "bar", key |-> old, bar |-> G[old]]
        BY <2>2, <2>3, <3>1, <3>5 DEF SetBar
      <3>9. close \in BarCommand
        BY <2>3, <3>6, <3>8 DEF BarCommand
      <3>10. Faithful(<<close>>, F, G)
        BY <3>5, <3>7, <3>8, <3>9 DEF Faithful
      <3>11. CASE tf = OneMinute
        <4>1. PICK tell : tell = Trigger(s, bar.ts)
          OBVIOUS
        <4>2. tell = [op |-> "trigger", key |-> old]
          BY <2>2, <2>3, <3>11, <4>1 DEF Trigger
        <4>3. tell \in BarCommand
          BY <2>3, <4>2 DEF BarCommand
        <4>4. Faithful(<<tell>>, F, G)
          BY <3>5, <3>6, <4>2, <4>3 DEF Faithful
        <4>5. c = (<<close>> \o <<tell>>) \o <<next>>
          BY <3>1, <3>2, <3>11, <4>1
        <4>6. Faithful(<<close>> \o <<tell>>, F, G)
          BY <3>8, <3>10, <4>4, FaithfulJoin
        <4>7. PICK two : two = <<close>> \o <<tell>>
          OBVIOUS
        <4>8. Faithful(c, F, G)
          <5>1. DOMAIN two = 1..2 /\ two[1] = close /\ two[2] = tell
            BY <4>7
          <5>2. \A i \in DOMAIN two : two[i].op = "trigger" => two[i].key = old
            BY <3>8, <4>2, <5>1
          <5>3. \A j \in DOMAIN <<next>> : ~WritesBar(<<next>>[j], old)
            BY <1>7, <3>3 DEF WritesBar
          <5> QED  BY <1>10, <4>5, <4>6, <4>7, <5>2, <5>3, FaithfulJoin
        <4>9. c = <<close, tell, next>>
          BY <4>5
        <4>10. WritesBar(c[1], old) /\ WritesBar(c[3], key) /\ 1 \in DOMAIN c /\ 3 \in DOMAIN c
          BY <1>7, <3>8, <4>9 DEF WritesBar
        <4>11. OfFrame(c, tf)
          BY <1>4, <1>7, <2>2, <3>8, <4>2, <4>9 DEF OfFrame
        <4> QED  BY <1>1, <2>4, <4>8, <4>10, <4>11
      <3>12. CASE tf # OneMinute
        <4>1. c = <<close>> \o <<next>>
          BY <3>1, <3>2, <3>12
        <4>2. Faithful(c, F, G)
          <5>1. \A i \in DOMAIN <<close>> : <<close>>[i].op # "trigger"
            BY <3>8
          <5> QED  BY <1>10, <3>10, <4>1, <5>1, FaithfulJoin
        <4>3. c = <<close, next>>
          BY <4>1
        <4>4. WritesBar(c[1], old) /\ WritesBar(c[2], key) /\ 1 \in DOMAIN c /\ 2 \in DOMAIN c
          BY <1>7, <3>8, <4>3 DEF WritesBar
        <4>5. OfFrame(c, tf)
          BY <1>4, <1>7, <2>2, <3>8, <4>3 DEF OfFrame
        <4> QED  BY <1>1, <2>4, <4>2, <4>4, <4>5
      <3> QED  BY <3>11, <3>12
    <2> QED  BY <2>5, <2>6
  <1> QED  BY <1>11, <1>12

\* Sequences are flattened one after the other.
NextFlat(ss, i, flat) == IF i = 1 THEN ss[i] ELSE flat[i - 1] \o ss[i]

IsFlat(ss, flat) == flat = [i \in 1..Len(ss) |-> NextFlat(ss, i, flat)]

LEMMA FlatByOne ==
  ASSUME NEW ss, Len(ss) \in Nat, Len(ss) > 0
  PROVE  \E flat : /\ FlattenSeq(ss) = flat[Len(ss)]
                   /\ \A i \in 1..Len(ss) : flat[i] = IF i = 1 THEN ss[i] ELSE flat[i - 1] \o ss[i]
  <1> DEFINE N == Len(ss)
             Upto(n, flat) == \A i \in 1..n : flat[i] = NextFlat(ss, i, flat)
             Good == {n \in Nat : \E flat : Upto(n, flat)}
  <1>1. 0 \in Good
    OBVIOUS
  <1>2. ASSUME NEW n \in Good PROVE n + 1 \in Good
    <2>1. PICK flat : Upto(n, flat)
      OBVIOUS
    <2> DEFINE more == [i \in 1..(n + 1) |-> IF i <= n THEN flat[i] ELSE NextFlat(ss, i, flat)]
    <2>2. ASSUME NEW i \in 1..(n + 1) PROVE more[i] = NextFlat(ss, i, more)
      <3>1. more[i] = NextFlat(ss, i, flat)
        BY <2>1
      <3>2. i # 1 => more[i - 1] = flat[i - 1]
        OBVIOUS
      <3> QED  BY <3>1, <3>2 DEF NextFlat
    <2>3. \E f : Upto(n + 1, f)
      BY <2>2
    <2> QED  BY <2>3
  <1> HIDE DEF Good
  <1>3. Good = Nat
    BY <1>1, <1>2, NumberInduction DEF Good
  <1>4. PICK flat : Upto(Len(ss), flat)
    BY <1>3 DEF Good
  <1> DEFINE f == [i \in 1..Len(ss) |-> flat[i]]
  <1>5. \A i \in 1..Len(ss) : f[i] = NextFlat(ss, i, f)
    BY <1>4 DEF NextFlat
  <1>6. \E r : IsFlat(ss, r)
    BY <1>5 DEF IsFlat
  <1>7. IsFlat(ss, CHOOSE r : IsFlat(ss, r))
    BY <1>6
  <1>8. FlattenSeq(ss) = (CHOOSE r : IsFlat(ss, r))[Len(ss)]
    BY DEF FlattenSeq, IsFlat, NextFlat
  <1> QED  BY <1>7, <1>8, ZenonT(30) DEF IsFlat, NextFlat

\* The commands of the first n timeframes.
FramesDone(c, n, R, row, S) ==
    /\ Faithful(c, BarsOf(R), BarsOf(S))
    /\ \A i \in DOMAIN c : \E j \in 1..n : c[i].key[2] = TimeframeList[j]
    /\ \A j \in 1..n : \A k \in OpenKeys(R, row, TimeframeList[j]) : \E i \in DOMAIN c : WritesBar(c[i], k)

LEMMA AggregatorFrames ==
  ASSUME NEW R, NEW row, NEW S, Grown(R, row, S), Ordered(R), row.px > 0
  PROVE  FramesDone(AggregatorCommands(AggOf(R), row), Len(TimeframeList), R, row, S)
  <1>1. PICK N, F, G : N = Len(TimeframeList) /\ F = BarsOf(R) /\ G = BarsOf(S)
    OBVIOUS
  <1>2. /\ N \in Nat /\ N > 0 /\ DOMAIN TimeframeList = 1..N
        /\ \A i, j \in 1..N : i # j => TimeframeList[i] # TimeframeList[j]
        /\ \A i \in 1..N : TimeframeList[i] \in Timeframes
    <2>1. TimeframeList \in Seq(Nat \ {0}) /\ N > 0
      BY <1>1, ReplayAssumption
    <2>2. N \in Nat /\ DOMAIN TimeframeList = 1..N
      BY <1>1, <2>1
    <2> QED  BY <2>1, <2>2, ReplayAssumption, FramesTyped
  <1> DEFINE Frame(i) == BarCommands(BarNow(R, row.sym, TimeframeList[i]), row, TimeframeList[i], Gain(S, Len(R) + 1))
             ss == [i \in 1..N |-> Frame(i)]
  <1>3. AggregatorCommands(AggOf(R), row) = FlattenSeq(ss)
    <2>1. row.sym \in Symbols /\ row.px \in Nat
      BY DEF Grown, Row
    <2>2. \A i \in 1..N : AggOf(R).bars[<<row.sym, TimeframeList[i]>>] = BarNow(R, row.sym, TimeframeList[i])
      BY <1>2, <2>1 DEF AggOf
    <2>3. Increment(AggOf(R), row) = Gain(S, Len(R) + 1)
      BY IncrementIsGain
    <2>4. [i \in DOMAIN TimeframeList |->
              BarCommands(AggOf(R).bars[<<row.sym, TimeframeList[i]>>], row, TimeframeList[i], Increment(AggOf(R), row))] = ss
      BY <1>2, <2>2, <2>3
    <2>5. ~(row.px <= 0)
      BY <2>1
    <2>6. AggregatorCommands(AggOf(R), row) = FlattenSeq([i \in DOMAIN TimeframeList |->
              BarCommands(AggOf(R).bars[<<row.sym, TimeframeList[i]>>], row, TimeframeList[i], Increment(AggOf(R), row))])
      BY <2>5, Zenon DEF AggregatorCommands
    <2> QED  BY <2>4, <2>6, Zenon
  <1>4. Len(ss) = N
    BY <1>2
  <1>5. \A i \in 1..N : ss[i] = Frame(i)
    OBVIOUS
  <1> HIDE DEF ss
  <1>6. PICK flat : /\ FlattenSeq(ss) = flat[N]
                    /\ \A i \in 1..N : flat[i] = IF i = 1 THEN ss[i] ELSE flat[i - 1] \o ss[i]
    BY <1>2, <1>4, FlatByOne, SMTT(30)
  <1>7. ASSUME NEW i \in 1..N
        PROVE  /\ Faithful(ss[i], F, G)
               /\ OfFrame(ss[i], TimeframeList[i])
               /\ \A k \in OpenKeys(R, row, TimeframeList[i]) : \E m \in DOMAIN ss[i] : WritesBar(ss[i][m], k)
    <2>1. PICK tf, c : tf = TimeframeList[i] /\ c = ss[i]
      OBVIOUS
    <2>2. tf \in Timeframes /\ c = BarCommands(BarNow(R, row.sym, tf), row, tf, Gain(S, Len(R) + 1))
      BY <1>2, <1>5, <2>1
    <2>3. /\ Faithful(c, BarsOf(R), BarsOf(S))
          /\ OfFrame(c, tf)
          /\ \A k \in OpenKeys(R, row, tf) : \E m \in DOMAIN c : WritesBar(c[m], k)
      BY <2>2, FrameFaithful
    <2> QED  BY <1>1, <2>1, <2>3
  <1> HIDE DEF Frame
  <1> DEFINE Good == {n \in 0..N : n > 0 => FramesDone(flat[n], n, R, row, S)}
  <1>8. 0 \in Good
    BY <1>2
  <1>9. ASSUME NEW n \in 0..(N - 1), n \in Good PROVE n + 1 \in Good
    <2>1. n + 1 \in 1..N /\ n + 1 \in 0..N /\ n \in Nat
      BY <1>2
    <2>2. CASE n = 0
      <3>1. flat[1] = ss[1] /\ 1 \in 1..N
        BY <1>6, <2>1, <2>2
      <3>2. FramesDone(ss[1], 1, R, row, S)
        <4>1. PICK c : c = ss[1]
          OBVIOUS
        <4>2. /\ Faithful(c, F, G) /\ OfFrame(c, TimeframeList[1])
              /\ \A k \in OpenKeys(R, row, TimeframeList[1]) : \E m \in DOMAIN c : WritesBar(c[m], k)
          BY <1>7, <3>1, <4>1
        <4>3. 1..1 = {1}
          OBVIOUS
        <4> QED  BY <1>1, <4>1, <4>2, <4>3 DEF FramesDone, OfFrame
      <3> QED  BY <2>1, <2>2, <3>1, <3>2
    <2>3. CASE n > 0
      <3>1. PICK c, d : c = flat[n] /\ d = ss[n + 1]
        OBVIOUS
      <3>2. flat[n + 1] = c \o d
        <4>1. PICK p : p = n + 1
          OBVIOUS
        <4>2. p \in 1..N /\ p # 1 /\ p - 1 = n
          BY <2>1, <2>3, <4>1
        <4>3. flat[p] = flat[p - 1] \o ss[p]
          BY <1>6, <4>2
        <4> QED  BY <3>1, <4>1, <4>2, <4>3
      <3>3. FramesDone(c, n, R, row, S)
        BY <1>9, <2>3, <3>1
      <3>4. /\ Faithful(d, F, G)
            /\ OfFrame(d, TimeframeList[n + 1])
            /\ \A k \in OpenKeys(R, row, TimeframeList[n + 1]) : \E m \in DOMAIN d : WritesBar(d[m], k)
        BY <1>7, <2>1, <3>1
      <3>5. ASSUME NEW i \in DOMAIN c PROVE \A j \in DOMAIN d : ~WritesBar(d[j], c[i].key)
        <4>1. PICK j \in 1..n : c[i].key[2] = TimeframeList[j]
          BY <3>3 DEF FramesDone
        <4>2. TimeframeList[j] # TimeframeList[n + 1]
          BY <1>2, <2>1
        <4> QED  BY <3>4, <4>1, <4>2 DEF WritesBar, OfFrame
      <3>6. Faithful(c \o d, F, G)
        BY <1>1, <3>3, <3>4, <3>5, FaithfulJoin DEF FramesDone
      <3>7. PICK e : e = c \o d
        OBVIOUS
      <3>8. /\ c \in Seq(BarCommand) /\ d \in Seq(BarCommand)
            /\ \A i \in DOMAIN e : \/ i \in DOMAIN c /\ e[i] = c[i]
                                   \/ i - Len(c) \in DOMAIN d /\ e[i] = d[i - Len(c)]
            /\ \A i \in DOMAIN c : i \in DOMAIN e /\ e[i] = c[i]
            /\ \A i \in DOMAIN d : i + Len(c) \in DOMAIN e /\ e[i + Len(c)] = d[i]
        <4>1. c \in Seq(BarCommand) /\ d \in Seq(BarCommand)
          BY <3>3, <3>4 DEF Faithful, FramesDone
        <4> QED  BY <3>7, <4>1, JoinedParts
      <3>9. \A i \in DOMAIN e : \E j \in 1..(n + 1) : e[i].key[2] = TimeframeList[j]
        <4>1. \A i \in DOMAIN c : \E j \in 1..n : c[i].key[2] = TimeframeList[j]
          BY <3>3 DEF FramesDone
        <4>2. n + 1 \in 1..(n + 1) /\ \A j \in 1..n : j \in 1..(n + 1)
          BY <2>1
        <4>3. \A i \in DOMAIN d : d[i].key[2] = TimeframeList[n + 1]
          BY <3>4 DEF OfFrame
        <4>4. ASSUME NEW i \in DOMAIN e PROVE \E j \in 1..(n + 1) : e[i].key[2] = TimeframeList[j]
          <5>1. CASE i \in DOMAIN c /\ e[i] = c[i]
            BY <4>1, <4>2, <5>1
          <5>2. CASE i - Len(c) \in DOMAIN d /\ e[i] = d[i - Len(c)]
            BY <4>2, <4>3, <5>2
          <5> QED  BY <3>8, <5>1, <5>2
        <4> QED  BY <4>4
      <3>10. ASSUME NEW j \in 1..(n + 1), NEW k \in OpenKeys(R, row, TimeframeList[j])
             PROVE  \E i \in DOMAIN e : WritesBar(e[i], k)
        <4>1. CASE j \in 1..n
          <5>1. PICK i \in DOMAIN c : WritesBar(c[i], k)
            BY <3>3, <3>10, <4>1 DEF FramesDone
          <5> QED  BY <3>8, <5>1
        <4>2. CASE j = n + 1
          <5>1. PICK i \in DOMAIN d : WritesBar(d[i], k)
            BY <3>4, <3>10, <4>2
          <5> QED  BY <3>8, <5>1
        <4> QED  BY <2>1, <4>1, <4>2
      <3>11. FramesDone(e, n + 1, R, row, S)
        BY <1>1, <3>6, <3>7, <3>9, <3>10 DEF FramesDone
      <3> QED  BY <2>1, <3>2, <3>7, <3>11
    <2> QED  BY <2>1, <2>2, <2>3
  <1>10. N \in Good
    <2> HIDE DEF Good
    <2>1. Good \in SUBSET (0..N) /\ N \in Nat /\ N \in 0..N
      BY <1>2 DEF Good
    <2>2. \A n \in 0..(N - 1) : n \in Good => n + 1 \in Good
      BY <1>9
    <2> QED  BY <1>8, <2>1, <2>2, BoundedInduction
  <1> QED  BY <1>1, <1>2, <1>3, <1>6, <1>10

\* process_tick's commands take the bars of the tape to those with the row.
LEMMA AggregatorFaithful ==
  ASSUME NEW R, NEW row, NEW S, Grown(R, row, S), Ordered(R),
         NEW c, c = AggregatorCommands(AggOf(R), row)
  PROVE  Faithful(c, BarsOf(R), BarsOf(S)) /\ Covered(c, BarsOf(R), BarsOf(S))
  <1>0. R \in Seq(Row) /\ S \in Seq(Row) /\ row \in Row /\ row.px \in Nat
    BY Grows DEF Grown, Row
  <1>1. PICK F, G : F = BarsOf(R) /\ G = BarsOf(S)
    OBVIOUS
  <1>2. F = [k \in KeysOf(R) |-> BarOf(R, k)] /\ G = [k \in KeysOf(S) |-> BarOf(S, k)]
    BY <1>0, <1>1, BarsFound
  <1>3. CASE row.px = 0
    <2>1. c = <<>>
      BY <1>3 DEF AggregatorCommands
    <2>2. KeysOf(S) = KeysOf(R)
      BY <1>3, KeysGrow
    <2>3. \A k \in KeysOf(R) : BarOf(S, k) = BarOf(R, k)
      BY <1>3, OtherBar
    <2> QED  BY <1>1, <1>2, <2>1, <2>2, <2>3, NothingFaithful DEF Covered
  <1>4. CASE row.px > 0
    <2>1. FramesDone(c, Len(TimeframeList), R, row, S)
      BY <1>4, AggregatorFrames
    <2>2. KeysOf(S) = KeysOf(R) \cup {KeyOf(row, tf) : tf \in Timeframes}
      BY <1>4, KeysGrow
    <2>3. ASSUME NEW k \in KeysOf(S), \A i \in DOMAIN c : ~WritesBar(c[i], k)
          PROVE  k \in KeysOf(R) /\ BarOf(R, k) = BarOf(S, k)
      <3>1. ASSUME NEW tf \in Timeframes PROVE k \notin OpenKeys(R, row, tf)
        <4>1. PICK j \in 1..Len(TimeframeList) : tf = TimeframeList[j]
          BY ReplayAssumption DEF Timeframes
        <4> QED  BY <2>1, <2>3, <4>1 DEF FramesDone
      <3>2. k \in KeysOf(R)
        BY <2>2, <3>1 DEF OpenKeys
      <3>3. CASE row.sym # k[1]
        BY <3>2, <3>3, OtherBar
      <3>4. CASE row.sym = k[1]
        <4>1. k \in BarKey /\ k = <<k[1], k[2], k[3]>> /\ k[2] \in Timeframes
          BY <3>2 DEF KeysOf, BarKey
        <4>2. k # KeyOf(row, k[2])
          BY <3>1, <4>1 DEF OpenKeys
        <4>3. k[3] # Start(k[2], row.t)
          BY <3>4, <4>1, <4>2 DEF KeyOf
        <4>4. BarOf(S, k) = Historical(BarOf(R, k))
          BY <1>4, <3>2, <3>4, <4>3, OlderBar
        <4>5. Beyond(R, k) # {}
          BY <1>0, <3>1, <3>2, <3>4, <4>1, OpenIsLast DEF OpenKeys
        <4>6. BarOf(R, k).status = "historical"
          BY <4>5, BarShape
        <4>7. Historical(BarOf(R, k)) = BarOf(R, k)
          <5>1. PICK b : b = BarOf(R, k)
            OBVIOUS
          <5>2. b \in Bar /\ b.status = "historical"
            BY <1>0, <3>2, <4>6, <5>1, BarType DEF KeysOf, BarKey
          <5> QED  BY <5>1, <5>2 DEF Historical, Bar
        <4> QED  BY <3>2, <4>4, <4>7
      <3> QED  BY <3>3, <3>4
    <2> QED  BY <1>1, <1>2, <2>1, <2>2, <2>3 DEF FramesDone, Covered
  <1> QED  BY <1>0, <1>3, <1>4

-----------------------------------------------------------------------------
(* The minutes of the index in the script.                                 *)

LEMMA HistoricalShape ==
  ASSUME NEW ts, NEW open, NEW close, NEW high, NEW low, NEW vol, NEW st
  PROVE  Historical([ts |-> ts, open |-> open, close |-> close, high |-> high, low |-> low,
                     volume |-> vol, status |-> st])
           = [ts |-> ts, open |-> open, close |-> close, high |-> high, low |-> low,
              volume |-> vol, status |-> "historical"]
  BY DEF Historical

FirstVol(R, k) == R[Min(Inside(R, k))].vol

LEMMA FirstVolStays ==
  ASSUME NEW R, NEW row, NEW S, Grown(R, row, S), NEW k, Inside(R, k) # {}
  PROVE  FirstVol(S, k) = FirstVol(R, k) /\ FirstVol(R, k) \in Nat
  <1>1. PICK I, J, n : I = Inside(R, k) /\ J = Inside(S, k) /\ n = Len(R) + 1
    OBVIOUS
  <1>2. I \in SUBSET (1..Len(R)) /\ Len(R) \in Nat /\ (J = I \/ J = I \cup {n})
    <2>1. R \in Seq(Row)
      BY DEF Grown
    <2>2. I \in SUBSET (1..Len(R)) /\ Len(R) \in Nat
      BY <1>1, <2>1, InsidePositions
    <2>3. J = I \/ J = I \cup {n}
      BY <1>1, InsideGrow
    <2> QED  BY <2>2, <2>3
  <1>3. Min(I) \in I /\ \A i \in I : Min(I) <= i
    BY <1>1, <1>2, Positions
  <1>4. Min(I) <= n /\ J \in SUBSET Int
    BY <1>1, <1>2, <1>3
  <1>5. Min(J) = Min(I)
    BY <1>2, <1>3, <1>4, IsMin
  <1>6. S[Min(I)] = R[Min(I)] /\ R[Min(I)] \in Row
    BY <1>2, <1>3, Grows
  <1> QED  BY <1>1, <1>5, <1>6 DEF FirstVol, Row

\* A closed minute stays as it is.
LEMMA ClosedStays ==
  ASSUME NEW R, NEW row, NEW S, Grown(R, row, S), NEW k \in ClosedOf(R)
  PROVE  k \in ClosedOf(S) /\ SpotBar(S, k) = SpotBar(R, k)
  <1>0. /\ R \in Seq(Row) /\ k \in KeysOf(R) /\ k[1] = Spot /\ k[2] = OneMinute /\ Beyond(R, k) # {}
        /\ Inside(R, k) # {} /\ k \in BarKey
    BY DEF ClosedOf, KeysOf, Grown
  <1>1. PICK I, J, n : I = Beyond(R, k) /\ J = Beyond(S, k) /\ n = Len(R) + 1
    OBVIOUS
  <1>2. I \in SUBSET (1..Len(R)) /\ Len(R) \in Nat /\ (J = I \/ J = I \cup {n})
    BY <1>0, <1>1, InsidePositions, InsideGrow
  <1>3. Min(I) \in I /\ \A i \in I : Min(I) <= i
    BY <1>0, <1>1, <1>2, Positions
  <1>4. Min(I) <= n /\ J \in SUBSET Int
    BY <1>1, <1>2, <1>3
  <1>5. Min(J) = Min(I)
    BY <1>2, <1>3, <1>4, IsMin
  <1>6. S[Min(I)] = R[Min(I)]
    <2>1. Min(I) \in 1..Len(R)
      BY <1>2, <1>3
    <2> QED  BY <2>1, Grows
  <1>7. SpotVolume(S, k) = SpotVolume(R, k)
    <2>1. FirstVol(S, k) = FirstVol(R, k)
      BY <1>0, FirstVolStays
    <2>2. SpotVolume(S, k) = Max({0, S[Min(J)].vol - FirstVol(S, k)})
      BY <1>1 DEF SpotVolume, FirstVol
    <2>3. SpotVolume(R, k) = Max({0, R[Min(I)].vol - FirstVol(R, k)})
      BY <1>1 DEF SpotVolume, FirstVol
    <2> QED  BY <1>5, <1>6, <2>1, <2>2, <2>3
  <1>8. k \in KeysOf(S) /\ BarOf(S, k) = BarOf(R, k)
    <2>1. CASE row.sym # k[1] \/ row.px = 0
      BY <1>0, <2>1, OtherBar
    <2>2. CASE row.sym = k[1] /\ row.px # 0
      <3>1. row.px > 0 /\ row \in Row
        BY <2>2 DEF Grown, Row
      <3>2. k[3] # Start(k[2], row.t)
        <4>1. ASSUME k[3] = Start(k[2], row.t) PROVE k = KeyOf(row, OneMinute)
          <5>1. k = <<k[1], k[2], k[3]>>
            BY <1>0 DEF BarKey
          <5> QED  BY <1>0, <2>2, <4>1, <5>1 DEF KeyOf
        <4>2. Beyond(R, KeyOf(row, OneMinute)) = {}
          BY FramesTyped, NoneLater
        <4> QED  BY <1>0, <4>1, <4>2
      <3>3. k \in KeysOf(S) /\ BarOf(S, k) = Historical(BarOf(R, k))
        BY <1>0, <2>2, <3>1, <3>2, OlderBar
      <3>4. PICK b : b = BarOf(R, k)
        OBVIOUS
      <3>5. b \in Bar /\ b.status = "historical"
        BY <1>0, <3>4, BarType, BarShape DEF BarKey
      <3>6. Historical(b) = b
        BY <3>5 DEF Historical, Bar
      <3> QED  BY <3>3, <3>4, <3>6
    <2> QED  BY <2>1, <2>2
  <1>9. Beyond(S, k) # {}
    BY <1>0, <1>1, <1>2
  <1> QED  BY <1>0, <1>7, <1>8, <1>9 DEF ClosedOf, SpotBar

\* A row closes no minute but the running one.
LEMMA ClosedNew ==
  ASSUME NEW R, NEW row, NEW S, Grown(R, row, S), Ordered(R), NEW k \in ClosedOf(S), k \notin ClosedOf(R)
  PROVE  /\ row.sym = Spot /\ row.px > 0 /\ Priced(R, Spot) # {}
         /\ k = KeyOf(LastOf(R, Spot), OneMinute) /\ Start(OneMinute, row.t) > k[3]
  <1>0. /\ R \in Seq(Row) /\ k \in KeysOf(S) /\ k[1] = Spot /\ k[2] = OneMinute /\ Beyond(S, k) # {}
        /\ row \in Row /\ row.px \in Nat
    BY DEF ClosedOf, Grown, Row
  <1>1. k \in KeysOf(R)
    <2>1. ASSUME NEW tf \in Timeframes PROVE k # KeyOf(row, tf)
      BY <1>0, NoneLater
    <2> QED  BY <1>0, <2>1, KeysGrow
  <1>2. Beyond(R, k) = {}
    BY <1>0, <1>1 DEF ClosedOf
  <1>3. row.sym = Spot /\ row.px > 0 /\ Start(OneMinute, row.t) > k[3]
    BY <1>0, <1>2, InsideGrow
  <1>4. Priced(R, Spot) # {} /\ k = KeyOf(LastOf(R, Spot), OneMinute)
    BY <1>0, <1>1, <1>2, OpenIsLast
  <1> QED  BY <1>3, <1>4

\* The minute in the aggregator.
LEMMA MinuteIs ==
  ASSUME NEW R \in Seq(Row), Ordered(R), Priced(R, Spot) # {}
  PROVE  LET k == KeyOf(LastOf(R, Spot), OneMinute)
         IN  /\ k \in KeysOf(R) /\ k[1] = Spot /\ k[2] = OneMinute /\ Beyond(R, k) = {}
             /\ RunningMinute(R) = [BarOf(R, k) EXCEPT !.volume = FirstVol(R, k)]
             /\ BarOf(R, k) \in Bar /\ RunningMinute(R).ts = k[3] /\ RunningMinute(R) # NoBar
  <1>1. PICK k : k = KeyOf(LastOf(R, Spot), OneMinute)
    OBVIOUS
  <1>2. /\ k \in KeysOf(R) /\ k[1] = Spot /\ k[2] = OneMinute /\ Beyond(R, k) = {}
        /\ BarNow(R, Spot, OneMinute) = BarOf(R, k) /\ BarOf(R, k) \in Bar /\ BarOf(R, k).ts = k[3]
    <2>1. Spot \in Symbols /\ OneMinute \in Timeframes
      BY ReplayAssumption, FramesTyped
    <2> QED  BY <1>1, <2>1, BarNowIs
  <1>3. RunningMinute(R) = [BarOf(R, k) EXCEPT !.volume = FirstVol(R, k)]
    BY <1>1, <1>2 DEF RunningMinute, FirstVol
  <1>4. RunningMinute(R).ts = k[3] /\ k[3] \in Nat
    BY <1>2, <1>3 DEF Bar
  <1>5. RunningMinute(R) # NoBar
    <2>1. NoBar.ts = -1
      BY DEF NoBar
    <2> QED  BY <1>4, <2>1
  <1> QED  BY <1>1, <1>2, <1>3, <1>4, <1>5

\* Rows that are not priced rows of the index leave it alone.
LEMMA MinuteStays ==
  ASSUME NEW R, NEW row, NEW S, Grown(R, row, S), row.sym # Spot \/ row.px = 0
  PROVE  RunningMinute(S) = RunningMinute(R)
  <1>0. R \in Seq(Row) /\ Spot \in Symbols /\ OneMinute \in Timeframes
    BY ReplayAssumption, FramesTyped DEF Grown
  <1>1. Priced(S, Spot) = Priced(R, Spot) /\ (Priced(R, Spot) # {} => LastOf(S, Spot) = LastOf(R, Spot))
    BY LastGrow
  <1>2. CASE Priced(R, Spot) # {}
    <2>1. PICK k : k = KeyOf(LastOf(R, Spot), OneMinute)
      OBVIOUS
    <2>2. k \in KeysOf(R)
      BY <1>0, <1>2, <2>1, LastIs
    <2>3. FirstVol(S, k) = FirstVol(R, k)
      BY <2>2, FirstVolStays DEF KeysOf
    <2>4. BarNow(S, Spot, OneMinute) = BarNow(R, Spot, OneMinute)
      BY <1>0, BarNowStays
    <2> QED  BY <1>1, <1>2, <2>1, <2>3, <2>4 DEF RunningMinute, FirstVol
  <1> QED  BY <1>1, <1>2 DEF RunningMinute

\* process_tick of the script keeps the running minute.
LEMMA MinuteStep ==
  ASSUME NEW R, NEW row, NEW S, Grown(R, row, S), Ordered(R), row.sym = Spot
  PROVE  SpotAggregated(RunningMinute(R), row) = RunningMinute(S)
  <1>0. /\ R \in Seq(Row) /\ S \in Seq(Row) /\ row \in Row /\ row.px \in Nat /\ row.vol \in Nat
        /\ OneMinute \in Timeframes /\ Start(OneMinute, row.t) \in Nat
    BY Grows, FramesTyped DEF Grown, Row
  <1>1. CASE row.px = 0
    BY <1>0, <1>1, MinuteStays DEF SpotAggregated
  <1>2. CASE row.px > 0
    <2>1. PICK key, g, n : key = KeyOf(row, OneMinute) /\ g = Gain(S, Len(R) + 1) /\ n = Len(R) + 1
      OBVIOUS
    <2>2. key[1] = Spot /\ key[2] = OneMinute /\ key[3] = Start(OneMinute, row.t) /\ key = <<Spot, OneMinute, key[3]>>
      BY <1>0, <2>1, KeyTyped DEF KeyOf
    <2>3. RunningMinute(S) = [BarOf(S, key) EXCEPT !.volume = FirstVol(S, key)]
      BY <1>2, <2>1, LastGrow DEF RunningMinute, BarNow, FirstVol
    <2>4. /\ Inside(S, key) = Inside(R, key) \cup {n}
          /\ Inside(R, key) = {} => BarOf(S, key) = NewBar(key[3], row, g)
          /\ Inside(R, key) # {} => BarOf(S, key) = Updated(BarOf(R, key), row, g)
      BY <1>0, <1>2, <2>1, ThisBar
    <2>5. CASE Inside(R, key) = {}
      <3>1. FirstVol(S, key) = row.vol
        <4>1. Inside(S, key) = {n}
          BY <2>4, <2>5
        <4>2. Min({n}) = n /\ S[n] = row
          <5>1. n \in Int /\ S[n] = row
            BY <2>1, Grows
          <5> QED  BY <5>1, OnlyOne
        <4> QED  BY <4>1, <4>2 DEF FirstVol
      <3>2. RunningMinute(S) = NewBar(key[3], row, row.vol)
        BY <2>3, <2>4, <2>5, <3>1 DEF NewBar
      <3>3. CASE Priced(R, Spot) = {}
        BY <1>0, <1>2, <2>2, <3>2, <3>3 DEF RunningMinute, SpotAggregated
      <3>4. CASE Priced(R, Spot) # {}
        <4>1. PICK old : old = KeyOf(LastOf(R, Spot), OneMinute)
          OBVIOUS
        <4>2. old \in KeysOf(R) /\ old[1] = Spot /\ old[2] = OneMinute /\ RunningMinute(R).ts = old[3] /\ RunningMinute(R) # NoBar
          BY <1>0, <3>4, <4>1, MinuteIs
        <4>3. Inside(R, old) # {} /\ old[3] \in Nat /\ old = <<Spot, OneMinute, old[3]>>
          BY <4>2 DEF KeysOf, BarKey
        <4>4. old[3] <= key[3]
          <5>1. PICK i : i \in Inside(R, old)
            BY <4>3
          <5>2. i \in DOMAIN R /\ Start(OneMinute, R[i].t) = old[3]
            BY <4>2, <5>1 DEF Inside, Priced
          <5> QED  BY <1>0, <2>2, <5>2, NoneLater
        <4>5. old[3] # key[3]
          BY <2>2, <2>5, <4>3
        <4>6. Start(OneMinute, row.t) > RunningMinute(R).ts
          BY <1>0, <2>2, <4>2, <4>3, <4>4, <4>5
        <4>7. ClosesBar(RunningMinute(R), row)
          BY <1>2, <4>2, <4>6 DEF ClosesBar
        <4> QED  BY <1>0, <1>2, <2>2, <3>2, <4>7 DEF SpotAggregated
      <3> QED  BY <3>3, <3>4
    <2>6. CASE Inside(R, key) # {}
      <3>1. key \in KeysOf(R) /\ Beyond(R, key) = {}
        BY <1>0, <2>1, <2>6, KeyTyped, NoneLater DEF KeysOf
      <3>2. Priced(R, Spot) # {} /\ key = KeyOf(LastOf(R, Spot), OneMinute)
        BY <1>0, <2>2, <3>1, OpenIsLast
      <3>3. /\ RunningMinute(R) = [BarOf(R, key) EXCEPT !.volume = FirstVol(R, key)]
            /\ BarOf(R, key) \in Bar /\ RunningMinute(R).ts = key[3] /\ RunningMinute(R) # NoBar
        BY <1>0, <3>2, MinuteIs
      <3>4. FirstVol(S, key) = FirstVol(R, key) /\ FirstVol(R, key) \in Nat
        BY <2>6, FirstVolStays
      <3>5. ~ClosesBar(RunningMinute(R), row)
        BY <1>0, <2>2, <3>3 DEF ClosesBar
      <3>6. SpotAggregated(RunningMinute(R), row) = Updated(RunningMinute(R), row, 0)
        BY <1>0, <1>2, <3>3, <3>5 DEF SpotAggregated
      <3>7. PICK b, v : b = BarOf(R, key) /\ v = FirstVol(R, key)
        OBVIOUS
      <3>8. b \in Bar /\ v \in Nat
        BY <3>3, <3>4, <3>7
      <3>9. Updated([b EXCEPT !.volume = v], row, 0) = [Updated(b, row, g) EXCEPT !.volume = v]
        <4>1. PICK ts, open, close, high, low, vol, st :
                 b = [ts |-> ts, open |-> open, close |-> close, high |-> high, low |-> low,
                      volume |-> vol, status |-> st]
          BY <3>8 DEF Bar
        <4>2. [b EXCEPT !.volume = v] = [ts |-> ts, open |-> open, close |-> close, high |-> high, low |-> low,
                                         volume |-> v, status |-> st]
          BY <4>1
        <4>3. Updated([b EXCEPT !.volume = v], row, 0) =
                 [ts |-> ts, open |-> open, close |-> row.px, high |-> Max({high, row.px}),
                  low |-> Min({low, row.px}), volume |-> v + 0, status |-> st]
          BY <4>2, UpdatedShape
        <4>4. Updated(b, row, g) =
                 [ts |-> ts, open |-> open, close |-> row.px, high |-> Max({high, row.px}),
                  low |-> Min({low, row.px}), volume |-> vol + g, status |-> st]
          BY <4>1, UpdatedShape
        <4>5. v + 0 = v
          BY <3>8
        <4>6. PICK u, w : u = Updated(b, row, g) /\ w = Updated([b EXCEPT !.volume = v], row, 0)
          OBVIOUS
        <4>7. [u EXCEPT !.volume = v] =
                 [ts |-> ts, open |-> open, close |-> row.px, high |-> Max({high, row.px}),
                  low |-> Min({low, row.px}), volume |-> v, status |-> st]
          BY <4>4, <4>6
        <4> QED  BY <4>3, <4>5, <4>6, <4>7
      <3> QED  BY <2>3, <2>4, <2>6, <3>3, <3>4, <3>6, <3>7, <3>9
    <2> QED  BY <2>5, <2>6
  <1> QED  BY <1>0, <1>1, <1>2

\* Its commands take the closed minutes of the tape to those with the row.
LEMMA SpotFaithful ==
  ASSUME NEW R, NEW row, NEW S, Grown(R, row, S), Ordered(R),
         NEW c, c = IF row.sym = Spot THEN SpotCommands(RunningMinute(R), row) ELSE <<>>
  PROVE  Faithful(c, SpotBarsOf(R), SpotBarsOf(S)) /\ Covered(c, SpotBarsOf(R), SpotBarsOf(S))
  <1>0. /\ R \in Seq(Row) /\ S \in Seq(Row) /\ row \in Row /\ row.px \in Nat /\ row.vol \in Nat
        /\ OneMinute \in Timeframes
    BY Grows, FramesTyped DEF Grown, Row
  <1>1. PICK F, G : F = SpotBarsOf(R) /\ G = SpotBarsOf(S)
    OBVIOUS
  <1>2. F = [k \in ClosedOf(R) |-> SpotBar(R, k)] /\ G = [k \in ClosedOf(S) |-> SpotBar(S, k)]
    BY <1>0, <1>1, SpotBarsFound
  <1>3. DOMAIN F \subseteq DOMAIN G /\ \A k \in DOMAIN F : F[k] = G[k]
    BY <1>2, ClosedStays
  <1>4. CASE row.sym = Spot /\ ClosesBar(RunningMinute(R), row)
    <2>1. Priced(R, Spot) # {} /\ row.px > 0
      BY <1>4 DEF ClosesBar, RunningMinute
    <2>2. PICK old, n : old = KeyOf(LastOf(R, Spot), OneMinute) /\ n = Len(R) + 1
      OBVIOUS
    <2>3. /\ old \in KeysOf(R) /\ old[1] = Spot /\ old[2] = OneMinute /\ Beyond(R, old) = {}
          /\ RunningMinute(R) = [BarOf(R, old) EXCEPT !.volume = FirstVol(R, old)]
          /\ BarOf(R, old) \in Bar /\ RunningMinute(R).ts = old[3]
      BY <1>0, <2>1, <2>2, MinuteIs
    <2>4. old \in BarKey /\ old = <<Spot, OneMinute, old[3]>> /\ old[3] \in Nat /\ Inside(R, old) # {}
      BY <2>3 DEF KeysOf, BarKey
    <2>5. Start(OneMinute, row.t) > old[3]
      BY <1>4, <2>3 DEF ClosesBar
    <2>6. old[3] # Start(old[2], row.t)
      <3>1. Start(OneMinute, row.t) \in Nat
        BY <1>0, FramesTyped DEF Row
      <3> QED  BY <2>3, <2>4, <2>5, <3>1
    <2>7. /\ old \in KeysOf(S) /\ BarOf(S, old) = Historical(BarOf(R, old))
          /\ Inside(S, old) = Inside(R, old) /\ Beyond(S, old) = {n}
      BY <1>4, <2>1, <2>2, <2>3, <2>6, OlderBar
    <2>8. SpotVolume(S, old) = Max({0, row.vol - FirstVol(R, old)}) /\ SpotVolume(S, old) \in Nat
      <3>1. n \in Int /\ S[n] = row
        BY <2>2, Grows
      <3>2. S[Min(Beyond(S, old))] = row
        BY <2>7, <3>1, OnlyOne
      <3>3. FirstVol(S, old) = FirstVol(R, old) /\ FirstVol(R, old) \in Nat
        BY <2>4, FirstVolStays
      <3>4. SpotVolume(S, old) = Max({0, row.vol - FirstVol(R, old)})
        BY <3>2, <3>3 DEF SpotVolume, FirstVol
      <3>5. PICK d : d = row.vol - FirstVol(R, old)
        OBVIOUS
      <3>6. d \in Int
        BY <1>0, <3>3, <3>5
      <3> QED  BY <3>4, <3>5, <3>6, LargerOfTwo
    <2>9. PICK b, v, w : b = BarOf(R, old) /\ v = FirstVol(R, old) /\ w = SpotVolume(S, old)
      OBVIOUS
    <2>10. b \in Bar /\ w \in Nat /\ w = Max({0, row.vol - v})
      BY <2>3, <2>8, <2>9
    <2>11. PICK ts, open, cl, high, low, vol, st :
              b = [ts |-> ts, open |-> open, close |-> cl, high |-> high, low |-> low, volume |-> vol, status |-> st]
      BY <2>10 DEF Bar
    <2>12. RunningMinute(R) = [ts |-> ts, open |-> open, close |-> cl, high |-> high, low |-> low, volume |-> v, status |-> st]
      BY <2>3, <2>9, <2>11
    <2>13. Historical([RunningMinute(R) EXCEPT !.volume = Max({0, row.vol - RunningMinute(R).volume})])
             = [ts |-> ts, open |-> open, close |-> cl, high |-> high, low |-> low, volume |-> w, status |-> "historical"]
      <3>1. PICK m : m = RunningMinute(R)
        OBVIOUS
      <3>2. m.volume = v
        BY <2>12, <3>1
      <3>3. [m EXCEPT !.volume = w]
              = [ts |-> ts, open |-> open, close |-> cl, high |-> high, low |-> low, volume |-> w, status |-> st]
        BY <2>12, <3>1
      <3>4. PICK m2 : m2 = [m EXCEPT !.volume = w]
        OBVIOUS
      <3>5. Historical(m2)
              = [ts |-> ts, open |-> open, close |-> cl, high |-> high, low |-> low, volume |-> w, status |-> "historical"]
        BY <3>3, <3>4, HistoricalShape
      <3> QED  BY <2>10, <3>1, <3>2, <3>4, <3>5
    <2>14. SpotBar(S, old)
             = [ts |-> ts, open |-> open, close |-> cl, high |-> high, low |-> low, volume |-> w, status |-> "historical"]
      <3>1. PICK m : m = BarOf(S, old)
        OBVIOUS
      <3>2. m = [ts |-> ts, open |-> open, close |-> cl, high |-> high, low |-> low, volume |-> vol,
                 status |-> "historical"]
        <4>1. m = Historical(b)
          BY <2>7, <2>9, <3>1
        <4> QED  BY <2>11, <4>1, HistoricalShape
      <3> QED  BY <2>9, <3>1, <3>2 DEF SpotBar
    <2>15. SpotBar(S, old) \in Bar /\ SpotBar(S, old).status = "historical"
      BY <2>10, <2>11, <2>14 DEF Bar
    <2>16. old \in ClosedOf(S) /\ old \notin ClosedOf(R)
      BY <2>3, <2>7 DEF ClosedOf
    <2>17. PICK close, tell :
              /\ close = [op |-> "bar", key |-> old, bar |-> G[old]]
              /\ tell = [op |-> "trigger", key |-> old]
      OBVIOUS
    <2>18. c = <<close, tell>>
      <3>1. c = SpotCommands(RunningMinute(R), row)
        BY <1>4
      <3>2. SpotCommands(RunningMinute(R), row) =
               <<SetBar(Spot, OneMinute, old[3],
                        Historical([RunningMinute(R) EXCEPT !.volume = Max({0, row.vol - RunningMinute(R).volume})])),
                 Trigger(Spot, old[3])>>
        BY <1>4, <2>3 DEF SpotCommands
      <3>3. SetBar(Spot, OneMinute, old[3], SpotBar(S, old)) = close
        BY <1>2, <2>4, <2>16, <2>17 DEF SetBar
      <3>4. Trigger(Spot, old[3]) = tell
        BY <2>4, <2>17 DEF Trigger
      <3> QED  BY <2>13, <2>14, <3>1, <3>2, <3>3, <3>4
    <2>19. close \in BarCommand /\ tell \in BarCommand /\ G[old] = SpotBar(S, old) /\ old \in DOMAIN G
      BY <1>2, <2>4, <2>15, <2>16, <2>17 DEF BarCommand
    <2>20. Faithful(c, F, G)
      <3>1. c \in Seq(BarCommand) /\ DOMAIN c = 1..2 /\ c[1] = close /\ c[2] = tell
        <4>1. <<close, tell>> \in Seq(BarCommand)
          BY <2>19
        <4>2. DOMAIN <<close, tell>> = 1..2 /\ <<close, tell>>[1] = close /\ <<close, tell>>[2] = tell
          OBVIOUS
        <4> QED  BY ONLY <2>18, <4>1, <4>2
      <3>2. old \notin DOMAIN F
        BY <1>2, <2>16
      <3> QED  BY <2>15, <2>17, <2>19, <3>1, <3>2 DEF Faithful, WritesBar
    <2>21. ASSUME NEW k \in DOMAIN G, k \notin DOMAIN F PROVE \E i \in DOMAIN c : WritesBar(c[i], k)
      <3>1. k = old
        BY <1>2, <2>2, <2>21, ClosedNew
      <3>2. 1 \in DOMAIN c /\ c[1] = close
        BY <2>18
      <3> QED  BY <2>17, <3>1, <3>2 DEF WritesBar
    <2>22. Covered(c, F, G)
      BY <1>3, <2>21 DEF Covered
    <2> QED  BY <1>1, <2>20, <2>22
  <1>5. CASE ~(row.sym = Spot /\ ClosesBar(RunningMinute(R), row))
    <2>1. c = <<>>
      BY <1>5 DEF SpotCommands
    <2>2. ASSUME NEW k \in ClosedOf(S), k \notin ClosedOf(R) PROVE FALSE
      <3>1. /\ row.sym = Spot /\ row.px > 0 /\ Priced(R, Spot) # {}
            /\ k = KeyOf(LastOf(R, Spot), OneMinute) /\ Start(OneMinute, row.t) > k[3]
        BY <2>2, ClosedNew
      <3>2. RunningMinute(R).ts = k[3] /\ RunningMinute(R) # NoBar
        BY <1>0, <3>1, MinuteIs
      <3> QED  BY <1>5, <3>1, <3>2 DEF ClosesBar
    <2>3. DOMAIN G \subseteq DOMAIN F
      BY <1>2, <2>2
    <2> QED  BY <1>1, <1>3, <2>1, <2>3, NothingFaithful DEF Covered
  <1> QED  BY <1>4, <1>5

\* Rows of other symbols leave the minutes alone.
LEMMA SpotOthers ==
  ASSUME NEW R, NEW row, NEW S, Grown(R, row, S), Ordered(R), row.sym # Spot
  PROVE  SpotBarsOf(S) = SpotBarsOf(R) /\ RunningMinute(S) = RunningMinute(R)
  <1>1. R \in Seq(Row) /\ S \in Seq(Row)
    BY Grows DEF Grown
  <1>2. ClosedOf(S) = ClosedOf(R)
    BY ClosedStays, ClosedNew
  <1>3. \A k \in ClosedOf(R) : SpotBar(S, k) = SpotBar(R, k)
    BY ClosedStays
  <1> QED  BY <1>1, <1>2, <1>3, SpotBarsFound, MinuteStays

-----------------------------------------------------------------------------
(* Commands that wait in the pipeline.                                     *)

Message == Row \cup {Complete}

Command == [op : {"quote"}, row : Row] \cup [op : {"hear"}, row : Message] \cup BarCommand

LEMMA CommandTyped ==
  /\ \A c \in Seq(BarCommand) : c \in Seq(Command)
  /\ \A row \in Row : Quote(row) \in Seq(Command)
  /\ \A msg \in Message : Hear(msg) \in Seq(Command)
  <1>1. \A c \in Seq(BarCommand) : c \in Seq(Command)
    <2>1. BarCommand \subseteq Command
      BY DEF Command
    <2> QED  BY <2>1
  <1>2. ASSUME NEW row \in Row PROVE Quote(row) \in Seq(Command)
    <2>1. [op |-> "quote", row |-> row] \in Command
      BY DEF Command
    <2> QED  BY <2>1 DEF Quote
  <1>3. ASSUME NEW msg \in Message PROVE Hear(msg) \in Seq(Command)
    <2>1. [op |-> "hear", row |-> msg] \in Command
      BY DEF Command
    <2> QED  BY <2>1 DEF Hear
  <1> QED  BY <1>1, <1>2, <1>3

\* What a command sets: the quote of a symbol, or a bar.
Target(cmd)    == IF cmd.op = "quote" THEN cmd.row.sym ELSE cmd.key
Value(cmd)     == IF cmd.op = "quote" THEN cmd.row.px ELSE cmd.bar
Sets(cmd, op, k) == cmd.op = op /\ Target(cmd) = k

IsMap(f) == f = [k \in DOMAIN f |-> f[k]]

\* The commands p take what is old to what is new: the last one that sets k sets
\* its new value, and k that none sets has it.
Brings(p, op, old, new) ==
    /\ IsMap(old) /\ IsMap(new) /\ DOMAIN old \subseteq DOMAIN new
    /\ \A i \in DOMAIN p : p[i].op = op =>
          /\ Target(p[i]) \in DOMAIN new
          /\ (\A j \in DOMAIN p : j > i => ~Sets(p[j], op, Target(p[i]))) => new[Target(p[i])] = Value(p[i])
    /\ \A k \in DOMAIN new : (\A i \in DOMAIN p : ~Sets(p[i], op, k)) => k \in DOMAIN old /\ old[k] = new[k]

LEMMA BringsNothing == \A op, old, new : Brings(<<>>, op, old, new) => old = new
  BY DEF Brings, IsMap

LEMMA BringsSilent ==
  ASSUME NEW p, NEW op, NEW f, IsMap(f), \A i \in DOMAIN p : p[i].op # op
  PROVE  Brings(p, op, f, f)
  BY DEF Brings, Sets

LEMMA BringsMore ==
  ASSUME NEW p \in Seq(Command), NEW c \in Seq(Command), NEW op, NEW old, NEW mid, NEW new,
         Brings(p, op, old, mid), Brings(c, op, mid, new)
  PROVE  Brings(p \o c, op, old, new)
  <1>1. PICK e, m : e = p \o c /\ m = Len(p)
    OBVIOUS
  <1>2. /\ m \in Nat /\ Len(c) \in Nat /\ DOMAIN e = 1..(m + Len(c)) /\ DOMAIN p = 1..m /\ DOMAIN c = 1..Len(c)
        /\ \A i \in DOMAIN e : /\ i \in DOMAIN p => e[i] = p[i]
                               /\ i \notin DOMAIN p => i - m \in DOMAIN c /\ e[i] = c[i - m]
        /\ \A i \in DOMAIN p : i \in DOMAIN e /\ e[i] = p[i]
        /\ \A i \in DOMAIN c : i + m \in DOMAIN e /\ e[i + m] = c[i]
    BY <1>1, JoinedParts
  <1>3. ASSUME NEW i \in DOMAIN e, e[i].op = op
        PROVE  /\ Target(e[i]) \in DOMAIN new
               /\ (\A j \in DOMAIN e : j > i => ~Sets(e[j], op, Target(e[i]))) => new[Target(e[i])] = Value(e[i])
    <2>1. CASE i \in DOMAIN p
      <3>1. e[i] = p[i] /\ Target(p[i]) \in DOMAIN mid /\ DOMAIN mid \subseteq DOMAIN new
        BY <1>2, <1>3, <2>1 DEF Brings
      <3>2. ASSUME \A j \in DOMAIN e : j > i => ~Sets(e[j], op, Target(e[i])) PROVE new[Target(e[i])] = Value(e[i])
        <4>1. \A j \in DOMAIN p : j > i => ~Sets(p[j], op, Target(p[i]))
          BY <1>2, <3>1, <3>2
        <4>2. mid[Target(p[i])] = Value(p[i])
          BY <1>3, <2>1, <3>1, <4>1 DEF Brings
        <4>3. \A j \in DOMAIN c : j + m > i
          BY <1>2, <2>1
        <4>4. \A j \in DOMAIN c : ~Sets(c[j], op, Target(p[i]))
          BY <1>2, <3>1, <3>2, <4>3
        <4>5. new[Target(p[i])] = mid[Target(p[i])]
          BY <3>1, <4>4 DEF Brings
        <4> QED  BY <3>1, <4>2, <4>5
      <3> QED  BY <3>1, <3>2
    <2>2. CASE i \notin DOMAIN p
      <3>1. e[i] = c[i - m] /\ i - m \in DOMAIN c
        BY <1>2, <2>2
      <3>2. Target(e[i]) \in DOMAIN new
        BY <1>3, <3>1 DEF Brings
      <3>3. ASSUME \A j \in DOMAIN e : j > i => ~Sets(e[j], op, Target(e[i])) PROVE new[Target(e[i])] = Value(e[i])
        <4>1. \A j \in DOMAIN c : j > i - m => j + m > i
          BY <1>2, <3>1
        <4>2. \A j \in DOMAIN c : j > i - m => ~Sets(c[j], op, Target(c[i - m]))
          BY <1>2, <3>1, <3>3, <4>1
        <4> QED  BY <1>3, <3>1, <4>2 DEF Brings
      <3> QED  BY <3>2, <3>3
    <2> QED  BY <2>1, <2>2
  <1>4. ASSUME NEW k \in DOMAIN new, \A i \in DOMAIN e : ~Sets(e[i], op, k) PROVE k \in DOMAIN old /\ old[k] = new[k]
    <2>1. \A i \in DOMAIN c : ~Sets(c[i], op, k)
      BY <1>2, <1>4
    <2>2. k \in DOMAIN mid /\ mid[k] = new[k]
      BY <2>1 DEF Brings
    <2>3. \A i \in DOMAIN p : ~Sets(p[i], op, k)
      BY <1>2, <1>4
    <2> QED  BY <2>2, <2>3 DEF Brings
  <1> QED  BY <1>1, <1>3, <1>4 DEF Brings

LEMMA HeadRest ==
  ASSUME NEW p \in Seq(Command), p # <<>>
  PROVE  /\ Tail(p) \in Seq(Command) /\ Head(p) = p[1] /\ 1 \in DOMAIN p /\ Head(p) \in Command
         /\ Len(p) \in Nat /\ Len(Tail(p)) = Len(p) - 1 /\ DOMAIN Tail(p) = 1..(Len(p) - 1)
         /\ \A i \in DOMAIN Tail(p) : i + 1 \in DOMAIN p /\ Tail(p)[i] = p[i + 1] /\ i \in Nat /\ i > 0
         /\ \A i \in DOMAIN p : i \in Nat /\ (i > 1 => i - 1 \in DOMAIN Tail(p) /\ Tail(p)[i - 1] = p[i])
  OBVIOUS

LEMMA BringsHead ==
  ASSUME NEW p \in Seq(Command), p # <<>>, NEW op, NEW old, NEW new, Brings(p, op, old, new)
  PROVE  /\ Head(p).op # op => Brings(Tail(p), op, old, new)
         /\ Head(p).op = op => Brings(Tail(p), op, Beside([k \in {Target(Head(p))} |-> Value(Head(p))], old), new)
  <1>1. PICK q, cmd : q = Tail(p) /\ cmd = Head(p)
    OBVIOUS
  <1>2. /\ cmd = p[1] /\ 1 \in DOMAIN p
        /\ \A i \in DOMAIN q : i + 1 \in DOMAIN p /\ q[i] = p[i + 1] /\ i \in Nat /\ i > 0
        /\ \A i \in DOMAIN p : i \in Nat /\ (i > 1 => i - 1 \in DOMAIN q /\ q[i - 1] = p[i])
        /\ \A i \in DOMAIN p : i = 1 \/ i > 1
    BY <1>1, HeadRest
  <1>3. ASSUME NEW i \in DOMAIN q, q[i].op = op
        PROVE  /\ Target(q[i]) \in DOMAIN new
               /\ (\A j \in DOMAIN q : j > i => ~Sets(q[j], op, Target(q[i]))) => new[Target(q[i])] = Value(q[i])
    <2>1. q[i] = p[i + 1] /\ i + 1 \in DOMAIN p /\ i \in Nat /\ i > 0
      BY <1>2
    <2>2. Target(q[i]) \in DOMAIN new
      BY <1>3, <2>1 DEF Brings
    <2>3. ASSUME \A j \in DOMAIN q : j > i => ~Sets(q[j], op, Target(q[i]))
          PROVE  \A j \in DOMAIN p : j > i + 1 => ~Sets(p[j], op, Target(p[i + 1]))
      <3> SUFFICES ASSUME NEW j \in DOMAIN p, j > i + 1 PROVE ~Sets(p[j], op, Target(p[i + 1]))
        OBVIOUS
      <3>1. j \in Nat /\ j > 1 /\ j - 1 > i
        BY <1>2, <2>1
      <3>2. j - 1 \in DOMAIN q /\ q[j - 1] = p[j]
        BY <1>2, <3>1
      <3> QED  BY <2>1, <2>3, <3>1, <3>2
    <2> QED  BY <1>3, <2>1, <2>2, <2>3 DEF Brings
  <1>4. CASE cmd.op # op
    <2>1. ASSUME NEW k \in DOMAIN new, \A i \in DOMAIN q : ~Sets(q[i], op, k) PROVE k \in DOMAIN old /\ old[k] = new[k]
      <3>1. ~Sets(p[1], op, k)
        BY <1>2, <1>4 DEF Sets
      <3>2. \A i \in DOMAIN p : ~Sets(p[i], op, k)
        BY <1>2, <2>1, <3>1
      <3> QED  BY <3>2 DEF Brings
    <2> QED  BY <1>1, <1>3, <1>4, <2>1 DEF Brings
  <1>5. CASE cmd.op = op
    <2>1. PICK t, v, upd : t = Target(cmd) /\ v = Value(cmd) /\ upd = Beside([k \in {t} |-> v], old)
      OBVIOUS
    <2>2. /\ DOMAIN upd = DOMAIN old \cup {t} /\ IsMap(upd) /\ upd[t] = v
          /\ \A k \in DOMAIN old : k # t => upd[k] = old[k]
      BY <2>1 DEF Beside, IsMap
    <2>3. t \in DOMAIN new
      BY <1>2, <1>5, <2>1 DEF Brings
    <2>4. ASSUME NEW k \in DOMAIN new, \A i \in DOMAIN q : ~Sets(q[i], op, k) PROVE k \in DOMAIN upd /\ upd[k] = new[k]
      <3>1. CASE k = t
        <4>1. \A j \in DOMAIN p : j > 1 => ~Sets(p[j], op, t)
          BY <1>2, <2>4, <3>1
        <4>2. new[t] = v
          BY <1>2, <1>5, <2>1, <4>1 DEF Brings
        <4> QED  BY <2>2, <3>1, <4>2
      <3>2. CASE k # t
        <4>1. ~Sets(p[1], op, k)
          BY <1>2, <2>1, <3>2 DEF Sets
        <4>2. \A i \in DOMAIN p : ~Sets(p[i], op, k)
          BY <1>2, <2>4, <4>1
        <4>3. k \in DOMAIN old /\ old[k] = new[k]
          BY <4>2 DEF Brings
        <4> QED  BY <2>2, <3>2, <4>3
      <3> QED  BY <3>1, <3>2
    <2>5. DOMAIN upd \subseteq DOMAIN new
      BY <2>2, <2>3 DEF Brings
    <2>6. Brings(q, op, upd, new)
      BY <1>3, <2>2, <2>4, <2>5 DEF Brings
    <2> QED  BY <1>1, <1>5, <2>1, <2>6
  <1> QED  BY <1>1, <1>4, <1>5

\* The commands of a row on the bars, beside those an earlier replay left.
LEMMA BringsBars ==
  ASSUME NEW c, NEW F, NEW G, Faithful(c, F, G), Covered(c, F, G), IsMap(F), IsMap(G), NEW rest, IsMap(rest)
  PROVE  Brings(c, "bar", Beside(F, rest), Beside(G, rest))
  <1>1. PICK A, B : A = Beside(F, rest) /\ B = Beside(G, rest)
    OBVIOUS
  <1>2. /\ DOMAIN A = DOMAIN F \cup DOMAIN rest /\ DOMAIN B = DOMAIN G \cup DOMAIN rest /\ IsMap(A) /\ IsMap(B)
        /\ \A k \in DOMAIN A : A[k] = IF k \in DOMAIN F THEN F[k] ELSE rest[k]
        /\ \A k \in DOMAIN B : B[k] = IF k \in DOMAIN G THEN G[k] ELSE rest[k]
    BY <1>1 DEF Beside, IsMap
  <1>3. DOMAIN F \subseteq DOMAIN G
    BY DEF Covered
  <1>4. \A i \in DOMAIN c : \A k : Sets(c[i], "bar", k) <=> WritesBar(c[i], k)
    BY DEF Sets, WritesBar, Target
  <1>5. ASSUME NEW i \in DOMAIN c, c[i].op = "bar"
        PROVE  Target(c[i]) \in DOMAIN B /\ B[Target(c[i])] = Value(c[i])
    <2>1. c[i].key \in DOMAIN G /\ c[i].bar = G[c[i].key]
      BY <1>5 DEF Faithful
    <2>2. Target(c[i]) = c[i].key /\ Value(c[i]) = c[i].bar
      BY <1>5 DEF Target, Value
    <2> QED  BY <1>2, <2>1, <2>2
  <1>6. ASSUME NEW k \in DOMAIN B, \A i \in DOMAIN c : ~Sets(c[i], "bar", k) PROVE k \in DOMAIN A /\ A[k] = B[k]
    <2>1. k \in DOMAIN G => k \in DOMAIN F /\ F[k] = G[k]
      BY <1>4, <1>6 DEF Covered
    <2> QED  BY <1>2, <1>3, <2>1
  <1> QED  BY <1>1, <1>2, <1>3, <1>5, <1>6 DEF Brings

\* The quote of a symbol is the price of its newest row.
RowsOf(R, s) == {i \in DOMAIN R : R[i].sym = s}

QuotesOf(R) ==
    [s \in Symbols |-> IF RowsOf(R, s) # {} THEN R[Max(RowsOf(R, s))].px
                       ELSE IF left THEN OldPrice ELSE NoQuote]

LEMMA BringsQuote ==
  ASSUME NEW R, NEW row, NEW S, Grown(R, row, S)
  PROVE  Brings(Quote(row), "quote", QuotesOf(R), QuotesOf(S))
  <1>0. R \in Seq(Row) /\ row \in Row /\ row.sym \in Symbols
    BY DEF Grown, Row
  <1>1. PICK n, cmd : n = Len(R) + 1 /\ cmd = [op |-> "quote", row |-> row]
    OBVIOUS
  <1>2. n \in Nat /\ n \in DOMAIN S /\ S[n] = row /\ DOMAIN R = 1..Len(R) /\ DOMAIN S = 1..n
        /\ \A i \in DOMAIN R : S[i] = R[i] /\ i \in DOMAIN S /\ i \in Nat /\ i < n
    BY <1>1, Grows
  <1>3. ASSUME NEW s \in Symbols
        PROVE  QuotesOf(S)[s] = IF s = row.sym THEN row.px ELSE QuotesOf(R)[s]
    <2>1. RowsOf(R, s) \in SUBSET (1..Len(R)) /\ Len(R) \in Nat
      BY <1>0, <1>2 DEF RowsOf
    <2>2. CASE s = row.sym
      <3>1. RowsOf(S, s) \in SUBSET Int /\ n \in RowsOf(S, s) /\ \A i \in RowsOf(S, s) : n >= i
        BY <1>2, <2>2 DEF RowsOf
      <3>2. Max(RowsOf(S, s)) = n
        BY <3>1, IsMax
      <3> QED  BY <1>2, <2>2, <3>1, <3>2 DEF QuotesOf
    <2>3. CASE s # row.sym
      <3>1. RowsOf(S, s) = RowsOf(R, s)
        <4>1. \A i \in DOMAIN S : i = n \/ i \in DOMAIN R
          BY <1>1, <1>2, Grows
        <4> QED  BY <1>2, <2>3, <4>1 DEF RowsOf
      <3>2. CASE RowsOf(R, s) # {}
        <4>1. Max(RowsOf(R, s)) \in DOMAIN R
          BY <1>2, <2>1, <3>2, Positions
        <4> QED  BY <1>2, <2>3, <3>1, <3>2, <4>1 DEF QuotesOf
      <3> QED  BY <2>3, <3>1, <3>2 DEF QuotesOf
    <2> QED  BY <2>2, <2>3
  <1>4. IsMap(QuotesOf(R)) /\ IsMap(QuotesOf(S)) /\ DOMAIN QuotesOf(R) = Symbols /\ DOMAIN QuotesOf(S) = Symbols
    BY DEF QuotesOf, IsMap
  <1>5. PICK p : p = Quote(row)
    OBVIOUS
  <1>6. DOMAIN p = {1} /\ p[1] = cmd
    BY <1>1, <1>5 DEF Quote
  <1>7. cmd.op = "quote" /\ Target(cmd) = row.sym /\ Value(cmd) = row.px
    BY <1>1 DEF Target, Value
  <1>8. ASSUME NEW k \in Symbols, \A i \in DOMAIN p : ~Sets(p[i], "quote", k) PROVE QuotesOf(R)[k] = QuotesOf(S)[k]
    <2>1. k # row.sym
      BY <1>6, <1>7, <1>8 DEF Sets
    <2> QED  BY <1>3, <2>1
  <1>9. \A i \in DOMAIN p : Target(p[i]) \in DOMAIN QuotesOf(S) /\ QuotesOf(S)[Target(p[i])] = Value(p[i])
    BY <1>0, <1>3, <1>4, <1>6, <1>7
  <1> QED  BY <1>4, <1>5, <1>8, <1>9 DEF Brings

\* Announced bars T, and those the commands p will announce, are closed and are
\* not written again.
Announced(T, p, G) ==
    /\ \A k \in T : k \in DOMAIN G /\ G[k].status = "historical" /\ \A j \in DOMAIN p : ~WritesBar(p[j], k)
    /\ \A i \in DOMAIN p : p[i].op = "trigger" =>
          /\ p[i].key \in DOMAIN G /\ G[p[i].key].status = "historical"
          /\ \A j \in DOMAIN p : j > i => ~WritesBar(p[j], p[i].key)

LEMMA AnnouncedSilent ==
  ASSUME NEW T, NEW p \in Seq(Command), NEW c \in Seq(Command), NEW G, Announced(T, p, G),
         \A i \in DOMAIN c : c[i].op # "bar" /\ c[i].op # "trigger"
  PROVE  Announced(T, p \o c, G)
  <1>1. PICK e, m : e = p \o c /\ m = Len(p)
    OBVIOUS
  <1>2. /\ \A i \in DOMAIN e : /\ i \in DOMAIN p => e[i] = p[i]
                               /\ i \notin DOMAIN p => i - m \in DOMAIN c /\ e[i] = c[i - m]
    BY <1>1, JoinedParts
  <1>3. \A i \in DOMAIN e : e[i].op = "bar" \/ e[i].op = "trigger" => i \in DOMAIN p /\ e[i] = p[i]
    BY <1>2
  <1> QED  BY <1>1, <1>3 DEF Announced, WritesBar

LEMMA AnnouncedMore ==
  ASSUME NEW T, NEW p \in Seq(Command), NEW c, NEW F, NEW G, Announced(T, p, F), Faithful(c, F, G), Covered(c, F, G)
  PROVE  Announced(T, p \o c, G)
  <1>1. PICK e, m : e = p \o c /\ m = Len(p)
    OBVIOUS
  <1>2. c \in Seq(Command)
    BY CommandTyped DEF Faithful
  <1>3. /\ m \in Nat /\ DOMAIN p = 1..m /\ DOMAIN e = 1..(m + Len(c)) /\ Len(c) \in Nat
        /\ \A i \in DOMAIN e : /\ i \in DOMAIN p => e[i] = p[i]
                               /\ i \notin DOMAIN p => i - m \in DOMAIN c /\ e[i] = c[i - m]
    BY <1>1, <1>2, JoinedParts
  <1>4. ASSUME NEW k \in DOMAIN F, F[k].status = "historical"
        PROVE  k \in DOMAIN G /\ G[k].status = "historical" /\ \A j \in DOMAIN c : ~WritesBar(c[j], k)
    <2>1. \A j \in DOMAIN c : ~WritesBar(c[j], k)
      BY <1>4 DEF Faithful, WritesBar
    <2>2. k \in DOMAIN G
      BY DEF Covered
    <2>3. F[k] = G[k]
      BY <2>1, <2>2 DEF Covered
    <2> QED  BY <1>4, <2>1, <2>2, <2>3
  <1>5. ASSUME NEW k \in T
        PROVE  k \in DOMAIN G /\ G[k].status = "historical" /\ \A j \in DOMAIN e : ~WritesBar(e[j], k)
    <2>1. k \in DOMAIN F /\ F[k].status = "historical" /\ \A j \in DOMAIN p : ~WritesBar(p[j], k)
      BY DEF Announced
    <2>2. k \in DOMAIN G /\ G[k].status = "historical" /\ \A j \in DOMAIN c : ~WritesBar(c[j], k)
      BY <1>4, <2>1
    <2> QED  BY <1>3, <2>1, <2>2
  <1>6. ASSUME NEW i \in DOMAIN e, e[i].op = "trigger"
        PROVE  /\ e[i].key \in DOMAIN G /\ G[e[i].key].status = "historical"
               /\ \A j \in DOMAIN e : j > i => ~WritesBar(e[j], e[i].key)
    <2>1. CASE i \in DOMAIN p
      <3>1. PICK k : k = p[i].key
        OBVIOUS
      <3>2. e[i] = p[i]
        BY <1>3, <2>1
      <3>3. k \in DOMAIN F /\ F[k].status = "historical" /\ \A j \in DOMAIN p : j > i => ~WritesBar(p[j], k)
        BY <1>6, <2>1, <3>1, <3>2 DEF Announced
      <3>4. k \in DOMAIN G /\ G[k].status = "historical" /\ \A j \in DOMAIN c : ~WritesBar(c[j], k)
        BY <1>4, <3>3
      <3> QED  BY <1>3, <3>1, <3>2, <3>3, <3>4
    <2>2. CASE i \notin DOMAIN p
      <3>1. e[i] = c[i - m] /\ i - m \in DOMAIN c
        BY <1>3, <2>2
      <3>2. PICK k : k = c[i - m].key
        OBVIOUS
      <3>3. k \in DOMAIN G /\ G[k].status = "historical" /\ \A j \in DOMAIN c : j > i - m => ~WritesBar(c[j], k)
        BY <1>6, <3>1, <3>2 DEF Faithful
      <3>4. \A j \in DOMAIN e : j > i => j \notin DOMAIN p /\ j - m > i - m
        BY <1>3, <2>2
      <3>5. \A j \in DOMAIN e : j > i => ~WritesBar(e[j], k)
        BY <1>3, <3>3, <3>4
      <3> QED  BY <3>1, <3>2, <3>3, <3>5
    <2> QED  BY <2>1, <2>2
  <1> QED  BY <1>1, <1>5, <1>6 DEF Announced

LEMMA AnnouncedHead ==
  ASSUME NEW T, NEW p \in Seq(Command), p # <<>>, NEW G, Announced(T, p, G)
  PROVE  /\ Announced(T, Tail(p), G)
         /\ Head(p).op = "trigger" => Announced(T \cup {Head(p).key}, Tail(p), G)
  <1>1. PICK q, cmd : q = Tail(p) /\ cmd = Head(p)
    OBVIOUS
  <1>2. /\ cmd = p[1] /\ 1 \in DOMAIN p
        /\ \A i \in DOMAIN q : i + 1 \in DOMAIN p /\ q[i] = p[i + 1] /\ i \in Nat /\ i > 0
    BY <1>1, HeadRest
  <1>3. \A k \in T : k \in DOMAIN G /\ G[k].status = "historical" /\ \A j \in DOMAIN q : ~WritesBar(q[j], k)
    BY <1>2 DEF Announced
  <1>4. ASSUME NEW i \in DOMAIN q, q[i].op = "trigger"
        PROVE  /\ q[i].key \in DOMAIN G /\ G[q[i].key].status = "historical"
               /\ \A j \in DOMAIN q : j > i => ~WritesBar(q[j], q[i].key)
    <2>1. i + 1 \in DOMAIN p /\ q[i] = p[i + 1]
      BY <1>2
    <2>2. /\ q[i].key \in DOMAIN G /\ G[q[i].key].status = "historical"
          /\ \A j \in DOMAIN p : j > i + 1 => ~WritesBar(p[j], q[i].key)
      BY <1>4, <2>1 DEF Announced
    <2>3. \A j \in DOMAIN q : j > i => j + 1 > i + 1
      BY <1>2
    <2> QED  BY <1>2, <2>2, <2>3
  <1>5. ASSUME cmd.op = "trigger"
        PROVE  /\ cmd.key \in DOMAIN G /\ G[cmd.key].status = "historical"
               /\ \A j \in DOMAIN q : ~WritesBar(q[j], cmd.key)
    <2>1. /\ cmd.key \in DOMAIN G /\ G[cmd.key].status = "historical"
          /\ \A j \in DOMAIN p : j > 1 => ~WritesBar(p[j], cmd.key)
      BY <1>2, <1>5 DEF Announced
    <2>2. \A j \in DOMAIN q : j + 1 > 1
      BY <1>2
    <2> QED  BY <1>2, <2>1, <2>2
  <1> QED  BY <1>1, <1>3, <1>4, <1>5 DEF Announced

-----------------------------------------------------------------------------
(* Messages that wait in the pipeline.                                     *)

\* What was heard, and then the messages among the commands p, are what is told;
\* m counts the messages heard after each command.
HearingBy(m, h, p, told) ==
    /\ m \in [0..Len(p) -> 0..Len(told)]
    /\ h = SubSeq(told, 1, m[0]) /\ m[Len(p)] = Len(told)
    /\ \A i \in 1..Len(p) : IF p[i].op = "hear" THEN m[i] = m[i - 1] + 1 /\ p[i].row = told[m[i]]
                                                ELSE m[i] = m[i - 1]

Hearing(h, p, told) == told \in Seq(Message) /\ \E m : HearingBy(m, h, p, told)

LEMMA HearingNothing ==
  ASSUME NEW told \in Seq(Message)
  PROVE  /\ Hearing(told, <<>>, told)
         /\ \A h : Hearing(h, <<>>, told) => h = told
  <1>1. Len(told) \in Nat /\ SubSeq(told, 1, Len(told)) = told
    BY SubSeqFull
  <1>2. HearingBy([i \in 0..0 |-> Len(told)], told, <<>>, told)
    BY <1>1 DEF HearingBy
  <1>3. ASSUME NEW h, NEW m, HearingBy(m, h, <<>>, told) PROVE h = told
    <2>1. Len(<<>>) = 0
      OBVIOUS
    <2>2. m[0] = Len(told) /\ h = SubSeq(told, 1, m[0])
      BY <1>3, <2>1 DEF HearingBy
    <2> QED  BY <1>1, <2>2
  <1> QED  BY <1>2, <1>3 DEF Hearing

LEMMA HearingSilent ==
  ASSUME NEW h, NEW p \in Seq(Command), NEW c \in Seq(Command), NEW told, Hearing(h, p, told),
         \A i \in DOMAIN c : c[i].op # "hear"
  PROVE  Hearing(h, p \o c, told)
  <1>1. PICK m : HearingBy(m, h, p, told)
    BY DEF Hearing
  <1>2. PICK e, n, l, t : e = p \o c /\ n = Len(p) /\ l = Len(c) /\ t = Len(told)
    OBVIOUS
  <1>3. /\ n \in Nat /\ l \in Nat /\ Len(e) = n + l /\ t \in Nat
        /\ \A i \in 1..(n + l) : e[i] = IF i <= n THEN p[i] ELSE c[i - n]
        /\ \A i \in 1..(n + l) : i > n => i - n \in DOMAIN c
    BY <1>2 DEF Hearing
  <1>4. PICK q : q = [i \in 0..(n + l) |-> IF i <= n THEN m[i] ELSE t]
    OBVIOUS
  <1>5. m \in [0..n -> 0..t] /\ m[n] = t /\ h = SubSeq(told, 1, m[0])
    BY <1>1, <1>2 DEF HearingBy
  <1>6. q \in [0..(n + l) -> 0..t] /\ q[0] = m[0] /\ q[n + l] = t
    <2>1. \A i \in 0..(n + l) : q[i] \in 0..t
      BY <1>3, <1>4, <1>5
    <2>2. q \in [0..(n + l) -> 0..t]
      BY <1>4, <2>1
    <2>3. q[0] = m[0]
      BY <1>3, <1>4
    <2>4. q[n + l] = t
      <3>1. PICK z : z = n + l
        OBVIOUS
      <3>2. z \in 0..(n + l) /\ (z <= n => z = n)
        BY <1>3, <3>1
      <3>3. q[z] = IF z <= n THEN m[z] ELSE t
        BY <1>4, <3>2
      <3> QED  BY <1>5, <3>1, <3>2, <3>3
    <2> QED  BY <2>2, <2>3, <2>4
  <1>7. ASSUME NEW i \in 1..(n + l)
        PROVE  IF e[i].op = "hear" THEN q[i] = q[i - 1] + 1 /\ e[i].row = told[q[i]] ELSE q[i] = q[i - 1]
    <2>1. CASE i <= n
      <3>1. i \in 1..n /\ q[i] = m[i] /\ q[i - 1] = m[i - 1] /\ e[i] = p[i]
        BY <1>3, <1>4, <2>1
      <3> QED  BY <1>1, <1>2, <3>1 DEF HearingBy
    <2>2. CASE i > n
      <3>1. e[i].op # "hear"
        BY <1>3, <2>2
      <3>2. q[i] = t /\ q[i - 1] = t
        BY <1>3, <1>4, <1>5, <2>2
      <3> QED  BY <3>1, <3>2
    <2> QED  BY <1>3, <2>1, <2>2
  <1>8. HearingBy(q, h, e, told)
    BY <1>2, <1>3, <1>5, <1>6, <1>7 DEF HearingBy
  <1> QED  BY <1>2, <1>8 DEF Hearing

LEMMA HearingOne ==
  ASSUME NEW h, NEW p \in Seq(Command), NEW told, Hearing(h, p, told), NEW msg \in Message
  PROVE  Hearing(h, p \o Hear(msg), Append(told, msg))
  <1>1. PICK m : HearingBy(m, h, p, told)
    BY DEF Hearing
  <1>2. PICK e, n, t, all : e = p \o Hear(msg) /\ n = Len(p) /\ t = Len(told) /\ all = Append(told, msg)
    OBVIOUS
  <1>3. /\ n \in Nat /\ Len(e) = n + 1 /\ t \in Nat /\ told \in Seq(Message)
        /\ \A i \in 1..n : e[i] = p[i]
        /\ e[n + 1] = [op |-> "hear", row |-> msg]
    BY <1>2 DEF Hearing, Hear
  <1>4. /\ all \in Seq(Message) /\ Len(all) = t + 1 /\ all[t + 1] = msg
        /\ \A i \in 1..t : all[i] = told[i]
    BY <1>2, <1>3
  <1>5. m \in [0..n -> 0..t] /\ m[n] = t /\ h = SubSeq(told, 1, m[0])
    BY <1>1, <1>2 DEF HearingBy
  <1>6. PICK q : q = [i \in 0..(n + 1) |-> IF i <= n THEN m[i] ELSE t + 1]
    OBVIOUS
  <1>7. q \in [0..(n + 1) -> 0..(t + 1)] /\ q[0] = m[0] /\ q[n + 1] = t + 1
    BY <1>3, <1>5, <1>6
  <1>8. h = SubSeq(all, 1, q[0])
    <2>1. m[0] \in 0..t
      BY <1>3, <1>5
    <2>2. SubSeq(all, 1, m[0]) = SubSeq(told, 1, m[0])
      BY <1>3, <1>4, <2>1
    <2> QED  BY <1>5, <1>7, <2>2
  <1>9. ASSUME NEW i \in 1..(n + 1)
        PROVE  IF e[i].op = "hear" THEN q[i] = q[i - 1] + 1 /\ e[i].row = all[q[i]] ELSE q[i] = q[i - 1]
    <2>1. CASE i <= n
      <3>1. i \in 1..n /\ q[i] = m[i] /\ q[i - 1] = m[i - 1] /\ e[i] = p[i] /\ m[i] \in 0..t /\ m[i - 1] \in 0..t
        BY <1>3, <1>5, <1>6, <2>1
      <3>2. IF p[i].op = "hear" THEN m[i] = m[i - 1] + 1 /\ p[i].row = told[m[i]] ELSE m[i] = m[i - 1]
        BY <1>1, <1>2, <3>1 DEF HearingBy
      <3>3. p[i].op = "hear" => m[i] \in 1..t
        BY <1>3, <3>1, <3>2
      <3> QED  BY <1>4, <3>1, <3>2, <3>3
    <2>2. CASE i = n + 1
      <3>1. q[i] = t + 1 /\ q[i - 1] = t
        BY <1>3, <1>5, <1>6, <2>2
      <3> QED  BY <1>3, <1>4, <2>2, <3>1
    <2> QED  BY <1>3, <2>1, <2>2
  <1>10. HearingBy(q, h, e, all)
    BY <1>3, <1>4, <1>7, <1>8, <1>9 DEF HearingBy
  <1> QED  BY <1>2, <1>4, <1>10 DEF Hearing

LEMMA HearingHead ==
  ASSUME NEW h, NEW p \in Seq(Command), p # <<>>, NEW told, Hearing(h, p, told)
  PROVE  /\ Head(p).op # "hear" => Hearing(h, Tail(p), told)
         /\ Head(p).op = "hear" => Hearing(Append(h, Head(p).row), Tail(p), told)
  <1>1. PICK m : HearingBy(m, h, p, told)
    BY DEF Hearing
  <1>2. PICK q, n, t, cmd : q = Tail(p) /\ n = Len(p) /\ t = Len(told) /\ cmd = Head(p)
    OBVIOUS
  <1>3. /\ n \in Nat /\ n > 0 /\ Len(q) = n - 1 /\ t \in Nat /\ told \in Seq(Message)
        /\ \A i \in 1..(n - 1) : q[i] = p[i + 1] /\ i + 1 \in 1..n
        /\ cmd = p[1]
    BY <1>2 DEF Hearing
  <1>4. /\ m \in [0..n -> 0..t] /\ m[n] = t /\ h = SubSeq(told, 1, m[0])
        /\ \A i \in 1..n : IF p[i].op = "hear" THEN m[i] = m[i - 1] + 1 /\ p[i].row = told[m[i]]
                                               ELSE m[i] = m[i - 1]
    BY <1>1, <1>2 DEF HearingBy
  <1>5. PICK w : w = [i \in 0..(n - 1) |-> m[i + 1]]
    OBVIOUS
  <1>6. w \in [0..(n - 1) -> 0..t] /\ w[n - 1] = t /\ w[0] = m[1]
    BY <1>3, <1>4, <1>5
  <1>7. ASSUME NEW i \in 1..(n - 1)
        PROVE  IF q[i].op = "hear" THEN w[i] = w[i - 1] + 1 /\ q[i].row = told[w[i]] ELSE w[i] = w[i - 1]
    <2>1. q[i] = p[i + 1] /\ i + 1 \in 1..n /\ w[i] = m[i + 1] /\ w[i - 1] = m[i] /\ (i + 1) - 1 = i
      BY <1>3, <1>5
    <2> QED  BY <1>4, <2>1
  <1>8. 1 \in 1..n /\ m[1 - 1] = m[0] /\ m[0] \in 0..t /\ m[1] \in 0..t
    BY <1>3, <1>4
  <1>9. CASE cmd.op # "hear"
    <2>1. m[1] = m[0]
      BY <1>3, <1>4, <1>8, <1>9
    <2>2. HearingBy(w, h, q, told)
      BY <1>2, <1>3, <1>4, <1>6, <1>7, <2>1 DEF HearingBy
    <2> QED  BY <1>2, <1>3, <1>9, <2>2 DEF Hearing
  <1>10. CASE cmd.op = "hear"
    <2>1. m[1] = m[0] + 1 /\ cmd.row = told[m[1]]
      BY <1>3, <1>4, <1>8, <1>10
    <2>2. Append(h, cmd.row) = SubSeq(told, 1, m[1])
      BY <1>3, <1>4, <1>8, <2>1, SMTT(30)
    <2>3. HearingBy(w, Append(h, cmd.row), q, told)
      BY <1>2, <1>3, <1>6, <1>7, <2>2 DEF HearingBy
    <2> QED  BY <1>2, <1>3, <1>10, <2>3 DEF Hearing
  <1> QED  BY <1>2, <1>9, <1>10

-----------------------------------------------------------------------------
(* Every row of the window is fed once.                                    *)

\* The step after the pipeline is executed, if it is being executed.
At == IF pc = "execute" THEN after ELSE pc

\* The numbers of the rows in the slices up to hi.
Part(hi) == {i \in Selected : Opening <= plan.tape[i].t /\ plan.tape[i].t < hi}

\* The rows queried so far.
Asked == IF plan.mode = "stream" THEN RowsAt(Part(slice)) ELSE WholeWindow

RowsInv ==
    /\ plan \in [mode : {"stream", "feed", "verify"}, tape : Tapes, selected : SUBSET Symbols]
    /\ pc \in {"seed", "load", "row", "execute", "desk", "finish", "done"}
    /\ At \in {"seed", "load", "row", "desk", "finish", "done"} /\ (At = "seed" => pc = "seed")
    /\ slice \in Opening..End
    /\ chunk \in Seq(Row) /\ fed \in Seq(Row)
    /\ pc = "seed" => slice = Opening
    /\ IF pc = "seed" \/ (At = "load" /\ plan.mode # "stream")
       THEN pc # "execute" /\ fed = <<>> /\ chunk = <<>> /\ pipe = <<>> /\ flushed = 0
       ELSE fed \o chunk = Asked
    /\ plan.mode = "stream" => At # "desk" /\ (At \in {"finish", "done"} => slice = End)
    /\ At = "row" => chunk # <<>>
    /\ At \in {"load", "finish", "done"} => chunk = <<>>
    /\ At = "desk" => plan.mode = "verify" /\ fed # <<>>
    /\ flushed \in 0..Len(fed)
    /\ pc = "done" => pipe = <<>> /\ flushed = Len(fed)

LEMMA TapeFine ==
  ASSUME RowsInv
  PROVE  TapeOK
  BY MarketReplayAssumption DEF RowsInv, TapeOK

LEMMA RowsPrimed ==
  ASSUME plan' = plan
  PROVE  RowsAt(Part(slice))' = RowsAt(Part(slice')) /\ WholeWindow' = WholeWindow
  BY DEF RowsAt, Part, Selected, WholeWindow

LEMMA AskedSame ==
  ASSUME plan' = plan, slice' = slice
  PROVE  Asked' = Asked
  BY RowsPrimed DEF Asked

\* The next slice follows the slices before it.
LEMMA NextSlice ==
  ASSUME TapeOK, NEW lo \in Nat, NEW hi \in Nat, Opening <= lo, lo <= hi
  PROVE  RowsAt(Part(hi)) = RowsAt(Part(lo)) \o RowsAt(Slice(lo, hi) \cap Selected)
  <1>1. plan.tape \in Seq(Row) /\ DOMAIN plan.tape \in SUBSET Nat /\ Opening \in Nat
    BY MarketReplayAssumption DEF TapeOK
  <1>2. \A i \in DOMAIN plan.tape : plan.tape[i].t \in Nat
    <2>1. PICK tape : tape = plan.tape
      OBVIOUS
    <2>2. \A i \in DOMAIN tape : tape[i] \in Row
      BY <1>1, <2>1
    <2> QED  BY <2>1, <2>2 DEF Row
  <1>3. PICK I, J : I = Part(lo) /\ J = Slice(lo, hi) \cap Selected
    OBVIOUS
  <1>4. I \in SUBSET Nat /\ J \in SUBSET Nat
    BY <1>1, <1>3 DEF Part, Slice, Selected
  <1>5. Part(hi) = I \cup J
    BY <1>1, <1>2, <1>3 DEF Part, Slice, Selected
  <1>6. ASSUME NEW i \in I, NEW j \in J PROVE i < j
    <2>1. i \in DOMAIN plan.tape /\ j \in DOMAIN plan.tape /\ plan.tape[i].t < lo /\ lo <= plan.tape[j].t
      BY <1>3 DEF Part, Slice, Selected
    <2>2. i # j /\ ~(plan.tape[j].t <= plan.tape[i].t)
      BY <1>2, <2>1
    <2>3. ~(j < i)
      BY <2>1, <2>2 DEF TapeOK
    <2> QED  BY <1>4, <2>2, <2>3
  <1> QED  BY <1>3, <1>4, <1>5, <1>6, RowsJoined

\* Feeding the head of the chunk.
LEMMA HeadFed ==
  ASSUME NEW R \in Seq(Row), NEW C \in Seq(Row), C # <<>>, Ordered(R \o C)
  PROVE  /\ Head(C) \in Row /\ Tail(C) \in Seq(Row) /\ Append(R, Head(C)) \in Seq(Row)
         /\ Append(R, Head(C)) \o Tail(C) = R \o C
         /\ Grown(R, Head(C), Append(R, Head(C))) /\ Ordered(R) /\ Append(R, Head(C)) # <<>>
  <1>1. PICK all, row, rest, n : all = R \o C /\ row = Head(C) /\ rest = Tail(C) /\ n = Len(R)
    OBVIOUS
  <1>2. /\ row \in Row /\ rest \in Seq(Row) /\ n \in Nat /\ C = <<row>> \o rest /\ Len(C) = Len(rest) + 1
        /\ C[1] = row /\ Len(rest) \in Nat
    BY <1>1
  <1>3. Append(R, row) \o rest = all
    <2>1. <<row>> \in Seq(Row)
      BY <1>2
    <2>2. Append(R, row) = R \o <<row>>
      BY <1>2, AppendIsConcat
    <2>3. (R \o <<row>>) \o rest = R \o (<<row>> \o rest)
      BY <1>2, <2>1, ConcatAssociative
    <2> QED  BY <1>1, <1>2, <2>2, <2>3
  <1>4. /\ all \in Seq(Row) /\ DOMAIN all = 1..(n + Len(C)) /\ DOMAIN R = 1..n
        /\ \A i \in DOMAIN R : i \in DOMAIN all /\ all[i] = R[i]
        /\ \A i \in DOMAIN C : i + n \in DOMAIN all /\ all[i + n] = C[i]
    BY <1>1, JoinedParts
  <1>5. 1 \in DOMAIN C /\ 1 + n \in DOMAIN all /\ all[1 + n] = row
    <2>1. 1 \in DOMAIN C
      BY <1>2
    <2> QED  BY <1>2, <1>4, <2>1
  <1>6. \A i \in DOMAIN R : i < 1 + n
    BY <1>2, <1>4
  <1>7. \A i \in DOMAIN R : R[i].t <= row.t
    BY <1>1, <1>4, <1>5, <1>6 DEF Ordered
  <1>8. Ordered(R)
    BY <1>1, <1>4 DEF Ordered
  <1>9. Append(R, row) \in Seq(Row) /\ Append(R, row) # <<>>
    BY <1>2, AppendProperties
  <1> QED  BY <1>1, <1>2, <1>3, <1>7, <1>8, <1>9 DEF Grown

LEMMA FedOrdered ==
  ASSUME RowsInv
  PROVE  Ordered(fed \o chunk) /\ Ordered(fed)
  <1>1. Ordered(fed \o chunk)
    <2>1. CASE pc = "seed" \/ (At = "load" /\ plan.mode # "stream")
      <3>1. fed = <<>> /\ chunk = <<>>
        BY <2>1 DEF RowsInv
      <3>2. fed \o chunk = <<>>
        BY <3>1
      <3> QED  BY <3>2 DEF Ordered
    <2>2. CASE ~(pc = "seed" \/ (At = "load" /\ plan.mode # "stream"))
      <3>1. fed \o chunk = Asked
        BY <2>2 DEF RowsInv
      <3> QED  BY <3>1, TapeFine, RowsOrdered DEF Asked, WholeWindow
    <2> QED  BY <2>1, <2>2
  <1>2. Ordered(fed)
    <2>1. PICK R, C, all : R = fed /\ C = chunk /\ all = fed \o chunk
      OBVIOUS
    <2>2. R \in Seq(Row) /\ C \in Seq(Row)
      BY <2>1 DEF RowsInv
    <2>3. \A i \in DOMAIN R : i \in DOMAIN all /\ all[i] = R[i]
      BY <2>1, <2>2, JoinedParts
    <2> QED  BY <1>1, <2>1, <2>3 DEF Ordered
  <1> QED  BY <1>1, <1>2

\* What the three loops do with the head of the chunk.
LEMMA RowFed ==
  ASSUME RowsInv, pc = "row"
  PROVE  /\ Head(chunk) \in Row /\ Tail(chunk) \in Seq(Row) /\ chunk # <<>>
         /\ Append(fed, Head(chunk)) \in Seq(Row) /\ Append(fed, Head(chunk)) # <<>>
         /\ Append(fed, Head(chunk)) \o Tail(chunk) = Asked
         /\ Grown(fed, Head(chunk), Append(fed, Head(chunk))) /\ Ordered(fed)
         /\ Len(Append(fed, Head(chunk))) = Len(fed) + 1 /\ Len(fed) \in Nat
  <1>1. chunk # <<>> /\ fed \o chunk = Asked /\ chunk \in Seq(Row) /\ fed \in Seq(Row)
    BY DEF RowsInv, At
  <1>2. Ordered(fed \o chunk)
    BY FedOrdered
  <1>3. PICK R, C : R = fed /\ C = chunk
    OBVIOUS
  <1>4. R \in Seq(Row) /\ C \in Seq(Row) /\ C # <<>> /\ Ordered(R \o C) /\ R \o C = Asked
    BY <1>1, <1>2, <1>3
  <1>5. /\ Head(C) \in Row /\ Tail(C) \in Seq(Row) /\ Append(R, Head(C)) \in Seq(Row)
        /\ Append(R, Head(C)) \o Tail(C) = R \o C
        /\ Grown(R, Head(C), Append(R, Head(C))) /\ Ordered(R) /\ Append(R, Head(C)) # <<>>
    BY <1>4, HeadFed
  <1>6. Len(Append(R, Head(C))) = Len(R) + 1 /\ Len(R) \in Nat
    BY <1>4, <1>5
  <1> QED  BY <1>3, <1>4, <1>5, <1>6

LEMMA RowsInit == ReplayInit => RowsInv
  <1> SUFFICES ASSUME ReplayInit PROVE RowsInv
    OBVIOUS
  <1>1. Opening \in Opening..End
    BY MarketReplayAssumption
  <1> QED  BY <1>1 DEF ReplayInit, RowsInv, At

LEMMA FeedSeed ==
  ASSUME RowsInv, SeedStream \/ SeedScript
  PROVE  RowsInv'
  <1>1. /\ pc = "seed" /\ pc' = "load" /\ fed' = <<>> /\ chunk' = <<>> /\ pipe' = <<>> /\ flushed' = 0
        /\ slice' = Opening /\ slice' \in Opening..End /\ At' = "load"
    BY DEF RowsInv, SeedStream, SeedScript, feedVars, At
  <1>2. plan' \in [mode : {"stream", "feed", "verify"}, tape : Tapes, selected : SUBSET Symbols]
        /\ plan'.tape = plan.tape /\ plan'.mode = plan.mode
    <2>1. CASE SeedStream
      <3>1. PICK S \in Selections : plan' = [plan EXCEPT !.selected = S]
        BY <2>1 DEF SeedStream
      <3>2. S \in SUBSET Symbols
        BY MarketReplayAssumption DEF Selections, Options
      <3> QED  BY <3>1, <3>2 DEF RowsInv
    <2>2. CASE SeedScript
      BY <2>2 DEF RowsInv, SeedScript
    <2> QED  BY <2>1, <2>2
  <1>3. ASSUME plan.mode = "stream" PROVE fed' \o chunk' = Asked'
    <2>1. Part(slice)' = {}
      <3>1. PICK tape : tape = plan.tape
        OBVIOUS
      <3>2. \A i \in DOMAIN tape : tape[i].t \in Nat
        <4>1. tape \in Seq(Row)
          BY <3>1, TapeFine DEF TapeOK
        <4>2. \A i \in DOMAIN tape : tape[i] \in Row
          BY <4>1
        <4> QED  BY <4>2 DEF Row
      <3>3. \A i \in DOMAIN tape : ~(Opening <= tape[i].t /\ tape[i].t < Opening)
        BY <3>2, MarketReplayAssumption
      <3> QED  BY <1>1, <1>2, <3>1, <3>3 DEF Part, Selected
    <2>2. RowsAt(Part(slice))' = RowsAt({})
      <3>1. PICK I : I = {}
        OBVIOUS
      <3>2. RowsAt(I)' = RowsAt(I)
        BY <1>2 DEF RowsAt
      <3>3. RowsAt(Part(slice))' = RowsAt(I)'
        BY <2>1, <3>1 DEF RowsAt
      <3> QED  BY <3>1, <3>2, <3>3
    <2>3. RowsAt({}) = <<>>
      BY TapeFine, NoRows
    <2>4. Asked' = <<>>
      BY <1>2, <1>3, <2>2, <2>3 DEF Asked
    <2> QED  BY <1>1, <2>4
  <1>4. plan.mode # "stream" <=> plan'.mode # "stream"
    BY <1>2
  <1>5. fed' \in Seq(Row) /\ chunk' \in Seq(Row) /\ flushed' \in 0..Len(fed')
    BY <1>1
  <1> QED  BY <1>1, <1>2, <1>3, <1>5 DEF RowsInv

LEMMA FeedLoadSlice ==
  ASSUME RowsInv, LoadSlice
  PROVE  RowsInv'
  <1>0. /\ Opening \in Nat /\ End \in Nat /\ SliceLength \in Nat \ {0} /\ slice \in Opening..End /\ slice \in Nat
        /\ pc = "load" /\ chunk = <<>> /\ fed \in Seq(Row) /\ fed \o chunk = Asked /\ plan.mode = "stream"
    BY MarketReplayAssumption DEF RowsInv, LoadSlice, At
  <1>1. /\ plan' = plan /\ fed' = fed /\ flushed' = flushed /\ pipe' = pipe /\ TapeOK
    BY TapeFine DEF LoadSlice
  <1>2. CASE slice >= End
    <2>1. pc' = "finish" /\ slice' = slice /\ chunk' = chunk /\ slice = End
      BY <1>0, <1>2 DEF LoadSlice
    <2>2. Asked' = Asked
      BY <1>1, <2>1, AskedSame
    <2> QED  BY <1>0, <1>1, <2>1, <2>2 DEF RowsInv, At
  <1>3. CASE ~(slice >= End)
    <2>1. PICK to : to = Min({slice + SliceLength, End})
      OBVIOUS
    <2>2. /\ chunk' = RowsAt(Slice(slice, to) \cap Selected) /\ slice' = to
          /\ pc' = IF chunk' = <<>> THEN "load" ELSE "row"
      BY <1>3, <2>1 DEF LoadSlice
    <2>3. to \in Nat /\ slice <= to /\ to \in Opening..End /\ Opening <= slice
      <3>1. slice + SliceLength \in Int /\ End \in Int
        BY <1>0
      <3>2. to = IF slice + SliceLength <= End THEN slice + SliceLength ELSE End
        BY <2>1, <3>1, SmallerOfTwo
      <3> QED  BY <1>0, <1>3, <3>2
    <2>4. RowsAt(Part(to)) = RowsAt(Part(slice)) \o chunk' /\ chunk' \in Seq(Row)
      BY <1>0, <1>1, <2>2, <2>3, NextSlice, RowsOrdered
    <2>5. fed = RowsAt(Part(slice))
      BY <1>0 DEF Asked
    <2>6. Asked' = RowsAt(Part(to))
      BY <1>0, <1>1, <2>2, RowsPrimed DEF Asked
    <2>7. fed' \o chunk' = Asked'
      BY <1>1, <2>4, <2>5, <2>6
    <2>8. At' = pc' /\ pc' # "execute"
      BY <2>2 DEF At
    <2> QED  BY <1>0, <1>1, <2>2, <2>3, <2>4, <2>7, <2>8 DEF RowsInv, At
  <1> QED  BY <1>2, <1>3

LEMMA FeedFetch ==
  ASSUME RowsInv, FetchRawTicks
  PROVE  RowsInv'
  <1>1. /\ pc = "load" /\ plan.mode # "stream" /\ fed = <<>> /\ pipe = <<>> /\ flushed = 0
        /\ plan' = plan /\ slice' = slice /\ fed' = fed /\ pipe' = pipe /\ flushed' = flushed
        /\ chunk' = WholeWindow /\ pc' = IF chunk' = <<>> THEN "done" ELSE "row"
    BY DEF RowsInv, FetchRawTicks, At
  <1>2. chunk' \in Seq(Row)
    BY <1>1, TapeFine, RowsOrdered DEF WholeWindow
  <1>3. fed' \o chunk' = Asked'
    <2>1. Asked' = WholeWindow
      BY <1>1, RowsPrimed DEF Asked
    <2>2. <<>> \o chunk' = chunk'
      BY <1>2
    <2> QED  BY <1>1, <2>1, <2>2
  <1>4. At' = pc' /\ pc' # "execute"
    BY <1>1 DEF At
  <1>5. fed' \in Seq(Row) /\ flushed' = Len(fed') /\ flushed' \in 0..Len(fed')
    BY <1>1
  <1> QED  BY <1>1, <1>2, <1>3, <1>4, <1>5 DEF RowsInv

\* A row is fed; the next step depends on what is left.
LEMMA FeedStep ==
  ASSUME RowsInv, pc = "row", plan' = plan, slice' = slice, flushed' = flushed,
         fed' = Append(fed, Head(chunk)), chunk' = Tail(chunk),
         pc' \in {"load", "row", "execute", "desk", "finish"}, pc' = "execute" \/ pc' = At',
         At' = IF plan.mode = "verify" THEN "desk" ELSE AfterRow(chunk')
  PROVE  RowsInv'
  <1>1. /\ chunk' \in Seq(Row) /\ fed' \in Seq(Row) /\ fed' # <<>> /\ fed' \o chunk' = Asked
        /\ Len(fed') = Len(fed) + 1 /\ Len(fed) \in Nat
    BY RowFed
  <1>2. Asked' = Asked
    BY AskedSame
  <1>3. flushed' \in 0..Len(fed')
    BY <1>1 DEF RowsInv
  <1>4. plan.mode \in {"stream", "feed", "verify"} /\ plan'.mode = plan.mode
    BY DEF RowsInv
  <1>5. At' \in {"load", "row", "desk", "finish"} /\ (At' = "load" => plan.mode = "stream")
        /\ (At' \in {"load", "finish"} => chunk' = <<>>) /\ (At' = "row" => chunk' # <<>>)
        /\ (At' = "desk" => plan.mode = "verify")
        /\ (plan.mode = "stream" => At' \notin {"desk", "finish"})
    BY <1>4 DEF AfterRow
  <1> QED  BY <1>1, <1>2, <1>3, <1>4, <1>5 DEF RowsInv

LEMMA FeedRows ==
  ASSUME RowsInv, StreamRow \/ FeedRow \/ VerifyRow
  PROVE  RowsInv'
  <1>1. /\ pc = "row" /\ plan' = plan /\ slice' = slice /\ flushed' = flushed
        /\ fed' = Append(fed, Head(chunk)) /\ chunk' = Tail(chunk)
    BY DEF StreamRow, FeedRow, VerifyRow
  <1>2. AfterRow(chunk') \in {"load", "row", "finish"}
    BY DEF AfterRow
  <1>3. CASE StreamRow \/ FeedRow
    <2>1. plan.mode # "verify"
      BY <1>3 DEF StreamRow, FeedRow
    <2>2. (pc' = "execute" /\ after' = AfterRow(chunk')) \/ pc' = AfterRow(chunk')
      BY <1>3 DEF StreamRow, FeedRow
    <2>3. At' = AfterRow(chunk') /\ (pc' = "execute" \/ pc' = At') /\ pc' \in {"load", "row", "execute", "finish"}
      BY <1>2, <2>2 DEF At
    <2> QED  BY <1>1, <2>1, <2>3, FeedStep
  <1>4. CASE VerifyRow
    <2>1. plan.mode = "verify" /\ after' = "desk" /\ pc' \in {"execute", "desk"}
      BY <1>4 DEF VerifyRow
    <2>2. At' = "desk" /\ (pc' = "execute" \/ pc' = At') /\ pc' \in {"load", "row", "execute", "desk", "finish"}
      BY <2>1 DEF At
    <2> QED  BY <1>1, <2>1, <2>2, FeedStep
  <1> QED  BY <1>3, <1>4

LEMMA FeedExecute ==
  ASSUME RowsInv, Execute \/ Finish \/ Trade
  PROVE  RowsInv'
  <1>1. plan' = plan /\ slice' = slice /\ chunk' = chunk /\ fed' = fed /\ fed \in Seq(Row) /\ Len(fed) \in Nat
    BY DEF Execute, Finish, Trade, feedVars, RowsInv
  <1>2. Asked' = Asked
    BY <1>1, AskedSame
  <1>3. CASE Execute
    <2>1. pc = "execute" /\ after' = after
      BY <1>3 DEF Execute
    <2>2. At' = At
      BY <1>3, <2>1 DEF Execute, At, RowsInv
    <2>3. flushed' \in 0..Len(fed) /\ (pc' = "done" => pipe' = <<>> /\ flushed' = Len(fed)) /\ (pc' = "execute" \/ pc' = At)
      BY <1>1, <1>3 DEF Execute, RowsInv, At
    <2>4. At # "seed" /\ ~(At = "load" /\ plan.mode # "stream")
      BY <2>1 DEF RowsInv, At
    <2> QED  BY <1>1, <1>2, <2>1, <2>2, <2>3, <2>4 DEF RowsInv
  <1>4. CASE Finish
    <2>1. pc = "finish" /\ pc' = "execute" /\ At' = "done" /\ flushed' = flushed /\ At = "finish"
      BY <1>4 DEF Finish, At
    <2> QED  BY <1>1, <1>2, <2>1 DEF RowsInv
  <1>5. CASE Trade
    <2>1. pc = "desk" /\ At = "desk" /\ pc' = AfterRow(chunk) /\ flushed' = flushed
      BY <1>5 DEF Trade, At
    <2>2. plan.mode = "verify"
      BY <2>1 DEF RowsInv
    <2>3. pc' = IF chunk # <<>> THEN "row" ELSE "finish"
      BY <2>1, <2>2 DEF AfterRow
    <2>4. At' = pc'
      BY <2>3 DEF At
    <2> QED  BY <1>1, <1>2, <2>1, <2>2, <2>3, <2>4 DEF RowsInv
  <1> QED  BY <1>3, <1>4, <1>5

LEMMA RowsNext ==
  ASSUME RowsInv, [ReplayNext]_replayVars
  PROVE  RowsInv'
  <1>1. CASE UNCHANGED replayVars
    <2>1. plan' = plan /\ slice' = slice /\ chunk' = chunk /\ fed' = fed /\ pc' = pc /\ after' = after /\ pipe' = pipe /\ flushed' = flushed
      BY <1>1 DEF replayVars, feedVars
    <2>2. Asked' = Asked /\ At' = At
      BY <2>1, AskedSame DEF At
    <2> QED  BY <2>1, <2>2 DEF RowsInv
  <1>2. CASE ReplayNext
    BY <1>2, FeedSeed, FeedLoadSlice, FeedFetch, FeedRows, FeedExecute DEF ReplayNext
  <1> QED  BY <1>1, <1>2

-----------------------------------------------------------------------------
(* What is in Redis, and what waits for it.                                *)

\* The commands p take the quotes and bars st to the quotes Q and the bars G,
\* beside those that an earlier replay left; T has been announced.
Flowing(p, st, T, G, rest, Q) ==
    /\ p \in Seq(Command)
    /\ st = [quotes |-> st.quotes, bars |-> st.bars] /\ DOMAIN st.quotes = Symbols
    /\ Brings(p, "bar", st.bars, Beside(G, rest))
    /\ Brings(p, "quote", st.quotes, Q)
    /\ Announced(T, p, G)

LEMMA BesideIsMap == \A f, g : IsMap(Beside(f, g))
  BY DEF IsMap, Beside

\* The quote of a row, its message, and the commands of an aggregator.
LEMMA FlowingRow ==
  ASSUME NEW p, NEW st, NEW T, NEW F, NEW rest, NEW Q, Flowing(p, st, T, F, rest, Q),
         IsMap(F), IsMap(rest), NEW q \in Seq(Command), NEW Q2, Brings(q, "quote", Q, Q2),
         \A i \in DOMAIN q : q[i].op # "bar" /\ q[i].op # "trigger",
         NEW c, NEW G, IsMap(G), Faithful(c, F, G), Covered(c, F, G)
  PROVE  Flowing((p \o q) \o c, st, T, G, rest, Q2)
  <1>1. p \in Seq(Command) /\ c \in Seq(BarCommand) /\ c \in Seq(Command)
    BY CommandTyped DEF Flowing, Faithful
  <1>2. \A i \in DOMAIN c : c[i].op # "quote"
    <2>1. \A i \in DOMAIN c : c[i] \in BarCommand
      BY <1>1
    <2> QED  BY <2>1 DEF BarCommand
  <1>3. PICK d : d = p \o q
    OBVIOUS
  <1>4. d \in Seq(Command) /\ d \o c \in Seq(Command)
    BY <1>1, <1>3
  <1>5. PICK mid, new : mid = Beside(F, rest) /\ new = Beside(G, rest)
    OBVIOUS
  <1>6. Brings(d \o c, "bar", st.bars, new)
    <2>1. Brings(q, "bar", mid, mid)
      BY <1>5, BesideIsMap, BringsSilent
    <2>2. Brings(p, "bar", st.bars, mid)
      BY <1>5 DEF Flowing
    <2>3. Brings(d, "bar", st.bars, mid)
      BY <1>1, <1>3, <2>1, <2>2, BringsMore
    <2>4. Brings(c, "bar", mid, new)
      BY <1>5, BringsBars
    <2> QED  BY <1>1, <1>4, <2>3, <2>4, BringsMore
  <1>7. Brings(d \o c, "quote", st.quotes, Q2)
    <2>1. Brings(p, "quote", st.quotes, Q)
      BY DEF Flowing
    <2>2. Brings(d, "quote", st.quotes, Q2)
      BY <1>1, <1>3, <2>1, BringsMore
    <2>3. IsMap(Q2)
      BY DEF Brings
    <2>4. Brings(c, "quote", Q2, Q2)
      BY <1>2, <2>3, BringsSilent
    <2> QED  BY <1>1, <1>4, <2>2, <2>4, BringsMore
  <1>8. Announced(T, d \o c, G)
    <2>1. Announced(T, p, F)
      BY DEF Flowing
    <2>2. Announced(T, d, F)
      BY <1>1, <1>3, <2>1, AnnouncedSilent
    <2> QED  BY <1>4, <2>2, AnnouncedMore
  <1>9. d \o c = (p \o q) \o c
    BY <1>3
  <1>10. st = [quotes |-> st.quotes, bars |-> st.bars] /\ DOMAIN st.quotes = Symbols
    BY DEF Flowing
  <1>11. Flowing(d \o c, st, T, G, rest, Q2)
    BY <1>4, <1>5, <1>6, <1>7, <1>8, <1>10 DEF Flowing
  <1> QED  BY <1>9, <1>11

\* Redis applies the first command.
LEMMA FlowingHead ==
  ASSUME NEW p, NEW st, NEW T, NEW G, NEW rest, NEW Q, Flowing(p, st, T, G, rest, Q), p # <<>>
  PROVE  /\ Head(p) \in Command
         /\ Head(p).op = "quote" =>
              Flowing(Tail(p), [st EXCEPT !.quotes[Head(p).row.sym] = Head(p).row.px], T, G, rest, Q)
         /\ Head(p).op = "bar" =>
              Flowing(Tail(p), [st EXCEPT !.bars = Beside([k \in {Head(p).key} |-> Head(p).bar], @)], T, G, rest, Q)
         /\ Head(p).op = "hear" => Flowing(Tail(p), st, T, G, rest, Q)
         /\ Head(p).op = "trigger" => Flowing(Tail(p), st, T \cup {Head(p).key}, G, rest, Q)
  <1>1. PICK cmd, tail : cmd = Head(p) /\ tail = Tail(p)
    OBVIOUS
  <1>2. PICK quotes, bars, new : quotes = st.quotes /\ bars = st.bars /\ new = Beside(G, rest)
    OBVIOUS
  <1>3. /\ p \in Seq(Command) /\ st = [quotes |-> quotes, bars |-> bars] /\ DOMAIN quotes = Symbols
        /\ Brings(p, "bar", bars, new) /\ Brings(p, "quote", quotes, Q) /\ Announced(T, p, G)
    BY <1>2 DEF Flowing
  <1>4. tail \in Seq(Command) /\ cmd \in Command
    BY <1>1, <1>3, HeadRest
  <1>5. /\ cmd.op # "bar" => Brings(tail, "bar", bars, new)
        /\ cmd.op = "bar" => Brings(tail, "bar", Beside([k \in {Target(cmd)} |-> Value(cmd)], bars), new)
    BY <1>1, <1>3, BringsHead
  <1>6. /\ cmd.op # "quote" => Brings(tail, "quote", quotes, Q)
        /\ cmd.op = "quote" => Brings(tail, "quote", Beside([k \in {Target(cmd)} |-> Value(cmd)], quotes), Q)
    BY <1>1, <1>3, BringsHead
  <1>7. /\ Announced(T, tail, G)
        /\ cmd.op = "trigger" => Announced(T \cup {cmd.key}, tail, G)
    BY <1>1, <1>3, AnnouncedHead
  <1>8. ASSUME cmd.op = "quote"
        PROVE  Flowing(tail, [st EXCEPT !.quotes[cmd.row.sym] = cmd.row.px], T, G, rest, Q)
    <2>1. cmd.row \in Row /\ cmd.row.sym \in Symbols
      BY <1>4, <1>8 DEF Command, BarCommand, Row
    <2>2. PICK s, px : s = cmd.row.sym /\ px = cmd.row.px
      OBVIOUS
    <2>3. Target(cmd) = s /\ Value(cmd) = px
      BY <1>8, <2>2 DEF Target, Value
    <2>4. IsMap(quotes)
      BY <1>3 DEF Brings
    <2>5. [quotes EXCEPT ![s] = px] = Beside([k \in {s} |-> px], quotes)
      BY <1>3, <2>1, <2>2, <2>4 DEF Beside, IsMap
    <2>6. DOMAIN [quotes EXCEPT ![s] = px] = Symbols
      BY <1>3
    <2>7. PICK after2 : after2 = [quotes EXCEPT ![s] = px]
      OBVIOUS
    <2>8. [st EXCEPT !.quotes[s] = px] = [quotes |-> after2, bars |-> bars]
      BY <1>3, <2>7
    <2>9. Brings(tail, "quote", after2, Q)
      BY <1>6, <1>8, <2>3, <2>5, <2>7
    <2>10. Brings(tail, "bar", bars, new)
      BY <1>5, <1>8
    <2>11. PICK st2 : st2 = [quotes |-> after2, bars |-> bars]
      OBVIOUS
    <2>12. st2.quotes = after2 /\ st2.bars = bars /\ DOMAIN after2 = Symbols
      BY <2>6, <2>7, <2>11
    <2>13. Flowing(tail, st2, T, G, rest, Q)
      BY <1>2, <1>4, <1>7, <2>9, <2>10, <2>11, <2>12 DEF Flowing
    <2> QED  BY <2>2, <2>8, <2>11, <2>13
  <1>9. ASSUME cmd.op = "bar"
        PROVE  Flowing(tail, [st EXCEPT !.bars = Beside([k \in {cmd.key} |-> cmd.bar], @)], T, G, rest, Q)
    <2>1. Target(cmd) = cmd.key /\ Value(cmd) = cmd.bar
      BY <1>9 DEF Target, Value
    <2>2. PICK after2 : after2 = Beside([k \in {cmd.key} |-> cmd.bar], bars)
      OBVIOUS
    <2>3. PICK st2 : st2 = [quotes |-> quotes, bars |-> after2]
      OBVIOUS
    <2>4. [st EXCEPT !.bars = Beside([k \in {cmd.key} |-> cmd.bar], @)] = st2
      BY <1>3, <2>2, <2>3
    <2>5. st2.quotes = quotes /\ st2.bars = after2
      BY <2>3
    <2>6. Brings(tail, "quote", quotes, Q)
      BY <1>6, <1>9
    <2>7. Brings(tail, "bar", after2, new)
      BY <1>5, <1>9, <2>1, <2>2
    <2>8. Flowing(tail, st2, T, G, rest, Q)
      BY <1>2, <1>3, <1>4, <1>7, <2>3, <2>5, <2>6, <2>7 DEF Flowing
    <2> QED  BY <2>4, <2>8
  <1>10. ASSUME cmd.op \in {"hear", "trigger"}
         PROVE  /\ Flowing(tail, st, T, G, rest, Q)
                /\ cmd.op = "trigger" => Flowing(tail, st, T \cup {cmd.key}, G, rest, Q)
    BY <1>2, <1>3, <1>4, <1>5, <1>6, <1>7, <1>10 DEF Flowing
  <1> QED  BY <1>1, <1>4, <1>8, <1>9, <1>10

\* What those who listen to md:stream:all are to hear.
Told ==
    IF plan.mode # "stream" THEN <<>>
    ELSE IF At = "done" THEN Append(fed, Complete) ELSE fed

PipeInv ==
    /\ Hearing(heard, pipe, Told)
    /\ plan.mode = "stream" => agg = AggOf(fed)
    /\ plan.mode # "stream" => minute = RunningMinute(fed)
    /\ pc = "seed" =>
         /\ triggers = {}
         /\ store = [quotes |-> QuotesOf(<<>>), bars |-> [k \in {b \in BarKeys : left} |-> OldBar(k)]]
    /\ pc # "seed" => Flowing(pipe, store, triggers, Expected(fed), Remains, QuotesOf(fed))
    /\ pc \notin {"seed", "execute"} => store.bars = Beside(Expected(SubSeq(fed, 1, flushed)), Remains)

\* What a step that keeps the plan and the past keeps.
LEMMA KeptPast ==
  ASSUME left' = left, plan'.mode = plan.mode
  PROVE  /\ Remains' = Remains
         /\ \A R : (Expected(R))' = Expected(R)
         /\ \A R : (QuotesOf(R))' = QuotesOf(R)
  BY DEF Remains, Expected, QuotesOf, RowsOf, OldBar, BarKeys

LEMMA KeptFed ==
  ASSUME left' = left, plan'.mode = plan.mode, fed' = fed
  PROVE  Expected(fed)' = Expected(fed) /\ QuotesOf(fed)' = QuotesOf(fed) /\ Remains' = Remains
  BY DEF Remains, Expected, QuotesOf, RowsOf, OldBar, BarKeys

LEMMA KeptTold ==
  ASSUME plan'.mode = plan.mode, fed' = fed, plan.mode = "stream" => (At' = "done" <=> At = "done")
  PROVE  Told' = Told
  BY DEF Told

\* Nothing is expected before the first row.
LEMMA NothingFed ==
  /\ BarsOf(<<>>) = <<>> /\ SpotBarsOf(<<>>) = <<>>
  /\ AggOf(<<>>) = EmptyAggregator /\ RunningMinute(<<>>) = NoBar
  /\ QuotesOf(<<>>) = [s \in Symbols |-> IF left THEN OldPrice ELSE NoQuote]
  <1>1. \A s : Priced(<<>>, s) = {} /\ RowsOf(<<>>, s) = {}
    BY DEF Priced, RowsOf
  <1>2. <<>> \in Seq(Row) /\ KeysOf(<<>>) = {} /\ ClosedOf(<<>>) = {}
    BY <1>1 DEF KeysOf, ClosedOf, Inside
  <1>3. BarsOf(<<>>) = <<>> /\ SpotBarsOf(<<>>) = <<>>
    <2>1. BarsOf(<<>>) = [k \in {} |-> BarOf(<<>>, k)]
      BY <1>2, BarsFound
    <2>2. SpotBarsOf(<<>>) = [k \in {} |-> SpotBar(<<>>, k)]
      BY <1>2, SpotBarsFound
    <2> QED  BY <2>1, <2>2
  <1>4. AggOf(<<>>) = EmptyAggregator
    BY <1>1 DEF AggOf, EmptyAggregator, BarNow
  <1> QED  BY <1>1, <1>3, <1>4 DEF RunningMinute, QuotesOf

LEMMA ExpectedMap ==
  ASSUME NEW R \in Seq(Row)
  PROVE  IsMap(Expected(R)) /\ IsMap(BarsOf(R)) /\ IsMap(SpotBarsOf(R))
  <1>1. BarsOf(R) = [k \in KeysOf(R) |-> BarOf(R, k)] /\ SpotBarsOf(R) = [k \in ClosedOf(R) |-> SpotBar(R, k)]
    BY BarsFound, SpotBarsFound
  <1>2. IsMap(BarsOf(R)) /\ IsMap(SpotBarsOf(R))
    BY <1>1 DEF IsMap
  <1> QED  BY <1>2 DEF Expected

LEMMA PipeInit == ReplayInit => PipeInv
  <1> SUFFICES ASSUME ReplayInit PROVE PipeInv
    OBVIOUS
  <1>1. /\ pc = "seed" /\ pipe = <<>> /\ heard = <<>> /\ fed = <<>> /\ agg = EmptyAggregator /\ minute = NoBar
        /\ triggers = {}
        /\ store = [quotes |-> [s \in Symbols |-> IF left THEN OldPrice ELSE NoQuote],
                    bars   |-> [k \in {b \in BarKeys : left} |-> OldBar(k)]]
    BY DEF ReplayInit
  <1>2. Told = <<>>
    BY <1>1 DEF Told, At
  <1>3. Hearing(heard, pipe, Told)
    <2>1. <<>> \in Seq(Message)
      OBVIOUS
    <2> QED  BY <1>1, <1>2, <2>1, HearingNothing
  <1> QED  BY <1>1, <1>3, NothingFed DEF PipeInv

\* The seed of the stream leaves bars of options, the seed of the script all.
LEMMA PipeSeed ==
  ASSUME RowsInv, PipeInv, SeedStream \/ SeedScript
  PROVE  PipeInv'
  <1>1. /\ pc = "seed" /\ pc' = "load" /\ left' = left /\ fed = <<>> /\ fed' = fed /\ flushed = 0 /\ flushed' = flushed
        /\ pipe = <<>> /\ pipe' = pipe /\ heard' = heard /\ triggers = {} /\ triggers' = triggers
        /\ agg' = agg /\ minute' = minute
    BY DEF RowsInv, PipeInv, SeedStream, SeedScript, feedVars
  <1>2. plan'.mode = plan.mode
    BY DEF RowsInv, SeedStream, SeedScript
  <1>3. Told' = Told
    BY <1>1, <1>2, KeptTold DEF At
  <1>4. Expected(fed) = <<>> /\ Expected(SubSeq(fed, 1, flushed)) = <<>>
    <2>1. SubSeq(fed, 1, flushed) = <<>>
      BY <1>1
    <2> QED  BY <1>1, <2>1, NothingFed DEF Expected
  <1>5. /\ Expected(fed)' = <<>> /\ QuotesOf(fed)' = QuotesOf(<<>>) /\ Remains' = Remains
        /\ Expected(SubSeq(fed, 1, flushed))' = <<>>
    <2>1. Expected(SubSeq(fed, 1, flushed))' = Expected(SubSeq(fed, 1, flushed))
      BY <1>1, <1>2 DEF Expected
    <2> QED  BY <1>1, <1>2, <1>4, <2>1, KeptFed
  <1>6. IsMap(Remains) /\ Beside(<<>>, Remains) = Remains
    BY DEF IsMap, Remains, Beside
  <1>7. store'.quotes = QuotesOf(<<>>) /\ store'.bars = Remains /\ store' = [quotes |-> store'.quotes, bars |-> store'.bars]
    <2>1. store = [quotes |-> QuotesOf(<<>>), bars |-> [k \in {b \in BarKeys : left} |-> OldBar(k)]]
      BY <1>1 DEF PipeInv
    <2>2. PICK quotes, bars : quotes = QuotesOf(<<>>) /\ bars = [k \in {b \in BarKeys : left} |-> OldBar(k)]
      OBVIOUS
    <2>3. CASE SeedStream
      <3>1. plan.mode = "stream" /\ store' = [store EXCEPT !.bars = KeptBars(@)]
        BY <2>3 DEF SeedStream
      <3>2. store' = [quotes |-> quotes, bars |-> KeptBars(bars)]
        BY <2>1, <2>2, <3>1
      <3>3. KeptBars(bars) = Remains
        BY <2>2, <3>1 DEF KeptBars, Remains
      <3> QED  BY <2>2, <3>2, <3>3
    <2>4. CASE SeedScript
      <3>1. plan.mode # "stream" /\ store' = store
        BY <2>4 DEF SeedScript
      <3>2. bars = Remains
        BY <2>2, <3>1 DEF Remains
      <3> QED  BY <2>1, <2>2, <3>1, <3>2
    <2> QED  BY <2>3, <2>4
  <1>8. Brings(<<>>, "bar", Remains, Remains) /\ Brings(<<>>, "quote", QuotesOf(<<>>), QuotesOf(<<>>))
    <2>1. IsMap(QuotesOf(<<>>))
      BY DEF IsMap, QuotesOf
    <2> QED  BY <1>6, <2>1, BringsSilent
  <1>9. Announced({}, <<>>, <<>>) /\ <<>> \in Seq(Command)
    BY DEF Announced
  <1>10. DOMAIN QuotesOf(<<>>) = Symbols
    BY DEF QuotesOf
  <1>11. PICK st, Q, rest : st = store' /\ Q = QuotesOf(<<>>) /\ rest = Remains
    OBVIOUS
  <1>12. Flowing(<<>>, st, {}, <<>>, rest, Q)
    BY <1>6, <1>7, <1>8, <1>9, <1>10, <1>11 DEF Flowing
  <1>13. Flowing(pipe, store, triggers, Expected(fed), Remains, QuotesOf(fed))'
    BY <1>1, <1>5, <1>11, <1>12
  <1>14. store'.bars = Beside(Expected(SubSeq(fed, 1, flushed)), Remains)'
    BY <1>5, <1>6, <1>7
  <1>15. Hearing(heard, pipe, Told)'
    BY <1>1, <1>3 DEF PipeInv
  <1>16. (plan.mode = "stream" => agg = AggOf(fed))' /\ (plan.mode # "stream" => minute = RunningMinute(fed))'
    BY <1>1, <1>2 DEF PipeInv
  <1> QED  BY <1>1, <1>13, <1>14, <1>15, <1>16 DEF PipeInv

\* Commands that concern no bar.
LEMMA FlowingMore ==
  ASSUME NEW p, NEW st, NEW T, NEW F, NEW rest, NEW Q, Flowing(p, st, T, F, rest, Q),
         IsMap(F), IsMap(rest), NEW q \in Seq(Command), NEW Q2, Brings(q, "quote", Q, Q2),
         \A i \in DOMAIN q : q[i].op # "bar" /\ q[i].op # "trigger"
  PROVE  Flowing(p \o q, st, T, F, rest, Q2)
  <1>1. Faithful(<<>>, F, F) /\ Covered(<<>>, F, F)
    BY NothingFaithful DEF Covered
  <1>2. Flowing((p \o q) \o <<>>, st, T, F, rest, Q2)
    BY <1>1, FlowingRow
  <1>3. p \in Seq(Command) /\ (p \o q) \o <<>> = p \o q
    BY DEF Flowing
  <1> QED  BY <1>2, <1>3

LEMMA SilentMore ==
  /\ \A row \in Row : \A i \in DOMAIN Quote(row) : Quote(row)[i].op = "quote"
  /\ \A msg \in Message : \A i \in DOMAIN Hear(msg) : Hear(msg)[i].op = "hear"
  /\ \A c \in Seq(BarCommand) : \A i \in DOMAIN c : c[i].op \in {"bar", "trigger"}
  <1>1. ASSUME NEW c \in Seq(BarCommand), NEW i \in DOMAIN c PROVE c[i].op \in {"bar", "trigger"}
    <2>1. c[i] \in BarCommand
      BY <1>1
    <2> QED  BY <2>1 DEF BarCommand
  <1> QED  BY <1>1 DEF Quote, Hear

\* The commands of a row of the stream.
LEMMA StreamPiped ==
  ASSUME NEW R, NEW row, NEW S, Grown(R, row, S), Ordered(R),
         NEW p, NEW st, NEW T, NEW rest, IsMap(rest), Flowing(p, st, T, BarsOf(R), rest, QuotesOf(R)),
         NEW h, Hearing(h, p, R)
  PROVE  LET new == p \o Quote(row) \o Hear(row) \o AggregatorCommands(AggOf(R), row)
         IN  Flowing(new, st, T, BarsOf(S), rest, QuotesOf(S)) /\ Hearing(h, new, S)
  <1>1. PICK c, q1, q2, F, G, Q, Q2 :
            /\ c = AggregatorCommands(AggOf(R), row) /\ q1 = Quote(row) /\ q2 = Hear(row)
            /\ F = BarsOf(R) /\ G = BarsOf(S) /\ Q = QuotesOf(R) /\ Q2 = QuotesOf(S)
    OBVIOUS
  <1>2. R \in Seq(Row) /\ S \in Seq(Row) /\ row \in Row /\ row \in Message /\ S = Append(R, row)
    BY Grows DEF Grown, Message
  <1>3. /\ q1 \in Seq(Command) /\ q2 \in Seq(Command) /\ p \in Seq(Command)
        /\ (\A i \in DOMAIN q1 : q1[i].op = "quote") /\ (\A i \in DOMAIN q2 : q2[i].op = "hear")
    BY <1>1, <1>2, CommandTyped, SilentMore DEF Flowing
  <1>4. IsMap(F) /\ IsMap(G) /\ IsMap(Q2)
    BY <1>1, <1>2, ExpectedMap DEF IsMap, QuotesOf
  <1>5. Brings(q1, "quote", Q, Q2) /\ Brings(q2, "quote", Q2, Q2)
    BY <1>1, <1>3, <1>4, BringsQuote, BringsSilent
  <1>6. Faithful(c, F, G) /\ Covered(c, F, G) /\ c \in Seq(BarCommand) /\ c \in Seq(Command)
    BY <1>1, AggregatorFaithful, CommandTyped DEF Faithful
  <1>7. Flowing(p \o q1, st, T, F, rest, Q2)
    BY <1>1, <1>3, <1>4, <1>5, FlowingMore
  <1>8. Flowing(((p \o q1) \o q2) \o c, st, T, G, rest, Q2)
    BY <1>3, <1>4, <1>5, <1>6, <1>7, FlowingRow
  <1>9. Hearing(h, ((p \o q1) \o q2) \o c, S)
    <2>1. PICK p1 : p1 = p \o q1
      OBVIOUS
    <2>2. p1 \in Seq(Command)
      BY <1>3, <2>1
    <2>3. Hearing(h, p1, R)
      BY <1>3, <2>1, HearingSilent
    <2>4. PICK p2 : p2 = p1 \o q2
      OBVIOUS
    <2>5. p2 \in Seq(Command) /\ Hearing(h, p2, S)
      BY <1>1, <1>2, <1>3, <2>2, <2>3, <2>4, HearingOne
    <2>6. \A i \in DOMAIN c : c[i].op # "hear"
      BY <1>6, SilentMore
    <2>7. Hearing(h, p2 \o c, S)
      BY <1>6, <2>5, <2>6, HearingSilent
    <2> QED  BY <2>1, <2>4, <2>7
  <1> QED  BY <1>1, <1>8, <1>9

\* The commands of a row of the script.
LEMMA SpotPiped ==
  ASSUME NEW R, NEW row, NEW S, Grown(R, row, S), Ordered(R),
         NEW p, NEW st, NEW T, NEW rest, IsMap(rest), Flowing(p, st, T, SpotBarsOf(R), rest, QuotesOf(R)),
         NEW h, Hearing(h, p, <<>>),
         NEW c, c = IF row.sym = Spot THEN SpotCommands(RunningMinute(R), row) ELSE <<>>
  PROVE  Flowing((p \o Quote(row)) \o c, st, T, SpotBarsOf(S), rest, QuotesOf(S))
         /\ Hearing(h, (p \o Quote(row)) \o c, <<>>)
  <1>1. PICK q1, F, G, Q, Q2 :
            /\ q1 = Quote(row)
            /\ F = SpotBarsOf(R) /\ G = SpotBarsOf(S) /\ Q = QuotesOf(R) /\ Q2 = QuotesOf(S)
    OBVIOUS
  <1>2. R \in Seq(Row) /\ S \in Seq(Row) /\ row \in Row
    BY Grows DEF Grown
  <1>3. q1 \in Seq(Command) /\ p \in Seq(Command) /\ (\A i \in DOMAIN q1 : q1[i].op = "quote")
    BY <1>1, <1>2, CommandTyped, SilentMore DEF Flowing
  <1>4. IsMap(F) /\ IsMap(G) /\ Brings(q1, "quote", Q, Q2)
    BY <1>1, <1>2, ExpectedMap, BringsQuote
  <1>5. Faithful(c, F, G) /\ Covered(c, F, G) /\ c \in Seq(BarCommand) /\ c \in Seq(Command)
    <2>1. Faithful(c, SpotBarsOf(R), SpotBarsOf(S)) /\ Covered(c, SpotBarsOf(R), SpotBarsOf(S))
      BY SpotFaithful
    <2>2. Faithful(c, F, G) /\ Covered(c, F, G)
      BY <1>1, <2>1
    <2>3. c \in Seq(BarCommand)
      BY <2>2 DEF Faithful
    <2> QED  BY <2>2, <2>3, CommandTyped
  <1>6. Flowing((p \o q1) \o c, st, T, G, rest, Q2)
    BY <1>1, <1>3, <1>4, <1>5, FlowingRow
  <1>7. Hearing(h, (p \o q1) \o c, <<>>)
    <2>1. PICK p1 : p1 = p \o q1
      OBVIOUS
    <2>2. p1 \in Seq(Command)
      BY <1>3, <2>1
    <2>3. Hearing(h, p1, <<>>)
      BY <1>3, <2>1, HearingSilent
    <2>4. \A i \in DOMAIN c : c[i].op # "hear"
      BY <1>5, SilentMore
    <2> QED  BY <1>5, <2>1, <2>2, <2>3, <2>4, HearingSilent
  <1> QED  BY <1>1, <1>6, <1>7

LEMMA PrefixStays ==
  ASSUME NEW R \in Seq(Row), NEW row \in Row, NEW n \in 0..Len(R)
  PROVE  SubSeq(Append(R, row), 1, n) = SubSeq(R, 1, n)
  <1>1. PICK S : S = Append(R, row)
    OBVIOUS
  <1>2. /\ S \in Seq(Row) /\ Len(S) = Len(R) + 1 /\ Len(R) \in Nat /\ n \in Nat
        /\ \A i \in 1..Len(R) : S[i] = R[i]
    BY <1>1
  <1>3. SubSeq(S, 1, n) = [i \in 1..n |-> S[i]] /\ SubSeq(R, 1, n) = [i \in 1..n |-> R[i]]
    BY <1>2
  <1>4. \A i \in 1..n : S[i] = R[i]
    BY <1>2
  <1> QED  BY <1>1, <1>3, <1>4

\* Steps that touch neither the rows fed nor Redis.
LEMMA PipeIdle ==
  ASSUME RowsInv, PipeInv, pc \notin {"seed", "execute"}, pc' # "seed",
         plan' = plan, left' = left, fed' = fed, flushed' = flushed, agg' = agg, minute' = minute,
         pipe' = pipe, store' = store, heard' = heard, triggers' = triggers,
         plan.mode = "stream" => (At' = "done" <=> At = "done")
  PROVE  PipeInv'
  <1>1. Told' = Told /\ Expected(fed)' = Expected(fed) /\ QuotesOf(fed)' = QuotesOf(fed) /\ Remains' = Remains
    BY KeptTold, KeptFed
  <1>2. Expected(SubSeq(fed, 1, flushed))' = Expected(SubSeq(fed, 1, flushed))
    BY DEF Expected
  <1>3. Flowing(pipe, store, triggers, Expected(fed), Remains, QuotesOf(fed))'
    BY <1>1 DEF PipeInv
  <1>4. (store.bars = Beside(Expected(SubSeq(fed, 1, flushed)), Remains))'
    BY <1>1, <1>2 DEF PipeInv
  <1> QED  BY <1>1, <1>3, <1>4 DEF PipeInv

LEMMA PipeFinish ==
  ASSUME RowsInv, PipeInv, Finish
  PROVE  PipeInv'
  <1>1. /\ pc = "finish" /\ pc' = "execute" /\ At' = "done" /\ At = "finish" /\ plan' = plan /\ left' = left
        /\ fed' = fed /\ agg' = agg /\ minute' = minute /\ flushed' = flushed /\ store' = store /\ heard' = heard
        /\ triggers' = triggers
        /\ pipe' = IF plan.mode = "stream" THEN pipe \o Hear(Complete) ELSE pipe
    BY DEF Finish, feedVars, At
  <1>2. Expected(fed)' = Expected(fed) /\ QuotesOf(fed)' = QuotesOf(fed) /\ Remains' = Remains
    BY <1>1, KeptFed
  <1>3. Flowing(pipe, store, triggers, Expected(fed), Remains, QuotesOf(fed)) /\ Hearing(heard, pipe, Told)
    BY <1>1 DEF PipeInv
  <1>4. CASE plan.mode = "stream"
    <2>1. Told = fed /\ Told' = Append(fed, Complete) /\ pipe' = pipe \o Hear(Complete)
      BY <1>1, <1>4 DEF Told
    <2>2. Complete \in Message /\ pipe \in Seq(Command) /\ Hear(Complete) \in Seq(Command)
      BY <1>3, CommandTyped DEF Flowing, Message
    <2>3. Hearing(heard, pipe, Told)'
      BY <1>1, <1>3, <2>1, <2>2, HearingOne
    <2>4. PICK q, Q, F, rest : q = Hear(Complete) /\ Q = QuotesOf(fed) /\ F = Expected(fed) /\ rest = Remains
      OBVIOUS
    <2>5. \A i \in DOMAIN q : q[i].op = "hear"
      BY <2>2, <2>4, SilentMore
    <2>6. IsMap(Q) /\ IsMap(rest) /\ IsMap(F)
      <3>1. fed \in Seq(Row)
        BY DEF RowsInv
      <3> QED  BY <2>4, <3>1, ExpectedMap DEF IsMap, QuotesOf, Remains
    <2>7. Brings(q, "quote", Q, Q)
      BY <2>5, <2>6, BringsSilent
    <2>8. Flowing(pipe \o q, store, triggers, F, rest, Q)
      BY <1>3, <2>2, <2>4, <2>5, <2>6, <2>7, FlowingMore
    <2>9. Flowing(pipe, store, triggers, Expected(fed), Remains, QuotesOf(fed))'
      BY <1>1, <1>2, <2>1, <2>4, <2>8
    <2> QED  BY <1>1, <1>4, <2>3, <2>9 DEF PipeInv
  <1>5. CASE plan.mode # "stream"
    <2>1. Told' = Told /\ pipe' = pipe
      BY <1>1, <1>5 DEF Told
    <2>2. Flowing(pipe, store, triggers, Expected(fed), Remains, QuotesOf(fed))'
      BY <1>1, <1>2, <1>3, <2>1
    <2>3. Hearing(heard, pipe, Told)'
      BY <1>1, <1>3, <2>1
    <2> QED  BY <1>1, <1>5, <2>2, <2>3 DEF PipeInv
  <1> QED  BY <1>4, <1>5

\* Redis shows the rows flushed, which a new row does not change.
LEMMA FlushedStays ==
  ASSUME RowsInv, PipeInv, pc = "row", plan' = plan, left' = left, flushed' = flushed, store' = store,
         fed' = Append(fed, Head(chunk))
  PROVE  (store.bars = Beside(Expected(SubSeq(fed, 1, flushed)), Remains))'
  <1>1. fed \in Seq(Row) /\ Head(chunk) \in Row /\ flushed \in 0..Len(fed)
    BY RowFed DEF RowsInv
  <1>2. SubSeq(fed', 1, flushed') = SubSeq(fed, 1, flushed)
    BY <1>1, PrefixStays
  <1>3. Remains' = Remains
    BY KeptPast
  <1>4. Expected(SubSeq(fed, 1, flushed))' = Expected(SubSeq(fed, 1, flushed))
    BY <1>2 DEF Expected
  <1> QED  BY <1>3, <1>4 DEF PipeInv

LEMMA RemainsMap == IsMap(Remains)
  BY DEF IsMap, Remains

LEMMA PipeStreamRow ==
  ASSUME RowsInv, PipeInv, StreamRow
  PROVE  PipeInv'
  <1>1. /\ pc = "row" /\ plan.mode = "stream" /\ plan' = plan /\ left' = left /\ flushed' = flushed
        /\ store' = store /\ heard' = heard /\ triggers' = triggers /\ minute' = minute
        /\ fed' = Append(fed, Head(chunk)) /\ agg' = Aggregated(agg, Head(chunk))
        /\ pipe' = pipe \o Quote(Head(chunk)) \o Hear(Head(chunk)) \o AggregatorCommands(agg, Head(chunk))
    BY DEF StreamRow
  <1>2. (pc' = "execute" /\ after' = AfterRow(chunk')) \/ pc' = AfterRow(chunk')
    BY DEF StreamRow
  <1>3. pc' # "seed" /\ At # "done" /\ At' # "done"
    BY <1>1, <1>2 DEF At, AfterRow
  <1>4. agg = AggOf(fed) /\ Hearing(heard, pipe, fed)
        /\ Flowing(pipe, store, triggers, BarsOf(fed), Remains, QuotesOf(fed))
    BY <1>1, <1>3 DEF PipeInv, Told, Expected
  <1>5. PICK R, S, row, p, new : /\ R = fed /\ S = fed' /\ row = Head(chunk) /\ p = pipe
                            /\ new = p \o Quote(row) \o Hear(row) \o AggregatorCommands(AggOf(R), row)
    OBVIOUS
  <1>6. Grown(R, row, S) /\ Ordered(R)
    BY <1>1, <1>5, RowFed
  <1>7. Flowing(new, store, triggers, BarsOf(S), Remains, QuotesOf(S)) /\ Hearing(heard, new, S)
    <2>1. PICK st, T, rest, h : st = store /\ T = triggers /\ rest = Remains /\ h = heard
      OBVIOUS
    <2>2. Flowing(p, st, T, BarsOf(R), rest, QuotesOf(R)) /\ Hearing(h, p, R) /\ IsMap(rest)
      BY <1>4, <1>5, <2>1, RemainsMap
    <2>3. Flowing(new, st, T, BarsOf(S), rest, QuotesOf(S)) /\ Hearing(h, new, S)
      BY <1>5, <1>6, <2>2, StreamPiped
    <2> QED  BY <2>1, <2>3
  <1>8. pipe' = new
    BY <1>1, <1>4, <1>5
  <1>9. Expected(fed)' = BarsOf(S) /\ Remains' = Remains /\ QuotesOf(fed)' = QuotesOf(S) /\ Told' = S
    <2>1. Remains' = Remains
      BY <1>1, KeptPast
    <2>2. Expected(fed)' = BarsOf(S) /\ Told' = S
      BY <1>1, <1>3, <1>5 DEF Expected, Told
    <2>3. QuotesOf(fed)' = QuotesOf(S)
      BY <1>1, <1>5 DEF QuotesOf
    <2> QED  BY <2>1, <2>2, <2>3
  <1>10. agg' = AggOf(S)
    BY <1>1, <1>4, <1>5, <1>6, AggStep
  <1>11. Flowing(pipe, store, triggers, Expected(fed), Remains, QuotesOf(fed))' /\ Hearing(heard, pipe, Told)'
    BY <1>1, <1>7, <1>8, <1>9
  <1>12. (store.bars = Beside(Expected(SubSeq(fed, 1, flushed)), Remains))'
    BY <1>1, FlushedStays
  <1>13. (plan.mode = "stream" => agg = AggOf(fed))' /\ (plan.mode # "stream" => minute = RunningMinute(fed))'
    BY <1>1, <1>5, <1>10
  <1> QED  BY <1>3, <1>11, <1>12, <1>13 DEF PipeInv

LEMMA PipeSpotRow ==
  ASSUME RowsInv, PipeInv, FeedRow \/ VerifyRow
  PROVE  PipeInv'
  <1>1. /\ pc = "row" /\ plan.mode # "stream" /\ plan' = plan /\ left' = left /\ flushed' = flushed
        /\ store' = store /\ heard' = heard /\ triggers' = triggers /\ agg' = agg
        /\ fed' = Append(fed, Head(chunk)) /\ SpotRow(Head(chunk))
    BY DEF FeedRow, VerifyRow
  <1>2. pc' # "seed"
    BY DEF FeedRow, VerifyRow, AfterRow
  <1>3. minute = RunningMinute(fed) /\ Hearing(heard, pipe, <<>>)
        /\ Flowing(pipe, store, triggers, SpotBarsOf(fed), Remains, QuotesOf(fed))
    BY <1>1 DEF PipeInv, Told, Expected
  <1>4. PICK R, S, row, p, c, m : /\ R = fed /\ S = fed' /\ row = Head(chunk) /\ p = pipe /\ m = minute
                               /\ c = IF row.sym = Spot THEN SpotCommands(RunningMinute(R), row) ELSE <<>>
    OBVIOUS
  <1>5. Grown(R, row, S) /\ Ordered(R)
    BY <1>1, <1>4, RowFed
  <1>6. pipe' = (p \o Quote(row)) \o c /\ minute' = RunningMinute(S)
    <2>1. CASE row.sym = Spot
      <3>1. pipe' = (p \o Quote(row)) \o SpotCommands(m, row) /\ minute' = SpotAggregated(m, row)
        BY <1>1, <1>4, <2>1 DEF SpotRow
      <3>2. m = RunningMinute(R) /\ c = SpotCommands(RunningMinute(R), row)
        BY <1>3, <1>4, <2>1
      <3>3. SpotAggregated(RunningMinute(R), row) = RunningMinute(S)
        BY <1>5, <2>1, MinuteStep
      <3> QED  BY <3>1, <3>2, <3>3
    <2>2. CASE row.sym # Spot
      <3>1. pipe' = p \o Quote(row) /\ minute' = m
        BY <1>1, <1>4, <2>2 DEF SpotRow
      <3>2. c = <<>> /\ m = RunningMinute(R)
        BY <1>3, <1>4, <2>2
      <3>3. p \in Seq(Command) /\ Quote(row) \in Seq(Command)
        <4>1. row \in Row
          BY <1>5 DEF Grown
        <4>2. Flowing(p, store, triggers, SpotBarsOf(fed), Remains, QuotesOf(fed))
          BY <1>3, <1>4
        <4> QED  BY <4>1, <4>2, CommandTyped DEF Flowing
      <3>4. (p \o Quote(row)) \o <<>> = p \o Quote(row)
        BY <3>3
      <3>5. RunningMinute(S) = RunningMinute(R)
        BY <1>5, <2>2, SpotOthers
      <3> QED  BY <3>1, <3>2, <3>4, <3>5
    <2> QED  BY <2>1, <2>2
  <1>7. Flowing((p \o Quote(row)) \o c, store, triggers, SpotBarsOf(S), Remains, QuotesOf(S))
        /\ Hearing(heard, (p \o Quote(row)) \o c, <<>>)
    <2>1. PICK st, T, rest, h : st = store /\ T = triggers /\ rest = Remains /\ h = heard
      OBVIOUS
    <2>2. Flowing(p, st, T, SpotBarsOf(R), rest, QuotesOf(R)) /\ Hearing(h, p, <<>>) /\ IsMap(rest)
      BY <1>3, <1>4, <2>1, RemainsMap
    <2>3. c = IF row.sym = Spot THEN SpotCommands(RunningMinute(R), row) ELSE <<>>
      BY <1>4
    <2>4. Flowing((p \o Quote(row)) \o c, st, T, SpotBarsOf(S), rest, QuotesOf(S))
          /\ Hearing(h, (p \o Quote(row)) \o c, <<>>)
      BY <1>5, <2>2, <2>3, SpotPiped
    <2> QED  BY <2>1, <2>4
  <1>8. Expected(fed)' = SpotBarsOf(S) /\ Remains' = Remains /\ QuotesOf(fed)' = QuotesOf(S) /\ Told' = <<>>
    <2>1. Remains' = Remains
      BY <1>1, KeptPast
    <2>2. Expected(fed)' = SpotBarsOf(S) /\ Told' = <<>>
      BY <1>1, <1>4 DEF Expected, Told
    <2>3. QuotesOf(fed)' = QuotesOf(S)
      BY <1>1, <1>4 DEF QuotesOf
    <2> QED  BY <2>1, <2>2, <2>3
  <1>9. Flowing(pipe, store, triggers, Expected(fed), Remains, QuotesOf(fed))' /\ Hearing(heard, pipe, Told)'
    BY <1>1, <1>6, <1>7, <1>8
  <1>10. (store.bars = Beside(Expected(SubSeq(fed, 1, flushed)), Remains))'
    BY <1>1, FlushedStays
  <1>11. (plan.mode = "stream" => agg = AggOf(fed))' /\ (plan.mode # "stream" => minute = RunningMinute(fed))'
    BY <1>1, <1>4, <1>6
  <1> QED  BY <1>2, <1>9, <1>10, <1>11 DEF PipeInv

LEMMA PipeExecute ==
  ASSUME RowsInv, PipeInv, Execute
  PROVE  PipeInv'
  <1>1. /\ pc = "execute" /\ plan' = plan /\ left' = left /\ fed' = fed /\ agg' = agg /\ minute' = minute
        /\ after' = after /\ fed \in Seq(Row) /\ after \notin {"seed", "execute"}
    BY DEF Execute, feedVars, RowsInv, At
  <1>2. Expected(fed)' = Expected(fed) /\ QuotesOf(fed)' = QuotesOf(fed) /\ Remains' = Remains
    BY <1>1, KeptFed
  <1>3. Told' = Told
    <2>1. At' = At
      BY <1>1 DEF Execute, At
    <2> QED  BY <1>1, <2>1, KeptTold
  <1>4. Flowing(pipe, store, triggers, Expected(fed), Remains, QuotesOf(fed)) /\ Hearing(heard, pipe, Told)
    BY <1>1 DEF PipeInv
  <1>5. PICK p, st, T, h, G, rest, Q, told :
            /\ p = pipe /\ st = store /\ T = triggers /\ h = heard /\ G = Expected(fed) /\ rest = Remains
            /\ Q = QuotesOf(fed) /\ told = Told
    OBVIOUS
  <1>6. Flowing(p, st, T, G, rest, Q) /\ Hearing(h, p, told)
    BY <1>4, <1>5
  <1>7. (plan.mode = "stream" => agg = AggOf(fed))' /\ (plan.mode # "stream" => minute = RunningMinute(fed))'
    BY <1>1 DEF PipeInv
  <1>8. CASE pipe = <<>>
    <2>1. pc' = after /\ flushed' = Len(fed) /\ pipe' = pipe /\ store' = store /\ heard' = heard /\ triggers' = triggers
      BY <1>8 DEF Execute
    <2>2. Flowing(pipe, store, triggers, Expected(fed), Remains, QuotesOf(fed))' /\ Hearing(heard, pipe, Told)'
      BY <1>2, <1>3, <1>4, <2>1
    <2>3. st.bars = Beside(G, rest)
      <3>1. Brings(<<>>, "bar", st.bars, Beside(G, rest))
        BY <1>5, <1>6, <1>8 DEF Flowing
      <3> QED  BY <3>1, BringsNothing
    <2>4. SubSeq(fed, 1, Len(fed)) = fed
      BY <1>1
    <2>5. Expected(SubSeq(fed, 1, flushed))' = Expected(fed)
      BY <1>1, <2>1, <2>4 DEF Expected
    <2>6. (store.bars = Beside(Expected(SubSeq(fed, 1, flushed)), Remains))'
      BY <1>2, <1>5, <2>1, <2>3, <2>5
    <2> QED  BY <1>1, <1>7, <2>1, <2>2, <2>6 DEF PipeInv
  <1>9. CASE pipe # <<>>
    <2>1. pc' = "execute" /\ Apply(Head(p)) /\ pipe' = Tail(p) /\ p # <<>>
      BY <1>1, <1>5, <1>9 DEF Execute
    <2>2. /\ Head(p) \in Command
          /\ Head(p).op = "quote" =>
               Flowing(Tail(p), [st EXCEPT !.quotes[Head(p).row.sym] = Head(p).row.px], T, G, rest, Q)
          /\ Head(p).op = "bar" =>
               Flowing(Tail(p), [st EXCEPT !.bars = Beside([k \in {Head(p).key} |-> Head(p).bar], @)], T, G, rest, Q)
          /\ Head(p).op = "hear" => Flowing(Tail(p), st, T, G, rest, Q)
          /\ Head(p).op = "trigger" => Flowing(Tail(p), st, T \cup {Head(p).key}, G, rest, Q)
      BY <1>6, <2>1, FlowingHead
    <2>3. /\ Head(p).op # "hear" => Hearing(h, Tail(p), told)
          /\ Head(p).op = "hear" => Hearing(Append(h, Head(p).row), Tail(p), told)
      <3>1. p \in Seq(Command)
        BY <1>6 DEF Flowing
      <3> QED  BY <1>6, <2>1, <3>1, HearingHead
    <2>4. PICK cmd, tail : cmd = Head(p) /\ tail = Tail(p)
      OBVIOUS
    <2>5. CASE cmd.op = "quote"
      <3>1. store' = [st EXCEPT !.quotes[cmd.row.sym] = cmd.row.px] /\ heard' = h /\ triggers' = T
        BY <1>5, <2>1, <2>4, <2>5 DEF Apply
      <3> QED  BY <1>2, <1>3, <1>5, <1>7, <2>1, <2>2, <2>3, <2>4, <2>5, <3>1 DEF PipeInv
    <2>6. CASE cmd.op = "bar"
      <3>1. store' = [st EXCEPT !.bars = Beside([k \in {cmd.key} |-> cmd.bar], @)] /\ heard' = h /\ triggers' = T
        BY <1>5, <2>1, <2>4, <2>6 DEF Apply
      <3> QED  BY <1>2, <1>3, <1>5, <1>7, <2>1, <2>2, <2>3, <2>4, <2>6, <3>1 DEF PipeInv
    <2>7. CASE cmd.op = "hear"
      <3>1. store' = st /\ heard' = Append(h, cmd.row) /\ triggers' = T
        BY <1>5, <2>1, <2>4, <2>7 DEF Apply
      <3> QED  BY <1>2, <1>3, <1>5, <1>7, <2>1, <2>2, <2>3, <2>4, <2>7, <3>1 DEF PipeInv
    <2>8. CASE cmd.op = "trigger"
      <3>1. store' = st /\ heard' = h /\ triggers' = T \cup {cmd.key}
        BY <1>5, <2>1, <2>4, <2>8 DEF Apply
      <3> QED  BY <1>2, <1>3, <1>5, <1>7, <2>1, <2>2, <2>3, <2>4, <2>8, <3>1 DEF PipeInv
    <2>9. cmd.op \in {"quote", "bar", "hear", "trigger"}
      BY <2>2, <2>4 DEF Command, BarCommand
    <2> QED  BY <2>5, <2>6, <2>7, <2>8, <2>9
  <1> QED  BY <1>8, <1>9

LEMMA PipeNext ==
  ASSUME RowsInv, PipeInv, [ReplayNext]_replayVars
  PROVE  PipeInv'
  <1>1. CASE LoadSlice \/ FetchRawTicks \/ Trade
    <2>1. /\ plan' = plan /\ left' = left /\ fed' = fed /\ flushed' = flushed /\ agg' = agg /\ minute' = minute
          /\ pipe' = pipe /\ store' = store /\ heard' = heard /\ triggers' = triggers /\ pc \in {"load", "desk"}
      BY <1>1 DEF LoadSlice, FetchRawTicks, Trade, feedVars
    <2>2. pc' \in {"load", "row", "finish", "done"} /\ (pc' = "done" => plan.mode # "stream")
      BY <1>1 DEF LoadSlice, FetchRawTicks, Trade, AfterRow
    <2> QED  BY <2>1, <2>2, PipeIdle DEF At
  <1>2. CASE UNCHANGED replayVars
    <2>1. /\ plan' = plan /\ left' = left /\ fed' = fed /\ flushed' = flushed /\ agg' = agg /\ minute' = minute
          /\ pipe' = pipe /\ store' = store /\ heard' = heard /\ triggers' = triggers /\ pc' = pc /\ after' = after
      BY <1>2 DEF replayVars, feedVars
    <2>2. Told' = Told /\ Expected(fed)' = Expected(fed) /\ QuotesOf(fed)' = QuotesOf(fed) /\ Remains' = Remains
      BY <2>1, KeptTold, KeptFed DEF At
    <2>3. QuotesOf(<<>>)' = QuotesOf(<<>>)
      BY <2>1, KeptPast
    <2>4. Expected(SubSeq(fed, 1, flushed))' = Expected(SubSeq(fed, 1, flushed))
      BY <2>1 DEF Expected
    <2>5. (pc = "seed" =>
             /\ triggers = {}
             /\ store = [quotes |-> QuotesOf(<<>>), bars |-> [k \in {b \in BarKeys : left} |-> OldBar(k)]])'
      BY <2>1, <2>3 DEF PipeInv
    <2>6. (pc # "seed" => Flowing(pipe, store, triggers, Expected(fed), Remains, QuotesOf(fed)))'
      BY <2>1, <2>2 DEF PipeInv
    <2>7. (pc \notin {"seed", "execute"} => store.bars = Beside(Expected(SubSeq(fed, 1, flushed)), Remains))'
      BY <2>1, <2>2, <2>4 DEF PipeInv
    <2> QED  BY <2>1, <2>2, <2>5, <2>6, <2>7 DEF PipeInv
  <1>3. CASE SeedStream \/ SeedScript \/ StreamRow \/ FeedRow \/ VerifyRow \/ Execute \/ Finish
    BY <1>3, PipeSeed, PipeStreamRow, PipeSpotRow, PipeExecute, PipeFinish
  <1> QED  BY <1>1, <1>2, <1>3 DEF ReplayNext

-----------------------------------------------------------------------------
(* The first two invariants of the replay.                                 *)

FlowInv == RowsInv /\ PipeInv

LEMMA FlowInvariant == ReplaySpec => []FlowInv
  <1>1. ReplayInit => FlowInv
    BY RowsInit, PipeInit DEF FlowInv
  <1>2. FlowInv /\ [ReplayNext]_replayVars => FlowInv'
    BY RowsNext, PipeNext DEF FlowInv
  <1> QED  BY <1>1, <1>2, PTL DEF ReplaySpec

LEMMA HearingPart ==
  ASSUME NEW h, NEW p \in Seq(Command), NEW told, Hearing(h, p, told)
  PROVE  told \in Seq(Message) /\ \E n \in 0..Len(told) : h = SubSeq(told, 1, n)
  <1>1. told \in Seq(Message) /\ \E m : HearingBy(m, h, p, told)
    BY DEF Hearing
  <1>2. PICK m : HearingBy(m, h, p, told)
    BY <1>1
  <1>3. m \in [0..Len(p) -> 0..Len(told)] /\ h = SubSeq(told, 1, m[0]) /\ Len(p) \in Nat
    BY <1>2 DEF HearingBy
  <1>4. 0 \in 0..Len(p)
    BY <1>3
  <1> QED  BY <1>1, <1>3, <1>4

LEMMA PrefixOf ==
  ASSUME NEW X, NEW R \in Seq(X), NEW n \in 0..Len(R)
  PROVE  /\ IsPrefix(SubSeq(R, 1, n), R)
         /\ \A C \in Seq(X) : IsPrefix(R, R \o C) /\ IsPrefix(SubSeq(R, 1, n), R \o C)
  <1>1. Len(R) \in Nat /\ n \in Nat /\ n <= Len(R) /\ n \in Int
    OBVIOUS
  <1>2. PICK P : P = SubSeq(R, 1, n)
    OBVIOUS
  <1>3. P \in Seq(X) /\ Len(P) = n /\ \A i \in 1..n : P[i] = R[i]
    BY <1>1, <1>2
  <1>4. \A S \in Seq(X) : Len(S) >= n /\ (\A i \in 1..n : S[i] = R[i]) => IsPrefix(P, S)
    <2> SUFFICES ASSUME NEW S \in Seq(X), Len(S) >= n, \A i \in 1..n : S[i] = R[i]
                 PROVE  IsPrefix(P, S)
      OBVIOUS
    <2>1. SubSeq(P, 1, n) = [i \in 1..n |-> P[i]] /\ SubSeq(S, 1, n) = [i \in 1..n |-> S[i]]
      BY <1>1, <1>3
    <2>2. SubSeq(P, 1, n) = SubSeq(S, 1, n)
      BY <1>3, <2>1
    <2> QED  BY <1>3, <2>2 DEF IsPrefix
  <1>5. IsPrefix(P, R)
    BY <1>1, <1>4
  <1>6. ASSUME NEW C \in Seq(X) PROVE IsPrefix(R, R \o C) /\ IsPrefix(P, R \o C)
    <2>1. PICK S : S = R \o C
      OBVIOUS
    <2>2. S \in Seq(X) /\ Len(S) >= Len(R) /\ \A i \in 1..Len(R) : S[i] = R[i]
      BY <2>1, <1>1
    <2>3. IsPrefix(P, S)
      BY <1>1, <1>4, <2>2
    <2>4. SubSeq(R, 1, Len(R)) = [i \in 1..Len(R) |-> R[i]] /\ SubSeq(S, 1, Len(R)) = [i \in 1..Len(R) |-> S[i]]
      BY <1>1, <2>2
    <2>5. SubSeq(R, 1, Len(R)) = SubSeq(S, 1, Len(R))
      BY <2>2, <2>4
    <2> QED  BY <2>1, <2>2, <2>3, <2>5 DEF IsPrefix
  <1> QED  BY <1>2, <1>5, <1>6

\* The window is what was queried and the slices to come.
LEMMA WindowAsked ==
  ASSUME RowsInv
  PROVE  /\ Window \in Seq(Row)
         /\ \E C \in Seq(Row) : Window = Asked \o C
         /\ (plan.mode = "stream" => slice = End) => Window = Asked
  <1>1. CASE plan.mode = "stream"
    <2>1. Window = RowsAt(Part(End)) /\ Asked = RowsAt(Part(slice))
      BY <1>1 DEF Window, Part, Asked
    <2>2. End \in Nat /\ slice \in Nat /\ Opening <= slice /\ slice <= End
      BY MarketReplayAssumption DEF RowsInv
    <2>3. RowsAt(Part(End)) = RowsAt(Part(slice)) \o RowsAt(Slice(slice, End) \cap Selected)
      BY <2>2, TapeFine, NextSlice
    <2>4. RowsAt(Slice(slice, End) \cap Selected) \in Seq(Row) /\ RowsAt(Part(End)) \in Seq(Row)
      BY TapeFine, RowsOrdered
    <2> QED  BY <1>1, <2>1, <2>3, <2>4
  <1>2. CASE plan.mode # "stream"
    <2>1. Window = WholeWindow /\ Asked = WholeWindow
      BY <1>2 DEF Window, Asked
    <2>2. WholeWindow \in Seq(Row)
      BY TapeFine, RowsOrdered DEF WholeWindow
    <2>3. WholeWindow = WholeWindow \o <<>> /\ <<>> \in Seq(Row)
      BY <2>2
    <2> QED  BY <2>1, <2>2, <2>3
  <1> QED  BY <1>1, <1>2

LEMMA FedIsPrefix ==
  ASSUME RowsInv
  PROVE  IsPrefix(fed, Window)
  <1>1. PICK C \in Seq(Row) : Window = Asked \o C
    BY WindowAsked
  <1>2. PICK R, D : R = fed /\ D = chunk /\ R \in Seq(Row) /\ D \in Seq(Row)
    BY DEF RowsInv
  <1>3. CASE fed = <<>>
    <2>1. Window \in Seq(Row)
      BY WindowAsked
    <2>2. <<>> \o Window = Window /\ <<>> \in Seq(Row) /\ 0 \in 0..Len(<<>>)
      BY <2>1
    <2>3. IsPrefix(<<>>, <<>> \o Window)
      BY <2>1, <2>2, PrefixOf
    <2> QED  BY <1>3, <2>2, <2>3
  <1>4. CASE fed # <<>>
    <2>1. Asked = R \o D
      BY <1>2, <1>4 DEF RowsInv
    <2>2. Window = R \o (D \o C) /\ D \o C \in Seq(Row)
      BY <1>1, <1>2, <2>1, ConcatAssociative, SMTT(30)
    <2>3. 0 \in 0..Len(R)
      BY <1>2
    <2>4. IsPrefix(R, R \o (D \o C))
      BY <1>2, <2>2, <2>3, PrefixOf
    <2> QED  BY <1>2, <2>2, <2>4
  <1> QED  BY <1>3, <1>4

LEMMA HeardIsPrefix ==
  ASSUME RowsInv, PipeInv
  PROVE  IsPrefix(heard, Append(fed, Complete)) /\ (pipe = <<>> => heard = Told)
  <1>1. pipe \in Seq(Command) /\ Hearing(heard, pipe, Told)
    BY DEF RowsInv, PipeInv, Flowing
  <1>2. Told \in Seq(Message) /\ \E n \in 0..Len(Told) : heard = SubSeq(Told, 1, n)
    BY <1>1, HearingPart
  <1>3. pipe = <<>> => heard = Told
    BY <1>1, <1>2, HearingNothing
  <1>4. PICK R, told, n : R = fed /\ told = Told /\ n \in 0..Len(told) /\ heard = SubSeq(told, 1, n)
    BY <1>2
  <1>5. /\ R \in Seq(Message) /\ <<Complete>> \in Seq(Message) /\ Append(R, Complete) = R \o <<Complete>>
        /\ Append(R, Complete) \in Seq(Message)
    <2>1. R \in Seq(Row)
      BY <1>4 DEF RowsInv
    <2>2. \A i \in 1..Len(R) : R[i] \in Row
      BY <2>1
    <2>3. \A i \in 1..Len(R) : R[i] \in Message
      BY <2>2 DEF Message
    <2>4. R \in Seq(Message)
      <3>1. R = [i \in 1..Len(R) |-> R[i]] /\ Len(R) \in Nat
        BY <2>1
      <3> QED  BY <2>3, <3>1
    <2>5. Complete \in Message
      BY DEF Message
    <2> QED  BY <2>4, <2>5, AppendIsConcat
  <1>6. PICK S : S = Append(R, Complete)
    OBVIOUS
  <1>7. CASE told = S
    <2>1. IsPrefix(SubSeq(told, 1, n), told)
      BY <1>2, <1>4, PrefixOf
    <2> QED  BY <1>3, <1>4, <1>6, <1>7, <2>1
  <1>8. CASE told = R
    <2>1. IsPrefix(SubSeq(R, 1, n), R \o <<Complete>>)
      BY <1>4, <1>5, <1>8, PrefixOf
    <2> QED  BY <1>3, <1>4, <1>5, <1>8, <2>1
  <1>9. CASE told = <<>>
    <2>1. heard = <<>>
      BY <1>4, <1>9
    <2>2. SubSeq(R, 1, 0) = <<>> /\ 0 \in 0..Len(R)
      BY <1>5
    <2>3. IsPrefix(SubSeq(R, 1, 0), R \o <<Complete>>)
      BY <1>5, <2>2, PrefixOf
    <2> QED  BY <1>3, <1>4, <1>5, <2>1, <2>2, <2>3
  <1> QED  BY <1>4, <1>6, <1>7, <1>8, <1>9 DEF Told

\* Every row of the window is fed once and in order, and those subscribed to
\* md:stream:all hear what was fed, then the end (stream_ticks_chunked, replay).
THEOREM EveryRowIsFedOnce == ReplaySpec => []EveryRowOnce
  <1>1. FlowInv => EveryRowOnce
    <2> SUFFICES ASSUME FlowInv PROVE EveryRowOnce
      OBVIOUS
    <2>1. RowsInv /\ PipeInv
      BY DEF FlowInv
    <2>2. ASSUME pc = "done"
          PROVE  fed = Window /\ flushed = Len(fed) /\ (plan.mode = "stream" => heard = Append(Window, Complete))
      <3>1. At = "done" /\ chunk = <<>> /\ pipe = <<>> /\ flushed = Len(fed) /\ fed \in Seq(Row)
            /\ (plan.mode = "stream" => slice = End) /\ fed \o chunk = Asked
        BY <2>1, <2>2 DEF RowsInv, At
      <3>2. fed \o <<>> = fed
        BY <3>1
      <3>3. Window = Asked
        BY <2>1, <3>1, WindowAsked
      <3>4. fed = Window
        BY <3>1, <3>2, <3>3
      <3>5. plan.mode = "stream" => Told = Append(fed, Complete)
        BY <3>1 DEF Told
      <3>6. heard = Told
        BY <2>1, <3>1, HeardIsPrefix
      <3> QED  BY <3>1, <3>4, <3>5, <3>6
    <2> QED  BY <2>1, <2>2, FedIsPrefix, HeardIsPrefix DEF EveryRowOnce
  <1> QED  BY <1>1, FlowInvariant, PTL

\* Redis shows the bars of the tape: between two executions those of the rows
\* flushed so far, and at a trigger the closed bar, which no later row changes
\* (process_tick of both programs, md:reco:trigger).
THEOREM RedisShowsTheTape == ReplaySpec => []BarsAreTape
  <1>1. FlowInv => BarsAreTape
    <2> SUFFICES ASSUME FlowInv PROVE BarsAreTape
      OBVIOUS
    <2>1. RowsInv /\ PipeInv
      BY DEF FlowInv
    <2>2. ASSUME NEW k \in triggers
          PROVE  store.bars[k].status = "historical" /\ store.bars[k] = Expected(fed)[k]
      <3>1. pc # "seed"
        BY <2>1, <2>2 DEF PipeInv
      <3>2. PICK p, st, T, G, rest, Q :
              /\ p = pipe /\ st = store /\ T = triggers /\ G = Expected(fed) /\ rest = Remains /\ Q = QuotesOf(fed)
              /\ Flowing(p, st, T, G, rest, Q)
        BY <2>1, <3>1 DEF PipeInv
      <3>3. /\ k \in DOMAIN G /\ G[k].status = "historical" /\ \A j \in DOMAIN p : ~WritesBar(p[j], k)
        BY <2>2, <3>2 DEF Flowing, Announced
      <3>4. \A j \in DOMAIN p : ~Sets(p[j], "bar", k)
        BY <3>3 DEF WritesBar, Sets, Target
      <3>5. PICK new : new = Beside(G, rest)
        OBVIOUS
      <3>6. k \in DOMAIN new /\ new[k] = G[k]
        BY <3>3, <3>5 DEF Beside
      <3>7. Brings(p, "bar", st.bars, new)
        BY <3>2, <3>5 DEF Flowing
      <3>8. st.bars[k] = new[k]
        BY <3>4, <3>6, <3>7 DEF Brings
      <3> QED  BY <3>2, <3>3, <3>6, <3>8
    <2> QED  BY <2>1, <2>2 DEF BarsAreTape, PipeInv
  <1> QED  BY <1>1, FlowInvariant, PTL

-----------------------------------------------------------------------------
(* The desk of the verification.                                           *)

\* The first n rows of R that come at or after the square-off.
Late(R, n) == {i \in 1..n : R[i].t >= SquareTime}

LegRows(R, o, at, n) == {i \in at..n : R[i].sym = o}

Hits(R, o, at, n, stop) == {i \in LegRows(R, o, at, n) : R[i].px >= stop}

LastPrice(R, o, at, n, entry) ==
    IF LegRows(R, o, at, n) = {} THEN entry ELSE R[Max(LegRows(R, o, at, n))].px

\* The square-off that ends a leg sold at row at.
Squared(R, at, n) == Late(R, n) # {} /\ ~(Min(Late(R, n)) < at)

Until(R, at, n) == IF Squared(R, at, n) THEN Min(Late(R, n)) ELSE n

\* FateOf after n rows.
Fate(R, o, at, n, entry) ==
    LET stop == StopMultiple * entry
    IN  IF Hits(R, o, at, Until(R, at, n), stop) # {} THEN [status |-> "SL_HIT", exit |-> stop]
        ELSE IF Squared(R, at, n) THEN [status |-> "EOD_EXIT", exit |-> LastPrice(R, o, at, Until(R, at, n), entry)]
        ELSE [status |-> "OPEN", exit |-> 0]

LegOK(R, o, leg, at, n) ==
    /\ leg = [status |-> leg.status, entry |-> leg.entry, price |-> leg.price, exit |-> leg.exit]
    /\ [status |-> leg.status, exit |-> leg.exit] = Fate(R, o, at, n, leg.entry)
    /\ leg.status = "OPEN" => leg.price = LastPrice(R, o, at, n, leg.entry)

\* AfterStop and AfterSquare of one leg.
StoppedLeg(leg, o, row) ==
    IF row.sym # o \/ leg.status # "OPEN" THEN leg
    ELSE IF row.px >= StopMultiple * leg.entry
         THEN [leg EXCEPT !.status = "SL_HIT", !.price = row.px, !.exit = StopMultiple * leg.entry]
         ELSE [leg EXCEPT !.price = row.px]

SquaredLeg(leg, squared, row) ==
    IF squared \/ row.t < SquareTime \/ leg.status # "OPEN" THEN leg
    ELSE [leg EXCEPT !.status = "EOD_EXIT", !.exit = leg.price]

\* Whether the square-off was among the first n rows.
SquaredBy(squared, R, n) == squared = (Late(R, n) # {})

\* The rows the strategy has seen.
RowsTraded == IF At = "desk" THEN Len(fed) - 1 ELSE Len(fed)

IsDesk(d) ==
    /\ DOMAIN d = {"done", "executed", "squared", "at", "jump", "legs"} /\ DOMAIN d.legs = Options
    /\ d.done \in BOOLEAN /\ d.executed \in BOOLEAN /\ d.squared \in BOOLEAN

\* The strategy acts on what is in Redis when nothing waits for it.
Ready ==
    pc = "desk" /\ (EntryDue(Last(fed)) \/ SquareDue(Last(fed))) => flushed = Len(fed) /\ pipe = <<>>

\* The minutes the entry at row at sees.
MorningOf(R, at) ==
    LET bars == Beside(SpotBarsOf(SubSeq(R, 1, at)), Remains)
    IN  {<<k[3], bars[k].close>> :
            k \in {b \in DOMAIN bars : b[1] = Spot /\ b[2] = OneMinute /\ b[3] < EntryTime}}

\* The positions d after n of the rows R.
DeskOK(d, R, n) ==
    /\ IsDesk(d)
    /\ ~d.executed => d.at = 0 /\ ~d.done /\ \A o \in Options : d.legs[o] = NoLeg
    /\ d.executed => d.at \in 1..Len(R)
    /\ d.at > 0 => d.jump = MorningOf(R, d.at)
    /\ \A o \in Options : d.legs[o].status # "NONE" =>
          d.legs[o].entry = LastPrice(R, o, 1, d.at, OldPrice) /\ LegOK(R, o, d.legs[o], d.at, n)

DeskInv ==
    /\ DeskOK(desk, fed, RowsTraded) /\ Ready
    /\ plan.mode # "verify" => desk = NewDesk
    /\ plan.mode = "verify" => SquaredBy(desk.squared, fed, RowsTraded)

LEMMA LateStep ==
  ASSUME NEW R, NEW n \in Nat
  PROVE  /\ Late(R, n + 1) = Late(R, n) \cup (IF R[n + 1].t >= SquareTime THEN {n + 1} ELSE {})
         /\ Late(R, n) # {} => Min(Late(R, n)) \in 1..n /\ Min(Late(R, n + 1)) = Min(Late(R, n))
         /\ Late(R, n) = {} /\ R[n + 1].t >= SquareTime => Min(Late(R, n + 1)) = n + 1
  <1>1. PICK L, M : L = Late(R, n) /\ M = Late(R, n + 1)
    OBVIOUS
  <1>2. M = L \cup (IF R[n + 1].t >= SquareTime THEN {n + 1} ELSE {}) /\ L \in SUBSET (1..n)
    BY <1>1 DEF Late
  <1>3. ASSUME L # {} PROVE Min(L) \in 1..n /\ Min(M) = Min(L)
    <2>1. Min(L) \in L /\ \A y \in L : Min(L) <= y
      BY <1>2, <1>3, Positions
    <2>2. PICK m : m = Min(L)
      OBVIOUS
    <2>3. m \in M /\ m \in 1..n /\ m \in Int /\ m <= n + 1 /\ \A y \in L : m <= y
      <3>1. m \in L /\ \A y \in L : m <= y
        BY <2>1, <2>2
      <3>2. m \in M
        BY <1>2, <3>1
      <3>3. m \in 1..n
        BY <1>2, <3>1
      <3> QED  BY <3>1, <3>2, <3>3
    <2>4. M \in SUBSET Int
      BY <1>2
    <2>5. \A y \in M : m <= y
      BY <1>2, <2>3
    <2> QED  BY <2>2, <2>3, <2>4, <2>5, IsMin
  <1>4. ASSUME L = {}, R[n + 1].t >= SquareTime PROVE Min(M) = n + 1
    <2>1. M = {n + 1} /\ n + 1 \in Int
      BY <1>2, <1>4
    <2> QED  BY <2>1, OnlyOne
  <1> QED  BY <1>1, <1>2, <1>3, <1>4

\* What row n + 1 adds to the rows of a leg.
OneMore(R, n, o, at, stop, entry) ==
    /\ Hits(R, o, at, n + 1, stop) =
          Hits(R, o, at, n, stop) \cup (IF R[n + 1].sym = o /\ R[n + 1].px >= stop THEN {n + 1} ELSE {})
    /\ LastPrice(R, o, at, n + 1, entry) =
          IF R[n + 1].sym = o THEN R[n + 1].px ELSE LastPrice(R, o, at, n, entry)

LEMMA RowsStep ==
  ASSUME NEW R, NEW n \in Nat, NEW o, NEW at \in 1..(n + 1), NEW stop, NEW entry
  PROVE  OneMore(R, n, o, at, stop, entry)
  <1>1. PICK I, J : I = LegRows(R, o, at, n) /\ J = LegRows(R, o, at, n + 1)
    OBVIOUS
  <1>2. J = I \cup (IF R[n + 1].sym = o THEN {n + 1} ELSE {}) /\ I \in SUBSET (1..n) /\ J \in SUBSET Int
    BY <1>1 DEF LegRows
  <1>3. Hits(R, o, at, n + 1, stop) =
              Hits(R, o, at, n, stop) \cup (IF R[n + 1].sym = o /\ R[n + 1].px >= stop THEN {n + 1} ELSE {})
    BY <1>1, <1>2 DEF Hits
  <1>4. CASE R[n + 1].sym = o
    <2>1. n + 1 \in J /\ \A i \in J : n + 1 >= i
      BY <1>2, <1>4
    <2>2. Max(J) = n + 1
      BY <1>2, <2>1, IsMax
    <2> QED  BY <1>1, <1>3, <1>4, <2>1, <2>2 DEF LastPrice, OneMore
  <1>5. CASE R[n + 1].sym # o
    <2>1. J = I
      BY <1>2, <1>5
    <2> QED  BY <1>1, <1>3, <1>5, <2>1 DEF LastPrice, OneMore
  <1> QED  BY <1>4, <1>5

LEMMA UntilStep ==
  ASSUME NEW R, NEW n \in Nat, NEW at \in 1..(n + 1)
  PROVE  /\ Squared(R, at, n) => Squared(R, at, n + 1) /\ Until(R, at, n + 1) = Until(R, at, n)
         /\ ~Squared(R, at, n) =>
              /\ Until(R, at, n) = n /\ Until(R, at, n + 1) = n + 1
              /\ Squared(R, at, n + 1) <=> Late(R, n) = {} /\ R[n + 1].t >= SquareTime
  <1>1. PICK L, M, l, m, late : /\ L = Late(R, n) /\ M = Late(R, n + 1) /\ l = Min(L) /\ m = Min(M)
                                /\ late = (R[n + 1].t >= SquareTime)
    OBVIOUS
  <1>2. /\ M = L \cup (IF late THEN {n + 1} ELSE {})
        /\ L # {} => l \in 1..n /\ m = l
        /\ L = {} /\ late => m = n + 1
    BY <1>1, LateStep
  <1>3. /\ Squared(R, at, n) <=> L # {} /\ ~(l < at)
        /\ Squared(R, at, n + 1) <=> M # {} /\ ~(m < at)
        /\ Until(R, at, n) = IF L # {} /\ ~(l < at) THEN l ELSE n
        /\ Until(R, at, n + 1) = IF M # {} /\ ~(m < at) THEN m ELSE n + 1
    BY <1>1 DEF Squared, Until
  <1>4. CASE L # {}
    BY <1>1, <1>2, <1>3, <1>4
  <1>5. CASE L = {} /\ late
    <2>1. M # {} /\ m = n + 1 /\ ~(m < at)
      BY <1>2, <1>5
    <2> QED  BY <1>1, <1>3, <1>5, <2>1
  <1>6. CASE L = {} /\ ~late
    BY <1>1, <1>2, <1>3, <1>6
  <1> QED  BY <1>4, <1>5, <1>6

\* A leg and a row that it has not seen.
Unseen(R, n, o, at, leg, squared) ==
    /\ R \in Seq(Row) /\ n \in Nat /\ n + 1 <= Len(R) /\ at \in 1..(n + 1)
    /\ LegOK(R, o, leg, at, n) /\ SquaredBy(squared, R, n)

\* The leg follows the tape for one more row.
LEMMA LegTraded ==
  ASSUME NEW R, NEW n, NEW o, NEW at, NEW leg, NEW squared, Unseen(R, n, o, at, leg, squared)
  PROVE  LegOK(R, o, SquaredLeg(StoppedLeg(leg, o, R[n + 1]), squared, R[n + 1]), at, n + 1)
         /\ SquaredLeg(StoppedLeg(leg, o, R[n + 1]), squared, R[n + 1]).entry = leg.entry
  <1>0. R \in Seq(Row) /\ n \in Nat /\ n + 1 <= Len(R) /\ at \in 1..(n + 1) /\ LegOK(R, o, leg, at, n)
        /\ SquaredBy(squared, R, n)
    BY DEF Unseen
  <1>1. PICK row, entry, stop : row = R[n + 1] /\ entry = leg.entry /\ stop = StopMultiple * leg.entry
    OBVIOUS
  <1>2. PICK status, price, exit : status = leg.status /\ price = leg.price /\ exit = leg.exit
    OBVIOUS
  <1>3. row \in Row /\ row.t \in Nat /\ SquareTime \in Nat
    <2>1. n + 1 \in 1..Len(R)
      BY <1>0
    <2>2. row \in Row
      BY <1>0, <1>1, <2>1
    <2> QED  BY <2>2, MarketReplayAssumption DEF Row
  <1>4. PICK one, two : one = StoppedLeg(leg, o, row) /\ two = SquaredLeg(one, squared, row)
    OBVIOUS
  <1>5. leg = [status |-> status, entry |-> entry, price |-> price, exit |-> exit]
    BY <1>0, <1>1, <1>2 DEF LegOK
  <1>6. [status |-> status, exit |-> exit] = Fate(R, o, at, n, entry)
        /\ (status = "OPEN" => price = LastPrice(R, o, at, n, entry))
    BY <1>0, <1>1, <1>2 DEF LegOK
  <1>7. one = IF row.sym # o \/ status # "OPEN" THEN leg
              ELSE IF row.px >= stop THEN [status |-> "SL_HIT", entry |-> entry, price |-> row.px, exit |-> stop]
                   ELSE [status |-> "OPEN", entry |-> entry, price |-> row.px, exit |-> exit]
    <2>1. CASE row.sym # o \/ status # "OPEN"
      BY <1>2, <1>4, <2>1 DEF StoppedLeg
    <2>2. CASE row.sym = o /\ status = "OPEN" /\ row.px >= stop
      <3>1. one = [leg EXCEPT !.status = "SL_HIT", !.price = row.px, !.exit = stop]
        BY <1>1, <1>2, <1>4, <2>2 DEF StoppedLeg
      <3>2. one = [status |-> "SL_HIT", entry |-> entry, price |-> row.px, exit |-> stop]
        BY <1>5, <3>1
      <3> QED  BY <2>2, <3>2
    <2>3. CASE row.sym = o /\ status = "OPEN" /\ ~(row.px >= stop)
      <3>1. one = [leg EXCEPT !.price = row.px]
        BY <1>1, <1>2, <1>4, <2>3 DEF StoppedLeg
      <3>2. one = [status |-> "OPEN", entry |-> entry, price |-> row.px, exit |-> exit]
        BY <1>5, <2>3, <3>1
      <3> QED  BY <2>3, <3>2
    <2> QED  BY <2>1, <2>2, <2>3
  <1>8. two = IF squared \/ row.t < SquareTime \/ one.status # "OPEN" THEN one
              ELSE [status |-> "EOD_EXIT", entry |-> entry, price |-> one.price, exit |-> one.price]
    <2>1. CASE squared \/ row.t < SquareTime \/ one.status # "OPEN"
      BY <1>4, <2>1 DEF SquaredLeg
    <2>2. CASE ~(squared \/ row.t < SquareTime \/ one.status # "OPEN")
      <3>1. two = [one EXCEPT !.status = "EOD_EXIT", !.exit = one.price]
        BY <1>4, <2>2 DEF SquaredLeg
      <3>2. one = [status |-> one.status, entry |-> entry, price |-> one.price, exit |-> one.exit]
        BY <1>5, <1>7
      <3>3. PICK st, px, ex : st = one.status /\ px = one.price /\ ex = one.exit
        OBVIOUS
      <3>4. one = [status |-> st, entry |-> entry, price |-> px, exit |-> ex]
            /\ two = [one EXCEPT !.status = "EOD_EXIT", !.exit = px]
        BY <3>1, <3>2, <3>3
      <3>5. two = [status |-> "EOD_EXIT", entry |-> entry, price |-> px, exit |-> px]
        BY <3>4
      <3> QED  BY <2>2, <3>3, <3>5
    <2> QED  BY <2>1, <2>2
  <1>9. PICK hits, more : hits = Hits(R, o, at, n, stop) /\ more = Hits(R, o, at, n + 1, stop)
    OBVIOUS
  <1>10. PICK last, next : last = LastPrice(R, o, at, n, entry) /\ next = LastPrice(R, o, at, n + 1, entry)
    OBVIOUS
  <1>11. /\ more = hits \cup (IF row.sym = o /\ row.px >= stop THEN {n + 1} ELSE {})
         /\ next = IF row.sym = o THEN row.px ELSE last
    <2>1. n \in Nat /\ at \in 1..(n + 1)
      BY <1>0
    <2>2. OneMore(R, n, o, at, stop, entry)
      BY <2>1, RowsStep
    <2> QED  BY <1>1, <1>9, <1>10, <2>2 DEF OneMore
  <1>12. CASE Squared(R, at, n)
    <2>1. Squared(R, at, n + 1) /\ Until(R, at, n + 1) = Until(R, at, n)
      BY <1>0, <1>12, UntilStep
    <2>2. Fate(R, o, at, n + 1, entry) = Fate(R, o, at, n, entry)
      BY <1>12, <2>1 DEF Fate
    <2>3. status # "OPEN"
      BY <1>6, <1>12 DEF Fate
    <2>4. one = leg
      BY <1>7, <2>3
    <2>5. two = leg
      BY <1>2, <1>8, <2>3, <2>4
    <2>6. LegOK(R, o, leg, at, n + 1)
      BY <1>1, <1>2, <1>5, <1>6, <2>2, <2>3 DEF LegOK
    <2> QED  BY <1>1, <1>4, <2>5, <2>6
  <1>13. CASE ~Squared(R, at, n)
    <2>1. /\ Until(R, at, n) = n /\ Until(R, at, n + 1) = n + 1
          /\ Squared(R, at, n + 1) <=> Late(R, n) = {} /\ row.t >= SquareTime
      BY <1>0, <1>1, <1>13, UntilStep
    <2>2. [status |-> status, exit |-> exit] =
            IF hits # {} THEN [status |-> "SL_HIT", exit |-> stop] ELSE [status |-> "OPEN", exit |-> 0]
      BY <1>1, <1>6, <1>9, <1>13, <2>1 DEF Fate
    <2>3. Fate(R, o, at, n + 1, entry) =
            IF more # {} THEN [status |-> "SL_HIT", exit |-> stop]
            ELSE IF ~squared /\ row.t >= SquareTime THEN [status |-> "EOD_EXIT", exit |-> next]
            ELSE [status |-> "OPEN", exit |-> 0]
      BY <1>0, <1>1, <1>9, <1>10, <2>1 DEF Fate, SquaredBy
    <2>4. two.entry = entry /\ two = [status |-> two.status, entry |-> two.entry, price |-> two.price, exit |-> two.exit]
      BY <1>5, <1>7, <1>8
    <2>5. ([status |-> two.status, exit |-> two.exit] = Fate(R, o, at, n + 1, entry))
          /\ (two.status = "OPEN" => two.price = next)
      <3>1. CASE hits # {}
        <4>1. status = "SL_HIT" /\ exit = stop /\ more # {}
          BY <1>11, <2>2, <3>1
        <4>2. one = leg /\ one.status = "SL_HIT" /\ one.exit = stop
          BY <1>5, <1>7, <4>1
        <4>3. two = leg /\ two.status = "SL_HIT" /\ two.exit = stop
          BY <1>8, <4>2
        <4> QED  BY <2>3, <4>1, <4>3
      <3>2. CASE hits = {} /\ row.sym = o /\ row.px >= stop
        <4>1. status = "OPEN" /\ more # {}
          BY <1>11, <2>2, <3>2
        <4>2. one.status = "SL_HIT" /\ one.exit = stop
          BY <1>7, <3>2, <4>1
        <4>3. two.status = "SL_HIT" /\ two.exit = stop
          BY <1>8, <4>2
        <4> QED  BY <2>3, <4>1, <4>3
      <3>3. CASE hits = {} /\ ~(row.sym = o /\ row.px >= stop)
        <4>1. status = "OPEN" /\ exit = 0 /\ more = {} /\ price = last
          BY <1>6, <1>10, <1>11, <2>2, <3>3
        <4>2. one = [status |-> "OPEN", entry |-> entry, price |-> next, exit |-> 0]
          <5>1. CASE row.sym = o
            BY <1>7, <1>11, <3>3, <4>1, <5>1
          <5>2. CASE row.sym # o
            BY <1>5, <1>7, <1>11, <4>1, <5>2
          <5> QED  BY <5>1, <5>2
        <4>3. one.status = "OPEN" /\ one.exit = 0 /\ one.price = next
          BY <4>2
        <4>4. CASE ~squared /\ row.t >= SquareTime
          <5>1. ~(row.t < SquareTime)
            BY <1>3, <4>4
          <5>2. two = [status |-> "EOD_EXIT", entry |-> entry, price |-> next, exit |-> next]
            BY <1>8, <4>3, <4>4, <5>1
          <5>3. two.status = "EOD_EXIT" /\ two.exit = next
            BY <5>2
          <5> QED  BY <2>3, <4>1, <4>4, <5>3
        <4>5. CASE squared \/ ~(row.t >= SquareTime)
          <5>1. squared \/ row.t < SquareTime
            BY <1>3, <4>5
          <5>2. two = one
            BY <1>8, <5>1
          <5> QED  BY <2>3, <4>1, <4>3, <4>5, <5>2
        <4> QED  BY <4>4, <4>5
      <3> QED  BY <3>1, <3>2, <3>3
    <2>6. LegOK(R, o, two, at, n + 1)
      BY <1>10, <2>4, <2>5 DEF LegOK
    <2> QED  BY <1>1, <1>4, <2>4, <2>6
  <1> QED  BY <1>12, <1>13

LEMMA NewDeskOK ==
  ASSUME NEW R, NEW n
  PROVE  DeskOK(NewDesk, R, n)
  BY DEF DeskOK, IsDesk, NewDesk, NoLeg

\* R and S have the first len rows in common; n and at are among them.
Common(R, S, len, n, at) ==
    /\ len \in Nat /\ (\A i \in 1..len : S[i] = R[i])
    /\ n \in 0..len /\ at \in 1..len

\* What was so after n rows is so when another row is fed.
LEMMA FateStays ==
  ASSUME NEW R, NEW S, NEW len, NEW n, NEW at, Common(R, S, len, n, at), NEW o
  PROVE  /\ \A entry : Fate(S, o, at, n, entry) = Fate(R, o, at, n, entry)
         /\ \A entry : LastPrice(S, o, at, n, entry) = LastPrice(R, o, at, n, entry)
         /\ \A entry : LastPrice(S, o, 1, at, entry) = LastPrice(R, o, 1, at, entry)
         /\ \A leg : LegOK(R, o, leg, at, n) => LegOK(S, o, leg, at, n)
  <1>1. len \in Nat /\ n \in 0..len /\ at \in 1..len /\ \A i \in 1..len : S[i] = R[i]
    BY DEF Common
  <1>2. ASSUME NEW m \in 0..len, NEW lo \in 1..len
        PROVE  /\ LegRows(S, o, lo, m) = LegRows(R, o, lo, m) /\ LegRows(R, o, lo, m) \in SUBSET (1..len)
               /\ \A entry : LastPrice(S, o, lo, m, entry) = LastPrice(R, o, lo, m, entry)
               /\ \A stop : Hits(S, o, lo, m, stop) = Hits(R, o, lo, m, stop)
    <2>1. \A i \in lo..m : i \in 1..len
      BY <1>1
    <2>2. LegRows(S, o, lo, m) = LegRows(R, o, lo, m) /\ LegRows(R, o, lo, m) \in SUBSET (1..len)
      BY <1>1, <2>1 DEF LegRows
    <2>3. LegRows(R, o, lo, m) # {} => Max(LegRows(R, o, lo, m)) \in 1..len
      BY <1>1, <2>2, Positions
    <2>4. \A entry : LastPrice(S, o, lo, m, entry) = LastPrice(R, o, lo, m, entry)
      BY <1>1, <2>2, <2>3 DEF LastPrice
    <2>5. \A stop : Hits(S, o, lo, m, stop) = Hits(R, o, lo, m, stop)
      BY <1>1, <2>2 DEF Hits
    <2> QED  BY <2>2, <2>4, <2>5
  <1>3. Late(S, n) = Late(R, n) /\ Late(R, n) \in SUBSET (1..n)
    BY <1>1 DEF Late
  <1>4. Squared(S, at, n) = Squared(R, at, n) /\ Until(S, at, n) = Until(R, at, n) /\ Until(R, at, n) \in 0..len
    <2>1. Late(R, n) # {} => Min(Late(R, n)) \in 1..n
      <3>1. PICK L : L = Late(R, n)
        OBVIOUS
      <3>2. n \in Nat /\ L \in SUBSET (1..n)
        BY <1>1, <1>3, <3>1
      <3>3. L # {} => Min(L) \in L
        BY <3>2, Positions
      <3> QED  BY <3>1, <3>2, <3>3
    <2>2. Squared(S, at, n) = Squared(R, at, n)
      BY <1>3 DEF Squared
    <2>3. Until(S, at, n) = Until(R, at, n)
      BY <1>3, <2>2 DEF Until
    <2>4. Until(R, at, n) \in 0..len
      BY <1>1, <2>1 DEF Until, Squared
    <2> QED  BY <2>2, <2>3, <2>4
  <1>5. \A entry : Fate(S, o, at, n, entry) = Fate(R, o, at, n, entry)
    BY <1>1, <1>2, <1>4 DEF Fate
  <1>6. /\ \A entry : LastPrice(S, o, at, n, entry) = LastPrice(R, o, at, n, entry)
        /\ \A entry : LastPrice(S, o, 1, at, entry) = LastPrice(R, o, 1, at, entry)
    <2>1. 1 \in 1..len /\ at \in 0..len
      BY <1>1
    <2> QED  BY <1>1, <1>2, <2>1
  <1>7. ASSUME NEW leg, LegOK(R, o, leg, at, n) PROVE LegOK(S, o, leg, at, n)
    <2>1. Fate(S, o, at, n, leg.entry) = Fate(R, o, at, n, leg.entry)
          /\ LastPrice(S, o, at, n, leg.entry) = LastPrice(R, o, at, n, leg.entry)
      BY <1>5, <1>6
    <2> QED  BY <1>7, <2>1 DEF LegOK
  <1> QED  BY <1>5, <1>6, <1>7

LEMMA DeskStays ==
  ASSUME NEW R \in Seq(Row), NEW row \in Row, NEW S, S = Append(R, row), NEW n \in 0..Len(R),
         NEW d, DeskOK(d, R, n)
  PROVE  DeskOK(d, S, n) /\ Late(S, n) = Late(R, n)
  <1>1. Len(R) \in Nat /\ Len(S) = Len(R) + 1 /\ \A i \in 1..Len(R) : S[i] = R[i]
    OBVIOUS
  <1>2. d.executed => d.at \in 1..Len(R) /\ d.at \in 1..Len(S)
    BY <1>1 DEF DeskOK
  <1>3. d.at > 0 => d.executed
    BY DEF DeskOK
  <1>4. d.at > 0 => MorningOf(S, d.at) = MorningOf(R, d.at)
    <2>1. d.at > 0 => SubSeq(S, 1, d.at) = SubSeq(R, 1, d.at)
      BY <1>1, <1>2, <1>3, PrefixStays
    <2> QED  BY <2>1 DEF MorningOf
  <1>5. ASSUME NEW o \in Options, d.legs[o].status # "NONE"
        PROVE  d.legs[o].entry = LastPrice(S, o, 1, d.at, OldPrice) /\ LegOK(S, o, d.legs[o], d.at, n)
    <2>1. d.executed
      BY <1>5 DEF DeskOK, NoLeg
    <2>2. d.at \in 1..Len(R)
      BY <1>2, <2>1
    <2>3. PICK leg, at : leg = d.legs[o] /\ at = d.at
      OBVIOUS
    <2>4. at \in 1..Len(R) /\ leg.entry = LastPrice(R, o, 1, at, OldPrice) /\ LegOK(R, o, leg, at, n)
      BY <1>5, <2>2, <2>3 DEF DeskOK
    <2>5. /\ \A entry : LastPrice(S, o, 1, at, entry) = LastPrice(R, o, 1, at, entry)
          /\ \A l : LegOK(R, o, l, at, n) => LegOK(S, o, l, at, n)
      <3>1. PICK len : len = Len(R)
        OBVIOUS
      <3>2. Common(R, S, len, n, at)
        BY <1>1, <2>4, <3>1 DEF Common
      <3> QED  BY <3>2, FateStays
    <2> QED  BY <2>3, <2>4, <2>5
  <1>6. Late(S, n) = Late(R, n)
    BY <1>1 DEF Late
  <1> QED  BY <1>2, <1>4, <1>5, <1>6 DEF DeskOK

\* The positions e that the stops, the square-off and the entry make of d.
Stopped(d, row, e) ==
    /\ IsDesk(e) /\ e.done = d.done /\ e.executed = d.executed /\ e.squared = d.squared /\ e.at = d.at
    /\ e.jump = d.jump
    /\ \A o \in Options : e.legs[o] = StoppedLeg(d.legs[o], o, row)

SquaredOff(d, row, e) ==
    /\ IsDesk(e) /\ e.done = d.done /\ e.executed = d.executed /\ e.at = d.at /\ e.jump = d.jump
    /\ e.squared = IF row.t < SquareTime THEN d.squared ELSE TRUE
    /\ \A o \in Options : e.legs[o] = SquaredLeg(d.legs[o], d.squared, row)

Entered(d, row, e) ==
    /\ d.done = FALSE /\ row.t >= EntryTime /\ d.executed = FALSE
    /\ IsDesk(e) /\ e.executed = TRUE /\ e.squared = d.squared /\ e.at = Len(fed) /\ e.jump = JumpBars
    /\ \E S \in SUBSET Priceable :
          \A o \in Options : e.legs[o] = IF o \in S THEN Sold(o) ELSE d.legs[o]

LEMMA StopShape ==
  ASSUME NEW d, IsDesk(d), NEW row, NEW e, e = AfterStop(d, row)
  PROVE  Stopped(d, row, e)
  <1>1. PICK s, legs : s = row.sym /\ legs = d.legs
    OBVIOUS
  <1>2. CASE s \notin Held(d)
    <2>1. e = d
      BY <1>1, <1>2 DEF AfterStop
    <2>2. \A o \in Options : StoppedLeg(d.legs[o], o, row) = d.legs[o]
      BY <1>1, <1>2 DEF Held, StoppedLeg
    <2> QED  BY <2>1, <2>2 DEF Stopped
  <1>3. CASE s \in Held(d)
    <2>1. s \in Options /\ legs[s].status = "OPEN"
      BY <1>1, <1>3 DEF Held
    <2>2. PICK leg : leg = StoppedLeg(legs[s], s, row)
      OBVIOUS
    <2>3. e = [d EXCEPT !.legs[s] = leg]
      BY <1>1, <1>3, <2>1, <2>2 DEF AfterStop, StoppedLeg
    <2>4. e = [d EXCEPT !.legs = [legs EXCEPT ![s] = leg]]
      BY <1>1, <2>3
    <2>5. PICK new : new = [legs EXCEPT ![s] = leg]
      OBVIOUS
    <2>6. /\ DOMAIN e = DOMAIN d /\ e.legs = new /\ e.done = d.done /\ e.executed = d.executed
          /\ e.squared = d.squared /\ e.at = d.at /\ e.jump = d.jump
      BY <2>4, <2>5 DEF IsDesk
    <2>7. DOMAIN new = Options
      BY <1>1, <2>5 DEF IsDesk
    <2>8. \A o \in Options : new[o] = StoppedLeg(legs[o], o, row)
      <3>1. \A o \in Options : o # s => StoppedLeg(legs[o], o, row) = legs[o]
        BY <1>1 DEF StoppedLeg
      <3>2. DOMAIN legs = Options
        BY <1>1 DEF IsDesk
      <3>3. \A o \in Options : new[o] = IF o = s THEN leg ELSE legs[o]
        BY <2>5, <3>2
      <3> QED  BY <2>2, <3>1, <3>3
    <2>9. IsDesk(e)
      BY <2>6, <2>7 DEF IsDesk
    <2> QED  BY <1>1, <2>6, <2>8, <2>9 DEF Stopped
  <1> QED  BY <1>2, <1>3

LEMMA SquareShape ==
  ASSUME NEW d, IsDesk(d), NEW row, NEW e, e = AfterSquare(d, row)
  PROVE  SquaredOff(d, row, e)
  <1>1. CASE d.squared \/ row.t < SquareTime
    <2>1. e = d
      BY <1>1 DEF AfterSquare
    <2>2. \A o \in Options : SquaredLeg(d.legs[o], d.squared, row) = d.legs[o]
      BY <1>1 DEF SquaredLeg
    <2>3. d.squared = TRUE \/ row.t < SquareTime
      BY <1>1 DEF IsDesk
    <2> QED  BY <2>1, <2>2, <2>3 DEF SquaredOff
  <1>2. CASE ~(d.squared \/ row.t < SquareTime)
    <2>1. PICK legs : legs = d.legs
      OBVIOUS
    <2>2. PICK new : new = [o \in Options |->
                              IF o \in Held(d) THEN [legs[o] EXCEPT !.status = "EOD_EXIT", !.exit = legs[o].price]
                                               ELSE legs[o]]
      OBVIOUS
    <2>3. e = [d EXCEPT !.squared = TRUE, !.legs = new]
      BY <1>2, <2>1, <2>2 DEF AfterSquare
    <2>4. /\ DOMAIN e = DOMAIN d /\ e.legs = new /\ e.done = d.done /\ e.executed = d.executed
          /\ e.squared = TRUE /\ e.at = d.at /\ e.jump = d.jump
      BY <2>3 DEF IsDesk
    <2>5. \A o \in Options : o \in Held(d) <=> legs[o].status = "OPEN"
      BY <2>1 DEF Held
    <2>6. \A o \in Options : new[o] = SquaredLeg(legs[o], d.squared, row)
      BY <1>2, <2>2, <2>5 DEF SquaredLeg
    <2>7. DOMAIN new = Options
      BY <2>2
    <2>8. IsDesk(e)
      BY <2>4, <2>7 DEF IsDesk
    <2> QED  BY <1>2, <2>1, <2>4, <2>6, <2>8 DEF SquaredOff
  <1> QED  BY <1>1, <1>2

LEMMA EntryShape ==
  ASSUME NEW d, IsDesk(d), NEW row \in Row, NEW e \in AfterEntry(d, row), e # d
  PROVE  Entered(d, row, e)
  <1>1. ~(d.done \/ row.t < EntryTime \/ d.executed \/ Priceable = {} \/ ~SpotUsable)
    BY DEF AfterEntry
  <1>2. row.t >= EntryTime
    BY <1>1, MarketReplayAssumption DEF Row
  <1>3. PICK S \in SUBSET Priceable :
          e = [d EXCEPT !.executed = TRUE, !.done = S # {}, !.at = Len(fed), !.jump = JumpBars,
                        !.legs = [o \in Options |-> IF o \in S THEN Sold(o) ELSE @[o]]]
    BY <1>1 DEF AfterEntry
  <1>4. PICK n, bars, legs, new : /\ n = Len(fed) /\ bars = JumpBars /\ legs = d.legs
                                  /\ new = [o \in Options |-> IF o \in S THEN Sold(o) ELSE legs[o]]
    OBVIOUS
  <1>5. PICK any \in BOOLEAN : any = (S # {})
    OBVIOUS
  <1>6. e = [d EXCEPT !.executed = TRUE, !.done = any, !.at = n, !.jump = bars, !.legs = new]
    BY <1>3, <1>4, <1>5
  <1>7. /\ DOMAIN e = DOMAIN d /\ e.legs = new /\ e.done = any /\ e.executed = TRUE
        /\ e.squared = d.squared /\ e.at = n /\ e.jump = bars
    BY <1>6 DEF IsDesk
  <1>8. DOMAIN new = Options /\ \A o \in Options : new[o] = IF o \in S THEN Sold(o) ELSE legs[o]
    BY <1>4
  <1>9. IsDesk(e)
    BY <1>7, <1>8 DEF IsDesk
  <1>10. d.done = FALSE /\ d.executed = FALSE
    BY <1>1 DEF IsDesk
  <1> QED  BY <1>2, <1>4, <1>7, <1>8, <1>9, <1>10 DEF Entered

\* A leg just sold.
LEMMA SoldOK ==
  ASSUME NEW R, NEW n \in Nat, NEW o, NEW leg, NEW px,
         leg = [status |-> "OPEN", entry |-> px, price |-> px, exit |-> 0]
  PROVE  LegOK(R, o, leg, n + 1, n)
  <1>1. LegRows(R, o, n + 1, n) = {} /\ \A stop : Hits(R, o, n + 1, n, stop) = {}
    BY DEF LegRows, Hits
  <1>2. PICK L : L = Late(R, n)
    OBVIOUS
  <1>3. L \in SUBSET (1..n)
    BY <1>2 DEF Late
  <1>4. L # {} => Min(L) \in 1..n
    BY <1>3, Positions
  <1>5. ~Squared(R, n + 1, n) /\ Until(R, n + 1, n) = n
    BY <1>2, <1>4 DEF Squared, Until
  <1>6. Fate(R, o, n + 1, n, px) = [status |-> "OPEN", exit |-> 0] /\ LastPrice(R, o, n + 1, n, px) = px
    BY <1>1, <1>5 DEF Fate, LastPrice
  <1>7. leg.status = "OPEN" /\ leg.entry = px /\ leg.price = px /\ leg.exit = 0
    OBVIOUS
  <1> QED  BY <1>6, <1>7 DEF LegOK

\* Stops and square-off for the next row.
LEMMA TradeOK ==
  ASSUME NEW R \in Seq(Row), NEW n \in Nat, n + 1 = Len(R), NEW d, DeskOK(d, R, n),
         SquaredBy(d.squared, R, n),
         NEW row, row = R[n + 1], NEW mid, Stopped(d, row, mid), NEW e, SquaredOff(mid, row, e)
  PROVE  DeskOK(e, R, n + 1) /\ SquaredBy(e.squared, R, n + 1)
  <1>3. /\ IsDesk(mid) /\ mid.done = d.done /\ mid.executed = d.executed /\ mid.squared = d.squared
        /\ mid.at = d.at /\ mid.jump = d.jump
        /\ \A o \in Options : mid.legs[o] = StoppedLeg(d.legs[o], o, row)
    BY DEF Stopped
  <1>4. e.squared = IF row.t < SquareTime THEN mid.squared ELSE TRUE
    BY DEF SquaredOff
  <1>5. /\ IsDesk(e) /\ e.done = mid.done /\ e.executed = mid.executed /\ e.at = mid.at /\ e.jump = mid.jump
        /\ \A o \in Options : e.legs[o] = SquaredLeg(mid.legs[o], mid.squared, row)
    BY DEF SquaredOff
  <1>6. row \in Row /\ row.t \in Nat /\ SquareTime \in Nat
    <2>1. n + 1 \in 1..Len(R)
      OBVIOUS
    <2>2. row \in Row
      BY <2>1
    <2> QED  BY <2>2, MarketReplayAssumption DEF Row
  <1>7. SquaredBy(e.squared, R, n + 1)
    <2>1. Late(R, n + 1) = Late(R, n) \cup (IF row.t >= SquareTime THEN {n + 1} ELSE {})
      BY LateStep
    <2>2. PICK was, is, L, M : was = d.squared /\ is = e.squared /\ L = Late(R, n) /\ M = Late(R, n + 1)
      OBVIOUS
    <2>3. was = (L # {})
      BY <2>2 DEF SquaredBy
    <2>4. CASE row.t < SquareTime
      <3>1. is = was
        BY <1>3, <1>4, <2>2, <2>4
      <3>2. ~(row.t >= SquareTime)
        BY <1>6, <2>4
      <3>3. M = L
        BY <2>1, <2>2, <3>2
      <3> QED  BY <2>2, <2>3, <3>1, <3>3 DEF SquaredBy
    <2>5. CASE ~(row.t < SquareTime)
      <3>1. is = TRUE /\ M = L \cup {n + 1}
        BY <1>4, <1>6, <2>1, <2>2, <2>5
      <3>2. M # {}
        BY <3>1
      <3> QED  BY <2>2, <3>1, <3>2 DEF SquaredBy
    <2> QED  BY <2>4, <2>5
  <1>8. ASSUME NEW o \in Options
        PROVE  /\ d.legs[o].status = "NONE" => e.legs[o] = d.legs[o]
               /\ d.legs[o].status # "NONE" =>
                    e.legs[o].entry = LastPrice(R, o, 1, e.at, OldPrice) /\ LegOK(R, o, e.legs[o], e.at, n + 1)
    <2>1. PICK leg, at, squared : leg = d.legs[o] /\ at = d.at /\ squared = d.squared
      OBVIOUS
    <2>2. e.legs[o] = SquaredLeg(StoppedLeg(leg, o, row), squared, row) /\ e.at = at
      BY <1>3, <1>5, <2>1
    <2>3. CASE leg.status = "NONE"
      <3>1. StoppedLeg(leg, o, row) = leg
        BY <2>3 DEF StoppedLeg
      <3>2. SquaredLeg(leg, squared, row) = leg
        BY <2>3 DEF SquaredLeg
      <3> QED  BY <2>1, <2>2, <2>3, <3>1, <3>2
    <2>4. CASE leg.status # "NONE"
      <3>1. leg.entry = LastPrice(R, o, 1, at, OldPrice) /\ LegOK(R, o, leg, at, n)
        BY <2>1, <2>4 DEF DeskOK
      <3>2. d.executed
        BY <2>1, <2>4 DEF DeskOK, NoLeg
      <3>3. at \in 1..(n + 1)
        BY <2>1, <3>2 DEF DeskOK
      <3>5. Unseen(R, n, o, at, leg, squared)
        <4>1. n + 1 <= Len(R)
          OBVIOUS
        <4> QED  BY <2>1, <3>1, <3>3, <4>1 DEF Unseen
      <3>6. LegOK(R, o, SquaredLeg(StoppedLeg(leg, o, R[n + 1]), squared, R[n + 1]), at, n + 1)
            /\ SquaredLeg(StoppedLeg(leg, o, R[n + 1]), squared, R[n + 1]).entry = leg.entry
        BY <3>5, LegTraded
      <3> QED  BY <2>1, <2>2, <2>4, <3>1, <3>6
    <2> QED  BY <2>3, <2>4
  <1>9. ~e.executed => e.at = 0 /\ ~e.done /\ \A o \in Options : e.legs[o] = NoLeg
    <2>1. NoLeg.status = "NONE"
      BY DEF NoLeg
    <2>2. ~d.executed => d.at = 0 /\ ~d.done /\ \A o \in Options : d.legs[o] = NoLeg
      BY DEF DeskOK
    <2> QED  BY <1>3, <1>5, <1>8, <2>1, <2>2
  <1>10. e.executed => e.at \in 1..Len(R)
    BY <1>3, <1>5 DEF DeskOK
  <1>11. e.at > 0 => e.jump = MorningOf(R, e.at)
    BY <1>3, <1>5 DEF DeskOK
  <1>12. \A o \in Options : e.legs[o].status # "NONE" =>
            e.legs[o].entry = LastPrice(R, o, 1, e.at, OldPrice) /\ LegOK(R, o, e.legs[o], e.at, n + 1)
    BY <1>8
  <1> QED  BY <1>5, <1>7, <1>9, <1>10, <1>11, <1>12 DEF DeskOK

\* Bars have a price: those of the tape and those that are left.
LEMMA PricedBars ==
  ASSUME NEW R \in Seq(Row), NEW k \in DOMAIN Beside(SpotBarsOf(R), Remains)
  PROVE  Beside(SpotBarsOf(R), Remains)[k].close > 0
  <1>1. SpotBarsOf(R) = [b \in ClosedOf(R) |-> SpotBar(R, b)]
    BY SpotBarsFound
  <1>2. CASE k \in ClosedOf(R)
    <2>1. Beside(SpotBarsOf(R), Remains)[k] = SpotBar(R, k)
      BY <1>1, <1>2 DEF Beside
    <2>2. PICK I : I = Inside(R, k)
      OBVIOUS
    <2>3. I # {} /\ I \in SUBSET Priced(R, k[1]) /\ I \in SUBSET (1..Len(R)) /\ Len(R) \in Nat
      BY <1>2, <2>2, InsidePositions DEF ClosedOf, KeysOf
    <2>4. Max(I) \in I
      BY <2>3, Positions
    <2>5. R[Max(I)].px > 0
      BY <2>3, <2>4 DEF Priced
    <2>6. PICK bar, vol : bar = BarOf(R, k) /\ vol = SpotVolume(R, k)
      OBVIOUS
    <2>7. bar.close = R[Max(I)].px
      BY <2>2, <2>6, BarShape
    <2>8. SpotBar(R, k) = [bar EXCEPT !.volume = vol]
      BY <2>6 DEF SpotBar
    <2>9. "close" \in DOMAIN bar
      BY <2>6, BarShape
    <2>10. [bar EXCEPT !.volume = vol].close = bar.close
      BY <2>9
    <2> QED  BY <2>1, <2>5, <2>7, <2>8, <2>10
  <1>3. CASE k \notin ClosedOf(R)
    <2>1. k \in DOMAIN Remains
      BY <1>1, <1>3 DEF Beside
    <2>2. Beside(SpotBarsOf(R), Remains)[k] = OldBar(k)
      BY <1>1, <1>3, <2>1 DEF Beside, Remains
    <2>3. OldBar(k).close = OldPrice
      BY DEF OldBar, NoBar
    <2> QED  BY <2>2, <2>3, MarketReplayAssumption
  <1> QED  BY <1>2, <1>3

\* The entry of a row acts on what the tape has shown.
LEMMA EntryOK ==
  ASSUME RowsInv, PipeInv, DeskInv, pc = "desk", NEW row, row = Last(fed), NEW n, n = Len(fed) - 1,
         NEW e \in AfterEntry(desk, row)
  PROVE  DeskOK(e, fed, n) /\ e.squared = desk.squared
  <1>1. /\ fed \in Seq(Row) /\ fed # <<>> /\ plan.mode = "verify" /\ At = "desk" /\ RowsTraded = n
        /\ DeskOK(desk, fed, n)
    BY DEF RowsInv, DeskInv, RowsTraded, At
  <1>2. n \in Nat /\ Len(fed) = n + 1 /\ row \in Row
    <2>1. Len(fed) \in Nat /\ Len(fed) > 0
      BY <1>1
    <2>2. Len(fed) \in 1..Len(fed)
      BY <2>1
    <2> QED  BY <1>1, <2>1, <2>2 DEF Last
  <1>3. CASE e = desk
    BY <1>1, <1>3
  <1>4. CASE e # desk
    <2>1. IsDesk(desk)
      BY <1>1 DEF DeskOK
    <2>2. Entered(desk, row, e)
      BY <1>2, <1>4, <2>1, EntryShape
    <2>10. /\ ~desk.done /\ row.t >= EntryTime /\ ~desk.executed
           /\ IsDesk(e) /\ e.executed /\ e.squared = desk.squared /\ e.at = Len(fed) /\ e.jump = JumpBars
      BY <2>2 DEF Entered
    <2>3. flushed = Len(fed) /\ pipe = <<>>
      BY <2>10 DEF DeskInv, Ready, EntryDue
    <2>4. store.quotes = QuotesOf(fed)
      <3>1. Brings(<<>>, "quote", store.quotes, QuotesOf(fed))
        BY <2>3 DEF PipeInv, Flowing
      <3> QED  BY <3>1, BringsNothing
    <2>5. store.bars = Beside(SpotBarsOf(SubSeq(fed, 1, Len(fed))), Remains) /\ SubSeq(fed, 1, Len(fed)) = fed
      BY <1>1, <2>3 DEF PipeInv, Expected
    <2>6. JumpBars = MorningOf(fed, Len(fed))
      <3>1. PICK bars : bars = store.bars
        OBVIOUS
      <3>2. \A k \in DOMAIN bars : bars[k].close > 0
        BY <1>1, <2>5, <3>1, PricedBars
      <3>3. {b \in DOMAIN bars : b[1] = Spot /\ b[2] = OneMinute /\ b[3] < EntryTime /\ bars[b].close > 0}
              = {b \in DOMAIN bars : b[1] = Spot /\ b[2] = OneMinute /\ b[3] < EntryTime}
        BY <3>2
      <3>4. JumpBars = {<<k[3], bars[k].close>> :
               k \in {b \in DOMAIN bars : b[1] = Spot /\ b[2] = OneMinute /\ b[3] < EntryTime}}
        BY <3>1, <3>3 DEF JumpBars
      <3>5. bars = Beside(SpotBarsOf(SubSeq(fed, 1, Len(fed))), Remains)
        BY <2>5, <3>1
      <3> QED  BY <3>4, <3>5 DEF MorningOf
    <2>7. PICK S \in SUBSET Priceable : \A o \in Options : e.legs[o] = IF o \in S THEN Sold(o) ELSE desk.legs[o]
      BY <2>2 DEF Entered
    <2>8. ASSUME NEW o \in Options, e.legs[o].status # "NONE"
          PROVE  e.legs[o].entry = LastPrice(fed, o, 1, e.at, OldPrice) /\ LegOK(fed, o, e.legs[o], e.at, n)
      <3>1. desk.legs[o].status = "NONE"
        BY <1>1, <2>10 DEF DeskOK, NoLeg
      <3>2. o \in S /\ e.legs[o] = Sold(o)
        BY <2>7, <2>8, <3>1
      <3>3. PICK px, leg : px = store.quotes[o] /\ leg = e.legs[o]
        OBVIOUS
      <3>4. leg = [status |-> "OPEN", entry |-> px, price |-> px, exit |-> 0]
        BY <3>2, <3>3 DEF Sold
      <3>5. LegOK(fed, o, leg, n + 1, n)
        BY <1>2, <3>4, SoldOK
      <3>6. px # NoQuote
        BY <3>2, <3>3 DEF Priceable, NearbyChain
      <3>7. o \in Symbols
        BY DEF Options
      <3>8. RowsOf(fed, o) = LegRows(fed, o, 1, Len(fed))
        BY <1>1 DEF RowsOf, LegRows
      <3>9. px = IF LegRows(fed, o, 1, Len(fed)) # {} THEN fed[Max(LegRows(fed, o, 1, Len(fed)))].px
                 ELSE IF left THEN OldPrice ELSE NoQuote
        BY <2>4, <3>3, <3>7, <3>8 DEF QuotesOf
      <3>10. px = LastPrice(fed, o, 1, Len(fed), OldPrice)
        BY <3>6, <3>9 DEF LastPrice
      <3>11. leg.entry = px
        BY <3>4
      <3> QED  BY <1>2, <2>10, <3>3, <3>5, <3>10, <3>11
    <2>9. e.at \in 1..Len(fed)
      BY <1>2, <2>10
    <2> QED  BY <2>6, <2>8, <2>9, <2>10 DEF DeskOK
  <1> QED  BY <1>3, <1>4

\* What the positions are worth depends on the tape and on what was left in Redis.
LEMMA DeskKept ==
  ASSUME left' = left, plan'.mode = plan.mode,
         NEW d, d = desk', NEW R, R = fed', NEW n, n = RowsTraded', DeskOK(d, R, n)
  PROVE  DeskOK(desk, fed, RowsTraded)'
  <1>1. Remains' = Remains
    BY KeptPast
  <1>2. MorningOf(fed, desk.at)' = MorningOf(R, d.at)
    BY <1>1 DEF MorningOf
  <1>3. IsDesk(desk)'
    BY DEF DeskOK
  <1>4. (~desk.executed => desk.at = 0 /\ ~desk.done /\ \A o \in Options : desk.legs[o] = NoLeg)'
        /\ (desk.executed => desk.at \in 1..Len(fed))'
    BY DEF DeskOK
  <1>5. (desk.at > 0 => desk.jump = MorningOf(fed, desk.at))'
    BY <1>2 DEF DeskOK
  <1>6. (\A o \in Options : desk.legs[o].status # "NONE" =>
            desk.legs[o].entry = LastPrice(fed, o, 1, desk.at, OldPrice)
            /\ LegOK(fed, o, desk.legs[o], desk.at, RowsTraded))'
    BY DEF DeskOK
  <1> QED  BY <1>3, <1>4, <1>5, <1>6 DEF DeskOK

LEMMA DeskInit == ReplayInit => DeskInv
  <1> SUFFICES ASSUME ReplayInit PROVE DeskInv
    OBVIOUS
  <1>1. pc = "seed" /\ fed = <<>> /\ desk = NewDesk
    BY DEF ReplayInit
  <1>2. RowsTraded = 0
    BY <1>1 DEF RowsTraded, At
  <1>3. SquaredBy(desk.squared, fed, RowsTraded)
    <2>1. Late(<<>>, 0) = {}
      BY DEF Late
    <2> QED  BY <1>1, <1>2, <2>1 DEF SquaredBy, NewDesk
  <1> QED  BY <1>1, <1>3, NewDeskOK DEF DeskInv, Ready

\* Steps in which the strategy does nothing and the rows stay.
LEMMA DeskIdle ==
  ASSUME DeskInv, plan'.mode = plan.mode, left' = left, fed' = fed, desk' = desk,
         At' = "desk" <=> At = "desk", Ready'
  PROVE  DeskInv'
  <1>1. RowsTraded' = RowsTraded
    BY DEF RowsTraded
  <1>2. DeskOK(desk, fed, RowsTraded)'
    <2>1. PICK d, R, n : d = desk /\ R = fed /\ n = RowsTraded
      OBVIOUS
    <2>2. d = desk' /\ R = fed' /\ n = RowsTraded' /\ DeskOK(d, R, n)
      BY <1>1, <2>1 DEF DeskInv
    <2> QED  BY <2>2, DeskKept
  <1>3. (plan.mode # "verify" => desk = NewDesk)' /\ (plan.mode = "verify" => SquaredBy(desk.squared, fed, RowsTraded))'
    BY <1>1 DEF DeskInv
  <1> QED  BY <1>2, <1>3 DEF DeskInv

\* Without the verification there is no strategy.
LEMMA DeskAbsent ==
  ASSUME RowsInv, DeskInv, plan.mode # "verify", [ReplayNext]_replayVars
  PROVE  DeskInv'
  <1>1. pc # "desk" /\ At # "desk"
    BY DEF RowsInv, At
  <1>2. ~VerifyRow /\ ~Trade
    BY <1>1 DEF VerifyRow, Trade
  <1>3. desk' = desk /\ left' = left /\ plan'.mode = plan.mode
    <2>1. CASE SeedStream
      BY <2>1 DEF SeedStream, RowsInv
    <2>2. CASE SeedScript \/ LoadSlice \/ FetchRawTicks \/ StreamRow \/ FeedRow \/ Execute \/ Finish
      BY <2>2 DEF SeedScript, LoadSlice, FetchRawTicks, StreamRow, FeedRow, Execute, Finish
    <2>3. CASE UNCHANGED replayVars
      BY <2>3 DEF replayVars
    <2> QED  BY <1>2, <2>1, <2>2, <2>3 DEF ReplayNext
  <1>4. pc' # "desk"
    <2>1. CASE SeedStream \/ SeedScript \/ LoadSlice \/ FetchRawTicks \/ Finish
      BY <2>1 DEF SeedStream, SeedScript, LoadSlice, FetchRawTicks, Finish
    <2>2. CASE StreamRow \/ FeedRow
      BY <2>2 DEF StreamRow, FeedRow, AfterRow
    <2>3. CASE Execute
      BY <1>1, <2>3 DEF Execute, At
    <2>4. CASE UNCHANGED replayVars
      BY <1>1, <2>4 DEF replayVars
    <2> QED  BY <1>2, <2>1, <2>2, <2>3, <2>4 DEF ReplayNext
  <1>5. desk' = NewDesk
    BY <1>3 DEF DeskInv
  <1>6. DeskOK(desk, fed, RowsTraded)'
    <2>1. PICK d, R, n : d = desk' /\ R = fed' /\ n = RowsTraded'
      OBVIOUS
    <2>2. DeskOK(d, R, n)
      BY <1>5, <2>1, NewDeskOK
    <2> QED  BY <1>3, <2>1, <2>2, DeskKept
  <1> QED  BY <1>3, <1>4, <1>5, <1>6 DEF DeskInv, Ready

\* A new row waits for the strategy.
LEMMA DeskRow ==
  ASSUME RowsInv, DeskInv, VerifyRow
  PROVE  DeskInv'
  <1>1. /\ pc = "row" /\ plan.mode = "verify" /\ plan' = plan /\ left' = left /\ desk' = desk
        /\ fed' = Append(fed, Head(chunk)) /\ after' = "desk"
        /\ pc' = IF FlushDue(Head(chunk)) THEN "execute" ELSE "desk"
    BY DEF VerifyRow
  <1>2. PICK R, row, S, d : R = fed /\ row = Head(chunk) /\ S = fed' /\ d = desk
    OBVIOUS
  <1>3. R \in Seq(Row) /\ row \in Row /\ S = Append(R, row) /\ Len(S) = Len(R) + 1 /\ Len(R) \in Nat
        /\ S[Len(R) + 1] = row
    <2>1. fed \in Seq(Row) /\ Head(chunk) \in Row
      BY <1>1, RowFed DEF RowsInv
    <2> QED  BY <1>1, <1>2, <2>1
  <1>4. RowsTraded = Len(R) /\ RowsTraded' = Len(R)
    BY <1>1, <1>2, <1>3 DEF RowsTraded, At
  <1>5. DeskOK(d, S, Len(R)) /\ Late(S, Len(R)) = Late(R, Len(R))
    <2>1. PICK n : n = Len(R)
      OBVIOUS
    <2>2. DeskOK(d, R, n) /\ n \in 0..Len(R)
      BY <1>2, <1>3, <1>4, <2>1 DEF DeskInv
    <2>3. DeskOK(d, S, n) /\ Late(S, n) = Late(R, n)
      BY <1>3, <2>2, DeskStays
    <2> QED  BY <2>1, <2>3
  <1>6. DeskOK(desk, fed, RowsTraded)'
    <2>1. PICK n : n = Len(R)
      OBVIOUS
    <2>2. d = desk' /\ S = fed' /\ n = RowsTraded' /\ DeskOK(d, S, n)
      BY <1>1, <1>2, <1>4, <1>5, <2>1
    <2> QED  BY <1>1, <2>2, DeskKept
  <1>7. SquaredBy(desk.squared, fed, RowsTraded)'
    <2>1. SquaredBy(desk.squared, R, Len(R))
      BY <1>1, <1>2, <1>4 DEF DeskInv
    <2>2. SquaredBy(desk.squared, S, Len(R))
      BY <1>5, <2>1 DEF SquaredBy
    <2> QED  BY <1>1, <1>2, <1>4, <2>2
  <1>8. Ready'
    <2>1. ASSUME pc' = "desk" PROVE ~EntryDue(row) /\ ~SquareDue(row)
      BY <1>1, <1>2, <2>1 DEF FlushDue
    <2>2. Last(fed') = row
      BY <1>2, <1>3 DEF Last
    <2>3. ASSUME pc' = "desk" PROVE ~(EntryDue(Last(fed)) \/ SquareDue(Last(fed)))'
      BY <1>1, <2>1, <2>2, <2>3 DEF EntryDue, SquareDue
    <2> QED  BY <2>3 DEF Ready
  <1> QED  BY <1>1, <1>6, <1>7, <1>8 DEF DeskInv

\* The strategy sees the newest row.
LEMMA DeskTrade ==
  ASSUME RowsInv, PipeInv, DeskInv, Trade
  PROVE  DeskInv'
  <1>1. /\ pc = "desk" /\ plan' = plan /\ left' = left /\ fed' = fed /\ pc' = AfterRow(chunk)
        /\ desk' \in Traded(Last(fed))
    BY DEF Trade, feedVars
  <1>2. fed \in Seq(Row) /\ fed # <<>> /\ plan.mode = "verify" /\ At = "desk"
    BY <1>1 DEF RowsInv, At
  <1>3. PICK R, row, n : R = fed /\ row = Last(fed) /\ n = Len(fed) - 1
    OBVIOUS
  <1>4. R \in Seq(Row) /\ n \in Nat /\ n + 1 = Len(R) /\ row = R[n + 1]
    <2>1. Len(fed) \in Nat /\ Len(fed) > 0
      BY <1>2
    <2> QED  BY <1>2, <1>3, <2>1 DEF Last
  <1>5. PICK d \in AfterEntry(desk, row) : desk' = AfterSquare(AfterStop(d, row), row)
    BY <1>1, <1>3 DEF Traded
  <1>6. DeskOK(d, R, n) /\ d.squared = desk.squared
    BY <1>1, <1>3, <1>5, EntryOK
  <1>7. SquaredBy(d.squared, R, n)
    <2>1. RowsTraded = n
      BY <1>2, <1>3 DEF RowsTraded
    <2>2. SquaredBy(desk.squared, R, n)
      BY <1>2, <1>3, <2>1 DEF DeskInv
    <2> QED  BY <1>6, <2>2
  <1>8. PICK mid, e : mid = AfterStop(d, row) /\ e = AfterSquare(mid, row)
    OBVIOUS
  <1>9. IsDesk(d)
    BY <1>6 DEF DeskOK
  <1>10. Stopped(d, row, mid)
    BY <1>8, <1>9, StopShape
  <1>11. IsDesk(mid)
    BY <1>10 DEF Stopped
  <1>12. SquaredOff(mid, row, e)
    BY <1>8, <1>11, SquareShape
  <1>13. DeskOK(e, R, n + 1) /\ SquaredBy(e.squared, R, n + 1)
    BY <1>4, <1>6, <1>7, <1>10, <1>12, TradeOK
  <1>14. RowsTraded' = n + 1 /\ pc' # "desk"
    <2>1. At' # "desk" /\ pc' # "desk"
      BY <1>1, <1>2 DEF At, AfterRow
    <2> QED  BY <1>1, <1>3, <1>4, <2>1 DEF RowsTraded
  <1>15. e = desk'
    BY <1>5, <1>8
  <1>16. DeskOK(desk, fed, RowsTraded)'
    <2>1. PICK m : m = n + 1
      OBVIOUS
    <2>2. R = fed' /\ m = RowsTraded' /\ DeskOK(e, R, m)
      BY <1>1, <1>3, <1>13, <1>14, <2>1
    <2> QED  BY <1>1, <1>15, <2>2, DeskKept
  <1>17. SquaredBy(desk.squared, fed, RowsTraded)'
    BY <1>1, <1>3, <1>13, <1>14, <1>15
  <1> QED  BY <1>1, <1>2, <1>14, <1>16, <1>17 DEF DeskInv, Ready

LEMMA DeskNext ==
  ASSUME RowsInv, PipeInv, DeskInv, [ReplayNext]_replayVars
  PROVE  DeskInv'
  <1>1. CASE plan.mode # "verify"
    BY <1>1, DeskAbsent
  <1>2. CASE plan.mode = "verify"
    <2>1. ~SeedStream /\ ~LoadSlice /\ ~StreamRow /\ ~FeedRow
      BY <1>2 DEF SeedStream, LoadSlice, StreamRow, FeedRow
    <2>2. CASE SeedScript \/ FetchRawTicks \/ Finish
      <3>1. /\ plan' = plan /\ left' = left /\ fed' = fed /\ desk' = desk /\ pc \in {"seed", "load", "finish"}
            /\ pc' \in {"load", "done", "row", "execute"} /\ (pc' = "execute" => after' = "done")
        BY <2>2 DEF SeedScript, FetchRawTicks, Finish, feedVars
      <3>2. At # "desk" /\ At' # "desk" /\ pc' # "desk"
        BY <3>1 DEF At
      <3>3. Ready'
        BY <3>2 DEF Ready
      <3> QED  BY <3>1, <3>2, <3>3, DeskIdle
    <2>3. CASE Execute
      <3>1. pc = "execute" /\ plan' = plan /\ left' = left /\ fed' = fed /\ desk' = desk /\ after' = after
        BY <2>3 DEF Execute, feedVars
      <3>2. At' = At
        BY <2>3, <3>1 DEF Execute, At
      <3>3. pc' # "execute" => pipe = <<>> /\ pipe' = pipe /\ flushed' = Len(fed)
        BY <2>3 DEF Execute
      <3>4. Ready'
        BY <3>1, <3>3 DEF Ready
      <3> QED  BY <3>1, <3>2, <3>4, DeskIdle
    <2>4. CASE UNCHANGED replayVars
      <3>1. /\ plan' = plan /\ left' = left /\ fed' = fed /\ desk' = desk /\ pc' = pc /\ after' = after
            /\ flushed' = flushed /\ pipe' = pipe
        BY <2>4 DEF replayVars, feedVars
      <3>2. At' = At
        BY <3>1 DEF At
      <3>3. Ready'
        BY <3>1 DEF DeskInv, Ready, EntryDue, SquareDue
      <3> QED  BY <3>1, <3>2, <3>3, DeskIdle
    <2>5. CASE VerifyRow \/ Trade
      BY <2>5, DeskRow, DeskTrade
    <2> QED  BY <2>1, <2>2, <2>3, <2>4, <2>5 DEF ReplayNext
  <1> QED  BY <1>1, <1>2

LEMMA TradeInvariant == ReplaySpec => [](FlowInv /\ DeskInv)
  <1>1. ReplayInit => FlowInv /\ DeskInv
    BY RowsInit, PipeInit, DeskInit DEF FlowInv
  <1>2. (FlowInv /\ DeskInv) /\ [ReplayNext]_replayVars => (FlowInv /\ DeskInv)'
    BY RowsNext, PipeNext, DeskNext DEF FlowInv
  <1> QED  BY <1>1, <1>2, PTL DEF ReplaySpec

-----------------------------------------------------------------------------
(* The last two invariants of the replay.                                  *)

LEMMA FateIs ==
  ASSUME fed \in Seq(Row), NEW o, desk.at \in Nat
  PROVE  FateOf(o) = Fate(fed, o, desk.at, Len(fed), desk.legs[o].entry)
  <1>1. PICK R, at, entry, N : R = fed /\ at = desk.at /\ entry = desk.legs[o].entry /\ N = Len(fed)
    OBVIOUS
  <1>2. N \in Nat /\ DOMAIN R = 1..N /\ at \in Nat
    BY <1>1
  <1>3. PICK late, stop : late = Late(R, N) /\ stop = StopMultiple * entry
    OBVIOUS
  <1>4. late = {i \in DOMAIN R : R[i].t >= SquareTime}
    BY <1>2, <1>3 DEF Late
  <1>5. PICK open, n, I, last : /\ open = (late # {} /\ Min(late) < at)
                                /\ n = IF late = {} \/ open THEN N ELSE Min(late)
                                /\ I = {i \in at..n : R[i].sym = o}
                                /\ last = IF I = {} THEN entry ELSE R[Max(I)].px
    OBVIOUS
  <1>6. PICK hits : hits = {i \in I : R[i].px >= stop}
    OBVIOUS
  <1>7. n = Until(R, at, N) /\ (Squared(R, at, N) <=> late # {} /\ ~open)
    BY <1>3, <1>5 DEF Until, Squared
  <1>8. I = LegRows(R, o, at, n) /\ hits = Hits(R, o, at, n, stop) /\ last = LastPrice(R, o, at, n, entry)
    BY <1>5, <1>6 DEF LegRows, Hits, LastPrice
  <1>9. n \in late /\ ~open <=> Squared(R, at, N)
    <2>1. late # {} => Min(late) \in late
      <3>1. late \in SUBSET (1..N)
        BY <1>2, <1>4
      <3> QED  BY <1>2, <3>1, Positions
    <2> QED  BY <1>5, <1>7, <2>1
  <1>10. FateOf(o) = CASE hits # {} -> [status |-> "SL_HIT", exit |-> stop]
                       [] hits = {} /\ n \in late /\ ~open -> [status |-> "EOD_EXIT", exit |-> last]
                       [] OTHER -> [status |-> "OPEN", exit |-> 0]
    BY <1>1, <1>3, <1>4, <1>5, <1>6 DEF FateOf
  <1>11. FateOf(o) = IF hits # {} THEN [status |-> "SL_HIT", exit |-> stop]
                     ELSE IF Squared(R, at, N) THEN [status |-> "EOD_EXIT", exit |-> last]
                     ELSE [status |-> "OPEN", exit |-> 0]
    <2>1. CASE hits # {}
      BY <1>10, <2>1
    <2>2. CASE hits = {} /\ Squared(R, at, N)
      BY <1>9, <1>10, <2>2
    <2>3. CASE hits = {} /\ ~Squared(R, at, N)
      BY <1>9, <1>10, <2>3
    <2> QED  BY <2>1, <2>2, <2>3
  <1>12. Fate(R, o, at, N, entry) = IF hits # {} THEN [status |-> "SL_HIT", exit |-> stop]
                     ELSE IF Squared(R, at, N) THEN [status |-> "EOD_EXIT", exit |-> last]
                     ELSE [status |-> "OPEN", exit |-> 0]
    BY <1>3, <1>7, <1>8 DEF Fate
  <1> QED  BY <1>1, <1>11, <1>12

\* The verification of every recording enters at prices and after minutes the
\* tape had shown by then (market_replay.py execute_0918_entry).
THEOREM TheEntryIsOnTheTape == ReplaySpec => []EntryOnTape
  <1>1. FlowInv /\ DeskInv => EntryOnTape
    <2> SUFFICES ASSUME FlowInv, DeskInv PROVE EntryOnTape
      OBVIOUS
    <2>1. DeskOK(desk, fed, RowsTraded)
      BY DEF DeskInv
    <2>2. ASSUME NEW o \in Options, desk.legs[o].status # "NONE"
          PROVE  LET I == {i \in 1..desk.at : fed[i].sym = o}
                 IN  desk.legs[o].entry = IF I = {} THEN OldPrice ELSE fed[Max(I)].px
      <3>1. desk.legs[o].entry = LastPrice(fed, o, 1, desk.at, OldPrice)
        BY <2>1, <2>2 DEF DeskOK
      <3> QED  BY <3>1 DEF LastPrice, LegRows
    <2>3. desk.at > 0 => desk.jump = MorningOf(fed, desk.at)
      BY <2>1 DEF DeskOK
    <2>4. desk.at > 0 =>
            LET bars == Beside(SpotBarsOf(SubSeq(fed, 1, desk.at)), Remains)
            IN  desk.jump = {<<k[3], bars[k].close>> :
                    k \in {b \in DOMAIN bars : b[1] = Spot /\ b[2] = OneMinute /\ b[3] < EntryTime}}
      BY <2>3 DEF MorningOf
    <2> QED  BY <2>2, <2>4 DEF EntryOnTape
  <1> QED  BY <1>1, TradeInvariant, PTL

\* In the verification of every recording each leg meets the fate the tape has
\* for it (market_replay.py:537-588).
THEOREM LegsMeetTheirFate == ReplaySpec => []LegsFollowTape
  <1>1. FlowInv /\ DeskInv => LegsFollowTape
    <2> SUFFICES ASSUME FlowInv, DeskInv, pc \in {"row", "load", "finish", "done"},
                        NEW o \in Options, desk.legs[o].status # "NONE"
                 PROVE  [status |-> desk.legs[o].status, exit |-> desk.legs[o].exit] = FateOf(o)
      BY DEF LegsFollowTape
    <2>1. fed \in Seq(Row)
      BY DEF FlowInv, RowsInv
    <2>2. RowsTraded = Len(fed)
      BY DEF RowsTraded, At
    <2>3. DeskOK(desk, fed, Len(fed))
      BY <2>2 DEF DeskInv
    <2>4. desk.executed /\ desk.at \in Nat
      BY <2>3 DEF DeskOK, NoLeg
    <2>5. LegOK(fed, o, desk.legs[o], desk.at, Len(fed))
      BY <2>3 DEF DeskOK
    <2> QED  BY <2>1, <2>4, <2>5, FateIs DEF LegOK
  <1> QED  BY <1>1, TradeInvariant, PTL
=============================================================================
