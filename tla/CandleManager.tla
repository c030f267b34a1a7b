---------------------------- MODULE CandleManager ----------------------------
(***************************************************************************)
(* The collector's candle pipeline (collector/src/candle_manager.cpp and   *)
(* the loop of main.cpp that calls it): every tick updates the quote, then *)
(* the active 1m candle, then the active parent candle, in memory and in   *)
(* Redis.  The first tick of a later minute publishes the closed one.      *)
(* The timeframes are kept in an unordered_map: the 1m candle may come     *)
(* before or after the parent.                                             *)
(*                                                                         *)
(* The feed may lose a tick or deliver it after later ones.  A restart     *)
(* loads the newest candles and the last volume back from Redis.           *)
(***************************************************************************)
EXTENDS CandleBook, Sequences

CONSTANTS MaxLost, MaxDelayed, MaxRestarts   \* bounds on what goes wrong

VARIABLES
    quote,     \* volume in md:quote:<symbol>
    delayed,   \* ticks that were overtaken on the feed
    todo,      \* what process_message has left to do with the tick
    tick,      \* the tick being processed
    inc,       \* inc_vol of that tick
    lastVol,   \* m_last_volumes
    minuteNow, \* m_active_candles["1m"]
    parentNow, \* m_active_candles of the parent timeframe
    lost, restarts

memory  == <<todo, tick, inc, lastVol, minuteNow, parentNow>>
manager == <<quote, delayed, memory, lost, restarts>>

Step     == {"volume", "close", "minute", "parent"}
NoActive == [at |-> -1, ticks |-> {}, vol |-> 0]

ASSUME FaultAssumption ==
    MaxLost \in Nat /\ MaxDelayed \in Nat /\ MaxRestarts \in Nat

ManagerInit ==
    /\ minutes = [m \in Minute |-> Absent]
    /\ parents = [p \in Parent |-> Absent]
    /\ traded = 0
    /\ quote = 0
    /\ delayed = {}
    /\ todo = <<>> /\ tick = 0 /\ inc = 0 /\ lastVol = 0
    /\ minuteNow = NoActive /\ parentNow = NoActive
    /\ lost = 0 /\ restarts = 0

-----------------------------------------------------------------------------
(* The feed. *)

\* The next trade reaches the collector, whose first store is the quote.
Receive ==
    /\ todo = <<>> /\ traded < NTicks
    /\ traded' = traded + 1
    /\ tick' = traded + 1
    /\ quote' = traded + 1
    /\ todo' = <<"volume">>
    /\ UNCHANGED <<redis, inbox, delayed, inc, lastVol, minuteNow, parentNow,
                   lost, restarts>>

\* It is lost on the way, or while the collector is down or reconnecting.
Lose ==
    /\ traded < NTicks /\ lost < MaxLost
    /\ traded' = traded + 1
    /\ lost' = lost + 1
    /\ UNCHANGED <<redis, inbox, quote, delayed, memory, restarts>>

\* It is delayed, and delivered after ticks that were traded later.
Delay ==
    /\ traded < NTicks /\ Cardinality(delayed) < MaxDelayed
    /\ traded' = traded + 1
    /\ delayed' = delayed \cup {traded + 1}
    /\ UNCHANGED <<redis, inbox, quote, memory, lost, restarts>>

ReceiveLate ==
    /\ todo = <<>>
    /\ \E i \in delayed :
          /\ delayed' = delayed \ {i}
          /\ tick' = i
          /\ quote' = i
    /\ todo' = <<"volume">>
    /\ UNCHANGED <<redis, inbox, traded, inc, lastVol, minuteNow, parentNow,
                   lost, restarts>>

-----------------------------------------------------------------------------
(* process_tick_candle *)

Due(step) == todo # <<>> /\ Head(todo) = step
TheMinute == MinuteOf[tick]
TheParent == ParentOf(MinuteOf[tick])
Closes    == minuteNow # NoActive /\ minuteNow.at < TheMinute

\* The volume since the tick before; the first volume ever seen counts nothing.
CountVolume ==
    /\ Due("volume")
    /\ inc' = IF lastVol > 0 THEN Max({0, tick - lastVol}) ELSE 0
    /\ lastVol' = tick
    /\ todo' \in {<<"close", "minute", "parent">>, <<"parent", "close", "minute">>}
    /\ UNCHANGED <<redis, inbox, traded, quote, delayed, tick, minuteNow,
                   parentNow, lost, restarts>>

\* Mutant: the interval that opens is announced, not the one that closed.
PublishOpening(subscribed) ==
    /\ Due("close")
    /\ inbox' = IF Closes /\ subscribed
              THEN inbox \cup {TheMinute} ELSE inbox
    /\ todo' = Tail(todo)
    /\ UNCHANGED <<redis, traded, quote, delayed, tick, inc, lastVol,
                   minuteNow, parentNow, lost, restarts>>

\* A minute that closes is announced; a message nobody is subscribed to is gone.
Publish(subscribed) ==
    /\ Due("close")
    /\ inbox' = IF Closes /\ subscribed
              THEN inbox \cup {minuteNow.at} ELSE inbox
    /\ todo' = Tail(todo)
    /\ UNCHANGED <<redis, traded, quote, delayed, tick, inc, lastVol,
                   minuteNow, parentNow, lost, restarts>>

\* Mutant: the candle in memory is carried on into the next interval.
FoldCarriesOver(active, t) ==
    [at |-> Max({active.at, t}), ticks |-> active.ticks \cup {tick},
     vol |-> active.vol + inc]

\* The active candle with the tick, opened anew when interval t is later.
Fold(active, t) ==
    IF active.at < t
    THEN [at |-> t, ticks |-> {tick}, vol |-> inc]
    ELSE [active EXCEPT !.ticks = @ \cup {tick}, !.vol = @ + inc]

\* What HSET makes of the hash of interval t: all fields when the candle is
\* new, all but open otherwise.  The key is the tick's interval, the values
\* are those of the active candle.
Written(hash, active, t) ==
    [ticks |-> Fold(active, t).ticks, vol |-> Fold(active, t).vol,
     opened |-> hash.opened \/ active.at < t, status |-> "live"]

FoldMinute ==
    /\ Due("minute")
    /\ minuteNow' = Fold(minuteNow, TheMinute)
    /\ minutes' = [minutes EXCEPT
                      ![TheMinute] = Written(@, minuteNow, TheMinute)]
    /\ todo' = Tail(todo)
    /\ UNCHANGED <<parents, inbox, traded, quote, delayed, tick, inc, lastVol,
                   parentNow, lost, restarts>>

FoldParent ==
    /\ Due("parent")
    /\ parentNow' = Fold(parentNow, TheParent)
    /\ parents' = [parents EXCEPT
                      ![TheParent] = Written(@, parentNow, TheParent)]
    /\ todo' = Tail(todo)
    /\ UNCHANGED <<minutes, inbox, traded, quote, delayed, tick, inc, lastVol,
                   minuteNow, lost, restarts>>

-----------------------------------------------------------------------------
\* init_active_candles: the newest indexed candle of each timeframe, if any.
\* A hash that was never opened is not in the index.
Indexed(book) == {t \in DOMAIN book : book[t].opened}
Newest(book)  == {t \in Indexed(book) : \A u \in Indexed(book) : u <= t}
Loaded(book)  ==
    IF Indexed(book) = {} THEN {NoActive}
    ELSE {[at |-> t, ticks |-> book[t].ticks, vol |-> book[t].vol] :
              t \in Newest(book)}

\* The process dies anywhere and starts again.
RestartManager ==
    /\ restarts < MaxRestarts
    /\ restarts' = restarts + 1
    /\ todo' = <<>> /\ tick' = 0 /\ inc' = 0
    /\ lastVol' = quote
    /\ minuteNow' \in Loaded(minutes)
    /\ parentNow' \in Loaded(parents)
    /\ UNCHANGED <<redis, inbox, traded, quote, delayed, lost>>

ManagerNext(subscribed) ==
    \/ Receive \/ Lose \/ Delay \/ ReceiveLate
    \/ CountVolume \/ Publish(subscribed) \/ FoldMinute \/ FoldParent
    \/ RestartManager
=============================================================================
