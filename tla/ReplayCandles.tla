---------------------------- MODULE ReplayCandles ----------------------------
(***************************************************************************)
(* The two candle aggregators of the replay programs, which take the place *)
(* of the collector's CandleManager: MultiTimeframeCandleAggregator of     *)
(* market_replay_engine.py for every symbol and timeframe, and             *)
(* CandleAggregator of scripts/market_replay.py for the minutes of the     *)
(* index.  Each turns a tick into commands of a Redis pipeline.            *)
(*                                                                         *)
(* A row of the tape is [sym, t, px, vol], vol counting the whole day; a   *)
(* bar is known by its symbol, timeframe and start.                        *)
(***************************************************************************)
EXTENDS Integers, SequencesExt

CONSTANTS
    Spot,           \* the index
    Symbols,        \* everything on the tape
    TimeframeList   \* TIMEFRAMES in their order, the minute first

ASSUME ReplayAssumption ==
    /\ Spot \in Symbols
    /\ TimeframeList \in Seq(Nat \ {0}) /\ Len(TimeframeList) > 0
    /\ \A i, j \in DOMAIN TimeframeList : i # j => TimeframeList[i] # TimeframeList[j]

Timeframes == {TimeframeList[i] : i \in DOMAIN TimeframeList}

OneMinute == TimeframeList[1]

Start(tf, t) == (t \div tf) * tf

NoBar == [ts |-> -1, open |-> 0, high |-> 0, low |-> 0, close |-> 0, volume |-> 0,
          status |-> "none"]

\* CandleBar with the first tick of its interval.
NewBar(ts, row, volume) ==
    [ts |-> ts, open |-> row.px, high |-> row.px, low |-> row.px, close |-> row.px,
     volume |-> volume, status |-> "live"]

Updated(bar, row, inc) ==
    [ts |-> bar.ts, open |-> bar.open, high |-> Max({bar.high, row.px}),
     low |-> Min({bar.low, row.px}), close |-> row.px, volume |-> bar.volume + inc,
     status |-> bar.status]

Historical(bar) == [bar EXCEPT !.status = "historical"]

\* Commands: HSET of a bar, with its ZADD, and PUBLISH md:reco:trigger.
SetBar(sym, tf, ts, bar) == [op |-> "bar", key |-> <<sym, tf, ts>>, bar |-> bar]
Trigger(sym, ts)         == [op |-> "trigger", key |-> <<sym, OneMinute, ts>>]

-----------------------------------------------------------------------------
(* MultiTimeframeCandleAggregator                                          *)

EmptyAggregator ==
    [bars |-> [k \in Symbols \X Timeframes |-> NoBar], seen |-> [s \in Symbols |-> 0]]

\* The volume of a tick: nothing while no volume was seen before.
Increment(agg, row) ==
    IF agg.seen[row.sym] = 0 THEN 0 ELSE Max({0, row.vol - agg.seen[row.sym]})

NextBar(bar, row, tf, inc) ==
    IF Start(tf, row.t) > bar.ts THEN NewBar(Start(tf, row.t), row, inc)
                                 ELSE Updated(bar, row, inc)

\* Mutant: the trigger overtakes the bar it announces.
BarCommandsEager(bar, row, tf, inc) ==
    LET next == SetBar(row.sym, tf, Start(tf, row.t), NextBar(bar, row, tf, inc))
    IN  IF bar = NoBar \/ Start(tf, row.t) <= bar.ts THEN <<next>>
        ELSE (IF tf = OneMinute THEN <<Trigger(row.sym, bar.ts)>> ELSE <<>>)
               \o <<SetBar(row.sym, tf, bar.ts, Historical(bar)), next>>

\* A tick of a later interval closes the bar, and announces a closed minute.
BarCommands(bar, row, tf, inc) ==
    LET next == SetBar(row.sym, tf, Start(tf, row.t), NextBar(bar, row, tf, inc))
    IN  IF bar = NoBar \/ Start(tf, row.t) <= bar.ts THEN <<next>>
        ELSE <<SetBar(row.sym, tf, bar.ts, Historical(bar))>>
               \o (IF tf = OneMinute THEN <<Trigger(row.sym, bar.ts)>> ELSE <<>>)
               \o <<next>>

\* process_tick
Aggregated(agg, row) ==
    IF row.px <= 0 THEN agg
    ELSE [bars |-> [k \in DOMAIN agg.bars |->
                      IF k[1] = row.sym THEN NextBar(agg.bars[k], row, k[2], Increment(agg, row))
                                        ELSE agg.bars[k]],
          seen |-> [agg.seen EXCEPT ![row.sym] = row.vol]]

\* Its commands, one timeframe after the other.
AggregatorCommands(agg, row) ==
    LET ofFrame(tf) == BarCommands(agg.bars[<<row.sym, tf>>], row, tf, Increment(agg, row))
    IN  IF row.px <= 0 THEN <<>>
        ELSE FlattenSeq([i \in DOMAIN TimeframeList |-> ofFrame(TimeframeList[i])])

-----------------------------------------------------------------------------
(* CandleAggregator: the volume field of a running bar is last_seen_vol.   *)

ClosesBar(bar, row) == row.px > 0 /\ bar # NoBar /\ Start(OneMinute, row.t) > bar.ts

SpotAggregated(bar, row) ==
    IF row.px <= 0 THEN bar
    ELSE IF bar = NoBar \/ ClosesBar(bar, row) THEN NewBar(Start(OneMinute, row.t), row, row.vol)
    ELSE Updated(bar, row, 0)

\* Only a closed minute is written; its volume ends with the tick that closes it.
SpotCommands(bar, row) ==
    IF ClosesBar(bar, row)
    THEN <<SetBar(Spot, OneMinute, bar.ts,
                  Historical([bar EXCEPT !.volume = Max({0, row.vol - bar.volume})])),
           Trigger(Spot, bar.ts)>>
    ELSE <<>>

-----------------------------------------------------------------------------
(* What the bars of a sequence of rows are, without an aggregator.         *)

Priced(R, s) == {i \in DOMAIN R : R[i].sym = s /\ R[i].px > 0}

\* The rows of a bar, and those of later bars; k is the bar's key.
Inside(R, k) == {i \in Priced(R, k[1]) : Start(k[2], R[i].t) = k[3]}
Beyond(R, k) == {i \in Priced(R, k[1]) : Start(k[2], R[i].t) > k[3]}

\* What a row adds to the volume, given the row of its symbol before it.
Gain(R, i) ==
    LET J == {j \in Priced(R, R[i].sym) : j < i}
    IN  IF J = {} \/ R[Max(J)].vol = 0 THEN 0 ELSE Max({0, R[i].vol - R[Max(J)].vol})

BarOf(R, k) ==
    LET I == Inside(R, k)
    IN  [ts |-> k[3], open |-> R[Min(I)].px, close |-> R[Max(I)].px,
         high |-> Max({R[i].px : i \in I}), low |-> Min({R[i].px : i \in I}),
         volume |-> SumFunctionOnSet([i \in I |-> Gain(R, i)], I),
         status |-> IF Beyond(R, k) = {} THEN "live" ELSE "historical"]

KeyOf(row, tf) == <<row.sym, tf, Start(tf, row.t)>>

BarsOf(R) ==
    LET priced == {i \in DOMAIN R : R[i].px > 0}
    IN  [k \in {KeyOf(R[i], tf) : i \in priced, tf \in Timeframes} |-> BarOf(R, k)]

\* The minute bars of the index that are closed.
SpotBarsOf(R) ==
    LET keys == {KeyOf(R[i], OneMinute) : i \in Priced(R, Spot)}
        volume(k) == Max({0, R[Min(Beyond(R, k))].vol - R[Min(Inside(R, k))].vol})
    IN  [k \in {b \in keys : Beyond(R, b) # {}} |-> [BarOf(R, k) EXCEPT !.volume = volume(k)]]
=============================================================================
