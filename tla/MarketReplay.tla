----------------------------- MODULE MarketReplay -----------------------------
(***************************************************************************)
(* The replay of a recorded day into Redis: MarketReplayEngine.replay      *)
(* ("stream") and the two loops of scripts/market_replay.py, which feed    *)
(* quotes and the minutes of the index ("feed"), or also trade the day     *)
(* with Strategy 6 and follow its stops on the tape ("verify").  All three *)
(* fill a pipeline and execute it now and then; Redis applies its commands *)
(* one after the other, so readers see half of it.  A row of price 0 has   *)
(* neither bid nor ask.                                                    *)
(*                                                                         *)
(* Redis may still hold the quotes and bars of an earlier replay.  A       *)
(* program that dies leaves what was applied: a prefix of a behaviour.     *)
(***************************************************************************)
EXTENDS ReplayCandles

CONSTANTS
    Tapes,        \* recordings: sequences of rows, ordered by time
    Cleared,      \* the index and its front future, whose old bars are deleted
    Opening, End, \* the time window of the replay
    SliceLength,  \* chunk_minutes
    BatchSize,    \* rows per pipeline
    EntryTime,    \* 9:18
    SquareTime,   \* 15:00
    StopMultiple, \* sl_mult
    OldPrice      \* the price of quotes and bars that an earlier replay left

Options == Symbols \ Cleared

Row == [sym : Symbols, t : Nat, px : Nat, vol : Nat]

ASSUME MarketReplayAssumption ==
    /\ Spot \in Cleared /\ Cleared \subseteq Symbols
    /\ Opening \in Nat /\ End \in Nat /\ SliceLength \in Nat \ {0} /\ BatchSize \in Nat \ {0}
    /\ Opening <= End /\ EntryTime \in Nat /\ SquareTime \in Nat
    /\ StopMultiple \in Nat /\ OldPrice \in Nat \ {0}
    /\ Tapes \subseteq Seq(Row)
    /\ \A tape \in Tapes : \A i, j \in DOMAIN tape : i < j => tape[i].t <= tape[j].t

VARIABLES
    plan,      \* mode, recording, and the symbols selected from it
    left,      \* whether an earlier replay left quotes and bars in Redis
    pc, after, \* the next step, and the one after the pipeline is executed
    slice,     \* start of the next slice to query
    chunk,     \* rows of the slice still to be fed
    fed,       \* rows fed so far
    flushed,   \* how many of them are in Redis
    agg,       \* MultiTimeframeCandleAggregator
    minute,    \* CandleAggregator
    pipe,      \* commands not yet applied
    store,     \* Redis: quotes and bars
    heard,     \* messages on md:stream:all
    triggers,  \* minutes announced on md:reco:trigger
    desk       \* Strategy 6 in the verification

feedVars   == <<slice, chunk, fed, agg, minute>>
replayVars == <<plan, left, pc, after, feedVars, flushed, pipe, store, heard, triggers, desk>>

NoQuote == -1

Complete == [status |-> "REPLAY_COMPLETE"]

\* Positions of the verification; at is the length of fed at the entry, jump
\* the minutes of the index the entry sees.
NoLeg   == [status |-> "NONE", entry |-> 0, price |-> 0, exit |-> 0]
NewDesk == [done |-> FALSE, executed |-> FALSE, squared |-> FALSE, at |-> 0, jump |-> {},
            legs |-> [o \in Options |-> NoLeg]]

OldBar(k) == [NoBar EXCEPT !.ts = k[3], !.close = OldPrice, !.status = "historical"]

BarKeys == {<<s, tf, Start(tf, t)>> : s \in Symbols, tf \in Timeframes, t \in Opening..End}

ReplayInit ==
    /\ \E mode \in {"stream", "feed", "verify"}, tape \in Tapes :
          plan = [mode |-> mode, tape |-> tape, selected |-> Symbols]
    /\ left \in BOOLEAN
    /\ pc = "seed" /\ after = "seed"
    /\ slice = Opening /\ chunk = <<>> /\ fed = <<>> /\ flushed = 0
    /\ agg = EmptyAggregator /\ minute = NoBar
    /\ pipe = <<>>
    /\ store = [quotes |-> [s \in Symbols |-> IF left THEN OldPrice ELSE NoQuote],
                bars   |-> [k \in {b \in BarKeys : left} |-> OldBar(k)]]
    /\ heard = <<>> /\ triggers = {}
    /\ desk = NewDesk

-----------------------------------------------------------------------------
(* Seeding and querying.                                                   *)

KeptBars(bars) == [k \in {b \in DOMAIN bars : b[1] \notin Cleared} |-> bars[k]]

\* load_metadata: the index, the front future and the strikes around the opening.
Selections == {Cleared \cup S : S \in SUBSET Options}

\* seed_initial_redis_state deletes old bars of the index and the future only.
SeedStream ==
    /\ pc = "seed" /\ plan.mode = "stream"
    /\ \E S \in Selections : plan' = [plan EXCEPT !.selected = S]
    /\ store' = [store EXCEPT !.bars = KeptBars(@)]
    /\ pc' = "load"
    /\ UNCHANGED <<left, after, feedVars, flushed, pipe, heard, triggers, desk>>

\* load_base_metadata and seed_base_redis_state keep every contract and old bar.
SeedScript ==
    /\ pc = "seed" /\ plan.mode # "stream"
    /\ pc' = "load"
    /\ UNCHANGED <<plan, left, after, feedVars, flushed, pipe, store, heard, triggers, desk>>

\* The rows of the tape with these numbers, in the order of the tape.
RowsAt(I) ==
    LET upTo[n \in 0..Len(plan.tape)] ==
            IF n = 0 THEN <<>>
            ELSE IF n \in I THEN Append(upTo[n - 1], plan.tape[n]) ELSE upTo[n - 1]
    IN  upTo[Len(plan.tape)]

\* Mutant: the slice holds its end, like the window of the script.
SliceInclusive(from, to) == {i \in DOMAIN plan.tape : from <= plan.tape[i].t /\ plan.tape[i].t <= to}

Slice(from, to) == {i \in DOMAIN plan.tape : from <= plan.tape[i].t /\ plan.tape[i].t < to}

Selected == {i \in DOMAIN plan.tape : plan.tape[i].sym \in plan.selected}

\* stream_ticks_chunked
LoadSlice ==
    /\ pc = "load" /\ plan.mode = "stream"
    /\ IF slice >= End THEN pc' = "finish" /\ UNCHANGED <<slice, chunk>>
       ELSE LET to == Min({slice + SliceLength, End})
            IN  /\ chunk' = RowsAt(Slice(slice, to) \cap Selected)
                /\ slice' = to
                /\ pc' = IF chunk' = <<>> THEN "load" ELSE "row"
    /\ UNCHANGED <<plan, left, after, fed, agg, minute, flushed, pipe, store, heard, triggers, desk>>

WholeWindow ==
    RowsAt({i \in DOMAIN plan.tape : Opening <= plan.tape[i].t /\ plan.tape[i].t <= End})

\* fetch_raw_ticks: everything at once, and the end belongs to it.
FetchRawTicks ==
    /\ pc = "load" /\ plan.mode # "stream"
    /\ chunk' = WholeWindow
    /\ pc' = IF chunk' = <<>> THEN "done" ELSE "row"
    /\ UNCHANGED <<plan, left, after, slice, fed, agg, minute, flushed, pipe, store, heard, triggers,
                   desk>>

-----------------------------------------------------------------------------
(* Feeding a row.                                                          *)

Quote(row) == <<[op |-> "quote", row |-> row]>>
Hear(msg)  == <<[op |-> "hear", row |-> msg]>>

AfterRow(rest) == IF rest # <<>> THEN "row" ELSE IF plan.mode = "stream" THEN "load" ELSE "finish"

\* The commands of the row wait in the pipeline; pacing executes it early.
StreamRow ==
    /\ pc = "row" /\ plan.mode = "stream"
    /\ LET row == Head(chunk)
       IN  /\ pipe' = pipe \o Quote(row) \o Hear(row) \o AggregatorCommands(agg, row)
           /\ agg' = Aggregated(agg, row)
           /\ fed' = Append(fed, row)
    /\ chunk' = Tail(chunk)
    /\ \/ pc' = "execute" /\ after' = AfterRow(chunk')
       \/ Len(fed') % BatchSize # 0 /\ pc' = AfterRow(chunk') /\ UNCHANGED after
    /\ UNCHANGED <<plan, left, slice, minute, flushed, store, heard, triggers, desk>>

SpotRow(row) ==
    IF row.sym = Spot
    THEN /\ pipe' = pipe \o Quote(row) \o SpotCommands(minute, row)
         /\ minute' = SpotAggregated(minute, row)
    ELSE /\ pipe' = pipe \o Quote(row)
         /\ UNCHANGED minute

\* run_stream_replay
FeedRow ==
    /\ pc = "row" /\ plan.mode = "feed"
    /\ SpotRow(Head(chunk))
    /\ fed' = Append(fed, Head(chunk))
    /\ chunk' = Tail(chunk)
    /\ \/ pc' = "execute" /\ after' = AfterRow(chunk')
       \/ Len(fed') % BatchSize # 0 /\ pc' = AfterRow(chunk') /\ UNCHANGED after
    /\ UNCHANGED <<plan, left, slice, agg, flushed, store, heard, triggers, desk>>

EntryDue(row)  == ~desk.done /\ row.t >= EntryTime
SquareDue(row) == ~desk.squared /\ row.t >= SquareTime

\* Mutant: the pipeline is executed when it is full, and at no other time.
FlushDueWhenFull(row) == Len(fed) + 1 - flushed >= BatchSize

\* The pipeline is full, or the strategy is about to act.
FlushDue(row) ==
    Len(fed) + 1 - flushed >= BatchSize \/ EntryDue(row) \/ SquareDue(row)

\* run_verification_test up to the strategy.
VerifyRow ==
    /\ pc = "row" /\ plan.mode = "verify"
    /\ SpotRow(Head(chunk))
    /\ fed' = Append(fed, Head(chunk))
    /\ chunk' = Tail(chunk)
    /\ after' = "desk"
    /\ pc' = IF FlushDue(Head(chunk)) THEN "execute" ELSE "desk"
    /\ UNCHANGED <<plan, left, slice, agg, flushed, store, heard, triggers, desk>>

\* What is new, and what was there beside it.
Beside(new, old) ==
    [k \in DOMAIN new \cup DOMAIN old |-> IF k \in DOMAIN new THEN new[k] ELSE old[k]]

\* Redis applies the next command of the pipeline.
Apply(cmd) ==
    \/ /\ cmd.op = "quote"
       /\ store' = [store EXCEPT !.quotes[cmd.row.sym] = cmd.row.px]
       /\ UNCHANGED <<heard, triggers>>
    \/ /\ cmd.op = "bar"
       /\ store' = [store EXCEPT !.bars = Beside([k \in {cmd.key} |-> cmd.bar], @)]
       /\ UNCHANGED <<heard, triggers>>
    \/ /\ cmd.op = "hear"
       /\ heard' = Append(heard, cmd.row)
       /\ UNCHANGED <<store, triggers>>
    \/ /\ cmd.op = "trigger"
       /\ triggers' = triggers \cup {cmd.key}
       /\ UNCHANGED <<store, heard>>

Execute ==
    /\ pc = "execute"
    /\ IF pipe = <<>>
       THEN /\ pc' = after
            /\ flushed' = Len(fed)
            /\ UNCHANGED <<pipe, store, heard, triggers>>
       ELSE /\ Apply(Head(pipe))
            /\ pipe' = Tail(pipe)
            /\ UNCHANGED <<pc, flushed>>
    /\ UNCHANGED <<plan, left, after, feedVars, desk>>

\* The last commands, and in stream mode the end of the stream.
Finish ==
    /\ pc = "finish"
    /\ pipe' = IF plan.mode = "stream" THEN pipe \o Hear(Complete) ELSE pipe
    /\ pc' = "execute" /\ after' = "done"
    /\ UNCHANGED <<plan, left, feedVars, flushed, store, heard, triggers, desk>>

-----------------------------------------------------------------------------
(* Strategy 6 on the tape.                                                 *)

Held(d) == {o \in Options : d.legs[o].status = "OPEN"}

\* The morning minutes _detect_morning_jump reads.
JumpBars ==
    {<<k[3], store.bars[k].close>> :
        k \in {b \in DOMAIN store.bars : /\ b[1] = Spot /\ b[2] = OneMinute /\ b[3] < EntryTime
                                         /\ store.bars[b].close > 0}}

\* get_nearby_chain: the contracts a quote is found for.
NearbyChain == {o \in Options : store.quotes[o] # NoQuote}

\* _build_options_dataframe drops those without a price.
Priceable == {o \in NearbyChain : store.quotes[o] > 0}

\* An index without a quote has a default price, one of price 0 stops the entry.
SpotUsable == store.quotes[Spot] # 0

Sold(o) == [status |-> "OPEN", entry |-> store.quotes[o], price |-> store.quotes[o], exit |-> 0]

\* execute_0918_entry: tried with every row until it sells something, final once
\* there were quotes to choose from.  Strikes are left open.
AfterEntry(d, row) ==
    IF d.done \/ row.t < EntryTime \/ d.executed \/ Priceable = {} \/ ~SpotUsable
    THEN {d}
    ELSE {[d EXCEPT !.executed = TRUE, !.done = S # {}, !.at = Len(fed), !.jump = JumpBars,
                    !.legs = [o \in Options |-> IF o \in S THEN Sold(o) ELSE @[o]]] :
             S \in SUBSET Priceable}

\* update_price of the leg the row belongs to.
AfterStop(d, row) ==
    IF row.sym \notin Held(d) THEN d
    ELSE LET leg  == d.legs[row.sym]
             stop == StopMultiple * leg.entry
         IN  [d EXCEPT !.legs[row.sym] =
                 IF row.px >= stop THEN [leg EXCEPT !.status = "SL_HIT", !.price = row.px, !.exit = stop]
                                   ELSE [leg EXCEPT !.price = row.px]]

\* execute_eod_squareoff: at the last price seen, once.
AfterSquare(d, row) ==
    IF d.squared \/ row.t < SquareTime THEN d
    ELSE [d EXCEPT !.squared = TRUE,
                   !.legs = [o \in Options |->
                       IF o \in Held(d) THEN [@[o] EXCEPT !.status = "EOD_EXIT", !.exit = d.legs[o].price]
                                        ELSE @[o]]]

\* Mutant: the square-off comes before the stops.
TradedSquareFirst(row) ==
    {AfterStop(AfterSquare(d, row), row) : d \in AfterEntry(desk, row)}

\* Entry, stops, square-off, in this order for every row.
Traded(row) == {AfterSquare(AfterStop(d, row), row) : d \in AfterEntry(desk, row)}

Trade ==
    /\ pc = "desk"
    /\ desk' \in Traded(Last(fed))
    /\ pc' = AfterRow(chunk)
    /\ UNCHANGED <<plan, left, after, feedVars, flushed, pipe, store, heard, triggers>>

ReplayNext == SeedStream \/ SeedScript \/ LoadSlice \/ FetchRawTicks \/ StreamRow \/ FeedRow
             \/ VerifyRow \/ Execute \/ Finish \/ Trade

ReplaySpec == ReplayInit /\ [][ReplayNext]_replayVars

-----------------------------------------------------------------------------
ReplayTypeOK ==
    /\ pc \in {"seed", "load", "row", "execute", "desk", "finish", "done"}
    /\ slice \in Opening..End /\ chunk \in Seq(Row) /\ fed \in Seq(Row)
    /\ flushed \in 0..Len(fed)
    /\ pipe # <<>> => pc # "done"
    /\ store.quotes \in [Symbols -> Nat \cup {NoQuote}]
    /\ DOMAIN store.bars \subseteq BarKeys
    /\ triggers \subseteq DOMAIN store.bars

\* The rows of the tape that the program asks for.
Window ==
    IF plan.mode = "stream"
    THEN RowsAt({i \in Selected : Opening <= plan.tape[i].t /\ plan.tape[i].t < End})
    ELSE WholeWindow

\* Every row of the window is fed once and in order, and those subscribed to
\* md:stream:all hear what was fed, then the end (market_replay_engine.py
\* stream_ticks_chunked and replay).
EveryRowOnce ==
    /\ IsPrefix(fed, Window)
    /\ IsPrefix(heard, Append(fed, Complete))
    /\ pc = "done" => /\ fed = Window /\ flushed = Len(fed)
                      /\ plan.mode = "stream" => heard = Append(Window, Complete)

\* What an earlier replay left behind: bars of options, which no seed deletes, or,
\* from the script, which deletes no bar, of any symbol.
Remains ==
    [k \in {b \in BarKeys : left /\ (plan.mode = "stream" => b[1] \notin Cleared)} |-> OldBar(k)]

Expected(R) == IF plan.mode = "stream" THEN BarsOf(R) ELSE SpotBarsOf(R)

\* Redis shows the bars of the tape: between two executions those of the rows
\* flushed so far, beside what an earlier replay left; and whoever reads a minute
\* when its trigger comes reads the closed bar, which no later row changes (the
\* reconciler listens to md:reco:trigger; process_tick of both programs).
BarsAreTape ==
    /\ pc \notin {"seed", "execute"} =>
           store.bars = Beside(Expected(SubSeq(fed, 1, flushed)), Remains)
    /\ \A k \in triggers : /\ store.bars[k].status = "historical"
                           /\ store.bars[k] = Expected(fed)[k]

\* The verification enters on what the tape had shown by then: at the prices of
\* the newest rows fed, unless an option had none and an earlier replay left its
\* quote, and after a morning of the minutes that were closed: the minute before
\* the entry counts only once a row of the index came in the next.
EntryOnTape ==
    /\ \A o \in Options : desk.legs[o].status # "NONE" =>
           LET I == {i \in 1..desk.at : fed[i].sym = o}
           IN  desk.legs[o].entry = IF I = {} THEN OldPrice ELSE fed[Max(I)].px
    /\ desk.at > 0 =>
           LET bars == Beside(SpotBarsOf(SubSeq(fed, 1, desk.at)), Remains)
           IN  desk.jump = {<<k[3], bars[k].close>> :
                   k \in {b \in DOMAIN bars : b[1] = Spot /\ b[2] = OneMinute /\ b[3] < EntryTime}}

\* The fate of a leg, read off the tape.
FateOf(o) ==
    LET entry == desk.legs[o].entry
        stop  == StopMultiple * entry
        late  == {i \in DOMAIN fed : fed[i].t >= SquareTime}
        open  == late # {} /\ Min(late) < desk.at
        n     == IF late = {} \/ open THEN Len(fed) ELSE Min(late)
        I     == {i \in desk.at..n : fed[i].sym = o}
        hits  == {i \in I : fed[i].px >= stop}
        last  == IF I = {} THEN entry ELSE fed[Max(I)].px
    IN  CASE hits # {}              -> [status |-> "SL_HIT", exit |-> stop]
          [] hits = {} /\ n \in late /\ ~open -> [status |-> "EOD_EXIT", exit |-> last]
          [] OTHER                  -> [status |-> "OPEN", exit |-> 0]

\* What the verification did with a leg is its fate on the tape: the first row
\* from the entry to the square-off at or above the stop closes it there,
\* otherwise the square-off at the last price; a leg sold after the square-off
\* stays open (market_replay.py:537-588).
LegsFollowTape ==
    pc \in {"row", "load", "finish", "done"} =>
        \A o \in Options : desk.legs[o].status # "NONE" =>
            LET leg == desk.legs[o] IN [status |-> leg.status, exit |-> leg.exit] = FateOf(o)

=============================================================================
