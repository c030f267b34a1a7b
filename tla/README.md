# Verification of ULLTR

TLA+ models, TLC runs and TLAPS proofs for the ULLTR market-data and trading
platform. Paths below are relative to the root of the repository. Definitions
keep the names of the source where TLA+ allows it; `PROJECT.json` maps every
definition to the lines it stands for.

## 1. The system

One host runs a C++ collector, a Redis server and several Python processes.
They meet in Redis, in a directory of tick segments and in ClickHouse.

| Component | Source | State | Operations | Correct when |
|---|---|---|---|---|
| Tick WAL writer | `collector/src/tick_wal_writer.hpp` | open segment, stream buffer, tick count, disk flag | `init`, `write_tick`, `rotate_if_needed`, `check_disk_space`, `close` | an accepted tick reaches a segment; a closed segment never changes |
| Tick streamer | `clickhouse_streamer.py` | read position, row buffer, watermark file | `stream_from_wal`, `flush_buffer`, `save_watermark`, purge, quota | a tick on disk reaches ClickHouse; repeats only after a fault; crash-safe watermark |
| End-of-day cleanup | `scripts/eod_cleanup.sh` | none | deletes segments and watermark | does not confuse a running streamer |
| Feed and watchdog | `collector/src/main.cpp` (`run`, `watchdog_worker`) | four atomics shared by two threads | connect, read, reconnect; poll, cut | no open connection is unwatched; silence ends in a reconnect |
| FIFOPool | `collector/src/fifo_pool.cpp` | positions, day's profits and losses | allocate, flip, bank, close, restore | caps, balanced books, own capital |
| StrategyEngine | `collector/src/strategy_engine.cpp` | queued signal, cooldown | `on_1m_bar`, `on_tick`, exits, three models | one direction, one position per model, flat at the close |
| CandleManager | `collector/src/candle_manager.cpp` | active candles, last volumes | `process_tick_candle`, `init_active_candles` | a candle holds its own ticks |
| Reconciler | `reconciler.py` | worker jobs, subscription | boot scan, take, compare, heal, recompute parents | an announced minute becomes official and stays so |
| Stock depth collector | `stock_depth_collector.py` | row buffer, spill files | receive, flush, drain, spill | no row vanishes; repeats have a cause |
| Tri-model engine | `forward_tester/tri_model_python_engine.py`, `run_dual_forward_test.py` | a Python copy of the pool, queued signal, last candle seen | the live loop, `on_1m_bar` with three models | does to the account what the C++ pool does, also when a bar is run twice |
| Model 07 | `forward_tester/models/model_07.py`, `run_model_07.py` | the strangle held, windows used, three CSV ledgers | per-bar breach, roll, entry, report; session save | each window sold once; nothing held past its window; the ledgers agree |
| Strategy 6 engine | `forward_tester/run.py`, `engine.py`, `models/strategy_6.py` | legs in memory, trades CSV, daily flags | refresh, entry with retries, stops, square-off, save, read-back | no leg is forgotten or doubled by a restart; every open leg gets closed |
| Raw input logger | `forward_tester/raw_logger.py` | row buffer, Parquet writer | `log`, `flush`, `close` | every message is in the file, the buffer, or a counted drop |
| Replay engines | `market_replay_engine.py`, `scripts/market_replay.py` | slice, open bars, Redis pipeline, verification's legs | seed, load, aggregate, execute, broadcast; enter, stop, square off | Redis shows the bars of the tape; each row is fed once |
| Daily manager | `expiry_manager.py`, `get_nifty_options.py`, `scripts/update_instruments.py` | Redis keys of the day, symbols file, collector process | setup, reopening, rollover, history copy, restart of the collector | current contracts at every open; one collector |
| Health check, recovery | `health_check.py`, `recover_services.py` | alarms in memory | restart a service that fell; rebuild chain and collector | a service comes back; no second collector |
| Microstructure engine, order gateway, dashboards, API, login, deployment, tools | see `PROJECT.json` | numeric, unused or read-only | | not modelled |

How they interact:

- The collector appends ticks to segments; the streamer tails them. Nothing but
  file names and file lengths is shared: no lock, no end marker.
- The collector writes candles to Redis hashes from memory and publishes
  `md:reco:trigger` when a minute closes; the reconciler rewrites the same
  hashes from the broker's answer. No transaction spans a read and a write.
- The collector's tick thread runs candles and strategies in turn. The only
  other thread that matters is the watchdog.
- The expiry manager ends the collector with `pkill -9` and starts it again;
  the recovery script may launch one as well; `health_check.py` restarts the
  other services; `eod_cleanup.sh` runs from a timer. They share no lock, only
  Redis keys, files and the process table.
- The forward testers read candles and quotes from Redis at their own pace and
  keep their trades in CSV files that they rewrite in place. A replay writes the
  same keys from a recorded day, in place of the collector.

What is hard here: processes that die between two steps of a protocol written
for one process, files seen half written, inserts that raise although they were
applied, stamps and pointers tested in one step and used in another, messages
on a channel that keeps nothing, and in-memory state that outlives what another
process corrected; loops that run the same bar twice after an error, triggers
guarded by keys that are set after the work, and files rewritten in place.
`PROJECT.json` lists these hazards, each at its line.

## 2. Modules

| Module | Models |
|---|---|
| `WalDirectory` | the shared directory: segments, their half lines, free space, the ledger of ticks lost to a named cause |
| `TickWalWriter` | the collector's writer; one action per outcome of `write_tick`, age, start, stop, kill |
| `WalStreamer` | `stream_from_wal`, one action per stretch between points where another process can come in |
| `TickPipeline` | both composed, with faults and the pipeline's properties |
| `TickPipelineProofs` | which segment the writer has open; sealed segments; no tick forgotten, by the running streamer or a restart; none stored twice without a fault; the open segments stay |
| `FeedWatchdog` | reader and watchdog threads, one action per atomic access |
| `FifoPool` | the pool as a value, its operations as operators |
| `CapitalAccount` | the abstract specification of an account: one signal let in or refused, or held positions judged, and nothing else |
| `StrategyEngine`, `StrategyEngineProofs` | the trading day of the tick thread; its invariants, with the amounts; that it implements `CapitalAccount` |
| `InductionTheorems` | induction over numbers and finite sets, and what a sum over a finite set is, for the proofs |
| `PythonPool`, `TriModelEngine`, `TriModelEngineProofs` | the Python pool as a value, and the Python engine under its live loop; its invariants, and that it implements the account |
| `CandleBook` | the hashes in Redis and the ticks they are made of |
| `CandleManager`, `Reconciler` | the two processes that write them, one action per Redis access |
| `CandleHealing` | both composed, and their properties |
| `DepthSpill` | buffer, flush, spill and drain of the depth collector |
| `CollectorProofs` | the invariants of the feed with its watchdog and of the depth collector |
| `Model07`, `TradeLedger`, `Model07Replay` | the model of one day, a CSV ledger, and the replay process that feeds the one and saves into three of the other |
| `RawInputLogger`, `ForwardEngine` | the Parquet log as a value; the live loop of Strategy 6, whose steps append to it |
| `ForwardTesterProofs` | the invariants of Model 07, of its ledgers, of the Strategy 6 engine and of the raw log |
| `ReplayCandles`, `MarketReplay` | the two candle aggregators as values; the three replay programs over one Redis |
| `CandleProofs` | the invariants of collector and reconciler, and those of the replay |
| `DailyManager`, `Operations`, `OperationsProofs` | the manager's loop; the manager beside power cycles, recovery and monitor; how many collectors run, and on which contracts |
| `MC...` | fault budgets, tick layouts, bars, recordings and calendars of the runs |

Who composes whom: `TickPipeline` composes `TickWalWriter` and `WalStreamer` over
`WalDirectory`; `CandleHealing` composes `CandleManager` and `Reconciler` over
`CandleBook`; `Operations` composes `DailyManager` with recovery and monitor;
`StrategyEngine` and `TriModelEngine` each implement `CapitalAccount`, the first
on the same pool, the second through the mapping `AsCpp` (`INSTANCE ... WITH`).

Every module states its type invariant, `TypeOK` (`EngineTypeOK` in
`ForwardEngine`, `FeedTypeOK` in `FeedWatchdog` and `ReplayTypeOK` in
`MarketReplay`, whose names differ where `Model07Replay`, `DepthSpill` and
`CandleHealing` have the same ones, so that one module can prove things about both). `CollectorProofs` proves the feed's for all constants; the others hold on the runs below when they are added to
the configuration, and are left out of it: the runs are kept for what a reader
of the code would doubt.

A definition whose comment starts with "Mutant" is a plausible error in the
definition after it. It is used by no model; it shows that the property named
with it in `PROJECT.json` notices the error.

### Abstractions

- **Ticks and lines.** A tick is a number, a line in a segment is two halves,
  so that a line can be seen cut. `CutAnywhere = TRUE` lets the C++ stream buffer
  be written out in the middle of a line, which the C++ library permits. Segment
  names are numbers: the time tag in the name never repeats and never decreases.
  (`high_resolution_clock` is `system_clock` on the compiler used; a clock set
  back would break the order.) 
- **Losses.** `lost` and `exposed` are history variables. A tick enters `lost`
  when one of the causes that the code does not guard against takes it; the
  properties then say that nothing *else* is ever missing. After the end-of-day
  cleanup the ledger is generous: it also names ticks the streamer may still
  have in hand.
- **ClickHouse** either stores an insert, or the insert raises, before or after
  storing. The loss of rows after an acknowledged `async_insert` is not modelled.
  Nor is an `ofstream` that fails at a full disk; the disk check is.
- **Watchdog.** Time is an age counted up to `Limit`. The reader destroys its
  websocket before it clears the shared pointer, so a `close` through that
  pointer may hit nothing or the next connection: both are allowed. Exchange
  hours are the environment.
- **Strategy.** Which signal a model gives is left open: any side, strike and
  price in any bar of its window; stops and targets may be hit at any
  evaluation. Money is in points per lot. Minutes only grow, and silent ones
  have no bar. A loop in `execute_pending_poc_signal` erases from the vector it
  walks: positions are skipped, and the cell read past the end may look empty or
  like the old last position; both are modelled. A restart begins with an empty
  pool, as the collector never writes the key it restores from. The disabled
  TPO model, published events and `reset_day` are left out.
- **Candles.** A candle's prices are the set of ticks they were taken from, tick
  `i` carries the cumulative volume `i`. One parent timeframe stands for four.
  The timeframes live in an `unordered_map`, so minute and parent come in either
  order. A request to the broker is one step that ends with the ticks traded so
  far or gives up. Two jobs for one minute and origin are one.
- **Depth.** A flush awaits nothing, so no other task runs inside it, but the
  process may die at any of its steps. A few rows are followed, all others are
  one filler. Two spill files never share a millisecond.
- **Tri-model engine.** As for the C++ strategies, the signal is left open. The
  loop looks at Redis once a second: any minute may be skipped, and the newest
  candle is handed in as soon as it exists. An option price read may raise at
  any position; the loop then hands in the newest candle again.
- **Model 07.** A strangle is its centre, a bar three levels relative to it;
  premiums only decide whether a strangle is quoted. Any minute may be missing.
  One session runs at a time. The live mode is not modelled: `run_model07_live`
  ends before its loop (section 5).
- **Strategy 6.** A leg is open, stopped, closed or absent; regime, strikes and
  prices decide only which legs open and when a stop is hit. Minutes of the day
  are those at which `run.py` does something. An exception may rise at every
  call that can raise; a kill at every step, inside a save as well.
- **Raw log.** Messages are counted, not kept. The file is readable only after
  the footer is written.
- **Replay.** Prices and volumes are small numbers, time is a minute, the
  pipeline holds commands and executes them one by one. Redis starts empty or
  with the quotes and bars of an earlier replay. Greeks, strikes and the
  scorecard are left out, of `market_data_client.py` three reads are kept.
- **Operations.** The day is cut into the stretches between the manager's
  trigger times; the manager looks at least once in each long stretch
  (`Passes`), as a loop that sleeps 60 s does, and in the minute of 9:14 it may
  or may not. Contracts are the day they expire. One manager and one recovery
  run at a time. The `today` record is history: it names what went wrong since
  the machine was switched on. What the copied trade history holds, a file of
  another project that nothing here reads, is left out.

## 3. Runs

Every run finishes within a few minutes on two cores. Faults are bounded per
kind, and in the pipeline also by how many kinds meet (`MaxTogether`).

| Run | Properties | Bounds, and why they are enough |
|---|---|---|
| `pipeline_faults` | `CrashSafe`, `NothingSkipped`, `BoundedDuplication`, `SealedSegments` | 3 ticks, 3 segments of 2 lines, batches of 2, one kill of each process, one failed and one applied-but-raised insert, and one end-of-day cleanup, any two of these in one behaviour, lines cut anywhere: reaches rotation under a reader, replay from a stale watermark, a retry across a restart, and either process after the wipe |
| `pipeline_delivery` | `OpenSegmentsKept`, `Delivery` | fair; 3 ticks of one line per segment, so that the third takes the directory over its cap and the quota evicts on a healthy disk too; one change of free space, one streamer kill and one failed insert, any two of them together. The cleanup is left to `pipeline_faults`: delivery after a wipe is not checked, that nothing but what the wipe took is missing is |
| `feed_watched` | `NeverUnwatched`, `ToldReconnects`, `GapIsBroken` | fair; silence limit 3, 3 attempts: enough for a whole reconnect inside one watchdog pass |
| `trading_day` | `OneDirection`, `WithinLimits`, `BooksBalance`, `SquaredOff`, `KeepsAccount` | 8 minutes that cover every window (entry, POC until 2, Dalton 2–3, cutoff 4, square-off 7), 3 trades, 2 asks and 2 bids, capital for one dear or several cheap lots, any restart |
| `candle_faults` | `WorksOnIndexed` | 4 ticks over 3 minutes, parents of 2; one tick lost, one delayed, one restart of each process, one request without an answer |
| `candle_healing` | `OwnTicksOnly`, `HealedStaysOfficial`, `AnnouncedIsHealed` | fair; 5 ticks, one lost, one restart of the collector; no delayed tick, no restart of the reconciler: with either, see section 5 |
| `depth_spill` | `RowsAccounted`, `DuplicatesHaveCause`, `RowsArrive` | fair; 3 followed rows, batches of 2, 2 files per drain, 3 outages, one each of the other faults, so that spill files outnumber a drain |
| `tranche_days` | `WindowsOnce`, `HeldWithinWindow`, `ReportIsFinal`, `LedgersAgree` | 3 windows of 2 minutes and an afternoon, 5 shapes of a bar (quiet, neighbour, a spike through either or both barriers), 3 dates of which one is excluded, 2 sessions, gaps of any length, a kill at any step |
| `forward_day` | `RecordKept`, `OneEntryOpen`, `RawAccounted`, `LegsSettle` | fair; one primary and one secondary leg, 2 starts, 2 entries, 2 exceptions, batches of one message: a restart in every stage, and a second failure during the recovery from the first |
| `python_twin` | `SquaredOff`, `ReversalCompletes`, `ReplicaOfCpp` | 6 minutes with every window, 3 trades, one failed read at any place, any skipped minutes, any restart |
| `replay_day` | `EveryRowOnce`, `BarsAreTape`, `EntryOnTape`, `LegsFollowTape` | every ordered tape of 3 rows of an index and an option over minutes 0–3, with zero prices and rising, falling and absent volume; slices of one minute, batches of 2, timeframes 1 and 2, Redis empty or used: rows on every edge of a slice, of a bar and of the verification's times |
| `working_days` | `OneCollector`, `ReadyAtOpen`, `SubscribesCurrent`, `ServiceBack` | fair monitor; two trading days on which one index and then the other expires and a holiday after them, 2 troubles (a failing script, a death, a recovery run) at any steps, one monitored service |

Every property of a run has a mutant of a modelled definition that breaks it.

Where a cfg says `CHECK_DEADLOCK FALSE` the model really stops: the bounded
feed has ended, or the reader has given up after its last attempt.

### Fairness

- *Pipeline*: weak fairness of the streamer's loop and of its flush timer. The
  loop has no wait without a time-out and `health_check.py:156-163` starts the
  process again. Nothing is assumed of the feed or the collector.
- *Watchdog*: both threads run and time passes. The network is free.
- *Candles*: each worker, each message and the reconciler's start-up get their
  turn (ten pool threads, `get_message` loop). The collector and the feed are
  free, so the run never relies on a further tick.
- *Depth*: the feeds go on with other rows, the timer of `flush_loop` fires, and
  a flush that began continues. Faults are bounded, hence an outage ends.
- *Strategy 6*: the clock advances and the loop of `run.py` takes its turns; it
  catches what is raised inside it (`run.py`, the `except` of the loop). Nothing
  starts the process again.
- *Operations*: the monitor's two checks of a service, which its loop makes
  every ten seconds while it runs. Manager, recovery and clock are free. The
  history `story` tells a restart that failed, or a death before the service was
  seen up, from an alarm that brought nothing back: `ServiceBack` excuses only
  the first two.

## 4. Proofs

All are for every value of the constants.

- **`TickPipelineProofs`.** `SegmentsOrdered` is the inductive invariant: the
  writer has the newest segment open or none, and no listed segment is newer
  than the last it opened. `SealedSegments`, an action property, follows: a
  step of the writer appends to its open segment or to a new one, the streamer
  only deletes. It is what makes "a newer name exists" a sound end-of-segment
  test. `RestartLosesNothing` and `NoTickSkipped` prove `CrashSafe` and
  `NothingSkipped`. Neither is inductive: a restart needs the first, a watermark
  that moves needs the second, so `Inv` holds both. It adds that every listed
  segment is at or after the one read except between a rotation and its purge,
  that an unlisted position has only later segments after it, that offsets lie
  inside their files, that halves of a line stand next to each other in the file
  and in the stream buffer behind it, and that the buffer is empty when a
  rotation moves on. `Ahead` is `TicksAhead` without its state, so that one lemma
  says what appending, a new segment, a deletion, a read or a rotation does to
  what lies in front of any reader. Sizes play no part: these need only that
  quota and purge spare the segment they are given.
  `StoredOnceButForFaults` proves `BoundedDuplication` from a second invariant on
  top of `Inv`. `Unique`: a tick stands in what the writer wrote, files and stream
  buffer together, as the two halves of one line. `Unread` is what a reader at its
  position has yet to see, in segments that are still listed or not; it only
  shrinks while the streamer lives, is disjoint from the row buffer, and a tick in
  either has been stored at most once per fault.
  `OpenOnesStay` proves `OpenSegmentsKept`, where the sizes do count: the writer's
  count of lines bounds what a segment holds, stream buffer included, so the newest
  segment and the one spared fit under the low mark, and a quota that goes oldest
  first stops before the newest. The segment chosen for a rotation stays listed too.
- **The feed** (`CollectorProofs`). `NeverUnwatched` is not inductive. The invariant adds
  `Reachable`: from the first store of the reader on, the connection is reached
  through the shared pointer or the pointer the watchdog took. `FeedTypeOK` needs
  the count of attempts to stay below its limit until the reader gives up.
  `ToldIsAnswered` proves `ToldReconnects`: a trigger raised while the reader
  reads is still raised when the reader leaves `read`. Its invariant follows the
  history flag `told` through each store of the reader.
- **`StrategyEngineProofs`.** `OneDirection`, `OneAtATime` and `SquaredOff` from
  one invariant, `Aligned`, that looks at no amount: positions have one side, and
  box and Dalton hold one each. The lemmas say what each pool operator does to
  the set of positions. That the reversal loop skips positions does not matter:
  the allocation after it finds an opposing position and refuses.
- **Amounts** (`StrategyEngineProofs`). `StaysWithinLimits` and `BooksAlwaysBalance`
  prove `WithinLimits` and `BooksBalance`. The first is not inductive: a lot that is
  sold lets go of what it cost but may lose that and the friction on top. The
  invariant charges the friction to come to the open positions, and adds that what
  they are charged never exceeds what `MaxStrikeLots` lots would pay for every
  position ever opened; a signal is let in only as far as the room under the strike
  cap and the free capital go. The second follows each trade: a lot that is banked
  moves its result into the totals and into the position, and closing books only
  the rest. Both are sums over the positions held, and a step takes positions out,
  puts one in, or replaces some by the same trades with one lot less.
- **`InductionTheorems`.** Induction over the numbers and over the subsets of a
  finite set, stated about a set of good numbers or subsets in place of a predicate,
  so that no operator is a parameter; from it, that the sum over a finite set is a
  number, splits over disjoint parts, grows by what is put in, does not change under
  a renaming, and moves by as much as each element does.
- **The account** (`StrategyEngineProofs`). `ImplementsAccount`: `StrategyEngine!Spec` implies
  `CapitalAccount!AccountSpec`, one step lemma per action. The numbering
  invariant (two positions never share an id, ids are at most the counter) is
  needed because a step that banks and then closes must name the same positions
  before and after.
- **Candles** (`CandleProofs`). On a feed that delays no tick (`MaxDelayed = 0`),
  `OwnTicksOnly`. The invariant says that nothing in memory, in the index, in a
  message or in a job is ahead of the ticks to come; without it a restarted
  collector could load a later interval and write it under an earlier key.
  `OnlyIndexed` proves `WorksOnIndexed` on any feed: what a restart loads, a
  message names or a job took up is opened, and nothing closes a minute again.
  `HealedIsOfficial` proves `HealedStaysOfficial`: a minute that is announced is
  over, so neither the active candle nor a candle a restart loads is that minute
  any more, and every job that writes it writes the official answer. It assumes
  `MaxDelayed = 0` and `MaxBoots = 0`: a late tick rewrites a closed candle, and the
  boot scan of a restarted reconciler may put the partial answer for a forming
  minute over the healed one (section 5). The run has `MaxBoots = 0` as well.
- **The replay** (`CandleProofs`). Four theorems for every recording, time window,
  slice length, size of the pipeline, list of timeframes and remains in Redis, along
  three invariants, each on top of the one before.
  `EveryRowIsFedOnce` rests on `RowsInv`: what is fed and what is still to be fed is
  the part of the recording queried so far, and the slice after it extends it
  (`NextSlice`); so nothing is fed twice on an edge, whatever its width.
  `RedisShowsTheTape` rests on `PipeInv`, which says what the commands *in* the
  pipeline are: applied to what Redis holds they make the bars and quotes of all the
  rows fed (`Brings`), the messages heard and those to come are the rows fed
  (`Hearing`), and a trigger comes only behind the bar it announces, which no command
  behind it writes (`Announced`). The aggregators hold the open bars of the rows fed
  (`AggOf`, `RunningMinute`). The lemmas below say what one row does to a bar defined
  by the whole recording: it opens it, moves it, closes it, or is of another bar; the
  rows have the order of time, so a bar that is closed is never opened again.
  `TheEntryIsOnTheTape` and `LegsMeetTheirFate` rest on `DeskInv`: a leg is what the
  rows traded so far make of it (`Fate`), including the price it would be squared off
  at, and the strategy is about to enter or to square off only with an empty pipeline
  (`Ready`). That is why the prices and the minutes the entry reads in Redis are those
  of the tape. The proofs assume that the window does not end before it opens, that
  recordings are in the order of time and that no timeframe is listed twice.
- **The depth collector** (`CollectorProofs`). `RowsAccounted`, with: a file is removed only after its
  rows are stored, and an idle collector has nothing in hand. `DuplicatesCounted`
  counts the copies of a row in the table, the files and the memory, and needs
  in addition that every copy is where the step of the flush says it is.
- **`TriModelEngineProofs`.** `SquaredOff` and `ReversalCompletes` of the Python
  twin. The invariant follows the side of the positions and the stage of the
  bar: only a bar before the cutoff reaches the models that buy or queue, a bar
  past its first stage leaves no signal, and a bar that failed is not counted as
  finished, so the retry finds what is left. It assumes that the cutoff is not
  after the square-off.
- **The replica** (`TriModelEngineProofs`). `ReplicatesCpp`: `TriModelEngine!Spec`
  implies `CapitalAccount!AccountSpec` of the pool seen without margins and remaining
  lots. The invariant, `Booked`, says that every position has the margin and the lots
  the C++ pool would work out (`Slips`), and that no two have the same id. One lemma
  per operator then says that it commutes with that view: `CloseReplica`,
  `BankReplica`, `OlderReplica`, `BoughtReplica`, `AllocateReplica`; totals over
  positions are equal because the view renames them one to one. A failed attempt is
  judging with nothing to bank or to close. It assumes that there is a bid.
- **`OperationsProofs`.** `OneCollector` is not inductive: whoever is about to
  launch has already looked, or killed. The invariant counts the launches to
  come with the collectors that run; a launch to come found none unless manager
  and recovery met.
  `ReadyEveryMorning` and `SubscribesFresh` prove `ReadyAtOpen` and
  `SubscribesCurrent` for every calendar of expiries and holidays, from one
  invariant of the day (`DayInv`). By day it rests on the order of the setup's steps:
  its key is set last, so a key that says "open", and every stage of a job past its
  choice, stands for files of today; and a loop that has gone past the setup, or the
  part of the day behind it, has the key. By night it rests on the loop that began
  after 15:45: it read the contracts it still finds in the file, or newer ones, so
  if it finds no rollover due they are tomorrow's. One day hands the next nothing but
  the file. The collectors follow: whoever launches reads a list that was merged
  after the choice, unless the recovery script wrote it.
- **`ForwardTesterProofs`.** Model 07: `WindowsOnce`, `HeldWithinWindow` and
  `ReportIsFinal`. What joins the three sections of a bar is the span of the
  tranche: its windows follow one another, the first began at its entry and the
  last ends at its exit, so that the entry of a bar finds its own window marked
  when the roll-over before it has taken it. `LedgersAgree` follows the stage of the
  save: the date is suspect from the first file to the last, and the files already
  rewritten have the rows of the day. Strategy 6: `RecordKept` and
  `OneEntryOpen` need each other. A process that cleared its memory may enter
  again, and only the file then tells the next one what it would have known: the
  invariant adds that the file never holds open legs of two entries, and that a
  process that is down has neither a save outstanding nor a cleared memory.
  `RawAccounted`: the log of a running process is balanced and has no footer yet,
  and without a writer it has no row, so opening the file truncates nothing of
  the same process.

Assumptions are the named `ASSUME`s of the modules (positive batch sizes, a
quota that holds two full segments, a cutoff before the square-off, at least one
bid and one underlying, ticks numbered in time order, a filler that is not a
followed row, a recording in the order of time, different timeframes); TLC
evaluates each on its runs.

Only model-checked is liveness (`Delivery`, `GapIsBroken`, `AnnouncedIsHealed`,
`RowsArrive`, `LegsSettle`, `ServiceBack`), which is out of the prover's reach.
Every other property of a run is stated by a theorem.

## 5. What the models show against the code and its documents

The models contain the behaviour below; the properties are stated so that it
has its named place.

Pipeline:

- The watermark is saved after a flush also when the insert failed
  (`clickhouse_streamer.py:501`), against "Put back rows into buffer to prevent data loss" (`:258`):
  after a restart the rows that were only in memory are gone. `CrashSafe` names
  the failed insert as the cause.
- A segment can be deleted with a tail never read: written between the empty
  `readline` and the `listdir` (`:401`, DEC-011). A line that becomes visible in
  two pieces is dropped (`:419`, DEC-010). On a low disk the quota unlinks the
  segment the collector writes (`:337`, `tests/test_tick_pipeline_wal.py:234`). All
  three go to `lost`.
- After a rotation meets a full disk at a count that is no multiple of 10,000
  the writer never looks at the disk again (`tick_wal_writer.hpp:111`).
- `pkill -9` loses what the stream buffer holds (`expiry_manager.py:183`).

Feed and watchdog:

- A trigger between `main.cpp:502` and `:503` is wiped; the connection just cut
  then waits in the back-off, against the message at `:521`. `ToldReconnects`
  therefore speaks of triggers raised while the reader reads.
- The watchdog can cut a connection that has just spoken (`:1237`).
  Authorization, connect and handshakes have no timeout and are not watched
  (`:370`).

Strategies and account:

- The POC reversal skips the position after the one it erases
  (`strategy_engine.cpp:1061`); the Python engine walks a copy and closes them all.
- A signal queued before a silent stretch is executed past the entry cutoff
  (`strategy_engine.cpp:257`); `SquaredOff` holds all the same.
- A one-lot position whose lot was banked is valued as one open lot
  (`strategy_types.hpp:71`); the books do not use that value.
- `restore_state` reads a key that only scripts run by hand write
  (`fifo_pool.cpp:277`): a restart of the collector begins with an empty account.
- The Python loop judges a bar about a second after it opens, once, and skips
  minutes it was not looking (`run_dual_forward_test.py:332`). A bar that failed is
  run again and executes the signal it queued itself, on itself
  (`tri_model_python_engine.py:745`). Started after 10:15 the engine locks a value
  area of 0 to 1e9 (`:471`), and the Dalton model is silent for the day.

Candles and reconciler:

- A parent candle stays wrong although every minute in it was reconciled
  (`reconciler.py:329`, against `README.md:133`).
- A late tick overwrites the hash of a closed candle with the active one
  (`candle_manager.cpp:576`). This is why `OwnTicksOnly` assumes that no tick is
  delayed.
- A minute that closes between the reconciler's boot scan and its subscription
  is never reconciled (`reconciler.py:388`); the boot scan also asks for the
  forming minute and may write the partial answer over the official candle
  (`:320`). This is why `candle_healing` does not restart the reconciler. The wait
  before a request counts from the start of the candle, not its end (`:338`).

Depth collector:

- A torn spill file is never removed and blocks all later ones
  (`stock_depth_collector.py:195`): the exception in `RowsArrive`.

Model 07:

- `run_model07_live` (`run_model_07.py:495-543`) ends before its loop; the loop
  stands, unreachable, inside `resolve_front_expiry` (`:545-796`).
- A tranche that cannot be priced at its exit halts the model in the middle of
  the bar (`model_07.py:274`); the entry of the same bar replaces it, unsettled.
  The day's report says that all positions were closed.
- A kill between or inside the three file rewrites leaves the ledgers in
  disagreement, or loses other dates (`run_model_07.py:259`): `suspect` in
  `LedgersAgree`.

Strategy 6 engine and raw log:

- The trades file has no symbol column: legs read back get a made-up symbol, no
  price is found for it, and their stops are never hit, against "to survive
  daemon restarts" (`engine.py:61`). Only the square-off closes them.
- `init_trading_day` clears the positions before it may raise; an entry without
  an expiry clears them again and does not read the file back
  (memory and file then differ: `forgotten` in `RecordKept`).
- An entry that finds no strikes is never repeated with other ones, and warns
  every 5 ms.
- Opening the Parquet file again truncates it (`raw_logger.py:61`), although the
  branch is written as an append.
- `models/strategy_6.py` uses fixed deltas where `core/strategy_6_core.py`, "shared
  identically", derives them.

Replay:

- "Clear stale candles and ZSETs for clean replay" (`market_replay_engine.py:353`)
  clears the index only; option bars of an earlier replay stay. The script clears
  no bars at all: `Remains` in `BarsAreTape`.
- The verification can enter an option that has no row yet at the quote an
  earlier replay left (`EntryOnTape`); retried after 15:00, an entry is never
  squared off and is missing from the scorecard (`LegsFollowTape`). A row of price
  0 sets the current price, and the exit, to 0.
- The daily closes the script seeds include the day's own
  (`toDate(timestamp) <= trade_date`): the regime looks ahead.
- The bar of the minute before the entry exists only once a row of the next
  minute came. `run_stream_replay` is never called.

Operations:

- Expiry reached and stale date share one key (`expiry_manager.py:415`): a
  catch-up in the morning stops the rollover of the evening, against
  `README.md:174` (`caughtUp` in `ReadyAtOpen`).
- An underlying that a choice leaves out is 0 in the file, and the manager looks at
  the expiries that are there only (`expiry_manager.py:249-261`). The next morning's
  setup chooses it anew, but there is none on a holiday: the machine is switched
  off once more without it (the exception in `ReadyAtOpen`).
- An options finder that finds nothing saves an empty file, and the manager then
  waits for ever (`:263-267`).
- The recovery script overwrites the collector's list without the equities
  (`recover_services.py:157-164`), and with bad timing starts a second collector
  (`overlap` in `OneCollector`). "Expiry manager will auto-relaunch" a dead
  collector: it does not.
- A machine booted after 15:30 marks the day closed and kills the collector.
- A service whose one restart fails, or that dies again before the next check
  saw it up, stays down until the market closes
  (`health_check.py:159`); its docstring names the reconciler, which
  `check_processes` does not look at.
- `clear_premarket_logs` uses an undefined name; nothing calls it.

## 6. Not modelled

The tick streamer's Redis snapshot loop (`run_streamer`): it runs only until the
first segment exists and keeps no watermark. The order gateway
(`broker_gateway.py`): both forward testers fill on paper, only a benchmark and a
test import it; an order whose first POST timed out is posted again through the
second client without a key that would make it one order (`:158`). The numeric
kernels (microstructure, profiles, Greeks), which only choose among the signals
that the models leave open. Protobuf decoding, the API, dashboards, Telegram
daemons, login, deployment, research scripts. Two managers at once, started by
systemd and by the recovery script. Each is listed with its reason in
`PROJECT.json`.

Worth doing next, were the code to change: an abstract specification of tick
delivery (accepted, then stored or lost to a named cause) that `TickPipeline`
implements; and the live loop of Model 07 once it can be reached.
