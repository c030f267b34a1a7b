--------------------------- MODULE TriModelEngine ---------------------------
(***************************************************************************)
(* The Python twin of the strategy engine run live:                        *)
(* TriModelPythonEngine (forward_tester/tri_model_python_engine.py) under  *)
(* the loop of run_dual_forward_test.py.                                   *)
(*                                                                         *)
(* The loop looks at Redis about once a second and hands the newest candle *)
(* to on_1m_bar.  A minute whose candle is not the newest at any look is   *)
(* never seen.  on_1m_bar asks Redis for option prices as it goes; when    *)
(* that raises, the loop logs the error, waits, and hands in the newest    *)
(* candle again, which may still be the one that failed half-way.          *)
(*                                                                         *)
(* Prices, order flow, profiles and put-call ratios are the environment.   *)
(***************************************************************************)
EXTENDS PythonPool

CONSTANTS
    Asks, Bids,       \* option prices when buying and when selling
    EntryOpen,        \* 09:20
    PocClose,         \* 10:30, inclusive
    DaltonOpen,       \* 10:15: the initial balance is complete
    DaltonClose,      \* 13:30, inclusive
    Cutoff,           \* 15:00
    SquareOff,        \* 15:20
    LastMinute,       \* bound: the last minute that has a candle
    BoxHold,          \* bars a box position is held at most (45)
    BoxCooldown,      \* minutes without a box entry after a box exit (15)
    MaxTrades,        \* bound: positions opened by one process
    MaxTroubles       \* bound: failures of Redis and restarts together

Poc    == "Model POC V2"
Box    == "Model Spatial Box"
Dalton == "Causal Dalton VA"

ASSUME TriModelAssumption ==
    /\ Models = {Poc, Box, Dalton}
    /\ Asks \subseteq Nat \ {0} /\ Bids \subseteq Nat /\ Bids # {}
    /\ {EntryOpen, PocClose, DaltonOpen, DaltonClose, Cutoff, SquareOff,
        LastMinute, BoxHold, BoxCooldown, MaxTrades, MaxTroubles} \subseteq Nat
    /\ Cutoff <= SquareOff

VARIABLES
    pool,      \* the PythonFIFOPool
    stage,     \* where on_1m_bar is, or "idle" between two looks
    minute,    \* the candle handed in, or the last one that was
    last,      \* last_bar_ts
    pending,   \* m_pending_poc_signal: the side, or NoSignal, and the minute
               \* of the bar that queued it
    box,       \* "none", "watched", or the side it is armed for
    boxExit,   \* m_box_last_exit_minute
    balance,   \* the initial balance: see Measured
    broken,    \* m_was_below_val as "CE", m_was_above_vah as "PE"
    troubles   \* failures and restarts so far

vars == <<pool, stage, minute, last, pending, box, boxExit, balance, broken,
          troubles>>

NoSignal == "none"
LongAgo  == -BoxCooldown
Quiet    == [type |-> NoSignal, bar |-> 0]
Stages   == {"idle", "open", "exits", "poc", "box", "dalton"}
Prices   == [pool.active -> Bids]

TypeOK ==
    /\ pool \in [active : SUBSET pool.active, counter : Nat, profits : Nat,
                 losses : Nat, closed : Int]
    /\ \A p \in pool.active : p \in PythonPosition /\ p.id <= pool.counter
    /\ \A p, q \in pool.active : p.id = q.id => p = q
    /\ stage \in Stages
    /\ minute \in 0..LastMinute /\ last \in 0..minute
    /\ pending \in [type : OptionType \cup {NoSignal}, bar : 0..minute]
    /\ box \in {"none", "watched"} \cup OptionType
    /\ boxExit \in Int
    /\ balance \in {"empty", "measured", "area", "void"}
    /\ broken \subseteq OptionType
    /\ troubles \in 0..MaxTroubles

Init ==
    /\ pool = NewPool /\ stage = "idle"
    /\ minute = 0 /\ last = 0
    /\ pending = Quiet
    /\ box = "none" /\ boxExit = LongAgo
    /\ balance = "empty" /\ broken = {}
    /\ troubles = 0

-----------------------------------------------------------------------------
(* The loop. *)

\* Bars before 10:15 are measured; the first bar from then on locks a value
\* area, or, when no bar was measured, the bounds 0 and 1e9, which no close
\* can be on the far side of.
Measured(m) ==
    IF balance \in {"area", "void"} THEN balance
    ELSE IF m < DaltonOpen THEN "measured"
    ELSE IF balance = "measured" THEN "area" ELSE "void"

\* Mutant: the candle is marked as done before it is handed in.
LookMarks ==
    /\ stage = "idle"
    /\ minute' \in (last + 1)..LastMinute
    /\ minute' >= minute
    /\ stage' = "open" /\ last' = minute'
    /\ balance' = Measured(minute')
    /\ UNCHANGED <<pool, pending, box, boxExit, broken, troubles>>

\* The newest candle is handed in unless it was the last to be finished; one
\* that failed still counts as new.
Look ==
    /\ stage = "idle"
    /\ minute' \in (last + 1)..LastMinute
    /\ minute' >= minute
    /\ stage' = "open"
    /\ balance' = Measured(minute')
    /\ UNCHANGED <<pool, last, pending, box, boxExit, broken, troubles>>

\* on_1m_bar returns.
Finished == stage' = "idle" /\ last' = minute

\* Redis fails: on_1m_bar is left where it is, last_bar_ts as it was.
Fails ==
    /\ troubles < MaxTroubles /\ troubles' = troubles + 1
    /\ stage' = "idle"
    /\ UNCHANGED <<minute, last, balance>>

\* The tester is started again: everything it knew was in the process.
Restart ==
    /\ troubles < MaxTroubles /\ troubles' = troubles + 1
    /\ pool' = NewPool /\ stage' = "idle"
    /\ last' = 0 /\ pending' = Quiet
    /\ box' = "none" /\ boxExit' = LongAgo
    /\ balance' = "empty" /\ broken' = {}
    /\ UNCHANGED minute

-----------------------------------------------------------------------------
(* execute_pending_poc_signal.  The loop runs over a copy of the list.     *)

\* Mutant: The loop runs over the list it takes positions from, as in C++, and
\* so skips the one after each it closes.
ReversedInPlace ==
    {p \in pool.active : p.model = Poc /\ p.type = Other(pending.type)
        /\ \A q \in pool.active : q.type = p.type => q.id >= p.id}

Reversed == {p \in pool.active : p.model = Poc /\ p.type = Other(pending.type)}

ExecutePending ==
    /\ stage = "open" /\ stage' = "exits"
    /\ pending' = Quiet
    /\ IF pending.type = NoSignal THEN pool' = pool
       ELSE \E bid \in Prices, strike \in Strikes, ask \in Asks :
              pool' = EvaluateAndAllocate(
                          Close(pool, Reversed, bid),
                          [model |-> Poc, type |-> pending.type,
                           strike |-> strike, ask |-> ask], bid)
    /\ pool'.counter <= MaxTrades
    /\ UNCHANGED <<minute, last, box, boxExit, balance, broken, troubles>>

\* A price cannot be read: the signal stays queued, and the positions that
\* come before that one in the list are closed.
PendingFails ==
    /\ stage = "open" /\ pending.type # NoSignal
    /\ \E done \in 0..pool.counter, bid \in Prices :
          pool' = Close(pool, {p \in Reversed : p.id <= done}, bid)
    /\ Fails
    /\ UNCHANGED <<pending, box, boxExit, broken>>

-----------------------------------------------------------------------------
(* check_active_exits *)

MustExit(p) ==
    \/ minute >= SquareOff
    \/ p.model = Box /\ p.bars >= BoxHold
    \/ p.model = Dalton /\ minute >= DaltonClose

\* bars_held, capped where nothing distinguishes longer holding.
Older(S) ==
    [pool EXCEPT !.active =
        (@ \ S) \cup {[p EXCEPT !.bars = Min({@ + 1, BoxHold})] : p \in S}]

\* The positions judged exit or stay as their rules say; a POC position that
\* has not may bank its first lot, and is then left alone for the bar.
Judged(held, judged) ==
    \E exits \in SUBSET judged, banks \in SUBSET judged, bid \in [held.active -> Bids] :
        /\ {p \in judged : MustExit(p)} \subseteq exits
        /\ exits \cap banks = {}
        /\ \A p \in banks : p.model = Poc /\ ~p.t1
        /\ pool' = Close(Bank(held, banks, bid), exits, bid)
        /\ boxExit' = IF \E p \in exits : p.model = Box THEN minute ELSE boxExit

CheckExits ==
    /\ stage = "exits"
    /\ LET held == Older(pool.active) IN Judged(held, held.active)
    /\ IF minute >= Cutoff THEN Finished ELSE stage' = "poc" /\ last' = last
    /\ UNCHANGED <<minute, pending, box, balance, broken, troubles>>

\* A price cannot be read while the positions are refreshed or judged.
ExitsFail ==
    /\ stage = "exits" /\ pool.active # {}
    /\ \E done \in 0..pool.counter - 1 :
       LET reached(P) == {p \in P : p.id <= done} IN
         \/ pool' = Older(reached(pool.active)) /\ UNCHANGED boxExit
         \/ LET held == Older(pool.active) IN Judged(held, reached(held.active))
    /\ Fails
    /\ UNCHANGED <<pending, box, broken>>

-----------------------------------------------------------------------------
(* The models. *)

\* A signal replaces the one still queued.
EvaluatePoc ==
    /\ stage = "poc" /\ stage' = "box"
    /\ \/ UNCHANGED pending
       \/ /\ minute \in EntryOpen..PocClose
          /\ pending' \in [type : OptionType, bar : {minute}]
    /\ UNCHANGED <<pool, minute, last, box, boxExit, balance, broken, troubles>>

Buys(model, type) ==
    /\ \E strike \in Strikes, ask \in Asks, bid \in Prices :
          pool' = EvaluateAndAllocate(pool, [model |-> model, type |-> type,
                                             strike |-> strike, ask |-> ask], bid)
    /\ pool'.counter <= MaxTrades

\* The box while no box position is held: it is anchored at the first bar,
\* then armed, reset or left by every bar.
BoxAfterBar ==
    IF minute < EntryOpen THEN {box}
    ELSE IF box = "none" THEN {"watched"}
    ELSE IF HasPosition(pool, Box) THEN {box}
    ELSE {"watched", "CE", "PE"}

BoxMayEnter(side) ==
    /\ minute >= EntryOpen /\ side \in OptionType
    /\ box # "none" /\ ~HasPosition(pool, Box)
    /\ minute - boxExit >= BoxCooldown

EvaluateBox ==
    /\ stage = "box" /\ stage' = "dalton"
    /\ \E side \in BoxAfterBar :
         \/ box' = side /\ pool' = pool
         \/ /\ BoxMayEnter(side)
            /\ Buys(Box, side)
            /\ box' = IF pool'.counter > pool.counter THEN "watched" ELSE side
    /\ UNCHANGED <<minute, last, pending, boxExit, balance, broken, troubles>>

\* The chain cannot be read when a breakout asks for a strike.
BoxFails ==
    /\ stage = "box"
    /\ \E side \in BoxAfterBar : BoxMayEnter(side) /\ box' = side
    /\ Fails
    /\ UNCHANGED <<pool, pending, boxExit, broken>>

\* A bar in the window breaks the area on one side, on both or on neither.
BrokenAfterBar ==
    IF minute \in DaltonOpen..DaltonClose /\ ~HasPosition(pool, Dalton)
    THEN {broken \cup B : B \in SUBSET OptionType}
    ELSE {broken}

\* A close back inside the area, on the side it was broken, may buy.
DaltonMayEnter(sides, type) ==
    /\ minute \in DaltonOpen..DaltonClose /\ ~HasPosition(pool, Dalton)
    /\ balance = "area" /\ type \in sides

EvaluateDalton ==
    /\ stage = "dalton" /\ Finished
    /\ \E sides \in BrokenAfterBar :
         \/ broken' = sides /\ pool' = pool
         \/ \E type \in OptionType :
              /\ DaltonMayEnter(sides, type)
              /\ Buys(Dalton, type)
              /\ broken' = IF pool'.counter > pool.counter THEN sides \ {type}
                           ELSE sides
    /\ UNCHANGED <<minute, pending, box, boxExit, balance, troubles>>

\* The chain cannot be read for the put-call ratio or the strike.
DaltonFails ==
    /\ stage = "dalton"
    /\ \E sides \in BrokenAfterBar, type \in OptionType :
          DaltonMayEnter(sides, type) /\ broken' = sides
    /\ Fails
    /\ UNCHANGED <<pool, pending, box, boxExit>>

-----------------------------------------------------------------------------
Next ==
    \/ Look \/ Restart
    \/ ExecutePending \/ PendingFails
    \/ CheckExits \/ ExitsFail
    \/ EvaluatePoc
    \/ EvaluateBox \/ BoxFails
    \/ EvaluateDalton \/ DaltonFails

Spec == Init /\ [][Next]_vars

-----------------------------------------------------------------------------
\* The account seen without the fields the C++ pool derives.
AsCpp ==
    [pool EXCEPT !.active =
        {[id |-> p.id, model |-> p.model, type |-> p.type, strike |-> p.strike,
          lots |-> p.lots, entry |-> p.entry, t1 |-> p.t1,
          banked |-> p.banked, bars |-> p.bars] : p \in @}]

Account == INSTANCE CapitalAccount WITH pool <- AsCpp

\* "Exact replica of C++ FIFOPool" (tri_model_python_engine.py:73): every step of
\* this engine, the failed ones included, does to the account what the C++ pool
\* would do, with the margins and lots that are adjusted by hand (lines 189-238).
ReplicaOfCpp == Account!AccountSpec

\* When the queued signal has been executed the POC model holds nothing on the
\* other side (lines 760-770), whether or not the signal was let in, and also
\* when an earlier attempt closed only some of it.
ReversalCompletes ==
    [][stage = "open" /\ stage' = "exits" /\ pending.type # NoSignal =>
         \A p \in pool'.active : p.model = Poc => p.type = pending.type]_vars

\* When a candle at or after 15:20 has been finished nothing is held, although
\* the queued signal is executed before the exits and a failed attempt may
\* have closed only part of the book (lines 550-554, and the retry of
\* run_dual_forward_test.py:335-374).
SquaredOff == stage = "idle" /\ last >= SquareOff => pool.active = {}

=============================================================================
