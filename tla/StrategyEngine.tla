--------------------------- MODULE StrategyEngine ---------------------------
(***************************************************************************)
(* The strategy engine of the collector (collector/src/strategy_engine.cpp)*)
(* driving the capital pool through a trading day.  Everything runs on the *)
(* thread that processes ticks.  The first tick of a new minute closes the *)
(* candle before it: the closed bar goes through on_1m_bar (the queued POC *)
(* signal, the exits, then the three models) and only then does the tick   *)
(* itself reach on_tick.  Minutes with no tick have no bar: the bar that   *)
(* follows a silent feed may be hours after the one before.                *)
(*                                                                         *)
(* Prices, order flow and profiles are the environment: a model may signal *)
(* either side at any bar of its window, and a stop or a target may be hit *)
(* at any evaluation.  The disabled TPO POC model is left out.             *)
(***************************************************************************)
EXTENDS CapitalAccount

CONSTANTS
    EntryOpen,        \* 09:20
    PocClose,         \* 10:30, inclusive
    DaltonOpen,       \* 10:15
    DaltonClose,      \* 13:30, inclusive
    Cutoff,           \* 15:00
    SquareOff,        \* 15:20
    LastMinute,       \* bound: the last minute that has a tick
    BoxCooldown,      \* minutes without a box entry after a box exit (15)
    MaxTrades         \* bound: the positions opened by one process

Poc    == "Model POC V2"
Box    == "Model Spatial Box"
Dalton == "Causal Dalton VA"

ASSUME EngineAssumption ==
    /\ Models = {Poc, Box, Dalton}
    /\ Asks \subseteq Nat \ {0} /\ Bids \subseteq Nat
    /\ EntryOpen \in Nat /\ PocClose \in Nat /\ DaltonOpen \in Nat
    /\ DaltonClose \in Nat /\ Cutoff \in Nat /\ SquareOff \in Nat
    /\ LastMinute \in Nat /\ BoxHold \in Nat /\ BoxCooldown \in Nat
    /\ MaxTrades \in Nat

VARIABLES
    step,     \* what the tick thread does next
    minute,   \* the minute of the active 1m candle
    now,      \* the minute of the tick being processed
    pending,  \* m_pending_poc_signal: the side to buy, or NoSignal
    boxExit   \* m_box_last_exit_minute

vars == <<pool, step, minute, now, pending, boxExit>>

NoSignal == "none"
LongAgo  == -BoxCooldown
Step     == {"idle", "pending", "exits", "poc", "box", "dalton", "tick"}

Prices == [pool.active -> Bids]

-----------------------------------------------------------------------------
Init ==
    /\ pool = EmptyPool
    /\ step = "idle"
    /\ minute = 0
    /\ now = 0
    /\ pending = NoSignal
    /\ boxExit = LongAgo

\* A tick of the same minute: no bar closes.
SameMinute ==
    /\ step = "idle"
    /\ step' = "tick"
    /\ UNCHANGED <<pool, minute, now, pending, boxExit>>

\* The first tick of a later minute closes the active candle.
NewMinute ==
    /\ step = "idle"
    /\ now' \in (minute + 1)..LastMinute
    /\ step' = "pending"
    /\ UNCHANGED <<pool, minute, pending, boxExit>>

-----------------------------------------------------------------------------
(* execute_pending_poc_signal *)

\* The loop erases from the vector it iterates over, so the position after a
\* closed one slides into its place and is skipped.
VisitedIds(against) ==
    LET ids == {p.id : p \in pool.active}
        hit[i \in 0..pool.counter] ==
            IF i = 0 THEN FALSE
            ELSE IF i \in ids
                 THEN (\E p \in against : p.id = i) /\ ~hit[i - 1]
                 ELSE hit[i - 1]
    IN  {i \in ids : hit[i]}

\* After an erase the loop still runs to the old end and reads the vacated
\* cell there, which may look empty or like the position that was last.
ReversalExits ==
    LET against == {p \in Opposing(pool, pending) : p.model = Poc}
        visited == {p \in against : p.id \in VisitedIds(against)}
        last    == {p \in against : \A q \in pool.active : q.id <= p.id}
    IN  IF visited = {} THEN {{}} ELSE {visited, visited \cup last}

ExecutePending ==
    /\ step = "pending"
    /\ step' = "exits"
    /\ pending' = NoSignal
    /\ IF pending = NoSignal
       THEN pool' = pool
       ELSE \E bid \in Prices, out \in ReversalExits,
               strike \in Strikes, ask \in Asks :
              pool' = Allocate(CloseAll(pool, out, bid),
                               [model |-> Poc, type |-> pending,
                                strike |-> strike, ask |-> ask], bid)
    /\ pool'.counter <= MaxTrades
    /\ UNCHANGED <<minute, now, boxExit>>

-----------------------------------------------------------------------------
(* check_active_exits *)

\* Mutant: A POC position may bank at every evaluation.
VerdictsBankAgain(p, t) ==
    IF \/ t >= SquareOff
       \/ p.model = Box /\ p.bars >= BoxHold
       \/ p.model = Dalton /\ t >= DaltonClose
    THEN {"exit"}
    ELSE {"hold", "exit"} \cup (IF p.model = Poc THEN {"bank"} ELSE {})

\* Mutant: only the branch of the POC model looks at the close of the day.
VerdictsPocSquareOff(p, t) ==
    IF \/ t >= SquareOff /\ p.model = Poc
       \/ p.model = Box /\ p.bars >= BoxHold
       \/ p.model = Dalton /\ t >= DaltonClose
    THEN {"exit"}
    ELSE {"hold", "exit"} \cup
         (IF p.model = Poc /\ ~p.t1 THEN {"bank"} ELSE {})

\* What may happen to position p at time t.  A POC position banks its first
\* lot once and is then left alone until the next evaluation.
Verdicts(p, t) ==
    IF \/ t >= SquareOff
       \/ p.model = Box /\ p.bars >= BoxHold
       \/ p.model = Dalton /\ t >= DaltonClose
    THEN {"exit"}
    ELSE {"hold", "exit"} \cup
         (IF p.model = Poc /\ ~p.t1 THEN {"bank"} ELSE {})

\* Every position is judged at time t and the pool follows the verdicts.
CheckExits(held, t) ==
    \E bid \in [held.active -> Bids] :
    \E verdict \in [held.active -> {"hold", "bank", "exit"}] :
      LET exits == {p \in held.active : verdict[p] = "exit"}
          banks == {p \in held.active : verdict[p] = "bank"}
      IN  /\ \A p \in held.active : verdict[p] \in Verdicts(p, t)
          /\ pool' = CloseAll(BankAll(held, banks, bid), exits, bid)
          /\ boxExit' = IF \E p \in exits : p.model = Box THEN t ELSE boxExit

\* bars_held counts bars, capped where nothing distinguishes them any more.
BarHeld ==
    [pool EXCEPT !.active =
        {[p EXCEPT !.bars = Min({@ + 1, BoxHold})] : p \in pool.active}]

ExitsOnBar ==
    /\ step = "exits"
    /\ CheckExits(BarHeld, minute)
    /\ step' = IF minute >= Cutoff THEN "tick" ELSE "poc"
    /\ UNCHANGED <<minute, now, pending>>

\* on_tick; afterwards the tick's minute is the active candle's.
ExitsOnTick ==
    /\ step = "tick"
    /\ CheckExits(pool, now)
    /\ step' = "idle"
    /\ minute' = now
    /\ UNCHANGED <<now, pending>>

-----------------------------------------------------------------------------
(* The models.  m_last_evaluated_minute never stops a POC evaluation here: *)
(* every bar is closed once.                                               *)

EvaluatePoc ==
    /\ step = "poc"
    /\ step' = "box"
    /\ IF minute \in EntryOpen..PocClose
       THEN pending' \in OptionType \cup {pending}
       ELSE pending' = pending
    /\ UNCHANGED <<pool, minute, now, boxExit>>

\* A model that signals buys at the close of the bar; the bids only matter to
\* a flip.
BuyAtClose(model) ==
    \E type \in OptionType, strike \in Strikes, ask \in Asks, bid \in Prices :
      pool' = Allocate(pool, [model |-> model, type |-> type, strike |-> strike,
                              ask |-> ask], bid)

EvaluateBox ==
    /\ step = "box"
    /\ step' = "dalton"
    /\ \/ pool' = pool
       \/ /\ minute >= EntryOpen
          /\ ~HasPosition(pool, Box)
          /\ minute - boxExit >= BoxCooldown
          /\ BuyAtClose(Box)
          /\ pool'.counter <= MaxTrades
    /\ UNCHANGED <<minute, now, pending, boxExit>>

EvaluateDalton ==
    /\ step = "dalton"
    /\ step' = "tick"
    /\ \/ pool' = pool
       \/ /\ minute \in DaltonOpen..DaltonClose
          /\ ~HasPosition(pool, Dalton)
          /\ BuyAtClose(Dalton)
          /\ pool'.counter <= MaxTrades
    /\ UNCHANGED <<minute, now, pending, boxExit>>

-----------------------------------------------------------------------------
\* The collector is restarted.  restore_state reads a key that the collector
\* never writes, so the pool starts empty; the candle survives in Redis.
Restart ==
    /\ pool' = EmptyPool
    /\ step' = "idle"
    /\ now' = minute
    /\ pending' = NoSignal
    /\ boxExit' = LongAgo
    /\ UNCHANGED minute

Next ==
    \/ SameMinute \/ NewMinute
    \/ ExecutePending
    \/ ExitsOnBar \/ ExitsOnTick
    \/ EvaluatePoc \/ EvaluateBox \/ EvaluateDalton
    \/ Restart

Spec == Init /\ [][Next]_vars

-----------------------------------------------------------------------------
\* Types of the pool and of the engine's own state; position ids are unique.
TypeOK ==
    /\ pool \in [active : SUBSET pool.active, counter : Nat, profits : Nat,
                 losses : Nat, closed : Int]
    /\ \A p \in pool.active : p \in Position /\ p.id <= pool.counter
    /\ \A p, q \in pool.active : p.id = q.id => p = q
    /\ step \in Step
    /\ minute \in 0..LastMinute /\ now \in minute..LastMinute
    /\ pending \in OptionType \cup {NoSignal}
    /\ boxExit \in Int

\* The account is never long calls and puts at the same time, whichever models
\* hold them (the directional conflict filter, fifo_pool.cpp:66-101), also
\* when the queued reversal closes only some of its positions.
OneDirection ==
    \A p, q \in pool.active : p.type = q.type


\* The two running totals agree with the trades: a lot that was banked is
\* booked once, not again when the rest of its position is closed.
BooksBalance ==
    pool.profits - pool.losses =
        pool.closed + SumFunction([p \in pool.active |-> p.banked])

\* However signals follow one another, an order that passes one limit of the
\* sizing breaks no other (fifo_pool.cpp:103-147): no strike carries more than its
\* cap, banked lots included, and what is locked and what has been lost never
\* exceed the capital of the day, save for the friction paid on lots sold.
WithinLimits ==
    /\ \A strike \in Strikes, type \in OptionType :
           StrikeLots(pool, strike, type) <= MaxStrikeLots
    /\ LockedMargin(pool) + pool.losses
           <= StartingCapital + Friction * MaxStrikeLots * pool.counter

\* The box and Dalton models hold one position at a time; what the box's exit
\* rules and the cooldown know is about that position.
OneAtATime ==
    \A p, q \in pool.active :
        p.model = q.model /\ p.model # Poc => p = q

\* Once a tick at or after 15:20 has been processed nothing is held, whatever
\* signal was still queued when the feed came back.
SquaredOff ==
    step = "idle" /\ minute >= SquareOff => pool.active = {}

\* Whatever the tick thread does, queued, skipped and squared off, it does to
\* the account by letting in one signal or by judging what is held: the
\* collector implements CapitalAccount.
KeepsAccount == AccountSpec
=============================================================================
