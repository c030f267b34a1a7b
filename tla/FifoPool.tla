------------------------------ MODULE FifoPool ------------------------------
(***************************************************************************)
(* The capital pool of the forward tester (collector/src/fifo_pool.cpp):   *)
(* one account that every model of the strategy engine buys options from.  *)
(* It holds the open positions and the day's accounting, sizes a signal to *)
(* the cash that is left, refuses one that runs against another model's    *)
(* position, and turns exits into realized profit and loss.                *)
(*                                                                         *)
(* Money is counted in option points per lot: the lot size of 65 and the   *)
(* rounding to paise are scaled away.  A pool is a value; the strategy     *)
(* engine owns it and applies one operator after another within a step.    *)
(***************************************************************************)
EXTENDS Integers, FiniteSets, FiniteSetsExt, Functions

CONSTANTS
    Models,          \* the trading models, named by model_name
    Strikes,         \* strike prices
    StartingCapital, \* starting_capital
    LotCostDivisor,  \* lot_cost_divisor: capital that earns one lot
    MaxStrikeLots,   \* max_strike_lots
    MinCash,         \* the floor below which nothing is bought
    Friction         \* points lost on every lot that is sold

ASSUME PoolAssumption ==
    /\ StartingCapital \in Nat
    /\ MinCash \in Nat
    /\ Friction \in Nat
    /\ LotCostDivisor \in Nat \ {0}
    /\ MaxStrikeLots \in Nat \ {0}

OptionType == {"CE", "PE"}
Opposite(type) == IF type = "CE" THEN "PE" ELSE "CE"

\* A position without the fields only the displays use.  lots is what was
\* bought; t1 and banked are t1_hit and lot1_realized_pnl.
Position ==
    [id : Nat, model : Models, type : OptionType, strike : Strikes,
     lots : 1..MaxStrikeLots, entry : Nat, t1 : BOOLEAN, banked : Int,
     bars : Nat]

Signal ==
    [model : Models, type : OptionType, strike : Strikes, ask : Nat]

\* closed is the sum of realized_pnl over closed_positions.
Pool ==
    [active : SUBSET Position, counter : Nat, profits : Nat, losses : Nat,
     closed : Int]

EmptyPool ==
    [active |-> {}, counter |-> 0, profits |-> 0, losses |-> 0, closed |-> 0]

-----------------------------------------------------------------------------
(* Capacity and valuation. *)

\* remaining_lots: the lots not yet sold.
Remaining(p) == IF p.t1 THEN p.lots - 1 ELSE p.lots

LockedMargin(pool) ==
    SumFunction([p \in pool.active |-> Remaining(p) * p.entry])

FreeCash(pool) ==
    Max({0, StartingCapital - pool.losses - LockedMargin(pool)})

StrikeLots(pool, strike, type) ==
    SumFunction([p \in {p \in pool.active : p.strike = strike /\ p.type = type} |-> p.lots])

HasPosition(pool, model) == \E p \in pool.active : p.model = model

Opposing(pool, type) == {p \in pool.active : p.type = Opposite(type)}

-----------------------------------------------------------------------------
(* Exits.  Profit and loss are kept apart: a loss reduces the cash of the  *)
(* day at once, a profit does not come back until the next day.            *)

Pnl(p, bid) == (bid - p.entry - Friction) * Remaining(p)

\* Mutant: The banked lot is booked again with the rest of the position.
CloseAllBooksTwice(pool, S, bid) ==
    LET total(p) == p.banked + Pnl(p, bid[p]) IN
    [pool EXCEPT
        !.active  = @ \ S,
        !.profits = @ + SumFunction([p \in S |-> Max({0, total(p)})]),
        !.losses  = @ + SumFunction([p \in S |-> Max({0, -total(p)})]),
        !.closed  = @ + SumFunction([p \in S |-> total(p)])]

\* Close every position of S, p at bid[p].  What a banked lot earned is part
\* of the position's result but was booked when it was banked.
CloseAll(pool, S, bid) ==
    [pool EXCEPT
        !.active  = @ \ S,
        !.profits = @ + SumFunction([p \in S |-> Max({0, Pnl(p, bid[p])})]),
        !.losses  = @ + SumFunction([p \in S |-> Max({0, -Pnl(p, bid[p])})]),
        !.closed  = @ + SumFunction([p \in S |-> p.banked + Pnl(p, bid[p])])]

\* bank_lot1 on every position of S: one lot is sold, the rest runs on.
BankAll(pool, S, bid) ==
    LET gain(p) == bid[p] - p.entry - Friction IN
    [pool EXCEPT
        !.active  = (@ \ S) \cup
                    {[p EXCEPT !.t1 = TRUE, !.banked = gain(p)] : p \in S},
        !.profits = @ + SumFunction([p \in S |-> Max({0, gain(p)})]),
        !.losses  = @ + SumFunction([p \in S |-> Max({0, -gain(p)})])]

-----------------------------------------------------------------------------
(* evaluate_and_allocate *)

\* A model that turns round closes its own positions first, unless some other
\* model holds the opposite side.  They stay closed if the signal is refused.
Flipped(pool, sig, bid) ==
    LET against == Opposing(pool, sig.type) IN
    IF \A p \in against : p.model = sig.model
    THEN CloseAll(pool, against, bid)
    ELSE pool

\* Mutant: Own positions are closed, those of other models are not looked at.
RefusedWithoutConflict(pool, sig) ==
    \/ StrikeLots(pool, sig.strike, sig.type) >= MaxStrikeLots
    \/ FreeCash(pool) < sig.ask
    \/ FreeCash(pool) < MinCash

Refused(pool, sig) ==
    \/ Opposing(pool, sig.type) # {}
    \/ StrikeLots(pool, sig.strike, sig.type) >= MaxStrikeLots
    \/ FreeCash(pool) < sig.ask
    \/ FreeCash(pool) < MinCash

\* Mutant: Sizing that forgets what a lot costs.
LotsPastCash(pool, sig) ==
    Max({1, Min({FreeCash(pool) \div LotCostDivisor,
                 MaxStrikeLots - StrikeLots(pool, sig.strike, sig.type)})})

\* The least of what the capital, the price and the strike's cap allow, and
\* never nothing: one lot is affordable here.
Lots(pool, sig) ==
    LET cash == FreeCash(pool) IN
    Max({1, Min({cash \div LotCostDivisor,
                 cash \div sig.ask,
                 MaxStrikeLots - StrikeLots(pool, sig.strike, sig.type)})})

Opened(pool, sig) ==
    [pool EXCEPT
        !.counter = @ + 1,
        !.active  = @ \cup
            {[id |-> pool.counter + 1, model |-> sig.model, type |-> sig.type,
              strike |-> sig.strike, lots |-> Lots(pool, sig),
              entry |-> sig.ask, t1 |-> FALSE, banked |-> 0,
              bars |-> 0]}]

Allocate(pool, sig, bid) ==
    LET flipped == Flipped(pool, sig, bid) IN
    IF Refused(flipped, sig) THEN flipped ELSE Opened(flipped, sig)
=============================================================================
