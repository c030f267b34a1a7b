----------------------------- MODULE PythonPool -----------------------------
(***************************************************************************)
(* PythonFIFOPool of forward_tester/tri_model_python_engine.py, which its  *)
(* docstring calls an exact replica of the C++ FIFOPool (module FifoPool). *)
(* It keeps by hand what the other derives: every position carries the     *)
(* margin it locks and the lots it still has, and both are adjusted when a *)
(* lot is banked.                                                          *)
(*                                                                         *)
(* Money is counted as in FifoPool, in option points per lot.  The list of *)
(* positions is a set: it is only appended to, so the ids give its order.  *)
(***************************************************************************)
EXTENDS Integers, FiniteSets, FiniteSetsExt, Functions

CONSTANTS
    Models, Strikes, StartingCapital, LotCostDivisor, MaxStrikeLots, MinCash,
    Friction        \* as in FifoPool

ASSUME PythonPoolAssumption ==
    /\ StartingCapital \in Nat /\ MinCash \in Nat /\ Friction \in Nat
    /\ LotCostDivisor \in Nat \ {0} /\ MaxStrikeLots \in Nat \ {0}

OptionType == {"CE", "PE"}
Other(type) == IF type = "CE" THEN "PE" ELSE "CE"

PythonPosition ==
    [id : Nat, model : Models, type : OptionType, strike : Strikes,
     lots : 1..MaxStrikeLots, remaining : 0..MaxStrikeLots, entry : Nat,
     margin : Nat, t1 : BOOLEAN, banked : Int, bars : Nat]

\* closed is the sum of realized_pnl over closed_positions.
NewPool ==
    [active |-> {}, counter |-> 0, profits |-> 0, losses |-> 0, closed |-> 0]

Gain(n) == Max({0, n})

LockedMargin(pool) == SumFunction([p \in pool.active |-> p.margin])

FreeCash(pool) == Gain(StartingCapital - LockedMargin(pool) - pool.losses)
HasPosition(pool, model) == \E p \in pool.active : p.model = model

-----------------------------------------------------------------------------
\* close_position, for every position of S at its bid.
Close(pool, S, bid) ==
    LET rest(p) == (bid[p] - p.entry - Friction) * p.remaining IN
    [pool EXCEPT
        !.active  = @ \ S,
        !.profits = @ + SumFunction([p \in S |-> Gain(rest(p))]),
        !.losses  = @ + SumFunction([p \in S |-> Gain(-rest(p))]),
        !.closed  = @ + SumFunction([p \in S |-> rest(p) + p.banked])]

\* Mutant: The banked lot's margin stays locked.
BankedLotStillLocked(p, gain) ==
    [p EXCEPT !.t1 = TRUE, !.banked = gain, !.remaining = Gain(@ - 1)]

BankedLot(p, gain) ==
    [p EXCEPT !.t1 = TRUE, !.banked = gain, !.margin = @ - p.entry,
              !.remaining = Gain(@ - 1)]

\* bank_lot1, for every position of S; one that has banked is left alone.
Bank(pool, S, bid) ==
    LET fresh   == {p \in S : ~p.t1}
        gain(p) == bid[p] - p.entry - Friction IN
    [pool EXCEPT
        !.active  = (@ \ fresh) \cup {BankedLot(p, gain(p)) : p \in fresh},
        !.profits = @ + SumFunction([p \in fresh |-> Gain(gain(p))]),
        !.losses  = @ + SumFunction([p \in fresh |-> Gain(-gain(p))])]

-----------------------------------------------------------------------------
(* evaluate_and_allocate: the conflict filter and flip, the strike cap, the *)
(* sizing, and the new position.                                           *)

Against(pool, sig) == {p \in pool.active : p.type = Other(sig.type)}
Blocked(pool, sig) == \E p \in Against(pool, sig) : p.model # sig.model

StrikeLots(pool, sig) ==
    LET there == {p \in pool.active : p.strike = sig.strike /\ p.type = sig.type}
    IN  SumFunction([p \in there |-> p.lots])

Affordable(pool, sig) ==
    /\ StrikeLots(pool, sig) < MaxStrikeLots
    /\ FreeCash(pool) >= Max({sig.ask, MinCash})

Sized(pool, sig) ==
    LET lots == Min({FreeCash(pool) \div LotCostDivisor,
                     FreeCash(pool) \div sig.ask,
                     MaxStrikeLots - StrikeLots(pool, sig)})
    IN  IF lots > 0 THEN lots ELSE 1

Bought(pool, sig) ==
    LET lots == Sized(pool, sig) IN
    [pool EXCEPT
        !.counter = @ + 1,
        !.active  = @ \cup
            {[id |-> pool.counter + 1, model |-> sig.model, type |-> sig.type,
              strike |-> sig.strike, lots |-> lots, remaining |-> lots,
              entry |-> sig.ask, margin |-> lots * sig.ask, t1 |-> FALSE,
              banked |-> 0, bars |-> 0]}]

EvaluateAndAllocate(pool, sig, bid) ==
    IF Blocked(pool, sig) THEN pool
    ELSE LET flipped == Close(pool, Against(pool, sig), bid) IN
         IF Affordable(flipped, sig) THEN Bought(flipped, sig) ELSE flipped
=============================================================================
