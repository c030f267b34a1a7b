----------------------------- MODULE CandleBook -----------------------------
(***************************************************************************)
(* The candles of one instrument as Redis holds them, and the ticks they   *)
(* are made of.  Ticks are numbered in the order of their trades; tick i   *)
(* carries the cumulative volume i.  One parent timeframe stands for the   *)
(* four the code keeps: each is treated alike.                             *)
(*                                                                         *)
(* A candle's prices are represented by the set of ticks they were taken   *)
(* from.  A hash that was only ever updated has no open field.             *)
(***************************************************************************)
EXTENDS Integers, FiniteSets, FiniteSetsExt

CONSTANTS
    NTicks,      \* trades of the instrument
    NMinutes,    \* minutes they fall into
    MinuteOf,    \* the minute of every tick
    Span         \* minutes in a parent candle

Tick   == 1..NTicks
Minute == 0..(NMinutes - 1)
Parent == {m \div Span : m \in Minute}

ASSUME BookAssumption ==
    /\ NTicks \in Nat /\ NMinutes \in Nat /\ Span \in Nat \ {0}
    /\ MinuteOf \in [Tick -> Minute]
    /\ \A i, j \in Tick : i <= j => MinuteOf[i] <= MinuteOf[j]

ParentOf(m)  == m \div Span
TicksOf(m)   == {i \in Tick : MinuteOf[i] = m}
TicksIn(p)   == {i \in Tick : ParentOf(MinuteOf[i]) = p}
MinutesIn(p) == {m \in Minute : ParentOf(m) = p}

Status == {"none", "live", "reconciled"}
Candle == [ticks : SUBSET Tick, vol : Nat, opened : BOOLEAN, status : Status]

Absent == [ticks |-> {}, vol |-> 0, opened |-> FALSE, status |-> "none"]

\* What the broker reports for minute m when the first n ticks have traded.
Reported(m, n) == {i \in TicksOf(m) : i <= n}

VARIABLES
    minutes,   \* md:candle:<symbol>:1m:<ts>
    parents,   \* md:candle:<symbol>:<parent timeframe>:<ts>
    traded,    \* ticks the exchange has traded
    inbox      \* md:reco:trigger messages the reconciler has yet to take

redis == <<minutes, parents>>
=============================================================================
