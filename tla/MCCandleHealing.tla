-------------------------- MODULE MCCandleHealing --------------------------
(***************************************************************************)
(* Small instances of CandleHealing: two ticks in each of the first two    *)
(* minutes, which make up the first parent candle, and one in the third,   *)
(* whose arrival closes both.                                              *)
(***************************************************************************)
EXTENDS CandleHealing

TwoTwoOne == <<0, 0, 1, 1, 2>>
TwoOneOne == <<0, 0, 1, 2>>
=============================================================================
