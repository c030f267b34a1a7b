---------------------------- MODULE MCMarketReplay ----------------------------
(***************************************************************************)
(* Recordings for the model-checking run of MarketReplay: every ordered    *)
(* sequence of Rows rows of the index and an option, some of them without  *)
(* a price, the volume of the day rising, falling and absent.              *)
(***************************************************************************)
EXTENDS MarketReplay

CONSTANTS Rows

IndexMoves  == {[px |-> 1, vol |-> 0], [px |-> 2, vol |-> 1], [px |-> 0, vol |-> 0]}
OptionMoves == IndexMoves \cup {[px |-> 1, vol |-> 3]}

AllRows ==
    {[sym |-> s, t |-> t, px |-> m.px, vol |-> m.vol] :
        s \in Cleared, t \in Opening..End, m \in IndexMoves}
      \cup {[sym |-> o, t |-> t, px |-> m.px, vol |-> m.vol] :
        o \in Options, t \in Opening..End, m \in OptionMoves}

Recordings ==
    {tape \in [1..Rows -> AllRows] : \A i, j \in 1..Rows : i < j => tape[i].t <= tape[j].t}

Frames == <<1, 2>>
=============================================================================
