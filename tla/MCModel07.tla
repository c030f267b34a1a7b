----------------------------- MODULE MCModel07 ------------------------------
(***************************************************************************)
(* Bars for the model-checking runs of Model07Replay: quiet minutes at two *)
(* neighbouring centres, a spike through either barrier, one through both. *)
(***************************************************************************)
EXTENDS Model07Replay

Level(h, l, c) == [high |-> h, low |-> l, close |-> c]

TwoCentres == {0, 1}

FewBars == {Level(0, 0, 0), Level(1, 1, 1), Level(3, 0, 0), Level(1, -2, 1), Level(4, -3, 0)}
=============================================================================
