--------------------------- MODULE MCCandleHistory ---------------------------
(* Instance of CandleHistory for TLC: prices that rise and fall, a zero       *)
(* volume, instants on and off the grid.                                      *)
EXTENDS CandleHistory

const_Prices == {1, 2, 3}
const_Volumes == {0, 2}
const_Instants == {0, 2, 3, 5}
=============================================================================
