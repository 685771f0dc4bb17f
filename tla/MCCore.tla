-------------------------------- MODULE MCCore --------------------------------
(* Instance of TradingCore for TLC. *)
EXTENDS TradingCore

MCMarks == {-6, 0}
MCResults == {-400}
MCRealizedRange == {-400, 0}
MCEquities == {10000}
MCLossFloor == -6
MCPositions == 1..MaxId
=============================================================================
