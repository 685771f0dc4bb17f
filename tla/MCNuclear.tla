------------------------------- MODULE MCNuclear -------------------------------
(* Instance of NuclearController for TLC, with the thresholds of           *)
(* config/constants.py.                                                    *)
EXTENDS Watchdog

MCMarks == {-6, 0, 10}          \* loss protection, calm, combined profit
MCResults == {-400, 1500}       \* one trade that reaches either daily limit
MCRealizedRange == {-400, 0, 1100, 1500}
MCEquities == {10000}
MCLossFloor == -6
=============================================================================
