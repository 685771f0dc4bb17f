--------------------------------- MODULE MCDesk ---------------------------------
(* Instance of OperatorDesk for TLC.  The two operators are interchangeable;  *)
(* every limit is two in a window of three units of time.                     *)
EXTENDS OperatorDesk, TLC

TwoEach == [a \in {"NUKE", "PAUSE", "RESUME", "STATUS", "POSITIONS"} |-> 2]
Symmetry == Permutations(Users)
=============================================================================
