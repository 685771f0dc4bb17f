------------------------------ MODULE MCLifecycle ------------------------------
(* Instance of PositionLifecycle for TLC: a long position of one symbol    *)
(* and a short one of another.                                             *)
EXTENDS PositionLifecycle, TLC

CONSTANTS p1, p2, a, b, NORMAL, BURST

MCPositions == {p1, p2}
MCSymbols == {a, b}
MCSymbolOf == (p1 :> a) @@ (p2 :> b)
MCLongs == {p1}
MCPrices == {0, 3, 5}
MCTrigger == (NORMAL :> 1) @@ (BURST :> 2)
MCTrailFloor == (NORMAL :> 1) @@ (BURST :> 2)
=============================================================================
