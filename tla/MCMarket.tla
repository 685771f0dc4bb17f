------------------------------- MODULE MCMarket -------------------------------
(* One instrument: ticks of two prices, late ones and ones after a silence. *)
EXTENDS MarketData

TwoQuotes == {[price |-> 1, volume |-> 1], [price |-> 2, volume |-> 0]}
Steps == {-1, 0, 1, 5}
Sizes == [M1 |-> 2, M3 |-> 2, M5 |-> 2]
=============================================================================
