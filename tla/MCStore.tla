-------------------------------- MODULE MCStore --------------------------------
(* Instance of TradeStore for TLC.  Tasks and orders are interchangeable.  *)
EXTENDS TradeStore, TLC

Symmetry == Permutations(Tasks) \union Permutations(Orders)
=============================================================================
