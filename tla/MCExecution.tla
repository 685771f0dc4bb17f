----------------------------- MODULE MCExecution -----------------------------
(* Instance of OrderExecution for TLC: two orders and a close.             *)
EXTENDS OrderExecution
=============================================================================
