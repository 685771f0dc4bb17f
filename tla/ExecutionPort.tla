----------------------------- MODULE ExecutionPort -----------------------------
(***************************************************************************)
(* What on_snapshot may rely on when it awaits the commander: every call   *)
(* returns; while trading live a call that succeeds has handed its order   *)
(* to the pipe; a call hands over at most Orders[c] orders; in paper mode  *)
(* none. Not promised: that a call that failed has left no order behind,   *)
(* nor that none arrives after it returned.                                *)
(***************************************************************************)
EXTENDS Integers

CONSTANTS
  Calls,    \* calls of open_position and close_position
  Orders    \* for each call, how many orders it may hand over

VARIABLES live, status, orders

port == <<live, status, orders>>

Ended == {"done", "failed"}

PortInit ==
  /\ live \in BOOLEAN
  /\ status = [c \in Calls |-> "idle"]
  /\ orders = [c \in Calls |-> 0]

Begin(c) ==
  /\ status[c] = "idle"
  /\ status' = [status EXCEPT ![c] = "pending"]
  /\ UNCHANGED <<live, orders>>

HandOver(c) ==
  /\ live
  /\ status[c] # "idle"
  /\ orders[c] < Orders[c]
  /\ orders' = [orders EXCEPT ![c] = @ + 1]
  /\ UNCHANGED <<live, status>>

Return(c, outcome) ==
  /\ status[c] = "pending"
  /\ outcome = "done" /\ live => orders[c] > 0
  /\ status' = [status EXCEPT ![c] = outcome]
  /\ UNCHANGED <<live, orders>>

PortNext ==
  \E c \in Calls :
    \/ Begin(c)
    \/ HandOver(c)
    \/ \E outcome \in Ended : Return(c, outcome)

(* While calls are pending one of them returns: calls are finitely many    *)
(* and end once, so every call that has begun returns.                     *)
PortFairness == WF_port(\E c \in Calls, outcome \in Ended : Return(c, outcome))

PortSpec == PortInit /\ [][PortNext]_port /\ PortFairness
=============================================================================
