----------------------------- MODULE LifecycleProofs -----------------------------
(* Safety of the position lifecycle for any symbols, positions and prices, *)
(* any stop distance, and any trigger and trail floor of the modes.        *)
EXTENDS PositionLifecycle, TLAPS

States == {"IDLE", "OPEN_UNREALIZED", "OPEN_TRAILING"} \union Closed

LifecycleTypes ==
  /\ current_mode \in Modes
  /\ state \in [Positions -> States]
  /\ trail_stop \in [Positions -> Int]
  /\ open_positions \subseteq Positions
  /\ exits \in [Symbols -> SUBSET Positions]
  /\ closing \in [Symbols -> Positions \union {NoPosition}]
  /\ best \in [Positions -> Int]
  /\ stop_seen \in [Positions -> BOOLEAN]
  /\ results \in [Positions -> Seq(Int)]
  /\ exit_price \in [Symbols -> Int]

(* Before its fill a position is in no collection and has seen no stop.    *)
IdleIsFresh ==
  \A p \in Positions : state[p] = "IDLE" => p \notin open_positions /\ ~stop_seen[p]

(* The exits loops hold closed positions only, though the tasks of other   *)
(* symbols tick and remove the same positions while a close is awaited.    *)
ExitsAreClosed ==
  \A s \in Symbols :
    /\ closing[s] # NoPosition => state[closing[s]] \in Closed
    /\ \A p \in exits[s] : state[p] \in Closed

(* A position leaves the registry only when its state machine is closed.   *)
RemovedAreClosed ==
  \A p \in Positions : p \notin open_positions => state[p] \in Closed \union {"IDLE"}

LifecycleInv ==
  /\ LifecycleTypes
  /\ IdleIsFresh
  /\ ExitsAreClosed
  /\ RemovedAreClosed
  /\ StopsHonoured
  /\ TrailKeepsUp
  /\ RecordedOnce

-----------------------------------------------------------------------------
(* Prices seen from a position. *)

(* A better price is a higher one for a long, a lower one for a short.     *)
LEMMA BetterOrder ==
  ASSUME NEW p, NEW x \in Int, NEW y \in Int
  PROVE  Better(p, x, y) <=> IF p \in Longs THEN x > y ELSE x < y
BY DEF Better, Sign

(* What is gained between two prices. *)
LEMMA Gain ==
  ASSUME NEW p, NEW x \in Int, NEW y \in Int
  PROVE  Sign(p) * (x - y) = IF p \in Longs THEN x - y ELSE y - x
BY DEF Sign

(* The stop proposed at a price is its distance behind that price.         *)
LEMMA ProposedBehind ==
  ASSUME NEW p, NEW x \in Int, NEW d \in Int
  PROVE  proposed(p, x, d) = IF p \in Longs THEN x - d ELSE x + d
BY DEF proposed, Sign

(* The distance of a trail is positive and at most MaxDistance.            *)
LEMMA DistanceBounded ==
  ASSUME NEW h \in HalfAtrs, NEW m \in Modes
  PROVE  compute_trail_distance(h, m) \in 1..MaxDistance
BY MoneyAssumption DEF MoneyAssumption, compute_trail_distance

(* update moves the stop in the favourable direction or not at all, and    *)
(* keeps it within the distance of the price.                              *)
LEMMA UpdateRatchets ==
  ASSUME NEW p, NEW x \in Int, NEW d \in Nat, trail_stop[p] \in Int
  PROVE  /\ update(p, x, d) \in Int
         /\ ~Better(p, trail_stop[p], update(p, x, d))
         /\ Sign(p) * (x - update(p, x, d)) <= d
<1>1. proposed(p, x, d) \in Int
  BY ProposedBehind
<1>2. Sign(p) * (x - proposed(p, x, d)) <= d
  <2>1. proposed(p, x, d) = IF p \in Longs THEN x - d ELSE x + d
    BY ProposedBehind
  <2>2. Sign(p) * (x - proposed(p, x, d))
          = IF p \in Longs THEN x - proposed(p, x, d) ELSE proposed(p, x, d) - x
    BY <1>1, Gain
  <2> QED
    BY <2>1, <2>2
<1>3. CASE Better(p, proposed(p, x, d), trail_stop[p])
  <2>1. update(p, x, d) = proposed(p, x, d)
    BY <1>3 DEF update
  <2>2. ~Better(p, trail_stop[p], proposed(p, x, d))
    BY <1>1, <1>3, BetterOrder
  <2> QED
    BY <1>1, <1>2, <2>1, <2>2
<1>4. CASE ~Better(p, proposed(p, x, d), trail_stop[p])
  <2>1. update(p, x, d) = trail_stop[p]
    BY <1>4 DEF update
  <2>2. ~Better(p, trail_stop[p], trail_stop[p])
    BY BetterOrder
  <2>3. Sign(p) * (x - trail_stop[p]) <= d
    <3>1. IF p \in Longs THEN proposed(p, x, d) <= trail_stop[p]
                         ELSE proposed(p, x, d) >= trail_stop[p]
      BY <1>1, <1>4, BetterOrder
    <3>2. proposed(p, x, d) = IF p \in Longs THEN x - d ELSE x + d
      BY ProposedBehind
    <3>3. Sign(p) * (x - trail_stop[p])
            = IF p \in Longs THEN x - trail_stop[p] ELSE trail_stop[p] - x
      BY Gain
    <3> QED
      BY <3>1, <3>2, <3>3
  <2> QED
    BY <2>1, <2>2, <2>3
<1> QED
  BY <1>3, <1>4

-----------------------------------------------------------------------------
(* One tick of one state machine. *)

(* What on_tick leaves of a position, from its state before the tick.      *)
LEMMA TickFacts ==
  ASSUME LifecycleTypes, NEW p \in Positions, NEW snap \in Snapshots,
         NEW r, r = on_tick(p, snap)
  PROVE  /\ r.state \in States /\ r.trail \in Int
         /\ r.exit => r.state \in Closed
         /\ state[p] \in Closed => r.state \in Closed
         /\ state[p] # "IDLE" => r.state # "IDLE"
         /\ r.state \notin Closed => ~_hard_stop_hit(p, snap.mid)
         /\ r.state = "OPEN_TRAILING"
              => /\ state[p] \in {"OPEN_UNREALIZED", "OPEN_TRAILING"}
                 /\ Better(p, snap.mid, r.trail)
                 /\ Sign(p) * (snap.mid - r.trail) <= MaxDistance
         /\ state[p] = "OPEN_TRAILING" => ~Better(p, trail_stop[p], r.trail)
<1> DEFINE dist == compute_trail_distance(snap.half_atr, current_mode)
<1>1. /\ snap.mid \in Int /\ state[p] \in States /\ trail_stop[p] \in Int
      /\ MaxDistance \in Nat
  BY MoneyAssumption DEF MoneyAssumption, Snapshots, LifecycleTypes
<1>2. dist \in 1..MaxDistance
  <2>1. snap.half_atr \in HalfAtrs /\ current_mode \in Modes
    BY DEF Snapshots, LifecycleTypes
  <2> QED
    BY <2>1, DistanceBounded
<1>3. NewTrail(p, snap) =
        IF state[p] = "OPEN_UNREALIZED" /\ _calc_pnl(p, snap.mid) >= Trigger[current_mode]
        THEN proposed(p, snap.mid, dist)
        ELSE IF state[p] = "OPEN_TRAILING" THEN update(p, snap.mid, dist)
        ELSE trail_stop[p]
  BY DEF NewTrail
<1> HIDE DEF dist
<1>4. /\ update(p, snap.mid, dist) \in Int
      /\ ~Better(p, trail_stop[p], update(p, snap.mid, dist))
      /\ Sign(p) * (snap.mid - update(p, snap.mid, dist)) <= MaxDistance
  <2>1. /\ update(p, snap.mid, dist) \in Int
        /\ ~Better(p, trail_stop[p], update(p, snap.mid, dist))
        /\ Sign(p) * (snap.mid - update(p, snap.mid, dist)) <= dist
    BY <1>1, <1>2, UpdateRatchets
  <2>2. Sign(p) * (snap.mid - update(p, snap.mid, dist)) \in Int
    BY <1>1, <2>1, Gain
  <2> QED
    BY <1>1, <1>2, <2>1, <2>2
<1>5. /\ proposed(p, snap.mid, dist) \in Int
      /\ Better(p, snap.mid, proposed(p, snap.mid, dist))
      /\ Sign(p) * (snap.mid - proposed(p, snap.mid, dist)) <= MaxDistance
  <2>1. proposed(p, snap.mid, dist) \in Int
    BY <1>1, <1>2, ProposedBehind
  <2>2. Better(p, snap.mid, proposed(p, snap.mid, dist))
    BY <1>1, <1>2, <2>1, ProposedBehind, BetterOrder
  <2>3. Sign(p) * (snap.mid - proposed(p, snap.mid, dist)) <= MaxDistance
    BY <1>1, <1>2, <2>1, ProposedBehind, Gain
  <2> QED
    BY <2>1, <2>2, <2>3
<1>6. ~Better(p, trail_stop[p], trail_stop[p]) /\ _close(p, snap.mid) \in Closed
  BY <1>1, BetterOrder DEF _close, Closed
<1> DEFINE ends  == p \in snap.cvd \/ _hard_stop_hit(p, snap.mid)
           arms  == /\ state[p] = "OPEN_UNREALIZED"
                    /\ _calc_pnl(p, snap.mid) >= Trigger[current_mode]
           gives == /\ state[p] = "OPEN_TRAILING"
                    /\ \/ is_hit(p, snap.mid, IF ends THEN trail_stop[p] ELSE NewTrail(p, snap))
                       \/ p \in snap.weak
<1>7. /\ r.exit = (ends \/ gives)
      /\ r.trail = IF ends THEN trail_stop[p] ELSE NewTrail(p, snap)
      /\ r.state = IF ends \/ gives THEN _close(p, snap.mid)
                   ELSE IF arms THEN "OPEN_TRAILING" ELSE state[p]
  BY DEF on_tick
<1>8. CASE ends
  BY <1>1, <1>6, <1>7, <1>8 DEF States, Closed
<1>9. CASE ~ends /\ gives
  BY <1>1, <1>3, <1>4, <1>6, <1>7, <1>9 DEF States, Closed
<1>10. CASE ~ends /\ ~gives /\ arms
  BY <1>1, <1>3, <1>5, <1>7, <1>10 DEF States, Closed
<1>11. CASE ~ends /\ ~gives /\ ~arms
  BY <1>1, <1>3, <1>4, <1>7, <1>11 DEF States, Closed, is_hit
<1> QED
  BY <1>8, <1>9, <1>10, <1>11


-----------------------------------------------------------------------------
(* The inductive invariant. *)

(* The lifecycle starts with no position filled and no close awaited.      *)
LEMMA LifecycleInit == Init => LifecycleInv
BY MoneyAssumption
DEF MoneyAssumption, Init, LifecycleInv, LifecycleTypes, IdleIsFresh, ExitsAreClosed,
    RemovedAreClosed, StopsHonoured, TrailKeepsUp, RecordedOnce, States, Closed

(* Where the exits loop stops next, it awaits a close of a position that   *)
(* was left to it, and keeps no other.                                     *)
LEMMA AwaitNextTypes ==
  ASSUME LifecycleTypes, NEW s \in Symbols, NEW left \in SUBSET Positions,
         NEW open, AwaitNext(s, left, open)
  PROVE  /\ exits' \in [Symbols -> SUBSET Positions]
         /\ closing' \in [Symbols -> Positions \union {NoPosition}]
         /\ \A t \in Symbols \ {s} : exits'[t] = exits[t] /\ closing'[t] = closing[t]
         /\ closing'[s] # NoPosition => closing'[s] \in left
         /\ exits'[s] \subseteq left
BY DEF AwaitNext, LifecycleTypes

(* A fill keeps the invariant. *)
LEMMA AddStep ==
  ASSUME LifecycleInv, NEW q \in Positions, add_position(q)
  PROVE  LifecycleInv'
<1> USE DEF LifecycleInv, add_position
<1>1. LifecycleTypes'
  BY DEF LifecycleTypes, States, tasks, history
<1>2. \A p \in Positions : state'[p] = IF p = q THEN "OPEN_UNREALIZED" ELSE state[p]
  BY DEF LifecycleTypes
<1>3. IdleIsFresh'
  BY <1>2 DEF IdleIsFresh, history
<1>4. ExitsAreClosed'
  <2>1. /\ \A s \in Symbols : exits[s] \subseteq Positions
        /\ \A s \in Symbols : closing[s] \in Positions \union {NoPosition}
    BY DEF LifecycleTypes
  <2> QED
    BY <1>2, <2>1 DEF ExitsAreClosed, tasks, Closed
<1>5. RemovedAreClosed'
  BY <1>2 DEF RemovedAreClosed
<1>6. StopsHonoured'
  BY <1>2 DEF StopsHonoured, IdleIsFresh, LifecycleTypes, history
<1>7. TrailKeepsUp'
  BY <1>2 DEF TrailKeepsUp, history
<1>8. RecordedOnce'
  BY <1>2 DEF RecordedOnce
<1> QED
  BY <1>1, <1>3, <1>4, <1>5, <1>6, <1>7, <1>8

(* A tick of every registered position keeps the invariant.                *)
LEMMA TickStep ==
  ASSUME LifecycleInv, NEW s \in Symbols, NEW snap \in Snapshots, process_tick(s, snap)
  PROVE  LifecycleInv'
<1> DEFINE Tick(p) == on_tick(p, snap)
           Leave == {p \in open_positions : Tick(p).exit}
<1> USE DEF LifecycleInv
<1>1. /\ state' = [p \in Positions |->
                     IF p \in open_positions THEN Tick(p).state ELSE state[p]]
      /\ trail_stop' = [p \in Positions |->
                     IF p \in open_positions THEN Tick(p).trail ELSE trail_stop[p]]
  BY DEF process_tick
<1>2. /\ best' = [p \in Positions |->
           IF p \notin open_positions THEN best[p]
           ELSE IF Tick(p).state # "OPEN_TRAILING" THEN Entry
           ELSE IF state[p] = "OPEN_TRAILING" /\ ~Better(p, snap.mid, best[p]) THEN best[p]
           ELSE snap.mid]
      /\ stop_seen' = [p \in Positions |->
           stop_seen[p] \/ (p \in open_positions /\ _hard_stop_hit(p, snap.mid))]
  BY DEF process_tick
<1>3. /\ AwaitNext(s, Leave, open_positions)
      /\ exit_price' = [exit_price EXCEPT ![s] = IF Leave = {} THEN 0 ELSE snap.mid]
      /\ UNCHANGED <<current_mode, open_positions, results>>
  <2> DEFINE after == [p \in open_positions |-> Tick(p)]
  <2>1. {p \in open_positions : after[p].exit} = Leave
    OBVIOUS
  <2> HIDE DEF Tick, Leave
  <2> QED
    BY <2>1 DEF process_tick, Tick
<1>4. \A p \in Positions :
        /\ Tick(p).state \in States /\ Tick(p).trail \in Int
        /\ Tick(p).exit => Tick(p).state \in Closed
        /\ state[p] \in Closed => Tick(p).state \in Closed
        /\ state[p] # "IDLE" => Tick(p).state # "IDLE"
        /\ Tick(p).state \notin Closed => ~_hard_stop_hit(p, snap.mid)
        /\ Tick(p).state = "OPEN_TRAILING"
             => /\ state[p] \in {"OPEN_UNREALIZED", "OPEN_TRAILING"}
                /\ Better(p, snap.mid, Tick(p).trail)
                /\ Sign(p) * (snap.mid - Tick(p).trail) <= MaxDistance
        /\ state[p] = "OPEN_TRAILING" => ~Better(p, trail_stop[p], Tick(p).trail)
  BY TickFacts
<1> HIDE DEF Tick
<1>5. /\ snap.mid \in Int /\ Entry \in Int
      /\ open_positions \subseteq Positions /\ Leave \in SUBSET Positions
  BY MoneyAssumption DEF MoneyAssumption, Snapshots, LifecycleTypes
<1>6. /\ exits' \in [Symbols -> SUBSET Positions]
      /\ closing' \in [Symbols -> Positions \union {NoPosition}]
      /\ \A t \in Symbols \ {s} : exits'[t] = exits[t] /\ closing'[t] = closing[t]
      /\ closing'[s] # NoPosition => closing'[s] \in Leave
      /\ exits'[s] \subseteq Leave
  BY <1>3, <1>5, AwaitNextTypes
<1>7. \A p \in Positions : state[p] \in Closed => state'[p] \in Closed
  BY <1>1, <1>4
<1>8. \A p \in Leave : state'[p] \in Closed
  BY <1>1, <1>4, <1>5
<1> HIDE DEF Leave
<1>9. LifecycleTypes'
  <2>1. state' \in [Positions -> States] /\ trail_stop' \in [Positions -> Int]
    BY <1>1, <1>4 DEF LifecycleTypes
  <2>2. best' \in [Positions -> Int]
    BY <1>2, <1>5 DEF LifecycleTypes
  <2>3. stop_seen' \in [Positions -> BOOLEAN]
    BY <1>2 DEF LifecycleTypes
  <2>4. exit_price' \in [Symbols -> Int]
    BY <1>3, <1>5 DEF LifecycleTypes
  <2> QED
    BY <1>3, <1>6, <2>1, <2>2, <2>3, <2>4 DEF LifecycleTypes
<1>10. IdleIsFresh'
  BY <1>1, <1>2, <1>3, <1>4, <1>5 DEF IdleIsFresh
<1>11. ExitsAreClosed'
  <2> SUFFICES ASSUME NEW t \in Symbols
               PROVE  /\ closing'[t] # NoPosition => state'[closing'[t]] \in Closed
                      /\ \A p \in exits'[t] : state'[p] \in Closed
    BY DEF ExitsAreClosed
  <2>1. CASE t = s
    BY <1>6, <1>8, <2>1
  <2>2. CASE t # s
    BY <1>6, <1>7, <2>2 DEF ExitsAreClosed, LifecycleTypes
  <2> QED
    BY <2>1, <2>2
<1>12. RemovedAreClosed'
  BY <1>1, <1>3 DEF RemovedAreClosed
<1>13. \A p \in open_positions : state'[p] = "OPEN_TRAILING"
         => \/ best'[p] = snap.mid
            \/ /\ best'[p] = best[p] /\ state[p] = "OPEN_TRAILING"
               /\ ~Better(p, snap.mid, best[p])
  BY <1>1, <1>2, <1>5
<1>14. \A p \in open_positions : state'[p] = "OPEN_TRAILING"
         => /\ trail_stop'[p] \in Int
            /\ Better(p, snap.mid, trail_stop'[p])
            /\ Sign(p) * (snap.mid - trail_stop'[p]) <= MaxDistance
            /\ state[p] = "OPEN_TRAILING" => ~Better(p, trail_stop[p], trail_stop'[p])
  BY <1>1, <1>4, <1>5
<1>15. StopsHonoured'
  <2> SUFFICES ASSUME NEW p \in open_positions, state'[p] \notin Closed
               PROVE  /\ ~stop_seen'[p]
                      /\ state'[p] = "OPEN_TRAILING" => Better(p, best'[p], trail_stop'[p])
    BY <1>3 DEF StopsHonoured
  <2>1. ~stop_seen'[p]
    BY <1>1, <1>2, <1>4, <1>5 DEF StopsHonoured
  <2>2. ASSUME state'[p] = "OPEN_TRAILING"
        PROVE  Better(p, best'[p], trail_stop'[p])
    <3>1. trail_stop'[p] \in Int /\ best[p] \in Int /\ snap.mid \in Int
      BY <1>5, <1>14, <2>2 DEF LifecycleTypes
    <3>2. Better(p, snap.mid, trail_stop'[p])
      BY <1>14, <2>2
    <3>3. ASSUME ~Better(p, snap.mid, best[p])
          PROVE  Better(p, best[p], trail_stop'[p])
      BY <3>1, <3>2, <3>3, BetterOrder
    <3> QED
      BY <1>13, <2>2, <3>2, <3>3
  <2> QED
    BY <2>1, <2>2
<1>16. TrailKeepsUp'
  <2> SUFFICES ASSUME NEW p \in Positions, state'[p] = "OPEN_TRAILING"
               PROVE  Sign(p) * (best'[p] - trail_stop'[p]) <= MaxDistance
    BY DEF TrailKeepsUp
  <2>1. best[p] \in Int /\ trail_stop[p] \in Int /\ MaxDistance \in Int
    BY MoneyAssumption DEF MoneyAssumption, LifecycleTypes
  <2>2. CASE p \notin open_positions
    <3>1. best'[p] = best[p] /\ trail_stop'[p] = trail_stop[p] /\ state'[p] = state[p]
      BY <1>1, <1>2, <2>2
    <3> QED
      BY <3>1 DEF TrailKeepsUp
  <2>3. CASE p \in open_positions /\ best'[p] = snap.mid
    BY <1>14, <2>3
  <2>4. CASE /\ p \in open_positions /\ best'[p] = best[p]
             /\ state[p] = "OPEN_TRAILING"
    <3>1. Sign(p) * (best[p] - trail_stop[p]) <= MaxDistance
      BY <2>4 DEF TrailKeepsUp
    <3>2. trail_stop'[p] \in Int
          /\ IF p \in Longs THEN trail_stop'[p] >= trail_stop[p]
                           ELSE trail_stop'[p] <= trail_stop[p]
      BY <1>14, <2>1, <2>4, BetterOrder
    <3>3. /\ Sign(p) * (best[p] - trail_stop[p])
               = IF p \in Longs THEN best[p] - trail_stop[p] ELSE trail_stop[p] - best[p]
          /\ Sign(p) * (best[p] - trail_stop'[p])
               = IF p \in Longs THEN best[p] - trail_stop'[p] ELSE trail_stop'[p] - best[p]
      BY <2>1, <3>2, Gain
    <3> QED
      BY <2>1, <2>4, <3>1, <3>2, <3>3
  <2> QED
    BY <1>13, <2>2, <2>3, <2>4
<1>17. RecordedOnce'
  BY <1>1, <1>3, <1>4, <1>5 DEF RecordedOnce, IdleIsFresh
<1> QED
  BY <1>9, <1>10, <1>11, <1>12, <1>15, <1>16, <1>17

(* A tick that raises in every state machine only moves unrealized_pnl.    *)
LEMMA RaiseStep ==
  ASSUME LifecycleInv, NEW s \in Symbols, NEW price \in Prices, TickRaises(s, price)
  PROVE  LifecycleInv'
BY DEF LifecycleInv, TickRaises, LifecycleTypes, IdleIsFresh, ExitsAreClosed, RemovedAreClosed,
       StopsHonoured, TrailKeepsUp, RecordedOnce, machines, tasks, history

(* The answer to a close keeps the invariant, whoever removed the position *)
(* while it was awaited.                                                   *)
LEMMA RemoveStep ==
  ASSUME LifecycleInv, NEW s \in Symbols, remove_position(s)
  PROVE  LifecycleInv'
<1> DEFINE q == closing[s]
           result == _calc_pnl(q, exit_price[s])
<1> USE DEF LifecycleInv
<1>1. /\ q \in Positions /\ state[q] \in Closed
      /\ exits[s] \in SUBSET Positions /\ \A p \in exits[s] : state[p] \in Closed
  BY DEF remove_position, LifecycleTypes, ExitsAreClosed
<1>2. /\ open_positions' = open_positions \ {q}
      /\ AwaitNext(s, exits[s], open_positions \ {q})
      /\ exit_price' = [exit_price EXCEPT ![s] =
                          IF exits[s] \intersect (open_positions \ {q}) = {} THEN 0 ELSE @]
      /\ UNCHANGED <<current_mode, state, trail_stop, best, stop_seen>>
      /\ results' = IF q \in open_positions
                    THEN [results EXCEPT ![q] = Append(@, result)] ELSE results
  BY DEF remove_position, machines, history
<1>3. result \in Int
  <2>1. exit_price[s] \in Int /\ Entry \in Int
    BY MoneyAssumption DEF MoneyAssumption, LifecycleTypes
  <2> QED
    BY <2>1 DEF _calc_pnl, Sign
<1> HIDE DEF q, result
<1>4. /\ exits' \in [Symbols -> SUBSET Positions]
      /\ closing' \in [Symbols -> Positions \union {NoPosition}]
      /\ \A t \in Symbols \ {s} : exits'[t] = exits[t] /\ closing'[t] = closing[t]
      /\ closing'[s] # NoPosition => closing'[s] \in exits[s]
      /\ exits'[s] \subseteq exits[s]
  BY <1>1, <1>2, AwaitNextTypes
<1>5. results' \in [Positions -> Seq(Int)]
  BY <1>2, <1>3 DEF LifecycleTypes
<1>6. LifecycleTypes'
  <2>1. exit_price' \in [Symbols -> Int]
    <3>1. exit_price \in [Symbols -> Int] /\ exit_price[s] \in Int
      BY DEF LifecycleTypes
    <3>2. exit_price' = [exit_price EXCEPT ![s] = 0] \/ exit_price' = exit_price
      BY <1>2, <3>1
    <3> QED
      BY <3>1, <3>2
  <2> QED
    BY <1>2, <1>4, <1>5, <2>1 DEF LifecycleTypes
<1>7. IdleIsFresh'
  BY <1>2 DEF IdleIsFresh
<1>8. ExitsAreClosed'
  <2> SUFFICES ASSUME NEW t \in Symbols
               PROVE  /\ closing'[t] # NoPosition => state'[closing'[t]] \in Closed
                      /\ \A p \in exits'[t] : state'[p] \in Closed
    BY DEF ExitsAreClosed
  <2>1. CASE t = s
    BY <1>1, <1>2, <1>4, <2>1
  <2>2. CASE t # s
    BY <1>2, <1>4, <2>2 DEF ExitsAreClosed
  <2> QED
    BY <2>1, <2>2
<1>9. RemovedAreClosed'
  BY <1>1, <1>2 DEF RemovedAreClosed
<1>10. StopsHonoured'
  BY <1>2 DEF StopsHonoured
<1>11. TrailKeepsUp'
  BY <1>2 DEF TrailKeepsUp
<1>12. RecordedOnce'
  <2> SUFFICES ASSUME NEW p \in Positions
               PROVE  Len(results'[p])
                        = IF state'[p] = "IDLE" \/ p \in open_positions' THEN 0 ELSE 1
    BY DEF RecordedOnce
  <2>1. results[p] \in Seq(Int)
        /\ Len(results[p]) = IF state[p] = "IDLE" \/ p \in open_positions THEN 0 ELSE 1
    BY DEF RecordedOnce, LifecycleTypes
  <2>2. CASE p = q /\ q \in open_positions
    <3>1. results'[p] = Append(results[p], result)
      BY <1>2, <2>2 DEF LifecycleTypes
    <3>2. Len(results'[p]) = Len(results[p]) + 1
      BY <1>3, <2>1, <3>1
    <3> QED
      BY <1>1, <1>2, <2>1, <2>2, <3>2 DEF Closed
  <2>3. CASE ~(p = q /\ q \in open_positions)
    <3>1. results'[p] = results[p]
      BY <1>2, <2>3 DEF LifecycleTypes
    <3> QED
      BY <1>2, <2>1, <2>3, <3>1
  <2> QED
    BY <2>2, <2>3
<1> QED
  BY <1>6, <1>7, <1>8, <1>9, <1>10, <1>11, <1>12

(* A change of mode keeps the invariant: no trail or stop remembers it.    *)
LEMMA ModeStep ==
  ASSUME LifecycleInv, NEW m \in Modes, SetMode(m)
  PROVE  LifecycleInv'
BY DEF LifecycleInv, SetMode, LifecycleTypes, IdleIsFresh, ExitsAreClosed, RemovedAreClosed,
       StopsHonoured, TrailKeepsUp, RecordedOnce, machines, tasks, history

(* The invariant holds throughout: every action keeps it.                  *)
THEOREM LifecycleSafe == Spec => []LifecycleInv
<1>1. LifecycleInv /\ [Next]_lifecycle => LifecycleInv'
  <2> SUFFICES ASSUME LifecycleInv, [Next]_lifecycle
               PROVE  LifecycleInv'
    OBVIOUS
  <2>1. CASE UNCHANGED lifecycle
    BY <2>1 DEF LifecycleInv, LifecycleTypes, IdleIsFresh, ExitsAreClosed, RemovedAreClosed,
                StopsHonoured, TrailKeepsUp, RecordedOnce, lifecycle, machines, tasks, history
  <2> QED
    BY <2>1, AddStep, TickStep, RaiseStep, RemoveStep, ModeStep DEF Next
<1> QED
  BY <1>1, LifecycleInit, PTL DEF Spec

-----------------------------------------------------------------------------
(* What the runs check, for every value of the constants. *)

(* state_machine.py, on_tick: an open position has seen no price beyond    *)
(* its hard stop, and its armed stop is on the right side of its best      *)
(* price.                                                                  *)
THEOREM StopsAlwaysHonoured == Spec => []StopsHonoured
BY LifecycleSafe, PTL DEF LifecycleInv

(* trail_manager.py, update: the stop is never further than MaxDistance    *)
(* from the best price since it was armed.                                 *)
THEOREM TrailAlwaysKeepsUp == Spec => []TrailKeepsUp
BY LifecycleSafe, PTL DEF LifecycleInv

(* registry.py, remove_position: the result of a position is recorded when *)
(* it leaves the registry and never again.                                 *)
THEOREM AlwaysRecordedOnce == Spec => []RecordedOnce
BY LifecycleSafe, PTL DEF LifecycleInv

(* registry.py and main.py: a position whose state machine is still        *)
(* OPEN_* is never removed, and only closed positions await a close.       *)
THEOREM OnlyClosedLeave == Spec => [](RemovedAreClosed /\ ExitsAreClosed)
BY LifecycleSafe, PTL DEF LifecycleInv

(* trail_manager.py, "Trail only moves in the favorable direction".        *)
THEOREM TrailAlwaysRatchets == Spec => TrailRatchets
<1> DEFINE Ratchet == \A p \in Positions : state[p] = "OPEN_TRAILING"
                        => ~Better(p, trail_stop[p], trail_stop'[p])
<1>1. LifecycleInv /\ [Next]_lifecycle => [Ratchet]_lifecycle
  <2> SUFFICES ASSUME LifecycleInv, Next, NEW p \in Positions, state[p] = "OPEN_TRAILING"
               PROVE  ~Better(p, trail_stop[p], trail_stop'[p])
    OBVIOUS
  <2>1. LifecycleTypes /\ trail_stop[p] \in Int
    BY DEF LifecycleInv, LifecycleTypes
  <2>2. CASE trail_stop'[p] = trail_stop[p]
    BY <2>1, <2>2, BetterOrder
  <2>3. ASSUME NEW s \in Symbols, NEW snap \in Snapshots, process_tick(s, snap)
        PROVE  ~Better(p, trail_stop[p], trail_stop'[p])
    <3>1. trail_stop'[p] = IF p \in open_positions THEN on_tick(p, snap).trail
                           ELSE trail_stop[p]
      BY <2>3 DEF process_tick
    <3>2. ~Better(p, trail_stop[p], on_tick(p, snap).trail)
      BY <2>1, TickFacts
    <3> QED
      BY <2>2, <3>1, <3>2
  <2> QED
    BY <2>2, <2>3 DEF Next, add_position, TickRaises, remove_position, SetMode, machines
<1> QED
  BY <1>1, LifecycleSafe, PTL DEF Spec, TrailRatchets

=============================================================================
