------------------------------- MODULE CoreProofs -------------------------------
(* Safety of the nuclear guardian, for every set of positions, thresholds   *)
(* and any cooldown longer than the close timeout; safety of main.py's      *)
(* snapshot tasks, for every set of symbols, every cap and every number of  *)
(* positions; and that these tasks are one environment of the guardian.     *)
EXTENDS TradingCore, FiniteSetTheorems, TLAPS

-----------------------------------------------------------------------------
(* The nuclear guardian                                                     *)

(* The invariant is inductive as it stands, with TypeOK: the two parts     *)
(* about the halt do not need each other.                                  *)
GuardianInv == TypeOK /\ CooldownHalts /\ LockIsEarned

(* Counting an event keeps the counter in its range and does not lower it. *)
LEMMA CountEventType ==
  ASSUME nuclear_count_today \in 0..CountCap
  PROVE  CountEvent \in 0..CountCap /\ CountEvent >= nuclear_count_today
BY CountAssumption DEF CountAssumption, CountEvent

(* The constants a reset writes are in their ranges. *)
LEMMA ResetValues ==
  /\ 0 \in Marks /\ 0 \in RealizedRange
  /\ 0 \in 0..CountCap
  /\ 0 \in 0..CloseTimeout
  /\ Cooldown \in 0..Cooldown
  /\ ~(Cooldown < Cooldown)
<1>1. 0 \in Marks /\ 0 \in RealizedRange
  BY PnlAssumption DEF PnlAssumption
<1>2. 0 \in 0..CountCap
  BY CountAssumption DEF CountAssumption
<1>3. 0 \in 0..CloseTimeout /\ Cooldown \in 0..Cooldown /\ ~(Cooldown < Cooldown)
  BY TimeAssumption DEF TimeAssumption
<1> QED
  BY <1>1, <1>2, <1>3

(* PortfolioState starts in a typed state, with no cooldown and no lock.   *)
LEMMA GuardianInit == Init => GuardianInv
BY ResetValues DEF Init, GuardianInv, TypeOK, CooldownHalts, LockIsEarned

(* Every step of every coroutine keeps the types of PortfolioState.        *)
LEMMA TypeStep == TypeOK /\ [Next]_guardian => TypeOK'
<1> SUFFICES ASSUME TypeOK, [Next]_guardian PROVE TypeOK'
  OBVIOUS
<1> USE DEF TypeOK, pnl, halt, poll
<1>1. CASE PollQuiet
  BY <1>1 DEF PollQuiet, apply_cooldown
<1>2. CASE PollFires
  BY <1>2, ResetValues DEF PollFires
<1>3. CASE PollRaises
  BY <1>3 DEF PollRaises, guardian
<1>4. CASE NuclearRecorded
  <2>1. CountEvent \in 0..CountCap
    BY CountEventType
  <2>2. poll_age \in 0..Cooldown
    BY TimeAssumption DEF TimeAssumption
  <2>3. circuit_breaker' \in BOOLEAN /\ day_locked' \in BOOLEAN
    BY <1>4 DEF NuclearRecorded, apply_cooldown
  <2> QED
    BY <1>4, <2>1, <2>2, <2>3, ResetValues DEF NuclearRecorded
<1>5. CASE ClockTick
  BY <1>5, TimeAssumption DEF ClockTick, TimeAssumption
<1>6. ASSUME NEW p \in Positions, add_position(p) PROVE TypeOK'
  BY <1>6 DEF add_position
<1>7. ASSUME NEW p \in Positions, NEW r \in Results, remove_position(p, r)
      PROVE  TypeOK'
  BY <1>7 DEF remove_position
<1>8. ASSUME NEW m \in Marks, update_unrealized(m) PROVE TypeOK'
  BY <1>8 DEF update_unrealized
<1>9. ASSUME NEW b \in BOOLEAN, update_state(b) PROVE TypeOK'
  BY <1>9 DEF update_state
<1>10. ASSUME NEW e \in Equities, reset_daily(e) PROVE TypeOK'
  BY <1>10, ResetValues DEF reset_daily
<1>11. CASE cmd_pause
  BY <1>11 DEF cmd_pause
<1>12. CASE cmd_resume
  BY <1>12 DEF cmd_resume
<1>13. CASE UNCHANGED guardian
  BY <1>13 DEF guardian
<1> QED
  BY <1>1, <1>2, <1>3, <1>4, <1>5, <1>6, <1>7, <1>8, <1>9, <1>10, <1>11,
     <1>12, <1>13
  DEF Next, Controller, Portfolio, Midnight, Operator

(* The breaker stays on through a cooldown: only a recorded event shortens *)
(* since_nuclear and it turns the breaker on; only a poll after the        *)
(* cooldown or a /resume turns it off.                                     *)
LEMMA CooldownStep ==
  TypeOK /\ CooldownHalts /\ [Next]_guardian => CooldownHalts'
<1> SUFFICES ASSUME TypeOK, CooldownHalts, [Next]_guardian PROVE CooldownHalts'
  OBVIOUS
<1> USE DEF CooldownHalts, pnl, halt, poll
<1>1. CASE PollQuiet
  BY <1>1 DEF PollQuiet, apply_cooldown
<1>2. CASE PollFires \/ PollRaises
  BY <1>2 DEF PollFires, PollRaises, guardian
<1>3. CASE NuclearRecorded
  BY <1>3, TimeAssumption DEF NuclearRecorded, apply_cooldown, TimeAssumption
<1>4. CASE ClockTick
  BY <1>4, TimeAssumption DEF ClockTick, TypeOK, TimeAssumption
<1>5. CASE Portfolio
  BY <1>5 DEF Portfolio, add_position, remove_position, update_unrealized, update_state
<1>6. CASE Midnight
  BY <1>6 DEF Midnight, reset_daily
<1>7. CASE Operator
  BY <1>7 DEF Operator, cmd_pause, cmd_resume
<1>8. CASE UNCHANGED guardian
  BY <1>8 DEF guardian
<1> QED
  BY <1>1, <1>2, <1>3, <1>4, <1>5, <1>6, <1>7, <1>8 DEF Next, Controller

(* A day is locked by apply_cooldown alone, which counts first; the count  *)
(* falls only at midnight, which also unlocks the day.                     *)
LEMMA LockStep ==
  TypeOK /\ LockIsEarned /\ [Next]_guardian => LockIsEarned'
<1> SUFFICES ASSUME TypeOK, LockIsEarned, [Next]_guardian PROVE LockIsEarned'
  OBVIOUS
<1> USE DEF LockIsEarned, pnl, halt, poll
<1>1. CASE PollQuiet
  BY <1>1 DEF PollQuiet, apply_cooldown
<1>2. CASE PollFires \/ PollRaises
  BY <1>2 DEF PollFires, PollRaises, guardian
<1>3. CASE NuclearRecorded
  <2>1. CountEvent \in 0..CountCap /\ CountEvent >= nuclear_count_today
    BY CountEventType DEF TypeOK
  <2>2. nuclear_count_today' = CountEvent
        /\ day_locked' = IF CountEvent >= LockAfter THEN TRUE ELSE day_locked
    BY <1>3 DEF NuclearRecorded, apply_cooldown
  <2>3. CASE CountEvent >= LockAfter
    BY <2>2, <2>3
  <2>4. CASE ~(CountEvent >= LockAfter)
    BY <2>1, <2>2, <2>4, CountAssumption DEF CountAssumption, TypeOK
  <2> QED
    BY <2>3, <2>4
<1>4. CASE ClockTick
  BY <1>4 DEF ClockTick
<1>5. CASE Portfolio
  BY <1>5 DEF Portfolio, add_position, remove_position, update_unrealized, update_state
<1>6. CASE Midnight
  BY <1>6 DEF Midnight, reset_daily
<1>7. CASE Operator
  BY <1>7 DEF Operator, cmd_pause, cmd_resume
<1>8. CASE UNCHANGED guardian
  BY <1>8 DEF guardian
<1> QED
  BY <1>1, <1>2, <1>3, <1>4, <1>5, <1>6, <1>7, <1>8 DEF Next, Controller

(* GuardianInv holds of every behaviour of the guardian.                   *)
THEOREM GuardianSafe == Spec => []GuardianInv
<1>1. GuardianInv /\ [Next]_guardian => GuardianInv'
  BY TypeStep, CooldownStep, LockStep DEF GuardianInv
<1> QED
  BY GuardianInit, <1>1, PTL DEF Spec

(* Type correctness of PortfolioState under every interleaving.            *)
THEOREM TypeCorrect == Spec => []TypeOK
<1>1. GuardianInv => TypeOK
  BY DEF GuardianInv
<1> QED
  BY GuardianSafe, <1>1, PTL

(* The breaker is on for the whole cooldown of every nuclear event, unless *)
(* the operator resumed.                                                   *)
THEOREM CooldownCorrect == Spec => []CooldownHalts
<1>1. GuardianInv => CooldownHalts
  BY DEF GuardianInv
<1> QED
  BY GuardianSafe, <1>1, PTL

(* No day is locked without LockAfter nuclear events since midnight.       *)
THEOREM LockCorrect == Spec => []LockIsEarned
<1>1. GuardianInv => LockIsEarned
  BY DEF GuardianInv
<1> QED
  BY GuardianSafe, <1>1, PTL

(* On a locked day nothing turns the breaker off before the cooldown has   *)
(* run out, neither an operator nor a poll.                                *)
THEOREM LockedDayCorrect == Spec => LockedDayStaysHalted
<1>1. ASSUME TypeOK, [Next]_guardian
      PROVE  [day_locked /\ circuit_breaker /\ ~circuit_breaker'
                => since_nuclear = Cooldown]_guardian
  <2> SUFFICES ASSUME Next, day_locked, circuit_breaker, ~circuit_breaker'
               PROVE  since_nuclear = Cooldown
    BY <1>1
  <2> USE DEF pnl, halt, poll
  <2>1. CASE PollQuiet
    BY <2>1, <1>1, TimeAssumption DEF PollQuiet, apply_cooldown, TypeOK, TimeAssumption
  <2>2. CASE PollFires \/ PollRaises
    BY <2>2 DEF PollFires, PollRaises, guardian
  <2>3. CASE NuclearRecorded
    BY <2>3, TimeAssumption DEF NuclearRecorded, apply_cooldown, TimeAssumption
  <2>4. CASE ClockTick
    BY <2>4 DEF ClockTick
  <2>5. CASE Portfolio
    BY <2>5 DEF Portfolio, add_position, remove_position, update_unrealized, update_state
  <2>6. CASE Midnight
    BY <2>6 DEF Midnight, reset_daily
  <2>7. CASE Operator
    BY <2>7 DEF Operator, cmd_pause, cmd_resume
  <2> QED
    BY <2>1, <2>2, <2>3, <2>4, <2>5, <2>6, <2>7 DEF Next, Controller
<1>2. TypeOK /\ [Next]_guardian
        => [day_locked /\ circuit_breaker /\ ~circuit_breaker'
              => since_nuclear = Cooldown]_guardian
  BY <1>1
<1> QED
  BY TypeCorrect, <1>2, PTL DEF Spec, LockedDayStaysHalted

-----------------------------------------------------------------------------
(* The tasks of on_snapshot                                                 *)

(* The ids handed out are below the counter, whether their position is     *)
(* open or still in flight.                                                *)
IdsBelowCounter ==
  /\ \A p \in open_positions : p < pos_id_counter
  /\ \A s \in InFlight : pid[s] \in Positions /\ pid[s] < pos_id_counter

(* Nothing has leaked while the breaker is off. *)
LeakInv == HaltLeakBounded /\ (~circuit_breaker => leaked = 0)

(* CapOvershootBounded is inductive with the types. HaltLeakBounded needs  *)
(* leaked = 0 when the breaker comes on, and IdsDistinct needs the counter *)
(* above every id in use.                                                  *)
CoreInv ==
  /\ CoreTypeOK
  /\ CapOvershootBounded
  /\ LeakInv
  /\ IdsDistinct
  /\ IdsBelowCounter

(* Positions and symbols are finite, so the counts below are numbers.      *)
LEMMA FiniteState ==
  ASSUME CoreTypeOK
  PROVE  /\ IsFiniteSet(open_positions)
         /\ IsFiniteSet(InFlight)
         /\ Cardinality(open_positions) \in Nat
         /\ Cardinality(InFlight) \in Nat
         /\ Cardinality(Symbols) \in Nat
         /\ Cardinality(InFlight) <= Cardinality(Symbols)
<1>1. IsFiniteSet(Positions)
  BY CoreAssumption, FS_Interval DEF CoreAssumption
<1>2. IsFiniteSet(open_positions)
  BY <1>1, FS_Subset DEF CoreTypeOK, TypeOK
<1>3. InFlight \subseteq Symbols /\ IsFiniteSet(Symbols)
  BY CoreAssumption DEF CoreAssumption, InFlight
<1>4. IsFiniteSet(InFlight) /\ Cardinality(InFlight) <= Cardinality(Symbols)
  BY <1>3, FS_Subset
<1> QED
  BY <1>2, <1>3, <1>4, FS_CardinalityType

(* Every step of main.py is a step of the guardian or leaves it alone.     *)
LEMMA CoreStepIsGuardianStep ==
  ASSUME CoreTypeOK, IdsBelowCounter, [CoreNext]_core
  PROVE  [Next]_guardian
<1>1. ASSUME NEW s \in Symbols, SnapshotStep(s) PROVE [Next]_guardian
  BY <1>1 DEF SnapshotStep, Tick, TickRaises, Next, Portfolio
<1>2. ASSUME NEW s \in Symbols, ResumptionStep(s) PROVE [Next]_guardian
  <2>1. ASSUME NEW p \in Positions, ExitClosed(s, p) PROVE [Next]_guardian
    BY <2>1 DEF ExitClosed, Next, Portfolio
  <2>2. ASSUME OpenFilled(s) PROVE [Next]_guardian
    <3>1. pid[s] \in Positions
      BY <2>2 DEF OpenFilled, IdsBelowCounter, InFlight
    <3> QED
      BY <2>2, <3>1 DEF OpenFilled, Next, Portfolio
  <2>3. ASSUME \/ ScoredBelow(s) \/ ScoredAuto(s) \/ EntryRefused(s)
               \/ EntryApproved(s) \/ OpenFailed(s)
        PROVE  UNCHANGED guardian
    BY <2>3 DEF ScoredBelow, ScoredAuto, EntryRefused, EntryApproved, OpenFailed
  <2> QED
    BY <1>2, <2>1, <2>2, <2>3 DEF ResumptionStep, Resumption
<1>3. CASE ControllerStep \/ ClockStep \/ MidnightStep \/ OperatorStep
  BY <1>3 DEF ControllerStep, ClockStep, MidnightStep, OperatorStep, Next
<1>4. CASE UNCHANGED core
  BY <1>4 DEF core
<1> QED
  BY <1>1, <1>2, <1>3, <1>4 DEF CoreNext

(* The guardian, the clock, midnight and the operator neither open nor     *)
(* close positions.                                                        *)
LEMMA OthersKeepPositions ==
  ASSUME Controller \/ ClockTick \/ Midnight \/ Operator
  PROVE  open_positions' = open_positions
BY DEF Controller, PollQuiet, PollFires, PollRaises, NuclearRecorded, ClockTick,
       Midnight, reset_daily, Operator, cmd_pause, cmd_resume, guardian

(* What one step of CoreNext may do to the positions, the orders in flight *)
(* and the breaker: the five cases every invariant below is proved by.     *)
Quiet == UNCHANGED <<open_positions, pid, pos_id_counter, InFlight>>

Closing ==
  /\ \E p \in open_positions : open_positions' = open_positions \ {p}
  /\ UNCHANGED <<pid, pos_id_counter, InFlight, circuit_breaker>>

Approving(s) ==
  /\ s \notin InFlight /\ InFlight' = InFlight \union {s}
  /\ MayEnter
  /\ pos_id_counter <= MaxId
  /\ pid' = [pid EXCEPT ![s] = pos_id_counter]
  /\ pos_id_counter' = pos_id_counter + 1
  /\ UNCHANGED <<open_positions, circuit_breaker>>

Failing(s) ==
  /\ s \in InFlight /\ InFlight' = InFlight \ {s}
  /\ pid' = [pid EXCEPT ![s] = 0]
  /\ UNCHANGED <<open_positions, pos_id_counter, circuit_breaker>>

Filling(s) ==
  /\ s \in InFlight /\ InFlight' = InFlight \ {s}
  /\ pid[s] \notin open_positions
  /\ open_positions' = open_positions \union {pid[s]}
  /\ pid' = [pid EXCEPT ![s] = 0]
  /\ UNCHANGED <<pos_id_counter, circuit_breaker>>

LEMMA StepCases ==
  ASSUME CoreTypeOK, CoreNext
  PROVE  \/ Quiet
         \/ Closing
         \/ \E s \in Symbols : Approving(s) \/ Failing(s) \/ Filling(s)
<1> USE DEF CoreTypeOK, InFlight, MoveTo
<1>1. ASSUME NEW s \in Symbols, SnapshotStep(s) PROVE Quiet
  BY <1>1 DEF SnapshotStep, Tick, TickRaises, update_unrealized, guardian, Quiet
<1>2. ASSUME NEW s \in Symbols, NEW p \in Positions, ExitClosed(s, p)
      PROVE  Quiet \/ Closing
  BY <1>2 DEF ExitClosed, remove_position, guardian, halt, Quiet, Closing
<1>3. ASSUME NEW s \in Symbols, ScoredBelow(s) \/ ScoredAuto(s) \/ EntryRefused(s)
      PROVE  Quiet
  BY <1>3 DEF ScoredBelow, ScoredAuto, EntryRefused, guardian, Quiet
<1>4. ASSUME NEW s \in Symbols, EntryApproved(s) PROVE Approving(s)
  BY <1>4 DEF EntryApproved, Approving, guardian, halt
<1>5. ASSUME NEW s \in Symbols, OpenFailed(s) PROVE Failing(s)
  BY <1>5 DEF OpenFailed, Failing, guardian, halt
<1>6. ASSUME NEW s \in Symbols, OpenFilled(s) PROVE Filling(s)
  BY <1>6 DEF OpenFilled, Filling, add_position, halt
<1>7. CASE ControllerStep \/ ClockStep \/ MidnightStep \/ OperatorStep
  BY <1>7, OthersKeepPositions
  DEF ControllerStep, ClockStep, MidnightStep, OperatorStep, tasks, Quiet
<1> QED
  BY <1>1, <1>2, <1>3, <1>4, <1>5, <1>6, <1>7
  DEF CoreNext, ResumptionStep, Resumption

(* The types survive a step: the guardian's by its own lemma, those of the *)
(* tasks action by action.                                                 *)
LEMMA CoreTypeStep ==
  ASSUME CoreTypeOK, IdsBelowCounter, CoreNext
  PROVE  CoreTypeOK'
<1>1. TypeOK'
  BY CoreStepIsGuardianStep, TypeStep DEF CoreTypeOK
<1>2. leaked' \in Nat /\ at_halt' \in Nat
  <2>1. CountLeak
    BY DEF CoreNext, SnapshotStep, ResumptionStep, ControllerStep, ClockStep,
           MidnightStep, OperatorStep
  <2>2. IsFiniteSet(Positions) /\ open_positions' \subseteq Positions
    BY <1>1, CoreAssumption, FS_Interval DEF CoreAssumption, TypeOK
  <2>3. Cardinality(open_positions' \ open_positions) \in Nat
    BY <2>2, FS_Subset, FS_CardinalityType
  <2>4. Cardinality(InFlight') \in Nat
    <3>1. InFlight' \subseteq Symbols
      BY DEF InFlight
    <3> QED
      BY <3>1, CoreAssumption, FS_Subset, FS_CardinalityType DEF CoreAssumption
  <2> QED
    BY <2>1, <2>3, <2>4 DEF CountLeak, CoreTypeOK
<1>3. /\ registry' \in Registries
      /\ pos_id_counter' \in 1..(MaxId + 1)
      /\ stage' \in [Symbols -> Stages]
      /\ exits' \in [Symbols -> SUBSET Positions]
      /\ pid' \in [Symbols -> 0..MaxId]
      /\ callback_errors' \in 0..1
  <2> USE CoreAssumption DEF CoreAssumption, CoreTypeOK, TypeOK, Stages, MoveTo
  <2>1. ASSUME NEW s \in Symbols, SnapshotStep(s) PROVE <1>3
    <3>1. CASE Tick(s)
      <4>1. PICK X \in SUBSET open_positions : exits' = [exits EXCEPT ![s] = X]
        BY <3>1 DEF Tick
      <4>2. X \in SUBSET Positions
        OBVIOUS
      <4>3. exits' \in [Symbols -> SUBSET Positions]
        BY <4>1, <4>2
      <4>4. stage' \in [Symbols -> Stages]
        BY <3>1 DEF Tick
      <4> QED
        BY <3>1, <4>3, <4>4 DEF Tick
    <3>2. CASE TickRaises(s)
      BY <3>2 DEF TickRaises
    <3> QED
      BY <2>1, <3>1, <3>2 DEF SnapshotStep
  <2>2. ASSUME NEW s \in Symbols, NEW p \in Positions, ExitClosed(s, p) PROVE <1>3
    BY <2>2 DEF ExitClosed
  <2>3. ASSUME NEW s \in Symbols, ScoredBelow(s) \/ ScoredAuto(s) \/ EntryRefused(s)
        PROVE  <1>3
    BY <2>3 DEF ScoredBelow, ScoredAuto, EntryRefused
  <2>4. ASSUME NEW s \in Symbols, EntryApproved(s) PROVE <1>3
    BY <2>4 DEF EntryApproved
  <2>5. ASSUME NEW s \in Symbols, OpenFailed(s) \/ OpenFilled(s) PROVE <1>3
    <3>1. CASE OpenFailed(s)
      BY <3>1 DEF OpenFailed
    <3>2. CASE OpenFilled(s)
      BY <3>2 DEF OpenFilled
    <3> QED
      BY <2>5, <3>1, <3>2
  <2>6. CASE ControllerStep \/ ClockStep \/ MidnightStep \/ OperatorStep
    BY <2>6 DEF ControllerStep, ClockStep, MidnightStep, OperatorStep, tasks
  <2> QED
    BY <2>1, <2>2, <2>3, <2>4, <2>5, <2>6 DEF CoreNext, ResumptionStep, Resumption
<1> QED
  BY <1>1, <1>2, <1>3 DEF CoreTypeOK

(* The counts after each case. *)
LEMMA CountsAfter ==
  ASSUME CoreTypeOK
  PROVE  /\ Closing => Cardinality(open_positions') = Cardinality(open_positions) - 1
         /\ \A s \in Symbols :
              /\ Approving(s) => Cardinality(InFlight') = Cardinality(InFlight) + 1
              /\ Failing(s) \/ Filling(s)
                   => Cardinality(InFlight') = Cardinality(InFlight) - 1
              /\ Filling(s)
                   => /\ Cardinality(open_positions') = Cardinality(open_positions) + 1
                      /\ Cardinality(open_positions' \ open_positions) = 1
<1> USE FiniteState
<1>1. ASSUME Closing
      PROVE  Cardinality(open_positions') = Cardinality(open_positions) - 1
  BY <1>1, FS_RemoveElement DEF Closing
<1>2. ASSUME NEW s \in Symbols, Approving(s)
      PROVE  Cardinality(InFlight') = Cardinality(InFlight) + 1
  BY <1>2, FS_AddElement DEF Approving
<1>3. ASSUME NEW s \in Symbols, Failing(s) \/ Filling(s)
      PROVE  Cardinality(InFlight') = Cardinality(InFlight) - 1
  BY <1>3, FS_RemoveElement DEF Failing, Filling
<1>4. ASSUME NEW s \in Symbols, Filling(s)
      PROVE  /\ Cardinality(open_positions') = Cardinality(open_positions) + 1
             /\ Cardinality(open_positions' \ open_positions) = 1
  <2>1. open_positions' \ open_positions = {pid[s]}
    BY <1>4 DEF Filling
  <2> QED
    BY <1>4, <2>1, FS_AddElement, FS_Singleton DEF Filling
<1> QED
  BY <1>1, <1>2, <1>3, <1>4

(* The cap may be overshot by the orders in flight only: an approval finds *)
(* a free place, and a fill moves an order from one count to the other.    *)
LEMMA CapStep ==
  ASSUME CoreTypeOK, CoreTypeOK', CapOvershootBounded, CoreNext
  PROVE  CapOvershootBounded'
<1> USE DEF CapOvershootBounded
<1>0. /\ Cardinality(open_positions) \in Nat /\ Cardinality(InFlight) \in Nat
      /\ Cardinality(Symbols) \in Nat /\ MaxConcurrent \in Nat
  BY FiniteState, CoreAssumption DEF CoreAssumption
<1>1. CASE Quiet
  BY <1>1 DEF Quiet
<1>2. CASE Closing
  BY <1>0, <1>2, CountsAfter DEF Closing
<1>3. ASSUME NEW s \in Symbols, Approving(s) PROVE CapOvershootBounded'
  <2>1. Cardinality(InFlight') <= Cardinality(Symbols)
    <3>1. InFlight' \subseteq Symbols
      BY DEF InFlight
    <3> QED
      BY <3>1, CoreAssumption, FS_Subset DEF CoreAssumption
  <2>2. Cardinality(InFlight') \in Nat
    BY <1>0, <1>3, CountsAfter
  <2>3. Cardinality(open_positions) < MaxConcurrent /\ open_positions' = open_positions
    BY <1>3 DEF Approving, MayEnter
  <2> QED
    BY <1>0, <2>1, <2>2, <2>3
<1>4. ASSUME NEW s \in Symbols, Failing(s) PROVE CapOvershootBounded'
  <2>1. Cardinality(InFlight') = Cardinality(InFlight) - 1
    BY <1>4, CountsAfter
  <2>2. open_positions' = open_positions
    BY <1>4 DEF Failing
  <2> QED
    BY <1>0, <2>1, <2>2
<1>5. ASSUME NEW s \in Symbols, Filling(s) PROVE CapOvershootBounded'
  BY <1>0, <1>5, CountsAfter
<1> QED
  BY <1>1, <1>2, <1>3, <1>4, <1>5, StepCases

(* During a halt no order is approved, so each one in flight when the      *)
(* breaker came on is counted once: in flight, or leaked.                  *)
LEMMA LeakStep ==
  ASSUME CoreTypeOK, LeakInv, CoreNext
  PROVE  LeakInv'
<1> USE DEF LeakInv, HaltLeakBounded
<1>0. Cardinality(InFlight) \in Nat /\ leaked \in Nat /\ at_halt \in Nat
  BY FiniteState DEF CoreTypeOK
<1>a. CountLeak
  BY DEF CoreNext, SnapshotStep, ResumptionStep, ControllerStep, ClockStep,
         MidnightStep, OperatorStep
<1>b. open_positions' \subseteq open_positions
        => leaked' = IF circuit_breaker' THEN leaked ELSE 0
  <2>1. Cardinality({}) = 0
    BY FS_EmptySet
  <2>2. open_positions' \subseteq open_positions => open_positions' \ open_positions = {}
    OBVIOUS
  <2> QED
    BY <1>0, <1>a, <2>1, <2>2 DEF CountLeak
<1>c. /\ circuit_breaker' /\ circuit_breaker => at_halt' = at_halt
      /\ circuit_breaker' /\ ~circuit_breaker => at_halt' = Cardinality(InFlight')
  BY <1>a DEF CountLeak
<1>d. ~circuit_breaker' => leaked' = 0
  BY <1>a DEF CountLeak
<1>1. CASE Quiet
  <2>1. leaked' = IF circuit_breaker' THEN leaked ELSE 0
    BY <1>b, <1>1 DEF Quiet
  <2>2. Cardinality(InFlight') = Cardinality(InFlight)
    BY <1>1 DEF Quiet
  <2> QED
    BY <1>0, <1>c, <2>1, <2>2
<1>2. CASE Closing
  <2>1. leaked' = IF circuit_breaker' THEN leaked ELSE 0
    BY <1>b, <1>2 DEF Closing
  <2>2. Cardinality(InFlight') = Cardinality(InFlight)
    BY <1>2 DEF Closing
  <2> QED
    BY <1>0, <1>c, <2>1, <2>2
<1>3. ASSUME NEW s \in Symbols, Approving(s) PROVE LeakInv'
  <2>1. ~circuit_breaker'
    BY <1>3 DEF Approving, MayEnter
  <2> QED
    BY <1>d, <2>1
<1>4. ASSUME NEW s \in Symbols, Failing(s) PROVE LeakInv'
  <2>1. leaked' = IF circuit_breaker' THEN leaked ELSE 0
    BY <1>b, <1>4 DEF Failing
  <2>2. Cardinality(InFlight') = Cardinality(InFlight) - 1
    BY <1>4, CountsAfter
  <2>3. circuit_breaker' <=> circuit_breaker
    BY <1>4 DEF Failing
  <2> QED
    BY <1>0, <1>c, <2>1, <2>2, <2>3
<1>5. ASSUME NEW s \in Symbols, Filling(s) PROVE LeakInv'
  <2>1. leaked' = IF circuit_breaker' THEN leaked + 1 ELSE 0
    BY <1>a, <1>5, CountsAfter DEF CountLeak
  <2>2. Cardinality(InFlight') = Cardinality(InFlight) - 1
    BY <1>5, CountsAfter
  <2>3. circuit_breaker' <=> circuit_breaker
    BY <1>5 DEF Filling
  <2> QED
    BY <1>0, <1>c, <2>1, <2>2, <2>3
<1> QED
  BY <1>1, <1>2, <1>3, <1>4, <1>5, StepCases

(* A new id is the counter, above every id in use; closing, failing and    *)
(* filling hand out none.                                                  *)
LEMMA IdsStep ==
  ASSUME CoreTypeOK, IdsDistinct, IdsBelowCounter, CoreNext
  PROVE  IdsDistinct' /\ IdsBelowCounter'
<1>0. /\ pos_id_counter \in Nat /\ pos_id_counter >= 1
      /\ pid \in [Symbols -> 0..MaxId] /\ InFlight \subseteq Symbols
      /\ open_positions \subseteq Int
  BY CoreAssumption DEF CoreTypeOK, TypeOK, InFlight, CoreAssumption
<1>1. CASE Quiet
  BY <1>1 DEF Quiet, IdsDistinct, IdsBelowCounter
<1>2. CASE Closing
  BY <1>2 DEF Closing, IdsDistinct, IdsBelowCounter
<1>3. ASSUME NEW s \in Symbols, Approving(s) PROVE IdsDistinct' /\ IdsBelowCounter'
  <2>1. pid'[s] = pos_id_counter /\ \A t \in InFlight : t # s /\ pid'[t] = pid[t]
    BY <1>0, <1>3 DEF Approving
  <2>2. pos_id_counter \in Positions /\ pos_id_counter \notin open_positions
    BY <1>0, <1>3, CoreAssumption DEF Approving, CoreAssumption, IdsBelowCounter
  <2>3. \A t \in InFlight : pid[t] # pos_id_counter
    BY <1>0 DEF IdsBelowCounter
  <2>4. IdsDistinct'
    BY <1>3, <2>1, <2>2, <2>3 DEF Approving, IdsDistinct
  <2>5. IdsBelowCounter'
    BY <1>0, <1>3, <2>1, <2>2, CoreAssumption
    DEF Approving, IdsBelowCounter, CoreAssumption
  <2> QED
    BY <2>4, <2>5
<1>4. ASSUME NEW s \in Symbols, Failing(s) PROVE IdsDistinct' /\ IdsBelowCounter'
  BY <1>0, <1>4 DEF Failing, IdsDistinct, IdsBelowCounter
<1>5. ASSUME NEW s \in Symbols, Filling(s) PROVE IdsDistinct' /\ IdsBelowCounter'
  BY <1>0, <1>5 DEF Filling, IdsDistinct, IdsBelowCounter
<1> QED
  BY <1>1, <1>2, <1>3, <1>4, <1>5, StepCases

(* main.py starts with no positions and every task idle. *)
LEMMA CoreStart == CoreInit => CoreInv
<1> SUFFICES ASSUME CoreInit PROVE CoreInv
  OBVIOUS
<1>1. InFlight = {} /\ open_positions = {}
  BY DEF CoreInit, Init, InFlight
<1>2. Cardinality(InFlight) = 0 /\ Cardinality(open_positions) = 0
  BY <1>1, FS_EmptySet
<1>3. CoreTypeOK
  BY GuardianInit, CoreAssumption
  DEF CoreInit, GuardianInv, CoreTypeOK, CoreAssumption, Stages
<1>4. CapOvershootBounded /\ LeakInv
  BY <1>2, <1>3, FiniteState, CoreAssumption
  DEF CapOvershootBounded, LeakInv, HaltLeakBounded, CoreInit, Init, CoreAssumption
<1>5. IdsDistinct /\ IdsBelowCounter
  BY <1>1 DEF IdsDistinct, IdsBelowCounter
<1> QED
  BY <1>3, <1>4, <1>5 DEF CoreInv

(* CoreInv holds of every behaviour of main.py's tasks. *)
THEOREM CoreSafe == CoreSpec => []CoreInv
<1>1. CoreInv /\ CoreNext => CoreInv'
  <2> SUFFICES ASSUME CoreInv, CoreNext PROVE CoreInv'
    OBVIOUS
  <2>1. CoreTypeOK'
    BY CoreTypeStep DEF CoreInv
  <2> QED
    BY <2>1, CapStep, LeakStep, IdsStep DEF CoreInv
<1>2. CoreInv /\ UNCHANGED core => CoreInv'
  BY DEF CoreInv, CoreTypeOK, TypeOK, CapOvershootBounded, LeakInv, HaltLeakBounded,
         IdsDistinct, IdsBelowCounter, InFlight, core, tasks, guardian, pnl, halt,
         poll
<1> QED
  BY CoreStart, <1>1, <1>2, PTL DEF CoreSpec

(* Type correctness of the tasks and of the state they share.              *)
THEOREM CoreTypeCorrect == CoreSpec => []CoreTypeOK
<1>1. CoreInv => CoreTypeOK
  BY DEF CoreInv
<1> QED
  BY CoreSafe, <1>1, PTL

(* The cap of open positions is overshot by less than the number of        *)
(* symbols.                                                                *)
THEOREM CapCorrect == CoreSpec => []CapOvershootBounded
<1>1. CoreInv => CapOvershootBounded
  BY DEF CoreInv
<1> QED
  BY CoreSafe, <1>1, PTL

(* A halt lets through only the orders in flight when it began.            *)
THEOREM HaltLeakCorrect == CoreSpec => []HaltLeakBounded
<1>1. CoreInv => HaltLeakBounded
  BY DEF CoreInv, LeakInv
<1> QED
  BY CoreSafe, <1>1, PTL

(* No registration of a fill overwrites another position. *)
THEOREM IdsCorrect == CoreSpec => []IdsDistinct
<1>1. CoreInv => IdsDistinct
  BY DEF CoreInv
<1> QED
  BY CoreSafe, <1>1, PTL

(* The tasks of main.py implement the guardian's environment: each of      *)
(* their steps is a step of the guardian's specification or a stutter.     *)
THEOREM CoreRefinesGuardian == CoreSpec => Init /\ [][Next]_guardian
<1>1. CoreInit => Init
  BY DEF CoreInit
<1>2. CoreInv /\ [CoreNext]_core => [Next]_guardian
  BY CoreStepIsGuardianStep DEF CoreInv
<1> QED
  BY <1>1, <1>2, CoreSafe, PTL DEF CoreSpec

(* So the guardian's safety holds of the whole program: a cooldown halts   *)
(* it, unless the operator resumed, and a locked day was earned.           *)
THEOREM CoreGuardianSafe == CoreSpec => [](CooldownHalts /\ LockIsEarned)
<1>1. GuardianInv /\ [Next]_guardian => GuardianInv'
  BY TypeStep, CooldownStep, LockStep DEF GuardianInv
<1>2. GuardianInv => CooldownHalts /\ LockIsEarned
  BY DEF GuardianInv
<1> QED
  BY <1>1, <1>2, GuardianInit, CoreRefinesGuardian, PTL

=============================================================================
