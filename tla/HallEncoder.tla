----------------------------- MODULE HallEncoder -----------------------------
(***************************************************************************)
(* The encoder of one wheel: three Hall sensors whose levels step through  *)
(* six states per electrical turn, one pin changing at a time, and one     *)
(* interrupt routine, countPulse, attached to the changes of all three.    *)
(*                                                                         *)
(* The routine reads the pins one after the other, compares with the state *)
(* it saw last, and counts up if that is its predecessor, else down.       *)
(* Each pin has one pending flag, cleared on entry; the routine does not   *)
(* interrupt itself; another routine, or noInterrupts(), may delay it.     *)
(***************************************************************************)
EXTENDS Integers

CONSTANTS
  MaxPos,    \* bound: how far the wheel turns either way
  MaxLate    \* bound: edges that come before an earlier one was dealt with

ASSUME EncoderAssumption == MaxPos \in Nat /\ MaxLate \in Nat

VARIABLES
  pos,         \* states the wheel has turned forward
  pending,     \* pins whose interrupt is pending
  pc,          \* "idle", or the pin countPulse reads next: "hv", "hu"
  valA, valB,  \* what it has read so far
  lastState,
  pulseCount,
  late         \* edges that found an interrupt pending or being served

vars == <<pos, pending, pc, valA, valB, lastState, pulseCount, late>>

\* The states in forward order, as (hu hv hw) in binary.
Cycle == [i \in 0..5 |-> CASE i = 0 -> 5 [] i = 1 -> 1 [] i = 2 -> 3
                           [] i = 3 -> 2 [] i = 4 -> 6 [] i = 5 -> 4]
Forward == {<<5, 1>>, <<1, 3>>, <<3, 2>>, <<2, 6>>, <<6, 4>>, <<4, 5>>}

State(p) == Cycle[p % 6]
hw(s) == s % 2
hv(s) == (s \div 2) % 2
hu(s) == s \div 4

Changed(s, t) ==
  IF hw(s) # hw(t) THEN "hw" ELSE IF hv(s) # hv(t) THEN "hv" ELSE "hu"

\* The wheel stands still since the pins were first read.
Init ==
  /\ pos = 0
  /\ pending = {}
  /\ pc = "idle"
  /\ valA = 0 /\ valB = 0
  /\ lastState = State(0)
  /\ pulseCount = 0
  /\ late = 0

Prompt == pc = "idle" /\ pending = {}

\* The wheel turns by one state, one pin changes.
Edge(p) ==
  /\ p \in -MaxPos..MaxPos
  /\ pos' = p
  /\ pending' = pending \cup {Changed(State(pos), State(p))}
  /\ late' = IF Prompt THEN late ELSE late + 1
  /\ late' <= MaxLate
  /\ UNCHANGED <<pc, valA, valB, lastState, pulseCount>>

Turn == Edge(pos + 1) \/ Edge(pos - 1)

\* countPulse is entered for a pin and reads hw_pin.
Enter ==
  /\ pc = "idle"
  /\ \E pin \in pending : pending' = pending \ {pin}
  /\ valA' = hw(State(pos))
  /\ pc' = "hv"
  /\ UNCHANGED <<pos, valB, lastState, pulseCount, late>>

\* It reads hv_pin.
ReadHv ==
  /\ pc = "hv"
  /\ valB' = hv(State(pos))
  /\ pc' = "hu"
  /\ UNCHANGED <<pos, pending, valA, lastState, pulseCount, late>>

\* Seeded fault: a state missing from the list of forward steps.
CountedWithoutWrap(s, t) ==
  IF s = t THEN 0 ELSE IF <<s, t>> \in Forward \ {<<4, 5>>} THEN 1 ELSE -1

Counted(s, t) ==
  IF s = t THEN 0 ELSE IF <<s, t>> \in Forward THEN 1 ELSE -1

\* Seeded fault: interrupts that came meanwhile are dropped on return.
CountDropsPending ==
  /\ pc = "hu"
  /\ LET currentState == 4 * hu(State(pos)) + 2 * valB + valA IN
       /\ pulseCount' = pulseCount + Counted(lastState, currentState)
       /\ lastState' = currentState
  /\ pc' = "idle"
  /\ pending' = {}
  /\ UNCHANGED <<pos, valA, valB, late>>

\* It reads hu_pin, counts and returns.
Count ==
  /\ pc = "hu"
  /\ LET currentState == 4 * hu(State(pos)) + 2 * valB + valA IN
       /\ pulseCount' = pulseCount + Counted(lastState, currentState)
       /\ lastState' = currentState
  /\ pc' = "idle"
  /\ UNCHANGED <<pos, pending, valA, valB, late>>

CountPulse == Enter \/ ReadHv \/ Count

Next == Turn \/ CountPulse

Spec == Init /\ [][Next]_vars

Distance(m, n) == IF m < n THEN n - m ELSE m - n

-----------------------------------------------------------------------------
TypeOK ==
  /\ pos \in -MaxPos..MaxPos
  /\ pending \subseteq {"hw", "hv", "hu"}
  /\ pc \in {"idle", "hv", "hu"}
  /\ valA \in 0..1 /\ valB \in 0..1
  /\ lastState \in 0..7
  /\ pulseCount \in Int
  /\ late \in 0..MaxLate

\* No final state is missed: with no interrupt to serve, the state last seen
\* is the one on the pins, whatever happened while countPulse was reading
\* them (encoderFeedback.hpp:43-64).
Settled == Prompt => lastState = State(pos)

\* The count is exact as long as every edge is served before the next; an
\* edge that comes too early costs at most three counts
\* (encoderFeedback.hpp:52-61).
BoundedDrift == Prompt => Distance(pulseCount, pos) <= 3 * late
=============================================================================
