---------------------------- MODULE FirmwareProofs ----------------------------
(***************************************************************************)
(* The safety properties of the firmware's two components, its control of  *)
(* a motor and its Hall encoder.                                           *)
(*                                                                         *)
(* MotorControl: the pins carry the effort, which goes up and down by one, *)
(* for every limit, mounting, set of targets and pattern of arrivals.      *)
(*                                                                         *)
(* HallEncoder: countPulse never misses the final state of the sensors,    *)
(* whatever edges come while it reads them and however far the wheel       *)
(* turns; and the count strays from the position by three for each edge    *)
(* that comes too early, at most.                                          *)
(***************************************************************************)
EXTENDS MotorControl, HallEncoder, TLAPS

-----------------------------------------------------------------------------
(* The control of a motor                                                  *)

MotorInv == MotorTypeOK /\ EffortApplied

\* One packet changes the effort by at most one and keeps it in range.
LEMMA EffortStep ==
  ASSUME total_pwm \in -MaxPwm..MaxPwm, NEW rpm, NEW t
  PROVE  LET e == Constrained(Adjusted(rpm, t))
         IN  /\ e \in -MaxPwm..MaxPwm
             /\ total_pwm - 1 <= e /\ e <= total_pwm + 1
<1> DEFINE a == Adjusted(rpm, t)
<1>1. a \in {total_pwm - 1, total_pwm, total_pwm + 1}
  BY DEF Adjusted
<1> HIDE DEF a
<1>2. /\ Constrained(a) \in -MaxPwm..MaxPwm
      /\ total_pwm - 1 <= Constrained(a) /\ Constrained(a) <= total_pwm + 1
  BY <1>1, MotorAssumption DEF Constrained
<1> QED
  BY <1>2 DEF a

\* What moveOpenLoop makes of an effort in range.
LEMMA OpenLoopPins ==
  ASSUME NEW e \in -MaxPwm..MaxPwm, moveOpenLoop(e * Factor)
  PROVE  /\ duty' = Magnitude(e) /\ duty' \in 0..MaxPwm
         /\ e = 0 => dir' = dir /\ brk' = "HIGH"
         /\ e # 0 => /\ dir' \in {"LOW", "HIGH"} /\ brk' = "LOW"
                     /\ dir' = "LOW" <=> e * Factor > 0
<1> DEFINE p == e * Factor
<1>1. /\ p \in -MaxPwm..MaxPwm /\ Magnitude(p) = Magnitude(e)
      /\ p = 0 <=> e = 0
  <2>1. CASE Factor = 1
    BY <2>1, MotorAssumption DEF Magnitude
  <2>2. CASE Factor = -1
    BY <2>2, MotorAssumption DEF Magnitude
  <2> QED
    BY <2>1, <2>2, MotorAssumption
<1>2. InRange(p) = p
  <2> HIDE DEF p
  <2> QED
    BY <1>1, MotorAssumption DEF InRange
<1>3. /\ dir' = (IF p > 0 THEN "LOW" ELSE IF p < 0 THEN "HIGH" ELSE dir)
      /\ brk' = (IF p = 0 THEN "HIGH" ELSE "LOW")
      /\ duty' = Magnitude(p)
  BY <1>2 DEF moveOpenLoop
<1>4. Magnitude(e) \in 0..MaxPwm
  BY MotorAssumption DEF Magnitude
<1> HIDE DEF p
<1>5. /\ e = 0 => dir' = dir /\ brk' = "HIGH"
      /\ e # 0 => /\ dir' \in {"LOW", "HIGH"} /\ brk' = "LOW"
                  /\ dir' = "LOW" <=> p > 0
  BY <1>1, <1>3, MotorAssumption
<1> QED
  BY <1>1, <1>3, <1>4, <1>5 DEF p

\* The effort does not skip 0, so neither does what the pins show of it.
LEMMA MagnitudeStep ==
  ASSUME NEW a \in Int, NEW b \in Int, a - 1 <= b, b <= a + 1
  PROVE  /\ Magnitude(a) \in Nat /\ Magnitude(b) \in Nat
         /\ Magnitude(a) = 0 <=> a = 0
         /\ Magnitude(b) = 0 <=> b = 0
         /\ Magnitude(b) <= Magnitude(a) + 1
         /\ Magnitude(b) >= Magnitude(a) - 1
         /\ a # 0 /\ b # 0 => (b * Factor > 0 <=> a * Factor > 0)
<1>1. /\ Magnitude(a) \in Nat /\ Magnitude(b) \in Nat
      /\ Magnitude(a) = 0 <=> a = 0
      /\ Magnitude(b) = 0 <=> b = 0
      /\ Magnitude(b) <= Magnitude(a) + 1
      /\ Magnitude(b) >= Magnitude(a) - 1
  BY DEF Magnitude
<1>2. a # 0 /\ b # 0 => (b > 0 <=> a > 0)
  OBVIOUS
<1>3. \A n \in Int : n # 0 /\ Factor = 1 => (n * Factor > 0 <=> n > 0)
  OBVIOUS
<1>4. \A n \in Int : n # 0 /\ Factor = -1 => (n * Factor > 0 <=> ~(n > 0))
  OBVIOUS
<1>5. Factor = 1 \/ Factor = -1
  BY MotorAssumption
<1>6. a # 0 /\ b # 0 => (b * Factor > 0 <=> a * Factor > 0)
  BY <1>2, <1>3, <1>4, <1>5
<1> QED
  BY <1>1, <1>6

-----------------------------------------------------------------------------
LEMMA InitMotorInv == MotorInit => MotorInv
<1> SUFFICES ASSUME MotorInit PROVE MotorInv
  OBVIOUS
<1>1. MotorTypeOK
  BY MotorAssumption DEF MotorInit, MotorTypeOK
<1>2. EffortApplied
  BY DEF MotorInit, EffortApplied, Magnitude
<1> QED
  BY <1>1, <1>2 DEF MotorInv

\* Time and the ticks counted stay numbers, and the wheel stays between two
\* ticks.
LEMMA ElapsedType ==
  ASSUME MotorTypeOK, NEW d \in Spacing
  PROVE  /\ (offTick + Speed * d) % TickWay \in 0..(TickWay - 1)
         /\ Elapsed(d).ticks \in Int
         /\ Elapsed(d).time \in Nat \ {0}
         /\ Elapsed(d) \in [ticks : Int, time : Nat \ {0}]
<1>1. d \in Nat \ {0}
  BY MotorAssumption
<1>2. Speed \in Int
  <2>1. duty \in Int /\ Gain \in Int /\ Factor \in Int
    BY MotorAssumption DEF MotorTypeOK
  <2>2. -duty \in Int
    BY <2>1
  <2>3. Gain * Factor \in Int
    BY <2>1
  <2>4. (Gain * Factor) * duty \in Int /\ (Gain * Factor) * (-duty) \in Int
    BY <2>1, <2>2, <2>3
  <2> QED
    BY <2>4 DEF Speed
<1>3. Speed * d \in Int
  BY <1>1, <1>2
<1> DEFINE way == offTick + Speed * d
<1>4. way \in Int
  BY <1>3, MotorAssumption DEF MotorTypeOK
<1> HIDE DEF way
<1>5. /\ way \div TickWay \in Int
      /\ way % TickWay \in 0..(TickWay - 1)
  BY <1>4, MotorAssumption
<1>6. ticks + way \div TickWay \in Int
  BY <1>5 DEF MotorTypeOK
<1>7. since + d \in Nat \ {0}
  BY <1>1 DEF MotorTypeOK
<1> QED
  BY <1>5, <1>6, <1>7 DEF Elapsed, way

LEMMA StopStep ==
  ASSUME MotorInv, NEW d \in Spacing, Stop(d)
  PROVE  MotorInv' /\ dir' = dir /\ duty' = 0
<1>1. /\ Elapsed(d).ticks \in Int /\ Elapsed(d).time \in Nat
      /\ offTick' \in 0..(TickWay - 1)
  BY ElapsedType DEF MotorInv, Stop, Turns
<1>2. dir' = dir /\ brk' = "HIGH" /\ duty' = 0
  BY MotorAssumption DEF Stop, moveOpenLoop, InRange, Magnitude
<1>3. /\ target' = 0 /\ total_pwm' = 0 /\ current_rpm' = current_rpm
      /\ ticks' = Elapsed(d).ticks /\ since' = Elapsed(d).time
  BY DEF Stop
<1>4. MotorTypeOK'
  BY <1>1, <1>2, <1>3, MotorAssumption DEF MotorInv, MotorTypeOK
<1>5. EffortApplied'
  BY <1>2, <1>3 DEF EffortApplied, Magnitude
<1> QED
  BY <1>2, <1>4, <1>5 DEF MotorInv

LEMMA DriveStep ==
  ASSUME MotorInv, NEW t \in Targets, NEW d \in Spacing, Drive(t, d)
  PROVE  MotorInv' /\ (dir' # dir => duty = 0) /\ duty' <= duty + 1
           /\ duty' >= duty - 1
<1>1. /\ Elapsed(d).ticks \in Int /\ Elapsed(d).time \in Nat
      /\ offTick' \in 0..(TickWay - 1)
      /\ Elapsed(d) \in [ticks : Int, time : Nat \ {0}]
  BY ElapsedType DEF MotorInv, Drive, Turns
<1>2. /\ current_rpm' \in [ticks : Int, time : Nat \ {0}]
      /\ ticks' \in Int /\ since' \in Nat
  <2>1. CASE since + d >= SampleInterval
    BY <1>1, <2>1 DEF Drive, getRPM
  <2>2. CASE ~(since + d >= SampleInterval)
    BY <1>1, <2>2 DEF Drive, getRPM, MotorInv, MotorTypeOK
  <2> QED
    BY <2>1, <2>2
<1>3. /\ total_pwm \in -MaxPwm..MaxPwm /\ total_pwm' \in -MaxPwm..MaxPwm
      /\ total_pwm - 1 <= total_pwm' /\ total_pwm' <= total_pwm + 1
  BY EffortStep DEF MotorInv, MotorTypeOK, Drive
<1>4. /\ duty' = Magnitude(total_pwm') /\ duty' \in 0..MaxPwm
      /\ total_pwm' = 0 => dir' = dir /\ brk' = "HIGH"
      /\ total_pwm' # 0 => /\ dir' \in {"LOW", "HIGH"} /\ brk' = "LOW"
                           /\ dir' = "LOW" <=> total_pwm' * Factor > 0
  BY <1>3, OpenLoopPins DEF Drive
<1>5. /\ duty = Magnitude(total_pwm) /\ dir \in {"LOW", "HIGH"}
      /\ duty > 0 => (dir = "LOW" <=> total_pwm * Factor > 0)
  BY DEF MotorInv, MotorTypeOK, EffortApplied
<1>6. MotorTypeOK'
  <2>1. target' \in Targets
    BY DEF Drive
  <2>2. dir' \in {"LOW", "HIGH"} /\ brk' \in {"LOW", "HIGH"}
    BY <1>4, <1>5
  <2> QED
    BY <1>1, <1>2, <1>3, <1>4, <2>1, <2>2 DEF MotorTypeOK
<1> DEFINE e == total_pwm'
<1>7. /\ total_pwm \in Int /\ e \in Int
      /\ total_pwm - 1 <= e /\ e <= total_pwm + 1
  BY <1>3, MotorAssumption
<1> HIDE DEF e
<1>8. /\ Magnitude(total_pwm) \in Nat /\ Magnitude(e) \in Nat
      /\ Magnitude(total_pwm) = 0 <=> total_pwm = 0
      /\ Magnitude(e) = 0 <=> e = 0
      /\ Magnitude(e) <= Magnitude(total_pwm) + 1
      /\ Magnitude(e) >= Magnitude(total_pwm) - 1
      /\ total_pwm # 0 /\ e # 0 =>
           (e * Factor > 0 <=> total_pwm * Factor > 0)
  BY <1>7, MagnitudeStep
<1>9. EffortApplied'
  <2>1. brk' = "HIGH" => duty' = 0
    BY <1>4, <1>8 DEF e
  <2>2. duty' > 0 => (dir' = "LOW" <=> total_pwm' * Factor > 0)
    BY <1>4, <1>8 DEF e
  <2> QED
    BY <1>4, <2>1, <2>2 DEF EffortApplied
<1>10. duty' <= duty + 1 /\ duty' >= duty - 1
  BY <1>4, <1>5, <1>8 DEF e
<1>11. dir' # dir => duty = 0
  <2> SUFFICES ASSUME duty # 0, total_pwm' # 0 PROVE dir' = dir
    BY <1>4
  <2>1. total_pwm # 0 /\ duty > 0
    BY <1>5, <1>8
  <2>2. total_pwm' * Factor > 0 <=> total_pwm * Factor > 0
    BY <1>8, <2>1 DEF e
  <2> QED
    BY <1>4, <1>5, <2>1, <2>2
<1> QED
  BY <1>6, <1>9, <1>10, <1>11 DEF MotorInv

LEMMA RestartStep ==
  ASSUME MotorInv, Restart
  PROVE  MotorInv' /\ duty' = 0
<1>1. MotorTypeOK'
  BY MotorAssumption DEF Restart, MotorTypeOK
<1>2. EffortApplied'
  BY DEF Restart, EffortApplied, Magnitude
<1> QED
  BY <1>1, <1>2 DEF MotorInv, Restart

LEMMA NextMotorInv == MotorInv /\ [MotorNext]_motorVars => MotorInv'
<1> SUFFICES ASSUME MotorInv, [MotorNext]_motorVars PROVE MotorInv'
  OBVIOUS
<1>1. CASE Commanded
  BY <1>1, StopStep, DriveStep DEF Commanded, moveClosedLoop
<1>2. CASE Restart
  BY <1>2, RestartStep
<1>3. CASE UNCHANGED motorVars
  BY <1>3 DEF motorVars, MotorInv, MotorTypeOK, EffortApplied
<1> QED
  BY <1>1, <1>2, <1>3 DEF MotorNext

LEMMA SpecMotorInv == MotorSpec => []MotorInv
  BY InitMotorInv, NextMotorInv, PTL DEF MotorSpec

-----------------------------------------------------------------------------
\* The effort stays in the range moveOpenLoop accepts, and the variables
\* keep their types (wheel.hpp:84-85).
THEOREM MotorTypeCorrect == MotorSpec => []MotorTypeOK
<1>1. MotorInv => MotorTypeOK
  BY DEF MotorInv
<1> QED
  BY <1>1, SpecMotorInv, PTL

\* The pins show the effort computed, never the fallback of moveOpenLoop
\* (wheel.hpp:38-56).
THEOREM EffortAlwaysApplied == MotorSpec => []EffortApplied
<1>1. MotorInv => EffortApplied
  BY DEF MotorInv
<1> QED
  BY <1>1, SpecMotorInv, PTL

\* A driven wheel is never reversed without passing through rest.
THEOREM NeverReversedUnderPower == MotorSpec => NoReversalUnderPower
<1>1. MotorInv /\ [MotorNext]_motorVars => [dir' # dir => duty = 0 \/ duty' = 0]_motorVars
  <2> SUFFICES ASSUME MotorInv, MotorNext
               PROVE  dir' # dir => duty = 0 \/ duty' = 0
    OBVIOUS
  <2>1. CASE Commanded
    BY <2>1, StopStep, DriveStep DEF Commanded, moveClosedLoop
  <2>2. CASE Restart
    BY <2>2, RestartStep
  <2> QED
    BY <2>1, <2>2 DEF MotorNext
<1> QED
  BY <1>1, SpecMotorInv, PTL DEF MotorSpec, NoReversalUnderPower

\* The drive level grows by at most one per packet and drops by more than one
\* only to nothing.
THEOREM AlwaysSoftStart == MotorSpec => SoftStart
<1> DEFINE A == duty' <= duty + 1 /\ (duty' < duty - 1 => duty' = 0)
<1>1. MotorInv /\ [MotorNext]_motorVars => [A]_motorVars
  <2> SUFFICES ASSUME MotorInv, MotorNext PROVE A
    OBVIOUS
  <2>1. duty \in Nat
    BY DEF MotorInv, MotorTypeOK
  <2>2. ASSUME duty' = 0 PROVE A
    BY <2>1, <2>2
  <2>3. ASSUME NEW t \in Targets, NEW d \in Spacing, Drive(t, d) PROVE A
    <3>1. MotorInv' /\ duty' <= duty + 1 /\ duty' >= duty - 1
      BY <2>3, DriveStep
    <3>2. duty' \in Nat
      BY <3>1 DEF MotorInv, MotorTypeOK
    <3> QED
      BY <2>1, <3>1, <3>2
  <2>4. CASE Commanded
    BY <2>2, <2>3, <2>4, StopStep DEF Commanded, moveClosedLoop
  <2>5. CASE Restart
    BY <2>2, <2>5, RestartStep
  <2> QED
    BY <2>4, <2>5 DEF MotorNext
<1> QED
  BY <1>1, SpecMotorInv, PTL DEF MotorSpec, SoftStart

-----------------------------------------------------------------------------
(* The Hall encoder                                                        *)

Pins == {"hw", "hv", "hu"}

EncoderTypeOK ==
  /\ pos \in Int
  /\ pending \subseteq Pins
  /\ pc \in {"idle", "hv", "hu"}
  /\ valA \in {0, 1} /\ valB \in {0, 1}
  /\ lastState \in 0..7

\* Unless its interrupt is pending, a pin was read at its present level.
SeenHw ==
  "hw" \notin pending =>
    (IF pc = "idle" THEN hw(lastState) ELSE valA) = hw(State(pos))
SeenHv ==
  "hv" \notin pending =>
    /\ pc = "idle" => hv(lastState) = hv(State(pos))
    /\ pc = "hu" => valB = hv(State(pos))
SeenHu ==
  "hu" \notin pending => (pc = "idle" => hu(lastState) = hu(State(pos)))

IInv == EncoderTypeOK /\ SeenHw /\ SeenHv /\ SeenHu

-----------------------------------------------------------------------------
LEMMA CycleValues ==
  /\ Cycle[0] = 5 /\ Cycle[1] = 1 /\ Cycle[2] = 3
  /\ Cycle[3] = 2 /\ Cycle[4] = 6 /\ Cycle[5] = 4
<1>1. Cycle[0] = 5
  BY DEF Cycle
<1>2. Cycle[1] = 1
  BY DEF Cycle
<1>3. Cycle[2] = 3
  BY DEF Cycle
<1>4. Cycle[3] = 2
  BY DEF Cycle
<1>5. Cycle[4] = 6
  BY DEF Cycle
<1>6. Cycle[5] = 4
  BY DEF Cycle
<1> QED
  BY <1>1, <1>2, <1>3, <1>4, <1>5, <1>6

LEMMA StateValues == \A p \in Int : State(p) \in {1, 2, 3, 4, 5, 6}
<1> SUFFICES ASSUME NEW p \in Int PROVE State(p) \in {1, 2, 3, 4, 5, 6}
  OBVIOUS
<1>1. p % 6 \in {0, 1, 2, 3, 4, 5}
  OBVIOUS
<1> QED
  BY <1>1, CycleValues DEF State

\* The levels of the pins in a state, and the state from the levels.
LEMMA Bits ==
  \A s \in 0..7 :
    /\ hw(s) \in {0, 1} /\ hv(s) \in {0, 1} /\ hu(s) \in {0, 1}
    /\ s = 4 * hu(s) + 2 * hv(s) + hw(s)
BY DEF hw, hv, hu

LEMMA BitsBack ==
  \A a, b, c \in {0, 1} :
    LET s == 4 * c + 2 * b + a
    IN  s \in 0..7 /\ hw(s) = a /\ hv(s) = b /\ hu(s) = c
BY DEF hw, hv, hu

\* A turn by one state changes the level of one pin.
LEMMA OnePinChanges ==
  ASSUME NEW p \in Int, NEW q \in Int, q = p + 1 \/ q = p - 1
  PROVE  LET x == Changed(State(p), State(q))
         IN  /\ x \in Pins
             /\ x # "hw" => hw(State(q)) = hw(State(p))
             /\ x # "hv" => hv(State(q)) = hv(State(p))
             /\ x # "hu" => hu(State(q)) = hu(State(p))
<1>1. \/ p % 6 = 0 /\ q % 6 \in {1, 5}
      \/ p % 6 = 1 /\ q % 6 \in {0, 2}
      \/ p % 6 = 2 /\ q % 6 \in {1, 3}
      \/ p % 6 = 3 /\ q % 6 \in {2, 4}
      \/ p % 6 = 4 /\ q % 6 \in {3, 5}
      \/ p % 6 = 5 /\ q % 6 \in {0, 4}
  OBVIOUS
<1>2. <<State(p), State(q)>> \in
        {<<5, 1>>, <<5, 4>>, <<1, 5>>, <<1, 3>>, <<3, 1>>, <<3, 2>>,
         <<2, 3>>, <<2, 6>>, <<6, 2>>, <<6, 4>>, <<4, 5>>, <<4, 6>>}
  BY <1>1, CycleValues DEF State
<1>3. \A s, t \in 1..6 :
        <<s, t>> \in
          {<<5, 1>>, <<5, 4>>, <<1, 5>>, <<1, 3>>, <<3, 1>>, <<3, 2>>,
           <<2, 3>>, <<2, 6>>, <<6, 2>>, <<6, 4>>, <<4, 5>>, <<4, 6>>}
        => /\ Changed(s, t) \in Pins
           /\ Changed(s, t) # "hw" => hw(t) = hw(s)
           /\ Changed(s, t) # "hv" => hv(t) = hv(s)
           /\ Changed(s, t) # "hu" => hu(t) = hu(s)
  BY DEF Changed, hw, hv, hu, Pins
<1>4. State(p) \in 1..6 /\ State(q) \in 1..6
  BY StateValues
<1> QED
  BY <1>2, <1>3, <1>4

-----------------------------------------------------------------------------
LEMMA InitIInv == Init => IInv
<1> SUFFICES ASSUME Init PROVE IInv
  OBVIOUS
<1>1. State(0) \in {1, 2, 3, 4, 5, 6}
  BY StateValues
<1> QED
  BY <1>1 DEF Init, IInv, EncoderTypeOK, SeenHw, SeenHv, SeenHu, Pins

LEMMA NextIInv == IInv /\ [Next]_vars => IInv'
<1> SUFFICES ASSUME IInv, [Next]_vars PROVE IInv'
  OBVIOUS
<1>1. ASSUME NEW p \in Int, p = pos + 1 \/ p = pos - 1, Edge(p)
      PROVE  IInv'
  <2> DEFINE x == Changed(State(pos), State(p))
  <2>1. /\ x \in Pins
        /\ x # "hw" => hw(State(p)) = hw(State(pos))
        /\ x # "hv" => hv(State(p)) = hv(State(pos))
        /\ x # "hu" => hu(State(p)) = hu(State(pos))
    BY <1>1, OnePinChanges DEF IInv, EncoderTypeOK
  <2>2. /\ pos' = p /\ pending' = pending \cup {x} /\ pc' = pc
        /\ valA' = valA /\ valB' = valB /\ lastState' = lastState
    BY <1>1 DEF Edge
  <2> HIDE DEF x
  <2>3. EncoderTypeOK'
    BY <1>1, <2>1, <2>2 DEF IInv, EncoderTypeOK
  <2>4. SeenHw' /\ SeenHv' /\ SeenHu'
    BY <2>1, <2>2 DEF IInv, SeenHw, SeenHv, SeenHu
  <2> QED
    BY <2>3, <2>4 DEF IInv
<1>2. CASE Turn
  <2>1. pos + 1 \in Int /\ pos - 1 \in Int
    BY DEF IInv, EncoderTypeOK
  <2> QED
    BY <1>1, <1>2, <2>1 DEF Turn
<1>3. State(pos) \in 0..7
  BY StateValues DEF IInv, EncoderTypeOK
<1>4. CASE Enter
  <2>1. /\ pc = "idle" /\ pc' = "hv" /\ pending' \subseteq pending
        /\ valA' = hw(State(pos)) /\ valA' \in {0, 1}
        /\ pos' = pos /\ valB' = valB /\ lastState' = lastState
    BY <1>3, <1>4, Bits DEF Enter
  <2> QED
    BY <2>1 DEF IInv, EncoderTypeOK, SeenHw, SeenHv, SeenHu
<1>5. CASE ReadHv
  <2>1. /\ pc = "hv" /\ pc' = "hu" /\ pending' = pending
        /\ valB' = hv(State(pos)) /\ valB' \in {0, 1}
        /\ pos' = pos /\ valA' = valA /\ lastState' = lastState
    BY <1>3, <1>5, Bits DEF ReadHv
  <2> QED
    BY <2>1 DEF IInv, EncoderTypeOK, SeenHw, SeenHv, SeenHu
<1>6. CASE Count
  <2> DEFINE s == 4 * hu(State(pos)) + 2 * valB + valA
  <2>1. /\ pc = "hu" /\ pc' = "idle" /\ pending' = pending
        /\ lastState' = s
        /\ pos' = pos /\ valA' = valA /\ valB' = valB
    BY <1>6 DEF Count
  <2>2. s \in 0..7 /\ hw(s) = valA /\ hv(s) = valB /\ hu(s) = hu(State(pos))
    BY <1>3, Bits, BitsBack DEF IInv, EncoderTypeOK
  <2> HIDE DEF s
  <2> QED
    BY <2>1, <2>2 DEF IInv, EncoderTypeOK, SeenHw, SeenHv, SeenHu
<1>7. CASE UNCHANGED vars
  BY <1>7 DEF vars, IInv, EncoderTypeOK, SeenHw, SeenHv, SeenHu
<1> QED
  BY <1>2, <1>4, <1>5, <1>6, <1>7 DEF Next, CountPulse

\* With no interrupt to serve, the state last seen is the one on the pins,
\* whatever happened while countPulse read them (encoderFeedback.hpp:43-64).
THEOREM FinalStateSeen == Spec => []Settled
<1>1. ASSUME IInv PROVE Settled
  <2> SUFFICES ASSUME pc = "idle", pending = {} PROVE lastState = State(pos)
    BY DEF Settled, Prompt
  <2>1. State(pos) \in 0..7 /\ lastState \in 0..7
    BY <1>1, StateValues DEF IInv, EncoderTypeOK
  <2>2. /\ hw(lastState) = hw(State(pos)) /\ hv(lastState) = hv(State(pos))
        /\ hu(lastState) = hu(State(pos))
    BY <1>1 DEF IInv, SeenHw, SeenHv, SeenHu
  <2> QED
    BY <2>1, <2>2, Bits
<1> QED
  BY <1>1, InitIInv, NextIInv, PTL DEF Spec

\* Every variable keeps its type, and the interrupt flags are those of pins.
THEOREM EncoderTypeCorrect == Spec => []TypeOK
<1>1. Init => TypeOK
  BY StateValues, EncoderAssumption DEF Init, TypeOK
<1>2. ASSUME TypeOK, IInv, IInv', [Next]_vars PROVE TypeOK'
  <2>1. /\ pending' \subseteq {"hw", "hv", "hu"} /\ pc' \in {"idle", "hv", "hu"}
        /\ valA' \in 0..1 /\ valB' \in 0..1 /\ lastState' \in 0..7
    BY <1>2 DEF IInv, EncoderTypeOK, Pins
  <2>2. CASE Turn
    BY <1>2, <2>1, <2>2, EncoderAssumption DEF Turn, Edge, TypeOK
  <2>3. CASE CountPulse \/ UNCHANGED vars
    <3>1. pos' = pos /\ late' = late
      BY <2>3 DEF CountPulse, Enter, ReadHv, Count, vars
    <3>2. pulseCount' \in Int
      <4>1. \A m, n \in 0..7 : Counted(m, n) \in {-1, 0, 1}
        BY DEF Counted
      <4>2. CASE Count
        <5>1. lastState \in 0..7 /\ lastState' \in 0..7 /\ pulseCount \in Int
          BY <1>2, <2>1 DEF TypeOK
        <5>2. pulseCount' = pulseCount + Counted(lastState, lastState')
          BY <4>2 DEF Count
        <5> QED
          BY <4>1, <5>1, <5>2
      <4>3. CASE Enter \/ ReadHv \/ UNCHANGED vars
        BY <1>2, <4>3 DEF Enter, ReadHv, vars, TypeOK
      <4> QED
        BY <2>3, <4>2, <4>3 DEF CountPulse
    <3> QED
      BY <1>2, <2>1, <3>1, <3>2 DEF TypeOK
  <2> QED
    BY <1>2, <2>2, <2>3 DEF Next
<1> QED
  BY <1>1, <1>2, InitIInv, NextIInv, PTL DEF Spec

-----------------------------------------------------------------------------
(* The drift                                                               *)

Flag(pin) == IF pin \in pending THEN 1 ELSE 0

\* How often countPulse will still count for the edges so far.
Left == Flag("hw") + Flag("hv") + Flag("hu") + (IF pc = "idle" THEN 0 ELSE 1)

Within(e, n) == -n <= e /\ e <= n

\* The next count, if any, will add nothing.
Known == Left <= 1 /\ lastState = State(pos) /\ Within(pulseCount - pos, 3 * late)

\* One edge is to be counted, and will be counted right.
OneBehind ==
  /\ Left = 1
  /\ \E d \in {-1, 1} :
       /\ lastState = State(pos - d)
       /\ Within(pulseCount - (pos - d), 3 * late)

\* A second one in the same direction came before the first was counted:
\* countPulse sees the state before or after it.
TwoBehind ==
  /\ Left <= 2
  /\ \E d \in {-1, 1} :
       /\ lastState = State(pos - 2 * d)
       /\ Within(pulseCount - (pos - 2 * d), 3 * late - 3)
       /\ pc # "idle" => valA \in {hw(State(pos)), hw(State(pos - d))}
       /\ pc = "hu" => valB \in {hv(State(pos)), hv(State(pos - d))}

\* Later counts may all go the wrong way.
Loose == Within(pulseCount - pos, 3 * late - Left)

Drift == Known \/ OneBehind \/ TwoBehind \/ Loose

LEMMA Counts ==
  /\ \A m, n : Counted(m, n) \in {-1, 0, 1} /\ Counted(m, m) = 0
  /\ \A p, q \in Int : \A d \in {-1, 1} :
       q = p + d => Counted(State(p), State(q)) = d
<1>1. \A m, n : Counted(m, n) \in {-1, 0, 1} /\ Counted(m, m) = 0
  BY DEF Counted
<1>2. ASSUME NEW p \in Int, NEW q \in Int, q = p + 1
      PROVE  /\ Counted(State(p), State(q)) = 1
             /\ Counted(State(q), State(p)) = -1
  <2>1. \/ p % 6 = 0 /\ q % 6 = 1
        \/ p % 6 = 1 /\ q % 6 = 2
        \/ p % 6 = 2 /\ q % 6 = 3
        \/ p % 6 = 3 /\ q % 6 = 4
        \/ p % 6 = 4 /\ q % 6 = 5
        \/ p % 6 = 5 /\ q % 6 = 0
    BY <1>2
  <2>2. \/ State(p) = 5 /\ State(q) = 1
        \/ State(p) = 1 /\ State(q) = 3
        \/ State(p) = 3 /\ State(q) = 2
        \/ State(p) = 2 /\ State(q) = 6
        \/ State(p) = 6 /\ State(q) = 4
        \/ State(p) = 4 /\ State(q) = 5
    BY <2>1, CycleValues DEF State
  <2> QED
    BY <2>2 DEF Counted, Forward
<1>3. ASSUME NEW p \in Int, NEW q \in Int, NEW d \in {-1, 1}, q = p + d
      PROVE  Counted(State(p), State(q)) = d
  <2>1. CASE d = 1
    BY <1>2, <1>3, <2>1
  <2>2. CASE d = -1
    <3>1. p = q + 1
      BY <1>3, <2>2
    <3> QED
      BY <1>2, <2>2, <3>1
  <2> QED
    BY <2>1, <2>2
<1> QED
  BY <1>1, <1>3

\* Reading the pins while the wheel turns by one gives one state or the other.
LEMMA MixedRead ==
  ASSUME NEW p \in Int, NEW q \in Int, q = p + 1 \/ q = p - 1,
         NEW a \in {hw(State(p)), hw(State(q))},
         NEW b \in {hv(State(p)), hv(State(q))}
  PROVE  4 * hu(State(q)) + 2 * b + a \in {State(p), State(q)}
<1>1. /\ State(p) \in 0..7 /\ State(q) \in 0..7
  BY StateValues
<1>2. /\ State(p) = 4 * hu(State(p)) + 2 * hv(State(p)) + hw(State(p))
      /\ State(q) = 4 * hu(State(q)) + 2 * hv(State(q)) + hw(State(q))
  BY <1>1, Bits
<1>3. \/ hw(State(q)) = hw(State(p)) /\ hv(State(q)) = hv(State(p))
      \/ hw(State(q)) = hw(State(p)) /\ hu(State(q)) = hu(State(p))
      \/ hv(State(q)) = hv(State(p)) /\ hu(State(q)) = hu(State(p))
  BY OnePinChanges DEF Pins
<1> QED
  BY <1>2, <1>3

\* countPulse reads the present state when no interrupt is pending.
LEMMA TrueRead ==
  ASSUME IInv, pc = "hu", pending = {}
  PROVE  4 * hu(State(pos)) + 2 * valB + valA = State(pos)
<1>1. State(pos) \in 0..7
  BY StateValues DEF IInv, EncoderTypeOK
<1>2. valA = hw(State(pos)) /\ valB = hv(State(pos))
  BY DEF IInv, SeenHw, SeenHv
<1> QED
  BY <1>1, <1>2, Bits

LEMMA DriftInit == Init => Drift
  BY DEF Init, Drift, Known, Left, Flag, Within

\* What is left to be counted before and after a step.
LEMMA LeftOf ==
  ASSUME TypeOK
  PROVE  /\ Left \in Nat
         /\ Prompt <=> Left = 0
         /\ pc # "idle" => Left >= 1 /\ (Left = 1 => pending = {})
<1>1. /\ Flag("hw") \in {0, 1} /\ Flag("hv") \in {0, 1} /\ Flag("hu") \in {0, 1}
      /\ pending = {} <=> Flag("hw") = 0 /\ Flag("hv") = 0 /\ Flag("hu") = 0
  BY DEF Flag, TypeOK
<1> QED
  BY <1>1 DEF Left, Prompt

LEMMA LeftNext ==
  ASSUME TypeOK, IInv
  PROVE  /\ \A p \in Int : Edge(p) /\ (p = pos + 1 \/ p = pos - 1) =>
              Left' \in {Left, Left + 1} /\ Left' >= 1
         /\ Enter => Left' = Left
         /\ ReadHv => Left' = Left
         /\ Count => Left' = Left - 1
<1>1. /\ Flag("hw") \in {0, 1} /\ Flag("hv") \in {0, 1} /\ Flag("hu") \in {0, 1}
  BY DEF Flag
<1>2. ASSUME NEW p \in Int, Edge(p), p = pos + 1 \/ p = pos - 1
      PROVE  Left' \in {Left, Left + 1} /\ Left' >= 1
  <2>1. PICK x \in Pins : pending' = pending \cup {x} /\ pc' = pc
    BY <1>2, OnePinChanges DEF Edge, TypeOK, IInv, EncoderTypeOK
  <2>2. /\ Flag("hw")' = IF x = "hw" THEN 1 ELSE Flag("hw")
        /\ Flag("hv")' = IF x = "hv" THEN 1 ELSE Flag("hv")
        /\ Flag("hu")' = IF x = "hu" THEN 1 ELSE Flag("hu")
    BY <2>1 DEF Flag
  <2>3. x \in {"hw", "hv", "hu"}
    BY DEF Pins
  <2> QED
    BY <1>1, <2>1, <2>2, <2>3 DEF Left
<1>3. ASSUME Enter PROVE Left' = Left
  <2>1. PICK x \in pending : pending' = pending \ {x} /\ pc = "idle" /\ pc' = "hv"
    BY <1>3 DEF Enter
  <2>2. /\ Flag("hw")' = IF x = "hw" THEN 0 ELSE Flag("hw")
        /\ Flag("hv")' = IF x = "hv" THEN 0 ELSE Flag("hv")
        /\ Flag("hu")' = IF x = "hu" THEN 0 ELSE Flag("hu")
        /\ x = "hw" => Flag("hw") = 1
        /\ x = "hv" => Flag("hv") = 1
        /\ x = "hu" => Flag("hu") = 1
    BY <2>1 DEF Flag
  <2>3. x \in {"hw", "hv", "hu"}
    BY DEF TypeOK
  <2> QED
    BY <1>1, <2>1, <2>2, <2>3 DEF Left
<1>4. ReadHv => Left' = Left
  BY DEF ReadHv, Left, Flag
<1>5. ASSUME Count PROVE Left' = Left - 1
  <2>1. pc = "hu" /\ pc' = "idle" /\ pending' = pending
    BY <1>5 DEF Count
  <2>2. /\ Flag("hw")' = Flag("hw") /\ Flag("hv")' = Flag("hv")
        /\ Flag("hu")' = Flag("hu")
    BY <2>1 DEF Flag
  <2> QED
    BY <1>1, <2>1, <2>2 DEF Left
<1> QED
  BY <1>2, <1>3, <1>4, <1>5
LEMMA EdgeDrift ==
  ASSUME TypeOK, IInv, Drift, NEW p \in Int, p = pos + 1 \/ p = pos - 1, Edge(p)
  PROVE  Drift'
<1>1. /\ pos' = p /\ pc' = pc /\ valA' = valA /\ valB' = valB
      /\ lastState' = lastState /\ pulseCount' = pulseCount
      /\ late' = IF Prompt THEN late ELSE late + 1
  BY DEF Edge
<1>2. /\ Left' \in {Left, Left + 1} /\ Left' >= 1 /\ Left \in Nat
      /\ Prompt <=> Left = 0
  BY LeftOf, LeftNext
<1>3. pos \in Int /\ pulseCount \in Int /\ late \in Nat
  BY EncoderAssumption DEF TypeOK
<1>4. PICK e \in {-1, 1} : p = pos + e
  BY <1>3
<1>5. pos - 2 \in Int /\ p - e = pos
  BY <1>3, <1>4
<1>6. CASE Prompt
  <2>1. Within(pulseCount - pos, 3 * late)
    BY <1>2, <1>3, <1>6 DEF Drift, Known, OneBehind, TwoBehind, Loose, Within
  <2>2. lastState = State(pos)
    <3>1. lastState \in 0..7 /\ State(pos) \in 0..7
      BY <1>3, StateValues DEF TypeOK
    <3>2. /\ hw(lastState) = hw(State(pos)) /\ hv(lastState) = hv(State(pos))
          /\ hu(lastState) = hu(State(pos))
      BY <1>6 DEF Prompt, IInv, SeenHw, SeenHv, SeenHu
    <3> QED
      BY <3>1, <3>2, Bits
  <2>3. Left' = 1 /\ late' = late
    BY <1>1, <1>2, <1>6
  <2>4. lastState' = State(pos' - e) /\ Within(pulseCount' - (pos' - e), 3 * late')
    BY <1>1, <1>5, <2>1, <2>2, <2>3
  <2>5. OneBehind'
    BY <2>3, <2>4 DEF OneBehind
  <2> QED
    BY <2>5 DEF Drift
<1>7. CASE ~Prompt
  <2>1. late' = late + 1 /\ Left >= 1
    BY <1>1, <1>2, <1>7
  <2> PICK k, n \in Nat : k = Left' /\ n = Left
    BY <1>2
  <2>2. k \in {n, n + 1} /\ p = pos + e /\ (e = 1 \/ e = -1)
    BY <1>2, <1>4
  <2>3. ASSUME Within(pulseCount - p, 3 * (late + 1) - k) PROVE Drift'
    <3>1. Within(pulseCount' - pos', 3 * late' - Left')
      BY <1>1, <2>1, <2>3
    <3> QED
      BY <3>1 DEF Drift, Loose
  <2>4. CASE Known \/ TwoBehind
    <3>1. k <= 3 /\ (Known => k <= 2)
      BY <2>2, <2>4 DEF Known, TwoBehind
    <3>2. /\ Known => Within(pulseCount - pos, 3 * late)
          /\ TwoBehind => Within(pulseCount - pos, 3 * late - 1)
      BY <1>3 DEF Known, TwoBehind, Within
    <3>3. Within(pulseCount - p, 3 * (late + 1) - k)
      BY ONLY <1>3, <2>2, <2>4, <3>1, <3>2 DEF Within
    <3> QED
      BY <2>3, <3>3
  <2>5. CASE Loose
    <3>1. Within(pulseCount - pos, 3 * late - n)
      BY <2>5 DEF Loose
    <3>2. Within(pulseCount - p, 3 * (late + 1) - k)
      BY ONLY <1>3, <2>2, <3>1 DEF Within
    <3> QED
      BY <2>3, <3>2
  <2>6. CASE OneBehind
    <3>1. PICK d \in {-1, 1} :
            lastState = State(pos - d) /\ Within(pulseCount - (pos - d), 3 * late)
      BY <2>6 DEF OneBehind
    <3>2. CASE d # e
      <4>1. p = pos - d
        BY <1>3, <1>4, <3>2
      <4>2. k <= 2
        BY <2>2, <2>6 DEF OneBehind
      <4>3. Within(pulseCount - p, 3 * (late + 1) - k)
        BY ONLY <1>3, <3>1, <4>1, <4>2 DEF Within
      <4> QED
        BY <2>3, <4>3
    <3>3. CASE d = e
      <4>1. p - 2 * d = pos - d /\ p - d = pos
        BY <1>3, <1>4, <3>3
      <4>2. /\ pc # "idle" => valA = hw(State(pos))
            /\ pc = "hu" => valB = hv(State(pos))
        <5>1. pc # "idle" => pending = {}
          BY <2>6, LeftOf DEF OneBehind
        <5> QED
          BY <5>1 DEF IInv, SeenHw, SeenHv
      <4>3. Left' <= 2 /\ 3 * late' - 3 = 3 * late
        BY <1>2, <1>3, <2>1, <2>6 DEF OneBehind
      <4>4. TwoBehind'
        BY <1>1, <3>1, <4>1, <4>2, <4>3 DEF TwoBehind
      <4> QED
        BY <4>4 DEF Drift
    <3> QED
      BY <3>2, <3>3
  <2> QED
    BY <2>4, <2>5, <2>6 DEF Drift
<1> QED
  BY <1>6, <1>7

LEMMA CountDrift ==
  ASSUME TypeOK, IInv, Drift, Count
  PROVE  Drift'
<1> DEFINE cur == 4 * hu(State(pos)) + 2 * valB + valA
<1>1. /\ pc = "hu" /\ pos' = pos /\ late' = late
      /\ lastState' = cur
      /\ pulseCount' = pulseCount + Counted(lastState, cur)
  BY DEF Count
<1>2. Left' = Left - 1 /\ Left \in Nat /\ Left >= 1 /\ (Left = 1 => cur = State(pos))
  BY <1>1, LeftOf, LeftNext, TrueRead
<1>3. pos \in Int /\ pulseCount \in Int /\ late \in Nat
  BY EncoderAssumption DEF TypeOK
<1>4. valA \in {0, 1} /\ valB \in {0, 1}
  BY DEF IInv, EncoderTypeOK
<1>5. Counted(lastState, cur) \in {-1, 0, 1}
  BY Counts
<1>6. CASE Known
  <2>1. cur = State(pos) /\ Counted(lastState, cur) = 0
    BY <1>2, <1>6, Counts DEF Known
  <2>2. pulseCount' = pulseCount
    BY <1>1, <1>3, <2>1
  <2> QED
    BY <1>1, <1>2, <1>6, <2>1, <2>2 DEF Drift, Known
<1>7. CASE OneBehind
  <2>1. PICK d \in {-1, 1} :
          lastState = State(pos - d) /\ Within(pulseCount - (pos - d), 3 * late)
    BY <1>7 DEF OneBehind
  <2>2. cur = State(pos) /\ Left' = 0
    BY <1>2, <1>7 DEF OneBehind
  <2>3. pos - d \in Int /\ pos = (pos - d) + d
    BY <1>3
  <2>4. Counted(State(pos - d), State(pos)) = d
    BY <1>3, <2>3, Counts
  <2>5. pulseCount' - pos' = pulseCount - (pos - d)
    BY <1>1, <1>3, <2>1, <2>2, <2>4
  <2> QED
    BY <1>1, <2>1, <2>2, <2>5 DEF Drift, Known
<1>8. CASE TwoBehind
  <2>1. PICK d \in {-1, 1} :
          /\ lastState = State(pos - 2 * d)
          /\ Within(pulseCount - (pos - 2 * d), 3 * late - 3)
          /\ valA \in {hw(State(pos)), hw(State(pos - d))}
          /\ valB \in {hv(State(pos)), hv(State(pos - d))}
    BY <1>1, <1>8 DEF TwoBehind
  <2>2. /\ pos - d \in Int /\ (pos = (pos - d) + 1 \/ pos = (pos - d) - 1)
        /\ pos - 2 * d \in Int /\ pos - d = (pos - 2 * d) + d
    BY <1>3
  <2>3. cur \in {State(pos - d), State(pos)}
    BY <1>3, <2>1, <2>2, MixedRead
  <2>4. Left' <= 1
    BY <1>2, <1>8 DEF TwoBehind
  <2>5. CASE cur = State(pos)
    <3>1. Within(pulseCount' - pos', 3 * late')
      BY <1>1, <1>3, <1>5, <2>1 DEF Within
    <3> QED
      BY <1>1, <2>4, <2>5, <3>1 DEF Drift, Known
  <2>6. CASE cur = State(pos - d)
    <3>1. Counted(lastState, cur) = d
      BY <2>1, <2>2, <2>6, Counts
    <3>2. pulseCount' = pulseCount + d
      BY <1>1, <3>1
    <3>3. Within(pulseCount' - pos', 3 * late' - Left')
      <4> HIDE DEF cur
      <4>1. Left' \in Nat
        BY <1>2
      <4> QED
        BY ONLY <1>1, <1>3, <2>1, <2>4, <3>2, <4>1 DEF Within
    <3> QED
      BY <3>3 DEF Drift, Loose
  <2> QED
    BY <2>3, <2>5, <2>6
<1>9. CASE Loose
  <2> HIDE DEF cur
  <2>1. Within(pulseCount' - pos', 3 * late' - Left')
    BY <1>1, <1>2, <1>3, <1>5, <1>9 DEF Loose, Within
  <2> QED
    BY <2>1 DEF Drift, Loose
<1> QED
  BY <1>6, <1>7, <1>8, <1>9 DEF Drift

LEMMA DriftNext == TypeOK /\ IInv /\ Drift /\ [Next]_vars => Drift'
<1> SUFFICES ASSUME TypeOK, IInv, Drift, [Next]_vars PROVE Drift'
  OBVIOUS
<1>1. CASE Turn
  <2>1. pos + 1 \in Int /\ pos - 1 \in Int
    BY EncoderAssumption DEF TypeOK
  <2> QED
    BY <1>1, <2>1, EdgeDrift DEF Turn
<1>2. CASE Enter
  <2>1. /\ Left' = Left /\ pc = "idle" /\ pc' = "hv" /\ valA' = hw(State(pos))
        /\ UNCHANGED <<pos, lastState, pulseCount, late>>
    BY <1>2, LeftNext DEF Enter
  <2> QED
    BY <2>1 DEF Drift, Known, OneBehind, TwoBehind, Loose
<1>3. CASE ReadHv
  <2>1. /\ Left' = Left /\ pc = "hv" /\ pc' = "hu" /\ valB' = hv(State(pos))
        /\ UNCHANGED <<pos, valA, lastState, pulseCount, late>>
    BY <1>3, LeftNext DEF ReadHv
  <2> QED
    BY <2>1 DEF Drift, Known, OneBehind, TwoBehind, Loose
<1>4. CASE Count
  BY <1>4, CountDrift
<1>5. CASE UNCHANGED vars
  BY <1>5 DEF vars, Drift, Known, OneBehind, TwoBehind, Loose, Left, Flag
<1> QED
  BY <1>1, <1>2, <1>3, <1>4, <1>5 DEF Next, CountPulse

\* The count strays by three at most for each edge that comes before an earlier
\* one was dealt with, and is exact without any (encoderFeedback.hpp:43-64).
THEOREM DriftIsBounded == Spec => []BoundedDrift
<1>1. ASSUME TypeOK, Drift PROVE BoundedDrift
  <2>1. pos \in Int /\ pulseCount \in Int /\ late \in Nat
    BY <1>1, EncoderAssumption DEF TypeOK
  <2>2. Prompt => Left = 0
    BY <1>1, LeftOf
  <2>3. Prompt => Within(pulseCount - pos, 3 * late)
    BY <1>1, <2>1, <2>2 DEF Drift, Known, OneBehind, TwoBehind, Loose, Within
  <2> QED
    BY <2>1, <2>3 DEF BoundedDrift, Distance, Within
<1> QED
  BY <1>1, EncoderTypeCorrect, InitIInv, NextIInv, DriftInit, DriftNext, PTL DEF Spec
=============================================================================
