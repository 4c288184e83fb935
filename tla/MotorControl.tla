---------------------------- MODULE MotorControl ----------------------------
(***************************************************************************)
(* One wheel of the firmware: moveClosedLoop runs once per command packet, *)
(* compares the speed encoder::getRPM measured with the target and turns   *)
(* the effort total_pwm up or down by one; moveOpenLoop puts the effort on *)
(* the direction, brake and PWM pins.                                      *)
(*                                                                         *)
(* getRPM measures anew only when sampleInterval has passed since it last  *)
(* did; the measurement is the average over that whole time, in whole      *)
(* ticks of the encoder: a tick is far coarser than the dead band of the   *)
(* controller, 33 RPM against 1.2 RPM.  The motor is external: it turns at *)
(* Gain per unit of effort, and not at all under the brake.                *)
(***************************************************************************)
EXTENDS Integers

CONSTANTS
  MaxPwm,          \* 255
  Fallback,        \* 150, what moveOpenLoop makes of an effort out of range
  Factor,          \* 1 or -1: how the motor is mounted
  Band,            \* 1.2 RPM
  SampleInterval,  \* 20 ms
  Targets,         \* speeds the host asks for, 0 among them
  Spacing,         \* times between two command packets
  Gain,            \* speed of the motor per unit of effort
  TickWay,         \* way of the wheel from one tick of its encoder to the next
  MaxSince         \* bound: longest time without a measurement

ASSUME MotorAssumption ==
  /\ MaxPwm \in Nat /\ MaxPwm > 0
  /\ Fallback \in 0..MaxPwm
  /\ Factor \in {1, -1}
  /\ Band \in Nat /\ Gain \in Nat /\ MaxSince \in Nat
  /\ SampleInterval \in Nat /\ SampleInterval > 0
  /\ TickWay \in Nat /\ TickWay > 0
  /\ 0 \in Targets /\ Targets \subseteq Int
  /\ Spacing \subseteq Nat \ {0}

VARIABLES
  target,       \* speed last asked for
  total_pwm,    \* effort, with the sign of the wanted direction
  dir, brk,     \* levels of the direction and brake pins
  duty,         \* what analogWrite was given
  current_rpm,  \* speed last measured: ticks counted over a time
  ticks, since, \* ticks and time since then
  offTick       \* way of the wheel since its last tick

motorVars == <<target, total_pwm, dir, brk, duty, current_rpm, ticks, since,
               offTick>>
pins == <<dir, brk, duty>>

Magnitude(n) == IF n < 0 THEN -n ELSE n

\* Speed of the wheel, forward positive.
Speed ==
  IF brk = "HIGH" THEN 0
  ELSE Gain * Factor * (IF dir = "LOW" THEN duty ELSE -duty)

\* After reset the pins are low: nothing drives the wheel, nothing brakes it.
MotorInit ==
  /\ target = 0
  /\ total_pwm = 0
  /\ dir = "LOW" /\ brk = "LOW" /\ duty = 0
  /\ current_rpm = [ticks |-> 0, time |-> 1]
  /\ ticks = 0
  /\ since = 0
  /\ offTick = 0

InRange(pwm) ==
  IF pwm > MaxPwm THEN Fallback ELSE IF pwm < -MaxPwm THEN -Fallback ELSE pwm

moveOpenLoop(pwm) ==
  LET p == InRange(pwm) IN
    /\ dir' = IF p > 0 THEN "LOW" ELSE IF p < 0 THEN "HIGH" ELSE dir
    /\ brk' = IF p = 0 THEN "HIGH" ELSE "LOW"
    /\ duty' = Magnitude(p)

\* d later: the ticks counted and the time that passed.
Elapsed(d) ==
  [ticks |-> ticks + (offTick + Speed * d) \div TickWay, time |-> since + d]

\* The wheel turns on for d.
Turns(d) == offTick' = (offTick + Speed * d) % TickWay

getRPM(d) ==
  IF since + d >= SampleInterval
  THEN /\ current_rpm' = Elapsed(d)
       /\ ticks' = 0
       /\ since' = 0
  ELSE /\ ticks' = Elapsed(d).ticks
       /\ since' = Elapsed(d).time
       /\ UNCHANGED current_rpm

TooSlow(rpm, t) == rpm.ticks * TickWay < (t - Band) * rpm.time
TooFast(rpm, t) == rpm.ticks * TickWay > (t + Band) * rpm.time

\* Seeded faults: two units at a time; never down.
AdjustedByTwo(rpm, t) ==
  CASE TooSlow(rpm, t) -> total_pwm + 2
    [] ~TooSlow(rpm, t) /\ TooFast(rpm, t) -> total_pwm - 2
    [] OTHER -> total_pwm
AdjustedUpwardOnly(rpm, t) ==
  IF TooSlow(rpm, t) THEN total_pwm + 1 ELSE total_pwm

Adjusted(rpm, t) ==
  CASE TooSlow(rpm, t) -> total_pwm + 1
    [] ~TooSlow(rpm, t) /\ TooFast(rpm, t) -> total_pwm - 1
    [] OTHER -> total_pwm

Constrained(pwm) ==
  IF pwm > MaxPwm THEN MaxPwm ELSE IF pwm < -MaxPwm THEN -MaxPwm ELSE pwm

\* Seeded fault: a stop that forgets to clear the effort.
StopKeepsEffort(d) ==
  /\ since + d <= MaxSince
  /\ target' = 0
  /\ moveOpenLoop(0)
  /\ ticks' = Elapsed(d).ticks
  /\ since' = Elapsed(d).time
  /\ Turns(d)
  /\ UNCHANGED <<total_pwm, current_rpm>>

\* A packet asks for speed 0, d after the packet before it: the effort is
\* cleared, the speed is not measured.
Stop(d) ==
  /\ since + d <= MaxSince
  /\ target' = 0
  /\ total_pwm' = 0
  /\ moveOpenLoop(0)
  /\ ticks' = Elapsed(d).ticks
  /\ since' = Elapsed(d).time
  /\ Turns(d)
  /\ UNCHANGED current_rpm

\* A packet asks for another speed.
Drive(t, d) ==
  /\ t # 0
  /\ target' = t
  /\ getRPM(d)
  /\ Turns(d)
  /\ total_pwm' = Constrained(Adjusted(current_rpm', t))
  /\ moveOpenLoop(total_pwm' * Factor)

moveClosedLoop(t, d) == (t = 0 /\ Stop(d)) \/ Drive(t, d)

\* The board restarts.
Restart ==
  /\ target' = 0
  /\ total_pwm' = 0
  /\ dir' = "LOW" /\ brk' = "LOW" /\ duty' = 0
  /\ current_rpm' = [ticks |-> 0, time |-> 1]
  /\ ticks' = 0
  /\ since' = 0
  /\ offTick' = 0

Commanded == \E t \in Targets, d \in Spacing : moveClosedLoop(t, d)

MotorNext == Commanded \/ Restart

MotorSpec == MotorInit /\ [][MotorNext]_motorVars

\* The host sends a packet in each of its control cycles.
MotorFairSpec == MotorSpec /\ WF_motorVars(Commanded)

-----------------------------------------------------------------------------
MotorTypeOK ==
  /\ target \in Targets
  /\ total_pwm \in -MaxPwm..MaxPwm
  /\ dir \in {"LOW", "HIGH"} /\ brk \in {"LOW", "HIGH"}
  /\ duty \in 0..MaxPwm
  /\ current_rpm \in [ticks : Int, time : Nat \ {0}]
  /\ ticks \in Int
  /\ since \in Nat
  /\ offTick \in 0..(TickWay - 1)

\* What the pins do is the effort the controller computed: the range check
\* of moveOpenLoop never replaces it, and no direction is driven under the
\* brake (wheel.hpp:38-56, 84-88).
EffortApplied ==
  /\ duty = Magnitude(total_pwm)
  /\ brk = "HIGH" => duty = 0
  /\ duty > 0 => (dir = "LOW" <=> total_pwm * Factor > 0)

\* The direction pin never changes while the wheel is driven, whatever the
\* host asks for: the effort passes through 0 (wheel.hpp:44-54, 74-79).
NoReversalUnderPower == [][dir' # dir => duty = 0 \/ duty' = 0]_motorVars

\* The effort on the pin grows by at most one unit per packet, also after a
\* stop; it falls faster only to stop (wheel.hpp:62-66, 74-79).
SoftStart == [][duty' <= duty + 1 /\ (duty' < duty - 1 => duty' = 0)]_motorVars

\* A speed the motor can keep.
Reachable(t) == t # 0 /\ Magnitude(t) <= Gain * MaxPwm

\* What the speed may miss the target by: the dead band, one tick in each
\* measurement, and one step of the effort.
Slack == Band + TickWay \div SampleInterval + Gain

\* If the host keeps asking for a speed the motor can reach, the wheel comes to
\* turn at about that speed and goes on doing so.  It need not come to rest
\* there: when no whole number of ticks makes a speed within the dead band, the
\* effort goes up and down for ever, but the swings of the speed stay within
\* Slack (wheel.hpp:59-89, encoderFeedback.hpp:21-37).
Settles ==
  \A t \in Targets :
    Reachable(t) /\ <>[](target = t) => <>[](Magnitude(Speed - t) <= Slack)
=============================================================================
