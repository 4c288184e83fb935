------------------------------ MODULE RosFilter ------------------------------
(***************************************************************************)
(* robot_localization's filter node: sensor callbacks queue measurements,  *)
(* a timer fuses those whose time has come.  With smooth_lagged_data_ a    *)
(* measurement that comes late makes it go back to a state saved before    *)
(* it and fuse everything since then again.                                *)
(*                                                                         *)
(* The estimate is the sequence of measurements fused into it: what the    *)
(* Kalman filter computes is a function of that.  Callbacks and timer run  *)
(* one at a time; the timer's loop is cut into its turns.  Control inputs  *)
(* and predict_to_current_time, which the robot does not use, are left     *)
(* out, and so are frames, outliers and publishing.                        *)
(***************************************************************************)
EXTENDS Integers, Sequences, SequencesExt, FiniteSetsExt, Bags

CONSTANTS
  Topic,
  Smoothing,      \* values of the parameter smooth_lagged_data
  HistoryLength,  \* history_length_
  SensorTimeout,
  MaxClock,       \* bound: the clock and time stamps
  MaxMeas,        \* bound: measurements received
  MaxPose         \* bound: poses set

ASSUME FilterAssumption ==
  /\ Smoothing \subseteq BOOLEAN
  /\ HistoryLength \in Nat /\ SensorTimeout \in Nat \ {0}
  /\ MaxClock \in Nat

VARIABLES
  smooth,        \* smooth_lagged_data_
  enabled,       \* enabled_
  on,            \* toggled_on_
  now,           \* the clock
  lastStamp,     \* last_message_times_, -1 when absent
  setPose,       \* last_set_pose_time_
  measurements,  \* measurement_queue_, a bag
  est,           \* state of filter_: the measurements fused
  initialized,   \* initialized_
  lastTime,      \* last_measurement_time_
  states,        \* filter_state_history_
  history,       \* measurement_history_
  phase,         \* "idle", "integrate" or "finish"
  accepted,      \* history: measurements queued and not cleared since the pose
  short,         \* history: revertTo has failed since then
  poses          \* poses set so far

config == <<smooth, enabled, on>>
input == <<lastStamp, setPose, accepted, poses>>
filter == <<est, initialized, lastTime>>
filterVars == <<config, now, input, measurements, filter, states, history, phase, short>>

Measurement == [topic : Topic, time : 0..MaxClock]
Saved == [time : 0..MaxClock, est : Seq(Measurement)]

FilterInit ==
  /\ smooth \in Smoothing /\ enabled \in BOOLEAN /\ on = TRUE
  /\ now = 0
  /\ lastStamp = [t \in Topic |-> -1]
  /\ setPose = 0
  /\ measurements = EmptyBag
  /\ est = <<>> /\ initialized = FALSE /\ lastTime = 0
  /\ states = <<>> /\ history = <<>>
  /\ phase = "idle"
  /\ accepted = {} /\ short = FALSE /\ poses = 0

-----------------------------------------------------------------------------
(* Callbacks                                                               *)

Tick ==
  /\ phase = "idle" /\ now < MaxClock
  /\ now' = now + 1
  /\ UNCHANGED <<config, input, measurements, filter, states, history, phase, short>>

\* A message, whatever its stamp, though no sensor stamps two alike: it is
\* ignored if the pose was set for a later time or the topic is ahead of it.
Receive(topic, stamp) ==
  /\ phase = "idle"
  /\ Cardinality(accepted) < MaxMeas
  /\ stamp > setPose
  /\ lastStamp[topic] < stamp
  /\ LET m == [topic |-> topic, time |-> stamp] IN
       /\ measurements' = measurements (+) SetToBag({m})
       /\ accepted' = accepted \cup {m}
  /\ lastStamp' = [lastStamp EXCEPT ![topic] = stamp]
  /\ UNCHANGED <<config, now, setPose, poses, filter, states, history, phase, short>>

\* Seeded fault: what was measured before the pose can be restored.
SetPoseKeepsHistory(stamp) ==
  /\ phase = "idle" /\ poses < MaxPose
  /\ poses' = poses + 1
  /\ measurements' = EmptyBag
  /\ setPose' = stamp
  /\ est' = <<>> /\ lastTime' = now
  /\ accepted' = {} /\ short' = FALSE
  /\ UNCHANGED <<config, now, lastStamp, initialized, states, history, phase>>

\* setPoseCallback
SetPose(stamp) ==
  /\ phase = "idle" /\ poses < MaxPose
  /\ poses' = poses + 1
  /\ measurements' = EmptyBag
  /\ states' = <<>> /\ history' = <<>>
  /\ setPose' = stamp
  /\ est' = <<>> /\ lastTime' = now
  /\ accepted' = {} /\ short' = FALSE
  /\ UNCHANGED <<config, now, lastStamp, initialized, phase>>

Toggle ==
  /\ phase = "idle"
  /\ on' = ~on
  /\ UNCHANGED <<smooth, enabled, now, input, measurements, filter, states, history,
                 phase, short>>

Enable ==
  /\ phase = "idle" /\ ~enabled
  /\ enabled' = TRUE
  /\ UNCHANGED <<smooth, on, now, input, measurements, filter, states, history, phase,
                 short>>

-----------------------------------------------------------------------------
(* periodicUpdate                                                          *)

Times == {m.time : m \in BagToSet(measurements)}

\* The newest entry older than t, 0 if there is none.
Before(s, t) == Max({i \in DOMAIN s : s[i].time < t} \cup {0})

\* Seeded fault: measurements at the time of the late one stay behind.
RestoredAfter(t, oldest) ==
  {i \in DOMAIN history :
     i > Before(history, t) /\ t < history[i].time /\ oldest <= history[i].time}

\* Where the measurements from t on are, unless they are older than the state
\* gone back to.
Restored(t, oldest) ==
  {i \in DOMAIN history : i > Before(history, t) /\ oldest <= history[i].time}

\* The measurements at these places of the history, as a bag.
BagOf(places) ==
  [m \in {history[i] : i \in places} |->
     Cardinality({i \in places : history[i] = m})]

\* revertTo the newest state before t, or the oldest of all, if there is any.
RevertTo(t) ==
  LET k == Before(states, t) IN
    /\ states' = SubSeq(states, 1, k)
    /\ short' = (short \/ k = 0)
    /\ IF states = <<>>
         THEN UNCHANGED <<measurements, est, lastTime, history>>
         ELSE LET saved == states[IF k > 0 THEN k ELSE 1] IN
                /\ est' = saved.est
                /\ lastTime' = saved.time
                /\ measurements' = measurements (+) BagOf(Restored(t, saved.time))
                /\ history' = SubSeq(history, 1, Before(history, t))

\* integrateMeasurements begins; going back if the first one is late.
Integrate ==
  /\ phase = "idle" /\ enabled /\ on
  /\ Times # {}
  /\ IF smooth /\ Min(Times) < lastTime
       THEN RevertTo(Min(Times))
       ELSE UNCHANGED <<measurements, est, lastTime, states, history, short>>
  /\ phase' = "integrate"
  /\ UNCHANGED <<config, now, input, initialized>>

\* When the next measurement is due, -1 if there is none.
NextTime(q) == IF q = EmptyBag THEN -1 ELSE Min({m.time : m \in BagToSet(q)})

\* One of the first measurements is fused; time does not go back.
ProcessMeasurement ==
  /\ phase = "integrate"
  /\ \E m \in BagToSet(measurements) :
       /\ m.time = Min(Times) /\ m.time <= now
       /\ measurements' = measurements (-) SetToBag({m})
       /\ est' = Append(est, m)
       /\ lastTime' = IF initialized /\ m.time < lastTime THEN lastTime ELSE m.time
       /\ IF smooth
            THEN /\ history' = Append(history, m)
                 /\ states' = IF NextTime(measurements') # lastTime'
                                THEN Append(states, [time |-> lastTime', est |-> est'])
                                ELSE states
            ELSE UNCHANGED <<history, states>>
  /\ initialized' = TRUE
  /\ UNCHANGED <<config, now, input, phase, short>>

\* What is left belongs to the future.
EndIntegrate ==
  /\ phase = "integrate"
  /\ \A t \in Times : t > now
  /\ phase' = "finish"
  /\ UNCHANGED <<config, now, input, measurements, filter, states, history, short>>

\* Seeded fault: the filter is predicted twice as far.
CoastTwice ==
  /\ phase = "idle" /\ enabled /\ on
  /\ Times = {}
  /\ lastTime' = IF initialized /\ now - lastTime >= SensorTimeout
                  THEN now + (now - lastTime) ELSE lastTime
  /\ phase' = "finish"
  /\ UNCHANGED <<config, now, input, measurements, est, initialized, states, history, short>>

\* Without measurements for long, predict.
Coast ==
  /\ phase = "idle" /\ enabled /\ on
  /\ Times = {}
  /\ lastTime' = IF initialized /\ now - lastTime >= SensorTimeout THEN now ELSE lastTime
  /\ phase' = "finish"
  /\ UNCHANGED <<config, now, input, measurements, est, initialized, states, history, short>>

\* Toggled off: what has come is thrown away.
Discard ==
  /\ phase = "idle" /\ enabled /\ ~on
  /\ measurements' = EmptyBag
  /\ accepted' = accepted \ BagToSet(measurements)
  /\ lastTime' = IF initialized THEN now ELSE lastTime
  /\ phase' = "finish"
  /\ UNCHANGED <<config, now, lastStamp, setPose, poses, est, initialized, states, history,
                 short>>

\* clearExpiredHistory, entry by entry from the front.
Unexpired(s) ==
  LET kept == {i \in DOMAIN s : s[i].time >= lastTime - HistoryLength}
  IN SubSeq(s, Min(kept \cup {Len(s) + 1}), Len(s))

Finish ==
  /\ phase = "finish"
  /\ IF smooth
       THEN history' = Unexpired(history) /\ states' = Unexpired(states)
       ELSE UNCHANGED <<history, states>>
  /\ phase' = "idle"
  /\ UNCHANGED <<config, now, input, measurements, filter, short>>

FilterNext ==
  \/ Tick \/ Toggle \/ Enable
  \/ \E topic \in Topic, stamp \in 1..MaxClock : Receive(topic, stamp)
  \/ \E stamp \in 0..MaxClock : SetPose(stamp)
  \/ Integrate \/ ProcessMeasurement \/ EndIntegrate \/ Coast \/ Discard \/ Finish

FilterSpec == FilterInit /\ [][FilterNext]_filterVars

-----------------------------------------------------------------------------
FilterTypeOK ==
  /\ lastStamp \in [Topic -> -1..MaxClock]
  /\ {now, setPose, lastTime} \subseteq 0..MaxClock
  /\ IsABag(measurements) /\ BagToSet(measurements) \subseteq Measurement
  /\ est \in Seq(Measurement) /\ history \in Seq(Measurement)
  /\ states \in Seq(Saved)
  /\ phase \in {"idle", "integrate", "finish"}
  /\ accepted \subseteq Measurement
  /\ {smooth, enabled, on, initialized, short} \subseteq BOOLEAN

\* At any time every measurement accepted is either queued or fused, exactly
\* once; with smoothing, and in the order of time although they came in
\* another one, unless the history was too short for one of them
\* (ros_filter.cpp:611-703, 3332-3414).
FusedOnceInOrder ==
  ~(smooth /\ short) =>
    /\ IsInjective(est) /\ ToSet(est) = accepted \ BagToSet(measurements)
    /\ BagToSet(measurements) \subseteq accepted
    /\ \A m \in BagToSet(measurements) : measurements[m] = 1
    /\ smooth => \A i, j \in DOMAIN est : i < j => est[i].time <= est[j].time

\* Once a pose was set, nothing measured before it has any influence: not
\* queued, not fused, and not to be restored when the filter goes back
\* (ros_filter.cpp:2227-2236, 1818-1821).
NothingBeforePose ==
  \A m \in BagToSet(measurements) \cup ToSet(est) \cup ToSet(history) : m.time > setPose
=============================================================================
