----------------------------- MODULE MCSensors ------------------------------
(***************************************************************************)
(* Small instances of the two consumers of sensor data, cartographer's     *)
(* queues and the filter, which share no state: a behaviour is one of the  *)
(* queues or one of the filter, chosen at the start, while the other rests *)
(* as it began.                                                            *)
(*                                                                         *)
(* The queues are those of a trajectory with two sensors and of one with a *)
(* single sensor; the filter has the two topics of the robot and a history *)
(* shorter than the longest delay.                                         *)
(***************************************************************************)
EXTENDS OrderedMultiQueue, RosFilter

VARIABLE part    \* the component that moves

TwoTrajectories == <<{1, 3}, {2}>>

sensorVars == <<vars, filterVars, part>>

SensorsInit ==
  /\ Init /\ FilterInit
  /\ part \in {"queues", "filter"}
  /\ part = "queues" => smooth /\ enabled

QueuesPart == part = "queues" /\ UNCHANGED <<filterVars, part>>
FilterPart == part = "filter" /\ UNCHANGED <<vars, part>>

SensorsNext == (QueuesPart /\ Next) \/ (FilterPart /\ FilterNext)

SensorsSpec == SensorsInit /\ [][SensorsNext]_sensorVars
=============================================================================
