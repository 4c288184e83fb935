----------------------------- MODULE MCFirmware -----------------------------
(***************************************************************************)
(* Small instances of the firmware's two components, which share no state: *)
(* a behaviour is one of the motor's control or one of the encoder, chosen *)
(* at the start, while the other rests as it began.                        *)
(*                                                                         *)
(* The motor has few units of effort, speeds it can reach and speeds it    *)
(* cannot, and a command packet may come before a new measurement is due   *)
(* or some time after.  The encoder goes through more than one electrical  *)
(* turn either way.                                                        *)
(***************************************************************************)
EXTENDS MotorControl, HallEncoder

VARIABLE part    \* the component that moves

MCTargets == {-18, -4, 0, 5, 12}
MinusOne == -1

firmwareVars == <<motorVars, vars, part>>

FirmwareInit == MotorInit /\ Init /\ part \in {"motor", "encoder"}

MotorPart == part = "motor" /\ UNCHANGED <<vars, part>>
EncoderPart == part = "encoder" /\ UNCHANGED <<motorVars, part>>

FirmwareNext == (MotorPart /\ MotorNext) \/ (EncoderPart /\ Next)

\* The host sends a packet in each of its control cycles.
FirmwareSpec ==
  /\ FirmwareInit /\ [][FirmwareNext]_firmwareVars
  /\ WF_firmwareVars(MotorPart /\ Commanded)
=============================================================================
