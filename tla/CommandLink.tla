---------------------------- MODULE CommandLink ----------------------------
(***************************************************************************)
(* Host to firmware: SerialBridge::set_motor_values writes one             *)
(* incomingPacket per control cycle, the firmware's SerialManager::read    *)
(* finds packets again in its receive ring.                                *)
(*                                                                         *)
(* read() looks at the ring only while it holds a whole packet; it drops   *)
(* one byte when that is not START_BYTE, but consumes FrameLen bytes at    *)
(* once when it is, whether or not the last one turns out to be END_BYTE.  *)
(* Bytes keep arriving by interrupt between any two of its iterations, so  *)
(* each iteration is a step.                                               *)
(***************************************************************************)
EXTENDS FrameStream

CONSTANT RxCap    \* bytes the receive ring of HardwareSerial can hold

ASSUME RxAssumption == RxCap \in Nat /\ RxCap >= FrameLen

VARIABLES
  sent,  \* identities of the packets set_motor_values numbered
  rd,    \* bytes of line the firmware has taken from the ring
  acc    \* offsets of the windows read() returned as packets

vars == <<txBase, txPos, got, line, sent, rd, acc>>

Available == got - rd

Init ==
  /\ StreamInit
  /\ sent = {}
  /\ rd = 0
  /\ acc = {}

\* set_motor_values: count the packet, fill it, write it.
SetMotorValues ==
  /\ BeginFrame
  /\ sent' = sent \cup {txBase'}
  /\ UNCHANGED <<rd, acc>>

\* serial_port_.Write throws: the rest of the packet never leaves.
WriteFails ==
  /\ AbandonFrame
  /\ UNCHANGED <<sent, rd, acc>>

\* The receive interrupt stores a byte in the ring.
Receive ==
  /\ Available < RxCap
  /\ ShiftOut
  /\ UNCHANGED <<sent, rd, acc>>

\* The byte is spoiled on the wire or finds the ring full.
Lose ==
  /\ LoseByte
  /\ UNCHANGED <<sent, rd, acc>>

\* Seeded faults, for the properties to catch: a loop that waits for more
\* than a packet, one that never looks at END_BYTE, one that consumes too
\* little, one that throws a whole window away to skip a byte.
ReadFrameOffByOne ==
  /\ Available > FrameLen
  /\ line[rd + 1].val = START_BYTE
  /\ rd' = rd + FrameLen
  /\ acc' = IF line[rd + FrameLen].val = END_BYTE THEN acc \cup {rd} ELSE acc
  /\ UNCHANGED <<streamVars, sent>>
ReadFrameNoEndCheck ==
  /\ Available >= FrameLen
  /\ line[rd + 1].val = START_BYTE
  /\ rd' = rd + FrameLen
  /\ acc' = acc \cup {rd}
  /\ UNCHANGED <<streamVars, sent>>
ReadFrameConsumesLess ==
  /\ Available >= FrameLen
  /\ line[rd + 1].val = START_BYTE
  /\ rd' = rd + FrameLen - 1
  /\ acc' = IF line[rd + FrameLen].val = END_BYTE THEN acc \cup {rd} ELSE acc
  /\ UNCHANGED <<streamVars, sent>>
ReadSkipWindow ==
  /\ Available >= FrameLen
  /\ line[rd + 1].val # START_BYTE
  /\ rd' = rd + FrameLen
  /\ UNCHANGED <<streamVars, sent, acc>>

\* One turn of read()'s loop that throws a byte away.
ReadSkip ==
  /\ Available >= FrameLen
  /\ line[rd + 1].val # START_BYTE
  /\ rd' = rd + 1
  /\ UNCHANGED <<streamVars, sent, acc>>

\* One turn of read()'s loop that consumes a window, and returns it if it
\* ends as a packet does.
ReadFrame ==
  /\ Available >= FrameLen
  /\ line[rd + 1].val = START_BYTE
  /\ rd' = rd + FrameLen
  /\ acc' = IF line[rd + FrameLen].val = END_BYTE THEN acc \cup {rd} ELSE acc
  /\ UNCHANGED <<streamVars, sent>>

Read == ReadSkip \/ ReadFrame

Next == SetMotorValues \/ WriteFails \/ Receive \/ Lose \/ Read

Spec == Init /\ [][Next]_vars

\* loop() calls read() for ever, and read() does not stop before the ring
\* holds less than a packet or it returned one.
FairSpec == Spec /\ WF_vars(Read)

-----------------------------------------------------------------------------
TypeOK ==
  /\ txBase \in Int /\ txBase >= -FrameLen
  /\ txPos \in 0..FrameLen
  /\ got \in Nat
  /\ line \in [1..got -> Bytes]
  /\ sent \subseteq Nat
  /\ rd \in 0..got
  /\ acc \subseteq 0..(rd - FrameLen)

\* Without a checksum, framing is all that tells a packet from a splice: what
\* read() returns is a packet the host sent, whole, unless a payload byte was
\* mistaken for a delimiter or a packet's worth of bytes or more is missing
\* inside it (serial.hpp:18-22).
SpliceNeedsDeception == \A k \in acc : Intact(k) \/ Deceptive(k)

\* A false start makes read() swallow the beginning of the packet after it,
\* and its payload may provide the next false start, for ever.  It finds back
\* at the latest behind one whole packet without START_BYTE in its payload:
\* the packet that directly follows such a one, if whole, is returned once it
\* has been consumed (serial.hpp:12-24).
SecondPacketDelivered ==
  \A k \in 0..(rd - 1) :
    Follows(k) /\ Intact(k) => k \in acc /\ k + FrameLen <= rd

\* As long as no byte is lost, exactly the packets the host sent are returned,
\* whatever delimiters their payloads contain.
LosslessDelivery ==
  Lossless => acc = {k \in 0..(rd - FrameLen) : Intact(k)}

\* Every whole packet that directly follows a whole one without START_BYTE in
\* its payload, or comes first, is handed to loop() in the end.
EventuallyDelivered ==
  \A k \in 0..MaxBase : (Follows(k) /\ Intact(k)) ~> (k \in acc)

\* The host's packets the control loop acted on, and whether it acted on
\* anything else.
Delivered == {line[k + 1].base : k \in {j \in acc : Intact(j)}}
Forged == \E k \in acc : ~Intact(k)

Channel == INSTANCE PacketChannel
             WITH MaxId <- MaxBase, delivered <- Delivered,
                  lossy <- ~Lossless, forged <- Forged

\* Whatever is lost and whatever the payload, the link is a channel that may
\* drop packets but repeats and reorders none, and that forges one only after
\* a byte was lost.
ImplementsChannel == Channel!Spec
=============================================================================
