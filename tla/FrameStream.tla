---------------------------- MODULE FrameStream ----------------------------
(***************************************************************************)
(* The byte stream under both directions of the robot's serial link.       *)
(*                                                                         *)
(* Host (serial_comm.hpp) and firmware (serial.hpp) exchange fixed-size    *)
(* packets: START_BYTE, payload, END_BYTE, with no length, no checksum and *)
(* no escaping.  The sender hands one packet at a time to its port, the    *)
(* UART shifts it out a byte at a time, and a byte may be lost on the way: *)
(* line noise, a full receive ring, a write that failed half way, a cable  *)
(* pulled and plugged again.                                               *)
(*                                                                         *)
(* A byte carries ghost fields the receivers never look at: the stream     *)
(* offset of the packet it belongs to (base) and its place in the packet   *)
(* (pos).  base stands for the packet's identity: the field seq grows by   *)
(* one, base by FrameLen, with every packet.                               *)
(*                                                                         *)
(* The payload is a counter and raw integers and floats: any of its bytes  *)
(* may have the value of a delimiter, and the receivers cannot tell.       *)
(***************************************************************************)
EXTENDS Integers

CONSTANTS
  FrameLen,     \* sizeof(incomingPacket) = 15 or sizeof(outgoingPacket) = 55
  Payload,      \* the values the bytes between START_BYTE and END_BYTE take
  START_BYTE,   \* 0xA5
  END_BYTE,     \* 0x5A
  MaxBase,      \* bound: offset of the last packet sent
  MaxBurst      \* bound: no byte is lost on the wire once so many are
                \* missing among the last FrameLen - 1 bytes

ASSUME FrameAssumption ==
  /\ FrameLen \in Nat \ {0, 1}
  /\ START_BYTE # END_BYTE

ASSUME BoundAssumption ==
  /\ MaxBase \in Int
  /\ MaxBurst \in Nat

VARIABLES
  txBase,   \* offset of the packet being shifted out
  txPos,    \* how many of its bytes have left; FrameLen: the port is idle
  got,      \* how many bytes reached the receiver
  line      \* those bytes, in order, from 1

streamVars == <<txBase, txPos, got, line>>

\* The values the byte at place i of a packet can have.
ByteAt(i) ==
  IF i = 1 THEN {START_BYTE} ELSE IF i = FrameLen THEN {END_BYTE} ELSE Payload

Bytes == [base : Nat, pos : 1..FrameLen,
          val : Payload \cup {START_BYTE, END_BYTE}]

\* Offset of a byte in everything the sender was asked to send, from 1.
At(b) == b.base + b.pos

\* Where a window would begin that ends with the next byte to arrive.
WindowStart == IF got < FrameLen THEN 1 ELSE got - FrameLen + 2

\* Bytes lost since that place.
Burst ==
  IF got = 0 THEN txBase + txPos
  ELSE (txBase + txPos) - At(line[WindowStart]) - (got - WindowStart)

StreamInit ==
  /\ txBase = -FrameLen
  /\ txPos = FrameLen
  /\ got = 0
  /\ line = [i \in 1..0 |-> 0]

\* The sender builds its next packet and hands it to the port.
BeginFrame ==
  /\ txPos = FrameLen
  /\ txBase + FrameLen <= MaxBase
  /\ txBase' = txBase + FrameLen
  /\ txPos' = 0
  /\ UNCHANGED <<got, line>>

\* The next byte of the packet reaches the receiver.
ShiftOut ==
  /\ txPos < FrameLen
  /\ txPos' = txPos + 1
  /\ got' = got + 1
  /\ \E v \in ByteAt(txPos + 1) :
       line' = [i \in 1..(got + 1) |->
                  IF i <= got THEN line[i]
                  ELSE [base |-> txBase, pos |-> txPos + 1, val |-> v]]
  /\ UNCHANGED txBase

\* The next byte of the packet never reaches the receiver.
LoseByte ==
  /\ txPos < FrameLen
  /\ Burst < MaxBurst
  /\ txPos' = txPos + 1
  /\ UNCHANGED <<txBase, got, line>>

\* The port throws in the middle of a packet: the rest of it is never sent.
AbandonFrame ==
  /\ txPos < FrameLen
  /\ Burst + (FrameLen - txPos) <= MaxBurst
  /\ txPos' = FrameLen
  /\ UNCHANGED <<txBase, got, line>>

-----------------------------------------------------------------------------
\* The FrameLen received bytes after the k-th are one packet, whole.
Intact(k) ==
  /\ k + FrameLen <= got
  /\ \A i \in 1..FrameLen :
       /\ line[k + i].pos = i
       /\ line[k + i].base = line[k + 1].base

\* Nothing was lost before the last byte received.
Lossless == \A i \in 1..got : At(line[i]) = i

\* Bytes lost between the first and the last byte of the window after k.
LostInside(k) == At(line[k + FrameLen]) - At(line[k + 1]) - (FrameLen - 1)

\* The i-th byte received is payload and has the value of a delimiter.
Imitates(i) ==
  /\ line[i].val \in {START_BYTE, END_BYTE}
  /\ line[i].pos \in 2..(FrameLen - 1)

\* Nothing but a payload that imitates a delimiter, or a gap of a packet's
\* length or more, can make the window after k look like a packet.
Deceptive(k) ==
  \/ Imitates(k + 1)
  \/ Imitates(k + FrameLen)
  \/ LostInside(k) >= FrameLen

\* The packet after offset k cannot be mistaken for the beginning of another.
Clean(k) == \A i \in 2..FrameLen : line[k + i].val # START_BYTE

\* The packet that starts at offset k comes first on the wire, or directly
\* follows a whole packet that cannot be mistaken.
Follows(k) ==
  k = 0 \/ (k >= FrameLen /\ Intact(k - FrameLen) /\ Clean(k - FrameLen))
=============================================================================
