---------------------------- MODULE FeedbackLink ----------------------------
(***************************************************************************)
(* Firmware to host: loop() sends one outgoingPacket every CONTROL_LOOP_US, *)
(* SerialBridge::read_encoder_values is called from the controller         *)
(* manager's read() and searches its recv_buffer_ for packets.             *)
(*                                                                         *)
(* A call moves everything the kernel holds to recv_buffer_ and then works *)
(* on that buffer alone, while new bytes go on arriving behind it: the     *)
(* call is a Poll, a sequence of scan steps, and a Return.  In contrast to *)
(* the firmware's reader it never discards more than one byte of a window  *)
(* it rejects.  recv_buffer_ survives disconnect() and connect().          *)
(***************************************************************************)
EXTENDS FrameStream

VARIABLES
  sent,     \* identities of the packets sendReply was given
  pulled,   \* bytes of line that were moved to recv_buffer_
  rd,       \* bytes of those already erased from its front
  busy,     \* a call of read_encoder_values is in progress
  acc,      \* offsets of the windows taken as packets
  latest    \* the window enc_l, enc_r and latest_imu_data_ come from, or -1

vars == <<txBase, txPos, got, line, sent, pulled, rd, busy, acc, latest>>
hostVars == <<pulled, rd, busy, acc, latest>>

Buffered == pulled - rd

Init ==
  /\ StreamInit
  /\ sent = {}
  /\ pulled = 0
  /\ rd = 0
  /\ busy = FALSE
  /\ acc = {}
  /\ latest = -1

\* loop(): the control period elapsed, fill the packet and write it.
SendReply ==
  /\ BeginFrame
  /\ sent' = sent \cup {txBase'}
  /\ UNCHANGED hostVars

\* The board restarts: what its transmit buffer held is never sent.
FirmwareRestart ==
  /\ AbandonFrame
  /\ UNCHANGED <<sent, hostVars>>

\* The kernel receives a byte.
Receive ==
  /\ ShiftOut
  /\ UNCHANGED <<sent, hostVars>>

\* The byte is spoiled, or nobody has the port open, or its buffer is full.
Lose ==
  /\ LoseByte
  /\ UNCHANGED <<sent, hostVars>>

\* on_configure disconnects and connects: opening the port flushes what the
\* kernel held, be it several packets; recv_buffer_ stays as it is.
Reconnect ==
  /\ ~busy
  /\ got' = pulled
  /\ line' = [i \in 1..pulled |-> line[i]]
  /\ UNCHANGED <<txBase, txPos, sent, hostVars>>

\* A call begins: append all available bytes to recv_buffer_.
Poll ==
  /\ ~busy
  /\ busy' = TRUE
  /\ pulled' = got
  /\ UNCHANGED <<streamVars, sent, rd, acc, latest>>

\* Seeded faults: END_BYTE is never looked at, or looked for one byte early.
MatchesStartOnly ==
  line[rd + 1].val = START_BYTE
MatchesShort ==
  /\ line[rd + 1].val = START_BYTE
  /\ line[rd + FrameLen - 1].val = END_BYTE

\* The window at the front of recv_buffer_ begins and ends as a packet does.
Matches ==
  /\ line[rd + 1].val = START_BYTE
  /\ line[rd + FrameLen].val = END_BYTE

\* Seeded faults: a scan that drops the whole window it rejects, and one that
\* keeps the first packet instead of the last.
ScanShiftWindow ==
  /\ busy
  /\ Buffered >= FrameLen
  /\ ~Matches
  /\ rd' = rd + FrameLen
  /\ UNCHANGED <<streamVars, sent, pulled, busy, acc, latest>>
ScanAcceptKeepsFirst ==
  /\ busy
  /\ Buffered >= FrameLen
  /\ Matches
  /\ rd' = rd + FrameLen
  /\ acc' = acc \cup {rd}
  /\ latest' = IF latest = -1 THEN rd ELSE latest
  /\ UNCHANGED <<streamVars, sent, pulled, busy>>

\* The window is a packet: copy it out and erase it.
ScanAccept ==
  /\ busy
  /\ Buffered >= FrameLen
  /\ Matches
  /\ rd' = rd + FrameLen
  /\ acc' = acc \cup {rd}
  /\ latest' = rd
  /\ UNCHANGED <<streamVars, sent, pulled, busy>>

\* It is not: erase its first byte.
ScanShift ==
  /\ busy
  /\ Buffered >= FrameLen
  /\ ~Matches
  /\ rd' = rd + 1
  /\ UNCHANGED <<streamVars, sent, pulled, busy, acc, latest>>

\* Less than a packet is left.
Return ==
  /\ busy
  /\ Buffered < FrameLen
  /\ busy' = FALSE
  /\ UNCHANGED <<streamVars, sent, pulled, rd, acc, latest>>

HostRead == Poll \/ ScanAccept \/ ScanShift \/ Return

Next ==
  \/ SendReply \/ FirmwareRestart \/ Receive \/ Lose \/ Reconnect
  \/ HostRead

Spec == Init /\ [][Next]_vars

\* The controller manager's loop calls read() at its update rate for ever.
FairSpec == Spec /\ WF_vars(HostRead)

-----------------------------------------------------------------------------
TypeOK ==
  /\ txBase \in Int /\ txBase >= -FrameLen
  /\ txPos \in 0..FrameLen
  /\ got \in Nat
  /\ line \in [1..got -> Bytes]
  /\ sent \subseteq Nat
  /\ pulled \in 0..got
  /\ rd \in 0..pulled
  /\ busy \in BOOLEAN
  /\ acc \subseteq 0..(rd - FrameLen)
  /\ latest \in acc \cup {-1}

\* The windows taken that are not packets the board sent.
Forgeries == {k \in acc : ~Intact(k)}

\* What the host takes is a packet the board sent, whole, unless a payload byte
\* was mistaken for a delimiter or a packet's worth of bytes or more is missing
\* inside it, as when the rest of a packet from before a reconnection is joined
\* to what comes after it (serial_comm.hpp:48-56, 174-188).
SpliceNeedsDeception == \A k \in Forgeries : Deceptive(k)

\* When a call has returned, every whole packet that was available to it has
\* been taken, however damaged the bytes around it, unless a forgery swallowed
\* part of it; and the encoder and IMU values are those of the newest packet,
\* or of a forgery that is not older (serial_comm.hpp:161-199).
FreshOnReturn ==
  ~busy => \A k \in 0..(pulled - FrameLen) : Intact(k) =>
    /\ k \in acc \/ \E j \in Forgeries : j < k /\ k < j + FrameLen
    /\ latest \notin Forgeries => latest >= k
    /\ latest \in Forgeries => latest + FrameLen > k

\* No byte is missing from what was moved to recv_buffer_.
LosslessBuffer == \A i \in 1..pulled : At(line[i]) = i

\* As long as no byte is lost, exactly the packets the board sent are taken,
\* whatever delimiters their payloads contain.
LosslessDelivery ==
  LosslessBuffer => acc = {k \in 0..(rd - FrameLen) : Intact(k)}

\* A whole packet that reached recv_buffer_ directly behind a whole one without
\* START_BYTE in its payload, or first, is taken in the end: no forgery can
\* swallow it.
EventuallyTaken ==
  \A k \in 0..MaxBase :
    (k + FrameLen <= pulled /\ Follows(k) /\ Intact(k)) ~> (k \in acc)

\* The board's packets the host acted on, and whether it acted on anything else.
Delivered == {line[k + 1].base : k \in {j \in acc : Intact(j)}}
Forged == Forgeries # {}

Channel == INSTANCE PacketChannel
             WITH MaxId <- MaxBase, delivered <- Delivered,
                  lossy <- ~LosslessBuffer, forged <- Forged

\* Whatever is lost, flushed by a reconnection or cut off by a restart of the
\* board, and whatever the payload, encoder readings arrive in the order they
\* were taken and none arrives twice; one is forged only after a byte was lost.
ImplementsChannel == Channel!Spec
=============================================================================
