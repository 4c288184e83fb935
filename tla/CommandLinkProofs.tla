------------------------- MODULE CommandLinkProofs -------------------------
(***************************************************************************)
(* The safety properties of CommandLink, for every packet length, payload, *)
(* ring capacity and pattern of loss.                                      *)
(***************************************************************************)
EXTENDS CommandLink, FrameStreamProofs

ReaderTypeOK ==
  /\ rd \in Nat /\ rd <= got
  /\ acc \subseteq Nat
  /\ \A k \in acc : k + FrameLen <= rd
  /\ sent \subseteq Nat

\* What read() returned started and ended as a packet does.
Framed ==
  \A k \in acc :
    line[k + 1].val = START_BYTE /\ line[k + FrameLen].val = END_BYTE

\* read() examines every boundary that follows a whole packet, and passes it
\* only by skipping a byte that is no START_BYTE or by taking the window.
Examined ==
  \A k \in Nat :
    k < rd /\ Follows(k) =>
      \/ line[k + 1].val # START_BYTE
      \/ /\ k + FrameLen <= rd
         /\ k \in acc \/ line[k + FrameLen].val # END_BYTE

\* While nothing is lost read() stays at packet boundaries and takes each.
InStep ==
  Lossless =>
    /\ rd = 0 \/ (rd > 0 /\ line[rd].pos = FrameLen)
    /\ \A k \in acc : Intact(k)
    /\ \A k \in Nat : k + FrameLen <= rd /\ Intact(k) => k \in acc

IInv == StreamInv /\ ReaderTypeOK /\ Framed /\ Examined /\ InStep

-----------------------------------------------------------------------------
LEMMA InitIInv == Init => IInv
<1> SUFFICES ASSUME Init PROVE IInv
  OBVIOUS
<1>1. StreamInv
  BY StreamStart DEF Init
<1>2. rd = 0 /\ acc = {} /\ sent = {} /\ got = 0
  BY DEF Init, StreamInit
<1> QED
  BY <1>1, <1>2, FrameAssumption
     DEF IInv, ReaderTypeOK, Framed, Examined, InStep

\* The actions that are not read()'s: bytes move, the reader does not.
LEMMA PassiveStep ==
  ASSUME IInv,
         BeginFrame \/ ShiftOut \/ LoseByte \/ AbandonFrame
           \/ UNCHANGED streamVars,
         UNCHANGED <<rd, acc>>, sent' \subseteq Nat
  PROVE  IInv'
<1> USE FrameAssumption
<1>1. StreamInv /\ StreamInv'
  BY StreamStep DEF IInv
<1>2. /\ got \in Nat /\ got' \in Nat /\ got <= got'
      /\ \A i \in 1..got : line'[i] = line[i]
  BY <1>1, StreamGrows
<1>3. rd' = rd /\ acc' = acc /\ rd \in Nat /\ rd <= got /\ acc \subseteq Nat
      /\ \A k \in acc : k + FrameLen <= rd
  BY DEF IInv, ReaderTypeOK
<1>4. ReaderTypeOK'
  BY <1>2, <1>3 DEF ReaderTypeOK
<1>5. \A k \in Nat : k + FrameLen <= got =>
        /\ Intact(k)' <=> Intact(k)
        /\ line'[k + 1] = line[k + 1]
        /\ line'[k + FrameLen] = line[k + FrameLen]
  BY <1>1, IntactStable
<1>6. \A k \in acc : k \in Nat /\ k + FrameLen <= got
  BY <1>2, <1>3
<1>7. Framed'
  BY <1>3, <1>5, <1>6 DEF IInv, Framed
<1>8. Examined'
  <2> SUFFICES ASSUME NEW k \in Nat, k < rd, Follows(k)'
               PROVE  \/ line'[k + 1].val # START_BYTE
                      \/ /\ k + FrameLen <= rd
                         /\ k \in acc \/ line'[k + FrameLen].val # END_BYTE
    BY <1>3 DEF Examined
  <2>1. line'[k + 1] = line[k + 1]
    BY <1>2, <1>3
  <2>2. Follows(k)
    BY <1>1, <1>2, <1>3, FollowsStable
  <2>3. \/ line[k + 1].val # START_BYTE
        \/ /\ k + FrameLen <= rd
           /\ k \in acc \/ line[k + FrameLen].val # END_BYTE
    BY <2>2 DEF IInv, Examined
  <2>4. k + FrameLen <= rd => line'[k + FrameLen] = line[k + FrameLen]
    BY <1>2, <1>3, <1>5
  <2> QED
    BY <2>1, <2>3, <2>4
<1>9. InStep'
  <2> SUFFICES ASSUME Lossless'
               PROVE  /\ rd = 0 \/ (rd > 0 /\ line'[rd].pos = FrameLen)
                      /\ \A k \in acc : Intact(k)'
                      /\ \A k \in Nat :
                           k + FrameLen <= rd /\ Intact(k)' => k \in acc
    BY <1>3 DEF InStep
  <2>1. Lossless
    BY <1>1, LosslessBefore
  <2>2. rd > 0 => line'[rd] = line[rd]
    BY <1>2, <1>3
  <2>3. \A k \in Nat : k + FrameLen <= rd => k + FrameLen <= got
    BY <1>2, <1>3
  <2> QED
    BY <1>3, <1>5, <1>6, <2>1, <2>2, <2>3 DEF IInv, InStep
<1> QED
  BY <1>1, <1>4, <1>7, <1>8, <1>9 DEF IInv

\* At a packet boundary of a lossless stream there is a packet to take.
LEMMA InStepWindow ==
  ASSUME IInv, Lossless, Available >= FrameLen
  PROVE  /\ Intact(rd)
         /\ line[rd + 1].val = START_BYTE
         /\ line[rd + FrameLen].pos = FrameLen
         /\ line[rd + FrameLen].val = END_BYTE
<1> USE FrameAssumption
<1>1. rd \in Nat /\ got \in Nat /\ rd + FrameLen <= got
  BY ByteFields DEF IInv, ReaderTypeOK, Available
<1>2. Intact(rd)
  <2>1. \A i \in 1..(rd + FrameLen) : At(line[i]) = i
    BY <1>1 DEF Lossless
  <2> QED
    BY <1>1, <2>1, LosslessWindow DEF IInv, InStep
<1>3. 1 \in 1..FrameLen /\ FrameLen \in 1..FrameLen
  OBVIOUS
<1>4. line[rd + 1].pos = 1 /\ line[rd + FrameLen].pos = FrameLen
  BY <1>2, <1>3 DEF Intact
<1>5. rd + 1 \in 1..got /\ rd + FrameLen \in 1..got
  BY <1>1
<1> QED
  BY <1>2, <1>4, <1>5 DEF IInv, StreamInv, Delimited, ByteAt

LEMMA ReadSkipStep ==
  ASSUME IInv, ReadSkip
  PROVE  IInv'
<1> USE FrameAssumption
<1>1. /\ rd \in Nat /\ got \in Nat /\ rd + FrameLen <= got
      /\ rd' = rd + 1 /\ acc' = acc /\ line' = line /\ got' = got
      /\ sent' = sent /\ txBase' = txBase /\ txPos' = txPos
      /\ line[rd + 1].val # START_BYTE
  BY ByteFields DEF IInv, ReaderTypeOK, Available, ReadSkip, streamVars
<1>2. StreamInv'
  BY <1>1, StreamStep DEF IInv, streamVars
<1>3. ReaderTypeOK' /\ Framed'
  BY <1>1 DEF IInv, ReaderTypeOK, Framed
<1>4. Examined'
  <2> SUFFICES ASSUME NEW k \in Nat, k < rd + 1, Follows(k)
               PROVE  \/ line[k + 1].val # START_BYTE
                      \/ /\ k + FrameLen <= rd + 1
                         /\ k \in acc \/ line[k + FrameLen].val # END_BYTE
    BY <1>1 DEF Examined, Follows, Intact, Clean
  <2>1. CASE k = rd
    BY <1>1, <2>1
  <2>2. CASE k < rd
    BY <1>1, <2>2 DEF IInv, Examined
  <2> QED
    BY <1>1, <2>1, <2>2
<1>5. InStep'
  <2>1. ~Lossless
    BY <1>1, InStepWindow DEF ReadSkip
  <2> QED
    BY <1>1, <2>1 DEF InStep, Lossless
<1> QED
  BY <1>2, <1>3, <1>4, <1>5 DEF IInv

LEMMA ReadFrameStep ==
  ASSUME IInv, ReadFrame
  PROVE  IInv'
<1> USE FrameAssumption
<1>1. /\ rd \in Nat /\ got \in Nat /\ rd + FrameLen <= got
      /\ rd' = rd + FrameLen /\ line' = line /\ got' = got
      /\ sent' = sent /\ txBase' = txBase /\ txPos' = txPos
      /\ line[rd + 1].val = START_BYTE
  BY ByteFields DEF IInv, ReaderTypeOK, Available, ReadFrame, streamVars
<1>2. /\ acc \subseteq acc' /\ acc' \subseteq acc \cup {rd}
      /\ rd \in acc' \/ line[rd + FrameLen].val # END_BYTE
      /\ line[rd + FrameLen].val = END_BYTE \/ acc' = acc
  BY DEF ReadFrame
<1>3. StreamInv'
  BY <1>1, StreamStep DEF IInv, streamVars
<1>4. ReaderTypeOK'
  BY <1>1, <1>2 DEF IInv, ReaderTypeOK
<1>5. Framed'
  BY <1>1, <1>2 DEF IInv, Framed
<1>6. Examined'
  <2> SUFFICES ASSUME NEW k \in Nat, k < rd + FrameLen, Follows(k)
               PROVE  \/ line[k + 1].val # START_BYTE
                      \/ /\ k + FrameLen <= rd + FrameLen
                         /\ k \in acc' \/ line[k + FrameLen].val # END_BYTE
    BY <1>1 DEF Examined, Follows, Intact, Clean
  <2>1. CASE k < rd
    BY <1>1, <1>2, <2>1 DEF IInv, Examined
  <2>2. CASE k = rd
    BY <1>1, <1>2, <2>2
  <2>3. CASE rd < k
    <3>1. k >= FrameLen /\ Clean(k - FrameLen)
      BY <1>1, <2>3 DEF Follows
    <3> DEFINE i == rd + 1 - (k - FrameLen)
    <3>2. i \in 2..FrameLen /\ (k - FrameLen) + i = rd + 1
      BY <1>1, <2>3, <3>1
    <3>3. line[rd + 1].val # START_BYTE
      BY <3>1, <3>2 DEF Clean
    <3> QED
      BY <1>1, <3>3
  <2> QED
    BY <1>1, <2>1, <2>2, <2>3
<1>7. InStep'
  <2> SUFFICES ASSUME Lossless
               PROVE  /\ line[rd + FrameLen].pos = FrameLen
                      /\ \A k \in acc' : Intact(k)
                      /\ \A k \in Nat :
                           k + FrameLen <= rd + FrameLen /\ Intact(k)
                             => k \in acc'
    BY <1>1 DEF InStep, Lossless, Intact
  <2>1. Available >= FrameLen
    BY DEF ReadFrame
  <2>2. /\ Intact(rd) /\ line[rd + FrameLen].pos = FrameLen
        /\ line[rd + FrameLen].val = END_BYTE
    BY <2>1, InStepWindow
  <2>3. \A k \in acc' : Intact(k)
    BY <1>2, <2>2 DEF IInv, InStep
  <2>4. ASSUME NEW k \in Nat, k + FrameLen <= rd + FrameLen, Intact(k)
        PROVE  k \in acc'
    <3>1. CASE k + FrameLen <= rd
      BY <1>2, <2>4, <3>1 DEF IInv, InStep
    <3>2. CASE k = rd
      BY <1>2, <2>2, <3>2
    <3>3. CASE k < rd /\ rd < k + FrameLen
      <4> DEFINE i == rd - k
      <4>1. i \in 1..FrameLen /\ i # FrameLen /\ k + i = rd
        BY <1>1, <3>3
      <4>2. line[rd].pos = i
        BY <2>4, <4>1 DEF Intact
      <4>3. line[rd].pos = FrameLen
        BY <1>1, <3>3 DEF IInv, InStep
      <4> QED
        BY <4>1, <4>2, <4>3
    <3> QED
      BY <1>1, <2>4, <3>1, <3>2, <3>3
  <2> QED
    BY <2>2, <2>3, <2>4
<1> QED
  BY <1>3, <1>4, <1>5, <1>6, <1>7 DEF IInv

\* Every step of the link keeps the invariant.
LEMMA NextIInv == IInv /\ [Next]_vars => IInv'
<1> SUFFICES ASSUME IInv, [Next]_vars PROVE IInv'
  OBVIOUS
<1>1. CASE SetMotorValues
  <2>1. BeginFrame /\ UNCHANGED <<rd, acc>> /\ sent' = sent \cup {txBase'}
    BY <1>1 DEF SetMotorValues
  <2>2. txBase' \in Nat
    BY <2>1, FrameAssumption DEF BeginFrame, IInv, StreamInv, StreamTypeOK
  <2>3. sent' \subseteq Nat
    BY <2>1, <2>2 DEF IInv, ReaderTypeOK
  <2> QED
    BY <2>1, <2>3, PassiveStep
<1>2. CASE WriteFails \/ Receive \/ Lose
  <2>1. /\ ShiftOut \/ LoseByte \/ AbandonFrame
        /\ UNCHANGED <<sent, rd, acc>>
    BY <1>2 DEF WriteFails, Receive, Lose
  <2>2. sent' \subseteq Nat
    BY <2>1 DEF IInv, ReaderTypeOK
  <2> QED
    BY <2>1, <2>2, PassiveStep
<1>3. CASE UNCHANGED vars
  <2>1. UNCHANGED streamVars /\ UNCHANGED <<rd, acc>> /\ sent' = sent
    BY <1>3 DEF vars, streamVars
  <2>2. sent' \subseteq Nat
    BY <2>1 DEF IInv, ReaderTypeOK
  <2> QED
    BY <2>1, <2>2, PassiveStep
<1>4. CASE ReadSkip
  BY <1>4, ReadSkipStep
<1>5. CASE ReadFrame
  BY <1>5, ReadFrameStep
<1> QED
  BY <1>1, <1>2, <1>3, <1>4, <1>5 DEF Next, Read

LEMMA SpecIInv == Spec => []IInv
  BY InitIInv, NextIInv, PTL DEF Spec

-----------------------------------------------------------------------------
\* The variables keep their types; in particular the windows read() returned
\* do not reach past what it consumed (serial.hpp:11-26).
THEOREM TypeCorrect == Spec => []TypeOK
<1>1. IInv => TypeOK
  BY FrameAssumption DEF IInv, StreamInv, StreamTypeOK, ReaderTypeOK, TypeOK
<1> QED
  BY <1>1, SpecIInv, PTL

\* Whatever is lost and whatever the payload, a returned window is a whole
\* packet, or a payload byte passed for a delimiter, or a packet's worth of
\* bytes is missing inside (serial.hpp:18-22).
THEOREM SplicesNeedDeception == Spec => []SpliceNeedsDeception
<1>1. ASSUME IInv PROVE SpliceNeedsDeception
  <2> SUFFICES ASSUME NEW k \in acc
               PROVE  Intact(k) \/ Deceptive(k)
    BY DEF SpliceNeedsDeception
  <2>1. /\ k \in Nat /\ got \in Nat /\ k + FrameLen <= got
        /\ line[k + 1].val = START_BYTE /\ line[k + FrameLen].val = END_BYTE
    BY <1>1, ByteFields, FrameAssumption DEF IInv, ReaderTypeOK, Framed
  <2> QED
    BY <1>1, <2>1, FramedWindow DEF IInv
<1> QED
  BY <1>1, SpecIInv, PTL

\* A whole packet directly behind a whole one without START_BYTE in its payload
\* is never swallowed by resynchronisation (serial.hpp:12-24).
THEOREM SecondPacketsDelivered == Spec => []SecondPacketDelivered
<1>1. ASSUME IInv PROVE SecondPacketDelivered
  <2> SUFFICES ASSUME NEW k \in 0..(rd - 1), Follows(k), Intact(k)
               PROVE  k \in acc /\ k + FrameLen <= rd
    BY DEF SecondPacketDelivered
  <2>1. k \in Nat /\ k < rd /\ got \in Nat /\ k + FrameLen <= got
    BY <1>1, ByteFields DEF IInv, ReaderTypeOK, Intact
  <2>2. 1 \in 1..FrameLen /\ FrameLen \in 1..FrameLen
    BY FrameAssumption
  <2>3. line[k + 1].pos = 1 /\ line[k + FrameLen].pos = FrameLen
    BY <2>2 DEF Intact
  <2>4. k + 1 \in 1..got /\ k + FrameLen \in 1..got
    BY <2>1, FrameAssumption
  <2>5. line[k + 1].val = START_BYTE /\ line[k + FrameLen].val = END_BYTE
    BY <1>1, <2>3, <2>4, FrameAssumption
       DEF IInv, StreamInv, Delimited, ByteAt
  <2> QED
    BY <1>1, <2>1, <2>5 DEF IInv, Examined
<1> QED
  BY <1>1, SpecIInv, PTL

\* On a lossless stream read() returns the packets sent and nothing else,
\* even when the payload contains delimiters.
THEOREM LosslessDelivered == Spec => []LosslessDelivery
<1>1. ASSUME IInv PROVE LosslessDelivery
  <2> SUFFICES ASSUME Lossless
               PROVE  acc = {k \in 0..(rd - FrameLen) : Intact(k)}
    BY DEF LosslessDelivery
  <2>1. rd \in Nat /\ \A k \in acc : k \in Nat /\ k + FrameLen <= rd
    BY <1>1 DEF IInv, ReaderTypeOK
  <2>2. \A k \in acc : k \in 0..(rd - FrameLen) /\ Intact(k)
    BY <1>1, <2>1, FrameAssumption DEF IInv, InStep
  <2>3. \A k \in 0..(rd - FrameLen) : Intact(k) => k \in acc
    BY <1>1, <2>1, FrameAssumption DEF IInv, InStep
  <2> QED
    BY <2>2, <2>3
<1> QED
  BY <1>1, SpecIInv, PTL

-----------------------------------------------------------------------------
(***************************************************************************)
(* The link implements the abstract channel.                               *)
(***************************************************************************)

\* Every packet with a byte on the stream was numbered by set_motor_values.
Numbered ==
  /\ sent \subseteq 0..MaxBase
  /\ \A n \in sent : n <= txBase
  /\ txPos < FrameLen => txBase \in sent
  /\ \A i \in 1..got : line[i].base \in sent

CInv == IInv /\ Numbered

LEMMA InitCInv == Init => CInv
<1>1. Init => IInv
  BY InitIInv
<1>2. Init => Numbered
  BY FrameAssumption DEF Init, StreamInit, Numbered
<1> QED
  BY <1>1, <1>2 DEF CInv

LEMMA NextCInv == CInv /\ [Next]_vars => CInv'
<1> SUFFICES ASSUME CInv, [Next]_vars PROVE CInv'
  OBVIOUS
<1> USE FrameAssumption, BoundAssumption
<1>1. IInv'
  BY NextIInv DEF CInv
<1>2. /\ BeginFrame \/ ShiftOut \/ LoseByte \/ AbandonFrame
           \/ UNCHANGED streamVars
      /\ BeginFrame => sent' = sent \cup {txBase'}
      /\ ~BeginFrame => sent' = sent
  <2>1. UNCHANGED streamVars => ~BeginFrame
    BY DEF streamVars, BeginFrame, CInv, IInv, StreamInv, StreamTypeOK
  <2>2. ShiftOut \/ LoseByte \/ AbandonFrame => ~BeginFrame
    BY DEF ShiftOut, LoseByte, AbandonFrame, BeginFrame, CInv, IInv,
           StreamInv, StreamTypeOK
  <2>3. UNCHANGED vars => UNCHANGED streamVars /\ sent' = sent
    BY DEF vars, streamVars
  <2>4. CASE SetMotorValues
    BY <2>4 DEF SetMotorValues
  <2>5. CASE WriteFails \/ Receive \/ Lose
    BY <2>2, <2>5 DEF WriteFails, Receive, Lose
  <2>6. CASE ReadSkip \/ ReadFrame
    BY <2>1, <2>6 DEF ReadSkip, ReadFrame
  <2>7. CASE UNCHANGED vars
    BY <2>1, <2>3, <2>7
  <2> QED
    BY <2>4, <2>5, <2>6, <2>7 DEF Next, Read
<1>3. Numbered'
  <2>1. /\ txBase \in Int /\ txBase >= -FrameLen /\ txPos \in 0..FrameLen
        /\ got \in Nat
    BY DEF CInv, IInv, StreamInv, StreamTypeOK
  <2>2. CASE BeginFrame
    <3>1. /\ txBase' = txBase + FrameLen /\ txBase' \in 0..MaxBase
          /\ got' = got /\ line' = line /\ sent' = sent \cup {txBase'}
      BY <1>2, <2>1, <2>2 DEF BeginFrame
    <3>2. \A n \in sent : n \in 0..MaxBase /\ n <= txBase
      BY DEF CInv, Numbered
    <3>3. \A n \in sent' : n <= txBase'
      BY <2>1, <3>1, <3>2
    <3> QED
      BY <3>1, <3>3 DEF CInv, Numbered
  <2>3. CASE ShiftOut
    <3>1. sent' = sent
      BY <1>2, <2>3, <2>1 DEF ShiftOut, BeginFrame
    <3>2. PICK b \in Bytes :
            /\ b.base = txBase /\ txPos' = txPos + 1 /\ txBase' = txBase
            /\ txPos + 1 \in 1..FrameLen /\ got' = got + 1
            /\ \A i \in 1..got : line'[i] = line[i]
            /\ line'[got + 1] = b
      BY <2>3, ShiftOutByte DEF CInv, IInv, StreamInv
    <3>3. txBase \in sent
      BY <2>3, <2>1 DEF ShiftOut, CInv, Numbered
    <3>4. \A i \in 1..got' : line'[i].base \in sent
      <4> SUFFICES ASSUME NEW i \in 1..(got + 1) PROVE line'[i].base \in sent
        BY <3>2
      <4>1. CASE i = got + 1
        BY <4>1, <3>2, <3>3
      <4>2. CASE i \in 1..got
        BY <4>2, <3>2 DEF CInv, Numbered
      <4> QED
        BY <4>1, <4>2, <2>1
    <3> QED
      BY <3>1, <3>2, <3>3, <3>4 DEF CInv, Numbered
  <2>4. CASE LoseByte \/ AbandonFrame \/ UNCHANGED streamVars
    <3>1. /\ txBase' = txBase /\ got' = got /\ line' = line
          /\ txPos' = txPos \/ txPos < FrameLen
      BY <2>4 DEF LoseByte, AbandonFrame, streamVars
    <3>2. sent' = sent
      BY <1>2, <2>1, <3>1 DEF BeginFrame
    <3> QED
      BY <3>1, <3>2 DEF CInv, Numbered
  <2> QED
    BY <1>2, <2>2, <2>3, <2>4
<1> QED
  BY <1>1, <1>3 DEF CInv

LEMMA SpecCInv == Spec => []CInv
  BY InitCInv, NextCInv, PTL DEF Spec

\* A window read() returned lies behind what it has consumed.
LEMMA AcceptedBehind ==
  ASSUME IInv, NEW k \in acc
  PROVE  k \in Nat /\ k + FrameLen <= rd /\ k + FrameLen <= got
<1>1. k \in Nat /\ k + FrameLen <= rd /\ rd \in Nat /\ rd <= got
  BY DEF IInv, ReaderTypeOK
<1>2. got \in Nat
  BY ByteFields DEF IInv
<1> QED
  BY <1>1, <1>2, FrameAssumption

\* A step that returns nothing delivers and forges nothing, and loses nothing
\* unless it is a loss of the channel.
LEMMA SilentStep ==
  ASSUME IInv, acc' = acc,
         BeginFrame \/ ShiftOut \/ LoseByte \/ AbandonFrame
           \/ UNCHANGED streamVars
  PROVE  /\ Delivered' = Delivered
         /\ Forged' <=> Forged
         /\ Lossless' => Lossless
<1>1. \A k \in acc : (Intact(k)' <=> Intact(k)) /\ line'[k + 1] = line[k + 1]
  BY AcceptedBehind, IntactStable DEF IInv
<1>2. Delivered' = Delivered /\ (Forged' <=> Forged)
  BY <1>1 DEF Delivered, Forged
<1> QED
  BY <1>2, LosslessBefore DEF IInv

\* Every step of the link is a step of the channel, or none.
LEMMA ChannelStep ==
  ASSUME CInv, [Next]_vars
  PROVE  [Channel!Next]_(Channel!vars)
<1> USE FrameAssumption, BoundAssumption
<1>1. IInv
  BY DEF CInv
<1>2. CASE SetMotorValues
  <2>1. BeginFrame /\ acc' = acc /\ sent' = sent \cup {txBase'}
    BY <1>2 DEF SetMotorValues
  <2>2. Delivered' = Delivered /\ (Forged' <=> Forged)
    BY <1>1, <2>1, SilentStep
  <2>3. Lossless' <=> Lossless
    BY <2>1 DEF BeginFrame, Lossless
  <2>4. txBase' \in 0..MaxBase /\ txBase < txBase'
        /\ txBase \in Int /\ txBase' \in Int
    BY <2>1 DEF BeginFrame, CInv, IInv, StreamInv, StreamTypeOK
  <2>5. \A m \in sent : m < txBase'
    <3> SUFFICES ASSUME NEW m \in sent PROVE m < txBase'
      OBVIOUS
    <3>1. m \in 0..MaxBase /\ m <= txBase
      BY DEF CInv, Numbered
    <3> QED
      BY <2>4, <3>1
  <2>6. Channel!Send(txBase')
    BY <2>1, <2>2, <2>3, <2>5 DEF Channel!Send
  <2> QED
    BY <2>4, <2>6 DEF Channel!Next
<1>3. CASE WriteFails \/ Receive \/ Lose \/ ReadSkip \/ UNCHANGED vars
  <2>1. /\ ShiftOut \/ LoseByte \/ AbandonFrame \/ UNCHANGED streamVars
        /\ acc' = acc /\ sent' = sent
    BY <1>3 DEF WriteFails, Receive, Lose, ReadSkip, vars, streamVars
  <2>2. /\ Delivered' = Delivered /\ (Forged' <=> Forged)
        /\ Lossless' => Lossless
    BY <1>1, <2>1, SilentStep
  <2>3. sent' = sent
    BY <2>1
  <2>4. CASE Lossless' <=> Lossless
    BY <2>2, <2>3, <2>4 DEF Channel!vars, Lossless, Forged
  <2>5. CASE ~Lossless'
    <3>1. Channel!Spoil
      BY <2>2, <2>3, <2>5 DEF Channel!Spoil, Lossless, Forged
    <3> QED
      BY <3>1 DEF Channel!Next
  <2> QED
    BY <2>2, <2>4, <2>5
<1>4. CASE ReadFrame
  <2>1. /\ rd \in Nat /\ got \in Nat /\ rd + FrameLen <= got
        /\ UNCHANGED streamVars /\ line' = line /\ got' = got /\ sent' = sent
        /\ Available >= FrameLen
    BY <1>1, <1>4, ByteFields
       DEF ReadFrame, Available, streamVars, IInv, ReaderTypeOK
  <2>2. /\ Lossless' <=> Lossless
        /\ \A k : Intact(k)' <=> Intact(k)
    BY <2>1 DEF Intact, Lossless
  <2>3. CASE line[rd + FrameLen].val # END_BYTE
    <3>1. acc' = acc
      BY <1>4, <2>3 DEF ReadFrame
    <3>2. Delivered' = Delivered /\ (Forged' <=> Forged)
      BY <1>1, <2>1, <3>1, SilentStep
    <3> QED
      BY <2>1, <2>2, <3>2 DEF Channel!vars
  <2>4. CASE line[rd + FrameLen].val = END_BYTE /\ Intact(rd)
    <3> DEFINE n == line[rd + 1].base
    <3>1. acc' = acc \cup {rd}
      BY <1>4, <2>4 DEF ReadFrame
    <3>2. 1 \in 1..FrameLen /\ rd + 1 \in 1..got
      BY <2>1
    <3>3. line[rd + 1].pos = 1
      BY <2>4, <3>2 DEF Intact
    <3>4. n \in sent /\ n \in 0..MaxBase
      BY <3>2 DEF CInv, Numbered
    <3>5. Delivered' = Delivered \cup {n} /\ (Forged' <=> Forged)
      BY <2>1, <2>2, <2>4, <3>1 DEF Delivered, Forged
    <3>6. \A m \in Delivered : m < n
      <4> SUFFICES ASSUME NEW k \in acc, Intact(k)
                   PROVE  line[k + 1].base < n
        BY DEF Delivered
      <4>1. k \in Nat /\ k + FrameLen <= rd
        BY <1>1, AcceptedBehind
      <4> QED
        BY <1>1, <2>1, <3>3, <4>1, LaterWindow DEF IInv
    <3>7. Channel!Deliver(n)
      BY <2>1, <2>2, <3>4, <3>5, <3>6 DEF Channel!Deliver
    <3> QED
      BY <3>4, <3>7 DEF Channel!Next
  <2>5. CASE line[rd + FrameLen].val = END_BYTE /\ ~Intact(rd)
    <3>1. acc' = acc \cup {rd}
      BY <1>4, <2>5 DEF ReadFrame
    <3>2. ~Lossless
      BY <1>1, <2>1, <2>5, InStepWindow
    <3>3. Delivered' = Delivered /\ Forged'
      BY <2>1, <2>2, <2>5, <3>1 DEF Delivered, Forged
    <3>4. Channel!Forge
      BY <2>1, <2>2, <3>2, <3>3 DEF Channel!Forge
    <3> QED
      BY <3>4 DEF Channel!Next
  <2> QED
    BY <2>3, <2>4, <2>5
<1> QED
  BY <1>2, <1>3, <1>4 DEF Next, Read

\* For every payload and pattern of loss the command link is the abstract
\* channel: it may drop packets but repeats and reorders none, and acts on
\* something the host did not send only after a byte was lost.
THEOREM LinkImplementsChannel == Spec => ImplementsChannel
<1>1. Init => Channel!Init
  BY DEF Init, StreamInit, Channel!Init, Delivered, Forged, Lossless
<1>2. CInv /\ [Next]_vars => [Channel!Next]_(Channel!vars)
  BY ChannelStep
<1> QED
  BY <1>1, <1>2, SpecCInv, PTL DEF Spec, ImplementsChannel, Channel!Spec
=============================================================================
