------------------------- MODULE FeedbackLinkProofs -------------------------
(***************************************************************************)
(* The safety properties of FeedbackLink, for every packet length, payload *)
(* and pattern of loss, restarts and reconnections included.               *)
(***************************************************************************)
EXTENDS FeedbackLink, FrameStreamProofs

HostTypeOK ==
  /\ pulled \in Nat /\ pulled <= got
  /\ rd \in Nat /\ rd <= pulled
  /\ busy \in BOOLEAN
  /\ acc \subseteq Nat
  /\ \A k \in acc : k + FrameLen <= rd
  /\ sent \subseteq Nat

\* The loop of a call that returned found less than a packet.
Drained == ~busy => Buffered < FrameLen

\* latest is the newest window taken.
Newest ==
  /\ latest = -1 \/ latest \in acc
  /\ \A k \in acc : k <= latest

Framed ==
  \A k \in acc :
    line[k + 1].val = START_BYTE /\ line[k + FrameLen].val = END_BYTE

\* An offset the scan has passed was taken, lies inside a window that was, or
\* begins no window framed as a packet is.
Scanned ==
  \A k \in Nat :
    k < rd =>
      \/ k \in acc
      \/ \E j \in acc : j < k /\ k < j + FrameLen
      \/ /\ k + FrameLen <= pulled
         /\ \/ line[k + 1].val # START_BYTE
            \/ line[k + FrameLen].val # END_BYTE

\* While nothing is lost the scan stays at packet boundaries and takes each.
InStep ==
  LosslessBuffer =>
    /\ rd = 0 \/ (rd > 0 /\ line[rd].pos = FrameLen)
    /\ \A k \in acc : Intact(k)
    /\ \A k \in Nat : k + FrameLen <= rd /\ Intact(k) => k \in acc

HInv ==
  HostTypeOK /\ Drained /\ Newest /\ Framed /\ Scanned /\ InStep

IInv == StreamInv /\ HInv

-----------------------------------------------------------------------------
LEMMA InitIInv == Init => IInv
<1> SUFFICES ASSUME Init PROVE IInv
  OBVIOUS
<1>1. StreamInv
  BY StreamStart DEF Init
<1>2. /\ rd = 0 /\ pulled = 0 /\ busy = FALSE /\ acc = {} /\ latest = -1
      /\ sent = {} /\ got = 0
  BY DEF Init, StreamInit
<1>3. HostTypeOK /\ Drained
  <2>1. HostTypeOK
    <3>1. /\ pulled \in Nat /\ pulled <= got /\ rd \in Nat /\ rd <= pulled
      BY <1>2
    <3>2. busy \in BOOLEAN
      BY <1>2
    <3>3. acc \subseteq Nat /\ sent \subseteq Nat
      BY <1>2
    <3>4. \A k \in acc : k + FrameLen <= rd
      BY <1>2
    <3> QED
      BY <3>1, <3>2, <3>3, <3>4 DEF HostTypeOK
  <2>2. Buffered < FrameLen
    BY <1>2, FrameAssumption DEF Buffered
  <2> QED
    BY <2>1, <2>2 DEF Drained
<1>4. Newest /\ Framed /\ Scanned
  BY <1>2 DEF Newest, Framed, Scanned
<1>5. InStep
  BY <1>2, FrameAssumption DEF InStep
<1> QED
  BY <1>1, <1>3, <1>4, <1>5 DEF IInv, HInv

\* A step that leaves the host's variables and the bytes it pulled alone.
LEMMA HostIdle ==
  ASSUME IInv, UNCHANGED hostVars, sent' \subseteq Nat,
         got' \in Nat, pulled <= got', \A i \in 1..pulled : line'[i] = line[i]
  PROVE  HInv'
<1> USE FrameAssumption
<1>1. /\ rd' = rd /\ pulled' = pulled /\ busy' = busy /\ acc' = acc
      /\ latest' = latest
  BY DEF hostVars
<1>2. /\ got \in Nat /\ pulled \in Nat /\ rd \in Nat /\ pulled <= got
      /\ rd <= pulled /\ acc \subseteq Nat
      /\ \A k \in acc : k + FrameLen <= rd
  BY ByteFields DEF IInv, HInv, HostTypeOK
<1>3. HostTypeOK' /\ Drained' /\ Newest'
  BY <1>1 DEF IInv, HInv, HostTypeOK, Drained, Buffered, Newest
<1>4. \A k \in Nat : k + FrameLen <= pulled =>
        /\ Intact(k)' <=> Intact(k)
        /\ line'[k + 1] = line[k + 1]
        /\ line'[k + FrameLen] = line[k + FrameLen]
  <2> SUFFICES ASSUME NEW k \in Nat, k + FrameLen <= pulled
               PROVE  /\ Intact(k)' <=> Intact(k)
                      /\ line'[k + 1] = line[k + 1]
                      /\ line'[k + FrameLen] = line[k + FrameLen]
    OBVIOUS
  <2>1. \A i \in 1..FrameLen : k + i \in 1..pulled
    BY <1>2
  <2>2. \A i \in 1..FrameLen : line'[k + i] = line[k + i]
    BY <2>1
  <2>3. 1 \in 1..FrameLen /\ FrameLen \in 1..FrameLen
    OBVIOUS
  <2>4. line'[k + 1] = line[k + 1] /\ line'[k + FrameLen] = line[k + FrameLen]
    BY <2>2, <2>3
  <2>5. k + FrameLen <= got /\ k + FrameLen <= got'
    BY <1>2
  <2> QED
    BY <2>2, <2>4, <2>5 DEF Intact
<1>5. \A k \in Nat : k + FrameLen <= rd => k + FrameLen <= pulled
  BY <1>2
<1>6. Framed'
  BY <1>1, <1>2, <1>4, <1>5 DEF IInv, HInv, Framed
<1>7. Scanned'
  <2> SUFFICES ASSUME NEW k \in Nat, k < rd, k \notin acc,
                      ~ \E j \in acc : j < k /\ k < j + FrameLen
               PROVE  /\ k + FrameLen <= pulled
                      /\ \/ line'[k + 1].val # START_BYTE
                         \/ line'[k + FrameLen].val # END_BYTE
    BY <1>1 DEF Scanned
  <2> QED
    BY <1>4 DEF IInv, HInv, Scanned
<1>8. InStep'
  <2> SUFFICES ASSUME LosslessBuffer'
               PROVE  /\ rd = 0 \/ (rd > 0 /\ line'[rd].pos = FrameLen)
                      /\ \A k \in acc : Intact(k)'
                      /\ \A k \in Nat :
                           k + FrameLen <= rd /\ Intact(k)' => k \in acc
    BY <1>1 DEF InStep
  <2>1. LosslessBuffer
    BY <1>1 DEF LosslessBuffer
  <2>2. rd > 0 => line'[rd] = line[rd]
    BY <1>2
  <2> QED
    BY <1>2, <1>4, <1>5, <2>1, <2>2 DEF IInv, HInv, InStep
<1> QED
  BY <1>3, <1>6, <1>7, <1>8 DEF HInv

\* The actions of the firmware and the wire.
LEMMA PassiveStep ==
  ASSUME IInv,
         BeginFrame \/ ShiftOut \/ LoseByte \/ AbandonFrame
           \/ UNCHANGED streamVars,
         UNCHANGED hostVars, sent' \subseteq Nat
  PROVE  IInv'
<1>1. StreamInv'
  BY StreamStep DEF IInv
<1>2. /\ got \in Nat /\ got' \in Nat /\ got <= got'
      /\ \A i \in 1..got : line'[i] = line[i]
  BY StreamGrows DEF IInv
<1>3. pulled \in Nat /\ pulled <= got
  BY DEF IInv, HInv, HostTypeOK
<1>4. pulled <= got' /\ \A i \in 1..pulled : line'[i] = line[i]
  BY <1>2, <1>3
<1> QED
  BY <1>1, <1>2, <1>4, HostIdle DEF IInv

LEMMA ReconnectStep ==
  ASSUME IInv, Reconnect
  PROVE  IInv'
<1>1. /\ got' = pulled /\ line' = [i \in 1..pulled |-> line[i]]
      /\ txBase' = txBase /\ txPos' = txPos /\ sent' = sent
      /\ UNCHANGED hostVars
  BY DEF Reconnect
<1>2. pulled \in Nat /\ pulled <= got /\ sent \subseteq Nat
  BY DEF IInv, HInv, HostTypeOK
<1>3. StreamInv' /\ \A i \in 1..pulled : line'[i] = line[i]
  BY <1>1, <1>2, FlushStep DEF IInv
<1>4. HInv'
  BY <1>1, <1>2, <1>3, HostIdle
<1> QED
  BY <1>3, <1>4 DEF IInv

LEMMA PollStep ==
  ASSUME IInv, Poll
  PROVE  IInv'
<1>1. /\ busy' = TRUE /\ pulled' = got /\ rd' = rd /\ acc' = acc
      /\ latest' = latest /\ sent' = sent /\ line' = line /\ got' = got
      /\ txBase' = txBase /\ txPos' = txPos
  BY DEF Poll, streamVars
<1>2. StreamInv'
  BY <1>1, StreamStep DEF IInv, streamVars
<1>3. got \in Nat /\ pulled \in Nat /\ rd \in Nat /\ pulled <= got /\ rd <= pulled
  BY ByteFields DEF IInv, HInv, HostTypeOK
<1>4. HostTypeOK' /\ Drained' /\ Newest' /\ Framed'
  BY <1>1, <1>3
     DEF IInv, HInv, HostTypeOK, Drained, Newest, Framed
<1>5. Scanned'
  BY <1>1, <1>3, FrameAssumption DEF IInv, HInv, Scanned
<1>6. InStep'
  <2>1. LosslessBuffer' => LosslessBuffer
    BY <1>1, <1>3 DEF LosslessBuffer
  <2> QED
    BY <1>1, <2>1 DEF IInv, HInv, InStep, Intact
<1> QED
  BY <1>2, <1>4, <1>5, <1>6 DEF IInv, HInv

LEMMA ReturnStep ==
  ASSUME IInv, Return
  PROVE  IInv'
<1>1. /\ busy' = FALSE /\ pulled' = pulled /\ rd' = rd /\ acc' = acc
      /\ latest' = latest /\ sent' = sent /\ line' = line /\ got' = got
      /\ txBase' = txBase /\ txPos' = txPos /\ Buffered < FrameLen
  BY DEF Return, streamVars
<1>2. StreamInv'
  BY <1>1, StreamStep DEF IInv, streamVars
<1>3. HostTypeOK' /\ Drained' /\ Newest' /\ Framed' /\ Scanned' /\ InStep'
  BY <1>1 DEF IInv, HInv, HostTypeOK, Drained, Buffered, Newest, Framed,
     Scanned, InStep, LosslessBuffer, Intact
<1> QED
  BY <1>2, <1>3 DEF IInv, HInv

\* What a scan step finds at a packet boundary of a lossless buffer.
LEMMA InStepWindow ==
  ASSUME IInv, LosslessBuffer, Buffered >= FrameLen
  PROVE  Intact(rd) /\ Matches /\ line[rd + FrameLen].pos = FrameLen
<1> USE FrameAssumption
<1>1. /\ rd \in Nat /\ got \in Nat /\ pulled \in Nat /\ pulled <= got
      /\ rd + FrameLen <= pulled /\ rd + FrameLen <= got
  BY ByteFields DEF IInv, HInv, HostTypeOK, Buffered
<1>2. Intact(rd)
  <2>1. \A i \in 1..(rd + FrameLen) : At(line[i]) = i
    BY <1>1 DEF LosslessBuffer
  <2> QED
    BY <1>1, <2>1, LosslessWindow DEF IInv, HInv, InStep
<1>3. 1 \in 1..FrameLen /\ FrameLen \in 1..FrameLen
  OBVIOUS
<1>4. line[rd + 1].pos = 1 /\ line[rd + FrameLen].pos = FrameLen
  BY <1>2, <1>3 DEF Intact
<1>5. rd + 1 \in 1..got /\ rd + FrameLen \in 1..got
  BY <1>1
<1> QED
  BY <1>2, <1>4, <1>5 DEF IInv, StreamInv, Delimited, ByteAt, Matches

LEMMA ScanShiftStep ==
  ASSUME IInv, ScanShift
  PROVE  IInv'
<1> USE FrameAssumption
<1>1. /\ busy' = busy /\ pulled' = pulled /\ rd' = rd + 1 /\ acc' = acc
      /\ latest' = latest /\ sent' = sent /\ line' = line /\ got' = got
      /\ txBase' = txBase /\ txPos' = txPos /\ busy /\ ~Matches
      /\ Buffered >= FrameLen
  BY DEF ScanShift, streamVars
<1>2. /\ rd \in Nat /\ got \in Nat /\ pulled \in Nat /\ pulled <= got
      /\ rd + FrameLen <= pulled
  BY <1>1, ByteFields DEF IInv, HInv, HostTypeOK, Buffered
<1>3. StreamInv'
  BY <1>1, StreamStep DEF IInv, streamVars
<1>4. HostTypeOK'
  BY <1>1, <1>2 DEF IInv, HInv, HostTypeOK
<1>5. Drained' /\ Newest' /\ Framed'
  BY <1>1 DEF IInv, HInv, Drained, Newest, Framed
<1>6. Scanned'
  <2> SUFFICES ASSUME NEW k \in Nat, k < rd + 1, k \notin acc,
                      ~ \E j \in acc : j < k /\ k < j + FrameLen
               PROVE  /\ k + FrameLen <= pulled
                      /\ \/ line[k + 1].val # START_BYTE
                         \/ line[k + FrameLen].val # END_BYTE
    BY <1>1 DEF Scanned
  <2>1. CASE k < rd
    BY <2>1 DEF IInv, HInv, Scanned
  <2>2. CASE k = rd
    BY <1>1, <1>2, <2>2 DEF Matches
  <2> QED
    BY <1>2, <2>1, <2>2
<1>7. InStep'
  <2>1. ~LosslessBuffer
    BY <1>1, InStepWindow
  <2> QED
    BY <1>1, <2>1 DEF InStep, LosslessBuffer
<1> QED
  BY <1>3, <1>4, <1>5, <1>6, <1>7 DEF IInv, HInv

LEMMA ScanAcceptStep ==
  ASSUME IInv, ScanAccept
  PROVE  IInv'
<1> USE FrameAssumption
<1>1. /\ busy' = busy /\ pulled' = pulled /\ rd' = rd + FrameLen
      /\ acc' = acc \cup {rd} /\ latest' = rd
      /\ sent' = sent /\ line' = line /\ got' = got
      /\ txBase' = txBase /\ txPos' = txPos /\ busy /\ Matches
      /\ Buffered >= FrameLen
  BY DEF ScanAccept, streamVars
<1>2. /\ rd \in Nat /\ got \in Nat /\ pulled \in Nat /\ pulled <= got
      /\ rd + FrameLen <= pulled /\ acc \subseteq Nat
      /\ \A k \in acc : k + FrameLen <= rd
  BY <1>1, ByteFields DEF IInv, HInv, HostTypeOK, Buffered
<1>3. StreamInv'
  BY <1>1, StreamStep DEF IInv, streamVars
<1>4. HostTypeOK' /\ Drained'
  BY <1>1, <1>2 DEF IInv, HInv, HostTypeOK, Drained
<1>5. Newest' /\ Framed'
  BY <1>1, <1>2 DEF IInv, HInv, Newest, Framed, Matches
<1>6. Scanned'
  <2> SUFFICES ASSUME NEW k \in Nat, k < rd + FrameLen, k \notin acc', k >= rd
               PROVE  \E j \in acc' : j < k /\ k < j + FrameLen
    BY <1>1, <1>2 DEF IInv, HInv, Scanned
  <2> QED
    BY <1>1, <1>2
<1>7. InStep'
  <2> SUFFICES ASSUME LosslessBuffer
               PROVE  /\ line[rd + FrameLen].pos = FrameLen
                      /\ \A k \in acc \cup {rd} : Intact(k)
                      /\ \A k \in Nat :
                           k + FrameLen <= rd + FrameLen /\ Intact(k)
                             => k \in acc \cup {rd}
    BY <1>1, <1>2 DEF InStep, LosslessBuffer, Intact
  <2>1. Intact(rd) /\ line[rd + FrameLen].pos = FrameLen
    BY <1>1, InStepWindow
  <2>2. \A k \in acc \cup {rd} : Intact(k)
    BY <2>1 DEF IInv, HInv, InStep
  <2>3. ASSUME NEW k \in Nat, k + FrameLen <= rd + FrameLen, Intact(k)
        PROVE  k \in acc \cup {rd}
    <3>1. CASE k + FrameLen <= rd
      BY <2>3, <3>1 DEF IInv, HInv, InStep
    <3>2. CASE k = rd
      BY <3>2
    <3>3. CASE k < rd /\ rd < k + FrameLen
      <4> DEFINE i == rd - k
      <4>1. i \in 1..FrameLen /\ i # FrameLen /\ k + i = rd
        BY <1>2, <3>3
      <4>2. line[rd].pos = i
        BY <2>3, <4>1 DEF Intact
      <4>3. line[rd].pos = FrameLen
        BY <1>2, <3>3 DEF IInv, HInv, InStep
      <4> QED
        BY <4>1, <4>2, <4>3
    <3> QED
      BY <1>2, <2>3, <3>1, <3>2, <3>3
  <2> QED
    BY <2>1, <2>2, <2>3
<1> QED
  BY <1>3, <1>4, <1>5, <1>6, <1>7 DEF IInv, HInv

\* Every step of the link keeps the invariant.
LEMMA NextIInv == IInv /\ [Next]_vars => IInv'
<1> SUFFICES ASSUME IInv, [Next]_vars PROVE IInv'
  OBVIOUS
<1>1. CASE SendReply
  <2>1. BeginFrame /\ UNCHANGED hostVars /\ sent' = sent \cup {txBase'}
    BY <1>1 DEF SendReply
  <2>2. txBase' \in Nat
    BY <2>1, FrameAssumption DEF BeginFrame, IInv, StreamInv, StreamTypeOK
  <2>3. sent' \subseteq Nat
    BY <2>1, <2>2 DEF IInv, HInv, HostTypeOK
  <2> QED
    BY <2>1, <2>3, PassiveStep
<1>2. CASE FirmwareRestart \/ Receive \/ Lose
  <2>1. /\ ShiftOut \/ LoseByte \/ AbandonFrame
        /\ UNCHANGED hostVars /\ sent' = sent
    BY <1>2 DEF FirmwareRestart, Receive, Lose
  <2>2. sent' \subseteq Nat
    BY <2>1 DEF IInv, HInv, HostTypeOK
  <2> QED
    BY <2>1, <2>2, PassiveStep
<1>3. CASE UNCHANGED vars
  <2>1. UNCHANGED streamVars /\ UNCHANGED hostVars /\ sent' = sent
    BY <1>3 DEF vars, streamVars, hostVars
  <2>2. sent' \subseteq Nat
    BY <2>1 DEF IInv, HInv, HostTypeOK
  <2> QED
    BY <2>1, <2>2, PassiveStep
<1>4. CASE Reconnect
  BY <1>4, ReconnectStep
<1>5. CASE HostRead
  BY <1>5, PollStep, ScanAcceptStep, ScanShiftStep, ReturnStep DEF HostRead
<1> QED
  BY <1>1, <1>2, <1>3, <1>4, <1>5 DEF Next

LEMMA SpecIInv == Spec => []IInv
  BY InitIInv, NextIInv, PTL DEF Spec

-----------------------------------------------------------------------------
\* The variables keep their types; in particular recv_buffer_ never gives up
\* bytes it does not hold, and the values in use come from a window taken
\* (serial_comm.hpp:174-188).
THEOREM TypeCorrect == Spec => []TypeOK
<1>1. ASSUME IInv PROVE TypeOK
  <2>1. /\ txBase \in Int /\ txBase >= -FrameLen /\ txPos \in 0..FrameLen
        /\ got \in Nat /\ line \in [1..got -> Bytes]
    BY <1>1 DEF IInv, StreamInv, StreamTypeOK
  <2>2. /\ sent \subseteq Nat /\ pulled \in 0..got /\ rd \in 0..pulled
        /\ busy \in BOOLEAN
    BY <1>1, <2>1 DEF IInv, HInv, HostTypeOK
  <2>3. acc \subseteq 0..(rd - FrameLen)
    BY <1>1, <2>2, FrameAssumption DEF IInv, HInv, HostTypeOK
  <2>4. latest \in acc \cup {-1}
    BY <1>1 DEF IInv, HInv, Newest
  <2> QED
    BY <2>1, <2>2, <2>3, <2>4 DEF TypeOK
<1> QED
  BY <1>1, SpecIInv, PTL

\* Whatever is lost or flushed and whatever the payload, restarts and
\* reconnections included, a packet taken is whole, or a payload byte passed for
\* a delimiter, or a packet's worth of bytes is missing inside
\* (serial_comm.hpp:48-56, 174-188).
THEOREM SplicesNeedDeception == Spec => []SpliceNeedsDeception
<1>1. ASSUME IInv PROVE SpliceNeedsDeception
  <2> SUFFICES ASSUME NEW k \in acc
               PROVE  Intact(k) \/ Deceptive(k)
    BY DEF SpliceNeedsDeception, Forgeries
  <2>1. /\ k \in Nat /\ k + FrameLen <= rd /\ rd \in Nat /\ pulled \in Nat
        /\ rd <= pulled /\ pulled <= got /\ got \in Nat
        /\ line[k + 1].val = START_BYTE /\ line[k + FrameLen].val = END_BYTE
    BY <1>1, ByteFields DEF IInv, HInv, HostTypeOK, Framed
  <2>2. k + FrameLen <= got
    BY <2>1, FrameAssumption
  <2> QED
    BY <1>1, <2>1, <2>2, FramedWindow DEF IInv
<1> QED
  BY <1>1, SpecIInv, PTL

\* Two whole packets are the same or do not overlap.
LEMMA WholeApart ==
  ASSUME NEW j \in Nat, NEW k \in Nat, j < k, k < j + FrameLen, Intact(j)
  PROVE  ~Intact(k)
<1> USE FrameAssumption
<1> DEFINE i == k + 1 - j
<1>1. i \in 2..FrameLen /\ j + i = k + 1 /\ i \in 1..FrameLen /\ 1 \in 1..FrameLen
  OBVIOUS
<1>2. line[k + 1].pos = i
  BY <1>1 DEF Intact
<1> QED
  BY <1>1, <1>2 DEF Intact

\* A call that returned has taken every whole packet it was given, except where
\* a forgery swallowed part of it, and kept what is newest
\* (serial_comm.hpp:161-199).
THEOREM FreshWheneverReturned == Spec => []FreshOnReturn
<1>1. ASSUME IInv PROVE FreshOnReturn
  <2> USE FrameAssumption
  <2> SUFFICES ASSUME ~busy, NEW k \in 0..(pulled - FrameLen), Intact(k)
               PROVE  /\ k \in acc
                           \/ \E j \in Forgeries : j < k /\ k < j + FrameLen
                      /\ latest \notin Forgeries => latest >= k
                      /\ latest \in Forgeries => latest + FrameLen > k
    BY DEF FreshOnReturn
  <2>1. /\ k \in Nat /\ pulled \in Nat /\ rd \in Nat /\ got \in Nat
        /\ k + FrameLen <= pulled /\ rd <= pulled /\ pulled <= got
        /\ pulled - rd < FrameLen /\ acc \subseteq Nat
    BY <1>1, ByteFields DEF IInv, HInv, HostTypeOK, Drained, Buffered
  <2>2. k < rd
    BY <2>1
  <2>3. line[k + 1].val = START_BYTE /\ line[k + FrameLen].val = END_BYTE
    <3>1. 1 \in 1..FrameLen /\ FrameLen \in 1..FrameLen
      OBVIOUS
    <3>2. line[k + 1].pos = 1 /\ line[k + FrameLen].pos = FrameLen
      BY <3>1 DEF Intact
    <3>3. k + 1 \in 1..got /\ k + FrameLen \in 1..got
      BY <2>1
    <3> QED
      BY <1>1, <3>2, <3>3 DEF IInv, StreamInv, Delimited, ByteAt
  <2>4. \/ k \in acc
        \/ \E j \in acc : j < k /\ k < j + FrameLen
    BY <1>1, <2>1, <2>2, <2>3 DEF IInv, HInv, Scanned
  <2>5. \A j \in acc : j < k /\ k < j + FrameLen => j \in Forgeries
    BY <2>1, WholeApart DEF Forgeries
  <2>6. /\ latest = -1 \/ latest \in acc
        /\ \A j \in acc : j <= latest
    BY <1>1 DEF IInv, HInv, Newest
  <2>7. latest \in acc /\ latest \in Nat
    <3>1. PICK j \in acc : TRUE
      BY <2>4
    <3>2. j \in Nat /\ j <= latest
      BY <2>1, <2>6, <3>1
    <3>3. latest # -1
      BY <3>2
    <3> QED
      BY <2>1, <2>6, <3>3
  <2>8. latest + FrameLen > k
    BY <2>1, <2>4, <2>6, <2>7
  <2>9. latest \notin Forgeries => latest >= k
    BY <2>1, <2>5, <2>7, <2>8
  <2> QED
    BY <2>4, <2>5, <2>8, <2>9
<1> QED
  BY <1>1, SpecIInv, PTL

\* On a lossless stream exactly the packets sent are taken, even when the
\* payload contains delimiters.
THEOREM LosslessDelivered == Spec => []LosslessDelivery
<1>1. ASSUME IInv PROVE LosslessDelivery
  <2> SUFFICES ASSUME LosslessBuffer
               PROVE  acc = {k \in 0..(rd - FrameLen) : Intact(k)}
    BY DEF LosslessDelivery
  <2>1. /\ rd \in Nat /\ pulled \in Nat /\ got \in Nat /\ pulled <= got
        /\ \A k \in acc : k \in Nat /\ k + FrameLen <= rd
    BY <1>1, ByteFields DEF IInv, HInv, HostTypeOK
  <2>3. \A k \in acc : k \in 0..(rd - FrameLen) /\ Intact(k)
    BY <1>1, <2>1, FrameAssumption DEF IInv, HInv, InStep
  <2>4. \A k \in 0..(rd - FrameLen) : Intact(k) => k \in acc
    BY <1>1, <2>1, FrameAssumption DEF IInv, HInv, InStep
  <2> QED
    BY <2>3, <2>4
<1> QED
  BY <1>1, SpecIInv, PTL

-----------------------------------------------------------------------------
(***************************************************************************)
(* The link implements the abstract channel.                               *)
(***************************************************************************)

\* Every packet with a byte on the stream was numbered by loop().
Numbered ==
  /\ sent \subseteq 0..MaxBase
  /\ \A n \in sent : n <= txBase
  /\ txPos < FrameLen => txBase \in sent
  /\ \A i \in 1..got : line[i].base \in sent

CInv == IInv /\ Numbered

LEMMA InitCInv == Init => CInv
<1>1. Init => IInv
  BY InitIInv
<1>2. Init => Numbered
  BY FrameAssumption DEF Init, StreamInit, Numbered
<1> QED
  BY <1>1, <1>2 DEF CInv

LEMMA NextCInv == CInv /\ [Next]_vars => CInv'
<1> SUFFICES ASSUME CInv, [Next]_vars PROVE CInv'
  OBVIOUS
<1> USE FrameAssumption, BoundAssumption
<1>1. IInv'
  BY NextIInv DEF CInv
<1>2. /\ txBase \in Int /\ txBase >= -FrameLen /\ txPos \in 0..FrameLen
      /\ got \in Nat
  BY DEF CInv, IInv, StreamInv, StreamTypeOK
<1>3. CASE SendReply
  <2>1. /\ BeginFrame /\ txBase' = txBase + FrameLen /\ txBase' \in 0..MaxBase
        /\ got' = got /\ line' = line /\ sent' = sent \cup {txBase'}
    BY <1>2, <1>3 DEF SendReply, BeginFrame
  <2>3. \A n \in sent : n \in 0..MaxBase /\ n <= txBase
    BY DEF CInv, Numbered
  <2>4. \A n \in sent' : n <= txBase'
    BY <1>2, <2>1, <2>3
  <2>5. Numbered'
    BY <2>1, <2>4 DEF CInv, Numbered
  <2> QED
    BY <1>1, <2>5 DEF CInv
<1>4. CASE Receive
  <2>1. ShiftOut /\ sent' = sent
    BY <1>4 DEF Receive
  <2>3. PICK b \in Bytes :
          /\ b.base = txBase /\ txPos' = txPos + 1 /\ txBase' = txBase
          /\ txPos + 1 \in 1..FrameLen /\ got' = got + 1
          /\ \A i \in 1..got : line'[i] = line[i]
          /\ line'[got + 1] = b
    BY <2>1, ShiftOutByte DEF CInv, IInv, StreamInv
  <2>4. txBase \in sent
    BY <2>1, <1>2 DEF ShiftOut, CInv, Numbered
  <2>5. \A i \in 1..got' : line'[i].base \in sent
    <3> SUFFICES ASSUME NEW i \in 1..(got + 1) PROVE line'[i].base \in sent
      BY <2>3
    <3>1. CASE i = got + 1
      BY <3>1, <2>3, <2>4
    <3>2. CASE i \in 1..got
      BY <3>2, <2>3 DEF CInv, Numbered
    <3> QED
      BY <3>1, <3>2, <1>2
  <2>6. Numbered'
    BY <2>1, <2>3, <2>4, <2>5 DEF CInv, Numbered
  <2> QED
    BY <1>1, <2>6 DEF CInv
<1>5. CASE FirmwareRestart \/ Lose \/ HostRead \/ UNCHANGED vars
  <2>1. /\ LoseByte \/ AbandonFrame \/ UNCHANGED streamVars
        /\ sent' = sent
    BY <1>5 DEF FirmwareRestart, Lose, HostRead, Poll, ScanAccept, ScanShift,
                Return, vars, streamVars
  <2>3. /\ txBase' = txBase /\ got' = got /\ line' = line
        /\ txPos' = txPos \/ txPos < FrameLen
    BY <2>1 DEF LoseByte, AbandonFrame, streamVars
  <2>4. Numbered'
    BY <2>1, <2>3 DEF CInv, Numbered
  <2> QED
    BY <1>1, <2>4 DEF CInv
<1>6. CASE Reconnect
  <2>1. /\ got' = pulled /\ \A i \in 1..pulled : line'[i] = line[i]
        /\ txBase' = txBase /\ txPos' = txPos /\ sent' = sent
    BY <1>6 DEF Reconnect
  <2>2. pulled \in Nat /\ pulled <= got
    BY DEF CInv, IInv, HInv, HostTypeOK
  <2>3. Numbered'
    BY <1>2, <2>1, <2>2 DEF CInv, Numbered
  <2> QED
    BY <1>1, <2>3 DEF CInv
<1> QED
  BY <1>3, <1>4, <1>5, <1>6 DEF Next

LEMMA SpecCInv == Spec => []CInv
  BY InitCInv, NextCInv, PTL DEF Spec

\* A window taken lies behind what was erased.
LEMMA TakenBehind ==
  ASSUME IInv, NEW k \in acc
  PROVE  /\ k \in Nat /\ k + FrameLen <= rd /\ k + FrameLen <= pulled
         /\ k + FrameLen <= got
<1>1. /\ k \in Nat /\ k + FrameLen <= rd /\ rd \in Nat /\ rd <= pulled
      /\ pulled \in Nat /\ pulled <= got /\ got \in Nat
  BY ByteFields DEF IInv, HInv, HostTypeOK
<1> QED
  BY <1>1, FrameAssumption

\* A step that takes nothing and keeps what was pulled delivers and forges
\* nothing, and what was pulled misses no more than before.
LEMMA SilentStep ==
  ASSUME IInv, acc' = acc, got' \in Nat, pulled' \in Nat,
         pulled <= got', pulled <= pulled',
         \A i \in 1..pulled : line'[i] = line[i]
  PROVE  /\ Delivered' = Delivered
         /\ Forged' <=> Forged
         /\ LosslessBuffer' => LosslessBuffer
         /\ pulled' = pulled => (LosslessBuffer' <=> LosslessBuffer)
<1>0. pulled \in Nat
  BY DEF IInv, HInv, HostTypeOK
<1>1. ASSUME NEW k \in acc
      PROVE  (Intact(k)' <=> Intact(k)) /\ line'[k + 1] = line[k + 1]
  <2>1. k \in Nat /\ k + FrameLen <= pulled /\ k + FrameLen <= got
    BY TakenBehind
  <2>2. 1 \in 1..FrameLen /\ \A i \in 1..FrameLen : k + i \in 1..pulled
    BY <1>0, <2>1, FrameAssumption
  <2>3. \A i \in 1..FrameLen : line'[k + i] = line[k + i]
    BY <2>2
  <2>4. line'[k + 1] = line[k + 1]
    BY <2>2, <2>3
  <2>5. k + FrameLen <= got'
    BY <1>0, <2>1, FrameAssumption
  <2> QED
    BY <2>1, <2>3, <2>4, <2>5 DEF Intact
<1>2. Delivered' = Delivered /\ (Forged' <=> Forged)
  BY <1>1 DEF Delivered, Forged, Forgeries
<1>3. LosslessBuffer' => LosslessBuffer
  BY <1>0 DEF LosslessBuffer
<1>4. pulled' = pulled => (LosslessBuffer' <=> LosslessBuffer)
  BY <1>0 DEF LosslessBuffer
<1> QED
  BY <1>2, <1>3, <1>4

\* Every step of the link is a step of the channel, or none.
LEMMA ChannelStep ==
  ASSUME CInv, [Next]_vars
  PROVE  [Channel!Next]_(Channel!vars)
<1> USE FrameAssumption, BoundAssumption
<1>1. IInv /\ pulled \in Nat /\ pulled <= got /\ got \in Nat
  BY ByteFields DEF CInv, IInv, HInv, HostTypeOK
<1>2. ASSUME BeginFrame \/ ShiftOut \/ LoseByte \/ AbandonFrame
               \/ UNCHANGED streamVars
      PROVE  /\ got' \in Nat /\ pulled <= got'
             /\ \A i \in 1..pulled : line'[i] = line[i]
  BY <1>1, <1>2, StreamGrows DEF IInv
<1>3. CASE SendReply
  <2>1. /\ BeginFrame /\ acc' = acc /\ pulled' = pulled
        /\ sent' = sent \cup {txBase'}
    BY <1>3 DEF SendReply, hostVars
  <2>2. /\ Delivered' = Delivered /\ (Forged' <=> Forged)
        /\ LosslessBuffer' <=> LosslessBuffer
    BY <1>1, <1>2, <2>1, SilentStep
  <2>3. txBase' \in 0..MaxBase /\ txBase < txBase'
        /\ txBase \in Int /\ txBase' \in Int
    BY <2>1 DEF BeginFrame, CInv, IInv, StreamInv, StreamTypeOK
  <2>4. \A m \in sent : m < txBase'
    <3> SUFFICES ASSUME NEW m \in sent PROVE m < txBase'
      OBVIOUS
    <3>1. m \in 0..MaxBase /\ m <= txBase
      BY DEF CInv, Numbered
    <3> QED
      BY <2>3, <3>1
  <2>5. Channel!Send(txBase')
    BY <2>1, <2>2, <2>4 DEF Channel!Send, LosslessBuffer, Forged
  <2> QED
    BY <2>3, <2>5 DEF Channel!Next
<1>4. CASE FirmwareRestart \/ Receive \/ Lose \/ Reconnect \/ ScanShift
             \/ Return \/ UNCHANGED vars
  <2>1. /\ got' \in Nat /\ pulled <= got'
        /\ \A i \in 1..pulled : line'[i] = line[i]
    <3>1. CASE Reconnect
      BY <1>1, <3>1 DEF Reconnect
    <3>2. CASE ~Reconnect
      <4>1. ShiftOut \/ LoseByte \/ AbandonFrame \/ UNCHANGED streamVars
        BY <1>4, <3>2 DEF FirmwareRestart, Receive, Lose, ScanShift, Return,
                          vars, streamVars
      <4> QED
        BY <1>2, <4>1
    <3> QED
      BY <3>1, <3>2
  <2>2. acc' = acc /\ sent' = sent /\ pulled' = pulled
    BY <1>4 DEF FirmwareRestart, Receive, Lose, Reconnect, ScanShift, Return,
                vars, hostVars
  <2>3. /\ Delivered' = Delivered /\ (Forged' <=> Forged)
        /\ LosslessBuffer' <=> LosslessBuffer
    BY <1>1, <2>1, <2>2, SilentStep
  <2> QED
    BY <2>2, <2>3 DEF Channel!vars, LosslessBuffer, Forged
<1>5. CASE Poll
  <2>1. /\ acc' = acc /\ sent' = sent /\ pulled' = got /\ got' = got
        /\ line' = line
    BY <1>5 DEF Poll, streamVars
  <2>2. /\ Delivered' = Delivered /\ (Forged' <=> Forged)
        /\ LosslessBuffer' => LosslessBuffer
    BY <1>1, <2>1, SilentStep
  <2>3. CASE LosslessBuffer' <=> LosslessBuffer
    BY <2>1, <2>2, <2>3 DEF Channel!vars, LosslessBuffer, Forged
  <2>4. CASE ~LosslessBuffer'
    <3>1. Channel!Spoil
      BY <2>1, <2>2, <2>4 DEF Channel!Spoil, LosslessBuffer, Forged
    <3> QED
      BY <3>1 DEF Channel!Next
  <2> QED
    BY <2>2, <2>3, <2>4
<1>6. CASE ScanAccept
  <2>1. /\ rd \in Nat /\ rd + FrameLen <= got /\ pulled' = pulled
        /\ acc' = acc \cup {rd} /\ line' = line /\ got' = got /\ sent' = sent
        /\ Buffered >= FrameLen
    BY <1>1, <1>6
       DEF ScanAccept, Buffered, streamVars, IInv, HInv, HostTypeOK
  <2>2. /\ LosslessBuffer' <=> LosslessBuffer
        /\ \A k : Intact(k)' <=> Intact(k)
    BY <2>1 DEF Intact, LosslessBuffer
  <2>3. CASE Intact(rd)
    <3> DEFINE n == line[rd + 1].base
    <3>1. 1 \in 1..FrameLen /\ rd + 1 \in 1..got
      BY <1>1, <2>1
    <3>2. line[rd + 1].pos = 1
      BY <2>3, <3>1 DEF Intact
    <3>3. n \in sent /\ n \in 0..MaxBase
      BY <3>1 DEF CInv, Numbered
    <3>4. Delivered' = Delivered \cup {n} /\ (Forged' <=> Forged)
      BY <2>1, <2>2, <2>3 DEF Delivered, Forged, Forgeries
    <3>5. \A m \in Delivered : m < n
      <4> SUFFICES ASSUME NEW k \in acc, Intact(k)
                   PROVE  line[k + 1].base < n
        BY DEF Delivered
      <4>1. k \in Nat /\ k + FrameLen <= rd
        BY <1>1, TakenBehind
      <4> QED
        BY <1>1, <2>1, <3>2, <4>1, LaterWindow DEF IInv
    <3>6. Channel!Deliver(n)
      BY <2>1, <2>2, <3>3, <3>4, <3>5
         DEF Channel!Deliver, LosslessBuffer, Forged
    <3> QED
      BY <3>3, <3>6 DEF Channel!Next
  <2>4. CASE ~Intact(rd)
    <3>1. ~LosslessBuffer
      BY <1>1, <2>1, <2>4, InStepWindow
    <3>2. Delivered' = Delivered /\ Forged'
      BY <2>1, <2>2, <2>4 DEF Delivered, Forged, Forgeries
    <3>3. Channel!Forge
      BY <2>1, <2>2, <3>1, <3>2 DEF Channel!Forge, LosslessBuffer, Forged
    <3> QED
      BY <3>3 DEF Channel!Next
  <2> QED
    BY <2>3, <2>4
<1> QED
  BY <1>3, <1>4, <1>5, <1>6 DEF Next, HostRead

\* For every payload, every loss, restart of the board and reconnection of the
\* host, however much it flushes: encoder readings arrive in the order they were
\* taken and none twice, and the host acts on something the board did not send
\* only after a byte was lost (serial_comm.hpp:150-199).
THEOREM FeedbackImplementsChannel == Spec => ImplementsChannel
<1>1. Init => Channel!Init
  BY DEF Init, Channel!Init, Delivered, Forged, Forgeries, LosslessBuffer
<1>2. CInv /\ [Next]_vars => [Channel!Next]_(Channel!vars)
  BY ChannelStep
<1> QED
  BY <1>1, <1>2, SpecCInv, PTL DEF Spec, ImplementsChannel, Channel!Spec
=============================================================================
