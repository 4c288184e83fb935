------------------------- MODULE FrameStreamProofs -------------------------
(***************************************************************************)
(* Facts about the byte stream that hold for every packet length, payload  *)
(* and pattern of loss, whoever reads it.                                  *)
(***************************************************************************)
EXTENDS FrameStream, TLAPS

StreamTypeOK ==
  /\ txBase \in Int /\ txBase >= -FrameLen
  /\ txPos \in 0..FrameLen
  /\ txBase < 0 => txPos = FrameLen /\ txBase = -FrameLen
  /\ got \in Nat
  /\ line \in [1..got -> Bytes]

\* Every byte has a value its place in the packet allows.
Delimited == \A i \in 1..got : line[i].val \in ByteAt(line[i].pos)

\* Every byte comes from an earlier packet or the part sent of this one.
SentBefore ==
  \A i \in 1..got :
    \/ line[i].base + FrameLen <= txBase
    \/ line[i].base = txBase /\ line[i].pos <= txPos

\* Bytes arrive in the order they were sent, none of them twice.
Ordered ==
  /\ \A i \in 1..got : i <= At(line[i])
  /\ \A i, j \in 1..got :
       i < j => At(line[i]) + (j - i) <= At(line[j])

\* The packets of two bytes are the same, or do not overlap.
Separate ==
  \A i, j \in 1..got :
    i < j => \/ line[i].base = line[j].base
             \/ line[i].base + FrameLen <= line[j].base

StreamInv == StreamTypeOK /\ Delimited /\ SentBefore /\ Ordered /\ Separate

-----------------------------------------------------------------------------
\* The fields of the bytes that arrived.
LEMMA ByteFields ==
  ASSUME StreamInv
  PROVE  /\ got \in Nat
         /\ \A i \in 1..got :
              line[i].base \in Nat /\ line[i].pos \in 1..FrameLen
<1>2. got \in Nat
  BY DEF StreamInv, StreamTypeOK
<1> SUFFICES ASSUME NEW i \in 1..got
             PROVE  line[i].base \in Nat /\ line[i].pos \in 1..FrameLen
  BY <1>2
<1>1. line[i] \in Bytes
  BY DEF StreamInv, StreamTypeOK
<1> QED
  BY <1>1 DEF Bytes

\* What a byte that arrives is, and that it comes after the others.
LEMMA ShiftOutByte ==
  ASSUME StreamTypeOK, ShiftOut
  PROVE  \E b \in Bytes :
           /\ b.base = txBase /\ b.pos = txPos + 1 /\ b.val \in ByteAt(b.pos)
           /\ txPos' = txPos + 1 /\ txBase' = txBase
           /\ txPos + 1 \in 1..FrameLen /\ txBase \in Nat
           /\ got' = got + 1 /\ line' \in [1..got' -> Bytes]
           /\ \A i \in 1..got : line'[i] = line[i]
           /\ line'[got + 1] = b
<1>1. PICK v \in ByteAt(txPos + 1) :
        line' = [i \in 1..(got + 1) |->
                  IF i <= got THEN line[i]
                  ELSE [base |-> txBase, pos |-> txPos + 1, val |-> v]]
  BY DEF ShiftOut
<1>2. /\ txPos' = txPos + 1 /\ txBase' = txBase /\ got' = got + 1
      /\ txPos + 1 \in 1..FrameLen /\ txBase \in Nat
  BY FrameAssumption DEF ShiftOut, StreamTypeOK
<1>3. v \in Payload \cup {START_BYTE, END_BYTE}
  BY DEF ByteAt
<1> DEFINE b == [base |-> txBase, pos |-> txPos + 1, val |-> v]
<1>4. b \in Bytes /\ b.base = txBase /\ b.pos = txPos + 1 /\ b.val = v
  BY <1>2, <1>3 DEF Bytes
<1> HIDE DEF b
<1>5. line' = [i \in 1..(got + 1) |-> IF i <= got THEN line[i] ELSE b]
  BY <1>1 DEF b
<1>6. /\ line' \in [1..got' -> Bytes]
      /\ \A i \in 1..got : line'[i] = line[i]
      /\ line'[got + 1] = b
  BY <1>2, <1>4, <1>5 DEF StreamTypeOK
<1> QED
  BY <1>2, <1>4, <1>6

\* Every action of the stream keeps the stream's invariant.
LEMMA StreamStep ==
  ASSUME StreamInv,
         BeginFrame \/ ShiftOut \/ LoseByte \/ AbandonFrame
           \/ UNCHANGED streamVars
  PROVE  StreamInv'
<1> USE FrameAssumption
<1>1. CASE UNCHANGED streamVars
  BY <1>1 DEF streamVars, StreamInv, StreamTypeOK, Delimited, SentBefore,
              Ordered, Separate
<1>2. CASE BeginFrame \/ LoseByte \/ AbandonFrame
  <2>1. /\ line' = line /\ got' = got /\ txBase' \in Int /\ txBase' >= txBase
        /\ txPos' \in 0..FrameLen
        /\ \/ txBase' = txBase /\ txPos' >= txPos
           \/ txBase' = txBase + FrameLen
        /\ txBase' < 0 => txPos' = FrameLen /\ txBase' = -FrameLen
    BY <1>2 DEF BeginFrame, LoseByte, AbandonFrame, StreamInv, StreamTypeOK
  <2>2. StreamTypeOK' /\ Delimited' /\ Ordered' /\ Separate'
    BY <2>1 DEF StreamInv, StreamTypeOK, Delimited, Ordered, Separate
  <2>3. SentBefore'
    <3> SUFFICES ASSUME NEW i \in 1..got
                 PROVE  \/ line[i].base + FrameLen <= txBase'
                        \/ line[i].base = txBase' /\ line[i].pos <= txPos'
      BY <2>1 DEF SentBefore
    <3>1. line[i] \in Bytes
      BY DEF StreamInv, StreamTypeOK
    <3>2. line[i].base \in Nat /\ line[i].pos \in 1..FrameLen
      BY <3>1 DEF Bytes
    <3> QED
      BY <2>1, <3>2 DEF StreamInv, SentBefore, StreamTypeOK
  <2> QED
    BY <2>2, <2>3 DEF StreamInv
<1>3. CASE ShiftOut
  <2>1. PICK b \in Bytes :
          /\ b.base = txBase /\ b.pos = txPos + 1 /\ b.val \in ByteAt(b.pos)
          /\ txPos' = txPos + 1 /\ txBase' = txBase
          /\ txPos + 1 \in 1..FrameLen /\ txBase \in Nat
          /\ got' = got + 1 /\ line' \in [1..got' -> Bytes]
          /\ \A i \in 1..got : line'[i] = line[i]
          /\ line'[got + 1] = b
    BY <1>3, ShiftOutByte DEF StreamInv
  <2>2. /\ got \in Nat /\ got' = got + 1
        /\ \A i \in 1..got : line'[i] = line[i]
        /\ line'[got + 1] = b
    BY <2>1 DEF StreamInv, StreamTypeOK
  <2>3. \A i \in 1..got : line[i].base \in Nat /\ line[i].pos \in 1..FrameLen
    BY ByteFields
  <2>4. \A i \in 1..got : At(line[i]) + (got + 1 - i) <= At(b)
    <3> SUFFICES ASSUME NEW i \in 1..got
                 PROVE  At(line[i]) + (got + 1 - i) <= At(b)
      OBVIOUS
    <3>1. /\ got \in 1..got /\ i \in Int /\ got \in Int
          /\ line[got].base \in Nat /\ line[got].pos \in 1..FrameLen
          /\ line[i].base \in Nat /\ line[i].pos \in 1..FrameLen
      BY <2>2, <2>3
    <3>2. line[got].base + line[got].pos <= txBase + txPos
      <4>1. \/ line[got].base + FrameLen <= txBase
            \/ line[got].base = txBase /\ line[got].pos <= txPos
        BY <3>1 DEF StreamInv, SentBefore
      <4>2. txPos \in 0..FrameLen /\ txBase \in Int
        BY DEF StreamInv, StreamTypeOK
      <4> QED
        BY <2>2, <3>1, <4>1, <4>2
    <3>3. At(line[i]) + (got - i) <= At(line[got])
      <4>1. CASE i = got
        BY <4>1, <3>1 DEF At
      <4>2. CASE i < got
        BY <4>2, <3>1 DEF StreamInv, Ordered
      <4> QED
        BY <4>1, <4>2, <3>1
    <3>4. At(b) = txBase + txPos + 1
      BY <2>1 DEF At, StreamInv, StreamTypeOK
    <3>5. At(line[got]) = line[got].base + line[got].pos
          /\ At(line[i]) = line[i].base + line[i].pos
      BY DEF At
    <3>6. /\ line[got].base + line[got].pos \in Int
          /\ line[i].base + line[i].pos \in Int
      BY <3>1
    <3>7. txBase + txPos \in Int /\ At(b) \in Int
      BY <2>1, <3>4 DEF StreamInv, StreamTypeOK
    <3> QED
      BY ONLY <3>1, <3>2, <3>3, <3>4, <3>5, <3>6, <3>7
  <2>5. StreamTypeOK'
    BY <2>1, <2>2 DEF StreamInv, StreamTypeOK
  <2>6. Delimited'
    BY <2>1, <2>2 DEF StreamInv, Delimited
  <2>7. SentBefore'
    BY <2>1, <2>2, <2>3 DEF StreamInv, StreamTypeOK, SentBefore
  <2>8. Ordered'
    <3>1. \A i \in 1..(got + 1) : i <= At(line'[i])
      <4>1. got + 1 <= At(b)
        <5>1. CASE got = 0
          BY <5>1, <2>1 DEF At, StreamInv, StreamTypeOK
        <5>2. CASE got # 0
          <6>1. got \in 1..got
            BY <5>2, <2>2
          <6>2. got <= At(line[got])
            BY <6>1 DEF StreamInv, Ordered
          <6>3. At(line[got]) + (got + 1 - got) <= At(b)
            BY <6>1, <2>4
          <6>4. At(line[got]) \in Int /\ At(b) \in Int
            BY <6>1, <2>1, <2>3 DEF At
          <6> QED
            BY <2>2, <6>2, <6>3, <6>4
        <5> QED
          BY <5>1, <5>2
      <4> QED
        BY <4>1, <2>2 DEF StreamInv, Ordered
    <3>2. \A i, j \in 1..(got + 1) :
            i < j => At(line'[i]) + (j - i) <= At(line'[j])
      <4> SUFFICES ASSUME NEW i \in 1..(got + 1), NEW j \in 1..(got + 1), i < j
                   PROVE  At(line'[i]) + (j - i) <= At(line'[j])
        OBVIOUS
      <4>1. i \in 1..got /\ line'[i] = line[i]
        BY <2>2
      <4>2. CASE j = got + 1
        BY <4>1, <4>2, <2>2, <2>4
      <4>3. CASE j \in 1..got
        BY <4>1, <4>3, <2>2 DEF StreamInv, Ordered
      <4> QED
        BY <4>2, <4>3, <2>2
    <3> QED
      BY <3>1, <3>2, <2>2 DEF Ordered
  <2>9. Separate'
    <3> SUFFICES ASSUME NEW i \in 1..(got + 1), NEW j \in 1..(got + 1), i < j
                 PROVE  \/ line'[i].base = line'[j].base
                        \/ line'[i].base + FrameLen <= line'[j].base
      BY <2>2 DEF Separate
    <3>1. i \in 1..got /\ line'[i] = line[i]
      BY <2>2
    <3>2. CASE j = got + 1
      BY <3>1, <3>2, <2>1, <2>2 DEF StreamInv, SentBefore
    <3>3. CASE j \in 1..got
      BY <3>1, <3>3, <2>2 DEF StreamInv, Separate
    <3> QED
      BY <3>2, <3>3, <2>2
  <2> QED
    BY <2>5, <2>6, <2>7, <2>8, <2>9 DEF StreamInv
<1> QED
  BY <1>1, <1>2, <1>3

\* The invariant holds before anything is sent.
LEMMA StreamStart == StreamInit => StreamInv
  BY FrameAssumption DEF StreamInit, StreamInv, StreamTypeOK, Delimited,
     SentBefore, Ordered, Separate, Bytes

\* What has arrived stays: the stream only grows at its end.
LEMMA StreamGrows ==
  ASSUME StreamInv,
         BeginFrame \/ ShiftOut \/ LoseByte \/ AbandonFrame
           \/ UNCHANGED streamVars
  PROVE  /\ got \in Nat /\ got' \in Nat /\ got <= got'
         /\ \A i \in 1..got : line'[i] = line[i]
<1>1. CASE ShiftOut
  BY <1>1, ShiftOutByte DEF StreamInv, StreamTypeOK
<1>2. CASE line' = line /\ got' = got
  BY <1>2 DEF StreamInv, StreamTypeOK
<1> QED
  BY <1>1, <1>2 DEF BeginFrame, LoseByte, AbandonFrame, streamVars

\* A byte with a delimiter's value is one, or payload that imitates it.
LEMMA DelimiterPlaces ==
  ASSUME StreamInv, NEW i \in 1..got
  PROVE  /\ line[i].val = START_BYTE => line[i].pos = 1 \/ Imitates(i)
         /\ line[i].val = END_BYTE => line[i].pos = FrameLen \/ Imitates(i)
<1>1. line[i].pos \in 1..FrameLen /\ line[i].val \in ByteAt(line[i].pos)
  BY ByteFields DEF StreamInv, Delimited
<1>2. \/ line[i].pos = 1 /\ line[i].val = START_BYTE
      \/ line[i].pos = FrameLen /\ line[i].val = END_BYTE
      \/ line[i].pos \in 2..(FrameLen - 1)
  BY <1>1, FrameAssumption DEF ByteAt
<1> QED
  BY <1>2, FrameAssumption DEF Imitates

\* A window that begins with a first byte and ends with a last byte is one
\* packet, or a packet's worth of bytes was lost inside it.
LEMMA WindowIntactOrGap ==
  ASSUME StreamInv, NEW k \in Nat, k + FrameLen <= got,
         line[k + 1].pos = 1, line[k + FrameLen].pos = FrameLen
  PROVE  Intact(k) \/ LostInside(k) >= FrameLen
<1> USE FrameAssumption
<1>0. got \in Nat
  BY ByteFields
<1> DEFINE a == line[k + 1]
           z == line[k + FrameLen]
<1>1. \A i \in 1..FrameLen :
        /\ k + i \in 1..got
        /\ line[k + i].base \in Nat /\ line[k + i].pos \in 1..FrameLen
  <2>1. \A i \in 1..FrameLen : k + i \in 1..got
    BY DEF StreamInv, StreamTypeOK
  <2> QED
    BY <2>1, ByteFields
<1>2. /\ k + 1 \in 1..got /\ k + FrameLen \in 1..got
      /\ k + 1 < k + FrameLen
      /\ a.base \in Nat /\ z.base \in Nat
  <2>1. 1 \in 1..FrameLen /\ FrameLen \in 1..FrameLen
    OBVIOUS
  <2> QED
    BY <1>1, <2>1
<1>3. At(a) = a.base + 1 /\ At(z) = z.base + FrameLen
  BY DEF At
<1>4. CASE a.base = z.base
  <2> SUFFICES ASSUME NEW i \in 1..FrameLen
               PROVE  line[k + i].pos = i /\ line[k + i].base = a.base
    BY DEF Intact
  <2> DEFINE m == line[k + i]
  <2>1. /\ k + i \in 1..got /\ m.base \in Nat /\ m.pos \in 1..FrameLen
        /\ At(m) = m.base + m.pos
    BY <1>1 DEF At
  <2>2. CASE i = 1
    BY <2>2
  <2>3. CASE i = FrameLen
    BY <2>3, <1>4
  <2>4. CASE 1 < i /\ i < FrameLen
    <3>1. k + 1 < k + i /\ k + i < k + FrameLen
      BY <2>4
    <3>2. At(a) + ((k + i) - (k + 1)) <= At(m)
      BY <1>2, <2>1, <3>1 DEF StreamInv, Ordered
    <3>3. At(m) + ((k + FrameLen) - (k + i)) <= At(z)
      BY <1>2, <2>1, <3>1 DEF StreamInv, Ordered
    <3>4. a.base = m.base \/ a.base + FrameLen <= m.base
      BY <1>2, <2>1, <3>1 DEF StreamInv, Separate
    <3> HIDE DEF a, m, z
    <3>5. m.base + m.pos = a.base + i
      BY <1>0, <1>2, <1>3, <1>4, <2>1, <3>2, <3>3
    <3> QED
      BY <1>0, <1>2, <2>1, <3>4, <3>5 DEF a, m
  <2> QED
    BY <2>2, <2>3, <2>4
<1>5. CASE a.base + FrameLen <= z.base
  <2>1. LostInside(k) = At(z) - At(a) - (FrameLen - 1)
    BY DEF LostInside
  <2> HIDE DEF a, z
  <2> QED
    BY <1>2, <1>3, <1>5, <2>1
<1>6. a.base = z.base \/ a.base + FrameLen <= z.base
  BY <1>2 DEF StreamInv, Separate
<1> QED
  BY <1>4, <1>5, <1>6

\* A window framed by the delimiters' values is a packet, or looks like one by
\* imitation or a long gap.
LEMMA FramedWindow ==
  ASSUME StreamInv, NEW k \in Nat, k + FrameLen <= got,
         line[k + 1].val = START_BYTE, line[k + FrameLen].val = END_BYTE
  PROVE  Intact(k) \/ Deceptive(k)
<1>1. k + 1 \in 1..got /\ k + FrameLen \in 1..got
  BY ByteFields, FrameAssumption
<1> QED
  BY <1>1, DelimiterPlaces, WindowIntactOrGap DEF Deceptive

\* Where nothing was lost, a window at a packet boundary is a packet.
LEMMA LosslessWindow ==
  ASSUME StreamInv, NEW k \in Nat, k + FrameLen <= got,
         \A i \in 1..(k + FrameLen) : At(line[i]) = i,
         k = 0 \/ (k > 0 /\ line[k].pos = FrameLen)
  PROVE  Intact(k)
<1> USE FrameAssumption
<1> DEFINE a == line[k + 1]
           z == line[k + FrameLen]
<1>1. /\ got \in Nat /\ k + 1 \in 1..got /\ k + FrameLen \in 1..got
      /\ k + 1 < k + FrameLen
  BY ByteFields
<1>2. /\ a.base \in Nat /\ a.pos \in 1..FrameLen
      /\ z.base \in Nat /\ z.pos \in 1..FrameLen
      /\ a.base + a.pos = k + 1 /\ z.base + z.pos = k + FrameLen
  BY <1>1, ByteFields DEF At
<1>3. a.base >= k
  <2>1. CASE k = 0
    BY <2>1, <1>2
  <2>2. CASE k > 0
    <3>1. k \in 1..got /\ k < k + 1
      BY <1>1, <2>2
    <3>2. line[k].base \in Nat /\ line[k].base + FrameLen = k
      BY <2>2, <3>1, <1>1, ByteFields DEF At
    <3>3. line[k].base = a.base \/ line[k].base + FrameLen <= a.base
      BY <1>1, <3>1 DEF StreamInv, Separate
    <3> HIDE DEF a
    <3> QED
      BY <1>2, <3>2, <3>3
  <2> QED
    BY <2>1, <2>2
<1>4. a.base = k /\ a.pos = 1
  BY <1>2, <1>3
<1>5. z.pos = FrameLen
  <2>1. a.base = z.base \/ a.base + FrameLen <= z.base
    BY <1>1 DEF StreamInv, Separate
  <2> HIDE DEF a, z
  <2> QED
    BY <1>2, <1>4, <2>1
<1>6. LostInside(k) = 0
  BY <1>1 DEF LostInside
<1> QED
  BY <1>4, <1>5, <1>6, WindowIntactOrGap

\* A window that was there before a step of the stream is as whole after it.
LEMMA IntactStable ==
  ASSUME StreamInv,
         BeginFrame \/ ShiftOut \/ LoseByte \/ AbandonFrame
           \/ UNCHANGED streamVars,
         NEW k \in Nat, k + FrameLen <= got
  PROVE  /\ Intact(k)' <=> Intact(k)
         /\ line'[k + 1] = line[k + 1]
         /\ line'[k + FrameLen] = line[k + FrameLen]
<1>1. /\ got \in Nat /\ got' \in Nat /\ got <= got'
      /\ \A i \in 1..got : line'[i] = line[i]
  BY StreamGrows
<1>2. \A i \in 1..FrameLen : k + i \in 1..got
  BY <1>1, FrameAssumption
<1>3. \A i \in 1..FrameLen : line'[k + i] = line[k + i]
  BY <1>1, <1>2
<1>4. 1 \in 1..FrameLen /\ FrameLen \in 1..FrameLen
  BY FrameAssumption
<1>5. k + FrameLen <= got /\ k + FrameLen <= got'
  BY <1>1, FrameAssumption
<1>6. line'[k + 1] = line[k + 1] /\ line'[k + FrameLen] = line[k + FrameLen]
  BY <1>3, <1>4
<1> QED
  BY <1>3, <1>5, <1>6 DEF Intact

\* So is the packet before it, and as clean.
LEMMA FollowsStable ==
  ASSUME StreamInv,
         BeginFrame \/ ShiftOut \/ LoseByte \/ AbandonFrame
           \/ UNCHANGED streamVars,
         NEW k \in Nat, k <= got
  PROVE  Follows(k)' <=> Follows(k)
<1>1. /\ got \in Nat
      /\ \A i \in 1..got : line'[i] = line[i]
  BY StreamGrows
<1>2. CASE k >= FrameLen
  <2> DEFINE j == k - FrameLen
  <2>1. j \in Nat /\ j + FrameLen <= got
    BY <1>1, <1>2, FrameAssumption
  <2>2. Intact(j)' <=> Intact(j)
    BY <2>1, IntactStable
  <2>3. \A i \in 2..FrameLen : j + i \in 1..got
    BY <1>1, <2>1, FrameAssumption
  <2>4. Clean(j)' <=> Clean(j)
    BY <1>1, <2>3 DEF Clean
  <2> QED
    BY <1>2, <2>2, <2>4 DEF Follows
<1>3. CASE ~(k >= FrameLen)
  BY <1>3 DEF Follows
<1> QED
  BY <1>2, <1>3

\* Nothing can be lost from a stream that is lossless later.
LEMMA LosslessBefore ==
  ASSUME StreamInv,
         BeginFrame \/ ShiftOut \/ LoseByte \/ AbandonFrame
           \/ UNCHANGED streamVars,
         Lossless'
  PROVE  Lossless
<1>1. /\ got \in Nat /\ got' \in Nat /\ got <= got'
      /\ \A i \in 1..got : line'[i] = line[i]
  BY StreamGrows
<1>2. \A i \in 1..got' : At(line'[i]) = i
  BY DEF Lossless
<1> QED
  BY <1>1, <1>2 DEF Lossless

\* Forgetting the last bytes received is a loss like any other.
LEMMA FlushStep ==
  ASSUME StreamInv, NEW n \in Nat, n <= got, got' = n,
         line' = [i \in 1..n |-> line[i]], txBase' = txBase, txPos' = txPos
  PROVE  /\ StreamInv'
         /\ \A i \in 1..n : line'[i] = line[i]
<1>1. got \in Nat /\ \A i \in 1..n : i \in 1..got /\ line'[i] = line[i]
  BY ByteFields
<1>2. StreamTypeOK' /\ Delimited' /\ SentBefore'
  BY <1>1 DEF StreamInv, StreamTypeOK, Delimited, SentBefore
<1>3. Ordered' /\ Separate'
  BY <1>1 DEF StreamInv, Ordered, Separate
<1> QED
  BY <1>1, <1>2, <1>3 DEF StreamInv

\* The packet at a later window was sent later.
LEMMA LaterWindow ==
  ASSUME StreamInv, NEW j \in Nat, NEW k \in Nat, j + FrameLen <= k,
         k + FrameLen <= got, Intact(j), line[k + 1].pos = 1
  PROVE  line[j + 1].base < line[k + 1].base
<1> USE FrameAssumption
<1>1. /\ got \in Nat /\ j + 1 \in 1..got /\ j + FrameLen \in 1..got
      /\ k + 1 \in 1..got /\ j + FrameLen < k + 1
  BY ByteFields
<1>2. FrameLen \in 1..FrameLen
  OBVIOUS
<1>3. /\ line[j + FrameLen].pos = FrameLen
      /\ line[j + FrameLen].base = line[j + 1].base
  BY <1>2 DEF Intact
<1>4. /\ line[j + FrameLen].base \in Nat /\ line[k + 1].base \in Nat
  BY <1>1, ByteFields
<1>5. At(line[j + FrameLen]) + ((k + 1) - (j + FrameLen)) <= At(line[k + 1])
  BY <1>1 DEF StreamInv, Ordered
<1>6. \/ line[j + FrameLen].base = line[k + 1].base
      \/ line[j + FrameLen].base + FrameLen <= line[k + 1].base
  BY <1>1 DEF StreamInv, Separate
<1> QED
  BY <1>1, <1>3, <1>4, <1>5, <1>6 DEF At
=============================================================================
