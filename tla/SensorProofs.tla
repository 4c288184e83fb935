---------------------------- MODULE SensorProofs ----------------------------
(***************************************************************************)
(* The safety properties of what carries sensor data: cartographer's       *)
(* queues, the lidar's driver and the filter node.                         *)
(*                                                                         *)
(* OrderedMultiQueue: no datum is lost, the CHECK fails for late queues    *)
(* only, and it waits for a blocker only.  The invariant says that what is *)
(* queued is the end of what was sent, and that nothing is dispatched past *)
(* a queue that may still get data.                                        *)
(*                                                                         *)
(* LidarDriver: reader thread and main thread never transfer data at the   *)
(* same time, and what is published is of this session, with no timeout in *)
(* it.  The invariant says how flag and thread agree, and when the buffer  *)
(* is fresh.                                                               *)
(*                                                                         *)
(* RosFilter: each measurement is fused once and in order.  The invariant  *)
(* says that the history is the end of the estimate, and that a state is   *)
(* saved, a beginning of it, at every step of time in the history: so      *)
(* going back finds the state before the late measurement, and the history *)
(* all that was fused since.                                               *)
(***************************************************************************)
EXTENDS OrderedMultiQueue, LidarDriver, RosFilter, WellFoundedInduction,
        FiniteSetTheorems, SequenceTheorems, TLAPS

-----------------------------------------------------------------------------
(* Numbers and sequences                                                   *)

LEMMA SmallestOf ==
  \A S \in SUBSET Nat : S # {} => \E m \in S : \A k \in S : m <= k
<1> DEFINE R == {ss \in Nat \X Nat : ss[1] < ss[2]}
<1>1. IsWellFoundedOn(R, Nat)
  BY NatLessThanWellFounded, Zenon DEF OpToRel
<1> HIDE DEF R
<1> SUFFICES ASSUME NEW S \in SUBSET Nat, S # {}
             PROVE  \E m \in S : \A k \in S : m <= k
  OBVIOUS
<1>2. PICK m \in S : \A k \in S : ~(<<k, m>> \in R)
  BY <1>1, WFMin
<1>3. ASSUME NEW k \in S PROVE m <= k
  <2>1. ~(k < m)
    BY <1>2 DEF R
  <2> QED
    BY <2>1
<1> QED
  BY <1>2, <1>3

LEMMA MinOf ==
  ASSUME NEW S \in SUBSET Nat, S # {}
  PROVE  Min(S) \in S /\ \A k \in S : Min(S) <= k
BY SmallestOf DEF Min

LEMMA Appended ==
  ASSUME NEW S, NEW s \in Seq(S), NEW e \in S
  PROVE  /\ Append(s, e) \in Seq(S)
         /\ Len(s) \in Nat
         /\ Len(Append(s, e)) = Len(s) + 1
         /\ \A i \in 1..Len(s) : Append(s, e)[i] = s[i]
         /\ Append(s, e)[Len(s) + 1] = e
         /\ Append(s, e) # <<>>
BY AppendProperties, LenProperties

\* The greatest of some numbers up to n.
LEMMA LargestUpTo ==
  ASSUME NEW n \in Nat, NEW S \in SUBSET (0..n), S # {}
  PROVE  Max(S) \in S /\ \A k \in S : Max(S) >= k
<1> DEFINE D == {n - x : x \in S}
<1>0. \A x \in S : x \in 0..n /\ n - x \in Nat
  OBVIOUS
<1>1. D \in SUBSET Nat /\ D # {}
  <2>1. D \subseteq Nat
    BY ONLY <1>0
  <2>2. D # {}
    OBVIOUS
  <2> QED
    BY <2>1, <2>2
<1>2. PICK d \in D : \A k \in D : d <= k
  BY <1>1, SmallestOf
<1>3. PICK m \in S : d = n - m
  BY <1>2
<1>4. ASSUME NEW k \in S PROVE m >= k
  <2>1. d <= n - k
    BY <1>2
  <2> QED
    BY <2>1, <1>3, <1>0
<1> QED
  BY <1>4 DEF Max

LEMMA Taken ==
  ASSUME NEW S, NEW s \in Seq(S), s # <<>>
  PROVE  /\ Tail(s) \in Seq(S) /\ Head(s) \in S /\ Head(s) = s[1]
         /\ Len(s) \in Nat /\ Len(s) >= 1
         /\ Len(Tail(s)) = Len(s) - 1
         /\ \A i \in 1..(Len(s) - 1) : Tail(s)[i] = s[i + 1]
BY HeadTailProperties, LenProperties, EmptySeq

\* The beginning and the end of a sequence.
LEMMA Beginning ==
  ASSUME NEW T, NEW s \in Seq(T), NEW k \in 0..Len(s)
  PROVE  /\ SubSeq(s, 1, k) \in Seq(T) /\ Len(SubSeq(s, 1, k)) = k
         /\ \A i \in 1..k : SubSeq(s, 1, k)[i] = s[i]
<1>1. Len(s) \in Nat /\ \A i \in 1..Len(s) : s[i] \in T
  BY LenProperties, ElementOfSeq
<1>2. k \in Int /\ \A i \in 1..k : s[i] \in T
  BY <1>1
<1>3. /\ SubSeq(s, 1, k) \in Seq(T)
      /\ Len(SubSeq(s, 1, k)) = IF 1 <= k THEN k - 1 + 1 ELSE 0
      /\ \A i \in 1..(k - 1 + 1) : SubSeq(s, 1, k)[i] = s[1 + i - 1]
  BY <1>2, SubSeqProperties
<1>4. k \in Nat
  BY <1>1
<1> QED
  BY <1>3, <1>4

LEMMA EndOf ==
  ASSUME NEW T, NEW s \in Seq(T), NEW c \in 0..Len(s)
  PROVE  LET u == SubSeq(s, c + 1, Len(s)) IN
         /\ u \in Seq(T) /\ Len(u) = Len(s) - c
         /\ \A i \in 1..(Len(s) - c) : u[i] = s[c + i]
<1> DEFINE n == Len(s)
<1>1. n \in Nat /\ \A i \in 1..n : s[i] \in T
  BY LenProperties, ElementOfSeq
<1> HIDE DEF n
<1>2. c + 1 \in Int /\ n \in Int /\ c \in 0..n
  BY <1>1 DEF n
<1>3. \A i \in (c + 1)..n : s[i] \in T
  BY <1>1, <1>2
<1>4. /\ SubSeq(s, c + 1, n) \in Seq(T)
      /\ Len(SubSeq(s, c + 1, n)) = IF c + 1 <= n THEN n - (c + 1) + 1 ELSE 0
      /\ \A i \in 1..(n - (c + 1) + 1) : SubSeq(s, c + 1, n)[i] = s[c + 1 + i - 1]
  BY <1>2, <1>3, SubSeqProperties
<1>5. Len(SubSeq(s, c + 1, n)) = n - c
  BY <1>2, <1>4
<1>6. ASSUME NEW i \in 1..(n - c) PROVE SubSeq(s, c + 1, n)[i] = s[c + i]
  <2>1. i \in 1..(n - (c + 1) + 1) /\ c + 1 + i - 1 = c + i
    BY <1>2
  <2> QED
    BY <2>1, <1>4
<1> QED
  BY <1>4, <1>5, <1>6 DEF n

\* A sequence is a beginning of it and the rest.
LEMMA Rejoined ==
  ASSUME NEW S, NEW s \in Seq(S), NEW r \in Seq(S), NEW g \in Nat,
         Len(s) = g + Len(r), \A i \in 1..Len(r) : r[i] = s[g + i]
  PROVE  s = SubSeq(s, 1, g) \o r
<1> DEFINE f == SubSeq(s, 1, g)
<1>1. Len(s) \in Nat /\ Len(r) \in Nat
  BY LenProperties
<1>2. \A i \in 1..g : s[i] \in S
  <2>1. \A i \in 1..Len(s) : s[i] \in S
    BY ElementOfSeq
  <2> QED
    BY <1>1, <2>1
<1>3. f \in Seq(S) /\ Len(f) = g /\ \A i \in 1..g : f[i] = s[i]
  <2>1. /\ SubSeq(s, 1, g) \in Seq(S)
        /\ Len(SubSeq(s, 1, g)) = IF 1 <= g THEN g - 1 + 1 ELSE 0
        /\ \A i \in 1..(g - 1 + 1) : SubSeq(s, 1, g)[i] = s[1 + i - 1]
    BY <1>2, SubSeqProperties
  <2>2. \A i \in 1..g : 1 + i - 1 = i
    OBVIOUS
  <2>3. g - 1 + 1 = g /\ (~(1 <= g) => g = 0)
    OBVIOUS
  <2> QED
    BY <2>1, <2>2, <2>3
<1> HIDE DEF f
<1>4. /\ f \o r \in Seq(S) /\ Len(f \o r) = g + Len(r)
      /\ \A i \in 1..(g + Len(r)) : (f \o r)[i] = IF i <= g THEN f[i] ELSE r[i - g]
  BY <1>3, ConcatProperties
<1>5. ASSUME NEW i \in 1..Len(s) PROVE s[i] = (f \o r)[i]
  <2>1. i \in 1..(g + Len(r))
    OBVIOUS
  <2>2. CASE i <= g
    <3>1. i \in 1..g
      BY <2>2
    <3> QED
      BY <3>1, <2>1, <2>2, <1>3, <1>4
  <2>3. CASE ~(i <= g)
    <3>1. i - g \in 1..Len(r) /\ g + (i - g) = i
      BY <2>1, <2>3, <1>1
    <3>2. r[i - g] = s[g + (i - g)]
      BY <3>1
    <3>3. (f \o r)[i] = r[i - g]
      BY <2>1, <2>3, <1>4
    <3> QED
      BY <3>1, <3>2, <3>3
  <2> QED
    BY <2>2, <2>3
<1>6. s = f \o r
  BY <1>4, <1>5, SeqEqual
<1> QED
  BY <1>6 DEF f

-----------------------------------------------------------------------------
(* The queues: the invariant                                               *)

Born == born \in [Key -> (-1..MaxTime) \cup {Null}]

\* A queue begins empty, and is finished only by the client.
Known ==
  /\ IsFiniteSet(queues)
  /\ \A q \in Key :
       born[q] = Null =>
         q \notin queues /\ sent[q] = <<>> /\ queue[q] = <<>> /\ gone[q] = <<>>
  /\ \A q \in Key : isFinished[q] => Of(q) \in done /\ born[q] # Null

\* What is queued is the end of what was sent, after what is gone.
History ==
  \A q \in Key :
    /\ Len(sent[q]) = Len(gone[q]) + Len(queue[q])
    /\ \A i \in 1..Len(queue[q]) : queue[q][i] = sent[q][Len(gone[q]) + i]

InOrder ==
  \A q \in Key : \A i, j \in 1..Len(sent[q]) : i <= j => sent[q][i] <= sent[q][j]

\* Nothing is dispatched past a queue that may still get data.
NotPassed ==
  \A q \in queues :
    Empty(q) /\ ~isFinished[q] =>
      \/ lastDispatched <= born[q]
      \/ sent[q] # <<>> /\ lastDispatched <= sent[q][Len(sent[q])]

Verdict ==
  \A q \in Key : \A i \in 1..Len(gone[q]) :
    /\ start[Of(q)] \in Time
    /\ gone[q][i] <=> ~(/\ i < Len(sent[q])
                        /\ sent[q][i] < start[Of(q)]
                        /\ sent[q][i + 1] <= start[Of(q)])
    /\ i = Len(sent[q]) => sent[q][i] >= start[Of(q)] \/ isFinished[q]

Removed == \A q \in Key : q \notin queues => queue[q] = <<>>

Blocked ==
  pc = "idle" /\ queues # {} /\ (\E q \in queues : sent[q] # <<>> \/ isFinished[q]) =>
    /\ blocker \in queues
    /\ ~isFinished[blocker]
    /\ Len(queue[blocker]) <= 1

\* The CHECKs of MarkQueueAsFinished.
Markable ==
  /\ \A i \in 1..Len(toFinish) :
       /\ toFinish[i] \in queues /\ ~isFinished[toFinish[i]]
       /\ Of(toFinish[i]) \in done
  /\ \A i, j \in 1..Len(toFinish) : i # j => toFinish[i] # toFinish[j]

QInv ==
  /\ TypeOK /\ Born /\ Known /\ History /\ InOrder /\ NotPassed /\ UnsortedOnlyIfLate
  /\ Verdict /\ Removed /\ Blocked /\ Markable

-----------------------------------------------------------------------------
(* Keys, numbers and sequences                                             *)

\* A key belongs to one trajectory.
LEMMA KeyOf ==
  /\ Key \subseteq Nat
  /\ \A q \in Key : Of(q) \in Trajectory /\ q \in Sensors[Of(q)]
  /\ \A t \in Trajectory : \A q \in Sensors[t] : q \in Key /\ Of(q) = t
<1>1. Key \subseteq Nat
  BY QueueAssumption DEF Key, Trajectory
<1>2. \A q \in Key : Of(q) \in Trajectory /\ q \in Sensors[Of(q)]
  BY DEF Key, Of
<1>3. \A t \in Trajectory : \A q \in Sensors[t] : q \in Key /\ Of(q) = t
  <2> SUFFICES ASSUME NEW t \in Trajectory, NEW q \in Sensors[t]
               PROVE  q \in Key /\ Of(q) = t
    OBVIOUS
  <2>1. q \in Key
    BY DEF Key
  <2> QED
    BY <1>2, <2>1, QueueAssumption DEF Trajectory
<1> QED
  BY <1>1, <1>2, <1>3

LEMMA LatestOf ==
  ASSUME NEW S \in SUBSET Time, S # {}
  PROVE  Max(S) \in S /\ \A k \in S : Max(S) >= k
BY LargestUpTo, QueueAssumption DEF Time

\* The order in which queues are finished names each of them once.
LEMMA Ordered ==
  ASSUME NEW S \in SUBSET Key, IsFiniteSet(S), NEW s \in SetToSeqs(S)
  PROVE  /\ s \in Seq(Key)
         /\ \A i \in 1..Len(s) : s[i] \in S
         /\ \A i, j \in 1..Len(s) : i # j => s[i] # s[j]
<1> DEFINE n == Cardinality(S)
<1>1. n \in Nat
  BY FS_CardinalityType
<1>2. s \in [1..n -> S] /\ \A i, j \in 1..n : i # j => s[i] # s[j]
  BY DEF SetToSeqs
<1> HIDE DEF n
<1>3. s \in Seq(S)
  BY <1>1, <1>2, IsASeq
<1>4. Len(s) = n
  BY <1>1, <1>2, <1>3, LenProperties
<1>5. s \in Seq(Key)
  BY <1>1, <1>2, IsASeq
<1> QED
  BY <1>2, <1>4, <1>5

LEMMA Shape ==
  ASSUME TypeOK, NEW q \in Key
  PROVE  /\ queue[q] \in Seq(Time) /\ Len(queue[q]) \in Nat
         /\ sent[q] \in Seq(Time) /\ Len(sent[q]) \in Nat
         /\ gone[q] \in Seq(BOOLEAN) /\ Len(gone[q]) \in Nat
         /\ queue[q] = <<>> <=> Len(queue[q]) = 0
         /\ sent[q] = <<>> <=> Len(sent[q]) = 0
         /\ \A i \in 1..Len(queue[q]) : queue[q][i] \in Time
         /\ \A i \in 1..Len(sent[q]) : sent[q][i] \in Time
         /\ queue[q] # <<>> => Head(queue[q]) = queue[q][1]
<1>1. queue[q] \in Seq(Time) /\ sent[q] \in Seq(Time) /\ gone[q] \in Seq(BOOLEAN)
  BY DEF TypeOK
<1>2. /\ Len(queue[q]) \in Nat /\ Len(sent[q]) \in Nat /\ Len(gone[q]) \in Nat
      /\ \A i \in 1..Len(queue[q]) : queue[q][i] \in Time
      /\ \A i \in 1..Len(sent[q]) : sent[q][i] \in Time
  BY <1>1, LenProperties, ElementOfSeq
<1>3. queue[q] = <<>> <=> Len(queue[q]) = 0
  BY <1>1, EmptySeq
<1>4. sent[q] = <<>> <=> Len(sent[q]) = 0
  BY <1>1, EmptySeq
<1>5. queue[q] # <<>> => Head(queue[q]) = queue[q][1]
  BY <1>1, HeadTailProperties
<1> QED
  BY <1>1, <1>2, <1>3, <1>4, <1>5

LEMMA TimeNumbers ==
  Time \subseteq Nat /\ MaxTime \in Nat /\ Null \notin Int /\ Time = 0..MaxTime
BY QueueAssumption DEF Time

\* The queues of a new trajectory begin empty, and unsorted data in them would be
\* late.
LEMMA AddTrajectoryStep ==
  ASSUME QInv, NEW t \in Trajectory, AddTrajectory(t)
  PROVE  QInv'
<1> USE DEF QInv
<1>u. UNCHANGED <<queue, isFinished, start, lastDispatched, blocker, pc, toFinish,
                  done, sent, gone>>
  BY DEF AddTrajectory
<1>1. /\ queues \subseteq Key /\ queues' = queues \cup Sensors[t]
      /\ \A q \in Sensors[t] : q \in Key /\ born[q] = Null /\ born'[q] = lastDispatched
      /\ \A q \in Key : q \notin Sensors[t] => born'[q] = born[q]
      /\ lastDispatched \in Int /\ lastDispatched # Null
  BY KeyOf, TimeNumbers DEF AddTrajectory, TypeOK
<1>2. \A q \in Sensors[t] : /\ sent[q] = <<>> /\ queue[q] = <<>> /\ gone[q] = <<>>
                            /\ ~isFinished[q]
  BY <1>1 DEF Known
<1>3. IsFiniteSet(queues')
  BY <1>1, QueueAssumption, FS_Union DEF Known, Trajectory
<1> HIDE DEF QInv
<1>ty. TypeOK'
  BY <1>u, <1>1 DEF QInv, TypeOK
<1>bo. Born'
  BY <1>u, KeyOf DEF QInv, AddTrajectory, Born, TypeOK
<1>kn. Known'
  BY <1>u, <1>1, <1>2, <1>3 DEF QInv, Known
<1>hi. History'
  BY <1>u, <1>1 DEF QInv, History
<1>in. InOrder'
  BY <1>u, <1>1 DEF QInv, InOrder
<1>no. NotPassed'
  BY <1>u, <1>1, <1>2 DEF QInv, NotPassed, Empty
<1>late. UnsortedOnlyIfLate'
  BY <1>u, <1>1, <1>2 DEF QInv, UnsortedOnlyIfLate, Empty
<1>ve. Verdict'
  BY <1>u, <1>1 DEF QInv, Verdict
<1>re. Removed'
  BY <1>u, <1>1 DEF QInv, Removed
<1>bl. Blocked'
  BY <1>u, <1>1, <1>2 DEF QInv, Blocked
<1>ma. Markable'
  BY <1>u, <1>1 DEF QInv, Markable
<1> QED
  BY <1>ty, <1>bo, <1>kn, <1>hi, <1>in, <1>no, <1>late, <1>ve, <1>re, <1>bl, <1>ma DEF QInv

\* A datum comes behind those of its queue; if it is too old for what was
\* dispatched, its queue was empty and is not passed, or was added too late.
LEMMA AddStep ==
  ASSUME QInv, NEW q \in Key, NEW time \in Time, Add(q, time)
  PROVE  QInv'
<1> USE DEF QInv
<1>u. UNCHANGED <<queues, isFinished, start, lastDispatched, blocker, toFinish,
                  done, gone, born>>
  BY DEF Add
<1>1. /\ q \in queues /\ queues \subseteq Key /\ Of(q) \notin done /\ Idle
      /\ pc' = "dispatch"
      /\ queue' = [queue EXCEPT ![q] = Append(@, time)]
      /\ sent' = [sent EXCEPT ![q] = Append(@, time)]
      /\ sent[q] # <<>> => sent[q][Len(sent[q])] <= time
  BY DEF Add, TypeOK, Last
<1>2. /\ queue'[q] = Append(queue[q], time) /\ sent'[q] = Append(sent[q], time)
      /\ \A r \in Key : r # q => queue'[r] = queue[r] /\ sent'[r] = sent[r]
      /\ queue' \in [Key -> Seq(Time)] /\ sent' \in [Key -> Seq(Time)]
  BY <1>1, Appended DEF TypeOK
<1> DEFINE n == Len(queue[q])
           m == Len(sent[q])
           g == Len(gone[q])
<1>a. /\ Len(queue'[q]) = n + 1 /\ queue'[q] # <<>> /\ queue'[q][n + 1] = time
      /\ \A i \in 1..n : queue'[q][i] = queue[q][i]
  <2>1. queue[q] \in Seq(Time)
    BY Shape
  <2>2. /\ Len(Append(queue[q], time)) = Len(queue[q]) + 1 /\ Append(queue[q], time) # <<>>
        /\ Append(queue[q], time)[Len(queue[q]) + 1] = time
        /\ \A i \in 1..Len(queue[q]) : Append(queue[q], time)[i] = queue[q][i]
    BY <2>1, Appended
  <2> QED
    BY <1>2, <2>2
<1>b. /\ Len(sent'[q]) = m + 1 /\ sent'[q] # <<>> /\ sent'[q][m + 1] = time
      /\ \A i \in 1..m : sent'[q][i] = sent[q][i]
  <2>1. sent[q] \in Seq(Time)
    BY Shape
  <2>2. /\ Len(Append(sent[q], time)) = Len(sent[q]) + 1 /\ Append(sent[q], time) # <<>>
        /\ Append(sent[q], time)[Len(sent[q]) + 1] = time
        /\ \A i \in 1..Len(sent[q]) : Append(sent[q], time)[i] = sent[q][i]
    BY <2>1, Appended
  <2> QED
    BY <1>2, <2>2
<1>4. ~isFinished[q] /\ born[q] # Null
  BY <1>1 DEF Known
<1>5. /\ n \in Nat /\ m \in Nat /\ g \in Nat
      /\ \A i \in 1..m : sent[q][i] \in Nat
      /\ time \in Nat /\ lastDispatched \in Int /\ born[q] \in Int
      /\ m = g + n
      /\ sent[q] # <<>> => m > 0
      /\ queue[q] = <<>> <=> n = 0
      /\ sent[q] # <<>> => sent[q][m] <= time
  <2>1. n \in Nat /\ m \in Nat /\ g \in Nat
    BY Shape
  <2>2. \A i \in 1..m : sent[q][i] \in Nat
    BY Shape, TimeNumbers
  <2>3. time \in Nat /\ lastDispatched \in Int /\ born[q] \in Int
    BY <1>4, TimeNumbers DEF TypeOK, Born
  <2>4. m = g + n
    BY DEF History
  <2>5. sent[q] # <<>> => m > 0
    BY <2>1, Shape
  <2>6. queue[q] = <<>> <=> n = 0
    BY Shape
  <2> QED
    BY <1>1, <2>1, <2>2, <2>3, <2>4, <2>5, <2>6
<1>6. /\ \A i \in 1..n : queue[q][i] = sent[q][g + i]
      /\ \A k, l \in 1..m : k <= l => sent[q][k] <= sent[q][l]
  BY DEF History, InOrder
<1> HIDE DEF QInv, n, m, g
<1>ty. TypeOK'
  BY <1>u, <1>1, <1>2 DEF QInv, TypeOK
<1>bo. Born'
  BY <1>u DEF QInv, Born
<1>kn. Known'
  BY <1>u, <1>2, <1>4 DEF QInv, Known
<1>hi. History'
  <2> SUFFICES ASSUME NEW r \in Key
               PROVE  /\ Len(sent'[r]) = Len(gone[r]) + Len(queue'[r])
                      /\ \A i \in 1..Len(queue'[r]) : queue'[r][i] = sent'[r][Len(gone[r]) + i]
    BY <1>u DEF History
  <2>1. CASE r # q
    <3>1. /\ Len(sent[r]) = Len(gone[r]) + Len(queue[r])
          /\ \A i \in 1..Len(queue[r]) : queue[r][i] = sent[r][Len(gone[r]) + i]
      BY DEF QInv, History
    <3>2. queue'[r] = queue[r] /\ sent'[r] = sent[r]
      BY <1>2, <2>1
    <3> QED
      BY ONLY <3>1, <3>2
  <2>2. CASE r = q
    <3>1. m + 1 = g + (n + 1)
      BY <1>5
    <3>2. ASSUME NEW i \in 1..(n + 1)
          PROVE  queue'[q][i] = sent'[q][g + i]
      <4>1. CASE i = n + 1
        <5>1. g + i = m + 1
          BY <4>1, <1>5
        <5> QED
          BY <4>1, <5>1, <1>a, <1>b
      <4>2. CASE i \in 1..n
        <5>1. g + i \in 1..m
          BY <4>2, <1>5
        <5> QED
          BY <5>1, <4>2, <1>6, <1>a, <1>b
      <4> QED
        BY <4>1, <4>2, <1>5
    <3>3. Len(gone[r]) = g
      BY <2>2 DEF g
    <3> QED
      BY <2>2, <3>1, <3>2, <3>3, <1>a, <1>b
  <2> QED
    BY <2>1, <2>2
<1>in. InOrder'
  <2> SUFFICES ASSUME NEW r \in Key
               PROVE  \A i, j \in 1..Len(sent'[r]) : i <= j => sent'[r][i] <= sent'[r][j]
    BY DEF InOrder
  <2>1. CASE r # q
    BY <1>2, <2>1 DEF QInv, InOrder
  <2>2. CASE r = q
    <3>1. ASSUME NEW i \in 1..(m + 1), NEW j \in 1..(m + 1), i <= j
          PROVE  sent'[q][i] <= sent'[q][j]
      <4>1. CASE j \in 1..m
        <5>1. i \in 1..m
          BY <3>1, <4>1, <1>5
        <5> QED
          BY <3>1, <4>1, <5>1, <1>6, <1>b
      <4>2. CASE j = m + 1 /\ i # j
        <5>1. i \in 1..m /\ m \in 1..m /\ m # 0 /\ i <= m
          BY <3>1, <4>2, <1>5
        <5>2. sent[q] # <<>>
          BY <5>1, Shape DEF QInv, m
        <5>3. sent[q][i] <= sent[q][m] /\ sent[q][m] <= time
          BY <5>1, <5>2, <1>5, <1>6
        <5>4. sent'[q][i] = sent[q][i] /\ sent'[q][j] = time
          BY <4>2, <5>1, <1>b
        <5>5. sent[q][i] \in Nat /\ sent[q][m] \in Nat /\ time \in Nat
          BY <5>1, <1>5
        <5> QED
          BY ONLY <5>3, <5>4, <5>5
      <4>3. CASE i = j /\ j = m + 1
        BY <4>3, <1>b, <1>5
      <4> QED
        BY <4>1, <4>2, <4>3, <1>5
    <3> QED
      BY <2>2, <3>1, <1>b
  <2> QED
    BY <2>1, <2>2
<1>no. NotPassed'
  BY <1>u, <1>2, <1>a, <1>b DEF QInv, NotPassed, Empty, TypeOK
<1>late. UnsortedOnlyIfLate'
  <2> SUFFICES ASSUME NEW r \in queues, queue'[r] # <<>>, Head(queue'[r]) < lastDispatched
               PROVE  Head(queue'[r]) < born[r]
    BY <1>u DEF UnsortedOnlyIfLate, Empty
  <2>1. CASE r # q
    BY <1>1, <1>2, <2>1 DEF QInv, UnsortedOnlyIfLate, Empty
  <2>2. CASE r = q /\ queue[q] # <<>>
    <3>1. Head(queue'[q]) = Head(queue[q])
      <4>1. 1 \in 1..n
        BY <2>2, <1>5
      <4> QED
        BY <4>1, <2>2, <1>2, <1>a, Shape, HeadTailProperties DEF QInv
    <3> QED
      BY <2>2, <3>1, <1>1 DEF QInv, UnsortedOnlyIfLate, Empty
  <2>3. CASE r = q /\ queue[q] = <<>>
    <3>1. Head(queue'[q]) = time
      <4>1. n = 0
        BY <2>3, <1>5
      <4>2. Head(queue'[q]) = queue'[q][1]
        BY <1>2, <1>a, HeadTailProperties
      <4> QED
        BY <4>1, <4>2, <1>a
    <3>2. CASE lastDispatched <= born[q]
      BY <2>3, <3>1, <3>2, <1>5
    <3>3. CASE sent[q] # <<>> /\ lastDispatched <= sent[q][m]
      <4>1. m \in 1..m
        BY <3>3, <1>5
      <4>2. sent[q][m] \in Nat
        BY <4>1, <1>5
      <4> QED
        BY <2>3, <3>1, <3>3, <4>2, <1>1, <1>5
    <3> QED
      BY <2>3, <3>2, <3>3, <1>1, <1>4 DEF QInv, NotPassed, Empty, m
  <2> QED
    BY <2>1, <2>2, <2>3
<1>ve. Verdict'
  <2> SUFFICES ASSUME NEW r \in Key, NEW i \in 1..Len(gone[r])
               PROVE  /\ start[Of(r)] \in Time
                      /\ gone[r][i] <=> ~(/\ i < Len(sent'[r])
                                          /\ sent'[r][i] < start[Of(r)]
                                          /\ sent'[r][i + 1] <= start[Of(r)])
                      /\ i = Len(sent'[r]) => sent'[r][i] >= start[Of(r)] \/ isFinished[r]
    BY <1>u DEF Verdict
  <2>1. /\ start[Of(r)] \in Time
        /\ gone[r][i] <=> ~(/\ i < Len(sent[r])
                            /\ sent[r][i] < start[Of(r)]
                            /\ sent[r][i + 1] <= start[Of(r)])
        /\ i = Len(sent[r]) => sent[r][i] >= start[Of(r)] \/ isFinished[r]
    BY DEF QInv, Verdict
  <2>2. CASE r # q
    BY <1>2, <2>1, <2>2
  <2>3. CASE r = q
    <3>0. i \in 1..g
      BY <2>3 DEF g
    <3>1. i \in 1..m /\ i < m + 1 /\ i # m + 1 /\ sent'[q][i] = sent[q][i]
      <4>1. m = g + n /\ g \in Nat /\ n \in Nat
        BY <1>5
      <4>2. i \in 1..m /\ i < m + 1 /\ i # m + 1
        BY ONLY <3>0, <4>1
      <4> QED
        BY <4>2, <1>b
    <3>2. CASE i < m
      <4>1. i + 1 \in 1..m
        BY <3>1, <3>2, <1>5
      <4>2. sent'[q][i + 1] = sent[q][i + 1]
        BY <4>1, <1>b
      <4> QED
        BY <2>1, <2>3, <3>1, <3>2, <4>2, <1>b DEF m
    <3>3. CASE i = m
      <4>1. ~(sent[q][i] < start[Of(q)])
        <5>1. sent[q][i] >= start[Of(q)]
          BY <2>1, <2>3, <3>3, <1>4 DEF m
        <5>2. start[Of(q)] \in Nat /\ sent[q][i] \in Nat
          BY <2>1, <2>3, <3>1, <1>5, TimeNumbers
        <5> QED
          BY <5>1, <5>2
      <4>2. gone[q][i]
        BY <2>1, <2>3, <4>1
      <4> QED
        BY <2>1, <2>3, <3>1, <4>1, <4>2, <1>b
    <3> QED
      BY <3>1, <3>2, <3>3, <1>5
  <2> QED
    BY <2>2, <2>3
<1>re. Removed'
  BY <1>u, <1>1, <1>2 DEF QInv, Removed
<1>bl. Blocked'
  BY <1>1 DEF Blocked
<1>ma. Markable'
  BY <1>u DEF QInv, Markable
<1> QED
  BY <1>ty, <1>bo, <1>kn, <1>hi, <1>in, <1>no, <1>late, <1>ve, <1>re, <1>bl, <1>ma DEF QInv

\* Queues to be finished are there and not finished yet.
LEMMA FinishTrajectoryStep ==
  ASSUME QInv, NEW t \in Trajectory, FinishTrajectory(t)
  PROVE  QInv'
<1> USE DEF QInv
<1>u. UNCHANGED <<queues, queue, isFinished, start, lastDispatched, blocker, pc,
                  sent, gone, born>>
  BY DEF FinishTrajectory
<1>1. /\ Sensors[t] \in SUBSET Key /\ IsFiniteSet(Sensors[t])
      /\ Sensors[t] \subseteq queues /\ t \notin done
      /\ \A q \in Sensors[t] : Of(q) = t
      /\ done' = done \cup {t} /\ toFinish' \in SetToSeqs(Sensors[t])
  BY KeyOf, QueueAssumption DEF FinishTrajectory, Trajectory
<1>2. /\ toFinish' \in Seq(Key)
      /\ \A i \in 1..Len(toFinish') : toFinish'[i] \in Sensors[t]
      /\ \A i, j \in 1..Len(toFinish') : i # j => toFinish'[i] # toFinish'[j]
  BY <1>1, Ordered
<1>3. \A q \in Sensors[t] : q \in queues /\ ~isFinished[q] /\ Of(q) \in done'
  BY <1>1 DEF Known
<1> HIDE DEF QInv
<1>ty. TypeOK'
  BY <1>u, <1>1, <1>2 DEF QInv, TypeOK
<1>bo. Born'
  BY <1>u DEF QInv, Born
<1>kn. Known'
  BY <1>u, <1>1 DEF QInv, Known
<1>hi. History'
  BY <1>u DEF QInv, History
<1>in. InOrder'
  BY <1>u DEF QInv, InOrder
<1>no. NotPassed'
  BY <1>u DEF QInv, NotPassed, Empty
<1>late. UnsortedOnlyIfLate'
  BY <1>u DEF QInv, UnsortedOnlyIfLate, Empty
<1>ve. Verdict'
  BY <1>u DEF QInv, Verdict
<1>re. Removed'
  BY <1>u DEF QInv, Removed
<1>bl. Blocked'
  BY <1>u DEF QInv, Blocked
<1>ma. Markable'
  BY <1>u, <1>2, <1>3 DEF Markable
<1> QED
  BY <1>ty, <1>bo, <1>kn, <1>hi, <1>in, <1>no, <1>late, <1>ve, <1>re, <1>bl, <1>ma DEF QInv

LEMMA FlushStep ==
  ASSUME QInv, Flush
  PROVE  QInv'
<1> USE DEF QInv
<1>u. UNCHANGED <<queues, queue, isFinished, start, lastDispatched, blocker, pc,
                  sent, gone, born>>
  BY DEF Flush
<1> DEFINE U == {q \in queues : ~isFinished[q]}
<1>1. /\ U \in SUBSET Key /\ \A q \in U : q \in queues /\ ~isFinished[q]
      /\ done' = done \cup {Of(q) : q \in queues} /\ toFinish' \in SetToSeqs(U)
  BY DEF Flush, TypeOK
<1>2. IsFiniteSet(U)
  BY FS_Subset DEF Known
<1>3. /\ \A q \in U : Of(q) \in done'
      /\ done' \subseteq Trajectory
  BY <1>1, KeyOf DEF TypeOK
<1> HIDE DEF U
<1>4. /\ toFinish' \in Seq(Key)
      /\ \A i \in 1..Len(toFinish') : toFinish'[i] \in U
      /\ \A i, j \in 1..Len(toFinish') : i # j => toFinish'[i] # toFinish'[j]
  BY <1>1, <1>2, Ordered
<1> HIDE DEF QInv
<1>ty. TypeOK'
  BY <1>u, <1>3, <1>4 DEF QInv, TypeOK
<1>bo. Born'
  BY <1>u DEF QInv, Born
<1>kn. Known'
  BY <1>u, <1>1 DEF QInv, Known
<1>hi. History'
  BY <1>u DEF QInv, History
<1>in. InOrder'
  BY <1>u DEF QInv, InOrder
<1>no. NotPassed'
  BY <1>u DEF QInv, NotPassed, Empty
<1>late. UnsortedOnlyIfLate'
  BY <1>u DEF QInv, UnsortedOnlyIfLate, Empty
<1>ve. Verdict'
  BY <1>u DEF QInv, Verdict
<1>re. Removed'
  BY <1>u DEF QInv, Removed
<1>bl. Blocked'
  BY <1>u DEF QInv, Blocked
<1>ma. Markable'
  BY <1>u, <1>1, <1>3, <1>4 DEF Markable
<1> QED
  BY <1>ty, <1>bo, <1>kn, <1>hi, <1>in, <1>no, <1>late, <1>ve, <1>re, <1>bl, <1>ma DEF QInv

\* A finished queue has nothing to wait for: what it left undecided is decided.
LEMMA MarkQueueAsFinishedStep ==
  ASSUME QInv, MarkQueueAsFinished
  PROVE  QInv'
<1> USE DEF QInv
<1>u. UNCHANGED <<queues, queue, start, lastDispatched, blocker, done, sent, gone, born>>
  BY DEF MarkQueueAsFinished
<1> DEFINE h == Head(toFinish)
<1>1. /\ toFinish \in Seq(Key) /\ toFinish # <<>>
      /\ isFinished' = [isFinished EXCEPT ![h] = TRUE]
      /\ toFinish' = Tail(toFinish) /\ pc' = "dispatch"
  BY DEF MarkQueueAsFinished, TypeOK
<1> DEFINE k == Len(toFinish)
<1>2. /\ toFinish' \in Seq(Key) /\ h \in Key /\ h = toFinish[1] /\ k \in Nat /\ k >= 1
      /\ Len(toFinish') = k - 1 /\ \A i \in 1..(k - 1) : toFinish'[i] = toFinish[i + 1]
  BY <1>1, Taken
<1>3. /\ \A i \in 1..k : /\ toFinish[i] \in queues /\ ~isFinished[toFinish[i]]
                         /\ Of(toFinish[i]) \in done
      /\ \A i, j \in 1..k : i # j => toFinish[i] # toFinish[j]
  BY DEF Markable
<1> HIDE DEF h, k
<1>4. h \in queues /\ Of(h) \in done
  BY <1>2, <1>3
<1>5. /\ isFinished'[h]
      /\ \A q \in Key : q # h => isFinished'[q] = isFinished[q]
      /\ isFinished' \in [Key -> BOOLEAN]
  BY <1>1, <1>2 DEF TypeOK
<1> HIDE DEF QInv
<1>ty. TypeOK'
  BY <1>u, <1>1, <1>2, <1>5 DEF QInv, TypeOK
<1>bo. Born'
  BY <1>u DEF QInv, Born
<1>kn. Known'
  BY <1>u, <1>4, <1>5 DEF QInv, Known
<1>hi. History'
  BY <1>u DEF QInv, History
<1>in. InOrder'
  BY <1>u DEF QInv, InOrder
<1>no. NotPassed'
  BY <1>u, <1>5 DEF QInv, NotPassed, Empty, TypeOK
<1>late. UnsortedOnlyIfLate'
  BY <1>u DEF QInv, UnsortedOnlyIfLate, Empty
<1>ve. Verdict'
  BY <1>u, <1>5 DEF QInv, Verdict
<1>re. Removed'
  BY <1>u DEF QInv, Removed
<1>bl. Blocked'
  BY <1>1 DEF Blocked
<1>ma. Markable'
  <2>1. ASSUME NEW i \in 1..(k - 1)
        PROVE  /\ toFinish'[i] \in queues /\ ~isFinished'[toFinish'[i]]
               /\ Of(toFinish'[i]) \in done
    <3>1. i + 1 \in 1..k /\ 1 \in 1..k /\ i + 1 # 1
      BY <1>2
    <3>2. toFinish'[i] = toFinish[i + 1] /\ toFinish[i + 1] # h
      BY <1>2, <1>3, <3>1
    <3>3. toFinish[i + 1] \in Key
      BY <1>3, <3>1 DEF QInv, TypeOK
    <3> QED
      BY <1>3, <1>5, <3>1, <3>2, <3>3
  <2>2. ASSUME NEW i \in 1..(k - 1), NEW j \in 1..(k - 1), i # j
        PROVE  toFinish'[i] # toFinish'[j]
    <3>1. i + 1 \in 1..k /\ j + 1 \in 1..k /\ i + 1 # j + 1
      BY <2>2, <1>2
    <3> QED
      BY <1>2, <1>3, <3>1
  <2> QED
    BY <1>u, <1>2, <2>1, <2>2 DEF Markable
<1> QED
  BY <1>ty, <1>bo, <1>kn, <1>hi, <1>in, <1>no, <1>late, <1>ve, <1>re, <1>bl, <1>ma DEF QInv

LEMMA FailStep ==
  ASSUME QInv, Fail
  PROVE  QInv'
<1> USE DEF QInv
<1>u. UNCHANGED <<queues, queue, isFinished, start, lastDispatched, blocker, toFinish, done,
                  sent, gone, born>>
  BY DEF Fail
<1>ty. TypeOK'
  BY <1>u DEF Fail, TypeOK
<1>bo. Born'
  BY <1>u DEF QInv, Born
<1>kn. Known'
  BY <1>u DEF QInv, Known
<1>hi. History'
  BY <1>u DEF QInv, History
<1>in. InOrder'
  BY <1>u DEF QInv, InOrder
<1>no. NotPassed'
  BY <1>u DEF QInv, NotPassed, Empty
<1>late. UnsortedOnlyIfLate'
  BY <1>u DEF QInv, UnsortedOnlyIfLate, Empty
<1>ve. Verdict'
  BY <1>u DEF QInv, Verdict
<1>re. Removed'
  BY <1>u DEF QInv, Removed
<1>bl. Blocked'
  BY <1>u DEF Fail, Blocked
<1>ma. Markable'
  BY <1>u DEF QInv, Markable
<1> QED
  BY <1>ty, <1>bo, <1>kn, <1>hi, <1>in, <1>no, <1>late, <1>ve, <1>re, <1>bl, <1>ma DEF QInv

\* The first queue that is empty and may still get data becomes the blocker.
LEMMA BlockStep ==
  ASSUME QInv, Block
  PROVE  QInv'
<1> USE DEF QInv
<1>u. UNCHANGED <<queue, isFinished, start, lastDispatched, toFinish, done,
                  sent, gone, born>>
  BY DEF Block
<1>1. /\ queues \subseteq Key /\ Key \subseteq Nat /\ queues' = queues \ Erased
      /\ \A q \in Erased : q \in queues /\ queue[q] = <<>> /\ isFinished[q]
      /\ \A q \in queues : q \in queues' \/ (queue[q] = <<>> /\ isFinished[q])
  BY KeyOf DEF Block, TypeOK, Erased, Seen, Empty
<1>2. IsFiniteSet(queues')
  BY <1>1, FS_Subset DEF Known
<1>3. Waiting \in SUBSET Nat /\ Waiting # {}
  BY <1>1 DEF Block, Waiting
<1>4. blocker' \in Waiting
  BY <1>3, MinOf DEF Block
<1>5. blocker' \in queues' /\ ~isFinished[blocker'] /\ queue[blocker'] = <<>>
  BY <1>1, <1>4 DEF Waiting, Empty
<1> HIDE DEF QInv
<1>ty. TypeOK'
  BY <1>u, <1>1, <1>5 DEF QInv, Block, TypeOK
<1>bo. Born'
  BY <1>u DEF QInv, Born
<1>kn. Known'
  BY <1>u, <1>1, <1>2 DEF QInv, Known
<1>hi. History'
  BY <1>u DEF QInv, History
<1>in. InOrder'
  BY <1>u DEF QInv, InOrder
<1>no. NotPassed'
  BY <1>u, <1>1 DEF QInv, NotPassed, Empty
<1>late. UnsortedOnlyIfLate'
  BY <1>u, <1>1 DEF QInv, UnsortedOnlyIfLate, Empty
<1>ve. Verdict'
  BY <1>u DEF QInv, Verdict
<1>re. Removed'
  BY <1>u, <1>1 DEF QInv, Removed
<1>bl. Blocked'
  <2>1. Len(queue[blocker']) = 0
    BY <1>1, <1>5, Shape DEF QInv
  <2> QED
    BY <1>u, <1>5, <2>1 DEF Blocked
<1>ma. Markable'
  BY <1>u, <1>1 DEF QInv, Markable
<1> QED
  BY <1>ty, <1>bo, <1>kn, <1>hi, <1>in, <1>no, <1>late, <1>ve, <1>re, <1>bl, <1>ma DEF QInv

\* When no queue has data and none waits, none is left.
LEMMA StopStep ==
  ASSUME QInv, Stop
  PROVE  QInv'
<1> USE DEF QInv
<1>u. UNCHANGED <<queue, isFinished, start, lastDispatched, blocker, toFinish, done,
                  sent, gone, born>>
  BY DEF Stop
<1>1. /\ queues \subseteq Key /\ Key \subseteq Nat /\ queues' = queues \ Erased
      /\ \A q \in Erased : q \in queues /\ queue[q] = <<>> /\ isFinished[q]
      /\ \A q \in queues : q \in queues' \/ (queue[q] = <<>> /\ isFinished[q])
  BY KeyOf DEF Stop, TypeOK, Erased, Seen, Empty
<1>2. IsFiniteSet(queues')
  BY <1>1, FS_Subset DEF Known
<1>3. queues' = {}
  BY <1>1 DEF Stop, Waiting, Full, Erased, Seen, Empty
<1> HIDE DEF QInv
<1>ty. TypeOK'
  BY <1>u, <1>1 DEF QInv, Stop, TypeOK
<1>bo. Born'
  BY <1>u DEF QInv, Born
<1>kn. Known'
  BY <1>u, <1>1, <1>2 DEF QInv, Known
<1>hi. History'
  BY <1>u DEF QInv, History
<1>in. InOrder'
  BY <1>u DEF QInv, InOrder
<1>no. NotPassed'
  BY <1>u, <1>1 DEF QInv, NotPassed, Empty
<1>late. UnsortedOnlyIfLate'
  BY <1>u, <1>1 DEF QInv, UnsortedOnlyIfLate, Empty
<1>ve. Verdict'
  BY <1>u DEF QInv, Verdict
<1>re. Removed'
  BY <1>u, <1>1 DEF QInv, Removed
<1>bl. Blocked'
  BY <1>3 DEF Blocked
<1>ma. Markable'
  BY <1>u, <1>1 DEF QInv, Markable
<1> QED
  BY <1>ty, <1>bo, <1>kn, <1>hi, <1>in, <1>no, <1>late, <1>ve, <1>re, <1>bl, <1>ma DEF QInv

\* A queue of which something is gone has a start.
LEMMA Started ==
  ASSUME QInv, NEW r \in Key, Len(gone[r]) >= 1
  PROVE  start[Of(r)] \in Time
<1>1. 1 \in 1..Len(gone[r])
  BY Shape DEF QInv
<1> QED
  BY <1>1 DEF QInv, Verdict

\* What was decided stands, as the start of a trajectory is fixed then.
LEMMA VerdictKept ==
  ASSUME QInv, UNCHANGED <<gone, sent, isFinished>>,
         \A r \in Key : Len(gone[r]) >= 1 => start'[Of(r)] = start[Of(r)]
  PROVE  Verdict'
<1> SUFFICES ASSUME NEW r \in Key, NEW i \in 1..Len(gone[r])
             PROVE  /\ start'[Of(r)] \in Time
                    /\ gone[r][i] <=> ~(/\ i < Len(sent[r])
                                        /\ sent[r][i] < start'[Of(r)]
                                        /\ sent[r][i + 1] <= start'[Of(r)])
                    /\ i = Len(sent[r]) => sent[r][i] >= start'[Of(r)] \/ isFinished[r]
  BY DEF Verdict
<1>1. start'[Of(r)] = start[Of(r)]
  <2>1. Len(gone[r]) \in Nat
    BY Shape DEF QInv
  <2> QED
    BY <2>1
<1> QED
  BY <1>1 DEF QInv, Verdict

\* The earliest datum is one of the first data of the queues.
LEMMA EarliestOf ==
  ASSUME TypeOK, Full # {}
  PROVE  /\ Earliest \in Full
         /\ \A r \in Full : Head(queue[Earliest]) <= Head(queue[r])
<1>1. \A r \in Full : r \in Key /\ r \in Nat /\ queue[r] # <<>>
  BY KeyOf DEF Full, Seen, Empty, TypeOK
<1>2. \A r \in Full : Head(queue[r]) \in Nat
  BY <1>1, Taken, TimeNumbers DEF TypeOK
<1> DEFINE H == {Head(queue[r]) : r \in Full}
<1>3. PICK h \in H : \A k \in H : h <= k
  <2>1. H \in SUBSET Nat /\ H # {}
    BY <1>2
  <2> QED
    BY <2>1, SmallestOf
<1> DEFINE C == {r \in Full : Head(queue[r]) = h}
<1>4. PICK q \in C : \A k \in C : q <= k
  <2>1. C \in SUBSET Nat /\ C # {}
    BY <1>1, <1>3
  <2> QED
    BY <2>1, SmallestOf
<1>5. q \in Full /\ \A r \in Full : Head(queue[q]) < Head(queue[r])
                                    \/ (Head(queue[q]) = Head(queue[r]) /\ q <= r)
  <2>1. q \in Full /\ Head(queue[q]) = h /\ h \in Nat
    BY <1>2, <1>4
  <2>2. ASSUME NEW r \in Full
        PROVE  h < Head(queue[r]) \/ (h = Head(queue[r]) /\ q <= r)
    <3>1. h <= Head(queue[r]) /\ Head(queue[r]) \in Nat
      BY <1>2, <1>3
    <3>2. Head(queue[r]) = h => q <= r
      BY <1>4
    <3> QED
      BY <2>1, <3>1, <3>2
  <2> QED
    BY <2>1, <2>2
<1>6. /\ Earliest \in Full
      /\ \A r \in Full : Head(queue[Earliest]) < Head(queue[r])
                         \/ (Head(queue[Earliest]) = Head(queue[r]) /\ Earliest <= r)
  BY <1>5, Zenon DEF Earliest
<1> QED
  BY <1>2, <1>6

\* The datum that lags is left for the next call.
LEMMA WaitStep ==
  ASSUME QInv, NEW q \in queues, NEW s \in Time,
         queues' = queues \ Erased,
         start' = [start EXCEPT ![Of(q)] = s],
         start[Of(q)] \in Time => s = start[Of(q)],
         Len(queue[q]) < 2, ~isFinished[q],
         blocker' = q, pc' = "idle",
         UNCHANGED <<queue, lastDispatched, gone, isFinished, toFinish, done, sent, born>>
  PROVE  QInv'
<1> USE DEF QInv
<1>1. /\ queues \subseteq Key /\ queues' \subseteq Key /\ q \in Key
      /\ \A r \in Erased : r \in queues /\ queue[r] = <<>> /\ isFinished[r]
      /\ \A r \in queues : r \in queues' \/ (queue[r] = <<>> /\ isFinished[r])
  BY DEF TypeOK, Erased, Seen, Empty
<1>2. IsFiniteSet(queues')
  BY FS_Subset DEF Known
<1>3. start' \in [Trajectory -> Time \cup {Null}]
  BY <1>1, KeyOf DEF TypeOK
<1>4. \A r \in Key : Len(gone[r]) >= 1 => start'[Of(r)] = start[Of(r)]
  BY Started, KeyOf DEF TypeOK
<1> HIDE DEF QInv
<1>ty. TypeOK'
  BY <1>1, <1>3 DEF QInv, TypeOK
<1>kn. (Born /\ Known)'
  BY <1>1, <1>2 DEF QInv, Born, Known
<1>hi. (History /\ InOrder)'
  BY DEF QInv, History, InOrder
<1>no. NotPassed'
  BY <1>1 DEF QInv, NotPassed, Empty
<1>late. UnsortedOnlyIfLate'
  BY <1>1 DEF QInv, UnsortedOnlyIfLate, Empty
<1>ve. Verdict'
  BY <1>4, VerdictKept DEF QInv
<1>re. Removed'
  BY <1>1 DEF QInv, Removed
<1>bl. Blocked'
  <2>1. q \in queues' /\ Len(queue[q]) <= 1
    <3>1. Len(queue[q]) \in Nat
      BY <1>1, Shape DEF QInv
    <3> QED
      BY <1>1, <3>1
  <2> QED
    BY <2>1 DEF Blocked
<1>ma. Markable'
  BY <1>1 DEF QInv, Markable
<1> QED
  BY <1>ty, <1>kn, <1>hi, <1>no, <1>late, <1>ve, <1>re, <1>bl, <1>ma DEF QInv

\* The earliest datum leaves its queue: v says whether it is dispatched.
LEMMA RemoveStep ==
  ASSUME QInv, NEW q \in queues, NEW s \in Time, NEW v \in BOOLEAN, NEW time \in Time,
         queues' = queues \ Erased,
         \A r \in queues' : queue[r] # <<>>,
         queue[q] # <<>>, time = Head(queue[q]), lastDispatched <= time,
         \A r \in queues : queue[r] # <<>> => time <= Head(queue[r]),
         start' = [start EXCEPT ![Of(q)] = s],
         start[Of(q)] \in Time => s = start[Of(q)],
         ~v <=> (time < s /\ Len(queue[q]) >= 2 /\ queue[q][2] <= s),
         time < s => Len(queue[q]) >= 2 \/ isFinished[q],
         queue' = [queue EXCEPT ![q] = Tail(@)],
         gone' = [gone EXCEPT ![q] = Append(@, v)],
         lastDispatched' = IF v THEN time ELSE lastDispatched,
         pc' = "dispatch",
         UNCHANGED <<blocker, isFinished, toFinish, done, sent, born>>
  PROVE  QInv'
<1> USE DEF QInv
<1>1. /\ queues \subseteq Key /\ queues' \subseteq queues /\ q \in Key /\ q \in queues'
      /\ \A r \in Erased : r \in queues /\ queue[r] = <<>> /\ isFinished[r]
      /\ \A r \in queues : r \in queues' \/ (queue[r] = <<>> /\ isFinished[r])
  BY DEF TypeOK, Erased, Seen, Empty
<1>2. IsFiniteSet(queues')
  BY FS_Subset DEF Known
<1>3. start' \in [Trajectory -> Time \cup {Null}] /\ start'[Of(q)] = s
  BY <1>1, KeyOf DEF TypeOK
<1>4. \A r \in Key : Len(gone[r]) >= 1 => start'[Of(r)] = start[Of(r)]
  BY Started, KeyOf DEF TypeOK
<1>5. /\ queue'[q] = Tail(queue[q]) /\ gone'[q] = Append(gone[q], v)
      /\ \A r \in Key : r # q => queue'[r] = queue[r] /\ gone'[r] = gone[r]
  BY <1>1 DEF TypeOK
<1> DEFINE n == Len(queue[q])
           m == Len(sent[q])
           g == Len(gone[q])
<1>6. /\ queue[q] \in Seq(Time) /\ sent[q] \in Seq(Time) /\ gone[q] \in Seq(BOOLEAN)
      /\ n \in Nat /\ m \in Nat /\ g \in Nat
      /\ \A i \in 1..m : sent[q][i] \in Time
  BY <1>1, Shape
<1>7. /\ queue'[q] \in Seq(Time) /\ n >= 1 /\ time = queue[q][1] /\ Len(queue'[q]) = n - 1
      /\ \A i \in 1..(n - 1) : queue'[q][i] = queue[q][i + 1]
  <2>1. /\ Tail(queue[q]) \in Seq(Time) /\ Head(queue[q]) = queue[q][1]
        /\ Len(queue[q]) >= 1 /\ Len(Tail(queue[q])) = Len(queue[q]) - 1
        /\ \A i \in 1..(Len(queue[q]) - 1) : Tail(queue[q])[i] = queue[q][i + 1]
    BY <1>6, Taken
  <2> QED
    BY <1>5, <2>1
<1>8. /\ gone'[q] \in Seq(BOOLEAN) /\ Len(gone'[q]) = g + 1 /\ gone'[q][g + 1] = v
      /\ \A i \in 1..g : gone'[q][i] = gone[q][i]
  <2>1. /\ Append(gone[q], v) \in Seq(BOOLEAN) /\ Len(Append(gone[q], v)) = Len(gone[q]) + 1
        /\ Append(gone[q], v)[Len(gone[q]) + 1] = v
        /\ \A i \in 1..Len(gone[q]) : Append(gone[q], v)[i] = gone[q][i]
    BY <1>6, Appended
  <2> QED
    BY <1>5, <2>1
<1>9. /\ m = g + n
      /\ \A i \in 1..n : queue[q][i] = sent[q][g + i]
      /\ \A k, l \in 1..m : k <= l => sent[q][k] <= sent[q][l]
  BY <1>1 DEF History, InOrder
<1> HIDE DEF n, m, g
<1>10. /\ Time \subseteq Nat /\ time \in Nat /\ s \in Nat /\ lastDispatched \in Int
       /\ lastDispatched' \in -1..MaxTime /\ lastDispatched' <= time
  <2>1. /\ Time \subseteq Nat /\ time \in Nat /\ s \in Nat /\ time \in -1..MaxTime
        /\ lastDispatched \in -1..MaxTime /\ lastDispatched \in Int
    BY TimeNumbers DEF TypeOK
  <2>2. lastDispatched' \in {time, lastDispatched}
    OBVIOUS
  <2> QED
    BY <2>1, <2>2
<1>11. queue'[q] = <<>> <=> n = 1
  <2>1. queue'[q] = <<>> <=> Len(queue'[q]) = 0
    BY <1>7, EmptySeq
  <2> QED
    BY <2>1, <1>6, <1>7
<1>12. time = sent[q][g + 1] /\ g + 1 \in 1..m
  <2>1. n \in Nat /\ g \in Nat /\ n >= 1 /\ m = g + n
    BY <1>6, <1>7, <1>9
  <2>2. 1 \in 1..n /\ g + 1 \in 1..m
    BY ONLY <2>1
  <2> QED
    BY <2>2, <1>7, <1>9
<1>13. ~v <=> (time < s /\ n >= 2 /\ queue[q][2] <= s)
  BY DEF n
<1>14. time < s => n >= 2 \/ isFinished[q]
  BY DEF n
<1>15. n >= 2 => queue[q][2] = sent[q][g + 2] /\ g + 2 \in 1..m /\ queue[q][2] >= time
  <2> SUFFICES ASSUME n >= 2
               PROVE  queue[q][2] = sent[q][g + 2] /\ g + 2 \in 1..m /\ queue[q][2] >= time
    OBVIOUS
  <2>1. 2 \in 1..n /\ g + 2 \in 1..m /\ g + 1 <= g + 2
    BY <1>6, <1>9
  <2>2. queue[q][2] = sent[q][g + 2] /\ sent[q][g + 1] <= sent[q][g + 2]
    BY <2>1, <1>9, <1>12
  <2>3. sent[q][g + 1] \in Nat /\ sent[q][g + 2] \in Nat
    BY <2>1, <1>6, <1>10, <1>12
  <2> QED
    BY <2>1, <2>2, <2>3, <1>12
<1> HIDE DEF QInv
<1>ty. TypeOK'
  <2>1. queue' \in [Key -> Seq(Time)] /\ gone' \in [Key -> Seq(BOOLEAN)]
    BY <1>1, <1>5, <1>7, <1>8 DEF QInv, TypeOK
  <2> QED
    BY <1>1, <1>3, <1>10, <2>1 DEF QInv, TypeOK
<1>kn. (Born /\ Known)'
  <2>1. born[q] # Null
    BY <1>1 DEF QInv, Known
  <2> QED
    BY <1>1, <1>2, <1>5, <2>1 DEF QInv, Born, Known
<1>in. InOrder'
  BY DEF QInv, InOrder
<1>hi. History'
  <2>0. sent' = sent
    OBVIOUS
  <2>1. ASSUME NEW r \in Key
        PROVE  /\ Len(sent[r]) = Len(gone'[r]) + Len(queue'[r])
               /\ \A i \in 1..Len(queue'[r]) : queue'[r][i] = sent[r][Len(gone'[r]) + i]
    <3>1. CASE r # q
      <4>1. /\ Len(sent[r]) = Len(gone[r]) + Len(queue[r])
            /\ \A i \in 1..Len(queue[r]) : queue[r][i] = sent[r][Len(gone[r]) + i]
        BY DEF QInv, History
      <4>2. queue'[r] = queue[r] /\ gone'[r] = gone[r]
        BY <1>5, <3>1
      <4> QED
        BY ONLY <4>1, <4>2
    <3>2. CASE r = q
      <4>1. n \in Nat /\ g \in Nat
        BY <1>6
      <4>2. m = (g + 1) + (n - 1)
        BY <4>1, <1>9
      <4>3. ASSUME NEW i \in 1..(n - 1)
            PROVE  queue'[q][i] = sent[q][(g + 1) + i]
        <5>1. i + 1 \in 1..n
          BY <4>1
        <5>2. g + (i + 1) = (g + 1) + i
          BY <4>1
        <5> QED
          BY <5>1, <5>2, <1>7, <1>9
      <4>4. Len(sent[q]) = m
        BY DEF m
      <4>5. Len(queue'[q]) = n - 1 /\ Len(gone'[q]) = g + 1
        BY <1>7, <1>8
      <4> QED
        BY ONLY <3>2, <4>2, <4>3, <4>4, <4>5
    <3> QED
      BY <3>1, <3>2
  <2> QED
    BY ONLY <2>0, <2>1 DEF History
<1>no. NotPassed'
  <2> SUFFICES ASSUME NEW r \in queues', queue'[r] = <<>>
               PROVE  sent[r] # <<>> /\ lastDispatched' <= sent[r][Len(sent[r])]
    BY DEF NotPassed, Empty
  <2>1. r = q
    BY <1>1, <1>5
  <2>2. n = 1 /\ m = g + 1
    BY <2>1, <1>9, <1>11, <1>6
  <2>3. sent[q] # <<>>
    BY <2>2, <1>1, <1>6, Shape DEF QInv, m
  <2> QED
    BY <2>1, <2>2, <2>3, <1>10, <1>12 DEF m
<1>late. UnsortedOnlyIfLate'
  <2> SUFFICES ASSUME NEW r \in queues', queue'[r] # <<>>
               PROVE  Head(queue'[r]) \in Nat /\ Head(queue'[r]) >= time
    <3>1. time \in Nat /\ lastDispatched' \in Int /\ lastDispatched' <= time
      BY <1>10
    <3>2. ASSUME NEW x \in Nat, x >= time PROVE ~(x < lastDispatched')
      BY <3>1, <3>2
    <3> QED
      BY <3>2 DEF UnsortedOnlyIfLate, Empty
  <2>1. CASE r # q
    <3>1. queue'[r] = queue[r] /\ queue[r] \in Seq(Time) /\ time <= Head(queue[r])
      BY <1>1, <1>5, <2>1, Shape DEF QInv
    <3> QED
      BY <3>1, <1>10, Taken
  <2>2. CASE r = q
    <3>1. n >= 2 /\ 1 \in 1..(n - 1)
      BY <2>2, <1>6, <1>7, <1>11
    <3>2. Head(queue'[q]) = queue'[q][1] /\ Head(queue'[q]) \in Time
      BY <2>2, <1>7, Taken
    <3>3. Head(queue'[q]) = queue[q][2] /\ Head(queue'[q]) \in Nat
      <4>1. queue'[q][1] = queue[q][1 + 1]
        BY <3>1, <1>7
      <4>2. queue'[q][1] = queue[q][2]
        <5>1. 1 + 1 = 2
          OBVIOUS
        <5> QED
          BY <4>1, <5>1, Zenon
      <4>3. Head(queue'[q]) \in Nat
        BY <3>2, TimeNumbers
      <4> QED
        BY ONLY <3>2, <4>2, <4>3
    <3> QED
      BY <2>2, <3>1, <3>3, <1>15
  <2> QED
    BY <2>1, <2>2
<1>ve. Verdict'
  <2> SUFFICES ASSUME NEW r \in Key, NEW i \in 1..Len(gone'[r])
               PROVE  /\ start'[Of(r)] \in Time
                      /\ gone'[r][i] <=> ~(/\ i < Len(sent[r])
                                           /\ sent[r][i] < start'[Of(r)]
                                           /\ sent[r][i + 1] <= start'[Of(r)])
                      /\ i = Len(sent[r]) => sent[r][i] >= start'[Of(r)] \/ isFinished[r]
    BY DEF Verdict
  <2>1. ASSUME i \in 1..Len(gone[r]), gone'[r][i] = gone[r][i]
        PROVE  /\ start'[Of(r)] \in Time
               /\ gone'[r][i] <=> ~(/\ i < Len(sent[r])
                                    /\ sent[r][i] < start'[Of(r)]
                                    /\ sent[r][i + 1] <= start'[Of(r)])
               /\ i = Len(sent[r]) => sent[r][i] >= start'[Of(r)] \/ isFinished[r]
    <3>1. Len(gone[r]) >= 1
      <4>1. Len(gone[r]) \in Nat
        BY Shape DEF QInv
      <4> QED
        BY <4>1, <2>1
    <3>2. start'[Of(r)] = start[Of(r)]
      BY <3>1, <1>4
    <3> QED
      BY <2>1, <3>2 DEF QInv, Verdict
  <2>2. CASE r # q
    BY <1>5, <2>1, <2>2
  <2>3. CASE r = q /\ i \in 1..g
    BY <1>8, <2>1, <2>3 DEF g
  <2>4. CASE r = q /\ i = g + 1
    <3>1. gone'[q][i] = v /\ sent[q][i] = time /\ (i < m <=> n >= 2) /\ (i = m <=> n = 1)
      BY <2>4, <1>6, <1>7, <1>8, <1>9, <1>12
    <3>2. n >= 2 => sent[q][i + 1] = queue[q][2]
      <4>1. i + 1 = g + 2
        BY <2>4, <1>6
      <4> QED
        BY <4>1, <1>15
    <3>3. v <=> ~(i < m /\ sent[q][i] < s /\ sent[q][i + 1] <= s)
      BY <3>1, <3>2, <1>13
    <3>4. i = m => sent[q][i] >= s \/ isFinished[q]
      <4>1. time < s \/ time >= s
        BY <1>10
      <4>2. n = 1 => ~(n >= 2)
        OBVIOUS
      <4> QED
        BY <3>1, <4>1, <4>2, <1>14
    <3> QED
      BY <2>4, <3>1, <3>3, <3>4, <1>3 DEF m
  <2>5. r = q => i \in 1..g \/ i = g + 1
    BY <1>6, <1>8
  <2> QED
    BY <2>2, <2>3, <2>4, <2>5
<1>re. Removed'
  BY <1>1, <1>5 DEF QInv, Removed
<1>bl. Blocked'
  BY DEF Blocked
<1>ma. Markable'
  BY <1>1 DEF QInv, Markable
<1> QED
  BY <1>ty, <1>kn, <1>hi, <1>in, <1>no, <1>late, <1>ve, <1>re, <1>bl, <1>ma DEF QInv

\* The earliest datum waits, is dropped or is dispatched; no queue that may still
\* get data is passed, as none is empty.
LEMMA TakeStep ==
  ASSUME QInv, Take
  PROVE  QInv'
<1> DEFINE q == Earliest
           time == Head(queue[q])
           s == IF start[Of(q)] = Null THEN CommonStart(Of(q)) ELSE start[Of(q)]
           v == ~(time < s /\ Drop(q, s))
<1>1. TypeOK
  BY DEF QInv
<1>2. /\ Waiting = {} /\ Full # {} /\ ~Unsorted /\ pc = "dispatch"
      /\ queues' = queues \ Erased
      /\ start' = [start EXCEPT ![Of(q)] = s]
      /\ UNCHANGED <<isFinished, toFinish, done, sent, born>>
  BY DEF Take
<1>3. \/ /\ time < s /\ Undecided(q)
         /\ blocker' = q /\ pc' = "idle" /\ UNCHANGED <<queue, lastDispatched, gone>>
      \/ /\ ~(time < s /\ Undecided(q))
         /\ queue' = [queue EXCEPT ![q] = Tail(@)]
         /\ gone' = [gone EXCEPT ![q] = Append(@, v)]
         /\ lastDispatched' = IF v THEN time ELSE lastDispatched
         /\ UNCHANGED <<blocker, pc>>
  BY DEF Take
<1>4. /\ q \in Full /\ \A r \in Full : time <= Head(queue[r])
  BY <1>1, <1>2, EarliestOf
<1> HIDE DEF q
<1>5. /\ \A r \in queues : queue[r] # <<>> => r \in Full
      /\ \A r \in Full : r \in queues /\ r \in Key /\ queue[r] # <<>>
      /\ \A r \in queues' : queue[r] # <<>>
  BY <1>1, <1>2 DEF Waiting, Full, Erased, Seen, Empty, TypeOK
<1>6. \A r \in Full : Head(queue[r]) \in Time
  BY <1>1, <1>5, Taken DEF TypeOK
<1>7. lastDispatched <= time
  <2>1. ~(time < lastDispatched)
    BY <1>2, <1>4 DEF Unsorted
  <2> QED
    BY <2>1, <1>1, <1>4, <1>6, TimeNumbers DEF TypeOK
<1>8. s \in Time /\ (start[Of(q)] \in Time => s = start[Of(q)])
  <2>1. Of(q) \in Trajectory /\ q \in Sensors[Of(q)]
    BY <1>4, <1>5, KeyOf
  <2>2. start[Of(q)] \in Time \cup {Null} /\ Null \notin Time
    BY <1>1, <2>1, TimeNumbers DEF TypeOK
  <2>3. CommonStart(Of(q)) \in Time
    <3> DEFINE H == {Head(queue[r]) : r \in Full \cap Sensors[Of(q)]}
    <3>1. H \in SUBSET Time
      BY <1>6
    <3>2. time \in H
      BY <1>4, <2>1
    <3>3. Max(H) \in H
      BY <3>1, <3>2, LatestOf
    <3> QED
      BY <3>1, <3>3 DEF CommonStart
  <2> QED
    BY <2>2, <2>3
<1>9. /\ q \in queues /\ time \in Time /\ queue[q] # <<>> /\ Len(queue[q]) \in Nat
      /\ \A r \in queues : queue[r] # <<>> => time <= Head(queue[r])
  BY <1>1, <1>4, <1>5, <1>6, Shape
<1>10. CASE time < s /\ Undecided(q)
  <2>1. Len(queue[q]) < 2 /\ ~isFinished[q]
    BY <1>10 DEF Undecided
  <2>2. blocker' = q /\ pc' = "idle" /\ UNCHANGED <<queue, lastDispatched, gone>>
    BY <1>3, <1>10
  <2> HIDE DEF s, time, v
  <2> QED
    BY <1>2, <1>8, <1>9, <2>1, <2>2, WaitStep
<1>11. CASE ~(time < s /\ Undecided(q))
  <2>1. ~v <=> (time < s /\ Len(queue[q]) >= 2 /\ queue[q][2] <= s)
    BY DEF Drop
  <2>2. time < s => Len(queue[q]) >= 2 \/ isFinished[q]
    BY <1>9, <1>11 DEF Undecided
  <2>3. /\ queue' = [queue EXCEPT ![q] = Tail(@)]
        /\ gone' = [gone EXCEPT ![q] = Append(@, v)]
        /\ lastDispatched' = IF v THEN time ELSE lastDispatched
        /\ UNCHANGED <<blocker, pc>>
    BY <1>3, <1>11
  <2>4. v \in BOOLEAN /\ time = Head(queue[q])
    OBVIOUS
  <2> HIDE DEF s, time, v
  <2>5. pc' = "dispatch"
    BY <1>2, <2>3
  <2> QED
    BY <1>2, <1>5, <1>7, <1>8, <1>9, <2>1, <2>2, <2>3, <2>4, <2>5, RemoveStep
<1> QED
  BY <1>10, <1>11

LEMMA InitQInv == Init => QInv
<1> SUFFICES ASSUME Init PROVE QInv
  OBVIOUS
<1> USE DEF Init
<1>0. Len(<<>>) = 0 /\ <<>> \in Seq(Time) /\ <<>> \in Seq(BOOLEAN) /\ <<>> \in Seq(Key)
  BY EmptySeq
<1>ty. TypeOK
  BY <1>0, TimeNumbers DEF TypeOK
<1>kn. Born /\ Known
  BY FS_EmptySet DEF Born, Known
<1>hi. History /\ InOrder
  BY <1>0 DEF History, InOrder
<1>no. NotPassed /\ UnsortedOnlyIfLate /\ Removed /\ Blocked
  BY DEF NotPassed, UnsortedOnlyIfLate, Removed, Blocked
<1>ve. Verdict
  BY <1>0 DEF Verdict
<1>ma. Markable
  BY <1>0 DEF Markable
<1> QED
  BY <1>ty, <1>kn, <1>hi, <1>no, <1>ve, <1>ma DEF QInv

LEMMA NextQInv == QInv /\ [Next]_vars => QInv'
<1> SUFFICES ASSUME QInv, [Next]_vars PROVE QInv'
  OBVIOUS
<1>1. ASSUME NEW t \in Trajectory, AddTrajectory(t) \/ FinishTrajectory(t) PROVE QInv'
  BY <1>1, AddTrajectoryStep, FinishTrajectoryStep
<1>2. ASSUME NEW q \in Key, NEW time \in Time, Add(q, time) PROVE QInv'
  BY <1>2, AddStep
<1>3. CASE Flush \/ MarkQueueAsFinished \/ Dispatch
  BY <1>3, FlushStep, MarkQueueAsFinishedStep, FailStep, BlockStep, StopStep, TakeStep
     DEF Dispatch
<1>4. CASE UNCHANGED vars
  <2>1. (TypeOK /\ Born /\ Known)'
    BY <1>4 DEF vars, QInv, TypeOK, Born, Known
  <2>2. (History /\ InOrder)'
    BY <1>4 DEF vars, QInv, History, InOrder
  <2>3. (NotPassed /\ UnsortedOnlyIfLate /\ Removed)'
    BY <1>4 DEF vars, QInv, NotPassed, UnsortedOnlyIfLate, Removed, Empty
  <2>4. (Verdict /\ Blocked /\ Markable)'
    BY <1>4 DEF vars, QInv, Verdict, Blocked, Markable
  <2> QED
    BY <2>1, <2>2, <2>3, <2>4 DEF QInv
<1> QED
  BY <1>1, <1>2, <1>3, <1>4 DEF Next

LEMMA QueueInvariant == Spec => []QInv
BY InitQInv, NextQInv, PTL DEF Spec

\* The variables of the queues keep their types: what is left in a queue, and what
\* was ever added to it, are time stamps (ordered_multi_queue.h:88-95).
THEOREM QueuesTyped == Spec => []TypeOK
<1>1. QInv => TypeOK
  BY DEF QInv
<1> QED
  BY QueueInvariant, <1>1, PTL

\* With data sorted within each queue the CHECK only fails for data older than what
\* was dispatched when their queue was added, for every set of trajectories and
\* sensors (ordered_multi_queue.cc:112, ordered_multi_queue.h:63-64).
THEOREM OnlyLateUnsorted == Spec => []UnsortedOnlyIfLate
<1>1. QInv => UnsortedOnlyIfLate
  BY DEF QInv
<1> QED
  BY QueueInvariant, <1>1, PTL

\* Whatever order data, finished trajectories and flushes come in, each datum is still
\* queued, was dispatched once, or was dropped as it should be
\* (ordered_multi_queue.cc:121-147, 101).
THEOREM NoDatumLost == Spec => []OnlyOldDropped
<1>1. QInv => OnlyOldDropped
  <2> SUFFICES ASSUME QInv, NEW q \in Key
               PROVE  /\ sent[q] = SubSeq(sent[q], 1, Len(gone[q])) \o queue[q]
                      /\ q \notin queues => Empty(q)
                      /\ \A i \in DOMAIN gone[q] :
                           gone[q][i] <=> ~(/\ i < Len(sent[q])
                                            /\ sent[q][i] < start[Of(q)]
                                            /\ sent[q][i + 1] <= start[Of(q)])
    BY DEF OnlyOldDropped
  <2>1. sent[q] = SubSeq(sent[q], 1, Len(gone[q])) \o queue[q]
    <3>1. /\ sent[q] \in Seq(Time) /\ queue[q] \in Seq(Time) /\ Len(gone[q]) \in Nat
      BY Shape DEF QInv
    <3>2. /\ Len(sent[q]) = Len(gone[q]) + Len(queue[q])
          /\ \A i \in 1..Len(queue[q]) : queue[q][i] = sent[q][Len(gone[q]) + i]
      BY DEF QInv, History
    <3> DEFINE x == sent[q]
               r == queue[q]
               g == Len(gone[q])
    <3>3. /\ x \in Seq(Time) /\ r \in Seq(Time) /\ g \in Nat
          /\ Len(x) = g + Len(r) /\ \A i \in 1..Len(r) : r[i] = x[g + i]
      BY <3>1, <3>2
    <3> HIDE DEF x, r, g
    <3>4. x = SubSeq(x, 1, g) \o r
      BY ONLY <3>3, Rejoined
    <3> QED
      BY <3>4 DEF x, r, g
  <2>2. q \notin queues => Empty(q)
    BY DEF QInv, Removed, Empty
  <2>3. DOMAIN gone[q] = 1..Len(gone[q])
    BY Shape, LenProperties DEF QInv
  <2>4. \A i \in 1..Len(gone[q]) :
          gone[q][i] <=> ~(/\ i < Len(sent[q])
                           /\ sent[q][i] < start[Of(q)]
                           /\ sent[q][i + 1] <= start[Of(q)])
    BY DEF QInv, Verdict
  <2> QED
    BY <2>1, <2>2, <2>3, <2>4
<1> QED
  BY QueueInvariant, <1>1, PTL

\* Between calls something is left only behind an unfinished queue with at most one
\* datum (ordered_multi_queue.cc:43-47, ordered_multi_queue.h:66-72).
THEOREM NeverWaitsInVain == Spec => []WaitsForBlocker
<1>1. QInv => WaitsForBlocker
  BY DEF QInv, Blocked, WaitsForBlocker, Idle
<1> QED
  BY QueueInvariant, <1>1, PTL

\* MarkQueueAsFinished is never called for a queue that is gone or that was finished
\* already: its CHECKs hold, though Dispatch erases queues between the calls for one
\* trajectory (ordered_multi_queue.cc:54-61, collator.cc:36-40).
THEOREM MarkFindsItsQueue == Spec => []Markable
<1>1. QInv => Markable
  BY DEF QInv
<1> QED
  BY QueueInvariant, <1>1, PTL

-----------------------------------------------------------------------------
(* The queues merge by time                                                *)

\* Only a finished queue is removed.
Ended == \A q \in Key : q \notin queues => born[q] = Null \/ isFinished[q]

MInv == QInv /\ Ended

LEMMA InitEnded == Init => Ended
BY DEF Init, Ended

\* Dispatch erases finished queues, and a finished queue stays finished.
LEMMA NextEnded ==
  ASSUME QInv, Ended, [Next]_vars
  PROVE  Ended'
<1> SUFFICES ASSUME NEW q \in Key, q \notin queues'
             PROVE  born'[q] = Null \/ isFinished'[q]
  BY DEF Ended
<1>1. isFinished \in [Key -> BOOLEAN]
  BY DEF QInv, TypeOK
<1>2. ASSUME NEW t \in Trajectory, AddTrajectory(t)
      PROVE  born'[q] = Null \/ isFinished'[q]
  <2>1. q \notin queues /\ q \notin Sensors[t] /\ born'[q] = born[q]
        /\ isFinished' = isFinished
    BY <1>2 DEF AddTrajectory
  <2> QED
    BY <2>1 DEF Ended
<1>3. ASSUME UNCHANGED <<queues, born, isFinished>>
      PROVE  born'[q] = Null \/ isFinished'[q]
  BY <1>3 DEF Ended
<1>4. CASE MarkQueueAsFinished
  <2>1. /\ queues' = queues /\ born' = born
        /\ isFinished' = [isFinished EXCEPT ![Head(toFinish)] = TRUE]
    BY <1>4 DEF MarkQueueAsFinished
  <2>2. isFinished[q] => isFinished'[q]
    BY <1>1, <2>1
  <2> QED
    BY <2>1, <2>2 DEF Ended
<1>5. CASE Block \/ Stop \/ Take
  <2>1. queues' = queues \ Erased /\ born' = born /\ isFinished' = isFinished
    BY <1>5 DEF Block, Stop, Take
  <2>2. q \in Erased => isFinished[q]
    BY DEF Erased
  <2> QED
    BY <2>1, <2>2 DEF Ended
<1>6. ASSUME NEW t \in Trajectory, FinishTrajectory(t)
      PROVE  born'[q] = Null \/ isFinished'[q]
  BY <1>3, <1>6 DEF FinishTrajectory
<1>7. ASSUME NEW k \in Key, NEW time \in Time, Add(k, time)
      PROVE  born'[q] = Null \/ isFinished'[q]
  BY <1>3, <1>7 DEF Add
<1>8. CASE Flush \/ Fail \/ UNCHANGED vars
  BY <1>3, <1>8 DEF Flush, Fail, vars
<1> QED
  BY <1>2, <1>4, <1>5, <1>6, <1>7, <1>8 DEF Next, Dispatch

LEMMA SpecMInv == Spec => []MInv
<1>1. Init => Ended
  BY InitEnded
<1>2. QInv /\ Ended /\ [Next]_vars => Ended'
  BY NextEnded
<1> QED
  BY QueueInvariant, <1>1, <1>2, PTL DEF Spec, MInv

\* The variables of the merge.
MergeVars == <<{q \in Key : born[q] # Null}, {q \in Key : isFinished[q]}, sent, gone>>

\* A queue that has begun, and has or has not ended.
LEMMA BegunOf ==
  ASSUME QInv, NEW q \in queues
  PROVE  /\ q \in Key /\ born[q] # Null
         /\ q \in {r \in Key : born[r] # Null}
BY DEF QInv, TypeOK, Known

\* A new trajectory: its sensors begin.
LEMMA MergeBegin ==
  ASSUME QInv, NEW t \in Trajectory, AddTrajectory(t)
  PROVE  Merge!Begin(Sensors[t]) /\ Sensors[t] \in SUBSET Key
<1>1. /\ \A q \in Sensors[t] : q \in Key /\ born[q] = Null
      /\ born' = [q \in Key |-> IF q \in Sensors[t] THEN lastDispatched ELSE born[q]]
      /\ isFinished' = isFinished /\ sent' = sent /\ gone' = gone
  BY KeyOf DEF AddTrajectory
<1>2. lastDispatched # Null
  BY TimeNumbers DEF QInv, TypeOK
<1>3. {q \in Key : born'[q] # Null} = {q \in Key : born[q] # Null} \cup Sensors[t]
  BY <1>1, <1>2
<1>4. Sensors[t] \cap {q \in Key : born[q] # Null} = {}
  BY <1>1
<1> QED
  BY <1>1, <1>3, <1>4 DEF Merge!Begin

\* A datum comes from a sensor that has not ended, behind those of the sensor.
LEMMA MergeCome ==
  ASSUME QInv, NEW q \in Key, NEW time \in Time, Add(q, time)
  PROVE  Merge!Come(q, time)
<1>1. /\ q \in queues /\ Of(q) \notin done
      /\ sent[q] # <<>> => sent[q][Len(sent[q])] <= time
      /\ sent' = [sent EXCEPT ![q] = Append(@, time)]
      /\ UNCHANGED <<born, isFinished, gone>>
  BY DEF Add, Last
<1>2. born[q] # Null /\ ~isFinished[q]
  BY <1>1 DEF QInv, Known
<1> DEFINE m == Len(sent[q])
<1>3. /\ m \in Nat /\ DOMAIN sent[q] = 1..m
      /\ \A i \in 1..m : sent[q][i] \in Nat
      /\ m >= 1 => sent[q] # <<>>
  BY Shape, TimeNumbers, LenProperties DEF QInv
<1>4. ASSUME NEW i \in 1..m
      PROVE  sent[q][i] <= time
  <2>1. i <= m /\ m \in 1..m /\ m >= 1
    BY <1>3
  <2>2. sent[q][i] <= sent[q][m]
    BY <2>1 DEF QInv, InOrder
  <2>3. sent[q][m] <= time /\ time \in Nat
    BY <1>1, <1>3, <2>1, TimeNumbers
  <2>4. sent[q][i] \in Nat /\ sent[q][m] \in Nat
    BY <1>3, <2>1
  <2> QED
    BY <2>2, <2>3, <2>4
<1> QED
  BY <1>1, <1>2, <1>3, <1>4 DEF Merge!Come

\* A sensor ends, once.
LEMMA MergeEnd ==
  ASSUME QInv, MarkQueueAsFinished
  PROVE  \E q \in Key : Merge!End(q)
<1>1. /\ toFinish \in Seq(Key) /\ toFinish # <<>>
      /\ isFinished' = [isFinished EXCEPT ![Head(toFinish)] = TRUE]
      /\ UNCHANGED <<born, sent, gone>>
      /\ isFinished \in [Key -> BOOLEAN]
  BY DEF MarkQueueAsFinished, QInv, TypeOK
<1>2. PICK h \in Key : h = Head(toFinish) /\ h = toFinish[1] /\ 1 \in 1..Len(toFinish)
  BY <1>1, Taken
<1>3. h \in queues /\ ~isFinished[h]
  BY <1>2 DEF QInv, Markable
<1>4. born[h] # Null
  BY <1>3, BegunOf
<1>5. {q \in Key : isFinished'[q]} = {q \in Key : isFinished[q]} \cup {h}
  BY <1>1, <1>2
<1>6. Merge!End(h)
  BY <1>1, <1>2, <1>3, <1>4, <1>5 DEF Merge!End
<1> QED
  BY <1>6

\* What is left of a sensor's data is what is queued.
LEMMA LeftIsQueued ==
  ASSUME QInv, NEW q \in Key
  PROVE  /\ Merge!Left(q) <=> queue[q] # <<>>
         /\ Merge!Left(q) => Merge!First(q) = Head(queue[q])
<1> DEFINE n == Len(queue[q])
           m == Len(sent[q])
           g == Len(gone[q])
<1>1. /\ n \in Nat /\ m \in Nat /\ g \in Nat /\ m = g + n
      /\ queue[q] = <<>> <=> n = 0
      /\ queue[q] # <<>> => Head(queue[q]) = queue[q][1]
      /\ \A i \in 1..n : queue[q][i] = sent[q][g + i]
  BY Shape DEF QInv, History
<1>2. Merge!Left(q) <=> m > g
  BY DEF Merge!Left
<1>3. Merge!First(q) = sent[q][g + 1]
  BY DEF Merge!First
<1> HIDE DEF n, m, g
<1>4. Merge!Left(q) <=> n # 0
  BY <1>1, <1>2
<1>5. n # 0 => 1 \in 1..n
  BY <1>1
<1> QED
  BY <1>1, <1>3, <1>4, <1>5

\* No queue was passed over, so what is taken is the earliest of all.
LEMMA MergeTake ==
  ASSUME MInv, Take
  PROVE  [Merge!Next]_(MergeVars)
<1> DEFINE q == Earliest
           time == Head(queue[q])
           s == IF start[Of(q)] = Null THEN CommonStart(Of(q)) ELSE start[Of(q)]
           v == ~(time < s /\ Drop(q, s))
<1>1. QInv /\ TypeOK /\ Ended
  BY DEF MInv, QInv
<1>2. /\ Waiting = {} /\ Full # {}
      /\ UNCHANGED <<isFinished, sent, born>>
  BY DEF Take
<1>3. gone' = gone \/ gone' = [gone EXCEPT ![q] = Append(@, v)]
  BY DEF Take
<1>4. v \in BOOLEAN
  OBVIOUS
<1>5. q \in Full /\ \A r \in Full : time <= Head(queue[r])
  BY <1>1, <1>2, EarliestOf
<1> HIDE DEF q, v, s
<1>6. /\ \A r \in queues : queue[r] # <<>> => r \in Full
      /\ \A r \in Full : r \in queues /\ r \in Key /\ queue[r] # <<>>
      /\ \A r \in queues : queue[r] = <<>> => isFinished[r]
  BY <1>1, <1>2 DEF Waiting, Full, Seen, Empty, TypeOK
<1>7. CASE gone' = gone
  BY <1>2, <1>7 DEF MergeVars
<1>8. CASE gone' = [gone EXCEPT ![q] = Append(@, v)]
  <2>1. /\ q \in queues /\ q \in Key /\ born[q] # Null /\ Merge!Left(q)
        /\ Merge!First(q) = time
    BY <1>1, <1>5, <1>6, BegunOf, LeftIsQueued
  <2>2. ASSUME NEW r \in Key, born[r] # Null
        PROVE  IF Merge!Left(r) THEN Merge!First(q) <= Merge!First(r)
                                ELSE isFinished[r]
    <3>1. CASE queue[r] # <<>>
      <4>1. r \in queues
        BY <1>1, <3>1 DEF QInv, Removed
      <4>2. time <= Head(queue[r])
        BY <1>5, <1>6, <3>1, <4>1
      <4> QED
        BY <1>1, <2>1, <3>1, <4>2, LeftIsQueued
    <3>2. CASE queue[r] = <<>>
      <4>1. isFinished[r]
        BY <1>1, <1>6, <2>2, <3>2 DEF Ended
      <4> QED
        BY <1>1, <3>2, <4>1, LeftIsQueued
    <3> QED
      BY <3>1, <3>2
  <2>3. Merge!Leave(q, v)
    BY <1>2, <1>8, <2>1, <2>2 DEF Merge!Leave
  <2> QED
    BY <1>4, <2>1, <2>3 DEF Merge!Next
<1> QED
  BY <1>3, <1>7, <1>8

LEMMA MergeStep ==
  ASSUME MInv, [Next]_vars
  PROVE  [Merge!Next]_(MergeVars)
<1>1. QInv
  BY DEF MInv
<1>2. ASSUME UNCHANGED <<born, isFinished, sent, gone>>
      PROVE  [Merge!Next]_(MergeVars)
  BY <1>2 DEF MergeVars
<1>3. ASSUME NEW t \in Trajectory, AddTrajectory(t)
      PROVE  [Merge!Next]_(MergeVars)
  BY <1>1, <1>3, MergeBegin DEF Merge!Next
<1>4. ASSUME NEW q \in Key, NEW time \in Time, Add(q, time)
      PROVE  [Merge!Next]_(MergeVars)
  BY <1>1, <1>4, MergeCome DEF Merge!Next
<1>5. CASE MarkQueueAsFinished
  BY <1>1, <1>5, MergeEnd DEF Merge!Next
<1>6. CASE Take
  BY <1>6, MergeTake
<1>7. ASSUME NEW t \in Trajectory, FinishTrajectory(t)
      PROVE  [Merge!Next]_(MergeVars)
  BY <1>2, <1>7 DEF FinishTrajectory
<1>8. CASE Flush \/ Fail \/ Block \/ Stop \/ UNCHANGED vars
  BY <1>2, <1>8 DEF Flush, Fail, Block, Stop, vars
<1> QED
  BY <1>3, <1>4, <1>5, <1>6, <1>7, <1>8 DEF Next, Dispatch

\* The collator's queues merge by time, for every set of trajectories and sensors:
\* whatever leaves is the earliest datum of all, and no queue added so far can still
\* get an earlier one, however queues are finished, erased and looked at in part
\* (ordered_multi_queue.cc:92-149, 54-61).
THEOREM QueueImplementsMerge == Spec => ImplementsMerge
<1>1. Init => Merge!Init
  BY DEF Init, Merge!Init
<1>2. MInv /\ [Next]_vars => [Merge!Next]_(MergeVars)
  BY MergeStep
<1> QED
  BY <1>1, <1>2, SpecMInv, PTL DEF Spec, ImplementsMerge, Merge!Spec, MergeVars

-----------------------------------------------------------------------------
(* The lidar's driver: the invariant                                       *)

\* Where the main thread goes, and how often it may still try.
MainTypes ==
  /\ main \in {"join", "stopScan"} => after \in {"command", "spin", "disconnect"}
  /\ main \in {"check", "checkCopy"} => grabs < MaxGrabs
  /\ main = "turnOn" => session < MaxSession

\* The command to scan is given with the port open, and to no lidar that
\* scans already: turnOn saw so, and no reader has run since.
CommandReady ==
  main = "command" \/ (main \in {"join", "stopScan"} /\ after = "command") =>
    /\ connected
    /\ reader \in {"none", "ended"}
    /\ session < MaxSession

\* The flag and the thread: a reader that was not told to stop scans, and once
\* the join is over one that does not scan has ended.
ReaderState ==
  /\ reader = "created" /\ main \notin {"motor", "dtr"} => scanning
  /\ main \in {"join", "stopScan"} => ~scanning
  /\ ~scanning /\ main \notin {"join", "motor", "dtr"} => reader \in {"none", "ended"}
  /\ reader # "none" => session > 0

\* A revolution handed over began with a sync point and no wait in it timed out.
NoGap ==
  /\ local.sync => ~local.gap
  /\ buffer # None => ~buffer.gap

\* What the loop can grab is of this session: turnOn has emptied the buffer.
BufferFresh ==
  main \in {"grab", "copy"} \/ (scanning /\ main \in {"loop", "spin", "turnOn"}) =>
    (buffer # None => buffer.session = session)

LidarInv ==
  /\ LidarTypeOK /\ MainTypes /\ CommandReady /\ ReaderState /\ NoGap /\ BufferFresh
  /\ TransfersApart

-----------------------------------------------------------------------------
LEMMA InitLidarInv == LidarInit => LidarInv
<1> SUFFICES ASSUME LidarInit PROVE LidarInv
  OBVIOUS
<1>1. LidarTypeOK
  <2>1. local \in [sync : BOOLEAN, gap : BOOLEAN, lost : BOOLEAN]
    BY DEF LidarInit, Unsynced
  <2>2. /\ timeouts \in 0..(TimeoutCount + 1)
        /\ grabs \in 0..MaxGrabs /\ session \in 0..MaxSession
    BY LidarAssumption DEF LidarInit
  <2> QED
    BY <2>1, <2>2 DEF LidarInit, LidarTypeOK, ReaderPlace, MainPlace
<1>2. MainTypes /\ CommandReady /\ ReaderState /\ NoGap /\ BufferFresh /\ TransfersApart
  BY LidarAssumption DEF LidarInit, MainTypes, CommandReady, ReaderState, NoGap,
     BufferFresh, TransfersApart, Unsynced
<1> QED
  BY <1>1, <1>2 DEF LidarInv

\* Each step of the two threads and of the lidar keeps the invariant.
LEMMA StepLidarInv == LidarInv /\ [LidarNext]_lidarVars => LidarInv'
<1> SUFFICES ASSUME LidarInv, [LidarNext]_lidarVars PROVE LidarInv'
  OBVIOUS
<1> USE LidarAssumption
<1> USE DEF LidarInv, LidarTypeOK, MainTypes, CommandReady, ReaderState, NoGap,
            BufferFresh, TransfersApart, ReaderPlace, MainPlace
<1> USE DEF mainVars, readerVars, counters, mainOthers, readerOthers, Unsynced
<1>1. CASE Join
  <2>1. LidarTypeOK'
    BY <1>1 DEF Join
  <2>2. (MainTypes /\ CommandReady /\ ReaderState)'
    BY <1>1 DEF Join
  <2>3. (NoGap /\ BufferFresh /\ TransfersApart)'
    BY <1>1 DEF Join
  <2> QED
    BY <2>1, <2>2, <2>3
<1>2. CASE StopScan
  <2>1. LidarTypeOK'
    BY <1>2 DEF StopScan
  <2>2. (MainTypes /\ CommandReady /\ ReaderState)'
    BY <1>2 DEF StopScan
  <2>3. (NoGap /\ BufferFresh /\ TransfersApart)'
    BY <1>2 DEF StopScan
  <2> QED
    BY <2>1, <2>2, <2>3
<1>3. CASE TurnOn
  <2>1. LidarTypeOK'
    BY <1>3 DEF TurnOn, Disable, Failed
  <2>2. (MainTypes /\ CommandReady /\ ReaderState)'
    BY <1>3 DEF TurnOn, Disable, Failed
  <2>3. (NoGap /\ BufferFresh /\ TransfersApart)'
    BY <1>3 DEF TurnOn, Disable, Failed
  <2> QED
    BY <2>1, <2>2, <2>3
<1>4. CASE StartScan
  <2>1. LidarTypeOK'
    BY <1>4 DEF StartScan
  <2>2. (MainTypes /\ CommandReady /\ ReaderState)'
    BY <1>4 DEF StartScan
  <2>3. (NoGap /\ BufferFresh /\ TransfersApart)'
    BY <1>4 DEF StartScan
  <2> QED
    BY <2>1, <2>2, <2>3
<1>5. CASE StartScanFails
  <2>1. LidarTypeOK'
    BY <1>5 DEF StartScanFails, Disable, Failed
  <2>2. (MainTypes /\ CommandReady /\ ReaderState)'
    BY <1>5 DEF StartScanFails, Disable, Failed
  <2>3. (NoGap /\ BufferFresh /\ TransfersApart)'
    BY <1>5 DEF StartScanFails, Disable, Failed
  <2> QED
    BY <2>1, <2>2, <2>3
<1>6. CASE CheckGrab
  <2>1. LidarTypeOK'
    BY <1>6 DEF CheckGrab
  <2>2. (MainTypes /\ CommandReady /\ ReaderState)'
    BY <1>6 DEF CheckGrab
  <2>3. (NoGap /\ BufferFresh /\ TransfersApart)'
    BY <1>6 DEF CheckGrab
  <2> QED
    BY <2>1, <2>2, <2>3
<1>7. CASE CheckCopy
  <2>1. LidarTypeOK'
    <3>1. ({connected, scanning, autoReconnect, event, up, device} \subseteq BOOLEAN)'
      BY <1>7 DEF CheckCopy, TurnedOn
    <3>2. (buffer \in Revolution \cup {None} /\ scan \in Revolution \cup {None})'
      BY <1>7 DEF CheckCopy, TurnedOn
    <3>3. (reader \in ReaderPlace)'
      BY <1>7 DEF CheckCopy, TurnedOn
    <3>4. (local \in [sync : BOOLEAN, gap : BOOLEAN, lost : BOOLEAN])'
      BY <1>7 DEF CheckCopy, TurnedOn
    <3>5. (timeouts \in 0..(TimeoutCount + 1))'
      BY <1>7 DEF CheckCopy, TurnedOn
    <3>6. (main \in MainPlace)'
      BY <1>7 DEF CheckCopy, TurnedOn
    <3>7. (tries \in {0, 1} /\ grabs \in 0..MaxGrabs)'
      BY <1>7 DEF CheckCopy, TurnedOn
    <3>8. (session \in 0..MaxSession)'
      BY <1>7 DEF CheckCopy, TurnedOn
    <3> QED
      BY <3>1, <3>2, <3>3, <3>4, <3>5, <3>6, <3>7, <3>8
  <2>2. MainTypes'
    BY <1>7 DEF CheckCopy, TurnedOn
  <2>3. CommandReady'
    BY <1>7 DEF CheckCopy, TurnedOn
  <2>4. ReaderState'
    BY <1>7 DEF CheckCopy, TurnedOn
  <2>5. NoGap'
    BY <1>7 DEF CheckCopy, TurnedOn
  <2>6. BufferFresh'
    BY <1>7 DEF CheckCopy, TurnedOn
  <2>7. TransfersApart'
    BY <1>7 DEF CheckCopy, TurnedOn
  <2> QED
    BY <2>1, <2>2, <2>3, <2>4, <2>5, <2>6, <2>7
<1>8. CASE CheckTimeout
  <2>1. LidarTypeOK'
    <3>1. ({connected, scanning, autoReconnect, event, up, device} \subseteq BOOLEAN)'
      BY <1>8 DEF CheckTimeout, Disable, Failed
    <3>2. (buffer \in Revolution \cup {None} /\ scan \in Revolution \cup {None})'
      BY <1>8 DEF CheckTimeout, Disable, Failed
    <3>3. (reader \in ReaderPlace)'
      BY <1>8 DEF CheckTimeout, Disable, Failed
    <3>4. (local \in [sync : BOOLEAN, gap : BOOLEAN, lost : BOOLEAN])'
      BY <1>8 DEF CheckTimeout, Disable, Failed
    <3>5. (timeouts \in 0..(TimeoutCount + 1))'
      BY <1>8 DEF CheckTimeout, Disable, Failed
    <3>6. (main \in MainPlace)'
      BY <1>8 DEF CheckTimeout, Disable, Failed
    <3>7. (tries \in {0, 1} /\ grabs \in 0..MaxGrabs)'
      BY <1>8 DEF CheckTimeout, Disable, Failed
    <3>8. (session \in 0..MaxSession)'
      BY <1>8 DEF CheckTimeout, Disable, Failed
    <3> QED
      BY <3>1, <3>2, <3>3, <3>4, <3>5, <3>6, <3>7, <3>8
  <2>2. MainTypes'
    BY <1>8 DEF CheckTimeout, Disable, Failed
  <2>3. CommandReady'
    BY <1>8 DEF CheckTimeout, Disable, Failed
  <2>4. ReaderState'
    BY <1>8 DEF CheckTimeout, Disable, Failed
  <2>5. NoGap'
    BY <1>8 DEF CheckTimeout, Disable, Failed
  <2>6. BufferFresh'
    BY <1>8 DEF CheckTimeout, Disable, Failed
  <2>7. TransfersApart'
    BY <1>8 DEF CheckTimeout, Disable, Failed
  <2> QED
    BY <2>1, <2>2, <2>3, <2>4, <2>5, <2>6, <2>7
<1>9. CASE Process
  <2>1. LidarTypeOK'
    BY <1>9 DEF Process
  <2>2. (MainTypes /\ CommandReady /\ ReaderState)'
    BY <1>9 DEF Process
  <2>3. (NoGap /\ BufferFresh /\ TransfersApart)'
    BY <1>9 DEF Process
  <2> QED
    BY <2>1, <2>2, <2>3
<1>10. CASE Grab
  <2>1. LidarTypeOK'
    BY <1>10 DEF Grab
  <2>2. (MainTypes /\ CommandReady /\ ReaderState)'
    BY <1>10 DEF Grab
  <2>3. (NoGap /\ BufferFresh /\ TransfersApart)'
    BY <1>10 DEF Grab
  <2> QED
    BY <2>1, <2>2, <2>3
<1>11. CASE GrabTimeout
  <2>1. LidarTypeOK'
    BY <1>11 DEF GrabTimeout
  <2>2. (MainTypes /\ CommandReady /\ ReaderState)'
    BY <1>11 DEF GrabTimeout
  <2>3. (NoGap /\ BufferFresh /\ TransfersApart)'
    BY <1>11 DEF GrabTimeout
  <2> QED
    BY <2>1, <2>2, <2>3
<1>12. CASE Copy
  <2>1. LidarTypeOK'
    BY <1>12 DEF Copy
  <2>2. (MainTypes /\ CommandReady /\ ReaderState)'
    BY <1>12 DEF Copy
  <2>3. (NoGap /\ BufferFresh /\ TransfersApart)'
    BY <1>12 DEF Copy
  <2> QED
    BY <2>1, <2>2, <2>3
<1>13. CASE EndSpin
  <2>1. LidarTypeOK'
    BY <1>13 DEF EndSpin
  <2>2. (MainTypes /\ CommandReady /\ ReaderState)'
    BY <1>13 DEF EndSpin
  <2>3. (NoGap /\ BufferFresh /\ TransfersApart)'
    BY <1>13 DEF EndSpin
  <2> QED
    BY <2>1, <2>2, <2>3
<1>14. CASE Disconnect
  <2>1. LidarTypeOK'
    BY <1>14 DEF Disconnect
  <2>2. (MainTypes /\ CommandReady /\ ReaderState)'
    BY <1>14 DEF Disconnect
  <2>3. (NoGap /\ BufferFresh /\ TransfersApart)'
    BY <1>14 DEF Disconnect
  <2> QED
    BY <2>1, <2>2, <2>3
<1>15. CASE StopService
  <2>1. LidarTypeOK'
    BY <1>15 DEF StopService, Disable
  <2>2. (MainTypes /\ CommandReady /\ ReaderState)'
    BY <1>15 DEF StopService, Disable
  <2>3. (NoGap /\ BufferFresh /\ TransfersApart)'
    BY <1>15 DEF StopService, Disable
  <2> QED
    BY <2>1, <2>2, <2>3
<1>16. CASE StartService
  <2>1. LidarTypeOK'
    BY <1>16 DEF StartService
  <2>2. (MainTypes /\ CommandReady /\ ReaderState)'
    BY <1>16 DEF StartService
  <2>3. (NoGap /\ BufferFresh /\ TransfersApart)'
    BY <1>16 DEF StartService
  <2> QED
    BY <2>1, <2>2, <2>3
<1>17. CASE Shutdown
  <2>1. LidarTypeOK'
    BY <1>17 DEF Shutdown, Disable
  <2>2. (MainTypes /\ CommandReady /\ ReaderState)'
    BY <1>17 DEF Shutdown, Disable
  <2>3. (NoGap /\ BufferFresh /\ TransfersApart)'
    BY <1>17 DEF Shutdown, Disable
  <2> QED
    BY <2>1, <2>2, <2>3
<1>18. CASE Begin
  <2>1. LidarTypeOK'
    BY <1>18 DEF Begin
  <2>2. (MainTypes /\ CommandReady /\ ReaderState)'
    BY <1>18 DEF Begin
  <2>3. (NoGap /\ BufferFresh /\ TransfersApart)'
    BY <1>18 DEF Begin
  <2> QED
    BY <2>1, <2>2, <2>3
<1>19. CASE Loop
  <2>1. LidarTypeOK'
    BY <1>19 DEF Loop, End
  <2>2. (MainTypes /\ CommandReady /\ ReaderState)'
    BY <1>19 DEF Loop, End
  <2>3. (NoGap /\ BufferFresh /\ TransfersApart)'
    BY <1>19 DEF Loop, End
  <2> QED
    BY <2>1, <2>2, <2>3
<1>20. CASE TimeOut
  <2>1. LidarTypeOK'
    BY <1>20 DEF TimeOut
  <2>2. (MainTypes /\ CommandReady /\ ReaderState)'
    BY <1>20 DEF TimeOut
  <2>3. (NoGap /\ BufferFresh /\ TransfersApart)'
    BY <1>20 DEF TimeOut
  <2> QED
    BY <2>1, <2>2, <2>3
<1>21. CASE GiveUp
  <2>1. LidarTypeOK'
    BY <1>21 DEF GiveUp, End
  <2>2. (MainTypes /\ CommandReady /\ ReaderState)'
    BY <1>21 DEF GiveUp, End
  <2>3. (NoGap /\ BufferFresh /\ TransfersApart)'
    BY <1>21 DEF GiveUp, End
  <2> QED
    BY <2>1, <2>2, <2>3
<1>22. CASE Reconnect
  <2>1. LidarTypeOK'
    BY <1>22 DEF Reconnect, End
  <2>2. (MainTypes /\ CommandReady /\ ReaderState)'
    BY <1>22 DEF Reconnect, End
  <2>3. (NoGap /\ BufferFresh /\ TransfersApart)'
    BY <1>22 DEF Reconnect, End
  <2> QED
    BY <2>1, <2>2, <2>3
<1>23. CASE Connect
  <2>1. LidarTypeOK'
    BY <1>23 DEF Connect
  <2>2. (MainTypes /\ CommandReady /\ ReaderState)'
    BY <1>23 DEF Connect
  <2>3. (NoGap /\ BufferFresh /\ TransfersApart)'
    BY <1>23 DEF Connect
  <2> QED
    BY <2>1, <2>2, <2>3
<1>24. CASE ConnectOrStop
  <2>1. LidarTypeOK'
    BY <1>24 DEF ConnectOrStop, End
  <2>2. (MainTypes /\ CommandReady /\ ReaderState)'
    BY <1>24 DEF ConnectOrStop, End
  <2>3. (NoGap /\ BufferFresh /\ TransfersApart)'
    BY <1>24 DEF ConnectOrStop, End
  <2> QED
    BY <2>1, <2>2, <2>3
<1>25. CASE Restart
  <2>9. Unsynced \in [sync : BOOLEAN, gap : BOOLEAN, lost : BOOLEAN]
    OBVIOUS
  <2>0. /\ local' \in {local, Unsynced}
        /\ timeouts' \in {timeouts, 0}
    <3>1. CASE ~scanning
      BY <1>25, <3>1 DEF Restart
    <3>2. CASE scanning /\ ~device
      BY <1>25, <3>2 DEF Restart
    <3>3. CASE scanning /\ device
      BY <1>25, <3>3 DEF Restart
    <3> QED
      BY <3>1, <3>2, <3>3
  <2>1. LidarTypeOK'
    <3>1. ({connected, scanning, autoReconnect, event, up, device} \subseteq BOOLEAN)'
      BY <1>25 DEF Restart, End
    <3>2. (buffer \in Revolution \cup {None} /\ scan \in Revolution \cup {None})'
      BY <1>25 DEF Restart, End
    <3>3. (reader \in ReaderPlace)'
      BY <1>25 DEF Restart, End
    <3>4. (local \in [sync : BOOLEAN, gap : BOOLEAN, lost : BOOLEAN])'
      BY <2>0, <2>9
    <3>5. (timeouts \in 0..(TimeoutCount + 1))'
      BY <2>0, <2>9
    <3>6. (main \in MainPlace)'
      BY <1>25 DEF Restart, End
    <3>7. (tries \in {0, 1} /\ grabs \in 0..MaxGrabs)'
      BY <1>25 DEF Restart, End
    <3>8. (session \in 0..MaxSession)'
      BY <1>25 DEF Restart, End
    <3> QED
      BY <3>1, <3>2, <3>3, <3>4, <3>5, <3>6, <3>7, <3>8
  <2>2. MainTypes'
    BY <1>25 DEF Restart, End
  <2>3. CommandReady'
    BY <1>25 DEF Restart, End
  <2>4. ReaderState'
    BY <1>25 DEF Restart, End
  <2>5. NoGap'
    BY <2>0, <1>25 DEF Restart, End
  <2>6. BufferFresh'
    BY <1>25 DEF Restart, End
  <2>7. TransfersApart'
    BY <1>25 DEF Restart, End
  <2> QED
    BY <2>1, <2>2, <2>3, <2>4, <2>5, <2>6, <2>7
<1>26. CASE GetPoints
  <2>1. LidarTypeOK'
    BY <1>26 DEF GetPoints
  <2>2. (MainTypes /\ CommandReady /\ ReaderState)'
    BY <1>26 DEF GetPoints
  <2>3. (NoGap /\ BufferFresh /\ TransfersApart)'
    BY <1>26 DEF GetPoints
  <2> QED
    BY <2>1, <2>2, <2>3
<1>27. CASE GetSync
  <2>1. LidarTypeOK'
    <3>1. ({connected, scanning, autoReconnect, event, up, device} \subseteq BOOLEAN)'
      BY <1>27 DEF GetSync, Revolution
    <3>2. (buffer \in Revolution \cup {None} /\ scan \in Revolution \cup {None})'
      BY <1>27 DEF GetSync, Revolution
    <3>3. (reader \in ReaderPlace)'
      BY <1>27 DEF GetSync, Revolution
    <3>4. (local \in [sync : BOOLEAN, gap : BOOLEAN, lost : BOOLEAN])'
      BY <1>27 DEF GetSync, Revolution
    <3>5. (timeouts \in 0..(TimeoutCount + 1))'
      BY <1>27 DEF GetSync, Revolution
    <3>6. (main \in MainPlace)'
      BY <1>27 DEF GetSync, Revolution
    <3>7. (tries \in {0, 1} /\ grabs \in 0..MaxGrabs)'
      BY <1>27 DEF GetSync, Revolution
    <3>8. (session \in 0..MaxSession)'
      BY <1>27 DEF GetSync, Revolution
    <3> QED
      BY <3>1, <3>2, <3>3, <3>4, <3>5, <3>6, <3>7, <3>8
  <2>2. MainTypes'
    BY <1>27 DEF GetSync, Revolution
  <2>3. CommandReady'
    BY <1>27 DEF GetSync, Revolution
  <2>4. ReaderState'
    BY <1>27 DEF GetSync, Revolution
  <2>5. NoGap'
    BY <1>27 DEF GetSync, Revolution
  <2>6. BufferFresh'
    BY <1>27 DEF GetSync, Revolution
  <2>7. TransfersApart'
    BY <1>27 DEF GetSync, Revolution
  <2> QED
    BY <2>1, <2>2, <2>3, <2>4, <2>5, <2>6, <2>7
<1>28. CASE FallSilent
  <2>1. LidarTypeOK'
    <3>1. ({connected, scanning, autoReconnect, event, up, device} \subseteq BOOLEAN)'
      BY <1>28 DEF FallSilent
    <3>2. (buffer \in Revolution \cup {None} /\ scan \in Revolution \cup {None})'
      BY <1>28 DEF FallSilent
    <3>3. (reader \in ReaderPlace)'
      BY <1>28 DEF FallSilent
    <3>4. (local \in [sync : BOOLEAN, gap : BOOLEAN, lost : BOOLEAN])'
      BY <1>28 DEF FallSilent
    <3>5. (timeouts \in 0..(TimeoutCount + 1))'
      BY <1>28 DEF FallSilent
    <3>6. (main \in MainPlace)'
      BY <1>28 DEF FallSilent
    <3>7. (tries \in {0, 1} /\ grabs \in 0..MaxGrabs)'
      BY <1>28 DEF FallSilent
    <3>8. (session \in 0..MaxSession)'
      BY <1>28 DEF FallSilent
    <3> QED
      BY <3>1, <3>2, <3>3, <3>4, <3>5, <3>6, <3>7, <3>8
  <2>2. MainTypes'
    BY <1>28 DEF FallSilent
  <2>3. CommandReady'
    BY <1>28 DEF FallSilent
  <2>4. ReaderState'
    BY <1>28 DEF FallSilent
  <2>5. NoGap'
    BY <1>28 DEF FallSilent
  <2>6. BufferFresh'
    BY <1>28 DEF FallSilent
  <2>7. TransfersApart'
    BY <1>28 DEF FallSilent
  <2> QED
    BY <2>1, <2>2, <2>3, <2>4, <2>5, <2>6, <2>7
<1>29. CASE Answer
  <2>1. LidarTypeOK'
    BY <1>29 DEF Answer
  <2>2. (MainTypes /\ CommandReady /\ ReaderState)'
    BY <1>29 DEF Answer
  <2>3. (NoGap /\ BufferFresh /\ TransfersApart)'
    BY <1>29 DEF Answer
  <2> QED
    BY <2>1, <2>2, <2>3
<1>31. CASE StartMotor
  <2>1. LidarTypeOK'
    BY <1>31 DEF StartMotor
  <2>2. (MainTypes /\ CommandReady /\ ReaderState)'
    BY <1>31 DEF StartMotor
  <2>3. (NoGap /\ BufferFresh /\ TransfersApart)'
    BY <1>31 DEF StartMotor
  <2> QED
    BY <2>1, <2>2, <2>3
<1>32. CASE EndStartScan
  <2>1. LidarTypeOK'
    BY <1>32 DEF EndStartScan
  <2>2. (MainTypes /\ CommandReady /\ ReaderState)'
    BY <1>32 DEF EndStartScan
  <2>3. (NoGap /\ BufferFresh /\ TransfersApart)'
    BY <1>32 DEF EndStartScan
  <2> QED
    BY <2>1, <2>2, <2>3
<1>30. CASE UNCHANGED lidarVars
  BY <1>30 DEF lidarVars
<1> QED
  BY <1>1, <1>2, <1>3, <1>4, <1>5, <1>6, <1>7, <1>8, <1>9, <1>10, <1>11, <1>12, <1>13,
     <1>14, <1>15, <1>16, <1>17, <1>18, <1>19, <1>20, <1>21, <1>22, <1>23, <1>24, <1>25,
     <1>26, <1>27, <1>28, <1>29, <1>30, <1>31, <1>32 DEF LidarNext, Main, Reader

LEMMA LidarInvariant == LidarSpec => []LidarInv
BY InitLidarInv, StepLidarInv, PTL DEF LidarSpec

-----------------------------------------------------------------------------
\* The two threads' variables keep their types; the timeouts are never counted
\* past the limit, and turnOn never grabs more often than it says
\* (YDlidarDriver.cpp:623-663, CYdLidar.cpp:1113-1187).
THEOREM LidarTypeCorrect == LidarSpec => []LidarTypeOK
<1>1. LidarInv => LidarTypeOK
  BY DEF LidarInv
<1> QED
  BY LidarInvariant, <1>1, PTL

\* The main thread sends, receives, opens or closes only when the reader thread
\* has ended, whatever services are called and however often the reader
\* reconnects, for every limit (YDlidarDriver.cpp:203-216, 1862-1866, 1998-2001).
THEOREM TransfersStayApart == LidarSpec => []TransfersApart
<1>1. LidarInv => TransfersApart
  BY DEF LidarInv
<1> QED
  BY LidarInvariant, <1>1, PTL

\* With auto_reconnect the reader ends only when it is told to: isAutoReconnect is
\* set until the port is closed for good, and a thread just created either has
\* not begun or goes on scanning while startMotor waits.
ReaderGoesOn ==
  AutoReconnect =>
    /\ autoReconnect \/ main = "off"
    /\ scanning => reader \notin {"none", "ended"}
    /\ main \in {"motor", "dtr"} =>
         reader = "created" \/ (scanning /\ reader \notin {"none", "ended"})

LEMMA StepReaderGoesOn ==
  LidarInv /\ ReaderGoesOn /\ [LidarNext]_lidarVars => ReaderGoesOn'
<1> SUFFICES ASSUME LidarInv, ReaderGoesOn, [LidarNext]_lidarVars, AutoReconnect
             PROVE  ReaderGoesOn'
  BY DEF ReaderGoesOn
<1> USE DEF ReaderGoesOn, mainVars, readerVars, counters, mainOthers, readerOthers
<1>1. CASE Join \/ StopScan
  BY <1>1 DEF Join, StopScan, LidarInv, ReaderState, MainTypes
<1>2. CASE TurnOn \/ StartScan \/ StartMotor \/ EndStartScan \/ StartScanFails
  BY <1>2 DEF TurnOn, StartScan, StartMotor, EndStartScan, StartScanFails, Disable, Failed
<1>3. CASE CheckGrab \/ CheckCopy \/ CheckTimeout
  BY <1>3 DEF CheckGrab, CheckCopy, CheckTimeout, TurnedOn, Disable, Failed
<1>4. CASE Process \/ Grab \/ GrabTimeout \/ Copy
  BY <1>4 DEF Process, Grab, GrabTimeout, Copy
<1>5. CASE EndSpin \/ StopService \/ StartService \/ Shutdown
  BY <1>5 DEF EndSpin, StopService, StartService, Shutdown, Disable
<1>6. CASE Disconnect
  BY <1>6 DEF Disconnect, LidarInv, TransfersApart
<1>7. CASE Begin \/ Loop \/ GetPoints \/ GetSync \/ TimeOut
  BY <1>7 DEF Begin, Loop, GetPoints, GetSync, TimeOut, End
<1>8. CASE GiveUp \/ Reconnect
  BY <1>8 DEF GiveUp, Reconnect, End, LidarInv, TransfersApart
<1>9. CASE Connect \/ ConnectOrStop \/ Restart
  BY <1>9 DEF Connect, ConnectOrStop, Restart, End
<1>10. CASE FallSilent \/ Answer \/ UNCHANGED lidarVars
  BY <1>10 DEF FallSilent, Answer, lidarVars
<1> QED
  BY <1>1, <1>2, <1>3, <1>4, <1>5, <1>6, <1>7, <1>8, <1>9, <1>10
     DEF LidarNext, Main, Reader

\* With auto_reconnect m_isScanning never outlives the thread that reads, however
\* long startMotor takes and whatever the port does meanwhile
\* (YDlidarDriver.cpp:618-641, 1904-1910).
THEOREM ReaderScans == LidarSpec => []ScanningHasReader
<1>1. LidarInit => ReaderGoesOn
  BY DEF LidarInit, ReaderGoesOn
<1>2. ReaderGoesOn => ScanningHasReader
  BY DEF ReaderGoesOn, ScanningHasReader
<1> QED
  BY LidarInvariant, StepReaderGoesOn, <1>1, <1>2, PTL DEF LidarSpec

\* The result of doProcessSimple is only set by its copy of the buffer.
LEMMA ScanChanges == [LidarNext]_lidarVars => Copy \/ scan' \in {scan, None}
BY DEF LidarNext, Main, Reader, Join, StopScan, TurnOn, StartScan, StartMotor,
   EndStartScan, StartScanFails, CheckGrab, CheckCopy, CheckTimeout, Process, Grab, GrabTimeout, Copy, EndSpin,
   Disconnect, StopService, StartService, Shutdown, Begin, Loop, TimeOut, GiveUp,
   Reconnect, Connect, ConnectOrStop, Restart, GetPoints, GetSync, FallSilent, Answer,
   mainOthers, readerOthers, Disable, Failed, TurnedOn, End, mainVars, readerVars,
   counters, lidarVars

LEMMA StepScan ==
  LidarInv /\ [LidarNext]_lidarVars =>
    (scan' # scan /\ scan' # None => scan'.session = session /\ ~scan'.gap)
<1> SUFFICES ASSUME LidarInv, Copy, scan' # None
             PROVE  scan'.session = session /\ ~scan'.gap
  BY ScanChanges
<1> QED
  BY DEF LidarInv, Copy, BufferFresh, NoGap

\* Every scan the node publishes is of the present session, and no wait within it
\* timed out: checks at the start empty the buffer, and a timeout spoils the
\* revolution under way
\* (YDlidarDriver.cpp:606-714, CYdLidar.cpp:1113-1117).
THEOREM FreshScans == LidarSpec => ScansAreFresh
BY LidarInvariant, StepScan, PTL DEF LidarSpec, ScansAreFresh

-----------------------------------------------------------------------------
(* The filter: the invariant                                               *)

\* No measurement has a stamp its topic has not reached, so a new one is new.
Stamped == \A m \in accepted : m.time <= lastStamp[m.topic]

\* Also what could be gone back to is from after the pose.
AfterPose ==
  \A k \in 1..Len(states) : \A i \in 1..Len(states[k].est) :
    states[k].est[i].time > setPose

\* Without smoothing nothing is saved.
Plain == smooth \/ (states = <<>> /\ history = <<>>)

\* The filter's time and those it can go back to are not in the future.
Clock ==
  /\ lastTime <= now
  /\ \A k \in 1..Len(states) : states[k].time <= now

\* The rest holds as long as the history was never too short.
Regular == smooth /\ ~short

Past == Regular => \A i \in 1..Len(est) : est[i].time <= lastTime

\* integrateMeasurements has gone back far enough.
Ahead ==
  Regular /\ phase = "integrate" =>
    \A m \in BagToSet(measurements) : m.time >= lastTime

\* What was fused and has expired.
Forgotten == Len(est) - Len(history)

\* The history is the end of what was fused ...
HistoryIsEnd ==
  Regular =>
    /\ Len(history) <= Len(est)
    /\ \A i \in 1..Len(history) : history[i] = est[Forgotten + i]

\* ... and a saved state a beginning of it that reaches into the history; its
\* time is that of the last measurement in it.
StatesAreBeginnings ==
  Regular =>
    /\ \A k \in 1..Len(states) :
         LET n == Len(states[k].est) IN
           /\ Forgotten < n /\ n <= Len(est)
           /\ \A i \in 1..n : states[k].est[i] = est[i]
           /\ states[k].time = est[n].time
    /\ \A j, k \in 1..Len(states) :
         j < k => Len(states[j].est) < Len(states[k].est)

\* There is one wherever time goes on, ...
StepsSaved ==
  Regular =>
    \A i \in (Forgotten + 1)..(Len(est) - 1) :
      est[i].time < est[i + 1].time =>
        \E k \in 1..Len(states) : Len(states[k].est) = i

\* ... and one of the present, unless more of the same time is to be fused.
PresentSaved ==
  Regular /\ Len(history) > 0 =>
    \/ \E k \in 1..Len(states) : Len(states[k].est) = Len(est)
    \/ /\ phase = "integrate"
       /\ \E m \in BagToSet(measurements) : m.time = est[Len(est)].time

FilterInv ==
  /\ FilterTypeOK /\ FusedOnceInOrder /\ NothingBeforePose
  /\ Stamped /\ AfterPose /\ Plain /\ Clock /\ Past /\ Ahead
  /\ HistoryIsEnd /\ StatesAreBeginnings /\ StepsSaved /\ PresentSaved

-----------------------------------------------------------------------------
(* Its history                                                             *)

\* Before finds the last entry older than t.
LEMMA BeforeIsLast ==
  ASSUME NEW T, NEW s \in Seq(T), NEW t
  PROVE  /\ Before(s, t) \in 0..Len(s)
         /\ Before(s, t) > 0 => s[Before(s, t)].time < t
         /\ \A i \in 1..Len(s) : s[i].time < t => i <= Before(s, t)
<1> DEFINE S == {i \in DOMAIN s : s[i].time < t} \cup {0}
<1>1. Len(s) \in Nat /\ DOMAIN s = 1..Len(s)
  BY LenProperties
<1>2. S \in SUBSET (0..Len(s)) /\ S # {}
  BY <1>1
<1>3. Max(S) \in S /\ \A k \in S : Max(S) >= k
  BY <1>1, <1>2, LargestUpTo
<1>4. Before(s, t) = Max(S)
  BY DEF Before
<1>5. \A i \in 1..Len(s) : s[i].time < t => i \in S
  BY <1>1
<1>6. \A i \in S : i > 0 => s[i].time < t
  OBVIOUS
<1> HIDE DEF S
<1> QED
  BY <1>1, <1>2, <1>3, <1>4, <1>5, <1>6

\* clearExpiredHistory drops what is older than the cutoff, up to the first
\* entry that is not.
LEMMA UnexpiredIsEnd ==
  ASSUME NEW T, NEW s \in Seq(T), NEW cutoff \in Int, cutoff = lastTime - HistoryLength,
         \A i \in 1..Len(s) : s[i].time \in Int
  PROVE  \E c \in 0..Len(s) :
           /\ Unexpired(s) \in Seq(T) /\ Len(Unexpired(s)) = Len(s) - c
           /\ \A i \in 1..(Len(s) - c) : Unexpired(s)[i] = s[c + i]
           /\ \A i \in 1..c : s[i].time < cutoff
           /\ c < Len(s) => s[c + 1].time >= cutoff
<1> DEFINE n == Len(s)
           kept == {i \in DOMAIN s : s[i].time >= cutoff}
           S == kept \cup {n + 1}
           c == Min(S) - 1
<1>1. n \in Nat /\ DOMAIN s = 1..n
  BY LenProperties
<1> HIDE DEF n
<1>2. S \in SUBSET (1..(n + 1)) /\ S # {}
  BY <1>1
<1>3. S \in SUBSET Nat
  BY <1>1, <1>2
<1>4. Min(S) \in S /\ \A k \in S : Min(S) <= k
  BY <1>2, <1>3, MinOf
<1>5. c \in 0..n /\ c + 1 = Min(S)
  BY <1>1, <1>2, <1>4
<1>6. ASSUME NEW i \in 1..c PROVE s[i].time < cutoff
  <2>1. i \in 1..n /\ i < Min(S)
    BY <1>1, <1>5
  <2>2. i \notin S
    <3> HIDE DEF S
    <3> QED
      BY <2>1, <1>4, <1>5
  <2> QED
    BY <1>1, <2>1, <2>2 DEF n
<1>7. c < n => s[c + 1].time >= cutoff
  <2>1. Min(S) \in S /\ c + 1 = Min(S)
    BY <1>4, <1>5
  <2>2. c < n => c + 1 # n + 1
    BY <1>5, <1>1
  <2> QED
    BY <2>1, <2>2
<1>8. Unexpired(s) = SubSeq(s, c + 1, n)
  BY <1>5 DEF Unexpired, n
<1> HIDE DEF c
<1>9. /\ SubSeq(s, c + 1, n) \in Seq(T) /\ Len(SubSeq(s, c + 1, n)) = n - c
      /\ \A i \in 1..(n - c) : SubSeq(s, c + 1, n)[i] = s[c + i]
  BY <1>5, EndOf DEF n
<1> QED
  BY <1>5, <1>6, <1>7, <1>8, <1>9 DEF n

-----------------------------------------------------------------------------
(* The queue is a bag                                                      *)

LEMMA BagSum ==
  ASSUME NEW A, NEW B, IsABag(A), IsABag(B)
  PROVE  /\ IsABag(A (+) B)
         /\ DOMAIN (A (+) B) = DOMAIN A \cup DOMAIN B
         /\ \A e \in DOMAIN A : e \notin DOMAIN B => (A (+) B)[e] = A[e]
         /\ \A e \in DOMAIN B : e \notin DOMAIN A => (A (+) B)[e] = B[e]
<1>1. A \in [DOMAIN A -> {n \in Nat : n > 0}] /\ B \in [DOMAIN B -> {n \in Nat : n > 0}]
  BY DEF IsABag
<1>2. \A e \in DOMAIN A : A[e] \in Nat /\ A[e] > 0
  BY <1>1
<1>3. \A e \in DOMAIN B : B[e] \in Nat /\ B[e] > 0
  BY <1>1
<1>4. A (+) B = [e \in DOMAIN A \cup DOMAIN B |->
                   (IF e \in DOMAIN A THEN A[e] ELSE 0)
                   + (IF e \in DOMAIN B THEN B[e] ELSE 0)]
  BY DEF (+)
<1> DEFINE S == A (+) B
<1> HIDE DEF S
<1>5. DOMAIN S = DOMAIN A \cup DOMAIN B
  BY <1>4 DEF S
<1>6. ASSUME NEW e \in DOMAIN S
      PROVE  /\ S[e] \in Nat /\ S[e] > 0
             /\ e \notin DOMAIN B => S[e] = A[e]
             /\ e \notin DOMAIN A => S[e] = B[e]
  <2>1. S[e] = (IF e \in DOMAIN A THEN A[e] ELSE 0) + (IF e \in DOMAIN B THEN B[e] ELSE 0)
    BY <1>4, <1>5 DEF S
  <2> QED
    BY <2>1, <1>2, <1>3, <1>5
<1>7. S = [e \in DOMAIN S |-> S[e]]
  BY <1>4 DEF S
<1>8. S \in [DOMAIN S -> {n \in Nat : n > 0}]
  BY <1>6, <1>7
<1> QED
  BY <1>5, <1>6, <1>8 DEF S, IsABag

LEMMA OneOf ==
  ASSUME NEW x
  PROVE  /\ IsABag(SetToBag({x})) /\ DOMAIN SetToBag({x}) = {x}
         /\ SetToBag({x})[x] = 1
BY DEF IsABag, SetToBag

LEMMA BagLess ==
  ASSUME NEW B, IsABag(B), NEW x \in DOMAIN B
  PROVE  /\ IsABag(B (-) SetToBag({x}))
         /\ DOMAIN (B (-) SetToBag({x})) \subseteq DOMAIN B
         /\ \A e \in DOMAIN B : e # x => /\ e \in DOMAIN (B (-) SetToBag({x}))
                                         /\ (B (-) SetToBag({x}))[e] = B[e]
         /\ B[x] = 1 => x \notin DOMAIN (B (-) SetToBag({x}))
<1> DEFINE D == [e \in DOMAIN B |-> IF e \in DOMAIN SetToBag({x})
                                      THEN B[e] - SetToBag({x})[e] ELSE B[e]]
           S == B (-) SetToBag({x})
<1>1. \A e \in DOMAIN B : B[e] \in Nat /\ B[e] > 0
  BY DEF IsABag
<1>2. S = [e \in {d \in DOMAIN D : D[d] > 0} |-> D[e]]
  BY DEF (-)
<1>3. /\ DOMAIN D = DOMAIN B /\ D[x] = B[x] - 1
      /\ \A e \in DOMAIN B : e # x => D[e] = B[e]
  BY OneOf
<1> HIDE DEF D, S
<1>4. \A e \in DOMAIN B : D[e] \in Nat
  BY <1>1, <1>3
<1>5. DOMAIN S = {d \in DOMAIN B : D[d] > 0} /\ \A e \in DOMAIN S : S[e] = D[e]
  BY <1>2, <1>3
<1>6. S \in [DOMAIN S -> {n \in Nat : n > 0}]
  <2>1. \A e \in DOMAIN S : S[e] \in Nat /\ S[e] > 0
    BY <1>4, <1>5
  <2>2. S = [e \in DOMAIN S |-> S[e]]
    BY <1>2
  <2> QED
    BY <2>1, <2>2
<1>7. \A e \in DOMAIN B : e # x => e \in DOMAIN S /\ S[e] = B[e]
  BY <1>1, <1>3, <1>5
<1>8. B[x] = 1 => x \notin DOMAIN S
  BY <1>3, <1>5
<1> QED
  BY <1>5, <1>6, <1>7, <1>8 DEF S, IsABag

LEMMA BagOfPlaces ==
  ASSUME history \in Seq(Measurement), NEW P \in SUBSET DOMAIN history
  PROVE  /\ IsABag(BagOf(P)) /\ DOMAIN BagOf(P) = {history[i] : i \in P}
         /\ (\A i, j \in P : history[i] = history[j] => i = j) =>
              \A m \in DOMAIN BagOf(P) : BagOf(P)[m] = 1
<1>1. Len(history) \in Nat /\ DOMAIN history = 1..Len(history)
  BY LenProperties
<1>2. IsFiniteSet(DOMAIN history)
  BY <1>1, FS_Interval
<1>3. ASSUME NEW m \in {history[i] : i \in P}
      PROVE  LET Q == {i \in P : history[i] = m}
             IN  /\ IsFiniteSet(Q) /\ Cardinality(Q) \in Nat /\ Cardinality(Q) > 0
                 /\ (\A i, j \in P : history[i] = history[j] => i = j) =>
                      Cardinality(Q) = 1
  <2> DEFINE Q == {i \in P : history[i] = m}
  <2>1. Q \in SUBSET DOMAIN history /\ Q # {}
    OBVIOUS
  <2>2. IsFiniteSet(Q)
    BY <1>2, <2>1, FS_Subset
  <2>3. Cardinality(Q) \in Nat /\ Cardinality(Q) # 0
    BY <2>1, <2>2, FS_CardinalityType, FS_EmptySet
  <2>4. ASSUME \A i, j \in P : history[i] = history[j] => i = j
        PROVE  Cardinality(Q) = 1
    <3>1. PICK i \in Q : TRUE
      BY <2>1
    <3>2. Q = {i}
      BY <2>4, <3>1
    <3> QED
      BY <3>2, FS_Singleton
  <2> QED
    BY <2>2, <2>3, <2>4
<1>4. BagOf(P) = [m \in {history[i] : i \in P} |->
                    Cardinality({i \in P : history[i] = m})]
  BY DEF BagOf
<1>5. \A m \in {history[i] : i \in P} :
        Cardinality({i \in P : history[i] = m}) \in {n \in Nat : n > 0}
  BY <1>3
<1>6. IsABag(BagOf(P)) /\ DOMAIN BagOf(P) = {history[i] : i \in P}
  BY <1>4, <1>5 DEF IsABag
<1>7. (\A i, j \in P : history[i] = history[j] => i = j) =>
        \A m \in DOMAIN BagOf(P) : BagOf(P)[m] = 1
  BY <1>3, <1>4
<1> QED
  BY <1>6, <1>7

-----------------------------------------------------------------------------
(* The shape of the state                                                  *)

LEMMA Numbers ==
  /\ MaxClock \in Nat
  /\ \A m \in Measurement : m.time \in 0..MaxClock /\ m.time \in Nat /\ m.topic \in Topic
  /\ \A s \in Saved : s.time \in 0..MaxClock /\ s.time \in Nat /\ s.est \in Seq(Measurement)
BY FilterAssumption DEF Measurement, Saved

LEMMA Shapes ==
  ASSUME FilterTypeOK
  PROVE  /\ DOMAIN est = 1..Len(est) /\ Len(est) \in Nat
         /\ DOMAIN history = 1..Len(history) /\ Len(history) \in Nat
         /\ DOMAIN states = 1..Len(states) /\ Len(states) \in Nat
         /\ \A i \in 1..Len(est) : est[i] \in Measurement /\ est[i].time \in Nat
         /\ \A i \in 1..Len(history) : history[i] \in Measurement /\ history[i].time \in Nat
         /\ \A k \in 1..Len(states) :
              /\ states[k] \in Saved /\ states[k].time \in Nat
              /\ states[k].est \in Seq(Measurement) /\ Len(states[k].est) \in Nat
         /\ IsABag(measurements)
         /\ \A m \in DOMAIN measurements :
              m \in Measurement /\ m.time \in 0..MaxClock /\ m.time \in Nat
         /\ lastTime \in Nat /\ now \in Nat /\ setPose \in Nat
         /\ history = <<>> <=> Len(history) = 0
         /\ states = <<>> <=> Len(states) = 0
<1>1. est \in Seq(Measurement) /\ history \in Seq(Measurement) /\ states \in Seq(Saved)
  BY DEF FilterTypeOK
<1>2. /\ DOMAIN est = 1..Len(est) /\ Len(est) \in Nat
      /\ DOMAIN history = 1..Len(history) /\ Len(history) \in Nat
      /\ DOMAIN states = 1..Len(states) /\ Len(states) \in Nat
  BY <1>1, LenProperties
<1>3. /\ \A i \in 1..Len(est) : est[i] \in Measurement
      /\ \A i \in 1..Len(history) : history[i] \in Measurement
      /\ \A k \in 1..Len(states) : states[k] \in Saved
  BY <1>1, ElementOfSeq
<1>4. \A k \in 1..Len(states) : states[k].est \in Seq(Measurement)
  BY <1>3, Numbers
<1>5. \A k \in 1..Len(states) : Len(states[k].est) \in Nat
  BY <1>4, LenProperties
<1>6. history = <<>> <=> Len(history) = 0
  BY <1>1, EmptySeq
<1>7. states = <<>> <=> Len(states) = 0
  BY <1>1, EmptySeq
<1>8. \A m \in DOMAIN measurements : m \in Measurement
  BY DEF FilterTypeOK, BagToSet
<1>9. IsABag(measurements) /\ lastTime \in Nat /\ now \in Nat /\ setPose \in Nat
  BY Numbers DEF FilterTypeOK
<1> QED
  BY <1>2, <1>3, <1>4, <1>5, <1>6, <1>7, <1>8, <1>9, Numbers

\* The first of what is queued.
LEMMA FirstTime ==
  ASSUME FilterTypeOK, Times # {}
  PROVE  /\ Min(Times) \in Times /\ Min(Times) \in Nat
         /\ \A m \in DOMAIN measurements : m.time >= Min(Times)
<1>1. Times = {m.time : m \in DOMAIN measurements}
  BY DEF Times, BagToSet
<1>2. Times \in SUBSET Nat
  BY <1>1, Shapes
<1>3. Min(Times) \in Times /\ \A k \in Times : Min(Times) <= k
  BY <1>2, MinOf
<1>4. ASSUME NEW m \in DOMAIN measurements PROVE m.time >= Min(Times)
  <2>1. m.time \in Times
    BY <1>1
  <2> QED
    BY <1>2, <1>3, <2>1
<1> QED
  BY <1>2, <1>3, <1>4

-----------------------------------------------------------------------------
(* The start, and the steps that go back to no state and fuse nothing      *)

LEMMA EmptyBagIsOne == IsABag(EmptyBag) /\ DOMAIN EmptyBag = {}
BY DEF EmptyBag, SetToBag, IsABag

LEMMA NothingYet ==
  /\ <<>> \in Seq(Measurement) /\ <<>> \in Seq(Saved) /\ Len(<<>>) = 0
  /\ ToSet(<<>>) = {} /\ IsInjective(<<>>) /\ DOMAIN <<>> = {}
  /\ BagToSet(EmptyBag) = {}
BY EmptyBagIsOne DEF ToSet, IsInjective, BagToSet

LEMMA InitFilterInv == FilterInit => FilterInv
<1> SUFFICES ASSUME FilterInit PROVE FilterInv
  OBVIOUS
<1>1. FilterTypeOK
  <2>1. IsABag(measurements) /\ BagToSet(measurements) = {}
    BY EmptyBagIsOne, NothingYet DEF FilterInit
  <2>2. lastStamp \in [Topic -> -1..MaxClock]
    <3>1. -1 \in -1..MaxClock
      BY FilterAssumption
    <3> QED
      BY <3>1 DEF FilterInit
  <2>3. 0 \in 0..MaxClock
    BY FilterAssumption
  <2>4. est \in Seq(Measurement) /\ history \in Seq(Measurement) /\ states \in Seq(Saved)
    BY NothingYet DEF FilterInit
  <2>5. {now, setPose, lastTime} \subseteq 0..MaxClock
    BY <2>3 DEF FilterInit
  <2>6. {smooth, enabled, on, initialized, short} \subseteq BOOLEAN
    BY FilterAssumption DEF FilterInit
  <2> QED
    BY <2>1, <2>2, <2>4, <2>5, <2>6 DEF FilterInit, FilterTypeOK
<1>2. est = <<>> /\ history = <<>> /\ states = <<>> /\ measurements = EmptyBag /\ accepted = {}
  BY DEF FilterInit
<1>3. FusedOnceInOrder
  BY <1>2, NothingYet DEF FusedOnceInOrder
<1>4. NothingBeforePose
  BY <1>2, NothingYet DEF NothingBeforePose
<1>5. Stamped /\ AfterPose /\ Plain
  BY <1>2, NothingYet DEF Stamped, AfterPose, Plain
<1>6. Clock /\ Past /\ Ahead
  BY <1>2, NothingYet DEF FilterInit, Clock, Past, Ahead
<1>7. HistoryIsEnd /\ StatesAreBeginnings /\ StepsSaved /\ PresentSaved
  BY <1>2, NothingYet
  DEF HistoryIsEnd, StatesAreBeginnings, StepsSaved, PresentSaved, Forgotten
<1> QED
  BY <1>1, <1>3, <1>4, <1>5, <1>6, <1>7 DEF FilterInv

\* What does not touch the filter or its queue.
LEMMA Elsewhere ==
  ASSUME FilterInv, UNCHANGED <<smooth, input, measurements, filter, states, history, phase,
                                short>>,
         now' \in 0..MaxClock, now' >= now, enabled' \in BOOLEAN, on' \in BOOLEAN
  PROVE  FilterInv'
<1> USE DEF FilterInv, input, filter
<1>1. FilterTypeOK'
  BY DEF FilterTypeOK
<1>2. FusedOnceInOrder' /\ NothingBeforePose' /\ Stamped' /\ AfterPose' /\ Plain'
  BY DEF FusedOnceInOrder, NothingBeforePose, Stamped, AfterPose, Plain
<1>3. Clock'
  BY Shapes, Numbers DEF Clock
<1>4. Past' /\ Ahead'
  BY DEF Past, Ahead, Regular
<1>5. HistoryIsEnd' /\ StatesAreBeginnings' /\ StepsSaved' /\ PresentSaved'
  BY DEF HistoryIsEnd, StatesAreBeginnings, StepsSaved, PresentSaved, Forgotten, Regular
<1> QED
  BY <1>1, <1>2, <1>3, <1>4, <1>5

\* A measurement is new, as its topic has reached no such stamp before.
LEMMA StepReceive ==
  ASSUME FilterInv, NEW topic \in Topic, NEW stamp \in 1..MaxClock, Receive(topic, stamp)
  PROVE  FilterInv'
<1> DEFINE m == [topic |-> topic, time |-> stamp]
<1> USE DEF FilterInv
<1>0. /\ phase = "idle" /\ stamp > setPose /\ lastStamp[topic] < stamp
      /\ measurements' = measurements (+) SetToBag({m})
      /\ accepted' = accepted \cup {m}
      /\ lastStamp' = [lastStamp EXCEPT ![topic] = stamp]
      /\ UNCHANGED <<smooth, enabled, on, now, setPose, poses, est, initialized, lastTime,
                     states, history, phase, short>>
  BY DEF Receive, config, filter
<1>1. m \in Measurement /\ m.time = stamp /\ m.topic = topic /\ stamp \in Nat
  BY Numbers DEF Measurement
<1> HIDE DEF m
<1>2. /\ IsABag(measurements') /\ DOMAIN measurements' = DOMAIN measurements \cup {m}
      /\ \A e \in DOMAIN measurements : e # m => measurements'[e] = measurements[e]
      /\ m \notin DOMAIN measurements => measurements'[m] = 1
  <2> DEFINE B == SetToBag({m})
  <2>1. IsABag(B) /\ DOMAIN B = {m} /\ B[m] = 1
    BY OneOf
  <2>2. IsABag(measurements) /\ measurements' = measurements (+) B
    BY <1>0, Shapes
  <2> HIDE DEF B
  <2>3. /\ IsABag(measurements (+) B)
        /\ DOMAIN (measurements (+) B) = DOMAIN measurements \cup DOMAIN B
        /\ \A e \in DOMAIN measurements :
             e \notin DOMAIN B => (measurements (+) B)[e] = measurements[e]
        /\ \A e \in DOMAIN B : e \notin DOMAIN measurements => (measurements (+) B)[e] = B[e]
    BY ONLY <2>1, <2>2, BagSum
  <2> QED
    BY <2>1, <2>2, <2>3
<1>3. m \notin accepted
  <2>1. lastStamp[topic] \in Int
    BY FilterAssumption DEF FilterTypeOK
  <2> QED
    BY <1>0, <1>1, <2>1 DEF Stamped
<1>4. FilterTypeOK'
  <2>1. lastStamp' \in [Topic -> -1..MaxClock]
    <3>1. stamp \in -1..MaxClock
      BY Numbers
    <3> QED
      BY <1>0, <3>1 DEF FilterTypeOK
  <2>2. BagToSet(measurements)' \subseteq Measurement
    BY <1>1, <1>2 DEF FilterTypeOK, BagToSet
  <2>3. accepted' \subseteq Measurement
    BY <1>0, <1>1 DEF FilterTypeOK
  <2> QED
    BY <1>0, <1>2, <2>1, <2>2, <2>3 DEF FilterTypeOK
<1>5. FusedOnceInOrder'
  <2> SUFFICES ASSUME ~(smooth /\ short) PROVE FusedOnceInOrder'
    BY <1>0 DEF FusedOnceInOrder
  <2>1. /\ IsInjective(est) /\ ToSet(est) = accepted \ DOMAIN measurements
        /\ DOMAIN measurements \subseteq accepted
        /\ \A e \in DOMAIN measurements : measurements[e] = 1
        /\ smooth => \A i, j \in DOMAIN est : i < j => est[i].time <= est[j].time
    BY DEF FusedOnceInOrder, BagToSet
  <2>2. ToSet(est) = accepted' \ DOMAIN measurements'
    BY <1>0, <1>2, <1>3, <2>1
  <2>3. \A e \in DOMAIN measurements' : measurements'[e] = 1
    BY <1>2, <1>3, <2>1
  <2>4. DOMAIN measurements' \subseteq accepted'
    BY <1>0, <1>2, <2>1
  <2> QED
    BY <1>0, <2>1, <2>2, <2>3, <2>4 DEF FusedOnceInOrder, BagToSet
<1>6. NothingBeforePose'
  <2>1. \A e \in DOMAIN measurements : e.time > setPose
    BY DEF NothingBeforePose, BagToSet
  <2>2. \A e \in DOMAIN measurements' : e.time > setPose'
    BY <1>0, <1>1, <1>2, <2>1
  <2>3. \A e \in (ToSet(est) \cup ToSet(history))' : e.time > setPose'
    BY <1>0 DEF NothingBeforePose
  <2> QED
    BY <2>2, <2>3 DEF NothingBeforePose, BagToSet
<1>7. Stamped'
  <2> SUFFICES ASSUME NEW e \in accepted' PROVE e.time <= lastStamp'[e.topic]
    BY DEF Stamped
  <2>1. lastStamp \in [Topic -> -1..MaxClock]
    BY DEF FilterTypeOK
  <2>2. e \in Measurement /\ e.time \in Nat /\ e.topic \in Topic
    BY <1>4, Numbers DEF FilterTypeOK
  <2>3. /\ lastStamp'[topic] = stamp
        /\ e.topic # topic => lastStamp'[e.topic] = lastStamp[e.topic]
    BY <1>0, <2>1, <2>2
  <2>4. lastStamp[topic] \in Int /\ lastStamp[e.topic] \in Int
    BY <2>1, <2>2, FilterAssumption
  <2>5. CASE e = m
    BY <1>1, <2>3, <2>5
  <2>6. CASE e \in accepted
    <3>1. e.time <= lastStamp[e.topic]
      BY <2>6 DEF Stamped
    <3> QED
      BY <1>0, <1>1, <2>2, <2>3, <2>4, <3>1
  <2> QED
    BY <1>0, <2>5, <2>6
<1>8. AfterPose' /\ Plain' /\ Clock' /\ Past'
  BY <1>0 DEF AfterPose, Plain, Clock, Past, Regular
<1>9. Ahead'
  BY <1>0 DEF Ahead
<1>10. HistoryIsEnd' /\ StatesAreBeginnings' /\ StepsSaved'
  BY <1>0 DEF HistoryIsEnd, StatesAreBeginnings, StepsSaved, Forgotten, Regular
<1>11. PresentSaved'
  BY <1>0 DEF PresentSaved, Regular
<1> QED
  BY <1>4, <1>5, <1>6, <1>7, <1>8, <1>9, <1>10, <1>11

\* Setting the pose begins anew.
LEMMA StepSetPose ==
  ASSUME FilterInv, NEW stamp \in 0..MaxClock, SetPose(stamp)
  PROVE  FilterInv'
<1>0. /\ est' = <<>> /\ history' = <<>> /\ states' = <<>> /\ measurements' = EmptyBag
      /\ accepted' = {} /\ setPose' = stamp /\ lastTime' = now /\ phase' = "idle"
      /\ short' = FALSE
      /\ UNCHANGED <<smooth, enabled, on, now, lastStamp, initialized>>
  BY DEF SetPose, config
<1>1. FilterTypeOK'
  <2>1. IsABag(measurements)' /\ BagToSet(measurements)' = {}
    BY <1>0, EmptyBagIsOne, NothingYet
  <2>2. est' \in Seq(Measurement) /\ history' \in Seq(Measurement) /\ states' \in Seq(Saved)
    BY <1>0, NothingYet
  <2> QED
    BY <1>0, <2>1, <2>2 DEF FilterInv, FilterTypeOK
<1>2. FusedOnceInOrder'
  BY <1>0, NothingYet DEF FusedOnceInOrder
<1>3. NothingBeforePose'
  BY <1>0, NothingYet DEF NothingBeforePose
<1>4. Stamped' /\ AfterPose' /\ Plain'
  BY <1>0, NothingYet DEF Stamped, AfterPose, Plain
<1>5. Clock' /\ Past' /\ Ahead'
  <2>1. now \in Nat
    BY Shapes DEF FilterInv
  <2> QED
    BY <1>0, <2>1, NothingYet DEF Clock, Past, Ahead
<1>6. HistoryIsEnd' /\ StatesAreBeginnings' /\ StepsSaved' /\ PresentSaved'
  BY <1>0, NothingYet
  DEF HistoryIsEnd, StatesAreBeginnings, StepsSaved, PresentSaved, Forgotten
<1> QED
  BY <1>1, <1>2, <1>3, <1>4, <1>5, <1>6 DEF FilterInv

\* What is still queued lies in the future, so the present is saved.
LEMMA StepEndIntegrate ==
  ASSUME FilterInv, EndIntegrate
  PROVE  FilterInv'
<1> USE DEF FilterInv
<1>0. /\ phase = "integrate" /\ phase' = "finish" /\ \A t \in Times : t > now
      /\ UNCHANGED <<smooth, enabled, on, now, lastStamp, setPose, accepted, poses,
                     measurements, est, initialized, lastTime, states, history, short>>
  BY DEF EndIntegrate, config, input, filter
<1>1. FilterTypeOK'
  BY <1>0 DEF FilterTypeOK
<1>2. /\ FusedOnceInOrder' /\ NothingBeforePose' /\ Stamped' /\ AfterPose' /\ Plain'
      /\ Clock' /\ Past'
  BY <1>0
  DEF FusedOnceInOrder, NothingBeforePose, Stamped, AfterPose, Plain, Clock, Past, Regular
<1>3. Ahead'
  BY <1>0 DEF Ahead
<1>4. HistoryIsEnd' /\ StatesAreBeginnings' /\ StepsSaved'
  BY <1>0 DEF HistoryIsEnd, StatesAreBeginnings, StepsSaved, Forgotten, Regular
<1>5. PresentSaved'
  <2> SUFFICES ASSUME Regular, Len(history) > 0
               PROVE  \E k \in 1..Len(states) : Len(states[k].est) = Len(est)
    BY <1>0 DEF PresentSaved, Regular
  <2>1. ASSUME NEW m \in DOMAIN measurements, m.time = est[Len(est)].time
        PROVE  FALSE
    <3>1. m.time > now
      BY <1>0 DEF Times, BagToSet
    <3>2. Len(est) \in 1..Len(est)
      BY Shapes DEF HistoryIsEnd
    <3>3. est[Len(est)].time <= lastTime /\ lastTime <= now
      BY <3>2 DEF Past, Clock
    <3>4. est[Len(est)].time \in Nat /\ lastTime \in Nat /\ now \in Nat
      BY <3>2, Shapes
    <3> QED
      BY <2>1, <3>1, <3>3, <3>4
  <2> QED
    BY <2>1 DEF PresentSaved, BagToSet
<1> QED
  BY <1>1, <1>2, <1>3, <1>4, <1>5

\* Predicting and throwing away.
LEMMA StepForward ==
  ASSUME FilterInv, Coast \/ Discard
  PROVE  FilterInv'
<1> USE DEF FilterInv
<1>0. /\ phase = "idle" /\ phase' = "finish" /\ lastTime' \in {lastTime, now}
      /\ UNCHANGED <<smooth, enabled, on, now, lastStamp, setPose, poses, est, initialized,
                     states, history, short>>
      /\ \/ UNCHANGED <<measurements, accepted>>
         \/ measurements' = EmptyBag /\ accepted' = accepted \ DOMAIN measurements
  BY DEF Coast, Discard, config, input, filter, BagToSet
<1>1. lastTime \in Nat /\ now \in Nat /\ lastTime <= now
  BY Shapes DEF Clock
<1>2. IsABag(measurements') /\ DOMAIN measurements' \subseteq DOMAIN measurements
  BY <1>0, EmptyBagIsOne, Shapes
<1>3. FilterTypeOK'
  BY <1>0, <1>2 DEF FilterTypeOK, BagToSet
<1>4. FusedOnceInOrder'
  <2> SUFFICES ASSUME ~(smooth /\ short) PROVE FusedOnceInOrder'
    BY <1>0 DEF FusedOnceInOrder
  <2>1. /\ ToSet(est) = accepted \ DOMAIN measurements
        /\ DOMAIN measurements \subseteq accepted
        /\ \A e \in DOMAIN measurements : measurements[e] = 1
    BY DEF FusedOnceInOrder, BagToSet
  <2>2. /\ ToSet(est) = accepted' \ DOMAIN measurements'
        /\ DOMAIN measurements' \subseteq accepted'
        /\ \A e \in DOMAIN measurements' : measurements'[e] = 1
    BY <1>0, <2>1, EmptyBagIsOne
  <2> QED
    BY <1>0, <2>2 DEF FusedOnceInOrder, BagToSet
<1>5. NothingBeforePose' /\ Stamped' /\ AfterPose' /\ Plain'
  BY <1>0, <1>2 DEF NothingBeforePose, Stamped, AfterPose, Plain, BagToSet
<1>6. Clock' /\ Ahead'
  BY <1>0, <1>1 DEF Clock, Ahead
<1>7. Past'
  <2> SUFFICES ASSUME Regular, NEW i \in 1..Len(est) PROVE est[i].time <= lastTime'
    BY <1>0 DEF Past, Regular
  <2>1. est[i].time <= lastTime /\ est[i].time \in Nat
    BY Shapes DEF Past
  <2> QED
    BY <1>0, <1>1, <2>1
<1>8. HistoryIsEnd' /\ StatesAreBeginnings' /\ StepsSaved'
  BY <1>0 DEF HistoryIsEnd, StatesAreBeginnings, StepsSaved, Forgotten, Regular
<1>9. PresentSaved'
  BY <1>0 DEF PresentSaved, Regular
<1> QED
  BY <1>3, <1>4, <1>5, <1>6, <1>7, <1>8, <1>9

-----------------------------------------------------------------------------
(* One more measurement is fused                                           *)

LEMMA AppendedSet ==
  ASSUME NEW T, NEW s \in Seq(T), NEW e \in T
  PROVE  ToSet(Append(s, e)) = ToSet(s) \cup {e}
<1>1. /\ Append(s, e) \in Seq(T) /\ Len(Append(s, e)) = Len(s) + 1 /\ Len(s) \in Nat
      /\ \A i \in 1..Len(s) : Append(s, e)[i] = s[i]
      /\ Append(s, e)[Len(s) + 1] = e
  BY Appended
<1>2. DOMAIN s = 1..Len(s) /\ DOMAIN Append(s, e) = 1..(Len(s) + 1)
  BY <1>1, LenProperties
<1>3. 1..(Len(s) + 1) = 1..Len(s) \cup {Len(s) + 1}
  BY <1>1
<1> QED
  BY <1>1, <1>2, <1>3 DEF ToSet

\* It is the first of those queued, so the estimate stays in order; where time goes
\* on, the state is saved.
LEMMA StepProcess ==
  ASSUME FilterInv, ProcessMeasurement
  PROVE  FilterInv'
<1> DEFINE n == Len(est)
           h == Len(history)
           l == Len(states)
<1> USE DEF FilterInv
<1>0. PICK m \in BagToSet(measurements) :
        /\ phase = "integrate"
        /\ m.time = Min(Times) /\ m.time <= now
        /\ measurements' = measurements (-) SetToBag({m})
        /\ est' = Append(est, m)
        /\ lastTime' = IF initialized /\ m.time < lastTime THEN lastTime ELSE m.time
        /\ IF smooth
             THEN /\ history' = Append(history, m)
                  /\ states' = IF NextTime(measurements') # lastTime'
                                 THEN Append(states, [time |-> lastTime', est |-> est'])
                                 ELSE states
             ELSE UNCHANGED <<history, states>>
        /\ initialized' = TRUE
        /\ UNCHANGED <<smooth, enabled, on, now, lastStamp, setPose, accepted, poses, phase,
                       short>>
  BY DEF ProcessMeasurement, config, input
<1> DEFINE saved == [time |-> lastTime', est |-> est']
           kept == Append(states, saved)
<1>1. /\ m \in DOMAIN measurements /\ m \in Measurement
      /\ m.time \in 0..MaxClock /\ m.time \in Nat
      /\ IsABag(measurements) /\ Times # {}
  BY <1>0, Shapes DEF BagToSet, Times
<1>2. \A e \in DOMAIN measurements : e.time >= m.time
  BY <1>0, <1>1, FirstTime
<1>3. /\ IsABag(measurements') /\ DOMAIN measurements' \subseteq DOMAIN measurements
      /\ \A e \in DOMAIN measurements :
           e # m => e \in DOMAIN measurements' /\ measurements'[e] = measurements[e]
      /\ measurements[m] = 1 => m \notin DOMAIN measurements'
  BY <1>0, <1>1, BagLess
<1>4. /\ est \in Seq(Measurement) /\ history \in Seq(Measurement) /\ states \in Seq(Saved)
      /\ n \in Nat /\ h \in Nat /\ l \in Nat
      /\ DOMAIN est = 1..n /\ DOMAIN states = 1..l
  BY Shapes DEF FilterTypeOK
<1>5. /\ est' \in Seq(Measurement) /\ Len(est') = n + 1 /\ DOMAIN est' = 1..(n + 1)
      /\ \A i \in 1..n : est'[i] = est[i]
      /\ est'[n + 1] = m
      /\ ToSet(est') = ToSet(est) \cup {m}
  <2>1. /\ Append(est, m) \in Seq(Measurement) /\ Len(Append(est, m)) = n + 1
        /\ \A i \in 1..n : Append(est, m)[i] = est[i]
        /\ Append(est, m)[n + 1] = m
        /\ ToSet(Append(est, m)) = ToSet(est) \cup {m}
    BY <1>1, <1>4, Appended, AppendedSet
  <2>2. DOMAIN Append(est, m) = 1..(n + 1)
    BY <2>1, LenProperties
  <2> QED
    BY <1>0, <2>1, <2>2
<1>6. smooth =>
        /\ history' \in Seq(Measurement) /\ Len(history') = h + 1
        /\ \A i \in 1..h : history'[i] = history[i]
        /\ history'[h + 1] = m
        /\ ToSet(history') = ToSet(history) \cup {m}
  <2>1. /\ Append(history, m) \in Seq(Measurement) /\ Len(Append(history, m)) = h + 1
        /\ \A i \in 1..h : Append(history, m)[i] = history[i]
        /\ Append(history, m)[h + 1] = m
        /\ ToSet(Append(history, m)) = ToSet(history) \cup {m}
    BY <1>1, <1>4, Appended, AppendedSet
  <2> QED
    BY <1>0, <2>1
<1>7. /\ lastTime' \in 0..MaxClock /\ lastTime' \in Nat
      /\ lastTime' <= now /\ lastTime' >= m.time
      /\ lastTime \in Nat /\ now \in Nat
  <2>1. lastTime \in 0..MaxClock /\ lastTime \in Nat /\ now \in Nat /\ lastTime <= now
    BY Shapes DEF FilterTypeOK, Clock
  <2>2. (lastTime' = lastTime /\ m.time < lastTime) \/ lastTime' = m.time
    BY <1>0
  <2> QED
    BY <1>0, <1>1, <2>1, <2>2
<1>8. saved \in Saved /\ saved.time = lastTime' /\ saved.est = est'
  BY <1>5, <1>7 DEF Saved
<1>9. /\ kept \in Seq(Saved) /\ Len(kept) = l + 1
      /\ \A k \in 1..l : kept[k] = states[k]
      /\ kept[l + 1].est = est' /\ kept[l + 1].time = lastTime'
  <2> HIDE DEF saved
  <2>1. /\ Append(states, saved) \in Seq(Saved) /\ Len(Append(states, saved)) = l + 1
        /\ \A k \in 1..l : Append(states, saved)[k] = states[k]
        /\ Append(states, saved)[l + 1] = saved
    BY <1>4, <1>8, Appended
  <2> QED
    BY <1>8, <2>1
<1>10. states' = states \/ (smooth /\ states' = kept)
  BY <1>0
<1>11. /\ states' \in Seq(Saved)
       /\ Len(states') = l \/ (smooth /\ Len(states') = l + 1)
       /\ \A k \in 1..l : states'[k] = states[k]
       /\ Len(states') = l + 1 => states'[l + 1].est = est' /\ states'[l + 1].time = lastTime'
  <2>1. CASE states' = states
    <3>0. l # l + 1
      <4> HIDE DEF l
      <4> QED
        BY <1>4
    <3>1. states' \in Seq(Saved) /\ Len(states') = l /\ l # l + 1
      BY <1>4, <2>1, <3>0, Zenon
    <3>2. \A k \in 1..l : states'[k] = states[k]
      BY <2>1
    <3> QED
      BY ONLY <3>1, <3>2
  <2>2. CASE smooth /\ states' = kept
    <3> HIDE DEF kept
    <3> QED
      BY <1>9, <2>2
  <2> QED
    BY <1>10, <2>1, <2>2
<1> HIDE DEF saved, kept
<1>12. \A k \in 1..Len(states') : k \in 1..l \/ (k = l + 1 /\ Len(states') = l + 1)
  BY <1>4, <1>11
<1>13. Regular => lastTime' = m.time /\ lastTime <= m.time
  <2> SUFFICES ASSUME Regular PROVE lastTime' = m.time /\ lastTime <= m.time
    OBVIOUS
  <2>1. m.time >= lastTime
    BY <1>0 DEF Ahead
  <2> QED
    BY <1>0, <1>1, <1>7, <2>1
<1>14. \A i \in 1..n : est[i] \in Measurement /\ est[i].time \in Nat
  BY Shapes
<1>15. Regular => \A i \in 1..n : est[i].time <= m.time
  <2> SUFFICES ASSUME Regular, NEW i \in 1..n PROVE est[i].time <= m.time
    OBVIOUS
  <2>1. est[i].time <= lastTime
    BY DEF Past
  <2> QED
    BY <1>1, <1>7, <1>13, <1>14, <2>1
<1>16. Regular' <=> Regular
  BY <1>0 DEF Regular
<1>17. FilterTypeOK'
  <2>1. history' \in Seq(Measurement)
    BY <1>0, <1>4, <1>6
  <2>2. BagToSet(measurements)' \subseteq Measurement
    BY <1>3 DEF FilterTypeOK, BagToSet
  <2>3. {now, setPose, lastTime}' \subseteq 0..MaxClock
    BY <1>0, <1>7 DEF FilterTypeOK
  <2> QED
    BY <1>0, <1>3, <1>5, <1>11, <2>1, <2>2, <2>3 DEF FilterTypeOK
<1>18. FusedOnceInOrder'
  <2> SUFFICES ASSUME ~(smooth /\ short) PROVE FusedOnceInOrder'
    BY <1>0 DEF FusedOnceInOrder
  <2>1. /\ IsInjective(est) /\ ToSet(est) = accepted \ DOMAIN measurements
        /\ DOMAIN measurements \subseteq accepted
        /\ \A e \in DOMAIN measurements : measurements[e] = 1
        /\ smooth => \A i, j \in DOMAIN est : i < j => est[i].time <= est[j].time
    BY DEF FusedOnceInOrder, BagToSet
  <2>2. /\ DOMAIN measurements' = DOMAIN measurements \ {m}
        /\ \A e \in DOMAIN measurements' : measurements'[e] = 1
    BY <1>1, <1>3, <2>1
  <2>3. ToSet(est') = accepted' \ DOMAIN measurements'
    BY <1>0, <1>1, <1>5, <2>1, <2>2
  <2>4. \A i \in 1..n : est[i] # m
    BY <1>1, <1>4, <2>1 DEF ToSet
  <2>5. ASSUME NEW i \in 1..(n + 1), NEW j \in 1..(n + 1), est'[i] = est'[j]
        PROVE  i = j
    <3>1. i \in 1..n \/ i = n + 1
      BY <1>4
    <3>2. j \in 1..n \/ j = n + 1
      BY <1>4
    <3>3. \A a, b \in 1..n : est[a] = est[b] => a = b
      BY <1>4, <2>1 DEF IsInjective
    <3> QED
      BY ONLY <3>1, <3>2, <3>3, <1>5, <2>4, <2>5
  <2>6. IsInjective(est')
    BY <1>5, <2>5 DEF IsInjective
  <2>7. ASSUME smooth, NEW i \in 1..(n + 1), NEW j \in 1..(n + 1), i < j
        PROVE  est'[i].time <= est'[j].time
    <3>1. i \in 1..n
      BY <1>4, <2>7
    <3>2. Regular
      BY <2>7 DEF Regular
    <3>3. CASE j \in 1..n
      BY <1>4, <1>5, <2>1, <2>7, <3>1, <3>3
    <3>4. CASE j = n + 1
      BY <1>5, <1>15, <3>1, <3>2, <3>4
    <3> QED
      BY <1>4, <3>3, <3>4
  <2>8. DOMAIN measurements' \subseteq accepted'
    BY <1>0, <2>1, <2>2
  <2>9. smooth' => \A i, j \in DOMAIN est' : i < j => est'[i].time <= est'[j].time
    BY <1>0, <1>5, <2>7
  <2> QED
    BY <2>2, <2>3, <2>6, <2>8, <2>9 DEF FusedOnceInOrder, BagToSet
<1>19. m.time > setPose /\ \A e \in ToSet(est) \cup ToSet(history) : e.time > setPose
  BY <1>0 DEF NothingBeforePose
<1>20. NothingBeforePose'
  <2>1. \A e \in DOMAIN measurements' : e.time > setPose
    BY <1>3 DEF NothingBeforePose, BagToSet
  <2>2. ToSet(history') \subseteq ToSet(history) \cup {m}
    BY <1>0, <1>6
  <2> QED
    BY <1>0, <1>5, <1>19, <2>1, <2>2 DEF NothingBeforePose, BagToSet
<1>21. Stamped'
  BY <1>0 DEF Stamped
<1>22. AfterPose'
  <2> SUFFICES ASSUME NEW k \in 1..Len(states'), NEW i \in 1..Len(states'[k].est)
               PROVE  states'[k].est[i].time > setPose'
    BY DEF AfterPose
  <2>1. CASE k \in 1..l
    BY <1>0, <1>11, <2>1 DEF AfterPose
  <2>2. CASE k = l + 1 /\ Len(states') = l + 1
    <3>1. states'[k].est = est' /\ i \in DOMAIN est'
      BY <1>5, <1>11, <2>2
    <3>2. est'[i] \in ToSet(est')
      BY <3>1 DEF ToSet
    <3> QED
      BY <1>0, <1>5, <1>19, <3>1, <3>2
  <2> QED
    BY <1>12, <2>1, <2>2
<1>23. Plain'
  BY <1>0 DEF Plain
<1>24. Clock'
  <2> SUFFICES ASSUME NEW k \in 1..Len(states') PROVE states'[k].time <= now'
    BY <1>0, <1>7 DEF Clock
  <2>1. CASE k \in 1..l
    BY <1>0, <1>11, <2>1 DEF Clock
  <2>2. CASE k = l + 1 /\ Len(states') = l + 1
    BY <1>0, <1>7, <1>11, <2>2
  <2> QED
    BY <1>12, <2>1, <2>2
<1>25. Past'
  <2> SUFFICES ASSUME Regular, NEW i \in 1..(n + 1) PROVE est'[i].time <= lastTime'
    BY <1>5, <1>16 DEF Past
  <2>1. i \in 1..n \/ i = n + 1
    BY <1>4
  <2> QED
    BY <1>1, <1>5, <1>13, <1>15, <2>1
<1>26. Ahead'
  BY <1>2, <1>3, <1>13, <1>16 DEF Ahead, BagToSet
<1>27. Regular => /\ h <= n /\ \A i \in 1..h : history[i] = est[n - h + i]
                  /\ smooth
  BY DEF HistoryIsEnd, Forgotten, Regular
<1>28. Regular => Forgotten' = n - h /\ Forgotten = n - h
  <2> SUFFICES ASSUME Regular PROVE (n + 1) - (h + 1) = n - h
    BY <1>5, <1>6, <1>27 DEF Forgotten
  <2> QED
    BY <1>4
<1>29. HistoryIsEnd'
  <2> SUFFICES ASSUME Regular, NEW i \in 1..(h + 1)
               PROVE  h + 1 <= n + 1 /\ history'[i] = est'[n - h + i]
    BY <1>4, <1>5, <1>6, <1>16, <1>27, <1>28 DEF HistoryIsEnd
  <2>1. h + 1 <= n + 1
    BY <1>4, <1>27
  <2>2. CASE i \in 1..h
    <3>1. n - h + i \in 1..n
      BY <1>4, <1>27, <2>2
    <3>2. history'[i] = history[i] /\ history[i] = est[n - h + i]
      BY <1>6, <1>27, <2>2
    <3> QED
      BY <1>5, <2>1, <3>1, <3>2
  <2>3. CASE i = h + 1
    <3>1. n - h + i = n + 1
      BY <1>4, <2>3
    <3> QED
      BY <1>5, <1>6, <1>27, <2>1, <2>3, <3>1
  <2> QED
    BY <1>4, <2>2, <2>3
<1>30. ASSUME Regular, NEW k \in 1..l
       PROVE  /\ Len(states[k].est) \in Nat
              /\ n - h < Len(states[k].est) /\ Len(states[k].est) <= n
              /\ \A i \in 1..Len(states[k].est) : states[k].est[i] = est[i]
              /\ states[k].time = est[Len(states[k].est)].time
  BY <1>28, <1>30, Shapes DEF StatesAreBeginnings
<1>31. StatesAreBeginnings'
  <2> SUFFICES ASSUME Regular PROVE StatesAreBeginnings'
    BY <1>16 DEF StatesAreBeginnings
  <2>1. ASSUME NEW k \in 1..Len(states')
        PROVE  /\ n - h < Len(states'[k].est) /\ Len(states'[k].est) <= n + 1
               /\ \A i \in 1..Len(states'[k].est) : states'[k].est[i] = est'[i]
               /\ states'[k].time = est'[Len(states'[k].est)].time
    <3>1. CASE k \in 1..l
      <4> DEFINE p == Len(states[k].est)
      <4>1. /\ p \in Nat /\ n - h < p /\ p <= n
            /\ \A i \in 1..p : states[k].est[i] = est[i]
            /\ states[k].time = est[p].time
        BY <1>30, <3>1
      <4>2. states'[k] = states[k]
        BY <1>11, <3>1
      <4> HIDE DEF p
      <4>3. p \in 1..n /\ p <= n + 1 /\ \A i \in 1..p : i \in 1..n
        BY <1>4, <1>27, <4>1
      <4> QED
        BY <1>5, <4>1, <4>2, <4>3 DEF p
    <3>2. CASE k = l + 1 /\ Len(states') = l + 1
      <4>1. states'[k].est = est' /\ states'[k].time = m.time
        BY <1>11, <1>13, <3>2
      <4>2. n - h < n + 1
        BY <1>4
      <4> QED
        BY <1>4, <1>5, <4>1, <4>2
    <3> QED
      BY <1>12, <3>1, <3>2
  <2>2. ASSUME NEW j \in 1..Len(states'), NEW k \in 1..Len(states'), j < k
        PROVE  Len(states'[j].est) < Len(states'[k].est)
    <3>1. j \in 1..l
      BY <1>4, <1>12, <2>2
    <3>2. states'[j] = states[j] /\ Len(states[j].est) \in Nat /\ Len(states[j].est) <= n
      BY <1>11, <1>30, <3>1
    <3>3. CASE k \in 1..l
      <4>1. states'[k] = states[k]
        BY <1>11, <3>3
      <4> QED
        BY <2>2, <3>1, <3>2, <3>3, <4>1 DEF StatesAreBeginnings
    <3>4. CASE k = l + 1 /\ Len(states') = l + 1
      <4>1. Len(states'[k].est) = n + 1
        BY <1>5, <1>11, <3>4
      <4> QED
        BY <1>4, <3>2, <4>1
    <3> QED
      BY <1>12, <3>3, <3>4
  <2> QED
    BY <1>5, <1>28, <2>1, <2>2 DEF StatesAreBeginnings
<1>32. \A k \in 1..l : k \in 1..Len(states')
  BY <1>4, <1>11
<1>33. StepsSaved'
  <2> SUFFICES ASSUME Regular, NEW i \in (n - h + 1)..n, est'[i].time < est'[i + 1].time
               PROVE  \E k \in 1..l : Len(states[k].est) = i
    <3>1. (n + 1) - 1 = n
      BY <1>4
    <3> QED
      BY <1>5, <1>11, <1>16, <1>28, <1>32, <3>1 DEF StepsSaved
  <2>1. i \in 1..n
    BY <1>4, <1>27
  <2>2. CASE i < n
    <3>1. i \in (Forgotten + 1)..(Len(est) - 1) /\ i + 1 \in 1..n
      BY <1>4, <1>28, <2>1, <2>2
    <3>2. est[i].time < est[i + 1].time
      BY <1>5, <2>1, <3>1
    <3> QED
      BY <3>1, <3>2 DEF StepsSaved
  <2>3. CASE i = n
    <3>1. h > 0
      BY <1>4, <2>3
    <3>2. est[n].time < m.time
      BY <1>5, <2>1, <2>3
    <3>3. ASSUME NEW e \in DOMAIN measurements, e.time = est[n].time PROVE FALSE
      <4>1. est[n].time \in Nat
        BY <1>14, <2>1, <2>3
      <4> QED
        BY <1>1, <1>2, <3>2, <3>3, <4>1
    <3> QED
      BY <2>3, <3>1, <3>3 DEF PresentSaved, BagToSet
  <2>4. i < n \/ i = n
    <3> HIDE DEF n
    <3> QED
      BY <1>4, <2>1
  <2> QED
    BY <2>2, <2>3, <2>4
<1>34. PresentSaved'
  <2> SUFFICES ASSUME Regular
               PROVE  \/ \E k \in 1..Len(states') : Len(states'[k].est) = n + 1
                      \/ \E e \in DOMAIN measurements' : e.time = m.time
    BY <1>0, <1>5, <1>16 DEF PresentSaved, BagToSet
  <2>1. CASE NextTime(measurements') # lastTime'
    <3>1. states' = kept
      BY <1>0, <1>27, <2>1 DEF kept, saved
    <3>2. Len(states') = l + 1
      BY <1>9, <3>1
    <3>3. l + 1 \in 1..Len(states')
      BY <1>4, <3>2
    <3>4. states'[l + 1].est = est'
      BY <1>11, <3>2
    <3> QED
      BY <1>5, <3>3, <3>4
  <2>2. CASE NextTime(measurements') = lastTime'
    <3> DEFINE S == {e.time : e \in DOMAIN measurements'}
    <3>1. lastTime' # -1
      BY <1>7
    <3>2. measurements' # EmptyBag /\ Min(S) = lastTime'
      BY <2>2, <3>1 DEF NextTime, BagToSet
    <3>3. S \in SUBSET Nat
      <4>1. \A e \in DOMAIN measurements : e.time \in Nat
        BY Shapes
      <4> QED
        BY <1>3, <4>1
    <3>4. S # {}
      <4>1. ASSUME DOMAIN measurements' = {} PROVE measurements' = EmptyBag
        BY <1>3, <4>1 DEF IsABag, EmptyBag, SetToBag
      <4> QED
        BY <3>2, <4>1
    <3>5. Min(S) \in S
      <4> HIDE DEF S
      <4> QED
        BY <3>3, <3>4, MinOf
    <3> QED
      BY <1>13, <3>2, <3>5
  <2> QED
    BY <2>1, <2>2
<1> QED
  BY <1>17, <1>18, <1>20, <1>21, <1>22, <1>23, <1>24, <1>25, <1>26, <1>29, <1>31, <1>33, <1>34

-----------------------------------------------------------------------------
(* Clearing what has expired                                               *)

\* History and states expire at the same time, so every state that is left reaches
\* into what is left of the history, and no step of time in it loses its state.
LEMMA StepFinish ==
  ASSUME FilterInv, Finish
  PROVE  FilterInv'
<1> DEFINE n == Len(est)
           h == Len(history)
           l == Len(states)
           cutoff == lastTime - HistoryLength
<1> USE DEF FilterInv
<1>0. /\ phase = "finish" /\ phase' = "idle"
      /\ UNCHANGED <<smooth, enabled, on, now, lastStamp, setPose, accepted, poses,
                     measurements, est, initialized, lastTime, short>>
      /\ smooth => history' = Unexpired(history) /\ states' = Unexpired(states)
      /\ ~smooth => UNCHANGED <<history, states>>
  BY DEF Finish, config, input, filter
<1>1. /\ est \in Seq(Measurement) /\ history \in Seq(Measurement) /\ states \in Seq(Saved)
      /\ n \in Nat /\ h \in Nat /\ l \in Nat /\ cutoff \in Int
      /\ \A i \in 1..n : est[i].time \in Int
      /\ \A i \in 1..h : history[i].time \in Int
      /\ \A k \in 1..l : states[k].time \in Int
      /\ DOMAIN est = 1..n /\ DOMAIN history = 1..h
  <2>1. cutoff \in Int
    BY Shapes, FilterAssumption
  <2> QED
    BY <2>1, Shapes DEF FilterTypeOK
<1>2. PICK c \in 0..h :
        /\ Unexpired(history) \in Seq(Measurement) /\ Len(Unexpired(history)) = h - c
        /\ \A i \in 1..(h - c) : Unexpired(history)[i] = history[c + i]
        /\ \A i \in 1..c : history[i].time < cutoff
        /\ c < h => history[c + 1].time >= cutoff
  BY <1>1, UnexpiredIsEnd
<1>3. PICK d \in 0..l :
        /\ Unexpired(states) \in Seq(Saved) /\ Len(Unexpired(states)) = l - d
        /\ \A k \in 1..(l - d) : Unexpired(states)[k] = states[d + k]
        /\ \A k \in 1..d : states[k].time < cutoff
        /\ d < l => states[d + 1].time >= cutoff
  BY <1>1, UnexpiredIsEnd
<1>4. smooth => /\ history' \in Seq(Measurement) /\ Len(history') = h - c
                /\ \A i \in 1..(h - c) : history'[i] = history[c + i]
                /\ states' \in Seq(Saved) /\ Len(states') = l - d
                /\ \A k \in 1..(l - d) : states'[k] = states[d + k]
  BY <1>0, <1>2, <1>3
<1> HIDE DEF n, h, l, cutoff
<1>5. /\ c \in Nat /\ d \in Nat /\ h - c \in Nat /\ l - d \in Nat
      /\ \A i \in 1..(h - c) : c + i \in 1..h
      /\ \A k \in 1..(l - d) : d + k \in 1..l
  BY <1>1, <1>2, <1>3
<1>6. FilterTypeOK'
  BY <1>0, <1>4 DEF FilterTypeOK
<1>7. FusedOnceInOrder' /\ Stamped' /\ Past' /\ Ahead'
  BY <1>0 DEF FusedOnceInOrder, Stamped, Past, Ahead, Regular
<1>8. NothingBeforePose'
  <2>1. ToSet(history') \subseteq ToSet(history)
    <3> SUFFICES ASSUME smooth PROVE ToSet(history') \subseteq ToSet(history)
      BY <1>0
    <3>1. DOMAIN history' = 1..(h - c)
      BY <1>4, LenProperties
    <3>2. \A i \in 1..(h - c) : history'[i] \in {history[j] : j \in 1..h}
      BY <1>4, <1>5
    <3> QED
      BY <1>1, <3>1, <3>2 DEF ToSet
  <2> QED
    BY <1>0, <2>1 DEF NothingBeforePose
<1>9. \A k \in 1..Len(states') : \E j \in 1..l : states'[k] = states[j]
  <2>1. CASE smooth
    BY <1>4, <1>5, <2>1
  <2>2. CASE ~smooth
    BY <1>0, <2>2 DEF l
  <2> QED
    BY <2>1, <2>2
<1>10. AfterPose' /\ Clock'
  BY <1>0, <1>9 DEF AfterPose, Clock, l
<1>11. Plain'
  BY <1>0 DEF Plain
<1>12. Regular' <=> Regular
  BY <1>0 DEF Regular
<1>13. ASSUME Regular
       PROVE  /\ HistoryIsEnd' /\ StatesAreBeginnings'
              /\ StepsSaved' /\ PresentSaved'
  <2> DEFINE f == n - h
  <2>1. /\ smooth /\ Forgotten = f /\ Forgotten' = f + c /\ f \in Nat /\ Len(est') = n
        /\ h <= n /\ \A i \in 1..h : history[i] = est[f + i]
    <3>1. h <= n /\ \A i \in 1..h : history[i] = est[f + i]
      BY <1>13 DEF HistoryIsEnd, Forgotten, n, h
    <3>2. smooth /\ Forgotten = f /\ Len(est') = n /\ Len(history') = h - c
      BY <1>0, <1>4, <1>13 DEF Forgotten, n, h, Regular
    <3>3. Forgotten' = n - (h - c)
      BY <3>2 DEF Forgotten
    <3> QED
      BY <3>1, <3>2, <3>3, <1>1, <1>5
  <2> HIDE DEF f
  <2>2. f + h = n
    BY <1>1 DEF f
  <2>3. \A i, j \in 1..n : i <= j => est[i].time <= est[j].time
    <3> SUFFICES ASSUME NEW i \in 1..n, NEW j \in 1..n, i <= j
                 PROVE  est[i].time <= est[j].time
      OBVIOUS
    <3>1. CASE i = j
      BY <1>1, <3>1
    <3>2. CASE i < j
      BY <1>1, <1>13, <3>2 DEF FusedOnceInOrder, Regular
    <3> QED
      BY <1>1, <3>1, <3>2
  \* What is kept of the history is not older than the cutoff; the rest is.
  <2>4. \A i \in (f + c + 1)..n : est[i].time >= cutoff
    <3> SUFFICES ASSUME NEW i \in (f + c + 1)..n PROVE est[i].time >= cutoff
      OBVIOUS
    <3>1. c < h /\ f + (c + 1) \in 1..n /\ i \in 1..n /\ f + (c + 1) <= i
      BY <1>1, <1>2, <1>5, <2>1, <2>2
    <3>2. c + 1 \in 1..h
      BY <1>1, <1>5, <3>1
    <3>3. est[f + (c + 1)].time >= cutoff
      BY <1>2, <2>1, <3>1, <3>2
    <3> QED
      BY <1>1, <2>3, <3>1, <3>3
  <2>5. \A i \in (f + 1)..(f + c) : est[i].time < cutoff
    <3> SUFFICES ASSUME NEW i \in (f + 1)..(f + c) PROVE est[i].time < cutoff
      OBVIOUS
    <3>1. i - f \in 1..c /\ i - f \in 1..h /\ f + (i - f) = i
      BY <1>1, <1>2, <1>5, <2>1
    <3> QED
      BY <1>2, <2>1, <3>1
  <2>6. ASSUME NEW k \in 1..l
        PROVE  /\ Len(states[k].est) \in Nat
               /\ f < Len(states[k].est) /\ Len(states[k].est) <= n
               /\ \A i \in 1..Len(states[k].est) : states[k].est[i] = est[i]
               /\ states[k].time = est[Len(states[k].est)].time
    BY <1>13, <2>1, Shapes DEF StatesAreBeginnings, n, l
  <2>7. \A j, k \in 1..l : j < k => Len(states[j].est) < Len(states[k].est)
    BY <1>13 DEF StatesAreBeginnings, l
  <2>8. Len(states') = l - d /\ \A k \in 1..(l - d) : states'[k] = states[d + k]
    BY <1>4, <2>1
  \* A saved state that reaches beyond what is dropped is kept, and only those.
  <2>9. ASSUME NEW k \in 1..l, Len(states[k].est) > f + c
        PROVE  k - d \in 1..(l - d) /\ states'[k - d] = states[k]
    <3>1. Len(states[k].est) \in (f + c + 1)..n
      BY <1>1, <1>5, <2>1, <2>6, <2>9
    <3>2. states[k].time >= cutoff
      BY <2>4, <2>6, <3>1
    <3>3. ~(states[k].time < cutoff)
      BY <1>1, <3>2
    <3>4. k \notin 1..d
      BY <1>3, <3>3
    <3>5. k - d \in 1..(l - d) /\ d + (k - d) = k
      BY <1>1, <1>3, <1>5, <3>4
    <3> QED
      BY <2>8, <3>5
  <2>10. ASSUME NEW k \in 1..(l - d)
         PROVE  /\ d + k \in 1..l
                /\ f + c < Len(states[d + k].est)
    <3> DEFINE p == Len(states[d + k].est)
               q == Len(states[d + 1].est)
    <3>1. d + k \in 1..l /\ d + 1 \in 1..l /\ d < l
      BY <1>1, <1>3, <1>5
    <3>2. p \in Nat /\ f < p /\ p <= n /\ q \in Nat /\ f < q /\ q <= n
      BY <2>6, <3>1
    <3>3. q <= p
      <4>1. CASE k = 1
        BY <3>2, <4>1
      <4>2. CASE k > 1
        <5>1. d + 1 < d + k
          BY <1>5, <4>2
        <5> QED
          BY <2>7, <3>1, <3>2, <5>1
      <4> QED
        BY <4>1, <4>2
    <3>4. est[q].time >= cutoff
      BY <1>3, <2>6, <3>1
    <3> HIDE DEF p, q
    <3>5. p \in 1..n /\ q \in 1..n
      BY <1>1, <2>1, <3>2
    <3>6. est[p].time >= cutoff
      BY <1>1, <2>3, <3>3, <3>4, <3>5
    <3>7. p \notin (f + 1)..(f + c)
      BY <1>1, <2>5, <3>5, <3>6
    <3>8. f + c < p
      BY <1>5, <2>1, <3>2, <3>7
    <3> QED
      BY <3>1, <3>8 DEF p
  <2>11. HistoryIsEnd'
    <3>1. Len(history') = h - c /\ h - c <= n
      BY <1>1, <1>4, <1>5, <2>1
    <3>2. ASSUME NEW i \in 1..(h - c) PROVE history'[i] = est'[f + c + i]
      <4>1. history'[i] = history[c + i] /\ c + i \in 1..h
        BY <1>4, <1>5, <2>1
      <4>2. f + (c + i) = f + c + i
        BY <1>5, <2>1
      <4> QED
        BY <1>0, <2>1, <4>1, <4>2
    <3> QED
      BY <2>1, <3>1, <3>2 DEF HistoryIsEnd
  <2>12. StatesAreBeginnings'
    <3>1. ASSUME NEW k \in 1..(l - d)
          PROVE  /\ f + c < Len(states'[k].est) /\ Len(states'[k].est) <= n
                 /\ \A i \in 1..Len(states'[k].est) : states'[k].est[i] = est'[i]
                 /\ states'[k].time = est'[Len(states'[k].est)].time
      BY <1>0, <2>6, <2>8, <2>10
    <3>2. ASSUME NEW j \in 1..(l - d), NEW k \in 1..(l - d), j < k
          PROVE  Len(states'[j].est) < Len(states'[k].est)
      <4>1. d + j < d + k /\ d + j \in 1..l /\ d + k \in 1..l
        BY <1>5, <3>2
      <4> QED
        BY <2>7, <2>8, <4>1
    <3> QED
      BY <2>1, <2>8, <3>1, <3>2 DEF StatesAreBeginnings
  <2>13. StepsSaved'
    <3> SUFFICES ASSUME NEW i \in (f + c + 1)..(n - 1), est[i].time < est[i + 1].time
                 PROVE  \E k \in 1..(l - d) : Len(states'[k].est) = i
      BY <1>0, <2>1, <2>8 DEF StepsSaved
    <3>1. i \in (f + 1)..(n - 1) /\ i > f + c
      <4>1. i \in (f + c + 1)..(n - 1) /\ f \in Nat /\ c \in Nat /\ n \in Nat
        BY <1>1, <1>5, <2>1
      <4> QED
        BY ONLY <4>1
    <3>2. PICK k \in 1..l : Len(states[k].est) = i
      BY <1>13, <2>1, <3>1 DEF StepsSaved, n, l
    <3> QED
      BY <2>9, <3>1, <3>2
  <2>14. PresentSaved'
    <3> SUFFICES ASSUME h - c > 0
                 PROVE  \E k \in 1..(l - d) : Len(states'[k].est) = n
      BY <1>4, <2>1, <2>8 DEF PresentSaved
    <3>1. h > 0 /\ n > f + c
      BY <1>1, <1>5, <2>1, <2>2
    <3>2. PICK k \in 1..l : Len(states[k].est) = n
      BY <1>0, <1>13, <3>1 DEF PresentSaved, n, h, l
    <3> QED
      BY <2>9, <3>1, <3>2
  <2> QED
    BY <2>11, <2>12, <2>13, <2>14
<1>14. HistoryIsEnd' /\ StatesAreBeginnings' /\ StepsSaved' /\ PresentSaved'
  <2>1. CASE Regular
    BY <1>13, <2>1
  <2>2. CASE ~Regular
    BY <1>12, <2>2 DEF HistoryIsEnd, StatesAreBeginnings, StepsSaved, PresentSaved
  <2> QED
    BY <2>1, <2>2
<1> QED
  BY <1>6, <1>7, <1>8, <1>10, <1>11, <1>14

-----------------------------------------------------------------------------
(* Going back                                                              *)

\* What going back keeps whether or not the history reaches far enough.
LEMMA GoneBack ==
  ASSUME FilterInv, phase = "idle", smooth, NEW t, RevertTo(t), phase' = "integrate",
         UNCHANGED <<config, now, input, initialized>>
  PROVE  /\ FilterTypeOK' /\ NothingBeforePose' /\ AfterPose' /\ Clock'
         /\ Stamped' /\ Plain'
<1> DEFINE k == Before(states, t)
           b == Before(history, t)
           j == IF k > 0 THEN k ELSE 1
           P == Restored(t, states[j].time)
<1> USE DEF FilterInv, config, input
<1>0. /\ est \in Seq(Measurement) /\ history \in Seq(Measurement) /\ states \in Seq(Saved)
      /\ {now, setPose, lastTime} \subseteq 0..MaxClock
      /\ {smooth, enabled, on, initialized, short} \subseteq BOOLEAN
  BY DEF FilterTypeOK
<1>1. k \in 0..Len(states) /\ b \in 0..Len(history)
  BY <1>0, BeforeIsLast
<1>2. states' = SubSeq(states, 1, k) /\ short' = (short \/ k = 0)
  BY DEF RevertTo
<1>3. /\ states' \in Seq(Saved) /\ Len(states') = k
      /\ \A i \in 1..k : states'[i] = states[i] /\ i \in 1..Len(states)
  <2>1. /\ SubSeq(states, 1, k) \in Seq(Saved) /\ Len(SubSeq(states, 1, k)) = k
        /\ \A i \in 1..k : SubSeq(states, 1, k)[i] = states[i]
    BY <1>0, <1>1, Beginning
  <2>2. \A i \in 1..k : i \in 1..Len(states)
    BY <1>1, Shapes
  <2> QED
    BY <1>2, <2>1, <2>2
<1>4. AfterPose' /\ Stamped' /\ Plain'
  BY <1>3 DEF AfterPose, Stamped, Plain
<1>5. short' \in BOOLEAN
  BY <1>2
<1>6. CASE states = <<>>
  <2>1. UNCHANGED <<measurements, est, lastTime, history>>
    BY <1>6 DEF RevertTo
  <2>2. FilterTypeOK'
    BY <1>3, <1>5, <2>1 DEF FilterTypeOK
  <2>3. NothingBeforePose'
    BY <2>1 DEF NothingBeforePose
  <2>4. Clock'
    BY <1>3, <2>1 DEF Clock
  <2> QED
    BY <1>4, <2>2, <2>3, <2>4
<1>7. CASE states # <<>>
  <2>1. /\ est' = states[j].est /\ lastTime' = states[j].time
        /\ measurements' = measurements (+) BagOf(P)
        /\ history' = SubSeq(history, 1, b)
    BY <1>7 DEF RevertTo
  <2>2. j \in 1..Len(states)
    BY <1>1, <1>7, Shapes
  <2>3. /\ states[j].est \in Seq(Measurement) /\ states[j].time \in 0..MaxClock
        /\ states[j].time <= now
    BY <2>2, Shapes, Numbers DEF Clock
  <2>4. P \in SUBSET DOMAIN history
    BY DEF Restored
  <2> HIDE DEF P
  <2>5. IsABag(BagOf(P)) /\ DOMAIN BagOf(P) = {history[i] : i \in P}
    BY <1>0, <2>4, BagOfPlaces
  <2>6. /\ IsABag(measurements (+) BagOf(P))
        /\ DOMAIN (measurements (+) BagOf(P)) = DOMAIN measurements \cup DOMAIN BagOf(P)
    BY <2>5, Shapes, BagSum
  <2>7. DOMAIN BagOf(P) \subseteq ToSet(history)
    BY <2>4, <2>5 DEF ToSet
  <2>8. /\ history' \in Seq(Measurement) /\ ToSet(history') \subseteq ToSet(history)
    <3>1. /\ SubSeq(history, 1, b) \in Seq(Measurement) /\ Len(SubSeq(history, 1, b)) = b
          /\ \A i \in 1..b : SubSeq(history, 1, b)[i] = history[i]
      BY <1>0, <1>1, Beginning
    <3>2. DOMAIN SubSeq(history, 1, b) = 1..b
      BY <3>1, LenProperties
    <3>3. \A i \in 1..b : i \in DOMAIN history
      BY <1>1, Shapes
    <3>4. ToSet(SubSeq(history, 1, b)) \subseteq ToSet(history)
      BY <3>1, <3>2, <3>3 DEF ToSet
    <3> QED
      BY <2>1, <3>1, <3>4
  <2>9. \A i \in DOMAIN history : history[i] \in Measurement
    BY Shapes
  <2>10. IsABag(measurements)' /\ BagToSet(measurements)' \subseteq Measurement
    <3>1. DOMAIN measurements \subseteq Measurement
      BY Shapes
    <3>2. DOMAIN BagOf(P) \subseteq Measurement
      BY <2>4, <2>5, <2>9
    <3> QED
      BY <2>1, <2>6, <3>1, <3>2 DEF BagToSet
  <2>11. FilterTypeOK'
    <3>1. {now, setPose, lastTime}' \subseteq 0..MaxClock
      BY <1>0, <2>1, <2>3
    <3>2. est' \in Seq(Measurement)
      BY <2>1, <2>3
    <3> QED
      BY <1>0, <1>3, <1>5, <2>8, <2>10, <3>1, <3>2 DEF FilterTypeOK
  <2>12. NothingBeforePose'
    <3>1. \A e \in DOMAIN measurements \cup ToSet(history) : e.time > setPose
      BY DEF NothingBeforePose, BagToSet
    <3>2. \A e \in DOMAIN measurements' : e.time > setPose'
      BY <2>1, <2>6, <2>7, <3>1
    <3>3. \A e \in ToSet(est') : e.time > setPose'
      <4>1. DOMAIN states[j].est = 1..Len(states[j].est)
        BY <2>3, LenProperties
      <4> QED
        BY <2>1, <2>2, <4>1 DEF AfterPose, ToSet
    <3>4. \A e \in ToSet(history') : e.time > setPose'
      BY <2>8, <3>1
    <3> QED
      BY <3>2, <3>3, <3>4 DEF NothingBeforePose, BagToSet
  <2>13. Clock'
    BY <1>3, <2>1, <2>3 DEF Clock
  <2> QED
    BY <1>4, <2>11, <2>12, <2>13
<1> QED
  BY <1>6, <1>7

\* When it does, the estimate is what was fused before t, everything from t on
\* is queued again, and the rest of the invariant holds of that beginning.
LEMMA GoneBackFarEnough ==
  ASSUME FilterInv, phase = "idle", Times # {}, RevertTo(Min(Times)), Regular, ~short',
         phase' = "integrate", UNCHANGED <<config, now, input, initialized>>
  PROVE  /\ FusedOnceInOrder' /\ Past' /\ Ahead'
         /\ HistoryIsEnd' /\ StatesAreBeginnings' /\ StepsSaved' /\ PresentSaved'
<1> DEFINE t == Min(Times)
           n == Len(est)
           h == Len(history)
           l == Len(states)
           f == n - h
           k == Before(states, t)
           b == Before(history, t)
           p == Len(states[k].est)
           P == Restored(t, states[k].time)
<1> USE DEF FilterInv, config, input
<1>1. /\ est \in Seq(Measurement) /\ history \in Seq(Measurement) /\ states \in Seq(Saved)
      /\ n \in Nat /\ h \in Nat /\ l \in Nat /\ t \in Nat
      /\ \A i \in 1..n : est[i].time \in Nat
      /\ DOMAIN est = 1..n /\ DOMAIN history = 1..h
      /\ \A m \in DOMAIN measurements : m.time >= t /\ m.time \in Nat
  BY Shapes, FirstTime DEF FilterTypeOK
<1>2. /\ k \in 1..l /\ states[k].time < t
      /\ \A i \in 1..l : states[i].time < t => i <= k
  <2>1. /\ k \in 0..l
        /\ k > 0 => states[k].time < t
        /\ \A i \in 1..l : states[i].time < t => i <= k
    BY <1>1, BeforeIsLast
  <2>2. k # 0
    BY DEF RevertTo
  <2> HIDE DEF k, l, t
  <2>3. k \in 1..l /\ k > 0
    BY ONLY <1>1, <2>1, <2>2
  <2> QED
    BY <2>1, <2>3
<1>3. /\ b \in 0..h
      /\ b > 0 => history[b].time < t
      /\ \A i \in 1..h : history[i].time < t => i <= b
  BY <1>1, BeforeIsLast
<1>4. /\ est' = states[k].est /\ lastTime' = states[k].time
      /\ measurements' = measurements (+) BagOf(P)
      /\ states' = SubSeq(states, 1, k) /\ history' = SubSeq(history, 1, b)
  <2>1. states # <<>> /\ k > 0
    BY <1>1, <1>2, Shapes
  <2> QED
    BY <2>1 DEF RevertTo
<1>5. /\ Len(states') = k /\ Len(history') = b
      /\ \A i \in 1..k : states'[i] = states[i]
      /\ \A i \in 1..b : history'[i] = history[i]
  <2>1. k \in 0..l
    <3> HIDE DEF k, l
    <3> QED
      BY ONLY <1>1, <1>2
  <2>2. /\ Len(SubSeq(states, 1, k)) = k
        /\ \A i \in 1..k : SubSeq(states, 1, k)[i] = states[i]
    BY <1>1, <2>1, Beginning
  <2>3. /\ Len(SubSeq(history, 1, b)) = b
        /\ \A i \in 1..b : SubSeq(history, 1, b)[i] = history[i]
    BY <1>1, <1>3, Beginning
  <2> QED
    BY <1>4, <2>2, <2>3
<1>6. /\ smooth /\ Forgotten = f /\ f \in Nat /\ h <= n
      /\ \A i \in 1..h : history[i] = est[f + i]
  BY <1>1 DEF HistoryIsEnd, Forgotten, Regular
<1>7. ASSUME NEW i \in 1..l
      PROVE  /\ Len(states[i].est) \in Nat
             /\ f < Len(states[i].est) /\ Len(states[i].est) <= n
             /\ \A x \in 1..Len(states[i].est) : states[i].est[x] = est[x]
             /\ states[i].time = est[Len(states[i].est)].time
  BY <1>6, Shapes DEF StatesAreBeginnings
<1>8. \A i, j \in 1..l : i < j => Len(states[i].est) < Len(states[j].est)
  BY DEF StatesAreBeginnings
<1>9. /\ p \in 1..n /\ f < p /\ \A x \in 1..p : est'[x] = est[x] /\ x \in 1..n
      /\ Len(est') = p /\ lastTime' = est[p].time /\ est[p].time < t
      /\ DOMAIN est' = 1..p
  <2>1. /\ p \in Nat /\ f < p /\ p <= n /\ \A x \in 1..p : est'[x] = est[x]
        /\ Len(est') = p /\ lastTime' = est[p].time /\ est[p].time < t
    BY <1>2, <1>4, <1>7
  <2>2. DOMAIN est' = 1..Len(est')
    <3>1. states[k].est \in Seq(Measurement)
      BY <1>2, Shapes
    <3> QED
      BY <1>4, <3>1, LenProperties
  <2> HIDE DEF p
  <2> QED
    BY <1>1, <1>6, <2>1, <2>2
<1>10. /\ IsInjective(est) /\ ToSet(est) = accepted \ DOMAIN measurements
       /\ DOMAIN measurements \subseteq accepted
       /\ \A m \in DOMAIN measurements : measurements[m] = 1
       /\ \A i, j \in 1..n : i < j => est[i].time <= est[j].time
  BY <1>1 DEF FusedOnceInOrder, BagToSet, Regular
<1>11. \A i, j \in 1..n : est[i] = est[j] => i = j
  BY <1>1, <1>10 DEF IsInjective
<1> HIDE DEF n, h, l, f, k, b, p, t
\* No state reaches beyond p and is older than t.
<1>12. ASSUME NEW i \in 1..l, est[Len(states[i].est)].time < t
       PROVE  Len(states[i].est) <= p
  <2>1. i <= k
    BY <1>2, <1>7, <1>12
  <2>2. CASE i = k
    BY <1>7, <2>2 DEF p
  <2>3. CASE i < k
    <3>1. Len(states[i].est) < p
      BY <1>2, <1>8, <2>3 DEF p
    <3> QED
      BY <1>7, <1>9, <1>1, <3>1
  <2> QED
    BY <1>1, <1>2, <2>1, <2>2, <2>3
\* Where time reaches t, the newest state before t ends.
<1>13. ASSUME NEW i \in 1..n, i > p
       PROVE  est[i].time >= t
  <2> DEFINE S == {x \in 1..n : est[x].time < t}
             q == Max(S)
  <2>1. p \in S /\ S \in SUBSET (0..n)
    BY <1>1, <1>9
  <2>2. q \in S /\ \A x \in S : q >= x
    BY <1>1, <2>1, LargestUpTo
  <2>3. q \in 1..n /\ est[q].time < t /\ q >= p
    BY <2>1, <2>2
  <2>4. \A x \in 1..n : x > q => ~(est[x].time < t)
    <3> SUFFICES ASSUME NEW x \in 1..n, x > q, est[x].time < t PROVE FALSE
      OBVIOUS
    <3>1. x \in S
      OBVIOUS
    <3> HIDE DEF S
    <3>2. q >= x
      BY <2>2, <3>1
    <3> QED
      BY <1>1, <2>3, <3>2
  <2> HIDE DEF q, S
  <2>5. ASSUME q > p PROVE FALSE
    <3>1. q \in (f + 1)..n
      BY <1>1, <1>6, <1>9, <2>3, <2>5
    <3>2. \E j \in 1..l : Len(states[j].est) = q
      <4>1. CASE q < n
        <5>1. q \in (f + 1)..(n - 1) /\ q + 1 \in 1..n /\ q + 1 > q
          BY <1>1, <1>6, <3>1, <4>1
        <5>2. ~(est[q + 1].time < t)
          BY <2>4, <5>1
        <5>3. est[q].time < est[q + 1].time
          BY <1>1, <2>3, <5>1, <5>2
        <5> QED
          BY <1>6, <5>1, <5>3 DEF StepsSaved, n, l
      <4>2. CASE q = n
        <5>1. h > 0
          BY <1>1, <1>6, <3>1, <4>2 DEF f
        <5> QED
          BY <4>2, <5>1 DEF PresentSaved, n, h, l
      <4> QED
        BY <1>1, <2>3, <4>1, <4>2
    <3>3. PICK j \in 1..l : Len(states[j].est) = q
      BY <3>2
    <3>4. q <= p
      BY <1>12, <2>3, <3>3
    <3> QED
      BY <1>1, <1>9, <2>3, <2>5, <3>4
  <2>6. q = p
    BY <1>1, <1>9, <2>3, <2>5
  <2> QED
    BY <1>1, <1>13, <2>4, <2>6
<1>14. \A x \in 1..p : est[x].time <= est[p].time
  <2> SUFFICES ASSUME NEW x \in 1..p PROVE est[x].time <= est[p].time
    OBVIOUS
  <2>1. x \in 1..n /\ p \in 1..n /\ (x = p \/ x < p)
    BY <1>1, <1>9
  <2> QED
    BY <1>1, <1>10, <2>1
<1>15. f + h = n
  BY <1>1 DEF f
<1>16. f + b = p
  <2>1. p - f \in 1..h /\ f + (p - f) = p
    BY <1>1, <1>6, <1>9, <1>15
  <2>2. history[p - f].time < t
    BY <1>6, <1>9, <2>1
  <2>3. p - f <= b
    BY <1>3, <2>1, <2>2
  <2>4. b \in 1..h /\ f + b \in 1..n
    BY ONLY <1>1, <1>3, <1>6, <1>15, <2>1, <2>3
  <2>5. est[f + b].time < t
    BY <1>3, <1>6, <2>4
  <2>6. ~(f + b > p)
    BY <1>1, <1>13, <2>4, <2>5
  <2> QED
    BY <1>1, <1>6, <1>9, <2>3, <2>4, <2>6
\* What is queued again is what was fused after that.
<1>17. \A i \in 1..h : i > b => /\ f + i \in 1..n /\ f + i > p
                                /\ history[i] = est[f + i]
                                /\ history[i].time >= t /\ states[k].time <= history[i].time
  <2> SUFFICES ASSUME NEW i \in 1..h, i > b
               PROVE  /\ f + i \in 1..n /\ f + i > p
                      /\ history[i] = est[f + i]
                      /\ history[i].time >= t /\ states[k].time <= history[i].time
    OBVIOUS
  <2>1. f + i \in 1..n /\ f + i > p
    <3>1. i \in 1..h /\ i > b
      OBVIOUS
    <3> QED
      BY ONLY <3>1, <1>1, <1>3, <1>6, <1>15, <1>16
  <2>2. history[i] = est[f + i]
    BY <1>6
  <2>3. history[i].time >= t /\ history[i].time \in Nat
    BY <1>1, <1>13, <2>1, <2>2
  <2>4. states[k].time \in Nat
    BY <1>2, Shapes DEF l
  <2> QED
    BY <1>1, <1>2, <2>1, <2>2, <2>3, <2>4
<1>18. P = {i \in 1..h : i > b}
  BY <1>1, <1>17 DEF Restored, b
<1> HIDE DEF P
<1>19. {history[i] : i \in P} = {est[i] : i \in (p + 1)..n}
  <2>1. ASSUME NEW i \in P PROVE history[i] \in {est[x] : x \in (p + 1)..n}
    <3>1. i \in 1..h /\ i > b
      BY <1>18
    <3>2. f + i \in (p + 1)..n /\ history[i] = est[f + i]
      BY <1>1, <1>9, <1>17, <3>1
    <3> QED
      BY <3>2
  <2>2. ASSUME NEW x \in (p + 1)..n PROVE est[x] \in {history[i] : i \in P}
    <3>1. x - f \in 1..h /\ x - f > b /\ f + (x - f) = x
      <4>1. x \in (p + 1)..n /\ p \in 1..n
        BY <1>9
      <4>2. n \in Nat /\ h \in Nat /\ f \in Nat /\ b \in 0..h
        BY <1>1, <1>3, <1>6
      <4> QED
        BY ONLY <4>1, <4>2, <1>15, <1>16
    <3>2. x - f \in P /\ history[x - f] = est[x]
      BY <1>6, <1>18, <3>1
    <3> QED
      BY <3>2
  <2> QED
    BY <2>1, <2>2
<1>20. \A i, j \in P : history[i] = history[j] => i = j
  <2> SUFFICES ASSUME NEW i \in P, NEW j \in P, history[i] = history[j] PROVE i = j
    OBVIOUS
  <2>1. i \in 1..h /\ j \in 1..h /\ i > b /\ j > b
    BY <1>18
  <2>2. f + i = f + j
    BY <1>11, <1>17, <2>1
  <2> QED
    BY <1>6, <2>1, <2>2
<1>21. /\ IsABag(BagOf(P)) /\ DOMAIN BagOf(P) = {est[i] : i \in (p + 1)..n}
       /\ \A m \in DOMAIN BagOf(P) : BagOf(P)[m] = 1
  <2>1. P \in SUBSET DOMAIN history
    BY <1>1, <1>18
  <2> QED
    BY <1>1, <1>19, <1>20, <2>1, BagOfPlaces
<1>22. (p + 1)..n \subseteq 1..n
  BY <1>1, <1>9
<1>23. \A m \in DOMAIN BagOf(P) : m \in ToSet(est) /\ m \notin DOMAIN measurements
  BY <1>1, <1>10, <1>21, <1>22 DEF ToSet
<1>24. /\ DOMAIN measurements' = DOMAIN measurements \cup {est[i] : i \in (p + 1)..n}
       /\ \A m \in DOMAIN measurements' : measurements'[m] = 1
  <2> DEFINE B == BagOf(P)
  <2> HIDE DEF B
  <2>1. IsABag(B) /\ IsABag(measurements)
    BY <1>21, Shapes DEF B
  <2>2. /\ DOMAIN (measurements (+) B) = DOMAIN measurements \cup DOMAIN B
        /\ \A m \in DOMAIN measurements :
             m \notin DOMAIN B => (measurements (+) B)[m] = measurements[m]
        /\ \A m \in DOMAIN B : m \notin DOMAIN measurements => (measurements (+) B)[m] = B[m]
    BY ONLY <2>1, BagSum
  <2> QED
    BY <1>4, <1>10, <1>21, <1>23, <2>2 DEF B
<1>25. FusedOnceInOrder'
  <2>1. ToSet(est') = {est[x] : x \in 1..p}
    BY <1>9 DEF ToSet
  <2>2. ToSet(est) = {est[x] : x \in 1..n}
    BY <1>1 DEF ToSet
  <2>3. 1..n = 1..p \cup (p + 1)..n
    BY <1>1, <1>9
  <2>4. ASSUME NEW x \in 1..p, NEW y \in (p + 1)..n PROVE est[x] # est[y]
    <3>1. x \in 1..n /\ y \in 1..n /\ x # y
      BY <1>1, <1>9
    <3> QED
      BY <1>11, <3>1
  <2>5. ToSet(est') = accepted \ DOMAIN measurements'
    BY ONLY <1>10, <1>24, <2>1, <2>2, <2>3, <2>4
  <2>6. DOMAIN measurements' \subseteq accepted
    BY <1>10, <1>21, <1>23, <1>24
  <2>7. IsInjective(est')
    BY <1>9, <1>11 DEF IsInjective
  <2>8. \A i, j \in DOMAIN est' : i < j => est'[i].time <= est'[j].time
    BY <1>9, <1>10
  <2> QED
    BY <1>24, <2>5, <2>6, <2>7, <2>8 DEF FusedOnceInOrder, BagToSet
<1>26. Past'
  BY <1>9, <1>14 DEF Past
<1>27. Ahead'
  <2> SUFFICES ASSUME NEW m \in DOMAIN measurements' PROVE m.time >= lastTime'
    BY DEF Ahead, BagToSet
  <2>1. m.time >= t /\ m.time \in Nat
    <3>1. CASE m \in DOMAIN measurements
      BY <1>1, <3>1
    <3>2. CASE m \in {est[i] : i \in (p + 1)..n}
      <4>1. PICK i \in (p + 1)..n : m = est[i]
        BY <3>2
      <4>2. i \in 1..n /\ i > p
        BY <1>1, <1>9
      <4> QED
        BY <1>1, <1>13, <4>1, <4>2
    <3> QED
      BY <1>24, <3>1, <3>2
  <2>2. lastTime' < t /\ lastTime' \in Nat
    BY <1>1, <1>9
  <2> QED
    BY <1>1, <2>1, <2>2
<1>28. Forgotten' = f
  <2>1. Forgotten' = p - b
    BY <1>5, <1>9 DEF Forgotten
  <2>2. p - b = f
    BY ONLY <1>1, <1>3, <1>6, <1>16
  <2> QED
    BY <2>1, <2>2
<1>29. HistoryIsEnd'
  <2>1. b <= p
    BY ONLY <1>1, <1>3, <1>6, <1>16
  <2>2. ASSUME NEW i \in 1..b PROVE history'[i] = est'[f + i]
    <3>1. i \in 1..h /\ f + i \in 1..p
      <4>1. i \in 1..b
        OBVIOUS
      <4> QED
        BY ONLY <4>1, <1>1, <1>3, <1>6, <1>16
    <3> QED
      BY <1>5, <1>6, <1>9, <3>1
  <2> QED
    BY <1>5, <1>9, <1>28, <2>1, <2>2 DEF HistoryIsEnd
<1>30. \A i \in 1..k : i \in 1..l
  BY <1>1, <1>2
<1>31. \A i \in 1..k : Len(states[i].est) <= p
  <2> SUFFICES ASSUME NEW i \in 1..k PROVE Len(states[i].est) <= p
    OBVIOUS
  <2>1. CASE i = k
    BY <1>1, <1>9, <2>1 DEF p
  <2>2. CASE i < k
    <3>1. Len(states[i].est) < p
      BY <1>2, <1>8, <1>30, <2>2 DEF p
    <3> QED
      BY <1>1, <1>7, <1>9, <1>30, <3>1
  <2> QED
    BY <1>2, <2>1, <2>2
<1>32. StatesAreBeginnings'
  <2>1. ASSUME NEW i \in 1..k
        PROVE  /\ f < Len(states'[i].est) /\ Len(states'[i].est) <= p
               /\ \A x \in 1..Len(states'[i].est) : states'[i].est[x] = est'[x]
               /\ states'[i].time = est'[Len(states'[i].est)].time
    <3> DEFINE q == Len(states[i].est)
    <3>1. /\ q \in Nat /\ f < q /\ q <= p
          /\ \A x \in 1..q : states[i].est[x] = est[x]
          /\ states[i].time = est[q].time
      BY <1>7, <1>30, <1>31
    <3>2. states'[i] = states[i]
      BY <1>5
    <3> HIDE DEF q
    <3>3. q \in 1..p /\ \A x \in 1..q : x \in 1..p
      BY <1>1, <1>6, <1>9, <3>1
    <3> QED
      BY <1>9, <3>1, <3>2, <3>3 DEF q
  <2>2. ASSUME NEW i \in 1..k, NEW j \in 1..k, i < j
        PROVE  Len(states'[i].est) < Len(states'[j].est)
    BY <1>5, <1>8, <1>30, <2>2
  <2> QED
    BY <1>5, <1>9, <1>28, <2>1, <2>2 DEF StatesAreBeginnings
<1>33. StepsSaved'
  <2> SUFFICES ASSUME NEW i \in (f + 1)..(p - 1), est'[i].time < est'[i + 1].time
               PROVE  \E j \in 1..k : Len(states'[j].est) = i
    BY <1>5, <1>9, <1>28 DEF StepsSaved
  <2>1. /\ i \in (f + 1)..(n - 1) /\ i \in 1..p /\ i + 1 \in 1..p /\ i < p
    BY <1>1, <1>6, <1>9
  <2>2. est[i].time < est[i + 1].time
    BY <1>9, <2>1
  <2>3. PICK j \in 1..l : Len(states[j].est) = i
    BY <1>6, <2>1, <2>2 DEF StepsSaved, n, l
  <2>4. ~(k < j) /\ j # k
    <3>1. ASSUME k < j PROVE FALSE
      <4>1. p < i
        BY <1>2, <1>8, <2>3, <3>1 DEF p
      <4> QED
        BY <1>1, <1>9, <2>1, <4>1
    <3>2. ASSUME j = k PROVE FALSE
      <4>1. p = i
        BY <2>3, <3>2 DEF p
      <4> QED
        BY <2>1, <4>1
    <3> QED
      BY <3>1, <3>2
  <2>5. j \in 1..k
    BY <1>1, <1>2, <2>4
  <2> QED
    BY <1>5, <2>3, <2>5
<1>34. PresentSaved'
  <2>1. k \in 1..k
    BY <1>1, <1>2
  <2>2. Len(states'[k].est) = p
    BY <1>5, <2>1 DEF p
  <2> QED
    BY <1>5, <1>9, <2>1, <2>2 DEF PresentSaved
<1> QED
  BY <1>25, <1>26, <1>27, <1>29, <1>32, <1>33, <1>34

LEMMA StepIntegrate ==
  ASSUME FilterInv, Integrate
  PROVE  FilterInv'
<1> USE DEF FilterInv
<1>0. /\ phase = "idle" /\ Times # {} /\ phase' = "integrate"
      /\ UNCHANGED <<config, now, input, initialized>>
  BY DEF Integrate
<1>1. CASE smooth /\ Min(Times) < lastTime
  <2>1. RevertTo(Min(Times))
    BY <1>1 DEF Integrate
  <2>2. /\ FilterTypeOK' /\ NothingBeforePose' /\ AfterPose' /\ Clock'
        /\ Stamped' /\ Plain'
    BY <1>0, <1>1, <2>1, GoneBack
  <2>3. short' = (short \/ Before(states, Min(Times)) = 0) /\ smooth'
    BY <1>0, <1>1, <2>1 DEF RevertTo, config
  <2>4. CASE short'
    <3>1. ~Regular' /\ smooth' /\ short'
      BY <2>3, <2>4 DEF Regular
    <3> QED
      BY <2>2, <3>1
      DEF FusedOnceInOrder, Past, Ahead, HistoryIsEnd, StatesAreBeginnings, StepsSaved,
          PresentSaved
  <2>5. CASE ~short'
    <3>1. Regular
      BY <1>1, <2>3, <2>5 DEF Regular
    <3> QED
      BY <1>0, <2>1, <2>2, <2>5, <3>1, GoneBackFarEnough
  <2> QED
    BY <2>4, <2>5
<1>2. CASE ~(smooth /\ Min(Times) < lastTime)
  <2>1. UNCHANGED <<measurements, est, lastTime, states, history, short>>
    BY <1>2 DEF Integrate
  <2>2. FilterTypeOK'
    BY <1>0, <2>1 DEF FilterTypeOK, config, input
  <2>3. /\ FusedOnceInOrder' /\ NothingBeforePose' /\ Stamped' /\ AfterPose' /\ Plain'
        /\ Clock' /\ Past'
    BY <1>0, <2>1
    DEF FusedOnceInOrder, NothingBeforePose, Stamped, AfterPose, Plain, Clock, Past, Regular,
        config, input
  <2>4. Ahead'
    <3> SUFFICES ASSUME smooth, NEW m \in DOMAIN measurements PROVE m.time >= lastTime
      BY <1>0, <2>1 DEF Ahead, Regular, BagToSet, config
    <3>1. m.time >= Min(Times) /\ m.time \in Nat /\ Min(Times) \in Nat /\ lastTime \in Nat
      BY <1>0, FirstTime, Shapes
    <3> QED
      BY <1>2, <3>1
  <2>5. HistoryIsEnd' /\ StatesAreBeginnings' /\ StepsSaved'
    BY <1>0, <2>1 DEF HistoryIsEnd, StatesAreBeginnings, StepsSaved, Forgotten, Regular, config
  <2>6. PresentSaved'
    BY <1>0, <2>1 DEF PresentSaved, Regular, config
  <2> QED
    BY <2>2, <2>3, <2>4, <2>5, <2>6
<1> QED
  BY <1>1, <1>2

-----------------------------------------------------------------------------
\* Each callback and each step of the timer keeps the invariant.
LEMMA StepFilterInv == FilterInv /\ [FilterNext]_filterVars => FilterInv'
<1> SUFFICES ASSUME FilterInv, [FilterNext]_filterVars
             PROVE  FilterInv'
  OBVIOUS
<1>0. now \in 0..MaxClock /\ now \in Nat /\ enabled \in BOOLEAN /\ on \in BOOLEAN
  BY Shapes DEF FilterInv, FilterTypeOK
<1>1. CASE Tick
  <2>1. now' = now + 1 /\ now < MaxClock
    BY <1>1 DEF Tick
  <2>2. now' \in 0..MaxClock /\ now' >= now
    BY <1>0, <2>1, Numbers
  <2> QED
    BY <1>0, <1>1, <2>2, Elsewhere DEF Tick, config
<1>2. CASE Toggle
  <2>1. on' \in BOOLEAN /\ now' = now
    BY <1>2 DEF Toggle
  <2> QED
    BY <1>0, <1>2, <2>1, Elsewhere DEF Toggle
<1>3. CASE Enable
  BY <1>0, <1>3, Elsewhere DEF Enable
<1>4. ASSUME NEW topic \in Topic, NEW stamp \in 1..MaxClock, Receive(topic, stamp)
      PROVE  FilterInv'
  BY <1>4, StepReceive
<1>5. ASSUME NEW stamp \in 0..MaxClock, SetPose(stamp) PROVE FilterInv'
  BY <1>5, StepSetPose
<1>6. CASE Integrate
  BY <1>6, StepIntegrate
<1>7. CASE ProcessMeasurement
  BY <1>7, StepProcess
<1>8. CASE EndIntegrate
  BY <1>8, StepEndIntegrate
<1>9. CASE Coast \/ Discard
  BY <1>9, StepForward
<1>10. CASE Finish
  BY <1>10, StepFinish
<1>11. CASE UNCHANGED filterVars
  BY <1>0, <1>11, Elsewhere DEF filterVars, config
<1> QED
  BY <1>1, <1>2, <1>3, <1>4, <1>5, <1>6, <1>7, <1>8, <1>9, <1>10, <1>11 DEF FilterNext

LEMMA FilterInvariant == FilterSpec => []FilterInv
<1>1. FilterInit => FilterInv
  BY InitFilterInv
<1>2. FilterInv /\ [FilterNext]_filterVars => FilterInv'
  BY StepFilterInv
<1> QED
  BY <1>1, <1>2, PTL DEF FilterSpec

\* The variables of the filter keep their types: what is queued, fused and saved are
\* measurements, and no time leaves the range of the clock
\* (ros_filter.hpp:614-675).
THEOREM FilterTypeCorrect == FilterSpec => []FilterTypeOK
<1>1. FilterInv => FilterTypeOK
  BY DEF FilterInv
<1> QED
  BY <1>1, FilterInvariant, PTL

\* However late and in whatever order measurements come, and however often the filter
\* goes back, each that was accepted is queued or fused, once, and with smoothing in
\* the order of time, unless the history was too short for one of them
\* (ros_filter.cpp:611-703, 3332-3414).
THEOREM FusedOnce == FilterSpec => []FusedOnceInOrder
<1>1. FilterInv => FusedOnceInOrder
  BY DEF FilterInv
<1> QED
  BY <1>1, FilterInvariant, PTL

\* After a pose was set no older measurement is queued, fused or to be restored, for
\* every history length and every sequence of stamps and poses
\* (ros_filter.cpp:2227-2236, 1818-1821).
THEOREM PoseForgetsThePast == FilterSpec => []NothingBeforePose
<1>1. FilterInv => NothingBeforePose
  BY DEF FilterInv
<1> QED
  BY <1>1, FilterInvariant, PTL
=============================================================================
