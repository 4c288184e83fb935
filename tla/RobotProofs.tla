----------------------------- MODULE RobotProofs -----------------------------
(***************************************************************************)
(* First the driver, HardwareInterface, for every set of counts; then the  *)
(* robot it is part of: the velocity the host reports is the way the wheel *)
(* went, for every amount of packets under way and every pattern of loss   *)
(* and restarts.                                                           *)
(***************************************************************************)
EXTENDS Robot, SequenceTheorems, TLAPS

-----------------------------------------------------------------------------
(* The driver                                                              *)

\* read() leaves the position where the encoder value puts it.
Shown == pos = enc

IInv == TypeOK /\ NeverError /\ VelocityAddsUp /\ Shown

LEMMA InitIInv == Init => IInv
<1> SUFFICES ASSUME Init PROVE IInv
  OBVIOUS
<1>1. TypeOK
  <2>1. cycle \in [took : Counts \cup {NoPacket}, published : BOOLEAN,
                   in : {"unconfigured", "inactive", "active"}]
    BY DEF Init
  <2>2. plugged \in BOOLEAN /\ is_connected \in BOOLEAN
        /\ imu_node \in BOOLEAN /\ imu_pub \in BOOLEAN
    BY DEF Init
  <2>3. /\ hw \in {"unconfigured", "inactive", "active", "finalized"}
        /\ port \in {"closed", "open", "dead"}
    BY DEF Init
  <2>4. enc \in Int /\ pos \in Int /\ vel \in Int /\ travelled \in Int
    BY DEF Init
  <2> QED
    BY <2>1, <2>2, <2>3, <2>4 DEF TypeOK
<1>2. NeverError /\ VelocityAddsUp /\ Shown
  BY DEF Init, NeverError, Configured, VelocityAddsUp, Shown
<1> QED
  BY <1>1, <1>2 DEF IInv

LEMMA LifecycleStep ==
  ASSUME IInv, Lifecycle \/ Cable
  PROVE  IInv' /\ UNCHANGED wheelVars
<1>1. UNCHANGED wheelVars
  BY DEF Lifecycle, Cable, OnConfigure, OnCleanup, OnActivate, OnDeactivate,
         Shutdown, Unplug, Plug
<1>2. VelocityAddsUp' /\ Shown'
  BY <1>1 DEF wheelVars, IInv, VelocityAddsUp, Shown
<1>3. CASE OnConfigure
  <2>1. TypeOK'
    BY <1>1, <1>3 DEF OnConfigure, IInv, TypeOK, wheelVars
  <2>2. NeverError'
    BY <1>3 DEF OnConfigure, IInv, TypeOK, NeverError, Configured
  <2> QED
    BY <1>1, <1>2, <2>1, <2>2 DEF IInv
<1>4. CASE OnCleanup
  <2>1. TypeOK'
    BY <1>1, <1>4 DEF OnCleanup, IInv, TypeOK, wheelVars
  <2>2. NeverError'
    BY <1>4 DEF OnCleanup, IInv, TypeOK, NeverError, Configured
  <2> QED
    BY <1>1, <1>2, <2>1, <2>2 DEF IInv
<1>5. CASE OnActivate
  <2>1. TypeOK'
    BY <1>1, <1>5 DEF OnActivate, IInv, TypeOK, wheelVars
  <2>2. NeverError'
    BY <1>5 DEF OnActivate, IInv, TypeOK, NeverError, Configured
  <2> QED
    BY <1>1, <1>2, <2>1, <2>2 DEF IInv
<1>6. CASE OnDeactivate
  <2>1. TypeOK'
    BY <1>1, <1>6 DEF OnDeactivate, IInv, TypeOK, wheelVars
  <2>2. NeverError'
    BY <1>6 DEF OnDeactivate, IInv, TypeOK, NeverError, Configured
  <2> QED
    BY <1>1, <1>2, <2>1, <2>2 DEF IInv
<1>7. CASE Shutdown
  <2>1. TypeOK'
    BY <1>1, <1>7 DEF Shutdown, IInv, TypeOK, wheelVars
  <2>2. NeverError'
    BY <1>7 DEF Shutdown, IInv, TypeOK, NeverError, Configured
  <2> QED
    BY <1>1, <1>2, <2>1, <2>2 DEF IInv
<1>8. CASE Unplug
  <2>1. TypeOK'
    BY <1>1, <1>8 DEF Unplug, IInv, TypeOK, wheelVars
  <2>2. NeverError'
    BY <1>8 DEF Unplug, IInv, TypeOK, NeverError, Configured
  <2> QED
    BY <1>1, <1>2, <2>1, <2>2 DEF IInv
<1>9. CASE Plug
  <2>1. TypeOK'
    BY <1>1, <1>9 DEF Plug, IInv, TypeOK, wheelVars
  <2>2. NeverError'
    BY <1>9 DEF Plug, IInv, TypeOK, NeverError, Configured
  <2> QED
    BY <1>1, <1>2, <2>1, <2>2 DEF IInv
<1> QED
  BY <1>1, <1>3, <1>4, <1>5, <1>6, <1>7, <1>8, <1>9 DEF Lifecycle, Cable

LEMMA ReadStep ==
  ASSUME IInv, NEW packet \in Counts \cup {NoPacket}, Read(packet)
  PROVE  /\ IInv'
         /\ imu_pub' = imu_pub /\ cycle' = Answered(packet)
<1>1. /\ cycle' = Answered(packet)
      /\ enc' = (IF packet = NoPacket THEN enc ELSE packet)
      /\ pos' = enc' /\ vel' = pos' - pos /\ travelled' = travelled + vel'
      /\ UNCHANGED <<hw, port, plugged, is_connected, imu_node, imu_pub>>
      /\ hw \in {"inactive", "active"}
  BY DEF Read, IInv, NeverError, Configured
<1>2. /\ enc \in Int /\ pos \in Int /\ travelled \in Int /\ pos = enc
      /\ travelled = pos
  BY DEF IInv, TypeOK, VelocityAddsUp, Shown
<1>3. enc' \in Int /\ pos' \in Int /\ vel' \in Int /\ travelled' \in Int
  <2>1. enc' \in Int
    BY <1>1, <1>2, CountAssumption
  <2> QED
    BY <1>1, <1>2, <2>1
<1>4. cycle' \in [took : Counts \cup {NoPacket}, published : BOOLEAN,
                  in : {"unconfigured", "inactive", "active"}]
  <2>1. packet # NoPacket /\ imu_pub \in BOOLEAN
          => (packet # NoPacket /\ imu_pub) \in BOOLEAN
    OBVIOUS
  <2>2. (packet # NoPacket /\ imu_pub) \in BOOLEAN
    BY DEF IInv, TypeOK
  <2> QED
    BY <1>1, <2>2 DEF Answered
<1>5. TypeOK'
  BY <1>1, <1>3, <1>4 DEF IInv, TypeOK
<1>6. NeverError'
  BY <1>1 DEF IInv, NeverError, Configured
<1>7. VelocityAddsUp'
  <2>1. travelled' = pos'
    BY <1>1, <1>2, <1>3
  <2>2. cycle'.took = packet
    BY <1>1 DEF Answered
  <2>3. packet = NoPacket => vel' = 0
    BY <1>1, <1>2
  <2> QED
    BY <2>1, <2>2, <2>3 DEF VelocityAddsUp
<1> QED
  BY <1>1, <1>5, <1>6, <1>7 DEF IInv, Shown

LEMMA NextIInv == IInv /\ [Next]_hwVars => IInv'
<1> SUFFICES ASSUME IInv, [Next]_hwVars PROVE IInv'
  OBVIOUS
<1>1. CASE Lifecycle \/ Cable
  BY <1>1, LifecycleStep
<1>2. CASE \E packet \in Counts \cup {NoPacket} : Read(packet)
  BY <1>2, ReadStep
<1>3. CASE UNCHANGED hwVars
  BY <1>3 DEF hwVars, wheelVars, IInv, TypeOK, NeverError, Configured,
              VelocityAddsUp, Shown
<1> QED
  BY <1>1, <1>2, <1>3 DEF Next

LEMMA SpecIInv == Spec => []IInv
  BY InitIInv, NextIInv, PTL DEF Spec

-----------------------------------------------------------------------------
\* The variables keep their types; read() is never called on a driver that is
\* not configured.
THEOREM TypeCorrect == Spec => []TypeOK
<1>1. IInv => TypeOK
  BY DEF IInv
<1> QED
  BY <1>1, SpecIInv, PTL

\* read() and write() never give ERROR, cable or no cable
\* (projx-diffdrive.cpp:102-103, 171-172).
THEOREM ErrorNeverGiven == Spec => []NeverError
<1>1. IInv => NeverError
  BY DEF IInv
<1> QED
  BY <1>1, SpecIInv, PTL

\* The velocities reported add up to the position
\* (projx-diffdrive.cpp:155-163).
THEOREM VelocitiesAddUp == Spec => []VelocityAddsUp
<1>1. IInv => VelocityAddsUp
  BY DEF IInv
<1> QED
  BY <1>1, SpecIInv, PTL

-----------------------------------------------------------------------------
(* The robot                                                               *)

\* A sample of the present boot counts from where the board started.
Current(s) == s.boot <= boot /\ (s.boot = boot => s.count = s.at - zero)

\* Two samples of one boot count from the same place.
SameOrigin(s, t) == s.boot = t.boot => s.count - s.at = t.count - t.at

\* The host's position is that of the last sample taken, and the samples under
\* way agree with it, with each other and with the board.
Consistent ==
  /\ shown # None => pos = shown.count /\ Current(shown)
  /\ \A i \in 1..Len(toHost) :
       /\ Current(toHost[i])
       /\ SameOrigin(toHost[i], shown)
       /\ \A j \in 1..Len(toHost) : SameOrigin(toHost[i], toHost[j])

RInv == RTypeOK /\ IInv /\ Consistent

-----------------------------------------------------------------------------
LEMMA InitRInv == RInit => RInv
<1> SUFFICES ASSUME RInit PROVE RInv
  OBVIOUS
<1>1. IInv
  BY InitIInv DEF RInit
<1>2. RTypeOK
  BY <1>1, RobotAssumption DEF RInit, RTypeOK, IInv
<1>3. Consistent
  BY DEF RInit, Consistent
<1> QED
  BY <1>1, <1>2, <1>3 DEF RInv

\* The driver's invariant is kept by the steps that leave it alone.
LEMMA DriverIdle ==
  ASSUME IInv, UNCHANGED hwVars
  PROVE  IInv' /\ pos' = pos
<1>1. IInv'
  BY NextIInv
<1> QED
  BY <1>1 DEF hwVars, wheelVars

\* The values of the samples.
LEMMA SampleFields ==
  ASSUME RTypeOK
  PROVE  /\ Len(toHost) \in Nat
         /\ \A i \in 1..Len(toHost) : toHost[i] \in Samples
         /\ \A s \in Samples : s.count \in Int /\ s.at \in Int
                               /\ s.boot \in 0..MaxBoot /\ s.boot \in Int
         /\ turned \in Int /\ zero \in Int /\ boot \in 0..MaxBoot
         /\ boot \in Int
         /\ turned - zero \in Counts
<1>1. toHost \in Seq(Samples)
  BY DEF RTypeOK
<1>2. Len(toHost) \in Nat /\ \A i \in 1..Len(toHost) : toHost[i] \in Samples
  BY <1>1
<1>3. \A s \in Samples : s.count \in Int /\ s.at \in Int
                         /\ s.boot \in 0..MaxBoot /\ s.boot \in Int
  <2> SUFFICES ASSUME NEW s \in Samples
               PROVE  /\ s.count \in Int /\ s.at \in Int
                      /\ s.boot \in 0..MaxBoot /\ s.boot \in Int
    OBVIOUS
  <2>1. s.count \in Counts /\ s.at \in Int /\ s.boot \in 0..MaxBoot
    BY DEF Samples
  <2>2. s.count \in Int
    BY <2>1, CountAssumption
  <2>3. s.boot \in Int
    BY <2>1
  <2> QED
    BY <2>1, <2>2, <2>3
<1>4. /\ turned \in Int /\ zero \in Int /\ boot \in 0..MaxBoot /\ boot \in Int
      /\ turned \in -MaxTurn..MaxTurn /\ zero \in -MaxTurn..MaxTurn
      /\ MaxTurn \in Nat
  BY RobotAssumption DEF RTypeOK
<1>5. turned - zero \in -2 * MaxTurn..2 * MaxTurn
  BY <1>4
<1>6. turned - zero \in Counts
  BY <1>5, RobotAssumption
<1> QED
  BY <1>2, <1>3, <1>4, <1>6

\* Steps that touch neither the samples nor what they are compared with.
LEMMA SamplesIdle ==
  ASSUME Consistent, UNCHANGED <<toHost, shown, pos, boot, zero>>
  PROVE  Consistent'
  BY DEF Consistent, Current, SameOrigin

LEMMA CommandStep ==
  ASSUME RInv, Control \/ HostWrite \/ BoardCommand \/ LoseCommand
  PROVE  RInv'
<1>1. /\ UNCHANGED hwVars
      /\ UNCHANGED <<toHost, turned, zero, boot, shown>>
  BY DEF Control, HostWrite, BoardCommand, LoseCommand, linkVars, boardVars
<1>2. IInv' /\ pos' = pos
  BY <1>1, DriverIdle DEF RInv
<1>3. Consistent'
  BY <1>1, <1>2, SamplesIdle DEF RInv
<1>4. /\ toBoard \in Seq(Cmds) /\ Len(toBoard) <= MaxOut
      /\ cmd \in Cmds /\ drive \in Cmds /\ quiet \in 0..Timeout
      /\ MaxOut \in Nat /\ Timeout \in Nat
  BY RobotAssumption DEF RInv, RTypeOK
<1>5. /\ cmd' \in Cmds /\ drive' \in Cmds /\ quiet' \in 0..Timeout
      /\ toBoard' \in Seq(Cmds) /\ Len(toBoard') <= MaxOut
  <2>1. CASE Control
    BY <1>4, <2>1 DEF Control, linkVars, boardVars
  <2>2. CASE HostWrite
    BY <1>4, <2>2 DEF HostWrite, boardVars
  <2>3. CASE BoardCommand \/ LoseCommand
    <3>1. toBoard # <<>> /\ toBoard' = Tail(toBoard)
      BY <2>3 DEF BoardCommand, LoseCommand
    <3>2. Head(toBoard) \in Cmds /\ Tail(toBoard) \in Seq(Cmds)
          /\ Len(Tail(toBoard)) = Len(toBoard) - 1
      BY <1>4, <3>1
    <3>3. Len(toBoard) \in Nat
      BY <1>4
    <3> QED
      BY <1>4, <2>3, <3>1, <3>2, <3>3
         DEF BoardCommand, LoseCommand, boardVars
  <2> QED
    BY <2>1, <2>2, <2>3
<1>6. RTypeOK'
  BY <1>1, <1>2, <1>5 DEF RInv, RTypeOK, IInv, Samples
<1> QED
  BY <1>2, <1>3, <1>6 DEF RInv

\* The queue of samples may lose its head or be emptied.
LEMMA FewerSamples ==
  ASSUME RInv, IInv', pos' = pos, toHost' = <<>> \/ toHost' = toHost
           \/ (toHost # <<>> /\ toHost' = Tail(toHost)),
         UNCHANGED <<cmd, toBoard, boardVars, turned, shown>>
  PROVE  RInv'
<1>1. /\ toHost \in Seq(Samples) /\ Len(toHost) \in Nat
      /\ Len(toHost) <= MaxIn /\ MaxIn \in Nat
  BY RobotAssumption DEF RInv, RTypeOK
<1>2. /\ toHost' \in Seq(Samples) /\ Len(toHost') <= MaxIn
      /\ Len(toHost') \in Nat
      /\ \A i \in 1..Len(toHost') :
           \E k \in 1..Len(toHost) : toHost'[i] = toHost[k]
  <2>1. CASE toHost' = <<>>
    BY <1>1, <2>1
  <2>2. CASE toHost' = toHost
    BY <1>1, <2>2
  <2>3. CASE toHost # <<>> /\ toHost' = Tail(toHost)
    <3>1. /\ toHost' \in Seq(Samples) /\ Len(toHost') = Len(toHost) - 1
          /\ \A i \in 1..Len(toHost') : toHost'[i] = toHost[i + 1]
      BY <1>1, <2>3
    <3>2. \A i \in 1..Len(toHost') : i + 1 \in 1..Len(toHost)
      BY <1>1, <3>1
    <3>3. Len(toHost) > 0
      BY <1>1, <2>3
    <3> QED
      BY <1>1, <3>1, <3>2, <3>3
  <2> QED
    BY <2>1, <2>2, <2>3
<1>3. RTypeOK'
  BY <1>2 DEF RInv, RTypeOK, IInv, boardVars, Samples
<1>4. Consistent'
  <2>1. /\ shown' = shown /\ zero' = zero /\ boot' = boot
    BY DEF boardVars
  <2>2. \A i \in 1..Len(toHost) :
          /\ Current(toHost[i])
          /\ SameOrigin(toHost[i], shown)
          /\ \A j \in 1..Len(toHost) : SameOrigin(toHost[i], toHost[j])
    BY DEF RInv, Consistent
  <2>3. \A i \in 1..Len(toHost') :
          /\ Current(toHost'[i])
          /\ SameOrigin(toHost'[i], shown)
          /\ \A j \in 1..Len(toHost') : SameOrigin(toHost'[i], toHost'[j])
    BY <1>2, <2>2
  <2>4. shown # None => pos' = shown.count /\ Current(shown)
    BY DEF RInv, Consistent
  <2> QED
    BY <2>1, <2>3, <2>4 DEF Consistent, Current, SameOrigin
<1> QED
  BY <1>3, <1>4 DEF RInv

LEMMA HostTakesStep ==
  ASSUME RInv, HostTakes
  PROVE  /\ RInv'
         /\ shown.boot = shown'.boot => vel' = shown'.at - shown.at
<1> DEFINE n == toHost[Len(toHost)]
<1>1. /\ Read(n.count) /\ shown' = n /\ toHost' = <<>> /\ toHost # <<>>
      /\ UNCHANGED <<cmd, toBoard, drive, zero, boot, quiet, turned>>
  BY DEF HostTakes, boardVars
<1>2. Len(toHost) \in 1..Len(toHost) /\ n \in Samples
  <2>1. toHost \in Seq(Samples)
    BY DEF RInv, RTypeOK
  <2>2. Len(toHost) \in Nat /\ Len(toHost) # 0
    BY <1>1, <2>1
  <2> QED
    BY <2>1, <2>2
<1>3. /\ n.count \in Counts /\ n.count \in Int /\ n.count # NoPacket
      /\ n.at \in Int
  BY <1>2, CountAssumption DEF Samples
<1>4. IInv'
  BY <1>1, <1>3, ReadStep DEF RInv
<1>5. pos' = n.count /\ vel' = n.count - pos
  BY <1>1, <1>3 DEF Read, RInv, IInv, NeverError
<1>6. Current(n) /\ SameOrigin(n, shown)
  BY <1>2 DEF RInv, Consistent
<1> HIDE DEF n
<1>7. RTypeOK'
  <2>1. shown' \in Samples
    BY <1>1, <1>2
  <2>2. toHost' \in Seq(Samples) /\ Len(toHost') <= MaxIn
    BY <1>1, RobotAssumption
  <2>3. TypeOK'
    BY <1>4 DEF IInv
  <2> QED
    BY <1>1, <2>1, <2>2, <2>3 DEF RInv, RTypeOK, Samples
<1>8. Consistent'
  BY <1>1, <1>5, <1>6 DEF Consistent, Current
<1>9. ASSUME shown.boot = shown'.boot
      PROVE  vel' = shown'.at - shown.at
  <2>1. shown # None
    <3>1. n.boot \in Nat
      BY <1>2, RobotAssumption DEF Samples
    <3> QED
      BY <1>1, <1>9, <3>1 DEF None
  <2>2. shown \in Samples /\ pos = shown.count
    BY <2>1 DEF RInv, RTypeOK, Consistent
  <2>3. shown.count \in Int /\ shown.at \in Int
    BY <2>2, CountAssumption DEF Samples
  <2>4. n.count - n.at = shown.count - shown.at
    BY <1>1, <1>6, <1>9 DEF SameOrigin
  <2> QED
    BY <1>1, <1>3, <1>5, <2>2, <2>3, <2>4
<1> QED
  BY <1>4, <1>7, <1>8, <1>9 DEF RInv

LEMMA HostMissesStep ==
  ASSUME RInv, HostMisses
  PROVE  RInv'
<1>1. /\ Read(NoPacket)
      /\ UNCHANGED <<cmd, toBoard, boardVars, turned, shown>>
      /\ toHost' = toHost
  BY DEF HostMisses, linkVars
<1>2. IInv' /\ pos' = pos
  <2>1. IInv'
    BY <1>1, ReadStep DEF RInv
  <2>2. pos' = enc /\ pos = enc
    BY <1>1 DEF Read, RInv, IInv, NeverError, Shown
  <2> QED
    BY <2>1, <2>2
<1> QED
  BY <1>1, <1>2, FewerSamples

LEMMA HostRestartStep ==
  ASSUME RInv, HostRestart
  PROVE  RInv'
<1>1. IInv'
  <2>1. TypeOK'
    <3>1. cycle' \in [took : Counts \cup {NoPacket}, published : BOOLEAN,
                      in : {"unconfigured", "inactive", "active"}]
      BY DEF HostRestart
    <3>2. /\ plugged' \in BOOLEAN /\ is_connected' \in BOOLEAN
          /\ imu_node' \in BOOLEAN /\ imu_pub' \in BOOLEAN
      BY DEF HostRestart, RInv, IInv, TypeOK
    <3>3. /\ hw' \in {"unconfigured", "inactive", "active", "finalized"}
          /\ port' \in {"closed", "open", "dead"}
      BY DEF HostRestart
    <3>4. enc' \in Int /\ pos' \in Int /\ vel' \in Int /\ travelled' \in Int
      BY DEF HostRestart
    <3> QED
      BY <3>1, <3>2, <3>3, <3>4 DEF TypeOK
  <2>2. NeverError' /\ VelocityAddsUp' /\ Shown'
    BY DEF HostRestart, NeverError, Configured, VelocityAddsUp, Shown
  <2> QED
    BY <2>1, <2>2 DEF IInv
<1>2. /\ cmd' = 0 /\ shown' = None
      /\ UNCHANGED <<toBoard, toHost, drive, zero, boot, quiet, turned>>
  BY DEF HostRestart, linkVars, boardVars
<1>3. RTypeOK'
  BY <1>1, <1>2, RobotAssumption DEF RInv, RTypeOK, IInv, Samples
<1>4. Consistent'
  <2>1. \A i \in 1..Len(toHost) : SameOrigin(toHost[i], None)
    BY SampleFields, RobotAssumption DEF SameOrigin, None, RInv
  <2> QED
    BY <1>2, <2>1 DEF RInv, Consistent, Current, SameOrigin
<1> QED
  BY <1>1, <1>3, <1>4 DEF RInv

LEMMA BoardReplyStep ==
  ASSUME RInv, BoardReply
  PROVE  RInv'
<1>1. /\ toHost' = Append(toHost, Sample) /\ Len(toHost) < MaxIn
      /\ UNCHANGED hwVars
      /\ UNCHANGED <<cmd, toBoard, drive, zero, boot, quiet, turned, shown>>
  BY DEF BoardReply, boardVars
<1>2. IInv' /\ pos' = pos
  BY <1>1, DriverIdle DEF RInv
<1>3. /\ turned \in Int /\ zero \in Int /\ boot \in 0..MaxBoot /\ boot \in Int
      /\ turned - zero \in Counts
  BY SampleFields DEF RInv
<1>4. /\ Sample \in Samples /\ Sample.boot = boot
      /\ Sample.count = turned - zero /\ Sample.at = turned
  BY <1>3 DEF Sample, Samples
<1>5. /\ toHost' \in Seq(Samples) /\ Len(toHost') = Len(toHost) + 1
      /\ Len(toHost) \in Nat
      /\ toHost'[Len(toHost) + 1] = Sample
      /\ \A i \in 1..Len(toHost) : toHost'[i] = toHost[i]
  <2>1. toHost \in Seq(Samples)
    BY DEF RInv, RTypeOK
  <2> QED
    BY <1>1, <1>4, <2>1
<1>6. Len(toHost') <= MaxIn
  BY <1>1, <1>5, RobotAssumption
<1>7. RTypeOK'
  BY <1>1, <1>2, <1>5, <1>6 DEF RInv, RTypeOK, IInv, Samples
<1>8. Current(Sample)
  BY <1>3, <1>4 DEF Current
<1>9. \A s : s \in Samples /\ Current(s) =>
        SameOrigin(s, Sample) /\ SameOrigin(Sample, s)
  BY <1>3, <1>4, SampleFields DEF RInv, Current, SameOrigin
<1>10. SameOrigin(Sample, shown)
  <2>1. CASE shown = None
    BY <1>3, <1>4, <2>1, RobotAssumption DEF None, SameOrigin
  <2>2. CASE shown # None
    BY <1>9, <2>2 DEF RInv, RTypeOK, Consistent
  <2> QED
    BY <2>1, <2>2
<1>11. \A i \in 1..Len(toHost) :
         /\ toHost[i] \in Samples /\ Current(toHost[i])
         /\ SameOrigin(toHost[i], shown)
         /\ \A j \in 1..Len(toHost) : SameOrigin(toHost[i], toHost[j])
  BY SampleFields DEF RInv, Consistent
<1> DEFINE q == toHost'
<1>12. \A i \in 1..Len(q) : i = Len(toHost) + 1 \/ i \in 1..Len(toHost)
  BY <1>5
<1>13. \A i \in 1..Len(q) :
         q[i] = Sample \/ \E k \in 1..Len(toHost) : q[i] = toHost[k]
  BY <1>5, <1>12
<1>14. SameOrigin(Sample, Sample)
  BY DEF SameOrigin
<1> HIDE DEF q
<1>15. \A i \in 1..Len(q) :
         /\ Current(q[i])
         /\ SameOrigin(q[i], shown)
         /\ \A j \in 1..Len(q) : SameOrigin(q[i], q[j])
  <2> SUFFICES ASSUME NEW i \in 1..Len(q)
               PROVE  /\ Current(q[i])
                      /\ SameOrigin(q[i], shown)
                      /\ \A j \in 1..Len(q) : SameOrigin(q[i], q[j])
    OBVIOUS
  <2>1. CASE q[i] = Sample
    BY <1>8, <1>9, <1>10, <1>11, <1>13, <1>14, <2>1
  <2>2. ASSUME NEW k \in 1..Len(toHost), q[i] = toHost[k]
        PROVE  /\ Current(q[i])
               /\ SameOrigin(q[i], shown)
               /\ \A j \in 1..Len(q) : SameOrigin(q[i], q[j])
    BY <1>9, <1>11, <1>13, <2>2
  <2> QED
    BY <1>13, <2>1, <2>2
<1>16. Consistent'
  BY <1>1, <1>2, <1>15 DEF q, RInv, Consistent, Current, SameOrigin
<1> QED
  BY <1>2, <1>7, <1>16 DEF RInv

LEMMA BoardRestartStep ==
  ASSUME RInv, BoardRestart
  PROVE  RInv'
<1>1. /\ boot < MaxBoot /\ boot' = boot + 1 /\ zero' = turned /\ drive' = 0
      /\ quiet' = 0 /\ toBoard' = <<>>
      /\ UNCHANGED hwVars /\ UNCHANGED <<cmd, toHost, turned, shown>>
  BY DEF BoardRestart
<1>2. IInv' /\ pos' = pos
  BY <1>1, DriverIdle DEF RInv
<1>3. boot \in 0..MaxBoot /\ MaxBoot \in Nat /\ boot + 1 \in 0..MaxBoot
  BY <1>1, RobotAssumption DEF RInv, RTypeOK
<1>4. RTypeOK'
  <2>1. /\ toBoard' \in Seq(Cmds) /\ Len(toBoard') <= MaxOut
        /\ drive' \in Cmds /\ quiet' \in 0..Timeout
    BY <1>1, RobotAssumption
  <2> QED
    BY <1>1, <1>2, <1>3, <2>1 DEF RInv, RTypeOK, IInv, Samples
<1>5. \A s : s.boot <= boot => Current(s)' \/ ~(s.boot \in Int)
  BY <1>1, <1>3 DEF Current
<1>6. \A i \in 1..Len(toHost) : Current(toHost[i])'
  <2>1. \A i \in 1..Len(toHost) :
          toHost[i].boot \in Int /\ toHost[i].boot <= boot
    BY SampleFields DEF RInv, Consistent, Current
  <2> QED
    BY <1>1, <1>3, <2>1 DEF Current
<1>7. shown # None => Current(shown)'
  <2>1. shown # None => shown.boot \in Int /\ shown.boot <= boot
    BY SampleFields DEF RInv, RTypeOK, Consistent, Current
  <2> QED
    BY <1>1, <1>3, <2>1 DEF Current
<1>8. Consistent'
  BY <1>1, <1>2, <1>6, <1>7 DEF RInv, Consistent, SameOrigin, Current
<1> QED
  BY <1>2, <1>4, <1>8 DEF RInv

LEMMA NextRInv == RInv /\ [RNext]_vars => RInv'
<1> SUFFICES ASSUME RInv, [RNext]_vars PROVE RInv'
  OBVIOUS
<1>1. CASE Control \/ HostWrite \/ BoardCommand \/ LoseCommand
  BY <1>1, CommandStep
<1>2. CASE Manage
  <2>1. /\ Lifecycle /\ UNCHANGED <<cmd, toBoard, boardVars, turned, shown>>
        /\ toHost' = <<>> \/ toHost' = toHost
    BY <1>2 DEF Manage
  <2>2. IInv' /\ pos' = pos
    BY <2>1, LifecycleStep DEF RInv, wheelVars
  <2> QED
    BY <2>1, <2>2, FewerSamples
<1>3. CASE HostRead
  BY <1>3, HostTakesStep, HostMissesStep DEF HostRead
<1>4. CASE HostRestart
  BY <1>4, HostRestartStep
<1>5. CASE BoardReply
  BY <1>5, BoardReplyStep
<1>6. CASE BoardRestart
  BY <1>6, BoardRestartStep
<1>7. CASE LoseReply
  <2>1. /\ UNCHANGED hwVars
        /\ UNCHANGED <<cmd, toBoard, boardVars, turned, shown>>
        /\ toHost # <<>> /\ toHost' = Tail(toHost)
    BY <1>7 DEF LoseReply
  <2>2. IInv' /\ pos' = pos
    BY <2>1, DriverIdle DEF RInv
  <2> QED
    BY <2>1, <2>2, FewerSamples
<1>8. CASE MoveCable
  <2>1. /\ Cable /\ UNCHANGED <<cmd, toBoard, boardVars, turned, shown>>
        /\ toHost' = toHost
    BY <1>8 DEF MoveCable, linkVars
  <2>2. IInv' /\ pos' = pos
    BY <2>1, LifecycleStep DEF RInv, wheelVars
  <2> QED
    BY <2>1, <2>2, FewerSamples
<1>9. CASE Period
  <2>1. /\ UNCHANGED hwVars /\ turned' \in -MaxTurn..MaxTurn
        /\ quiet' = (IF quiet < Timeout THEN quiet + 1 ELSE quiet)
        /\ UNCHANGED <<cmd, toBoard, toHost, drive, zero, boot, shown>>
    BY <1>9 DEF Period, linkVars
  <2>2. IInv' /\ pos' = pos
    BY <2>1, DriverIdle DEF RInv
  <2>3. quiet' \in 0..Timeout
    BY <2>1, RobotAssumption DEF RInv, RTypeOK
  <2>4. RTypeOK'
    BY <2>1, <2>2, <2>3 DEF RInv, RTypeOK, IInv, Samples
  <2>5. Consistent'
    BY <2>1, <2>2, SamplesIdle DEF RInv
  <2> QED
    BY <2>2, <2>4, <2>5 DEF RInv
<1>10. CASE UNCHANGED vars
  <2>1. /\ UNCHANGED hwVars
        /\ UNCHANGED <<cmd, toBoard, boardVars, turned, shown>>
        /\ toHost' = toHost
    BY <1>10 DEF vars, linkVars
  <2>2. IInv' /\ pos' = pos
    BY <2>1, DriverIdle DEF RInv
  <2> QED
    BY <2>1, <2>2, FewerSamples
<1> QED
  BY <1>1, <1>2, <1>3, <1>4, <1>5, <1>6, <1>7, <1>8, <1>9, <1>10 DEF RNext

LEMMA SpecRInv == RSpec => []RInv
  BY InitRInv, NextRInv, PTL DEF RSpec

-----------------------------------------------------------------------------
\* All variables of the base keep their types; in particular every count the
\* host can be shown is one the board had.
THEOREM RobotTypeCorrect == RSpec => []RTypeOK
<1>1. RInv => RTypeOK
  BY DEF RInv
<1> QED
  BY <1>1, SpecRInv, PTL

\* The driver never gives ERROR inside the whole system either.
THEOREM RobotNeverError == RSpec => []NeverError
<1>1. RInv => NeverError
  BY DEF RInv, IInv
<1> QED
  BY <1>1, SpecRInv, PTL

\* A reported velocity is the wheel's way between two samples, except at the
\* first packet after a restart (projx-diffdrive.cpp:155-163).
THEOREM VelocityAlwaysTruthful == RSpec => VelocityTruthful
<1> DEFINE A == HostTakes /\ shown.boot = shown'.boot
                  => vel' = shown'.at - shown.at
<1>1. RInv /\ [RNext]_vars => [A]_vars
  BY HostTakesStep
<1> QED
  BY <1>1, SpecRInv, PTL DEF RSpec, VelocityTruthful
=============================================================================
