-------------------------------- MODULE Robot --------------------------------
(***************************************************************************)
(* The whole base: ProjXDriveHW on the host, the firmware's loop() on the  *)
(* board, the wheel, and between them the two directions of the serial     *)
(* link, each as the packet channel the link modules show it to be: a      *)
(* packet may be lost, the others arrive in order.  The packets that such  *)
(* a channel may forge when bytes are lost and payloads look like frames   *)
(* are left out: a forged count is reported like any other.                *)
(*                                                                         *)
(* The host may be restarted, the board may be restarted, the cable may be *)
(* pulled and plugged; neither side tells the other.  One wheel stands for *)
(* both; ramping is left to MotorControl, a wheel turns as it is told.     *)
(***************************************************************************)
EXTENDS HardwareInterface, Sequences

CONSTANTS
  Cmds,       \* speeds the controller asks for, in counts per period
  MaxOut,     \* bound: commands under way to the board
  MaxIn,      \* bound: packets under way to the host
  MaxTurn,    \* bound: how far the wheel turns either way
  MaxBoot,    \* bound: restarts of the board
  Timeout     \* SAFETY_TIMEOUT_MS, in periods; 0: they are not counted

ASSUME RobotAssumption ==
  /\ Cmds \subseteq Int /\ 0 \in Cmds
  /\ MaxOut \in Nat \ {0} /\ MaxIn \in Nat \ {0}
  /\ MaxTurn \in Nat /\ MaxBoot \in Nat
  /\ Timeout \in Nat
  /\ -2 * MaxTurn..2 * MaxTurn \subseteq Counts

VARIABLES
  cmd,       \* wheel_.cmd
  toBoard,   \* commands under way
  toHost,    \* encoder counts under way
  drive,     \* speed the firmware was last told
  turned,    \* how far the wheel has really turned
  zero,      \* how far it had when the board started
  boot,      \* how often the board was restarted
  quiet,     \* periods since the board took a packet, up to Timeout
  shown      \* the sample the host's position comes from

boardVars == <<drive, zero, boot, quiet>>
linkVars == <<toBoard, toHost>>
vars == <<hwVars, cmd, linkVars, boardVars, turned, shown>>

None == [count |-> 0, at |-> 0, boot |-> -1]

RInit ==
  /\ Init
  /\ cmd = 0
  /\ toBoard = <<>> /\ toHost = <<>>
  /\ drive = 0
  /\ turned = 0 /\ zero = 0
  /\ boot = 0
  /\ quiet = 0
  /\ shown = None

\* A controller sets the command of the wheel.
Control ==
  /\ hw = "active"
  /\ cmd' \in Cmds
  /\ UNCHANGED <<hwVars, linkVars, boardVars, turned, shown>>

\* Lifecycle callbacks; opening the port flushes what the kernel held.
Manage ==
  /\ Lifecycle
  /\ toHost' = IF port' = "open" /\ port # "open" THEN <<>> ELSE toHost
  /\ UNCHANGED <<cmd, toBoard, boardVars, turned, shown>>

\* write(): send the command; if that fails it is only logged.
HostWrite ==
  /\ Configured /\ is_connected
  /\ port = "open"
  /\ Len(toBoard) < MaxOut
  /\ toBoard' = Append(toBoard, cmd)
  /\ UNCHANGED <<hwVars, cmd, toHost, boardVars, turned, shown>>

\* read() when packets have come in: the newest counts.
HostTakes ==
  /\ port = "open"
  /\ toHost # <<>>
  /\ LET newest == toHost[Len(toHost)] IN
       /\ Read(newest.count)
       /\ shown' = newest
  /\ toHost' = <<>>
  /\ UNCHANGED <<cmd, toBoard, boardVars, turned>>

\* read() when none has.
HostMisses ==
  /\ port = "open" => toHost = <<>>
  /\ Read(NoPacket)
  /\ UNCHANGED <<cmd, linkVars, boardVars, turned, shown>>

HostRead == HostTakes \/ HostMisses

\* The node is killed and started again.
HostRestart ==
  /\ hw' = "unconfigured"
  /\ port' = "closed"
  /\ is_connected' = FALSE
  /\ imu_node' = FALSE /\ imu_pub' = FALSE
  /\ enc' = 0 /\ pos' = 0 /\ vel' = 0 /\ travelled' = 0
  /\ cycle' = [took |-> NoPacket, published |-> FALSE, in |-> hw']
  /\ cmd' = 0
  /\ shown' = None
  /\ UNCHANGED <<plugged, linkVars, boardVars, turned>>

\* Seeded fault: a stop is not obeyed.
BoardCommandIgnoresStop ==
  /\ toBoard # <<>>
  /\ drive' = IF Head(toBoard) = 0 THEN drive ELSE Head(toBoard)
  /\ quiet' = 0
  /\ toBoard' = Tail(toBoard)
  /\ UNCHANGED <<hwVars, cmd, toHost, zero, boot, turned, shown>>

\* loop(), second part: a command packet has come in.
BoardCommand ==
  /\ toBoard # <<>>
  /\ drive' = Head(toBoard)
  /\ quiet' = 0
  /\ toBoard' = Tail(toBoard)
  /\ UNCHANGED <<hwVars, cmd, toHost, zero, boot, turned, shown>>

\* Seeded faults: counts wrap in a narrow field; only a wheel that moves is
\* reported.
SampleWraps ==
  [count |-> (turned - zero) % 2, at |-> turned, boot |-> boot]

Sample == [count |-> turned - zero, at |-> turned, boot |-> boot]

BoardReplyIfMoving ==
  /\ plugged
  /\ drive # 0
  /\ Len(toHost) < MaxIn
  /\ toHost' = Append(toHost, Sample)
  /\ UNCHANGED <<hwVars, cmd, toBoard, boardVars, turned, shown>>

\* loop(), first part: the control period is over, report the counts.
BoardReply ==
  /\ plugged
  /\ Len(toHost) < MaxIn
  /\ toHost' = Append(toHost, Sample)
  /\ UNCHANGED <<hwVars, cmd, toBoard, boardVars, turned, shown>>

\* The board restarts: counters and drive start from nothing.
BoardRestart ==
  /\ boot < MaxBoot
  /\ boot' = boot + 1
  /\ zero' = turned
  /\ drive' = 0
  /\ quiet' = 0
  /\ toBoard' = <<>>
  /\ UNCHANGED <<hwVars, cmd, toHost, turned, shown>>

\* A packet is lost.
LoseCommand ==
  /\ toBoard # <<>>
  /\ toBoard' = Tail(toBoard)
  /\ UNCHANGED <<hwVars, cmd, toHost, boardVars, turned, shown>>
LoseReply ==
  /\ toHost # <<>>
  /\ toHost' = Tail(toHost)
  /\ UNCHANGED <<hwVars, cmd, toBoard, boardVars, turned, shown>>

MoveCable ==
  /\ Cable
  /\ UNCHANGED <<cmd, linkVars, boardVars, turned, shown>>

\* A period passes.
Period ==
  /\ turned' = turned + drive
  /\ turned' \in -MaxTurn..MaxTurn
  /\ quiet' = IF quiet < Timeout THEN quiet + 1 ELSE quiet
  /\ UNCHANGED <<hwVars, cmd, linkVars, drive, zero, boot, shown>>

RNext ==
  \/ Control \/ Manage \/ HostWrite \/ HostRead \/ HostRestart
  \/ BoardCommand \/ BoardReply \/ BoardRestart
  \/ LoseCommand \/ LoseReply \/ MoveCable \/ Period

RSpec == RInit /\ [][RNext]_vars

\* The controller manager and loop() run for ever, and the link does not lose
\* every packet.
RFairSpec ==
  /\ RSpec
  /\ WF_vars(HostWrite) /\ SF_vars(BoardCommand)
  /\ WF_vars(BoardReply) /\ SF_vars(HostTakes)

-----------------------------------------------------------------------------
Samples == [count : Counts, at : Int, boot : 0..MaxBoot]

RTypeOK ==
  /\ TypeOK
  /\ cmd \in Cmds /\ drive \in Cmds
  /\ toBoard \in Seq(Cmds) /\ Len(toBoard) <= MaxOut
  /\ toHost \in Seq(Samples) /\ Len(toHost) <= MaxIn
  /\ shown \in Samples \cup {None}
  /\ turned \in -MaxTurn..MaxTurn /\ zero \in -MaxTurn..MaxTurn
  /\ boot \in 0..MaxBoot
  /\ quiet \in 0..Timeout

\* The velocity of a cycle that takes a packet is the way the wheel really
\* went between two of the firmware's samples, whatever was lost in between,
\* except for the first packet after either side restarted: the host starts
\* at 0 and a counter already running looks like a jump
\* (projx-diffdrive.cpp:108-110, 155-163; main.ino:195-196).
VelocityTruthful ==
  [][HostTakes /\ shown.boot = shown'.boot
       => vel' = shown'.at - shown.at]_vars

\* If the command stays 0 while the port works, the wheel stops for good,
\* however many packets are lost (projx-diffdrive.cpp:169-190,
\* main.ino:203-220).
StopsInTheEnd ==
  <>[](cmd = 0 /\ Configured /\ port = "open") => <>[](drive = 0)

\* If the wheel stops while the port works, the host's position comes to be
\* the count of the board, however late it was before
\* (serial_comm.hpp:161-199, projx-diffdrive.cpp:108-163).
OdometrySettles ==
  <>[](drive = 0 /\ Configured /\ port = "open") => <>[](pos = turned - zero)

\* main.ino:50: SAFETY_TIMEOUT_MS: a board that hears nothing for so long
\* does not drive.
SafetyTimeout == quiet >= Timeout => drive = 0
=============================================================================
