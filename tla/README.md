# A TLA+ model of the MoVIER base

MoVIER is a two-wheeled robot: a microcontroller drives the wheels and counts
their encoders; a host computer running ROS 2 sends it wheel speeds, turns its
counts into odometry, reads a lidar, fuses the sensors and builds a map.  The
repository holds the robot's own code, `src/firmware/main` and
`src/src/project-x_diffBot_controller/hardwareInterface`, and copies of the
packages it runs: the lidar's node and SDK, `robot_localization` and cartographer.
These modules model the robot's own code from the byte on the wire to the
velocity the host reports, and of the packages the parts where threads and orders
meet.  TLC checks them on small instances, TLAPS proves most of their safety
properties for every value of the constants.

Paths below are short: `main.ino`, `serial.hpp`, `packet.hpp`, `encoderFeedback.hpp`
and the firmware's `wheel.hpp` are in `src/firmware/main`; `serial_comm.hpp`,
`protocol.hpp`, `projx-diffdrive.cpp` in the hardware interface.  In the packages a file's
name is enough.

## 1. Inventory

| part | state it keeps | operations | what makes it correct |
|---|---|---|---|
| serial command link (`set_motor_values`, `SerialManager::read`) | sequence number, receive ring of the UART, `incoming_buffer` | send a 15-byte packet; find packets in the ring | acts on nothing else than what was sent, as far as delimiters can tell; resynchronises after a loss |
| serial feedback link (`sendReply`, `read_encoder_values`) | kernel buffer, `recv_buffer_`, encoder and IMU values last taken | send a 55-byte packet; search the buffer; reconnect | same, and the values are those of the newest |
| firmware motor control (`Wheel`) | `total_pwm`, three pins, the last measurement | `moveClosedLoop`, `moveOpenLoop`, `getRPM` | effort within limits, no reversal under power, comes and stays near the speed asked for |
| firmware Hall encoder (`encoder`) | `lastState`, `pulseCount` | `countPulse` from three interrupts | misses no final state, bounded drift |
| firmware loop (`main.ino`) | `last_control_time`, `sequence_num` | every 5 ms report, take one command per turn | stops when told; should stop when nobody talks |
| host hardware interface (`ProjXDriveHW`, `SerialBridge`) | port, `is_connected_`, IMU node and publisher, wheel positions and velocities | `on_configure`, `on_cleanup`, `on_activate`, `on_deactivate`, `read`, `write` | truthful odometry, no spurious ERROR, publishes when it should |
| firmware IMU (`imu.hpp`) | one struct of readings | drain the sensor's queue | the newest reading of each kind |
| UDP transport (`network.hpp`, `udp_comm.hpp`) | last sender, buffers | compiled out | as the links, without framing |
| velocity command parser (`cmd_vel_parser.cpp`) | none | Twist to wheel speeds | arithmetic only |
| lidar driver (`ydlidar_ros2_driver_node.cpp`, `CYdLidar`, `YDlidarDriver`) | connection, scanning and reconnect flags, event and buffer of the last revolution, a reader thread | `turnOn`, `turnOff`, `doProcessSimple`, `cacheScanData`, `checkAutoConnecting` | threads send, receive, open and close apart, scans of this session and without a timeout inside, stopping returns, reading resumes after a fault; what passes for scanning has a reader; turning on again is promised and not kept (section 4) |
| sensor fusion (`RosFilter`) | measurement queue, filter, saved states and measurements | receive, `integrateMeasurements`, `revertTo`, `setPose`, toggle, enable | each measurement fused once, in the order of time, also when late |
| SLAM: sensor queues (`Collator`, `OrderedMultiQueue`) | a queue per trajectory and sensor, common start times, the blocker | add a trajectory, add data, finish, flush, dispatch | data leave in the order of time, none is lost, nothing waits in vain |
| SLAM: task pool (`ThreadPool`, `Task`) | states, counters and dependents of tasks, ready queue, workers | build, `AddDependency`, `Schedule`, run, destroy | each task runs once, after what it depends on; no dangling pointer, no lost task |
| SLAM: pose graph (`PoseGraph2D`, `ConstraintBuilder2D`, `PureLocalizationTrimmer`) | work queue, submaps, nodes, constraints, scan matchers, tasks of searches | add nodes and data, finish, drain, search, optimize, trim, wait for all | one drain at a time, each pair searched once, nothing deleted under a search, a final optimization complete |
| SLAM: scan matching, grids, solver | poses and grids | numeric | arithmetic, not modelled |

How they interact.  The controller manager calls `read()`, the controllers and
`write()` in each cycle.  `write()` puts one packet on the wire; `loop()` takes
it, and only then do the wheels get a new effort.  Independently, every
5 ms, `loop()` puts the counts on the wire; `read()` takes everything that has
come in and uses the last packet.  There are no acknowledgements, sequence
numbers are sent and never looked at, and neither side knows of the other's
restarts.  Nothing but the delimiters protects a packet, and the payload, a counter and
raw integers and floats, takes their values too.

The lidar node publishes a revolution at a time; its main thread and the SDK's
reader share flags, an event and a buffer.  Odometry and IMU reach the filter
as callbacks that only queue them; its timer fuses what has come.  Cartographer
puts scans, IMU and odometry through the sensor queues, so that they reach a
trajectory's builder in the order of time; the builder hands nodes to the pose graph, whose work
items, searches and optimizations are tasks of one pool.

What is hard here: bytes lost in the middle of packets and what the two
different readers make of it; bytes that arrive while a reader is looking; a
port that fails under an open connection; restarts of one side; lifecycle
callbacks in every order; interrupts that come while an interrupt is served;
a control loop whose measurement is older than its command; a reader thread that
reconnects while it is told to stop; measurements older than what was already
fused; tasks that complete while another thread makes something depend on them;
a work queue whose drain is handed from task to task; submaps deleted while
other threads search them.  The list, each
item at its line, is "hazards" in PROJECT.json.

## 2. Modules

    FrameStream         bytes on the wire, ghost identity of each byte
      CommandLink       host to firmware        --implements-->  PacketChannel
      FeedbackLink      firmware to host        --implements-->  PacketChannel
    MotorControl        one wheel of the firmware
    HallEncoder         its encoder
    HardwareInterface   the host's driver
      Robot             driver + firmware loop + wheel over packet channels
    LidarDriver         the lidar node and the SDK's reader thread
    RosFilter           the filter's queue and history
    OrderedMultiQueue   sensor data on its way into cartographer
                                                  --implements-->  TimeMerge
    TaskPool            threads and tasks        --implements-->  TaskGraph
      PoseGraph         what cartographer does with them, on the promise of TaskGraph

`MC*` modules instantiate these for TLC, `*Proofs` hold the theorems.
`MCFirmware` checks `MotorControl` and `HallEncoder`, `MCSensors` checks `OrderedMultiQueue` and
`RosFilter`: the two share no state, and in each behaviour one of them moves, chosen at the start.
`FirmwareProofs` and `SensorProofs` are about several components at once; the
components they extend name their definitions apart (`MotorInit`, `LidarNext`,
`FilterTypeOK`).

**FrameStream.**  A sender hands whole packets to its port (`BeginFrame`), the
UART shifts them out byte by byte (`ShiftOut`), any byte may be lost
(`LoseByte`), and a port that throws abandons the rest (`AbandonFrame`).  A byte
has a value, which is all that the readers look at: START_BYTE, END_BYTE or, inside a
packet, any of `Payload`, which may contain the delimiters; and ghost fields `base` and `pos`, its packet and place, in
which the properties are stated.  `Burst` counts the bytes lost since the start
of the window that would end at the next byte, so that `MaxBurst` bounds how
much is lost inside one packet's length.  `Deceptive` says what may make a window look
like a packet that is none: a payload byte at either end with the value of a delimiter,
or a packet's worth of bytes missing inside.  `Follows` says when a packet cannot be
missed: it comes first, or directly behind a whole packet without START_BYTE in its payload.

**CommandLink.**  `SetMotorValues` and `WriteFails` are `set_motor_values`;
`Receive` and `Lose` the interrupt that fills the ring; `ReadSkip` and
`ReadFrame` the two ways around the loop of `SerialManager::read`.  One turn of
the loop is a step, because bytes arrive between turns; within a turn more
bytes do not matter, as the decision depends on bytes already there.  `loop()` handles one packet per call; as it
calls again at once, what `acc` collects is what it acts on.

**FeedbackLink.**  A call of `read_encoder_values` is `Poll` (everything
available is appended to `recv_buffer_`), then `ScanAccept` or `ScanShift` for
each turn of its loop, then `Return`.  `Reconnect` is `disconnect` and
`connect`, at any time between calls: opening the port flushes the kernel's bytes, be it
several packets, and leaves `recv_buffer_`.

**PacketChannel.**  The abstract promise of both: packets may be dropped, but none is
repeated or delivered out of order, and one is invented only after bytes were lost.

**MotorControl.**  A step is a command packet that comes a time `d` after the
last: `Stop` for speed 0, else `Drive`, which measures if the interval has
passed, adjusts the effort by one, clamps it and sets the pins.  The motor is
external: proportional to the effort, with a brake.  A measurement is a pair of
whole ticks and time, so that no division by the time is needed; what the wheel turned since
the last tick stays in `offTick`.  On the robot one tick in 20 ms is about 33 RPM and the dead
band 1.2 RPM; here too a tick is far coarser than the band.  `Factor` is the motor's
mounting; the encoder's factor is its negative in the code, which makes forward
positive on both sides.

**HallEncoder.**  `Edge` turns the wheel by one of six states and marks one pin
pending.  `Enter`, `ReadHv`, `Count` are the three reads of `countPulse`; the
wheel may turn between them.  `late` counts the edges that came before the
earlier one was dealt with.

**HardwareInterface.**  One action per lifecycle callback and `Read` for
`read()`, with the cable as external actions.  `cycle` records what the last
call of `read()` took and published, `travelled` adds up the reported
velocities.  Velocity is given per period: division by the period is left out.

**Robot.**  The driver's actions, `HostWrite`, the firmware's `BoardCommand` and
`BoardReply`, restarts of both sides, and a queue in each direction that may
lose packets: the channel the link modules show their links to be, but for its forged
packets, which are left out.  It EXTENDS
HardwareInterface, so the driver's properties are checked here in composition.

**LidarDriver.**  The main thread's program counter follows the node: `turnOn` at
start, the check of the first revolutions, then a loop of service calls
(`spin_some`) and grabs; `stop` is `Disable`, `Join` and `StopScan`, from whichever
place it is called.  The reader is `cacheScanData` with its timeouts and
`checkAutoConnecting`.  `startScan` is cut where the reader begins: `StartScan` creates it, `StartMotor` takes
`_cmd_lock` and switches DTR while the reader reads, `EndStartScan` sets the flag.  A
revolution is a record of which reader thread made it, whether a wait in it timed out, and
whether packages of it were damaged: those come without points and sync flag.  The lidar itself is external: it falls silent and answers again.

**RosFilter.**  The estimate is the sequence of the measurements fused into it, of
which the Kalman filter's state is a function.  So "as if applied in the order of
time" becomes a statement about that sequence.  The loop of
`integrateMeasurements` is cut into `ProcessMeasurement`, one measurement a turn;
`RevertTo` restores the newest state saved before a late measurement and queues again
what was fused since.  The priority queue is a bag, `measurements`: of those with the
same time any may be next, as its comparison leaves open.  ROS runs the callbacks and the timer one at a time.

**OrderedMultiQueue.**  A datum is its time stamp.  One action is one turn of
`Dispatch`'s loop: the queue with the earliest datum is found (`Take`), some queue is
empty and must be waited for (`Block`), all is finished (`Stop`), or the CHECK at
line 112 fails (`Fail`), which ends the program.  `FinishTrajectory` and `Flush` mark
one queue after the other, each with a dispatch of its own: those of a trajectory in
any order, as `queue_keys_` holds them in a hash set, those of a flush in the order of
their keys.  What happened so far is kept in `sent`, `gone` and `born`, in which the
properties are stated.

**TimeMerge.**  What the queues promise to whoever takes their data: a datum leaves when
it is the earliest of all that the sources hold, and no source that has begun and not ended
has nothing left.  It knows no queues, blockers or turns of a loop: those that
`OrderedMultiQueue` erased or did not look at are still among its sources.

**TaskPool.**  One action per critical section, so that threads interleave where the
locks let them.  The only lock kept over several actions is that of a completed
task while it tells its dependents.  Weak pointers are what `known` says a
thread may hold; raw pointers are `dependents`.  `deps` records what was asked for,
from which the mapping to **TaskGraph** takes its dependencies.

**PoseGraph.**  Stands on TaskGraph's promise: a task of the pool is an action that
is enabled once what it depends on is done.  The foreground thread appends nodes
under one lock and queues their work items under another.  `AddWorkItem`, `StartDrain`,
`PopWorkItem`, `DrainWhenDone` and `RunWhenDoneCallback` are the hand-over of the
drain.  `ComputeConstraintsForNode` is the part under the lock that
decides what to look at; each pair is then skipped or scheduled, in any order.
`Trim` is the trimming inside `HandleWorkQueue`.  `looked` counts how often a
pair came up and `solvedFinal` notes that the solver ran with the final settings;
both are history only.

Each module holds, above the definition it distorts, the "seeded faults" that
show its properties can fail.

## 3. Runs

| run | configuration | checks |
|---|---|---|
| `command` | 3-byte packets, 4 of them, any payload, bursts up to 5, ring of 5 | SpliceNeedsDeception, SecondPacketDelivered, LosslessDelivery, EventuallyDelivered |
| `feedback` | 3-byte packets, 3 of them, any payload, bursts up to 3, restarts, reconnections that flush any amount | FreshOnReturn, SpliceNeedsDeception, ImplementsChannel, EventuallyTaken |
| `firmware` | effort up to 7, reachable and unreachable speeds, measurement every 2, ticks of 7 and a band of 1; an encoder of seven positions either way, 4 late edges | NoReversalUnderPower, SoftStart, Settles, Settled, BoundedDrift |
| `robot` | one command and two replies under way, a restart of the board, any number of the host | VelocityTruthful, StopsInTheEnd, OdometrySettles |
| `task_pool` | 3 tasks, 2 workers, the main thread | NoDanglingDependent, Containers, JoinedWhenDone, ImplementsTaskGraph |
| `pose_graph` | a mapping and a localizing trajectory, 3 nodes, submaps of two nodes, one sensor datum, one final optimization | OneDrainer, ChecksHold, SearchesHoldTheirData, SolveAlone, EachPairOnce, FinalOptimizationDone, WaitReturns |
| `sensors` | queues for a trajectory of two sensors and one of one, 5 data at 4 times; a filter with 2 topics, 4 measurements at times up to 4, history of 2, one pose, with and without smoothing | UnsortedOnlyIfLate, OnlyOldDropped, WaitsForBlocker, ImplementsMerge, FilterTypeOK, FusedOnceInOrder, NothingBeforePose |
| `lidar` | 3 reader threads, 2 faults, 3 grabs at start, auto_reconnect | LidarTypeOK, TransfersApart, ScanningHasReader, ScansAreFresh, StopReturns, Resumes |
| `hardware_inactive` | | NoPublishWhileInactive, violated |
| `hardware_active` | | PublishesWhileActive, violated |
| `lidar_turn_on` | as `lidar` | CanBeTurnedOn, violated |
| `robot_timeout` | | SafetyTimeout, violated |

The largest are `sensors` with 1 454 000 distinct states and `pose_graph` with 468 000.
The type invariants of the modules without one here are theorems.

Why the bounds are enough.  The links' code depends on the packet length only
through comparisons with it; three bytes have a first, a last and a
middle.  A burst of five is longer than a
packet, so that two packets can be joined; and a payload byte can provide a
delimiter for a packet nobody sent.  `MaxBurst` bounds what is lost on the wire; a reconnection
flushes as much as there is, several packets among it.  Three or four packets are one damaged,
one swallowed by the resynchronisation and one that must be found.  The theorems hold for every
payload, length and bound.  In `firmware`, 7 units of effort at 2 each reach 12 but not -18, where
the effort is clamped; targets of -4, 5 and 12 against ticks of 7 in an interval of 2 lie between
two speeds that whole ticks can express, so that the controller does not come to rest, and two
command spacings let a packet come before and after a measurement is due.  Seven positions either way pass the wrap
of the six-state cycle.  In `robot` two samples under way make "the newest of
several" and "lost between two" happen.  In `task_pool` three tasks are a chain, a
fork and a join, two workers complete two dependencies at once, and a work item can
build a task while the pool is destroyed.  In `pose_graph` submaps get full after two
nodes, so that three nodes finish two submaps and leave one open, pairs come up
from the node's side and from the submap's, optimizations are due every other node,
the trimmer removes the first of three submaps and the node only it had,
and a finished trajectory with a trimmer is deleted.  In `sensors` a queue can
have two data, be waited for, end early and be added after others were
dispatched.  In `lidar` three reader threads are a start, a restart after a stop and one more
after a reconnection; two faults meet the recovery from the first, and any package may be damaged.  In `sensors`, too, four measurements
with a history of two let a late one come within the history and beyond it.

Deadlock is not checked where the bounds stop the system: links with all packets
sent, queues with all data added, a pose graph or a lidar or a filter whose inputs
have been used up.  It is checked in the others.

Fairness.  `CommandLink`: `WF(Read)`, because `loop()` calls `read()` for ever and
nothing in it blocks.  `FeedbackLink`: `WF(HostRead)`, the controller manager's
periodic call.  `MotorControl`: `WF(Commanded)`, as the host writes a packet in
every cycle.  `Robot`: `WF` of `HostWrite` and `BoardReply`, which are periodic,
and `SF` of `BoardCommand` and `HostTakes`: a packet may be lost any number of
times, but not every packet for ever.  `TaskPool`: `WF` of every worker's `DoWork`,
a loop that never stops, and of `EndCall`, as each call leaves its critical
section; that building and handing in tasks goes on is not assumed.  `PoseGraph`: `WF` of the drain, the searches, the
callbacks and the steps of a wait, each a task TaskGraph promises to run; adding nodes and data
has none.  `LidarDriver`: `WF` of both threads and of the lidar that answers again
some day; `SF` of `EndSpin`, as services are called only finitely often in a row, and
of `GetSync`, as an answering lidar comes round to its zero again, and not every zero package is damaged.
Wire, cable, wheel, restarts, inputs and the lifecycle have no fairness.

## 4. What the runs found

*No safety timeout* (`robot_timeout`).  `main.ino:50` declares
`SAFETY_TIMEOUT_MS = 500` and `setup()` initialises `last_packet_time`; `loop()` uses
neither.  When the host falls silent the wheels keep their last effort.

*The driver publishes while inactive* (`hardware_inactive`).
`projx-diffdrive.cpp:94` says the publisher is released "to prevent read() from
trying to publish while inactive"; before the first activation it exists and
is used.

*An active driver does not publish* (`hardware_active`).  The other side of the same line:
line 95 resets the publisher, line 73 creates it only together with the node, which stays.  After
a deactivation the IMU is never published again, active or not.

*Turning on without a port* (`lidar_turn_on`).  The node's README says `start_scan` is to "turn on
lidar" and `auto_reconnect` is "hot plug".  A stop that meets the reader between closing and
opening the port ends it with the port closed; nothing else opens it, `startScan` refuses.

Some properties hold and describe a weakness.

* The links (`SpliceNeedsDeception`, `ImplementsChannel`) promise no more than framing without a
  checksum can.  `serial_comm.hpp:180` calls a window framed by the delimiters a "valid packet"; after
  one lost byte it may be a packet nobody sent, as the payload has bytes with these values: the low
  byte of `seq` alone takes both within 256 packets.  A gap of a packet's length joins two halves.
* The firmware's reader consumes the whole window of a false start: a velocity whose bytes
  contain 0xA5 may keep it out of step for ever (`SecondPacketDelivered` says what brings it back).
* No failure of the cable is ever reported as ERROR (theorem `ErrorNeverGiven`).
* The wheel need not come to rest at the speed asked for, as one tick is more than the dead band
  (`Settles` bounds how far it swings); an edge that comes too early can cost three counts for good
  (`BoundedDrift`).
* DTR is switched while the reader uses the port (`TransfersApart` leaves that out: `_cmd_lock` only
  keeps the port open meanwhile).
* A package with a wrong checksum loses its points and its sync flag
  (`YDlidarDriver.cpp:1364-1370`), one with a damaged header is skipped (892-927), without a
  timeout: a circle may have a hole or be two revolutions.  `ScansAreFresh` claims neither.
* `startScan` sets `m_isScanning` half a second after it created the reader (1904-1910).  With
  auto_reconnect off a reader whose port fails at once may have ended by then, and nothing reads
  although the driver says it scans.  `ScanningHasReader` is claimed with auto_reconnect, which the
  robot's parameters set.
* A trajectory added to the collator while data are under way may end the program
  (`UnsortedOnlyIfLate` says when).
* A measurement later than the filter's history is fused out of order (`short` in
  `FusedOnceInOrder`); a pose set before the first measurement is overwritten by it, as
  `setPoseCallback` leaves the filter uninitialised (`ros_filter.cpp:2258`; `NothingBeforePose`
  says only that nothing older counts).

## 5. Proofs

Each follows the same argument: an invariant `IInv` that contains the property
holds initially and is kept by every step.  All are for arbitrary constants
under the named assumptions of the modules, which TLC evaluates in the runs.

* **FrameStreamProofs** has the lemmas the links share: bytes arrive in the order
  they were sent (`At` grows along `line`), and a window that starts with a
  packet's first byte and ends with a last byte is whole unless at least
  `FrameLen` bytes are missing inside (`WindowIntactOrGap`).  Nothing is assumed of the
  payload.
* **CommandLinkProofs**: `TypeCorrect`, `SplicesNeedDeception`,
  `SecondPacketsDelivered`, `LosslessDelivered`, `LinkImplementsChannel`.  The
  invariant's part `Examined` says that the reader looks at every boundary that
  follows a whole packet without START_BYTE in its payload, and passes it only by skipping a
  byte that is no START_BYTE or by consuming the window that begins there; `InStep` that while
  nothing is lost it stands at packet boundaries.  Refinement: accepted windows that are whole are
  accepted in the order of their offsets, hence of their identities; one that is not needs a
  byte to be missing, which makes the channel lossy.
* **FeedbackLinkProofs**: `TypeCorrect`, `SplicesNeedDeception`,
  `FreshWheneverReturned`, `LosslessDelivered`, `FeedbackImplementsChannel`.  In the
  invariant, `Scanned` says that an offset the scan has passed was taken, lies inside a window
  that was, or begins no window framed as a packet is, `Newest` that `latest` is the last one taken, `Drained` that a call
  does not return before less than a packet is left.  `Reconnect` truncates the
  line behind what was pulled; `FlushStep` is the stream lemma for that.
* **FirmwareProofs**, of `MotorControl`: the pins follow from `total_pwm`, which changes
  by at most one or to 0; that the clamp precedes `moveOpenLoop` is what
  excludes the fallback of 150.  Of `HallEncoder`: `FinalStateSeen`.  Each bit already read is that of the
  pins, or the pin that changed since is pending; so when nothing is pending the
  state put together last is the state of the pins.  `DriftIsBounded`: the count is
  exact up to the edges not yet served, of which at most one, after a
  late edge two, are unknown; each late edge opens a window that is closed at a cost of at
  most three counts.
* **RobotProofs**: first the driver alone, `ErrorNeverGiven`, `VelocitiesAddUp`;
  then the composition, `VelocityAlwaysTruthful`.  The invariant
  `Consistent` relates the
  position, the sample it comes from, every sample under way and the
  board's present origin: samples of one boot count from the same place.
* **TaskPoolProofs**: `NeverDangling`, `ContainersAlwaysRight`, `NothingLost`,
  `PoolImplementsTaskGraph`.  `Edges` says between which states a dependent may be
  listed, `Counted` that a task's counter is the cardinality of the set of
  those that still owe it a call, also while `AddDependency` has raised the
  counter and the edge does not exist yet.  Dependencies are acyclic because a
  task can only wait for one that was handed in before; so if anything waited when all
  threads are gone, a task of minimal rank among the waiting would have a counter
  of 0.
* **PoseGraphProofs**: `OneTaskDrains`, `SearchesNeverDangle`, `SolverIsAlone`,
  `FinalOptimizationIsDone`.  `Handover` keeps the count of drainers next to the state of
  `when_done_`; `Waits` is the chain by which the callback waits for the nodes' tasks and
  those for their searches, so that at the optimization nothing is under way;
  `NodesOnce` that a node is in exactly one of the queue, the drain and the
  problem; `Finals` that as long as the foreground waits, the final settings
  are queued behind all nodes, or in force with an optimization to come, or used.
  `EachPairLookedAtOnce` and `ChecksAlwaysHold` need more (`JInv`): `Order`, that the nodes of a
  trajectory enter the problem in the order of their numbers; `Ends`, that nothing is
  queued behind a trajectory's end; `Maps`, that a submap is finished or
  trimmed only when all its nodes have entered or its trajectory has ended, for which
  the trimmer must keep at least two submaps (`Keep >= 2`, the CHECK at
  `pose_graph_trimmer.cc:27`); `Looks`, that what was looked at
  or will be is complete; `Tally`, that nodes finished and nodes under way add up to
  those entered.

* **SensorProofs**, of `OrderedMultiQueue`: `OnlyLateUnsorted`, `NoDatumLost`,
  `NeverWaitsInVain`, `MarkFindsItsQueue`, `QueueImplementsMerge`.  In the invariant `QInv`, `History` says that
  what is queued is the end of what was sent, behind what is gone; `NotPassed` that nothing was
  dispatched past a queue that is empty and may still get data, beyond its last datum or
  what had been dispatched when it was added, from which the CHECK follows; `Verdict`
  that what left a queue was judged by a start that no longer changes; `Blocked` that between
  calls the blocker has nothing decided to give; `Markable` that the queues still to
  be finished are there.  For the refinement of TimeMerge `Ended` adds that a key
  without a queue was finished or never added.  Then a turn that takes a datum, which finds no
  queue empty and unfinished, has looked at every source that may still get data:
  the others have ended, and have nothing left (`Removed`).  The rest of the steps map to a
  beginning, a datum that comes, an end, or to nothing.
* **SensorProofs**, of `LidarDriver`: `TransfersStayApart`, `FreshScans`, `ReaderScans`.  In
  `LidarInv`, `ReaderState` says how the flag `scanning` and the thread agree: one that was not
  told to stop scans, and past the join one that does not scan has ended; `CommandReady` that
  the command to scan finds the port open and no reader; `NoGap` that in a revolution handed
  over no wait timed out; `BufferFresh` that what the loop can grab is of this session.
  `ReaderGoesOn` adds that with auto_reconnect a reader ends only when it is told to, also while
  `startScan` has not yet set the flag.
* **SensorProofs**, of `RosFilter`: `FusedOnce`, `PoseForgetsThePast`.  In `FilterInv`,
  `HistoryIsEnd` says that the history is the end of the estimate; `StatesAreBeginnings`
  that each saved state is a beginning of it that reaches into the history, longer
  than the one before; `StepsSaved` that there is one wherever time goes on within the history,
  and `PresentSaved` one of the present, unless more of the same time is queued.  So the newest
  state before a late measurement ends exactly where its time is reached: what `revertTo`
  queues again is all that was fused since, and nothing that is still part of the
  state gone back to.  `clearExpiredHistory` keeps this, as it cuts both by the same time.
  All of it holds while the history was never too short (`Regular`); beyond that the code
  gives no order.  Types, the pose and the clock need none of it.

The feedback link's refinement is like the command link's, with the line cut off by
reconnections.

Every invariant, every action property and the safety part of every refinement of the
passing runs is a theorem now.  Only
model-checked: liveness (`EventuallyDelivered`, `EventuallyTaken`, `Settles`,
`StopsInTheEnd`, `OdometrySettles`, `WaitReturns`, `StopReturns`, `Resumes` and the
fairness of TaskGraph), which is out of reach of the prover, and the four properties
that the code violates.

## 6. Limits

Not modelled: the IMU driver, UDP transport (compiled out), command parser, scan
matching and optimization, launch files and bench scripts, for the reasons given in
PROJECT.json.  Most of the repository is vendored code of that kind: numeric
(Kalman filters, scan matchers, grids, solvers), reading and writing of files
and parameters, a JSON parser, sockets, and drivers for lidars this robot does not
have.  What is mapped is the concurrent and stateful core, a few percent of all
lines; the rest has no order of events to check.

Within the modelled parts: spoiled bytes are lost bytes, a byte
that changes its value or appears from nowhere is not modelled (the text
`setup()` prints when the IMU fails holds no START_BYTE); the 32-bit sequence
number and counters do not wrap.  A packet's payload may be any pattern of bytes, so the links promise
no more than framing without a checksum can: that the reader is back in step is certain only behind a
whole packet that cannot be mistaken, and a forged packet is possible after any loss.  `Robot` leaves forged
packets out: it shows what the driver makes of packets that were sent.  Floating-point values are integers, and the
effort, always a whole number in the code, is one exactly.  The motor follows the effort at once and in
proportion, and its time is discrete; the measurement is in whole ticks as in the code, but with small
numbers: on the robot the term of `Slack` for the tick is 33 RPM.  `read()` divides by the
period without looking at it (`projx-diffdrive.cpp:159`), which is left out;
`loop()` never looks at the packet's `cmd` (`main.ino:206`), and the host only ever
sends CMD_MOVE.  The lidar's thread is assumed to begin before
it is asked to stop; that only whole circles come out is not claimed; single-channel mode and heartbeat are left out.  The filter
has no control inputs, no prediction to the current time and no outliers, and of one topic it takes
only measurements later than the one before, where `ros_filter.cpp:2337` takes one of the same time as well.  In the
pose graph trajectories are not loaded, frozen or deleted on request; whether a
pair is searched and whether a match is found is a free choice.  Memory is sequentially
consistent: flags the SDK shares between threads without a lock are read and written at once.

## 7. Plan

1. Done: the links, the firmware's control, the driver, their composition; the lidar
   driver, the filter's queue, cartographer's sensor queues, task pool and pose graph.
2. Done: the proofs of their safety properties, and the refinements of PacketChannel,
   TaskGraph and TimeMerge.
3. Next: the getters and the trajectory commands of `PoseGraph2D` that a foreground thread
   other than the mapper's would call.
4. The UDP transport as a second implementation of `PacketChannel`, if it is
   ever switched on.
