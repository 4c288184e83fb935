------------------------- MODULE HardwareInterface -------------------------
(***************************************************************************)
(* The host's driver, ProjXDriveHW on top of SerialBridge, under the       *)
(* controller manager: the lifecycle callbacks open and close the serial   *)
(* port and keep the IMU publisher, read() takes encoder counts from the   *)
(* newest packet and reports position and velocity, write() sends the      *)
(* commands.                                                               *)
(*                                                                         *)
(* The lifecycle is external: the controller manager calls read() and      *)
(* write() while the hardware is inactive or active, and gives up on it    *)
(* (finalized) when one of them returns ERROR.  Both wheels are treated    *)
(* alike in every statement; one stands for both, its angle is a count.    *)
(* write() changes nothing here: see Robot.                                *)
(***************************************************************************)
EXTENDS Integers

CONSTANTS
  Counts,    \* encoder counts a packet can bring
  NoPacket   \* read_encoder_values found none

ASSUME CountAssumption == Counts \subseteq Int /\ NoPacket \notin Counts

VARIABLES
  hw,            \* lifecycle state
  port,          \* serial_port_: "closed", "open", or "dead": its cable is out
  plugged,       \* the board is there to be opened
  is_connected,
  imu_node, imu_pub,  \* whether these pointers are set
  enc, pos, vel, \* of the wheel; vel is the displacement of one period
  cycle,         \* what the last call of read() did, and when
  travelled      \* the velocities reported so far, added up

wheelVars == <<enc, pos, vel, cycle, travelled>>
hwVars == <<hw, port, plugged, is_connected, imu_node, imu_pub, wheelVars>>

\* read() and write() are called.
Configured == hw \in {"inactive", "active"}

Init ==
  /\ hw = "unconfigured"
  /\ port = "closed"
  /\ plugged \in BOOLEAN
  /\ is_connected = FALSE
  /\ imu_node = FALSE /\ imu_pub = FALSE
  /\ enc = 0 /\ pos = 0 /\ vel = 0
  /\ cycle = [took |-> NoPacket, published |-> FALSE, in |-> hw]
  /\ travelled = 0

\* on_configure closes the port if need be and opens it; the IMU node and its
\* publisher are made the first time.  If there is no board, or a setting is
\* refused, the port is not used.
OnConfigure ==
  /\ hw = "unconfigured"
  /\ \/ /\ plugged
        /\ hw' = "inactive"
        /\ port' = "open"
        /\ is_connected' = TRUE
        /\ imu_node' = TRUE
        /\ imu_pub' = (imu_pub \/ ~imu_node)
     \/ /\ hw' = "finalized"
        /\ port' \in {"closed"} \cup (IF plugged THEN {"open"} ELSE {})
        /\ is_connected' = FALSE
        /\ UNCHANGED <<imu_node, imu_pub>>
  /\ UNCHANGED <<plugged, wheelVars>>

OnCleanup ==
  /\ hw = "inactive"
  /\ hw' = "unconfigured"
  /\ port' = IF is_connected THEN "closed" ELSE port
  /\ is_connected' = FALSE
  /\ UNCHANGED <<plugged, imu_node, imu_pub, wheelVars>>

OnActivate ==
  /\ hw = "inactive"
  /\ hw' = "active"
  /\ UNCHANGED <<port, plugged, is_connected, imu_node, imu_pub, wheelVars>>

\* on_deactivate releases the publisher and keeps the port.
OnDeactivate ==
  /\ hw = "active"
  /\ hw' = "inactive"
  /\ imu_pub' = FALSE
  /\ UNCHANGED <<port, plugged, is_connected, imu_node, wheelVars>>

\* The driver does not override on_shutdown.
Shutdown ==
  /\ hw # "finalized"
  /\ hw' = "finalized"
  /\ UNCHANGED <<port, plugged, is_connected, imu_node, imu_pub, wheelVars>>

Answered(packet) ==
  [took |-> packet, published |-> packet # NoPacket /\ imu_pub, in |-> hw]

\* read(): take the newest packet, if there is one, and publish its IMU part
\* if there is a publisher; then position and velocity, packet or not.  It
\* gives ERROR without a connection.
Read(packet) ==
  /\ Configured
  /\ packet # NoPacket => port = "open"
  /\ IF is_connected
     THEN /\ cycle' = Answered(packet)
          /\ enc' = IF packet = NoPacket THEN enc ELSE packet
          /\ pos' = enc'
          /\ vel' = pos' - pos
          /\ travelled' = travelled + vel'
          /\ UNCHANGED hw
     ELSE /\ hw' = "finalized"
          /\ UNCHANGED wheelVars
  /\ UNCHANGED <<port, plugged, is_connected, imu_node, imu_pub>>

\* The cable is pulled: reads and writes on the open port throw from now on,
\* which read_encoder_values and set_motor_values turn into FALSE.
Unplug ==
  /\ plugged
  /\ plugged' = FALSE
  /\ port' = IF port = "open" THEN "dead" ELSE port
  /\ UNCHANGED <<hw, is_connected, imu_node, imu_pub, wheelVars>>

Plug ==
  /\ ~plugged
  /\ plugged' = TRUE
  /\ UNCHANGED <<hw, port, is_connected, imu_node, imu_pub, wheelVars>>

Lifecycle ==
  OnConfigure \/ OnCleanup \/ OnActivate \/ OnDeactivate \/ Shutdown

Cable == Unplug \/ Plug

Next ==
  \/ Lifecycle \/ Cable
  \/ \E packet \in Counts \cup {NoPacket} : Read(packet)

Spec == Init /\ [][Next]_hwVars

-----------------------------------------------------------------------------
TypeOK ==
  /\ hw \in {"unconfigured", "inactive", "active", "finalized"}
  /\ port \in {"closed", "open", "dead"}
  /\ plugged \in BOOLEAN /\ is_connected \in BOOLEAN
  /\ imu_node \in BOOLEAN /\ imu_pub \in BOOLEAN
  /\ enc \in Int /\ pos \in Int /\ vel \in Int /\ travelled \in Int
  /\ cycle \in [took : Counts \cup {NoPacket}, published : BOOLEAN,
                in : {"unconfigured", "inactive", "active"}]

\* read() and write() never meet a closed port, so the ERROR that would take
\* the hardware down is never given: not even when the cable is out
\* (projx-diffdrive.cpp:68-81, 102-103, 171-172).
NeverError == Configured => is_connected /\ port # "closed"

\* The velocities reported add up to the position, however packets fall into
\* the cycles of read(), and a cycle without a packet reports rest
\* (projx-diffdrive.cpp:108-110, 155-163).
VelocityAddsUp ==
  /\ travelled = pos
  /\ cycle.took = NoPacket => vel = 0

\* projx-diffdrive.cpp:94: "Release publisher to prevent read() from trying to
\* publish while inactive".
NoPublishWhileInactive == cycle.published => cycle.in = "active"

\* The other half of that comment: it is while inactive that read() is not to
\* publish; while the hardware is active, also when it is active again after a
\* deactivation, a cycle that takes a packet publishes its IMU part
\* (projx-diffdrive.cpp:73-76, 94-95, 113).
PublishesWhileActive ==
  cycle.in = "active" /\ cycle.took # NoPacket => cycle.published
=============================================================================
