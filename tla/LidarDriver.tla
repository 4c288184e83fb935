----------------------------- MODULE LidarDriver -----------------------------
(***************************************************************************)
(* The lidar node: its main thread, which turns the lidar on and off and   *)
(* grabs one revolution after the other, and the reader thread of the      *)
(* YDLidar-SDK, which puts them together and reconnects by itself.         *)
(*                                                                         *)
(* A revolution is a record of its history; points, angles and time stamps *)
(* are left out, as is single-channel mode.  device says whether the lidar *)
(* answers, for whatever reason: cable, power or a stuck driver.  A thread *)
(* that was created is assumed to begin before it is asked to stop.        *)
(*                                                                         *)
(* _cmd_lock is held over single steps, which are atomic, and while the    *)
(* main thread waits for the motor, at "dtr".                              *)
(***************************************************************************)
EXTENDS Integers

CONSTANTS
  AutoReconnect,  \* m_AutoReconnect, a parameter of the node
  TimeoutCount,   \* DEFAULT_TIMEOUT_COUNT
  MaxGrabs,       \* grabs of checkLidarAbnormal before it gives up
  None,
  MaxSession,     \* bound: reader threads created
  MaxFault        \* bound: times the device falls silent

ASSUME LidarAssumption ==
  /\ AutoReconnect \in BOOLEAN
  /\ TimeoutCount \in Nat /\ MaxGrabs \in Nat \ {0} /\ MaxSession \in Nat \ {0}

VARIABLES
  connected,      \* m_isConnected
  scanning,       \* m_isScanning
  autoReconnect,  \* isAutoReconnect
  event,          \* _dataEvent is signalled
  buffer,         \* scan_node_buf, None when scan_node_count is 0
  reader,         \* where the reader thread is; "none" when m_thread is null
  local,          \* local_scan: is its first point a sync point; its history
  timeouts,       \* timeout_count
  main, after,    \* where the main thread is, and goes when stop() returns
  tries,          \* failed calls of startScan in turnOn
  grabs,          \* grabs of checkLidarAbnormal so far
  up,             \* the node's loop has been entered
  scan,           \* what doProcessSimple has returned, None for a failure
  device,         \* the lidar answers
  session,        \* reader threads created
  faults          \* times the device fell silent

readerVars == <<reader, local, timeouts>>
mainVars == <<main, after, tries, grabs, up, scan>>
counters == <<session, faults>>
lidarVars == <<connected, scanning, autoReconnect, event, buffer, readerVars, mainVars,
               device, counters>>

\* What may have happened to a revolution: a wait inside it timed out; packages
\* of it, or between it and the next one, were damaged, so that points are missing
\* or it is two revolutions, of which nothing tells.
Revolution == [session : 1..MaxSession, gap : BOOLEAN, lost : BOOLEAN]

\* Points that follow no sync point.
Unsynced == [sync |-> FALSE, gap |-> TRUE, lost |-> FALSE]

\* initialize() has opened the port, turnOn() begins.
LidarInit ==
  /\ connected = TRUE /\ scanning = FALSE /\ autoReconnect = TRUE
  /\ event = FALSE /\ buffer = None
  /\ reader = "none" /\ local = Unsynced /\ timeouts = 0
  /\ main = "turnOn" /\ after = None /\ tries = 0 /\ grabs = 0
  /\ up = FALSE /\ scan = None
  /\ device = TRUE /\ session = 0 /\ faults = 0

-----------------------------------------------------------------------------
(* The main thread                                                         *)

mainOthers == <<connected, readerVars, device, counters>>

\* stop() begins: disableDataGrabbing, up to the join.
Disable(then) ==
  /\ reader # "created"
  /\ scanning' = FALSE
  /\ event' = TRUE
  /\ main' = "join" /\ after' = then

\* Where turnOn leads when it fails: the node gives up if it was the first.
Failed == IF up THEN "spin" ELSE "disconnect"

\* Seeded fault: the reader's end is not waited for before the port is used.
JoinLate ==
  /\ main = "join"
  /\ main' = "stopScan"
  /\ UNCHANGED <<connected, scanning, autoReconnect, event, buffer, readerVars, after,
                 tries, grabs, up, scan, device, counters>>

\* The join returns when the reader has ended.
Join ==
  /\ main = "join" /\ reader \in {"none", "ended"}
  /\ reader' = "none"
  /\ main' = "stopScan"
  /\ UNCHANGED <<connected, scanning, autoReconnect, event, buffer, local, timeouts, after,
                 tries, grabs, up, scan, device, counters>>

\* The rest of stop(): the stop commands are written if the port is open.
StopScan ==
  /\ main = "stopScan"
  /\ main' = after /\ after' = None
  /\ UNCHANGED <<mainOthers, scanning, autoReconnect, event, buffer, tries, grabs, up,
                 scan>>

\* turnOn: nothing to do, or startScan, twice if need be, which calls stop()
\* and goes on; without a connection it fails at once.
TurnOn ==
  /\ main = "turnOn"
  /\ IF scanning
       THEN main' = "spin" /\ UNCHANGED <<scanning, event, after>>
       ELSE Disable(IF connected THEN "command" ELSE Failed)
  /\ UNCHANGED <<mainOthers, autoReconnect, buffer, tries, grabs, up, scan>>

\* startScan: under _cmd_lock the command is sent, the lidar confirms it and the
\* reader is created ...
StartScan ==
  /\ main = "command" /\ device
  /\ reader' = "created"
  /\ session' = session + 1
  /\ main' = "motor"
  /\ UNCHANGED <<connected, scanning, autoReconnect, event, buffer, local, timeouts,
                 after, tries, grabs, up, scan, device, faults>>

\* ... then startMotor takes _cmd_lock again, switches DTR and waits, while the
\* reader has the port already ...
StartMotor ==
  /\ main = "motor"
  /\ main' = "dtr"
  /\ UNCHANGED <<mainOthers, scanning, autoReconnect, event, buffer, after, tries, grabs, up,
                 scan>>

\* ... and m_isScanning is set, whatever has become of the reader ...
EndStartScan ==
  /\ main = "dtr"
  /\ scanning' = TRUE
  /\ main' = "check" /\ grabs' = 0 /\ tries' = 0
  /\ UNCHANGED <<mainOthers, autoReconnect, event, buffer, after, up, scan>>

\* ... or the lidar does not confirm.
StartScanFails ==
  /\ main = "command"
  /\ ~device
  /\ IF tries = 0
       THEN tries' = 1 /\ Disable("command")
       ELSE tries' = 0 /\ Disable(Failed)
  /\ UNCHANGED <<mainOthers, autoReconnect, buffer, grabs, up, scan>>

TurnedOn ==
  /\ autoReconnect' = AutoReconnect
  /\ main' = (IF up THEN "spin" ELSE "loop")
  /\ up' = TRUE

\* grabScanData in checkLidarAbnormal: the event comes ...
CheckGrab ==
  /\ main = "check" /\ event
  /\ event' = FALSE
  /\ main' = "checkCopy"
  /\ UNCHANGED <<mainOthers, scanning, autoReconnect, buffer, after, tries, grabs, up, scan>>

\* ... and what is in the buffer, if anything, is taken; a revolution may be
\* enough to know the sample rate, and the last grab is enough in any case.
CheckCopy ==
  /\ main = "checkCopy"
  /\ buffer' = None
  /\ grabs' = grabs + 1
  /\ \/ (buffer # None \/ grabs' = MaxGrabs) /\ TurnedOn
     \/ /\ grabs' < MaxGrabs
        /\ main' = "check"
        /\ UNCHANGED <<autoReconnect, up>>
  /\ UNCHANGED <<mainOthers, scanning, event, after, tries, scan>>

\* It does not come in time; after the last try turnOn fails.
CheckTimeout ==
  /\ main = "check" /\ ~event
  /\ grabs' = grabs + 1
  /\ IF grabs' < MaxGrabs
       THEN UNCHANGED <<scanning, event, main, after>>
       ELSE Disable(Failed)
  /\ UNCHANGED <<mainOthers, autoReconnect, buffer, tries, up, scan>>

\* doProcessSimple, with a new scan; nothing is grabbed unless scanning.
Process ==
  /\ main = "loop"
  /\ scan' = None
  /\ main' = IF scanning THEN "grab" ELSE "spin"
  /\ UNCHANGED <<mainOthers, scanning, autoReconnect, event, buffer, after, tries, grabs, up>>

Grab ==
  /\ main = "grab" /\ event
  /\ event' = FALSE
  /\ main' = "copy"
  /\ UNCHANGED <<mainOthers, scanning, autoReconnect, buffer, after, tries, grabs, up, scan>>

GrabTimeout ==
  /\ main = "grab" /\ ~event
  /\ main' = "spin"
  /\ UNCHANGED <<mainOthers, scanning, autoReconnect, event, buffer, after, tries, grabs,
                 up, scan>>

Copy ==
  /\ main = "copy"
  /\ scan' = buffer
  /\ buffer' = None
  /\ main' = "spin"
  /\ UNCHANGED <<mainOthers, scanning, autoReconnect, event, after, tries, grabs, up>>

\* spin_some: the services stop_scan and start_scan, any number of calls, ...
StopService ==
  /\ main = "spin"
  /\ Disable("spin")
  /\ UNCHANGED <<mainOthers, autoReconnect, buffer, tries, grabs, up, scan>>

StartService ==
  /\ main = "spin"
  /\ session < MaxSession
  /\ main' = "turnOn"
  /\ UNCHANGED <<mainOthers, scanning, autoReconnect, event, buffer, after, tries, grabs,
                 up, scan>>

\* ... until it returns.
EndSpin ==
  /\ main = "spin"
  /\ main' = "loop"
  /\ UNCHANGED <<mainOthers, scanning, autoReconnect, event, buffer, after, tries, grabs,
                 up, scan>>

\* The node is told to end: turnOff, then disconnecting.
Shutdown ==
  /\ main = "spin"
  /\ Disable("disconnect")
  /\ UNCHANGED <<mainOthers, autoReconnect, buffer, tries, grabs, up, scan>>

Disconnect ==
  /\ main = "disconnect"
  /\ autoReconnect' = FALSE
  /\ connected' = FALSE
  /\ main' = "off"
  /\ UNCHANGED <<scanning, event, buffer, readerVars, after, tries, grabs, up, scan, device,
                 counters>>

\* What the main thread does of itself, without being asked.
Main ==
  \/ Join \/ StopScan \/ TurnOn
  \/ StartScan \/ StartMotor \/ EndStartScan \/ StartScanFails
  \/ CheckGrab \/ CheckCopy \/ CheckTimeout
  \/ Process \/ Grab \/ GrabTimeout \/ Copy \/ EndSpin \/ Disconnect

-----------------------------------------------------------------------------
(* The reader thread: cacheScanData                                        *)

readerOthers == <<mainVars, device, counters, autoReconnect>>

\* The reader gets _cmd_lock.
CmdLockFree == main # "dtr"

Begin ==
  /\ reader = "created"
  /\ scanning' = TRUE
  /\ reader' = "loop"
  /\ timeouts' = 0 /\ local' = Unsynced
  /\ UNCHANGED <<readerOthers, connected, event, buffer>>

\* It ends.
End == reader' = "ended" /\ scanning' = FALSE

\* while (m_isScanning)
Loop ==
  /\ reader = "loop"
  /\ IF scanning THEN reader' = "wait" /\ UNCHANGED scanning ELSE End
  /\ UNCHANGED <<readerOthers, connected, event, buffer, local, timeouts>>

\* Packages without a sync point.  A damaged package that should have brought
\* one comes here too: its flag is cleared if the checksum is wrong, and a header
\* that is not recognized loses the package, without any timeout.
GetPoints ==
  /\ reader = "wait" /\ device
  /\ \E damaged \in BOOLEAN :
       local' = [local EXCEPT !.lost = local.lost \/ damaged]
  /\ timeouts' = 0
  /\ reader' = "loop"
  /\ UNCHANGED <<readerOthers, connected, scanning, event, buffer>>

\* A sync point: a revolution that began with one is handed over.
GetSync ==
  /\ reader = "wait" /\ device
  /\ IF local.sync
       THEN /\ buffer' = [session |-> session, gap |-> local.gap, lost |-> local.lost]
            /\ event' = TRUE
       ELSE UNCHANGED <<buffer, event>>
  /\ local' = [sync |-> TRUE, gap |-> FALSE, lost |-> FALSE]
  /\ timeouts' = 0
  /\ reader' = "loop"
  /\ UNCHANGED <<readerOthers, connected, scanning>>

\* Seeded fault: the revolution counts as whole after a timeout.
TimeOutKeepsSync ==
  /\ reader = "wait" /\ ~device
  /\ timeouts <= TimeoutCount
  /\ timeouts' = timeouts + 1
  /\ local' = [local EXCEPT !.gap = TRUE]
  /\ reader' = "loop"
  /\ UNCHANGED <<readerOthers, connected, scanning, event, buffer>>

\* Seeded fault: the timeouts are counted but not compared.
TimeOutForEver ==
  /\ reader = "wait" /\ ~device
  /\ timeouts' = timeouts + 1
  /\ local' = Unsynced
  /\ reader' = "loop"
  /\ UNCHANGED <<readerOthers, connected, scanning, event, buffer>>

\* Nothing comes: the revolution under way is given up.
TimeOut ==
  /\ reader = "wait" /\ ~device
  /\ timeouts <= TimeoutCount
  /\ timeouts' = timeouts + 1
  /\ local' = Unsynced
  /\ reader' = "loop"
  /\ UNCHANGED <<readerOthers, connected, scanning, event, buffer>>

\* Too often: end, or checkAutoConnecting.
GiveUp ==
  /\ reader = "wait" /\ ~device
  /\ timeouts > TimeoutCount
  /\ IF autoReconnect THEN reader' = "reconnect" /\ UNCHANGED scanning ELSE End
  /\ UNCHANGED <<readerOthers, connected, event, buffer, local, timeouts>>

\* while (isAutoReconnect && isscanning()): the port is closed.
Reconnect ==
  /\ reader = "reconnect"
  /\ IF autoReconnect /\ scanning
       THEN /\ CmdLockFree
            /\ reader' = "connect" /\ connected' = FALSE
            /\ UNCHANGED scanning
       ELSE End /\ UNCHANGED connected
  /\ UNCHANGED <<readerOthers, event, buffer, local, timeouts>>

\* The port opens again, also when the lidar behind it is silent.
Connect ==
  /\ reader = "connect" /\ scanning
  /\ CmdLockFree
  /\ connected' = TRUE
  /\ reader' = "connected"
  /\ UNCHANGED <<readerOthers, scanning, event, buffer, local, timeouts>>

\* Seeded fault: the loop around connect() ends with it only.
ConnectOrStopDeaf ==
  /\ reader = "connect" /\ ~scanning
  /\ UNCHANGED lidarVars

\* It stays closed and is tried no more.
ConnectOrStop ==
  /\ reader = "connect" /\ ~scanning
  /\ End
  /\ UNCHANGED <<readerOthers, connected, event, buffer, local, timeouts>>

\* Seeded fault: one failure to start the lidar again is one too many.
RestartOnce ==
  /\ reader = "connected"
  /\ scanning => CmdLockFree
  /\ IF ~scanning \/ ~device
       THEN End /\ UNCHANGED <<local, timeouts>>
       ELSE /\ reader' = "loop" /\ timeouts' = 0
            /\ local' = Unsynced
            /\ UNCHANGED scanning
  /\ UNCHANGED <<readerOthers, connected, event, buffer>>

\* getDeviceInfo and startAutoScan, unless stopped meanwhile.
Restart ==
  /\ reader = "connected"
  /\ scanning => CmdLockFree
  /\ CASE ~scanning ->
            End /\ UNCHANGED <<local, timeouts>>
       [] scanning /\ ~device ->
            reader' = "reconnect" /\ UNCHANGED <<scanning, local, timeouts>>
       [] scanning /\ device ->
            /\ reader' = "loop" /\ timeouts' = 0
            /\ local' = Unsynced
            /\ UNCHANGED scanning
  /\ UNCHANGED <<readerOthers, connected, event, buffer>>

Reader ==
  \/ Begin \/ Loop \/ TimeOut \/ GiveUp
  \/ Reconnect \/ Connect \/ ConnectOrStop \/ Restart

-----------------------------------------------------------------------------
FallSilent ==
  /\ device /\ faults < MaxFault
  /\ device' = FALSE /\ faults' = faults + 1
  /\ UNCHANGED <<connected, scanning, autoReconnect, event, buffer, readerVars, mainVars,
                 session>>

Answer ==
  /\ ~device
  /\ device' = TRUE
  /\ UNCHANGED <<connected, scanning, autoReconnect, event, buffer, readerVars, mainVars,
                 counters>>

LidarNext ==
  \/ Main \/ StopService \/ StartService \/ Shutdown
  \/ Reader \/ GetPoints \/ GetSync
  \/ FallSilent \/ Answer

LidarSpec == LidarInit /\ [][LidarNext]_lidarVars

\* Threads run, spin_some returns, and a silent lidar answers again some day;
\* one that answers keeps turning, so that sync points come, not all of them in
\* damaged packages.
Fairness ==
  /\ WF_lidarVars(Main) /\ WF_lidarVars(Reader)
  /\ SF_lidarVars(EndSpin) /\ SF_lidarVars(GetSync)
  /\ WF_lidarVars(Answer)

LidarFairSpec == LidarSpec /\ Fairness

-----------------------------------------------------------------------------
ReaderPlace == {"none", "created", "loop", "wait", "reconnect", "connect", "connected",
                "ended"}
MainPlace == {"turnOn", "join", "stopScan", "command", "motor", "dtr", "check",
              "checkCopy", "loop", "grab", "copy", "spin", "disconnect", "off"}

LidarTypeOK ==
  /\ {connected, scanning, autoReconnect, event, up, device} \subseteq BOOLEAN
  /\ buffer \in Revolution \cup {None} /\ scan \in Revolution \cup {None}
  /\ reader \in ReaderPlace
  /\ local \in [sync : BOOLEAN, gap : BOOLEAN, lost : BOOLEAN]
  /\ timeouts \in 0..(TimeoutCount + 1)
  /\ main \in MainPlace
  /\ tries \in {0, 1} /\ grabs \in 0..MaxGrabs
  /\ session \in 0..MaxSession

\* Most transfers take no lock; the two threads never send or receive, and never
\* open or close the port, while the other may do so: the main thread does it
\* only when no reader is left.  DTR is the exception: the main thread switches it
\* while the reader reads, and only _cmd_lock keeps the port open meanwhile
\* (YDlidarDriver.cpp:203-216, 1862-1910, 1998-2001, 2037-2053).
TransfersApart ==
  main \in {"stopScan", "command", "disconnect", "off"} => reader = "none"

\* What doProcessSimple hands out was scanned since the lidar was last turned
\* on, although the event and the buffer may be left over from before, and no
\* wait within it timed out (YDlidarDriver.cpp:606-714, CYdLidar.cpp:1113-1117).
ScansAreFresh ==
  [][scan' # scan /\ scan' # None => scan'.session = session /\ ~scan'.gap]_lidarVars

\* What turnOn, stop_scan and doProcessSimple take for scanning, m_isScanning, has
\* a thread that reads or is going to, although startScan sets it half a second
\* after it created the thread; without auto_reconnect it need not
\* (YDlidarDriver.cpp:618-641, 1904-1910).
ScanningHasReader == AutoReconnect /\ scanning => reader \notin {"none", "ended"}

\* ydlidar_ros2_driver/README.md:166, 187: start_scan is to "turn on lidar", and
\* with auto_reconnect it may be unplugged and plugged.  When it is asked to, and
\* the lidar is there again, the port is open.
CanBeTurnedOn == main = "turnOn" /\ device => connected \/ scanning

\* stop() returns, wherever the reader is (YDlidarDriver.cpp:244-256).
StopReturns == main = "join" ~> main # "join"

\* While nobody stops it, a lidar that answers again after any fault is read
\* again, and a scan comes out (YDlidarDriver.cpp:623-663).
Resumes == up /\ scanning ~> scan # None \/ main \in {"turnOn", "join", "off"}
=============================================================================
