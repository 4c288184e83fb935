-------------------------- MODULE OrderedMultiQueue --------------------------
(***************************************************************************)
(* The sensor data of all trajectories on its way through cartographer's   *)
(* Collator: one queue per trajectory and sensor, filled in any relative   *)
(* order, emptied in the order of time.  A datum is its time stamp.        *)
(*                                                                         *)
(* Dispatch runs inside the calls that add data or finish a queue; one     *)
(* action is one turn of its loop.  Queues are numbered in the order of    *)
(* their keys.  A failed CHECK ends the program.                           *)
(***************************************************************************)
EXTENDS Integers, Sequences, SequencesExt, FiniteSetsExt

CONSTANTS
  Sensors,    \* for each trajectory, the keys of its queues
  Null,
  MaxTime,    \* bound: time stamps
  MaxData     \* bound: data of all queues

ASSUME QueueAssumption ==
  /\ \A t \in DOMAIN Sensors :
       Sensors[t] \subseteq Nat /\ Sensors[t] # {} /\ IsFiniteSet(Sensors[t])
  /\ \A t, u \in DOMAIN Sensors : t # u => Sensors[t] \cap Sensors[u] = {}
  /\ MaxTime \in Nat
  /\ Null \notin Int

Trajectory == DOMAIN Sensors
Key == UNION {Sensors[t] : t \in Trajectory}
Of(q) == CHOOSE t \in Trajectory : q \in Sensors[t]
Time == 0..MaxTime

VARIABLES
  queues,          \* keys of queues_
  queue,           \* the data in each
  isFinished,      \* its flag 'finished'
  start,           \* common_start_time_per_trajectory_, Null when absent
  lastDispatched,  \* last_dispatched_time_, -1 at first
  blocker,         \* blocker_
  pc,              \* "idle", "dispatch" or "failed"
  toFinish,        \* queues FinishTrajectory or Flush has still to mark
  done,            \* trajectories the client has finished
  sent,            \* history: the data ever added to a queue
  gone,            \* history: for each datum removed, whether it was dispatched
  born             \* history: last_dispatched_time_ when the queue was added

vars == <<queues, queue, isFinished, start, lastDispatched, blocker, pc, toFinish,
          done, sent, gone, born>>

Init ==
  /\ queues = {}
  /\ queue = [q \in Key |-> <<>>]
  /\ isFinished = [q \in Key |-> FALSE]
  /\ start = [t \in Trajectory |-> Null]
  /\ lastDispatched = -1
  /\ blocker = Null
  /\ pc = "idle"
  /\ toFinish = <<>>
  /\ done = {}
  /\ sent = [q \in Key |-> <<>>]
  /\ gone = [q \in Key |-> <<>>]
  /\ born = [q \in Key |-> Null]

Idle == pc = "idle" /\ toFinish = <<>>

\* Collator::AddTrajectory, with AddQueue for each sensor.
AddTrajectory(t) ==
  /\ Idle
  /\ \A q \in Sensors[t] : born[q] = Null
  /\ queues' = queues \cup Sensors[t]
  /\ born' = [q \in Key |-> IF q \in Sensors[t] THEN lastDispatched ELSE born[q]]
  /\ UNCHANGED <<queue, isFinished, start, lastDispatched, blocker, pc, toFinish,
                 done, sent, gone>>

\* AddSensorData: within a queue the data come in order.
Add(q, time) ==
  /\ Idle
  /\ q \in queues /\ Of(q) \notin done
  /\ MapThenSumSet(LAMBDA k : Len(sent[k]), Key) < MaxData
  /\ sent[q] # <<>> => Last(sent[q]) <= time
  /\ queue' = [queue EXCEPT ![q] = Append(@, time)]
  /\ sent' = [sent EXCEPT ![q] = Append(@, time)]
  /\ pc' = "dispatch"
  /\ UNCHANGED <<queues, isFinished, start, lastDispatched, blocker, toFinish, done,
                 gone, born>>

\* Collator::FinishTrajectory: all its queues will be marked, in the order of
\* a hash set.
FinishTrajectory(t) ==
  /\ Idle
  /\ Sensors[t] \subseteq queues /\ t \notin done
  /\ toFinish' \in SetToSeqs(Sensors[t])
  /\ done' = done \cup {t}
  /\ UNCHANGED <<queues, queue, isFinished, start, lastDispatched, blocker, pc, sent,
                 gone, born>>

\* Flush: all queues that are not finished will be marked, in the order of
\* their keys.
Flush ==
  /\ Idle
  /\ queues # {}
  /\ toFinish' \in {s \in SetToSeqs({q \in queues : ~isFinished[q]}) :
                      \A i, j \in DOMAIN s : i < j => s[i] < s[j]}
  /\ done' = done \cup {Of(q) : q \in queues}
  /\ UNCHANGED <<queues, queue, isFinished, start, lastDispatched, blocker, pc, sent,
                 gone, born>>

\* Seeded fault: what is left is not dispatched.
MarkQueueAsFinishedOnly ==
  /\ pc = "idle" /\ toFinish # <<>>
  /\ isFinished' = [isFinished EXCEPT ![Head(toFinish)] = TRUE]
  /\ toFinish' = Tail(toFinish)
  /\ UNCHANGED <<queues, queue, start, lastDispatched, blocker, pc, done, sent, gone,
                 born>>

MarkQueueAsFinished ==
  /\ pc = "idle" /\ toFinish # <<>>
  /\ isFinished' = [isFinished EXCEPT ![Head(toFinish)] = TRUE]
  /\ toFinish' = Tail(toFinish)
  /\ pc' = "dispatch"
  /\ UNCHANGED <<queues, queue, start, lastDispatched, blocker, done, sent, gone, born>>

-----------------------------------------------------------------------------
(* Dispatch: the queues are looked at in order, up to the first that is    *)
(* empty and may still get data                                            *)

Empty(q) == queue[q] = <<>>
\* Seeded fault: only until the trajectory has begun.
WaitingAtFirst == {q \in queues : Empty(q) /\ ~isFinished[q] /\ start[Of(q)] = Null}

Waiting == {q \in queues : Empty(q) /\ ~isFinished[q]}

Seen == {q \in queues : \A w \in Waiting : q < w}
Full == {q \in Seen : ~Empty(q)}
Erased == {q \in Seen : Empty(q) /\ isFinished[q]}
\* Seeded fault: the comparison is the wrong way round.
Latest == CHOOSE q \in Full :
  \A r \in Full : Head(queue[q]) > Head(queue[r])
                  \/ (Head(queue[q]) = Head(queue[r]) /\ q <= r)

Earliest == CHOOSE q \in Full :
  \A r \in Full : Head(queue[q]) < Head(queue[r])
                  \/ (Head(queue[q]) = Head(queue[r]) /\ q <= r)

Unsorted == \E q \in Full : Head(queue[q]) < lastDispatched

\* CHECK_LE: data older than what was dispatched already.
Fail ==
  /\ pc = "dispatch" /\ Unsorted
  /\ pc' = "failed"
  /\ UNCHANGED <<queues, queue, isFinished, start, lastDispatched, blocker, toFinish,
                 done, sent, gone, born>>

\* An empty queue blocks.
Block ==
  /\ pc = "dispatch" /\ ~Unsorted
  /\ Waiting # {}
  /\ queues' = queues \ Erased
  /\ blocker' = Min(Waiting)
  /\ pc' = "idle"
  /\ UNCHANGED <<queue, isFinished, start, lastDispatched, toFinish, done, sent, gone,
                 born>>

\* Nothing is left.
Stop ==
  /\ pc = "dispatch"
  /\ Waiting = {} /\ Full = {}
  /\ queues' = queues \ Erased
  /\ pc' = "idle"
  /\ UNCHANGED <<queue, isFinished, start, lastDispatched, blocker, toFinish, done,
                 sent, gone, born>>

\* GetCommonStartTime: fixed when a trajectory's data is first considered.
CommonStart(t) == Max({Head(queue[q]) : q \in Full \cap Sensors[t]})

\* Seeded fault: whatever comes after it.
DropAlways(q, s) == Len(queue[q]) >= 2

\* The datum is too old, and so is the next one.
Drop(q, s) == Len(queue[q]) >= 2 /\ queue[q][2] <= s

\* Whether to drop it depends on a datum that is still to come.
Undecided(q) == Len(queue[q]) < 2 /\ ~isFinished[q]

\* The earliest datum is dispatched, dropped, or has to wait.
Take ==
  /\ pc = "dispatch" /\ ~Unsorted
  /\ Waiting = {} /\ Full # {}
  /\ queues' = queues \ Erased
  /\ LET q == Earliest
         time == Head(queue[q])
         s == IF start[Of(q)] = Null THEN CommonStart(Of(q)) ELSE start[Of(q)]
         drop == time < s /\ Drop(q, s)
     IN /\ start' = [start EXCEPT ![Of(q)] = s]
        /\ IF time < s /\ Undecided(q)
             THEN /\ blocker' = q
                  /\ pc' = "idle"
                  /\ UNCHANGED <<queue, lastDispatched, gone>>
             ELSE /\ queue' = [queue EXCEPT ![q] = Tail(@)]
                  /\ gone' = [gone EXCEPT ![q] = Append(@, ~drop)]
                  /\ lastDispatched' = IF drop THEN lastDispatched ELSE time
                  /\ UNCHANGED <<blocker, pc>>
  /\ UNCHANGED <<isFinished, toFinish, done, sent, born>>

Dispatch == Fail \/ Block \/ Stop \/ Take

Next ==
  \/ \E t \in Trajectory : AddTrajectory(t) \/ FinishTrajectory(t)
  \/ \E q \in Key, time \in Time : Add(q, time)
  \/ Flush \/ MarkQueueAsFinished
  \/ Dispatch

Spec == Init /\ [][Next]_vars

-----------------------------------------------------------------------------
TypeOK ==
  /\ queues \subseteq Key
  /\ queue \in [Key -> Seq(Time)] /\ sent \in [Key -> Seq(Time)]
  /\ isFinished \in [Key -> BOOLEAN]
  /\ start \in [Trajectory -> Time \cup {Null}]
  /\ lastDispatched \in -1..MaxTime
  /\ blocker \in Key \cup {Null}
  /\ pc \in {"idle", "dispatch", "failed"}
  /\ toFinish \in Seq(Key)
  /\ done \subseteq Trajectory
  /\ gone \in [Key -> Seq(BOOLEAN)]

\* Data sorted within each queue is enough for the CHECK at
\* ordered_multi_queue.cc:112, as the header says (ordered_multi_queue.h:63-64),
\* for all queues that existed when the dispatching began: what is too old for
\* it was too old already when its queue was added, as happens when a second
\* trajectory starts with data that was under way.
UnsortedOnlyIfLate ==
  \A q \in queues :
    ~Empty(q) /\ Head(queue[q]) < lastDispatched => Head(queue[q]) < born[q]

\* No datum is lost or dispatched twice: what left a queue was dispatched,
\* unless it and the datum after it both lie before the time at which all
\* sensors of the trajectory had data; and a queue is removed only when it is
\* empty (ordered_multi_queue.cc:121-147, 101).
OnlyOldDropped ==
  \A q \in Key :
    /\ sent[q] = SubSeq(sent[q], 1, Len(gone[q])) \o queue[q]
    /\ q \notin queues => Empty(q)
    /\ \A i \in DOMAIN gone[q] :
         gone[q][i] <=> ~(/\ i < Len(sent[q])
                          /\ sent[q][i] < start[Of(q)]
                          /\ sent[q][i + 1] <= start[Of(q)])

\* It never waits in vain: between calls some queue is left only if the
\* blocker is an unfinished one that has at most one datum; so nothing is left
\* after Flush, or when all trajectories are finished
\* (ordered_multi_queue.h:66-72, ordered_multi_queue.cc:43-47).
WaitsForBlocker ==
  Idle /\ queues # {} /\ (\E q \in queues : sent[q] # <<>> \/ isFinished[q]) =>
    /\ blocker \in queues
    /\ ~isFinished[blocker]
    /\ Len(queue[blocker]) <= 1

Merge == INSTANCE TimeMerge WITH
  Source <- Key, Stamp <- Time,
  begun <- {q \in Key : born[q] # Null}, ended <- {q \in Key : isFinished[q]},
  input <- sent, output <- gone

\* The queues merge by time: whatever leaves is the earliest of all that is
\* there, and no queue added so far can still get anything earlier, although
\* empty queues are erased and looked at only up to the first that blocks
\* (ordered_multi_queue.cc:92-149).
ImplementsMerge == Merge!Spec
=============================================================================
