------------------------------ MODULE PoseGraph ------------------------------
(***************************************************************************)
(* cartographer's PoseGraph2D with its ConstraintBuilder2D, on top of a    *)
(* pool that keeps the promise of TaskGraph: one foreground thread adds    *)
(* nodes, sensor data and commands; what they ask for is queued as work    *)
(* items, and whichever task found the queue empty drains it.  Draining    *)
(* schedules searches for constraints, and stops for an optimization: that *)
(* one waits, as a task, for all searches and then goes on draining.       *)
(*                                                                         *)
(* A constraint is the pair of a node and a submap; poses, scans, scores   *)
(* and samplers are left out (whether to search and whether a match is     *)
(* found is a free choice).  Loading a state and deleting a trajectory,    *)
(* which only the unused cloud server asks for, are not modelled.          *)
(***************************************************************************)
EXTENDS Integers, Sequences, FiniteSets

CONSTANTS
  Trajectory,
  Localize,       \* those begun with a PureLocalizationTrimmer
  RangeData,      \* num_range_data: nodes until the next submap is begun
  OptimizeEvery,  \* optimize_every_n_nodes
  Keep,           \* num_submaps_to_keep of the localization trimmer
  Null,
  MaxNodes,       \* bound: nodes added
  MaxData,        \* bound: sensor data added
  MaxFinal        \* bound: calls of RunFinalOptimization

ASSUME PoseGraphAssumption ==
  /\ IsFiniteSet(Trajectory) /\ MaxNodes \in Nat
  /\ RangeData \in Nat \ {0} /\ OptimizeEvery \in Nat \ {0}
  /\ Keep \in Nat /\ Keep >= 2
  /\ Localize \subseteq Trajectory

VARIABLES
  workQueue,    \* work_queue_: Null or a sequence of work items
  drainTasks,   \* tasks in the pool that will start to drain
  pc, cur,      \* where the draining task is, the work item it has taken
  todo,         \* constraints it has still to look at for this node
  submaps,      \* data_.submap_data: state of each submap
  nodes,        \* data_.trajectory_nodes
  problem,      \* the nodes optimization_problem_ knows
  trajectory,   \* data_.trajectories_state
  trimmers,     \* trajectories with a PureLocalizationTrimmer
  sinceClosure, \* num_nodes_since_last_loop_closure_
  final,        \* the solver is set to max_num_final_iterations
  constraints,  \* the INTER_SUBMAP ones in data_.constraints
  slots,        \* ConstraintBuilder2D::constraints_, the pairs they are for
  found,        \* those of them that were set
  search,       \* state of each constraint's task
  matchers,     \* submap_scan_matchers_
  building,     \* scan matchers whose creation task has not ended
  openDeps,     \* dependencies of finish_node_task_
  finishTasks,  \* finish_node tasks scheduled and not run: node, dependencies
  doneDeps,     \* dependencies of when_done_task_: nodes
  doneTask,     \* the when_done task in the pool: Null or its dependencies
  whenDone,     \* when_done_: "none", "handle" (the queue) or "wait"
  finished,     \* num_finished_nodes_
  result,       \* what RunWhenDoneCallback hands over
  notifying,    \* the callback of WaitForAllComputations is under way
  fg, fgNode,   \* where the foreground thread is
  fgCount,      \* num_trajectory_nodes it has read
  added,        \* nodes of each trajectory so far
  client,       \* what the foreground thread did with each trajectory
  data, finals, \* sensor data and final optimizations so far
  looked,       \* history: how often each pair was looked at
  solvedFinal   \* history: a final optimization has been run

pgVars == <<submaps, nodes, problem, trajectory, trimmers, sinceClosure, final,
            constraints>>
cbVars == <<slots, found, search, matchers, building, openDeps, finishTasks,
            doneDeps, doneTask, whenDone, finished>>
drVars == <<drainTasks, pc, cur, todo, result>>
fgVars == <<fg, fgNode, fgCount, added, client, data, finals>>
vars == <<workQueue, drVars, pgVars, cbVars, fgVars, notifying, looked, solvedFinal>>

Id == Trajectory \X (1..MaxNodes)      \* of nodes and of submaps
Pair == Id \X Id                       \* a node and a submap

WorkItem ==
  [kind : {"node"}, arg : Id] \cup [kind : {"data", "trimmer", "finish"}, arg : Trajectory]
    \cup [kind : {"final", "reset"}, arg : {Null}]

ASSUME NullAssumption == Null \notin Seq(WorkItem) /\ \A S \in SUBSET Id : S # Null

\* ActiveSubmaps2D: a submap takes 2 * RangeData nodes, the next one is begun
\* after half of them.
NodesOf(s) == {n \in Id : n[1] = s[1] /\ n[2] > (s[2] - 1) * RangeData
                                      /\ n[2] <= (s[2] + 1) * RangeData}
SubmapsOf(n) == {s \in Id : n \in NodesOf(s)}
Last(s) == <<s[1], (s[2] + 1) * RangeData>>
InsertionFinished(s) == added[s[1]] >= Last(s)[2]

NumNodes == Cardinality({i \in Id : i[2] <= added[i[1]]})

Init ==
  /\ workQueue = Null /\ drainTasks = 0
  /\ pc = "none" /\ cur = Null /\ todo = {} /\ result = {}
  /\ submaps = [s \in Id |-> "none"]
  /\ nodes = {} /\ problem = {}
  /\ trajectory = [t \in Trajectory |-> "none"]
  /\ trimmers = {} /\ sinceClosure = 0 /\ final = FALSE
  /\ constraints = {}
  /\ slots = {} /\ found = {}
  /\ search = [p \in Pair |-> "none"]
  /\ matchers = {} /\ building = {}
  /\ openDeps = {} /\ finishTasks = {}
  /\ doneDeps = {} /\ doneTask = Null /\ whenDone = "none" /\ finished = 0
  /\ notifying = FALSE
  /\ fg = "idle" /\ fgNode = Null /\ fgCount = 0
  /\ added = [t \in Trajectory |-> 0]
  /\ client = [t \in Trajectory |-> "new"]
  /\ data = 0 /\ finals = 0
  /\ looked = [p \in Pair |-> 0]
  /\ solvedFinal = FALSE

-----------------------------------------------------------------------------
(* The foreground thread                                                   *)

\* Seeded fault: a drain is scheduled for every item.
AddWorkItemAlwaysDrain(item) ==
  /\ workQueue' = IF workQueue = Null THEN <<item>> ELSE Append(workQueue, item)
  /\ drainTasks' = drainTasks + 1
AddWorkItem(item) ==
  IF workQueue = Null
    THEN workQueue' = <<item>> /\ drainTasks' = drainTasks + 1
    ELSE workQueue' = Append(workQueue, item) /\ UNCHANGED drainTasks

Item(kind, arg) == [kind |-> kind, arg |-> arg]

Request(item) ==
  /\ AddWorkItem(item)
  /\ UNCHANGED <<pc, cur, todo, result, pgVars, cbVars, notifying, looked, solvedFinal>>

\* AddNode: AppendNode under mutex_.
AppendNode(t) ==
  /\ fg = "idle" /\ client[t] = "open"
  /\ NumNodes < MaxNodes
  /\ LET n == <<t, added[t] + 1>> IN
       /\ added' = [added EXCEPT ![t] = n[2]]
       /\ nodes' = nodes \cup {n}
       /\ submaps' = [s \in Id |-> IF s \in SubmapsOf(n) /\ submaps[s] = "none"
                                     THEN "open" ELSE submaps[s]]
       /\ fgNode' = n
  /\ trajectory' = [trajectory EXCEPT ![t] = IF @ = "none" THEN "active" ELSE @]
  /\ fg' = "append"
  /\ UNCHANGED <<workQueue, drVars, problem, trimmers, sinceClosure, final,
                 constraints, cbVars, notifying, fgCount, client, data, finals,
                 looked, solvedFinal>>

\* AddNode: the work item, with what the submaps are like now.
AddNode ==
  /\ fg = "append"
  /\ Request(Item("node", fgNode))
  /\ fg' = "idle" /\ fgNode' = Null
  /\ UNCHANGED <<fgCount, added, client, data, finals>>

\* AddImuData, AddOdometryData, AddFixedFramePoseData, AddLandmarkData.
AddData(t) ==
  /\ fg = "idle" /\ client[t] = "open" /\ data < MaxData
  /\ Request(Item("data", t))
  /\ data' = data + 1
  /\ UNCHANGED <<fg, fgNode, fgCount, added, client, finals>>

\* AddTrajectoryBuilder: in localization mode a trimmer comes with it.
AddTrajectory(t) ==
  /\ fg = "idle" /\ client[t] = "new"
  /\ client' = [client EXCEPT ![t] = "open"]
  /\ IF t \in Localize
       THEN Request(Item("trimmer", t))
       ELSE UNCHANGED <<workQueue, drVars, pgVars, cbVars, notifying, looked, solvedFinal>>
  /\ UNCHANGED <<fg, fgNode, fgCount, added, data, finals>>

FinishTrajectory(t) ==
  /\ fg = "idle" /\ client[t] = "open"
  /\ Request(Item("finish", t))
  /\ client' = [client EXCEPT ![t] = "finished"]
  /\ UNCHANGED <<fg, fgNode, fgCount, added, data, finals>>

\* RunFinalOptimization: two work items, then WaitForAllComputations.
RunFinalOptimization ==
  /\ fg = "idle" /\ finals < MaxFinal
  /\ Request(Item("final", Null))
  /\ fg' = "final" /\ finals' = finals + 1
  /\ UNCHANGED <<fgNode, fgCount, added, client, data>>

ResetIterations ==
  /\ fg = "final"
  /\ Request(Item("reset", Null))
  /\ fg' = "count"
  /\ UNCHANGED <<fgNode, fgCount, added, client, data, finals>>

\* WaitForAllComputations: num_trajectory_nodes is read; ...
CountNodes ==
  /\ fg = "count"
  /\ fgCount' = NumNodes
  /\ fg' = "waitQueue"
  /\ UNCHANGED <<workQueue, drVars, pgVars, cbVars, notifying, fgNode, added, client,
                 data, finals, looked, solvedFinal>>

\* ... it waits until the work queue is gone, ...
QueueDrained ==
  /\ fg = "waitQueue" /\ workQueue = Null
  /\ fg' = "whenDone"
  /\ UNCHANGED <<workQueue, drVars, pgVars, cbVars, notifying, fgNode, fgCount,
                 added, client, data, finals, looked, solvedFinal>>

\* ConstraintBuilder2D::WhenDone
WhenDone(who) ==
  /\ whenDone' = who
  /\ doneTask' = doneDeps
  /\ doneDeps' = {}
  /\ UNCHANGED <<slots, found, search, matchers, building, openDeps, finishTasks,
                 finished>>

\* ... asks to be called back and waits for that.
WaitWhenDone ==
  /\ fg = "whenDone"
  /\ WhenDone("wait")
  /\ fg' = "waitDone"
  /\ UNCHANGED <<workQueue, drVars, pgVars, notifying, fgNode, fgCount, added, client,
                 data, finals, looked, solvedFinal>>

\* The callback, under mutex_: the wait is over.
Notify ==
  /\ notifying
  /\ constraints' = constraints \cup result
  /\ result' = {}
  /\ notifying' = FALSE
  /\ fg' = "idle"
  /\ UNCHANGED <<workQueue, drainTasks, pc, cur, todo, submaps, nodes, problem,
                 trajectory, trimmers, sinceClosure, final, cbVars, fgNode, fgCount,
                 added, client, data, finals, looked, solvedFinal>>

Foreground ==
  \/ \E t \in Trajectory : AppendNode(t) \/ AddData(t) \/ AddTrajectory(t) \/ FinishTrajectory(t)
  \/ AddNode \/ RunFinalOptimization \/ ResetIterations
  \/ CountNodes \/ QueueDrained \/ WaitWhenDone

-----------------------------------------------------------------------------
(* DrainWorkQueue and HandleWorkQueue, in a task of the pool               *)

fgOthers == <<fgVars, solvedFinal>>

StartDrain ==
  /\ drainTasks > 0 /\ pc = "none"
  /\ drainTasks' = drainTasks - 1
  /\ pc' = "drain"
  /\ UNCHANGED <<workQueue, cur, todo, result, pgVars, cbVars, notifying, looked, fgOthers>>

PopWorkItem ==
  /\ pc = "drain"
  /\ IF workQueue = <<>>
       THEN /\ workQueue' = Null
            /\ pc' = "none"
            /\ UNCHANGED cur
       ELSE /\ cur' = Head(workQueue)
            /\ workQueue' = Tail(workQueue)
            /\ pc' = "item"
  /\ UNCHANGED <<drainTasks, todo, result, pgVars, cbVars, notifying, looked, fgOthers>>

Finished(s) == submaps[s] = "finished"
NewlyFinished(n) == {s \in SubmapsOf(n) : n = Last(s)}

\* Seeded fault: the submap just finished is already among those searched.
ComputeConstraintsForNodeFinishFirst ==
  /\ pc = "item" /\ cur.kind = "node"
  /\ LET n == cur.arg IN
       /\ problem' = problem \cup {n}
       /\ submaps' = [s \in Id |-> IF s \in NewlyFinished(n) THEN "finished" ELSE submaps[s]]
       /\ todo' = ({n} \X {s \in Id : submaps'[s] = "finished"})
                   \cup {p \in problem' \X NewlyFinished(n) : p[1] \notin NodesOf(p[2])}
  /\ pc' = "search"
  /\ UNCHANGED <<workQueue, drainTasks, cur, result, nodes, trajectory, trimmers,
                 sinceClosure, final, constraints, cbVars, notifying, looked, fgOthers>>

\* The part of ComputeConstraintsForNode under mutex_, which says what is to be
\* looked at: the node against finished submaps, old nodes against a new one.
ComputeConstraintsForNode ==
  /\ pc = "item" /\ cur.kind = "node"
  /\ LET n == cur.arg IN
       /\ problem' = problem \cup {n}
       /\ submaps' = [s \in Id |-> IF s \in NewlyFinished(n) THEN "finished" ELSE submaps[s]]
       /\ todo' = ({n} \X {s \in Id : Finished(s)})
                   \cup {p \in problem' \X NewlyFinished(n) : p[1] \notin NodesOf(p[2])}
  /\ pc' = "search"
  /\ UNCHANGED <<workQueue, drainTasks, cur, result, nodes, trajectory, trimmers,
                 sinceClosure, final, constraints, cbVars, notifying, looked, fgOthers>>

\* ComputeConstraint finds nothing to do, by distance or sampler.
SkipConstraint ==
  /\ pc = "search"
  /\ \E p \in todo :
       /\ todo' = todo \ {p}
       /\ looked' = IF InsertionFinished(p[2]) THEN [looked EXCEPT ![p] = @ + 1] ELSE looked
  /\ UNCHANGED <<workQueue, drainTasks, pc, cur, result, pgVars, cbVars, notifying, fgOthers>>

\* MaybeAddConstraint or MaybeAddGlobalConstraint, with
\* DispatchScanMatcherConstruction.
MaybeAddConstraint ==
  /\ pc = "search"
  /\ \E p \in todo :
       /\ InsertionFinished(p[2])
       /\ todo' = todo \ {p}
       /\ looked' = [looked EXCEPT ![p] = @ + 1]
       /\ slots' = slots \cup {p}
       /\ search' = [search EXCEPT ![p] = "scheduled"]
       /\ openDeps' = openDeps \cup {p}
       /\ matchers' = matchers \cup {p[2]}
       /\ building' = IF p[2] \in matchers THEN building ELSE building \cup {p[2]}
  /\ UNCHANGED <<workQueue, drainTasks, pc, cur, result, pgVars, found, finishTasks,
                 doneDeps, doneTask, whenDone, finished, notifying, fgOthers>>

\* NotifyEndOfNode, and the end of ComputeConstraintsForNode.
NotifyEndOfNode ==
  /\ pc = "search" /\ todo = {}
  /\ finishTasks' = finishTasks \cup {[node |-> cur.arg, deps |-> openDeps]}
  /\ openDeps' = {}
  /\ doneDeps' = doneDeps \cup {cur.arg}
  /\ sinceClosure' = sinceClosure + 1
  /\ cur' = Null
  /\ pc' = IF sinceClosure' > OptimizeEvery THEN "whenDone" ELSE "drain"
  /\ UNCHANGED <<workQueue, drainTasks, todo, result, submaps, nodes, problem, trajectory,
                 trimmers, final, constraints, slots, found, search, matchers,
                 building, doneTask, whenDone, finished, notifying, looked, fgOthers>>

\* The other work items.
RunWorkItem ==
  /\ pc = "item" /\ cur.kind # "node"
  /\ trimmers' = IF cur.kind = "trimmer" THEN trimmers \cup {cur.arg} ELSE trimmers
  /\ IF cur.kind = "finish"
       THEN /\ trajectory' = [trajectory EXCEPT ![cur.arg] = "finished"]
            /\ submaps' = [s \in Id |-> IF s[1] = cur.arg /\ submaps[s] = "open"
                                          THEN "finished" ELSE submaps[s]]
       ELSE UNCHANGED <<trajectory, submaps>>
  /\ final' = CASE cur.kind = "final" -> TRUE [] cur.kind = "reset" -> FALSE
                 [] OTHER -> final
  /\ pc' = IF cur.kind \in {"finish", "final"} THEN "whenDone" ELSE "drain"
  /\ cur' = Null
  /\ UNCHANGED <<workQueue, drainTasks, todo, result, nodes, problem, sinceClosure,
                 constraints, cbVars, notifying, looked, fgOthers>>

\* Seeded fault: the optimization is run at once.
DrainWhenDoneAtOnce ==
  /\ pc = "whenDone"
  /\ pc' = "solve"
  /\ UNCHANGED <<workQueue, drainTasks, cur, todo, result, pgVars, cbVars, notifying,
                 looked, fgOthers>>

\* The optimization is put off until all searches are done.
DrainWhenDone ==
  /\ pc = "whenDone"
  /\ WhenDone("handle")
  /\ pc' = "none"
  /\ UNCHANGED <<workQueue, drainTasks, cur, todo, result, pgVars, notifying, looked,
                 fgOthers>>

\* HandleWorkQueue: the constraints that were found are added.
InsertConstraints ==
  /\ pc = "insert"
  /\ constraints' = constraints \cup result
  /\ result' = {}
  /\ pc' = IF problem = {} THEN "trim" ELSE "solve"
  /\ UNCHANGED <<workQueue, drainTasks, cur, todo, submaps, nodes, problem, trajectory,
                 trimmers, sinceClosure, final, cbVars, notifying, looked, fgOthers>>

\* RunOptimization: Solve, which takes long and no lock, has returned.
Solve ==
  /\ pc = "solve"
  /\ pc' = "trim"
  /\ solvedFinal' = (solvedFinal \/ final)
  /\ UNCHANGED <<workQueue, drainTasks, cur, todo, result, pgVars, cbVars, notifying,
                 looked, fgVars>>

\* PureLocalizationTrimmer::Trim: all but the newest submaps, or all.
Surplus(t) ==
  LET mine == {s \in Id : s[1] = t /\ submaps[s] \in {"open", "finished"}
                                  /\ NodesOf(s) \cap problem # {}}
  IN IF trajectory[t] = "finished" THEN mine
     ELSE {s \in mine : Cardinality({r \in mine : r[2] >= s[2]}) > Keep}

\* Nodes that would be in no submap any more.
Orphans(gone) ==
  {n \in problem : \A s \in SubmapsOf(n) : s \in gone \/ submaps[s] = "trimmed"}

\* Scan matchers to delete: of the submaps that go and of those that lose
\* their last constraint.
Useless(gone, kept) ==
  gone \cup ({c[2] : c \in constraints} \ {c[2] : c \in kept})

\* Seeded fault: draining does not go on.
TrimAndStop ==
  /\ pc = "trim"
  /\ LET gone == UNION {Surplus(t) : t \in trimmers}
         kept == {c \in constraints : c[2] \notin gone /\ c[1] \notin Orphans(gone)}
         over == {t \in trimmers : trajectory[t] = "finished"}
     IN /\ submaps' = [s \in Id |-> IF s \in gone THEN "trimmed" ELSE submaps[s]]
        /\ constraints' = kept
        /\ nodes' = nodes \ Orphans(gone)
        /\ problem' = problem \ Orphans(gone)
        /\ matchers' = matchers \ Useless(gone, kept)
        /\ trimmers' = trimmers \ over
        /\ trajectory' = [t \in Trajectory |-> IF t \in over THEN "deleted" ELSE trajectory[t]]
  /\ sinceClosure' = 0
  /\ pc' = "none"
  /\ UNCHANGED <<workQueue, drainTasks, cur, todo, result, final, slots, found, search,
                 building, openDeps, finishTasks, doneDeps, doneTask, whenDone,
                 finished, notifying, looked, fgOthers>>

\* HandleWorkQueue: trimming; then draining goes on.
Trim ==
  /\ pc = "trim"
  /\ LET gone == UNION {Surplus(t) : t \in trimmers}
         kept == {c \in constraints : c[2] \notin gone /\ c[1] \notin Orphans(gone)}
         over == {t \in trimmers : trajectory[t] = "finished"}
     IN /\ submaps' = [s \in Id |-> IF s \in gone THEN "trimmed" ELSE submaps[s]]
        /\ constraints' = kept
        /\ nodes' = nodes \ Orphans(gone)
        /\ problem' = problem \ Orphans(gone)
        /\ matchers' = matchers \ Useless(gone, kept)
        /\ trimmers' = trimmers \ over
        /\ trajectory' = [t \in Trajectory |-> IF t \in over THEN "deleted" ELSE trajectory[t]]
  /\ sinceClosure' = 0
  /\ pc' = "drain"
  /\ UNCHANGED <<workQueue, drainTasks, cur, todo, result, final, slots, found, search,
                 building, openDeps, finishTasks, doneDeps, doneTask, whenDone,
                 finished, notifying, looked, fgOthers>>

Drain ==
  \/ StartDrain \/ PopWorkItem \/ ComputeConstraintsForNode \/ SkipConstraint
  \/ MaybeAddConstraint \/ NotifyEndOfNode \/ RunWorkItem \/ DrainWhenDone
  \/ InsertConstraints \/ Solve \/ Trim

-----------------------------------------------------------------------------
(* The other tasks of the pool                                             *)

poolOthers == <<workQueue, drainTasks, cur, todo, pgVars, fgVars, looked, solvedFinal>>

BuildMatcher ==
  /\ \E s \in building : building' = building \ {s}
  /\ UNCHANGED <<poolOthers, pc, result, slots, found, search, matchers, openDeps,
                 finishTasks, doneDeps, doneTask, whenDone, finished, notifying>>

\* ConstraintBuilder2D::ComputeConstraint begins, after its scan matcher, ...
BeginSearch ==
  /\ \E p \in Pair :
       /\ search[p] = "scheduled" /\ p[2] \notin building
       /\ search' = [search EXCEPT ![p] = "running"]
  /\ UNCHANGED <<poolOthers, pc, result, slots, found, matchers, building, openDeps,
                 finishTasks, doneDeps, doneTask, whenDone, finished, notifying>>

\* ... and ends, with or without having set its slot.
EndSearch ==
  /\ \E p \in Pair :
       /\ search[p] = "running"
       /\ search' = [search EXCEPT ![p] = "none"]
       /\ found' \in {found, found \cup {p}}
  /\ UNCHANGED <<poolOthers, pc, result, slots, matchers, building, openDeps,
                 finishTasks, doneDeps, doneTask, whenDone, finished, notifying>>

\* Seeded fault: the task of a node does not wait for its searches.
FinishNodeEarly ==
  /\ \E f \in finishTasks : finishTasks' = finishTasks \ {f}
  /\ finished' = finished + 1
  /\ UNCHANGED <<poolOthers, pc, result, slots, found, search, matchers, building,
                 openDeps, doneDeps, doneTask, whenDone, notifying>>

FinishNode ==
  /\ \E f \in finishTasks :
       /\ \A p \in f.deps : search[p] = "none"
       /\ finishTasks' = finishTasks \ {f}
  /\ finished' = finished + 1
  /\ UNCHANGED <<poolOthers, pc, result, slots, found, search, matchers, building,
                 openDeps, doneDeps, doneTask, whenDone, notifying>>

\* Seeded fault: when_done_ is left set.
RunWhenDoneCallbackKeeps ==
  /\ doneTask # Null
  /\ \A f \in finishTasks : f.node \notin doneTask
  /\ doneTask' = Null
  /\ result' = found
  /\ slots' = {} /\ found' = {}
  /\ IF whenDone = "handle"
       THEN pc' = "insert" /\ UNCHANGED notifying
       ELSE notifying' = TRUE /\ UNCHANGED pc
  /\ UNCHANGED <<poolOthers, search, matchers, building, openDeps, finishTasks,
                 doneDeps, whenDone, finished>>

\* RunWhenDoneCallback: the results are taken out and handed over.
RunWhenDoneCallback ==
  /\ doneTask # Null
  /\ \A f \in finishTasks : f.node \notin doneTask
  /\ doneTask' = Null /\ whenDone' = "none"
  /\ result' = found
  /\ slots' = {} /\ found' = {}
  /\ IF whenDone = "handle"
       THEN pc' = "insert" /\ UNCHANGED notifying
       ELSE notifying' = TRUE /\ UNCHANGED pc
  /\ UNCHANGED <<poolOthers, search, matchers, building, openDeps, finishTasks,
                 doneDeps, finished>>

Pool == BuildMatcher \/ BeginSearch \/ EndSearch \/ FinishNode \/ RunWhenDoneCallback

Next == Foreground \/ Notify \/ Drain \/ Pool

Spec == Init /\ [][Next]_vars

\* The pool runs every task some day (TaskGraph), work items, searches and
\* Solve end, and the foreground thread goes on once it may.
Fairness ==
  /\ WF_vars(Drain) /\ WF_vars(Notify)
  /\ WF_vars(BuildMatcher) /\ WF_vars(BeginSearch) /\ WF_vars(EndSearch)
  /\ WF_vars(FinishNode) /\ WF_vars(RunWhenDoneCallback)
  /\ WF_vars(ResetIterations \/ CountNodes \/ QueueDrained \/ WaitWhenDone)

FairSpec == Spec /\ Fairness

-----------------------------------------------------------------------------
TypeOK ==
  /\ workQueue = Null \/ workQueue \in Seq(WorkItem)
  /\ drainTasks \in Nat
  /\ pc \in {"none", "drain", "item", "search", "whenDone", "insert", "solve", "trim"}
  /\ cur \in WorkItem \cup {Null}
  /\ todo \subseteq Pair /\ result \subseteq Pair
  /\ submaps \in [Id -> {"none", "open", "finished", "trimmed"}]
  /\ nodes \subseteq Id /\ problem \subseteq Id
  /\ trajectory \in [Trajectory -> {"none", "active", "finished", "deleted"}]
  /\ trimmers \subseteq Trajectory
  /\ sinceClosure \in Nat /\ finished \in Nat
  /\ constraints \subseteq Pair /\ slots \subseteq Pair /\ found \subseteq slots
  /\ search \in [Pair -> {"none", "scheduled", "running"}]
  /\ matchers \subseteq Id /\ building \subseteq Id
  /\ \A f \in finishTasks : f.node \in Id /\ f.deps \subseteq Pair
  /\ whenDone \in {"none", "handle", "wait"}
  /\ client \in [Trajectory -> {"new", "open", "finished"}]

Searching == {p \in Pair : search[p] # "none"}

\* Exactly one task drains, or is going to, as long as there is a work queue,
\* and none when there is not: whoever resets it is the last to look at it
\* (pose_graph_2d.cc:174-182, 520-530).
Drainers ==
  drainTasks + (IF pc = "none" THEN 0 ELSE 1)
             + (IF doneTask # Null /\ whenDone = "handle" THEN 1 ELSE 0)
OneDrainer == Drainers = (IF workQueue = Null THEN 0 ELSE 1)

\* The state is well formed and the CHECKs hold: nobody calls WhenDone while a callback is set; a node is
\* inserted into open submaps only; what is asked of a trajectory comes
\* before its end; every node of the problem is known, and every node counted
\* at the start of a wait is finished at its end (constraint_builder_2d.cc:156,
\* pose_graph_2d.cc:344, 605, 638, 878, 916).
ChecksHold ==
  /\ TypeOK
  /\ (pc = "whenDone" \/ fg = "whenDone") => whenDone = "none"
  /\ pc = "item" =>
       /\ cur.kind = "node" => \A s \in SubmapsOf(cur.arg) : submaps[s] = "open"
       /\ cur.kind \in {"data", "finish"} =>
            trajectory[cur.arg] \notin {"finished", "deleted"}
  /\ problem \subseteq nodes
  /\ notifying => finished = fgCount

\* A search never outlives what it points to: its slot in constraints_, its
\* scan matcher, its node and its submap are there until it has ended
\* (constraint_builder_2d.cc:99-107, 294, 313; pose_graph_2d.cc:1281, 1296).
SearchesHoldTheirData ==
  /\ Searching \subseteq slots
  /\ building \subseteq matchers
  /\ \A p \in Searching : p[1] \in nodes /\ submaps[p[2]] = "finished" /\ p[2] \in matchers

\* While Solve runs, without any lock, no other task works on the problem or
\* its constraints, not even by a search whose result is still to come
\* (the comment at pose_graph_2d.cc:866-869).
SolveAlone ==
  pc = "solve" => ~notifying /\ drainTasks = 0 /\ Searching = {} /\ slots = {}

\* Between two nodes, every node has been held against every submap that was
\* filled and is not its own, once, whichever of the two came first
\* (pose_graph_2d.cc:359-392, with the CHECK at 365).
EachPairOnce ==
  /\ \A p \in Pair : looked[p] <= IF p[1] \in NodesOf(p[2]) THEN 0 ELSE 1
  /\ pc # "search" =>
       \A n \in problem : \A s \in Id :
         Finished(s) /\ Last(s) \in problem /\ n \notin NodesOf(s) => looked[<<n, s>>] = 1

\* RunFinalOptimization returns when its work is done: nothing is queued, no
\* result is left behind, and the last optimization used the final settings,
\* which have been taken back (pose_graph_2d.cc:841-859).
FinalOptimizationDone ==
  [][ notifying /\ ~notifying' =>
        /\ workQueue = Null /\ slots = {} /\ finishTasks = {} /\ Searching = {}
        /\ ~final /\ (problem # {} => solvedFinal) ]_vars

\* It does return (pose_graph_2d.cc:579, 601).
WaitReturns == fg = "final" ~> fg = "idle"
=============================================================================
