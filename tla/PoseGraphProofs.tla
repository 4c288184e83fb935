--------------------------- MODULE PoseGraphProofs ---------------------------
(***************************************************************************)
(* The hand-over of the work queue in PoseGraph, for any number of         *)
(* trajectories, nodes and final optimizations: one task drains, searches  *)
(* hold what they use, nobody disturbs the solver, and a final             *)
(* optimization is done when it returns.  Then, from the order in which    *)
(* nodes enter the problem: every pair of a node and a submap is looked at *)
(* once, and the CHECKs hold.                                              *)
(***************************************************************************)
EXTENDS PoseGraph, TLAPS, FiniteSetTheorems

Types ==
  /\ TypeOK
  /\ fg \in {"idle", "append", "final", "count", "waitQueue", "whenDone", "waitDone"}
  /\ added \in [Trajectory -> Nat]
  /\ notifying \in BOOLEAN /\ final \in BOOLEAN /\ solvedFinal \in BOOLEAN
  /\ openDeps \subseteq Pair /\ doneDeps \subseteq Id
  /\ doneTask \in {Null} \cup (SUBSET Id)
  /\ pc \in {"item", "search"} => cur \in WorkItem

Items == IF workQueue = Null THEN <<>> ELSE workQueue

\* The queue is there as long as somebody drains it or will, the callback of
\* WhenDone is set as long as its task is in the pool, and the foreground
\* thread asks for one only when the queue is gone.
Handover ==
  /\ OneDrainer
  /\ doneTask = Null <=> whenDone = "none"
  /\ whenDone = "wait" \/ notifying => fg = "waitDone"
  /\ notifying => whenDone = "none"
  /\ fg \in {"whenDone", "waitDone"} => workQueue = Null

\* Who waits for what: the task of a node for its searches, the callback for
\* the tasks of the nodes.
Waits ==
  /\ \A p \in Searching :
       /\ p \in slots
       /\ p \in openDeps \/ \E f \in finishTasks : p \in f.deps
  /\ \A f \in finishTasks : f.node \in doneDeps \/ (doneTask # Null /\ f.node \in doneTask)
  /\ pc # "search" => openDeps = {} /\ todo = {}
  /\ doneTask # Null => doneDeps = {}
  /\ pc \in {"insert", "solve", "trim"} \/ notifying =>
       doneTask = Null /\ finishTasks = {} /\ doneDeps = {} /\ slots = {}

\* A node is queued once, and enters the problem when its item is taken.
NodesOnce ==
  /\ \A n \in nodes : n \in Id /\ n[2] <= added[n[1]]
  /\ problem \subseteq nodes
  /\ \A i \in DOMAIN Items : Items[i].kind = "node" => Items[i].arg \in nodes \ problem
  /\ \A i, j \in DOMAIN Items :
       Items[i].kind = "node" /\ Items[j].kind = "node" /\ Items[i].arg = Items[j].arg => i = j
  /\ pc = "item" /\ cur.kind = "node" =>
       /\ cur.arg \in nodes \ problem
       /\ \A i \in DOMAIN Items : Items[i].kind = "node" => Items[i].arg # cur.arg
  /\ pc = "search" => cur.kind = "node" /\ cur.arg \in problem
  /\ fg = "append" =>
       /\ fgNode \in nodes \ problem
       /\ \A i \in DOMAIN Items : Items[i].kind = "node" => Items[i].arg # fgNode
       /\ pc = "item" /\ cur.kind = "node" => cur.arg # fgNode

\* What a search needs is there.
Holds ==
  /\ \A p \in todo : p[1] \in problem /\ Finished(p[2])
  /\ \A p \in Searching : p[1] \in nodes /\ Finished(p[2]) /\ p[2] \in matchers
  /\ \A s \in building : s \in matchers /\ \E p \in Pair : search[p] = "scheduled" /\ p[2] = s

\* Final settings are taken back, and used before that.
Kind(i) == Items[i].kind
Waiting == fg \in {"final", "count", "waitQueue", "whenDone", "waitDone"}
Optimizing == \/ pc \in {"whenDone", "insert", "solve"}
              \/ pc = "none" /\ whenDone = "handle"

Finals ==
  /\ \A i \in DOMAIN Items : Kind(i) = "final" =>
       fg = "final" \/ \E j \in DOMAIN Items : i < j /\ Kind(j) = "reset"
  /\ final \/ (pc = "item" /\ cur.kind = "final") =>
       \/ fg = "final"
       \/ \E j \in DOMAIN Items : Kind(j) = "reset"
       \/ pc = "item" /\ cur.kind = "reset"
  /\ Waiting =>
       \/ \E i \in DOMAIN Items :
            Kind(i) = "final" /\ \A j \in DOMAIN Items : i < j => Kind(j) # "node"
       \/ /\ \A i \in DOMAIN Items : Kind(i) # "node"
          /\ ~(pc = "item" /\ cur.kind = "node")
          /\ \/ pc = "item" /\ cur.kind = "final"
             \/ final /\ Optimizing
             \/ problem = {} \/ solvedFinal

IInv == Types /\ Handover /\ Waits /\ NodesOnce /\ Holds /\ Finals

-----------------------------------------------------------------------------
(* The work queue, and the types                                           *)

\* Items are the queue, if there is one.
LEMMA ItemsType ==
  ASSUME Types
  PROVE  Items \in Seq(WorkItem)
BY DEF Types, TypeOK, Items

LEMMA ItemAdded ==
  ASSUME Types, NEW item \in WorkItem, AddWorkItem(item)
  PROVE  /\ workQueue' \in Seq(WorkItem) /\ workQueue' # Null
         /\ Items' = Append(Items, item)
         /\ drainTasks' = (IF workQueue = Null THEN drainTasks + 1 ELSE drainTasks)
<1>1. CASE workQueue = Null
  <2>1. workQueue' = <<item>> /\ Items = <<>>
    BY <1>1 DEF AddWorkItem, Items
  <2>2. workQueue' \in Seq(WorkItem) /\ workQueue' = Append(Items, item)
    BY <2>1
  <2>3. workQueue' # Null
    BY <2>2, NullAssumption
  <2> QED
    BY <1>1, <2>2, <2>3 DEF AddWorkItem, Items
<1>2. CASE workQueue # Null
  <2>1. workQueue' = Append(workQueue, item) /\ Items = workQueue
    BY <1>2 DEF AddWorkItem, Items
  <2>2. workQueue' \in Seq(WorkItem)
    BY <1>2, <2>1 DEF Types, TypeOK
  <2>3. workQueue' # Null
    BY <2>2, NullAssumption
  <2> QED
    BY <1>2, <2>1, <2>2, <2>3 DEF AddWorkItem, Items
<1> QED
  BY <1>1, <1>2

LEMMA ItemTaken ==
  ASSUME Types, PopWorkItem, workQueue # <<>>, workQueue # Null
  PROVE  /\ Len(Items) \in Nat \ {0} /\ Len(Items') = Len(Items) - 1
         /\ workQueue' \in Seq(WorkItem) /\ workQueue' # Null
         /\ cur' = Items[1] /\ cur' \in WorkItem /\ pc' = "item"
         /\ \A i \in 1..Len(Items') : Items'[i] = Items[i + 1]
<1>1. /\ workQueue \in Seq(WorkItem) /\ Items = workQueue
      /\ cur' = Head(workQueue) /\ workQueue' = Tail(workQueue) /\ pc' = "item"
  BY DEF Types, TypeOK, Items, PopWorkItem
<1>2. workQueue' \in Seq(WorkItem)
  BY <1>1
<1>3. workQueue' # Null
  BY <1>2, NullAssumption
<1>4. Items' = Tail(workQueue)
  BY <1>1, <1>3 DEF Items
<1>5. /\ Len(workQueue) \in Nat \ {0} /\ Len(Tail(workQueue)) = Len(workQueue) - 1
      /\ Head(workQueue) = workQueue[1] /\ workQueue[1] \in WorkItem
      /\ \A i \in 1..Len(Tail(workQueue)) : Tail(workQueue)[i] = workQueue[i + 1]
  BY <1>1
<1> QED
  BY <1>1, <1>2, <1>3, <1>4, <1>5

LEMMA RequestTypes ==
  ASSUME Types, NEW item \in WorkItem, Request(item),
         fg' \in {"idle", "append", "final", "count", "waitQueue", "whenDone", "waitDone"},
         added' = added,
         client' \in [Trajectory -> {"new", "open", "finished"}]
  PROVE  Types'
<1>1. AddWorkItem(item)
  BY DEF Request
<1>2. /\ workQueue' \in Seq(WorkItem) /\ drainTasks' \in Nat
  BY <1>1, ItemAdded DEF Types, TypeOK
<1> QED
  BY <1>2 DEF Request, Types, TypeOK, pgVars, cbVars

\* The items that are queued, and their fields.
LEMMA ItemTypes ==
  /\ \A n \in Id : Item("node", n) \in WorkItem
  /\ \A t \in Trajectory : \A k \in {"data", "trimmer", "finish"} : Item(k, t) \in WorkItem
  /\ Item("final", Null) \in WorkItem /\ Item("reset", Null) \in WorkItem
  /\ \A i \in WorkItem :
       /\ i.kind \in {"node", "data", "trimmer", "finish", "final", "reset"}
       /\ i.kind = "node" => i.arg \in Id
       /\ i.kind \in {"data", "trimmer", "finish"} => i.arg \in Trajectory
BY DEF Item, WorkItem

LEMMA NewNode ==
  ASSUME Types, NEW t \in Trajectory, NumNodes < MaxNodes
  PROVE  <<t, added[t] + 1>> \in Id
<1> DEFINE S == {i \in Id : i[2] <= added[i[1]]}
           C == {t} \X (1..MaxNodes)
<1> USE PoseGraphAssumption
<1>1. added[t] \in Nat
  BY DEF Types
<1>2. SUFFICES ASSUME ~(added[t] + 1 \in 1..MaxNodes) PROVE FALSE
  BY DEF Id
<1>3. C \subseteq S
  BY <1>1, <1>2 DEF Id
<1>4. IsFiniteSet(1..MaxNodes) /\ Cardinality(1..MaxNodes) = MaxNodes
  BY FS_Interval
<1>5. IsFiniteSet({t}) /\ Cardinality({t}) = 1
  BY FS_Singleton
<1>6. Cardinality(C) = MaxNodes
  <2>1. Cardinality(C) = Cardinality({t}) * Cardinality(1..MaxNodes)
    BY <1>4, <1>5, FS_Product
  <2> QED
    BY <1>4, <1>5, <2>1
<1>7. IsFiniteSet(Id)
  BY <1>4, FS_Product DEF Id
<1>8. IsFiniteSet(S)
  BY <1>7, FS_Subset
<1>9. Cardinality(C) <= Cardinality(S)
  BY <1>3, <1>8, FS_Subset
<1>10. Cardinality(S) = NumNodes
  BY DEF NumNodes
<1>11. Cardinality(S) \in Nat
  BY <1>8, FS_CardinalityType
<1> QED
  BY <1>6, <1>9, <1>10, <1>11

\* Whoever drains has a queue.
LEMMA QueueThere ==
  ASSUME Types, Handover, pc # "none"
  PROVE  /\ workQueue # Null /\ drainTasks = 0 /\ ~notifying /\ whenDone = "none"
         /\ doneTask = Null /\ fg \notin {"whenDone", "waitDone"}
<1>1. Drainers \in Nat /\ Drainers # 0
  BY DEF Types, TypeOK, Drainers
<1>2. workQueue # Null /\ Drainers = 1
  BY <1>1 DEF Handover, OneDrainer
<1>3. drainTasks = 0 /\ ~(doneTask # Null /\ whenDone = "handle")
  BY <1>2 DEF Types, TypeOK, Drainers
<1> QED
  BY <1>2, <1>3 DEF Handover, Types, TypeOK

LEMMA TypesStep ==
  ASSUME IInv, Next
  PROVE  Types'
<1>0. Types /\ Handover /\ NodesOnce /\ Waits
  BY DEF IInv
<1> USE <1>0
<1>1. ASSUME NEW t \in Trajectory, AppendNode(t) PROVE Types'
  <2>1. <<t, added[t] + 1>> \in Id /\ added[t] + 1 \in Nat
    BY <1>1, NewNode DEF AppendNode, Types
  <2>2. /\ nodes' \subseteq Id /\ added' \in [Trajectory -> Nat]
        /\ submaps' \in [Id -> {"none", "open", "finished", "trimmed"}]
    BY <1>1, <2>1 DEF AppendNode, Types, TypeOK
  <2>3. trajectory' \in [Trajectory -> {"none", "active", "finished", "deleted"}]
    BY <1>1 DEF AppendNode, Types, TypeOK
  <2> QED
    BY <1>1, <2>2, <2>3 DEF AppendNode, Types, TypeOK, drVars, cbVars
<1>2. ASSUME NEW t \in Trajectory, AddData(t) PROVE Types'
  <2>1. Item("data", t) \in WorkItem
    BY <1>2, ItemTypes
  <2> QED
    BY <1>2, <2>1, RequestTypes DEF AddData, Types, TypeOK
<1>3. ASSUME NEW t \in Trajectory, AddTrajectory(t) PROVE Types'
  <2>1. Item("trimmer", t) \in WorkItem
    BY ItemTypes
  <2>2. client' \in [Trajectory -> {"new", "open", "finished"}]
    BY <1>3 DEF AddTrajectory, Types, TypeOK
  <2>3. CASE t \in Localize
    BY <1>3, <2>1, <2>2, <2>3, RequestTypes DEF AddTrajectory, Types
  <2>4. CASE t \notin Localize
    BY <1>3, <2>2, <2>4 DEF AddTrajectory, Types, TypeOK, drVars, pgVars, cbVars
  <2> QED
    BY <2>3, <2>4
<1>4. ASSUME NEW t \in Trajectory, FinishTrajectory(t) PROVE Types'
  <2>1. Item("finish", t) \in WorkItem
    BY ItemTypes
  <2>2. client' \in [Trajectory -> {"new", "open", "finished"}]
    BY <1>4 DEF FinishTrajectory, Types, TypeOK
  <2> QED
    BY <1>4, <2>1, <2>2, RequestTypes DEF FinishTrajectory, Types
<1>5. CASE AddNode
  <2>1. fgNode \in Id
    BY <1>5 DEF AddNode, NodesOnce
  <2>2. Item("node", fgNode) \in WorkItem
    BY <2>1, ItemTypes
  <2> QED
    BY <1>5, <2>2, RequestTypes DEF AddNode, Types, TypeOK
<1>6. CASE RunFinalOptimization
  <2>1. Item("final", Null) \in WorkItem
    BY <1>6, ItemTypes
  <2> QED
    BY <1>6, <2>1, RequestTypes DEF RunFinalOptimization, Types, TypeOK
<1>7. CASE ResetIterations
  <2>1. Item("reset", Null) \in WorkItem
    BY <1>7, ItemTypes
  <2> QED
    BY <1>7, <2>1, RequestTypes DEF ResetIterations, Types, TypeOK
<1>8. CASE CountNodes
  BY <1>8 DEF Types, TypeOK, CountNodes, drVars, cbVars, pgVars
<1>9. CASE QueueDrained
  BY <1>9 DEF Types, TypeOK, QueueDrained, drVars, cbVars, pgVars
<1>10. CASE WaitWhenDone
  BY <1>10 DEF Types, TypeOK, WaitWhenDone, WhenDone, drVars, pgVars, fgVars
<1>11. CASE Notify
  <2>1. constraints' \subseteq Pair /\ result' \subseteq Pair
    BY <1>11 DEF Notify, Types, TypeOK
  <2>2. TypeOK'
    BY <1>11, <2>1 DEF Notify, Types, TypeOK, cbVars
  <2>3. fg' = "idle" /\ UNCHANGED <<pc, cur, added, final, solvedFinal, openDeps, doneDeps,
                                    doneTask>> /\ notifying' = FALSE
    BY <1>11 DEF Notify, cbVars
  <2> QED
    BY <2>2, <2>3 DEF Types
<1>12. CASE StartDrain
  BY <1>12 DEF Types, TypeOK, StartDrain, pgVars, cbVars, fgOthers, fgVars
<1>13. CASE PopWorkItem
  <2>0. workQueue # Null
    BY <1>13, QueueThere DEF PopWorkItem
  <2>1. CASE workQueue = <<>>
    BY <1>13, <2>1 DEF PopWorkItem, Types, TypeOK, pgVars, cbVars, fgOthers, fgVars
  <2>2. CASE workQueue # <<>>
    BY <1>13, <2>0, <2>2, ItemTaken DEF PopWorkItem, Types, TypeOK, pgVars, cbVars,
       fgOthers, fgVars
  <2> QED
    BY <2>1, <2>2
<1>14. CASE ComputeConstraintsForNode
  <2>1. cur.arg \in Id
    BY <1>14 DEF ComputeConstraintsForNode, NodesOnce
  <2>2. problem' \subseteq Id /\ todo' \subseteq Pair
    BY <1>14, <2>1 DEF ComputeConstraintsForNode, Types, TypeOK, Pair, NewlyFinished, SubmapsOf
  <2>3. submaps' \in [Id -> {"none", "open", "finished", "trimmed"}]
    BY <1>14 DEF ComputeConstraintsForNode, Types, TypeOK
  <2> QED
    BY <1>14, <2>2, <2>3 DEF ComputeConstraintsForNode, Types, TypeOK, cbVars, fgOthers, fgVars
<1>15. CASE SkipConstraint
  BY <1>15 DEF Types, TypeOK, SkipConstraint, pgVars, cbVars, fgOthers, fgVars
<1>16. CASE MaybeAddConstraint
  <2>1. PICK p \in todo : /\ slots' = slots \cup {p} /\ openDeps' = openDeps \cup {p}
                          /\ todo' = todo \ {p}
                          /\ search' = [search EXCEPT ![p] = "scheduled"]
                          /\ matchers' = matchers \cup {p[2]}
                          /\ building' \subseteq building \cup {p[2]}
    BY <1>16 DEF MaybeAddConstraint
  <2>2. p \in Pair /\ p[2] \in Id
    BY DEF Types, TypeOK, Pair
  <2>3. /\ todo' \subseteq Pair /\ slots' \subseteq Pair /\ openDeps' \subseteq Pair
        /\ search' \in [Pair -> {"none", "scheduled", "running"}]
        /\ matchers' \subseteq Id /\ building' \subseteq Id
    BY <2>1, <2>2 DEF Types, TypeOK
  <2> QED
    BY <1>16, <2>1, <2>3 DEF MaybeAddConstraint, Types, TypeOK, pgVars, fgOthers, fgVars
<1>17. CASE NotifyEndOfNode
  <2>1. cur.arg \in Id /\ openDeps \subseteq Pair
    BY <1>17 DEF NotifyEndOfNode, NodesOnce, Types
  <2>2. \A f \in finishTasks' : f.node \in Id /\ f.deps \subseteq Pair
    BY <1>17, <2>1 DEF NotifyEndOfNode, Types, TypeOK
  <2> QED
    BY <1>17, <2>1, <2>2 DEF NotifyEndOfNode, Types, TypeOK, fgOthers, fgVars
<1>18. CASE RunWorkItem
  <2>1. cur \in WorkItem
    BY <1>18 DEF RunWorkItem, Types
  <2>2. cur.kind = "trimmer" => cur.arg \in Trajectory
    BY <2>1, ItemTypes
  <2>3. submaps' \in [Id -> {"none", "open", "finished", "trimmed"}]
    BY <1>18 DEF RunWorkItem, Types, TypeOK
  <2>4. trajectory' \in [Trajectory -> {"none", "active", "finished", "deleted"}]
    <3>1. trajectory' \in {trajectory, [trajectory EXCEPT ![cur.arg] = "finished"]}
      BY <1>18 DEF RunWorkItem
    <3> QED
      BY <3>1 DEF Types, TypeOK
  <2>5. final' \in BOOLEAN /\ trimmers' \subseteq Trajectory
    BY <1>18, <2>2 DEF RunWorkItem, Types, TypeOK
  <2> QED
    BY <1>18, <2>3, <2>4, <2>5 DEF RunWorkItem, Types, TypeOK, cbVars, fgOthers, fgVars
<1>19. CASE DrainWhenDone
  BY <1>19 DEF Types, TypeOK, DrainWhenDone, WhenDone, pgVars, fgOthers, fgVars
<1>20. CASE InsertConstraints
  BY <1>20 DEF Types, TypeOK, InsertConstraints, pgVars, cbVars, fgOthers, fgVars
<1>21. CASE Solve
  BY <1>21 DEF Types, TypeOK, Solve, pgVars, cbVars, fgOthers, fgVars
<1>22. CASE Trim
  BY <1>22 DEF Types, TypeOK, Trim, pgVars, cbVars, fgOthers, fgVars
<1>23. CASE BuildMatcher
  BY <1>23 DEF Types, TypeOK, BuildMatcher, poolOthers, pgVars, fgVars
<1>24. CASE BeginSearch
  BY <1>24 DEF Types, TypeOK, BeginSearch, poolOthers, pgVars, fgVars
<1>25. CASE EndSearch
  <2>1. PICK p \in Pair : /\ search[p] = "running"
                          /\ search' = [search EXCEPT ![p] = "none"]
                          /\ found' \in {found, found \cup {p}}
    BY <1>25 DEF EndSearch
  <2>2. p \in slots
    BY <2>1 DEF Waits, Searching
  <2>3. found' \subseteq slots /\ search' \in [Pair -> {"none", "scheduled", "running"}]
    BY <2>1, <2>2 DEF Types, TypeOK
  <2> QED
    BY <1>25, <2>3 DEF EndSearch, Types, TypeOK, poolOthers, pgVars, fgVars
<1>26. CASE FinishNode
  BY <1>26 DEF Types, TypeOK, FinishNode, poolOthers, pgVars, fgVars
<1>27. CASE RunWhenDoneCallback
  <2>1. /\ result' = found /\ slots' = {} /\ found' = {}
        /\ doneTask' = Null /\ whenDone' = "none"
        /\ pc' \in {pc, "insert"} /\ notifying' \in BOOLEAN
    BY <1>27 DEF RunWhenDoneCallback, Types
  <2>2. result' \subseteq Pair
    BY <2>1 DEF Types, TypeOK
  <2>3. UNCHANGED <<poolOthers, search, matchers, building, openDeps, finishTasks,
                    doneDeps, finished>>
    BY <1>27 DEF RunWhenDoneCallback
  <2>4. pc' \in {"none", "drain", "item", "search", "whenDone", "insert", "solve", "trim"}
    BY <2>1 DEF Types, TypeOK
  <2>5. slots' \subseteq Pair /\ found' \subseteq slots'
    BY <2>1
  <2>6. pc' \in {"item", "search"} => cur' \in WorkItem
    BY <2>1, <2>3 DEF Types, poolOthers
  <2>7. TypeOK'
    BY <2>1, <2>2, <2>3, <2>4, <2>5 DEF Types, TypeOK, poolOthers, pgVars, fgVars
  <2> QED
    BY <2>1, <2>3, <2>6, <2>7 DEF Types, poolOthers, pgVars, fgVars
<1> QED
  BY <1>1, <1>2, <1>3, <1>4, <1>5, <1>6, <1>7, <1>8, <1>9, <1>10, <1>11, <1>12, <1>13,
     <1>14, <1>15, <1>16, <1>17, <1>18, <1>19, <1>20, <1>21, <1>22, <1>23, <1>24, <1>25,
     <1>26, <1>27 DEF Next, Foreground, Drain, Pool

LEMMA RequestHandover ==
  ASSUME Types, Handover, NEW item \in WorkItem, Request(item),
         fg \notin {"whenDone", "waitDone"}, fg' \notin {"whenDone", "waitDone"}
  PROVE  Handover'
<1>1. /\ workQueue' # Null
      /\ drainTasks' = (IF workQueue = Null THEN drainTasks + 1 ELSE drainTasks)
  BY ItemAdded DEF Request
<1>2. UNCHANGED <<pc, doneTask, whenDone, notifying>> /\ drainTasks \in Nat
  BY DEF Request, cbVars, Types, TypeOK
<1> QED
  BY <1>1, <1>2 DEF Handover, OneDrainer, Drainers

\* The queue is handed over from the one who drains it to the pool and back.
LEMMA HandoverStep ==
  ASSUME IInv, Next
  PROVE  Handover'
<1>0. Types /\ Handover /\ NodesOnce /\ (pc # "none" => workQueue # Null)
  BY QueueThere DEF IInv
<1> USE <1>0
<1>1. ASSUME NEW t \in Trajectory, AppendNode(t) PROVE Handover'
  BY <1>1 DEF Handover, OneDrainer, Drainers, Types, TypeOK, AppendNode, drVars, cbVars, pgVars
<1>2. ASSUME NEW t \in Trajectory, AddData(t) PROVE Handover'
  <2>1. Item("data", t) \in WorkItem
    BY ItemTypes
  <2> QED
    BY <1>2, <2>1, RequestHandover DEF AddData
<1>3. ASSUME NEW t \in Trajectory, AddTrajectory(t) PROVE Handover'
  <2>1. Item("trimmer", t) \in WorkItem
    BY ItemTypes
  <2>2. CASE t \in Localize
    BY <1>3, <2>1, <2>2, RequestHandover DEF AddTrajectory
  <2>3. CASE t \notin Localize
    BY <1>3, <2>3 DEF AddTrajectory, Handover, OneDrainer, Drainers, drVars, pgVars, cbVars
  <2> QED
    BY <2>2, <2>3
<1>4. ASSUME NEW t \in Trajectory, FinishTrajectory(t) PROVE Handover'
  <2>1. Item("finish", t) \in WorkItem
    BY ItemTypes
  <2> QED
    BY <1>4, <2>1, RequestHandover DEF FinishTrajectory
<1>5. CASE AddNode
  <2>1. Item("node", fgNode) \in WorkItem
    BY <1>5, ItemTypes DEF AddNode, NodesOnce
  <2> QED
    BY <1>5, <2>1, RequestHandover DEF AddNode
<1>6. CASE RunFinalOptimization
  <2>1. Item("final", Null) \in WorkItem
    BY ItemTypes
  <2> QED
    BY <1>6, <2>1, RequestHandover DEF RunFinalOptimization
<1>7. CASE ResetIterations
  <2>1. Item("reset", Null) \in WorkItem
    BY ItemTypes
  <2> QED
    BY <1>7, <2>1, RequestHandover DEF ResetIterations
<1>8. CASE CountNodes
  BY <1>8 DEF Handover, OneDrainer, Drainers, Types, TypeOK, CountNodes, drVars, cbVars, pgVars
<1>9. CASE QueueDrained
  BY <1>9 DEF Handover, OneDrainer, Drainers, Types, TypeOK, QueueDrained, drVars, cbVars,
     pgVars
<1>10. CASE WaitWhenDone
  <2>1. doneDeps # Null
    BY NullAssumption DEF Types
  <2>2. workQueue = Null /\ ~notifying
    BY <1>10 DEF WaitWhenDone, Handover
  <2>3. pc = "none" /\ drainTasks = 0
    BY <2>2 DEF Handover, OneDrainer, Drainers, Types, TypeOK
  <2> QED
    BY <1>10, <2>1, <2>2, <2>3 DEF WaitWhenDone, WhenDone, Handover, OneDrainer, Drainers,
                               drVars, pgVars, fgVars
<1>11. CASE Notify
  BY <1>11 DEF Handover, OneDrainer, Drainers, Types, TypeOK, Notify, cbVars
<1>12. CASE StartDrain
  BY <1>12 DEF Handover, OneDrainer, Drainers, Types, TypeOK, StartDrain, pgVars, cbVars,
     fgOthers, fgVars
<1>13. CASE PopWorkItem
  <2>1. CASE workQueue = <<>>
    BY <1>13, <2>1, QueueThere DEF PopWorkItem, Handover, OneDrainer, Drainers, Types, TypeOK,
                               pgVars, cbVars, fgOthers, fgVars
  <2>2. CASE workQueue # <<>>
    BY <1>13, <2>2, QueueThere, ItemTaken
       DEF PopWorkItem, Handover, OneDrainer, Drainers, pgVars, cbVars, fgOthers, fgVars
  <2> QED
    BY <2>1, <2>2
<1>14. CASE ComputeConstraintsForNode
  BY <1>14 DEF Handover, OneDrainer, Drainers, Types, TypeOK, ComputeConstraintsForNode,
     pgVars, cbVars, fgOthers, fgVars
<1>15. CASE SkipConstraint
  BY <1>15 DEF Handover, OneDrainer, Drainers, Types, TypeOK, SkipConstraint, pgVars,
     cbVars, fgOthers, fgVars
<1>16. CASE MaybeAddConstraint
  BY <1>16 DEF Handover, OneDrainer, Drainers, Types, TypeOK, MaybeAddConstraint, pgVars,
     cbVars, fgOthers, fgVars
<1>17. CASE NotifyEndOfNode
  BY <1>17 DEF Handover, OneDrainer, Drainers, Types, TypeOK, NotifyEndOfNode, pgVars,
     cbVars, fgOthers, fgVars
<1>18. CASE RunWorkItem
  BY <1>18 DEF Handover, OneDrainer, Drainers, Types, TypeOK, RunWorkItem, pgVars, cbVars,
     fgOthers, fgVars
<1>19. CASE DrainWhenDone
  <2>1. doneDeps # Null
    BY NullAssumption DEF Types
  <2> QED
    BY <1>19, <2>1, QueueThere DEF DrainWhenDone, WhenDone, Handover, OneDrainer, Drainers,
                               pgVars, fgOthers, fgVars
<1>20. CASE InsertConstraints
  BY <1>20 DEF Handover, OneDrainer, Drainers, Types, TypeOK, InsertConstraints, pgVars,
     cbVars, fgOthers, fgVars
<1>21. CASE Solve
  BY <1>21 DEF Handover, OneDrainer, Drainers, Types, TypeOK, Solve, pgVars, cbVars,
     fgOthers, fgVars
<1>22. CASE Trim
  BY <1>22 DEF Handover, OneDrainer, Drainers, Types, TypeOK, Trim, pgVars, cbVars,
     fgOthers, fgVars
<1>23. CASE BuildMatcher
  BY <1>23 DEF Handover, OneDrainer, Drainers, Types, TypeOK, BuildMatcher, poolOthers,
     pgVars, fgVars
<1>24. CASE BeginSearch
  BY <1>24 DEF Handover, OneDrainer, Drainers, Types, TypeOK, BeginSearch, poolOthers,
     pgVars, fgVars
<1>25. CASE EndSearch
  BY <1>25 DEF Handover, OneDrainer, Drainers, Types, TypeOK, EndSearch, poolOthers, pgVars,
     fgVars
<1>26. CASE FinishNode
  BY <1>26 DEF Handover, OneDrainer, Drainers, Types, TypeOK, FinishNode, poolOthers,
     pgVars, fgVars
<1>27. CASE RunWhenDoneCallback
  BY <1>27 DEF Handover, OneDrainer, Drainers, Types, TypeOK, RunWhenDoneCallback,
     poolOthers, pgVars, fgVars
<1> QED
  BY <1>1, <1>2, <1>3, <1>4, <1>5, <1>6, <1>7, <1>8, <1>9, <1>10, <1>11, <1>12, <1>13,
     <1>14, <1>15, <1>16, <1>17, <1>18, <1>19, <1>20, <1>21, <1>22, <1>23, <1>24, <1>25,
     <1>26, <1>27 DEF Next, Foreground, Drain, Pool

\* Neither drain nor callback is under way when the foreground thread asks for one.
LEMMA CallbackFree ==
  ASSUME Types, Handover, fg = "whenDone"
  PROVE  pc = "none" /\ drainTasks = 0 /\ doneTask = Null /\ ~notifying
<1>1. workQueue = Null /\ ~notifying /\ whenDone # "wait"
  BY DEF Handover
<1>2. pc = "none" /\ drainTasks = 0 /\ ~(doneTask # Null /\ whenDone = "handle")
  BY <1>1 DEF Handover, OneDrainer, Drainers, Types, TypeOK
<1> QED
  BY <1>1, <1>2 DEF Handover, Types, TypeOK

\* What does not touch the searches keeps Waits.
LEMMA SearchesUntouched ==
  ASSUME Waits, UNCHANGED <<pc, todo, search, slots, openDeps, finishTasks, doneDeps, doneTask,
                            notifying>>
  PROVE  Waits'
BY DEF Waits, Searching

\* Nothing is forgotten that has to be waited for.
LEMMA WaitsStep ==
  ASSUME IInv, Next
  PROVE  Waits'
<1>0. Types /\ Handover /\ Waits /\ NodesOnce /\ Holds
  BY DEF IInv
<1> USE <1>0
<1>1. ASSUME NEW t \in Trajectory, AppendNode(t) PROVE Waits'
  BY <1>1, QueueThere DEF Waits, Searching, AppendNode, drVars, cbVars, pgVars
<1>2. ASSUME NEW t \in Trajectory, AddData(t) PROVE Waits'
  BY <1>2, SearchesUntouched DEF AddData, Request, drVars, cbVars
<1>3. ASSUME NEW t \in Trajectory, AddTrajectory(t) PROVE Waits'
  BY <1>3, SearchesUntouched DEF AddTrajectory, Request, drVars, cbVars
<1>4. ASSUME NEW t \in Trajectory, FinishTrajectory(t) PROVE Waits'
  BY <1>4, SearchesUntouched DEF FinishTrajectory, Request, drVars, cbVars
<1>5. CASE AddNode
  BY <1>5, SearchesUntouched DEF AddNode, Request, drVars, cbVars
<1>6. CASE RunFinalOptimization
  BY <1>6, SearchesUntouched DEF RunFinalOptimization, Request, drVars, cbVars
<1>7. CASE ResetIterations
  BY <1>7, SearchesUntouched DEF ResetIterations, Request, drVars, cbVars
<1>8. CASE CountNodes
  BY <1>8, QueueThere DEF Waits, Searching, CountNodes, drVars, cbVars, pgVars
<1>9. CASE QueueDrained
  BY <1>9, QueueThere DEF Waits, Searching, QueueDrained, drVars, cbVars, pgVars
<1>10. CASE WaitWhenDone
  <2>1. doneDeps # Null
    BY NullAssumption DEF Types
  <2>2. pc = "none" /\ doneTask = Null /\ ~notifying
    BY <1>10, CallbackFree DEF WaitWhenDone
  <2> QED
    BY <1>10, <2>1, <2>2 DEF WaitWhenDone, WhenDone, Waits, Searching, drVars, pgVars, fgVars
<1>11. CASE Notify
  BY <1>11, QueueThere DEF Waits, Searching, Notify, cbVars
<1>12. CASE StartDrain
  BY <1>12, QueueThere DEF Waits, Searching, StartDrain, pgVars, cbVars, fgOthers, fgVars
<1>13. CASE PopWorkItem
  BY <1>13, QueueThere DEF Waits, Searching, PopWorkItem, pgVars, cbVars, fgOthers, fgVars
<1>14. CASE ComputeConstraintsForNode
  BY <1>14, QueueThere DEF Waits, Searching, ComputeConstraintsForNode, pgVars, cbVars,
     fgOthers, fgVars
<1>15. CASE SkipConstraint
  BY <1>15, QueueThere DEF Waits, Searching, SkipConstraint, pgVars, cbVars, fgOthers, fgVars
<1>16. CASE MaybeAddConstraint
  BY <1>16, QueueThere DEF Waits, Searching, MaybeAddConstraint, pgVars, cbVars, fgOthers,
     fgVars
<1>17. CASE NotifyEndOfNode
  <2>1. doneTask = Null /\ ~notifying
    BY <1>17, QueueThere DEF NotifyEndOfNode
  <2>2. /\ finishTasks' = finishTasks \cup {[node |-> cur.arg, deps |-> openDeps]}
        /\ openDeps' = {} /\ todo' = {} /\ doneDeps' = doneDeps \cup {cur.arg}
        /\ pc' \in {"whenDone", "drain"}
        /\ UNCHANGED <<search, slots, doneTask, notifying>>
    BY <1>17 DEF NotifyEndOfNode
  <2>3. \A p \in Searching' : p \in slots' /\ \E f \in finishTasks' : p \in f.deps
    BY <2>2 DEF Waits, Searching
  <2>4. \A f \in finishTasks' : f.node \in doneDeps'
    BY <2>1, <2>2 DEF Waits
  <2> QED
    BY <2>1, <2>2, <2>3, <2>4 DEF Waits
<1>18. CASE RunWorkItem
  BY <1>18, QueueThere DEF Waits, Searching, RunWorkItem, pgVars, cbVars, fgOthers, fgVars
<1>19. CASE DrainWhenDone
  <2>1. doneDeps # Null
    BY NullAssumption DEF Types
  <2>2. doneTask = Null /\ ~notifying
    BY <1>19, QueueThere DEF DrainWhenDone
  <2> QED
    BY <1>19, <2>1, <2>2 DEF DrainWhenDone, WhenDone, Waits, Searching, pgVars, fgOthers, fgVars
<1>20. CASE InsertConstraints
  BY <1>20, QueueThere DEF Waits, Searching, InsertConstraints, pgVars, cbVars, fgOthers, fgVars
<1>21. CASE Solve
  BY <1>21, QueueThere DEF Waits, Searching, Solve, pgVars, cbVars, fgOthers, fgVars
<1>22. CASE Trim
  BY <1>22, QueueThere DEF Waits, Searching, Trim, pgVars, cbVars, fgOthers, fgVars
<1>23. CASE BuildMatcher
  BY <1>23, QueueThere DEF Waits, Searching, BuildMatcher, poolOthers, pgVars, fgVars
<1>24. CASE BeginSearch
  BY <1>24, QueueThere DEF Waits, Searching, BeginSearch, poolOthers, pgVars, fgVars
<1>25. CASE EndSearch
  BY <1>25, QueueThere DEF Waits, Searching, EndSearch, poolOthers, pgVars, fgVars
<1>26. CASE FinishNode
  BY <1>26, QueueThere DEF Waits, Searching, FinishNode, poolOthers, pgVars, fgVars
<1>27. CASE RunWhenDoneCallback
  BY <1>27, QueueThere DEF Waits, Searching, RunWhenDoneCallback, poolOthers, pgVars, fgVars
<1> QED
  BY <1>1, <1>2, <1>3, <1>4, <1>5, <1>6, <1>7, <1>8, <1>9, <1>10, <1>11, <1>12, <1>13,
     <1>14, <1>15, <1>16, <1>17, <1>18, <1>19, <1>20, <1>21, <1>22, <1>23, <1>24, <1>25,
     <1>26, <1>27 DEF Next, Foreground, Drain, Pool

\* Appending in terms of places.
LEMMA ItemsAppended ==
  ASSUME Types, NEW item \in WorkItem, AddWorkItem(item)
  PROVE  /\ Len(Items) \in Nat /\ DOMAIN Items = 1..Len(Items)
         /\ DOMAIN Items' = 1..(Len(Items) + 1)
         /\ \A i \in DOMAIN Items : Items'[i] = Items[i]
         /\ Items'[Len(Items) + 1] = item
<1>1. Items \in Seq(WorkItem) /\ Items' = Append(Items, item)
  BY ItemsType, ItemAdded
<1> QED
  BY <1>1

LEMMA NodesUntouched ==
  ASSUME NodesOnce, UNCHANGED <<workQueue, nodes, problem, pc, cur, fg, fgNode, added>>
  PROVE  NodesOnce'
BY DEF NodesOnce, Items

\* A request that brings no node.
LEMMA OtherRequest ==
  ASSUME Types, NodesOnce, NEW item \in WorkItem, item.kind # "node", Request(item),
         UNCHANGED added, fg' # "append"
  PROVE  NodesOnce'
<1>1. AddWorkItem(item) /\ UNCHANGED <<nodes, problem, pc, cur>>
  BY DEF Request, pgVars
<1>2. /\ Len(Items) \in Nat /\ DOMAIN Items = 1..Len(Items)
      /\ DOMAIN Items' = 1..(Len(Items) + 1)
      /\ \A i \in DOMAIN Items : Items'[i] = Items[i]
      /\ Items'[Len(Items) + 1] = item
  BY <1>1, ItemsAppended
<1>3. \A i \in DOMAIN Items' :
        Items'[i].kind = "node" => i \in DOMAIN Items /\ Items'[i] = Items[i]
  BY <1>2
<1> QED
  BY <1>1, <1>3 DEF NodesOnce

\* No node is queued twice, or after it has entered the problem.
LEMMA NodesOnceStep ==
  ASSUME IInv, Next
  PROVE  NodesOnce'
<1>0. Types /\ Handover /\ NodesOnce
  BY DEF IInv
<1> USE <1>0
<1>1. ASSUME NEW t \in Trajectory, AppendNode(t) PROVE NodesOnce'
  <2> DEFINE n == <<t, added[t] + 1>>
  <2>1. n \in Id /\ added[t] \in Nat /\ n[1] = t /\ n[2] = added[t] + 1
    BY <1>1, NewNode DEF AppendNode, Types
  <2>2. /\ nodes' = nodes \cup {n} /\ fgNode' = n /\ fg' = "append"
        /\ added' = [added EXCEPT ![t] = added[t] + 1]
        /\ UNCHANGED <<workQueue, problem, pc, cur>>
    BY <1>1 DEF AppendNode, drVars
  <2> HIDE DEF n
  <2>3. n \notin nodes
    BY <2>1 DEF NodesOnce
  <2>4. \A m \in nodes' : m \in Id /\ m[2] <= added'[m[1]]
    <3>1. TAKE m \in nodes'
    <3>2. CASE m = n
      BY <2>1, <2>2, <3>2 DEF Types
    <3>3. CASE m \in nodes
      <4>1. m \in Id /\ m[1] \in Trajectory /\ m[2] \in Nat /\ m[2] <= added[m[1]]
        BY <3>3 DEF NodesOnce, Id
      <4>2. added[m[1]] \in Nat /\ added'[m[1]] \in {added[m[1]], added[m[1]] + 1}
        BY <2>2, <4>1 DEF Types
      <4> QED
        BY <4>1, <4>2
    <3> QED
      BY <2>2, <3>2, <3>3
  <2>5. Items' = Items
    BY <2>2 DEF Items
  <2> QED
    BY <2>2, <2>3, <2>4, <2>5 DEF NodesOnce
<1>2. ASSUME NEW t \in Trajectory, AddData(t) PROVE NodesOnce'
  <2>1. Item("data", t) \in WorkItem /\ Item("data", t).kind # "node"
    BY ItemTypes DEF Item
  <2> QED
    BY <1>2, <2>1, OtherRequest DEF AddData
<1>3. ASSUME NEW t \in Trajectory, AddTrajectory(t) PROVE NodesOnce'
  <2>1. Item("trimmer", t) \in WorkItem /\ Item("trimmer", t).kind # "node"
    BY ItemTypes DEF Item
  <2>2. CASE t \in Localize
    BY <1>3, <2>1, <2>2, OtherRequest DEF AddTrajectory
  <2>3. CASE t \notin Localize
    BY <1>3, <2>3, NodesUntouched DEF AddTrajectory, drVars, pgVars
  <2> QED
    BY <2>2, <2>3
<1>4. ASSUME NEW t \in Trajectory, FinishTrajectory(t) PROVE NodesOnce'
  <2>1. Item("finish", t) \in WorkItem /\ Item("finish", t).kind # "node"
    BY ItemTypes DEF Item
  <2> QED
    BY <1>4, <2>1, OtherRequest DEF FinishTrajectory
<1>5. CASE AddNode
  <2> DEFINE item == Item("node", fgNode)
  <2>1. fgNode \in nodes \ problem /\ fgNode \in Id /\ UNCHANGED <<nodes, problem, cur, pc, added>>
    BY <1>5 DEF AddNode, Request, NodesOnce, pgVars
  <2>2. item \in WorkItem /\ item.kind = "node" /\ item.arg = fgNode /\ AddWorkItem(item)
    BY <1>5, <2>1, ItemTypes DEF AddNode, Item, Request
  <2>3. /\ Len(Items) \in Nat /\ DOMAIN Items = 1..Len(Items)
        /\ DOMAIN Items' = 1..(Len(Items) + 1)
        /\ \A i \in DOMAIN Items : Items'[i] = Items[i]
        /\ Items'[Len(Items) + 1] = item
    BY <2>2, ItemsAppended
  <2>4. \A i \in DOMAIN Items' : i \in DOMAIN Items \/ i = Len(Items) + 1
    BY <2>3
  <2> HIDE DEF item
  <2>5. \A i \in DOMAIN Items' : Items'[i].kind = "node" => Items'[i].arg \in nodes' \ problem'
    BY <2>1, <2>2, <2>3, <2>4 DEF NodesOnce
  <2>6. \A i, j \in DOMAIN Items' :
          Items'[i].kind = "node" /\ Items'[j].kind = "node" /\ Items'[i].arg = Items'[j].arg
            => i = j
    BY <1>5, <2>2, <2>3, <2>4 DEF NodesOnce, AddNode
  <2>7. pc' = "item" /\ cur'.kind = "node" =>
          /\ cur'.arg \in nodes' \ problem'
          /\ \A i \in DOMAIN Items' : Items'[i].kind = "node" => Items'[i].arg # cur'.arg
    BY <1>5, <2>1, <2>2, <2>3, <2>4 DEF NodesOnce, AddNode
  <2> QED
    BY <1>5, <2>1, <2>5, <2>6, <2>7 DEF AddNode, NodesOnce
<1>6. CASE RunFinalOptimization
  <2>1. Item("final", Null) \in WorkItem /\ Item("final", Null).kind # "node"
    BY ItemTypes DEF Item
  <2> QED
    BY <1>6, <2>1, OtherRequest DEF RunFinalOptimization
<1>7. CASE ResetIterations
  <2>1. Item("reset", Null) \in WorkItem /\ Item("reset", Null).kind # "node"
    BY ItemTypes DEF Item
  <2> QED
    BY <1>7, <2>1, OtherRequest DEF ResetIterations
<1>8. CASE CountNodes
  BY <1>8 DEF NodesOnce, Items, CountNodes, drVars, cbVars, pgVars
<1>9. CASE QueueDrained
  BY <1>9 DEF NodesOnce, Items, QueueDrained, drVars, cbVars, pgVars
<1>10. CASE WaitWhenDone
  BY <1>10 DEF NodesOnce, Items, WaitWhenDone, WhenDone, drVars, pgVars, fgVars
<1>11. CASE Notify
  BY <1>11 DEF NodesOnce, Items, Notify, cbVars
<1>12. CASE StartDrain
  BY <1>12 DEF NodesOnce, Items, StartDrain, pgVars, cbVars, fgOthers, fgVars
<1>13. CASE PopWorkItem
  <2>0. workQueue # Null /\ UNCHANGED <<nodes, problem, added, fg, fgNode>>
    BY <1>13, QueueThere DEF PopWorkItem, pgVars, fgOthers, fgVars
  <2>1. CASE workQueue = <<>>
    <3>1. Items' = <<>> /\ pc' = "none"
      BY <1>13, <2>0, <2>1 DEF PopWorkItem, Items
    <3> QED
      BY <2>0, <3>1 DEF NodesOnce
  <2>2. CASE workQueue # <<>>
    <3>1. /\ Len(Items) \in Nat \ {0} /\ Len(Items') = Len(Items) - 1
          /\ DOMAIN Items = 1..Len(Items) /\ DOMAIN Items' = 1..Len(Items')
          /\ \A i \in 1..Len(Items') : Items'[i] = Items[i + 1]
          /\ cur' = Items[1] /\ pc' = "item"
      BY <1>13, <2>0, <2>2, ItemTaken, ItemsType DEF Items
    <3>2. 1 \in DOMAIN Items /\ \A i \in DOMAIN Items' : i + 1 \in DOMAIN Items /\ i + 1 # 1
      BY <3>1
    <3>3. \A i \in DOMAIN Items' : Items'[i] = Items[i + 1]
      BY <3>1
    <3>4. \A i \in DOMAIN Items' : Items'[i].kind = "node" => Items'[i].arg \in nodes \ problem
      BY <3>2, <3>3 DEF NodesOnce
    <3>5. \A i, j \in DOMAIN Items' :
            Items'[i].kind = "node" /\ Items'[j].kind = "node" /\ Items'[i].arg = Items'[j].arg
              => i = j
      <4>1. \A i, j \in DOMAIN Items' : i + 1 = j + 1 => i = j
        BY <3>1
      <4> QED
        BY <3>2, <3>3, <4>1 DEF NodesOnce
    <3>6. cur'.kind = "node" =>
            /\ cur'.arg \in nodes \ problem
            /\ \A i \in DOMAIN Items' : Items'[i].kind = "node" => Items'[i].arg # cur'.arg
      BY <3>1, <3>2, <3>3 DEF NodesOnce
    <3>7. fg = "append" =>
            /\ \A i \in DOMAIN Items' : Items'[i].kind = "node" => Items'[i].arg # fgNode
            /\ cur'.kind = "node" => cur'.arg # fgNode
      BY <3>1, <3>2, <3>3 DEF NodesOnce
    <3> QED
      BY <2>0, <3>1, <3>4, <3>5, <3>6, <3>7 DEF NodesOnce
  <2> QED
    BY <2>1, <2>2
<1>14. CASE ComputeConstraintsForNode
  BY <1>14 DEF NodesOnce, Items, ComputeConstraintsForNode, pgVars, cbVars, fgOthers, fgVars
<1>15. CASE SkipConstraint
  BY <1>15 DEF NodesOnce, Items, SkipConstraint, pgVars, cbVars, fgOthers, fgVars
<1>16. CASE MaybeAddConstraint
  BY <1>16 DEF NodesOnce, Items, MaybeAddConstraint, pgVars, cbVars, fgOthers, fgVars
<1>17. CASE NotifyEndOfNode
  BY <1>17 DEF NodesOnce, Items, NotifyEndOfNode, pgVars, cbVars, fgOthers, fgVars
<1>18. CASE RunWorkItem
  BY <1>18 DEF NodesOnce, Items, RunWorkItem, pgVars, cbVars, fgOthers, fgVars
<1>19. CASE DrainWhenDone
  BY <1>19 DEF NodesOnce, Items, DrainWhenDone, WhenDone, pgVars, fgOthers, fgVars
<1>20. CASE InsertConstraints
  BY <1>20 DEF NodesOnce, Items, InsertConstraints, pgVars, cbVars, fgOthers, fgVars
<1>21. CASE Solve
  BY <1>21 DEF NodesOnce, Items, Solve, pgVars, cbVars, fgOthers, fgVars
<1>22. CASE Trim
  <2>1. PICK gone \in SUBSET Id : problem' = problem \ Orphans(gone) /\ nodes' = nodes \ Orphans(gone)
    <3>1. UNION {Surplus(t) : t \in trimmers} \in SUBSET Id
      BY DEF Surplus
    <3> QED
      BY <1>22, <3>1 DEF Trim
  <2>2. Orphans(gone) \subseteq problem
    BY DEF Orphans
  <2>3. UNCHANGED <<workQueue, cur, added, fg, fgNode>> /\ pc' = "drain" /\ Items' = Items
    BY <1>22 DEF Trim, fgOthers, fgVars, Items
  <2>4. nodes' \subseteq nodes /\ nodes \ problem \subseteq nodes' \ problem' /\ problem' \subseteq nodes'
    BY <2>1, <2>2 DEF NodesOnce
  <2> QED
    BY <2>3, <2>4 DEF NodesOnce
<1>23. CASE BuildMatcher
  BY <1>23 DEF NodesOnce, Items, BuildMatcher, poolOthers, pgVars, fgVars
<1>24. CASE BeginSearch
  BY <1>24 DEF NodesOnce, Items, BeginSearch, poolOthers, pgVars, fgVars
<1>25. CASE EndSearch
  BY <1>25 DEF NodesOnce, Items, EndSearch, poolOthers, pgVars, fgVars
<1>26. CASE FinishNode
  BY <1>26 DEF NodesOnce, Items, FinishNode, poolOthers, pgVars, fgVars
<1>27. CASE RunWhenDoneCallback
  BY <1>27 DEF NodesOnce, Items, RunWhenDoneCallback, poolOthers, pgVars, fgVars
<1> QED
  BY <1>1, <1>2, <1>3, <1>4, <1>5, <1>6, <1>7, <1>8, <1>9, <1>10, <1>11, <1>12, <1>13,
     <1>14, <1>15, <1>16, <1>17, <1>18, <1>19, <1>20, <1>21, <1>22, <1>23, <1>24, <1>25,
     <1>26, <1>27 DEF Next, Foreground, Drain, Pool

LEMMA DataUntouched ==
  ASSUME Holds, UNCHANGED <<todo, problem, nodes, submaps, search, matchers, building>>
  PROVE  Holds'
BY DEF Holds, Searching, Finished

\* What a search points to is there until it ends.
LEMMA HoldsStep ==
  ASSUME IInv, Next
  PROVE  Holds'
<1>0. Types /\ Waits /\ NodesOnce /\ Holds
  BY DEF IInv
<1> USE <1>0
<1>1. ASSUME NEW t \in Trajectory, AppendNode(t) PROVE Holds'
  <2>1. /\ nodes \subseteq nodes'
        /\ \A s \in Id : Finished(s) => submaps'[s] = "finished"
    BY <1>1 DEF AppendNode, Finished
  <2>2. UNCHANGED <<todo, problem, search, matchers, building>>
    BY <1>1 DEF AppendNode, drVars, cbVars
  <2> QED
    BY <2>1, <2>2 DEF Holds, Types, TypeOK, Pair, Searching, Finished
<1>2. ASSUME NEW t \in Trajectory, AddData(t) PROVE Holds'
  BY <1>2, DataUntouched DEF AddData, Request, drVars, pgVars, cbVars
<1>3. ASSUME NEW t \in Trajectory, AddTrajectory(t) PROVE Holds'
  BY <1>3, DataUntouched DEF AddTrajectory, Request, drVars, pgVars, cbVars
<1>4. ASSUME NEW t \in Trajectory, FinishTrajectory(t) PROVE Holds'
  BY <1>4, DataUntouched DEF FinishTrajectory, Request, drVars, pgVars, cbVars
<1>5. CASE AddNode
  BY <1>5, DataUntouched DEF AddNode, Request, drVars, pgVars, cbVars
<1>6. CASE RunFinalOptimization
  BY <1>6, DataUntouched DEF RunFinalOptimization, Request, drVars, pgVars, cbVars
<1>7. CASE ResetIterations
  BY <1>7, DataUntouched DEF ResetIterations, Request, drVars, pgVars, cbVars
<1>8. CASE CountNodes
  BY <1>8, DataUntouched DEF CountNodes, drVars, pgVars, cbVars
<1>9. CASE QueueDrained
  BY <1>9, DataUntouched DEF QueueDrained, drVars, pgVars, cbVars
<1>10. CASE WaitWhenDone
  BY <1>10, DataUntouched DEF WaitWhenDone, WhenDone, drVars, pgVars
<1>11. CASE Notify
  BY <1>11, DataUntouched DEF Notify, cbVars
<1>12. CASE StartDrain
  BY <1>12, DataUntouched DEF StartDrain, pgVars, cbVars
<1>13. CASE PopWorkItem
  BY <1>13, DataUntouched DEF PopWorkItem, pgVars, cbVars
<1>14. CASE ComputeConstraintsForNode
  <2>1. /\ problem' = problem \cup {cur.arg}
        /\ submaps' = [s \in Id |-> IF s \in NewlyFinished(cur.arg) THEN "finished" ELSE submaps[s]]
        /\ todo' = ({cur.arg} \X {s \in Id : Finished(s)})
                      \cup {p \in problem' \X NewlyFinished(cur.arg) : p[1] \notin NodesOf(p[2])}
        /\ UNCHANGED <<nodes, search, matchers, building>>
    BY <1>14 DEF ComputeConstraintsForNode, cbVars
  <2>2. NewlyFinished(cur.arg) \subseteq Id
    BY DEF NewlyFinished, SubmapsOf
  <2>3. \A s \in Id : Finished(s) \/ s \in NewlyFinished(cur.arg) => submaps'[s] = "finished"
    BY <2>1 DEF Finished
  <2>4. \A p \in todo' : p[1] \in problem' /\ submaps'[p[2]] = "finished"
    BY <2>1, <2>2, <2>3
  <2>5. \A p \in Searching : p[2] \in Id
    BY DEF Searching, Pair
  <2> QED
    BY <2>1, <2>3, <2>4, <2>5 DEF Holds, Searching, Finished
<1>15. CASE SkipConstraint
  <2>1. todo' \subseteq todo /\ UNCHANGED <<problem, nodes, submaps, search, matchers, building>>
    BY <1>15 DEF SkipConstraint, pgVars, cbVars
  <2> QED
    BY <2>1 DEF Holds, Searching, Finished
<1>16. CASE MaybeAddConstraint
  <2>1. PICK p \in todo : /\ todo' = todo \ {p}
                          /\ search' = [search EXCEPT ![p] = "scheduled"]
                          /\ matchers' = matchers \cup {p[2]}
                          /\ building' \subseteq building \cup {p[2]}
    BY <1>16 DEF MaybeAddConstraint
  <2>2. p \in Pair /\ search \in [Pair -> {"none", "scheduled", "running"}]
    BY DEF Types, TypeOK
  <2>3. p[1] \in nodes /\ Finished(p[2])
    BY DEF Holds, NodesOnce
  <2>4. UNCHANGED <<problem, nodes, submaps>>
    BY <1>16 DEF MaybeAddConstraint, pgVars
  <2>5. \A q \in Pair : search'[q] = IF q = p THEN "scheduled" ELSE search[q]
    BY <2>1, <2>2
  <2>6. \A q \in Searching' : q = p \/ q \in Searching
    BY <2>5 DEF Searching
  <2>7. \A q \in Searching' : q[1] \in nodes /\ Finished(q[2]) /\ q[2] \in matchers'
    BY <2>1, <2>3, <2>6 DEF Holds
  <2>8. \A s \in building' : s \in matchers' /\ \E q \in Pair : search'[q] = "scheduled" /\ q[2] = s
    BY <2>1, <2>2, <2>5 DEF Holds
  <2> QED
    BY <2>1, <2>4, <2>7, <2>8 DEF Holds, Finished
<1>17. CASE NotifyEndOfNode
  BY <1>17, DataUntouched DEF NotifyEndOfNode
<1>18. CASE RunWorkItem
  <2>1. UNCHANGED <<todo, problem, nodes, search, matchers, building>>
    BY <1>18 DEF RunWorkItem, cbVars
  <2>2. \A s \in Id : Finished(s) => submaps'[s] = "finished"
    BY <1>18 DEF RunWorkItem, Finished
  <2> QED
    BY <2>1, <2>2 DEF Holds, Types, TypeOK, Pair, Searching, Finished
<1>19. CASE DrainWhenDone
  BY <1>19, DataUntouched DEF DrainWhenDone, WhenDone, pgVars
<1>20. CASE InsertConstraints
  BY <1>20, DataUntouched DEF InsertConstraints, pgVars, cbVars
<1>21. CASE Solve
  BY <1>21, DataUntouched DEF Solve, pgVars, cbVars
<1>22. CASE Trim
  <2>1. Searching = {} /\ todo = {}
    BY <1>22 DEF Trim, Waits
  <2>2. building = {}
    BY <2>1 DEF Holds, Searching
  <2>3. UNCHANGED <<todo, search, building>>
    BY <1>22 DEF Trim
  <2> QED
    BY <2>1, <2>2, <2>3 DEF Holds, Searching
<1>23. CASE BuildMatcher
  <2>1. building' \subseteq building /\ UNCHANGED <<todo, problem, nodes, submaps, search, matchers>>
    BY <1>23 DEF BuildMatcher, poolOthers, pgVars
  <2> QED
    BY <2>1 DEF Holds, Searching, Finished
<1>24. CASE BeginSearch
  <2>1. PICK p \in Pair : /\ search[p] = "scheduled" /\ p[2] \notin building
                          /\ search' = [search EXCEPT ![p] = "running"]
    BY <1>24 DEF BeginSearch
  <2>2. UNCHANGED <<todo, problem, nodes, submaps, matchers, building>>
    BY <1>24 DEF BeginSearch, poolOthers, pgVars
  <2>3. \A q \in Pair : search'[q] = IF q = p THEN "running" ELSE search[q]
    BY <2>1 DEF Types, TypeOK
  <2>4. Searching' = Searching
    BY <2>1, <2>3 DEF Searching
  <2>5. \A s \in building : \E q \in Pair : search'[q] = "scheduled" /\ q[2] = s
    BY <2>1, <2>3 DEF Holds
  <2> QED
    BY <2>2, <2>4, <2>5 DEF Holds, Finished
<1>25. CASE EndSearch
  <2>1. PICK p \in Pair : search[p] = "running" /\ search' = [search EXCEPT ![p] = "none"]
    BY <1>25 DEF EndSearch
  <2>2. UNCHANGED <<todo, problem, nodes, submaps, matchers, building>>
    BY <1>25 DEF EndSearch, poolOthers, pgVars
  <2>3. \A q \in Pair : search'[q] = IF q = p THEN "none" ELSE search[q]
    BY <2>1 DEF Types, TypeOK
  <2>4. Searching' \subseteq Searching
    BY <2>3 DEF Searching
  <2>5. \A s \in building : \E q \in Pair : search'[q] = "scheduled" /\ q[2] = s
    BY <2>1, <2>3 DEF Holds
  <2> QED
    BY <2>2, <2>4, <2>5 DEF Holds, Finished
<1>26. CASE FinishNode
  BY <1>26, DataUntouched DEF FinishNode, poolOthers, pgVars
<1>27. CASE RunWhenDoneCallback
  BY <1>27, DataUntouched DEF RunWhenDoneCallback, poolOthers, pgVars
<1> QED
  BY <1>1, <1>2, <1>3, <1>4, <1>5, <1>6, <1>7, <1>8, <1>9, <1>10, <1>11, <1>12, <1>13,
     <1>14, <1>15, <1>16, <1>17, <1>18, <1>19, <1>20, <1>21, <1>22, <1>23, <1>24, <1>25,
     <1>26, <1>27 DEF Next, Foreground, Drain, Pool

LEMMA FinalsUntouched ==
  ASSUME Finals, UNCHANGED <<workQueue, pc, cur, fg, final, whenDone, problem, solvedFinal>>
  PROVE  Finals'
BY DEF Finals, Waiting, Kind, Items, Optimizing

\* A request that is no part of a final optimization.
LEMMA PlainRequest ==
  ASSUME Types, Finals, NEW item \in WorkItem, item.kind # "final", Request(item),
         fg \in {"idle", "append"}, fg' = "idle"
  PROVE  Finals'
<1>1. AddWorkItem(item) /\ UNCHANGED <<pc, cur, final>>
  BY DEF Request, pgVars
<1>2. /\ Len(Items) \in Nat /\ DOMAIN Items = 1..Len(Items)
      /\ DOMAIN Items' = 1..(Len(Items) + 1)
      /\ \A i \in DOMAIN Items : Items'[i] = Items[i]
      /\ Items'[Len(Items) + 1] = item
  BY <1>1, ItemsAppended
<1>3. /\ \A i \in DOMAIN Items : i \in DOMAIN Items' /\ Items'[i] = Items[i]
      /\ \A i \in DOMAIN Items' : Items'[i].kind = "final" => i \in DOMAIN Items
  BY <1>2
<1> QED
  BY <1>1, <1>3 DEF Finals, Waiting, Kind

\* The final settings are used before they are taken back.
LEMMA FinalsStep ==
  ASSUME IInv, Next
  PROVE  Finals'
<1>0. Types /\ Handover /\ NodesOnce /\ Finals
  BY DEF IInv
<1> USE <1>0
<1>1. ASSUME NEW t \in Trajectory, AppendNode(t) PROVE Finals'
  <2>1. fg = "idle" /\ fg' = "append"
    BY <1>1 DEF AppendNode
  <2>2. UNCHANGED <<workQueue, pc, cur, final, whenDone, problem, solvedFinal>>
    BY <1>1 DEF AppendNode, drVars, cbVars
  <2> QED
    BY <2>1, <2>2 DEF Finals, Waiting, Kind, Items
<1>2. ASSUME NEW t \in Trajectory, AddData(t) PROVE Finals'
  <2>1. Item("data", t) \in WorkItem /\ Item("data", t).kind # "final"
    BY ItemTypes DEF Item
  <2> QED
    BY <1>2, <2>1, PlainRequest DEF AddData
<1>3. ASSUME NEW t \in Trajectory, AddTrajectory(t) PROVE Finals'
  <2>1. Item("trimmer", t) \in WorkItem /\ Item("trimmer", t).kind # "final"
    BY ItemTypes DEF Item
  <2>2. CASE t \in Localize
    BY <1>3, <2>1, <2>2, PlainRequest DEF AddTrajectory
  <2>3. CASE t \notin Localize
    BY <1>3, <2>3, FinalsUntouched DEF AddTrajectory, drVars, pgVars, cbVars
  <2> QED
    BY <2>2, <2>3
<1>4. ASSUME NEW t \in Trajectory, FinishTrajectory(t) PROVE Finals'
  <2>1. Item("finish", t) \in WorkItem /\ Item("finish", t).kind # "final"
    BY ItemTypes DEF Item
  <2> QED
    BY <1>4, <2>1, PlainRequest DEF FinishTrajectory
<1>5. CASE AddNode
  <2>1. Item("node", fgNode) \in WorkItem /\ Item("node", fgNode).kind # "final"
    BY <1>5, ItemTypes DEF AddNode, NodesOnce, Item
  <2> QED
    BY <1>5, <2>1, PlainRequest DEF AddNode
<1>6. CASE RunFinalOptimization
  <2> DEFINE item == Item("final", Null)
             n == Len(Items) + 1
  <2>1. item \in WorkItem /\ item.kind = "final" /\ AddWorkItem(item)
    BY <1>6, ItemTypes DEF Item, Request, RunFinalOptimization
  <2>2. /\ Len(Items) \in Nat /\ DOMAIN Items = 1..Len(Items) /\ DOMAIN Items' = 1..n
        /\ \A i \in DOMAIN Items : Items'[i] = Items[i]
        /\ Items'[n] = item
    BY <2>1, ItemsAppended
  <2> HIDE DEF item
  <2>3. /\ n \in DOMAIN Items' /\ Items'[n].kind = "final"
        /\ \A i \in DOMAIN Items' : i \in DOMAIN Items \/ i = n
        /\ \A i \in DOMAIN Items : i \in DOMAIN Items' /\ i < n
        /\ \A i \in DOMAIN Items' : ~(n < i)
        /\ \A i \in DOMAIN Items : Items'[i] = Items[i]
    BY <2>1, <2>2
  <2>4. fg' = "final"
    BY <1>6 DEF RunFinalOptimization
  <2> QED
    BY <2>3, <2>4 DEF Finals, Kind
<1>7. CASE ResetIterations
  <2> DEFINE item == Item("reset", Null)
             n == Len(Items) + 1
  <2>1. item \in WorkItem /\ item.kind = "reset" /\ AddWorkItem(item)
    BY <1>7, ItemTypes DEF Item, Request, ResetIterations
  <2>2. /\ Len(Items) \in Nat /\ DOMAIN Items = 1..Len(Items) /\ DOMAIN Items' = 1..n
        /\ \A i \in DOMAIN Items : Items'[i] = Items[i]
        /\ Items'[n] = item
    BY <2>1, ItemsAppended
  <2> HIDE DEF item
  <2>3. /\ n \in DOMAIN Items' /\ Items'[n].kind = "reset"
        /\ \A i \in DOMAIN Items' : i \in DOMAIN Items \/ i = n
        /\ \A i \in DOMAIN Items : i \in DOMAIN Items' /\ i < n
        /\ \A i \in DOMAIN Items' : ~(n < i)
        /\ \A i \in DOMAIN Items : Items'[i] = Items[i]
    BY <2>1, <2>2
  <2>4. fg = "final" /\ fg' = "count"
    BY <1>7 DEF ResetIterations
  <2>5. UNCHANGED <<pc, cur, final, whenDone, problem, solvedFinal>>
    BY <1>7 DEF ResetIterations, Request, pgVars, cbVars
  <2>6. \A i \in DOMAIN Items' : Kind(i)' = "final" =>
          \E j \in DOMAIN Items' : i < j /\ Kind(j)' = "reset"
    BY <2>3 DEF Kind
  <2>7. \E j \in DOMAIN Items' : Kind(j)' = "reset"
    BY <2>3 DEF Kind
  <2>8. CASE \E i \in DOMAIN Items :
               Kind(i) = "final" /\ \A j \in DOMAIN Items : i < j => Kind(j) # "node"
    BY <2>3, <2>6, <2>7, <2>8 DEF Finals, Kind
  <2>9. CASE \A i \in DOMAIN Items : Kind(i) # "node"
    <3>1. \A i \in DOMAIN Items' : Kind(i)' # "node"
      BY <2>3, <2>9 DEF Kind
    <3> QED
      BY <2>4, <2>5, <2>6, <2>7, <2>8, <3>1 DEF Finals, Waiting, Optimizing
  <2> QED
    BY <2>4, <2>8, <2>9 DEF Finals, Waiting
<1>8. CASE CountNodes
  <2>1. UNCHANGED <<workQueue, pc, cur, final, whenDone, problem, solvedFinal>>
    BY <1>8 DEF CountNodes, drVars, pgVars, cbVars
  <2> QED
    BY <1>8, <2>1 DEF CountNodes, Finals, Waiting, Kind, Items, Optimizing
<1>9. CASE QueueDrained
  <2>1. UNCHANGED <<workQueue, pc, cur, final, whenDone, problem, solvedFinal>>
    BY <1>9 DEF QueueDrained, drVars, pgVars, cbVars
  <2> QED
    BY <1>9, <2>1 DEF QueueDrained, Finals, Waiting, Kind, Items, Optimizing
<1>10. CASE WaitWhenDone
  <2>1. UNCHANGED <<workQueue, pc, cur, final, problem, solvedFinal>>
    BY <1>10 DEF WaitWhenDone, drVars, pgVars
  <2>2. ~(pc = "none" /\ whenDone = "handle")
    BY <1>10, CallbackFree DEF WaitWhenDone, Handover
  <2> QED
    BY <1>10, <2>1, <2>2 DEF WaitWhenDone, Finals, Waiting, Kind, Items, Optimizing
<1>11. CASE Notify
  <2>1. UNCHANGED <<workQueue, pc, cur, final, whenDone, problem, solvedFinal>>
    BY <1>11 DEF Notify, cbVars
  <2> QED
    BY <1>11, <2>1 DEF Notify, Handover, Finals, Waiting, Kind, Items
<1>12. CASE StartDrain
  <2>1. UNCHANGED <<workQueue, cur, fg, final, whenDone, problem, solvedFinal>> /\ pc' = "drain"
    BY <1>12 DEF StartDrain, pgVars, cbVars, fgOthers, fgVars
  <2>2. pc = "none" /\ whenDone # "handle"
    BY <1>12 DEF StartDrain, Handover, OneDrainer, Drainers, Types, TypeOK
  <2> QED
    BY <2>1, <2>2 DEF Finals, Waiting, Kind, Items, Optimizing
<1>13. CASE PopWorkItem
  <2>0. /\ workQueue # Null /\ pc = "drain"
        /\ UNCHANGED <<fg, final, whenDone, problem, solvedFinal>>
    BY <1>13, QueueThere DEF PopWorkItem, pgVars, cbVars, fgOthers, fgVars
  <2>1. CASE workQueue = <<>>
    <3>1. Items = <<>> /\ Items' = <<>> /\ pc' = "none"
      BY <1>13, <2>0, <2>1 DEF PopWorkItem, Items
    <3> QED
      BY <2>0, <3>1 DEF Finals, Waiting, Optimizing
  <2>2. CASE workQueue # <<>>
    <3>1. /\ Len(Items) \in Nat \ {0} /\ Len(Items') = Len(Items) - 1
          /\ DOMAIN Items = 1..Len(Items) /\ DOMAIN Items' = 1..Len(Items')
          /\ \A i \in 1..Len(Items') : Items'[i] = Items[i + 1]
          /\ cur' = Items[1] /\ pc' = "item"
      BY <1>13, <2>0, <2>2, ItemTaken, ItemsType DEF Items
    <3>2. /\ 1 \in DOMAIN Items /\ cur'.kind = Kind(1)
          /\ \A i \in DOMAIN Items' : i + 1 \in DOMAIN Items /\ 1 < i + 1 /\ Kind(i)' = Kind(i + 1)
      BY <3>1 DEF Kind
    <3>3. \A j \in DOMAIN Items : j = 1 \/ \E k \in DOMAIN Items' : j = k + 1
      <4>1. \A j \in DOMAIN Items : j = 1 \/ (j - 1 \in DOMAIN Items' /\ j = (j - 1) + 1)
        BY <3>1
      <4> QED
        BY <4>1
    <3>4. \A i, j \in DOMAIN Items' : i + 1 < j + 1 <=> i < j
      BY <3>1
    <3>5. \A i \in DOMAIN Items' : Kind(i)' = "final" =>
            fg = "final" \/ \E j \in DOMAIN Items' : i < j /\ Kind(j)' = "reset"
      <4>1. SUFFICES ASSUME NEW i \in DOMAIN Items', Kind(i)' = "final", fg # "final"
                     PROVE  \E j \in DOMAIN Items' : i < j /\ Kind(j)' = "reset"
        OBVIOUS
      <4>2. PICK j \in DOMAIN Items : i + 1 < j /\ Kind(j) = "reset"
        BY <3>2, <4>1 DEF Finals
      <4>3. j # 1
        BY <3>1, <4>2
      <4>4. PICK k \in DOMAIN Items' : j = k + 1
        BY <3>3, <4>3
      <4> QED
        BY <3>2, <3>4, <4>2, <4>4
    <3>6. final \/ cur'.kind = "final" =>
            fg = "final" \/ cur'.kind = "reset" \/ \E j \in DOMAIN Items' : Kind(j)' = "reset"
      <4>1. final \/ cur'.kind = "final" =>
              fg = "final" \/ \E j \in DOMAIN Items : Kind(j) = "reset"
        BY <2>0, <3>2 DEF Finals
      <4> QED
        BY <3>2, <3>3, <4>1
    <3>7. CASE \E i \in DOMAIN Items :
                 Kind(i) = "final" /\ \A j \in DOMAIN Items : i < j => Kind(j) # "node"
      <4>1. PICK i \in DOMAIN Items :
                   Kind(i) = "final" /\ \A j \in DOMAIN Items : i < j => Kind(j) # "node"
        BY <3>7
      <4>2. CASE i = 1
        <5>1. cur'.kind = "final" /\ \A j \in DOMAIN Items' : Kind(j)' # "node"
          BY <3>2, <4>1, <4>2
        <5> QED
          BY <2>0, <3>1, <3>5, <3>6, <5>1 DEF Finals
      <4>3. CASE i # 1
        <5>1. PICK k \in DOMAIN Items' : i = k + 1
          BY <3>3, <4>3
        <5>2. Kind(k)' = "final" /\ \A j \in DOMAIN Items' : k < j => Kind(j)' # "node"
          BY <3>2, <3>4, <4>1, <5>1
        <5> QED
          BY <2>0, <3>1, <3>5, <3>6, <5>2 DEF Finals
      <4> QED
        BY <4>2, <4>3
    <3>8. CASE Waiting => /\ \A i \in DOMAIN Items : Kind(i) # "node"
                          /\ problem = {} \/ solvedFinal
      <4>1. Waiting => cur'.kind # "node" /\ \A i \in DOMAIN Items' : Kind(i)' # "node"
        BY <3>2, <3>8
      <4> QED
        BY <2>0, <3>1, <3>5, <3>6, <3>8, <4>1 DEF Finals, Waiting
    <3> QED
      BY <2>0, <3>7, <3>8 DEF Finals, Optimizing
  <2> QED
    BY <2>1, <2>2
<1>14. CASE ComputeConstraintsForNode
  <2>1. UNCHANGED <<workQueue, cur, fg, final, whenDone, solvedFinal>>
    BY <1>14 DEF ComputeConstraintsForNode, pgVars, cbVars, fgOthers, fgVars
  <2> QED
    BY <1>14, <2>1 DEF ComputeConstraintsForNode, Finals, Waiting, Kind, Items, Optimizing
<1>15. CASE SkipConstraint
  <2>1. UNCHANGED <<workQueue, pc, cur, fg, final, whenDone, problem, solvedFinal>>
    BY <1>15 DEF SkipConstraint, pgVars, cbVars, fgOthers, fgVars
  <2> QED
    BY <1>15, <2>1 DEF SkipConstraint, Finals, Waiting, Kind, Items, Optimizing
<1>16. CASE MaybeAddConstraint
  <2>1. UNCHANGED <<workQueue, pc, cur, fg, final, whenDone, problem, solvedFinal>>
    BY <1>16 DEF MaybeAddConstraint, pgVars, cbVars, fgOthers, fgVars
  <2> QED
    BY <1>16, <2>1 DEF MaybeAddConstraint, Finals, Waiting, Kind, Items, Optimizing
<1>17. CASE NotifyEndOfNode
  <2>1. UNCHANGED <<workQueue, fg, final, whenDone, problem, solvedFinal>>
    BY <1>17 DEF NotifyEndOfNode, pgVars, cbVars, fgOthers, fgVars
  <2> QED
    BY <1>17, <2>1 DEF NotifyEndOfNode, Finals, Waiting, Kind, Items, Optimizing
<1>18. CASE RunWorkItem
  <2>1. UNCHANGED <<workQueue, fg, whenDone, problem, solvedFinal>>
    BY <1>18 DEF RunWorkItem, pgVars, cbVars, fgOthers, fgVars
  <2> QED
    BY <1>18, <2>1 DEF RunWorkItem, Finals, Waiting, Kind, Items, Optimizing
<1>19. CASE DrainWhenDone
  <2>1. UNCHANGED <<workQueue, cur, fg, final, problem, solvedFinal>>
    BY <1>19 DEF DrainWhenDone, pgVars, fgOthers, fgVars
  <2> QED
    BY <1>19, <2>1 DEF DrainWhenDone, WhenDone, Finals, Waiting, Kind, Items, Optimizing
<1>20. CASE InsertConstraints
  <2>1. UNCHANGED <<workQueue, cur, fg, final, whenDone, problem, solvedFinal>>
    BY <1>20 DEF InsertConstraints, pgVars, cbVars, fgOthers, fgVars
  <2> QED
    BY <1>20, <2>1 DEF InsertConstraints, Finals, Waiting, Kind, Items, Optimizing
<1>21. CASE Solve
  <2>1. UNCHANGED <<workQueue, cur, fg, final, whenDone, problem>>
    BY <1>21 DEF Solve, pgVars, cbVars, fgOthers, fgVars
  <2> QED
    BY <1>21, <2>1 DEF Solve, Finals, Waiting, Kind, Items, Optimizing
<1>22. CASE Trim
  <2>1. UNCHANGED <<workQueue, cur, fg, final, whenDone, solvedFinal>>
    BY <1>22 DEF Trim, fgOthers, fgVars
  <2>2. pc = "trim" /\ pc' = "drain" /\ (problem = {} => problem' = {})
    BY <1>22 DEF Trim
  <2> QED
    BY <2>1, <2>2 DEF Finals, Waiting, Kind, Items, Optimizing
<1>23. CASE BuildMatcher
  BY <1>23, FinalsUntouched DEF BuildMatcher, poolOthers, pgVars, fgVars
<1>24. CASE BeginSearch
  BY <1>24, FinalsUntouched DEF BeginSearch, poolOthers, pgVars, fgVars
<1>25. CASE EndSearch
  BY <1>25, FinalsUntouched DEF EndSearch, poolOthers, pgVars, fgVars
<1>26. CASE FinishNode
  BY <1>26, FinalsUntouched DEF FinishNode, poolOthers, pgVars, fgVars
<1>27. CASE RunWhenDoneCallback
  <2>1. UNCHANGED <<workQueue, cur, fg, final, problem, solvedFinal>>
    BY <1>27 DEF RunWhenDoneCallback, poolOthers, pgVars, fgVars
  <2>2. /\ whenDone' = "none" /\ doneTask # Null
        /\ pc' = IF whenDone = "handle" THEN "insert" ELSE pc
    BY <1>27 DEF RunWhenDoneCallback
  <2>3. pc = "none"
    BY <2>2, QueueThere
  <2> QED
    BY <2>1, <2>2, <2>3 DEF Finals, Waiting, Kind, Items, Optimizing
<1> QED
  BY <1>1, <1>2, <1>3, <1>4, <1>5, <1>6, <1>7, <1>8, <1>9, <1>10, <1>11, <1>12, <1>13,
     <1>14, <1>15, <1>16, <1>17, <1>18, <1>19, <1>20, <1>21, <1>22, <1>23, <1>24, <1>25,
     <1>26, <1>27 DEF Next, Foreground, Drain, Pool

-----------------------------------------------------------------------------
(* The invariant                                                           *)

LEMMA InitIInv == Init => IInv
<1> SUFFICES ASSUME Init PROVE IInv
  OBVIOUS
<1>1. Types
  BY DEF Init, Types, TypeOK
<1>2. Items = <<>> /\ Searching = {}
  BY DEF Init, Items, Searching
<1>3. Handover
  BY DEF Init, Handover, OneDrainer, Drainers
<1>4. Waits
  BY <1>2 DEF Init, Waits
<1>5. NodesOnce
  BY <1>2 DEF Init, NodesOnce
<1>6. Holds
  BY <1>2 DEF Init, Holds
<1>7. Finals
  BY <1>2 DEF Init, Finals, Waiting
<1> QED
  BY <1>1, <1>3, <1>4, <1>5, <1>6, <1>7 DEF IInv

LEMMA Stutter ==
  ASSUME IInv, UNCHANGED vars
  PROVE  IInv'
<1>1. Types'
  BY DEF IInv, Types, TypeOK, vars, drVars, pgVars, cbVars, fgVars
<1>2. Handover'
  BY DEF IInv, Handover, OneDrainer, Drainers, vars, drVars, cbVars, fgVars
<1>3. Waits'
  BY SearchesUntouched DEF IInv, vars, drVars, cbVars
<1>4. NodesOnce'
  BY NodesUntouched DEF IInv, vars, drVars, pgVars, fgVars
<1>5. Holds'
  BY DataUntouched DEF IInv, vars, drVars, pgVars, cbVars
<1>6. Finals'
  BY FinalsUntouched DEF IInv, vars, drVars, pgVars, cbVars, fgVars
<1> QED
  BY <1>1, <1>2, <1>3, <1>4, <1>5, <1>6 DEF IInv

LEMMA NextIInv == IInv /\ [Next]_vars => IInv'
<1>1. IInv /\ Next => IInv'
  BY TypesStep, HandoverStep, WaitsStep, NodesOnceStep, HoldsStep, FinalsStep DEF IInv
<1> QED
  BY <1>1, Stutter

LEMMA SpecIInv == Spec => []IInv
  BY InitIInv, NextIInv, PTL DEF Spec

-----------------------------------------------------------------------------
\* The variables keep their types; in particular found constraints always
\* have a slot (constraint_builder_2d.cc:281-302).
THEOREM TypeCorrect == Spec => []TypeOK
<1>1. IInv => TypeOK
  BY DEF IInv, Types
<1> QED
  BY <1>1, SpecIInv, PTL

\* At most one task drains the work queue, and one does or will as long as
\* there is anything in it (pose_graph_2d.cc:174-182, 520-530).
THEOREM OneTaskDrains == Spec => []OneDrainer
<1>1. IInv => OneDrainer
  BY DEF IInv, Handover
<1> QED
  BY <1>1, SpecIInv, PTL

\* A search finds its slot, its scan matcher, its node and its submap
\* whenever it looks (constraint_builder_2d.cc:99-107, pose_graph_2d.cc:1281).
THEOREM SearchesNeverDangle == Spec => []SearchesHoldTheirData
<1>1. ASSUME IInv PROVE SearchesHoldTheirData
  <2>1. Searching \subseteq slots
    BY <1>1 DEF IInv, Waits
  <2>2. building \subseteq matchers
    BY <1>1 DEF IInv, Holds
  <2>3. \A p \in Searching : p[1] \in nodes /\ submaps[p[2]] = "finished" /\ p[2] \in matchers
    BY <1>1 DEF IInv, Holds, Finished
  <2> QED
    BY <2>1, <2>2, <2>3 DEF SearchesHoldTheirData
<1> QED
  BY <1>1, SpecIInv, PTL

\* Nobody works on the problem or its constraints while the solver runs
\* without a lock (pose_graph_2d.cc:866-869).
THEOREM SolverIsAlone == Spec => []SolveAlone
<1>1. ASSUME IInv PROVE SolveAlone
  <2>1. SUFFICES ASSUME pc = "solve"
                 PROVE  ~notifying /\ drainTasks = 0 /\ Searching = {} /\ slots = {}
    BY DEF SolveAlone
  <2>2. ~notifying /\ drainTasks = 0
    BY <1>1, <2>1, QueueThere DEF IInv
  <2>3. slots = {}
    BY <1>1, <2>1 DEF IInv, Waits
  <2>4. Searching = {}
    BY <1>1, <2>3 DEF IInv, Waits
  <2> QED
    BY <2>2, <2>3, <2>4
<1> QED
  BY <1>1, SpecIInv, PTL

\* RunFinalOptimization does not return before everything queued was worked
\* off and the final optimization was run (pose_graph_2d.cc:841-859).
THEOREM FinalOptimizationIsDone == Spec => FinalOptimizationDone
<1> DEFINE A == notifying /\ ~notifying' =>
                  /\ workQueue = Null /\ slots = {} /\ finishTasks = {} /\ Searching = {}
                  /\ ~final /\ (problem # {} => solvedFinal)
<1>1. IInv => A
  <2> SUFFICES ASSUME IInv, notifying
               PROVE  /\ workQueue = Null /\ slots = {} /\ finishTasks = {} /\ Searching = {}
                      /\ ~final /\ (problem # {} => solvedFinal)
    OBVIOUS
  <2>1. workQueue = Null /\ whenDone = "none" /\ fg = "waitDone"
    BY DEF IInv, Handover
  <2>2. slots = {} /\ finishTasks = {} /\ Searching = {}
    BY DEF IInv, Waits
  <2>3. pc = "none"
    BY <2>1, QueueThere DEF IInv
  <2>4. Items = <<>>
    BY <2>1 DEF Items
  <2>5. ~final /\ (problem # {} => solvedFinal)
    BY <2>1, <2>3, <2>4 DEF IInv, Finals, Waiting, Optimizing
  <2> QED
    BY <2>1, <2>2, <2>5
<1> QED
  BY <1>1, SpecIInv, PTL DEF FinalOptimizationDone

-----------------------------------------------------------------------------
(* The order of the nodes                                                  *)

\* Nodes on their way into the problem, all nodes numbered so far, and those
\* that have entered it, trimmed ones included.
Queued == {Items[i].arg : i \in {j \in DOMAIN Items : Kind(j) = "node"}}
Pending == Queued \cup (IF pc = "item" /\ cur.kind = "node" THEN {cur.arg} ELSE {})
                  \cup (IF fg = "append" THEN {fgNode} ELSE {})
Numbered == {n \in Id : n[2] <= added[n[1]]}
Past == Numbered \ Pending

\* The nodes of a trajectory enter in the order of their numbers.
Order ==
  /\ \A i, j \in DOMAIN Items :
       i < j /\ Kind(i) = "node" /\ Kind(j) = "node" /\ Items[i].arg[1] = Items[j].arg[1]
         => Items[i].arg[2] < Items[j].arg[2]
  /\ pc = "item" /\ cur.kind = "node" =>
       \A n \in Pending \ {cur.arg} : n[1] = cur.arg[1] => cur.arg[2] < n[2]
  /\ fg = "append" => fgNode[2] = added[fgNode[1]]
  /\ \A m \in Past, n \in Pending : m[1] = n[1] => m[2] < n[2]

\* Nothing is queued of a trajectory behind its end.
Of(item, t) == \/ item.kind = "node" /\ item.arg[1] = t
               \/ item.kind \in {"data", "finish"} /\ item.arg = t

Ended(t) == trajectory[t] \in {"finished", "deleted"}

Ends ==
  /\ \A i \in DOMAIN Items : Kind(i) = "finish" =>
       /\ client[Items[i].arg] = "finished"
       /\ \A j \in DOMAIN Items : i < j => ~Of(Items[j], Items[i].arg)
  /\ pc = "item" /\ cur.kind = "finish" =>
       client[cur.arg] = "finished" /\ \A j \in DOMAIN Items : ~Of(Items[j], cur.arg)
  /\ fg = "append" => client[fgNode[1]] = "open"
  /\ \A t \in Trajectory : Ended(t) =>
       /\ client[t] = "finished"
       /\ \A j \in DOMAIN Items : ~Of(Items[j], t)
       /\ pc = "item" => ~Of(cur, t)

\* A submap is finished when its last node enters or its trajectory ends, and
\* trimmed only after that.
Maps ==
  /\ \A n \in Numbered : \A s \in SubmapsOf(n) : submaps[s] # "none"
  /\ \A s \in Id : submaps[s] \in {"finished", "trimmed"} => NodesOf(s) \subseteq Past \/ Ended(s[1])
  /\ \A s \in Id : Last(s) \in Past => submaps[s] # "open"

\* Every pair is looked at once, or will be for the node just taken.
Looks ==
  /\ looked \in [Pair -> Nat]
  /\ \A p \in Pair : looked[p] <= IF p[1] \in NodesOf(p[2]) THEN 0 ELSE 1
  /\ \A p \in Pair : looked[p] # 0 => p[1] \in Past /\ submaps[p[2]] \in {"finished", "trimmed"}
  /\ \A p \in todo : looked[p] = 0 /\ p[1] \notin NodesOf(p[2])
  /\ \A n \in problem : \A s \in Id :
       Finished(s) /\ Last(s) \in problem /\ n \notin NodesOf(s) =>
         looked[<<n, s>>] = 1 \/ <<n, s>> \in todo

\* Every node that has entered is finished or will be, and the foreground
\* thread waits for as many as there are.
Tally ==
  /\ fg \in {"waitQueue", "whenDone", "waitDone"} => fgCount = NumNodes
  /\ IsFiniteSet(finishTasks)
  /\ \A f \in finishTasks : f.node \in Past /\ (pc = "search" => f.node # cur.arg)
  /\ finished + Cardinality(finishTasks) + (IF pc = "search" THEN 1 ELSE 0) = Cardinality(Past)

JInv == Order /\ Ends /\ Maps /\ Looks /\ Tally

LEMMA ItemsShifted ==
  ASSUME Types, PopWorkItem, workQueue # <<>>, workQueue # Null
  PROVE  /\ 1 \in DOMAIN Items /\ cur' = Items[1] /\ pc' = "item" /\ cur' \in WorkItem
         /\ \A i \in DOMAIN Items' : /\ i + 1 \in DOMAIN Items /\ 1 < i + 1 /\ i + 1 # 1
                                     /\ Items'[i] = Items[i + 1]
         /\ \A j \in DOMAIN Items : j = 1 \/ \E k \in DOMAIN Items' : j = k + 1
         /\ \A i, j \in DOMAIN Items' : (i + 1 < j + 1) <=> (i < j)
<1>1. /\ Len(Items) \in Nat \ {0} /\ Len(Items') = Len(Items) - 1
      /\ \A i \in 1..Len(Items') : Items'[i] = Items[i + 1]
      /\ cur' = Items[1] /\ pc' = "item" /\ cur' \in WorkItem
  BY ItemTaken
<1>2. DOMAIN Items = 1..Len(Items)
  BY ItemsType
<1>3. DOMAIN Items' = 1..Len(Items')
  BY ItemTaken DEF Items
<1>4. \A j \in DOMAIN Items : j = 1 \/ (j - 1 \in DOMAIN Items' /\ j = (j - 1) + 1)
  BY <1>1, <1>2, <1>3
<1> QED
  BY <1>1, <1>2, <1>3, <1>4

LEMMA PendingUntouched ==
  ASSUME UNCHANGED <<workQueue, fgNode, added>>,
         fg' = fg \/ (fg # "append" /\ fg' # "append"),
         \/ pc' = pc /\ cur' = cur
         \/ ~(pc = "item" /\ cur.kind = "node") /\ pc' # "item"
  PROVE  UNCHANGED <<Pending, Numbered>>
<1>1. UNCHANGED <<Queued, Numbered>>
  BY DEF Queued, Items, Kind, Numbered
<1> QED
  BY <1>1 DEF Pending

LEMMA OtherPending ==
  ASSUME Types, NEW item \in WorkItem, item.kind # "node", Request(item),
         UNCHANGED added, fg # "append", fg' # "append"
  PROVE  UNCHANGED <<Pending, Numbered>>
<1>1. AddWorkItem(item) /\ UNCHANGED <<pc, cur>>
  BY DEF Request
<1>2. /\ Len(Items) \in Nat /\ DOMAIN Items = 1..Len(Items)
      /\ DOMAIN Items' = 1..(Len(Items) + 1)
      /\ \A i \in DOMAIN Items : Items'[i] = Items[i]
      /\ Items'[Len(Items) + 1] = item
  BY <1>1, ItemsAppended
<1>3. Queued' = Queued
  BY <1>2 DEF Queued, Kind
<1> QED
  BY <1>1, <1>3 DEF Pending, Numbered

\* Only a new node and one that enters the problem change these sets.
LEMMA PendingKept ==
  ASSUME IInv, Next, ~ComputeConstraintsForNode, ~\E t \in Trajectory : AppendNode(t)
  PROVE  UNCHANGED <<Pending, Numbered>>
<1>0. Types /\ Handover /\ NodesOnce
  BY DEF IInv
<1> USE <1>0
<1>1. ASSUME NEW t \in Trajectory, AddData(t) PROVE UNCHANGED <<Pending, Numbered>>
  <2>1. Item("data", t) \in WorkItem /\ Item("data", t).kind # "node"
    BY ItemTypes DEF Item
  <2> QED
    BY <1>1, <2>1, OtherPending DEF AddData
<1>2. ASSUME NEW t \in Trajectory, AddTrajectory(t) PROVE UNCHANGED <<Pending, Numbered>>
  <2>1. Item("trimmer", t) \in WorkItem /\ Item("trimmer", t).kind # "node"
    BY ItemTypes DEF Item
  <2>2. CASE t \in Localize
    BY <1>2, <2>1, <2>2, OtherPending DEF AddTrajectory
  <2>3. CASE t \notin Localize
    BY <1>2, <2>3, PendingUntouched DEF AddTrajectory, drVars
  <2> QED
    BY <2>2, <2>3
<1>3. ASSUME NEW t \in Trajectory, FinishTrajectory(t) PROVE UNCHANGED <<Pending, Numbered>>
  <2>1. Item("finish", t) \in WorkItem /\ Item("finish", t).kind # "node"
    BY ItemTypes DEF Item
  <2> QED
    BY <1>3, <2>1, OtherPending DEF FinishTrajectory
<1>4. CASE AddNode
  <2> DEFINE item == Item("node", fgNode)
  <2>1. item \in WorkItem /\ item.kind = "node" /\ item.arg = fgNode /\ AddWorkItem(item)
    BY <1>4, ItemTypes DEF AddNode, NodesOnce, Item, Request
  <2>2. /\ Len(Items) \in Nat /\ DOMAIN Items = 1..Len(Items)
        /\ DOMAIN Items' = 1..(Len(Items) + 1)
        /\ \A i \in DOMAIN Items : Items'[i] = Items[i]
        /\ Items'[Len(Items) + 1] = item
    BY <2>1, ItemsAppended
  <2> HIDE DEF item
  <2>3. Queued' = Queued \cup {fgNode}
    BY <2>1, <2>2 DEF Queued, Kind
  <2>4. fg = "append" /\ fg' # "append" /\ UNCHANGED <<pc, cur, added>>
    BY <1>4 DEF AddNode, Request
  <2> QED
    BY <2>3, <2>4 DEF Pending, Numbered
<1>5. CASE RunFinalOptimization
  <2>1. Item("final", Null) \in WorkItem /\ Item("final", Null).kind # "node"
    BY ItemTypes DEF Item
  <2> QED
    BY <1>5, <2>1, OtherPending DEF RunFinalOptimization
<1>6. CASE ResetIterations
  <2>1. Item("reset", Null) \in WorkItem /\ Item("reset", Null).kind # "node"
    BY ItemTypes DEF Item
  <2> QED
    BY <1>6, <2>1, OtherPending DEF ResetIterations
<1>7. CASE CountNodes
  BY <1>7, PendingUntouched DEF CountNodes, drVars
<1>8. CASE QueueDrained
  BY <1>8, PendingUntouched DEF QueueDrained, drVars
<1>9. CASE WaitWhenDone
  BY <1>9, PendingUntouched DEF WaitWhenDone, drVars
<1>10. CASE Notify
  BY <1>10, PendingUntouched DEF Notify, Handover
<1>11. CASE StartDrain
  BY <1>11, PendingUntouched DEF StartDrain, fgOthers, fgVars
<1>12. CASE PopWorkItem
  <2>1. workQueue # Null /\ pc = "drain" /\ UNCHANGED <<fg, fgNode, added>>
    BY <1>12, QueueThere DEF PopWorkItem, fgOthers, fgVars
  <2>2. CASE workQueue = <<>>
    <3>1. Items = <<>> /\ Items' = <<>> /\ pc' = "none"
      BY <1>12, <2>1, <2>2 DEF PopWorkItem, Items
    <3> QED
      BY <2>1, <3>1 DEF Pending, Queued, Numbered
  <2>3. CASE workQueue # <<>>
    <3>1. /\ 1 \in DOMAIN Items /\ cur' = Items[1] /\ pc' = "item"
          /\ \A i \in DOMAIN Items' : /\ i + 1 \in DOMAIN Items /\ i + 1 # 1
                                      /\ Items'[i] = Items[i + 1]
          /\ \A j \in DOMAIN Items : j = 1 \/ \E k \in DOMAIN Items' : j = k + 1
      BY <1>12, <2>1, <2>3, ItemsShifted
    <3>2. Queued = Queued' \cup (IF cur'.kind = "node" THEN {cur'.arg} ELSE {})
      BY <3>1 DEF Queued, Kind
    <3> QED
      BY <2>1, <3>1, <3>2 DEF Pending, Numbered
  <2> QED
    BY <2>2, <2>3
<1>13. CASE SkipConstraint
  BY <1>13, PendingUntouched DEF SkipConstraint, fgOthers, fgVars
<1>14. CASE MaybeAddConstraint
  BY <1>14, PendingUntouched DEF MaybeAddConstraint, fgOthers, fgVars
<1>15. CASE NotifyEndOfNode
  BY <1>15, PendingUntouched DEF NotifyEndOfNode, fgOthers, fgVars
<1>16. CASE RunWorkItem
  BY <1>16, PendingUntouched DEF RunWorkItem, fgOthers, fgVars
<1>17. CASE DrainWhenDone
  BY <1>17, PendingUntouched DEF DrainWhenDone, fgOthers, fgVars
<1>18. CASE InsertConstraints
  BY <1>18, PendingUntouched DEF InsertConstraints, fgOthers, fgVars
<1>19. CASE Solve
  BY <1>19, PendingUntouched DEF Solve, fgOthers, fgVars
<1>20. CASE Trim
  BY <1>20, PendingUntouched DEF Trim, fgOthers, fgVars
<1>21. CASE BuildMatcher
  BY <1>21, PendingUntouched DEF BuildMatcher, poolOthers, fgVars
<1>22. CASE BeginSearch
  BY <1>22, PendingUntouched DEF BeginSearch, poolOthers, fgVars
<1>23. CASE EndSearch
  BY <1>23, PendingUntouched DEF EndSearch, poolOthers, fgVars
<1>24. CASE FinishNode
  BY <1>24, PendingUntouched DEF FinishNode, poolOthers, fgVars
<1>25. CASE RunWhenDoneCallback
  <2>1. UNCHANGED <<workQueue, cur, fg, fgNode, added>>
    BY <1>25 DEF RunWhenDoneCallback, poolOthers, fgVars
  <2>2. pc' \in {pc, "insert"} /\ doneTask # Null
    BY <1>25 DEF RunWhenDoneCallback
  <2>3. pc # "item" /\ pc' # "item"
    BY <2>2, QueueThere
  <2> QED
    BY <2>1, <2>3, PendingUntouched
<1> QED
  BY <1>1, <1>2, <1>3, <1>4, <1>5, <1>6, <1>7, <1>8, <1>9, <1>10, <1>11, <1>12, <1>13,
     <1>14, <1>15, <1>16, <1>17, <1>18, <1>19, <1>20, <1>21, <1>22, <1>23, <1>24, <1>25
     DEF Next, Foreground, Drain, Pool

LEMMA PendingAppended ==
  ASSUME IInv, NEW t \in Trajectory, AppendNode(t)
  PROVE  /\ fgNode' = <<t, added[t] + 1>> /\ fgNode' \in Id /\ added[t] \in Nat
         /\ Pending' = Pending \cup {fgNode'} /\ Numbered' = Numbered \cup {fgNode'}
         /\ Past' = Past
<1> DEFINE n == <<t, added[t] + 1>>
<1>1. n \in Id /\ added[t] \in Nat /\ n[1] = t /\ n[2] = added[t] + 1
  BY NewNode DEF AppendNode, IInv, Types
<1>2. /\ fgNode' = n /\ fg' = "append" /\ fg = "idle"
      /\ added' = [added EXCEPT ![t] = added[t] + 1]
      /\ UNCHANGED <<workQueue, pc, cur>>
  BY DEF AppendNode, drVars
<1>3. Queued' = Queued
  BY <1>2 DEF Queued, Items, Kind
<1>4. Pending' = Pending \cup {n}
  BY <1>2, <1>3 DEF Pending
<1>5. Numbered' = Numbered \cup {n}
  <2>1. ASSUME NEW m \in Id PROVE m[2] <= added'[m[1]] <=> m[2] <= added[m[1]] \/ m = n
    <3>1. /\ m = <<m[1], m[2]>> /\ m[1] \in Trajectory /\ m[2] \in Nat
          /\ added \in [Trajectory -> Nat]
      BY DEF Id, IInv, Types
    <3>2. CASE m[1] = t
      BY <1>1, <1>2, <3>1, <3>2
    <3>3. CASE m[1] # t
      BY <1>1, <1>2, <3>1, <3>3
    <3> QED
      BY <3>2, <3>3
  <2> QED
    BY <1>1, <2>1 DEF Numbered
<1>6. n \notin Numbered
  BY <1>1 DEF Numbered
<1> QED
  BY <1>1, <1>2, <1>4, <1>5, <1>6 DEF Past

LEMMA PendingEntered ==
  ASSUME IInv, ComputeConstraintsForNode
  PROVE  /\ cur.arg \in Pending /\ cur.arg \in Numbered
         /\ Pending' = Pending \ {cur.arg} /\ Numbered' = Numbered
         /\ Past' = Past \cup {cur.arg}
<1>1. /\ pc = "item" /\ cur.kind = "node" /\ pc' = "search"
      /\ UNCHANGED <<workQueue, cur, fg, fgNode, added>>
  BY DEF ComputeConstraintsForNode, fgOthers, fgVars
<1>2. Queued' = Queued /\ Numbered' = Numbered
  BY <1>1 DEF Queued, Items, Kind, Numbered
<1>3. cur.arg \in Pending /\ cur.arg \in Numbered
  BY <1>1 DEF Pending, IInv, NodesOnce, Numbered
<1>4. cur.arg \notin Queued /\ (fg = "append" => cur.arg # fgNode)
  BY <1>1 DEF IInv, NodesOnce, Queued, Kind
<1>5. Pending' = Pending \ {cur.arg}
  BY <1>1, <1>2, <1>4 DEF Pending
<1> QED
  BY <1>2, <1>3, <1>5 DEF Past

\* What is pending or known has a number.
LEMMA NumberedNodes ==
  ASSUME IInv
  PROVE  /\ Pending \subseteq nodes /\ nodes \subseteq Numbered /\ Numbered \subseteq Id
         /\ Pending \cap problem = {} /\ problem \subseteq Past
<1>1. nodes \subseteq Numbered /\ Numbered \subseteq Id /\ problem \subseteq nodes
  BY DEF IInv, NodesOnce, Numbered
<1>2. Pending \subseteq nodes /\ Pending \cap problem = {}
  <2>1. Queued \subseteq nodes \ problem
    BY DEF IInv, NodesOnce, Queued, Kind
  <2> QED
    BY <2>1 DEF IInv, NodesOnce, Pending
<1> QED
  BY <1>1, <1>2 DEF Past

-----------------------------------------------------------------------------
(* What a step does to the queue                                           *)

\* Who asks for an item.
Added(item) ==
  /\ item.kind = "node" => AddNode /\ item.arg = fgNode
  /\ item.kind \in {"data", "finish"} => client[item.arg] = "open"
  /\ item.kind = "finish" => client'[item.arg] = "finished"

LEMMA ItemsStep ==
  ASSUME IInv, Next
  PROVE  \/ UNCHANGED Items /\ (pc' = "item" => pc = "item" /\ cur' = cur)
         \/ \E item \in WorkItem : Request(item) /\ Added(item)
         \/ PopWorkItem /\ workQueue # <<>> /\ workQueue # Null
<1> DEFINE Goal == \/ UNCHANGED Items /\ (pc' = "item" => pc = "item" /\ cur' = cur)
                   \/ \E item \in WorkItem : Request(item) /\ Added(item)
                   \/ PopWorkItem /\ workQueue # <<>> /\ workQueue # Null
<1> SUFFICES Goal
  OBVIOUS
<1>1. ASSUME NEW t \in Trajectory, AppendNode(t) PROVE Goal
  BY <1>1 DEF Items, AppendNode, drVars, cbVars, pgVars
<1>2. ASSUME NEW t \in Trajectory, AddData(t) PROVE Goal
  <2> DEFINE item == Item("data", t)
  <2>1. item \in WorkItem /\ Request(item)
    BY <1>2, ItemTypes DEF AddData, IInv, NodesOnce
  <2>2. Added(item)
    BY <1>2, <2>1 DEF AddData, Added, Item, IInv, Types, TypeOK
  <2> QED
    BY <2>1, <2>2
<1>3. ASSUME NEW t \in Trajectory, AddTrajectory(t) PROVE Goal
  <2>1. CASE t \in Localize
    <3> DEFINE item == Item("trimmer", t)
    <3>1. item \in WorkItem /\ Request(item)
      BY <1>3, <2>1, ItemTypes DEF AddTrajectory
    <3>2. Added(item)
      BY <1>3, <3>1 DEF AddTrajectory, Added, Item
    <3> QED
      BY <3>1, <3>2
  <2>2. CASE t \notin Localize
    BY <1>3, <2>2 DEF AddTrajectory, Items, drVars
  <2> QED
    BY <2>1, <2>2
<1>4. ASSUME NEW t \in Trajectory, FinishTrajectory(t) PROVE Goal
  <2> DEFINE item == Item("finish", t)
  <2>1. item \in WorkItem /\ Request(item)
    BY <1>4, ItemTypes DEF FinishTrajectory, IInv, NodesOnce
  <2>2. Added(item)
    BY <1>4, <2>1 DEF FinishTrajectory, Added, Item, IInv, Types, TypeOK
  <2> QED
    BY <2>1, <2>2
<1>5. CASE AddNode
  <2> DEFINE item == Item("node", fgNode)
  <2>1. item \in WorkItem /\ Request(item)
    BY <1>5, ItemTypes DEF AddNode, IInv, NodesOnce
  <2>2. Added(item)
    BY <1>5, <2>1 DEF AddNode, Added, Item, IInv, Types, TypeOK
  <2> QED
    BY <2>1, <2>2
<1>6. CASE RunFinalOptimization
  <2> DEFINE item == Item("final", Null)
  <2>1. item \in WorkItem /\ Request(item)
    BY <1>6, ItemTypes DEF RunFinalOptimization, IInv, NodesOnce
  <2>2. Added(item)
    BY <1>6, <2>1 DEF RunFinalOptimization, Added, Item, IInv, Types, TypeOK
  <2> QED
    BY <2>1, <2>2
<1>7. CASE ResetIterations
  <2> DEFINE item == Item("reset", Null)
  <2>1. item \in WorkItem /\ Request(item)
    BY <1>7, ItemTypes DEF ResetIterations, IInv, NodesOnce
  <2>2. Added(item)
    BY <1>7, <2>1 DEF ResetIterations, Added, Item, IInv, Types, TypeOK
  <2> QED
    BY <2>1, <2>2
<1>8. CASE CountNodes
  BY <1>8 DEF Items, CountNodes, drVars, cbVars, pgVars
<1>9. CASE QueueDrained
  BY <1>9 DEF Items, QueueDrained, drVars, cbVars, pgVars
<1>10. CASE WaitWhenDone
  BY <1>10 DEF Items, WaitWhenDone, WhenDone, drVars, pgVars, fgVars
<1>11. CASE Notify
  BY <1>11 DEF Items, Notify, cbVars
<1>12. CASE StartDrain
  BY <1>12 DEF Items, StartDrain, pgVars, cbVars, fgOthers, fgVars
<1>13. CASE PopWorkItem
  <2>1. workQueue # Null
    BY <1>13, QueueThere DEF PopWorkItem, IInv
  <2>2. CASE workQueue = <<>>
    BY <1>13, <2>1, <2>2 DEF PopWorkItem, Items
  <2> QED
    BY <1>13, <2>1, <2>2
<1>14. CASE ComputeConstraintsForNode
  BY <1>14 DEF Items, ComputeConstraintsForNode, pgVars, cbVars, fgOthers, fgVars
<1>15. CASE SkipConstraint
  BY <1>15 DEF Items, SkipConstraint, pgVars, cbVars, fgOthers, fgVars
<1>16. CASE MaybeAddConstraint
  BY <1>16 DEF Items, MaybeAddConstraint, pgVars, cbVars, fgOthers, fgVars
<1>17. CASE NotifyEndOfNode
  BY <1>17 DEF Items, NotifyEndOfNode, pgVars, cbVars, fgOthers, fgVars
<1>18. CASE RunWorkItem
  BY <1>18 DEF Items, RunWorkItem, pgVars, cbVars, fgOthers, fgVars
<1>19. CASE DrainWhenDone
  BY <1>19 DEF Items, DrainWhenDone, WhenDone, pgVars, fgOthers, fgVars
<1>20. CASE InsertConstraints
  BY <1>20 DEF Items, InsertConstraints, pgVars, cbVars, fgOthers, fgVars
<1>21. CASE Solve
  BY <1>21 DEF Items, Solve, pgVars, cbVars, fgOthers, fgVars
<1>22. CASE Trim
  BY <1>22 DEF Items, Trim, pgVars, cbVars, fgOthers, fgVars
<1>23. CASE BuildMatcher
  BY <1>23 DEF Items, BuildMatcher, poolOthers, pgVars, fgVars
<1>24. CASE BeginSearch
  BY <1>24 DEF Items, BeginSearch, poolOthers, pgVars, fgVars
<1>25. CASE EndSearch
  BY <1>25 DEF Items, EndSearch, poolOthers, pgVars, fgVars
<1>26. CASE FinishNode
  BY <1>26 DEF Items, FinishNode, poolOthers, pgVars, fgVars
<1>27. CASE RunWhenDoneCallback
  BY <1>27 DEF RunWhenDoneCallback, poolOthers, Items
<1> QED
  BY <1>1, <1>2, <1>3, <1>4, <1>5, <1>6, <1>7, <1>8, <1>9, <1>10, <1>11, <1>12, <1>13,
     <1>14, <1>15, <1>16, <1>17, <1>18, <1>19, <1>20, <1>21, <1>22, <1>23, <1>24, <1>25,
     <1>26, <1>27 DEF Next, Foreground, Drain, Pool

\* Only AppendNode numbers a node, and a trajectory once finished stays so.
LEMMA ClientStep ==
  ASSUME IInv, Next
  PROVE  /\ \/ \E t \in Trajectory : AppendNode(t)
            \/ added' = added /\ (fg' = "append" => fg = "append" /\ fgNode' = fgNode)
         /\ fg' = "append" => client' = client
         /\ \A t \in Trajectory : client[t] = "finished" => client'[t] = "finished"
<1> DEFINE Goal == /\ \/ \E t \in Trajectory : AppendNode(t)
                      \/ added' = added /\ (fg' = "append" => fg = "append" /\ fgNode' = fgNode)
                   /\ fg' = "append" => client' = client
                   /\ \A t \in Trajectory : client[t] = "finished" => client'[t] = "finished"
<1> SUFFICES Goal
  OBVIOUS
<1>0. client \in [Trajectory -> {"new", "open", "finished"}]
  BY DEF IInv, Types, TypeOK
<1>1. ASSUME NEW t \in Trajectory, AppendNode(t) PROVE Goal
  BY <1>1 DEF AppendNode, drVars, cbVars, pgVars
<1>2. ASSUME NEW t \in Trajectory, AddData(t) PROVE Goal
  BY <1>2 DEF AddData, Request, AddWorkItem, Item, drVars, pgVars, cbVars, fgVars
<1>3. ASSUME NEW t \in Trajectory, AddTrajectory(t) PROVE Goal
  BY <1>3, <1>0 DEF AddTrajectory
<1>4. ASSUME NEW t \in Trajectory, FinishTrajectory(t) PROVE Goal
  BY <1>4, <1>0 DEF FinishTrajectory
<1>5. CASE AddNode
  BY <1>5 DEF AddNode, Request, AddWorkItem, Item, drVars, pgVars, cbVars, fgVars
<1>6. CASE RunFinalOptimization
  BY <1>6 DEF RunFinalOptimization, Request, AddWorkItem, Item, drVars, pgVars, cbVars, fgVars
<1>7. CASE ResetIterations
  BY <1>7 DEF ResetIterations, Request, AddWorkItem, Item, drVars, pgVars, cbVars, fgVars
<1>8. CASE CountNodes
  BY <1>8 DEF CountNodes, drVars, cbVars, pgVars
<1>9. CASE QueueDrained
  BY <1>9 DEF QueueDrained, drVars, cbVars, pgVars
<1>10. CASE WaitWhenDone
  BY <1>10 DEF WaitWhenDone, WhenDone, drVars, pgVars, fgVars
<1>11. CASE Notify
  BY <1>11 DEF Notify
<1>12. CASE StartDrain
  BY <1>12 DEF StartDrain, pgVars, cbVars, fgOthers, fgVars
<1>13. CASE PopWorkItem
  BY <1>13 DEF PopWorkItem, pgVars, cbVars, fgOthers, fgVars
<1>14. CASE ComputeConstraintsForNode
  BY <1>14 DEF ComputeConstraintsForNode, pgVars, cbVars, fgOthers, fgVars
<1>15. CASE SkipConstraint
  BY <1>15 DEF SkipConstraint, pgVars, cbVars, fgOthers, fgVars
<1>16. CASE MaybeAddConstraint
  BY <1>16 DEF MaybeAddConstraint, pgVars, cbVars, fgOthers, fgVars
<1>17. CASE NotifyEndOfNode
  BY <1>17 DEF NotifyEndOfNode, pgVars, cbVars, fgOthers, fgVars
<1>18. CASE RunWorkItem
  BY <1>18 DEF RunWorkItem, pgVars, cbVars, fgOthers, fgVars
<1>19. CASE DrainWhenDone
  BY <1>19 DEF DrainWhenDone, WhenDone, pgVars, fgOthers, fgVars
<1>20. CASE InsertConstraints
  BY <1>20 DEF InsertConstraints, pgVars, cbVars, fgOthers, fgVars
<1>21. CASE Solve
  BY <1>21 DEF Solve, pgVars, cbVars, fgOthers, fgVars
<1>22. CASE Trim
  BY <1>22 DEF Trim, pgVars, cbVars, fgOthers, fgVars
<1>23. CASE BuildMatcher
  BY <1>23 DEF BuildMatcher, poolOthers, pgVars, fgVars
<1>24. CASE BeginSearch
  BY <1>24 DEF BeginSearch, poolOthers, pgVars, fgVars
<1>25. CASE EndSearch
  BY <1>25 DEF EndSearch, poolOthers, pgVars, fgVars
<1>26. CASE FinishNode
  BY <1>26 DEF FinishNode, poolOthers, pgVars, fgVars
<1>27. CASE RunWhenDoneCallback
  BY <1>27 DEF RunWhenDoneCallback, poolOthers, pgVars, fgVars
<1> QED
  BY <1>1, <1>2, <1>3, <1>4, <1>5, <1>6, <1>7, <1>8, <1>9, <1>10, <1>11, <1>12, <1>13,
     <1>14, <1>15, <1>16, <1>17, <1>18, <1>19, <1>20, <1>21, <1>22, <1>23, <1>24, <1>25,
     <1>26, <1>27 DEF Next, Foreground, Drain, Pool

-----------------------------------------------------------------------------
(* The nodes enter in order                                                *)

\* Order says the same with the items' fields spelled out.
LEMMA Fields ==
  ASSUME IInv
  PROVE  /\ added \in [Trajectory -> Nat]
         /\ \A n \in Id : n[1] \in Trajectory /\ n[2] \in Nat /\ n = <<n[1], n[2]>>
         /\ \A n \in Numbered : n \in Id /\ n[2] <= added[n[1]]
         /\ \A i \in DOMAIN Items : Items[i] \in WorkItem
         /\ \A i \in DOMAIN Items : Items[i].kind = "node" => Items[i].arg \in Pending
         /\ pc = "item" /\ cur.kind = "node" => cur.arg \in Pending
         /\ fg = "append" => fgNode \in Pending
<1>1. Items \in Seq(WorkItem)
  BY ItemsType DEF IInv
<1>2. \A i \in DOMAIN Items : Items[i] \in WorkItem
  BY <1>1
<1> QED
  BY <1>2 DEF IInv, Types, Id, Numbered, Pending, Queued, Kind

\* The queue's part of Order.
Sorted == \A i, j \in DOMAIN Items :
  i < j /\ Kind(i) = "node" /\ Kind(j) = "node" /\ Items[i].arg[1] = Items[j].arg[1]
    => Items[i].arg[2] < Items[j].arg[2]

LEMMA SortedStep ==
  ASSUME IInv, Order, Next
  PROVE  Sorted'
<1>0. Sorted /\ Types /\ NodesOnce
  BY DEF Order, Sorted, IInv
<1>1. CASE UNCHANGED Items
  BY <1>0, <1>1 DEF Sorted, Kind
<1>2. ASSUME NEW item \in WorkItem, Request(item), Added(item)
      PROVE  Sorted'
  <2>1. AddWorkItem(item)
    BY <1>2 DEF Request
  <2>2. /\ Len(Items) \in Nat /\ DOMAIN Items = 1..Len(Items)
        /\ DOMAIN Items' = 1..(Len(Items) + 1)
        /\ \A i \in DOMAIN Items : Items'[i] = Items[i]
        /\ Items'[Len(Items) + 1] = item
    BY <1>0, <2>1, ItemsAppended
  <2>3. ASSUME item.kind = "node", NEW i \in DOMAIN Items, Items[i].kind = "node",
               Items[i].arg[1] = item.arg[1]
        PROVE  Items[i].arg[2] < item.arg[2]
    <3>1. fg = "append" /\ item.arg = fgNode
      BY <1>2, <2>3 DEF Added, AddNode
    <3>2. /\ Items[i].arg \in Numbered /\ fgNode \in Numbered
          /\ Items[i].arg # fgNode
      BY <2>3, <3>1, NumberedNodes DEF IInv, NodesOnce
    <3>3. fgNode[2] = added[fgNode[1]]
      BY <3>1 DEF Order
    <3> DEFINE a == Items[i].arg
    <3>4. /\ a \in Id /\ a[2] \in Nat /\ a[2] <= added[a[1]] /\ a = <<a[1], a[2]>>
          /\ fgNode[2] \in Nat /\ fgNode = <<fgNode[1], fgNode[2]>>
      BY <3>2, Fields
    <3>5. a[1] = fgNode[1] /\ a # fgNode
      BY <2>3, <3>1, <3>2
    <3> HIDE DEF a
    <3>6. a[2] < fgNode[2]
      BY <3>3, <3>4, <3>5
    <3> QED
      BY <3>1, <3>6 DEF a
  <2>4. ASSUME NEW i \in DOMAIN Items', NEW j \in DOMAIN Items', i < j
        PROVE  /\ i \in DOMAIN Items /\ Items'[i] = Items[i]
               /\ (j \in DOMAIN Items /\ Items'[j] = Items[j]) \/ Items'[j] = item
    BY <2>2, <2>4
  <2> QED
    BY <1>0, <2>3, <2>4 DEF Sorted, Kind
<1>3. CASE PopWorkItem /\ workQueue # <<>> /\ workQueue # Null
  <2>1. /\ \A i \in DOMAIN Items' : i + 1 \in DOMAIN Items /\ Items'[i] = Items[i + 1]
        /\ \A i, j \in DOMAIN Items' : (i + 1 < j + 1) <=> (i < j)
    BY <1>0, <1>3, ItemsShifted
  <2> QED
    BY <1>0, <2>1 DEF Sorted, Kind
<1> QED
  BY <1>1, <1>2, <1>3, ItemsStep

\* What is taken from the queue comes before the rest of it.
LEMMA TakenFirst ==
  ASSUME IInv, Order, PopWorkItem, workQueue # <<>>, workQueue # Null,
         cur'.kind = "node", NEW n \in Pending \ {cur'.arg}, n[1] = cur'.arg[1]
  PROVE  cur'.arg[2] < n[2]
<1>0. Sorted /\ Types /\ NodesOnce
  BY DEF Order, Sorted, IInv
<1>1. /\ 1 \in DOMAIN Items /\ cur' = Items[1]
      /\ \A j \in DOMAIN Items : j = 1 \/ 1 < j
  <2>1. DOMAIN Items = 1..Len(Items)
    BY <1>0, ItemsType
  <2> QED
    BY <1>0, <2>1, ItemsShifted
<1>2. pc = "drain"
  BY DEF PopWorkItem
<1>3. CASE n \in Queued
  <2>1. PICK j \in DOMAIN Items : Kind(j) = "node" /\ n = Items[j].arg
    BY <1>3 DEF Queued
  <2>2. 1 < j
    BY <1>1, <2>1
  <2> QED
    BY <1>0, <1>1, <2>1, <2>2 DEF Sorted, Kind
<1>4. CASE fg = "append" /\ n = fgNode
  <2> DEFINE a == cur'.arg
  <2>1. a \in Pending /\ a \in Numbered /\ n \in Numbered
    BY <1>1, Fields, NumberedNodes
  <2>2. /\ a[2] \in Nat /\ a[2] <= added[a[1]] /\ a = <<a[1], a[2]>>
        /\ n[2] \in Nat /\ n = <<n[1], n[2]>>
    BY <2>1, Fields
  <2>3. n[2] = added[n[1]]
    BY <1>4 DEF Order
  <2>4. a[1] = n[1] /\ a # n
    OBVIOUS
  <2> HIDE DEF a
  <2>5. a[2] < n[2]
    BY <2>2, <2>3, <2>4
  <2> QED
    BY <2>5 DEF a
<1> QED
  BY <1>2, <1>3, <1>4 DEF Pending

LEMMA OrderStep ==
  ASSUME IInv, Order, Next
  PROVE  Order'
<1>1. Sorted'
  BY SortedStep
<1>2. CASE \E t \in Trajectory : AppendNode(t)
  <2>1. PICK t \in Trajectory : AppendNode(t)
    BY <1>2
  <2> DEFINE m == <<t, added[t] + 1>>
  <2>2. /\ fgNode' = m /\ m \in Id /\ added[t] \in Nat
        /\ Pending' = Pending \cup {m} /\ Numbered' = Numbered \cup {m} /\ Past' = Past
    BY <2>1, PendingAppended
  <2>3. m[1] = t /\ m[2] = added[t] + 1
    OBVIOUS
  <2>4. UNCHANGED <<pc, cur>> /\ fg' = "append"
        /\ added' = [added EXCEPT ![t] = added[t] + 1]
    BY <2>1 DEF AppendNode, drVars
  <2> HIDE DEF m
  <2>5. added'[t] = m[2]
    BY <2>3, <2>4, Fields
  <2>6. \A k \in Numbered : k[1] = m[1] => k[2] < m[2]
    <3>1. TAKE k \in Numbered
    <3>2. k[2] \in Nat /\ k[2] <= added[k[1]]
      BY Fields
    <3> QED
      BY <2>2, <2>3, <3>2
  <2>7. Past \subseteq Numbered /\ (pc = "item" /\ cur.kind = "node" => cur.arg \in Numbered)
    BY Fields, NumberedNodes DEF Past
  <2>8. pc = "item" /\ cur.kind = "node" =>
          \A n \in Pending' \ {cur.arg} : n[1] = cur.arg[1] => cur.arg[2] < n[2]
    BY <2>2, <2>6, <2>7 DEF Order
  <2>9. \A k \in Past', n \in Pending' : k[1] = n[1] => k[2] < n[2]
    BY <2>2, <2>6, <2>7 DEF Order
  <2> QED
    BY <1>1, <2>2, <2>3, <2>4, <2>5, <2>8, <2>9 DEF Order, Sorted
<1>3. CASE ComputeConstraintsForNode
  <2>1. /\ Pending' = Pending \ {cur.arg} /\ Past' = Past \cup {cur.arg}
        /\ pc = "item" /\ cur.kind = "node" /\ pc' = "search"
        /\ UNCHANGED <<fg, fgNode, added>>
    BY <1>3, PendingEntered DEF ComputeConstraintsForNode, fgOthers, fgVars
  <2>2. \A k \in Past', n \in Pending' : k[1] = n[1] => k[2] < n[2]
    BY <2>1 DEF Order
  <2> QED
    BY <1>1, <2>1, <2>2 DEF Order, Sorted
<1>4. CASE ~ComputeConstraintsForNode /\ ~\E t \in Trajectory : AppendNode(t)
  <2>1. Pending' = Pending /\ Numbered' = Numbered
    BY <1>4, PendingKept
  <2>2. Past' = Past
    BY <2>1 DEF Past
  <2>3. added' = added /\ (fg' = "append" => fg = "append" /\ fgNode' = fgNode)
    BY <1>4, ClientStep
  <2>4. pc' = "item" /\ cur'.kind = "node" =>
          \A n \in Pending \ {cur'.arg} : n[1] = cur'.arg[1] => cur'.arg[2] < n[2]
    <3>1. CASE pc' = "item" => pc = "item" /\ cur' = cur
      BY <3>1 DEF Order
    <3>2. CASE PopWorkItem /\ workQueue # <<>> /\ workQueue # Null
      BY <3>2, TakenFirst
    <3>3. CASE UNCHANGED <<pc, cur>>
      BY <3>3 DEF Order
    <3> QED
      BY <3>1, <3>2, <3>3, ItemsStep DEF Request
  <2> QED
    BY <1>1, <2>1, <2>2, <2>3, <2>4 DEF Order, Sorted
<1> QED
  BY <1>2, <1>3, <1>4

\* Nothing is added for a trajectory the client has finished.
LEMMA NotOf ==
  ASSUME IInv, Ends, NEW item \in WorkItem, Added(item), NEW t, client[t] = "finished"
  PROVE  ~Of(item, t)
BY DEF Added, AddNode, Ends, Of

\* The queue's part of Ends.
Closed == \A i \in DOMAIN Items : Kind(i) = "finish" =>
            /\ client[Items[i].arg] = "finished"
            /\ \A j \in DOMAIN Items : i < j => ~Of(Items[j], Items[i].arg)

LEMMA ClosedStep ==
  ASSUME IInv, Ends, Next
  PROVE  Closed'
<1>0. Closed /\ Types
  BY DEF Ends, Closed, IInv
<1>1. \A i \in DOMAIN Items : Kind(i) = "finish" => client'[Items[i].arg] = "finished"
  <2>1. ASSUME NEW i \in DOMAIN Items, Kind(i) = "finish" PROVE client'[Items[i].arg] = "finished"
    <3>1. Items[i] \in WorkItem /\ Items[i].kind = "finish"
      BY <2>1, Fields DEF Kind
    <3>2. Items[i].arg \in Trajectory
      BY <3>1, ItemTypes
    <3> QED
      BY <1>0, <2>1, <3>2, ClientStep DEF Closed
  <2> QED
    BY <2>1
<1>2. CASE UNCHANGED Items
  BY <1>0, <1>1, <1>2 DEF Closed, Kind, Of
<1>3. ASSUME NEW item \in WorkItem, Request(item), Added(item)
      PROVE  Closed'
  <2>1. AddWorkItem(item)
    BY <1>3 DEF Request
  <2>2. /\ Len(Items) \in Nat /\ DOMAIN Items = 1..Len(Items)
        /\ DOMAIN Items' = 1..(Len(Items) + 1)
        /\ \A i \in DOMAIN Items : Items'[i] = Items[i]
        /\ Items'[Len(Items) + 1] = item
    BY <1>0, <2>1, ItemsAppended
  <2>3. ASSUME NEW i \in DOMAIN Items', Items'[i].kind = "finish"
        PROVE  client'[Items'[i].arg] = "finished"
    <3>1. CASE i \in DOMAIN Items
      BY <1>1, <2>2, <2>3, <3>1 DEF Kind
    <3>2. CASE i \notin DOMAIN Items
      <4>1. Items'[i] = item
        BY <2>2, <3>2
      <4> QED
        BY <1>3, <2>3, <4>1 DEF Added
    <3> QED
      BY <3>1, <3>2
  <2>4. ASSUME NEW i \in DOMAIN Items', NEW j \in DOMAIN Items', i < j,
               Items'[i].kind = "finish"
        PROVE  ~Of(Items'[j], Items'[i].arg)
    <3>1. i \in DOMAIN Items /\ Items'[i] = Items[i]
      BY <2>2, <2>4
    <3>2. client[Items[i].arg] = "finished"
      BY <1>0, <2>4, <3>1 DEF Closed, Kind
    <3>3. CASE j \in DOMAIN Items
      BY <1>0, <2>2, <2>4, <3>1, <3>3 DEF Closed, Kind
    <3>4. CASE j \notin DOMAIN Items
      <4>1. Items'[j] = item
        BY <2>2, <3>4
      <4> QED
        BY <1>3, <3>1, <3>2, <4>1, NotOf
    <3> QED
      BY <3>3, <3>4
  <2> QED
    BY <2>3, <2>4 DEF Closed, Kind, Of
<1>4. CASE PopWorkItem /\ workQueue # <<>> /\ workQueue # Null
  <2>1. /\ \A i \in DOMAIN Items' : i + 1 \in DOMAIN Items /\ Items'[i] = Items[i + 1]
        /\ \A i, j \in DOMAIN Items' : (i + 1 < j + 1) <=> (i < j)
    BY <1>0, <1>4, ItemsShifted
  <2> QED
    BY <1>0, <1>1, <2>1 DEF Closed, Kind, Of
<1> QED
  BY <1>2, <1>3, <1>4, ItemsStep

\* Nothing is added behind the end of a trajectory.
LEMMA NothingBehind ==
  ASSUME IInv, Ends, Next, NEW t \in Trajectory, client[t] = "finished",
         \A j \in DOMAIN Items : ~Of(Items[j], t)
  PROVE  /\ \A j \in DOMAIN Items' : ~Of(Items'[j], t)
         /\ pc' = "item" => (pc = "item" /\ cur' = cur) \/ ~Of(cur', t)
<1>0. Types
  BY DEF IInv
<1>1. CASE UNCHANGED Items /\ (pc' = "item" => pc = "item" /\ cur' = cur)
  BY <1>1
<1>2. ASSUME NEW item \in WorkItem, Request(item), Added(item)
      PROVE  (\A j \in DOMAIN Items' : ~Of(Items'[j], t)) /\ UNCHANGED <<pc, cur>>
  <2>1. AddWorkItem(item) /\ UNCHANGED <<pc, cur>>
    BY <1>2 DEF Request
  <2>2. /\ Len(Items) \in Nat /\ DOMAIN Items = 1..Len(Items)
        /\ DOMAIN Items' = 1..(Len(Items) + 1)
        /\ \A i \in DOMAIN Items : Items'[i] = Items[i]
        /\ Items'[Len(Items) + 1] = item
    BY <1>0, <2>1, ItemsAppended
  <2>3. ~Of(item, t)
    BY <1>2, NotOf
  <2>4. \A j \in DOMAIN Items' : j \in DOMAIN Items \/ j = Len(Items) + 1
    BY <2>2
  <2> QED
    BY <2>1, <2>2, <2>3, <2>4
<1>3. CASE PopWorkItem /\ workQueue # <<>> /\ workQueue # Null
  <2>1. /\ 1 \in DOMAIN Items /\ cur' = Items[1]
        /\ \A i \in DOMAIN Items' : i + 1 \in DOMAIN Items /\ Items'[i] = Items[i + 1]
    BY <1>0, <1>3, ItemsShifted
  <2> QED
    BY <2>1
<1> QED
  BY <1>1, <1>2, <1>3, ItemsStep

\* A trajectory ends by its work item.
LEMMA EndedStep ==
  ASSUME IInv, Next, NEW u \in Trajectory
  PROVE  /\ Ended(u) => Ended(u)'
         /\ Ended(u)' => Ended(u) \/ (RunWorkItem /\ cur.kind = "finish" /\ u = cur.arg)
<1> DEFINE Goal == /\ Ended(u) => Ended(u)'
                   /\ Ended(u)' => Ended(u) \/ (RunWorkItem /\ cur.kind = "finish" /\ u = cur.arg)
<1> SUFFICES Goal
  OBVIOUS
<1>0. trajectory \in [Trajectory -> {"none", "active", "finished", "deleted"}]
  BY DEF IInv, Types, TypeOK
<1>1. ASSUME NEW t \in Trajectory, AppendNode(t) PROVE Goal
  BY <1>1, <1>0 DEF AppendNode, Ended
<1>2. ASSUME NEW t \in Trajectory, AddData(t) PROVE Goal
  BY <1>2 DEF Ended, AddData, Request, AddWorkItem, Item, drVars, pgVars, cbVars, fgVars
<1>3. ASSUME NEW t \in Trajectory, AddTrajectory(t) PROVE Goal
  BY <1>3, <1>0 DEF AddTrajectory, Ended, Request, pgVars
<1>4. ASSUME NEW t \in Trajectory, FinishTrajectory(t) PROVE Goal
  BY <1>4 DEF Ended, FinishTrajectory, Request, AddWorkItem, Item, drVars, pgVars, cbVars,
     fgVars
<1>5. CASE AddNode
  BY <1>5 DEF Ended, AddNode, Request, AddWorkItem, Item, drVars, pgVars, cbVars, fgVars
<1>6. CASE RunFinalOptimization
  BY <1>6 DEF Ended, RunFinalOptimization, Request, AddWorkItem, Item, drVars, pgVars,
     cbVars, fgVars
<1>7. CASE ResetIterations
  BY <1>7 DEF Ended, ResetIterations, Request, AddWorkItem, Item, drVars, pgVars, cbVars, fgVars
<1>8. CASE CountNodes
  BY <1>8 DEF Ended, CountNodes, drVars, cbVars, pgVars
<1>9. CASE QueueDrained
  BY <1>9 DEF Ended, QueueDrained, drVars, cbVars, pgVars
<1>10. CASE WaitWhenDone
  BY <1>10 DEF Ended, WaitWhenDone, WhenDone, drVars, pgVars, fgVars
<1>11. CASE Notify
  BY <1>11 DEF Ended, Notify, cbVars
<1>12. CASE StartDrain
  BY <1>12 DEF Ended, StartDrain, pgVars, cbVars, fgOthers, fgVars
<1>13. CASE PopWorkItem
  BY <1>13 DEF Ended, PopWorkItem, pgVars, cbVars, fgOthers, fgVars
<1>14. CASE ComputeConstraintsForNode
  BY <1>14 DEF Ended, ComputeConstraintsForNode, pgVars, cbVars, fgOthers, fgVars
<1>15. CASE SkipConstraint
  BY <1>15 DEF Ended, SkipConstraint, pgVars, cbVars, fgOthers, fgVars
<1>16. CASE MaybeAddConstraint
  BY <1>16 DEF Ended, MaybeAddConstraint, pgVars, cbVars, fgOthers, fgVars
<1>17. CASE NotifyEndOfNode
  BY <1>17 DEF Ended, NotifyEndOfNode, pgVars, cbVars, fgOthers, fgVars
<1>18. CASE RunWorkItem
  BY <1>18, <1>0 DEF RunWorkItem, Ended
<1>19. CASE DrainWhenDone
  BY <1>19 DEF Ended, DrainWhenDone, WhenDone, pgVars, fgOthers, fgVars
<1>20. CASE InsertConstraints
  BY <1>20 DEF Ended, InsertConstraints, pgVars, cbVars, fgOthers, fgVars
<1>21. CASE Solve
  BY <1>21 DEF Ended, Solve, pgVars, cbVars, fgOthers, fgVars
<1>22. CASE Trim
  BY <1>22, <1>0 DEF Trim, Ended
<1>23. CASE BuildMatcher
  BY <1>23 DEF Ended, BuildMatcher, poolOthers, pgVars, fgVars
<1>24. CASE BeginSearch
  BY <1>24 DEF Ended, BeginSearch, poolOthers, pgVars, fgVars
<1>25. CASE EndSearch
  BY <1>25 DEF Ended, EndSearch, poolOthers, pgVars, fgVars
<1>26. CASE FinishNode
  BY <1>26 DEF Ended, FinishNode, poolOthers, pgVars, fgVars
<1>27. CASE RunWhenDoneCallback
  BY <1>27 DEF Ended, RunWhenDoneCallback, poolOthers, pgVars, fgVars
<1> QED
  BY <1>1, <1>2, <1>3, <1>4, <1>5, <1>6, <1>7, <1>8, <1>9, <1>10, <1>11, <1>12, <1>13,
     <1>14, <1>15, <1>16, <1>17, <1>18, <1>19, <1>20, <1>21, <1>22, <1>23, <1>24, <1>25,
     <1>26, <1>27 DEF Next, Foreground, Drain, Pool

LEMMA EndsStep ==
  ASSUME IInv, Ends, Next
  PROVE  Ends'
<1>1. Closed'
  BY ClosedStep
<1>2. pc' = "item" /\ cur'.kind = "finish" =>
        client'[cur'.arg] = "finished" /\ \A j \in DOMAIN Items' : ~Of(Items'[j], cur'.arg)
  <2>1. CASE pc = "item" /\ cur' = cur /\ cur.kind = "finish"
    <3>1. cur.arg \in Trajectory /\ client[cur.arg] = "finished"
          /\ \A j \in DOMAIN Items : ~Of(Items[j], cur.arg)
      BY <2>1, ItemTypes DEF Ends, IInv, Types
    <3> QED
      BY <2>1, <3>1, NothingBehind, ClientStep
  <2>2. CASE PopWorkItem /\ workQueue # <<>> /\ workQueue # Null /\ cur'.kind = "finish"
    <3>1. /\ 1 \in DOMAIN Items /\ cur' = Items[1]
          /\ \A i \in DOMAIN Items' : i + 1 \in DOMAIN Items /\ 1 < i + 1 /\ Items'[i] = Items[i + 1]
      BY <2>2, ItemsShifted DEF IInv
    <3>2. client[cur'.arg] = "finished" /\ \A j \in DOMAIN Items : 1 < j => ~Of(Items[j], cur'.arg)
      BY <2>2, <3>1 DEF Ends, Kind
    <3>3. cur'.arg \in Trajectory
      BY <2>2, <3>1, Fields, ItemTypes
    <3> QED
      BY <3>1, <3>2, <3>3, ClientStep
  <2>3. pc' = "item" => (pc = "item" /\ cur' = cur)
                        \/ (PopWorkItem /\ workQueue # <<>> /\ workQueue # Null)
    BY ItemsStep DEF Request
  <2> QED
    BY <2>1, <2>2, <2>3
<1>3. fg' = "append" => client'[fgNode'[1]] = "open"
  <2>1. CASE \E t \in Trajectory : AppendNode(t)
    BY <2>1 DEF AppendNode
  <2>2. CASE ~\E t \in Trajectory : AppendNode(t)
    BY <2>2, ClientStep DEF Ends
  <2> QED
    BY <2>1, <2>2
<1>4. ASSUME NEW t \in Trajectory, Ended(t)'
      PROVE  /\ client'[t] = "finished"
             /\ \A j \in DOMAIN Items' : ~Of(Items'[j], t)
             /\ pc' = "item" => ~Of(cur', t)
  <2>1. CASE Ended(t)
    <3>1. /\ client[t] = "finished" /\ \A j \in DOMAIN Items : ~Of(Items[j], t)
          /\ pc = "item" => ~Of(cur, t)
      BY <2>1 DEF Ends
    <3> QED
      BY <3>1, NothingBehind, ClientStep
  <2>2. CASE RunWorkItem /\ cur.kind = "finish" /\ t = cur.arg
    <3>1. client[t] = "finished" /\ \A j \in DOMAIN Items : ~Of(Items[j], t)
      BY <2>2 DEF Ends, RunWorkItem
    <3>2. pc' # "item"
      BY <2>2 DEF RunWorkItem
    <3> QED
      BY <3>1, <3>2, NothingBehind, ClientStep
  <2> QED
    BY <1>4, <2>1, <2>2, EndedStep
<1> QED
  BY <1>1, <1>2, <1>3, <1>4 DEF Ends, Closed, Ended, Of

-----------------------------------------------------------------------------
(* Submaps                                                                 *)

LEMMA Times ==
  ASSUME NEW a \in Int, NEW b \in Int, a < b
  PROVE  a * RangeData < b * RangeData
<1>1. RangeData \in Nat /\ RangeData > 0
  BY PoseGraphAssumption
<1>2. PICK d \in Nat : b = a + d /\ d > 0
  <2>1. b - a \in Nat /\ b = a + (b - a) /\ (b - a) > 0
    OBVIOUS
  <2> QED
    BY <2>1
<1>3. (a + d) * RangeData = (a * RangeData) + (d * RangeData)
  BY <1>1
<1>4. d * RangeData > 0 /\ a * RangeData \in Int /\ d * RangeData \in Int
  BY <1>1, <1>2
<1> QED
  BY <1>2, <1>3, <1>4

\* The last node of a submap is in it.
LEMMA LastInside ==
  ASSUME NEW s \in Id, Last(s) \in Id
  PROVE  s \in SubmapsOf(Last(s))
<1>1. s[2] \in Int /\ RangeData \in Int
  BY PoseGraphAssumption DEF Id
<1>2. (s[2] - 1) * RangeData < (s[2] + 1) * RangeData
  <2>1. s[2] - 1 \in Int /\ s[2] + 1 \in Int /\ s[2] - 1 < s[2] + 1
    BY <1>1
  <2> QED
    BY <2>1, Times
<1>3. /\ (s[2] - 1) * RangeData \in Int /\ (s[2] + 1) * RangeData \in Int
  BY <1>1
<1>4. Last(s)[1] = s[1] /\ Last(s)[2] = (s[2] + 1) * RangeData
  BY DEF Last
<1>5. Last(s) \in NodesOf(s)
  BY <1>2, <1>3, <1>4 DEF NodesOf
<1> QED
  BY <1>5 DEF SubmapsOf

\* Whatever has a lower number than a node that has entered, has entered.
LEMMA LowerEntered ==
  ASSUME IInv, Order, NEW m \in Past, NEW n \in Id, n[1] = m[1], n[2] <= m[2]
  PROVE  n \in Past
<1>1. m[2] \in Nat /\ n[2] \in Nat /\ m[2] <= added[m[1]] /\ added[m[1]] \in Nat
  BY Fields, NumberedNodes DEF Past
<1>2. n \in Numbered
  BY <1>1 DEF Numbered
<1>3. n \notin Pending
  BY <1>1 DEF Order
<1> QED
  BY <1>2, <1>3 DEF Past

LEMMA NodesOfFields ==
  ASSUME NEW s \in Id, NEW n \in NodesOf(s)
  PROVE  /\ n \in Id /\ n[1] = s[1] /\ n[2] \in Nat /\ Last(s)[2] \in Int
         /\ n[2] > (s[2] - 1) * RangeData /\ n[2] <= Last(s)[2]
         /\ Last(s)[1] = s[1]
BY PoseGraphAssumption DEF NodesOf, Last, Id

LEMMA IdFinite == IsFiniteSet(Id)
<1>1. IsFiniteSet(1..MaxNodes)
  BY FS_Interval, PoseGraphAssumption
<1> QED
  BY <1>1, FS_Product, PoseGraphAssumption DEF Id

\* A submap that the trimmer takes from an unfinished trajectory is full,
\* because it keeps at least two newer ones.
LEMMA SurplusFull ==
  ASSUME IInv, Order, NEW t \in trimmers, trajectory[t] # "finished", NEW s \in Surplus(t)
  PROVE  NodesOf(s) \subseteq Past
<1> DEFINE mine == {q \in Id : q[1] = t /\ submaps[q] \in {"open", "finished"}
                                        /\ NodesOf(q) \cap problem # {}}
           newer == {r \in mine : r[2] >= s[2]}
           two == {<<t, s[2]>>, <<t, s[2] + 1>>}
<1>1. s \in mine /\ Cardinality(newer) > Keep
  BY DEF Surplus
<1>2. s \in Id /\ s[1] = t /\ s[2] \in Nat
  BY <1>1 DEF Id
<1>3. PICK r \in newer : r[2] > s[2] + 1
  <2>1. SUFFICES ASSUME \A r \in newer : ~(r[2] > s[2] + 1) PROVE FALSE
    OBVIOUS
  <2>2. newer \subseteq two
    <3>1. ASSUME NEW r \in newer PROVE r \in two
      <4>1. r \in Id /\ r[1] = t /\ r[2] >= s[2] /\ ~(r[2] > s[2] + 1)
        BY <2>1, <3>1
      <4>2. r = <<t, r[2]>> /\ r[2] \in Nat
        BY <4>1 DEF Id
      <4>3. r[2] = s[2] \/ r[2] = s[2] + 1
        BY <1>2, <4>1, <4>2
      <4> QED
        BY <4>2, <4>3
    <3> QED
      BY <3>1
  <2>3. IsFiniteSet(two) /\ Cardinality(two) <= 2 /\ Cardinality(two) \in Nat
    <3> DEFINE a == <<t, s[2]>>
               b == <<t, s[2] + 1>>
    <3>1. two = {a} \cup {b}
      OBVIOUS
    <3> HIDE DEF a, b, two
    <3>2. IsFiniteSet({a}) /\ Cardinality({a}) = 1
      BY FS_Singleton
    <3>3. IsFiniteSet(two) /\ (Cardinality(two) = 1 \/ Cardinality(two) = 1 + 1)
      BY <3>1, <3>2, FS_AddElement
    <3> QED
      BY <3>3
  <2>4. Cardinality(newer) <= Cardinality(two) /\ Cardinality(newer) \in Nat
    <3> HIDE DEF newer, two
    <3> QED
      BY <2>2, <2>3, FS_Subset, FS_CardinalityType
  <2> QED
    BY <1>1, <2>3, <2>4, PoseGraphAssumption
<1>4. r \in Id /\ r[1] = t /\ r[2] \in Nat /\ NodesOf(r) \cap problem # {}
  BY <1>3 DEF Id
<1>5. PICK m \in NodesOf(r) : m \in problem
  BY <1>4
<1>6. m \in Past /\ m[1] = t /\ m[2] \in Nat /\ m[2] > (r[2] - 1) * RangeData
  BY <1>4, <1>5, NodesOfFields, NumberedNodes
<1>7. (s[2] + 1) * RangeData < (r[2] - 1) * RangeData \/ s[2] + 1 = r[2] - 1
  <2>1. s[2] + 1 \in Int /\ r[2] - 1 \in Int /\ s[2] + 1 <= r[2] - 1
    BY <1>2, <1>3, <1>4
  <2>2. CASE s[2] + 1 < r[2] - 1
    BY <2>1, <2>2, Times
  <2> QED
    BY <2>1, <2>2
<1>8. Last(s)[2] = (s[2] + 1) * RangeData /\ Last(s)[2] \in Int /\ (r[2] - 1) * RangeData \in Int
  BY <1>2, <1>4, PoseGraphAssumption DEF Last
<1>9. Last(s)[2] < m[2]
  BY <1>6, <1>7, <1>8
<1>10. ASSUME NEW n \in NodesOf(s) PROVE n \in Past
  <2>1. n \in Id /\ n[1] = t /\ n[2] \in Nat /\ n[2] <= Last(s)[2]
    BY <1>2, NodesOfFields
  <2>2. n[2] <= m[2]
    BY <1>6, <1>8, <1>9, <2>1
  <2> QED
    BY <1>6, <2>1, <2>2, LowerEntered
<1> QED
  BY <1>10

\* Who changes the submaps, and the pairs looked at.
LEMMA SubmapsKept ==
  ASSUME Next, ~ComputeConstraintsForNode, ~\E t \in Trajectory : AppendNode(t), ~RunWorkItem,
         ~Trim
  PROVE  UNCHANGED <<submaps, problem>>
<1> DEFINE Goal == UNCHANGED <<submaps, problem>>
<1> SUFFICES Goal
  OBVIOUS
<1>1. ASSUME NEW t \in Trajectory, AppendNode(t) PROVE Goal
  BY <1>1
<1>2. ASSUME NEW t \in Trajectory, AddData(t) PROVE Goal
  BY <1>2 DEF AddData, Request, AddWorkItem, Item, drVars, pgVars, cbVars, fgVars
<1>3. ASSUME NEW t \in Trajectory, AddTrajectory(t) PROVE Goal
  BY <1>3 DEF AddTrajectory, Request, AddWorkItem, Item, drVars, pgVars, cbVars, fgVars
<1>4. ASSUME NEW t \in Trajectory, FinishTrajectory(t) PROVE Goal
  BY <1>4 DEF FinishTrajectory, Request, AddWorkItem, Item, drVars, pgVars, cbVars, fgVars
<1>5. CASE AddNode
  BY <1>5 DEF AddNode, Request, AddWorkItem, Item, drVars, pgVars, cbVars, fgVars
<1>6. CASE RunFinalOptimization
  BY <1>6 DEF RunFinalOptimization, Request, AddWorkItem, Item, drVars, pgVars, cbVars, fgVars
<1>7. CASE ResetIterations
  BY <1>7 DEF ResetIterations, Request, AddWorkItem, Item, drVars, pgVars, cbVars, fgVars
<1>8. CASE CountNodes
  BY <1>8 DEF CountNodes, drVars, cbVars, pgVars
<1>9. CASE QueueDrained
  BY <1>9 DEF QueueDrained, drVars, cbVars, pgVars
<1>10. CASE WaitWhenDone
  BY <1>10 DEF WaitWhenDone, WhenDone, drVars, pgVars, fgVars
<1>11. CASE Notify
  BY <1>11 DEF Notify, cbVars
<1>12. CASE StartDrain
  BY <1>12 DEF StartDrain, pgVars, cbVars, fgOthers, fgVars
<1>13. CASE PopWorkItem
  BY <1>13 DEF PopWorkItem, pgVars, cbVars, fgOthers, fgVars
<1>14. CASE ComputeConstraintsForNode
  BY <1>14
<1>15. CASE SkipConstraint
  BY <1>15 DEF SkipConstraint, pgVars, cbVars, fgOthers, fgVars
<1>16. CASE MaybeAddConstraint
  BY <1>16 DEF MaybeAddConstraint, pgVars, cbVars, fgOthers, fgVars
<1>17. CASE NotifyEndOfNode
  BY <1>17 DEF NotifyEndOfNode, pgVars, cbVars, fgOthers, fgVars
<1>18. CASE RunWorkItem
  BY <1>18
<1>19. CASE DrainWhenDone
  BY <1>19 DEF DrainWhenDone, WhenDone, pgVars, fgOthers, fgVars
<1>20. CASE InsertConstraints
  BY <1>20 DEF InsertConstraints, pgVars, cbVars, fgOthers, fgVars
<1>21. CASE Solve
  BY <1>21 DEF Solve, pgVars, cbVars, fgOthers, fgVars
<1>22. CASE Trim
  BY <1>22
<1>23. CASE BuildMatcher
  BY <1>23 DEF BuildMatcher, poolOthers, pgVars, fgVars
<1>24. CASE BeginSearch
  BY <1>24 DEF BeginSearch, poolOthers, pgVars, fgVars
<1>25. CASE EndSearch
  BY <1>25 DEF EndSearch, poolOthers, pgVars, fgVars
<1>26. CASE FinishNode
  BY <1>26 DEF FinishNode, poolOthers, pgVars, fgVars
<1>27. CASE RunWhenDoneCallback
  BY <1>27 DEF RunWhenDoneCallback, poolOthers, pgVars, fgVars
<1> QED
  BY <1>1, <1>2, <1>3, <1>4, <1>5, <1>6, <1>7, <1>8, <1>9, <1>10, <1>11, <1>12, <1>13,
     <1>14, <1>15, <1>16, <1>17, <1>18, <1>19, <1>20, <1>21, <1>22, <1>23, <1>24, <1>25,
     <1>26, <1>27 DEF Next, Foreground, Drain, Pool

LEMMA LookedKept ==
  ASSUME IInv, Next, ~ComputeConstraintsForNode, ~SkipConstraint, ~MaybeAddConstraint
  PROVE  UNCHANGED <<looked, todo>>
<1> DEFINE Goal == UNCHANGED <<looked, todo>>
<1> SUFFICES Goal
  OBVIOUS
<1>1. ASSUME NEW t \in Trajectory, AppendNode(t) PROVE Goal
  BY <1>1 DEF AppendNode, drVars, cbVars, pgVars
<1>2. ASSUME NEW t \in Trajectory, AddData(t) PROVE Goal
  BY <1>2 DEF AddData, Request, AddWorkItem, Item, drVars, pgVars, cbVars, fgVars
<1>3. ASSUME NEW t \in Trajectory, AddTrajectory(t) PROVE Goal
  BY <1>3 DEF AddTrajectory, Request, AddWorkItem, Item, drVars, pgVars, cbVars, fgVars
<1>4. ASSUME NEW t \in Trajectory, FinishTrajectory(t) PROVE Goal
  BY <1>4 DEF FinishTrajectory, Request, AddWorkItem, Item, drVars, pgVars, cbVars, fgVars
<1>5. CASE AddNode
  BY <1>5 DEF AddNode, Request, AddWorkItem, Item, drVars, pgVars, cbVars, fgVars
<1>6. CASE RunFinalOptimization
  BY <1>6 DEF RunFinalOptimization, Request, AddWorkItem, Item, drVars, pgVars, cbVars, fgVars
<1>7. CASE ResetIterations
  BY <1>7 DEF ResetIterations, Request, AddWorkItem, Item, drVars, pgVars, cbVars, fgVars
<1>8. CASE CountNodes
  BY <1>8 DEF CountNodes, drVars, cbVars, pgVars
<1>9. CASE QueueDrained
  BY <1>9 DEF QueueDrained, drVars, cbVars, pgVars
<1>10. CASE WaitWhenDone
  BY <1>10 DEF WaitWhenDone, WhenDone, drVars, pgVars, fgVars
<1>11. CASE Notify
  BY <1>11 DEF Notify, cbVars
<1>12. CASE StartDrain
  BY <1>12 DEF StartDrain, pgVars, cbVars, fgOthers, fgVars
<1>13. CASE PopWorkItem
  BY <1>13 DEF PopWorkItem, pgVars, cbVars, fgOthers, fgVars
<1>14. CASE ComputeConstraintsForNode
  BY <1>14
<1>15. CASE SkipConstraint
  BY <1>15
<1>16. CASE MaybeAddConstraint
  BY <1>16
<1>17. CASE NotifyEndOfNode
  BY <1>17 DEF NotifyEndOfNode, pgVars, cbVars, fgOthers, fgVars
<1>18. CASE RunWorkItem
  BY <1>18 DEF RunWorkItem, pgVars, cbVars, fgOthers, fgVars
<1>19. CASE DrainWhenDone
  BY <1>19 DEF DrainWhenDone, WhenDone, pgVars, fgOthers, fgVars
<1>20. CASE InsertConstraints
  BY <1>20 DEF InsertConstraints, pgVars, cbVars, fgOthers, fgVars
<1>21. CASE Solve
  BY <1>21 DEF Solve, pgVars, cbVars, fgOthers, fgVars
<1>22. CASE Trim
  BY <1>22 DEF Trim, pgVars, cbVars, fgOthers, fgVars
<1>23. CASE BuildMatcher
  BY <1>23 DEF BuildMatcher, poolOthers, pgVars, fgVars
<1>24. CASE BeginSearch
  BY <1>24 DEF BeginSearch, poolOthers, pgVars, fgVars
<1>25. CASE EndSearch
  BY <1>25 DEF EndSearch, poolOthers, pgVars, fgVars
<1>26. CASE FinishNode
  BY <1>26 DEF FinishNode, poolOthers, pgVars, fgVars
<1>27. CASE RunWhenDoneCallback
  BY <1>27 DEF RunWhenDoneCallback, poolOthers, pgVars, fgVars
<1> QED
  BY <1>1, <1>2, <1>3, <1>4, <1>5, <1>6, <1>7, <1>8, <1>9, <1>10, <1>11, <1>12, <1>13,
     <1>14, <1>15, <1>16, <1>17, <1>18, <1>19, <1>20, <1>21, <1>22, <1>23, <1>24, <1>25,
     <1>26, <1>27 DEF Next, Foreground, Drain, Pool

\* A node on its way into the problem is in open submaps only.
LEMMA OpenAhead ==
  ASSUME IInv, Maps, NEW n \in Pending, ~Ended(n[1]), NEW s \in SubmapsOf(n)
  PROVE  submaps[s] = "open"
<1>1. n \in Numbered /\ s \in Id /\ n \in NodesOf(s) /\ n[1] = s[1]
  BY NumberedNodes DEF SubmapsOf, NodesOf
<1>2. submaps[s] # "none"
  BY <1>1 DEF Maps
<1>3. ~(NodesOf(s) \subseteq Past)
  BY <1>1 DEF Past
<1>4. submaps[s] \notin {"finished", "trimmed"}
  BY <1>1, <1>3 DEF Maps
<1> QED
  BY <1>1, <1>2, <1>4 DEF IInv, Types, TypeOK

\* The node just taken is of a trajectory that has not ended.
LEMMA TakenOpen ==
  ASSUME IInv, Ends, pc = "item", cur.kind = "node"
  PROVE  cur.arg \in Id /\ ~Ended(cur.arg[1])
<1>1. cur.arg \in Id /\ cur.arg[1] \in Trajectory
  BY ItemTypes DEF IInv, Types, Id
<1>2. Of(cur, cur.arg[1])
  BY DEF Of
<1> QED
  BY <1>1, <1>2 DEF Ends

\* What is trimmed from a trajectory that goes on was full.
LEMMA TrimmedFull ==
  ASSUME IInv, Order, NEW s \in UNION {Surplus(t) : t \in trimmers}
  PROVE  /\ s \in Id /\ submaps[s] \in {"open", "finished"}
         /\ NodesOf(s) \subseteq Past \/ Ended(s[1])
<1>1. PICK t \in trimmers : s \in Surplus(t)
  OBVIOUS
<1>2. s \in Id /\ s[1] = t /\ submaps[s] \in {"open", "finished"}
  BY <1>1 DEF Surplus
<1>3. CASE trajectory[t] = "finished"
  BY <1>2, <1>3 DEF Ended
<1>4. CASE trajectory[t] # "finished"
  BY <1>1, <1>2, <1>4, SurplusFull
<1> QED
  BY <1>2, <1>3, <1>4

LEMMA MapsUntouched ==
  ASSUME IInv, Maps, Next, UNCHANGED <<submaps, Pending, Numbered>>
  PROVE  Maps'
<1>1. Past' = Past
  BY DEF Past
<1>2. \A s \in Id : Ended(s[1]) => Ended(s[1])'
  BY EndedStep DEF Id
<1> QED
  BY <1>1, <1>2 DEF Maps, Ended

LEMMA MapsStep ==
  ASSUME IInv, Order, Ends, Maps, Next
  PROVE  Maps'
<1>0. submaps \in [Id -> {"none", "open", "finished", "trimmed"}]
  BY DEF IInv, Types, TypeOK
<1>1. \A s \in Id : Ended(s[1]) => Ended(s[1])'
  BY EndedStep DEF Id
<1>2. ASSUME NEW t \in Trajectory, AppendNode(t) PROVE Maps'
  <2> DEFINE m == <<t, added[t] + 1>>
  <2>1. /\ m \in Id /\ Numbered' = Numbered \cup {m} /\ Past' = Past
    BY <1>2, PendingAppended
  <2>2. submaps' = [s \in Id |-> IF s \in SubmapsOf(m) /\ submaps[s] = "none"
                                   THEN "open" ELSE submaps[s]]
    BY <1>2 DEF AppendNode
  <2> HIDE DEF m
  <2>3. \A n \in Numbered' : \A s \in SubmapsOf(n) : submaps'[s] # "none"
    <3>1. ASSUME NEW n \in Numbered', NEW s \in SubmapsOf(n) PROVE submaps'[s] # "none"
      <4>1. s \in Id
        BY DEF SubmapsOf
      <4>2. n = m \/ submaps[s] # "none"
        BY <2>1 DEF Maps
      <4> QED
        BY <2>2, <4>1, <4>2
    <3> QED
      BY <3>1
  <2>4. \A s \in Id : submaps'[s] \in {"finished", "trimmed"} => submaps[s] = submaps'[s]
    BY <2>2
  <2>5. ASSUME NEW s \in Id, Last(s) \in Past PROVE submaps'[s] # "open"
    <3>1. Last(s) \in Id /\ Last(s) \in Numbered
      BY <2>5, Fields DEF Past
    <3>2. submaps[s] # "none" /\ submaps[s] # "open"
      BY <2>5, <3>1, LastInside DEF Maps
    <3> QED
      BY <2>2, <3>2
  <2>6. \A s \in Id : submaps'[s] \in {"finished", "trimmed"} => NodesOf(s) \subseteq Past' \/ Ended(s[1])'
    BY <1>1, <2>1, <2>4 DEF Maps
  <2> QED
    BY <2>1, <2>3, <2>5, <2>6 DEF Maps, Ended
<1>3. CASE ComputeConstraintsForNode
  <2> DEFINE c == cur.arg
  <2>1. /\ c \in Pending /\ c \in Numbered /\ Numbered' = Numbered /\ Pending' = Pending \ {c}
        /\ Past' = Past \cup {c} /\ c \in Id
    BY <1>3, PendingEntered, Fields
  <2>2. submaps' = [s \in Id |-> IF s \in NewlyFinished(c) THEN "finished" ELSE submaps[s]]
    BY <1>3 DEF ComputeConstraintsForNode
  <2>3. pc = "item" /\ cur.kind = "node"
    BY <1>3 DEF ComputeConstraintsForNode
  <2>4. \A n \in Pending \ {c} : n[1] = c[1] => c[2] < n[2]
    BY <2>3 DEF Order
  <2>5. ASSUME NEW s \in NewlyFinished(c) PROVE NodesOf(s) \subseteq Past'
    <3>1. s \in Id /\ c = Last(s) /\ c[1] = s[1]
      BY DEF NewlyFinished, SubmapsOf, Last
    <3>2. ASSUME NEW n \in NodesOf(s) PROVE n \in Past'
      <4>1. n \in Id /\ n[1] = c[1] /\ n[2] \in Nat /\ n[2] <= c[2] /\ c[2] \in Nat
            /\ c[2] <= added[c[1]] /\ added[c[1]] \in Nat
        BY <2>1, <3>1, NodesOfFields, Fields
      <4>2. n \in Numbered
        BY <4>1 DEF Numbered
      <4>3. n \notin Pending \ {c}
        BY <2>4, <4>1
      <4> QED
        BY <2>1, <4>2, <4>3 DEF Past
    <3> QED
      BY <3>2
  <2> HIDE DEF c
  <2>6. \A s \in Id : submaps'[s] \in {"finished", "trimmed"} => NodesOf(s) \subseteq Past' \/ Ended(s[1])'
    <3>1. ASSUME NEW s \in Id, submaps'[s] \in {"finished", "trimmed"}, s \notin NewlyFinished(c)
          PROVE  NodesOf(s) \subseteq Past' \/ Ended(s[1])'
      <4>1. submaps[s] \in {"finished", "trimmed"}
        BY <2>2, <3>1
      <4>2. NodesOf(s) \subseteq Past \/ Ended(s[1])
        BY <4>1 DEF Maps
      <4> QED
        BY <1>1, <2>1, <4>2
    <3> QED
      BY <2>5, <3>1
  <2>7. ASSUME NEW s \in Id, Last(s) \in Past' PROVE submaps'[s] # "open"
    <3>1. CASE Last(s) = c
      <4>1. s \in NewlyFinished(c)
        BY <2>1, <3>1, LastInside DEF NewlyFinished
      <4> QED
        BY <2>2, <4>1
    <3>2. CASE Last(s) \in Past
      <4>1. submaps[s] # "open"
        BY <3>2 DEF Maps
      <4> QED
        BY <2>2, <4>1
    <3> QED
      BY <2>1, <2>7, <3>1, <3>2
  <2>8. \A n \in Numbered' : \A s \in SubmapsOf(n) : submaps'[s] # "none"
    BY <2>1, <2>2 DEF Maps, SubmapsOf
  <2> QED
    BY <2>6, <2>7, <2>8 DEF Maps, Ended
<1>4. CASE RunWorkItem
  <2>1. Pending' = Pending /\ Numbered' = Numbered /\ Past' = Past
    <3>1. ~ComputeConstraintsForNode /\ ~\E t \in Trajectory : AppendNode(t)
      BY <1>4 DEF RunWorkItem, ComputeConstraintsForNode, AppendNode, drVars
    <3> QED
      BY <3>1, PendingKept DEF Past
  <2>2. CASE cur.kind = "finish"
    <3>1. /\ submaps' = [s \in Id |-> IF s[1] = cur.arg /\ submaps[s] = "open"
                                        THEN "finished" ELSE submaps[s]]
          /\ cur.arg \in Trajectory /\ trajectory' = [trajectory EXCEPT ![cur.arg] = "finished"]
      BY <1>4, <2>2, ItemTypes DEF RunWorkItem, IInv, Types
    <3>2. PICK u \in Trajectory : u = cur.arg /\ Ended(u)'
      <4>1. \A u \in Trajectory : u = cur.arg => Ended(u)'
        BY <3>1 DEF Ended, IInv, Types, TypeOK
      <4> QED
        BY <3>1, <4>1
    <3>3. \A s \in Id : submaps'[s] \in {"finished", "trimmed"} =>
                          NodesOf(s) \subseteq Past' \/ Ended(s[1])'
      <4>1. ASSUME NEW s \in Id, submaps'[s] \in {"finished", "trimmed"}
            PROVE  NodesOf(s) \subseteq Past' \/ Ended(s[1])'
        <5>1. s[1] = cur.arg \/ submaps[s] \in {"finished", "trimmed"}
          BY <3>1, <4>1
        <5>2. CASE s[1] = cur.arg
          <6>1. s[1] = u
            BY <3>2, <5>2
          <6> QED
            BY <3>2, <6>1
        <5>3. CASE submaps[s] \in {"finished", "trimmed"}
          BY <1>1, <2>1, <5>3 DEF Maps
        <5> QED
          BY <5>1, <5>2, <5>3
      <4> QED
        BY <4>1
    <3>4. \A n \in Numbered' : \A s \in SubmapsOf(n) : submaps'[s] # "none"
      BY <2>1, <3>1 DEF Maps, SubmapsOf
    <3>5. \A s \in Id : Last(s) \in Past' => submaps'[s] # "open"
      BY <2>1, <3>1 DEF Maps
    <3> QED
      BY <3>3, <3>4, <3>5 DEF Maps, Ended
  <2>3. CASE cur.kind # "finish"
    BY <1>4, <2>1, <2>3, MapsUntouched DEF RunWorkItem
  <2> QED
    BY <2>2, <2>3
<1>5. CASE Trim
  <2> DEFINE gone == UNION {Surplus(t) : t \in trimmers}
  <2>1. Pending' = Pending /\ Numbered' = Numbered /\ Past' = Past
    <3>1. ~ComputeConstraintsForNode /\ ~\E t \in Trajectory : AppendNode(t)
      BY <1>5 DEF Trim, ComputeConstraintsForNode, AppendNode, drVars
    <3> QED
      BY <3>1, PendingKept DEF Past
  <2>2. submaps' = [s \in Id |-> IF s \in gone THEN "trimmed" ELSE submaps[s]]
    BY <1>5 DEF Trim
  <2>3. \A s \in gone : NodesOf(s) \subseteq Past \/ Ended(s[1])
    BY TrimmedFull
  <2> HIDE DEF gone
  <2>4. \A s \in Id : submaps'[s] \in {"finished", "trimmed"} =>
                        NodesOf(s) \subseteq Past' \/ Ended(s[1])'
    <3>1. ASSUME NEW s \in Id, submaps'[s] \in {"finished", "trimmed"}
          PROVE  NodesOf(s) \subseteq Past \/ Ended(s[1])
      BY <2>2, <2>3, <3>1 DEF Maps
    <3> QED
      BY <1>1, <2>1, <3>1
  <2>5. \A n \in Numbered' : \A s \in SubmapsOf(n) : submaps'[s] # "none"
    BY <2>1, <2>2 DEF Maps, SubmapsOf
  <2>6. \A s \in Id : Last(s) \in Past' => submaps'[s] # "open"
    BY <2>1, <2>2 DEF Maps
  <2> QED
    BY <2>4, <2>5, <2>6 DEF Maps, Ended
<1>6. CASE ~ComputeConstraintsForNode /\ ~(\E t \in Trajectory : AppendNode(t))
           /\ ~RunWorkItem /\ ~Trim
  <2>1. submaps' = submaps
    BY <1>6, SubmapsKept
  <2>2. UNCHANGED <<Pending, Numbered>>
    BY <1>6, PendingKept
  <2> QED
    BY <2>1, <2>2, MapsUntouched
<1> QED
  BY <1>2, <1>3, <1>4, <1>5, <1>6

-----------------------------------------------------------------------------
(* The pairs looked at                                                     *)

\* Nodes stay in, submaps stay finished or are trimmed.
LEMMA LooksGrow ==
  ASSUME IInv, Order, Ends, Maps, Next
  PROVE  /\ Past \subseteq Past'
         /\ \A s \in Id : submaps[s] \in {"finished", "trimmed"} =>
                            submaps'[s] \in {"finished", "trimmed"}
<1>0. submaps \in [Id -> {"none", "open", "finished", "trimmed"}]
  BY DEF IInv, Types, TypeOK
<1>1. Past \subseteq Past'
  <2>1. CASE \E t \in Trajectory : AppendNode(t)
    BY <2>1, PendingAppended
  <2>2. CASE ComputeConstraintsForNode
    BY <2>2, PendingEntered
  <2>3. CASE ~ComputeConstraintsForNode /\ ~\E t \in Trajectory : AppendNode(t)
    BY <2>3, PendingKept DEF Past
  <2> QED
    BY <2>1, <2>2, <2>3
<1>2. \A s \in Id : submaps[s] \in {"finished", "trimmed"} =>
                      submaps'[s] \in {"finished", "trimmed"}
  <2>1. ASSUME NEW t \in Trajectory, AppendNode(t), NEW s \in Id
        PROVE  submaps[s] \in {"finished", "trimmed"} => submaps'[s] = submaps[s]
    BY <2>1 DEF AppendNode
  <2>2. CASE ComputeConstraintsForNode
    BY <2>2 DEF ComputeConstraintsForNode
  <2>3. CASE RunWorkItem
    BY <2>3, <1>0 DEF RunWorkItem
  <2>4. CASE Trim
    BY <2>4 DEF Trim
  <2> QED
    BY <2>1, <2>2, <2>3, <2>4, SubmapsKept
<1> QED
  BY <1>1, <1>2

\* The facts on pairs, without those still to be looked at.
LEMMA LookedStep ==
  ASSUME IInv, Order, Ends, Maps, Looks, Next
  PROVE  /\ looked' \in [Pair -> Nat]
         /\ \A p \in Pair : looked'[p] <= IF p[1] \in NodesOf(p[2]) THEN 0 ELSE 1
         /\ \A p \in Pair : looked'[p] # 0 =>
                              p[1] \in Past' /\ submaps'[p[2]] \in {"finished", "trimmed"}
<1>0. /\ looked \in [Pair -> Nat] /\ todo \subseteq Pair
      /\ \A p \in Pair : p[1] \in Id /\ p[2] \in Id
  BY DEF Looks, Pair, IInv, Types, TypeOK
<1>1. CASE looked' = looked
  BY <1>0, <1>1, LooksGrow DEF Looks
<1>2. ASSUME NEW p \in todo, looked' = [looked EXCEPT ![p] = @ + 1]
      PROVE  /\ looked' \in [Pair -> Nat]
             /\ \A q \in Pair : looked'[q] <= IF q[1] \in NodesOf(q[2]) THEN 0 ELSE 1
             /\ \A q \in Pair : looked'[q] # 0 =>
                                  q[1] \in Past' /\ submaps'[q[2]] \in {"finished", "trimmed"}
  <2>1. /\ p \in Pair /\ looked[p] = 0 /\ p[1] \notin NodesOf(p[2])
        /\ p[1] \in problem /\ submaps[p[2]] = "finished"
    BY <1>0 DEF Looks, IInv, Holds, Finished
  <2>2. p[1] \in Past
    BY <2>1, NumberedNodes
  <2>3. /\ looked'[p] = 1 /\ \A q \in Pair : q # p => looked'[q] = looked[q]
    BY <1>0, <1>2, <2>1
  <2>4. looked' \in [Pair -> Nat]
    BY <1>0, <1>2, <2>1
  <2>5. ASSUME NEW q \in Pair
        PROVE  /\ looked'[q] <= IF q[1] \in NodesOf(q[2]) THEN 0 ELSE 1
               /\ looked'[q] # 0 => q[1] \in Past /\ submaps[q[2]] \in {"finished", "trimmed"}
    <3>1. CASE q = p
      BY <2>1, <2>2, <2>3, <3>1
    <3>2. CASE q # p
      BY <2>3, <3>2 DEF Looks
    <3> QED
      BY <3>1, <3>2
  <2> QED
    BY <1>0, <2>4, <2>5, LooksGrow
<1>3. CASE ComputeConstraintsForNode
  BY <1>1, <1>3 DEF ComputeConstraintsForNode
<1>4. CASE SkipConstraint
  BY <1>1, <1>2, <1>4 DEF SkipConstraint
<1>5. CASE MaybeAddConstraint
  BY <1>2, <1>5 DEF MaybeAddConstraint
<1> QED
  BY <1>1, <1>3, <1>4, <1>5, LookedKept

\* What is to be looked at is new; what was looked at or will be, is complete.
Fresh == \A p \in todo : looked[p] = 0 /\ p[1] \notin NodesOf(p[2])
Complete ==
  \A n \in problem : \A s \in Id :
    Finished(s) /\ Last(s) \in problem /\ n \notin NodesOf(s) =>
      looked[<<n, s>>] = 1 \/ <<n, s>> \in todo

LEMMA ComputeLooks ==
  ASSUME IInv, Order, Ends, Maps, Looks, ComputeConstraintsForNode
  PROVE  Fresh' /\ Complete'
<1> DEFINE c == cur.arg
<1>1. /\ pc = "item" /\ cur.kind = "node" /\ problem' = problem \cup {c} /\ looked' = looked
      /\ submaps' = [s \in Id |-> IF s \in NewlyFinished(c) THEN "finished" ELSE submaps[s]]
      /\ todo' = ({c} \X {s \in Id : Finished(s)})
                  \cup {p \in problem' \X NewlyFinished(c) : p[1] \notin NodesOf(p[2])}
  BY DEF ComputeConstraintsForNode
<1>2. /\ c \in Pending /\ c \in Id /\ c \notin Past /\ ~Ended(c[1])
  BY <1>1, PendingEntered, TakenOpen DEF Past
<1>3. todo = {}
  BY <1>1 DEF IInv, Waits
<1> HIDE DEF c
<1>4. ASSUME NEW s \in Id, submaps[s] \in {"finished", "trimmed"} PROVE c \notin NodesOf(s)
  <2>1. SUFFICES ASSUME c \in NodesOf(s) PROVE FALSE
    OBVIOUS
  <2>2. s \in SubmapsOf(c)
    BY <2>1 DEF SubmapsOf
  <2> QED
    BY <1>2, <1>4, <2>2, OpenAhead
<1>5. problem \subseteq Id /\ problem \subseteq Past
  BY NumberedNodes DEF Past, IInv, Types, TypeOK
<1>6. \A s \in NewlyFinished(c) : s \in Id /\ submaps[s] = "open" /\ c = Last(s) /\ c \in NodesOf(s)
  BY <1>2, OpenAhead DEF NewlyFinished, SubmapsOf
<1>7. \A p \in Pair : looked[p] # 0 => p[1] \in Past /\ submaps[p[2]] \in {"finished", "trimmed"}
  BY DEF Looks
<1>8. Fresh'
  <2>1. ASSUME NEW p \in todo' PROVE looked[p] = 0 /\ p[1] \notin NodesOf(p[2])
    <3>1. CASE p \in {c} \X {s \in Id : Finished(s)}
      <4>1. p \in Pair /\ p[1] = c /\ p[2] \in Id /\ submaps[p[2]] = "finished"
        BY <1>2, <3>1 DEF Pair, Finished
      <4> QED
        BY <1>2, <1>4, <1>7, <4>1
    <3>2. CASE p \in {q \in problem' \X NewlyFinished(c) : q[1] \notin NodesOf(q[2])}
      <4>1. p[1] \in problem' /\ p[2] \in NewlyFinished(c) /\ p[1] \notin NodesOf(p[2]) /\ p = <<p[1], p[2]>>
        BY <3>2
      <4>2. p \in Pair
        BY <1>1, <1>2, <1>5, <1>6, <4>1 DEF Pair
      <4> QED
        BY <1>6, <1>7, <4>1, <4>2
    <3> QED
      BY <1>1, <2>1, <3>1, <3>2
  <2> QED
    BY <1>1, <2>1 DEF Fresh
<1>9. Complete'
  <2>1. ASSUME NEW n \in problem', NEW s \in Id,
               submaps'[s] = "finished", Last(s) \in problem', n \notin NodesOf(s)
        PROVE  looked[<<n, s>>] = 1 \/ <<n, s>> \in todo'
    <3>1. CASE s \in NewlyFinished(c)
      <4>1. <<n, s>> \in {q \in problem' \X NewlyFinished(c) : q[1] \notin NodesOf(q[2])}
        BY <2>1, <3>1
      <4> QED
        BY <1>1, <4>1
    <3>2. CASE s \notin NewlyFinished(c) /\ n = c
      <4>1. Finished(s)
        BY <1>1, <2>1, <3>2 DEF Finished
      <4> QED
        BY <1>1, <3>2, <4>1
    <3>3. CASE s \notin NewlyFinished(c) /\ n # c
      <4>1. Finished(s) /\ n \in problem
        BY <1>1, <2>1, <3>3 DEF Finished
      <4>2. Last(s) # c
        BY <1>2, <3>3, LastInside DEF NewlyFinished
      <4>3. Last(s) \in problem
        BY <1>1, <2>1, <4>2
      <4> QED
        BY <1>3, <2>1, <4>1, <4>3 DEF Looks
    <3> QED
      BY <3>1, <3>2, <3>3
  <2> QED
    BY <1>1, <2>1 DEF Complete, Finished
<1> QED
  BY <1>8, <1>9

\* A pair taken from todo is counted as soon as both its ends are there.
LEMMA TakeLooks ==
  ASSUME IInv, Looks, NEW p \in todo, todo' = todo \ {p}, UNCHANGED <<submaps, problem>>,
         looked' = IF InsertionFinished(p[2]) THEN [looked EXCEPT ![p] = @ + 1] ELSE looked
  PROVE  Fresh' /\ Complete'
<1>0. looked \in [Pair -> Nat] /\ todo \subseteq Pair /\ problem \subseteq Id
  BY DEF Looks, IInv, Types, TypeOK
<1>1. p \in Pair /\ looked[p] = 0 /\ p[2] \in Id
  BY <1>0 DEF Looks, Pair
<1>2. \A q \in Pair : q # p => looked'[q] = looked[q]
  BY <1>0, <1>1
<1>3. Fresh'
  BY <1>0, <1>2 DEF Fresh, Looks
<1>4. ASSUME Last(p[2]) \in problem PROVE looked'[p] = 1
  <2>1. Last(p[2]) \in Numbered
    BY <1>4, NumberedNodes DEF Past
  <2>2. Last(p[2])[2] <= added[Last(p[2])[1]] /\ Last(p[2])[1] = p[2][1]
    BY <2>1, Fields DEF Last
  <2>3. InsertionFinished(p[2])
    <3>1. Last(p[2])[2] \in Nat /\ added[p[2][1]] \in Nat
      BY <1>1, <2>1, Fields DEF Id
    <3> QED
      BY <2>2, <3>1 DEF InsertionFinished
  <2> QED
    BY <1>0, <1>1, <2>3
<1>5. Complete'
  <2>1. ASSUME NEW n \in problem, NEW s \in Id, Finished(s), Last(s) \in problem, n \notin NodesOf(s)
        PROVE  looked'[<<n, s>>] = 1 \/ <<n, s>> \in todo'
    <3>1. <<n, s>> \in Pair
      BY <1>0, <2>1 DEF Pair
    <3>2. looked[<<n, s>>] = 1 \/ <<n, s>> \in todo
      BY <2>1 DEF Looks
    <3>3. CASE <<n, s>> = p
      <4>1. p[2] = s
        BY <3>3
      <4> QED
        BY <1>4, <2>1, <3>3, <4>1
    <3>4. CASE <<n, s>> # p
      BY <1>2, <3>1, <3>2, <3>4
    <3> QED
      BY <3>3, <3>4
  <2> QED
    BY <2>1 DEF Complete, Finished
<1> QED
  BY <1>3, <1>5

\* Elsewhere no submap full of nodes is finished, as it is already.
LEMMA OtherLooks ==
  ASSUME IInv, Maps, Looks, Next, ~ComputeConstraintsForNode, ~SkipConstraint, ~MaybeAddConstraint
  PROVE  Fresh' /\ Complete'
<1>1. looked' = looked /\ todo' = todo
  BY LookedKept
<1>2. problem' \subseteq problem
      /\ \A s \in Id : submaps'[s] = "finished" => submaps[s] = "finished" \/ Last(s) \notin problem
  <2>1. ASSUME NEW t \in Trajectory, AppendNode(t)
        PROVE  problem' = problem /\ \A s \in Id : submaps'[s] = "finished" => submaps[s] = "finished"
    BY <2>1 DEF AppendNode
  <2>2. CASE RunWorkItem
    <3>1. problem' = problem /\ \A s \in Id : submaps'[s] = "finished" => submaps[s] \in {"open", "finished"}
      BY <2>2 DEF RunWorkItem
    <3> QED
      BY <3>1, NumberedNodes DEF Maps
  <2>3. CASE Trim
    BY <2>3 DEF Trim
  <2> QED
    BY <2>1, <2>2, <2>3, SubmapsKept
<1> QED
  BY <1>1, <1>2 DEF Fresh, Complete, Looks, Finished

LEMMA LooksStep ==
  ASSUME IInv, Order, Ends, Maps, Looks, Next
  PROVE  Looks'
<1>1. Fresh' /\ Complete'
  <2>1. CASE ComputeConstraintsForNode
    BY <2>1, ComputeLooks
  <2>2. CASE SkipConstraint
    BY <2>2, TakeLooks DEF SkipConstraint, pgVars
  <2>3. CASE MaybeAddConstraint
    BY <2>3, TakeLooks DEF MaybeAddConstraint, pgVars
  <2> QED
    BY <2>1, <2>2, <2>3, OtherLooks
<1> QED
  BY <1>1, LookedStep DEF Looks, Fresh, Complete, Finished

-----------------------------------------------------------------------------
(* The nodes finished                                                      *)

Entering == IF pc = "search" THEN 1 ELSE 0

\* What changes the counts.
LEMMA CountsKept ==
  ASSUME IInv, Next, ~ComputeConstraintsForNode, ~NotifyEndOfNode, ~FinishNode
  PROVE  UNCHANGED <<finished, finishTasks, Entering>> /\ (pc' = "search" => cur' = cur)
<1> DEFINE Goal == UNCHANGED <<finished, finishTasks, Entering>> /\ (pc' = "search" => cur' = cur)
<1> SUFFICES Goal
  OBVIOUS
<1>1. ASSUME NEW t \in Trajectory, AppendNode(t) PROVE Goal
  BY <1>1 DEF Entering, AppendNode, drVars, cbVars, pgVars
<1>2. ASSUME NEW t \in Trajectory, AddData(t) PROVE Goal
  BY <1>2 DEF Entering, AddData, Request, AddWorkItem, Item, drVars, pgVars, cbVars, fgVars
<1>3. ASSUME NEW t \in Trajectory, AddTrajectory(t) PROVE Goal
  BY <1>3 DEF Entering, AddTrajectory, Request, AddWorkItem, Item, drVars, pgVars, cbVars,
     fgVars
<1>4. ASSUME NEW t \in Trajectory, FinishTrajectory(t) PROVE Goal
  BY <1>4 DEF Entering, FinishTrajectory, Request, AddWorkItem, Item, drVars, pgVars,
     cbVars, fgVars
<1>5. CASE AddNode
  BY <1>5 DEF Entering, AddNode, Request, AddWorkItem, Item, drVars, pgVars, cbVars, fgVars
<1>6. CASE RunFinalOptimization
  BY <1>6 DEF Entering, RunFinalOptimization, Request, AddWorkItem, Item, drVars, pgVars,
     cbVars, fgVars
<1>7. CASE ResetIterations
  BY <1>7 DEF Entering, ResetIterations, Request, AddWorkItem, Item, drVars, pgVars, cbVars,
     fgVars
<1>8. CASE CountNodes
  BY <1>8 DEF Entering, CountNodes, drVars, cbVars, pgVars
<1>9. CASE QueueDrained
  BY <1>9 DEF Entering, QueueDrained, drVars, cbVars, pgVars
<1>10. CASE WaitWhenDone
  BY <1>10 DEF Entering, WaitWhenDone, WhenDone, drVars, pgVars, fgVars
<1>11. CASE Notify
  BY <1>11 DEF Entering, Notify, cbVars
<1>12. CASE StartDrain
  BY <1>12 DEF Entering, StartDrain, pgVars, cbVars, fgOthers, fgVars
<1>13. CASE PopWorkItem
  BY <1>13 DEF Entering, PopWorkItem, pgVars, cbVars, fgOthers, fgVars
<1>14. CASE ComputeConstraintsForNode
  BY <1>14
<1>15. CASE SkipConstraint
  BY <1>15 DEF Entering, SkipConstraint, pgVars, cbVars, fgOthers, fgVars
<1>16. CASE MaybeAddConstraint
  BY <1>16 DEF Entering, MaybeAddConstraint, pgVars, cbVars, fgOthers, fgVars
<1>17. CASE NotifyEndOfNode
  BY <1>17
<1>18. CASE RunWorkItem
  BY <1>18 DEF Entering, RunWorkItem, pgVars, cbVars, fgOthers, fgVars
<1>19. CASE DrainWhenDone
  BY <1>19 DEF Entering, DrainWhenDone, WhenDone, pgVars, fgOthers, fgVars
<1>20. CASE InsertConstraints
  BY <1>20 DEF Entering, InsertConstraints, pgVars, cbVars, fgOthers, fgVars
<1>21. CASE Solve
  BY <1>21 DEF Entering, Solve, pgVars, cbVars, fgOthers, fgVars
<1>22. CASE Trim
  BY <1>22 DEF Entering, Trim, pgVars, cbVars, fgOthers, fgVars
<1>23. CASE BuildMatcher
  BY <1>23 DEF Entering, BuildMatcher, poolOthers, pgVars, fgVars
<1>24. CASE BeginSearch
  BY <1>24 DEF Entering, BeginSearch, poolOthers, pgVars, fgVars
<1>25. CASE EndSearch
  BY <1>25 DEF Entering, EndSearch, poolOthers, pgVars, fgVars
<1>26. CASE FinishNode
  BY <1>26
<1>27. CASE RunWhenDoneCallback
  <2>1. pc # "search"
    BY <1>27, QueueThere DEF RunWhenDoneCallback, IInv
  <2> QED
    BY <1>27, <2>1 DEF RunWhenDoneCallback, poolOthers, Entering
<1> QED
  BY <1>1, <1>2, <1>3, <1>4, <1>5, <1>6, <1>7, <1>8, <1>9, <1>10, <1>11, <1>12, <1>13,
     <1>14, <1>15, <1>16, <1>17, <1>18, <1>19, <1>20, <1>21, <1>22, <1>23, <1>24, <1>25,
     <1>26, <1>27 DEF Next, Foreground, Drain, Pool

\* What the foreground thread has read stays true while it waits.
LEMMA CountStep ==
  ASSUME IInv, Next, Tally
  PROVE  fg' \in {"waitQueue", "whenDone", "waitDone"} => fgCount' = NumNodes'
<1> DEFINE Goal == fg' \in {"waitQueue", "whenDone", "waitDone"} =>
                     fgCount' = fgCount /\ fg \in {"waitQueue", "whenDone", "waitDone"} /\ added' = added
<1>0. CASE CountNodes
  BY <1>0 DEF CountNodes, NumNodes
<1>1. ASSUME ~CountNodes PROVE Goal

  <2>1. ASSUME NEW t \in Trajectory, AppendNode(t) PROVE Goal
    BY <2>1 DEF AppendNode, drVars, cbVars, pgVars
  <2>2. ASSUME NEW t \in Trajectory, AddData(t) PROVE Goal
    BY <2>2 DEF AddData, Request, AddWorkItem, Item, drVars, pgVars, cbVars, fgVars
  <2>3. ASSUME NEW t \in Trajectory, AddTrajectory(t) PROVE Goal
    BY <2>3 DEF AddTrajectory, Request, AddWorkItem, Item, drVars, pgVars, cbVars, fgVars
  <2>4. ASSUME NEW t \in Trajectory, FinishTrajectory(t) PROVE Goal
    BY <2>4 DEF FinishTrajectory, Request, AddWorkItem, Item, drVars, pgVars, cbVars, fgVars
  <2>5. CASE AddNode
    BY <2>5 DEF AddNode, Request, AddWorkItem, Item, drVars, pgVars, cbVars, fgVars
  <2>6. CASE RunFinalOptimization
    BY <2>6 DEF RunFinalOptimization, Request, AddWorkItem, Item, drVars, pgVars, cbVars, fgVars
  <2>7. CASE ResetIterations
    BY <2>7 DEF ResetIterations, Request, AddWorkItem, Item, drVars, pgVars, cbVars, fgVars
  <2>8. CASE CountNodes
    BY <2>8, <1>1
  <2>9. CASE QueueDrained
    BY <2>9 DEF QueueDrained, drVars, cbVars, pgVars
  <2>10. CASE WaitWhenDone
    BY <2>10 DEF WaitWhenDone, WhenDone, drVars, pgVars, fgVars
  <2>11. CASE Notify
    BY <2>11 DEF Notify, cbVars
  <2>12. CASE StartDrain
    BY <2>12 DEF StartDrain, pgVars, cbVars, fgOthers, fgVars
  <2>13. CASE PopWorkItem
    BY <2>13 DEF PopWorkItem, pgVars, cbVars, fgOthers, fgVars
  <2>14. CASE ComputeConstraintsForNode
    BY <2>14 DEF ComputeConstraintsForNode, pgVars, cbVars, fgOthers, fgVars
  <2>15. CASE SkipConstraint
    BY <2>15 DEF SkipConstraint, pgVars, cbVars, fgOthers, fgVars
  <2>16. CASE MaybeAddConstraint
    BY <2>16 DEF MaybeAddConstraint, pgVars, cbVars, fgOthers, fgVars
  <2>17. CASE NotifyEndOfNode
    BY <2>17 DEF NotifyEndOfNode, pgVars, cbVars, fgOthers, fgVars
  <2>18. CASE RunWorkItem
    BY <2>18 DEF RunWorkItem, pgVars, cbVars, fgOthers, fgVars
  <2>19. CASE DrainWhenDone
    BY <2>19 DEF DrainWhenDone, WhenDone, pgVars, fgOthers, fgVars
  <2>20. CASE InsertConstraints
    BY <2>20 DEF InsertConstraints, pgVars, cbVars, fgOthers, fgVars
  <2>21. CASE Solve
    BY <2>21 DEF Solve, pgVars, cbVars, fgOthers, fgVars
  <2>22. CASE Trim
    BY <2>22 DEF Trim, pgVars, cbVars, fgOthers, fgVars
  <2>23. CASE BuildMatcher
    BY <2>23 DEF BuildMatcher, poolOthers, pgVars, fgVars
  <2>24. CASE BeginSearch
    BY <2>24 DEF BeginSearch, poolOthers, pgVars, fgVars
  <2>25. CASE EndSearch
    BY <2>25 DEF EndSearch, poolOthers, pgVars, fgVars
  <2>26. CASE FinishNode
    BY <2>26 DEF FinishNode, poolOthers, pgVars, fgVars
  <2>27. CASE RunWhenDoneCallback
    BY <2>27 DEF RunWhenDoneCallback, poolOthers, pgVars, fgVars
  <2> QED
    BY <2>1, <2>2, <2>3, <2>4, <2>5, <2>6, <2>7, <2>8, <2>9, <2>10, <2>11, <2>12, <2>13,
       <2>14, <2>15, <2>16, <2>17, <2>18, <2>19, <2>20, <2>21, <2>22, <2>23, <2>24, <2>25,
       <2>26, <2>27 DEF Next, Foreground, Drain, Pool
<1> QED
  BY <1>0, <1>1 DEF Tally, NumNodes

LEMMA TallyStep ==
  ASSUME IInv, Tally, Next
  PROVE  Tally'
<1>0. /\ IsFiniteSet(finishTasks) /\ finished \in Nat /\ Cardinality(finishTasks) \in Nat
      /\ finished + Cardinality(finishTasks) + Entering = Cardinality(Past)
  BY FS_CardinalityType DEF Tally, Entering, IInv, Types, TypeOK
<1>1. IsFiniteSet(Past) /\ Cardinality(Past) \in Nat
  <2>1. Past \subseteq Id
    BY Fields DEF Past
  <2> QED
    BY <2>1, IdFinite, FS_Subset, FS_CardinalityType
<1>2. CASE ComputeConstraintsForNode
  <2>1. /\ Past' = Past \cup {cur.arg} /\ cur.arg \notin Past
        /\ pc = "item" /\ pc' = "search"
        /\ UNCHANGED <<finished, finishTasks, cur>>
    BY <1>2, PendingEntered DEF ComputeConstraintsForNode, cbVars, Past
  <2>2. Cardinality(Past') = Cardinality(Past) + 1
    BY <1>1, <2>1, FS_AddElement
  <2>3. Entering = 0 /\ Entering' = 1
    BY <2>1 DEF Entering
  <2>4. \A f \in finishTasks : f.node \in Past' /\ f.node # cur.arg
    BY <2>1 DEF Tally
  <2>5. finished' + Cardinality(finishTasks') + Entering' = Cardinality(Past')
    BY <1>0, <1>1, <2>1, <2>2, <2>3
  <2> QED
    BY <1>0, <2>1, <2>4, <2>5, CountStep DEF Tally, Entering
<1>3. CASE NotifyEndOfNode
  <2> DEFINE f == [node |-> cur.arg, deps |-> openDeps]
  <2>1. /\ pc = "search" /\ finishTasks' = finishTasks \cup {f} /\ finished' = finished
        /\ pc' \in {"whenDone", "drain"}
    BY <1>3 DEF NotifyEndOfNode
  <2>2. f \notin finishTasks /\ f.node = cur.arg
    BY <2>1 DEF Tally
  <2>3. f.node \in Past
    BY <2>1, <2>2, NumberedNodes DEF IInv, NodesOnce
  <2> HIDE DEF f
  <2>4. IsFiniteSet(finishTasks') /\ Cardinality(finishTasks') = Cardinality(finishTasks) + 1
    BY <1>0, <2>1, <2>2, FS_AddElement
  <2>5. Past' = Past
    <3>1. ~ComputeConstraintsForNode /\ ~\E t \in Trajectory : AppendNode(t)
      BY <1>3 DEF NotifyEndOfNode, ComputeConstraintsForNode, AppendNode, drVars
    <3> QED
      BY <3>1, PendingKept DEF Past
  <2>6. Entering = 1 /\ Entering' = 0
    BY <2>1 DEF Entering
  <2>7. finished' + Cardinality(finishTasks') + Entering' = Cardinality(Past')
    BY <1>0, <1>1, <2>1, <2>4, <2>5, <2>6
  <2>8. \A g \in finishTasks' : g.node \in Past' /\ (pc' = "search" => g.node # cur'.arg)
    BY <2>1, <2>3, <2>5 DEF Tally
  <2> QED
    BY <2>4, <2>7, <2>8, CountStep DEF Tally, Entering
<1>4. CASE FinishNode
  <2>1. PICK f \in finishTasks : finishTasks' = finishTasks \ {f}
    BY <1>4 DEF FinishNode
  <2>2. finished' = finished + 1 /\ UNCHANGED <<pc, cur>>
    BY <1>4 DEF FinishNode, poolOthers
  <2>3. IsFiniteSet(finishTasks') /\ Cardinality(finishTasks') = Cardinality(finishTasks) - 1
    BY <1>0, <2>1, FS_RemoveElement
  <2>4. Past' = Past
    <3>1. ~ComputeConstraintsForNode /\ ~\E t \in Trajectory : AppendNode(t)
      <4>1. UNCHANGED added /\ pc' = pc
        BY <1>4 DEF FinishNode, poolOthers, fgVars
      <4>2. ~ComputeConstraintsForNode
        BY <4>1 DEF ComputeConstraintsForNode
      <4>3. ~\E t \in Trajectory : AppendNode(t)
        <5>1. UNCHANGED fg
          BY <1>4 DEF FinishNode, poolOthers, fgVars
        <5> QED
          BY <5>1 DEF AppendNode
      <4> QED
        BY <4>2, <4>3
    <3> QED
      BY <3>1, PendingKept DEF Past
  <2>5. Entering' = Entering /\ Entering \in Nat
    BY <2>2 DEF Entering
  <2>6. finished' + Cardinality(finishTasks') + Entering' = Cardinality(Past')
    BY <1>0, <1>1, <2>2, <2>3, <2>4, <2>5
  <2>7. \A g \in finishTasks' : g.node \in Past' /\ (pc' = "search" => g.node # cur'.arg)
    BY <2>1, <2>2, <2>4 DEF Tally
  <2> QED
    BY <2>3, <2>6, <2>7, CountStep DEF Tally, Entering
<1>5. CASE ~ComputeConstraintsForNode /\ ~NotifyEndOfNode /\ ~FinishNode
  <2>1. UNCHANGED <<finished, finishTasks, Entering>> /\ (pc' = "search" => cur' = cur)
    BY <1>5, CountsKept
  <2>2. Past' = Past
    <3>1. CASE \E t \in Trajectory : AppendNode(t)
      BY <3>1, PendingAppended
    <3>2. CASE ~\E t \in Trajectory : AppendNode(t)
      BY <1>5, <3>2, PendingKept DEF Past
    <3> QED
      BY <3>1, <3>2
  <2>3. pc' = "search" <=> pc = "search"
    BY <2>1 DEF Entering
  <2> QED
    BY <2>1, <2>2, <2>3, CountStep DEF Tally, Entering
<1> QED
  BY <1>2, <1>3, <1>4, <1>5

-----------------------------------------------------------------------------
(* The theorems on pairs and CHECKs                                        *)

LEMMA InitJInv == Init => JInv
<1> SUFFICES ASSUME Init PROVE JInv
  OBVIOUS
<1>1. Items = <<>> /\ DOMAIN Items = {} /\ pc = "none" /\ fg = "idle"
  BY DEF Init, Items
<1>2. Numbered = {}
  <2>1. \A n \in Id : n[1] \in Trajectory /\ n[2] \in Nat /\ n[2] > 0
    BY DEF Id
  <2> QED
    BY <2>1 DEF Init, Numbered
<1>3. Pending = {} /\ Past = {}
  BY <1>1, <1>2 DEF Pending, Queued, Past
<1>4. Order
  BY <1>1, <1>3 DEF Order
<1>5. Ends
  BY <1>1 DEF Ends, Init, Ended
<1>6. Maps
  BY <1>2, <1>3 DEF Maps, Init
<1>7. Looks
  BY DEF Looks, Init
<1>8. Tally
  BY <1>1, <1>3, FS_EmptySet DEF Tally, Init
<1> QED
  BY <1>4, <1>5, <1>6, <1>7, <1>8 DEF JInv

LEMMA NextJInv == IInv /\ JInv /\ [Next]_vars => JInv'
<1> SUFFICES ASSUME IInv, JInv, [Next]_vars PROVE JInv'
  OBVIOUS
<1>1. CASE Next
  BY <1>1, OrderStep, EndsStep, MapsStep, LooksStep, TallyStep DEF JInv
<1>2. CASE UNCHANGED vars
  <2>1. UNCHANGED <<Items, Pending, Numbered, Past, pc, cur, fg, fgNode, fgCount, added, client,
                    trajectory, submaps, looked, todo, problem, finishTasks, finished, NumNodes>>
    BY <1>2 DEF vars, Items, Pending, Queued, Kind, Numbered, Past, drVars, fgVars, pgVars,
       cbVars,
                NumNodes
  <2>2. Order' /\ Ends'
    BY <2>1 DEF JInv, Order, Ends, Kind, Of, Ended
  <2>3. Maps' /\ Looks' /\ Tally'
    BY <2>1 DEF JInv, Maps, Looks, Tally, Ended, Finished
  <2> QED
    BY <2>2, <2>3 DEF JInv
<1> QED
  BY <1>1, <1>2

LEMMA SpecJInv == Spec => [](IInv /\ JInv)
<1>1. Init => IInv /\ JInv
  BY InitIInv, InitJInv
<1>2. IInv /\ JInv /\ [Next]_vars => (IInv /\ JInv)'
  BY NextIInv, NextJInv
<1> QED
  BY <1>1, <1>2, PTL DEF Spec

\* Whichever of a node and a submap came first, the two are looked at once
\* and never again, for any length of submaps, any number of trajectories and
\* whatever is trimmed (pose_graph_2d.cc:359-392).
THEOREM EachPairLookedAtOnce == Spec => []EachPairOnce
<1>1. IInv /\ JInv => EachPairOnce
  <2> SUFFICES ASSUME IInv, JInv PROVE EachPairOnce
    OBVIOUS
  <2>1. \A p \in Pair : looked[p] <= IF p[1] \in NodesOf(p[2]) THEN 0 ELSE 1
    BY DEF JInv, Looks
  <2>2. pc # "search" => todo = {}
    BY DEF IInv, Waits
  <2> QED
    BY <2>1, <2>2 DEF EachPairOnce, JInv, Looks
<1> QED
  BY <1>1, SpecJInv, PTL

\* The CHECKs of the pose graph and the constraint builder never fail: a
\* callback is set only when there is none, nodes enter open submaps, nothing
\* is done for a trajectory behind its end, and a wait counts as many nodes
\* finished as there were (constraint_builder_2d.cc:156,
\* pose_graph_2d.cc:344, 605, 638).
THEOREM ChecksAlwaysHold == Spec => []ChecksHold
<1>1. IInv /\ JInv => ChecksHold
  <2> SUFFICES ASSUME IInv, JInv PROVE ChecksHold
    OBVIOUS
  <2>0. Types /\ Handover /\ Waits /\ NodesOnce
    BY DEF IInv
  <2>1. pc = "whenDone" => whenDone = "none"
    BY <2>0, QueueThere
  <2>2. fg = "whenDone" => whenDone = "none"
    <3>1. SUFFICES ASSUME fg = "whenDone" PROVE whenDone = "none"
      OBVIOUS
    <3>2. workQueue = Null /\ Drainers = 0
      BY <2>0, <3>1 DEF Handover, OneDrainer
    <3>3. ~(doneTask # Null /\ whenDone = "handle")
      BY <2>0, <3>2 DEF Drainers, Types, TypeOK
    <3> QED
      BY <2>0, <3>1, <3>3 DEF Handover, Types, TypeOK
  <2>3. ASSUME pc = "item", cur.kind = "node", NEW s \in SubmapsOf(cur.arg)
        PROVE  submaps[s] = "open"
    <3>1. cur.arg \in Pending /\ ~Ended(cur.arg[1])
      BY <2>3, Fields, TakenOpen DEF JInv
    <3> QED
      BY <2>3, <3>1, OpenAhead DEF JInv
  <2>4. ASSUME pc = "item", cur.kind \in {"data", "finish"}
        PROVE  trajectory[cur.arg] \notin {"finished", "deleted"}
    <3>1. cur.arg \in Trajectory /\ Of(cur, cur.arg)
      BY <2>0, <2>4, ItemTypes DEF Types, Of
    <3> QED
      BY <2>4, <3>1 DEF JInv, Ends, Ended
  <2>5. problem \subseteq nodes
    BY <2>0 DEF NodesOnce
  <2>6. ASSUME notifying PROVE finished = fgCount
    <3>1. fg = "waitDone" /\ workQueue = Null /\ finishTasks = {}
      BY <2>0, <2>6 DEF Handover, Waits
    <3>2. pc = "none"
      BY <2>0, <2>6, QueueThere
    <3>3. Pending = {} /\ Past = Numbered
      BY <3>1, <3>2 DEF Pending, Queued, Items, Past
    <3>4. finished + 0 + 0 = Cardinality(Numbered) /\ fgCount = NumNodes
      BY <3>1, <3>2, <3>3, FS_EmptySet DEF JInv, Tally
    <3>5. finished \in Nat
      BY <2>0 DEF Types, TypeOK
    <3> QED
      BY <3>4, <3>5 DEF NumNodes, Numbered
  <2> QED
    BY <2>0, <2>1, <2>2, <2>3, <2>4, <2>5, <2>6 DEF ChecksHold, Types
<1> QED
  BY <1>1, SpecJInv, PTL
=============================================================================
