------------------------------ MODULE TaskPool ------------------------------
(***************************************************************************)
(* cartographer's ThreadPool and Task: worker threads and a foreground     *)
(* thread that build tasks, make one wait for another and hand them in,    *)
(* while other workers complete them.  A work item may build tasks itself. *)
(*                                                                         *)
(* One action per critical section.  The only lock kept over several of    *)
(* them is that of a completed task, while it tells its dependents.  A     *)
(* task is reached through weak pointers by those who want to depend on    *)
(* it and through raw pointers (dependents) by those it depends on; it is  *)
(* kept alive by the pool's containers, the worker that runs it and a      *)
(* thread that is just linking to it.                                      *)
(***************************************************************************)
EXTENDS Integers, Sequences, SequencesExt, FiniteSets

CONSTANTS
  Task,     \* every task that will be built
  Worker,   \* the threads of the pool
  Main,     \* the foreground thread
  NoTask

ASSUME PoolAssumption ==
  /\ IsFiniteSet(Task)
  /\ NoTask \notin Task
  /\ Worker # {} /\ Main \notin Worker

VARIABLES
  state,        \* Task::state_
  uncompleted,  \* uncompleted_dependencies_
  dependents,   \* dependent_tasks_, without those already told
  notReady,     \* tasks_not_ready_
  queue,        \* task_queue_
  running,      \* running_
  at,           \* where a worker is in DoWork and Execute
  held,         \* the task a worker has taken
  call,         \* the call a thread is in the middle of
  known,        \* tasks whose weak pointer Schedule has returned
  deps          \* history: what AddDependency was called with

vars == <<state, uncompleted, dependents, notReady, queue, running, at, held,
          call, known, deps>>

Thread == Worker \cup {Main}
Idle == [op |-> "idle", task |-> NoTask, dep |-> NoTask]
Call == [op : {"idle", "link", "insert"}, task : Task \cup {NoTask},
         dep : Task \cup {NoTask}]

Init ==
  /\ state = [t \in Task |-> "NEW"]
  /\ uncompleted = [t \in Task |-> 0]
  /\ dependents = [t \in Task |-> {}]
  /\ notReady = {}
  /\ queue = <<>>
  /\ running = TRUE
  /\ at = [w \in Worker |-> "wait"]
  /\ held = [w \in Worker |-> NoTask]
  /\ call = [h \in Thread |-> Idle]
  /\ known = {}
  /\ deps = [t \in Task |-> {}]

\* The foreground thread until it destroys the pool, a worker in a work item.
MayCall(h) ==
  /\ call[h] = Idle
  /\ IF h = Main THEN running ELSE at[h] = "run"

\* A task being built belongs to one thread at a time.
Free(t) == \A h \in Thread : call[h].task # t

Locked(t) == \E w \in Worker : at[w] = "notify" /\ held[w] = t

\* Some shared_ptr to the task exists.
Alive(t) ==
  \/ t \in notReady
  \/ t \in ToSet(queue)
  \/ \E w \in Worker : held[w] = t
  \/ \E h \in Thread : call[h].dep = t

\* The first part of AddDependency: the dependency is counted if it is alive.
AddDependency(h, t, d) ==
  /\ MayCall(h) /\ Free(t)
  /\ state[t] = "NEW" /\ t \notin notReady
  /\ d \in known \ deps[t]
  /\ deps' = [deps EXCEPT ![t] = @ \cup {d}]
  /\ IF Alive(d)
       THEN /\ uncompleted' = [uncompleted EXCEPT ![t] = @ + 1]
            /\ call' = [call EXCEPT ![h] = [op |-> "link", task |-> t, dep |-> d]]
       ELSE UNCHANGED <<uncompleted, call>>
  /\ UNCHANGED <<state, dependents, notReady, queue, running, at, held, known>>

\* Seeded faults: a task is queued before it was handed in; with one
\* dependency still open.
DependencyCompletedAnyState(t) ==
  /\ uncompleted' = [uncompleted EXCEPT ![t] = @ - 1]
  /\ IF uncompleted[t] = 1
       THEN /\ state' = [state EXCEPT ![t] = "DEPENDENCIES_COMPLETED"]
            /\ notReady' = notReady \ {t}
            /\ queue' = Append(queue, t)
       ELSE UNCHANGED <<state, notReady, queue>>

DependencyCompletedEarly(t) ==
  /\ uncompleted' = [uncompleted EXCEPT ![t] = @ - 1]
  /\ IF uncompleted[t] <= 2 /\ state[t] = "DISPATCHED"
       THEN /\ state' = [state EXCEPT ![t] = "DEPENDENCIES_COMPLETED"]
            /\ notReady' = notReady \ {t}
            /\ queue' = Append(queue, t)
       ELSE UNCHANGED <<state, notReady, queue>>

\* OnDependenyCompleted, with NotifyDependenciesCompleted.
DependencyCompleted(t) ==
  /\ uncompleted' = [uncompleted EXCEPT ![t] = @ - 1]
  /\ IF uncompleted[t] = 1 /\ state[t] = "DISPATCHED"
       THEN /\ state' = [state EXCEPT ![t] = "DEPENDENCIES_COMPLETED"]
            /\ notReady' = notReady \ {t}
            /\ queue' = Append(queue, t)
       ELSE UNCHANGED <<state, notReady, queue>>

\* Seeded fault: a dependency that has completed meanwhile is waited for.
AddDependentTaskUnchecked(h) ==
  /\ call[h].op = "link"
  /\ ~Locked(call[h].dep)
  /\ dependents' = [dependents EXCEPT ![call[h].dep] = @ \cup {call[h].task}]
  /\ call' = [call EXCEPT ![h] = Idle]
  /\ UNCHANGED <<state, uncompleted, notReady, queue, running, at, held, known, deps>>

\* The second part, in the dependency: AddDependentTask.
AddDependentTask(h) ==
  /\ call[h].op = "link"
  /\ ~Locked(call[h].dep)
  /\ IF state[call[h].dep] = "COMPLETED"
       THEN /\ DependencyCompleted(call[h].task)
            /\ UNCHANGED dependents
       ELSE /\ dependents' =
                 [dependents EXCEPT ![call[h].dep] = @ \cup {call[h].task}]
            /\ UNCHANGED <<state, uncompleted, notReady, queue>>
  /\ call' = [call EXCEPT ![h] = Idle]
  /\ UNCHANGED <<running, at, held, known, deps>>

\* Schedule, under the pool's lock.
Insert(h, t) ==
  /\ MayCall(h) /\ Free(t)
  /\ state[t] = "NEW" /\ t \notin notReady
  /\ notReady' = notReady \cup {t}
  /\ call' = [call EXCEPT ![h] = [op |-> "insert", task |-> t, dep |-> NoTask]]
  /\ UNCHANGED <<state, uncompleted, dependents, queue, running, at, held, known, deps>>

\* Schedule, the rest: SetThreadPool under the task's lock.
SetThreadPool(h) ==
  /\ call[h].op = "insert"
  /\ LET t == call[h].task IN
       /\ IF uncompleted[t] = 0
            THEN /\ state' = [state EXCEPT ![t] = "DEPENDENCIES_COMPLETED"]
                 /\ notReady' = notReady \ {t}
                 /\ queue' = Append(queue, t)
            ELSE /\ state' = [state EXCEPT ![t] = "DISPATCHED"]
                 /\ UNCHANGED <<notReady, queue>>
       /\ known' = known \cup {t}
  /\ call' = [call EXCEPT ![h] = Idle]
  /\ UNCHANGED <<uncompleted, dependents, running, at, held, deps>>

\* DoWork: the next task is taken from the queue.
Take(w) ==
  /\ at[w] = "wait" /\ queue # <<>>
  /\ held' = [held EXCEPT ![w] = Head(queue)]
  /\ queue' = Tail(queue)
  /\ at' = [at EXCEPT ![w] = "taken"]
  /\ UNCHANGED <<state, uncompleted, dependents, notReady, running, call, known, deps>>

\* Seeded fault: running_ is looked at before the queue.
LeaveAtOnce(w) ==
  /\ at[w] = "wait" /\ ~running
  /\ at' = [at EXCEPT ![w] = "gone"]
  /\ UNCHANGED <<state, uncompleted, dependents, notReady, queue, running, held,
                 call, known, deps>>

\* DoWork: nothing to do, and the pool is being destroyed.
Leave(w) ==
  /\ at[w] = "wait" /\ queue = <<>> /\ ~running
  /\ at' = [at EXCEPT ![w] = "gone"]
  /\ UNCHANGED <<state, uncompleted, dependents, notReady, queue, running, held,
                 call, known, deps>>

\* Execute: the work item starts.
Run(w) ==
  /\ at[w] = "taken"
  /\ state' = [state EXCEPT ![held[w]] = "RUNNING"]
  /\ at' = [at EXCEPT ![w] = "run"]
  /\ UNCHANGED <<uncompleted, dependents, notReady, queue, running, held, call,
                 known, deps>>

\* It returns; the task is locked until all its dependents were told.
Complete(w) ==
  /\ at[w] = "run" /\ call[w] = Idle
  /\ state' = [state EXCEPT ![held[w]] = "COMPLETED"]
  /\ at' = [at EXCEPT ![w] = "notify"]
  /\ UNCHANGED <<uncompleted, dependents, notReady, queue, running, held, call,
                 known, deps>>

\* Execute: one dependent is told, in any order: the set is one of pointers.
TellDependent(w) ==
  /\ at[w] = "notify"
  /\ \E t \in dependents[held[w]] :
       /\ DependencyCompleted(t)
       /\ dependents' = [dependents EXCEPT ![held[w]] = @ \ {t}]
  /\ UNCHANGED <<running, at, held, call, known, deps>>

\* The lock is released and the shared_ptr dropped.
Release(w) ==
  /\ at[w] = "notify" /\ dependents[held[w]] = {}
  /\ at' = [at EXCEPT ![w] = "wait"]
  /\ held' = [held EXCEPT ![w] = NoTask]
  /\ UNCHANGED <<state, uncompleted, dependents, notReady, queue, running, call,
                 known, deps>>

\* ~ThreadPool by the foreground thread, which then waits in join.
Destroy ==
  /\ running /\ call[Main] = Idle
  /\ running' = FALSE
  /\ UNCHANGED <<state, uncompleted, dependents, notReady, queue, at, held, call,
                 known, deps>>

Joined == ~running /\ \A w \in Worker : at[w] = "gone"

\* Afterwards there is nothing left that could happen.
Finished == Joined /\ UNCHANGED vars

DoWork(w) == Take(w) \/ Leave(w) \/ Run(w) \/ Complete(w) \/ TellDependent(w) \/ Release(w)
EndCall(h) == AddDependentTask(h) \/ SetThreadPool(h)
BeginCall(h) == \E t \in Task : Insert(h, t) \/ \E d \in Task : AddDependency(h, t, d)

Next ==
  \/ \E h \in Thread : BeginCall(h) \/ EndCall(h)
  \/ \E w \in Worker : DoWork(w)
  \/ Destroy
  \/ Finished

Spec == Init /\ [][Next]_vars

\* Threads are scheduled and work items end.
Fairness ==
  /\ \A h \in Thread : WF_vars(EndCall(h))
  /\ \A w \in Worker : WF_vars(DoWork(w))

FairSpec == Spec /\ Fairness

-----------------------------------------------------------------------------
TypeOK ==
  /\ state \in [Task -> {"NEW", "DISPATCHED", "DEPENDENCIES_COMPLETED",
                         "RUNNING", "COMPLETED"}]
  /\ uncompleted \in [Task -> Nat]
  /\ dependents \in [Task -> SUBSET Task]
  /\ notReady \subseteq Task
  /\ queue \in Seq(Task)
  /\ running \in BOOLEAN
  /\ at \in [Worker -> {"wait", "taken", "run", "notify", "gone"}]
  /\ held \in [Worker -> Task \cup {NoTask}]
  /\ call \in [Thread -> Call]
  /\ known \subseteq Task
  /\ deps \in [Task -> SUBSET Task]

\* A raw pointer kept in dependent_tasks_ is never stale: the dependent is
\* still being built or is held by the pool, until it was told (task.cc:76-85,
\* 101-103 dereference it without any check).
NoDanglingDependent ==
  \A d, t \in Task : t \in dependents[d] => state[t] = "NEW" \/ t \in notReady

\* The CHECKs of task.cc and thread_pool.cc hold at every step: a task that
\* runs was ready and is told nothing any more; one that is ready or not
\* ready is in the right container, once (task.cc:55, 78, 90, 99;
\* thread_pool.cc:61, 72, 102).
Containers ==
  /\ \A t \in Task :
       /\ t \in notReady => state[t] = "DISPATCHED" \/ (state[t] = "NEW" /\ ~Free(t))
       /\ state[t] = "DISPATCHED" => t \in notReady
       /\ (state[t] = "DEPENDENCIES_COMPLETED") <=>
            (t \in ToSet(queue) \/ \E w \in Worker : held[w] = t /\ at[w] = "taken")
  /\ IsInjective(queue)
  /\ \A w \in Worker : (at[w] = "run") => state[held[w]] = "RUNNING"
  /\ \A v, w \in Worker : held[v] = held[w] => v = w \/ held[v] = NoTask

\* The destructor loses no task: when all threads have been joined, whatever
\* was handed in has been completed, also by work items that were still
\* running when it began (thread_pool.cc:47-56, 94-99).
JoinedWhenDone ==
  Joined => \A t \in Task : state[t] \in {"NEW", "COMPLETED"} /\ t \notin notReady

\* The pool keeps the promise of TaskGraph (task.h:37-63).
Graph == INSTANCE TaskGraph WITH
  status <- [t \in Task |->
    IF state[t] = "NEW" THEN "new"
    ELSE IF state[t] = "RUNNING" THEN "running"
    ELSE IF state[t] = "COMPLETED" THEN "done" ELSE "submitted"]
ImplementsTaskGraph == Graph!FairSpec
=============================================================================
