--------------------------- MODULE TaskPoolProofs ---------------------------
(***************************************************************************)
(* The thread pool runs tasks after what they depend on and loses none,    *)
(* for any number of tasks and workers.                                    *)
(*                                                                         *)
(* The counter of a task is the number of those that still owe it a call   *)
(* of OnDependenyCompleted: the tasks it is a dependent of and those some  *)
(* thread is just linking it to.  The invariant says so, says that every   *)
(* dependency owes or has completed, where the pool keeps a task in each   *)
(* of its states, and that dependencies have no cycle.                     *)
(***************************************************************************)
EXTENDS TaskPool, TLAPS, FiniteSetTheorems, SequenceTheorems, WellFoundedInduction

Linking(t, d) ==
  \E h \in Thread : call[h].op = "link" /\ call[h].task = t /\ call[h].dep = d

Owed(t) == {d \in Task : t \in dependents[d] \/ Linking(t, d)}

Calls ==
  /\ \A h \in Thread :
       /\ call[h].op = "idle" => call[h] = Idle
       /\ call[h].op # "idle" =>
            /\ call[h].task \in Task /\ state[call[h].task] = "NEW"
            /\ IF h = Main THEN running ELSE at[h] = "run"
       /\ call[h].op = "link" =>
            /\ call[h].dep \in deps[call[h].task]
            /\ call[h].task \notin notReady
            /\ call[h].task \notin dependents[call[h].dep]
       /\ call[h].op = "insert" => call[h].task \in notReady
  /\ \A g, h \in Thread : call[g].task = call[h].task => g = h \/ call[g].task = NoTask

Inserting(t) == \E h \in Thread : call[h].op = "insert" /\ call[h].task = t

Pool ==
  /\ \A t \in notReady : state[t] = "DISPATCHED" \/ (state[t] = "NEW" /\ Inserting(t))
  /\ \A t \in Task : state[t] = "DISPATCHED" => t \in notReady
  /\ \A t \in ToSet(queue) : state[t] = "DEPENDENCIES_COMPLETED"
  /\ \A t \in Task :
       state[t] = "DEPENDENCIES_COMPLETED" =>
         t \in ToSet(queue) \/ \E w \in Worker : held[w] = t /\ at[w] = "taken"
  /\ \A t \in Task :
       state[t] = "RUNNING" => \E w \in Worker : held[w] = t /\ at[w] = "run"
  /\ IsInjective(queue)

Workers ==
  /\ \A w \in Worker :
       /\ held[w] = NoTask <=> at[w] \in {"wait", "gone"}
       /\ at[w] = "taken" =>
            state[held[w]] = "DEPENDENCIES_COMPLETED" /\ held[w] \notin ToSet(queue)
       /\ at[w] = "run" => state[held[w]] = "RUNNING"
       /\ at[w] = "notify" => state[held[w]] = "COMPLETED"
       /\ at[w] = "gone" => ~running
  /\ \A v, w \in Worker : held[v] = held[w] => v = w \/ held[v] = NoTask
  /\ (\A w \in Worker : at[w] = "gone") => queue = <<>>

Edges ==
  /\ \A t \in Task : deps[t] \subseteq known
  /\ \A t \in known : state[t] # "NEW"
  /\ \A d, t \in Task :
       t \in dependents[d] => d \in deps[t] /\ state[t] \in {"NEW", "DISPATCHED"}
  /\ \A t \in Task : \A d \in deps[t] : state[d] = "COMPLETED" \/ d \in Owed(t)
  /\ \A d \in Task : state[d] = "COMPLETED" => dependents[d] = {} \/ Locked(d)

Counted ==
  \A t \in Task :
    /\ uncompleted[t] = Cardinality(Owed(t))
    /\ state[t] = "DISPATCHED" => Owed(t) # {}
    /\ state[t] \notin {"NEW", "DISPATCHED"} => Owed(t) = {}

Acyclic ==
  \E rank \in [Task -> Nat] : \A t \in Task : \A d \in deps[t] : rank[d] < rank[t]

IInv == TypeOK /\ Calls /\ Pool /\ Workers /\ Edges /\ Counted /\ Acyclic

-----------------------------------------------------------------------------
(* Sequences and numbers                                                   *)

LEMMA SmallestOf ==
  \A S \in SUBSET Nat : S # {} => \E m \in S : \A k \in S : m <= k
<1> DEFINE R == {ss \in Nat \X Nat : ss[1] < ss[2]}
<1>1. IsWellFoundedOn(R, Nat)
  BY NatLessThanWellFounded, Zenon DEF OpToRel
<1> HIDE DEF R
<1> SUFFICES ASSUME NEW S \in SUBSET Nat, S # {}
             PROVE  \E m \in S : \A k \in S : m <= k
  OBVIOUS
<1>2. PICK m \in S : \A k \in S : ~(<<k, m>> \in R)
  BY <1>1, WFMin
<1>3. ASSUME NEW k \in S PROVE m <= k
  <2>1. ~(k < m)
    BY <1>2 DEF R
  <2> QED
    BY <2>1
<1> QED
  BY <1>2, <1>3

\* A task put into the queue at its end.
LEMMA AppendTask ==
  ASSUME NEW q \in Seq(Task), NEW t \in Task
  PROVE  /\ Append(q, t) \in Seq(Task)
         /\ ToSet(Append(q, t)) = ToSet(q) \cup {t}
         /\ IsInjective(q) /\ t \notin ToSet(q) => IsInjective(Append(q, t))
         /\ Append(q, t) # <<>>
<1> DEFINE r == Append(q, t)
<1>1. /\ r \in Seq(Task) /\ r # <<>> /\ Len(r) = Len(q) + 1
      /\ \A i \in 1..Len(q) : r[i] = q[i]
      /\ r[Len(q) + 1] = t
      /\ Len(q) \in Nat /\ DOMAIN q = 1..Len(q) /\ DOMAIN r = 1..Len(r)
  BY AppendProperties, LenProperties
<1> HIDE DEF r
<1>2. \A i \in DOMAIN r : i \in DOMAIN q \/ i = Len(q) + 1
  BY <1>1
<1>3. ToSet(r) = ToSet(q) \cup {t}
  <2>1. \A i \in DOMAIN q : i \in DOMAIN r /\ r[i] = q[i]
    BY <1>1
  <2>2. Len(q) + 1 \in DOMAIN r
    BY <1>1
  <2> QED
    BY <1>1, <1>2, <2>1, <2>2 DEF ToSet
<1>4. IsInjective(q) /\ t \notin ToSet(q) => IsInjective(r)
  <2> SUFFICES ASSUME IsInjective(q), t \notin ToSet(q),
                      NEW i \in DOMAIN r, NEW j \in DOMAIN r, r[i] = r[j]
               PROVE  i = j
    BY DEF IsInjective
  <2>1. \A k \in DOMAIN q : q[k] # t /\ r[k] = q[k]
    BY <1>1 DEF ToSet
  <2>2. CASE i \in DOMAIN q /\ j \in DOMAIN q
    BY <2>1, <2>2 DEF IsInjective
  <2> QED
    BY <1>1, <1>2, <2>1, <2>2
<1> QED
  BY <1>1, <1>3, <1>4 DEF r

\* The head taken off.
LEMMA TakeHead ==
  ASSUME NEW q \in Seq(Task), q # <<>>, IsInjective(q)
  PROVE  /\ Tail(q) \in Seq(Task)
         /\ Head(q) \in Task /\ Head(q) \in ToSet(q)
         /\ ToSet(Tail(q)) = ToSet(q) \ {Head(q)}
         /\ IsInjective(Tail(q))
<1> DEFINE r == Tail(q)
<1>1. /\ r \in Seq(Task) /\ Head(q) \in Task /\ Head(q) = q[1]
      /\ Len(r) = Len(q) - 1 /\ \A i \in 1..Len(r) : r[i] = q[i + 1]
      /\ Len(q) \in Nat /\ Len(q) # 0
      /\ DOMAIN q = 1..Len(q) /\ DOMAIN r = 1..Len(r)
  BY HeadTailProperties, LenProperties, EmptySeq
<1> HIDE DEF r
<1>2. /\ 1 \in DOMAIN q
      /\ \A i \in DOMAIN r : i \in Int /\ i + 1 \in DOMAIN q /\ i + 1 # 1 /\ r[i] = q[i + 1]
      /\ \A i \in DOMAIN q : i \in Int /\ (i # 1 => i - 1 \in DOMAIN r)
  BY <1>1
<1>3. \A i \in DOMAIN q : i # 1 => r[i - 1] = q[i]
  <2> SUFFICES ASSUME NEW i \in DOMAIN q, i # 1 PROVE r[i - 1] = q[i]
    OBVIOUS
  <2>1. i - 1 \in DOMAIN r /\ (i - 1) + 1 = i
    BY <1>2
  <2> QED
    BY <1>2, <2>1
<1>4. \A i \in DOMAIN q : i # 1 => q[i] # q[1]
  BY <1>2 DEF IsInjective
<1>5. ToSet(r) = ToSet(q) \ {Head(q)}
  <2>1. \A x \in ToSet(r) : x \in ToSet(q) /\ x # Head(q)
    BY <1>1, <1>2, <1>4 DEF ToSet
  <2>2. ASSUME NEW x \in ToSet(q), x # Head(q) PROVE x \in ToSet(r)
    <3>1. PICK i \in DOMAIN q : x = q[i]
      BY DEF ToSet
    <3>2. i # 1 /\ i - 1 \in DOMAIN r /\ r[i - 1] = x
      BY <1>1, <1>2, <1>3, <2>2, <3>1
    <3> QED
      BY <3>2 DEF ToSet
  <2> QED
    BY <2>1, <2>2
<1>6. IsInjective(r)
  <2> SUFFICES ASSUME NEW i \in DOMAIN r, NEW j \in DOMAIN r, r[i] = r[j]
               PROVE  i = j
    BY DEF IsInjective
  <2>1. i + 1 = j + 1
    BY <1>2 DEF IsInjective
  <2> QED
    BY <1>2, <2>1
<1>7. Head(q) \in ToSet(q)
  BY <1>1, <1>2 DEF ToSet
<1> QED
  BY <1>1, <1>5, <1>6, <1>7 DEF r

LEMMA OwedFinite ==
  ASSUME NEW t \in Task
  PROVE  IsFiniteSet(Owed(t)) /\ Cardinality(Owed(t)) \in Nat
<1>1. Owed(t) \subseteq Task
  BY DEF Owed
<1> QED
  BY <1>1, PoolAssumption, FS_Subset, FS_CardinalityType

-----------------------------------------------------------------------------
(* The initial state and the steps that leave the edges alone              *)

LEMMA InitInv == Init => IInv
<1> SUFFICES ASSUME Init PROVE IInv
  OBVIOUS
<1> USE PoolAssumption
<1>1. TypeOK
  <2>1. queue \in Seq(Task)
    BY DEF Init
  <2>2. call \in [Thread -> Call]
    BY DEF Init, Call, Idle
  <2> QED
    BY <2>1, <2>2 DEF Init, TypeOK
<1>2. ToSet(queue) = {} /\ IsInjective(queue)
  BY DEF Init, ToSet, IsInjective
<1>3. Calls
  BY DEF Init, Calls, Idle
<1>4. \A t \in Task : Owed(t) = {}
  BY DEF Init, Owed, Linking, Idle
<1>5. Pool /\ Edges
  BY <1>2 DEF Init, Pool, Edges
<1>6. Workers
  BY <1>2 DEF Init, Workers
<1>7. Counted
  BY <1>4, FS_EmptySet DEF Init, Counted
<1>8. Acyclic
  <2>1. [t \in Task |-> 0] \in [Task -> Nat]
    OBVIOUS
  <2> QED
    BY <2>1 DEF Init, Acyclic
<1> QED
  BY <1>1, <1>3, <1>5, <1>6, <1>7, <1>8 DEF IInv

LEMMA OwedSame ==
  ASSUME UNCHANGED <<dependents, call>>
  PROVE  \A t \in Task : Owed(t)' = Owed(t)
  BY DEF Owed, Linking

LEMMA AcyclicSame ==
  ASSUME Acyclic, UNCHANGED deps
  PROVE  Acyclic'
  BY DEF Acyclic

LEMMA TakeStep ==
  ASSUME IInv, NEW w \in Worker, Take(w)
  PROVE  IInv'
<1> DEFINE t == Head(queue)
<1>1. /\ at[w] = "wait" /\ queue # <<>>
      /\ held' = [held EXCEPT ![w] = t]
      /\ queue' = Tail(queue)
      /\ at' = [at EXCEPT ![w] = "taken"]
      /\ UNCHANGED <<state, uncompleted, dependents, notReady, running, call, known, deps>>
  BY DEF Take
<1>2. TypeOK /\ Calls /\ Pool /\ Workers /\ Edges /\ Counted /\ Acyclic
  BY DEF IInv
<1>3. /\ queue' \in Seq(Task) /\ t \in Task /\ t \in ToSet(queue)
      /\ ToSet(queue') = ToSet(queue) \ {t}
      /\ IsInjective(queue')
  BY <1>1, <1>2, TakeHead DEF TypeOK, Pool
<1> HIDE DEF t
<1>4. TypeOK'
  BY <1>1, <1>2, <1>3 DEF TypeOK
<1>5. /\ at \in [Worker -> {"wait", "taken", "run", "notify", "gone"}]
      /\ held \in [Worker -> Task \cup {NoTask}]
      /\ \A v \in Worker : v # w => at'[v] = at[v] /\ held'[v] = held[v]
      /\ at'[w] = "taken" /\ held'[w] = t
      /\ t # NoTask /\ Main \notin Worker
  BY <1>1, <1>2, <1>3, PoolAssumption DEF TypeOK
<1>6. \A v \in Worker : v # w => held[v] # t
  BY <1>2, <1>3, <1>5 DEF Workers, Pool
<1>7. Calls'
  BY <1>1, <1>2, <1>5 DEF Calls, Thread
<1>8. Pool'
  BY <1>1, <1>2, <1>3, <1>5 DEF Pool, Inserting
<1>9. Workers'
  BY <1>1, <1>2, <1>3, <1>5, <1>6 DEF Workers, Pool
<1>10. \A u \in Task : Owed(u)' = Owed(u)
  BY <1>1, OwedSame
<1>11. Edges'
  BY <1>1, <1>2, <1>5, <1>10 DEF Edges, Locked
<1>12. Counted'
  BY <1>1, <1>2, <1>10 DEF Counted
<1>13. Acyclic'
  BY <1>1, <1>2, AcyclicSame
<1> QED
  BY <1>4, <1>7, <1>8, <1>9, <1>11, <1>12, <1>13 DEF IInv

\* A worker leaves when the pool is being destroyed and nothing is queued.
LEMMA LeaveStep ==
  ASSUME IInv, NEW w \in Worker, Leave(w)
  PROVE  IInv'
<1>1. /\ at[w] = "wait" /\ queue = <<>> /\ ~running
      /\ at' = [at EXCEPT ![w] = "gone"]
      /\ UNCHANGED <<state, uncompleted, dependents, notReady, queue, running, held,
                     call, known, deps>>
  BY DEF Leave
<1>2. TypeOK /\ Calls /\ Pool /\ Workers /\ Edges /\ Counted /\ Acyclic
  BY DEF IInv
<1>3. TypeOK'
  BY <1>1, <1>2 DEF TypeOK
<1>4. /\ at \in [Worker -> {"wait", "taken", "run", "notify", "gone"}]
      /\ \A v \in Worker : v # w => at'[v] = at[v]
      /\ at'[w] = "gone"
      /\ Main \notin Worker
  BY <1>1, <1>2, PoolAssumption DEF TypeOK
<1>5. Calls'
  BY <1>1, <1>2, <1>4 DEF Calls, Thread
<1>6. Pool'
  BY <1>1, <1>2, <1>4 DEF Pool, Inserting
<1>7. Workers'
  BY <1>1, <1>2, <1>4 DEF Workers
<1>8. \A u \in Task : Owed(u)' = Owed(u)
  BY <1>1, OwedSame
<1>9. Edges' /\ Counted'
  BY <1>1, <1>2, <1>4, <1>8 DEF Edges, Counted, Locked
<1>10. Acyclic'
  BY <1>1, <1>2, AcyclicSame
<1> QED
  BY <1>3, <1>5, <1>6, <1>7, <1>9, <1>10 DEF IInv

LEMMA RunStep ==
  ASSUME IInv, NEW w \in Worker, Run(w)
  PROVE  IInv'
<1> DEFINE t == held[w]
<1>1. /\ at[w] = "taken"
      /\ state' = [state EXCEPT ![t] = "RUNNING"]
      /\ at' = [at EXCEPT ![w] = "run"]
      /\ UNCHANGED <<uncompleted, dependents, notReady, queue, running, held, call,
                     known, deps>>
  BY DEF Run
<1>2. TypeOK /\ Calls /\ Pool /\ Workers /\ Edges /\ Counted /\ Acyclic
  BY DEF IInv
<1>3. /\ at \in [Worker -> {"wait", "taken", "run", "notify", "gone"}]
      /\ held \in [Worker -> Task \cup {NoTask}]
      /\ \A v \in Worker : v # w => at'[v] = at[v]
      /\ at'[w] = "run"
      /\ NoTask \notin Task /\ Main \notin Worker
      /\ ToSet(queue) \subseteq Task
  BY <1>1, <1>2, PoolAssumption DEF TypeOK, ToSet
<1>4. t \in Task /\ state[t] = "DEPENDENCIES_COMPLETED" /\ t \notin ToSet(queue)
  BY <1>1, <1>2, <1>3 DEF Workers
<1> HIDE DEF t
<1>5. TypeOK'
  BY <1>1, <1>2, <1>4 DEF TypeOK
<1>6. state'[t] = "RUNNING" /\ \A u \in Task : u # t => state'[u] = state[u]
  BY <1>1, <1>2, <1>4 DEF TypeOK
<1>7. notReady \subseteq Task /\ known \subseteq Task /\ call \in [Thread -> Call]
  BY <1>2 DEF TypeOK
<1>8. Calls'
  BY <1>1, <1>2, <1>3, <1>4, <1>6, <1>7 DEF Calls, Thread, Call
<1>9. Pool'
  BY <1>1, <1>2, <1>3, <1>4, <1>6, <1>7 DEF Pool, Inserting, t
<1>10. Workers'
  BY <1>1, <1>2, <1>3, <1>4, <1>6 DEF Workers, t
<1>11. \A u \in Task : Owed(u)' = Owed(u)
  BY <1>1, OwedSame
<1>12. Edges'
  BY <1>1, <1>2, <1>3, <1>4, <1>6, <1>7, <1>11 DEF Edges, Locked, TypeOK
<1>13. Counted'
  BY <1>1, <1>2, <1>4, <1>6, <1>11 DEF Counted
<1>14. Acyclic'
  BY <1>1, <1>2, AcyclicSame
<1> QED
  BY <1>5, <1>8, <1>9, <1>10, <1>12, <1>13, <1>14 DEF IInv

LEMMA CompleteStep ==
  ASSUME IInv, NEW w \in Worker, Complete(w)
  PROVE  IInv'
<1> DEFINE t == held[w]
<1>1. /\ at[w] = "run" /\ call[w] = Idle
      /\ state' = [state EXCEPT ![t] = "COMPLETED"]
      /\ at' = [at EXCEPT ![w] = "notify"]
      /\ UNCHANGED <<uncompleted, dependents, notReady, queue, running, held, call,
                     known, deps>>
  BY DEF Complete
<1>2. TypeOK /\ Calls /\ Pool /\ Workers /\ Edges /\ Counted /\ Acyclic
  BY DEF IInv
<1>3. /\ at \in [Worker -> {"wait", "taken", "run", "notify", "gone"}]
      /\ held \in [Worker -> Task \cup {NoTask}]
      /\ \A v \in Worker : v # w => at'[v] = at[v]
      /\ at'[w] = "notify"
      /\ NoTask \notin Task /\ Main \notin Worker
      /\ ToSet(queue) \subseteq Task
  BY <1>1, <1>2, PoolAssumption DEF TypeOK, ToSet
<1>4. t \in Task /\ state[t] = "RUNNING" /\ t \notin ToSet(queue)
  BY <1>1, <1>2, <1>3 DEF Workers, Pool
<1> HIDE DEF t
<1>5. TypeOK'
  BY <1>1, <1>2, <1>4 DEF TypeOK
<1>6. state'[t] = "COMPLETED" /\ \A u \in Task : u # t => state'[u] = state[u]
  BY <1>1, <1>2, <1>4 DEF TypeOK
<1>7. notReady \subseteq Task /\ known \subseteq Task /\ call \in [Thread -> Call]
  BY <1>2 DEF TypeOK
<1>8. \A h \in Thread : call[h].op # "idle" => h # w
  BY <1>1 DEF Idle
<1>9. Calls'
  BY <1>1, <1>2, <1>3, <1>4, <1>6, <1>7, <1>8 DEF Calls, Thread, Call
<1>10. Pool'
  BY <1>1, <1>2, <1>3, <1>4, <1>6, <1>7 DEF Pool, Inserting, t
<1>11. Workers'
  BY <1>1, <1>2, <1>3, <1>4, <1>6 DEF Workers, t
<1>12. \A u \in Task : Owed(u)' = Owed(u)
  BY <1>1, OwedSame
<1>13. Edges'
  <2>1. \A d \in Task : d = t \/ Locked(d) => Locked(d)'
    BY <1>1, <1>3 DEF Locked, t
  <2>2. /\ \A u \in Task : deps[u] \subseteq Task
        /\ \A u \in Task : state[u] = "COMPLETED" => state'[u] = "COMPLETED"
        /\ \A u \in Task : state[u] \in {"NEW", "DISPATCHED"} => u # t
        /\ \A u \in Task : state[u] # "NEW" => state'[u] # "NEW"
    BY <1>2, <1>4, <1>6 DEF TypeOK
  <2>3. \A d \in Task : state'[d] = "COMPLETED" => d = t \/ state[d] = "COMPLETED"
    BY <1>6
  <2>4. /\ \A u \in known : state[u] # "NEW" /\ u \in Task
        /\ \A u \in Task : \A d \in deps[u] : state[d] = "COMPLETED" \/ d \in Owed(u)
    BY <1>2, <1>7 DEF Edges
  <2>5. \A u \in Task : \A d \in deps[u] : state'[d] = "COMPLETED" \/ d \in Owed(u)'
    BY <1>12, <2>2, <2>4
  <2>6. \A d, u \in Task :
          u \in dependents[d] => d \in deps[u] /\ state'[u] \in {"NEW", "DISPATCHED"}
    <3>1. \A u \in Task : state[u] \in {"NEW", "DISPATCHED"} => state'[u] = state[u]
      BY <1>6, <2>2
    <3>2. \A d, u \in Task :
            u \in dependents[d] => d \in deps[u] /\ state[u] \in {"NEW", "DISPATCHED"}
      BY <1>2 DEF Edges
    <3> QED
      BY <3>1, <3>2
  <2>7. \A d \in Task : state'[d] = "COMPLETED" => dependents[d] = {} \/ Locked(d)'
    BY <1>2, <2>1, <2>3 DEF Edges
  <2>8. \A u \in Task : deps[u] \subseteq known
    BY <1>2 DEF Edges
  <2> QED
    BY <1>1, <2>2, <2>4, <2>5, <2>6, <2>7, <2>8 DEF Edges
<1>14. Counted'
  BY <1>1, <1>2, <1>4, <1>6, <1>12 DEF Counted
<1>15. Acyclic'
  BY <1>1, <1>2, AcyclicSame
<1> QED
  BY <1>5, <1>9, <1>10, <1>11, <1>13, <1>14, <1>15 DEF IInv

LEMMA ReleaseStep ==
  ASSUME IInv, NEW w \in Worker, Release(w)
  PROVE  IInv'
<1>1. /\ at[w] = "notify" /\ dependents[held[w]] = {}
      /\ at' = [at EXCEPT ![w] = "wait"]
      /\ held' = [held EXCEPT ![w] = NoTask]
      /\ UNCHANGED <<state, uncompleted, dependents, notReady, queue, running, call,
                     known, deps>>
  BY DEF Release
<1>2. TypeOK /\ Calls /\ Pool /\ Workers /\ Edges /\ Counted /\ Acyclic
  BY DEF IInv
<1>3. /\ at \in [Worker -> {"wait", "taken", "run", "notify", "gone"}]
      /\ held \in [Worker -> Task \cup {NoTask}]
      /\ \A v \in Worker : v # w => at'[v] = at[v] /\ held'[v] = held[v]
      /\ at'[w] = "wait" /\ held'[w] = NoTask
      /\ NoTask \notin Task /\ Main \notin Worker
      /\ ToSet(queue) \subseteq Task
  BY <1>1, <1>2, PoolAssumption DEF TypeOK, ToSet
<1>4. TypeOK'
  BY <1>1, <1>2, <1>3 DEF TypeOK
<1>5. Calls'
  BY <1>1, <1>2, <1>3 DEF Calls, Thread
<1>6. Pool'
  BY <1>1, <1>2, <1>3 DEF Pool, Inserting
<1>7. Workers'
  BY <1>1, <1>2, <1>3 DEF Workers
<1>8. \A u \in Task : Owed(u)' = Owed(u)
  BY <1>1, OwedSame
<1>9. Edges'
  BY <1>1, <1>2, <1>3, <1>8 DEF Edges, Locked
<1>10. Counted'
  BY <1>1, <1>2, <1>8 DEF Counted
<1>11. Acyclic'
  BY <1>1, <1>2, AcyclicSame
<1> QED
  BY <1>4, <1>5, <1>6, <1>7, <1>9, <1>10, <1>11 DEF IInv

LEMMA DestroyStep ==
  ASSUME IInv, Destroy
  PROVE  IInv'
<1>1. /\ call[Main] = Idle /\ running' = FALSE
      /\ UNCHANGED <<state, uncompleted, dependents, notReady, queue, at, held, call,
                     known, deps>>
  BY DEF Destroy
<1>2. TypeOK /\ Calls /\ Pool /\ Workers /\ Edges /\ Counted /\ Acyclic
  BY DEF IInv
<1>3. TypeOK'
  BY <1>1, <1>2 DEF TypeOK
<1>4. \A h \in Thread : call[h].op # "idle" => h # Main
  BY <1>1 DEF Idle
<1>5. Calls'
  BY <1>1, <1>2, <1>4 DEF Calls
<1>6. Pool'
  BY <1>1, <1>2 DEF Pool, Inserting
<1>7. Workers'
  BY <1>1, <1>2 DEF Workers
<1>8. \A u \in Task : Owed(u)' = Owed(u)
  BY <1>1, OwedSame
<1>9. Edges' /\ Counted'
  BY <1>1, <1>2, <1>8 DEF Edges, Counted, Locked
<1>10. Acyclic'
  BY <1>1, <1>2, AcyclicSame
<1> QED
  BY <1>3, <1>5, <1>6, <1>7, <1>9, <1>10 DEF IInv

\* A task is handed in under the pool's lock.
LEMMA InsertStep ==
  ASSUME IInv, NEW h \in Thread, NEW t \in Task, Insert(h, t)
  PROVE  IInv'
<1> DEFINE c == [op |-> "insert", task |-> t, dep |-> NoTask]
<1>1. /\ call[h] = Idle /\ IF h = Main THEN running ELSE at[h] = "run"
      /\ state[t] = "NEW" /\ t \notin notReady
      /\ \A g \in Thread : call[g].task # t
      /\ notReady' = notReady \cup {t}
      /\ call' = [call EXCEPT ![h] = c]
      /\ UNCHANGED <<state, uncompleted, dependents, queue, running, at, held, known, deps>>
  BY DEF Insert, MayCall, Free
<1>2. TypeOK /\ Calls /\ Pool /\ Workers /\ Edges /\ Counted /\ Acyclic
  BY DEF IInv
<1>3. /\ c \in Call /\ c.op = "insert" /\ c.task = t
      /\ Idle.op = "idle" /\ Idle.task = NoTask
  BY DEF Call, Idle
<1>4. /\ call \in [Thread -> Call]
      /\ \A g \in Thread : g # h => call'[g] = call[g]
      /\ call'[h] = c
      /\ NoTask \notin Task
  BY <1>1, <1>2, PoolAssumption DEF TypeOK
<1> HIDE DEF c
<1>5. TypeOK'
  BY <1>1, <1>2, <1>3, <1>4 DEF TypeOK
<1>6. Calls'
  BY <1>1, <1>2, <1>3, <1>4 DEF Calls
<1>7. Pool'
  <2>1. \A u \in Task : Inserting(u) => Inserting(u)'
    BY <1>1, <1>3, <1>4 DEF Inserting
  <2>2. Inserting(t)'
    BY <1>3, <1>4 DEF Inserting
  <2>3. \A u \in notReady' : u = t \/ u \in notReady
    BY <1>1
  <2>4. notReady \subseteq Task
    BY <1>2 DEF TypeOK
  <2> QED
    BY <1>1, <1>2, <2>1, <2>2, <2>3, <2>4 DEF Pool
<1>8. Workers'
  BY <1>1, <1>2 DEF Workers
<1>9. \A u \in Task : Owed(u)' = Owed(u)
  BY <1>1, <1>3, <1>4 DEF Owed, Linking
<1>10. Edges' /\ Counted'
  BY <1>1, <1>2, <1>9 DEF Edges, Counted, Locked
<1>11. Acyclic'
  BY <1>1, <1>2, AcyclicSame
<1> QED
  BY <1>5, <1>6, <1>7, <1>8, <1>10, <1>11 DEF IInv

\* It learns of the pool, and is ready at once or waits.
LEMMA SetThreadPoolStep ==
  ASSUME IInv, NEW h \in Thread, SetThreadPool(h)
  PROVE  IInv'
<1> DEFINE t == call[h].task
           s == IF uncompleted[t] = 0 THEN "DEPENDENCIES_COMPLETED" ELSE "DISPATCHED"
<1>1. /\ call[h].op = "insert"
      /\ state' = [state EXCEPT ![t] = s]
      /\ IF uncompleted[t] = 0
           THEN notReady' = notReady \ {t} /\ queue' = Append(queue, t)
           ELSE UNCHANGED <<notReady, queue>>
      /\ known' = known \cup {t}
      /\ call' = [call EXCEPT ![h] = Idle]
      /\ UNCHANGED <<uncompleted, dependents, running, at, held, deps>>
  BY DEF SetThreadPool
<1>2. TypeOK /\ Calls /\ Pool /\ Workers /\ Edges /\ Counted /\ Acyclic
  BY DEF IInv
<1>3. /\ t \in Task /\ state[t] = "NEW" /\ t \in notReady /\ t \notin ToSet(queue)
      /\ \A v \in Worker : held[v] # t \/ at[v] \notin {"taken", "run", "notify"}
      /\ \A v \in Worker : held[v] # t
  <2>1. t \in Task /\ state[t] = "NEW" /\ t \in notReady /\ t \notin ToSet(queue)
    BY <1>1, <1>2 DEF Calls, Pool
  <2>2. \A v \in Worker : held[v] # t \/ at[v] \notin {"taken", "run", "notify"}
    <3>1. \A v \in Worker :
            at[v] \in {"taken", "run", "notify"} => state[held[v]] # "NEW"
      BY <1>2 DEF Workers
    <3> QED
      BY <2>1, <3>1
  <2>3. \A v \in Worker : held[v] # t
    BY <1>2, <2>1, <2>2, PoolAssumption DEF Workers, TypeOK
  <2> QED
    BY <2>1, <2>2, <2>3
<1>4. /\ call \in [Thread -> Call]
      /\ \A g \in Thread : g # h => call'[g] = call[g]
      /\ call'[h] = Idle
      /\ Idle \in Call /\ Idle.op = "idle" /\ Idle.task = NoTask
      /\ NoTask \notin Task
  BY <1>1, <1>2, PoolAssumption DEF TypeOK, Call, Idle
<1> HIDE DEF t
<1>5. /\ uncompleted[t] = 0 =>
           /\ queue' \in Seq(Task) /\ ToSet(queue') = ToSet(queue) \cup {t}
           /\ IsInjective(queue') /\ queue' # <<>>
      /\ uncompleted[t] # 0 => queue' = queue
  <2>1. queue \in Seq(Task) /\ IsInjective(queue)
    BY <1>2 DEF TypeOK, Pool
  <2>2. /\ Append(queue, t) \in Seq(Task) /\ ToSet(Append(queue, t)) = ToSet(queue) \cup {t}
        /\ IsInjective(Append(queue, t)) /\ Append(queue, t) # <<>>
    BY <1>3, <2>1, AppendTask
  <2> QED
    BY <1>1, <2>2
<1>6. uncompleted[t] = 0 <=> Owed(t) = {}
  <2>1. uncompleted[t] = Cardinality(Owed(t))
    BY <1>2, <1>3 DEF Counted
  <2>2. IsFiniteSet(Owed(t))
    BY <1>3, OwedFinite
  <2> QED
    BY <2>1, <2>2, FS_EmptySet
<1>7. /\ s \in {"DEPENDENCIES_COMPLETED", "DISPATCHED"}
      /\ s = "DEPENDENCIES_COMPLETED" <=> uncompleted[t] = 0
  OBVIOUS
<1> HIDE DEF s
<1>8. state'[t] = s /\ \A u \in Task : u # t => state'[u] = state[u]
  BY <1>1, <1>2, <1>3 DEF TypeOK
<1>9. TypeOK'
  <2>1. state' \in [Task -> {"NEW", "DISPATCHED", "DEPENDENCIES_COMPLETED",
                             "RUNNING", "COMPLETED"}]
    BY <1>1, <1>2, <1>7 DEF TypeOK
  <2>2. call' \in [Thread -> Call]
    BY <1>1, <1>4
  <2>3. notReady' \subseteq Task /\ queue' \in Seq(Task) /\ known' \subseteq Task
    BY <1>1, <1>2, <1>3, <1>5 DEF TypeOK
  <2> QED
    BY <1>1, <1>2, <2>1, <2>2, <2>3 DEF TypeOK
<1>10. \A g \in Thread : g # h => call[g].task # t
  BY <1>2, <1>3, <1>4 DEF Calls, t
<1>11. Calls'
  BY <1>1, <1>2, <1>3, <1>4, <1>7, <1>8, <1>10 DEF Calls
<1>12. Pool'
  <2>1. \A u \in Task : u # t => (Inserting(u) => Inserting(u)')
    BY <1>1, <1>4 DEF Inserting, t
  <2>2. notReady \subseteq Task /\ ToSet(queue) \subseteq Task
    BY <1>2 DEF TypeOK, ToSet
  <2> QED
    BY <1>1, <1>2, <1>3, <1>5, <1>7, <1>8, <2>1, <2>2 DEF Pool
<1>13. Workers'
  <2>1. h # Main => at[h] # "gone" /\ h \in Worker
    BY <1>1, <1>2 DEF Calls, Thread
  <2>2. (\A v \in Worker : at[v] = "gone") => FALSE
    <3>1. h = Main => running
      BY <1>1, <1>2 DEF Calls
    <3> QED
      BY <1>2, <2>1, <3>1, PoolAssumption DEF Workers
  <2> QED
    BY <1>1, <1>2, <1>3, <1>5, <1>7, <1>8, <2>2, PoolAssumption DEF Workers, TypeOK
<1>14. \A u \in Task : Owed(u)' = Owed(u)
  BY <1>1, <1>4 DEF Owed, Linking
<1>15. Edges'
  <2>1. t \notin known
    BY <1>2, <1>3 DEF Edges
  <2>2. \A d \in Task : t \in dependents[d] => s = "DISPATCHED"
    BY <1>6, <1>7 DEF Owed
  <2>3. \A u \in Task : deps[u] \subseteq Task
    BY <1>2 DEF TypeOK
  <2>4. s # "COMPLETED" /\ s # "NEW" /\ known \subseteq Task
    BY <1>2, <1>7 DEF TypeOK
  <2> QED
    BY <1>1, <1>2, <1>3, <1>8, <1>14, <2>1, <2>2, <2>3, <2>4 DEF Edges, Locked
<1>16. Counted'
  BY <1>1, <1>2, <1>3, <1>6, <1>7, <1>8, <1>14 DEF Counted
<1>17. Acyclic'
  BY <1>1, <1>2, AcyclicSame
<1> QED
  BY <1>9, <1>11, <1>12, <1>13, <1>15, <1>16, <1>17 DEF IInv

-----------------------------------------------------------------------------
(* The steps that draw an edge or take one away                            *)

\* The rank of a task rises above that of a new dependency; nobody depends
\* on a task that is still being built.
LEMMA AcyclicEdge ==
  ASSUME Acyclic, TypeOK, NEW t \in Task, NEW d \in Task, d # t,
         deps' = [deps EXCEPT ![t] = @ \cup {d}],
         \A u \in Task : t \notin deps[u]
  PROVE  Acyclic'
<1>1. PICK rank \in [Task -> Nat] : \A u \in Task : \A e \in deps[u] : rank[e] < rank[u]
  BY DEF Acyclic
<1> DEFINE r == IF rank[d] < rank[t] THEN rank[t] ELSE rank[d] + 1
           next == [rank EXCEPT ![t] = r]
<1>2. /\ rank[d] \in Nat /\ rank[t] \in Nat
      /\ r \in Nat /\ rank[d] < r /\ rank[t] <= r
  BY <1>1
<1> HIDE DEF r
<1>3. /\ next \in [Task -> Nat] /\ next[t] = r
      /\ \A u \in Task : u # t => next[u] = rank[u]
  BY <1>1, <1>2
<1> HIDE DEF next
<1>4. ASSUME NEW u \in Task, NEW e \in deps'[u] PROVE next[e] < next[u]
  <2>1. deps[u] \subseteq Task /\ deps[t] \subseteq Task
    BY DEF TypeOK
  <2>2. CASE u # t
    <3>1. e \in deps[u] /\ e \in Task /\ e # t
      BY <2>1, <2>2 DEF TypeOK
    <3> QED
      BY <1>1, <1>3, <2>2, <3>1
  <2>3. CASE u = t /\ e \in deps[t]
    <3>1. e \in Task /\ e # t
      BY <2>1, <2>3
    <3>2. rank[e] < rank[t] /\ rank[e] \in Nat
      BY <1>1, <2>3, <3>1
    <3>3. next[e] = rank[e] /\ next[u] = r
      BY <1>3, <2>3, <3>1
    <3> QED
      BY <1>2, <3>2, <3>3
  <2>4. CASE u = t /\ e = d
    <3>1. next[e] = rank[d] /\ next[u] = r
      BY <1>3, <2>4
    <3> QED
      BY <1>2, <3>1
  <2>5. u = t => e \in deps[t] \/ e = d
    BY <2>1 DEF TypeOK
  <2> QED
    BY <2>2, <2>3, <2>4, <2>5
<1> QED
  BY <1>3, <1>4 DEF Acyclic

\* Whoever is known and not alive has completed.
LEMMA DeadCompleted ==
  ASSUME IInv, NEW d \in known, ~Alive(d)
  PROVE  state[d] = "COMPLETED"
<1>1. TypeOK /\ Pool /\ Edges
  BY DEF IInv
<1>2. /\ d \in Task /\ state[d] # "NEW"
      /\ state[d] \in {"NEW", "DISPATCHED", "DEPENDENCIES_COMPLETED", "RUNNING",
                       "COMPLETED"}
  BY <1>1 DEF Edges, TypeOK
<1> QED
  BY <1>1, <1>2 DEF Pool, Alive

\* AddDependency: the edge is drawn, and counted unless the task is gone.
LEMMA AddDependencyStep ==
  ASSUME IInv, NEW h \in Thread, NEW t \in Task, NEW d \in Task,
         AddDependency(h, t, d)
  PROVE  IInv'
<1> DEFINE c == [op |-> "link", task |-> t, dep |-> d]
<1>1. /\ call[h] = Idle /\ IF h = Main THEN running ELSE at[h] = "run"
      /\ \A g \in Thread : call[g].task # t
      /\ state[t] = "NEW" /\ t \notin notReady
      /\ d \in known /\ d \notin deps[t]
      /\ deps' = [deps EXCEPT ![t] = @ \cup {d}]
      /\ IF Alive(d)
           THEN /\ uncompleted' = [uncompleted EXCEPT ![t] = @ + 1]
                /\ call' = [call EXCEPT ![h] = c]
           ELSE UNCHANGED <<uncompleted, call>>
      /\ UNCHANGED <<state, dependents, notReady, queue, running, at, held, known>>
  BY DEF AddDependency, MayCall, Free
<1>2. TypeOK /\ Calls /\ Pool /\ Workers /\ Edges /\ Counted /\ Acyclic
  BY DEF IInv
<1>3. d # t /\ state[d] # "NEW" /\ \A u \in Task : t \notin deps[u]
  BY <1>1, <1>2 DEF Edges
<1>4. Acyclic'
  BY <1>1, <1>2, <1>3, AcyclicEdge
<1>5. /\ \A u \in Task : u # t => deps'[u] = deps[u]
      /\ deps'[t] = deps[t] \cup {d}
      /\ deps' \in [Task -> SUBSET Task]
      /\ \A u \in Task : deps[u] \subseteq deps'[u]
  BY <1>1, <1>2 DEF TypeOK
<1>6. CASE ~Alive(d)
  <2>1. UNCHANGED <<uncompleted, call>> /\ state[d] = "COMPLETED"
    BY <1>1, <1>2, <1>6, DeadCompleted
  <2>2. TypeOK'
    BY <1>1, <1>2, <1>5, <2>1 DEF TypeOK
  <2>3. Calls'
    BY <1>1, <1>2, <1>5, <2>1 DEF Calls, TypeOK
  <2>4. Pool' /\ Workers'
    BY <1>1, <1>2, <2>1 DEF Pool, Workers, Inserting
  <2>5. \A u \in Task : Owed(u)' = Owed(u)
    BY <1>1, <2>1, OwedSame
  <2>6. Edges'
    BY <1>1, <1>2, <1>5, <2>1, <2>5 DEF Edges, Locked
  <2>7. Counted'
    BY <1>1, <1>2, <2>1, <2>5 DEF Counted
  <2> QED
    BY <1>4, <2>2, <2>3, <2>4, <2>6, <2>7 DEF IInv
<1>7. CASE Alive(d)
  <2>1. /\ c \in Call /\ c.op = "link" /\ c.task = t /\ c.dep = d
        /\ Idle.op = "idle" /\ Idle.task = NoTask
    BY DEF Call, Idle
  <2> HIDE DEF c
  <2>2. /\ call \in [Thread -> Call] /\ call' \in [Thread -> Call]
        /\ \A g \in Thread : g # h => call'[g] = call[g]
        /\ call'[h] = c
        /\ NoTask \notin Task
    <3>1. call \in [Thread -> Call]
      BY <1>2 DEF TypeOK
    <3>2. call' = [call EXCEPT ![h] = c]
      BY <1>1, <1>7
    <3> QED
      BY <2>1, <3>1, <3>2, PoolAssumption
  <2>3. /\ uncompleted' = [uncompleted EXCEPT ![t] = @ + 1]
        /\ uncompleted \in [Task -> Nat]
        /\ uncompleted'[t] = uncompleted[t] + 1
        /\ \A u \in Task : u # t => uncompleted'[u] = uncompleted[u]
    BY <1>1, <1>2, <1>7 DEF TypeOK
  <2>4. uncompleted' \in [Task -> Nat]
    BY <2>3
  <2>5. TypeOK'
    BY <1>1, <1>2, <1>5, <2>2, <2>4 DEF TypeOK
  <2>6. t \notin dependents[d] /\ d \notin Owed(t)
    <3>1. t \notin dependents[d]
      BY <1>1, <1>2 DEF Edges
    <3> QED
      BY <1>1, <3>1 DEF Owed, Linking
  <2>7. Calls'
    <3>1. \A g \in Thread : g # h /\ call[g].op = "link" =>
            /\ call[g].dep \in deps'[call[g].task]
            /\ call[g].task \notin notReady
            /\ call[g].task \notin dependents[call[g].dep]
      BY <1>2, <1>5 DEF Calls
    <3>2. \A g \in Thread : g # h /\ call[g].op # "idle" =>
            /\ call[g].task \in Task /\ state[call[g].task] = "NEW"
            /\ IF g = Main THEN running ELSE at[g] = "run"
      BY <1>2 DEF Calls
    <3>3. /\ c.dep \in deps'[c.task] /\ c.task \notin notReady
          /\ c.task \notin dependents[c.dep]
      BY <1>1, <1>5, <2>1, <2>6
    <3>4. \A g \in Thread : g # h /\ call[g].op = "insert" => call[g].task \in notReady
      BY <1>2 DEF Calls
    <3>5. \A f, g \in Thread :
            call'[f].task = call'[g].task => f = g \/ call'[f].task = NoTask
      BY <1>1, <1>2, <2>1, <2>2 DEF Calls
    <3>6. \A g \in Thread : call'[g].op = "idle" => call'[g] = Idle
      BY <1>2, <2>1, <2>2 DEF Calls
    <3> QED
      BY <1>1, <2>1, <2>2, <3>1, <3>2, <3>3, <3>4, <3>5, <3>6 DEF Calls
  <2>8. Pool'
    <3>1. \A u \in Task : Inserting(u) => Inserting(u)'
      BY <1>1, <2>1, <2>2 DEF Inserting
    <3>2. notReady \subseteq Task
      BY <1>2 DEF TypeOK
    <3> QED
      BY <1>1, <1>2, <3>1, <3>2 DEF Pool
  <2>9. Workers'
    BY <1>1, <1>2 DEF Workers
  <2>10. /\ \A u \in Task : u # t => Owed(u)' = Owed(u)
         /\ Owed(t)' = Owed(t) \cup {d}
    BY <1>1, <2>1, <2>2 DEF Owed, Linking
  <2>11. Edges'
    <3>1. \A u \in Task : \A e \in deps'[u] : state[e] = "COMPLETED" \/ e \in Owed(u)'
      BY <1>2, <1>5, <2>10 DEF Edges
    <3>2. \A u \in Task : deps'[u] \subseteq known
      BY <1>1, <1>2, <1>5 DEF Edges
    <3> QED
      BY <1>1, <1>2, <1>5, <3>1, <3>2 DEF Edges, Locked
  <2>12. Counted'
    <3>1. Cardinality(Owed(t)') = Cardinality(Owed(t)) + 1
      BY <2>6, <2>10, OwedFinite, FS_AddElement
    <3> QED
      BY <1>1, <1>2, <2>3, <2>10, <3>1 DEF Counted
  <2> QED
    BY <1>4, <2>5, <2>7, <2>8, <2>9, <2>11, <2>12 DEF IInv
<1> QED
  BY <1>6, <1>7

\* The last dependency of a task handed in has completed.
Readied(t) ==
  /\ state[t] = "DISPATCHED"
  /\ state' = [state EXCEPT ![t] = "DEPENDENCIES_COMPLETED"]
  /\ notReady' = notReady \ {t}
  /\ queue' = Append(queue, t)

\* A task is told of one that owed it a call.
LEMMA Told ==
  ASSUME IInv, NEW t \in Task, NEW d \in Task, DependencyCompleted(t),
         d \in Owed(t), Owed(t)' = Owed(t) \ {d},
         \A u \in Task : u # t => Owed(u)' = Owed(u)
  PROVE  /\ Counted'
         /\ uncompleted' \in [Task -> Nat]
         /\ Readied(t) \/ UNCHANGED <<state, notReady, queue>>
<1>1. /\ uncompleted' = [uncompleted EXCEPT ![t] = @ - 1]
      /\ IF uncompleted[t] = 1 /\ state[t] = "DISPATCHED"
           THEN Readied(t)
           ELSE UNCHANGED <<state, notReady, queue>>
  BY DEF DependencyCompleted, Readied
<1>2. TypeOK /\ Counted
  BY DEF IInv
<1>3. IsFiniteSet(Owed(t)) /\ Cardinality(Owed(t)) \in Nat
  BY OwedFinite
<1>4. /\ Cardinality(Owed(t)') = Cardinality(Owed(t)) - 1
      /\ IsFiniteSet(Owed(t)')
  BY <1>3, FS_RemoveElement
<1>5. Cardinality(Owed(t)) # 0
  BY <1>3, FS_EmptySet
<1>6. Cardinality(Owed(t)') = 0 <=> Owed(t)' = {}
  BY <1>4, FS_EmptySet
<1>7. /\ uncompleted[t] = Cardinality(Owed(t)) /\ uncompleted[t] \in Nat \ {0}
      /\ uncompleted \in [Task -> Nat]
  BY <1>2, <1>3, <1>5 DEF TypeOK, Counted
<1>8. /\ uncompleted' \in [Task -> Nat]
      /\ uncompleted'[t] = uncompleted[t] - 1
      /\ \A u \in Task : u # t => uncompleted'[u] = uncompleted[u]
  BY <1>1, <1>7
<1>9. state[t] \in {"NEW", "DISPATCHED"}
  BY <1>2 DEF Counted
<1>10. /\ uncompleted'[t] = Cardinality(Owed(t)')
       /\ uncompleted[t] = 1 <=> Owed(t)' = {}
  BY <1>4, <1>6, <1>7, <1>8
<1>11. \A u \in Task : u # t => state'[u] = state[u]
  BY <1>1, <1>2 DEF TypeOK, Readied
<1>12. CASE Readied(t) /\ uncompleted[t] = 1
  <2>1. state'[t] = "DEPENDENCIES_COMPLETED"
    BY <1>2, <1>12 DEF Readied, TypeOK
  <2> QED
    BY <1>2, <1>8, <1>10, <1>11, <1>12, <2>1 DEF Counted
<1>13. CASE ~(uncompleted[t] = 1 /\ state[t] = "DISPATCHED")
  <2>1. UNCHANGED <<state, notReady, queue>>
    BY <1>1, <1>13
  <2>2. /\ state[t] = "DISPATCHED" => Owed(t)' # {}
        /\ state[t] \in {"NEW", "DISPATCHED"}
    BY <1>9, <1>10, <1>13
  <2>3. Counted'
    BY <1>2, <1>8, <1>10, <2>1, <2>2 DEF Counted
  <2> QED
    BY <1>8, <2>1, <2>3
<1> QED
  BY <1>1, <1>12, <1>13

\* The containers after that, while some worker has not gone.
LEMMA ToldPool ==
  ASSUME IInv, NEW t \in Task, Readied(t) \/ UNCHANGED <<state, notReady, queue>>,
         UNCHANGED <<at, held, running>>, NEW w \in Worker, at[w] # "gone",
         \A u \in Task : Inserting(u) => Inserting(u)'
  PROVE  /\ Pool' /\ Workers'
         /\ \A u \in Task : u # t => state'[u] = state[u]
         /\ \A u \in Task : state[u] = "NEW" => state'[u] = "NEW"
         /\ \A u \in Task : state[u] # "NEW" => state'[u] # "NEW"
         /\ \A u \in Task : state[u] = "COMPLETED" <=> state'[u] = "COMPLETED"
         /\ state' \in [Task -> {"NEW", "DISPATCHED", "DEPENDENCIES_COMPLETED",
                                 "RUNNING", "COMPLETED"}]
         /\ notReady' \subseteq notReady /\ queue' \in Seq(Task)
<1>1. TypeOK /\ Pool /\ Workers
  BY DEF IInv
<1>2. /\ state \in [Task -> {"NEW", "DISPATCHED", "DEPENDENCIES_COMPLETED",
                             "RUNNING", "COMPLETED"}]
      /\ queue \in Seq(Task) /\ notReady \subseteq Task
      /\ held \in [Worker -> Task \cup {NoTask}]
      /\ ToSet(queue) \subseteq Task
      /\ NoTask \notin Task
  BY <1>1, PoolAssumption DEF TypeOK, ToSet
<1>3. CASE UNCHANGED <<state, notReady, queue>>
  <2>1. Pool' /\ Workers'
    BY <1>1, <1>2, <1>3 DEF Pool, Workers
  <2> QED
    BY <1>2, <1>3, <2>1
<1>4. CASE Readied(t)
  <2>1. t \notin ToSet(queue)
    BY <1>1, <1>4 DEF Pool, Readied
  <2>2. /\ queue' \in Seq(Task) /\ ToSet(queue') = ToSet(queue) \cup {t}
        /\ IsInjective(queue') /\ queue' # <<>>
    BY <1>1, <1>2, <1>4, <2>1, AppendTask DEF Pool, Readied
  <2>3. /\ state'[t] = "DEPENDENCIES_COMPLETED"
        /\ \A u \in Task : u # t => state'[u] = state[u]
        /\ state[t] = "DISPATCHED"
        /\ notReady' = notReady \ {t}
    BY <1>2, <1>4 DEF Readied
  <2>4. \A v \in Worker : held[v] # t
    BY <1>1, <1>2, <2>3 DEF Workers, TypeOK
  <2>5. Pool'
    BY <1>1, <1>2, <2>1, <2>2, <2>3, <2>4 DEF Pool
  <2>6. Workers'
    BY <1>1, <1>2, <2>1, <2>2, <2>3, <2>4 DEF Workers
  <2>7. state' \in [Task -> {"NEW", "DISPATCHED", "DEPENDENCIES_COMPLETED",
                             "RUNNING", "COMPLETED"}]
    BY <1>2, <1>4 DEF Readied
  <2> QED
    BY <2>2, <2>3, <2>5, <2>6, <2>7
<1> QED
  BY <1>3, <1>4

\* AddDependentTask: the edge is kept, or the call it is owed is made at once.
LEMMA AddDependentTaskStep ==
  ASSUME IInv, NEW h \in Thread, AddDependentTask(h)
  PROVE  IInv'
<1> PICK t, d : t = call[h].task /\ d = call[h].dep
  OBVIOUS
<1>1. /\ call[h].op = "link" /\ ~Locked(d)
      /\ IF state[d] = "COMPLETED"
           THEN DependencyCompleted(t) /\ UNCHANGED dependents
           ELSE /\ dependents' = [dependents EXCEPT ![d] = @ \cup {t}]
                /\ UNCHANGED <<state, uncompleted, notReady, queue>>
      /\ call' = [call EXCEPT ![h] = Idle]
      /\ UNCHANGED <<running, at, held, known, deps>>
  BY DEF AddDependentTask
<1>2. TypeOK /\ Calls /\ Pool /\ Workers /\ Edges /\ Counted /\ Acyclic
  BY DEF IInv
<1>3. /\ t \in Task /\ state[t] = "NEW" /\ d \in deps[t] /\ d \in Task
      /\ t \notin notReady /\ t \notin dependents[d]
      /\ \A g \in Thread : g # h => call[g].task # t
      /\ NoTask \notin Task
  BY <1>1, <1>2, PoolAssumption DEF Calls, TypeOK
<1>4. /\ call \in [Thread -> Call] /\ call' \in [Thread -> Call]
      /\ \A g \in Thread : g # h => call'[g] = call[g]
      /\ call'[h] = Idle
      /\ Idle.op = "idle" /\ Idle.task = NoTask
  BY <1>1, <1>2 DEF TypeOK, Call, Idle
<1>5. \A u \in Task : Inserting(u) => Inserting(u)'
  BY <1>1, <1>4 DEF Inserting
<1>6. PICK w \in Worker : at[w] # "gone"
  <2>1. CASE h = Main
    BY <1>1, <1>2, <2>1, PoolAssumption DEF Calls, Workers
  <2>2. CASE h # Main
    BY <1>1, <1>2, <2>2 DEF Calls, Thread
  <2> QED
    BY <2>1, <2>2
<1>7. Acyclic'
  BY <1>1, <1>2, AcyclicSame
<1>8. \A u \in Task : deps[u] \subseteq known /\ known \subseteq Task
  BY <1>2 DEF Edges, TypeOK
<1>9. CASE state[d] = "COMPLETED"
  <2>1. DependencyCompleted(t) /\ dependents' = dependents
    BY <1>1, <1>9
  <2>2. /\ d \in Owed(t) /\ Owed(t)' = Owed(t) \ {d}
        /\ \A u \in Task : u # t => Owed(u)' = Owed(u)
    BY <1>1, <1>3, <1>4, <2>1 DEF Owed, Linking
  <2>3. /\ Counted' /\ uncompleted' \in [Task -> Nat]
        /\ Readied(t) \/ UNCHANGED <<state, notReady, queue>>
    BY <1>3, <2>1, <2>2, Told
  <2>4. UNCHANGED <<state, notReady, queue>>
    BY <1>3, <2>3 DEF Readied
  <2>5. TypeOK'
    BY <1>1, <1>2, <1>4, <2>1, <2>3, <2>4 DEF TypeOK
  <2>6. Calls'
    BY <1>1, <1>2, <1>3, <1>4, <2>1, <2>4 DEF Calls
  <2>7. Pool' /\ Workers'
    BY <1>1, <1>3, <1>5, <1>6, <2>4, ToldPool
  <2>8. Edges'
    BY <1>1, <1>2, <1>8, <1>9, <2>1, <2>2, <2>4 DEF Edges, Locked
  <2> QED
    BY <1>7, <2>3, <2>5, <2>6, <2>7, <2>8 DEF IInv
<1>10. CASE state[d] # "COMPLETED"
  <2>1. /\ dependents' = [dependents EXCEPT ![d] = @ \cup {t}]
        /\ UNCHANGED <<state, uncompleted, notReady, queue>>
    BY <1>1, <1>10
  <2>2. /\ dependents' \in [Task -> SUBSET Task]
        /\ dependents'[d] = dependents[d] \cup {t}
        /\ \A e \in Task : e # d => dependents'[e] = dependents[e]
    BY <1>2, <1>3, <2>1 DEF TypeOK
  <2>3. TypeOK'
    BY <1>1, <1>2, <1>4, <2>1, <2>2 DEF TypeOK
  <2>4. \A u \in Task : Owed(u)' = Owed(u)
    <3>1. \A u, e \in Task : u # t => (Linking(u, e)' <=> Linking(u, e))
      BY <1>1, <1>3, <1>4 DEF Linking
    <3>2. \A e \in Task : ~Linking(t, e)' /\ (Linking(t, e) <=> e = d)
      BY <1>1, <1>3, <1>4 DEF Linking
    <3>3. \A u, e \in Task : u # t => (u \in dependents'[e] <=> u \in dependents[e])
      BY <2>2
    <3>4. \A e \in Task : t \in dependents'[e] <=> (t \in dependents[e] \/ e = d)
      BY <2>2
    <3> QED
      BY <3>1, <3>2, <3>3, <3>4 DEF Owed
  <2>5. Counted'
    BY <1>2, <2>1, <2>4 DEF Counted
  <2>6. Calls'
    <3>1. \A g \in Thread : g # h /\ call[g].op = "link" =>
            /\ call[g].dep \in Task
            /\ call[g].dep \in deps[call[g].task]
            /\ call[g].task \notin notReady
            /\ call[g].task \notin dependents[call[g].dep]
      BY <1>2, <1>8 DEF Calls
    <3>2. \A g \in Thread : g # h /\ call[g].op = "link" =>
            call[g].task \notin dependents'[call[g].dep]
      BY <1>3, <2>2, <3>1
    <3> QED
      BY <1>1, <1>2, <1>4, <2>1, <3>1, <3>2 DEF Calls
  <2>7. Pool' /\ Workers'
    BY <1>1, <1>3, <1>5, <1>6, <2>1, ToldPool
  <2>8. Edges'
    <3>1. \A e, u \in Task :
            u \in dependents'[e] => e \in deps[u] /\ state[u] \in {"NEW", "DISPATCHED"}
      BY <1>2, <1>3, <2>2 DEF Edges
    <3> QED
      BY <1>1, <1>2, <1>8, <1>10, <2>1, <2>2, <2>4, <3>1 DEF Edges, Locked
  <2> QED
    BY <1>7, <2>3, <2>5, <2>6, <2>7, <2>8 DEF IInv
<1> QED
  BY <1>9, <1>10

\* Execute tells one dependent.
LEMMA TellDependentStep ==
  ASSUME IInv, NEW w \in Worker, TellDependent(w)
  PROVE  IInv'
<1> PICK d : d = held[w]
  OBVIOUS
<1>1. PICK t \in dependents[d] :
        /\ at[w] = "notify"
        /\ DependencyCompleted(t)
        /\ dependents' = [dependents EXCEPT ![d] = @ \ {t}]
        /\ UNCHANGED <<running, at, held, call, known, deps>>
  BY DEF TellDependent
<1>2. TypeOK /\ Calls /\ Pool /\ Workers /\ Edges /\ Counted /\ Acyclic
  BY DEF IInv
<1>3. /\ d \in Task /\ state[d] = "COMPLETED" /\ t \in Task
      /\ d \in deps[t] /\ state[t] \in {"NEW", "DISPATCHED"}
  <2>1. d \in Task /\ state[d] = "COMPLETED"
    BY <1>1, <1>2 DEF Workers, TypeOK
  <2>2. t \in Task
    BY <1>1, <1>2, <2>1 DEF TypeOK
  <2> QED
    BY <1>1, <1>2, <2>1, <2>2 DEF Edges
<1>4. /\ dependents' \in [Task -> SUBSET Task]
      /\ dependents'[d] = dependents[d] \ {t}
      /\ \A e \in Task : e # d => dependents'[e] = dependents[e]
      /\ \A e \in Task : dependents'[e] \subseteq dependents[e]
  BY <1>1, <1>2, <1>3 DEF TypeOK
<1>5. /\ \A u, e \in Task : Linking(u, e)' <=> Linking(u, e)
      /\ \A u \in Task : Inserting(u) => Inserting(u)'
  BY <1>1 DEF Linking, Inserting
<1>6. ~Linking(t, d)
  BY <1>1, <1>2 DEF Linking, Calls
<1>7. /\ d \in Owed(t) /\ Owed(t)' = Owed(t) \ {d}
      /\ \A u \in Task : u # t => Owed(u)' = Owed(u)
  BY <1>1, <1>3, <1>4, <1>5, <1>6 DEF Owed
<1>8. /\ Counted' /\ uncompleted' \in [Task -> Nat]
      /\ Readied(t) \/ UNCHANGED <<state, notReady, queue>>
  BY <1>1, <1>3, <1>7, Told
<1>9. /\ Pool' /\ Workers'
      /\ \A u \in Task : u # t => state'[u] = state[u]
      /\ \A u \in Task : state[u] = "NEW" => state'[u] = "NEW"
      /\ \A u \in Task : state[u] # "NEW" => state'[u] # "NEW"
      /\ \A u \in Task : state[u] = "COMPLETED" <=> state'[u] = "COMPLETED"
      /\ state' \in [Task -> {"NEW", "DISPATCHED", "DEPENDENCIES_COMPLETED",
                              "RUNNING", "COMPLETED"}]
      /\ notReady' \subseteq notReady /\ queue' \in Seq(Task)
  BY <1>1, <1>3, <1>5, <1>8, ToldPool
<1>10. TypeOK'
  BY <1>1, <1>2, <1>4, <1>8, <1>9 DEF TypeOK
<1>11. /\ call \in [Thread -> Call]
       /\ \A u \in Task : deps[u] \subseteq known /\ known \subseteq Task
  BY <1>2 DEF TypeOK, Edges
<1>12. Calls'
  <2>1. \A g \in Thread : call[g].op = "link" =>
          /\ call[g].dep \in Task
          /\ call[g].task \notin notReady'
          /\ call[g].task \notin dependents'[call[g].dep]
    BY <1>2, <1>4, <1>9, <1>11 DEF Calls
  <2>2. \A g \in Thread : call[g].op = "insert" => call[g].task \in notReady'
    <3>1. \A g \in Thread : call[g].op = "insert" =>
            call[g].task \in notReady /\ state[call[g].task] = "NEW"
      BY <1>2 DEF Calls
    <3>2. \A u \in notReady : u \in notReady' \/ state[u] = "DISPATCHED"
      BY <1>8 DEF Readied
    <3> QED
      BY <3>1, <3>2
  <2>3. \A g \in Thread : call[g].op # "idle" =>
          call[g].task \in Task /\ state'[call[g].task] = "NEW"
    BY <1>2, <1>9 DEF Calls
  <2> QED
    BY <1>1, <1>2, <2>1, <2>2, <2>3 DEF Calls
<1>13. Edges'
  <2>1. \A e, u \in Task : u \in dependents'[e] => e \in Owed(u)'
    BY DEF Owed
  <2>2. \A e, u \in Task :
          u \in dependents'[e] => e \in deps[u] /\ state'[u] \in {"NEW", "DISPATCHED"}
    BY <1>2, <1>4, <1>8, <2>1 DEF Edges, Counted
  <2>3. \A u \in Task : \A e \in deps[u] : state'[e] = "COMPLETED" \/ e \in Owed(u)'
    BY <1>2, <1>3, <1>7, <1>9, <1>11 DEF Edges
  <2>4. \A e \in Task : state'[e] = "COMPLETED" => dependents'[e] = {} \/ Locked(e)'
    <3>1. \A e \in Task : Locked(e)' <=> Locked(e)
      BY <1>1 DEF Locked
    <3>2. \A e \in Task : dependents[e] = {} => dependents'[e] = {}
      BY <1>4
    <3> QED
      BY <1>2, <1>9, <3>1, <3>2 DEF Edges
  <2>5. \A u \in known : state'[u] # "NEW"
    <3>1. \A u \in known : u \in Task /\ state[u] # "NEW"
      BY <1>2 DEF Edges, TypeOK
    <3> QED
      BY <1>9, <3>1
  <2> QED
    BY <1>1, <1>11, <2>2, <2>3, <2>4, <2>5 DEF Edges
<1>14. Acyclic'
  BY <1>1, <1>2, AcyclicSame
<1> QED
  BY <1>8, <1>9, <1>10, <1>12, <1>13, <1>14 DEF IInv


-----------------------------------------------------------------------------
(* The invariant, and what follows from it                                 *)

LEMMA NextInv == IInv /\ [Next]_vars => IInv'
<1> SUFFICES ASSUME IInv, [Next]_vars
             PROVE  IInv'
  OBVIOUS
<1>1. CASE UNCHANGED vars
  <2>1. UNCHANGED <<dependents, call>> /\ UNCHANGED deps
    BY <1>1 DEF vars
  <2>2. \A t \in Task : Owed(t)' = Owed(t)
    BY <2>1, OwedSame
  <2>3. Acyclic'
    BY <2>1, AcyclicSame DEF IInv
  <2>4. TypeOK' /\ Calls' /\ Pool' /\ Workers'
    BY <1>1 DEF vars, IInv, TypeOK, Calls, Pool, Inserting, Workers
  <2>5. Edges' /\ Counted'
    BY <1>1, <2>2 DEF vars, IInv, Edges, Locked, Counted
  <2> QED
    BY <2>3, <2>4, <2>5 DEF IInv
<1>2. ASSUME NEW h \in Thread, NEW t \in Task, Insert(h, t) PROVE IInv'
  BY <1>2, InsertStep
<1>3. ASSUME NEW h \in Thread, NEW t \in Task, NEW d \in Task, AddDependency(h, t, d)
      PROVE  IInv'
  BY <1>3, AddDependencyStep
<1>4. ASSUME NEW h \in Thread, AddDependentTask(h) PROVE IInv'
  BY <1>4, AddDependentTaskStep
<1>5. ASSUME NEW h \in Thread, SetThreadPool(h) PROVE IInv'
  BY <1>5, SetThreadPoolStep
<1>6. ASSUME NEW w \in Worker, Take(w) PROVE IInv'
  BY <1>6, TakeStep
<1>7. ASSUME NEW w \in Worker, Leave(w) PROVE IInv'
  BY <1>7, LeaveStep
<1>8. ASSUME NEW w \in Worker, Run(w) PROVE IInv'
  BY <1>8, RunStep
<1>9. ASSUME NEW w \in Worker, Complete(w) PROVE IInv'
  BY <1>9, CompleteStep
<1>10. ASSUME NEW w \in Worker, TellDependent(w) PROVE IInv'
  BY <1>10, TellDependentStep
<1>11. ASSUME NEW w \in Worker, Release(w) PROVE IInv'
  BY <1>11, ReleaseStep
<1>12. CASE Destroy
  BY <1>12, DestroyStep
<1>13. CASE Finished
  BY <1>1, <1>13 DEF Finished
<1> QED
  BY <1>1, <1>2, <1>3, <1>4, <1>5, <1>6, <1>7, <1>8, <1>9, <1>10, <1>11, <1>12, <1>13
     DEF Next, BeginCall, EndCall, DoWork

LEMMA Invariant == Spec => []IInv
  BY InitInv, NextInv, PTL DEF Spec

\* Every variable keeps its type; the counter of open dependencies in
\* particular never goes below 0 (task.cc:76-85).
THEOREM TypeCorrect == Spec => []TypeOK
<1>1. IInv => TypeOK
  BY DEF IInv
<1> QED
  BY <1>1, Invariant, PTL

\* No raw pointer in dependent_tasks_ outlives its task: whoever is to be told
\* is still being built or is held by the pool (task.cc:68-74, 101-103).
THEOREM NeverDangling == Spec => []NoDanglingDependent
<1>1. IInv => NoDanglingDependent
  BY DEF IInv, Edges, Pool, NoDanglingDependent
<1> QED
  BY <1>1, Invariant, PTL

\* The CHECKs on the state of a task and on the pool's containers never fail
\* (task.cc:55, 78, 90, 99; thread_pool.cc:61, 72, 102).
THEOREM ContainersAlwaysRight == Spec => []Containers
<1>1. ASSUME IInv PROVE Containers
  <2>1. TypeOK /\ Calls /\ Pool /\ Workers
    BY <1>1 DEF IInv
  <2>2. \A t \in notReady : state[t] = "DISPATCHED" \/ (state[t] = "NEW" /\ ~Free(t))
    BY <2>1 DEF Pool, Inserting, Free
  <2>3. ToSet(queue) \subseteq Task
    BY <2>1 DEF TypeOK, ToSet
  <2>4. \A t \in Task :
          (state[t] = "DEPENDENCIES_COMPLETED") <=>
            (t \in ToSet(queue) \/ \E w \in Worker : held[w] = t /\ at[w] = "taken")
    BY <2>1 DEF Pool, Workers
  <2> QED
    BY <2>1, <2>2, <2>4 DEF Containers, Pool, Workers
<1> QED
  BY <1>1, Invariant, PTL

\* Whoever waits in the pool waits for somebody who has not completed, and at
\* the end of such a chain somebody can run: so when all workers have left,
\* nobody waits.
LEMMA NobodyWaits ==
  ASSUME IInv, Joined
  PROVE  \A t \in Task : state[t] # "DISPATCHED"
<1>1. TypeOK /\ Calls /\ Pool /\ Workers /\ Edges /\ Counted /\ Acyclic
  BY DEF IInv
<1>2. \A h \in Thread : call[h] = Idle
  BY <1>1 DEF Joined, Calls, Thread
<1>3. \A u, e \in Task : ~Linking(u, e)
  BY <1>2 DEF Linking, Idle
<1>4. \A e \in Task : ~Locked(e)
  BY DEF Joined, Locked
<1>5. PICK rank \in [Task -> Nat] : \A t \in Task : \A d \in deps[t] : rank[d] < rank[t]
  BY <1>1 DEF Acyclic
<1>6. ASSUME NEW t \in Task, state[t] = "DISPATCHED"
      PROVE  \E d \in Task : state[d] = "DISPATCHED" /\ rank[d] < rank[t]
  <2>1. PICK d \in Task : t \in dependents[d]
    BY <1>1, <1>3, <1>6 DEF Counted, Owed
  <2>2. d \in deps[t] /\ state[d] # "NEW" /\ state[d] # "COMPLETED"
    BY <1>1, <1>4, <2>1 DEF Edges
  <2>3. state[d] # "RUNNING" /\ state[d] # "DEPENDENCIES_COMPLETED"
    <3>1. queue = <<>>
      BY <1>1 DEF Joined, Workers
    <3>2. d \notin ToSet(queue)
      BY <3>1 DEF ToSet
    <3> QED
      BY <1>1, <3>2 DEF Joined, Pool
  <2> QED
    BY <1>1, <1>5, <2>2, <2>3 DEF TypeOK
<1> DEFINE W == {rank[t] : t \in {u \in Task : state[u] = "DISPATCHED"}}
<1>7. ASSUME NEW t \in Task, state[t] = "DISPATCHED" PROVE FALSE
  <2>1. W \in SUBSET Nat /\ W # {}
    BY <1>5, <1>7
  <2>2. PICK m \in W : \A k \in W : m <= k
    BY <2>1, SmallestOf
  <2>3. PICK u \in Task : state[u] = "DISPATCHED" /\ m = rank[u]
    OBVIOUS
  <2>4. PICK d \in Task : state[d] = "DISPATCHED" /\ rank[d] < rank[u]
    BY <1>6, <2>3
  <2>5. rank[u] <= rank[d]
    BY <2>2, <2>3, <2>4
  <2> QED
    BY <1>5, <2>4, <2>5
<1> QED
  BY <1>7

\* Destroying the pool loses no task: after the last join every task handed
\* in has completed (thread_pool.cc:47-56, 94-99).
THEOREM NothingLost == Spec => []JoinedWhenDone
<1>1. ASSUME IInv PROVE JoinedWhenDone
  <2> SUFFICES ASSUME Joined, NEW t \in Task
               PROVE  state[t] \in {"NEW", "COMPLETED"} /\ t \notin notReady
    BY DEF JoinedWhenDone
  <2>1. TypeOK /\ Calls /\ Pool /\ Workers
    BY <1>1 DEF IInv
  <2>2. queue = <<>> /\ t \notin ToSet(queue)
    BY <2>1 DEF Joined, Workers, ToSet
  <2>3. state[t] # "RUNNING" /\ state[t] # "DEPENDENCIES_COMPLETED"
    BY <2>1, <2>2 DEF Joined, Pool
  <2>4. state[t] # "DISPATCHED"
    BY <1>1, NobodyWaits
  <2>5. state[t] \in {"NEW", "COMPLETED"}
    BY <2>1, <2>3, <2>4 DEF TypeOK
  <2>6. ~Inserting(t)
    BY <2>1 DEF Joined, Calls, Thread, Inserting, Idle
  <2> QED
    BY <2>1, <2>4, <2>5, <2>6 DEF Pool
<1> QED
  BY <1>1, Invariant, PTL

-----------------------------------------------------------------------------
(* The pool implements the graph of tasks                                  *)

\* What TaskGraph sees of a state of a task.
StatusOf(u) ==
  IF u = "NEW" THEN "new"
  ELSE IF u = "RUNNING" THEN "running"
  ELSE IF u = "COMPLETED" THEN "done" ELSE "submitted"

Status == [t \in Task |-> StatusOf(state[t])]

LEMMA StutterStep ==
  ASSUME \A t \in Task : StatusOf(state'[t]) = StatusOf(state[t]), deps' = deps
  PROVE  UNCHANGED Graph!vars
<1>1. Status' = Status
  BY DEF Status
<1> QED
  BY <1>1 DEF Graph!vars, Status, StatusOf

\* One task changes its state.
LEMMA StatusStep ==
  ASSUME NEW t \in Task, NEW s \in {"DISPATCHED", "DEPENDENCIES_COMPLETED", "RUNNING",
                                    "COMPLETED"},
         state \in [Task -> {"NEW", "DISPATCHED", "DEPENDENCIES_COMPLETED", "RUNNING",
                             "COMPLETED"}],
         state' = [state EXCEPT ![t] = s]
  PROVE  Status' = [Status EXCEPT ![t] = StatusOf(s)]
<1>1. \A u \in Task : StatusOf(state'[u]) = IF u = t THEN StatusOf(s) ELSE StatusOf(state[u])
  OBVIOUS
<1> QED
  BY <1>1 DEF Status

LEMMA GraphNext ==
  ASSUME IInv, [Next]_vars
  PROVE  [Graph!Next]_(Graph!vars)
<1>1. TypeOK /\ Calls /\ Pool /\ Workers /\ Edges /\ Counted
  BY DEF IInv
<1>2. /\ state \in [Task -> {"NEW", "DISPATCHED", "DEPENDENCIES_COMPLETED", "RUNNING",
                             "COMPLETED"}]
      /\ held \in [Worker -> Task \cup {NoTask}]
      /\ NoTask \notin Task
  BY <1>1, PoolAssumption DEF TypeOK
<1>3. Status = [t \in Task |->
         IF state[t] = "NEW" THEN "new"
         ELSE IF state[t] = "RUNNING" THEN "running"
         ELSE IF state[t] = "COMPLETED" THEN "done" ELSE "submitted"]
  BY DEF Status, StatusOf
<1>4. ASSUME NEW h \in Thread, NEW t \in Task, Insert(h, t)
      PROVE  UNCHANGED Graph!vars
  BY <1>4, StutterStep DEF Insert
<1>5. ASSUME NEW h \in Thread, NEW t \in Task, NEW d \in Task, AddDependency(h, t, d)
      PROVE  Graph!Next
  <2>1. /\ Status[t] = "new" /\ Status[d] # "new" /\ Status' = Status
        /\ deps' = [deps EXCEPT ![t] = @ \cup {d}]
    BY <1>1, <1>5 DEF AddDependency, Edges, Status, StatusOf
  <2>2. Graph!Depend(t, d)
    BY <2>1 DEF Graph!Depend, Status, StatusOf
  <2> QED
    BY <2>2 DEF Graph!Next
<1>6. ASSUME NEW h \in Thread, AddDependentTask(h) PROVE UNCHANGED Graph!vars
  <2>1. \A t \in Task : t = call[h].task => state[t] = "NEW"
    BY <1>1, <1>6 DEF AddDependentTask, Calls
  <2>2. UNCHANGED <<state, deps>>
    BY <1>6, <2>1, <1>1 DEF AddDependentTask, DependencyCompleted, Calls
  <2> QED
    BY <2>2, StutterStep
<1>7. ASSUME NEW h \in Thread, SetThreadPool(h) PROVE Graph!Next
  <2> PICK t : t = call[h].task
    OBVIOUS
  <2>1. t \in Task /\ state[t] = "NEW" /\ deps' = deps
    BY <1>1, <1>7 DEF SetThreadPool, Calls
  <2>2. \/ state' = [state EXCEPT ![t] = "DEPENDENCIES_COMPLETED"]
        \/ state' = [state EXCEPT ![t] = "DISPATCHED"]
    BY <1>7 DEF SetThreadPool
  <2>3. Status[t] = "new" /\ Status' = [Status EXCEPT ![t] = "submitted"]
    BY <1>2, <2>1, <2>2, StatusStep DEF Status, StatusOf
  <2>4. Graph!Submit(t)
    BY <2>1, <2>3 DEF Graph!Submit, Status, StatusOf
  <2> QED
    BY <2>1, <2>4 DEF Graph!Next
<1>8. ASSUME NEW w \in Worker, Run(w) PROVE Graph!Next
  <2> PICK t : t = held[w]
    OBVIOUS
  <2>1. /\ t \in Task /\ state[t] = "DEPENDENCIES_COMPLETED" /\ deps' = deps
        /\ state' = [state EXCEPT ![t] = "RUNNING"]
    BY <1>1, <1>2, <1>8 DEF Run, Workers
  <2>2. \A d \in deps[t] : d \in Task /\ state[d] = "COMPLETED"
    BY <1>1, <2>1 DEF Counted, Edges, TypeOK
  <2>3. /\ Status[t] = "submitted" /\ Status' = [Status EXCEPT ![t] = "running"]
        /\ \A d \in deps[t] : Status[d] = "done"
    BY <1>2, <2>1, <2>2, StatusStep DEF Status, StatusOf
  <2>4. Graph!Start(t)
    BY <2>1, <2>3 DEF Graph!Start, Status, StatusOf
  <2> QED
    BY <2>1, <2>4 DEF Graph!Next
<1>9. ASSUME NEW w \in Worker, Complete(w) PROVE Graph!Next
  <2> PICK t : t = held[w]
    OBVIOUS
  <2>1. /\ t \in Task /\ state[t] = "RUNNING" /\ deps' = deps
        /\ state' = [state EXCEPT ![t] = "COMPLETED"]
    BY <1>1, <1>2, <1>9 DEF Complete, Workers
  <2>2. Status[t] = "running" /\ Status' = [Status EXCEPT ![t] = "done"]
    BY <1>2, <2>1, StatusStep DEF Status, StatusOf
  <2>3. Graph!Finish(t)
    BY <2>1, <2>2 DEF Graph!Finish, Status, StatusOf
  <2> QED
    BY <2>1, <2>3 DEF Graph!Next
<1>10. ASSUME NEW w \in Worker, TellDependent(w) PROVE UNCHANGED Graph!vars
  <2>1. PICK t \in dependents[held[w]] : DependencyCompleted(t)
    BY <1>10 DEF TellDependent
  <2>2. t \in Task /\ deps' = deps
    BY <1>1, <1>2, <1>10, <2>1 DEF TellDependent, Workers, TypeOK
  <2>3. \A u \in Task : StatusOf(state'[u]) = StatusOf(state[u])
    BY <1>2, <2>1, <2>2 DEF DependencyCompleted, StatusOf
  <2> QED
    BY <2>2, <2>3, StutterStep
<1>11. ASSUME NEW w \in Worker, Take(w) \/ Leave(w) \/ Release(w)
       PROVE  UNCHANGED Graph!vars
  BY <1>11, StutterStep DEF Take, Leave, Release
<1>12. CASE Destroy
  BY <1>12, StutterStep DEF Destroy
<1>13. CASE UNCHANGED vars
  BY <1>13, StutterStep DEF vars
<1>14. CASE Finished
  BY <1>13, <1>14 DEF Finished
<1> QED
  BY <1>4, <1>5, <1>6, <1>7, <1>8, <1>9, <1>10, <1>11, <1>12, <1>13, <1>14
     DEF Next, BeginCall, EndCall, DoWork

\* A task runs once, and not before everything it depends on has completed:
\* the pool implements TaskGraph (task.h:37-63), of which its liveness is left
\* to the run.
THEOREM PoolImplementsTaskGraph == Spec => Graph!Spec
<1>1. Init => Graph!Init
  BY DEF Init, Graph!Init
<1>2. IInv /\ [Next]_vars => [Graph!Next]_(Graph!vars)
  BY GraphNext
<1> QED
  BY <1>1, <1>2, Invariant, PTL DEF Spec, Graph!Spec
=============================================================================
