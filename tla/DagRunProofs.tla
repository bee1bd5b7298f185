---------------------------- MODULE DagRunProofs ----------------------------
(***************************************************************************)
(* Theorems about the execution of a plan, for every plan (with or without *)
(* cycles), every set of tasks that call map_reduce, every plafond and     *)
(* every number of healings.                                               *)
(***************************************************************************)
EXTENDS DagRun, FiniteSetTheorems, WellFoundedInduction, TLAPS

\* The nodes that a map_reduce adds are nodes of their own, and its maps are roots.
LEMMA AddedNodes ==
  /\ Tasks \subseteq Nodes /\ MapReducers \subseteq Tasks
  /\ \A t \in MapReducers :
       /\ Maps(t) \subseteq Added(t) /\ Added(t) \subseteq Nodes
       /\ Added(t) \cap Tasks = {}
       /\ Reduce(t) \in Added(t)
       /\ \A n \in Maps(t) : Parents(n) = {}
  /\ \A t, u \in MapReducers : t # u => Added(t) \cap Added(u) = {}
<1> USE DagConstants
<1>1. ASSUME NEW t \in MapReducers
      PROVE  Added(t) \cap Tasks = {} /\ \A n \in Maps(t) : n \notin Tasks
  <2>1. Maps(t) \subseteq Tasks \X Nat
    BY DEF Maps
  <2>2. Reduce(t) \in Tasks \X Nat
    BY DEF Reduce
  <2>3. QED
    BY <2>1, <2>2 DEF Added
<1>2. ASSUME NEW t \in MapReducers, NEW n \in Maps(t) PROVE Parents(n) = {}
  <2>1. n \notin Tasks
    BY <1>1
  <2>2. n[2] \in Chunks /\ n[2] # 0
    BY DEF Maps
  <2>3. QED
    BY <2>1, <2>2 DEF Parents
<1>3. ASSUME NEW t \in MapReducers, NEW u \in MapReducers, t # u
      PROVE  Added(t) \cap Added(u) = {}
  <2>1. \A n \in Added(t) : n[1] = t
    BY DEF Added, Maps, Reduce
  <2>2. \A n \in Added(u) : n[1] = u
    BY DEF Added, Maps, Reduce
  <2>3. QED
    BY <2>1, <2>2, <1>3
<1>4. \A t \in MapReducers : Maps(t) \subseteq Added(t) /\ Added(t) \subseteq Nodes /\ Reduce(t) \in Added(t)
  BY DEF Added, Nodes
<1>5. QED
  BY <1>1, <1>2, <1>3, <1>4 DEF Nodes

LEMMA NamedValues ==
  /\ {"absent", "pending", "running", "success", "error", "blocked"} \subseteq Statuses
  /\ {"idle", "top", "launching", "waiting", "batch", "recording", "healing", "cleanup",
      "ended", "success", "error", "aborted"} \subseteq Phases
  /\ Finished = {"ok", "ko", "raised"}
  BY DEF Statuses, Phases, Finished

LEMMA PutType ==
  ASSUME TypeOK, NEW ready
  PROVE  Put(ready) \in [Nodes -> Nat]
  BY DEF TypeOK, Put

LEMMA InitType == Init => TypeOK
<1> SUFFICES ASSUME Init PROVE TypeOK
  OBVIOUS
<1>1. pc \in Phases /\ status \in [Nodes -> Statuses]
  BY NamedValues DEF Init
<1>2. /\ recorded \subseteq Nodes /\ batch \subseteq Nodes /\ current \subseteq Nodes
      /\ queue \in [Nodes -> Nat] /\ retries \in [Nodes -> Nat]
  BY DEF Init
<1>3. /\ event \in BOOLEAN /\ hasError \in BOOLEAN /\ exhausted \in BOOLEAN
      /\ cap \in Nat
  BY DagConstants DEF Init
<1>4. /\ job \in [Nodes -> {"none", "running", "mapping"} \cup Finished]
      /\ answer \in [MapReducers -> {"none", "asked", "result", "placeholder", "failed"}]
  BY DEF Init
<1>5. QED
  BY <1>1, <1>2, <1>3, <1>4 DEF TypeOK

\* Every variable keeps its type.
THEOREM TypeCorrect == Spec => []TypeOK
<1>1. Init => TypeOK
  BY InitType
<1>2. TypeOK /\ [Next]_vars => TypeOK'
  <2> SUFFICES ASSUME TypeOK, [Next]_vars PROVE TypeOK'
    OBVIOUS
  <2> USE DagConstants, NamedValues
  <2>1. CASE Begin
    BY <2>1, PutType DEF Begin, TypeOK
  <2>2. CASE Pass
    <3>1. MinCap .. MaxCap \subseteq Nat
      OBVIOUS
    <3>2. QED
      BY <2>2, <3>1 DEF Pass, TypeOK
  <2>3. CASE End \/ Wait \/ NextPass
    BY <2>3 DEF End, Wait, NextPass, TypeOK
  <2>4. CASE Wake
    BY <2>4 DEF Wake, TypeOK, Done
  <2>5. CASE Cleanup \/ Review \/ Abort \/ SpendBudget
    BY <2>5 DEF Cleanup, Review, Abort, SpendBudget, TypeOK
  <2>6. CASE Contract
    BY <2>6 DEF Contract, TypeOK
  <2>7. ASSUME NEW n \in Nodes,
               \/ Launch(n) \/ LaunchRaises(n) \/ BudgetStop(n) \/ TaskSucceeded(n) \/ Record(n)
               \/ StepRaised(n) \/ TaskFailed(n) \/ Healed(n) \/ NotHealed(n) \/ TaskRaised(n)
        PROVE  TypeOK'
    <3>1. CASE Launch(n)
      BY <3>1 DEF Launch, TypeOK
    <3>2. CASE BudgetStop(n)
      BY <3>2 DEF BudgetStop, TypeOK
    <3>3. CASE TaskSucceeded(n)
      BY <3>3 DEF TaskSucceeded, TypeOK
    <3>4. CASE Record(n)
      <4>1. queue' \in [Nodes -> Nat]
        BY <3>4, PutType DEF Record
      <4>2. event' \in BOOLEAN
        BY <3>4 DEF Record, TypeOK
      <4>3. QED
        BY <3>4, <4>1, <4>2 DEF Record, TypeOK
    <3>5. CASE TaskFailed(n)
      BY <3>5 DEF TaskFailed, TypeOK
    <3>6. CASE Healed(n)
      BY <3>6, PutType DEF Healed, Healing, TypeOK
    <3>7. CASE NotHealed(n)
      BY <3>7 DEF NotHealed, Healing, TypeOK
    <3>8. CASE TaskRaised(n)
      BY <3>8 DEF TaskRaised, TypeOK
    <3>9. CASE LaunchRaises(n)
      BY <3>9 DEF LaunchRaises, TypeOK
    <3>10. CASE StepRaised(n)
      <4>1. recorded' \subseteq Nodes /\ status' \in [Nodes -> Statuses]
        BY <3>10 DEF StepRaised, TypeOK
      <4>2. QED
        BY <3>10, <4>1 DEF StepRaised, TypeOK
    <3>11. QED
      BY <2>7, <3>1, <3>2, <3>3, <3>4, <3>5, <3>6, <3>7, <3>8, <3>9, <3>10
  <2>8. ASSUME NEW n \in Nodes, JobStep(n) PROVE TypeOK'
    <3>1. ASSUME NEW result \in Finished, JobEnds(n, result) PROVE TypeOK'
      BY <3>1 DEF JobEnds, TypeOK
    <3>2. CASE n \in MapReducers /\ Answer(n)
      BY <3>2 DEF Answer, TypeOK
    <3>3. CASE n \in MapReducers /\ GivesUp(n)
      BY <3>3 DEF GivesUp, TypeOK
    <3>4. CASE n \in MapReducers /\ HealerTimesOut(n)
      BY <3>4 DEF HealerTimesOut, TypeOK
    <3>5. QED
      BY <2>8, <3>1, <3>2, <3>3, <3>4 DEF JobStep
  <2>9. ASSUME NEW t \in MapReducers, MapReduce(t) \/ HealerMapReduce(t) PROVE TypeOK'
    <3>1. t \in Nodes
      BY AddedNodes
    <3>2. job' \in [Nodes -> {"none", "running", "mapping"} \cup Finished]
      BY <2>9, <3>1 DEF MapReduce, HealerMapReduce, TypeOK
    <3>3. Fanned(t)
      BY <2>9 DEF MapReduce, HealerMapReduce
    <3>4. status' \in [Nodes -> Statuses] /\ queue' \in [Nodes -> Nat] /\ event' \in BOOLEAN
      BY <3>3, PutType DEF Fanned, TypeOK
    <3>5. answer' \in [MapReducers -> {"none", "asked", "result", "placeholder", "failed"}]
      BY <3>3 DEF Fanned, TypeOK
    <3>6. QED
      BY <3>2, <3>3, <3>4, <3>5 DEF Fanned, TypeOK
  <2>10. CASE UNCHANGED vars
    BY <2>10 DEF vars, TypeOK
  <2>11. QED
    BY <2>1, <2>2, <2>3, <2>4, <2>5, <2>6, <2>7, <2>8, <2>9, <2>10 DEF Next, LoopStep
<1>3. QED
  BY <1>1, <1>2, PTL DEF Spec

-----------------------------------------------------------------------------
(* Consistent is inductive.  The reason in one line: only a pending task    *)
(* whose parents are recorded is queued, a task leaves the queue before it  *)
(* runs, and it is recorded only after it ran; so a child of the task that  *)
(* is being recorded cannot be in the queue yet.                            *)

INV == TypeOK /\ Consistent

LEMMA BeginStep == INV /\ Begin => Consistent'
<1> SUFFICES ASSUME INV, Begin PROVE Consistent'
  OBVIOUS
<1>1. \A n \in Nodes : queue'[n] > 0 => queue'[n] = 1 /\ Ready(n)'
  BY AddedNodes DEF INV, Begin, Put, TypeOK, Consistent, Ready, Untouched
<1>2. \A t \in MapReducers :
        answer'[t] = "none" => \A n \in Added(t) : status'[n] = "absent" /\ Untouched(n)'
  BY AddedNodes DEF INV, Begin, Put, TypeOK, Consistent, Untouched
<1>3. DependenciesFirst' /\ StatusesAgree' /\ NoOrphan'
  BY DEF INV, Begin, Consistent, DependenciesFirst, StatusesAgree, NoOrphan, Untouched, Running
<1>4. QED
  BY <1>1, <1>2, <1>3 DEF INV, Begin, Consistent

LEMMA PassStep == INV /\ (Pass \/ End \/ Wait \/ Wake \/ NextPass \/ Review \/ Abort) => Consistent'
<1> USE DEF INV, TypeOK, Consistent, DependenciesFirst, StatusesAgree, NoOrphan, Ready, Untouched,
          Running
<1>1. INV /\ Pass => Consistent'
  BY DEF Pass
<1>2. INV /\ End => Consistent'
  BY DEF End, Queued
<1>3. INV /\ Wait => Consistent'
  BY DEF Wait
<1>4. INV /\ Wake => Consistent'
  BY DEF Wake
<1>5. INV /\ NextPass => Consistent'
  BY DEF NextPass
<1>6. INV /\ Review => Consistent'
  BY DEF Review
<1>7. INV /\ Abort => Consistent'
  BY DEF Abort
<1>8. QED
  BY <1>1, <1>2, <1>3, <1>4, <1>5, <1>6, <1>7

LEMMA BreakStep == INV /\ (Cleanup \/ Contract \/ SpendBudget) => Consistent'
<1> USE DEF INV, TypeOK, Consistent, DependenciesFirst, StatusesAgree, NoOrphan, Ready, Untouched,
          Running
<1>2. INV /\ Cleanup => Consistent'
  BY AddedNodes DEF Cleanup
<1>3. ASSUME INV, Contract PROVE Consistent'
  <2>1. \A n \in Nodes :
          /\ status'[n] = "running" <=> status[n] = "running"
          /\ status[n] \in {"pending", "success", "absent"} => status'[n] = status[n]
    <3>1. CASE status' = status
      BY <3>1
    <3>2. CASE status' = [n \in Nodes |->
                            IF status[n] \in {"error", "blocked"} THEN "success" ELSE status[n]]
      BY <3>2
    <3>3. QED
      BY <1>3, <3>1, <3>2 DEF Contract
  <2>2. /\ recorded' = recorded /\ queue' = queue /\ job' = job /\ answer' = answer
        /\ current' = current /\ pc = "ended" /\ pc' \in {"success", "error"}
    BY <1>3 DEF Contract
  <2>3. DependenciesFirst' /\ StatusesAgree' /\ NoOrphan'
    BY <1>3, <2>1, <2>2
  <2>4. \A n \in Nodes : queue'[n] > 0 => queue'[n] = 1 /\ Ready(n)'
    BY <1>3, <2>1, <2>2
  <2>5. \A t \in MapReducers :
          answer'[t] = "none" => \A n \in Added(t) : status'[n] = "absent" /\ Untouched(n)'
    BY <1>3, <2>1, <2>2, AddedNodes
  <2>6. QED
    BY <1>3, <2>2, <2>3, <2>4, <2>5
<1>4. INV /\ SpendBudget => Consistent'
  BY DEF SpendBudget
<1>5. QED
  BY <1>2, <1>3, <1>4

LEMMA StepRaisedStep == ASSUME NEW n \in Nodes PROVE INV /\ StepRaised(n) => Consistent'
<1> SUFFICES ASSUME INV, StepRaised(n) PROVE Consistent'
  OBVIOUS
<1> USE DEF INV, TypeOK, Consistent, DependenciesFirst, StatusesAgree, NoOrphan, Ready, Untouched,
          Running
<1>1. /\ UNCHANGED <<queue, job, answer>> /\ pc' = "cleanup" /\ current' = {}
      /\ n \in current /\ \A m \in current : m = n
  BY DEF StepRaised
<1>2. CASE pc = "recording"
  <2>1. recorded' \in {recorded, recorded \union {n}} /\ status' = status
    BY <1>2 DEF StepRaised
  <2>2. n \notin recorded /\ status[n] = "success" /\ Parents(n) \subseteq recorded
    BY <1>1, <1>2
  <2>3. \A t \in MapReducers :
          answer'[t] = "none" => \A m \in Added(t) : status'[m] = "absent" /\ Untouched(m)'
    BY <1>1, <2>1, <2>2
  <2>4. QED
    BY <1>1, <2>1, <2>2, <2>3
<1>3. CASE pc = "healing"
  <2>1. PICK s \in {"running", "pending", "error"} : status' = [status EXCEPT ![n] = s]
    BY <1>3 DEF StepRaised
  <2>2. status[n] = "running" /\ job[n] = "none" /\ recorded' = recorded
    BY <1>1, <1>3 DEF StepRaised
  <2>3. queue[n] = 0 /\ n \notin recorded
    BY <2>2
  <2>4. \A m \in Nodes : status'[m] = IF m = n THEN s ELSE status[m]
    BY <2>1
  <2>5. \A t \in MapReducers :
          answer'[t] = "none" => \A m \in Added(t) : status'[m] = "absent" /\ Untouched(m)'
    BY <1>1, <2>2, <2>4, AddedNodes
  <2>6. QED
    BY <1>1, <2>2, <2>3, <2>4, <2>5
<1>4. QED
  BY <1>2, <1>3 DEF StepRaised

LEMMA LaunchStep ==
  ASSUME NEW n \in Nodes
  PROVE  INV /\ (Launch(n) \/ LaunchRaises(n) \/ BudgetStop(n)) => Consistent'
  BY AddedNodes DEF INV, Launch, LaunchRaises, BudgetStop, TypeOK, Consistent,
         DependenciesFirst, StatusesAgree, NoOrphan, Ready, Untouched, Running

LEMMA EndedStep ==
  ASSUME NEW n \in Nodes
  PROVE  INV /\ (TaskSucceeded(n) \/ TaskFailed(n) \/ TaskRaised(n)) => Consistent'
  BY AddedNodes DEF INV, TaskSucceeded, TaskFailed, TaskRaised, TypeOK, Consistent,
         DependenciesFirst, StatusesAgree, NoOrphan, Ready, Untouched, Running

LEMMA RecordStep == ASSUME NEW n \in Nodes PROVE INV /\ Record(n) => Consistent'
  BY AddedNodes DEF INV, Record, NewlyReady, Unlocked, Put, TypeOK, Consistent,
         DependenciesFirst, StatusesAgree, NoOrphan, Ready, Untouched, Running

LEMMA HealedStep ==
  ASSUME NEW n \in Nodes
  PROVE  INV /\ (Healed(n) \/ NotHealed(n)) => Consistent'
<1> USE AddedNodes DEF INV, TypeOK, Consistent, DependenciesFirst, StatusesAgree, NoOrphan, Ready,
          Untouched, Running, Healing
<1>1. ASSUME INV, Healed(n) PROVE Consistent'
  <2>1. queue[n] = 0 /\ n \notin recorded /\ status[n] = "running" /\ job[n] = "none"
    BY <1>1 DEF Healed
  <2>2. \A m \in Nodes : queue'[m] > 0 => queue'[m] = 1 /\ Ready(m)'
    BY <1>1, <2>1 DEF Healed, Put
  <2>3. \A t \in MapReducers :
          answer'[t] = "none" => \A m \in Added(t) : status'[m] = "absent" /\ Untouched(m)'
    BY <1>1, <2>1 DEF Healed, Put
  <2>4. DependenciesFirst' /\ StatusesAgree' /\ NoOrphan'
    <3>1. UNCHANGED <<recorded, job>> /\ pc' = "batch" /\ pc = "healing"
      BY <1>1 DEF Healed
    <3>2. \A m \in Nodes : status'[m] = IF m = n THEN "pending" ELSE status[m]
      BY <1>1 DEF Healed
    <3>3. \A m \in current : m = n
      BY <1>1 DEF Healed
    <3>4. QED
      BY <1>1, <2>1, <3>1, <3>2, <3>3
  <2>5. QED
    BY <1>1, <2>2, <2>3, <2>4 DEF Healed
<1>2. INV /\ NotHealed(n) => Consistent'
  BY DEF NotHealed
<1>3. QED
  BY <1>1, <1>2

LEMMA JobEndsStep == ASSUME NEW n \in Nodes PROVE INV /\ JobStep(n) => Consistent'
  BY AddedNodes, NamedValues DEF INV, JobStep, JobEnds, Answer, GivesUp, HealerTimesOut, TypeOK, Consistent,
         DependenciesFirst, StatusesAgree, NoOrphan, Ready, Untouched, Running

LEMMA MapReduceStep ==
  ASSUME NEW t \in MapReducers
  PROVE  INV /\ (MapReduce(t) \/ HealerMapReduce(t)) => Consistent'
<1> USE AddedNodes DEF INV, Fanned, Put, TypeOK, Consistent,
         DependenciesFirst, StatusesAgree, NoOrphan, Ready, Untouched, Running
<1>1. INV /\ MapReduce(t) => Consistent'
  BY DEF MapReduce
<1>2. INV /\ HealerMapReduce(t) => Consistent'
  BY DEF HealerMapReduce
<1>3. QED
  BY <1>1, <1>2

LEMMA Initially == Init => INV
<1> SUFFICES ASSUME Init PROVE INV
  OBVIOUS
<1>1. TypeOK
  BY InitType
<1>2. Consistent
  BY AddedNodes DEF Init, Consistent, DependenciesFirst, StatusesAgree, NoOrphan, Ready, Untouched, Running
<1>3. QED
  BY <1>1, <1>2 DEF INV

LEMMA Stuttering == INV /\ UNCHANGED vars => Consistent'
  BY DEF INV, vars, Consistent, DependenciesFirst, StatusesAgree, NoOrphan, Ready, Untouched, Running

\* What is queued is ready, once; the statuses in memory, the table and the jobs agree:
\* the inductive invariant.
THEOREM ExecutionConsistent == Spec => []Consistent
<1>1. Init => INV
  BY Initially
<1>2. INV /\ [Next]_vars => Consistent'
  BY BeginStep, PassStep, BreakStep, StepRaisedStep, LaunchStep, EndedStep, RecordStep, HealedStep, JobEndsStep,
     MapReduceStep, Stuttering DEF Next, LoopStep
<1>3. Spec => []TypeOK
  BY TypeCorrect
<1>4. TypeOK /\ Consistent /\ [Next]_vars => Consistent'
  BY <1>2 DEF INV
<1>5. Init => Consistent
  BY <1>1 DEF INV
<1>6. QED
  BY <1>3, <1>4, <1>5, PTL DEF Spec

\* Whatever fails, is healed or is added, a task runs or is recorded only after
\* everything it depends on has succeeded.
THEOREM DependenciesRespected == Spec => []DependenciesFirst
<1>1. Consistent => DependenciesFirst
  BY DEF Consistent
<1>2. QED
  BY <1>1, ExecutionConsistent, PTL

\* No task is queued twice or while it runs: it never has two jobs.
THEOREM NeverQueuedTwice == Spec => []QueuedOnce
<1>1. Consistent => QueuedOnce
  BY DEF Consistent, QueuedOnce, Ready
<1>2. QED
  BY <1>1, ExecutionConsistent, PTL

\* The table, the memory and the jobs agree on what has succeeded and what runs.
THEOREM StatusesAlwaysAgree == Spec => []StatusesAgree
<1>1. Consistent => StatusesAgree
  BY DEF Consistent
<1>2. QED
  BY <1>1, ExecutionConsistent, PTL

\* An execution that ends outside an abort leaves no job behind.
THEOREM NoJobLeftBehind == Spec => []NoOrphan
<1>1. Consistent => NoOrphan
  BY DEF Consistent
<1>2. QED
  BY <1>1, ExecutionConsistent, PTL

\* The queue, the statuses, the table and the jobs tell one story.
THEOREM ExecutionAlwaysSound == Spec => []ExecutionSound
<1>1. TypeOK /\ Consistent /\ QueuedOnce => ExecutionSound
  BY DEF ExecutionSound
<1>2. QED
  BY <1>1, TypeCorrect, ExecutionConsistent, NeverQueuedTwice, PTL

-----------------------------------------------------------------------------
(* A plan whose dependencies have an order is executed whole, or ends with *)
(* an error.  Consistent says that what is queued is ready; here, that     *)
(* what is ready is queued (Advancing).  When nothing is queued and        *)
(* nothing runs, a task that still waits would wait for another one that   *)
(* does, and so on: the first of them in the order has nobody to wait for. *)

\* The dependencies have an order.
Acyclic == \E rank \in [Tasks -> Nat] : \A t \in Tasks : \A p \in DependsOn[t] : rank[p] < rank[t]

\* What exists: the tasks of the plan, and all that a map_reduce adds or nothing of it.
Planned ==
  /\ \A t \in Tasks : status[t] # "absent"
  /\ \A t \in MapReducers : status[Reduce(t)] # "absent" => \A n \in Maps(t) : status[n] # "absent"
  /\ pc = "idle" => \A n \in Nodes \ Tasks : status[n] = "absent"

\* As long as nothing went wrong, a task that waits and is not queued waits for a parent,
\* and no success stays unwritten.
Advancing ==
  pc \notin {"idle"} \union Over /\ ~hasError =>
    \A n \in Nodes :
      /\ status[n] = "pending" => queue[n] > 0 \/ ~Unlocked(n, recorded)
      /\ status[n] \notin {"error", "blocked"}
      /\ status[n] = "success" => n \in recorded \/ (pc = "recording" /\ n \in current)

\* The loop leaves the plan only by its condition, or with an error.
Reported == pc = "cleanup" => hasError

Complete == Planned /\ Advancing /\ Reported /\ EndsComplete

LEMMA ParentsAre ==
  /\ \A t \in Tasks : Parents(t) = DependsOn[t] /\ DependsOn[t] \subseteq Tasks
  /\ \A t \in MapReducers : Parents(Reduce(t)) = Maps(t)
  /\ \A n \in Nodes \ Tasks : \E t \in MapReducers : n \in Maps(t) \/ n = Reduce(t)
  /\ \A n \in Nodes : Parents(n) \subseteq Nodes
<1>1. \A t \in Tasks : Parents(t) = DependsOn[t] /\ DependsOn[t] \subseteq Tasks
  BY DagConstants DEF Parents
<1>2. ASSUME NEW t \in MapReducers PROVE Parents(Reduce(t)) = Maps(t)
  <2>1. Reduce(t) \notin Tasks
    BY AddedNodes
  <2>2. Reduce(t)[1] = t /\ Reduce(t)[2] = 0
    BY DEF Reduce
  <2>3. QED
    BY <2>1, <2>2 DEF Parents
<1>3. \A n \in Nodes \ Tasks : \E t \in MapReducers : n \in Maps(t) \/ n = Reduce(t)
  BY DEF Nodes, Added
<1>4. \A n \in Nodes : Parents(n) \subseteq Nodes
  BY <1>1, <1>2, <1>3, AddedNodes
<1>5. QED
  BY <1>1, <1>2, <1>3, <1>4

\* No plan is left waiting for itself.
LEMMA NobodyWaits ==
  ASSUME Acyclic, INV, Planned, pc = "top", ~hasError, Advancing, Queued \union Running = {}
  PROVE  \A n \in Nodes : status[n] \in {"absent", "success"}
<1> DEFINE Waiting == {n \in Nodes : status[n] = "pending"}
<1>1. \A n \in Nodes : queue[n] = 0 /\ job[n] = "none"
  BY DEF INV, TypeOK, Queued, Running
<1>2. \A n \in Nodes : status[n] \in {"absent", "pending", "success"}
  BY <1>1 DEF INV, TypeOK, Consistent, StatusesAgree, Advancing, Over, Statuses
<1>3. \A n \in Nodes : status[n] = "success" => n \in recorded
  BY DEF Advancing, Over
<1>4. ASSUME NEW n \in Waiting PROVE \E p \in Parents(n) : status[p] \in {"absent", "pending"}
  <2>1. ~(Parents(n) \subseteq recorded)
    BY <1>1 DEF Advancing, Over, Unlocked, INV, TypeOK
  <2>2. QED
    BY <1>2, <1>3, <2>1, ParentsAre
<1>5. ASSUME NEW t \in Tasks \intersect Waiting PROVE \E p \in DependsOn[t] : p \in Tasks \intersect Waiting
  BY <1>4, ParentsAre, AddedNodes DEF Planned
<1>6. Tasks \intersect Waiting = {}
  <2> SUFFICES ASSUME Tasks \intersect Waiting # {} PROVE FALSE
    OBVIOUS
  <2>1. PICK rank \in [Tasks -> Nat] : \A t \in Tasks : \A p \in DependsOn[t] : rank[p] < rank[t]
    BY DEF Acyclic
  <2> DEFINE Ranks == {rank[t] : t \in Tasks \intersect Waiting}
             before == {ij \in Nat \X Nat : ij[1] < ij[2]}
  <2>2. Ranks \subseteq Nat /\ Ranks # {}
    OBVIOUS
  <2>3. IsWellFoundedOn(before, Nat)
    BY NatLessThanWellFounded DEF OpToRel
  <2> HIDE DEF Ranks, before
  <2>4. PICK i \in Ranks : \A j \in Ranks : <<j, i>> \notin before
    BY <2>2, <2>3, WFMin
  <2>5. PICK t \in Tasks \intersect Waiting : i = rank[t]
    BY <2>4 DEF Ranks
  <2>6. PICK p \in DependsOn[t] : p \in Tasks \intersect Waiting
    BY <1>5
  <2>7. rank[p] \in Ranks /\ rank[p] < i /\ rank[p] \in Nat /\ i \in Nat
    BY <2>1, <2>2, <2>5, <2>6 DEF Ranks
  <2>8. QED
    BY <2>4, <2>7 DEF before
<1>7. ASSUME NEW n \in Waiting PROVE FALSE
  <2>1. PICK t \in MapReducers : n \in Maps(t) \/ n = Reduce(t)
    BY <1>6, ParentsAre
  <2>2. CASE n \in Maps(t)
    BY <1>4, <2>2, AddedNodes
  <2>3. CASE n = Reduce(t)
    <3>1. PICK p \in Maps(t) : status[p] \in {"absent", "pending"}
      BY <1>4, <2>3, ParentsAre
    <3>2. p \in Waiting
      BY <2>3, <3>1, AddedNodes DEF Planned
    <3>3. QED
      BY <1>4, <3>1, <3>2, AddedNodes
  <2>4. QED
    BY <2>1, <2>2, <2>3
<1>8. QED
  BY <1>2, <1>7

\* A step that queues nothing, writes no status and no success, and goes on from where it is.
LEMMA AdvancingFrame ==
  ASSUME Advancing, pc \notin {"idle", "recording"} \union Over,
         status' = status, recorded \subseteq recorded', recorded' \subseteq recorded,
         queue' = queue, hasError' = hasError
  PROVE  Advancing'
<1>1. recorded' = recorded
  OBVIOUS
<1>2. QED
  BY <1>1 DEF Advancing, Unlocked, Parents

LEMMA CompleteLoop ==
  ASSUME Acyclic, INV, INV', Complete,
         Begin \/ Pass \/ End \/ Wait \/ Wake \/ NextPass \/ Cleanup
           \/ Review \/ Contract \/ Abort \/ SpendBudget
  PROVE  Complete'
<1>1. Planned'
  <2>1. CASE status' = status
    BY <2>1 DEF Complete, Planned, Begin, Pass, End, Wait, Wake, NextPass, Cleanup, Review, Contract,
       Abort, SpendBudget
  <2>2. CASE Contract /\ status' # status
    <3>1. \A n \in Nodes : status'[n] = "absent" <=> status[n] = "absent"
      BY <2>2 DEF Contract, INV, TypeOK, Statuses
    <3>2. pc' # "idle"
      BY <2>2 DEF Contract
    <3>3. QED
      BY <3>1, <3>2, AddedNodes DEF Complete, Planned
  <2>3. QED
    BY <2>1, <2>2 DEF Begin, Pass, End, Wait, Wake, NextPass, Cleanup, Review, Abort, SpendBudget
<1>2. Reported'
  BY DEF Complete, Reported, Begin, Pass, End, Wait, Wake, NextPass, Cleanup, Review, Contract,
     Abort, SpendBudget
<1>3. Advancing'
  <2>1. CASE Begin
    <3>1. /\ recorded' = {} /\ \A n \in Nodes : status'[n] = IF n \in Tasks THEN "pending" ELSE "absent"
      BY <2>1 DEF Begin, INV, Consistent, Untouched, TypeOK, Complete, Planned
    <3>2. \A n \in Nodes : status'[n] = "pending" => queue'[n] > 0 \/ Parents(n) # {}
      BY <2>1, <3>1 DEF Begin, Put, INV, TypeOK
    <3>3. QED
      BY <3>1, <3>2 DEF Advancing, Unlocked, Parents
  <2>2. CASE Pass \/ End \/ Wait \/ Wake \/ NextPass \/ Cleanup
    BY <2>2, AdvancingFrame DEF Pass, End, Wait, Wake, NextPass, Cleanup, Complete, Over
  <2>4. CASE Review \/ Contract \/ Abort
    BY <2>4 DEF Review, Contract, Abort, Advancing, Over
  <2>5. CASE SpendBudget
    BY <2>5 DEF SpendBudget, Advancing, Complete, Unlocked, Parents
  <2>6. QED
    BY <2>1, <2>2, <2>4, <2>5
<1>4. EndsComplete'
  <2>1. CASE End
    <3>1. ~hasError => \A n \in Nodes : status[n] \in {"absent", "success"}
      BY <2>1, NobodyWaits DEF End, Complete
    <3>2. QED
      BY <2>1, <3>1 DEF End, EndsComplete
  <2>2. CASE Cleanup
    BY <2>2 DEF Cleanup, Complete, Reported, EndsComplete
  <2>3. CASE ~(End \/ Cleanup)
    BY <2>3 DEF Begin, Pass, Wait, Wake, NextPass, Review, Contract, Abort, SpendBudget, Complete,
       EndsComplete
  <2>4. QED
    BY <2>1, <2>2, <2>3
<1>5. QED
  BY <1>1, <1>2, <1>3, <1>4 DEF Complete

LEMMA CompleteTask ==
  ASSUME INV, INV', Complete, NEW n \in Nodes,
         Launch(n) \/ BudgetStop(n) \/ TaskSucceeded(n) \/ Record(n)
           \/ StepRaised(n) \/ TaskFailed(n) \/ Healed(n) \/ NotHealed(n) \/ TaskRaised(n)
  PROVE  Complete'
<1>1. \A m \in Nodes : status'[m] = "absent" <=> status[m] = "absent"
  <2>1. \A m \in Nodes : status'[m] # status[m] => m = n /\ status'[m] # "absent" /\ status[m] # "absent"
    <3>1. CASE Launch(n) \/ BudgetStop(n)
      BY <3>1 DEF Launch, BudgetStop, INV, TypeOK, Consistent, Ready
    <3>2. CASE TaskSucceeded(n)
      BY <3>2 DEF TaskSucceeded, INV, TypeOK, Consistent, StatusesAgree
    <3>3. CASE Healed(n) \/ NotHealed(n)
      BY <3>3 DEF Healed, NotHealed, Healing, INV, TypeOK, Consistent
    <3>6. CASE StepRaised(n)
      <4>1. CASE pc = "recording"
        BY <3>6, <4>1 DEF StepRaised
      <4>2. CASE pc = "healing"
        <5>1. PICK s \in {"running", "pending", "error"} : status' = [status EXCEPT ![n] = s]
          BY <3>6, <4>2 DEF StepRaised
        <5>2. status[n] = "running"
          BY <3>6, <4>2 DEF StepRaised, INV, Consistent
        <5>3. QED
          BY <5>1, <5>2 DEF INV, TypeOK
      <4>3. QED
        BY <3>6, <4>1, <4>2 DEF StepRaised
    <3>4. CASE Record(n) \/ TaskFailed(n) \/ TaskRaised(n)
      BY <3>4 DEF Record, TaskFailed, TaskRaised
    <3>5. QED
      BY <3>1, <3>2, <3>3, <3>4, <3>6
  <2>2. QED
    BY <2>1
<1>2. pc \notin {"idle"} \union Over /\ pc' \notin {"idle", "ended"} \union Over
  BY DEF Launch, BudgetStop, TaskSucceeded, Record, StepRaised, TaskFailed, Healed, NotHealed, Healing,
     TaskRaised, Over
<1>3. Planned'
  BY <1>1, <1>2, AddedNodes DEF Complete, Planned
<1>4. Reported' /\ EndsComplete'
  BY <1>2 DEF Reported, EndsComplete, Launch, BudgetStop, TaskSucceeded, Record, StepRaised,
     TaskFailed, Healed, NotHealed, Healing, TaskRaised
<1>5. Advancing'
  <2> USE DEF Advancing, Unlocked, Parents
  <2>1. CASE BudgetStop(n) \/ StepRaised(n) \/ NotHealed(n) \/ TaskRaised(n)
    BY <2>1 DEF BudgetStop, StepRaised, NotHealed, TaskRaised
  <2>2. CASE Launch(n)
    BY <2>2 DEF Launch, Complete, INV, TypeOK, Over
  <2>3. CASE TaskSucceeded(n)
    BY <2>3 DEF TaskSucceeded, Complete, INV, TypeOK, Over
  <2>4. CASE TaskFailed(n)
    BY <2>4, AdvancingFrame DEF TaskFailed, Complete, Over
  <2>5. CASE Healed(n)
    BY <2>5 DEF Healed, Healing, Put, Complete, INV, TypeOK, Over
  <2>6. CASE Record(n)
    <3> SUFFICES ASSUME ~hasError', NEW m \in Nodes
                 PROVE  /\ status'[m] = "pending" => queue'[m] > 0 \/ ~Unlocked(m, recorded')
                        /\ status'[m] \notin {"error", "blocked"}
                        /\ status'[m] = "success" => m \in recorded'
      BY DEF Advancing
    <3>1. /\ status' = status /\ recorded' = recorded \union {n} /\ hasError' = hasError
          /\ queue' = Put(NewlyReady(n, recorded')) /\ pc = "recording" /\ \A k \in current : k = n
      BY <2>6 DEF Record, INV, Consistent
    <3>2. /\ status[m] = "pending" => queue[m] > 0 \/ ~Unlocked(m, recorded)
          /\ status[m] \notin {"error", "blocked"}
          /\ status[m] = "success" => m \in recorded'
      BY <3>1 DEF Complete, Over
    <3>3. queue[m] \in Nat /\ queue'[m] = IF m \in NewlyReady(n, recorded') THEN queue[m] + 1 ELSE queue[m]
      BY <3>1 DEF Put, INV, TypeOK
    <3>4. ASSUME status[m] = "pending", ~Unlocked(m, recorded), Unlocked(m, recorded') PROVE queue'[m] > 0
      <4>1. n \in Parents(m)
        BY <3>1, <3>4
      <4>2. QED
        BY <3>3, <3>4, <4>1 DEF NewlyReady
    <3>5. QED
      BY <3>1, <3>2, <3>3, <3>4
  <2>7. QED
    BY <2>1, <2>2, <2>3, <2>4, <2>5, <2>6
<1>6. QED
  BY <1>3, <1>4, <1>5 DEF Complete

\* An execution that is left by an exception.
LEMMA CompleteRaises ==
  ASSUME INV, Complete, NEW n \in Nodes, LaunchRaises(n)
  PROVE  Complete'
<1>1. pc = "launching" /\ pc' = "aborted" /\ status[n] = "pending" /\ hasError' = hasError
  BY DEF LaunchRaises, INV, TypeOK, Consistent, Ready
<1>2. \A m \in Nodes : status'[m] = "absent" <=> status[m] = "absent"
  BY <1>1 DEF LaunchRaises, INV, TypeOK
<1>3. Planned'
  BY <1>1, <1>2, AddedNodes DEF Complete, Planned
<1>4. QED
  BY <1>1, <1>3 DEF Complete, Advancing, Over, Reported, EndsComplete

LEMMA CompleteJob ==
  ASSUME INV, INV', Complete, NEW n \in Nodes, JobStep(n)
  PROVE  Complete'
<1>1. UNCHANGED <<pc, status, recorded, queue, current, hasError>>
  BY DEF JobStep, JobEnds, Answer, GivesUp, HealerTimesOut
<1>2. QED
  BY <1>1 DEF Complete, Planned, Advancing, Reported, EndsComplete, Unlocked, Parents

\* The maps join the queue, and their reduce waits for them.
LEMMA CompleteMapReduce ==
  ASSUME Chunks # {}, INV, INV', Complete, NEW t \in MapReducers,
         MapReduce(t) \/ HealerMapReduce(t)
  PROVE  Complete'
<1>1. /\ UNCHANGED <<pc, recorded, current, hasError>> /\ answer[t] = "none"
      /\ job[t] = "running" \/ pc = "healing"
      /\ \A n \in Nodes : status'[n] = IF n \in Added(t) THEN "pending" ELSE status[n]
      /\ \A n \in Nodes : queue'[n] = IF n \in Maps(t) THEN queue[n] + 1 ELSE queue[n]
  BY DEF MapReduce, HealerMapReduce, Fanned, Put
<1>2. \A n \in Added(t) : n \in Nodes /\ queue[n] = 0 /\ n \notin recorded
  BY <1>1, AddedNodes DEF INV, Consistent, Untouched
<1>3. t \in Nodes /\ pc \notin {"idle", "ended", "success", "error"}
  BY <1>1, AddedNodes DEF INV, Consistent, Untouched, NoOrphan, Running
<1>4. Planned'
  <2>1. \A s \in Tasks : status'[s] # "absent"
    BY <1>1, AddedNodes DEF Complete, Planned
  <2>2. ASSUME NEW u \in MapReducers, status'[Reduce(u)] # "absent", NEW n \in Maps(u)
        PROVE  status'[n] # "absent"
    BY <1>1, <2>2, AddedNodes DEF Complete, Planned
  <2>3. QED
    BY <1>1, <1>3, <2>1, <2>2 DEF Planned
<1>5. Advancing'
  <2> SUFFICES ASSUME pc' \notin {"idle"} \union Over, ~hasError', NEW n \in Nodes
               PROVE  /\ status'[n] = "pending" => queue'[n] > 0 \/ ~Unlocked(n, recorded')
                      /\ status'[n] \notin {"error", "blocked"}
                      /\ status'[n] = "success" => n \in recorded' \/ (pc' = "recording" /\ n \in current')
    BY DEF Advancing
  <2>1. queue[n] \in Nat
    BY DEF INV, TypeOK
  <2>2. CASE n \in Maps(t)
    BY <1>1, <1>2, <2>1, <2>2, AddedNodes
  <2>3. CASE n = Reduce(t)
    <3>1. PICK c \in Chunks : TRUE
      OBVIOUS
    <3>2. <<t, c>> \in Maps(t)
      BY DEF Maps
    <3>3. ~Unlocked(n, recorded')
      BY <1>1, <1>2, <2>3, <3>2, AddedNodes, ParentsAre DEF Unlocked
    <3>4. QED
      BY <1>1, <2>3, <3>3, AddedNodes
  <2>4. CASE n \notin Added(t)
    <3>1. status'[n] = status[n] /\ queue'[n] = queue[n]
      BY <1>1, <2>4, AddedNodes
    <3>2. QED
      BY <1>1, <3>1 DEF Complete, Advancing, Unlocked, Parents
  <2>5. QED
    BY <2>2, <2>3, <2>4 DEF Added
<1>6. Reported' /\ EndsComplete'
  BY <1>1, <1>3 DEF Complete, Reported, EndsComplete
<1>7. QED
  BY <1>4, <1>5, <1>6 DEF Complete

\* An execution that ends without error has executed its whole plan, if the plan has no
\* cycle (nothing in the code looks for one, and the property fails with it) and a
\* map_reduce has fragments (at least two, tools/dag_map_reduce.py): the loop never takes
\* a plan that is stuck for one that is done.
THEOREM AlwaysEndsComplete == ASSUME Acyclic, Chunks # {} PROVE Spec => []EndsComplete
<1>1. Init => Complete
  <2> SUFFICES ASSUME Init PROVE Complete
    OBVIOUS
  <2>1. Planned
    BY AddedNodes DEF Init, Planned
  <2>2. QED
    BY <2>1 DEF Init, Complete, Advancing, Reported, EndsComplete
<1>2. INV /\ INV' /\ Complete /\ [Next]_vars => Complete'
  <2> SUFFICES ASSUME INV, INV', Complete, [Next]_vars PROVE Complete'
    OBVIOUS
  <2>1. CASE UNCHANGED vars
    BY <2>1 DEF vars, Complete, Planned, Advancing, Reported, EndsComplete, Unlocked, Parents
  <2>2. QED
    BY <2>1, CompleteLoop, CompleteTask, CompleteRaises, CompleteJob, CompleteMapReduce DEF Next, LoopStep
<1>3. Spec => []INV
  BY TypeCorrect, ExecutionConsistent, PTL DEF INV
<1>4. Complete => EndsComplete
  BY DEF Complete
<1>5. QED
  BY <1>1, <1>2, <1>3, <1>4, PTL DEF Spec

-----------------------------------------------------------------------------
(* The pool.                                                               *)

\* One map_reduce is in flight.
OneMapping == \A m, n \in Nodes : job[m] = "mapping" /\ job[n] = "mapping" => m = n

\* The loop waits because nothing is queued or because the plafond is reached, until an event.
Waits ==
  /\ pc \in {"launching", "waiting"} => cap >= MinCap
  /\ pc = "waiting" /\ ~event => Queued = {} \/ ~FreeSlot

LEMMA OneMappingKept == ASSUME INV, OneMapping, [Next]_vars PROVE OneMapping'
<1> USE DEF OneMapping
<1>1. ASSUME \A n \in Nodes : job'[n] = "mapping" => job[n] = "mapping" PROVE OneMapping'
  BY <1>1
<1>2. CASE LoopStep
  <2>1. \A n \in Nodes : job'[n] \in {job[n], "none", "running"}
    BY <1>2 DEF LoopStep, Begin, Pass, End, Wait, Wake, NextPass, Cleanup, Review, Contract, Launch,
       LaunchRaises, StepRaised, BudgetStop, TaskSucceeded, Record, TaskFailed, Healed, NotHealed, TaskRaised, INV, TypeOK
  <2>2. QED
    BY <1>1, <2>1
<1>3. CASE Abort \/ SpendBudget \/ UNCHANGED vars
  BY <1>1, <1>3 DEF Abort, SpendBudget, vars
<1>4. ASSUME NEW n \in Nodes, JobStep(n) PROVE OneMapping'
  <2>1. \A m \in Nodes : job'[m] \in {job[m], "running"} \union Finished
    BY <1>4 DEF JobStep, JobEnds, Answer, GivesUp, HealerTimesOut, Finished, INV, TypeOK
  <2>2. QED
    BY <1>1, <2>1 DEF Finished
<1>5. ASSUME NEW t \in MapReducers, MapReduce(t) \/ HealerMapReduce(t) PROVE OneMapping'
  BY <1>5 DEF MapReduce, HealerMapReduce, Fanned, NoneInFlight, INV, TypeOK
<1>6. QED
  BY <1>2, <1>3, <1>4, <1>5 DEF Next

LEMMA WaitsKept == ASSUME INV, Waits, [Next]_vars PROVE Waits'
<1>1. CASE pc' \notin {"launching", "waiting"}
  BY <1>1 DEF Waits
<1>2. CASE Pass
  <2>1. cap' >= MinCap
    BY <1>2, DagConstants DEF Pass
  <2>2. QED
    BY <1>2, <2>1 DEF Pass, Waits
<1>3. ASSUME NEW n \in Nodes, Launch(n) PROVE Waits'
  BY <1>3 DEF Launch, Waits
<1>4. CASE Wait
  BY <1>4 DEF Wait, Waits, Queued, FreeSlot, Running
<1>5. CASE SpendBudget \/ UNCHANGED vars
  BY <1>5 DEF SpendBudget, vars, Waits, Queued, FreeSlot, Running
<1>6. ASSUME NEW n \in Nodes, JobStep(n) PROVE Waits'
  <2>1. UNCHANGED <<pc, queue, event, cap>> /\ Running' = Running
    <3>1. \A m \in Nodes : job'[m] # "none" <=> job[m] # "none"
      BY <1>6 DEF JobStep, JobEnds, Answer, GivesUp, HealerTimesOut, Finished, INV, TypeOK
    <3>2. QED
      BY <1>6, <3>1 DEF JobStep, JobEnds, Answer, GivesUp, HealerTimesOut, Running
  <2>2. QED
    BY <2>1 DEF Waits, Queued, FreeSlot
<1>7. ASSUME NEW t \in MapReducers, MapReduce(t) \/ HealerMapReduce(t) PROVE Waits'
  BY <1>7 DEF MapReduce, HealerMapReduce, Fanned, Waits
<1>8. QED
  BY <1>1, <1>2, <1>3, <1>4, <1>5, <1>6, <1>7
     DEF Next, LoopStep, Begin, End, Wake, NextPass, Cleanup, Review, Contract, Abort,
         LaunchRaises, StepRaised, BudgetStop, TaskSucceeded, Record, TaskFailed, Healed, NotHealed,
         TaskRaised

\* With a plafond of at least two, whatever it was in the other passes, the loop never waits
\* for a map_reduce whose maps wait for a slot: one map_reduce of a task is in
\* flight, and it holds one slot.  _compute_concurrency_cap may give one, and then it does.
THEOREM StarvedOnlyAtOne == Spec => [](cap >= 2 => PoolNotStarved)
<1>1. Init => OneMapping /\ Waits
  BY DEF Init, OneMapping, Waits
<1>2. INV /\ OneMapping /\ Waits /\ [Next]_vars => (OneMapping /\ Waits)'
  BY OneMappingKept, WaitsKept
<1>3. INV /\ OneMapping /\ Waits => (cap >= 2 => PoolNotStarved)
  <2> SUFFICES ASSUME INV, OneMapping, Waits, cap >= 2, pc = "waiting", ~event, Running # {},
                      \A n \in Running : job[n] = "mapping"
               PROVE  Queued = {}
    BY DEF PoolNotStarved
  <2>1. PICK n \in Running : TRUE
    OBVIOUS
  <2>2. Running = {n}
    BY <2>1 DEF OneMapping, Running
  <2>3. Cardinality(Running) = 1
    BY <2>2, FS_Singleton
  <2>4. FreeSlot
    BY <2>3 DEF FreeSlot, INV, TypeOK
  <2>5. QED
    BY <2>4 DEF Waits
<1>4. Spec => []INV
  BY TypeCorrect, ExecutionConsistent, PTL DEF INV
<1>5. QED
  BY <1>1, <1>2, <1>3, <1>4, PTL DEF Spec
=============================================================================
