------------------------------- MODULE DagRun -------------------------------
(***************************************************************************)
(* One execution of a plan by DAGRunner.execute_dag (core/dag_runner.py),  *)
(* with the self-healing of failed tasks (core/healing.py), the tasks an   *)
(* agent adds while it runs through the tool map_reduce                    *)
(* (core/dag/map_reduce.py, tools/dag_map_reduce.py) and the controls that *)
(* follow (Engine.executer_dag_et_controles).                              *)
(*                                                                         *)
(* The loop of the runner and the jobs of the tasks are coroutines: a step *)
(* of the loop goes from one await to the next that another coroutine can  *)
(* tell apart, and the jobs move between its steps.  The runner keeps the  *)
(* status of the tasks in memory and in the table dag_tasks; of the table  *)
(* only the successes matter, which unlock the children.                   *)
(***************************************************************************)
EXTENDS Naturals, FiniteSets

CONSTANTS
  Tasks,        \* the tasks of the plan
  DependsOn,    \* the tasks of the plan each task depends on
  MapReducers,  \* the tasks whose agent may call map_reduce, once
  Chunks,       \* the fragments of a map_reduce, numbered from 1
  MinCap,       \* bounds of the plafond de concurrence
  MaxCap,
  MaxRetries    \* MAX_HEALING_RETRIES

Maps(t) == {t} \X Chunks
Reduce(t) == <<t, 0>>
Added(t) == Maps(t) \cup {Reduce(t)}
Nodes == Tasks \cup UNION {Added(t) : t \in MapReducers}

ASSUME DagConstants ==
  /\ DependsOn \in [Tasks -> SUBSET Tasks]
  /\ MapReducers \subseteq Tasks
  /\ Chunks \subseteq Nat \ {0}
  /\ Tasks \cap (Tasks \X Nat) = {}
  /\ MinCap \in Nat \ {0} /\ MaxCap \in Nat
  /\ MaxRetries \in Nat

VARIABLES
  pc,         \* where the loop is
  status,     \* tasks_status
  recorded,   \* the tasks that are `success` in dag_tasks
  queue,      \* how many times each task is in the PriorityQueue
  job,        \* running_jobs
  batch,      \* the finished jobs the loop is going through
  current,    \* the finished task the loop works on
  event,      \* _new_task_event
  cap,        \* the plafond of this pass
  retries,    \* tasks_retries
  hasError,
  exhausted,  \* whether the budget is spent
  answer      \* what the map_reduce of each task returned

vars == <<pc, status, recorded, queue, job, batch, current, event, cap, retries, hasError,
          exhausted, answer>>

Statuses == {"absent", "pending", "running", "success", "error", "blocked"}
Phases == {"idle", "top", "launching", "waiting", "batch", "recording", "healing", "cleanup",
           "ended", "success", "error", "aborted"}
Over == {"success", "error", "aborted"}
Finished == {"ok", "ko", "raised"}

Running == {n \in Nodes : job[n] # "none"}
Done == {n \in Nodes : job[n] \in Finished}
Queued == {n \in Nodes : queue[n] > 0}

TypeOK ==
  /\ pc \in Phases
  /\ status \in [Nodes -> Statuses]
  /\ recorded \subseteq Nodes
  /\ queue \in [Nodes -> Nat]
  /\ job \in [Nodes -> {"none", "running", "mapping"} \cup Finished]
  /\ batch \subseteq Nodes
  /\ current \subseteq Nodes
  /\ event \in BOOLEAN
  /\ cap \in Nat
  /\ retries \in [Nodes -> Nat]
  /\ hasError \in BOOLEAN
  /\ exhausted \in BOOLEAN
  /\ answer \in [MapReducers -> {"none", "asked", "result", "placeholder", "failed"}]

Init ==
  /\ pc = "idle"
  /\ status = [n \in Nodes |-> IF n \in Tasks THEN "pending" ELSE "absent"]
  /\ recorded = {}
  /\ queue = [n \in Nodes |-> 0]
  /\ job = [n \in Nodes |-> "none"]
  /\ batch = {} /\ current = {}
  /\ event = FALSE
  /\ cap = MinCap
  /\ retries = [n \in Nodes |-> 0]
  /\ hasError = FALSE /\ exhausted = FALSE
  /\ answer = [t \in MapReducers |-> "none"]

-----------------------------------------------------------------------------
(* The graph: the rows of dag_edges.                                       *)

Parents(n) == IF n \in Tasks THEN DependsOn[n] ELSE IF n[2] = 0 THEN Maps(n[1]) ELSE {}

\* Mutant of Unlocked: one parent that succeeded is enough.
UnlockedByOne(n, done) == Parents(n) \cap done # {}

\* All the parents are `success` in dag_tasks (_get_newly_ready_children).
Unlocked(n, done) == Parents(n) \subseteq done

\* Mutant of NewlyReady: the children are looked for before the success is written.
NewlyReadyStale(n, done) ==
  {c \in Nodes : n \in Parents(c) /\ Unlocked(c, done \ {n}) /\ status[c] = "pending"}

\* The children that the success of n makes ready, of those that are pending.
NewlyReady(n, done) ==
  {c \in Nodes : n \in Parents(c) /\ Unlocked(c, done) /\ status[c] = "pending"}

Put(ready) == [n \in Nodes |-> IF n \in ready THEN queue[n] + 1 ELSE queue[n]]

-----------------------------------------------------------------------------
(* The loop.                                                               *)

\* The plan is written to the tables and its roots are queued.
Begin ==
  /\ pc = "idle"
  /\ queue' = Put({t \in Tasks : Parents(t) = {}})
  /\ pc' = "top"
  /\ UNCHANGED <<status, recorded, job, batch, current, event, cap, retries, hasError,
                 exhausted, answer>>

\* A new pass, with a new plafond; or nothing is queued and nothing runs.
Pass ==
  /\ pc = "top"
  /\ Queued \cup Running # {}
  /\ \E c \in MinCap .. MaxCap : cap' = c
  /\ pc' = "launching"
  /\ UNCHANGED <<status, recorded, queue, job, batch, current, event, retries, hasError,
                 exhausted, answer>>

End ==
  /\ pc = "top"
  /\ Queued \cup Running = {}
  /\ pc' = "ended"
  /\ UNCHANGED <<status, recorded, queue, job, batch, current, event, cap, retries, hasError,
                 exhausted, answer>>

\* Mutant of FreeSlot: the plafond is one too low.
FreeSlotShort == Cardinality(Running) + 1 < cap

FreeSlot == Cardinality(Running) < cap

\* A task is taken from the queue; the stages give the order, which is left open.
Launch(n) ==
  /\ pc = "launching" /\ FreeSlot /\ ~exhausted
  /\ queue[n] > 0
  /\ queue' = [queue EXCEPT ![n] = @ - 1]
  /\ status' = [status EXCEPT ![n] = "running"]
  /\ job' = [job EXCEPT ![n] = "running"]
  /\ UNCHANGED <<pc, recorded, batch, current, event, cap, retries, hasError, exhausted, answer>>

BudgetStop(n) ==
  /\ pc = "launching" /\ FreeSlot /\ exhausted
  /\ queue[n] > 0
  /\ queue' = [queue EXCEPT ![n] = @ - 1]
  /\ status' = [status EXCEPT ![n] = "blocked"]
  /\ hasError' = TRUE
  /\ pc' = "cleanup"
  /\ UNCHANGED <<recorded, job, batch, current, event, cap, retries, exhausted, answer>>

\* The write of the new status raises, before the job is created or the rest is stopped: the
\* exception leaves execute_dag, and nobody ends the jobs that run.
LaunchRaises(n) ==
  /\ pc = "launching" /\ FreeSlot
  /\ queue[n] > 0
  /\ queue' = [queue EXCEPT ![n] = @ - 1]
  /\ status' = IF exhausted THEN status ELSE [status EXCEPT ![n] = "running"]
  /\ pc' = "aborted"
  /\ UNCHANGED <<recorded, job, batch, current, event, cap, retries, hasError, exhausted, answer>>

Wait ==
  /\ pc = "launching"
  /\ Queued = {} \/ ~FreeSlot
  /\ pc' = "waiting"
  /\ UNCHANGED <<status, recorded, queue, job, batch, current, event, cap, retries, hasError,
                 exhausted, answer>>

\* asyncio.wait returns with the jobs that are done, or with the event alone.
Wake ==
  /\ pc = "waiting"
  /\ Done # {} \/ event
  /\ batch' = Done
  /\ event' \in IF Done = {} THEN {FALSE} ELSE {FALSE, event}
  /\ pc' = "batch"
  /\ UNCHANGED <<status, recorded, queue, job, current, cap, retries, hasError, exhausted, answer>>

NextPass ==
  /\ pc = "batch" /\ batch = {}
  /\ pc' = "top"
  /\ UNCHANGED <<status, recorded, queue, job, batch, current, event, cap, retries, hasError,
                 exhausted, answer>>

\* A job that succeeded: its status first, the table at the next step.
TaskSucceeded(n) ==
  /\ pc = "batch" /\ n \in batch /\ job[n] = "ok"
  /\ job' = [job EXCEPT ![n] = "none"]
  /\ batch' = batch \ {n}
  /\ status' = [status EXCEPT ![n] = "success"]
  /\ current' = {n}
  /\ pc' = "recording"
  /\ UNCHANGED <<recorded, queue, event, cap, retries, hasError, exhausted, answer>>

\* _update_task_status_db, then the children it makes ready are queued.
Record(n) ==
  /\ pc = "recording" /\ n \in current
  /\ recorded' = recorded \cup {n}
  /\ LET ready == NewlyReady(n, recorded') IN
       /\ queue' = Put(ready)
       /\ event' = (event \/ ready # {})
  /\ current' = {}
  /\ pc' = "batch"
  /\ UNCHANGED <<status, job, batch, cap, retries, hasError, exhausted, answer>>

\* Mutant of TaskFailed: the retries are not counted.
TaskFailedUncounted(n) ==
  /\ pc = "batch" /\ n \in batch /\ job[n] = "ko"
  /\ job' = [job EXCEPT ![n] = "none"]
  /\ batch' = batch \ {n}
  /\ current' = {n}
  /\ pc' = "healing"
  /\ UNCHANGED <<status, recorded, queue, event, cap, retries, hasError, exhausted, answer>>

\* A job that failed: the planner is asked to heal it, MaxRetries times.
TaskFailed(n) ==
  /\ pc = "batch" /\ n \in batch /\ job[n] = "ko"
  /\ job' = [job EXCEPT ![n] = "none"]
  /\ batch' = batch \ {n}
  /\ retries' = [retries EXCEPT ![n] = @ + 1]
  /\ current' = {n}
  /\ pc' = "healing"
  /\ UNCHANGED <<status, recorded, queue, event, cap, hasError, exhausted, answer>>

\* attempt_healing gives up after MAX_HEALING_RETRIES; until then the plan of the
\* planner may succeed or not.
MayHeal(n) == retries[n] <= MaxRetries

\* A corrective task waits for a map_reduce.
HealerWaits(n) == n \in MapReducers /\ answer[n] = "asked"
Healing(n) == pc = "healing" /\ n \in current /\ ~HealerWaits(n)

\* Mutant of Healed: the task is queued again and keeps its status.
HealedRunning(n) ==
  /\ Healing(n) /\ MayHeal(n)
  /\ queue' = Put({n})
  /\ event' = TRUE
  /\ current' = {}
  /\ pc' = "batch"
  /\ UNCHANGED <<status, recorded, job, batch, cap, retries, hasError, exhausted, answer>>

\* The corrective tasks succeeded: the task is queued again.
Healed(n) ==
  /\ Healing(n) /\ MayHeal(n)
  /\ status' = [status EXCEPT ![n] = "pending"]
  /\ queue' = Put({n})
  /\ event' = TRUE
  /\ current' = {}
  /\ pc' = "batch"
  /\ UNCHANGED <<recorded, job, batch, cap, retries, hasError, exhausted, answer>>

\* Not healed: the task is in error and the rest of the batch is left as it is.
NotHealed(n) ==
  /\ Healing(n)
  /\ status' = [status EXCEPT ![n] = "error"]
  /\ hasError' = TRUE
  /\ batch' = {} /\ current' = {}
  /\ pc' = "cleanup"
  /\ UNCHANGED <<recorded, queue, job, event, cap, retries, exhausted, answer>>

\* A job that raised stays in running_jobs with its status.
TaskRaised(n) ==
  /\ pc = "batch" /\ n \in batch /\ job[n] = "raised"
  /\ hasError' = TRUE
  /\ batch' = {}
  /\ pc' = "cleanup"
  /\ UNCHANGED <<status, recorded, queue, job, current, event, cap, retries, exhausted, answer>>

\* The write in the table, an observer or a corrective task raised: before the success is
\* written or after it, before the healing has set a status or after it.
StepRaised(n) ==
  /\ pc \in {"recording", "healing"} /\ n \in current
  /\ IF pc = "recording"
       THEN recorded' \in {recorded, recorded \cup {n}} /\ UNCHANGED status
       ELSE /\ \E s \in {"running", "pending", "error"} : status' = [status EXCEPT ![n] = s]
            /\ UNCHANGED recorded
  /\ hasError' = TRUE
  /\ batch' = {} /\ current' = {}
  /\ pc' = "cleanup"
  /\ UNCHANGED <<queue, job, event, cap, retries, exhausted, answer>>

\* Mutant of Cleanup: the jobs that are left go on.
CleanupNothing ==
  /\ pc = "cleanup"
  /\ pc' = "ended"
  /\ UNCHANGED <<status, recorded, queue, job, batch, current, event, cap, retries, hasError,
                 exhausted, answer>>

\* The jobs that are left are cancelled and waited for.
Cleanup ==
  /\ pc = "cleanup"
  /\ job' = [n \in Nodes |-> "none"]
  /\ pc' = "ended"
  /\ UNCHANGED <<status, recorded, queue, batch, current, event, cap, retries, hasError,
                 exhausted, answer>>

\* executer_dag_et_controles: the reviewer judges a DAG without error; after an
\* error the acceptance contract may absolve the tasks in error or blocked.
Review ==
  /\ pc = "ended" /\ ~hasError
  /\ pc' \in {"success", "error"}
  /\ UNCHANGED <<status, recorded, queue, job, batch, current, event, cap, retries, hasError,
                 exhausted, answer>>

Contract ==
  /\ pc = "ended" /\ hasError
  /\ \/ /\ pc' = "success"
        /\ hasError' = FALSE
        /\ status' = [n \in Nodes |-> IF status[n] \in {"error", "blocked"} THEN "success" ELSE status[n]]
     \/ pc' = "error" /\ UNCHANGED <<status, hasError>>
  /\ UNCHANGED <<recorded, queue, job, batch, current, event, cap, retries, exhausted, answer>>

\* The time limit of the pipeline cancels execute_dag at one of its awaits; the
\* jobs are coroutines of their own, which nobody cancels.
Abort ==
  /\ pc \in {"launching", "waiting", "recording", "healing", "cleanup", "ended"}
  /\ pc' = "aborted"
  /\ UNCHANGED <<status, recorded, queue, job, batch, current, event, cap, retries, hasError,
                 exhausted, answer>>

-----------------------------------------------------------------------------
(* The jobs and the budget.                                                *)

\* _run_single_task returns a success or an error, or raises.
JobEnds(n, result) ==
  /\ job[n] = "running"
  /\ job' = [job EXCEPT ![n] = result]
  /\ UNCHANGED <<pc, status, recorded, queue, batch, current, event, cap, retries, hasError,
                 exhausted, answer>>

\* "Un seul MapReduce en vol" (_mapreduce_tool_en_vol).
NoneInFlight ==
  /\ \A t \in Nodes : job[t] # "mapping"
  /\ pc = "healing" => \A n \in current : ~HealerWaits(n)

\* The maps and their reduce join the plan and the maps are queued.
Fanned(t) ==
  /\ answer[t] = "none" /\ NoneInFlight
  /\ status' = [n \in Nodes |-> IF n \in Added(t) THEN "pending" ELSE status[n]]
  /\ queue' = Put(Maps(t))
  /\ event' = TRUE
  /\ answer' = [answer EXCEPT ![t] = "asked"]
  /\ UNCHANGED <<pc, recorded, batch, current, cap, retries, hasError, exhausted>>

\* The agent of t calls map_reduce; its job keeps its slot while it waits for the reduce.
MapReduce(t) ==
  /\ job[t] = "running"
  /\ Fanned(t)
  /\ job' = [job EXCEPT ![t] = "mapping"]

\* The agent of a corrective task calls it. The loop that would launch the maps waits for
\* the healing, so that nothing but the timeout of the tool ends the call.
HealerMapReduce(t) ==
  /\ pc = "healing" /\ t \in current /\ MayHeal(t)
  /\ Fanned(t)
  /\ UNCHANGED job

HealerTimesOut(t) ==
  /\ pc = "healing" /\ t \in current /\ HealerWaits(t)
  /\ answer' = [answer EXCEPT ![t] = "failed"]
  /\ UNCHANGED <<pc, status, recorded, queue, job, batch, current, event, cap, retries, hasError,
                 exhausted>>

\* The poll of the reduce: its status is read in memory, its outputs in dag_tasks.
Answer(t) ==
  /\ job[t] = "mapping"
  /\ status[Reduce(t)] \in {"success", "error", "blocked"}
  /\ answer' = [answer EXCEPT ![t] =
                  IF status[Reduce(t)] # "success" THEN "failed"
                  ELSE IF Reduce(t) \in recorded THEN "result" ELSE "placeholder"]
  /\ job' = [job EXCEPT ![t] = "running"]
  /\ UNCHANGED <<pc, status, recorded, queue, batch, current, event, cap, retries, hasError,
                 exhausted>>

\* The timeout of the tool gives the agent an error, the watchdog of the task ends its job:
\* the maps and the reduce stay in the plan.
GivesUp(t) ==
  /\ job[t] = "mapping"
  /\ \E l \in {"running", "ko"} : job' = [job EXCEPT ![t] = l]
  /\ answer' = [answer EXCEPT ![t] = "failed"]
  /\ UNCHANGED <<pc, status, recorded, queue, batch, current, event, cap, retries, hasError,
                 exhausted>>

SpendBudget ==
  /\ ~exhausted /\ pc \notin Over
  /\ exhausted' = TRUE
  /\ UNCHANGED <<pc, status, recorded, queue, job, batch, current, event, cap, retries, hasError,
                 answer>>

LoopStep ==
  \/ Begin \/ Pass \/ End \/ Wait \/ Wake \/ NextPass \/ Cleanup
  \/ Review \/ Contract
  \/ \E n \in Nodes :
       \/ Launch(n) \/ LaunchRaises(n) \/ BudgetStop(n) \/ TaskSucceeded(n) \/ Record(n)
       \/ StepRaised(n) \/ TaskFailed(n) \/ Healed(n) \/ NotHealed(n) \/ TaskRaised(n)

JobStep(n) ==
  \/ \E result \in Finished : JobEnds(n, result)
  \/ n \in MapReducers /\ (Answer(n) \/ GivesUp(n) \/ HealerTimesOut(n))

Next ==
  \/ LoopStep \/ Abort \/ SpendBudget
  \/ \E n \in Nodes : JobStep(n)
  \/ \E t \in MapReducers : MapReduce(t) \/ HealerMapReduce(t)

Spec == Init /\ [][Next]_vars

\* asyncio runs every ready coroutine, and the watchdog or a timeout ends every wait.
Fairness == WF_vars(LoopStep) /\ \A n \in Nodes : WF_vars(JobStep(n))
FairSpec == Spec /\ Fairness

-----------------------------------------------------------------------------
(* Properties.                                                             *)

\* A task runs, or is recorded as a success, only after everything it depends on
\* has succeeded, through healings, map_reduce and budget stops (the topological
\* order of DAGRunner).
DependenciesFirst ==
  \A n \in Nodes : status[n] = "running" \/ n \in recorded => Parents(n) \subseteq recorded

\* A task is queued at most once, only while it is pending and has no job: it is
\* never executed twice at the same time.
QueuedOnce ==
  \A n \in Nodes :
    queue[n] > 0 => queue[n] = 1 /\ status[n] = "pending" /\ job[n] = "none"

\* The table and the memory agree on the successes; a task runs as long as it has
\* a job or is being healed, unless the DAG broke off.
StatusesAgree ==
  /\ \A n \in recorded : status[n] = "success"
  /\ \A n \in Nodes : job[n] # "none" => status[n] = "running"
  /\ pc \in {"top", "launching", "waiting", "batch", "recording", "healing"} =>
       \A n \in Nodes : status[n] = "running" => job[n] # "none" \/ (pc = "healing" /\ n \in current)

\* A DAG that ends without error has executed its whole plan: tasks left pending
\* are a "Blocage" (the second step of the loop of execute_dag).
EndsComplete ==
  pc = "ended" /\ ~hasError => \A n \in Nodes : status[n] \in {"absent", "success"}

\* Outside an abort, no job outlives its DAG.
NoOrphan == pc \in {"ended", "success", "error"} => Running = {}

\* The loop is never left to wait for a map_reduce that waits for a slot: "un seul
\* MapReduce en vol" prevents "la famine du pool" (tools/dag_map_reduce.py).
PoolNotStarved ==
  pc = "waiting" /\ ~event /\ Running # {} /\ (\A n \in Running : job[n] = "mapping")
    => Queued = {}

\* Every execution comes to a verdict, or is aborted, whatever fails.
Terminates == pc = "top" ~> pc \in Over

\* The inductive invariant of the proofs: what is queued is ready, what the loop
\* is about to record is not recorded yet, and a map_reduce that was not called has
\* left no trace.
Ready(n) == status[n] = "pending" /\ job[n] = "none" /\ Parents(n) \subseteq recorded
Untouched(n) == queue[n] = 0 /\ job[n] = "none" /\ n \notin recorded

Consistent ==
  /\ DependenciesFirst /\ StatusesAgree /\ NoOrphan
  /\ \A m, n \in current : m = n
  /\ \A n \in Nodes : queue[n] > 0 => queue[n] = 1 /\ Ready(n)
  /\ pc = "idle" => \A n \in Nodes :
       Untouched(n) /\ status[n] # "running" /\ (n \in Tasks => status[n] = "pending")
  /\ pc = "recording" =>
       \A n \in current : n \notin recorded /\ status[n] = "success" /\ Parents(n) \subseteq recorded
  /\ pc = "healing" => \A n \in current : status[n] = "running" /\ job[n] = "none"
  /\ \A t \in MapReducers :
       answer[t] = "none" => \A n \in Added(t) : status[n] = "absent" /\ Untouched(n)

\* The queue, the statuses, the table and the jobs tell one story, and no task is queued
\* twice or while it has a job.
ExecutionSound == TypeOK /\ Consistent /\ QueuedOnce
=============================================================================
