-------------------------------- MODULE Swarm -------------------------------
(***************************************************************************)
(* The tasks of a plan that are lent to remote workers: the registry and   *)
(* its heartbeats (core/worker_registry.py), the dispatch with its local   *)
(* fallback (core/dag/swarm_dispatcher.py) under the watchdog of the task  *)
(* (core/dag_runner.py), and the worker (core/worker_daemon.py).           *)
(*                                                                         *)
(* A worker may die and come back, an answer may be lost or come after     *)
(* the dispatcher gave up, and the registry is what the last heartbeat or  *)
(* the last dispatch wrote.                                                *)
(***************************************************************************)
EXTENDS Naturals, FiniteSets

CONSTANTS
  Tasks,
  Workers,
  MaxEvents,  \* workers that die, come back or are registered anew (bound of the model)
  Nobody

ASSUME SwarmConstants ==
  MaxEvents \in Nat /\ Nobody \notin Tasks \union Workers

VARIABLES
  reg,     \* _workers: of each worker, its status, and whether it is fit (its last heartbeat is
           \* recent and cpu_percent was at most 85)
  beat,    \* the answer to GET /status that is under way
  current, \* _current_task of each worker
  up,
  pc, picked, post,  \* of each task: where it is; its worker, and whether the record it was
                     \* chosen from is still in the registry; what became of its POST
  events,
  \* Kept by the model alone:
  ran,     \* how often each task was executed with success, there and here
  late     \* tasks whose answer was lost, or came after the dispatcher gave up

regVars == <<reg, beat>>
workerVars == <<current, up>>
taskVars == <<pc, picked, post, ran, late>>
vars == <<regVars, workerVars, taskVars, events>>

Statuses == {"unknown", "idle", "busy", "offline"}

Entries == [status : Statuses, fit : BOOLEAN]
\* A worker that was just registered, and no heartbeat under way.
Unknown == [status |-> "unknown", fit |-> FALSE]
Silence == [said |-> "nothing", fit |-> FALSE]

TypeOK ==
  /\ reg \in [Workers -> Entries]
  /\ beat \in [Workers -> [said : {"nothing", "idle", "busy", "down"}, fit : BOOLEAN]]
  /\ current \in [Workers -> Tasks \union {Nobody}] /\ up \in [Workers -> BOOLEAN]
  /\ pc \in [Tasks -> {"new", "chosen", "sent", "local", "again", "done", "failed"}]
  /\ picked \in [Tasks -> [worker : Workers \union {Nobody}, known : BOOLEAN]]
  /\ post \in [Tasks -> {"none", "flying", "running", "ok", "ko", "refused", "lost"}]
  /\ events \in 0 .. MaxEvents
  /\ ran \in [Tasks -> [there : 0 .. 1, here : 0 .. 1]] /\ late \subseteq Tasks

Init ==
  /\ reg = [w \in Workers |-> Unknown]
  /\ beat = [w \in Workers |-> Silence]
  /\ current = [w \in Workers |-> Nobody] /\ up = [w \in Workers |-> TRUE]
  /\ pc = [t \in Tasks |-> "new"]
  /\ picked = [t \in Tasks |-> [worker |-> Nobody, known |-> FALSE]]
  /\ post = [t \in Tasks |-> "none"]
  /\ events = 0
  /\ ran = [t \in Tasks |-> [there |-> 0, here |-> 0]] /\ late = {}

Goto(t, l) == pc' = [pc EXCEPT ![t] = l]
Over(t) == pc[t] \in {"done", "failed"}

\* A write on the record the dispatch has in hand: it is lost if the worker has been
\* registered anew meanwhile.
Mark(t, status) ==
  reg' = IF picked[t].known THEN [reg EXCEPT ![picked[t].worker].status = status] ELSE reg

----------------------------------------------------------------------------
(* A task, in try_swarm_dispatch. *)

\* get_available_worker. The category of the task is not modelled: a task may always stay
\* here although a worker is idle.
Available == {w \in Workers : reg[w].status = "idle" /\ reg[w].fit}

Choose(t) ==
  /\ pc[t] = "new"
  /\ \E w \in Available :
       picked' = [picked EXCEPT ![t] = [worker |-> w, known |-> TRUE]]
  /\ Goto(t, "chosen")
  /\ UNCHANGED <<regVars, post, ran, late>>

Stay(t) ==
  /\ pc[t] = "new"
  /\ Goto(t, "local")
  /\ UNCHANGED <<regVars, picked, post, ran, late>>

\* dispatch_task. The event task_dispatched was awaited since the choice.
Send(t) ==
  /\ pc[t] = "chosen"
  /\ Mark(t, "busy")
  /\ post' = [post EXCEPT ![t] = "flying"]
  /\ Goto(t, "sent")
  /\ UNCHANGED <<beat, picked, ran, late>>

\* Mutant of GetsResult: the outcome the worker gives is not read.
GetsAnyResult(t) == post[t] \in {"ok", "ko"} /\ Mark(t, "idle") /\ Goto(t, "done")

GetsResult(t) ==
  /\ post[t] \in {"ok", "ko"}
  /\ Mark(t, "idle")
  /\ Goto(t, IF post[t] = "ok" THEN "done" ELSE "local")

GetsNone(t) ==
  /\ post[t] \in {"refused", "lost"}
  /\ Mark(t, IF post[t] = "refused" THEN "busy" ELSE "offline")
  /\ Goto(t, "local")

Answered(t) ==
  /\ pc[t] = "sent"
  /\ GetsResult(t) \/ GetsNone(t)
  /\ UNCHANGED <<beat, picked, post, ran, late>>

\* WORKER_TIMEOUT: what the worker does with the task goes on.
TimesOut(t) ==
  /\ pc[t] = "sent"
  /\ Mark(t, "offline")
  /\ Goto(t, "local")
  /\ late' = late \union {t}
  /\ UNCHANGED <<beat, picked, post, ran>>

\* The watchdog of the task cancels the dispatch, which leaves the worker as it marked it.
Watchdog(t) ==
  /\ pc[t] \in {"chosen", "sent", "local", "again"}
  /\ Goto(t, "failed")
  /\ late' = late \union {t}
  /\ UNCHANGED <<regVars, picked, post, ran>>

\* Mutant of Local: an invocation that raises is always repeated.
LocalRepeated(t) ==
  /\ pc[t] \in {"local", "again"}
  /\ \/ Goto(t, "done") /\ ran' = [ran EXCEPT ![t].here = 1]
     \/ Goto(t, IF pc[t] = "local" THEN "again" ELSE "local") /\ UNCHANGED ran
  /\ UNCHANGED <<regVars, picked, post, late>>

\* target_agent.invoke; when it raises, the handler of the dispatch invokes it again.
Local(t) ==
  /\ pc[t] \in {"local", "again"}
  /\ \/ /\ Goto(t, "done")
        /\ ran' = [ran EXCEPT ![t].here = 1]
     \/ /\ Goto(t, IF pc[t] = "local" THEN "again" ELSE "failed")
        /\ UNCHANGED ran
  /\ UNCHANGED <<regVars, picked, post, late>>

TaskStep(t) ==
  /\ Choose(t) \/ Stay(t) \/ Send(t) \/ Answered(t) \/ TimesOut(t) \/ Watchdog(t) \/ Local(t)
  /\ UNCHANGED <<workerVars, events>>

----------------------------------------------------------------------------
(* A worker. *)

\* Mutant of Admits: the refusal of a second task is missing.
AdmitsAlways(w) == up[w]

Admits(w) == up[w] /\ current[w] = Nobody

\* POST /execute
Receive(t, w) ==
  /\ post[t] = "flying" /\ picked[t].worker = w
  /\ post' = [post EXCEPT ![t] = IF Admits(w) THEN "running"
                                 ELSE IF up[w] THEN "refused" ELSE "lost"]
  /\ current' = IF Admits(w) THEN [current EXCEPT ![w] = t] ELSE current
  /\ UNCHANGED <<regVars, up, pc, picked, ran, late>>

\* execute_task ends, and its answer leaves; the network may lose it.
Work(t, w) ==
  /\ post[t] = "running" /\ picked[t].worker = w /\ up[w]
  /\ current' = [current EXCEPT ![w] = Nobody]
  /\ \E answer \in {"ok", "ko", "lost"} :
       /\ post' = [post EXCEPT ![t] = answer]
       /\ late' = IF answer = "lost" THEN late \union {t} ELSE late
       /\ ran' = IF answer = "ko" THEN ran ELSE [ran EXCEPT ![t].there = 1]
  /\ UNCHANGED <<regVars, up, pc, picked>>

WorkerStep(w) == (\E t \in Tasks : Receive(t, w) \/ Work(t, w)) /\ UNCHANGED events

Happens == events < MaxEvents /\ events' = events + 1

\* The process dies: the task it had is lost.
Dies(w) ==
  /\ Happens /\ up[w]
  /\ up' = [up EXCEPT ![w] = FALSE]
  /\ current' = [current EXCEPT ![w] = Nobody]
  /\ post' = [t \in Tasks |-> IF post[t] = "running" /\ picked[t].worker = w
                                THEN "lost" ELSE post[t]]
  /\ UNCHANGED <<regVars, pc, picked, ran, late>>

Restarts(w) ==
  /\ Happens /\ ~up[w]
  /\ up' = [up EXCEPT ![w] = TRUE]
  /\ UNCHANGED <<regVars, current, taskVars>>

\* POST /api/swarm/workers/register: a new record, of which nothing is known.  A dispatch or a
\* heartbeat that has the old one in hand will write where nobody reads.
Register(w) ==
  /\ Happens
  /\ reg' = [reg EXCEPT ![w] = Unknown]
  /\ picked' = [t \in Tasks |-> IF picked[t].worker = w THEN [picked[t] EXCEPT !.known = FALSE]
                                 ELSE picked[t]]
  /\ beat' = [beat EXCEPT ![w] = Silence]
  /\ UNCHANGED <<workerVars, pc, post, ran, late>>

----------------------------------------------------------------------------
(* The heartbeat, every 30 s or when it is asked for. *)

\* GET /status reaches the worker, which tells what it does and its load; or it does not, or
\* HEARTBEAT_TIMEOUT passes although the worker is up.
Ask(w) ==
  /\ beat[w].said = "nothing"
  /\ \E said \in {"idle", "busy", "down"}, fit \in BOOLEAN :
       /\ said = "down" => ~fit
       /\ said = "idle" => up[w] /\ current[w] = Nobody
       /\ said = "busy" => up[w] /\ current[w] # Nobody
       /\ beat' = [beat EXCEPT ![w] = [said |-> said, fit |-> fit]]
  /\ UNCHANGED <<reg, workerVars, taskVars, events>>

\* Mutant of Heard: a worker that was found offline stays so.
HeardOnline(entry, b) ==
  IF b.said = "down" \/ entry.status = "offline" THEN [entry EXCEPT !.status = "offline"]
  ELSE [entry EXCEPT !.status = b.said, !.fit = b.fit]

\* What a heartbeat makes of the entry of a worker.
Heard(entry, b) ==
  IF b.said = "down" THEN [entry EXCEPT !.status = "offline"]
  ELSE [entry EXCEPT !.status = b.said, !.fit = b.fit]

\* Its answer is written over whatever a dispatch has written since.
Hear(w) ==
  /\ beat[w].said # "nothing"
  /\ reg' = [reg EXCEPT ![w] = Heard(@, beat[w])]
  /\ beat' = [beat EXCEPT ![w] = Silence]
  /\ UNCHANGED <<workerVars, taskVars, events>>

\* A minute goes by without an answer: two heartbeats were lost, or a round took long.
Ages(w) ==
  /\ reg[w].fit
  /\ reg' = [reg EXCEPT ![w].fit = FALSE]
  /\ UNCHANGED <<beat, workerVars, taskVars, events>>

Next ==
  \/ \E t \in Tasks : TaskStep(t)
  \/ \E w \in Workers : \/ WorkerStep(w) \/ Dies(w) \/ Restarts(w) \/ Register(w)
                        \/ Ask(w) \/ Hear(w) \/ Ages(w)

\* Coroutines are served, a worker that is up works, and the heartbeat loop never stops.
Fairness ==
  /\ \A t \in Tasks : WF_vars(TaskStep(t))
  /\ \A w \in Workers : WF_vars(WorkerStep(w)) /\ WF_vars(Ask(w)) /\ WF_vars(Hear(w))

Spec == Init /\ [][Next]_vars /\ Fairness

----------------------------------------------------------------------------
(* Properties. *)

\* Whatever the registry believes, a worker runs one task at a time, and knows which.
OneTaskPerWorker ==
  \A t \in Tasks : post[t] = "running" => current[picked[t].worker] = t

\* A task that a worker has done is done again here only if its answer was lost or late.
RedoneOnlyWhenLost ==
  \A t \in Tasks : ran[t].there + ran[t].here > 1 => t \in late

\* A task that counts as done was executed with success.
DoneIsDone == \A t \in Tasks : pc[t] = "done" => ran[t].there + ran[t].here > 0

\* A worker is never given two tasks at once, by an old heartbeat or by a registration.
WorkersSound == TypeOK /\ OneTaskPerWorker

\* A dispatch ends with the task executed, and executed once unless the network lied.
DoneOnce == DoneIsDone /\ RedoneOnlyWhenLost

\* Every task comes to an end, whatever happens to the workers, and even if its watchdog
\* never fires.
TasksEnd == <>(\A t \in Tasks : Over(t))

\* A worker that stays up, and from some time on answers its heartbeats without too much load, is
\* offered again, whatever a dispatch, a refusal, a watchdog or an old heartbeat wrote of it.
WorkerComesBack ==
  \A w \in Workers :
    \/ []<>(~up[w] \/ (beat[w].said # "nothing" /\ ~beat[w].fit))
    \/ []<>(w \in Available)
=============================================================================
