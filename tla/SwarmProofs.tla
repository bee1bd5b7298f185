----------------------------- MODULE SwarmProofs ----------------------------
(***************************************************************************)
(* What a dispatch guarantees with any number of tasks, of workers and of  *)
(* deaths and registrations.  Nothing is taken from the registry, which    *)
(* may be wrong: the argument is about the POST of a task and the task of  *)
(* a worker.  A worker that runs a task has it for its only one (Running), *)
(* and a task that is executed here is one whose POST is over and brought  *)
(* no result, or whose answer is known to be lost or late (Executed).      *)
(***************************************************************************)
EXTENDS Swarm, TLAPS

\* A task has a worker from the choice on, and a POST from the dispatch on.
Lent ==
  \A t \in Tasks :
    /\ pc[t] = "new" => post[t] = "none" /\ picked[t].worker = Nobody
    /\ pc[t] = "chosen" => post[t] = "none" /\ picked[t].worker \in Workers
    /\ post[t] # "none" => picked[t].worker \in Workers

\* A worker that runs a task is up, and has it for its current task.
Running ==
  \A t \in Tasks :
    post[t] = "running" => current[picked[t].worker] = t /\ up[picked[t].worker]

\* What was executed is known: there, by the answer; here, once the POST is over.
Executed ==
  \A t \in Tasks :
    /\ post[t] = "ok" => ran[t].there = 1
    /\ ran[t].there = 1 => post[t] = "ok" \/ (post[t] = "lost" /\ t \in late)
    /\ ran[t].here = 1 => pc[t] = "done"
    /\ pc[t] \in {"local", "again"} \/ ran[t].here = 1 =>
         t \in late \/ (ran[t].there = 0 /\ post[t] \notin {"flying", "running"})
    /\ pc[t] = "done" => ran[t].here = 1 \/ ran[t].there = 1

Inv == TypeOK /\ Lent /\ Running /\ Executed

-----------------------------------------------------------------------------

LEMMA Initially == Init => Inv
BY SwarmConstants DEF Init, Inv, TypeOK, Lent, Running, Executed, Entries, Unknown, Silence, Statuses

\* A write of the dispatch leaves a registry.
LEMMA MarkType ==
  ASSUME TypeOK, NEW t \in Tasks, NEW s \in Statuses, Mark(t, s)
  PROVE  reg' \in [Workers -> Entries]
<1> DEFINE w == picked[t].worker
<1>1. CASE w \in Workers /\ picked[t].known
  <2>1. reg[w] \in Entries
    BY <1>1 DEF TypeOK
  <2>2. [reg[w] EXCEPT !.status = s] \in Entries
    BY <2>1 DEF Entries
  <2>3. QED
    BY <1>1, <2>2 DEF TypeOK, Mark
<1>2. CASE w \notin Workers \/ ~picked[t].known
  BY <1>2 DEF TypeOK, Mark
<1>3. QED
  BY <1>1, <1>2

LEMMA ChooseStep == ASSUME Inv, NEW t \in Tasks, Choose(t), UNCHANGED <<workerVars, events>> PROVE Inv'
BY SwarmConstants DEF Inv, TypeOK, Lent, Running, Executed, Choose, Available, Goto, regVars, workerVars

LEMMA StayStep == ASSUME Inv, NEW t \in Tasks, Stay(t), UNCHANGED <<workerVars, events>> PROVE Inv'
BY DEF Inv, TypeOK, Lent, Running, Executed, Stay, Goto, regVars, workerVars

LEMMA SendStep == ASSUME Inv, NEW t \in Tasks, Send(t), UNCHANGED <<workerVars, events>> PROVE Inv'
<1> USE DEF Inv, Send, Goto, workerVars
<1>1. TypeOK'
  BY MarkType DEF TypeOK, Statuses
<1>2. Lent'
  BY DEF TypeOK, Lent
<1>3. Running'
  BY DEF TypeOK, Running
<1>4. Executed'
  <2>1. ran[t].there # 1 /\ ran[t].here # 1
    BY DEF Lent, Executed
  <2>2. QED
    BY <2>1 DEF TypeOK, Executed
<1>5. QED
  BY <1>1, <1>2, <1>3, <1>4

LEMMA AnsweredStep == ASSUME Inv, NEW t \in Tasks, Answered(t), UNCHANGED <<workerVars, events>> PROVE Inv'
<1> USE DEF Inv, Answered, GetsResult, GetsNone, Goto, workerVars
<1>1. TypeOK'
  BY MarkType DEF TypeOK, Statuses
<1>2. QED
  BY <1>1 DEF TypeOK, Lent, Running, Executed

LEMMA TimesOutStep == ASSUME Inv, NEW t \in Tasks, TimesOut(t), UNCHANGED <<workerVars, events>> PROVE Inv'
<1> USE DEF Inv, TimesOut, Goto, workerVars
<1>1. TypeOK'
  BY MarkType DEF TypeOK, Statuses
<1>2. QED
  BY <1>1 DEF TypeOK, Lent, Running, Executed

LEMMA WatchdogStep == ASSUME Inv, NEW t \in Tasks, Watchdog(t), UNCHANGED <<workerVars, events>> PROVE Inv'
BY DEF Inv, TypeOK, Lent, Running, Executed, Watchdog, Goto, regVars, workerVars

LEMMA LocalStep == ASSUME Inv, NEW t \in Tasks, Local(t), UNCHANGED <<workerVars, events>> PROVE Inv'
<1> USE DEF Inv, Local, Goto, regVars, workerVars
<1>1. TypeOK'
  <2>1. ran[t] \in [there : 0 .. 1, here : 0 .. 1]
    BY DEF TypeOK
  <2>2. [ran[t] EXCEPT !.here = 1] \in [there : 0 .. 1, here : 0 .. 1]
    BY <2>1
  <2>3. ran' \in [Tasks -> [there : 0 .. 1, here : 0 .. 1]]
    BY <2>2 DEF TypeOK
  <2>4. QED
    BY <2>3 DEF TypeOK
<1>2. Lent' /\ Running'
  BY DEF TypeOK, Lent, Running
<1>3. Executed'
  <2>1. CASE UNCHANGED ran
    BY <2>1 DEF TypeOK, Executed
  <2>2. CASE Goto(t, "done") /\ ran' = [ran EXCEPT ![t].here = 1]
    <3>1. ran'[t].there = ran[t].there /\ ran'[t].here = 1
      BY <2>2 DEF TypeOK
    <3>2. \A u \in Tasks \ {t} : ran'[u] = ran[u]
      BY <2>2 DEF TypeOK
    <3>3. QED
      BY <2>2, <3>1, <3>2 DEF TypeOK, Executed
  <2>3. QED
    BY <2>1, <2>2
<1>4. QED
  BY <1>1, <1>2, <1>3

\* A worker admits a task when it has none: no other runs there.
LEMMA ReceiveStep ==
  ASSUME Inv, NEW t \in Tasks, NEW w \in Workers, Receive(t, w), UNCHANGED events PROVE Inv'
<1> USE SwarmConstants DEF Inv, Receive, Admits, regVars
<1>1. TypeOK' /\ Lent' /\ Executed'
  BY DEF TypeOK, Lent, Executed
<1>2. Running'
  BY DEF TypeOK, Lent, Running
<1>3. QED
  BY <1>1, <1>2

\* The task that ends is the only one its worker has.
LEMMA WorkStep ==
  ASSUME Inv, NEW t \in Tasks, NEW w \in Workers, Work(t, w), UNCHANGED events PROVE Inv'
<1> USE SwarmConstants DEF Inv, Work, regVars
<1>1. TypeOK'
  <2>1. ran[t] \in [there : 0 .. 1, here : 0 .. 1]
    BY DEF TypeOK
  <2>2. [ran[t] EXCEPT !.there = 1] \in [there : 0 .. 1, here : 0 .. 1]
    BY <2>1
  <2>3. ran' \in [Tasks -> [there : 0 .. 1, here : 0 .. 1]]
    BY <2>2 DEF TypeOK
  <2>4. /\ current' \in [Workers -> Tasks \union {Nobody}]
        /\ post' \in [Tasks -> {"none", "flying", "running", "ok", "ko", "refused", "lost"}]
        /\ late' \subseteq Tasks
    BY DEF TypeOK
  <2>5. QED
    BY <2>3, <2>4 DEF TypeOK
<1>5. Lent'
  BY DEF TypeOK, Lent
<1>2. Executed'
  <2>1. PICK answer \in {"ok", "ko", "lost"} :
          /\ post' = [post EXCEPT ![t] = answer]
          /\ late' = IF answer = "lost" THEN late \union {t} ELSE late
          /\ ran' = IF answer = "ko" THEN ran ELSE [ran EXCEPT ![t].there = 1]
    OBVIOUS
  <2>2. ran'[t].here = ran[t].here /\ ran'[t].there = IF answer = "ko" THEN ran[t].there ELSE 1
    BY <2>1 DEF TypeOK
  <2>3. \A u \in Tasks \ {t} : ran'[u] = ran[u]
    BY <2>1 DEF TypeOK
  <2>4. ran[t].there \in {0, 1} /\ ran[t].here \in {0, 1}
    BY DEF TypeOK
  <2>5. QED
    BY <2>1, <2>2, <2>3, <2>4 DEF TypeOK, Executed
<1>3. Running'
  BY DEF TypeOK, Lent, Running
<1>4. QED
  BY <1>1, <1>5, <1>2, <1>3

LEMMA DiesStep == ASSUME Inv, NEW w \in Workers, Dies(w) PROVE Inv'
<1> USE SwarmConstants DEF Inv, Dies, Happens, regVars
<1>1. TypeOK' /\ Lent' /\ Executed'
  BY DEF TypeOK, Lent, Executed
<1>2. Running'
  BY DEF TypeOK, Lent, Running
<1>3. QED
  BY <1>1, <1>2

LEMMA RestartsStep == ASSUME Inv, NEW w \in Workers, Restarts(w) PROVE Inv'
BY SwarmConstants DEF Inv, TypeOK, Lent, Running, Executed, Restarts, Happens, regVars, taskVars

LEMMA RegisterStep == ASSUME Inv, NEW w \in Workers, Register(w) PROVE Inv'
<1> USE SwarmConstants DEF Inv, Register, Happens, workerVars
<1>1. \A t \in Tasks : /\ picked'[t].worker = picked[t].worker
                      /\ picked'[t] \in [worker : Workers \union {Nobody}, known : BOOLEAN]
  BY DEF TypeOK
<1>2. picked' \in [Tasks -> [worker : Workers \union {Nobody}, known : BOOLEAN]]
  BY <1>1
<1>3. TypeOK'
  BY <1>2 DEF TypeOK, Entries, Unknown, Silence, Statuses
<1>4. QED
  BY <1>1, <1>3 DEF Lent, Running, Executed

LEMMA AskStep == ASSUME Inv, NEW w \in Workers, Ask(w) PROVE Inv'
<1> USE DEF Inv, Ask, workerVars, taskVars
<1>1. TypeOK'
  BY DEF TypeOK
<1>2. QED
  BY <1>1 DEF Lent, Running, Executed

\* What a heartbeat makes of an entry is an entry.
LEMMA HeardType ==
  ASSUME NEW entry \in Entries,
         NEW b \in [said : {"idle", "busy", "down"}, fit : BOOLEAN]
  PROVE  Heard(entry, b) \in Entries /\ [entry EXCEPT !.fit = FALSE] \in Entries
BY DEF Heard, Entries, Statuses

LEMMA HearStep == ASSUME Inv, NEW w \in Workers, Hear(w) PROVE Inv'
<1> USE DEF Inv, Hear, workerVars, taskVars
<1>1. reg[w] \in Entries /\ beat[w] \in [said : {"idle", "busy", "down"}, fit : BOOLEAN]
  BY DEF TypeOK
<1>2. Heard(reg[w], beat[w]) \in Entries
  BY <1>1, HeardType
<1>3. TypeOK'
  BY <1>2 DEF TypeOK, Silence
<1>4. QED
  BY <1>3 DEF Lent, Running, Executed

LEMMA AgesStep == ASSUME Inv, NEW w \in Workers, Ages(w) PROVE Inv'
<1> USE DEF Inv, Ages, workerVars, taskVars
<1>1. reg[w] \in Entries
  BY DEF TypeOK
<1>2. [reg[w] EXCEPT !.fit = FALSE] \in Entries
  BY <1>1 DEF Entries
<1>3. TypeOK'
  BY <1>2 DEF TypeOK
<1>4. QED
  BY <1>3 DEF Lent, Running, Executed

LEMMA Inductive == Inv /\ [Next]_vars => Inv'
<1> SUFFICES ASSUME Inv, [Next]_vars PROVE Inv'
  OBVIOUS
<1>1. ASSUME NEW t \in Tasks, TaskStep(t) PROVE Inv'
  BY <1>1, ChooseStep, StayStep, SendStep, AnsweredStep, TimesOutStep, WatchdogStep, LocalStep
  DEF TaskStep
<1>2. ASSUME NEW w \in Workers, WorkerStep(w) PROVE Inv'
  BY <1>2, ReceiveStep, WorkStep DEF WorkerStep
<1>3. CASE UNCHANGED vars
  BY <1>3 DEF Inv, TypeOK, Lent, Running, Executed, vars, regVars, workerVars, taskVars
<1>4. QED
  BY <1>1, <1>2, <1>3, DiesStep, RestartsStep, RegisterStep, AskStep, HearStep, AgesStep DEF Next

\* Whatever the registry believes of them, the workers run one task at a time: the limit
\* that worker_daemon.py sets with _current_task holds for every swarm.
THEOREM WorkersAlwaysSound == Spec => []WorkersSound
<1>1. Inv => WorkersSound
  BY DEF Inv, Running, WorkersSound, OneTaskPerWorker
<1>2. QED
  BY <1>1, Initially, Inductive, PTL DEF Spec

\* A dispatch that ends well has executed its task, and has executed it twice only if the
\* answer of the worker was lost or late (try_swarm_dispatch and its local fallback).
THEOREM DispatchedOnce == Spec => []DoneOnce
<1>1. Inv => DoneOnce
  <2> SUFFICES ASSUME Inv, NEW t \in Tasks
               PROVE  /\ pc[t] = "done" => ran[t].there + ran[t].here > 0
                      /\ ran[t].there + ran[t].here > 1 => t \in late
    BY DEF DoneOnce, DoneIsDone, RedoneOnlyWhenLost
  <2>1. ran[t].there \in {0, 1} /\ ran[t].here \in {0, 1}
    BY DEF Inv, TypeOK
  <2>2. QED
    BY <2>1 DEF Inv, Executed
<1>2. QED
  BY <1>1, Initially, Inductive, PTL DEF Spec
=============================================================================
