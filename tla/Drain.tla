-------------------------------- MODULE Drain -------------------------------
(***************************************************************************)
(* The drain of the backlog by DreamCoder (agents/dreamer_agent.py): a     *)
(* cycle starts one worker per slot, each with a clone of its own.  A      *)
(* worker reserves a task, chooses a provider for it, runs the pipeline on *)
(* a branch of the task, pushes the branch or settles the failure, and     *)
(* goes on until the queue is empty or the window of the cycle closes.     *)
(*                                                                         *)
(* Every await of the code is a point where another worker, the user, the  *)
(* window or a crash comes in.  The steps between two of them that touch   *)
(* one row are one action.                                                 *)
(***************************************************************************)
EXTENDS Backlog

CONSTANTS
  Cycles,      \* the cycles that may run at once: that of the loop, and that of the button
  NSlots,      \* clones
  Providers,
  LastResort,  \* providers the cost cascade offers without looking at their cooldown
  Unfit,       \* pairs of a task and a provider that its history excludes
  Ajean,       \* PROVIDERS_WORKFLOW: taken whatever the probe and the history say of them
  Joint,       \* the tasks of a project other than the engine: one is in hand at a time
  MaxBlocked,  \* _MAX_TACHES_BLOQUEES_PAR_SLOT
  MaxCycles,   \* cycles started,
  MaxPicks,    \* and tasks reserved (bounds of the model)
  NoProvider

Slots == 1 .. NSlots
Workers == Cycles \X Slots
Causes == {"infra", "quota", "code", "keep"}

ASSUME DrainConstants ==
  /\ NSlots \in Nat \ {0} /\ MaxBlocked \in Nat \ {0} /\ MaxCycles \in Nat
  /\ MaxPicks \in Nat
  /\ LastResort \subseteq Providers /\ NoProvider \notin Providers
  /\ Unfit \subseteq Tasks \X Providers
  /\ Ajean \subseteq Providers /\ Joint \subseteq Tasks

VARIABLES
  healthy,   \* sains, of each cycle; empty between two cycles
  open,      \* the cycles whose deadline has not passed
  inFlight,  \* en_vol
  cooldown,  \* providers in cooldown (_provider_cooldown)
  local,     \* the branches in the clone of each slot
  pc,        \* where each worker is
  task,      \* the row it reserved, as it was
  provider,
  branch,    \* branch_name
  cause,     \* what the pipeline failed of
  blocked,   \* bloquees
  started,   \* cycles started
  picks,     \* tasks reserved
  \* Kept by the model alone:
  bill,      \* how many times the consumption of the present run was recorded
  stranded   \* tasks whose worker died of an error

shared == <<healthy, open, inFlight, cooldown, local, started, picks>>
own == <<pc, task, provider, branch, cause, blocked, bill>>
vars == <<row, origin, review, upsets, decided, early, meddled, shared, own, stranded>>

Held == [id : {0} \union Tasks, retries : Nat, branch : Branch, keep : BOOLEAN]
NoTask == [id |-> 0, retries |-> 0, branch |-> 0, keep |-> FALSE]

TypeOK ==
  /\ BacklogTypeOK
  /\ healthy \in [Cycles -> SUBSET Providers]
  /\ open \subseteq Cycles
  /\ inFlight \in [Cycles -> SUBSET Providers]
  /\ cooldown \subseteq Providers
  /\ local \in [Slots -> SUBSET (Tasks \X (Branch \ {0}))]
  /\ pc \in [Workers -> {"off", "pick", "choose", "prepare", "branch", "start", "run", "push",
                         "record", "failed", "closing", "done"}]
  /\ task \in [Workers -> Held]
  /\ provider \in [Workers -> Providers \union {NoProvider}]
  /\ branch \in [Workers -> Branch]
  /\ cause \in [Workers -> Causes \union {"none"}]
  /\ blocked \in [Workers -> SUBSET Tasks]
  /\ started \in 0 .. MaxCycles /\ picks \in 0 .. MaxPicks
  /\ bill \in [Workers -> 0 .. 1]
  /\ stranded \subseteq Tasks

Init ==
  /\ BacklogInit
  /\ healthy = [c \in Cycles |-> {}] /\ open = {}
  /\ inFlight = [c \in Cycles |-> {}]
  /\ cooldown = {}
  /\ local = [s \in Slots |-> {}]
  /\ started = 0 /\ picks = 0
  /\ pc = [w \in Workers |-> "off"]
  /\ task = [w \in Workers |-> NoTask]
  /\ provider = [w \in Workers |-> NoProvider]
  /\ branch = [w \in Workers |-> 0]
  /\ cause = [w \in Workers |-> "none"]
  /\ blocked = [w \in Workers |-> {}]
  /\ bill = [w \in Workers |-> 0]
  /\ stranded = {}

Mine(w) == task[w].id
\* The tasks of workers that have yet to write that they start, on their branch.
Unstarted ==
  {Mine(w) : w \in {v \in Workers : pc[v] \in {"choose", "prepare", "branch", "start"}}}
\* The tasks the workers have: a worker that is done has written its last word on the row.
Has(w) == IF pc[w] = "done" THEN 0 ELSE Mine(w)
Busy == {Has(w) : w \in Workers} \ {0}
Name(w) == <<Mine(w), branch[w]>>

Goto(w, l) == pc' = [pc EXCEPT ![w] = l]

\* The worker is through with its task: it goes on, or stops.
Leave(w, l) ==
  /\ Goto(w, l)
  /\ task' = [task EXCEPT ![w] = NoTask]
  /\ provider' = [provider EXCEPT ![w] = NoProvider]
  /\ branch' = [branch EXCEPT ![w] = 0]
  /\ cause' = [cause EXCEPT ![w] = "none"]
  /\ bill' = [bill EXCEPT ![w] = 0]
  /\ inFlight' = [inFlight EXCEPT ![w[1]] = @ \ {provider[w]}]

\* Mutant of Aside: the task stays in sight.
AsideForgotten(w) == UNCHANGED blocked

\* A task that is put aside is not reserved again by this worker.
Aside(w) == blocked' = [blocked EXCEPT ![w] = @ \union {Mine(w)}]

AfterAside(w) == IF Cardinality(blocked'[w]) >= MaxBlocked THEN "off" ELSE "pick"

-----------------------------------------------------------------------------
(* The cycle.                                                              *)

\* _run_dreamcoder_drain_loop: the providers are probed, and no more workers start than
\* there are healthy providers.  Nothing starts if none answers.  Without a probe (sains is
\* None) every provider known is a candidate, and every slot starts.
StartCycle(c) ==
  /\ \A s \in Slots : pc[<<c, s>>] = "off"
  /\ started < MaxCycles
  /\ \E sains \in SUBSET Providers \ {{}}, probed \in BOOLEAN :
       /\ probed \/ sains = Providers
       /\ healthy' = [healthy EXCEPT ![c] = sains]
       /\ pc' = [w \in Workers |-> IF w[1] = c /\ (w[2] <= Cardinality(sains) \/ ~probed)
                                    THEN "pick" ELSE pc[w]]
  /\ open' = open \union {c}
  /\ inFlight' = [inFlight EXCEPT ![c] = {}]
  /\ blocked' = [w \in Workers |-> IF w[1] = c THEN {} ELSE blocked[w]]
  /\ started' = started + 1
  /\ UNCHANGED <<row, origin, review, upsets, decided, early, meddled, cooldown, local, picks,
                 task, provider, branch, cause, bill, stranded>>

\* The deadline of the cycle passes.
CloseWindow(c) ==
  /\ c \in open
  /\ open' = open \ {c}
  /\ UNCHANGED <<row, origin, review, upsets, decided, early, meddled, healthy, inFlight, cooldown,
                 local, started, picks, own, stranded>>

CoolsDown(p) ==
  /\ p \in cooldown
  /\ cooldown' = cooldown \ {p}
  /\ UNCHANGED <<row, origin, review, upsets, decided, early, meddled, healthy, open, inFlight,
                 local, started, picks, own, stranded>>

\* The process dies and starts again.
Crash ==
  /\ upsets < MaxUpsets /\ upsets' = upsets + 1
  /\ RecoverOrphans
  /\ review' = NoReview
  /\ healthy' = [c \in Cycles |-> {}] /\ open' = {}
  /\ inFlight' = [c \in Cycles |-> {}] /\ cooldown' = {}
  /\ pc' = [w \in Workers |-> "off"]
  /\ task' = [w \in Workers |-> NoTask]
  /\ provider' = [w \in Workers |-> NoProvider]
  /\ branch' = [w \in Workers |-> 0]
  /\ cause' = [w \in Workers |-> "none"]
  /\ blocked' = [w \in Workers |-> {}]
  /\ bill' = [w \in Workers |-> 0]
  /\ stranded' = {}
  /\ UNCHANGED <<origin, decided, early, meddled, local, started, picks>>

-----------------------------------------------------------------------------
(* A worker, up to the run.                                                *)

\* Nothing is left to play, or the window is closed.
Stop(w) ==
  /\ pc[w] = "pick"
  /\ w[1] \notin open \/ ~\E t \in Tasks : Reservable(t, blocked[w])
  /\ Goto(w, "off")
  /\ UNCHANGED <<row, origin, review, upsets, decided, early, meddled, shared,
                 task, provider, branch, cause, blocked, bill, stranded>>

Pick(w) ==
  /\ pc[w] = "pick" /\ w[1] \in open /\ picks < MaxPicks
  /\ picks' = picks + 1
  /\ \E t \in Tasks :
       /\ Reservable(t, blocked[w])
       /\ Reserve(t)
       /\ task' = [task EXCEPT ![w] = [id |-> t, retries |-> row[t].retries,
                                       branch |-> row[t].branch, keep |-> row[t].keep]]
  /\ Goto(w, "choose")
  /\ UNCHANGED <<healthy, open, inFlight, cooldown, local, started, provider, branch, cause, blocked, bill, stranded>>

\* The board says that the task was delivered: it is abandoned without a run.
AlreadyDelivered(w) ==
  /\ pc[w] = "choose"
  /\ Conclude(Mine(w), [row[Mine(w)] EXCEPT !.status = "abandoned", !.keep = FALSE])
  /\ Leave(w, "pick")
  /\ UNCHANGED <<origin, healthy, open, cooldown, local, started, picks, blocked, stranded>>

\* Mutant of Candidates: the cooldown is left to the cost cascade.
CandidatesHot(w) == healthy[w[1]] \ inFlight[w[1]]

\* _choisir_provider_tache: what answered the probe, is not in flight, not in cooldown.  Any of
\* them may be dropped because its free quota is spent.
Candidates(w) == (healthy[w[1]] \ inFlight[w[1]]) \ cooldown

Fit(w) == {p \in Candidates(w) : <<Mine(w), p>> \notin Unfit}

\* An AJEAN that answers on the network, absent from the probe or not.
OnNetwork(w) == Ajean \ (inFlight[w[1]] \union cooldown)

\* get_available_provider, when no candidate is left: the cascade may still offer a provider
\* of last resort, whose cooldown it does not look at.
Cascade(w) == (LastResort \intersect healthy[w[1]]) \ (inFlight[w[1]] \union Candidates(w))

\* Mutant of TakeOff: the provider is not marked as taken.
TakeOffUnmarked(w, p) == UNCHANGED inFlight

TakeOff(w, p) == inFlight' = [inFlight EXCEPT ![w[1]] = @ \union {p}]

Serve(w) ==
  /\ pc[w] = "choose"
  /\ \E p \in Fit(w) \union OnNetwork(w) \union Cascade(w) :
       /\ TakeOff(w, p)
       /\ provider' = [provider EXCEPT ![w] = p]
  /\ Goto(w, "prepare")
  /\ UNCHANGED <<row, origin, review, upsets, decided, early, meddled, healthy, open, cooldown, local,
                 started, picks, task, branch, cause, blocked, bill, stranded>>

\* The history excludes every candidate with a quota: the task goes back to the queue and is
\* put aside.
SetAside(w) ==
  /\ pc[w] = "choose" /\ Candidates(w) # Fit(w)
  /\ Release(Mine(w))
  /\ Aside(w)
  /\ Leave(w, AfterAside(w))
  /\ UNCHANGED <<origin, healthy, open, cooldown, local, started, picks, stranded>>

\* No provider is free, the quotas are spent or the budget is: the slot gives up.
NoneFree(w) ==
  /\ pc[w] = "choose"
  /\ Release(Mine(w))
  /\ Leave(w, "off")
  /\ UNCHANGED <<origin, healthy, open, cooldown, local, started, picks, blocked, stranded>>

\* Branches are named after the instant they are made: a name in use nowhere.
InUse(t) ==
  {row[t].branch} \union {n \in Branch : <<t, n>> \in origin \union UNION {local[s] : s \in Slots}}
  \union {branch[w] : w \in {v \in Workers : Mine(v) = t}}
  \union {task[w].branch : w \in {v \in Workers : Mine(v) = t}}
  \union (IF review # NoReview THEN {review.branch} ELSE {})
Fresh(t) == {n \in Branch \ ({0} \union InUse(t)) : \A m \in 1 .. n - 1 : m \in InUse(t)}

\* A retry takes its branch again when the work on it was refused, and the branch is found
\* in the clone or fetched from origin.
Resumes(w) ==
  /\ task[w].branch # 0 /\ task[w].retries > 0 /\ task[w].keep
  /\ <<Mine(w), task[w].branch>> \in local[w[2]] \union origin

\* A task of a project other than the engine waits for its turn; the window does not reach it
\* meanwhile.
ItsTurn(w) ==
  Mine(w) \in Joint =>
    \A v \in Workers \ {w} :
      Mine(v) \in Joint => pc[v] \in {"choose", "prepare"}

\* _process_one_dreamcoder_task: the row is marked as running, whatever it has become,
Begin(w) ==
  /\ pc[w] = "prepare" /\ ItsTurn(w)
  /\ Mark(Mine(w), [row[Mine(w)] EXCEPT !.status = "running"])
  /\ Goto(w, "branch")
  /\ UNCHANGED <<origin, shared, task, provider, branch, cause, blocked, bill, stranded>>

\* the branch is made or taken again,
Prepare(w) ==
  /\ pc[w] = "branch"
  /\ \E n \in Fresh(Mine(w)) \union (IF Resumes(w) THEN {task[w].branch} ELSE {}) :
       /\ n = task[w].branch \/ ~Resumes(w) \/ <<Mine(w), task[w].branch>> \notin local[w[2]]
       /\ branch' = [branch EXCEPT ![w] = n]
       /\ local' = [local EXCEPT ![w[2]] = @ \union {<<Mine(w), n>>}]
  /\ Goto(w, "start")
  /\ UNCHANGED <<row, origin, review, upsets, decided, early, meddled, healthy, open, inFlight,
                 cooldown, started, picks, task, provider, cause, blocked, bill, stranded>>

\* The row of a task that starts on branch n.
Started(w, n) == [row[Mine(w)] EXCEPT !.status = "running", !.branch = n]

\* and the row is marked again, with its branch.
Start(w) ==
  /\ pc[w] = "start"
  /\ Mark(Mine(w), Started(w, branch[w]))
  /\ Goto(w, "run")
  /\ UNCHANGED <<origin, shared, task, provider, branch, cause, blocked, bill, stranded>>

\* The row of a failure that counts.
Failure(w, keep) ==
  LET n == task[w].retries + 1 IN
  [row[Mine(w)] EXCEPT !.status = IF n >= MaxAttempts THEN "abandoned" ELSE "failed",
                       !.retries = n, !.keep = keep,
                       !.due = IF n >= MaxAttempts THEN @ ELSE FALSE]

\* The clone or its branch cannot be had: a failure that counts.
PrepareFails(w) ==
  /\ pc[w] = "branch" \/ (pc[w] = "prepare" /\ ItsTurn(w))
  /\ Conclude(Mine(w), Failure(w, FALSE))
  /\ cause' = [cause EXCEPT ![w] = "code"]
  /\ Goto(w, "done")
  /\ UNCHANGED <<origin, shared, task, provider, branch, blocked, bill, stranded>>

\* An error outside the try of the task (configuration, router, locked database): the worker
\* dies, its provider is given back, and the row stays as it is.
WorkerDies(w) ==
  /\ pc[w] \in {"choose", "prepare", "branch", "start", "run"}
  /\ upsets < MaxUpsets /\ upsets' = upsets + 1
  /\ stranded' = stranded \union {Mine(w)}
  /\ Leave(w, "off")
  /\ UNCHANGED <<row, origin, review, decided, early, meddled, healthy, open, cooldown, local,
                 started, picks, blocked>>

-----------------------------------------------------------------------------
(* The run and its verdict.                                                *)

\* record_usage.
Charge(w) == bill' = [bill EXCEPT ![w] = @ + 1]

\* The pipeline returns, its consumption is recorded, and the work passes the gates (tree that
\* parses, branch that differs, files in their place, tests, front end, deliverable) or not.
RunReturns(w) ==
  /\ pc[w] = "run"
  /\ Charge(w)
  /\ \/ Goto(w, "push") /\ UNCHANGED cause
     \/ \E why \in Causes : cause' = [cause EXCEPT ![w] = why] /\ Goto(w, "failed")
  /\ UNCHANGED <<row, origin, review, upsets, decided, early, meddled, shared,
                 task, provider, branch, blocked, stranded>>

\* The pipeline raises, its envelope times out, or its consumption cannot be recorded.
RunRaises(w) ==
  /\ pc[w] = "run"
  /\ \E why \in Causes \ {"keep"} : cause' = [cause EXCEPT ![w] = why]
  /\ Goto(w, "failed")
  /\ UNCHANGED <<row, origin, review, upsets, decided, early, meddled, shared,
                 task, provider, branch, blocked, bill, stranded>>

\* _pousser_branche_tache and _ouvrir_pr_tache: best effort.
Pushed(w) == origin' \in {origin, origin \union {Name(w)}}

Push(w) ==
  /\ pc[w] = "push"
  /\ Pushed(w)
  /\ Goto(w, "record")
  /\ UNCHANGED <<row, review, upsets, decided, early, meddled, shared,
                 task, provider, branch, cause, blocked, bill, stranded>>

Record(w) ==
  /\ pc[w] = "record"
  /\ Conclude(Mine(w), [row[Mine(w)] EXCEPT !.status = "completed"])
  /\ Goto(w, "done")
  /\ UNCHANGED <<origin, shared, task, provider, branch, cause, blocked, bill, stranded>>

\* The result cannot be written: a delivered task ends as a failed one.
RecordRaises(w) ==
  /\ pc[w] = "record"
  /\ cause' = [cause EXCEPT ![w] = "code"]
  /\ Goto(w, "failed")
  /\ UNCHANGED <<row, origin, review, upsets, decided, early, meddled, shared,
                 task, provider, branch, blocked, bill, stranded>>

\* Mutant of Unpaid: the flag is forgotten.
UnpaidAlways(w) == TRUE

\* consommation_imputee.
Unpaid(w) == bill[w] = 0

\* _verdict_apres_echec: an infrastructure failure or a quota costs the task no attempt.
Forgiven(w) == cause[w] \in {"infra", "quota"}

\* _sort_de_la_branche: the refused work is kept for the retry, if there will be one.
Keeps(w) == cause[w] = "keep" /\ task[w].retries + 1 < MaxAttempts

\* The consumption of a run that raised is recorded if it can be, the provider rests if it is
\* to blame, and the branch is kept and pushed, or deleted from the clone.
Settle(w) ==
  /\ pc[w] = "failed"
  /\ (Unpaid(w) /\ Charge(w)) \/ UNCHANGED bill
  /\ cooldown' \in (IF cause[w] = "quota" THEN {cooldown \union {provider[w]}}
                    ELSE IF cause[w] = "code" THEN {cooldown, cooldown \union {provider[w]}}
                    ELSE {cooldown})
  /\ IF Keeps(w)
       THEN Pushed(w) /\ UNCHANGED local
       ELSE local' = [local EXCEPT ![w[2]] = @ \ {Name(w)}] /\ UNCHANGED origin
  /\ Goto(w, "closing")
  /\ UNCHANGED <<row, review, upsets, decided, early, meddled, healthy, open, inFlight, started, picks,
                 task, provider, branch, cause, blocked, stranded>>

Close(w) ==
  /\ pc[w] = "closing"
  /\ IF Forgiven(w)
       THEN Release(Mine(w))
       ELSE Conclude(Mine(w), IF Keeps(w)
                              THEN [Failure(w, TRUE) EXCEPT !.branch = branch[w]]
                              ELSE Failure(w, cause[w] = "keep"))
  /\ Goto(w, "done")
  /\ UNCHANGED <<origin, shared, task, provider, branch, cause, blocked, bill, stranded>>

\* The task is over: an infrastructure failure stops the slot, a quota puts the task aside.
Finish(w) ==
  /\ pc[w] = "done"
  /\ \/ cause[w] = "infra" /\ Leave(w, "off") /\ UNCHANGED blocked
     \/ cause[w] = "quota" /\ Aside(w) /\ Leave(w, AfterAside(w))
     \/ cause[w] \notin {"infra", "quota"} /\ Leave(w, "pick") /\ UNCHANGED blocked
  /\ UNCHANGED <<row, origin, review, upsets, decided, early, meddled, healthy, open, cooldown, local,
                 started, picks, stranded>>

\* Mutant of GiveBack: the task the window interrupts is left as it is.
GiveBackForgotten(t) == UNCHANGED <<row, review, upsets, decided, early, meddled>>

GiveBack(t) == Release(t)

\* _executer_tache_bornee: the window cancels the task wherever it is.  Its consumption is
\* not recorded, the branch stays, a push under way may still arrive.
Interrupt(w) ==
  /\ w[1] \notin open
  /\ \/ pc[w] = "prepare" /\ ItsTurn(w)
     \/ pc[w] \in {"branch", "start", "run", "push", "record", "failed", "closing", "done"}
  /\ GiveBack(Mine(w))
  /\ IF pc[w] = "push" THEN Pushed(w) ELSE UNCHANGED origin
  /\ Leave(w, "off")
  /\ UNCHANGED <<healthy, open, cooldown, local, started, picks, blocked, stranded>>

-----------------------------------------------------------------------------

WorkerStep(w) ==
  \/ Stop(w) \/ Pick(w) \/ AlreadyDelivered(w) \/ Serve(w) \/ SetAside(w) \/ NoneFree(w)
  \/ Begin(w) \/ Prepare(w) \/ Start(w) \/ PrepareFails(w) \/ WorkerDies(w)
  \/ RunReturns(w) \/ RunRaises(w) \/ Push(w) \/ Record(w) \/ RecordRaises(w)
  \/ Settle(w) \/ Close(w) \/ Finish(w) \/ Interrupt(w)

User ==
  /\ \/ \E t \in Tasks : AddTask(t) \/ Delete(t, Busy)
     \/ \E t \in Tasks, v \in Verdicts : Ask(t, v)
     \/ Decide(Busy, Unstarted)
  /\ UNCHANGED <<shared, own, stranded>>

Time ==
  \/ \E t \in Tasks : FallsDue(t) /\ UNCHANGED <<shared, own, stranded>>
  \/ \E p \in Providers : CoolsDown(p)
  \/ \E c \in Cycles : CloseWindow(c)

Next ==
  \/ \E c \in Cycles : StartCycle(c)
  \/ \E w \in Workers : WorkerStep(w)
  \/ User \/ Time \/ Crash

Spec == Init /\ [][Next]_vars /\ \A w \in Workers : WF_vars(WorkerStep(w))

-----------------------------------------------------------------------------
(* Properties.                                                             *)

\* Two workers never play the same task, unless the user put it back in the queue while one
\* of them had it.
OneWorkerPerTask ==
  \A v, w \in Workers : v # w /\ Has(v) # 0 /\ Has(v) = Has(w) => Has(v) \in meddled

\* Two tasks in flight in one cycle never share a provider.
OneTaskPerProvider ==
  \A v, w \in Workers :
    v # w /\ v[1] = w[1] /\ provider[v] # NoProvider => provider[v] # provider[w]

\* The slots of a cycle keep their providers to themselves.
ProvidersApart == TypeOK /\ OneTaskPerProvider

\* Nothing that was put in the queue is stuck: what has failed can be played again, and what
\* no worker has is not running, unless its worker died since the server started or the user
\* put it back in the queue under its worker.
NothingStuck ==
  \A t \in Tasks :
    /\ row[t].status = "failed" => row[t].retries < MaxAttempts \/ t \in meddled
    /\ row[t].status = "running" => t \in Busy \union stranded \union meddled

\* The final decision of the user stays until a worker that has the task ends it.  The one
\* taken between a reservation and the last start write of the worker does not always:
\* those writes say "running" whatever the row has become, and what is running may then be
\* released.  Neither a release, nor the window, nor a restart undoes any other.
DecisionStays ==
  \A t \in Tasks :
    decided[t] # "none" => row[t].status = decided[t] \/ t \in early

\* A task that ended well names a branch that exists: there is something to harvest.
CompletedIsThere ==
  \A t \in Tasks :
    row[t].status = "completed" /\ row[t].branch # 0 /\ t \notin meddled
      => <<t, row[t].branch>> \in origin \union UNION {local[s] : s \in Slots}

\* The consumption of a run is never recorded twice, and that of a delivered task is.
PaidOnce == \A w \in Workers : bill[w] <= 1 /\ (pc[w] \in {"push", "record"} => bill[w] = 1)

\* The tables tell the truth about the work: one worker per task, no task forgotten, a branch
\* behind every task that is completed, and one bill for each run.
BacklogSound == OneWorkerPerTask /\ NothingStuck /\ CompletedIsThere /\ PaidOnce

Elected(p) == \E w \in Workers : provider[w] # p /\ provider'[w] = p

\* A provider that has just failed is not elected, except one of last resort.
CooldownRespected == [][\A p \in Providers \ LastResort : Elected(p) => p \notin cooldown]_vars

\* Every cycle ends.
CycleEnds == \A c \in Cycles : (\E s \in Slots : pc[<<c, s>>] # "off") ~> (\A s \in Slots : pc[<<c, s>>] = "off")
=============================================================================
