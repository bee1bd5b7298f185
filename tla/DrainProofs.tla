----------------------------- MODULE DrainProofs ----------------------------
(***************************************************************************)
(* What the drain guarantees with any number of tasks, slots, providers,   *)
(* decisions of the user and crashes.  What is proved first holds of any   *)
(* number of cycles at once: a worker is at a task exactly when its place  *)
(* says so (Desk), the provider it runs on is marked in its cycle          *)
(* (Aboard), and no update of a row goes against a final decision.  What   *)
(* the tables say of the work is proved of one cycle at a time: the window *)
(* of a cycle may give back a task that its worker has already let go of,  *)
(* which is harmless only as long as nobody else reserves tasks.           *)
(***************************************************************************)
EXTENDS Drain, TLAPS

\* What is typed, by owner.
TableOK == BacklogTypeOK /\ DecisionStays

RestOK ==
  /\ healthy \in [Cycles -> SUBSET Providers] /\ open \subseteq Cycles
  /\ cooldown \subseteq Providers
  /\ local \in [Slots -> SUBSET (Tasks \X (Branch \ {0}))]
  /\ started \in 0 .. MaxCycles /\ picks \in 0 .. MaxPicks
  /\ stranded \subseteq Tasks

OwnOK ==
  /\ inFlight \in [Cycles -> SUBSET Providers]
  /\ pc \in [Workers -> {"off", "pick", "choose", "prepare", "branch", "start", "run", "push",
                         "record", "failed", "closing", "done"}]
  /\ task \in [Workers -> Held]
  /\ provider \in [Workers -> Providers \union {NoProvider}]
  /\ branch \in [Workers -> Branch]
  /\ cause \in [Workers -> Causes \union {"none"}]
  /\ blocked \in [Workers -> SUBSET Tasks]
  /\ bill \in [Workers -> 0 .. 1]

\* Where a worker is tells whether it has a task, a provider, a branch, and a run that
\* is paid.
Desk ==
  \A w \in Workers :
    /\ pc[w] \in {"off", "pick"} <=> task[w].id = 0
    /\ pc[w] \in {"off", "pick", "choose"} <=> provider[w] = NoProvider
    /\ pc[w] \in {"start", "run", "push", "record", "failed"} => branch[w] # 0
    /\ pc[w] \in {"off", "pick", "choose", "prepare", "branch", "start", "run"} => bill[w] = 0
    /\ pc[w] \in {"push", "record"} => bill[w] = 1

\* The provider of a task in flight is marked as taken in its cycle.
Aboard == \A w \in Workers : provider[w] # NoProvider => provider[w] \in inFlight[w[1]]

Slate == OwnOK /\ Desk /\ Aboard /\ OneTaskPerProvider

Sound == TableOK /\ RestOK /\ Slate

\* A worker that has yet to write that it starts: its task is one the user decided nothing
\* of, or decided too early.
Ready == {"choose", "prepare", "branch", "start"}

Heard == \A w \in Workers : pc[w] \in Ready => decided[Mine(w)] = "none" \/ Mine(w) \in early

Inv == Sound /\ Heard

LEMMA InvTypes == Inv => TypeOK
BY DEF Inv, Sound, TableOK, RestOK, Slate, OwnOK, TypeOK

LEMMA WorkerIs == \A w \in Workers : w[1] \in Cycles /\ w[2] \in Slots /\ w = <<w[1], w[2]>>
BY DEF Workers

LEMMA NoTaskIs == NoTask \in Held /\ NoTask.id = 0
BY BacklogConstants DEF NoTask, Held, Branch

\* The worker has a task.
LEMMA MineIs ==
  ASSUME Slate, NEW w \in Workers, pc[w] \notin {"off", "pick"} PROVE Mine(w) \in Tasks
BY DEF Slate, OwnOK, Desk, Mine, Held

-----------------------------------------------------------------------------
(* The table.                                                              *)

LEMMA NewRowIs ==
  NewRow \in Row /\ [NewRow EXCEPT !.status = "absent"] \in Row
  /\ [NewRow EXCEPT !.status = "deleted"] \in Row
<1>1. 0 \in Branch /\ 0 \in Nat
  BY BacklogConstants DEF Branch
<1>2. NewRow \in Row
  BY <1>1 DEF NewRow, Row, Statuses
<1>3. QED
  BY <1>2 DEF Row, Statuses

\* A worker that ends its task takes the decision of the user back.
LEMMA ConcludeKeeps ==
  ASSUME TableOK, NEW t \in Tasks, NEW r \in Row, Conclude(t, r),
         origin' \subseteq Tasks \X (Branch \ {0})
  PROVE  TableOK'
<1> USE DEF Conclude, Write
<1>1. row' \in [Tasks -> Row] /\ \A u \in Tasks \ {t} : row'[u] = row[u]
  BY DEF TableOK, BacklogTypeOK
<1>2. decided' \in [Tasks -> {"none", "completed", "abandoned"}] /\ decided' = [decided EXCEPT ![t] = "none"]
  BY DEF TableOK, BacklogTypeOK
<1>3. BacklogTypeOK'
  BY <1>1, <1>2 DEF TableOK, BacklogTypeOK
<1>4. DecisionStays'
  BY <1>1, <1>2 DEF TableOK, BacklogTypeOK, DecisionStays
<1>5. QED
  BY <1>3, <1>4 DEF TableOK

\* One that starts leaves it, and may write over it only if it came too early.
LEMMA MarkKeeps ==
  ASSUME TableOK, NEW t \in Tasks, NEW r \in Row, Mark(t, r),
         decided[t] = "none" \/ t \in early, origin' \subseteq Tasks \X (Branch \ {0})
  PROVE  TableOK'
<1> USE DEF Mark, Write
<1>1. row' \in [Tasks -> Row] /\ \A u \in Tasks \ {t} : row'[u] = row[u]
  BY DEF TableOK, BacklogTypeOK
<1>2. BacklogTypeOK'
  BY <1>1 DEF TableOK, BacklogTypeOK
<1>3. DecisionStays'
  BY <1>1 DEF TableOK, BacklogTypeOK, DecisionStays
<1>4. QED
  BY <1>2, <1>3 DEF TableOK

\* A decision is never that the task is running.
LEMMA ReleaseKeeps ==
  ASSUME TableOK, NEW t \in Tasks, Release(t), origin' \subseteq Tasks \X (Branch \ {0})
  PROVE  TableOK'
<1>1. [row[t] EXCEPT !.status = "pending", !.branch = 0] \in Row
  <2>1. row[t] \in Row /\ 0 \in Branch
    BY BacklogConstants DEF TableOK, BacklogTypeOK, Branch
  <2>2. QED
    BY <2>1 DEF Row, Statuses
<1>2. row' = IF row[t].status = "running"
               THEN [row EXCEPT ![t] = [row[t] EXCEPT !.status = "pending", !.branch = 0]] ELSE row
  BY DEF Release, TableOK, BacklogTypeOK
<1>3. row' \in [Tasks -> Row]
  BY <1>1, <1>2 DEF TableOK, BacklogTypeOK
<1>4. \A u \in Tasks : row'[u] = row[u] \/ row[u].status = "running"
  BY <1>2 DEF TableOK, BacklogTypeOK
<1>5. BacklogTypeOK'
  BY <1>3 DEF Release, TableOK, BacklogTypeOK
<1>6. DecisionStays'
  BY <1>4 DEF Release, TableOK, BacklogTypeOK, DecisionStays
<1>7. QED
  BY <1>5, <1>6 DEF TableOK

\* Nor that it can be played.
LEMMA ReserveKeeps ==
  ASSUME TableOK, NEW t \in Tasks, Playable(t), Reserve(t)
  PROVE  TableOK'
<1>1. [row[t] EXCEPT !.status = "running"] \in Row
  <2>1. row[t] \in Row
    BY DEF TableOK, BacklogTypeOK
  <2>2. QED
    BY <2>1 DEF Row, Statuses
<1>2. row' = [row EXCEPT ![t] = [row[t] EXCEPT !.status = "running"]]
  BY DEF Reserve, TableOK, BacklogTypeOK
<1>3. row' \in [Tasks -> Row] /\ \A u \in Tasks : row'[u] = row[u] \/ row[u].status \in {"pending", "failed"}
  BY <1>1, <1>2 DEF TableOK, BacklogTypeOK, Playable
<1>4. BacklogTypeOK'
  BY <1>3 DEF Reserve, TableOK, BacklogTypeOK
<1>5. DecisionStays'
  BY <1>3 DEF Reserve, TableOK, BacklogTypeOK, DecisionStays
<1>6. QED
  BY <1>4, <1>5 DEF TableOK

LEMMA RowKept ==
  ASSUME TableOK, UNCHANGED <<row, review, decided, early, meddled>>, upsets' \in 0 .. MaxUpsets,
         origin' \subseteq Tasks \X (Branch \ {0})
  PROVE  TableOK'
BY DEF TableOK, BacklogTypeOK, DecisionStays

LEMMA TableKept == ASSUME TableOK, UNCHANGED table PROVE TableOK'
BY RowKept DEF table, TableOK, BacklogTypeOK

LEMMA DecisionIs ==
  ASSUME BacklogTypeOK, review # NoReview, NEW r \in Row
  PROVE  /\ review.task \in Tasks
         /\ Decision(r) \in Row /\ FinalStatus(review.verdict) \in {"none", "completed", "abandoned"}
         /\ FinalStatus(review.verdict) # "none" => Decision(r).status = FinalStatus(review.verdict)
<1>1. /\ review.task \in Tasks
      /\ review.verdict \in {"approved", "rejected", "pending", "paused"}
  BY DEF BacklogTypeOK, Verdicts
<1>2. 0 \in Branch /\ 0 \in Nat /\ r.branch \in Branch
  BY BacklogConstants DEF Branch, Row
<1>3. {"completed", "abandoned", "pending", "paused"} \subseteq Statuses
  BY DEF Statuses
<1>4. CASE review.verdict = "approved"
  <2>1. Decision(r) = [r EXCEPT !.status = "completed", !.branch = 0] /\ FinalStatus(review.verdict) = "completed"
    BY <1>4 DEF Decision, FinalStatus
  <2>2. QED
    BY <1>1, <1>2, <2>1 DEF Row, Statuses
<1>5. CASE review.verdict = "rejected"
  <2>1. PICK b \in Branch : Decision(r) = [r EXCEPT !.status = "abandoned", !.branch = b]
    BY <1>2, <1>5 DEF Decision
  <2>2. FinalStatus(review.verdict) = "abandoned"
    BY <1>5 DEF FinalStatus
  <2>3. QED
    BY <1>1, <2>1, <2>2 DEF Row, Statuses
<1>6. CASE review.verdict = "pending"
  <2>1. /\ Decision(r) = [r EXCEPT !.status = "pending", !.retries = 0, !.keep = FALSE]
        /\ FinalStatus(review.verdict) = "none"
    BY <1>6 DEF Decision, FinalStatus
  <2>2. [r EXCEPT !.status = "pending", !.retries = 0, !.keep = FALSE] \in Row
    BY <1>2 DEF Row, Statuses
  <2>3. QED
    BY <1>1, <2>1, <2>2
<1>7. CASE review.verdict = "paused"
  <2>1. Decision(r) = [r EXCEPT !.status = "paused"] /\ FinalStatus(review.verdict) = "none"
    BY <1>7 DEF Decision, FinalStatus
  <2>2. QED
    BY <1>1, <2>1 DEF Row, Statuses
<1>8. QED
  BY <1>1, <1>4, <1>5, <1>6, <1>7

\* The user and the clock.
LEMMA UserKeeps == ASSUME TableOK, User PROVE TableOK'
<1> USE DEF TableOK
<1>1. ASSUME NEW t \in Tasks, AddTask(t) PROVE TableOK'
  <2>1. row' = [row EXCEPT ![t] = NewRow] /\ (decided[t] = "none" \/ t \in early)
    BY <1>1 DEF AddTask, DecisionStays, BacklogTypeOK
  <2>2. row' \in [Tasks -> Row]
    BY <2>1, NewRowIs DEF BacklogTypeOK
  <2>3. QED
    BY <1>1, <2>1, <2>2 DEF AddTask, BacklogTypeOK, DecisionStays
<1>2. ASSUME NEW t \in Tasks, Delete(t, Busy) PROVE TableOK'
  <2> DEFINE r == [NewRow EXCEPT !.status = "deleted"]
  <2>1. row' = [row EXCEPT ![t] = r] /\ decided' = [decided EXCEPT ![t] = "none"]
    BY <1>2 DEF Delete
  <2>2. r \in Row
    BY NewRowIs
  <2> HIDE DEF r
  <2>3. row' \in [Tasks -> Row] /\ decided' \in [Tasks -> {"none", "completed", "abandoned"}]
    BY <2>1, <2>2 DEF BacklogTypeOK
  <2>4. upsets' \in 0 .. MaxUpsets /\ meddled' \subseteq Tasks
    BY <1>2, BacklogConstants DEF Delete, Meddle, BacklogTypeOK
  <2>5. QED
    BY <1>2, <2>1, <2>3, <2>4 DEF Delete, BacklogTypeOK, DecisionStays
<1>3. ASSUME NEW t \in Tasks, NEW v \in Verdicts, Ask(t, v) PROVE TableOK'
  <2>1. review' \in [task : Tasks, verdict : Verdicts, branch : Branch, remote : BOOLEAN]
    <3> DEFINE there == row[t].branch # 0 /\ <<t, row[t].branch>> \in origin /\ v \in {"approved", "rejected"}
    <3>1. there \in BOOLEAN
      OBVIOUS
    <3>2. PICK remote \in {FALSE, there} :
            review' = [task |-> t, verdict |-> v, branch |-> row[t].branch, remote |-> remote]
      BY <1>3 DEF Ask
    <3> HIDE DEF there
    <3>3. row[t].branch \in Branch
      BY DEF BacklogTypeOK, Row
    <3>4. QED
      BY <3>1, <3>2, <3>3
  <2>2. upsets' \in 0 .. MaxUpsets
    BY <1>3, BacklogConstants DEF Ask, BacklogTypeOK
  <2>3. QED
    BY <1>3, <2>1, <2>2 DEF Ask, BacklogTypeOK, DecisionStays
<1>4. CASE Decide(Busy, Unstarted)
  <2>1. CASE UNCHANGED <<row, decided, early, meddled>>
    BY <1>4, <2>1 DEF Decide, BacklogTypeOK, DecisionStays
  <2>2. CASE ~UNCHANGED <<row, decided, early, meddled>>
    <3> DEFINE t == review.task
               r == Decision(row[t])
               f == FinalStatus(review.verdict)
    <3>1. /\ row' = [row EXCEPT ![t] = Decision(@)] /\ decided' = [decided EXCEPT ![t] = f]
          /\ Meddle(t, Busy) /\ review # NoReview
      BY <1>4, <2>2 DEF Decide
    <3>2. t \in Tasks /\ row[t] \in Row
      BY <3>1, NewRowIs, DecisionIs DEF BacklogTypeOK
    <3>3. r \in Row /\ f \in {"none", "completed", "abandoned"} /\ (f # "none" => r.status = f)
      BY <3>1, <3>2, DecisionIs
    <3>4. row' = [row EXCEPT ![t] = r]
      BY <3>1, <3>2 DEF BacklogTypeOK
    <3>5. /\ UNCHANGED <<origin, upsets>> /\ review' = NoReview /\ meddled' \subseteq Tasks
          /\ early' \subseteq Tasks /\ early \ {t} \subseteq early'
      BY <1>4, <2>2, <3>1, <3>2 DEF Decide, Meddle, BacklogTypeOK
    <3> HIDE DEF t, r, f
    <3>6. row' \in [Tasks -> Row] /\ decided' \in [Tasks -> {"none", "completed", "abandoned"}]
      BY <3>1, <3>2, <3>3, <3>4 DEF BacklogTypeOK
    <3>7. DecisionStays'
      BY <3>1, <3>2, <3>3, <3>4, <3>5 DEF BacklogTypeOK, DecisionStays
    <3>8. QED
      BY <3>5, <3>6, <3>7 DEF BacklogTypeOK
  <2>3. QED
    BY <2>1, <2>2
<1>5. QED
  BY <1>1, <1>2, <1>3, <1>4 DEF User

LEMMA FallsDueKeeps == ASSUME TableOK, NEW t \in Tasks, FallsDue(t) PROVE TableOK'
<1>1. row[t] \in Row /\ row' = [row EXCEPT ![t] = [row[t] EXCEPT !.due = TRUE]]
  BY DEF FallsDue, TableOK, BacklogTypeOK
<1>2. [row[t] EXCEPT !.due = TRUE] \in Row /\ [row[t] EXCEPT !.due = TRUE].status = row[t].status
  BY <1>1 DEF Row
<1>3. row' \in [Tasks -> Row] /\ \A u \in Tasks : row'[u].status = row[u].status
  BY <1>1, <1>2 DEF TableOK, BacklogTypeOK
<1>4. QED
  BY <1>3 DEF FallsDue, TableOK, BacklogTypeOK, DecisionStays

LEMMA RecoverKeeps ==
  ASSUME TableOK, RecoverOrphans, UNCHANGED <<origin, decided, early, meddled>>, review' = NoReview,
         upsets' \in 0 .. MaxUpsets
  PROVE  TableOK'
<1>1. ASSUME NEW t \in Tasks
      PROVE  row'[t] \in Row /\ (row[t].status # "running" => row'[t] = row[t])
  <2>1. row[t] \in Row
    BY DEF TableOK, BacklogTypeOK
  <2>2. /\ [row[t] EXCEPT !.status = "failed", !.due = TRUE] \in Row
        /\ [row[t] EXCEPT !.status = "pending"] \in Row
    BY <2>1 DEF Row, Statuses
  <2>3. QED
    BY <2>1, <2>2 DEF RecoverOrphans
<1>2. row' \in [Tasks -> Row]
  BY <1>1 DEF RecoverOrphans
<1>3. QED
  BY <1>1, <1>2 DEF TableOK, BacklogTypeOK, DecisionStays

-----------------------------------------------------------------------------
(* The slate of the workers.                                               *)

\* A worker that is through with its task gives its provider back, and nobody else's.
LEMMA LeaveKeeps ==
  ASSUME Slate, NEW w \in Workers, NEW l \in {"off", "pick"}, Leave(w, l),
         blocked' \in [Workers -> SUBSET Tasks]
  PROVE  Slate'
<1> USE DEF Slate
<1>1. /\ pc' = [pc EXCEPT ![w] = l] /\ task' = [task EXCEPT ![w] = NoTask]
      /\ provider' = [provider EXCEPT ![w] = NoProvider]
      /\ branch' = [branch EXCEPT ![w] = 0] /\ cause' = [cause EXCEPT ![w] = "none"]
      /\ bill' = [bill EXCEPT ![w] = 0]
      /\ inFlight' = [inFlight EXCEPT ![w[1]] = @ \ {provider[w]}]
  BY DEF Leave, Goto
<1>2. w[1] \in Cycles
  BY WorkerIs
<1>3. OwnOK'
  <2>1. inFlight' \in [Cycles -> SUBSET Providers] /\ pc' \in [Workers -> {"off", "pick", "choose",
            "prepare", "branch", "start", "run", "push", "record", "failed", "closing", "done"}]
    BY <1>1, <1>2 DEF OwnOK
  <2>2. task' \in [Workers -> Held] /\ provider' \in [Workers -> Providers \union {NoProvider}]
    BY <1>1, NoTaskIs DEF OwnOK
  <2>3. 0 \in Branch
    BY BacklogConstants DEF Branch
  <2>4. /\ branch' \in [Workers -> Branch] /\ cause' \in [Workers -> Causes \union {"none"}]
        /\ bill' \in [Workers -> 0 .. 1]
    BY <1>1, <2>3 DEF OwnOK
  <2>5. QED
    BY <2>1, <2>2, <2>4 DEF OwnOK
<1>4. Desk'
  BY <1>1, NoTaskIs DEF Desk, OwnOK
<1>5. Aboard'
  <2> SUFFICES ASSUME NEW v \in Workers, provider'[v] # NoProvider
               PROVE  provider'[v] \in inFlight'[v[1]]
    BY DEF Aboard
  <2>1. v # w /\ provider'[v] = provider[v] /\ v[1] \in Cycles
    BY <1>1, WorkerIs DEF OwnOK
  <2>2. provider[v] \in inFlight[v[1]]
    BY <2>1 DEF Aboard
  <2>3. v[1] = w[1] => provider[v] # provider[w]
    BY <2>1 DEF OneTaskPerProvider
  <2>4. QED
    BY <1>1, <1>2, <2>1, <2>2, <2>3 DEF OwnOK
<1>6. OneTaskPerProvider'
  BY <1>1 DEF OneTaskPerProvider, OwnOK
<1>7. QED
  BY <1>3, <1>4, <1>5, <1>6

\* One that goes on with its task, on the provider it has.
LEMMA MoveKeeps ==
  ASSUME Slate, NEW w \in Workers,
         NEW l \in {"branch", "start", "run", "push", "record", "failed", "closing", "done"},
         pc' = [pc EXCEPT ![w] = l],
         pc[w] \notin {"off", "pick", "choose"}, NEW n \in 0 .. 1, bill' = [bill EXCEPT ![w] = n],
         l \in {"branch", "start", "run"} => n = 0, l \in {"push", "record"} => n = 1,
         branch' \in [Workers -> Branch], cause' \in [Workers -> Causes \union {"none"}],
         l \in {"start", "run", "push", "record", "failed"} => branch'[w] # 0,
         \A v \in Workers \ {w} : branch'[v] = branch[v],
         UNCHANGED <<inFlight, task, provider, blocked>>
  PROVE  Slate'
<1>1. OwnOK'
  BY DEF Slate, OwnOK
<1>2. Desk'
  BY DEF Slate, OwnOK, Desk
<1>3. Aboard' /\ OneTaskPerProvider'
  BY DEF Slate, Aboard, OneTaskPerProvider
<1>4. QED
  BY <1>1, <1>2, <1>3 DEF Slate

LEMMA SlateKept ==
  ASSUME Slate, UNCHANGED <<inFlight, own>> PROVE Slate'
BY DEF Slate, OwnOK, Desk, Aboard, OneTaskPerProvider, own

-----------------------------------------------------------------------------
(* The steps of the drain.                                                 *)

LEMMA RestKept ==
  ASSUME RestOK, UNCHANGED <<healthy, open, cooldown, local, started, picks, stranded>>
  PROVE  RestOK'
BY DEF RestOK

\* The row of a failure, or of a start.
LEMMA FailureIs ==
  ASSUME TableOK, Slate, NEW w \in Workers, Mine(w) \in Tasks, NEW keep \in BOOLEAN, NEW n \in Branch
  PROVE  Failure(w, keep) \in Row /\ Started(w, n) \in Row
<1>1. row[Mine(w)] \in Row
  BY DEF TableOK, BacklogTypeOK
<1>2. task[w].retries + 1 \in Nat
  BY DEF Slate, OwnOK, Held
<1>3. Started(w, n) \in Row
  BY <1>1 DEF Started, Row, Statuses
<1>4. PICK d \in BOOLEAN, s \in {"abandoned", "failed"} :
        Failure(w, keep) = [row[Mine(w)] EXCEPT !.status = s, !.retries = task[w].retries + 1,
                                                !.keep = keep, !.due = d]
  BY <1>1 DEF Failure, Row
<1>5. [row[Mine(w)] EXCEPT !.status = s, !.retries = task[w].retries + 1, !.keep = keep, !.due = d] \in Row
  BY <1>1, <1>2 DEF Row, Statuses
<1>6. QED
  BY <1>3, <1>4, <1>5

LEMMA AsideTyped ==
  ASSUME Slate, NEW w \in Workers, Mine(w) \in Tasks, Aside(w)
  PROVE  blocked' \in [Workers -> SUBSET Tasks]
BY DEF Aside, Slate, OwnOK

LEMMA EarlySteps ==
  ASSUME Inv, NEW w \in Workers,
         Stop(w) \/ Pick(w) \/ AlreadyDelivered(w) \/ Serve(w) \/ SetAside(w) \/ NoneFree(w)
  PROVE  Sound'
<1> USE DEF Inv, Sound
<1>1. CASE Stop(w)
  <2>1. pc' = [pc EXCEPT ![w] = "off"] /\ pc[w] = "pick"
    BY <1>1 DEF Stop, Goto
  <2>2. Slate'
    BY <1>1, <2>1 DEF Stop, shared, Slate, OwnOK, Desk, Aboard, OneTaskPerProvider
  <2>3. TableOK' /\ RestOK'
    BY <1>1, TableKept, RestKept DEF Stop, shared, table
  <2>4. QED
    BY <2>2, <2>3
<1>2. CASE Pick(w)
  <2>1. PICK t \in Tasks :
          /\ Playable(t) /\ Reserve(t)
          /\ task' = [task EXCEPT ![w] = [id |-> t, retries |-> row[t].retries,
                                          branch |-> row[t].branch, keep |-> row[t].keep]]
    BY <1>2 DEF Pick, Reservable
  <2>2. /\ pc[w] = "pick" /\ pc' = [pc EXCEPT ![w] = "choose"]
        /\ UNCHANGED <<inFlight, provider, branch, cause, blocked, bill>>
    BY <1>2 DEF Pick, Goto
  <2>3. [id |-> t, retries |-> row[t].retries, branch |-> row[t].branch, keep |-> row[t].keep] \in Held
    <3>1. row[t] \in Row
      BY DEF TableOK, BacklogTypeOK
    <3>2. QED
      BY <3>1 DEF Row, Held
  <2>4. OwnOK'
    BY <2>1, <2>2, <2>3 DEF Slate, OwnOK
  <2>5. Desk'
    <3>1. 0 \notin Tasks
      BY DEF Tasks
    <3>2. QED
      BY <2>1, <2>2, <3>1 DEF Slate, OwnOK, Desk
  <2>6. Aboard' /\ OneTaskPerProvider'
    BY <2>2 DEF Slate, Aboard, OneTaskPerProvider
  <2>7. TableOK'
    BY <2>1, ReserveKeeps
  <2>8. RestOK'
    <3>1. picks' \in 0 .. MaxPicks
      BY <1>2, DrainConstants DEF Pick, RestOK
    <3>2. QED
      BY <1>2, <3>1 DEF Pick, RestOK
  <2>9. QED
    BY <2>4, <2>5, <2>6, <2>7, <2>8 DEF Slate
<1>3. CASE AlreadyDelivered(w)
  <2>1. Mine(w) \in Tasks
    BY <1>3, MineIs DEF AlreadyDelivered
  <2>2. [row[Mine(w)] EXCEPT !.status = "abandoned", !.keep = FALSE] \in Row
    <3>1. row[Mine(w)] \in Row
      BY <2>1 DEF TableOK, BacklogTypeOK
    <3>2. QED
      BY <3>1 DEF Row, Statuses
  <2>3. TableOK'
    BY <1>3, <2>1, <2>2, ConcludeKeeps DEF AlreadyDelivered, TableOK, BacklogTypeOK
  <2>4. Slate'
    BY <1>3, LeaveKeeps DEF AlreadyDelivered, Slate, OwnOK
  <2>5. RestOK'
    BY <1>3, RestKept DEF AlreadyDelivered
  <2>6. QED
    BY <2>3, <2>4, <2>5
<1>4. CASE Serve(w)
  <2>1. PICK q \in Fit(w) \union OnNetwork(w) \union Cascade(w) :
          inFlight' = [inFlight EXCEPT ![w[1]] = @ \union {q}] /\ provider' = [provider EXCEPT ![w] = q]
    BY <1>4 DEF Serve, TakeOff
  <2>2. pc[w] = "choose" /\ pc' = [pc EXCEPT ![w] = "prepare"] /\ UNCHANGED <<task, branch, cause, blocked, bill>>
    BY <1>4 DEF Serve, Goto
  <2>3. w[1] \in Cycles /\ q \in Providers /\ q \notin inFlight[w[1]]
    BY <2>1, WorkerIs, DrainConstants DEF Fit, OnNetwork, Cascade, Candidates, RestOK
  <2>4. OwnOK'
    BY <2>1, <2>2, <2>3 DEF Slate, OwnOK
  <2>5. Desk'
    BY <2>1, <2>2, <2>3, DrainConstants DEF Slate, OwnOK, Desk
  <2>6. Aboard'
    BY <2>1, <2>3, WorkerIs DEF Slate, OwnOK, Aboard
  <2>7. OneTaskPerProvider'
    <3> SUFFICES ASSUME NEW v \in Workers, NEW u \in Workers, v # u, v[1] = u[1], provider'[v] # NoProvider
                 PROVE  provider'[v] # provider'[u]
      BY DEF OneTaskPerProvider
    <3>1. \A x \in Workers \ {w} : provider'[x] = provider[x] /\ (x[1] = w[1] => provider[x] # q)
      BY <2>1, <2>3, DrainConstants DEF Slate, OwnOK, Aboard
    <3>2. provider'[w] = q
      BY <2>1 DEF Slate, OwnOK
    <3>3. QED
      BY <3>1, <3>2 DEF Slate, OneTaskPerProvider
  <2>8. TableOK' /\ RestOK'
    BY <1>4, TableKept, RestKept DEF Serve, table
  <2>9. QED
    BY <2>4, <2>5, <2>6, <2>7, <2>8 DEF Slate
<1>5. CASE SetAside(w) \/ NoneFree(w)
  <2>1. /\ Mine(w) \in Tasks /\ Release(Mine(w)) /\ UNCHANGED <<origin, healthy, open, cooldown, local, started, picks, stranded>>
        /\ \E l \in {"off", "pick"} : Leave(w, l)
    BY <1>5, MineIs DEF SetAside, NoneFree, AfterAside
  <2>2. blocked' \in [Workers -> SUBSET Tasks]
    BY <1>5, <2>1, AsideTyped DEF SetAside, NoneFree, Slate, OwnOK
  <2>3. Slate'
    BY <2>1, <2>2, LeaveKeeps
  <2>4. TableOK'
    BY <2>1, ReleaseKeeps DEF TableOK, BacklogTypeOK
  <2>5. QED
    BY <2>1, <2>3, <2>4, RestKept
<1>6. QED
  BY <1>1, <1>2, <1>3, <1>4, <1>5

LEMMA PrepareSteps ==
  ASSUME Inv, NEW w \in Workers,
         Begin(w) \/ Prepare(w) \/ Start(w) \/ PrepareFails(w) \/ WorkerDies(w)
  PROVE  Sound'
<1> USE DEF Inv, Sound
<1>1. Mine(w) \in Tasks
  BY MineIs DEF Begin, Prepare, Start, PrepareFails, WorkerDies
<1>2. CASE Prepare(w)
  <2>1. PICK n \in Fresh(Mine(w)) \union (IF Resumes(w) THEN {task[w].branch} ELSE {}) :
          /\ branch' = [branch EXCEPT ![w] = n]
          /\ local' = [local EXCEPT ![w[2]] = @ \union {<<Mine(w), n>>}]
    BY <1>2 DEF Prepare
  <2>2. n \in Branch \ {0} /\ w[2] \in Slots
    BY <2>1, WorkerIs DEF Fresh, Resumes, Slate, OwnOK, Held
  <2>3. Slate'
    <3>1. branch' \in [Workers -> Branch] /\ pc' = [pc EXCEPT ![w] = "start"] /\ pc[w] = "branch"
      BY <1>2, <2>1, <2>2 DEF Prepare, Goto, Slate, OwnOK
    <3>2. bill' = [bill EXCEPT ![w] = 0] /\ 0 \in 0 .. 1
      BY <1>2 DEF Prepare, Slate, OwnOK, Desk
    <3>3. cause' \in [Workers -> Causes \union {"none"}] /\ UNCHANGED <<inFlight, task, provider, blocked>>
      BY <1>2 DEF Prepare, Slate, OwnOK
    <3>4. branch'[w] # 0 /\ \A v \in Workers \ {w} : branch'[v] = branch[v]
      BY <2>1, <2>2 DEF Slate, OwnOK
    <3>5. QED
      BY <3>1, <3>2, <3>3, <3>4, MoveKeeps
  <2>4. TableOK'
    BY <1>2, TableKept DEF Prepare, table
  <2>5. RestOK'
    BY <1>1, <1>2, <2>1, <2>2 DEF Prepare, RestOK
  <2>6. QED
    BY <2>3, <2>4, <2>5
<1>5. CASE Begin(w)
  <2>1. [row[Mine(w)] EXCEPT !.status = "running"] \in Row
    <3>1. row[Mine(w)] \in Row
      BY <1>1 DEF TableOK, BacklogTypeOK
    <3>2. QED
      BY <3>1 DEF Row, Statuses
  <2>2. decided[Mine(w)] = "none" \/ Mine(w) \in early
    BY <1>5 DEF Begin, Heard, Ready
  <2>3. TableOK'
    BY <1>1, <1>5, <2>1, <2>2, MarkKeeps DEF Begin, TableOK, BacklogTypeOK
  <2>4. Slate'
    <3>1. pc' = [pc EXCEPT ![w] = "branch"] /\ pc[w] = "prepare"
      BY <1>5 DEF Begin, Goto
    <3>2. bill' = [bill EXCEPT ![w] = 0] /\ 0 \in 0 .. 1
      BY <1>5 DEF Begin, Slate, OwnOK, Desk
    <3>3. /\ branch' \in [Workers -> Branch] /\ cause' \in [Workers -> Causes \union {"none"}]
          /\ UNCHANGED <<branch, inFlight, task, provider, blocked>>
      BY <1>5 DEF Begin, shared, Slate, OwnOK
    <3>4. QED
      BY <3>1, <3>2, <3>3, MoveKeeps
  <2>5. RestOK'
    BY <1>5, RestKept DEF Begin, shared
  <2>6. QED
    BY <2>3, <2>4, <2>5
<1>6. CASE Start(w)
  <2>1. Started(w, branch[w]) \in Row
    <3>1. branch[w] \in Branch /\ FALSE \in BOOLEAN
      BY DEF Slate, OwnOK
    <3>2. QED
      BY <1>1, <3>1, FailureIs
  <2>2. decided[Mine(w)] = "none" \/ Mine(w) \in early
    BY <1>6 DEF Start, Heard, Ready
  <2>3. TableOK'
    BY <1>1, <1>6, <2>1, <2>2, MarkKeeps DEF Start, TableOK, BacklogTypeOK
  <2>4. Slate'
    <3>1. pc' = [pc EXCEPT ![w] = "run"] /\ pc[w] = "start"
      BY <1>6 DEF Start, Goto
    <3>2. bill' = [bill EXCEPT ![w] = 0] /\ 0 \in 0 .. 1 /\ branch[w] # 0
      BY <1>6, <3>1 DEF Start, Slate, OwnOK, Desk
    <3>3. /\ branch' \in [Workers -> Branch] /\ cause' \in [Workers -> Causes \union {"none"}]
          /\ UNCHANGED <<branch, inFlight, task, provider, blocked>>
      BY <1>6 DEF Start, shared, Slate, OwnOK
    <3>4. QED
      BY <3>1, <3>2, <3>3, MoveKeeps
  <2>5. RestOK'
    BY <1>6, RestKept DEF Start, shared
  <2>6. QED
    BY <2>3, <2>4, <2>5
<1>3. CASE PrepareFails(w)
  <2>1. TableOK'
    <3>1. 0 \in Branch
      BY BacklogConstants DEF Branch
    <3>2. Failure(w, FALSE) \in Row
      BY <1>1, <3>1, FailureIs
    <3>3. QED
      BY <1>1, <1>3, <3>2, ConcludeKeeps DEF PrepareFails, TableOK, BacklogTypeOK
  <2>2. Slate'
    <3>1. cause' \in [Workers -> Causes \union {"none"}] /\ pc' = [pc EXCEPT ![w] = "done"]
          /\ pc[w] \in {"prepare", "branch"}
      BY <1>3 DEF PrepareFails, Goto, Slate, OwnOK, Causes
    <3>2. bill' = [bill EXCEPT ![w] = 0] /\ 0 \in 0 .. 1
      BY <1>3 DEF PrepareFails, Slate, OwnOK, Desk
    <3>3. branch' \in [Workers -> Branch] /\ UNCHANGED <<branch, inFlight, task, provider, blocked>>
      BY <1>3 DEF PrepareFails, shared, Slate, OwnOK
    <3>4. QED
      BY <3>1, <3>2, <3>3, MoveKeeps
  <2>3. RestOK'
    BY <1>3, RestKept DEF PrepareFails, shared
  <2>4. QED
    BY <2>1, <2>2, <2>3
<1>4. CASE WorkerDies(w)
  <2>1. Slate'
    BY <1>4, LeaveKeeps DEF WorkerDies, Slate, OwnOK
  <2>2. TableOK'
    <3>1. upsets' \in 0 .. MaxUpsets
      BY <1>4, BacklogConstants DEF WorkerDies, TableOK, BacklogTypeOK
    <3>2. QED
      BY <1>4, <3>1, RowKept DEF WorkerDies, TableOK, BacklogTypeOK
  <2>3. RestOK'
    BY <1>1, <1>4 DEF WorkerDies, RestOK
  <2>4. QED
    BY <2>1, <2>2, <2>3
<1>7. QED
  BY <1>2, <1>3, <1>4, <1>5, <1>6

LEMMA NameIs ==
  ASSUME Inv, NEW w \in Workers, pc[w] \in {"push", "record", "failed"}, Mine(w) \in Tasks,
         Pushed(w)
  PROVE  origin' \subseteq Tasks \X (Branch \ {0})
<1>1. branch[w] \in Branch \ {0}
  BY DEF Inv, Sound, Slate, OwnOK, Desk
<1>2. QED
  BY <1>1 DEF Pushed, Name, Inv, Sound, TableOK, BacklogTypeOK

\* The run, and what becomes of its task.
LEMMA RunSteps ==
  ASSUME Inv, NEW w \in Workers,
         RunReturns(w) \/ RunRaises(w) \/ Push(w) \/ Record(w) \/ RecordRaises(w)
  PROVE  Sound'
<1> USE DEF Inv, Sound
<1>1. Mine(w) \in Tasks /\ bill[w] \in 0 .. 1
  BY MineIs DEF RunReturns, RunRaises, Push, Record, RecordRaises, Slate, OwnOK
<1>2. PICK l \in {"push", "record", "failed", "done"} : pc' = [pc EXCEPT ![w] = l]
  BY DEF RunReturns, RunRaises, Push, Record, RecordRaises, Goto
<1>3. /\ pc[w] \in {"run", "push", "record"}
      /\ UNCHANGED <<shared, task, provider, branch, blocked, stranded>>
  BY DEF RunReturns, RunRaises, Push, Record, RecordRaises
<1>4. cause' \in [Workers -> Causes \union {"none"}]
  BY DEF RunReturns, RunRaises, Push, Record, RecordRaises, Slate, OwnOK, Causes
<1>5. PICK n \in 0 .. 1 : bill' = [bill EXCEPT ![w] = n] /\ (l \in {"push", "record"} => n = 1)
  <2>1. CASE RunReturns(w)
    <3>1. bill[w] = 0 /\ bill' = [bill EXCEPT ![w] = bill[w] + 1]
      BY <2>1 DEF RunReturns, Charge, Slate, Desk, OwnOK
    <3>2. bill' = [bill EXCEPT ![w] = 1] /\ 1 \in 0 .. 1
      BY <3>1
    <3>3. QED
      BY <3>2
  <2>2. CASE Push(w)
    <3>1. bill[w] = 1 /\ bill' = [bill EXCEPT ![w] = 1]
      BY <2>2 DEF Push, Slate, Desk, OwnOK
    <3>2. QED
      BY <3>1
  <2>3. CASE RunRaises(w) \/ Record(w) \/ RecordRaises(w)
    <3>1. bill' = [bill EXCEPT ![w] = bill[w]]
      BY <2>3 DEF RunRaises, Record, RecordRaises, Slate, OwnOK
    <3>2. pc'[w] \in {"failed", "done"}
      BY <2>3 DEF RunRaises, Record, RecordRaises, Goto, Slate, OwnOK
    <3>3. l \notin {"push", "record"}
      BY <1>2, <3>2 DEF Slate, OwnOK
    <3>4. QED
      BY <1>1, <3>1, <3>3
  <2>4. QED
    BY <2>1, <2>2, <2>3
<1>6. Slate'
  <2>1. branch' \in [Workers -> Branch] /\ UNCHANGED <<branch, inFlight, task, provider, blocked>>
    BY <1>3 DEF shared, Slate, OwnOK
  <2>2. branch[w] # 0
    BY <1>3 DEF Slate, Desk
  <2>3. QED
    BY <1>2, <1>3, <1>4, <1>5, <2>1, <2>2, MoveKeeps
<1>7. RestOK'
  BY <1>3, RestKept DEF shared
<1>8. TableOK'
  <2>1. CASE RunReturns(w) \/ RunRaises(w) \/ RecordRaises(w)
    BY <2>1, TableKept DEF RunReturns, RunRaises, RecordRaises, table
  <2>2. CASE Push(w)
    <3>1. origin' \subseteq Tasks \X (Branch \ {0})
      BY <1>1, <2>2, NameIs DEF Push
    <3>2. QED
      BY <2>2, <3>1, RowKept DEF Push, TableOK, BacklogTypeOK
  <2>3. CASE Record(w)
    <3>1. [row[Mine(w)] EXCEPT !.status = "completed"] \in Row
      <4>1. row[Mine(w)] \in Row
        BY <1>1 DEF TableOK, BacklogTypeOK
      <4>2. QED
        BY <4>1 DEF Row, Statuses
    <3>2. QED
      BY <1>1, <2>3, <3>1, ConcludeKeeps DEF Record, TableOK, BacklogTypeOK
  <2>4. QED
    BY <2>1, <2>2, <2>3
<1>9. QED
  BY <1>6, <1>7, <1>8

LEMMA LastSteps ==
  ASSUME Inv, NEW w \in Workers, Settle(w) \/ Close(w) \/ Finish(w) \/ Interrupt(w)
  PROVE  Sound'
<1> USE DEF Inv, Sound
<1>1. Mine(w) \in Tasks /\ bill[w] \in 0 .. 1
  BY MineIs DEF Settle, Close, Finish, Interrupt, Slate, OwnOK
<1>2. CASE Settle(w)
  <2>1. PICK n \in 0 .. 1 : bill' = [bill EXCEPT ![w] = n]
    <3>1. CASE Unpaid(w) /\ Charge(w)
      <4>1. bill' = [bill EXCEPT ![w] = 1]
        BY <3>1 DEF Unpaid, Charge, Slate, OwnOK
      <4>2. QED
        BY <4>1
    <3>2. CASE UNCHANGED bill
      BY <1>1, <3>2 DEF Slate, OwnOK
    <3>3. QED
      BY <1>2, <3>1, <3>2 DEF Settle
  <2>2. /\ pc' = [pc EXCEPT ![w] = "closing"] /\ pc[w] = "failed"
        /\ branch' \in [Workers -> Branch] /\ cause' \in [Workers -> Causes \union {"none"}]
        /\ UNCHANGED <<branch, inFlight, task, provider, blocked>>
    BY <1>2 DEF Settle, Goto, Slate, OwnOK
  <2>3. Slate'
    BY <2>1, <2>2, MoveKeeps
  <2>4. TableOK'
    <3>1. origin' \subseteq Tasks \X (Branch \ {0})
      BY <1>1, <1>2, NameIs DEF Settle, TableOK, BacklogTypeOK
    <3>2. QED
      BY <1>2, <3>1, RowKept DEF Settle, TableOK, BacklogTypeOK
  <2>5. RestOK'
    <3>1. cooldown' \subseteq Providers
      BY <1>2 DEF Settle, RestOK, Slate, OwnOK, Desk
    <3>2. local' \in [Slots -> SUBSET (Tasks \X (Branch \ {0}))]
      BY <1>2 DEF Settle, RestOK
    <3>3. QED
      BY <1>2, <3>1, <3>2 DEF Settle, RestOK
  <2>6. QED
    BY <2>3, <2>4, <2>5
<1>3. CASE Close(w)
  <2>1. /\ pc' = [pc EXCEPT ![w] = "done"] /\ pc[w] = "closing" /\ bill' = [bill EXCEPT ![w] = bill[w]]
        /\ branch' \in [Workers -> Branch] /\ cause' \in [Workers -> Causes \union {"none"}]
        /\ UNCHANGED <<branch, inFlight, task, provider, blocked>>
    BY <1>3 DEF Close, Goto, shared, Slate, OwnOK
  <2>2. Slate'
    BY <1>1, <2>1, MoveKeeps
  <2>3. TableOK'
    <3>1. origin' \subseteq Tasks \X (Branch \ {0})
      BY <1>3 DEF Close, TableOK, BacklogTypeOK
    <3>2. CASE Release(Mine(w))
      BY <1>1, <3>1, <3>2, ReleaseKeeps
    <3>3. CASE ~Release(Mine(w))
      <4>1. PICK keep \in BOOLEAN :
              Conclude(Mine(w), IF Keeps(w) THEN [Failure(w, TRUE) EXCEPT !.branch = branch[w]]
                                          ELSE Failure(w, keep))
        BY <1>3, <3>3 DEF Close
      <4>2. branch[w] \in Branch
        BY DEF Slate, OwnOK
      <4>3. Failure(w, TRUE) \in Row /\ Failure(w, keep) \in Row
        BY <1>1, <4>2, FailureIs
      <4>4. [Failure(w, TRUE) EXCEPT !.branch = branch[w]] \in Row
        BY <4>2, <4>3 DEF Row
      <4>5. QED
        BY <1>1, <3>1, <4>1, <4>3, <4>4, ConcludeKeeps
    <3>4. QED
      BY <3>2, <3>3
  <2>4. RestOK'
    BY <1>3, RestKept DEF Close, shared
  <2>5. QED
    BY <2>2, <2>3, <2>4
<1>4. CASE Finish(w)
  <2>1. /\ blocked' \in [Workers -> SUBSET Tasks] /\ \E l \in {"off", "pick"} : Leave(w, l)
    <3>1. \/ Aside(w)
          \/ UNCHANGED blocked
      BY <1>4 DEF Finish
    <3>2. blocked' \in [Workers -> SUBSET Tasks]
      BY <1>1, <3>1, AsideTyped DEF Slate, OwnOK
    <3>3. QED
      BY <1>4, <3>2 DEF Finish, AfterAside
  <2>2. Slate'
    BY <2>1, LeaveKeeps
  <2>3. TableOK' /\ RestOK'
    BY <1>4, TableKept, RestKept DEF Finish, table
  <2>4. QED
    BY <2>2, <2>3
<1>5. CASE Interrupt(w)
  <2>1. Slate'
    BY <1>5, LeaveKeeps DEF Interrupt, Slate, OwnOK
  <2>2. TableOK'
    <3>1. origin' \subseteq Tasks \X (Branch \ {0})
      BY <1>1, <1>5, NameIs DEF Interrupt, TableOK, BacklogTypeOK
    <3>2. QED
      BY <1>1, <1>5, <3>1, ReleaseKeeps DEF Interrupt, GiveBack
  <2>3. RestOK'
    BY <1>5, RestKept DEF Interrupt
  <2>4. QED
    BY <2>1, <2>2, <2>3
<1>6. QED
  BY <1>2, <1>3, <1>4, <1>5

\* The cycles and their providers.
LEMMA CycleSteps ==
  ASSUME Inv, NEW c \in Cycles, StartCycle(c) \/ CloseWindow(c)
  PROVE  Sound'
<1> USE DEF Inv, Sound
<1>1. CASE StartCycle(c)
  <2>1. PICK sains \in SUBSET Providers \ {{}}, probed \in BOOLEAN :
          /\ healthy' = [healthy EXCEPT ![c] = sains]
          /\ pc' = [w \in Workers |-> IF w[1] = c /\ (w[2] <= Cardinality(sains) \/ ~probed)
                                       THEN "pick" ELSE pc[w]]
    BY <1>1 DEF StartCycle
  <2>2. \A w \in Workers : w[1] = c => pc[w] = "off"
    BY <1>1, WorkerIs DEF StartCycle
  <2>3. /\ inFlight' = [inFlight EXCEPT ![c] = {}]
        /\ blocked' = [w \in Workers |-> IF w[1] = c THEN {} ELSE blocked[w]]
        /\ UNCHANGED <<task, provider, branch, cause, bill>>
    BY <1>1 DEF StartCycle
  <2>4. OwnOK'
    BY <2>1, <2>3 DEF Slate, OwnOK
  <2>5. \A w \in Workers : pc'[w] = pc[w] \/ (pc[w] = "off" /\ pc'[w] = "pick")
    BY <2>1, <2>2
  <2>6. Desk'
    BY <2>3, <2>5 DEF Slate, Desk
  <2>7. Aboard'
    <3>1. \A w \in Workers : w[1] = c => provider[w] = NoProvider
      BY <2>2 DEF Slate, Desk
    <3>2. QED
      BY <2>3, <3>1, WorkerIs DEF Slate, OwnOK, Aboard
  <2>8. OneTaskPerProvider'
    BY <2>3 DEF Slate, OneTaskPerProvider
  <2>9. started' \in 0 .. MaxCycles
    BY <1>1, DrainConstants DEF StartCycle, RestOK
  <2>10. RestOK'
    BY <1>1, <2>1, <2>9 DEF StartCycle, RestOK
  <2>11. TableOK'
    BY <1>1, TableKept DEF StartCycle, table
  <2>12. QED
    BY <2>4, <2>6, <2>7, <2>8, <2>10, <2>11 DEF Slate
<1>2. CASE CloseWindow(c)
  <2>1. Slate' /\ TableOK'
    BY <1>2, SlateKept, TableKept DEF CloseWindow, table
  <2>2. RestOK'
    BY <1>2 DEF CloseWindow, RestOK
  <2>3. QED
    BY <2>1, <2>2
<1>3. QED
  BY <1>1, <1>2

LEMMA CrashStep == ASSUME Inv, Crash PROVE Sound'
<1> USE DEF Inv, Sound
<1>1. TableOK'
  <2>1. upsets' \in 0 .. MaxUpsets
    BY BacklogConstants DEF Crash, TableOK, BacklogTypeOK
  <2>2. QED
    BY <2>1, RecoverKeeps DEF Crash
<1>2. RestOK'
  BY DEF Crash, RestOK
<1>3. OwnOK'
  <2>1. 0 \in Branch /\ NoTask \in Held
    BY BacklogConstants, NoTaskIs DEF Branch
  <2>2. QED
    BY <2>1 DEF Crash, OwnOK
<1>4. Desk' /\ Aboard' /\ OneTaskPerProvider'
  BY NoTaskIs DEF Crash, Desk, Aboard, OneTaskPerProvider
<1>5. QED
  BY <1>1, <1>2, <1>3, <1>4 DEF Slate

-----------------------------------------------------------------------------
(* The decisions the workers may still write over.                         *)

LEMMA HeardKept ==
  ASSUME Inv, early' = early, \A t \in Tasks : decided'[t] \in {"none", decided[t]},
         \A w \in Workers : pc'[w] \in Ready => pc[w] \in Ready /\ task'[w] = task[w]
  PROVE  Heard'
<1> SUFFICES ASSUME NEW w \in Workers, pc'[w] \in Ready
             PROVE  decided'[Mine(w)'] = "none" \/ Mine(w)' \in early'
  BY DEF Heard
<1>1. Mine(w)' = Mine(w) /\ Mine(w) \in Tasks
  BY MineIs DEF Mine, Ready, Inv, Sound
<1>2. QED
  BY <1>1 DEF Inv, Heard

\* What a worker writes on the table decides nothing.
LEMMA DecidedBy ==
  ASSUME Inv, NEW t \in Tasks, NEW r,
         Conclude(t, r) \/ Mark(t, r) \/ Release(t) \/ UNCHANGED <<decided, early>>
  PROVE  early' = early /\ \A u \in Tasks : decided'[u] \in {"none", decided[u]}
BY DEF Conclude, Mark, Release, Inv, Sound, TableOK, BacklogTypeOK

LEMMA PickHeard == ASSUME Inv, NEW w \in Workers, Pick(w) PROVE Heard'
<1>1. PICK t \in Tasks :
        /\ Playable(t) /\ Reserve(t)
        /\ task' = [task EXCEPT ![w] = [id |-> t, retries |-> row[t].retries,
                                        branch |-> row[t].branch, keep |-> row[t].keep]]
  BY DEF Pick, Reservable
<1>2. pc' = [pc EXCEPT ![w] = "choose"] /\ UNCHANGED <<decided, early>>
  BY <1>1 DEF Pick, Goto, Reserve
<1>3. decided[t] = "none" \/ t \in early
  <2>1. decided[t] \in {"none", "completed", "abandoned"}
    BY DEF Inv, Sound, TableOK, BacklogTypeOK
  <2>2. QED
    BY <1>1, <2>1 DEF Playable, Inv, Sound, TableOK, DecisionStays
<1>4. Mine(w)' = t
  BY <1>1 DEF Mine, Inv, Sound, Slate, OwnOK
<1>5. ASSUME NEW v \in Workers, pc'[v] \in Ready
      PROVE  decided'[Mine(v)'] = "none" \/ Mine(v)' \in early'
  <2>1. CASE v = w
    BY <1>2, <1>3, <1>4, <2>1
  <2>2. CASE v # w
    <3>1. pc'[v] = pc[v] /\ Mine(v)' = Mine(v)
      BY <1>1, <1>2, <2>2 DEF Mine, Inv, Sound, Slate, OwnOK
    <3>2. QED
      BY <1>2, <1>5, <3>1 DEF Inv, Heard
  <2>3. QED
    BY <2>1, <2>2
<1>6. QED
  BY <1>5 DEF Heard

LEMMA WorkerHeard == ASSUME Inv, NEW w \in Workers, WorkerStep(w), ~Pick(w) PROVE Heard'
<1> USE DEF Inv, Sound
<1>1. CASE Stop(w)
  BY <1>1, HeardKept DEF Stop, Goto, Slate, OwnOK, Ready, TableOK, BacklogTypeOK
<1>2. ASSUME NEW l \in {"off", "pick"}, Leave(w, l), ~Stop(w), Mine(w) \in Tasks,
             NEW r, Conclude(Mine(w), r) \/ Release(Mine(w)) \/ UNCHANGED <<decided, early>>
      PROVE  Heard'
  <2>1. \A v \in Workers : pc'[v] \in Ready => pc[v] \in Ready /\ task'[v] = task[v]
    BY <1>2 DEF Leave, Goto, Slate, OwnOK, Ready
  <2>2. QED
    BY <1>2, <2>1, DecidedBy, HeardKept
<1>3. ASSUME NEW l, pc' = [pc EXCEPT ![w] = l], l \in Ready => pc[w] \in Ready,
             task' = task, Mine(w) \in Tasks,
             NEW r, \/ Conclude(Mine(w), r) \/ Mark(Mine(w), r) \/ Release(Mine(w))
                    \/ UNCHANGED <<decided, early>>
      PROVE  Heard'
  <2>1. \A v \in Workers : pc'[v] \in Ready => pc[v] \in Ready /\ task'[v] = task[v]
    BY <1>3 DEF Slate, OwnOK
  <2>2. QED
    BY <1>3, <2>1, DecidedBy, HeardKept
<1>4. CASE AlreadyDelivered(w)
  <2>1. Mine(w) \in Tasks
    BY <1>4, MineIs DEF AlreadyDelivered
  <2>2. ~Stop(w) /\ "pick" \in {"off", "pick"}
    BY <1>4 DEF AlreadyDelivered, Stop
  <2>3. QED
    BY <1>2, <1>4, <2>1, <2>2 DEF AlreadyDelivered
<1>5. CASE SetAside(w) \/ NoneFree(w)
  <2>1. Mine(w) \in Tasks /\ ~Stop(w)
    BY <1>5, MineIs DEF SetAside, NoneFree, Stop
  <2>2. PICK l \in {"off", "pick"} : Leave(w, l)
    BY <1>5 DEF SetAside, NoneFree, AfterAside
  <2>3. QED
    BY <1>2, <1>5, <2>1, <2>2 DEF SetAside, NoneFree
<1>6. CASE WorkerDies(w) \/ Finish(w) \/ Interrupt(w)
  <2>1. Mine(w) \in Tasks /\ ~Stop(w)
    BY <1>6, MineIs DEF WorkerDies, Finish, Interrupt, Stop
  <2>2. PICK l \in {"off", "pick"} : Leave(w, l)
    BY <1>6 DEF WorkerDies, Finish, Interrupt, AfterAside
  <2>3. Release(Mine(w)) \/ UNCHANGED <<decided, early>>
    BY <1>6 DEF WorkerDies, Finish, Interrupt, GiveBack
  <2>4. QED
    BY <1>2, <2>1, <2>2, <2>3
<1>7. CASE Serve(w)
  <2>1. Mine(w) \in Tasks
    BY <1>7, MineIs DEF Serve
  <2>2. /\ pc' = [pc EXCEPT ![w] = "prepare"] /\ pc[w] \in Ready /\ task' = task
        /\ UNCHANGED <<decided, early>>
    BY <1>7 DEF Serve, Goto, Ready
  <2>3. QED
    BY <1>3, <2>1, <2>2
<1>8. CASE Begin(w) \/ Prepare(w) \/ Start(w) \/ PrepareFails(w)
  <2>1. Mine(w) \in Tasks
    BY <1>8, MineIs DEF Begin, Prepare, Start, PrepareFails
  <2>2. PICK l \in {"branch", "start", "run", "done"} :
          pc' = [pc EXCEPT ![w] = l] /\ pc[w] \in Ready /\ task' = task
    BY <1>8 DEF Begin, Prepare, Start, PrepareFails, Goto, Ready
  <2>3. \E r : \/ Conclude(Mine(w), r) \/ Mark(Mine(w), r) \/ UNCHANGED <<decided, early>>
    BY <1>8 DEF Begin, Prepare, Start, PrepareFails
  <2>4. QED
    BY <1>3, <2>1, <2>2, <2>3
<1>9. CASE \/ RunReturns(w) \/ RunRaises(w) \/ Push(w) \/ Record(w) \/ RecordRaises(w)
           \/ Settle(w) \/ Close(w)
  <2>1. Mine(w) \in Tasks
    BY <1>9, MineIs DEF RunReturns, RunRaises, Push, Record, RecordRaises, Settle, Close
  <2>2. PICK l \in {"push", "record", "failed", "closing", "done"} :
          pc' = [pc EXCEPT ![w] = l] /\ task' = task
    BY <1>9 DEF RunReturns, RunRaises, Push, Record, RecordRaises, Settle, Close, Goto
  <2>3. l \notin Ready
    BY DEF Ready
  <2>4. \E r : \/ Conclude(Mine(w), r) \/ Release(Mine(w)) \/ UNCHANGED <<decided, early>>
    BY <1>9 DEF RunReturns, RunRaises, Push, Record, RecordRaises, Settle, Close
  <2>5. QED
    BY <1>3, <2>1, <2>2, <2>3, <2>4
<1>10. QED
  BY <1>1, <1>4, <1>5, <1>6, <1>7, <1>8, <1>9 DEF WorkerStep

\* A decision on a task whose worker has yet to start comes too early.
LEMMA UserHeard == ASSUME Inv, User PROVE Heard'
<1> USE DEF Inv, Sound
<1>1. \A v \in Workers : pc'[v] = pc[v] /\ Mine(v)' = Mine(v)
  BY DEF User, own, Mine
<1>2. ASSUME NEW t \in Tasks, AddTask(t) \/ Delete(t, Busy) \/ \E v \in Verdicts : Ask(t, v)
      PROVE  Heard'
  <2>1. early' = early /\ \A u \in Tasks : decided'[u] \in {"none", decided[u]}
    BY <1>2 DEF AddTask, Delete, Ask, TableOK, BacklogTypeOK
  <2>2. \A v \in Workers : pc'[v] = pc[v] /\ task'[v] = task[v]
    BY DEF User, own
  <2>3. QED
    BY <2>1, <2>2, HeardKept
<1>3. CASE Decide(Busy, Unstarted)
  <2>1. CASE UNCHANGED <<decided, early>>
    BY <1>1, <2>1 DEF Heard
  <2>2. CASE ~UNCHANGED <<decided, early>>
    <3>1. /\ decided' = [decided EXCEPT ![review.task] = FinalStatus(review.verdict)]
          /\ early' = IF review.task \in Unstarted THEN early \union {review.task}
                                                     ELSE early \ {review.task}
      BY <1>3, <2>2 DEF Decide
    <3>2. ASSUME NEW v \in Workers, pc[v] \in Ready
          PROVE  decided'[Mine(v)] = "none" \/ Mine(v) \in early'
      <4>1. Mine(v) \in Unstarted
        BY <3>2 DEF Unstarted, Ready
      <4>2. Mine(v) \in Tasks
        BY <3>2, MineIs DEF Ready
      <4>3. CASE Mine(v) = review.task
        BY <3>1, <4>1, <4>3
      <4>4. CASE Mine(v) # review.task
        BY <3>1, <3>2, <4>2, <4>4 DEF Heard, TableOK, BacklogTypeOK
      <4>5. QED
        BY <4>3, <4>4
    <3>3. QED
      BY <1>1, <3>2 DEF Heard
  <2>3. QED
    BY <2>1, <2>2
<1>4. QED
  BY <1>2, <1>3 DEF User

LEMMA Initially == Init => Inv
<1> SUFFICES ASSUME Init PROVE Inv
  OBVIOUS
<1>1. 0 \in Branch /\ NoTask \in Held /\ NoTask.id = 0
  BY BacklogConstants, NoTaskIs DEF Branch
<1>2. TableOK
  <2>1. 0 \in 0 .. MaxUpsets
    BY BacklogConstants
  <2>2. BacklogTypeOK
    BY <2>1, NewRowIs DEF Init, BacklogInit, BacklogTypeOK
  <2>3. QED
    BY <2>2 DEF Init, BacklogInit, TableOK, DecisionStays
<1>3. RestOK
  BY DrainConstants DEF Init, RestOK
<1>4. OwnOK
  BY <1>1 DEF Init, OwnOK
<1>5. Desk /\ Aboard /\ OneTaskPerProvider
  BY <1>1 DEF Init, Desk, Aboard, OneTaskPerProvider
<1>6. Heard
  BY DEF Init, Heard, Ready
<1>7. QED
  BY <1>2, <1>3, <1>4, <1>5, <1>6 DEF Inv, Sound, Slate

LEMMA Inductive == Inv /\ [Next]_vars => Inv'
<1> SUFFICES ASSUME Inv, [Next]_vars PROVE Inv'
  OBVIOUS
<1> USE DEF Inv, Sound
<1>1. CASE UNCHANGED vars
  <2>1. Sound'
    BY <1>1, SlateKept, TableKept, RestKept DEF vars, shared, table
  <2>2. Heard'
    BY <1>1 DEF vars, own, Heard, Mine
  <2>3. QED
    BY <2>1, <2>2
<1>2. ASSUME NEW c \in Cycles, StartCycle(c) \/ CloseWindow(c) PROVE Inv'
  <2>1. UNCHANGED <<decided, early, task>> /\ \A w \in Workers : pc'[w] \in {pc[w], "pick"}
    BY <1>2 DEF StartCycle, CloseWindow, own
  <2>2. Heard'
    BY <2>1 DEF Heard, Mine, Ready
  <2>3. QED
    BY <1>2, <2>2, CycleSteps
<1>3. ASSUME NEW w \in Workers, WorkerStep(w) PROVE Inv'
  <2>1. Sound'
    BY <1>3, EarlySteps, PrepareSteps, RunSteps, LastSteps DEF WorkerStep
  <2>2. QED
    BY <1>3, <2>1, PickHeard, WorkerHeard
<1>4. CASE User
  <2>1. Sound'
    BY <1>4, SlateKept, UserKeeps, RestKept DEF User, shared
  <2>2. QED
    BY <1>4, <2>1, UserHeard
<1>5. ASSUME NEW t \in Tasks, FallsDue(t), UNCHANGED <<shared, own, stranded>> PROVE Inv'
  <2>1. Sound'
    BY <1>5, SlateKept, FallsDueKeeps, RestKept DEF shared
  <2>2. Heard'
    BY <1>5 DEF FallsDue, own, Heard, Mine
  <2>3. QED
    BY <2>1, <2>2
<1>6. ASSUME NEW q \in Providers, CoolsDown(q) PROVE Inv'
  <2>1. Slate' /\ TableOK'
    BY <1>6, SlateKept, TableKept DEF CoolsDown, table
  <2>2. RestOK'
    BY <1>6 DEF CoolsDown, RestOK
  <2>3. Heard'
    BY <1>6 DEF CoolsDown, own, Heard, Mine
  <2>4. QED
    BY <2>1, <2>2, <2>3
<1>7. CASE Crash
  <2>1. Heard'
    BY <1>7 DEF Crash, Heard, Ready
  <2>2. QED
    BY <1>7, <2>1, CrashStep
<1>8. QED
  BY <1>1, <1>2, <1>3, <1>4, <1>5, <1>6, <1>7 DEF Next, Time

LEMMA Invariant == Spec => []Inv
BY Initially, Inductive, PTL DEF Spec

-----------------------------------------------------------------------------
(* What holds of any number of cycles.                                     *)

\* Two slots of a cycle never run on the same provider, whatever the cascade of costs offers
\* them and however the other slots choose meanwhile (en_vol, _run_dreamcoder_drain_loop).
THEOREM ProvidersStayApart == Spec => []ProvidersApart
<1>1. Inv => ProvidersApart
  BY InvTypes DEF Inv, Sound, Slate, ProvidersApart
<1>2. QED
  BY <1>1, Invariant, PTL

\* The final decision of the user on a task stays until a worker that has the task ends it,
\* unless it was taken between the reservation of the task and the last start write of its
\* worker, which say "running" whatever the row has become (update_task_status and
\* PUT /tasks/{id}).
THEOREM DecisionsStay == Spec => []DecisionStays
<1>1. Inv => DecisionStays
  BY DEF Inv, Sound, TableOK
<1>2. QED
  BY <1>1, Invariant, PTL

\* A provider in cooldown is elected only as a last resort (_choisir_provider_tache).
THEOREM CooldownAlwaysRespected == Spec => CooldownRespected
<1>1. ASSUME Inv, [Next]_vars, NEW q \in Providers \ LastResort, q \in cooldown,
             NEW w \in Workers, provider[w] # q, provider'[w] = q
      PROVE  FALSE
  <2>1. q # NoProvider
    BY DrainConstants
  <2>2. \A v \in Workers, l \in {"off", "pick"} : ~Leave(v, l)
    BY <1>1, <2>1 DEF Leave, Inv, Sound, Slate, OwnOK
  <2>3. provider' # provider /\ provider'[w] # NoProvider
    BY <1>1, <2>1
  <2>4. PICK v \in Workers : Serve(v)
    <3>1. \A v \in Workers : WorkerStep(v) => Serve(v)
      BY <2>2, <2>3 DEF WorkerStep, Stop, Pick, AlreadyDelivered, SetAside, NoneFree, AfterAside, Begin, Prepare, Start,
         PrepareFails, WorkerDies, RunReturns, RunRaises, Push, Record, RecordRaises, Settle, Close,
         Finish, Interrupt, shared
    <3>2. ~Crash
      BY <2>3 DEF Crash
    <3>3. ~User /\ ~Time /\ ~UNCHANGED vars /\ \A c \in Cycles : ~StartCycle(c)
      BY <2>3 DEF User, Time, CoolsDown, CloseWindow, StartCycle, own, vars
    <3>4. QED
      BY <1>1, <3>1, <3>2, <3>3 DEF Next
  <2>5. PICK p \in Fit(v) \union OnNetwork(v) \union Cascade(v) : provider' = [provider EXCEPT ![v] = p]
    BY <2>4 DEF Serve
  <2>6. q = p
    BY <1>1, <2>5 DEF Inv, Sound, Slate, OwnOK
  <2>7. QED
    BY <1>1, <2>5, <2>6 DEF Fit, OnNetwork, Cascade, Candidates
<1>2. Inv /\ [Next]_vars => [\A p \in Providers \ LastResort : Elected(p) => p \notin cooldown]_vars
  BY <1>1 DEF Elected
<1>3. QED
  BY <1>2, Invariant, PTL DEF Spec, CooldownRespected

-----------------------------------------------------------------------------
(* One cycle at a time: what the tables say of the work.                   *)

\* No task of the queue has used all its attempts.
Tried ==
  \A t \in Tasks \ meddled :
    row[t].status \in {"pending", "running", "failed"} => row[t].retries < MaxAttempts

\* The row of a task that a worker has is running, or was given back by the window of the
\* cycle, after which no worker reserves anything.
Working ==
  \A w \in Workers : Has(w) \in Tasks \ meddled =>
    /\ row[Has(w)].status \in {"running", "pending"}
    /\ w[1] \in open => row[Has(w)].status = "running"

\* A worker that may still end its task well has the branch in its clone, and in the row.
Named ==
  \A w \in Workers : pc[w] \in {"start", "run", "push", "record", "failed"} =>
    /\ Name(w) \in local[w[2]]
    /\ pc[w] # "start" /\ Mine(w) \notin meddled => row[Mine(w)].branch \in {0, branch[w]}

\* Nothing is running but what a worker has.
Attended == \A t \in Tasks : row[t].status = "running" => t \in Busy \union stranded \union meddled

Truth == OneWorkerPerTask /\ Tried /\ Working /\ Named /\ Attended /\ CompletedIsThere

\* The cycle of the loop and that of the button do not run at once.
Alone == \A c, d \in Cycles : c = d

LEMMA HasIs == Slate => \A w \in Workers : Has(w) \in Tasks \union {0}
BY DEF Slate, OwnOK, Has, Mine, Held

LEMMA BusyIs == \A t : t \in Busy <=> t # 0 /\ \E w \in Workers : Has(w) = t
BY DEF Busy

\* What a worker does to the task it has.  All it has to answer for is the row of that task.
LEMMA OwnTaskKeeps ==
  ASSUME Alone, Inv, Inv', Truth, NEW w \in Workers, NEW t \in Tasks, Has(w) = t,
         Has(w)' \in {0, t},
         \A v \in Workers \ {w} : Has(v)' = Has(v) /\ Mine(v)' = Mine(v) /\ pc'[v] = pc[v] /\ branch'[v] = branch[v],
         \A u \in Tasks \ {t} : row'[u] = row[u],
         meddled' = meddled, open' = open, origin \subseteq origin', stranded \subseteq stranded',
         \A s \in Slots : local[s] \subseteq local'[s] \union (IF s = w[2] THEN {Name(w)} ELSE {}),
         t \notin meddled =>
           /\ Has(w)' = t => /\ row'[t].status \in {"running", "pending"}
                             /\ w[1] \in open => row'[t].status = "running"
           /\ Has(w)' = 0 /\ row'[t].status = "running" => t \in stranded'
           /\ row'[t].status \in {"pending", "running", "failed"} => row'[t].retries < MaxAttempts
           /\ row'[t].status = "completed" /\ row'[t].branch # 0 =>
                <<t, row'[t].branch>> \in origin' \union UNION {local'[s] : s \in Slots},
         pc'[w] \in {"start", "run", "push", "record", "failed"} =>
           /\ Name(w)' \in local'[w[2]]
           /\ Mine(w)' = t /\ (pc'[w] # "start" /\ t \notin meddled => row'[t].branch \in {0, branch'[w]})
  PROVE  Truth'
<1>1. 0 \notin Tasks /\ \A v \in Workers : Has(v) \in Tasks \union {0}
  BY HasIs DEF Inv, Sound, Tasks
<1>2. OneWorkerPerTask'
  BY <1>1 DEF Truth, OneWorkerPerTask
<1>3. Tried'
  BY DEF Truth, Tried
<1>4. Working'
  <2> SUFFICES ASSUME NEW v \in Workers, Has(v)' \in Tasks \ meddled
               PROVE  /\ row'[Has(v)'].status \in {"running", "pending"}
                      /\ v[1] \in open => row'[Has(v)'].status = "running"
    BY DEF Working
  <2>1. CASE v = w
    BY <1>1, <2>1
  <2>2. CASE v # w
    <3>1. Has(v)' = Has(v) /\ Has(v) # t
      BY <1>1, <2>2 DEF Truth, OneWorkerPerTask
    <3>2. QED
      BY <3>1 DEF Truth, Working
  <2>3. QED
    BY <2>1, <2>2
<1>5. Named'
  <2> SUFFICES ASSUME NEW v \in Workers, pc'[v] \in {"start", "run", "push", "record", "failed"}
               PROVE  /\ Name(v)' \in local'[v[2]]
                      /\ pc'[v] # "start" /\ Mine(v)' \notin meddled => row'[Mine(v)'].branch \in {0, branch'[v]}
    BY DEF Named
  <2>1. CASE v = w
    BY <2>1
  <2>2. CASE v # w
    <3>1. v[2] # w[2] /\ v[2] \in Slots
      BY <2>2, WorkerIs DEF Alone
    <3>2. Name(v)' = Name(v) /\ Name(v) \in local[v[2]]
      BY <2>2 DEF Truth, Named, Name
    <3>3. Has(v) = Mine(v) /\ Mine(v) \in Tasks
      BY <2>2, MineIs DEF Has, Inv, Sound
    <3>4. Mine(v) # t \/ t \in meddled
      BY <1>1, <2>2, <3>3 DEF Truth, OneWorkerPerTask
    <3>5. pc[v] # "start" /\ Mine(v) \notin meddled => row'[Mine(v)].branch \in {0, branch[v]}
      BY <2>2, <3>3, <3>4 DEF Truth, Named
    <3>6. QED
      BY <2>2, <3>1, <3>2, <3>5
  <2>3. QED
    BY <2>1, <2>2
<1>6. Attended'
  <2> SUFFICES ASSUME NEW u \in Tasks, row'[u].status = "running", u \notin stranded' \union meddled
               PROVE  u \in Busy'
    BY DEF Attended
  <2>1. CASE u = t
    BY <1>1, <2>1 DEF Busy
  <2>2. CASE u # t
    <3>1. u \in Busy
      BY <2>2 DEF Truth, Attended
    <3>2. PICK v \in Workers : Has(v) = u
      BY <3>1, BusyIs
    <3>3. QED
      BY <1>1, <2>2, <3>2 DEF Busy
  <2>3. QED
    BY <2>1, <2>2
<1>7. CompletedIsThere'
  <2> SUFFICES ASSUME NEW u \in Tasks, row'[u].status = "completed", row'[u].branch # 0, u \notin meddled
               PROVE  <<u, row'[u].branch>> \in origin' \union UNION {local'[s] : s \in Slots}
    BY DEF CompletedIsThere
  <2>1. CASE u = t
    BY <2>1
  <2>2. CASE u # t
    <3>1. row'[u] = row[u]
      BY <2>2
    <3>2. <<u, row[u].branch>> \in origin \union UNION {local[s] : s \in Slots}
      BY <3>1 DEF Truth, CompletedIsThere
    <3>3. <<u, row[u].branch>> # Name(w)
      BY <1>1, <2>2 DEF Name, Has
    <3>4. QED
      BY <3>1, <3>2, <3>3
  <2>3. QED
    BY <2>1, <2>2
<1>8. QED
  BY <1>2, <1>3, <1>4, <1>5, <1>6, <1>7 DEF Truth

\* A step that changes neither the rows nor what the workers have.
LEMMA NothingMoves ==
  ASSUME Inv, Truth, UNCHANGED <<row, meddled, local>>, open' \subseteq open, origin \subseteq origin',
         stranded \subseteq stranded',
         \A w \in Workers : /\ Has(w)' = Has(w)
                            /\ pc'[w] \in {"start", "run", "push", "record", "failed"} =>
                                 pc'[w] = pc[w] /\ Mine(w)' = Mine(w) /\ branch'[w] = branch[w]
  PROVE  Truth'
<1>1. OneWorkerPerTask' /\ Tried' /\ Working'
  BY DEF Truth, OneWorkerPerTask, Tried, Working
<1>2. Named'
  BY DEF Truth, Named, Name
<1>3. Attended'
  <2> SUFFICES ASSUME NEW u \in Tasks, row[u].status = "running", u \notin stranded' \union meddled
               PROVE  u \in Busy'
    BY DEF Attended
  <2>1. PICK w \in Workers : Has(w) = u /\ u # 0
    BY BusyIs DEF Truth, Attended
  <2>2. QED
    BY <2>1 DEF Busy
<1>4. CompletedIsThere'
  BY DEF Truth, CompletedIsThere
<1>5. QED
  BY <1>1, <1>2, <1>3, <1>4 DEF Truth

LEMMA Leaves ==
  ASSUME Slate, NEW w \in Workers, NEW l \in {"off", "pick"}, Leave(w, l)
  PROVE  /\ Has(w)' = 0 /\ pc'[w] = l
         /\ \A v \in Workers \ {w} : Has(v)' = Has(v) /\ Mine(v)' = Mine(v) /\ pc'[v] = pc[v] /\ branch'[v] = branch[v]
<1>1. /\ pc' = [pc EXCEPT ![w] = l] /\ task' = [task EXCEPT ![w] = NoTask]
      /\ branch' = [branch EXCEPT ![w] = 0]
  BY DEF Leave, Goto
<1>2. QED
  BY <1>1, NoTaskIs DEF Slate, OwnOK, Has, Mine

LEMMA Stays ==
  ASSUME Slate, NEW w \in Workers,
         NEW l \in {"prepare", "branch", "start", "run", "push", "record", "failed", "closing", "done"},
         pc' = [pc EXCEPT ![w] = l], UNCHANGED task, \A v \in Workers \ {w} : branch'[v] = branch[v]
  PROVE  /\ Has(w)' = (IF l = "done" THEN 0 ELSE Mine(w)) /\ Mine(w)' = Mine(w) /\ pc'[w] = l
         /\ Name(w)' = <<Mine(w), branch'[w]>>
         /\ \A v \in Workers \ {w} : Has(v)' = Has(v) /\ Mine(v)' = Mine(v) /\ pc'[v] = pc[v] /\ branch'[v] = branch[v]
BY DEF Slate, OwnOK, Has, Mine, Name

\* The row of a task that a worker has, as the worker leaves it.
LEMMA WriteIs ==
  ASSUME Inv, Truth, NEW w \in Workers, NEW t \in Tasks, Has(w) = t, NEW r,
         Conclude(t, r) \/ Mark(t, r)
  PROVE  /\ \A u \in Tasks \ {t} : row'[u] = row[u]
         /\ meddled' = meddled
         /\ t \notin meddled => row'[t] = r
<1>1. t \notin meddled => Present(t)
  BY DEF Truth, Working, Present
<1>2. QED
  BY <1>1 DEF Conclude, Mark, Write, Inv, Sound, TableOK, BacklogTypeOK

LEMMA ReleaseIs ==
  ASSUME Inv, NEW t \in Tasks, Release(t)
  PROVE  /\ \A u \in Tasks \ {t} : row'[u] = row[u]
         /\ meddled' = meddled
         /\ row'[t].retries = row[t].retries /\ row'[t].branch \in {0, row[t].branch}
         /\ row[t].status = "running" => row'[t].status = "pending"
         /\ row[t].status # "running" => row'[t] = row[t]
<1>1. row[t] \in Row
  BY DEF Inv, Sound, TableOK, BacklogTypeOK
<1>2. row' = IF row[t].status = "running"
               THEN [row EXCEPT ![t] = [row[t] EXCEPT !.status = "pending", !.branch = 0]] ELSE row
  BY DEF Release, Inv, Sound, TableOK, BacklogTypeOK
<1>3. QED
  BY <1>1, <1>2 DEF Release, Inv, Sound, TableOK, BacklogTypeOK, Row

\* The row of a task after its worker has given it back.
LEMMA GivenBack ==
  ASSUME Alone, Inv, Inv', Truth, NEW w \in Workers, NEW t \in Tasks, Has(w) = t, Has(w)' = 0, Release(t),
         \A v \in Workers \ {w} : Has(v)' = Has(v) /\ Mine(v)' = Mine(v) /\ pc'[v] = pc[v] /\ branch'[v] = branch[v],
         pc'[w] \notin {"start", "run", "push", "record", "failed"},
         UNCHANGED <<open, local, stranded>>, origin \subseteq origin'
  PROVE  Truth'
<1>1. /\ \A u \in Tasks \ {t} : row'[u] = row[u]
      /\ meddled' = meddled
      /\ row'[t].retries = row[t].retries
      /\ row[t].status = "running" => row'[t].status = "pending"
      /\ row[t].status # "running" => row'[t] = row[t]
  BY ReleaseIs
<1>2. t \notin meddled => row[t].status \in {"running", "pending"} /\ row[t].retries < MaxAttempts
  BY DEF Truth, Working, Tried
<1>3. t \notin meddled => row'[t].status = "pending" /\ row'[t].retries < MaxAttempts
  BY <1>1, <1>2
<1>4. 0 # t
  BY DEF Tasks
<1>5. QED
  BY <1>1, <1>3, <1>4, OwnTaskKeeps

LEMMA PickTruth ==
  ASSUME Alone, Inv, Truth, NEW w \in Workers, Pick(w) PROVE Truth'
<1>1. PICK t \in Tasks :
        /\ Playable(t) /\ Reserve(t)
        /\ task' = [task EXCEPT ![w] = [id |-> t, retries |-> row[t].retries,
                                        branch |-> row[t].branch, keep |-> row[t].keep]]
  BY DEF Pick, Reservable
<1>2. /\ pc[w] = "pick" /\ pc' = [pc EXCEPT ![w] = "choose"] /\ w[1] \in open
      /\ UNCHANGED <<open, local, branch, stranded>>
  BY DEF Pick, Goto
<1>3. /\ row' = [row EXCEPT ![t] = [row[t] EXCEPT !.status = "running"]] /\ row[t] \in Row
      /\ UNCHANGED <<meddled, origin>>
  BY <1>1 DEF Reserve, Inv, Sound, TableOK, BacklogTypeOK
<1>4. /\ \A u \in Tasks \ {t} : row'[u] = row[u]
      /\ row'[t].status = "running" /\ row'[t].retries = row[t].retries /\ row'[t].branch = row[t].branch
  BY <1>3 DEF Row, Inv, Sound, TableOK, BacklogTypeOK
<1>5. /\ Has(w) = 0 /\ Has(w)' = t /\ pc'[w] = "choose"
      /\ \A v \in Workers \ {w} : Has(v)' = Has(v) /\ Mine(v)' = Mine(v) /\ pc'[v] = pc[v] /\ Name(v)' = Name(v)
  BY <1>1, <1>2 DEF Inv, Sound, Slate, OwnOK, Desk, Has, Mine, Name
<1>6. \A v \in Workers : Has(v) = t => t \in meddled
  BY <1>1, <1>2, WorkerIs DEF Playable, Alone, Truth, Working
<1>7. 0 \notin Tasks /\ \A v \in Workers : Has(v) \in Tasks \union {0}
  BY HasIs DEF Inv, Sound, Tasks
<1>8. OneWorkerPerTask'
  BY <1>3, <1>5, <1>6 DEF Truth, OneWorkerPerTask
<1>9. Tried'
  BY <1>1, <1>3, <1>4 DEF Truth, Tried, Playable
<1>10. Working'
  BY <1>2, <1>3, <1>4, <1>5, <1>6 DEF Truth, Working
<1>11. Named'
  <2> SUFFICES ASSUME NEW v \in Workers, pc'[v] \in {"start", "run", "push", "record", "failed"}
               PROVE  /\ Name(v)' \in local[v[2]]
                      /\ pc'[v] # "start" /\ Mine(v)' \notin meddled => row'[Mine(v)'].branch \in {0, branch[v]}
    BY <1>2, <1>3 DEF Named
  <2>1. v # w
    BY <1>5
  <2>2. Mine(v) \in Tasks
    BY <1>5, <2>1, MineIs DEF Inv, Sound
  <2>3. row'[Mine(v)].branch = row[Mine(v)].branch
    BY <1>4, <2>2
  <2>4. QED
    BY <1>5, <2>1, <2>2, <2>3 DEF Truth, Named
<1>12. Attended'
  <2> SUFFICES ASSUME NEW u \in Tasks, row'[u].status = "running", u \notin stranded \union meddled
               PROVE  u \in Busy'
    BY <1>2, <1>3 DEF Attended
  <2>1. \E v \in Workers : Has(v)' = u
    <3>1. CASE u = t
      BY <1>5, <3>1
    <3>2. CASE u # t
      <4>1. PICK v \in Workers : Has(v) = u
        BY <1>4, <3>2, BusyIs DEF Truth, Attended
      <4>2. QED
        BY <1>5, <1>7, <4>1
    <3>3. QED
      BY <3>1, <3>2
  <2>2. QED
    BY <1>7, <2>1 DEF Busy
<1>13. CompletedIsThere'
  BY <1>2, <1>3, <1>4 DEF Truth, CompletedIsThere
<1>14. QED
  BY <1>8, <1>9, <1>10, <1>11, <1>12, <1>13 DEF Truth

LEMMA EarlyTruth ==
  ASSUME Alone, Inv, Inv', Truth, NEW w \in Workers,
         Stop(w) \/ Pick(w) \/ AlreadyDelivered(w) \/ Serve(w) \/ SetAside(w) \/ NoneFree(w)
  PROVE  Truth'
<1>1. Slate
  BY DEF Inv, Sound
<1>2. CASE Stop(w)
  <2>1. pc' = [pc EXCEPT ![w] = "off"] /\ pc[w] = "pick" /\ UNCHANGED <<task, branch>>
    BY <1>2 DEF Stop, Goto
  <2>2. \A v \in Workers : /\ Has(v)' = Has(v)
                           /\ pc'[v] \in {"start", "run", "push", "record", "failed"} => pc'[v] = pc[v]
                           /\ Mine(v)' = Mine(v) /\ branch'[v] = branch[v]
    BY <1>1, <2>1 DEF Slate, OwnOK, Desk, Has, Mine
  <2>3. QED
    BY <1>2, <2>1, <2>2, NothingMoves DEF Stop, shared
<1>3. CASE AlreadyDelivered(w)
  <2> DEFINE t == Mine(w)
             r == [row[t] EXCEPT !.status = "abandoned", !.keep = FALSE]
  <2>1. t \in Tasks /\ Has(w) = t
    BY <1>1, <1>3, MineIs DEF AlreadyDelivered, Has
  <2>2. /\ Has(w)' = 0 /\ pc'[w] = "pick"
        /\ \A v \in Workers \ {w} : Has(v)' = Has(v) /\ Mine(v)' = Mine(v) /\ pc'[v] = pc[v] /\ branch'[v] = branch[v]
    BY <1>1, <1>3, Leaves DEF AlreadyDelivered
  <2>3. Conclude(t, r)
    BY <1>3 DEF AlreadyDelivered
  <2>4. r.status = "abandoned"
    BY <2>1 DEF Inv, Sound, TableOK, BacklogTypeOK, Row
  <2> HIDE DEF t, r
  <2>5. /\ \A u \in Tasks \ {t} : row'[u] = row[u]
        /\ meddled' = meddled /\ (t \notin meddled => row'[t] = r)
    BY <2>1, <2>3, WriteIs
  <2>6. 0 # t
    BY <2>1 DEF Tasks
  <2>7. UNCHANGED <<open, local, origin, stranded>>
    BY <1>3 DEF AlreadyDelivered
  <2>8. QED
    BY <2>1, <2>2, <2>4, <2>5, <2>6, <2>7, OwnTaskKeeps
<1>4. CASE Serve(w)
  <2>1. pc' = [pc EXCEPT ![w] = "prepare"] /\ pc[w] = "choose" /\ UNCHANGED <<task, branch>>
    BY <1>4 DEF Serve, Goto
  <2>2. \A v \in Workers : /\ Has(v)' = Has(v)
                           /\ pc'[v] \in {"start", "run", "push", "record", "failed"} => pc'[v] = pc[v]
                           /\ Mine(v)' = Mine(v) /\ branch'[v] = branch[v]
    BY <1>1, <2>1 DEF Slate, OwnOK, Has, Mine
  <2>3. QED
    BY <1>4, <2>1, <2>2, NothingMoves DEF Serve
<1>5. CASE SetAside(w) \/ NoneFree(w)
  <2>1. Mine(w) \in Tasks /\ Has(w) = Mine(w) /\ Release(Mine(w)) /\ UNCHANGED <<open, local, origin, stranded>>
    BY <1>1, <1>5, MineIs DEF SetAside, NoneFree, Has
  <2>2. PICK l \in {"off", "pick"} : Leave(w, l)
    BY <1>5 DEF SetAside, NoneFree, AfterAside
  <2>3. /\ Has(w)' = 0 /\ pc'[w] = l
        /\ \A v \in Workers \ {w} : Has(v)' = Has(v) /\ Mine(v)' = Mine(v) /\ pc'[v] = pc[v] /\ branch'[v] = branch[v]
    BY <1>1, <2>2, Leaves
  <2>4. QED
    BY <2>1, <2>3, GivenBack
<1>6. QED
  BY <1>2, <1>3, <1>4, <1>5, PickTruth

\* A failure that counts leaves an attempt, or abandons the task.
LEMMA FailureCounts ==
  ASSUME Inv, NEW w \in Workers, Mine(w) \in Tasks, NEW keep
  PROVE  LET r == Failure(w, keep) IN
           /\ r.status \in {"abandoned", "failed"}
           /\ r.status = "failed" => r.retries < MaxAttempts
<1>1. row[Mine(w)] \in Row /\ task[w].retries + 1 \in Nat /\ MaxAttempts \in Nat
  BY BacklogConstants DEF Inv, Sound, TableOK, BacklogTypeOK, Slate, OwnOK, Held
<1>2. QED
  BY <1>1 DEF Failure, Row

LEMMA StartTruth ==
  ASSUME Alone, Inv, Inv', Truth, NEW w \in Workers, Begin(w) \/ Prepare(w) \/ Start(w)
  PROVE  Truth'
<1> DEFINE t == Mine(w)
<1>1. Slate /\ t \in Tasks /\ Has(w) = t /\ 0 # t
  <2>1. pc[w] \in {"prepare", "branch", "start"} /\ Slate
    BY DEF Inv, Sound, Begin, Prepare, Start
  <2>2. t \in Tasks /\ Has(w) = t
    BY <2>1, MineIs DEF Has
  <2>3. QED
    BY <2>1, <2>2 DEF Tasks
<1>2. t \notin meddled => /\ row[t].status \in {"running", "pending"} /\ row[t].retries < MaxAttempts
                          /\ w[1] \in open => row[t].status = "running"
  BY <1>1 DEF Truth, Tried, Working
<1>3. CASE Begin(w)
  <2> DEFINE r == [row[t] EXCEPT !.status = "running"]
  <2>1. /\ Mark(t, r) /\ pc' = [pc EXCEPT ![w] = "branch"]
        /\ UNCHANGED <<task, branch, open, local, origin, stranded>>
    BY <1>3 DEF Begin, Goto, shared
  <2>2. /\ Has(w)' = t /\ pc'[w] = "branch"
        /\ \A v \in Workers \ {w} : Has(v)' = Has(v) /\ Mine(v)' = Mine(v) /\ pc'[v] = pc[v] /\ branch'[v] = branch[v]
    BY <1>1, <2>1, Stays
  <2>3. r.status = "running" /\ r.retries = row[t].retries
    BY <1>1 DEF Inv, Sound, TableOK, BacklogTypeOK, Row
  <2> HIDE DEF t, r
  <2>4. /\ \A u \in Tasks \ {t} : row'[u] = row[u]
        /\ meddled' = meddled /\ (t \notin meddled => row'[t] = r)
    BY <1>1, <2>1, WriteIs
  <2>5. QED
    BY <1>1, <1>2, <2>1, <2>2, <2>3, <2>4, OwnTaskKeeps
<1>4. CASE Prepare(w)
  <2>1. PICK n : /\ branch' = [branch EXCEPT ![w] = n]
                 /\ local' = [local EXCEPT ![w[2]] = @ \union {<<t, n>>}]
    BY <1>4 DEF Prepare
  <2>2. pc' = [pc EXCEPT ![w] = "start"] /\ UNCHANGED <<row, meddled, task, open, origin, stranded>>
    BY <1>4 DEF Prepare, Goto
  <2>3. /\ Has(w)' = t /\ Mine(w)' = t /\ Name(w)' = <<t, branch'[w]>> /\ branch'[w] = n /\ pc'[w] = "start"
        /\ \A v \in Workers \ {w} : Has(v)' = Has(v) /\ Mine(v)' = Mine(v) /\ pc'[v] = pc[v] /\ branch'[v] = branch[v]
    <3>1. branch'[w] = n /\ \A v \in Workers \ {w} : branch'[v] = branch[v]
      BY <1>1, <2>1 DEF Slate, OwnOK
    <3>2. QED
      BY <1>1, <2>2, <3>1, Stays
  <2>4. \A s \in Slots : local[s] \subseteq local'[s]
    BY <2>1 DEF Inv, Sound, RestOK
  <2>5. <<t, n>> \in local'[w[2]]
    BY <2>1, WorkerIs DEF Inv, Sound, RestOK
  <2> HIDE DEF t
  <2>6. QED
    BY <1>1, <1>2, <2>2, <2>3, <2>4, <2>5, OwnTaskKeeps
<1>5. CASE Start(w)
  <2>1. /\ Mark(t, Started(w, branch[w])) /\ pc' = [pc EXCEPT ![w] = "run"] /\ pc[w] = "start"
        /\ UNCHANGED <<task, branch, open, local, origin, stranded>>
    BY <1>5 DEF Start, Goto, shared
  <2>2. /\ Has(w)' = t /\ Mine(w)' = t /\ Name(w)' = Name(w) /\ pc'[w] = "run"
        /\ \A v \in Workers \ {w} : Has(v)' = Has(v) /\ Mine(v)' = Mine(v) /\ pc'[v] = pc[v] /\ branch'[v] = branch[v]
    <3>1. Name(w)' = Name(w)
      BY <2>1 DEF Name, Mine
    <3>2. QED
      BY <1>1, <2>1, <3>1, Stays
  <2>3. /\ \A u \in Tasks \ {t} : row'[u] = row[u]
        /\ meddled' = meddled /\ (t \notin meddled => row'[t] = Started(w, branch[w]))
    BY <1>1, <2>1, WriteIs
  <2>4. row[t] \in Row /\ branch[w] \in Branch
    BY <1>1 DEF Inv, Sound, TableOK, BacklogTypeOK, Slate, OwnOK
  <2>5. /\ Started(w, branch[w]).status = "running" /\ Started(w, branch[w]).branch = branch[w]
        /\ Started(w, branch[w]).retries = row[t].retries
    BY <2>4 DEF Started, Row
  <2>6. Name(w) \in local[w[2]]
    BY <2>1 DEF Truth, Named
  <2> HIDE DEF t
  <2>7. t \notin meddled => /\ row'[t].status = "running" /\ row'[t].branch = branch'[w]
                            /\ row'[t].retries < MaxAttempts
    BY <1>2, <2>1, <2>3, <2>5
  <2>8. QED
    BY <1>1, <2>1, <2>2, <2>3, <2>6, <2>7, OwnTaskKeeps
<1>6. QED
  BY <1>3, <1>4, <1>5

LEMMA StartFails ==
  ASSUME Alone, Inv, Inv', Truth, NEW w \in Workers, PrepareFails(w) \/ WorkerDies(w)
  PROVE  Truth'
<1> DEFINE t == Mine(w)
<1>1. Slate /\ t \in Tasks /\ Has(w) = t /\ 0 # t
  <2>1. pc[w] \in {"choose", "prepare", "branch", "start", "run"} /\ Slate
    BY DEF Inv, Sound, PrepareFails, WorkerDies
  <2>2. t \in Tasks /\ Has(w) = t
    BY <2>1, MineIs DEF Has
  <2>3. QED
    BY <2>1, <2>2 DEF Tasks
<1>2. CASE PrepareFails(w)
  <2>1. Conclude(t, Failure(w, FALSE)) /\ pc' = [pc EXCEPT ![w] = "done"] /\ UNCHANGED <<task, branch, open, local, origin, stranded>>
    BY <1>2 DEF PrepareFails, Goto, shared
  <2>2. /\ Has(w)' = 0 /\ pc'[w] = "done"
        /\ \A v \in Workers \ {w} : Has(v)' = Has(v) /\ Mine(v)' = Mine(v) /\ pc'[v] = pc[v] /\ branch'[v] = branch[v]
    BY <1>1, <2>1, Stays
  <2>3. /\ \A u \in Tasks \ {t} : row'[u] = row[u]
        /\ meddled' = meddled /\ (t \notin meddled => row'[t] = Failure(w, FALSE))
    BY <1>1, <2>1, WriteIs
  <2>4. /\ Failure(w, FALSE).status \in {"abandoned", "failed"}
        /\ Failure(w, FALSE).status = "failed" => Failure(w, FALSE).retries < MaxAttempts
    BY <1>1, FailureCounts
  <2> HIDE DEF t
  <2>5. QED
    BY <1>1, <2>1, <2>2, <2>3, <2>4, OwnTaskKeeps
<1>3. CASE WorkerDies(w)
  <2>1. Leave(w, "off") /\ stranded' = stranded \union {t} /\ UNCHANGED <<row, meddled, open, local, origin>>
    BY <1>3 DEF WorkerDies
  <2>2. /\ Has(w)' = 0 /\ pc'[w] = "off"
        /\ \A v \in Workers \ {w} : Has(v)' = Has(v) /\ Mine(v)' = Mine(v) /\ pc'[v] = pc[v] /\ branch'[v] = branch[v]
    BY <1>1, <2>1, Leaves
  <2>3. t \notin meddled => row[t].status \in {"running", "pending"} /\ row[t].retries < MaxAttempts
    BY <1>1 DEF Truth, Tried, Working
  <2> HIDE DEF t
  <2>4. QED
    BY <1>1, <2>1, <2>2, <2>3, OwnTaskKeeps
<1>4. QED
  BY <1>2, <1>3

LEMMA RunTruth ==
  ASSUME Alone, Inv, Inv', Truth, NEW w \in Workers,
         RunReturns(w) \/ RunRaises(w) \/ Push(w) \/ Record(w) \/ RecordRaises(w)
  PROVE  Truth'
<1> DEFINE t == Mine(w)
<1>1. /\ pc[w] \in {"run", "push", "record"} /\ Slate
      /\ UNCHANGED <<task, branch, open, local, stranded>>
  BY DEF Inv, Sound, RunReturns, RunRaises, Push, Record, RecordRaises, shared
<1>2. t \in Tasks /\ Has(w) = t /\ 0 # t
  <2>1. t \in Tasks /\ Has(w) = t
    BY <1>1, MineIs DEF Has
  <2>2. QED
    BY <2>1 DEF Tasks
<1>3. /\ Name(w) \in local[w[2]]
      /\ t \notin meddled => /\ row[t].status \in {"running", "pending"} /\ row[t].retries < MaxAttempts
                             /\ w[1] \in open => row[t].status = "running"
                             /\ row[t].branch \in {0, branch[w]}
  BY <1>1, <1>2 DEF Truth, Named, Tried, Working
<1>4. CASE RunReturns(w) \/ RunRaises(w) \/ Push(w) \/ RecordRaises(w)
  <2>1. PICK l \in {"push", "record", "failed"} : pc' = [pc EXCEPT ![w] = l]
    BY <1>4 DEF RunReturns, RunRaises, Push, RecordRaises, Goto
  <2>2. UNCHANGED <<row, meddled>> /\ origin \subseteq origin'
    BY <1>4 DEF RunReturns, RunRaises, Push, RecordRaises, Pushed
  <2>3. /\ Has(w)' = t /\ Mine(w)' = t /\ Name(w)' = Name(w)
        /\ \A v \in Workers \ {w} : Has(v)' = Has(v) /\ Mine(v)' = Mine(v) /\ pc'[v] = pc[v] /\ branch'[v] = branch[v]
    <3>1. Name(w)' = Name(w)
      BY <1>1 DEF Name, Mine
    <3>2. QED
      BY <1>1, <2>1, <3>1, Stays
  <2> HIDE DEF t
  <2>4. QED
    BY <1>1, <1>2, <1>3, <2>2, <2>3, OwnTaskKeeps
<1>5. CASE Record(w)
  <2> DEFINE r == [row[t] EXCEPT !.status = "completed"]
  <2>1. Conclude(t, r) /\ pc' = [pc EXCEPT ![w] = "done"] /\ origin' = origin
    BY <1>5 DEF Record, Goto
  <2>2. /\ Has(w)' = 0 /\ pc'[w] = "done"
        /\ \A v \in Workers \ {w} : Has(v)' = Has(v) /\ Mine(v)' = Mine(v) /\ pc'[v] = pc[v] /\ branch'[v] = branch[v]
    BY <1>1, <2>1, Stays
  <2>3. r.status = "completed" /\ r.branch = row[t].branch
    BY <1>2 DEF Inv, Sound, TableOK, BacklogTypeOK, Row
  <2> HIDE DEF t, r
  <2>4. /\ \A u \in Tasks \ {t} : row'[u] = row[u]
        /\ meddled' = meddled /\ (t \notin meddled => row'[t] = r)
    BY <1>2, <2>1, WriteIs
  <2>5. w[2] \in Slots /\ Name(w) = <<t, branch[w]>>
    BY WorkerIs DEF Name, t
  <2>6. t \notin meddled /\ row'[t].branch # 0 =>
          <<t, row'[t].branch>> \in origin' \union UNION {local'[s] : s \in Slots}
    BY <1>1, <1>3, <2>3, <2>4, <2>5
  <2>7. QED
    BY <1>1, <1>2, <2>1, <2>2, <2>3, <2>4, <2>6, OwnTaskKeeps
<1>6. QED
  BY <1>4, <1>5

\* The window takes back a task whose row already says how it ended: another worker of the
\* cycle may have it, and goes on with it until the same window stops it.
LEMMA TakenBackLate ==
  ASSUME Alone, Inv, Inv', Truth, NEW w \in Workers, Interrupt(w), pc[w] = "done" PROVE Truth'
<1> DEFINE t == Mine(w)
<1>1. /\ w[1] \notin open /\ Slate /\ Leave(w, "off") /\ Release(t)
      /\ UNCHANGED <<origin, open, local, stranded>>
  BY DEF Interrupt, GiveBack, Inv, Sound
<1>2. t \in Tasks
  BY <1>1, MineIs
<1>3. /\ Has(w)' = 0 /\ Has(w) = 0 /\ pc'[w] = "off"
      /\ \A v \in Workers \ {w} : Has(v)' = Has(v) /\ Mine(v)' = Mine(v) /\ pc'[v] = pc[v] /\ branch'[v] = branch[v]
  BY <1>1, Leaves DEF Has
<1>4. /\ \A u \in Tasks \ {t} : row'[u] = row[u]
      /\ meddled' = meddled
      /\ row'[t].retries = row[t].retries /\ row'[t].branch \in {0, row[t].branch}
      /\ row[t].status = "running" => row'[t].status = "pending"
      /\ row[t].status # "running" => row'[t] = row[t]
  BY <1>1, <1>2, ReleaseIs
<1> HIDE DEF t
<1>5. \A v \in Workers : Has(v)' = Has(v) /\ v[1] \notin open
  BY <1>1, <1>3, WorkerIs DEF Alone
<1>6. OneWorkerPerTask'
  BY <1>4, <1>5 DEF Truth, OneWorkerPerTask
<1>7. Tried'
  BY <1>4 DEF Truth, Tried
<1>8. Working'
  <2> SUFFICES ASSUME NEW v \in Workers, Has(v) \in Tasks \ meddled
               PROVE  row'[Has(v)].status \in {"running", "pending"}
    BY <1>1, <1>4, <1>5 DEF Working
  <2>1. row[Has(v)].status \in {"running", "pending"}
    BY DEF Truth, Working
  <2>2. QED
    BY <1>4, <2>1
<1>9. Named'
  <2> SUFFICES ASSUME NEW v \in Workers, pc'[v] \in {"start", "run", "push", "record", "failed"}
               PROVE  /\ Name(v)' \in local[v[2]]
                      /\ pc'[v] # "start" /\ Mine(v)' \notin meddled => row'[Mine(v)'].branch \in {0, branch'[v]}
    BY <1>1, <1>4 DEF Named
  <2>1. v # w /\ Mine(v)' = Mine(v) /\ Name(v)' = Name(v) /\ branch'[v] = branch[v] /\ pc'[v] = pc[v]
    BY <1>3 DEF Name
  <2>2. Mine(v) \in Tasks
    BY <1>1, <2>1, MineIs
  <2>3. QED
    BY <1>4, <2>1, <2>2 DEF Truth, Named
<1>10. Attended'
  <2> SUFFICES ASSUME NEW u \in Tasks, row'[u].status = "running", u \notin stranded \union meddled
               PROVE  u \in Busy'
    BY <1>1, <1>4 DEF Attended
  <2>1. PICK v \in Workers : Has(v) = u /\ u # 0
    BY <1>4, BusyIs DEF Truth, Attended
  <2>2. QED
    BY <1>5, <2>1 DEF Busy
<1>11. CompletedIsThere'
  BY <1>1, <1>4 DEF Truth, CompletedIsThere
<1>12. QED
  BY <1>6, <1>7, <1>8, <1>9, <1>10, <1>11 DEF Truth

LEMMA LastTruth ==
  ASSUME Alone, Inv, Inv', Truth, NEW w \in Workers, Settle(w) \/ Close(w) \/ Finish(w) \/ Interrupt(w)
  PROVE  Truth'
<1> DEFINE t == Mine(w)
<1>1. t \in Tasks /\ 0 # t /\ Slate
  <2>1. Slate /\ t \in Tasks
    BY MineIs DEF Inv, Sound, Settle, Close, Finish, Interrupt
  <2>2. QED
    BY <2>1 DEF Tasks
<1>2. CASE Settle(w)
  <2>1. pc[w] = "failed" /\ pc' = [pc EXCEPT ![w] = "closing"] /\ UNCHANGED <<row, meddled, task, branch, open, stranded>>
    BY <1>2 DEF Settle, Goto
  <2>2. /\ Has(w)' = t /\ pc'[w] = "closing"
        /\ \A v \in Workers \ {w} : Has(v)' = Has(v) /\ Mine(v)' = Mine(v) /\ pc'[v] = pc[v] /\ branch'[v] = branch[v]
    BY <1>1, <2>1, Stays
  <2>3. /\ origin \subseteq origin'
        /\ \A s \in Slots : local[s] \subseteq local'[s] \union (IF s = w[2] THEN {Name(w)} ELSE {})
    BY <1>2 DEF Settle, Pushed, Inv, Sound, RestOK
  <2>4. Has(w) = t
    BY <2>1 DEF Has
  <2>5. t \notin meddled => /\ row[t].status \in {"running", "pending"} /\ row[t].retries < MaxAttempts
                            /\ w[1] \in open => row[t].status = "running"
    BY <1>1, <2>4 DEF Truth, Tried, Working
  <2> HIDE DEF t
  <2>6. QED
    BY <1>1, <2>1, <2>2, <2>3, <2>4, <2>5, OwnTaskKeeps
<1>3. CASE Close(w)
  <2>1. /\ pc[w] = "closing" /\ pc' = [pc EXCEPT ![w] = "done"]
        /\ UNCHANGED <<origin, local, task, branch, open, stranded>>
    BY <1>3 DEF Close, Goto, shared
  <2>2. /\ Has(w)' = 0 /\ Has(w) = t /\ pc'[w] = "done"
        /\ \A v \in Workers \ {w} : Has(v)' = Has(v) /\ Mine(v)' = Mine(v) /\ pc'[v] = pc[v] /\ branch'[v] = branch[v]
    BY <1>1, <2>1, Stays DEF Has
  <2>3. CASE Release(t)
    BY <1>1, <2>1, <2>2, <2>3, GivenBack
  <2>4. ASSUME NEW r, Conclude(t, r), r.status \in {"abandoned", "failed"},
               r.status = "failed" => r.retries < MaxAttempts
        PROVE  Truth'
    <3> HIDE DEF t
    <3>1. /\ \A u \in Tasks \ {t} : row'[u] = row[u]
          /\ meddled' = meddled /\ (t \notin meddled => row'[t] = r)
      BY <1>1, <2>2, <2>4, WriteIs
    <3>2. QED
      BY <1>1, <2>1, <2>2, <2>4, <3>1, OwnTaskKeeps
  <2>5. CASE ~Release(t)
    <3>1. PICK keep \in BOOLEAN :
            Conclude(t, IF Keeps(w) THEN [Failure(w, TRUE) EXCEPT !.branch = branch[w]] ELSE Failure(w, keep))
      BY <1>3, <2>5 DEF Close
    <3>2. /\ Failure(w, TRUE).status \in {"abandoned", "failed"} /\ Failure(w, keep).status \in {"abandoned", "failed"}
          /\ Failure(w, TRUE).status = "failed" => Failure(w, TRUE).retries < MaxAttempts
          /\ Failure(w, keep).status = "failed" => Failure(w, keep).retries < MaxAttempts
      BY <1>1, FailureCounts
    <3>3. CASE Keeps(w)
      <4> DEFINE r == [Failure(w, TRUE) EXCEPT !.branch = branch[w]]
      <4>1. Failure(w, TRUE) \in Row
        BY <1>1, FailureIs DEF Inv, Sound, Slate, OwnOK
      <4>2. r.status = Failure(w, TRUE).status /\ r.retries = Failure(w, TRUE).retries
        BY <4>1 DEF Row
      <4>3. Conclude(t, r)
        BY <3>1, <3>3
      <4> HIDE DEF r
      <4>4. QED
        BY <2>4, <3>2, <4>2, <4>3
    <3>4. CASE ~Keeps(w)
      BY <2>4, <3>1, <3>2, <3>4
    <3>5. QED
      BY <3>3, <3>4
  <2>6. QED
    BY <2>3, <2>5
<1>4. CASE Finish(w)
  <2>1. pc[w] = "done" /\ UNCHANGED <<row, meddled, local, origin, open, stranded>> /\ \E l \in {"off", "pick"} : Leave(w, l)
    BY <1>4 DEF Finish, AfterAside
  <2>2. /\ Has(w)' = 0 /\ Has(w) = 0 /\ pc'[w] \in {"off", "pick"}
        /\ \A v \in Workers \ {w} : Has(v)' = Has(v) /\ Mine(v)' = Mine(v) /\ pc'[v] = pc[v] /\ branch'[v] = branch[v]
    BY <1>1, <2>1, Leaves DEF Has
  <2>3. QED
    BY <2>1, <2>2, NothingMoves
<1>5. CASE Interrupt(w)
  <2>1. CASE pc[w] = "done"
    BY <1>5, <2>1, TakenBackLate
  <2>2. CASE pc[w] # "done"
    <3>1. Leave(w, "off") /\ Release(t) /\ UNCHANGED <<open, local, stranded>> /\ origin \subseteq origin' /\ Has(w) = t
      BY <1>5, <2>2 DEF Interrupt, GiveBack, Pushed, Has
    <3>2. /\ Has(w)' = 0 /\ pc'[w] = "off"
          /\ \A v \in Workers \ {w} : Has(v)' = Has(v) /\ Mine(v)' = Mine(v) /\ pc'[v] = pc[v] /\ branch'[v] = branch[v]
      BY <1>1, <3>1, Leaves
    <3> HIDE DEF t
    <3>3. QED
      BY <1>1, <3>1, <3>2, GivenBack
  <2>3. QED
    BY <2>1, <2>2
<1>6. QED
  BY <1>2, <1>3, <1>4, <1>5

\* A step of the user on one task: a worker that has it no longer answers for it.
LEMMA TouchTruth ==
  ASSUME Inv, Truth, NEW t \in Tasks,
         \A u \in Tasks \ {t} : row'[u] = row[u],
         meddled \subseteq meddled', meddled' \subseteq meddled \union {t}, t \in Busy => t \in meddled',
         UNCHANGED <<pc, task, branch, open, local, origin, stranded>>,
         row'[t].status # "running",
         row'[t].status \in {"pending", "failed"} => row'[t].retries < MaxAttempts,
         row'[t].status = "completed" => row'[t].branch = 0
  PROVE  Truth'
<1>1. \A v \in Workers : Has(v)' = Has(v) /\ Mine(v)' = Mine(v) /\ Name(v)' = Name(v)
  BY DEF Has, Mine, Name
<1>2. \A v \in Workers : Has(v) = t => t \in meddled'
  BY BusyIs DEF Tasks
<1>3. OneWorkerPerTask'
  BY <1>1 DEF Truth, OneWorkerPerTask
<1>4. Tried'
  BY DEF Truth, Tried
<1>5. Working'
  <2> SUFFICES ASSUME NEW v \in Workers, Has(v) \in Tasks \ meddled'
               PROVE  /\ row'[Has(v)].status \in {"running", "pending"}
                      /\ v[1] \in open => row'[Has(v)].status = "running"
    BY <1>1 DEF Working
  <2>1. QED
    BY <1>2 DEF Truth, Working
<1>6. Named'
  <2> SUFFICES ASSUME NEW v \in Workers, pc[v] \in {"start", "run", "push", "record", "failed"}
               PROVE  /\ Name(v) \in local[v[2]]
                      /\ pc[v] # "start" /\ Mine(v) \notin meddled' => row'[Mine(v)].branch \in {0, branch[v]}
    BY <1>1 DEF Named
  <2>1. Has(v) = Mine(v) /\ Mine(v) \in Tasks
    BY MineIs DEF Has, Inv, Sound
  <2>2. QED
    BY <1>2, <2>1 DEF Truth, Named
<1>7. Attended'
  <2> SUFFICES ASSUME NEW u \in Tasks, row'[u].status = "running", u \notin stranded \union meddled
               PROVE  u \in Busy'
    BY DEF Attended
  <2>1. PICK v \in Workers : Has(v) = u /\ u # 0
    BY BusyIs DEF Truth, Attended
  <2>2. QED
    BY <1>1, <2>1 DEF Busy
<1>8. CompletedIsThere'
  BY DEF Truth, CompletedIsThere
<1>9. QED
  BY <1>3, <1>4, <1>5, <1>6, <1>7, <1>8 DEF Truth

LEMMA UserTruth == ASSUME Inv, Inv', Truth, User PROVE Truth'
<1>1. UNCHANGED <<pc, task, branch, open, local, stranded>> /\ 0 < MaxAttempts
  BY BacklogConstants DEF User, shared, own
<1>2. row \in [Tasks -> Row]
  BY DEF Inv, Sound, TableOK, BacklogTypeOK
<1>3. ASSUME NEW t \in Tasks, AddTask(t) PROVE Truth'
  <2>1. /\ \A u \in Tasks \ {t} : row'[u] = row[u]
        /\ row'[t] = NewRow /\ row[t].status = "absent" /\ UNCHANGED <<origin, meddled>>
    BY <1>2, <1>3 DEF AddTask
  <2>2. t \in Busy => t \in meddled
    BY <2>1, BusyIs DEF Truth, Working
  <2>3. NewRow.status = "pending" /\ NewRow.retries = 0
    BY DEF NewRow
  <2>4. QED
    BY <1>1, <2>1, <2>2, <2>3, TouchTruth
<1>4. ASSUME NEW t \in Tasks, Delete(t, Busy) PROVE Truth'
  <2>1. /\ \A u \in Tasks \ {t} : row'[u] = row[u]
        /\ row'[t] = [NewRow EXCEPT !.status = "deleted"] /\ UNCHANGED origin
    BY <1>2, <1>4 DEF Delete
  <2>2. meddled' = IF t \in Busy THEN meddled \union {t} ELSE meddled
    BY <1>4 DEF Delete, Meddle
  <2>3. row'[t].status = "deleted"
    BY <2>1 DEF NewRow
  <2>4. QED
    BY <1>1, <2>1, <2>2, <2>3, TouchTruth
<1>5. ASSUME NEW t \in Tasks, NEW v \in Verdicts, Ask(t, v) PROVE Truth'
  <2>1. UNCHANGED <<row, meddled, origin>>
    BY <1>5 DEF Ask
  <2>2. \A w \in Workers : Has(w)' = Has(w) /\ Mine(w)' = Mine(w)
    BY <1>1 DEF Has, Mine
  <2>3. QED
    BY <1>1, <2>1, <2>2, NothingMoves
<1>6. CASE Decide(Busy, Unstarted)
  <2>1. CASE UNCHANGED <<row, decided, early, meddled>>
    <3>1. UNCHANGED origin
      BY <1>6 DEF Decide
    <3>2. \A w \in Workers : Has(w)' = Has(w) /\ Mine(w)' = Mine(w)
      BY <1>1 DEF Has, Mine
    <3>3. QED
      BY <1>1, <2>1, <3>1, <3>2, NothingMoves
  <2>2. CASE ~UNCHANGED <<row, decided, early, meddled>>
    <3> DEFINE t == review.task
    <3>1. /\ row' = [row EXCEPT ![t] = Decision(row[t])] /\ Meddle(t, Busy)
          /\ UNCHANGED origin /\ review # NoReview
      BY <1>6, <2>2 DEF Decide
    <3>2. t \in Tasks /\ review.verdict \in Verdicts
      BY <3>1 DEF Inv, Sound, TableOK, BacklogTypeOK
    <3> DEFINE d == Decision(row[t])
    <3>3. /\ d.status # "running"
          /\ d.status \in {"pending", "failed"} => d.retries = 0
          /\ d.status = "completed" => d.branch = 0
      BY <1>2, <3>2 DEF Decision, Verdicts, Row
    <3> HIDE DEF d
    <3>4. (\A u \in Tasks \ {t} : row'[u] = row[u]) /\ row'[t] = d
      BY <1>2, <3>1, <3>2 DEF d
    <3>5. meddled' = IF t \in Busy THEN meddled \union {t} ELSE meddled
      BY <3>1 DEF Meddle
    <3> HIDE DEF t
    <3>6. QED
      BY <1>1, <3>1, <3>2, <3>3, <3>4, <3>5, TouchTruth
  <2>3. QED
    BY <2>1, <2>2
<1>7. QED
  BY <1>3, <1>4, <1>5, <1>6 DEF User

LEMMA TimeTruth == ASSUME Inv, Truth, Time PROVE Truth'
<1>1. UNCHANGED <<meddled, local, origin, stranded, task, pc, branch>> /\ open' \subseteq open
  BY DEF Time, FallsDue, CoolsDown, CloseWindow, shared, own
<1>2. \A w \in Workers : Has(w)' = Has(w) /\ Mine(w)' = Mine(w) /\ Name(w)' = Name(w)
  BY <1>1 DEF Has, Mine, Name
<1>3. \A t \in Tasks : /\ row'[t].status = row[t].status
                       /\ row'[t].retries = row[t].retries /\ row'[t].branch = row[t].branch
  <2>1. row \in [Tasks -> Row]
    BY DEF Inv, Sound, TableOK, BacklogTypeOK
  <2>2. UNCHANGED row \/ \E t \in Tasks : row' = [row EXCEPT ![t] = [row[t] EXCEPT !.due = TRUE]]
    BY <2>1 DEF Time, FallsDue, CoolsDown, CloseWindow
  <2>3. QED
    BY <2>1, <2>2 DEF Row
<1>4. OneWorkerPerTask' /\ Tried' /\ Working'
  BY <1>1, <1>2, <1>3 DEF Truth, OneWorkerPerTask, Tried, Working
<1>5. Named'
  <2>1. \A w \in Workers : pc[w] \in {"start", "run", "push", "record", "failed"} => Mine(w) \in Tasks
    BY MineIs DEF Inv, Sound
  <2>2. QED
    BY <1>1, <1>2, <1>3, <2>1 DEF Truth, Named
<1>6. Attended'
  <2> SUFFICES ASSUME NEW u \in Tasks, row[u].status = "running", u \notin stranded \union meddled
               PROVE  u \in Busy'
    BY <1>1, <1>3 DEF Attended
  <2>1. PICK w \in Workers : Has(w) = u /\ u # 0
    BY BusyIs DEF Truth, Attended
  <2>2. QED
    BY <1>2, <2>1 DEF Busy
<1>7. CompletedIsThere'
  BY <1>1, <1>3 DEF Truth, CompletedIsThere
<1>8. QED
  BY <1>4, <1>5, <1>6, <1>7 DEF Truth

\* The only cycle starts with all its workers off.
LEMMA CycleTruth == ASSUME Alone, Inv, Truth, NEW c \in Cycles, StartCycle(c) PROVE Truth'
<1>1. UNCHANGED <<row, meddled, local, origin, stranded, task, branch>>
  BY DEF StartCycle
<1>2. \A w \in Workers : pc[w] = "off" /\ pc'[w] \in {"off", "pick"}
  <2>1. \A w \in Workers : pc[w] = "off"
    BY WorkerIs DEF Alone, StartCycle
  <2>2. QED
    BY <2>1 DEF StartCycle
<1>3. \A w \in Workers : Has(w) = 0 /\ Has(w)' = 0
  BY <1>1, <1>2 DEF Inv, Sound, Slate, Desk, Has, Mine
<1>4. OneWorkerPerTask' /\ Tried' /\ Named'
  BY <1>1, <1>2, <1>3 DEF Truth, OneWorkerPerTask, Tried, Named
<1>5. Working'
  BY <1>3 DEF Working, Tasks
<1>6. Attended' /\ CompletedIsThere'
  BY <1>1, <1>3 DEF Truth, Attended, CompletedIsThere, Busy
<1>7. QED
  BY <1>4, <1>5, <1>6 DEF Truth

LEMMA CrashTruth == ASSUME Inv, Truth, Crash PROVE Truth'
<1>1. row \in [Tasks -> Row] /\ UNCHANGED <<meddled, local, origin>> /\ RecoverOrphans
  BY DEF Inv, Sound, TableOK, BacklogTypeOK, Crash
<1>2. \A w \in Workers : Has(w)' = 0 /\ pc'[w] = "off"
  BY DEF Crash, Has, Mine, NoTask
<1>3. \A t \in Tasks : /\ row'[t].status # "running"
                       /\ row'[t].retries = row[t].retries /\ row'[t].branch = row[t].branch
                       /\ \/ row'[t].status = row[t].status
                          \/ row[t].status = "running" /\ row'[t].status \in {"failed", "pending"}
  BY <1>1 DEF RecoverOrphans, Row
<1>4. OneWorkerPerTask' /\ Named' /\ Working'
  BY <1>2 DEF OneWorkerPerTask, Named, Working, Tasks
<1>5. Tried' /\ Attended' /\ CompletedIsThere'
  BY <1>1, <1>3 DEF Truth, Tried, Attended, CompletedIsThere
<1>6. QED
  BY <1>4, <1>5 DEF Truth

LEMMA TruthFirst == Init => Truth
<1> SUFFICES ASSUME Init PROVE Truth
  OBVIOUS
<1>1. \A t \in Tasks : row[t].status = "absent"
  BY DEF Init, BacklogInit, NewRow
<1>2. \A w \in Workers : pc[w] = "off" /\ Has(w) = 0
  BY DEF Init, Has, Mine, NoTask
<1>3. OneWorkerPerTask /\ Tried /\ Working
  BY <1>1, <1>2 DEF OneWorkerPerTask, Tried, Working, Tasks
<1>4. Named /\ Attended /\ CompletedIsThere
  BY <1>1, <1>2 DEF Named, Attended, CompletedIsThere
<1>5. QED
  BY <1>3, <1>4 DEF Truth

LEMMA TruthStep == ASSUME Alone, Inv, Inv', Truth, [Next]_vars PROVE Truth'
<1>1. ASSUME NEW w \in Workers, WorkerStep(w) PROVE Truth'
  BY <1>1, EarlyTruth, StartTruth, StartFails, RunTruth, LastTruth DEF WorkerStep
<1>2. CASE UNCHANGED vars
  <2>1. UNCHANGED <<row, meddled, local, open, origin, stranded, task, pc, branch>>
    BY <1>2 DEF vars, shared, own
  <2>2. \A w \in Workers : Has(w)' = Has(w) /\ Mine(w)' = Mine(w)
    BY <2>1 DEF Has, Mine
  <2>3. QED
    BY <2>1, <2>2, NothingMoves
<1>3. QED
  BY <1>1, <1>2, UserTruth, TimeTruth, CycleTruth, CrashTruth DEF Next

LEMMA TruthGives == Inv /\ Truth => BacklogSound
<1> SUFFICES ASSUME Inv, Truth PROVE BacklogSound
  OBVIOUS
<1>1. NothingStuck
  BY DEF Truth, Tried, Attended, NothingStuck
<1>2. PaidOnce
  <2>1. \A w \in Workers : bill[w] \in 0 .. 1
    BY DEF Inv, Sound, Slate, OwnOK
  <2>2. QED
    BY <2>1 DEF Inv, Sound, Slate, Desk, PaidOnce
<1>3. QED
  BY <1>1, <1>2 DEF Truth, BacklogSound

\* With one cycle at a time, whatever the user decides and wherever the server dies or the
\* window closes: no task is played twice at once, none is left running without a worker, none
\* that failed has run out of attempts, a completed one has its branch, and a run is paid once.
\* With two cycles this is false, and TLC shows it (see the README).
THEOREM BacklogAlwaysSound == ASSUME Alone PROVE Spec => []BacklogSound
<1>1. Init => Inv /\ Truth
  BY Initially, TruthFirst
<1>2. Inv /\ Truth /\ [Next]_vars => Inv' /\ Truth'
  BY Inductive, TruthStep
<1>3. Inv /\ Truth => BacklogSound
  BY TruthGives
<1>4. QED
  BY <1>1, <1>2, <1>3, PTL DEF Spec
=============================================================================
