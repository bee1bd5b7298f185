--------------------------- MODULE ApprovalProofs ---------------------------
(***************************************************************************)
(* Theorems about the approval cycle, for every set of runs, sessions and  *)
(* engines, every set of faults and any number of restarts.                *)
(***************************************************************************)
EXTENDS Approval, TLAPS

LEMMA RequestIdType == \A r \in Runs : RequestId(r) \in Requests
  BY DEF Requests

LEMMA NamedValues ==
  /\ NoRow \in Rows
  /\ \A plan, b \in Runs \cup {None} :
       [plan |-> plan, branch |-> b, status |-> "pending"] \in Rows
  /\ {"absent", "running", "waiting_approval", "success", "error"} \subseteq SessionStatuses
  /\ Terminal \subseteq SessionStatuses
  /\ {"idle", "planning", "asking", "leaving", "ended", "lost"} \subseteq RunPhases
  /\ {"none", "done", "lost", "resume", "refusing", "replaying", "closing", "marking",
      "cancel", "cancelling"} \subseteq JobPhases
  /\ {"none", "ok", "absolved", "ko", "unmounted"} \subseteq Outcomes
  /\ {"none", "held"} \subseteq BranchFates
  BY DEF NoRow, Rows, Statuses, SessionStatuses, Terminal, RunPhases, LiveRuns, JobPhases,
         LiveJobs, Outcomes, BranchFates

LEMMA RowFields ==
  ASSUME NEW row \in Rows
  PROVE  /\ row.plan \in Runs \cup {None}
         /\ row.branch \in Runs \cup {None}
         /\ \A status \in Statuses : [row EXCEPT !.status = status] \in Rows
  BY DEF Rows

LEMMA RowUpdate ==
  ASSUME TypeOK, NEW id \in Requests, NEW status \in Statuses
  PROVE  [store EXCEPT ![id].status = status] \in [Requests -> Rows]
  BY RowFields DEF TypeOK

LEMMA FinalisedType ==
  ASSUME TypeOK, NEW b, NEW merge
  PROVE  Finalised(b, merge) \in [Runs -> BranchFates]
  BY DEF TypeOK, Finalised, BranchFates

LEMMA MergedOrRolledBackType ==
  ASSUME TypeOK, NEW b
  PROVE  /\ Finalised(b, TRUE) \in [Runs -> BranchFates]
         /\ Finalised(b, FALSE) \in [Runs -> BranchFates]
  BY DEF TypeOK, Finalised, BranchFates

LEMMA SessionUpdate ==
  ASSUME TypeOK, NEW s, NEW status \in SessionStatuses
  PROVE  [session EXCEPT ![s] = status] \in [Sessions -> SessionStatuses]
  BY DEF TypeOK

\* Every variable keeps its type.
THEOREM TypeCorrect == Spec => []TypeOK
<1>1. Init => TypeOK
  BY ApprovalConstants, NamedValues DEF Init, TypeOK
<1>2. TypeOK /\ [Next]_vars => TypeOK'
  <2> SUFFICES ASSUME TypeOK, [Next]_vars PROVE TypeOK'
    OBVIOUS
  <2> USE ApprovalConstants, RequestIdType, NamedValues DEF durable, observed
  <2>1. ASSUME NEW e \in Engines, StartRuns(e) PROVE TypeOK'
    BY <2>1 DEF TypeOK, StartRuns, RunsOf
  <2>2. ASSUME NEW r \in Runs, RunStep(r) PROVE TypeOK'
    <3>1. CASE FinishDirect(r)
      BY <3>1, FinalisedType DEF TypeOK, FinishDirect, LeaveBranch
    <3>2. CASE AskApproval(r)
      <4>1. courante[EngineOf[r]] \in Runs \cup {None}
        BY DEF TypeOK
      <4>2. QED
        BY <3>2, <4>1 DEF TypeOK, AskApproval
    <3>3. CASE Suspend(r)
      <4>1. branch' = branch \/ branch' = Finalised(r, TRUE)
        BY <3>3 DEF Suspend, LeaveBranch
      <4>2. Finalised(r, TRUE) \in [Runs -> BranchFates]
        BY MergedOrRolledBackType
      <4>3. branch' \in [Runs -> BranchFates]
        BY <4>1, <4>2 DEF TypeOK
      <4>4. QED
        BY <3>3, <4>3 DEF TypeOK, Suspend
    <3>4. CASE RecordEnd(r)
      <4>1. session' \in [Sessions -> SessionStatuses]
        BY <3>4, SessionUpdate DEF TypeOK, RecordEnd
      <4>2. QED
        BY <3>4, <4>1 DEF TypeOK, RecordEnd
    <3>5. QED
      BY <2>2, <3>1, <3>2, <3>3, <3>4 DEF RunStep
  <2>3. ASSUME NEW r \in Runs, Abort(r) PROVE TypeOK'
    <3>1. session' \in [Sessions -> SessionStatuses]
      BY <2>3, SessionUpdate DEF TypeOK, Abort
    <3>2. branch' \in [Runs -> BranchFates]
      <4>1. branch' = branch \/ branch' = Finalised(r, TRUE)
        BY <2>3 DEF Abort, LeaveBranch
      <4>2. Finalised(r, TRUE) \in [Runs -> BranchFates]
        BY MergedOrRolledBackType
      <4>3. QED
        BY <4>1, <4>2 DEF TypeOK
    <3>3. QED
      BY <2>3, <3>1, <3>2 DEF TypeOK, Abort
  <2>4. ASSUME NEW p \in Runs, JobStep(p) PROVE TypeOK'
    <3>1. CASE ResumeRefused(p)
      BY <3>1 DEF TypeOK, ResumeRefused
    <3>2. CASE ResumeUnreadable(p)
      <4>1. store' \in [Requests -> Rows]
        BY <3>2, RowUpdate DEF ResumeUnreadable, Statuses
      <4>2. QED
        BY <3>2, <4>1 DEF TypeOK, ResumeUnreadable
    <3>3. CASE ResumeAbandon(p)
      <4>1. session' \in [Sessions -> SessionStatuses]
        BY <3>3, SessionUpdate DEF ResumeAbandon, Close
      <4>2. QED
        BY <3>3, <4>1 DEF TypeOK, ResumeAbandon
    <3>4. CASE ResumeStart(p)
      <4>1. store[RequestId(p)].plan \in Runs \cup {None}
        BY RowFields DEF TypeOK
      <4>2. replays' \in [Runs -> Nat]
        <5> DEFINE plan == store[RequestId(p)].plan
        <5>1. replays' = [q \in Runs |-> IF q = plan THEN replays[q] + 1 ELSE replays[q]]
          BY <3>4 DEF TypeOK, ResumeStart
        <5>2. \A q \in Runs : replays[q] \in Nat
          BY DEF TypeOK
        <5> HIDE DEF plan
        <5>3. QED
          BY <5>1, <5>2
      <4>3. QED
        BY <3>4, <4>2 DEF TypeOK, ResumeStart
    <3>5. CASE ResumeClose(p)
      <4>1. session' \in [Sessions -> SessionStatuses]
        BY <3>5, SessionUpdate DEF ResumeClose, Close
      <4>2. QED
        BY <3>5, <4>1 DEF TypeOK, ResumeClose
    <3>6. CASE ResumeGit(p)
      BY <3>6, FinalisedType DEF TypeOK, ResumeGit
    <3>7. CASE ResumeMark(p)
      <4>1. store' \in [Requests -> Rows]
        BY <3>7, RowUpdate DEF ResumeMark, Verdict, Statuses
      <4>2. QED
        BY <3>7, <4>1 DEF TypeOK, ResumeMark, Verdict
    <3>8. CASE CancelClose(p)
      <4>1. session' \in [Sessions -> SessionStatuses]
        BY <3>8, SessionUpdate DEF CancelClose, Close
      <4>2. QED
        BY <3>8, <4>1 DEF TypeOK, CancelClose
    <3>9. CASE CancelGit(p)
      <4>1. branch' = branch \/ branch' = Finalised(loaded[p].branch, FALSE)
        BY <3>9 DEF CancelGit
      <4>2. Finalised(loaded[p].branch, FALSE) \in [Runs -> BranchFates]
        BY MergedOrRolledBackType
      <4>3. branch' \in [Runs -> BranchFates]
        BY <4>1, <4>2 DEF TypeOK
      <4>4. QED
        BY <3>9, <4>3 DEF TypeOK, CancelGit
    <3>10. QED
      BY <2>4, <3>1, <3>2, <3>3, <3>4, <3>5, <3>6, <3>7, <3>8, <3>9 DEF JobStep
  <2>5. ASSUME NEW s \in Sessions, ZombieSweep(s) PROVE TypeOK'
    BY <2>5 DEF TypeOK, ZombieSweep
  <2>6. ASSUME NEW id \in Requests, Refresh(id) PROVE TypeOK'
    <3>1. store[id].plan \in Runs \cup {None}
      BY RowFields DEF TypeOK
    <3>2. QED
      BY <2>6, <3>1 DEF TypeOK, Refresh
  <2>7. ASSUME NEW id \in Requests, NEW status \in {"approved", "rejected"},
               NEW task \in {"resume", "cancel"}, Decide(id, status, task)
        PROVE  TypeOK'
    <3>1. store' \in [Requests -> Rows]
      BY <2>7, RowUpdate DEF Decide, Decidable, Statuses
    <3>2. QED
      BY <2>7, <3>1 DEF TypeOK, Decide, Decidable
  <2>8. CASE Crash
    <3>1. crashes' \in 0 .. MaxCrashes
      BY <2>8 DEF TypeOK, Crash
    <3>2. QED
      BY <2>8, <3>1 DEF TypeOK, Crash
  <2>9. CASE UNCHANGED vars
    BY <2>9 DEF TypeOK, vars
  <2>10. QED
    BY <2>1, <2>2, <2>3, <2>4, <2>5, <2>6, <2>7, <2>8, <2>9 DEF Next, Approve, Reject
<1>3. QED
  BY <1>1, <1>2, PTL DEF Spec

-----------------------------------------------------------------------------
(* What the identifiers being unique buys.                                 *)

\* A step that leaves the row, the job and the history of a plan alone, and does
\* not bring its run back to planning, keeps the plan consistent.
LEMMA Frame ==
  ASSUME NEW r \in Runs, PlanConsistent(r),
         store'[RequestId(r)] = store[RequestId(r)],
         view'[RequestId(r)] = view[RequestId(r)],
         job'[r] = job[r], clicked'[r] = clicked[r], replays'[r] = replays[r],
         loaded'[r] = loaded[r],
         run'[r] \in {"idle", "planning"} => run[r] \in {"idle", "planning"}
  PROVE  PlanConsistent(r)'
  BY DEF PlanConsistent

LEMMA InitConsistent == Init => AllConsistent
<1> SUFFICES ASSUME Init, NEW r \in Runs PROVE RowsOwn /\ PlanConsistent(r)
  <2>1. ASSUME Runs = {} PROVE AllConsistent
    BY <2>1 DEF AllConsistent, RowsOwn, Requests
  <2>2. QED
    BY <2>1 DEF AllConsistent
<1>1. /\ store[RequestId(r)].plan = None /\ store[RequestId(r)].status = "absent"
      /\ view[RequestId(r)] = None
  BY RequestIdType DEF Init, NoRow
<1>2. job[r] = "none" /\ clicked[r] = "none" /\ replays[r] = 0
  BY DEF Init
<1>3. RowsOwn
  BY DEF Init, NoRow, RowsOwn
<1>4. QED
  BY <1>1, <1>2, <1>3 DEF PlanConsistent

\* A row only ever holds a plan of its request, and so does the interface.
LEMMA NextRowsOwn ==
  ASSUME TypeOK, RowsOwn, [Next]_vars
  PROVE  RowsOwn'
<1> SUFFICES ASSUME NEW id \in Requests
             PROVE  /\ store'[id].plan # None => RequestId(store'[id].plan) = id
                    /\ view'[id] # None => RequestId(view'[id]) = id
  BY DEF RowsOwn
<1> USE RequestIdType DEF durable, observed
<1>1. ASSUME store'[id].plan = store[id].plan, view'[id] = view[id]
      PROVE  /\ store'[id].plan # None => RequestId(store'[id].plan) = id
             /\ view'[id] # None => RequestId(view'[id]) = id
  BY <1>1 DEF RowsOwn
<1>2. ASSUME NEW q \in Runs, AskApproval(q) PROVE RowsOwn'
  BY <1>2 DEF AskApproval, RowsOwn, TypeOK
<1>3. ASSUME NEW i \in Requests, Refresh(i) PROVE RowsOwn'
  BY <1>3 DEF Refresh, RowsOwn, TypeOK
<1>4. ASSUME NEW i \in Requests, NEW status, NEW task, Decide(i, status, task) PROVE RowsOwn'
  BY <1>4 DEF Decide, RowsOwn, TypeOK, Rows
<1>5. ASSUME NEW p \in Runs, JobStep(p) PROVE RowsOwn'
  <2>1. \A i \in Requests : store'[i].plan = store[i].plan
    <3>1. CASE \E status : store' = [store EXCEPT ![RequestId(p)].status = status]
      BY <3>1 DEF TypeOK, Rows
    <3>2. CASE store' = store
      BY <3>2
    <3>3. QED
      BY <1>5, <3>1, <3>2 DEF JobStep, ResumeRefused, ResumeUnreadable, ResumeAbandon,
         ResumeStart, ResumeClose, ResumeGit, ResumeMark, CancelClose, CancelGit
  <2>2. view' = view
    BY <1>5 DEF JobStep, ResumeRefused, ResumeUnreadable, ResumeAbandon, ResumeStart, ResumeClose,
       ResumeGit, ResumeMark, CancelClose, CancelGit
  <2>3. QED
    BY <2>1, <2>2 DEF RowsOwn
<1>6. QED
  BY <1>1, <1>2, <1>3, <1>4, <1>5
     DEF Next, RunStep, Approve, Reject, StartRuns, FinishDirect, Suspend, RecordEnd, Abort,
         ZombieSweep, Crash, vars, RowsOwn

LEMMA NextConsistent ==
  ASSUME TypeOK, AllConsistent, [Next]_vars
  PROVE  AllConsistent'
<1>0. RowsOwn /\ RowsOwn'
  BY NextRowsOwn DEF AllConsistent
<1> SUFFICES ASSUME NEW r \in Runs, OwnsRequest(r) PROVE PlanConsistent(r)'
  BY <1>0 DEF AllConsistent, OwnsRequest
<1> USE RequestIdType DEF durable, observed
<1> DEFINE id == RequestId(r)
<1>1. PlanConsistent(r) /\ id \in Requests
  BY DEF AllConsistent
<1>2. ASSUME NEW q \in Runs, q # r
      PROVE  RequestId(q) # id
  BY <1>2 DEF OwnsRequest
<1>3. ASSUME NEW e \in Engines, StartRuns(e) PROVE PlanConsistent(r)'
  BY <1>1, <1>3, Frame DEF StartRuns, RunsOf, TypeOK
<1>4. ASSUME NEW q \in Runs, RunStep(q) PROVE PlanConsistent(r)'
  <2>1. CASE AskApproval(q) /\ q = r
    <3>1. store'[id].plan = r /\ store'[id].status = "pending"
      BY <1>1, <2>1 DEF AskApproval, TypeOK
    <3>2. run'[r] = "asking" /\ store[id].status = "absent"
      BY <1>1, <2>1 DEF AskApproval, PlanConsistent, TypeOK
    <3>3. view' = view /\ job' = job /\ clicked' = clicked /\ replays' = replays
      BY <2>1 DEF AskApproval
    <3>4. job[r] = "none" /\ clicked[r] = "none" /\ replays[r] = 0 /\ view[id] \in {None, r}
      BY <1>1, <3>2 DEF PlanConsistent
    <3>5. r # None
      BY ApprovalConstants
    <3>6. QED
      BY <3>1, <3>2, <3>3, <3>4, <3>5 DEF PlanConsistent
  <2>2. CASE AskApproval(q) /\ q # r
    <3>1. store'[id] = store[id]
      BY <1>1, <1>2, <2>2 DEF AskApproval, TypeOK
    <3>2. QED
      BY <1>1, <2>2, <3>1, Frame DEF AskApproval, TypeOK
  <2>3. CASE FinishDirect(q) \/ Suspend(q) \/ RecordEnd(q)
    BY <1>1, <2>3, Frame DEF FinishDirect, Suspend, RecordEnd, TypeOK
  <2>4. QED
    BY <1>4, <2>1, <2>2, <2>3 DEF RunStep
<1>5. ASSUME NEW q \in Runs, Abort(q) PROVE PlanConsistent(r)'
  BY <1>1, <1>5, Frame DEF Abort, TypeOK
<1>6. ASSUME NEW p \in Runs, JobStep(p), p # r PROVE PlanConsistent(r)'
  <2>1. store[RequestId(p)].plan # r
    BY <1>0, <1>2, <1>6, ApprovalConstants DEF RowsOwn
  <2>2. store'[id] = store[id]
    BY <1>1, <1>2, <1>6 DEF JobStep, ResumeRefused, ResumeUnreadable, ResumeAbandon, ResumeStart,
       ResumeClose, ResumeGit, ResumeMark, Verdict, CancelClose, CancelGit, TypeOK
  <2>3. replays'[r] = replays[r]
    BY <1>6, <2>1 DEF JobStep, ResumeRefused, ResumeUnreadable, ResumeAbandon, ResumeStart,
       ResumeClose, ResumeGit, ResumeMark, Verdict, CancelClose, CancelGit, TypeOK
  <2>4. /\ job'[r] = job[r] /\ loaded'[r] = loaded[r]
        /\ view' = view /\ clicked' = clicked /\ run' = run
    BY <1>6 DEF JobStep, ResumeRefused, ResumeUnreadable, ResumeAbandon, ResumeStart,
       ResumeClose, ResumeGit, ResumeMark, Verdict, CancelClose, CancelGit, TypeOK
  <2>5. QED
    BY <1>1, <2>2, <2>3, <2>4, Frame
<1>7. ASSUME JobStep(r) PROVE PlanConsistent(r)'
  <2>1. CASE ResumeRefused(r)
    BY <1>1, <2>1 DEF ResumeRefused, PlanConsistent, TypeOK
  <2>2. CASE ResumeUnreadable(r)
    BY <1>1, <2>2, RowFields DEF ResumeUnreadable, PlanConsistent, TypeOK, Rows
  <2>3. CASE ResumeAbandon(r)
    BY <1>1, <2>3 DEF ResumeAbandon, PlanConsistent, TypeOK
  <2>4. CASE ResumeStart(r)
    BY <1>1, <2>4 DEF ResumeStart, PlanConsistent, TypeOK
  <2>5. CASE ResumeClose(r)
    BY <1>1, <2>5 DEF ResumeClose, PlanConsistent, TypeOK
  <2>6. CASE ResumeGit(r)
    BY <1>1, <2>6 DEF ResumeGit, PlanConsistent, TypeOK
  <2>7. CASE ResumeMark(r)
    <3>1. store[id].status = "approved" /\ clicked[r] = "approved" /\ store[id].plan = r
      <4>1. store[id] \in Rows
        BY <1>1 DEF TypeOK
      <4>2. QED
        BY <1>1, <2>7, <4>1 DEF ResumeMark, Verdict, PlanConsistent, Rows, Statuses
    <3>2. store'[id].plan = store[id].plan /\ store'[id].status \in {"resumed", "failed"}
      BY <1>1, <2>7 DEF ResumeMark, Verdict, TypeOK, Rows
    <3>3. job'[r] = "done"
      BY <2>7 DEF ResumeMark, Verdict, TypeOK
    <3>4. UNCHANGED <<view, clicked, replays, loaded, run>>
      BY <2>7 DEF ResumeMark, Verdict
    <3>5. r # None
      BY ApprovalConstants
    <3>6. QED
      BY <1>1, <3>1, <3>2, <3>3, <3>4, <3>5 DEF PlanConsistent
  <2>8. CASE CancelClose(r)
    BY <1>1, <2>8 DEF CancelClose, PlanConsistent, TypeOK
  <2>9. CASE CancelGit(r)
    BY <1>1, <2>9 DEF CancelGit, PlanConsistent, TypeOK
  <2>10. QED
    BY <1>7, <2>1, <2>2, <2>3, <2>4, <2>5, <2>6, <2>7, <2>8, <2>9 DEF JobStep
<1>8. ASSUME NEW s \in Sessions, ZombieSweep(s) PROVE PlanConsistent(r)'
  BY <1>1, <1>8, Frame DEF ZombieSweep
<1>9. ASSUME NEW i \in Requests, Refresh(i) PROVE PlanConsistent(r)'
  BY <1>1, <1>9 DEF Refresh, PlanConsistent, TypeOK
<1>10. ASSUME NEW i \in Requests, NEW status, NEW task, Decide(i, status, task),
              <<status, task>> \in {<<"approved", "resume">>, <<"rejected", "cancel">>}
       PROVE  PlanConsistent(r)'
  <2>1. CASE i = id
    <3>1. store[i].plan = r /\ view[i] = r
      BY <1>1, <1>10, <2>1 DEF Decide, Decidable, PlanConsistent
    <3>2. QED
      BY <1>1, <1>10, <2>1, <3>1 DEF Decide, Decidable, PlanConsistent, TypeOK, Rows
  <2>2. CASE i # id
    <3>1. store'[id] = store[id]
      BY <1>1, <1>10, <2>2 DEF Decide, Decidable, TypeOK
    <3>2. store[i].plan # r /\ view[i] # r
      BY <1>0, <2>2, ApprovalConstants DEF RowsOwn
    <3>3. job'[r] = job[r] /\ clicked'[r] = clicked[r]
      BY <1>10, <3>2 DEF Decide, Decidable, TypeOK
    <3>4. QED
      BY <1>1, <1>10, <3>1, <3>3, Frame DEF Decide, Decidable
  <2>3. QED
    BY <2>1, <2>2
<1>11. CASE Crash
  <2>1. job'[r] \in {job[r], "lost"} /\ (job[r] = "none" => job'[r] = "none")
    BY <1>11 DEF Crash, LiveJobs, TypeOK
  <2>2. run'[r] \in {"idle", "planning"} => run[r] \in {"idle", "planning"}
    BY <1>11 DEF Crash, LiveRuns, TypeOK
  <2>3. QED
    BY <1>1, <1>11, <2>1, <2>2 DEF Crash, PlanConsistent
<1>12. CASE UNCHANGED vars
  BY <1>1, <1>12, Frame DEF vars
<1>13. QED
  BY <1>3, <1>4, <1>5, <1>6, <1>7, <1>8, <1>9, <1>10, <1>11, <1>12
     DEF Next, Approve, Reject

\* Every plan of its own request is consistent with its row, its job and what
\* the user did; the other theorems follow from this invariant.
THEOREM PlansConsistent == Spec => []AllConsistent
<1>1. TypeOK /\ AllConsistent /\ [Next]_vars => AllConsistent'
  BY NextConsistent
<1>2. QED
  BY InitConsistent, TypeCorrect, <1>1, PTL DEF Spec

\* Both together: the store, the jobs and the clicks are sound.
THEOREM PlansAlwaysSound == Spec => []PlansSound
<1>1. TypeOK /\ AllConsistent => PlansSound
  BY DEF PlansSound
<1>2. QED
  BY <1>1, TypeCorrect, PlansConsistent, PTL

\* A plan that shares its identifier with no other is replayed only if the user
\* approved it while looking at it.
THEOREM ReplayNeedsApproval == Spec => []OwnPlanAsApproved
<1>1. TypeOK /\ AllConsistent => OwnPlanAsApproved
  <2> SUFFICES ASSUME TypeOK, AllConsistent, NEW r \in Runs, OwnsRequest(r), replays[r] > 0
               PROVE  clicked[r] = "approved"
    BY DEF OwnPlanAsApproved
  <2>1. store[RequestId(r)].status \in Statuses \cup {"absent"}
    BY RequestIdType DEF TypeOK, Rows
  <2>2. PlanConsistent(r)
    BY DEF AllConsistent
  <2>3. QED
    BY <2>1, <2>2 DEF PlanConsistent, Statuses
<1>2. QED
  BY PlansConsistent, TypeCorrect, <1>1, PTL

\* A plan that shares its identifier with no other is replayed at most once,
\* whatever is clicked and however often the server restarts.
THEOREM ReplayedAtMostOnce == Spec => []NoDoubleReplay
<1>1. AllConsistent => NoDoubleReplay
  BY DEF AllConsistent, PlanConsistent, NoDoubleReplay
<1>2. QED
  BY PlansConsistent, <1>1, PTL

-----------------------------------------------------------------------------
(* The store and its jobs implement the ledger of decisions.               *)

FateMap == [r \in Runs |-> Fate(r)]

LEMMA FateUnchanged ==
  ASSUME UNCHANGED <<store, replays>>
  PROVE  UNCHANGED FateMap
  BY DEF FateMap, Fate

\* The row of a plan and its fate, in a consistent state.
LEMMA FateOfRow ==
  ASSUME UniqueRequests, TypeOK, AllConsistent, NEW r \in Runs
  PROVE  /\ store[RequestId(r)].status = "absent" => Fate(r) = "unseen"
         /\ store[RequestId(r)].status = "pending" => Fate(r) = "waiting"
         /\ store[RequestId(r)].status = "approved" /\ replays[r] = 0 => Fate(r) = "approved"
         /\ store[RequestId(r)].status = "approved" /\ replays[r] # 0 => Fate(r) = "running"
         /\ store[RequestId(r)].status = "rejected" => Fate(r) = "rejected"
         /\ store[RequestId(r)].status \in {"resumed", "failed"} => Fate(r) = "settled"
<1>1. PlanConsistent(r) /\ r # None
  BY ApprovalConstants DEF AllConsistent, UniqueRequests, OwnsRequest
<1>2. QED
  BY <1>1 DEF PlanConsistent, Fate

\* A step that touches the row and the counter of q only moves the fate of q only.
LEMMA OneFateMoves ==
  ASSUME NEW q \in Runs, NEW to, Fate(q)' = to,
         \A r \in Runs \ {q} : store'[RequestId(r)] = store[RequestId(r)]
                               /\ replays'[r] = replays[r]
  PROVE  FateMap' = [FateMap EXCEPT ![q] = to]
<1>1. \A r \in Runs : Fate(r)' = IF r = q THEN to ELSE Fate(r)
  BY DEF Fate
<1>2. FateMap' = [r \in Runs |-> Fate(r)']
  BY DEF FateMap
<1>3. [FateMap EXCEPT ![q] = to] = [r \in Runs |-> IF r = q THEN to ELSE Fate(r)]
  BY DEF FateMap
<1>4. QED
  BY <1>1, <1>2, <1>3, Zenon

\* When no two plans share an identifier, the store and its jobs implement the
\* ledger of decisions.
THEOREM LedgerRefined ==
  ASSUME UniqueRequests
  PROVE  Spec => LedgerSpec
<1>1. Init => Ledger!Init
  <2> SUFFICES ASSUME Init, NEW r \in Runs PROVE Fate(r) = "unseen"
    BY DEF Ledger!Init
  <2>1. store[RequestId(r)].plan = None /\ r # None
    BY RequestIdType, ApprovalConstants DEF Init, NoRow
  <2>2. QED
    BY <2>1 DEF Fate
<1>2. TypeOK /\ AllConsistent /\ TypeOK' /\ AllConsistent' /\ [Next]_vars => [Ledger!Next]_FateMap
  <2> SUFFICES ASSUME TypeOK, AllConsistent, TypeOK', AllConsistent', [Next]_vars,
                      ~ UNCHANGED FateMap
               PROVE  Ledger!Next
    OBVIOUS
  <2> USE RequestIdType DEF durable, observed
  <2> DEFINE Moved(q, from, to) == Fate(q) = from /\ Fate(q)' = to
                                    /\ FateMap' = [FateMap EXCEPT ![q] = to]
  <2>1. ASSUME NEW q \in Runs,
               \A r \in Runs \ {q} : store'[RequestId(r)] = store[RequestId(r)]
                                     /\ replays'[r] = replays[r],
               NEW from, NEW to, Fate(q) = from, Fate(q)' = to, from # to,
               <<from, to>> \in {<<"unseen", "waiting">>, <<"waiting", "approved">>,
                 <<"waiting", "rejected">>, <<"approved", "running">>, <<"running", "settled">>,
                 <<"approved", "settled">>}
        PROVE  Ledger!Next
    <3>1. FateMap' = [FateMap EXCEPT ![q] = to] /\ FateMap[q] = from
      BY <2>1, OneFateMoves DEF FateMap
    <3>2. Ledger!Moves(q, from, to)
      BY <3>1 DEF Ledger!Moves, FateMap
    <3>3. QED
      BY <2>1, <3>2 DEF Ledger!Next, Ledger!Submit, Ledger!Approve, Ledger!Reject, Ledger!Replay,
         Ledger!Settle, Ledger!GiveUp
  <2>2. ASSUME NEW q \in Runs PROVE \A r \in Runs \ {q} : RequestId(r) # RequestId(q)
    BY DEF UniqueRequests
  <2>0. \A r \in Runs : PlanConsistent(r) /\ PlanConsistent(r)'
    BY DEF AllConsistent, UniqueRequests, OwnsRequest
  <2>3. ASSUME NEW q \in Runs, AskApproval(q) PROVE Ledger!Next
    <3>1. store[RequestId(q)].status = "absent" /\ store'[RequestId(q)].status = "pending"
      BY <2>0, <2>3 DEF AskApproval, PlanConsistent, TypeOK
    <3>2. Fate(q) = "unseen"
      BY <3>1, FateOfRow
    <3>3. Fate(q)' = "waiting"
      <4>1. store'[RequestId(q)].plan = q
        BY <2>3 DEF AskApproval, TypeOK
      <4>2. QED
        BY <3>1, <4>1 DEF Fate
    <3>4. QED
      BY <2>1, <2>2, <2>3, <3>2, <3>3 DEF AskApproval, TypeOK
  <2>4. ASSUME NEW i \in Requests, NEW status, NEW task, Decide(i, status, task),
               status \in {"approved", "rejected"}
        PROVE  Ledger!Next
    <3>1. PICK q \in Runs : i = RequestId(q)
      BY DEF Requests
    <3>2. store[i].status = "pending" /\ store[i].plan = q
      BY <2>0, <2>4, <3>1 DEF Decide, Decidable, PlanConsistent
    <3>3. Fate(q) = "waiting" /\ replays[q] = 0
      BY <2>0, <3>1, <3>2, FateOfRow DEF PlanConsistent
    <3>4. store'[i].plan = q /\ store'[i].status = status /\ replays' = replays
      BY <2>4, <3>2 DEF Decide, Decidable, TypeOK, Rows
    <3>5. Fate(q)' = status
      BY <2>4, <3>1, <3>3, <3>4 DEF Fate
    <3>6. \A r \in Runs \ {q} : store'[RequestId(r)] = store[RequestId(r)]
      BY <2>2, <2>4, <3>1 DEF Decide, Decidable, TypeOK
    <3>7. QED
      BY <2>1, <2>4, <3>3, <3>4, <3>5, <3>6
  <2>5. ASSUME NEW p \in Runs, JobStep(p) PROVE Ledger!Next
    <3>1. /\ PlanConsistent(p) /\ PlanConsistent(p)'
          /\ store[RequestId(p)].status # "absent" => store[RequestId(p)].plan = p
      BY <2>0 DEF PlanConsistent
    <3>2. CASE ResumeUnreadable(p)
      <4>1. Fate(p) = "approved"
        BY <3>1, <3>2, FateOfRow DEF ResumeUnreadable, PlanConsistent
      <4>2. store'[RequestId(p)].status = "failed" /\ store'[RequestId(p)].plan = p
        BY <3>1, <3>2 DEF ResumeUnreadable, TypeOK, Rows
      <4>3. Fate(p)' = "settled"
        BY <4>2 DEF Fate
      <4>4. QED
        BY <2>1, <2>2, <3>2, <4>1, <4>3 DEF ResumeUnreadable, TypeOK
    <3>3. CASE ResumeStart(p)
      <4>1. Fate(p) = "approved" /\ store[RequestId(p)].plan = p
        BY <3>1, <3>3, FateOfRow DEF ResumeStart, PlanConsistent
      <4>2. store' = store /\ replays'[p] = replays[p] + 1 /\ replays[p] \in Nat
            /\ \A r \in Runs \ {p} : replays'[r] = replays[r]
        BY <3>3, <4>1 DEF ResumeStart, TypeOK
      <4>3. Fate(p)' = "running"
        BY <3>3, <4>1, <4>2 DEF Fate, ResumeStart
      <4>4. QED
        BY <2>1, <4>1, <4>2, <4>3
    <3>4. CASE ResumeMark(p)
      <4>1. store[RequestId(p)] \in Rows
        BY DEF TypeOK
      <4>2. store[RequestId(p)].status = "approved" /\ replays[p] = 1
        BY <3>1, <3>4, <4>1 DEF ResumeMark, Verdict, PlanConsistent, Rows, Statuses
      <4>3. Fate(p) = "running"
        BY <4>2, FateOfRow
      <4>4. /\ store'[RequestId(p)].status \in {"resumed", "failed"}
            /\ store'[RequestId(p)].plan = p
        BY <3>1, <3>4, <4>2 DEF ResumeMark, Verdict, TypeOK, Rows
      <4>5. Fate(p)' = "settled"
        BY <4>4 DEF Fate
      <4>6. QED
        BY <2>1, <2>2, <3>4, <4>3, <4>5 DEF ResumeMark, Verdict, TypeOK
    <3>5. CASE ResumeRefused(p) \/ ResumeAbandon(p) \/ ResumeClose(p) \/ ResumeGit(p)
               \/ CancelClose(p) \/ CancelGit(p)
      BY <3>5, FateUnchanged DEF ResumeRefused, ResumeAbandon, ResumeClose, ResumeGit, CancelClose,
         CancelGit
    <3>6. QED
      BY <2>5, <3>2, <3>3, <3>4, <3>5 DEF JobStep
  <2>6. ASSUME UNCHANGED <<store, replays>> PROVE Ledger!Next
    BY <2>6, FateUnchanged
  <2>7. QED
    BY <2>3, <2>4, <2>5, <2>6
       DEF Next, RunStep, LeaveBranch, Approve, Reject, StartRuns, FinishDirect, Suspend, RecordEnd, Abort,
           ZombieSweep, Refresh, Crash, vars
<1>3. UniqueRequests => (Spec => [](TypeOK /\ AllConsistent))
  BY TypeCorrect, PlansConsistent, PTL
<1>4. QED
  BY <1>1, <1>2, <1>3, PTL DEF Spec, LedgerSpec, Ledger!Spec, FateMap

-----------------------------------------------------------------------------
(* What is stored with a plan is the branch of its run as long as no two   *)
(* runs share an engine (in the code, the intents of one request do).  A   *)
(* branch that was stored is then touched by the job of its plan only,     *)
(* which is there once something was decided.  A run that is cut short is  *)
(* the exception: its branch is merged whatever was stored.                *)

\* Each run has an engine to itself.
Unshared == \A r, q \in Runs : EngineOf[r] = EngineOf[q] => r = q

\* The branch that goes with a plan is the one its run made.
BranchesOwn ==
  /\ \A r \in Runs : courante[EngineOf[r]] \in {None, r}
  /\ \A id \in Requests : store[id].branch \in {None, store[id].plan}
  /\ \A p \in Runs : /\ loaded[p].branch \in {None, loaded[p].plan}
                     /\ loaded[p].plan # None => RequestId(loaded[p].plan) = RequestId(p)

\* The branch of a plan of its own request waits with it, and is merged by the run that had
\* no request or by the replay that was approved.
BranchKept(r) ==
  LET row == store[RequestId(r)] IN
  /\ run[r] = "idle" => branch[r] = "none"
  /\ run[r] = "planning" /\ courante[EngineOf[r]] = r => branch[r] = "held"
  /\ row.status = "pending" /\ row.branch = r => branch[r] = "held"
  /\ branch[r] = "merged" =>
       run[r] \notin {"idle", "planning"} /\ row.status \in {"absent", "approved", "resumed", "failed"}

AllKept == BranchesOwn /\ \A r \in Runs : OwnsRequest(r) => BranchKept(r)

LEMMA RowIs ==
  ASSUME NEW row \in Rows
  PROVE  /\ row.plan \in Runs \cup {None} /\ row.branch \in Runs \cup {None}
         /\ row.status \in Statuses \cup {"absent"}
BY DEF Rows

\* What a job does to the rows, and to the row it loaded.
LEMMA JobRows ==
  ASSUME TypeOK, NEW p \in Runs, JobStep(p)
  PROVE  /\ \A id \in Requests : store'[id].plan = store[id].plan /\ store'[id].branch = store[id].branch
         /\ \A id \in Requests \ {RequestId(p)} : store'[id] = store[id]
         /\ \A r \in Runs : loaded'[r] \in {loaded[r], store[RequestId(r)]}
         /\ \A r \in Runs \ {p} : loaded'[r] = loaded[r] /\ job'[r] = job[r]
         /\ run' = run /\ courante' = courante /\ suspension' = suspension
<1> USE RequestIdType DEF durable, observed
<1>1. \/ store' = store
      \/ \E status : store' = [store EXCEPT ![RequestId(p)].status = status]
  BY DEF JobStep, ResumeRefused, ResumeUnreadable, ResumeAbandon, ResumeStart, ResumeClose, ResumeGit,
     ResumeMark, CancelClose, CancelGit
<1>2. /\ \A id \in Requests : store'[id].plan = store[id].plan /\ store'[id].branch = store[id].branch
      /\ \A id \in Requests \ {RequestId(p)} : store'[id] = store[id]
  <2>1. ASSUME NEW status, store' = [store EXCEPT ![RequestId(p)].status = status]
      PROVE  /\ \A id \in Requests : store'[id].plan = store[id].plan /\ store'[id].branch = store[id].branch
             /\ \A id \in Requests \ {RequestId(p)} : store'[id] = store[id]
    BY <2>1 DEF TypeOK, Rows
  <2>2. QED
    BY <1>1, <2>1
<1>3. loaded' = loaded \/ loaded' = [loaded EXCEPT ![p] = store[RequestId(p)]]
  BY DEF JobStep, ResumeRefused, ResumeUnreadable, ResumeAbandon, ResumeStart, ResumeClose, ResumeGit,
     ResumeMark, CancelClose, CancelGit
<1>4. \E place : job' = [job EXCEPT ![p] = place]
  BY DEF JobStep, ResumeRefused, ResumeUnreadable, ResumeAbandon, ResumeStart, ResumeClose, ResumeGit,
     ResumeMark, CancelClose, CancelGit
<1>5. run' = run /\ courante' = courante /\ suspension' = suspension
  BY DEF JobStep, ResumeRefused, ResumeUnreadable, ResumeAbandon, ResumeStart, ResumeClose, ResumeGit,
     ResumeMark, CancelClose, CancelGit
<1>6. /\ \A r \in Runs : loaded'[r] \in {loaded[r], store[RequestId(r)]}
      /\ \A r \in Runs \ {p} : loaded'[r] = loaded[r] /\ job'[r] = job[r]
  BY <1>3, <1>4 DEF TypeOK
<1>7. QED
  BY <1>2, <1>5, <1>6

LEMMA NextBranchesOwn ==
  ASSUME Unshared, TypeOK, AllConsistent, BranchesOwn, [Next]_vars
  PROVE  BranchesOwn'
<1> USE RequestIdType DEF durable, observed
<1>1. RowsOwn
  BY DEF AllConsistent
<1>2. ASSUME UNCHANGED <<courante, store, loaded>> PROVE BranchesOwn'
  BY <1>2 DEF BranchesOwn
<1>3. ASSUME NEW e \in Engines, StartRuns(e) PROVE BranchesOwn'
  <2>1. PICK last \in RunsOf(e) : courante' \in {[courante EXCEPT ![e] = last], [courante EXCEPT ![e] = None]}
    BY <1>3 DEF StartRuns
  <2>2. \A r \in Runs : courante'[EngineOf[r]] \in {None, r}
    BY <2>1, ApprovalConstants DEF RunsOf, Unshared, BranchesOwn, TypeOK
  <2>3. UNCHANGED <<store, loaded>>
    BY <1>3 DEF StartRuns
  <2>4. QED
    BY <2>2, <2>3 DEF BranchesOwn
<1>4. ASSUME NEW r \in Runs, AskApproval(r) PROVE BranchesOwn'
  <2>1. /\ \A id \in Requests \ {RequestId(r)} : store'[id] = store[id]
        /\ store'[RequestId(r)].plan = r /\ store'[RequestId(r)].branch = courante[EngineOf[r]]
        /\ UNCHANGED <<courante, loaded>>
    BY <1>4 DEF AskApproval, TypeOK
  <2>2. QED
    BY <2>1 DEF BranchesOwn
<1>5. ASSUME NEW p \in Runs, JobStep(p) PROVE BranchesOwn'
  <2>1. \A id \in Requests : store'[id].branch \in {None, store'[id].plan}
    BY <1>5, JobRows DEF BranchesOwn
  <2>2. \A r \in Runs : /\ loaded'[r].branch \in {None, loaded'[r].plan}
                        /\ loaded'[r].plan # None => RequestId(loaded'[r].plan) = RequestId(r)
    BY <1>1, <1>5, JobRows DEF BranchesOwn, RowsOwn
  <2>3. courante' = courante
    BY <1>5, JobRows
  <2>4. QED
    BY <2>1, <2>2, <2>3 DEF BranchesOwn
<1>6. ASSUME NEW i \in Requests, NEW status, NEW task, Decide(i, status, task) PROVE BranchesOwn'
  <2>1. \A id \in Requests : store'[id].plan = store[id].plan /\ store'[id].branch = store[id].branch
    BY <1>6 DEF Decide, TypeOK, Rows
  <2>2. QED
    BY <1>6, <2>1 DEF Decide, BranchesOwn
<1>7. CASE Crash
  BY <1>7, ApprovalConstants DEF Crash, BranchesOwn
<1>8. QED
  BY <1>2, <1>3, <1>4, <1>5, <1>6, <1>7
     DEF Next, RunStep, Approve, Reject, FinishDirect, Suspend, RecordEnd, Abort, ZombieSweep, Refresh, vars

\* A step that touches neither the run of a plan, nor its row, nor its branch.
LEMMA KeptFrame ==
  ASSUME NEW r \in Runs, BranchKept(r), run'[r] = run[r], branch'[r] = branch[r],
         store'[RequestId(r)] = store[RequestId(r)], courante' = courante
  PROVE  BranchKept(r)'
BY DEF BranchKept

\* Only the job of a plan of its own request finalises its branch.
LEMMA JobBranch ==
  ASSUME TypeOK, BranchesOwn, NEW r \in Runs, OwnsRequest(r), NEW p \in Runs, JobStep(p)
  PROVE  branch'[r] # branch[r] =>
           p = r /\ branch[r] = "held" /\ job[r] \in {"closing", "cancelling"}
             /\ (branch'[r] = "merged" => job[r] = "closing")
<1> USE DEF durable
<1>1. CASE ResumeGit(p)
  <2>1. branch' = branch \/ branch' = Finalised(loaded[p].branch, outcome[p] = "ok")
    BY <1>1 DEF ResumeGit
  <2>2. branch'[r] # branch[r] => loaded[p].branch = r /\ branch[r] = "held"
    BY <2>1 DEF Finalised, TypeOK
  <2>3. loaded[p].branch = r => p = r
    BY ApprovalConstants DEF BranchesOwn, OwnsRequest
  <2>4. QED
    BY <1>1, <2>2, <2>3 DEF ResumeGit
<1>2. CASE CancelGit(p)
  <2>1. branch' = branch \/ branch' = Finalised(loaded[p].branch, FALSE)
    BY <1>2 DEF CancelGit
  <2>2. branch'[r] # branch[r] => /\ loaded[p].branch = r /\ branch[r] = "held"
                                  /\ branch'[r] = "rolled_back"
    BY <2>1 DEF Finalised, TypeOK
  <2>3. loaded[p].branch = r => p = r
    BY ApprovalConstants DEF BranchesOwn, OwnsRequest
  <2>4. QED
    BY <1>2, <2>2, <2>3 DEF CancelGit
<1>3. CASE ~ResumeGit(p) /\ ~CancelGit(p)
  BY <1>3 DEF JobStep, ResumeRefused, ResumeUnreadable, ResumeAbandon, ResumeStart, ResumeClose,
     ResumeMark, CancelClose
<1>4. QED
  BY <1>1, <1>2, <1>3

LEMMA NextKept ==
  ASSUME Unshared, "abort" \notin Faults, TypeOK, AllConsistent, BranchesOwn, [Next]_vars,
         NEW r \in Runs, OwnsRequest(r), BranchKept(r)
  PROVE  BranchKept(r)'
<1> USE RequestIdType DEF durable, observed
<1> DEFINE id == RequestId(r)
<1>1. PlanConsistent(r) /\ id \in Requests /\ store[id].status \in Statuses \cup {"absent"}
  BY RowIs DEF AllConsistent, TypeOK
<1>2. \A q \in Runs : q # r => RequestId(q) # id
  BY DEF OwnsRequest
<1>3. ASSUME NEW e \in Engines, StartRuns(e) PROVE BranchKept(r)'
  <2>1. CASE EngineOf[r] = e
    <3>1. run[r] = "idle" /\ run'[r] = "planning" /\ store' = store /\ RunsOf(e) = {r}
      BY <1>3, <2>1 DEF StartRuns, RunsOf, Unshared
    <3>2. branch[r] = "none" /\ store[id].status = "absent"
      BY <1>1, <3>1 DEF BranchKept, PlanConsistent
    <3>3. /\ branch'[r] \in {"held", "none"}
          /\ courante'[EngineOf[r]] = r => branch'[r] = "held"
      BY <1>3, <2>1, <3>1, <3>2, ApprovalConstants DEF StartRuns, TypeOK
    <3>4. QED
      BY <3>1, <3>2, <3>3 DEF BranchKept
  <2>2. CASE EngineOf[r] # e
    <3>1. run'[r] = run[r] /\ branch'[r] = branch[r] /\ store' = store
      BY <1>3, <2>2 DEF StartRuns, RunsOf
    <3>2. courante'[EngineOf[r]] = courante[EngineOf[r]]
      BY <1>3, <2>2, ApprovalConstants DEF StartRuns, TypeOK
    <3>3. QED
      BY <3>1, <3>2 DEF BranchKept
  <2>3. QED
    BY <2>1, <2>2
<1>4. ASSUME NEW q \in Runs, FinishDirect(q) PROVE BranchKept(r)'
  <2>1. CASE q = r
    <3>1. run'[r] = "leaving" /\ store' = store /\ store[id].status = "absent"
      BY <1>1, <1>4, <2>1 DEF FinishDirect, TypeOK, PlanConsistent
    <3>2. QED
      BY <3>1 DEF BranchKept
  <2>2. CASE q # r
    <3>1. branch'[r] = branch[r] /\ run'[r] = run[r]
      BY <1>4, <2>2 DEF FinishDirect, LeaveBranch, Finalised, TypeOK
    <3>2. QED
      BY <1>4, <3>1, KeptFrame DEF FinishDirect
  <2>3. QED
    BY <2>1, <2>2
<1>5. ASSUME NEW q \in Runs, AskApproval(q) PROVE BranchKept(r)'
  <2>1. CASE q = r
    <3>1. /\ run[r] = "planning" /\ run'[r] = "asking" /\ branch' = branch
          /\ store'[id].branch = courante[EngineOf[r]] /\ store'[id].status = "pending"
      BY <1>1, <1>5, <2>1 DEF AskApproval, TypeOK
    <3>2. QED
      BY <3>1 DEF BranchKept
  <2>2. CASE q # r
    <3>1. run'[r] = run[r] /\ store'[id] = store[id]
      BY <1>1, <1>2, <1>5, <2>2 DEF AskApproval, TypeOK
    <3>2. QED
      BY <1>5, <3>1, KeptFrame DEF AskApproval
  <2>3. QED
    BY <2>1, <2>2
<1>6. ASSUME NEW q \in Runs, Suspend(q) \/ RecordEnd(q) PROVE BranchKept(r)'
  <2>1. branch' = branch /\ store' = store /\ courante' = courante
    BY <1>6, NoneIsNoRequest DEF Suspend, RecordEnd, LeaveBranch
  <2>2. run'[r] = run[r] \/ (run'[r] \notin {"idle", "planning"} /\ run[r] \notin {"idle", "planning"})
    BY <1>6 DEF Suspend, RecordEnd, TypeOK
  <2>3. QED
    BY <2>1, <2>2 DEF BranchKept
<1>7. ASSUME NEW p \in Runs, JobStep(p) PROVE BranchKept(r)'
  <2>1. run' = run /\ courante' = courante
    BY <1>7, JobRows
  <2>2. CASE p # r
    <3>1. branch'[r] = branch[r]
      BY <1>7, <2>2, JobBranch
    <3>2. store'[id] = store[id]
      BY <1>1, <1>2, <1>7, <2>2, JobRows
    <3>3. QED
      BY <2>1, <3>1, <3>2, KeptFrame
  <2>3. CASE p = r
    <3>1. job[r] # "none" /\ store[id].status \in {"approved", "rejected", "resumed", "failed"}
      BY <1>1, <1>7, <2>3 DEF PlanConsistent, Statuses, JobStep, ResumeRefused, ResumeUnreadable, ResumeAbandon,
         ResumeStart, ResumeClose, ResumeGit, ResumeMark, CancelClose, CancelGit
    <3>2. run[r] \notin {"idle", "planning"}
      BY <1>1, <3>1 DEF PlanConsistent
    <3>3. store'[id].status = store[id].status \/ store'[id].status \in {"resumed", "failed"}
      <4>1. \/ store' = store
            \/ \E status \in {"resumed", "failed"} : store' = [store EXCEPT ![id].status = status]
        BY <1>7, <2>3 DEF JobStep, ResumeRefused, ResumeUnreadable, ResumeAbandon, ResumeStart, ResumeClose,
           ResumeGit, ResumeMark, CancelClose, CancelGit, Verdict
      <4>2. QED
        BY <1>1, <4>1 DEF TypeOK, Rows
    <3>4. branch'[r] = "merged" => store[id].status \in {"approved", "resumed", "failed"}
      <4>1. CASE branch'[r] = branch[r]
        BY <3>1, <4>1 DEF BranchKept
      <4>2. CASE branch'[r] # branch[r] /\ branch'[r] = "merged"
        <5>1. job[r] = "closing"
          BY <1>7, <4>2, JobBranch
        <5>2. QED
          BY <1>1, <3>1, <5>1 DEF PlanConsistent
      <4>3. QED
        BY <4>1, <4>2
    <3>5. QED
      BY <2>1, <3>1, <3>2, <3>3, <3>4 DEF BranchKept
  <2>4. QED
    BY <2>2, <2>3
<1>8. ASSUME NEW i \in Requests, NEW status \in {"approved", "rejected"}, NEW task, Decide(i, status, task)
      PROVE  BranchKept(r)'
  <2>1. UNCHANGED <<run, branch, courante>> /\ store[i].status = "pending"
    BY <1>8 DEF Decide, Decidable
  <2>2. CASE i # id
    <3>1. store'[id] = store[id]
      BY <1>1, <1>8, <2>2 DEF Decide, TypeOK
    <3>2. QED
      BY <2>1, <3>1, KeptFrame
  <2>3. CASE i = id
    <3>1. store'[id].status = status
      BY <1>1, <1>8, <2>3 DEF Decide, TypeOK, Rows
    <3>2. branch[r] # "merged"
      BY <2>1, <2>3 DEF BranchKept
    <3>3. QED
      BY <2>1, <3>1, <3>2 DEF BranchKept
  <2>4. QED
    BY <2>2, <2>3
<1>9. CASE Crash
  <2>1. /\ branch' = branch /\ store' = store
        /\ run'[r] = run[r] \/ (run'[r] = "lost" /\ run[r] \in LiveRuns)
        /\ courante'[EngineOf[r]] = None
    BY <1>9, ApprovalConstants DEF Crash
  <2>2. QED
    BY <2>1, ApprovalConstants DEF BranchKept, LiveRuns
<1>10. ASSUME UNCHANGED <<store, branch, run, courante>> PROVE BranchKept(r)'
  BY <1>10, KeptFrame
<1>11. QED
  BY <1>3, <1>4, <1>5, <1>6, <1>7, <1>8, <1>9, <1>10
     DEF Next, RunStep, Approve, Reject, Abort, ZombieSweep, Refresh, vars

LEMMA AllAlwaysKept == ASSUME Unshared, "abort" \notin Faults PROVE Spec => []AllKept
<1>1. Init => AllKept
  <2> SUFFICES ASSUME Init PROVE AllKept
    OBVIOUS
  <2>1. BranchesOwn
    BY ApprovalConstants DEF Init, BranchesOwn, NoRow
  <2>2. \A r \in Runs : BranchKept(r)
    BY RequestIdType DEF Init, BranchKept, NoRow
  <2>3. QED
    BY <2>1, <2>2 DEF AllKept
<1>2. TypeOK /\ AllConsistent /\ AllKept /\ [Next]_vars => AllKept'
  BY NextBranchesOwn, NextKept DEF AllKept, OwnsRequest, RequestId
<1>3. QED
  BY <1>1, <1>2, TypeCorrect, PlansConsistent, PTL DEF Spec

\* What the user rejected is neither replayed nor merged, with early decisions, restarts and
\* engines that cannot be mounted, whatever plans of other runs share a request.
THEOREM RejectedAlwaysOut == ASSUME Unshared, "abort" \notin Faults PROVE Spec => []RejectedStaysOut
<1>1. TypeOK /\ AllConsistent /\ AllKept => RejectedStaysOut
  <2> SUFFICES ASSUME TypeOK, AllConsistent, AllKept, NEW r \in Runs, OwnsRequest(r), clicked[r] = "rejected"
               PROVE  replays[r] = 0 /\ branch[r] # "merged"
    BY DEF RejectedStaysOut
  <2>1. PlanConsistent(r) /\ BranchKept(r) /\ store[RequestId(r)].status \in Statuses \cup {"absent"}
    BY RowIs, RequestIdType DEF AllConsistent, AllKept, TypeOK
  <2>2. store[RequestId(r)].status = "rejected"
    BY <2>1 DEF PlanConsistent, Statuses
  <2>3. QED
    BY <2>1, <2>2 DEF PlanConsistent, BranchKept
<1>2. QED
  BY <1>1, AllAlwaysKept, TypeCorrect, PlansConsistent, PTL

\* As long as nothing is decided, the branch stored with a plan stays in place, under the
\* same conditions.
THEOREM BranchWaits == ASSUME Unshared, "abort" \notin Faults PROVE Spec => []BranchHeldWhilePending
<1>1. AllConsistent /\ AllKept => BranchHeldWhilePending
  <2> SUFFICES ASSUME AllConsistent, AllKept, NEW r \in Runs, OwnsRequest(r),
                      store[RequestId(r)].status = "pending", store[RequestId(r)].branch # None
               PROVE  branch[store[RequestId(r)].branch] = "held"
    BY DEF BranchHeldWhilePending
  <2>1. PlanConsistent(r) /\ BranchKept(r) /\ BranchesOwn
    BY DEF AllConsistent, AllKept
  <2>2. store[RequestId(r)].branch = r
    BY <2>1, RequestIdType DEF PlanConsistent, BranchesOwn
  <2>3. QED
    BY <2>1, <2>2 DEF BranchKept
<1>2. QED
  BY <1>1, AllAlwaysKept, PlansConsistent, PTL

-----------------------------------------------------------------------------
(* An execution that ends says so.  A session whose status is not terminal *)
(* has somebody who will still write it: a run, the user, or a job that    *)
(* has not closed it yet.  Decisions that come while the run is leaving,   *)
(* and restarts, break exactly this.                                       *)

\* A run that leaves its engine suspended leaves a request behind it.
Waits(r) ==
  LET row == store[RequestId(r)] IN
  /\ run[r] \in {"planning", "asking"} => suspension[EngineOf[r]] = None
  /\ run[r] = "asking" => row.status = "pending"
  /\ run[r] = "leaving" /\ suspension[EngineOf[r]] # None => row.status = "pending"

\* What will still write the status of the session of a plan.
Unsettled(r) ==
  \/ run[r] \in LiveRuns
  \/ store[RequestId(r)].status = "pending"
  \/ job[r] \in {"resume", "refusing", "replaying", "cancel"}

RunsIn(s) == {r \in Runs : SessionOf[r] = s}

\* A session without a terminal status has not begun, or somebody will still write it.
Attended(s) ==
  \/ session[s] \in Terminal
  \/ \A r \in RunsIn(s) : run[r] = "idle"
  \/ \E r \in RunsIn(s) : Unsettled(r)

Separate(s) == \A r \in RunsIn(s) : OwnsRequest(r)

AllAttended ==
  /\ \A s \in Sessions : Separate(s) => Attended(s)
  /\ \A r \in Runs : OwnsRequest(r) => Waits(r)

\* A request that is decided while its run is over has no run to come back from.
LEMMA NextWaits ==
  ASSUME Unshared, "early" \notin Faults, TypeOK, AllConsistent, [Next]_vars,
         NEW r \in Runs, OwnsRequest(r), Waits(r)
  PROVE  Waits(r)'
<1> USE RequestIdType DEF durable, observed
<1> DEFINE id == RequestId(r)
           e == EngineOf[r]
<1>1. PlanConsistent(r) /\ id \in Requests /\ e \in Engines
  BY ApprovalConstants DEF AllConsistent
<1>2. \A q \in Runs : q # r => RequestId(q) # id /\ EngineOf[q] # e
  BY DEF OwnsRequest, Unshared
<1>3. ASSUME run'[r] = run[r], store'[id].status = store[id].status, suspension'[e] \in {suspension[e], None}
      PROVE  Waits(r)'
  BY <1>3 DEF Waits
<1>4. ASSUME NEW f \in Engines, StartRuns(f) PROVE Waits(r)'
  <2>1. CASE f = e
    <3>1. run'[r] = "planning" /\ suspension'[e] = None
      BY <1>1, <1>4, <2>1 DEF StartRuns, RunsOf, TypeOK
    <3>2. QED
      BY <3>1 DEF Waits
  <2>2. CASE f # e
    BY <1>1, <1>3, <1>4, <2>2 DEF StartRuns, RunsOf, TypeOK
  <2>3. QED
    BY <2>1, <2>2
<1>5. ASSUME NEW q \in Runs, RunStep(q) \/ Abort(q) PROVE Waits(r)'
  <2>1. CASE q = r
    <3>1. CASE FinishDirect(r)
      BY <1>1, <3>1 DEF FinishDirect, Waits, TypeOK
    <3>2. CASE AskApproval(r)
      <4>1. store'[id].status = "pending" /\ run[r] = "planning" /\ run'[r] = "asking" /\ suspension' = suspension
        BY <1>1, <3>2 DEF AskApproval, TypeOK
      <4>2. QED
        BY <4>1 DEF Waits
    <3>3. CASE Suspend(r)
      BY <1>1, <3>3 DEF Suspend, Waits, TypeOK
    <3>4. CASE RecordEnd(r) \/ Abort(r)
      <4>1. run'[r] = "ended"
        BY <3>4 DEF RecordEnd, Abort, TypeOK
      <4>2. QED
        BY <4>1 DEF Waits
    <3>5. QED
      BY <1>5, <2>1, <3>1, <3>2, <3>3, <3>4 DEF RunStep
  <2>2. CASE q # r
    <3>1. run'[r] = run[r] /\ suspension'[e] = suspension[e]
      BY <1>1, <1>2, <1>5, <2>2 DEF RunStep, FinishDirect, AskApproval, Suspend, RecordEnd, Abort, TypeOK
    <3>2. store'[id] = store[id]
      BY <1>1, <1>2, <1>5, <2>2 DEF RunStep, FinishDirect, AskApproval, Suspend, RecordEnd, Abort, TypeOK
    <3>3. QED
      BY <1>3, <3>1, <3>2
  <2>3. QED
    BY <2>1, <2>2
<1>6. ASSUME NEW p \in Runs, JobStep(p) PROVE Waits(r)'
  <2>1. run' = run /\ suspension' = suspension
    BY <1>6, JobRows
  <2>2. CASE p # r
    <3>1. store'[id] = store[id]
      BY <1>1, <1>2, <1>6, <2>2, JobRows
    <3>2. QED
      BY <1>3, <2>1, <3>1
  <2>3. CASE p = r
    <3>1. store[id].status # "pending"
      BY <1>1, <1>6, <2>3 DEF PlanConsistent, JobStep, ResumeRefused, ResumeUnreadable, ResumeAbandon,
         ResumeStart, ResumeClose, ResumeGit, ResumeMark, CancelClose, CancelGit
    <3>2. QED
      BY <2>1, <3>1 DEF Waits
  <2>4. QED
    BY <2>2, <2>3
<1>7. ASSUME NEW i \in Requests, NEW status, NEW task, Decide(i, status, task) PROVE Waits(r)'
  <2>1. UNCHANGED <<run, suspension>>
    BY <1>7 DEF Decide
  <2>2. CASE i # id
    <3>1. store'[id] = store[id]
      BY <1>1, <1>7, <2>2 DEF Decide, TypeOK
    <3>2. QED
      BY <1>3, <2>1, <3>1
  <2>3. CASE i = id
    <3>1. store[id].plan = r
      BY <1>1, <1>7, <2>3 DEF Decide, Decidable, PlanConsistent
    <3>2. run[r] \notin LiveRuns
      BY <1>7, <2>3, <3>1 DEF Decide
    <3>3. QED
      BY <2>1, <3>2 DEF Waits, LiveRuns
  <2>4. QED
    BY <2>2, <2>3
<1>8. CASE Crash
  <2>1. run'[r] = run[r] \/ run'[r] = "lost"
    BY <1>8 DEF Crash
  <2>2. store' = store /\ suspension'[e] = None
    BY <1>1, <1>8 DEF Crash
  <2>3. QED
    BY <2>1, <2>2 DEF Waits
<1>9. ASSUME UNCHANGED <<run, store, suspension>> PROVE Waits(r)'
  BY <1>9 DEF Waits
<1>10. QED
  BY <1>4, <1>5, <1>6, <1>7, <1>8, <1>9 DEF Next, Approve, Reject, ZombieSweep, Refresh, vars

\* A step that leaves the runs of a session alone, and settles nothing but by its status.
LEMMA AttendedFrame ==
  ASSUME NEW s \in Sessions, Attended(s), session'[s] \in Terminal \cup {session[s]},
         \A r \in RunsIn(s) : run'[r] = run[r] /\ (Unsettled(r) => Unsettled(r)')
  PROVE  Attended(s)'
BY DEF Attended, RunsIn

\* A job writes terminal statuses only, and those of its plan.
LEMMA JobSession ==
  ASSUME TypeOK, NEW p \in Runs, JobStep(p), NEW s \in Sessions
  PROVE  session'[s] \in Terminal \cup {session[s]}
<1>1. session' = session \/ \E t : \E status \in Terminal : session' = [session EXCEPT ![t] = status]
  BY DEF durable, Terminal, Close, JobStep, ResumeRefused, ResumeUnreadable, ResumeAbandon, ResumeStart,
     ResumeClose, ResumeGit, ResumeMark, CancelClose, CancelGit
<1>2. QED
  BY <1>1 DEF TypeOK

LEMMA JobAttended ==
  ASSUME TypeOK, AllConsistent, NEW s \in Sessions, Separate(s), Attended(s), NEW p \in Runs, JobStep(p)
  PROVE  Attended(s)'
<1> USE RequestIdType DEF durable, observed
<1>1. run' = run /\ session'[s] \in Terminal \cup {session[s]}
  BY JobRows, JobSession
<1>2. CASE p \notin RunsIn(s)
  <2>1. ASSUME NEW r \in RunsIn(s) PROVE Unsettled(r) => Unsettled(r)'
    <3>1. r \in Runs \ {p} /\ RequestId(p) # RequestId(r)
      BY <1>2 DEF RunsIn, Separate, OwnsRequest
    <3>2. store'[RequestId(r)] = store[RequestId(r)] /\ job'[r] = job[r]
      BY <3>1, JobRows
    <3>3. QED
      BY <1>1, <3>2 DEF Unsettled
  <2>2. QED
    BY <1>1, <2>1, AttendedFrame
<1>3. CASE p \in RunsIn(s)
  <2>1. PlanConsistent(p) /\ OwnsRequest(p) /\ SessionOf[p] = s
    BY <1>3 DEF RunsIn, Separate, AllConsistent
  <2>2. ~ResumeRefused(p)
    <3>1. store[RequestId(p)].status \in Statuses \cup {"absent"}
      BY RowIs DEF TypeOK
    <3>2. QED
      BY <2>1, <3>1 DEF ResumeRefused, PlanConsistent, Statuses
  <2>3. CASE ResumeUnreadable(p) \/ ResumeStart(p)
    <3>1. job'[p] \in {"refusing", "replaying"}
      BY <2>3 DEF ResumeUnreadable, ResumeStart, TypeOK
    <3>2. Unsettled(p)'
      BY <3>1 DEF Unsettled
    <3>3. QED
      BY <1>3, <3>2 DEF Attended, RunsIn
  <2>4. CASE ResumeAbandon(p) \/ ResumeClose(p)
    <3>1. loaded[p].plan = p
      BY <2>1, <2>4 DEF ResumeAbandon, ResumeClose, PlanConsistent
    <3>2. \E status \in Terminal : session' = [session EXCEPT ![s] = status]
      BY <2>1, <2>4, <3>1 DEF ResumeAbandon, ResumeClose, Close, Terminal
    <3>3. QED
      BY <3>2 DEF Attended, TypeOK
  <2>5. CASE CancelClose(p)
    <3>1. store[RequestId(p)].plan = p
      BY <2>1, <2>5, RowIs DEF CancelClose, PlanConsistent, TypeOK
    <3>2. session' = [session EXCEPT ![s] = "error"]
      BY <2>1, <2>5, <3>1 DEF CancelClose, Close
    <3>3. QED
      BY <3>2 DEF Attended, TypeOK, Terminal
  <2>6. CASE ResumeGit(p) \/ ResumeMark(p) \/ CancelGit(p)
    <3>1. job[p] \in {"closing", "marking", "cancelling"}
      BY <2>6 DEF ResumeGit, ResumeMark, CancelGit
    <3>2. store[RequestId(p)].status # "pending"
      BY <2>1, <3>1 DEF PlanConsistent
    <3>3. ASSUME NEW r \in RunsIn(s) PROVE Unsettled(r) => Unsettled(r)'
      <4>1. CASE r = p
        BY <1>1, <3>1, <3>2, <4>1 DEF Unsettled
      <4>2. CASE r # p
        <5>1. r \in Runs \ {p} /\ RequestId(p) # RequestId(r)
          BY <1>3, <4>2 DEF RunsIn, Separate, OwnsRequest
        <5>2. store'[RequestId(r)] = store[RequestId(r)] /\ job'[r] = job[r]
          BY <5>1, JobRows
        <5>3. QED
          BY <1>1, <5>2 DEF Unsettled
      <4>3. QED
        BY <4>1, <4>2
    <3>4. QED
      BY <1>1, <3>3, AttendedFrame
  <2>7. QED
    BY <2>2, <2>3, <2>4, <2>5, <2>6 DEF JobStep
<1>4. QED
  BY <1>2, <1>3

LEMMA RunAttended ==
  ASSUME Unshared, TypeOK, AllConsistent, NEW s \in Sessions, Separate(s), Attended(s),
         NEW q \in Runs, OwnsRequest(q) => Waits(q), RunStep(q) \/ Abort(q)
  PROVE  Attended(s)'
<1> USE RequestIdType DEF durable, observed
<1>1. ~MultiIntent(q)
  BY ApprovalConstants DEF MultiIntent, RunsOf, Unshared
<1>2. CASE q \in RunsIn(s)
  <2>1. OwnsRequest(q) /\ SessionOf[q] = s /\ Waits(q)
    BY <1>2 DEF RunsIn, Separate
  <2>2. CASE FinishDirect(q) \/ AskApproval(q) \/ Suspend(q)
    <3>1. run'[q] \in LiveRuns
      BY <2>2 DEF FinishDirect, AskApproval, Suspend, LiveRuns, TypeOK
    <3>2. QED
      BY <1>2, <3>1 DEF Attended, Unsettled, RunsIn
  <2>3. CASE RecordEnd(q)
    <3>1. CASE suspension[EngineOf[q]] # None
      <4>1. store'[RequestId(q)].status = "pending"
        BY <2>1, <2>3, <3>1 DEF RecordEnd, Waits
      <4>2. QED
        BY <1>2, <4>1 DEF Attended, Unsettled, RunsIn
    <3>2. CASE suspension[EngineOf[q]] = None
      <4>1. \E status \in Terminal : session' = [session EXCEPT ![s] = status]
        BY <1>1, <2>1, <2>3, <3>2 DEF RecordEnd
      <4>2. QED
        BY <4>1 DEF Attended, TypeOK
    <3>3. QED
      BY <3>1, <3>2
  <2>4. CASE Abort(q)
    BY <1>1, <2>1, <2>4 DEF Abort, Attended, Terminal, TypeOK
  <2>5. QED
    BY <2>2, <2>3, <2>4 DEF RunStep
<1>3. CASE q \notin RunsIn(s)
  <2>1. session'[s] = session[s]
    <3>1. session' = session \/ \E status : session' = [session EXCEPT ![SessionOf[q]] = status]
      BY DEF RunStep, FinishDirect, AskApproval, Suspend, RecordEnd, Abort
    <3>2. QED
      BY <1>3, <3>1 DEF RunsIn, TypeOK
  <2>2. ASSUME NEW r \in RunsIn(s) PROVE run'[r] = run[r] /\ (Unsettled(r) => Unsettled(r)')
    <3>1. r \in Runs /\ r # q /\ RequestId(q) # RequestId(r)
      BY <1>3 DEF RunsIn, Separate, OwnsRequest
    <3>2. run'[r] = run[r] /\ job' = job /\ store'[RequestId(r)] = store[RequestId(r)]
      BY <3>1 DEF RunStep, FinishDirect, AskApproval, Suspend, RecordEnd, Abort, TypeOK
    <3>3. QED
      BY <3>2 DEF Unsettled
  <2>3. QED
    BY <2>1, <2>2, AttendedFrame
<1>4. QED
  BY <1>2, <1>3

LEMMA DecisionAttended ==
  ASSUME TypeOK, AllConsistent, NEW s \in Sessions, Separate(s), Attended(s),
         NEW i \in Requests, NEW status, NEW task \in {"resume", "cancel"}, Decide(i, status, task)
  PROVE  Attended(s)'
<1> USE RequestIdType DEF durable, observed
<1>1. session' = session /\ run' = run
  BY DEF Decide
<1>2. CASE \E r \in RunsIn(s) : RequestId(r) = i
  <2>1. PICK r \in RunsIn(s) : RequestId(r) = i
    BY <1>2
  <2>2. r \in Runs /\ PlanConsistent(r) /\ store[i].status = "pending"
    BY <2>1 DEF RunsIn, Separate, AllConsistent, Decide, Decidable
  <2>3. store[i].plan = r
    BY <2>1, <2>2, RowIs DEF PlanConsistent, TypeOK
  <2>4. job'[r] = task
    BY <2>2, <2>3 DEF Decide, TypeOK
  <2>5. QED
    BY <2>1, <2>4 DEF Attended, Unsettled, RunsIn
<1>3. CASE \A r \in RunsIn(s) : RequestId(r) # i
  <2>1. ASSUME NEW r \in RunsIn(s) PROVE Unsettled(r) => Unsettled(r)'
    <3>1. r \in Runs /\ RequestId(r) # i /\ store[i].plan # r
      BY <1>3, ApprovalConstants DEF RunsIn, AllConsistent, RowsOwn
    <3>2. store'[RequestId(r)] = store[RequestId(r)] /\ job'[r] = job[r]
      BY <3>1 DEF Decide, TypeOK
    <3>3. QED
      BY <1>1, <3>2 DEF Unsettled
  <2>2. QED
    BY <1>1, <2>1, AttendedFrame
<1>4. QED
  BY <1>2, <1>3

LEMMA NextAttended ==
  ASSUME Unshared, "crash" \notin Faults, TypeOK, AllConsistent, [Next]_vars,
         \A r \in Runs : OwnsRequest(r) => Waits(r),
         NEW s \in Sessions, Separate(s), Attended(s)
  PROVE  Attended(s)'
<1> USE DEF durable, observed
<1>1. ASSUME UNCHANGED <<session, run, store, job>> PROVE Attended(s)'
  BY <1>1 DEF Attended, Unsettled
<1>2. ASSUME NEW e \in Engines, StartRuns(e) PROVE Attended(s)'
  <2>1. CASE \E r \in RunsIn(s) : EngineOf[r] = e
    <3>1. PICK r \in RunsIn(s) : EngineOf[r] = e
      BY <2>1
    <3>2. run'[r] = "planning"
      BY <1>2, <3>1 DEF StartRuns, RunsOf, RunsIn
    <3>3. QED
      BY <3>1, <3>2 DEF Attended, Unsettled, LiveRuns, RunsIn
  <2>2. CASE \A r \in RunsIn(s) : EngineOf[r] # e
    <3>1. session'[s] = session[s]
      BY <1>2, <2>2 DEF StartRuns, RunsOf, RunsIn
    <3>2. ASSUME NEW r \in RunsIn(s) PROVE run'[r] = run[r] /\ (Unsettled(r) => Unsettled(r)')
      BY <1>2, <2>2 DEF StartRuns, RunsOf, RunsIn, Unsettled
    <3>3. QED
      BY <3>1, <3>2, AttendedFrame
  <2>3. QED
    BY <2>1, <2>2
<1>3. ASSUME NEW t \in Sessions, ZombieSweep(t) PROVE Attended(s)'
  <2>1. session'[s] \in Terminal \cup {session[s]}
    BY <1>3 DEF ZombieSweep, Terminal, TypeOK
  <2>2. UNCHANGED <<run, store, job>>
    BY <1>3 DEF ZombieSweep
  <2>3. QED
    BY <2>1, <2>2, AttendedFrame DEF Unsettled, RunsIn
<1>4. ASSUME NEW q \in Runs, RunStep(q) \/ Abort(q) PROVE Attended(s)'
  BY <1>4, RunAttended
<1>5. ASSUME NEW p \in Runs, JobStep(p) PROVE Attended(s)'
  BY <1>5, JobAttended
<1>6. ASSUME NEW i \in Requests, Approve(i) \/ Reject(i) PROVE Attended(s)'
  BY <1>6, DecisionAttended DEF Approve, Reject
<1>7. QED
  BY <1>1, <1>2, <1>3, <1>4, <1>5, <1>6 DEF Next, Refresh, Crash, vars

\* Once a decision was taken and nothing of a session is left, neither run nor job nor request,
\* it has a terminal status: with time limits, unreadable plans and engines that cannot be
\* mounted, for any number of plans in a session as long as their identifiers differ.
THEOREM SessionsAlwaysSettled ==
  ASSUME Unshared, "early" \notin Faults, "crash" \notin Faults PROVE Spec => []SessionSettled
<1>1. Init => AllAttended
  <2> SUFFICES ASSUME Init PROVE AllAttended
    OBVIOUS
  <2>1. \A r \in Runs : run[r] = "idle"
    BY DEF Init
  <2>2. QED
    BY <2>1 DEF AllAttended, Attended, Waits, RunsIn
<1>2. TypeOK /\ AllConsistent /\ AllAttended /\ [Next]_vars => AllAttended'
  BY NextWaits, NextAttended DEF AllAttended, Separate, OwnsRequest, RunsIn, RequestId
<1>3. TypeOK /\ AllConsistent /\ AllAttended => SessionSettled
  <2> SUFFICES ASSUME TypeOK, AllConsistent, AllAttended, NEW s \in Sessions,
                      \E r \in RunsIn(s) : job[r] # "none",
                      \A r \in RunsIn(s) : /\ OwnsRequest(r) /\ run[r] \notin LiveRuns
                                            /\ job[r] \notin LiveJobs
                                            /\ store[RequestId(r)].status # "pending"
               PROVE  session[s] \in Terminal
    BY DEF SessionSettled, RunsIn
  <2>1. Attended(s)
    BY DEF AllAttended, Separate
  <2>2. ~\E r \in RunsIn(s) : Unsettled(r)
    BY DEF Unsettled, LiveJobs
  <2>3. PICK r \in RunsIn(s) : job[r] # "none"
    OBVIOUS
  <2>4. PlanConsistent(r)
    BY <2>3 DEF AllConsistent, RunsIn
  <2>5. run[r] # "idle"
    BY <2>3, <2>4 DEF PlanConsistent
  <2>6. QED
    BY <2>1, <2>2, <2>3, <2>5 DEF Attended
<1>4. QED
  BY <1>1, <1>2, <1>3, TypeCorrect, PlansConsistent, PTL DEF Spec
=============================================================================
