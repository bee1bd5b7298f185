------------------------------ MODULE GitSafety ------------------------------
(***************************************************************************)
(* The Git isolation of the sessions of the engine (tools/git_safety.py).  *)
(*                                                                         *)
(* Every session works in the one working tree of the repository.  Before  *)
(* it starts, the uncommitted changes found there are stashed and an       *)
(* ephemeral branch is created and checked out; at its end the changes are *)
(* committed and merged into the branch it started from, or undone, and    *)
(* the stash is restored.  The Git commands of one call run one after the  *)
(* other on the event loop: a call is one action, a composition of the     *)
(* operators below, one per Git command.                                   *)
(*                                                                         *)
(* A change is a file somebody edited (tracked) or created (untracked).    *)
(* The branch of a session is identified with the session.                 *)
(***************************************************************************)
EXTENDS Naturals, Sequences, SequencesExt, FiniteSets

CONSTANTS
  Sessions,   \* sessions of the engine
  User,       \* the human who edits files of the same repository
  Home,       \* the branch the user works on
  Main,       \* the fallback branch, "main"
  None,       \* no branch
  Worlds      \* what may happen: each world is a subset of Events

\* linked: the repository is a linked worktree;  overlap: sessions run at the same
\* time;  suspended: a session starts while others wait for an approval;
\* user_edits: the user edits while sessions run;  tools: agents call the
\* checkpoint tools;  stash, checkout, commit, conflict: that Git command (for the last, a
\* merge or a pop) may fail;  crash: the process may die between two Git commands.
Events == {"linked", "overlap", "suspended", "user_edits", "tools", "stash", "checkout",
           "commit", "conflict", "crash"}

Kinds == {"tracked", "untracked"}
Changes == (Sessions \cup {User}) \X Kinds
Branches == Sessions \cup {Home, Main}

ASSUME GitConstants ==
  /\ User \notin Sessions /\ Home # Main /\ {Home, Main, None} \cap Sessions = {}
  /\ None \notin {Home, Main}
  /\ Worlds \subseteq SUBSET Events

VARIABLES
  repo,       \* the repository
  phase,      \* where each session is
  written,    \* changes made so far
  world       \* the world of this behaviour

vars == <<repo, phase, written, world>>

Entries == [label : {"user_pre_agent", "agent_checkpoint"}, of : Sessions, files : SUBSET Changes]
Repos ==
  [head : Branches,                              \* the branch checked out
   tree : SUBSET Changes,                        \* uncommitted changes
   stash : Seq(Entries),                         \* newest first
   branches : SUBSET Branches,
   commits : [Branches -> SUBSET Changes],       \* changes each branch contains
   origin : [Sessions -> Branches \cup {None}]]  \* branch.<name>.agentOrigin
Active == {"working", "suspended", "in_place"}
Ended == {"merged", "rolled_back", "unmerged", "stuck", "done", "dead"}

TypeOK ==
  /\ repo \in Repos
  /\ phase \in [Sessions -> Active \cup Ended \cup {"idle"}]
  /\ written \in SUBSET Changes
  /\ world \in Worlds

Init ==
  /\ repo = [head |-> Home, tree |-> {}, stash |-> <<>>, branches |-> {Home, Main},
             commits |-> [b \in Branches |-> {}], origin |-> [s \in Sessions |-> None]]
  /\ phase = [s \in Sessions |-> "idle"]
  /\ written = {}
  /\ world \in Worlds

-----------------------------------------------------------------------------
(* Git commands.                                                           *)

\* stash push --include-untracked: nothing is stashed from a clean tree.
Push(r, label, s) ==
  IF r.tree = {} THEN r
  ELSE [r EXCEPT !.tree = {},
                 !.stash = <<[label |-> label, of |-> s, files |-> r.tree]>> \o @]

\* stash pop stash@{i}: a pop that conflicts leaves the entry in the stash.
Pop(r, i, conflict) ==
  IF conflict THEN r
  ELSE [r EXCEPT !.tree = @ \cup r.stash[i].files, !.stash = RemoveAt(@, i)]

\* reset --hard HEAD: untracked files survive.
ResetHard(r) == [r EXCEPT !.tree = {c \in @ : c[2] = "untracked"}]

\* add . ; commit.
Commit(r) == [r EXCEPT !.commits[r.head] = @ \cup r.tree, !.tree = {}]

\* checkout: uncommitted changes follow.
Checkout(r, b) == [r EXCEPT !.head = b]

Merge(r, b) == [r EXCEPT !.commits[r.head] = @ \cup r.commits[b]]

Delete(r, s) == [r EXCEPT !.branches = @ \ {s}]

-----------------------------------------------------------------------------
(* The functions of git_safety.                                            *)

\* Mutant of RestoreUserStash: the entry is dropped, not popped.
RestoreDropped(r, s, conflict) == [r EXCEPT !.stash = IF @ = <<>> THEN @ ELSE Tail(@)]

\* _restaurer_stash_utilisateur: the newest entry of this session.
RestoreUserStash(r, s, conflict) ==
  LET own == {i \in DOMAIN r.stash : r.stash[i].label = "user_pre_agent" /\ r.stash[i].of = s} IN
  IF own = {} THEN r
  ELSE Pop(r, CHOOSE i \in own : \A j \in own : i <= j, conflict)

\* Mutant of StartBranch: the branch is hard-coded.
StartBranchMain(r, s) == Main

\* _branche_de_depart: the branch the session started from, if it still exists.
StartBranch(r, s) == IF r.origin[s] \in r.branches THEN r.origin[s] ELSE Main

\* Mutant of Accepted: the branch is deleted without having been merged.
AcceptedUnmerged(r, s, target) == Delete(Checkout(r, target), s)

\* git_finalize_agent_branch on its success path, once it has tried to commit: merged, the
\* branch deleted.
Accepted(r, s, target) == Delete(Merge(Checkout(r, target), s), s)

\* Mutant of Refused: the branch is left before its changes are undone.
RefusedLate(r, s, target) == Delete(Checkout(r, target), s)

\* ... and on its failure path: undone on the ephemeral branch, which is deleted.
Refused(r, s, target) == Delete(Checkout(ResetHard(r), target), s)

\* The safety stash of git_prepare_agent_branch; when it fails the preparation
\* goes on.
Saved(s, fails) == IF fails THEN repo ELSE Push(repo, "user_pre_agent", s)

\* est_worktree_lie.
LinkedWorktree == "linked" \in world

Fails(event) == IF event \in world THEN BOOLEAN ELSE {FALSE}

\* add and commit: nobody reads what they return.
Recorded == {IF fails THEN repo ELSE Commit(repo) : fails \in Fails("commit")}

MayStart ==
  \/ "overlap" \in world
  \/ \A s \in Sessions :
       phase[s] \notin Active \/ ("suspended" \in world /\ phase[s] = "suspended")

\* Engine._prepare_git_branch and git_prepare_agent_branch.  A session whose
\* branch cannot be prepared works in place; a linked worktree is left alone.
Prepare(s) ==
  /\ phase[s] = "idle" /\ MayStart
  /\ IF LinkedWorktree THEN phase' = [phase EXCEPT ![s] = "in_place"] /\ UNCHANGED repo
     ELSE \E stashFails \in Fails("stash"), checkoutFails \in Fails("checkout"),
             popFails \in Fails("conflict") :
            LET saved == Saved(s, stashFails) IN
            IF checkoutFails
            THEN /\ repo' = IF saved = repo THEN repo ELSE Pop(saved, 1, popFails)
                 /\ phase' = [phase EXCEPT ![s] = "in_place"]
            ELSE /\ repo' = [saved EXCEPT !.head = s, !.branches = @ \cup {s},
                                          !.commits[s] = saved.commits[saved.head],
                                          !.origin[s] = saved.head]
                 /\ phase' = [phase EXCEPT ![s] = "working"]
  /\ UNCHANGED <<written, world>>

\* A tool of the session writes a file.
AgentWrites(s, kind) ==
  /\ phase[s] \in {"working", "in_place"}
  /\ <<s, kind>> \notin written
  /\ written' = written \cup {<<s, kind>>}
  /\ repo' = [repo EXCEPT !.tree = @ \cup {<<s, kind>>}]
  /\ UNCHANGED <<phase, world>>

UserWrites(kind) ==
  /\ <<User, kind>> \notin written
  /\ "user_edits" \in world \/ \A s \in Sessions : phase[s] \notin Active
  /\ written' = written \cup {<<User, kind>>}
  /\ repo' = [repo EXCEPT !.tree = @ \cup {<<User, kind>>}]
  /\ UNCHANGED <<phase, world>>

\* The engine leaves with its branch in place; the approved plan goes on.
Suspend(s) ==
  /\ phase[s] = "working"
  /\ phase' = [phase EXCEPT ![s] = "suspended"]
  /\ UNCHANGED <<repo, written, world>>

Resume(s) ==
  /\ phase[s] = "suspended"
  /\ phase' = [phase EXCEPT ![s] = "working"]
  /\ UNCHANGED <<repo, written, world>>

\* A suspended session can only be refused.
MayFinalise(s, success) == phase[s] = "working" \/ (phase[s] = "suspended" /\ ~success)

\* Engine._finalize_git and git_finalize_agent_branch.
Finalise(s, success) ==
  /\ MayFinalise(s, success)
  /\ \E recorded \in Recorded, checkoutFails \in Fails("checkout"),
        mergeFails \in Fails("conflict"), popFails \in Fails("conflict") :
       LET target == StartBranch(repo, s)
           Restored(r) == RestoreUserStash(r, s, popFails)
           Forgotten(r) == [r EXCEPT !.origin[s] = None] IN
       IF checkoutFails
       THEN /\ repo' = Restored(IF success THEN recorded ELSE ResetHard(repo))
            /\ phase' = [phase EXCEPT ![s] = "stuck"]
       ELSE IF ~success
       THEN /\ repo' = Restored(Forgotten(Refused(repo, s, target)))
            /\ phase' = [phase EXCEPT ![s] = "rolled_back"]
       ELSE IF mergeFails
       THEN /\ repo' = Restored(Forgotten(Checkout(recorded, target)))
            /\ phase' = [phase EXCEPT ![s] = "unmerged"]
       ELSE /\ repo' = Restored(Forgotten(Accepted(recorded, s, target)))
            /\ phase' = [phase EXCEPT ![s] = "merged"]
  /\ UNCHANGED <<written, world>>

\* A session without a branch has nothing to finalise.
LeaveInPlace(s) ==
  /\ phase[s] = "in_place"
  /\ phase' = [phase EXCEPT ![s] = "done"]
  /\ UNCHANGED <<repo, written, world>>

\* What the commands of a preparation leave, but for the last one.
PrepareSteps(s) ==
  LET saved == Saved(s, FALSE) IN
  {saved, [saved EXCEPT !.head = s, !.branches = @ \cup {s}, !.commits[s] = saved.commits[saved.head]]}

\* What the commands of a finalisation leave, but for the last one.
FinaliseSteps(s, success) ==
  LET target == StartBranch(repo, s) IN
  IF success
  THEN UNION {{r, Checkout(r, target), Merge(Checkout(r, target), s), Accepted(r, s, target)} :
                r \in Recorded}
  ELSE {ResetHard(repo), Checkout(ResetHard(repo), target), Refused(repo, s, target)}

\* The process dies while s is prepared, works or is finalised, and with it every
\* session at work; a suspended one waits in its row.  Nothing is put back at
\* start-up.
Crash(s) ==
  /\ "crash" \in world
  /\ \/ phase[s] = "idle" /\ MayStart /\ ~LinkedWorktree /\ repo' \in PrepareSteps(s)
     \/ phase[s] \in {"working", "in_place"} /\ UNCHANGED repo
     \/ \E success \in BOOLEAN : MayFinalise(s, success) /\ repo' \in FinaliseSteps(s, success)
  /\ phase' = [t \in Sessions |->
                 IF t = s \/ phase[t] \in {"working", "in_place"} THEN "dead" ELSE phase[t]]
  /\ UNCHANGED <<written, world>>

-----------------------------------------------------------------------------
(* The checkpoint tools of the agents.                                     *)

MayCall(s) == "tools" \in world /\ phase[s] \in {"working", "in_place"}

CreateCheckpoint(s) ==
  /\ MayCall(s) /\ repo.tree # {}
  /\ repo' = Push(repo, "agent_checkpoint", s)
  /\ UNCHANGED <<phase, written, world>>

\* Every entry the engine made is taken for a checkpoint.
PopCheckpoint(r) == IF r.stash = <<>> THEN r ELSE Pop(r, 1, FALSE)

\* git_rollback_checkpoint: reset --hard, clean -fd, pop; refused in a linked
\* worktree.
RollbackCheckpoint(s) ==
  /\ MayCall(s) /\ ~LinkedWorktree
  /\ repo' = PopCheckpoint([repo EXCEPT !.tree = {}])
  /\ UNCHANGED <<phase, written, world>>

ApplyCheckpoint(s) ==
  /\ MayCall(s)
  /\ repo' = PopCheckpoint(repo)
  /\ UNCHANGED <<phase, written, world>>

Next ==
  \/ \E s \in Sessions :
       \/ Prepare(s) \/ Suspend(s) \/ Resume(s) \/ LeaveInPlace(s) \/ Crash(s)
       \/ CreateCheckpoint(s) \/ RollbackCheckpoint(s) \/ ApplyCheckpoint(s)
       \/ \E success \in BOOLEAN : Finalise(s, success)
       \/ \E kind \in Kinds : AgentWrites(s, kind)
  \/ \E kind \in Kinds : UserWrites(kind)

Spec == Init /\ [][Next]_vars

-----------------------------------------------------------------------------
(* Properties.                                                             *)

Committed == UNION {repo.commits[b] : b \in repo.branches}
Stashed == UNION {repo.stash[i].files : i \in DOMAIN repo.stash}
Quiet == \A s \in Sessions : phase[s] \notin Active

\* No change of the user is destroyed: it is in the working tree, in the stash or
\* in a branch (the guarantee of #T318 in git_safety).
UserWorkSafe ==
  \A kind \in Kinds :
    <<User, kind>> \in written => <<User, kind>> \in repo.tree \cup Stashed \cup Committed

\* The worlds where sessions take turns and no command fails but a commit, though the
\* process may die between two of them.
Orderly == world \subseteq {"crash", "commit"}

\* The same, in these worlds or in a linked worktree.
UserWorkKept == Orderly \/ "linked" \in world => UserWorkSafe

\* What the user had not committed is never committed by a session: that is what
\* the safety stash of git_prepare_agent_branch is for.  Edits made while a
\* session runs, and safety stashes popped by the tools, are not covered.
UserWorkPrivate ==
  Orderly \/ "linked" \in world => \A kind \in Kinds : <<User, kind>> \notin Committed

\* An untracked file of the user is never destroyed, even one that appears while
\* a session runs (the reason why the rollback does not run `git clean`).
UntrackedKept ==
  "tools" \notin world /\ <<User, "untracked">> \in written =>
    <<User, "untracked">> \in repo.tree \cup Stashed \cup Committed

\* The safety stash does what it is for: nothing the user wrote is destroyed, and nothing
\* the user had not committed is published.
UserWorkSound == TypeOK /\ UserWorkKept /\ UserWorkPrivate /\ UntrackedKept

\* The work of a session that was merged stays in the repository whatever the sessions that
\* follow do, unless it put some of it aside in a checkpoint.  A commit that fails is not
\* noticed and the session is merged all the same: its work is then not lost, if nothing else
\* fails, but no branch has it.
AcceptedWorkKept ==
  \A c \in written :
    "tools" \notin world /\ c[1] \in Sessions /\ phase[c[1]] = "merged" =>
      /\ "commit" \notin world => c \in Committed
      /\ Orderly => c \in repo.tree \cup Stashed \cup Committed

\* The edits of a session that was rolled back are nowhere, unless it put them
\* aside in a checkpoint.
RefusedWorkGone ==
  \A s \in Sessions :
    "tools" \notin world /\ phase[s] = "rolled_back" => <<s, "tracked">> \notin repo.tree \cup Stashed \cup Committed

\* The repository holds what was accepted and nothing of what was refused.
VerdictsApplied == AcceptedWorkKept /\ RefusedWorkGone

\* When no session is left the repository is on the branch of the user, the
\* ephemeral branches are gone and so are the safety stashes: the two guarantees
\* of git_finalize_agent_branch (#T318).  The checkpoint tools do not keep a
\* session from returning.
BackHome ==
  Quiet => /\ world \in {{}, {"tools"}} \/ "linked" \in world => repo.head = Home
           /\ world = {} => repo.branches = {Home, Main} /\ repo.stash = <<>>

\* A linked worktree is never switched to another branch (#T318).
LinkedUntouched == "linked" \in world => repo.head = Home

\* Whatever the sessions went through, the user finds the repository where it was left.
Returned == BackHome /\ LinkedUntouched
=============================================================================
