------------------------------ MODULE FileGuard -----------------------------
(***************************************************************************)
(* The file tools of the agents (tools/system.py): read_file and           *)
(* write_file, on one path.  Tasks of a plan call them from threads of     *)
(* their own; a lock per path serialises them, and a fingerprint taken by  *)
(* a read is checked by a write, so that what was written in between is    *)
(* not overwritten.                                                        *)
(*                                                                         *)
(* A content is the set of the edits it holds, and a fingerprint is the    *)
(* content it was taken from.  Whatever writes the file otherwise (an      *)
(* editor, the terminal, git) takes no lock.                               *)
(***************************************************************************)
EXTENDS Naturals, FiniteSets

CONSTANTS
  Tasks,     \* the tasks that use the file, each making one edit of its own
  Confined,  \* those whose working directory does not hold the path
  Others,    \* the edits of other programs
  MaxElsewhere,  \* how often other programs touch the file (a bound of the model)
  Missing,   \* the file does not exist, or nothing was read
  Unseen,    \* no fingerprint in _seen_fingerprints
  Nobody     \* holder of the free lock

ASSUME FileGuardConstants ==
  /\ Confined \subseteq Tasks
  /\ Nobody \notin Tasks
  /\ Missing # Unseen
  /\ MaxElsewhere \in Nat

Edits == Tasks \union Others
Content == [edits : SUBSET Edits, state : {"whole", "open", "cut"}]

ASSUME FileGuardContents == Missing \notin Content /\ Unseen \notin Content

VARIABLES
  disk,      \* the file
  seen,      \* _seen_fingerprints of the path
  lock,      \* holder of the lock of the path
  pc,        \* where each task is in its call
  got,       \* content, in read_file
  existed,   \* existed, in write_file
  base,      \* the content each task works from: what its last read returned or its last write put
  \* Kept by the model alone:
  passed,    \* tasks past which the fingerprint went: it is not that of what they last received
  elsewhere, \* how often other programs did
  blind,     \* edits that other programs made while a task held the lock
  lost       \* edits overwritten by a task that `passed' does not excuse

guard == <<seen, lock>>
vars == <<disk, guard, pc, got, existed, base, passed, elsewhere, blind, lost>>

TypeOK ==
  /\ disk \in Content \union {Missing}
  /\ seen \in Content \union {Unseen}
  /\ lock \in Tasks \union {Nobody}
  /\ pc \in [Tasks -> {"idle", "looked", "reading", "stamping",
                       "guarding", "opening", "filling", "signing"}]
  /\ got \in [Tasks -> Content \union {Missing}]
  /\ existed \in [Tasks -> BOOLEAN]
  /\ base \in [Tasks -> Content \union {Missing}]
  /\ passed \subseteq Tasks
  /\ elsewhere \in 0 .. MaxElsewhere
  /\ blind \subseteq Others
  /\ lost \subseteq Edits

Init ==
  /\ disk \in {Missing, [edits |-> {}, state |-> "whole"]}
  /\ seen = Unseen
  /\ lock = Nobody
  /\ pc = [t \in Tasks |-> "idle"]
  /\ got = [t \in Tasks |-> Missing]
  /\ existed = [t \in Tasks |-> FALSE]
  /\ base = [t \in Tasks |-> Missing]
  /\ passed = Tasks
  /\ elsewhere = 0 /\ blind = {} /\ lost = {}

Goto(t, l) == pc' = [pc EXCEPT ![t] = l]

\* _lock_for: one lock for the path.
Acquire(t) == lock = Nobody /\ lock' = t

Release(t) ==
  /\ lock' = Nobody
  /\ existed' = [existed EXCEPT ![t] = FALSE]
  /\ Goto(t, "idle")

-----------------------------------------------------------------------------
(* read_file.                                                              *)

\* The existence is checked before the lock is taken.
Look(t) ==
  /\ pc[t] = "idle" /\ disk # Missing
  /\ Goto(t, "looked")
  /\ UNCHANGED <<disk, guard, got, existed, base, passed, elsewhere, blind, lost>>

LockToRead(t) ==
  /\ pc[t] = "looked"
  /\ Acquire(t)
  /\ Goto(t, "reading")
  /\ UNCHANGED <<disk, seen, got, existed, base, passed, elsewhere, blind, lost>>

Read(t) ==
  /\ pc[t] = "reading" /\ disk # Missing
  /\ got' = [got EXCEPT ![t] = disk]
  /\ Goto(t, "stamping")
  /\ UNCHANGED <<disk, guard, existed, base, passed, elsewhere, blind, lost>>

\* Mutant of Stamped: the fingerprint of the first reading is kept.
StampedOnce == IF seen = Unseen THEN disk ELSE seen

\* The fingerprint is not that of the text just read: the file is read once more.
Stamped == disk

Stamp(t) ==
  /\ pc[t] = "stamping" /\ disk # Missing
  /\ seen' = Stamped
  /\ base' = [base EXCEPT ![t] = got[t]]
  /\ passed' = Tasks \ {t}
  /\ Release(t)
  /\ UNCHANGED <<disk, got, elsewhere, blind, lost>>

\* The fingerprint is taken, and the text is not delivered: optimize_file_read raises, or
\* hands a summary over instead.  Nobody has received what the fingerprint is of.
Undelivered(t) ==
  /\ pc[t] = "stamping" /\ disk # Missing
  /\ seen' = Stamped
  /\ passed' = Tasks
  /\ got' = [got EXCEPT ![t] = Missing]
  /\ Release(t)
  /\ UNCHANGED <<disk, base, elsewhere, blind, lost>>

-----------------------------------------------------------------------------
(* write_file.                                                             *)

\* _refus_hors_depot_de_travail: a task with a working directory writes under it only.
Allowed(t) == t \notin Confined

LockToWrite(t) ==
  /\ pc[t] = "idle" /\ Allowed(t)
  /\ Acquire(t)
  /\ existed' = [existed EXCEPT ![t] = disk # Missing]
  /\ Goto(t, "guarding")
  /\ UNCHANGED <<disk, seen, got, base, passed, elsewhere, blind, lost>>

\* The file was read through the tools, and is not what was read.
Stale(t) == existed[t] /\ seen # Unseen /\ disk # seen

Refuse(t) ==
  /\ pc[t] = "guarding" /\ Stale(t)
  /\ Release(t)
  /\ UNCHANGED <<disk, seen, got, base, passed, elsewhere, blind, lost>>

Accept(t) ==
  /\ pc[t] = "guarding" /\ ~Stale(t)
  /\ Goto(t, "opening")
  /\ UNCHANGED <<disk, guard, got, existed, base, passed, elsewhere, blind, lost>>

EditsOf(c) == IF c = Missing THEN {} ELSE c.edits

\* The edits of the file that t puts an end to, text being what it leaves instead.
Covered(t, text) == IF t \in passed THEN {} ELSE EditsOf(disk) \ EditsOf(text)

Emptied == [edits |-> {}, state |-> "open"]

\* open(..., 'w') empties the file.
Open(t) ==
  /\ pc[t] = "opening"
  /\ disk' = Emptied
  /\ lost' = lost \union Covered(t, base[t])
  /\ Goto(t, "filling")
  /\ UNCHANGED <<guard, got, existed, base, passed, elsewhere, blind>>

\* What comes of the file that was opened: the text, unless another program replaced or
\* removed the file meanwhile, whose version may then stand.
Lands(text) == disk' \in {text} \union (IF disk = Emptied THEN {} ELSE {disk})

\* What the task writes: what it knows of the file, with its own edit.
Fill(t) ==
  LET text == [edits |-> EditsOf(base[t]) \union {t}, state |-> "whole"] IN
  /\ pc[t] = "filling"
  /\ Lands(text)
  /\ lost' = lost \union (IF disk' = text THEN Covered(t, text) ELSE {})
  /\ base' = [base EXCEPT ![t] = text]
  /\ got' = [got EXCEPT ![t] = Missing]
  /\ Goto(t, "signing")
  /\ UNCHANGED <<guard, existed, passed, elsewhere, blind>>

\* Mutant of Signed: the fingerprint follows every write.
SignedAlways(t) == disk

\* The fingerprint after a write: the author of a new file knows what it holds; after a
\* modification the fingerprint stays, and the file must be read again.
Signed(t) == IF existed[t] THEN seen ELSE disk

Sign(t) ==
  /\ pc[t] = "signing" /\ (existed[t] \/ disk # Missing)
  /\ seen' = Signed(t)
  /\ passed' = IF existed[t] THEN passed ELSE Tasks \ {t}
  /\ Release(t)
  /\ UNCHANGED <<disk, got, base, elsewhere, blind, lost>>

-----------------------------------------------------------------------------
(* Failures, and the other programs.                                       *)

\* The file disappeared under the call: the error is returned, and nothing is learnt.
Vanished(t) ==
  /\ disk = Missing
  /\ pc[t] \in {"reading", "stamping"} \/ (pc[t] = "signing" /\ ~existed[t])
  /\ got' = [got EXCEPT ![t] = Missing]
  /\ Release(t)
  /\ UNCHANGED <<disk, seen, base, passed, elsewhere, blind, lost>>

\* Mutant of LearntOfFailure: the fingerprint is taken whether the write failed or not.
SignedAnyhow == disk'

\* A write that fails teaches the guard nothing.
LearntOfFailure == seen

Torn == [edits |-> {}, state |-> "cut"]

\* The write fails (full disk, text that cannot be encoded): the file stays cut, and what
\* it held is gone.
WriteFails(t) ==
  /\ pc[t] = "filling"
  /\ Lands(Torn)
  /\ lost' = lost \union (IF disk' = Torn THEN Covered(t, Torn) ELSE {})
  /\ seen' = LearntOfFailure
  /\ Release(t)
  /\ UNCHANGED <<got, base, passed, elsewhere, blind>>

\* Another program edits the file, or deletes it, in one step.
Elsewhere(x) ==
  /\ elsewhere < MaxElsewhere /\ elsewhere' = elsewhere + 1
  /\ \/ disk' = [edits |-> EditsOf(disk) \union {x}, state |-> "whole"]
     \/ disk # Missing /\ disk' = Missing
  /\ blind' = IF lock # Nobody THEN blind \union {x} ELSE blind
  /\ UNCHANGED <<guard, pc, got, existed, base, passed, lost>>

Next ==
  \/ \E t \in Tasks :
       \/ Look(t) \/ LockToRead(t) \/ Read(t) \/ Stamp(t) \/ Undelivered(t)
       \/ LockToWrite(t) \/ Refuse(t) \/ Accept(t) \/ Open(t) \/ Fill(t) \/ Sign(t)
       \/ Vanished(t) \/ WriteFails(t)
  \/ \E x \in Others : Elsewhere(x)

Spec == Init /\ [][Next]_vars

-----------------------------------------------------------------------------
(* Properties.                                                             *)

\* A read never returns what a task is still filling ("jamais de contenu lu à moitié
\* pendant qu'une autre tâche écrit").  It returns what a failed write left: that file is
\* cut, and nobody is writing it any more.
NoHalfRead == \A t \in Tasks : base[t] # Missing => base[t].state # "open"

\* A task that wrote nothing since its reading, the last one, writes over the very file it
\* has read: a write that failed in between, its own or another's, left a cut file, and the
\* task is refused until that file is read.
OverWhatWasRead ==
  \A t \in Tasks :
    pc[t] = "opening" /\ t \notin passed /\ got[t] = base[t] /\ blind = {}
      => disk \in {base[t], Missing}

\* No task takes for the file what a write has emptied: neither during the write, nor, to
\* write over it, after the write has failed.
ReadsSound == TypeOK /\ NoHalfRead /\ OverWhatWasRead

\* The anti-lost-update guard: a task that read the file, and whose reading no other task
\* repeated, overwrites no edit, except what another program did during its call.
NoLostUpdate == lost \subseteq blind

\* The guard does not refuse a task whose reading is the last one and is what the file holds.
NoFalseAlarm ==
  \A t \in Tasks :
    t \notin passed /\ pc[t] = "guarding" /\ blind = {} /\ got[t] = base[t] /\ disk = base[t]
      => ~Stale(t)
=============================================================================
