---------------------------- MODULE EffectsProofs --------------------------
(***************************************************************************)
(* Theorems about what is done outside the process: the files written      *)
(* under the file guard (FileGuard) and the devices commanded and results  *)
(* announced by voice (VoiceTurn, HomeCall, VoiceJob).  The two have no    *)
(* variable in common.                                                     *)
(*                                                                         *)
(* The file guard, for any number of tasks and any other programs: a task  *)
(* in the critical section of the path holds its lock (Exclusive), hence   *)
(* the file that is open for writing is nobody else's to read; every edit  *)
(* between what a task knows of the file and what the file, or the         *)
(* fingerprint, holds was made by another program while a task had the     *)
(* lock (Known); and as long as there is none, the file a write opens is   *)
(* the one of the fingerprint (Fresh).                                     *)
(***************************************************************************)
EXTENDS FileGuard, VoiceTurn, TLAPS

Locked == {"reading", "stamping", "guarding", "opening", "filling", "signing"}

Exclusive == \A t \in Tasks : pc[t] \in Locked => lock = t

\* The file is open only while a task fills it.
OpenToOne ==
  disk # Missing /\ disk.state = "open" => disk = Emptied /\ \E t \in Tasks : pc[t] = "filling"

WholeReads == \A t \in Tasks : got[t] # Missing => got[t].state # "open"

\* The edits of c that d does not hold.
Beyond(c, d) == EditsOf(c) \ EditsOf(d)

Known ==
  \A t \in Tasks :
    /\ pc[t] = "stamping" => got[t] # Missing /\ Beyond(disk, got[t]) \subseteq blind
    /\ pc[t] = "signing" =>
         got[t] = Missing /\ base[t] # Missing /\ Beyond(disk, base[t]) \subseteq blind
    /\ pc[t] \in {"guarding", "opening"} /\ ~existed[t] => EditsOf(disk) \subseteq blind
    /\ pc[t] = "opening" /\ t \notin passed => Beyond(disk, base[t]) \subseteq blind
    /\ pc[t] = "filling" => EditsOf(disk) \subseteq blind
    /\ t \notin passed =>
         seen # Unseen /\ base[t] # Missing /\ Beyond(seen, base[t]) \subseteq blind

\* As long as no other program came in, the fingerprint is that of the last reading.
Fresh ==
  blind = {} => \A t \in Tasks :
    /\ pc[t] = "stamping" => disk = got[t]
    /\ t \notin passed /\ pc[t] # "stamping" /\ got[t] = base[t] => seen = base[t]
    /\ pc[t] \in {"guarding", "opening"} /\ ~existed[t] => disk = Missing
    /\ pc[t] = "opening" /\ existed[t] /\ seen # Unseen => disk = seen

Inv ==
  /\ TypeOK /\ Exclusive /\ OpenToOne /\ WholeReads /\ NoHalfRead
  /\ Known /\ NoLostUpdate /\ Fresh

-----------------------------------------------------------------------------

LEMMA EditsType == ASSUME NEW c \in Content \union {Missing} PROVE EditsOf(c) \subseteq Edits
BY DEF EditsOf, Content

LEMMA Initially == Init => Inv
<1> SUFFICES ASSUME Init PROVE Inv
  OBVIOUS
<1> USE FileGuardConstants, FileGuardContents
<1>1. TypeOK
  BY DEF Init, TypeOK, Content
<1>2. QED
  BY <1>1 DEF Init, Inv, Exclusive, OpenToOne, WholeReads, NoHalfRead, Known, NoLostUpdate, Fresh,
              Locked

LEMMA LookStep == ASSUME Inv, NEW t \in Tasks, Look(t) PROVE Inv'
<1> USE FileGuardConstants, FileGuardContents DEF Inv, Look, guard, Goto, Acquire, Release
<1>1. TypeOK'
  BY DEF TypeOK, Content, Stamped, Signed
<1>2. Exclusive'
  BY DEF TypeOK, Exclusive, Locked
<1>3. OpenToOne' /\ WholeReads' /\ NoHalfRead'
  BY DEF TypeOK, Content, Exclusive, Locked, OpenToOne, WholeReads, NoHalfRead
<1>4. Known'
  BY DEF TypeOK, Exclusive, Locked, Known, Beyond
<1>5. NoLostUpdate'
  BY DEF TypeOK, NoLostUpdate, Known, Beyond
<1>6. Fresh'
  BY DEF TypeOK, Exclusive, Locked, Fresh, Known
<1>7. QED
  BY <1>1, <1>2, <1>3, <1>4, <1>5, <1>6

LEMMA LockToReadStep == ASSUME Inv, NEW t \in Tasks, LockToRead(t) PROVE Inv'
<1> USE FileGuardConstants, FileGuardContents DEF Inv, LockToRead, guard, Goto, Acquire, Release
<1>1. TypeOK'
  BY DEF TypeOK, Content, Stamped, Signed
<1>2. Exclusive'
  BY DEF TypeOK, Exclusive, Locked
<1>3. OpenToOne' /\ WholeReads' /\ NoHalfRead'
  BY DEF TypeOK, Content, Exclusive, Locked, OpenToOne, WholeReads, NoHalfRead
<1>4. Known'
  BY DEF TypeOK, Exclusive, Locked, Known, Beyond
<1>5. NoLostUpdate'
  BY DEF TypeOK, NoLostUpdate, Known, Beyond
<1>6. Fresh'
  BY DEF TypeOK, Exclusive, Locked, Fresh, Known
<1>7. QED
  BY <1>1, <1>2, <1>3, <1>4, <1>5, <1>6

LEMMA ReadStep == ASSUME Inv, NEW t \in Tasks, Read(t) PROVE Inv'
<1> USE FileGuardConstants, FileGuardContents DEF Inv, Read, guard, Goto, Acquire, Release
<1>1. TypeOK'
  BY DEF TypeOK, Content, Stamped, Signed
<1>2. Exclusive'
  BY DEF TypeOK, Exclusive, Locked
<1>3. OpenToOne' /\ WholeReads' /\ NoHalfRead'
  BY DEF TypeOK, Content, Exclusive, Locked, OpenToOne, WholeReads, NoHalfRead
<1>4. Known'
  BY DEF TypeOK, Exclusive, Locked, Known, Beyond
<1>5. NoLostUpdate'
  BY DEF TypeOK, NoLostUpdate, Known, Beyond
<1>6. Fresh'
  BY DEF TypeOK, Exclusive, Locked, Fresh, Known
<1>7. QED
  BY <1>1, <1>2, <1>3, <1>4, <1>5, <1>6

LEMMA StampStep == ASSUME Inv, NEW t \in Tasks, Stamp(t) PROVE Inv'
<1> USE FileGuardConstants, FileGuardContents DEF Inv, Stamp, guard, Goto, Acquire, Release
<1>1. TypeOK'
  BY DEF TypeOK, Content, Stamped, Signed
<1>2. Exclusive'
  BY DEF TypeOK, Exclusive, Locked
<1>3. OpenToOne' /\ WholeReads' /\ NoHalfRead'
  BY DEF TypeOK, Content, Exclusive, Locked, OpenToOne, WholeReads, NoHalfRead
<1>4. Known'
  BY DEF TypeOK, Exclusive, Locked, Known, Beyond, Stamped
<1>5. NoLostUpdate'
  BY DEF TypeOK, NoLostUpdate, Known, Beyond
<1>6. Fresh'
  BY DEF TypeOK, Exclusive, Locked, Fresh, Known, Stamped
<1>7. QED
  BY <1>1, <1>2, <1>3, <1>4, <1>5, <1>6

LEMMA UndeliveredStep == ASSUME Inv, NEW t \in Tasks, Undelivered(t) PROVE Inv'
<1> USE FileGuardConstants, FileGuardContents DEF Inv, Undelivered, guard, Goto, Acquire, Release
<1>1. TypeOK'
  BY DEF TypeOK, Content, Stamped, Signed
<1>2. Exclusive'
  BY DEF TypeOK, Exclusive, Locked
<1>3. OpenToOne' /\ WholeReads' /\ NoHalfRead'
  BY DEF TypeOK, Content, Exclusive, Locked, OpenToOne, WholeReads, NoHalfRead
<1>4. Known'
  BY DEF TypeOK, Exclusive, Locked, Known, Beyond, Stamped
<1>5. NoLostUpdate'
  BY DEF TypeOK, NoLostUpdate, Known, Beyond
<1>6. Fresh'
  BY DEF TypeOK, Exclusive, Locked, Fresh, Known, Stamped
<1>7. QED
  BY <1>1, <1>2, <1>3, <1>4, <1>5, <1>6

LEMMA LockToWriteStep == ASSUME Inv, NEW t \in Tasks, LockToWrite(t) PROVE Inv'
<1> USE FileGuardConstants, FileGuardContents DEF Inv, LockToWrite, guard, Goto, Acquire, Release
<1>1. TypeOK'
  BY DEF TypeOK, Content, Stamped, Signed
<1>2. Exclusive'
  BY DEF TypeOK, Exclusive, Locked
<1>3. OpenToOne' /\ WholeReads' /\ NoHalfRead'
  BY DEF TypeOK, Content, Exclusive, Locked, OpenToOne, WholeReads, NoHalfRead
<1>4. Known'
  BY DEF TypeOK, Exclusive, Locked, Known, Beyond, EditsOf
<1>5. NoLostUpdate'
  BY DEF TypeOK, NoLostUpdate, Known, Beyond
<1>6. Fresh'
  BY DEF TypeOK, Exclusive, Locked, Fresh, Known
<1>7. QED
  BY <1>1, <1>2, <1>3, <1>4, <1>5, <1>6

LEMMA RefuseStep == ASSUME Inv, NEW t \in Tasks, Refuse(t) PROVE Inv'
<1> USE FileGuardConstants, FileGuardContents DEF Inv, Refuse, guard, Goto, Acquire, Release
<1>1. TypeOK'
  BY DEF TypeOK, Content, Stamped, Signed
<1>2. Exclusive'
  BY DEF TypeOK, Exclusive, Locked
<1>3. OpenToOne' /\ WholeReads' /\ NoHalfRead'
  BY DEF TypeOK, Content, Exclusive, Locked, OpenToOne, WholeReads, NoHalfRead
<1>4. Known'
  BY DEF TypeOK, Exclusive, Locked, Known, Beyond
<1>5. NoLostUpdate'
  BY DEF TypeOK, NoLostUpdate, Known, Beyond
<1>6. Fresh'
  BY DEF TypeOK, Exclusive, Locked, Fresh, Known
<1>7. QED
  BY <1>1, <1>2, <1>3, <1>4, <1>5, <1>6

LEMMA AcceptStep == ASSUME Inv, NEW t \in Tasks, Accept(t) PROVE Inv'
<1> USE FileGuardConstants, FileGuardContents DEF Inv, Accept, guard, Goto, Acquire, Release
<1>1. TypeOK'
  BY DEF TypeOK, Content, Stamped, Signed
<1>2. Exclusive'
  BY DEF TypeOK, Exclusive, Locked
<1>3. OpenToOne' /\ WholeReads' /\ NoHalfRead'
  BY DEF TypeOK, Content, Exclusive, Locked, OpenToOne, WholeReads, NoHalfRead
<1>4. Known'
  BY DEF TypeOK, Exclusive, Locked, Known, Beyond, Stale
<1>5. NoLostUpdate'
  BY DEF TypeOK, NoLostUpdate, Known, Beyond
<1>6. Fresh'
  BY DEF TypeOK, Exclusive, Locked, Fresh, Known, Stale
<1>7. QED
  BY <1>1, <1>2, <1>3, <1>4, <1>5, <1>6

LEMMA OpenStep == ASSUME Inv, NEW t \in Tasks, Open(t) PROVE Inv'
<1> USE FileGuardConstants, FileGuardContents DEF Inv, Open, guard, Goto, Acquire, Release
<1>0. EditsOf(disk') = {} /\ disk' \in Content
  BY DEF EditsOf, Emptied, Content
<1>1. TypeOK'
  <2>1. EditsOf(disk) \subseteq Edits
    BY EditsType DEF TypeOK
  <2>2. QED
    BY <1>0, <2>1 DEF TypeOK, Covered
<1>2. Exclusive'
  BY DEF TypeOK, Exclusive, Locked
<1>3. OpenToOne' /\ WholeReads' /\ NoHalfRead'
  BY DEF TypeOK, Content, Exclusive, Locked, OpenToOne, WholeReads, NoHalfRead, Emptied
<1>4. Known'
  BY <1>0 DEF TypeOK, Exclusive, Locked, Known, Beyond
<1>5. NoLostUpdate'
  BY DEF TypeOK, NoLostUpdate, Known, Beyond, Covered
<1>6. Fresh'
  BY DEF TypeOK, Exclusive, Locked, Fresh, Known
<1>7. QED
  BY <1>1, <1>2, <1>3, <1>4, <1>5, <1>6

LEMMA FillStep == ASSUME Inv, NEW t \in Tasks, Fill(t) PROVE Inv'
<1> USE FileGuardConstants, FileGuardContents DEF Inv, guard, Goto, Acquire, Release
<1> DEFINE text == [edits |-> EditsOf(base[t]) \union {t}, state |-> "whole"]
<1>0. /\ text \in Content /\ EditsOf(text) = EditsOf(base[t]) \union {t}
      /\ text # Missing /\ text.state = "whole"
  <2>1. EditsOf(base[t]) \subseteq Edits
    BY EditsType DEF TypeOK
  <2>2. text \in Content
    BY <2>1 DEF Content, Edits
  <2>3. QED
    BY <2>2 DEF EditsOf
<1>1. /\ pc[t] = "filling" /\ pc' = [pc EXCEPT ![t] = "signing"]
      /\ base' = [base EXCEPT ![t] = text] /\ got' = [got EXCEPT ![t] = Missing]
      /\ seen' = seen /\ lock' = lock /\ existed' = existed /\ passed' = passed
      /\ elsewhere' = elsewhere /\ blind' = blind
      /\ disk' = text \/ (disk' = disk /\ disk # Emptied)
      /\ lost' \subseteq lost \union EditsOf(disk)
  BY DEF Fill, Lands, Covered
<1> HIDE DEF text
<1>2. TypeOK'
  <2>1. EditsOf(disk) \subseteq Edits
    BY EditsType DEF TypeOK
  <2>2. lost' \subseteq Edits
    BY <1>1, <2>1 DEF TypeOK
  <2>3. QED
    BY <1>0, <1>1, <2>2 DEF TypeOK
<1>3. Exclusive'
  BY <1>1 DEF TypeOK, Exclusive, Locked
<1>4. OpenToOne' /\ WholeReads' /\ NoHalfRead'
  BY <1>0, <1>1 DEF TypeOK, Exclusive, Locked, OpenToOne, WholeReads, NoHalfRead
<1>5. Known'
  BY <1>0, <1>1 DEF TypeOK, Exclusive, Locked, Known, Beyond
<1>6. NoLostUpdate'
  BY <1>1 DEF TypeOK, NoLostUpdate, Known
<1>7. Fresh'
  BY <1>0, <1>1 DEF TypeOK, Exclusive, Locked, Fresh, Known
<1>8. QED
  BY <1>2, <1>3, <1>4, <1>5, <1>6, <1>7

LEMMA SignStep == ASSUME Inv, NEW t \in Tasks, Sign(t) PROVE Inv'
<1> USE FileGuardConstants, FileGuardContents DEF Inv, Sign, guard, Goto, Acquire, Release
<1>1. TypeOK'
  BY DEF TypeOK, Content, Stamped, Signed
<1>2. Exclusive'
  BY DEF TypeOK, Exclusive, Locked
<1>3. OpenToOne' /\ WholeReads' /\ NoHalfRead'
  BY DEF TypeOK, Content, Exclusive, Locked, OpenToOne, WholeReads, NoHalfRead
<1>4. Known'
  BY DEF TypeOK, Exclusive, Locked, Known, Beyond, Signed
<1>5. NoLostUpdate'
  BY DEF TypeOK, NoLostUpdate, Known, Beyond
<1>6. Fresh'
  BY DEF TypeOK, Exclusive, Locked, Fresh, Known, Signed
<1>7. QED
  BY <1>1, <1>2, <1>3, <1>4, <1>5, <1>6

LEMMA VanishedStep == ASSUME Inv, NEW t \in Tasks, Vanished(t) PROVE Inv'
<1> USE FileGuardConstants, FileGuardContents DEF Inv, Vanished, guard, Goto, Acquire, Release
<1>1. TypeOK'
  BY DEF TypeOK, Content, Stamped, Signed
<1>2. Exclusive'
  BY DEF TypeOK, Exclusive, Locked
<1>3. OpenToOne' /\ WholeReads' /\ NoHalfRead'
  BY DEF TypeOK, Content, Exclusive, Locked, OpenToOne, WholeReads, NoHalfRead
<1>4. Known'
  BY DEF TypeOK, Exclusive, Locked, Known, Beyond
<1>5. NoLostUpdate'
  BY DEF TypeOK, NoLostUpdate, Known, Beyond
<1>6. Fresh'
  BY DEF TypeOK, Exclusive, Locked, Fresh, Known
<1>7. QED
  BY <1>1, <1>2, <1>3, <1>4, <1>5, <1>6

LEMMA WriteFailsStep == ASSUME Inv, NEW t \in Tasks, WriteFails(t) PROVE Inv'
<1> USE FileGuardConstants, FileGuardContents DEF Inv, guard, Goto, Acquire, Release
<1>0. Torn \in Content /\ EditsOf(Torn) = {} /\ Torn # Missing /\ Torn.state = "cut"
  BY DEF Torn, Content, EditsOf
<1>1. /\ pc[t] = "filling" /\ pc' = [pc EXCEPT ![t] = "idle"]
      /\ existed' = [existed EXCEPT ![t] = FALSE] /\ lock' = Nobody
      /\ base' = base /\ got' = got /\ seen' = seen /\ passed' = passed
      /\ elsewhere' = elsewhere /\ blind' = blind
      /\ disk' = Torn \/ (disk' = disk /\ disk # Emptied)
      /\ lost' \subseteq lost \union EditsOf(disk)
  BY DEF WriteFails, Lands, Covered, LearntOfFailure
<1>2. TypeOK'
  <2>1. EditsOf(disk) \subseteq Edits
    BY EditsType DEF TypeOK
  <2>2. lost' \subseteq Edits
    BY <1>1, <2>1 DEF TypeOK
  <2>3. QED
    BY <1>0, <1>1, <2>2 DEF TypeOK
<1>3. Exclusive'
  BY <1>1 DEF TypeOK, Exclusive, Locked
<1>4. OpenToOne' /\ WholeReads' /\ NoHalfRead'
  BY <1>0, <1>1 DEF TypeOK, Exclusive, Locked, OpenToOne, WholeReads, NoHalfRead
<1>5. Known'
  BY <1>0, <1>1 DEF TypeOK, Exclusive, Locked, Known, Beyond
<1>6. NoLostUpdate'
  BY <1>1 DEF TypeOK, NoLostUpdate, Known
<1>7. Fresh'
  BY <1>0, <1>1 DEF TypeOK, Exclusive, Locked, Fresh, Known
<1>8. QED
  BY <1>2, <1>3, <1>4, <1>5, <1>6, <1>7

LEMMA ElsewhereStep == ASSUME Inv, NEW x \in Others, Elsewhere(x) PROVE Inv'
<1> USE FileGuardConstants, FileGuardContents DEF Inv, Elsewhere, guard
<1>1. TypeOK'
  BY DEF TypeOK, Content, Edits, EditsOf
<1>2. Exclusive'
  BY DEF TypeOK, Exclusive, Locked
<1>3. OpenToOne' /\ WholeReads' /\ NoHalfRead'
  BY DEF TypeOK, Content, Exclusive, Locked, OpenToOne, WholeReads, NoHalfRead
<1>4. EditsOf(disk') \subseteq EditsOf(disk) \union {x}
  BY DEF EditsOf
<1>5. Known'
  BY <1>4 DEF TypeOK, Exclusive, Locked, Known, Beyond
<1>6. NoLostUpdate'
  BY DEF TypeOK, NoLostUpdate, Known, Beyond
<1>7. Fresh'
  BY DEF TypeOK, Exclusive, Locked, Fresh, Known
<1>8. QED
  BY <1>1, <1>2, <1>3, <1>5, <1>6, <1>7

\* The inductive invariant of the guard.
THEOREM GuardHolds == Spec => []Inv
<1>1. Inv /\ [Next]_vars => Inv'
  <2> SUFFICES ASSUME Inv, [Next]_vars PROVE Inv'
    OBVIOUS
  <2>1. CASE UNCHANGED vars
    BY <2>1 DEF vars, guard, Inv, TypeOK, Exclusive, OpenToOne, WholeReads, NoHalfRead, Known,
         Beyond,
                EditsOf, NoLostUpdate, Fresh
  <2>2. CASE Next
    BY <2>2, LookStep, LockToReadStep, ReadStep, StampStep, UndeliveredStep, LockToWriteStep, RefuseStep, AcceptStep,
       OpenStep, FillStep, SignStep, VanishedStep, WriteFailsStep, ElsewhereStep DEF Next
  <2>3. QED
    BY <2>1, <2>2
<1>2. QED
  BY Initially, <1>1, PTL DEF Spec

\* Whatever the tasks and the other programs do, and whichever writes fail, no task has
\* read a file that another one was filling, nor writes, on its own last reading, over
\* another file than the one it has read: not over one that a failed write has cut.
THEOREM ReadsAlwaysSound == Spec => []ReadsSound
<1>1. Inv => ReadsSound
  BY DEF Inv, ReadsSound, OverWhatWasRead, Fresh, Known
<1>2. QED
  BY <1>1, GuardHolds, PTL

\* A task whose reading is the last one overwrites no edit, except those another program
\* made while a task held the lock.
THEOREM UpdatesKept == Spec => []NoLostUpdate
<1>1. Inv => NoLostUpdate
  BY DEF Inv
<1>2. QED
  BY <1>1, GuardHolds, PTL

\* Nor is such a task refused when the file is what it has read.
THEOREM NeverRefusedForNothing == Spec => []NoFalseAlarm
<1>1. Inv => NoFalseAlarm
  BY DEF Inv, Fresh, NoFalseAlarm, Stale
<1>2. QED
  BY <1>1, GuardHolds, PTL

-----------------------------------------------------------------------------
(* The voice, for any number of utterances.  What was done is known from   *)
(* the step a call has reached, whatever was cut before: a call that is to *)
(* be sent has found its device, unless it could not look or the device    *)
(* changed since (CallSound); nothing lasting precedes the answer of a     *)
(* turn (TurnSound); a job says something only where it ends (JobSound).   *)

\* What is known of the call of an utterance while it is under way and when it comes back.
CallSound(u) ==
  /\ call[u].step = "members" => call[u].left > 0
  /\ call[u].service = "shutter" =>
       /\ strokes[u] <= 1
       /\ call[u].step \notin {"early", "members"}
       /\ call[u].step \in {"check", "post"} => strokes[u] = 0
  /\ call[u].step \in {"early", "post", "members"} => Sound(u) \/ doubtful[u]
  /\ call[u].step = "ok" \/ call[u].any => strokes[u] > 0 \/ doubtful[u]

\* A turn that was not answered has done nothing that lasts, and one that is over has no call.
TurnSound(u) ==
  /\ stage[u] \in {"new", "end"} => call[u].step = "idle"
  /\ stage[u] # "end" =>
       answer[u] = "none" /\ recorded[u] = 0 /\ worker[u] = "none" /\ heard[u] = {} /\ row[u] = "none"
  /\ answer[u] = "done" => strokes[u] > 0 \/ doubtful[u]

\* A job belongs to an acknowledged turn, records its result once, and says one thing last.
JobSound(u) ==
  /\ worker[u] # "none" => answer[u] = "ack" /\ recorded[u] <= 1
  /\ worker[u] \in {"start", "work"} => recorded[u] = 0
  /\ worker[u] # "over" => heard[u] = {}
  /\ heard[u] # {"result", "apology"}
  /\ row[u] = "error" => worker[u] \in {"sorry", "over"} /\ "result" \notin heard[u]

CallsSound == HomeTypeOK /\ \A u \in Turns : CallSound(u)

\* The call of u, and what the house did of it, become c, n and d, and no more.
CallGoesOn(u, c, n, d) ==
  /\ call' = [call EXCEPT ![u] = c]
  /\ strokes' = [strokes EXCEPT ![u] = n]
  /\ doubtful' = [doubtful EXCEPT ![u] = d]
  /\ UNCHANGED houseVars

\* It does so soundly.
CallMoves(u, c, n, d) ==
  /\ CallGoesOn(u, c, n, d)
  /\ c.step # "idle" /\ c.service = call[u].service
  /\ c.step = "members" => c.left > 0
  /\ c.service = "shutter" =>
       n <= 1 /\ c.step \notin {"early", "members"} /\ (c.step \in {"check", "post"} => n = 0)
  /\ c.step \in {"early", "post", "members"} => Sound(u) \/ d
  /\ c.step = "ok" \/ c.any => n > 0 \/ d

CallStates == [service : Services \union {"none"}, step : Steps,
               tries : 0 .. 1, left : 0 .. Members, any : BOOLEAN]

LEMMA NoCallType ==
  /\ NoCall \in CallStates
  /\ \A s \in Services : [NoCall EXCEPT !.service = s, !.step = "check"] \in CallStates
<1>1. NoCall \in CallStates
  BY DEF NoCall, CallStates, Steps, Members
<1>2. "check" \in Steps
  BY DEF Steps
<1>3. QED
  BY <1>1, <1>2 DEF CallStates

LEMMA HangUpType ==
  ASSUME HomeTypeOK, NEW u, NEW told \in BOOLEAN, HangUp(u, told), UNCHANGED houseVars
  PROVE  HomeTypeOK'
<1>1. call' \in [Turns -> CallStates]
  BY NoCallType DEF HomeTypeOK, HangUp, CallStates
<1>2. strokes' \in [Turns -> 0 .. 2]
  <2> DEFINE n == IF told /\ strokes[u] > 0 THEN 1 ELSE 0
  <2>1. n \in 0 .. 2 /\ strokes' = [strokes EXCEPT ![u] = n]
    BY DEF HangUp
  <2> HIDE DEF n
  <2>2. QED
    BY <2>1 DEF HomeTypeOK
<1>3. (told /\ doubtful[u]) \in BOOLEAN
  OBVIOUS
<1>4. doubtful' \in [Turns -> BOOLEAN]
  <2> DEFINE d == told /\ doubtful[u]
  <2>1. doubtful' = [doubtful EXCEPT ![u] = d]
    BY DEF HangUp
  <2>2. d \in BOOLEAN
    BY <1>3
  <2> HIDE DEF d
  <2>3. QED
    BY <2>1, <2>2 DEF HomeTypeOK
<1>5. QED
  BY <1>1, <1>2, <1>4 DEF HomeTypeOK, CallStates, houseVars

LEMMA CallStepIs ==
  ASSUME CallsSound, NEW u \in Turns, CallStep(u)
  PROVE  \E c \in CallStates, n \in 0 .. 2, d \in BOOLEAN : CallMoves(u, c, n, d)
<1> DEFINE old == call[u]
<1>1. /\ old \in CallStates /\ strokes[u] \in 0 .. 2 /\ doubtful[u] \in BOOLEAN /\ CallSound(u)
      /\ strokes = [strokes EXCEPT ![u] = strokes[u]] /\ doubtful = [doubtful EXCEPT ![u] = doubtful[u]]
  BY DEF CallsSound, HomeTypeOK, CallStates
<1>2. \A s \in Steps : [old EXCEPT !.step = s] \in CallStates
  BY <1>1 DEF CallStates
<1>3. ASSUME NEW s \in Steps, StepTo(u, s) PROVE call' = [call EXCEPT ![u] = [old EXCEPT !.step = s]]
  BY <1>3 DEF StepTo
<1>4. CASE Unusable(u)
  <2>1. CallMoves(u, [old EXCEPT !.step = "refused"], strokes[u], doubtful[u])
    BY <1>1, <1>3, <1>4 DEF Unusable, CallMoves, CallGoesOn, CallSound, Steps, CallStates
  <2>2. QED
    BY <1>1, <1>2, <2>1 DEF Steps
<1>5. CASE Check(u)
  <2> DEFINE go == IF old.service = "comfort" THEN "early" ELSE "post"
  <2>1. CASE StepTo(u, IF Blocks(u) THEN "refused" ELSE go) /\ UNCHANGED doubtful
    <3> DEFINE s == IF Blocks(u) THEN "refused" ELSE go
    <3>1. s \in Steps
      BY DEF Steps
    <3>2. CallMoves(u, [old EXCEPT !.step = s], strokes[u], doubtful[u])
      BY <1>1, <1>3, <1>5, <2>1, <3>1 DEF Check, CallMoves, CallGoesOn, CallSound, CallStates,
           Blocks
    <3>3. QED
      BY <1>1, <1>2, <3>1, <3>2
  <2>2. CASE StepTo(u, go) /\ doubtful' = [doubtful EXCEPT ![u] = TRUE]
    <3>1. go \in Steps
      BY DEF Steps
    <3>2. CallMoves(u, [old EXCEPT !.step = go], strokes[u], TRUE)
      BY <1>1, <1>3, <1>5, <2>2, <3>1 DEF Check, CallMoves, CallGoesOn, CallSound, CallStates
    <3>3. QED
      BY <1>1, <1>2, <3>1, <3>2
  <2>3. QED
    BY <1>5, <2>1, <2>2 DEF Check
<1>6. CASE Early(u)
  <2>1. CallMoves(u, [old EXCEPT !.step = "post"], strokes[u], doubtful[u])
    BY <1>1, <1>3, <1>6 DEF Early, CallMoves, CallGoesOn, CallSound, Steps, CallStates, Sound
  <2>2. QED
    BY <1>1, <1>2, <2>1 DEF Steps
<1>7. \A arrives \in BOOLEAN :
        LET n == IF arrives /\ strokes[u] < 2 THEN strokes[u] + 1 ELSE strokes[u] IN
        /\ n \in 0 .. 2 /\ (arrives => n > 0) /\ (strokes[u] > 0 => n > 0) /\ n <= strokes[u] + 1
        /\ Carried(u, arrives) => strokes' = [strokes EXCEPT ![u] = n]
  BY <1>1 DEF Carried
<1>8. ASSUME NEW c \in CallStates, NEW arrives \in BOOLEAN, call' = [call EXCEPT ![u] = c],
             UNCHANGED <<dead, upsets, doubtful>>, Carried(u, arrives),
             c.service = old.service,
             c.step \in {"ok", "refused", "raised", "post", "members"},
             c.step = "members" => c.left > 0,
             c.service = "shutter" => old.step = "post" /\ c.step \notin {"members", "post"},
             c.step \in {"post", "members"} => Sound(u) \/ doubtful[u],
             c.step = "ok" \/ c.any => arrives \/ strokes[u] > 0 \/ doubtful[u]
      PROVE  \E d \in CallStates, n \in 0 .. 2, e \in BOOLEAN : CallMoves(u, d, n, e)
  <2> DEFINE n == IF arrives /\ strokes[u] < 2 THEN strokes[u] + 1 ELSE strokes[u]
  <2>1. n \in 0 .. 2 /\ (arrives => n > 0) /\ (strokes[u] > 0 => n > 0) /\ n <= strokes[u] + 1
        /\ strokes' = [strokes EXCEPT ![u] = n]
    BY <1>7, <1>8
  <2>2. c.service = "shutter" => strokes[u] = 0
    BY <1>1, <1>8 DEF CallSound
  <2> HIDE DEF n
  <2>3. CallMoves(u, c, n, doubtful[u])
    BY <1>1, <1>8, <2>1, <2>2 DEF CallMoves, CallGoesOn, houseVars
  <2>4. QED
    BY <1>1, <2>1, <2>3
<1>9. CASE Accepted(u)
  <2>1. Sound(u) \/ doubtful[u]
    BY <1>1, <1>9 DEF Accepted, CallSound
  <2> DEFINE c == [old EXCEPT !.step = "ok"]
  <2>2. /\ c \in CallStates /\ c.step = "ok" /\ c.service = old.service
        /\ call' = [call EXCEPT ![u] = c]
    BY <1>1, <1>2, <1>3, <1>9 DEF Accepted, Steps, CallStates
  <2>3. Sound(u) \in BOOLEAN
    BY DEF Sound
  <2> HIDE DEF c
  <2>4. QED
    BY <1>8, <1>9, <2>1, <2>2, <2>3 DEF Accepted
<1>10. CASE Fails(u)
  <2> DEFINE c == [old EXCEPT !.step = "raised"]
  <2>1. /\ c \in CallStates /\ c.step = "raised" /\ c.service = old.service
        /\ call' = [call EXCEPT ![u] = c] /\ c.any = old.any
    BY <1>1, <1>2, <1>3, <1>10 DEF Fails, Steps, CallStates
  <2>2. PICK arrives \in BOOLEAN : Carried(u, arrives)
    BY <1>10 DEF Fails, Sound
  <2> HIDE DEF c
  <2>3. QED
    BY <1>1, <1>8, <1>10, <2>1, <2>2 DEF Fails, CallSound
<1>11. CASE Cut(u)
  <2>1. PICK arrives \in BOOLEAN : Carried(u, arrives)
    BY <1>11 DEF Cut, Sound
  <2>2. CASE Replayable(old.service) /\ old.tries = 0
    <3> DEFINE c == [old EXCEPT !.tries = 1]
    <3>1. /\ c \in CallStates /\ c.step = "post" /\ c.service = old.service /\ c.any = old.any
          /\ call' = [call EXCEPT ![u] = c]
      BY <1>1, <1>11, <2>2 DEF Cut, CallStates
    <3>2. Sound(u) \/ doubtful[u]
      BY <1>1, <1>11 DEF Cut, CallSound
    <3> HIDE DEF c
    <3>3. QED
      BY <1>1, <1>8, <1>11, <2>1, <2>2, <3>1, <3>2 DEF Cut, CallSound, Replayable
  <2>3. CASE ~(Replayable(old.service) /\ old.tries = 0)
    <3> DEFINE c == [old EXCEPT !.step = "raised"]
    <3>1. /\ c \in CallStates /\ c.step = "raised" /\ c.service = old.service /\ c.any = old.any
          /\ call' = [call EXCEPT ![u] = c]
      BY <1>1, <1>2, <1>11, <2>3 DEF Cut, CallStates, Steps
    <3> HIDE DEF c
    <3>2. QED
      BY <1>1, <1>8, <1>11, <2>1, <3>1 DEF Cut, CallSound
  <2>4. QED
    BY <2>2, <2>3
<1>12. CASE Rejected(u)
  <2>1. CASE old.service = "salon"
    <3> DEFINE c == [old EXCEPT !.step = "members", !.left = Members]
    <3>1. c \in CallStates /\ c.step = "members" /\ c.service = old.service /\ c.any = old.any /\ c.left = 2
          /\ call' = [call EXCEPT ![u] = c]
      <4>1. c \in CallStates
        <5>1. "members" \in Steps /\ Members \in 0 .. Members
          BY DEF Steps, Members
        <5>2. QED
          BY <1>1, <5>1 DEF CallStates
      <4>2. c.step = "members" /\ c.service = old.service /\ c.any = old.any /\ c.left = 2
        BY <1>1 DEF CallStates, Members
      <4>3. call' = [call EXCEPT ![u] = c]
        BY <1>1, <1>12, <2>1 DEF Rejected, CallsSound, HomeTypeOK
      <4>4. QED
        BY <4>1, <4>2, <4>3
    <3> HIDE DEF c
    <3>0. /\ UNCHANGED houseVars /\ UNCHANGED strokes /\ UNCHANGED doubtful
          /\ Sound(u) \/ doubtful[u]
          /\ old.any => strokes[u] > 0 \/ doubtful[u]
      BY <1>1, <1>12 DEF Rejected, CallSound
    <3>2. CallMoves(u, c, strokes[u], doubtful[u])
      BY <1>1, <2>1, <3>0, <3>1 DEF CallMoves, CallGoesOn
    <3>3. QED
      BY <1>1, <3>1, <3>2
  <2>2. CASE old.service # "salon"
    <3>1. CallMoves(u, [old EXCEPT !.step = "refused"], strokes[u], doubtful[u])
      BY <1>1, <1>12, <2>2 DEF Rejected, CallMoves, CallGoesOn, CallSound, Steps, CallStates
    <3>2. QED
      BY <1>1, <1>2, <3>1 DEF Steps
  <2>3. QED
    BY <2>1, <2>2
<1>13. CASE Member(u)
  <2>1. old.step = "members" /\ old.left > 0 /\ (Sound(u) \/ doubtful[u]) /\ old.service # "shutter"
        /\ (old.any => strokes[u] > 0 \/ doubtful[u])
    BY <1>1, <1>13 DEF Member, CallSound
  <2> DEFINE over(any) == IF old.left > 1 THEN "members" ELSE IF any THEN "ok" ELSE "refused"
             after(any) == [old EXCEPT !.left = old.left - 1, !.any = any, !.step = over(any)]
  <2>2. ASSUME NEW any \in BOOLEAN
        PROVE  /\ after(any) \in CallStates /\ after(any).service = old.service /\ after(any).any = any
               /\ after(any).step \in {"members", "ok", "refused"}
               /\ after(any).step = "members" => after(any).left > 0
               /\ after(any).step = "ok" => any
    <3>1. over(any) \in Steps /\ old.left - 1 \in 0 .. Members
      BY <1>1, <2>1 DEF CallStates, Steps, Members
    <3>2. after(any) \in CallStates
      BY <1>1, <3>1 DEF CallStates
    <3>3. /\ after(any).service = old.service /\ after(any).any = any
          /\ after(any).step = over(any) /\ after(any).left = old.left - 1
      BY <1>1 DEF CallStates
    <3>4. QED
      BY <1>1, <2>1, <3>2, <3>3 DEF CallStates, Members
  <2>3. \/ call' = [call EXCEPT ![u] = after(TRUE)] /\ Carried(u, Sound(u))
        \/ call' = [call EXCEPT ![u] = after(old.any)] /\ Carried(u, FALSE)
        \/ StepTo(u, "raised") /\ \E arrives \in {FALSE, Sound(u)} : Carried(u, arrives)
    BY <1>1, <1>13 DEF Member, CallsSound, HomeTypeOK
  <2>4. UNCHANGED <<dead, upsets, doubtful>>
    BY <1>13 DEF Member
  <2>5. Sound(u) \in BOOLEAN /\ old.any \in BOOLEAN
    BY <1>1 DEF Sound, CallStates
  <2> HIDE DEF after
  <2>6. CASE call' = [call EXCEPT ![u] = after(TRUE)] /\ Carried(u, Sound(u))
    BY <1>8, <2>1, <2>2, <2>4, <2>5, <2>6
  <2>7. CASE call' = [call EXCEPT ![u] = after(old.any)] /\ Carried(u, FALSE)
    BY <1>8, <2>1, <2>2, <2>4, <2>5, <2>7
  <2>8. CASE StepTo(u, "raised") /\ \E arrives \in {FALSE, Sound(u)} : Carried(u, arrives)
    <3> DEFINE c == [old EXCEPT !.step = "raised"]
    <3>1. /\ c \in CallStates /\ c.step = "raised" /\ c.service = old.service /\ c.any = old.any
          /\ call' = [call EXCEPT ![u] = c]
      BY <1>1, <1>2, <1>3, <2>8 DEF CallStates, Steps
    <3>2. PICK arrives \in BOOLEAN : Carried(u, arrives)
      BY <2>5, <2>8
    <3> HIDE DEF c
    <3>3. QED
      BY <1>8, <2>1, <2>4, <3>1, <3>2
  <2>9. QED
    BY <2>3, <2>6, <2>7, <2>8
<1>14. QED
  BY <1>4, <1>5, <1>6, <1>9, <1>10, <1>11, <1>12, <1>13 DEF CallStep

EachSound(u) == CallSound(u) /\ TurnSound(u) /\ JobSound(u)
VoiceInv == VoiceTypeOK /\ \A u \in Turns : EachSound(u)

\* What a step leaves alone stays sound.
LEMMA OthersSound ==
  ASSUME VoiceInv, UNCHANGED dead, NEW v \in Turns,
         call'[v] = call[v], strokes'[v] = strokes[v], doubtful'[v] = doubtful[v],
         stage'[v] = stage[v], answer'[v] = answer[v], recorded'[v] = recorded[v],
         row'[v] = row[v], worker'[v] = worker[v], heard'[v] = heard[v]
  PROVE  EachSound(v)'
  BY DEF VoiceInv, EachSound, CallSound, TurnSound, JobSound, Sound

LEMMA CallingStep == ASSUME VoiceInv, NEW u \in Turns, Calling(u) PROVE VoiceInv'
<1>1. CallsSound /\ CallStep(u) /\ UNCHANGED <<jobVars, turnVars>> /\ call[u].step # "idle"
  BY DEF VoiceInv, VoiceTypeOK, EachSound, CallsSound, Calling, CallStep, Unusable, Check, Early,
       Accepted,
         Rejected, Cut, Fails, Member
<1>2. PICK c \in CallStates, n \in 0 .. 2, d \in BOOLEAN : CallMoves(u, c, n, d)
  BY <1>1, CallStepIs
<1>3. /\ dead' = dead /\ upsets' = upsets
      /\ call' = [call EXCEPT ![u] = c] /\ strokes' = [strokes EXCEPT ![u] = n]
      /\ doubtful' = [doubtful EXCEPT ![u] = d]
      /\ stage' = stage /\ mode' = mode /\ verb' = verb /\ answer' = answer /\ recorded' = recorded
      /\ row' = row /\ worker' = worker /\ heard' = heard
  BY <1>1, <1>2 DEF CallMoves, CallGoesOn, houseVars, jobVars, turnVars
<1>4. VoiceTypeOK'
  BY <1>3 DEF VoiceInv, VoiceTypeOK, HomeTypeOK, JobTypeOK, CallStates
<1>5. call'[u] = c /\ strokes'[u] = n /\ doubtful'[u] = d
  BY <1>3 DEF VoiceInv, VoiceTypeOK, HomeTypeOK
<1>6. CallSound(u)'
  BY <1>2, <1>3, <1>5 DEF CallMoves, CallSound, Sound
<1>7. TurnSound(u)' /\ JobSound(u)'
  BY <1>1, <1>3, <1>5 DEF VoiceInv, EachSound, TurnSound, JobSound
<1>8. ASSUME NEW v \in Turns, v # u PROVE EachSound(v)'
  BY <1>3, <1>8, OthersSound DEF VoiceInv, VoiceTypeOK, HomeTypeOK
<1>9. QED
  BY <1>4, <1>6, <1>7, <1>8 DEF VoiceInv, EachSound

\* A turn that goes on, with nothing or with a call that is given up.
LEMMA GoesOnStep ==
  ASSUME VoiceInv, NEW u \in Turns, NEW s \in Stages, s \notin {"new", "end"}, GoesOn(u, s),
         stage[u] # "end",
         UNCHANGED <<houseVars, jobVars>>, UNCHANGED callVars \/ HangUp(u, FALSE)
  PROVE  VoiceInv'
<1>1. /\ dead' = dead /\ upsets' = upsets /\ row' = row /\ worker' = worker /\ heard' = heard
      /\ stage' = [stage EXCEPT ![u] = s] /\ mode' = mode /\ verb' = verb /\ answer' = answer
      /\ recorded' = recorded
  BY DEF houseVars, jobVars, GoesOn
<1>2. HomeTypeOK'
  <2>1. CASE UNCHANGED callVars
    BY <1>1, <2>1 DEF VoiceInv, VoiceTypeOK, HomeTypeOK, callVars
  <2>2. QED
    BY <2>1, HangUpType DEF VoiceInv, VoiceTypeOK
<1>3. VoiceTypeOK'
  BY <1>1, <1>2 DEF VoiceInv, VoiceTypeOK, JobTypeOK
<1>4. \/ call'[u] = call[u] /\ strokes'[u] = strokes[u] /\ doubtful'[u] = doubtful[u]
      \/ call'[u] = NoCall /\ strokes'[u] = 0 /\ doubtful'[u] = FALSE
  BY DEF VoiceInv, VoiceTypeOK, HomeTypeOK, HangUp, callVars
<1>5. EachSound(u)'
  BY <1>1, <1>4 DEF VoiceInv, VoiceTypeOK, HomeTypeOK, EachSound, CallSound, TurnSound, JobSound,
       NoCall, Sound
<1>6. ASSUME NEW v \in Turns, v # u PROVE EachSound(v)'
  BY <1>1, <1>6, OthersSound DEF VoiceInv, VoiceTypeOK, HomeTypeOK, HangUp, callVars
<1>7. QED
  BY <1>3, <1>5, <1>6 DEF VoiceInv

\* A turn that is answered, without a call or at the return of one.
LEMMA AnswerStep ==
  ASSUME VoiceInv, NEW u \in Turns, NEW what \in Answers, NEW n \in 0 .. 2, Answer(u, what, n),
         stage[u] # "end", UNCHANGED <<houseVars, jobVars>>, NEW told \in BOOLEAN,
         (UNCHANGED callVars /\ call[u].step = "idle") \/ HangUp(u, told),
         what = "done" => HangUp(u, told) /\ told /\ call[u].step = "ok"
  PROVE  VoiceInv'
<1>1. /\ dead' = dead /\ upsets' = upsets /\ row' = row /\ worker' = worker /\ heard' = heard
      /\ stage' = [stage EXCEPT ![u] = "end"] /\ answer' = [answer EXCEPT ![u] = what]
      /\ mode' = [mode EXCEPT ![u] = "other"] /\ verb' = [verb EXCEPT ![u] = FALSE]
      /\ recorded' = [recorded EXCEPT ![u] = recorded[u] + n]
  BY DEF houseVars, jobVars, Answer, Records, VoiceInv, VoiceTypeOK
<1>2. EachSound(u) /\ recorded[u] = 0 /\ worker[u] = "none"
  BY DEF VoiceInv, EachSound, TurnSound
<1>3. HomeTypeOK'
  <2>1. CASE UNCHANGED callVars
    BY <1>1, <2>1 DEF VoiceInv, VoiceTypeOK, HomeTypeOK, callVars
  <2>2. QED
    BY <2>1, HangUpType DEF VoiceInv, VoiceTypeOK
<1>4. VoiceTypeOK'
  BY <1>1, <1>2, <1>3 DEF VoiceInv, VoiceTypeOK, JobTypeOK, Stages
<1>5. \/ call'[u] = call[u] /\ strokes'[u] = strokes[u] /\ doubtful'[u] = doubtful[u]
         /\ call[u].step = "idle" /\ what # "done"
      \/ /\ call'[u] = NoCall /\ strokes'[u] = (IF told /\ strokes[u] > 0 THEN 1 ELSE 0)
         /\ doubtful'[u] = (told /\ doubtful[u])
         /\ what = "done" => told /\ call[u].step = "ok"
  BY DEF VoiceInv, VoiceTypeOK, HomeTypeOK, HangUp, callVars
<1>6. stage'[u] = "end" /\ answer'[u] = what
  BY <1>1 DEF VoiceInv, VoiceTypeOK
<1>7. CallSound(u)' /\ TurnSound(u)'
  BY <1>1, <1>2, <1>5, <1>6 DEF VoiceInv, VoiceTypeOK, HomeTypeOK, EachSound, CallSound,
       TurnSound, NoCall, Sound
<1>8. JobSound(u)'
  BY <1>1, <1>2 DEF EachSound, JobSound
<1>9. ASSUME NEW v \in Turns, v # u PROVE EachSound(v)'
  BY <1>1, <1>9, OthersSound DEF VoiceInv, VoiceTypeOK, HomeTypeOK, HangUp, callVars
<1>10. QED
  BY <1>4, <1>7, <1>8, <1>9 DEF VoiceInv, EachSound

\* A turn that calls a service.
LEMMA CallsStep ==
  ASSUME VoiceInv, NEW u \in Turns, NEW services, services \subseteq Services, Calls(u, services),
         stage[u] \notin {"new", "end"}
  PROVE  VoiceInv'
<1>1. PICK s \in Services : Call(u, s)
  BY DEF Calls
<1> DEFINE c == [NoCall EXCEPT !.service = s, !.step = "check"]
<1>2. /\ dead' = dead /\ upsets' = upsets /\ row' = row /\ worker' = worker /\ heard' = heard
      /\ stage' = stage /\ mode' = mode /\ verb' = verb /\ answer' = answer /\ recorded' = recorded
      /\ call' = [call EXCEPT ![u] = c] /\ strokes' = [strokes EXCEPT ![u] = 0]
      /\ doubtful' = [doubtful EXCEPT ![u] = FALSE]
  BY <1>1 DEF Call, Calls, houseVars, jobVars, turnVars
<1>3. c \in CallStates /\ c.service = s /\ c.step = "check" /\ c.any = FALSE
  BY NoCallType DEF NoCall
<1> HIDE DEF c
<1>4. VoiceTypeOK'
  BY <1>2, <1>3 DEF VoiceInv, VoiceTypeOK, HomeTypeOK, JobTypeOK, CallStates
<1>5. call'[u] = c /\ strokes'[u] = 0
  BY <1>2 DEF VoiceInv, VoiceTypeOK, HomeTypeOK
<1>6. EachSound(u)'
  BY <1>2, <1>3, <1>5 DEF VoiceInv, EachSound, CallSound, TurnSound, JobSound
<1>7. ASSUME NEW v \in Turns, v # u PROVE EachSound(v)'
  BY <1>2, <1>7, OthersSound DEF VoiceInv, VoiceTypeOK, HomeTypeOK
<1>8. QED
  BY <1>4, <1>6, <1>7 DEF VoiceInv

\* What a turn does before it has called anything.
LEMMA QuietStep ==
  ASSUME VoiceInv, NEW u \in Turns, call[u].step = "idle", stage[u] \notin {"new", "end"}, Quiet,
         \/ \E s \in Stages \ {"new", "end"} : GoesOn(u, s)
         \/ \E what \in Answers \ {"done"}, n \in 0 .. 2 : Answer(u, what, n)
  PROVE  VoiceInv'
<1>1. UNCHANGED <<houseVars, jobVars>> /\ UNCHANGED callVars
  BY DEF Quiet
<1>2. ASSUME NEW s \in Stages \ {"new", "end"}, GoesOn(u, s) PROVE VoiceInv'
  BY <1>1, <1>2, GoesOnStep
<1>3. ASSUME NEW what \in Answers \ {"done"}, NEW n \in 0 .. 2, Answer(u, what, n) PROVE VoiceInv'
  BY <1>1, <1>3, AnswerStep
<1>4. QED
  BY <1>2, <1>3

LEMMA HearStep == ASSUME VoiceInv, NEW u \in Turns, Hear(u) PROVE VoiceInv'
<1>1. PICK m \in Sources[u], v \in BOOLEAN, s \in {"state", "command", "router"} :
        /\ mode' = [mode EXCEPT ![u] = m] /\ verb' = [verb EXCEPT ![u] = v]
        /\ stage' = [stage EXCEPT ![u] = s]
  BY DEF Hear
<1>2. /\ dead' = dead /\ upsets' = upsets /\ call' = call /\ strokes' = strokes
      /\ doubtful' = doubtful /\ row' = row /\ worker' = worker /\ heard' = heard
      /\ answer' = answer /\ recorded' = recorded /\ stage[u] = "new"
  BY DEF Hear, Quiet, houseVars, callVars, jobVars
<1>3. m \in {"ha", "chat", "other"} /\ s \in Stages
  BY VoiceConstants DEF Stages
<1>4. VoiceTypeOK'
  BY <1>1, <1>2, <1>3 DEF VoiceInv, VoiceTypeOK, HomeTypeOK, JobTypeOK
<1>5. stage'[u] = s
  BY <1>1 DEF VoiceInv, VoiceTypeOK
<1>6. EachSound(u)'
  BY <1>1, <1>2, <1>5 DEF VoiceInv, EachSound, CallSound, TurnSound, JobSound, Sound
<1>7. ASSUME NEW v2 \in Turns, v2 # u PROVE EachSound(v2)'
  BY <1>1, <1>2, <1>7, OthersSound DEF VoiceInv, VoiceTypeOK
<1>8. QED
  BY <1>4, <1>6, <1>7 DEF VoiceInv

LEMMA ResolverStep ==
  ASSUME VoiceInv, NEW u \in Turns,
         Reads(u) \/ Commands(u) \/ Relative(u) \/ Everyday(u) \/ Routes(u) \/ Classifies(u)
         \/ Knows(u) \/ Fuzzy(u) \/ Guesses(u) \/ Talks(u) \/ Models(u)
  PROVE  VoiceInv'
<1>1. call[u].step = "idle" /\ stage[u] \notin {"new", "end"}
  BY DEF Reads, Commands, Relative, Everyday, Routes, Classifies, Knows, Fuzzy, Guesses, Talks, Models, At
<1>2. Turn(u) \in 0 .. 2
  BY DEF Turn
<1>3. Spoken[u] \subseteq Services
  BY VoiceConstants
<1>4. CASE Reads(u)
  BY <1>1, <1>2, <1>4, QuietStep DEF Reads, Stages, Answers
<1>5. CASE Commands(u)
  BY <1>1, <1>3, <1>5, QuietStep, CallsStep DEF Commands, Stages
<1>6. CASE Relative(u)
  <2>1. CASE Calls(u, {"setpoint"})
    BY <1>1, <2>1, CallsStep DEF Services
  <2>2. QED
    BY <1>1, <1>6, <2>1, QuietStep DEF Relative, Stages, Answers
<1>7. CASE Everyday(u)
  BY <1>1, <1>7, QuietStep DEF Everyday, Stages, Answers
<1>8. CASE Routes(u) \/ Classifies(u)
  BY <1>1, <1>8, QuietStep DEF Routes, Classifies, Routed, Stages, Answers
<1>9. CASE Knows(u)
  BY <1>1, <1>3, <1>9, CallsStep DEF Knows
<1>10. CASE Fuzzy(u)
  BY <1>1, <1>3, <1>10, CallsStep, QuietStep DEF Fuzzy, Stages
<1>11. CASE Guesses(u)
  BY <1>1, <1>3, <1>11, CallsStep, QuietStep DEF Guesses, Stages
<1>12. CASE Talks(u)
  BY <1>1, <1>12, QuietStep DEF Talks, Answers
<1>13. CASE Models(u)
  BY <1>1, <1>2, <1>13, QuietStep DEF Models, Stages, Answers
<1>14. QED
  BY <1>4, <1>5, <1>6, <1>7, <1>8, <1>9, <1>10, <1>11, <1>12, <1>13

LEMMA EndsStep == ASSUME VoiceInv, NEW u \in Turns, Ends(u) PROVE VoiceInv'
<1> DEFINE told == call[u].step = "ok"
<1>1. /\ UNCHANGED <<houseVars, jobVars>> /\ HangUp(u, told) /\ told \in BOOLEAN
      /\ stage[u] \notin {"new", "end"}
  BY DEF Ends, VoiceInv, EachSound, TurnSound, Returned
<1>2. Turn(u) \in 0 .. 2
  BY DEF Turn
<1>3. CASE told
  <2>1. Answer(u, "done", Turn(u))
    BY <1>3 DEF Ends
  <2>2. "done" \in Answers
    BY DEF Answers
  <2>3. QED
    BY <1>1, <1>2, <1>3, <2>1, <2>2, AnswerStep
<1>4. CASE ~told
  <2>1. HangUp(u, FALSE)
    BY <1>1, <1>4 DEF HangUp
  <2>2. CASE stage[u] \in {"relative", "command"}
    <3>1. PICK what \in {"error", "failed"} : Answer(u, what, Turn(u))
      BY <1>4, <2>2 DEF Ends
    <3>2. QED
      BY <1>1, <1>2, <2>1, <3>1, AnswerStep DEF Answers
  <2>3. CASE stage[u] \notin {"relative", "command"}
    <3>1. GoesOn(u, AfterFailure(u))
      BY <1>4, <2>3 DEF Ends
    <3>2. AfterFailure(u) \in Stages \ {"new", "end"}
      BY DEF AfterFailure, Stages
    <3>3. QED
      BY <1>1, <2>1, <3>1, <3>2, GoesOnStep
  <2>4. QED
    BY <2>2, <2>3
<1>5. QED
  BY <1>3, <1>4

LEMMA TimesOutStep == ASSUME VoiceInv, NEW u \in Turns, TimesOut(u) PROVE VoiceInv'
<1>1. UNCHANGED <<houseVars, jobVars>>
  BY DEF TimesOut
<1>2. CASE stage[u] # "end" /\ HangUp(u, FALSE) /\ Answer(u, "sorry", 0)
  <2>1. "sorry" \in Answers /\ "sorry" # "done" /\ FALSE \in BOOLEAN /\ 0 \in 0 .. 2
    BY DEF Answers
  <2>2. QED
    BY <1>1, <1>2, <2>1, AnswerStep
<1>3. CASE At(u, "fast") /\ GoesOn(u, "talk") /\ UNCHANGED callVars
  BY <1>1, <1>3, GoesOnStep DEF At, Stages
<1>4. QED
  BY <1>2, <1>3 DEF TimesOut

LEMMA IntendsStep == ASSUME VoiceInv, NEW u \in Turns, Intends(u) PROVE VoiceInv'
<1>1. stage[u] = "intent" /\ call[u].step = "idle"
  BY DEF Intends, At
<1>2. CASE GoesOn(u, "model") /\ Quiet
  BY <1>1, <1>2, QuietStep DEF Stages
<1>3. CASE Create(u) /\ Answer(u, "ack", 0) /\ UNCHANGED <<houseVars, callVars>>
  <2>1. /\ dead' = dead /\ upsets' = upsets /\ call' = call /\ strokes' = strokes
        /\ doubtful' = doubtful /\ heard' = heard
        /\ (row' = [row EXCEPT ![u] = "pending"] \/ row' = row)
        /\ worker' = [worker EXCEPT ![u] = "start"]
        /\ stage' = [stage EXCEPT ![u] = "end"] /\ answer' = [answer EXCEPT ![u] = "ack"]
        /\ mode' = [mode EXCEPT ![u] = "other"] /\ verb' = [verb EXCEPT ![u] = FALSE]
        /\ recorded' = [recorded EXCEPT ![u] = recorded[u] + 0]
    BY <1>3 DEF Create, Goes, Answer, Records, houseVars, callVars
  <2>2. EachSound(u) /\ recorded[u] = 0 /\ worker[u] = "none" /\ heard[u] = {} /\ row[u] = "none"
    BY <1>1 DEF VoiceInv, EachSound, TurnSound
  <2>3. VoiceTypeOK'
    BY <2>1, <2>2, VoiceConstants DEF VoiceInv, VoiceTypeOK, HomeTypeOK, JobTypeOK, Stages, Answers
  <2>4. /\ row'[u] \in {"none", "pending"} /\ worker'[u] = "start" /\ stage'[u] = "end"
        /\ answer'[u] = "ack" /\ recorded'[u] = 0
    BY <2>1, <2>2, VoiceConstants DEF VoiceInv, VoiceTypeOK, JobTypeOK
  <2>5. EachSound(u)'
    BY <1>1, <2>1, <2>2, <2>4 DEF EachSound, CallSound, TurnSound, JobSound, Sound
  <2>6. ASSUME NEW v \in Turns, v # u PROVE EachSound(v)'
    BY <2>1, <2>6, OthersSound, VoiceConstants DEF VoiceInv, VoiceTypeOK, JobTypeOK
  <2>7. QED
    BY <2>3, <2>5, <2>6 DEF VoiceInv
<1>4. QED
  BY <1>2, <1>3 DEF Intends

LEMMA WorkingStep == ASSUME VoiceInv, NEW u \in Turns, Working(u) PROVE VoiceInv'
<1>1. /\ dead' = dead /\ upsets' = upsets /\ call' = call /\ strokes' = strokes
      /\ doubtful' = doubtful /\ stage' = stage /\ mode' = mode /\ verb' = verb /\ answer' = answer
      /\ JobStep(u)
  BY DEF Working, houseVars, callVars
<1>2. EachSound(u) /\ worker[u] \notin {"none", "over"} /\ stage[u] = "end"
  BY <1>1 DEF JobStep, Starts, Finds, GivesUp, Announces, Apologises, VoiceInv, EachSound, TurnSound
<1>3. PICK status \in {"none", "pending", "running", "done", "error"},
           w \in {"work", "announce", "sorry", "over"}, said \in SUBSET {"result", "apology"} :
        /\ row' = [row EXCEPT ![u] = status] /\ worker' = [worker EXCEPT ![u] = w]
        /\ heard' = [heard EXCEPT ![u] = said]
        /\ worker[u] = "start" => w = "work"
        /\ w = "work" => worker[u] = "start"
        /\ w # "over" => said = {}
        /\ said # {"result", "apology"}
        /\ status = "error" => w \in {"sorry", "over"} /\ "result" \notin said
  <2> DEFINE Q(status, w, said) ==
        /\ row' = [row EXCEPT ![u] = status] /\ worker' = [worker EXCEPT ![u] = w]
        /\ heard' = [heard EXCEPT ![u] = said]
        /\ worker[u] = "start" => w = "work"
        /\ w = "work" => worker[u] = "start"
        /\ w # "over" => said = {}
        /\ said # {"result", "apology"}
        /\ status = "error" => w \in {"sorry", "over"} /\ "result" \notin said
  <2> SUFFICES \E status \in {"none", "pending", "running", "done", "error"},
                  w \in {"work", "announce", "sorry", "over"}, said \in SUBSET {"result", "apology"} :
                 Q(status, w, said)
    OBVIOUS
  <2>1. /\ row[u] \in {"none", "pending", "running", "done", "error"}
        /\ heard[u] \in SUBSET {"result", "apology"} /\ heard[u] = {}
        /\ row = [row EXCEPT ![u] = row[u]] /\ heard = [heard EXCEPT ![u] = heard[u]]
        /\ row[u] = "error" => worker[u] \in {"sorry", "over"}
    BY <1>2, VoiceConstants DEF VoiceInv, VoiceTypeOK, JobTypeOK, EachSound, JobSound
  <2>2. ASSUME NEW s \in {"running", "done", "error"}, Written(u, s)
        PROVE  \E status \in {row[u], s} : row' = [row EXCEPT ![u] = status]
    <3>1. row' = [row EXCEPT ![u] = row[u]] \/ row' = [row EXCEPT ![u] = s]
      BY <2>1, <2>2 DEF Written
    <3>2. QED
      BY <3>1
  <2>3. ASSUME NEW what \in {"result", "apology"}, Says(u, what)
        PROVE  heard' = [heard EXCEPT ![u] = {what}]
    BY <2>1, <2>3 DEF Says
  <2>4. CASE Starts(u)
    BY <2>1, <2>2, <2>4 DEF Starts, Goes
  <2>5. CASE Finds(u)
    <3>1. PICK status \in {row[u], "done"} : row' = [row EXCEPT ![u] = status]
      BY <2>2, <2>5 DEF Finds
    <3>2. Q(status, "announce", {})
      BY <2>1, <2>5, <3>1 DEF Finds, Goes
    <3>3. QED
      BY <2>1, <3>1, <3>2
  <2>6. CASE GivesUp(u)
    <3>1. PICK status \in {row[u], "error"} : row' = [row EXCEPT ![u] = status]
      BY <2>2, <2>6 DEF GivesUp
    <3>2. Q(status, "sorry", {})
      BY <2>1, <2>6, <3>1 DEF GivesUp, Goes
    <3>3. QED
      BY <2>1, <3>1, <3>2
  <2>7. CASE Announces(u)
    <3>1. CASE Goes(u, "over") /\ UNCHANGED row /\ Says(u, "result")
      <4>1. Q(row[u], "over", {"result"})
        BY <2>1, <2>3, <2>7, <3>1 DEF Announces, Goes
      <4>2. QED
        BY <2>1, <4>1
    <3>2. CASE Goes(u, "over") /\ UNCHANGED row /\ UNCHANGED heard
      <4>1. Q(row[u], "over", {})
        BY <2>1, <2>7, <3>2 DEF Announces, Goes
      <4>2. QED
        BY <2>1, <4>1
    <3>3. CASE Goes(u, "sorry") /\ Written(u, "error") /\ UNCHANGED heard
      <4>1. PICK status \in {row[u], "error"} : row' = [row EXCEPT ![u] = status]
        BY <2>2, <3>3
      <4>2. Q(status, "sorry", {})
        BY <2>1, <2>7, <3>3, <4>1 DEF Announces, Goes
      <4>3. QED
        BY <2>1, <4>1, <4>2
    <3>4. QED
      BY <2>7, <3>1, <3>2, <3>3 DEF Announces
  <2>8. CASE Apologises(u)
    <3>1. PICK said \in {{}, {"apology"}} : heard' = [heard EXCEPT ![u] = said]
      BY <2>1, <2>3, <2>8 DEF Apologises
    <3>2. Q(row[u], "over", said)
      BY <2>1, <2>8, <3>1 DEF Apologises, Goes
    <3>3. QED
      BY <2>1, <3>1, <3>2
  <2>9. QED
    BY <1>1, <2>4, <2>5, <2>6, <2>7, <2>8 DEF JobStep
<1>4. /\ row'[u] = status /\ worker'[u] = w /\ heard'[u] = said
      /\ \A v \in Turns : v # u => row'[v] = row[v] /\ worker'[v] = worker[v] /\ heard'[v] = heard[v]
  BY <1>3, VoiceConstants DEF VoiceInv, VoiceTypeOK, JobTypeOK
<1>5. PICK n \in 0 .. 1 :
        /\ recorded' = [recorded EXCEPT ![u] = n]
        /\ w = "work" => n = 0
  <2>1. recorded[u] \in 0 .. 1 /\ (worker[u] \in {"start", "work"} => recorded[u] = 0)
        /\ recorded = [recorded EXCEPT ![u] = recorded[u]]
    BY <1>2 DEF VoiceInv, VoiceTypeOK, EachSound, JobSound
  <2>2. CASE Finding(u)
    <3>1. recorded' = [recorded EXCEPT ![u] = 1] /\ w = "announce"
      BY <1>4, <2>1, <2>2 DEF Working, Records, Finding
    <3>2. QED
      BY <3>1
  <2>3. CASE ~Finding(u)
    BY <1>3, <2>1, <2>3 DEF Working
  <2>4. QED
    BY <2>2, <2>3
<1>6. VoiceTypeOK'
  <2>1. HomeTypeOK'
    BY <1>1 DEF VoiceInv, VoiceTypeOK, HomeTypeOK
  <2>2. JobTypeOK'
    BY <1>3 DEF VoiceInv, VoiceTypeOK, JobTypeOK
  <2>3. n \in 0 .. 2
    OBVIOUS
  <2>4. QED
    BY <1>1, <1>5, <2>1, <2>2, <2>3 DEF VoiceInv, VoiceTypeOK
<1>7. recorded'[u] = n /\ \A v \in Turns : v # u => recorded'[v] = recorded[v]
  BY <1>5 DEF VoiceInv, VoiceTypeOK
<1>8. EachSound(u)'
  <2>1. answer[u] = "ack"
    BY <1>2 DEF EachSound, JobSound
  <2>2. JobSound(u)'
    <3>1. recorded'[u] <= 1 /\ answer'[u] = "ack"
      BY <1>1, <1>7, <2>1
    <3>2. worker'[u] \in {"start", "work"} => recorded'[u] = 0
      BY <1>3, <1>4, <1>5, <1>7
    <3>3. /\ worker'[u] # "over" => heard'[u] = {}
          /\ heard'[u] # {"result", "apology"}
          /\ row'[u] = "error" => worker'[u] \in {"sorry", "over"} /\ "result" \notin heard'[u]
      BY <1>3, <1>4
    <3>4. QED
      BY <3>1, <3>2, <3>3 DEF JobSound
  <2>3. QED
    BY <1>1, <1>2, <2>2 DEF EachSound, CallSound, TurnSound, Sound
<1>9. ASSUME NEW v \in Turns, v # u PROVE EachSound(v)'
  BY <1>1, <1>4, <1>7, <1>9, OthersSound
<1>10. QED
  BY <1>6, <1>8, <1>9 DEF VoiceInv

LEMMA RestartStep == ASSUME VoiceInv, Restart PROVE VoiceInv'
<1> DEFINE cut == {u \in Turns : stage[u] \notin {"new", "end"}}
<1>1. /\ dead' = dead /\ upsets' = upsets /\ recorded' = recorded /\ row' = row /\ heard' = heard
      /\ stage' = [u \in Turns |-> IF u \in cut THEN "end" ELSE stage[u]]
      /\ answer' = [u \in Turns |-> IF u \in cut THEN "lost" ELSE answer[u]]
      /\ strokes' = [u \in Turns |-> IF u \in cut THEN 0 ELSE strokes[u]]
      /\ doubtful' = [u \in Turns |-> u \notin cut /\ doubtful[u]]
      /\ mode' = [u \in Turns |-> "other"] /\ verb' = [u \in Turns |-> FALSE]
      /\ call' = [u \in Turns |-> NoCall]
      /\ worker' = [u \in Turns |-> IF worker[u] = "none" THEN "none" ELSE "over"]
  BY VoiceConstants DEF Restart, Forgets, houseVars
<1> HIDE DEF cut
<1>2. HomeTypeOK'
  <2>1. call' \in [Turns -> CallStates]
    BY <1>1, NoCallType
  <2>2. \A u \in Turns : strokes[u] \in 0 .. 2
    BY DEF VoiceInv, VoiceTypeOK, HomeTypeOK
  <2>3. strokes' \in [Turns -> 0 .. 2]
    BY <1>1, <2>2
  <2>4. doubtful' \in [Turns -> BOOLEAN]
    BY <1>1
  <2>5. QED
    BY <1>1, <2>1, <2>3, <2>4 DEF VoiceInv, VoiceTypeOK, HomeTypeOK, CallStates
<1>3. JobTypeOK'
  BY <1>1, VoiceConstants DEF VoiceInv, VoiceTypeOK, JobTypeOK
<1>4. VoiceTypeOK'
  <2>1. stage' \in [Turns -> Stages]
    BY <1>1 DEF VoiceInv, VoiceTypeOK, Stages
  <2>2. answer' \in [Turns -> Answers]
    BY <1>1 DEF VoiceInv, VoiceTypeOK, Answers
  <2>3. QED
    BY <1>1, <1>2, <1>3, <2>1, <2>2 DEF VoiceInv, VoiceTypeOK
<1>5. ASSUME NEW u \in Turns PROVE EachSound(u)'
  <2>1. EachSound(u) /\ strokes[u] \in 0 .. 2
    BY DEF VoiceInv, VoiceTypeOK, HomeTypeOK
  <2>2. /\ call'[u].service = "none" /\ call'[u].step = "idle" /\ call'[u].any = FALSE
        /\ worker'[u] \in {"none", "over"} /\ (worker'[u] = "none" <=> worker[u] = "none")
        /\ row'[u] = row[u] /\ heard'[u] = heard[u] /\ recorded'[u] = recorded[u]
    BY <1>1 DEF NoCall
  <2>3. \/ /\ stage[u] \notin {"new", "end"} /\ stage'[u] = "end" /\ answer'[u] = "lost"
        \/ /\ stage[u] \in {"new", "end"} /\ stage'[u] = stage[u] /\ answer'[u] = answer[u]
           /\ strokes'[u] = strokes[u] /\ (doubtful[u] => doubtful'[u])
    BY <1>1 DEF cut
  <2>4. CallSound(u)'
    BY <2>2 DEF CallSound
  <2>5. TurnSound(u)'
    BY <2>1, <2>2, <2>3 DEF EachSound, TurnSound
  <2>6. JobSound(u)'
    BY <2>1, <2>2, <2>3 DEF EachSound, TurnSound, JobSound
  <2>7. QED
    BY <2>4, <2>5, <2>6 DEF EachSound
<1>6. QED
  BY <1>4, <1>5 DEF VoiceInv

LEMMA BreaksStep == ASSUME VoiceInv, Breaks PROVE VoiceInv'
<1>1. PICK d \in Devices : Upset(d)
  BY DEF Breaks
<1>2. /\ call' = call /\ strokes' = strokes /\ stage' = stage /\ mode' = mode /\ verb' = verb
      /\ answer' = answer /\ recorded' = recorded /\ row' = row /\ worker' = worker /\ heard' = heard
      /\ upsets < MaxUpsets /\ upsets' = upsets + 1
      /\ dead' = IF d \in dead THEN dead \ {d} ELSE dead \union {d}
      /\ doubtful' = [u \in Turns |-> doubtful[u] \/ Device(call[u].service) = d]
  BY <1>1 DEF Breaks, Upset, jobVars, turnVars
<1>3. dead' \subseteq Devices /\ upsets' \in 0 .. MaxUpsets /\ doubtful' \in [Turns -> BOOLEAN]
  <2>1. dead' \subseteq Devices
    BY <1>2 DEF VoiceInv, VoiceTypeOK, HomeTypeOK
  <2>2. upsets' \in 0 .. MaxUpsets
    BY <1>2, HomeConstants DEF VoiceInv, VoiceTypeOK, HomeTypeOK
  <2>3. doubtful' \in [Turns -> BOOLEAN]
    BY <1>2
  <2>4. QED
    BY <2>1, <2>2, <2>3
<1>4. VoiceTypeOK'
  BY <1>2, <1>3 DEF VoiceInv, VoiceTypeOK, HomeTypeOK, JobTypeOK
<1>5. ASSUME NEW u \in Turns PROVE EachSound(u)'
  <2>1. doubtful[u] => doubtful'[u]
    BY <1>2
  <2>2. Device(call[u].service) = d => doubtful'[u]
    BY <1>2
  <2>3. Sound(u) => Sound(u)' \/ doubtful'[u]
    BY <1>2, <2>2 DEF Sound
  <2>4. EachSound(u)
    BY DEF VoiceInv
  <2>5. QED
    BY <1>2, <2>1, <2>3, <2>4 DEF EachSound, CallSound, TurnSound, JobSound
<1>6. QED
  BY <1>4, <1>5 DEF VoiceInv

LEMMA VoiceInitially == VoiceInit => VoiceInv
<1> SUFFICES ASSUME VoiceInit PROVE VoiceInv
  OBVIOUS
<1>1. HomeTypeOK
  <2>1. call \in [Turns -> CallStates]
    BY NoCallType DEF VoiceInit, HomeInit
  <2>2. QED
    BY <2>1, HomeConstants DEF VoiceInit, HomeInit, HomeTypeOK, CallStates
<1>2. VoiceTypeOK
  BY <1>1, VoiceConstants DEF VoiceInit, JobInit, JobTypeOK, VoiceTypeOK, Stages, Answers
<1>3. ASSUME NEW u \in Turns PROVE EachSound(u)
  BY VoiceConstants DEF VoiceInit, HomeInit, JobInit, EachSound, CallSound, TurnSound, JobSound,
       NoCall
<1>4. QED
  BY <1>2, <1>3 DEF VoiceInv

LEMMA VoiceStep == VoiceInv /\ [VoiceNext]_voiceVars => VoiceInv'
<1> SUFFICES ASSUME VoiceInv, [VoiceNext]_voiceVars PROVE VoiceInv'
  OBVIOUS
<1>1. CASE UNCHANGED voiceVars
  <2>1. VoiceTypeOK'
    BY <1>1 DEF voiceVars, houseVars, callVars, jobVars, turnVars, VoiceInv, VoiceTypeOK,
         HomeTypeOK, JobTypeOK
  <2>2. \A u \in Turns : EachSound(u)'
    BY <1>1, OthersSound DEF voiceVars, houseVars, callVars, jobVars, turnVars
  <2>3. QED
    BY <2>1, <2>2 DEF VoiceInv
<1>2. QED
  BY <1>1, HearStep, ResolverStep, CallingStep, EndsStep, IntendsStep, TimesOutStep, WorkingStep,
     RestartStep, BreaksStep DEF VoiceNext, Turning

\* What is known of the calls, the turns and the jobs together is inductive.
THEOREM VoiceHolds == VoiceSpec => []VoiceInv
  BY VoiceInitially, VoiceStep, PTL DEF VoiceSpec

\* The shutter's script is carried out at most once by a call, for any number of utterances and
\* of devices that break, wherever connections are cut and requests repeated.
THEOREM CommandsAlwaysSound == VoiceSpec => []CommandsSound
<1>1. VoiceInv => CommandsSound
  BY DEF VoiceInv, EachSound, CallSound, CommandsSound
<1>2. QED
  BY <1>1, VoiceHolds, PTL

\* What is answered as done was done, or could not be checked: in every path of the cascade,
\* after any refused call, timeout or restart.
THEOREM AnswersAlwaysTrue == VoiceSpec => []AnswersTrue
<1>1. VoiceInv => AnswersTrue
  BY DEF VoiceInv, EachSound, TurnSound, AnswersTrue
<1>2. QED
  BY <1>1, VoiceHolds, PTL

\* A job says its result or its apology, whatever becomes of its row and of the process.
THEOREM JobsAlwaysSound == VoiceSpec => []JobsSound
<1>1. VoiceInv => JobsSound
  BY DEF VoiceInv, EachSound, JobSound, JobsSound
<1>2. QED
  BY <1>1, VoiceHolds, PTL
=============================================================================
