------------------------------- MODULE VoiceJob -----------------------------
(***************************************************************************)
(* The voice jobs (core/vocal_jobs.py, core/vocal_host.py): a long search  *)
(* outlives the request that asked for it, in a task of the event loop, and*)
(* its result is announced on the satellite.  A write to the table that    *)
(* fails is ignored.                                                       *)
(***************************************************************************)
CONSTANTS Jobs

VARIABLES
  row,    \* the status of the job of each utterance in vocal_jobs
  worker, \* _process_vocal_job
  heard   \* what the satellite has said of it

jobVars == <<row, worker, heard>>

JobTypeOK ==
  /\ row \in [Jobs -> {"none", "pending", "running", "done", "error"}]
  /\ worker \in [Jobs -> {"none", "start", "work", "announce", "sorry", "over"}]
  /\ heard \in [Jobs -> SUBSET {"result", "apology"}]

JobInit ==
  /\ row = [u \in Jobs |-> "none"] /\ worker = [u \in Jobs |-> "none"]
  /\ heard = [u \in Jobs |-> {}]

\* update_vocal_job: a job that could not be inserted has no row to update.
Written(u, status) ==
  \/ row' = [row EXCEPT ![u] = IF @ = "none" THEN "none" ELSE status]
  \/ UNCHANGED row

Goes(u, l) == worker' = [worker EXCEPT ![u] = l]
Says(u, what) == heard' = [heard EXCEPT ![u] = @ \union {what}]

\* create_vocal_job and create_task
Create(u) ==
  /\ row' = [row EXCEPT ![u] = "pending"] \/ UNCHANGED row
  /\ Goes(u, "start")
  /\ UNCHANGED heard

Starts(u) ==
  /\ worker[u] = "start"
  /\ Written(u, "running") /\ Goes(u, "work")
  /\ UNCHANGED heard

\* The specialist answers; the answer is then recorded in the conversation (VoiceTurn).
Finding(u) == worker[u] = "work" /\ worker'[u] = "announce"

Finds(u) ==
  /\ worker[u] = "work"
  /\ Written(u, "done") /\ Goes(u, "announce")
  /\ UNCHANGED heard

GivesUp(u) ==
  /\ worker[u] = "work"
  /\ Written(u, "error") /\ Goes(u, "sorry")
  /\ UNCHANGED heard

\* Mutant of Announces: an announcement that is not acknowledged is an error.
AnnouncesOrRaises(u) ==
  /\ worker[u] = "announce"
  /\ \/ Says(u, "result") /\ Goes(u, "over") /\ UNCHANGED row
     \/ /\ Goes(u, "sorry") /\ Written(u, "error")
        /\ Says(u, "result") \/ UNCHANGED heard

\* announce_to_satellite: said or not, acknowledged or not, it is over; a failure of another
\* kind comes before anything is said.
Announces(u) ==
  /\ worker[u] = "announce"
  /\ \/ Goes(u, "over") /\ UNCHANGED row /\ (Says(u, "result") \/ UNCHANGED heard)
     \/ Goes(u, "sorry") /\ Written(u, "error") /\ UNCHANGED heard

Apologises(u) ==
  /\ worker[u] = "sorry"
  /\ Goes(u, "over")
  /\ Says(u, "apology") \/ UNCHANGED heard
  /\ UNCHANGED row

JobStep(u) == Starts(u) \/ Finds(u) \/ GivesUp(u) \/ Announces(u) \/ Apologises(u)

\* The process stops: the tasks go, the rows stay as they are, and nothing reads them again.
Forgets ==
  /\ worker' = [u \in Jobs |-> IF worker[u] = "none" THEN "none" ELSE "over"]
  /\ UNCHANGED <<row, heard>>
=============================================================================
