------------------------------ MODULE VoiceTurn -----------------------------
(***************************************************************************)
(* The way of an utterance through POST /api/execute (api/routes/agents.py *)
(* and core/vocal_host.py) up to the pipeline: the cascade of the home     *)
(* mode, the discussion mode with its timeout and its jobs, and the light  *)
(* paths of the other sources.                                             *)
(***************************************************************************)
EXTENDS HomeCall, VoiceJob

CONSTANTS
  Sources,  \* of each utterance: the modes it may come in
  Spoken    \* of each utterance: the services its words may be taken for

\* A job is known by the utterance that asked for it.
ASSUME VoiceConstants ==
  /\ Sources \in [Turns -> SUBSET {"ha", "chat", "other"}]
  /\ Spoken \in [Turns -> SUBSET Services]
  /\ Jobs = Turns

VARIABLES
  stage,    \* where each utterance is: the next resolver of the cascade, or "end"
  mode,     \* request_source.mode: home, discussion, or another
  verb,     \* prompt_has_domotic_action, which only the home mode asks
  answer,   \* what was answered
  recorded  \* assistant turns given to record_vocal_turn, which ignores its failures

turnVars == <<stage, mode, verb, answer, recorded>>
voiceVars == <<houseVars, callVars, jobVars, turnVars>>

Stages == {"new", "state", "relative", "command", "everyday", "facts", "intent", "model",
           "router", "classify", "fast", "known", "fuzzy", "guess", "talk", "end"}
\* "error": an HTTP error, that of a duplicate or a full registry included, or what the route
\* makes of an exception, a 200 whose status is error.  "pipeline": run_full_pipeline takes over.
\* "lost": the engine stopped first.
Answers == {"none", "done", "failed", "read", "model", "ack", "sorry", "error", "pipeline",
            "lost"}

VoiceTypeOK ==
  /\ HomeTypeOK /\ JobTypeOK
  /\ stage \in [Turns -> Stages] /\ mode \in [Turns -> {"ha", "chat", "other"}]
  /\ verb \in [Turns -> BOOLEAN] /\ answer \in [Turns -> Answers]
  /\ recorded \in [Turns -> 0 .. 2]

VoiceInit ==
  /\ HomeInit /\ JobInit
  /\ stage = [u \in Turns |-> "new"] /\ mode = [u \in Turns |-> "other"]
  /\ verb = [u \in Turns |-> FALSE] /\ answer = [u \in Turns |-> "none"]
  /\ recorded = [u \in Turns |-> 0]

----------------------------------------------------------------------------
(* Moves of a turn. *)

Quiet == UNCHANGED <<houseVars, callVars, jobVars>>

\* Utterance u is at this resolver and none of its calls is under way.
At(u, s) == stage[u] = s /\ call[u].step = "idle"

GoesOn(u, s) ==
  stage' = [stage EXCEPT ![u] = s] /\ UNCHANGED <<mode, verb, answer, recorded>>

Records(u, n) == recorded' = [recorded EXCEPT ![u] = @ + n]

\* The answer goes out, and what the request knew of itself is gone.
Answer(u, what, turns) ==
  /\ stage' = [stage EXCEPT ![u] = "end"] /\ answer' = [answer EXCEPT ![u] = what]
  /\ mode' = [mode EXCEPT ![u] = "other"] /\ verb' = [verb EXCEPT ![u] = FALSE]
  /\ Records(u, turns)

\* In discussion, execute_chat records what handle_discussion answers.
Turn(u) == IF mode[u] = "chat" THEN 1 ELSE 0

\* execute_ha_service, for one of these services
Calls(u, services) ==
  (\E s \in services : Call(u, s)) /\ UNCHANGED <<jobVars, turnVars>>

Hear(u) ==
  /\ stage[u] = "new"
  /\ \E m \in Sources[u] : \E v \in IF m = "ha" THEN BOOLEAN ELSE {FALSE} :
       /\ mode' = [mode EXCEPT ![u] = m] /\ verb' = [verb EXCEPT ![u] = v]
       /\ stage' = [stage EXCEPT ![u] = CASE m = "ha" -> "state" [] m = "chat" -> "command"
                                           [] OTHER -> "router"]
  /\ UNCHANGED <<answer, recorded>> /\ Quiet

----------------------------------------------------------------------------
(* What both voice modes try. *)

\* A question about the house, read from Home Assistant; then, in discussion, the weather and
\* the time.  What raises is for the next resolver in discussion, an HTTP error in the home mode.
Reads(u) ==
  /\ At(u, "state") \/ At(u, "facts")
  /\ \/ Answer(u, "read", Turn(u))
     \/ mode[u] = "ha" /\ Answer(u, "error", 0)
     \/ GoesOn(u, IF stage[u] = "state" THEN "relative" ELSE "intent")
  /\ Quiet

\* match_ha_command
Commands(u) ==
  /\ At(u, "command")
  /\ \/ Calls(u, Spoken[u])
     \/ GoesOn(u, IF mode[u] = "chat" THEN "facts" ELSE "everyday") /\ Quiet

----------------------------------------------------------------------------
(* The cascade of the home mode. *)

\* resolve_climate_relative: the setpoint is read, which may fail, then set.
Relative(u) ==
  /\ At(u, "relative")
  /\ \/ GoesOn(u, "command") /\ Quiet
     \/ Answer(u, "failed", 0) /\ Quiet
     \/ Calls(u, {"setpoint"})

\* The weather, whose failures are caught, then the time, whose failures are not.
Everyday(u) ==
  /\ At(u, "everyday")
  /\ \/ ~verb[u] /\ \E what \in {"read", "error"} : Answer(u, what, 0)
     \/ GoesOn(u, "router")
  /\ Quiet

\* What analyze_request makes of an utterance: small talk is for the other sources only.
Routed(u) ==
  \/ Answer(u, "error", 0)
  \/ GoesOn(u, "known")
  \/ GoesOn(u, IF mode[u] = "ha" THEN "fuzzy" ELSE "talk")
  \/ mode[u] = "other" /\ GoesOn(u, "fast")

\* check_duplicate, then analyze_request, which knows by itself or asks a model.
Routes(u) ==
  /\ At(u, "router")
  /\ Routed(u) \/ GoesOn(u, "classify")
  /\ Quiet

\* _llm_classify: the model answers, or fails.  The route sets it no limit.
Classifies(u) == At(u, "classify") /\ Routed(u) /\ Quiet

\* ha_deterministic: a phrase the router knows.
Knows(u) == At(u, "known") /\ Calls(u, Spoken[u])

\* HAFuzzyMatcher: an entity of a controllable domain, with what to do of it.
Fuzzy(u) ==
  /\ At(u, "fuzzy")
  /\ Calls(u, Spoken[u] \ {"setpoint", "comfort"}) \/ (GoesOn(u, "guess") /\ Quiet)

\* resolve_ha_via_llm, which gives up by itself; only for a phrase with a verb of action.
Guesses(u) ==
  /\ At(u, "guess")
  /\ \/ verb[u] /\ Calls(u, Spoken[u])
     \/ GoesOn(u, "talk") /\ Quiet

\* A ready-made reply, or the one for what was not understood; the other sources go on to the
\* pipeline, if begin_execution lets them.
Talks(u) ==
  /\ At(u, "talk")
  /\ \E what \in IF mode[u] = "ha" THEN {"read", "failed"} ELSE {"pipeline", "error"} :
       Answer(u, what, 0)
  /\ Quiet

----------------------------------------------------------------------------
(* The call comes back. *)

\* What follows a call that was refused or has raised, when the turn goes on.
AfterFailure(u) ==
  CASE stage[u] = "known" /\ mode[u] = "ha" -> "fuzzy"
    [] stage[u] = "fuzzy" -> "guess"
    [] OTHER -> "talk"

\* A failed shortcut ends the turn; what raises in one of the home mode is an HTTP error.
Ends(u) ==
  /\ Returned(u) /\ HangUp(u, call[u].step = "ok")
  /\ CASE call[u].step = "ok" -> Answer(u, "done", Turn(u))
       [] call[u].step # "ok" /\ stage[u] \in {"relative", "command"} ->
            Answer(u, IF call[u].step = "raised" /\ mode[u] = "ha" THEN "error" ELSE "failed",
                   Turn(u))
       [] OTHER -> GoesOn(u, AfterFailure(u))
  /\ UNCHANGED <<houseVars, jobVars>>

Calling(u) ==
  CallStep(u) /\ UNCHANGED <<jobVars, turnVars>>

----------------------------------------------------------------------------
(* Discussion, and the small talk of the other sources. *)

\* classify_vocal_intent: a short answer of a model, or a job.
Intends(u) ==
  /\ At(u, "intent")
  /\ \/ GoesOn(u, "model") /\ Quiet
     \/ /\ Create(u) /\ Answer(u, "ack", 0)
        /\ UNCHANGED <<houseVars, callVars>>

\* The model answers or fails.  The answer of a specialist is recorded by handle_discussion
\* and again by execute_chat.
Models(u) ==
  /\ At(u, "model") \/ At(u, "fast")
  /\ \/ \E turns \in IF mode[u] = "chat" THEN {1, 2} ELSE {0} : Answer(u, "model", turns)
     \/ mode[u] = "chat" /\ Answer(u, "sorry", 0)
     \/ mode[u] = "other" /\ GoesOn(u, "talk")
  /\ Quiet

\* Mutant of TimesOut: only the calls of Home Assistant are limited.
TimesOutCalls(u) ==
  /\ mode[u] = "chat" /\ stage[u] = "command"
  /\ HangUp(u, FALSE) /\ Answer(u, "sorry", 0)
  /\ UNCHANGED <<houseVars, jobVars>>

\* wait_for around handle_discussion, and around the small talk.  A call under way is
\* dropped; if it had arrived, its answer (Accepted) comes before this.
TimesOut(u) ==
  /\ \/ mode[u] = "chat" /\ stage[u] # "end" /\ HangUp(u, FALSE) /\ Answer(u, "sorry", 0)
     \/ At(u, "fast") /\ GoesOn(u, "talk") /\ UNCHANGED callVars
  /\ UNCHANGED <<houseVars, jobVars>>

\* A job; the specialist's answer is recorded.
Working(u) ==
  /\ JobStep(u)
  /\ IF Finding(u) THEN Records(u, 1) ELSE UNCHANGED recorded
  /\ UNCHANGED <<houseVars, callVars, stage, mode, verb, answer>>

----------------------------------------------------------------------------
Turning(u) ==
  \/ Reads(u) \/ Commands(u) \/ Relative(u) \/ Everyday(u) \/ Routes(u) \/ Knows(u)
  \/ Fuzzy(u) \/ Guesses(u) \/ Talks(u) \/ Calling(u) \/ Ends(u) \/ Intends(u)

\* The engine stops and starts again: the requests and the jobs it had are gone.
Restart ==
  /\ LET cut == {u \in Turns : stage[u] \notin {"new", "end"}}
     IN  /\ stage' = [u \in Turns |-> IF u \in cut THEN "end" ELSE stage[u]]
         /\ answer' = [u \in Turns |-> IF u \in cut THEN "lost" ELSE answer[u]]
         /\ strokes' = [u \in Turns |-> IF u \in cut THEN 0 ELSE strokes[u]]
         /\ doubtful' = [u \in Turns |-> u \notin cut /\ doubtful[u]]
  /\ mode' = [u \in Turns |-> "other"] /\ verb' = [u \in Turns |-> FALSE]
  /\ call' = [u \in Turns |-> NoCall]
  /\ Forgets
  /\ UNCHANGED <<houseVars, recorded>>

Breaks == (\E d \in Devices : Upset(d)) /\ UNCHANGED <<jobVars, turnVars>>

VoiceNext ==
  \/ \E u \in Turns :
       Hear(u) \/ Turning(u) \/ Classifies(u) \/ Models(u) \/ TimesOut(u) \/ Working(u)
  \/ Restart \/ Breaks

\* u waits for a model and nothing in this code limits the wait: the classifier of the router,
\* or the specialist of its job.
Awaits(u) == stage[u] = "classify" \/ worker[u] = "work"

\* A turn and a job go on, except where a model is waited for: none has to answer.  A timeout
\* always fires.
Fairness ==
  \A u \in Turns :
    /\ WF_voiceVars(Turning(u) \/ (~Awaits(u) /\ Working(u)))
    /\ WF_voiceVars(TimesOut(u))

VoiceSpec == VoiceInit /\ [][VoiceNext]_voiceVars /\ Fairness

----------------------------------------------------------------------------
(* Properties. *)

\* One command has one effect in the house: what toggles or starts again is never carried out
\* twice by one call, whatever the connection does (#T323, #T350).
CommandsSound ==
  /\ VoiceTypeOK
  /\ \A u \in Turns : call[u].service = "shutter" => strokes[u] <= 1

\* What the satellite says was done was done, unless the device could not be looked at or
\* broke meanwhile (#T356): in every path of the cascade, and whatever was tried before.
AnswersTrue == \A u \in Turns : answer[u] = "done" => strokes[u] > 0 \/ doubtful[u]

\* A job gives its result or its apology, never both, and a result that was heard is not an
\* error in the table; only an acknowledged utterance has a job.
JobsSound ==
  \A u \in Turns :
    /\ heard[u] # {"result", "apology"}
    /\ "result" \in heard[u] => row[u] # "error"
    /\ worker[u] # "none" => answer[u] = "ack" /\ recorded[u] <= 1

\* Whatever Home Assistant and the table do, and whether the models of the discussion and of
\* the small talk answer or not, an utterance is answered and its job ends, or the engine
\* stops.  What nothing limits (agents.py 628, vocal_host.py 325) may be waited for for ever:
\* then it is for that model that one waits, and not for anything else.
EveryoneAnswered ==
  \A u \in Turns :
    stage[u] \notin {"new", "end"}
      ~> ((stage[u] = "end" /\ worker[u] \in {"none", "over"}) \/ []Awaits(u))
=============================================================================
