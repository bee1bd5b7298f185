------------------------------ MODULE Executions ----------------------------
(***************************************************************************)
(* The executions the server runs for its clients: the registry of         *)
(* core/app_state.py, the handlers of POST /api/run, /api/execute and      *)
(* /api/execute/stream that enter and leave it, the ways to stop them      *)
(* (api/routes/execution.py, api/routes/agents.py), and the view by which  *)
(* the dreamer knows that nobody uses the engine.                          *)
(*                                                                         *)
(* A coroutine gives the control back only at an await that has to wait.   *)
(* The bodies under execution_lock await nothing, the stop of the          *)
(* WebSocket excepted: calls that follow each other with nothing to wait   *)
(* for between them are one action.                                        *)
(***************************************************************************)
EXTENDS Naturals, FiniteSets, VocalAbort

CONSTANTS
  Keys,            \* sessions (_cle_execution)
  MaxConcurrency,  \* max_concurrency
  MaxStops,        \* stops and aborts asked for (bound of the model)
  NoRequest

ASSUME ExecutionsConstants ==
  /\ MaxConcurrency \in Nat \ {0} /\ MaxStops \in Nat /\ NoRequest \notin Requests
  /\ IsFiniteSet(Requests)

Kinds == {"run", "chat", "stream", "voice"}
\* What a pipeline reports; "other" stands for completed, waiting_approval, timeout...
Outcomes == {"success", "error", "other"}

VARIABLES
  app,    \* the registry, active_requests, execution_state["status"], _last_terminal_status
  locked, \* execution_lock is held for ever
  pc, key, kind,  \* of each request
  stops,
  \* Kept by the model alone:
  loose,  \* requests whose place is no longer theirs, although they or their pipeline go on
  disturbed, \* a stop, a purge or the departure of a client has taken such a place
  failed  \* an execution that had its place failed since the server was last idle

reqVars == <<pc, key, kind>>
vars == <<app, locked, reqVars, stops, loose, disturbed, failed, abortVars>>

Entries == [by : Requests \union {NoRequest}, status : {"running"} \union Outcomes]
Free == [by |-> NoRequest, status |-> "running"]

TypeOK ==
  /\ app \in [registry : [Keys -> Entries], active : 0 .. Cardinality(Requests),
              view : {"idle", "running"} \union Outcomes, memory : {"idle", "error"}]
  /\ locked \in BOOLEAN
  /\ pc \in [Requests -> {"new", "apart", "routing", "queued", "working", "concluding",
                          "closing", "dropped", "orphan", "unstarted", "over"}]
  /\ key \in [Requests -> Keys] /\ kind \in [Requests -> Kinds]
  /\ stops \in 0 .. MaxStops
  /\ loose \subseteq Requests /\ disturbed \in BOOLEAN /\ failed \in BOOLEAN
  /\ AbortTypeOK

Init ==
  /\ app = [registry |-> [k \in Keys |-> Free], active |-> 0, view |-> "idle",
            memory |-> "idle"]
  /\ locked = FALSE
  /\ pc = [r \in Requests |-> "new"]
  /\ key \in [Requests -> Keys] /\ kind \in [Requests -> Kinds]
  /\ stops = 0
  /\ loose = {} /\ disturbed = FALSE /\ failed = FALSE
  /\ AbortInit

\* The requests the server knows of.  It does not know of those it answers apart.
InFlight == {r \in Requests : pc[r] \in {"routing", "queued", "working", "concluding", "closing"}}
\* A pipeline of the request may be running.
Executing == {r \in Requests : pc[r] \in {"working", "concluding", "orphan", "dropped"}}
Speaking(r) == kind[r] = "voice" /\ pc[r] \in {"working", "dropped"}

----------------------------------------------------------------------------
(* The methods of AppState, from one value of the state to the next. *)

Registered(a) == {k \in Keys : a.registry[k].by # NoRequest}
Idle(a) == a.active = 0 /\ Registered(a) = {}

\* Mutant of Remembered: the failure is thrown away, as before #T344.
RememberedNever(a, status) == a.memory

Remembered(a, status) == IF status = "error" THEN "error" ELSE a.memory

\* _refresh_aggregate_locked
Refreshed(a, status) ==
  IF Idle(a)
    THEN [a EXCEPT !.view = IF a.memory = "error" THEN "error" ELSE status, !.memory = "idle"]
    ELSE [a EXCEPT !.view = "running", !.memory = Remembered(a, status)]

\* _cleanup_stale_entries_locked, of the entries that are too old
Purged(a, stale) ==
  IF stale = {} THEN a
  ELSE Refreshed([a EXCEPT !.registry = [k \in Keys |-> IF k \in stale THEN Free ELSE @[k]]],
                 "idle")

\* Mutant of Accepts: begin_execution trusts the early check_duplicate.
AcceptsUnchecked(a, k) == Cardinality(Registered(a)) < MaxConcurrency

Accepts(a, k) == k \notin Registered(a) /\ Cardinality(Registered(a)) < MaxConcurrency

Begun(a, r) ==
  [a EXCEPT !.registry[key[r]] = [Free EXCEPT !.by = r], !.view = "running"]

\* Mutant of RequestBegun: the counter of #T344 is missing.
RequestUncounted(a) == [a EXCEPT !.view = "running"]

RequestBegun(a) == [a EXCEPT !.active = @ + 1, !.view = "running"]
RequestEnded(a) == Refreshed([a EXCEPT !.active = IF @ > 0 THEN @ - 1 ELSE @], "idle")

\* set_execution_status
StatusSet(a, k, status) ==
  Refreshed(IF k \in Registered(a) THEN [a EXCEPT !.registry[k].status = status] ELSE a, status)

\* The outcome of an execution that ends with a status: the one noted on its entry prevails.
Verdict(a, k, status) ==
  LET noted == a.registry[k].status
  IN  IF noted \in {"success", "error"} THEN noted ELSE status

\* end_execution
Ended(a, k, status) ==
  Refreshed([a EXCEPT !.registry[k] = Free], Verdict(a, k, status))

\* clear_executions
Cleared(a, status) ==
  [a EXCEPT !.registry = [k \in Keys |-> Free], !.view = status, !.memory = "idle"]

----------------------------------------------------------------------------
(* What the model keeps of them. *)

Goto(r, l) == pc' = [pc EXCEPT ![r] = l]
Ghost(a) == failed' = (failed /\ ~Idle(a))

\* The end of r frees the key of r, whoever has it.
Robs(r) == {q \in InFlight \ {r} : app.registry[key[r]].by = q}
\* Whether a failure of r has to be shown when the server is idle again.
Fails(r, status) == failed' = (failed \/ (status = "error" /\ r \notin loose))

----------------------------------------------------------------------------
(* A request comes in. *)

\* Any entry may have passed stale_ttl_seconds, that of a request in flight too: the window
\* of an execution and the age of an entry are two settings.
Enter(r, l) ==
  \E stale \in SUBSET Registered(app) :
    LET a == Purged(app, stale)
        robbed == {q \in InFlight : \E k \in stale : app.registry[k].by = q}
    IN  /\ IF Accepts(a, key[r])
              THEN app' = Begun(a, r) /\ Goto(r, l)
              ELSE /\ app' = IF pc[r] = "routing" THEN RequestEnded(a) ELSE a
                   /\ Goto(r, "over")
        /\ Ghost(a)
        /\ loose' = (loose \ {r}) \union robbed
        /\ disturbed' = (disturbed \/ robbed # {})

\* POST /api/run: the pipeline goes on in the background.
Run(r) ==
  /\ pc[r] = "new" /\ kind[r] = "run"
  /\ Enter(r, "working")
  /\ UNCHANGED <<key, kind, abortVars>>

\* POST /api/execute in the discussion mode, or for the home: it is answered without being
\* counted.
Apart(r) ==
  /\ pc[r] = "new" /\ kind[r] = "chat"
  /\ Goto(r, "apart")
  /\ UNCHANGED <<app, key, kind, loose, disturbed, failed, abortVars>>

AnsweredApart(r) ==
  /\ pc[r] = "apart"
  /\ Goto(r, "over")
  /\ UNCHANGED <<app, key, kind, loose, disturbed, failed, abortVars>>

\* POST /api/execute, also when no shortcut of the home knew the answer: check_duplicate,
\* then begin_request
Chat(r) ==
  /\ pc[r] \in {"new", "apart"} /\ kind[r] = "chat"
  /\ IF key[r] \in Registered(app)
       THEN Goto(r, "over") /\ UNCHANGED <<app, failed>>
       ELSE app' = RequestBegun(app) /\ Goto(r, "routing") /\ Ghost(app)
  /\ UNCHANGED <<key, kind, loose, disturbed, abortVars>>

\* It is answered by one of the paths that run no pipeline.
Light(r) ==
  /\ pc[r] = "routing"
  /\ app' = RequestEnded(app)
  /\ Goto(r, "over")
  /\ loose' = loose \ {r}
  /\ UNCHANGED <<key, kind, disturbed, failed, abortVars>>

\* It needs the pipeline: the place is taken now, or refused.
Heavy(r) ==
  /\ pc[r] = "routing"
  /\ Enter(r, "working")
  /\ UNCHANGED <<key, kind, abortVars>>

\* POST /api/execute/stream: the place is taken before the generator starts.
Stream(r) ==
  /\ pc[r] = "new" /\ kind[r] \in {"stream", "voice"}
  /\ Enter(r, "queued")
  /\ UNCHANGED <<key, kind, abortVars>>

Starts(r) ==
  /\ pc[r] = "queued"
  /\ Goto(r, "working")
  /\ IF kind[r] = "voice" THEN Speaks(r) ELSE UNCHANGED abortVars
  /\ UNCHANGED <<app, key, kind, loose, disturbed, failed>>

\* The client is gone before the first chunk: a generator that has not started has no
\* finally to run, and the entry stays.
NeverStarts(r) ==
  /\ pc[r] = "queued"
  /\ Goto(r, "unstarted")
  /\ loose' = loose \ {r}
  /\ UNCHANGED <<app, key, kind, disturbed, failed, abortVars>>

----------------------------------------------------------------------------
(* A request comes to its end. *)

\* The engine announces the end of its orchestration (_on_event).
Concludes(r, status) ==
  /\ kind[r] # "voice" /\ pc[r] \in {"working", "orphan"}
  /\ app' = StatusSet(app, key[r], status)
  /\ Fails(r, status)
  /\ Goto(r, IF pc[r] = "orphan" THEN "over" ELSE "concluding")
  /\ loose' = IF pc[r] = "orphan" THEN loose \ {r} ELSE loose
  /\ UNCHANGED <<key, kind, disturbed, abortVars>>

\* end_execution in the finally of the handler
Leave(a, r, status, l) ==
  /\ app' = Ended(a, key[r], status)
  /\ Goto(r, l)
  /\ loose' = (loose \ (IF l = "over" THEN {r} ELSE {})) \union Robs(r)
                \union (IF l = "over" THEN {} ELSE {r})
  /\ disturbed' = (disturbed \/ l # "over")

\* Mutant of Finish: nothing is freed when the pipeline raises.
FinishUnlessRaised(r, status) ==
  /\ kind[r] \in {"run", "chat"} /\ pc[r] \in {"working", "concluding"}
  /\ IF status = "error"
       THEN /\ app' = IF kind[r] = "chat" THEN RequestEnded(app) ELSE app
            /\ Goto(r, "over") /\ loose' = loose \ {r} /\ UNCHANGED disturbed
       ELSE Leave(IF kind[r] = "chat" THEN RequestEnded(app) ELSE app, r, status, "over")
  /\ Fails(r, status)
  /\ UNCHANGED <<key, kind, abortVars>>

Finish(r, status) ==
  /\ kind[r] \in {"run", "chat"} /\ pc[r] \in {"working", "concluding"}
  /\ Leave(IF kind[r] = "chat" THEN RequestEnded(app) ELSE app, r, status, "over")
  /\ Fails(r, Verdict(app, key[r], status))
  /\ UNCHANGED <<key, kind, abortVars>>

\* A stream notes its outcome, then sends its last chunk; a discussion that ends or that
\* hears an abort notes a success.
Reports(r, status) ==
  /\ kind[r] \in {"stream", "voice"} /\ pc[r] \in {"working", "concluding"}
  /\ kind[r] = "voice" => status \in {"success", "error"}
  /\ app' = StatusSet(app, key[r], status)
  /\ Fails(r, status)
  /\ Goto(r, "closing")
  /\ IF kind[r] = "voice" THEN EndsSpeech(r) ELSE UNCHANGED abortVars
  /\ UNCHANGED <<key, kind, loose, disturbed>>

\* The last chunk is sent; or the stream runs out of time, its pipeline is cancelled, and
\* nothing tells that it failed.
Closes(r) ==
  /\ \/ pc[r] = "closing"
     \/ kind[r] = "stream" /\ pc[r] \in {"working", "concluding"}
  /\ Leave(app, r, "success", "over")
  /\ UNCHANGED <<key, kind, failed, abortVars>>

\* The client leaves while the generator waits for an event: the handler is cancelled,
\* the pipeline is not.
LeftWaiting(r) ==
  /\ kind[r] \in {"stream", "voice"} /\ pc[r] \in {"working", "concluding"}
  /\ Leave(app, r, "success",
           IF kind[r] = "stream" /\ pc[r] = "working" THEN "orphan" ELSE "over")
  /\ IF kind[r] = "voice" THEN EndsSpeech(r) ELSE UNCHANGED abortVars
  /\ UNCHANGED <<key, kind, failed>>

\* The client leaves while a chunk is sent: the outer generator is closed first, and the
\* inner one, which cancels the pipeline, after it.
LeftSending(r) ==
  /\ kind[r] \in {"stream", "voice"} /\ pc[r] \in {"working", "concluding"}
  /\ Leave(app, r, "success", "dropped")
  /\ UNCHANGED <<key, kind, failed, abortVars>>

DroppedCloses(r) ==
  /\ pc[r] = "dropped"
  /\ app' = StatusSet(app, key[r], "error")
  /\ Goto(r, "over")
  /\ loose' = loose \ {r}
  /\ IF kind[r] = "voice" THEN EndsSpeech(r) ELSE UNCHANGED abortVars
  /\ UNCHANGED <<key, kind, disturbed, failed>>

RequestStep(r) ==
  /\ ~locked
  /\ \/ Run(r) \/ Apart(r) \/ AnsweredApart(r) \/ Chat(r) \/ Light(r) \/ Heavy(r) \/ Stream(r)
     \/ Starts(r) \/ NeverStarts(r)
     \/ \E status \in Outcomes : Concludes(r, status) \/ Finish(r, status) \/ Reports(r, status)
     \/ Closes(r) \/ LeftWaiting(r) \/ LeftSending(r) \/ DroppedCloses(r)
  /\ UNCHANGED <<locked, stops>>

----------------------------------------------------------------------------
(* Stops and aborts. *)

\* No pipeline is told: only the registry is emptied.
Clear(status) ==
  /\ app' = Cleared(app, status)
  /\ loose' = loose \union InFlight
  /\ disturbed' = (disturbed \/ InFlight # {})
  /\ failed' = FALSE

Asked == ~locked /\ stops < MaxStops /\ stops' = stops + 1

\* POST /api/stop
Stop ==
  /\ Asked /\ app.view = "running"
  /\ Clear("error")
  /\ UNCHANGED <<locked, reqVars, abortVars>>

\* POST /api/vocal/abort
VocalAbort ==
  /\ Asked
  /\ \E scope \in Scopes : BargeIn(scope, {r \in Requests : Speaking(r)})
  /\ Clear("success")
  /\ UNCHANGED <<locked, reqVars>>

\* The stop of the WebSocket calls clear_executions with execution_lock in its hand: an
\* asyncio.Lock is not reentrant, so it waits for itself.
WsStop ==
  /\ Asked /\ app.view = "running"
  /\ locked' = TRUE
  /\ UNCHANGED <<app, reqVars, loose, disturbed, failed, abortVars>>

Next ==
  \/ \E r \in Requests : RequestStep(r)
  \/ Stop \/ VocalAbort \/ WsStop

\* The event loop serves every coroutine that can go on.
Spec == Init /\ [][Next]_vars /\ \A r \in Requests : WF_vars(RequestStep(r))

----------------------------------------------------------------------------
(* Properties. *)

\* Nobody loses a place by the ordinary course of things: as long as no stop, no purge and no
\* client has taken that of a request in flight, every request in flight has its own.
Undisturbed == ~disturbed => loose = {}

\* Two executions of one session never overlap, unless one of them has lost its place.
OneExecutionPerSession ==
  \A r, s \in Executing \ loose : key[r] = key[s] => r = s

\* No more executions than the machine is meant for, with the same reservation.
CapRespected == Cardinality(Executing \ loose) <= MaxConcurrency

\* The registry is the gate it is meant to be: one execution per session, and a cap, for
\* everyone until something takes a place, and afterwards for all but those who lost theirs.
PlacesRespected == TypeOK /\ Undisturbed /\ OneExecutionPerSession /\ CapRespected

\* A session is never refused because of an execution that is over, except for a stream
\* that never started, whose entry waits for the purge.
NothingLeaks ==
  \A k \in Registered(app) :
    app.registry[k].by \in InFlight \/ pc[app.registry[k].by] = "unstarted"

\* The dreamer sees an engine in use as long as a request that the server counts is in flight
\* and has its place.  The discussions and the shortcuts of the home are not counted, although
\* the comments of the class want every activity of a user to be (see the README).
DreamerQuiet == InFlight \ loose # {} => app.view = "running"

\* What the server shows of its requests is true of them: the registry and the status.
RegistryTrue == NothingLeaks /\ DreamerQuiet

\* The step by which the server becomes idle shows that an execution has failed, even if
\* others have succeeded since; unless a stop left a request that ends after it.
FailureShown ==
  [][~Idle(app) /\ Idle(app') /\ failed' /\ loose = {} => app'.view = "error"]_vars

\* A barge-in stops nobody who speaks after it: a stream that sees an abort was speaking
\* when one came, whatever the streams of the conversation left behind them.
AbortIsForTheSpeakers ==
  \A r \in Requests : Speaking(r) /\ IsAborted(r) => r \in told

\* Every request that has begun ends: no session stays blocked
\* (api/routes/execution.py). The stop of the WebSocket refutes it.
RequestsEnd == \A r \in Requests : (r \in InFlight) ~> (r \notin InFlight)
=============================================================================
