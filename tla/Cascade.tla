------------------------------ MODULE Cascade -------------------------------
(***************************************************************************)
(* The cascade of models behind every LLM call: FallbackProvider           *)
(* (core/llm/providers/deepseek.py) tries the models of a tier in order,   *)
(* each behind its circuit breaker (core/llm/circuit_breaker.py), which    *)
(* all the calls of the process share.                                     *)
(*                                                                         *)
(* Calls are coroutines: a step goes from one await to the next, and the   *)
(* answer of a provider comes at a later step, when other calls may have   *)
(* opened, probed or closed the circuit.  generate, generate_async and the *)
(* structured variants differ by the escalation on quality alone, which is *)
(* an outcome here, like the broken stream of generate_stream.  Time is    *)
(* counted in units of the recovery timeout.                               *)
(***************************************************************************)
EXTENDS Naturals, Sequences

CONSTANTS
  Models,       \* the cascade of the tier, in the order it is tried
  Calls,        \* calls in flight; each may call again
  Threshold,    \* failure_threshold
  Base,         \* recovery_timeout
  MaxTimeout,   \* max_recovery_timeout
  MaxTrips      \* number of trips after which the timeout is MaxTimeout

Slots == 1 .. Len(Models)
Providers == {Models[i] : i \in Slots}

Smaller(i, j) == IF i < j THEN i ELSE j

ASSUME CascadeConstants ==
  /\ Len(Models) \in Nat \ {0}
  /\ Threshold \in Nat \ {0} /\ Base \in Nat \ {0} /\ MaxTimeout \in Nat /\ MaxTrips \in Nat \ {0}
  /\ Base <= MaxTimeout
  /\ Base * 2 ^ (MaxTrips - 1) >= MaxTimeout
  /\ \A n \in 1 .. MaxTrips : Base * 2 ^ (n - 1) \in Nat

VARIABLES
  circuit,   \* _state of each breaker
  failures,  \* _failure_count, counted up to Threshold
  trips,     \* _consecutive_trips, counted up to MaxTrips
  wait,      \* what is left of the recovery timeout
  up,        \* whether the provider would answer a request sent now
  pc,        \* where each call is
  slot,      \* the model it is at
  attempts,  \* retries
  answers,   \* whether the request that is out will be answered
  thrown     \* how many answers it received and threw away

breakers == <<circuit, failures, trips, wait>>
calls == <<pc, slot, attempts, answers, thrown>>
vars == <<breakers, up, calls>>

TypeOK ==
  /\ circuit \in [Providers -> {"CLOSED", "OPEN", "HALF_OPEN"}]
  /\ failures \in [Providers -> 0 .. Threshold]
  /\ trips \in [Providers -> 0 .. MaxTrips]
  /\ wait \in [Providers -> 0 .. MaxTimeout]
  /\ up \in [Providers -> BOOLEAN]
  /\ pc \in [Calls -> {"idle", "choosing", "calling", "answered", "raised"}]
  /\ slot \in [Calls -> 1 .. Len(Models) + 1]
  /\ attempts \in [Calls -> 0 .. 2]
  /\ answers \in [Calls -> BOOLEAN]
  /\ thrown \in [Calls -> Nat]

Init ==
  /\ circuit = [m \in Providers |-> "CLOSED"]
  /\ failures = [m \in Providers |-> 0]
  /\ trips = [m \in Providers |-> 0]
  /\ wait = [m \in Providers |-> 0]
  /\ up = [m \in Providers |-> TRUE]
  /\ pc = [c \in Calls |-> "idle"]
  /\ slot = [c \in Calls |-> 1]
  /\ attempts = [c \in Calls |-> 0]
  /\ answers = [c \in Calls |-> FALSE]
  /\ thrown = [c \in Calls |-> 0]

-----------------------------------------------------------------------------
(* The breaker.                                                            *)

\* _compute_recovery_timeout after the given number of consecutive trips.
RecoveryTimeout(n) ==
  IF n <= 1 THEN Base
  ELSE IF n >= MaxTrips THEN MaxTimeout
  ELSE Smaller(Base * 2 ^ (n - 1), MaxTimeout)

\* Mutant of Seen: the recovery timeout is never looked at.
SeenForever(m) == circuit[m]

\* The property `state`: an OPEN circuit whose timeout is over is HALF_OPEN.
Seen(m) == IF circuit[m] = "OPEN" /\ wait[m] = 0 THEN "HALF_OPEN" ELSE circuit[m]

\* _trip.
Trip(m) ==
  LET n == Smaller(trips[m] + 1, MaxTrips) IN
    /\ circuit' = [circuit EXCEPT ![m] = "OPEN"]
    /\ trips' = [trips EXCEPT ![m] = n]
    /\ wait' = [wait EXCEPT ![m] = RecoveryTimeout(n)]

\* Mutant of RecordSuccess: the count of trips is kept.
RecordSuccessKeepsTrips(m) ==
  /\ IF circuit[m] = "HALF_OPEN"
       THEN circuit' = [circuit EXCEPT ![m] = "CLOSED"] /\ wait' = [wait EXCEPT ![m] = 0]
       ELSE UNCHANGED <<circuit, wait>>
  /\ failures' = IF circuit[m] = "OPEN" THEN failures ELSE [failures EXCEPT ![m] = 0]
  /\ UNCHANGED trips

\* record_success: a probe that succeeds closes the circuit; an answer that comes
\* while the circuit is OPEN changes nothing.
RecordSuccess(m) ==
  /\ IF circuit[m] = "HALF_OPEN"
       THEN /\ circuit' = [circuit EXCEPT ![m] = "CLOSED"]
            /\ trips' = [trips EXCEPT ![m] = 0]
            /\ wait' = [wait EXCEPT ![m] = 0]
       ELSE UNCHANGED <<circuit, trips, wait>>
  /\ failures' = IF circuit[m] = "OPEN" THEN failures ELSE [failures EXCEPT ![m] = 0]

\* record_failure.
RecordFailure(m) ==
  LET n == Smaller(failures[m] + 1, Threshold) IN
    /\ failures' = [failures EXCEPT ![m] = n]
    /\ IF circuit[m] = "HALF_OPEN" \/ (circuit[m] = "CLOSED" /\ n = Threshold)
         THEN Trip(m)
         ELSE UNCHANGED <<circuit, trips, wait>>

\* record_rate_limit: the circuit opens whatever its state, and trips again if it
\* is open.
RecordRateLimit(m) == failures' = [failures EXCEPT ![m] = Threshold] /\ Trip(m)

-----------------------------------------------------------------------------
(* A call.                                                                 *)

Model(c) == Models[slot[c]]

\* The request is over, and its locals with it.
Leave(c, where, next) ==
  /\ pc' = [pc EXCEPT ![c] = where]
  /\ slot' = [slot EXCEPT ![c] = next]
  /\ attempts' = [attempts EXCEPT ![c] = 0]
  /\ answers' = [answers EXCEPT ![c] = FALSE]

Begin(c) ==
  /\ pc[c] \in {"idle", "answered", "raised"}
  /\ pc' = [pc EXCEPT ![c] = "choosing"]
  /\ thrown' = [thrown EXCEPT ![c] = 0]
  /\ UNCHANGED <<breakers, up, slot, attempts, answers>>

\* is_open: a model whose circuit is OPEN is passed over.
Skip(c) ==
  /\ pc[c] = "choosing" /\ slot[c] \in Slots
  /\ Seen(Model(c)) = "OPEN"
  /\ slot' = [slot EXCEPT ![c] = @ + 1]
  /\ UNCHANGED <<breakers, up, pc, attempts, answers, thrown>>

\* The request is sent; a circuit that is HALF_OPEN lets every call through.
Send(c) ==
  /\ pc[c] = "choosing" /\ slot[c] \in Slots
  /\ Seen(Model(c)) # "OPEN"
  /\ circuit' = [circuit EXCEPT ![Model(c)] = Seen(Model(c))]
  /\ pc' = [pc EXCEPT ![c] = "calling"]
  /\ attempts' = [attempts EXCEPT ![c] = 2]
  /\ answers' = [answers EXCEPT ![c] = up[Model(c)]]
  /\ UNCHANGED <<failures, trips, wait, up, slot, thrown>>

NoneLeft(c) ==
  /\ pc[c] = "choosing" /\ slot[c] \notin Slots
  /\ Leave(c, "raised", 1)
  /\ UNCHANGED <<breakers, up, thrown>>

\* An inadequate answer is thrown away once, if a model is left in the cascade.
MayEscalate(c) == slot[c] < Len(Models) /\ thrown[c] = 0

Answered(c) ==
  /\ pc[c] = "calling" /\ answers[c]
  /\ RecordSuccess(Model(c))
  /\ Leave(c, "answered", 1)
  /\ UNCHANGED <<up, thrown>>

Escalated(c) ==
  /\ pc[c] = "calling" /\ answers[c]
  /\ MayEscalate(c)
  /\ RecordSuccess(Model(c))
  /\ thrown' = [thrown EXCEPT ![c] = @ + 1]
  /\ Leave(c, "choosing", slot[c] + 1)
  /\ UNCHANGED up

\* Mutant of RateLimited: the attempts are not counted.
RateLimitedForever(c) ==
  /\ pc[c] = "calling" /\ ~answers[c] /\ attempts[c] > 1
  /\ RecordRateLimit(Model(c))
  /\ answers' = [answers EXCEPT ![c] = up[Model(c)]]
  /\ UNCHANGED <<up, pc, slot, attempts, thrown>>

\* A first 429 trips the circuit, and the request is sent again at once, without a
\* look at the circuit it has just opened.
RateLimited(c) ==
  /\ pc[c] = "calling" /\ ~answers[c] /\ attempts[c] > 1
  /\ RecordRateLimit(Model(c))
  /\ attempts' = [attempts EXCEPT ![c] = @ - 1]
  /\ answers' = [answers EXCEPT ![c] = up[Model(c)]]
  /\ UNCHANGED <<up, pc, slot, thrown>>

\* Any other failure, or a second 429: the next model.
Failed(c) ==
  /\ pc[c] = "calling" /\ ~answers[c]
  /\ RecordFailure(Model(c))
  /\ Leave(c, "choosing", slot[c] + 1)
  /\ UNCHANGED <<up, thrown>>

\* A stream that breaks after its first token is not started again.
StreamBroken(c) ==
  /\ pc[c] = "calling" /\ ~answers[c] /\ attempts[c] = 2 /\ thrown[c] = 0
  /\ RecordFailure(Model(c))
  /\ Leave(c, "raised", 1)
  /\ UNCHANGED <<up, thrown>>

\* The watchdog of the caller cancels the call: nothing is recorded.
Cancel(c) ==
  /\ pc[c] = "calling"
  /\ Leave(c, "idle", 1)
  /\ UNCHANGED <<breakers, up, thrown>>

-----------------------------------------------------------------------------

Tick ==
  /\ \E m \in Providers : wait[m] > 0
  /\ wait' = [m \in Providers |-> IF wait[m] > 0 THEN wait[m] - 1 ELSE 0]
  /\ UNCHANGED <<circuit, failures, trips, up, calls>>

ProviderChanges(m) ==
  /\ up' = [up EXCEPT ![m] = ~@]
  /\ UNCHANGED <<breakers, calls>>

Step(c) ==
  Skip(c) \/ Send(c) \/ NoneLeft(c) \/ Answered(c) \/ Escalated(c) \/ RateLimited(c) \/ Failed(c)
    \/ StreamBroken(c)

Next ==
  \/ Tick
  \/ \E m \in Providers : ProviderChanges(m)
  \/ \E c \in Calls : Begin(c) \/ Step(c) \/ Cancel(c)

Spec == Init /\ [][Next]_vars

\* Time passes, and every provider answers or times out.
Fairness == WF_vars(Tick) /\ \A c \in Calls : WF_vars(Step(c))
FairSpec == Spec /\ Fairness

-----------------------------------------------------------------------------
(* Properties.                                                             *)

\* A CLOSED circuit is below its threshold and will open for the base timeout: what
\* late answers and failures of requests sent in another state leave behind is gone.
ClosedIsHealthy ==
  \A m \in Providers :
    circuit[m] = "CLOSED" => failures[m] < Threshold /\ trips[m] = 0 /\ wait[m] = 0

\* A circuit that is not CLOSED has tripped since it was: its next opening is longer.
NotClosedHasTripped == \A m \in Providers : circuit[m] # "CLOSED" => trips[m] > 0

\* What the breakers remember fits the state they are in, whatever the order in which the
\* requests sent through them come back.
BreakersSound == TypeOK /\ ClosedIsHealthy /\ NotClosedHasTripped

\* An answer already paid for is not thrown away to raise an error ([#T212]).
PaidAnswerKept == \A c \in Calls : pc[c] = "raised" => thrown[c] = 0

\* Every call answers, raises or is cancelled, whatever the others do to the circuits.
CallsEnd == \A c \in Calls : pc[c] = "choosing" ~> pc[c] \in {"idle", "answered", "raised"}

\* The first model, once its provider answers again and is asked again and again
\* without being cancelled, is closed for good: no late failure or 429 locks it out.
Recovers ==
  LET first == Models[1] IN
    /\ <>[]up[first]
    /\ <>[][\A c \in Calls : ~Cancel(c)]_vars
    /\ []<>(\E c \in Calls : pc[c] = "choosing" /\ slot[c] = 1)
    => <>[](circuit[first] = "CLOSED")
=============================================================================
