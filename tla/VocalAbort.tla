------------------------------ MODULE VocalAbort ----------------------------
(***************************************************************************)
(* The abort flags of the voice streams (core/vocal_abort.py): one event   *)
(* per stream and one for the conversation the streams belong to, set by a *)
(* barge-in and polled by the generator of the stream                      *)
(* (services/pipeline_service.py).                                         *)
(***************************************************************************)
CONSTANTS
  Requests,
  Conversation  \* the one conversation of all the voice streams

ASSUME AbortConstants == Conversation \notin Requests

VARIABLES
  flag,  \* _abort_events: no event, or an event that is clear or set
  told   \* kept by the model alone: the streams that were speaking when a barge-in came

abortVars == <<flag, told>>
Flags == [Requests \union {Conversation} -> {"none", "clear", "set"}]

AbortTypeOK == flag \in Flags /\ told \subseteq Requests
AbortInit == flag = [x \in Requests \union {Conversation} |-> "none"] /\ told = {}

KeysOf(r) == {r, Conversation}

\* abort_vocal_streams
Signalled(f, targets) ==
  [x \in DOMAIN f |-> IF x \in targets /\ f[x] # "none" THEN "set" ELSE f[x]]

\* Mutant of Registration: an event that is there is taken as it is.
RegistrationKept(f, r) ==
  [x \in DOMAIN f |-> IF x \in KeysOf(r) /\ f[x] = "none" THEN "clear" ELSE f[x]]

\* register_vocal_stream, which resets the flags it finds
Registration(f, r) == [x \in DOMAIN f |-> IF x \in KeysOf(r) THEN "clear" ELSE f[x]]

\* unregister_vocal_stream
Withdrawal(f, r) == [x \in DOMAIN f |-> IF x \in KeysOf(r) THEN "none" ELSE f[x]]

IsAborted(r) == \E x \in KeysOf(r) : flag[x] = "set"

\* A new utterance aborts the streams of its conversation, then registers its own: the
\* two happen with no await between them, and the second undoes the first.
Speaks(r) ==
  /\ flag' = Registration(Signalled(flag, {Conversation}), r)
  /\ UNCHANGED told

\* The flag of the conversation goes with the first of its streams that ends.
EndsSpeech(r) ==
  /\ flag' = Withdrawal(flag, r)
  /\ UNCHANGED told


\* What a barge-in may name: the conversation; nothing, hence every event; or a device,
\* which no stream gives when it registers.
Scopes == {{Conversation}, DOMAIN flag, {}}

\* POST /api/vocal/abort, its first half
BargeIn(scope, speakers) ==
  /\ flag' = Signalled(flag, scope)
  /\ told' = told \union speakers
=============================================================================
