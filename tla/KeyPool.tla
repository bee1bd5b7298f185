------------------------------ MODULE KeyPool -------------------------------
(***************************************************************************)
(* The pool of free keys of Gemini (core/key_pool.py), shared by every     *)
(* request of the process, and the requests that take a key from it and    *)
(* rotate on a 429 (GeminiNativeProvider in core/gemini_native.py).        *)
(*                                                                         *)
(* Requests run in threads; each operation of the pool is one step, under  *)
(* its lock, and the answers of the API come at any later step.            *)
(***************************************************************************)
EXTENDS Naturals, FiniteSets

CONSTANTS
  N,         \* number of free keys, numbered in the order they are loaded
  Callers,   \* threads that call generate
  Cooldown   \* COOLDOWN_SECONDS, in ticks

Keys == 0 .. N - 1

ASSUME KeyPoolConstants == N \in Nat \ {0} /\ Cooldown \in Nat \ {0}

VARIABLES
  index,     \* _current_index
  cooldown,  \* what is left of rate_limited_until, for each key
  phase,     \* where each call of generate is
  active,    \* active_key
  retry,     \* next_key
  \* Kept by the model alone:
  rejected,  \* ticks for which a key is still to rest: its last 429 is younger than the
             \* cooldown, and no request with that key has succeeded since
  waiting    \* for each key, the keys that were free ever since it was handed out and
             \* have not been handed out

pool == <<index, cooldown>>
poolVars == <<pool, phase, active, retry, rejected, waiting>>

PoolTypeOK ==
  /\ index \in Keys
  /\ cooldown \in [Keys -> 0 .. Cooldown]
  /\ phase \in [Callers -> {"idle", "sent", "limited", "resent", "pardoning"}]
  /\ active \in [Callers -> Keys]
  /\ retry \in [Callers -> Keys]
  /\ rejected \in [Keys -> 0 .. Cooldown]
  /\ waiting \in [Keys -> SUBSET Keys]

PoolInit ==
  /\ index = 0
  /\ cooldown = [k \in Keys |-> 0]
  /\ phase = [c \in Callers |-> "idle"]
  /\ active = [c \in Callers |-> 0] /\ retry = [c \in Callers |-> 0]
  /\ rejected = [k \in Keys |-> 0]
  /\ waiting = [k \in Keys |-> {}]

-----------------------------------------------------------------------------
(* The pool.                                                               *)

Free == {k \in Keys : cooldown[k] = 0}

\* How many keys the scan passes over, from the current index, to reach k.
Distance(k) == (k + N - index) % N

\* The first free key of the scan.
IsNext(k) == k \in Free /\ \A j \in Free : Distance(k) <= Distance(j)

\* The first key of those whose cooldown ends the soonest.
IsSoonest(k) ==
  \A j \in Keys : cooldown[k] < cooldown[j] \/ (cooldown[k] = cooldown[j] /\ k <= j)

\* Mutant of Advance: the index moves by one, whatever the scan passed over.
AdvanceByOne(k) == (index + 1) % N

\* The index after k was handed out.
Advance(k) == (k + 1) % N

\* get_free_key hands out a free key.
HandOut(k) ==
  /\ IsNext(k)
  /\ index' = Advance(k)
  /\ waiting' = [j \in Keys |-> IF j = k THEN Free \ {k} ELSE waiting[j] \ {k}]

\* report_rate_limit.
ReportRateLimit(k) ==
  /\ cooldown' = [cooldown EXCEPT ![k] = Cooldown]
  /\ rejected' = [rejected EXCEPT ![k] = Cooldown]
  /\ waiting' = [j \in Keys |-> waiting[j] \ {k}]

\* report_success: the cooldown of the key is cleared.
ReportSuccess(k) == cooldown' = [cooldown EXCEPT ![k] = 0]

-----------------------------------------------------------------------------
(* A request: generate of gemini_native.                                   *)

\* _get_active_key: a free key, or the one that will be free the soonest.
GetKey(k) == HandOut(k) \/ (Free = {} /\ IsSoonest(k) /\ UNCHANGED <<index, waiting>>)

Take(c) ==
  /\ phase[c] = "idle"
  /\ \E k \in Keys : GetKey(k) /\ active' = [active EXCEPT ![c] = k]
  /\ phase' = [phase EXCEPT ![c] = "sent"]
  /\ UNCHANGED <<cooldown, retry, rejected>>

Succeed(c) ==
  /\ phase[c] = "sent"
  /\ ReportSuccess(active[c])
  /\ rejected' = [rejected EXCEPT ![active[c]] = 0]
  /\ phase' = [phase EXCEPT ![c] = "idle"]
  /\ UNCHANGED <<index, active, retry, waiting>>

Limited(c) ==
  /\ phase[c] = "sent"
  /\ ReportRateLimit(active[c])
  /\ phase' = [phase EXCEPT ![c] = "limited"]
  /\ UNCHANGED <<index, active, retry>>

\* get_free_key(allow_cooldown=False): the request is sent again only with another key.
Rotate(c) ==
  /\ phase[c] = "limited"
  /\ \E k \in Keys :
       /\ HandOut(k)
       /\ IF k = active[c]
            THEN phase' = [phase EXCEPT ![c] = "idle"] /\ UNCHANGED retry
            ELSE phase' = [phase EXCEPT ![c] = "resent"] /\ retry' = [retry EXCEPT ![c] = k]
  /\ UNCHANGED <<cooldown, active, rejected>>

GiveUp(c) ==
  /\ phase[c] = "limited" /\ Free = {}
  /\ phase' = [phase EXCEPT ![c] = "idle"]
  /\ UNCHANGED <<pool, active, retry, rejected, waiting>>

RetrySucceeds(c) ==
  /\ phase[c] = "resent"
  /\ ReportSuccess(retry[c])
  /\ rejected' = [rejected EXCEPT ![retry[c]] = 0]
  /\ phase' = [phase EXCEPT ![c] = "pardoning"]
  /\ UNCHANGED <<index, active, retry, waiting>>

\* "Signaler le succès au pool": reported for active_key, whichever key succeeded.
Pardon(c) ==
  /\ phase[c] = "pardoning"
  /\ ReportSuccess(active[c])
  /\ phase' = [phase EXCEPT ![c] = "idle"]
  /\ UNCHANGED <<index, active, retry, rejected, waiting>>

\* Any other answer, a second 429 included: the error goes up to the cascade.
Fail(c) ==
  /\ phase[c] \in {"sent", "resent"}
  /\ phase' = [phase EXCEPT ![c] = "idle"]
  /\ UNCHANGED <<pool, active, retry, rejected, waiting>>

\* generate_structured and the speech synthesis take a key and report nothing of it.
TakeUnreported(c) ==
  /\ phase[c] = "idle"
  /\ \E k \in Keys : GetKey(k)
  /\ UNCHANGED <<cooldown, phase, active, retry, rejected>>

\* A 404 of the explicit cache: the request is sent once more, with a key whose answer
\* is not reported.
CacheExpired(c) ==
  /\ phase[c] \in {"sent", "resent"}
  /\ \E k \in Keys : GetKey(k)
  /\ phase' = [phase EXCEPT ![c] = "idle"]
  /\ UNCHANGED <<cooldown, active, retry, rejected>>

Cool ==
  /\ \E k \in Keys : cooldown[k] + rejected[k] > 0
  /\ LET Less(f) == [k \in Keys |-> IF f[k] > 0 THEN f[k] - 1 ELSE 0] IN
       cooldown' = Less(cooldown) /\ rejected' = Less(rejected)
  /\ UNCHANGED <<index, phase, active, retry, waiting>>

PoolNext ==
  \/ Cool
  \/ \E c \in Callers :
       \/ Take(c) \/ Succeed(c) \/ Limited(c) \/ Rotate(c) \/ GiveUp(c)
       \/ RetrySucceeds(c) \/ Pardon(c) \/ Fail(c)
       \/ TakeUnreported(c) \/ CacheExpired(c)

PoolSpec == PoolInit /\ [][PoolNext]_poolVars

-----------------------------------------------------------------------------
(* Properties.                                                             *)

\* The rotation is even: the key about to be handed out does not come before a key that
\* was free ever since it was last handed out, whatever the cooldowns in between.
EvenRotation == \A k \in Keys : IsNext(k) => waiting[k] = {}

\* The rotation stays even and the index and the cooldowns in their range.
RotationSound == PoolTypeOK /\ EvenRotation

\* A key that received a 429 rests for its cooldown, unless a request with that key
\* succeeds in the meantime ("Cooldown automatique sur les clés rate-limitées").
LimitedKeyRests == \A k \in Keys : rejected[k] > 0 => cooldown[k] > 0
=============================================================================
