--------------------------- MODULE ProviderProofs --------------------------
(***************************************************************************)
(* Theorems about what all the calls to the models share: the circuit      *)
(* breakers of a cascade (Cascade), for every cascade, every number of     *)
(* calls in flight and every threshold and timeout, and the pool of free   *)
(* keys (KeyPool), for every number of keys and threads.  The two have no  *)
(* variable in common.                                                     *)
(***************************************************************************)
EXTENDS Cascade, KeyPool, Integers, TLAPS

LEMMA ModelType == ASSUME NEW c \in Calls, slot[c] \in Slots PROVE Model(c) \in Providers
  BY DEF Model, Providers

LEMMA SmallerType ==
  ASSUME NEW i \in Nat, NEW j \in Nat
  PROVE  Smaller(i, j) \in 0 .. i /\ Smaller(i, j) \in 0 .. j
  BY DEF Smaller

\* The timeout of a circuit is never longer than the maximum.
LEMMA TimeoutType ==
  ASSUME NEW n \in 1 .. MaxTrips
  PROVE  RecoveryTimeout(n) \in 0 .. MaxTimeout
<1>1. Base * 2 ^ (n - 1) \in Nat /\ Base \in 0 .. MaxTimeout /\ MaxTimeout \in Nat
  BY CascadeConstants
<1>2. Smaller(Base * 2 ^ (n - 1), MaxTimeout) \in 0 .. MaxTimeout
  BY <1>1 DEF Smaller
<1>3. QED
  BY <1>1, <1>2 DEF RecoveryTimeout

BreakersOK ==
  /\ circuit \in [Providers -> {"CLOSED", "OPEN", "HALF_OPEN"}]
  /\ failures \in [Providers -> 0 .. Threshold]
  /\ trips \in [Providers -> 0 .. MaxTrips]
  /\ wait \in [Providers -> 0 .. MaxTimeout]

LEMMA TripType ==
  ASSUME BreakersOK, NEW m \in Providers, Trip(m)
  PROVE  /\ circuit' \in [Providers -> {"CLOSED", "OPEN", "HALF_OPEN"}]
         /\ trips' \in [Providers -> 0 .. MaxTrips]
         /\ wait' \in [Providers -> 0 .. MaxTimeout]
         /\ circuit'[m] = "OPEN" /\ trips'[m] > 0
         /\ \A p \in Providers \ {m} :
              circuit'[p] = circuit[p] /\ trips'[p] = trips[p] /\ wait'[p] = wait[p]
<1> DEFINE n == Smaller(trips[m] + 1, MaxTrips)
<1>1. n \in 1 .. MaxTrips
  BY CascadeConstants DEF BreakersOK, Smaller
<1>2. RecoveryTimeout(n) \in 0 .. MaxTimeout
  BY <1>1, TimeoutType
<1>3. /\ circuit' = [circuit EXCEPT ![m] = "OPEN"]
      /\ trips' = [trips EXCEPT ![m] = n]
      /\ wait' = [wait EXCEPT ![m] = RecoveryTimeout(n)]
  BY DEF Trip
<1> HIDE DEF n
<1>4. QED
  BY <1>1, <1>2, <1>3 DEF BreakersOK

\* The conjunction that is inductive: the type of the breakers and what a CLOSED
\* circuit and a circuit that is not CLOSED remember.
BreakersInv == BreakersOK /\ ClosedIsHealthy /\ NotClosedHasTripped

LEMMA SuccessStep ==
  ASSUME BreakersInv, NEW m \in Providers, RecordSuccess(m)
  PROVE  BreakersInv'
<1> USE CascadeConstants DEF BreakersInv, BreakersOK, ClosedIsHealthy, NotClosedHasTripped
<1>1. CASE circuit[m] = "HALF_OPEN"
  <2>1. /\ circuit' = [circuit EXCEPT ![m] = "CLOSED"] /\ trips' = [trips EXCEPT ![m] = 0]
        /\ wait' = [wait EXCEPT ![m] = 0] /\ failures' = [failures EXCEPT ![m] = 0]
    BY <1>1 DEF RecordSuccess
  <2>2. 0 < Threshold /\ 0 \in 0 .. Threshold /\ 0 \in 0 .. MaxTrips /\ 0 \in 0 .. MaxTimeout
    OBVIOUS
  <2>3. BreakersOK'
    BY <2>1, <2>2
  <2>4. QED
    BY <2>1, <2>2, <2>3
<1>2. CASE circuit[m] = "OPEN"
  BY <1>2 DEF RecordSuccess
<1>3. CASE circuit[m] = "CLOSED"
  BY <1>3 DEF RecordSuccess
<1>4. QED
  BY <1>1, <1>2, <1>3

LEMMA FailureStep ==
  ASSUME BreakersInv, NEW m \in Providers, RecordFailure(m)
  PROVE  BreakersInv'
<1> DEFINE n == Smaller(failures[m] + 1, Threshold)
<1>1. n \in 0 .. Threshold /\ (n # Threshold => n < Threshold)
  BY CascadeConstants DEF BreakersInv, BreakersOK, Smaller
<1>2. failures' = [failures EXCEPT ![m] = n]
  BY DEF RecordFailure
<1>3. CASE circuit[m] = "HALF_OPEN" \/ (circuit[m] = "CLOSED" /\ n = Threshold)
  <2>1. Trip(m)
    BY <1>3 DEF RecordFailure
  <2> HIDE DEF n
  <2>2. QED
    BY <1>1, <1>2, <2>1, TripType
       DEF BreakersInv, BreakersOK, ClosedIsHealthy, NotClosedHasTripped
<1>4. CASE ~(circuit[m] = "HALF_OPEN" \/ (circuit[m] = "CLOSED" /\ n = Threshold))
  <2>1. UNCHANGED <<circuit, trips, wait>>
    BY <1>4 DEF RecordFailure
  <2> HIDE DEF n
  <2>2. QED
    BY <1>1, <1>2, <1>4, <2>1 DEF BreakersInv, BreakersOK, ClosedIsHealthy, NotClosedHasTripped
<1>5. QED
  BY <1>3, <1>4

LEMMA RateLimitStep ==
  ASSUME BreakersInv, NEW m \in Providers, RecordRateLimit(m)
  PROVE  BreakersInv'
<1>1. failures' = [failures EXCEPT ![m] = Threshold] /\ Trip(m)
  BY DEF RecordRateLimit
<1>2. Threshold \in 0 .. Threshold
  BY CascadeConstants
<1>3. QED
  BY <1>1, <1>2, TripType DEF BreakersInv, BreakersOK, ClosedIsHealthy, NotClosedHasTripped

CallsOK ==
  /\ up \in [Providers -> BOOLEAN]
  /\ pc \in [Calls -> {"idle", "choosing", "calling", "answered", "raised"}]
  /\ slot \in [Calls -> 1 .. Len(Models) + 1]
  /\ attempts \in [Calls -> 0 .. 2]
  /\ answers \in [Calls -> BOOLEAN]
  /\ thrown \in [Calls -> Nat]
  /\ \A c \in Calls : pc[c] = "calling" => slot[c] \in Slots

LEMMA LeaveType ==
  ASSUME CallsOK, NEW c \in Calls,
         NEW where \in {"idle", "choosing", "answered", "raised"}, NEW next \in 1 .. Len(Models) + 1,
         Leave(c, where, next), thrown' \in [Calls -> Nat], up' = up
  PROVE  CallsOK'
<1>1. pc' \in [Calls -> {"idle", "choosing", "calling", "answered", "raised"}]
  BY DEF CallsOK, Leave
<1>2. slot' \in [Calls -> 1 .. Len(Models) + 1] /\ attempts' \in [Calls -> 0 .. 2]
  BY DEF CallsOK, Leave
<1>3. answers' \in [Calls -> BOOLEAN]
  BY DEF CallsOK, Leave
<1>4. \A k \in Calls : pc'[k] = "calling" => slot'[k] \in Slots
  BY DEF CallsOK, Leave
<1>5. QED
  BY <1>1, <1>2, <1>3, <1>4 DEF CallsOK

Inv == BreakersInv /\ CallsOK

LEMMA CallStep ==
  ASSUME Inv, NEW c \in Calls, Begin(c) \/ Step(c) \/ Cancel(c)
  PROVE  Inv'
<1> USE DEF Inv
<1>1. Len(Models) \in Nat \ {0}
  BY CascadeConstants
<1>2. pc[c] = "calling" => slot[c] \in Slots /\ Model(c) \in Providers /\ slot[c] + 1 \in 1 .. Len(Models) + 1
  BY <1>1, ModelType DEF CallsOK, Slots
<1>3. CASE Begin(c)
  BY <1>3 DEF Begin, CallsOK, BreakersInv, BreakersOK, ClosedIsHealthy, NotClosedHasTripped, breakers
<1>4. CASE Skip(c)
  <2>1. slot[c] + 1 \in 1 .. Len(Models) + 1
    BY <1>1, <1>4 DEF Skip, Slots
  <2>2. CallsOK'
    BY <1>4, <2>1 DEF Skip, CallsOK
  <2>3. BreakersInv'
    BY <1>4 DEF Skip, BreakersInv, BreakersOK, ClosedIsHealthy, NotClosedHasTripped, breakers
  <2>4. QED
    BY <2>2, <2>3
<1>5. CASE Send(c)
  <2>1. Model(c) \in Providers /\ up[Model(c)] \in BOOLEAN
    BY <1>5, ModelType DEF Send, CallsOK
  <2>2. CallsOK'
    BY <1>5, <2>1 DEF Send, CallsOK
  <2>3. BreakersInv'
    BY <1>5, <2>1 DEF Send, Seen, BreakersInv, BreakersOK, ClosedIsHealthy, NotClosedHasTripped
  <2>4. QED
    BY <2>2, <2>3
<1>6. CASE NoneLeft(c) \/ Cancel(c)
  <2>1. CallsOK'
    BY <1>1, <1>6, LeaveType DEF NoneLeft, Cancel, CallsOK
  <2>2. BreakersInv'
    BY <1>6 DEF NoneLeft, Cancel, BreakersInv, BreakersOK, ClosedIsHealthy, NotClosedHasTripped, breakers
  <2>3. QED
    BY <2>1, <2>2
<1>7. CASE Answered(c)
  <2>0. Leave(c, "answered", 1) /\ up' = up /\ thrown' \in [Calls -> Nat] /\ 1 \in 1 .. Len(Models) + 1
    BY <1>1, <1>7 DEF Answered, CallsOK
  <2>1. CallsOK'
    BY <2>0, LeaveType
  <2>2. QED
    BY <1>2, <1>7, <2>1, SuccessStep DEF Answered
<1>8. CASE Escalated(c)
  <2>1. thrown' \in [Calls -> Nat]
    BY <1>8 DEF Escalated, CallsOK
  <2>2. CallsOK'
    BY <1>2, <1>8, <2>1, LeaveType DEF Escalated
  <2>3. QED
    BY <1>2, <1>8, <2>2, SuccessStep DEF Escalated
<1>9. CASE RateLimited(c)
  <2>1. up[Model(c)] \in BOOLEAN
    BY <1>2, <1>9 DEF RateLimited, CallsOK
  <2>2. CallsOK'
    BY <1>9, <2>1 DEF RateLimited, CallsOK
  <2>3. QED
    BY <1>2, <1>9, <2>2, RateLimitStep DEF RateLimited
<1>10. CASE Failed(c)
  <2>1. CallsOK'
    BY <1>2, <1>10, LeaveType DEF Failed, CallsOK
  <2>2. QED
    BY <1>2, <1>10, <2>1, FailureStep DEF Failed
<1>11. CASE StreamBroken(c)
  <2>0. Leave(c, "raised", 1) /\ up' = up /\ thrown' \in [Calls -> Nat] /\ 1 \in 1 .. Len(Models) + 1
    BY <1>1, <1>11 DEF StreamBroken, CallsOK
  <2>1. CallsOK'
    BY <2>0, LeaveType
  <2>2. QED
    BY <1>2, <1>11, <2>1, FailureStep DEF StreamBroken
<1>12. QED
  BY <1>3, <1>4, <1>5, <1>6, <1>7, <1>8, <1>9, <1>10, <1>11 DEF Step

\* The type of every variable, and what the breakers remember, hold together.
THEOREM BreakersHold == Spec => []Inv
<1>1. Init => Inv
  <2> SUFFICES ASSUME Init PROVE Inv
    OBVIOUS
  <2>1. BreakersInv
    BY CascadeConstants DEF Init, BreakersInv, BreakersOK, ClosedIsHealthy, NotClosedHasTripped
  <2>2. CallsOK
    BY CascadeConstants DEF Init, CallsOK
  <2>3. QED
    BY <2>1, <2>2 DEF Inv
<1>2. Inv /\ [Next]_vars => Inv'
  <2> SUFFICES ASSUME Inv, [Next]_vars PROVE Inv'
    OBVIOUS
  <2>1. CASE Tick
    <3>1. wait' \in [Providers -> 0 .. MaxTimeout]
      BY <2>1, CascadeConstants DEF Tick, Inv, BreakersInv, BreakersOK
    <3>2. BreakersInv'
      BY <2>1, <3>1
         DEF Tick, Inv, BreakersInv, BreakersOK, ClosedIsHealthy, NotClosedHasTripped
    <3>3. CallsOK'
      BY <2>1 DEF Tick, Inv, CallsOK, calls
    <3>4. QED
      BY <3>2, <3>3 DEF Inv
  <2>2. ASSUME NEW m \in Providers, ProviderChanges(m) PROVE Inv'
    <3>1. CallsOK'
      BY <2>2 DEF ProviderChanges, Inv, CallsOK, calls
    <3>2. BreakersInv'
      BY <2>2 DEF ProviderChanges, Inv, BreakersInv, BreakersOK, ClosedIsHealthy,
                  NotClosedHasTripped, breakers
    <3>3. QED
      BY <3>1, <3>2 DEF Inv
  <2>3. ASSUME NEW c \in Calls, Begin(c) \/ Step(c) \/ Cancel(c) PROVE Inv'
    BY <2>3, CallStep
  <2>4. CASE UNCHANGED vars
    BY <2>4 DEF vars, breakers, calls, Inv, BreakersInv, BreakersOK, ClosedIsHealthy,
                NotClosedHasTripped, CallsOK
  <2>5. QED
    BY <2>1, <2>2, <2>3, <2>4 DEF Next
<1>3. QED
  BY <1>1, <1>2, PTL DEF Spec

\* Every variable keeps its type.
THEOREM TypeCorrect == Spec => []TypeOK
<1>1. Inv => TypeOK
  BY DEF Inv, BreakersInv, BreakersOK, CallsOK, TypeOK
<1>2. QED
  BY <1>1, BreakersHold, PTL

\* Whatever the calls in flight report, in whatever order, a CLOSED circuit is below
\* its threshold and opens for the base timeout.
THEOREM ClosedCircuitsHealthy == Spec => []ClosedIsHealthy
<1>1. Inv => ClosedIsHealthy
  BY DEF Inv, BreakersInv
<1>2. QED
  BY <1>1, BreakersHold, PTL

\* A circuit that is not CLOSED has a trip on its count.
THEOREM OpenCircuitsTripped == Spec => []NotClosedHasTripped
<1>1. Inv => NotClosedHasTripped
  BY DEF Inv, BreakersInv
<1>2. QED
  BY <1>1, BreakersHold, PTL

\* What the breakers remember fits the state they are in.
THEOREM BreakersAlwaysSound == Spec => []BreakersSound
<1>1. TypeOK /\ ClosedIsHealthy /\ NotClosedHasTripped => BreakersSound
  BY DEF BreakersSound
<1>2. QED
  BY <1>1, TypeCorrect, ClosedCircuitsHealthy, OpenCircuitsTripped, PTL

-----------------------------------------------------------------------------
(* The pool of keys.  That the key about to be handed out is not ahead of  *)
(* its turn says nothing of the next one: what is kept is the place in the *)
(* scan of every key that was free all along, before the key it waits      *)
(* behind.  The lemmas on % reduce the scan to a comparison of distances.  *)

\* The scan passes the end of the ring at most once.
LEMMA ModBelow == ASSUME NEW n \in Nat \ {0}, NEW x \in 0 .. n - 1 PROVE x % n = x
  OBVIOUS

LEMMA ModAbove == ASSUME NEW n \in Nat \ {0}, NEW x \in Nat, n <= x, x < n + n PROVE x % n = x - n
  OBVIOUS

\* How far k is from i in a circle of N keys.
From(i, k) == IF i <= k THEN k - i ELSE k + N - i

LEMMA Around == ASSUME NEW i \in Keys, NEW k \in Keys PROVE (k + N - i) % N = From(i, k)
<1> N \in Nat \ {0} /\ Keys = 0 .. N - 1
  BY KeyPoolConstants DEF Keys
<1>1. CASE i <= k
  <2>1. k + N - i \in Nat /\ N <= k + N - i /\ k + N - i < N + N
    BY <1>1
  <2>2. (k + N - i) % N = (k + N - i) - N
    BY <2>1, ModAbove, Zenon
  <2>3. QED
    BY <1>1, <2>2 DEF From
<1>2. CASE k < i
  <2>1. k + N - i \in 0 .. N - 1
    BY <1>2
  <2>2. (k + N - i) % N = k + N - i
    BY <2>1, ModBelow, Zenon
  <2>3. QED
    BY <1>2, <2>2 DEF From
<1>3. QED
  BY <1>1, <1>2

LEMMA AdvanceIs == ASSUME NEW k \in Keys PROVE Advance(k) = IF k = N - 1 THEN 0 ELSE k + 1
<1> N \in Nat \ {0} /\ Keys = 0 .. N - 1
  BY KeyPoolConstants DEF Keys
<1>1. CASE k = N - 1
  <2>1. k + 1 \in Nat /\ N <= k + 1 /\ k + 1 < N + N
    BY <1>1
  <2>2. Advance(k) = (k + 1) - N
    BY <2>1, ModAbove, Zenon DEF Advance
  <2>3. QED
    BY <1>1, <2>2
<1>2. CASE k # N - 1
  <2>1. k + 1 \in 0 .. N - 1
    BY <1>2
  <2>2. Advance(k) = k + 1
    BY <2>1, ModBelow, Zenon DEF Advance
  <2>3. QED
    BY <1>2, <2>2
<1>3. QED
  BY <1>1, <1>2

\* When m, the first free key, is handed out, the keys behind it in the scan come nearer and
\* keep their order, and m is the last.
LEMMA OrderKept ==
  ASSUME NEW i \in Keys, NEW m \in Keys, NEW j \in Keys, j # m
  PROVE  /\ From(Advance(m), j) < From(Advance(m), m)
         /\ \A k \in Keys :
              k # m /\ From(i, m) <= From(i, j) /\ From(i, j) < From(i, k)
                => From(Advance(m), j) < From(Advance(m), k)
<1> N \in Nat \ {0} /\ Keys = 0 .. N - 1
  BY KeyPoolConstants DEF Keys
<1>1. CASE m = N - 1
  BY <1>1, AdvanceIs DEF From
<1>2. CASE m # N - 1
  BY <1>2, AdvanceIs DEF From
<1>3. QED
  BY <1>1, <1>2

LEMMA AdvanceType == \A k \in Keys : Advance(k) \in Keys
  BY KeyPoolConstants, AdvanceIs DEF Keys

\* A key that was free ever since another was handed out is free and comes before it.
InTurn == \A k \in Keys : \A j \in waiting[k] : j \in Free /\ j # k /\ Distance(j) < Distance(k)

InTurnOK == PoolTypeOK /\ InTurn

LEMMA DistanceIs ==
  /\ index \in Keys => \A k \in Keys : Distance(k) = From(index, k)
  /\ index' \in Keys => \A k \in Keys : Distance(k)' = From(index', k)
  BY Around DEF Distance

LEMMA FromType == \A i, k \in Keys : From(i, k) \in Keys
  BY KeyPoolConstants DEF Keys, From

\* Handing out a key keeps the order, when it leaves the cooldowns alone.
LEMMA HandOutStep ==
  ASSUME InTurnOK, UNCHANGED cooldown, NEW m \in Keys, HandOut(m)
  PROVE  index' \in Keys /\ waiting' \in [Keys -> SUBSET Keys] /\ InTurn'
<1>1. index' \in Keys /\ index' = Advance(m)
  BY AdvanceType DEF HandOut
<1>2. waiting' \in [Keys -> SUBSET Keys]
  BY DEF HandOut, InTurnOK, PoolTypeOK, Free
<1>3. ASSUME NEW k \in Keys, NEW j \in waiting'[k]
      PROVE  j \in Free' /\ j # k /\ Distance(j)' < Distance(k)'
  <2>1. j \in Keys /\ Free' = Free
    BY <1>2, <1>3 DEF Free
  <2>2. CASE k = m
    <3>1. j \in Free /\ j # m
      BY <1>3, <2>2 DEF HandOut, InTurnOK, PoolTypeOK
    <3>2. From(index', j) < From(index', m)
      BY <1>1, <2>1, <3>1, OrderKept DEF InTurnOK, PoolTypeOK
    <3>3. QED
      BY <1>1, <2>1, <2>2, <3>1, <3>2, DistanceIs
  <2>3. CASE k # m
    <3>1. j \in waiting[k] /\ j # m
      BY <1>3, <2>3 DEF HandOut, InTurnOK, PoolTypeOK
    <3>2. j \in Free /\ j # k /\ Distance(j) < Distance(k) /\ Distance(m) <= Distance(j)
      BY <3>1 DEF InTurnOK, InTurn, HandOut, IsNext
    <3>3. From(index, m) <= From(index, j) /\ From(index, j) < From(index, k)
      BY <2>1, <3>2, DistanceIs DEF InTurnOK, PoolTypeOK
    <3>4. From(index', j) < From(index', k)
      BY <1>1, <2>1, <2>3, <3>1, <3>3, OrderKept DEF InTurnOK, PoolTypeOK
    <3>5. QED
      BY <1>1, <2>1, <3>2, <3>4, DistanceIs
  <2>4. QED
    BY <2>2, <2>3
<1>4. QED
  BY <1>1, <1>2, <1>3 DEF InTurn

\* A key that becomes free disturbs nobody.
LEMMA FreeingStep ==
  ASSUME InTurnOK, UNCHANGED <<index, waiting>>, Free \subseteq Free'
  PROVE  InTurn'
  BY DEF InTurnOK, InTurn, Distance

LEMMA LimitedStep ==
  ASSUME InTurnOK, UNCHANGED index, NEW k \in Keys, ReportRateLimit(k)
  PROVE  InTurn'
  BY DEF InTurnOK, InTurn, PoolTypeOK, ReportRateLimit, Free, Distance

LEMMA NextInTurn == InTurnOK /\ [PoolNext]_poolVars => InTurnOK'
<1> SUFFICES ASSUME InTurnOK, [PoolNext]_poolVars PROVE InTurnOK'
  OBVIOUS
<1> USE DEF InTurnOK, PoolTypeOK
<1>1. CASE Cool
  <2> DEFINE less(f) == [k \in Keys |-> IF f[k] > 0 THEN f[k] - 1 ELSE 0]
  <2>1. /\ cooldown' = less(cooldown) /\ rejected' = less(rejected)
        /\ UNCHANGED <<index, phase, active, retry, waiting>>
    BY <1>1 DEF Cool
  <2>2. \A n \in 0 .. Cooldown : n > 0 => n - 1 \in 0 .. Cooldown
    BY KeyPoolConstants
  <2>3. PoolTypeOK'
    BY <2>1, <2>2, KeyPoolConstants
  <2>4. Free \subseteq Free'
    BY <2>1 DEF Free
  <2>5. QED
    BY <2>1, <2>3, <2>4, FreeingStep
<1>2. CASE UNCHANGED poolVars
  BY <1>2, FreeingStep DEF poolVars, pool, Free
<1>3. ASSUME NEW c \in Callers, Take(c) \/ TakeUnreported(c) \/ CacheExpired(c) PROVE InTurnOK'
  <2>1. PICK k \in Keys :
          /\ GetKey(k) /\ active' \in [Callers -> Keys]
          /\ phase' \in [Callers -> {"idle", "sent", "limited", "resent", "pardoning"}]
    BY <1>3 DEF Take, TakeUnreported, CacheExpired
  <2>2. UNCHANGED <<cooldown, retry, rejected>>
    BY <1>3 DEF Take, TakeUnreported, CacheExpired
  <2>3. index' \in Keys /\ waiting' \in [Keys -> SUBSET Keys] /\ InTurn'
    BY <2>1, <2>2, HandOutStep, FreeingStep DEF GetKey, Free
  <2>4. QED
    BY <2>1, <2>2, <2>3
<1>4. ASSUME NEW c \in Callers, Rotate(c) PROVE InTurnOK'
  <2>1. PICK k \in Keys : HandOut(k)
    BY <1>4 DEF Rotate
  <2>2. index' \in Keys /\ waiting' \in [Keys -> SUBSET Keys] /\ InTurn'
    BY <1>4, <2>1, HandOutStep DEF Rotate
  <2>3. QED
    BY <1>4, <2>2 DEF Rotate
<1>5. ASSUME NEW c \in Callers, Succeed(c) \/ RetrySucceeds(c) \/ Pardon(c) PROVE InTurnOK'
  <2>1. PoolTypeOK'
    BY <1>5, KeyPoolConstants DEF Succeed, RetrySucceeds, Pardon, ReportSuccess
  <2>2. Free \subseteq Free' /\ UNCHANGED <<index, waiting>>
    BY <1>5 DEF Succeed, RetrySucceeds, Pardon, ReportSuccess, Free
  <2>3. QED
    BY <2>1, <2>2, FreeingStep
<1>6. ASSUME NEW c \in Callers, Limited(c) PROVE InTurnOK'
  <2>1. PoolTypeOK'
    BY <1>6, KeyPoolConstants DEF Limited, ReportRateLimit
  <2>2. QED
    BY <1>6, <2>1, LimitedStep DEF Limited
<1>7. ASSUME NEW c \in Callers, GiveUp(c) \/ Fail(c) PROVE InTurnOK'
  BY <1>7, FreeingStep DEF GiveUp, Fail, pool, Free
<1>8. QED
  BY <1>1, <1>2, <1>3, <1>4, <1>5, <1>6, <1>7 DEF PoolNext

\* For any number of keys and threads and any cooldown: no key is handed out again before a
\* key that was free all along, whatever cooldowns end in between, in whatever order the
\* answers come and whichever key they are reported for.
THEOREM RotationAlwaysSound == PoolSpec => []RotationSound
<1>1. PoolInit => InTurnOK
  BY KeyPoolConstants DEF PoolInit, InTurnOK, PoolTypeOK, InTurn, Keys
<1>2. InTurnOK => RotationSound
  <2> SUFFICES ASSUME InTurnOK, NEW k \in Keys, IsNext(k), NEW j \in waiting[k] PROVE FALSE
    BY DEF RotationSound, EvenRotation, InTurnOK
  <2>1. j \in Keys /\ Distance(j) < Distance(k) /\ Distance(k) <= Distance(j)
    BY DEF InTurnOK, InTurn, PoolTypeOK, IsNext
  <2>2. Distance(j) \in Int /\ Distance(k) \in Int
    BY <2>1, DistanceIs, FromType DEF InTurnOK, PoolTypeOK, Keys
  <2>3. QED
    BY <2>1, <2>2
<1>3. QED
  BY <1>1, <1>2, NextInTurn, PTL DEF PoolSpec
=============================================================================
