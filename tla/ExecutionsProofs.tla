--------------------------- MODULE ExecutionsProofs -------------------------
(***************************************************************************)
(* What the registry of the server guarantees to any number of requests,   *)
(* of sessions and of stops.  The argument: an entry of the registry       *)
(* belongs to a request of its session that has not given it back (Owned), *)
(* and a request that nobody has robbed of its entry still has it (Held);  *)
(* hence two of them are never of one session, and there are no more of    *)
(* them than entries, which begin_execution counts (Capped).  The view of  *)
(* the dreamer follows, as the entries and the discussions that are        *)
(* counted (Exact) are what it is computed from.                           *)
(***************************************************************************)
EXTENDS Executions, FiniteSetTheorems, TLAPS

\* The places that are given back by nobody but their request.
Engaged == {"queued", "working", "concluding", "closing"}
Placed == Engaged \union {"unstarted"}

\* An entry of the registry is that of a request of its session, which has not given it
\* back.
Owned ==
  \A k \in Keys : LET r == app.registry[k].by IN
    r # NoRequest => key[r] = k /\ pc[r] \in Placed

\* A request keeps its place until it gives it back, or loses it to another.
Held ==
  \A r \in Requests \ loose :
    pc[r] \in Engaged => app.registry[key[r]].by = r

\* Who is where.
Kinded ==
  \A r \in Requests :
    /\ pc[r] \in {"apart", "routing"} => kind[r] = "chat"
    /\ kind[r] = "chat" => pc[r] \in {"new", "apart", "routing", "working", "concluding", "over"}
    /\ kind[r] = "voice" => pc[r] # "concluding"
    /\ pc[r] \in {"orphan", "dropped"} => r \in loose

\* active_requests counts the discussions that are answered.
Counted == {r \in Requests : kind[r] = "chat" /\ pc[r] \in {"routing", "working", "concluding"}}
Exact == app.active = Cardinality(Counted)

Capped == IsFiniteSet(Registered(app)) /\ Cardinality(Registered(app)) <= MaxConcurrency

\* A failure is remembered until the server is idle.
Remembers == failed /\ ~Idle(app) => app.memory = "error"

Inv ==
  /\ TypeOK /\ Undisturbed /\ Owned /\ Held /\ Kinded /\ Exact /\ Capped
  /\ DreamerQuiet /\ Remembers /\ AbortIsForTheSpeakers

-----------------------------------------------------------------------------
(* The methods of AppState.                                                *)

Marks == {"idle", "running"} \union Outcomes
App == [registry : [Keys -> Entries], active : Nat, view : Marks, memory : {"idle", "error"}]

LEMMA FreeIs == Free \in Entries /\ Free.by = NoRequest
BY DEF Free, Entries

LEMMA RefreshedIs ==
  ASSUME NEW a \in App, NEW status \in Marks
  PROVE  /\ Refreshed(a, status) \in App
         /\ Refreshed(a, status).registry = a.registry
         /\ Refreshed(a, status).active = a.active
         /\ Idle(Refreshed(a, status)) <=> Idle(a)
         /\ Idle(a) => /\ Refreshed(a, status).memory = "idle"
                       /\ Refreshed(a, status).view = IF a.memory = "error" THEN "error" ELSE status
         /\ ~Idle(a) => /\ Refreshed(a, status).view = "running"
                        /\ Refreshed(a, status).memory = IF status = "error" THEN "error" ELSE a.memory
<1>1. CASE Idle(a)
  BY <1>1 DEF App, Refreshed, Marks, Outcomes, Idle, Registered
<1>2. CASE ~Idle(a)
  BY <1>2 DEF App, Refreshed, Remembered, Marks, Outcomes, Idle, Registered
<1>3. QED
  BY <1>1, <1>2

LEMMA PurgedIs ==
  ASSUME NEW a \in App, NEW stale \in SUBSET Keys
  PROVE  /\ Purged(a, stale) \in App
         /\ Purged(a, stale).registry = [k \in Keys |-> IF k \in stale THEN Free ELSE a.registry[k]]
         /\ Purged(a, stale).active = a.active
         /\ ~Idle(Purged(a, stale)) => /\ Purged(a, stale).memory = a.memory
                                       /\ Purged(a, stale).view \in {"running", a.view}
<1> DEFINE b == [a EXCEPT !.registry = [k \in Keys |-> IF k \in stale THEN Free ELSE @[k]]]
<1>1. /\ b \in App
      /\ b.registry = [k \in Keys |-> IF k \in stale THEN Free ELSE a.registry[k]]
      /\ b.active = a.active /\ b.memory = a.memory
  BY FreeIs DEF App
<1>2. CASE stale = {}
  BY <1>1, <1>2 DEF Purged, App
<1>3. CASE stale # {}
  <2>1. Purged(a, stale) = Refreshed(b, "idle")
    BY <1>3 DEF Purged
  <2> HIDE DEF b
  <2>2. QED
    BY <1>1, <2>1, RefreshedIs DEF Marks
<1>4. QED
  BY <1>2, <1>3

LEMMA BegunIs ==
  ASSUME NEW a \in App, NEW r \in Requests, key[r] \in Keys
  PROVE  /\ Begun(a, r) \in App
         /\ \A k \in Keys \ {key[r]} : Begun(a, r).registry[k] = a.registry[k]
         /\ Begun(a, r).registry[key[r]].by = r
         /\ Begun(a, r).active = a.active
         /\ Begun(a, r).view = "running" /\ Begun(a, r).memory = a.memory
<1>1. [Free EXCEPT !.by = r] \in Entries
  BY DEF Free, Entries
<1>2. QED
  BY <1>1 DEF Begun, App, Marks, Free

LEMMA RequestBegunIs ==
  ASSUME NEW a \in App
  PROVE  /\ RequestBegun(a) \in App
         /\ RequestBegun(a).registry = a.registry /\ RequestBegun(a).active = a.active + 1
         /\ RequestBegun(a).view = "running" /\ RequestBegun(a).memory = a.memory
<1>1. a.active \in Nat /\ a.active + 1 \in Nat
  BY DEF App
<1>2. QED
  BY <1>1 DEF RequestBegun, App, Marks

LEMMA RequestEndedIs ==
  ASSUME NEW a \in App
  PROVE  /\ RequestEnded(a) \in App
         /\ RequestEnded(a).registry = a.registry
         /\ a.active > 0 => RequestEnded(a).active = a.active - 1
         /\ Idle(RequestEnded(a)) =>
              RequestEnded(a).view = IF a.memory = "error" THEN "error" ELSE "idle"
         /\ ~Idle(RequestEnded(a)) => /\ RequestEnded(a).view = "running"
                                      /\ RequestEnded(a).memory = a.memory
<1> DEFINE b == [a EXCEPT !.active = IF @ > 0 THEN @ - 1 ELSE @]
<1>1. /\ b \in App /\ b.registry = a.registry /\ b.memory = a.memory
      /\ a.active > 0 => b.active = a.active - 1
  BY DEF App
<1>2. RequestEnded(a) = Refreshed(b, "idle")
  BY DEF RequestEnded
<1> HIDE DEF b
<1>3. QED
  BY <1>1, <1>2, RefreshedIs DEF Marks

LEMMA StatusSetIs ==
  ASSUME NEW a \in App, NEW k \in Keys, NEW status \in Outcomes
  PROVE  /\ StatusSet(a, k, status) \in App
         /\ \A l \in Keys : StatusSet(a, k, status).registry[l].by = a.registry[l].by
         /\ StatusSet(a, k, status).active = a.active
         /\ Idle(StatusSet(a, k, status)) <=> Idle(a)
         /\ ~Idle(a) => /\ StatusSet(a, k, status).view = "running"
                        /\ StatusSet(a, k, status).memory =
                             IF status = "error" THEN "error" ELSE a.memory
<1> DEFINE b == IF k \in Registered(a) THEN [a EXCEPT !.registry[k].status = status] ELSE a
<1>1. [a.registry[k] EXCEPT !.status = status] \in Entries
  BY DEF App, Entries
<1>2. /\ b \in App /\ b.active = a.active /\ b.memory = a.memory
      /\ \A l \in Keys : b.registry[l].by = a.registry[l].by
  BY <1>1 DEF App, Entries
<1>3. Registered(b) = Registered(a)
  BY <1>2 DEF Registered
<1>4. StatusSet(a, k, status) = Refreshed(b, status)
  BY DEF StatusSet
<1> HIDE DEF b
<1>5. Idle(b) <=> Idle(a)
  BY <1>2, <1>3 DEF Idle
<1>6. status \in Marks
  BY DEF Marks
<1>7. /\ Refreshed(b, status) \in App /\ Refreshed(b, status).registry = b.registry
      /\ Refreshed(b, status).active = b.active
      /\ Idle(Refreshed(b, status)) <=> Idle(b)
      /\ ~Idle(b) => /\ Refreshed(b, status).view = "running"
                     /\ Refreshed(b, status).memory = IF status = "error" THEN "error" ELSE b.memory
  BY <1>2, <1>6, RefreshedIs
<1>8. QED
  BY <1>2, <1>4, <1>5, <1>7

LEMMA EndedIs ==
  ASSUME NEW a \in App, NEW k \in Keys, NEW status \in Outcomes
  PROVE  /\ Ended(a, k, status) \in App
         /\ Ended(a, k, status).registry = [a.registry EXCEPT ![k] = Free]
         /\ Ended(a, k, status).active = a.active
         /\ Idle(Ended(a, k, status)) =>
              Ended(a, k, status).view = IF a.memory = "error" THEN "error" ELSE Verdict(a, k, status)
         /\ ~Idle(Ended(a, k, status)) =>
              /\ Ended(a, k, status).view = "running"
              /\ Ended(a, k, status).memory =
                   IF Verdict(a, k, status) = "error" THEN "error" ELSE a.memory
<1> DEFINE b == [a EXCEPT !.registry[k] = Free]
<1>1. b \in App /\ b.registry = [a.registry EXCEPT ![k] = Free] /\ b.active = a.active /\ b.memory = a.memory
  BY FreeIs DEF App
<1>2. Verdict(a, k, status) \in Marks
  BY DEF Verdict, App, Entries, Marks, Outcomes
<1>3. Ended(a, k, status) = Refreshed(b, Verdict(a, k, status))
  BY DEF Ended
<1> HIDE DEF b
<1>4. QED
  BY <1>1, <1>2, <1>3, RefreshedIs

LEMMA ClearedIs ==
  ASSUME NEW a \in App, NEW status \in Marks
  PROVE  /\ Cleared(a, status) \in App
         /\ Cleared(a, status).registry = [k \in Keys |-> Free]
         /\ Cleared(a, status).active = a.active
BY FreeIs DEF Cleared, App

-----------------------------------------------------------------------------
(* What the parts of the invariant rest on.                                *)

LEMMA Requesting == IsFiniteSet(Requests) /\ Cardinality(Requests) \in Nat
BY ExecutionsConstants, FS_CardinalityType

LEMMA AppTyped == TypeOK => app \in App
<1> SUFFICES ASSUME TypeOK PROVE app \in App
  OBVIOUS
<1>1. app.active \in Nat
  BY Requesting DEF TypeOK
<1>2. QED
  BY <1>1 DEF TypeOK, App, Marks

\* The count of the discussions bounds active_requests.
LEMMA ActiveBounded ==
  ASSUME NEW a \in App, NEW S \in SUBSET Requests, a.active = Cardinality(S)
  PROVE  a \in [registry : [Keys -> Entries], active : 0 .. Cardinality(Requests),
                view : {"idle", "running"} \union Outcomes, memory : {"idle", "error"}]
<1>1. a.active \in 0 .. Cardinality(Requests)
  BY Requesting, FS_Subset, FS_CardinalityType DEF App
<1>2. QED
  BY <1>1 DEF App, Marks

LEMMA CountedFinite == IsFiniteSet(Counted) /\ Cardinality(Counted) \in Nat
BY Requesting, FS_Subset, FS_CardinalityType DEF Counted

\* A registry that loses entries stays under the cap.
LEMMA CapShrinks ==
  ASSUME Capped, Registered(app') \subseteq Registered(app)
  PROVE  Capped'
<1>1. IsFiniteSet(Registered(app')) /\ Cardinality(Registered(app')) <= Cardinality(Registered(app))
  BY FS_Subset DEF Capped
<1>2. Cardinality(Registered(app')) \in Nat /\ Cardinality(Registered(app)) \in Nat
  BY <1>1, FS_CardinalityType DEF Capped
<1>3. Cardinality(Registered(app')) <= MaxConcurrency
  BY <1>1, <1>2, ExecutionsConstants DEF Capped
<1>4. QED
  BY <1>1, <1>3 DEF Capped, Registered

\* A request that is in flight and has not been robbed keeps the server from being idle.
LEMMA InUse ==
  TypeOK /\ Held /\ Kinded /\ Exact /\ InFlight \ loose # {} => ~Idle(app)
<1> SUFFICES ASSUME TypeOK, Held, Kinded, Exact, NEW r \in InFlight \ loose PROVE ~Idle(app)
  OBVIOUS
<1>1. CASE pc[r] = "routing"
  <2>1. r \in Counted
    BY <1>1 DEF Kinded, Counted, InFlight
  <2>2. Cardinality(Counted) # 0
    BY <2>1, CountedFinite, FS_EmptySet
  <2>3. QED
    BY <2>2 DEF Exact, Idle
<1>2. CASE pc[r] # "routing"
  <2>1. app.registry[key[r]].by = r /\ key[r] \in Keys
    BY <1>2 DEF Held, Engaged, InFlight, TypeOK
  <2>2. QED
    BY <2>1, ExecutionsConstants DEF InFlight, Idle, Registered
<1>3. QED
  BY <1>1, <1>2

LEMMA AbortKept ==
  ASSUME TypeOK, AbortIsForTheSpeakers, \A r \in Requests : Speaking(r)' => Speaking(r),
         UNCHANGED abortVars \/ \E r \in Requests : EndsSpeech(r)
  PROVE  AbortTypeOK' /\ AbortIsForTheSpeakers'
<1>1. CASE UNCHANGED abortVars
  BY <1>1 DEF TypeOK, AbortTypeOK, AbortIsForTheSpeakers, abortVars, IsAborted
<1>2. ASSUME NEW r \in Requests, EndsSpeech(r)
      PROVE  AbortTypeOK' /\ AbortIsForTheSpeakers'
  BY <1>2 DEF TypeOK, AbortTypeOK, Flags, AbortIsForTheSpeakers, EndsSpeech, Withdrawal, KeysOf,
              IsAborted
<1>3. QED
  BY <1>1, <1>2

LEMMA Initially == Init => Inv
<1> SUFFICES ASSUME Init PROVE Inv
  OBVIOUS
<1>1. Counted = {} /\ Registered(app) = {} /\ InFlight = {}
  BY FreeIs DEF Init, Counted, Registered, InFlight
<1>2. TypeOK
  <2>1. app \in [registry : [Keys -> Entries], active : 0 .. Cardinality(Requests),
                 view : {"idle", "running"} \union Outcomes, memory : {"idle", "error"}]
    BY FreeIs, Requesting DEF Init
  <2>2. stops \in 0 .. MaxStops /\ AbortTypeOK
    BY ExecutionsConstants DEF Init, AbortInit, AbortTypeOK, Flags
  <2>3. QED
    BY <2>1, <2>2 DEF Init, TypeOK
<1>3. Exact /\ Capped
  BY <1>1, FS_EmptySet, ExecutionsConstants DEF Init, Exact, Capped
<1>4. Owned /\ Held /\ Kinded /\ Undisturbed
  BY FreeIs DEF Init, Owned, Held, Engaged, Kinded, Undisturbed
<1>5. DreamerQuiet /\ Remembers
  <2>1. InFlight \ loose = {} /\ ~failed
    BY <1>1 DEF Init
  <2>2. QED
    BY <2>1 DEF DreamerQuiet, Remembers
<1>6. AbortIsForTheSpeakers
  <2>1. \A r \in Requests : ~Speaking(r)
    BY DEF Init, Speaking
  <2>2. QED
    BY <2>1 DEF AbortIsForTheSpeakers
<1>7. QED
  BY <1>2, <1>3, <1>4, <1>5, <1>6 DEF Inv

-----------------------------------------------------------------------------
(* The requests.                                                           *)

\* A request that comes to take its place, and takes it or is refused.
LEMMA EnterKeeps ==
  ASSUME Inv, NEW r \in Requests, NEW l \in {"working", "queued"}, Enter(r, l),
         (pc[r] = "new" /\ kind[r] # "chat") \/ (pc[r] = "routing" /\ l = "working"),
         kind[r] = "voice" => l = "queued",
         UNCHANGED <<key, kind, locked, stops, abortVars>>
  PROVE  Inv'
<1> USE DEF Inv
<1>1. PICK stale \in SUBSET Registered(app) :
        LET a == Purged(app, stale)
            robbed == {q \in InFlight : \E k \in stale : app.registry[k].by = q}
        IN  /\ IF Accepts(a, key[r])
                  THEN app' = Begun(a, r) /\ Goto(r, l)
                  ELSE /\ app' = IF pc[r] = "routing" THEN RequestEnded(a) ELSE a
                       /\ Goto(r, "over")
            /\ Ghost(a)
            /\ loose' = (loose \ {r}) \union robbed
            /\ disturbed' = (disturbed \/ robbed # {})
  BY DEF Enter
<1> DEFINE a == Purged(app, stale)
           robbed == {q \in InFlight : \E k \in stale : app.registry[k].by = q}
           Taken == Accepts(a, key[r]) /\ app' = Begun(a, r) /\ Goto(r, l)
           Refusal == /\ app' = IF pc[r] = "routing" THEN RequestEnded(a) ELSE a
                      /\ Goto(r, "over")
<1>2. app \in App /\ key[r] \in Keys /\ stale \in SUBSET Keys
  BY AppTyped DEF TypeOK, Registered
<1>3. /\ a \in App /\ a.active = app.active
      /\ a.registry = [k \in Keys |-> IF k \in stale THEN Free ELSE app.registry[k]]
      /\ ~Idle(a) => a.memory = app.memory /\ a.view \in {"running", app.view}
  BY <1>2, PurgedIs
<1>9. /\ Taken \/ Refusal
      /\ Ghost(a) /\ loose' = (loose \ {r}) \union robbed /\ disturbed' = (disturbed \/ robbed # {})
  BY <1>1
<1>10. disturbed' \in BOOLEAN /\ loose' \subseteq Requests /\ Undisturbed'
  BY <1>9 DEF TypeOK, InFlight, Undisturbed
<1>4. /\ \A k \in Keys : a.registry[k].by # NoRequest => a.registry[k] = app.registry[k]
      /\ \A k \in Keys : app.registry[k].by \in InFlight \ robbed => a.registry[k] = app.registry[k]
  BY <1>3, FreeIs, ExecutionsConstants
<1>5. Registered(a) \subseteq Registered(app)
  BY <1>4 DEF Registered
<1> HIDE DEF a, robbed
<1>6. CASE Taken
  <2>1. /\ app' \in App /\ app'.active = app.active /\ app'.memory = a.memory /\ app'.view = "running"
        /\ \A k \in Keys \ {key[r]} : app'.registry[k] = a.registry[k]
        /\ app'.registry[key[r]].by = r
    BY <1>2, <1>3, <1>6, BegunIs
  <2>2. a.registry[key[r]].by = NoRequest
    BY <1>2, <1>6 DEF Accepts, Registered
  <2>3. pc' = [pc EXCEPT ![r] = l]
    BY <1>6 DEF Goto
  <2>4. Owned'
    <3> SUFFICES ASSUME NEW k \in Keys, app'.registry[k].by # NoRequest
                 PROVE  key[app'.registry[k].by] = k /\ pc'[app'.registry[k].by] \in Placed
      BY DEF Owned
    <3>1. CASE k = key[r]
      BY <2>1, <2>3, <3>1 DEF Placed, Engaged, TypeOK
    <3>2. CASE k # key[r]
      <4>1. app'.registry[k] = app.registry[k]
        BY <1>4, <2>1, <3>2
      <4>2. key[app.registry[k].by] = k /\ pc[app.registry[k].by] \in Placed
        BY <4>1 DEF Owned
      <4>3. app.registry[k].by # r
        BY <3>2, <4>2
      <4>4. QED
        BY <2>3, <4>1, <4>2, <4>3 DEF TypeOK
    <3>3. QED
      BY <3>1, <3>2
  <2>5. Held'
    <3> SUFFICES ASSUME NEW q \in Requests \ loose', q # r,
                        pc[q] \in Engaged
                 PROVE  app'.registry[key[q]].by = q
      BY <2>1, <2>3 DEF Held, Engaged, TypeOK
    <3>1. app.registry[key[q]].by = q /\ key[q] \in Keys /\ q \in InFlight \ robbed
      BY <1>9 DEF Held, Engaged, TypeOK, InFlight
    <3>2. a.registry[key[q]].by = q
      BY <3>1, <1>4
    <3>3. key[q] # key[r]
      BY <2>2, <3>2, ExecutionsConstants
    <3>4. QED
      BY <2>1, <3>1, <3>2, <3>3
  <2>6. Kinded'
    BY <1>9, <2>3 DEF Kinded, TypeOK
  <2>7. Counted' = Counted
    BY <2>3 DEF Counted, Kinded, TypeOK
  <2>8. Exact'
    BY <2>1, <2>7 DEF Exact
  <2>9. Capped'
    <3>1. Registered(app') = Registered(a) \union {key[r]}
      BY <1>2, <2>1, ExecutionsConstants DEF Registered
    <3>2. IsFiniteSet(Registered(a)) /\ Cardinality(Registered(a)) < MaxConcurrency
      BY <1>5, <1>6, FS_Subset DEF Capped, Accepts
    <3>3. Cardinality(Registered(a)) \in Nat
      BY <3>2, FS_CardinalityType
    <3>4. /\ IsFiniteSet(Registered(app'))
          /\ Cardinality(Registered(app')) \in {Cardinality(Registered(a)), Cardinality(Registered(a)) + 1}
      BY <3>1, <3>2, FS_AddElement
    <3>5. Cardinality(Registered(app')) <= MaxConcurrency
      BY <3>2, <3>3, <3>4, ExecutionsConstants
    <3>6. QED
      BY <3>4, <3>5 DEF Capped, Registered
  <2>10. DreamerQuiet'
    BY <2>1 DEF DreamerQuiet
  <2>11. Remembers'
    <3>1. ~Idle(a) => ~Idle(app)
      BY <1>3, <1>5 DEF Idle
    <3>2. QED
      BY <1>3, <1>9, <2>1, <3>1 DEF Remembers, Ghost
  <2>12. AbortTypeOK' /\ AbortIsForTheSpeakers'
    <3>1. \A q \in Requests : Speaking(q)' => Speaking(q)
      BY <2>3 DEF Speaking, TypeOK
    <3>2. QED
      BY <3>1, AbortKept
  <2>13. TypeOK'
    <3>1. Counted' \in SUBSET Requests /\ app'.active = Cardinality(Counted')
      BY <2>8 DEF Exact, Counted
    <3>2. app' \in [registry : [Keys -> Entries], active : 0 .. Cardinality(Requests),
                view : {"idle", "running"} \union Outcomes, memory : {"idle", "error"}]
      BY <2>1, <3>1, ActiveBounded
    <3>3. failed' \in BOOLEAN
      BY <1>9 DEF Ghost, TypeOK
    <3>4. QED
      BY <1>10, <2>3, <2>12, <3>2, <3>3 DEF TypeOK
  <2>14. QED
    BY <1>10, <2>4, <2>5, <2>6, <2>8, <2>9, <2>10, <2>11, <2>12, <2>13
<1>7. CASE Refusal
  <2>1. pc' = [pc EXCEPT ![r] = "over"] /\ pc[r] \in {"new", "routing"}
    BY <1>7 DEF Goto
  <2>2. app' \in App /\ app'.registry = a.registry
    BY <1>3, <1>7, RequestEndedIs
  <2>3. Owned'
    <3> SUFFICES ASSUME NEW k \in Keys, app'.registry[k].by # NoRequest
                 PROVE  key[app'.registry[k].by] = k /\ pc'[app'.registry[k].by] \in Placed
      BY DEF Owned
    <3>1. app'.registry[k] = app.registry[k]
      BY <1>4, <2>2
    <3>2. key[app.registry[k].by] = k /\ pc[app.registry[k].by] \in Placed
      BY <3>1 DEF Owned
    <3>3. app.registry[k].by # r
      BY <2>1, <3>2 DEF Placed, Engaged
    <3>4. QED
      BY <2>1, <3>1, <3>2, <3>3 DEF TypeOK
  <2>4. Held'
    <3> SUFFICES ASSUME NEW q \in Requests \ loose', q # r,
                        pc[q] \in Engaged
                 PROVE  app'.registry[key[q]].by = q
      BY <2>1 DEF Held, Engaged, TypeOK
    <3>1. app.registry[key[q]].by = q /\ key[q] \in Keys /\ q \in InFlight \ robbed
      BY <1>9 DEF Held, Engaged, TypeOK, InFlight
    <3>2. QED
      BY <1>4, <2>2, <3>1
  <2>5. Kinded'
    BY <1>9, <2>1 DEF Kinded, TypeOK
  <2>6. Exact'
    <3>1. CASE pc[r] = "new"
      <4>1. Counted' = Counted
        BY <2>1, <3>1 DEF Counted, TypeOK
      <4>2. app'.active = app.active
        BY <1>3, <1>7, <3>1
      <4>3. QED
        BY <4>1, <4>2 DEF Exact
    <3>2. CASE pc[r] = "routing"
      <4>1. r \in Counted /\ Counted' = Counted \ {r}
        BY <2>1, <3>2 DEF Counted, Kinded, TypeOK
      <4>2. Cardinality(Counted') = Cardinality(Counted) - 1 /\ Cardinality(Counted) > 0
        BY <4>1, CountedFinite, FS_RemoveElement, FS_EmptySet
      <4>3. app'.active = app.active - 1
        BY <1>3, <1>7, <3>2, <4>2, RequestEndedIs DEF Exact
      <4>4. QED
        BY <4>2, <4>3 DEF Exact
    <3>3. QED
      BY <2>1, <3>1, <3>2
  <2>7. Capped'
    <3>1. Registered(app') \subseteq Registered(app)
      BY <1>5, <2>2 DEF Registered
    <3>2. QED
      BY <3>1, CapShrinks
  <2>8. AbortTypeOK' /\ AbortIsForTheSpeakers'
    <3>1. \A q \in Requests : Speaking(q)' => Speaking(q)
      BY <2>1 DEF Speaking, TypeOK
    <3>2. QED
      BY <3>1, AbortKept
  <2>9. TypeOK'
    <3>1. Counted' \in SUBSET Requests /\ app'.active = Cardinality(Counted')
      BY <2>6 DEF Exact, Counted
    <3>2. app' \in [registry : [Keys -> Entries], active : 0 .. Cardinality(Requests),
                view : {"idle", "running"} \union Outcomes, memory : {"idle", "error"}]
      BY <2>2, <3>1, ActiveBounded
    <3>3. failed' \in BOOLEAN
      BY <1>9 DEF Ghost, TypeOK
    <3>4. QED
      BY <1>10, <2>1, <2>8, <3>2, <3>3 DEF TypeOK
  <2>10. ~Idle(app') => /\ ~Idle(a) /\ app'.memory = a.memory /\ app'.view \in {"running", a.view}
    <3>1. CASE pc[r] = "new"
      BY <1>7, <3>1
    <3>2. CASE pc[r] = "routing"
      <4>1. app' = RequestEnded(a)
        BY <1>7, <3>2
      <4>2. ~Idle(a)
        <5>1. r \in Counted
          BY <3>2 DEF Counted, Kinded
        <5>2. QED
          BY <1>3, <5>1, CountedFinite, FS_EmptySet DEF Exact, Idle
      <4>3. QED
        BY <1>3, <4>1, <4>2, RequestEndedIs
    <3>3. QED
      BY <2>1, <3>1, <3>2
  <2>11. DreamerQuiet'
    <3>1. (InFlight \ loose # {} => ~Idle(app))'
      BY <2>4, <2>5, <2>6, <2>9, InUse, PTL
    <3>2. InFlight' \ loose' \subseteq InFlight \ loose
      BY <1>9, <2>1 DEF InFlight, TypeOK
    <3>3. QED
      BY <1>3, <2>10, <3>1, <3>2 DEF DreamerQuiet
  <2>12. Remembers'
    <3>1. ~Idle(a) => ~Idle(app)
      BY <1>3, <1>5 DEF Idle
    <3>2. QED
      BY <1>3, <1>9, <2>10, <3>1 DEF Remembers, Ghost
  <2>13. QED
    BY <1>10, <2>3, <2>4, <2>5, <2>6, <2>7, <2>8, <2>9, <2>11, <2>12
<1>8. QED
  BY <1>6, <1>7, <1>9

\* A request that leaves, and frees its session whoever has it.
LEMMA LeaveKeeps ==
  ASSUME Inv, NEW r \in Requests, NEW status \in Outcomes, NEW l \in {"over", "orphan", "dropped"},
         pc[r] \in {"working", "concluding", "closing"},
         kind[r] = "chat" => l = "over" /\ pc[r] # "closing",
         Leave(IF kind[r] = "chat" THEN RequestEnded(app) ELSE app, r, status, l),
         failed' \in BOOLEAN,
         failed' => failed \/ (Verdict(app, key[r], status) = "error" /\ r \notin loose),
         UNCHANGED <<key, kind, locked, stops>>, AbortTypeOK', AbortIsForTheSpeakers'
  PROVE  Inv'
<1> DEFINE a == IF kind[r] = "chat" THEN RequestEnded(app) ELSE app
           k == key[r]
<1> USE DEF Inv
<1>1. app \in App /\ k \in Keys
  BY AppTyped DEF TypeOK
<1>2. /\ app' = Ended(a, k, status) /\ pc' = [pc EXCEPT ![r] = l]
      /\ loose' = (loose \ (IF l = "over" THEN {r} ELSE {})) \union Robs(r)
                    \union (IF l = "over" THEN {} ELSE {r})
      /\ disturbed' = (disturbed \/ l # "over")
  BY DEF Leave, Goto
<1>3. kind[r] = "chat" => r \in Counted
  BY DEF Counted
<1>4. kind[r] = "chat" => app.active > 0 /\ ~Idle(app)
  BY <1>3, CountedFinite, FS_EmptySet DEF Exact, Idle
<1>5. /\ a \in App /\ a.registry = app.registry
      /\ a.active = IF kind[r] = "chat" THEN app.active - 1 ELSE app.active
      /\ ~Idle(a) => ~Idle(app) /\ a.memory = app.memory
  BY <1>1, <1>4, RequestEndedIs
<1>6. Verdict(a, k, status) = Verdict(app, k, status)
  BY <1>5 DEF Verdict
<1> HIDE DEF a, k
<1>7. /\ app' \in App /\ app'.registry = [app.registry EXCEPT ![k] = Free] /\ app'.active = a.active
      /\ ~Idle(app') => /\ app'.view = "running"
                        /\ app'.memory = IF Verdict(app, k, status) = "error" THEN "error" ELSE a.memory
  BY <1>1, <1>2, <1>5, <1>6, EndedIs
<1>8. /\ \A m \in Keys \ {k} : app'.registry[m] = app.registry[m]
      /\ app'.registry[k].by = NoRequest
  BY <1>1, <1>7, FreeIs DEF App
<1>9. ~Idle(app') => ~Idle(a)
  <2>1. Registered(app') \subseteq Registered(a)
    BY <1>5, <1>8 DEF Registered
  <2>2. QED
    BY <1>7, <2>1 DEF Idle
<1>10. Owned'
  <2> SUFFICES ASSUME NEW m \in Keys, app'.registry[m].by # NoRequest
               PROVE  key[app'.registry[m].by] = m /\ pc'[app'.registry[m].by] \in Placed
    BY DEF Owned
  <2>1. m # k /\ app'.registry[m] = app.registry[m]
    BY <1>8
  <2>2. app.registry[m].by # r
    BY <2>1 DEF Owned, k
  <2>3. QED
    BY <1>2, <2>1, <2>2 DEF Owned, TypeOK
<1>11. Held'
  <2> SUFFICES ASSUME NEW q \in Requests \ loose',
                      pc'[q] \in Engaged
               PROVE  app'.registry[key[q]].by = q
    BY DEF Held, Engaged
  <2>1. q # r /\ pc'[q] = pc[q] /\ q \notin loose /\ key[q] \in Keys
    BY <1>2 DEF TypeOK, Engaged
  <2>2. app.registry[key[q]].by = q
    BY <2>1 DEF Held, Engaged
  <2>3. pc[q] \in Placed
    BY <2>1, <2>2, ExecutionsConstants DEF Owned
  <2>4. key[q] # k
    BY <1>2, <2>1, <2>2, <2>3 DEF Robs, InFlight, Placed, Engaged, k
  <2>5. QED
    BY <1>8, <2>1, <2>2, <2>4
<1>12. Kinded'
  BY <1>2 DEF Kinded, TypeOK
<1>13. Exact'
  <2>1. CASE kind[r] = "chat"
    <3>1. Counted' = Counted \ {r}
      BY <1>2, <2>1 DEF Counted, TypeOK
    <3>2. Cardinality(Counted') = Cardinality(Counted) - 1
      BY <1>3, <2>1, <3>1, CountedFinite, FS_RemoveElement
    <3>3. QED
      BY <1>5, <1>7, <2>1, <3>2 DEF Exact
  <2>2. CASE kind[r] # "chat"
    <3>1. Counted' = Counted
      BY <1>2, <2>2 DEF Counted, TypeOK
    <3>2. QED
      BY <1>5, <1>7, <2>2, <3>1 DEF Exact
  <2>3. QED
    BY <2>1, <2>2
<1>14. Capped'
  <2>1. Registered(app') \subseteq Registered(app)
    BY <1>8 DEF Registered
  <2>2. QED
    BY <2>1, CapShrinks
<1>15. TypeOK'
  <2>1. Counted' \in SUBSET Requests /\ app'.active = Cardinality(Counted')
    BY <1>13 DEF Exact, Counted
  <2>2. app' \in [registry : [Keys -> Entries], active : 0 .. Cardinality(Requests),
              view : {"idle", "running"} \union Outcomes, memory : {"idle", "error"}]
    BY <1>7, <2>1, ActiveBounded
  <2>3. loose' \subseteq Requests /\ disturbed' \in BOOLEAN
    BY <1>2 DEF Robs, InFlight, TypeOK
  <2>4. QED
    BY <1>2, <2>2, <2>3 DEF TypeOK
<1>16. DreamerQuiet'
  <2>1. (InFlight \ loose # {} => ~Idle(app))'
    BY <1>11, <1>12, <1>13, <1>15, InUse, PTL
  <2>2. QED
    BY <1>7, <2>1 DEF DreamerQuiet
<1>17. Remembers'
  BY <1>5, <1>7, <1>9 DEF Remembers, k
<1>18. Undisturbed'
  <2> SUFFICES ASSUME ~disturbed, l = "over" PROVE loose' = {}
    BY <1>2 DEF Undisturbed
  <2>1. loose = {}
    BY DEF Undisturbed
  <2>2. app.registry[key[r]].by = r
    BY <2>1 DEF Held, Engaged
  <2>3. Robs(r) = {}
    <3> SUFFICES ASSUME NEW q \in InFlight \ {r}, app.registry[key[r]].by = q PROVE FALSE
      BY DEF Robs
    <3>1. QED
      BY <2>2
  <2>4. QED
    BY <1>2, <2>1, <2>3
<1>19. QED
  BY <1>10, <1>11, <1>12, <1>13, <1>14, <1>15, <1>16, <1>17, <1>18

\* A request whose outcome is noted, on the entry of its session whoever has it.
LEMMA NoteKeeps ==
  ASSUME Inv, NEW r \in Requests, NEW status \in Outcomes, NEW l \in {"concluding", "closing", "over"},
         app' = StatusSet(app, key[r], status), Goto(r, l),
         IF l = "over" THEN pc[r] \in {"orphan", "dropped"} ELSE pc[r] \in {"working", "concluding"},
         kind[r] = "chat" => l # "closing", kind[r] = "voice" => l # "concluding",
         loose' = IF l = "over" THEN loose \ {r} ELSE loose,
         failed' \in BOOLEAN, failed' => failed \/ (status = "error" /\ r \notin loose),
         UNCHANGED <<key, kind, locked, stops, disturbed>>, AbortTypeOK', AbortIsForTheSpeakers'
  PROVE  Inv'
<1> USE DEF Inv
<1>1. app \in App /\ key[r] \in Keys
  BY AppTyped DEF TypeOK
<1>2. pc' = [pc EXCEPT ![r] = l]
  BY DEF Goto
<1>3. /\ app' \in App /\ app'.active = app.active
      /\ \A m \in Keys : app'.registry[m].by = app.registry[m].by
      /\ Idle(app') <=> Idle(app)
      /\ ~Idle(app) => /\ app'.view = "running"
                       /\ app'.memory = IF status = "error" THEN "error" ELSE app.memory
  BY <1>1, StatusSetIs
<1>4. Owned'
  <2> SUFFICES ASSUME NEW m \in Keys, app'.registry[m].by # NoRequest
               PROVE  key[app'.registry[m].by] = m /\ pc'[app'.registry[m].by] \in Placed
    BY DEF Owned
  <2>1. app.registry[m].by # NoRequest /\ app.registry[m].by = app'.registry[m].by
    BY <1>3
  <2>2. key[app.registry[m].by] = m /\ pc[app.registry[m].by] \in Placed
    BY <2>1 DEF Owned
  <2>3. CASE app.registry[m].by = r
    BY <1>2, <2>1, <2>2, <2>3 DEF TypeOK, Placed, Engaged
  <2>4. CASE app.registry[m].by # r
    BY <1>2, <2>1, <2>2, <2>4 DEF TypeOK
  <2>5. QED
    BY <2>3, <2>4
<1>5. Held'
  <2> SUFFICES ASSUME NEW q \in Requests \ loose',
                      pc'[q] \in Engaged
               PROVE  app'.registry[key[q]].by = q
    BY DEF Held, Engaged
  <2>1. /\ q \notin loose /\ key[q] \in Keys
        /\ pc[q] \in Engaged
    BY <1>2 DEF TypeOK, Engaged
  <2>2. QED
    BY <1>3, <2>1 DEF Held, Engaged
<1>6. Kinded'
  BY <1>2 DEF Kinded, TypeOK
<1>7. Exact'
  <2>1. Counted' = Counted
    BY <1>2 DEF Counted, Kinded, TypeOK
  <2>2. QED
    BY <1>3, <2>1 DEF Exact
<1>8. Capped'
  <2>1. Registered(app') \subseteq Registered(app)
    BY <1>3 DEF Registered
  <2>2. QED
    BY <2>1, CapShrinks
<1>9. TypeOK'
  <2>1. Counted' \in SUBSET Requests /\ app'.active = Cardinality(Counted')
    BY <1>7 DEF Exact, Counted
  <2>2. app' \in [registry : [Keys -> Entries], active : 0 .. Cardinality(Requests),
              view : {"idle", "running"} \union Outcomes, memory : {"idle", "error"}]
    BY <1>3, <2>1, ActiveBounded
  <2>3. QED
    BY <1>2, <2>2 DEF TypeOK
<1>10. DreamerQuiet'
  <2>1. (InFlight \ loose # {} => ~Idle(app))'
    BY <1>5, <1>6, <1>7, <1>9, InUse, PTL
  <2>2. QED
    BY <1>3, <2>1 DEF DreamerQuiet
<1>11. Remembers' /\ Undisturbed'
  BY <1>3 DEF Remembers, Undisturbed
<1>12. QED
  BY <1>4, <1>5, <1>6, <1>7, <1>8, <1>9, <1>10, <1>11

\* A request that is answered apart leaves no trace in the state of the server.
LEMMA ApartStep ==
  ASSUME Inv, NEW r \in Requests, Apart(r) \/ AnsweredApart(r), UNCHANGED <<locked, stops>>
  PROVE  Inv'
<1> USE DEF Inv, Goto
<1>1. PICK l \in {"apart", "over"} :
        /\ pc' = [pc EXCEPT ![r] = l] /\ pc[r] \in {"new", "apart"} /\ kind[r] = "chat"
        /\ UNCHANGED <<app, key, kind, loose, disturbed, failed, abortVars>>
  BY DEF Apart, AnsweredApart, Kinded
<1>2. AbortTypeOK' /\ AbortIsForTheSpeakers'
  <2>1. \A q \in Requests : Speaking(q)' => Speaking(q)
    BY <1>1 DEF Speaking, TypeOK
  <2>2. QED
    BY <1>1, <2>1, AbortKept
<1>3. Counted' = Counted /\ InFlight' = InFlight
  BY <1>1 DEF Counted, InFlight, TypeOK
<1>4. TypeOK' /\ Kinded' /\ Undisturbed'
  BY <1>1, <1>2 DEF TypeOK, Kinded, Undisturbed
<1>5. Owned'
  BY <1>1 DEF TypeOK, Owned, Placed, Engaged
<1>6. Held'
  BY <1>1 DEF TypeOK, Held, Engaged
<1>7. Exact' /\ Capped' /\ DreamerQuiet' /\ Remembers'
  BY <1>1, <1>3 DEF Exact, Capped, DreamerQuiet, Remembers
<1>8. QED
  BY <1>2, <1>4, <1>5, <1>6, <1>7

LEMMA ChatStep == ASSUME Inv, NEW r \in Requests, Chat(r), UNCHANGED <<locked, stops>> PROVE Inv'
<1> USE DEF Inv, Chat, Goto
<1>1. app \in App /\ AbortTypeOK' /\ AbortIsForTheSpeakers'
  <2>1. \A q \in Requests : Speaking(q)' => Speaking(q)
    BY DEF Speaking, TypeOK
  <2>2. QED
    BY <2>1, AppTyped, AbortKept
<1>2. Kinded' /\ Undisturbed'
  BY DEF Kinded, TypeOK, Undisturbed
<1>3. CASE key[r] \in Registered(app)
  <2>1. Counted' = Counted /\ app' = app /\ InFlight' = InFlight
    BY <1>3 DEF Counted, InFlight, TypeOK
  <2>2. pc' = [pc EXCEPT ![r] = "over"] /\ TypeOK'
    BY <1>1, <1>3 DEF TypeOK
  <2>5. Owned'
    BY <2>1, <2>2 DEF TypeOK, Owned, Placed, Engaged
  <2>6. Held'
    BY <2>1, <2>2 DEF TypeOK, Held, Engaged
  <2>3. Exact' /\ Capped' /\ DreamerQuiet' /\ Remembers'
    BY <1>3, <2>1 DEF Exact, Capped, DreamerQuiet, Remembers
  <2>4. QED
    BY <1>1, <1>2, <2>2, <2>3, <2>5, <2>6
<1>4. CASE key[r] \notin Registered(app)
  <2>1. app' = RequestBegun(app) /\ pc' = [pc EXCEPT ![r] = "routing"] /\ failed' = (failed /\ ~Idle(app))
    BY <1>4 DEF Ghost
  <2>2. /\ app' \in App /\ app'.registry = app.registry /\ app'.active = app.active + 1
        /\ app'.view = "running" /\ app'.memory = app.memory
    BY <1>1, <2>1, RequestBegunIs
  <2>3. r \notin Counted /\ Counted' = Counted \union {r}
    BY <2>1 DEF Counted, TypeOK
  <2>4. Exact'
    <3>1. Cardinality(Counted') = Cardinality(Counted) + 1
      BY <2>3, CountedFinite, FS_AddElement
    <3>2. QED
      BY <2>2, <3>1 DEF Exact
  <2>5. TypeOK'
    <3>1. Counted' \in SUBSET Requests /\ app'.active = Cardinality(Counted')
      BY <2>4 DEF Exact, Counted
    <3>2. app' \in [registry : [Keys -> Entries], active : 0 .. Cardinality(Requests),
                view : {"idle", "running"} \union Outcomes, memory : {"idle", "error"}]
      BY <2>2, <3>1, ActiveBounded
    <3>3. QED
      BY <1>1, <2>1, <3>2 DEF TypeOK
  <2>6. Owned' /\ Held'
    BY <2>1, <2>2 DEF TypeOK, Owned, Held, Placed, Engaged
  <2>7. Capped'
    BY <2>2, CapShrinks DEF Registered
  <2>8. DreamerQuiet' /\ Remembers'
    BY <2>1, <2>2 DEF DreamerQuiet, Remembers
  <2>9. QED
    BY <1>1, <1>2, <2>4, <2>5, <2>6, <2>7, <2>8
<1>5. QED
  BY <1>3, <1>4

LEMMA LightStep == ASSUME Inv, NEW r \in Requests, Light(r), UNCHANGED <<locked, stops>> PROVE Inv'
<1> USE DEF Inv, Light, Goto
<1>1. app \in App /\ AbortTypeOK' /\ AbortIsForTheSpeakers'
  <2>1. \A q \in Requests : Speaking(q)' => Speaking(q)
    BY DEF Speaking, TypeOK
  <2>2. QED
    BY <2>1, AppTyped, AbortKept
<1>2. r \in Counted /\ Counted' = Counted \ {r}
  BY DEF Counted, Kinded, TypeOK
<1>3. Cardinality(Counted') = Cardinality(Counted) - 1 /\ app.active > 0
  BY <1>2, CountedFinite, FS_RemoveElement, FS_EmptySet DEF Exact
<1>4. /\ app' \in App /\ app'.registry = app.registry /\ app'.active = app.active - 1
      /\ ~Idle(app') => app'.view = "running" /\ app'.memory = app.memory
  BY <1>1, <1>3, RequestEndedIs
<1>5. Exact'
  BY <1>3, <1>4 DEF Exact
<1>6. TypeOK'
  <2>1. Counted' \in SUBSET Requests /\ app'.active = Cardinality(Counted')
    BY <1>5 DEF Exact, Counted
  <2>2. app' \in [registry : [Keys -> Entries], active : 0 .. Cardinality(Requests),
              view : {"idle", "running"} \union Outcomes, memory : {"idle", "error"}]
    BY <1>4, <2>1, ActiveBounded
  <2>3. QED
    BY <1>1, <2>2 DEF TypeOK
<1>7. Owned' /\ Held'
  BY <1>4 DEF TypeOK, Owned, Held, Placed, Engaged
<1>8. Kinded' /\ Undisturbed'
  BY DEF Kinded, TypeOK, Undisturbed
<1>9. Capped'
  BY <1>4, CapShrinks DEF Registered
<1>10. DreamerQuiet'
  <2>1. (InFlight \ loose # {} => ~Idle(app))'
    BY <1>5, <1>6, <1>7, <1>8, InUse, PTL
  <2>2. QED
    BY <1>4, <2>1 DEF DreamerQuiet
<1>11. Remembers'
  BY <1>3, <1>4 DEF Remembers, Idle
<1>12. QED
  BY <1>1, <1>5, <1>6, <1>7, <1>8, <1>9, <1>10, <1>11

\* A stream that starts, or never does.  Its flags are clear when it starts.
LEMMA StartsStep ==
  ASSUME Inv, NEW r \in Requests, Starts(r) \/ NeverStarts(r), UNCHANGED <<locked, stops>> PROVE Inv'
<1> USE DEF Inv, Starts, NeverStarts, Goto
<1>1. AbortTypeOK' /\ AbortIsForTheSpeakers'
  <2>1. CASE kind[r] = "voice" /\ Speaks(r) /\ pc' = [pc EXCEPT ![r] = "working"]
    <3>1. /\ flag' = [x \in DOMAIN flag |-> IF x \in {r, Conversation} THEN "clear" ELSE flag[x]]
          /\ told' = told
      BY <2>1 DEF Speaks, Registration, Signalled, KeysOf, TypeOK, AbortTypeOK, Flags
    <3>2. AbortTypeOK'
      BY <3>1 DEF TypeOK, AbortTypeOK, Flags
    <3>3. ASSUME NEW q \in Requests, Speaking(q)', IsAborted(q)' PROVE q \in told'
      <4>1. q # r /\ flag[q] = "set"
        BY <3>1, <3>3 DEF IsAborted, KeysOf, TypeOK, AbortTypeOK, Flags
      <4>2. Speaking(q)
        BY <2>1, <3>3, <4>1 DEF Speaking, TypeOK
      <4>3. QED
        BY <3>1, <4>1, <4>2 DEF AbortIsForTheSpeakers, IsAborted, KeysOf
    <3>4. QED
      BY <3>2, <3>3 DEF AbortIsForTheSpeakers
  <2>2. CASE (kind[r] # "voice" \/ pc' = [pc EXCEPT ![r] = "unstarted"]) /\ UNCHANGED abortVars
    <3>1. \A q \in Requests : Speaking(q)' => Speaking(q)
      BY <2>2 DEF Speaking, TypeOK
    <3>2. QED
      BY <2>2, <3>1, AbortKept
  <2>3. QED
    BY <2>1, <2>2
<1>2. PICK l \in {"working", "unstarted"} :
        pc' = [pc EXCEPT ![r] = l] /\ loose' = IF l = "working" THEN loose ELSE loose \ {r}
  OBVIOUS
<1>3. Counted' = Counted /\ InFlight' \ loose' \subseteq InFlight \ loose
  BY <1>2 DEF Counted, Kinded, InFlight, TypeOK
<1>4. TypeOK' /\ Kinded' /\ Undisturbed'
  BY <1>1, <1>2 DEF TypeOK, Kinded, Undisturbed
<1>5. Owned'
  BY <1>2 DEF TypeOK, Owned, Placed, Engaged
<1>6. Held'
  BY <1>2 DEF TypeOK, Held, Engaged
<1>7. Exact' /\ Capped' /\ DreamerQuiet' /\ Remembers'
  BY <1>3 DEF Exact, Capped, DreamerQuiet, Remembers
<1>8. QED
  BY <1>1, <1>4, <1>5, <1>6, <1>7

\* A request that does not become a speaker keeps the aborts to those they are for.
LEMMA SpeechKept ==
  ASSUME Inv, NEW r \in Requests, NEW l, pc' = [pc EXCEPT ![r] = l], UNCHANGED kind,
         l = "dropped" => pc[r] = "working" \/ kind[r] # "voice",
         l # "working",
         UNCHANGED abortVars \/ EndsSpeech(r)
  PROVE  AbortTypeOK' /\ AbortIsForTheSpeakers'
<1>1. \A q \in Requests : Speaking(q)' => Speaking(q)
  BY DEF Inv, Speaking, TypeOK
<1>2. QED
  BY <1>1, AbortKept DEF Inv

LEMMA ConcludesStep ==
  ASSUME Inv, NEW r \in Requests, NEW status \in Outcomes, Concludes(r, status),
         UNCHANGED <<locked, stops>>
  PROVE  Inv'
<1> DEFINE l == IF pc[r] = "orphan" THEN "over" ELSE "concluding"
<1>1. pc' = [pc EXCEPT ![r] = l] /\ Goto(r, l)
  BY DEF Concludes, Goto
<1>2. AbortTypeOK' /\ AbortIsForTheSpeakers'
  BY <1>1, SpeechKept DEF Concludes
<1>3. failed' \in BOOLEAN /\ (failed' => failed \/ (status = "error" /\ r \notin loose))
  BY DEF Inv, TypeOK, Concludes, Fails
<1>4. QED
  BY <1>1, <1>2, <1>3, NoteKeeps DEF Concludes

LEMMA FinishStep ==
  ASSUME Inv, NEW r \in Requests, NEW status \in Outcomes, Finish(r, status),
         UNCHANGED <<locked, stops>>
  PROVE  Inv'
<1>1. AbortTypeOK' /\ AbortIsForTheSpeakers'
  BY SpeechKept DEF Finish, Leave, Goto
<1>2. failed' \in BOOLEAN
      /\ (failed' => failed \/ (Verdict(app, key[r], status) = "error" /\ r \notin loose))
  BY DEF Inv, TypeOK, Finish, Fails
<1>3. QED
  BY <1>1, <1>2, LeaveKeeps DEF Finish

LEMMA ReportsStep ==
  ASSUME Inv, NEW r \in Requests, NEW status \in Outcomes, Reports(r, status),
         UNCHANGED <<locked, stops>>
  PROVE  Inv'
<1>1. AbortTypeOK' /\ AbortIsForTheSpeakers'
  BY SpeechKept DEF Reports, Goto
<1>2. failed' \in BOOLEAN /\ (failed' => failed \/ (status = "error" /\ r \notin loose))
  BY DEF Inv, TypeOK, Reports, Fails
<1>3. QED
  BY <1>1, <1>2, NoteKeeps DEF Reports

\* The streams that close, or whose client leaves.
LEMMA ClosesStep ==
  ASSUME Inv, NEW r \in Requests, Closes(r) \/ LeftWaiting(r) \/ LeftSending(r),
         UNCHANGED <<locked, stops>>
  PROVE  Inv'
<1>1. PICK l \in {"over", "orphan", "dropped"} : Leave(app, r, "success", l)
  BY DEF Closes, LeftWaiting, LeftSending
<1>2. pc[r] \in {"working", "concluding", "closing"} /\ kind[r] # "chat"
  BY DEF Closes, LeftWaiting, LeftSending, Inv, Kinded
<1>3. UNCHANGED <<key, kind, failed>> /\ (UNCHANGED abortVars \/ EndsSpeech(r))
  BY DEF Closes, LeftWaiting, LeftSending
<1>4. AbortTypeOK' /\ AbortIsForTheSpeakers'
  <2>1. CASE Closes(r)
    BY <2>1, SpeechKept DEF Closes, Leave, Goto
  <2>2. CASE LeftWaiting(r)
    <3> DEFINE m == IF kind[r] = "stream" /\ pc[r] = "working" THEN "orphan" ELSE "over"
    <3>1. pc' = [pc EXCEPT ![r] = m]
      BY <2>2 DEF LeftWaiting, Leave, Goto
    <3>2. QED
      BY <1>3, <2>2, <3>1, SpeechKept DEF LeftWaiting
  <2>3. CASE LeftSending(r)
    <3>1. pc' = [pc EXCEPT ![r] = "dropped"] /\ (pc[r] = "working" \/ kind[r] # "voice")
      BY <2>3 DEF LeftSending, Leave, Goto, Inv, Kinded
    <3>2. QED
      BY <1>3, <3>1, SpeechKept
  <2>4. QED
    BY <2>1, <2>2, <2>3
<1>5. failed' \in BOOLEAN /\ "success" \in Outcomes
  BY <1>3 DEF Inv, TypeOK, Outcomes
<1>6. QED
  BY <1>1, <1>2, <1>3, <1>4, <1>5, LeaveKeeps

LEMMA DroppedClosesStep ==
  ASSUME Inv, NEW r \in Requests, DroppedCloses(r), UNCHANGED <<locked, stops>> PROVE Inv'
<1>1. AbortTypeOK' /\ AbortIsForTheSpeakers'
  BY SpeechKept DEF DroppedCloses, Goto
<1>2. failed' \in BOOLEAN /\ (failed' => failed) /\ "error" \in Outcomes
  BY DEF Inv, TypeOK, DroppedCloses, Outcomes
<1>3. QED
  BY <1>1, <1>2, NoteKeeps DEF DroppedCloses

LEMMA RequestSteps == ASSUME Inv, NEW r \in Requests, RequestStep(r) PROVE Inv'
<1> USE DEF RequestStep
<1>1. CASE Run(r) \/ Stream(r)
  BY <1>1, EnterKeeps DEF Run, Stream
<1>2. CASE Heavy(r)
  <2>1. kind[r] = "chat"
    BY <1>2 DEF Heavy, Inv, Kinded
  <2>2. QED
    BY <1>2, <2>1, EnterKeeps DEF Heavy
<1>3. QED
  BY <1>1, <1>2, ApartStep, ChatStep, LightStep, StartsStep, ConcludesStep, FinishStep, ReportsStep, ClosesStep,
     DroppedClosesStep

-----------------------------------------------------------------------------
(* Stops and aborts.                                                       *)

\* The registry is emptied and nobody is told: every request in flight has lost its place.
LEMMA ClearKeeps ==
  ASSUME Inv, NEW status \in {"error", "success"}, Clear(status), Asked,
         UNCHANGED <<locked, reqVars>>, AbortTypeOK', AbortIsForTheSpeakers'
  PROVE  Inv'
<1> USE DEF Inv, Clear, Asked, reqVars
<1>1. app \in App /\ status \in Marks
  BY AppTyped DEF Marks, Outcomes
<1>2. /\ app' \in App /\ app'.registry = [k \in Keys |-> Free] /\ app'.active = app.active
  BY <1>1, ClearedIs
<1>3. Counted' = Counted /\ InFlight' = InFlight
  BY DEF Counted, InFlight
<1>4. Exact'
  BY <1>2, <1>3 DEF Exact
<1>5. TypeOK'
  <2>1. Counted' \in SUBSET Requests /\ app'.active = Cardinality(Counted')
    BY <1>4 DEF Exact, Counted
  <2>2. app' \in [registry : [Keys -> Entries], active : 0 .. Cardinality(Requests),
              view : {"idle", "running"} \union Outcomes, memory : {"idle", "error"}]
    BY <1>2, <2>1, ActiveBounded
  <2>3. loose' \subseteq Requests /\ stops' \in 0 .. MaxStops /\ disturbed' \in BOOLEAN
    BY ExecutionsConstants DEF TypeOK, InFlight
  <2>4. QED
    BY <2>2, <2>3 DEF TypeOK
<1>6. Owned'
  BY <1>2, FreeIs DEF Owned
<1>7. Held'
  BY DEF Held, Engaged, InFlight, TypeOK
<1>8. Kinded' /\ DreamerQuiet' /\ Remembers' /\ Undisturbed'
  BY <1>3 DEF Kinded, DreamerQuiet, Remembers, Undisturbed
<1>9. Capped'
  BY <1>2, FreeIs, CapShrinks DEF Registered
<1>10. QED
  BY <1>4, <1>5, <1>6, <1>7, <1>8, <1>9

LEMMA StopSteps == ASSUME Inv, Stop \/ WsStop \/ UNCHANGED vars PROVE Inv'
<1>1. AbortTypeOK' /\ AbortIsForTheSpeakers'
  <2>1. \A r \in Requests : Speaking(r)' => Speaking(r)
    BY DEF Stop, WsStop, vars, reqVars, Speaking
  <2>2. QED
    BY <2>1, AbortKept DEF Stop, WsStop, vars, Inv
<1>2. CASE Stop
  BY <1>1, <1>2, ClearKeeps DEF Stop
<1>3. CASE WsStop \/ UNCHANGED vars
  <2>1. UNCHANGED <<app, pc, key, kind, loose, disturbed, failed>>
    BY <1>3 DEF WsStop, vars, reqVars
  <2>2. stops' \in 0 .. MaxStops /\ locked' \in BOOLEAN
    <3>1. MaxStops \in Nat /\ stops \in 0 .. MaxStops /\ locked \in BOOLEAN
      BY ExecutionsConstants DEF Inv, TypeOK
    <3>2. CASE WsStop
      BY <3>1, <3>2 DEF WsStop, Asked
    <3>3. CASE UNCHANGED vars
      BY <3>1, <3>3 DEF vars
    <3>4. QED
      BY <1>3, <3>2, <3>3
  <2>3. InFlight' = InFlight /\ Counted' = Counted
    BY <2>1 DEF InFlight, Counted
  <2>4. /\ TypeOK' /\ Undisturbed' /\ Owned' /\ Held' /\ Kinded' /\ Exact' /\ Capped'
        /\ DreamerQuiet' /\ Remembers'
    BY <1>1, <2>1, <2>2, <2>3
       DEF Inv, TypeOK, Undisturbed, Owned, Held, Kinded, Exact, Capped, DreamerQuiet, Remembers
  <2>5. QED
    BY <1>1, <2>4 DEF Inv
<1>4. QED
  BY <1>2, <1>3

\* Those who hear an abort that they had not heard before are speaking now.
LEMMA VocalAbortStep == ASSUME Inv, VocalAbort PROVE Inv'
<1> DEFINE speakers == {r \in Requests : Speaking(r)}
<1>1. PICK scope \in Scopes : BargeIn(scope, speakers)
  BY DEF VocalAbort
<1>2. /\ flag' = Signalled(flag, scope) /\ told' = told \union speakers /\ flag \in Flags
      /\ told \subseteq Requests
  BY <1>1 DEF BargeIn, Inv, TypeOK, AbortTypeOK
<1>3. AbortTypeOK'
  BY <1>2 DEF AbortTypeOK, Signalled, Flags
<1>4. \A r \in Requests : Speaking(r)' => r \in speakers
  BY DEF VocalAbort, reqVars, Speaking
<1>5. AbortIsForTheSpeakers'
  BY <1>2, <1>4 DEF AbortIsForTheSpeakers
<1>6. QED
  BY <1>3, <1>5, ClearKeeps DEF VocalAbort

LEMMA Inductive == Inv /\ [Next]_vars => Inv'
BY RequestSteps, StopSteps, VocalAbortStep DEF Next

LEMMA Invariant == Spec => []Inv
BY Initially, Inductive, PTL DEF Spec

-----------------------------------------------------------------------------
(* What the clients are promised.                                          *)

LEMMA PlacesFollow == Inv => PlacesRespected
<1> SUFFICES ASSUME Inv PROVE PlacesRespected
  OBVIOUS
<1>1. ASSUME NEW r \in Executing \ loose
      PROVE  r \in Requests /\ key[r] \in Registered(app) /\ app.registry[key[r]].by = r
  <2>1. pc[r] \in Engaged /\ key[r] \in Keys
    BY <1>1 DEF Executing, Engaged, Inv, Kinded, TypeOK
  <2>2. QED
    BY <1>1, <2>1, ExecutionsConstants DEF Executing, Registered, Inv, Held
<1>2. OneExecutionPerSession
  BY <1>1 DEF OneExecutionPerSession
<1>3. CapRespected
  <2> DEFINE S == Executing \ loose
             place == [r \in S |-> key[r]]
  <2>1. place \in [S -> Registered(app)] /\ \A r, s \in S : place[r] = place[s] => r = s
    BY <1>1
  <2>2. place \in Injection(S, Registered(app))
    BY <2>1 DEF Injection, IsInjective
  <2>3. IsFiniteSet(Registered(app)) /\ Cardinality(Registered(app)) <= MaxConcurrency
    BY DEF Inv, Capped
  <2> HIDE DEF place, S
  <2>4. IsFiniteSet(S) /\ Cardinality(S) <= Cardinality(Registered(app))
    BY <2>2, <2>3, FS_Injection
  <2>5. Cardinality(S) \in Nat /\ Cardinality(Registered(app)) \in Nat
    BY <2>3, <2>4, FS_CardinalityType
  <2>6. Cardinality(S) <= MaxConcurrency
    BY <2>3, <2>4, <2>5, ExecutionsConstants
  <2>7. QED
    BY <2>6 DEF CapRespected, S
<1>4. QED
  BY <1>2, <1>3 DEF PlacesRespected, Inv

\* The gate of the server, for any number of requests and of sessions: two executions of one
\* session never overlap, there are never more than max_concurrency of them, and every request
\* in flight has its own place, until a stop, a purge or the departure of a client takes one;
\* from then on the same holds of those that have not lost theirs (begin_execution and
\* end_execution, core/app_state.py).
THEOREM PlacesAlwaysRespected == Spec => []PlacesRespected
BY Invariant, PlacesFollow, PTL

\* An entry of the registry is that of a request in flight, or of a stream that never
\* started; and the dreamer sees the engine in use while a request that is counted is in
\* flight and has its place, which all of them have until one is disturbed.  The discussions
\* and the shortcuts of the home of POST /api/execute are never counted
\* (set_execution_status and the view of core/app_state.py).
THEOREM RegistryAlwaysTrue == Spec => []RegistryTrue
<1>1. Inv => RegistryTrue
  <2> SUFFICES ASSUME Inv PROVE NothingLeaks
    BY DEF RegistryTrue, Inv
  <2>1. ASSUME NEW k \in Registered(app)
        PROVE  app.registry[k].by \in InFlight \/ pc[app.registry[k].by] = "unstarted"
    <3>1. k \in Keys /\ app.registry[k].by \in Requests /\ pc[app.registry[k].by] \in Placed
      BY <2>1 DEF Registered, Inv, Owned, TypeOK, Entries
    <3>2. QED
      BY <3>1 DEF Placed, Engaged, InFlight
  <2>2. QED
    BY <2>1 DEF NothingLeaks
<1>2. QED
  BY <1>1, Invariant, PTL

\* A voice stream that sees an abort was speaking when one was asked for, whatever flags the
\* streams of the conversation left behind them (core/vocal_abort.py).
THEOREM AbortsReachTheSpeakers == Spec => []AbortIsForTheSpeakers
<1>1. Inv => AbortIsForTheSpeakers
  BY DEF Inv
<1>2. QED
  BY <1>1, Invariant, PTL

\* A discussion that ends with the failure remembered, or a refusal of it, shows the failure.
LEMMA EntersShown ==
  ASSUME Inv, NEW r \in Requests, NEW l, Enter(r, l),
         pc[r] = "routing" => kind[r] = "chat",
         ~Idle(app), Idle(app'), failed'
  PROVE  app'.view = "error"
<1>7. PICK stale \in SUBSET Registered(app) :
        LET b == Purged(app, stale)
        IN  /\ app' \in {Begun(b, r), RequestEnded(b), b}
            /\ Ghost(b)
  BY DEF Enter
<1> DEFINE a == Purged(app, stale)
<1>1. /\ app \in App /\ key[r] \in Keys /\ app.memory = IF failed THEN "error" ELSE app.memory
      /\ stale \in SUBSET Keys
  BY AppTyped DEF Inv, TypeOK, Remembers, Registered
<1>2. a \in App /\ (~Idle(a) => a.memory = app.memory)
  BY <1>1, PurgedIs
<1>3. failed /\ ~Idle(a) /\ a.memory = "error"
  BY <1>1, <1>2, <1>7 DEF Ghost
<1>8. app' \in {Begun(a, r), RequestEnded(a), a}
  BY <1>7
<1> HIDE DEF a
<1>4. app' # Begun(a, r)
  <2>1. Begun(a, r).registry[key[r]].by = r
    BY <1>1, <1>2, BegunIs
  <2>2. QED
    BY <1>1, <2>1, ExecutionsConstants DEF Idle, Registered
<1>5. app' \in {RequestEnded(a), a}
  BY <1>4, <1>8
<1>6. QED
  BY <1>2, <1>3, <1>5, RequestEndedIs

\* One that leaves keeps its place until then: the server was not idle without it.
LEMMA LeavesShown ==
  ASSUME Inv, NEW r \in Requests, NEW status \in Outcomes, NEW l, loose = {},
         pc[r] \in {"working", "concluding", "closing"},
         Leave(IF kind[r] = "chat" THEN RequestEnded(app) ELSE app, r, status, l),
         failed' => failed \/ Verdict(app, key[r], status) = "error",
         ~Idle(app), Idle(app'), failed'
  PROVE  app'.view = "error"
<1> DEFINE a == IF kind[r] = "chat" THEN RequestEnded(app) ELSE app
<1>1. app \in App /\ key[r] \in Keys /\ app.registry[key[r]].by = r
  BY AppTyped DEF Inv, TypeOK, Held, Engaged
<1>2. a \in App /\ a.registry = app.registry /\ (~Idle(a) => a.memory = app.memory)
  BY <1>1, RequestEndedIs
<1>3. app' = Ended(a, key[r], status)
  BY DEF Leave
<1> HIDE DEF a
<1>4. ~Idle(a) /\ Verdict(a, key[r], status) = Verdict(app, key[r], status)
  BY <1>1, <1>2, ExecutionsConstants DEF Idle, Registered, Verdict
<1>5. failed => a.memory = "error"
  BY <1>2, <1>4 DEF Inv, Remembers
<1>6. app'.view = IF a.memory = "error" THEN "error" ELSE Verdict(a, key[r], status)
  BY <1>1, <1>2, <1>3, EndedIs
<1>7. QED
  BY <1>4, <1>5, <1>6

LEMMA IdleShowsFailure ==
  ASSUME Inv, Next, ~Idle(app), Idle(app'), failed', loose = {} PROVE app'.view = "error"
<1>1. app \in App /\ (failed => app.memory = "error")
  BY AppTyped DEF Inv, Remembers
<1>2. \A k \in Keys, status \in Outcomes : Idle(StatusSet(app, k, status)) <=> Idle(app)
  BY <1>1, StatusSetIs
<1>3. ASSUME NEW r \in Requests, RequestStep(r) PROVE app'.view = "error"
  <2>1. key[r] \in Keys /\ (pc[r] = "routing" => kind[r] = "chat")
    BY DEF Inv, TypeOK, Kinded
  <2>2. CASE Run(r) \/ Heavy(r) \/ Stream(r)
    BY <2>1, <2>2, EntersShown DEF Run, Heavy, Stream
  <2>3. ~Chat(r)
    <3>1. app.active \in Nat /\ RequestBegun(app).active = app.active + 1
      BY <1>1, RequestBegunIs DEF App
    <3>2. ~Idle(RequestBegun(app))
      BY <3>1 DEF Idle
    <3>3. QED
      BY <3>2 DEF Chat
  <2>4. CASE Light(r)
    BY <1>1, <2>4, RequestEndedIs DEF Light
  <2>5. ~(Starts(r) \/ NeverStarts(r) \/ Apart(r) \/ AnsweredApart(r))
    BY DEF Starts, NeverStarts, Apart, AnsweredApart
  <2>6. ~DroppedCloses(r) /\ \A status \in Outcomes : ~(Concludes(r, status) \/ Reports(r, status))
    BY <1>2, <2>1 DEF Concludes, Reports, DroppedCloses, Outcomes
  <2>7. ASSUME NEW status \in Outcomes, Finish(r, status) PROVE app'.view = "error"
    BY <2>7, LeavesShown DEF Finish, Fails
  <2>8. CASE Closes(r) \/ LeftWaiting(r) \/ LeftSending(r)
    <3>1. /\ \E l \in {"over", "orphan", "dropped"} : Leave(app, r, "success", l)
          /\ failed' = failed /\ pc[r] \in {"working", "concluding", "closing"}
      BY <2>8 DEF Closes, LeftWaiting, LeftSending
    <3>2. kind[r] # "chat" /\ "success" \in Outcomes
      BY <2>8 DEF Closes, LeftWaiting, LeftSending, Inv, Kinded, Outcomes
    <3>3. QED
      BY <3>1, <3>2, LeavesShown
  <2>9. QED
    BY <1>3, <2>2, <2>3, <2>4, <2>5, <2>6, <2>7, <2>8 DEF RequestStep
<1>4. ~Stop /\ ~VocalAbort /\ ~WsStop
  BY DEF Stop, VocalAbort, WsStop, Clear
<1>5. QED
  BY <1>3, <1>4 DEF Next

\* The step by which the server becomes idle shows that an execution has failed, even if
\* others have succeeded since (_last_terminal_status, core/app_state.py).
THEOREM FailureAlwaysShown == Spec => FailureShown
<1>1. Inv /\ [Next]_vars => [~Idle(app) /\ Idle(app') /\ failed' /\ loose = {} => app'.view = "error"]_vars
  BY IdleShowsFailure
<1>2. QED
  BY <1>1, Invariant, PTL DEF Spec, FailureShown
=============================================================================
