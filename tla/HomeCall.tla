------------------------------- MODULE HomeCall -----------------------------
(***************************************************************************)
(* A call of a service of Home Assistant (services/execute_service.py).    *)
(* The connection is kept alive between two calls: the server may close it *)
(* just when it is used again, before or after it has done what it was     *)
(* asked.  Of the house, what is kept is which devices answer and how      *)
(* often each call was carried out.                                        *)
(***************************************************************************)
EXTENDS Integers

CONSTANTS
  Turns,      \* utterances; each has one call at a time
  MaxUpsets   \* devices that break or come back (bound of the model)

ASSUME HomeConstants == MaxUpsets \in Nat

\* The script of the shutter, which like a toggle has another effect when it is called again;
\* the group of the salon; the setpoint; the setpoint with its mode.
Services == {"shutter", "salon", "setpoint", "comfort"}
Device(s) == IF s \in {"setpoint", "comfort"} THEN "climate" ELSE s
Devices == {Device(s) : s \in Services}
Members == 2   \* _SALON_LIGHT_MEMBERS

VARIABLES
  dead,     \* devices that do not answer Home Assistant
  call,     \* of each utterance
  upsets,
  \* Kept by the model alone:
  strokes,  \* times Home Assistant has carried out the call: 0, once, or more (2)
  doubtful  \* whether the device could not be checked, or broke since

houseVars == <<dead, upsets>>
callVars == <<call, strokes, doubtful>>

Steps == {"idle", "check", "early", "post", "members", "ok", "refused", "raised"}
NoCall == [service |-> "none", step |-> "idle", tries |-> 0, left |-> 0, any |-> FALSE]

HomeTypeOK ==
  /\ dead \subseteq Devices
  /\ call \in [Turns -> [service : Services \union {"none"}, step : Steps,
                         tries : 0 .. 1, left : 0 .. Members, any : BOOLEAN]]
  /\ upsets \in 0 .. MaxUpsets
  /\ strokes \in [Turns -> 0 .. 2]
  /\ doubtful \in [Turns -> BOOLEAN]

HomeInit ==
  /\ dead = {} /\ upsets = 0
  /\ call = [u \in Turns |-> NoCall]
  /\ strokes = [u \in Turns |-> 0]
  /\ doubtful = [u \in Turns |-> FALSE]

----------------------------------------------------------------------------
(* The house. *)

\* A device breaks or comes back.
Upset(d) ==
  /\ upsets < MaxUpsets /\ upsets' = upsets + 1
  /\ dead' = IF d \in dead THEN dead \ {d} ELSE dead \union {d}
  /\ doubtful' = [u \in Turns |-> doubtful[u] \/ Device(call[u].service) = d]
  /\ UNCHANGED <<call, strokes>>

\* The command of u arrives, or does not.
Carried(u, arrives) ==
  strokes' = [strokes EXCEPT ![u] = IF arrives /\ @ < 2 THEN @ + 1 ELSE @]

Sound(u) == Device(call[u].service) \notin dead

----------------------------------------------------------------------------
(* execute_ha_service *)

\* Mutant of Replayable: the script of the shutter, as before #T350.
ReplayableShutter(s) == TRUE

\* _est_action_rejouable
Replayable(s) == s # "shutter"

\* Mutant of Blocks: a device that answers nothing is sent the command all the same.
BlocksNever(u) == FALSE

\* _verifier_etat_entite: Home Assistant says that the device does not answer.
Blocks(u) == ~Sound(u)

StepTo(u, step) == call' = [call EXCEPT ![u].step = step]

\* A call begins; nothing is known of it yet.
Call(u, s) ==
  /\ call' = [call EXCEPT ![u] = [NoCall EXCEPT !.service = s, !.step = "check"]]
  /\ strokes' = [strokes EXCEPT ![u] = 0]
  /\ doubtful' = [doubtful EXCEPT ![u] = FALSE]
  /\ UNCHANGED houseVars

\* No token, or a shutter without an action: refused before anything is read.
Unusable(u) ==
  /\ call[u].step = "check"
  /\ StepTo(u, "refused")
  /\ UNCHANGED <<houseVars, strokes, doubtful>>

\* The state of the device is read first; what cannot be read does not block.
Check(u) ==
  /\ call[u].step = "check"
  /\ LET go == IF call[u].service = "comfort" THEN "early" ELSE "post"
     IN  \/ StepTo(u, IF Blocks(u) THEN "refused" ELSE go) /\ UNCHANGED doubtful
         \/ StepTo(u, go) /\ doubtful' = [doubtful EXCEPT ![u] = TRUE]
  /\ UNCHANGED <<houseVars, strokes>>

\* The mode is set before the temperature, and whether it was does not matter.
Early(u) ==
  /\ call[u].step = "early"
  /\ StepTo(u, "post")
  /\ UNCHANGED <<houseVars, strokes, doubtful>>

\* Home Assistant answers 200: it has done it, if the device was there to do it.
Accepted(u) ==
  /\ call[u].step = "post"
  /\ StepTo(u, "ok")
  /\ Carried(u, Sound(u))
  /\ UNCHANGED <<dead, upsets, doubtful>>

\* Another status: a group is asked again member by member.
Rejected(u) ==
  /\ call[u].step = "post"
  /\ call' = IF call[u].service = "salon"
               THEN [call EXCEPT ![u].step = "members", ![u].left = Members]
               ELSE [call EXCEPT ![u].step = "refused"]
  /\ UNCHANGED <<houseVars, strokes, doubtful>>

\* The server closes the connection; the command may have arrived.  What can be replayed is
\* sent once more.
Cut(u) ==
  /\ call[u].step = "post"
  /\ call' = IF Replayable(call[u].service) /\ call[u].tries = 0
               THEN [call EXCEPT ![u].tries = 1]
               ELSE [call EXCEPT ![u].step = "raised"]
  /\ \E arrives \in {FALSE, Sound(u)} : Carried(u, arrives)
  /\ UNCHANGED <<dead, upsets, doubtful>>

\* No answer within ten seconds, or another failure of the network.
Fails(u) ==
  /\ call[u].step = "post"
  /\ StepTo(u, "raised")
  /\ \E arrives \in {FALSE, Sound(u)} : Carried(u, arrives)
  /\ UNCHANGED <<dead, upsets, doubtful>>

\* The next member of the group; the first that raises ends the call.
Member(u) ==
  /\ call[u].step = "members"
  /\ LET over(any) == IF call[u].left > 1 THEN "members" ELSE IF any THEN "ok" ELSE "refused"
         after(any) == [call EXCEPT ![u].left = @ - 1, ![u].any = any, ![u].step = over(any)]
     IN  \/ call' = after(TRUE) /\ Carried(u, Sound(u))
         \/ call' = after(call[u].any) /\ Carried(u, FALSE)
         \/ StepTo(u, "raised") /\ \E arrives \in {FALSE, Sound(u)} : Carried(u, arrives)
  /\ UNCHANGED <<dead, upsets, doubtful>>

CallStep(u) ==
  \/ Unusable(u) \/ Check(u) \/ Early(u)
  \/ Accepted(u) \/ Rejected(u) \/ Cut(u) \/ Fails(u) \/ Member(u)

Returned(u) == call[u].step \in {"ok", "refused", "raised"}

\* The call is over; what is known of it matters only if it is answered.
HangUp(u, told) ==
  /\ call' = [call EXCEPT ![u] = NoCall]
  /\ strokes' = [strokes EXCEPT ![u] = IF told /\ @ > 0 THEN 1 ELSE 0]
  /\ doubtful' = [doubtful EXCEPT ![u] = told /\ @]
=============================================================================
