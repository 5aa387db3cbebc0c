---------------------------- MODULE CameraSetup ----------------------------
(***************************************************************************)
(* Setting up a camera and moving it: onboarding, the ONVIF inspection of  *)
(* a source, its validation, and the PTZ operations of src/sources.rs.     *)
(*                                                                         *)
(* Clients call the API concurrently.  A call holds no lock while it waits *)
(* for a camera or for the media gateway, and a client that goes away      *)
(* drops its call at such a point.  One step is the code under one lock of *)
(* `sources` or `onboarding`, with the answer (CameraProbe has what is     *)
(* made of one) that was waited for.                                       *)
(*                                                                         *)
(* There is one source id, over which the clients compete.  Left out: the  *)
(* worker of a source (SourceManager), its health (HealthMonitor), what    *)
(* the gateway says of its path (MediaSupervisor), and calls that fail     *)
(* before they change or await anything.                                   *)
(***************************************************************************)
EXTENDS CameraProbe, FiniteSets

CONSTANTS
  Clients,
  Cameras,
  MaxSessions,   \* bound: onboarding sessions in all
  MaxCalls,      \* bound: calls that wait, in all
  OnvifAnswers,  \* how cameras may answer an inspection (see CameraProbe)
  RtspAnswers,   \* how they may answer a validation
  Searches,      \* what a discovery may hear
  None

ASSUME SetupAssumption ==
  /\ {MaxSessions, MaxCalls} \subseteq Nat
  /\ Cameras \subseteq Nat \ {0}
  /\ None \notin Cameras
  /\ Searches \subseteq Seq([text : BOOLEAN, camera : Cameras \cup {0}])

VARIABLES
  draft,   \* the onboarding sessions so far, None when completed
  entry,   \* the source, or None
  path,    \* the camera the gateway has a path to for it, or None
  client,  \* the call each client is in, or its last one
  calls    \* calls left

vars == <<draft, entry, path, client, calls>>

\* The fields of a call: its operation and where it is; its number; the
\* onboarding session and the camera it is about; the inspection whose PTZ
\* session it uses; whether it was sent to a camera; its answer, and the outcome
\* of its audit event.
NoCall == [op |-> "none", at |-> "idle", run |-> 0, session |-> 0, camera |-> None,
           insp |-> None, sent |-> FALSE, answer |-> None, audit |-> None]

NewEntry(owner, camera) ==
  [owner |-> owner, camera |-> camera, valid |-> "unknown", insp |-> None, presets |-> None,
   unpathed |-> FALSE]

Init ==
  /\ draft = <<>> /\ entry = None /\ path = None
  /\ client = [c \in Clients |-> NoCall]
  /\ calls = MaxCalls

At(c, op, at) == client[c].op = op /\ client[c].at = at
To(c, at) == client' = [client EXCEPT ![c].at = at]
Answers(c, answer, audit) == client' = [client EXCEPT
  ![c] = [NoCall EXCEPT !.op = client[c].op, !.run = client[c].run, !.sent = client[c].sent,
                          !.answer = answer, !.audit = audit]]
Answer(c, answer) == Answers(c, answer, None)

\* A client without a call begins one.
Begin(c, op, at, call) ==
  /\ client[c].at = "idle" /\ calls > 0
  /\ calls' = calls - 1
  /\ client' = [client EXCEPT ![c] = [call EXCEPT !.op = op, !.at = at, !.run = calls]]

-----------------------------------------------------------------------------
(* Onboarding sessions.                                                    *)

\* onboarding_discover(): nothing is kept of a search that failed.
OnboardingDiscover ==
  /\ Len(draft) < MaxSessions
  /\ \E heard \in Searches, answers \in [Cameras -> OnvifAnswers] :
       LET found == Discover(heard, answers) IN
       found.ok /\ draft' = Append(draft, [devices |-> found.devices, insp |-> None])
  /\ UNCHANGED <<entry, path, client, calls>>

\* onboarding_inspect(): any endpoint may be asked for; the session is looked up
\* after the answer.
OnboardingInspect(s) ==
  /\ draft[s] # None
  /\ \E camera \in Cameras, r \in OnvifAnswers :
       LET insp == Inspect(camera, r) IN insp.ok /\ draft' = [draft EXCEPT ![s].insp = insp]
  /\ UNCHANGED <<entry, path, client, calls>>

\* onboarding_complete() takes a copy of the session; it goes on with a usable
\* profile only.
CompleteBegins(c, s) ==
  /\ draft[s] # None /\ draft[s].insp # None /\ BestProfile(draft[s].insp) # 0
  /\ Begin(c, "complete", "add", [NoCall EXCEPT !.session = s, !.camera = draft[s].insp.camera])
  /\ UNCHANGED <<draft, entry, path>>

CompleteAdds(c) ==
  /\ At(c, "complete", "add")
  /\ \/ /\ entry = None
        /\ entry' = NewEntry(client[c].run, client[c].camera)
        /\ To(c, "validate")
     \/ /\ entry # None
        /\ Answer(c, "failed") /\ UNCHANGED entry
  /\ UNCHANGED <<draft, path, calls>>

\* Mutant: a source that is not validated is not taken back.
RegisterBeginsKeeps(c) ==
  /\ At(c, "complete", "register")
  /\ IF entry # None /\ entry.valid = "validated"
     THEN client' = [client EXCEPT ![c].at = "registering", ![c].camera = entry.camera]
     ELSE Answer(c, "failed")
  /\ UNCHANGED <<draft, entry, path, calls>>

\* register_playback() reads the source.
RegisterBegins(c) ==
  /\ At(c, "complete", "register")
  /\ IF entry # None /\ entry.valid = "validated"
     THEN client' = [client EXCEPT ![c].at = "registering", ![c].camera = entry.camera]
     ELSE To(c, "rollback")
  /\ UNCHANGED <<draft, entry, path, calls>>

\* Mutant: a failure of the gateway is ignored.
RegisterEndsAnyway(c) ==
  /\ At(c, "complete", "registering")
  /\ \/ path' = client[c].camera /\ entry # None /\ To(c, "finish")
     \/ path' \in {path, client[c].camera} /\ To(c, "finish")
  /\ UNCHANGED <<draft, entry, calls>>

\* The gateway has the path, or, when the call failed, perhaps.  playback()
\* then asks about it, which may fail too.
RegisterEnds(c) ==
  /\ At(c, "complete", "registering")
  /\ \/ path' = client[c].camera /\ entry # None /\ To(c, "finish")
     \/ path' \in {path, client[c].camera} /\ To(c, "rollback")
  /\ UNCHANGED <<draft, entry, calls>>

CompleteEnds(c) ==
  /\ At(c, "complete", "finish")
  /\ draft' = [draft EXCEPT ![client[c].session] = None]
  /\ Answer(c, "ok")
  /\ UNCHANGED <<entry, path, calls>>

-----------------------------------------------------------------------------
(* remove(): a client's, or a completion that takes back what it added.    *)

DeleteBegins(c) ==
  /\ Begin(c, "delete", "rollback", NoCall)
  /\ UNCHANGED <<draft, entry, path>>

\* The path goes first; a gateway that fails is ignored.
RemovePath(c) ==
  /\ client[c].at = "rollback"
  /\ IF entry = None THEN Answer(c, "failed") /\ UNCHANGED <<entry, path>>
     ELSE /\ path' \in {None, path}
          /\ entry' = [entry EXCEPT !.unpathed = TRUE]
          /\ To(c, "erase")
  /\ UNCHANGED <<draft, calls>>

\* Whatever has the id by now.
Erase(c) ==
  /\ client[c].at = "erase"
  /\ entry' = None
  /\ Answer(c, IF client[c].op = "delete" /\ entry # None THEN "ok" ELSE "failed")
  /\ UNCHANGED <<draft, path, calls>>

-----------------------------------------------------------------------------
(* A source that is there: add(), inspect_onvif(), validate().             *)

AddSource(camera) ==
  /\ entry = None
  /\ entry' = NewEntry(0, camera)
  /\ UNCHANGED <<draft, path, client, calls>>

InspectBegins(c, camera) ==
  /\ entry # None
  /\ Begin(c, "inspect", "inspecting", [NoCall EXCEPT !.camera = camera])
  /\ UNCHANGED <<draft, entry, path>>

\* The source may be another one by now.  Capabilities and PTZ session are
\* replaced, the presets are forgotten, and the stream is handed over if there
\* is one.
InspectEnds(c) ==
  /\ At(c, "inspect", "inspecting")
  /\ \E r \in OnvifAnswers :
       LET insp == Inspect(client[c].camera, r) IN
       IF insp.ok /\ entry # None
       THEN /\ entry' = [entry EXCEPT !.insp = insp, !.presets = None,
                           !.camera = IF FirstProfile(insp) # 0 THEN insp.camera ELSE @]
            /\ To(c, "validate")
       ELSE Answer(c, "failed") /\ UNCHANGED entry
  /\ UNCHANGED <<draft, path, calls>>

ValidateBegins(c) ==
  /\ client[c].at = "validate"
  /\ IF entry = None THEN Answer(c, "failed") /\ UNCHANGED entry
     ELSE entry' = [entry EXCEPT !.valid = "validating"] /\ To(c, "validating")
  /\ UNCHANGED <<draft, path, calls>>

\* The result goes into the source that has the id by now.
ValidateEnds(c) ==
  /\ client[c].at = "validating"
  /\ \E r \in RtspAnswers :
       LET valid == Validate(r).valid IN
       IF entry = None THEN Answer(c, "failed") /\ UNCHANGED entry
       ELSE /\ entry' = [entry EXCEPT !.valid = IF valid THEN "validated" ELSE "failed"]
            /\ IF client[c].op = "complete" THEN To(c, IF valid THEN "register" ELSE "rollback")
               ELSE Answer(c, "ok")
  /\ UNCHANGED <<draft, path, calls>>

-----------------------------------------------------------------------------
(* PTZ.                                                                    *)

\* What each operation needs of the capabilities (move stands for its mode and
\* the axes it names), next to a PTZ session.
Needs == [move |-> {"ptz", "continuous"}, stop |-> {"ptz"},
          presets |-> {"ptz", "presets"}, goto |-> {"ptz", "presets"}]

\* ptz_context() and the checks after it, on what one lock shows.
CanDo(op) ==
  entry # None /\ entry.insp # None /\ HasSession(entry.insp) /\ Needs[op] \subseteq entry.insp.features

Refused(audit) == [NoCall EXCEPT !.answer = "failed", !.audit = audit]

\* A refusal is audited, that of a move's arguments too.
PtzBegins(c, op) ==
  /\ op \in {"move", "stop", "presets"}
  /\ \/ CanDo(op) /\ Begin(c, op, "sent", [NoCall EXCEPT !.insp = entry.insp, !.sent = TRUE])
     \/ (op = "move" \/ ~CanDo(op)) /\ Begin(c, op, "idle", Refused("failed"))
  /\ UNCHANGED <<draft, entry, path>>

\* goto_preset: the session and the token are read under one lock; a refusal is
\* not audited.
GotoBegins(c) ==
  /\ \/ /\ CanDo("goto") /\ entry.presets # None
        /\ Begin(c, "goto", "sent", [NoCall EXCEPT !.insp = entry.insp, !.sent = TRUE])
     \/ Begin(c, "goto", "idle", Refused(None))
  /\ UNCHANGED <<draft, entry, path>>

\* Mutant: a failure is not audited.
PtzEndsQuiet(c) ==
  LET call == client[c]
      audited(answer) == Answers(c, answer, answer) IN
  /\ call.at = "sent"
  /\ \/ Answer(c, "failed") /\ UNCHANGED entry
     \/ call.op # "presets" /\ audited("ok") /\ UNCHANGED entry
     \/ /\ call.op = "presets" /\ entry # None
        /\ entry' = [entry EXCEPT !.presets = call.insp.camera]
        /\ audited("ok")
     \/ /\ call.op = "presets" /\ entry = None
        /\ Answer(c, "failed") /\ UNCHANGED entry
  /\ UNCHANGED <<draft, path, calls>>

\* The camera answers, or fails.  The presets it lists go into the source that
\* has the id by now.
PtzEnds(c) ==
  LET call == client[c]
      audited(answer) == Answers(c, answer, answer) IN
  /\ call.at = "sent"
  /\ \/ audited("failed") /\ UNCHANGED entry
     \/ call.op # "presets" /\ audited("ok") /\ UNCHANGED entry
     \/ /\ call.op = "presets" /\ entry # None
        /\ entry' = [entry EXCEPT !.presets = call.insp.camera]
        /\ audited("ok")
     \/ /\ call.op = "presets" /\ entry = None
        /\ Answer(c, "failed") /\ UNCHANGED entry
  /\ UNCHANGED <<draft, path, calls>>

-----------------------------------------------------------------------------

\* A client goes away.
Drop(c) ==
  /\ client[c].at # "idle"
  /\ client' = [client EXCEPT ![c] = NoCall]
  /\ UNCHANGED <<draft, entry, path, calls>>

Complete(c) ==
  CompleteAdds(c) \/ RegisterBegins(c) \/ RegisterEnds(c) \/ CompleteEnds(c)
Ptz(c) == PtzEnds(c) \/ GotoBegins(c) \/ \E op \in DOMAIN Needs : PtzBegins(c, op)

Next ==
  \/ OnboardingDiscover
  \/ \E s \in DOMAIN draft : OnboardingInspect(s)
  \/ \E camera \in Cameras : AddSource(camera)
  \/ \E c \in Clients :
       \/ \E s \in DOMAIN draft : CompleteBegins(c, s)
       \/ \E camera \in Cameras : InspectBegins(c, camera)
       \/ Complete(c) \/ DeleteBegins(c) \/ RemovePath(c) \/ Erase(c)
       \/ InspectEnds(c) \/ ValidateBegins(c) \/ ValidateEnds(c)
       \/ Ptz(c) \/ Drop(c)

Spec == Init /\ [][Next]_vars

-----------------------------------------------------------------------------
(* Properties.                                                             *)

TypeOK ==
  /\ Len(draft) <= MaxSessions
  /\ \A s \in DOMAIN draft : draft[s] # None => draft[s].devices \subseteq Cameras
  /\ entry # None => /\ entry.camera \in Cameras /\ entry.presets \in Cameras \cup {None}
                     /\ entry.valid \in {"unknown", "validating", "validated", "failed"}
  /\ path \in Cameras \cup {None}
  /\ \A c \in Clients : client[c].answer \in {None, "ok", "failed"}

Answered(c, op, answer) == client[c].op = op /\ client[c].at = "idle" /\ client[c].answer = answer
Added(c) == entry # None /\ entry.owner = client[c].run

\* A completion that answered with a failure has taken back the source it
\* added, whoever validated, inspected or removed it meanwhile.
NoLeftover == \A c \in Clients : Answered(c, "complete", "failed") => ~Added(c)

\* The source of a completion that answered with success has its path at the
\* gateway, unless someone began to remove it.
SetupTruth == \A c \in Clients :
  Answered(c, "complete", "ok") /\ Added(c) => path # None \/ entry.unpathed

\* A PTZ command that went to a camera and was answered left an event with its
\* outcome, and so did one that was refused: all but a preset list whose source
\* went away while the camera answered, and a refused goto.
Audited == \A c \in Clients :
  client[c].op \in DOMAIN Needs /\ client[c].at = "idle" =>
    \/ client[c].audit = client[c].answer
    \/ /\ client[c].audit = None /\ client[c].answer = "failed"
       /\ client[c].op = IF client[c].sent THEN "presets" ELSE "goto"
=============================================================================
