------------------------- MODULE CameraSetupProofs -------------------------
(***************************************************************************)
(* Proofs about CameraSetup, for any clients, cameras and answers, and for *)
(* any number of sessions and calls: a completion that failed leaves       *)
(* nothing of its own behind, one that succeeded has its path, PTZ         *)
(* commands are audited, and everything kept has its type.                 *)
(***************************************************************************)
EXTENDS CameraSetup, SequenceTheorems, WellFoundedInduction, TLAPS

-----------------------------------------------------------------------------
(* What a step does to the calls.                                          *)

Fields == {"op", "at", "run", "session", "camera", "insp", "sent", "answer", "audit"}
EntryFields == {"owner", "camera", "valid", "insp", "presets", "unpathed"}

\* The model's functions and records have the fields they are used with.
Shapes ==
  /\ DOMAIN client = Clients
  /\ \A c \in Clients : DOMAIN client[c] = Fields
  /\ entry # None => DOMAIN entry = EntryFields

Others(c) == \A d \in Clients : d # c => client'[d] = client[d]
ShapeOf(c) == DOMAIN client' = Clients /\ \A d \in Clients : DOMAIN client'[d] = Fields

LEMMA ToMoves ==
  ASSUME Shapes, NEW c \in Clients, NEW at, To(c, at)
  PROVE  /\ Others(c) /\ ShapeOf(c)
         /\ client'[c].at = at
         /\ client'[c].op = client[c].op /\ client'[c].run = client[c].run
         /\ client'[c].camera = client[c].camera /\ client'[c].sent = client[c].sent
BY DEF To, Shapes, Fields, Others, ShapeOf

LEMMA AnswersClose ==
  ASSUME Shapes, NEW c \in Clients, NEW answer, NEW audit, Answers(c, answer, audit)
  PROVE  /\ Others(c) /\ ShapeOf(c)
         /\ client'[c].at = "idle"
         /\ client'[c].op = client[c].op /\ client'[c].run = client[c].run
         /\ client'[c].sent = client[c].sent
         /\ client'[c].answer = answer /\ client'[c].audit = audit
BY DEF Answers, NoCall, Shapes, Fields, Others, ShapeOf

LEMMA BeginOpens ==
  ASSUME Shapes, NEW c \in Clients, NEW op, NEW at, NEW call, DOMAIN call = Fields,
         Begin(c, op, at, call)
  PROVE  /\ Others(c) /\ ShapeOf(c)
         /\ client[c].at = "idle" /\ calls > 0 /\ calls' = calls - 1
         /\ client'[c].at = at /\ client'[c].op = op /\ client'[c].run = calls
         /\ client'[c].camera = call.camera /\ client'[c].sent = call.sent
         /\ client'[c].answer = call.answer /\ client'[c].audit = call.audit
BY DEF Begin, Shapes, Fields, Others, ShapeOf

LEMMA DropForgets ==
  ASSUME Shapes, NEW c \in Clients, Drop(c)
  PROVE  /\ Others(c) /\ ShapeOf(c)
         /\ client'[c].at = "idle" /\ client'[c].op = "none" /\ client'[c].run = 0
BY DEF Drop, NoCall, Shapes, Fields, Others, ShapeOf

-----------------------------------------------------------------------------
(* The steps of a call: it begins, moves on, is answered or is dropped.    *)

PtzOps == {"move", "stop", "presets", "goto"}

\* Where a call can be, by what it is.
Placed == \A c \in Clients :
  /\ client[c].at = "sent" => client[c].op \in PtzOps /\ client[c].sent = TRUE
  /\ client[c].op \in PtzOps => client[c].at \in {"sent", "idle"}
  /\ client[c].op = "none" => client[c].at = "idle"

AuditKept(answer, audit, op, sent) ==
  \/ audit = answer
  \/ audit = None /\ answer = "failed" /\ op = IF sent THEN "presets" ELSE "goto"

Same(c) == /\ client'[c].op = client[c].op /\ client'[c].run = client[c].run
           /\ client'[c].sent = client[c].sent

\* A call that begins and is not answered at once is a completion about to add
\* its source, or has no part in what follows.
Begins(c) ==
  /\ client[c].at = "idle" /\ calls > 0 /\ calls' = calls - 1
  /\ client'[c].run = calls
  /\ \/ client'[c].op = "complete" /\ client'[c].at = "add"
     \/ client'[c].op \in {"inspect", "delete"} /\ client'[c].at \in {"inspecting", "rollback"}
     \/ client'[c].op \in PtzOps /\ client'[c].at = "sent" /\ client'[c].sent = TRUE
     \/ /\ client'[c].op \in PtzOps /\ client'[c].at = "idle"
        /\ AuditKept(client'[c].answer, client'[c].audit, client'[c].op, client'[c].sent)
  /\ entry' = entry /\ path' = path

\* A completion that has its path was at the gateway before.
Moves(c) ==
  /\ Same(c) /\ calls' = calls
  /\ client[c].op \notin PtzOps \cup {"none"} /\ client'[c].at \notin {"add", "sent", "idle"}
  /\ client'[c].at = "finish" => At(c, "complete", "registering") /\ path' = client[c].camera

\* A completion fails without a source, or before it added one.
Closes(c) ==
  /\ Same(c) /\ calls' = calls
  /\ client[c].op # "none" /\ client'[c].at = "idle"
  /\ client[c].op = "complete" =>
       \/ /\ client'[c].answer = "failed"
          /\ entry' = None \/ (client[c].at = "add" /\ entry' = entry)
       \/ client'[c].answer = "ok" /\ client[c].at = "finish" /\ entry' = entry /\ path' = path
  /\ client[c].op \in PtzOps =>
       AuditKept(client'[c].answer, client'[c].audit, client[c].op, client[c].sent)

Drops(c) ==
  /\ calls' = calls /\ entry' = entry /\ path' = path
  /\ client'[c].at = "idle" /\ client'[c].op = "none" /\ client'[c].run = 0

CallStep(c) == Others(c) /\ ShapeOf(c) /\ (Begins(c) \/ Moves(c) \/ Closes(c) \/ Drops(c))

LEMMA NoCallShape ==
  /\ DOMAIN NoCall = Fields
  /\ NoCall.op = "none" /\ NoCall.at = "idle" /\ NoCall.run = 0 /\ NoCall.sent = FALSE
BY DEF NoCall, Fields

LEMMA StepCalls ==
  ASSUME Shapes, Placed, [Next]_vars
  PROVE  \/ client' = client /\ calls' = calls
         \/ \E c \in Clients : CallStep(c)
<1> USE DEF Answer, At, Same, Begins, Moves, Closes, Drops, CallStep, PtzOps
<1>1. CASE UNCHANGED vars
  BY <1>1 DEF vars
<1>2. CASE OnboardingDiscover \/ \E s \in DOMAIN draft : OnboardingInspect(s)
  BY <1>2 DEF OnboardingDiscover, OnboardingInspect
<1>3. CASE \E camera \in Cameras : AddSource(camera)
  BY <1>3 DEF AddSource
<1>4. ASSUME NEW c \in Clients, NEW s \in DOMAIN draft, CompleteBegins(c, s) PROVE CallStep(c)
  <2> DEFINE call == [NoCall EXCEPT !.session = s, !.camera = draft[s].insp.camera]
  <2>1. DOMAIN call = Fields
    BY NoCallShape
  <2>2. Begin(c, "complete", "add", call)
    BY <1>4 DEF CompleteBegins
  <2> HIDE DEF call
  <2> QED BY <1>4, <2>1, <2>2, BeginOpens DEF CompleteBegins
<1>5. ASSUME NEW c \in Clients, NEW camera \in Cameras, InspectBegins(c, camera) PROVE CallStep(c)
  <2> DEFINE call == [NoCall EXCEPT !.camera = camera]
  <2>1. DOMAIN call = Fields
    BY NoCallShape
  <2>2. Begin(c, "inspect", "inspecting", call)
    BY <1>5 DEF InspectBegins
  <2> HIDE DEF call
  <2> QED BY <1>5, <2>1, <2>2, BeginOpens DEF InspectBegins
<1>6. ASSUME NEW c \in Clients, DeleteBegins(c) PROVE CallStep(c)
  BY <1>6, NoCallShape, BeginOpens DEF DeleteBegins
<1>7. ASSUME NEW c \in Clients, CompleteAdds(c) PROVE CallStep(c)
  BY <1>7, ToMoves, AnswersClose DEF CompleteAdds
<1>8. ASSUME NEW c \in Clients, RegisterBegins(c) PROVE CallStep(c)
  <2>1. CASE To(c, "rollback")
    BY <1>8, <2>1, ToMoves DEF RegisterBegins
  <2>2. CASE client' = [client EXCEPT ![c].at = "registering", ![c].camera = entry.camera]
    <3>1. Others(c) /\ ShapeOf(c) /\ Same(c) /\ client'[c].at = "registering"
      BY <2>2 DEF Shapes, Fields, Others, ShapeOf
    <3> QED BY <1>8, <3>1 DEF RegisterBegins
  <2> QED BY <1>8, <2>1, <2>2 DEF RegisterBegins
<1>9. ASSUME NEW c \in Clients, RegisterEnds(c) PROVE CallStep(c)
  BY <1>9, ToMoves DEF RegisterEnds
<1>10. ASSUME NEW c \in Clients, CompleteEnds(c) PROVE CallStep(c)
  BY <1>10, AnswersClose DEF CompleteEnds
<1>11. ASSUME NEW c \in Clients, RemovePath(c) PROVE CallStep(c)
  BY <1>11, ToMoves, AnswersClose DEF RemovePath, Placed
<1>12. ASSUME NEW c \in Clients, Erase(c) PROVE CallStep(c)
  <2> DEFINE answer == IF client[c].op = "delete" /\ entry # None THEN "ok" ELSE "failed"
  <2>1. Answers(c, answer, None) /\ entry' = None /\ calls' = calls
    BY <1>12 DEF Erase
  <2>2. client[c].op \notin PtzOps \cup {"none"}
    BY <1>12 DEF Erase, Placed
  <2>3. client[c].op = "complete" => answer = "failed"
    OBVIOUS
  <2> HIDE DEF answer
  <2>4. /\ Others(c) /\ ShapeOf(c) /\ Same(c)
        /\ client'[c].at = "idle" /\ client'[c].answer = answer
    BY <2>1, AnswersClose
  <2>5. Closes(c)
    BY <2>1, <2>2, <2>3, <2>4
  <2> QED BY <2>4, <2>5
<1>13. ASSUME NEW c \in Clients, InspectEnds(c) PROVE CallStep(c)
  BY <1>13, ToMoves, AnswersClose DEF InspectEnds
<1>14. ASSUME NEW c \in Clients, ValidateBegins(c) PROVE CallStep(c)
  BY <1>14, ToMoves, AnswersClose DEF ValidateBegins, Placed
<1>15. ASSUME NEW c \in Clients, ValidateEnds(c) PROVE CallStep(c)
  BY <1>15, ToMoves, AnswersClose DEF ValidateEnds, Placed
<1>16. ASSUME NEW c \in Clients, NEW op, PtzBegins(c, op) \/ GotoBegins(c) PROVE CallStep(c)
  <2> DEFINE sent == [NoCall EXCEPT !.insp = entry.insp, !.sent = TRUE]
             quiet == Refused(None)
             told == Refused("failed")
  <2>1. /\ DOMAIN sent = Fields /\ DOMAIN quiet = Fields /\ DOMAIN told = Fields
        /\ sent.sent = TRUE
        /\ quiet.sent = FALSE /\ quiet.answer = "failed" /\ quiet.audit = None
        /\ told.answer = "failed" /\ told.audit = "failed"
    BY NoCallShape DEF Refused, Fields
  <2>2. entry' = entry /\ path' = path
    BY <1>16 DEF PtzBegins, GotoBegins
  <2>3. \/ /\ op \in {"move", "stop", "presets"}
           /\ Begin(c, op, "sent", sent) \/ Begin(c, op, "idle", told)
        \/ Begin(c, "goto", "sent", sent) \/ Begin(c, "goto", "idle", quiet)
    BY <1>16 DEF PtzBegins, GotoBegins
  <2> HIDE DEF sent, quiet, told
  <2>4. CASE op \in {"move", "stop", "presets"} /\ Begin(c, op, "sent", sent)
    BY <2>1, <2>2, <2>4, BeginOpens
  <2>5. CASE op \in {"move", "stop", "presets"} /\ Begin(c, op, "idle", told)
    BY <2>1, <2>2, <2>5, BeginOpens DEF AuditKept
  <2>6. CASE Begin(c, "goto", "sent", sent)
    BY <2>1, <2>2, <2>6, BeginOpens
  <2>7. CASE Begin(c, "goto", "idle", quiet)
    BY <2>1, <2>2, <2>7, BeginOpens DEF AuditKept
  <2> QED BY <2>3, <2>4, <2>5, <2>6, <2>7
<1>17. ASSUME NEW c \in Clients, PtzEnds(c) PROVE CallStep(c)
  <2>1. client[c].op \in PtzOps /\ client[c].sent = TRUE /\ calls' = calls
    BY <1>17 DEF PtzEnds, Placed
  <2>2. \/ Answers(c, "failed", "failed") \/ Answers(c, "ok", "ok")
        \/ Answers(c, "failed", None) /\ client[c].op = "presets"
    BY <1>17 DEF PtzEnds
  <2> QED BY <2>1, <2>2, AnswersClose DEF AuditKept
<1>18. ASSUME NEW c \in Clients, Drop(c) PROVE CallStep(c)
  BY <1>18, DropForgets DEF Drop
<1> QED
  BY ZenonT(30), <1>1, <1>2, <1>3, <1>4, <1>5, <1>6, <1>7, <1>8, <1>9, <1>10, <1>11, <1>12,
     <1>13, <1>14, <1>15, <1>16, <1>17, <1>18 DEF Next, Complete, Ptz

-----------------------------------------------------------------------------
(* What a step does to the source and to its path.                         *)

\* The source stays whose it was, or is new: nobody's, or that of a completion
\* that has just added it.
EntryStep ==
  entry' # None =>
    \/ entry # None /\ entry'.owner = entry.owner /\ (entry.unpathed => entry'.unpathed)
    \/ entry'.owner = 0
    \/ \E c \in Clients : /\ At(c, "complete", "add") /\ entry'.owner = client[c].run
                          /\ client'[c].op = "complete" /\ client'[c].at = "validate"

\* The path is taken away only from a source that someone began to remove.
PathStep == path' # None \/ path' = path \/ (entry' # None => entry'.unpathed)

Known ==
  /\ entry # None => entry.camera \in Cameras
  /\ \A c \in Clients :
       \/ client[c].op = "complete" /\ client[c].at \in {"add", "registering"}
       \/ client[c].op = "inspect" /\ client[c].at = "inspecting"
       => client[c].camera \in Cameras

LEMMA StepEntry ==
  ASSUME Shapes, Known, [Next]_vars
  PROVE  /\ EntryStep /\ PathStep
         /\ entry' # None => DOMAIN entry' = EntryFields
<1> USE DEF EntryStep, PathStep, Shapes, EntryFields
<1>1. CASE UNCHANGED <<entry, path>>
  BY <1>1
<1>2. CASE \E camera \in Cameras : AddSource(camera)
  BY <1>2 DEF AddSource, NewEntry
<1>3. ASSUME NEW c \in Clients, CompleteAdds(c)
      PROVE  /\ EntryStep /\ UNCHANGED path
             /\ entry' # None => DOMAIN entry' = EntryFields
  <2>1. CASE entry' = entry
    BY <1>3, <2>1 DEF CompleteAdds
  <2>2. CASE entry' = NewEntry(client[c].run, client[c].camera) /\ To(c, "validate")
    BY <1>3, <2>2, ToMoves DEF CompleteAdds, NewEntry, At
  <2> QED BY <1>3, <2>1, <2>2 DEF CompleteAdds
<1>4. ASSUME NEW c \in Clients, RegisterEnds(c) PROVE UNCHANGED entry /\ PathStep
  BY <1>4, SetupAssumption DEF RegisterEnds, At, Known
<1>5. ASSUME NEW c \in Clients, RemovePath(c)
      PROVE  entry' # None => /\ entry # None /\ entry'.owner = entry.owner
                              /\ path' = path \/ entry'.unpathed
                              /\ entry.unpathed => entry'.unpathed
                              /\ DOMAIN entry' = EntryFields
  BY <1>5 DEF RemovePath
<1>6. ASSUME NEW c \in Clients,
             \/ InspectEnds(c) \/ ValidateBegins(c) \/ ValidateEnds(c)
             \/ PtzEnds(c) \/ Erase(c)
      PROVE  /\ UNCHANGED path
             /\ entry' # None => /\ entry # None /\ entry'.owner = entry.owner
                                 /\ entry'.unpathed = entry.unpathed
                                 /\ DOMAIN entry' = EntryFields
  BY <1>6 DEF InspectEnds, ValidateBegins, ValidateEnds, PtzEnds, Erase
<1> QED
  BY <1>1, <1>2, <1>3, <1>4, <1>5, <1>6
     DEF Next, vars, OnboardingDiscover, OnboardingInspect, Complete, Ptz, CompleteBegins, RegisterBegins,
         CompleteEnds, DeleteBegins, InspectBegins, AddSource, PtzBegins, GotoBegins, Drop

-----------------------------------------------------------------------------
(* The invariant.                                                          *)

\* Calls are numbered downwards, and no two clients have the same number; a
\* source belongs to a completion that began, or to nobody.
Numbered ==
  /\ calls \in Nat
  /\ \A c \in Clients : IF client[c].op = "none" THEN client[c].run = 0
                        ELSE client[c].run \in Nat /\ client[c].run > calls
  /\ \A c, d \in Clients : client[c].op # "none" /\ client[c].run = client[d].run => c = d
  /\ entry # None => entry.owner \in Nat /\ (entry.owner = 0 \/ entry.owner > calls)

\* A completion that failed, or has yet to add its source, has none.
Clean == \A c \in Clients :
  /\ client[c].op = "complete"
  /\ client[c].at = "add" \/ (client[c].at = "idle" /\ client[c].answer = "failed")
  => ~Added(c)

\* The path of a completion that is about to succeed is there as well.
Pathed == \A c \in Clients :
  /\ client[c].op = "complete"
  /\ client[c].at = "finish" \/ (client[c].at = "idle" /\ client[c].answer = "ok")
  /\ Added(c)
  => path # None \/ entry.unpathed

Told == \A c \in Clients : client[c].op \in PtzOps /\ client[c].at = "idle" =>
  AuditKept(client[c].answer, client[c].audit, client[c].op, client[c].sent)

LEMMA StepPlaced ==
  ASSUME Shapes, Placed, Told, [Next]_vars
  PROVE  Placed' /\ Told'
<1>1. CASE client' = client
  BY <1>1 DEF Placed, Told
<1>2. ASSUME NEW c \in Clients, CallStep(c) PROVE Placed' /\ Told'
  <2>1. ASSUME NEW d \in Clients, d # c
        PROVE  client'[d] = client[d]
    BY <1>2, <2>1 DEF CallStep, Others
  <2>2. /\ client'[c].at = "sent" => client'[c].op \in PtzOps /\ client'[c].sent = TRUE
        /\ client'[c].op \in PtzOps => client'[c].at \in {"sent", "idle"}
        /\ client'[c].op = "none" => client'[c].at = "idle"
        /\ client'[c].op \in PtzOps /\ client'[c].at = "idle" =>
             AuditKept(client'[c].answer, client'[c].audit, client'[c].op, client'[c].sent)
    BY <1>2 DEF CallStep, Begins, Moves, Closes, Drops, Same, PtzOps
  <2> QED BY <2>1, <2>2 DEF Placed, Told
<1> QED BY <1>1, <1>2, StepCalls

LEMMA StepNumbered ==
  ASSUME Shapes, Placed, Known, Numbered, [Next]_vars
  PROVE  Numbered'
<1>1. CASE client' = client /\ calls' = calls
  BY <1>1, StepEntry DEF Numbered, EntryStep, At
<1>2. ASSUME NEW c \in Clients, CallStep(c) PROVE Numbered'
  <2>1. ASSUME NEW d \in Clients, d # c
        PROVE  client'[d] = client[d]
    BY <1>2, <2>1 DEF CallStep, Others
  <2>2. calls' \in Nat /\ calls' <= calls
    BY <1>2 DEF CallStep, Begins, Moves, Closes, Drops, Numbered
  <2>3. IF client'[c].op = "none" THEN client'[c].run = 0
        ELSE /\ client'[c].run \in Nat /\ client'[c].run > calls'
             /\ \/ client'[c].run = calls
                \/ client[c].op # "none" /\ client'[c].run = client[c].run
    BY <1>2 DEF CallStep, Begins, Moves, Closes, Drops, Numbered, Same, PtzOps
  <2>4. ASSUME NEW d \in Clients, d # c, client'[d].run = client'[c].run
        PROVE  client'[c].op = "none" /\ client'[d].op = "none"
    BY <1>2, <2>1, <2>2, <2>3, <2>4 DEF Numbered
  <2>5. entry' # None => entry'.owner \in Nat /\ (entry'.owner = 0 \/ entry'.owner > calls')
    BY <2>2, StepEntry DEF EntryStep, Numbered, At
  <2>6. \A d, e \in Clients : client'[d].op # "none" /\ client'[d].run = client'[e].run => d = e
    BY <2>1, <2>4 DEF Numbered
  <2> QED BY <2>1, <2>2, <2>3, <2>5, <2>6 DEF Numbered
<1> QED BY <1>1, <1>2, StepCalls

\* A call keeps a source that it added, and gets none but by adding it.
LEMMA OwnerStays ==
  ASSUME Shapes, Placed, Known, Numbered, [Next]_vars,
         NEW c \in Clients, client[c].op # "none", client'[c].run = client[c].run, Added(c)'
  PROVE  \/ Added(c) /\ (entry.unpathed => entry'.unpathed)
         \/ /\ At(c, "complete", "add")
            /\ client'[c].op = "complete" /\ client'[c].at = "validate"
BY StepEntry DEF EntryStep, Numbered, Added, At

LEMMA StepClean ==
  ASSUME Shapes, Placed, Known, Numbered, Clean, [Next]_vars
  PROVE  Clean'
<1> SUFFICES ASSUME NEW c \in Clients, client'[c].op = "complete",
                    client'[c].at = "add" \/ (client'[c].at = "idle" /\ client'[c].answer = "failed"),
                    Added(c)'
             PROVE  FALSE
  BY DEF Clean
<1>1. CASE client'[c] = client[c]
  BY <1>1, OwnerStays DEF Clean, At
<1>2. CASE CallStep(c)
  <2>1. CASE Begins(c)
    BY <2>1 DEF Begins, Numbered, Added, PtzOps
  <2>2. CASE Closes(c)
    BY <2>2, OwnerStays DEF Closes, Same, Clean, Added
  <2> QED BY <1>2, <2>1, <2>2 DEF CallStep, Moves, Drops
<1> QED BY <1>1, <1>2, StepCalls DEF CallStep, Others

LEMMA StepPathed ==
  ASSUME Shapes, Placed, Known, Numbered, Pathed, [Next]_vars
  PROVE  Pathed'
<1> SUFFICES ASSUME NEW c \in Clients, client'[c].op = "complete",
                    client'[c].at = "finish" \/ (client'[c].at = "idle" /\ client'[c].answer = "ok"),
                    Added(c)'
             PROVE  path' # None \/ entry'.unpathed
  BY DEF Pathed
<1>1. ASSUME Added(c) => path # None \/ entry.unpathed,
             client[c].op # "none", client'[c].run = client[c].run
      PROVE  path' # None \/ entry'.unpathed
  BY <1>1, OwnerStays, StepEntry DEF PathStep, Added
<1>2. CASE client'[c] = client[c]
  BY <1>1, <1>2 DEF Pathed
<1>3. CASE CallStep(c)
  <2>1. CASE Moves(c)
    BY <2>1, SetupAssumption DEF Moves, At, Known
  <2>2. CASE Closes(c)
    BY <1>1, <2>2 DEF Closes, Same, Pathed
  <2> QED BY <1>3, <2>1, <2>2 DEF CallStep, Begins, Drops, PtzOps
<1> QED BY <1>2, <1>3, StepCalls DEF CallStep, Others

LEMMA StepShapes ==
  ASSUME Shapes, Placed, Known, [Next]_vars
  PROVE  Shapes'
BY StepCalls, StepEntry DEF Shapes, CallStep, ShapeOf

-----------------------------------------------------------------------------
(* The cameras of the source, of the calls about it, and of the sessions.  *)

LEMMA InspectsCamera ==
  ASSUME NEW camera, NEW r, Inspect(camera, r).ok
  PROVE  Inspect(camera, r).camera = camera
BY DEF Inspect, Failed

Inspected == \A s \in DOMAIN draft : draft[s] # None =>
  /\ DOMAIN draft[s] = {"devices", "insp"}
  /\ draft[s].insp # None => draft[s].insp.camera \in Cameras

Drafts == draft \in Seq({draft[s] : s \in DOMAIN draft}) /\ Inspected

LEMMA OwnRange ==
  ASSUME NEW S, NEW q \in Seq(S)
  PROVE  q \in Seq({q[i] : i \in DOMAIN q})
<1>1. Len(q) \in Nat /\ q \in [1..Len(q) -> S]
  BY LenProperties
<1>2. q \in [1..Len(q) -> {q[i] : i \in DOMAIN q}]
  BY <1>1
<1> QED BY <1>1, <1>2, SeqDef

LEMMA StepDrafts ==
  ASSUME Drafts, Known, [Next]_vars
  PROVE  Drafts'
<1> DEFINE S == {draft[s] : s \in DOMAIN draft}
<1>1. /\ draft \in Seq(S) /\ Len(draft) \in Nat /\ DOMAIN draft = 1..Len(draft)
  BY LenProperties DEF Drafts
<1>2. ASSUME NEW devices, draft' = Append(draft, [devices |-> devices, insp |-> None])
      PROVE  Drafts'
  <2> DEFINE e == [devices |-> devices, insp |-> None]
  <2>1. draft \in Seq(S \cup {e})
    BY <1>1, SeqMonotonic
  <2>2. draft' \in Seq(S \cup {e})
    BY <1>2, <2>1
  <2>3. \A s \in DOMAIN draft' : draft'[s] = e \/ (s \in DOMAIN draft /\ draft'[s] = draft[s])
    BY <1>1, <1>2, <2>1
  <2>4. Inspected'
    BY <2>3 DEF Drafts, Inspected
  <2> QED BY <2>2, <2>4, OwnRange DEF Drafts
<1>3. ASSUME NEW s \in DOMAIN draft, NEW e, draft' = [draft EXCEPT ![s] = e],
             e # None => /\ DOMAIN e = {"devices", "insp"}
                         /\ e.insp # None => e.insp.camera \in Cameras
      PROVE  Drafts'
  <2>1. draft \in Seq(S \cup {e})
    BY <1>1, SeqMonotonic
  <2>2. draft' \in Seq(S \cup {e})
    BY <1>1, <1>3, <2>1, ExceptSeq
  <2>3. Inspected'
    BY <1>1, <1>3 DEF Drafts, Inspected
  <2> QED BY <2>2, <2>3, OwnRange DEF Drafts
<1>4. CASE UNCHANGED draft
  BY <1>4 DEF Drafts, Inspected
<1>5. CASE OnboardingDiscover
  BY <1>2, <1>5 DEF OnboardingDiscover
<1>6. ASSUME NEW s \in DOMAIN draft, OnboardingInspect(s) PROVE Drafts'
  <2>1. PICK camera \in Cameras, r \in OnvifAnswers :
          /\ Inspect(camera, r).ok
          /\ draft' = [draft EXCEPT ![s].insp = Inspect(camera, r)]
    BY <1>6 DEF OnboardingInspect
  <2> DEFINE insp == Inspect(camera, r)
             e == [draft[s] EXCEPT !.insp = insp]
  <2>2. insp.camera \in Cameras
    BY <2>1, InspectsCamera
  <2> HIDE DEF insp
  <2>3. draft' = [draft EXCEPT ![s] = e]
    BY <2>1 DEF insp
  <2>4. DOMAIN e = {"devices", "insp"} /\ e.insp = insp
    BY <1>6 DEF Drafts, Inspected, OnboardingInspect
  <2> HIDE DEF e
  <2> QED BY <1>3, <2>2, <2>3, <2>4
<1>7. ASSUME NEW c \in Clients, CompleteEnds(c) PROVE Drafts'
  <2>1. CASE client[c].session \in DOMAIN draft
    BY <1>3, <1>7, <2>1 DEF CompleteEnds
  <2>2. CASE client[c].session \notin DOMAIN draft
    <3>1. draft' = draft
      BY <1>1, <1>7, <2>2 DEF CompleteEnds
    <3> QED BY <1>4, <3>1
  <2> QED BY <2>1, <2>2
<1> QED
  BY <1>4, <1>5, <1>6, <1>7
     DEF Next, vars, AddSource, CompleteBegins, InspectBegins, Complete, CompleteAdds,
         RegisterBegins, RegisterEnds, DeleteBegins, RemovePath, Erase, InspectEnds, ValidateBegins, ValidateEnds, Ptz, PtzEnds,
         GotoBegins, PtzBegins, Drop

\* What Known says of one call, after a step.
CameraKnown(c) ==
  \/ client'[c].op = "complete" /\ client'[c].at \in {"add", "registering"}
  \/ client'[c].op = "inspect" /\ client'[c].at = "inspecting"
  => client'[c].camera \in Cameras

LEMMA StepKnown ==
  ASSUME Shapes, Placed, Known, Drafts, [Next]_vars
  PROVE  Known'
<1>1. CASE UNCHANGED <<entry, client>>
  BY <1>1 DEF Known
<1>2. CASE \E camera \in Cameras : AddSource(camera)
  BY <1>2 DEF AddSource, NewEntry, Known
<1>3. ASSUME NEW c \in Clients, Others(c), CameraKnown(c), entry' # None => entry'.camera \in Cameras
      PROVE  Known'
  BY <1>3 DEF Others, CameraKnown, Known
<1>4. ASSUME NEW c \in Clients, NEW s \in DOMAIN draft, CompleteBegins(c, s) PROVE Known'
  <2> DEFINE call == [NoCall EXCEPT !.session = s, !.camera = draft[s].insp.camera]
  <2>1. DOMAIN call = Fields /\ call.camera = draft[s].insp.camera
    BY NoCallShape DEF Fields
  <2>2. Begin(c, "complete", "add", call) /\ entry' = entry
    BY <1>4 DEF CompleteBegins
  <2>3. call.camera \in Cameras
    BY <1>4, <2>1 DEF CompleteBegins, Drafts, Inspected
  <2> HIDE DEF call
  <2>4. Others(c) /\ client'[c].camera = call.camera
    BY <2>1, <2>2, BeginOpens
  <2> QED BY <1>3, <2>2, <2>3, <2>4 DEF Known, CameraKnown
<1>5. ASSUME NEW c \in Clients, NEW camera \in Cameras, InspectBegins(c, camera) PROVE Known'
  <2> DEFINE call == [NoCall EXCEPT !.camera = camera]
  <2>1. DOMAIN call = Fields /\ call.camera = camera
    BY NoCallShape DEF Fields
  <2>2. Begin(c, "inspect", "inspecting", call) /\ entry' = entry
    BY <1>5 DEF InspectBegins
  <2> HIDE DEF call
  <2>3. Others(c) /\ client'[c].camera = call.camera
    BY <2>1, <2>2, BeginOpens
  <2> QED BY <1>3, <2>1, <2>2, <2>3 DEF Known, CameraKnown
<1>6. ASSUME NEW c \in Clients, RegisterBegins(c) PROVE Known'
  <2>1. CASE To(c, "rollback")
    BY <1>3, <1>6, <2>1, ToMoves DEF RegisterBegins, Known, CameraKnown, At
  <2>2. CASE /\ client' = [client EXCEPT ![c].at = "registering", ![c].camera = entry.camera]
             /\ entry # None
    <3>1. Others(c) /\ client'[c].camera = entry.camera
      BY <2>2 DEF Shapes, Fields, Others
    <3> QED BY <1>3, <1>6, <2>2, <3>1 DEF RegisterBegins, Known, CameraKnown
  <2> QED BY <1>6, <2>1, <2>2 DEF RegisterBegins
<1>7. ASSUME NEW c \in Clients, CompleteAdds(c) PROVE Known'
  <2>1. entry' # None => entry'.camera \in Cameras
    BY <1>7 DEF CompleteAdds, NewEntry, Known, At
  <2>2. To(c, "validate") \/ Answers(c, "failed", None)
    BY <1>7 DEF CompleteAdds, Answer
  <2>3. Others(c) /\ client'[c].at \in {"validate", "idle"}
    BY <2>2, ToMoves, AnswersClose
  <2> QED BY <1>3, <2>1, <2>3 DEF CameraKnown
<1>8. ASSUME NEW c \in Clients, InspectEnds(c) PROVE Known'
  <2>1. PICK r \in OnvifAnswers :
          LET insp == Inspect(client[c].camera, r) IN
          IF insp.ok /\ entry # None
          THEN /\ entry' = [entry EXCEPT !.insp = insp, !.presets = None,
                              !.camera = IF FirstProfile(insp) # 0 THEN insp.camera ELSE @]
               /\ To(c, "validate")
          ELSE Answer(c, "failed") /\ UNCHANGED entry
    BY <1>8 DEF InspectEnds
  <2> DEFINE insp == Inspect(client[c].camera, r)
  <2>2. insp.ok => insp.camera \in Cameras
    BY <1>8, InspectsCamera DEF InspectEnds, At, Known
  <2> HIDE DEF insp
  <2>3. entry' # None => entry'.camera \in Cameras
    BY <2>1, <2>2 DEF insp, Known, Shapes, EntryFields
  <2>4. To(c, "validate") \/ Answers(c, "failed", None)
    BY <2>1 DEF Answer
  <2>5. Others(c) /\ client'[c].at \in {"validate", "idle"}
    BY <2>4, ToMoves, AnswersClose
  <2> QED BY <1>3, <2>3, <2>5 DEF CameraKnown
<1>9. ASSUME NEW c \in Clients,
             \/ RegisterEnds(c) \/ CompleteEnds(c) \/ DeleteBegins(c) \/ RemovePath(c) \/ Erase(c)
             \/ ValidateBegins(c) \/ ValidateEnds(c) \/ PtzEnds(c) \/ Drop(c)
             \/ GotoBegins(c) \/ \E op \in DOMAIN Needs : PtzBegins(c, op)
      PROVE  Known'
  <2>1. entry' # None => entry # None /\ entry'.camera = entry.camera
    BY <1>9 DEF RegisterEnds, CompleteEnds, DeleteBegins, RemovePath, Erase, ValidateBegins,
                ValidateEnds, PtzEnds, Drop, GotoBegins, PtzBegins, Shapes, EntryFields
  <2>2. Others(c) /\ (client'[c].op \in PtzOps \/ client'[c].at \notin {"add", "registering", "inspecting"})
    <3>1. CASE \/ RegisterEnds(c) \/ CompleteEnds(c) \/ RemovePath(c) \/ Erase(c) \/ ValidateBegins(c)
               \/ ValidateEnds(c) \/ PtzEnds(c)
      <4>1. \/ \E at \in {"finish", "rollback", "erase", "validating", "register"} : To(c, at)
            \/ \E answer, audit \in {"ok", "failed", None} : Answers(c, answer, audit)
        BY <3>1 DEF RegisterEnds, CompleteEnds, RemovePath, Erase, ValidateBegins, ValidateEnds,
                    PtzEnds, Answer
      <4> QED BY <4>1, ToMoves, AnswersClose
    <3>2. CASE DeleteBegins(c)
      BY <3>2, NoCallShape, BeginOpens DEF DeleteBegins
    <3>3. CASE Drop(c)
      BY <3>3, DropForgets
    <3>4. CASE GotoBegins(c) \/ \E op \in DOMAIN Needs : PtzBegins(c, op)
      <4> DEFINE sent == [NoCall EXCEPT !.insp = entry.insp, !.sent = TRUE]
      <4>1. DOMAIN sent = Fields /\ DOMAIN Refused(None) = Fields /\ DOMAIN Refused("failed") = Fields
        BY NoCallShape DEF Refused
      <4>2. \E op \in PtzOps, at \in {"sent", "idle"}, call \in {sent, Refused(None), Refused("failed")} :
              Begin(c, op, at, call)
        BY <3>4 DEF GotoBegins, PtzBegins, PtzOps
      <4> HIDE DEF sent
      <4> QED BY <4>1, <4>2, BeginOpens
    <3> QED BY <1>9, <3>1, <3>2, <3>3, <3>4
  <2> QED BY <1>3, <2>1, <2>2 DEF Known, CameraKnown, PtzOps
<1>10. CASE OnboardingDiscover \/ \E s \in DOMAIN draft : OnboardingInspect(s)
  BY <1>1, <1>10 DEF OnboardingDiscover, OnboardingInspect
<1> QED
  BY <1>1, <1>2, <1>4, <1>5, <1>6, <1>7, <1>8, <1>9, <1>10 DEF Next, vars, Complete, Ptz

-----------------------------------------------------------------------------
(* The theorems.                                                           *)

IInv == /\ Shapes /\ Placed /\ Known /\ Drafts /\ Numbered
        /\ Clean /\ Pathed /\ Told

LEMMA InitIInv == Init => IInv
<1> SUFFICES ASSUME Init PROVE IInv
  OBVIOUS
<1>1. /\ \A c \in Clients : client[c] = NoCall
      /\ DOMAIN client = Clients /\ entry = None /\ calls \in Nat /\ draft = <<>>
  BY SetupAssumption DEF Init
<1>2. Drafts
  <2>1. DOMAIN draft = {} /\ draft \in Seq({draft[s] : s \in DOMAIN draft})
    BY <1>1
  <2> QED BY <2>1 DEF Drafts, Inspected
<1>3. Shapes /\ Placed /\ Known /\ Numbered /\ Clean /\ Pathed /\ Told
  <2>1. \A c \in Clients : /\ client[c].op = "none" /\ client[c].at = "idle" /\ client[c].run = 0
                           /\ DOMAIN client[c] = Fields
    BY <1>1, NoCallShape
  <2> QED BY <1>1, <2>1 DEF Shapes, Placed, Known, Numbered, Clean, Pathed, Told, PtzOps
<1> QED BY <1>2, <1>3 DEF IInv

LEMMA StepIInv == IInv /\ [Next]_vars => IInv'
BY StepShapes, StepPlaced, StepKnown, StepDrafts, StepNumbered, StepClean, StepPathed DEF IInv

\* A completion that answered with a failure leaves no source of its own,
\* whatever others validated, inspected or removed meanwhile.
THEOREM FailuresTakenBack == Spec => []NoLeftover
<1>1. IInv => NoLeftover
  BY DEF IInv, Clean, NoLeftover, Answered
<1> QED BY <1>1, InitIInv, StepIInv, PTL DEF Spec

\* The source of a completion that answered with success has its path at the
\* gateway, until someone begins to remove it.
THEOREM SuccessHasPath == Spec => []SetupTruth
<1>1. IInv => SetupTruth
  BY DEF IInv, Pathed, SetupTruth, Answered
<1> QED BY <1>1, InitIInv, StepIInv, PTL DEF Spec

\* Every PTZ command that was answered is audited, but for the two cases that
\* the property names.
THEOREM CommandsAudited == Spec => []Audited
<1>1. IInv => Audited
  BY DEF IInv, Told, Audited, AuditKept, Needs, PtzOps
<1> QED BY <1>1, InitIInv, StepIInv, PTL DEF Spec

-----------------------------------------------------------------------------
(* Types.                                                                  *)

SessionTypes ==
  /\ Len(draft) <= MaxSessions
  /\ \A s \in DOMAIN draft : draft[s] # None => draft[s].devices \subseteq Cameras

InspectionTypes == entry # None =>
  /\ entry.insp # None => entry.insp.camera \in Cameras
  /\ entry.presets \in Cameras \cup {None}
  /\ entry.valid \in {"unknown", "validating", "validated", "failed"}

CallTypes == \A c \in Clients :
  /\ client[c].answer \in {None, "ok", "failed"}
  /\ client[c].at = "sent" => client[c].insp.camera \in Cameras

LEMMA LeastNumber ==
  ASSUME NEW S \in SUBSET Nat, S # {}
  PROVE  Min(S) \in S /\ \A x \in S : Min(S) <= x
<1> DEFINE less == {p \in Nat \X Nat : p[1] < p[2]}
<1>1. IsWellFoundedOn(less, Nat)
  BY NatLessThanWellFounded DEF OpToRel
<1> HIDE DEF less
<1>3. PICK x \in S : \A y \in S : ~(<<y, x>> \in less)
  BY <1>1, WFMin
<1>2. ASSUME NEW y \in S PROVE x <= y
  <2>1. x \in Nat /\ y \in Nat
    OBVIOUS
  <2>2. y < x => <<y, x>> \in less
    BY <2>1 DEF less
  <2> QED BY <1>3, <2>1, <2>2
<1> QED BY <1>2 DEF Min

\* The devices a search finds are cameras.
LEMMA DevicesAreCameras ==
  ASSUME NEW heard \in Searches, NEW answers, Discover(heard, answers).ok
  PROVE  Discover(heard, answers).devices \subseteq Cameras
<1> DEFINE asked(i) == Inspect(heard[i].camera, answers[heard[i].camera])
           bad == {i \in Heard(heard) : ~asked(i).ok}
<1>1. heard \in Seq([text : BOOLEAN, camera : Cameras \cup {0}])
  BY SetupAssumption
<1>2. bad \subseteq Nat /\ \A i \in Heard(heard) : heard[i].camera \in Cameras
  <2>1. DOMAIN heard \subseteq Nat
    BY <1>1, LenProperties
  <2>2. \A i \in DOMAIN heard : heard[i] \in [text : BOOLEAN, camera : Cameras \cup {0}]
    <3> DEFINE Datagrams == [text : BOOLEAN, camera : Cameras \cup {0}]
    <3>1. heard \in Seq(Datagrams)
      BY <1>1
    <3> HIDE DEF Datagrams
    <3>2. \A i \in DOMAIN heard : heard[i] \in Datagrams
      BY <3>1
    <3> QED BY <3>2 DEF Datagrams
  <2> QED BY <2>1, <2>2 DEF Heard
<1>3. bad # {} => ~asked(Min(bad)).ok
  BY <1>2, LeastNumber
<1>4. Discover(heard, answers) =
        IF \E i \in DOMAIN heard : ~heard[i].text THEN Failed("MalformedSoap")
        ELSE IF bad # {} THEN asked(Min(bad))
        ELSE [ok |-> TRUE, devices |-> {heard[i].camera : i \in Heard(heard)}]
  BY DEF Discover
<1> HIDE DEF asked, bad
<1> QED BY <1>2, <1>3, <1>4 DEF Failed

LEMMA StepSessions ==
  ASSUME Drafts, SessionTypes, [Next]_vars
  PROVE  SessionTypes'
<1> DEFINE S == {draft[s] : s \in DOMAIN draft}
<1>1. /\ draft \in Seq(S) /\ Len(draft) \in Nat /\ DOMAIN draft = 1..Len(draft)
      /\ MaxSessions \in Nat
  BY LenProperties, SetupAssumption DEF Drafts
<1>2. CASE UNCHANGED draft
  BY <1>2 DEF SessionTypes
<1>3. CASE OnboardingDiscover
  <2>1. PICK heard \in Searches, answers \in [Cameras -> OnvifAnswers] :
          /\ Discover(heard, answers).ok
          /\ draft' = Append(draft, [devices |-> Discover(heard, answers).devices, insp |-> None])
    BY <1>3 DEF OnboardingDiscover
  <2> DEFINE devices == Discover(heard, answers).devices
             e == [devices |-> devices, insp |-> None]
  <2>2. devices \subseteq Cameras
    BY <2>1, DevicesAreCameras
  <2> HIDE DEF devices
  <2>3. draft \in Seq(S \cup {e})
    BY <1>1, SeqMonotonic
  <2>4. draft' = Append(draft, e)
    BY <2>1 DEF devices
  <2>5. /\ Len(draft') = Len(draft) + 1
        /\ \A s \in DOMAIN draft' : draft'[s] = e \/ (s \in DOMAIN draft /\ draft'[s] = draft[s])
    BY <1>1, <2>3, <2>4
  <2>6. Len(draft) < MaxSessions
    BY <1>3 DEF OnboardingDiscover
  <2> QED BY <1>1, <2>2, <2>5, <2>6 DEF SessionTypes
<1>4. ASSUME NEW s \in DOMAIN draft, NEW e, draft' = [draft EXCEPT ![s] = e],
             e # None => draft[s] # None /\ e.devices = draft[s].devices
      PROVE  SessionTypes'
  <2>1. draft \in Seq(S \cup {e})
    BY <1>1, SeqMonotonic
  <2>2. draft' \in Seq(S \cup {e}) /\ Len(draft') = Len(draft)
    BY <1>1, <1>4, <2>1, ExceptSeq
  <2> QED BY <1>1, <1>4, <2>2 DEF SessionTypes
<1>5. ASSUME NEW s \in DOMAIN draft, OnboardingInspect(s) PROVE SessionTypes'
  <2>1. PICK camera \in Cameras, r \in OnvifAnswers :
          draft' = [draft EXCEPT ![s].insp = Inspect(camera, r)]
    BY <1>5 DEF OnboardingInspect
  <2> DEFINE insp == Inspect(camera, r)
             e == [draft[s] EXCEPT !.insp = insp]
  <2> HIDE DEF insp
  <2>2. draft' = [draft EXCEPT ![s] = e]
    BY <2>1 DEF insp
  <2>3. e.devices = draft[s].devices /\ draft[s] # None
    BY <1>5 DEF Drafts, Inspected, OnboardingInspect
  <2> HIDE DEF e
  <2> QED BY <1>4, <2>2, <2>3
<1>6. ASSUME NEW c \in Clients, CompleteEnds(c) PROVE SessionTypes'
  <2>1. CASE client[c].session \in DOMAIN draft
    BY <1>4, <1>6, <2>1 DEF CompleteEnds
  <2>2. CASE client[c].session \notin DOMAIN draft
    <3>1. draft' = draft
      BY <1>1, <1>6, <2>2 DEF CompleteEnds
    <3> QED BY <1>2, <3>1
  <2> QED BY <2>1, <2>2
<1> QED
  BY <1>2, <1>3, <1>5, <1>6
     DEF Next, vars, AddSource, CompleteBegins, InspectBegins, Complete, CompleteAdds,
         RegisterBegins, RegisterEnds, DeleteBegins, RemovePath, Erase, InspectEnds,
         ValidateBegins, ValidateEnds, Ptz, PtzEnds, GotoBegins, PtzBegins, Drop

LEMMA StepPath ==
  ASSUME Known, path \in Cameras \cup {None}, [Next]_vars
  PROVE  path' \in Cameras \cup {None}
<1>1. ASSUME NEW c \in Clients, RegisterEnds(c) PROVE path' \in Cameras \cup {None}
  BY <1>1 DEF RegisterEnds, At, Known
<1>2. ASSUME NEW c \in Clients, RemovePath(c) PROVE path' \in Cameras \cup {None}
  BY <1>2 DEF RemovePath
<1> QED
  BY <1>1, <1>2
     DEF Next, vars, OnboardingDiscover, OnboardingInspect, AddSource, CompleteBegins,
         InspectBegins, Complete, CompleteAdds, RegisterBegins, CompleteEnds, DeleteBegins,
         Erase, InspectEnds, ValidateBegins, ValidateEnds, Ptz, PtzEnds, GotoBegins,
         PtzBegins, Drop

LEMMA StepInspections ==
  ASSUME Shapes, Known, InspectionTypes, CallTypes, Placed, [Next]_vars
  PROVE  InspectionTypes'
<1> USE DEF Shapes, EntryFields
<1>1. CASE entry' \in {entry, None}
  BY <1>1 DEF InspectionTypes
<1>2. ASSUME NEW owner, NEW camera, entry' = NewEntry(owner, camera) PROVE InspectionTypes'
  BY <1>2 DEF InspectionTypes, NewEntry
<1>3. ASSUME NEW c \in Clients, InspectEnds(c) PROVE InspectionTypes'
  <2>1. PICK r \in OnvifAnswers :
          LET insp == Inspect(client[c].camera, r) IN
          \/ /\ insp.ok /\ entry # None
             /\ entry' = [entry EXCEPT !.insp = insp, !.presets = None,
                                       !.camera = IF FirstProfile(insp) # 0 THEN insp.camera ELSE @]
          \/ UNCHANGED entry
    BY <1>3 DEF InspectEnds
  <2> DEFINE insp == Inspect(client[c].camera, r)
  <2>2. insp.ok => insp.camera \in Cameras
    BY <1>3, InspectsCamera DEF InspectEnds, At, Known
  <2> HIDE DEF insp
  <2>3. CASE entry' = entry
    BY <1>1, <2>3
  <2>4. CASE /\ insp.ok /\ entry # None
             /\ entry' = [entry EXCEPT !.insp = insp, !.presets = None,
                                       !.camera = IF FirstProfile(insp) # 0 THEN insp.camera ELSE @]
    BY <2>2, <2>4 DEF InspectionTypes
  <2> QED BY <2>1, <2>3, <2>4 DEF insp
<1>4. ASSUME NEW c \in Clients,
             RemovePath(c) \/ ValidateBegins(c) \/ ValidateEnds(c) \/ PtzEnds(c)
      PROVE  InspectionTypes'
  <2>1. \/ entry' = entry
        \/ entry # None /\ entry' = [entry EXCEPT !.unpathed = TRUE]
        \/ \E v \in {"validating", "validated", "failed"} :
             entry # None /\ entry' = [entry EXCEPT !.valid = v]
        \/ \E p \in Cameras : entry # None /\ entry' = [entry EXCEPT !.presets = p]
    BY <1>4 DEF RemovePath, ValidateBegins, ValidateEnds, PtzEnds, CallTypes
  <2> QED BY <1>1, <2>1 DEF InspectionTypes
<1> QED
  BY <1>1, <1>2, <1>3, <1>4
     DEF Next, vars, OnboardingDiscover, OnboardingInspect, AddSource, CompleteBegins,
         InspectBegins, Complete, CompleteAdds, RegisterBegins, RegisterEnds, CompleteEnds,
         DeleteBegins, Erase, Ptz, GotoBegins, PtzBegins, Drop

LEMMA StepCallTypes ==
  ASSUME Shapes, Placed, InspectionTypes, CallTypes, [Next]_vars
  PROVE  CallTypes'
<1> DEFINE Fine(call) == /\ call.answer \in {None, "ok", "failed"}
                         /\ call.at = "sent" => call.insp.camera \in Cameras
<1>1. CASE client' = client
  BY <1>1 DEF CallTypes
<1>2. ASSUME NEW c \in Clients, Others(c), Fine(client'[c]) PROVE CallTypes'
  BY <1>2 DEF CallTypes, Others
<1>3. ASSUME NEW c \in Clients, NEW at, To(c, at), at # "sent" PROVE CallTypes'
  <2>1. Others(c) /\ client'[c].at = at /\ client'[c].answer = client[c].answer
    BY <1>3 DEF To, Shapes, Fields, Others
  <2> QED BY <1>2, <1>3, <2>1 DEF CallTypes
<1>4. ASSUME NEW c \in Clients, NEW answer \in {"ok", "failed", None}, NEW audit,
             Answers(c, answer, audit)
      PROVE  CallTypes'
  BY <1>2, <1>4, AnswersClose
<1>5. ASSUME NEW c \in Clients, NEW op, NEW at, NEW call, DOMAIN call = Fields,
             Begin(c, op, at, call), call.answer \in {"failed", None},
             at = "sent" => call.insp.camera \in Cameras
      PROVE  CallTypes'
  <2>1. Others(c) /\ client'[c].at = at /\ client'[c].answer = call.answer
        /\ client'[c].insp = call.insp
    BY <1>5 DEF Begin, Shapes, Fields, Others
  <2> QED BY <1>2, <1>5, <2>1
<1>6. ASSUME NEW c \in Clients, Drop(c) PROVE CallTypes'
  <2>1. Others(c) /\ client'[c] = NoCall
    BY <1>6 DEF Drop, Shapes, Others
  <2> QED BY <1>2, <2>1 DEF NoCall
<1>7. ASSUME NEW c \in Clients, RegisterBegins(c) PROVE CallTypes'
  <2>1. CASE To(c, "rollback")
    BY <1>3, <2>1
  <2>2. CASE client' = [client EXCEPT ![c].at = "registering", ![c].camera = entry.camera]
    <3>1. Others(c) /\ client'[c].at = "registering" /\ client'[c].answer = client[c].answer
      BY <2>2 DEF Shapes, Fields, Others
    <3> QED BY <1>2, <3>1 DEF CallTypes
  <2> QED BY <1>7, <2>1, <2>2 DEF RegisterBegins
<1>8. ASSUME NEW c \in Clients, NEW op, NEW at, at # "sent", NEW session, NEW camera,
             Begin(c, op, at, [NoCall EXCEPT !.session = session, !.camera = camera])
      PROVE  CallTypes'
  <2> DEFINE call == [NoCall EXCEPT !.session = session, !.camera = camera]
  <2>1. DOMAIN call = Fields /\ call.answer = None
    BY DEF NoCall, Fields
  <2> HIDE DEF call
  <2> QED BY <1>5, <1>8, <2>1 DEF call
<1>9. ASSUME NEW c \in Clients, NEW op, PtzBegins(c, op) \/ GotoBegins(c) PROVE CallTypes'
  <2> DEFINE sent == [NoCall EXCEPT !.insp = entry.insp, !.sent = TRUE]
  <2>1. /\ DOMAIN sent = Fields /\ sent.answer = None /\ sent.insp = entry.insp
        /\ \A audit : DOMAIN Refused(audit) = Fields /\ Refused(audit).answer = "failed"
    BY DEF NoCall, Fields, Refused
  <2>2. \E o, audit : \/ Begin(c, o, "sent", sent) /\ (CanDo(o) \/ CanDo("goto"))
                      \/ Begin(c, o, "idle", Refused(audit))
    BY <1>9 DEF PtzBegins, GotoBegins
  <2>3. \A o : CanDo(o) => entry.insp.camera \in Cameras
    BY DEF CanDo, InspectionTypes
  <2> HIDE DEF sent
  <2>4. ASSUME NEW o, Begin(c, o, "sent", sent), entry.insp.camera \in Cameras PROVE CallTypes'
    BY <1>5, <2>1, <2>4
  <2>5. ASSUME NEW o, NEW audit, Begin(c, o, "idle", Refused(audit)) PROVE CallTypes'
    BY <1>5, <2>1, <2>5
  <2> QED BY <2>2, <2>3, <2>4, <2>5
<1>10. ASSUME NEW c \in Clients,
              \/ CompleteAdds(c) \/ RegisterEnds(c) \/ CompleteEnds(c) \/ RemovePath(c)
              \/ Erase(c) \/ InspectEnds(c) \/ ValidateBegins(c) \/ ValidateEnds(c) \/ PtzEnds(c)
       PROVE  CallTypes'
  <2>1. \/ \E at \in {"validate", "finish", "rollback", "erase", "validating", "register"} : To(c, at)
        \/ \E answer, audit \in {"ok", "failed", None} : Answers(c, answer, audit)
    BY <1>10 DEF CompleteAdds, RegisterEnds, CompleteEnds, RemovePath, Erase, InspectEnds,
                 ValidateBegins, ValidateEnds, PtzEnds, Answer
  <2> QED BY <1>3, <1>4, <2>1
<1>11. ASSUME NEW c \in Clients, NEW s \in DOMAIN draft, CompleteBegins(c, s) PROVE CallTypes'
  BY <1>8, <1>11 DEF CompleteBegins
<1>12. ASSUME NEW c \in Clients, NEW camera \in Cameras, InspectBegins(c, camera) PROVE CallTypes'
  <2> DEFINE call == [NoCall EXCEPT !.camera = camera]
  <2>1. DOMAIN call = Fields /\ call.answer = None
    BY DEF NoCall, Fields
  <2>2. Begin(c, "inspect", "inspecting", call)
    BY <1>12 DEF InspectBegins
  <2> HIDE DEF call
  <2> QED BY <1>5, <2>1, <2>2
<1>13. ASSUME NEW c \in Clients, DeleteBegins(c) PROVE CallTypes'
  BY <1>5, <1>13, NoCallShape DEF DeleteBegins, NoCall
<1> QED
  BY ZenonT(30), <1>1, <1>6, <1>7, <1>9, <1>10, <1>11, <1>12, <1>13
     DEF Next, vars, OnboardingDiscover, OnboardingInspect, AddSource, Complete, Ptz

Types == SessionTypes /\ InspectionTypes /\ CallTypes /\ path \in Cameras \cup {None}

\* Everything the setup of a camera keeps has its type, whatever cameras answer:
\* devices found, presets and gateway paths are those of cameras, and the states
\* of a validation are the code's.
THEOREM TypesKept == Spec => []TypeOK
<1>1. Init => Types
  BY SetupAssumption DEF Init, Types, SessionTypes, InspectionTypes, CallTypes, NoCall
<1>2. IInv /\ Types /\ [Next]_vars => Types'
  BY StepSessions, StepPath, StepInspections, StepCallTypes DEF IInv, Types
<1>3. IInv /\ Types => TypeOK
  BY DEF IInv, Types, SessionTypes, InspectionTypes, CallTypes, TypeOK, Known
<1> QED BY <1>1, <1>2, <1>3, InitIInv, StepIInv, PTL DEF Spec
=============================================================================
