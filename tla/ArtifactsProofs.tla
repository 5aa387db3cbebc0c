-------------------------- MODULE ArtifactsProofs --------------------------
(***************************************************************************)
(* Proofs about Artifacts, for any clients, permits and numbers of calls:  *)
(* a listed artifact has its content, permits are kept to, and the calls   *)
(* are a client of the event log, whose ids are therefore unique.  With at *)
(* most two permits a clip is the recording of its own call.               *)
(***************************************************************************)
EXTENDS Artifacts, EventLogProofs, FiniteSetTheorems

-----------------------------------------------------------------------------
(* The log.  A call publishes its events through Tells() and does nothing  *)
(* else to the log.                                                        *)

LEMMA TellsPublishes ==
  ASSUME NEW k, NEW what, Tells(k, what)
  PROVE  [LogNext]_logVars
BY DEF Tells, Quiet, LogNext

LEMMA StepLog == [Next]_vars => [LogNext]_logVars
<1> SUFFICES ASSUME [Next]_vars PROVE [LogNext]_logVars
  OBVIOUS
<1> USE TellsPublishes DEF Tell, Fails, Quiet
<1>1. CASE UNCHANGED vars
  BY <1>1 DEF vars, logVars
<1>2. ASSUME NEW c \in Clients, NEW kind \in {"snapshot", "clip"}, Capture(c, kind)
      PROVE [LogNext]_logVars
  BY <1>2 DEF Capture
<1>3. ASSUME NEW c \in Clients, Clip(c) PROVE [LogNext]_logVars
  BY <1>3 DEF Clip, ClipStarts, Ffmpeg, ClipWaits, ClipReads, ClipCleans
<1>4. ASSUME NEW c \in Clients, Store(c) PROVE [LogNext]_logVars
  BY <1>4 DEF Store, StoreWrites, StoreRenames, StoreLists
<1>5. ASSUME NEW c \in Clients, Delete(c) PROVE [LogNext]_logVars
  BY <1>5 DEF Delete, DeleteBegins, DeleteUnlinks, DeleteUnlists
<1>6. ASSUME NEW c \in Clients, Drop(c) PROVE [LogNext]_logVars
  BY <1>6 DEF Drop
<1>7. CASE Tick \/ Log \/ Restart
  BY <1>7 DEF Tick, Log, Restart, LogNext
<1> QED BY <1>1, <1>2, <1>3, <1>4, <1>5, <1>6, <1>7 DEF Next

\* A behaviour of the calls is one of the event log, over restarts of the program
\* too, which begin a new log.
THEOREM CallsUseTheLog == Spec => LogSpec
<1>1. Init => LogInit
  BY DEF Init
<1> QED BY <1>1, StepLog, PTL DEF Spec, LogSpec

\* Whatever the calls do, the events they tell of have different ids.
THEOREM CallsKeepIdsUnique == Spec => []UniqueIds
BY CallsUseTheLog, IdsAreUnique, PTL

-----------------------------------------------------------------------------
(* The artifacts.  A call that has yet to list its artifact is the only    *)
(* one to know of it: no other has its number, and no deletion is of it.   *)

Capturing == {"spawn", "wait", "read", "clean", "store", "rename", "list"}
Deleting == {"unlink", "unlist"}
Steps == {"idle"} \cup Capturing \cup Deleting
Calls == [kind : {"none", "snapshot", "clip", "delete"}, at : Steps,
          run : 0..MaxCalls, name : 0..MaxClock, of : 0..MaxCalls]

CallTypes == call \in [Clients -> Calls] /\ calls \in 0..MaxCalls /\ clock \in 1..MaxClock
FileTypes ==
  /\ scratch \in [1..MaxClock -> Runs \cup {None}]
  /\ ffmpeg \in [Runs -> {"none", "spawned", "records", "done", "failed"}]
  /\ tmp \subseteq Runs
  /\ files \in [Runs -> Runs \cup {None}]

Shape(c) ==
  /\ call[c].kind = "none" <=> call[c].at = "idle"
  /\ call[c].run \in 0..calls
  /\ call[c].at # "idle" => call[c].run \in 1..calls /\ call[c].name \in 1..MaxClock
  /\ call[c].at \in Capturing => call[c].kind \in {"snapshot", "clip"}
  /\ call[c].at \in {"spawn", "wait", "read", "clean"} => call[c].kind = "clip"
  /\ call[c].at \in {"clean", "store", "rename"} /\ call[c].kind = "clip" => call[c].of \in Runs
  /\ call[c].at \in Deleting => call[c].of \in 1..calls

Unlisted(c) == call[c].at \in Capturing =>
  /\ call[c].run \notin meta
  /\ call[c].at = "list" => files[call[c].run] # None
  /\ \A d \in Clients :
       /\ call[d].at \in Capturing /\ call[d].run = call[c].run => d = c
       /\ call[d].at \in Deleting => call[d].of # call[c].run

Known == CallTypes /\ meta \subseteq 1..calls /\ \A c \in Clients : Shape(c) /\ Unlisted(c)
IInv == Known /\ FileTypes /\ ContentThere

LEMMA InitIInv == Init => IInv
BY ArtifactsAssumption DEF Init, IInv, Known, CallTypes, FileTypes, Shape, Unlisted, ContentThere,
   Capturing, Deleting, Steps, Calls, NoCall, Runs

\* Client c's call is at another step, and no other call is touched.
Moves(c, at, name, of) ==
  /\ call' \in [Clients -> Calls]
  /\ \A d \in Clients \ {c} : call'[d] = call[d]
  /\ call'[c].kind = call[c].kind /\ call'[c].run = call[c].run
  /\ call'[c].at = at /\ call'[c].name = name /\ call'[c].of = of
Leaves(c) ==
  /\ call' \in [Clients -> Calls]
  /\ \A d \in Clients \ {c} : call'[d] = call[d]
  /\ call'[c] = NoCall

LEMMA Moving ==
  ASSUME CallTypes, NEW c \in Clients, NEW at \in Steps, To(c, at)
  PROVE  Moves(c, at, call[c].name, call[c].of)
<1>1. call[c] \in Calls
  BY DEF CallTypes
<1>2. call' = [call EXCEPT ![c] = [call[c] EXCEPT !.at = at]]
  BY DEF To
<1>3. [call[c] EXCEPT !.at = at] \in Calls
  BY <1>1 DEF Calls
<1> QED BY <1>1, <1>2, <1>3 DEF Moves, CallTypes, Calls

LEMMA Leaving ==
  ASSUME CallTypes, NEW c \in Clients, Ends(c)
  PROVE  Leaves(c)
<1>1. NoCall \in Calls
  BY ArtifactsAssumption DEF NoCall, Calls, Steps
<1> QED BY <1>1 DEF Ends, Leaves, CallTypes

\* A capture goes on: only its own file may change, and it has one before it is
\* listed.
LEMMA CaptureGoesOn ==
  ASSUME IInv, NEW c \in Clients, NEW at \in Capturing, NEW name \in 1..MaxClock, NEW of \in 0..MaxCalls,
         Moves(c, at, name, of), call[c].at \in Capturing,
         at \in {"spawn", "wait", "read", "clean"} => call[c].kind = "clip",
         at \in {"clean", "store", "rename"} /\ call[c].kind = "clip" => of \in Runs,
         UNCHANGED <<calls, clock, meta, abandoned>>, FileTypes',
         \A k \in Runs : k # call[c].run => files'[k] = files[k],
         at = "list" => files'[call[c].run] # None
  PROVE  IInv'
<1>1. CallTypes' /\ meta' \subseteq 1..calls'
  BY DEF IInv, Known, CallTypes, Moves
<1>2. ASSUME NEW d \in Clients PROVE Shape(d)'
  BY DEF IInv, Known, Shape, Moves, Capturing, Deleting, Steps
<1>3. /\ \A d \in Clients \ {c} : call'[d] = call[d]
      /\ call'[c].at = at /\ call'[c].run = call[c].run
      /\ at \notin Deleting /\ call[c].at \notin Deleting
  BY DEF Moves, Capturing, Deleting
<1>4. meta' = meta /\ meta \subseteq Runs /\ \A d \in Clients : call[d].at \in Capturing => call[d].run \in Runs
  <2>1. 1..calls \subseteq Runs
    BY ArtifactsAssumption DEF IInv, Known, CallTypes, Runs
  <2> QED BY <2>1 DEF IInv, Known, Shape, Capturing
<1>5. \A d \in Clients : Unlisted(d)
  BY DEF IInv, Known
<1>6. ASSUME NEW d \in Clients PROVE Unlisted(d)'
  <2>1. CASE d = c
    BY <1>3, <1>4, <1>5, <2>1 DEF Unlisted
  <2>2. CASE d # c
    <3>1. call'[d] = call[d] /\ (call[d].at \in Capturing => call[d].run # call[c].run)
      BY <1>3, <1>5, <2>2 DEF Unlisted
    <3>2. call[d].at = "list" => files'[call[d].run] = files[call[d].run]
      BY <1>4, <3>1 DEF Capturing
    <3> QED BY <1>3, <1>4, <1>5, <3>1, <3>2 DEF Unlisted, Capturing
  <2> QED BY <2>1, <2>2
<1>7. ContentThere'
  <2>1. \A k \in meta : files'[k] = files[k]
    BY <1>4, <1>5 DEF Unlisted
  <2>2. \A d \in Clients : call[d].at = "unlist" => call'[d] = call[d]
    BY <1>3 DEF Deleting
  <2> QED BY <1>4, <2>1, <2>2 DEF IInv, ContentThere
<1> QED BY <1>1, <1>2, <1>6, <1>7 DEF IInv, Known

\* A call ends, be it answered or dropped; no file changes.
LEMMA CallEnds ==
  ASSUME IInv, NEW c \in Clients, Leaves(c), UNCHANGED <<calls, clock, meta, files>>, FileTypes',
         abandoned \subseteq abandoned', call[c].at = "unlist" => call[c].of \in abandoned'
  PROVE  IInv'
<1>1. CallTypes' /\ meta' \subseteq 1..calls'
  BY DEF IInv, Known, CallTypes, Leaves
<1>2. ASSUME NEW d \in Clients PROVE Shape(d)'
  BY ArtifactsAssumption DEF IInv, Known, CallTypes, Shape, Leaves, NoCall, Capturing, Deleting
<1>3. ASSUME NEW d \in Clients PROVE Unlisted(d)'
  BY DEF IInv, Known, Unlisted, Leaves, NoCall, Capturing, Deleting
<1>4. ContentThere'
  BY DEF IInv, ContentThere, Leaves
<1> QED BY <1>1, <1>2, <1>3, <1>4 DEF IInv, Known

\* A call begins, with a number of its own; a deletion is of what is listed.
LEMMA CallBegins ==
  ASSUME IInv, NEW c \in Clients, NEW kind \in {"snapshot", "clip", "delete"}, NEW at \in Steps,
         NEW of \in 0..MaxCalls, Begin(c, kind, at, of),
         \/ kind = "clip" /\ at = "spawn"
         \/ kind = "snapshot" /\ at = "store"
         \/ kind = "delete" /\ at = "unlink" /\ of \in meta,
         UNCHANGED <<clock, meta, files, abandoned>>, FileTypes'
  PROVE  IInv'
<1> DEFINE r == [kind |-> kind, at |-> at, run |-> calls + 1, name |-> clock, of |-> of]
<1>1. calls \in Nat /\ calls' = calls + 1 /\ calls' \in 0..MaxCalls /\ clock \in 1..MaxClock
  BY ArtifactsAssumption DEF IInv, Known, CallTypes, Begin
<1>2. r \in Calls
  BY <1>1, ArtifactsAssumption DEF Calls
<1>3. /\ call' = [call EXCEPT ![c] = r] /\ call \in [Clients -> Calls]
      /\ call[c].kind = "none"
  BY DEF Begin, IInv, Known, CallTypes
<1>4. /\ call' \in [Clients -> Calls] /\ call'[c] = r
      /\ \A d \in Clients \ {c} : call'[d] = call[d]
  BY <1>2, <1>3
<1>5. /\ call'[c].kind = kind /\ call'[c].at = at /\ call'[c].run = calls + 1
      /\ call'[c].name = clock /\ call'[c].of = of
  BY <1>4
<1>6. CallTypes' /\ meta' \subseteq 1..calls'
  BY <1>1, <1>4 DEF CallTypes, IInv, Known
<1>7. ASSUME NEW d \in Clients PROVE Shape(d)'
  <2>1. CASE d = c
    BY <1>1, <1>5, <2>1 DEF Shape, IInv, Known, Capturing, Deleting
  <2>2. CASE d # c
    <3>1. Shape(d) /\ call'[d] = call[d]
      BY <1>4, <2>2 DEF IInv, Known
    <3>2. 0..calls \subseteq 0..calls' /\ 1..calls \subseteq 1..calls'
      BY <1>1
    <3> QED BY <3>1, <3>2 DEF Shape
  <2> QED BY <2>1, <2>2
<1>8. /\ calls + 1 \notin meta /\ (of \in meta => of # calls + 1)
      /\ \A d \in Clients : /\ call[d].at \in Capturing => call[d].run # calls + 1 /\ call[d].run \notin meta
                            /\ call[d].at \in Deleting => call[d].of # calls + 1
  BY <1>1 DEF IInv, Known, Shape, Unlisted, Capturing, Deleting
<1>9. ASSUME NEW d \in Clients PROVE Unlisted(d)'
  <2>1. CASE d = c
    BY <1>4, <1>5, <1>8, <2>1 DEF Unlisted, Capturing, Deleting
  <2>2. CASE d # c
    BY <1>4, <1>5, <1>8, <2>2 DEF Unlisted, IInv, Known, Capturing, Deleting
  <2> QED BY <2>1, <2>2
<1>10. ContentThere'
  <2>1. \A d \in Clients : call[d].at = "unlist" => call'[d] = call[d]
    BY <1>3, <1>4 DEF IInv, Known, Shape
  <2> QED BY <2>1 DEF IInv, ContentThere
<1> QED BY <1>6, <1>7, <1>9, <1>10 DEF IInv, Known

LEMMA Lists == ASSUME IInv, NEW c \in Clients, StoreLists(c) PROVE IInv'
<1>1. /\ Leaves(c) /\ call[c].at = "list" /\ meta' = meta \cup {call[c].run}
      /\ UNCHANGED <<calls, clipVars, tmp, files, abandoned>>
  BY Leaving DEF StoreLists, IInv, Known
<1>2. call[c].run \in 1..calls /\ files[call[c].run] # None
  BY <1>1 DEF IInv, Known, Shape, Unlisted, Capturing
<1>3. CallTypes' /\ FileTypes' /\ meta' \subseteq 1..calls'
  BY <1>1, <1>2 DEF IInv, Known, CallTypes, FileTypes, Leaves, clipVars
<1>4. ASSUME NEW d \in Clients PROVE Shape(d)'
  BY <1>1, ArtifactsAssumption DEF IInv, Known, CallTypes, Shape, Leaves, NoCall, Capturing, Deleting
<1>5. ASSUME NEW d \in Clients PROVE Unlisted(d)'
  BY <1>1 DEF IInv, Known, Unlisted, Leaves, NoCall, Capturing, Deleting
<1>6. ContentThere'
  BY <1>1, <1>2 DEF IInv, ContentThere, Leaves
<1> QED BY <1>3, <1>4, <1>5, <1>6 DEF IInv, Known

LEMMA Unlinks == ASSUME IInv, NEW c \in Clients, DeleteUnlinks(c) PROVE IInv'
<1>1. CASE Ends(c) /\ UNCHANGED files
  <2>1. /\ Leaves(c) /\ call[c].at = "unlink"
        /\ UNCHANGED <<calls, clipVars, tmp, meta, files, abandoned>>
    BY <1>1, Leaving DEF DeleteUnlinks, IInv, Known
  <2>2. FileTypes'
    BY <2>1 DEF IInv, FileTypes, clipVars
  <2> QED BY <2>1, <2>2, CallEnds DEF clipVars
<1>2. CASE files' = [files EXCEPT ![call[c].of] = None] /\ To(c, "unlist")
  <2>1. /\ Moves(c, "unlist", call[c].name, call[c].of) /\ call[c].at = "unlink"
        /\ UNCHANGED <<calls, clipVars, tmp, meta, abandoned>>
    BY <1>2, Moving DEF DeleteUnlinks, IInv, Known, Steps, Deleting
  <2>2. CallTypes' /\ FileTypes' /\ meta' \subseteq 1..calls'
    BY <1>2, <2>1 DEF IInv, Known, CallTypes, FileTypes, Moves, clipVars
  <2>3. /\ \A d \in Clients \ {c} : call'[d] = call[d]
        /\ call'[c].at = "unlist" /\ call'[c].of = call[c].of
    BY <2>1 DEF Moves
  <2>4. ASSUME NEW d \in Clients PROVE Shape(d)'
    BY <2>1 DEF IInv, Known, Shape, Moves, Capturing, Deleting, Steps
  <2>5. ASSUME NEW d \in Clients PROVE Unlisted(d)'
    <3>1. CASE d = c
      BY <2>3, <3>1 DEF Unlisted, Capturing
    <3>2. CASE d # c
      <4>1. Unlisted(d) /\ call'[d] = call[d]
        BY <2>3, <3>2 DEF IInv, Known
      <4>2. call[d].at \in Capturing => call[d].run # call[c].of
        BY <2>1, <4>1 DEF Unlisted, Deleting
      <4>3. call[d].at = "list" => files'[call[d].run] = files[call[d].run]
        BY <1>2, <4>2 DEF Capturing, IInv, FileTypes
      <4> QED BY <2>1, <2>3, <4>1, <4>2, <4>3 DEF Unlisted, Capturing, Deleting
    <3> QED BY <3>1, <3>2
  <2>6. ContentThere'
    <3>1. \A d \in Clients : call[d].at = "unlist" => call'[d] = call[d]
      BY <2>1, <2>3
    <3>2. \A k \in meta : k # call[c].of => files'[k] = files[k]
      BY <1>2 DEF IInv, FileTypes
    <3> QED BY <2>1, <2>3, <3>1, <3>2 DEF IInv, ContentThere
  <2> QED BY <2>2, <2>4, <2>5, <2>6 DEF IInv, Known
<1> QED BY <1>1, <1>2 DEF DeleteUnlinks

LEMMA Unlists == ASSUME IInv, NEW c \in Clients, DeleteUnlists(c) PROVE IInv'
<1>1. /\ Leaves(c) /\ call[c].at = "unlist" /\ meta' = meta \ {call[c].of}
      /\ UNCHANGED <<calls, clipVars, tmp, files, abandoned>>
  BY Leaving DEF DeleteUnlists, IInv, Known
<1>2. CallTypes' /\ FileTypes' /\ meta' \subseteq 1..calls'
  BY <1>1 DEF IInv, Known, CallTypes, FileTypes, Leaves, clipVars
<1>3. ASSUME NEW d \in Clients PROVE Shape(d)'
  BY <1>1, ArtifactsAssumption DEF IInv, Known, CallTypes, Shape, Leaves, NoCall, Capturing, Deleting
<1>4. ASSUME NEW d \in Clients PROVE Unlisted(d)'
  BY <1>1 DEF IInv, Known, Unlisted, Leaves, NoCall, Capturing, Deleting
<1>5. ContentThere'
  BY <1>1 DEF IInv, ContentThere, Leaves
<1> QED BY <1>2, <1>3, <1>4, <1>5 DEF IInv, Known

\* The other steps of a call: it goes on, or it ends.
LEMMA ClipSteps == ASSUME IInv, NEW c \in Clients, Clip(c) \/ StoreWrites(c) \/ StoreRenames(c) PROVE IInv'
<1> DEFINE k == call[c].run
<1> DEFINE t == call[c].name
<1>1. ASSUME Ends(c), UNCHANGED <<calls, clock, meta, files, abandoned>>, FileTypes', call[c].at # "unlist"
      PROVE  IInv'
  BY <1>1, Leaving, CallEnds DEF IInv, Known
<1>2. ASSUME NEW at \in Capturing, To(c, at), call[c].at \in Capturing,
             at \in {"spawn", "wait", "read", "clean"} => call[c].kind = "clip",
             at \in {"clean", "store", "rename"} /\ call[c].kind = "clip" => call[c].of \in Runs,
             UNCHANGED <<calls, clock, meta, abandoned>>, FileTypes',
             \A j \in Runs : j # k => files'[j] = files[j],
             at = "list" => files'[k] # None
      PROVE  IInv'
  <2>1. call[c] \in Calls /\ Shape(c)
    BY DEF IInv, Known, CallTypes
  <2>2. call[c].name \in 1..MaxClock /\ call[c].of \in 0..MaxCalls
    BY <1>2, <2>1 DEF Calls, Shape, Capturing
  <2>3. Moves(c, at, call[c].name, call[c].of)
    BY <1>2, Moving DEF Steps, IInv, Known
  <2> QED BY <1>2, <2>2, <2>3, CaptureGoesOn
<1>3. Shape(c) /\ FileTypes /\ CallTypes /\ clock \in 1..MaxClock
  BY DEF IInv, Known, CallTypes
<1>4. 1..calls \subseteq Runs
  BY <1>3, ArtifactsAssumption DEF CallTypes, Runs
<1>5. /\ call[c].at \in Capturing => k \in Runs /\ t \in 1..MaxClock
  BY <1>3, <1>4 DEF Shape, Capturing
<1>6. CASE ClipStarts(c)
  <2>1. CASE Fails(c) /\ UNCHANGED ffmpeg
    BY <1>1, <1>6, <2>1, <1>3 DEF ClipStarts, Fails, FileTypes, storeVars
  <2>2. CASE /\ call' = [call EXCEPT ![c].at = "wait", ![c].name = clock]
             /\ ffmpeg' = [ffmpeg EXCEPT ![k] = "spawned"]
    <3>1. call[c] \in Calls /\ call[c].of \in 0..MaxCalls /\ call[c].kind = "clip"
      BY <1>3, <1>6 DEF CallTypes, Calls, Shape, ClipStarts
    <3>2. call' = [call EXCEPT ![c] = [call[c] EXCEPT !.at = "wait", !.name = clock]]
      BY <2>2
    <3>3. clock \in 0..MaxClock
      BY <1>3, ArtifactsAssumption
    <3>4. [call[c] EXCEPT !.at = "wait", !.name = clock] \in Calls
      BY <3>1, <3>3 DEF Calls, Steps, Capturing
    <3>5. Moves(c, "wait", clock, call[c].of)
      BY <3>1, <3>2, <3>4, <1>3 DEF Moves, CallTypes, Calls
    <3>6. FileTypes' /\ UNCHANGED <<calls, clock, meta, abandoned, files>>
      BY <1>3, <1>6, <2>2 DEF ClipStarts, FileTypes, storeVars
    <3> QED BY <1>3, <1>6, <3>1, <3>5, <3>6, CaptureGoesOn DEF ClipStarts, Capturing
  <2> QED BY <1>6, <2>1, <2>2 DEF ClipStarts
<1>7. CASE Ffmpeg(c)
  <2>1. FileTypes' /\ UNCHANGED <<call, calls, clock, meta, abandoned, files>>
    BY <1>3, <1>5, <1>7 DEF Ffmpeg, FileTypes, storeVars, Capturing
  <2> QED BY <2>1 DEF IInv, Known, CallTypes, Shape, Unlisted, ContentThere
<1>8. CASE ClipWaits(c)
  <2>1. FileTypes' /\ UNCHANGED <<calls, clock, meta, abandoned, files>>
    BY <1>3, <1>8 DEF ClipWaits, FileTypes, storeVars
  <2>2. call[c].at = "wait" /\ call[c].kind = "clip" /\ (Ends(c) \/ To(c, "read"))
    BY <1>3, <1>8 DEF ClipWaits, Fails, Shape
  <2> QED BY <1>1, <1>2, <2>1, <2>2 DEF Capturing
<1>9. CASE ClipReads(c)
  <2>1. FileTypes' /\ UNCHANGED <<calls, clock, meta, abandoned, files>>
    BY <1>3, <1>9 DEF ClipReads, FileTypes, storeVars, clipVars
  <2>2. call[c].at = "read" /\ call[c].kind = "clip"
    BY <1>3, <1>9 DEF ClipReads, Shape
  <2>3. CASE Ends(c)
    BY <1>1, <2>1, <2>2, <2>3
  <2>4. CASE scratch[t] # None /\ call' = [call EXCEPT ![c].at = "clean", ![c].of = scratch[t]]
    <3>1. call[c] \in Calls /\ scratch[t] \in Runs /\ scratch[t] \in 0..MaxCalls /\ t \in 1..MaxClock
      BY <1>3, <1>5, <2>2, <2>4 DEF CallTypes, FileTypes, Capturing, Runs
    <3>2. call' = [call EXCEPT ![c] = [call[c] EXCEPT !.at = "clean", !.of = scratch[t]]]
      BY <2>4
    <3>3. [call[c] EXCEPT !.at = "clean", !.of = scratch[t]] \in Calls
      BY <3>1 DEF Calls, Steps, Capturing
    <3>4. Moves(c, "clean", t, scratch[t])
      BY <3>1, <3>2, <3>3, <1>3 DEF Moves, CallTypes, Calls
    <3> QED BY <2>1, <2>2, <3>1, <3>4, CaptureGoesOn DEF Capturing
  <2> QED BY <1>9, <2>3, <2>4 DEF ClipReads, Fails
<1>10. CASE ClipCleans(c)
  <2>1. FileTypes' /\ UNCHANGED <<calls, clock, meta, abandoned, files>>
    BY <1>3, <1>10 DEF ClipCleans, FileTypes, storeVars
  <2> QED BY <1>2, <1>3, <1>10, <2>1 DEF ClipCleans, Shape, Capturing
<1>11. CASE StoreWrites(c)
  <2>1. UNCHANGED <<calls, clock, meta, abandoned, files>> /\ call[c].at = "store"
    BY <1>11 DEF StoreWrites, clipVars
  <2>2. FileTypes'
    BY <1>3, <1>5, <1>11 DEF StoreWrites, FileTypes, clipVars, Capturing
  <2> QED BY <1>1, <1>2, <1>3, <1>11, <2>1, <2>2 DEF StoreWrites, Fails, Shape, Capturing
<1>12. CASE StoreRenames(c)
  <2>1. UNCHANGED <<calls, clipVars, meta, abandoned>> /\ call[c].at = "rename" /\ k \in Runs
    BY <1>5, <1>12 DEF StoreRenames, Capturing
  <2>2. CASE Fails(c) /\ UNCHANGED <<tmp, files>>
    <3>1. FileTypes'
      BY <1>3, <2>1, <2>2 DEF FileTypes, clipVars
    <3> QED BY <1>1, <2>1, <2>2, <3>1 DEF Fails, clipVars
  <2>3. CASE /\ tmp' = tmp \ {k} /\ To(c, "list")
             /\ files' = [files EXCEPT ![k] = IF call[c].kind = "clip" THEN call[c].of ELSE k]
    <3>1. (IF call[c].kind = "clip" THEN call[c].of ELSE k) \in Runs
      BY <1>3, <2>1 DEF Shape
    <3>2. FileTypes' /\ files'[k] \in Runs /\ \A j \in Runs : j # k => files'[j] = files[j]
      BY <1>3, <2>1, <2>3, <3>1 DEF FileTypes, clipVars
    <3>3. None \notin Runs
      BY ArtifactsAssumption DEF Runs
    <3> QED BY <1>2, <2>1, <2>3, <3>2, <3>3 DEF Capturing, clipVars
  <2> QED BY <1>12, <2>2, <2>3 DEF StoreRenames
<1> QED BY <1>6, <1>7, <1>8, <1>9, <1>10, <1>11, <1>12 DEF Clip

LEMMA StepIInv == IInv /\ [Next]_vars => IInv'
<1> SUFFICES ASSUME IInv, [Next]_vars PROVE IInv'
  OBVIOUS
<1>1. ASSUME UNCHANGED <<call, calls, clock, scratch, ffmpeg, storeVars, abandoned>> PROVE IInv'
  BY <1>1 DEF IInv, Known, CallTypes, FileTypes, Shape, Unlisted, ContentThere, storeVars
<1>2. ASSUME NEW c \in Clients, NEW kind \in {"snapshot", "clip"}, Capture(c, kind) PROVE IInv'
  <2>1. FileTypes' /\ UNCHANGED <<clock, meta, files, abandoned>> /\ 0 \in 0..MaxCalls
    BY <1>2, ArtifactsAssumption DEF Capture, IInv, FileTypes, clipVars, storeVars
  <2>2. CASE kind = "clip"
    BY <1>2, <2>1, <2>2, CallBegins DEF Capture, Steps, Capturing
  <2>3. CASE kind = "snapshot"
    BY <1>2, <2>1, <2>3, CallBegins DEF Capture, Steps, Capturing
  <2> QED BY <2>2, <2>3
<1>3. ASSUME NEW c \in Clients, DeleteBegins(c) PROVE IInv'
  <2>1. PICK k \in meta : Begin(c, "delete", "unlink", k)
    BY <1>3 DEF DeleteBegins
  <2>2. FileTypes' /\ UNCHANGED <<clock, meta, files, abandoned>>
    BY <1>3 DEF DeleteBegins, IInv, FileTypes, clipVars, storeVars
  <2>3. k \in 0..MaxCalls
    BY ArtifactsAssumption DEF IInv, Known, CallTypes
  <2> QED BY <2>1, <2>2, <2>3, CallBegins DEF Steps, Deleting
<1>4. ASSUME NEW c \in Clients, Drop(c) PROVE IInv'
  <2>1. Leaves(c) /\ FileTypes' /\ UNCHANGED <<calls, clock, meta, files>>
    BY <1>4, Leaving DEF Drop, IInv, Known, FileTypes, clipVars, storeVars
  <2>2. abandoned \subseteq abandoned' /\ (call[c].at = "unlist" => call[c].of \in abandoned')
    BY <1>4 DEF Drop
  <2> QED BY <2>1, <2>2, CallEnds
<1>5. CASE Tick
  BY <1>5, ArtifactsAssumption
     DEF Tick, IInv, Known, CallTypes, FileTypes, Shape, Unlisted, ContentThere, storeVars
<1>6. CASE Restart
  <2>1. /\ call' = [c \in Clients |-> NoCall] /\ meta' = {}
        /\ UNCHANGED <<calls, clipVars, tmp, files>>
    BY <1>6 DEF Restart
  <2>2. NoCall \in Calls
    BY ArtifactsAssumption DEF NoCall, Calls, Steps
  <2>3. CallTypes' /\ FileTypes' /\ meta' \subseteq 1..calls'
    BY <2>1, <2>2 DEF IInv, Known, CallTypes, FileTypes, clipVars
  <2>4. ASSUME NEW c \in Clients PROVE (Shape(c) /\ Unlisted(c))'
    BY <2>1, ArtifactsAssumption DEF IInv, Known, CallTypes, Shape, Unlisted, NoCall, Capturing, Deleting
  <2> QED BY <2>1, <2>3, <2>4 DEF IInv, Known, ContentThere
<1>7. CASE Log
  BY <1>1, <1>7 DEF Log, clipVars
<1>8. CASE UNCHANGED vars
  BY <1>1, <1>8 DEF vars, clipVars
<1> QED BY <1>2, <1>3, <1>4, <1>5, <1>6, <1>7, <1>8, ClipSteps, Lists, Unlinks, Unlists
   DEF Next, Store, Delete

\* A listed artifact has its file, however captures, deletions, failures,
\* clients that go away and restarts follow one another.
THEOREM ListedHasContent == Spec => []ContentThere
<1>1. IInv => ContentThere
  BY DEF IInv
<1> QED BY <1>1, InitIInv, StepIInv, PTL DEF Spec

-----------------------------------------------------------------------------
(* The permits.                                                            *)

\* A call keeps its kind until it ends.
KindsKept == \A d \in Clients : call'[d].kind \in {call[d].kind, "none"}

LEMMA StepKinds ==
  ASSUME CallTypes, [Next]_vars
  PROVE  \/ KindsKept
         \/ \E c \in Clients : \E kind \in {"snapshot", "clip"} : Capture(c, kind)
         \/ \E c \in Clients : DeleteBegins(c)
<1> USE DEF KindsKept, CallTypes, Calls, To, Ends, Fails, NoCall
<1>1. ASSUME NEW c \in Clients, Clip(c) PROVE KindsKept
  BY <1>1 DEF Clip, ClipStarts, Ffmpeg, ClipWaits, ClipReads, ClipCleans
<1>2. ASSUME NEW c \in Clients, Store(c) PROVE KindsKept
  BY <1>2 DEF Store, StoreWrites, StoreRenames, StoreLists
<1>3. ASSUME NEW c \in Clients, DeleteUnlinks(c) \/ DeleteUnlists(c) \/ Drop(c) PROVE KindsKept
  BY <1>3 DEF DeleteUnlinks, DeleteUnlists, Drop
<1>4. CASE Tick \/ Log \/ Restart \/ UNCHANGED vars
  BY <1>4 DEF Tick, Log, Restart, vars
<1> QED BY <1>1, <1>2, <1>3, <1>4 DEF Next, Delete

LEMMA StepPermits ==
  ASSUME CallTypes, Cardinality(Holding) <= Permits, [Next]_vars
  PROVE  Cardinality(Holding') <= Permits
<1>1. IsFiniteSet(Holding) /\ Cardinality(Holding) \in Nat /\ Permits \in Nat
  BY ArtifactsAssumption, FS_Subset, FS_CardinalityType DEF Holding
<1>2. CASE KindsKept \/ \E c \in Clients : DeleteBegins(c)
  <2>1. Holding' \subseteq Holding
    BY <1>2 DEF KindsKept, Holding, DeleteBegins, Begin, CallTypes
  <2>2. Cardinality(Holding') <= Cardinality(Holding) /\ Cardinality(Holding') \in Nat
    BY <1>1, <2>1, FS_Subset, FS_CardinalityType
  <2> QED BY <1>1, <2>2
<1>3. ASSUME NEW c \in Clients, NEW kind \in {"snapshot", "clip"}, Capture(c, kind)
      PROVE  Cardinality(Holding') <= Permits
  <2>1. Holding' = Holding \cup {c} /\ c \notin Holding
    BY <1>3 DEF Holding, Capture, Begin, CallTypes
  <2>2. Cardinality(Holding') = Cardinality(Holding) + 1
    BY <1>1, <2>1, FS_AddElement
  <2> QED BY <1>1, <1>3, <2>2 DEF Capture
<1> QED BY <1>2, <1>3, StepKinds

\* No more captures run at a time than there are permits, and calls, scratch
\* files and artifacts keep to their types.
THEOREM CapturesLimited == Spec => []TypeOK
<1>1. Init => Cardinality(Holding) <= Permits
  <2>1. Init => Holding = {}
    BY DEF Init, Holding, NoCall
  <2> QED BY <2>1, FS_EmptySet, ArtifactsAssumption
<1>2. IInv /\ [Next]_vars /\ Cardinality(Holding) <= Permits => (Cardinality(Holding) <= Permits)'
  BY StepPermits DEF IInv, Known
<1>3. IInv /\ Cardinality(Holding) <= Permits => TypeOK
  <2> SUFFICES ASSUME IInv, Cardinality(Holding) <= Permits PROVE TypeOK
    OBVIOUS
  <2>1. \A c \in Clients : call[c].run \in 0..calls /\ call[c].of \in 0..MaxCalls
    BY DEF IInv, Known, CallTypes, Calls, Shape
  <2>2. meta \subseteq Runs
    BY ArtifactsAssumption DEF IInv, Known, CallTypes, Runs
  <2> QED BY <2>1, <2>2 DEF TypeOK, IInv, FileTypes
<1> QED BY <1>1, <1>2, <1>3, InitIInv, StepIInv, PTL DEF Spec

-----------------------------------------------------------------------------
(* What a clip holds.  Two calls that began in one millisecond share a      *)
(* scratch file; the one that comes second fails and removes it.           *)

\* The process of call c is in one of these phases, and c waits for it.
Waits(c, phases) == call[c].at = "wait" /\ ffmpeg[call[c].run] \in phases
\* The scratch file of call c was made by its own process, and c is not done
\* with it.
Opened(c) == Waits(c, {"records", "done"}) \/ call[c].at \in {"read", "clean"}

\* The file then holds nothing but its recording.  Another call may have removed
\* it, but then nobody is left who could make it again: a later call is named
\* after a later millisecond.
OpenedAlone(c) == Opened(c) =>
  /\ scratch[call[c].name] \in {None, call[c].run}
  /\ scratch[call[c].name] = None =>
       /\ clock > call[c].name
       /\ \A d \in Clients : Waits(d, {"spawned"}) => call[d].name # call[c].name
  /\ \A d \in Clients \ {c} : Opened(d) => call[d].name # call[c].name

\* A process has failed only once its millisecond is over, and what a clip has
\* read is its own recording.
ReadOwn(c) ==
  /\ Waits(c, {"failed"}) => clock > call[c].name
  /\ call[c].at \in {"clean", "store", "rename"} /\ call[c].kind = "clip" => call[c].of = call[c].run

OwnInv ==
  /\ IInv /\ Cardinality(Holding) <= Permits
  /\ \A c \in Clients : OpenedAlone(c) /\ ReadOwn(c)
  /\ OwnRecording

\* With two permits, two calls that capture leave no room for a third.
LEMMA TwoHold ==
  ASSUME Permits <= 2, OwnInv, NEW c \in Clients, NEW d \in Clients, NEW e \in Clients,
         c # d, d # e, c # e,
         call[c].at \in Capturing, call[d].at \in Capturing, call[e].at \in Capturing
  PROVE  FALSE
<1>1. IsFiniteSet(Holding) /\ Cardinality(Holding) \in Nat /\ Permits \in Nat
  BY ArtifactsAssumption, FS_Subset, FS_CardinalityType DEF Holding
<1>2. {c, d, e} \subseteq Holding
  BY DEF OwnInv, IInv, Known, Shape, Holding
<1>3. Cardinality({c}) = 1 /\ IsFiniteSet({c})
  BY FS_Singleton
<1>4. Cardinality({c} \cup {d}) = 2 /\ IsFiniteSet({c} \cup {d})
  BY <1>3, FS_AddElement
<1>5. Cardinality({c} \cup {d} \cup {e}) = 3
  <2>1. e \notin {c} \cup {d}
    OBVIOUS
  <2>2. Cardinality(({c} \cup {d}) \cup {e}) = Cardinality({c} \cup {d}) + 1
    BY <1>4, <2>1, FS_AddElement
  <2> QED BY <1>4, <2>2
<1>6. {c} \cup {d} \cup {e} \subseteq Holding
  BY <1>2
<1>7. Cardinality({c} \cup {d} \cup {e}) <= Cardinality(Holding)
  BY <1>1, <1>6, FS_Subset
<1> QED BY <1>1, <1>5, <1>7 DEF OwnInv

\* A step of client c's call leaves the other calls and their processes alone.
OthersKept(c) == \A d \in Clients \ {c} :
  /\ call'[d] = call[d]
  /\ call[d].at = "wait" => ffmpeg'[call[d].run] = ffmpeg[call[d].run]

LEMMA OthersAsTheyWere ==
  ASSUME NEW c \in Clients, OthersKept(c)
  PROVE  \A d \in Clients \ {c} :
           /\ call'[d] = call[d]
           /\ \A phases : Waits(d, phases)' <=> Waits(d, phases)
           /\ Opened(d)' <=> Opened(d)
BY DEF OthersKept, Waits, Opened

LEMMA Apart ==
  ASSUME IInv, NEW c \in Clients, call[c].at \in Capturing,
         \A d \in Clients \ {c} : call'[d] = call[d],
         \A k \in Runs : k # call[c].run => ffmpeg'[k] = ffmpeg[k]
  PROVE  OthersKept(c)
<1>1. 1..calls \subseteq Runs
  BY ArtifactsAssumption DEF IInv, Known, CallTypes, Runs
<1>2. ASSUME NEW d \in Clients \ {c}, call[d].at = "wait" PROVE call[d].run \in Runs /\ call[d].run # call[c].run
  BY <1>1, <1>2 DEF IInv, Known, Shape, Unlisted, Capturing
<1> QED BY <1>2 DEF OthersKept

\* A step that changes no scratch file.
LEMMA ScratchKept ==
  ASSUME OwnInv, NEW c \in Clients, OthersKept(c), UNCHANGED <<scratch, clock>>,
         Opened(c)' => Opened(c) /\ call'[c].name = call[c].name /\ call'[c].run = call[c].run,
         Waits(c, {"spawned"})' =>
           \/ Waits(c, {"spawned"}) /\ call'[c].name = call[c].name
           \/ call'[c].name = clock
  PROVE  \A d \in Clients : OpenedAlone(d)'
<1> SUFFICES ASSUME NEW d \in Clients, Opened(d)' PROVE OpenedAlone(d)'
  BY DEF OpenedAlone
<1>1. \A e \in Clients \ {c} : /\ call'[e] = call[e]
                               /\ Waits(e, {"spawned"})' <=> Waits(e, {"spawned"})
                               /\ Opened(e)' <=> Opened(e)
  BY OthersAsTheyWere
<1>2. Opened(d) /\ call'[d].name = call[d].name /\ call'[d].run = call[d].run
  BY <1>1
<1>3. OpenedAlone(d) /\ call \in [Clients -> Calls] /\ clock \in Nat
  BY ArtifactsAssumption DEF OwnInv, IInv, Known, CallTypes
<1>4. \A e \in Clients \ {d} : Opened(e)' => call'[e].name # call'[d].name
  BY <1>1, <1>2, <1>3 DEF OpenedAlone
<1>5. ASSUME scratch[call[d].name] = None
      PROVE  clock > call[d].name /\ \A e \in Clients : Waits(e, {"spawned"})' => call'[e].name # call[d].name
  <2>1. /\ clock > call[d].name
        /\ \A e \in Clients : Waits(e, {"spawned"}) => call[e].name # call[d].name
    BY <1>2, <1>3, <1>5 DEF OpenedAlone
  <2>2. call[d].name \in Nat
    BY <1>3, ArtifactsAssumption DEF Calls
  <2>3. clock # call[d].name
    BY <1>3, <2>1, <2>2
  <2> QED BY <1>1, <2>1, <2>3
<1> QED BY <1>2, <1>3, <1>4, <1>5 DEF OpenedAlone

\* The process of a call makes its file.
LEMMA FileMade ==
  ASSUME OwnInv, NEW c \in Clients, OthersKept(c), UNCHANGED <<call, clock>>,
         Waits(c, {"spawned"}), Waits(c, {"records"})', scratch[call[c].name] = None,
         scratch' = [scratch EXCEPT ![call[c].name] = call[c].run]
  PROVE  \A d \in Clients : OpenedAlone(d)'
<1>1. \A e \in Clients \ {c} : /\ call'[e] = call[e]
                               /\ Waits(e, {"spawned"})' <=> Waits(e, {"spawned"})
                               /\ Opened(e)' <=> Opened(e)
  BY OthersAsTheyWere
<1>2. \A e \in Clients : Opened(e) => call[e].name # call[c].name
  BY DEF OwnInv, OpenedAlone
<1>3. call[c].name \in 1..MaxClock /\ call[c].run \in Runs /\ None \notin Runs
  BY ArtifactsAssumption DEF OwnInv, IInv, Known, CallTypes, Shape, Waits, Runs
<1>4. scratch'[call[c].name] = call[c].run /\ \A t \in 1..MaxClock : t # call[c].name => scratch'[t] = scratch[t]
  BY <1>3 DEF OwnInv, IInv, FileTypes
<1>5. ~ Waits(c, {"spawned"})'
  BY DEF Waits
<1>6. OpenedAlone(c)'
  BY <1>1, <1>2, <1>3, <1>4 DEF OpenedAlone
<1>7. ASSUME NEW d \in Clients \ {c}, Opened(d) PROVE OpenedAlone(d)'
  <2>1. OpenedAlone(d) /\ call[d].name # call[c].name
    BY <1>2, <1>7 DEF OwnInv
  <2>2. call[d].name \in 1..MaxClock
    BY <1>7 DEF OwnInv, IInv, Known, Shape, Opened, Waits
  <2>3. scratch'[call[d].name] = scratch[call[d].name]
    BY <1>4, <2>1, <2>2
  <2> QED BY <1>1, <1>5, <1>7, <2>1, <2>3 DEF OpenedAlone
<1> QED BY <1>1, <1>6, <1>7 DEF OpenedAlone

\* A call removes the file and is done with it: it failed, or it has read it.
LEMMA FileRemoved ==
  ASSUME Permits <= 2, OwnInv, NEW c \in Clients, OthersKept(c), UNCHANGED clock,
         Waits(c, {"failed"}) \/ call[c].at = "clean",
         ~ Opened(c)', ~ Waits(c, {"spawned"})',
         scratch' = [scratch EXCEPT ![call[c].name] = None]
  PROVE  \A d \in Clients : OpenedAlone(d)'
<1> SUFFICES ASSUME NEW d \in Clients \ {c}, Opened(d) PROVE OpenedAlone(d)'
  BY OthersAsTheyWere DEF OpenedAlone
<1>1. \A e \in Clients \ {c} : /\ call'[e] = call[e]
                               /\ Waits(e, {"spawned"})' <=> Waits(e, {"spawned"})
                               /\ Opened(e)' <=> Opened(e)
  BY OthersAsTheyWere
<1>2. OpenedAlone(d) /\ call[d].at \in Capturing /\ call[c].at \in Capturing
  BY DEF OwnInv, Opened, Waits, Capturing
<1>3. \A e \in Clients \ {c, d} : Opened(e)' => call'[e].name # call'[d].name
  BY <1>1, <1>2 DEF OpenedAlone
<1>4. CASE call[d].name = call[c].name
  <2>1. Waits(c, {"failed"}) /\ clock > call[d].name
    <3>1. ~ Opened(c)
      BY <1>2, <1>4 DEF OpenedAlone
    <3> QED BY <1>4, <3>1 DEF Opened, OwnInv, ReadOwn
  <2>2. ASSUME NEW e \in Clients, Waits(e, {"spawned"})' PROVE FALSE
    <3>1. e # c /\ Waits(e, {"spawned"})
      BY <1>1, <2>2
    <3>2. e # d /\ call[e].at \in Capturing
      BY <3>1 DEF Opened, Waits, Capturing
    <3> QED BY <1>2, <3>1, <3>2, TwoHold
  <2>3. call[d].name \in 1..MaxClock
    BY <1>2 DEF OwnInv, IInv, Known, Shape, Capturing
  <2>4. scratch'[call[d].name] = None
    BY <1>4, <2>3 DEF OwnInv, IInv, FileTypes
  <2> QED BY <1>1, <1>3, <2>1, <2>2, <2>4 DEF OpenedAlone
<1>5. CASE call[d].name # call[c].name
  <2>1. scratch'[call[d].name] = scratch[call[d].name]
    <3>1. call[d].name \in 1..MaxClock
      BY <1>2 DEF OwnInv, IInv, Known, Shape, Capturing
    <3> QED BY <1>5, <3>1 DEF OwnInv, IInv, FileTypes
  <2> QED BY <1>1, <1>2, <1>3, <2>1 DEF OpenedAlone
<1> QED BY <1>4, <1>5

LEMMA ReadOwnKept ==
  ASSUME OwnInv, NEW c \in Clients, OthersKept(c), UNCHANGED clock, ReadOwn(c)'
  PROVE  \A d \in Clients : ReadOwn(d)'
BY OthersAsTheyWere DEF OwnInv, ReadOwn

\* The step of a call that is not recording, nor about to.
LEMMA CallApart ==
  ASSUME OwnInv, NEW c \in Clients, UNCHANGED clipVars,
         \A d \in Clients \ {c} : call'[d] = call[d],
         call'[c].at \notin {"wait", "read", "clean"},
         call'[c].at \in {"store", "rename"} /\ call'[c].kind = "clip" => call'[c].of = call'[c].run
  PROVE  \A d \in Clients : (OpenedAlone(d) /\ ReadOwn(d))'
<1>1. OthersKept(c) /\ UNCHANGED <<scratch, clock>>
  BY DEF OthersKept, clipVars
<1>2. ~ Opened(c)' /\ ~ Waits(c, {"spawned"})' /\ ReadOwn(c)'
  BY DEF Opened, Waits, ReadOwn
<1> QED BY <1>1, <1>2, ScratchKept, ReadOwnKept

LEMMA ClipOwn ==
  ASSUME Permits <= 2, OwnInv, NEW c \in Clients, Clip(c)
  PROVE  \A d \in Clients : (OpenedAlone(d) /\ ReadOwn(d))'
<1> DEFINE k == call[c].run
<1> DEFINE t == call[c].name
<1>1. CallTypes /\ FileTypes /\ Shape(c) /\ ReadOwn(c) /\ IInv
  BY DEF OwnInv, IInv, Known
<1>2. call[c].at \in {"spawn", "wait", "read", "clean"} /\ UNCHANGED clock
  BY DEF Clip, ClipStarts, Ffmpeg, ClipWaits, ClipReads, ClipCleans, clipVars
<1>3. call[c].at \in Capturing /\ call[c].kind = "clip" /\ t \in 1..MaxClock /\ k \in Runs
  <2>1. 1..calls \subseteq Runs
    BY <1>1, ArtifactsAssumption DEF CallTypes, Runs
  <2> QED BY <1>1, <1>2, <2>1 DEF Shape, Capturing
<1>4. ASSUME Fails(c) PROVE Leaves(c) /\ ~ Opened(c)' /\ ~ Waits(c, {"spawned"})' /\ ReadOwn(c)'
  <2>1. Leaves(c)
    BY <1>1, <1>4, Leaving DEF Fails
  <2> QED BY <2>1 DEF Leaves, NoCall, Opened, Waits, ReadOwn
<1>5. ASSUME Fails(c), UNCHANGED clipVars
      PROVE  \A d \in Clients : (OpenedAlone(d) /\ ReadOwn(d))'
  BY <1>4, <1>5, CallApart DEF Leaves, NoCall
<1>6. CASE ClipStarts(c)
  <2>1. CASE Fails(c) /\ UNCHANGED ffmpeg
    BY <1>5, <1>6, <2>1 DEF ClipStarts, clipVars
  <2>2. CASE /\ call' = [call EXCEPT ![c].at = "wait", ![c].name = clock]
             /\ ffmpeg' = [ffmpeg EXCEPT ![k] = "spawned"]
    <3>1. /\ call'[c] = [call[c] EXCEPT !.at = "wait", !.name = clock]
          /\ \A d \in Clients \ {c} : call'[d] = call[d]
      BY <1>1, <2>2 DEF CallTypes
    <3>2. call'[c].at = "wait" /\ call'[c].name = clock /\ call'[c].run = k
      BY <1>1, <3>1 DEF CallTypes, Calls
    <3>3. ffmpeg'[k] = "spawned" /\ \A j \in Runs : j # k => ffmpeg'[j] = ffmpeg[j]
      BY <1>1, <1>3, <2>2 DEF FileTypes
    <3>4. OthersKept(c)
      BY <1>1, <1>3, <3>1, <3>3, Apart
    <3>5. ~ Opened(c)' /\ ReadOwn(c)'
      BY <3>2, <3>3 DEF Opened, Waits, ReadOwn
    <3> QED BY <1>2, <1>6, <3>2, <3>4, <3>5, ScratchKept, ReadOwnKept DEF ClipStarts
  <2> QED BY <1>6, <2>1, <2>2 DEF ClipStarts
<1>7. CASE Ffmpeg(c)
  <2>1. UNCHANGED <<call, clock>> /\ call[c].at = "wait"
    BY <1>7 DEF Ffmpeg
  <2>2. \A j \in Runs : j # k => ffmpeg'[j] = ffmpeg[j]
    BY <1>1, <1>7 DEF Ffmpeg, FileTypes
  <2>3. OthersKept(c)
    BY <1>1, <1>3, <2>1, <2>2, Apart
  <2>4. CASE /\ ffmpeg[k] = "spawned" /\ scratch[t] = None
             /\ scratch' = [scratch EXCEPT ![t] = k]
             /\ ffmpeg' = [ffmpeg EXCEPT ![k] = "records"]
    <3>1. Waits(c, {"spawned"}) /\ Waits(c, {"records"})' /\ ReadOwn(c)'
      BY <1>1, <1>3, <2>1, <2>4 DEF Waits, ReadOwn, FileTypes
    <3> QED BY <2>1, <2>3, <2>4, <3>1, FileMade, ReadOwnKept
  <2>5. CASE /\ \/ ffmpeg[k] = "spawned" /\ scratch[t] # None /\ ffmpeg' = [ffmpeg EXCEPT ![k] = "failed"]
                \/ ffmpeg[k] = "records" /\ \E end \in {"done", "failed"} : ffmpeg' = [ffmpeg EXCEPT ![k] = end]
             /\ clock > t
             /\ UNCHANGED scratch
    <3>1. /\ ffmpeg'[k] \in {"done", "failed"}
          /\ ffmpeg'[k] = "done" => ffmpeg[k] = "records"
      BY <1>1, <1>3, <2>5 DEF FileTypes
    <3>2. ~ Waits(c, {"spawned"})' /\ (Opened(c)' => Opened(c)) /\ ReadOwn(c)'
      BY <2>1, <2>5, <3>1 DEF Waits, Opened, ReadOwn
    <3> QED BY <2>1, <2>3, <2>5, <3>2, ScratchKept, ReadOwnKept
  <2> QED BY <1>7, <2>4, <2>5 DEF Ffmpeg
<1>8. CASE ClipWaits(c)
  <2>1. call[c].at = "wait" /\ UNCHANGED <<clock, ffmpeg>>
    BY <1>8 DEF ClipWaits
  <2>2. CASE ffmpeg[k] = "done" /\ To(c, "read") /\ UNCHANGED scratch
    <3>1. Moves(c, "read", t, call[c].of)
      BY <1>1, <2>2, Moving DEF Steps, Capturing
    <3>2. OthersKept(c)
      BY <2>1, <3>1 DEF OthersKept, Moves
    <3>3. /\ Opened(c) /\ call'[c].name = call[c].name /\ call'[c].run = call[c].run
          /\ ~ Waits(c, {"spawned"})' /\ ReadOwn(c)'
      BY <2>1, <2>2, <3>1 DEF Opened, Waits, Moves, ReadOwn
    <3> QED BY <2>1, <2>2, <3>2, <3>3, ScratchKept, ReadOwnKept
  <2>3. CASE ffmpeg[k] = "failed" /\ scratch' = [scratch EXCEPT ![t] = None] /\ Fails(c)
    <3>1. OthersKept(c) /\ Waits(c, {"failed"})
      BY <1>4, <2>1, <2>3 DEF Leaves, OthersKept, Waits
    <3> QED BY <1>4, <2>1, <2>3, <3>1, FileRemoved, ReadOwnKept
  <2>4. CASE Fails(c) /\ UNCHANGED scratch
    BY <1>5, <2>1, <2>4 DEF clipVars
  <2> QED BY <1>8, <2>2, <2>3, <2>4 DEF ClipWaits
<1>9. CASE ClipReads(c)
  <2>1. call[c].at = "read" /\ UNCHANGED clipVars
    BY <1>9 DEF ClipReads
  <2>2. CASE Fails(c)
    BY <1>5, <2>1, <2>2
  <2>3. CASE scratch[t] # None /\ call' = [call EXCEPT ![c].at = "clean", ![c].of = scratch[t]]
    <3>1. /\ call'[c] = [call[c] EXCEPT !.at = "clean", !.of = scratch[t]]
          /\ \A d \in Clients \ {c} : call'[d] = call[d]
      BY <1>1, <2>3 DEF CallTypes
    <3>2. /\ call'[c].at = "clean" /\ call'[c].of = scratch[t]
          /\ call'[c].name = t /\ call'[c].run = k
      BY <1>1, <3>1 DEF CallTypes, Calls
    <3>3. Opened(c) /\ scratch[t] = k
      BY <2>1, <2>3 DEF Opened, OwnInv, OpenedAlone
    <3>4. OthersKept(c) /\ ~ Waits(c, {"spawned"})' /\ ReadOwn(c)'
      BY <2>1, <3>1, <3>2, <3>3 DEF OthersKept, Waits, ReadOwn, clipVars
    <3> QED BY <2>1, <3>2, <3>3, <3>4, ScratchKept, ReadOwnKept DEF clipVars
  <2> QED BY <1>9, <2>2, <2>3 DEF ClipReads
<1>10. CASE ClipCleans(c)
  <2>1. /\ call[c].at = "clean" /\ UNCHANGED <<clock, ffmpeg>> /\ To(c, "store")
        /\ scratch' = [scratch EXCEPT ![t] = None]
    BY <1>10 DEF ClipCleans
  <2>2. Moves(c, "store", t, call[c].of)
    BY <1>1, <2>1, Moving DEF Steps, Capturing
  <2>3. OthersKept(c) /\ ~ Opened(c)' /\ ~ Waits(c, {"spawned"})' /\ ReadOwn(c)'
    BY <1>1, <1>3, <2>1, <2>2 DEF Moves, OthersKept, Opened, Waits, ReadOwn
  <2> QED BY <2>1, <2>3, FileRemoved, ReadOwnKept
<1> QED BY <1>6, <1>7, <1>8, <1>9, <1>10 DEF Clip

\* The other steps of a call record nothing.
LEMMA OtherSteps ==
  ASSUME OwnInv, NEW c \in Clients,
         \/ \E kind \in {"snapshot", "clip"} : Capture(c, kind)
         \/ Store(c) \/ Delete(c) \/ Drop(c)
  PROVE  \A d \in Clients : (OpenedAlone(d) /\ ReadOwn(d))'
<1>1. CallTypes /\ ReadOwn(c)
  BY DEF OwnInv, IInv, Known
<1>2. ASSUME Ends(c), UNCHANGED clipVars PROVE \A d \in Clients : (OpenedAlone(d) /\ ReadOwn(d))'
  BY <1>1, <1>2, Leaving, CallApart DEF Leaves, NoCall
<1>3. ASSUME NEW at \in {"rename", "list", "unlist"}, To(c, at), UNCHANGED clipVars,
             at = "rename" => call[c].at = "store"
      PROVE \A d \in Clients : (OpenedAlone(d) /\ ReadOwn(d))'
  <2>1. Moves(c, at, call[c].name, call[c].of)
    BY <1>1, <1>3, Moving DEF Steps, Capturing, Deleting
  <2> QED BY <1>1, <1>3, <2>1, CallApart DEF Moves, ReadOwn
<1>4. ASSUME NEW kind, NEW at \in {"spawn", "store", "unlink"}, NEW of, Begin(c, kind, at, of),
             at = "store" => kind # "clip", UNCHANGED clipVars
      PROVE \A d \in Clients : (OpenedAlone(d) /\ ReadOwn(d))'
  <2>1. /\ call'[c] = [kind |-> kind, at |-> at, run |-> calls + 1, name |-> clock, of |-> of]
        /\ \A d \in Clients \ {c} : call'[d] = call[d]
    BY <1>1, <1>4 DEF Begin, CallTypes
  <2> QED BY <1>4, <2>1, CallApart
<1>5. ASSUME NEW kind \in {"snapshot", "clip"}, Capture(c, kind)
      PROVE \A d \in Clients : (OpenedAlone(d) /\ ReadOwn(d))'
  BY <1>4, <1>5 DEF Capture
<1>6. CASE Store(c)
  BY <1>2, <1>3, <1>6 DEF Store, StoreWrites, StoreRenames, StoreLists, Fails
<1>7. CASE Delete(c)
  BY <1>2, <1>3, <1>4, <1>7 DEF Delete, DeleteBegins, DeleteUnlinks, DeleteUnlists
<1>8. CASE Drop(c)
  BY <1>2, <1>8 DEF Drop
<1> QED BY <1>5, <1>6, <1>7, <1>8

LEMMA StepClips ==
  ASSUME Permits <= 2, OwnInv, [Next]_vars
  PROVE  \A d \in Clients : (OpenedAlone(d) /\ ReadOwn(d))'
<1>1. CASE Tick
  <2>1. clock \in Nat /\ clock' = clock + 1 /\ UNCHANGED <<call, scratch, ffmpeg>>
    BY <1>1, ArtifactsAssumption DEF Tick, OwnInv, IInv, Known, CallTypes
  <2>2. \A d \in Clients : call[d].name \in Nat
    BY ArtifactsAssumption DEF OwnInv, IInv, Known, CallTypes, Calls
  <2>3. \A d \in Clients : clock > call[d].name => clock' > call[d].name
    BY <2>1, <2>2
  <2> QED BY <2>1, <2>3 DEF OwnInv, OpenedAlone, ReadOwn, Opened, Waits
<1>2. CASE Restart
  BY <1>2 DEF Restart, NoCall, OpenedAlone, ReadOwn, Opened, Waits
<1>3. CASE Log \/ UNCHANGED vars
  BY <1>3 DEF Log, vars, clipVars, OwnInv, OpenedAlone, ReadOwn, Opened, Waits
<1> QED BY <1>1, <1>2, <1>3, ClipOwn, OtherSteps DEF Next

\* What is stored is what was read.
LEMMA StepFiles == OwnInv /\ [Next]_vars => OwnRecording'
<1> SUFFICES ASSUME OwnInv, [Next]_vars, files' # files PROVE OwnRecording'
  BY DEF OwnInv, OwnRecording
<1>1. PICK c \in Clients : StoreRenames(c) \/ DeleteUnlinks(c)
  BY DEF Next, vars, storeVars, Capture, Clip, ClipStarts, Ffmpeg, ClipWaits, ClipReads, ClipCleans,
     Store, StoreWrites, StoreLists, Delete, DeleteBegins, DeleteUnlists, Drop, Tick, Log, Restart
<1>2. OwnRecording /\ ReadOwn(c) /\ files \in [Runs -> Runs \cup {None}]
  BY DEF OwnInv, IInv, FileTypes
<1>3. CASE StoreRenames(c)
  BY <1>2, <1>3 DEF StoreRenames, OwnRecording, ReadOwn
<1>4. CASE DeleteUnlinks(c)
  BY <1>2, <1>4 DEF DeleteUnlinks, OwnRecording
<1> QED BY <1>1, <1>3, <1>4

\* With the two permits of the default configuration, a clip that is stored is
\* the recording of its own call, however many calls there are, in however few
\* milliseconds, whichever fail, are dropped, or were cut off by a restart.
THEOREM ClipsAreTheirOwn == Permits <= 2 => (Spec => []OwnRecording)
<1> SUFFICES ASSUME Permits <= 2 PROVE Spec => []OwnRecording
  OBVIOUS
<1>1. Init => OwnInv
  <2> SUFFICES ASSUME Init PROVE OwnInv
    OBVIOUS
  <2>1. Holding = {}
    BY DEF Init, Holding, NoCall
  <2>2. Cardinality(Holding) <= Permits
    BY <2>1, FS_EmptySet, ArtifactsAssumption
  <2> QED BY <2>2, InitIInv DEF Init, OwnInv, OpenedAlone, ReadOwn, Opened, Waits, NoCall, OwnRecording
<1>2. OwnInv /\ [Next]_vars => OwnInv'
  <2> SUFFICES ASSUME OwnInv, [Next]_vars PROVE OwnInv'
    OBVIOUS
  <2>1. IInv' /\ (Cardinality(Holding) <= Permits)'
    BY StepIInv, StepPermits DEF OwnInv, IInv, Known
  <2> QED BY <2>1, StepClips, StepFiles DEF OwnInv
<1>3. OwnInv => OwnRecording
  BY DEF OwnInv
<1> QED BY <1>1, <1>2, <1>3, PTL DEF Spec
=============================================================================
