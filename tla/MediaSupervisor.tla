--------------------------- MODULE MediaSupervisor ---------------------------
(***************************************************************************)
(* Browser playback: the registration of RTSP sources with the external    *)
(* media gateway (src/media.rs) and the supervision of their delivery      *)
(* (spawn_media_supervisor to set_media_health of src/sources.rs).         *)
(*                                                                         *)
(*   - a Client registers and removes playback, adds and removes the       *)
(*     source, asks for playback, or refreshes the telemetry: the same     *)
(*     cycle as the supervisor's, without its permit and in-flight mark;   *)
(*   - the supervisor checks, round after round, every source whose        *)
(*     delivery is known, one task per source under a shared permit;       *)
(*   - the gateway is a process of its own: it may stop and lose its       *)
(*     paths, and a call to it, or the answer, may be lost.                *)
(*                                                                         *)
(* One step is one call to the gateway or the code under one lock; the     *)
(* answer about a path and the sample taken of it are one step.  Time is   *)
(* the age of a source's last activity.  Left out: bitrates, codecs, URLs, *)
(* events, and requests refused for a reason that is not modelled (another *)
(* kind, not validated).                                                   *)
(***************************************************************************)
EXTENDS Naturals, FiniteSets

CONSTANTS
  Sources,
  Clients,       \* clients of the HTTP API, each with one request at a time
  Permits,       \* max_concurrent_checks, of the semaphore
  StallAfter,    \* stall_timeout_ms, as an age
  StartupAfter,  \* startup_timeout_ms, as an age
  MaxAge,        \* bound: ages are not told apart beyond it
  Faults,        \* bound: lost calls and stops of the gateway
  MayShutDown,   \* bound: whether the process may be told to stop
  None

ASSUME MediaAssumption ==
  /\ IsFiniteSet(Sources) /\ Sources \cap Clients = {}
  /\ Permits \in Nat \ {0}
  /\ {StallAfter, StartupAfter, MaxAge, Faults} \subseteq Nat
  /\ StallAfter < MaxAge /\ StartupAfter < MaxAge
  /\ MayShutDown \in BOOLEAN

\* Whoever runs run_media_cycle: the supervisor's task for a source, a client.
Checkers == Sources \cup Clients

VARIABLES
  present,     \* the sources registered with the service
  health,      \* media_health of each entry, told apart by what degraded it
  registered,  \* the adapter's set of registered sources
  sample,      \* the age of the last activity, in the adapter's last sample
  up,          \* whether the gateway answers
  path,        \* the gateway's path of each source
  moved,       \* whether its byte counter differs from the last sample's
  faults,      \* faults still to come
  sup,         \* where the supervisor is
  todo,        \* the sources of its round it has yet to look at
  inflight,    \* media_inflight
  permits,     \* free permits of health_semaphore
  pc,          \* the next step of each checker and client
  target,      \* the source each client works on
  answer,      \* what each cycle learnt from the gateway
  main,        \* where serve() is
  left,        \* paths shutdown() has yet to remove
  shutdown,    \* the shutdown watch channel
  unsure       \* history: an edit of the source was cut short or lost

entryVars == <<present, health>>
gatewayVars == <<up, path, moved, faults>>
roundVars == <<sup, todo, inflight, permits>>
mainVars == <<main, left, shutdown>>
vars == <<entryVars, registered, sample, gatewayVars, roundVars, pc, target, answer,
          mainVars, unsure>>

Never == MaxAge + 1    \* the age of an activity that never was
Ready == {"flowing", "frozen"}

Goto(v, step) == pc' = [pc EXCEPT ![v] = step]
Of(v) == IF v \in Sources THEN v ELSE target[v]
SetHealth(s, h) == health' = IF s \in present THEN [health EXCEPT ![s] = h] ELSE health

\* The steps at which a client has changed, or may have changed, one of the
\* gateway and the adapter and not yet the other or the entry.
EditSteps == {"add", "patch", "insert", "healthy", "delete", "forget", "unknown",
              "drop_path", "drop_mark", "drop_entry"}
Edited(s) == \E c \in Clients : pc[c] \in EditSteps /\ target[c] = s

Init ==
  /\ present = Sources
  /\ health = [s \in Sources |-> "unknown"]
  /\ registered = {}
  /\ sample = [s \in Sources |-> None]
  /\ up \in BOOLEAN
  /\ path = [s \in Sources |-> "absent"]
  /\ moved = [s \in Sources |-> FALSE]
  /\ faults = Faults
  /\ sup = "wait" /\ todo = {} /\ inflight = {}
  /\ permits = Permits
  /\ pc = [v \in Checkers |-> "none"]
  /\ target = [c \in Clients |-> None]
  /\ answer = [v \in Checkers |-> None]
  /\ main = "serving" /\ left = {} /\ shutdown = FALSE
  /\ unsure = [s \in Sources |-> FALSE]

-----------------------------------------------------------------------------
(* The gateway.                                                            *)

Fault == faults > 0 /\ faults' = faults - 1

WithPath(s) == [path EXCEPT ![s] = IF @ = "absent" THEN "waiting" ELSE @]
WithoutPath(s) == [path EXCEPT ![s] = "absent"]

\* A process that ends and comes back has lost the paths added to it.
GatewayStops ==
  /\ up /\ Fault
  /\ up' = FALSE
  /\ path' = [s \in Sources |-> "absent"]
  /\ moved' = [s \in Sources |-> FALSE]
  /\ unsure' = [s \in Sources |-> TRUE]
  /\ UNCHANGED <<entryVars, registered, sample, roundVars, pc, target, answer, mainVars>>

GatewayStarts ==
  /\ ~up
  /\ up' = TRUE
  /\ UNCHANGED <<entryVars, registered, sample, path, moved, faults, roundVars, pc,
                 target, answer, mainVars, unsure>>

\* The camera behind a path comes, goes or freezes; media that flowed was
\* counted.
CameraChanges(s) ==
  /\ path[s] # "absent"
  /\ \E state \in {"waiting"} \cup Ready : path' = [path EXCEPT ![s] = state]
  /\ moved' = [moved EXCEPT ![s] = @ \/ path[s] = "flowing"]
  /\ UNCHANGED <<entryVars, registered, sample, up, faults, roundVars, pc,
                 target, answer, mainVars, unsure>>

\* A call for s of which the caller learns nothing: it was applied, or not.
Lost(op, s) ==
  /\ path' \in {path, IF op = "add" THEN WithPath(s) ELSE WithoutPath(s)}
  /\ unsure' = [unsure EXCEPT ![s] = TRUE]
  /\ UNCHANGED <<up, moved>>

\* After an answer about s the caller knows what the gateway has.
Sure(s) == unsure' = [unsure EXCEPT ![s] = FALSE]

-----------------------------------------------------------------------------
(* register_playback(), remove_playback() and remove().                    *)

clientUnchanged == <<roundVars, sample, answer, mainVars>>

\* A request, past the guards its handler checks first.
Request(c) ==
  /\ pc[c] = "none" /\ ~shutdown
  /\ \E s \in Sources :
       /\ target' = [target EXCEPT ![c] = s]
       /\ IF s \in present
          THEN \E step \in {"add", "delete", "drop_path", "play", "read"} : Goto(c, step)
          ELSE Goto(c, "add_entry")
  /\ UNCHANGED <<entryVars, registered, gatewayVars, unsure, clientUnchanged>>

\* add(): a new entry, whose delivery is unknown.
AddEntry(e) ==
  /\ pc[e] = "add_entry"
  /\ Goto(e, "none")
  /\ IF target[e] \in present THEN UNCHANGED entryVars
     ELSE /\ present' = present \cup {target[e]}
          /\ health' = [health EXCEPT ![target[e]] = "unknown"]
  /\ UNCHANGED <<registered, gatewayVars, target, unsure, clientUnchanged>>

\* POST paths/add: a path that exists answers 400, and is patched.
PostPath(e) ==
  LET s == target[e] IN
  /\ pc[e] = "add"
  /\ \/ /\ up /\ path[s] = "absent"
        /\ path' = WithPath(s)
        /\ \E differs \in BOOLEAN : moved' = [moved EXCEPT ![s] = differs]
        /\ Goto(e, "insert") /\ Sure(s)
        /\ UNCHANGED <<up, faults>>
     \/ up /\ path[s] # "absent" /\ Goto(e, "patch") /\ UNCHANGED <<gatewayVars, unsure>>
     \/ ~up /\ Goto(e, "failed") /\ UNCHANGED <<gatewayVars, unsure>>
     \/ up /\ Fault /\ Lost("add", s) /\ Goto(e, "failed")
  /\ UNCHANGED <<entryVars, registered, target, clientUnchanged>>

\* Mutant: a source whose path exists is not put into the set again.
PatchPathOnly(e) ==
  LET s == target[e] IN
  /\ pc[e] = "patch"
  /\ \/ up /\ path[s] # "absent" /\ Goto(e, "healthy") /\ Sure(s) /\ UNCHANGED gatewayVars
     \/ (~up \/ path[s] = "absent") /\ Goto(e, "failed") /\ UNCHANGED <<gatewayVars, unsure>>
     \/ up /\ Fault /\ Goto(e, "failed") /\ UNCHANGED <<up, path, moved, unsure>>
  /\ UNCHANGED <<entryVars, registered, target, clientUnchanged>>

PatchPath(e) ==
  LET s == target[e] IN
  /\ pc[e] = "patch"
  /\ \/ up /\ path[s] # "absent" /\ Goto(e, "insert") /\ Sure(s) /\ UNCHANGED gatewayVars
     \/ (~up \/ path[s] = "absent") /\ Goto(e, "failed") /\ UNCHANGED <<gatewayVars, unsure>>
     \/ up /\ Fault /\ Goto(e, "failed") /\ UNCHANGED <<up, path, moved, unsure>>
  /\ UNCHANGED <<entryVars, registered, target, clientUnchanged>>

\* registered.insert()
Insert(e) ==
  /\ pc[e] = "insert"
  /\ registered' = registered \cup {target[e]}
  /\ Goto(e, "healthy")
  /\ UNCHANGED <<entryVars, gatewayVars, target, unsure, clientUnchanged>>

\* set_media_health() at the end of a registration; a good one goes on to
\* playback().
Registers(e) ==
  /\ \/ pc[e] = "healthy" /\ SetHealth(target[e], "healthy") /\ Goto(e, "play")
     \/ pc[e] = "failed" /\ SetHealth(target[e], "unavailable") /\ Goto(e, "none")
  /\ UNCHANGED <<present, registered, gatewayVars, target, unsure, clientUnchanged>>

\* DELETE paths/delete, of remove_playback() or remove(); 404 is an answer as
\* good as 200.  A failure ends remove_playback(), and remove() ignores it.
DeletePath(e) ==
  LET s == target[e]
      dropping == pc[e] = "drop_path" IN
  /\ pc[e] \in {"delete", "drop_path"}
  /\ \/ /\ up
        /\ path' = WithoutPath(s)
        /\ Goto(e, IF dropping THEN "drop_mark" ELSE "forget") /\ Sure(s)
        /\ UNCHANGED <<up, moved, faults>>
     \/ /\ Goto(e, IF dropping THEN "drop_entry" ELSE "none")
        /\ \/ ~up /\ UNCHANGED <<gatewayVars, unsure>>
           \/ up /\ Fault /\ Lost("delete", s)
  /\ UNCHANGED <<entryVars, registered, target, clientUnchanged>>

\* registered.remove()
Forget(e) ==
  /\ pc[e] \in {"forget", "drop_mark"}
  /\ registered' = registered \ {target[e]}
  /\ Goto(e, IF pc[e] = "forget" THEN "unknown" ELSE "drop_entry")
  /\ UNCHANGED <<entryVars, gatewayVars, target, unsure, clientUnchanged>>

\* The entry's delivery is unknown from now on, or the entry is removed.
EditEnds(e) ==
  /\ pc[e] \in {"unknown", "drop_entry"}
  /\ IF pc[e] = "unknown"
     THEN SetHealth(target[e], "unknown") /\ UNCHANGED present
     ELSE present' = present \ {target[e]} /\ UNCHANGED health
  /\ Goto(e, "none")
  /\ UNCHANGED <<registered, gatewayVars, target, unsure, clientUnchanged>>

\* playback(): contains_key, the registered set, the gateway's health.
PlaybackBegins(c) ==
  /\ pc[c] = "play"
  /\ Goto(c, IF target[c] \in present THEN "play_mark" ELSE "none")
  /\ UNCHANGED <<entryVars, registered, gatewayVars, target, unsure, clientUnchanged>>

PlaybackAsks(c) ==
  /\ \/ /\ pc[c] = "play_mark"
        /\ Goto(c, IF target[c] \in registered THEN "play_ask" ELSE "play_bad")
        /\ UNCHANGED faults
     \/ /\ pc[c] = "play_ask"
        /\ \/ Goto(c, IF up THEN "play_good" ELSE "play_bad") /\ UNCHANGED faults
           \/ up /\ Fault /\ Goto(c, "play_bad")
  /\ UNCHANGED <<entryVars, registered, up, path, moved, target, unsure, clientUnchanged>>

\* Mutant: a failed playback request leaves the delivery unknown.
PlaybackEndsUnknown(c) ==
  /\ \/ pc[c] = "play_good" /\ SetHealth(target[c], "healthy")
     \/ pc[c] = "play_bad" /\ SetHealth(target[c], "unknown")
  /\ Goto(c, "none")
  /\ UNCHANGED <<present, registered, gatewayVars, target, unsure, clientUnchanged>>

PlaybackEnds(c) ==
  /\ \/ pc[c] = "play_good" /\ SetHealth(target[c], "healthy")
     \/ pc[c] = "play_bad" /\ SetHealth(target[c], "unavailable")
  /\ Goto(c, "none")
  /\ UNCHANGED <<present, registered, gatewayVars, target, unsure, clientUnchanged>>

\* The client disconnects: the server drops the handler where it is, and the
\* call in hand may have been sent.
Leaves(c) ==
  /\ pc[c] # "none"
  /\ Goto(c, "none")
  /\ CASE pc[c] = "add" -> Lost("add", target[c]) /\ UNCHANGED faults
       [] pc[c] \in {"delete", "drop_path"} -> Lost("delete", target[c]) /\ UNCHANGED faults
       [] OTHER -> /\ unsure' = IF pc[c] \in EditSteps
                                THEN [unsure EXCEPT ![target[c]] = TRUE] ELSE unsure
                   /\ UNCHANGED gatewayVars
  /\ answer' = [answer EXCEPT ![c] = None]
  /\ UNCHANGED <<entryVars, registered, sample, roundVars, target, mainVars>>

-----------------------------------------------------------------------------
(* run_media_cycle(), for a task of the supervisor or a client's refresh.   *)

cycleUnchanged == <<registered, up, path, roundVars, target, mainVars, unsure>>

\* After a cycle a task gives its permit back, a client answers.
Over(v) == IF v \in Sources THEN "release" ELSE "none"

ReadEntry(v) ==
  /\ pc[v] = "read"
  /\ Goto(v, IF Of(v) \in present THEN "mark" ELSE Over(v))
  /\ UNCHANGED <<entryVars, sample, moved, faults, answer, cycleUnchanged>>

Learn(v, state, step) == answer' = [answer EXCEPT ![v] = state] /\ Goto(v, step)

\* telemetry(): the registered set, then the gateway's health.
AskHealth(v) ==
  /\ \/ pc[v] = "mark" /\ UNCHANGED faults
        /\ IF Of(v) \in registered THEN Goto(v, "ask") /\ UNCHANGED answer
           ELSE Learn(v, "unavailable", "write")
     \/ pc[v] = "ask"
        /\ \/ up /\ Goto(v, "get") /\ UNCHANGED <<answer, faults>>
           \/ ~up /\ Learn(v, "unavailable", "write") /\ UNCHANGED faults
           \/ up /\ Fault /\ Learn(v, "unavailable", "write")
  /\ UNCHANGED <<entryVars, sample, moved, cycleUnchanged>>

\* Mutant: a path that is ready counts as active.
ActivityWhenReady(s) ==
  IF path[s] \in Ready THEN 0
  ELSE IF sample[s] = None THEN Never ELSE sample[s]

\* The age of the last activity of s: media is active when the path is ready
\* and its counter differs from the last sample's, whichever cycle took it.
Activity(s) ==
  IF path[s] \in Ready /\ (path[s] = "flowing" \/ moved[s] \/ sample[s] = None) THEN 0
  ELSE IF sample[s] = None THEN Never ELSE sample[s]

\* The state of the delivery: a path that is not ready is starting, and either
\* is stalled once its activity is too old.  A path that never was active has
\* no start time either until it is ready, so nothing times it out.
StateOf(ready, age) ==
  IF age # Never /\ age > (IF ready THEN StallAfter ELSE StartupAfter) THEN "stalled"
  ELSE IF ready THEN "healthy" ELSE "starting"

\* GET paths/get: a sample, a 404, or no answer.
GetPath(v) ==
  LET s == Of(v) IN
  /\ pc[v] = "get"
  /\ \/ /\ up /\ path[s] # "absent"
        /\ sample' = [sample EXCEPT ![s] = Activity(s)]
        /\ moved' = [moved EXCEPT ![s] = FALSE]
        /\ Learn(v, StateOf(path[s] \in Ready, Activity(s)), "write")
        /\ UNCHANGED faults
     \/ /\ Learn(v, "unavailable", "write")
        /\ \/ (~up \/ path[s] = "absent") /\ UNCHANGED faults
           \/ up /\ Fault
        /\ UNCHANGED <<sample, moved>>
  /\ UNCHANGED <<entryVars, cycleUnchanged>>

\* The entry of that id, if there is one, is overwritten.
Write(v) ==
  /\ pc[v] = "write"
  /\ SetHealth(Of(v), answer[v])
  /\ Learn(v, None, Over(v))
  /\ UNCHANGED <<present, sample, moved, faults, cycleUnchanged>>

\* Time passes for the last activity of s.
Age(s) ==
  /\ sample[s] # None /\ sample[s] < MaxAge
  /\ sample' = [sample EXCEPT ![s] = @ + 1]
  /\ UNCHANGED <<entryVars, registered, gatewayVars, roundVars, pc, target, answer,
                 mainVars, unsure>>

-----------------------------------------------------------------------------
(* supervise_media_once() and the task that repeats it.                    *)

supUnchanged == <<entryVars, registered, sample, gatewayVars, target, answer, mainVars, unsure>>

\* Mutant: a round looks at healthy sources only.
SupervisableHealthy == {s \in present : health[s] = "healthy"}

\* The sources a round looks at.
Supervisable == {s \in present : health[s] # "unknown"}

Collect ==
  /\ sup = "wait" /\ ~shutdown
  /\ sup' = "round"
  /\ todo' = Supervisable
  /\ UNCHANGED <<inflight, permits, pc, supUnchanged>>

SpawnTask(s) ==
  /\ sup = "round" /\ s \in todo
  /\ todo' = todo \ {s}
  /\ inflight' = inflight \cup {s}
  /\ IF s \in inflight THEN UNCHANGED pc ELSE Goto(s, "permit")
  /\ UNCHANGED <<sup, permits, supUnchanged>>

Acquire(s) ==
  /\ pc[s] = "permit" /\ permits > 0
  /\ permits' = permits - 1
  /\ Goto(s, "read")
  /\ UNCHANGED <<sup, todo, inflight, supUnchanged>>

\* Mutant: the permit is given back twice.
TaskEndsTwice(s) ==
  /\ \/ pc[s] = "release" /\ permits' = permits + 1 /\ Goto(s, "unmark") /\ UNCHANGED inflight
     \/ pc[s] = "unmark" /\ inflight' = inflight \ {s} /\ Goto(s, "none") /\ permits' = permits + 1
  /\ UNCHANGED <<sup, todo, supUnchanged>>

\* The permit is dropped, then the mark is removed.
TaskEnds(s) ==
  /\ \/ pc[s] = "release" /\ permits' = permits + 1 /\ Goto(s, "unmark") /\ UNCHANGED inflight
     \/ pc[s] = "unmark" /\ inflight' = inflight \ {s} /\ Goto(s, "none") /\ UNCHANGED permits
  /\ UNCHANGED <<sup, todo, supUnchanged>>

RoundEnds ==
  /\ sup = "round" /\ todo = {} /\ \A s \in Sources : pc[s] = "none"
  /\ sup' = "wait"
  /\ UNCHANGED <<todo, inflight, permits, pc, supUnchanged>>

SupervisorEnds ==
  /\ sup = "wait" /\ shutdown
  /\ sup' = "ended"
  /\ UNCHANGED <<todo, inflight, permits, pc, supUnchanged>>

-----------------------------------------------------------------------------
(* The end of serve(): the server's requests are over, then shutdown() of   *)
(* the adapter removes every path it knows, and goes on when one fails.     *)

mainUnchanged == <<entryVars, sample, roundVars, pc, target, answer>>

ShutDown ==
  /\ MayShutDown /\ ~shutdown
  /\ shutdown' = TRUE
  /\ UNCHANGED <<registered, gatewayVars, main, left, unsure, mainUnchanged>>

\* Mutant: only the paths that deliver are removed.
CloseBeginsHealthy ==
  /\ main = "serving" /\ shutdown /\ \A c \in Clients : pc[c] = "none"
  /\ main' = "closing"
  /\ left' = {s \in registered : health[s] = "healthy"}
  /\ UNCHANGED <<registered, gatewayVars, shutdown, unsure, mainUnchanged>>

CloseBegins ==
  /\ main = "serving" /\ shutdown /\ \A c \in Clients : pc[c] = "none"
  /\ main' = "closing"
  /\ left' = registered
  /\ UNCHANGED <<registered, gatewayVars, shutdown, unsure, mainUnchanged>>

\* remove_source() of one: nobody else edits the set any more.
CloseOne(s) ==
  /\ main = "closing" /\ s \in left
  /\ left' = left \ {s}
  /\ \/ up /\ path' = WithoutPath(s) /\ registered' = registered \ {s} /\ Sure(s)
        /\ UNCHANGED <<up, moved, faults>>
     \/ ~up /\ UNCHANGED <<registered, gatewayVars, unsure>>
     \/ up /\ Fault /\ Lost("delete", s) /\ UNCHANGED registered
  /\ UNCHANGED <<main, shutdown, mainUnchanged>>

CloseEnds ==
  /\ main = "closing" /\ left = {}
  /\ main' = "closed"
  /\ UNCHANGED <<registered, gatewayVars, left, shutdown, unsure, mainUnchanged>>

-----------------------------------------------------------------------------

Gateway ==
  \/ GatewayStops \/ GatewayStarts
  \/ \E s \in Sources : CameraChanges(s)

Edit(e) ==
  \/ AddEntry(e) \/ PostPath(e) \/ PatchPath(e) \/ Insert(e) \/ Registers(e)
  \/ DeletePath(e) \/ Forget(e) \/ EditEnds(e)
Play(c) == PlaybackBegins(c) \/ PlaybackAsks(c) \/ PlaybackEnds(c)
Cycle(v) == ReadEntry(v) \/ AskHealth(v) \/ GetPath(v) \/ Write(v)
Round == (\E s \in Sources : SpawnTask(s) \/ TaskEnds(s)) \/ RoundEnds \/ Collect \/ SupervisorEnds
Close == CloseBegins \/ (\E s \in Sources : CloseOne(s)) \/ CloseEnds

Next ==
  \/ Gateway \/ Round \/ ShutDown \/ Close
  \/ \E c \in Clients : Request(c) \/ Edit(c) \/ Play(c) \/ Leaves(c)
  \/ \E v \in Checkers : Cycle(v)
  \/ \E s \in Sources : Acquire(s) \/ Age(s)

Spec == Init /\ [][Next]_vars

\* Tasks run on, and time passes.  Waiters of the semaphore are served in the
\* order they came.  Nothing is assumed of clients' wishes, the camera and
\* the gateway.
FairSpec ==
  /\ Spec
  /\ WF_vars(Round) /\ WF_vars(Close)
  /\ \A c \in Clients : WF_vars(Edit(c)) /\ WF_vars(Play(c))
  /\ \A v \in Checkers : WF_vars(Cycle(v))
  /\ \A s \in Sources : SF_vars(Acquire(s)) /\ WF_vars(Age(s))

-----------------------------------------------------------------------------
(* Properties.                                                             *)

TypeOK ==
  /\ present \subseteq Sources /\ registered \subseteq Sources /\ inflight \subseteq Sources
  /\ health \in [Sources -> {"unknown", "healthy", "starting", "stalled", "unavailable"}]
  /\ path \in [Sources -> {"absent", "waiting"} \cup Ready]
  /\ permits \in 0..Permits
  /\ sample \in [Sources -> {None, Never} \cup 0..MaxAge]
  /\ faults \in 0..Faults
  /\ sup \in {"wait", "round", "ended"} /\ main \in {"serving", "closing", "closed"}

\* The adapter's set and the gateway's paths agree on every source that no
\* client is editing, unless an answer was lost, a request was cut short, or
\* the gateway restarted, since the last edit that was answered
\* (register_source and remove_source of src/media.rs).
InStep == \A s \in Sources :
  Edited(s) \/ unsure[s] \/ (s \in registered <=> path[s] # "absent")

\* Every registered source is looked at by the next round: no order of
\* registrations, removals, playback requests and telemetry leaves its delivery
\* unknown, which supervise_media_once passes over.
Supervised == \A s \in registered \cap present :
  Edited(s) \/ unsure[s] \/ health[s] # "unknown"

\* shutdown() leaves no path behind, except where an answer was lost.
PathsCleared ==
  main = "closed" => \A s \in Sources : path[s] = "absent" \/ unsure[s]

\* Where the supervisor's check of each source is.
PoolStage == [s \in Sources |->
  IF pc[s] = "none" THEN "out"
  ELSE IF pc[s] = "permit" THEN "queued"
  ELSE IF pc[s] = "unmark" THEN "leaving"
  ELSE "working"]

Pool == INSTANCE CheckPool WITH Keys <- Sources, stage <- PoolStage

\* The rounds of the supervisor are a pool of checks, like those of the health
\* monitor: one per source, as many at work as there are permits, each leaving
\* once, although a source is marked again while its check is in flight.
PoolSpec == Pool!Spec

Steady(s, state) ==
  /\ up /\ path[s] = state /\ ~unsure[s] /\ ~shutdown
  /\ s \in registered \cap present

\* A registered source whose media flows is shown healthy again and again,
\* whatever went wrong before and whatever clients ask meanwhile.
Recovers == \A s \in Sources :
  <>[]Steady(s, "flowing") =>
    []<>(health[s] = "healthy")

\* A source whose media froze after it was active is shown as stalled.
StallSeen == \A s \in Sources :
  <>[](Steady(s, "frozen") /\ sample[s] \in 0..MaxAge)
    => []<>(health[s] = "stalled")
=============================================================================
