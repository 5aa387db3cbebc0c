--------------------------- MODULE HealthMonitor ---------------------------
(***************************************************************************)
(* Validation of RTSP sources and their bounded recovery: monitor_once,    *)
(* run_health_cycle, mark_* and validate of src/sources.rs.                *)
(*                                                                         *)
(*   - a Caller runs rounds of monitor_once: the periodic monitor task, or *)
(*     any other caller of that public function;                           *)
(*   - a round spawns one cycle per RTSP source that has none in flight; a *)
(*     cycle takes a permit of the shared semaphore, validates the source, *)
(*     and retries with a backoff while the failure is retryable;          *)
(*   - a Client is a request that validates a source by itself.            *)
(*                                                                         *)
(* Sources are removed and registered again meanwhile, possibly under      *)
(* another kind.  One step is the code between two points where a lock is  *)
(* released.  Left out: timestamps, messages and events; the delays, so    *)
(* that a wait ends at any time.                                           *)
(***************************************************************************)
EXTENDS Naturals, FiniteSets

CONSTANTS
  Sources,      \* the ids a source can be registered under
  Monitor,      \* the task of spawn_health_monitor
  Callers,      \* the tasks that call monitor_once
  Clients,      \* requests that validate a source
  Permits,      \* max_concurrent_checks
  MaxAttempts,  \* health.max_attempts
  None,
  Churn,        \* bound: whether sources are removed and added
  Leave,        \* whether a client may disconnect before the answer
  MayShutDown   \* bound: whether the process may be told to stop

ASSUME HealthAssumption ==
  /\ Permits \in Nat \ {0} /\ MaxAttempts \in Nat
  /\ None \notin Sources
  /\ IsFiniteSet(Sources) /\ IsFiniteSet(Callers)
  /\ Clients \cap (Callers \X Sources) = {}
  /\ {Churn, Leave, MayShutDown} \subseteq BOOLEAN

Cycles == Callers \X Sources
\* Whoever runs validate().
Checkers == Cycles \cup Clients

VARIABLES
  kind,         \* kind of each entry; "absent" when not registered
  validation,   \* ValidationState of each entry
  health,       \* StreamHealth of each entry
  recovery,     \* RecoveryState of each entry
  attempts,     \* recovery_attempts of each entry
  component,    \* the HealthMonitor component "source:<id>"
  inflight,     \* health_inflight
  permits,      \* free permits of health_semaphore
  round,        \* where each caller is in monitor_once
  todo,         \* the ids of its round that it has yet to spawn
  pc,           \* the next step of each cycle and client
  target,       \* the source each client validates
  attempt,      \* the retry each cycle is at
  shutdown      \* the shutdown watch channel

entryVars == <<kind, validation, health, recovery, attempts>>
roundVars == <<inflight, permits, round, todo>>
checkVars == <<pc, target, attempt>>
vars == <<entryVars, component, roundVars, checkVars, shutdown>>

Kinds == {"rtsp", "other"}
Registered(s) == kind[s] # "absent"
SourceOf(v) == IF v \in Clients THEN target[v] ELSE v[2]
Goto(v, step) == pc' = [pc EXCEPT ![v] = step]

Init ==
  /\ kind = [s \in Sources |-> "rtsp"]
  /\ validation = [s \in Sources |-> "unknown"]
  /\ health = [s \in Sources |-> "unknown"]
  /\ recovery = [s \in Sources |-> "idle"]
  /\ attempts = [s \in Sources |-> 0]
  /\ component = [s \in Sources |-> "none"]
  /\ inflight = {}
  /\ permits = Permits
  /\ round = [m \in Callers |-> "idle"]
  /\ todo = [m \in Callers |-> {}]
  /\ pc = [v \in Checkers |-> "none"]
  /\ target = [c \in Clients |-> None]
  /\ attempt = [k \in Cycles |-> 0]
  /\ shutdown = FALSE

-----------------------------------------------------------------------------
(* The sources map.                                                        *)

\* The end of remove(); the component of the source is left as it is.
Remove(s) ==
  /\ Churn
  /\ Registered(s)
  /\ kind' = [kind EXCEPT ![s] = "absent"]
  /\ UNCHANGED <<validation, health, recovery, attempts, component, roundVars,
                 checkVars, shutdown>>

Add(s) ==
  /\ Churn
  /\ ~Registered(s)
  /\ \E k \in Kinds : kind' = [kind EXCEPT ![s] = k]
  /\ validation' = [validation EXCEPT ![s] = "unknown"]
  /\ health' = [health EXCEPT ![s] = "unknown"]
  /\ recovery' = [recovery EXCEPT ![s] = "idle"]
  /\ attempts' = [attempts EXCEPT ![s] = 0]
  /\ UNCHANGED <<component, roundVars, checkVars, shutdown>>

-----------------------------------------------------------------------------
(* validate(), for a request or a cycle.                                   *)

\* The entry is marked and its options are read; Err when it is not an RTSP
\* source.
CheckBegins(v, failed) ==
  LET s == SourceOf(v) IN
  /\ pc[v] = "begin"
  /\ IF kind[s] = "rtsp"
     THEN /\ validation' = [validation EXCEPT ![s] = "validating"]
          /\ Goto(v, "checking")
     ELSE /\ Goto(v, failed)
          /\ UNCHANGED validation

\* The validator's answer is applied to the entry of that id, if there is one.
Apply(v, ok) ==
  LET s == SourceOf(v) IN
  /\ pc[v] = "checking"
  /\ Registered(s)
  /\ validation' = [validation EXCEPT ![s] = IF ok THEN "validated" ELSE "failed"]
  /\ health' = [health EXCEPT ![s] = IF ok THEN "healthy" ELSE "unhealthy"]

-----------------------------------------------------------------------------
(* Requests.                                                               *)

Request(c) ==
  /\ pc[c] = "none"
  /\ \E s \in Sources : target' = [target EXCEPT ![c] = s]
  /\ Goto(c, "begin")
  /\ UNCHANGED <<entryVars, component, roundVars, attempt, shutdown>>

RequestBegins(c) ==
  /\ CheckBegins(c, "none")
  /\ UNCHANGED <<kind, health, recovery, attempts, component, roundVars, target, attempt,
                 shutdown>>

RequestEnds(c) ==
  /\ \E ok \in BOOLEAN : Apply(c, ok)
  /\ Goto(c, "none")
  /\ UNCHANGED <<kind, recovery, attempts, component, roundVars, target, attempt, shutdown>>

\* The source is gone.
RequestFails(c) ==
  /\ pc[c] = "checking"
  /\ ~Registered(target[c])
  /\ Goto(c, "none")
  /\ UNCHANGED <<entryVars, component, roundVars, target, attempt, shutdown>>

\* The client disconnects, and the handler is dropped where it is.
Abandon(c) ==
  /\ Leave
  /\ pc[c] # "none"
  /\ Goto(c, "none")
  /\ UNCHANGED <<entryVars, component, roundVars, target, attempt, shutdown>>

-----------------------------------------------------------------------------
(* monitor_once.                                                           *)

Tick(m) ==
  /\ round[m] = "idle"
  /\ round' = [round EXCEPT ![m] = "round"]
  /\ todo' = [todo EXCEPT ![m] = {s \in Sources : kind[s] = "rtsp"}]
  /\ UNCHANGED <<entryVars, component, inflight, permits, checkVars, shutdown>>

\* Mutant: a cycle that is in flight is not looked for.
SpawnAlways(m) ==
  \E s \in todo[m] :
    /\ todo' = [todo EXCEPT ![m] = @ \ {s}]
    /\ inflight' = inflight \cup {s}
    /\ Goto(<<m, s>>, "queued")
    /\ attempt' = [attempt EXCEPT ![<<m, s>>] = 0]
    /\ UNCHANGED <<entryVars, component, permits, round, target, shutdown>>

Spawn(m) ==
  \E s \in todo[m] :
    /\ todo' = [todo EXCEPT ![m] = @ \ {s}]
    /\ IF s \in inflight THEN UNCHANGED <<inflight, pc, attempt>>
       ELSE /\ inflight' = inflight \cup {s}
            /\ Goto(<<m, s>>, "queued")
            /\ attempt' = [attempt EXCEPT ![<<m, s>>] = 0]
    /\ UNCHANGED <<entryVars, component, permits, round, target, shutdown>>

\* The round is over when every cycle it spawned is.
RoundEnds(m) ==
  /\ round[m] = "round"
  /\ todo[m] = {}
  /\ \A s \in Sources : pc[<<m, s>>] = "none"
  /\ round' = [round EXCEPT ![m] = "idle"]
  /\ UNCHANGED <<entryVars, component, inflight, permits, todo, checkVars, shutdown>>

\* The monitor hears the signal between two rounds.
MonitorEnds ==
  /\ Monitor \in Callers /\ round[Monitor] = "idle"
  /\ shutdown
  /\ round' = [round EXCEPT ![Monitor] = "ended"]
  /\ UNCHANGED <<entryVars, component, inflight, permits, todo, checkVars, shutdown>>

-----------------------------------------------------------------------------
(* run_health_cycle.                                                       *)

\* Mutant: nobody waits for a permit.
AcquireAtOnce(k) ==
  /\ pc[k] = "queued"
  /\ permits' = IF permits > 0 THEN permits - 1 ELSE 0
  /\ Goto(k, "begin")
  /\ UNCHANGED <<entryVars, component, inflight, round, todo, target, attempt, shutdown>>

Acquire(k) ==
  /\ pc[k] = "queued"
  /\ permits > 0
  /\ permits' = permits - 1
  /\ Goto(k, "begin")
  /\ UNCHANGED <<entryVars, component, inflight, round, todo, target, attempt, shutdown>>

CycleBegins(k) ==
  /\ CheckBegins(k, "release")
  /\ UNCHANGED <<kind, health, recovery, attempts, component, roundVars, target, attempt,
                 shutdown>>

CycleSucceeds(k) ==
  /\ Apply(k, TRUE)
  /\ Goto(k, "recovered")
  /\ UNCHANGED <<kind, recovery, attempts, component, roundVars, target, attempt, shutdown>>

\* Mutant: the attempts are not counted.
CycleFailsForever(k) ==
  /\ Apply(k, FALSE)
  /\ \E retryable \in BOOLEAN :
       Goto(k, IF retryable /\ MaxAttempts > 0 THEN "retry" ELSE "exhausted")
  /\ UNCHANGED <<kind, recovery, attempts, component, roundVars, target, attempt, shutdown>>

\* Mutant: one attempt too many.
CycleFailsOnceMore(k) ==
  /\ Apply(k, FALSE)
  /\ \/ /\ attempt[k] <= MaxAttempts
        /\ attempt' = [attempt EXCEPT ![k] = @ + 1]
        /\ Goto(k, "retry")
     \/ /\ Goto(k, "exhausted")
        /\ UNCHANGED attempt
  /\ UNCHANGED <<kind, recovery, attempts, component, roundVars, target, shutdown>>

\* A failure that may pass is tried again until the attempts are used up.
CycleFails(k) ==
  /\ Apply(k, FALSE)
  /\ \/ /\ attempt[k] < MaxAttempts
        /\ attempt' = [attempt EXCEPT ![k] = @ + 1]
        /\ Goto(k, "retry")
     \/ /\ Goto(k, "exhausted")
        /\ UNCHANGED attempt
  /\ UNCHANGED <<kind, recovery, attempts, component, roundVars, target, shutdown>>

\* validate() returns Err: the cycle ends and leaves the rest as it is.
CycleLosesSource(k) ==
  /\ pc[k] = "checking"
  /\ ~Registered(k[2])
  /\ Goto(k, "release")
  /\ UNCHANGED <<entryVars, component, roundVars, target, attempt, shutdown>>

\* The mark_* functions update the entry of the id, if there is one, and then
\* the component.
MarkEntry(k, from, to, state, count) ==
  LET s == k[2] IN
  /\ pc[k] = from
  /\ Goto(k, to)
  /\ recovery' = IF Registered(s) THEN [recovery EXCEPT ![s] = state] ELSE recovery
  /\ attempts' = IF Registered(s) THEN [attempts EXCEPT ![s] = count] ELSE attempts
  /\ UNCHANGED <<kind, validation, health, component, roundVars, target, attempt, shutdown>>

MarkComponent(k, from, to, state) ==
  /\ pc[k] = from
  /\ Goto(k, to)
  /\ component' = [component EXCEPT ![k[2]] = state]
  /\ UNCHANGED <<entryVars, roundVars, target, attempt, shutdown>>

MarkRecoveryStarted(k) ==
  \/ MarkEntry(k, "retry", "retry_component", "recovering", attempt[k])
  \/ MarkComponent(k, "retry_component", "wait", "recovering")

MarkRecovered(k) ==
  \/ MarkEntry(k, "recovered", "recovered_component", "idle", 0)
  \/ MarkComponent(k, "recovered_component", "release", "healthy")

\* Mutant: the entry is left recovering.
MarkExhaustedComponentOnly(k) ==
  \/ MarkEntry(k, "exhausted", "exhausted_component", recovery[k[2]], attempts[k[2]])
  \/ MarkComponent(k, "exhausted_component", "release", "failed")

MarkExhausted(k) ==
  \/ MarkEntry(k, "exhausted", "exhausted_component", "exhausted", attempts[k[2]])
  \/ MarkComponent(k, "exhausted_component", "release", "failed")

\* The backoff is over.
WaitEnds(k) ==
  /\ pc[k] = "wait"
  /\ Goto(k, "begin")
  /\ UNCHANGED <<entryVars, component, roundVars, target, attempt, shutdown>>

\* Mutant: a wait that is cut short keeps its permit.
WaitCutLeaks(k) ==
  /\ pc[k] = "wait"
  /\ shutdown
  /\ Goto(k, "leave")
  /\ UNCHANGED <<entryVars, component, roundVars, target, attempt, shutdown>>

WaitCut(k) ==
  /\ pc[k] = "wait"
  /\ shutdown
  /\ Goto(k, "release")
  /\ UNCHANGED <<entryVars, component, roundVars, target, attempt, shutdown>>

\* Mutant: the permit is forgotten.
ReleaseForgets(k) ==
  /\ pc[k] = "release"
  /\ Goto(k, "leave")
  /\ UNCHANGED <<entryVars, component, inflight, permits, round, todo, target, attempt, shutdown>>

Release(k) ==
  /\ pc[k] = "release"
  /\ permits' = permits + 1
  /\ Goto(k, "leave")
  /\ UNCHANGED <<entryVars, component, inflight, round, todo, target, attempt, shutdown>>

LeaveFlight(k) ==
  /\ pc[k] = "leave"
  /\ inflight' = inflight \ {k[2]}
  /\ Goto(k, "none")
  /\ UNCHANGED <<entryVars, component, permits, round, todo, target, attempt, shutdown>>

RequestShutdown ==
  /\ MayShutDown /\ ~shutdown
  /\ shutdown' = TRUE
  /\ UNCHANGED <<entryVars, component, roundVars, checkVars>>

Finished ==
  /\ shutdown
  /\ Monitor \in Callers => round[Monitor] = "ended"
  /\ UNCHANGED vars

-----------------------------------------------------------------------------

RequestStep(c) == RequestBegins(c) \/ RequestEnds(c) \/ RequestFails(c)

CycleStep(k) ==
  \/ Acquire(k) \/ CycleBegins(k) \/ CycleSucceeds(k) \/ CycleFails(k)
  \/ CycleLosesSource(k) \/ MarkRecoveryStarted(k) \/ MarkRecovered(k)
  \/ MarkExhausted(k) \/ WaitEnds(k) \/ WaitCut(k) \/ Release(k) \/ LeaveFlight(k)

Next ==
  \/ \E s \in Sources : Remove(s) \/ Add(s)
  \/ \E c \in Clients : Request(c) \/ RequestStep(c) \/ Abandon(c)
  \/ \E m \in Callers : Tick(m) \/ Spawn(m) \/ RoundEnds(m)
  \/ \E k \in Cycles : CycleStep(k)
  \/ MonitorEnds \/ RequestShutdown \/ Finished

Spec == Init /\ [][Next]_vars

\* Every task is polled; a check is bounded by the validator's timeouts; the
\* semaphore is first come, first served; a monitor that starts round after
\* round finds the signal alone between two ticks.
Fairness ==
  /\ \A c \in Clients : WF_vars(RequestStep(c))
  /\ \A m \in Callers : WF_vars(Spawn(m)) /\ WF_vars(RoundEnds(m))
  /\ \A k \in Cycles : WF_vars(CycleStep(k)) /\ SF_vars(Acquire(k))
  /\ SF_vars(MonitorEnds)

FairSpec == Spec /\ Fairness

-----------------------------------------------------------------------------
(* Properties that hold.                                                   *)

Holding == {"begin", "checking", "recovered", "recovered_component", "exhausted",
            "exhausted_component", "retry", "retry_component", "wait", "release"}
Steps == Holding \cup {"none", "queued", "leave"}

\* Every variable has its type.
TypeOK ==
  /\ kind \in [Sources -> Kinds \cup {"absent"}]
  /\ validation \in [Sources -> {"unknown", "validating", "validated", "failed"}]
  /\ health \in [Sources -> {"unknown", "healthy", "unhealthy"}]
  /\ recovery \in [Sources -> {"idle", "recovering", "exhausted"}]
  /\ attempts \in [Sources -> 0 .. MaxAttempts]
  /\ component \in [Sources -> {"none", "healthy", "recovering", "failed"}]
  /\ inflight \subseteq Sources
  /\ permits \in 0 .. Permits
  /\ round \in [Callers -> {"idle", "round", "ended"}]
  /\ todo \in [Callers -> SUBSET Sources]
  /\ pc \in [Checkers -> Steps]
  /\ target \in [Clients -> Sources \cup {None}]
  /\ attempt \in [Cycles -> 0 .. MaxAttempts]
  /\ shutdown \in BOOLEAN

\* "Only one recovery loop may run for a source", whoever calls monitor_once
\* and however the source is removed and registered again meanwhile.
OneCycle ==
  \A k, l \in Cycles : k # l /\ k[2] = l[2] => pc[k] = "none" \/ pc[l] = "none"

\* The cycles at work and the free permits add up to the configured bound: no
\* early return loses a permit or gives one back twice.
PermitsKept ==
  permits + Cardinality({k \in Cycles : pc[k] \in Holding}) = Permits

\* Where the check of each source is, whoever runs it.
PoolStage ==
  [s \in Sources |->
     IF \E m \in Callers : pc[<<m, s>>] \in Holding THEN "working"
     ELSE IF \E m \in Callers : pc[<<m, s>>] = "queued" THEN "queued"
     ELSE IF \E m \in Callers : pc[<<m, s>>] = "leave" THEN "leaving"
     ELSE "out"]

Pool == INSTANCE CheckPool WITH Keys <- Sources, stage <- PoolStage

\* The rounds of all callers together are a pool of checks: one per source,
\* at most max_concurrent_checks at work, each joining when the source has
\* none in flight and leaving once, by whichever way its cycle returns.
PoolSpec == Pool!Spec

\* An RTSP source is shown as recovering only while a cycle is in flight for
\* it: whatever ends a cycle has marked the entry before it leaves, except the
\* shutdown, which cuts the wait.  (A source registered again under another
\* kind may be marked by a cycle that began earlier.)
RecoveringIsRunning ==
  ~shutdown =>
    \A s \in Sources : kind[s] = "rtsp" /\ recovery[s] = "recovering" => s \in inflight

\* A cycle ends, however many sources wait for a permit.
CycleEnds == \A s \in Sources : s \in inflight ~> s \notin inflight

\* Once told to stop the monitor ends, even in the middle of a recovery: what
\* module Serve assumes of it.
MonitorStops == shutdown ~> round[Monitor] = "ended"

=============================================================================
