----------------------- MODULE MediaSupervisorProofs -----------------------
(***************************************************************************)
(* Proofs about MediaSupervisor, for any sources, clients, permits, ages   *)
(* and faults.  What relates the adapter's set to the gateway's paths is   *)
(* proved for one client at a time: two clients that edit the playback of  *)
(* one source at once can leave the two different.                         *)
(***************************************************************************)
EXTENDS MediaSupervisor, FiniteSetTheorems, TLAPS

CycleSteps == {"read", "mark", "ask", "get", "write"}
TaskSteps == {"none", "permit", "release", "unmark"} \cup CycleSteps
PlaySteps == {"play", "play_mark", "play_ask", "play_good", "play_bad"}
ClientSteps == {"none", "add_entry", "failed"} \cup EditSteps \cup PlaySteps \cup CycleSteps
States == {"healthy", "starting", "stalled", "unavailable"}

PcTyped ==
  /\ pc \in [Checkers -> TaskSteps \cup ClientSteps]
  /\ \A s \in Sources : pc[s] \in TaskSteps
  /\ \A c \in Clients : pc[c] \in ClientSteps

Targets ==
  /\ target \in [Clients -> Sources \cup {None}]
  /\ \A c \in Clients : pc[c] # "none" => target[c] \in Sources

Answers ==
  /\ answer \in [Checkers -> States \cup {None}]
  /\ \A v \in Checkers : pc[v] = "write" => answer[v] \in States

LEMMA InitPc == Init => PcTyped /\ Targets /\ Answers
BY DEF Init, PcTyped, Targets, Answers, TaskSteps, ClientSteps, Checkers

LEMMA StepPc == PcTyped /\ [Next]_vars => PcTyped'
<1> SUFFICES ASSUME PcTyped, [Next]_vars PROVE PcTyped'
  OBVIOUS
<1> USE DEF PcTyped, Goto, TaskSteps, ClientSteps, EditSteps, PlaySteps, CycleSteps
<1>1. Checkers = Sources \cup Clients /\ Sources \cap Clients = {}
  BY MediaAssumption DEF Checkers
<1> USE <1>1
<1>2. ASSUME UNCHANGED pc PROVE PcTyped'
  BY <1>2
<1>3. ASSUME NEW c \in Clients, NEW step \in ClientSteps, pc' = [pc EXCEPT ![c] = step] PROVE PcTyped'
  BY <1>3
<1>4. ASSUME NEW s \in Sources, NEW step \in TaskSteps, pc' = [pc EXCEPT ![s] = step] PROVE PcTyped'
  BY <1>4
<1> HIDE DEF PcTyped
<1>5. CASE Gateway \/ ShutDown \/ Close \/ UNCHANGED vars
  BY <1>2, <1>5 DEF Gateway, GatewayStops, GatewayStarts, CameraChanges, ShutDown, Close, CloseBegins,
     CloseOne, CloseEnds, mainUnchanged, vars
<1>6. ASSUME NEW c \in Clients, Request(c) PROVE PcTyped'
  BY <1>3, <1>6 DEF Request
<1>7. ASSUME NEW c \in Clients, Edit(c) PROVE PcTyped'
  BY <1>3, <1>7 DEF Edit, AddEntry, PostPath, PatchPath, Insert, Registers, DeletePath, Forget, EditEnds
<1>8. ASSUME NEW c \in Clients, Play(c) \/ Leaves(c) PROVE PcTyped'
  BY <1>3, <1>8 DEF Play, PlaybackBegins, PlaybackAsks, PlaybackEnds, Leaves
<1>9. ASSUME NEW v \in Checkers, Cycle(v) PROVE PcTyped'
  <2>1. PICK step \in CycleSteps \cup {Over(v)} : pc' = [pc EXCEPT ![v] = step]
    BY <1>9 DEF Cycle, ReadEntry, AskHealth, GetPath, Write, Learn
  <2> QED BY <1>3, <1>4, <2>1 DEF Over
<1>10. ASSUME NEW s \in Sources, SpawnTask(s) \/ TaskEnds(s) \/ Acquire(s) \/ Age(s) PROVE PcTyped'
  BY <1>2, <1>4, <1>10 DEF SpawnTask, TaskEnds, Acquire, Age
<1>11. CASE RoundEnds \/ Collect \/ SupervisorEnds
  BY <1>2, <1>11 DEF RoundEnds, Collect, SupervisorEnds
<1> QED BY <1>5, <1>6, <1>7, <1>8, <1>9, <1>10, <1>11 DEF Next, Round

LEMMA StepTargets == PcTyped /\ Targets /\ [Next]_vars => Targets'
<1> SUFFICES ASSUME PcTyped, Targets, [Next]_vars PROVE Targets'
  OBVIOUS
<1> USE DEF Targets, Goto
<1>1. Checkers = Sources \cup Clients /\ Sources \cap Clients = {}
  BY MediaAssumption DEF Checkers
<1>2. ASSUME UNCHANGED target, \A c \in Clients : pc[c] = "none" => pc'[c] = "none" PROVE Targets'
  BY <1>2
<1> HIDE DEF Targets
<1>3. CASE Gateway \/ ShutDown \/ Close \/ UNCHANGED vars
  BY <1>2, <1>3 DEF Gateway, GatewayStops, GatewayStarts, CameraChanges, ShutDown, Close, CloseBegins,
     CloseOne, CloseEnds, mainUnchanged, vars
<1>4. ASSUME UNCHANGED target, NEW v \in Checkers, NEW step, pc' = [pc EXCEPT ![v] = step],
              v \in Sources \/ pc[v] # "none"
       PROVE  Targets'
  <2>1. \A c \in Clients : pc[c] = "none" => pc'[c] = "none"
    BY <1>1, <1>4 DEF PcTyped
  <2> QED BY <1>2, <1>4, <2>1
<1>5. ASSUME NEW c \in Clients, Request(c) PROVE Targets'
  <2>1. PICK s \in Sources : target' = [target EXCEPT ![c] = s]
    BY <1>5 DEF Request
  <2>2. \A d \in Clients : d # c => pc'[d] = pc[d]
    BY <1>1, <1>5 DEF Request, PcTyped
  <2> QED BY <2>1, <2>2 DEF Targets
<1>6. ASSUME NEW c \in Clients, Edit(c) PROVE Targets'
  BY <1>1, <1>4, <1>6 DEF Edit, AddEntry, PostPath, PatchPath, Insert, Registers, DeletePath, Forget, EditEnds,
     clientUnchanged
<1>7. ASSUME NEW c \in Clients, Play(c) \/ Leaves(c) PROVE Targets'
  BY <1>1, <1>4, <1>7 DEF Play, PlaybackBegins, PlaybackAsks, PlaybackEnds, Leaves
<1>8. ASSUME NEW v \in Checkers, Cycle(v) PROVE Targets'
  BY <1>4, <1>8 DEF Cycle, ReadEntry, AskHealth, GetPath, Write, Learn, cycleUnchanged
<1>9. ASSUME NEW s \in Sources, SpawnTask(s) \/ TaskEnds(s) \/ Acquire(s) \/ Age(s) PROVE Targets'
  BY <1>1, <1>2, <1>4, <1>9 DEF SpawnTask, TaskEnds, Acquire, Age, supUnchanged
<1>10. CASE RoundEnds \/ Collect \/ SupervisorEnds
  BY <1>2, <1>10 DEF RoundEnds, Collect, SupervisorEnds, supUnchanged
<1> QED BY <1>3, <1>5, <1>6, <1>7, <1>8, <1>9, <1>10 DEF Next, Round

LEMMA StepAnswers == PcTyped /\ Answers /\ [Next]_vars => Answers'
<1> SUFFICES ASSUME PcTyped, Answers, [Next]_vars PROVE Answers'
  OBVIOUS
<1> USE DEF Answers, Goto
<1>1. ASSUME UNCHANGED answer, \A v \in Checkers : pc'[v] = "write" => pc[v] = "write" PROVE Answers'
  BY <1>1
<1> HIDE DEF Answers
<1>2. CASE Gateway \/ ShutDown \/ Close \/ UNCHANGED vars
  BY <1>1, <1>2 DEF Gateway, GatewayStops, GatewayStarts, CameraChanges, ShutDown, Close, CloseBegins,
     CloseOne, CloseEnds, mainUnchanged, vars
<1>3. ASSUME NEW c \in Clients, Request(c) \/ Edit(c) \/ Play(c) PROVE Answers'
  BY <1>1, <1>3 DEF Request, Edit, AddEntry, PostPath, PatchPath, Insert, Registers, DeletePath, Forget,
     EditEnds, Play, PlaybackBegins, PlaybackAsks, PlaybackEnds, clientUnchanged, PcTyped
<1>4. ASSUME NEW c \in Clients, Leaves(c) PROVE Answers'
  BY <1>4 DEF Leaves, Answers, PcTyped, Checkers
<1>5. ASSUME NEW v \in Checkers, Cycle(v) PROVE Answers'
  <2>1. CASE ReadEntry(v)
    BY <1>1, <2>1 DEF ReadEntry, Over, PcTyped
  <2>2. ASSUME NEW step \in {"ask", "get"}, pc' = [pc EXCEPT ![v] = step], UNCHANGED answer
        PROVE  Answers'
    BY <1>1, <2>2 DEF PcTyped
  <2>3. ASSUME NEW state \in States, Learn(v, state, "write") PROVE Answers'
    BY <2>3 DEF Learn, Answers, PcTyped
  <2>4. CASE Write(v)
    BY <2>4 DEF Write, Learn, Over, Answers, PcTyped
  <2>5. \A ready, age : StateOf(ready, age) \in States
    BY DEF StateOf, States
  <2> QED BY <1>5, <2>1, <2>2, <2>3, <2>4, <2>5 DEF Cycle, AskHealth, GetPath, States
<1>6. ASSUME NEW s \in Sources, SpawnTask(s) \/ TaskEnds(s) \/ Acquire(s) \/ Age(s) PROVE Answers'
  BY <1>1, <1>6 DEF SpawnTask, TaskEnds, Acquire, Age, supUnchanged, PcTyped
<1>7. CASE RoundEnds \/ Collect \/ SupervisorEnds
  BY <1>1, <1>7 DEF RoundEnds, Collect, SupervisorEnds, supUnchanged
<1> QED BY <1>2, <1>3, <1>4, <1>5, <1>6, <1>7 DEF Next, Round

EntryTypes ==
  /\ present \subseteq Sources /\ registered \subseteq Sources /\ left \subseteq Sources
  /\ health \in [Sources -> {"unknown"} \cup States]
GatewayTypes ==
  /\ up \in BOOLEAN /\ unsure \in [Sources -> BOOLEAN]
  /\ path \in [Sources -> {"absent", "waiting"} \cup Ready]
RoundTypes ==
  /\ inflight \subseteq Sources /\ todo \subseteq Sources
  /\ faults \in 0..Faults
  /\ sup \in {"wait", "round", "ended"} /\ main \in {"serving", "closing", "closed"}
SampleTypes == sample \in [Sources -> {None, Never} \cup 0..MaxAge]

Types == EntryTypes /\ GatewayTypes /\ RoundTypes /\ SampleTypes
Typed == PcTyped /\ Targets /\ Answers /\ Types

LEMMA InitTypes == Init => Types
<1> SUFFICES ASSUME Init PROVE Types
  OBVIOUS
<1>1. EntryTypes
  BY DEF Init, EntryTypes
<1>2. GatewayTypes
  BY DEF Init, GatewayTypes
<1>3. RoundTypes /\ SampleTypes
  BY MediaAssumption DEF Init, RoundTypes, SampleTypes
<1> QED BY <1>1, <1>2, <1>3 DEF Types

LEMMA StepEntries == PcTyped /\ Targets /\ Answers /\ EntryTypes /\ [Next]_vars => EntryTypes'
<1> SUFFICES ASSUME PcTyped, Targets, Answers, EntryTypes, [Next]_vars PROVE EntryTypes'
  OBVIOUS
<1> USE DEF EntryTypes, entryVars, States
<1>1. CASE Gateway \/ ShutDown \/ Close \/ UNCHANGED vars
  BY <1>1 DEF Gateway, GatewayStops, GatewayStarts, CameraChanges, ShutDown, Close, CloseBegins,
     CloseOne, CloseEnds, mainUnchanged, mainVars, vars
<1>2. ASSUME NEW c \in Clients, Request(c) \/ Leaves(c) PROVE EntryTypes'
  BY <1>2 DEF Request, Leaves, clientUnchanged, mainVars
<1>3. ASSUME NEW c \in Clients, Edit(c) PROVE EntryTypes'
  <2>1. pc[c] # "none" => target[c] \in Sources
    BY DEF Targets
  <2> QED BY <1>3, <2>1 DEF Edit, AddEntry, PostPath, PatchPath, Insert, Registers, DeletePath, Forget,
     EditEnds, SetHealth, clientUnchanged, mainVars
<1>4. ASSUME NEW c \in Clients, Play(c) PROVE EntryTypes'
  BY <1>4 DEF Play, PlaybackBegins, PlaybackAsks, PlaybackEnds, SetHealth, clientUnchanged, mainVars
<1>5. ASSUME NEW v \in Checkers, Cycle(v) PROVE EntryTypes'
  <2>1. pc[v] = "write" => answer[v] \in States
    BY DEF Answers
  <2> QED BY <1>5, <2>1 DEF Cycle, ReadEntry, AskHealth, GetPath, Write, SetHealth, cycleUnchanged, mainVars
<1>6. ASSUME NEW s \in Sources, SpawnTask(s) \/ TaskEnds(s) \/ Acquire(s) \/ Age(s) PROVE EntryTypes'
  BY <1>6 DEF SpawnTask, TaskEnds, Acquire, Age, supUnchanged, mainVars
<1>7. CASE RoundEnds \/ Collect \/ SupervisorEnds
  BY <1>7 DEF RoundEnds, Collect, SupervisorEnds, supUnchanged, mainVars
<1> QED BY <1>1, <1>2, <1>3, <1>4, <1>5, <1>6, <1>7 DEF Next, Round

LEMMA StepGateway == GatewayTypes /\ [Next]_vars => GatewayTypes'
<1> SUFFICES ASSUME GatewayTypes, [Next]_vars PROVE GatewayTypes'
  OBVIOUS
<1> USE DEF GatewayTypes, gatewayVars, Ready, Sure
<1>1. \A s \in Sources : WithPath(s) \in [Sources -> {"absent", "waiting"} \cup Ready]
                         /\ WithoutPath(s) \in [Sources -> {"absent", "waiting"} \cup Ready]
  BY DEF WithPath, WithoutPath
<1>2. ASSUME NEW op, NEW s \in Sources, Lost(op, s) PROVE GatewayTypes'
  BY <1>1, <1>2 DEF Lost
<1>3. CASE Gateway
  BY <1>3 DEF Gateway, GatewayStops, GatewayStarts, CameraChanges
<1>4. CASE ShutDown \/ CloseBegins \/ CloseEnds \/ UNCHANGED vars
  BY <1>4 DEF ShutDown, CloseBegins, CloseEnds, vars
<1>5. ASSUME NEW s \in Sources, CloseOne(s) PROVE GatewayTypes'
  BY <1>1, <1>2, <1>5 DEF CloseOne
<1>6. ASSUME NEW c \in Clients, Request(c) \/ Play(c) PROVE GatewayTypes'
  BY <1>6 DEF Request, Play, PlaybackBegins, PlaybackAsks, PlaybackEnds
<1>7. ASSUME NEW c \in Clients, Edit(c) PROVE GatewayTypes'
  BY <1>7 DEF Edit, AddEntry, PostPath, PatchPath, Insert, Registers, DeletePath, Forget, EditEnds,
     Lost, WithPath, WithoutPath
<1>8. ASSUME NEW c \in Clients, Leaves(c) PROVE GatewayTypes'
  BY <1>8 DEF Leaves, Lost, WithPath, WithoutPath
<1>9. ASSUME NEW v \in Checkers, Cycle(v) PROVE GatewayTypes'
  BY <1>9 DEF Cycle, ReadEntry, AskHealth, GetPath, Write, cycleUnchanged
<1>10. ASSUME NEW s \in Sources, SpawnTask(s) \/ TaskEnds(s) \/ Acquire(s) \/ Age(s) PROVE GatewayTypes'
  BY <1>10 DEF SpawnTask, TaskEnds, Acquire, Age, supUnchanged
<1>11. CASE RoundEnds \/ Collect \/ SupervisorEnds
  BY <1>11 DEF RoundEnds, Collect, SupervisorEnds, supUnchanged
<1> HIDE DEF GatewayTypes
<1> QED BY <1>3, <1>4, <1>5, <1>6, <1>7, <1>8, <1>9, <1>10, <1>11 DEF Next, Round, Close

LEMMA StepRounds == EntryTypes /\ RoundTypes /\ [Next]_vars => RoundTypes'
<1> SUFFICES ASSUME EntryTypes, RoundTypes, [Next]_vars PROVE RoundTypes'
  OBVIOUS
<1>0. Fault => faults' \in 0..Faults
  BY MediaAssumption DEF Fault, RoundTypes
<1> USE <1>0 DEF RoundTypes, gatewayVars, roundVars, mainVars
<1>1. CASE Gateway \/ ShutDown \/ UNCHANGED vars
  BY <1>1 DEF Gateway, GatewayStops, GatewayStarts, CameraChanges, ShutDown, mainUnchanged, vars
<1>2. CASE Close
  BY <1>2 DEF Close, CloseBegins, CloseOne, CloseEnds, mainUnchanged
<1>3. ASSUME NEW c \in Clients, Request(c) \/ Play(c) \/ Leaves(c) PROVE RoundTypes'
  BY <1>3 DEF Request, Leaves, clientUnchanged, Play, PlaybackBegins, PlaybackAsks, PlaybackEnds
<1>4. ASSUME NEW c \in Clients, Edit(c) PROVE RoundTypes'
  BY <1>4 DEF Edit, AddEntry, PostPath, PatchPath, Insert, Registers, DeletePath, Forget,
     EditEnds, clientUnchanged
<1>5. ASSUME NEW v \in Checkers, Cycle(v) PROVE RoundTypes'
  BY <1>5 DEF Cycle, ReadEntry, AskHealth, GetPath, Write, cycleUnchanged
<1>6. ASSUME NEW s \in Sources, SpawnTask(s) \/ TaskEnds(s) \/ Acquire(s) \/ Age(s) PROVE RoundTypes'
  BY <1>6 DEF SpawnTask, TaskEnds, Acquire, Age, supUnchanged
<1>7. CASE RoundEnds \/ Collect \/ SupervisorEnds
  BY <1>7 DEF RoundEnds, Collect, SupervisorEnds, supUnchanged, Supervisable, EntryTypes
<1> HIDE DEF RoundTypes
<1> QED BY <1>1, <1>2, <1>3, <1>4, <1>5, <1>6, <1>7 DEF Next, Round

LEMMA StepSamples == SampleTypes /\ [Next]_vars => SampleTypes'
<1> SUFFICES ASSUME SampleTypes, [Next]_vars PROVE SampleTypes'
  OBVIOUS
<1> USE DEF SampleTypes
<1>1. CASE Gateway \/ ShutDown \/ Close \/ UNCHANGED vars
  BY <1>1 DEF Gateway, GatewayStops, GatewayStarts, CameraChanges, ShutDown, Close, CloseBegins,
     CloseOne, CloseEnds, mainUnchanged, vars
<1>2. ASSUME NEW c \in Clients, Request(c) \/ Play(c) \/ Leaves(c) \/ Edit(c) PROVE SampleTypes'
  BY <1>2 DEF Request, Leaves, Play, PlaybackBegins, PlaybackAsks, PlaybackEnds, Edit, AddEntry, PostPath,
     PatchPath, Insert, Registers, DeletePath, Forget, EditEnds, clientUnchanged
<1>3. ASSUME NEW v \in Checkers, Cycle(v) PROVE SampleTypes'
  <2>1. CASE UNCHANGED sample
    BY <2>1
  <2>2. CASE sample' = [sample EXCEPT ![Of(v)] = Activity(Of(v))]
    <3>1. Of(v) \in Sources => Activity(Of(v)) \in {None, Never} \cup 0..MaxAge
      BY MediaAssumption DEF Activity
    <3> QED BY <2>2, <3>1
  <2> QED BY <1>3, <2>1, <2>2 DEF Cycle, ReadEntry, AskHealth, GetPath, Write
<1>4. ASSUME NEW s \in Sources, Age(s) PROVE SampleTypes'
  <2>1. sample[s] + 1 \in 0..MaxAge
    BY <1>4, MediaAssumption DEF Age, Never
  <2> QED BY <1>4, <2>1 DEF Age
<1>5. ASSUME NEW s \in Sources, SpawnTask(s) \/ TaskEnds(s) \/ Acquire(s) PROVE SampleTypes'
  BY <1>5 DEF SpawnTask, TaskEnds, Acquire, supUnchanged
<1>6. CASE RoundEnds \/ Collect \/ SupervisorEnds
  BY <1>6 DEF RoundEnds, Collect, SupervisorEnds, supUnchanged
<1> HIDE DEF SampleTypes
<1> QED BY <1>1, <1>2, <1>3, <1>4, <1>5, <1>6 DEF Next, Round

LEMMA StepTyped == Typed /\ [Next]_vars => Typed'
BY StepPc, StepTargets, StepAnswers, StepEntries, StepGateway, StepRounds, StepSamples DEF Typed, Types

-----------------------------------------------------------------------------
(* The permits.                                                            *)

\* The tasks of the supervisor that have a permit.
Holders == {s \in Sources : pc[s] \in CycleSteps \cup {"release"}}
PermitsKept == permits \in Nat /\ permits + Cardinality(Holders) = Permits

\* A source whose task is at work has its mark.
InFlight == \A s \in Sources : pc[s] # "none" => s \in inflight

LEMMA StepInFlight == PcTyped /\ InFlight /\ [Next]_vars => InFlight'
<1> SUFFICES ASSUME PcTyped, InFlight, [Next]_vars PROVE InFlight'
  OBVIOUS
<1>1. Checkers = Sources \cup Clients /\ Sources \cap Clients = {}
  BY MediaAssumption DEF Checkers
<1> USE <1>1 DEF Goto, PcTyped, roundVars, InFlight
<1>2. CASE Gateway \/ ShutDown \/ Close \/ UNCHANGED vars
  BY <1>2 DEF Gateway, GatewayStops, GatewayStarts, CameraChanges, ShutDown, Close, CloseBegins,
     CloseOne, CloseEnds, mainUnchanged, vars
<1>3. ASSUME NEW c \in Clients, Request(c) \/ Play(c) \/ Leaves(c)
      PROVE  (\A s \in Sources : pc'[s] = pc[s]) /\ inflight' = inflight
  BY <1>3 DEF Request, Leaves, clientUnchanged, Play, PlaybackBegins, PlaybackAsks, PlaybackEnds
<1>4. ASSUME NEW c \in Clients, Edit(c)
      PROVE  (\A s \in Sources : pc'[s] = pc[s]) /\ inflight' = inflight
  BY <1>4 DEF Edit, AddEntry, PostPath, PatchPath, Insert, Registers, DeletePath, Forget,
     EditEnds, clientUnchanged
<1>5. ASSUME NEW v \in Checkers, Cycle(v) PROVE InFlight'
  <2>1. \E step : pc[v] \in CycleSteps /\ pc' = [pc EXCEPT ![v] = step]
    BY <1>5 DEF Cycle, ReadEntry, AskHealth, GetPath, Write, Learn, CycleSteps
  <2>2. inflight' = inflight
    BY <1>5 DEF Cycle, ReadEntry, AskHealth, GetPath, Write, cycleUnchanged
  <2> QED BY <2>1, <2>2 DEF CycleSteps
<1>6. ASSUME NEW s \in Sources, SpawnTask(s) \/ TaskEnds(s) \/ Acquire(s) \/ Age(s) PROVE InFlight'
  BY <1>6 DEF SpawnTask, TaskEnds, Acquire, Age
<1>7. CASE RoundEnds \/ Collect \/ SupervisorEnds
  BY <1>7 DEF RoundEnds, Collect, SupervisorEnds
<1> QED BY <1>2, <1>3, <1>4, <1>5, <1>6, <1>7 DEF Next, Round

LEMMA HoldersFinite == IsFiniteSet(Holders) /\ Cardinality(Holders) \in Nat
BY MediaAssumption, FS_Subset, FS_CardinalityType DEF Holders

\* What a step does to the tasks: nothing that counts, or one takes a permit, or
\* one gives its permit back.
LEMMA StepHolders ==
  ASSUME PcTyped, InFlight, [Next]_vars
  PROVE  \/ Holders' = Holders /\ permits' = permits
         \/ \E s \in Sources : Acquire(s)
         \/ \E s \in Sources : pc[s] = "release" /\ TaskEnds(s)
<1>1. Checkers = Sources \cup Clients /\ Sources \cap Clients = {}
  BY MediaAssumption DEF Checkers
<1>2. ASSUME \A s \in Sources : pc'[s] = pc[s] PROVE Holders' = Holders
  BY <1>2 DEF Holders
<1> USE <1>1 DEF Goto, PcTyped, roundVars
<1>3. CASE Gateway \/ ShutDown \/ Close \/ UNCHANGED vars
  BY <1>2, <1>3 DEF Gateway, GatewayStops, GatewayStarts, CameraChanges, ShutDown, Close, CloseBegins,
     CloseOne, CloseEnds, mainUnchanged, vars
<1>4. ASSUME NEW c \in Clients, Request(c) \/ Play(c) \/ Leaves(c)
      PROVE  (\A s \in Sources : pc'[s] = pc[s]) /\ permits' = permits
  BY <1>4 DEF Request, Leaves, clientUnchanged, Play, PlaybackBegins, PlaybackAsks, PlaybackEnds
<1>5. ASSUME NEW c \in Clients, Edit(c)
      PROVE  (\A s \in Sources : pc'[s] = pc[s]) /\ permits' = permits
  BY <1>5 DEF Edit, AddEntry, PostPath, PatchPath, Insert, Registers, DeletePath, Forget,
     EditEnds, clientUnchanged
<1>6. ASSUME NEW v \in Checkers, Cycle(v) PROVE Holders' = Holders /\ permits' = permits
  <2>1. PICK step \in CycleSteps \cup {Over(v)} :
          pc[v] \in CycleSteps /\ pc' = [pc EXCEPT ![v] = step]
    BY <1>6 DEF Cycle, ReadEntry, AskHealth, GetPath, Write, Learn, CycleSteps
  <2>2. permits' = permits
    BY <1>6 DEF Cycle, ReadEntry, AskHealth, GetPath, Write, cycleUnchanged
  <2>3. \A s \in Sources : pc[s] \in CycleSteps \cup {"release"} <=> pc'[s] \in CycleSteps \cup {"release"}
    BY <2>1 DEF Over
  <2> QED BY <2>2, <2>3 DEF Holders
<1>7. ASSUME NEW s \in Sources, SpawnTask(s) PROVE Holders' = Holders /\ permits' = permits
  <2>1. pc[s] = "none" \/ UNCHANGED pc
    BY <1>7 DEF SpawnTask, InFlight
  <2> QED BY <1>7, <2>1 DEF SpawnTask, Holders, CycleSteps
<1>8. ASSUME NEW s \in Sources, TaskEnds(s), pc[s] # "release" PROVE Holders' = Holders /\ permits' = permits
  BY <1>8 DEF TaskEnds, Holders, CycleSteps
<1>9. ASSUME NEW s \in Sources, Age(s) PROVE Holders' = Holders /\ permits' = permits
  BY <1>2, <1>9 DEF Age
<1>10. CASE RoundEnds \/ Collect \/ SupervisorEnds
  BY <1>2, <1>10 DEF RoundEnds, Collect, SupervisorEnds
<1> QED BY <1>2, <1>3, <1>4, <1>5, <1>6, <1>7, <1>8, <1>9, <1>10 DEF Next, Round

LEMMA StepPermits == PcTyped /\ InFlight /\ PermitsKept /\ [Next]_vars => PermitsKept'
<1> SUFFICES ASSUME PcTyped, InFlight, PermitsKept, [Next]_vars PROVE PermitsKept'
  OBVIOUS
<1>1. CASE Holders' = Holders /\ permits' = permits
  BY <1>1 DEF PermitsKept
<1>2. ASSUME NEW s \in Sources, Acquire(s) PROVE PermitsKept'
  <2>1. Holders' = Holders \cup {s} /\ s \notin Holders
    BY <1>2 DEF Acquire, Goto, Holders, PcTyped, Checkers, CycleSteps
  <2>2. Cardinality(Holders') = Cardinality(Holders) + 1
    BY <2>1, HoldersFinite, FS_AddElement
  <2> QED BY <1>2, <2>2, HoldersFinite, MediaAssumption DEF PermitsKept, Acquire
<1>3. ASSUME NEW s \in Sources, pc[s] = "release", TaskEnds(s) PROVE PermitsKept'
  <2>1. Holders' = Holders \ {s} /\ s \in Holders
    BY <1>3 DEF TaskEnds, Goto, Holders, PcTyped, Checkers, CycleSteps
  <2>2. Cardinality(Holders') = Cardinality(Holders) - 1
    BY <2>1, HoldersFinite, FS_RemoveElement
  <2> QED BY <1>3, <2>2, HoldersFinite, MediaAssumption DEF PermitsKept, TaskEnds
<1> QED BY <1>1, <1>2, <1>3, StepHolders

\* No more tasks of the supervisor check a source at a time than the semaphore
\* has permits, none of which is lost; and everything keeps to its type.
THEOREM TypesHold == Spec => []TypeOK
<1>1. Init => Typed /\ InFlight /\ PermitsKept
  <2> SUFFICES ASSUME Init PROVE Typed /\ InFlight /\ PermitsKept
    OBVIOUS
  <2>1. Holders = {}
    BY DEF Init, Holders, CycleSteps, Checkers
  <2>2. PermitsKept
    BY <2>1, FS_EmptySet, MediaAssumption DEF Init, PermitsKept
  <2>3. InFlight
    BY DEF Init, InFlight, Checkers
  <2> QED BY <2>2, <2>3, InitPc, InitTypes DEF Typed
<1>2. Typed /\ PermitsKept => TypeOK
  BY HoldersFinite, MediaAssumption
     DEF Typed, PermitsKept, Types, EntryTypes, GatewayTypes, RoundTypes, SampleTypes, States, TypeOK
<1>3. Typed => PcTyped
  BY DEF Typed
<1> QED BY <1>1, <1>2, <1>3, StepTyped, StepInFlight, StepPermits, PTL DEF Spec

-----------------------------------------------------------------------------
(* The pool of checks that the supervisor's rounds implement.              *)

\* What a step does to the stages: nothing, or one source moves to the next.
LEMMA StepStages ==
  ASSUME PcTyped, InFlight, [Next]_vars
  PROVE  \/ \A s \in Sources : PoolStage'[s] = PoolStage[s]
         \/ \E s \in Sources : SpawnTask(s) /\ s \notin inflight
         \/ \E s \in Sources : Acquire(s) \/ TaskEnds(s)
<1>1. Checkers = Sources \cup Clients /\ Sources \cap Clients = {}
  BY MediaAssumption DEF Checkers
<1>2. ASSUME \A s \in Sources : pc'[s] = pc[s]
      PROVE  \A s \in Sources : PoolStage'[s] = PoolStage[s]
  BY <1>2 DEF PoolStage
<1> USE <1>1 DEF Goto, PcTyped
<1>3. CASE Gateway \/ ShutDown \/ Close \/ UNCHANGED vars
  BY <1>2, <1>3 DEF Gateway, GatewayStops, GatewayStarts, CameraChanges, ShutDown, Close, CloseBegins,
     CloseOne, CloseEnds, mainUnchanged, vars
<1>4. ASSUME NEW c \in Clients, Request(c) \/ Play(c) \/ Leaves(c)
      PROVE  \A s \in Sources : pc'[s] = pc[s]
  BY <1>4 DEF Request, Leaves, Play, PlaybackBegins, PlaybackAsks, PlaybackEnds
<1>5. ASSUME NEW c \in Clients, Edit(c)
      PROVE  \A s \in Sources : pc'[s] = pc[s]
  BY <1>5 DEF Edit, AddEntry, PostPath, PatchPath, Insert, Registers, DeletePath, Forget, EditEnds
<1>6. ASSUME NEW v \in Checkers, Cycle(v)
      PROVE  \A s \in Sources : PoolStage'[s] = PoolStage[s]
  <2>1. PICK step \in CycleSteps \cup {Over(v)} :
          pc[v] \in CycleSteps /\ pc' = [pc EXCEPT ![v] = step]
    BY <1>6 DEF Cycle, ReadEntry, AskHealth, GetPath, Write, Learn, CycleSteps
  <2>2. v \in Sources => step \in CycleSteps \cup {"release"}
    BY <2>1 DEF Over
  <2> QED BY <2>1, <2>2 DEF PoolStage, CycleSteps
<1>7. ASSUME NEW s \in Sources, SpawnTask(s), s \in inflight
      PROVE  \A r \in Sources : pc'[r] = pc[r]
  BY <1>7 DEF SpawnTask
<1>8. ASSUME NEW s \in Sources, Age(s) PROVE \A r \in Sources : pc'[r] = pc[r]
  BY <1>8 DEF Age
<1>9. CASE RoundEnds \/ Collect \/ SupervisorEnds
  BY <1>2, <1>9 DEF RoundEnds, Collect, SupervisorEnds
<1> QED BY <1>2, <1>3, <1>4, <1>5, <1>6, <1>7, <1>8, <1>9 DEF Next, Round

LEMMA StepPool ==
  ASSUME PcTyped, InFlight, PermitsKept, [Next]_vars
  PROVE  [Pool!Next]_PoolStage
<1>1. /\ DOMAIN PoolStage = Sources /\ DOMAIN PoolStage' = Sources
      /\ Checkers = Sources \cup Clients
  BY DEF PoolStage, Checkers
<1>2. CASE \A s \in Sources : PoolStage'[s] = PoolStage[s]
  BY <1>2 DEF PoolStage
<1>3. ASSUME NEW s \in Sources, NEW step \in TaskSteps, pc' = [pc EXCEPT ![s] = step],
             NEW to, PoolStage'[s] = to
      PROVE  PoolStage' = [PoolStage EXCEPT ![s] = to]
  BY <1>1, <1>3 DEF PcTyped, PoolStage
<1>4. ASSUME NEW s \in Sources, SpawnTask(s), s \notin inflight PROVE Pool!Next
  <2>1. pc[s] = "none" /\ pc' = [pc EXCEPT ![s] = "permit"] /\ "permit" \in TaskSteps
    BY <1>4 DEF SpawnTask, InFlight, Goto, TaskSteps
  <2>2. PoolStage[s] = "out" /\ PoolStage'[s] = "queued"
    BY <1>1, <2>1 DEF PoolStage, PcTyped
  <2>3. Pool!Join(s)
    BY <1>3, <2>1, <2>2 DEF Pool!Join, Pool!Moves
  <2> QED BY <2>3 DEF Pool!Next
<1>5. ASSUME NEW s \in Sources, Acquire(s) PROVE Pool!Next
  <2>1. pc[s] = "permit" /\ pc' = [pc EXCEPT ![s] = "read"] /\ "read" \in TaskSteps /\ permits > 0
    BY <1>5 DEF Acquire, Goto, TaskSteps, CycleSteps
  <2>2. PoolStage[s] = "queued" /\ PoolStage'[s] = "working"
    BY <1>1, <2>1 DEF PoolStage, PcTyped
  <2>3. {r \in Sources : PoolStage[r] = "working"} = Holders
    BY DEF PcTyped, PoolStage, Holders, TaskSteps, CycleSteps
  <2>4. Cardinality(Holders) < Permits
    BY <2>1, HoldersFinite, MediaAssumption DEF PermitsKept
  <2>5. Cardinality({r \in Sources : PoolStage[r] = "working"}) < Permits
    BY <2>3, <2>4
  <2>6. PoolStage[s] = "queued" /\ PoolStage' = [PoolStage EXCEPT ![s] = "working"]
    BY <1>3, <2>1, <2>2
  <2>7. Pool!Cardinality({r \in Sources : PoolStage[r] = "working"}) < Permits
    BY <2>5 DEF Cardinality, Pool!Cardinality
  <2>8. Pool!Begin(s)
    BY <2>6, <2>7 DEF Pool!Begin, Pool!Moves
  <2> QED BY <2>8 DEF Pool!Next
<1>6. ASSUME NEW s \in Sources, TaskEnds(s) PROVE Pool!Next
  <2>1. CASE pc[s] = "release"
    <3>1. pc' = [pc EXCEPT ![s] = "unmark"] /\ "unmark" \in TaskSteps
      BY <1>6, <2>1 DEF TaskEnds, Goto, TaskSteps
    <3>2. PoolStage[s] = "working" /\ PoolStage'[s] = "leaving"
      BY <1>1, <2>1, <3>1 DEF PoolStage, PcTyped
    <3>3. Pool!End(s)
      BY <1>3, <3>1, <3>2 DEF Pool!End, Pool!Moves
    <3> QED BY <3>3 DEF Pool!Next
  <2>2. CASE pc[s] = "unmark"
    <3>1. pc' = [pc EXCEPT ![s] = "none"] /\ "none" \in TaskSteps
      BY <1>6, <2>2 DEF TaskEnds, Goto, TaskSteps
    <3>2. PoolStage[s] = "leaving" /\ PoolStage'[s] = "out"
      BY <1>1, <2>2, <3>1 DEF PoolStage, PcTyped
    <3>3. Pool!Withdraw(s)
      BY <1>3, <3>1, <3>2 DEF Pool!Withdraw, Pool!Moves
    <3> QED BY <3>3 DEF Pool!Next
  <2> QED BY <1>6, <2>1, <2>2 DEF TaskEnds
<1> QED BY <1>2, <1>4, <1>5, <1>6, StepStages

\* The supervisor's rounds implement the pool of checks: one check per source,
\* as many at work as the semaphore has permits.
THEOREM ImplementsPool == Spec => PoolSpec
<1> DEFINE Inv == PcTyped /\ InFlight /\ PermitsKept
<1>1. Init => Inv /\ Pool!Init
  <2> SUFFICES ASSUME Init PROVE Inv /\ Pool!Init
    OBVIOUS
  <2>1. PcTyped
    BY InitPc
  <2>2. InFlight /\ Holders = {} /\ Pool!Init
    BY DEF Init, InFlight, Holders, CycleSteps, Checkers, Pool!Init, PoolStage
  <2>3. PermitsKept
    BY <2>2, FS_EmptySet, MediaAssumption DEF Init, PermitsKept
  <2> QED BY <2>1, <2>2, <2>3
<1>2. Inv /\ [Next]_vars => Inv'
  BY StepPc, StepInFlight, StepPermits
<1>3. Inv /\ [Next]_vars => [Pool!Next]_PoolStage
  BY StepPool
<1> QED BY <1>1, <1>2, <1>3, PTL DEF Spec, PoolSpec, Pool!Spec

-----------------------------------------------------------------------------
(* The adapter and the gateway, for one client at a time.  In the middle   *)
(* of an edit the two differ in a known way; when the gateway is down only *)
(* what is unsure may be registered.                                       *)

OneClient == \A c, d \in Clients : c = d
Quiet == \A c \in Clients : pc[c] = "none"

Agrees(s) ==
  \/ unsure[s]
  \/ s \in registered <=> path[s] # "absent"
  \/ \E c \in Clients : target[c] = s /\ pc[c] = "insert" /\ path[s] # "absent"
  \/ \E c \in Clients : target[c] = s /\ pc[c] \in {"forget", "drop_mark"} /\ path[s] = "absent"

\* What a client's step says of the source it works on.
AtStep(c) ==
  LET s == target[c] IN
  /\ pc[c] \in EditSteps \cup {"failed"} => s \in present
  /\ pc[c] = "insert" => unsure[s] \/ path[s] # "absent"
  /\ pc[c] = "healthy" => unsure[s] \/ s \in registered
  /\ pc[c] \in {"forget", "drop_mark"} => unsure[s] \/ path[s] = "absent"
  /\ pc[c] \in {"unknown", "drop_entry"} => unsure[s] \/ s \notin registered

Down == ~up => \A s \in Sources :
  \/ unsure[s]
  \/ /\ path[s] = "absent" /\ s \notin registered
     /\ \A c \in Clients : target[c] = s => pc[c] \notin {"insert", "healthy"}

Known(s) ==
  /\ s \in registered => s \in present \/ unsure[s]
  /\ s \in registered => \/ health[s] # "unknown" \/ unsure[s]
                         \/ \E c \in Clients : target[c] = s /\ pc[c] \in {"insert", "healthy", "forget", "drop_mark"}

Closing ==
  /\ main # "serving" => shutdown /\ Quiet
  /\ main # "serving" => \A s \in Sources : s \in left \/ unsure[s] \/ path[s] = "absent"
  /\ main = "closed" => left = {}

IInv ==
  /\ OneClient /\ Typed
  /\ \A s \in Sources : Agrees(s) /\ Known(s)
  /\ \A c \in Clients : AtStep(c)
  /\ Down /\ Closing

LEMMA InitIInv == OneClient /\ Init => IInv
<1> SUFFICES ASSUME OneClient, Init PROVE IInv
  OBVIOUS
<1>1. Typed
  BY InitPc, InitTypes DEF Typed
<1>2. /\ registered = {} /\ \A s \in Sources : path[s] = "absent"
      /\ \A c \in Clients : pc[c] = "none"
      /\ main = "serving"
  BY DEF Init, Checkers
<1>3. \A s \in Sources : Agrees(s) /\ Known(s)
  BY <1>2 DEF Agrees, Known
<1>4. \A c \in Clients : AtStep(c)
  BY <1>2 DEF AtStep, EditSteps
<1> QED BY <1>1, <1>2, <1>3, <1>4 DEF IInv, Down, Closing

\* A step that changes nothing of what the invariant is about, but the step a
\* client is at, among those that are no edits.
LEMMA Aside ==
  ASSUME IInv, Typed',
         UNCHANGED <<present, registered, up, path, target, main, left, unsure>>,
         shutdown => shutdown',
         \A c \in Clients : \/ pc'[c] = pc[c]
                            \/ /\ {pc[c], pc'[c]} \cap (EditSteps \cup {"failed"}) = {}
                               /\ pc[c] # "none",
         \A s \in Sources : health'[s] = health[s] \/ health'[s] # "unknown"
  PROVE  IInv'
<1>1. \A c \in Clients : pc[c] \in EditSteps => pc'[c] = pc[c]
  OBVIOUS
<1>2. ASSUME NEW s \in Sources PROVE (Agrees(s) /\ Known(s))'
  <2>1. Agrees(s) /\ Known(s)
    BY DEF IInv
  <2>2. Agrees(s)'
    BY <1>1, <2>1 DEF Agrees, EditSteps
  <2>3. Known(s)'
    BY <1>1, <2>1 DEF Known, EditSteps
  <2> QED BY <2>2, <2>3
<1>3. ASSUME NEW c \in Clients PROVE AtStep(c)'
  BY DEF IInv, AtStep, EditSteps
<1>4. Down'
  BY DEF IInv, Down, EditSteps
<1>5. Closing'
  BY DEF IInv, Closing, Quiet, Typed, Types
<1> QED BY <1>2, <1>3, <1>4, <1>5 DEF IInv, OneClient

\* A step of an edit: what it says of its source is left to show.
LEMMA EditKeeps ==
  ASSUME IInv, Typed', NEW c \in Clients, target[c] \in Sources, pc[c] # "none",
         UNCHANGED <<up, target, main, left, shutdown>>,
         \A s \in Sources \ {target[c]} :
           /\ path'[s] = path[s] /\ unsure'[s] = unsure[s] /\ health'[s] = health[s]
           /\ (s \in registered') = (s \in registered) /\ (s \in present') = (s \in present),
         Agrees(target[c])', Known(target[c])', AtStep(c)',
         ~up => \/ unsure'[target[c]]
                \/ /\ path'[target[c]] = "absent" /\ target[c] \notin registered'
                   /\ pc'[c] \notin {"insert", "healthy"}
  PROVE  IInv'
<1>1. \A d \in Clients : d = c
  BY DEF IInv, OneClient
<1>2. ASSUME NEW s \in Sources, s # target[c] PROVE (Agrees(s) /\ Known(s))'
  BY <1>1, <1>2 DEF IInv, Agrees, Known
<1>3. Down'
  BY <1>1 DEF IInv, Down
<1>4. main = "serving"
  BY DEF IInv, Closing, Quiet
<1> QED BY <1>1, <1>2, <1>3, <1>4 DEF IInv, OneClient, Closing

LEMMA StepEdit == ASSUME IInv, Typed', NEW c \in Clients, Edit(c) PROVE IInv'
<1> DEFINE s == target[c]
<1>1. /\ \A d \in Clients : d = c
      /\ pc[c] # "none" /\ s \in Sources
      /\ Agrees(s) /\ Known(s) /\ AtStep(c) /\ Down
  BY DEF IInv, OneClient, Typed, Targets, Edit, AddEntry, PostPath, PatchPath, Insert, Registers,
     DeletePath, Forget, EditEnds
<1>2. UNCHANGED <<up, target, main, left, shutdown>>
  BY DEF Edit, AddEntry, PostPath, PatchPath, Insert, Registers, DeletePath, Forget, EditEnds,
     clientUnchanged, mainVars, gatewayVars, Lost
<1>3. /\ path \in [Sources -> {"absent", "waiting"} \cup Ready] /\ unsure \in [Sources -> BOOLEAN]
      /\ health \in [Sources -> {"unknown"} \cup States]
      /\ pc \in [Checkers -> TaskSteps \cup ClientSteps] /\ c \in Checkers
  BY DEF IInv, Typed, Types, EntryTypes, GatewayTypes, PcTyped, Checkers
<1> DEFINE Rest == \A x \in Sources \ {s} :
      /\ path'[x] = path[x] /\ unsure'[x] = unsure[x] /\ health'[x] = health[x]
      /\ (x \in registered') = (x \in registered) /\ (x \in present') = (x \in present)
<1> DEFINE Now ==
      /\ Agrees(s)' /\ Known(s)' /\ AtStep(c)'
      /\ ~up => \/ unsure'[s]
                \/ path'[s] = "absent" /\ s \notin registered' /\ pc'[c] \notin {"insert", "healthy"}
<1>4. SUFFICES Rest /\ Now
  BY <1>1, <1>2, EditKeeps
<1>5. ~up => unsure[s] \/ (path[s] = "absent" /\ s \notin registered /\ pc[c] \notin {"insert", "healthy"})
  BY <1>1 DEF Down
<1>6. ASSUME ~up, PostPath(c) \/ PatchPath(c) \/ DeletePath(c)
      PROVE  \/ unsure'[s]
             \/ path'[s] = "absent" /\ s \notin registered' /\ pc'[c] \notin {"insert", "healthy"}
  <2>1. UNCHANGED <<path, registered, unsure>> /\ pc'[c] \notin {"insert", "healthy"}
    BY <1>3, <1>6 DEF PostPath, PatchPath, DeletePath, gatewayVars, Goto
  <2> QED BY <1>5, <1>6, <2>1
<1> USE <1>1, <1>2, <1>3, <1>5 DEF Goto, EditSteps, AtStep, Agrees, Known, Ready
<1>7. CASE AddEntry(c)
  BY <1>7 DEF AddEntry, gatewayVars, entryVars
<1>8. CASE PostPath(c)
  <2>1. Rest
    BY <1>8 DEF PostPath, gatewayVars, entryVars, Sure, Lost, WithPath
  <2>2. Agrees(s)'
    BY <1>8 DEF PostPath, gatewayVars, entryVars, Sure, Lost, WithPath
  <2>3. Known(s)'
    BY <1>8 DEF PostPath, gatewayVars, entryVars, Sure, Lost, WithPath
  <2>4. AtStep(c)'
    BY <1>8 DEF PostPath, gatewayVars, entryVars, Sure, Lost, WithPath
  <2>5. ~up => unsure'[s] \/ (path'[s] = "absent" /\ s \notin registered' /\ pc'[c] \notin {"insert", "healthy"})
    BY <1>6, <1>8
  <2> QED BY <2>1, <2>2, <2>3, <2>4, <2>5
<1>9. CASE PatchPath(c)
  <2>1. Rest
    BY <1>9 DEF PatchPath, gatewayVars, entryVars, Sure
  <2>2. Agrees(s)'
    BY <1>9 DEF PatchPath, gatewayVars, entryVars, Sure
  <2>3. Known(s)'
    BY <1>9 DEF PatchPath, gatewayVars, entryVars, Sure
  <2>4. AtStep(c)'
    BY <1>9 DEF PatchPath, gatewayVars, entryVars, Sure
  <2>5. ~up => unsure'[s] \/ (path'[s] = "absent" /\ s \notin registered' /\ pc'[c] \notin {"insert", "healthy"})
    BY <1>6, <1>9
  <2> QED BY <2>1, <2>2, <2>3, <2>4, <2>5
<1>10. CASE Insert(c)
  BY <1>10 DEF Insert, gatewayVars, entryVars
<1>11. CASE Registers(c)
  BY <1>11 DEF Registers, gatewayVars, SetHealth, States
<1>12. CASE DeletePath(c)
  <2>1. Rest
    BY <1>12 DEF DeletePath, gatewayVars, entryVars, Sure, Lost, WithoutPath
  <2>2. Agrees(s)'
    BY <1>12 DEF DeletePath, gatewayVars, entryVars, Sure, Lost, WithoutPath
  <2>3. Known(s)'
    BY <1>12 DEF DeletePath, gatewayVars, entryVars, Sure, Lost, WithoutPath
  <2>4. AtStep(c)'
    BY <1>12 DEF DeletePath, gatewayVars, entryVars, Sure, Lost, WithoutPath
  <2>5. ~up => unsure'[s] \/ (path'[s] = "absent" /\ s \notin registered' /\ pc'[c] \notin {"insert", "healthy"})
    BY <1>6, <1>12
  <2> QED BY <2>1, <2>2, <2>3, <2>4, <2>5
<1>13. CASE Forget(c)
  BY <1>13 DEF Forget, gatewayVars, entryVars
<1>14. CASE EditEnds(c)
  BY <1>14 DEF EditEnds, gatewayVars, SetHealth
<1> HIDE DEF Rest, Now
<1> QED BY <1>7, <1>8, <1>9, <1>10, <1>11, <1>12, <1>13, <1>14 DEF Edit

LEMMA StepGatewayOnly == ASSUME IInv, Typed', Gateway PROVE IInv'
<1> USE DEF Gateway, gatewayVars, entryVars, mainVars
<1>1. CASE GatewayStops
  <2>1. /\ UNCHANGED <<present, health, registered, pc, target, main, left, shutdown>>
        /\ unsure' = [s \in Sources |-> TRUE]
    BY <1>1 DEF GatewayStops
  <2>2. (\A s \in Sources : Agrees(s) /\ Known(s))' /\ Down' /\ Closing'
    BY <2>1 DEF IInv, Agrees, Known, Down, Closing, Quiet
  <2>3. ASSUME NEW c \in Clients PROVE AtStep(c)'
    BY <2>1 DEF IInv, Typed, Targets, AtStep, EditSteps
  <2> QED BY <2>1, <2>2, <2>3 DEF IInv, OneClient
<1>2. CASE GatewayStarts
  BY <1>2 DEF GatewayStarts, IInv, OneClient, Agrees, Known, AtStep, Down, Closing, Quiet
<1>3. ASSUME NEW s \in Sources, CameraChanges(s) PROVE IInv'
  <2>1. \A x \in Sources : path'[x] = "absent" <=> path[x] = "absent"
    BY <1>3 DEF CameraChanges, IInv, Typed, Types, GatewayTypes, Ready
  <2> QED BY <1>3, <2>1 DEF CameraChanges, IInv, OneClient, Agrees, Known, AtStep, Down, Closing, Quiet, Typed, Targets,
     EditSteps
<1> QED BY <1>1, <1>2, <1>3

LEMMA StepRequest == ASSUME IInv, Typed', NEW c \in Clients, Request(c) PROVE IInv'
<1>1. /\ \A d \in Clients : d = c
      /\ pc[c] = "none" /\ ~shutdown
      /\ target \in [Clients -> Sources \cup {None}] /\ pc \in [Checkers -> TaskSteps \cup ClientSteps]
  BY DEF IInv, OneClient, Typed, Targets, PcTyped, Request
<1>2. UNCHANGED <<present, health, registered, up, path, main, left, shutdown, unsure>>
  BY DEF Request, entryVars, gatewayVars, clientUnchanged, mainVars
<1>3. PICK s \in Sources : /\ target' = [target EXCEPT ![c] = s]
                           /\ IF s \in present
                              THEN \E step \in {"add", "delete", "drop_path", "play", "read"} : Goto(c, step)
                              ELSE Goto(c, "add_entry")
  BY DEF Request
<1>4. /\ target'[c] = s
      /\ pc'[c] \in {"add_entry", "add", "delete", "drop_path", "play", "read"}
      /\ pc'[c] \in {"add", "delete", "drop_path"} => s \in present
  BY <1>1, <1>3 DEF Goto, Checkers
<1>5. ASSUME NEW x \in Sources PROVE (Agrees(x) /\ Known(x))'
  BY <1>1, <1>2 DEF IInv, Agrees, Known
<1>6. AtStep(c)'
  BY <1>2, <1>4 DEF AtStep, EditSteps
<1>7. Down'
  BY <1>1, <1>2, <1>4 DEF IInv, Down
<1>8. Closing'
  BY <1>1, <1>2 DEF IInv, Closing
<1> QED BY <1>1, <1>5, <1>6, <1>7, <1>8 DEF IInv, OneClient

LEMMA StepLeaves == ASSUME IInv, Typed', NEW c \in Clients, Leaves(c) PROVE IInv'
<1>1. /\ \A d \in Clients : d = c
      /\ pc[c] # "none" /\ target[c] \in Sources
      /\ pc' = [pc EXCEPT ![c] = "none"] /\ pc'[c] = "none"
      /\ UNCHANGED <<present, health, registered, up, target, main, left, shutdown>>
  BY DEF IInv, OneClient, Typed, Targets, PcTyped, Leaves, Goto, Checkers, entryVars, mainVars,
     gatewayVars, Lost
<1>2. \A x \in Sources \ {target[c]} : path'[x] = path[x] /\ unsure'[x] = unsure[x]
  BY DEF Leaves, Lost, WithPath, WithoutPath, gatewayVars, IInv, Typed, Types, GatewayTypes
<1>3. CASE pc[c] \in EditSteps
  <2>1. unsure'[target[c]]
    BY <1>1, <1>3 DEF Leaves, Lost, IInv, Typed, Types, GatewayTypes
  <2>2. Agrees(target[c])' /\ Known(target[c])' /\ AtStep(c)'
    <3>1. AtStep(c)'
      BY <1>1 DEF AtStep, EditSteps
    <3>2. Agrees(target[c])' /\ Known(target[c])'
      BY <1>1, <2>1 DEF Agrees, Known
    <3> QED BY <3>1, <3>2
  <2> QED BY <1>1, <1>2, <2>1, <2>2, EditKeeps
<1>4. CASE pc[c] \notin EditSteps
  <2>1. UNCHANGED <<path, unsure>>
    BY <1>4 DEF Leaves, EditSteps, gatewayVars
  <2>2. ASSUME NEW x \in Sources PROVE (Agrees(x) /\ Known(x))'
    BY <1>1, <1>4, <2>1 DEF IInv, Agrees, Known, EditSteps
  <2>3. AtStep(c)' /\ Down' /\ Closing'
    BY <1>1, <2>1 DEF IInv, AtStep, Down, Closing, Quiet, EditSteps
  <2> QED BY <1>1, <2>2, <2>3 DEF IInv, OneClient
<1> QED BY <1>3, <1>4

LEMMA StepClose == ASSUME IInv, Typed', Close PROVE IInv'
<1>1. UNCHANGED <<present, health, pc, target, up, shutdown>> /\ Quiet
  BY DEF Close, CloseBegins, CloseOne, CloseEnds, mainUnchanged, entryVars, gatewayVars, Lost, IInv, Closing, Quiet
<1>2. \A s \in Sources : \/ unsure[s]
                         \/ s \in registered <=> path[s] # "absent"
  BY <1>1 DEF IInv, Agrees, Quiet
<1>3. \A c \in Clients : AtStep(c)'
  BY <1>1 DEF AtStep, Quiet, EditSteps
<1>4. registered \subseteq Sources /\ path \in [Sources -> {"absent", "waiting"} \cup Ready]
      /\ unsure \in [Sources -> BOOLEAN] /\ left \subseteq Sources
  BY DEF IInv, Typed, Types, EntryTypes, GatewayTypes
<1>5. ASSUME UNCHANGED <<registered, path, unsure>>
      PROVE  (\A s \in Sources : Agrees(s) /\ Known(s))' /\ Down'
  <2>1. (\A s \in Sources : Agrees(s) /\ Known(s))'
    BY <1>1, <1>5 DEF IInv, Agrees, Known
  <2>2. Down'
    BY <1>1, <1>5 DEF IInv, Down
  <2> QED BY <2>1, <2>2
<1>6. CASE CloseBegins
  <2>1. Closing'
    BY <1>1, <1>2, <1>6 DEF CloseBegins, Closing, Quiet, gatewayVars
  <2> QED BY <1>1, <1>3, <1>5, <1>6, <2>1 DEF CloseBegins, IInv, OneClient, gatewayVars
<1>7. CASE CloseEnds
  <2>1. Closing'
    BY <1>1, <1>7 DEF CloseEnds, IInv, Closing, Quiet, gatewayVars
  <2> QED BY <1>1, <1>3, <1>5, <1>7, <2>1 DEF CloseEnds, IInv, OneClient, gatewayVars
<1>8. ASSUME NEW s \in Sources, CloseOne(s) PROVE IInv'
  <2>1. \A x \in Sources \ {s} : /\ path'[x] = path[x] /\ unsure'[x] = unsure[x]
                                 /\ (x \in registered') = (x \in registered)
    BY <1>4, <1>8 DEF CloseOne, gatewayVars, Lost, WithoutPath, Sure
  <2>2. \/ unsure'[s] /\ registered' = registered
        \/ path'[s] = "absent" /\ s \notin registered'
        \/ ~up /\ UNCHANGED <<registered, path, unsure>>
    BY <1>4, <1>8 DEF CloseOne, gatewayVars, Lost, WithoutPath, Sure
  <2>3. ~up => unsure[s] \/ (path[s] = "absent" /\ s \notin registered)
    BY DEF IInv, Down
  <2>4. ASSUME NEW x \in Sources PROVE (Agrees(x) /\ Known(x))'
    BY <1>1, <1>2, <2>1, <2>2 DEF IInv, Agrees, Known, Quiet
  <2>5. Down'
    BY <1>1, <2>1, <2>2, <2>3 DEF IInv, Down, Quiet
  <2>6. Closing'
    BY <1>1, <1>8, <2>1, <2>2, <2>3 DEF IInv, Closing, Quiet, CloseOne
  <2> QED BY <1>1, <1>3, <2>4, <2>5, <2>6 DEF IInv, OneClient
<1> QED BY <1>6, <1>7, <1>8 DEF Close

LEMMA StepIInv == IInv /\ [Next]_vars => IInv'
<1> SUFFICES ASSUME IInv, [Next]_vars PROVE IInv'
  OBVIOUS
<1>1. Typed' /\ Typed
  BY StepTyped DEF IInv
<1>2. /\ Checkers = Sources \cup Clients /\ Sources \cap Clients = {}
      /\ pc \in [Checkers -> TaskSteps \cup ClientSteps]
      /\ health \in [Sources -> {"unknown"} \cup States]
  BY <1>1, MediaAssumption DEF Checkers, Typed, PcTyped, Types, EntryTypes
<1>3. ASSUME NEW c \in Clients, Play(c) PROVE IInv'
  <2>1. /\ UNCHANGED <<present, registered, up, path, target, main, left, unsure, shutdown>>
        /\ \A s \in Sources : health'[s] = health[s] \/ health'[s] # "unknown"
    BY <1>2, <1>3 DEF Play, PlaybackBegins, PlaybackAsks, PlaybackEnds, SetHealth, clientUnchanged,
       entryVars, gatewayVars, mainVars
  <2>2. \A d \in Clients : \/ pc'[d] = pc[d]
                           \/ /\ {pc[d], pc'[d]} \cap (EditSteps \cup {"failed"}) = {}
                              /\ pc[d] # "none"
    BY <1>2, <1>3 DEF Play, PlaybackBegins, PlaybackAsks, PlaybackEnds, Goto, EditSteps
  <2> QED BY <1>1, <2>1, <2>2, Aside
<1>4. ASSUME NEW v \in Checkers, Cycle(v) PROVE IInv'
  <2>1. UNCHANGED <<present, registered, up, path, target, main, left, unsure, shutdown>>
    BY <1>4 DEF Cycle, ReadEntry, AskHealth, GetPath, Write, entryVars, cycleUnchanged, mainVars
  <2>2. \A s \in Sources : health'[s] = health[s] \/ health'[s] # "unknown"
    <3>1. pc[v] = "write" => answer[v] # "unknown"
      BY <1>1 DEF Typed, Answers, States
    <3> QED BY <1>2, <1>4, <3>1 DEF Cycle, ReadEntry, AskHealth, GetPath, Write, SetHealth, entryVars
  <2>3. PICK step \in CycleSteps \cup {Over(v)} :
          pc[v] \in CycleSteps /\ pc' = [pc EXCEPT ![v] = step]
    BY <1>4 DEF Cycle, ReadEntry, AskHealth, GetPath, Write, Learn, Goto, CycleSteps
  <2>4. \A d \in Clients : \/ pc'[d] = pc[d]
                           \/ /\ {pc[d], pc'[d]} \cap (EditSteps \cup {"failed"}) = {}
                              /\ pc[d] # "none"
    BY <1>2, <2>3 DEF Over, CycleSteps, EditSteps
  <2> QED BY <1>1, <2>1, <2>2, <2>4, Aside
<1>5. ASSUME NEW s \in Sources, SpawnTask(s) \/ TaskEnds(s) \/ Acquire(s) \/ Age(s) PROVE IInv'
  <2>1. UNCHANGED <<present, health, registered, up, path, target, main, left, unsure, shutdown>>
    BY <1>5 DEF SpawnTask, TaskEnds, Acquire, Age, supUnchanged, entryVars, gatewayVars, mainVars
  <2>2. \A d \in Clients : pc'[d] = pc[d]
    BY <1>2, <1>5 DEF SpawnTask, TaskEnds, Acquire, Age, Goto
  <2> QED BY <1>1, <2>1, <2>2, Aside
<1>6. CASE RoundEnds \/ Collect \/ SupervisorEnds \/ ShutDown \/ UNCHANGED vars
  <2>1. /\ UNCHANGED <<present, health, registered, up, path, target, main, left, unsure, pc>>
        /\ shutdown => shutdown'
    BY <1>6 DEF RoundEnds, Collect, SupervisorEnds, supUnchanged, ShutDown, mainUnchanged, vars,
       entryVars, gatewayVars, mainVars
  <2> QED BY <1>1, <2>1, Aside
<1> QED BY <1>1, <1>3, <1>4, <1>5, <1>6, StepGatewayOnly, StepRequest, StepLeaves, StepClose, StepEdit
   DEF Next, Round

\* With one client at a time, the adapter's set and the gateway's paths agree
\* on every source that is not being edited, whatever is lost or restarted.
THEOREM InStepAlone == OneClient /\ Spec => []InStep
<1>1. IInv => InStep
  BY DEF IInv, Agrees, InStep, Edited, EditSteps
<1> QED BY <1>1, InitIInv, StepIInv, PTL DEF Spec

\* With one client at a time, no registered source drops out of supervision.
THEOREM SupervisedAlone == OneClient /\ Spec => []Supervised
<1>1. IInv => Supervised
  BY DEF IInv, Known, Supervised, Edited, EditSteps, Typed, Types, EntryTypes
<1> QED BY <1>1, InitIInv, StepIInv, PTL DEF Spec

\* With one client at a time, shutdown() leaves no path behind, except where an
\* answer was lost.
THEOREM PathsClearedAlone == OneClient /\ Spec => []PathsCleared
<1>1. IInv => PathsCleared
  BY DEF IInv, Closing, PathsCleared
<1> QED BY <1>1, InitIInv, StepIInv, PTL DEF Spec
=============================================================================
