------------------------ MODULE HealthMonitorProofs ------------------------
(***************************************************************************)
(* Proofs about HealthMonitor, for any finite sets of sources and callers. *)
(***************************************************************************)
EXTENDS HealthMonitor, FiniteSetTheorems, TLAPS

\* The rounds are about sources.
TodoTyped == todo \in [Callers -> SUBSET Sources]

\* A cycle at work has its source in health_inflight.
InFlight == \A k \in Cycles : pc[k] # "none" => k[2] \in inflight

PcTyped == pc \in [Checkers -> Steps]

CInv == PcTyped /\ TodoTyped /\ InFlight /\ OneCycle

LEMMA InitCycles == Init => CInv
BY DEF Init, CInv, PcTyped, TodoTyped, InFlight, OneCycle, Steps, Checkers

\* What a step does to the cycles: nothing, one cycle starts for a source that
\* has none in flight, one goes from step to step, or one leaves.
Starts(k) ==
  /\ k[2] \notin inflight
  /\ inflight' = inflight \cup {k[2]}
  /\ pc[k] = "none"
  /\ pc' = [pc EXCEPT ![k] = "queued"]
  /\ permits' = permits

\* It holds a permit throughout, or takes one, or gives one back.
Moves(k) ==
  /\ inflight' = inflight
  /\ pc[k] # "none"
  /\ \E step \in Steps \ {"none"} :
       /\ pc' = [pc EXCEPT ![k] = step]
       /\ \/ pc[k] \in Holding /\ step \in Holding /\ permits' = permits
          \/ pc[k] = "queued" /\ step \in Holding /\ permits > 0 /\ permits' = permits - 1
          \/ pc[k] \in Holding /\ step = "leave" /\ permits' = permits + 1

Leaves(k) ==
  /\ inflight' = inflight \ {k[2]}
  /\ pc[k] = "leave"
  /\ pc' = [pc EXCEPT ![k] = "none"]
  /\ permits' = permits

Rests ==
  /\ UNCHANGED <<inflight, permits>>
  /\ \A k \in Cycles : pc'[k] = pc[k]
  /\ pc' \in [Checkers -> Steps]

LEMMA CycleSteps ==
  ASSUME PcTyped, TodoTyped, InFlight, [Next]_vars
  PROVE  Rests \/ \E k \in Cycles : Starts(k) \/ Moves(k) \/ Leaves(k)
<1> USE DEF PcTyped, Goto, entryVars, roundVars, checkVars
<1>1. CASE UNCHANGED <<pc, inflight, permits>>
  BY <1>1 DEF Rests
<1>2. ASSUME NEW c \in Clients, Request(c) \/ RequestStep(c) \/ Abandon(c) PROVE Rests
  <2>1. c \in Checkers /\ c \notin Cycles
    BY HealthAssumption DEF Checkers, Cycles
  <2>2. PICK step \in Steps : pc' = [pc EXCEPT ![c] = step] \/ pc' = pc
    <3>1. "none" \in Steps /\ "begin" \in Steps /\ "checking" \in Steps
      BY DEF Steps, Holding
    <3> QED
      BY <1>2, <3>1 DEF Request, RequestStep, RequestBegins, RequestEnds, RequestFails,
                        Abandon, CheckBegins
  <2>3. UNCHANGED <<inflight, permits>>
    BY <1>2 DEF Request, RequestStep, RequestBegins, RequestEnds, RequestFails, Abandon
  <2> QED
    BY <2>1, <2>2, <2>3 DEF Rests, Checkers
<1>3. ASSUME NEW m \in Callers, Tick(m) \/ RoundEnds(m) PROVE UNCHANGED <<pc, inflight, permits>>
  BY <1>3 DEF Tick, RoundEnds
<1>4. ASSUME NEW s \in Sources, Remove(s) \/ Add(s) PROVE UNCHANGED <<pc, inflight, permits>>
  BY <1>4 DEF Remove, Add
<1>5. ASSUME MonitorEnds \/ RequestShutdown \/ Finished \/ UNCHANGED vars
      PROVE  UNCHANGED <<pc, inflight, permits>>
  BY <1>5 DEF MonitorEnds, RequestShutdown, Finished, vars
<1>6. ASSUME NEW k \in Cycles, CycleStep(k), ~LeaveFlight(k) PROVE Moves(k)
  <2> USE DEF Moves, Steps, Holding
  <2>1. CASE Acquire(k)
    BY <2>1 DEF Acquire
  <2>2. CASE CycleBegins(k)
    BY <2>2 DEF CycleBegins, CheckBegins
  <2>3. CASE CycleSucceeds(k) \/ CycleFails(k) \/ CycleLosesSource(k)
    BY <2>3 DEF CycleSucceeds, CycleFails, CycleLosesSource, Apply
  <2>4. CASE MarkRecoveryStarted(k) \/ MarkRecovered(k) \/ MarkExhausted(k)
    BY <2>4 DEF MarkRecoveryStarted, MarkRecovered, MarkExhausted, MarkEntry, MarkComponent
  <2>5. CASE WaitEnds(k) \/ WaitCut(k) \/ Release(k)
    BY <2>5 DEF WaitEnds, WaitCut, Release
  <2> QED
    BY <1>6, <2>1, <2>2, <2>3, <2>4, <2>5 DEF CycleStep
<1>7. ASSUME NEW k \in Cycles, LeaveFlight(k) PROVE Leaves(k)
  BY <1>7 DEF LeaveFlight, Leaves
<1>8. ASSUME NEW m \in Callers, Spawn(m)
      PROVE  Rests \/ \E k \in Cycles : Starts(k)
  <2>1. PICK s \in todo[m] :
          /\ IF s \in inflight THEN UNCHANGED <<inflight, pc, attempt>>
             ELSE /\ inflight' = inflight \cup {s}
                  /\ pc' = [pc EXCEPT ![<<m, s>>] = "queued"]
          /\ permits' = permits
    BY <1>8 DEF Spawn
  <2>2. CASE s \in inflight
    BY <2>1, <2>2 DEF Rests
  <2>3. CASE s \notin inflight
    <3>1. <<m, s>> \in Cycles /\ <<m, s>>[2] = s
      BY DEF Cycles, TodoTyped
    <3>2. pc[<<m, s>>] = "none"
      BY <2>3, <3>1 DEF InFlight
    <3> QED
      BY <2>1, <2>3, <3>1, <3>2 DEF Starts, Holding
  <2> QED
    BY <2>2, <2>3
<1> HIDE DEF Goto, entryVars, roundVars, checkVars
<1> QED
  BY <1>1, <1>2, <1>3, <1>4, <1>5, <1>6, <1>7, <1>8 DEF Next

LEMMA StepCycles == CInv /\ [Next]_vars => CInv'
<1> SUFFICES ASSUME CInv, [Next]_vars PROVE CInv'
  OBVIOUS
<1> USE DEF CInv
<1>1. TodoTyped'
  <2> USE DEF TodoTyped
  <2>1. ASSUME NEW m \in Callers, Tick(m) \/ Spawn(m) \/ RoundEnds(m) PROVE TodoTyped'
    BY <2>1 DEF Tick, Spawn, RoundEnds, roundVars
  <2>2. ASSUME NEW k \in Cycles, CycleStep(k) PROVE UNCHANGED todo
    BY <2>2 DEF CycleStep, Acquire, CycleBegins, CycleSucceeds, CycleFails, CycleLosesSource,
                MarkRecoveryStarted, MarkRecovered, MarkExhausted, MarkEntry, MarkComponent,
                WaitEnds, WaitCut, Release, LeaveFlight, roundVars
  <2>3. ASSUME NEW c \in Clients, Request(c) \/ RequestStep(c) \/ Abandon(c)
        PROVE  UNCHANGED todo
    BY <2>3 DEF Request, RequestStep, RequestBegins, RequestEnds, RequestFails, Abandon,
                roundVars
  <2>4. ASSUME NEW s \in Sources, Remove(s) \/ Add(s) PROVE UNCHANGED todo
    BY <2>4 DEF Remove, Add, roundVars
  <2>5. ASSUME MonitorEnds \/ RequestShutdown \/ Finished \/ UNCHANGED vars
        PROVE  UNCHANGED todo
    BY <2>5 DEF MonitorEnds, RequestShutdown, Finished, vars, roundVars
  <2> QED
    BY <2>1, <2>2, <2>3, <2>4, <2>5 DEF Next
<1>2. Cycles \subseteq Checkers /\ \A step \in {"none", "queued"} : step \in Steps
  BY DEF Checkers, Steps
<1> USE DEF PcTyped, InFlight, OneCycle
<1>3. CASE Rests
  BY <1>1, <1>3 DEF Rests
<1>4. ASSUME NEW k \in Cycles, Starts(k) PROVE CInv'
  BY <1>1, <1>2, <1>4 DEF Starts
<1>5. ASSUME NEW k \in Cycles, Moves(k) PROVE CInv'
  BY <1>1, <1>2, <1>5 DEF Moves
<1>6. ASSUME NEW k \in Cycles, Leaves(k) PROVE CInv'
  BY <1>1, <1>2, <1>6 DEF Leaves
<1> HIDE DEF CInv
<1> QED
  BY <1>3, <1>4, <1>5, <1>6, CycleSteps DEF CInv

\* However many callers run rounds, and however a source is removed and
\* registered again, it never has two recovery loops at work.
THEOREM OneCycleAtATime == Spec => []OneCycle
<1> QED
  BY InitCycles, StepCycles, PTL DEF Spec, CInv

-----------------------------------------------------------------------------
(* The permits.                                                            *)

Holders == {k \in Cycles : pc[k] \in Holding}

PInv == CInv /\ permits \in Nat /\ PermitsKept

LEMMA HoldersFinite == IsFiniteSet(Holders) /\ Cardinality(Holders) \in Nat
<1>1. IsFiniteSet(Cycles)
  BY HealthAssumption, FS_Product DEF Cycles
<1>2. IsFiniteSet(Holders)
  BY <1>1, FS_Subset DEF Holders
<1> QED
  BY <1>2, FS_CardinalityType

LEMMA StepPermits == PInv /\ [Next]_vars => PInv'
<1> SUFFICES ASSUME PInv, [Next]_vars PROVE PInv'
  OBVIOUS
<1>1. CInv'
  BY StepCycles DEF PInv
<1>2. PcTyped /\ Cycles \subseteq Checkers
  BY DEF PInv, CInv, Checkers
<1>3. CASE Rests \/ \E k \in Cycles : Starts(k) \/ Leaves(k)
  <2>1. Holders' = Holders /\ permits' = permits
    BY <1>2, <1>3 DEF Rests, Starts, Leaves, Holders, Holding, PcTyped
  <2> QED
    BY <1>1, <2>1 DEF PInv, PermitsKept, Holders
<1>4. ASSUME NEW k \in Cycles, Moves(k) PROVE PInv'
  <2>1. PICK step \in Steps \ {"none"} :
          /\ pc' = [pc EXCEPT ![k] = step]
          /\ \/ pc[k] \in Holding /\ step \in Holding /\ permits' = permits
             \/ pc[k] = "queued" /\ step \in Holding /\ permits > 0 /\ permits' = permits - 1
             \/ pc[k] \in Holding /\ step = "leave" /\ permits' = permits + 1
    BY <1>4 DEF Moves
  <2>2. \A l \in Cycles : pc'[l] = IF l = k THEN step ELSE pc[l]
    BY <1>2, <2>1 DEF PcTyped
  <2>3. CASE pc[k] \in Holding /\ step \in Holding /\ permits' = permits
    <3>1. Holders' = Holders
      BY <2>2, <2>3 DEF Holders
    <3> QED
      BY <1>1, <2>3, <3>1 DEF PInv, PermitsKept, Holders
  <2>4. CASE /\ pc[k] = "queued" /\ step \in Holding
             /\ permits > 0 /\ permits' = permits - 1
    <3>1. Holders' = Holders \cup {k} /\ k \notin Holders
      BY <2>2, <2>4 DEF Holders, Holding
    <3>2. Cardinality(Holders') = Cardinality(Holders) + 1
      BY <3>1, HoldersFinite, FS_AddElement
    <3> QED
      BY <1>1, <2>4, <3>2, HoldersFinite, HealthAssumption DEF PInv, PermitsKept, Holders
  <2>5. CASE pc[k] \in Holding /\ step = "leave" /\ permits' = permits + 1
    <3>1. Holders' = Holders \ {k} /\ k \in Holders
      BY <2>2, <2>5 DEF Holders, Holding
    <3>2. Cardinality(Holders') = Cardinality(Holders) - 1
      BY <3>1, HoldersFinite, FS_RemoveElement
    <3> QED
      BY <1>1, <2>5, <3>2, HoldersFinite, HealthAssumption DEF PInv, PermitsKept, Holders
  <2> QED
    BY <2>1, <2>3, <2>4, <2>5
<1> QED
  BY <1>3, <1>4, CycleSteps DEF PInv, CInv

LEMMA InitPermits == Init => PInv
<1> SUFFICES ASSUME Init PROVE PInv
  OBVIOUS
<1>1. Holders = {}
  BY DEF Init, Holders, Holding, Checkers
<1>2. Cardinality(Holders) = 0
  BY <1>1, FS_EmptySet
<1> QED
  BY <1>2, InitCycles, HealthAssumption DEF Init, PInv, PermitsKept, Holders

\* No cycle loses its permit or gives it back twice, whichever way it ends: at
\* any time the cycles at work and the free permits add up to
\* max_concurrent_checks, so no more cycles than that are ever at work.
THEOREM PermitsAddUp == Spec => []PermitsKept
BY InitPermits, StepPermits, PTL DEF Spec, PInv


-----------------------------------------------------------------------------
(* The pool of checks.                                                     *)

\* The stage of a source, told from its only cycle that is not over.
StageAt(step) ==
  IF step \in Holding THEN "working" ELSE IF step = "queued" THEN "queued"
  ELSE IF step = "leave" THEN "leaving" ELSE "out"

LEMMA StageOfCycle ==
  ASSUME OneCycle, NEW k \in Cycles, pc[k] # "none"
  PROVE  PoolStage[k[2]] = StageAt(pc[k])
<1>1. PICK m \in Callers, s \in Sources : k = <<m, s>>
  BY DEF Cycles
<1>2. \A l \in Callers : l # m => pc[<<l, s>>] = "none"
  BY <1>1 DEF OneCycle, Cycles
<1> QED
  BY <1>1, <1>2 DEF PoolStage, StageAt, Holding

LEMMA StageOfNone ==
  ASSUME NEW s \in Sources, \A m \in Callers : pc[<<m, s>>] = "none"
  PROVE  PoolStage[s] = "out"
BY DEF PoolStage, Holding

\* No more sources are at work than cycles hold a permit.
LEMMA WorkingBound ==
  Cardinality({s \in Sources : PoolStage[s] = "working"}) <= Cardinality(Holders)
<1> DEFINE Working == {s \in Sources : PoolStage[s] = "working"}
           f == [k \in Holders |-> k[2]]
<1>1. ASSUME NEW s \in Working PROVE \E k \in Holders : k[2] = s
  <2>1. PICK m \in Callers : pc[<<m, s>>] \in Holding
    BY DEF PoolStage
  <2>2. <<m, s>> \in Holders /\ <<m, s>>[2] = s
    BY <2>1 DEF Holders, Cycles
  <2> QED
    BY <2>2
<1>2. \A k \in Holders : k[2] \in Working
  BY DEF PoolStage, Holders, Cycles
<1>3. f \in Surjection(Holders, Working)
  BY <1>1, <1>2 DEF Surjection
<1> QED
  BY <1>3, HoldersFinite, FS_Surjection

LEMMA StepPool ==
  ASSUME PInv, PInv', [Next]_vars
  PROVE  [Pool!Next]_PoolStage
<1>1. PcTyped /\ PcTyped' /\ OneCycle /\ OneCycle' /\ InFlight /\ Cycles \subseteq Checkers
  BY DEF PInv, CInv, Checkers
<1>2. DOMAIN PoolStage = Sources /\ PoolStage' = [s \in Sources |-> PoolStage'[s]]
  BY DEF PoolStage
<1>3. CASE Rests
  <2>1. \A m \in Callers, s \in Sources : pc'[<<m, s>>] = pc[<<m, s>>]
    BY <1>3 DEF Rests, Cycles
  <2> QED
    BY <2>1 DEF PoolStage
<1>4. ASSUME NEW k \in Cycles, NEW step \in Steps, pc' = [pc EXCEPT ![k] = step]
      PROVE  \A s \in Sources : s # k[2] => PoolStage'[s] = PoolStage[s]
  <2>1. \A s \in Sources, m \in Callers : s # k[2] => pc'[<<m, s>>] = pc[<<m, s>>]
    BY <1>1, <1>4 DEF PcTyped, Cycles
  <2> QED
    BY <2>1 DEF PoolStage
<1>5. ASSUME NEW k \in Cycles, NEW step \in Steps, pc' = [pc EXCEPT ![k] = step],
             PoolStage'[k[2]] = StageAt(step)
      PROVE  PoolStage' = [PoolStage EXCEPT ![k[2]] = StageAt(step)]
  BY <1>2, <1>4, <1>5
<1>6. ASSUME NEW k \in Cycles, Starts(k) PROVE Pool!Next
  <2>1. PoolStage[k[2]] = "out"
    <3>1. \A m \in Callers : pc[<<m, k[2]>>] = "none"
      BY <1>1, <1>6 DEF Starts, InFlight, Cycles
    <3> QED
      BY <3>1, StageOfNone DEF Cycles
  <2>2. pc'[k] = "queued" /\ "queued" \in Steps
    BY <1>1, <1>6 DEF Starts, PcTyped, Steps
  <2>3. PoolStage'[k[2]] = StageAt("queued")
    <3>1. PICK m \in Callers, s \in Sources : k = <<m, s>>
      BY DEF Cycles
    <3>2. \A l \in Callers : l # m => pc'[<<l, s>>] = "none"
      BY <1>1, <2>2, <3>1 DEF OneCycle, Cycles
    <3> QED
      BY <2>2, <3>1, <3>2 DEF PoolStage, StageAt, Holding
  <2>4. Pool!Join(k[2])
    BY <1>5, <1>6, <2>1, <2>2, <2>3 DEF Starts, Pool!Join, Pool!Moves, StageAt, Holding
  <2> QED
    BY <2>4 DEF Pool!Next, Cycles
<1>7. ASSUME NEW k \in Cycles, Leaves(k) PROVE Pool!Next
  <2>1. PoolStage[k[2]] = "leaving"
    BY <1>1, <1>7, StageOfCycle DEF Leaves, StageAt, Holding
  <2>2. PoolStage'[k[2]] = StageAt("none")
    <3>1. \A m \in Callers : pc'[<<m, k[2]>>] = "none"
      BY <1>1, <1>7 DEF Leaves, PcTyped, OneCycle, Cycles
    <3> QED
      BY <3>1 DEF PoolStage, StageAt, Holding, Cycles
  <2>3. Pool!Withdraw(k[2])
    BY <1>5, <1>7, <2>1, <2>2 DEF Leaves, Pool!Withdraw, Pool!Moves, StageAt, Holding, Steps
  <2> QED
    BY <2>3 DEF Pool!Next, Cycles
<1>8. ASSUME NEW k \in Cycles, Moves(k) PROVE [Pool!Next]_PoolStage
  <2>1. PICK step \in Steps \ {"none"} :
          /\ pc' = [pc EXCEPT ![k] = step]
          /\ \/ pc[k] \in Holding /\ step \in Holding /\ permits' = permits
             \/ pc[k] = "queued" /\ step \in Holding /\ permits > 0 /\ permits' = permits - 1
             \/ pc[k] \in Holding /\ step = "leave" /\ permits' = permits + 1
    BY <1>8 DEF Moves
  <2>2. PoolStage[k[2]] = StageAt(pc[k])
    BY <1>1, <1>8, StageOfCycle DEF Moves
  <2>3. PoolStage'[k[2]] = StageAt(step)
    <3>1. pc'[k] = step
      BY <1>1, <2>1 DEF PcTyped
    <3>2. PICK m \in Callers, s \in Sources : k = <<m, s>>
      BY DEF Cycles
    <3>3. \A l \in Callers : l # m => pc'[<<l, s>>] = "none"
      BY <1>1, <2>1, <3>1, <3>2 DEF OneCycle, Cycles
    <3> QED
      BY <3>1, <3>2, <3>3 DEF PoolStage, StageAt, Holding
  <2>4. PoolStage' = [PoolStage EXCEPT ![k[2]] = StageAt(step)]
    BY <1>5, <2>1, <2>3
  <2>5. CASE pc[k] \in Holding /\ step \in Holding
    <3>1. PoolStage[k[2]] = StageAt(step)
      BY <2>2, <2>5 DEF StageAt
    <3>2. PoolStage' = PoolStage
      BY <2>4, <3>1 DEF PoolStage
    <3> QED
      BY <3>2
  <2>6. CASE pc[k] = "queued" /\ step \in Holding /\ permits > 0
    <3>1. Cardinality({s \in Sources : PoolStage[s] = "working"}) < Permits
      <4>1. Cardinality(Holders) < Permits
        BY <2>6, HoldersFinite, HealthAssumption DEF PInv, PermitsKept, Holders
      <4>2. IsFiniteSet({s \in Sources : PoolStage[s] = "working"})
        BY HealthAssumption, FS_Subset
      <4> QED
        BY <4>1, <4>2, WorkingBound, HoldersFinite, FS_CardinalityType, HealthAssumption
    <3>2. Pool!Cardinality({s \in Sources : PoolStage[s] = "working"}) < Permits
      BY <3>1 DEF Cardinality, Pool!Cardinality
    <3>3. Pool!Begin(k[2])
      BY <2>2, <2>4, <2>6, <3>2 DEF Pool!Begin, Pool!Moves, StageAt, Holding
    <3> QED
      BY <3>3 DEF Pool!Next, Cycles
  <2>7. CASE pc[k] \in Holding /\ step = "leave"
    <3>1. Pool!End(k[2])
      BY <2>2, <2>4, <2>7 DEF Pool!End, Pool!Moves, StageAt, Holding
    <3> QED
      BY <3>1 DEF Pool!Next, Cycles
  <2> QED
    BY <2>1, <2>5, <2>6, <2>7
<1> QED
  BY <1>3, <1>6, <1>7, <1>8, CycleSteps DEF PInv, CInv

\* The rounds of any number of callers implement the pool of checks.
THEOREM ImplementsPool == Spec => PoolSpec
<1>1. Init => PInv /\ Pool!Init
  <2>1. Init => PInv
    BY InitPermits
  <2>2. Init => Pool!Init
    BY DEF Init, Pool!Init, PoolStage, Holding, Checkers, Cycles
  <2> QED
    BY <2>1, <2>2
<1>2. PInv /\ [Next]_vars => PInv'
  BY StepPermits
<1>3. PInv /\ PInv' /\ [Next]_vars => [Pool!Next]_PoolStage
  BY StepPool
<1> QED
  BY <1>1, <1>2, <1>3, PTL DEF Spec, PoolSpec, Pool!Spec

-----------------------------------------------------------------------------
(* The types, and who attends to a source in recovery.                     *)

EntryTyped ==
  /\ kind \in [Sources -> Kinds \cup {"absent"}]
  /\ validation \in [Sources -> {"unknown", "validating", "validated", "failed"}]
  /\ health \in [Sources -> {"unknown", "healthy", "unhealthy"}]
  /\ recovery \in [Sources -> {"idle", "recovering", "exhausted"}]
RestTyped ==
  /\ component \in [Sources -> {"none", "healthy", "recovering", "failed"}]
  /\ inflight \subseteq Sources
  /\ round \in [Callers -> {"idle", "round", "ended"}]
  /\ target \in [Clients -> Sources \cup {None}]
  /\ shutdown \in BOOLEAN
AttemptsTyped ==
  /\ attempt \in [Cycles -> 0 .. MaxAttempts]
  /\ attempts \in [Sources -> 0 .. MaxAttempts]

LEMMA StepEntries == EntryTyped /\ [Next]_vars => EntryTyped'
<1> SUFFICES ASSUME EntryTyped, [Next]_vars PROVE EntryTyped'
  OBVIOUS
<1> USE DEF EntryTyped, Kinds
<1>1. ASSUME NEW s \in Sources, Remove(s) \/ Add(s) PROVE EntryTyped'
  BY <1>1 DEF Remove, Add
<1>2. ASSUME NEW c \in Clients, Request(c) \/ Abandon(c) \/ RequestFails(c) PROVE EntryTyped'
  BY <1>2 DEF Request, Abandon, RequestFails, entryVars
<1>3. ASSUME NEW v, NEW step, CheckBegins(v, step), UNCHANGED <<kind, health, recovery>>
      PROVE  EntryTyped'
  BY <1>3 DEF CheckBegins
<1>4. ASSUME NEW v, NEW ok \in BOOLEAN, Apply(v, ok), UNCHANGED <<kind, recovery>> PROVE EntryTyped'
  BY <1>4 DEF Apply
<1>5. ASSUME NEW m \in Callers, Tick(m) \/ Spawn(m) \/ RoundEnds(m) PROVE EntryTyped'
  BY <1>5 DEF Tick, Spawn, RoundEnds, entryVars
<1>6. ASSUME NEW k \in Cycles,
             Acquire(k) \/ CycleLosesSource(k) \/ WaitEnds(k) \/ WaitCut(k) \/ Release(k) \/ LeaveFlight(k)
      PROVE  EntryTyped'
  BY <1>6 DEF Acquire, CycleLosesSource, WaitEnds, WaitCut, Release, LeaveFlight, entryVars
<1>7. ASSUME NEW k \in Cycles, MarkRecoveryStarted(k) \/ MarkRecovered(k) \/ MarkExhausted(k)
      PROVE  EntryTyped'
  BY <1>7 DEF MarkRecoveryStarted, MarkRecovered, MarkExhausted, MarkEntry, MarkComponent, entryVars
<1>8. CASE MonitorEnds \/ RequestShutdown \/ Finished \/ UNCHANGED vars
  BY <1>8 DEF MonitorEnds, RequestShutdown, Finished, vars, entryVars
<1> HIDE DEF EntryTyped
<1> QED
  BY <1>1, <1>2, <1>3, <1>4, <1>5, <1>6, <1>7, <1>8
     DEF Next, RequestStep, RequestBegins, RequestEnds, CycleStep, CycleBegins, CycleSucceeds, CycleFails

LEMMA StepRest == TodoTyped /\ RestTyped /\ [Next]_vars => RestTyped'
<1> SUFFICES ASSUME TodoTyped, RestTyped, [Next]_vars PROVE RestTyped'
  OBVIOUS
<1> USE DEF RestTyped, roundVars
<1>1. ASSUME NEW s \in Sources, Remove(s) \/ Add(s) PROVE RestTyped'
  BY <1>1 DEF Remove, Add, checkVars
<1>2. ASSUME NEW c \in Clients, Request(c) \/ RequestStep(c) \/ Abandon(c) PROVE RestTyped'
  BY <1>2 DEF Request, RequestStep, RequestBegins, RequestEnds, RequestFails, Abandon
<1>3. ASSUME NEW m \in Callers, Tick(m) \/ Spawn(m) \/ RoundEnds(m) PROVE RestTyped'
  <2>1. CASE Tick(m) \/ RoundEnds(m)
    BY <1>3, <2>1 DEF Tick, RoundEnds, checkVars
  <2>2. CASE Spawn(m)
    <3>1. inflight' \subseteq inflight \cup todo[m] /\ todo[m] \subseteq Sources
      BY <2>2 DEF Spawn, TodoTyped
    <3> QED
      BY <2>2, <3>1 DEF Spawn
  <2> QED
    BY <1>3, <2>1, <2>2
<1>4. ASSUME NEW k \in Cycles,
             \/ Acquire(k) \/ CycleBegins(k) \/ CycleSucceeds(k) \/ CycleFails(k)
             \/ CycleLosesSource(k) \/ WaitEnds(k) \/ WaitCut(k) \/ Release(k) \/ LeaveFlight(k)
      PROVE  RestTyped'
  BY <1>4 DEF Acquire, CycleBegins, CycleSucceeds, CycleFails, CycleLosesSource, WaitEnds, WaitCut,
              Release, LeaveFlight
<1>5. ASSUME NEW k \in Cycles, MarkRecoveryStarted(k) \/ MarkRecovered(k) \/ MarkExhausted(k)
      PROVE  RestTyped'
  BY <1>5 DEF MarkRecoveryStarted, MarkRecovered, MarkExhausted, MarkEntry, MarkComponent
<1>6. CASE MonitorEnds \/ RequestShutdown \/ Finished \/ UNCHANGED vars
  BY <1>6 DEF MonitorEnds, RequestShutdown, Finished, vars, checkVars
<1> HIDE DEF RestTyped
<1> QED
  BY <1>1, <1>2, <1>3, <1>4, <1>5, <1>6 DEF Next, CycleStep

LEMMA StepAttempts == AttemptsTyped /\ [Next]_vars => AttemptsTyped'
<1> SUFFICES ASSUME AttemptsTyped, [Next]_vars PROVE AttemptsTyped'
  OBVIOUS
<1>1. 0 \in 0..MaxAttempts
  BY HealthAssumption
<1> USE <1>1 DEF AttemptsTyped
<1>2. ASSUME NEW k \in Cycles, CycleFails(k) PROVE AttemptsTyped'
  <2>1. CASE UNCHANGED attempt
    BY <1>2, <2>1 DEF CycleFails
  <2>2. CASE attempt[k] < MaxAttempts /\ attempt' = [attempt EXCEPT ![k] = @ + 1]
    <3>1. attempt[k] + 1 \in 0..MaxAttempts
      BY <2>2, HealthAssumption
    <3> QED
      BY <1>2, <2>2, <3>1 DEF CycleFails
  <2> QED
    BY <1>2, <2>1, <2>2 DEF CycleFails
<1>3. ASSUME NEW k \in Cycles, MarkRecoveryStarted(k) \/ MarkRecovered(k) \/ MarkExhausted(k)
      PROVE  AttemptsTyped'
  <2>1. k[2] \in Sources /\ attempt[k] \in 0..MaxAttempts /\ attempts[k[2]] \in 0..MaxAttempts
    BY DEF Cycles
  <2> QED
    BY <1>3, <2>1 DEF MarkRecoveryStarted, MarkRecovered, MarkExhausted, MarkEntry, MarkComponent, entryVars
<1>4. ASSUME NEW m \in Callers, Tick(m) \/ Spawn(m) \/ RoundEnds(m) PROVE AttemptsTyped'
  BY <1>4 DEF Tick, Spawn, RoundEnds, entryVars, checkVars
<1>5. ASSUME NEW s \in Sources, Remove(s) \/ Add(s) PROVE AttemptsTyped'
  BY <1>5 DEF Remove, Add, checkVars
<1>6. ASSUME NEW c \in Clients, Request(c) \/ RequestStep(c) \/ Abandon(c) PROVE AttemptsTyped'
  BY <1>6 DEF Request, RequestStep, RequestBegins, RequestEnds, RequestFails, Abandon, entryVars
<1>7. ASSUME NEW k \in Cycles,
             \/ Acquire(k) \/ CycleBegins(k) \/ CycleSucceeds(k) \/ CycleLosesSource(k)
             \/ WaitEnds(k) \/ WaitCut(k) \/ Release(k) \/ LeaveFlight(k)
      PROVE  AttemptsTyped'
  BY <1>7 DEF Acquire, CycleBegins, CycleSucceeds, CycleLosesSource, WaitEnds, WaitCut,
              Release, LeaveFlight, entryVars
<1>8. CASE MonitorEnds \/ RequestShutdown \/ Finished \/ UNCHANGED vars
  BY <1>8 DEF MonitorEnds, RequestShutdown, Finished, vars, entryVars, checkVars
<1> HIDE DEF AttemptsTyped
<1> QED
  BY <1>2, <1>3, <1>4, <1>5, <1>6, <1>7, <1>8 DEF Next, CycleStep

LEMMA TypesTogether == PInv /\ EntryTyped /\ RestTyped /\ AttemptsTyped <=> TypeOK /\ PInv
<1>1. PInv => permits \in 0..Permits
  BY HoldersFinite, HealthAssumption DEF PInv, PermitsKept, Holders
<1> QED
  BY <1>1 DEF PInv, CInv, PcTyped, TodoTyped, EntryTyped, RestTyped, AttemptsTyped, TypeOK

\* Sources, cycles and rounds keep to the states the code gives them, and an
\* attempt never exceeds health.max_attempts.
THEOREM TypesHold == Spec => []TypeOK
<1>1. Init => EntryTyped /\ RestTyped /\ AttemptsTyped
  <2> SUFFICES ASSUME Init PROVE EntryTyped /\ RestTyped /\ AttemptsTyped
    OBVIOUS
  <2>1. EntryTyped
    BY DEF Init, EntryTyped, Kinds
  <2>2. RestTyped
    BY DEF Init, RestTyped
  <2>3. AttemptsTyped
    BY HealthAssumption DEF Init, AttemptsTyped
  <2> QED
    BY <2>1, <2>2, <2>3
<1>2. PInv => TodoTyped
  BY DEF PInv, CInv
<1> QED
  BY <1>1, <1>2, StepEntries, StepRest, StepAttempts, TypesTogether, InitPermits, StepPermits, PTL
     DEF Spec

\* The steps from which a cycle will still mark the entry, or see the shutdown.
Marks == {"begin", "checking", "recovered", "exhausted", "retry", "retry_component", "wait"}
Attended ==
  ~shutdown =>
    \A s \in Sources : kind[s] = "rtsp" /\ recovery[s] = "recovering" =>
      \E m \in Callers : pc[<<m, s>>] \in Marks

LEMMA StepAttended == Attended /\ TypeOK /\ CInv /\ [Next]_vars => Attended'
<1> SUFFICES ASSUME Attended, TypeOK, CInv, [Next]_vars, ~shutdown', NEW s \in Sources,
                    kind'[s] = "rtsp", recovery'[s] = "recovering"
             PROVE  \E m \in Callers : pc'[<<m, s>>] \in Marks
  BY DEF Attended
<1>1. \A m \in Callers : <<m, s>> \in Cycles /\ <<m, s>> \in Checkers /\ <<m, s>> \notin Clients
  BY HealthAssumption DEF Cycles, Checkers
<1> USE <1>1 DEF TypeOK
<1>2. ASSUME UNCHANGED <<kind, recovery>>, ~shutdown,
             \A m \in Callers : pc[<<m, s>>] \in Marks => pc'[<<m, s>>] \in Marks
      PROVE  \E m \in Callers : pc'[<<m, s>>] \in Marks
  BY <1>2 DEF Attended
<1>3. ASSUME NEW r \in Sources, Remove(r) \/ Add(r) PROVE \E m \in Callers : pc'[<<m, s>>] \in Marks
  <2>1. kind[s] = "rtsp" /\ recovery[s] = "recovering" /\ UNCHANGED <<pc, shutdown>>
    BY <1>3 DEF Remove, Add, checkVars
  <2> QED
    BY <2>1 DEF Attended
<1>4. ASSUME NEW c \in Clients, Request(c) \/ RequestStep(c) \/ Abandon(c)
      PROVE  \E m \in Callers : pc'[<<m, s>>] \in Marks
  <2>1. /\ UNCHANGED <<kind, recovery, shutdown>>
        /\ \A m \in Callers : pc'[<<m, s>>] = pc[<<m, s>>]
    BY <1>4 DEF Request, RequestStep, RequestBegins, RequestEnds, RequestFails, Abandon,
                CheckBegins, Apply, Goto, entryVars
  <2> QED
    BY <1>2, <2>1
<1>5. ASSUME NEW m \in Callers, Tick(m) \/ Spawn(m) \/ RoundEnds(m)
      PROVE  \E n \in Callers : pc'[<<n, s>>] \in Marks
  <2>1. CASE UNCHANGED pc
    BY <1>2, <1>5, <2>1 DEF Tick, Spawn, RoundEnds, entryVars, checkVars
  <2>2. CASE Spawn(m) /\ ~UNCHANGED pc
    <3>1. PICK r \in todo[m] : r \notin inflight /\ Goto(<<m, r>>, "queued")
      BY <2>2 DEF Spawn
    <3>2. r \in Sources /\ <<m, r>> \in Cycles /\ <<m, r>>[2] = r
      BY <3>1 DEF CInv, TodoTyped, Cycles
    <3>3. pc[<<m, r>>] = "none"
      BY <3>1, <3>2 DEF CInv, InFlight
    <3>4. \A n \in Callers : pc[<<n, s>>] \in Marks => pc'[<<n, s>>] = pc[<<n, s>>]
      BY <3>1, <3>3 DEF Goto, Marks
    <3>5. UNCHANGED <<kind, recovery, shutdown>>
      BY <2>2 DEF Spawn, entryVars
    <3> QED
      BY <1>2, <3>4, <3>5
  <2> QED
    BY <1>5, <2>1, <2>2 DEF Tick, RoundEnds, checkVars
<1>6. ASSUME NEW k \in Cycles, CycleStep(k) PROVE \E m \in Callers : pc'[<<m, s>>] \in Marks
  <2>1. /\ UNCHANGED <<kind, shutdown>> /\ k \in Checkers
        /\ \A l \in Checkers : l # k => pc'[l] = pc[l]
    BY <1>6 DEF CycleStep, Acquire, CycleBegins, CycleSucceeds, CycleFails, CycleLosesSource,
                MarkRecoveryStarted, MarkRecovered, MarkExhausted, MarkEntry, MarkComponent,
                WaitEnds, WaitCut, Release, LeaveFlight, CheckBegins, Apply, Goto, entryVars, Checkers
  <2>2. PICK n \in Callers, r \in Sources : k = <<n, r>>
    BY DEF Cycles
  <2>3. CASE r # s
    <3>1. recovery'[s] = recovery[s]
      BY ZenonT(30), <1>6, <2>2, <2>3 DEF CycleStep, Acquire, CycleBegins, CycleSucceeds, CycleFails,
                  CycleLosesSource, MarkRecoveryStarted, MarkRecovered, MarkExhausted, MarkEntry, MarkComponent,
                  WaitEnds, WaitCut, Release, LeaveFlight, entryVars
    <3> QED
      BY <2>1, <2>2, <2>3, <3>1 DEF Attended
  <2>4. CASE r = s
    <3>1. CASE pc'[k] \in Marks
      BY <2>2, <2>4, <3>1
    <3>2. CASE pc'[k] \notin Marks
      <4>1. pc[k] \notin Marks /\ recovery'[s] = recovery[s]
        BY <1>6, <2>1, <2>2, <2>4, <3>2
           DEF CycleStep, Acquire, CycleBegins, CycleSucceeds, CycleFails, CycleLosesSource,
               MarkRecoveryStarted, MarkRecovered, MarkExhausted, MarkEntry, MarkComponent,
               WaitEnds, WaitCut, Release, LeaveFlight, CheckBegins, Apply, Goto, entryVars,
               Registered, SourceOf, Marks
      <4> QED
        BY <2>1, <2>2, <2>4, <4>1 DEF Attended
    <3> QED
      BY <3>1, <3>2
  <2> QED
    BY <2>3, <2>4
<1>7. CASE MonitorEnds \/ RequestShutdown \/ Finished \/ UNCHANGED vars
  <2>1. UNCHANGED <<kind, recovery, pc>> /\ ~shutdown
    BY <1>7 DEF MonitorEnds, RequestShutdown, Finished, vars, entryVars, checkVars
  <2> QED
    BY <1>2, <2>1
<1> QED
  BY <1>3, <1>4, <1>5, <1>6, <1>7 DEF Next

\* An RTSP source is shown as recovering only while a cycle is at work on it,
\* for any number of sources and callers, whatever is removed and added.
THEOREM RecoveringIsAttended == Spec => []RecoveringIsRunning
<1>1. Init => Attended
  BY DEF Init, Attended
<1>2. Attended /\ CInv => RecoveringIsRunning
  <2> SUFFICES ASSUME Attended, CInv, ~shutdown, NEW s \in Sources,
                      kind[s] = "rtsp", recovery[s] = "recovering"
               PROVE  s \in inflight
    BY DEF RecoveringIsRunning
  <2>1. PICK m \in Callers : pc[<<m, s>>] \in Marks
    BY DEF Attended
  <2>2. <<m, s>> \in Cycles /\ <<m, s>>[2] = s /\ pc[<<m, s>>] # "none"
    BY <2>1 DEF Cycles, Marks
  <2> QED
    BY <2>2 DEF CInv, InFlight
<1> QED
  BY <1>1, <1>2, StepAttended, TypesHold, InitCycles, StepCycles, PTL DEF Spec

=============================================================================
