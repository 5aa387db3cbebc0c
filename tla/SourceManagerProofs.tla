------------------------ MODULE SourceManagerProofs ------------------------
(***************************************************************************)
(* Proofs about SourceManager, for any sources, clients and bounds.        *)
(***************************************************************************)
EXTENDS SourceManager, FiniteSetTheorems, TLAPS

Resting == {"idle", "poll", "serve", "stop_next", "stopped", "ended"}

\* A task that is at work knows its source, and the steps that open the
\* built-in camera are taken for it alone.
SourceKnown ==
  /\ \A t \in Tasks : pc[t] \notin Resting => src[t] \in Sources
  /\ pc[Provider] \in {"cam_open", "cam_store", "cam_running"} => src[Provider] = BuiltIn

TInv == TypeOK /\ SourceKnown

LEMMA VirtualWorkerType ==
  ASSUME slot \in [Slots -> Workers \cup {None}]
  PROVE  VirtualWorker \in Workers \cup {None}
<1> DEFINE full == {i \in 1 .. 4 : slot[VirtualOrder[i]] # None}
<1>1. DOMAIN VirtualOrder = 1 .. 4
  BY DEF VirtualOrder
<1>2. \A i \in 1 .. 4 : VirtualOrder[i] \in Slots
  BY DEF VirtualOrder, Slots
<1>3. CASE full = {}
  BY <1>1, <1>3 DEF VirtualWorker
<1>4. CASE full # {}
  <2>1. \E i \in full : \A j \in full : i <= j
    BY <1>4
  <2>2. (CHOOSE i \in full : \A j \in full : i <= j) \in 1 .. 4
    BY <2>1
  <2> QED
    BY <1>1, <1>2, <1>4, <2>2 DEF VirtualWorker
<1> QED
  BY <1>3, <1>4

LEMMA WorkerOfType ==
  ASSUME TypeOK, NEW s
  PROVE  WorkerOf(s) \in Workers \cup {None}
<1>1. slot["built_in"] \in Workers \cup {None}
  BY DEF TypeOK, Slots
<1> QED
  BY <1>1, VirtualWorkerType DEF TypeOK, WorkerOf

LEMMA SlotForType ==
  ASSUME TypeOK, NEW s
  PROVE  SlotFor(s) \in Slots
BY ConstantsAssumption DEF TypeOK, SlotFor, Slots

LEMMA InitTyped == Init => TInv
<1> SUFFICES ASSUME Init PROVE TInv
  OBVIOUS
<1> USE DEF Init
<1>1. pc \in [Tasks -> Steps]
  BY DEF Steps, ProviderSteps, MainSteps
<1>2. status \in [Sources -> SourceStates]
  BY DEF SourceStates
<1>3. TypeOK
  BY <1>1, <1>2 DEF TypeOK
<1>4. SourceKnown
  BY ConstantsAssumption DEF SourceKnown, Resting, Tasks
<1> QED
  BY <1>3, <1>4 DEF TInv

LEMMA StepTyped == TInv /\ [Next]_vars => TInv'
<1> SUFFICES ASSUME TInv, [Next]_vars PROVE TInv'
  OBVIOUS
<1> USE ConstantsAssumption
<1> USE DEF TInv, TypeOK, SourceKnown, Goto, Resting, Tasks, Steps, StartSteps, StopSteps,
            ProviderSteps, MainSteps, SourceStates, Operations,
            entryVars, workerVars, taskVars, mainVars
<1>1. ASSUME NEW c \in Clients, NEW o \in Ops, NEW s \in Sources, Request(c, o, s)
      PROVE  TInv'
  BY <1>1 DEF Request, FirstStep
<1>2. ASSUME NEW c \in Clients, Abandon(c) PROVE TInv'
  BY <1>2 DEF Abandon, Idle
<1>3. ASSUME NEW c \in Clients, AddEntry(c) PROVE TInv'
  <2>1. src[c] \in Sources
    BY <1>3 DEF AddEntry
  <2>2. CASE src[c] \in registered
    BY <1>3, <2>2 DEF AddEntry, Idle
  <2>3. CASE src[c] \notin registered
    <3> PICK k \in KindsOf[src[c]] : kind' = [kind EXCEPT ![src[c]] = k]
      BY <1>3, <2>3 DEF AddEntry
    <3>1. /\ registered' = registered \cup {src[c]}
          /\ status' = [status EXCEPT ![src[c]] = "stopped"]
          /\ desired' = [desired EXCEPT ![src[c]] = FALSE]
      BY <1>3, <2>3 DEF AddEntry
    <3>3. k \in Slots
      BY <2>1 DEF Slots
    <3>2. /\ registered' \subseteq Sources
          /\ kind' \in [Sources -> Slots]
          /\ status' \in [Sources -> SourceStates]
          /\ desired' \in [Sources -> BOOLEAN]
      BY <2>1, <3>1, <3>3
    <3> QED
      BY <1>3, <3>2 DEF AddEntry, Idle
  <2> QED
    BY <2>2, <2>3
<1>4. ASSUME NEW c \in Clients, RemoveEntry(c) PROVE TInv'
  BY <1>4 DEF RemoveEntry, Idle
<1>5. ASSUME NEW t \in Tasks, StartMark(t) PROVE TInv'
  <2>1. CASE src[t] \in registered
    <3>1. /\ desired' = [desired EXCEPT ![src[t]] = TRUE]
          /\ status' = [status EXCEPT ![src[t]] = "starting"]
          /\ pc' = [pc EXCEPT ![t] = "start_probe"]
          /\ UNCHANGED <<registered, kind, op, src>>
      BY <1>5, <2>1 DEF StartMark
    <3>2. desired' \in [Sources -> BOOLEAN] /\ status' \in [Sources -> SourceStates]
      BY <3>1
    <3> QED
      BY <1>5, <3>1, <3>2 DEF StartMark
  <2>2. CASE src[t] \notin registered
    BY <1>5, <2>2 DEF StartMark, ReturnFromStart, AttemptFailed, Idle, BackToPoll
  <2> QED
    BY <2>1, <2>2
<1>6. ASSUME NEW t \in Tasks, StartProbe(t) PROVE TInv'
  BY <1>6 DEF StartProbe, ReturnFromStart, AttemptFailed, Idle, BackToPoll
<1>7. ASSUME NEW t \in Tasks, StartSwitch(t) PROVE TInv'
  BY <1>7 DEF StartSwitch
<1>8. ASSUME NEW t \in Tasks, StartOpen(t) PROVE TInv'
  <2>1. PICK n \in 1 .. MaxWorkers :
          /\ hand' = [hand EXCEPT ![t] = <<src[t], n>>]
          /\ live' = live \cup {<<src[t], n>>}
          /\ UNCHANGED slot
    BY <1>8 DEF StartOpen, OpenWorker
  <2>2. <<src[t], n>> \in Workers
    BY <1>8 DEF StartOpen, Workers
  <2> QED
    BY <1>8, <2>1, <2>2 DEF StartOpen
<1>9. ASSUME NEW t \in Tasks, StartRejected(t) PROVE TInv'
  BY <1>9 DEF StartRejected, ReturnFromStart, AttemptFailed, Idle, BackToPoll
<1>10. ASSUME NEW t \in Tasks, StartOpenFails(t) PROVE TInv'
  BY <1>10 DEF StartOpenFails
<1>11. ASSUME NEW t \in Tasks, StartStore(t) PROVE TInv'
  BY <1>11 DEF StartStore, StoreWorker
<1>12. ASSUME NEW t \in Tasks, StartActivate(t) PROVE TInv'
  BY <1>12 DEF StartActivate
<1>13. ASSUME NEW t \in Tasks, StartRunning(t) PROVE TInv'
  BY <1>13 DEF StartRunning, ReturnFromStart, AttemptFailed, Idle, BackToPoll
<1>14. ASSUME NEW t \in Tasks, StartFailed(t) PROVE TInv'
  BY <1>14 DEF StartFailed, ReturnFromStart, AttemptFailed, Idle, BackToPoll
<1>15. ASSUME NEW t \in Tasks, StopMark(t) PROVE TInv'
  <2>1. CASE Target(t) \in registered
    <3>1. /\ desired' = [desired EXCEPT ![Target(t)] = FALSE]
          /\ status' = [status EXCEPT ![Target(t)] = "stopping"]
          /\ pc' = [pc EXCEPT ![t] = "stop_take"]
          /\ UNCHANGED <<registered, kind, op, src, victim>>
      BY <1>15, <2>1 DEF StopMark
    <3>2. desired' \in [Sources -> BOOLEAN] /\ status' \in [Sources -> SourceStates]
      BY <3>1
    <3> QED
      BY <1>15, <3>1, <3>2 DEF StopMark
  <2>2. CASE Target(t) \notin registered
    BY <1>15, <2>2 DEF StopMark, ReturnFromStop, Idle
  <2> QED
    BY <2>1, <2>2
<1>16. ASSUME NEW t \in Tasks, StopTake(t) PROVE TInv'
  BY <1>16 DEF StopTake, TakeAndStop
<1>17. ASSUME NEW t \in Tasks, StopCheck(t) PROVE TInv'
  BY <1>17 DEF StopCheck
<1>18. ASSUME NEW t \in Tasks, StopClear(t) PROVE TInv'
  BY <1>18 DEF StopClear
<1>19. ASSUME NEW t \in Tasks, StopDone(t) PROVE TInv'
  BY <1>19 DEF StopDone, ReturnFromStop, Idle, Target
<1>20. ASSUME NEW w \in Workers, WorkerFails(w) PROVE TInv'
  BY <1>20 DEF WorkerFails
<1>21. ASSUME Poll PROVE TInv'
  BY <1>21 DEF Poll
<1>22. ASSUME Attach PROVE TInv'
  <2>1. rx' \in Workers \cup {None}
    BY <1>22, WorkerOfType DEF Attach
  <2>2. pc' = [pc EXCEPT ![Provider] = "fail_mark"] \/ pc' = [pc EXCEPT ![Provider] = "recv"]
    BY <1>22 DEF Attach
  <2> QED
    BY <1>22, <2>1, <2>2 DEF Attach
<1>23. ASSUME RecvFrame PROVE TInv'
  BY <1>23 DEF RecvFrame, DropReceiver, BackToPoll
<1>24. ASSUME RecvClosed PROVE TInv'
  BY <1>24 DEF RecvClosed
<1>25. ASSUME FailMark PROVE TInv'
  BY <1>25 DEF FailMark
<1>26. ASSUME FailTake PROVE TInv'
  <2>1. /\ slot' \in [Slots -> Workers \cup {None}]
        /\ live' \subseteq Workers
    BY <1>26 DEF FailTake, TakeAndStop
  <2> QED
    BY <1>26, <2>1 DEF FailTake, BackToPoll
<1>27. ASSUME ReconnectCheck PROVE TInv'
  BY <1>27 DEF ReconnectCheck, BackToPoll
<1>28. ASSUME ReconnectMark PROVE TInv'
  BY <1>28 DEF ReconnectMark
<1>29. ASSUME BackoffEnds PROVE TInv'
  BY <1>29 DEF BackoffEnds
<1>30. ASSUME BackoffCutShort PROVE TInv'
  BY <1>30 DEF BackoffCutShort, BackToPoll
<1>31. ASSUME CameraOpen PROVE TInv'
  <2>1. PICK n \in 1 .. MaxWorkers :
          /\ hand' = [hand EXCEPT ![Provider] = <<BuiltIn, n>>]
          /\ live' = live \cup {<<BuiltIn, n>>}
          /\ UNCHANGED slot
    BY <1>31 DEF CameraOpen, OpenWorker
  <2>2. <<BuiltIn, n>> \in Workers
    BY <1>31 DEF CameraOpen, Workers
  <2> QED
    BY <1>31, <2>1, <2>2 DEF CameraOpen
<1>32. ASSUME CameraOpenFails PROVE TInv'
  BY <1>32 DEF CameraOpenFails, AttemptFailed, BackToPoll
<1>33. ASSUME CameraStore PROVE TInv'
  BY <1>33 DEF CameraStore, StoreWorker
<1>34. ASSUME CameraRunning PROVE TInv'
  BY <1>34 DEF CameraRunning, BackToPoll
<1>35. ASSUME ProviderEnds PROVE TInv'
  BY <1>35 DEF ProviderEnds
<1>36. ASSUME RequestShutdown PROVE TInv'
  BY <1>36 DEF RequestShutdown
<1>37. ASSUME ServerCloses PROVE TInv'
  BY <1>37 DEF ServerCloses
<1>38. ASSUME ShutdownSources PROVE TInv'
  BY <1>38 DEF ShutdownSources
<1>39. ASSUME ShutdownNext PROVE TInv'
  BY <1>39 DEF ShutdownNext
<1>40. CASE UNCHANGED vars
  BY <1>40 DEF vars
<1> QED
  BY <1>1, <1>2, <1>3, <1>4, <1>5, <1>6, <1>7, <1>8, <1>9, <1>10, <1>11, <1>12, <1>13,
     <1>14, <1>15, <1>16, <1>17, <1>18, <1>19, <1>20, <1>21, <1>22, <1>23, <1>24, <1>25,
     <1>26, <1>27, <1>28, <1>29, <1>30, <1>31, <1>32, <1>33, <1>34, <1>35, <1>36, <1>37,
     <1>38, <1>39, <1>40
     DEF Next, ClientStep, StartStep, StopStep, ProviderStep, FrameStep, MainStep, Finished

\* SourceManager keeps the types: the entries, slots, workers and tasks are
\* what the code's types say, for any number of sources, clients and workers.
THEOREM TypesKept == Spec => []TypeOK
<1>1. Spec => []TInv
  BY InitTyped, StepTyped, PTL DEF Spec
<1> QED
  BY <1>1, PTL DEF TInv

-----------------------------------------------------------------------------
(* The switch.                                                             *)

LEMMA PinsStep == TInv /\ SwitchPinsActive /\ [Next]_vars => SwitchPinsActive'
<1> SUFFICES ASSUME TInv, SwitchPinsActive, [Next]_vars PROVE SwitchPinsActive'
  OBVIOUS
<1> USE ConstantsAssumption
<1> USE DEF TInv, TypeOK, SwitchPinsActive, StopSteps, Tasks, Goto,
            entryVars, workerVars, taskVars, mainVars
<1>1. ASSUME NEW c \in Clients, NEW o \in Ops, NEW s \in Sources, Request(c, o, s)
      PROVE  SwitchPinsActive'
  BY <1>1 DEF Request, FirstStep
<1>2. ASSUME NEW c \in Clients, Abandon(c) PROVE SwitchPinsActive'
  BY <1>2 DEF Abandon, Idle
<1>3. ASSUME NEW c \in Clients, AddEntry(c) PROVE SwitchPinsActive'
  BY <1>3 DEF AddEntry, Idle
<1>4. ASSUME NEW c \in Clients, RemoveEntry(c) PROVE SwitchPinsActive'
  BY <1>4 DEF RemoveEntry, Idle
<1>5. ASSUME NEW t \in Tasks, StartMark(t) PROVE SwitchPinsActive'
  BY <1>5 DEF StartMark, ReturnFromStart, AttemptFailed, Idle, BackToPoll
<1>6. ASSUME NEW t \in Tasks, StartProbe(t) PROVE SwitchPinsActive'
  BY <1>6 DEF StartProbe, ReturnFromStart, AttemptFailed, Idle, BackToPoll
<1>7. ASSUME NEW t \in Tasks, StartSwitch(t) PROVE SwitchPinsActive'
  BY <1>7 DEF StartSwitch
<1>8. ASSUME NEW t \in Tasks, StartOpen(t) PROVE SwitchPinsActive'
  BY <1>8 DEF StartOpen, OpenWorker
<1>9. ASSUME NEW t \in Tasks, StartRejected(t) PROVE SwitchPinsActive'
  BY <1>9 DEF StartRejected, ReturnFromStart, AttemptFailed, Idle, BackToPoll
<1>10. ASSUME NEW t \in Tasks, StartOpenFails(t) PROVE SwitchPinsActive'
  BY <1>10 DEF StartOpenFails
<1>11. ASSUME NEW t \in Tasks, StartStore(t) PROVE SwitchPinsActive'
  BY <1>11 DEF StartStore, StoreWorker
<1>12. ASSUME NEW t \in Tasks, StartActivate(t) PROVE SwitchPinsActive'
  BY <1>12 DEF StartActivate, ActiveWritable
<1>13. ASSUME NEW t \in Tasks, StartRunning(t) PROVE SwitchPinsActive'
  BY <1>13 DEF StartRunning, ReturnFromStart, AttemptFailed, Idle, BackToPoll
<1>14. ASSUME NEW t \in Tasks, StartFailed(t) PROVE SwitchPinsActive'
  BY <1>14 DEF StartFailed, ReturnFromStart, AttemptFailed, Idle, BackToPoll
<1>15. ASSUME NEW t \in Tasks, StopMark(t) PROVE SwitchPinsActive'
  BY <1>15 DEF StopMark, ReturnFromStop, Idle, Target
<1>16. ASSUME NEW t \in Tasks, StopTake(t) PROVE SwitchPinsActive'
  BY <1>16 DEF StopTake, TakeAndStop
<1>17. ASSUME NEW t \in Tasks, StopCheck(t) PROVE SwitchPinsActive'
  BY <1>17 DEF StopCheck, Target
<1>18. ASSUME NEW t \in Tasks, StopClear(t) PROVE SwitchPinsActive'
  BY <1>18 DEF StopClear, ActiveWritable
<1>19. ASSUME NEW t \in Tasks, StopDone(t) PROVE SwitchPinsActive'
  BY <1>19 DEF StopDone, ReturnFromStop, Idle, Target
<1>20. ASSUME NEW w \in Workers, WorkerFails(w) PROVE SwitchPinsActive'
  BY <1>20 DEF WorkerFails
<1>21. ASSUME Poll PROVE SwitchPinsActive'
  BY <1>21 DEF Poll
<1>22. ASSUME Attach PROVE SwitchPinsActive'
  BY <1>22 DEF Attach
<1>23. ASSUME RecvFrame PROVE SwitchPinsActive'
  BY <1>23 DEF RecvFrame, DropReceiver, BackToPoll
<1>24. ASSUME RecvClosed PROVE SwitchPinsActive'
  BY <1>24 DEF RecvClosed
<1>25. ASSUME FailMark PROVE SwitchPinsActive'
  BY <1>25 DEF FailMark
<1>26. ASSUME FailTake PROVE SwitchPinsActive'
  BY <1>26 DEF FailTake, TakeAndStop, BackToPoll
<1>27. ASSUME ReconnectCheck PROVE SwitchPinsActive'
  BY <1>27 DEF ReconnectCheck, BackToPoll
<1>28. ASSUME ReconnectMark PROVE SwitchPinsActive'
  BY <1>28 DEF ReconnectMark
<1>29. ASSUME BackoffEnds PROVE SwitchPinsActive'
  BY <1>29 DEF BackoffEnds
<1>30. ASSUME BackoffCutShort PROVE SwitchPinsActive'
  BY <1>30 DEF BackoffCutShort, BackToPoll
<1>31. ASSUME CameraOpen PROVE SwitchPinsActive'
  BY <1>31 DEF CameraOpen, OpenWorker
<1>32. ASSUME CameraOpenFails PROVE SwitchPinsActive'
  BY <1>32 DEF CameraOpenFails, AttemptFailed, BackToPoll
<1>33. ASSUME CameraStore PROVE SwitchPinsActive'
  BY <1>33 DEF CameraStore, StoreWorker
<1>34. ASSUME CameraRunning PROVE SwitchPinsActive'
  BY <1>34 DEF CameraRunning, BackToPoll
<1>35. ASSUME ProviderEnds PROVE SwitchPinsActive'
  BY <1>35 DEF ProviderEnds
<1>36. ASSUME RequestShutdown PROVE SwitchPinsActive'
  BY <1>36 DEF RequestShutdown
<1>37. ASSUME ServerCloses PROVE SwitchPinsActive'
  BY <1>37 DEF ServerCloses
<1>38. ASSUME ShutdownSources PROVE SwitchPinsActive'
  BY <1>38 DEF ShutdownSources
<1>39. ASSUME ShutdownNext PROVE SwitchPinsActive'
  BY <1>39 DEF ShutdownNext
<1>40. CASE UNCHANGED vars
  BY <1>40 DEF vars
<1> QED
  BY <1>1, <1>2, <1>3, <1>4, <1>5, <1>6, <1>7, <1>8, <1>9, <1>10, <1>11, <1>12, <1>13,
     <1>14, <1>15, <1>16, <1>17, <1>18, <1>19, <1>20, <1>21, <1>22, <1>23, <1>24, <1>25,
     <1>26, <1>27, <1>28, <1>29, <1>30, <1>31, <1>32, <1>33, <1>34, <1>35, <1>36, <1>37,
     <1>38, <1>39, <1>40
     DEF Next, ClientStep, StartStep, StopStep, ProviderStep, FrameStep, MainStep, Finished

\* A start() that switches away keeps active_source on the source it stops:
\* it never gets past the write lock that its own read guard withholds.
THEOREM SwitchStuck == Spec => []SwitchPinsActive
<1>1. Init => SwitchPinsActive
  BY DEF Init, SwitchPinsActive
<1> QED
  BY <1>1, InitTyped, StepTyped, PinsStep, PTL DEF Spec

\* Past its first step the nested stop() of a switch comes no further than the
\* write lock, whoever else runs: only a client that leaves, or the end of the
\* pipeline task after the signal, ends it.  And as long as it waits, no task
\* changes active_source: no other source becomes the active one.
Waiting == StopSteps \ {"stop_mark", "stop_done"}
HangStep ==
  /\ \A t \in Tasks : victim[t] # None /\ pc[t] \in Waiting =>
       \/ pc'[t] \in Waiting /\ victim'[t] = victim[t]
       \/ t \in Clients /\ ClientsLeave /\ pc'[t] = "idle"
       \/ t = Provider /\ shutdown /\ pc'[t] = "ended"
  /\ (\E t \in Tasks : victim[t] # None) => active' = active
SwitchHangs == [][HangStep]_vars

LEMMA HangsStep == TInv /\ SwitchPinsActive /\ [Next]_vars => HangStep
<1> SUFFICES ASSUME TInv, SwitchPinsActive, [Next]_vars PROVE HangStep
  OBVIOUS
<1> USE ConstantsAssumption
<1> USE DEF TInv, TypeOK, SwitchPinsActive, HangStep, Waiting, StopSteps, Tasks, Goto,
            entryVars, workerVars, taskVars, mainVars
<1>1. ASSUME NEW c \in Clients, Abandon(c) \/ AddEntry(c) \/ RemoveEntry(c)
      PROVE  HangStep
  BY <1>1 DEF Abandon, AddEntry, RemoveEntry, Idle
<1>2. ASSUME NEW c \in Clients, NEW o \in Ops, NEW s \in Sources, Request(c, o, s)
      PROVE  HangStep
  BY <1>2 DEF Request, FirstStep
<1>3. ASSUME NEW t \in Tasks, StartMark(t) \/ StartProbe(t) \/ StartRejected(t) \/ StartRunning(t) \/ StartFailed(t)
      PROVE  HangStep
  BY <1>3 DEF StartMark, StartProbe, StartRejected, StartRunning, StartFailed, ReturnFromStart,
              AttemptFailed, Idle, BackToPoll
<1>4. ASSUME NEW t \in Tasks, StartSwitch(t) \/ StartOpen(t) \/ StartOpenFails(t) \/ StartStore(t)
      PROVE  HangStep
  BY <1>4 DEF StartSwitch, StartOpen, StartOpenFails, StartStore, OpenWorker, StoreWorker
<1>5. ASSUME NEW t \in Tasks, StartActivate(t) PROVE HangStep
  BY <1>5 DEF StartActivate, ActiveWritable
<1>6. ASSUME NEW t \in Tasks, StopMark(t) \/ StopDone(t) PROVE HangStep
  BY <1>6 DEF StopMark, StopDone, ReturnFromStop, Idle, Target
<1>7. ASSUME NEW t \in Tasks, StopTake(t) \/ StopCheck(t) \/ StopClear(t) PROVE HangStep
  BY <1>7 DEF StopTake, TakeAndStop, StopCheck, Target, StopClear, ActiveWritable
<1>8. ASSUME NEW w \in Workers, WorkerFails(w) PROVE HangStep
  BY <1>8 DEF WorkerFails
<1>9. CASE Poll \/ Attach \/ RecvFrame \/ RecvClosed \/ FailMark \/ FailTake
  BY <1>9 DEF Poll, Attach, RecvFrame, RecvClosed, FailMark, FailTake, DropReceiver, TakeAndStop, BackToPoll
<1>10. CASE ReconnectCheck \/ ReconnectMark \/ BackoffEnds \/ BackoffCutShort
  BY <1>10 DEF ReconnectCheck, ReconnectMark, BackoffEnds, BackoffCutShort, BackToPoll
<1>11. CASE CameraOpen \/ CameraOpenFails \/ CameraStore \/ CameraRunning
  BY <1>11 DEF CameraOpen, CameraOpenFails, CameraStore, CameraRunning, OpenWorker, StoreWorker, AttemptFailed, BackToPoll
<1>12. CASE ProviderEnds
  BY <1>12 DEF ProviderEnds
<1>13. CASE RequestShutdown \/ ServerCloses \/ ShutdownSources \/ ShutdownNext
  BY <1>13 DEF RequestShutdown, ServerCloses, ShutdownSources, ShutdownNext
<1>14. CASE UNCHANGED vars
  BY <1>14 DEF vars
<1> QED
  BY <1>1, <1>2, <1>3, <1>4, <1>5, <1>6, <1>7, <1>8, <1>9, <1>10, <1>11, <1>12, <1>13, <1>14
     DEF Next, ClientStep, StartStep, StopStep, ProviderStep, FrameStep, MainStep, Finished

\* The switch of docs/rtsp-testing.md:31 that never completes, for any sources,
\* clients and workers.
THEOREM SwitchesHang == Spec => SwitchHangs
<1>1. Init => SwitchPinsActive
  BY DEF Init, SwitchPinsActive
<1>2. TInv /\ SwitchPinsActive /\ [Next]_vars => [HangStep]_vars
  BY HangsStep
<1> QED
  BY <1>1, <1>2, InitTyped, StepTyped, PinsStep, PTL DEF Spec, SwitchHangs

-----------------------------------------------------------------------------
(* The workers.                                                            *)

\* Only a task that has just opened a worker has one in its hands, and it is
\* a worker of the source the task is about; only a next_frame that waits for
\* a frame has a receiver.
HandKnown ==
  /\ \A t \in Tasks : hand[t] # None =>
       /\ pc[t] \in {"start_store", "cam_store"}
       /\ SourceOf(hand[t]) = src[t]
  /\ rx # None => pc[Provider] = "recv"

LEMMA HandStep == TInv /\ HandKnown /\ [Next]_vars => HandKnown'
<1> SUFFICES ASSUME TInv, HandKnown, [Next]_vars PROVE HandKnown'
  OBVIOUS
<1> USE ConstantsAssumption
<1> USE DEF TInv, TypeOK, SourceKnown, HandKnown, SourceOf, Tasks, Goto,
            entryVars, workerVars, taskVars, mainVars
<1>1. ASSUME NEW c \in Clients, NEW o \in Ops, NEW s \in Sources, Request(c, o, s)
      PROVE  HandKnown'
  BY <1>1 DEF Request, FirstStep
<1>2. ASSUME NEW c \in Clients, Abandon(c) PROVE HandKnown'
  BY <1>2 DEF Abandon, Idle
<1>3. ASSUME NEW c \in Clients, AddEntry(c) PROVE HandKnown'
  BY <1>3 DEF AddEntry, Idle
<1>4. ASSUME NEW c \in Clients, RemoveEntry(c) PROVE HandKnown'
  BY <1>4 DEF RemoveEntry, Idle
<1>5. ASSUME NEW t \in Tasks, StartMark(t) PROVE HandKnown'
  BY <1>5 DEF StartMark, ReturnFromStart, AttemptFailed, Idle, BackToPoll
<1>6. ASSUME NEW t \in Tasks, StartProbe(t) PROVE HandKnown'
  BY <1>6 DEF StartProbe, ReturnFromStart, AttemptFailed, Idle, BackToPoll
<1>7. ASSUME NEW t \in Tasks, StartSwitch(t) PROVE HandKnown'
  BY <1>7 DEF StartSwitch
<1>8. ASSUME NEW t \in Tasks, StartOpen(t) PROVE HandKnown'
  BY <1>8 DEF StartOpen, OpenWorker
<1>9. ASSUME NEW t \in Tasks, StartRejected(t) PROVE HandKnown'
  BY <1>9 DEF StartRejected, ReturnFromStart, AttemptFailed, Idle, BackToPoll
<1>10. ASSUME NEW t \in Tasks, StartOpenFails(t) PROVE HandKnown'
  BY <1>10 DEF StartOpenFails
<1>11. ASSUME NEW t \in Tasks, StartStore(t) PROVE HandKnown'
  BY <1>11 DEF StartStore, StoreWorker
<1>12. ASSUME NEW t \in Tasks, StartActivate(t) PROVE HandKnown'
  BY <1>12 DEF StartActivate
<1>13. ASSUME NEW t \in Tasks, StartRunning(t) PROVE HandKnown'
  BY <1>13 DEF StartRunning, ReturnFromStart, AttemptFailed, Idle, BackToPoll
<1>14. ASSUME NEW t \in Tasks, StartFailed(t) PROVE HandKnown'
  BY <1>14 DEF StartFailed, ReturnFromStart, AttemptFailed, Idle, BackToPoll
<1>15. ASSUME NEW t \in Tasks, StopMark(t) PROVE HandKnown'
  BY <1>15 DEF StopMark, ReturnFromStop, Idle, Target
<1>16. ASSUME NEW t \in Tasks, StopTake(t) PROVE HandKnown'
  BY <1>16 DEF StopTake, TakeAndStop
<1>17. ASSUME NEW t \in Tasks, StopCheck(t) PROVE HandKnown'
  BY <1>17 DEF StopCheck
<1>18. ASSUME NEW t \in Tasks, StopClear(t) PROVE HandKnown'
  BY <1>18 DEF StopClear
<1>19. ASSUME NEW t \in Tasks, StopDone(t) PROVE HandKnown'
  BY <1>19 DEF StopDone, ReturnFromStop, Idle, Target
<1>20. ASSUME NEW w \in Workers, WorkerFails(w) PROVE HandKnown'
  BY <1>20 DEF WorkerFails
<1>21. ASSUME Poll PROVE HandKnown'
  BY <1>21 DEF Poll
<1>22. ASSUME Attach PROVE HandKnown'
  BY <1>22 DEF Attach
<1>23. ASSUME RecvFrame PROVE HandKnown'
  BY <1>23 DEF RecvFrame, DropReceiver, BackToPoll
<1>24. ASSUME RecvClosed PROVE HandKnown'
  BY <1>24 DEF RecvClosed
<1>25. ASSUME FailMark PROVE HandKnown'
  BY <1>25 DEF FailMark
<1>26. ASSUME FailTake PROVE HandKnown'
  BY <1>26 DEF FailTake, TakeAndStop, BackToPoll
<1>27. ASSUME ReconnectCheck PROVE HandKnown'
  BY <1>27 DEF ReconnectCheck, BackToPoll
<1>28. ASSUME ReconnectMark PROVE HandKnown'
  BY <1>28 DEF ReconnectMark
<1>29. ASSUME BackoffEnds PROVE HandKnown'
  BY <1>29 DEF BackoffEnds
<1>30. ASSUME BackoffCutShort PROVE HandKnown'
  BY <1>30 DEF BackoffCutShort, BackToPoll
<1>31. ASSUME CameraOpen PROVE HandKnown'
  BY <1>31 DEF CameraOpen, OpenWorker
<1>32. ASSUME CameraOpenFails PROVE HandKnown'
  BY <1>32 DEF CameraOpenFails, AttemptFailed, BackToPoll
<1>33. ASSUME CameraStore PROVE HandKnown'
  BY <1>33 DEF CameraStore, StoreWorker
<1>34. ASSUME CameraRunning PROVE HandKnown'
  BY <1>34 DEF CameraRunning, BackToPoll
<1>35. ASSUME ProviderEnds PROVE HandKnown'
  BY <1>35 DEF ProviderEnds
<1>36. ASSUME RequestShutdown PROVE HandKnown'
  BY <1>36 DEF RequestShutdown
<1>37. ASSUME ServerCloses PROVE HandKnown'
  BY <1>37 DEF ServerCloses
<1>38. ASSUME ShutdownSources PROVE HandKnown'
  BY <1>38 DEF ShutdownSources
<1>39. ASSUME ShutdownNext PROVE HandKnown'
  BY <1>39 DEF ShutdownNext
<1>40. CASE UNCHANGED vars
  BY <1>40 DEF vars
<1> QED
  BY <1>1, <1>2, <1>3, <1>4, <1>5, <1>6, <1>7, <1>8, <1>9, <1>10, <1>11, <1>12, <1>13,
     <1>14, <1>15, <1>16, <1>17, <1>18, <1>19, <1>20, <1>21, <1>22, <1>23, <1>24, <1>25,
     <1>26, <1>27, <1>28, <1>29, <1>30, <1>31, <1>32, <1>33, <1>34, <1>35, <1>36, <1>37,
     <1>38, <1>39, <1>40
     DEF Next, ClientStep, StartStep, StopStep, ProviderStep, FrameStep, MainStep, Finished

\* The steps that move or end a worker.
LEMMA WorkerSteps ==
  ASSUME [Next]_vars
  PROVE  \/ UNCHANGED <<slot, live, hand, rx>>
         \/ \E c \in Clients : Abandon(c)
         \/ \E t \in Tasks : StartOpen(t) \/ StartStore(t) \/ StopTake(t)
         \/ \E w \in Workers : WorkerFails(w)
         \/ FailTake \/ CameraOpen \/ CameraStore \/ ProviderEnds
         \/ Attach \/ RecvFrame \/ RecvClosed
<1> USE DEF entryVars, workerVars, taskVars, mainVars
<1>1. ASSUME NEW t \in Tasks, StartStep(t), ~StartStore(t)
      PROVE  UNCHANGED <<slot, live, hand, rx>>
  BY <1>1 DEF StartStep, StartMark, StartProbe, StartSwitch, StartRejected, StartOpenFails,
              StartActivate, StartRunning, StartFailed
<1>2. ASSUME NEW t \in Tasks, StopStep(t), ~StopTake(t)
      PROVE  UNCHANGED <<slot, live, hand, rx>>
  BY <1>2 DEF StopStep, StopMark, StopCheck, StopClear, StopDone
<1>3. ASSUME NEW c \in Clients, NEW o \in Ops, NEW s \in Sources,
             Request(c, o, s) \/ AddEntry(c) \/ RemoveEntry(c)
      PROVE  UNCHANGED <<slot, live, hand, rx>>
  BY <1>3 DEF Request, AddEntry, RemoveEntry
<1>4. ASSUME \/ Poll \/ FailMark \/ ReconnectCheck \/ ReconnectMark
             \/ BackoffEnds \/ BackoffCutShort \/ CameraOpenFails \/ CameraRunning
      PROVE  UNCHANGED <<slot, live, hand, rx>>
  BY <1>4 DEF Poll, FailMark, ReconnectCheck, ReconnectMark, BackoffEnds,
              BackoffCutShort, CameraOpenFails, CameraRunning
<1>5. ASSUME \/ RequestShutdown \/ ServerCloses \/ ShutdownSources \/ ShutdownNext
             \/ Finished \/ UNCHANGED vars
      PROVE  UNCHANGED <<slot, live, hand, rx>>
  BY <1>5 DEF RequestShutdown, ServerCloses, ShutdownSources, ShutdownNext, Finished, vars
<1> DEFINE Moves ==
             \/ UNCHANGED <<slot, live, hand, rx>>
             \/ \E c \in Clients : Abandon(c)
             \/ \E t \in Tasks : StartOpen(t) \/ StartStore(t) \/ StopTake(t)
             \/ \E w \in Workers : WorkerFails(w)
             \/ FailTake \/ CameraOpen \/ CameraStore \/ ProviderEnds
             \/ Attach \/ RecvFrame \/ RecvClosed
<1>6. ASSUME NEW t \in Tasks, StartStep(t) \/ StopStep(t) \/ StartOpen(t)
      PROVE  Moves
  BY <1>1, <1>2, <1>6
<1>7. Clients \subseteq Tasks /\ Provider \in Tasks /\ Main \in Tasks
  BY DEF Tasks
<1>8. ASSUME NEW c \in Clients, ClientStep(c) PROVE Moves
  <2>1. CASE StartStep(c) \/ StopStep(c)
    BY <1>6, <1>7, <2>1
  <2>2. CASE AddEntry(c) \/ RemoveEntry(c)
    BY <2>2 DEF AddEntry, RemoveEntry
  <2> QED
    BY <1>8, <2>1, <2>2 DEF ClientStep
<1>9. ASSUME ProviderStep PROVE Moves
  <2>1. CASE StartStep(Provider) \/ StopStep(Provider)
    BY <1>6, <1>7, <2>1
  <2> QED
    BY <1>4, <1>9, <2>1 DEF ProviderStep
<1>10. ASSUME MainStep PROVE Moves
  BY <1>5, <1>6, <1>7, <1>10 DEF MainStep
<1> HIDE DEF entryVars, workerVars, taskVars, mainVars
<1>11. CASE \E c \in Clients : ClientStep(c) \/ StartOpen(c) \/ Abandon(c)
  BY <1>6, <1>7, <1>8, <1>11
<1>12. CASE \/ ProviderStep \/ FrameStep \/ StartOpen(Provider) \/ CameraOpen
             \/ ProviderEnds
  BY <1>6, <1>7, <1>9, <1>12 DEF FrameStep
<1> QED
  BY <1>3, <1>5, <1>10, <1>11, <1>12 DEF Next

LEMMA StrayStep == TInv /\ HandKnown /\ NoStrayWorker /\ [Next]_vars => NoStrayWorker'
<1> SUFFICES ASSUME TInv, HandKnown, NoStrayWorker, [Next]_vars PROVE NoStrayWorker'
  OBVIOUS
<1> USE ConstantsAssumption
<1> USE DEF TInv, TypeOK, HandKnown, NoStrayWorker, Tasks, Goto,
            entryVars, workerVars, taskVars, mainVars
<1>1. CASE UNCHANGED <<slot, live, hand, rx>>
  BY <1>1
<1>2. ASSUME NEW c \in Clients, Abandon(c) PROVE NoStrayWorker'
  BY <1>2 DEF Abandon, Idle
<1>3. ASSUME NEW t \in Tasks, StartOpen(t) PROVE NoStrayWorker'
  BY <1>3 DEF StartOpen, OpenWorker
<1>4. ASSUME NEW t \in Tasks, StartStore(t) PROVE NoStrayWorker'
  <2>1. SlotFor(src[t]) \in Slots
    BY SlotForType
  <2> QED
    BY <1>4, <2>1 DEF StartStore, StoreWorker
<1>5. ASSUME NEW t \in Tasks, StopTake(t) PROVE NoStrayWorker'
  BY <1>5 DEF StopTake, TakeAndStop
<1>6. ASSUME NEW w \in Workers, WorkerFails(w) PROVE NoStrayWorker'
  BY <1>6 DEF WorkerFails
<1>7. ASSUME FailTake PROVE NoStrayWorker'
  BY <1>7 DEF FailTake, TakeAndStop
<1>8. ASSUME CameraOpen PROVE NoStrayWorker'
  BY <1>8 DEF CameraOpen, OpenWorker
<1>9. ASSUME CameraStore PROVE NoStrayWorker'
  <2>1. "built_in" \in Slots
    BY DEF Slots
  <2> QED
    BY <1>9, <2>1 DEF CameraStore, StoreWorker
<1>10. ASSUME ProviderEnds PROVE NoStrayWorker'
  BY <1>10 DEF ProviderEnds
<1>11. ASSUME Attach PROVE NoStrayWorker'
  BY <1>11 DEF Attach
<1>12. ASSUME RecvFrame PROVE NoStrayWorker'
  BY <1>12 DEF RecvFrame, DropReceiver
<1>13. ASSUME RecvClosed PROVE NoStrayWorker'
  BY <1>13 DEF RecvClosed
<1> QED
  BY WorkerSteps, <1>1, <1>2, <1>3, <1>4, <1>5, <1>6, <1>7, <1>8, <1>9, <1>10,
     <1>11, <1>12, <1>13

\* Whatever is overwritten, removed or abandoned, a capture thread that was
\* not told to end is in a slot or in the hands of the task that opened it.
THEOREM NoneStray == Spec => []NoStrayWorker
<1>1. Init => HandKnown /\ NoStrayWorker
  BY DEF Init, HandKnown, NoStrayWorker
<1> QED
  BY <1>1, InitTyped, StepTyped, HandStep, StrayStep, PTL DEF Spec

KindKnown == \A s \in Sources : kind[s] \in KindsOf[s]

LEMMA KindStep == TInv /\ KindKnown /\ [Next]_vars => KindKnown'
<1> SUFFICES ASSUME TInv, KindKnown, [Next]_vars PROVE KindKnown'
  OBVIOUS
<1> USE DEF TInv, TypeOK, KindKnown, entryVars, workerVars, taskVars, mainVars
<1>1. ASSUME NEW t \in Tasks, StartStep(t) \/ StartOpen(t) \/ StopStep(t) PROVE UNCHANGED kind
  BY <1>1 DEF StartStep, StartMark, StartProbe, StartSwitch, StartRejected, StartOpenFails,
              StartStore, StartActivate, StartRunning, StartFailed, StartOpen,
              StopStep, StopMark, StopTake, StopCheck, StopClear, StopDone
<1>2. ASSUME NEW c \in Clients, AddEntry(c) PROVE KindKnown'
  BY <1>2 DEF AddEntry
<1>3. ASSUME NEW c \in Clients, NEW o \in Ops, NEW s \in Sources,
             Request(c, o, s) \/ RemoveEntry(c) \/ Abandon(c)
      PROVE  UNCHANGED kind
  BY <1>3 DEF Request, RemoveEntry, Abandon
<1>4. ASSUME \/ Poll \/ Attach \/ FailMark \/ FailTake \/ ReconnectCheck \/ ReconnectMark
             \/ BackoffEnds \/ BackoffCutShort \/ CameraOpen \/ CameraOpenFails
             \/ CameraStore \/ CameraRunning \/ FrameStep \/ ProviderEnds
             \/ \E w \in Workers : WorkerFails(w)
      PROVE  UNCHANGED kind
  BY <1>4 DEF Poll, Attach, FailMark, FailTake, ReconnectCheck, ReconnectMark, BackoffEnds,
              BackoffCutShort, CameraOpen, CameraOpenFails, CameraStore, CameraRunning,
              FrameStep, RecvFrame, RecvClosed, ProviderEnds, WorkerFails
<1>5. ASSUME \/ RequestShutdown \/ ServerCloses \/ ShutdownSources \/ ShutdownNext
             \/ Finished \/ UNCHANGED vars
      PROVE  UNCHANGED kind
  BY <1>5 DEF RequestShutdown, ServerCloses, ShutdownSources, ShutdownNext, Finished, vars
<1>6. Clients \subseteq Tasks /\ Provider \in Tasks /\ Main \in Tasks
  BY DEF Tasks
<1>7. ASSUME NEW c \in Clients, ClientStep(c) \/ StartOpen(c) PROVE KindKnown'
  <2>1. CASE StartStep(c) \/ StartOpen(c) \/ StopStep(c)
    BY <1>1, <1>6, <2>1
  <2>2. CASE RemoveEntry(c)
    BY <2>2 DEF RemoveEntry
  <2> QED
    BY <1>2, <1>7, <2>1, <2>2 DEF ClientStep
<1>8. ASSUME ProviderStep \/ StartOpen(Provider) \/ MainStep PROVE UNCHANGED kind
  BY <1>1, <1>4, <1>5, <1>6, <1>8 DEF ProviderStep, MainStep
<1>9. UNCHANGED kind => KindKnown'
  OBVIOUS
<1> HIDE DEF TInv, TypeOK, KindKnown, entryVars, workerVars, taskVars, mainVars
<1>10. CASE \E c \in Clients, o \in Ops, s \in Sources : Request(c, o, s)
  BY <1>3, <1>9, <1>10
<1>11. CASE \E c \in Clients : ClientStep(c) \/ StartOpen(c) \/ Abandon(c)
  <2>1. ASSUME NEW c \in Clients, Abandon(c) PROVE UNCHANGED kind
    BY <2>1 DEF Abandon, entryVars
  <2> QED
    BY <1>7, <1>9, <1>11, <2>1
<1> QED
  BY <1>4, <1>5, <1>8, <1>9, <1>10, <1>11 DEF Next

LEMMA FiledStep ==
  TInv /\ HandKnown /\ KindKnown /\ FiledByKind /\ [Next]_vars => FiledByKind'
<1> SUFFICES ASSUME TInv, HandKnown, KindKnown, FiledByKind, [Next]_vars PROVE FiledByKind'
  OBVIOUS
<1> USE ConstantsAssumption
<1> USE DEF TInv, TypeOK, SourceKnown, HandKnown, FiledByKind, Tasks, Goto,
            entryVars, workerVars, taskVars, mainVars
<1>1. CASE UNCHANGED <<slot, live, hand, rx>>
  BY <1>1
<1>2. ASSUME NEW c \in Clients, Abandon(c) PROVE FiledByKind'
  BY <1>2 DEF Abandon, Idle
<1>3. ASSUME NEW t \in Tasks, StartOpen(t) PROVE FiledByKind'
  BY <1>3 DEF StartOpen, OpenWorker
<1>4. ASSUME NEW t \in Tasks, StartStore(t) PROVE FiledByKind'
  <2>1. SlotFor(src[t]) \in Slots
    BY SlotForType
  <2>2. src[t] \in Sources
    BY <1>4 DEF StartStore, Resting
  <2>3. SlotFor(src[t]) = "video_file" \/ SlotFor(src[t]) \in KindsOf[src[t]]
    BY <2>2 DEF SlotFor, KindKnown
  <2> QED
    BY <1>4, <2>1, <2>3 DEF StartStore, StoreWorker
<1>5. ASSUME NEW t \in Tasks, StopTake(t) PROVE FiledByKind'
  BY <1>5 DEF StopTake, TakeAndStop
<1>6. ASSUME NEW w \in Workers, WorkerFails(w) PROVE FiledByKind'
  BY <1>6 DEF WorkerFails
<1>7. ASSUME FailTake PROVE FiledByKind'
  BY <1>7 DEF FailTake, TakeAndStop
<1>8. ASSUME CameraOpen PROVE FiledByKind'
  BY <1>8 DEF CameraOpen, OpenWorker
<1>9. ASSUME CameraStore PROVE FiledByKind'
  BY <1>9 DEF CameraStore, StoreWorker
<1>10. ASSUME ProviderEnds PROVE FiledByKind'
  BY <1>10 DEF ProviderEnds
<1>11. ASSUME Attach PROVE FiledByKind'
  BY <1>11 DEF Attach
<1>12. ASSUME RecvFrame PROVE FiledByKind'
  BY <1>12 DEF RecvFrame, DropReceiver
<1>13. ASSUME RecvClosed PROVE FiledByKind'
  BY <1>13 DEF RecvClosed
<1> QED
  BY WorkerSteps, <1>1, <1>2, <1>3, <1>4, <1>5, <1>6, <1>7, <1>8, <1>9, <1>10,
     <1>11, <1>12, <1>13

\* The slot in which stop() looks for a source's worker never holds one of
\* another kind, unless it is the video-file slot.
THEOREM WorkersFiled == Spec => []FiledByKind
<1>1. Init => HandKnown /\ KindKnown /\ FiledByKind
  BY DEF Init, HandKnown, KindKnown, FiledByKind
<1> QED
  BY <1>1, InitTyped, StepTyped, HandStep, KindStep, FiledStep, PTL DEF Spec

-----------------------------------------------------------------------------
(* The built-in camera and the other sources.                              *)

\* The built-in camera's slot holds its workers and no other slot does.
CameraFiled ==
  \A k \in Slots : slot[k] # None => (k = "built_in" <=> SourceOf(slot[k]) = BuiltIn)

\* next_frame waits on a worker of the camera exactly when it asked for one.
CameraApart ==
  pc[Provider] = "recv" => /\ rx # None
                           /\ src[Provider] = BuiltIn <=> SourceOf(rx) = BuiltIn

LEMMA VirtualWorkerPlace ==
  ASSUME VirtualWorker # None
  PROVE  \E k \in Slots \ {"built_in"} : slot[k] = VirtualWorker
<1> DEFINE full == {i \in DOMAIN VirtualOrder : slot[VirtualOrder[i]] # None}
           first == CHOOSE i \in full : \A j \in full : i <= j
<1>1. /\ DOMAIN VirtualOrder = 1 .. 4
      /\ \A i \in 1 .. 4 : VirtualOrder[i] \in Slots \ {"built_in"}
  BY DEF VirtualOrder, Slots
<1>2. full # {} /\ VirtualWorker = slot[VirtualOrder[first]]
  BY DEF VirtualWorker
<1>3. \E i \in full : \A j \in full : i <= j
  BY <1>1, <1>2
<1>4. first \in 1 .. 4
  BY <1>1, <1>3
<1> HIDE DEF first
<1> QED
  BY <1>1, <1>2, <1>4

LEMMA CameraFiledStep ==
  TInv /\ HandKnown /\ KindKnown /\ CameraFiled /\ [Next]_vars => CameraFiled'
<1> SUFFICES ASSUME TInv, HandKnown, KindKnown, CameraFiled, [Next]_vars
             PROVE  CameraFiled'
  OBVIOUS
<1> USE ConstantsAssumption
<1> USE DEF TInv, TypeOK, SourceKnown, HandKnown, CameraFiled, Tasks, Goto,
            entryVars, workerVars, taskVars, mainVars
<1>1. ASSUME NEW t \in Tasks, StartStore(t) PROVE CameraFiled'
  <2>1. src[t] \in Sources /\ (SourceOf(hand[t]) = src[t] \/ hand[t] = None)
    BY <1>1 DEF StartStore, Resting
  <2>2. SlotFor(src[t]) = "built_in" <=> src[t] = BuiltIn
    BY <1>1 DEF StartStore, Resting, SlotFor, KindKnown
  <2> QED
    BY <1>1, <2>1, <2>2 DEF StartStore, StoreWorker
<1>2. ASSUME CameraStore PROVE CameraFiled'
  <2>1. src[Provider] = BuiltIn /\ (SourceOf(hand[Provider]) = BuiltIn \/ hand[Provider] = None)
    BY <1>2 DEF CameraStore
  <2> QED
    BY <1>2, <2>1 DEF CameraStore, StoreWorker
<1>3. ASSUME NEW t \in Tasks, StopTake(t) PROVE CameraFiled'
  BY <1>3 DEF StopTake, TakeAndStop
<1>4. ASSUME FailTake PROVE CameraFiled'
  BY <1>4 DEF FailTake, TakeAndStop
<1>5. UNCHANGED slot => CameraFiled'
  OBVIOUS
<1> HIDE DEF TInv, TypeOK, SourceKnown, HandKnown, CameraFiled, Tasks, Goto
<1>6. ASSUME NEW c \in Clients, Abandon(c) PROVE UNCHANGED slot
  BY <1>6 DEF Abandon
<1>7. ASSUME NEW t \in Tasks, StartOpen(t) PROVE UNCHANGED slot
  BY <1>7 DEF StartOpen, OpenWorker
<1>8. ASSUME NEW w \in Workers, WorkerFails(w) PROVE UNCHANGED slot
  BY <1>8 DEF WorkerFails
<1>9. ASSUME CameraOpen \/ ProviderEnds \/ Attach \/ RecvFrame \/ RecvClosed
      PROVE  UNCHANGED slot
  BY <1>9 DEF CameraOpen, OpenWorker, ProviderEnds, Attach, RecvFrame, RecvClosed
<1>10. UNCHANGED <<slot, live, hand, rx>> => UNCHANGED slot
  OBVIOUS
<1> HIDE DEF entryVars, workerVars, taskVars, mainVars
<1> QED
  BY WorkerSteps, <1>1, <1>2, <1>3, <1>4, <1>5, <1>6, <1>7, <1>8, <1>9, <1>10

\* The end of a step that is not Attach leaves a waiting next_frame as it is.
LEMMA RecvSteps ==
  ASSUME TInv, [Next]_vars
  PROVE  \/ Attach
         \/ pc'[Provider] # "recv"
         \/ pc[Provider] = "recv" /\ src'[Provider] = src[Provider] /\ rx' = rx
<1> USE ConstantsAssumption
<1> DEFINE Kept == \/ pc'[Provider] # "recv"
                   \/ pc[Provider] = "recv" /\ src'[Provider] = src[Provider] /\ rx' = rx
<1> USE DEF TInv, TypeOK, Tasks, Goto, entryVars, workerVars, taskVars, mainVars
<1>1. ASSUME NEW c \in Clients, Abandon(c) \/ AddEntry(c) \/ RemoveEntry(c) PROVE Kept
  BY <1>1 DEF Abandon, AddEntry, RemoveEntry, Idle
<1>2. ASSUME NEW c \in Clients, NEW o \in Ops, NEW s \in Sources, Request(c, o, s) PROVE Kept
  BY <1>2 DEF Request
<1>3. ASSUME NEW t \in Tasks, StartMark(t) \/ StartProbe(t) \/ StartRejected(t) \/ StartRunning(t) \/ StartFailed(t)
      PROVE  Kept
  BY <1>3 DEF StartMark, StartProbe, StartRejected, StartRunning, StartFailed, ReturnFromStart,
              AttemptFailed, Idle, BackToPoll
<1>4. ASSUME NEW t \in Tasks, StartSwitch(t) \/ StartOpen(t) \/ StartOpenFails(t) \/ StartStore(t) \/ StartActivate(t)
      PROVE  Kept
  BY <1>4 DEF StartSwitch, StartOpen, StartOpenFails, StartStore, StartActivate
<1>5. ASSUME NEW t \in Tasks, StopMark(t) \/ StopDone(t) PROVE Kept
  BY <1>5 DEF StopMark, StopDone, ReturnFromStop, Idle
<1>6. ASSUME NEW t \in Tasks, StopTake(t) \/ StopCheck(t) \/ StopClear(t) PROVE Kept
  BY <1>6 DEF StopTake, StopCheck, StopClear
<1>7. ASSUME NEW w \in Workers, WorkerFails(w) PROVE Kept
  BY <1>7 DEF WorkerFails
<1>8. CASE Poll \/ RecvFrame \/ RecvClosed \/ FailMark \/ FailTake
  BY <1>8 DEF Poll, RecvFrame, RecvClosed, FailMark, FailTake, BackToPoll
<1>9. CASE ReconnectCheck \/ ReconnectMark \/ BackoffEnds \/ BackoffCutShort
  BY <1>9 DEF ReconnectCheck, ReconnectMark, BackoffEnds, BackoffCutShort, BackToPoll
<1>10. CASE CameraOpen \/ CameraOpenFails \/ CameraStore \/ CameraRunning
  BY <1>10 DEF CameraOpen, CameraOpenFails, CameraStore, CameraRunning, AttemptFailed, BackToPoll
<1>11. CASE ProviderEnds
  BY <1>11 DEF ProviderEnds
<1>12. CASE RequestShutdown \/ ServerCloses \/ ShutdownSources \/ ShutdownNext
  BY <1>12 DEF RequestShutdown, ServerCloses, ShutdownSources, ShutdownNext
<1>13. CASE UNCHANGED vars
  BY <1>13 DEF vars
<1> QED
  BY <1>1, <1>2, <1>3, <1>4, <1>5, <1>6, <1>7, <1>8, <1>9, <1>10, <1>11, <1>12, <1>13
     DEF Next, ClientStep, StartStep, StopStep, ProviderStep, FrameStep, MainStep, Finished

LEMMA ApartStep ==
  TInv /\ CameraFiled /\ CameraApart /\ [Next]_vars => CameraApart'
<1> SUFFICES ASSUME TInv, CameraFiled, CameraApart, [Next]_vars, pc'[Provider] = "recv"
             PROVE  rx' # None /\ (src'[Provider] = BuiltIn <=> SourceOf(rx') = BuiltIn)
  BY DEF CameraApart
<1>1. CASE pc[Provider] = "recv" /\ src'[Provider] = src[Provider] /\ rx' = rx
  BY <1>1 DEF CameraApart
<1>2. CASE Attach
  <2>1. rx' = WorkerOf(src[Provider]) /\ src' = src /\ rx' # None
    BY <1>2 DEF Attach, Goto, TInv, TypeOK, Tasks
  <2>2. CASE src[Provider] = BuiltIn
    <3>1. "built_in" \in Slots /\ slot["built_in"] = rx'
      BY <2>1, <2>2 DEF WorkerOf, Slots
    <3> QED
      BY <2>1, <2>2, <3>1 DEF CameraFiled
  <2>3. CASE src[Provider] # BuiltIn
    <3>1. VirtualWorker = rx'
      BY <2>1, <2>3 DEF WorkerOf
    <3>2. PICK k \in Slots \ {"built_in"} : slot[k] = rx'
      BY <2>1, <3>1, VirtualWorkerPlace
    <3> QED
      BY <2>1, <2>3, <3>2 DEF CameraFiled
  <2> QED
    BY <2>2, <2>3
<1> QED
  BY <1>1, <1>2, RecvSteps

\* Whatever the clients do at once, whoever leaves, with the reconnect loops and
\* shutdown: a frame of the built-in camera is never credited to another source,
\* nor theirs to it.  Between two virtual sources this needs OneRequestAtATime
\* (FramesCredited).  (worker and set_worker, sources.rs:2788-2851.)
THEOREM CameraKeptApart == Spec => []CameraApart
<1>1. Init => HandKnown /\ KindKnown /\ CameraFiled /\ CameraApart
  BY ConstantsAssumption DEF Init, HandKnown, KindKnown, CameraFiled, CameraApart, Tasks
<1> QED
  BY <1>1, InitTyped, StepTyped, HandStep, KindStep, CameraFiledStep, ApartStep, PTL DEF Spec

-----------------------------------------------------------------------------
(* One request at a time.                                                  *)

\* One request at a time: one client, which waits for its answer, a process
\* that is not told to stop, and no reconnecting.
OneRequestAtATime ==
  /\ \E c \in Clients : Clients = {c}
  /\ ~ClientsLeave /\ ~MayShutDown /\ ~ReconnectEnabled

\* Then serve() waits and next_frame never opens a worker.
OthersWait ==
  /\ ~shutdown
  /\ pc[Main] = "serve" /\ victim[Main] = None
  /\ pc[Provider] \in {"poll", "attach", "recv", "fail_mark", "fail_take"}
  /\ victim[Provider] = None

Emptied == \A k \in Slots : slot[k] = None

\* A worker in a slot is one of s, in the slot that stop() looks at for s.
Only(s) == \A k \in Slots : slot[k] # None => SourceOf(slot[k]) = s /\ k = SlotFor(s)

\* What each step of a request relies on.
Relied(c) ==
  /\ pc[c] \notin {"start_activate", "activate_queued"} =>
       active \in registered \cup {None} /\ Only(active)
  /\ pc[c] \in StartSteps \ {"start_mark"} => src[c] \in registered
  /\ pc[c] = "start_switch" /\ active = src[c] => Emptied
  /\ pc[c] \in {"start_open", "start_store", "start_failed"} =>
       Emptied /\ active \in {None, src[c]}
  /\ pc[c] \in {"start_activate", "activate_queued"} =>
       active \in {None, src[c]} /\ Only(src[c])
  /\ pc[c] = "stop_check" /\ active = Target(c) => Emptied
  /\ pc[c] \in {"stop_clear", "clear_queued"} => Emptied /\ active = Target(c)
  /\ pc[c] \in {"stop_done", "remove_entry"} => active # Target(c)

Alone == OthersWait /\ \A c \in Clients : Relied(c)

\* The steps there are then.
LEMMA AloneSteps ==
  ASSUME OneRequestAtATime, OthersWait, [Next]_vars
  PROVE  \/ \E c \in Clients, o \in Ops, s \in Sources : Request(c, o, s)
         \/ \E c \in Clients : ClientStep(c) \/ StartOpen(c)
         \/ \E w \in Workers : WorkerFails(w)
         \/ Poll \/ Attach \/ FailMark \/ FailTake \/ RecvFrame \/ RecvClosed
         \/ ServerCloses \/ UNCHANGED vars
<1> USE ConstantsAssumption DEF OneRequestAtATime, OthersWait, Resting
<1>1. ~RequestShutdown /\ ~ShutdownSources /\ ~ProviderEnds /\ \A c \in Clients : ~Abandon(c)
  BY DEF Abandon, RequestShutdown, ShutdownSources, ProviderEnds
<1>2. ASSUME NEW t \in {Provider, Main}, StartStep(t) \/ StartOpen(t) \/ StopStep(t)
      PROVE  FALSE
  BY <1>2 DEF StartStep, StartMark, StartProbe, StartSwitch, StartRejected, StartOpenFails,
              StartStore, StartActivate, StartRunning, StartFailed, StartOpen,
              StopStep, StopMark, StopTake, StopCheck, StopClear, StopDone
<1>3. ~MainStep /\ (Finished => UNCHANGED vars)
  BY <1>2 DEF MainStep, ShutdownNext, Finished
<1>4. ASSUME \/ ReconnectCheck \/ ReconnectMark \/ BackoffEnds \/ BackoffCutShort
             \/ CameraOpenFails \/ CameraStore \/ CameraRunning \/ CameraOpen
      PROVE  FALSE
  BY <1>4 DEF ReconnectCheck, ReconnectMark, BackoffEnds, BackoffCutShort, CameraOpenFails,
              CameraStore, CameraRunning, CameraOpen
<1> HIDE DEF OneRequestAtATime, OthersWait, Resting
<1>5. ProviderStep => Poll \/ Attach \/ FailMark \/ FailTake
  BY <1>2, <1>4 DEF ProviderStep
<1> QED
  BY <1>1, <1>2, <1>3, <1>4, <1>5 DEF Next, FrameStep

LEMMA WaitStep ==
  OneRequestAtATime /\ TInv /\ OthersWait /\ [Next]_vars => OthersWait'
<1> SUFFICES ASSUME OneRequestAtATime, TInv, OthersWait, [Next]_vars PROVE OthersWait'
  OBVIOUS
<1> USE ConstantsAssumption
<1> USE DEF TInv, TypeOK, OthersWait, Tasks, Goto, entryVars, workerVars, taskVars, mainVars
<1> DEFINE Others == <<shutdown, pc[Main], victim[Main], pc[Provider], victim[Provider]>>
<1>1. ASSUME NEW c \in Clients, NEW o \in Ops, NEW s \in Sources, Request(c, o, s)
      PROVE  OthersWait'
  BY <1>1 DEF Request
<1>2. ASSUME NEW c \in Clients, StartStep(c) \/ StartOpen(c) PROVE OthersWait'
  <2>1. UNCHANGED <<shutdown, victim[Main], victim[Provider]>>
    BY <1>2 DEF StartStep, StartMark, StartProbe, StartSwitch, StartRejected,
                StartOpenFails, StartStore, StartActivate, StartRunning, StartFailed, StartOpen
  <2>2. UNCHANGED <<pc[Main], pc[Provider]>>
    BY <1>2 DEF StartStep, StartMark, StartProbe, StartSwitch, StartRejected,
                StartOpenFails, StartStore, StartActivate, StartRunning, StartFailed, StartOpen,
                ReturnFromStart, Idle
  <2> QED
    BY <2>1, <2>2
<1>3. ASSUME NEW c \in Clients, StopStep(c) PROVE OthersWait'
  BY <1>3 DEF StopStep, StopMark, StopTake, StopCheck, StopClear, StopDone, ReturnFromStop, Idle
<1>4. ASSUME NEW c \in Clients, AddEntry(c) \/ RemoveEntry(c) PROVE OthersWait'
  BY <1>4 DEF AddEntry, RemoveEntry, Idle
<1>5. ASSUME NEW w \in Workers, WorkerFails(w) PROVE OthersWait'
  BY <1>5 DEF WorkerFails
<1>6. ASSUME Poll \/ Attach \/ FailMark \/ RecvFrame \/ RecvClosed PROVE OthersWait'
  BY <1>6 DEF Poll, Attach, FailMark, RecvFrame, RecvClosed, BackToPoll
<1>7. ASSUME FailTake PROVE OthersWait'
  BY <1>7 DEF FailTake, BackToPoll, OneRequestAtATime
<1>8. CASE ServerCloses \/ UNCHANGED vars
  BY <1>8 DEF ServerCloses, vars
<1> QED
  BY AloneSteps, <1>1, <1>2, <1>3, <1>4, <1>5, <1>6, <1>7, <1>8 DEF ClientStep

\* What a request relies on is not disturbed by the others.
LEMMA ReliedUntouched ==
  ASSUME NEW c \in Clients, TypeOK, Relied(c),
         UNCHANGED <<registered, kind, active>>,
         UNCHANGED <<pc[c], src[c], victim[c]>>,
         slot' \in [Slots -> Workers \cup {None}],
         \A k \in Slots : slot'[k] \in {slot[k], None}
  PROVE  Relied(c)'
<1>1. /\ Only(active) => Only(active)'
      /\ Only(src[c]) => Only(src[c])'
  BY DEF Only, SlotFor
<1>2. Emptied => Emptied'
  BY DEF Emptied
<1> QED
  BY <1>1, <1>2 DEF Relied, Target

LEMMA ReliedRequest ==
  ASSUME NEW c \in Clients, TInv, SwitchPinsActive, Relied(c),
         NEW o \in Ops, NEW s \in Sources, Request(c, o, s)
  PROVE  Relied(c)'
<1> USE ConstantsAssumption DEF TInv, TypeOK, Tasks, Goto, entryVars, workerVars
<1>1. /\ pc[c] = "idle" /\ pc'[c] \in {"start_mark", "stop_mark", "add_entry"}
      /\ UNCHANGED <<registered, kind, active, slot>>
  BY DEF Request, FirstStep, Operations
<1> QED
  BY <1>1 DEF Relied, Only, SlotFor, StartSteps

LEMMA ReliedEntry ==
  ASSUME NEW c \in Clients, TInv, SwitchPinsActive, Relied(c), AddEntry(c) \/ RemoveEntry(c)
  PROVE  Relied(c)'
<1> USE ConstantsAssumption DEF TInv, TypeOK, Tasks, Goto, Idle, entryVars, workerVars
<1>1. pc'[c] = "idle" /\ UNCHANGED <<active, slot>>
  BY DEF AddEntry, RemoveEntry
<1>2. active \in registered \cup {None} /\ Only(active)
  BY DEF Relied, AddEntry, RemoveEntry
<1>3. \A k \in Slots : slot[k] # None => active # None
  <2>1. None \notin Sources
    OBVIOUS
  <2> QED
    BY <1>2, <2>1 DEF Only, SourceOf, Workers
<1>4. CASE AddEntry(c)
  <2>1. registered \subseteq registered' /\ \A s \in registered : kind'[s] = kind[s]
    BY <1>4 DEF AddEntry
  <2>2. \A k \in Slots : slot[k] # None => SlotFor(active)' = SlotFor(active)
    BY <1>1, <1>2, <1>3, <2>1 DEF SlotFor
  <2>3. Only(active)'
    BY <1>1, <1>2, <2>2 DEF Only
  <2> QED
    BY <1>1, <1>2, <2>1, <2>3 DEF Relied, StartSteps
<1>5. CASE RemoveEntry(c)
  <2>1. victim[c] = None /\ src[c] # active /\ UNCHANGED kind
    BY <1>5 DEF RemoveEntry, SwitchPinsActive, StopSteps, Relied, Target
  <2>2. registered' = registered \ {src[c]}
    BY <1>5 DEF RemoveEntry
  <2>3. \A k \in Slots : slot[k] # None => SlotFor(active)' = SlotFor(active)
    BY <1>1, <1>2, <1>3, <2>1, <2>2 DEF SlotFor
  <2>4. Only(active)'
    BY <1>1, <1>2, <2>3 DEF Only
  <2> QED
    BY <1>1, <1>2, <2>1, <2>2, <2>4 DEF Relied, StartSteps
<1> QED
  BY <1>4, <1>5

\* Only the source that is active has a worker in a slot: a source without one
\* leaves every slot empty when it is active.
LEMMA WorkerlessEmpty ==
  ASSUME TInv, KindKnown, NEW s \in registered, active = s, Only(s), WorkerOf(s) = None
  PROVE  Emptied
<1> USE ConstantsAssumption DEF TInv, TypeOK
<1>1. CASE s = BuiltIn
  BY <1>1 DEF WorkerOf, Only, SlotFor, Emptied
<1>2. CASE s # BuiltIn
  <2>1. VirtualWorker = None /\ s \in Sources
    BY <1>2 DEF WorkerOf
  <2>2. SlotFor(s) = kind[s] /\ kind[s] \in Slots \ {"built_in"}
    BY <1>2, <2>1 DEF SlotFor, KindKnown
  <2>3. \E i \in DOMAIN VirtualOrder : VirtualOrder[i] = SlotFor(s)
    BY <2>2 DEF VirtualOrder, Slots
  <2> DEFINE full == {i \in 1 .. 4 : slot[VirtualOrder[i]] # None}
  <2>4. DOMAIN VirtualOrder = 1 .. 4
    BY DEF VirtualOrder
  <2>5. full = {}
    <3>1. SUFFICES ASSUME full # {} PROVE FALSE
      OBVIOUS
    <3>2. \E i \in full : \A j \in full : i <= j
      BY <3>1
    <3>3. (CHOOSE i \in full : \A j \in full : i <= j) \in full
      BY <3>2
    <3> QED
      BY SMTT(30), <2>1, <2>4, <3>1, <3>3 DEF VirtualWorker
  <2>6. slot[SlotFor(s)] = None
    BY <2>3, <2>4, <2>5
  <2> QED
    BY <2>6 DEF Only, Emptied
<1> QED
  BY <1>1, <1>2

LEMMA ReliedStart ==
  ASSUME NEW c \in Clients, OneRequestAtATime, TInv, HandKnown, KindKnown, SwitchPinsActive,
         OthersWait, Relied(c), StartStep(c) \/ StartOpen(c)
  PROVE  Relied(c)'
<1> USE ConstantsAssumption DEF TInv, TypeOK, Tasks, Goto, Idle, entryVars, workerVars,
    ReturnFromStart, StartSteps, StopSteps, Resting
<1>1. c # Provider /\ c # Main
  OBVIOUS
<1>2. victim[c] = None
  BY DEF SwitchPinsActive, StartStep, StartMark, StartProbe, StartSwitch, StartRejected,
         StartOpenFails, StartStore, StartActivate, StartRunning, StartFailed, StartOpen
<1>3. \A k \in Slots : slot[k] # None => SourceOf(slot[k]) \in Sources
  BY DEF SourceOf, Workers
<1>4. Emptied => \A s : Only(s)
  BY DEF Emptied, Only
<1>5. UNCHANGED <<registered, kind, slot, active>> /\ UNCHANGED src[c] =>
        /\ Only(active) => Only(active)'
        /\ Only(src[c]) => Only(src[c])'
        /\ Emptied => Emptied'
  BY DEF Only, SlotFor, Emptied
<1>6. CASE StartMark(c)
  <2>1. /\ UNCHANGED <<registered, kind, slot, active>>
        /\ pc'[c] = "idle" \/ (pc'[c] = "start_probe" /\ src'[c] = src[c] /\ src[c] \in registered)
    BY <1>1, <1>6 DEF StartMark
  <2>2. Only(active) => Only(active)'
    BY <2>1 DEF Only, SlotFor
  <2> QED
    BY <1>6, <2>1, <2>2 DEF Relied, StartMark
<1>7. CASE StartProbe(c)
  <2>1. UNCHANGED <<registered, kind, slot, active>>
    BY <1>7 DEF StartProbe
  <2>2. Only(active)' /\ active' \in registered' \cup {None} /\ src[c] \in registered
    BY <1>7, <2>1 DEF Relied, StartProbe, Only, SlotFor
  <2>3. CASE WorkerOf(src[c]) # None
    BY <1>1, <1>7, <2>2, <2>3 DEF Relied, StartProbe
  <2>4. CASE WorkerOf(src[c]) = None
    <3>1. active = src[c] => Emptied
      BY <1>7, <2>2, <2>4, WorkerlessEmpty DEF Relied, StartProbe
    <3>2. active' = src'[c] => Emptied'
      BY <1>7, <2>1, <2>4, <3>1 DEF StartProbe, Emptied
    <3> QED
      BY <1>1, <1>7, <2>1, <2>2, <2>4, <3>2 DEF Relied, StartProbe
  <2> QED
    BY <2>3, <2>4
<1>8. CASE StartSwitch(c)
  <2>1. UNCHANGED <<registered, kind, slot, active, src>>
    BY <1>8 DEF StartSwitch
  <2>2. /\ active \in registered \cup {None} /\ Only(active) /\ src[c] \in registered
        /\ active = src[c] => Emptied
    BY <1>8 DEF Relied, StartSwitch
  <2>3. Only(active)' /\ (Emptied => Emptied')
    BY <2>1, <2>2 DEF Only, SlotFor, Emptied
  <2>4. CASE active \in {None, src[c]}
    <3>1. Emptied
      BY <1>3, <2>2, <2>4 DEF Only, Emptied
    <3> QED
      BY <1>8, <2>1, <2>2, <2>3, <2>4, <3>1 DEF Relied, StartSwitch
  <2>5. CASE active \notin {None, src[c]}
    BY <1>8, <2>1, <2>2, <2>3, <2>5 DEF Relied, StartSwitch
  <2> QED
    BY <2>4, <2>5
<1>9. CASE StartOpen(c)
  <2>1. /\ UNCHANGED <<registered, kind, slot, active, src>>
        /\ pc[c] = "start_open" /\ pc'[c] = "start_store"
    BY <1>9 DEF StartOpen, OpenWorker
  <2> QED
    BY <1>5, <2>1 DEF Relied
<1>10. CASE StartRejected(c) \/ StartOpenFails(c) \/ StartFailed(c)
  <2>1. /\ UNCHANGED <<registered, kind, slot, active>>
        /\ pc[c] \in {"start_open", "start_failed"}
        /\ \/ pc'[c] = "idle"
           \/ pc'[c] = "start_failed" /\ UNCHANGED src
    BY <1>1, <1>10 DEF StartRejected, StartOpenFails, StartFailed
  <2>2. Emptied /\ active \in {None, src[c]} /\ src[c] \in registered /\ Only(active)
    BY <2>1 DEF Relied
  <2>3. Only(active)'
    BY <2>1, <2>2 DEF Only, SlotFor
  <2> QED
    BY <1>5, <2>1, <2>2, <2>3 DEF Relied
<1>11. CASE StartStore(c)
  <2>1. /\ UNCHANGED <<registered, kind, active, src>>
        /\ pc[c] = "start_store" /\ pc'[c] = "start_activate"
        /\ slot' = [slot EXCEPT ![SlotFor(src[c])] = hand[c]]
    BY <1>11 DEF StartStore, StoreWorker
  <2>2. hand[c] # None => SourceOf(hand[c]) = src[c]
    BY DEF HandKnown
  <2>3. Emptied /\ active \in {None, src[c]} /\ src[c] \in registered
    BY <2>1 DEF Relied
  <2>4. Only(src[c])'
    BY <2>1, <2>2, <2>3 DEF Emptied, Only, SlotFor
  <2> QED
    BY <2>1, <2>3, <2>4 DEF Relied
<1>12. CASE StartActivate(c)
  <2>1. /\ UNCHANGED <<registered, kind, slot, src>>
        /\ pc[c] \in {"start_activate", "activate_queued"}
        /\ \/ pc'[c] = "start_running" /\ active' = src[c]
           \/ pc'[c] = "activate_queued" /\ active' = active
    BY <1>12 DEF StartActivate
  <2>2. active \in {None, src[c]} /\ Only(src[c]) /\ src[c] \in registered
    BY <2>1 DEF Relied
  <2>3. Only(src[c])' /\ (active' = src[c] => Only(active)')
    BY <2>1, <2>2 DEF Only, SlotFor
  <2> QED
    BY <2>1, <2>2, <2>3 DEF Relied
<1>13. CASE StartRunning(c)
  <2>1. UNCHANGED <<registered, kind, slot, active>> /\ pc[c] = "start_running" /\ pc'[c] = "idle"
    BY <1>1, <1>13 DEF StartRunning
  <2>2. active \in registered \cup {None} /\ Only(active)
    BY <2>1 DEF Relied
  <2>3. Only(active)'
    BY <2>1, <2>2 DEF Only, SlotFor
  <2> QED
    BY <2>1, <2>2, <2>3 DEF Relied
<1> QED
  BY <1>6, <1>7, <1>8, <1>9, <1>10, <1>11, <1>12, <1>13 DEF StartStep

LEMMA ReliedStop ==
  ASSUME NEW c \in Clients, OneRequestAtATime, TInv, SwitchPinsActive, OthersWait,
         Relied(c), StopStep(c)
  PROVE  Relied(c)'
<1> USE ConstantsAssumption DEF TInv, TypeOK, Tasks, Goto, Idle, entryVars, workerVars,
    ReturnFromStop, StartSteps, StopSteps
<1>1. c # Provider /\ c # Main
  OBVIOUS
<1>2. UNCHANGED <<registered, kind>>
  BY DEF StopStep, StopMark, StopTake, StopCheck, StopClear, StopDone
<1>3. UNCHANGED <<slot, active>> =>
        /\ Only(active) => Only(active)'
        /\ Emptied => Emptied'
  BY <1>2 DEF Only, SlotFor, Emptied
<1>4. /\ active \in registered \cup {None} /\ Only(active)
      /\ victim[c] # None => active = victim[c] /\ Target(c) = active
  BY DEF Relied, SwitchPinsActive, StopStep, StopMark, StopTake, StopCheck, StopClear, StopDone,
         Target
<1>5. UNCHANGED <<src, victim>> => Target(c)' = Target(c)
  BY DEF Target
<1>6. CASE StopMark(c)
  <2>1. UNCHANGED <<slot, active>>
    BY <1>6 DEF StopMark
  <2>2. pc'[c] \in {"stop_take", "start_mark", "idle"}
    BY <1>1, <1>4, <1>6 DEF StopMark
  <2> QED
    BY <1>2, <1>3, <1>4, <2>1, <2>2 DEF Relied
<1>7. CASE StopTake(c)
  <2>1. /\ slot' = [slot EXCEPT ![SlotFor(Target(c))] = None]
        /\ UNCHANGED <<active, src, victim>> /\ pc'[c] = "stop_check"
    BY <1>7 DEF StopTake, TakeAndStop
  <2>2. Only(active)'
    BY <1>2, <1>4, <2>1 DEF Only, SlotFor
  <2>3. active = Target(c) => Emptied'
    BY <1>4, <2>1, SlotForType DEF Only, Emptied
  <2> QED
    BY <1>2, <1>4, <1>5, <2>1, <2>2, <2>3 DEF Relied
<1>8. CASE StopCheck(c)
  <2>1. /\ UNCHANGED <<slot, active, src, victim>> /\ pc[c] = "stop_check"
        /\ \/ pc'[c] = "stop_clear" /\ active = Target(c)
           \/ pc'[c] = "stop_done" /\ active # Target(c)
    BY <1>8 DEF StopCheck
  <2>2. active = Target(c) => Emptied
    BY <2>1 DEF Relied
  <2> QED
    BY <1>2, <1>3, <1>4, <1>5, <2>1, <2>2 DEF Relied
<1>9. CASE StopClear(c)
  <2>1. /\ UNCHANGED <<slot, src, victim>> /\ pc[c] \in {"stop_clear", "clear_queued"}
        /\ \/ pc'[c] = "stop_done" /\ active' = None /\ ActiveWritable
           \/ pc'[c] = "clear_queued" /\ active' = active
    BY <1>9 DEF StopClear
  <2>2. Emptied /\ active = Target(c) /\ Emptied'
    BY <2>1 DEF Relied, Emptied
  <2>3. Only(active)'
    BY <2>2 DEF Emptied, Only
  <2>4. CASE pc'[c] = "stop_done" /\ active' = None /\ ActiveWritable
    <3>1. victim[c] = None
      BY <2>4 DEF ActiveWritable
    <3>2. src[c] \in Sources
      BY <2>1 DEF SourceKnown, Resting
    <3>3. active' # Target(c)'
      BY <2>4, <2>1, <3>1, <3>2 DEF Target
    <3> QED
      BY <1>2, <2>4, <2>3, <3>3 DEF Relied
  <2>5. CASE pc'[c] = "clear_queued" /\ active' = active
    BY <1>2, <1>4, <1>5, <2>1, <2>2, <2>3, <2>5 DEF Relied
  <2> QED
    BY <2>1, <2>4, <2>5
<1>10. CASE StopDone(c)
  <2>1. /\ UNCHANGED <<slot, active>> /\ pc[c] = "stop_done" /\ victim[c] = None
    BY <1>10 DEF StopDone, SwitchPinsActive
  <2>2. active # src[c]
    BY <2>1 DEF Relied, Target
  <2>3. \/ pc'[c] \in {"idle", "start_mark"}
        \/ pc'[c] = "remove_entry" /\ src' = src /\ victim'[c] = None
    BY <1>1, <1>10, <2>1 DEF StopDone
  <2> QED
    BY <1>2, <1>3, <1>4, <2>1, <2>2, <2>3 DEF Relied, Target
<1> QED
  BY <1>6, <1>7, <1>8, <1>9, <1>10 DEF StopStep

LEMMA AloneStep ==
  OneRequestAtATime /\ TInv /\ HandKnown /\ KindKnown /\ SwitchPinsActive /\ Alone
    /\ [Next]_vars => Alone'
<1> SUFFICES ASSUME OneRequestAtATime, TInv, HandKnown, KindKnown, SwitchPinsActive, Alone,
                    [Next]_vars, NEW c \in Clients
             PROVE  OthersWait' /\ Relied(c)'
  BY DEF Alone, OneRequestAtATime
<1> USE ConstantsAssumption
<1>1. OthersWait /\ Relied(c) /\ TypeOK /\ TypeOK'
  BY StepTyped DEF Alone, TInv
<1>2. OthersWait'
  BY <1>1, WaitStep
<1>3. ASSUME NEW d \in Clients PROVE d = c
  BY DEF OneRequestAtATime
<1>4. ASSUME NEW d \in Clients, NEW o \in Ops, NEW s \in Sources, Request(d, o, s)
      PROVE  Relied(c)'
  BY <1>1, <1>3, <1>4, ReliedRequest
<1>5. ASSUME NEW d \in Clients, ClientStep(d) \/ StartOpen(d) PROVE Relied(c)'
  BY <1>1, <1>3, <1>5, ReliedStart, ReliedStop, ReliedEntry DEF ClientStep
<1>6. ASSUME \/ \E w \in Workers : WorkerFails(w)
             \/ Poll \/ Attach \/ FailMark \/ FailTake \/ RecvFrame \/ RecvClosed
             \/ ServerCloses \/ UNCHANGED vars
      PROVE  Relied(c)'
  <2> USE DEF entryVars, workerVars, taskVars, mainVars, vars
  <2>1. /\ UNCHANGED <<registered, kind, active>>
        /\ slot' = slot \/ slot' = [slot EXCEPT ![SlotFor(src[Provider])] = None]
        /\ victim' = victim
    BY <1>6 DEF WorkerFails, Poll, Attach, FailMark, FailTake, TakeAndStop, RecvFrame,
                RecvClosed, ServerCloses
  <2>2. c # Provider /\ pc \in [Tasks -> Steps] /\ src \in [Tasks -> Sources \cup {None}]
    BY <1>1 DEF TypeOK
  <2>3. pc'[c] = pc[c] /\ src'[c] = src[c]
    BY <1>6, <2>2 DEF WorkerFails, Poll, Attach, FailMark, FailTake, RecvFrame, RecvClosed,
                      ServerCloses, BackToPoll, Goto, Tasks
  <2>4. /\ slot' \in [Slots -> Workers \cup {None}]
        /\ \A k \in Slots : slot'[k] \in {slot[k], None}
    BY <1>1, <2>1 DEF TypeOK
  <2> HIDE DEF entryVars, workerVars, taskVars, mainVars, vars
  <2> QED
    BY <1>1, <2>1, <2>3, <2>4, ReliedUntouched
<1> QED
  BY <1>1, <1>2, <1>4, <1>5, <1>6, AloneSteps

LEMMA BelongStep ==
  OneRequestAtATime /\ TInv /\ FiledByKind /\ Alone /\ FramesBelong /\ [Next]_vars
    => FramesBelong'
<1> SUFFICES ASSUME OneRequestAtATime, TInv, FiledByKind, Alone, FramesBelong, [Next]_vars
             PROVE  FramesBelong'
  OBVIOUS
<1> USE ConstantsAssumption
<1> USE DEF TInv, TypeOK, FramesBelong, Tasks, Goto, entryVars, workerVars, taskVars, mainVars
<1>1. ASSUME NEW c \in Clients, NEW o \in Ops, NEW s \in Sources, Request(c, o, s)
      PROVE  FramesBelong'
  BY <1>1 DEF Request
<1>2. ASSUME NEW c \in Clients, StartStep(c) \/ StartOpen(c) PROVE FramesBelong'
  <2>1. UNCHANGED rx
    BY <1>2 DEF StartStep, StartMark, StartProbe, StartSwitch, StartRejected,
                StartOpenFails, StartStore, StartActivate, StartRunning, StartFailed, StartOpen
  <2>2. UNCHANGED <<pc[Provider], src[Provider]>>
    BY <1>2 DEF StartStep, StartMark, StartProbe, StartSwitch, StartRejected,
                StartOpenFails, StartStore, StartActivate, StartRunning, StartFailed, StartOpen,
                ReturnFromStart, Idle
  <2> QED
    BY <2>1, <2>2
<1>3. ASSUME NEW c \in Clients, StopStep(c) PROVE FramesBelong'
  BY <1>3 DEF StopStep, StopMark, StopTake, StopCheck, StopClear, StopDone, ReturnFromStop, Idle
<1>4. ASSUME NEW c \in Clients, AddEntry(c) \/ RemoveEntry(c) PROVE FramesBelong'
  BY <1>4 DEF AddEntry, RemoveEntry, Idle
<1>5. ASSUME NEW w \in Workers, WorkerFails(w) PROVE FramesBelong'
  BY <1>5 DEF WorkerFails
<1>6. ASSUME Poll \/ FailMark \/ FailTake \/ RecvFrame \/ RecvClosed PROVE FramesBelong'
  BY <1>6 DEF Poll, FailMark, FailTake, RecvFrame, RecvClosed, BackToPoll, OneRequestAtATime
<1>7. ASSUME Attach PROVE FramesBelong'
  <2>1. /\ rx' = WorkerOf(src[Provider]) /\ src' = src
        /\ pc'[Provider] = "recv" => rx' # None
    BY <1>7 DEF Attach
  <2>2. CASE src[Provider] = BuiltIn /\ rx' # None
    <3>1. "built_in" \in Slots /\ slot["built_in"] = rx'
      BY <2>1, <2>2 DEF WorkerOf, Slots
    <3>2. "built_in" \in KindsOf[SourceOf(rx')] /\ SourceOf(rx') \in Sources
      BY <2>2, <3>1 DEF FiledByKind, SourceOf, Workers
    <3> QED
      BY <2>1, <2>2, <3>2
  <2>3. CASE src[Provider] # BuiltIn /\ rx' # None
    <3>1. active = src[Provider] /\ VirtualWorker = rx' /\ active # None
      BY <1>7, <2>1, <2>3 DEF WorkerOf, Attach, SourceKnown, Resting
    <3>2. PICK k \in Slots : slot[k] = rx'
      BY <2>3, <3>1, VirtualWorkerPlace
    <3>3. Only(active)
      BY <3>1 DEF OneRequestAtATime, Alone, Relied
    <3> QED
      BY <2>1, <2>3, <3>1, <3>2, <3>3 DEF Only
  <2> QED
    BY <2>1, <2>2, <2>3
<1>8. CASE ServerCloses \/ UNCHANGED vars
  BY <1>8 DEF ServerCloses, vars
<1> QED
  BY AloneSteps, <1>1, <1>2, <1>3, <1>4, <1>5, <1>6, <1>7, <1>8 DEF ClientStep, Alone


AloneInv == TInv /\ HandKnown /\ KindKnown /\ FiledByKind /\ SwitchPinsActive /\ Alone

LEMMA AloneAlways == OneRequestAtATime => (Spec => [](AloneInv /\ FramesBelong))
<1> SUFFICES ASSUME OneRequestAtATime PROVE Spec => [](AloneInv /\ FramesBelong)
  OBVIOUS
<1>1. Init => AloneInv /\ FramesBelong
  <2> SUFFICES ASSUME Init PROVE AloneInv /\ FramesBelong
    OBVIOUS
  <2> USE ConstantsAssumption DEF Init, Tasks
  <2>1. HandKnown /\ KindKnown /\ FiledByKind /\ SwitchPinsActive /\ FramesBelong
    BY DEF HandKnown, KindKnown, FiledByKind, SwitchPinsActive, FramesBelong
  <2>2. OthersWait
    BY DEF OthersWait
  <2>3. \A c \in Clients : Relied(c)
    BY DEF Relied, Only, StartSteps
  <2> QED
    BY <2>1, <2>2, <2>3, InitTyped DEF AloneInv, Alone
<1>2. (AloneInv /\ FramesBelong) /\ [Next]_vars => (AloneInv /\ FramesBelong)'
  BY StepTyped, HandStep, KindStep, FiledStep, PinsStep, AloneStep, BelongStep DEF AloneInv
<1> QED
  BY <1>1, <1>2, PTL DEF Spec

\* With one request at a time, nobody leaving and no reconnecting, next_frame
\* credits every frame to the source whose worker made it.
THEOREM FramesCredited == OneRequestAtATime => (Spec => []FramesBelong)
BY AloneAlways, PTL

LEMMA AloneSettled == OneRequestAtATime /\ AloneInv => SettledBetweenRequests
<1> SUFFICES ASSUME OneRequestAtATime, AloneInv, \A c \in Clients : pc[c] = "idle"
             PROVE  /\ active \in registered \cup {None}
                    /\ \A k \in Slots : slot[k] # None => SourceOf(slot[k]) = active
  BY DEF SettledBetweenRequests
<1> QED
  BY DEF OneRequestAtATime, AloneInv, Alone, Relied, Only

\* Then every request leaves the active source registered, and every worker in
\* a slot one of the active source.
THEOREM RequestsSettle == OneRequestAtATime => (Spec => []SettledBetweenRequests)
<1> SUFFICES ASSUME OneRequestAtATime PROVE Spec => []SettledBetweenRequests
  OBVIOUS
<1>1. AloneInv => SettledBetweenRequests
  BY AloneSettled
<1> QED
  BY <1>1, AloneAlways, PTL

LEMMA AloneOne == OneRequestAtATime /\ AloneInv => OneActiveWorker
<1> SUFFICES ASSUME OneRequestAtATime, AloneInv PROVE OneActiveWorker
  OBVIOUS
<1> DEFINE captured == {k \in Slots : slot[k] \in live}
<1>1. \E s : Only(s)
  BY DEF OneRequestAtATime, AloneInv, Alone, Relied
<1>2. PICK s : Only(s)
  BY <1>1
<1>3. captured \subseteq {SlotFor(s)}
  BY <1>2, ConstantsAssumption DEF AloneInv, TInv, TypeOK, Only
<1>4. captured = {} \/ captured = {SlotFor(s)}
  BY <1>3
<1> HIDE DEF captured
<1>5. Cardinality(captured) \in {0, 1}
  BY <1>4, FS_EmptySet, FS_Singleton
<1>6. Cardinality(captured) <= 1
  BY <1>5
<1> QED
  BY <1>6 DEF captured, OneActiveWorker

\* Then one source at most is captured at any time, also in the middle of a
\* request.
THEOREM OneCaptured == OneRequestAtATime => (Spec => []OneActiveWorker)
<1> SUFFICES ASSUME OneRequestAtATime PROVE Spec => []OneActiveWorker
  OBVIOUS
<1>1. AloneInv => OneActiveWorker
  BY AloneOne
<1> QED
  BY <1>1, AloneAlways, PTL

=============================================================================
