--------------------------- MODULE SourceManager ---------------------------
(***************************************************************************)
(* The lifecycle of video sources: VideoSourceManager of src/sources.rs    *)
(* with the tasks that call it.                                            *)
(*                                                                         *)
(*   - every API request (start, stop, restart, remove, add) is a task of  *)
(*     Clients that runs the handler step by step;                         *)
(*   - Provider is the pipeline's call of next_frame, with both reconnect  *)
(*     loops;                                                              *)
(*   - Main is serve() from the shutdown signal on: it stops every source  *)
(*     (module Serve has the rest of serve()).                             *)
(*                                                                         *)
(* One step is the code between two points where a lock is released, so    *)
(* the tasks interleave at the awaits; the look-ups worker(), set_worker() *)
(* and take_worker(), which read a key and then a slot, are one step each. *)
(* A lock held over an await appears only in the switch of start(): the    *)
(* read guard on active_source lives to the end of the `if let`, across    *)
(* the nested stop().                                                      *)
(*                                                                         *)
(* Left out: frame contents, counters, timestamps and event texts; the     *)
(* one-second pause after a stage fails, which leaves the provider where   *)
(* a frame does.                                                           *)
(***************************************************************************)
EXTENDS Naturals, FiniteSets

CONSTANTS
  Sources,           \* the ids a source can be registered under
  BuiltIn,           \* the id "builtin", registered by new()
  KindsOf,           \* the kinds a source may be registered under, named by
                     \* the worker slots they select
  NoPath,            \* video-file sources registered without a path
  Clients,           \* API request handlers that can be in flight at once
  Provider,          \* the pipeline task, inside next_frame
  Main,              \* serve(), running shutdown_sources
  MaxWorkers,        \* bound: workers of one source referred to at a time
  None,              \* Option::None
  Ops,               \* the operations that clients call
  ClientsLeave,      \* whether a client may disconnect before the answer
  MayShutDown,       \* bound: whether the process may be told to stop
  ReconnectEnabled,  \* recovery.camera.enabled
  RetryForever       \* recovery.camera.retry_forever

\* The five worker slots; the virtual ones in the order worker() tests them.
VirtualOrder == <<"synthetic", "video_file", "rtsp", "mjpeg">>
Slots == {"built_in", "synthetic", "video_file", "rtsp", "mjpeg"}
Operations == {"start", "stop", "restart", "remove", "add"}
Tasks == Clients \cup {Provider, Main}

\* A worker is named by the source it was opened for and a number, which is
\* used again once nobody refers to the worker.
Workers == Sources \X (1 .. MaxWorkers)
SourceOf(w) == w[1]

ASSUME ConstantsAssumption ==
  /\ KindsOf[BuiltIn] = {"built_in"}
  /\ \A s \in Sources \ {BuiltIn} : KindsOf[s] \in (SUBSET (Slots \ {"built_in"})) \ {{}}
  /\ NoPath \subseteq Sources /\ \A s \in NoPath : KindsOf[s] = {"video_file"}
  /\ None \notin Sources \cup Workers
  /\ MaxWorkers \in Nat
  /\ Provider \notin Clients /\ Main \notin Clients /\ Provider # Main
  /\ Ops \subseteq Operations
  /\ {ClientsLeave, MayShutDown, ReconnectEnabled, RetryForever} \subseteq BOOLEAN

VARIABLES
  registered,  \* the keys of the sources map
  kind,        \* kind of each entry
  status,      \* SourceState of each entry
  desired,     \* desired_running of each entry
  slot,        \* the worker in each slot
  active,      \* active_source
  live,        \* workers whose thread runs and was not told to end
  rx,          \* the worker whose receiver next_frame waits on
  pc,          \* the next step of each task
  op,          \* the operation each task runs
  src,         \* the source that operation is about
  victim,      \* the source a start() is switching away from
  hand,        \* a worker opened and not yet in its slot
  shutdown,    \* the shutdown watch channel
  accepting,   \* the server still takes requests
  pending      \* the ids shutdown_sources has yet to stop

entryVars  == <<registered, kind, status, desired>>
workerVars == <<slot, live>>
taskVars   == <<pc, op, src, victim, hand, rx>>
mainVars   == <<shutdown, accepting, pending>>
vars == <<entryVars, workerVars, active, taskVars, mainVars>>

SourceStates == {"stopped", "starting", "running", "stopping", "failed",
                 "disconnected", "reconnecting"}
StartSteps == {"start_mark", "start_probe", "start_switch", "start_open",
               "start_store", "start_activate", "activate_queued",
               "start_running", "start_failed"}
StopSteps  == {"stop_mark", "stop_take", "stop_check", "stop_clear",
               "clear_queued", "stop_done"}
ProviderSteps == {"poll", "attach", "recv", "fail_mark", "fail_take",
                  "rec_check", "rec_mark", "backoff", "cam_open",
                  "cam_store", "cam_running", "ended"}
MainSteps == {"serve", "stop_next", "stopped"}
Steps == StartSteps \cup StopSteps \cup ProviderSteps \cup MainSteps
           \cup {"idle", "remove_entry", "add_entry"}

Init ==
  /\ registered = Sources
  /\ kind \in {k \in [Sources -> Slots] : \A s \in Sources : k[s] \in KindsOf[s]}
  /\ status = [s \in Sources |-> "stopped"]
  /\ desired = [s \in Sources |-> FALSE]
  /\ slot = [k \in Slots |-> None]
  /\ active = None
  /\ live = {}
  /\ rx = None
  /\ pc = [t \in Tasks |-> IF t = Provider THEN "poll"
                           ELSE IF t = Main THEN "serve" ELSE "idle"]
  /\ op = [t \in Tasks |-> "none"]
  /\ src = [t \in Tasks |-> None]
  /\ victim = [t \in Tasks |-> None]
  /\ hand = [t \in Tasks |-> None]
  /\ shutdown = FALSE
  /\ accepting = TRUE
  /\ pending = {}

-----------------------------------------------------------------------------
(* Locks and slots.                                                        *)

\* A task inside a switch holds the read guard of active_source.  A writer
\* waits until nobody holds it, and a queued writer holds back new readers
\* (tokio's RwLock is fair).
ActiveWritable == \A t \in Tasks : victim[t] = None
ActiveReadable == \A t \in Tasks : pc[t] \notin {"clear_queued", "activate_queued"}

\* Mutant: an absent entry falls back to the network slot.
SlotForFallsBackToRtsp(s) ==
  IF s = BuiltIn THEN "built_in" ELSE IF s \in registered THEN kind[s] ELSE "rtsp"

\* The slot set_worker and take_worker use: by id for the built-in camera, by
\* the entry's kind otherwise, and video_file when the entry is gone.
SlotFor(s) ==
  IF s = BuiltIn THEN "built_in" ELSE IF s \in registered THEN kind[s] ELSE "video_file"

\* worker(id): the first occupied virtual slot, whatever its kind, provided
\* the id is the active one.
VirtualWorker ==
  LET full == {i \in DOMAIN VirtualOrder : slot[VirtualOrder[i]] # None}
  IN  IF full = {} THEN None
      ELSE slot[VirtualOrder[CHOOSE i \in full : \A j \in full : i <= j]]

\* Mutant: the active id is not compared.
WorkerOfAnyone(s) ==
  IF s = BuiltIn THEN slot["built_in"] ELSE VirtualWorker

WorkerOf(s) ==
  IF s = BuiltIn THEN slot["built_in"]
  ELSE IF active = s THEN VirtualWorker ELSE None

\* worker(id) waits for active_source only when a virtual slot is occupied.
CanLookUp(s) == s = BuiltIn \/ VirtualWorker = None \/ ActiveReadable

\* A worker identity that nobody refers to.
Free(w) ==
  /\ \A k \in Slots : slot[k] # w
  /\ \A t \in Tasks : hand[t] # w
  /\ rx # w

Goto(t, step) == pc' = [pc EXCEPT ![t] = step]

\* take_worker(id) and worker.stop(): the slot is emptied and its worker told
\* to end.
TakeAndStop(s) ==
  /\ slot' = [slot EXCEPT ![SlotFor(s)] = None]
  /\ live' = live \ {slot[SlotFor(s)]}

\* Mutant: the worker already in the slot goes on.
StoreWorkerKeepsOld(t, k) ==
  /\ slot' = [slot EXCEPT ![k] = hand[t]]
  /\ hand' = [hand EXCEPT ![t] = None]
  /\ UNCHANGED live

\* set_worker: a worker already in the slot is dropped.  Its thread ends when
\* nobody can receive from it any more, so not while next_frame does.
StoreWorker(t, k) ==
  /\ slot' = [slot EXCEPT ![k] = hand[t]]
  /\ live' = live \ ({slot[k]} \ {rx})
  /\ hand' = [hand EXCEPT ![t] = None]

\* next_frame lets go of its receiver.
DropReceiver ==
  /\ rx' = None
  /\ live' = IF \E k \in Slots : slot[k] = rx THEN live ELSE live \ {rx}

\* CameraWorker::start and its variants succeed: the thread runs.
OpenWorker(t, s) ==
  \E n \in 1 .. MaxWorkers :
    /\ Free(<<s, n>>)
    /\ \A m \in 1 .. n - 1 : ~Free(<<s, m>>)
    /\ hand' = [hand EXCEPT ![t] = <<s, n>>]
    /\ live' = live \cup {<<s, n>>}
    /\ UNCHANGED slot

-----------------------------------------------------------------------------
(* Returning from start() and stop() to their caller.                      *)

Idle(t) ==
  /\ Goto(t, "idle")
  /\ op' = [op EXCEPT ![t] = "none"]
  /\ src' = [src EXCEPT ![t] = None]

BackToPoll ==
  /\ Goto(Provider, "poll")
  /\ op' = [op EXCEPT ![Provider] = "none"]
  /\ src' = [src EXCEPT ![Provider] = None]

\* One reconnect attempt failed.
AttemptFailed ==
  IF RetryForever
  THEN Goto(Provider, "rec_check") /\ UNCHANGED <<op, src>>
  ELSE BackToPoll

ReturnFromStart(t, ok) ==
  IF t # Provider THEN Idle(t) ELSE IF ok THEN BackToPoll ELSE AttemptFailed

\* The result of the nested stop() of a switch, and of restart()'s, is
\* ignored; remove() gives up on an error.  Leaving a switch releases the
\* guard.
ReturnFromStop(t, ok) ==
  /\ victim' = [victim EXCEPT ![t] = None]
  /\ IF victim[t] # None THEN Goto(t, "start_open") /\ UNCHANGED <<op, src>>
     ELSE IF op[t] = "restart" THEN Goto(t, "start_mark") /\ UNCHANGED <<op, src>>
     ELSE IF op[t] = "remove" /\ ok
          THEN Goto(t, "remove_entry") /\ UNCHANGED <<op, src>>
     ELSE IF t = Main
          THEN Goto(t, "stop_next") /\ src' = [src EXCEPT ![t] = None] /\ UNCHANGED op
     ELSE Idle(t)

-----------------------------------------------------------------------------
(* Requests.                                                               *)

FirstStep(o) ==
  CASE o \in {"start"} -> "start_mark"
    [] o \in {"stop", "restart", "remove"} -> "stop_mark"
    [] o = "add" -> "add_entry"

Request(c, o, s) ==
  /\ accepting
  /\ pc[c] = "idle"
  /\ Goto(c, FirstStep(o))
  /\ op' = [op EXCEPT ![c] = o]
  /\ src' = [src EXCEPT ![c] = s]
  /\ UNCHANGED <<entryVars, workerVars, active, victim, hand, rx, mainVars>>

\* The client disconnects: the server drops the handler at the await it has
\* reached, with the guard and the worker it holds.
Abandon(c) ==
  /\ ClientsLeave
  /\ pc[c] # "idle"
  /\ Idle(c)
  /\ victim' = [victim EXCEPT ![c] = None]
  /\ hand' = [hand EXCEPT ![c] = None]
  /\ live' = live \ {hand[c]}
  /\ UNCHANGED <<entryVars, slot, active, rx, mainVars>>

\* add(): one critical section on the sources map.
AddEntry(c) ==
  /\ pc[c] = "add_entry"
  /\ Idle(c)
  /\ IF src[c] \in registered THEN UNCHANGED entryVars
     ELSE /\ registered' = registered \cup {src[c]}
          /\ \E k \in KindsOf[src[c]] : kind' = [kind EXCEPT ![src[c]] = k]
          /\ status' = [status EXCEPT ![src[c]] = "stopped"]
          /\ desired' = [desired EXCEPT ![src[c]] = FALSE]
  /\ UNCHANGED <<workerVars, active, victim, hand, rx, mainVars>>

\* The end of remove(); an absent entry reads as a fresh one.
RemoveEntry(c) ==
  /\ pc[c] = "remove_entry"
  /\ Idle(c)
  /\ registered' = registered \ {src[c]}
  /\ status' = [status EXCEPT ![src[c]] = "stopped"]
  /\ desired' = [desired EXCEPT ![src[c]] = FALSE]
  /\ UNCHANGED <<kind, workerVars, active, victim, hand, rx, mainVars>>

-----------------------------------------------------------------------------
(* start(id)                                                               *)

StartMark(t) ==
  /\ pc[t] = "start_mark"
  /\ IF src[t] \in registered
     THEN /\ desired' = [desired EXCEPT ![src[t]] = TRUE]
          /\ status' = [status EXCEPT ![src[t]] = "starting"]
          /\ Goto(t, "start_probe")
          /\ UNCHANGED <<registered, kind, op, src>>
     ELSE ReturnFromStart(t, FALSE) /\ UNCHANGED entryVars
  /\ UNCHANGED <<workerVars, active, victim, hand, rx, mainVars>>

\* A source that already has a worker is answered with get(id).
StartProbe(t) ==
  /\ pc[t] = "start_probe"
  /\ CanLookUp(src[t])
  /\ IF WorkerOf(src[t]) # None
     THEN ReturnFromStart(t, src[t] \in registered)
     ELSE Goto(t, "start_switch") /\ UNCHANGED <<op, src>>
  /\ UNCHANGED <<entryVars, workerVars, active, victim, hand, rx, mainVars>>

\* Mutant: no switch, whatever is active.
StartSwitchNever(t) ==
  /\ pc[t] = "start_switch"
  /\ ActiveReadable
  /\ Goto(t, "start_open")
  /\ UNCHANGED <<entryVars, workerVars, active, op, src, victim, hand, rx, mainVars>>

\* Another source is active: stop it first, with the read guard still held.
StartSwitch(t) ==
  /\ pc[t] = "start_switch"
  /\ ActiveReadable
  /\ IF active \in {None, src[t]}
     THEN Goto(t, "start_open") /\ UNCHANGED victim
     ELSE /\ victim' = [victim EXCEPT ![t] = active]
          /\ Goto(t, "stop_mark")
  /\ UNCHANGED <<entryVars, workerVars, active, op, src, hand, rx, mainVars>>

StartOpen(t) ==
  /\ pc[t] = "start_open"
  /\ src[t] \notin NoPath
  /\ OpenWorker(t, src[t])
  /\ Goto(t, "start_store")
  /\ UNCHANGED <<entryVars, active, op, src, victim, rx, mainVars>>

\* The `?` on a missing path leaves start() before its error branch.
StartRejected(t) ==
  /\ pc[t] = "start_open"
  /\ src[t] \in NoPath
  /\ ReturnFromStart(t, FALSE)
  /\ UNCHANGED <<entryVars, workerVars, active, victim, hand, rx, mainVars>>

StartOpenFails(t) ==
  /\ pc[t] = "start_open"
  /\ src[t] \notin NoPath
  /\ Goto(t, "start_failed")
  /\ UNCHANGED <<entryVars, workerVars, active, op, src, victim, hand, rx, mainVars>>

StartStore(t) ==
  /\ pc[t] = "start_store"
  /\ StoreWorker(t, SlotFor(src[t]))
  /\ Goto(t, "start_activate")
  /\ UNCHANGED <<entryVars, active, op, src, victim, rx, mainVars>>

StartActivate(t) ==
  /\ pc[t] \in {"start_activate", "activate_queued"}
  /\ \/ /\ ActiveWritable
        /\ active' = src[t]
        /\ Goto(t, "start_running")
     \/ /\ ~ActiveWritable
        /\ pc[t] = "start_activate"
        /\ Goto(t, "activate_queued")
        /\ UNCHANGED active
  /\ UNCHANGED <<entryVars, workerVars, op, src, victim, hand, rx, mainVars>>

StartRunning(t) ==
  /\ pc[t] = "start_running"
  /\ IF src[t] \in registered
     THEN status' = [status EXCEPT ![src[t]] = "running"]
     ELSE UNCHANGED status
  /\ ReturnFromStart(t, src[t] \in registered)
  /\ UNCHANGED <<registered, kind, desired, workerVars, active, victim, hand, rx, mainVars>>

StartFailed(t) ==
  /\ pc[t] = "start_failed"
  /\ IF src[t] \in registered
     THEN status' = [status EXCEPT ![src[t]] = "failed"]
     ELSE UNCHANGED status
  /\ ReturnFromStart(t, FALSE)
  /\ UNCHANGED <<registered, kind, desired, workerVars, active, victim, hand, rx, mainVars>>

-----------------------------------------------------------------------------
(* stop(id), on its own or nested in a switch.                             *)

Target(t) == IF victim[t] # None THEN victim[t] ELSE src[t]

StopMark(t) ==
  /\ pc[t] = "stop_mark"
  /\ IF Target(t) \in registered
     THEN /\ status' = [status EXCEPT ![Target(t)] = "stopping"]
          /\ desired' = [desired EXCEPT ![Target(t)] = FALSE]
          /\ Goto(t, "stop_take")
          /\ UNCHANGED <<registered, kind, op, src, victim>>
     ELSE ReturnFromStop(t, FALSE) /\ UNCHANGED entryVars
  /\ UNCHANGED <<workerVars, active, hand, rx, mainVars>>

StopTake(t) ==
  /\ pc[t] = "stop_take"
  /\ TakeAndStop(Target(t))
  /\ Goto(t, "stop_check")
  /\ UNCHANGED <<entryVars, active, op, src, victim, hand, rx, mainVars>>

\* Mutant: stop() leaves active_source alone.
StopCheckKeepsActive(t) ==
  /\ pc[t] = "stop_check"
  /\ ActiveReadable
  /\ Goto(t, "stop_done")
  /\ UNCHANGED <<entryVars, workerVars, active, op, src, victim, hand, rx, mainVars>>

StopCheck(t) ==
  /\ pc[t] = "stop_check"
  /\ ActiveReadable
  /\ Goto(t, IF active = Target(t) THEN "stop_clear" ELSE "stop_done")
  /\ UNCHANGED <<entryVars, workerVars, active, op, src, victim, hand, rx, mainVars>>

\* Mutant: active_source is written without its lock.
StopClearUnlocked(t) ==
  /\ pc[t] = "stop_clear"
  /\ active' = None
  /\ Goto(t, "stop_done")
  /\ UNCHANGED <<entryVars, workerVars, op, src, victim, hand, rx, mainVars>>

StopClear(t) ==
  /\ pc[t] \in {"stop_clear", "clear_queued"}
  /\ \/ /\ ActiveWritable
        /\ active' = None
        /\ Goto(t, "stop_done")
     \/ /\ ~ActiveWritable
        /\ pc[t] = "stop_clear"
        /\ Goto(t, "clear_queued")
        /\ UNCHANGED active
  /\ UNCHANGED <<entryVars, workerVars, op, src, victim, hand, rx, mainVars>>

StopDone(t) ==
  /\ pc[t] = "stop_done"
  /\ IF Target(t) \in registered
     THEN status' = [status EXCEPT ![Target(t)] = "stopped"]
     ELSE UNCHANGED status
  /\ ReturnFromStop(t, Target(t) \in registered)
  /\ UNCHANGED <<registered, kind, desired, workerVars, active, hand, rx, mainVars>>

-----------------------------------------------------------------------------
(* next_frame: one frame per call, or the failure of the active source.    *)

Poll ==
  /\ pc[Provider] = "poll"
  /\ ActiveReadable
  /\ active # None
  /\ Goto(Provider, "attach")
  /\ src' = [src EXCEPT ![Provider] = active]
  /\ UNCHANGED <<entryVars, workerVars, active, op, victim, hand, rx, mainVars>>

Attach ==
  /\ pc[Provider] = "attach"
  /\ CanLookUp(src[Provider])
  /\ rx' = WorkerOf(src[Provider])
  /\ Goto(Provider, IF rx' = None THEN "fail_mark" ELSE "recv")
  /\ UNCHANGED <<entryVars, workerVars, active, op, src, victim, hand, mainVars>>

\* A frame arrives; one that was buffered may still come from a worker told
\* to end.  The receiver is looked up again for the next one.
RecvFrame ==
  /\ pc[Provider] = "recv"
  /\ DropReceiver
  /\ BackToPoll
  /\ UNCHANGED <<entryVars, slot, active, victim, hand, mainVars>>

\* The worker's thread is gone and so is its side of the channel.
RecvClosed ==
  /\ pc[Provider] = "recv"
  /\ rx \notin live
  /\ rx' = None
  /\ Goto(Provider, "fail_mark")
  /\ UNCHANGED <<entryVars, workerVars, active, op, src, victim, hand, mainVars>>

\* Capture or decoding fails: the thread ends while its worker keeps the slot.
WorkerFails(w) ==
  /\ live' = live \ {w}
  /\ w \in live
  /\ UNCHANGED <<entryVars, slot, active, taskVars, mainVars>>

\* Mutant: a source that is wanted is not reconnected.
FailMarkGivesUp ==
  /\ pc[Provider] = "fail_mark"
  /\ LET s == src[Provider] IN
       status' = IF s \in registered THEN [status EXCEPT ![s] = "disconnected"]
                 ELSE status
  /\ Goto(Provider, "fail_take")
  /\ UNCHANGED <<registered, kind, desired, workerVars, active, op, src, victim, hand, rx,
                 mainVars>>

\* desired_running is read here and used after the worker is taken.
FailMark ==
  /\ pc[Provider] = "fail_mark"
  /\ LET s == src[Provider] IN
       /\ status' = IF s \in registered THEN [status EXCEPT ![s] = "disconnected"]
                    ELSE status
       /\ op' = [op EXCEPT ![Provider] =
                   IF s \in registered /\ desired[s] THEN "reconnect" ELSE "none"]
  /\ Goto(Provider, "fail_take")
  /\ UNCHANGED <<registered, kind, desired, workerVars, active, src, victim, hand, rx, mainVars>>

FailTake ==
  /\ pc[Provider] = "fail_take"
  /\ TakeAndStop(src[Provider])
  /\ IF op[Provider] = "reconnect" /\ ReconnectEnabled
     THEN Goto(Provider, "rec_check") /\ UNCHANGED <<op, src>>
     ELSE BackToPoll
  /\ UNCHANGED <<entryVars, active, victim, hand, rx, mainVars>>

-----------------------------------------------------------------------------
(* The reconnect loops.                                                    *)

ReconnectCheck ==
  /\ pc[Provider] = "rec_check"
  /\ IF src[Provider] \in registered /\ desired[src[Provider]] /\ ~shutdown
     THEN Goto(Provider, "rec_mark") /\ UNCHANGED <<op, src>>
     ELSE BackToPoll
  /\ UNCHANGED <<entryVars, workerVars, active, victim, hand, rx, mainVars>>

ReconnectMark ==
  /\ pc[Provider] = "rec_mark"
  /\ IF src[Provider] \in registered
     THEN status' = [status EXCEPT ![src[Provider]] = "reconnecting"]
     ELSE UNCHANGED status
  /\ Goto(Provider, "backoff")
  /\ UNCHANGED <<registered, kind, desired, workerVars, active, op, src, victim, hand, rx,
                 mainVars>>

\* Mutant: every reconnect opens the built-in camera.
BackoffEndsAtCamera ==
  /\ pc[Provider] = "backoff"
  /\ Goto(Provider, "cam_open")
  /\ UNCHANGED <<entryVars, workerVars, active, op, src, victim, hand, rx, mainVars>>

\* The delay has passed: a virtual source goes through start(), the built-in
\* camera is opened directly.
BackoffEnds ==
  /\ pc[Provider] = "backoff"
  /\ Goto(Provider, IF src[Provider] = BuiltIn THEN "cam_open" ELSE "start_mark")
  /\ UNCHANGED <<entryVars, workerVars, active, op, src, victim, hand, rx, mainVars>>

BackoffCutShort ==
  /\ pc[Provider] = "backoff"
  /\ shutdown
  /\ BackToPoll
  /\ UNCHANGED <<entryVars, workerVars, active, victim, hand, rx, mainVars>>

CameraOpen ==
  /\ pc[Provider] = "cam_open"
  /\ OpenWorker(Provider, BuiltIn)
  /\ Goto(Provider, "cam_store")
  /\ UNCHANGED <<entryVars, active, op, src, victim, rx, mainVars>>

CameraOpenFails ==
  /\ pc[Provider] = "cam_open"
  /\ AttemptFailed
  /\ UNCHANGED <<entryVars, workerVars, active, victim, hand, rx, mainVars>>

CameraStore ==
  /\ pc[Provider] = "cam_store"
  /\ StoreWorker(Provider, "built_in")
  /\ Goto(Provider, "cam_running")
  /\ UNCHANGED <<entryVars, active, op, src, victim, rx, mainVars>>

CameraRunning ==
  /\ pc[Provider] = "cam_running"
  /\ IF BuiltIn \in registered
     THEN status' = [status EXCEPT ![BuiltIn] = "running"]
     ELSE UNCHANGED status
  /\ BackToPoll
  /\ UNCHANGED <<registered, kind, desired, workerVars, active, victim, hand, rx, mainVars>>

\* The pipeline's select! sees the signal and drops next_frame where it is.
ProviderEnds ==
  /\ shutdown
  /\ pc[Provider] # "ended"
  /\ Goto(Provider, "ended")
  /\ op' = [op EXCEPT ![Provider] = "none"]
  /\ src' = [src EXCEPT ![Provider] = None]
  /\ victim' = [victim EXCEPT ![Provider] = None]
  /\ hand' = [hand EXCEPT ![Provider] = None]
  /\ rx' = None
  /\ live' = live \ ({hand[Provider]} \cup {w \in {rx} : \A k \in Slots : slot[k] # w})
  /\ UNCHANGED <<entryVars, slot, active, mainVars>>

-----------------------------------------------------------------------------
(* serve(): shutdown.                                                      *)

\* Ctrl-C, or the shutdown handler of the API.
RequestShutdown ==
  /\ MayShutDown
  /\ ~shutdown
  /\ shutdown' = TRUE
  /\ UNCHANGED <<entryVars, workerVars, active, taskVars, accepting, pending>>

\* The server stops taking requests; those in flight are finished.
ServerCloses ==
  /\ shutdown /\ accepting
  /\ accepting' = FALSE
  /\ UNCHANGED <<entryVars, workerVars, active, taskVars, shutdown, pending>>

\* shutdown_sources reads the ids once and stops them one after the other.
ShutdownSources ==
  /\ pc[Main] = "serve"
  /\ shutdown
  /\ pending' = registered
  /\ Goto(Main, "stop_next")
  /\ UNCHANGED <<entryVars, workerVars, active, op, src, victim, hand, rx, shutdown,
                 accepting>>

\* Mutant: the ids are read again after each stop.
ShutdownNextRereads ==
  /\ pc[Main] = "stop_next"
  /\ \/ \E s \in pending :
          /\ pending' = registered
          /\ src' = [src EXCEPT ![Main] = s]
          /\ Goto(Main, "stop_mark")
     \/ /\ pending = {}
        /\ Goto(Main, "stopped")
        /\ UNCHANGED <<src, pending>>
  /\ UNCHANGED <<entryVars, workerVars, active, op, victim, hand, rx, shutdown, accepting>>

ShutdownNext ==
  /\ pc[Main] = "stop_next"
  /\ \/ \E s \in pending :
          /\ pending' = pending \ {s}
          /\ src' = [src EXCEPT ![Main] = s]
          /\ Goto(Main, "stop_mark")
     \/ /\ pending = {}
        /\ Goto(Main, "stopped")
        /\ UNCHANGED <<src, pending>>
  /\ UNCHANGED <<entryVars, workerVars, active, op, victim, hand, rx, shutdown, accepting>>

\* Nothing is left to run.
Finished ==
  /\ pc[Main] = "stopped" /\ pc[Provider] = "ended"
  /\ ~accepting /\ \A c \in Clients : pc[c] = "idle"
  /\ UNCHANGED vars

-----------------------------------------------------------------------------

StartStep(t) ==
  \/ StartMark(t) \/ StartProbe(t) \/ StartSwitch(t) \/ StartRejected(t)
  \/ StartOpenFails(t) \/ StartStore(t) \/ StartActivate(t)
  \/ StartRunning(t) \/ StartFailed(t)

StopStep(t) ==
  \/ StopMark(t) \/ StopTake(t) \/ StopCheck(t) \/ StopClear(t) \/ StopDone(t)

\* Every step of a client but the opening of a worker.
ClientStep(c) ==
  StartStep(c) \/ StopStep(c) \/ AddEntry(c) \/ RemoveEntry(c)

FrameStep == RecvFrame \/ RecvClosed

ProviderStep ==
  \/ Poll \/ Attach \/ FailMark \/ FailTake
  \/ ReconnectCheck \/ ReconnectMark \/ BackoffEnds \/ BackoffCutShort
  \/ CameraOpenFails \/ CameraStore \/ CameraRunning
  \/ StartStep(Provider) \/ StopStep(Provider)

MainStep == ShutdownNext \/ StopStep(Main)

Next ==
  \/ \E c \in Clients, o \in Ops, s \in Sources : Request(c, o, s)
  \/ \E c \in Clients : ClientStep(c) \/ StartOpen(c) \/ Abandon(c)
  \/ \E w \in Workers : WorkerFails(w)
  \/ ProviderStep \/ FrameStep \/ StartOpen(Provider) \/ CameraOpen \/ ProviderEnds
  \/ RequestShutdown \/ ServerCloses \/ ShutdownSources \/ MainStep \/ Finished

Spec == Init /\ [][Next]_vars

\* The runtime keeps polling every task and every wait ends; a closed channel
\* holds two frames at most, so its end is seen.  Nothing makes a client call,
\* a worker fail or the process be told to stop; when serve() comes to stop the
\* sources and when the pipeline hears the signal is left to module Serve.
Fairness ==
  /\ \A c \in Clients : WF_vars(ClientStep(c) \/ StartOpen(c))
  /\ WF_vars(ProviderStep \/ StartOpen(Provider) \/ CameraOpen)
  /\ WF_vars(FrameStep)
  /\ SF_vars(RecvClosed)
  /\ WF_vars(MainStep)

\* In addition, a device that is tried again and again answers at last.
DeviceAnswers ==
  /\ \A c \in Clients : SF_vars(StartOpen(c))
  /\ SF_vars(StartOpen(Provider))
  /\ SF_vars(CameraOpen)

FairSpec == Spec /\ Fairness /\ DeviceAnswers

-----------------------------------------------------------------------------
(* Properties that hold.                                                   *)

\* Every variable has its type.
TypeOK ==
  /\ registered \subseteq Sources
  /\ kind \in [Sources -> Slots]
  /\ status \in [Sources -> SourceStates]
  /\ desired \in [Sources -> BOOLEAN]
  /\ slot \in [Slots -> Workers \cup {None}]
  /\ active \in Sources \cup {None}
  /\ live \subseteq Workers
  /\ rx \in Workers \cup {None}
  /\ pc \in [Tasks -> Steps]
  /\ op \in [Tasks -> Operations \cup {"none", "reconnect"}]
  /\ src \in [Tasks -> Sources \cup {None}]
  /\ victim \in [Tasks -> Sources \cup {None}]
  /\ hand \in [Tasks -> Workers \cup {None}]
  /\ shutdown \in BOOLEAN /\ accepting \in BOOLEAN
  /\ pending \subseteq Sources

\* While a start() switches away from another source, active_source stays on
\* that source whatever the other tasks do, so the nested stop() always finds
\* it active and goes for the write lock its own caller keeps it from: it
\* never gets past that lock.  (start, lines 2627-2631, and stop, 2706-2708.)
SwitchPinsActive ==
  \A t \in Tasks : victim[t] # None =>
    /\ active = victim[t]
    /\ pc[t] \in StopSteps \ {"stop_done"}

\* No capture thread is left running out of reach: one that was not told to
\* end sits in a slot, is in the hands of the task that opened it, or waits
\* for next_frame to take its last frame - whatever is overwritten, removed,
\* registered again or abandoned on the way.
NoStrayWorker ==
  \A w \in live : \/ \E k \in Slots : slot[k] = w
                  \/ \E t \in Tasks : hand[t] = w
                  \/ rx = w

\* A worker sits in the slot of a kind its source was registered under, or in
\* the video-file slot when its entry was removed while it was being opened:
\* the slot that stop() looks at for a source never holds a worker that could
\* not have been filed under that kind.
FiledByKind ==
  \A k \in Slots \ {"video_file"} : slot[k] # None => k \in KindsOf[SourceOf(slot[k])]

\* next_frame credits a frame to the source whose worker made it.
FramesBelong == pc[Provider] = "recv" => SourceOf(rx) = src[Provider]

\* One source at most is being captured.
OneActiveWorker == Cardinality({k \in Slots : slot[k] \in live}) <= 1

\* Between two requests the active source is registered, and any worker in a
\* slot is its own.
SettledBetweenRequests ==
  (\A c \in Clients : pc[c] = "idle") =>
    /\ active \in registered \cup {None}
    /\ \A k \in Slots : slot[k] # None => SourceOf(slot[k]) = active

\* A source that stays wanted and active is never given up: the pipeline is
\* again and again waiting on a worker of it, however often capture fails.
Wanted(s) ==
  /\ desired[s] /\ active = s /\ ~shutdown
  /\ \A c \in Clients : pc[c] = "idle"
FrameFlow ==
  \A s \in Sources :
    <>[]Wanted(s) => []<>(pc[Provider] = "recv" /\ src[Provider] = s)

\* shutdown_sources comes to its end while requests are still in flight and
\* the reconnect loop may be starting a source, unless it meets a switch that
\* holds active_source.
ShutdownReturns ==
  pc[Main] = "stop_next" ~> pc[Main] = "stopped" \/ \E t \in Tasks : victim[t] # None

-----------------------------------------------------------------------------
(* A statement of the documentation that the code does not keep.           *)

\* "switching sources stops the previous active worker"
\* (docs/rtsp-testing.md): a switch that began comes to an end.
SwitchCompletes ==
  \A c \in Clients : victim[c] # None ~> victim[c] = None
=============================================================================
