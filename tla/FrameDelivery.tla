--------------------------- MODULE FrameDelivery ---------------------------
(***************************************************************************)
(* The way of a frame from a capture thread to those who look at it:       *)
(* CameraWorker of src/sources.rs, the pipeline and its stages, the frame  *)
(* buffer, the JPEG preview, the MJPEG streams and the vision scheduler.   *)
(*                                                                         *)
(*   - one capture thread after the other (SourceManager has how they are  *)
(*     replaced) sends frames over a channel of its own, and counts them   *)
(*     from 1;                                                             *)
(*   - the pipeline task receives a frame, pushes it into the buffer and   *)
(*     encodes the preview; a stage that fails ends the pipeline, and the  *)
(*     task restarts it after a pause;                                     *)
(*   - a Viewer polls the buffer for a frame of another number than the    *)
(*     one it sent last; the vision task selects some frames and waits for *)
(*     the answer of its provider.                                         *)
(*                                                                         *)
(* One step is the code under one lock, or between two awaits.  A frame is *)
(* [worker, seq, at]: who took it, its number, and when.  Left out: pixels,*)
(* metrics, the stored preview, the result and the component state of the  *)
(* vision task, the recording, vision and events stages, which do nothing, *)
(* and a pipeline without the buffer stage.                                *)
(***************************************************************************)
EXTENDS Naturals, Sequences, FiniteSets

CONSTANTS
  Viewers,
  Channel,      \* the capacity of a worker's channel
  Capacity,     \* buffer.capacity
  Count,        \* vision.frames
  Spacing,      \* vision.spacing
  MaxFrames,    \* bound: frames taken in all
  MaxWorkers,   \* bound: capture threads in all
  MaxFailures,  \* bound: frames that cannot be encoded
  None, Closed

ASSUME DeliveryAssumption ==
  /\ {Channel, Capacity, Count, Spacing} \subseteq Nat \ {0}
  /\ {MaxFrames, MaxWorkers, MaxFailures} \subseteq Nat
  /\ None # Closed
  /\ {None, Closed} \cap [worker : Nat, seq : Nat, at : Nat] = {}

VARIABLES
  worker,     \* the worker in the slot; 0 before the first
  threads,    \* [taken, reading, hand, chan, stopped, ended] of every worker so far
  clock,      \* the time of the last capture
  taken,      \* frames taken so far
  failures,   \* encodings that may still fail
  pipe,       \* where the pipeline task is
  receiver,   \* the worker whose receiver it holds
  frame,      \* the frame it is processing
  buffer,     \* FrameBuffer
  recovering, \* the component "pipeline" is shown as recovering
  viewer,     \* Closed, or the frame each stream sent last
  vision,     \* where the vision task is
  latest,     \* the frame its selection begins with
  picked,     \* the frames it sent to the provider
  shutdown    \* the shutdown watch channel

captureVars == <<worker, threads, clock, taken>>
pipeVars == <<pipe, receiver, frame, buffer>>
visionVars == <<vision, latest, picked>>
vars == <<captureVars, failures, pipeVars, recovering, viewer, visionVars, shutdown>>

NoThread ==
  [taken |-> 0, reading |-> FALSE, hand |-> None, chan |-> <<>>, stopped |-> FALSE, ended |-> FALSE]
Latest == IF buffer = <<>> THEN None ELSE buffer[Len(buffer)]

Init ==
  /\ worker = 0 /\ threads = <<>>
  /\ clock = Count * Spacing /\ taken = 0
  /\ failures = MaxFailures
  /\ pipe = "poll" /\ receiver = 0 /\ frame = None
  /\ buffer = <<>>
  /\ recovering = FALSE
  /\ viewer = [v \in Viewers |-> Closed]
  /\ vision = "tick" /\ latest = None /\ picked = <<>>
  /\ shutdown = FALSE

-----------------------------------------------------------------------------
(* Capture threads.                                                        *)

deliveryUnchanged == <<pipeVars, recovering, viewer, visionVars, shutdown>>

\* A start, a switch or a reconnect stops the worker in the slot and stores
\* another one.
Replace ==
  /\ worker < MaxWorkers
  /\ worker' = worker + 1
  /\ threads' = Append([w \in DOMAIN threads |-> [threads[w] EXCEPT !.stopped = TRUE]], NoThread)
  /\ UNCHANGED <<clock, taken, failures, deliveryUnchanged>>

\* The stop flag is looked at before each capture, which takes its time and may
\* fail.
Capture(w) ==
  LET t == threads[w] IN
  /\ t.hand = None /\ ~t.ended
  /\ \/ /\ ~t.reading
        /\ threads' = IF t.stopped THEN [threads EXCEPT ![w].ended = TRUE]
                                   ELSE [threads EXCEPT ![w].reading = TRUE]
        /\ UNCHANGED <<clock, taken>>
     \/ /\ t.reading /\ taken < MaxFrames
        /\ taken' = taken + 1
        /\ clock' \in {clock, clock + 1}
        /\ threads' = [threads EXCEPT
             ![w].hand = [worker |-> w, seq |-> t.taken + 1, at |-> clock'],
             ![w].taken = @ + 1, ![w].reading = FALSE]
     \/ /\ t.reading
        /\ threads' = [threads EXCEPT ![w].ended = TRUE]
        /\ UNCHANGED <<clock, taken>>
  /\ UNCHANGED <<worker, failures, deliveryUnchanged>>

\* The receiver lives in the slot and in the pipeline's hand.
HasReceiver(w) == w \in {worker, receiver}

\* Mutant: a frame that finds the channel full is dropped.
SendOrDrop(w) ==
  LET t == threads[w] IN
  /\ t.hand # None
  /\ IF HasReceiver(w)
     THEN threads' = [threads EXCEPT
            ![w].chan = IF Len(@) < Channel THEN Append(@, t.hand) ELSE @, ![w].hand = None]
     ELSE threads' = [threads EXCEPT ![w].ended = TRUE, ![w].hand = None]
  /\ UNCHANGED <<worker, clock, taken, failures, deliveryUnchanged>>

\* blocking_send(): it waits while the channel is full, and fails once there
\* is no receiver.
Send(w) ==
  LET t == threads[w] IN
  /\ t.hand # None
  /\ IF HasReceiver(w)
     THEN /\ Len(t.chan) < Channel
          /\ threads' = [threads EXCEPT ![w].chan = Append(@, t.hand), ![w].hand = None]
     ELSE threads' = [threads EXCEPT ![w].ended = TRUE, ![w].hand = None]
  /\ UNCHANGED <<worker, clock, taken, failures, deliveryUnchanged>>

-----------------------------------------------------------------------------
(* The pipeline task.                                                      *)

pipeUnchanged == <<worker, clock, taken, viewer, visionVars, shutdown>>

\* Mutant: the receiver of a worker that was replaced is taken again.
AttachAny ==
  /\ pipe = "poll" /\ worker # 0 /\ ~shutdown
  /\ receiver' \in 1..worker
  /\ pipe' = "recv"
  /\ UNCHANGED <<threads, failures, frame, buffer, recovering, pipeUnchanged>>

\* next_frame() takes the receiver in the slot.
Attach ==
  /\ pipe = "poll" /\ worker # 0 /\ ~shutdown
  /\ receiver' = worker
  /\ pipe' = "recv"
  /\ UNCHANGED <<threads, failures, frame, buffer, recovering, pipeUnchanged>>

\* recv(): a frame, or the end of the worker, after which the slot is looked at
\* again.
Receive ==
  LET t == threads[receiver] IN
  /\ pipe = "recv"
  /\ \/ /\ t.chan # <<>>
        /\ frame' = Head(t.chan)
        /\ threads' = [threads EXCEPT ![receiver].chan = Tail(@)]
        /\ pipe' = "stages"
     \/ /\ t.chan = <<>> /\ t.ended
        /\ pipe' = "poll"
        /\ UNCHANGED <<frame, threads>>
  /\ receiver' = 0
  /\ UNCHANGED <<failures, buffer, recovering, pipeUnchanged>>

\* Mutant: nothing is evicted.
PushAll(f) ==
  buffer' = Append(buffer, f)

\* FrameBuffer::push()
Push(f) ==
  buffer' = Append(IF Len(buffer) = Capacity THEN Tail(buffer) ELSE buffer, f)

\* The stages.  The frame is pushed and, as nobody else pushes, is the one that
\* is encoded, which may fail.  (A spawned task stores the result.)
Process ==
  /\ pipe = "stages"
  /\ Push(frame)
  /\ \/ pipe' = "poll" /\ UNCHANGED failures
     \/ failures > 0 /\ failures' = failures - 1 /\ pipe' = "failed"
  /\ frame' = None
  /\ UNCHANGED <<threads, receiver, recovering, pipeUnchanged>>

\* Mutant: the restart does not report the recovery.
RecoveryQuiet ==
  /\ \/ pipe = "failed" /\ pipe' = "pause" /\ recovering' = TRUE
     \/ pipe = "pause" /\ pipe' = "poll" /\ UNCHANGED recovering
  /\ UNCHANGED <<threads, failures, receiver, frame, buffer, pipeUnchanged>>

\* recovery.begin(), a pause of a second, recovery.recovered().
Recovery ==
  /\ \/ pipe = "failed" /\ pipe' = "pause" /\ recovering' = TRUE
     \/ pipe = "pause" /\ pipe' = "poll" /\ recovering' = FALSE
  /\ UNCHANGED <<threads, failures, receiver, frame, buffer, pipeUnchanged>>

\* The signal is seen while the task waits.
PipelineEnds ==
  /\ pipe \in {"poll", "recv", "pause"} /\ shutdown
  /\ pipe' = "ended" /\ receiver' = 0
  /\ UNCHANGED <<threads, failures, frame, buffer, recovering, pipeUnchanged>>

-----------------------------------------------------------------------------
(* MJPEG streams.                                                          *)

viewerUnchanged == <<captureVars, pipeVars, recovering, visionVars, shutdown>>

Sends(v, f) == viewer' = [viewer EXCEPT ![v] = f]

Connect(v) ==
  /\ IF viewer[v] = Closed THEN Sends(v, None) ELSE Sends(v, Closed)
  /\ UNCHANGED <<failures, viewerUnchanged>>

\* Mutant: only a greater number is a new frame.
ShowGreater(v) ==
  /\ viewer[v] # Closed /\ Latest # None
  /\ viewer[v] # None => Latest.seq > viewer[v].seq
  /\ \/ Sends(v, Latest) /\ UNCHANGED failures
     \/ failures > 0 /\ failures' = failures - 1 /\ UNCHANGED viewer
  /\ UNCHANGED viewerUnchanged

\* One turn of the stream's loop: a frame that has the number of the one sent
\* last is not looked at; one that cannot be encoded is tried again.
Show(v) ==
  /\ viewer[v] # Closed /\ Latest # None
  /\ viewer[v] # None => Latest.seq # viewer[v].seq
  /\ \/ Sends(v, Latest) /\ UNCHANGED failures
     \/ failures > 0 /\ failures' = failures - 1 /\ UNCHANGED viewer
  /\ UNCHANGED viewerUnchanged

-----------------------------------------------------------------------------
(* The vision task.                                                        *)

visionUnchanged == <<captureVars, failures, pipeVars, recovering, viewer, shutdown>>

\* FrameSelector::select() reads the latest frame, then, under another lock,
\* all that are retained.
SelectLatest ==
  /\ vision = "tick" /\ Latest # None /\ ~shutdown
  /\ latest' = Latest
  /\ vision' = "recent"
  /\ UNCHANGED <<picked, visionUnchanged>>

\* The newest retained frame that is no younger than `target`, if any.
NewestBefore(target) ==
  LET older == {i \in DOMAIN buffer : buffer[i].at <= target} IN
  {buffer[i] : i \in {j \in older : \A k \in older : k <= j}}
Chosen ==
  {latest} \cup UNION {NewestBefore(latest.at - i * Spacing) : i \in 1..(Count - 1)}

\* sort_by_key(): as many chosen frames are older as come before it.  (No two
\* are of one time.)
ByAge(frames) ==
  [i \in 1..Cardinality(frames) |->
     CHOOSE f \in frames : Cardinality({g \in frames : g.at < f.at}) = i - 1]

\* Mutant: equal numbers are kept.
DedupNothing(frames) == frames

\* dedup_by_key(): of neighbours with one number, the oldest is kept.
Firsts(frames) == {i \in DOMAIN frames : i > 1 => frames[i - 1].seq # frames[i].seq}
Dedup(frames) == ByAge({frames[i] : i \in Firsts(frames)})

SelectRecent ==
  /\ vision = "recent"
  /\ picked' = Dedup(ByAge(Chosen))
  /\ vision' = "analyse"
  /\ UNCHANGED <<latest, visionUnchanged>>

\* The provider answers, or fails.
Analysed ==
  /\ vision = "analyse"
  /\ vision' = "tick" /\ latest' = None /\ picked' = <<>>
  /\ UNCHANGED visionUnchanged

VisionEnds ==
  /\ vision = "tick" /\ shutdown
  /\ vision' = "ended"
  /\ UNCHANGED <<latest, picked, visionUnchanged>>

-----------------------------------------------------------------------------

ShutDown ==
  /\ ~shutdown
  /\ shutdown' = TRUE
  /\ UNCHANGED <<captureVars, failures, pipeVars, recovering, viewer, visionVars>>

Thread(w) == Capture(w) \/ Send(w)
Pipeline == Attach \/ Receive \/ Process \/ Recovery \/ PipelineEnds
Vision == SelectLatest \/ SelectRecent \/ Analysed \/ VisionEnds

Next ==
  \/ Replace \/ ShutDown
  \/ \E w \in DOMAIN threads : Thread(w)
  \/ Pipeline \/ Vision
  \/ \E v \in Viewers : Connect(v) \/ Show(v)

Spec == Init /\ [][Next]_vars

\* The tasks run on and a sender that can send does.  Whether a camera delivers,
\* a worker is replaced, a viewer stays or the provider answers is left open.
FairSpec ==
  /\ Spec
  /\ WF_vars(Pipeline)
  /\ \A w \in 1..MaxWorkers : WF_vars(w \in DOMAIN threads /\ Send(w))
  /\ \A v \in Viewers : WF_vars(Show(v))

-----------------------------------------------------------------------------
(* Properties.                                                             *)

Frames == [worker : 1..MaxWorkers, seq : 1..MaxFrames, at : Nat]
TypeOK ==
  /\ worker \in 0..MaxWorkers /\ Len(threads) = worker /\ receiver \in 0..worker
  /\ \A w \in DOMAIN threads : threads[w].hand \in Frames \cup {None} /\ Len(threads[w].chan) <= Channel
  /\ buffer \in Seq(Frames) /\ Len(buffer) <= Capacity
  /\ pipe \in {"poll", "recv", "stages", "failed", "pause", "ended"}

\* f was taken before g, by one worker or by an earlier one.
Before(f, g) == f.worker < g.worker \/ (f.worker = g.worker /\ f.seq < g.seq)

\* The buffer holds the frames of each worker without a gap, and a worker's
\* before those of the next: neither a full channel, nor a failed stage, nor a
\* worker that is replaced under the pipeline loses or reorders frames
\* ("ordered processing path", docs/architecture.md:49).
Ordered == \A i \in 1..(Len(buffer) - 1) :
  IF buffer[i].worker = buffer[i + 1].worker
  THEN buffer[i + 1].seq = buffer[i].seq + 1
  ELSE buffer[i].worker < buffer[i + 1].worker /\ buffer[i + 1].seq = 1

\* What the provider gets is in the order of capture, whatever was pushed and
\* evicted between the two locks of select(), and although a thread that was
\* replaced during a capture stamps its last frame later than the first frames
\* of the next one.  No two neighbours carry the same number, and the newest
\* carries that of the frame the selection began with.  (Not always that frame:
\* deduplication by number keeps an older worker's frame instead.)
SelectionSound == vision = "analyse" =>
  /\ picked # <<>> /\ Len(picked) <= Count
  /\ \A i \in 1..(Len(picked) - 1) :
       picked[i].at < picked[i + 1].at /\ picked[i].seq # picked[i + 1].seq
  /\ picked[Len(picked)].seq = latest.seq /\ picked[Len(picked)].at <= latest.at

\* A stream never goes back in time, over the change of a worker too.
ViewerForward == [][\A v \in Viewers :
  viewer[v] \notin {Closed, None} /\ viewer'[v] \notin {Closed, viewer[v]}
    => Before(viewer[v], viewer'[v])]_vars

\* A stream that stays open comes to a frame of the number of the latest one.
\* (Of the number only: a new worker's frame that happens to carry the number
\* sent last is passed over.)
ViewerCatchesUp == \A v \in Viewers :
  []<>(viewer[v] = Closed \/ Latest = None
       \/ (viewer[v] # None /\ viewer[v].seq = Latest.seq))

\* A pipeline that failed is restarted and shown healthy, or the process stops.
\* (Serve has the restart that misses the stop.)
PipelineHeals == recovering ~> (~recovering \/ shutdown)
=============================================================================
