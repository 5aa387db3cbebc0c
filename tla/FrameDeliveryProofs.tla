------------------------ MODULE FrameDeliveryProofs ------------------------
(***************************************************************************)
(* Frames arrive in order, and viewers see them in order, for any number   *)
(* of workers and viewers and any sizes of channels and buffer.            *)
(*                                                                         *)
(* That the buffer is in order says nothing of what is still to come.  The *)
(* invariant follows a frame back to its camera: a worker whose frames may *)
(* still be received has in its channel, and then in its hand, the frames  *)
(* that follow the last one received of it, without a gap.                 *)
(***************************************************************************)
EXTENDS FrameDelivery, SequenceTheorems, FiniteSetTheorems, WellFoundedInduction, TLAPS

Captures == [taken : Nat, reading : BOOLEAN, hand : Frames \cup {None}, chan : Seq(Frames),
           stopped : BOOLEAN, ended : BOOLEAN]

Types ==
  /\ worker \in 0..MaxWorkers /\ receiver \in 0..worker
  /\ threads \in Seq(Captures) /\ Len(threads) = worker
  /\ clock \in Nat /\ taken \in 0..MaxFrames
  /\ pipe \in {"poll", "recv", "stages", "failed", "pause", "ended"}
  /\ frame \in Frames \cup {None}
  /\ buffer \in Seq(Frames)
  /\ viewer \in [Viewers -> Frames \cup {None, Closed}]
  /\ pipe = "recv" => receiver # 0
  /\ pipe # "recv" => receiver = 0
  /\ pipe = "stages" <=> frame # None

Sizes ==
  /\ Len(buffer) <= Capacity
  /\ \A w \in 1..worker : Len(threads[w].chan) <= Channel /\ threads[w].taken <= taken

\* The last frame that was received.
Newest == IF frame # None THEN frame ELSE Latest
Got(w) == IF Newest # None /\ Newest.worker = w THEN Newest.seq ELSE 0

\* What a worker has sent and is about to send follows what was received.
Follows(t, w, got) ==
  /\ \A i \in 1..Len(t.chan) : t.chan[i].worker = w /\ t.chan[i].seq = got + i
  /\ t.hand # None => t.hand.worker = w /\ t.hand.seq = got + Len(t.chan) + 1
  /\ ~t.ended => t.taken = got + Len(t.chan) + (IF t.hand = None THEN 0 ELSE 1)
  /\ t.ended => t.hand = None

Flow == \A w \in 1..worker :
  Newest = None \/ Newest.worker <= w => Follows(threads[w], w, Got(w))

FollowedBy(f, g) ==
  IF f.worker = g.worker THEN g.seq = f.seq + 1 ELSE f.worker < g.worker /\ g.seq = 1

Reached ==
  /\ Newest # None => Newest.worker <= worker
  /\ Newest # None /\ receiver # 0 => Newest.worker <= receiver
  /\ frame # None /\ buffer # <<>> => FollowedBy(Latest, frame)

ViewersBehind == \A v \in Viewers :
  viewer[v] \notin {None, Closed} =>
    buffer # <<>> /\ (viewer[v] = Latest \/ Before(viewer[v], Latest))

IInv == Types /\ Sizes /\ Flow /\ Reached /\ Ordered /\ ViewersBehind

-----------------------------------------------------------------------------

LEMMA Bounds ==
  /\ MaxFrames \in Nat /\ MaxWorkers \in Nat
  /\ Capacity \in Nat /\ Capacity # 0 /\ Channel \in Nat /\ Channel # 0
<1> QED BY DeliveryAssumption

LEMMA FrameFields ==
  /\ \A f \in Frames : /\ f.worker \in 1..MaxWorkers /\ f.worker \in Nat
                       /\ f.seq \in 1..MaxFrames /\ f.seq \in Nat /\ f.at \in Nat
                       /\ f # None /\ f # Closed
  /\ None # Closed
<1>1. \A f \in Frames : f.worker \in 1..MaxWorkers /\ f.seq \in 1..MaxFrames /\ f.at \in Nat
  BY DEF Frames
<1>2. Frames \subseteq [worker : Nat, seq : Nat, at : Nat]
  BY DeliveryAssumption DEF Frames
<1> QED BY <1>1, <1>2, DeliveryAssumption

LEMMA NewestIsFrame ==
  ASSUME Types
  PROVE  /\ Newest = None \/ Newest \in Frames
         /\ buffer # <<>> => Latest \in Frames /\ Latest = buffer[Len(buffer)] /\ Len(buffer) \in 1..Len(buffer)
         /\ Newest = None <=> frame = None /\ buffer = <<>>
         /\ \A w : Got(w) \in Nat
<1>1. buffer # <<>> => Latest \in Frames /\ Latest = buffer[Len(buffer)] /\ Len(buffer) \in 1..Len(buffer)
  BY DEF Types, Latest
<1>2. /\ Newest = None \/ Newest \in Frames
      /\ Newest = None <=> frame = None /\ buffer = <<>>
  BY <1>1, FrameFields DEF Newest, Types, Latest
<1>3. \A w : Got(w) \in Nat
  BY <1>2, FrameFields DEF Got
<1> QED BY <1>1, <1>2, <1>3

LEMMA ThreadFields ==
  ASSUME Types
  PROVE  /\ DOMAIN threads = 1..worker
         /\ \A w \in 1..worker : /\ threads[w] \in Captures
                                 /\ threads[w].taken \in Nat
                                 /\ threads[w].hand \in Frames \cup {None}
                                 /\ threads[w].chan \in Seq(Frames) /\ Len(threads[w].chan) \in Nat
<1>1. DOMAIN threads = 1..worker /\ \A w \in 1..worker : threads[w] \in Captures
  BY DEF Types
<1>2. \A t \in Captures : /\ t.taken \in Nat /\ t.hand \in Frames \cup {None}
                          /\ t.chan \in Seq(Frames)
  BY DEF Captures
<1>3. \A s \in Seq(Frames) : Len(s) \in Nat
  OBVIOUS
<1> QED BY <1>1, <1>2, <1>3

\* A step of one capture thread keeps the invariant if the thread's own frames
\* still follow.
LEMMA OneThreadSteps ==
  ASSUME IInv, NEW w \in 1..worker,
         UNCHANGED <<worker, receiver, pipe, frame, buffer, viewer>>,
         clock' \in Nat, taken' \in 0..MaxFrames, taken <= taken',
         threads' \in Seq(Captures), Len(threads') = Len(threads),
         \A u \in 1..worker : u # w => threads'[u] = threads[u],
         Len(threads'[w].chan) <= Channel, threads'[w].taken <= taken',
         Newest = None \/ Newest.worker <= w => Follows(threads'[w], w, Got(w))
  PROVE  IInv'
<1>1. Types'
  BY DEF IInv, Types
<1>2. Latest' = Latest /\ Newest' = Newest /\ \A u : Got(u)' = Got(u)
  BY DEF Latest, Newest, Got
<1>3. Sizes'
  <2>1. ASSUME NEW u \in 1..worker
        PROVE  Len(threads'[u].chan) <= Channel /\ threads'[u].taken <= taken'
    <3>1. CASE u = w
      BY <3>1
    <3>2. CASE u # w
      <4>1. threads[u].taken \in Nat /\ threads[u].taken <= taken /\ Len(threads[u].chan) <= Channel
        BY ThreadFields DEF IInv, Sizes
      <4> QED BY <4>1, <3>2 DEF IInv, Types
    <3> QED BY <3>1, <3>2
  <2> QED BY <2>1 DEF IInv, Sizes
<1>4. Flow'
  <2>1. ASSUME NEW u \in 1..worker, Newest = None \/ Newest.worker <= u
        PROVE  Follows(threads'[u], u, Got(u))
    BY <2>1 DEF IInv, Flow
  <2> QED BY <1>2, <2>1 DEF Flow, Follows
<1>5. Reached' /\ Ordered' /\ ViewersBehind'
  BY <1>2 DEF IInv, Reached, Ordered, ViewersBehind, FollowedBy, Before
<1> QED BY <1>1, <1>3, <1>4, <1>5 DEF IInv

LEMMA CaptureKeeps ==
  ASSUME IInv, NEW w \in 1..worker, Capture(w)
  PROVE  IInv'
<1> DEFINE t == threads[w]
<1>1. /\ t \in Captures /\ t.taken \in Nat /\ t.chan \in Seq(Frames) /\ Len(t.chan) \in Nat
      /\ t.hand = None /\ ~t.ended
      /\ UNCHANGED <<worker, receiver, pipe, frame, buffer, viewer>>
      /\ threads \in Seq(Captures) /\ Len(threads) = worker
  BY ThreadFields DEF IInv, Types, Capture, deliveryUnchanged, pipeVars
<1>2. /\ Len(t.chan) <= Channel /\ t.taken <= taken /\ taken \in 0..MaxFrames /\ clock \in Nat
      /\ w \in 1..MaxWorkers /\ Got(w) \in Nat
      /\ Newest = None \/ Newest.worker <= w => Follows(t, w, Got(w))
  <2>1. w \in 1..MaxWorkers
    BY Bounds DEF IInv, Types
  <2>2. Len(t.chan) <= Channel /\ t.taken <= taken /\ taken \in 0..MaxFrames /\ clock \in Nat
    BY DEF IInv, Types, Sizes
  <2>3. /\ Got(w) \in Nat
        /\ Newest = None \/ Newest.worker <= w => Follows(t, w, Got(w))
    BY NewestIsFrame DEF IInv, Flow
  <2> QED BY <2>1, <2>2, <2>3
<1>3. CASE /\ taken' = taken /\ clock' = clock
           /\ \/ threads' = [threads EXCEPT ![w].ended = TRUE]
              \/ threads' = [threads EXCEPT ![w].reading = TRUE]
  <2>1. PICK n \in Captures :
          /\ threads' = [threads EXCEPT ![w] = n]
          /\ n.taken = t.taken /\ n.hand = t.hand /\ n.chan = t.chan
    <3>1. [t EXCEPT !.ended = TRUE] \in Captures /\ [t EXCEPT !.reading = TRUE] \in Captures
      BY <1>1 DEF Captures
    <3> QED BY <1>1, <1>3, <3>1 DEF Captures
  <2>2. /\ threads' \in Seq(Captures) /\ Len(threads') = Len(threads)
        /\ \A u \in 1..worker : threads'[u] = IF u = w THEN n ELSE threads[u]
    BY <1>1, <2>1, ExceptSeq
  <2>3. Newest = None \/ Newest.worker <= w => Follows(n, w, Got(w))
    BY <1>1, <1>2, <2>1 DEF Follows
  <2> QED BY <1>1, <1>2, <1>3, <2>1, <2>2, <2>3, OneThreadSteps
<1>4. CASE /\ taken < MaxFrames /\ taken' = taken + 1 /\ clock' \in {clock, clock + 1}
           /\ threads' = [threads EXCEPT
                ![w].hand = [worker |-> w, seq |-> t.taken + 1, at |-> clock'],
                ![w].taken = @ + 1, ![w].reading = FALSE]
  <2> DEFINE f == [worker |-> w, seq |-> t.taken + 1, at |-> clock']
             n == [t EXCEPT !.hand = f, !.taken = @ + 1, !.reading = FALSE]
  <2>0. /\ t.taken \in Nat /\ t.taken <= taken /\ taken \in Nat /\ MaxFrames \in Nat
        /\ taken < MaxFrames /\ taken' = taken + 1
        /\ clock \in Nat /\ (clock' = clock \/ clock' = clock + 1)
    <3>1. taken < MaxFrames /\ taken' = taken + 1 /\ clock' \in {clock, clock + 1}
      BY <1>4
    <3>2. t.taken \in Nat /\ t.taken <= taken /\ taken \in Nat /\ clock \in Nat
      BY <1>1, <1>2
    <3> QED BY <3>1, <3>2, Bounds
  <2>1. f \in Frames /\ f # None
    <3>1. t.taken + 1 \in 1..MaxFrames /\ clock' \in Nat
      BY <2>0
    <3>2. f \in Frames
      BY <1>2, <3>1 DEF Frames
    <3> QED BY <3>2, FrameFields
  <2> HIDE DEF f
  <2>2. /\ n \in Captures
        /\ n.taken = t.taken + 1 /\ n.hand = f /\ n.chan = t.chan /\ n.ended = t.ended
    <3>1. t \in Captures /\ t.taken + 1 \in Nat
      BY <1>1, <2>0
    <3> QED BY <2>1, <3>1 DEF Captures
  <2>3. threads' = [threads EXCEPT ![w] = n]
    BY <1>1, <1>4 DEF f
  <2> HIDE DEF n
  <2>4. /\ threads' \in Seq(Captures) /\ Len(threads') = Len(threads)
        /\ \A u \in 1..worker : threads'[u] = IF u = w THEN n ELSE threads[u]
    BY <1>1, <2>2, <2>3, ExceptSeq
  <2>5. Newest = None \/ Newest.worker <= w => Follows(n, w, Got(w))
    BY <1>1, <1>2, <2>1, <2>2 DEF Follows, f
  <2>6. taken' \in 0..MaxFrames /\ taken <= taken' /\ clock' \in Nat /\ n.taken <= taken'
    BY <2>0, <2>2
  <2> QED BY <1>1, <1>2, <2>2, <2>4, <2>5, <2>6, OneThreadSteps
<1>5. \/ /\ taken' = taken /\ clock' = clock
         /\ \/ threads' = [threads EXCEPT ![w].ended = TRUE]
            \/ threads' = [threads EXCEPT ![w].reading = TRUE]
      \/ /\ taken < MaxFrames /\ taken' = taken + 1 /\ clock' \in {clock, clock + 1}
         /\ threads' = [threads EXCEPT
              ![w].hand = [worker |-> w, seq |-> t.taken + 1, at |-> clock'],
              ![w].taken = @ + 1, ![w].reading = FALSE]
  BY DEF Capture
<1> QED BY <1>3, <1>4, <1>5

LEMMA SendKeeps ==
  ASSUME IInv, NEW w \in 1..worker, Send(w)
  PROVE  IInv'
<1> DEFINE t == threads[w]
<1>1. /\ t \in Captures /\ t.taken \in Nat /\ t.chan \in Seq(Frames) /\ Len(t.chan) \in Nat
      /\ t.hand \in Frames /\ t.hand # None
      /\ UNCHANGED <<worker, clock, taken, receiver, pipe, frame, buffer, viewer>>
      /\ threads \in Seq(Captures) /\ Len(threads) = worker
  BY ThreadFields DEF IInv, Types, Send, deliveryUnchanged, pipeVars
<1>2. /\ Len(t.chan) <= Channel /\ t.taken <= taken /\ taken \in 0..MaxFrames /\ clock \in Nat
      /\ Got(w) \in Nat
      /\ Newest = None \/ Newest.worker <= w => Follows(t, w, Got(w))
  BY NewestIsFrame DEF IInv, Sizes, Flow, Types
<1>3. PICK n \in Captures :
        /\ threads' = [threads EXCEPT ![w] = n]
        /\ n.taken = t.taken /\ n.hand = None
        /\ \/ n.ended /\ n.chan = t.chan
           \/ n.ended = t.ended /\ n.chan = Append(t.chan, t.hand) /\ Len(t.chan) < Channel
  <2>1. CASE HasReceiver(w)
    <3> DEFINE n == [t EXCEPT !.chan = Append(@, t.hand), !.hand = None]
    <3>1. threads' = [threads EXCEPT ![w] = n] /\ Len(t.chan) < Channel
      BY <1>1, <2>1 DEF Send
    <3>2. Append(t.chan, t.hand) \in Seq(Frames)
      BY <1>1
    <3>3. /\ n \in Captures /\ n.taken = t.taken /\ n.hand = None /\ n.ended = t.ended
          /\ n.chan = Append(t.chan, t.hand)
      BY <1>1, <3>2 DEF Captures
    <3> QED BY <3>1, <3>3
  <2>2. CASE ~HasReceiver(w)
    <3> DEFINE n == [t EXCEPT !.ended = TRUE, !.hand = None]
    <3>1. threads' = [threads EXCEPT ![w] = n]
      BY <1>1, <2>2 DEF Send
    <3>2. /\ n \in Captures /\ n.taken = t.taken /\ n.hand = None /\ n.ended
          /\ n.chan = t.chan
      BY <1>1 DEF Captures
    <3> QED BY <3>1, <3>2
  <2> QED BY <2>1, <2>2
<1>4. /\ threads' \in Seq(Captures) /\ Len(threads') = Len(threads)
      /\ \A u \in 1..worker : threads'[u] = IF u = w THEN n ELSE threads[u]
  BY <1>1, <1>3, ExceptSeq
<1>5. Len(n.chan) <= Channel
  BY <1>1, <1>2, <1>3, Bounds
<1>6. Newest = None \/ Newest.worker <= w => Follows(n, w, Got(w))
  <2> SUFFICES ASSUME Newest = None \/ Newest.worker <= w PROVE Follows(n, w, Got(w))
    OBVIOUS
  <2>1. Follows(t, w, Got(w))
    BY <1>2
  <2>2. CASE n.ended /\ n.chan = t.chan
    BY <1>3, <2>1, <2>2 DEF Follows
  <2>3. CASE n.ended = t.ended /\ n.chan = Append(t.chan, t.hand)
    BY SMTT(30), <1>1, <1>2, <1>3, <2>1, <2>3 DEF Follows
  <2> QED BY <1>3, <2>2, <2>3
<1>7. n.taken <= taken'
  BY <1>1, <1>2, <1>3
<1> QED BY SMTT(30), <1>1, <1>2, <1>4, <1>5, <1>6, <1>7, OneThreadSteps

LEMMA ReplaceKeeps ==
  ASSUME IInv, Replace
  PROVE  IInv'
<1> DEFINE old == [w \in DOMAIN threads |-> [threads[w] EXCEPT !.stopped = TRUE]]
<1>1. /\ worker \in Nat /\ worker < MaxWorkers /\ worker' = worker + 1
      /\ UNCHANGED <<clock, taken, receiver, pipe, frame, buffer, viewer>>
      /\ threads' = Append(old, NoThread)
  BY Bounds DEF IInv, Types, Replace, deliveryUnchanged, pipeVars
<1>2. /\ old \in Seq(Captures) /\ Len(old) = worker
      /\ \A w \in 1..worker : /\ old[w].taken = threads[w].taken /\ old[w].hand = threads[w].hand
                              /\ old[w].chan = threads[w].chan /\ old[w].ended = threads[w].ended
  <2>1. DOMAIN old = 1..worker
    BY ThreadFields DEF IInv
  <2>2. ASSUME NEW w \in 1..worker
        PROVE  /\ old[w] \in Captures
               /\ old[w].taken = threads[w].taken /\ old[w].hand = threads[w].hand
               /\ old[w].chan = threads[w].chan /\ old[w].ended = threads[w].ended
    <3>1. threads[w] \in Captures /\ old[w] = [threads[w] EXCEPT !.stopped = TRUE]
      BY ThreadFields DEF IInv
    <3> QED BY ZenonT(30), <3>1 DEF Captures
  <2>3. old \in [1..worker -> Captures]
    BY <2>1, <2>2
  <2>4. old \in Seq(Captures) /\ Len(old) = worker
    BY <1>1, <2>3
  <2> QED BY <2>2, <2>4
<1> HIDE DEF old
<1>3. NoThread \in Captures
  BY DEF NoThread, Captures
<1>4. /\ threads' \in Seq(Captures) /\ Len(threads') = worker'
      /\ \A w \in 1..worker : threads'[w] = old[w]
      /\ threads'[worker'] = NoThread
  BY <1>1, <1>2, <1>3, AppendProperties
<1>5. Types'
  BY <1>1, <1>4, Bounds DEF IInv, Types
<1>6. Sizes'
  <2>1. \A w \in 1..worker : Len(threads'[w].chan) <= Channel /\ threads'[w].taken <= taken
    BY <1>2, <1>4 DEF IInv, Sizes
  <2>2. Len(threads'[worker'].chan) <= Channel /\ threads'[worker'].taken <= taken
    BY <1>4, Bounds DEF NoThread, IInv, Types
  <2>3. \A w \in 1..worker' : w \in 1..worker \/ w = worker'
    BY <1>1
  <2> QED BY <1>1, <2>1, <2>2, <2>3 DEF IInv, Sizes
<1>7. Latest' = Latest /\ Newest' = Newest /\ \A u : Got(u)' = Got(u)
  BY <1>1 DEF Latest, Newest, Got
<1>8. Flow'
  <2>1. ASSUME NEW w \in 1..worker, Newest = None \/ Newest.worker <= w
        PROVE  Follows(threads'[w], w, Got(w))
    <3>1. Follows(threads[w], w, Got(w))
      BY <2>1 DEF IInv, Flow
    <3> QED BY SMTT(30), <1>2, <1>4, <3>1 DEF Follows
  <2>2. Follows(threads'[worker'], worker', Got(worker'))
    <3>1. Got(worker') = 0
      BY <1>1, NewestIsFrame, FrameFields DEF IInv, Reached, Got
    <3> QED BY <1>4, <3>1 DEF Follows, NoThread
  <2>3. \A w \in 1..worker' : w \in 1..worker \/ w = worker'
    BY <1>1
  <2> QED BY <1>7, <2>1, <2>2, <2>3 DEF Flow, Follows
<1>9. Reached'
  <2>1. Newest # None => Newest.worker <= worker'
    BY <1>1, NewestIsFrame, FrameFields DEF IInv, Reached
  <2> QED BY <1>1, <1>7, <2>1 DEF IInv, Reached, FollowedBy
<1>10. Ordered' /\ ViewersBehind'
  BY <1>1, <1>7 DEF IInv, Ordered, ViewersBehind, Before
<1> QED BY <1>5, <1>6, <1>8, <1>9, <1>10 DEF IInv

\* A step that moves no frame.
LEMMA NoFrameMoves ==
  ASSUME IInv, UNCHANGED <<worker, threads, clock, taken, frame, buffer, viewer>>,
         \/ UNCHANGED <<pipe, receiver>>
         \/ pipe' = "recv" /\ frame = None /\ receiver' = worker /\ worker # 0
         \/ pipe' \in {"poll", "pause", "failed", "ended"} /\ frame = None /\ receiver' = 0
  PROVE  IInv'
<1>1. Latest' = Latest /\ Newest' = Newest /\ \A u : Got(u)' = Got(u)
  BY DEF Latest, Newest, Got
<1>2. Types' /\ Sizes'
  BY DEF IInv, Types, Sizes
<1>3. Flow'
  BY <1>1 DEF IInv, Flow, Follows
<1>4. Reached'
  BY <1>1 DEF IInv, Reached, FollowedBy
<1>5. Ordered' /\ ViewersBehind'
  BY <1>1 DEF IInv, Ordered, ViewersBehind, Before
<1> QED BY <1>2, <1>3, <1>4, <1>5 DEF IInv

LEMMA ReceiveKeeps ==
  ASSUME IInv, Receive
  PROVE  IInv'
<1> DEFINE r == receiver
           t == threads[r]
<1>1. /\ r \in 1..worker /\ worker \in Nat /\ frame = None /\ pipe = "recv"
      /\ threads \in Seq(Captures) /\ Len(threads) = worker
      /\ t \in Captures /\ t.chan \in Seq(Frames)
  BY ThreadFields DEF IInv, Types, Receive
<1>2. CASE t.chan = <<>> /\ pipe' = "poll" /\ UNCHANGED <<frame, threads>>
  BY <1>1, <1>2, NoFrameMoves DEF Receive, pipeUnchanged
<1>3. CASE /\ t.chan # <<>> /\ frame' = Head(t.chan) /\ pipe' = "stages"
           /\ threads' = [threads EXCEPT ![r].chan = Tail(@)]
  <2> DEFINE n == [t EXCEPT !.chan = Tail(@)]
  <2>1. /\ UNCHANGED <<worker, clock, taken, buffer, viewer>> /\ receiver' = 0
        /\ threads' = [threads EXCEPT ![r] = n]
    BY <1>1, <1>3 DEF Receive, pipeUnchanged
  <2>2. /\ Tail(t.chan) \in Seq(Frames) /\ Len(t.chan) \in Nat \ {0}
        /\ Len(Tail(t.chan)) = Len(t.chan) - 1
        /\ \A i \in 1..Len(Tail(t.chan)) : i + 1 \in 1..Len(t.chan) /\ Tail(t.chan)[i] = t.chan[i + 1]
        /\ frame' = t.chan[1] /\ frame' \in Frames /\ frame' # None
    BY <1>1, <1>3, FrameFields
  <2>3. /\ n \in Captures /\ n.taken = t.taken /\ n.hand = t.hand /\ n.ended = t.ended
        /\ n.chan = Tail(t.chan)
    BY <1>1, <2>2 DEF Captures
  <2> HIDE DEF n
  <2>4. /\ threads' \in Seq(Captures) /\ Len(threads') = Len(threads)
        /\ \A u \in 1..worker : threads'[u] = IF u = r THEN n ELSE threads[u]
    BY <1>1, <2>1, <2>3, ExceptSeq
  <2>5. /\ Newest = Latest /\ Latest' = Latest /\ Newest' = frame'
        /\ Newest = None \/ (Newest \in Frames /\ Newest.worker <= r)
        /\ Follows(t, r, Got(r)) /\ Got(r) \in Nat
    <3>1. Newest = Latest /\ Latest' = Latest /\ Newest' = frame'
      BY <1>1, <2>1, <2>2 DEF Newest, Latest
    <3>2. Newest = None \/ (Newest \in Frames /\ Newest.worker <= r)
      BY <1>1, NewestIsFrame DEF IInv, Reached
    <3>3. Got(r) \in Nat
      BY NewestIsFrame DEF IInv
    <3> QED BY <1>1, <3>1, <3>2, <3>3 DEF IInv, Flow
  <2>6. frame'.worker = r /\ frame'.seq = Got(r) + 1
    BY <2>2, <2>5 DEF Follows
  <2>7. Types'
    BY <1>1, <1>3, <2>1, <2>2, <2>4 DEF IInv, Types
  <2>8. Sizes'
    <3>1. Len(n.chan) <= Channel /\ n.taken <= taken
      BY <1>1, <2>2, <2>3, Bounds DEF IInv, Sizes
    <3> QED BY <2>1, <2>4, <3>1 DEF IInv, Sizes
  <2>9. Flow'
    <3>1. ASSUME NEW u \in 1..worker, r <= u
          PROVE  Follows(threads'[u], u, IF u = r THEN frame'.seq ELSE 0)
      <4>1. CASE u = r
        <5>1. Follows(n, r, Got(r) + 1)
          BY SMTT(30), <2>2, <2>3, <2>5 DEF Follows
        <5> QED BY <2>4, <2>6, <4>1, <5>1
      <4>2. CASE u # r
        <5>1. Got(u) = 0 /\ (Newest = None \/ Newest.worker <= u)
          BY <1>1, <2>5, <3>1, <4>2, FrameFields DEF Got
        <5> QED BY <2>4, <4>2, <5>1 DEF IInv, Flow
      <4> QED BY <4>1, <4>2
    <3>2. \A u \in 1..worker : Got(u)' = IF u = r THEN frame'.seq ELSE 0
      BY <2>2, <2>5, <2>6 DEF Got
    <3>3. Newest' # None /\ Newest'.worker = r /\ worker' = worker
      BY <2>1, <2>2, <2>5, <2>6
    <3> QED BY <3>1, <3>2, <3>3 DEF Flow, Follows
  <2>10. Reached'
    <3>1. buffer # <<>> => FollowedBy(Latest, frame')
      <4> SUFFICES ASSUME buffer # <<>> PROVE FollowedBy(Latest, frame')
        OBVIOUS
      <4>1. Newest # None /\ Newest \in Frames
        BY <2>5, NewestIsFrame DEF IInv
      <4>2. Got(r) = IF Newest.worker = r THEN Newest.seq ELSE 0
        BY <4>1 DEF Got
      <4> QED BY <1>1, <2>5, <2>6, <4>1, <4>2, FrameFields DEF FollowedBy
    <3>2. Newest'.worker <= worker'
      BY <1>1, <2>1, <2>5, <2>6
    <3> QED BY <2>1, <2>5, <3>1, <3>2 DEF Reached, FollowedBy
  <2>11. Ordered' /\ ViewersBehind'
    BY <2>1, <2>5 DEF IInv, Ordered, ViewersBehind, Before
  <2> QED BY <2>7, <2>8, <2>9, <2>10, <2>11 DEF IInv
<1> QED BY <1>2, <1>3 DEF Receive

\* What is left of the buffer when a frame is pushed: all of it, or all but its
\* first frame.
Room == IF Len(buffer) = Capacity THEN Tail(buffer) ELSE buffer

LEMMA RoomInOrder ==
  ASSUME Types, Sizes, Ordered
  PROVE  /\ Room \in Seq(Frames) /\ Len(Room) < Capacity
         /\ Room # <<>> => buffer # <<>> /\ Room[Len(Room)] = Latest
         /\ \A i \in 1..(Len(Room) - 1) : FollowedBy(Room[i], Room[i + 1])
<1>1. /\ buffer \in Seq(Frames) /\ Len(buffer) \in Nat /\ Len(buffer) <= Capacity
      /\ \A i \in 1..(Len(buffer) - 1) : FollowedBy(buffer[i], buffer[i + 1])
      /\ buffer # <<>> => Latest = buffer[Len(buffer)]
  BY NewestIsFrame DEF Types, Sizes, Ordered, FollowedBy
<1>2. CASE Len(buffer) = Capacity
  <2>1. buffer # <<>> /\ Room = Tail(buffer)
    BY <1>1, <1>2, Bounds DEF Room
  <2>2. /\ Room \in Seq(Frames) /\ Len(Room) = Len(buffer) - 1
        /\ \A i \in 1..Len(Room) : Room[i] = buffer[i + 1]
    BY <1>1, <2>1
  <2> QED BY <1>1, <1>2, <2>1, <2>2, Bounds
<1>3. CASE Len(buffer) # Capacity
  BY <1>1, <1>3, Bounds DEF Room
<1> QED BY <1>2, <1>3

LEMMA ProcessKeeps ==
  ASSUME IInv, Process
  PROVE  IInv'
<1>1. /\ frame \in Frames /\ frame # None /\ pipe = "stages" /\ receiver = 0
      /\ frame' = None /\ pipe' \in {"poll", "failed"}
      /\ UNCHANGED <<worker, threads, clock, taken, receiver, viewer>>
      /\ buffer' = Append(Room, frame)
  BY FrameFields DEF IInv, Types, Process, Push, Room, pipeUnchanged
<1>2. /\ Room \in Seq(Frames) /\ Len(Room) < Capacity /\ Len(Room) \in Nat
      /\ Room # <<>> => buffer # <<>> /\ Room[Len(Room)] = Latest
      /\ \A i \in 1..(Len(Room) - 1) : FollowedBy(Room[i], Room[i + 1])
  BY RoomInOrder DEF IInv
<1> HIDE DEF Room
<1>3. /\ buffer' \in Seq(Frames) /\ Len(buffer') = Len(Room) + 1 /\ buffer' # <<>>
      /\ \A i \in 1..Len(Room) : buffer'[i] = Room[i]
      /\ buffer'[Len(buffer')] = frame
  BY <1>1, <1>2
<1>4. Newest = frame /\ Latest' = frame /\ Newest' = frame /\ \A w : Got(w)' = Got(w)
  BY <1>1, <1>3 DEF Newest, Latest, Got
<1>5. Types'
  BY <1>1, <1>3 DEF IInv, Types
<1>6. Sizes'
  BY <1>1, <1>2, <1>3, Bounds DEF IInv, Sizes
<1>7. Flow'
  BY <1>1, <1>4 DEF IInv, Flow, Follows
<1>8. Reached'
  BY <1>1, <1>4 DEF IInv, Reached
<1>9. Ordered'
  <2>1. ASSUME NEW i \in 1..(Len(buffer') - 1)
        PROVE  FollowedBy(buffer'[i], buffer'[i + 1])
    <3>1. CASE i = Len(Room)
      <4>1. Room # <<>> /\ buffer'[i] = Latest /\ buffer'[i + 1] = frame
        BY <1>2, <1>3, <2>1, <3>1
      <4> QED BY <1>1, <1>2, <4>1 DEF IInv, Reached
    <3>2. CASE i # Len(Room)
      <4>1. i \in 1..(Len(Room) - 1) /\ buffer'[i] = Room[i] /\ buffer'[i + 1] = Room[i + 1]
        BY <1>2, <1>3, <2>1, <3>2
      <4> QED BY <1>2, <4>1
    <3> QED BY <3>1, <3>2
  <2> QED BY <2>1 DEF Ordered, FollowedBy
<1>10. ViewersBehind'
  <2>1. ASSUME NEW v \in Viewers, viewer[v] \notin {None, Closed}
        PROVE  Before(viewer[v], frame)
    <3>1. /\ buffer # <<>> /\ Latest \in Frames /\ viewer[v] \in Frames
          /\ viewer[v] = Latest \/ Before(viewer[v], Latest)
      BY <2>1, NewestIsFrame DEF IInv, Types, ViewersBehind
    <3>2. FollowedBy(Latest, frame)
      BY <1>1, <3>1 DEF IInv, Reached
    <3> QED BY <1>1, <3>1, <3>2, FrameFields DEF FollowedBy, Before
  <2> QED BY <1>1, <1>3, <1>4, <2>1 DEF ViewersBehind, Before
<1> QED BY <1>5, <1>6, <1>7, <1>8, <1>9, <1>10 DEF IInv

LEMMA ViewersKeep ==
  ASSUME IInv, NEW v \in Viewers, Connect(v) \/ Show(v)
  PROVE  IInv'
<1>1. /\ UNCHANGED <<captureVars, pipeVars>>
      /\ \/ viewer' = viewer
         \/ \E f \in {None, Closed} : viewer' = [viewer EXCEPT ![v] = f]
         \/ Latest # None /\ viewer' = [viewer EXCEPT ![v] = Latest]
  BY DEF Connect, Show, Sends, viewerUnchanged
<1>2. /\ viewer \in [Viewers -> Frames \cup {None, Closed}]
      /\ Latest # None => buffer # <<>> /\ Latest \in Frames
  BY NewestIsFrame DEF IInv, Types, Latest
<1>3. /\ viewer' \in [Viewers -> Frames \cup {None, Closed}]
      /\ \A u \in Viewers : viewer'[u] \notin {None, Closed} =>
           viewer'[u] = viewer[u] \/ (buffer # <<>> /\ viewer'[u] = Latest)
  BY <1>1, <1>2
<1>4. Latest' = Latest /\ Newest' = Newest /\ \A w : Got(w)' = Got(w)
  BY <1>1 DEF Latest, Newest, Got, captureVars, pipeVars
<1>5. Types' /\ Sizes'
  BY <1>1, <1>3 DEF IInv, Types, Sizes, captureVars, pipeVars
<1>6. Flow'
  BY <1>1, <1>4 DEF IInv, Flow, Follows, captureVars, pipeVars
<1>7. Reached' /\ Ordered'
  BY <1>1, <1>4 DEF IInv, Reached, Ordered, FollowedBy, captureVars, pipeVars
<1>8. ViewersBehind'
  BY <1>1, <1>3, <1>4 DEF IInv, ViewersBehind, Before, captureVars, pipeVars
<1> QED BY <1>5, <1>6, <1>7, <1>8 DEF IInv

LEMMA IInvKept == IInv /\ [Next]_vars => IInv'
<1> SUFFICES ASSUME IInv, [Next]_vars PROVE IInv'
  OBVIOUS
<1>1. CASE Replace
  BY <1>1, ReplaceKeeps
<1>2. ASSUME NEW w \in DOMAIN threads, Thread(w) PROVE IInv'
  <2>1. w \in 1..worker
    BY ThreadFields DEF IInv
  <2> QED BY <1>2, <2>1, CaptureKeeps, SendKeeps DEF Thread
<1>3. CASE Pipeline
  <2>1. CASE Attach
    <3>1. frame = None
      BY <2>1 DEF IInv, Types, Attach
    <3> QED BY <2>1, <3>1, NoFrameMoves DEF Attach, pipeUnchanged
  <2>2. CASE Recovery
    <3>1. frame = None /\ receiver = 0
      BY <2>2 DEF IInv, Types, Recovery
    <3> QED BY <2>2, <3>1, NoFrameMoves DEF Recovery, pipeUnchanged
  <2>3. CASE PipelineEnds
    <3>1. frame = None
      BY <2>3 DEF IInv, Types, PipelineEnds
    <3> QED BY <2>3, <3>1, NoFrameMoves DEF PipelineEnds, pipeUnchanged
  <2> QED BY <1>3, <2>1, <2>2, <2>3, ReceiveKeeps, ProcessKeeps DEF Pipeline
<1>4. CASE Vision \/ ShutDown \/ UNCHANGED vars
  <2>1. UNCHANGED <<captureVars, pipeVars, viewer>>
    BY <1>4 DEF Vision, SelectLatest, SelectRecent, Analysed, VisionEnds, visionUnchanged,
                ShutDown, vars
  <2> QED BY <2>1, NoFrameMoves DEF captureVars, pipeVars
<1>5. ASSUME NEW v \in Viewers, Connect(v) \/ Show(v) PROVE IInv'
  BY <1>5, ViewersKeep
<1> QED BY <1>1, <1>2, <1>3, <1>4, <1>5 DEF Next

LEMMA IInvBegins == Init => IInv
<1> SUFFICES ASSUME Init PROVE IInv
  OBVIOUS
<1>1. Latest = None /\ Newest = None
  BY DEF Init, Latest, Newest
<1>2. Types
  BY Bounds, DeliveryAssumption DEF Init, Types
<1>3. Sizes /\ Flow /\ Reached /\ Ordered /\ ViewersBehind
  BY <1>1, Bounds, FrameFields DEF Init, Sizes, Flow, Reached, Ordered, ViewersBehind
<1> QED BY <1>2, <1>3 DEF IInv

-----------------------------------------------------------------------------

\* Channels and buffer keep within their capacities, and whatever sits in them
\* is a frame of a worker that exists.
THEOREM TypesHold == Spec => []TypeOK
<1>1. IInv => TypeOK
  BY ThreadFields DEF IInv, Types, Sizes, TypeOK
<1> QED BY <1>1, IInvBegins, IInvKept, PTL DEF Spec

\* The pipeline loses and reorders nothing of what a worker sends, and takes the
\* frames of one worker before those of the next, however many are replaced
\* under it.
THEOREM FramesInOrder == Spec => []Ordered
<1>1. IInv => Ordered
  BY DEF IInv
<1> QED BY <1>1, IInvBegins, IInvKept, PTL DEF Spec

\* An MJPEG stream never shows an older frame after a newer one.
THEOREM ViewersGoForward == Spec => ViewerForward
<1>1. ASSUME IInv, [Next]_vars, NEW v \in Viewers,
             viewer[v] \notin {Closed, None}, viewer'[v] \notin {Closed, viewer[v]}
      PROVE  Before(viewer[v], viewer'[v])
  <2>1. viewer \in [Viewers -> Frames \cup {None, Closed}] /\ viewer[v] \in Frames
    BY <1>1 DEF IInv, Types
  <2>2. Latest # None /\ viewer'[v] = Latest /\ Latest.seq # viewer[v].seq
    <3>1. PICK u \in Viewers : Connect(u) \/ Show(u)
      BY <1>1 DEF Next, vars, Replace, deliveryUnchanged, Thread, Capture, Send, Pipeline, Attach,
                  Receive, Process, Recovery, PipelineEnds, pipeUnchanged, Vision, SelectLatest,
                  SelectRecent, Analysed, VisionEnds, visionUnchanged, ShutDown
    <3> QED BY <1>1, <2>1, <3>1, FrameFields DEF Connect, Show, Sends
  <2>3. viewer[v] = Latest \/ Before(viewer[v], Latest)
    BY <1>1 DEF IInv, ViewersBehind
  <2> QED BY <2>2, <2>3
<1>2. IInv /\ [Next]_vars => [\A v \in Viewers :
        viewer[v] \notin {Closed, None} /\ viewer'[v] \notin {Closed, viewer[v]}
          => Before(viewer[v], viewer'[v])]_vars
  BY <1>1
<1> QED BY <1>2, IInvBegins, IInvKept, PTL DEF Spec, ViewerForward

-----------------------------------------------------------------------------
(* The selection.  What sorting and deduplication return is proved of any   *)
(* finite set of frames, and then used of the frames that are chosen.      *)

LEMMA LeastNumber ==
  ASSUME NEW S \in SUBSET Nat, S # {}
  PROVE  \E x \in S : \A y \in S : x <= y
<1> DEFINE less == {p \in Nat \X Nat : p[1] < p[2]}
<1>1. IsWellFoundedOn(less, Nat)
  BY NatLessThanWellFounded DEF OpToRel
<1> HIDE DEF less
<1>2. PICK x \in S : \A y \in S : ~(<<y, x>> \in less)
  BY <1>1, WFMin
<1>3. ASSUME NEW y \in S PROVE x <= y
  <2>1. x \in Nat /\ y \in Nat
    OBVIOUS
  <2>2. y < x => <<y, x>> \in less
    BY <2>1 DEF less
  <2> QED BY <1>2, <2>1, <2>2
<1> QED BY <1>3

\* Frames of different times, and a sequence that has them from the oldest to the
\* newest.
Distinct(S) == IsFiniteSet(S) /\ S \subseteq Frames /\ \A f, g \in S : f.at = g.at => f = g
Sorts(s, S) ==
  /\ s \in Seq(S) /\ Len(s) = Cardinality(S)
  /\ \A f \in S : \E i \in 1..Len(s) : s[i] = f
  /\ \A i, j \in 1..Len(s) : i < j => s[i].at < s[j].at

Older(S, f) == {g \in S : g.at < f.at}

LEMMA ByAgeSorts ==
  ASSUME NEW S, Distinct(S)
  PROVE  Sorts(ByAge(S), S)
<1> DEFINE n == Cardinality(S)
<1> DEFINE rank == [f \in S |-> Cardinality(Older(S, f)) + 1]
<1>1. n \in Nat /\ IsFiniteSet(S)
  BY FS_CardinalityType DEF Distinct
<1>2. \A f \in S : f.at \in Nat
  BY FrameFields DEF Distinct
<1>3. ASSUME NEW f \in S
      PROVE  IsFiniteSet(Older(S, f)) /\ Cardinality(Older(S, f)) \in Nat /\ Cardinality(Older(S, f)) < n
  <2>1. Older(S, f) \in SUBSET S /\ f \notin Older(S, f)
    BY <1>2 DEF Older
  <2>2. IsFiniteSet(Older(S, f)) /\ Cardinality(Older(S, f)) <= n /\ Cardinality(Older(S, f)) # n
    BY <1>1, <2>1, FS_Subset
  <2> QED BY <1>1, <2>2, FS_CardinalityType
<1>4. ASSUME NEW f \in S, NEW g \in S, f.at < g.at PROVE rank[f] < rank[g]
  <2>1. Older(S, f) \in SUBSET Older(S, g) /\ f \in Older(S, g) /\ f \notin Older(S, f)
    BY <1>2, <1>4 DEF Older
  <2>2. Cardinality(Older(S, f)) <= Cardinality(Older(S, g)) /\ Cardinality(Older(S, f)) # Cardinality(Older(S, g))
    BY <1>3, <2>1, FS_Subset
  <2> QED BY <1>3, <2>2
<1>5. rank \in Injection(S, 1..n)
  <2>1. rank \in [S -> 1..n]
    BY <1>1, <1>3
  <2>2. ASSUME NEW f \in S, NEW g \in S, rank[f] = rank[g] PROVE f = g
    <3>1. rank[f] \in 1..n /\ rank[g] \in 1..n
      BY <2>1
    <3>2. ~ (f.at < g.at) /\ ~ (g.at < f.at)
      BY <1>4, <2>2, <3>1
    <3>3. f.at = g.at
      BY <1>2, <3>2
    <3> QED BY <3>3 DEF Distinct
  <2> QED BY <2>1, <2>2 DEF Injection, IsInjective
<1>6. rank \in Surjection(S, 1..n)
  <2>1. IsFiniteSet(1..n) /\ Cardinality(1..n) = n
    BY <1>1, FS_Interval
  <2> QED BY <1>5, <2>1, FS_Injection
<1>7. ASSUME NEW i \in 1..n PROVE ByAge(S)[i] \in S /\ rank[ByAge(S)[i]] = i
  <2>1. PICK f \in S : rank[f] = i
    BY <1>6 DEF Surjection
  <2>2. Cardinality(Older(S, f)) = i - 1
    BY <1>3, <2>1
  <2>3. ByAge(S)[i] = CHOOSE g \in S : Cardinality(Older(S, g)) = i - 1
    BY DEF ByAge, Older
  <2>4. ByAge(S)[i] \in S /\ Cardinality(Older(S, ByAge(S)[i])) = i - 1
    BY <2>2, <2>3
  <2> QED BY <1>3, <2>4
<1>8. ByAge(S) \in Seq(S) /\ Len(ByAge(S)) = n
  <2> DEFINE chosen(i) == CHOOSE g \in S : Cardinality({h \in S : h.at < g.at}) = i - 1
  <2>1. ByAge(S) = [i \in 1..n |-> chosen(i)]
    BY DEF ByAge
  <2> HIDE DEF chosen
  <2>2. \A i \in 1..n : chosen(i) \in S
    BY <1>7, <2>1
  <2>3. ByAge(S) \in [1..n -> S]
    BY <2>1, <2>2
  <2> QED BY <1>1, <2>3
<1>9. ASSUME NEW f \in S PROVE \E i \in 1..n : ByAge(S)[i] = f
  <2>1. rank[f] \in 1..n
    BY <1>5 DEF Injection
  <2>2. ByAge(S)[rank[f]] \in S /\ rank[ByAge(S)[rank[f]]] = rank[f]
    BY <1>7, <2>1
  <2> QED BY <1>5, <2>1, <2>2 DEF Injection, IsInjective
<1>10. ASSUME NEW i \in 1..n, NEW j \in 1..n, i < j PROVE ByAge(S)[i].at < ByAge(S)[j].at
  <2>1. ByAge(S)[i] \in S /\ ByAge(S)[j] \in S /\ rank[ByAge(S)[i]] = i /\ rank[ByAge(S)[j]] = j
    BY <1>7
  <2>2. ~ (ByAge(S)[j].at < ByAge(S)[i].at)
    BY <1>1, <1>4, <1>10, <2>1
  <2>3. ByAge(S)[i].at # ByAge(S)[j].at
    BY <1>1, <1>10, <2>1 DEF Distinct
  <2> QED BY <1>2, <2>1, <2>2, <2>3
<1> QED BY <1>8, <1>9, <1>10 DEF Sorts

\* Up to the next first of its run, all frames carry the number of the first.
LEMMA RunsOn ==
  ASSUME NEW s \in Seq(Frames), NEW j \in 1..Len(s), NEW m \in 1..Len(s), j <= m,
         \A i \in Firsts(s) : i <= j \/ m < i
  PROVE  s[m].seq = s[j].seq
<1> DEFINE bad == {i \in j..m : s[i].seq # s[j].seq}
<1>1. ASSUME bad # {} PROVE FALSE
  <2>1. bad \in SUBSET Nat
    OBVIOUS
  <2>2. PICK i \in bad : \A l \in bad : i <= l
    BY <1>1, <2>1, LeastNumber
  <2>3. i \in DOMAIN s /\ i \in Nat /\ j < i /\ i <= m
    BY <2>2
  <2>4. i - 1 \in j..m /\ i - 1 \notin bad
    BY <2>2, <2>3
  <2>5. s[i - 1].seq = s[j].seq /\ s[i].seq # s[j].seq
    BY <2>2, <2>4
  <2>6. i \in Firsts(s)
    BY <2>3, <2>5 DEF Firsts
  <2> QED BY <2>3, <2>6
<1> QED BY <1>1

\* Deduplication keeps the order; neighbours then differ in their numbers, and the
\* number of the newest is still there.
LEMMA DedupOfSorted ==
  ASSUME NEW S, NEW s, Distinct(S), S # {}, Sorts(s, S)
  PROVE  /\ Dedup(s) \in Seq(S) /\ Len(Dedup(s)) \in 1..Cardinality(S)
         /\ \A i \in 1..(Len(Dedup(s)) - 1) :
              /\ Dedup(s)[i].at < Dedup(s)[i + 1].at
              /\ Dedup(s)[i].seq # Dedup(s)[i + 1].seq
         /\ Dedup(s)[Len(Dedup(s))].seq = s[Len(s)].seq
         /\ Dedup(s)[Len(Dedup(s))].at <= s[Len(s)].at
<1> DEFINE K == {s[i] : i \in Firsts(s)}
<1> DEFINE d == Dedup(s)
<1>1. /\ s \in Seq(Frames) /\ Len(s) \in Nat /\ Len(s) # 0 /\ DOMAIN s = 1..Len(s)
      /\ \A i \in 1..Len(s) : s[i] \in S /\ s[i] \in Frames /\ s[i].at \in Nat
  <2>1. S \subseteq Frames /\ Len(s) # 0
    BY DEF Sorts, Distinct
  <2> QED BY <2>1, FrameFields DEF Sorts
<1>2. Firsts(s) \subseteq 1..Len(s) /\ 1 \in Firsts(s)
  BY <1>1 DEF Firsts
<1>3. K \in SUBSET S /\ K # {}
  BY <1>1, <1>2
<1>4. Distinct(K) /\ IsFiniteSet(K) /\ Cardinality(K) \in 1..Cardinality(S)
  <2>1. IsFiniteSet(K) /\ Cardinality(K) <= Cardinality(S)
    BY <1>3, FS_Subset DEF Distinct
  <2>2. Cardinality(K) \in Nat /\ Cardinality(S) \in Nat /\ Cardinality(K) # 0
    BY <1>3, <2>1, FS_CardinalityType, FS_EmptySet DEF Distinct
  <2>3. Distinct(K)
    BY <1>3, <2>1 DEF Distinct
  <2> QED BY <2>1, <2>2, <2>3
<1>5. Sorts(d, K)
  BY <1>4, ByAgeSorts DEF Dedup
<1>6. /\ d \in Seq(S) /\ Len(d) \in 1..Cardinality(S)
      /\ \A i \in 1..Len(d) : \E j \in Firsts(s) : d[i] = s[j]
      /\ \A j \in Firsts(s) : \E i \in 1..Len(d) : d[i] = s[j]
  <2>1. d \in Seq(K) /\ Len(d) \in 1..Cardinality(S)
    BY <1>4, <1>5 DEF Sorts
  <2>2. \A i \in 1..Len(d) : d[i] \in K
    BY <2>1
  <2>3. \A j \in Firsts(s) : s[j] \in K
    OBVIOUS
  <2>4. d \in Seq(S)
    BY <1>3, <2>1
  <2> QED BY <1>5, <2>1, <2>2, <2>3, <2>4 DEF Sorts
<1> HIDE DEF d, K
<1>7. \A i, j \in 1..Len(s) : s[i].at < s[j].at => i < j
  <2> SUFFICES ASSUME NEW i \in 1..Len(s), NEW j \in 1..Len(s), s[i].at < s[j].at PROVE i < j
    OBVIOUS
  <2>1. s[i].at \in Nat /\ s[j].at \in Nat /\ (j < i => s[j].at < s[i].at)
    BY <1>1 DEF Sorts
  <2> QED BY <1>1, <2>1
<1>8. \A i, j \in 1..Len(d) : i < j => d[i].at < d[j].at
  BY <1>5 DEF Sorts
<1>9. ASSUME NEW i \in 1..(Len(d) - 1) PROVE d[i].at < d[i + 1].at /\ d[i].seq # d[i + 1].seq
  <2>1. i \in 1..Len(d) /\ i + 1 \in 1..Len(d) /\ Len(d) \in Nat
    BY <1>6
  <2>2. d[i].at < d[i + 1].at
    BY <1>5, <2>1 DEF Sorts
  <2>3. PICK j \in Firsts(s) : d[i] = s[j]
    BY <1>6, <2>1
  <2>4. PICK k \in Firsts(s) : d[i + 1] = s[k]
    BY <1>6, <2>1
  <2>5. j \in 1..Len(s) /\ k \in 1..Len(s) /\ j < k
    BY <1>2, <1>7, <2>2, <2>3, <2>4
  <2>6. ASSUME NEW l \in Firsts(s), j < l, l <= k - 1 PROVE FALSE
    <3>1. PICK q \in 1..Len(d) : d[q] = s[l]
      BY <1>6
    <3>2. l \in 1..Len(s) /\ l < k
      BY <1>2, <2>5, <2>6
    <3>3. s[j].at < s[l].at /\ s[l].at < s[k].at
      BY <2>5, <2>6, <3>2 DEF Sorts
    <3>4. s[j].at \in Nat /\ s[l].at \in Nat /\ s[k].at \in Nat
      BY <1>1, <2>5, <3>2
    <3>5. ~ (q < i) /\ ~ (i + 1 < q)
      <4>1. q < i => s[l].at < s[j].at
        BY <1>8, <2>1, <2>3, <3>1
      <4>2. i + 1 < q => s[k].at < s[l].at
        BY <1>8, <2>1, <2>4, <3>1
      <4> QED BY <3>3, <3>4, <4>1, <4>2
    <3>6. q # i /\ q # i + 1
      BY <2>3, <2>4, <3>1, <3>3, <3>4
    <3> QED BY <2>1, <3>5, <3>6
  <2>7. k - 1 \in 1..Len(s) /\ j <= k - 1
    BY <1>1, <2>5
  <2>8. s[k - 1].seq = s[j].seq
    <3>1. \A l \in Firsts(s) : l <= j \/ k - 1 < l
      BY <1>2, <2>5, <2>6
    <3> QED BY <1>1, <2>5, <2>7, <3>1, RunsOn
  <2>9. s[k - 1].seq # s[k].seq
    BY <2>5 DEF Firsts
  <2> QED BY <2>2, <2>3, <2>4, <2>8, <2>9
<1>10. d[Len(d)].seq = s[Len(s)].seq /\ d[Len(d)].at <= s[Len(s)].at
  <2>1. Len(d) \in 1..Len(d) /\ Len(s) \in 1..Len(s)
    BY <1>1, <1>6
  <2>2. PICK j \in Firsts(s) : d[Len(d)] = s[j]
    BY <1>6, <2>1
  <2>3. j \in 1..Len(s) /\ j <= Len(s)
    BY <1>1, <1>2
  <2>4. ASSUME NEW l \in Firsts(s), j < l PROVE FALSE
    <3>1. PICK q \in 1..Len(d) : d[q] = s[l]
      BY <1>6
    <3>2. s[j].at < s[l].at
      BY <1>2, <2>3, <2>4 DEF Sorts
    <3>3. s[j].at \in Nat /\ s[l].at \in Nat
      BY <1>1, <1>2, <2>3
    <3>4. ~ (q < Len(d)) /\ q # Len(d)
      <4>1. q < Len(d) => s[l].at < s[j].at
        BY <1>8, <2>1, <2>2, <3>1
      <4> QED BY <2>2, <3>1, <3>2, <3>3, <4>1
    <3> QED BY <2>1, <3>4
  <2>5. s[Len(s)].seq = s[j].seq
    <3>1. \A l \in Firsts(s) : l <= j \/ Len(s) < l
      BY <1>2, <2>3, <2>4
    <3> QED BY <1>1, <2>1, <2>3, <3>1, RunsOn
  <2>6. s[j].at <= s[Len(s)].at
    <3>1. j < Len(s) => s[j].at < s[Len(s)].at
      BY <2>1, <2>3 DEF Sorts
    <3> QED BY <1>1, <2>1, <2>3, <3>1
  <2> QED BY <2>2, <2>5, <2>6
<1> QED BY <1>6, <1>9, <1>10 DEF d

\* What is chosen: at most one frame for each target, each older than the one the
\* selection begins with, and all of different times: what is old enough for an
\* earlier target, and newer in the buffer, would be chosen for it.
Target(i) == latest.at - i * Spacing

LEMMA OnePerTarget ==
  ASSUME Types, latest \in Frames, NEW i \in 1..(Count - 1)
  PROVE  /\ \A f \in NewestBefore(Target(i)) : f \in Frames /\ f.at <= Target(i) /\ f.at < latest.at
         /\ \A f, g \in NewestBefore(Target(i)) : f = g
<1>1. Spacing \in Nat /\ Spacing # 0 /\ latest.at \in Nat /\ i \in Nat /\ i # 0
  BY FrameFields, DeliveryAssumption
<1>2. i * Spacing \in Nat /\ i * Spacing # 0
  BY <1>1
<1>3. Target(i) \in Int /\ Target(i) < latest.at
  BY <1>1, <1>2 DEF Target
<1> DEFINE older == {j \in DOMAIN buffer : buffer[j].at <= Target(i)}
<1>4. NewestBefore(Target(i)) = {buffer[j] : j \in {l \in older : \A k \in older : k <= l}}
  BY DEF NewestBefore
<1>5. \A j \in DOMAIN buffer : j \in Nat /\ buffer[j] \in Frames /\ buffer[j].at \in Nat
  BY FrameFields DEF Types
<1>6. ASSUME NEW f \in NewestBefore(Target(i)) PROVE f \in Frames /\ f.at <= Target(i) /\ f.at < latest.at
  BY <1>1, <1>3, <1>4, <1>5
<1>7. ASSUME NEW j \in older, NEW l \in older, \A k \in older : k <= j, \A k \in older : k <= l PROVE j = l
  <2>1. j <= l /\ l <= j /\ j \in Nat /\ l \in Nat
    BY <1>5, <1>7
  <2> QED BY <2>1
<1> HIDE DEF older
<1>8. \A f, g \in NewestBefore(Target(i)) : f = g
  BY <1>4, <1>7
<1> QED BY <1>6, <1>8

LEMMA TargetsApart ==
  ASSUME Types, latest \in Frames, NEW i \in 1..(Count - 1), NEW j \in 1..(Count - 1),
         NEW f \in NewestBefore(Target(i)), NEW g \in NewestBefore(Target(j)), f.at = g.at
  PROVE  f = g
<1> DEFINE older(t) == {k \in DOMAIN buffer : buffer[k].at <= t}
<1>1. \A k \in DOMAIN buffer : k \in Nat /\ buffer[k] \in Frames /\ buffer[k].at \in Nat
  BY FrameFields DEF Types
<1>2. PICK k \in older(Target(i)) : f = buffer[k] /\ \A l \in older(Target(i)) : l <= k
  BY DEF NewestBefore
<1>3. PICK l \in older(Target(j)) : g = buffer[l] /\ \A m \in older(Target(j)) : m <= l
  BY DEF NewestBefore
<1>4. k \in older(Target(j)) /\ l \in older(Target(i))
  BY <1>2, <1>3
<1>5. k <= l /\ l <= k
  BY <1>2, <1>3, <1>4
<1>6. k \in Nat /\ l \in Nat
  BY <1>1, <1>2, <1>3
<1>7. k = l
  BY <1>5, <1>6
<1> QED BY <1>2, <1>3, <1>7

LEMMA ChosenDistinct ==
  ASSUME Types, latest \in Frames
  PROVE  /\ Distinct(Chosen) /\ latest \in Chosen /\ Cardinality(Chosen) \in 1..Count
         /\ \A f \in Chosen : f.at <= latest.at
<1>1. Count \in Nat /\ Count # 0 /\ latest.at \in Nat
  BY FrameFields, DeliveryAssumption
<1>2. Chosen = {latest} \cup UNION {NewestBefore(Target(i)) : i \in 1..(Count - 1)}
  BY DEF Chosen, Target
<1>3. ASSUME NEW f \in Chosen, f # latest
      PROVE \E i \in 1..(Count - 1) : f \in NewestBefore(Target(i))
  BY <1>2, <1>3
<1>4. ASSUME NEW f \in Chosen PROVE f \in Frames /\ f.at <= latest.at /\ (f # latest => f.at < latest.at)
  <2>1. CASE f = latest
    BY <1>1, <2>1
  <2>2. CASE f # latest
    <3>1. f \in Frames /\ f.at < latest.at
      BY <1>3, <2>2, OnePerTarget
    <3> QED BY <1>1, <3>1, FrameFields
  <2> QED BY <2>1, <2>2
<1>5. ASSUME NEW f \in Chosen, NEW g \in Chosen, f.at = g.at PROVE f = g
  <2>1. f = latest <=> g = latest
    BY <1>1, <1>4, <1>5
  <2> QED BY <1>3, <1>5, <2>1, TargetsApart
<1> DEFINE target == [f \in Chosen |->
      IF f = latest THEN 0 ELSE CHOOSE i \in 1..(Count - 1) : f \in NewestBefore(Target(i))]
<1>6. ASSUME NEW f \in Chosen, f # latest
      PROVE  target[f] \in 1..(Count - 1) /\ f \in NewestBefore(Target(target[f]))
  BY <1>3, <1>6
<1>7. target \in Injection(Chosen, 0..(Count - 1))
  <2>1. \A f \in Chosen : f = latest => target[f] = 0
    OBVIOUS
  <2>2. target = [f \in Chosen |-> target[f]]
    OBVIOUS
  <2> HIDE DEF target
  <2>3. \A f \in Chosen : target[f] \in 0..(Count - 1)
    BY <1>1, <1>6, <2>1
  <2>4. target \in [Chosen -> 0..(Count - 1)]
    BY <2>2, <2>3
  <2>5. ASSUME NEW f \in Chosen, NEW g \in Chosen, target[f] = target[g] PROVE f = g
    <3>1. f = latest <=> g = latest
      BY <1>6, <2>1, <2>5
    <3> QED BY <1>6, <2>5, <3>1, OnePerTarget
  <2> QED BY <2>4, <2>5 DEF Injection, IsInjective
<1>8. IsFiniteSet(0..(Count - 1)) /\ Cardinality(0..(Count - 1)) = Count
  BY <1>1, FS_Interval
<1>9. IsFiniteSet(Chosen) /\ Cardinality(Chosen) <= Count
  BY <1>7, <1>8, FS_Injection
<1>10. latest \in Chosen
  BY <1>2
<1>11. Cardinality(Chosen) \in 1..Count
  <2>1. Cardinality(Chosen) \in Nat /\ Cardinality(Chosen) # 0
    BY <1>9, <1>10, FS_CardinalityType, FS_EmptySet
  <2> QED BY <1>1, <1>9, <2>1
<1> QED BY <1>4, <1>5, <1>9, <1>10, <1>11 DEF Distinct

\* A selection that was made is sound, whatever becomes of the buffer meanwhile.
LEMMA Selects ==
  ASSUME Types, latest \in Frames, SelectRecent
  PROVE  SelectionSound'
<1> DEFINE s == ByAge(Chosen)
<1> DEFINE d == Dedup(s)
<1>1. picked' = d /\ latest' = latest
  BY DEF SelectRecent
<1>2. Distinct(Chosen) /\ Sorts(s, Chosen) /\ Chosen # {} /\ Cardinality(Chosen) \in 1..Count
  BY ChosenDistinct, ByAgeSorts
<1>3. s[Len(s)] = latest
  <2>1. PICK i \in 1..Len(s) : s[i] = latest
    BY ChosenDistinct, <1>2 DEF Sorts
  <2>2. Len(s) \in 1..Len(s) /\ s[Len(s)] \in Chosen
    BY <1>2 DEF Sorts
  <2>3. s[Len(s)].at <= latest.at /\ s[Len(s)].at \in Nat /\ latest.at \in Nat
    BY <2>2, ChosenDistinct, FrameFields DEF Distinct
  <2>4. i < Len(s) => s[i].at < s[Len(s)].at
    BY <1>2, <2>2 DEF Sorts
  <2> QED BY <2>1, <2>2, <2>3, <2>4
<1>4. /\ d \in Seq(Chosen) /\ Len(d) \in 1..Cardinality(Chosen)
      /\ \A i \in 1..(Len(d) - 1) : d[i].at < d[i + 1].at /\ d[i].seq # d[i + 1].seq
      /\ d[Len(d)].seq = s[Len(s)].seq /\ d[Len(d)].at <= s[Len(s)].at
  BY <1>2, DedupOfSorted
<1>5. d # <<>> /\ Len(d) <= Count
  <2>1. Count \in Nat
    BY DeliveryAssumption
  <2> QED BY <1>2, <1>4, <2>1
<1> HIDE DEF d, s
<1> QED BY <1>1, <1>3, <1>4, <1>5 DEF SelectionSound

\* A selection under way began with a frame.
SelectionKnown == vision \in {"recent", "analyse"} => latest \in Frames

\* What the provider gets is in the order of capture, at most as many frames as
\* are configured, no two neighbours of one number, with the number of the frame
\* the selection began with.
THEOREM SelectionsAreSound == Spec => []SelectionSound
<1>1. Init => SelectionKnown /\ SelectionSound
  BY DEF Init, SelectionKnown, SelectionSound
<1>2. IInv /\ SelectionKnown /\ SelectionSound /\ [Next]_vars => (SelectionKnown /\ SelectionSound)'
  <2> SUFFICES ASSUME IInv, SelectionKnown, SelectionSound, [Next]_vars
               PROVE  (SelectionKnown /\ SelectionSound)'
    OBVIOUS
  <2>1. CASE UNCHANGED visionVars
    BY <2>1 DEF visionVars, SelectionKnown, SelectionSound
  <2>2. CASE SelectLatest
    <3>1. buffer # <<>>
      BY <2>2 DEF SelectLatest, Latest
    <3>2. latest' \in Frames /\ vision' = "recent"
      BY <2>2, <3>1, NewestIsFrame DEF SelectLatest, IInv
    <3> QED BY <3>2 DEF SelectionKnown, SelectionSound
  <2>3. CASE SelectRecent
    <3>1. latest \in Frames /\ latest' = latest
      BY <2>3 DEF SelectRecent, SelectionKnown
    <3> QED BY <2>3, <3>1, Selects DEF SelectionKnown, IInv
  <2>4. CASE Analysed \/ VisionEnds
    BY <2>4 DEF Analysed, VisionEnds, SelectionKnown, SelectionSound
  <2>5. \/ UNCHANGED visionVars
        \/ SelectLatest \/ SelectRecent \/ Analysed \/ VisionEnds
    BY DEF Next, vars, Replace, deliveryUnchanged, Thread, Capture, Send, Pipeline, Attach, Receive,
           Process, Recovery, PipelineEnds, pipeUnchanged, Connect, Show, viewerUnchanged, Vision,
           ShutDown
  <2> QED BY <2>1, <2>2, <2>3, <2>4, <2>5
<1> QED BY <1>1, <1>2, IInvBegins, IInvKept, PTL DEF Spec
=============================================================================
