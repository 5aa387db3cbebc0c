----------------------------- MODULE Artifacts -----------------------------
(***************************************************************************)
(* Snapshots, clips and the artifact store: capture_snapshot,              *)
(* capture_clip and the artifact handlers of src/api.rs, capture_clip of   *)
(* src/sources.rs, and FilesystemArtifactStore of src/media_artifacts.rs.  *)
(*                                                                         *)
(* A capture holds one of a few permits from its first check to its        *)
(* answer.  A clip is recorded by an ffmpeg process into a scratch file    *)
(* that is named after the millisecond the call began in, is read back and *)
(* removed, and is stored; a snapshot stores the latest frame at once.     *)
(* The store writes a temporary file, renames it, and lists the artifact   *)
(* in memory.  Calls run concurrently, and a client that goes away drops   *)
(* its call where it waits; the process it started runs on.                *)
(*                                                                         *)
(* A call has a number, which stands for the artifact's id and for the     *)
(* content it recorded.  Left out: what an artifact's metadata says, and   *)
(* the checks of a capture (permit, source, duration, frame) one by one.   *)
(***************************************************************************)
EXTENDS EventLog, FiniteSets

CONSTANTS
  Clients,
  Permits,      \* media.artifact_max_concurrent
  MaxCalls,     \* bound: calls in all
  MaxClock,     \* bound: milliseconds
  MaxRestarts,  \* bound: restarts of the program
  None

ASSUME ArtifactsAssumption ==
  /\ IsFiniteSet(Clients)
  /\ {Permits, MaxCalls, MaxRestarts} \subseteq Nat /\ MaxClock \in Nat \ {0}
  /\ None \notin Nat

VARIABLES
  call,      \* the call each client is in: [kind, at, run, name, of]
  calls,     \* calls begun so far
  clock,     \* now_ms()
  scratch,   \* by millisecond: the call whose recording is in the file, or None
  ffmpeg,    \* by call: its process, "none", "spawned", "records", "done", "failed"
  tmp,       \* the artifacts whose temporary file is there
  files,     \* by artifact: the recording in its file, or None
  meta,      \* FilesystemArtifactStore.metadata
  abandoned, \* the artifacts whose deletion was dropped half-way
  restarts   \* restarts so far

storeVars == <<tmp, files, meta>>
clipVars == <<clock, scratch, ffmpeg>>
vars == <<call, calls, clipVars, storeVars, abandoned, restarts, logVars>>

Runs == 1..MaxCalls
NoCall == [kind |-> "none", at |-> "idle", run |-> 0, name |-> 0, of |-> 0]

Init ==
  /\ LogInit
  /\ call = [c \in Clients |-> NoCall] /\ calls = 0
  /\ clock = 1 /\ scratch = [t \in 1..MaxClock |-> None]
  /\ ffmpeg = [k \in Runs |-> "none"]
  /\ tmp = {} /\ files = [k \in Runs |-> None] /\ meta = {}
  /\ abandoned = {} /\ restarts = 0

To(c, at) == call' = [call EXCEPT ![c].at = at]
Ends(c) == call' = [call EXCEPT ![c] = NoCall]
Quiet == UNCHANGED logVars
\* An event of a call.  (An instance may follow some of them only, `Events`.)
Tells(k, what) == IF <<k, what>> \in Events THEN Publish(<<k, what>>) ELSE Quiet
Tell(c, what) == Tells(call[c].run, what)

\* The permits that are taken: each is held until its call is answered or
\* dropped.
Holding == {c \in Clients : call[c].kind \in {"snapshot", "clip"}}

Begin(c, kind, at, of) ==
  /\ call[c].kind = "none" /\ calls < MaxCalls
  /\ calls' = calls + 1
  /\ call' = [call EXCEPT ![c] = [kind |-> kind, at |-> at, run |-> calls + 1, name |-> clock, of |-> of]]

-----------------------------------------------------------------------------
(* Captures.                                                               *)

\* Mutant: no permit is taken.
CaptureUnlimited(c, kind) ==
  /\ Begin(c, kind, IF kind = "clip" THEN "spawn" ELSE "store", 0)
  /\ Tells(calls + 1, "requested")
  /\ UNCHANGED <<clipVars, storeVars, abandoned, restarts>>

\* try_acquire_owned(), and the event.  A refusal changes nothing.
Capture(c, kind) ==
  /\ Cardinality(Holding) < Permits
  /\ Begin(c, kind, IF kind = "clip" THEN "spawn" ELSE "store", 0)
  /\ Tells(calls + 1, "requested")
  /\ UNCHANGED <<clipVars, storeVars, abandoned, restarts>>

\* A capture that fails says so: at any of its steps, a snapshot that cannot be
\* encoded included.
Fails(c) == Tell(c, "failed") /\ Ends(c)

\* The scratch file is named, ffmpeg is started, or the source is not one to
\* record.
ClipStarts(c) ==
  /\ call[c].at = "spawn"
  /\ \/ /\ call' = [call EXCEPT ![c].at = "wait", ![c].name = clock]
        /\ ffmpeg' = [ffmpeg EXCEPT ![call[c].run] = "spawned"]
        /\ Quiet
     \/ Fails(c) /\ UNCHANGED ffmpeg
  /\ UNCHANGED <<calls, clock, scratch, storeVars, abandoned, restarts>>

\* Mutant: ffmpeg -y.
FfmpegOverwrites(c) ==
  LET k == call[c].run
      t == call[c].name IN
  /\ call[c].at = "wait"
  /\ \/ /\ ffmpeg[k] = "spawned"
        /\ scratch' = [scratch EXCEPT ![t] = k]
        /\ ffmpeg' = [ffmpeg EXCEPT ![k] = "records"]
     \/ /\ \/ ffmpeg[k] = "spawned" /\ scratch[t] # None /\ ffmpeg' = [ffmpeg EXCEPT ![k] = "failed"]
           \/ ffmpeg[k] = "records" /\ \E end \in {"done", "failed"} : ffmpeg' = [ffmpeg EXCEPT ![k] = end]
        /\ clock > t
        /\ UNCHANGED scratch
  /\ UNCHANGED <<call, calls, clock, storeVars, abandoned, restarts, logVars>>

\* ffmpeg does not overwrite a file.  A recording takes longer than the
\* millisecond that names it.  (A process that has not opened its file when its
\* call is dropped is left out.)
Ffmpeg(c) ==
  LET k == call[c].run
      t == call[c].name IN
  /\ call[c].at = "wait"
  /\ \/ /\ ffmpeg[k] = "spawned" /\ scratch[t] = None
        /\ scratch' = [scratch EXCEPT ![t] = k]
        /\ ffmpeg' = [ffmpeg EXCEPT ![k] = "records"]
     \/ /\ \/ ffmpeg[k] = "spawned" /\ scratch[t] # None /\ ffmpeg' = [ffmpeg EXCEPT ![k] = "failed"]
           \/ ffmpeg[k] = "records" /\ \E end \in {"done", "failed"} : ffmpeg' = [ffmpeg EXCEPT ![k] = end]
        /\ clock > t
        /\ UNCHANGED scratch
  /\ UNCHANGED <<call, calls, clock, storeVars, abandoned, restarts, logVars>>

\* A recording is read; one that failed is removed; after a time-out both the
\* process and the file are left.
ClipWaits(c) ==
  LET k == call[c].run
      t == call[c].name IN
  /\ call[c].at = "wait"
  /\ \/ ffmpeg[k] = "done" /\ To(c, "read") /\ Quiet /\ UNCHANGED scratch
     \/ ffmpeg[k] = "failed" /\ scratch' = [scratch EXCEPT ![t] = None] /\ Fails(c)
     \/ ffmpeg[k] \in {"spawned", "records"} /\ Fails(c) /\ UNCHANGED scratch
  /\ UNCHANGED <<calls, clock, ffmpeg, storeVars, abandoned, restarts>>

\* Whatever is in the file by now; `of` is the recording read.
ClipReads(c) ==
  LET found == scratch[call[c].name] IN
  /\ call[c].at = "read"
  /\ IF found = None THEN Fails(c) ELSE call' = [call EXCEPT ![c].at = "clean", ![c].of = found] /\ Quiet
  /\ UNCHANGED <<calls, clipVars, storeVars, abandoned, restarts>>

ClipCleans(c) ==
  /\ call[c].at = "clean"
  /\ scratch' = [scratch EXCEPT ![call[c].name] = None]
  /\ To(c, "store")
  /\ UNCHANGED <<calls, clock, ffmpeg, storeVars, abandoned, restarts, logVars>>

-----------------------------------------------------------------------------
(* FilesystemArtifactStore.                                                *)

\* Mutant: the artifact is listed before its file is there.
StoreWritesListed(c) ==
  LET k == call[c].run IN
  /\ call[c].at = "store"
  /\ \/ tmp' = tmp \cup {k} /\ meta' = meta \cup {k} /\ To(c, "rename") /\ Quiet
     \/ tmp' \in {tmp, tmp \cup {k}} /\ Fails(c) /\ UNCHANGED meta
  /\ UNCHANGED <<calls, clipVars, files, abandoned, restarts>>

\* store(): a write that fails may leave a temporary file; so does a rename.
StoreWrites(c) ==
  LET k == call[c].run IN
  /\ call[c].at = "store"
  /\ \/ tmp' = tmp \cup {k} /\ To(c, "rename") /\ Quiet
     \/ tmp' \in {tmp, tmp \cup {k}} /\ Fails(c)
  /\ UNCHANGED <<calls, clipVars, files, meta, abandoned, restarts>>

StoreRenames(c) ==
  LET k == call[c].run IN
  /\ call[c].at = "rename"
  /\ \/ /\ tmp' = tmp \ {k}
        /\ files' = [files EXCEPT ![k] = IF call[c].kind = "clip" THEN call[c].of ELSE k]
        /\ To(c, "list") /\ Quiet
     \/ Fails(c) /\ UNCHANGED <<tmp, files>>
  /\ UNCHANGED <<calls, clipVars, meta, abandoned, restarts>>

StoreLists(c) ==
  /\ call[c].at = "list"
  /\ meta' = meta \cup {call[c].run}
  /\ Tell(c, "succeeded") /\ Ends(c)
  /\ UNCHANGED <<calls, clipVars, tmp, files, abandoned, restarts>>

\* delete(): the listing is looked up, the file removed, the listing removed.
DeleteBegins(c) ==
  /\ \E k \in meta : Begin(c, "delete", "unlink", k)
  /\ UNCHANGED <<clipVars, storeVars, abandoned, restarts, logVars>>

\* Fails when another call has removed the file, or the system does not let it.
DeleteUnlinks(c) ==
  LET k == call[c].of IN
  /\ call[c].at = "unlink"
  /\ \/ files[k] # None /\ files' = [files EXCEPT ![k] = None] /\ To(c, "unlist")
     \/ Ends(c) /\ UNCHANGED files
  /\ UNCHANGED <<calls, clipVars, tmp, meta, abandoned, restarts, logVars>>

DeleteUnlists(c) ==
  /\ call[c].at = "unlist"
  /\ meta' = meta \ {call[c].of}
  /\ Tell(c, "deleted") /\ Ends(c)
  /\ UNCHANGED <<calls, clipVars, tmp, files, abandoned, restarts>>

-----------------------------------------------------------------------------

Tick ==
  /\ clock < MaxClock /\ clock' = clock + 1
  /\ UNCHANGED <<call, calls, scratch, ffmpeg, storeVars, abandoned, restarts, logVars>>

\* A client goes away.
Drop(c) ==
  /\ call[c].kind # "none"
  /\ abandoned' = IF call[c].at = "unlist" THEN abandoned \cup {call[c].of} ELSE abandoned
  /\ Ends(c)
  /\ UNCHANGED <<calls, clipVars, storeVars, restarts, logVars>>

\* The files stay, the listing and the log do not.
Restart ==
  /\ restarts < MaxRestarts
  /\ restarts' = restarts + 1
  /\ call' = [c \in Clients |-> NoCall]
  /\ meta' = {} /\ abandoned' = {}
  /\ LogRestart
  /\ UNCHANGED <<calls, clipVars, tmp, files>>

Log == LogTask /\ UNCHANGED <<call, calls, clipVars, storeVars, abandoned, restarts>>

Clip(c) == ClipStarts(c) \/ Ffmpeg(c) \/ ClipWaits(c) \/ ClipReads(c) \/ ClipCleans(c)
Store(c) == StoreWrites(c) \/ StoreRenames(c) \/ StoreLists(c)
Delete(c) == DeleteBegins(c) \/ DeleteUnlinks(c) \/ DeleteUnlists(c)

Next ==
  \/ \E c \in Clients :
       \/ \E kind \in {"snapshot", "clip"} : Capture(c, kind)
       \/ Clip(c) \/ Store(c) \/ Delete(c) \/ Drop(c)
  \/ Tick \/ Log \/ Restart

Spec == Init /\ [][Next]_vars

-----------------------------------------------------------------------------
(* Properties.                                                             *)

TypeOK ==
  /\ Cardinality(Holding) <= Permits
  /\ \A c \in Clients : call[c].run \in 0..calls /\ call[c].of \in 0..MaxCalls
  /\ scratch \in [1..MaxClock -> Runs \cup {None}]
  /\ ffmpeg \in [Runs -> {"none", "spawned", "records", "done", "failed"}]
  /\ tmp \subseteq Runs /\ meta \subseteq Runs
  /\ files \in [Runs -> Runs \cup {None}]

\* An artifact that is listed has its file, unless its deletion is under way or
\* was dropped between the two.
ContentThere == \A k \in meta :
  \/ files[k] # None
  \/ k \in abandoned
  \/ \E c \in Clients : call[c].at = "unlist" /\ call[c].of = k

\* A clip is the recording of its own call, although two calls of one
\* millisecond use one scratch file: the one that comes second fails, removes
\* the file, and may make the first fail too.
OwnRecording == \A k \in Runs : files[k] \in {None, k}
=============================================================================
