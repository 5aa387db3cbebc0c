------------------------------- MODULE Serve -------------------------------
(***************************************************************************)
(* The process: serve() of src/main.rs with the tasks it spawns, from the  *)
(* moment they are spawned to the end of the process.                      *)
(*                                                                         *)
(*   - the HTTP server, which drains its connections once told to stop;    *)
(*   - the pipeline task, which runs the pipeline again a second after a   *)
(*     stage failed, each time with a new receiver of the shutdown channel;*)
(*   - the helpers (health monitor, media supervisor, vision), which hear  *)
(*     the signal between two rounds of work;                              *)
(*   - main, which waits in a select! for the first of the server, the     *)
(*     pipeline and Ctrl-C, and then stops the sources and joins the tasks *)
(*     in order.                                                           *)
(*                                                                         *)
(* shutdown_sources is one step here; SourceManager has it in detail.      *)
(***************************************************************************)
CONSTANTS
  Helpers,        \* the helper tasks that the configuration enables
  Unbounded,      \* those of them whose work has no time limit (vision)
  Connections     \* the connections that can be open at once

ASSUME ServeAssumption == Unbounded \subseteq Helpers

VARIABLES
  signal,      \* the value in the shutdown channel
  main,        \* where serve() is
  consumed,    \* the task whose JoinHandle the select! ran to its end
  server,      \* the server task
  conn,        \* what each connection is busy with
  pipeline,    \* the pipeline task
  deaf,        \* its receiver was subscribed after the signal
  helper,      \* each helper task
  paths        \* the gateway adapter records a path it has not tried to remove

tasks == <<server, conn, pipeline, deaf, helper, paths>>
vars  == <<signal, main, consumed, tasks>>

Requests == {"stop", "register"}
MainSteps == {"select", "stop_sources", "join_server", "join_pipeline",
              "close_gateway", "join_helpers", "exited", "panicked", "failed"}
Ended == {"exited", "panicked", "failed"}
Running == main \notin Ended

Init ==
  /\ signal = FALSE
  /\ main = "select"
  /\ consumed = "none"
  /\ server = "binding"
  /\ conn = [c \in Connections |-> "none"]
  /\ pipeline = "subscribe"
  /\ deaf = FALSE
  /\ helper = [h \in Helpers |-> "idle"]
  /\ paths = FALSE

-----------------------------------------------------------------------------
(* The server.                                                             *)

Bind ==
  /\ Running /\ server = "binding"
  /\ server' \in {"listening", "error"}
  /\ UNCHANGED <<signal, main, consumed, conn, pipeline, deaf, helper, paths>>

\* A client asks for something, or opens a stream of frames or events.
Accept(c) ==
  /\ Running /\ server = "listening"
  /\ conn[c] = "none"
  /\ \E k \in Requests \cup {"stream"} : conn' = [conn EXCEPT ![c] = k]
  /\ UNCHANGED <<signal, main, consumed, server, pipeline, deaf, helper, paths>>

\* POST /api/v1/stop sends the signal; a playback registration records a path.
\* A stream has no end of its own.
Answer(c) ==
  /\ Running
  /\ conn[c] \in Requests
  /\ conn' = [conn EXCEPT ![c] = "none"]
  /\ signal' = (signal \/ conn[c] = "stop")
  /\ paths' = (paths \/ conn[c] = "register")
  /\ UNCHANGED <<main, consumed, server, pipeline, deaf, helper>>

Leave(c) ==
  /\ Running
  /\ conn[c] # "none"
  /\ conn' = [conn EXCEPT ![c] = "none"]
  /\ UNCHANGED <<signal, main, consumed, server, pipeline, deaf, helper, paths>>

Drain ==
  /\ Running /\ server = "listening"
  /\ signal
  /\ server' = "draining"
  /\ UNCHANGED <<signal, main, consumed, conn, pipeline, deaf, helper, paths>>

ServerDone ==
  /\ Running /\ server = "draining"
  /\ \A c \in Connections : conn[c] = "none"
  /\ server' = "done"
  /\ UNCHANGED <<signal, main, consumed, conn, pipeline, deaf, helper, paths>>

-----------------------------------------------------------------------------
(* The pipeline task.                                                      *)

\* Sender::subscribe: the receiver takes the value of the moment as seen.
Subscribe ==
  /\ Running /\ pipeline = "subscribe"
  /\ pipeline' = "run"
  /\ deaf' = signal
  /\ UNCHANGED <<signal, main, consumed, server, conn, helper, paths>>

RunHears ==
  /\ Running /\ pipeline = "run"
  /\ signal /\ ~deaf
  /\ pipeline' = "done"
  /\ UNCHANGED <<signal, main, consumed, server, conn, deaf, helper, paths>>

StageFails ==
  /\ Running /\ pipeline = "run"
  /\ pipeline' = "pause"
  /\ UNCHANGED <<signal, main, consumed, server, conn, deaf, helper, paths>>

\* The second is over; when the signal has come too, select! takes either.
PauseEnds ==
  /\ Running /\ pipeline = "pause"
  /\ pipeline' = "subscribe"
  /\ UNCHANGED <<signal, main, consumed, server, conn, deaf, helper, paths>>

PauseHears ==
  /\ Running /\ pipeline = "pause"
  /\ signal
  /\ pipeline' = "done"
  /\ UNCHANGED <<signal, main, consumed, server, conn, deaf, helper, paths>>

-----------------------------------------------------------------------------
(* The helpers.                                                            *)

SetHelper(h, from, to) ==
  /\ Running
  /\ helper[h] = from
  /\ helper' = [helper EXCEPT ![h] = to]
  /\ UNCHANGED <<signal, main, consumed, server, conn, pipeline, deaf, paths>>

HelperTicks(h)   == SetHelper(h, "idle", "busy")
HelperReturns(h) == SetHelper(h, "busy", "idle")

\* Mutant: the arm of the signal goes on with the loop.
HelperContinues(h) == signal /\ SetHelper(h, "idle", "idle")

HelperHears(h) == signal /\ SetHelper(h, "idle", "done")

-----------------------------------------------------------------------------
(* serve() itself.                                                         *)

Interrupt ==
  /\ main = "select"
  /\ signal' = TRUE
  /\ main' = "stop_sources"
  /\ UNCHANGED <<consumed, tasks>>

\* Mutant: a server that stopped by itself is taken for one never started.
SelectServerResets ==
  /\ main = "select"
  /\ server \in {"done", "error"}
  /\ signal' = TRUE
  /\ consumed' = server
  /\ main' = "stop_sources"
  /\ UNCHANGED tasks

\* `result??`: the error of a server that did not start ends serve() at once.
SelectServer ==
  /\ main = "select"
  /\ server \in {"done", "error"}
  /\ signal' = TRUE
  /\ consumed' = "server"
  /\ main' = IF server = "error" THEN "failed" ELSE "stop_sources"
  /\ UNCHANGED tasks

\* Mutant: the select! does not watch the pipeline.
SelectPipelineNever ==
  /\ main = "select"
  /\ pipeline = "done"
  /\ UNCHANGED vars

SelectPipeline ==
  /\ main = "select"
  /\ pipeline = "done"
  /\ signal' = TRUE
  /\ consumed' = "pipeline"
  /\ main' = "stop_sources"
  /\ UNCHANGED tasks

StopSources ==
  /\ main = "stop_sources"
  /\ main' = "join_server"
  /\ UNCHANGED <<signal, consumed, tasks>>

\* Mutant: the server is not waited for.
JoinServerDetached ==
  /\ main = "join_server"
  /\ main' = IF consumed = "server" THEN "panicked" ELSE "join_pipeline"
  /\ UNCHANGED <<signal, consumed, tasks>>

\* A JoinHandle that was polled to its end panics when it is polled again.
JoinServer ==
  /\ main = "join_server"
  /\ \/ consumed = "server" /\ main' = "panicked"
     \/ /\ consumed # "server" /\ server \in {"done", "error"}
        /\ main' = "join_pipeline"
  /\ UNCHANGED <<signal, consumed, tasks>>

JoinPipeline ==
  /\ main = "join_pipeline"
  /\ \/ consumed = "pipeline" /\ main' = "panicked"
     \/ /\ consumed # "pipeline" /\ pipeline = "done"
        /\ main' = "close_gateway"
  /\ UNCHANGED <<signal, consumed, tasks>>

\* Every recorded path is tried; an error of the gateway is ignored.
CloseGateway ==
  /\ main = "close_gateway"
  /\ paths' = FALSE
  /\ main' = "join_helpers"
  /\ UNCHANGED <<signal, consumed, server, conn, pipeline, deaf, helper>>

JoinHelpers ==
  /\ main = "join_helpers"
  /\ \A h \in Helpers : helper[h] = "done"
  /\ main' = "exited"
  /\ UNCHANGED <<signal, consumed, tasks>>

ProcessOver ==
  /\ ~Running
  /\ UNCHANGED vars

-----------------------------------------------------------------------------

ServerStep == Bind \/ Drain \/ ServerDone
PipelineStep == Subscribe \/ RunHears \/ PauseEnds \/ PauseHears
MainStep ==
  \/ SelectServer \/ SelectPipeline \/ StopSources
  \/ JoinServer \/ JoinPipeline \/ CloseGateway \/ JoinHelpers

Next ==
  \/ ServerStep
  \/ \E c \in Connections : Accept(c) \/ Answer(c) \/ Leave(c)
  \/ PipelineStep \/ StageFails
  \/ \E h \in Helpers : HelperTicks(h) \/ HelperReturns(h) \/ HelperHears(h)
  \/ Interrupt \/ MainStep \/ ProcessOver

Spec == Init /\ [][Next]_vars

\* The runtime polls every task that can go on.  A helper whose loop starts
\* round after round finds the signal alone between two ticks.  Nothing makes
\* a viewer leave or the vision provider answer.
Fairness ==
  /\ WF_vars(ServerStep) /\ WF_vars(PipelineStep) /\ WF_vars(MainStep)
  /\ \A c \in Connections : WF_vars(Answer(c))
  /\ \A h \in Helpers : SF_vars(HelperHears(h))
  /\ \A h \in Helpers \ Unbounded : WF_vars(HelperReturns(h))

FairSpec == Spec /\ Fairness

-----------------------------------------------------------------------------
(* Properties that hold.                                                   *)

\* Every variable has its type.
TypeOK ==
  /\ signal \in BOOLEAN /\ deaf \in BOOLEAN /\ paths \in BOOLEAN
  /\ main \in MainSteps
  /\ consumed \in {"none", "server", "pipeline"}
  /\ server \in {"binding", "listening", "error", "draining", "done"}
  /\ conn \in [Connections -> Requests \cup {"stream", "none"}]
  /\ pipeline \in {"subscribe", "run", "pause", "done"}
  /\ helper \in [Helpers -> {"idle", "busy", "done"}]

\* When serve() returns Ok nothing runs on and no registration made meanwhile
\* was left untried at the gateway: the gateway is closed after the last request was
\* answered, although the helpers are joined later still.
CleanExit ==
  main = "exited" =>
    /\ server \in {"done", "error"} /\ pipeline = "done"
    /\ \A h \in Helpers : helper[h] = "done"
    /\ \A c \in Connections : conn[c] = "none"
    /\ ~paths

\* However the signal came, capture is stopped, even while a viewer keeps the
\* server from ending or the vision provider never answers - as long as the
\* pipeline can hear the signal, which is what ends the select!.
CaptureStops ==
  signal ~> main \notin {"select", "stop_sources"} \/ deaf

\* The viewers leave and the vision provider answers.
Patience ==
  /\ \A c \in Connections : WF_vars(Leave(c))
  /\ \A h \in Unbounded : WF_vars(HelperReturns(h))

\* After Ctrl-C the process ends the regular way if the viewers leave and the
\* vision provider answers.
InterruptExits ==
  Patience => (main = "stop_sources" /\ consumed = "none" ~> main = "exited" \/ deaf)

-----------------------------------------------------------------------------
(* A statement of the documentation that the code does not keep.           *)

\* Ctrl-C and the stop request "allow pipeline, vision, HTTP, and camera tasks
\* to exit cleanly" (docs/operations.md): joining them does not panic.
JoinsCleanly == main # "panicked"
=============================================================================
