----------------------------- MODULE ServeProofs -----------------------------
(***************************************************************************)
(* Proofs about Serve, for any helpers and connections.                    *)
(***************************************************************************)
EXTENDS Serve, TLAPS

\* What main knows at each stage of the shutdown.  No connection is busy
\* unless the server listens or drains; main gets past the two joins only when
\* both tasks are over, and from then on nobody can register a path.
ShutdownStages ==
  /\ server \in {"binding", "error", "done"} => \A c \in Connections : conn[c] = "none"
  /\ main \in {"join_pipeline", "close_gateway", "join_helpers", "exited"}
       => server \in {"done", "error"}
  /\ main \in {"close_gateway", "join_helpers", "exited"} => pipeline = "done"
  /\ main \in {"join_helpers", "exited"} => ~paths
  /\ main = "exited" => \A h \in Helpers : helper[h] = "done"

IInv == TypeOK /\ ShutdownStages

LEMMA InitStages == Init => IInv
BY DEF Init, IInv, TypeOK, ShutdownStages, Requests, MainSteps

LEMMA StepStages == IInv /\ [Next]_vars => IInv'
<1> SUFFICES ASSUME IInv, [Next]_vars PROVE IInv'
  OBVIOUS
<1> USE DEF IInv, TypeOK, ShutdownStages, Requests, MainSteps, Running, Ended, tasks
<1>1. CASE Bind
  BY <1>1 DEF Bind
<1>2. ASSUME NEW c \in Connections, Accept(c) PROVE IInv'
  BY <1>2 DEF Accept
<1>3. ASSUME NEW c \in Connections, Answer(c) PROVE IInv'
  BY <1>3 DEF Answer
<1>4. ASSUME NEW c \in Connections, Leave(c) PROVE IInv'
  BY <1>4 DEF Leave
<1>5. CASE Drain
  BY <1>5 DEF Drain
<1>6. CASE ServerDone
  BY <1>6 DEF ServerDone
<1>7. CASE PipelineStep
  BY <1>7 DEF PipelineStep, Subscribe, RunHears, PauseEnds, PauseHears
<1>8. CASE StageFails
  BY <1>8 DEF StageFails
<1>9. ASSUME NEW h \in Helpers, HelperTicks(h) PROVE IInv'
  BY <1>9 DEF HelperTicks, SetHelper
<1>10. ASSUME NEW h \in Helpers, HelperReturns(h) PROVE IInv'
  BY <1>10 DEF HelperReturns, SetHelper
<1>11. ASSUME NEW h \in Helpers, HelperHears(h) PROVE IInv'
  BY <1>11 DEF HelperHears, SetHelper
<1>12. CASE Interrupt
  BY <1>12 DEF Interrupt
<1>13. CASE SelectServer
  BY <1>13 DEF SelectServer
<1>14. CASE SelectPipeline
  BY <1>14 DEF SelectPipeline
<1>15. CASE StopSources
  BY <1>15 DEF StopSources
<1>16. CASE JoinServer
  BY <1>16 DEF JoinServer
<1>17. CASE JoinPipeline
  BY <1>17 DEF JoinPipeline
<1>18. CASE CloseGateway
  BY <1>18 DEF CloseGateway
<1>19. CASE JoinHelpers
  BY <1>19 DEF JoinHelpers
<1>20. CASE ProcessOver \/ UNCHANGED vars
  BY <1>20 DEF ProcessOver, vars
<1> QED
  BY <1>1, <1>2, <1>3, <1>4, <1>5, <1>6, <1>7, <1>8, <1>9, <1>10, <1>11, <1>12, <1>13,
     <1>14, <1>15, <1>16, <1>17, <1>18, <1>19, <1>20
     DEF Next, ServerStep, MainStep

\* When serve() returns Ok nothing runs on, and the gateway was closed after
\* the last registration.
THEOREM ExitIsClean == Spec => []CleanExit
<1>1. Spec => []IInv
  BY InitStages, StepStages, PTL DEF Spec
<1>2. IInv => CleanExit
  BY DEF IInv, ShutdownStages, CleanExit
<1> QED
  BY <1>1, <1>2, PTL

\* Every step keeps to the stages of the process: no task, request or helper is
\* where the code has no place for it.
THEOREM TypesHold == Spec => []TypeOK
<1>1. Spec => []IInv
  BY InitStages, StepStages, PTL DEF Spec
<1>2. IInv => TypeOK
  BY DEF IInv
<1> QED
  BY <1>1, <1>2, PTL
=============================================================================
