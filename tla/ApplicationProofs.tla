------------------------- MODULE ApplicationProofs -------------------------
(***************************************************************************)
(* Exit code 0 of a live run is earned, for every set of arguments and     *)
(* errors and any number of signals.                                       *)
(***************************************************************************)
EXTENDS Application, TLAPS

(* The flags of the run loop and of the controller agree.  The controller  *)
(* is asked to stop only by the loop, the loop is terminal when the        *)
(* controller is, and nothing of the two changes after that; so what       *)
(* OnCaptureTerminal found of the duration and of the connection is still  *)
(* true when the exit code is computed.                                    *)
LoopAgrees ==
  /\ loopTerminal <=> terminal
  /\ stopRequested => stopStarted
  /\ terminal /\ loopError = "none" /\ Succeeded(error, stopRequested, writerFailed)
       => (durationExpired => connected)

(* A code is there only at the end; the code 0 of a live run is the one    *)
(* that live_exit_code computes of a loop that is terminal.                *)
ExitAgrees ==
  /\ exitCode # "none" => stage = "exited"
  /\ exitCode = "success" /\ parsed = "live_capture" =>
       loopTerminal /\ loopError = "none" /\ Succeeded(error, stopRequested, writerFailed)

(* Flags that only ever hold a Boolean, which the equations above need.    *)
FlagTypes ==
  /\ loopTerminal \in BOOLEAN /\ terminal \in BOOLEAN
  /\ stopRequested \in BOOLEAN /\ stopStarted \in BOOLEAN

AppInv == FlagTypes /\ LoopAgrees /\ ExitAgrees

-----------------------------------------------------------------------------
LEMMA StartAgrees == ApplicationInit => AppInv
BY Zenon DEF ApplicationInit, LoopInit, CaptureInit, LineInit, AppInv, FlagTypes, LoopAgrees, ExitAgrees

(* A stop that is requested before the end leaves the equations alone: the *)
(* third one is about a loop that is over.                                 *)
LEMMA StopAgrees ==
  ASSUME FlagTypes, LoopAgrees, NEW cause, LoopRequestStop(cause), ~ terminal,
         loopTerminal' = loopTerminal
  PROVE  FlagTypes' /\ LoopAgrees'
BY Zenon DEF FlagTypes, LoopAgrees, LoopRequestStop, RequestStop

(* The steps of the run loop.                                              *)
LEMMA LoopStepAgrees ==
  ASSUME FlagTypes, LoopAgrees, RunNext
  PROVE  FlagTypes' /\ LoopAgrees'
<1> USE DEF FlagTypes, LoopAgrees
<1>1. CASE ControllerRuns
  BY <1>1 DEF ControllerRuns, ConnectionOpens, WriterFails, loopVars, waitVars, signalVars
<1>2. CASE ControllerEnds
  BY <1>2 DEF ControllerEnds, RunEnds, OnCaptureTerminal, DurationMissed, LatchControlError,
              Succeeded
<1>3. CASE SignalArrives
  BY <1>3 DEF SignalArrives, captureVars
<1>4. CASE DurationExpires
  BY <1>4 DEF DurationExpires, captureVars
<1>5. CASE RunReady
  <2>1. CASE loopTerminal
    BY <1>5, <2>1 DEF RunReady, captureVars
  <2>2. CASE ~ loopTerminal
    <3>1. \/ \E result : OnSignal(result)
          \/ \E result : OnDuration(result)
          \/ UNCHANGED <<captureVars, loopTerminal, stopStarted, loopError, durationExpired>>
      BY <1>5, <2>2 DEF RunReady
    <3>2. ASSUME NEW result, OnSignal(result)
          PROVE  FlagTypes' /\ LoopAgrees'
      BY <2>2, <3>2, StopAgrees DEF OnSignal
    <3>3. ASSUME NEW result, OnDuration(result)
          PROVE  FlagTypes' /\ LoopAgrees'
      BY <2>2, <3>3, StopAgrees DEF OnDuration
    <3>4. QED
      BY <3>1, <3>2, <3>3 DEF captureVars
  <2>3. QED
    BY <2>1, <2>2
<1>6. QED
  BY <1>1, <1>2, <1>3, <1>4, <1>5 DEF RunNext

-----------------------------------------------------------------------------
(* The stages before the loop runs touch none of its flags, and fail with  *)
(* another code than 0.                                                    *)
LEMMA BuildAgrees ==
  ASSUME AppInv, NEW i \in DOMAIN BuildOrder, Build(i)
  PROVE  AppInv'
<1>1. FlagTypes' /\ LoopAgrees'
  <2>1. CASE UNCHANGED runVars
    BY <2>1 DEF AppInv, FlagTypes, LoopAgrees, Succeeded, runVars, loopVars, captureVars
  <2>2. CASE StartLoop(options.duration # "none")
    BY <2>2 DEF AppInv, FlagTypes, LoopAgrees, Succeeded, StartLoop, captureVars
  <2>3. QED
    BY <2>1, <2>2 DEF Build
<1>2. exitCode' # "success"
  <2>1. exitCode # "success"
    BY DEF AppInv, ExitAgrees, Build, BuildOrder
  <2>2. \A code \in FailureCodes[stage] : code # "success"
    BY DEF Build, BuildOrder, FailureCodes
  <2>3. QED
    BY <2>1, <2>2 DEF Build, Exit
<1>3. exitCode' # "none" => stage' = "exited"
  <2>1. exitCode = "none"
    BY DEF AppInv, ExitAgrees, Build, BuildOrder
  <2>2. QED
    BY <2>1 DEF Build, Exit
<1>4. QED
  BY <1>1, <1>2, <1>3 DEF AppInv, ExitAgrees

LEMMA StepAgrees == AppInv /\ [ApplicationNext]_applicationVars => AppInv'
<1> SUFFICES ASSUME AppInv, [ApplicationNext]_applicationVars
             PROVE  AppInv'
  OBVIOUS
<1> USE DEF AppInv
<1>1. CASE ParseCommandLine
  <2>1. FlagTypes' /\ LoopAgrees'
    BY <1>1 DEF ParseCommandLine, FlagTypes, LoopAgrees, Succeeded, runVars, loopVars, captureVars
  <2>2. ExitAgrees'
    BY <1>1 DEF ParseCommandLine, ExitAgrees
  <2>3. QED
    BY <2>1, <2>2
<1>2. CASE RunApplication
  <2>1. FlagTypes' /\ LoopAgrees'
    BY <1>2 DEF RunApplication, FlagTypes, LoopAgrees, Succeeded, runVars, loopVars, captureVars
  <2>2. exitCode = "none"
    BY <1>2 DEF RunApplication, ExitAgrees
  <2>3. parsed' = parsed /\ (parsed = "live_capture" => exitCode' = exitCode)
    BY <1>2 DEF RunApplication, lineVars
  <2>4. exitCode' # "none" => stage' = "exited"
    BY <1>2, <2>2 DEF RunApplication, Exit
  <2>5. QED
    BY <2>1, <2>2, <2>3, <2>4 DEF ExitAgrees
<1>3. CASE \E i \in DOMAIN BuildOrder : Build(i)
  BY <1>3, BuildAgrees
<1>4. CASE RunLoop(RunNext)
  <2>1. FlagTypes' /\ LoopAgrees'
    BY <1>4, LoopStepAgrees DEF RunLoop
  <2>2. ExitAgrees'
    BY <1>4 DEF RunLoop, ExitAgrees
  <2>3. QED
    BY <2>1, <2>2
<1>5. CASE RunLiveReturns
  <2>1. FlagTypes' /\ LoopAgrees'
    BY <1>5 DEF RunLiveReturns, FlagTypes, LoopAgrees, Succeeded, captureVars
  <2>2. exitCode' = "success" =>
          loopTerminal /\ loopError = "none" /\ Succeeded(error, stopRequested, writerFailed)
    BY <1>5 DEF RunLiveReturns, Exit, ExitCode
  <2>3. ExitAgrees'
    BY <1>5, <2>2 DEF RunLiveReturns, Exit, ExitAgrees, Succeeded, captureVars
  <2>4. QED
    BY <2>1, <2>3
<1>6. CASE UNCHANGED applicationVars
  <2>1. FlagTypes' /\ LoopAgrees'
    BY <1>6 DEF applicationVars, FlagTypes, LoopAgrees, Succeeded, runVars, loopVars, captureVars
  <2>2. ExitAgrees'
    BY <1>6 DEF applicationVars, ExitAgrees, Succeeded, runVars, loopVars, captureVars, lineVars
  <2>3. QED
    BY <2>1, <2>2
<1>7. QED
  BY <1>1, <1>2, <1>3, <1>4, <1>5, <1>6 DEF ApplicationNext

-----------------------------------------------------------------------------
(* Whatever the arguments, whichever part cannot be built, in whatever     *)
(* order signals, duration, failures and the end of the capture arrive,    *)
(* and however many signals there are: a live run that exits with 0 was    *)
(* asked to end, ended as its controller and its writer should, and        *)
(* reached the exchange if it ran for its whole duration.                  *)
THEOREM ExitZeroAlwaysEarned == ApplicationSpec => []ExitZeroIsEarned
<1>1. AppInv => ExitZeroIsEarned
  BY DEF AppInv, FlagTypes, LoopAgrees, ExitAgrees, ExitZeroIsEarned, Succeeded
<1>2. QED
  BY <1>1, StartAgrees, StepAgrees, PTL DEF ApplicationSpec
=============================================================================
