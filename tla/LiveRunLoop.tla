---------------------------- MODULE LiveRunLoop ----------------------------
(***************************************************************************)
(* LiveRunLoop (live_run_loop.cpp) around the controller.  Signals and the *)
(* duration timer ask the controller to stop; the controller, here as      *)
(* CaptureRun promises, calls back from inside finalize_run when the run   *)
(* is over; the I/O context then runs out of work.  Either wait may fail,  *)
(* a stop may be impossible to post, and a completion already queued on    *)
(* the I/O thread can no longer be cancelled.                              *)
(***************************************************************************)
EXTENDS CaptureRun, Naturals, Sequences

CONSTANT MaxSignals   \* bound on the signals that arrive

ASSUME MaxSignalsAssumption == MaxSignals \in Nat

VARIABLES io,                \* the I/O context: idle, running or stopped
          signalWait,        \* async_wait on the signal set is pending
          durationWait,      \* async_wait on the duration timer is pending
          ready,             \* completions queued on the I/O thread
          stopStarted, durationExpired,
          signalsReceived, repeatedSignals,
          loopError,         \* result.error of the loop
          loopTerminal       \* terminal of the loop

waitVars == <<signalWait, durationWait>>
signalVars == <<signalsReceived, repeatedSignals>>
loopVars ==
  <<io, waitVars, ready, stopStarted, durationExpired, signalVars, loopError, loopTerminal>>
runVars == <<captureVars, loopVars>>

LoopInit ==
  /\ CaptureInit
  /\ io = "idle"
  /\ signalWait = FALSE
  /\ durationWait = FALSE
  /\ ready = << >>
  /\ stopStarted = FALSE
  /\ durationExpired = FALSE
  /\ signalsReceived = 0
  /\ repeatedSignals = 0
  /\ loopError = "none"
  /\ loopTerminal = FALSE

(* start, then io_context.run: the waits are armed, the one for the end of *)
(* --duration if it is given, and the controller has started.              *)
StartLoop(hasDuration) ==
  /\ io = "idle"
  /\ io' = "running"
  /\ signalWait' = TRUE
  /\ durationWait' = hasDuration
  /\ UNCHANGED <<captureVars, ready, stopStarted, durationExpired, signalVars,
                 loopError, loopTerminal>>

-----------------------------------------------------------------------------
LatchControlError(cause) == IF loopError = "none" THEN cause ELSE loopError

(* A run of full duration that never connected; a mutant lets it pass.     *)
NeverMissed(cause, failed) == FALSE
DurationMissed(cause, failed) ==
  durationExpired /\ Succeeded(cause, stopRequested, failed) /\ ~ connected

(* The waits are cancelled; a mutant forgets the signals.                  *)
CancelDurationOnly == durationWait' = FALSE /\ UNCHANGED signalWait
CancelWaits == durationWait' = FALSE /\ signalWait' = FALSE

OnCaptureTerminal ==
  /\ loopTerminal' = TRUE
  /\ loopError' = IF DurationMissed(error', writerFailed')
                  THEN LatchControlError("no_successful_connection") ELSE loopError
  /\ CancelWaits
  /\ UNCHANGED <<io, ready, stopStarted, durationExpired, signalVars>>

(* The controller by itself; its end calls the loop back.                  *)
ControllerRuns == io = "running" /\ (ConnectionOpens \/ WriterFails) /\ UNCHANGED loopVars

ControllerEnds == io = "running" /\ RunEnds /\ OnCaptureTerminal

WaitResults == {"ok", "error"}

SignalArrives ==
  /\ io = "running"
  /\ signalWait
  /\ signalsReceived < MaxSignals
  /\ signalWait' = FALSE
  /\ \E result \in WaitResults : ready' = Append(ready, <<"signal", result>>)
  /\ UNCHANGED <<captureVars, io, durationWait, stopStarted, durationExpired,
                 signalVars, loopError, loopTerminal>>

DurationExpires ==
  /\ io = "running"
  /\ durationWait
  /\ durationWait' = FALSE
  /\ \E result \in WaitResults : ready' = Append(ready, <<"duration", result>>)
  /\ UNCHANGED <<captureVars, io, signalWait, stopStarted, durationExpired,
                 signalVars, loopError, loopTerminal>>

(* request_stop of the loop.  The flag of the controller is set before its *)
(* handler is posted; where that throws, the I/O context is stopped.       *)
LoopRequestStop(cause) ==
  /\ stopStarted' = TRUE
  /\ RequestStop
  /\ \/ io' = io /\ loopError' = cause
     \/ /\ io' = "stopped"
        /\ loopError' = IF cause = "none" THEN "stop_request_failure" ELSE cause

(* The wait for the next signal is armed before the stop is requested.     *)
OnSignal(result) ==
  /\ IF result = "ok"
     THEN /\ signalsReceived' = signalsReceived + 1
          /\ repeatedSignals' = IF stopStarted THEN repeatedSignals + 1 ELSE repeatedSignals
          /\ signalWait' \in BOOLEAN
     ELSE UNCHANGED <<signalWait, signalVars>>
  /\ LoopRequestStop(IF signalWait' THEN loopError
                     ELSE LatchControlError("signal_wait_failure"))
  /\ UNCHANGED <<durationWait, durationExpired, loopTerminal>>

OnDuration(result) ==
  /\ durationExpired' = (result = "ok")
  /\ LoopRequestStop(IF result = "ok" THEN loopError
                     ELSE LatchControlError("duration_wait_failure"))
  /\ UNCHANGED <<waitVars, signalVars, loopTerminal>>

(* The I/O thread runs the next completion; once the loop is terminal both *)
(* handlers return at once.                                                *)
RunReady ==
  /\ io = "running"
  /\ ready # << >>
  /\ ready' = Tail(ready)
  /\ \/ /\ loopTerminal
        /\ UNCHANGED <<captureVars, io, waitVars, stopStarted, durationExpired, signalVars,
                       loopError, loopTerminal>>
     \/ ~ loopTerminal /\ Head(ready)[1] = "signal" /\ OnSignal(Head(ready)[2])
     \/ ~ loopTerminal /\ Head(ready)[1] = "duration" /\ OnDuration(Head(ready)[2])

RunNext ==
  \/ ControllerRuns \/ ControllerEnds
  \/ SignalArrives \/ DurationExpires
  \/ RunReady

(* io_context.run has nothing left to run, or was stopped.                 *)
RunReturns ==
  \/ io = "stopped"
  \/ io = "running" /\ loopTerminal /\ ready = << >> /\ ~ signalWait /\ ~ durationWait

(* live_exit_code, once io_context.run has returned.                       *)
ExitCode ==
  CASE loopError = "none" /\ Succeeded(error, stopRequested, writerFailed) -> "success"
    [] error = "writer_failure" \/ writerFailed -> "output"
    [] OTHER -> "processing"
=============================================================================
