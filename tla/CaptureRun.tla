----------------------------- MODULE CaptureRun -----------------------------
(***************************************************************************)
(* What LiveCaptureController promises to its owner: a run that may        *)
(* connect, whose writer may fail, that ends when it is asked to stop and  *)
(* may end by itself, and whose result says why.  CaptureController is     *)
(* shown to implement it, and LiveRunLoop is built on it.                  *)
(***************************************************************************)
CONSTANT Errors          \* the errors of LiveCaptureErrorCode that can occur

ASSUME ErrorsAssumption == {"none", "writer_failure"} \subseteq Errors

VARIABLES terminal,
          stopRequested,
          connected,     \* successful_connections > 0
          writerFailed,
          error          \* result.error, of a run that is over

captureVars == <<terminal, stopRequested, connected, writerFailed, error>>

CaptureInit ==
  /\ terminal = FALSE
  /\ stopRequested = FALSE
  /\ connected = FALSE
  /\ writerFailed = FALSE
  /\ error = "none"

ConnectionOpens ==
  /\ ~ terminal
  /\ connected' = TRUE
  /\ UNCHANGED <<terminal, stopRequested, writerFailed, error>>

WriterFails ==
  /\ ~ terminal
  /\ writerFailed' = TRUE
  /\ UNCHANGED <<terminal, stopRequested, connected, error>>

RequestStop ==
  /\ ~ terminal
  /\ stopRequested' = TRUE
  /\ UNCHANGED <<terminal, connected, writerFailed, error>>

(* LiveCaptureResult::success, of the result finalize_run hands over.      *)
Succeeded(cause, stopped, failed) == cause = "none" /\ stopped /\ ~ failed

(* The run ends.  The writer may still fail while it drains.               *)
RunEnds ==
  /\ ~ terminal
  /\ terminal' = TRUE
  /\ error' \in Errors
  /\ writerFailed' \in {writerFailed, TRUE}
  /\ error' = "none" => Succeeded(error', stopRequested, writerFailed')
  /\ error' = "writer_failure" => writerFailed'
  /\ UNCHANGED <<stopRequested, connected>>

CaptureNext == ConnectionOpens \/ WriterFails \/ RequestStop \/ RunEnds

(* A requested stop ends the run.                                          *)
CaptureSpec ==
  /\ CaptureInit
  /\ [][CaptureNext]_captureVars
  /\ WF_captureVars(stopRequested /\ RunEnds)
=============================================================================
