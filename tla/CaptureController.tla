------------------------- MODULE CaptureController -------------------------
(***************************************************************************)
(* LiveCaptureController (live_capture_controller.cpp): one session after  *)
(* another, the pause and resume handshake with the writer, the timers,    *)
(* failure and the end of the run.  Everything runs on the I/O thread, as  *)
(* handlers of the queue of WebSocketSession; a session that ends calls    *)
(* on_session_terminal from inside finish, in the same step.               *)
(*                                                                         *)
(* A session that was reset is a session in state "terminal": the handlers *)
(* it left behind find that state and return, so they are dropped from the *)
(* queue.  The writer is the one of CsvWriter, reduced to what the         *)
(* controller asks of it: how full it is ("low": below the resume          *)
(* watermark, "high": at the pause watermark), whether it failed, whether  *)
(* a resume notification is armed.  The pipeline accepts a message,        *)
(* rejects it or fails.  Exceptions of Asio, which only lack of memory     *)
(* raises, are left out, except for a notification that cannot be posted.  *)
(***************************************************************************)
EXTENDS WebSocketSession

CONSTANTS MaxGeneration,   \* largest session number, 2^64 - 1 in the code
          MaxEpoch,        \* largest connection epoch, 2^64 - 1 in the code
          MaxAttempt       \* where reconnect_attempt saturates, 2^64 - 1

ASSUME MaxGenerationAssumption == MaxGeneration \in Nat \ {0}
ASSUME MaxEpochAssumption == MaxEpoch \in Nat
ASSUME MaxAttemptAssumption == MaxAttempt \in Nat \ {0}

kMessagePolicyBreakerLimit == 3

VARIABLES
  generation, nextEpoch,        \* next_connection_epoch
  sessionEpoch,                 \* connection_epoch of the current session
  attempt,                      \* reconnect_attempt
  policyFailures,               \* consecutive_message_policy_failures
  connections,                  \* successful_connections
  sessionOpen, epochExhausted, readsPaused, failureLatched,
  stopRequested, terminal,
  error,                        \* result.error
  timers,                       \* the timers that are armed
  level, writerFailed, armed,   \* the writer
  resumePostFailed,
  lastOpened,                   \* history: epoch of the last session to open
  pauses                        \* history: parity of the number of pauses

epochVars == <<generation, nextEpoch, sessionEpoch, connections, epochExhausted, lastOpened>>
writerVars == <<level, writerFailed, armed, resumePostFailed>>
pauseVars == <<readsPaused, pauses>>
endVars == <<failureLatched, terminal, error>>
controllerVars ==
  <<session, queue, epochVars, attempt, policyFailures, sessionOpen, pauseVars,
    endVars, stopRequested, timers, writerVars>>

NoSession == [NewSession EXCEPT !.state = "terminal"]
HasSession == session.state # "terminal"

(* The state after start: create has made the first session.               *)
ControllerInit ==
  /\ session = Start(NewSession)
  /\ queue = << >>
  /\ generation = 1
  /\ nextEpoch = 0
  /\ sessionEpoch = 0
  /\ attempt = 0
  /\ policyFailures = 0
  /\ connections = 0
  /\ sessionOpen = FALSE
  /\ epochExhausted = FALSE
  /\ readsPaused = FALSE
  /\ failureLatched = FALSE
  /\ stopRequested = FALSE
  /\ terminal = FALSE
  /\ error = "none"
  /\ timers = {}
  /\ level = "low"
  /\ writerFailed = FALSE
  /\ armed = FALSE
  /\ resumePostFailed = FALSE
  /\ lastOpened = -1
  /\ pauses = 0

-----------------------------------------------------------------------------
RecoverableSessionError ==
  {"resolve_failure", "connect_failure", "websocket_handshake_failure",
   "tls_handshake_failure", "read_failure", "incomplete_message",
   "binary_message", "message_too_big", "remote_close", "timeout"}

PolicyErrors == {"binary_message", "message_too_big"}

(* The handlers of the queue that do not belong to a session.              *)
IsControllerHandler(handler) ==
  handler.op \notin {"connect", "read", "deadline", "close", "sessionStop"}
Remaining == SelectSeq(Tail(queue), IsControllerHandler)

(* The error of the result; a mutant overlooks the writer's failure.       *)
FinalErrorWithoutWriter(cause, failed) == cause
FinalError(cause, failed) == IF cause = "none" /\ failed THEN "writer_failure" ELSE cause

(* finalize_run: cancel the timers, join the writer, report.  The writer   *)
(* may still fail while it drains.                                         *)
FinalizeRun(latched, cause) ==
  /\ terminal' = TRUE
  /\ failureLatched' = latched
  /\ timers' = {}
  /\ \E joinFails \in BOOLEAN :
       /\ writerFailed' = (writerFailed \/ joinFails)
       /\ error' = FinalError(cause, writerFailed')
  /\ level' = "low"
  /\ armed' = FALSE
  /\ UNCHANGED resumePostFailed

NextAttempt == IF attempt = MaxAttempt THEN attempt ELSE attempt + 1

(* Mutant: the timer is not armed.                                         *)
ScheduleReconnectUnarmed ==
  /\ attempt' = NextAttempt
  /\ timers' = {}
  /\ UNCHANGED <<endVars, writerVars>>

(* The delay is left out: the timer expires at any later time.             *)
ScheduleReconnect ==
  /\ attempt' = NextAttempt
  /\ timers' = {"reconnect"}
  /\ UNCHANGED <<endVars, writerVars>>

(* During a stop, a session may end in any of these ways.                  *)
ExpectedStopResult(s) ==
  \/ s.code \in {"none", "cancelled"} \cup RecoverableSessionError
  \/ s.stage = "closing" /\ s.code \in {"close_failure", "timeout"}

(* on_session_terminal for a session that ended as s, when the failure     *)
(* latch and the error are latched and cause.                              *)
OnSessionTerminal(s, latched, cause) ==
  LET failures == IF s.code \in PolicyErrors THEN policyFailures + 1 ELSE policyFailures
      broken == failures >= kMessagePolicyBreakerLimit
      nowLatched == latched \/ broken \/ resumePostFailed
      nowCause == IF resumePostFailed THEN "resume_notification_failure"
                  ELSE IF broken THEN "message_policy_breaker" ELSE cause
  IN  /\ session' = NoSession
      /\ queue' = Remaining
      /\ readsPaused' = FALSE
      /\ sessionOpen' = FALSE
      /\ policyFailures' = failures
      /\ IF nowLatched \/ (stopRequested /\ ExpectedStopResult(s))
         THEN FinalizeRun(nowLatched, nowCause) /\ UNCHANGED attempt
         ELSE IF stopRequested \/ s.code \notin RecoverableSessionError
         THEN FinalizeRun(TRUE, "session_failure") /\ UNCHANGED attempt
         ELSE IF epochExhausted
         THEN FinalizeRun(TRUE, "connection_epoch_overflow") /\ UNCHANGED attempt
         ELSE ScheduleReconnect
      /\ UNCHANGED <<epochVars, pauses, stopRequested>>

(* fail, and the body of request_stop_on_io: end the session, if there is  *)
(* one, or the run.  A session that is still connecting ends at once.      *)
EndSession(s, latched, cause, handlers) ==
  LET stopped == Stop(s)
  IN  IF ~ HasSession
      THEN /\ FinalizeRun(latched, cause)
           /\ queue' = handlers
           /\ UNCHANGED <<session, epochVars, attempt, policyFailures,
                          sessionOpen, pauseVars, stopRequested>>
      ELSE IF stopped.state = "terminal"
      THEN OnSessionTerminal(stopped, latched, cause)
      ELSE /\ session' = stopped
           /\ queue' = handlers
           /\ failureLatched' = latched
           /\ error' = cause
           /\ timers' = timers \ {"reconnect", "stability"}
           /\ UNCHANGED <<epochVars, attempt, policyFailures, sessionOpen,
                          pauseVars, terminal, stopRequested, writerVars>>

Ignore ==
  /\ queue' = Tail(queue)
  /\ UNCHANGED <<session, epochVars, attempt, policyFailures, sessionOpen,
                 pauseVars, endVars, stopRequested, timers, writerVars>>

Fail(s, cause) ==
  IF failureLatched \/ terminal THEN Ignore
  ELSE EndSession(PauseReads(s), TRUE, cause, Tail(queue))

(* pause_for_backpressure on an open session, when the writer is at fill.  *)
(* arm_resume_notification does nothing once the writer has failed.        *)
PausesAt(fill) == fill = "high" /\ ~ readsPaused /\ ~ failureLatched

(* A mutant does not ask for the notification.                             *)
NotArmed == armed
ArmedByPause == armed \/ ~ writerFailed

AfterMessage(s, fill) ==
  /\ IF PausesAt(fill)
     THEN /\ session' = ContinueReading(PauseReads(s))
          /\ readsPaused' = TRUE
          /\ pauses' = 1 - pauses
          /\ armed' = ArmedByPause
     ELSE /\ session' = ContinueReading(s)
          /\ UNCHANGED <<pauseVars, armed>>
  /\ UNCHANGED <<writerFailed, resumePostFailed>>

WithBackpressure(fill) == IF PausesAt(fill) THEN {"backpressure"} ELSE {}

-----------------------------------------------------------------------------
(* Handlers of the session, with the callbacks of the controller.          *)

(* The epoch of the session after this one; a mutant does not count.       *)
SameEpoch == nextEpoch
EpochAfter == IF nextEpoch = MaxEpoch THEN nextEpoch ELSE nextEpoch + 1

OnOpen(s) ==
  /\ sessionOpen' = TRUE
  /\ connections' = connections + 1
  /\ lastOpened' = sessionEpoch
  /\ epochExhausted' = (epochExhausted \/ nextEpoch = MaxEpoch)
  /\ nextEpoch' = EpochAfter
  /\ IF stopRequested
     THEN /\ session' = Stop(s)
          /\ timers' = timers \ {"reconnect", "stability"}
          /\ UNCHANGED <<pauseVars, writerVars>>
     ELSE /\ AfterMessage(s, level)
          /\ timers' = timers \cup {"stability"} \cup WithBackpressure(level)
          /\ UNCHANGED level
  /\ queue' = Tail(queue)
  /\ UNCHANGED <<generation, sessionEpoch, attempt, policyFailures, endVars, stopRequested>>

(* A step of the session that calls nothing back, or on_terminal.          *)
SessionStep(s) ==
  IF s.state = "terminal" /\ HasSession
  THEN OnSessionTerminal(s, failureLatched, error)
  ELSE /\ session' = s
       /\ queue' = Tail(queue)
       /\ UNCHANGED <<epochVars, attempt, policyFailures, sessionOpen, pauseVars,
                      endVars, stopRequested, timers, writerVars>>

HandleConnect ==
  /\ IsNext("connect")
  /\ LET s == OnConnectStage(session, Head(queue).of, Head(queue).result)
     IN  IF s.state = "open" /\ session.state # "open" THEN OnOpen(s) ELSE SessionStep(s)

(* on_text_message.  A published row may fill the writer up; CsvWriter     *)
(* shows that a slot is always free for an unpaused session.               *)
PublishRow(s) ==
  \E fill \in {level, "mid", "high"} :
    /\ level = "high" => fill = "high"
    /\ AfterMessage(s, fill)
    /\ level' = fill
    /\ policyFailures' = 0
    /\ timers' = timers \cup WithBackpressure(fill)
    /\ queue' = Tail(queue)
    /\ UNCHANGED <<epochVars, attempt, sessionOpen, endVars, stopRequested>>

OnTextMessage(s) ==
  \/ writerFailed /\ Fail(s, "writer_failure")
  \/ ~ writerFailed /\ Fail(s, "pipeline_failure")
  \/ ~ writerFailed /\ SessionStep(ContinueReading(s))
  \/ ~ writerFailed /\ PublishRow(s)
  \/ ~ writerFailed /\ Fail(s, "writer_publish_failure")

HandleRead ==
  /\ IsNext("read")
  /\ LET s == OnRead(session, Head(queue).result)
     IN  IF s.state = "open" /\ ~ failureLatched THEN OnTextMessage(s)
         ELSE SessionStep(ContinueReading(s))

HandleDeadline ==
  /\ IsNext("deadline")
  /\ SessionStep(OnDeadline(session, Head(queue).of))

HandleClose ==
  /\ IsNext("close")
  /\ SessionStep(OnClose(session, Head(queue).result # "ok"))

(* The stop that post_resume_from_writer dispatches when it cannot post.   *)
HandleSessionStop ==
  /\ IsNext("sessionStop")
  /\ SessionStep(Stop(session))

-----------------------------------------------------------------------------
(* Handlers of the controller's own timers and posts.                      *)

(* The checks of the timer's handler; in a mutant they forget that the     *)
(* session of this generation may be over.                                 *)
StableByGeneration == ~ terminal /\ Head(queue).of = generation
IsStable == ~ terminal /\ Head(queue).of = generation /\ sessionOpen

HandleStability ==
  /\ IsNext("stability")
  /\ IF ~ IsStable THEN Ignore
     ELSE /\ attempt' = 0
          /\ queue' = Tail(queue)
          /\ UNCHANGED <<session, epochVars, policyFailures, sessionOpen,
                         pauseVars, endVars, stopRequested, timers, writerVars>>

EndWithoutSession(latched, cause) ==
  /\ FinalizeRun(latched, cause)
  /\ queue' = Tail(queue)
  /\ UNCHANGED <<session, epochVars, attempt, policyFailures, sessionOpen,
                 pauseVars, stopRequested>>

Connect ==
  /\ generation' = generation + 1
  /\ sessionEpoch' = nextEpoch
  /\ session' = Start(NewSession)
  /\ queue' = Tail(queue)
  /\ UNCHANGED <<nextEpoch, connections, epochExhausted, lastOpened, attempt,
                 policyFailures, sessionOpen, pauseVars, endVars, stopRequested,
                 timers, writerVars>>

(* create_session fails; the session was already counted.                  *)
ConnectFails ==
  /\ FinalizeRun(TRUE, "session_failure")
  /\ generation' = generation + 1
  /\ queue' = Tail(queue)
  /\ UNCHANGED <<session, nextEpoch, sessionEpoch, connections, epochExhausted, lastOpened,
                 attempt, policyFailures, sessionOpen, pauseVars, stopRequested>>

MayReconnect == ~ stopRequested

OnReconnectTimer ==
  CASE terminal -> Ignore
    [] ~ terminal /\ Head(queue).result # "ok" ->
         EndWithoutSession(TRUE, "reconnect_scheduling_failure")
    [] ~ terminal /\ Head(queue).result = "ok" /\ ~ MayReconnect ->
         EndWithoutSession(failureLatched, error)
    [] ~ terminal /\ Head(queue).result = "ok" /\ MayReconnect
         /\ generation = MaxGeneration ->
         EndWithoutSession(TRUE, "reconnect_scheduling_failure")
    [] OTHER -> Connect \/ ConnectFails

HandleReconnect == IsNext("reconnect") /\ OnReconnectTimer

(* Mutant: the timer of the pause stays armed.                             *)
ResumeWithTimer ==
  /\ readsPaused' = FALSE
  /\ session' = ResumeReads(session)
  /\ queue' = Tail(queue)
  /\ UNCHANGED <<epochVars, attempt, policyFailures, sessionOpen, pauses,
                 endVars, stopRequested, timers, writerVars>>

Resume ==
  /\ readsPaused' = FALSE
  /\ timers' = timers \ {"backpressure"}
  /\ session' = ResumeReads(session)
  /\ queue' = Tail(queue)
  /\ UNCHANGED <<epochVars, attempt, policyFailures, sessionOpen, pauses,
                 endVars, stopRequested, writerVars>>

Rearm ==
  /\ armed' = TRUE
  /\ queue' = Tail(queue)
  /\ UNCHANGED <<session, epochVars, attempt, policyFailures, sessionOpen,
                 pauseVars, endVars, stopRequested, timers, level, writerFailed,
                 resumePostFailed>>

OnWriterResume ==
  CASE terminal -> Ignore
    [] ~ terminal /\ resumePostFailed -> Fail(session, "resume_notification_failure")
    [] ~ terminal /\ ~ resumePostFailed /\ writerFailed -> Fail(session, "writer_failure")
    [] ~ terminal /\ ~ resumePostFailed /\ ~ writerFailed /\ ~ readsPaused -> Ignore
    [] OTHER -> IF level = "low" THEN Resume ELSE Rearm

HandleResume == IsNext("resume") /\ OnWriterResume

HandleBackpressure ==
  /\ IsNext("backpressure")
  /\ IF terminal \/ ~ readsPaused THEN Ignore
     ELSE Fail(session, IF writerFailed THEN "writer_failure" ELSE "backpressure_timeout")

HandleStop ==
  /\ IsNext("stop")
  /\ IF terminal THEN Ignore
     ELSE EndSession(session, failureLatched, error, Tail(queue))

ControllerHandler ==
  \/ HandleConnect \/ HandleRead \/ HandleDeadline \/ HandleClose \/ HandleSessionStop
  \/ HandleStability \/ HandleReconnect \/ HandleResume \/ HandleBackpressure
  \/ HandleStop

-----------------------------------------------------------------------------
(* What happens outside the I/O thread: the network, the clock, the writer *)
(* thread, and the owner that calls stop.                                  *)

notSession ==
  <<epochVars, attempt, policyFailures, sessionOpen, pauseVars, endVars,
    stopRequested, timers, writerVars>>

Network == HasSession /\ Completions /\ UNCHANGED notSession

SessionDeadline == DeadlineExpires /\ UNCHANGED notSession

TimerExpires(timer) ==
  /\ timer \in timers
  /\ timers' = timers \ {timer}
  /\ \E result \in IF timer = "reconnect" THEN {"ok", "error"} ELSE {"ok"} :
       Post(Handler(timer, IF timer = "stability" THEN generation ELSE pauses, result))
  /\ UNCHANGED <<session, epochVars, attempt, policyFailures, sessionOpen,
                 pauseVars, endVars, stopRequested, writerVars>>

(* post_resume_from_writer, from the writer thread.                        *)
PostResume ==
  \/ Post(Handler("resume", 0, "ok")) /\ UNCHANGED resumePostFailed
  \/ /\ resumePostFailed' = TRUE
     /\ IF HasSession THEN Post(Handler("sessionStop", 0, "ok")) ELSE UNCHANGED queue

outsideVars ==
  <<session, epochVars, attempt, policyFailures, sessionOpen, pauseVars, endVars,
    stopRequested, timers>>

WriterDrains ==
  /\ ~ terminal
  /\ ~ writerFailed
  /\ level # "low"
  /\ level' = IF level = "high" THEN "mid" ELSE "low"
  /\ IF level' = "low" /\ armed
     THEN armed' = FALSE /\ PostResume
     ELSE UNCHANGED <<armed, queue, resumePostFailed>>
  /\ UNCHANGED <<writerFailed, outsideVars>>

WriterFails ==
  /\ ~ terminal
  /\ ~ writerFailed
  /\ writerFailed' = TRUE
  /\ PostResume
  /\ UNCHANGED <<level, armed, outsideVars>>

(* stop.  A repeated call is left out: it posts another handler, which     *)
(* finds the run over or the session closing and changes nothing.          *)
CallStop ==
  /\ ~ terminal
  /\ ~ stopRequested
  /\ stopRequested' = TRUE
  /\ Post(Handler("stop", 0, "ok"))
  /\ UNCHANGED <<session, epochVars, attempt, policyFailures, sessionOpen,
                 pauseVars, endVars, timers, writerVars>>

Timers == {"backpressure", "reconnect", "stability"}

ControllerNext ==
  \/ ControllerHandler
  \/ Network \/ SessionDeadline
  \/ \E timer \in Timers : TimerExpires(timer)
  \/ WriterDrains \/ WriterFails
  \/ CallStop

(* The I/O thread runs and clocks advance; the peer, the writer and the    *)
(* user owe nothing.                                                       *)
ControllerFairness ==
  /\ WF_controllerVars(ControllerHandler)
  /\ WF_controllerVars(SessionDeadline)
  /\ WF_controllerVars(TimerExpires("reconnect"))

ControllerSpec ==
  ControllerInit /\ [][ControllerNext]_controllerVars /\ ControllerFairness

-----------------------------------------------------------------------------
(* No connection is attempted once a stop was requested or a failure       *)
(* latched, even when the reconnect timer had already expired and its      *)
(* handler was queued ahead of the stop.  And until the next session opens *)
(* the failure before it counts towards the back-off: the stability timer  *)
(* of the lost session, expired but not yet handled, does not reset it     *)
(* (DESIGN.md:802).                                                        *)
ReconnectsAreDue ==
  [][generation' # generation =>
       /\ ~ stopRequested /\ ~ failureLatched /\ ~ terminal
       /\ attempt > 0]_controllerVars

(* Sessions that deliver messages have distinct, increasing epochs, up to  *)
(* and including the last representable one; a session that never opened   *)
(* gives its epoch to the next.                                            *)
OpenEpochsIncrease ==
  [][connections' # connections => lastOpened' > lastOpened]_controllerVars

(* The controller and the session agree on whether reads are paused: no    *)
(* session is left paused by a pause or resume meant for another.  While   *)
(* an open session is paused, both ways out are still ahead: the           *)
(* backpressure timeout, and a resume that is armed or on its way.         *)
PauseIsSharedAndWatched ==
  /\ session.state = "open" /\ ~ failureLatched => session.paused = readsPaused
  /\ session.state = "open" /\ readsPaused =>
       /\ "backpressure" \in timers \/ Queued("backpressure")
       /\ armed \/ Queued("resume") \/ resumePostFailed

(* A backpressure timeout fails the run only for the pause it was armed    *)
(* for, though its handler checks no more than that some pause is on.      *)
TimeoutOfThisPause ==
  [][error' = "backpressure_timeout" /\ error # error' =>
       Head(queue).of = pauses]_controllerVars

(* What the owner of the controller sees: its error counts once the run is *)
(* over.                                                                   *)
LiveCaptureErrorCode ==
  {"none", "session_failure", "pipeline_failure", "writer_failure",
   "writer_publish_failure", "backpressure_timeout", "message_policy_breaker",
   "resume_notification_failure", "reconnect_scheduling_failure",
   "connection_epoch_overflow"}

Owner == INSTANCE CaptureRun WITH
  Errors <- LiveCaptureErrorCode,
  connected <- connections > 0,
  error <- IF terminal THEN error ELSE "none"

(* The controller keeps its promise to LiveRunLoop: it ends once, with a   *)
(* result that tells a success from a failure and the writer's failure     *)
(* from others, and a requested stop always ends it.                       *)
ImplementsCaptureRun == Owner!CaptureSpec

(* The run is never stranded: a requested stop and a latched failure both  *)
(* end it, whatever the session is doing and though the peer may never     *)
(* answer, and a session that fails is replaced, or the run ends.          *)
NeverStranded ==
  /\ stopRequested \/ failureLatched ~> terminal
  /\ ~ HasSession ~> HasSession \/ terminal
=============================================================================
