-------------------------- MODULE WebSocketSession --------------------------
(***************************************************************************)
(* One connection: VerifiedWebSocketSession in                             *)
(* verified_websocket_session.cpp.  A session resolves, connects, performs *)
(* the TLS and WebSocket handshakes, reads messages one at a time, and     *)
(* ends once, with a result, through finish.                               *)
(*                                                                         *)
(* Asio and Beast are external.  An operation that completes, or a timer   *)
(* that expires, puts its handler in the queue of the I/O context, and the *)
(* I/O thread runs the handlers in order; a handler that is queued can no  *)
(* longer be cancelled.  The session is a record, and each method of Impl  *)
(* an operator on it, so that the owner of a session (any owner here,      *)
(* LiveCaptureController in CaptureController) can act inside a callback.  *)
(***************************************************************************)
EXTENDS Integers, Sequences

CONSTANTS MaxSequence,    \* largest message number, 2^64 - 1 in the code
          MaxQueue,       \* bound on the handlers that are ready at a time
          Results         \* the results of connecting and reading that occur

ASSUME MaxSequenceAssumption == MaxSequence \in Nat

VARIABLES session,   \* the Impl of the session
          queue      \* handlers that are ready to run, oldest first

Connecting == <<"resolving", "connecting", "tls_handshaking", "websocket_handshaking">>
ConnectStates == {Connecting[i] : i \in 1 .. Len(Connecting)}

StageErrors ==
  [resolving |-> {"resolve_failure"},
   connecting |-> {"connect_failure", "sni_failure"},
   tls_handshaking |-> {"tls_handshake_failure", "tls_verification_failure"},
   websocket_handshaking |-> {"websocket_handshake_failure"}]

ReadErrors ==
  {"message_too_big", "remote_close", "incomplete_message", "read_failure"}
ReadResults == ReadErrors \cup {"text", "binary_message", "timestamp_failure"}

NewSession ==
  [state |-> "idle",
   reading |-> FALSE,         \* read_in_progress
   reads |-> 0,               \* reads Beast has been given and not completed
   paused |-> FALSE,          \* reads_paused
   controlFailed |-> FALSE,   \* control_callback_failed
   controlStop |-> FALSE,     \* stop_requested_during_control
   sequence |-> 0,            \* connection_sequence
   deadline |-> "off",        \* the state the armed deadline is for
   code |-> "none", stage |-> "none"]   \* the result, once terminal

-----------------------------------------------------------------------------
(* The methods of Impl.                                                    *)

Finish(s, code, stage) ==
  IF s.state = "terminal" THEN s
  ELSE [s EXCEPT !.state = "terminal", !.deadline = "off",
                 !.code = code, !.stage = stage]

(* Mutant: no deadline is armed.                                           *)
EnterWithoutDeadline(s, state) == [s EXCEPT !.state = state]

(* Move to a state that has a deadline; the timer's previous wait ends.    *)
Enter(s, state) == [s EXCEPT !.state = state, !.deadline = state]

Start(s) == IF s.state # "idle" THEN s ELSE Enter(s, Connecting[1])

(* Mutant: the deadline of any state ends the session.                     *)
OnDeadlineOfAnyState(s, expected) == Finish(s, "timeout", expected)

OnDeadline(s, expected) ==
  IF s.state # expected THEN s ELSE Finish(s, "timeout", expected)

IssueRead(s) ==
  IF s.state # "open" \/ s.reading THEN s
  ELSE [s EXCEPT !.reading = TRUE, !.reads = @ + 1]

(* A step of the connection has completed; the last one opens the session. *)
OnConnectStage(s, of, result) ==
  LET next == 1 + CHOOSE i \in 1 .. Len(Connecting) : Connecting[i] = of
  IN  IF s.state # of THEN s
      ELSE IF result # "ok" THEN Finish(s, result, of)
      ELSE IF next > Len(Connecting) THEN [s EXCEPT !.state = "open", !.deadline = "off"]
      ELSE Enter(s, Connecting[next])

(* Mutant: the next read is left to the owner.                             *)
ContinueWithoutReading(s) == s

(* After on_open or on_text_message has returned.                          *)
ContinueReading(s) ==
  IF s.state = "open" /\ ~ s.paused THEN IssueRead(s) ELSE s

(* The first half of on_read.  When it leaves the session open, it counts  *)
(* the message and hands it to on_text_message.                            *)
OnRead(s, result) ==
  LET t == [s EXCEPT !.reading = FALSE, !.reads = @ - 1]
      counted == [t EXCEPT !.sequence = @ + 1]
  IN  IF t.state # "open" THEN t
      ELSE IF t.controlFailed THEN Finish(t, "callback_failure", "read")
      ELSE IF t.controlStop THEN Finish(t, "cancelled", "read")
      ELSE IF result \in ReadErrors THEN Finish(t, result, "read")
      ELSE IF t.sequence = MaxSequence THEN Finish(t, "sequence_overflow", "read")
      ELSE IF result # "text" THEN Finish(counted, result, "read")
      ELSE counted

PauseReads(s) == IF s.state = "terminal" THEN s ELSE [s EXCEPT !.paused = TRUE]

ResumeReads(s) ==
  IF s.state = "terminal" THEN s ELSE IssueRead([s EXCEPT !.paused = FALSE])

Stop(s) ==
  CASE s.state \in {"terminal", "closing"} -> s
    [] s.state = "open" -> Enter(s, "closing")
    [] OTHER -> Finish(s, "cancelled", s.state)

OnClose(s, failed) ==
  IF s.state # "closing" THEN s
  ELSE IF s.controlFailed THEN Finish(s, "callback_failure", "closing")
  ELSE IF failed THEN Finish(s, "close_failure", "closing")
  ELSE Finish(s, "none", "closing")

-----------------------------------------------------------------------------
(* Asio and Beast: operations complete and the deadline expires.           *)

Handler(op, of, result) == [op |-> op, of |-> of, result |-> result]
Queued(op) == \E i \in 1 .. Len(queue) : queue[i].op = op
QueuedFor(op, of) == \E i \in 1 .. Len(queue) : queue[i].op = op /\ queue[i].of = of

Post(handler) ==
  /\ Len(queue) < MaxQueue
  /\ queue' = Append(queue, handler)

CompleteConnectStage ==
  /\ session.state \in ConnectStates
  /\ ~ QueuedFor("connect", session.state)
  /\ \E result \in Results \cap ({"ok"} \cup StageErrors[session.state]) :
       Post(Handler("connect", session.state, result))
  /\ UNCHANGED session

(* A read that completes once the session is closing is ignored, whatever  *)
(* its result: one result stands for all.                                  *)
CompleteRead ==
  /\ session.reads > 0
  /\ ~ Queued("read")
  /\ \E result \in IF session.state = "open" THEN Results \cap ReadResults
                  ELSE {"read_failure"} :
       Post(Handler("read", "open", result))
  /\ UNCHANGED session

CompleteClose ==
  /\ session.state = "closing"
  /\ ~ Queued("close")
  /\ \E result \in {"ok", "close_failure"} : Post(Handler("close", "closing", result))
  /\ UNCHANGED session

DeadlineExpires ==
  /\ session.deadline # "off"
  /\ Post(Handler("deadline", session.deadline, "timeout"))
  /\ session' = [session EXCEPT !.deadline = "off"]

Completions == CompleteConnectStage \/ CompleteRead \/ CompleteClose

(* The handler at the head of the queue runs.                              *)
IsNext(op) == queue # << >> /\ Head(queue).op = op
Run(op) == IsNext(op) /\ queue' = Tail(queue)

-----------------------------------------------------------------------------
(* A session and an arbitrary owner.  In a callback the owner may pause or *)
(* stop the session, or throw.                                             *)

Responses(s) == {s, PauseReads(s), Stop(s), Stop(PauseReads(s))}

AfterCallback(s, stage) ==
  {ContinueReading(r) : r \in Responses(s)}
    \cup {Finish(r, "callback_failure", stage) : r \in Responses(s)}

RunConnect ==
  /\ Run("connect")
  /\ LET s == OnConnectStage(session, Head(queue).of, Head(queue).result)
     IN  IF s.state = "open" /\ session.state # "open"
         THEN session' \in AfterCallback(s, "open") ELSE session' = s

RunRead ==
  /\ Run("read")
  /\ LET s == OnRead(session, Head(queue).result)
     IN  IF s.state = "open" THEN session' \in AfterCallback(s, "read")
         ELSE session' = s

RunDeadline ==
  /\ Run("deadline")
  /\ session' = OnDeadline(session, Head(queue).of)

RunClose ==
  /\ Run("close")
  /\ session' = OnClose(session, Head(queue).result # "ok")

(* on_control_frame: a control frame arrives inside a read or the close.   *)
(* If the owner throws or stops, the cancelled read finds the flag.        *)
OnControlFrame ==
  /\ \/ session.state = "open" /\ session.reading /\ ~ Queued("read")
     \/ session.state = "closing" /\ ~ Queued("close")
  /\ session' \in {[session EXCEPT !.controlFailed = TRUE],
                   [session EXCEPT !.controlStop = @ \/ session.state = "open"]}
  /\ UNCHANGED queue

OwnerCalls ==
  /\ session' \in {Start(session), PauseReads(session), ResumeReads(session)}
  /\ UNCHANGED queue

OwnerStops ==
  /\ session' = Stop(session)
  /\ UNCHANGED queue

RunHandler == RunConnect \/ RunRead \/ RunDeadline \/ RunClose

SessionInit == session = NewSession /\ queue = << >>

SessionNext ==
  \/ OwnerCalls \/ OwnerStops
  \/ CompleteConnectStage \/ CompleteRead \/ CompleteClose \/ DeadlineExpires
  \/ RunConnect \/ RunRead \/ RunDeadline \/ RunClose
  \/ OnControlFrame

sessionVars == <<session, queue>>

(* Handlers run and timers expire.  The peer need not do anything: only a  *)
(* read whose socket was cancelled is sure to complete.                    *)
SessionFairness ==
  /\ WF_sessionVars(RunHandler)
  /\ WF_sessionVars(DeadlineExpires)
  /\ WF_sessionVars((session.controlStop \/ session.controlFailed) /\ CompleteRead)

SessionSpec == SessionInit /\ [][SessionNext]_sessionVars /\ SessionFairness

-----------------------------------------------------------------------------
(* An open session that is not paused always has exactly one read with     *)
(* Beast, whatever order pauses, resumes, stops and completions come in:   *)
(* the stream neither stalls nor gets a second concurrent read.            *)
OneReadWhileOpen ==
  /\ session.state = "open" /\ ~ session.paused => session.reads = 1
  /\ session.reads = (IF session.reading THEN 1 ELSE 0)

(* A handler that was queued before its step was overtaken does no harm:   *)
(* a session ends by timeout only in the state whose deadline expired, and *)
(* once on_terminal has been called nothing changes its result, counts a   *)
(* message or reopens it.                                                  *)
LateHandlersAreHarmless ==
  [][/\ session'.state = "terminal" /\ session'.code = "timeout"
          => session.state \in {session'.stage, "terminal"}
     /\ session.state = "terminal" =>
          /\ session'.state = "terminal"
          /\ session'.code = session.code
          /\ session'.sequence = session.sequence]_sessionVars

(* A session never hangs, though the peer may never answer: one that       *)
(* connects opens or ends, and one that is closing, or whose owner stopped *)
(* it or threw from inside a control frame, ends.                          *)
SessionNeverHangs ==
  /\ session.state = Connecting[1] ~> session.state \in {"open", "closing", "terminal"}
  /\ session.state = "closing" \/ session.controlStop \/ session.controlFailed
       ~> session.state = "terminal"
=============================================================================
