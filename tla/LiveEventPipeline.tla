------------------------- MODULE LiveEventPipeline -------------------------
(***************************************************************************)
(* LiveEventPipeline::process (live_event_pipeline.cpp), seen from one of  *)
(* its symbols.  A complete WebSocket message is checked against the       *)
(* messages before it, its envelope is parsed and routed, and the payload  *)
(* goes to the event processor of the routed symbol.  The state of the     *)
(* symbol is the state of EventProcessor; the other symbols matter only    *)
(* because their messages move the connection of the pipeline.             *)
(*                                                                         *)
(* A WebSocket message is a record: the venue it comes from, the epoch and *)
(* sequence of its connection, whether timestamp and size are in range (wellFormed), the verdict on    *)
(* its envelope ("ok"; "routed": rejected after the stream name was known; *)
(* "unrouted"), the symbol it names, and the stream, parser verdict and    *)
(* event of its payload.                                                   *)
(***************************************************************************)
EXTENDS EventProcessor

CONSTANT Texts   \* the WebSocket messages process may be called with

VARIABLES hasConnection,   \* has_connection_metadata
          connection,      \* connection_epoch
          connectionSeq,   \* last_connection_sequence
          current,         \* the message process is working on, or NoText
          disposition      \* the LivePipelineDisposition of the last call

pipelineVars == <<hasConnection, connection, connectionSeq, current, disposition>>
liveVars == <<vars, pipelineVars>>

Envelopes == {"ok", "routed", "unrouted"}
NoText == [wellFormed |-> FALSE]

(* The EventContext built from the route: shard and symbol match.          *)
ToMessage(t) ==
  [venue |-> t.venue, epoch |-> t.epoch, seq |-> t.seq, matches |-> TRUE,
   stream |-> t.stream, parse |-> t.parse, event |-> t.event]

IsText(t) ==
  /\ t.wellFormed \in BOOLEAN
  /\ t.envelope \in Envelopes
  /\ t.symbol \in {"this", "other"}
  /\ IsMessage(ToMessage(t))

ASSUME TextsAssumption == \A t \in Texts : IsText(t)

LiveInit ==
  /\ Init
  /\ hasConnection = FALSE
  /\ connection = 0
  /\ connectionSeq = 0
  /\ current = NoText
  /\ disposition = "none"

Idle == current = NoText /\ disposition # "fatal_error"

-----------------------------------------------------------------------------
ValidMessageMetadata(t) ==
  /\ t.wellFormed
  /\ t.seq # 0
  /\ hasConnection => \/ t.epoch > connection
                      \/ t.epoch = connection /\ t.seq > connectionSeq

(* The early returns: the controller ends the run.                         *)
RefuseMessage(t) ==
  /\ Idle
  /\ ~ ValidMessageMetadata(t)
  /\ Report("not_processed", NoBatch)
  /\ disposition' = "fatal_error"
  /\ UNCHANGED <<symbolVars, hasConnection, connection, connectionSeq, current>>

(* The first message of a later connection invalidates every symbol,       *)
(* whichever symbol it is for and whatever its envelope holds.             *)
BookAtConnection(t) ==
  IF hasConnection /\ t.epoch > connection THEN InvalidateBook(book) ELSE book

AcceptMessage(t) ==
  /\ Idle
  /\ ValidMessageMetadata(t)
  /\ book' = BookAtConnection(t)
  /\ Report("not_processed", NoBatch)
  /\ hasConnection' = TRUE
  /\ connection' = t.epoch
  /\ connectionSeq' = t.seq
  /\ current' = t
  /\ UNCHANGED <<observed, epoch, lastSeq, seqNo, builtIn, disposition>>

Finish(result) ==
  /\ current' = NoText
  /\ disposition' = result
  /\ UNCHANGED <<hasConnection, connection, connectionSeq>>

(* A differential message with an unusable envelope has lost its ids too.  *)
LosesThisDiff(t) ==
  t.envelope = "routed" /\ t.stream = "depth_diff" /\ t.symbol = "this"

RejectEnvelope ==
  /\ current # NoText
  /\ current.envelope # "ok"
  /\ IF LosesThisDiff(current) THEN Invalidate ELSE UNCHANGED vars
  /\ Finish("pre_audit_rejected")

RouteElsewhere ==
  /\ current # NoText
  /\ current.envelope = "ok"
  /\ current.symbol = "other"
  /\ UNCHANGED vars
  /\ \E result \in {"batch_ready", "pre_audit_rejected", "fatal_error"} : Finish(result)

DispositionOf(outcome) ==
  CASE outcome \in {"invalid_context", "csv_format_error", "sequence_overflow"}
         -> "fatal_error"
    [] outcome = "pre_audit_rejected" -> "pre_audit_rejected"
    [] OTHER -> "batch_ready"

RouteHere ==
  /\ current # NoText
  /\ current.envelope = "ok"
  /\ current.symbol = "this"
  /\ Process(ToMessage(current))
  /\ Finish(DispositionOf(status'))

(* LiveEventPipeline::invalidate_all, which the controller calls when a    *)
(* session ends.                                                           *)
InvalidateAll ==
  /\ Idle
  /\ Invalidate
  /\ UNCHANGED pipelineVars

RouteMessage == RejectEnvelope \/ RouteElsewhere \/ RouteHere
=============================================================================
