------------------------- MODULE ReplayEquivalence -------------------------
(***************************************************************************)
(* Live capture of one symbol next to the replay of the audit file it      *)
(* writes.  The pipeline of LiveEventPipeline handles the messages of      *)
(* successive connections; every audit row it hands to the writer is read  *)
(* back by MarketDataReplayReader and processed by a second event          *)
(* processor, in replay mode, as in replay_market_data_file_impl           *)
(* (market_data_replay.cpp).  A replay depends on the rows alone, so it    *)
(* loses nothing to let it follow the capture row by row.                  *)
(***************************************************************************)
EXTENDS LiveEventPipeline

CONSTANTS MaxEpoch, MaxConnSeq   \* bounds on connections and their messages

VARIABLES session,       \* epoch of the connection of the controller
          sent,          \* messages the session has delivered
          unread,        \* the audit row the replay has yet to read, or none
          rBook, rObserved, rEpoch, rLastSeq, rSeqNo, rBatch, rStatus, rBuiltIn,
          hasFile,       \* has_file_identity_ of the reader
          fileEpoch,     \* last_connection_epoch_ of the reader
          fileSeq,       \* last_connection_sequence_ of the reader
          replayError,   \* the error of the ReplayFileResult
          missed         \* history: has the replay missed a differential
                         \* message: "never", "now", or before a refresh

processorVars ==
  <<rBook, rObserved, rEpoch, rLastSeq, rSeqNo, rBatch, rStatus, rBuiltIn>>
readerVars == <<hasFile, fileEpoch, fileSeq>>
replayVars == <<unread, processorVars, readerVars, replayError>>
bothVars == <<liveVars, session, sent, replayVars, missed>>

Replay == INSTANCE EventProcessor WITH
  Mode <- "replay", book <- rBook, observed <- rObserved, epoch <- rEpoch,
  lastSeq <- rLastSeq, seqNo <- rSeqNo, batch <- rBatch, status <- rStatus,
  builtIn <- rBuiltIn

BothInit ==
  /\ LiveInit
  /\ Replay!Init
  /\ rBook = book
  /\ session = 0
  /\ sent = 0
  /\ unread = << >>
  /\ hasFile = FALSE
  /\ fileEpoch = 0
  /\ fileSeq = 0
  /\ replayError = "none"
  /\ missed = "never"

-----------------------------------------------------------------------------
(* Live capture.                                                           *)

(* A differential message that is rejected before its audit row.           *)
IsUnauditedDiff(t) ==
  /\ t.symbol = "this"
  /\ t.stream = "depth_diff"
  /\ \/ t.envelope = "routed"
     \/ t.envelope = "ok" /\ t.parse = "unauditable"

Receive(t) ==
  /\ unread = << >>
  /\ replayError = "none"
  /\ sent < MaxConnSeq
  /\ t.venue = book.venue
  /\ t.epoch = session
  /\ t.seq = sent + 1
  /\ AcceptMessage(t) \/ RefuseMessage(t)
  /\ sent' = sent + 1
  /\ UNCHANGED <<session, replayVars, missed>>

(* The message is handled; its audit row, if any, is published.            *)
Publish ==
  /\ RouteMessage
  /\ unread' = IF disposition' = "batch_ready" /\ batch'.audit
               THEN <<ToMessage(current)>> ELSE << >>
  /\ missed' = IF IsUnauditedDiff(current) THEN "now" ELSE missed
  /\ UNCHANGED <<session, sent, processorVars, readerVars, replayError>>

(* on_session_terminal and the on_open of the session that follows.        *)
Reconnect ==
  /\ unread = << >>
  /\ session < MaxEpoch
  /\ InvalidateAll
  /\ session' = session + 1
  /\ sent' = 0
  /\ UNCHANGED <<replayVars, missed>>

-----------------------------------------------------------------------------
(* Replay.                                                                 *)

(* Mutant: the numbers in a file are taken to be consecutive.              *)
ValidateFileSequenceConsecutive(row) ==
  hasFile => row.epoch > fileEpoch \/ row.seq = fileSeq + 1

ValidateFileSequence(row) ==
  hasFile => \/ row.epoch > fileEpoch
             \/ row.epoch = fileEpoch /\ row.seq > fileSeq

ReadRow(row) ==
  /\ hasFile' = TRUE
  /\ fileEpoch' = row.epoch
  /\ fileSeq' = row.seq

ReplayErrorOf(outcome) ==
  CASE DispositionOf(outcome) = "fatal_error" -> "event_process_failed"
    [] DispositionOf(outcome) = "pre_audit_rejected" -> "payload_rejected"
    [] OTHER -> "none"

(* next() refuses a row that is out of order; the loop stops at an error.  *)
ReplayRow ==
  /\ unread # << >>
  /\ unread' = << >>
  /\ IF ValidateFileSequence(unread[1])
     THEN /\ ReadRow(unread[1])
          /\ Replay!Process(unread[1])
          /\ replayError' = ReplayErrorOf(rStatus')
     ELSE /\ replayError' = "input_error"
          /\ UNCHANGED <<processorVars, readerVars>>
  /\ missed' = IF missed = "now" /\ rBatch'.row.type = "partial_refresh"
               THEN "before" ELSE missed
  /\ UNCHANGED <<liveVars, session, sent>>

BothNext ==
  \/ \E t \in Texts : Receive(t)
  \/ Publish
  \/ Reconnect
  \/ ReplayRow

BothSpec == BothInit /\ [][BothNext]_bothVars

-----------------------------------------------------------------------------
(* A row of the capture that was replayed: the last message was audited    *)
(* and the replay has read its row.                                        *)
JustReplayed ==
  /\ current = NoText /\ disposition = "batch_ready" /\ batch.audit
  /\ unread = << >>

(* The replay regenerates the order-book file of the capture: for every    *)
(* audit row it prints the row the capture printed, with the same number,  *)
(* type, side and levels, or neither prints one (DESIGN.md:881), though it *)
(* knows nothing of sessions that ended or of other symbols' messages.     *)
(* The one exception is a differential message that was rejected before    *)
(* its audit row: it invalidates only the book of the capture, and the     *)
(* rows differ until a refresh that both print; numbers stay different.    *)
(* Rows that fail to format stop the replay.                               *)
RegeneratedRowsAgree ==
  JustReplayed /\ replayError = "none" /\ missed # "now" =>
    /\ [batch.row EXCEPT !.number = 0] = [rBatch.row EXCEPT !.number = 0]
    /\ missed = "never" => batch.row.number = rBatch.row.number

(* Neither side refuses what the other let through: context_is_valid of    *)
(* the symbol accepts every message the pipeline accepted, whatever came   *)
(* between, and the replay accepts every row of the audit file: the order  *)
(* the reader demands, the context check and the parser refuse none.       *)
ReplayAcceptsAudit ==
  /\ status # "invalid_context"
  /\ replayError \notin {"input_error", "payload_rejected"}
  /\ rStatus # "invalid_context"
=============================================================================
