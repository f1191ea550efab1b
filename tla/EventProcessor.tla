--------------------------- MODULE EventProcessor ---------------------------
(***************************************************************************)
(* One symbol's event processor: EventProcessor::process on a SymbolState  *)
(* (event_processor.cpp), the single path that live capture and replay     *)
(* share.  It checks the context of a message, parses the payload, formats *)
(* the audit row (live capture only), applies a depth event to a copy of   *)
(* the book, formats the book row, and only then commits.                  *)
(*                                                                         *)
(* A message is a record: its venue, the epoch and sequence of its         *)
(* connection, the stream it was routed to, whether symbol, shard and      *)
(* timestamp match (matches), the verdict of the parser (parse) and, for a *)
(* depth message the parser accepts, the event.  The parser's errors fall  *)
(* in two classes: "schema" errors get an audit row, "unauditable" ones do *)
(* not.                                                                    *)
(***************************************************************************)
EXTENDS BookSequencing

CONSTANTS Mode,       \* EventOutputMode: "live_capture" or "replay"
          MaxSeqNo,   \* largest row number, 2^64 - 1 in the code
          Messages    \* the messages process may be called with

VARIABLES book,        \* spot_book_ or usdm_book_, whichever the venue uses
          observed,    \* has_observed_connection_
          epoch,       \* current_connection_epoch_
          lastSeq,     \* last_connection_sequence_
          seqNo,       \* sequence_number_
          batch,       \* the EventRowBatch of the last call
          status,      \* the EventProcessResult of the last call
          builtIn      \* history: the epoch of the refresh behind the book

symbolVars == <<book, observed, epoch, lastSeq, seqNo, builtIn>>
vars == <<book, observed, epoch, lastSeq, seqNo, batch, status, builtIn>>

Streams == {"depth_diff", "depth5", "trade"}
ParseVerdicts == {"ok", "schema", "unauditable"}

(* What routing and the parser guarantee of a message.                     *)
IsMessage(m) ==
  /\ m.venue \in Venues
  /\ m.epoch \in Nat
  /\ m.seq \in Nat
  /\ m.stream \in Streams
  /\ m.matches \in BOOLEAN
  /\ m.parse \in ParseVerdicts
  /\ m.parse = "ok" /\ m.stream = "depth5" => IsRefreshEvent(m.event)
  /\ m.parse = "ok" /\ m.stream = "depth_diff" =>
       IF m.venue = "usdm" THEN IsUsdmDiffEvent(m.event) ELSE IsDiffEvent(m.event)

ASSUME ModeAssumption == Mode \in {"live_capture", "replay"}
ASSUME MaxSeqNoAssumption == MaxSeqNo \in Nat
ASSUME MessagesAssumption == \A m \in Messages : IsMessage(m)

NoRow == [number |-> 0, type |-> "none", side |-> "neutral",
          bids |-> << >>, asks |-> << >>]
NoBatch == [audit |-> FALSE, row |-> NoRow]
HasRow(b) == b.row.type # "none"

Init ==
  /\ book \in {EmptyBook(venue) : venue \in Venues}
  /\ observed = FALSE
  /\ epoch = 0
  /\ lastSeq = 0
  /\ seqNo = 0
  /\ batch = NoBatch
  /\ status = "not_processed"
  /\ builtIn = 0

-----------------------------------------------------------------------------
ContextIsValid(m) ==
  /\ m.matches
  /\ m.venue = book.venue
  /\ m.seq # 0
  /\ observed => \/ m.epoch > epoch
                 \/ m.epoch = epoch /\ m.seq > lastSeq

EpochChanged(m) == observed /\ m.epoch > epoch

CommitContext(m) ==
  /\ observed' = TRUE
  /\ epoch' = m.epoch
  /\ lastSeq' = m.seq

Report(outcome, rows) ==
  /\ status' = outcome
  /\ batch' = rows

(* The early returns with an error: the batch is cleared, nothing commits. *)
Fail(error) ==
  /\ Report(error, NoBatch)
  /\ UNCHANGED symbolVars

AuditOnly == [audit |-> Mode = "live_capture", row |-> NoRow]

(* A message whose payload cannot be used loses its update ids: a          *)
(* differential one breaks the chain.                                      *)
BookAfterRejection(m) ==
  IF EpochChanged(m) \/ m.stream = "depth_diff" THEN InvalidateBook(book)
  ELSE book

(* Mutant: the book of an earlier connection is used.                      *)
CandidateBookKept(m) == book

CandidateBook(m) == IF EpochChanged(m) THEN InvalidateBook(book) ELSE book

DepthResult(m) ==
  IF m.stream = "depth5" THEN ApplyRefresh(CandidateBook(m), m.event)
  ELSE ApplyDiff(CandidateBook(m), m.event)

(* checked_next_sequence                                                   *)
SequenceLeft == seqNo < MaxSeqNo

(* Mutant: the row carries the number of the row before.                   *)
BookRowOldNumber(m, result) ==
  [number |-> seqNo,
   type   |-> IF m.stream = "depth_diff" THEN "differential"
              ELSE "partial_refresh",
   side   |-> result.side,
   bids   |-> result.book.bids,
   asks   |-> result.book.asks]

BookRow(m, result) ==
  [number |-> seqNo + 1,
   type   |-> IF m.stream = "depth_diff" THEN "differential"
              ELSE "partial_refresh",
   side   |-> result.side,
   bids   |-> result.book.bids,
   asks   |-> result.book.asks]

-----------------------------------------------------------------------------
(* The exits of process, one action each.                                  *)

FailContext(m) ==
  /\ ~ ContextIsValid(m)
  /\ Fail("invalid_context")

RejectBeforeAudit(m) ==
  /\ ContextIsValid(m)
  /\ m.parse = "unauditable"
  /\ book' = BookAfterRejection(m)
  /\ CommitContext(m)
  /\ Report("pre_audit_rejected", NoBatch)
  /\ UNCHANGED <<seqNo, builtIn>>

(* format_market_data_csv_row may fail: the row is too long, or memory     *)
(* runs out.  Only live capture writes audit rows.                         *)
FailAuditFormat(m) ==
  /\ Mode = "live_capture"
  /\ ContextIsValid(m)
  /\ m.parse # "unauditable"
  /\ Fail("csv_format_error")

RejectSchema(m) ==
  /\ ContextIsValid(m)
  /\ m.parse = "schema"
  /\ book' = BookAfterRejection(m)
  /\ CommitContext(m)
  /\ Report("schema_rejected", AuditOnly)
  /\ UNCHANGED <<seqNo, builtIn>>

AuditTrade(m) ==
  /\ ContextIsValid(m)
  /\ m.parse = "ok"
  /\ m.stream = "trade"
  /\ book' = CandidateBook(m)
  /\ CommitContext(m)
  /\ Report("trade_audited", AuditOnly)
  /\ UNCHANGED <<seqNo, builtIn>>

UsableDepth(m) ==
  /\ ContextIsValid(m)
  /\ m.parse = "ok"
  /\ m.stream \in {"depth5", "depth_diff"}

ApplySilently(m) ==
  LET result == DepthResult(m)
  IN  /\ UsableDepth(m)
      /\ ~ EmitsSnapshot(result.status)
      /\ book' = result.book
      /\ CommitContext(m)
      /\ Report(result.status, AuditOnly)
      /\ UNCHANGED <<seqNo, builtIn>>

ApplyWithRow(m) ==
  LET result == DepthResult(m)
  IN  /\ UsableDepth(m)
      /\ EmitsSnapshot(result.status)
      /\ SequenceLeft
      /\ book' = result.book
      /\ CommitContext(m)
      /\ Report(result.status, [AuditOnly EXCEPT !.row = BookRow(m, result)])
      /\ seqNo' = seqNo + 1
      /\ builtIn' = IF m.stream = "depth5" THEN m.epoch ELSE builtIn

FailSequenceOverflow(m) ==
  /\ UsableDepth(m)
  /\ EmitsSnapshot(DepthResult(m).status)
  /\ ~ SequenceLeft
  /\ Fail("sequence_overflow")

FailBookFormat(m) ==
  /\ UsableDepth(m)
  /\ EmitsSnapshot(DepthResult(m).status)
  /\ SequenceLeft
  /\ Fail("csv_format_error")

(* The exits that commit, and the ones with an error, after which live     *)
(* capture and replay both stop.                                           *)
Commit(m) ==
  \/ RejectBeforeAudit(m)
  \/ RejectSchema(m)
  \/ AuditTrade(m)
  \/ ApplySilently(m)
  \/ ApplyWithRow(m)

Abort(m) ==
  \/ FailContext(m)
  \/ FailAuditFormat(m)
  \/ FailSequenceOverflow(m)
  \/ FailBookFormat(m)

Process(m) == Commit(m) \/ Abort(m)

(* SymbolState::invalidate, called by the pipeline when a connection ends  *)
(* or when the envelope of a differential message cannot be used.          *)
Invalidate ==
  /\ book' = InvalidateBook(book)
  /\ UNCHANGED <<observed, epoch, lastSeq, seqNo, batch, status, builtIn>>

Next ==
  \/ \E m \in Messages : Process(m)
  \/ Invalidate

Spec == Init /\ [][Next]_vars

-----------------------------------------------------------------------------
(* The types of the processor's state.                                     *)
Statuses ==
  {"not_processed", "invalid_context", "csv_format_error",
   "sequence_overflow", "pre_audit_rejected", "schema_rejected",
   "trade_audited", "applied_refresh", "applied_diff", "stale_refresh",
   "stale_diff", "ignored_while_invalid", "sequence_gap", "crossed_book"}

BookType ==
  [venue : Venues, valid : BOOLEAN, last : UpdateId, bids : Seq(BookLevel),
   asks : Seq(BookLevel), previous : UpdateId, chain : BOOLEAN]

RowType ==
  [number : Nat, type : {"none", "differential", "partial_refresh"},
   side : Sides \cup {"neutral"}, bids : Seq(BookLevel), asks : Seq(BookLevel)]

(* Type invariant: every variable of SymbolState and of the last result    *)
(* holds a value of its type; row numbers stay within 64 bits.             *)
TypeOK ==
  /\ book \in BookType
  /\ observed \in BOOLEAN
  /\ epoch \in Nat
  /\ lastSeq \in Nat
  /\ seqNo \in 0 .. MaxSeqNo
  /\ batch \in [audit : BOOLEAN, row : RowType]
  /\ status \in Statuses
  /\ builtIn \in Nat

(* The book a row is printed from is always a book: at most Depth levels   *)
(* per side, strictly ordered, best first, and the best bid below the best *)
(* ask.  apply_updates keeps the order without ever sorting, and a         *)
(* candidate that crosses is thrown away.                                  *)
BookWellFormed ==
  /\ IsSide(book.bids, "bid")
  /\ IsSide(book.asks, "ask")
  /\ ~ Crossed(book.bids, book.asks)

(* An established USD-M chain always hangs on the book's own last diff:    *)
(* no refresh, gap, crossing, rejection or epoch change leaves a chain     *)
(* behind that the next diff could continue on a different book.           *)
ChainOnBook == book.chain => book.valid /\ book.previous = book.last

(* A valid book was built by a refresh of the connection its last message  *)
(* came from: no book survives a reconnect (DESIGN.md:648).                *)
BookOfThisEpoch == book.valid => observed /\ builtIn = epoch

(* The book, and the chain on it, belong to where the symbol is now.       *)
BookIsCurrent == ChainOnBook /\ BookOfThisEpoch

(* While a book stays valid within a connection its update id never goes   *)
(* back: neither a late refresh nor a late diff undoes newer levels.       *)
UpdateIdsAdvance ==
  [][book.valid /\ book'.valid /\ epoch' = epoch => book'.last >= book.last]_vars

(* A differential row continues the book of the row before it: the book    *)
(* was valid before the message, in the same connection, and moves to a    *)
(* strictly newer update id.  After a gap, a crossing, a rejected diff or  *)
(* an epoch change the next row is a refresh.                              *)
DiffRowsContinueTheBook ==
  [][seqNo' # seqNo /\ batch'.row.type = "differential"
       => /\ book.valid
          /\ epoch' = epoch
          /\ book'.last > book.last]_vars

(* Rows are numbered without a hole or a repetition, and a call that fails *)
(* uses up no number, whatever it had computed before it failed.           *)
RowNumbersContiguous ==
  [][/\ seqNo' = seqNo \/ (seqNo' = seqNo + 1 /\ batch'.row.number = seqNo')
     /\ batch' # batch /\ HasRow(batch') => seqNo' = seqNo + 1]_vars
=============================================================================
