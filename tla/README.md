# Market-data capture: specifications and proofs

TLA+ models of the capture and replay program in `src/`, model-checked with TLC
and, for the book, the ring, the files and the exit codes, proved with TLAPS. Paths below are relative to the
repository (`src/event_processor.cpp`, `DESIGN.md`).

## The system

`main` reads the command line and starts one of two modes.
A live run connects to one Binance venue over a verified WebSocket, receives
the messages of up to a few symbols, and writes two CSV files per symbol: an
*audit* row for every message that could be routed, and an *order-book* row for
every message that moved the top-five book. A replay run reads audit files and
regenerates the order-book rows.

Two threads share the work. The I/O thread runs everything up to the ring:
session, controller, parsers, pipeline, event processor. The writer thread empties the
ring into the files. They meet only in `CsvWriter`.

| Part | Source | Module |
| --- | --- | --- |
| Top-five book | `spot_book.cpp` | `TopFiveBook` |
| Spot and USD-M sequencing | `spot_book.cpp` | `BookSequencing` |
| Event processor of a symbol | `event_processor.cpp` | `EventProcessor` |
| The exchange (external) | – | `MarketFeed` |
| Routes of the subscribed streams | `live_subscription.cpp`, `symbol_identity.cpp` | `LiveSubscription` |
| Envelope of a message | `live_envelope.cpp` | `LiveEnvelope` |
| Payload of a message | `spot_payload_parser.cpp` | `PayloadParser` |
| Duplicate prices in a payload | `spot_payload_parser.cpp` | `PriceTable`, implements `PriceSet` |
| Skipped JSON values | `json_validation.h` | `JsonValidation` |
| Decimal numbers | `fixed_point.cpp` | `FixedPoint` |
| Live pipeline | `live_event_pipeline.cpp` | `LiveEventPipeline` |
| Capture beside its replay | `market_data_replay.cpp` | `ReplayEquivalence` |
| Ring and writer thread | `csv_writer.cpp` | `CsvWriter`, implements `RowQueue` |
| Files of a run | `csv_output_set.cpp` | `CsvOutputSet` |
| One file | `buffered_file_sink.cpp` | `BufferedFileSink` |
| Audit rows as bytes | `csv_formatter.cpp`, `market_data_replay.cpp` | `AuditCsv` |
| Audit file written, cut off and read back | the two above | `AuditFile` |
| Replay of several files | `main.cpp` | `ReplayCommand` |
| One connection | `verified_websocket_session.cpp` | `WebSocketSession` |
| Sessions, pauses, failures, stop | `live_capture_controller.cpp` | `CaptureController`, implements `CaptureRun` |
| Signals, duration, exit code | `live_run_loop.cpp`, `main.cpp` | `LiveRunLoop`, built on `CaptureRun` |
| Command line | `command_line.cpp` | `CommandLine` |
| Start-up and exit | `main.cpp` | `Application` |

`EXTENDS` follows the code: `TopFiveBook` <- `BookSequencing` <-
`EventProcessor` <- `LiveEventPipeline` <- `ReplayEquivalence`, and
`EventProcessor` <- `MarketFeed`; `WebSocketSession` <- `CaptureController`;
`CaptureRun` <- `LiveRunLoop`, which with `CommandLine` makes `Application`;
`CsvOutputSet` <- `ReplayCommand`; `BufferedFileSink` and `AuditCsv` <-
`AuditFile`, both with the record limit of `CsvLimits`; `AuditFile` and
`ReplayCommand` stand side by side in `RunFiles`; `LiveSubscription` <-
`LiveEnvelope`, which with `PayloadParser`, `PriceTable` (both with the limit in
`ParserLimits`), `FixedPoint` and `JsonValidation` makes `MessageParsers`. The
`MC` modules give TLC its message, payload and argument sets. The modules ending
in `Proofs` hold the theorems, `SetInduction` the induction they share.
Operators that a comment calls a mutant are faulty variants of the
definition after them; no specification uses them. `PROJECT.json` maps every definition to lines.

## How the models correspond to the code

**Book.** A side is a sequence of levels, best first. `ApplyUpdates` is the two
passes of `apply_updates`: `RevisedSide` erases and revises, `ExtendedSide`
inserts what was not on the original side. Sizes are parameters (`Depth` is 5
in the code). The venue is a field of the book, chosen initially and constant
after that, so every run with a book covers Spot and USD-M. Update ids are `0 .. MaxId`, and the successor of `MaxId` wraps.

**Event processor.** `Process(m)` is one call of `EventProcessor::process`; its
disjuncts are the exits of that function, in its order. `Invalidate` is the
call the pipeline makes when a session ends. A parser is a verdict on the
message: `ok`, `schema` (rejected, audited), `unauditable` (rejected before the
audit row). `builtIn` is a history variable, the epoch of the refresh that
built the book.

**Pipeline.** A message takes two steps, `AcceptMessage` (the checks before the
envelope, and `invalidate_all` on a new epoch) and `RouteMessage`. No other
step can come between them. One symbol is modelled in full; the others only
move the connection of the pipeline.

**Ring.** Every atomic load and store is a step. Each thread has a FIFO buffer
of at most `StoreBuffer` pending stores; 0 gives sequential consistency. The
code uses acquire and release only, so on x86 a store may be delayed past a
later load, and the buffers show that. The model has no other reordering. All
runs of the ring have delayed stores.

A write, a flush and the close may fail; where the consumer goes on after it has
latched the failure is `AfterFailure`.

**Session and controller.** Asio is a FIFO queue of ready handlers on one
thread. A completion or an expired timer appends its handler, and from then on
it cannot be cancelled; this is what makes stale callbacks appear. Callbacks
run inside the step of the handler that calls them, as in the code.

`stop` may be called from any thread; the model calls it once, since a repeated
call posts a second handler, which finds the session closing or the run over
and changes nothing.

**Parsers.** simdjson is external: a document is what it yields, one field after
the other, and text that is not JSON may turn up at any point. `PayloadParser`
reads the keys of the stream's schema in the order the exchange uses or its
reverse; a value is right, wrong, of another type, missing or repeated, and a
list of levels is read level by level into the array that both sides share. The
history variable `document` keeps the values, and the properties compare verdict
and event with it. In place of the duplicate table stands the set that
`PriceTable` implements, and in place of a decimal its value, which `FixedPoint`
computes. `LiveEnvelope` has the fields of a message in any order and number, on
top of the routes that `LiveSubscription` built. What the event processor
assumes of a message (`IsMessage`) is what `AcceptedEventsAreSound` shows of an
accepted payload. `JsonValidation` sees a skipped number or null as its raw
token, which reaches to the next token of the message and so ends with the
whitespace in between.

**Command line and start-up.** `CommandLine` takes one argument per step, from a
small set of texts in which values look like options and options like values.
`Application` then builds the parts of a live run in the order of `run_live`,
each of which may fail, and runs `LiveRunLoop` on it. A replay is only its exit
code there; `ReplayCommand` is the detail.

**Replay command.** Every input is inspected, the outputs are opened, and the
inputs are read again row by row. What the second reading finds does not depend
on the first, since a file may have changed. A path, its normalized form, the
directory it is in and its stem are separate, so two paths can name one file.

**Files.** `write_all` is a loop of native writes, each of which takes some of
the bytes, fails, or is interrupted. `BufferedFileSink` and `AuditCsv` are over
sequences of bytes of four classes (quote, comma, newline, other). `AuditFile`
lets a replay read the file at any point of the capture, closed, failed or
killed half way, or read bytes from elsewhere. `CsvOutputSet` sees a file by the
rows it has on disk and in its buffer, in live capture and in replay.

## What is checked

All numbers are bounds of the instance, named in the `.cfg` files.

| Run | Question | Bounds |
| --- | --- | --- |
| `processor` | Is the book well formed and of this epoch, the chain consistent, ids monotonic, row numbers contiguous, whatever message comes and whatever fails? | depth 2, 3 bid prices and one shared with the asks, ids to 2 (with wrap), 2 epochs with 3 and 2 messages |
| `feed` | With a lossy exchange feed, is every level in the book a true level? | depth 1, ids to 3, every history of single bid changes, 2 connections with 3 messages |
| `replay` | Does replay regenerate the rows of the capture and accept its file? | depth 1, ids to 2, 2 connections with 3 messages |
| `writer` | With delayed stores, is there room for every message, is a slot used by one thread at a time, does a pause keep its way back, and does the ring implement `RowQueue`? | 3 slots, 5 bytes, sizes 1 and 3, 4 batches, 1 pending store per thread |
| `writer_progress` | With delayed stores, is every batch taken, does a failure stop the run, does join return? | 3 slots, 2 batches, 2 pending stores per thread |
| `writer_discard`, `writer_pause` | Violated: see below | 2 slots, 1 or 2 pending stores |
| `session` | One read at a time, late handlers harmless, one result, no hang | 2 messages, 8 ready handlers, every result |
| `controller` | Pauses, epochs, failures, stop, reconnect and its back-off in every order; does it implement `CaptureRun`? | up to 3 sessions, 2 epochs, 2 attempts, 2 messages per session, 3 ready handlers |
| `application` | Does a command line mean one thing, is exit code 0 earned, and does the process end? | 12 texts, 8 arguments, 2 symbols, 3 signals, with and without a duration |
| `files` | As a set: rollback of a partial open, errors of one file among several, and the exit code of a replay. As bytes: is a file always a prefix of what was accepted, are its rows read back wherever it ends, and is a payload spelled in one way only? | both modes, 2 symbols with 2 batches each, 2 of 4 inputs with 2 rows each; buffer 10, records to 11, 3 rows; 10 arbitrary bytes |
| `parsers` | Are messages routed, payloads accepted and decimals read exactly as they should be, and does the duplicate table implement a set? | 8 symbol sets, 3 hash functions, 4 envelope fields; depth 2, 3 levels, 1 flaw per payload; every hash on 3 prices and 4 slots, 2 generations; scale 2, maximum 4267, 6 characters; nesting 4, tokens of 5 characters |

Why these are enough: each bound is the smallest that still reaches both sides
of the rule it is about. Three bids at a depth of 2 truncate, and a price shared
by both sides crosses; three ids are stale, next and gap, and the last one wraps; two
epochs are a reconnect and the last epoch; three slots and five bytes wrap the
ring and reach both pairs of watermarks; a pending store per thread lets every
store pass one load, and the properties of `writer` are proved for any number; a record of 11 bytes bypasses the
buffer of 10, shorter ones share it; a maximum of 4267 is no multiple of the
scale, as 2^63 - 1 is not; eight arguments are the longest sensible command line
of a live run; two generations wrap with every second message; three levels
exceed a depth of 2 and fill the shared array, so the fourth is one too many.
`MaxQueue` bounds the handlers that are ready at the
same time: three in the controller run let a stale timer, a completion and a
posted call meet. `Results` limits that run to one result of each kind the
controller tells apart: success, a message, a policy breach, a recoverable and
an unrecoverable failure; the session run has them all.
Symmetry is not used.

Three refinements are checked: `CsvWriter` implements `RowQueue`,
`CaptureController` implements `CaptureRun`, including that a requested stop
ends the run, and `PriceTable` implements `PriceSet`. `LiveRunLoop` and with it
`Application` are checked against `CaptureRun` alone.

`CHECK_DEADLOCK FALSE` is set where a run ends or a bound on messages is
reached. The processor and the ring are checked for deadlock; the ring stutters
explicitly once both threads are done.

### Fairness

- Ring: both threads run, a pending store eventually becomes visible, and the
  one-second wait of the consumer ends: with delayed stores the deadline is what
  recovers a lost wakeup. A posted notification is run even if other handlers
  keep coming (strong fairness), since the I/O context takes them in order.
- Session: ready handlers run and deadlines expire. The peer owes nothing. A
  read is sure to complete only after its socket was cancelled.
- Controller: ready handlers run, session deadlines and the reconnect timer
  expire. Peer, writer, user and the other timers owe nothing.
- Application: the main thread goes on, ready handlers run, the duration
  expires, and the controller ends after a stop, which `controller` shows. No
  signal need arrive and no argument need follow.

## Where code and documents disagree

- `writer_discard`. After an output error `latch_output_failure` sets
  `writer_failed` and waits until `publish_active` is clear; `publish` sets
  `publish_active` and then tests `writer_failed`. With delayed stores each
  side may miss the other, and a batch is published behind the discard: its
  slot is not released and its rows may not be counted. `DESIGN.md:853` asks
  that every unwritten row is counted and every slot released. The run already
  reports the output error, and `writer_progress` shows that it is stopped and
  that join still returns.
- `writer_pause`. `arm_resume_notification` stores `resume_armed` and then loads
  `released`; the consumer stores `released` and then exchanges `resume_armed`.
  If the store of `resume_armed` is delayed past the load, each side misses the
  other: the writer drains the ring and sleeps, the reads stay paused, and no
  resume is posted. `DESIGN.md:757` says that "a drain that races ahead of the
  arm cannot strand the session". Only the five-second watchdog ends such a
  pause, as a fatal backpressure timeout. What remains true is
  `PauseIsArmedOrPosted`: while it is paused, the producer has armed the
  notification or a resume is posted, so the pause is stuck only if the consumer
  sees the arming too late.

Both need a delayed store: with `StoreBuffer = 0` the two properties hold (for
the bounds of `writer`).

Skipped values are another difference, stated in `SkippedValuesAreValid` rather
than as a violation. `validate_json_value` compares the untrimmed raw token of a
number or of `null` (`json_validation.h:144` and `:157`), so one that is followed
by whitespace makes the message malformed, though JSON allows it;
`validate_non_object_document` trims. `DESIGN.md:658` promises a row for every
recognized stream "whose combined envelope is valid". The payload is minified
before it is parsed (`live_envelope.cpp:282`), so in live capture this concerns
only fields of the envelope that are not used.

One limit of the replay is part of the property of `replay`, not a
violation. A differential message rejected before its audit row
(`event_processor.cpp:301`) invalidates the live book. Replay never learns of it
and goes on printing rows, until a refresh that both print; the row numbers stay
apart. `DESIGN.md:881` says the regenerated output is compared byte for byte.
The history variable `missed` says when such a message has come, and
`RegeneratedRowsAgree` shows that, within the bounds, there is no other way to
differ.

## What is proved

For every value of the constants, from the assumptions named in the modules.
For the ring, the output set, the replay command and the application they only
say that sizes and counts are natural numbers, and that there is a slot and a
symbol. For the processor they are `Depth >= 1`, `MaxId` and `MaxSeqNo` naturals, `Mode`
one of the two modes, and messages as the parser delivers them (`IsMessage`);
for the table, more slots than levels (the code asserts twice as many) and a
generation limit of at least 1.

- `ApplyUpdatesIsBest`: the two passes of `apply_updates` return exactly the
  `Depth` best levels of the merged side. One lemma per helper, then an
  induction over the updates for each pass. The library's induction theorems
  take operators as parameters, which the provers cannot instantiate, so the
  induction is on sets: `NatSetInduction` of `SetInduction`, from the least
  member of a set of naturals.
- `ProcessorInvariant`: `Spec => []IInv`, with `IInv` the conjunction of
  `TypeOK`, `GoodBook(book)` and `BookOfThisEpoch`. `BookWellFormed` and
  `ChainOnBook` are not inductive alone: a diff keeps a side ordered only by
  `ApplyUpdatesIsBest`, which needs the whole side ordered and typed before,
  and a chain stays on its book only if invalidation also clears it.
- From it: `TypeCorrect`, `BookAlwaysWellFormed`, `BookAlwaysCurrent`, and the action properties `IdsAlwaysAdvance`,
  `DiffRowsAlwaysContinue`, `NumbersAlwaysContiguous`.
- `TableImplementsSet`: `TableSpec => ImplementsPriceSet`, for every size, hash
  function and generation limit. It rests on `TableInvariant`, `TableSpec =>
  []TableInv`. That a price is found if it is there is not inductive alone: it
  needs that every slot probed before it is taken by another price of this
  message, that no slot carries a later generation (the wrap clears them all),
  and that fewer slots are taken than levels were counted, so that a probe
  always ends.

- `RingHandsOverOnce`: `Safety => []BatchesHandedOverOnce`, for every number of
  slots and any `StoreBuffer`, so also when stores are delayed. `Safety` is
  `Spec` without fairness. The inductive invariant `WriterInv` speaks of an
  atomic as the values it has in memory and still pending in the buffer of the
  thread that writes it: every such value of `published` lies between what the
  consumer has seen and what the producer has written, in ascending order, and
  every value of `released` is at most what the consumer has read. Therefore the
  distance of the two never exceeds the ring, and a slot in between holds the
  batch of its number. That a run without an error has written everything needs
  that `close` is the last store of the producer, so whoever sees it sees all
  stores before it.
- `RingKeepsRoom`: `Safety => []RingHasRoom`, for any `StoreBuffer`. Whatever an
  old value of `released` shows the producer, it overestimates what is in the
  ring, so the pause at three quarters comes early enough. `PauseInv` says that a
  producer that reads has seen the ring below that mark, and the byte counters
  are tied to the sequence numbers they were stored with.
- `PauseIsAlwaysArmedOrPosted`: `Safety => []PauseIsArmedOrPosted`, for any
  `StoreBuffer`. It needs that an exchange takes effect at once, so that a claim
  of the notification and the post that follows are never both lost, and that a
  failure is reported between its latch and the next step of the consumer
  (`FailureInv`).
- `WriterImplementsQueue`: `Safety => ImplementsRowQueue`, for any `StoreBuffer`.
  The queue is ended when the controller stops, and it is complete only after
  that; a failure may come at any time before.
- `RollbackIsComplete` and `ClosedOutputsHoldEveryRow`: the two properties of the
  output set, for every number of symbols and batches. `OutputInv` accounts for
  every file by the step that created it, for every accepted row, as long as no
  error is known, by its place on disk or in the buffer, and for every book row
  by the audit row of its event.
- `ReplayExitIsAlwaysHonest`: exit code 0 of a replay, for any number of inputs of
  any length. `ReplayInv` says where the output set is at each place of
  `run_replay`, what the inspection has established before a file is touched,
  and what the second reading has done so far.
- `RunsKeepTheirOutputs`: what is proved of the set holds of every replay. The
  model of the command calls the actions of the set, so its steps are steps of
  the set or leave it alone.
- `ExitZeroAlwaysEarned`: exit code 0 of a live run, for every set of arguments
  and any number of signals. The invariant is that loop and controller agree on
  the end: what `on_capture_terminal` found is still true when the exit code is
  computed.

Everything else is model-checked only: the session, the controller and its
refinement of `CaptureRun` (its queue is filtered with `SelectSeq`, whose results
need an induction over sequences), the feed, the replay beside its capture, the
bytes of an audit file and the parsers other than the table. Liveness and
`ENABLED` are out of the prover's reach.

## What is not modelled

- simdjson, and the bytes it works on: padding, minifying, escapes, the contents
  of skipped strings and booleans. Documents with keys the schema does not have go
  through `JsonValidation` and are otherwise not told apart.
- How symbols, stream names, paths and the request target are spelled. Which
  texts are symbols or durations, and how they hash, are constants.
- The order-book row as text, beyond the book it is printed from.
- Exceptions of Asio calls and failed allocations
  (`handle_session_stop_exception`), except a resume notification and a stop
  that cannot be posted. The race on `impl_->session` that the failing path of
  `post_resume_from_writer` opens is taken as atomic.
- TLS and endpoint settings; metrics that nothing reads; the length of the
  reconnect back-off (`select_reconnect_delay`; its attempt counter is modelled); batches that break the contract of `write_batch`; loss of
  data the operating system has accepted.

## Plan

Done: the components above. Left, in this order:

1. `select_reconnect_delay`, and the order-book row as text.
2. The ring and the files behind it composed into one model, and a shorter
   `CsvWriter`.
3. Proofs: `NoPhantomLevels` of `MarketFeed` from
   `ApplyUpdatesIsBest`; `RegeneratedRowsAgree` of `ReplayEquivalence`; the
   refinement of `CaptureRun`. A property that is proved may then leave its run
   to a deeper one.
