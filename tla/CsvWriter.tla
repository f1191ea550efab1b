----------------------------- MODULE CsvWriter ------------------------------
(***************************************************************************)
(* The ring between the I/O thread and the writer thread: CsvWriter in     *)
(* csv_writer.cpp, with the calls LiveCaptureController makes on it.       *)
(*                                                                         *)
(* The producer is the I/O thread: it acquires a slot, fills it, publishes *)
(* or cancels, pauses when the ring is three quarters full, handles the    *)
(* notifications the writer posts to it, and finally closes and joins.     *)
(* The consumer is the thread that runs Impl::run.  Every load and store   *)
(* of an atomic is a step of its own, except where a group of loads cannot *)
(* be told from one load.  The CsvOutputSet behind the consumer is taken   *)
(* to succeed or fail at every call.                                       *)
(*                                                                         *)
(* The code orders its atomics with acquire and release only, which lets a *)
(* store become visible after later loads of the same thread.  Each thread *)
(* has a FIFO buffer of at most StoreBuffer pending stores, as on x86;     *)
(* read-modify-writes and locks wait until the buffer is empty.  With a    *)
(* StoreBuffer of 0 every store is visible at once.                        *)
(*                                                                         *)
(* A batch is its number in publication order, which stands for its rows,  *)
(* and its size in bytes.  The bookkeeping of overflow capacity, which     *)
(* nothing but metrics reads, is left out.                                 *)
(***************************************************************************)
EXTENDS Integers, Sequences

CONSTANTS Slots,          \* kCsvWriterSlotCount
          ByteCapacity,   \* kCsvWriterByteCapacity
          Sizes,          \* the sizes a batch may have
          MaxBatches,     \* largest sequence number, 2^64 - 1 in the code
          StoreBuffer     \* how many stores of a thread may be delayed

ASSUME SlotsAssumption == Slots \in Nat \ {0}
ASSUME BytesAssumption == ByteCapacity \in Nat /\ Sizes \subseteq Nat \ {0}
ASSUME MaxBatchesAssumption == MaxBatches \in Nat
ASSUME StoreBufferAssumption == StoreBuffer \in Nat

PauseSlots == (Slots * 3) \div 4
ResumeSlots == Slots \div 2
PauseBytes == (ByteCapacity * 3) \div 4
ResumeBytes == ByteCapacity \div 2

Counters == {"published", "released", "bytesPublished", "bytesReleased", "rows"}
Flags == {"close", "failed", "publishActive", "sleeping", "armed", "failureSent"}
Atomics == Counters \cup Flags

VARIABLES
  mem,             \* the atomics, and the row counter of the metrics ("rows")
  pBuffer,         \* stores of the producer that are not yet visible
  cBuffer,         \* stores of the consumer that are not yet visible
  slots,           \* the ring
  pPc,             \* where the producer is
  producerSequence, producerBytes,
  size,            \* size of the batch being formatted
  open,            \* a session is open
  paused,          \* reads_paused of the controller
  stopping,        \* failure_latched or stop_requested of the controller
  posted,          \* notifications posted to the I/O context
  cPc,             \* where the consumer is
  seen,            \* the local variable published of run and discard_published
  consumerSequence, consumerBytes,
  pending,         \* the error of the step the consumer is at
  mutexFree, woken,   \* sleep_mutex, and a notification of wake
  accepted,        \* the batches write_batch has taken, in order
  outputError,     \* final_result.output_error
  unwritten        \* final_result.metrics: rows published and not written

memoryVars == <<mem, pBuffer, cBuffer>>
producerVars == <<producerSequence, producerBytes, size>>
controllerVars == <<open, paused, stopping>>
consumerVars == <<seen, consumerSequence, consumerBytes, pending>>
resultVars == <<accepted, outputError, unwritten>>
vars == <<memoryVars, slots, pPc, producerVars, controllerVars, posted, cPc,
          consumerVars, mutexFree, woken, resultVars>>

NoBatch == [number |-> 0, size |-> 0]
SlotOf(sequence) == sequence % Slots

Init ==
  /\ mem = [x \in Atomics |-> IF x \in Counters THEN 0 ELSE FALSE]
  /\ pBuffer = << >>
  /\ cBuffer = << >>
  /\ slots = [i \in 0 .. Slots - 1 |-> NoBatch]
  /\ pPc = "idle"
  /\ producerSequence = 0
  /\ producerBytes = 0
  /\ size = 0
  /\ open = FALSE
  /\ paused = FALSE
  /\ stopping = FALSE
  /\ posted = 0
  /\ cPc = "load"
  /\ seen = 0
  /\ consumerSequence = 0
  /\ consumerBytes = 0
  /\ pending = "none"
  /\ mutexFree = TRUE
  /\ woken = FALSE
  /\ accepted = << >>
  /\ outputError = "none"
  /\ unwritten = 0

-----------------------------------------------------------------------------
(* Memory.                                                                 *)

(* A thread sees its own latest store, or else the memory.                 *)
Load(buffer, x) ==
  LET own == {i \in 1 .. Len(buffer) : buffer[i].atomic = x}
  IN  IF own = {} THEN mem[x]
      ELSE buffer[CHOOSE i \in own : \A j \in own : j <= i].value

PLoad(x) == Load(pBuffer, x)
CLoad(x) == Load(cBuffer, x)

PStore(x, v) ==
  IF StoreBuffer > 0
  THEN /\ Len(pBuffer) < StoreBuffer
       /\ pBuffer' = Append(pBuffer, [atomic |-> x, value |-> v])
       /\ UNCHANGED <<mem, cBuffer>>
  ELSE /\ mem' = [mem EXCEPT ![x] = v]
       /\ UNCHANGED <<pBuffer, cBuffer>>

CStore(x, v) ==
  IF StoreBuffer > 0
  THEN /\ Len(cBuffer) < StoreBuffer
       /\ cBuffer' = Append(cBuffer, [atomic |-> x, value |-> v])
       /\ UNCHANGED <<mem, pBuffer>>
  ELSE /\ mem' = [mem EXCEPT ![x] = v]
       /\ UNCHANGED <<pBuffer, cBuffer>>

(* A store leaves its buffer.                                              *)
PDrain ==
  /\ pBuffer # << >>
  /\ mem' = [mem EXCEPT ![Head(pBuffer).atomic] = Head(pBuffer).value]
  /\ pBuffer' = Tail(pBuffer)
  /\ UNCHANGED <<cBuffer, slots, pPc, producerVars, controllerVars, posted,
                 cPc, consumerVars, mutexFree, woken, resultVars>>

CDrain ==
  /\ cBuffer # << >>
  /\ mem' = [mem EXCEPT ![Head(cBuffer).atomic] = Head(cBuffer).value]
  /\ cBuffer' = Tail(cBuffer)
  /\ UNCHANGED <<pBuffer, slots, pPc, producerVars, controllerVars, posted,
                 cPc, consumerVars, mutexFree, woken, resultVars>>

(* exchange, by a thread whose buffer is empty.                            *)
Exchange(buffer, x, v) ==
  /\ buffer = << >>
  /\ mem' = [mem EXCEPT ![x] = v]
  /\ UNCHANGED <<pBuffer, cBuffer>>

-----------------------------------------------------------------------------
(* The producer: the methods of CsvWriter, called by the controller.       *)

PGoto(here, there) == pPc = here /\ pPc' = there

(* What a producer step leaves to the consumer.                            *)
OfConsumer == <<cPc, consumerVars, resultVars>>

OccupiedSlots == producerSequence - PLoad("released")
OccupiedBytes == producerBytes - PLoad("bytesReleased")

(* Mutant: only slots count.                                               *)
ShouldPauseForSlots == OccupiedSlots >= PauseSlots

ShouldPause == OccupiedSlots >= PauseSlots \/ OccupiedBytes >= PauseBytes
BelowResumeWatermark == OccupiedSlots < ResumeSlots /\ OccupiedBytes < ResumeBytes

(* on_text_message asks for a slot.  Reads are paused while paused holds,  *)
(* and messages are ignored once a failure is latched.                     *)
TryAcquire ==
  /\ pPc = "idle"
  /\ open
  /\ ~ paused
  /\ ~ stopping
  /\ IF PLoad("failed") \/ OccupiedSlots >= Slots
     THEN stopping' = TRUE /\ UNCHANGED <<pPc, slots>>
     ELSE /\ pPc' = "filling"
          /\ slots' = [slots EXCEPT ![SlotOf(producerSequence)] = NoBatch]
          /\ UNCHANGED stopping
  /\ UNCHANGED <<memoryVars, producerVars, open, paused, posted, mutexFree, woken, OfConsumer>>

(* The message has no row, or its processing failed.                       *)
Cancel ==
  /\ PGoto("filling", "idle")
  /\ stopping' \in BOOLEAN
  /\ UNCHANGED <<memoryVars, slots, producerVars, open, paused, posted, mutexFree, woken, OfConsumer>>

(* Mutant: the sequence number is published before the slot is filled.     *)
PublishBeginExposed ==
  /\ PGoto("filling", "checkFailed")
  /\ size' \in Sizes
  /\ PStore("published", producerSequence + 1)
  /\ UNCHANGED <<slots, producerSequence, producerBytes, controllerVars, posted,
                 mutexFree, woken, OfConsumer>>

PublishBegin ==
  /\ PGoto("filling", "checkFailed")
  /\ size' \in Sizes
  /\ PStore("publishActive", TRUE)
  /\ UNCHANGED <<slots, producerSequence, producerBytes, controllerVars, posted,
                 mutexFree, woken, OfConsumer>>

PublishNotFailed ==
  /\ PGoto("checkFailed", "checkBytes")
  /\ ~ PLoad("failed")
  /\ UNCHANGED <<memoryVars, slots, producerVars, controllerVars, posted,
                 mutexFree, woken, OfConsumer>>

BytesFit == size <= ByteCapacity /\ OccupiedBytes <= ByteCapacity - size

(* Numbers are left for the batch.                                         *)
SequenceLeft == producerSequence < MaxBatches

(* The lambda reject of publish; the controller then fails the run.        *)
PublishReject ==
  /\ \/ PGoto("checkFailed", "idle") /\ PLoad("failed")
     \/ PGoto("checkBytes", "idle") /\ (~ BytesFit \/ ~ SequenceLeft)
  /\ PStore("publishActive", FALSE)
  /\ stopping' = TRUE
  /\ UNCHANGED <<slots, producerVars, open, paused, posted, mutexFree, woken, OfConsumer>>

(* The slot is completed and the private counters and metrics advance.     *)
PublishStage ==
  /\ PGoto("checkBytes", "storeBytes")
  /\ BytesFit
  /\ SequenceLeft
  /\ slots' = [slots EXCEPT ![SlotOf(producerSequence)] =
                 [number |-> producerSequence + 1, size |-> size]]
  /\ producerSequence' = producerSequence + 1
  /\ producerBytes' = producerBytes + size
  /\ PStore("rows", producerSequence + 1)
  /\ UNCHANGED <<size, controllerVars, posted, mutexFree, woken, OfConsumer>>

PublishStore ==
  /\ \/ PGoto("storeBytes", "storePublished") /\ PStore("bytesPublished", producerBytes)
     \/ PGoto("storePublished", "storeInactive") /\ PStore("published", producerSequence)
     \/ PGoto("storeInactive", "wakeCheck") /\ PStore("publishActive", FALSE)
  /\ UNCHANGED <<slots, producerVars, controllerVars, posted, mutexFree, woken, OfConsumer>>

(* The load may miss a store of writer_sleeping that is still delayed, and *)
(* the consumer the publication: then only the timeout ends its wait.      *)
NotifyWriter ==
  /\ PGoto("wakeCheck", IF PLoad("sleeping") THEN "wakeLock" ELSE "pauseCheck")
  /\ UNCHANGED <<memoryVars, slots, producerVars, controllerVars, posted,
                 mutexFree, woken, OfConsumer>>

(* Lock, notify_one, unlock, by notify_writer or by close.                 *)
Wake ==
  /\ PGoto("wakeLock", "pauseCheck") \/ PGoto("closeLock", "join")
  /\ pBuffer = << >>
  /\ mutexFree
  /\ woken' = (woken \/ cPc = "waiting")
  /\ UNCHANGED <<memoryVars, slots, producerVars, controllerVars, posted,
                 mutexFree, OfConsumer>>

PauseForBackpressure ==
  /\ pPc = "pauseCheck"
  /\ IF ShouldPause /\ ~ paused /\ ~ stopping
     THEN paused' = TRUE /\ pPc' = "arm"
     ELSE pPc' = "idle" /\ UNCHANGED paused
  /\ UNCHANGED <<memoryVars, slots, producerVars, open, stopping, posted, mutexFree, woken, OfConsumer>>

ArmResume ==
  /\ \/ PGoto("arm", "idle") /\ PLoad("failed") /\ UNCHANGED memoryVars
     \/ PGoto("arm", "armCheck") /\ ~ PLoad("failed") /\ PStore("armed", TRUE)
  /\ UNCHANGED <<slots, producerVars, controllerVars, posted, mutexFree, woken, OfConsumer>>

ArmRecheck ==
  /\ PGoto("armCheck", IF BelowResumeWatermark THEN "armClaim" ELSE "idle")
  /\ UNCHANGED <<memoryVars, slots, producerVars, controllerVars, posted,
                 mutexFree, woken, OfConsumer>>

ArmClaim ==
  /\ PGoto("armClaim", "idle")
  /\ Exchange(pBuffer, "armed", FALSE)
  /\ posted' = IF mem["armed"] THEN posted + 1 ELSE posted
  /\ UNCHANGED <<slots, producerVars, controllerVars, mutexFree, woken, OfConsumer>>

-----------------------------------------------------------------------------
(* The controller between its calls on the writer.                         *)

(* Mutant: a ring that filled up again is not armed again.                 *)
OnWriterResumeOnce ==
  /\ pPc = "idle"
  /\ posted > 0
  /\ posted' = posted - 1
  /\ stopping' = (stopping \/ PLoad("failed"))
  /\ paused' = (paused /\ (PLoad("failed") \/ ~ BelowResumeWatermark))
  /\ UNCHANGED <<memoryVars, slots, pPc, producerVars, open, mutexFree, woken, OfConsumer>>

(* on_writer_resume, which resume and failure notifications both post.     *)
OnWriterResume ==
  /\ pPc = "idle"
  /\ posted > 0
  /\ posted' = posted - 1
  /\ CASE PLoad("failed") -> stopping' = TRUE /\ UNCHANGED <<pPc, open, paused>>
       [] ~ PLoad("failed") /\ ~ paused -> UNCHANGED <<pPc, controllerVars>>
       [] ~ PLoad("failed") /\ paused /\ ~ BelowResumeWatermark ->
            pPc' = "arm" /\ UNCHANGED controllerVars
       [] OTHER -> paused' = FALSE /\ UNCHANGED <<pPc, open, stopping>>
  /\ UNCHANGED <<memoryVars, slots, producerVars, mutexFree, woken, OfConsumer>>

OnBackpressureTimeout ==
  /\ pPc = "idle"
  /\ paused
  /\ stopping' = TRUE
  /\ UNCHANGED <<memoryVars, slots, pPc, producerVars, open, paused, posted, mutexFree,
                 woken, OfConsumer>>

(* on_session_terminal forgets the pause; a notification may be on its way.*)
OnSessionTerminal ==
  /\ pPc = "idle"
  /\ open
  /\ open' = FALSE
  /\ paused' = FALSE
  /\ UNCHANGED <<memoryVars, slots, pPc, producerVars, stopping, posted, mutexFree,
                 woken, OfConsumer>>

(* on_open pauses a new session at once when the ring is still full.       *)
OnOpen ==
  /\ PGoto("idle", "pauseCheck")
  /\ ~ open
  /\ ~ stopping
  /\ open' = TRUE
  /\ UNCHANGED <<memoryVars, slots, producerVars, paused, stopping, posted,
                 mutexFree, woken, OfConsumer>>

(* finalize_run: close, then join.                                         *)
Close ==
  /\ PGoto("idle", "closeLock")
  /\ stopping' = TRUE
  /\ PStore("close", TRUE)
  /\ UNCHANGED <<slots, producerVars, open, paused, posted, mutexFree, woken, OfConsumer>>

Join ==
  /\ PGoto("join", "joined")
  /\ cPc = "done"
  /\ UNCHANGED <<memoryVars, slots, producerVars, controllerVars, posted,
                 mutexFree, woken, OfConsumer>>

-----------------------------------------------------------------------------
(* The consumer: Impl::run.                                                *)

CGoto(here, there) == cPc = here /\ cPc' = there
OfProducer == <<pPc, producerVars, controllerVars>>

LoadPublished ==
  /\ CGoto("load", "drain") \/ CGoto("discardLoad", "discard")
  /\ seen' = CLoad("published")
  /\ UNCHANGED <<memoryVars, slots, posted, consumerSequence, consumerBytes,
                 pending, mutexFree, woken, resultVars, OfProducer>>

WriteBatch ==
  /\ CGoto("drain", "release")
  /\ consumerSequence < seen
  /\ ~ CLoad("failed")
  /\ \/ /\ accepted' = Append(accepted, slots[SlotOf(consumerSequence)].number)
        /\ pending' = "none"
     \/ /\ accepted' = accepted
        /\ pending' = "write"
  /\ UNCHANGED <<memoryVars, slots, posted, seen, consumerSequence, consumerBytes,
                 mutexFree, woken, outputError, unwritten, OfProducer>>

EndDrain ==
  /\ CGoto("drain", IF CLoad("failed") THEN "discardLoad" ELSE "flush")
  /\ consumerSequence >= seen \/ CLoad("failed")
  /\ UNCHANGED <<memoryVars, slots, posted, consumerVars, mutexFree, woken,
                 resultVars, OfProducer>>

(* release_slot                                                            *)
ReleaseSlot ==
  LET slot == SlotOf(consumerSequence)
  IN  /\ CGoto("release", "storeReleased")
      /\ consumerBytes' = consumerBytes + slots[slot].size
      /\ slots' = [slots EXCEPT ![slot] = NoBatch]
      /\ consumerSequence' = consumerSequence + 1
      /\ CStore("bytesReleased", consumerBytes + slots[slot].size)
      /\ UNCHANGED <<posted, seen, pending, mutexFree, woken, resultVars, OfProducer>>

StoreReleased ==
  /\ CGoto("storeReleased", "notify")
  /\ CStore("released", consumerSequence)
  /\ UNCHANGED <<slots, posted, consumerVars, mutexFree, woken, resultVars, OfProducer>>

ConsumerBelowResumeWatermark ==
  /\ CLoad("published") - consumerSequence < ResumeSlots
  /\ CLoad("bytesPublished") - consumerBytes < ResumeBytes

AfterRelease ==
  IF pending # "none" THEN "latch"
  ELSE IF CLoad("failed") THEN "discard" ELSE "drain"

NotifyResume ==
  /\ CGoto("notify", IF ConsumerBelowResumeWatermark THEN "claim" ELSE AfterRelease)
  /\ UNCHANGED <<memoryVars, slots, posted, consumerVars, mutexFree, woken,
                 resultVars, OfProducer>>

ClaimResume ==
  /\ CGoto("claim", AfterRelease)
  /\ Exchange(cBuffer, "armed", FALSE)
  /\ posted' = IF mem["armed"] THEN posted + 1 ELSE posted
  /\ UNCHANGED <<slots, consumerVars, mutexFree, woken, resultVars, OfProducer>>

DiscardPublished ==
  /\ CGoto("discard", IF consumerSequence < seen THEN "release" ELSE "closeAll")
  /\ UNCHANGED <<memoryVars, slots, posted, consumerVars, mutexFree, woken,
                 resultVars, OfProducer>>

(* latch_output_failure: keep the first error, raise the flag, notify      *)
(* once, and wait until no publish is in progress.                         *)
LatchFailure ==
  /\ CGoto("latch", "notifyFailure")
  /\ outputError' = IF outputError = "none" THEN pending ELSE outputError
  /\ CStore("failed", TRUE)
  /\ UNCHANGED <<slots, posted, consumerVars, mutexFree, woken, accepted, unwritten, OfProducer>>

(* Mutant: the failure is left for the producer to notice.                 *)
NotifyFailureNever ==
  /\ CGoto("notifyFailure", "awaitPublish")
  /\ UNCHANGED <<memoryVars, slots, posted, consumerVars, mutexFree, woken, resultVars, OfProducer>>

NotifyFailure ==
  /\ CGoto("notifyFailure", "awaitPublish")
  /\ Exchange(cBuffer, "failureSent", TRUE)
  /\ posted' = IF mem["failureSent"] THEN posted ELSE posted + 1
  /\ UNCHANGED <<slots, consumerVars, mutexFree, woken, resultVars, OfProducer>>

(* Where latch_output_failure returns to.                                  *)
AfterFailure ==
  CASE pending = "write" -> "drain"
    [] pending = "flush" -> "discardLoad"
    [] OTHER -> "metrics"

AwaitPublish ==
  /\ CGoto("awaitPublish", AfterFailure)
  /\ ~ CLoad("publishActive")
  /\ pending' = "none"
  /\ UNCHANGED <<memoryVars, slots, posted, seen, consumerSequence, consumerBytes,
                 mutexFree, woken, resultVars, OfProducer>>

(* The age flush, when it is due and rows are buffered, may fail.          *)
AgeFlush ==
  /\ \/ CGoto("flush", "closeCheck") /\ UNCHANGED pending
     \/ CGoto("flush", "latch") /\ accepted # << >> /\ pending' = "flush"
  /\ UNCHANGED <<memoryVars, slots, posted, seen, consumerSequence, consumerBytes,
                 mutexFree, woken, resultVars, OfProducer>>

(* Mutant: close ends the run though batches are left.                     *)
CheckCloseEarly ==
  /\ CGoto("closeCheck", IF CLoad("close") THEN "closeAll" ELSE "lock")
  /\ UNCHANGED <<memoryVars, slots, posted, consumerVars, mutexFree, woken,
                 resultVars, OfProducer>>

(* Mutant: close is not noticed.                                           *)
CheckCloseNever ==
  /\ CGoto("closeCheck", "lock")
  /\ UNCHANGED <<memoryVars, slots, posted, consumerVars, mutexFree, woken,
                 resultVars, OfProducer>>

CheckClose ==
  /\ CGoto("closeCheck",
           IF CLoad("close") /\ consumerSequence = CLoad("published")
           THEN "closeAll" ELSE "lock")
  /\ UNCHANGED <<memoryVars, slots, posted, consumerVars, mutexFree, woken,
                 resultVars, OfProducer>>

LockSleepMutex ==
  /\ CGoto("lock", "sleep")
  /\ cBuffer = << >>
  /\ mutexFree
  /\ mutexFree' = FALSE
  /\ UNCHANGED <<memoryVars, slots, posted, consumerVars, woken, resultVars, OfProducer>>

StoreSleeping ==
  /\ \/ CGoto("sleep", "predicate") /\ CStore("sleeping", TRUE)
     \/ CGoto("awake", "unlock") /\ CStore("sleeping", FALSE)
  /\ UNCHANGED <<slots, posted, consumerVars, mutexFree, woken, resultVars, OfProducer>>

WakePredicate ==
  \/ CLoad("close")
  \/ CLoad("failed")
  \/ consumerSequence # CLoad("published")

EvaluatePredicate ==
  /\ CGoto("predicate", IF WakePredicate THEN "awake" ELSE "park")
  /\ UNCHANGED <<memoryVars, slots, posted, consumerVars, mutexFree, woken,
                 resultVars, OfProducer>>

(* wake.wait_until gives up the mutex and waits, in one step.              *)
Park ==
  /\ CGoto("park", "waiting")
  /\ cBuffer = << >>
  /\ mutexFree' = TRUE
  /\ woken' = FALSE
  /\ UNCHANGED <<memoryVars, slots, posted, consumerVars, resultVars, OfProducer>>

WakeUp ==
  /\ CGoto("waiting", "predicate")
  /\ woken
  /\ mutexFree
  /\ mutexFree' = FALSE
  /\ UNCHANGED <<memoryVars, slots, posted, consumerVars, woken, resultVars, OfProducer>>

(* Mutant: the wait has no deadline.                                       *)
WaitWithoutTimeout == FALSE /\ UNCHANGED vars

(* The wait ends at next_flush at the latest.                              *)
WaitTimeout ==
  /\ CGoto("waiting", "awake")
  /\ mutexFree
  /\ mutexFree' = FALSE
  /\ UNCHANGED <<memoryVars, slots, posted, consumerVars, woken, resultVars, OfProducer>>

Unlock ==
  /\ CGoto("unlock", "load")
  /\ cBuffer = << >>
  /\ mutexFree' = TRUE
  /\ UNCHANGED <<memoryVars, slots, posted, consumerVars, woken, resultVars, OfProducer>>

CloseAll ==
  /\ \/ CGoto("closeAll", "metrics") /\ UNCHANGED pending
     \/ CGoto("closeAll", "latch") /\ pending' = "close"
  /\ UNCHANGED <<memoryVars, slots, posted, seen, consumerSequence, consumerBytes,
                 mutexFree, woken, resultVars, OfProducer>>

(* An output set without an error has written every row it accepted; after *)
(* an error any number of them may be missing.                             *)
FinalMetrics ==
  /\ CGoto("metrics", "done")
  /\ \E written \in 0 .. Len(accepted) :
       /\ outputError = "none" => written = Len(accepted)
       /\ unwritten' = IF CLoad("rows") >= written THEN CLoad("rows") - written ELSE 0
  /\ UNCHANGED <<memoryVars, slots, posted, consumerVars, mutexFree, woken,
                 accepted, outputError, OfProducer>>

-----------------------------------------------------------------------------
(* Steps inside a call of the controller, and the handlers it runs.        *)
ProducerStep ==
  \/ Cancel \/ PublishBegin \/ PublishNotFailed \/ PublishReject \/ PublishStage
  \/ PublishStore \/ NotifyWriter \/ Wake \/ PauseForBackpressure
  \/ ArmResume \/ ArmRecheck \/ ArmClaim \/ OnWriterResume \/ Join

(* What the network, the clock and the user may cause.                     *)
Environment ==
  \/ TryAcquire \/ OnBackpressureTimeout \/ OnSessionTerminal \/ OnOpen \/ Close

ConsumerStep ==
  \/ LoadPublished \/ WriteBatch \/ EndDrain
  \/ ReleaseSlot \/ StoreReleased \/ NotifyResume \/ ClaimResume
  \/ DiscardPublished \/ LatchFailure \/ NotifyFailure \/ AwaitPublish
  \/ AgeFlush \/ CheckClose \/ LockSleepMutex \/ StoreSleeping \/ EvaluatePredicate
  \/ Park \/ WakeUp \/ Unlock \/ CloseAll \/ FinalMetrics

Terminated == pPc = "joined" /\ UNCHANGED vars

Next ==
  \/ ProducerStep \/ Environment
  \/ ConsumerStep \/ WaitTimeout
  \/ PDrain \/ CDrain
  \/ Terminated

Safety == Init /\ [][Next]_vars

(* Both threads run, a wait ends at its deadline, a store does not stay in *)
(* its buffer for ever, and the I/O context runs what was posted to it,    *)
(* whatever else it has to do: its queue is first in, first out.           *)
Spec ==
  /\ Safety
  /\ WF_vars(ProducerStep) /\ WF_vars(ConsumerStep)
  /\ WF_vars(PDrain) /\ WF_vars(CDrain)
  /\ WF_vars(WaitTimeout)
  /\ SF_vars(OnWriterResume)

-----------------------------------------------------------------------------
(* Whether a thread may be touching its slot.                              *)
ProducerOwnsSlot == pPc \in {"filling", "checkFailed", "checkBytes"}
ConsumerReadsSlot == cPc = "release" \/ (cPc = "drain" /\ consumerSequence < seen)

(* The two threads never touch the same slot, and the batch the consumer   *)
(* is at is the one published under that number, whole: the ring hands     *)
(* each batch over once, with plain loads and stores of its contents.  A   *)
(* run that reports success has written every published batch: no row is   *)
(* dropped silently, wherever close meets the consumer.                    *)
BatchesHandedOverOnce ==
  /\ ProducerOwnsSlot /\ ConsumerReadsSlot =>
       SlotOf(producerSequence) # SlotOf(consumerSequence)
  /\ ConsumerReadsSlot =>
       slots[SlotOf(consumerSequence)].number = consumerSequence + 1
  /\ pPc = "joined" /\ outputError = "none" =>
       Len(accepted) = producerSequence /\ unwritten = 0

(* Neither the slots nor the bytes in flight exceed their capacity, and    *)
(* the unsigned differences the code takes of its counters never wrap.     *)
(* Pausing at three quarters leaves room for the message being read: while *)
(* no batch is larger than the last quarter, neither capacity is ever      *)
(* reached and no message is refused for lack of room (DESIGN.md:746).     *)
RingHasRoom ==
  /\ 0 <= producerSequence - consumerSequence /\ producerSequence - consumerSequence <= Slots
  /\ 0 <= producerBytes - consumerBytes /\ producerBytes - consumerBytes <= ByteCapacity
  /\ PLoad("released") <= producerSequence /\ PLoad("bytesReleased") <= producerBytes
  /\ cPc = "notify" => /\ consumerSequence <= CLoad("published")
                       /\ consumerBytes <= CLoad("bytesPublished")
  /\ pPc = "idle" /\ open /\ ~ paused /\ ~ stopping => OccupiedSlots < Slots
  /\ pPc = "checkBytes" /\ (\A s \in Sizes : s + PauseBytes <= ByteCapacity + 1) => BytesFit

(* While the producer waits in a pause, a resume is armed or posted, or    *)
(* the consumer is about to report a failure: sessions that end and open   *)
(* during a pause, stale notifications and a ring that fills up again      *)
(* never leave it with neither.  Armed is what the producer itself sees;   *)
(* whether the consumer sees it in time is the question of DrainResumes.   *)
PauseIsArmedOrPosted ==
  pPc = "idle" /\ paused /\ ~ stopping =>
    PLoad("armed") \/ posted > 0 \/ cPc = "notifyFailure"

(* A consumer that went to sleep with nothing left to drain has posted the *)
(* resume of a paused session: "a drain that races ahead of the arm cannot *)
(* strand the session" (DESIGN.md:757).                                    *)
DrainResumes ==
  /\ pPc = "idle" /\ paused /\ ~ stopping
  /\ cPc = "waiting" /\ consumerSequence = producerSequence
  => posted > 0

(* After a failure every published batch is released, and the final count  *)
(* of rows covers all of them: no publish slips in behind the discard      *)
(* (publish_active and writer_failed; DESIGN.md:853).                      *)
NoPublishBehindDiscard ==
  cPc \in {"metrics", "done"} =>
    /\ consumerSequence = producerSequence
    /\ CLoad("rows") = producerSequence

(* Every batch is taken out of the ring, or the output fails: a wakeup     *)
(* that the delayed stores of producer and consumer lose is made up for by *)
(* the deadline of the wait (notify_writer, wake.wait_until).              *)
BatchesAreTaken ==
  \A n \in 1 .. MaxBatches :
    producerSequence >= n ~> consumerSequence >= n \/ outputError # "none"

(* An output that fails stops the run though no later message arrives to   *)
(* notice it, in whatever state sessions and pauses are (DESIGN.md:763).   *)
FailureStopsTheRun == outputError # "none" ~> stopping

(* join returns: shutdown cannot deadlock.                                 *)
JoinReturns == pPc = "join" ~> pPc = "joined"

(* The ring, its two threads and the shutdown implement the queue of       *)
(* RowQueue, however late the stores of either thread become visible.      *)
Queue == INSTANCE RowQueue WITH
           sent <- producerSequence,
           ended <- stopping,
           written <- accepted,
           outcome <- IF cPc # "done" THEN "open"
                      ELSE IF outputError = "none" THEN "complete" ELSE "failed"

ImplementsRowQueue == Queue!Spec
=============================================================================
