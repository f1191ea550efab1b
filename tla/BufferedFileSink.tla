-------------------------- MODULE BufferedFileSink --------------------------
(***************************************************************************)
(* BufferedCsvFileSink (buffered_file_sink.cpp): records are collected in  *)
(* a buffer of Capacity bytes and written when the next one does not fit;  *)
(* a record larger than the buffer goes straight to the file.  write_all   *)
(* loops over native writes, each of which may take only part of the bytes *)
(* or fail; an interrupted one (EINTR) changes nothing.  The first error   *)
(* is latched.  Header and records are sequences of bytes.                 *)
(***************************************************************************)
EXTENDS CsvLimits, Integers, Sequences, FiniteSets, SequencesExt

CONSTANTS Capacity,      \* kCsvAggregationBufferBytes
          Header         \* the first line of the file

ASSUME CapacityAssumption == Capacity \in Nat \ {0}
ASSUME HeaderAssumption == Header # << >>

VARIABLES opened,        \* descriptor_ >= 0
          sinkError,     \* first_error_
          buffer, bufferedRows, rowsWritten,
          job,           \* the write_all in progress, and what follows it
          file,          \* the bytes of the file
          exists,        \* the file has not been removed
          records        \* history: the records accepted by append_record

bufferVars == <<buffer, bufferedRows>>
sinkVars ==
  <<opened, sinkError, bufferVars, rowsWritten, job, file, exists, records>>

Idle == [phase |-> "idle", out |-> << >>, offset |-> 0, then |-> "return",
         record |-> << >>]
Writing(phase, out, then, record) ==
  [phase |-> phase, out |-> out, offset |-> 0, then |-> then, record |-> record]
Closing == [Idle EXCEPT !.phase = "closing"]

(* open_exclusive has the descriptor and writes the header.                *)
SinkInit ==
  /\ opened = TRUE
  /\ sinkError = "none"
  /\ buffer = << >>
  /\ bufferedRows = 0
  /\ rowsWritten = 0
  /\ job = Writing("header", Header, "return", << >>)
  /\ file = << >>
  /\ exists = TRUE
  /\ records = << >>

LatchSinkError(code) == sinkError' = IF sinkError = "none" THEN code ELSE sinkError

-----------------------------------------------------------------------------
(* append_record, flush and close, up to their first write.                *)

InvalidRecord(record) ==
  \/ ~ opened \/ record = << >> \/ Len(record) > kMaxCsvRecordBytes
  \/ Last(record) # "newline"

Fits(record) == Len(record) <= Capacity - Len(buffer)

Store(record) ==
  /\ buffer' = buffer \o record
  /\ bufferedRows' = bufferedRows + 1

(* A record larger than the buffer goes behind the buffered ones.          *)
WriteLarge(record) ==
  IF buffer = << >> THEN Writing("direct", record, "return", << >>)
  ELSE Writing("flush", buffer, "direct", record)

AppendRecord(record) ==
  /\ job.phase = "idle"
  /\ sinkError = "none"
  /\ IF InvalidRecord(record)
     THEN LatchSinkError("invalid_record") /\ UNCHANGED <<bufferVars, job, records>>
     ELSE /\ records' = Append(records, record)
          /\ UNCHANGED sinkError
          /\ \/ /\ Len(record) > Capacity
                /\ job' = WriteLarge(record)
                /\ UNCHANGED bufferVars
             \/ /\ Len(record) <= Capacity /\ ~ Fits(record)
                /\ job' = Writing("flush", buffer, "store", record)
                /\ UNCHANGED bufferVars
             \/ /\ Fits(record)
                /\ Store(record)
                /\ UNCHANGED job
  /\ UNCHANGED <<opened, rowsWritten, file, exists>>

Flush ==
  /\ job.phase = "idle"
  /\ sinkError = "none"
  /\ opened
  /\ buffer # << >>
  /\ job' = Writing("flush", buffer, "return", << >>)
  /\ UNCHANGED <<opened, sinkError, bufferVars, rowsWritten, file, exists, records>>

(* close flushes a sink without an error; a mutant flushes any.            *)
AnyBuffered == buffer # << >>
CloseFlushes == sinkError = "none" /\ buffer # << >>

Close ==
  /\ job.phase = "idle"
  /\ opened
  /\ job' = IF CloseFlushes
            THEN Writing("flush", buffer, "close", << >>) ELSE Closing
  /\ UNCHANGED <<opened, sinkError, bufferVars, rowsWritten, file, exists, records>>

-----------------------------------------------------------------------------
InWriteAll == job.phase \in {"header", "flush", "direct"}
Left == Len(job.out) - job.offset

NativeWrite ==
  /\ InWriteAll
  /\ \E n \in 1 .. Left :
       /\ file' = file \o SubSeq(job.out, job.offset + 1, job.offset + n)
       /\ job' = [job EXCEPT !.offset = @ + n]
  /\ UNCHANGED <<opened, sinkError, bufferVars, rowsWritten, exists, records>>

(* A native write fails, or takes nothing.  A file whose header cannot be  *)
(* written is closed and removed; close goes on to close the descriptor.   *)
WriteFails ==
  /\ InWriteAll
  /\ Left > 0
  /\ LatchSinkError("write_failed")
  /\ job' = IF job.then = "close" THEN Closing ELSE Idle
  /\ opened' = (job.phase # "header")
  /\ exists' \in IF job.phase = "header" THEN BOOLEAN ELSE {exists}
  /\ UNCHANGED <<bufferVars, rowsWritten, file, records>>

(* What the flush made room for.                                           *)
RecordToStore == IF job.then = "store" THEN job.record ELSE << >>

FlushDone ==
  /\ job.phase = "flush"
  /\ Left = 0
  /\ rowsWritten' = rowsWritten + bufferedRows
  /\ buffer' = RecordToStore
  /\ bufferedRows' = IF job.then = "store" THEN 1 ELSE 0
  /\ job' = CASE job.then = "direct" -> Writing("direct", job.record, "return", << >>)
              [] job.then = "close" -> Closing
              [] OTHER -> Idle
  /\ UNCHANGED <<opened, sinkError, file, exists, records>>

WriteDone ==
  /\ job.phase \in {"header", "direct"}
  /\ Left = 0
  /\ rowsWritten' = IF job.phase = "direct" THEN rowsWritten + 1 ELSE rowsWritten
  /\ job' = Idle
  /\ UNCHANGED <<opened, sinkError, bufferVars, file, exists, records>>

CloseDescriptor ==
  /\ job.phase = "closing"
  /\ opened' = FALSE
  /\ \/ UNCHANGED sinkError
     \/ LatchSinkError("close_failed")
  /\ job' = Idle
  /\ UNCHANGED <<bufferVars, rowsWritten, file, exists, records>>

(* The rest of a call that writes.                                         *)
SinkStep == NativeWrite \/ WriteFails \/ FlushDone \/ WriteDone \/ CloseDescriptor

-----------------------------------------------------------------------------
(* The bytes of the first n records, after the header.                     *)
Stream(n) == Header \o FlattenSeq(SubSeq(records, 1, n))

(* The file holds a prefix of the accepted records: whatever the kernel    *)
(* takes at each write, and wherever it stops, no byte is lost in between, *)
(* repeated or reordered around a record that bypasses the buffer, and     *)
(* nothing is written behind a torn record, not even by close.  Without an *)
(* error the file and the buffer together hold every accepted record.  The *)
(* counters of the final summary agree with it: rows reported as written   *)
(* are complete in the file, and between calls every accepted row is       *)
(* reported as written or still buffered, except one whose append failed.  *)
FileIsPrefix ==
  /\ IsPrefix(file, Stream(Len(records)))
  /\ job.phase = "idle" /\ sinkError = "none" =>
       /\ Stream(Len(records)) = file \o buffer
       /\ ~ opened => buffer = << >>
  /\ rowsWritten > 0 => Len(Stream(rowsWritten)) <= Len(file)
  /\ job.phase = "idle" =>
       Len(records) - (rowsWritten + bufferedRows)
         \in IF sinkError = "none" THEN {0} ELSE {0, 1}
=============================================================================
