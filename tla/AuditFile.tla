----------------------------- MODULE AuditFile ------------------------------
(***************************************************************************)
(* The audit file from end to end: rows are formatted (AuditCsv), written  *)
(* through the buffer of the sink (BufferedFileSink), and the file that    *)
(* results is read back by a replay (AuditCsv).  The capture may close the *)
(* file, fail half way, or be killed at any point.  The replay may also be *)
(* given a file that some other program wrote.                             *)
(***************************************************************************)
EXTENDS BufferedFileSink, AuditCsv

CONSTANTS Payloads,    \* the payloads of the rows of a capture
          MaxFileRows, \* bound on the rows of a capture
          MaxBytes     \* bound on the bytes of a file from elsewhere

ASSUME PayloadsAssumption == \A payload \in Payloads : Len(payload) <= MaxPayload

VARIABLES stage,    \* capture, replay, or foreign: a replay of any bytes
          rows      \* history: the rows the sink accepted

fileVars == <<sinkVars, csvVars, stage, rows>>

FileInit ==
  /\ SinkInit
  /\ ReaderInit
  /\ stage \in {"capture", "foreign"}
  /\ rows = << >>

(* A row that cannot be formatted never reaches the sink.                  *)
WriteRow(row) ==
  /\ stage = "capture"
  /\ Len(rows) < MaxFileRows
  /\ Formattable(row)
  /\ AppendRecord(FormatRow(row))
  /\ rows' = IF records' # records THEN Append(rows, row) ELSE rows
  /\ UNCHANGED <<csvVars, stage>>

SinkCall ==
  /\ stage = "capture"
  /\ Flush \/ Close \/ SinkStep
  /\ UNCHANGED <<csvVars, stage, rows>>

(* The capture is over, or dead.  MarketDataReplayReader::open accepts a   *)
(* file that starts with the header.                                       *)
StartReplay ==
  /\ stage = "capture"
  /\ exists
  /\ IsPrefix(Header, file)
  /\ stage' = "replay"
  /\ UNCHANGED <<sinkVars, csvVars, rows>>

ReadFile ==
  /\ stage = "replay"
  /\ LET position == Len(Header) + Len(consumed) + 1
     IN  IF position <= Len(file) THEN ReadByte(file[position]) ELSE EndOfFile
  /\ UNCHANGED <<sinkVars, stage, rows>>

ReadForeignFile ==
  /\ stage = "foreign"
  /\ \/ Len(consumed) < MaxBytes /\ \E byte \in Byte : ReadByte(byte)
     \/ EndOfFile
  /\ UNCHANGED <<sinkVars, stage, rows>>

FileNext ==
  \/ \E payload \in Payloads : WriteRow([fields |-> FieldsText, payload |-> payload])
  \/ SinkCall
  \/ StartReplay \/ ReadFile \/ ReadForeignFile

FileSpec == FileInit /\ [][FileNext]_fileVars

-----------------------------------------------------------------------------
CleanlyClosed == ~ opened /\ job.phase = "idle" /\ sinkError = "none"

(* Replay reads back what capture wrote: whatever bytes the payloads hold, *)
(* and wherever the file was cut off, the records returned are the first   *)
(* rows that were written, nothing is refused but a torn last row, and the *)
(* end of the file is clean exactly between two rows.  No row that capture *)
(* reported as written is missing, and after a clean close none is.        *)
ReadsBackWhatWasWritten ==
  stage = "replay" =>
    /\ IsPrefix(decoded, rows)
    /\ status \in {"reading", "end_of_file", "truncated_record"}
    /\ status # "reading" =>
         /\ status = "end_of_file" <=> consumed = FileOf(decoded)
         /\ Len(decoded) >= rowsWritten
         /\ CleanlyClosed => decoded = rows
=============================================================================
