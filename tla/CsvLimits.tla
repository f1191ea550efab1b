----------------------------- MODULE CsvLimits ------------------------------
(* The limit of csv_formatter.h that the formatter, the file sink and the  *)
(* replay reader share.                                                    *)
EXTENDS Naturals

CONSTANT kMaxCsvRecordBytes   \* size of a row, newline included

ASSUME RecordBytesAssumption == kMaxCsvRecordBytes \in Nat \ {0}
=============================================================================
