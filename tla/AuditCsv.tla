------------------------------ MODULE AuditCsv ------------------------------
(***************************************************************************)
(* The audit file as bytes: append_quoted_field and                        *)
(* format_market_data_csv_row (csv_formatter.cpp), which write a row, and  *)
(* MarketDataReplayReader::next (market_data_replay.cpp), which frames and *)
(* decodes it again.  A byte is one of the four kinds the code tells       *)
(* apart; the unquoted fields are kept as text.                            *)
(***************************************************************************)
EXTENDS CsvLimits, Integers, Sequences, FiniteSets, SequencesExt

CONSTANTS UnquotedFields,   \* columns before the payload, 8 in the code
          MaxPayload        \* kMaxPayloadBytes

ASSUME UnquotedFieldsAssumption == UnquotedFields \in Nat \ {0}
ASSUME MaxPayloadAssumption == MaxPayload \in Nat

Byte == {"quote", "comma", "newline", "other"}

VARIABLES consumed,    \* history: the bytes read so far
          record,      \* record_buffer_
          frame,       \* CsvFrameState
          status,      \* reading, end_of_file, or the latched error
          decoded      \* the rows next has returned

csvVars == <<consumed, record, frame, status, decoded>>

-----------------------------------------------------------------------------
(* Writing.                                                                *)

(* Mutant: quotes are not doubled.                                         *)
AppendQuotedFieldPlainly(field) == <<"quote">> \o field \o <<"quote">>

AppendQuotedField(field) ==
  <<"quote">>
  \o FlattenSeq([i \in DOMAIN field |->
                  IF field[i] = "quote" THEN <<"quote", "quote">> ELSE <<field[i]>>])
  \o <<"quote">>

(* A row is the text of its unquoted fields, commas included, and the      *)
(* payload.  The formatter refuses a record that is too large.             *)
FieldsText == FlattenSeq([i \in 1 .. UnquotedFields |-> <<"other", "comma">>])
FormatRow(row) == row.fields \o AppendQuotedField(row.payload) \o <<"newline">>
Formattable(row) == Len(FormatRow(row)) <= kMaxCsvRecordBytes

FileOf(written) == FlattenSeq([i \in DOMAIN written |-> FormatRow(written[i])])

-----------------------------------------------------------------------------
(* Reading.  The automaton of read_logical_record; record and error are    *)
(* the ways out of it.                                                     *)

Frame(state, byte) ==
  CASE state = "field_start" ->
         (CASE byte = "quote" -> "quoted"
            [] byte = "comma" -> "field_start"
            [] byte = "newline" -> "record"
            [] byte = "other" -> "unquoted")
    [] state = "unquoted" ->
         (CASE byte = "quote" -> "error"
            [] byte = "comma" -> "field_start"
            [] byte = "newline" -> "record"
            [] byte = "other" -> "unquoted")
    [] state = "quoted" -> IF byte = "quote" THEN "quote_closed" ELSE "quoted"
    [] state = "quote_closed" ->
         (CASE byte = "quote" -> "quoted"
            [] byte = "comma" -> "field_start"
            [] byte = "newline" -> "record"
            [] byte = "other" -> "error")

(* decode_record.  Commas(row) are the positions of the commas; the        *)
(* payload starts behind the one that ends the last unquoted field.        *)
Commas(row) == {i \in DOMAIN row : row[i] = "comma"}
PayloadStart(row) ==
  1 + (CHOOSE i \in Commas(row) :
         Cardinality({j \in Commas(row) : j <= i}) = UnquotedFields)

(* Each field is the non-empty text of a number, a name or a symbol.       *)
ValidFields(row) ==
  /\ Cardinality(Commas(row)) >= UnquotedFields
  /\ LET end == PayloadStart(row) - 1
     IN  \A i \in 1 .. end : IF row[i] = "comma" THEN i > 1 /\ row[i - 1] = "other"
                             ELSE row[i] = "other"

Encoded(row) == SubSeq(row, PayloadStart(row), Len(row))

(* The loop over the payload between its quotes, from offset on.           *)
Unquoted(body) ==
  LET from[i \in 1 .. Len(body) + 2] ==
        IF i > Len(body) THEN << >>
        ELSE IF body[i] = "quote"
        THEN <<"quote">> \o from[i + 2]
        ELSE <<body[i]>> \o from[i + 1]
  IN  from[1]

(* Mutant: whatever follows a quote is taken for its double.               *)
QuotesAccepted(body) == TRUE

(* Every quote the loop stops at is followed by a second one.              *)
QuotesPaired(body) ==
  LET paired[i \in 1 .. Len(body) + 2] ==
        IF i > Len(body) THEN TRUE
        ELSE IF body[i] = "quote"
        THEN i < Len(body) /\ body[i + 1] = "quote" /\ paired[i + 2]
        ELSE paired[i + 1]
  IN  paired[1]

Body(row) == SubSeq(Encoded(row), 2, Len(Encoded(row)) - 1)

ValidPayload(row) ==
  LET encoded == Encoded(row)
  IN  /\ Len(encoded) >= 2
      /\ encoded[1] = "quote" /\ encoded[Len(encoded)] = "quote"
      /\ QuotesPaired(Body(row))
      /\ Len(Unquoted(Body(row))) <= MaxPayload

Decodes(row) == ValidFields(row) /\ ValidPayload(row)

(* A complete record, newline included, is decoded or latches an error.    *)
FinishRecord(line) ==
  LET row == Front(line)
  IN  IF Decodes(row)
      THEN /\ decoded' = Append(decoded, [fields |-> SubSeq(row, 1, PayloadStart(row) - 1),
                                         payload |-> Unquoted(Body(row))])
           /\ record' = << >>
           /\ frame' = "field_start"
           /\ UNCHANGED status
      ELSE /\ status' = "decode_error"
           /\ UNCHANGED <<decoded, record, frame>>

ReadByte(byte) ==
  /\ status = "reading"
  /\ consumed' = Append(consumed, byte)
  /\ IF Len(record) = kMaxCsvRecordBytes
     THEN status' = "record_too_large" /\ UNCHANGED <<record, frame, decoded>>
     ELSE CASE Frame(frame, byte) = "error" ->
                 status' = "invalid_csv" /\ UNCHANGED <<record, frame, decoded>>
            [] Frame(frame, byte) = "record" -> FinishRecord(Append(record, byte))
            [] OTHER -> /\ record' = Append(record, byte)
                        /\ frame' = Frame(frame, byte)
                        /\ UNCHANGED <<status, decoded>>

EndOfFile ==
  /\ status = "reading"
  /\ status' = IF record = << >> THEN "end_of_file" ELSE "truncated_record"
  /\ UNCHANGED <<consumed, record, frame, decoded>>

ReaderInit ==
  /\ consumed = << >>
  /\ record = << >>
  /\ frame = "field_start"
  /\ status = "reading"
  /\ decoded = << >>

-----------------------------------------------------------------------------
(* The reader accepts one spelling of a payload only: whatever the file,   *)
(* the rows it returns are, formatted again, the very bytes it read.  (The *)
(* fields are kept as text: a number may have leading zeros.)              *)
PayloadsHaveOneSpelling ==
  status \in {"reading", "end_of_file", "truncated_record"} =>
    consumed = FileOf(decoded) \o record
=============================================================================
