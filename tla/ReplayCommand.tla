--------------------------- MODULE ReplayCommand ---------------------------
(***************************************************************************)
(* run_replay (main.cpp) on its output set: every input is inspected,      *)
(* then the files are opened, then the inputs are read again, one after    *)
(* the other (replay_market_data_file), up to the first error; then the    *)
(* files are closed whatever happened.  An input may change between the    *)
(* two readings, for instance because a capture still writes it.  A live   *)
(* run uses the same output set from its writer thread.                    *)
(***************************************************************************)
EXTENDS CsvOutputSet

CONSTANTS Inputs,       \* files: path, normalized path, its parent, and stem
          Directories,  \* normalized paths of output directories
          Symbols,      \* the symbols that may be read from an input
          MaxRows       \* bound on the rows of an input

ASSUME MaxRowsAssumption == MaxRows \in Nat

VARIABLES command,    \* live, inspecting, checking, opening, replaying, closing, exited
          options,    \* replay_inputs and output_directory
          metadata,   \* the symbols read by the inspection
          position,   \* index of the loop over the inputs
          reader,     \* of the input at position: unopened, first (no state yet) or open
          counts,     \* rows_read, rows_processed, book_rows
          exitCode,
          regenerated \* history: what was processed of each input

commandVars == <<command, options, metadata, position, reader, counts, exitCode, regenerated>>

(* The command line repeats no path; two paths may name one file.          *)
InputLists ==
  {inputs \in [Targets -> Inputs] : \A i, j \in Targets : i # j => inputs[i].path # inputs[j].path}

(* The symbol of its rows, how many there were and how many moved the      *)
(* book, and whether it was read to its end.                               *)
NotRead == [symbol |-> "none", rows |-> 0, books |-> 0, complete |-> FALSE]

ReplayInit ==
  /\ OutputInit
  /\ command = IF mode = "replay" THEN "inspecting" ELSE "live"
  /\ options \in [inputs : InputLists, output : Directories]
  /\ mode = "live_capture" => options = CHOOSE o \in [inputs : InputLists, output : Directories] : TRUE
  /\ metadata = << >>
  /\ position = 1
  /\ reader = "unopened"
  /\ counts = [read |-> 0, processed |-> 0, book |-> 0]
  /\ exitCode = "none"
  /\ regenerated = [t \in Targets |-> NotRead]

Return(code) == command' = "exited" /\ exitCode' = code

-----------------------------------------------------------------------------
(* The first loop: inspect_replay_input, and the comparison with the       *)
(* inputs before.                                                          *)
SamePath(i, j) == options.inputs[i].real = options.inputs[j].real
SameOutput(i, j, symbols) ==
  symbols[i] = symbols[j] \/ options.inputs[i].stem = options.inputs[j].stem

InspectInput ==
  /\ command = "inspecting"
  /\ \/ /\ Return("input")
        /\ UNCHANGED <<metadata, position>>
     \/ \E symbol \in Symbols :
          LET symbols == Append(metadata, symbol)
              clashes == {j \in 1 .. position - 1 :
                            SamePath(position, j) \/ SameOutput(position, j, symbols)}
          IN  /\ metadata' = symbols
              /\ IF clashes # {}
                 THEN /\ \E j \in clashes :
                           /\ \A other \in clashes : j <= other
                           /\ Return(IF SamePath(position, j) THEN "command_line" ELSE "input")
                      /\ UNCHANGED position
                 ELSE /\ command' = IF position = TargetCount THEN "checking" ELSE "inspecting"
                      /\ position' = IF position = TargetCount THEN 1 ELSE position + 1
                      /\ UNCHANGED exitCode
  /\ UNCHANGED <<outputVars, options, reader, counts, regenerated>>

(* The output directory is none of the inputs' directories.                *)
CheckOutputDirectory ==
  /\ command = "checking"
  /\ \/ Return("output")
     \/ /\ \A i \in Targets : options.output # options.inputs[i].parent
        /\ command' = "opening"
        /\ UNCHANGED exitCode
  /\ UNCHANGED <<outputVars, options, metadata, position, reader, counts, regenerated>>

OpenReplay ==
  /\ command = "opening"
  /\ OpenFiles
  /\ CASE phase' = "failed" -> Return("output")
       [] phase' = "ready" -> command' = "replaying" /\ UNCHANGED exitCode
       [] OTHER -> UNCHANGED <<command, exitCode>>
  /\ UNCHANGED <<options, metadata, position, reader, counts, regenerated>>

-----------------------------------------------------------------------------
(* The second loop: replay_market_data_file on one input after the other.  *)
(* A failure leaves it; the files are closed nevertheless.                 *)
Stop(code) == command' = "closing" /\ exitCode' = code

OpenInput ==
  /\ command = "replaying"
  /\ reader = "unopened"
  /\ \/ reader' = "first" /\ UNCHANGED <<command, exitCode>>
     \/ Stop("input") /\ UNCHANGED reader
  /\ UNCHANGED <<outputVars, options, metadata, position, counts, regenerated>>

(* The end of the input, which must have had a row, or an error in it.     *)
EndInput ==
  /\ command = "replaying"
  /\ reader \in {"first", "open"}
  /\ \/ /\ reader = "open"
        /\ regenerated' = [regenerated EXCEPT ![position].complete = TRUE]
        /\ reader' = "unopened"
        /\ position' = position + 1
        /\ IF position = TargetCount THEN Stop("success") ELSE UNCHANGED <<command, exitCode>>
     \/ Stop("input") /\ UNCHANGED <<reader, position, regenerated>>
  /\ UNCHANGED <<outputVars, options, metadata, counts>>

(* A row that is not processed: its symbol is not the one the output file  *)
(* was opened for, or the processor or its parser rejects it.              *)
RejectRow ==
  /\ command = "replaying"
  /\ reader \in {"first", "open"}
  /\ counts' = [counts EXCEPT !.read = @ + 1]
  /\ Stop("processing")
  /\ UNCHANGED <<outputVars, options, metadata, position, reader, regenerated>>

(* The comparison of the first row's symbol.                               *)
TargetMatches(symbol) == reader = "first" => symbol = metadata[position]

(* A row that is processed, and the call of write_batch, which does        *)
(* nothing if the row moved no book.                                       *)
ReplayRow(symbol, book) ==
  /\ command = "replaying"
  /\ reader \in {"first", "open"}
  /\ regenerated[position].rows < MaxRows
  /\ TargetMatches(symbol)
  /\ reader = "open" => symbol = regenerated[position].symbol
  /\ reader' = "open"
  /\ counts' = [read |-> counts.read + 1, processed |-> counts.processed + 1,
                book |-> IF book THEN counts.book + 1 ELSE counts.book]
  /\ regenerated' = [regenerated EXCEPT ![position].symbol = symbol,
                                        ![position].rows = @ + 1,
                                        ![position].books = IF book THEN @ + 1 ELSE @]
  /\ IF book THEN WriteBatch(position, [audit |-> FALSE, book |-> TRUE])
     ELSE UNCHANGED outputVars
  /\ IF firstError' # "none" THEN Stop("processing") ELSE UNCHANGED <<command, exitCode>>
  /\ UNCHANGED <<options, metadata, position>>

(* What close_all returns is the first error of the set, not only one of   *)
(* its own; a mutant forgets the earlier ones.                             *)
CloseErrorOnly == firstError' # firstError
CloseError == firstError' # "none"

CloseOutputs ==
  /\ command = "closing"
  /\ CloseAll
  /\ Return(IF CloseError THEN "output" ELSE exitCode)
  /\ UNCHANGED <<options, metadata, position, reader, counts, regenerated>>

ReplayNext ==
  \/ command = "live" /\ OutputNext /\ UNCHANGED commandVars
  \/ InspectInput \/ CheckOutputDirectory \/ OpenReplay
  \/ OpenInput \/ EndInput \/ RejectRow
  \/ \E symbol \in Symbols, book \in BOOLEAN : ReplayRow(symbol, book)
  \/ CloseOutputs

ReplaySpec == ReplayInit /\ [][ReplayNext]_<<outputVars, commandVars>>

-----------------------------------------------------------------------------
Distinct(i, j) == ~ SamePath(i, j) /\ ~ SameOutput(i, j, metadata)

(* Exit code 0 of a replay means that every input was read to its end, is  *)
(* of the symbol its output file is for, and has all its book rows on      *)
(* disk.  An error of the output, whenever it is noticed, is what the exit *)
(* code reports, though the loop has already settled on another code.      *)
(* Files exist only for inputs that are different files with different     *)
(* symbols and stems (README.md:331), outside the directories of these.    *)
ReplayExitIsHonest ==
  /\ exitCode = "success" /\ command = "exited" =>
       /\ counts.read = counts.processed
       /\ \A t \in Targets :
            /\ regenerated[t].complete /\ regenerated[t].symbol = metadata[t]
            /\ Len(sinks[t]["book"].durable) = regenerated[t].books
  /\ command = "exited" /\ (phase = "failed" \/ firstError # "none") => exitCode = "output"
  /\ mode = "replay" /\ SomeFileExists =>
       /\ \A i, j \in Targets : i # j => Distinct(i, j)
       /\ \A i \in Targets : options.output # options.inputs[i].parent
=============================================================================
