---------------------------- MODULE CsvOutputSet ----------------------------
(***************************************************************************)
(* CsvOutputSet (csv_output_set.cpp): the files of a run, an audit and an  *)
(* order-book file per symbol in live capture, an order-book file per      *)
(* symbol in replay.  open_live / open_replay create the directory and the *)
(* files one after the other, and roll everything back when one fails;     *)
(* then the writer thread calls write_batch, flush_all and close_all.  A   *)
(* file behaves as BufferedFileSink shows, seen by the rows it holds.      *)
(***************************************************************************)
EXTENDS Integers, Sequences, SequencesExt

CONSTANTS TargetCount,   \* number of symbols
          MaxBatches     \* bound on the calls of write_batch for a target

ASSUME TargetCountAssumption == TargetCount \in Nat \ {0}
ASSUME MaxBatchesAssumption == MaxBatches \in Nat

Targets == 1 .. TargetCount

VARIABLES mode,             \* mode_: live_capture or replay, constant
          phase,            \* preparing, opening, rolling_back, failed, ready, closed
          directory,        \* the output directory: absent, ours or given
          sinks,            \* the file of each target and kind
          next,             \* what open_files or the rollback turns to next
          rollbackError,    \* error.rollback_error is set
          firstError,       \* first_error_
          accepted          \* history: rows write_batch was given for each file

outputVars == <<mode, phase, directory, sinks, next, rollbackError, firstError, accepted>>

FileKinds == IF mode = "live_capture" THEN {"audit", "book"} ELSE {"book"}
FirstKind == IF mode = "live_capture" THEN "audit" ELSE "book"

NoSink == [open |-> FALSE, created |-> FALSE, exists |-> FALSE, failed |-> FALSE,
           buffered |-> << >>, durable |-> << >>]
NewSink == [NoSink EXCEPT !.open = TRUE, !.created = TRUE, !.exists = TRUE]

OutputInit ==
  /\ mode \in {"live_capture", "replay"}
  /\ phase = "preparing"
  /\ directory \in {"absent", "given"}
  /\ sinks = [t \in Targets |-> [k \in FileKinds |-> NoSink]]
  /\ next = <<1, FirstKind>>
  /\ rollbackError = FALSE
  /\ firstError = "none"
  /\ accepted = [t \in Targets |-> [k \in FileKinds |-> << >>]]

-----------------------------------------------------------------------------
(* Opening, and rolling back.                                              *)

(* open_live and open_replay check what they are given before they touch   *)
(* the file system.                                                        *)
RejectArguments ==
  /\ phase = "preparing"
  /\ phase' = "failed"
  /\ UNCHANGED <<mode, directory, sinks, next, rollbackError, firstError, accepted>>

(* A missing directory is created; a given one must be empty.              *)
PrepareOutputDirectory ==
  /\ phase = "preparing"
  /\ \/ /\ phase' = "opening"
        /\ next' = <<1, FirstKind>>
        /\ directory' = IF directory = "absent" THEN "ours" ELSE directory
     \/ /\ phase' = "rolling_back"
        /\ next' = <<TargetCount, "book">>
        /\ UNCHANGED directory
  /\ UNCHANGED <<mode, sinks, rollbackError, firstError, accepted>>

(* open_exclusive fails to open the file, or to write its header; in the   *)
(* second case the sink removes the file, and open_files tries once more.  *)
OpenFails(t, k) ==
  /\ phase' = "rolling_back"
  /\ next' = <<TargetCount, "book">>
  /\ \E headerFails, firstRemovalFails, secondRemovalFails \in BOOLEAN :
       LET left == headerFails /\ firstRemovalFails /\ secondRemovalFails
       IN  /\ sinks' = [sinks EXCEPT ![t][k].exists = left]
           /\ rollbackError' = left
  /\ UNCHANGED <<mode, directory, firstError, accepted>>

OpenSucceeds(t, k) ==
  /\ sinks' = [sinks EXCEPT ![t][k] = NewSink]
  /\ phase' = IF k = "book" /\ t = TargetCount THEN "ready" ELSE "opening"
  /\ next' = CASE k = "audit" -> <<t, "book">>
               [] k = "book" /\ mode = "live_capture" -> <<t + 1, "audit">>
               [] OTHER -> <<t + 1, "book">>
  /\ UNCHANGED <<mode, directory, rollbackError, firstError, accepted>>

OpenFile ==
  /\ phase = "opening"
  /\ OpenSucceeds(next[1], next[2]) \/ OpenFails(next[1], next[2])

(* The loop over the targets has ended; a mutant ends one target early.    *)
RolledBackAlmost == next[1] <= 1
RolledBack == next[1] = 0

(* One target of rollback_initialization: close its files, remove the ones *)
(* this run created.  The removal of a file may fail.                      *)
RollbackTarget ==
  /\ phase = "rolling_back"
  /\ ~ RolledBack
  /\ \E stays \in SUBSET {k \in FileKinds : sinks[next[1]][k].created}, closeFails \in BOOLEAN :
       /\ closeFails => \E k \in FileKinds : sinks[next[1]][k].open
       /\ sinks' = [sinks EXCEPT ![next[1]] =
                     [k \in FileKinds |-> IF @[k].created
                                      THEN [@[k] EXCEPT !.open = FALSE, !.created = FALSE,
                                                        !.exists = k \in stays]
                                      ELSE @[k]]]
       /\ rollbackError' = (rollbackError \/ closeFails \/ stays # {})
  /\ next' = <<next[1] - 1, "book">>
  /\ UNCHANGED <<mode, phase, directory, firstError, accepted>>

SomeFileExists == \E t \in Targets, k \in FileKinds : sinks[t][k].exists

(* rmdir fails while a file is left in the directory.                      *)
RollbackDirectory ==
  /\ phase = "rolling_back"
  /\ RolledBack
  /\ phase' = "failed"
  /\ \E refused \in BOOLEAN :
       IF directory # "ours" THEN UNCHANGED <<directory, rollbackError>>
       ELSE IF refused \/ SomeFileExists
       THEN rollbackError' = TRUE /\ UNCHANGED directory
       ELSE directory' = "absent" /\ UNCHANGED rollbackError
  /\ UNCHANGED <<mode, sinks, next, firstError, accepted>>

-----------------------------------------------------------------------------
(* What a call on a file can do to it; the outcome with failed set is the  *)
(* one that returns an error.                                              *)
Failed(s) == [s EXCEPT !.failed = TRUE]
Flushed(s) == [s EXCEPT !.durable = @ \o s.buffered, !.buffered = << >>]

AppendOutcomes(s, row) ==
  IF s.failed THEN {s}
  ELSE {Failed(s), Failed(Flushed(s)),
        [s EXCEPT !.buffered = Append(@, row)],
        [Flushed(s) EXCEPT !.buffered = <<row>>],
        [Flushed(s) EXCEPT !.durable = Append(@, row)]}

Fates == {"ok", "flush_fails", "close_fails"}

FlushSink(s, fate) ==
  IF s.failed \/ s.buffered = << >> THEN s
  ELSE IF fate = "flush_fails" THEN Failed(s) ELSE Flushed(s)

(* Mutant: close does not flush.                                           *)
CloseSinkUnflushed(s, fate) == [s EXCEPT !.open = FALSE, !.failed = @ \/ fate = "close_fails"]

CloseSink(s, fate) ==
  LET flushed == FlushSink(s, fate)
  IN  [flushed EXCEPT !.open = FALSE, !.failed = @ \/ fate = "close_fails"]

ValidBatchContract(b) ==
  IF mode = "live_capture" THEN b.book => b.audit ELSE ~ b.audit

(* The rows of a batch, in the order in which they are appended.           *)
RowsOf(b) == (IF b.audit THEN <<"audit">> ELSE << >>) \o (IF b.book THEN <<"book">> ELSE << >>)

LatchError(code) == IF firstError = "none" THEN code ELSE firstError

(* write_batch appends the audit row first and stops at the first error.   *)
(* The rows of a target are numbered by the call.                          *)
Calls(t) == Len(accepted[t][FirstKind])

WriteBatch(t, b) ==
  LET row == Calls(t) + 1
      kinds == RowsOf(b)
  IN  /\ phase = "ready"
      /\ firstError = "none"
      /\ Calls(t) < MaxBatches
      /\ kinds # << >>
      /\ ValidBatchContract(b)
      /\ accepted' = [accepted EXCEPT ![t] =
                        [k \in FileKinds |-> IF Contains(kinds, k) THEN Append(@[k], row) ELSE @[k]]]
      /\ \E first \in AppendOutcomes(sinks[t][kinds[1]], row) :
           IF first.failed \/ Len(kinds) = 1
           THEN /\ sinks' = [sinks EXCEPT ![t][kinds[1]] = first]
                /\ firstError' = IF first.failed THEN "file_failure" ELSE "none"
           ELSE \E second \in AppendOutcomes(sinks[t][kinds[2]], row) :
                  /\ sinks' = [sinks EXCEPT ![t] = [@ EXCEPT ![kinds[1]] = first,
                                                             ![kinds[2]] = second]]
                  /\ firstError' = IF second.failed THEN "file_failure" ELSE "none"
      /\ UNCHANGED <<mode, phase, directory, next, rollbackError>>

(* flush_all and close_all visit every file, whatever happened to others.  *)
ForEachSink(Call(_, _)) ==
  /\ \E fates \in [Targets -> [FileKinds -> Fates]] :
       sinks' = [t \in Targets |-> [k \in FileKinds |-> Call(sinks[t][k], fates[t][k])]]
  /\ firstError' = IF \E t \in Targets, k \in FileKinds : sinks'[t][k].failed
                   THEN LatchError("file_failure") ELSE firstError
  /\ UNCHANGED <<mode, directory, next, rollbackError, accepted>>

FlushAll ==
  /\ phase = "ready"
  /\ ForEachSink(FlushSink)
  /\ UNCHANGED phase

CloseAll ==
  /\ phase = "ready"
  /\ ForEachSink(CloseSink)
  /\ phase' = "closed"

OpenFiles ==
  \/ RejectArguments \/ PrepareOutputDirectory \/ OpenFile
  \/ RollbackTarget \/ RollbackDirectory

OutputNext ==
  \/ OpenFiles
  \/ \E t \in Targets, b \in [audit : BOOLEAN, book : BOOLEAN] : WriteBatch(t, b)
  \/ FlushAll \/ CloseAll

OutputSpec == OutputInit /\ [][OutputNext]_outputVars

-----------------------------------------------------------------------------
(* A run that cannot open all of its files leaves nothing behind, neither  *)
(* files nor a directory it made, unless it reports a rollback error; and  *)
(* in no case does it keep a descriptor.                                   *)
FailedOpenLeavesNothing ==
  phase = "failed" =>
    /\ \A t \in Targets, k \in FileKinds : ~ sinks[t][k].open
    /\ ~ rollbackError => ~ SomeFileExists /\ directory # "ours"

(* A set that closed without an error holds every row it was given, in     *)
(* order, in every file, though errors of the files are noticed at         *)
(* different calls and most rows reach them only through later ones.  At   *)
(* any time, closed or not, a book row is never taken without the audit    *)
(* row of the same event: when a batch fails half way it is the book row   *)
(* that is missing (DESIGN.md, invariant 3).                               *)
OutputsAreComplete ==
  /\ phase = "closed" =>
       \A t \in Targets, k \in FileKinds :
         /\ ~ sinks[t][k].open
         /\ firstError = "none" => sinks[t][k].durable = accepted[t][k]
  /\ mode = "live_capture" =>
       \A t \in Targets :
         ToSet(sinks[t]["book"].durable \o sinks[t]["book"].buffered)
           \subseteq ToSet(sinks[t]["audit"].durable \o sinks[t]["audit"].buffered)
=============================================================================
