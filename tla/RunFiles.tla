------------------------------ MODULE RunFiles ------------------------------
(***************************************************************************)
(* The files of a run in two views; a behaviour takes one of them.  bytes  *)
(* follows the bytes of one audit file, from the rows through the sink to  *)
(* the replay that reads them (AuditFile).  set follows all the files of a *)
(* live run or of a replay command, in whole rows (ReplayCommand).         *)
(***************************************************************************)
EXTENDS AuditFile, ReplayCommand

VARIABLE view   \* bytes or set

replayVars == <<outputVars, commandVars>>
filesVars == <<fileVars, replayVars, view>>

(* The view that is not taken stays in one initial state.                  *)
FilesInit ==
  /\ view \in {"bytes", "set"}
  /\ FileInit /\ ReplayInit
  /\ view = "set" => stage = "capture"
  /\ view = "bytes" => mode = "live_capture"

WriteAndReadBytes == view = "bytes" /\ FileNext /\ UNCHANGED <<replayVars, view>>
WriteSet == view = "set" /\ ReplayNext /\ UNCHANGED <<fileVars, view>>

FilesNext == WriteAndReadBytes \/ WriteSet
FilesSpec == FilesInit /\ [][FilesNext]_filesVars
=============================================================================
