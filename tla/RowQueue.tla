------------------------------ MODULE RowQueue ------------------------------
(***************************************************************************)
(* What the writer promises the rest of the program: batches are written   *)
(* one by one in the order they were sent, a run is complete only when the *)
(* sender has stopped and all of them are written, and nothing is written  *)
(* after the outcome is final.  A queue that fails may do so while the     *)
(* sender still sends; what it sends then is lost, and the run has failed. *)
(***************************************************************************)
EXTENDS Naturals, Sequences

VARIABLES sent,      \* how many batches were sent
          ended,     \* the sender sends no more
          written,   \* the numbers of the batches written, in order
          outcome    \* "open", then "complete" or "failed"

Init ==
  /\ sent = 0
  /\ ended = FALSE
  /\ written = << >>
  /\ outcome = "open"

Send ==
  /\ ~ ended
  /\ sent' = sent + 1
  /\ UNCHANGED <<ended, written, outcome>>

StopSending ==
  /\ ended' = TRUE
  /\ UNCHANGED <<sent, written, outcome>>

Write ==
  /\ outcome = "open"
  /\ Len(written) < sent
  /\ written' = Append(written, Len(written) + 1)
  /\ UNCHANGED <<sent, ended, outcome>>

Complete ==
  /\ outcome = "open"
  /\ ended
  /\ Len(written) = sent
  /\ outcome' = "complete"
  /\ UNCHANGED <<sent, ended, written>>

Fail ==
  /\ outcome = "open"
  /\ outcome' = "failed"
  /\ UNCHANGED <<sent, ended, written>>

Next == Send \/ StopSending \/ Write \/ Complete \/ Fail

Spec == Init /\ [][Next]_<<sent, ended, written, outcome>>
=============================================================================
