------------------------------ MODULE PriceSet ------------------------------
(***************************************************************************)
(* What the duplicate check of the payload parser promises: within one     *)
(* message a price counts once per side, and a new message starts afresh.  *)
(***************************************************************************)
CONSTANT Keys   \* pairs of a price and a side

VARIABLES members,   \* the keys of the current message
          result     \* what the last call answered

setVars == <<members, result>>

SetInit ==
  /\ members = {}
  /\ result = "none"

NewMessage ==
  /\ members' = {}
  /\ result' = "none"

Add(k) ==
  /\ result' = IF k \in members THEN "duplicate" ELSE "inserted"
  /\ members' = members \cup {k}

SetNext == NewMessage \/ \E k \in Keys : Add(k)
SetSpec == SetInit /\ [][SetNext]_setVars
=============================================================================
