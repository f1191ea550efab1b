--------------------------- MODULE MCApplication ---------------------------
(***************************************************************************)
(* Texts for the application run: every option, and values that are valid  *)
(* in some places and not in others.  Three of them list two symbols, one  *)
(* the same symbol twice and one two symbols with the same id.             *)
(***************************************************************************)
EXTENDS Application

MCListOf ==
  [a \in Arguments |->
     CASE a = "spot,9" -> <<"spot", "9">>
       [] a = "spot,SPOT" -> <<"spot", "SPOT">>
       [] a = "9,eth" -> <<"9", "eth">>
       [] OTHER -> <<a>>]

MCNormal ==
  [s \in Arguments \cup {"SPOT", "eth"} |->
     CASE s \in {"spot", "SPOT"} -> "SPOT"
       [] s = "9" -> "9"
       [] s = "eth" -> "ETH"
       [] OTHER -> Invalid]

MCInstrumentId == [s \in {"SPOT", "9", "ETH"} |-> IF s = "SPOT" THEN 1 ELSE 2]
=============================================================================
