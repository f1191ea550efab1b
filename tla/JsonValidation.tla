--------------------------- MODULE JsonValidation ---------------------------
(***************************************************************************)
(* json_validation.h: a value that the parsers do not use is still walked  *)
(* to its end.  validate_json_value recurses into arrays and objects and   *)
(* limits their depth; numbers go through is_valid_json_number_token.  The *)
(* recursion appears as the number of containers it is in, the token as    *)
(* one character per step.  raw_json_token reaches to the next token: it   *)
(* ends with the whitespace behind the value, which is not trimmed here    *)
(* (validate_non_object_document, for a value at the root, trims it).      *)
(***************************************************************************)
EXTENDS Integers, Sequences, SequencesExt

CONSTANTS kMaxJsonNestingDepth,
          ContainerDepth,   \* the depth the walk starts at: 2 for a field of the root
          MaxToken          \* bound on the characters of a token

ASSUME NestingAssumption == kMaxJsonNestingDepth \in Nat /\ ContainerDepth \in Nat \ {0}

JsonDigits == {"zero", "digit"}
TokenCharacters ==
  JsonDigits \cup {"minus", "point", "exponent", "plus", "other", "space"}

VARIABLES walk,    \* value, number, or the answer: SUCCESS or an error
          inside,  \* calls of validate_json_value that are not finished
          token,   \* raw_json_token of the number, as far as it was looked at
          part     \* where is_valid_json_number_token is in the token

jsonVars == <<walk, inside, token, part>>

JsonInit ==
  /\ walk = "value"
  /\ inside = 0
  /\ token = << >>
  /\ part = "start"

(* The guard of a container.                                               *)
TooDeep(depth) == depth > kMaxJsonNestingDepth

OpenContainer ==
  /\ walk = "value"
  /\ IF TooDeep(ContainerDepth + inside) THEN walk' = "DEPTH_ERROR" /\ UNCHANGED inside
     ELSE inside' = inside + 1 /\ UNCHANGED walk
  /\ UNCHANGED <<token, part>>

(* The end of a container; the walk ends with the outermost one.           *)
CloseContainer ==
  /\ walk = "value"
  /\ inside > 0
  /\ inside' = inside - 1
  /\ walk' = IF inside = 1 THEN "SUCCESS" ELSE "value"
  /\ UNCHANGED <<token, part>>

(* What the walk turns to after a value that has no fault.                 *)
AfterValue == IF inside = 0 THEN "SUCCESS" ELSE "value"

(* A null is compared with its raw token.  Strings and booleans are left   *)
(* to simdjson, and so is a value that begins with any other character.    *)
SkipNull(spelledRight, spaceBehind) ==
  /\ walk = "value"
  /\ walk' = IF spelledRight /\ ~ spaceBehind THEN AfterValue ELSE "N_ATOM_ERROR"
  /\ UNCHANGED <<inside, token, part>>

SkipOther(refused) ==
  /\ walk = "value"
  /\ walk' = IF refused THEN "SIMDJSON_ERROR" ELSE AfterValue
  /\ UNCHANGED <<inside, token, part>>

(* The parts of a number and the characters that lead from one to another; *)
(* a mutant lets a zero be followed by digits.                             *)
AfterCharacterZeros(p, c) ==
  CASE p \in {"start", "minus"} /\ c \in JsonDigits -> "whole"
    [] p = "start" /\ c = "minus" -> "minus"
    [] p = "whole" /\ c \in JsonDigits -> "whole"
    [] p = "whole" /\ c = "point" -> "point"
    [] p \in {"point", "fraction"} /\ c \in JsonDigits -> "fraction"
    [] p \in {"whole", "fraction"} /\ c = "exponent" -> "exponent"
    [] p = "exponent" /\ c \in {"plus", "minus"} -> "sign"
    [] p \in {"exponent", "sign", "power"} /\ c \in JsonDigits -> "power"
    [] OTHER -> "wrong"

AfterCharacter(p, c) ==
  CASE p \in {"start", "minus"} /\ c = "zero" -> "zero"
    [] p \in {"start", "minus"} /\ c = "digit" -> "whole"
    [] p = "start" /\ c = "minus" -> "minus"
    [] p = "whole" /\ c \in JsonDigits -> "whole"
    [] p \in {"zero", "whole"} /\ c = "point" -> "point"
    [] p \in {"point", "fraction"} /\ c \in JsonDigits -> "fraction"
    [] p \in {"zero", "whole", "fraction"} /\ c = "exponent" -> "exponent"
    [] p = "exponent" /\ c \in {"plus", "minus"} -> "sign"
    [] p \in {"exponent", "sign", "power"} /\ c \in JsonDigits -> "power"
    [] OTHER -> "wrong"

(* type() takes a value for a number by its first character.               *)
StartNumber(c) ==
  /\ walk = "value"
  /\ c \in JsonDigits \cup {"minus"}
  /\ walk' = "number"
  /\ token' = <<c>>
  /\ part' = AfterCharacter("start", c)
  /\ UNCHANGED inside

(* Nothing but space follows a space in a token.                           *)
ReadNumberCharacter(c) ==
  /\ walk = "number"
  /\ Len(token) < MaxToken
  /\ Last(token) = "space" => c = "space"
  /\ token' = Append(token, c)
  /\ part' = AfterCharacter(part, c)
  /\ UNCHANGED <<walk, inside>>

ValidNumber == part \in {"zero", "whole", "fraction", "power"}

EndNumber ==
  /\ walk = "number"
  /\ walk' = IF ValidNumber THEN AfterValue ELSE "NUMBER_ERROR"
  /\ token' = << >>
  /\ part' = "start"
  /\ UNCHANGED inside

JsonNext ==
  \/ OpenContainer \/ CloseContainer
  \/ \E a, b \in BOOLEAN : SkipNull(a, b) \/ SkipOther(a)
  \/ EndNumber \/ \E c \in TokenCharacters : StartNumber(c) \/ ReadNumberCharacter(c)

-----------------------------------------------------------------------------
IsDigits(text) == text # << >> /\ \A i \in DOMAIN text : text[i] \in JsonDigits
After(text, n) == SubSeq(text, n + 1, Len(text))

(* The grammar of JSON numbers, from the outside in.                       *)
IsExponent(text) ==
  text = << >>
    \/ /\ text[1] = "exponent"
       /\ \/ IsDigits(After(text, 1))
          \/ Len(text) > 1 /\ text[2] \in {"plus", "minus"} /\ IsDigits(After(text, 2))
IsFraction(text) == text = << >> \/ (text[1] = "point" /\ IsDigits(After(text, 1)))
IsWhole(text) == IsDigits(text) /\ (text[1] = "zero" => Len(text) = 1)
IsUnsigned(text) ==
  \E m, n \in 0 .. Len(text) :
    /\ m <= n
    /\ IsWhole(SubSeq(text, 1, m))
    /\ IsFraction(SubSeq(text, m + 1, n))
    /\ IsExponent(After(text, n))
IsJsonNumber(text) ==
  IsUnsigned(text) \/ (text # << >> /\ text[1] = "minus" /\ IsUnsigned(After(text, 1)))

WithoutSpace(text) == SelectSeq(text, LAMBDA c : c # "space")

(* A skipped number passes exactly if it is a number of JSON and the next  *)
(* token follows it directly: whitespace behind it, which JSON allows,     *)
(* makes the message malformed (json_validation.h:144).  Containers are    *)
(* refused exactly where more than kMaxJsonNestingDepth would be open, the *)
(* ones around the value included (spot_payload_parser.h:14).              *)
SkippedValuesAreValid ==
  /\ walk = "number" =>
       (ValidNumber <=> IsJsonNumber(WithoutSpace(token)) /\ Last(token) # "space")
  /\ ContainerDepth - 1 + inside <= kMaxJsonNestingDepth
  /\ walk = "DEPTH_ERROR" => ContainerDepth - 1 + inside = kMaxJsonNestingDepth
=============================================================================
