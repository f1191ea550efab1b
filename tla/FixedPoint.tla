----------------------------- MODULE FixedPoint -----------------------------
(***************************************************************************)
(* parse_decimal_1e8 (fixed_point.cpp): the text of a price or quantity as *)
(* an integer number of 10^-8 units, in 64-bit arithmetic, with every      *)
(* product and sum guarded beforehand.  One action per character; the      *)
(* character 10 is the point and 11 stands for everything else.            *)
(***************************************************************************)
EXTENDS Integers, Sequences, SequencesExt

CONSTANTS ScaleDigits,   \* 8 in the code
          Maximum,       \* numeric_limits<int64_t>::max()
          Characters,    \* the characters that occur
          MaxLength      \* bound on the length of the text

Point == 10
Digits == 0 .. 9
kDecimalScale == 10 ^ ScaleDigits
maximum_whole == Maximum \div kDecimalScale

ASSUME ScaleDigitsAssumption == ScaleDigits \in Nat \ {0}
(* C++ rounds a negative quotient towards zero; no quotient is negative.   *)
ASSUME MaximumAssumption == Maximum \in Nat /\ maximum_whole >= 9
ASSUME CharactersAssumption == Characters \subseteq 0 .. 11

VARIABLES input,              \* history: the characters read so far
          phase,              \* start, whole, point, fraction, done, failed
          whole, fraction, fractionalDigits, value,
          error

parseVars == <<input, phase, whole, fraction, fractionalDigits, value, error>>

ParseInit ==
  /\ input = << >>
  /\ phase = "start"
  /\ whole = 0
  /\ fraction = 0
  /\ fractionalDigits = 0
  /\ value = 0
  /\ error = "none"

Failure(cause) ==
  /\ phase' = "failed"
  /\ error' = cause
  /\ UNCHANGED <<whole, fraction, fractionalDigits, value>>

(* The first character and the loop over the integer part; a mutant has a  *)
(* guard that is too strict.                                               *)
WholeFitsStrictly(digit) == whole < (maximum_whole - digit) \div 10
WholeFits(digit) == whole <= (maximum_whole - digit) \div 10

ReadWhole(c) ==
  /\ phase \in {"start", "whole"}
  /\ CASE c = Point /\ phase = "start" -> Failure("missing_integer_digits")
       [] c = Point /\ phase = "whole" ->
            phase' = "point" /\ UNCHANGED <<whole, fraction, fractionalDigits, value, error>>
       [] c \in Digits ->
            IF WholeFits(c)
            THEN /\ phase' = "whole"
                 /\ whole' = whole * 10 + c
                 /\ UNCHANGED <<fraction, fractionalDigits, value, error>>
            ELSE Failure("overflow")
       [] OTHER -> Failure("invalid_character")

(* The loop over the fraction.                                             *)
ReadFraction(c) ==
  /\ phase \in {"point", "fraction"}
  /\ CASE c \notin Digits -> Failure("invalid_character")
       [] c \in Digits /\ fractionalDigits >= ScaleDigits /\ c # 0 ->
            Failure("non_zero_discarded_digit")
       [] OTHER ->
            /\ phase' = "fraction"
            /\ fraction' = IF fractionalDigits < ScaleDigits THEN fraction * 10 + c
                           ELSE fraction
            /\ fractionalDigits' = fractionalDigits + 1
            /\ UNCHANGED <<whole, value, error>>

(* The padding of the fraction, and the final guard.                       *)
Padded == IF fractionalDigits < ScaleDigits
          THEN fraction * 10 ^ (ScaleDigits - fractionalDigits) ELSE fraction

Finish ==
  /\ phase \in {"start", "whole", "point", "fraction"}
  /\ CASE phase = "start" -> Failure("empty")
       [] phase = "point" -> Failure("missing_fractional_digits")
       [] OTHER ->
            IF whole > (Maximum - Padded) \div kDecimalScale THEN Failure("overflow")
            ELSE /\ phase' = "done"
                 /\ value' = whole * kDecimalScale + Padded
                 /\ UNCHANGED <<whole, fraction, fractionalDigits, error>>
  /\ UNCHANGED input

ReadCharacter(c) ==
  /\ Len(input) < MaxLength
  /\ input' = Append(input, c)
  /\ ReadWhole(c) \/ ReadFraction(c)

ParseNext == (\E c \in Characters : ReadCharacter(c)) \/ Finish
ParseSpec == ParseInit /\ [][ParseNext]_parseVars

-----------------------------------------------------------------------------
(* What the text means, by itself: its digits as one number, and how many  *)
(* of them follow the point.                                               *)
DigitsOf(text) == SelectSeq(text, LAMBDA c : c \in Digits)
NumberOf(text) == FoldLeft(LAMBDA n, c : 10 * n + c, 0, DigitsOf(text))
AfterPoint(text) ==
  IF Contains(text, Point)
  THEN Len(text) - (CHOOSE i \in DOMAIN text : text[i] = Point) ELSE 0

(* A parsed value is exactly the number in the text, however long its zero *)
(* tail, and it fits; a text is refused for its size or its precision only *)
(* when no 64-bit value stands for it, or for any longer text that starts  *)
(* with it; and no intermediate result leaves 64 bits before a guard looks *)
(* at it.                                                                  *)
ParsesExactly ==
  /\ phase = "done" =>
       /\ value * 10 ^ AfterPoint(input) = NumberOf(input) * kDecimalScale
       /\ value <= Maximum
  /\ error = "overflow" =>
       NumberOf(input) * kDecimalScale > Maximum * 10 ^ AfterPoint(input)
  /\ error = "non_zero_discarded_digit" =>
       (NumberOf(input) * kDecimalScale) % (10 ^ AfterPoint(input)) # 0
  /\ whole * kDecimalScale <= Maximum
  /\ fraction < kDecimalScale
  /\ Padded < kDecimalScale
=============================================================================
