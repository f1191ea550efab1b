---------------------------- MODULE CommandLine ----------------------------
(***************************************************************************)
(* parse_command_line (command_line.cpp): one argument after the other, an *)
(* option or the value of the option before, whatever it looks like; then  *)
(* the mode.  An argument is a text; ListOf gives the symbols a text lists *)
(* and Normal what normalize_symbol makes of each.                         *)
(***************************************************************************)
EXTENDS Integers, FiniteSets, SequencesExt

CONSTANTS Arguments,       \* the texts that occur
          ListOf,          \* the symbols, as written, that each text lists
          Normal,          \* their normalized forms, or Invalid
          Invalid,
          InstrumentId,    \* derive_instrument_id of a normalized symbol
          Durations,       \* the texts that are valid numbers of seconds
          kMaxConfiguredSymbols,
          MaxArguments     \* bound on the length of the command line

LiveOptions == {"--venue", "--symbols", "--duration"}
ValueOptions == LiveOptions \cup {"--output-dir", "--replay"}
Venues == {"spot", "usdm"}
NoOptions == [venue |-> "none", symbols |-> << >>, duration |-> "none", output |-> "none",
              replay |-> << >>]

VARIABLES arguments,   \* the arguments accepted so far
          pending,     \* the option whose value is next, or none
          given,       \* venue_seen, symbols_seen, ...
          options,     \* result.options
          parsed       \* reading, an error, or the mode

lineVars == <<arguments, pending, given, options, parsed>>

LineInit ==
  /\ arguments = << >>
  /\ pending = "none"
  /\ given = {}
  /\ options = NoOptions
  /\ parsed = "reading"

LineError(error) == parsed' = error /\ UNCHANGED <<arguments, pending, given, options>>

(* Mutant: an option may be repeated.                                      *)
MayFollowAnything(option) == TRUE
MayFollow(option) == option = "--replay" \/ option \notin given

ReadOption(a) ==
  /\ parsed = "reading"
  /\ pending = "none"
  /\ Len(arguments) < MaxArguments
  /\ CASE a \notin ValueOptions \cup {"--help"} -> LineError("unknown_argument")
       [] a \in ValueOptions \cup {"--help"} /\ ~ MayFollow(a) -> LineError("duplicate_option")
       [] OTHER -> /\ arguments' = Append(arguments, a)
                   /\ pending' = IF a = "--help" THEN "none" ELSE a
                   /\ given' = given \cup {a}
                   /\ UNCHANGED <<options, parsed>>

(* parse_symbols, with the checks of validate_symbol_set.                  *)
Normalized(text) == [i \in DOMAIN ListOf[text] |-> Normal[ListOf[text][i]]]
ValidSymbols(text) ==
  /\ Len(ListOf[text]) \in 1 .. kMaxConfiguredSymbols
  /\ Invalid \notin ToSet(Normalized(text))
  /\ \A i, j \in DOMAIN ListOf[text] :
       i # j => InstrumentId[Normalized(text)[i]] # InstrumentId[Normalized(text)[j]]

ValueError(value) ==
  CASE value = "" -> "missing_value"
    [] pending = "--venue" /\ value \notin Venues -> "invalid_venue"
    [] pending = "--symbols" /\ ~ ValidSymbols(value) -> "invalid_symbols"
    [] pending = "--duration" /\ value \notin Durations -> "invalid_duration"
    [] pending = "--replay" /\ Len(options.replay) = kMaxConfiguredSymbols
         -> "too_many_replay_inputs"
    [] pending = "--replay" /\ Contains(options.replay, value) -> "duplicate_replay_input"
    [] OTHER -> "none"

WithValue(value) ==
  CASE pending = "--venue" -> [options EXCEPT !.venue = value]
    [] pending = "--symbols" -> [options EXCEPT !.symbols = Normalized(value)]
    [] pending = "--duration" -> [options EXCEPT !.duration = value]
    [] pending = "--output-dir" -> [options EXCEPT !.output = value]
    [] pending = "--replay" -> [options EXCEPT !.replay = Append(@, value)]

ReadValue(value) ==
  /\ parsed = "reading"
  /\ pending # "none"
  /\ Len(arguments) < MaxArguments
  /\ IF ValueError(value) # "none" THEN LineError(ValueError(value))
     ELSE /\ arguments' = Append(arguments, value)
          /\ options' = WithValue(value)
          /\ pending' = "none"
          /\ UNCHANGED <<given, parsed>>

(* The checks after the loop.                                              *)
ModeOf ==
  CASE pending # "none" -> "missing_value"
    [] pending = "none" /\ "--help" \in given ->
         IF Len(arguments) # 1 THEN "help_with_other_options" ELSE "help"
    [] pending = "none" /\ "--help" \notin given /\ options.replay # << >> ->
         IF given \cap LiveOptions # {} THEN "mixed_modes"
         ELSE IF "--output-dir" \notin given THEN "missing_replay_output" ELSE "replay"
    [] OTHER ->
         IF given \cap LiveOptions = {} THEN "missing_mode"
         ELSE IF ~ {"--venue", "--symbols"} \subseteq given THEN "missing_live_option"
         ELSE "live_capture"

EndOfLine ==
  /\ parsed = "reading"
  /\ parsed' = ModeOf
  /\ UNCHANGED <<arguments, pending, given, options>>

LineNext ==
  \/ \E a \in Arguments : ReadOption(a) \/ ReadValue(a)
  \/ EndOfLine

-----------------------------------------------------------------------------
(* A command line as pairs of an option and a value.                       *)
PairCount == Len(arguments) \div 2
OptionAt(i) == arguments[2 * i - 1]
ValueAt(i) == arguments[2 * i]
ValuesOf(option) ==
  [j \in 1 .. Cardinality({i \in 1 .. PairCount : OptionAt(i) = option}) |->
     ValueAt(CHOOSE i \in 1 .. PairCount :
               /\ OptionAt(i) = option
               /\ Cardinality({h \in 1 .. i : OptionAt(h) = option}) = j)]

InPairs ==
  /\ Len(arguments) % 2 = 0
  /\ \A i \in 1 .. PairCount : OptionAt(i) \in ValueOptions /\ ValueAt(i) # ""

IsLiveLine ==
  /\ ValuesOf("--replay") = << >>
  /\ Len(ValuesOf("--venue")) = 1 /\ Len(ValuesOf("--symbols")) = 1
  /\ Len(ValuesOf("--duration")) <= 1 /\ Len(ValuesOf("--output-dir")) <= 1

IsReplayLine ==
  /\ ValuesOf("--replay") # << >> /\ IsInjective(ValuesOf("--replay"))
  /\ Len(ValuesOf("--output-dir")) = 1
  /\ \A option \in LiveOptions : ValuesOf(option) = << >>

ValueOrNone(option) == IF ValuesOf(option) = << >> THEN "none" ELSE ValuesOf(option)[1]

(* What the verdict says of the command line it was reached on.            *)
VerdictFitsLine ==
  /\ parsed = "help" => arguments = <<"--help">>
  /\ parsed = "live_capture" =>
       /\ InPairs /\ IsLiveLine
       /\ options.venue = ValueOrNone("--venue")
       /\ options.duration = ValueOrNone("--duration")
       /\ options.output = ValueOrNone("--output-dir")
       /\ options.symbols = Normalized(ValuesOf("--symbols")[1])
       /\ IsInjective(options.symbols)
  /\ parsed = "replay" =>
       /\ InPairs /\ IsReplayLine
       /\ options.replay = ValuesOf("--replay")
       /\ <<options.output>> = ValuesOf("--output-dir")
  /\ parsed \in {"help_with_other_options", "mixed_modes", "missing_replay_output",
                 "missing_mode", "missing_live_option", "missing_value"} =>
       /\ arguments # <<"--help">>
       /\ ~ (InPairs /\ (IsLiveLine \/ IsReplayLine))
=============================================================================
