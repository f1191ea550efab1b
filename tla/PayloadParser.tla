--------------------------- MODULE PayloadParser ----------------------------
(***************************************************************************)
(* SpotPayloadParser::parse (spot_payload_parser.cpp): the payload of one  *)
(* message, field by field and level by level, up to the event or the      *)
(* error that the event processor gets.  The duplicate table appears as    *)
(* the set of prices it stands for, which PriceTable shows it implements.  *)
(*                                                                         *)
(* A payload is a JSON object.  A value is "good", "other" (a string that  *)
(* is not the one expected), "mistyped", an update id or a list of levels; *)
(* a level is a pair of decimals, of which Unreadable is one that          *)
(* parse_decimal_1e8 refuses, or something that is no pair of strings.     *)
(* Text that is not JSON ends the parse wherever it is met.                *)
(***************************************************************************)
EXTENDS BookSequencing, SequencesExt, ParserLimits

CONSTANTS Levels,      \* the readable levels that occur
          KeyOrders,   \* the orders in which the keys may come
          MaxFlaws     \* bound on missing, repeated and bad values

ASSUME LevelsAssumption == Levels \subseteq LevelUpdate

Unreadable == -1
Pair(price, quantity) == [shape |-> "pair", price |-> price, quantity |-> quantity]
NoPair(shape) == [shape |-> shape, price |-> 0, quantity |-> 0]

GoodLevels == {Pair(level.price, level.quantity) : level \in Levels}
BadLevels ==
  {NoPair("misshapen"), NoPair("mistyped"), Pair(0, 1), Pair(Unreadable, 1)}
    \cup {Pair(level.price, Unreadable) : level \in Levels}

VARIABLES shape,      \* venue and kind of the stream, constant in a call
          where,      \* idle, fields, levels or done
          keys,       \* the keys still to come in this document
          fields,     \* the bits of fields
          depth,      \* result.event.depth, the sides as ranges of updates
          trade,      \* result.event.trade
          updates,    \* the filled part of updates
          levelCount, \* encountered_levels
          list,       \* the locals of parse_levels
          seen,       \* the prices of each side that insert_unique was given
          verdict,    \* result.error
          document,   \* history: the values of each key so far
          flaws       \* bounds the odd values of a document

payloadVars == <<shape, where, keys, fields, depth, trade, updates, levelCount, list, seen,
                 verdict, document, flaws>>

Kinds == {"depth_diff", "depth5", "trade"}
IsPartial == shape.kind = "depth5"
IsUsdm == shape.venue = "usdm"
UsesDepthUpdateShape == IsUsdm \/ shape.kind = "depth_diff"

TextKeys == IF UsesDepthUpdateShape THEN {"e", "s"} ELSE {}
NumberKeys ==
  CASE IsUsdm -> {"E", "T", "U", "u", "pu"}
    [] UsesDepthUpdateShape -> {"E", "U", "u"}
    [] OTHER -> {"lastUpdateId"}
LevelKeys == {"bids", "asks"}   \* "b" and "a" in the update shape

Required == TextKeys \cup NumberKeys \cup LevelKeys
AllKeys == {"e", "s", "E", "T", "U", "u", "pu", "lastUpdateId"} \cup LevelKeys

NoRange == [start |-> 0, size |-> 0]
NoDepth == [first |-> 0, final |-> 0, previous |-> 0, bids |-> NoRange, asks |-> NoRange]
NoList == [key |-> "none", start |-> 0, count |-> 0, previous |-> 0, error |-> "none"]
NoTrade == [typeMatches |-> TRUE, symbolMatches |-> TRUE]

PayloadInit ==
  /\ shape = [venue |-> "spot", kind |-> "trade"]
  /\ where = "idle"
  /\ keys = << >>
  /\ fields = {}
  /\ depth = NoDepth
  /\ trade = NoTrade
  /\ updates = << >>
  /\ levelCount = 0
  /\ list = NoList
  /\ seen = [s \in Sides |-> {}]
  /\ verdict = "none"
  /\ document = [k \in AllKeys |-> << >>]
  /\ flaws = 0

-----------------------------------------------------------------------------
(* A fresh result, begin_message, and the root of the document.            *)
FreshResult ==
  /\ fields' = {}
  /\ depth' = NoDepth
  /\ trade' = NoTrade
  /\ updates' = << >>
  /\ levelCount' = 0
  /\ list' = NoList
  /\ seen' = [s \in Sides |-> {}]
  /\ document' = [k \in AllKeys |-> << >>]
  /\ flaws' = 0

ParsePayload(venue, kind) ==
  /\ where = "idle"
  /\ shape' = [venue |-> venue, kind |-> kind]
  /\ keys' \in KeyOrders
  /\ FreshResult
  /\ \/ where' = "fields" /\ verdict' = "none"
     \/ /\ where' = "done"
        /\ verdict' \in {"payload_too_large", "malformed_json", "root_not_object"}

(* A JSON error replaces whatever error was recorded before.               *)
Break ==
  /\ where \in {"fields", "levels"}
  /\ where' = "done"
  /\ verdict' = "malformed_json"
  /\ UNCHANGED <<shape, keys, fields, depth, trade, updates, levelCount, list, seen, document,
                 flaws>>

(* record_error: the first error stands.                                   *)
RecordError(recorded, error) == IF recorded = "none" THEN error ELSE recorded

-----------------------------------------------------------------------------
(* The fields of a depth message.                                          *)
AtField(key) ==
  /\ where = "fields"
  /\ shape.kind # "trade"
  /\ keys # << >>
  /\ key = Head(keys)

Given(key, value) == document' = [document EXCEPT ![key] = Append(@, value)]
Flaw(odd) == flaws' = (IF odd THEN flaws + 1 ELSE flaws) /\ flaws' <= MaxFlaws

ReadText(key, value) ==
  /\ AtField(key)
  /\ key \in TextKeys
  /\ fields' = fields \cup {key}
  /\ verdict' = RecordError(verdict,
                  CASE value = "good" -> "none"
                    [] value = "mistyped" -> "wrong_type"
                    [] value = "other" /\ key = "e" -> "unexpected_event_type"
                    [] value = "other" /\ key = "s" -> "symbol_mismatch")
  /\ keys' = Tail(keys)
  /\ Given(key, value)
  /\ Flaw(value # "good")
  /\ UNCHANGED <<shape, where, depth, trade, updates, levelCount, list, seen>>

ReadNumber(key, value) ==
  /\ AtField(key)
  /\ key \in NumberKeys
  /\ fields' = fields \cup {key}
  /\ depth' = CASE key = "U" -> [depth EXCEPT !.first = value]
                [] key = "u" -> [depth EXCEPT !.final = value]
                [] key = "pu" -> [depth EXCEPT !.previous = value]
                [] key = "lastUpdateId" -> [depth EXCEPT !.first = value, !.final = value]
                [] OTHER -> depth
  /\ keys' = Tail(keys)
  /\ Given(key, value)
  /\ UNCHANGED <<shape, where, trade, updates, levelCount, list, seen, verdict, flaws>>

(* The times are read and not used.                                        *)
Numbers(key) == IF key \in {"E", "T"} THEN {0} ELSE UpdateId

(* A number or a list of levels of another type.                           *)
ReadMistyped(key) ==
  /\ AtField(key)
  /\ key \in NumberKeys \cup LevelKeys
  /\ fields' = fields \cup {key}
  /\ verdict' = RecordError(verdict, "wrong_type")
  /\ keys' = Tail(keys)
  /\ Given(key, IF key \in NumberKeys THEN Unreadable ELSE <<NoPair("mistyped")>>)
  /\ Flaw(TRUE)
  /\ UNCHANGED <<shape, where, depth, trade, updates, levelCount, list, seen>>

(* mark_once fails: the value is validated and not looked at.              *)
RepeatField(key) ==
  /\ where = "fields"
  /\ key \in fields
  /\ verdict' = RecordError(verdict, "duplicate_field")
  /\ Given(key, "again")
  /\ Flaw(TRUE)
  /\ UNCHANGED <<shape, where, keys, fields, depth, trade, updates, levelCount, list, seen>>

(* A key of the shape that the document lacks, or of another shape: its    *)
(* value is validated and has no other effect.                             *)
OmitField(key) ==
  /\ AtField(key)
  /\ keys' = Tail(keys)
  /\ Flaw(key \in Required)
  /\ UNCHANGED <<shape, where, fields, depth, trade, updates, levelCount, list, seen, verdict,
                 document>>

-----------------------------------------------------------------------------
(* parse_levels                                                            *)
SideOf(key) == IF key = "bids" THEN "bid" ELSE "ask"

StartLevels(key) ==
  /\ AtField(key)
  /\ key \in LevelKeys
  /\ where' = "levels"
  /\ fields' = fields \cup {key}
  /\ list' = [NoList EXCEPT !.key = key, !.start = Len(updates)]
  /\ keys' = Tail(keys)
  /\ Given(key, << >>)
  /\ UNCHANGED <<shape, depth, trade, updates, levelCount, seen, verdict, flaws>>

(* Mutant: one level too many.                                             *)
OverCapacityLate ==
  levelCount > kMaxDepthUpdates \/ (IsPartial /\ list.count >= Depth)

OverCapacity == levelCount >= kMaxDepthUpdates \/ (IsPartial /\ list.count >= Depth)

(* The checks of a level in their order.                                   *)
LevelError(side, level) ==
  CASE OverCapacity -> "too_many_levels"
    [] level.shape = "misshapen" -> "invalid_level_shape"
    [] level.shape = "mistyped" -> "wrong_type"
    [] level.price = Unreadable -> "invalid_decimal"
    [] level.price = 0 -> "non_positive_price"
    [] level.quantity = Unreadable -> "invalid_decimal"
    [] IsPartial /\ level.quantity = 0 -> "invalid_quantity"
    [] level.price \in seen[side] -> "duplicate_price"
    [] IsPartial /\ list.previous # 0 /\ ~ BetterPrice(side, list.previous, level.price)
         -> "invalid_level_order"
    [] OTHER -> "none"

ReadLevel(level) ==
  LET side == SideOf(list.key)
      error == LevelError(side, level)
      accepted == error = "none"
  IN  /\ where = "levels"
      /\ ~ OverCapacity \/ flaws < MaxFlaws
      /\ levelCount' = levelCount + 1
      /\ seen' = IF error \in {"none", "invalid_level_order"}
                 THEN [seen EXCEPT ![side] = @ \cup {level.price}] ELSE seen
      /\ updates' = IF accepted
                    THEN Append(updates, [price |-> level.price, quantity |-> level.quantity])
                    ELSE updates
      /\ list' = [list EXCEPT !.count = @ + 1,
                              !.previous = IF accepted THEN level.price ELSE @,
                              !.error = RecordError(@, error)]
      /\ document' = [document EXCEPT ![list.key][1] = Append(@, level)]
      /\ Flaw(~ accepted)
      /\ UNCHANGED <<shape, where, keys, fields, depth, trade, verdict>>

(* Mutant: the range of a side starts at the front of updates.             *)
SideRangeFromFront == [start |-> 0, size |-> Len(updates) - list.start]
SideRange == [start |-> list.start, size |-> Len(updates) - list.start]

EndLevels ==
  /\ where = "levels"
  /\ where' = "fields"
  /\ depth' = IF list.key = "bids" THEN [depth EXCEPT !.bids = SideRange]
              ELSE [depth EXCEPT !.asks = SideRange]
  /\ verdict' = RecordError(verdict, list.error)
  /\ list' = NoList
  /\ UNCHANGED <<shape, keys, fields, trade, updates, levelCount, seen, document, flaws>>

-----------------------------------------------------------------------------
(* The end of parse_depth.                                                 *)
LevelsOf(range) == SubSeq(updates, range.start + 1, range.start + range.size)

Event ==
  [first |-> depth.first, final |-> depth.final, previous |-> depth.previous,
   bids |-> LevelsOf(depth.bids), asks |-> LevelsOf(depth.asks)]

FinalError ==
  CASE ~ Required \subseteq fields -> "missing_field"
    [] UsesDepthUpdateShape /\ depth.first > depth.final -> "invalid_update_range"
    [] IsUsdm /\ depth.previous >= depth.final -> "invalid_update_range"
    [] IsPartial /\ depth.bids.size # 0 /\ depth.asks.size # 0
         /\ Event.bids[1].price >= Event.asks[1].price -> "crossed_book"
    [] OTHER -> "none"

EndOfObject ==
  /\ where = "fields"
  /\ shape.kind # "trade"
  /\ keys = << >>
  /\ where' = "done"
  /\ verdict' = RecordError(verdict, FinalError)
  /\ UNCHANGED <<shape, keys, fields, depth, trade, updates, levelCount, list, seen, document,
                 flaws>>

(* parse_trade looks at the type and the symbol, as often as they come,    *)
(* and rejects neither.                                                    *)
ReadTradeField(key, value) ==
  /\ where = "fields"
  /\ shape.kind = "trade"
  /\ key \in {"e", "s"}
  /\ trade' = IF key = "e" THEN [trade EXCEPT !.typeMatches = @ /\ value = "good"]
              ELSE [trade EXCEPT !.symbolMatches = @ /\ value = "good"]
  /\ UNCHANGED <<shape, where, keys, fields, depth, updates, levelCount, list, seen, verdict,
                 document, flaws>>

EndOfTrade ==
  /\ where = "fields"
  /\ shape.kind = "trade"
  /\ where' = "done"
  /\ UNCHANGED <<shape, keys, fields, depth, trade, updates, levelCount, list, seen, verdict,
                 document, flaws>>

PayloadStep ==
  \/ Break
  \/ \E key \in AllKeys, value \in {"good", "other", "mistyped"} :
       ReadText(key, value) \/ ReadTradeField(key, value)
  \/ \E key \in AllKeys : \E value \in Numbers(key) : ReadNumber(key, value)
  \/ \E key \in AllKeys :
       ReadMistyped(key) \/ RepeatField(key) \/ OmitField(key) \/ StartLevels(key)
  \/ \E level \in GoodLevels \cup BadLevels : ReadLevel(level)
  \/ EndLevels \/ EndOfObject \/ EndOfTrade

PayloadNext ==
  \/ \E venue \in Venues, kind \in Kinds : ParsePayload(venue, kind)
  \/ PayloadStep

PayloadSpec == PayloadInit /\ [][PayloadNext]_payloadVars

-----------------------------------------------------------------------------
(* The classes of errors the event processor tells apart (audit_eligible). *)
ParseClass(error) ==
  CASE error = "none" -> "ok"
    [] error \in {"payload_too_large", "malformed_json", "root_not_object",
                  "internal_capacity_error"} -> "unauditable"
    [] OTHER -> "schema"

(* What the text says, read without the parser's state: the levels of a    *)
(* side as the document lists them.                                        *)
Listed(key) ==
  LET levels == document[key][1]
  IN  [i \in DOMAIN levels |-> [price |-> levels[i].price, quantity |-> levels[i].quantity]]

WellFormedList(key) ==
  /\ \A i \in DOMAIN document[key][1] : document[key][1][i] \in GoodLevels
  /\ IF IsPartial THEN IsSide(Listed(key), SideOf(key)) ELSE UniquePrices(Listed(key))

WellFormedDocument ==
  /\ \A key \in Required : Len(document[key]) = 1
  /\ \A key \in TextKeys : document[key][1] = "good"
  /\ \A key \in NumberKeys : document[key][1] # Unreadable
  /\ \A key \in LevelKeys : WellFormedList(key)
  /\ Len(Listed("bids")) + Len(Listed("asks")) <= kMaxDepthUpdates
  /\ UsesDepthUpdateShape => document["U"][1] <= document["u"][1]
  /\ IsUsdm => document["pu"][1] < document["u"][1]
  /\ IsPartial => ~ Crossed(Listed("bids"), Listed("asks"))

(* A depth payload that was read to its end is accepted exactly if the     *)
(* text is well formed as a whole, in whatever order its fields come and   *)
(* whatever went wrong first; otherwise it is a schema error, which keeps  *)
(* its audit row.  One that was not read to its end never gets a row, so   *)
(* that the audit file holds nothing but JSON objects.                     *)
VerdictFitsDocument ==
  where = "done" /\ shape.kind # "trade" =>
    /\ ParseClass(verdict) # "unauditable" => (verdict = "none" <=> WellFormedDocument)
    /\ keys # << >> \/ list # NoList => ParseClass(verdict) = "unauditable"

(* An accepted payload is the event the sequencing rules and the book are  *)
(* written for (EventProcessor takes only such messages), and its sides    *)
(* are the levels of the text in their order, though both sides share one  *)
(* array of updates.                                                       *)
AcceptedEventsAreSound ==
  where = "done" /\ verdict = "none" /\ shape.kind # "trade" =>
    /\ Event.bids = Listed("bids") /\ Event.asks = Listed("asks")
    /\ CASE IsPartial -> IsRefreshEvent(Event)
         [] ~ IsPartial /\ IsUsdm -> IsUsdmDiffEvent(Event)
         [] OTHER -> IsDiffEvent(Event)
=============================================================================
