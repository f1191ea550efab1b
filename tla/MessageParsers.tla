--------------------------- MODULE MessageParsers ---------------------------
(***************************************************************************)
(* The parsers between the socket and the event processor, side by side:   *)
(* a behaviour exercises one of them.  routing is a subscription and the   *)
(* envelope of a message under it, payload a payload of any stream; the    *)
(* payload parser rests on three helpers, the table of prices, the decimal *)
(* numbers and the walk over values that are skipped.                      *)
(***************************************************************************)
EXTENDS LiveEnvelope, PayloadParser, PriceTable, FixedPoint, JsonValidation

VARIABLE stage   \* the parser of this behaviour

parserVars == <<subscriptionVars, envelopeVars, payloadVars, tableVars, parseVars, jsonVars,
                stage>>

ParsersInit ==
  /\ stage \in {"routing", "payload", "table", "decimal", "skipped"}
  /\ SubscriptionInit /\ EnvelopeInit /\ PayloadInit /\ TableInit /\ ParseInit /\ JsonInit
  /\ stage # "table" => hash = CHOOSE h \in [Keys -> SlotIds] : TRUE
  /\ stage # "routing" => nameHash = CHOOSE h \in NameHashes : TRUE

RouteMessages ==
  /\ stage = "routing"
  /\ \/ \E given \in SymbolSets : Create(given) /\ UNCHANGED envelopeVars
     \/ EnvelopeNext /\ UNCHANGED subscriptionVars
  /\ UNCHANGED <<payloadVars, tableVars, parseVars, jsonVars, stage>>

ReadPayloads ==
  /\ stage = "payload"
  /\ PayloadNext
  /\ UNCHANGED <<subscriptionVars, envelopeVars, tableVars, parseVars, jsonVars, stage>>

UseTable ==
  /\ stage = "table"
  /\ TableNext
  /\ UNCHANGED <<subscriptionVars, envelopeVars, payloadVars, parseVars, jsonVars, stage>>

ReadDecimals ==
  /\ stage = "decimal"
  /\ ParseNext
  /\ UNCHANGED <<subscriptionVars, envelopeVars, payloadVars, tableVars, jsonVars, stage>>

SkipValues ==
  /\ stage = "skipped"
  /\ JsonNext
  /\ UNCHANGED <<subscriptionVars, envelopeVars, payloadVars, tableVars, parseVars, stage>>

ParsersNext == RouteMessages \/ ReadPayloads \/ UseTable \/ ReadDecimals \/ SkipValues
ParsersSpec == ParsersInit /\ [][ParsersNext]_parserVars
=============================================================================
