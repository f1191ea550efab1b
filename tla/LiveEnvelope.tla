---------------------------- MODULE LiveEnvelope ----------------------------
(***************************************************************************)
(* LiveEnvelopeParser::parse (live_envelope.cpp): the combined message     *)
(* {"stream": name, "data": payload}, field by field.  A rejected message  *)
(* may still name the stream it belongs to; the pipeline then invalidates  *)
(* that symbol's book, so the name must be beyond doubt.                   *)
(***************************************************************************)
EXTENDS LiveSubscription

CONSTANT MaxFields   \* bound on the fields of a message

VARIABLES envelope,   \* idle, fields or done
          stream,     \* stream_seen, stream_valid, stream_ambiguous, stream_name
          data,       \* data_seen and whether raw_data is set
          semantic,   \* semantic_error
          answer,     \* the LiveEnvelopeResult: error and route
          message     \* history: the fields read so far

envelopeVars == <<envelope, stream, data, semantic, answer, message>>

NoName == <<"", "">>
NoStream == [seen |-> FALSE, valid |-> FALSE, ambiguous |-> FALSE, name |-> NoName]
NoData == [seen |-> FALSE, object |-> FALSE]
NoAnswer == [error |-> "none", route |-> 0]

ASSUME NoNameAssumption == NoName \in OtherNames

EnvelopeInit ==
  /\ envelope = "idle"
  /\ stream = NoStream
  /\ data = NoData
  /\ semantic = "none"
  /\ answer = NoAnswer
  /\ message = << >>

Answer(error, route) ==
  /\ envelope' = "done"
  /\ answer' = [error |-> error, route |-> route]

ParseEnvelope ==
  /\ created = "created"
  /\ envelope = "idle"
  /\ \/ envelope' = "fields" /\ UNCHANGED answer
     \/ \E error \in {"message_too_large", "malformed_json", "root_not_object"} :
          Answer(error, 0)
  /\ UNCHANGED <<stream, data, semantic, message>>

(* known_route, and a mutant that trusts an ambiguous name.                *)
KnownRouteAmbiguous == IF stream.valid THEN FindRoute(stream.name) ELSE 0
KnownRoute == IF stream.valid /\ ~ stream.ambiguous THEN FindRoute(stream.name) ELSE 0

RecordSemanticError(error) == semantic' = IF semantic = "none" THEN error ELSE semantic

AtEnvelopeField(field) ==
  /\ envelope = "fields"
  /\ Len(message) < MaxFields
  /\ message' = Append(message, field)

ReadStream(name) ==
  /\ AtEnvelopeField([key |-> "stream", value |-> name])
  /\ IF stream.seen
     THEN stream' = [stream EXCEPT !.ambiguous = TRUE] /\ RecordSemanticError("duplicate_stream")
     ELSE /\ stream' = [stream EXCEPT !.seen = TRUE, !.valid = TRUE, !.name = name]
          /\ UNCHANGED semantic
  /\ UNCHANGED <<envelope, data, answer>>

ReadMistypedStream ==
  /\ AtEnvelopeField([key |-> "stream", value |-> NoName])
  /\ IF stream.seen
     THEN stream' = [stream EXCEPT !.ambiguous = TRUE] /\ RecordSemanticError("duplicate_stream")
     ELSE stream' = [stream EXCEPT !.seen = TRUE] /\ RecordSemanticError("stream_wrong_type")
  /\ UNCHANGED <<envelope, data, answer>>

ReadData(object) ==
  /\ AtEnvelopeField([key |-> "data", value |-> object])
  /\ data' = IF data.seen THEN data ELSE [seen |-> TRUE, object |-> object]
  /\ IF data.seen THEN RecordSemanticError("duplicate_data")
     ELSE IF object THEN UNCHANGED semantic ELSE RecordSemanticError("data_not_object")
  /\ UNCHANGED <<envelope, stream, answer>>

(* A JSON error ends the parse, before the next key, in it or in its       *)
(* value; one in the value of a second name leaves no name to trust.       *)
BreakEnvelope ==
  /\ envelope = "fields"
  /\ \/ Answer("malformed_json", KnownRoute)
     \/ stream.seen /\ Answer("malformed_json", 0)
  /\ UNCHANGED <<stream, data, semantic, message>>

SafeRoute == IF stream.valid /\ ~ stream.ambiguous THEN FindRoute(stream.name) ELSE 0

(* minify may fail on text that only looked like an object.                *)
EndOfEnvelope ==
  /\ envelope = "fields"
  /\ CASE ~ stream.seen -> Answer("missing_stream", 0)
       [] stream.seen /\ semantic # "none" -> Answer(semantic, SafeRoute)
       [] stream.seen /\ semantic = "none" /\ ~ data.seen -> Answer("missing_data", SafeRoute)
       [] OTHER ->
            IF FindRoute(stream.name) = 0
            THEN Answer(IF stream.name \in LongNames THEN "stream_name_too_long"
                                                     ELSE "unknown_stream", 0)
            ELSE \E error \in {"none", "payload_minify_failed"} :
                   Answer(error, FindRoute(stream.name))
  /\ UNCHANGED <<stream, data, semantic, message>>

EnvelopeNext ==
  \/ ParseEnvelope
  \/ \E name \in Names : ReadStream(name)
  \/ ReadMistypedStream
  \/ \E object \in BOOLEAN : ReadData(object)
  \/ BreakEnvelope \/ EndOfEnvelope

-----------------------------------------------------------------------------
FieldsOf(key) == SelectSeq(message, LAMBDA field : field.key = key)

OneStream(r) ==
  FieldsOf("stream") = <<[key |-> "stream", value |-> RouteOf(symbols, r).name]>>
OneObject == FieldsOf("data") = <<[key |-> "data", value |-> TRUE]>>

ReadToItsEnd ==
  envelope = "done"
    /\ answer.error \notin {"message_too_large", "malformed_json", "root_not_object"}

(* A message that was read to its end passes on its payload exactly if it  *)
(* has one stream name, of a stream that was subscribed to, and one        *)
(* payload, an object; and a route is reported, with an error or without,  *)
(* only if all that was read of the message names one stream, that one.    *)
RoutesOnlyTheNamedStream ==
  /\ answer.route # 0 => OneStream(answer.route)
  /\ ReadToItsEnd =>
       (answer.error \in {"none", "payload_minify_failed"} <=>
          OneObject /\ \E r \in 1 .. RouteCount(symbols) : OneStream(r) /\ answer.route = r)
=============================================================================
