------------------------ MODULE MCReplayEquivalence ------------------------
(***************************************************************************)
(* Small instances of ReplayEquivalence: books with at most one level, at  *)
(* one price, whose quantity tells the update id; every range of ids.      *)
(***************************************************************************)
EXTENDS ReplayEquivalence

Level(price, quantity) == [price |-> price, quantity |-> quantity]

Event(first, final, previous, bids) ==
  [first |-> first, final |-> final, previous |-> previous,
   bids |-> bids, asks |-> << >>]

RefreshEvents == {Event(0, id, 0, <<Level(1, id + 1)>>) : id \in UpdateId}

DiffEvents(venue) ==
  {e \in {Event(first, final, previous, <<Level(1, final + 1)>>) :
            first \in UpdateId, final \in UpdateId, previous \in UpdateId} :
     IF venue = "usdm" THEN IsUsdmDiffEvent(e) ELSE IsDiffEvent(e) /\ e.previous = 0}

NoEvent == Event(0, 0, 0, << >>)

Payload(streams, parses, events) ==
  [stream : streams, parse : parses, event : events]

Payloads(venue) ==
  Payload({"depth5"}, {"ok"}, RefreshEvents)
    \cup Payload({"depth_diff"}, {"ok"}, DiffEvents(venue))
    \cup Payload({"trade"}, {"ok"}, {NoEvent})
    \cup Payload(Streams, {"schema", "unauditable"}, {NoEvent})

Text(v, e, s, envelope, symbol, p) ==
  [venue |-> v, epoch |-> e, seq |-> s, wellFormed |-> TRUE,
   envelope |-> envelope, symbol |-> symbol,
   stream |-> p.stream, parse |-> p.parse, event |-> p.event]

Trade == [stream |-> "trade", parse |-> "ok", event |-> NoEvent]
BadDiff == [stream |-> "depth_diff", parse |-> "unauditable", event |-> NoEvent]

TextsAt(v, e, s) ==
  {Text(v, e, s, "ok", "this", p) : p \in Payloads(v)}
    \cup {Text(v, e, s, "routed", symbol, BadDiff) : symbol \in {"this", "other"}}
    \cup {Text(v, e, s, "routed", "this", Trade),
          Text(v, e, s, "unrouted", "this", Trade),
          Text(v, e, s, "ok", "other", Trade),
          [Text(v, e, s, "ok", "this", Trade) EXCEPT !.wellFormed = FALSE]}

MCTexts ==
  UNION {TextsAt(v, e, s) : v \in Venues, e \in 0 .. MaxEpoch, s \in 1 .. MaxConnSeq}
=============================================================================
