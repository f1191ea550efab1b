-------------------------- MODULE MCEventProcessor --------------------------
(***************************************************************************)
(* Small instances of EventProcessor.  A bid and an ask can have the same  *)
(* price (3), so that books cross; ids run to MaxId, where the successor   *)
(* of an id wraps; the first connection carries MaxConnSeq messages, each  *)
(* later one a message less.                                               *)
(***************************************************************************)
EXTENDS EventProcessor

CONSTANTS MaxConnSeq, MaxEpoch, BidPrices, AskPrices

Singles(prices, quantities) ==
  {<<>>} \cup {<<[price |-> p, quantity |-> q]>> : p \in prices, q \in quantities}

Pairs(prices, quantities, side) ==
  {s \in {<<a, b>> : a, b \in [price : prices, quantity : quantities]} :
     BetterPrice(side, s[1].price, s[2].price)}

Events(bidSides, askSides, ranges) ==
  {[first |-> r[1], final |-> r[2], previous |-> r[3], bids |-> b, asks |-> a] :
     r \in ranges, b \in bidSides, a \in askSides}

RefreshEvents ==
  {e \in Events(Singles(BidPrices, {1}) \cup Pairs(BidPrices, {1}, "bid"),
                Singles(AskPrices, {1}), {<<0, id, 0>> : id \in UpdateId}) :
     IsRefreshEvent(e)}

DiffEvents(venue) ==
  {e \in Events(Singles(BidPrices, {0, 1}), Singles(AskPrices, {1}),
                UpdateId \X UpdateId \X UpdateId) :
     IF venue = "usdm" THEN IsUsdmDiffEvent(e) ELSE IsDiffEvent(e) /\ e.previous = 0}

NoEvent == [first |-> 0, final |-> 0, previous |-> 0, bids |-> <<>>, asks |-> <<>>]

Payloads(venue) ==
  [stream : {"depth5"}, parse : {"ok"}, event : RefreshEvents]
    \cup [stream : {"depth_diff"}, parse : {"ok"}, event : DiffEvents(venue)]
    \cup [stream : {"trade"}, parse : {"ok"}, event : {NoEvent}]
    \cup [stream : Streams, parse : {"schema", "unauditable"}, event : {NoEvent}]

Message(v, e, s, ok, p) ==
  [venue |-> v, epoch |-> e, seq |-> s, matches |-> ok,
   stream |-> p.stream, parse |-> p.parse, event |-> p.event]

(* Ill-formed contexts are tried with one payload: they never reach it.    *)
Trade == [stream |-> "trade", parse |-> "ok", event |-> NoEvent]

MCMessages ==
  UNION {{Message(v, e, s, TRUE, p) : s \in 1 .. MaxConnSeq - e, p \in Payloads(v)} :
           v \in Venues, e \in 0 .. MaxEpoch}
    \cup {Message("spot", 0, 0, TRUE, Trade), Message("spot", 0, 1, FALSE, Trade)}
=============================================================================
