-------------------------- MODULE MCMessageParsers --------------------------
(* A small instance of MessageParsers.                                     *)
EXTENDS MessageParsers

(* Two prices for both sides, and the removal of one.                      *)
MCLevels ==
  {[price |-> 1, quantity |-> 1], [price |-> 2, quantity |-> 1], [price |-> 2, quantity |-> 0]}

(* The order in which the exchange sends the fields, and the reverse.      *)
MCKeyOrder == <<"e", "E", "T", "s", "U", "u", "pu", "lastUpdateId", "bids", "asks">>
MCKeyOrders == {MCKeyOrder, Reverse(MCKeyOrder)}

(* Symbol sets that are empty, fine, repeated, with colliding instrument   *)
(* ids, not normalized, too large for the target, and too many.            *)
Symbol(text, bytes, id, normalized) ==
  [text |-> text, bytes |-> bytes, id |-> id, normalized |-> normalized]
BTC == Symbol("btc", 2, 1, TRUE)
ETH == Symbol("eth", 3, 2, TRUE)
TWIN == Symbol("twin", 2, 1, TRUE)
LONG == Symbol("long", 9, 3, TRUE)
MCSymbolSets ==
  {<< >>, <<BTC>>, <<BTC, ETH>>, <<BTC, BTC>>, <<BTC, TWIN>>, <<BTC, LONG>>, <<BTC, ETH, LONG>>,
   <<ETH, Symbol("eth", 3, 4, FALSE)>>}

MCLongNames == {<<"overlong", "trade">>}
MCOtherNames == {NoName, <<"xrp", "trade">>} \cup MCLongNames
MCNames == MCOtherNames \cup ({"btc", "eth", "twin", "long"} \X ToSet(kKinds))

(* All names in one slot, two clusters that run into each other, and two   *)
(* clusters of which the first wraps around.                               *)
MCNameHashes ==
  {[name \in MCNames |-> 7],
   [name \in MCNames |-> IF name[2] = "trade" THEN 4 ELSE 3],
   [name \in MCNames |-> IF name[1] \in {"btc", "xrp"} THEN 6 ELSE 0]}

MCSuffixBytes == [kind \in ToSet(kKinds) |-> IF kind = "trade" THEN 1 ELSE 2]
=============================================================================
