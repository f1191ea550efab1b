----------------------------- MODULE MarketFeed -----------------------------
(***************************************************************************)
(* The event processor fed by an exchange.  The exchange is external: it   *)
(* is modelled from what the code takes for granted of it.  It has a true  *)
(* book, which every update id may change; a refresh message lists the     *)
(* Depth best levels of the true book at an id; a differential message     *)
(* gives, for every price that changed in a range of ids, its quantity at  *)
(* the end of the range.  Differential ranges follow one another, but      *)
(* messages may be lost, unreadable or in flight when a connection ends,   *)
(* and refreshes arrive in any order with the differential stream.  A call *)
(* that fails ends the run, so only the committing exits of process occur. *)
(***************************************************************************)
EXTENDS EventProcessor

CONSTANTS Prices,       \* the prices of the instrument
          Histories,    \* the true books the exchange may go through
          MaxEpoch, MaxConnSeq   \* bounds on connections and their messages

VARIABLES truth,        \* truth[id][side][price]: quantity, 0 for no level
          diffSent,     \* the last id the differential stream has covered
          connEpoch, connSeq   \* the live connection

feedVars == <<truth, diffSent, connEpoch, connSeq>>
allVars == <<vars, feedVars>>

TrueLevels(history, id, side) ==
  {[price |-> p, quantity |-> history[id][side][p]] :
     p \in {q \in Prices : history[id][side][q] # 0}}

(* The books of an exchange never cross: its engine matches the orders.    *)
IsHistory(history) ==
  /\ history \in [UpdateId -> [Sides -> [Prices -> Nat]]]
  /\ \A id \in UpdateId :
       \A b \in TrueLevels(history, id, "bid"),
          a \in TrueLevels(history, id, "ask") : b.price < a.price

ASSUME PricesAssumption == Prices \subseteq Price
ASSUME HistoriesAssumption == \A h \in Histories : IsHistory(h)
ASSUME FeedBoundsAssumption == MaxEpoch \in Nat /\ MaxConnSeq \in Nat

Changed(first, final, side) ==
  {p \in Prices : \E id \in first .. final :
     id # 0 /\ truth[id][side][p] # truth[id - 1][side][p]}

ChangedLevels(first, final, side) ==
  {[price |-> p, quantity |-> truth[final][side][p]] :
     p \in Changed(first, final, side)}

(* The sequences that list S, each member once, in any order.              *)
BoundedSeqs(S, n) == UNION {[1 .. k -> S] : k \in 0 .. n}
Listings(S, n) ==
  {s \in BoundedSeqs(S, n) : LevelSet(s) = S /\ UniquePrices(s)}

(* Spot ranges are contiguous; USD-M ids may jump over ids of other        *)
(* symbols, which change nothing here.                                     *)
DiffStarts(final) ==
  IF book.venue = "spot" THEN {diffSent + 1}
  ELSE {f \in diffSent + 1 .. final :
          \A side \in Sides : Changed(diffSent + 1, f - 1, side) = {}}

MaxListed == 2   \* bound on the updates of one message per side

DiffEventsTo(final) ==
  {[first |-> f, final |-> final, previous |-> diffSent, bids |-> b, asks |-> a] :
     f \in DiffStarts(final),
     b \in Listings(ChangedLevels(diffSent + 1, final, "bid"), MaxListed),
     a \in Listings(ChangedLevels(diffSent + 1, final, "ask"), MaxListed)}

TopSides(id, side) ==
  {s \in BoundedSeqs(TrueLevels(truth, id, side), Depth) :
     IsBest(s, side, TrueLevels(truth, id, side))}

RefreshEventsAt(id) ==
  {[first |-> 0, final |-> id, previous |-> 0, bids |-> b, asks |-> a] :
     b \in TopSides(id, "bid"), a \in TopSides(id, "ask")}

NoEvent ==
  [first |-> 0, final |-> 0, previous |-> 0, bids |-> << >>, asks |-> << >>]

Message(stream, parse, event) ==
  [venue |-> book.venue, epoch |-> connEpoch, seq |-> connSeq + 1, matches |-> TRUE,
   stream |-> stream, parse |-> parse, event |-> event]

-----------------------------------------------------------------------------
FeedInit ==
  /\ Init
  /\ truth \in Histories
  /\ diffSent \in UpdateId
  /\ connEpoch = 0
  /\ connSeq = 0

NextMessage ==
  /\ connSeq < MaxConnSeq
  /\ connSeq' = connSeq + 1
  /\ UNCHANGED <<truth, connEpoch>>

DeliverRefresh ==
  /\ NextMessage
  /\ UNCHANGED diffSent
  /\ \E id \in UpdateId : \E event \in RefreshEventsAt(id) :
       Commit(Message("depth5", "ok", event))

DeliverDiff ==
  /\ NextMessage
  /\ \E final \in diffSent + 1 .. MaxId :
       /\ diffSent' = final
       /\ \E event \in DiffEventsTo(final) :
            Commit(Message("depth_diff", "ok", event))

(* A message that was routed but cannot be used.                           *)
DeliverUnusable ==
  /\ NextMessage
  /\ \E stream \in Streams, parse \in {"schema", "unauditable"} :
       /\ IF stream = "depth_diff"
          THEN diffSent' \in diffSent + 1 .. MaxId ELSE UNCHANGED diffSent
       /\ Commit(Message(stream, parse, NoEvent))

DeliverTrade ==
  /\ NextMessage
  /\ UNCHANGED diffSent
  /\ Commit(Message("trade", "ok", NoEvent))

(* LiveEventPipeline::process: the envelope of a differential message      *)
(* cannot be used, but its route is known.                                 *)
RejectEnvelope ==
  /\ Mode = "live_capture"
  /\ NextMessage
  /\ diffSent' \in diffSent + 1 .. MaxId
  /\ Invalidate

(* The exchange drops messages, or the replayed file lacks them.           *)
LoseDiff ==
  /\ diffSent' \in diffSent + 1 .. MaxId
  /\ UNCHANGED <<vars, truth, connEpoch, connSeq>>

(* A new connection, to a server that may be ahead of or behind the last   *)
(* one.  Live capture invalidates every symbol when a session ends; a      *)
(* replay sees only that the epoch of the next row is higher.              *)
Reconnect ==
  /\ connEpoch < MaxEpoch
  /\ connEpoch' = connEpoch + 1
  /\ connSeq' = 0
  /\ diffSent' \in UpdateId
  /\ IF Mode = "live_capture" THEN Invalidate ELSE UNCHANGED vars
  /\ UNCHANGED truth

FeedNext ==
  \/ DeliverRefresh
  \/ DeliverDiff
  \/ DeliverUnusable
  \/ DeliverTrade
  \/ RejectEnvelope
  \/ LoseDiff
  \/ Reconnect

FeedSpec == FeedInit /\ [][FeedNext]_allVars

-----------------------------------------------------------------------------
(* Every level of a valid book is a level of the exchange's book at the    *)
(* same update id, with the same quantity: no lost, late, repeated or      *)
(* unreadable message and no reconnect makes the rows show a level that    *)
(* is gone or a quantity that is out of date.  The converse fails by       *)
(* design (DESIGN.md, invariant 12): a level that was pushed out of the    *)
(* five is not seen again until the next refresh.                          *)
NoPhantomLevels ==
  book.valid =>
    /\ LevelSet(book.bids) \subseteq TrueLevels(truth, book.last, "bid")
    /\ LevelSet(book.asks) \subseteq TrueLevels(truth, book.last, "ask")
=============================================================================
