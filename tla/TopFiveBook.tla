---------------------------- MODULE TopFiveBook ----------------------------
(***************************************************************************)
(* The visible order book of one symbol: TopFiveBookCore in spot_book.cpp. *)
(* A side is the sequence of its levels, best price first; the array of    *)
(* the code is the sequence padded with zeros.  Everything here is a pure  *)
(* operator: the state machines that keep a book are in EventProcessor.    *)
(***************************************************************************)
EXTENDS Integers, Sequences

CONSTANT Depth   \* kVisibleBookDepth, which is 5

ASSUME DepthAssumption == Depth \in Nat \ {0}

Sides == {"bid", "ask"}

(* Prices and quantities are fixed-point integers.  The parser lets only   *)
(* positive prices through, and a quantity of zero means "remove".         *)
Price == Nat \ {0}
BookLevel == [price : Price, quantity : Nat \ {0}]
LevelUpdate == [price : Price, quantity : Nat]

BetterPrice(side, lhs, rhs) == IF side = "bid" THEN lhs > rhs ELSE lhs < rhs

(* find_price: the first index that holds the price, or one past the end.  *)
FindPrice(levels, price) ==
  CHOOSE i \in 1 .. Len(levels) + 1 :
    /\ \A j \in 1 .. i - 1 : levels[j].price # price
    /\ i <= Len(levels) => levels[i].price = price

HasPrice(levels, price) == \E i \in 1 .. Len(levels) : levels[i].price = price

EraseLevel(levels, index) ==
  [i \in 1 .. Len(levels) - 1 |-> IF i < index THEN levels[i] ELSE levels[i + 1]]

(* The scan of insert_level: past every level that is better.              *)
InsertPosition(levels, side, price) ==
  CHOOSE i \in 1 .. Len(levels) + 1 :
    /\ \A j \in 1 .. i - 1 : BetterPrice(side, levels[j].price, price)
    /\ i <= Len(levels) => ~ BetterPrice(side, levels[i].price, price)

(* A full side loses its last level, or ignores a level worse than all.    *)
InsertLevel(levels, side, level) ==
  LET position == InsertPosition(levels, side, level.price)
      size == IF Len(levels) < Depth THEN Len(levels) + 1 ELSE Len(levels)
  IN  IF Len(levels) = Depth /\ position = Depth + 1
      THEN levels
      ELSE [i \in 1 .. size |->
              IF i < position THEN levels[i]
              ELSE IF i = position THEN level ELSE levels[i - 1]]

-----------------------------------------------------------------------------
(* apply_updates makes two passes over the updates.  The first rewrites or *)
(* erases the prices the original side holds; the second inserts the       *)
(* others.  Both passes look the price up in the original.                 *)

SetQuantity(levels, index, quantity) ==
  [levels EXCEPT ![index].quantity = quantity]

ReviseLevel(original, candidate, update) ==
  LET index == FindPrice(candidate, update.price)
  IN  IF ~ HasPrice(original, update.price) THEN candidate
      ELSE IF update.quantity = 0 THEN EraseLevel(candidate, index)
      ELSE SetQuantity(candidate, index, update.quantity)

AddLevel(original, side, candidate, update) ==
  IF update.quantity = 0 \/ HasPrice(original, update.price) THEN candidate
  ELSE InsertLevel(candidate, side,
                   [price |-> update.price, quantity |-> update.quantity])

RevisedSide(original, updates) ==
  LET pass[n \in 0 .. Len(updates)] ==
        IF n = 0 THEN original
        ELSE ReviseLevel(original, pass[n - 1], updates[n])
  IN  pass[Len(updates)]

ExtendedSide(original, side, revised, updates) ==
  LET pass[n \in 0 .. Len(updates)] ==
        IF n = 0 THEN revised
        ELSE AddLevel(original, side, pass[n - 1], updates[n])
  IN  pass[Len(updates)]

ApplyUpdates(original, updates, side) ==
  ExtendedSide(original, side, RevisedSide(original, updates), updates)

-----------------------------------------------------------------------------
(* What DESIGN.md promises of apply_updates: the best Depth levels of the  *)
(* surviving levels and the new ones, whatever the order of the updates.   *)

LevelSet(levels) == {levels[i] : i \in 1 .. Len(levels)}

(* The levels the side should be made of: those whose price is not in the  *)
(* message, and those the message gives a positive quantity.               *)
MergedLevels(original, updates) ==
  {l \in LevelSet(original) : ~ HasPrice(updates, l.price)}
    \cup {u \in LevelSet(updates) : u.quantity # 0}

StrictlyOrdered(levels, side) ==
  \A i, j \in 1 .. Len(levels) :
    i < j => BetterPrice(side, levels[i].price, levels[j].price)

(* levels lists the Depth best members of S, best first.                   *)
IsBest(levels, side, S) ==
  /\ StrictlyOrdered(levels, side)
  /\ Len(levels) <= Depth
  /\ LevelSet(levels) \subseteq S
  /\ \A l \in S \ LevelSet(levels) :
       /\ Len(levels) = Depth
       /\ \A k \in LevelSet(levels) : BetterPrice(side, k.price, l.price)

UniquePrices(updates) ==
  \A i, j \in 1 .. Len(updates) :
    updates[i].price = updates[j].price => i = j

IsSide(levels, side) ==
  /\ levels \in Seq(BookLevel)
  /\ Len(levels) <= Depth
  /\ StrictlyOrdered(levels, side)

Crossed(bids, asks) ==
  /\ Len(bids) # 0
  /\ Len(asks) # 0
  /\ bids[1].price >= asks[1].price

(* row_side: the side of a differential row, neutral when the event has    *)
(* updates for both sides or for neither.                                  *)
RowSide(event) ==
  IF (Len(event.bids) # 0) = (Len(event.asks) # 0) THEN "neutral"
  ELSE IF Len(event.bids) # 0 THEN "bid" ELSE "ask"

-----------------------------------------------------------------------------
(* The book itself, of a symbol of one of the venues.  previous and chain  *)
(* belong to UsdMBookState and stay at their initial values in a spot book.*)

Venues == {"spot", "usdm"}

EmptyBook(venue) ==
  [venue |-> venue, valid |-> FALSE, last |-> 0, bids |-> << >>, asks |-> << >>,
   previous |-> 0, chain |-> FALSE]

Applied(book, status, side) == [book |-> book, status |-> status, side |-> side]

(* invalidate drops only the flag: levels and update id stay behind.       *)
CoreInvalidate(book) == [book EXCEPT !.valid = FALSE]

(* Mutant: a late refresh is applied.                                      *)
CoreApplyRefreshUnordered(book, event) ==
  Applied([book EXCEPT !.valid = TRUE, !.last = event.final,
                       !.bids = event.bids, !.asks = event.asks],
          "applied_refresh", "neutral")

CoreApplyRefresh(book, event) ==
  IF book.valid /\ event.final < book.last
  THEN Applied(book, "stale_refresh", "neutral")
  ELSE Applied([book EXCEPT !.valid = TRUE, !.last = event.final,
                            !.bids = event.bids, !.asks = event.asks],
               "applied_refresh", "neutral")

(* Mutant: the candidate is not checked for crossing.                      *)
CoreApplyAcceptedDiffUnchecked(book, event) ==
  Applied([book EXCEPT !.last = event.final,
                       !.bids = ApplyUpdates(book.bids, event.bids, "bid"),
                       !.asks = ApplyUpdates(book.asks, event.asks, "ask")],
          "applied_diff", RowSide(event))

CoreApplyAcceptedDiff(book, event) ==
  LET bids == ApplyUpdates(book.bids, event.bids, "bid")
      asks == ApplyUpdates(book.asks, event.asks, "ask")
  IN  IF Crossed(bids, asks)
      THEN Applied(CoreInvalidate(book), "crossed_book", RowSide(event))
      ELSE Applied([book EXCEPT !.last = event.final,
                                !.bids = bids, !.asks = asks],
                   "applied_diff", RowSide(event))
=============================================================================
