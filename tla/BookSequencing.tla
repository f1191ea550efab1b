--------------------------- MODULE BookSequencing ---------------------------
(***************************************************************************)
(* When a depth event may change a book: SpotBookState and UsdMBookState   *)
(* in spot_book.cpp.  Spot diffs are chained by their id ranges alone, the *)
(* USD-M ones by the id of the diff before (field pu of the payload).      *)
(*                                                                         *)
(* A depth event is a record with the range first..final of update ids,    *)
(* the previous final id (USD-M diffs) and the updates of the two sides.   *)
(***************************************************************************)
EXTENDS TopFiveBook

CONSTANT MaxId   \* largest update id, 2^64 - 1 in the code

ASSUME MaxIdAssumption == MaxId \in Nat

UpdateId == 0 .. MaxId

(* last_update_id + 1 in unsigned arithmetic.                              *)
NextUpdateId(last) == (last + 1) % (MaxId + 1)

-----------------------------------------------------------------------------
(* SpotBookState                                                           *)

SpotApplyDiff(book, event) ==
  IF ~ book.valid THEN Applied(book, "ignored_while_invalid", RowSide(event))
  ELSE IF event.final <= book.last
       THEN Applied(book, "stale_diff", RowSide(event))
  ELSE IF event.first > NextUpdateId(book.last)
       THEN Applied(CoreInvalidate(book), "sequence_gap", RowSide(event))
  ELSE CoreApplyAcceptedDiff(book, event)

-----------------------------------------------------------------------------
(* UsdMBookState                                                           *)

ForgetChain(book) == [book EXCEPT !.previous = 0, !.chain = FALSE]

UsdmInvalidate(book) == ForgetChain(CoreInvalidate(book))

(* Mutant: the chain survives a refresh.                                   *)
UsdmApplyRefreshKeepsChain(book, event) == CoreApplyRefresh(book, event)

UsdmApplyRefresh(book, event) ==
  LET result == CoreApplyRefresh(book, event)
  IN  IF result.status = "applied_refresh"
      THEN [result EXCEPT !.book = ForgetChain(@)]
      ELSE result

(* Mutant: an established chain is not compared with pu.                   *)
UsdmGapIgnoresPrevious(book, event) ==
  ~ book.chain /\ event.final > book.last /\ event.first > NextUpdateId(book.last)

UsdmGap(book, event) ==
  IF book.chain
  THEN event.previous # book.previous
  ELSE event.final > book.last /\ event.first > NextUpdateId(book.last)

UsdmApplyDiff(book, event) ==
  LET result == CoreApplyAcceptedDiff(book, event)
  IN  IF ~ book.valid
      THEN Applied(book, "ignored_while_invalid", RowSide(event))
      ELSE IF UsdmGap(book, event)
      THEN Applied(UsdmInvalidate(book), "sequence_gap", RowSide(event))
      ELSE IF event.final <= book.last
      THEN Applied(book, "stale_diff", RowSide(event))
      ELSE IF result.status = "applied_diff"
      THEN [result EXCEPT !.book = [@ EXCEPT !.previous = event.final,
                                             !.chain = TRUE]]
      ELSE [result EXCEPT !.book = ForgetChain(@)]

-----------------------------------------------------------------------------
(* The calls SymbolState makes on the book of its venue.                   *)

InvalidateBook(book) ==
  IF book.venue = "spot" THEN CoreInvalidate(book) ELSE UsdmInvalidate(book)

ApplyRefresh(book, event) ==
  IF book.venue = "spot" THEN CoreApplyRefresh(book, event)
  ELSE UsdmApplyRefresh(book, event)

ApplyDiff(book, event) ==
  IF book.venue = "spot" THEN SpotApplyDiff(book, event)
  ELSE UsdmApplyDiff(book, event)

EmitsSnapshot(status) == status \in {"applied_refresh", "applied_diff"}

-----------------------------------------------------------------------------
(* What the parser lets through (parse_levels and the end of parse_depth). *)

(* A partial message: at most Depth levels per side, positive quantities,  *)
(* strictly ordered prices, and the best bid below the best ask.           *)
IsRefreshEvent(event) ==
  /\ event.final \in UpdateId
  /\ IsSide(event.bids, "bid")
  /\ IsSide(event.asks, "ask")
  /\ ~ Crossed(event.bids, event.asks)

(* A differential message: an ordered id range, no price twice on a side.  *)
IsDiffEvent(event) ==
  /\ event.first \in UpdateId
  /\ event.final \in UpdateId
  /\ event.previous \in UpdateId
  /\ event.first <= event.final
  /\ event.bids \in Seq(LevelUpdate)
  /\ event.asks \in Seq(LevelUpdate)
  /\ UniquePrices(event.bids)
  /\ UniquePrices(event.asks)

(* For USD-M the previous id is also below the final one.                  *)
IsUsdmDiffEvent(event) == IsDiffEvent(event) /\ event.previous < event.final
=============================================================================
