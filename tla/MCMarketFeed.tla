---------------------------- MODULE MCMarketFeed ----------------------------
(* Small instances of MarketFeed: every history of single-price changes.   *)
EXTENDS MarketFeed

CONSTANTS BidPrices, AskPrices, Quantities

Cells == ({"bid"} \X BidPrices) \cup ({"ask"} \X AskPrices)

(* The true book before the first update: one level on each side.          *)
FirstBook ==
  [side \in Sides |-> [p \in Prices |->
     IF p = (IF side = "bid" THEN 1 ELSE 3) THEN 1 ELSE 0]]

Change == [cell : Cells, quantity : Quantities]

After(initial, changes) ==
  LET at[id \in UpdateId] ==
        IF id = 0 THEN initial
        ELSE [at[id - 1] EXCEPT ![changes[id].cell[1]][changes[id].cell[2]] =
                changes[id].quantity]
  IN  at

MCHistories ==
  {h \in {After(FirstBook, changes) : changes \in [1 .. MaxId -> Change]} :
     IsHistory(h)}
=============================================================================
