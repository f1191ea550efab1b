------------------------ MODULE EventProcessorProofs ------------------------
(***************************************************************************)
(* The safety of EventProcessor for every depth, id width and set of      *)
(* messages.  GoodBook is the inductive invariant of the book; the      *)
(* lemmas show that each operation of BookSequencing keeps it.             *)
(***************************************************************************)
EXTENDS EventProcessor, TopFiveBookProofs

USE DepthAssumption, MaxIdAssumption, ModeAssumption, MaxSeqNoAssumption

GoodSides(b) ==
  /\ IsSide(b.bids, "bid")
  /\ IsSide(b.asks, "ask")
  /\ ~ Crossed(b.bids, b.asks)

GoodBook(b) ==
  /\ b \in BookType
  /\ GoodSides(b)
  /\ b.chain => b.venue = "usdm" /\ b.valid /\ b.previous = b.last

(* The results a depth event can have.                                     *)
GoodResult(r) ==
  /\ GoodBook(r.book)
  /\ r.status \in Statuses
  /\ r.side \in Sides \cup {"neutral"}

(* Forgetting the chain keeps everything else.                             *)
LEMMA ForgetChainGood ==
  ASSUME NEW b \in BookType, GoodSides(b)
  PROVE  /\ GoodBook(ForgetChain(b))
         /\ ForgetChain(b).valid = b.valid
         /\ ForgetChain(b).last = b.last
         /\ ForgetChain(b).bids = b.bids
         /\ ForgetChain(b).asks = b.asks
         /\ ForgetChain(b).chain = FALSE
<1>0. 0 \in UpdateId
  BY DEF UpdateId
<1>1. /\ ForgetChain(b) \in BookType
      /\ ForgetChain(b).valid = b.valid
      /\ ForgetChain(b).last = b.last
      /\ ForgetChain(b).bids = b.bids
      /\ ForgetChain(b).asks = b.asks
      /\ ForgetChain(b).chain = FALSE
  BY <1>0, Zenon DEF ForgetChain, BookType
<1> QED BY <1>1 DEF GoodBook, GoodSides

(* invalidate of the core drops the flag and nothing else.                *)
LEMMA CoreInvalidateGood ==
  ASSUME NEW b \in BookType
  PROVE  /\ CoreInvalidate(b) \in BookType
         /\ CoreInvalidate(b).valid = FALSE
         /\ CoreInvalidate(b).last = b.last
         /\ CoreInvalidate(b).bids = b.bids
         /\ CoreInvalidate(b).asks = b.asks
         /\ CoreInvalidate(b).chain = b.chain
BY Zenon DEF CoreInvalidate, BookType

(* invalidate keeps a good book good, and leaves it invalid.               *)
LEMMA InvalidateBookGood ==
  ASSUME NEW b, GoodBook(b)
  PROVE  /\ GoodBook(InvalidateBook(b))
         /\ InvalidateBook(b).valid = FALSE
<1>1. b \in BookType /\ GoodSides(b) /\ b.venue \in Venues
  BY DEF GoodBook, BookType
<1>2. /\ CoreInvalidate(b) \in BookType
      /\ GoodSides(CoreInvalidate(b))
      /\ CoreInvalidate(b).valid = FALSE
      /\ CoreInvalidate(b).chain = b.chain
  BY <1>1, CoreInvalidateGood, Zenon DEF GoodSides
<1>3. CASE b.venue = "spot"
  <2>1. b.chain = FALSE
    BY <1>1, <1>3 DEF GoodBook, BookType
  <2> QED BY <1>2, <1>3, <2>1 DEF InvalidateBook, GoodBook
<1>4. CASE b.venue = "usdm"
  BY <1>2, <1>4, ForgetChainGood, Zenon DEF InvalidateBook, UsdmInvalidate
<1> QED BY <1>1, <1>3, <1>4, Zenon DEF Venues

(* The side of a row is bid, ask or neutral.                               *)
LEMMA RowSideTyped ==
  ASSUME NEW e PROVE RowSide(e) \in Sides \cup {"neutral"}
BY DEF RowSide, Sides

(* A refresh the parser accepts makes a good book.                         *)
LEMMA CoreApplyRefreshGood ==
  ASSUME NEW b, GoodBook(b), NEW e, IsRefreshEvent(e)
  PROVE  LET r == CoreApplyRefresh(b, e)
         IN  /\ \/ /\ r.status = "applied_refresh"
                   /\ r.book.valid = TRUE
                   /\ r.book.last = e.final
                   /\ b.valid => b.last <= e.final
                   /\ r.book.chain = b.chain
                \/ r.status = "stale_refresh" /\ r.book = b
             /\ r.book \in BookType
             /\ GoodSides(r.book)
             /\ r.side = "neutral"
<1> DEFINE r == CoreApplyRefresh(b, e)
           c == [b EXCEPT !.valid = TRUE, !.last = e.final,
                          !.bids = e.bids, !.asks = e.asks]
<1>1. b \in BookType /\ GoodSides(b) /\ b.last \in UpdateId
  BY DEF GoodBook, BookType
<1>2. /\ e.final \in UpdateId /\ e.bids \in Seq(BookLevel) /\ e.asks \in Seq(BookLevel)
      /\ IsSide(e.bids, "bid") /\ IsSide(e.asks, "ask") /\ ~ Crossed(e.bids, e.asks)
  BY DEF IsRefreshEvent, IsSide
<1>3. CASE b.valid /\ e.final < b.last
  <2>1. r = Applied(b, "stale_refresh", "neutral")
    BY <1>3, Zenon DEF CoreApplyRefresh
  <2> QED BY <1>1, <2>1 DEF Applied
<1>4. CASE ~ (b.valid /\ e.final < b.last)
  <2>1. r = Applied(c, "applied_refresh", "neutral")
    BY <1>4, Zenon DEF CoreApplyRefresh
  <2>2. /\ c \in BookType
        /\ c.valid = TRUE /\ c.last = e.final /\ c.bids = e.bids /\ c.asks = e.asks
        /\ c.chain = b.chain
    BY <1>1, <1>2, Zenon DEF BookType
  <2> HIDE DEF c
  <2>3. GoodSides(c)
    BY <1>2, <2>2 DEF GoodSides
  <2>4. b.valid => b.last <= e.final
    BY <1>1, <1>2, <1>4 DEF UpdateId
  <2> QED BY <2>1, <2>2, <2>3, <2>4 DEF Applied
<1> QED BY <1>3, <1>4, Zenon

(* The same on the book of either venue.                                   *)
LEMMA ApplyRefreshGood ==
  ASSUME NEW b, GoodBook(b), NEW e, IsRefreshEvent(e)
  PROVE  LET r == ApplyRefresh(b, e)
         IN  /\ GoodResult(r)
             /\ \/ /\ r.status = "applied_refresh"
                   /\ r.book.valid = TRUE
                   /\ r.book.last = e.final
                   /\ b.valid => b.last <= e.final
                \/ r.status = "stale_refresh" /\ r.book = b
<1> DEFINE r == ApplyRefresh(b, e)
           core == CoreApplyRefresh(b, e)
<1>1. /\ \/ /\ core.status = "applied_refresh"
            /\ core.book.valid = TRUE
            /\ core.book.last = e.final
            /\ b.valid => b.last <= e.final
            /\ core.book.chain = b.chain
         \/ core.status = "stale_refresh" /\ core.book = b
      /\ core.book \in BookType
      /\ GoodSides(core.book)
      /\ core.side = "neutral"
  BY CoreApplyRefreshGood, ZenonT(30)
<1>2. core.status \in Statuses /\ b.venue \in Venues
  BY <1>1 DEF Statuses, GoodBook, BookType
<1>3. CASE b.venue = "spot"
  <2>1. r = core
    BY <1>3 DEF ApplyRefresh
  <2>2. b.chain = FALSE
    BY <1>3 DEF GoodBook, BookType
  <2>3. GoodBook(core.book)
    BY <1>1, <2>2 DEF GoodBook
  <2> QED BY <1>1, <1>2, <2>1, <2>3 DEF GoodResult
<1>4. CASE b.venue = "usdm" /\ core.status = "stale_refresh"
  <2>1. r = core
    BY <1>4 DEF ApplyRefresh, UsdmApplyRefresh
  <2> QED BY <1>1, <1>2, <1>4, <2>1 DEF GoodResult
<1>5. CASE b.venue = "usdm" /\ core.status = "applied_refresh"
  <2>1. r = [core EXCEPT !.book = ForgetChain(core.book)]
    BY <1>5, Zenon DEF ApplyRefresh, UsdmApplyRefresh
  <2>2. \E x, y, z : core = Applied(x, y, z)
    BY DEF CoreApplyRefresh
  <2>3. r.book = ForgetChain(core.book) /\ r.status = core.status /\ r.side = core.side
    BY <2>1, <2>2 DEF Applied
  <2>4. GoodBook(r.book) /\ r.book.valid = core.book.valid /\ r.book.last = core.book.last
    BY <1>1, <2>3, ForgetChainGood, Zenon
  <2> QED BY <1>1, <1>2, <1>5, <2>3, <2>4 DEF GoodResult
<1> QED BY <1>1, <1>2, <1>3, <1>4, <1>5, Zenon DEF Venues

(* Replacing the book of a result keeps its status and side.               *)
LEMMA ResultBookReplaced ==
  ASSUME NEW b, NEW c, NEW st, NEW sd
  PROVE  [Applied(b, st, sd) EXCEPT !.book = c] = Applied(c, st, sd)
BY SMT DEF Applied

(* An accepted diff makes a good book, or throws the candidate away.       *)
LEMMA CoreApplyAcceptedDiffGood ==
  ASSUME NEW b, GoodBook(b), b.valid, NEW e, IsDiffEvent(e)
  PROVE  LET r == CoreApplyAcceptedDiff(b, e)
         IN  /\ \/ /\ r.status = "applied_diff"
                   /\ r.book \in BookType
                   /\ GoodSides(r.book)
                   /\ r.book.valid = TRUE
                   /\ r.book.last = e.final
                   /\ r.book.chain = b.chain
                   /\ r.book.venue = b.venue
                   /\ r.book.bids = ApplyUpdates(b.bids, e.bids, "bid")
                   /\ r.book.asks = ApplyUpdates(b.asks, e.asks, "ask")
                \/ /\ r.status = "crossed_book"
                   /\ r.book = CoreInvalidate(b)
             /\ r = Applied(r.book, r.status, RowSide(e))
<1> DEFINE r == CoreApplyAcceptedDiff(b, e)
           bids == ApplyUpdates(b.bids, e.bids, "bid")
           asks == ApplyUpdates(b.asks, e.asks, "ask")
           c == [b EXCEPT !.last = e.final, !.bids = bids, !.asks = asks]
<1>1. /\ b \in BookType /\ IsSide(b.bids, "bid") /\ IsSide(b.asks, "ask")
      /\ b.valid = TRUE
  BY DEF GoodBook, GoodSides, BookType
<1>2. IsSide(bids, "bid") /\ IsSide(asks, "ask")
  BY <1>1, ApplyUpdatesIsBest DEF IsDiffEvent, Sides
<1>3. CASE Crossed(bids, asks)
  <2>1. r = Applied(CoreInvalidate(b), "crossed_book", RowSide(e))
    BY <1>3, Zenon DEF CoreApplyAcceptedDiff
  <2> QED BY <2>1 DEF Applied
<1>4. CASE ~ Crossed(bids, asks)
  <2>1. r = Applied(c, "applied_diff", RowSide(e))
    BY <1>4, Zenon DEF CoreApplyAcceptedDiff
  <2>2. e.final \in UpdateId /\ bids \in Seq(BookLevel) /\ asks \in Seq(BookLevel)
    BY <1>2 DEF IsDiffEvent, IsSide
  <2> HIDE DEF bids, asks
  <2>3. /\ c \in BookType
        /\ c.valid = b.valid /\ c.last = e.final /\ c.bids = bids /\ c.asks = asks
        /\ c.chain = b.chain /\ c.venue = b.venue
    BY <1>1, <2>2, Zenon DEF BookType
  <2> HIDE DEF c
  <2>4. GoodSides(c)
    BY <1>2, <1>4, <2>3 DEF GoodSides
  <2>5. r.book = c /\ r.status = "applied_diff" /\ r.side = RowSide(e)
    <3> HIDE DEF r
    <3> QED BY <2>1 DEF Applied
  <2>6. r = Applied(r.book, r.status, RowSide(e))
    BY <2>1, <2>5
  <2> QED BY <1>1, <2>3, <2>4, <2>5, <2>6, Zenon DEF bids, asks
<1> QED BY <1>3, <1>4, Zenon

(* What a differential event may do to a book: continue a valid one to a   *)
(* newer id, leave it alone, or leave it invalid.                          *)
LEMMA ApplyDiffGood ==
  ASSUME NEW b, GoodBook(b), NEW e, IsDiffEvent(e)
  PROVE  LET r == ApplyDiff(b, e)
         IN  /\ GoodResult(r)
             /\ \/ /\ r.status = "applied_diff"
                   /\ b.valid
                   /\ r.book.valid = TRUE
                   /\ r.book.last = e.final
                   /\ b.last < e.final
                \/ /\ ~ EmitsSnapshot(r.status)
                   /\ r.book = b \/ r.book.valid = FALSE
<1> DEFINE r == ApplyDiff(b, e)
           core == CoreApplyAcceptedDiff(b, e)
           side == RowSide(e)
<1>1. /\ b \in BookType /\ GoodSides(b) /\ b.last \in UpdateId /\ e.final \in UpdateId
      /\ side \in Sides \cup {"neutral"} /\ b.venue \in Venues
  BY RowSideTyped DEF GoodBook, BookType, IsDiffEvent
<1>2. ASSUME NEW c, GoodBook(c), c = b \/ c.valid = FALSE,
             NEW st \in {"ignored_while_invalid", "stale_diff", "sequence_gap", "crossed_book"},
             r = Applied(c, st, side)
      PROVE  /\ GoodResult(r)
             /\ ~ EmitsSnapshot(r.status)
             /\ r.book = b \/ r.book.valid = FALSE
  <2>1. r.book = c /\ r.status = st /\ r.side = side
    BY <1>2 DEF Applied
  <2>2. st \in Statuses /\ ~ EmitsSnapshot(st)
    BY DEF Statuses, EmitsSnapshot
  <2> HIDE DEF r, side
  <2> QED BY <1>1, <1>2, <2>1, <2>2 DEF GoodResult
<1>3. CASE ~ b.valid
  <2>1. r = Applied(b, "ignored_while_invalid", side)
    BY <1>3, Zenon DEF ApplyDiff, SpotApplyDiff, UsdmApplyDiff
  <2> QED BY <1>2, <2>1, Zenon
<1>4. CASE b.valid /\ b.venue = "spot"
  <2>0. r = SpotApplyDiff(b, e)
    BY <1>4 DEF ApplyDiff
  <2>1. CASE e.final <= b.last
    <3>1. r = Applied(b, "stale_diff", side)
      BY <1>4, <2>0, <2>1 DEF SpotApplyDiff
    <3> QED BY <1>2, <3>1, Zenon
  <2>2. CASE ~ (e.final <= b.last) /\ e.first > NextUpdateId(b.last)
    <3>1. r = Applied(CoreInvalidate(b), "sequence_gap", side)
      BY <1>4, <2>0, <2>2 DEF SpotApplyDiff
    <3>2. GoodBook(CoreInvalidate(b)) /\ CoreInvalidate(b).valid = FALSE
      BY <1>4, InvalidateBookGood, Zenon DEF InvalidateBook
    <3> QED BY <1>2, <3>1, <3>2, Zenon
  <2>3. CASE ~ (e.final <= b.last) /\ ~ (e.first > NextUpdateId(b.last))
    <3>1. r = core
      BY <1>4, <2>0, <2>3 DEF SpotApplyDiff
    <3>2. b.last < e.final
      BY <1>1, <2>3 DEF UpdateId
    <3>3. CASE core.status = "crossed_book"
      <4>1. r = Applied(CoreInvalidate(b), "crossed_book", side)
        BY <1>4, <3>1, <3>3, CoreApplyAcceptedDiffGood, Zenon
      <4>2. GoodBook(CoreInvalidate(b)) /\ CoreInvalidate(b).valid = FALSE
        BY <1>4, InvalidateBookGood, Zenon DEF InvalidateBook
      <4> QED BY <1>2, <4>1, <4>2, Zenon
    <3>4. CASE core.status # "crossed_book"
      <4>1. /\ core.status = "applied_diff" /\ core.book \in BookType /\ GoodSides(core.book)
            /\ core.book.valid = TRUE /\ core.book.last = e.final
            /\ core.book.chain = b.chain
            /\ core = Applied(core.book, core.status, side)
        BY <1>4, <3>4, CoreApplyAcceptedDiffGood, Zenon
      <4>2. b.chain = FALSE
        BY <1>4 DEF GoodBook, BookType
      <4>3. GoodBook(core.book)
        BY <4>1, <4>2 DEF GoodBook
      <4>4. core.side = side /\ core.status \in Statuses
        BY <4>1 DEF Applied, Statuses
      <4> HIDE DEF core, side
      <4> QED BY <1>1, <1>4, <3>1, <3>2, <4>1, <4>3, <4>4 DEF GoodResult
    <3> QED BY <3>3, <3>4, Zenon
  <2> QED BY <2>1, <2>2, <2>3, Zenon
<1>5. CASE b.valid /\ b.venue = "usdm"
  <2>0. r = UsdmApplyDiff(b, e)
    BY <1>5 DEF ApplyDiff
  <2>1. CASE UsdmGap(b, e)
    <3>1. r = Applied(UsdmInvalidate(b), "sequence_gap", side)
      BY <1>5, <2>0, <2>1, Zenon DEF UsdmApplyDiff
    <3>2. GoodBook(UsdmInvalidate(b)) /\ UsdmInvalidate(b).valid = FALSE
      BY <1>5, InvalidateBookGood, Zenon DEF InvalidateBook
    <3> QED BY <1>2, <3>1, <3>2, Zenon
  <2>2. CASE ~ UsdmGap(b, e) /\ e.final <= b.last
    <3>1. r = Applied(b, "stale_diff", side)
      BY <1>5, <2>0, <2>2, Zenon DEF UsdmApplyDiff
    <3> QED BY <1>2, <3>1, Zenon
  <2>3. CASE ~ UsdmGap(b, e) /\ ~ (e.final <= b.last)
    <3>1. b.last < e.final
      BY <1>1, <2>3 DEF UpdateId
    <3>2. CASE core.status = "crossed_book"
      <4>1. core = Applied(CoreInvalidate(b), "crossed_book", side)
        BY <1>5, <3>2, CoreApplyAcceptedDiffGood, Zenon
      <4>2. r = [core EXCEPT !.book = ForgetChain(core.book)]
        BY <1>5, <2>0, <2>3, <3>2, Zenon DEF UsdmApplyDiff
      <4>3. r = Applied(UsdmInvalidate(b), "crossed_book", side)
        <5> HIDE DEF core, r, side
        <5>1. core.book = CoreInvalidate(b)
          BY <4>1, Zenon DEF Applied
        <5> QED BY <4>1, <4>2, <5>1, Zenon DEF Applied, UsdmInvalidate
      <4>4. GoodBook(UsdmInvalidate(b)) /\ UsdmInvalidate(b).valid = FALSE
        BY <1>5, InvalidateBookGood, Zenon DEF InvalidateBook
      <4> QED BY <1>2, <4>3, <4>4, Zenon
    <3>3. CASE core.status # "crossed_book"
      <4>1. /\ core.status = "applied_diff" /\ core.book \in BookType /\ GoodSides(core.book)
            /\ core.book.valid = TRUE /\ core.book.last = e.final
            /\ core.book.venue = "usdm"
            /\ core = Applied(core.book, core.status, side)
        BY <1>5, <3>3, CoreApplyAcceptedDiffGood, Zenon
      <4> DEFINE d == [core.book EXCEPT !.previous = e.final, !.chain = TRUE]
      <4>2. r = [core EXCEPT !.book = d]
        BY <1>5, <2>0, <2>3, <4>1, Zenon DEF UsdmApplyDiff
      <4>3. /\ d \in BookType /\ d.valid = TRUE /\ d.last = e.final /\ d.previous = e.final
            /\ d.bids = core.book.bids /\ d.asks = core.book.asks /\ d.chain = TRUE
            /\ d.venue = "usdm"
        <5> HIDE DEF core
        <5> QED BY <1>1, <4>1, Zenon DEF BookType
      <4> HIDE DEF d, core, side
      <4>4. r.book = d /\ r.status = "applied_diff" /\ r.side = side
        <5> DEFINE x == core.book
        <5>0. core = Applied(x, "applied_diff", side)
          BY <4>1
        <5> HIDE DEF x, r
        <5>1. r = Applied(d, "applied_diff", side)
          BY <5>0, <4>2, ResultBookReplaced
        <5> QED BY <5>1 DEF Applied
      <4>5. GoodBook(d)
        BY <1>5, <4>1, <4>3 DEF GoodBook, GoodSides
      <4>6. "applied_diff" \in Statuses
        BY DEF Statuses
      <4> QED BY <1>1, <1>5, <3>1, <4>3, <4>4, <4>5, <4>6 DEF GoodResult
    <3> QED BY <3>2, <3>3, Zenon
  <2> QED BY <2>1, <2>2, <2>3, Zenon
<1> QED BY <1>1, <1>3, <1>4, <1>5, Zenon DEF Venues

-----------------------------------------------------------------------------
(* The inductive invariant.  BookOfThisEpoch carries the epoch argument:   *)
(* without it a symbol that has observed nothing could hold a valid book.  *)
IInv ==
  /\ TypeOK
  /\ GoodBook(book)
  /\ BookOfThisEpoch

(* The candidate is the book itself, within its connection, or invalid.    *)
LEMMA CandidateBookGood ==
  ASSUME IInv, NEW m, IsMessage(m), ContextIsValid(m)
  PROVE  /\ GoodBook(CandidateBook(m))
         /\ \/ CandidateBook(m).valid = FALSE
            \/ CandidateBook(m) = book /\ book.valid /\ m.epoch = epoch
<1>1. GoodBook(book) /\ book.valid \in BOOLEAN /\ epoch \in Nat
  BY DEF IInv, TypeOK, BookType
<1>2. CASE EpochChanged(m)
  BY <1>1, <1>2, InvalidateBookGood, Zenon DEF CandidateBook
<1>3. CASE ~ EpochChanged(m)
  <2>1. CandidateBook(m) = book
    BY <1>3 DEF CandidateBook
  <2>2. book.valid => m.epoch = epoch
    BY <1>1, <1>3
    DEF IInv, BookOfThisEpoch, ContextIsValid, EpochChanged, IsMessage
  <2> QED BY <1>1, <2>1, <2>2
<1> QED BY <1>2, <1>3, Zenon

(* So is the book after a message that could not be used.                  *)
LEMMA RejectionGood ==
  ASSUME IInv, NEW m, IsMessage(m), ContextIsValid(m)
  PROVE  /\ GoodBook(BookAfterRejection(m))
         /\ \/ BookAfterRejection(m).valid = FALSE
            \/ BookAfterRejection(m) = book /\ book.valid /\ m.epoch = epoch
<1>1. CASE EpochChanged(m) \/ m.stream = "depth_diff"
  BY <1>1, InvalidateBookGood, Zenon DEF BookAfterRejection, IInv
<1>2. CASE ~ (EpochChanged(m) \/ m.stream = "depth_diff")
  <2>1. BookAfterRejection(m) = CandidateBook(m)
    BY <1>2 DEF BookAfterRejection, CandidateBook
  <2> QED BY <2>1, CandidateBookGood, Zenon
<1> QED BY <1>1, <1>2, Zenon

(* What a depth event does, seen from the book before the message.         *)
LEMMA DepthResultGood ==
  ASSUME IInv, NEW m, IsMessage(m), UsableDepth(m)
  PROVE  LET r == DepthResult(m)
         IN  /\ GoodResult(r)
             /\ \/ /\ m.stream = "depth5" /\ EmitsSnapshot(r.status)
                   /\ book.valid /\ m.epoch = epoch => book.last <= r.book.last
                \/ /\ m.stream = "depth_diff" /\ EmitsSnapshot(r.status)
                   /\ book.valid /\ m.epoch = epoch
                   /\ book.last < r.book.last
                \/ /\ ~ EmitsSnapshot(r.status)
                   /\ \/ r.book.valid = FALSE
                      \/ r.book = book /\ book.valid /\ m.epoch = epoch
<1> DEFINE c == CandidateBook(m)
           r == DepthResult(m)
<1>1. /\ GoodBook(c)
      /\ c.valid = FALSE \/ (c = book /\ book.valid /\ m.epoch = epoch)
  BY CandidateBookGood, Zenon DEF UsableDepth
<1>2. book.last \in UpdateId /\ book.valid \in BOOLEAN
  BY DEF IInv, TypeOK, BookType
<1>3. ASSUME book.valid, m.epoch = epoch
      PROVE  c = book
  <2>1. ~ EpochChanged(m)
    BY <1>3 DEF EpochChanged, IInv, TypeOK
  <2> QED BY <2>1 DEF CandidateBook
<1>4. CASE m.stream = "depth5"
  <2>1. r = ApplyRefresh(c, m.event) /\ IsRefreshEvent(m.event)
    BY <1>4 DEF DepthResult, IsMessage, UsableDepth
  <2> HIDE DEF c, r
  <2>2. /\ GoodResult(r)
        /\ \/ /\ r.status = "applied_refresh"
              /\ r.book.last = m.event.final
              /\ c.valid => c.last <= m.event.final
           \/ r.status = "stale_refresh" /\ r.book = c
    <3> DEFINE e == m.event
    <3>1. GoodBook(c) /\ IsRefreshEvent(e) /\ r = ApplyRefresh(c, e)
      BY <1>1, <2>1
    <3> HIDE DEF e
    <3>2. /\ GoodResult(r)
          /\ \/ /\ r.status = "applied_refresh"
                /\ r.book.last = e.final
                /\ c.valid => c.last <= e.final
             \/ r.status = "stale_refresh" /\ r.book = c
      BY <3>1, ApplyRefreshGood, Zenon
    <3> QED BY <3>2 DEF e
  <2>3. CASE r.status = "applied_refresh"
    BY <1>3, <1>4, <2>2, <2>3 DEF EmitsSnapshot, r
  <2>4. CASE r.status = "stale_refresh"
    BY <1>1, <2>2, <2>4 DEF EmitsSnapshot, r
  <2> QED BY <2>2, <2>3, <2>4, Zenon
<1>5. CASE m.stream = "depth_diff"
  <2>1. r = ApplyDiff(c, m.event) /\ IsDiffEvent(m.event)
    BY <1>5 DEF DepthResult, IsMessage, IsUsdmDiffEvent, UsableDepth
  <2> HIDE DEF c, r
  <2>2. /\ GoodResult(r)
        /\ \/ /\ r.status = "applied_diff"
              /\ c.valid
              /\ r.book.last = m.event.final
              /\ c.last < m.event.final
           \/ /\ ~ EmitsSnapshot(r.status)
              /\ r.book = c \/ r.book.valid = FALSE
    BY <1>1, <2>1, ApplyDiffGood, Zenon
  <2>3. CASE r.status = "applied_diff"
    BY <1>1, <1>5, <2>2, <2>3 DEF EmitsSnapshot, r
  <2>4. CASE r.status # "applied_diff"
    BY <1>1, <2>2, <2>4 DEF EmitsSnapshot, r
  <2> QED BY <2>3, <2>4, Zenon
<1> QED BY <1>4, <1>5, Zenon DEF UsableDepth

(* The three action properties, without the brackets.                      *)
IdsAdvance ==
  book.valid /\ book'.valid /\ epoch' = epoch => book'.last >= book.last

DiffRowContinues ==
  seqNo' # seqNo /\ batch'.row.type = "differential"
    => /\ book.valid
       /\ epoch' = epoch
       /\ book'.last > book.last

NumbersContiguous ==
  /\ seqNo' = seqNo \/ (seqNo' = seqNo + 1 /\ batch'.row.number = seqNo')
  /\ batch' # batch /\ HasRow(batch') => seqNo' = seqNo + 1

StepOK == IdsAdvance /\ DiffRowContinues /\ NumbersContiguous

(* The batches without a book row are well typed.                          *)
LEMMA RowlessBatches ==
  /\ NoBatch \in [audit : BOOLEAN, row : RowType]
  /\ AuditOnly \in [audit : BOOLEAN, row : RowType]
  /\ ~ HasRow(NoBatch) /\ ~ HasRow(AuditOnly)
<1>1. << >> \in Seq(BookLevel)
  OBVIOUS
<1>2. NoRow \in RowType /\ NoRow.type = "none"
  BY <1>1 DEF NoRow, RowType, Sides
<1> QED BY <1>2 DEF NoBatch, AuditOnly, HasRow

(* A commit without a row, on a book that is kept or given up.             *)
LEMMA QuietCommit ==
  ASSUME IInv, NEW m, IsMessage(m), NEW c, GoodBook(c),
         c.valid = FALSE \/ (c = book /\ book.valid /\ m.epoch = epoch),
         book' = c, CommitContext(m), status' \in Statuses,
         batch' \in {NoBatch, AuditOnly}, UNCHANGED <<seqNo, builtIn>>
  PROVE  IInv' /\ StepOK
<1>1. TypeOK'
  BY RowlessBatches DEF IInv, TypeOK, GoodBook, IsMessage, CommitContext
<1>2. BookOfThisEpoch'
  BY DEF IInv, BookOfThisEpoch, CommitContext
<1>3. IdsAdvance
  <2>1. book.last \in Nat
    BY DEF IInv, TypeOK, BookType, UpdateId
  <2> QED BY <2>1 DEF IdsAdvance
<1>4. DiffRowContinues /\ NumbersContiguous
  BY RowlessBatches DEF DiffRowContinues, NumbersContiguous
<1> QED BY <1>1, <1>2, <1>3, <1>4 DEF IInv, StepOK

(* An exit with an error changes nothing but the report.                   *)
LEMMA FailedCall ==
  ASSUME IInv, NEW error \in Statuses, Fail(error)
  PROVE  IInv' /\ StepOK
<1>1. TypeOK' /\ GoodBook(book)' /\ BookOfThisEpoch'
  BY RowlessBatches
  DEF IInv, TypeOK, BookOfThisEpoch, Fail, Report, symbolVars
<1>2. IdsAdvance
  <2>1. book.last \in Nat
    BY DEF IInv, TypeOK, BookType, UpdateId
  <2> QED BY <2>1 DEF IdsAdvance, Fail, symbolVars
<1>3. DiffRowContinues /\ NumbersContiguous
  BY RowlessBatches
  DEF DiffRowContinues, NumbersContiguous, Fail, Report, symbolVars
<1> QED BY <1>1, <1>2, <1>3 DEF IInv, StepOK

(* A commit with a row.                                                    *)
LEMMA RowCommit ==
  ASSUME IInv, NEW m, IsMessage(m), ApplyWithRow(m)
  PROVE  IInv' /\ StepOK
<1> DEFINE r == DepthResult(m)
           row == BookRow(m, r)
<1>1. UsableDepth(m) /\ EmitsSnapshot(r.status)
  BY DEF ApplyWithRow
<1>2. /\ GoodResult(r)
      /\ \/ /\ m.stream = "depth5"
            /\ book.valid /\ m.epoch = epoch => book.last <= r.book.last
         \/ /\ m.stream = "depth_diff"
            /\ book.valid /\ m.epoch = epoch
            /\ book.last < r.book.last
  BY <1>1, DepthResultGood, Zenon
<1>3. /\ book' = r.book /\ status' = r.status /\ seqNo < MaxSeqNo /\ seqNo' = seqNo + 1
      /\ observed' = TRUE /\ epoch' = m.epoch /\ lastSeq' = m.seq
      /\ builtIn' = IF m.stream = "depth5" THEN m.epoch ELSE builtIn
  BY DEF ApplyWithRow, SequenceLeft, CommitContext, Report
<1>4. batch' = [AuditOnly EXCEPT !.row = row]
  BY DEF ApplyWithRow, Report
<1>5. batch' = [audit |-> Mode = "live_capture", row |-> row]
  <2> HIDE DEF row
  <2> QED BY <1>4 DEF AuditOnly
<1>6. /\ r.book \in BookType /\ r.status \in Statuses
      /\ r.side \in Sides \cup {"neutral"}
      /\ r.book.bids \in Seq(BookLevel) /\ r.book.asks \in Seq(BookLevel)
      /\ r.book.last \in Nat /\ book.last \in Nat
  BY <1>2 DEF GoodResult, GoodBook, BookType, UpdateId, IInv, TypeOK
<1> HIDE DEF r
<1>7. seqNo \in Nat /\ seqNo' \in 0 .. MaxSeqNo
  BY <1>3 DEF IInv, TypeOK
<1>8. /\ row \in RowType /\ row.number = seqNo + 1
      /\ row.type = IF m.stream = "depth_diff" THEN "differential" ELSE "partial_refresh"
  BY <1>6, <1>7 DEF BookRow, RowType
<1> HIDE DEF row
<1>9. batch'.row = row /\ batch' \in [audit : BOOLEAN, row : RowType]
  BY <1>5, <1>8
<1>10. TypeOK'
  BY <1>3, <1>6, <1>7, <1>9 DEF IInv, TypeOK, IsMessage
<1>11. BookOfThisEpoch'
  BY <1>2, <1>3 DEF IInv, BookOfThisEpoch
<1>12. IdsAdvance
  BY <1>2, <1>3, <1>6 DEF IdsAdvance
<1>13. DiffRowContinues
  BY <1>2, <1>3, <1>6, <1>8, <1>9 DEF DiffRowContinues
<1>14. NumbersContiguous
  BY <1>3, <1>8, <1>9 DEF NumbersContiguous
<1>15. GoodBook(book)'
  BY <1>2, <1>3 DEF GoodResult
<1> QED BY <1>10, <1>11, <1>12, <1>13, <1>14, <1>15 DEF IInv, StepOK

(* Every exit of process, for any message routing and parsing can produce. *)
LEMMA ProcessStep ==
  ASSUME IInv, NEW m, IsMessage(m), Process(m)
  PROVE  IInv' /\ StepOK
<1>1. CASE RejectBeforeAudit(m)
  <2>1. "pre_audit_rejected" \in Statuses
    BY DEF Statuses
  <2> QED BY <1>1, <2>1, RejectionGood, QuietCommit, Zenon DEF RejectBeforeAudit, Report
<1>2. CASE RejectSchema(m)
  <2>1. "schema_rejected" \in Statuses
    BY DEF Statuses
  <2> QED BY <1>2, <2>1, RejectionGood, QuietCommit, Zenon DEF RejectSchema, Report
<1>3. CASE AuditTrade(m)
  <2>1. "trade_audited" \in Statuses
    BY DEF Statuses
  <2> QED BY <1>3, <2>1, CandidateBookGood, QuietCommit, Zenon DEF AuditTrade, Report
<1>4. CASE ApplySilently(m)
  <2> DEFINE r == DepthResult(m)
  <2>1. /\ UsableDepth(m) /\ ~ EmitsSnapshot(r.status) /\ book' = r.book
        /\ CommitContext(m) /\ status' = r.status /\ batch' = AuditOnly
        /\ UNCHANGED <<seqNo, builtIn>>
    BY <1>4 DEF ApplySilently, Report
  <2>2. /\ GoodResult(r)
        /\ \/ r.book.valid = FALSE
           \/ r.book = book /\ book.valid /\ m.epoch = epoch
    BY <2>1, DepthResultGood, Zenon
  <2> HIDE DEF r
  <2> QED BY <2>1, <2>2, QuietCommit, Zenon DEF GoodResult
<1>5. CASE ApplyWithRow(m)
  BY <1>5, RowCommit
<1>6. CASE Abort(m)
  <2>1. \E error \in Statuses : Fail(error)
    BY <1>6 DEF Abort, FailContext, FailAuditFormat, FailSequenceOverflow,
                FailBookFormat, Statuses
  <2> QED BY <2>1, FailedCall
<1> QED BY <1>1, <1>2, <1>3, <1>4, <1>5, <1>6 DEF Process, Commit

(* So does a step of the pipeline's invalidate.                            *)
LEMMA InvalidateStep ==
  ASSUME IInv, Invalidate
  PROVE  IInv' /\ StepOK
<1>1. GoodBook(book') /\ book'.valid = FALSE
  BY InvalidateBookGood, Zenon DEF Invalidate, IInv
<1>2. TypeOK'
  BY <1>1 DEF IInv, TypeOK, GoodBook, Invalidate
<1>3. BookOfThisEpoch'
  BY <1>1 DEF BookOfThisEpoch
<1>4. StepOK
  BY <1>1 DEF Invalidate, StepOK, IdsAdvance, DiffRowContinues, NumbersContiguous
<1> QED BY <1>1, <1>2, <1>3, <1>4 DEF IInv

(* The initial state satisfies the invariant.                              *)
LEMMA InitGood == Init => IInv
<1> SUFFICES ASSUME Init PROVE IInv
  OBVIOUS
<1>1. << >> \in Seq(BookLevel) /\ 0 \in UpdateId
  BY DEF UpdateId
<1>2. PICK venue \in Venues : book = EmptyBook(venue)
  BY DEF Init
<1>3. /\ book \in BookType
      /\ book.valid = FALSE /\ book.chain = FALSE
      /\ book.bids = << >> /\ book.asks = << >>
  BY <1>1, <1>2 DEF EmptyBook, BookType
<1>4. GoodSides(book)
  BY <1>1, <1>3 DEF GoodSides, IsSide, StrictlyOrdered, Crossed
<1>5. "not_processed" \in Statuses
  BY DEF Statuses
<1>6. TypeOK
  <2>1. 0 \in Nat /\ 0 \in 0 .. MaxSeqNo
    OBVIOUS
  <2> QED BY <1>3, <1>5, <2>1, RowlessBatches, Zenon DEF Init, TypeOK
<1> QED BY <1>3, <1>4, <1>6 DEF IInv, Init, GoodBook, BookOfThisEpoch

(* Every step of the processor keeps the invariant and is a good step.     *)
LEMMA NextStep == IInv /\ [Next]_vars => IInv' /\ [StepOK]_vars
<1> SUFFICES ASSUME IInv, [Next]_vars PROVE IInv' /\ [StepOK]_vars
  OBVIOUS
<1>1. CASE Next
  <2>1. ASSUME NEW m \in Messages, Process(m) PROVE IInv' /\ StepOK
    BY <2>1, ProcessStep, MessagesAssumption
  <2> QED BY <1>1, <2>1, InvalidateStep DEF Next
<1>2. CASE UNCHANGED vars
  BY <1>2 DEF vars, IInv, TypeOK, BookOfThisEpoch
<1> QED BY <1>1, <1>2

(* The invariant holds in every reachable state.                           *)
THEOREM ProcessorInvariant == Spec => []IInv
BY InitGood, NextStep, PTL DEF Spec

(* Type correctness: SymbolState and the result of process hold values of  *)
(* their types, whatever messages arrive; the row number never wraps.      *)
THEOREM TypeCorrect == Spec => []TypeOK
<1>1. IInv => TypeOK
  BY DEF IInv
<1> QED BY <1>1, ProcessorInvariant, PTL

(* The book is ordered, bounded and uncrossed after every call.            *)
THEOREM BookAlwaysWellFormed == Spec => []BookWellFormed
<1>1. IInv => BookWellFormed
  BY DEF IInv, GoodBook, GoodSides, BookWellFormed
<1> QED BY <1>1, ProcessorInvariant, PTL

(* A USD-M chain always hangs on the book's own last diff, and no book     *)
(* outlives the connection it was built in.                                *)
THEOREM BookAlwaysCurrent == Spec => []BookIsCurrent
<1>1. IInv => BookIsCurrent
  BY DEF IInv, GoodBook, ChainOnBook, BookIsCurrent
<1> QED BY <1>1, ProcessorInvariant, PTL

(* Within a connection the update id of a valid book never goes back.      *)
THEOREM IdsAlwaysAdvance == Spec => UpdateIdsAdvance
<1>1. [StepOK]_vars => [IdsAdvance]_vars
  BY DEF StepOK
<1>2. Spec => [][IdsAdvance]_vars
  BY <1>1, ProcessorInvariant, NextStep, PTL DEF Spec
<1> QED BY <1>2 DEF UpdateIdsAdvance, IdsAdvance

(* A differential row always continues a valid book of its connection.     *)
THEOREM DiffRowsAlwaysContinue == Spec => DiffRowsContinueTheBook
<1>1. [StepOK]_vars => [DiffRowContinues]_vars
  BY DEF StepOK
<1>2. Spec => [][DiffRowContinues]_vars
  BY <1>1, ProcessorInvariant, NextStep, PTL DEF Spec
<1> QED BY <1>2 DEF DiffRowsContinueTheBook, DiffRowContinues

(* Rows are numbered without hole or repetition.                           *)
THEOREM NumbersAlwaysContiguous == Spec => RowNumbersContiguous
<1>1. [StepOK]_vars => [NumbersContiguous]_vars
  BY DEF StepOK
<1>2. Spec => [][NumbersContiguous]_vars
  BY <1>1, ProcessorInvariant, NextStep, PTL DEF Spec
<1> QED BY <1>2 DEF RowNumbersContiguous, NumbersContiguous
=============================================================================
