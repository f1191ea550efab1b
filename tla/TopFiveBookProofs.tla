------------------------- MODULE TopFiveBookProofs --------------------------
(***************************************************************************)
(* apply_updates computes what DESIGN.md says it computes, for every depth *)
(* and every message the parser accepts.  The proof follows the code: a    *)
(* lemma for each helper, an induction over the updates for each pass.     *)
(***************************************************************************)
EXTENDS TopFiveBook, SetInduction, TLAPS

-----------------------------------------------------------------------------
(* The helpers of apply_updates.                                           *)

(* Prices of one side are totally ordered.                                 *)
LEMMA BetterPriceOrder ==
  ASSUME NEW side \in Sides
  PROVE  /\ \A p \in Price : ~ BetterPrice(side, p, p)
         /\ \A p, q, r \in Price :
              BetterPrice(side, p, q) /\ BetterPrice(side, q, r)
                => BetterPrice(side, p, r)
         /\ \A p, q \in Price :
              p = q \/ BetterPrice(side, p, q) \/ BetterPrice(side, q, p)
BY DEF BetterPrice, Price, Sides

(* The members of a side are levels, with a price and a quantity.          *)
LEMMA LevelsTyped ==
  ASSUME NEW levels \in Seq(BookLevel), NEW i \in 1 .. Len(levels)
  PROVE  /\ levels[i] \in BookLevel
         /\ levels[i].price \in Price
         /\ levels[i].quantity \in Nat \ {0}
<1>1. levels[i] \in BookLevel
  OBVIOUS
<1> QED BY <1>1 DEF BookLevel

(* The members of a message are updates, with a price and a quantity.      *)
LEMMA UpdatesTyped ==
  ASSUME NEW updates \in Seq(LevelUpdate), NEW i \in 1 .. Len(updates)
  PROVE  /\ updates[i] \in LevelUpdate
         /\ updates[i].price \in Price
         /\ updates[i].quantity \in Nat
         /\ updates[i] = [price |-> updates[i].price,
                          quantity |-> updates[i].quantity]
         /\ updates[i].quantity # 0 => updates[i] \in BookLevel
<1>1. updates[i] \in LevelUpdate
  OBVIOUS
<1> QED BY <1>1 DEF LevelUpdate, BookLevel

(* The levels of an ordered side have different prices.                    *)
LEMMA OrderedPricesDiffer ==
  ASSUME NEW side \in Sides, NEW levels \in Seq(BookLevel),
         StrictlyOrdered(levels, side),
         NEW i \in 1 .. Len(levels), NEW j \in 1 .. Len(levels),
         levels[i].price = levels[j].price
  PROVE  i = j
<1>1. levels[i].price \in Price /\ levels[j].price \in Price
  BY LevelsTyped
<1>2. CASE i < j
  BY <1>1, <1>2, BetterPriceOrder DEF StrictlyOrdered
<1>3. CASE j < i
  BY <1>1, <1>3, BetterPriceOrder DEF StrictlyOrdered
<1> QED BY <1>2, <1>3

(* find_price finds the one level with the price.                          *)
LEMMA FindPriceFinds ==
  ASSUME NEW side \in Sides, NEW levels \in Seq(BookLevel),
         StrictlyOrdered(levels, side), NEW price, HasPrice(levels, price)
  PROVE  /\ FindPrice(levels, price) \in 1 .. Len(levels)
         /\ levels[FindPrice(levels, price)].price = price
<1> DEFINE Found(i) == /\ \A j \in 1 .. i - 1 : levels[j].price # price
                       /\ i <= Len(levels) => levels[i].price = price
<1>1. PICK k \in 1 .. Len(levels) : levels[k].price = price
  BY DEF HasPrice
<1>2. Found(k)
  <2>1. ASSUME NEW j \in 1 .. k - 1, levels[j].price = price PROVE FALSE
    <3>1. j \in 1 .. Len(levels) /\ j # k
      BY <1>1
    <3> QED BY <1>1, <2>1, <3>1, OrderedPricesDiffer
  <2> QED BY <1>1, <2>1
<1>3. \E i \in 1 .. Len(levels) + 1 : Found(i)
  <2>1. k \in 1 .. Len(levels) + 1
    OBVIOUS
  <2> HIDE DEF Found
  <2> QED BY <1>2, <2>1
<1> DEFINE f == CHOOSE i \in 1 .. Len(levels) + 1 : Found(i)
<1>4. f \in 1 .. Len(levels) + 1 /\ Found(f)
  <2> HIDE DEF Found
  <2> QED BY <1>3
<1>5. FindPrice(levels, price) = f
  BY DEF FindPrice
<1> HIDE DEF f
<1>6. f # Len(levels) + 1
  BY <1>1, <1>4
<1> QED BY <1>4, <1>5, <1>6

(* insert_level stops at the first level that is not better.               *)
LEMMA InsertPositionFinds ==
  ASSUME NEW side \in Sides, NEW levels \in Seq(BookLevel), NEW price \in Price
  PROVE  LET p == InsertPosition(levels, side, price)
         IN  /\ p \in 1 .. Len(levels) + 1
             /\ \A j \in 1 .. p - 1 : BetterPrice(side, levels[j].price, price)
             /\ p <= Len(levels) => ~ BetterPrice(side, levels[p].price, price)
<1> DEFINE Stops(i) ==
             /\ \A j \in 1 .. i - 1 : BetterPrice(side, levels[j].price, price)
             /\ i <= Len(levels) => ~ BetterPrice(side, levels[i].price, price)
           T == {i \in 1 .. Len(levels) + 1 :
                   i <= Len(levels) => ~ BetterPrice(side, levels[i].price, price)}
<1>1. T \subseteq Nat /\ T # {}
  <2>1. Len(levels) + 1 \in T
    OBVIOUS
  <2> QED BY <2>1
<1>2. PICK k \in T : \A y \in T : k <= y
  <2> HIDE DEF T
  <2> QED BY <1>1, LeastNatural, Zenon
<1>3. Stops(k) /\ k \in 1 .. Len(levels) + 1
  <2>1. ASSUME NEW j \in 1 .. k - 1, ~ BetterPrice(side, levels[j].price, price)
        PROVE  FALSE
    <3>1. j \in T
      BY <2>1
    <3> QED BY <1>2, <3>1
  <2> QED BY <2>1
<1> DEFINE f == CHOOSE i \in 1 .. Len(levels) + 1 : Stops(i)
<1>4. f \in 1 .. Len(levels) + 1 /\ Stops(f)
  <2> HIDE DEF Stops
  <2> QED BY <1>3
<1>5. InsertPosition(levels, side, price) = f
  BY DEF InsertPosition
<1> HIDE DEF f
<1> QED BY <1>4, <1>5

(* erase_level removes the level and keeps the order.                      *)
LEMMA EraseLevelErases ==
  ASSUME NEW side \in Sides, NEW levels \in Seq(BookLevel),
         StrictlyOrdered(levels, side), NEW k \in 1 .. Len(levels)
  PROVE  LET e == EraseLevel(levels, k)
         IN  /\ e \in Seq(BookLevel)
             /\ Len(e) = Len(levels) - 1
             /\ StrictlyOrdered(e, side)
             /\ LevelSet(e) = LevelSet(levels) \ {levels[k]}
<1> DEFINE e == EraseLevel(levels, k)
<1>1. /\ e \in Seq(BookLevel)
      /\ Len(e) = Len(levels) - 1
      /\ \A i \in 1 .. Len(e) : e[i] = IF i < k THEN levels[i] ELSE levels[i + 1]
  BY DEF EraseLevel
<1> HIDE DEF e
<1>2. StrictlyOrdered(e, side)
  <2>1. SUFFICES ASSUME NEW i \in 1 .. Len(e), NEW j \in 1 .. Len(e), i < j
                 PROVE  BetterPrice(side, e[i].price, e[j].price)
    BY DEF StrictlyOrdered
  <2> DEFINE m == IF i < k THEN i ELSE i + 1
             n == IF j < k THEN j ELSE j + 1
  <2>2. /\ m \in 1 .. Len(levels) /\ n \in 1 .. Len(levels) /\ m < n
        /\ e[i] = levels[m] /\ e[j] = levels[n]
    <3>1. Len(levels) \in Nat /\ Len(e) = Len(levels) - 1
      BY <1>1
    <3>2. m \in 1 .. Len(levels) /\ n \in 1 .. Len(levels) /\ m < n
      BY <2>1, <3>1
    <3>3. e[i] = levels[m] /\ e[j] = levels[n]
      BY <1>1
    <3> QED BY <3>2, <3>3
  <2> HIDE DEF m, n
  <2> QED BY <2>2 DEF StrictlyOrdered
<1>3. ASSUME NEW l \in LevelSet(e) PROVE l \in LevelSet(levels) \ {levels[k]}
  <2>1. PICK i \in 1 .. Len(e) : l = e[i]
    BY DEF LevelSet
  <2>2. PICK j \in 1 .. Len(levels) : l = levels[j] /\ j # k
    <3>1. CASE i < k
      BY <1>1, <2>1, <3>1
    <3>2. CASE i >= k
      BY <1>1, <2>1, <3>2
    <3> QED BY <1>1, <3>1, <3>2
  <2>3. levels[j] # levels[k]
    BY <2>2, OrderedPricesDiffer
  <2> QED BY <2>2, <2>3 DEF LevelSet
<1>4. ASSUME NEW l \in LevelSet(levels), l # levels[k] PROVE l \in LevelSet(e)
  <2>1. PICK j \in 1 .. Len(levels) : l = levels[j]
    BY DEF LevelSet
  <2>2. j # k
    BY <1>4, <2>1
  <2>3. CASE j < k
    <3>1. j \in 1 .. Len(e) /\ e[j] = levels[j]
      BY <1>1, <2>3
    <3> QED BY <2>1, <3>1 DEF LevelSet
  <2>4. CASE j > k
    <3>1. j - 1 \in 1 .. Len(e) /\ e[j - 1] = levels[j]
      BY <1>1, <2>4
    <3> QED BY <2>1, <3>1 DEF LevelSet
  <2> QED BY <2>2, <2>3, <2>4
<1> QED BY <1>1, <1>2, <1>3, <1>4 DEF e

(* Writing a new quantity replaces one level and keeps the order.          *)
LEMMA QuantityReplaced ==
  ASSUME NEW side \in Sides, NEW levels \in Seq(BookLevel),
         StrictlyOrdered(levels, side), NEW k \in 1 .. Len(levels),
         NEW u \in BookLevel, u.price = levels[k].price
  PROVE  LET e == SetQuantity(levels, k, u.quantity)
         IN  /\ e \in Seq(BookLevel)
             /\ Len(e) = Len(levels)
             /\ StrictlyOrdered(e, side)
             /\ LevelSet(e) = (LevelSet(levels) \ {levels[k]}) \cup {u}
<1> DEFINE e == SetQuantity(levels, k, u.quantity)
<1>0. [levels[k] EXCEPT !.quantity = u.quantity] = u
  <2>1. levels[k] \in BookLevel
    BY LevelsTyped
  <2> QED BY <2>1 DEF BookLevel
<1>1. e = [i \in 1 .. Len(levels) |-> IF i = k THEN u ELSE levels[i]]
  BY <1>0 DEF SetQuantity
<1>2. /\ e \in Seq(BookLevel)
      /\ Len(e) = Len(levels)
      /\ \A i \in 1 .. Len(e) : e[i] = IF i = k THEN u ELSE levels[i]
  BY <1>1
<1> HIDE DEF e
<1>3. \A i \in 1 .. Len(e) : e[i].price = levels[i].price
  BY <1>2
<1>4. StrictlyOrdered(e, side)
  BY <1>2, <1>3 DEF StrictlyOrdered
<1>5. ASSUME NEW l \in LevelSet(e), l # u
      PROVE  l \in LevelSet(levels) \ {levels[k]}
  <2>1. PICK i \in 1 .. Len(e) : l = e[i]
    BY DEF LevelSet
  <2>2. i \in 1 .. Len(levels) /\ i # k /\ l = levels[i]
    BY <1>2, <1>5, <2>1
  <2>3. levels[i] # levels[k]
    BY <2>2, OrderedPricesDiffer
  <2> QED BY <2>2, <2>3 DEF LevelSet
<1>6. ASSUME NEW l \in LevelSet(levels), l # levels[k] PROVE l \in LevelSet(e)
  <2>1. PICK i \in 1 .. Len(levels) : l = levels[i]
    BY DEF LevelSet
  <2>2. i \in 1 .. Len(e) /\ e[i] = l
    BY <1>2, <1>6, <2>1
  <2> QED BY <2>2 DEF LevelSet
<1>7. u \in LevelSet(e)
  BY <1>2 DEF LevelSet
<1> QED BY <1>2, <1>4, <1>5, <1>6, <1>7 DEF e

(* insert_level keeps the Depth best: if levels are the best of S, then    *)
(* with a level of a new price they become the best of S and that level.   *)
LEMMA InsertLevelKeepsBest ==
  ASSUME NEW side \in Sides, NEW levels \in Seq(BookLevel),
         NEW S \in SUBSET BookLevel, IsBest(levels, side, S),
         NEW l \in BookLevel, \A s \in S : s.price # l.price
  PROVE  /\ InsertLevel(levels, side, l) \in Seq(BookLevel)
         /\ IsBest(InsertLevel(levels, side, l), side, S \cup {l})
<1> USE DepthAssumption
<1> DEFINE p == InsertPosition(levels, side, l.price)
           N == Len(levels)
           size == IF N < Depth THEN N + 1 ELSE N
           e == [i \in 1 .. size |->
                   IF i < p THEN levels[i] ELSE IF i = p THEN l ELSE levels[i - 1]]
<1>1. /\ StrictlyOrdered(levels, side)
      /\ N \in Nat /\ N <= Depth
      /\ LevelSet(levels) \subseteq S
      /\ \A x \in S \ LevelSet(levels) :
           N = Depth /\ \A k \in LevelSet(levels) : BetterPrice(side, k.price, x.price)
  BY DEF IsBest
<1>2. /\ l.price \in Price
      /\ \A s \in S : s.price \in Price
  BY DEF BookLevel
<1>3. /\ p \in 1 .. N + 1
      /\ \A j \in 1 .. p - 1 : BetterPrice(side, levels[j].price, l.price)
      /\ p <= N => ~ BetterPrice(side, levels[p].price, l.price)
  BY <1>2, InsertPositionFinds
<1>4. \A j \in 1 .. N : levels[j] \in LevelSet(levels) /\ levels[j] \in S
  BY <1>1 DEF LevelSet
<1> HIDE DEF p
<1>5. ASSUME NEW j \in p .. N PROVE BetterPrice(side, l.price, levels[j].price)
  <2>1. p \in 1 .. N /\ j \in 1 .. N
    BY <1>1, <1>3
  <2>2. levels[p].price # l.price /\ levels[p].price \in Price
    BY <1>2, <1>4, <2>1
  <2>3. BetterPrice(side, l.price, levels[p].price)
    BY <1>2, <1>3, <2>1, <2>2, BetterPriceOrder
  <2>4. CASE j = p
    BY <2>3, <2>4
  <2>5. CASE p < j
    <3>1. BetterPrice(side, levels[p].price, levels[j].price)
      BY <1>1, <2>1, <2>5 DEF StrictlyOrdered
    <3>2. levels[j].price \in Price
      BY <1>2, <1>4, <2>1
    <3> QED BY <1>2, <2>2, <2>3, <3>1, <3>2, BetterPriceOrder
  <2> QED BY <2>1, <2>4, <2>5
<1>6. CASE N = Depth /\ p = Depth + 1
  <2>1. InsertLevel(levels, side, l) = levels
    BY <1>6 DEF InsertLevel, p
  <2>2. \A k \in LevelSet(levels) : BetterPrice(side, k.price, l.price)
    BY <1>3, <1>6 DEF LevelSet
  <2>3. IsBest(levels, side, S \cup {l})
    BY <1>1, <1>6, <2>2 DEF IsBest
  <2> QED BY <2>1, <2>3
<1>7. CASE ~ (N = Depth /\ p = Depth + 1)
  <2>1. InsertLevel(levels, side, l) = e
    BY <1>7 DEF InsertLevel, p
  <2>2. /\ size \in Nat /\ size <= Depth /\ p \in 1 .. size
        /\ N = Depth => size = Depth
        /\ N < Depth => size = N + 1
    BY <1>1, <1>3, <1>7
  <2>3. /\ e \in Seq(BookLevel)
        /\ Len(e) = size
        /\ \A i \in 1 .. size :
             e[i] = IF i < p THEN levels[i] ELSE IF i = p THEN l ELSE levels[i - 1]
    <3>1. ASSUME NEW i \in 1 .. size
          PROVE  (IF i < p THEN levels[i] ELSE IF i = p THEN l ELSE levels[i - 1])
                   \in BookLevel
      <4>1. CASE i < p
        <5>1. i \in 1 .. N BY <1>3, <4>1
        <5> QED BY <4>1, <5>1, <1>4
      <4>2. CASE i = p
        BY <4>2
      <4>3. CASE i > p
        <5>1. i - 1 \in 1 .. N BY <2>2, <1>1, <1>3, <4>3
        <5> QED BY <4>3, <5>1, <1>3, <1>4
      <4> QED BY <1>3, <4>1, <4>2, <4>3
    <3> HIDE DEF size
    <3> QED BY <2>2, <3>1
  <2> HIDE DEF e, size
  <2>4. StrictlyOrdered(e, side)
    <3>1. SUFFICES ASSUME NEW i \in 1 .. size, NEW j \in 1 .. size, i < j
                   PROVE  BetterPrice(side, e[i].price, e[j].price)
      BY <2>3 DEF StrictlyOrdered
    <3>2. CASE j < p
      <4>1. i \in 1 .. N /\ j \in 1 .. N /\ e[i] = levels[i] /\ e[j] = levels[j]
        BY <1>1, <1>3, <2>2, <2>3, <3>1, <3>2
      <4> QED BY <1>1, <3>1, <4>1 DEF StrictlyOrdered
    <3>3. CASE j = p
      <4>1. i \in 1 .. p - 1 /\ e[i] = levels[i] /\ e[j] = l
        BY <1>3, <2>2, <2>3, <3>1, <3>3
      <4> QED BY <1>3, <4>1
    <3>4. CASE i < p /\ p < j
      <4>1. i \in 1 .. N /\ j - 1 \in 1 .. N /\ i < j - 1
            /\ e[i] = levels[i] /\ e[j] = levels[j - 1]
        BY <1>1, <1>3, <2>2, <2>3, <3>1, <3>4
      <4> QED BY <1>1, <4>1 DEF StrictlyOrdered
    <3>5. CASE i = p
      <4>1. j - 1 \in p .. N /\ e[i] = l /\ e[j] = levels[j - 1]
        BY <1>1, <1>3, <2>2, <2>3, <3>1, <3>5
      <4> QED BY <1>5, <4>1
    <3>6. CASE p < i
      <4>1. i - 1 \in 1 .. N /\ j - 1 \in 1 .. N /\ i - 1 < j - 1
        BY <1>1, <1>3, <2>2, <3>1, <3>6
      <4>2. ~ (i < p) /\ i # p /\ ~ (j < p) /\ j # p
        BY <1>3, <2>2, <3>1, <3>6
      <4>3. e[i] = levels[i - 1] /\ e[j] = levels[j - 1]
        BY <2>3, <4>2
      <4> QED BY <1>1, <4>1, <4>3 DEF StrictlyOrdered
    <3> QED BY <1>3, <2>2, <3>1, <3>2, <3>3, <3>4, <3>5, <3>6
  <2>5. ASSUME NEW k \in LevelSet(e)
        PROVE  \/ k = l
               \/ \E j \in 1 .. N : k = levels[j] /\ (N = Depth => j # Depth)
    <3>1. PICK i \in 1 .. size : k = e[i]
      BY <2>3 DEF LevelSet
    <3>2. CASE i < p
      <4>1. i \in 1 .. N /\ k = levels[i] /\ (N = Depth => i # Depth)
        BY <1>1, <1>3, <2>2, <2>3, <3>1, <3>2
      <4> QED BY <4>1
    <3>3. CASE i = p
      BY <2>3, <3>1, <3>3
    <3>4. CASE i > p
      <4>1. i - 1 \in 1 .. N /\ k = levels[i - 1] /\ (N = Depth => i - 1 # Depth)
        BY <1>1, <1>3, <2>2, <2>3, <3>1, <3>4
      <4> QED BY <4>1
    <3> QED BY <1>3, <2>2, <3>2, <3>3, <3>4
  <2>6. LevelSet(e) \subseteq S \cup {l}
    BY <1>4, <2>5
  <2>7. ASSUME NEW x \in (S \cup {l}) \ LevelSet(e)
        PROVE  size = Depth /\ \A k \in LevelSet(e) : BetterPrice(side, k.price, x.price)
    <3>1. x # l
      <4>1. e[p] = l /\ p \in 1 .. Len(e)
        BY <2>2, <2>3
      <4> QED BY <4>1 DEF LevelSet
    <3>2. x \in S /\ x.price \in Price
      BY <1>2, <3>1
    <3>3. N = Depth
      <4>1. CASE x \in LevelSet(levels)
        <5>1. PICK j \in 1 .. N : x = levels[j]
          BY <4>1 DEF LevelSet
        <5>2. SUFFICES ASSUME N < Depth PROVE FALSE
          BY <1>1
        <5>3. CASE j < p
          <6>1. j \in 1 .. size /\ e[j] = x
            BY <1>1, <2>2, <2>3, <5>1, <5>2, <5>3
          <6> QED BY <2>3, <6>1 DEF LevelSet
        <5>4. CASE p <= j
          <6>1. j + 1 \in 1 .. size /\ e[j + 1] = x
            BY <1>1, <1>3, <2>2, <2>3, <5>1, <5>2, <5>4
          <6> QED BY <2>3, <6>1 DEF LevelSet
        <5> QED BY <1>3, <5>1, <5>3, <5>4
      <4>2. CASE x \notin LevelSet(levels)
        BY <1>1, <3>2, <4>2
      <4> QED BY <4>1, <4>2
    <3>4. p \in 1 .. Depth /\ Depth \in 1 .. N /\ Depth \in p .. N
      BY <2>2, <3>3
    <3>5. /\ BetterPrice(side, l.price, levels[Depth].price)
          /\ levels[Depth].price \in Price
      BY <1>2, <1>4, <1>5, <3>4
    <3>6. x = levels[Depth] \/ BetterPrice(side, levels[Depth].price, x.price)
      <4>1. CASE x \in LevelSet(levels)
        <5>1. PICK j \in 1 .. N : x = levels[j]
          BY <4>1 DEF LevelSet
        <5>2. SUFFICES ASSUME j # Depth PROVE FALSE
          BY <5>1
        <5>3. CASE j < p
          <6>1. j \in 1 .. size /\ e[j] = x
            BY <1>1, <2>2, <2>3, <5>1, <5>3
          <6> QED BY <2>3, <6>1 DEF LevelSet
        <5>4. CASE p <= j
          <6>1. j + 1 \in 1 .. size /\ e[j + 1] = x
            BY <1>1, <1>3, <2>2, <2>3, <3>3, <5>1, <5>2, <5>4
          <6> QED BY <2>3, <6>1 DEF LevelSet
        <5> QED BY <1>3, <5>1, <5>3, <5>4
      <4>2. CASE x \notin LevelSet(levels)
        BY <1>1, <1>4, <3>2, <3>4, <4>2
      <4> QED BY <4>1, <4>2
    <3>7. BetterPrice(side, l.price, x.price)
      BY <1>2, <3>2, <3>5, <3>6, BetterPriceOrder
    <3>8. ASSUME NEW k \in LevelSet(e) PROVE BetterPrice(side, k.price, x.price)
      <4>1. CASE k = l
        BY <3>7, <4>1
      <4>2. CASE k # l
        <5>1. PICK j \in 1 .. N : k = levels[j] /\ j # Depth
          BY <2>5, <3>3, <4>2
        <5>2. BetterPrice(side, k.price, levels[Depth].price) /\ k.price \in Price
          BY <1>1, <1>2, <1>4, <3>3, <3>4, <5>1 DEF StrictlyOrdered
        <5> QED BY <3>2, <3>5, <3>6, <5>2, BetterPriceOrder
      <4> QED BY <4>1, <4>2
    <3> QED BY <2>2, <3>3, <3>8
  <2>8. IsBest(e, side, S \cup {l})
    BY <2>2, <2>3, <2>4, <2>6, <2>7 DEF IsBest
  <2> QED BY <2>1, <2>3, <2>8
<1> QED BY <1>6, <1>7

-----------------------------------------------------------------------------
(* The two passes.  After n updates the first pass has made the side of    *)
(* RevisedPart, the second has added NewPart.                              *)

RevisedPart(original, updates, n) ==
  {l \in LevelSet(original) : \A i \in 1 .. n : updates[i].price # l.price}
    \cup {updates[i] : i \in {k \in 1 .. n :
            updates[k].quantity # 0 /\ HasPrice(original, updates[k].price)}}

NewPart(original, updates, n) ==
  {updates[i] : i \in {k \in 1 .. n :
     updates[k].quantity # 0 /\ ~ HasPrice(original, updates[k].price)}}

(* The first pass is the iteration its definition says it is.              *)
LEMMA RevisedSideEquation ==
  ASSUME NEW original, NEW updates, Len(updates) \in Nat
  PROVE  \E g : /\ g = [n \in 0 .. Len(updates) |->
                         IF n = 0 THEN original
                         ELSE ReviseLevel(original, g[n - 1], updates[n])]
                /\ RevisedSide(original, updates) = g[Len(updates)]
<1> DEFINE Eqn(g, m) == g = [n \in 0 .. m |->
                              IF n = 0 THEN original
                              ELSE ReviseLevel(original, g[n - 1], updates[n])]
           S == {m \in Nat : \E g : Eqn(g, m)}
           N == Len(updates)
<1>1. 0 \in S
  <2> DEFINE g0 == [n \in 0 .. 0 |-> original]
  <2>1. Eqn(g0, 0)
    OBVIOUS
  <2> QED BY <2>1, Zenon
<1>2. ASSUME NEW m \in Nat, m \in S PROVE m + 1 \in S
  <2>1. PICK g : Eqn(g, m)
    BY <1>2, Zenon
  <2> DEFINE h == [n \in 0 .. m + 1 |->
                     IF n = m + 1 THEN ReviseLevel(original, g[m], updates[m + 1])
                     ELSE g[n]]
  <2>2. ASSUME NEW n \in 0 .. m + 1
        PROVE  h[n] = IF n = 0 THEN original
                      ELSE ReviseLevel(original, h[n - 1], updates[n])
    <3>1. CASE n = m + 1
      BY <3>1
    <3>2. CASE n # m + 1
      <4>1. n \in 0 .. m
        BY <3>2
      <4>2. g[n] = IF n = 0 THEN original
                   ELSE ReviseLevel(original, g[n - 1], updates[n])
        BY <2>1, <4>1
      <4> QED BY <3>2, <4>1, <4>2
    <3> QED BY <3>1, <3>2
  <2>3. Eqn(h, m + 1)
    BY <2>2
  <2> HIDE DEF h
  <2> QED BY <2>3
<1>3. N \in S
  <2> HIDE DEF S
  <2> QED BY <1>1, <1>2, NatSetInduction
<1>4. \E g : Eqn(g, N)
  BY <1>3
<1> DEFINE f == CHOOSE g : Eqn(g, N)
<1>5. Eqn(f, N)
  BY <1>4, Zenon
<1>6. RevisedSide(original, updates) = f[N]
  BY Zenon DEF RevisedSide
<1> HIDE DEF f
<1> QED BY <1>5, <1>6

(* So is the second.                                                       *)
LEMMA ExtendedSideEquation ==
  ASSUME NEW original, NEW side, NEW revised, NEW updates, Len(updates) \in Nat
  PROVE  \E g : /\ g = [n \in 0 .. Len(updates) |->
                         IF n = 0 THEN revised
                         ELSE AddLevel(original, side, g[n - 1], updates[n])]
                /\ ExtendedSide(original, side, revised, updates) = g[Len(updates)]
<1> DEFINE Eqn(g, m) == g = [n \in 0 .. m |->
                              IF n = 0 THEN revised
                              ELSE AddLevel(original, side, g[n - 1], updates[n])]
           S == {m \in Nat : \E g : Eqn(g, m)}
           N == Len(updates)
<1>1. 0 \in S
  <2> DEFINE g0 == [n \in 0 .. 0 |-> revised]
  <2>1. Eqn(g0, 0)
    OBVIOUS
  <2> QED BY <2>1, Zenon
<1>2. ASSUME NEW m \in Nat, m \in S PROVE m + 1 \in S
  <2>1. PICK g : Eqn(g, m)
    BY <1>2, Zenon
  <2> DEFINE h == [n \in 0 .. m + 1 |->
                     IF n = m + 1 THEN AddLevel(original, side, g[m], updates[m + 1])
                     ELSE g[n]]
  <2>2. ASSUME NEW n \in 0 .. m + 1
        PROVE  h[n] = IF n = 0 THEN revised
                      ELSE AddLevel(original, side, h[n - 1], updates[n])
    <3>1. CASE n = m + 1
      BY <3>1
    <3>2. CASE n # m + 1
      <4>1. n \in 0 .. m
        BY <3>2
      <4>2. g[n] = IF n = 0 THEN revised
                   ELSE AddLevel(original, side, g[n - 1], updates[n])
        BY <2>1, <4>1
      <4> QED BY <3>2, <4>1, <4>2
    <3> QED BY <3>1, <3>2
  <2>3. Eqn(h, m + 1)
    BY <2>2
  <2> HIDE DEF h
  <2> QED BY <2>3
<1>3. N \in S
  <2> HIDE DEF S
  <2> QED BY <1>1, <1>2, NatSetInduction
<1>4. \E g : Eqn(g, N)
  BY <1>3
<1> DEFINE f == CHOOSE g : Eqn(g, N)
<1>5. Eqn(f, N)
  BY <1>4, Zenon
<1>6. ExtendedSide(original, side, revised, updates) = f[N]
  BY Zenon DEF ExtendedSide
<1> HIDE DEF f
<1> QED BY <1>5, <1>6

(* What one more update does to the set the first pass should have made.   *)
LEMMA RevisedPartStep ==
  ASSUME NEW original \in Seq(BookLevel), NEW updates \in Seq(LevelUpdate),
         UniquePrices(updates), NEW n \in Nat, n + 1 <= Len(updates)
  PROVE  LET u == updates[n + 1]
         IN  RevisedPart(original, updates, n + 1) =
               {l \in RevisedPart(original, updates, n) : l.price # u.price}
                 \cup {v \in {u} : u.quantity # 0 /\ HasPrice(original, u.price)}
<1> DEFINE u == updates[n + 1]
           R(m) == RevisedPart(original, updates, m)
           Kept == {l \in R(n) : l.price # u.price}
                     \cup {v \in {u} : u.quantity # 0 /\ HasPrice(original, u.price)}
<1>0. /\ n + 1 \in 1 .. Len(updates)
      /\ \A i \in 1 .. n : i \in 1 .. n + 1 /\ i \in 1 .. Len(updates) /\ i # n + 1
      /\ \A i \in 1 .. n + 1 : i = n + 1 \/ i \in 1 .. n
  OBVIOUS
<1>1. \A i \in 1 .. n : updates[i].price # u.price
  BY <1>0 DEF UniquePrices
<1>2. ASSUME NEW x \in R(n + 1) PROVE x \in Kept
  <2>1. CASE x \in LevelSet(original) /\ \A i \in 1 .. n + 1 : updates[i].price # x.price
    BY <1>0, <2>1 DEF RevisedPart
  <2>2. CASE \E i \in 1 .. n + 1 : /\ x = updates[i]
                                   /\ updates[i].quantity # 0
                                   /\ HasPrice(original, updates[i].price)
    <3>1. PICK i \in 1 .. n + 1 : /\ x = updates[i]
                                 /\ updates[i].quantity # 0
                                 /\ HasPrice(original, updates[i].price)
      BY <2>2
    <3>2. CASE i = n + 1
      BY <3>1, <3>2
    <3>3. CASE i \in 1 .. n
      BY <1>1, <3>1, <3>3 DEF RevisedPart
    <3> QED BY <1>0, <3>2, <3>3
  <2> QED BY <2>1, <2>2 DEF RevisedPart
<1>3. ASSUME NEW x \in Kept PROVE x \in R(n + 1)
  <2>1. CASE x \in R(n) /\ x.price # u.price
    <3>1. CASE x \in LevelSet(original) /\ \A i \in 1 .. n : updates[i].price # x.price
      BY <1>0, <2>1, <3>1 DEF RevisedPart
    <3>2. CASE \E i \in 1 .. n : /\ x = updates[i]
                                 /\ updates[i].quantity # 0
                                 /\ HasPrice(original, updates[i].price)
      BY <1>0, <3>2 DEF RevisedPart
    <3> QED BY <2>1, <3>1, <3>2 DEF RevisedPart
  <2>2. CASE x = u /\ u.quantity # 0 /\ HasPrice(original, u.price)
    BY <1>0, <2>2 DEF RevisedPart
  <2> QED BY <2>1, <2>2
<1> QED BY <1>2, <1>3

(* One iteration of the first pass.                                        *)
LEMMA ReviseLevelStep ==
  ASSUME NEW side \in Sides, NEW original \in Seq(BookLevel),
         StrictlyOrdered(original, side),
         NEW updates \in Seq(LevelUpdate), UniquePrices(updates),
         NEW n \in Nat, n + 1 <= Len(updates),
         NEW c \in Seq(BookLevel), StrictlyOrdered(c, side),
         Len(c) <= Len(original),
         LevelSet(c) = RevisedPart(original, updates, n)
  PROVE  LET d == ReviseLevel(original, c, updates[n + 1])
         IN  /\ d \in Seq(BookLevel)
             /\ StrictlyOrdered(d, side)
             /\ Len(d) <= Len(original)
             /\ LevelSet(d) = RevisedPart(original, updates, n + 1)
<1> DEFINE u == updates[n + 1]
           d == ReviseLevel(original, c, u)
           R(m) == RevisedPart(original, updates, m)
<1>0. /\ n + 1 \in 1 .. Len(updates)
      /\ \A i \in 1 .. n : i \in 1 .. Len(updates) /\ i # n + 1
  OBVIOUS
<1>1. /\ u.price \in Price /\ u.quantity \in Nat
      /\ u.quantity # 0 => u \in BookLevel
  BY <1>0, UpdatesTyped, Zenon
<1>2. R(n + 1) = {l \in R(n) : l.price # u.price}
                   \cup {v \in {u} : u.quantity # 0 /\ HasPrice(original, u.price)}
  BY RevisedPartStep
<1>3. \A i \in 1 .. n : updates[i].price # u.price
  BY <1>0 DEF UniquePrices
<1>4. CASE ~ HasPrice(original, u.price)
  <2>1. d = c
    BY <1>4 DEF ReviseLevel
  <2>2. ASSUME NEW l \in R(n) PROVE l.price # u.price
    <3>1. CASE l \in LevelSet(original)
      BY <1>4, <3>1 DEF LevelSet, HasPrice
    <3>2. CASE \E i \in 1 .. n : l = updates[i]
      BY <1>3, <3>2
    <3> QED BY <3>1, <3>2 DEF RevisedPart
  <2>3. R(n + 1) = R(n)
    BY <1>2, <1>4, <2>2, Zenon
  <2> QED BY <2>1, <2>3
<1>5. CASE HasPrice(original, u.price)
  <2> DEFINE k == FindPrice(c, u.price)
  <2>1. HasPrice(c, u.price)
    <3>1. PICK m \in 1 .. Len(original) : original[m].price = u.price
      BY <1>5 DEF HasPrice
    <3>2. original[m] \in R(n)
      BY <1>3, <3>1 DEF RevisedPart, LevelSet
    <3>3. original[m] \in LevelSet(c)
      BY <3>2
    <3> QED BY <3>1, <3>3 DEF LevelSet, HasPrice
  <2>2. k \in 1 .. Len(c) /\ c[k].price = u.price
    BY <2>1, FindPriceFinds
  <2> HIDE DEF k
  <2>3. LevelSet(c) \ {c[k]} = {l \in LevelSet(c) : l.price # u.price}
    <3>1. ASSUME NEW l \in LevelSet(c), l # c[k] PROVE l.price # u.price
      <4>1. PICK j \in 1 .. Len(c) : l = c[j]
        BY DEF LevelSet
      <4>2. j # k
        BY <3>1, <4>1
      <4> QED BY <2>2, <4>1, <4>2, OrderedPricesDiffer
    <3> QED BY <2>2, <3>1
  <2>4. CASE u.quantity = 0
    <3>1. d = EraseLevel(c, k)
      BY <1>5, <2>4 DEF ReviseLevel, k
    <3>2. /\ d \in Seq(BookLevel) /\ Len(d) = Len(c) - 1
          /\ StrictlyOrdered(d, side) /\ LevelSet(d) = LevelSet(c) \ {c[k]}
      BY <2>2, <3>1, EraseLevelErases
    <3>3. LevelSet(d) = R(n + 1)
      BY <1>2, <2>3, <2>4, <3>2
    <3> HIDE DEF d
    <3>4. Len(d) <= Len(original)
      BY <3>2
    <3> QED BY <3>2, <3>3, <3>4 DEF d
  <2>5. CASE u.quantity # 0
    <3>1. d = SetQuantity(c, k, u.quantity)
      BY <1>5, <2>5 DEF ReviseLevel, k
    <3>2. /\ d \in Seq(BookLevel) /\ Len(d) = Len(c)
          /\ StrictlyOrdered(d, side) /\ LevelSet(d) = (LevelSet(c) \ {c[k]}) \cup {u}
      <4>1. u \in BookLevel /\ u.price = c[k].price /\ k \in 1 .. Len(c)
        BY <1>1, <2>2, <2>5
      <4> HIDE DEF u, k, d
      <4> DEFINE e == SetQuantity(c, k, u.quantity)
      <4>2. /\ e \in Seq(BookLevel) /\ Len(e) = Len(c)
            /\ StrictlyOrdered(e, side) /\ LevelSet(e) = (LevelSet(c) \ {c[k]}) \cup {u}
        BY ONLY side \in Sides, c \in Seq(BookLevel), StrictlyOrdered(c, side),
           <4>1, QuantityReplaced
      <4> QED BY <3>1, <4>2
    <3>3. LevelSet(d) = R(n + 1)
      BY <1>2, <1>5, <2>3, <2>5, <3>2
    <3> HIDE DEF d
    <3> QED BY <3>2, <3>3 DEF d
  <2> QED BY <2>4, <2>5
<1> QED BY <1>4, <1>5

(* The first pass as a whole.                                              *)
LEMMA RevisedSideCorrect ==
  ASSUME NEW side \in Sides, NEW original \in Seq(BookLevel),
         StrictlyOrdered(original, side),
         NEW updates \in Seq(LevelUpdate), UniquePrices(updates)
  PROVE  LET r == RevisedSide(original, updates)
         IN  /\ r \in Seq(BookLevel)
             /\ StrictlyOrdered(r, side)
             /\ Len(r) <= Len(original)
             /\ LevelSet(r) = RevisedPart(original, updates, Len(updates))
<1> DEFINE N == Len(updates)
<1>0. N \in Nat
  OBVIOUS
<1>1. PICK g : /\ g = [n \in 0 .. N |->
                       IF n = 0 THEN original
                       ELSE ReviseLevel(original, g[n - 1], updates[n])]
              /\ RevisedSide(original, updates) = g[N]
  BY <1>0, RevisedSideEquation, Zenon
<1> DEFINE Good(n) == /\ g[n] \in Seq(BookLevel)
                      /\ StrictlyOrdered(g[n], side)
                      /\ Len(g[n]) <= Len(original)
                      /\ LevelSet(g[n]) = RevisedPart(original, updates, n)
           S == {n \in Nat : n <= N => Good(n)}
<1>2. 0 \in S
  <2>1. g[0] = original
    BY <1>0, <1>1
  <2>2. RevisedPart(original, updates, 0) = LevelSet(original)
    BY DEF RevisedPart
  <2> QED BY <2>1, <2>2
<1>3. ASSUME NEW n \in Nat, n \in S PROVE n + 1 \in S
  <2>1. SUFFICES ASSUME n + 1 <= N PROVE Good(n + 1)
    OBVIOUS
  <2>2. Good(n)
    BY <1>0, <1>3, <2>1
  <2>3. g[n + 1] = ReviseLevel(original, g[n], updates[n + 1])
    BY <1>0, <1>1, <2>1
  <2> QED BY <2>1, <2>2, <2>3, ReviseLevelStep
<1>4. N \in S
  <2> HIDE DEF S
  <2> QED BY <1>0, <1>2, <1>3, NatSetInduction
<1> QED BY <1>0, <1>1, <1>4

(* One iteration of the second pass.                                       *)
LEMMA AddLevelStep ==
  ASSUME NEW side \in Sides, NEW original \in Seq(BookLevel),
         NEW updates \in Seq(LevelUpdate), UniquePrices(updates),
         NEW n \in Nat, n + 1 <= Len(updates),
         NEW c \in Seq(BookLevel),
         RevisedPart(original, updates, Len(updates)) \subseteq BookLevel,
         IsBest(c, side, RevisedPart(original, updates, Len(updates))
                           \cup NewPart(original, updates, n))
  PROVE  LET d == AddLevel(original, side, c, updates[n + 1])
         IN  /\ d \in Seq(BookLevel)
             /\ IsBest(d, side, RevisedPart(original, updates, Len(updates))
                                  \cup NewPart(original, updates, n + 1))
<1> DEFINE u == updates[n + 1]
           d == AddLevel(original, side, c, u)
           R == RevisedPart(original, updates, Len(updates))
           A(m) == NewPart(original, updates, m)
<1>0. /\ n + 1 \in 1 .. Len(updates)
      /\ \A i \in 1 .. n : i \in 1 .. n + 1 /\ i \in 1 .. Len(updates) /\ i # n + 1
      /\ \A i \in 1 .. n + 1 : i = n + 1 \/ i \in 1 .. n
  OBVIOUS
<1>1. /\ u.price \in Price /\ u.quantity \in Nat
      /\ u = [price |-> u.price, quantity |-> u.quantity]
      /\ u.quantity # 0 => u \in BookLevel
  BY <1>0, UpdatesTyped
<1>2. CASE u.quantity = 0 \/ HasPrice(original, u.price)
  <2>1. d = c
    BY <1>2 DEF AddLevel
  <2>2. A(n + 1) = A(n)
    <3>1. ASSUME NEW x \in A(n + 1) PROVE x \in A(n)
      BY <1>0, <1>2 DEF NewPart
    <3>2. ASSUME NEW x \in A(n) PROVE x \in A(n + 1)
      BY <1>0 DEF NewPart
    <3> QED BY <3>1, <3>2, Zenon
  <2> QED BY <2>1, <2>2, Zenon
<1>3. CASE u.quantity # 0 /\ ~ HasPrice(original, u.price)
  <2>1. d = InsertLevel(c, side, u)
    BY <1>1, <1>3 DEF AddLevel
  <2>2. A(n + 1) = A(n) \cup {u}
    <3>1. ASSUME NEW x \in A(n + 1) PROVE x \in A(n) \cup {u}
      BY <1>0 DEF NewPart
    <3>2. ASSUME NEW x \in A(n) PROVE x \in A(n + 1)
      BY <1>0 DEF NewPart
    <3>3. u \in A(n + 1)
      BY <1>0, <1>3 DEF NewPart
    <3> QED BY <3>1, <3>2, <3>3
  <2>3. A(n) \subseteq BookLevel
    BY <1>0, UpdatesTyped, Zenon DEF NewPart
  <2>4. ASSUME NEW x \in R \cup A(n) PROVE x.price # u.price
    <3>1. CASE x \in LevelSet(original)
      BY <1>3, <3>1 DEF LevelSet, HasPrice
    <3>2. CASE \E i \in 1 .. Len(updates) :
                 x = updates[i] /\ HasPrice(original, updates[i].price)
      BY <1>3, <3>2
    <3>3. CASE x \in A(n)
      <4>1. PICK i \in 1 .. n : x = updates[i]
        BY <3>3 DEF NewPart
      <4> QED BY <1>0, <4>1 DEF UniquePrices
    <3> QED BY <3>1, <3>2, <3>3 DEF RevisedPart
  <2>5. u \in BookLevel /\ R \cup A(n) \in SUBSET BookLevel
    BY <1>1, <1>3, <2>3
  <2> HIDE DEF R, A, u, d
  <2>6. d \in Seq(BookLevel) /\ IsBest(d, side, (R \cup A(n)) \cup {u})
    BY <2>1, <2>4, <2>5, InsertLevelKeepsBest DEF R, A
  <2>7. (R \cup A(n)) \cup {u} = R \cup A(n + 1)
    BY <2>2
  <2> QED BY <2>6, <2>7, Zenon DEF R, A, u, d
<1> QED BY <1>2, <1>3

(* apply_updates returns the Depth best of the surviving and the new       *)
(* levels, best first, for every depth, side and message: the definition   *)
(* DESIGN.md gives (lines 589 to 595).  The order of the updates in the    *)
(* message plays no part in that definition, so it cannot play one in the  *)
(* result.                                                                 *)
THEOREM ApplyUpdatesIsBest ==
  ASSUME NEW side \in Sides, NEW original, IsSide(original, side),
         NEW updates \in Seq(LevelUpdate), UniquePrices(updates)
  PROVE  /\ IsSide(ApplyUpdates(original, updates, side), side)
         /\ IsBest(ApplyUpdates(original, updates, side), side,
                   MergedLevels(original, updates))
<1> DEFINE N == Len(updates)
           revised == RevisedSide(original, updates)
           R == RevisedPart(original, updates, N)
           A(n) == NewPart(original, updates, n)
<1>0. N \in Nat
  OBVIOUS
<1>1. original \in Seq(BookLevel) /\ Len(original) <= Depth
      /\ StrictlyOrdered(original, side)
  BY DEF IsSide
<1>2. /\ revised \in Seq(BookLevel) /\ StrictlyOrdered(revised, side)
      /\ Len(revised) <= Len(original) /\ LevelSet(revised) = R
  BY <1>1, RevisedSideCorrect
<1>3. R \subseteq BookLevel
  BY <1>2 DEF LevelSet
<1>4. PICK g : /\ g = [n \in 0 .. N |->
                       IF n = 0 THEN revised
                       ELSE AddLevel(original, side, g[n - 1], updates[n])]
              /\ ExtendedSide(original, side, revised, updates) = g[N]
  BY <1>0, ExtendedSideEquation
<1> DEFINE Good(n) == g[n] \in Seq(BookLevel) /\ IsBest(g[n], side, R \cup A(n))
           S == {n \in Nat : n <= N => Good(n)}
<1>5. 0 \in S
  <2>1. g[0] = revised
    BY <1>0, <1>4
  <2>2. A(0) = {}
    BY DEF NewPart
  <2>3. IsBest(revised, side, R)
    <3> HIDE DEF revised, R
    <3>1. Len(revised) <= Depth
      BY <1>1, <1>2, DepthAssumption
    <3> QED BY <1>2, <3>1 DEF IsBest
  <2> QED BY <1>2, <2>1, <2>2, <2>3, Zenon
<1>6. ASSUME NEW n \in Nat, n \in S PROVE n + 1 \in S
  <2>1. SUFFICES ASSUME n + 1 <= N PROVE Good(n + 1)
    OBVIOUS
  <2>2. Good(n)
    BY <1>0, <1>6, <2>1
  <2>3. g[n + 1] = AddLevel(original, side, g[n], updates[n + 1])
    BY <1>0, <1>4, <2>1
  <2> QED BY <1>1, <1>3, <2>1, <2>2, <2>3, AddLevelStep, Zenon
<1>7. N \in S
  <2> HIDE DEF S
  <2> QED BY <1>0, <1>5, <1>6, NatSetInduction
<1>8. Good(N)
  BY <1>0, <1>7
<1>9. MergedLevels(original, updates) = R \cup A(N)
  <2>1. ASSUME NEW x \in MergedLevels(original, updates) PROVE x \in R \cup A(N)
    <3>1. CASE x \in LevelSet(original) /\ ~ HasPrice(updates, x.price)
      BY <3>1 DEF RevisedPart, HasPrice
    <3>2. CASE x \in LevelSet(updates) /\ x.quantity # 0
      <4>1. PICK i \in 1 .. N : x = updates[i]
        BY <3>2 DEF LevelSet
      <4> QED BY <3>2, <4>1 DEF RevisedPart, NewPart
    <3> QED BY <3>1, <3>2 DEF MergedLevels
  <2>2. ASSUME NEW x \in R \cup A(N) PROVE x \in MergedLevels(original, updates)
    BY <2>2 DEF MergedLevels, RevisedPart, NewPart, HasPrice, LevelSet
  <2> QED BY <2>1, <2>2
<1>10. ApplyUpdates(original, updates, side) = g[N]
  BY <1>4 DEF ApplyUpdates
<1> HIDE DEF R, A
<1>11. IsSide(g[N], side)
  BY <1>8 DEF IsSide, IsBest
<1> QED BY <1>8, <1>9, <1>10, <1>11
=============================================================================
