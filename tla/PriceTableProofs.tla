-------------------------- MODULE PriceTableProofs --------------------------
(***************************************************************************)
(* The duplicate table implements the set of prices, for every size of the *)
(* table, every hash function and every generation limit.                  *)
(***************************************************************************)
EXTENDS PriceTable, FiniteSetTheorems, SetInduction, TLAPS

TableTypes ==
  /\ hash \in [Keys -> SlotIds]
  /\ generation \in 0 .. MaxGeneration
  /\ slots \in [SlotIds -> [generation : Nat, key : Keys \cup {NoKey}]]
  /\ encountered \in 0 .. kMaxDepthUpdates

(* No slot is from the future, and the ones of this message hold keys, no  *)
(* more of them than levels were counted.                                  *)
SlotsOfThisMessage ==
  /\ \A s \in SlotIds : slots[s].generation <= generation
  /\ \A s \in Occupied : slots[s].key \in Keys
  /\ Cardinality(Occupied) <= encountered

(* A key of this message is where the probes for it find it: every slot    *)
(* that is probed before is taken by another key.                          *)
KeysAreFound ==
  \A k \in Keys, p \in SlotIds :
    Slot(k, p) \in Occupied /\ slots[Slot(k, p)].key = k =>
      \A q \in 0 .. p - 1 : ~ Stops(k, q)

TableInv == TableTypes /\ SlotsOfThisMessage /\ KeysAreFound

-----------------------------------------------------------------------------
(* The probes of a key visit every slot, and no slot twice.                *)
LEMMA ProbesVisit ==
  ASSUME TableTypes, NEW k \in Keys
  PROVE  /\ \A p \in SlotIds : Slot(k, p) \in SlotIds
         /\ \A p, q \in SlotIds : Slot(k, p) = Slot(k, q) => p = q
         /\ \A s \in SlotIds : \E p \in SlotIds : Slot(k, p) = s
<1> hash[k] \in SlotIds
  BY DEF TableTypes
<1> kDuplicateTableSize \in Nat
  BY TableSizeAssumption
<1>1. \A p \in SlotIds : Slot(k, p) \in SlotIds
  BY DEF Slot, SlotIds
<1>2. \A p, q \in SlotIds : Slot(k, p) = Slot(k, q) => p = q
  BY DEF Slot, SlotIds
<1>3. ASSUME NEW s \in SlotIds
      PROVE  \E p \in SlotIds : Slot(k, p) = s
  <2>1. CASE s >= hash[k]
    <3>1. s - hash[k] \in SlotIds /\ Slot(k, s - hash[k]) = s
      BY <2>1 DEF Slot, SlotIds
    <3> QED  BY <3>1
  <2>2. CASE s < hash[k]
    <3>1. /\ s - hash[k] + kDuplicateTableSize \in SlotIds
          /\ Slot(k, s - hash[k] + kDuplicateTableSize) = s
      BY <2>2 DEF Slot, SlotIds
    <3> QED  BY <3>1
  <2> QED  BY <2>1, <2>2 DEF SlotIds
<1> QED  BY <1>1, <1>2, <1>3

LEMMA SlotsFinite ==
  /\ IsFiniteSet(SlotIds)
  /\ Cardinality(SlotIds) = kDuplicateTableSize
<1> kDuplicateTableSize \in Nat
  BY TableSizeAssumption
<1> QED  BY FS_Interval DEF SlotIds

LEMMA OccupiedFinite ==
  /\ IsFiniteSet(Occupied)
  /\ Cardinality(Occupied) \in Nat
<1> Occupied \subseteq SlotIds
  BY DEF Occupied
<1> QED  BY SlotsFinite, FS_Subset, FS_CardinalityType

(* While a level may still come, a slot is free.                           *)
LEMMA FreeSlotLeft ==
  ASSUME TableTypes, SlotsOfThisMessage, generation # 0, encountered < kMaxDepthUpdates
  PROVE  \E s \in SlotIds : Free(s)
<1>1. Cardinality(Occupied) < Cardinality(SlotIds)
  BY SlotsFinite, OccupiedFinite, TableSizeAssumption, DepthUpdatesAssumption
     DEF SlotsOfThisMessage, TableTypes
<1>2. ASSUME Occupied = SlotIds  PROVE FALSE
  BY <1>1, <1>2, SlotsFinite, TableSizeAssumption
<1> QED  BY <1>2 DEF Occupied, Free


(* Where the loop of insert_unique ends: at the first probe that stops it. *)
LEMMA LoopEnds ==
  ASSUME TableTypes, SlotsOfThisMessage, generation # 0, encountered < kMaxDepthUpdates,
         NEW k \in Keys
  PROVE  {p \in SlotIds : Stops(k, p)} # {}
<1>1. PICK s \in SlotIds : Free(s)
  BY FreeSlotLeft
<1>2. PICK p \in SlotIds : Slot(k, p) = s
  BY ProbesVisit
<1> QED  BY <1>1, <1>2 DEF Stops

-----------------------------------------------------------------------------
LEMMA TableInitInv == TableInit => TableInv
<1> SUFFICES ASSUME TableInit  PROVE TableInv
  OBVIOUS
<1>1. Occupied = {}
  BY DEF Occupied, TableInit
<1>2. TableTypes
  BY DepthUpdatesAssumption, GenerationAssumption DEF TableTypes, TableInit
<1>3. SlotsOfThisMessage
  BY <1>1, FS_EmptySet DEF SlotsOfThisMessage, TableInit
<1>4. KeysAreFound
  BY <1>1 DEF KeysAreFound
<1> QED  BY <1>2, <1>3, <1>4 DEF TableInv

(* A new message finds every slot free: a slot is of an earlier message,   *)
(* or was cleared when the generation wrapped.                             *)
LEMMA BeginMessageStep ==
  ASSUME TableInv, BeginMessage
  PROVE  TableInv' /\ Occupied' = {}
<1> USE DEF TableInv
<1>1. TableTypes'
  BY DepthUpdatesAssumption, GenerationAssumption DEF TableTypes, BeginMessage
<1>2. \A s \in SlotIds : slots'[s].generation < generation'
  BY GenerationAssumption DEF TableTypes, SlotsOfThisMessage, BeginMessage
<1>3. Occupied' = {}
  BY <1>1, <1>2 DEF Occupied, TableTypes
<1>4. SlotsOfThisMessage'
  <2>1. \A s \in SlotIds : slots'[s].generation <= generation'
    BY <1>1, <1>2 DEF TableTypes
  <2>2. Cardinality(Occupied') <= encountered'
    BY <1>3, FS_EmptySet DEF BeginMessage
  <2> QED  BY <1>3, <2>1, <2>2 DEF SlotsOfThisMessage
<1>5. KeysAreFound'
  BY <1>3 DEF KeysAreFound
<1> QED  BY <1>1, <1>3, <1>4, <1>5

(* A key that is not found is entered, and had not been in the table.      *)
LEMMA InsertedStep ==
  ASSUME TableInv, NEW k \in Keys, NEW p \in SlotIds,
         generation # 0, encountered < kMaxDepthUpdates, encountered' = encountered + 1,
         \A q \in SlotIds : Stops(k, q) => p <= q,
         Free(Slot(k, p)),
         slots' = [slots EXCEPT ![Slot(k, p)] = [generation |-> generation, key |-> k]],
         UNCHANGED <<hash, generation>>
  PROVE  /\ TableInv'
         /\ k \notin Members
         /\ Members' = Members \cup {k}
<1> USE DEF TableInv
<1> DEFINE s == Slot(k, p)
<1>1. s \in SlotIds /\ s \notin Occupied
  BY ProbesVisit DEF Occupied, Free
<1> HIDE DEF s
<1>2. /\ slots'[s] = [generation |-> generation, key |-> k]
      /\ \A t \in SlotIds : t # s => slots'[t] = slots[t]
  BY <1>1 DEF TableTypes, s
<1>3. Occupied' = Occupied \cup {s}
  BY <1>1, <1>2 DEF Occupied
<1>4. k \notin Members
  <2> SUFFICES ASSUME NEW t \in Occupied, slots[t].key = k  PROVE FALSE
    BY DEF Members
  <2>1. PICK r \in SlotIds : Slot(k, r) = t
    BY ProbesVisit DEF Occupied
  <2>2. Stops(k, r) /\ p <= r
    BY <2>1 DEF Stops
  <2>3. p # r
    BY <1>1, <2>1 DEF s
  <2>4. p \in 0 .. r - 1
    BY <2>2, <2>3, TableSizeAssumption DEF SlotIds
  <2>5. Stops(k, p)
    BY DEF Stops
  <2> QED  BY <2>1, <2>4, <2>5 DEF KeysAreFound
<1>5. Members' = Members \cup {k}
  BY <1>1, <1>2, <1>3 DEF Members, Occupied
<1>6. TableTypes'
  BY <1>1, <1>2, DepthUpdatesAssumption, GenerationAssumption DEF TableTypes, s
<1>7. SlotsOfThisMessage'
  <2>1. \A t \in SlotIds : slots'[t].generation <= generation'
    BY <1>2 DEF SlotsOfThisMessage, TableTypes
  <2>2. \A t \in Occupied' : slots'[t].key \in Keys
    BY <1>1, <1>2, <1>3 DEF SlotsOfThisMessage, Occupied
  <2>3. Cardinality(Occupied') = Cardinality(Occupied) + 1
    BY <1>1, <1>3, OccupiedFinite, FS_AddElement, Zenon
  <2>4. Cardinality(Occupied') <= encountered'
    BY <2>3, OccupiedFinite DEF SlotsOfThisMessage, TableTypes
  <2> QED  BY <2>1, <2>2, <2>4 DEF SlotsOfThisMessage
<1>8. KeysAreFound'
  <2> SUFFICES ASSUME NEW j \in Keys, NEW r \in SlotIds,
                      Slot(j, r) \in Occupied', slots'[Slot(j, r)].key = j,
                      NEW q \in 0 .. r - 1
               PROVE  /\ slots'[Slot(j, q)].generation = generation
                      /\ slots'[Slot(j, q)].key # j
    BY DEF KeysAreFound, Stops, Free, Slot
  <2>1. q \in SlotIds
    BY TableSizeAssumption DEF SlotIds
  <2>2. Slot(j, q) \in SlotIds
    BY <2>1, ProbesVisit
  <2>3. CASE Slot(j, r) = s
    <3>0. j = k
      BY <1>2, <2>3
    <3>1. j = k /\ r = p
      BY <2>3, <3>0, ProbesVisit DEF s
    <3>2. ~ Stops(k, q)
      BY <2>1, <3>1, TableSizeAssumption DEF SlotIds
    <3>3. Slot(k, q) # s
      BY <3>2 DEF Stops, s
    <3> QED  BY <1>2, <2>2, <3>1, <3>2, <3>3 DEF Stops, Free
  <2>4. CASE Slot(j, r) # s
    <3>1. Slot(j, r) \in Occupied /\ slots[Slot(j, r)].key = j
      BY <1>2, <1>3, <2>4 DEF Occupied
    <3>2. ~ Stops(j, q)
      BY <3>1 DEF KeysAreFound
    <3>3. Slot(j, q) # s
      BY <3>2 DEF Stops, s
    <3> QED  BY <1>2, <2>2, <3>2, <3>3 DEF Stops, Free
  <2> QED  BY <2>3, <2>4
<1> QED  BY <1>4, <1>5, <1>6, <1>7, <1>8

(* One call of insert_unique does what Add does, and the table is not full.*)
LEMMA InsertUniqueStep ==
  ASSUME TableInv, NEW k \in Keys, InsertUnique(k)
  PROVE  TableInv' /\ Set!Add(k)
<1> DEFINE stops == {p \in SlotIds : Stops(k, p)}
<1>1. generation # 0 /\ encountered < kMaxDepthUpdates
  BY DEF InsertUnique
<1>2. stops # {}
  BY <1>1, LoopEnds DEF TableInv
<1>3. PICK p \in stops :
        /\ \A q \in stops : p <= q
        /\ IF Free(Slot(k, p))
           THEN /\ result' = "inserted"
                /\ slots' = [slots EXCEPT ![Slot(k, p)] =
                               [generation |-> generation, key |-> k]]
           ELSE result' = "duplicate" /\ UNCHANGED slots
  BY <1>2, Zenon DEF InsertUnique
<1>4. encountered' = encountered + 1 /\ UNCHANGED <<hash, generation>>
  BY DEF InsertUnique
<1>5. CASE Free(Slot(k, p))
  <2>1. TableInv' /\ k \notin Members /\ Members' = Members \cup {k}
    BY <1>1, <1>3, <1>4, <1>5, InsertedStep
  <2> QED  BY <1>3, <1>5, <2>1 DEF Set!Add
<1>6. CASE ~ Free(Slot(k, p))
  <2>1. UNCHANGED <<hash, generation, slots>> /\ result' = "duplicate"
    BY <1>3, <1>4, <1>6
  <2>2. Slot(k, p) \in Occupied /\ slots[Slot(k, p)].key = k
    BY <1>1, <1>3, <1>6, ProbesVisit DEF TableInv, Occupied, Stops, Free
  <2>3. Occupied' = Occupied /\ Members' = Members
    BY <2>1 DEF Occupied, Members
  <2>4. k \in Members
    BY <2>2 DEF Members
  <2>5. TableTypes'
    BY <1>1, <1>4, <2>1, DepthUpdatesAssumption DEF TableInv, TableTypes
  <2>6. SlotsOfThisMessage'
    BY <1>4, <2>1, <2>3, OccupiedFinite DEF TableInv, SlotsOfThisMessage, TableTypes
  <2>7. KeysAreFound'
    BY <2>1, <2>3 DEF TableInv, KeysAreFound, Stops, Slot, Free
  <2> QED  BY <2>1, <2>3, <2>4, <2>5, <2>6, <2>7 DEF TableInv, Set!Add
<1> QED  BY <1>5, <1>6

-----------------------------------------------------------------------------
(* The table never loses track: TableInv holds of every table.             *)
THEOREM TableInvariant == TableSpec => []TableInv
<1>1. TableInv /\ [TableNext]_tableVars => TableInv'
  <2> SUFFICES ASSUME TableInv, [TableNext]_tableVars  PROVE TableInv'
    OBVIOUS
  <2>1. CASE BeginMessage
    BY <2>1, BeginMessageStep
  <2>2. CASE \E k \in Keys : InsertUnique(k)
    BY <2>2, InsertUniqueStep
  <2>3. CASE UNCHANGED tableVars
    BY <2>3 DEF TableInv, TableTypes, SlotsOfThisMessage, KeysAreFound, tableVars, Occupied,
       Stops, Slot, Free
  <2> QED  BY <2>1, <2>2, <2>3 DEF TableNext
<1> QED  BY <1>1, TableInitInv, PTL DEF TableSpec

(* The duplicate table of the parser is a set of the prices of the current *)
(* message: begin_message empties it and insert_unique adds to it, for     *)
(* every hash function, size and generation limit, and whatever earlier    *)
(* messages left in its slots; table_full is never answered.               *)
THEOREM TableImplementsSet == TableSpec => ImplementsPriceSet
<1>1. TableInit => Set!SetInit
  BY DEF TableInit, Set!SetInit, Members, Occupied
<1>2. TableInv /\ [TableNext]_tableVars => [Set!SetNext]_Set!setVars
  <2> SUFFICES ASSUME TableInv, [TableNext]_tableVars
               PROVE  [Set!SetNext]_Set!setVars
    OBVIOUS
  <2>1. CASE BeginMessage
    <3>1. Members' = {}
      BY <2>1, BeginMessageStep DEF Members
    <3> QED  BY <2>1, <3>1 DEF BeginMessage, Set!SetNext, Set!NewMessage
  <2>2. CASE \E k \in Keys : InsertUnique(k)
    BY <2>2, InsertUniqueStep DEF Set!SetNext
  <2>3. CASE UNCHANGED tableVars
    BY <2>3 DEF tableVars, Set!setVars, Members, Occupied
  <2> QED  BY <2>1, <2>2, <2>3 DEF TableNext
<1> QED  BY <1>1, <1>2, TableInvariant, PTL DEF TableSpec, ImplementsPriceSet, Set!SetSpec
=============================================================================
