----------------------------- MODULE PriceTable -----------------------------
(***************************************************************************)
(* The duplicate table of SpotPayloadParser (spot_payload_parser.cpp): an  *)
(* open-addressing hash table with linear probing that is never cleared    *)
(* between messages.  A slot belongs to the current message only if it     *)
(* carries the current generation; when the generation counter is at its   *)
(* maximum, begin_message clears the slots and counts from 1 again.        *)
(***************************************************************************)
EXTENDS ParserLimits

CONSTANTS Keys,                  \* pairs of a price and a side
          NoKey,                 \* what a slot holds at first
          kDuplicateTableSize,
          MaxGeneration          \* 2^64 - 1 in the code

(* A static assertion of the code asks for twice as many slots.            *)
ASSUME TableSizeAssumption ==
  kDuplicateTableSize \in Nat /\ kMaxDepthUpdates < kDuplicateTableSize
ASSUME GenerationAssumption == MaxGeneration \in Nat \ {0}

SlotIds == 0 .. kDuplicateTableSize - 1

VARIABLES hash,          \* mix_key & kDuplicateTableMask, whatever it is
          generation,
          slots,         \* duplicates
          encountered,   \* encountered_levels
          result         \* the InsertResult of the last call

tableVars == <<hash, generation, slots, encountered, result>>

TableInit ==
  /\ hash \in [Keys -> SlotIds]
  /\ generation = 0
  /\ slots = [s \in SlotIds |-> [generation |-> 0, key |-> NoKey]]
  /\ encountered = 0
  /\ result = "none"

(* Mutant: the counter starts again and the slots stay.                    *)
BeginMessageUncleared ==
  /\ encountered' = 0
  /\ result' = "none"
  /\ generation' = IF generation = MaxGeneration THEN 1 ELSE generation + 1
  /\ UNCHANGED <<hash, slots>>

BeginMessage ==
  /\ encountered' = 0
  /\ result' = "none"
  /\ IF generation = MaxGeneration
     THEN /\ slots' = [s \in SlotIds |-> [slots[s] EXCEPT !.generation = 0]]
          /\ generation' = 1
     ELSE /\ generation' = generation + 1
          /\ UNCHANGED slots
  /\ UNCHANGED hash

(* The slot that the loop of insert_unique looks at in its p-th turn.      *)
Slot(k, p) == IF hash[k] + p < kDuplicateTableSize THEN hash[k] + p
              ELSE hash[k] + p - kDuplicateTableSize

Free(s) == slots[s].generation # generation
Stops(k, p) == Free(Slot(k, p)) \/ slots[Slot(k, p)].key = k

(* The level that is looked up was counted by parse_levels before.         *)
InsertUnique(k) ==
  LET stops == {p \in SlotIds : Stops(k, p)}
  IN  /\ generation # 0
      /\ encountered < kMaxDepthUpdates
      /\ encountered' = encountered + 1
      /\ IF stops = {}
         THEN result' = "table_full" /\ UNCHANGED slots
         ELSE \E p \in stops :
                /\ \A q \in stops : p <= q
                /\ IF Free(Slot(k, p))
                   THEN /\ result' = "inserted"
                        /\ slots' = [slots EXCEPT ![Slot(k, p)] =
                                       [generation |-> generation, key |-> k]]
                   ELSE result' = "duplicate" /\ UNCHANGED slots
      /\ UNCHANGED <<hash, generation>>

TableNext == BeginMessage \/ \E k \in Keys : InsertUnique(k)
TableSpec == TableInit /\ [][TableNext]_tableVars

-----------------------------------------------------------------------------
Occupied == {s \in SlotIds : generation # 0 /\ slots[s].generation = generation}
Members == {slots[s].key : s \in Occupied}

Set == INSTANCE PriceSet WITH members <- Members

(* The table implements the set: whatever the hash function does, whatever *)
(* earlier messages left behind, and across the wrap of the generation, a  *)
(* price is reported as a duplicate exactly if the same message had it on  *)
(* the same side before, and the table is never full.                      *)
ImplementsPriceSet == Set!SetSpec
=============================================================================
