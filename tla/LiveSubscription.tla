-------------------------- MODULE LiveSubscription --------------------------
(***************************************************************************)
(* LiveSubscription (live_subscription.cpp) and the symbols it is made of  *)
(* (symbol_identity.cpp): create checks the symbols and the size of the    *)
(* request target and enters the stream names into an open-addressing      *)
(* table; find_route looks a name up.  A stream name is the pair of the    *)
(* lower-case symbol and the kind of the stream.                           *)
(***************************************************************************)
EXTENDS Integers, Sequences, FiniteSetsExt, SequencesExt

CONSTANTS SymbolSets,           \* the sequences of symbols create may be given
          OtherNames,           \* names a message may hold that are not derived
          LongNames,            \* the ones above kMaxEnvelopeStreamNameBytes
          NameHashes,           \* the hash functions to try, on all names
          PrefixBytes,          \* size of the target prefix of the venue
          SuffixBytes,          \* size of the suffix of each kind
          kMaxConfiguredSymbols, kMaxCombinedTargetBytes, kLookupSlotCount

kKinds == <<"depth_diff", "depth5", "trade">>
kStreamsPerSymbol == Len(kKinds)
LookupSlots == 0 .. kLookupSlotCount - 1

ASSUME LookupSlotsAssumption ==
  /\ kLookupSlotCount \in Nat
  /\ kMaxConfiguredSymbols * kStreamsPerSymbol < kLookupSlotCount
ASSUME LongNamesAssumption == LongNames \subseteq OtherNames

VARIABLES nameHash,   \* hash_stream & kLookupSlotMask
          symbols,    \* symbols_ of the subscription
          lookup,     \* lookup_: an index of a route, or 0
          created     \* none, created, or the error of create

subscriptionVars == <<nameHash, symbols, lookup, created>>

SubscriptionInit ==
  /\ nameHash \in NameHashes
  /\ symbols = << >>
  /\ lookup = [s \in LookupSlots |-> 0]
  /\ created = "none"

-----------------------------------------------------------------------------
(* validate_symbol_set; a symbol carries its instrument id.                *)
ValidSymbolSet(given) ==
  /\ Len(given) \in 1 .. kMaxConfiguredSymbols
  /\ \A i \in DOMAIN given : given[i].normalized
  /\ \A i, j \in DOMAIN given :
       i # j => given[i].text # given[j].text /\ given[i].id # given[j].id

RouteCount(given) == Len(given) * kStreamsPerSymbol

RouteOf(given, r) ==
  LET symbol == (r - 1) \div kStreamsPerSymbol + 1
      kind == kKinds[((r - 1) % kStreamsPerSymbol) + 1]
  IN  [name |-> <<given[symbol].text, kind>>, symbol |-> symbol, kind |-> kind]

SumOver(S, Value(_)) == FoldSet(LAMBDA x, sum : sum + Value(x), 0, S)

(* checked_combined_target_size, and the target as it is then built.       *)
CombinedTargetSize(given) ==
  PrefixBytes + RouteCount(given) - 1
    + SumOver(DOMAIN given, LAMBDA i : SumOver(DOMAIN kKinds,
                LAMBDA k : given[i].bytes + SuffixBytes[kKinds[k]]))

TargetSize(given) ==
  LET routes == 1 .. RouteCount(given)
      bytes(r) == given[RouteOf(given, r).symbol].bytes + SuffixBytes[RouteOf(given, r).kind]
  IN  PrefixBytes + SumOver(routes, LAMBDA r : bytes(r) + (IF r = 1 THEN 0 ELSE 1))

-----------------------------------------------------------------------------
(* The probe sequence of a name, up to the first slot that satisfies Ends. *)
ProbedSlot(name, p) == (nameHash[name] + p) % kLookupSlotCount

FirstSlot(name, Ends(_)) ==
  LET stops == {p \in LookupSlots : Ends(ProbedSlot(name, p))}
  IN  IF stops = {} THEN -1 ELSE ProbedSlot(name, Min(stops))

(* insert_route: a full table or a name that is there already fails.       *)
InsertRoute(table, given, r) ==
  LET name == RouteOf(given, r).name
      slot == FirstSlot(name, LAMBDA s : table.lookup[s] = 0
                                \/ RouteOf(given, table.lookup[s]).name = name)
  IN  IF slot = -1 \/ ~ table.ok THEN [table EXCEPT !.ok = FALSE]
      ELSE IF table.lookup[slot] # 0 THEN [table EXCEPT !.ok = FALSE]
      ELSE [table EXCEPT !.lookup[slot] = r]

FilledTable(given) ==
  FoldLeft(LAMBDA table, r : InsertRoute(table, given, r),
           [lookup |-> [s \in LookupSlots |-> 0], ok |-> TRUE],
           [r \in 1 .. RouteCount(given) |-> r])

(* find_route: the index of the route, or 0; a mutant compares no names.   *)
FindRouteUncompared(name) ==
  IF name \in LongNames THEN 0 ELSE lookup[ProbedSlot(name, 0)]

FindRoute(name) ==
  LET slot == FirstSlot(name, LAMBDA s : lookup[s] = 0
                                \/ RouteOf(symbols, lookup[s]).name = name)
  IN  IF name \in LongNames \/ slot = -1 THEN 0 ELSE lookup[slot]

Create(given) ==
  /\ created = "none"
  /\ created' = CASE ~ ValidSymbolSet(given) -> "invalid_symbols"
                  [] CombinedTargetSize(given) > kMaxCombinedTargetBytes -> "target_too_large"
                  [] ~ FilledTable(given).ok \/ TargetSize(given) # CombinedTargetSize(given)
                       -> "route_table_failure"
                  [] OTHER -> "created"
  /\ IF created' = "created"
     THEN symbols' = given /\ lookup' = FilledTable(given).lookup
     ELSE UNCHANGED <<symbols, lookup>>
  /\ UNCHANGED nameHash

-----------------------------------------------------------------------------
Names == OtherNames \cup {RouteOf(symbols, r).name : r \in 1 .. RouteCount(symbols)}

(* A subscription routes every name it asked the exchange for to that      *)
(* symbol and kind, and no other name anywhere, wherever the hashes        *)
(* collide; and create never fails half way: once the symbols and the size *)
(* are accepted, the table takes every name and the size was right.        *)
RoutesAreExact ==
  /\ created # "route_table_failure"
  /\ created = "created" =>
       \A name \in Names :
         LET r == FindRoute(name)
         IN  IF name \in OtherNames THEN r = 0
             ELSE r # 0 /\ RouteOf(symbols, r).name = name
=============================================================================
