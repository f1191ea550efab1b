------------------------ MODULE CsvWriterRoomProofs -------------------------
(***************************************************************************)
(* The ring of CsvWriter keeps room for the message that is being read,    *)
(* for any number of slots, any capacity, any sizes and any delay of the   *)
(* stores.                                                                 *)
(***************************************************************************)
EXTENDS CsvWriterProofs

-----------------------------------------------------------------------------
(* The bytes in the ring, for any delay of the stores.  bytesAt[n] is the  *)
(* number of bytes of the first n batches; it ties the two byte counters   *)
(* to the sizes in the slots between them.                                 *)

(* At least v bytes are announced in memory, or on the way in the first n  *)
(* stores of the buffer.                                                   *)
BytesStored(m, b, n, v) ==
  \/ v <= m["bytesPublished"]
  \/ \E j \in 1 .. n : b[j].atomic = "bytesPublished" /\ v <= b[j].value

(* Whoever sees a sequence number sees the bytes that go with it: publish  *)
(* stores bytes_published first.                                           *)
Covers(m, b, bytesAt) ==
  /\ bytesAt[m["published"]] <= m["bytesPublished"]
  /\ \A i \in 1 .. Len(b) :
       b[i].atomic = "published" => BytesStored(m, b, i - 1, bytesAt[b[i].value])

Accounts(bytesAt) ==
  /\ \A m, n \in 0 .. producerSequence : m <= n => bytesAt[m] <= bytesAt[n]
  /\ bytesAt[consumerSequence] = consumerBytes
  /\ bytesAt[producerSequence] = producerBytes
  /\ \A i \in consumerSequence .. producerSequence - 1 :
       slots[SlotOf(i)].size = bytesAt[i + 1] - bytesAt[i]
  /\ Covers(mem, pBuffer, bytesAt)

PublishedInv ==
  /\ AllIn(mem, pBuffer, "bytesPublished", 0 .. producerBytes)
  /\ Ascending(mem, pBuffer, "bytesPublished")
  /\ pPc = "storePublished" => BytesStored(mem, pBuffer, Len(pBuffer), producerBytes)

ReleasedInv ==
  /\ AllIn(mem, cBuffer, "bytesReleased", 0 .. consumerBytes)
  /\ Ascending(mem, cBuffer, "bytesReleased")
  /\ Ascending(mem, cBuffer, "released")

BytesInv ==
  /\ PublishedInv
  /\ ReleasedInv
  /\ \E bytesAt \in [Nat -> Nat] : Accounts(bytesAt)
  /\ producerBytes - consumerBytes <= ByteCapacity

(* The stores of the consumer keep its counters ascending.                 *)
LEMMA CStoreAscends ==
  ASSUME MemoryTypes, NEW x \in CAtomics, NEW v \in Values, CStore(x, v),
         NEW y \in CAtomics, Ascending(mem, cBuffer, y), mem[y] \in Nat,
         y = x => v \in Nat /\ AllIn(mem, cBuffer, y, 0 .. v)
  PROVE  Ascending(mem', cBuffer', y) /\ mem[y] <= mem'[y]
<1> USE AtomicSets
<1>1. CASE StoreBuffer > 0
  <2> DEFINE e == [atomic |-> x, value |-> v]
  <2>1. /\ cBuffer' = Append(cBuffer, e) /\ mem' = mem
        /\ e \in Store /\ e.atomic = x /\ e.value = v
    BY <1>1, Zenon DEF CStore, Store
  <2> HIDE DEF e
  <2>2. mem \in Memory /\ cBuffer \in Seq(Store)
    BY DEF MemoryTypes
  <2>3. y = x => AllIn(mem, cBuffer, y, {u \in Nat : u <= v})
    <3>1. v \in Nat => 0 .. v \subseteq {u \in Nat : u <= v}
      OBVIOUS
    <3>2. QED
      BY <3>1, AllInMonotone
  <2>4. Ascending(mem', cBuffer', y)
    BY <2>1, <2>2, <2>3, AppendView, Zenon
  <2>5. QED
    BY <2>1, <2>4, SMTT(30)
<1>2. CASE ~ StoreBuffer > 0
  <2>1. /\ cBuffer = << >> /\ cBuffer' = << >> /\ mem' = [mem EXCEPT ![x] = v]
    BY <1>2, StoreBufferAssumption, SMTT(30) DEF CStore, MemoryTypes
  <2>2. mem'[y] = IF y = x THEN v ELSE mem[y]
    BY <2>1 DEF MemoryTypes, Memory
  <2>3. Ascending(mem', cBuffer', y)
    BY <2>1, EmptyBuffer
  <2>4. QED
    BY <2>2, <2>3, SMTT(30) DEF AllIn
<1>3. QED
  BY <1>1, <1>2, Zenon

LEMMA CDrainAscends ==
  ASSUME MemoryTypes, CDrain, NEW y \in CAtomics, Ascending(mem, cBuffer, y),
         AllIn(mem, cBuffer, y, Nat)
  PROVE  Ascending(mem', cBuffer', y) /\ mem[y] <= mem'[y]
<1> USE AtomicSets
<1>1. /\ cBuffer # << >> /\ cBuffer' = Tail(cBuffer)
      /\ mem' = [mem EXCEPT ![Head(cBuffer).atomic] = Head(cBuffer).value]
  BY Zenon DEF CDrain
<1>2. mem \in Memory /\ cBuffer \in Seq(Store)
  BY DEF MemoryTypes
<1>3. Ascending(mem', cBuffer', y)
  BY <1>1, <1>2, DrainView, Zenon
<1>4. Head(cBuffer) = cBuffer[1] /\ 1 \in 1 .. Len(cBuffer)
  BY <1>1, <1>2, HeadTailProperties, LenProperties, EmptySeq, SMTT(30)
<1>5. mem'[y] = IF cBuffer[1].atomic = y THEN cBuffer[1].value ELSE mem[y]
  BY <1>1, <1>2, <1>4, Zenon DEF Memory
<1>6. mem[y] <= mem'[y]
  BY <1>4, <1>5 DEF Ascending, AllIn
<1>7. QED
  BY <1>3, <1>6, Zenon

(* A store of the producer keeps the cover, if it stores the bytes first   *)
(* and the sequence number after them.                                     *)
LEMMA CoversStore ==
  ASSUME MemoryTypes, NEW bytesAt \in [Nat -> Nat], Covers(mem, pBuffer, bytesAt),
         AllIn(mem, pBuffer, "published", Nat), mem["bytesPublished"] \in Nat,
         NEW x \in PAtomics, NEW v \in Values, PStore(x, v),
         x = "published" => v \in Nat /\ BytesStored(mem, pBuffer, Len(pBuffer), bytesAt[v]),
         x = "bytesPublished" => v \in Nat /\ mem["bytesPublished"] <= v
  PROVE  /\ Covers(mem', pBuffer', bytesAt)
         /\ x = "bytesPublished" => BytesStored(mem', pBuffer', Len(pBuffer'), v)
<1> DEFINE b == pBuffer
           n == Len(b)
           e == [atomic |-> x, value |-> v]
<1>1. CASE StoreBuffer > 0
  <2>1. /\ pBuffer' = Append(b, e) /\ mem' = mem
        /\ e.atomic = x /\ e.value = v /\ e \in Store
    BY <1>1, AtomicSets, SMTT(30) DEF PStore, Store
  <2> HIDE DEF e
  <2>2. b \in Seq(Store) /\ n \in Nat
    BY LenProperties, SMTT(30) DEF MemoryTypes
  <2>3. /\ Len(pBuffer') = n + 1 /\ pBuffer'[n + 1] = e
        /\ \A i \in 1 .. n : pBuffer'[i] = b[i]
    BY <2>1, <2>2, AppendProperties
  <2>4. ASSUME NEW k \in 0 .. n, NEW u, BytesStored(mem, b, k, u)
        PROVE  BytesStored(mem', pBuffer', k, u)
    <3>1. \A j \in 1 .. k : pBuffer'[j] = b[j]
      <4>1. \A j \in 1 .. k : j \in 1 .. n
        BY ONLY <2>2, <2>4
      <4> QED BY <2>3, <4>1, Zenon
    <3>2. QED
      BY <2>1, <2>4, <3>1, ZenonT(30) DEF BytesStored
  <2>5. ASSUME NEW i \in 1 .. n + 1, pBuffer'[i].atomic = "published"
        PROVE  BytesStored(mem', pBuffer', i - 1, bytesAt[pBuffer'[i].value])
    <3>1. CASE i \in 1 .. n
      <4>1. pBuffer'[i] = b[i] /\ i - 1 \in 0 .. n
        <5>1. i - 1 \in 0 .. n
          BY <2>2, <3>1
        <5>2. QED
          BY <2>3, <3>1, <5>1, Zenon
      <4>2. BytesStored(mem, b, i - 1, bytesAt[b[i].value])
        BY <2>5, <3>1, <4>1, ZenonT(30) DEF Covers
      <4>3. QED
        BY <2>4, <4>1, <4>2, Zenon
    <3>2. CASE i = n + 1
      <4>1. x = "published" /\ pBuffer'[i].value = v /\ i - 1 = n /\ n \in 0 .. n
        <5>1. pBuffer'[i] = e
          BY <2>3, <3>2, Zenon
        <5>2. x = "published" /\ pBuffer'[i].value = v
          BY <2>1, <2>5, <5>1, Zenon
        <5>3. i - 1 = n /\ n \in 0 .. n
          BY ONLY <2>2, <3>2, SMTT(30)
        <5>4. QED
          BY <5>2, <5>3, Zenon
      <4>2. BytesStored(mem, b, n, bytesAt[v])
        BY <4>1
      <4>3. BytesStored(mem', pBuffer', n, bytesAt[v])
        BY <2>4, <4>1, <4>2, Zenon
      <4>4. QED
        BY <4>1, <4>3, Zenon
    <3>3. i \in 1 .. n \/ i = n + 1
      <4>1. \A m \in Nat : \A k \in 1 .. m + 1 : k \in 1 .. m \/ k = m + 1
        OBVIOUS
      <4>2. QED
        BY <2>2, <4>1, Zenon
    <3>4. QED
      BY <3>1, <3>2, <3>3, Zenon
  <2>6. ASSUME x = "bytesPublished" PROVE BytesStored(mem', pBuffer', n + 1, v)
    <3>1. v <= v
      BY <2>6
    <3>2. n + 1 \in 1 .. n + 1
      BY <2>2, SMTT(30)
    <3>3. pBuffer'[n + 1].atomic = "bytesPublished" /\ pBuffer'[n + 1].value = v
      BY <2>1, <2>3, <2>6
    <3>4. QED
      BY <3>1, <3>2, <3>3, Zenon DEF BytesStored
  <2>7. QED
    BY <2>1, <2>3, <2>5, <2>6, ZenonT(30) DEF Covers
<1>2. CASE ~ StoreBuffer > 0
  <2>1. /\ pBuffer = << >> /\ pBuffer' = << >> /\ mem' = [mem EXCEPT ![x] = v]
    BY <1>2, StoreBufferAssumption, SMTT(30) DEF PStore, MemoryTypes
  <2>2. /\ mem'["published"] = IF x = "published" THEN v ELSE mem["published"]
        /\ mem'["bytesPublished"] = IF x = "bytesPublished" THEN v ELSE mem["bytesPublished"]
    BY <2>1, SMTT(30) DEF MemoryTypes, Memory, PAtomics, Atomics, Counters, Flags
  <2>3. Len(pBuffer) = 0 /\ Len(pBuffer') = 0
    BY <2>1
  <2>4. x = "published" => bytesAt[v] <= mem["bytesPublished"]
    BY <2>3, SMTT(30) DEF BytesStored
  <2>5. mem["published"] \in Nat /\ bytesAt[mem["published"]] <= mem["bytesPublished"]
    BY DEF AllIn, Covers
  <2>6. bytesAt[mem'["published"]] <= mem'["bytesPublished"]
    <3>1. CASE x = "published"
      BY <2>2, <2>4, <3>1
    <3>2. CASE x = "bytesPublished"
      BY <2>2, <2>5, <3>2, SMTT(30)
    <3>3. CASE x \notin {"published", "bytesPublished"}
      BY <2>2, <2>5, <3>3, SMTT(30)
    <3>4. QED
      BY <3>1, <3>2, <3>3, SMTT(30)
  <2>7. x = "bytesPublished" => BytesStored(mem', pBuffer', Len(pBuffer'), v)
    BY <2>2, SMTT(30) DEF BytesStored
  <2>8. \A i \in 1 .. Len(pBuffer') : FALSE
    BY <2>3
  <2>9. QED
    BY <2>6, <2>7, <2>8, Zenon DEF Covers
<1>3. QED
  BY <1>1, <1>2, Zenon

LEMMA CoversDrain ==
  ASSUME MemoryTypes, PDrain, AllIn(mem, pBuffer, "published", Nat),
         AllIn(mem, pBuffer, "bytesPublished", Nat), Ascending(mem, pBuffer, "bytesPublished")
  PROVE  /\ \A bytesAt \in [Nat -> Nat] :
              Covers(mem, pBuffer, bytesAt) => Covers(mem', pBuffer', bytesAt)
         /\ \A u \in Nat : BytesStored(mem, pBuffer, Len(pBuffer), u)
                             => BytesStored(mem', pBuffer', Len(pBuffer'), u)
<1> DEFINE b == pBuffer
           n == Len(b)
<1>1. /\ b # << >> /\ pBuffer' = Tail(b)
      /\ mem' = [mem EXCEPT ![Head(b).atomic] = Head(b).value]
  BY DEF PDrain
<1>2. mem \in Memory /\ b \in Seq(Store)
  BY DEF MemoryTypes
<1>3. /\ n \in Nat /\ n >= 1 /\ Len(pBuffer') = n - 1
      /\ \A i \in 1 .. n - 1 : pBuffer'[i] = b[i + 1]
      /\ Head(b) = b[1] /\ b[1] \in Store
  BY <1>1, <1>2, HeadTailProperties, LenProperties, EmptySeq, SMTT(30)
<1>4. /\ mem'["published"] = IF b[1].atomic = "published" THEN b[1].value ELSE mem["published"]
      /\ mem'["bytesPublished"] =
           IF b[1].atomic = "bytesPublished" THEN b[1].value ELSE mem["bytesPublished"]
  BY <1>1, <1>2, <1>3, SMTT(30) DEF Memory, Store, Atomics, Counters, Flags
<1>5. mem["bytesPublished"] \in Nat /\ mem'["bytesPublished"] \in Nat
      /\ mem["bytesPublished"] <= mem'["bytesPublished"]
  BY <1>3, <1>4 DEF AllIn, Ascending
<1>6. ASSUME NEW k \in 1 .. n, NEW u \in Nat, BytesStored(mem, b, k, u)
      PROVE  BytesStored(mem', pBuffer', k - 1, u)
  <2>1. CASE u <= mem["bytesPublished"]
    BY <1>5, <2>1 DEF BytesStored
  <2>2. CASE \E j \in 1 .. k : b[j].atomic = "bytesPublished" /\ u <= b[j].value
    <3>1. PICK j \in 1 .. k : b[j].atomic = "bytesPublished" /\ u <= b[j].value
      BY <2>2, SMTT(30)
    <3>2. CASE j = 1
      BY <1>4, <3>1, <3>2, SMTT(30) DEF BytesStored
    <3>3. CASE j # 1
      <4>1. PICK i \in 1 .. k - 1 : i + 1 = j
        <5>1. j - 1 \in 1 .. k - 1 /\ (j - 1) + 1 = j
          BY <1>3, <3>3, SMTT(30)
        <5>2. QED
          BY <5>1
      <4>2. i \in 1 .. n - 1
        BY <1>3, <4>1, SMTT(30)
      <4>3. pBuffer'[i] = b[j]
        BY <1>3, <4>1, <4>2, SMTT(30)
      <4>4. QED
        BY <3>1, <4>1, <4>3 DEF BytesStored
    <3>4. QED
      BY <3>2, <3>3, SMTT(30)
  <2>3. QED
    BY <1>6, <2>1, <2>2, Zenon DEF BytesStored
<1>7. ASSUME NEW bytesAt \in [Nat -> Nat], Covers(mem, b, bytesAt)
      PROVE  Covers(mem', pBuffer', bytesAt)
  <2>1. bytesAt[mem'["published"]] <= mem'["bytesPublished"]
    <3>1. bytesAt[mem["published"]] <= mem["bytesPublished"] /\ mem["published"] \in Nat
      BY <1>7 DEF Covers, AllIn
    <3>2. CASE b[1].atomic = "published"
      <4>1. 1 \in 1 .. n /\ b[1].value \in Nat
        BY <1>3, <3>2, SMTT(30) DEF AllIn
      <4>2. BytesStored(mem, b, 0, bytesAt[b[1].value])
        BY <1>7, <3>2, <4>1 DEF Covers
      <4>3. bytesAt[b[1].value] <= mem["bytesPublished"]
        BY <4>2 DEF BytesStored
      <4>4. QED
        BY <1>4, <1>5, <3>2, <4>1, <4>3, Zenon
    <3>3. CASE b[1].atomic # "published"
      BY <1>4, <1>5, <3>1, <3>3
    <3>4. QED
      BY <3>2, <3>3, SMTT(30)
  <2>2. ASSUME NEW i \in 1 .. n - 1, pBuffer'[i].atomic = "published"
        PROVE  BytesStored(mem', pBuffer', i - 1, bytesAt[pBuffer'[i].value])
    <3>1. pBuffer'[i] = b[i + 1] /\ i + 1 \in 1 .. n /\ (i + 1) - 1 = i /\ i \in 1 .. n
      <4>1. n \in Nat
        BY <1>3
      <4>2. i + 1 \in 1 .. n /\ (i + 1) - 1 = i /\ i \in 1 .. n
        BY <4>1
      <4>3. QED
        BY <1>3, <4>2, Zenon
    <3>2. BytesStored(mem, b, i, bytesAt[b[i + 1].value])
      BY <1>7, <2>2, <3>1, Zenon DEF Covers
    <3>3. bytesAt[b[i + 1].value] \in Nat
      BY <2>2, <3>1, Zenon DEF AllIn
    <3>4. BytesStored(mem', pBuffer', i - 1, bytesAt[b[i + 1].value])
      BY <1>6, <3>1, <3>2, <3>3, Zenon
    <3>5. QED
      BY <3>1, <3>4, Zenon
  <2>3. QED
    BY <1>3, <2>1, <2>2, SMTT(30) DEF Covers
<1>8. n \in 1 .. n
  BY <1>3
<1>9. QED
  BY <1>3, <1>6, <1>7, <1>8, Zenon

(* Steps that leave what the producer has announced alone.                 *)
LEMMA CoversElsewhere ==
  ASSUME pBuffer' = pBuffer, mem'["published"] = mem["published"],
         mem'["bytesPublished"] = mem["bytesPublished"]
  PROVE  /\ \A bytesAt : Covers(mem, pBuffer, bytesAt) => Covers(mem', pBuffer', bytesAt)
         /\ \A n, u : BytesStored(mem, pBuffer, n, u) => BytesStored(mem', pBuffer', n, u)
         /\ \A S : AllIn(mem, pBuffer, "bytesPublished", S)
                     => AllIn(mem', pBuffer', "bytesPublished", S)
         /\ Ascending(mem, pBuffer, "bytesPublished") => Ascending(mem', pBuffer', "bytesPublished")
<1>1. \A n, u : BytesStored(mem, pBuffer, n, u) => BytesStored(mem', pBuffer', n, u)
  BY SMTT(30) DEF BytesStored
<1>2. \A bytesAt : Covers(mem, pBuffer, bytesAt) => Covers(mem', pBuffer', bytesAt)
  BY <1>1 DEF Covers
<1>3. \A S : AllIn(mem, pBuffer, "bytesPublished", S)
               => AllIn(mem', pBuffer', "bytesPublished", S)
  BY SMTT(30) DEF AllIn
<1>4. Ascending(mem, pBuffer, "bytesPublished") => Ascending(mem', pBuffer', "bytesPublished")
  BY DEF Ascending
<1>5. QED
  BY <1>1, <1>2, <1>3, <1>4

(* bytesAt matters up to the last batch.                                   *)
LEMMA CoversExtended ==
  ASSUME NEW P \in Nat, NEW v \in Nat, NEW bytesAt \in [Nat -> Nat], Covers(mem, pBuffer, bytesAt),
         AllIn(mem, pBuffer, "published", 0 .. P)
  PROVE  Covers(mem, pBuffer, [bytesAt EXCEPT ![P + 1] = v])
<1> DEFINE next == [bytesAt EXCEPT ![P + 1] = v]
<1>1. \A n \in 0 .. P : next[n] = bytesAt[n]
  OBVIOUS
<1> HIDE DEF next
<1>2. next[mem["published"]] = bytesAt[mem["published"]]
  BY <1>1, SMTT(30) DEF AllIn
<1>3. \A i \in 1 .. Len(pBuffer) :
        pBuffer[i].atomic = "published" => next[pBuffer[i].value] = bytesAt[pBuffer[i].value]
  BY <1>1, Zenon DEF AllIn
<1>4. Covers(mem, pBuffer, next)
  BY <1>2, <1>3, Zenon DEF Covers
<1>5. QED
  BY <1>4 DEF next

LEMMA BytesFacts ==
  ASSUME WriterInv, BytesInv
  PROVE  /\ producerSequence \in Nat /\ consumerSequence \in Nat /\ seen \in Nat
         /\ producerBytes \in Nat /\ consumerBytes \in Nat /\ size \in Nat
         /\ consumerSequence <= producerSequence /\ consumerSequence <= seen
         /\ mem["published"] \in seen .. producerSequence
         /\ mem["bytesPublished"] \in 0 .. producerBytes
         /\ mem["bytesReleased"] \in 0 .. consumerBytes
         /\ mem["released"] \in 0 .. consumerSequence
         /\ AllIn(mem, pBuffer, "published", 0 .. producerSequence)
         /\ AllIn(mem, pBuffer, "published", Nat)
         /\ PLoad("released") = mem["released"]
         /\ PLoad("bytesReleased") = mem["bytesReleased"]
<1>1. /\ producerSequence \in Nat /\ consumerSequence \in Nat /\ seen \in Nat
      /\ producerBytes \in Nat /\ consumerBytes \in Nat /\ size \in Nat
  BY SMTT(30) DEF WriterInv, WriterTypes
<1>2. /\ mem["published"] \in seen .. producerSequence /\ consumerSequence <= seen
      /\ mem["released"] \in 0 .. consumerSequence
  BY DEF WriterInv, RingInv, AllIn
<1>3. mem["bytesPublished"] \in 0 .. producerBytes /\ mem["bytesReleased"] \in 0 .. consumerBytes
  BY DEF BytesInv, PublishedInv, ReleasedInv, AllIn
<1>4. /\ AllIn(mem, pBuffer, "published", 0 .. producerSequence)
      /\ AllIn(mem, pBuffer, "published", Nat)
  <2>1. seen .. producerSequence \subseteq 0 .. producerSequence /\ 0 .. producerSequence \subseteq Nat
    BY <1>1, SMTT(30)
  <2>2. AllIn(mem, pBuffer, "published", seen .. producerSequence)
    BY DEF WriterInv, RingInv
  <2>3. QED
    BY <2>1, <2>2, AllInMonotone, Zenon
<1>5. PLoad("released") = mem["released"] /\ PLoad("bytesReleased") = mem["bytesReleased"]
  <2>1. NoEntry(pBuffer, "released") /\ NoEntry(pBuffer, "bytesReleased")
    BY DEF WriterInv, WriterTypes, MemoryTypes, PAtomics, Atomics, Counters, Flags
  <2>2. QED
    BY <2>1, LoadOfOther DEF PLoad
<1>6. consumerSequence <= producerSequence
  BY <1>1, <1>2
<1>7. QED
  BY <1>1, <1>2, <1>3, <1>4, <1>5, <1>6

LEMMA PublishStageBytes ==
  ASSUME WriterInv, BytesInv, PublishStage
  PROVE  PublishedInv' /\ (\E bytesAt \in [Nat -> Nat] : Accounts(bytesAt)')
         /\ producerBytes' - consumerBytes' <= ByteCapacity
<1> DEFINE P == producerSequence
           C == consumerSequence
           B == producerBytes
<1>1. /\ pPc = "checkBytes" /\ pPc' = "storeBytes" /\ P' = P + 1
      /\ B' = B + size /\ PStore("rows", P + 1) /\ BytesFit
      /\ slots' = [slots EXCEPT ![SlotOf(P)] = [number |-> P + 1, size |-> size]]
      /\ UNCHANGED OfConsumer
  BY DEF PublishStage, PGoto
<1>2. C' = C /\ consumerBytes' = consumerBytes
  BY <1>1 DEF OfConsumer, consumerVars
<1>3. /\ P \in Nat /\ C \in Nat /\ B \in Nat /\ consumerBytes \in Nat /\ size \in Nat
      /\ C <= P /\ mem["bytesReleased"] \in 0 .. consumerBytes
      /\ PLoad("bytesReleased") = mem["bytesReleased"]
  BY BytesFacts
<1>4. /\ AllIn(mem, pBuffer, "published", Nat) /\ AllIn(mem, pBuffer, "published", 0 .. P)
      /\ mem["bytesPublished"] \in Nat
  BY BytesFacts
<1>5. /\ MemoryTypes /\ "rows" \in PAtomics /\ P + 1 \in Values
      /\ "bytesPublished" \in Atomics
  BY <1>3 DEF WriterInv, WriterTypes, PAtomics, Values, Atomics, Counters
<1>6. P - C < Slots
  BY <1>1 DEF WriterInv, RingInv, ProducerOwnsSlot
<1>7. B' - consumerBytes' <= ByteCapacity
  BY <1>1, <1>2, <1>3, BytesAssumption, SMTT(30) DEF BytesFit, OccupiedBytes
<1>8. PublishedInv'
  <2>1. AllIn(mem', pBuffer', "bytesPublished", 0 .. B) /\ Ascending(mem', pBuffer', "bytesPublished")
    BY <1>1, <1>5, PStoreView, Zenon DEF BytesInv, PublishedInv
  <2>2. 0 .. B \subseteq 0 .. B'
    BY <1>1, <1>3
  <2>3. AllIn(mem', pBuffer', "bytesPublished", 0 .. B')
    BY <2>1, <2>2, AllInMonotone, Zenon
  <2>4. QED
    BY <1>1, <2>1, <2>3 DEF PublishedInv
<1>9. PICK bytesAt \in [Nat -> Nat] : Accounts(bytesAt)
  BY DEF BytesInv
<1>10. PICK next \in [Nat -> Nat] : next = [bytesAt EXCEPT ![P + 1] = B + size]
  <2>1. B + size \in Nat
    BY <1>3
  <2>2. QED
    BY <2>1, Zenon
<1>11. /\ next[P + 1] = B + size
       /\ \A n \in 0 .. P : next[n] = bytesAt[n]
  BY <1>3, <1>10
<1>12. Covers(mem', pBuffer', next)
  <2>1. B + size \in Nat
    BY <1>3
  <2>2. Covers(mem, pBuffer, next)
    BY <1>3, <1>4, <1>9, <1>10, <2>1, CoversExtended, Zenon DEF Accounts
  <2>3. QED
    BY <1>1, <1>4, <1>5, <2>2, CoversStore, Zenon
<1>13. /\ \A m, n \in 0 .. P : m <= n => bytesAt[m] <= bytesAt[n]
       /\ bytesAt[C] = consumerBytes /\ bytesAt[P] = B
       /\ \A i \in C .. P - 1 : slots[SlotOf(i)].size = bytesAt[i + 1] - bytesAt[i]
  BY <1>9 DEF Accounts
<1>14. \A m, n \in 0 .. P + 1 : m <= n => next[m] <= next[n]
  <2> SUFFICES ASSUME NEW m \in 0 .. P + 1, NEW n \in 0 .. P + 1, m <= n
               PROVE  next[m] <= next[n]
    OBVIOUS
  <2>1. CASE n \in 0 .. P
    <3>1. m \in 0 .. P
      BY <1>3, <2>1
    <3>2. QED
      BY <1>11, <1>13, <2>1, <3>1
  <2>2. CASE n = P + 1 /\ m = P + 1
    BY <1>3, <1>11, <2>2, SMTT(30)
  <2>3. CASE n = P + 1 /\ m \in 0 .. P
    <3>1. P \in 0 .. P /\ m <= P
      BY <1>3, <2>3, SMTT(30)
    <3>2. next[m] <= B
      BY <1>11, <1>13, <2>3, <3>1, SMTT(30)
    <3>3. next[m] \in Nat
      BY <1>11, SMTT(30)
    <3>4. QED
      BY <1>3, <1>11, <2>3, <3>2, <3>3, SMTT(30)
  <2>4. QED
    BY <1>3, <2>1, <2>2, <2>3
<1>15. next[C] = consumerBytes
  BY <1>3, <1>11, <1>13, SMTT(30)
<1>16. \A i \in C .. P : slots'[SlotOf(i)].size = next[i + 1] - next[i]
  <2> SUFFICES ASSUME NEW i \in C .. P
               PROVE  slots'[SlotOf(i)].size = next[i + 1] - next[i]
    OBVIOUS
  <2>1. SlotOf(P) \in 0 .. Slots - 1 /\ SlotOf(i) \in 0 .. Slots - 1
    BY <1>3, SlotRange, SMTT(30)
  <2>2. CASE i = P
    <3>1. slots'[SlotOf(P)].size = size
      BY <1>1, <2>1, SMTT(30) DEF WriterInv, WriterTypes
    <3>2. next[P] = B
      BY <1>3, <1>11, <1>13, SMTT(30)
    <3>3. QED
      BY <1>3, <1>11, <2>2, <3>1, <3>2, SMTT(30)
  <2>3. CASE i # P
    <3>1. SlotOf(i) # SlotOf(P)
      BY <1>3, <1>6, <2>3, SlotsDiffer, SlotsAssumption, SMTT(30)
    <3>2. slots'[SlotOf(i)] = slots[SlotOf(i)]
      BY <1>1, <2>1, <3>1 DEF WriterInv, WriterTypes
    <3>3. i \in C .. P - 1 /\ i \in 0 .. P /\ i + 1 \in 0 .. P
      BY <1>3, <2>3
    <3>4. QED
      BY <1>11, <1>13, <3>2, <3>3, SMTT(30)
  <2>4. QED
    BY <2>2, <2>3, SMTT(30)
<1>17. Accounts(next)'
  <2>1. P' - 1 = P
    BY <1>1, <1>3
  <2>2. \A i : SlotOf(i)' = SlotOf(i)
    BY DEF SlotOf
  <2>3. \A i \in C' .. P' - 1 : slots'[SlotOf(i)].size = next[i + 1] - next[i]
    BY <1>2, <1>16, <2>1, SMTT(30)
  <2>4. \A m, n \in 0 .. P' : m <= n => next[m] <= next[n]
    BY <1>1, <1>14, SMTT(30)
  <2>5. next[C'] = consumerBytes' /\ next[P'] = B'
    BY <1>1, <1>2, <1>11, <1>15
  <2>6. QED
    BY <1>12, <2>3, <2>4, <2>5, Zenon DEF Accounts, SlotOf
<1>18. QED
  BY <1>7, <1>8, <1>11, <1>17, SMTT(30)

LEMMA AccountsFrame ==
  ASSUME NEW bytesAt \in [Nat -> Nat], Accounts(bytesAt), Covers(mem', pBuffer', bytesAt),
         UNCHANGED <<producerSequence, producerBytes, consumerSequence, consumerBytes>>,
         \A i \in consumerSequence .. producerSequence - 1 : slots'[SlotOf(i)] = slots[SlotOf(i)]
  PROVE  Accounts(bytesAt)'
BY Zenon DEF Accounts, SlotOf

LEMMA ProducerBytesInv ==
  ASSUME WriterInv, BytesInv, ProducerStep \/ Environment
  PROVE  BytesInv'
<1>1. /\ UNCHANGED OfConsumer /\ cBuffer' = cBuffer
      /\ mem'["released"] = mem["released"] /\ mem'["bytesReleased"] = mem["bytesReleased"]
  BY ProducerKeepsReleased, SMTT(30) DEF CAtomics
<1>2. consumerSequence' = consumerSequence /\ consumerBytes' = consumerBytes
  BY <1>1 DEF OfConsumer, consumerVars
<1>3. ReleasedInv'
  BY <1>1, <1>2, Zenon DEF BytesInv, ReleasedInv, AllIn, Ascending
<1>4. CASE PublishStage
  BY <1>3, <1>4, PublishStageBytes, SMTT(30) DEF BytesInv
<1>5. /\ producerSequence \in Nat /\ consumerSequence \in Nat /\ producerBytes \in Nat
      /\ consumerSequence <= producerSequence
      /\ AllIn(mem, pBuffer, "published", Nat)
      /\ mem["bytesPublished"] \in 0 .. producerBytes /\ mem["bytesPublished"] \in Nat
      /\ mem["released"] \in 0 .. consumerSequence /\ PLoad("released") = mem["released"]
  BY BytesFacts
<1>6. PICK bytesAt \in [Nat -> Nat] : Accounts(bytesAt)
  BY SMTT(30) DEF BytesInv
<1>7. Covers(mem, pBuffer, bytesAt) /\ bytesAt[producerSequence] = producerBytes
  BY <1>6, ZenonT(30) DEF Accounts
<1>8. ASSUME UNCHANGED <<producerSequence, producerBytes>>,
             \A i \in consumerSequence .. producerSequence - 1 : slots'[SlotOf(i)] = slots[SlotOf(i)],
             PublishedInv', Covers(mem', pBuffer', bytesAt)
      PROVE  BytesInv'
  <2>1. Accounts(bytesAt)'
    BY <1>2, <1>6, <1>8, AccountsFrame, SMTT(30)
  <2>2. producerBytes' - consumerBytes' <= ByteCapacity
    BY <1>2, <1>8, SMTT(30) DEF BytesInv
  <2>3. QED
    BY <1>3, <1>8, <2>1, <2>2, SMTT(30) DEF BytesInv
<1>9. ASSUME UNCHANGED memoryVars, pPc' # "storePublished", UNCHANGED producerBytes
      PROVE  PublishedInv' /\ Covers(mem', pBuffer', bytesAt)
  BY <1>7, <1>9, SMTT(30) DEF memoryVars, PublishedInv, BytesInv
<1>10. CASE TryAcquire
  <2>1. /\ UNCHANGED <<memoryVars, producerSequence, producerBytes>> /\ pPc' # "storePublished"
        /\ slots' = slots \/ ( /\ slots' = [slots EXCEPT ![SlotOf(producerSequence)] = NoBatch]
                               /\ ~ OccupiedSlots >= Slots)
    BY <1>10, SMTT(30) DEF TryAcquire, producerVars
  <2>2. ASSUME NEW i \in consumerSequence .. producerSequence - 1
        PROVE  slots'[SlotOf(i)] = slots[SlotOf(i)]
    <3>1. CASE slots' = slots
      BY <3>1
    <3>2. CASE /\ slots' = [slots EXCEPT ![SlotOf(producerSequence)] = NoBatch]
               /\ ~ OccupiedSlots >= Slots
      <4>1. producerSequence - consumerSequence < Slots
        BY <1>5, <3>2, SlotsAssumption, SMTT(30) DEF OccupiedSlots
      <4>2. SlotOf(i) # SlotOf(producerSequence) /\ SlotOf(i) \in 0 .. Slots - 1
        BY <1>5, <4>1, SlotsDiffer, SlotRange, SlotsAssumption, SMTT(30)
      <4>3. QED
        BY <3>2, <4>2 DEF WriterInv, WriterTypes
    <3>3. QED
      BY <2>1, <3>1, <3>2
  <2>3. QED
    BY <1>8, <1>9, <2>1, <2>2, SMTT(30)
<1>11. ASSUME NEW x \in PAtomics, NEW v \in Values, PStore(x, v),
              UNCHANGED <<slots, producerSequence, producerBytes, OfConsumer>>,
              x = "published" => v = producerSequence /\ pPc = "storePublished",
              x = "bytesPublished" => v = producerBytes,
              x # "bytesPublished" => pPc' # "storePublished"
       PROVE  BytesInv'
  <2>1. MemoryTypes /\ "bytesPublished" \in Atomics
    BY DEF WriterInv, WriterTypes, Atomics, Counters
  <2>2. /\ Covers(mem', pBuffer', bytesAt)
        /\ x = "bytesPublished" => BytesStored(mem', pBuffer', Len(pBuffer'), v)
    <3>1. x = "published" => v \in Nat /\ BytesStored(mem, pBuffer, Len(pBuffer), bytesAt[v])
      BY <1>5, <1>7, <1>11, SMTT(30) DEF BytesInv, PublishedInv
    <3>2. x = "bytesPublished" => v \in Nat /\ mem["bytesPublished"] <= v
      BY <1>5, <1>11
    <3>3. QED
      BY <1>5, <1>7, <1>11, <2>1, <3>1, <3>2, CoversStore, Zenon
  <2>3. AllIn(mem', pBuffer', "bytesPublished", 0 .. producerBytes)
    <3>1. x = "bytesPublished" => v \in 0 .. producerBytes
      BY <1>5, <1>11
    <3>2. QED
      BY <1>11, <2>1, <3>1, PStoreView, Zenon DEF BytesInv, PublishedInv
  <2>4. Ascending(mem', pBuffer', "bytesPublished")
    <3>1. 0 .. producerBytes \subseteq {u \in Nat : u <= producerBytes}
      BY <1>5
    <3>2. AllIn(mem, pBuffer, "bytesPublished", {u \in Nat : u <= producerBytes})
      BY <3>1, AllInMonotone, Zenon DEF BytesInv, PublishedInv
    <3>3. QED
      BY <1>11, <2>1, <3>2, PStoreView, Zenon DEF BytesInv, PublishedInv
  <2>5. PublishedInv'
    BY <1>11, <2>2, <2>3, <2>4 DEF PublishedInv
  <2>6. QED
    BY <1>8, <1>11, <2>2, <2>5, SMTT(30)
<1>12. CASE /\ UNCHANGED <<slots, producerSequence, producerBytes, OfConsumer>>
            /\ pPc' # "storePublished"
            /\ UNCHANGED memoryVars \/ Exchange(pBuffer, "armed", FALSE)
  <2>1. UNCHANGED memoryVars => PublishedInv' /\ Covers(mem', pBuffer', bytesAt)
    BY <1>9, <1>12, SMTT(30)
  <2>2. ASSUME Exchange(pBuffer, "armed", FALSE)
        PROVE  PublishedInv' /\ Covers(mem', pBuffer', bytesAt)
    <3>1. /\ pBuffer' = pBuffer /\ mem'["published"] = mem["published"]
          /\ mem'["bytesPublished"] = mem["bytesPublished"]
      BY <2>2, ExchangeView, Zenon DEF WriterInv, WriterTypes, Atomics, Counters, Flags
    <3>2. QED
      BY <1>7, <1>12, <3>1, CoversElsewhere DEF BytesInv, PublishedInv
  <2>3. QED
    BY <1>8, <1>12, <2>1, <2>2, Zenon
<1>13. /\ producerBytes \in Values /\ producerSequence \in Values /\ BOOLEAN \subseteq Values
       /\ {"bytesPublished", "published", "publishActive", "armed", "close"} \subseteq PAtomics
  BY <1>5 DEF Values, PAtomics
<1>14. CASE /\ UNCHANGED <<slots, producerSequence, producerBytes, OfConsumer>>
            /\ \/ pPc' = "storePublished" /\ PStore("bytesPublished", producerBytes)
               \/ /\ pPc = "storePublished" /\ pPc' # "storePublished"
                  /\ PStore("published", producerSequence)
  BY <1>11, <1>13, <1>14, SMTT(30)
<1>15. CASE /\ UNCHANGED <<slots, producerSequence, producerBytes, OfConsumer>>
            /\ pPc' # "storePublished"
            /\ \E x \in {"publishActive", "armed", "close"}, v \in BOOLEAN : PStore(x, v)
  <2>1. PICK x \in {"publishActive", "armed", "close"}, v \in BOOLEAN : PStore(x, v)
    BY <1>15
  <2>2. x \in PAtomics /\ v \in Values /\ x # "published" /\ x # "bytesPublished"
    BY <1>13, SMTT(30)
  <2>3. QED
    BY <1>11, <1>15, <2>1, <2>2
<1>16. QED
  BY <1>4, <1>10, <1>12, <1>14, <1>15, ProducerClasses, ZenonT(30)

LEMMA PDrainBytesInv ==
  ASSUME WriterInv, BytesInv, PDrain
  PROVE  BytesInv' /\ mem'["released"] = mem["released"] /\ mem'["bytesReleased"] = mem["bytesReleased"]
<1>1. /\ UNCHANGED <<cBuffer, slots, pPc, producerVars, consumerVars>>
  BY DEF PDrain
<1>2. /\ cBuffer' = cBuffer /\ slots' = slots /\ pPc' = pPc
      /\ producerSequence' = producerSequence /\ producerBytes' = producerBytes
      /\ consumerSequence' = consumerSequence /\ consumerBytes' = consumerBytes
  BY <1>1, SMTT(30) DEF producerVars, consumerVars
<1>3. /\ MemoryTypes /\ NoEntry(pBuffer, "released") /\ NoEntry(pBuffer, "bytesReleased")
      /\ {"released", "bytesReleased", "bytesPublished"} \subseteq Atomics
  BY SMTT(30) DEF WriterInv, WriterTypes, MemoryTypes, PAtomics, Atomics, Counters, Flags
<1>4. mem'["released"] = mem["released"] /\ mem'["bytesReleased"] = mem["bytesReleased"]
  BY <1>3, PDrainView
<1>5. ReleasedInv'
  BY <1>2, <1>4, Zenon DEF BytesInv, ReleasedInv, AllIn, Ascending
<1>6. /\ AllIn(mem, pBuffer, "published", Nat) /\ producerBytes \in Nat
      /\ AllIn(mem, pBuffer, "bytesPublished", 0 .. producerBytes)
      /\ Ascending(mem, pBuffer, "bytesPublished")
  BY BytesFacts DEF BytesInv, PublishedInv
<1>7. AllIn(mem, pBuffer, "bytesPublished", Nat)
  <2>1. 0 .. producerBytes \subseteq Nat
    BY <1>6, SMTT(30)
  <2>2. QED
    BY <1>6, <2>1, AllInMonotone, Zenon
<1>8. /\ \A bytesAt \in [Nat -> Nat] :
           Covers(mem, pBuffer, bytesAt) => Covers(mem', pBuffer', bytesAt)
      /\ \A u \in Nat : BytesStored(mem, pBuffer, Len(pBuffer), u)
                          => BytesStored(mem', pBuffer', Len(pBuffer'), u)
  BY <1>3, <1>6, <1>7, CoversDrain, SMTT(30)
<1>9. PublishedInv'
  <2>1. /\ AllIn(mem', pBuffer', "bytesPublished", 0 .. producerBytes)
        /\ Ascending(mem', pBuffer', "bytesPublished")
    BY <1>3, <1>6, PDrainView, Zenon
  <2>2. QED
    BY <1>2, <1>6, <1>8, <2>1 DEF BytesInv, PublishedInv
<1>10. PICK bytesAt \in [Nat -> Nat] : Accounts(bytesAt)
  BY DEF BytesInv
<1>11. Covers(mem', pBuffer', bytesAt)
  BY <1>8, <1>10, Zenon DEF Accounts
<1>12. Accounts(bytesAt)'
  BY <1>2, <1>10, <1>11, AccountsFrame
<1>13. QED
  BY <1>2, <1>4, <1>5, <1>9, <1>12, SMTT(30) DEF BytesInv

LEMMA ConsumerBytesInv ==
  ASSUME WriterInv, BytesInv, ConsumerStep \/ WaitTimeout
  PROVE  /\ BytesInv' /\ UNCHANGED OfProducer
         /\ mem["released"] <= mem'["released"] /\ mem["bytesReleased"] <= mem'["bytesReleased"]
<1>1. UNCHANGED OfProducer
  BY ConsumerClasses
<1>2. /\ pPc' = pPc /\ producerSequence' = producerSequence /\ producerBytes' = producerBytes
  BY <1>1 DEF OfProducer, producerVars
<1>3. /\ producerSequence \in Nat /\ consumerSequence \in Nat /\ seen \in Nat
      /\ producerBytes \in Nat /\ consumerBytes \in Nat
      /\ mem["published"] \in seen .. producerSequence
      /\ mem["bytesReleased"] \in 0 .. consumerBytes /\ mem["released"] \in 0 .. consumerSequence
  BY BytesFacts, SMTT(30)
<1>4. /\ MemoryTypes /\ BOOLEAN \subseteq Values /\ consumerSequence \in Values
      /\ {"released", "bytesReleased", "failed", "sleeping"} \subseteq CAtomics
      /\ {"published", "bytesPublished"} \subseteq PAtomics
      /\ {"released", "bytesReleased", "published", "bytesPublished"} \subseteq Atomics
      /\ {"published", "bytesPublished"} \cap CAtomics = {}
  BY <1>3 DEF WriterInv, WriterTypes, Values, CAtomics, PAtomics, Atomics, Counters, Flags
<1>5. /\ AllIn(mem, cBuffer, "bytesReleased", 0 .. consumerBytes)
      /\ AllIn(mem, cBuffer, "released", 0 .. consumerSequence)
      /\ Ascending(mem, cBuffer, "bytesReleased") /\ Ascending(mem, cBuffer, "released")
  BY Zenon DEF WriterInv, RingInv, BytesInv, ReleasedInv
<1>6. PICK bytesAt \in [Nat -> Nat] : Accounts(bytesAt)
  BY DEF BytesInv
<1>7. ASSUME pBuffer' = pBuffer, mem'["published"] = mem["published"],
             mem'["bytesPublished"] = mem["bytesPublished"]
      PROVE  PublishedInv' /\ Covers(mem', pBuffer', bytesAt)
  BY <1>2, <1>6, <1>7, CoversElsewhere, ZenonT(30) DEF BytesInv, PublishedInv, Accounts
<1>8. ASSUME NEW x \in CAtomics, NEW v \in Values, CStore(x, v)
      PROVE  PublishedInv' /\ Covers(mem', pBuffer', bytesAt)
  <2>1. /\ pBuffer' = pBuffer /\ mem'["published"] = mem["published"]
        /\ mem'["bytesPublished"] = mem["bytesPublished"]
    BY <1>4, <1>8, CStoreView, SMTT(30)
  <2>2. QED
    BY <1>7, <2>1, SMTT(30)
<1>9. CASE ReleaseSlot
  <2> DEFINE C == consumerSequence
             s == SlotOf(C)
             v == consumerBytes + slots[s].size
  <2>1. /\ cPc = "release" /\ consumerBytes' = v /\ C' = C + 1
        /\ slots' = [slots EXCEPT ![s] = NoBatch] /\ CStore("bytesReleased", v)
    BY <1>9 DEF ReleaseSlot, CGoto
  <2>2. C < seen /\ C < producerSequence /\ producerSequence - C <= Slots
    <3>1. C < seen /\ producerSequence - C <= Slots
      BY <2>1 DEF WriterInv, RingInv
    <3>2. QED
      BY <1>3, <3>1, SMTT(30)
  <2>3. s \in 0 .. Slots - 1 /\ slots[s].size \in Nat
    <3>1. s \in 0 .. Slots - 1
      BY <1>3, SlotRange, SMTT(30)
    <3>2. QED
      BY <3>1 DEF WriterInv, WriterTypes
  <2>4. v \in Nat /\ v \in Values /\ consumerBytes <= v
    BY <1>3, <2>3 DEF Values
  <2>5. C \in C .. producerSequence - 1
    BY <1>3, <2>2, SMTT(30)
  <2>6. bytesAt[C + 1] = v
    <3>1. slots[s].size = bytesAt[C + 1] - bytesAt[C] /\ bytesAt[C] = consumerBytes
      BY <1>6, <2>5 DEF Accounts
    <3>2. bytesAt[C + 1] \in Nat /\ bytesAt[C] \in Nat
      BY <1>3
    <3>3. QED
      BY <3>1, <3>2, SMTT(30)
  <2>7. v <= producerBytes
    <3>1. /\ \A m, n \in 0 .. producerSequence : m <= n => bytesAt[m] <= bytesAt[n]
          /\ bytesAt[producerSequence] = producerBytes
      BY <1>6 DEF Accounts
    <3>2. /\ C + 1 \in 0 .. producerSequence /\ producerSequence \in 0 .. producerSequence
          /\ C + 1 <= producerSequence
      BY <1>3, <2>2, SMTT(30)
    <3>3. QED
      BY <2>6, <3>1, <3>2, SMTT(30)
  <2>8. \A i \in C + 1 .. producerSequence - 1 :
          slots'[SlotOf(i)] = slots[SlotOf(i)] /\ i \in C .. producerSequence - 1
    <3> SUFFICES ASSUME NEW i \in C + 1 .. producerSequence - 1
                 PROVE  slots'[SlotOf(i)] = slots[SlotOf(i)] /\ i \in C .. producerSequence - 1
      OBVIOUS
    <3>1. SlotOf(i) # s /\ SlotOf(i) \in 0 .. Slots - 1
      BY <1>3, <2>2, SlotsDiffer, SlotRange, SlotsAssumption, SMTT(30)
    <3>2. slots'[SlotOf(i)] = slots[SlotOf(i)]
      BY <2>1, <3>1, ZenonT(30) DEF WriterInv, WriterTypes
    <3>3. i \in C .. producerSequence - 1
      BY <1>3, SMTT(30)
    <3>4. QED
      BY <3>2, <3>3, SMTT(30)
  <2> HIDE DEF v
  <2>9. PublishedInv' /\ Covers(mem', pBuffer', bytesAt)
    BY <1>4, <1>8, <2>1, <2>4
  <2>10. AllIn(mem, cBuffer, "bytesReleased", 0 .. v)
    <3>1. 0 .. consumerBytes \subseteq 0 .. v
      BY <1>3, <2>4
    <3>2. QED
      BY <1>5, <3>1, AllInMonotone, Zenon
  <2>11. /\ Ascending(mem', cBuffer', "bytesReleased") /\ mem["bytesReleased"] <= mem'["bytesReleased"]
    <3>1. mem["bytesReleased"] \in Nat
      BY <1>3
    <3>2. QED
      BY <1>4, <1>5, <2>1, <2>4, <2>10, <3>1, CStoreAscends, ZenonT(30)
  <2>12. /\ Ascending(mem', cBuffer', "released") /\ mem["released"] <= mem'["released"]
    <3>1. mem["released"] \in Nat /\ "released" # "bytesReleased"
      BY <1>3
    <3>2. QED
      BY <1>4, <1>5, <2>1, <2>4, <3>1, CStoreAscends, ZenonT(30)
  <2>13. AllIn(mem', cBuffer', "bytesReleased", 0 .. v)
    <3>1. v \in 0 .. v
      BY <2>4
    <3>2. QED
      BY <1>4, <2>1, <2>4, <2>10, <3>1, CStoreView, Zenon
  <2>14. ReleasedInv'
    BY <2>1, <2>11, <2>12, <2>13 DEF ReleasedInv
  <2>15. Accounts(bytesAt)'
    <3>1. /\ \A m, n \in 0 .. producerSequence' : m <= n => bytesAt[m] <= bytesAt[n]
          /\ bytesAt[producerSequence'] = producerBytes'
      BY <1>2, <1>6 DEF Accounts
    <3>2. bytesAt[consumerSequence'] = consumerBytes'
      BY <2>1, <2>6, SMTT(30)
    <3>3. \A i \in consumerSequence' .. producerSequence' - 1 :
            slots'[SlotOf(i)].size = bytesAt[i + 1] - bytesAt[i]
      BY <1>2, <1>6, <2>1, <2>8, SMTT(30) DEF Accounts
    <3>4. QED
      BY <2>9, <3>1, <3>2, <3>3, Zenon DEF Accounts, SlotOf
  <2>16. producerBytes' - consumerBytes' <= ByteCapacity
    BY <1>2, <1>3, <2>1, <2>4, BytesAssumption, SMTT(30) DEF BytesInv
  <2>17. QED
    BY <1>1, <2>9, <2>11, <2>12, <2>14, <2>15, <2>16, SMTT(30) DEF BytesInv
<1>10. ASSUME UNCHANGED <<slots, consumerSequence, consumerBytes>>,
              PublishedInv', Covers(mem', pBuffer', bytesAt), ReleasedInv'
       PROVE  BytesInv'
  <2>1. Accounts(bytesAt)'
    BY <1>2, <1>6, <1>10, AccountsFrame, SMTT(30)
  <2>2. QED
    BY <1>2, <1>10, <2>1, SMTT(30) DEF BytesInv
<1>11. ASSUME NEW x \in {"released", "failed", "sleeping"}, NEW v \in Values, CStore(x, v),
              x = "released" => v = consumerSequence,
              UNCHANGED <<slots, consumerSequence, consumerBytes>>
       PROVE  /\ BytesInv'
              /\ mem["released"] <= mem'["released"]
              /\ mem["bytesReleased"] <= mem'["bytesReleased"]
  <2>1. x \in CAtomics /\ x # "bytesReleased"
    BY <1>4
  <2>2. PublishedInv' /\ Covers(mem', pBuffer', bytesAt)
    BY <1>8, <1>11, <2>1
  <2>3. Ascending(mem', cBuffer', "bytesReleased") /\ mem["bytesReleased"] <= mem'["bytesReleased"]
    <3>1. mem["bytesReleased"] \in Nat /\ "bytesReleased" \in CAtomics /\ "bytesReleased" # x
      BY ONLY <1>3, <1>4, <2>1
    <3>2. QED
      BY <1>4, <1>5, <1>11, <2>1, <3>1, CStoreAscends, ZenonT(30)
  <2>4. Ascending(mem', cBuffer', "released") /\ mem["released"] <= mem'["released"]
    <3>1. mem["released"] \in Nat /\ "released" \in CAtomics
      BY ONLY <1>3, <1>4
    <3>2. "released" = x => v \in Nat /\ AllIn(mem, cBuffer, "released", 0 .. v)
      BY <1>3, <1>5, <1>11, Zenon
    <3>3. QED
      BY <1>4, <1>11, <1>5, <2>1, <3>1, <3>2, CStoreAscends, ZenonT(30)
  <2>5. AllIn(mem', cBuffer', "bytesReleased", 0 .. consumerBytes)
    BY <1>4, <1>5, <1>11, <2>1, CStoreView, Zenon
  <2>6. ReleasedInv'
    BY <1>11, <2>3, <2>4, <2>5, SMTT(30) DEF ReleasedInv
  <2>7. QED
    BY <1>10, <1>11, <2>2, <2>3, <2>4, <2>6, SMTT(30)
<1>12. ASSUME UNCHANGED <<slots, consumerSequence, consumerBytes, pBuffer, cBuffer>>,
              \A y \in {"released", "bytesReleased", "published", "bytesPublished"} : mem'[y] = mem[y]
       PROVE  /\ BytesInv'
              /\ mem["released"] <= mem'["released"]
              /\ mem["bytesReleased"] <= mem'["bytesReleased"]
  <2>1. PublishedInv' /\ Covers(mem', pBuffer', bytesAt)
    BY <1>7, <1>12, SMTT(30)
  <2>2. mem'["released"] = mem["released"] /\ mem'["bytesReleased"] = mem["bytesReleased"]
    BY <1>12
  <2>3. ReleasedInv'
    BY <1>12, <2>2, Zenon DEF BytesInv, ReleasedInv, AllIn, Ascending
  <2>4. QED
    BY <1>3, <1>10, <1>12, <2>1, <2>2, <2>3, SMTT(30)
<1>13. CASE /\ UNCHANGED <<slots, consumerSequence, consumerBytes>>
            /\ \/ CStore("released", consumerSequence)
               \/ \E x \in {"failed", "sleeping"}, v \in BOOLEAN : CStore(x, v)
  <2>1. PICK x \in {"released", "failed", "sleeping"}, v \in Values :
          CStore(x, v) /\ (x = "released" => v = consumerSequence)
    <3>1. CASE CStore("released", consumerSequence)
      BY <1>4, <3>1
    <3>2. CASE \E x \in {"failed", "sleeping"}, v \in BOOLEAN : CStore(x, v)
      BY <1>4, <3>2, SMTT(30)
    <3>3. QED
      BY <1>13, <3>1, <3>2
  <2>2. QED
    BY <1>1, <1>11, <1>13, <2>1, SMTT(30)
<1>14. CASE /\ UNCHANGED <<slots, consumerSequence, consumerBytes>>
            /\ \/ UNCHANGED memoryVars
               \/ \E x \in {"armed", "failureSent"}, v \in BOOLEAN : Exchange(cBuffer, x, v)
  <2>1. CASE UNCHANGED memoryVars
    BY <1>1, <1>12, <1>14, <2>1, SMTT(30) DEF memoryVars
  <2>2. CASE \E x \in {"armed", "failureSent"}, v \in BOOLEAN : Exchange(cBuffer, x, v)
    <3>1. PICK x \in {"armed", "failureSent"}, v \in BOOLEAN : Exchange(cBuffer, x, v)
      BY <2>2
    <3>2. /\ pBuffer' = pBuffer /\ cBuffer' = cBuffer
          /\ \A y \in Atomics : y # x => mem'[y] = mem[y]
      BY <1>4, <3>1, ExchangeView, Zenon
    <3>3. x \notin {"released", "bytesReleased", "published", "bytesPublished"}
      OBVIOUS
    <3>4. QED
      BY <1>1, <1>4, <1>12, <1>14, <3>2, <3>3
  <2>3. QED
    BY <1>14, <2>1, <2>2, SMTT(30)
<1>15. QED
  BY <1>9, <1>13, <1>14, ConsumerClasses, Zenon

LEMMA CDrainBytesInv ==
  ASSUME WriterInv, BytesInv, CDrain
  PROVE  /\ BytesInv' /\ UNCHANGED OfProducer
         /\ mem["released"] <= mem'["released"] /\ mem["bytesReleased"] <= mem'["bytesReleased"]
<1>1. UNCHANGED <<pBuffer, slots, consumerVars, OfProducer>>
  BY DEF CDrain, OfProducer
<1>2. /\ pBuffer' = pBuffer /\ slots' = slots /\ pPc' = pPc
      /\ producerSequence' = producerSequence /\ producerBytes' = producerBytes
      /\ consumerSequence' = consumerSequence /\ consumerBytes' = consumerBytes
  BY <1>1 DEF OfProducer, producerVars, consumerVars
<1>3. /\ MemoryTypes /\ {"published", "bytesPublished"} \subseteq PAtomics
      /\ {"released", "bytesReleased"} \subseteq CAtomics /\ "bytesReleased" \in Atomics
  BY DEF WriterInv, WriterTypes, CAtomics, PAtomics, Atomics, Counters
<1>4. mem'["published"] = mem["published"] /\ mem'["bytesPublished"] = mem["bytesPublished"]
  BY <1>3, CDrainView, SMTT(30)
<1>5. /\ AllIn(mem, cBuffer, "bytesReleased", 0 .. consumerBytes)
      /\ AllIn(mem, cBuffer, "released", 0 .. consumerSequence)
      /\ Ascending(mem, cBuffer, "bytesReleased") /\ Ascending(mem, cBuffer, "released")
  BY DEF WriterInv, RingInv, BytesInv, ReleasedInv
<1>6. AllIn(mem, cBuffer, "bytesReleased", Nat) /\ AllIn(mem, cBuffer, "released", Nat)
  <2>1. 0 .. consumerBytes \subseteq Nat /\ 0 .. consumerSequence \subseteq Nat
    BY BytesFacts
  <2>2. QED
    BY <1>5, <2>1, AllInMonotone, Zenon
<1>7. /\ Ascending(mem', cBuffer', "bytesReleased") /\ mem["bytesReleased"] <= mem'["bytesReleased"]
      /\ Ascending(mem', cBuffer', "released") /\ mem["released"] <= mem'["released"]
  BY <1>3, <1>5, <1>6, CDrainAscends, ZenonT(30)
<1>8. AllIn(mem', cBuffer', "bytesReleased", 0 .. consumerBytes)
  BY <1>3, <1>5, CDrainView, Zenon
<1>9. ReleasedInv'
  BY <1>2, <1>7, <1>8 DEF ReleasedInv
<1>10. PICK bytesAt \in [Nat -> Nat] : Accounts(bytesAt)
  BY DEF BytesInv
<1>11. PublishedInv' /\ Covers(mem', pBuffer', bytesAt)
  BY <1>2, <1>4, <1>10, CoversElsewhere, ZenonT(30) DEF BytesInv, PublishedInv, Accounts
<1>12. Accounts(bytesAt)'
  BY <1>2, <1>10, <1>11, AccountsFrame, SMTT(30)
<1>13. QED
  BY <1>1, <1>2, <1>7, <1>9, <1>11, <1>12, SMTT(30) DEF BytesInv

-----------------------------------------------------------------------------
(* While messages are read, the ring is below the level at which reads     *)
(* pause: whoever starts reading has just looked, and the consumer only    *)
(* makes more room.                                                        *)

Roomy ==
  /\ producerSequence - mem["released"] < PauseSlots
  /\ producerBytes - mem["bytesReleased"] < PauseBytes

Reading ==
  \/ ProducerOwnsSlot
  \/ pPc = "idle" /\ open = TRUE /\ paused = FALSE /\ stopping = FALSE

PauseInv ==
  /\ open \in BOOLEAN /\ paused \in BOOLEAN /\ stopping \in BOOLEAN
  /\ pPc \in {"arm", "armCheck", "armClaim"} => paused = TRUE
  /\ pPc \in {"checkFailed", "checkBytes"} => size \in Sizes
  /\ Reading => Roomy

LEMMA Watermarks ==
  /\ PauseSlots \in Nat /\ ResumeSlots \in Nat /\ PauseBytes \in Nat /\ ResumeBytes \in Nat
  /\ ResumeSlots <= PauseSlots /\ PauseSlots <= Slots
  /\ ResumeBytes <= PauseBytes /\ PauseBytes <= ByteCapacity
<1>1. \A n \in Nat : /\ (n * 3) \div 4 \in Nat /\ n \div 2 \in Nat
                     /\ n \div 2 <= (n * 3) \div 4 /\ (n * 3) \div 4 <= n
  OBVIOUS
<1>2. Slots \in Nat /\ ByteCapacity \in Nat
  BY SlotsAssumption, BytesAssumption
<1>3. QED
  BY <1>1, <1>2 DEF PauseSlots, ResumeSlots, PauseBytes, ResumeBytes

LEMMA ProducerPauseInv ==
  ASSUME WriterInv, BytesInv, PauseInv, ProducerStep \/ Environment
  PROVE  PauseInv'
<1>1. /\ producerSequence \in Nat /\ producerBytes \in Nat
      /\ mem["released"] \in Nat /\ mem["bytesReleased"] \in Nat
      /\ PLoad("released") = mem["released"] /\ PLoad("bytesReleased") = mem["bytesReleased"]
  BY BytesFacts
<1>2. mem'["released"] = mem["released"] /\ mem'["bytesReleased"] = mem["bytesReleased"]
  BY ProducerKeepsReleased, Zenon DEF CAtomics
<1>3. ~ ShouldPause => Roomy
  BY <1>1, Watermarks DEF ShouldPause, OccupiedSlots, OccupiedBytes, Roomy
<1>4. BelowResumeWatermark => Roomy
  BY <1>1, Watermarks DEF BelowResumeWatermark, OccupiedSlots, OccupiedBytes, Roomy
<1>5. UNCHANGED <<producerSequence, producerBytes>> /\ Roomy => Roomy'
  BY <1>2 DEF Roomy
<1> USE DEF PGoto, PauseInv, Reading, ProducerOwnsSlot
<1>6. CASE Cancel \/ PublishNotFailed \/ NotifyWriter \/ Wake \/ Join
  BY <1>5, <1>6, Zenon DEF Cancel, PublishNotFailed, NotifyWriter, Wake, Join, producerVars, controllerVars
<1>7. CASE PublishBegin \/ PublishReject
  BY <1>5, <1>7, Zenon DEF PublishBegin, PublishReject, producerVars, controllerVars
<1>8. CASE PublishStage \/ PublishStore
  BY <1>8, Zenon DEF PublishStage, PublishStore, producerVars, controllerVars
<1>9. CASE PauseForBackpressure
  BY <1>3, <1>5, <1>9, Zenon DEF PauseForBackpressure, producerVars
<1>10. CASE ArmResume \/ ArmRecheck \/ ArmClaim
  BY <1>10, Zenon DEF ArmResume, ArmRecheck, ArmClaim, producerVars, controllerVars
<1>11. CASE OnWriterResume
  <2>1. /\ pPc = "idle" /\ UNCHANGED <<producerSequence, producerBytes, size>>
        /\ \/ stopping' = TRUE /\ UNCHANGED <<pPc, open, paused>>
           \/ UNCHANGED <<pPc, open, paused, stopping>>
           \/ paused = TRUE /\ pPc' = "arm" /\ UNCHANGED <<open, paused, stopping>>
           \/ BelowResumeWatermark /\ paused' = FALSE /\ UNCHANGED <<pPc, open, stopping>>
    BY <1>11 DEF OnWriterResume, producerVars, controllerVars
  <2>2. QED
    BY <1>4, <1>5, <2>1, Zenon
<1>12. CASE TryAcquire
  BY <1>5, <1>12, Zenon DEF TryAcquire, producerVars
<1>13. CASE OnBackpressureTimeout \/ OnSessionTerminal \/ OnOpen \/ Close
  BY <1>13, Zenon DEF OnBackpressureTimeout, OnSessionTerminal, OnOpen, Close, producerVars
<1>14. QED
  BY <1>6, <1>7, <1>8, <1>9, <1>10, <1>11, <1>12, <1>13, Zenon DEF ProducerStep, Environment

LEMMA PauseFrame ==
  ASSUME WriterInv, BytesInv, PauseInv, BytesInv', UNCHANGED OfProducer,
         mem["released"] <= mem'["released"], mem["bytesReleased"] <= mem'["bytesReleased"],
         WriterInv'
  PROVE  PauseInv'
<1>1. /\ pPc' = pPc /\ open' = open /\ paused' = paused /\ stopping' = stopping /\ size' = size
      /\ producerSequence' = producerSequence /\ producerBytes' = producerBytes
  BY DEF OfProducer, producerVars, controllerVars
<1>2. /\ producerSequence \in Nat /\ producerBytes \in Nat
      /\ mem["released"] \in Nat /\ mem["bytesReleased"] \in Nat
  BY BytesFacts
<1>3. mem'["released"] \in Nat /\ mem'["bytesReleased"] \in Nat
  <2>1. consumerSequence' \in Nat /\ consumerBytes' \in Nat
    BY DEF WriterInv, WriterTypes
  <2>2. mem'["released"] \in 0 .. consumerSequence' /\ mem'["bytesReleased"] \in 0 .. consumerBytes'
    BY Zenon DEF WriterInv, RingInv, BytesInv, ReleasedInv, AllIn
  <2>3. QED
    BY <2>1, <2>2, SMTT(30)
<1>4. Roomy => Roomy'
  BY <1>1, <1>2, <1>3, Watermarks, SMTT(30) DEF Roomy
<1>5. QED
  BY <1>1, <1>4 DEF PauseInv, Reading, ProducerOwnsSlot

LEMMA RoomSuffices ==
  ASSUME WriterInv, BytesInv, PauseInv
  PROVE  RingHasRoom
<1>1. /\ producerSequence \in Nat /\ consumerSequence \in Nat /\ seen \in Nat
      /\ producerBytes \in Nat /\ consumerBytes \in Nat /\ size \in Nat
      /\ consumerSequence <= producerSequence /\ consumerSequence <= seen
      /\ mem["published"] \in seen .. producerSequence
      /\ mem["bytesPublished"] \in 0 .. producerBytes
      /\ mem["bytesReleased"] \in 0 .. consumerBytes
      /\ mem["released"] \in 0 .. consumerSequence
      /\ PLoad("released") = mem["released"]
      /\ PLoad("bytesReleased") = mem["bytesReleased"]
  BY BytesFacts
<1>2. PICK bytesAt \in [Nat -> Nat] : Accounts(bytesAt)
  BY DEF BytesInv
<1>3. producerSequence - consumerSequence <= Slots /\ producerBytes - consumerBytes <= ByteCapacity
  BY ZenonT(30) DEF WriterInv, RingInv, BytesInv
<1>4. consumerBytes <= producerBytes
  <2>1. consumerSequence \in 0 .. producerSequence /\ producerSequence \in 0 .. producerSequence
    BY <1>1
  <2>2. QED
    BY <1>1, <1>2, <2>1, Zenon DEF Accounts
<1>5. /\ consumerSequence <= CLoad("published")
      /\ consumerBytes <= CLoad("bytesPublished")
  <2>1. CLoad("published") = mem["published"] /\ CLoad("bytesPublished") = mem["bytesPublished"]
    <3>1. {"published", "bytesPublished"} \subseteq Atomics \ CAtomics
      BY DEF CAtomics, Atomics, Counters
    <3>2. NoEntry(cBuffer, "published") /\ NoEntry(cBuffer, "bytesPublished")
      BY <3>1, Zenon DEF WriterInv, WriterTypes, MemoryTypes
    <3>3. QED
      BY <3>2, LoadOfOther DEF CLoad
  <2>2. /\ consumerSequence \in 0 .. producerSequence /\ mem["published"] \in 0 .. producerSequence
        /\ consumerSequence <= mem["published"]
    BY <1>1, SMTT(30)
  <2>3. bytesAt[consumerSequence] <= bytesAt[mem["published"]]
    BY <1>2, <2>2, SMTT(30) DEF Accounts
  <2>4. bytesAt[consumerSequence] = consumerBytes /\ bytesAt[mem["published"]] <= mem["bytesPublished"]
    BY <1>2 DEF Accounts, Covers
  <2>5. bytesAt[mem["published"]] \in Nat
    BY <2>2
  <2>6. consumerBytes <= mem["bytesPublished"]
    BY <1>1, <2>3, <2>4, <2>5, SMTT(30)
  <2>7. QED
    BY <2>1, <2>2, <2>6
<1>6. pPc = "idle" /\ open /\ ~ paused /\ ~ stopping => OccupiedSlots < Slots
  <2> SUFFICES ASSUME pPc = "idle" /\ open /\ ~ paused /\ ~ stopping PROVE OccupiedSlots < Slots
    OBVIOUS
  <2>1. Roomy
    BY DEF PauseInv, Reading
  <2>2. QED
    BY <1>1, <2>1, Watermarks, SlotsAssumption DEF Roomy, OccupiedSlots
<1>7. pPc = "checkBytes" /\ (\A s \in Sizes : s + PauseBytes <= ByteCapacity + 1) => BytesFit
  <2> SUFFICES ASSUME pPc = "checkBytes", \A s \in Sizes : s + PauseBytes <= ByteCapacity + 1
               PROVE  BytesFit
    OBVIOUS
  <2>1. Roomy /\ size + PauseBytes <= ByteCapacity + 1
    BY DEF PauseInv, Reading, ProducerOwnsSlot
  <2>2. QED
    BY <1>1, <1>4, <2>1, Watermarks, BytesAssumption, SMTT(30) DEF Roomy, BytesFit, OccupiedBytes
<1>8. PLoad("released") <= producerSequence /\ PLoad("bytesReleased") <= producerBytes
  BY <1>1, <1>4
<1>9. QED
  BY <1>1, <1>3, <1>4, <1>5, <1>6, <1>7, <1>8, SMTT(30) DEF RingHasRoom

(* For any number of slots, any capacity, any sizes and any delay of the   *)
(* stores: slots and bytes in flight stay within their capacities, the     *)
(* unsigned differences of the counters never wrap on either thread, and   *)
(* pausing at three quarters keeps room for the message being read, so     *)
(* that try_acquire and publish never refuse one that fits in the last     *)
(* quarter.                                                                *)
THEOREM RingKeepsRoom == Safety => []RingHasRoom
<1>1. Init => BytesInv /\ PauseInv
  <2> SUFFICES ASSUME Init PROVE BytesInv /\ PauseInv
    OBVIOUS
  <2>1. /\ pBuffer = << >> /\ cBuffer = << >> /\ pPc = "idle" /\ open = FALSE
        /\ paused = FALSE /\ stopping = FALSE
        /\ producerSequence = 0 /\ consumerSequence = 0 /\ producerBytes = 0 /\ consumerBytes = 0
        /\ \A y \in {"published", "released", "bytesPublished", "bytesReleased"} : mem[y] = 0
    BY DEF Init, Atomics, Counters, Flags
  <2>2. PauseInv
    BY <2>1, Zenon DEF PauseInv, Reading, ProducerOwnsSlot
  <2>3. PublishedInv /\ ReleasedInv
    BY <2>1, EmptyBuffer, SMTT(30) DEF PublishedInv, ReleasedInv
  <2>4. Accounts([n \in Nat |-> 0])
    BY <2>1 DEF Accounts, Covers
  <2>5. [n \in Nat |-> 0] \in [Nat -> Nat]
    OBVIOUS
  <2>6. producerBytes - consumerBytes <= ByteCapacity
    BY <2>1, BytesAssumption
  <2>7. QED
    BY <2>2, <2>3, <2>4, <2>5, <2>6 DEF BytesInv
<1>2. ASSUME WriterInv, WriterInv', BytesInv, PauseInv, [Next]_vars
      PROVE  BytesInv' /\ PauseInv'
  <2>1. CASE ProducerStep \/ Environment
    BY <1>2, <2>1, ProducerBytesInv, ProducerPauseInv, SMTT(30)
  <2>2. CASE ConsumerStep \/ WaitTimeout
    BY <1>2, <2>2, ConsumerBytesInv, PauseFrame, SMTT(30)
  <2>3. CASE PDrain
    <3>1. UNCHANGED OfProducer
      BY <2>3 DEF PDrain, OfProducer
    <3>2. /\ BytesInv' /\ mem'["released"] = mem["released"]
          /\ mem'["bytesReleased"] = mem["bytesReleased"]
      BY <1>2, <2>3, PDrainBytesInv, SMTT(30)
    <3>3. mem["released"] <= mem'["released"] /\ mem["bytesReleased"] <= mem'["bytesReleased"]
      BY <1>2, <3>2, BytesFacts
    <3>4. QED
      BY <1>2, <3>1, <3>2, <3>3, PauseFrame, SMTT(30)
  <2>4. CASE CDrain
    BY <1>2, <2>4, CDrainBytesInv, PauseFrame
  <2>5. CASE UNCHANGED vars
    <3>1. UNCHANGED <<memoryVars, slots, OfProducer, OfConsumer>>
      BY <2>5 DEF vars, OfProducer, OfConsumer
    <3>2. /\ mem' = mem /\ pBuffer' = pBuffer /\ cBuffer' = cBuffer /\ slots' = slots /\ pPc' = pPc
          /\ producerSequence' = producerSequence /\ producerBytes' = producerBytes
          /\ size' = size /\ open' = open /\ paused' = paused /\ stopping' = stopping
          /\ consumerSequence' = consumerSequence /\ consumerBytes' = consumerBytes
      BY <3>1 DEF memoryVars, OfProducer, OfConsumer, producerVars, controllerVars, consumerVars
    <3>3. BytesInv'
      BY <1>2, <3>2, ZenonT(30) DEF BytesInv, PublishedInv, ReleasedInv, AllIn, Ascending,
         BytesStored, Accounts, Covers, SlotOf
    <3>4. PauseInv'
      BY <1>2, <3>2 DEF PauseInv, Reading, ProducerOwnsSlot, Roomy
    <3>5. QED
      BY <3>3, <3>4, SMTT(30)
  <2>6. QED
    BY <1>2, <2>1, <2>2, <2>3, <2>4, <2>5 DEF Next, Terminated
<1>3. QED
  BY <1>1, <1>2, RoomSuffices, WriterInvariant, PTL DEF Safety
=============================================================================
