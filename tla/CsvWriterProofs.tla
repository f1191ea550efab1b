-------------------------- MODULE CsvWriterProofs ---------------------------
(***************************************************************************)
(* The ring of CsvWriter, for any number of slots, any capacity, any sizes *)
(* and any delay of the stores: each batch is handed over once, a pause    *)
(* has its notice, and the ring, its two threads and the shutdown          *)
(* implement the queue of RowQueue.                                        *)
(***************************************************************************)
EXTENDS CsvWriter, SetInduction, TLAPS

-----------------------------------------------------------------------------
(* Facts about sequences.                                                  *)

(* The empty sequence.                                                    *)
LEMMA EmptySeq ==
  ASSUME NEW S
  PROVE  /\ << >> \in Seq(S)
         /\ Len(<< >>) = 0
         /\ \A seq \in Seq(S) : seq # << >> => Len(seq) \in Nat \ {0}
OBVIOUS

(* A sequence is a function on 1 .. Len.                                  *)
LEMMA LenProperties ==
  ASSUME NEW S, NEW seq \in Seq(S)
  PROVE  /\ Len(seq) \in Nat
         /\ seq \in [1 .. Len(seq) -> S]
         /\ DOMAIN seq = 1 .. Len(seq)
OBVIOUS

(* What Append keeps and adds.                                            *)
LEMMA AppendProperties ==
  ASSUME NEW S, NEW seq \in Seq(S), NEW elt \in S
  PROVE  /\ Append(seq, elt) \in Seq(S)
         /\ Append(seq, elt) # << >>
         /\ Len(Append(seq, elt)) = Len(seq) + 1
         /\ \A i \in 1 .. Len(seq) : Append(seq, elt)[i] = seq[i]
         /\ Append(seq, elt)[Len(seq) + 1] = elt
OBVIOUS

(* Head and tail.                                                         *)
LEMMA HeadTailProperties ==
  ASSUME NEW S, NEW s \in Seq(S), s # << >>
  PROVE  /\ Head(s) \in S
         /\ Tail(s) \in Seq(S)
         /\ Len(Tail(s)) = Len(s) - 1
         /\ \A i \in 1 .. Len(Tail(s)) : Tail(s)[i] = s[i + 1]
OBVIOUS

(* Two numbers less than Slots apart have different slots.                 *)
LEMMA ModDistinct ==
  ASSUME NEW n \in Nat \ {0}, NEW a \in Nat, NEW b \in Nat, b < a, a - b < n
  PROVE  a % n # b % n
<1> SUFFICES ASSUME a % n = b % n PROVE FALSE
  OBVIOUS
<1> DEFINE p == a \div n
           q == b \div n
<1>1. p \in Int /\ q \in Int
  OBVIOUS
<1>2. a % n = a - n * p /\ b % n = b - n * q
  OBVIOUS
<1> HIDE DEF p, q
<1>3. a - b = n * (p - q)
  BY <1>1, <1>2
<1>4. p - q \in Int /\ (p - q <= 0 \/ p - q >= 1)
  BY <1>1
<1>5. ASSUME NEW k \in Int, k <= 0 PROVE n * k <= 0
  BY <1>5
<1>6. ASSUME NEW k \in Int, k >= 1 PROVE n * k >= n
  BY <1>6
<1> DEFINE k == p - q
           m == n * k
<1>7. m <= 0 \/ m >= n
  BY <1>4, <1>5, <1>6
<1>8. m = a - b
  BY <1>3
<1> HIDE DEF k, m
<1>9. QED
  BY <1>7, <1>8

LEMMA SlotRange ==
  ASSUME NEW a \in Nat
  PROVE  SlotOf(a) \in 0 .. Slots - 1
BY SlotsAssumption DEF SlotOf

LEMMA SlotsDiffer ==
  ASSUME NEW a \in Nat, NEW b \in Nat, b < a, a - b < Slots
  PROVE  SlotOf(a) # SlotOf(b)
BY SlotsAssumption, ModDistinct, Zenon DEF SlotOf

-----------------------------------------------------------------------------
(* What a thread has stored in an atomic x: the value in memory m and the  *)
(* ones on their way in its buffer b.                                      *)

Values == Nat \cup BOOLEAN
Memory == [Atomics -> Values]
Store == [atomic : Atomics, value : Values]

NoEntry(b, x) == \A i \in 1 .. Len(b) : b[i].atomic # x

AllIn(m, b, x, S) ==
  /\ m[x] \in S
  /\ \A i \in 1 .. Len(b) : b[i].atomic = x => b[i].value \in S

Ascending(m, b, x) ==
  /\ \A i \in 1 .. Len(b) : b[i].atomic = x => m[x] <= b[i].value
  /\ \A i, j \in 1 .. Len(b) :
       i < j /\ b[i].atomic = x /\ b[j].atomic = x => b[i].value <= b[j].value

(* The value everyone sees once the buffer is empty.                       *)
Latest(m, b, x, v) ==
  /\ NoEntry(b, x) => m[x] = v
  /\ \A i \in 1 .. Len(b) :
       b[i].atomic = x /\ (\A j \in i + 1 .. Len(b) : b[j].atomic # x) => b[i].value = v

LEMMA EmptyBuffer ==
  ASSUME NEW m, NEW x
  PROVE  /\ NoEntry(<< >>, x)
         /\ Ascending(m, << >>, x)
         /\ Latest(m, << >>, x, m[x])
         /\ \A v : Latest(m, << >>, x, v) => m[x] = v
         /\ \A S : m[x] \in S => AllIn(m, << >>, x, S)
BY DEF NoEntry, Ascending, Latest, AllIn

(* A store enters the buffer.                                              *)
LEMMA AppendView ==
  ASSUME NEW m \in Memory, NEW b \in Seq(Store), NEW e \in Store, NEW y \in Atomics
  PROVE  LET c == Append(b, e)
         IN  /\ c \in Seq(Store)
             /\ NoEntry(b, y) /\ e.atomic # y => NoEntry(c, y)
             /\ \A S : AllIn(m, b, y, S) /\ (e.atomic = y => e.value \in S) => AllIn(m, c, y, S)
             /\ e.atomic = y => Latest(m, c, y, e.value)
             /\ \A v : Latest(m, b, y, v) /\ e.atomic # y => Latest(m, c, y, v)
             /\ Ascending(m, b, y) /\ (e.atomic = y => AllIn(m, b, y, {u \in Nat : u <= e.value}))
                  => Ascending(m, c, y)
<1> DEFINE c == Append(b, e)
           n == Len(b)
<1>1. /\ c \in Seq(Store) /\ n \in Nat /\ Len(c) = n + 1
      /\ \A i \in 1 .. n : c[i] = b[i]
      /\ c[n + 1] = e
  BY AppendProperties, LenProperties
<1>2. \A i \in 1 .. n + 1 : i \in 1 .. n \/ i = n + 1
  BY <1>1
<1> HIDE DEF c
<1>3. NoEntry(b, y) /\ e.atomic # y => NoEntry(c, y)
  BY <1>1, <1>2 DEF NoEntry
<1>4. \A S : AllIn(m, b, y, S) /\ (e.atomic = y => e.value \in S) => AllIn(m, c, y, S)
  BY <1>1, <1>2 DEF AllIn
<1>5. e.atomic = y => Latest(m, c, y, e.value)
  <2> SUFFICES ASSUME e.atomic = y PROVE Latest(m, c, y, e.value)
    OBVIOUS
  <2>1. ~ NoEntry(c, y)
    BY <1>1 DEF NoEntry
  <2>2. ASSUME NEW i \in 1 .. n, \A j \in i + 1 .. n + 1 : c[j].atomic # y PROVE FALSE
    BY <1>1, <2>2
  <2>3. QED
    BY <1>1, <1>2, <2>1, <2>2 DEF Latest
<1>6. ASSUME NEW v, Latest(m, b, y, v), e.atomic # y PROVE Latest(m, c, y, v)
  <2>1. NoEntry(c, y) => NoEntry(b, y)
    BY <1>1 DEF NoEntry
  <2>2. ASSUME NEW i \in 1 .. n + 1, c[i].atomic = y, \A j \in i + 1 .. n + 1 : c[j].atomic # y
        PROVE  c[i].value = v
    <3>1. i \in 1 .. n /\ c[i] = b[i]
      BY <1>1, <1>2, <1>6, <2>2
    <3>2. \A j \in i + 1 .. n : b[j].atomic # y
      BY <1>1, <2>2, <3>1
    <3>3. QED
      BY <1>6, <2>2, <3>1, <3>2 DEF Latest
  <2>3. QED
    BY <1>1, <1>6, <2>1, <2>2 DEF Latest
<1>7. ASSUME Ascending(m, b, y), e.atomic = y => AllIn(m, b, y, {u \in Nat : u <= e.value})
      PROVE  Ascending(m, c, y)
  <2>1. \A i \in 1 .. n + 1 : c[i].atomic = y => m[y] <= c[i].value
    BY <1>1, <1>2, <1>7 DEF Ascending, AllIn
  <2>2. ASSUME NEW i \in 1 .. n + 1, NEW j \in 1 .. n + 1, i < j, c[i].atomic = y, c[j].atomic = y
        PROVE  c[i].value <= c[j].value
    <3>1. i \in 1 .. n /\ c[i] = b[i]
      BY <1>1, <2>2
    <3>2. CASE j = n + 1
      BY <1>1, <1>7, <2>2, <3>1, <3>2 DEF AllIn
    <3>3. CASE j \in 1 .. n
      BY <1>1, <1>7, <2>2, <3>1, <3>3 DEF Ascending
    <3>4. QED
      BY <1>2, <3>2, <3>3
  <2>3. QED
    BY <1>1, <2>1, <2>2 DEF Ascending
<1>8. QED
  BY <1>1, <1>3, <1>4, <1>5, <1>6, <1>7 DEF c

(* The oldest store of the buffer reaches the memory.                      *)
LEMMA DrainView ==
  ASSUME NEW m \in Memory, NEW b \in Seq(Store), b # << >>, NEW y \in Atomics
  PROVE  LET d == [m EXCEPT ![Head(b).atomic] = Head(b).value]
             c == Tail(b)
         IN  /\ c \in Seq(Store) /\ d \in Memory /\ Head(b) \in Store
             /\ NoEntry(b, y) => NoEntry(c, y) /\ d[y] = m[y]
             /\ \A S : AllIn(m, b, y, S) => AllIn(d, c, y, S)
             /\ \A v : Latest(m, b, y, v) => Latest(d, c, y, v)
             /\ Ascending(m, b, y) => Ascending(d, c, y)
<1> DEFINE d == [m EXCEPT ![Head(b).atomic] = Head(b).value]
           c == Tail(b)
           n == Len(b)
<1>1. /\ c \in Seq(Store) /\ n \in Nat /\ n >= 1 /\ Len(c) = n - 1
      /\ \A i \in 1 .. n - 1 : c[i] = b[i + 1]
      /\ Head(b) = b[1] /\ b[1] \in Store
  BY HeadTailProperties, LenProperties, EmptySeq
<1>2. /\ d \in Memory
      /\ d[y] = IF b[1].atomic = y THEN b[1].value ELSE m[y]
  BY <1>1 DEF Memory, Store
<1>3. \A i \in 1 .. n - 1 : i + 1 \in 1 .. n
  BY <1>1
<1> HIDE DEF c, d
<1>4. NoEntry(b, y) => NoEntry(c, y) /\ d[y] = m[y]
  BY <1>1, <1>2, <1>3 DEF NoEntry
<1>5. \A S : AllIn(m, b, y, S) => AllIn(d, c, y, S)
  BY <1>1, <1>2, <1>3 DEF AllIn
<1>6. ASSUME NEW v, Latest(m, b, y, v) PROVE Latest(d, c, y, v)
  <2>1. ASSUME NoEntry(c, y) PROVE d[y] = v
    <3>1. \A i \in 2 .. n : b[i].atomic # y
      <4>1. ASSUME NEW i \in 2 .. n PROVE b[i].atomic # y
        <5>1. PICK k \in 1 .. n - 1 : k + 1 = i
          <6>1. i - 1 \in 1 .. n - 1 /\ (i - 1) + 1 = i
            BY <1>1
          <6>2. QED
            BY <6>1
        <5>2. c[k] = b[i] /\ c[k].atomic # y
          BY <1>1, <2>1, <5>1 DEF NoEntry
        <5>3. QED
          BY <5>2
      <4>2. QED
        BY <4>1
    <3>2. CASE b[1].atomic = y
      <4>1. 1 \in 1 .. n /\ \A j \in 1 + 1 .. n : b[j].atomic # y
        BY <1>1, <3>1
      <4>2. QED
        BY <1>2, <1>6, <3>2, <4>1 DEF Latest
    <3>3. CASE b[1].atomic # y
      <4>1. NoEntry(b, y)
        BY <1>1, <3>1, <3>3 DEF NoEntry
      <4>2. QED
        BY <1>2, <1>6, <3>3, <4>1 DEF Latest
    <3>4. QED
      BY <3>2, <3>3
  <2>2. ASSUME NEW i \in 1 .. n - 1, c[i].atomic = y, \A j \in i + 1 .. n - 1 : c[j].atomic # y
        PROVE  c[i].value = v
    <3>1. \A j \in i + 2 .. n : b[j].atomic # y
      <4>1. ASSUME NEW j \in i + 2 .. n PROVE b[j].atomic # y
        <5>1. PICK k \in i + 1 .. n - 1 : k + 1 = j
          <6>1. j - 1 \in i + 1 .. n - 1 /\ (j - 1) + 1 = j
            BY <1>1
          <6>2. QED
            BY <6>1
        <5>2. k \in 1 .. n - 1
          BY <1>1, <5>1
        <5>3. c[k] = b[j] /\ c[k].atomic # y
          BY <1>1, <2>2, <5>1, <5>2, Zenon
        <5>4. QED
          BY <5>3
      <4>2. QED
        BY <4>1
    <3>2. \A j \in (i + 1) + 1 .. n : b[j].atomic # y
      BY <1>1, <3>1
    <3>3. QED
      BY <1>1, <1>3, <1>6, <2>2, <3>2 DEF Latest
  <2>3. QED
    BY <1>1, <2>1, <2>2 DEF Latest
<1>7. ASSUME Ascending(m, b, y) PROVE Ascending(d, c, y)
  <2>1. ASSUME NEW i \in 1 .. n - 1, c[i].atomic = y PROVE d[y] <= c[i].value
    BY <1>1, <1>2, <1>3, <1>7, <2>1 DEF Ascending
  <2>2. ASSUME NEW i \in 1 .. n - 1, NEW j \in 1 .. n - 1, i < j, c[i].atomic = y, c[j].atomic = y
        PROVE  c[i].value <= c[j].value
    BY <1>1, <1>3, <1>7, <2>2, SMTT(30) DEF Ascending
  <2>3. QED
    BY <1>1, <2>1, <2>2 DEF Ascending
<1>8. QED
  BY <1>1, <1>2, <1>4, <1>5, <1>6, <1>7, Zenon DEF c, d

-----------------------------------------------------------------------------
(* The stores of the two threads.                                          *)

PAtomics == {"publishActive", "rows", "bytesPublished", "published", "armed", "close"}
CAtomics == {"bytesReleased", "released", "failed", "sleeping"}

MemoryTypes ==
  /\ mem \in Memory
  /\ pBuffer \in Seq(Store)
  /\ cBuffer \in Seq(Store)
  /\ \A x \in Atomics \ PAtomics : NoEntry(pBuffer, x)
  /\ \A x \in Atomics \ CAtomics : NoEntry(cBuffer, x)
  /\ StoreBuffer = 0 => pBuffer = << >> /\ cBuffer = << >>

LEMMA AtomicSets ==
  /\ PAtomics \subseteq Atomics /\ CAtomics \subseteq Atomics
  /\ PAtomics \cap CAtomics = {}
BY DEF PAtomics, CAtomics, Atomics, Counters, Flags

LEMMA LoadOfOther ==
  ASSUME NEW b, NEW x, NoEntry(b, x)
  PROVE  Load(b, x) = mem[x]
BY DEF NoEntry, Load

LEMMA PStoreView ==
  ASSUME MemoryTypes, NEW x \in PAtomics, NEW v \in Values, PStore(x, v)
  PROVE  /\ MemoryTypes'
         /\ cBuffer' = cBuffer
         /\ Latest(mem', pBuffer', x, v)
         /\ \A y \in Atomics :
              /\ y # x => mem'[y] = mem[y]
              /\ y # x /\ NoEntry(pBuffer, y) => NoEntry(pBuffer', y)
              /\ \A S : AllIn(mem, pBuffer, y, S) /\ (y = x => v \in S) => AllIn(mem', pBuffer', y, S)
              /\ \A w : Latest(mem, pBuffer, y, w) /\ y # x => Latest(mem', pBuffer', y, w)
              /\ Ascending(mem, pBuffer, y)
                   /\ (y = x => AllIn(mem, pBuffer, y, {u \in Nat : u <= v}))
                 => Ascending(mem', pBuffer', y)
         /\ \A y \in CAtomics : \A S : AllIn(mem, cBuffer, y, S) => AllIn(mem', cBuffer', y, S)
<1> USE AtomicSets
<1>1. CASE StoreBuffer > 0
  <2> DEFINE e == [atomic |-> x, value |-> v]
  <2>1. /\ pBuffer' = Append(pBuffer, e) /\ mem' = mem /\ cBuffer' = cBuffer
        /\ e \in Store /\ e.atomic = x /\ e.value = v
    BY <1>1 DEF PStore, Store
  <2>2. StoreBuffer # 0
    BY <1>1, StoreBufferAssumption
  <2> HIDE DEF e
  <2>3. mem \in Memory /\ pBuffer \in Seq(Store)
    BY DEF MemoryTypes
  <2>4. pBuffer' \in Seq(Store)
    BY <2>1, <2>3, AppendView
  <2>5. Latest(mem', pBuffer', x, v)
    BY <2>1, <2>3, AppendView, Zenon
  <2>6. ASSUME NEW y \in Atomics
        PROVE  /\ NoEntry(pBuffer, y) /\ x # y => NoEntry(pBuffer', y)
               /\ \A S : AllIn(mem, pBuffer, y, S) /\ (y = x => v \in S) => AllIn(mem', pBuffer', y, S)
               /\ \A w : Latest(mem, pBuffer, y, w) /\ y # x => Latest(mem', pBuffer', y, w)
               /\ Ascending(mem, pBuffer, y)
                    /\ (y = x => AllIn(mem, pBuffer, y, {u \in Nat : u <= v}))
                  => Ascending(mem', pBuffer', y)
    BY <2>1, <2>3, AppendView, ZenonT(30)
  <2>7. MemoryTypes'
    BY <2>1, <2>2, <2>4, <2>6, Zenon DEF MemoryTypes
  <2>8. QED
    BY <2>1, <2>5, <2>6, <2>7, Zenon
<1>2. CASE ~ StoreBuffer > 0
  <2>1. /\ pBuffer = << >> /\ cBuffer = << >>
        /\ mem' = [mem EXCEPT ![x] = v] /\ pBuffer' = pBuffer /\ cBuffer' = cBuffer
    BY <1>2, StoreBufferAssumption DEF PStore, MemoryTypes
  <2>2. /\ mem \in Memory /\ mem' \in Memory /\ mem'[x] = v
        /\ \A y \in Atomics : y # x => mem'[y] = mem[y]
    BY <2>1 DEF MemoryTypes, Memory
  <2>3. MemoryTypes'
    BY <2>1, <2>2 DEF MemoryTypes
  <2>4. Latest(mem', pBuffer', x, v)
    BY <2>1, <2>2, EmptyBuffer, Zenon
  <2>5. ASSUME NEW y \in Atomics
        PROVE  /\ \A S : AllIn(mem, pBuffer, y, S) /\ (y = x => v \in S) => AllIn(mem', pBuffer', y, S)
               /\ \A w : Latest(mem, pBuffer, y, w) /\ y # x => Latest(mem', pBuffer', y, w)
               /\ Ascending(mem', pBuffer', y)
    <3>1. ASSUME NEW S, AllIn(mem, pBuffer, y, S), y = x => v \in S PROVE AllIn(mem', pBuffer', y, S)
      <4>1. mem'[y] \in S
        BY <2>2, <3>1 DEF AllIn
      <4>2. QED
        BY <2>1, <4>1, EmptyBuffer, Zenon
    <3>2. ASSUME NEW w, Latest(mem, pBuffer, y, w), y # x PROVE Latest(mem', pBuffer', y, w)
      <4>1. mem[y] = w /\ mem'[y] = w
        BY <2>1, <2>2, <3>2, EmptyBuffer
      <4>2. QED
        BY <2>1, <4>1, EmptyBuffer, Zenon
    <3>3. Ascending(mem', pBuffer', y)
      BY <2>1, EmptyBuffer
    <3>4. QED
      BY <3>1, <3>2, <3>3
  <2>6. ASSUME NEW y \in CAtomics, NEW S, AllIn(mem, cBuffer, y, S) PROVE AllIn(mem', cBuffer', y, S)
    <3>1. mem[y] \in S /\ y # x /\ y \in Atomics
      BY <2>6 DEF AllIn
    <3>2. QED
      BY <2>1, <2>2, <3>1, EmptyBuffer, Zenon
  <2>7. QED
    BY <2>1, <2>2, <2>3, <2>4, <2>5, <2>6, Zenon
<1>3. QED
  BY <1>1, <1>2

LEMMA CStoreView ==
  ASSUME MemoryTypes, NEW x \in CAtomics, NEW v \in Values, CStore(x, v)
  PROVE  /\ MemoryTypes'
         /\ pBuffer' = pBuffer
         /\ \A y \in Atomics :
              /\ y # x => mem'[y] = mem[y]
              /\ y # x /\ NoEntry(cBuffer, y) => NoEntry(cBuffer', y)
              /\ \A S : AllIn(mem, cBuffer, y, S) /\ (y = x => v \in S) => AllIn(mem', cBuffer', y, S)
         /\ \A y \in PAtomics :
              /\ \A S : AllIn(mem, pBuffer, y, S) => AllIn(mem', pBuffer', y, S)
              /\ \A w : Latest(mem, pBuffer, y, w) => Latest(mem', pBuffer', y, w)
              /\ Ascending(mem, pBuffer, y) => Ascending(mem', pBuffer', y)
<1> USE AtomicSets
<1>1. CASE StoreBuffer > 0
  <2> DEFINE e == [atomic |-> x, value |-> v]
  <2>1. /\ cBuffer' = Append(cBuffer, e) /\ mem' = mem /\ pBuffer' = pBuffer
        /\ e \in Store /\ e.atomic = x /\ e.value = v
    BY <1>1 DEF CStore, Store
  <2>2. StoreBuffer # 0
    BY <1>1, StoreBufferAssumption
  <2> HIDE DEF e
  <2>3. mem \in Memory /\ cBuffer \in Seq(Store)
    BY DEF MemoryTypes
  <2>4. cBuffer' \in Seq(Store)
    BY <2>1, <2>3, AppendView
  <2>5. ASSUME NEW y \in Atomics
        PROVE  /\ NoEntry(cBuffer, y) /\ x # y => NoEntry(cBuffer', y)
               /\ \A S : AllIn(mem, cBuffer, y, S) /\ (y = x => v \in S) => AllIn(mem', cBuffer', y, S)
    BY <2>1, <2>3, AppendView, Zenon
  <2>6. MemoryTypes'
    BY <2>1, <2>2, <2>4, <2>5 DEF MemoryTypes
  <2>7. QED
    BY <2>1, <2>5, <2>6
<1>2. CASE ~ StoreBuffer > 0
  <2>1. /\ pBuffer = << >> /\ cBuffer = << >>
        /\ mem' = [mem EXCEPT ![x] = v] /\ pBuffer' = pBuffer /\ cBuffer' = cBuffer
    BY <1>2, StoreBufferAssumption DEF CStore, MemoryTypes
  <2>2. /\ mem \in Memory /\ mem' \in Memory /\ mem'[x] = v
        /\ \A y \in Atomics : y # x => mem'[y] = mem[y]
    BY <2>1 DEF MemoryTypes, Memory
  <2>3. MemoryTypes'
    BY <2>1, <2>2 DEF MemoryTypes
  <2>4. ASSUME NEW y \in Atomics, NEW S, AllIn(mem, cBuffer, y, S), y = x => v \in S
        PROVE  AllIn(mem', cBuffer', y, S)
    <3>1. mem[y] \in S
      BY <2>4 DEF AllIn
    <3>2. QED
      BY <2>1, <2>2, <2>4, <3>1, EmptyBuffer, Zenon
  <2>5. ASSUME NEW y \in PAtomics
        PROVE  /\ \A S : AllIn(mem, pBuffer, y, S) => AllIn(mem', pBuffer', y, S)
               /\ \A w : Latest(mem, pBuffer, y, w) => Latest(mem', pBuffer', y, w)
               /\ Ascending(mem, pBuffer, y) => Ascending(mem', pBuffer', y)
    <3>1. y # x /\ mem'[y] = mem[y]
      BY <2>2
    <3>2. QED
      BY <2>1, <3>1 DEF AllIn, Latest, Ascending
  <2>6. QED
    BY <2>1, <2>2, <2>3, <2>4, <2>5, Zenon
<1>3. QED
  BY <1>1, <1>2

(* A store becomes visible, or one thread exchanges a flag.                *)
LEMMA PDrainView ==
  ASSUME MemoryTypes, PDrain
  PROVE  /\ MemoryTypes'
         /\ cBuffer' = cBuffer
         /\ \A y \in Atomics :
              /\ NoEntry(pBuffer, y) => mem'[y] = mem[y]
              /\ \A S : AllIn(mem, pBuffer, y, S) => AllIn(mem', pBuffer', y, S)
              /\ \A w : Latest(mem, pBuffer, y, w) => Latest(mem', pBuffer', y, w)
              /\ Ascending(mem, pBuffer, y) => Ascending(mem', pBuffer', y)
         /\ \A y \in CAtomics : \A S : AllIn(mem, cBuffer, y, S) => AllIn(mem', cBuffer', y, S)
<1> USE AtomicSets
<1>1. /\ pBuffer # << >>
      /\ mem' = [mem EXCEPT ![Head(pBuffer).atomic] = Head(pBuffer).value]
      /\ pBuffer' = Tail(pBuffer) /\ cBuffer' = cBuffer
  BY DEF PDrain
<1>2. mem \in Memory /\ pBuffer \in Seq(Store)
  BY DEF MemoryTypes
<1>3. ASSUME NEW y \in Atomics
      PROVE  /\ pBuffer' \in Seq(Store) /\ mem' \in Memory
             /\ NoEntry(pBuffer, y) => NoEntry(pBuffer', y) /\ mem'[y] = mem[y]
             /\ \A S : AllIn(mem, pBuffer, y, S) => AllIn(mem', pBuffer', y, S)
             /\ \A w : Latest(mem, pBuffer, y, w) => Latest(mem', pBuffer', y, w)
             /\ Ascending(mem, pBuffer, y) => Ascending(mem', pBuffer', y)
  BY <1>1, <1>2, DrainView, Zenon
<1>4. "rows" \in Atomics
  BY DEF Atomics, Counters
<1>5. MemoryTypes'
  BY <1>1, <1>3, <1>4, Zenon DEF MemoryTypes
<1>6. ASSUME NEW y \in CAtomics, NEW S, AllIn(mem, cBuffer, y, S) PROVE AllIn(mem', cBuffer', y, S)
  <2>1. y \in Atomics \ PAtomics /\ NoEntry(pBuffer, y)
    BY DEF MemoryTypes
  <2>2. mem'[y] = mem[y]
    BY <1>3, <2>1
  <2>3. QED
    BY <1>1, <1>6, <2>2 DEF AllIn
<1>7. QED
  BY <1>1, <1>3, <1>5, <1>6, Zenon

LEMMA CDrainView ==
  ASSUME MemoryTypes, CDrain
  PROVE  /\ MemoryTypes'
         /\ pBuffer' = pBuffer
         /\ \A y \in Atomics :
              /\ NoEntry(cBuffer, y) => NoEntry(cBuffer', y) /\ mem'[y] = mem[y]
              /\ \A S : AllIn(mem, cBuffer, y, S) => AllIn(mem', cBuffer', y, S)
         /\ \A y \in PAtomics :
              /\ mem'[y] = mem[y]
              /\ \A S : AllIn(mem, pBuffer, y, S) => AllIn(mem', pBuffer', y, S)
              /\ \A w : Latest(mem, pBuffer, y, w) => Latest(mem', pBuffer', y, w)
              /\ Ascending(mem, pBuffer, y) => Ascending(mem', pBuffer', y)
<1> USE AtomicSets
<1>1. /\ cBuffer # << >>
      /\ mem' = [mem EXCEPT ![Head(cBuffer).atomic] = Head(cBuffer).value]
      /\ cBuffer' = Tail(cBuffer) /\ pBuffer' = pBuffer
  BY DEF CDrain
<1>2. mem \in Memory /\ cBuffer \in Seq(Store)
  BY DEF MemoryTypes
<1>3. ASSUME NEW y \in Atomics
      PROVE  /\ cBuffer' \in Seq(Store) /\ mem' \in Memory
             /\ NoEntry(cBuffer, y) => NoEntry(cBuffer', y) /\ mem'[y] = mem[y]
             /\ \A S : AllIn(mem, cBuffer, y, S) => AllIn(mem', cBuffer', y, S)
  BY <1>1, <1>2, DrainView, Zenon
<1>4. "rows" \in Atomics
  BY DEF Atomics, Counters
<1>5. MemoryTypes'
  BY <1>1, <1>3, <1>4, Zenon DEF MemoryTypes
<1>6. ASSUME NEW y \in PAtomics
      PROVE  /\ mem'[y] = mem[y]
             /\ \A S : AllIn(mem, pBuffer, y, S) => AllIn(mem', pBuffer', y, S)
             /\ \A w : Latest(mem, pBuffer, y, w) => Latest(mem', pBuffer', y, w)
             /\ Ascending(mem, pBuffer, y) => Ascending(mem', pBuffer', y)
  <2>1. y \in Atomics \ CAtomics /\ NoEntry(cBuffer, y)
    BY DEF MemoryTypes
  <2>2. mem'[y] = mem[y]
    BY <1>3, <2>1
  <2>3. QED
    BY <1>1, <2>2 DEF AllIn, Latest, Ascending
<1>7. QED
  BY <1>1, <1>3, <1>5, <1>6, Zenon

LEMMA ExchangeView ==
  ASSUME MemoryTypes, NEW b, NEW x \in {"armed", "failureSent"}, NEW v \in BOOLEAN, Exchange(b, x, v)
  PROVE  /\ MemoryTypes'
         /\ pBuffer' = pBuffer /\ cBuffer' = cBuffer
         /\ \A y \in Atomics : y # x =>
              /\ mem'[y] = mem[y]
              /\ \A c, S : AllIn(mem, c, y, S) => AllIn(mem', c, y, S)
              /\ \A c, w : Latest(mem, c, y, w) => Latest(mem', c, y, w)
              /\ \A c : Ascending(mem, c, y) => Ascending(mem', c, y)
<1>1. mem' = [mem EXCEPT ![x] = v] /\ pBuffer' = pBuffer /\ cBuffer' = cBuffer
  BY DEF Exchange
<1>2. mem \in Memory /\ x \in Atomics /\ v \in Values
  BY DEF MemoryTypes, Atomics, Flags, Values
<1>3. mem' \in Memory /\ \A y \in Atomics : y # x => mem'[y] = mem[y]
  BY <1>1, <1>2 DEF Memory
<1>4. MemoryTypes'
  BY <1>1, <1>3 DEF MemoryTypes
<1>5. QED
  BY <1>1, <1>3, <1>4 DEF AllIn, Latest, Ascending

-----------------------------------------------------------------------------
(* The inductive invariant.                                                *)

Errors == {"none", "write", "flush", "close"}
PPcs == {"idle", "filling", "checkFailed", "checkBytes", "storeBytes", "storePublished",
         "storeInactive", "wakeCheck", "wakeLock", "pauseCheck", "arm", "armCheck", "armClaim",
         "closeLock", "join", "joined"}
CPcs == {"load", "drain", "release", "storeReleased", "notify", "claim", "discardLoad",
         "discard", "latch", "notifyFailure", "awaitPublish", "flush", "closeCheck", "lock",
         "sleep", "predicate", "park", "waiting", "awake", "unlock", "closeAll", "metrics", "done"}
Publishing == {"storeBytes", "storePublished"}
Closing == {"closeLock", "join", "joined"}
Finishing == {"closeAll", "metrics", "done"}

WriterTypes ==
  /\ MemoryTypes
  /\ pPc \in PPcs
  /\ cPc \in CPcs
  /\ producerSequence \in Nat /\ producerBytes \in Nat /\ size \in Nat
  /\ seen \in Nat /\ consumerSequence \in Nat /\ consumerBytes \in Nat
  /\ pending \in Errors /\ outputError \in Errors
  /\ accepted \in Seq(Nat)
  /\ slots \in [0 .. Slots - 1 -> [number : Nat, size : Nat]]

(* The slots from consumerSequence to producerSequence are in use, and     *)
(* what is published or on its way, and what is released, lies between.    *)
RingInv ==
  /\ AllIn(mem, pBuffer, "published", seen .. producerSequence)
  /\ Ascending(mem, pBuffer, "published")
  /\ AllIn(mem, cBuffer, "released", 0 .. consumerSequence)
  /\ consumerSequence <= seen
  /\ producerSequence - consumerSequence <= Slots
  /\ ProducerOwnsSlot => producerSequence - consumerSequence < Slots
  /\ \A i \in consumerSequence .. producerSequence - 1 : slots[SlotOf(i)].number = i + 1
  /\ cPc = "release" => consumerSequence < seen

(* close is the last store of the producer, so whoever sees it sees all.   *)
CloseLast(b) == \A i \in 1 .. Len(b) : b[i].atomic = "close" => i = Len(b)

CloseInv ==
  /\ Latest(mem, pBuffer, "rows", producerSequence)
  /\ Latest(mem, pBuffer, "published",
            IF pPc \in Publishing THEN producerSequence - 1 ELSE producerSequence)
  /\ pPc \notin Closing => NoEntry(pBuffer, "close") /\ mem["close"] = FALSE
  /\ CloseLast(pBuffer)
  /\ mem["close"] # FALSE => pBuffer = << >>

(* Without an error every batch released was accepted, and the consumer    *)
(* ends only when it has seen close and everything before it.              *)
OutcomeInv ==
  /\ outputError = "none" => NoEntry(cBuffer, "failed") /\ mem["failed"] = FALSE
  /\ cPc \in {"notifyFailure", "awaitPublish", "discardLoad", "discard"} => outputError # "none"
  /\ cPc \in {"latch", "notifyFailure", "awaitPublish"} => pending # "none"
  /\ outputError = "none" /\ cPc \notin {"release", "storeReleased", "notify", "claim", "latch"}
       => pending = "none"
  /\ outputError = "none" /\ pending = "none" =>
       Len(accepted) = IF cPc = "release" THEN consumerSequence + 1 ELSE consumerSequence
  /\ outputError = "none" /\ cPc \in Finishing =>
       mem["close"] # FALSE /\ consumerSequence = producerSequence
  /\ outputError = "none" /\ cPc = "done" => unwritten = 0
  /\ pPc = "joined" => cPc = "done"

WriterInv == WriterTypes /\ RingInv /\ CloseInv /\ OutcomeInv

LEMMA WriterInvSuffices == WriterInv => BatchesHandedOverOnce
<1> SUFFICES ASSUME WriterInv PROVE BatchesHandedOverOnce
  OBVIOUS
<1> USE DEF WriterInv
<1>1. /\ producerSequence \in Nat /\ consumerSequence \in Nat /\ seen \in Nat
      /\ consumerSequence <= seen /\ seen <= producerSequence
  <2>1. mem["published"] \in seen .. producerSequence
    BY DEF RingInv, AllIn
  <2>2. QED
    BY <2>1 DEF WriterTypes, RingInv
<1>2. ConsumerReadsSlot => consumerSequence < producerSequence
  BY <1>1 DEF RingInv, ConsumerReadsSlot
<1>3. ASSUME ProducerOwnsSlot, ConsumerReadsSlot
      PROVE  SlotOf(producerSequence) # SlotOf(consumerSequence)
  BY <1>1, <1>2, <1>3, SlotsDiffer DEF RingInv
<1>4. ConsumerReadsSlot => slots[SlotOf(consumerSequence)].number = consumerSequence + 1
  BY <1>1, <1>2 DEF RingInv
<1>5. pPc = "joined" /\ outputError = "none" => Len(accepted) = producerSequence /\ unwritten = 0
  BY DEF OutcomeInv, Finishing
<1>6. QED
  BY <1>3, <1>4, <1>5 DEF BatchesHandedOverOnce

LEMMA WriterInitInv == Init => WriterInv
<1> SUFFICES ASSUME Init PROVE WriterInv
  OBVIOUS
<1>1. /\ mem \in Memory /\ pBuffer = << >> /\ cBuffer = << >>
      /\ mem["published"] = 0 /\ mem["released"] = 0 /\ mem["rows"] = 0
      /\ mem["close"] = FALSE /\ mem["failed"] = FALSE
  BY DEF Init, Memory, Values, Atomics, Counters, Flags
<1>2. MemoryTypes
  BY <1>1, EmptySeq, EmptyBuffer, Zenon DEF MemoryTypes
<1>3. WriterTypes
  BY <1>2, EmptySeq DEF Init, WriterTypes, NoBatch, Errors, PPcs, CPcs
<1>4. RingInv
  <2>1. /\ AllIn(mem, pBuffer, "published", 0 .. 0)
        /\ Ascending(mem, pBuffer, "published")
        /\ AllIn(mem, cBuffer, "released", 0 .. 0)
    BY <1>1 DEF AllIn, Ascending
  <2>2. QED
    BY <2>1, SlotsAssumption DEF Init, RingInv, ProducerOwnsSlot
<1>5. CloseInv
  <2>1. Latest(mem, pBuffer, "rows", 0) /\ Latest(mem, pBuffer, "published", 0)
    BY <1>1 DEF Latest
  <2>2. QED
    BY <1>1, <2>1, EmptyBuffer DEF Init, CloseInv, CloseLast, Publishing, Closing
<1>6. OutcomeInv
  BY <1>1, EmptyBuffer DEF Init, OutcomeInv, Finishing
<1>7. QED
  BY <1>3, <1>4, <1>5, <1>6 DEF WriterInv

-----------------------------------------------------------------------------
(* Steps of the producer.                                                  *)

(* What the consumer's half of the invariant asks of a producer step.      *)
LEMMA ProducerFrame ==
  ASSUME WriterInv, WriterTypes', CloseInv', UNCHANGED OfConsumer, cBuffer' = cBuffer,
         \A y \in CAtomics : mem'[y] = mem[y],
         AllIn(mem', pBuffer', "published", seen .. producerSequence'),
         Ascending(mem', pBuffer', "published"),
         producerSequence' - consumerSequence <= Slots,
         ProducerOwnsSlot' => producerSequence' - consumerSequence < Slots,
         \A i \in consumerSequence .. producerSequence' - 1 : slots'[SlotOf(i)].number = i + 1,
         mem["close"] # FALSE => mem'["close"] # FALSE /\ producerSequence' = producerSequence,
         pPc' = "joined" => cPc = "done"
  PROVE  WriterInv'
<1>1. /\ cPc' = cPc /\ seen' = seen /\ consumerSequence' = consumerSequence
      /\ pending' = pending /\ accepted' = accepted /\ outputError' = outputError
      /\ unwritten' = unwritten
  BY DEF OfConsumer, consumerVars, resultVars
<1>2. mem'["released"] = mem["released"] /\ mem'["failed"] = mem["failed"]
  BY DEF CAtomics
<1>3. AllIn(mem', cBuffer', "released", 0 .. consumerSequence)
  BY <1>2 DEF WriterInv, RingInv, AllIn
<1>4. RingInv'
  <2>1. \A i : SlotOf(i)' = SlotOf(i)
    BY DEF SlotOf
  <2>2. \A i \in consumerSequence' .. producerSequence' - 1 : slots'[SlotOf(i)].number = i + 1
    BY <1>1
  <2>3. QED
    BY <1>1, <1>3, <2>2 DEF WriterInv, RingInv, SlotOf
<1>5. OutcomeInv'
  BY <1>1, <1>2, Zenon DEF WriterInv, OutcomeInv
<1>6. QED
  BY <1>4, <1>5 DEF WriterInv

(* A step that moves the producer and stores nothing.                      *)
LEMMA QuietProducer ==
  ASSUME WriterInv, UNCHANGED <<memoryVars, slots, producerSequence, producerBytes, OfConsumer>>,
         size' \in Nat, pPc' \in PPcs, ProducerOwnsSlot' => ProducerOwnsSlot,
         pPc' \in Publishing <=> pPc \in Publishing,
         pPc' \in Closing <=> pPc \in Closing,
         pPc' = "joined" => cPc = "done"
  PROVE  WriterInv'
<1>1. /\ mem' = mem /\ pBuffer' = pBuffer /\ cBuffer' = cBuffer /\ slots' = slots
      /\ producerSequence' = producerSequence /\ producerBytes' = producerBytes
  BY DEF memoryVars
<1>2. UNCHANGED OfConsumer
  OBVIOUS
<1>3. /\ cPc' = cPc /\ seen' = seen /\ consumerSequence' = consumerSequence
      /\ consumerBytes' = consumerBytes
      /\ pending' = pending /\ accepted' = accepted /\ outputError' = outputError
  BY <1>2 DEF OfConsumer, consumerVars, resultVars
<1>4. MemoryTypes'
  BY <1>1 DEF WriterInv, WriterTypes, MemoryTypes
<1>5. WriterTypes'
  BY <1>1, <1>3, <1>4 DEF WriterInv, WriterTypes
<1>6. CloseInv'
  BY <1>1, Zenon DEF WriterInv, CloseInv, CloseLast
<1>7. QED
  BY <1>1, <1>2, <1>5, <1>6, ProducerFrame, Zenon DEF WriterInv, RingInv

(* A store of an atomic that the invariant says nothing of.                *)
LEMMA HarmlessStore ==
  ASSUME WriterInv, NEW x \in {"publishActive", "bytesPublished", "armed"}, NEW v \in Values,
         PStore(x, v), UNCHANGED <<slots, producerSequence, producerBytes, OfConsumer>>,
         size' \in Nat, pPc' \in PPcs, ProducerOwnsSlot' => ProducerOwnsSlot,
         pPc' \in Publishing <=> pPc \in Publishing,
         pPc \notin Closing, pPc' \notin Closing
  PROVE  WriterInv'
<1>1. /\ slots' = slots
      /\ producerSequence' = producerSequence /\ producerBytes' = producerBytes
  OBVIOUS
<1>2. UNCHANGED OfConsumer
  OBVIOUS
<1>3. /\ cPc' = cPc /\ seen' = seen /\ consumerSequence' = consumerSequence
      /\ consumerBytes' = consumerBytes
      /\ pending' = pending /\ accepted' = accepted /\ outputError' = outputError
  BY <1>2 DEF OfConsumer, consumerVars, resultVars
<1>4. /\ x \in PAtomics /\ MemoryTypes
      /\ {"published", "rows", "close"} \subseteq Atomics
      /\ x \notin {"published", "rows", "close"} /\ x \notin CAtomics
      /\ CAtomics \subseteq Atomics
  BY DEF PAtomics, CAtomics, Atomics, Counters, Flags, WriterInv, WriterTypes
<1>5. /\ MemoryTypes' /\ cBuffer' = cBuffer
      /\ \A y \in Atomics : y # x =>
           /\ mem'[y] = mem[y]
           /\ NoEntry(pBuffer, y) => NoEntry(pBuffer', y)
           /\ \A S : AllIn(mem, pBuffer, y, S) => AllIn(mem', pBuffer', y, S)
           /\ \A w : Latest(mem, pBuffer, y, w) => Latest(mem', pBuffer', y, w)
           /\ Ascending(mem, pBuffer, y) => Ascending(mem', pBuffer', y)
  BY <1>4, PStoreView, Zenon
<1>6. WriterTypes'
  BY <1>1, <1>3, <1>5 DEF WriterInv, WriterTypes
<1>7. /\ AllIn(mem', pBuffer', "published", seen .. producerSequence)
      /\ Ascending(mem', pBuffer', "published")
  <2>1. /\ AllIn(mem, pBuffer, "published", seen .. producerSequence)
        /\ Ascending(mem, pBuffer, "published")
        /\ "published" \in Atomics /\ "published" # x
    BY <1>4, Zenon DEF WriterInv, RingInv
  <2>2. QED
    BY <1>5, <2>1, Zenon
<1>8. CloseInv'
  <2>1. /\ NoEntry(pBuffer', "close") /\ mem'["close"] = FALSE
    BY <1>4, <1>5 DEF WriterInv, CloseInv
  <2>2. CloseLast(pBuffer')
    BY <2>1 DEF NoEntry, CloseLast
  <2>3. Latest(mem', pBuffer', "rows", producerSequence)
    BY <1>4, <1>5 DEF WriterInv, CloseInv
  <2>4. Latest(mem', pBuffer', "published",
               IF pPc' \in Publishing THEN producerSequence - 1 ELSE producerSequence)
    BY <1>4, <1>5 DEF WriterInv, CloseInv
  <2>5. QED
    BY <1>1, <2>1, <2>2, <2>3, <2>4, Zenon DEF CloseInv
<1>9. \A y \in CAtomics : mem'[y] = mem[y]
  BY <1>4, <1>5
<1>10. pPc' # "joined" /\ mem["close"] = FALSE
  BY DEF Closing, WriterInv, CloseInv
<1>11. QED
  BY <1>1, <1>2, <1>5, <1>6, <1>7, <1>8, <1>9, <1>10, ProducerFrame, Zenon DEF WriterInv, RingInv

LEMMA AllInMonotone ==
  ASSUME NEW m, NEW b, NEW x, NEW S, NEW T, AllIn(m, b, x, S), S \subseteq T
  PROVE  AllIn(m, b, x, T)
BY DEF AllIn

LEMMA ProducerLoads ==
  ASSUME WriterInv
  PROVE  /\ PLoad("released") \in 0 .. consumerSequence
         /\ PLoad("failed") = mem["failed"]
<1>1. NoEntry(pBuffer, "released") /\ NoEntry(pBuffer, "failed")
  BY DEF WriterInv, WriterTypes, MemoryTypes, PAtomics, Atomics, Counters, Flags
<1>2. PLoad("released") = mem["released"] /\ PLoad("failed") = mem["failed"]
  BY <1>1, LoadOfOther DEF PLoad
<1>3. mem["released"] \in 0 .. consumerSequence
  BY DEF WriterInv, RingInv, AllIn
<1>4. QED
  BY <1>2, <1>3

LEMMA TryAcquireInv ==
  ASSUME WriterInv, TryAcquire
  PROVE  WriterInv'
<1>1. CASE UNCHANGED <<pPc, slots>>
  BY <1>1, QuietProducer
  DEF TryAcquire, OfConsumer, producerVars, ProducerOwnsSlot, WriterInv, WriterTypes, Closing
<1>2. CASE /\ OccupiedSlots < Slots
           /\ pPc' = "filling"
           /\ slots' = [slots EXCEPT ![SlotOf(producerSequence)] = NoBatch]
  <2>1. /\ UNCHANGED <<memoryVars, producerVars, OfConsumer>> /\ pPc = "idle"
    BY DEF TryAcquire
  <2>2. /\ mem' = mem /\ pBuffer' = pBuffer /\ cBuffer' = cBuffer
        /\ producerSequence' = producerSequence /\ producerBytes' = producerBytes
        /\ size' = size
    BY <2>1 DEF memoryVars, producerVars
  <2>3. /\ cPc' = cPc /\ seen' = seen /\ consumerSequence' = consumerSequence
        /\ consumerBytes' = consumerBytes
        /\ pending' = pending /\ accepted' = accepted /\ outputError' = outputError
    BY <2>1 DEF OfConsumer, consumerVars, resultVars
  <2>4. producerSequence \in Nat /\ consumerSequence \in Nat
    BY DEF WriterInv, WriterTypes
  <2>5. producerSequence - consumerSequence < Slots
    BY <1>2, <2>4, ProducerLoads, SlotsAssumption DEF OccupiedSlots
  <2>6. slots' \in [0 .. Slots - 1 -> [number : Nat, size : Nat]]
    BY <1>2, Zenon DEF WriterInv, WriterTypes, NoBatch
  <2>7. \A i \in consumerSequence .. producerSequence - 1 : slots'[SlotOf(i)].number = i + 1
    <3> SUFFICES ASSUME NEW i \in consumerSequence .. producerSequence - 1
                 PROVE  slots'[SlotOf(i)].number = i + 1
      OBVIOUS
    <3>1. SlotOf(i) # SlotOf(producerSequence) /\ SlotOf(i) \in 0 .. Slots - 1
      BY <2>4, <2>5, SlotsDiffer, SlotRange, SlotsAssumption
    <3>2. slots'[SlotOf(i)] = slots[SlotOf(i)]
      BY <1>2, <3>1 DEF WriterInv, WriterTypes
    <3>3. QED
      BY <3>2 DEF WriterInv, RingInv
  <2>8. MemoryTypes'
    BY <2>2 DEF WriterInv, WriterTypes, MemoryTypes
  <2>9. WriterTypes'
    BY <1>2, <2>2, <2>3, <2>6, <2>8 DEF WriterInv, WriterTypes, PPcs
  <2>10. CloseInv'
    BY <1>2, <2>1, <2>2, Zenon DEF WriterInv, CloseInv, CloseLast, Publishing, Closing
  <2>11. QED
    BY <1>2, <2>1, <2>2, <2>5, <2>7, <2>9, <2>10, ProducerFrame, Zenon DEF WriterInv, RingInv
<1>3. OccupiedSlots \in Int
  BY ProducerLoads DEF OccupiedSlots, WriterInv, WriterTypes
<1>4. QED
  BY <1>1, <1>2, <1>3, SlotsAssumption, SMTT(30) DEF TryAcquire

LEMMA ArmClaimInv ==
  ASSUME WriterInv, ArmClaim
  PROVE  WriterInv'
<1>1. /\ Exchange(pBuffer, "armed", FALSE)
      /\ UNCHANGED <<slots, producerVars, OfConsumer>>
      /\ pPc = "armClaim" /\ pPc' = "idle"
  BY Zenon DEF ArmClaim, PGoto
<1>2. /\ MemoryTypes' /\ pBuffer' = pBuffer /\ cBuffer' = cBuffer
      /\ \A y \in Atomics : y # "armed" => mem'[y] = mem[y]
  BY <1>1, ExchangeView, Zenon DEF WriterInv, WriterTypes
<1>3. /\ mem'["published"] = mem["published"] /\ mem'["rows"] = mem["rows"]
      /\ mem'["close"] = mem["close"]
      /\ \A y \in CAtomics : mem'[y] = mem[y]
  BY <1>2 DEF CAtomics, Atomics, Counters, Flags
<1>4. /\ slots' = slots /\ size' = size
      /\ producerSequence' = producerSequence /\ producerBytes' = producerBytes
  BY <1>1 DEF producerVars
<1>5. /\ cPc' = cPc /\ seen' = seen /\ consumerSequence' = consumerSequence
      /\ consumerBytes' = consumerBytes
      /\ pending' = pending /\ accepted' = accepted /\ outputError' = outputError
  BY <1>1, SMTT(30) DEF OfConsumer, consumerVars, resultVars
<1>6. WriterTypes'
  BY <1>1, <1>2, <1>4, <1>5 DEF WriterInv, WriterTypes, PPcs
<1>7. CloseInv'
  BY <1>1, <1>2, <1>3, <1>4, Zenon DEF WriterInv, CloseInv, CloseLast, Latest, Publishing, Closing
<1>8. /\ AllIn(mem', pBuffer', "published", seen .. producerSequence)
      /\ Ascending(mem', pBuffer', "published")
  BY <1>2, <1>3, Zenon DEF WriterInv, RingInv, AllIn, Ascending
<1>9. ~ ProducerOwnsSlot' /\ pPc' # "joined"
  BY <1>1 DEF ProducerOwnsSlot
<1>10. QED
  BY <1>1, <1>2, <1>3, <1>4, <1>6, <1>7, <1>8, <1>9, ProducerFrame, Zenon DEF WriterInv, RingInv

LEMMA PublishStageInv ==
  ASSUME WriterInv, PublishStage
  PROVE  WriterInv'
<1> DEFINE P == producerSequence
<1>1. /\ pPc = "checkBytes" /\ pPc' = "storeBytes" /\ P' = P + 1 /\ size' = size
      /\ producerBytes' = producerBytes + size /\ PStore("rows", P + 1)
      /\ slots' = [slots EXCEPT ![SlotOf(P)] = [number |-> P + 1, size |-> size]]
      /\ UNCHANGED OfConsumer
  BY DEF PublishStage, PGoto
<1>2. /\ cPc' = cPc /\ seen' = seen /\ consumerSequence' = consumerSequence
      /\ consumerBytes' = consumerBytes
      /\ pending' = pending /\ accepted' = accepted /\ outputError' = outputError
  BY <1>1 DEF OfConsumer, consumerVars, resultVars
<1>3. /\ P \in Nat /\ P + 1 \in Nat /\ P + 1 \in Values /\ consumerSequence \in Nat
      /\ seen \in Nat /\ size \in Nat
      /\ "rows" \in PAtomics /\ MemoryTypes
      /\ "published" \in Atomics /\ "close" \in Atomics
      /\ CAtomics \subseteq Atomics /\ "rows" \notin CAtomics
  BY DEF PAtomics, CAtomics, Atomics, Counters, Flags, WriterInv, WriterTypes, Values
<1>4. /\ MemoryTypes' /\ cBuffer' = cBuffer
      /\ Latest(mem', pBuffer', "rows", P + 1)
      /\ \A y \in Atomics : y # "rows" =>
           /\ mem'[y] = mem[y]
           /\ NoEntry(pBuffer, y) => NoEntry(pBuffer', y)
           /\ \A S : AllIn(mem, pBuffer, y, S) => AllIn(mem', pBuffer', y, S)
           /\ \A w : Latest(mem, pBuffer, y, w) => Latest(mem', pBuffer', y, w)
           /\ Ascending(mem, pBuffer, y) => Ascending(mem', pBuffer', y)
  BY <1>1, <1>3, PStoreView, Zenon
<1>5. P - consumerSequence < Slots
  BY <1>1 DEF WriterInv, RingInv, ProducerOwnsSlot
<1>6. slots' \in [0 .. Slots - 1 -> [number : Nat, size : Nat]]
  BY <1>1, <1>3, Zenon DEF WriterInv, WriterTypes
<1>7. \A i \in consumerSequence .. P : slots'[SlotOf(i)].number = i + 1
  <2> SUFFICES ASSUME NEW i \in consumerSequence .. P
               PROVE  slots'[SlotOf(i)].number = i + 1
    OBVIOUS
  <2>1. SlotOf(P) \in 0 .. Slots - 1 /\ SlotOf(i) \in 0 .. Slots - 1
    BY <1>3, SlotRange
  <2>2. CASE i = P
    BY <1>1, <2>1, <2>2 DEF WriterInv, WriterTypes
  <2>3. CASE i # P
    <3>1. SlotOf(i) # SlotOf(P)
      BY <1>3, <1>5, <2>3, SlotsDiffer, SlotsAssumption, SMTT(30)
    <3>2. slots'[SlotOf(i)] = slots[SlotOf(i)]
      BY <1>1, <2>1, <3>1 DEF WriterInv, WriterTypes
    <3>3. i \in consumerSequence .. P - 1
      BY <1>3, <2>3, SMTT(30)
    <3>4. QED
      BY <3>2, <3>3 DEF WriterInv, RingInv
  <2>4. QED
    BY <2>2, <2>3
<1>8. WriterTypes'
  <2>1. producerBytes' \in Nat
    BY <1>1, <1>3 DEF WriterInv, WriterTypes
  <2>2. QED
    BY <1>1, <1>2, <1>3, <1>4, <1>6, <2>1 DEF WriterInv, WriterTypes, PPcs
<1>9. AllIn(mem', pBuffer', "published", seen .. P + 1) /\ Ascending(mem', pBuffer', "published")
  <2>1. AllIn(mem', pBuffer', "published", seen .. P) /\ Ascending(mem', pBuffer', "published")
    BY <1>3, <1>4 DEF WriterInv, RingInv
  <2>2. seen .. P \subseteq seen .. P + 1
    BY <1>3
  <2>3. QED
    BY <2>1, <2>2, AllInMonotone, Zenon
<1>10. CloseInv'
  <2>1. NoEntry(pBuffer', "close") /\ mem'["close"] = FALSE
    BY <1>1, <1>3, <1>4 DEF WriterInv, CloseInv, Closing
  <2>2. CloseLast(pBuffer')
    BY <2>1, Zenon DEF NoEntry, CloseLast
  <2>3. Latest(mem', pBuffer', "published", P)
    BY <1>1, <1>3, <1>4 DEF WriterInv, CloseInv, Publishing
  <2>4. P' - 1 = P
    BY <1>1, <1>3
  <2>5. QED
    BY <1>1, <1>4, <2>1, <2>2, <2>3, <2>4, Zenon DEF CloseInv, Publishing
<1>11. \A y \in CAtomics : mem'[y] = mem[y]
  BY <1>3, <1>4
<1>12. ~ ProducerOwnsSlot' /\ pPc' # "joined" /\ mem["close"] = FALSE
  BY <1>1 DEF ProducerOwnsSlot, WriterInv, CloseInv, Closing
<1>13. P' - consumerSequence <= Slots /\ P' - 1 = P
  BY <1>1, <1>3, <1>5, SlotsAssumption
<1>14. \A i \in consumerSequence .. P' - 1 : slots'[SlotOf(i)].number = i + 1
  BY <1>7, <1>13
<1>15. QED
  BY <1>1, <1>4, <1>8, <1>9, <1>10, <1>11, <1>12, <1>13, <1>14, ProducerFrame, Zenon

LEMMA StorePublishedInv ==
  ASSUME WriterInv, pPc = "storePublished", pPc' = "storeInactive",
         PStore("published", producerSequence), UNCHANGED <<slots, producerVars, OfConsumer>>
  PROVE  WriterInv'
<1> DEFINE P == producerSequence
<1>1. /\ slots' = slots /\ P' = P /\ producerBytes' = producerBytes /\ size' = size
      /\ UNCHANGED OfConsumer
  BY DEF producerVars
<1>2. /\ cPc' = cPc /\ seen' = seen /\ consumerSequence' = consumerSequence
      /\ consumerBytes' = consumerBytes
      /\ pending' = pending /\ accepted' = accepted /\ outputError' = outputError
  BY <1>1 DEF OfConsumer, consumerVars, resultVars
<1>3. /\ P \in Nat /\ P \in Values /\ seen \in Nat
      /\ "published" \in PAtomics /\ MemoryTypes
      /\ "published" \in Atomics /\ "close" \in Atomics /\ "rows" \in Atomics
      /\ CAtomics \subseteq Atomics /\ "published" \notin CAtomics
  BY Zenon DEF PAtomics, CAtomics, Atomics, Counters, Flags, WriterInv, WriterTypes, Values
<1>4. /\ MemoryTypes' /\ cBuffer' = cBuffer
      /\ Latest(mem', pBuffer', "published", P)
      /\ \A y \in Atomics :
           /\ y # "published" => mem'[y] = mem[y]
           /\ y # "published" /\ NoEntry(pBuffer, y) => NoEntry(pBuffer', y)
           /\ \A S : AllIn(mem, pBuffer, y, S) /\ (y = "published" => P \in S)
                       => AllIn(mem', pBuffer', y, S)
           /\ \A w : Latest(mem, pBuffer, y, w) /\ y # "published"
                       => Latest(mem', pBuffer', y, w)
           /\ Ascending(mem, pBuffer, y)
                /\ (y = "published" => AllIn(mem, pBuffer, y, {u \in Nat : u <= P}))
              => Ascending(mem', pBuffer', y)
  BY <1>3, PStoreView, Zenon
<1>5. AllIn(mem, pBuffer, "published", seen .. P) /\ Ascending(mem, pBuffer, "published")
  BY Zenon DEF WriterInv, RingInv
<1>6. mem["published"] \in seen .. P
  BY <1>5 DEF AllIn
<1>7. AllIn(mem', pBuffer', "published", seen .. P)
  <2>1. P \in seen .. P
    BY <1>3, <1>6, SMTT(30)
  <2>2. QED
    BY <1>3, <1>4, <1>5, <2>1, Zenon
<1>8. Ascending(mem', pBuffer', "published")
  <2>1. seen .. P \subseteq {u \in Nat : u <= P}
    BY <1>3
  <2>2. AllIn(mem, pBuffer, "published", {u \in Nat : u <= P})
    BY <1>5, <2>1, AllInMonotone, Zenon
  <2>3. QED
    BY <1>3, <1>4, <1>5, <2>2
<1>9. WriterTypes'
  BY <1>1, <1>2, <1>4 DEF WriterInv, WriterTypes, PPcs
<1>10. CloseInv'
  <2>1. NoEntry(pBuffer', "close") /\ mem'["close"] = FALSE
    BY <1>3, <1>4, Zenon DEF WriterInv, CloseInv, Closing
  <2>2. CloseLast(pBuffer')
    BY <2>1 DEF NoEntry, CloseLast
  <2>3. Latest(mem', pBuffer', "rows", P)
    BY <1>3, <1>4, Zenon DEF WriterInv, CloseInv
  <2>4. QED
    BY <1>1, <1>4, <2>1, <2>2, <2>3, Zenon DEF CloseInv, Publishing
<1>11. \A y \in CAtomics : mem'[y] = mem[y]
  BY <1>3, <1>4, Zenon
<1>12. ~ ProducerOwnsSlot' /\ pPc' # "joined" /\ mem["close"] = FALSE
  BY DEF ProducerOwnsSlot, WriterInv, CloseInv, Closing
<1>13. QED
  BY <1>1, <1>4, <1>7, <1>8, <1>9, <1>10, <1>11, <1>12, ProducerFrame, Zenon DEF WriterInv, RingInv

LEMMA CloseStepInv ==
  ASSUME WriterInv, Close
  PROVE  WriterInv'
<1> DEFINE P == producerSequence
<1>1. /\ pPc = "idle" /\ pPc' = "closeLock" /\ PStore("close", TRUE)
      /\ UNCHANGED <<slots, producerVars, OfConsumer>>
  BY Zenon DEF Close, PGoto
<1>2. /\ slots' = slots /\ P' = P /\ producerBytes' = producerBytes /\ size' = size
  BY <1>1 DEF producerVars
<1>3. /\ cPc' = cPc /\ seen' = seen /\ consumerSequence' = consumerSequence
      /\ consumerBytes' = consumerBytes
      /\ pending' = pending /\ accepted' = accepted /\ outputError' = outputError
  BY <1>1 DEF OfConsumer, consumerVars, resultVars
<1>4. /\ TRUE \in Values /\ "close" \in PAtomics /\ MemoryTypes
      /\ "published" \in Atomics /\ "close" \in Atomics /\ "rows" \in Atomics
      /\ CAtomics \subseteq Atomics /\ "close" \notin CAtomics
  BY DEF PAtomics, CAtomics, Atomics, Counters, Flags, WriterInv, WriterTypes, Values
<1>5. /\ MemoryTypes' /\ cBuffer' = cBuffer
      /\ \A y \in Atomics : y # "close" =>
           /\ mem'[y] = mem[y]
           /\ \A S : AllIn(mem, pBuffer, y, S) => AllIn(mem', pBuffer', y, S)
           /\ \A w : Latest(mem, pBuffer, y, w) => Latest(mem', pBuffer', y, w)
           /\ Ascending(mem, pBuffer, y) => Ascending(mem', pBuffer', y)
  BY <1>1, <1>4, PStoreView, Zenon
<1>6. NoEntry(pBuffer, "close") /\ mem["close"] = FALSE
  BY <1>1 DEF WriterInv, CloseInv, Closing
<1>7. CloseLast(pBuffer') /\ (mem'["close"] # FALSE => pBuffer' = << >>)
  <2>1. CASE StoreBuffer > 0
    <3> DEFINE e == [atomic |-> "close", value |-> TRUE]
    <3>1. pBuffer' = Append(pBuffer, e) /\ mem' = mem
      BY <1>1, <2>1 DEF PStore
    <3>2. e \in Store /\ pBuffer \in Seq(Store)
      BY <1>4, Zenon DEF Store, MemoryTypes
    <3> HIDE DEF e
    <3>3. /\ Len(pBuffer') = Len(pBuffer) + 1 /\ Len(pBuffer) \in Nat
          /\ \A i \in 1 .. Len(pBuffer) : pBuffer'[i] = pBuffer[i]
      BY <3>1, <3>2
    <3>4. CloseLast(pBuffer')
      <4> SUFFICES ASSUME NEW i \in 1 .. Len(pBuffer'), i # Len(pBuffer')
                   PROVE  pBuffer'[i].atomic # "close"
        BY DEF CloseLast
      <4>1. i \in 1 .. Len(pBuffer)
        BY <3>3
      <4>2. QED
        BY <1>6, <3>3, <4>1 DEF NoEntry
    <3>5. QED
      BY <1>6, <3>1, <3>4, Zenon
  <2>2. CASE StoreBuffer = 0
    <3>1. pBuffer' = << >>
      BY <1>5, <2>2 DEF MemoryTypes
    <3>2. Len(pBuffer') = 0
      BY <3>1
    <3>3. QED
      BY <3>1, <3>2 DEF CloseLast
  <2>3. StoreBuffer > 0 \/ StoreBuffer = 0
    BY StoreBufferAssumption, SMTT(30)
  <2>4. QED
    BY ONLY <2>1, <2>2, <2>3, Zenon
<1>8. WriterTypes'
  BY <1>1, <1>2, <1>3, <1>5 DEF WriterInv, WriterTypes, PPcs
<1>9. CloseInv'
  <2>1. Latest(mem', pBuffer', "rows", P) /\ Latest(mem', pBuffer', "published", P)
    BY <1>1, <1>4, <1>5, ZenonT(30) DEF WriterInv, CloseInv, Publishing
  <2>2. QED
    BY <1>1, <1>2, <1>7, <2>1, Zenon DEF CloseInv, Publishing, Closing
<1>10. /\ AllIn(mem', pBuffer', "published", seen .. P)
       /\ Ascending(mem', pBuffer', "published")
  BY <1>4, <1>5 DEF WriterInv, RingInv
<1>11. \A y \in CAtomics : mem'[y] = mem[y]
  BY <1>4, <1>5
<1>12. ~ ProducerOwnsSlot' /\ pPc' # "joined"
  BY <1>1 DEF ProducerOwnsSlot
<1>13. QED
  BY <1>1, <1>2, <1>5, <1>6, <1>8, <1>9, <1>10, <1>11, <1>12, ProducerFrame, Zenon DEF WriterInv, RingInv

LEMMA PDrainInv ==
  ASSUME WriterInv, PDrain
  PROVE  WriterInv'
<1> DEFINE P == producerSequence
<1>1. /\ UNCHANGED <<slots, pPc, producerVars, OfConsumer>>
  BY DEF PDrain, OfConsumer
<1>2. /\ slots' = slots /\ P' = P /\ producerBytes' = producerBytes /\ size' = size
      /\ pPc' = pPc
  BY <1>1 DEF producerVars
<1>3. /\ cPc' = cPc /\ seen' = seen /\ consumerSequence' = consumerSequence
      /\ consumerBytes' = consumerBytes
      /\ pending' = pending /\ accepted' = accepted /\ outputError' = outputError
  BY <1>1 DEF OfConsumer, consumerVars, resultVars
<1>4. /\ MemoryTypes
      /\ "published" \in Atomics /\ "close" \in Atomics /\ "rows" \in Atomics
      /\ \A y \in CAtomics : y \in Atomics /\ NoEntry(pBuffer, y)
  BY DEF PAtomics, CAtomics, Atomics, Counters, Flags, WriterInv, WriterTypes, MemoryTypes
<1>5. /\ MemoryTypes' /\ cBuffer' = cBuffer
      /\ \A y \in Atomics :
           /\ NoEntry(pBuffer, y) => mem'[y] = mem[y]
           /\ \A S : AllIn(mem, pBuffer, y, S) => AllIn(mem', pBuffer', y, S)
           /\ \A w : Latest(mem, pBuffer, y, w) => Latest(mem', pBuffer', y, w)
           /\ Ascending(mem, pBuffer, y) => Ascending(mem', pBuffer', y)
  BY <1>4, PDrainView
<1>6. mem["close"] = FALSE /\ CloseLast(pBuffer) /\ pBuffer # << >>
  BY Zenon DEF WriterInv, CloseInv, PDrain
<1>7. /\ pBuffer \in Seq(Store) /\ mem \in Memory
      /\ mem' = [mem EXCEPT ![Head(pBuffer).atomic] = Head(pBuffer).value]
      /\ pBuffer' = Tail(pBuffer)
  BY <1>4 DEF MemoryTypes, PDrain
<1>8. /\ Len(pBuffer) \in Nat \ {0} /\ Len(pBuffer') = Len(pBuffer) - 1
      /\ \A i \in 1 .. Len(pBuffer) - 1 : pBuffer'[i] = pBuffer[i + 1]
      /\ Head(pBuffer) = pBuffer[1]
  BY <1>6, <1>7
<1>9. CloseLast(pBuffer')
  <2> SUFFICES ASSUME NEW i \in 1 .. Len(pBuffer'), pBuffer'[i].atomic = "close"
               PROVE  i = Len(pBuffer')
    BY DEF CloseLast
  <2>1. i + 1 \in 1 .. Len(pBuffer) /\ pBuffer[i + 1].atomic = "close" /\ i \in Int
    BY <1>8
  <2>2. i + 1 = Len(pBuffer)
    BY <1>6, <2>1 DEF CloseLast
  <2>3. QED
    BY <1>8, <2>1, <2>2
<1>10. mem'["close"] # FALSE => pBuffer' = << >>
  <2> SUFFICES ASSUME mem'["close"] # FALSE PROVE pBuffer' = << >>
    OBVIOUS
  <2>1. Head(pBuffer).atomic = "close"
    BY <1>4, <1>6, <1>7, Zenon DEF Memory
  <2>2. Len(pBuffer) = 1
    BY <1>6, <1>8, <2>1 DEF CloseLast
  <2>3. QED
    BY <1>7, <1>8, <2>2
<1>11. pPc \notin Closing => NoEntry(pBuffer', "close") /\ mem'["close"] = FALSE
  <2> SUFFICES ASSUME pPc \notin Closing
               PROVE  NoEntry(pBuffer', "close") /\ mem'["close"] = FALSE
    BY Zenon
  <2>1. NoEntry(pBuffer, "close")
    BY DEF WriterInv, CloseInv
  <2>2. mem'["close"] = FALSE
    BY <1>4, <1>5, <1>6, <2>1
  <2>3. NoEntry(pBuffer', "close")
    BY <1>8, <2>1 DEF NoEntry
  <2>4. QED
    BY <2>2, <2>3
<1>12. CloseInv'
  <2>1. /\ Latest(mem', pBuffer', "rows", P)
        /\ Latest(mem', pBuffer', "published", IF pPc \in Publishing THEN P - 1 ELSE P)
    BY <1>4, <1>5, Zenon DEF WriterInv, CloseInv
  <2>2. QED
    BY <1>2, <1>9, <1>10, <1>11, <2>1, ZenonT(30) DEF CloseInv
<1>13. WriterTypes'
  BY <1>2, <1>3, <1>5, ZenonT(30) DEF WriterInv, WriterTypes
<1>14. /\ AllIn(mem', pBuffer', "published", seen .. P)
       /\ Ascending(mem', pBuffer', "published")
  BY <1>4, <1>5 DEF WriterInv, RingInv
<1>15. \A y \in CAtomics : mem'[y] = mem[y]
  BY <1>4, <1>5
<1>16. (ProducerOwnsSlot' <=> ProducerOwnsSlot) /\ (pPc' = "joined" => cPc = "done")
  BY <1>2 DEF ProducerOwnsSlot, WriterInv, OutcomeInv
<1>17. QED
  BY <1>1, <1>2, <1>5, <1>6, <1>12, <1>13, <1>14, <1>15, <1>16, ProducerFrame, Zenon
  DEF WriterInv, RingInv

LEMMA ProducerStepInv ==
  ASSUME WriterInv, ProducerStep \/ Environment
  PROVE  WriterInv'
<1> USE DEF PPcs, Closing, Publishing, ProducerOwnsSlot
<1>1. size \in Nat /\ TRUE \in Values /\ FALSE \in Values /\ producerBytes \in Values
  BY DEF WriterInv, WriterTypes, Values
<1>2. CASE Cancel
  BY <1>1, <1>2, QuietProducer DEF Cancel, PGoto, producerVars
<1>3. CASE PublishBegin
  <2>1. size' \in Nat
    BY <1>3, BytesAssumption DEF PublishBegin
  <2>2. QED
    BY <1>1, <1>3, <2>1, HarmlessStore, Zenon DEF PublishBegin, PGoto
<1>4. CASE PublishNotFailed
  BY <1>1, <1>4, QuietProducer DEF PublishNotFailed, PGoto, producerVars
<1>5. CASE PublishReject
  BY <1>1, <1>5, HarmlessStore, Zenon DEF PublishReject, PGoto, producerVars
<1>6. CASE PublishStage
  BY <1>6, PublishStageInv
<1>7. CASE PublishStore
  <2>1. CASE PGoto("storeBytes", "storePublished") /\ PStore("bytesPublished", producerBytes)
    BY <1>1, <1>7, <2>1, HarmlessStore DEF PublishStore, PGoto, producerVars
  <2>2. CASE PGoto("storePublished", "storeInactive") /\ PStore("published", producerSequence)
    BY <1>7, <2>2, StorePublishedInv DEF PublishStore, PGoto
  <2>3. CASE PGoto("storeInactive", "wakeCheck") /\ PStore("publishActive", FALSE)
    BY <1>1, <1>7, <2>3, HarmlessStore, Zenon DEF PublishStore, PGoto, producerVars
  <2>4. QED
    BY <1>7, <2>1, <2>2, <2>3, Zenon DEF PublishStore
<1>8. CASE NotifyWriter
  <2>1. pPc = "wakeCheck" /\ pPc' \in {"wakeLock", "pauseCheck"}
    BY <1>8 DEF NotifyWriter, PGoto
  <2>2. QED
    BY <1>1, <1>8, <2>1, QuietProducer DEF NotifyWriter, producerVars
<1>9. CASE Wake
  BY <1>1, <1>9, QuietProducer DEF Wake, PGoto, producerVars
<1>10. CASE PauseForBackpressure
  <2>1. pPc = "pauseCheck" /\ pPc' \in {"arm", "idle"}
    BY <1>10 DEF PauseForBackpressure
  <2>2. QED
    BY <1>1, <1>10, <2>1, QuietProducer DEF PauseForBackpressure, producerVars
<1>11. CASE ArmResume
  <2>1. CASE PGoto("arm", "idle") /\ UNCHANGED memoryVars
    BY <1>1, <1>11, <2>1, QuietProducer DEF ArmResume, PGoto, producerVars
  <2>2. CASE PGoto("arm", "armCheck") /\ PStore("armed", TRUE)
    BY <1>1, <1>11, <2>2, HarmlessStore, Zenon DEF ArmResume, PGoto, producerVars
  <2>3. QED
    BY <1>11, <2>1, <2>2, Zenon DEF ArmResume
<1>12. CASE ArmRecheck
  <2>1. pPc = "armCheck" /\ pPc' \in {"armClaim", "idle"}
    BY <1>12 DEF ArmRecheck, PGoto
  <2>2. QED
    BY <1>1, <1>12, <2>1, QuietProducer DEF ArmRecheck, producerVars
<1>13. CASE ArmClaim
  BY <1>13, ArmClaimInv
<1>14. CASE OnWriterResume
  <2>1. pPc = "idle" /\ pPc' \in {"arm", "idle"}
    BY <1>14 DEF OnWriterResume, controllerVars
  <2>2. QED
    BY <1>1, <1>14, <2>1, QuietProducer DEF OnWriterResume, producerVars
<1>15. CASE Join
  BY <1>1, <1>15, QuietProducer DEF Join, PGoto, producerVars
<1>16. CASE TryAcquire
  BY <1>16, TryAcquireInv
<1>17. CASE OnBackpressureTimeout
  BY <1>1, <1>17, QuietProducer DEF OnBackpressureTimeout, producerVars
<1>18. CASE OnSessionTerminal
  BY <1>1, <1>18, QuietProducer DEF OnSessionTerminal, producerVars
<1>19. CASE OnOpen
  BY <1>1, <1>19, QuietProducer DEF OnOpen, PGoto, producerVars
<1>20. CASE Close
  BY <1>20, CloseStepInv
<1>21. QED
  BY <1>2, <1>3, <1>4, <1>5, <1>6, <1>7, <1>8, <1>9, <1>10, <1>11, <1>12, <1>13, <1>14,
     <1>15, <1>16, <1>17, <1>18, <1>19, <1>20, ZenonT(30) DEF ProducerStep, Environment

-----------------------------------------------------------------------------
(* Steps of the consumer.                                                  *)

(* What the producer's half of the invariant asks of a consumer step.      *)
LEMMA ConsumerFrame ==
  ASSUME WriterInv, WriterTypes', OutcomeInv', UNCHANGED OfProducer, pBuffer' = pBuffer,
         \A y \in {"published", "rows", "close"} : mem'[y] = mem[y],
         AllIn(mem, pBuffer, "published", seen' .. producerSequence),
         AllIn(mem', cBuffer', "released", 0 .. consumerSequence'),
         consumerSequence <= consumerSequence', consumerSequence' <= seen',
         \A i \in consumerSequence' .. producerSequence - 1 : slots'[SlotOf(i)].number = i + 1,
         cPc' = "release" => consumerSequence' < seen'
  PROVE  WriterInv'
<1>1. /\ pPc' = pPc /\ producerSequence' = producerSequence
  BY DEF OfProducer, producerVars
<1>2. /\ mem'["published"] = mem["published"] /\ mem'["rows"] = mem["rows"]
      /\ mem'["close"] = mem["close"]
  OBVIOUS
<1>3. CloseInv'
  BY <1>1, <1>2, Zenon DEF WriterInv, CloseInv, CloseLast, Latest
<1>4. /\ AllIn(mem', pBuffer', "published", seen' .. producerSequence)
      /\ Ascending(mem', pBuffer', "published")
  BY <1>2, Zenon DEF WriterInv, RingInv, AllIn, Ascending
<1>5. /\ producerSequence \in Nat /\ consumerSequence \in Nat /\ consumerSequence' \in Nat
      /\ producerSequence - consumerSequence <= Slots
      /\ ProducerOwnsSlot => producerSequence - consumerSequence < Slots
  BY Zenon DEF WriterInv, WriterTypes, RingInv
<1>6. /\ producerSequence - consumerSequence' <= Slots
      /\ ProducerOwnsSlot => producerSequence - consumerSequence' < Slots
  <2>1. \A p, c, d, n \in Int :
          c <= d => (p - c <= n => p - d <= n) /\ (p - c < n => p - d < n)
    OBVIOUS
  <2>2. /\ producerSequence \in Int /\ consumerSequence \in Int /\ consumerSequence' \in Int
        /\ Slots \in Int
    BY ONLY <1>5, SlotsAssumption
  <2>3. QED
    BY <1>5, <2>1, <2>2, Zenon
<1>7. RingInv'
  BY <1>1, <1>4, <1>6, Zenon DEF RingInv, SlotOf, ProducerOwnsSlot
<1>8. QED
  BY <1>3, <1>7, Zenon DEF WriterInv

LEMMA ConsumerLoads ==
  ASSUME WriterInv
  PROVE  /\ \A y \in {"published", "rows", "close"} : CLoad(y) = mem[y]
         /\ outputError = "none" => CLoad("failed") = FALSE
         /\ mem["published"] \in seen .. producerSequence
<1>1. \A y \in {"published", "rows", "close"} : NoEntry(cBuffer, y)
  BY DEF WriterInv, WriterTypes, MemoryTypes, CAtomics, Atomics, Counters, Flags
<1>2. outputError = "none" => NoEntry(cBuffer, "failed") /\ mem["failed"] = FALSE
  BY DEF WriterInv, OutcomeInv
<1>3. mem["published"] \in seen .. producerSequence
  BY DEF WriterInv, RingInv, AllIn
<1>4. QED
  BY <1>1, <1>2, <1>3, LoadOfOther, Zenon DEF CLoad

(* A step that leaves the memory, the slots and the counters alone.        *)
LEMMA QuietConsumer ==
  ASSUME WriterInv, UNCHANGED <<memoryVars, slots, seen, consumerSequence, consumerBytes, OfProducer>>,
         cPc' \in CPcs, pending' \in Errors, accepted' \in Seq(Nat), outputError' = outputError,
         OutcomeInv', cPc' = "release" => consumerSequence < seen
  PROVE  WriterInv'
<1>1. /\ mem' = mem /\ pBuffer' = pBuffer /\ cBuffer' = cBuffer /\ slots' = slots
      /\ seen' = seen /\ consumerSequence' = consumerSequence /\ consumerBytes' = consumerBytes
      /\ UNCHANGED OfProducer
  BY DEF memoryVars
<1>2. /\ pPc' = pPc /\ producerSequence' = producerSequence
      /\ producerBytes' = producerBytes /\ size' = size
  BY <1>1 DEF OfProducer, producerVars
<1>3. MemoryTypes'
  BY <1>1 DEF WriterInv, WriterTypes, MemoryTypes
<1>4. WriterTypes'
  BY <1>1, <1>2, <1>3 DEF WriterInv, WriterTypes
<1>5. consumerSequence <= consumerSequence'
  BY <1>1 DEF WriterInv, WriterTypes
<1>6. QED
  BY <1>1, <1>4, <1>5, ConsumerFrame, Zenon DEF WriterInv, RingInv

LEMMA CDrainInv ==
  ASSUME WriterInv, CDrain
  PROVE  WriterInv'
<1>1. UNCHANGED <<slots, cPc, consumerVars, resultVars, OfProducer>>
  BY DEF CDrain, OfProducer
<1>2. /\ slots' = slots /\ cPc' = cPc
      /\ seen' = seen /\ consumerSequence' = consumerSequence /\ consumerBytes' = consumerBytes
      /\ pending' = pending /\ accepted' = accepted /\ outputError' = outputError
      /\ unwritten' = unwritten /\ UNCHANGED OfProducer
  BY <1>1 DEF consumerVars, resultVars
<1>3. /\ pPc' = pPc /\ producerSequence' = producerSequence
      /\ producerBytes' = producerBytes /\ size' = size
  BY <1>2 DEF OfProducer, producerVars
<1>4. /\ MemoryTypes
      /\ {"published", "rows", "close"} \subseteq PAtomics
      /\ "released" \in Atomics /\ "failed" \in Atomics
  BY DEF PAtomics, Atomics, Counters, Flags, WriterInv, WriterTypes
<1>5. /\ MemoryTypes' /\ pBuffer' = pBuffer
      /\ \A y \in Atomics :
           /\ NoEntry(cBuffer, y) => NoEntry(cBuffer', y) /\ mem'[y] = mem[y]
           /\ \A S : AllIn(mem, cBuffer, y, S) => AllIn(mem', cBuffer', y, S)
      /\ \A y \in PAtomics : mem'[y] = mem[y]
  BY <1>4, CDrainView, ZenonT(30)
<1>6. WriterTypes'
  BY <1>2, <1>3, <1>5, SMTT(30) DEF WriterInv, WriterTypes
<1>7. outputError = "none" => NoEntry(cBuffer', "failed") /\ mem'["failed"] = FALSE
  BY <1>4, <1>5 DEF WriterInv, OutcomeInv
<1>8. mem'["close"] = mem["close"]
  BY <1>4, <1>5
<1>9. OutcomeInv'
  BY <1>2, <1>3, <1>7, <1>8, Zenon DEF WriterInv, OutcomeInv
<1>10. AllIn(mem', cBuffer', "released", 0 .. consumerSequence)
  BY <1>4, <1>5 DEF WriterInv, RingInv
<1>11. consumerSequence <= consumerSequence'
  BY <1>2 DEF WriterInv, WriterTypes
<1>12. \A y \in {"published", "rows", "close"} : mem'[y] = mem[y]
  BY <1>4, <1>5
<1>13. QED
  BY <1>2, <1>5, <1>6, <1>9, <1>10, <1>11, <1>12, ConsumerFrame, Zenon DEF WriterInv, RingInv

(* A step that stores, and leaves the slots and the counters alone.        *)
LEMMA StoringConsumer ==
  ASSUME WriterInv, MemoryTypes', pBuffer' = pBuffer,
         \A y \in {"published", "rows", "close"} : mem'[y] = mem[y],
         AllIn(mem', cBuffer', "released", 0 .. consumerSequence),
         UNCHANGED <<slots, consumerVars, accepted, OfProducer>>,
         cPc' \in CPcs \ {"release"}, outputError' \in Errors, OutcomeInv'
  PROVE  WriterInv'
<1>1. /\ slots' = slots /\ accepted' = accepted /\ UNCHANGED OfProducer
      /\ seen' = seen /\ consumerSequence' = consumerSequence /\ consumerBytes' = consumerBytes
      /\ pending' = pending
  BY Zenon DEF consumerVars
<1>2. /\ pPc' = pPc /\ producerSequence' = producerSequence
      /\ producerBytes' = producerBytes /\ size' = size
  BY <1>1, SMTT(30) DEF OfProducer, producerVars
<1>3. WriterTypes'
  BY <1>1, <1>2 DEF WriterInv, WriterTypes
<1>4. consumerSequence <= consumerSequence'
  BY <1>1 DEF WriterInv, WriterTypes
<1>5. QED
  BY <1>1, <1>3, <1>4, ConsumerFrame, ZenonT(30) DEF WriterInv, RingInv

LEMMA LoadPublishedInv ==
  ASSUME WriterInv, LoadPublished
  PROVE  WriterInv'
<1>1. /\ mem' = mem /\ pBuffer' = pBuffer /\ cBuffer' = cBuffer /\ slots' = slots
      /\ consumerSequence' = consumerSequence /\ consumerBytes' = consumerBytes
      /\ pending' = pending /\ accepted' = accepted /\ outputError' = outputError
      /\ unwritten' = unwritten /\ UNCHANGED OfProducer
  BY DEF LoadPublished, memoryVars, resultVars
<1>2. /\ pPc' = pPc /\ producerSequence' = producerSequence
      /\ producerBytes' = producerBytes /\ size' = size
  BY <1>1 DEF OfProducer, producerVars
<1>3. seen' = mem["published"] /\ seen' \in seen .. producerSequence
  BY ConsumerLoads DEF LoadPublished
<1>4. /\ seen \in Nat /\ producerSequence \in Nat /\ consumerSequence \in Nat
      /\ consumerSequence <= seen
  BY DEF WriterInv, WriterTypes, RingInv
<1>5. \/ cPc = "load" /\ cPc' = "drain"
      \/ cPc = "discardLoad" /\ cPc' = "discard"
  BY DEF LoadPublished, CGoto
<1>6. MemoryTypes'
  BY <1>1, Zenon DEF WriterInv, WriterTypes, MemoryTypes
<1>7. WriterTypes'
  BY <1>1, <1>2, <1>3, <1>4, <1>5, <1>6 DEF WriterInv, WriterTypes, CPcs
<1>8. OutcomeInv'
  BY <1>1, <1>2, <1>5, Zenon DEF WriterInv, OutcomeInv, Finishing
<1>9. AllIn(mem, pBuffer, "published", seen' .. producerSequence)
  <2>1. /\ AllIn(mem, pBuffer, "published", seen .. producerSequence)
        /\ Ascending(mem, pBuffer, "published")
    BY DEF WriterInv, RingInv
  <2>2. ASSUME NEW i \in 1 .. Len(pBuffer), pBuffer[i].atomic = "published"
        PROVE  pBuffer[i].value \in seen' .. producerSequence
    <3>1. pBuffer[i].value \in seen .. producerSequence
      BY <2>1, <2>2 DEF AllIn
    <3>2. mem["published"] <= pBuffer[i].value
      BY <2>1, <2>2 DEF Ascending
    <3>3. QED
      BY <1>3, <1>4, <3>1, <3>2, SMTT(30)
  <2>3. mem["published"] \in seen' .. producerSequence
    BY <1>3, <1>4
  <2>4. QED
    BY <2>2, <2>3, Zenon DEF AllIn
<1>10. /\ consumerSequence <= consumerSequence' /\ consumerSequence' <= seen'
       /\ cPc' # "release"
  BY <1>1, <1>3, <1>4, <1>5, SMTT(30)
<1>11. QED
  BY <1>1, <1>7, <1>8, <1>9, <1>10, ConsumerFrame, Zenon DEF WriterInv, RingInv

LEMMA ReleaseSlotInv ==
  ASSUME WriterInv, ReleaseSlot
  PROVE  WriterInv'
<1> DEFINE C == consumerSequence
           s == SlotOf(C)
           v == consumerBytes + slots[s].size
<1>1. /\ cPc = "release" /\ cPc' = "storeReleased" /\ consumerBytes' = v
      /\ slots' = [slots EXCEPT ![s] = NoBatch] /\ C' = C + 1
      /\ CStore("bytesReleased", v)
      /\ UNCHANGED <<seen, pending, resultVars, OfProducer>>
  BY DEF ReleaseSlot, CGoto
<1>2. /\ seen' = seen /\ pending' = pending /\ accepted' = accepted
      /\ outputError' = outputError /\ unwritten' = unwritten /\ UNCHANGED OfProducer
  BY <1>1 DEF resultVars
<1>3. /\ pPc' = pPc /\ producerSequence' = producerSequence
      /\ producerBytes' = producerBytes /\ size' = size
  BY <1>2, SMTT(30) DEF OfProducer, producerVars
<1>4. /\ C \in Nat /\ seen \in Nat /\ producerSequence \in Nat
      /\ C < seen /\ seen <= producerSequence
      /\ s \in 0 .. Slots - 1 /\ producerSequence - C <= Slots
  <2>1. C \in Nat
    BY DEF WriterInv, WriterTypes
  <2>2. s \in 0 .. Slots - 1
    BY <2>1, SlotRange
  <2>3. mem["published"] \in seen .. producerSequence
    BY ConsumerLoads
  <2>4. QED
    BY <1>1, <2>1, <2>2, <2>3, SMTT(30) DEF WriterInv, WriterTypes, RingInv
<1>5. v \in Nat
  <2>1. slots[s].size \in Nat /\ consumerBytes \in Nat
    BY <1>4 DEF WriterInv, WriterTypes
  <2>2. QED
    BY <2>1
<1>6. slots' \in [0 .. Slots - 1 -> [number : Nat, size : Nat]]
  BY <1>1, Zenon DEF WriterInv, WriterTypes, NoBatch
<1> HIDE DEF v
<1>7. /\ MemoryTypes /\ "bytesReleased" \in CAtomics /\ v \in Values
      /\ {"published", "rows", "close", "released", "failed"} \subseteq Atomics
  BY <1>5, Zenon DEF CAtomics, Atomics, Counters, Flags, Values, WriterInv, WriterTypes
<1>8. /\ MemoryTypes' /\ pBuffer' = pBuffer
      /\ \A y \in Atomics : y # "bytesReleased" =>
           /\ mem'[y] = mem[y]
           /\ NoEntry(cBuffer, y) => NoEntry(cBuffer', y)
           /\ \A S : AllIn(mem, cBuffer, y, S) => AllIn(mem', cBuffer', y, S)
  BY <1>1, <1>7, CStoreView, Zenon
<1>9. WriterTypes'
  BY <1>1, <1>2, <1>3, <1>4, <1>5, <1>6, <1>8, SMTT(30) DEF WriterInv, WriterTypes, CPcs
<1>10. outputError = "none" => NoEntry(cBuffer', "failed") /\ mem'["failed"] = FALSE
  BY <1>7, <1>8, Zenon DEF WriterInv, OutcomeInv
<1>11. OutcomeInv'
  BY <1>1, <1>2, <1>3, <1>10 DEF WriterInv, OutcomeInv, Finishing
<1>12. AllIn(mem', cBuffer', "released", 0 .. C + 1)
  <2>1. AllIn(mem', cBuffer', "released", 0 .. C)
    BY <1>7, <1>8 DEF WriterInv, RingInv
  <2>2. 0 .. C \subseteq 0 .. C + 1
    BY <1>4, SMTT(30)
  <2>3. QED
    BY <2>1, <2>2, AllInMonotone, Zenon
<1>13. \A i \in C + 1 .. producerSequence - 1 : slots'[SlotOf(i)].number = i + 1
  <2> SUFFICES ASSUME NEW i \in C + 1 .. producerSequence - 1
               PROVE  slots'[SlotOf(i)].number = i + 1
    OBVIOUS
  <2>1. SlotOf(i) # s /\ SlotOf(i) \in 0 .. Slots - 1
    BY <1>4, SlotsDiffer, SlotRange, SlotsAssumption, SMTT(30)
  <2>2. slots'[SlotOf(i)] = slots[SlotOf(i)]
    BY <1>1, <2>1 DEF WriterInv, WriterTypes
  <2>3. i \in C .. producerSequence - 1
    BY <1>4
  <2>4. QED
    BY <2>2, <2>3 DEF WriterInv, RingInv
<1>14. C <= C' /\ C' <= seen' /\ cPc' # "release"
  BY <1>1, <1>2, <1>4
<1>15. \A y \in {"published", "rows", "close"} : mem'[y] = mem[y]
  BY <1>7, <1>8, Zenon
<1>16. AllIn(mem, pBuffer, "published", seen' .. producerSequence)
  BY <1>2 DEF WriterInv, RingInv
<1>17. QED
  BY <1>1, <1>2, <1>8, <1>9, <1>11, <1>12, <1>13, <1>14, <1>15, <1>16, ConsumerFrame, ZenonT(30)

(* The stores and exchanges of the consumer other than release_slot's.     *)
LEMMA ConsumerStoresInv ==
  ASSUME WriterInv,
         StoreReleased \/ LatchFailure \/ StoreSleeping \/ ClaimResume \/ NotifyFailure
  PROVE  WriterInv'
<1> USE DEF CPcs
<1>1. /\ UNCHANGED <<slots, consumerVars, accepted, unwritten, OfProducer>>
      /\ ~ LatchFailure => outputError' = outputError
  BY ZenonT(30) DEF StoreReleased, LatchFailure, StoreSleeping, ClaimResume, NotifyFailure, resultVars
<1>2. /\ consumerSequence' = consumerSequence /\ pending' = pending /\ accepted' = accepted
      /\ unwritten' = unwritten
      /\ pPc' = pPc /\ producerSequence' = producerSequence
  BY <1>1 DEF consumerVars, OfProducer, producerVars
<1>3. /\ MemoryTypes /\ consumerSequence \in Nat /\ consumerSequence \in Values
      /\ TRUE \in Values /\ FALSE \in Values /\ outputError \in Errors /\ pending \in Errors
      /\ {"released", "failed", "sleeping"} \subseteq CAtomics
      /\ {"published", "rows", "close", "released", "failed"} \subseteq Atomics
  BY DEF CAtomics, Atomics, Counters, Flags, Values, WriterInv, WriterTypes
<1>4. /\ AllIn(mem, cBuffer, "released", 0 .. consumerSequence)
      /\ outputError = "none" => NoEntry(cBuffer, "failed") /\ mem["failed"] = FALSE
  BY Zenon DEF WriterInv, RingInv, OutcomeInv
<1>5. CASE StoreReleased
  <2>1. /\ cPc = "storeReleased" /\ cPc' = "notify" /\ CStore("released", consumerSequence)
        /\ outputError' = outputError
    BY <1>5 DEF StoreReleased, CGoto, resultVars
  <2>2. /\ MemoryTypes' /\ pBuffer' = pBuffer
        /\ \A y \in Atomics :
             /\ y # "released" => mem'[y] = mem[y]
             /\ y # "released" /\ NoEntry(cBuffer, y) => NoEntry(cBuffer', y)
             /\ \A S : AllIn(mem, cBuffer, y, S) /\ (y = "released" => consumerSequence \in S)
                         => AllIn(mem', cBuffer', y, S)
    BY <1>3, <2>1, CStoreView, Zenon
  <2>3. consumerSequence \in 0 .. consumerSequence
    BY <1>3
  <2>4. AllIn(mem', cBuffer', "released", 0 .. consumerSequence)
    BY <1>3, <1>4, <2>2, <2>3, ZenonT(30)
  <2>5. /\ outputError = "none" => NoEntry(cBuffer', "failed") /\ mem'["failed"] = FALSE
        /\ \A y \in {"published", "rows", "close"} : mem'[y] = mem[y]
    BY <1>3, <1>4, <2>2, Zenon
  <2>6. OutcomeInv'
    BY <1>2, <2>1, <2>5, ZenonT(30) DEF WriterInv, OutcomeInv, Finishing
  <2>7. QED
    BY <1>1, <1>3, <2>1, <2>2, <2>4, <2>5, <2>6, StoringConsumer, Zenon
<1>6. CASE LatchFailure
  <2>1. /\ cPc = "latch" /\ cPc' = "notifyFailure" /\ CStore("failed", TRUE)
        /\ outputError' = IF outputError = "none" THEN pending ELSE outputError
    BY <1>6, Zenon DEF LatchFailure, CGoto
  <2>2. /\ MemoryTypes' /\ pBuffer' = pBuffer
        /\ \A y \in Atomics : y # "failed" =>
             /\ mem'[y] = mem[y]
             /\ \A S : AllIn(mem, cBuffer, y, S) => AllIn(mem', cBuffer', y, S)
    BY <1>3, <2>1, CStoreView, ZenonT(30)
  <2>3. /\ AllIn(mem', cBuffer', "released", 0 .. consumerSequence)
        /\ \A y \in {"published", "rows", "close"} : mem'[y] = mem[y]
    BY <1>3, <1>4, <2>2, Zenon
  <2>4. pending # "none" /\ outputError' # "none" /\ outputError' \in Errors
    BY <1>3, <2>1, Zenon DEF WriterInv, OutcomeInv
  <2>5. OutcomeInv'
    <3>1. pending' = pending /\ (pPc' = "joined" => cPc = "done")
      BY <1>2 DEF WriterInv, OutcomeInv
    <3>2. QED
      BY <2>1, <2>4, <3>1, Zenon DEF OutcomeInv
  <2>6. QED
    BY <1>1, <2>1, <2>2, <2>3, <2>4, <2>5, StoringConsumer
<1>7. CASE StoreSleeping
  <2>1. PICK v \in BOOLEAN :
          /\ CStore("sleeping", v) /\ outputError' = outputError
          /\ \/ cPc = "sleep" /\ cPc' = "predicate"
             \/ cPc = "awake" /\ cPc' = "unlock"
    BY <1>7, Zenon DEF StoreSleeping, CGoto, resultVars
  <2>2. v \in Values
    BY DEF Values
  <2>3. /\ MemoryTypes' /\ pBuffer' = pBuffer
        /\ \A y \in Atomics : y # "sleeping" =>
             /\ mem'[y] = mem[y]
             /\ NoEntry(cBuffer, y) => NoEntry(cBuffer', y)
             /\ \A S : AllIn(mem, cBuffer, y, S) => AllIn(mem', cBuffer', y, S)
    BY <1>3, <2>1, <2>2, CStoreView, ZenonT(30)
  <2>4. /\ AllIn(mem', cBuffer', "released", 0 .. consumerSequence)
        /\ outputError = "none" => NoEntry(cBuffer', "failed") /\ mem'["failed"] = FALSE
        /\ \A y \in {"published", "rows", "close"} : mem'[y] = mem[y]
    BY <1>3, <1>4, <2>3
  <2>5. OutcomeInv'
    BY <1>2, <2>1, <2>4, ZenonT(30) DEF WriterInv, OutcomeInv, Finishing
  <2>6. QED
    BY <1>1, <1>3, <2>1, <2>3, <2>4, <2>5, StoringConsumer, Zenon
<1>8. ASSUME NEW x \in {"armed", "failureSent"}, NEW v \in BOOLEAN, Exchange(cBuffer, x, v)
      PROVE  /\ MemoryTypes' /\ pBuffer' = pBuffer
             /\ AllIn(mem', cBuffer', "released", 0 .. consumerSequence)
             /\ outputError = "none" => NoEntry(cBuffer', "failed") /\ mem'["failed"] = FALSE
             /\ \A y \in {"published", "rows", "close"} : mem'[y] = mem[y]
  <2>1. /\ MemoryTypes' /\ pBuffer' = pBuffer /\ cBuffer' = cBuffer
        /\ \A y \in Atomics : y # x =>
             /\ mem'[y] = mem[y]
             /\ \A c, S : AllIn(mem, c, y, S) => AllIn(mem', c, y, S)
    BY <1>3, <1>8, ExchangeView, ZenonT(30)
  <2>2. QED
    BY <1>3, <1>4, <2>1, Zenon
<1>9. CASE ClaimResume
  <2>1. /\ cPc = "claim" /\ cPc' = AfterRelease /\ Exchange(cBuffer, "armed", FALSE)
        /\ outputError' = outputError
    BY <1>9, Zenon DEF ClaimResume, CGoto, resultVars
  <2>2. /\ cPc' \in {"latch", "discard", "drain"}
        /\ cPc' = "latch" <=> pending # "none"
        /\ cPc' = "discard" => outputError # "none"
    BY <2>1, ConsumerLoads, Zenon DEF AfterRelease
  <2>3. /\ MemoryTypes' /\ pBuffer' = pBuffer
        /\ AllIn(mem', cBuffer', "released", 0 .. consumerSequence)
        /\ outputError = "none" => NoEntry(cBuffer', "failed") /\ mem'["failed"] = FALSE
        /\ \A y \in {"published", "rows", "close"} : mem'[y] = mem[y]
    BY <1>8, <2>1, Zenon
  <2>4. OutcomeInv'
    BY <1>2, <2>1, <2>2, <2>3, Zenon DEF WriterInv, OutcomeInv, Finishing
  <2>5. QED
    BY <1>1, <1>3, <2>1, <2>2, <2>3, <2>4, StoringConsumer
<1>10. CASE NotifyFailure
  <2>1. /\ cPc = "notifyFailure" /\ cPc' = "awaitPublish" /\ outputError' = outputError
        /\ Exchange(cBuffer, "failureSent", TRUE)
    BY <1>10, Zenon DEF NotifyFailure, CGoto, resultVars
  <2>2. /\ MemoryTypes' /\ pBuffer' = pBuffer
        /\ AllIn(mem', cBuffer', "released", 0 .. consumerSequence)
        /\ outputError = "none" => NoEntry(cBuffer', "failed") /\ mem'["failed"] = FALSE
        /\ \A y \in {"published", "rows", "close"} : mem'[y] = mem[y]
    BY <1>8, <2>1, Zenon
  <2>3. OutcomeInv'
    BY <1>2, <2>1, <2>2, Zenon DEF WriterInv, OutcomeInv, Finishing
  <2>4. QED
    BY <1>1, <1>3, <2>1, <2>2, <2>3, StoringConsumer, Zenon
<1>11. QED
  BY <1>5, <1>6, <1>7, <1>9, <1>10

(* A step that only moves the consumer.                                    *)
LEMMA MovingConsumer ==
  ASSUME WriterInv, UNCHANGED <<memoryVars, slots, consumerVars, resultVars, OfProducer>>,
         cPc' \in CPcs \ {"release"}, cPc \in {"release", "done"} => cPc' = cPc,
         cPc' \in {"notifyFailure", "awaitPublish", "discardLoad", "discard"} => outputError # "none",
         cPc' \in {"latch", "notifyFailure", "awaitPublish"} => pending # "none",
         cPc' \notin {"storeReleased", "notify", "claim", "latch"} /\ outputError = "none"
           => pending = "none",
         cPc' \in Finishing /\ outputError = "none"
           => mem["close"] # FALSE /\ consumerSequence = producerSequence,
         cPc' = "done" => cPc = "done"
  PROVE  WriterInv'
<1>1. /\ UNCHANGED <<memoryVars, slots, OfProducer>>
      /\ seen' = seen /\ consumerSequence' = consumerSequence /\ consumerBytes' = consumerBytes
      /\ pending' = pending /\ accepted' = accepted /\ outputError' = outputError
      /\ unwritten' = unwritten
  BY DEF consumerVars, resultVars
<1>2. mem' = mem /\ cBuffer' = cBuffer /\ pPc' = pPc /\ producerSequence' = producerSequence
  BY <1>1 DEF memoryVars, OfProducer, producerVars
<1>3. pending' \in Errors /\ accepted' \in Seq(Nat)
  BY <1>1 DEF WriterInv, WriterTypes
<1>4. OutcomeInv'
  BY <1>1, <1>2, Zenon DEF WriterInv, OutcomeInv, Finishing
<1>5. QED
  BY <1>1, <1>3, <1>4, QuietConsumer, ZenonT(30)

LEMMA WriteBatchInv ==
  ASSUME WriterInv, WriteBatch
  PROVE  WriterInv'
<1>1. /\ UNCHANGED <<memoryVars, slots, seen, consumerSequence, consumerBytes, OfProducer>>
      /\ seen' = seen /\ consumerSequence' = consumerSequence
      /\ outputError' = outputError /\ unwritten' = unwritten
      /\ cPc = "drain" /\ cPc' = "release" /\ consumerSequence < seen
  BY DEF WriteBatch, CGoto
<1>2. mem' = mem /\ cBuffer' = cBuffer /\ pPc' = pPc /\ producerSequence' = producerSequence
  BY <1>1 DEF memoryVars, OfProducer, producerVars
<1>3. accepted \in Seq(Nat) /\ consumerSequence \in Nat
  BY DEF WriterInv, WriterTypes
<1> DEFINE n == slots[SlotOf(consumerSequence)].number
<1>4. n \in Nat
  <2>1. SlotOf(consumerSequence) \in 0 .. Slots - 1
    BY <1>3, SlotRange
  <2>2. QED
    BY <2>1 DEF WriterInv, WriterTypes
<1>5. \/ accepted' = Append(accepted, n) /\ pending' = "none"
      \/ accepted' = accepted /\ pending' = "write"
  BY DEF WriteBatch
<1> HIDE DEF n
<1>6. /\ accepted' \in Seq(Nat) /\ pending' \in Errors
      /\ pending' = "none" => Len(accepted') = Len(accepted) + 1
  <2>1. Append(accepted, n) \in Seq(Nat) /\ Len(Append(accepted, n)) = Len(accepted) + 1
    BY <1>3, <1>4
  <2>2. QED
    BY <1>3, <1>5, <2>1, ZenonT(30) DEF Errors
<1>7. outputError = "none" => Len(accepted) = consumerSequence
  BY <1>1, SMTT(30) DEF WriterInv, OutcomeInv
<1>8. OutcomeInv'
  BY <1>1, <1>2, <1>6, <1>7 DEF WriterInv, OutcomeInv, Finishing
<1>9. QED
  BY <1>1, <1>6, <1>8, QuietConsumer DEF CPcs

(* A step in which a call on the output set may fail.                      *)
LEMMA PendingStepInv ==
  ASSUME WriterInv, AwaitPublish \/ AgeFlush \/ CloseAll
  PROVE  WriterInv'
<1>1. /\ UNCHANGED <<memoryVars, slots, seen, consumerSequence, consumerBytes, OfProducer>>
      /\ UNCHANGED resultVars
  BY DEF AwaitPublish, AgeFlush, CloseAll
<1>2. /\ mem' = mem /\ cBuffer' = cBuffer /\ pPc' = pPc
      /\ producerSequence' = producerSequence /\ consumerSequence' = consumerSequence
      /\ accepted' = accepted /\ outputError' = outputError /\ unwritten' = unwritten
  BY <1>1 DEF memoryVars, OfProducer, producerVars, resultVars
<1>3. \/ /\ cPc = "awaitPublish" /\ cPc' \in {"drain", "discardLoad", "metrics"} /\ pending' = "none"
      \/ cPc = "flush" /\ cPc' = "closeCheck" /\ pending' = pending
      \/ cPc = "flush" /\ cPc' = "latch" /\ pending' = "flush"
      \/ cPc = "closeAll" /\ cPc' = "metrics" /\ pending' = pending
      \/ cPc = "closeAll" /\ cPc' = "latch" /\ pending' = "close"
  BY DEF AwaitPublish, AfterFailure, AgeFlush, CloseAll, CGoto
<1>4. pending' \in Errors /\ accepted' \in Seq(Nat) /\ cPc' \in CPcs /\ cPc' # "release"
  BY <1>2, <1>3 DEF WriterInv, WriterTypes, Errors, CPcs
<1>5. OutcomeInv'
  BY <1>2, <1>3, Zenon DEF WriterInv, OutcomeInv, Finishing
<1>6. QED
  BY <1>1, <1>2, <1>4, <1>5, QuietConsumer, ZenonT(30)

LEMMA FinalMetricsInv ==
  ASSUME WriterInv, FinalMetrics
  PROVE  WriterInv'
<1>1. /\ UNCHANGED <<memoryVars, slots, seen, consumerSequence, consumerBytes, OfProducer>>
      /\ UNCHANGED <<pending, accepted, outputError>>
      /\ cPc = "metrics" /\ cPc' = "done"
  BY DEF FinalMetrics, CGoto, consumerVars
<1>2. mem' = mem /\ cBuffer' = cBuffer /\ pPc' = pPc /\ producerSequence' = producerSequence
  BY <1>1 DEF memoryVars, OfProducer, producerVars
<1>3. outputError = "none" => unwritten' = 0
  <2> SUFFICES ASSUME outputError = "none" PROVE unwritten' = 0
    OBVIOUS
  <2>1. /\ mem["close"] # FALSE /\ consumerSequence = producerSequence
        /\ pending = "none" /\ Len(accepted) = consumerSequence
    BY <1>1, Zenon DEF WriterInv, OutcomeInv, Finishing
  <2>2. pBuffer = << >> /\ Latest(mem, pBuffer, "rows", producerSequence)
    BY <2>1 DEF WriterInv, CloseInv
  <2>3. mem["rows"] = producerSequence
    BY <2>2, EmptyBuffer
  <2>4. CLoad("rows") = producerSequence /\ producerSequence \in Nat
    BY <2>3, ConsumerLoads, Zenon DEF WriterInv, WriterTypes
  <2>5. unwritten' = IF CLoad("rows") >= Len(accepted) THEN CLoad("rows") - Len(accepted) ELSE 0
    BY DEF FinalMetrics
  <2>6. QED
    BY <2>1, <2>4, <2>5
<1>4. OutcomeInv'
  BY <1>1, <1>2, <1>3, Zenon DEF WriterInv, OutcomeInv, Finishing
<1>5. QED
  BY <1>1, <1>4, QuietConsumer, SMTT(30) DEF CPcs, WriterInv, WriterTypes

LEMMA ConsumerStepInv ==
  ASSUME WriterInv, ConsumerStep \/ WaitTimeout
  PROVE  WriterInv'
<1> USE DEF CPcs, Finishing
<1>1. CASE LoadPublished
  BY <1>1, LoadPublishedInv
<1>2. CASE WriteBatch
  BY <1>2, WriteBatchInv
<1>3. CASE ReleaseSlot
  BY <1>3, ReleaseSlotInv
<1>4. CASE StoreReleased \/ LatchFailure \/ StoreSleeping \/ ClaimResume \/ NotifyFailure
  BY <1>4, ConsumerStoresInv
<1>5. CASE AwaitPublish \/ AgeFlush \/ CloseAll
  BY <1>5, PendingStepInv
<1>6. CASE FinalMetrics
  BY <1>6, FinalMetricsInv
<1>7. CASE EndDrain
  <2>1. /\ cPc = "drain" /\ cPc' \in {"discardLoad", "flush"}
        /\ cPc' = "discardLoad" => outputError # "none"
    BY <1>7, ConsumerLoads, Zenon DEF EndDrain, CGoto
  <2>2. QED
    BY <1>7, <2>1, MovingConsumer, Zenon DEF EndDrain, WriterInv, OutcomeInv
<1>8. CASE NotifyResume
  <2>1. /\ cPc = "notify" /\ cPc' \in {"claim", "latch", "discard", "drain"}
        /\ cPc' = "latch" => pending # "none"
        /\ cPc' \in {"discard", "drain"} => pending = "none"
        /\ cPc' = "discard" => outputError # "none"
    BY <1>8, ConsumerLoads, Zenon DEF NotifyResume, AfterRelease, CGoto
  <2>2. QED
    BY <1>8, <2>1, MovingConsumer, Zenon DEF NotifyResume
<1>9. CASE DiscardPublished
  <2>1. cPc = "discard" /\ outputError # "none"
    BY <1>9 DEF DiscardPublished, CGoto, WriterInv, OutcomeInv
  <2>2. CASE cPc' = "closeAll"
    BY <1>9, <2>1, <2>2, MovingConsumer, Zenon DEF DiscardPublished
  <2>3. CASE cPc' = "release" /\ consumerSequence < seen
    <3>1. /\ UNCHANGED <<memoryVars, slots, seen, consumerSequence, consumerBytes, OfProducer>>
          /\ pending' = pending /\ accepted' = accepted /\ outputError' = outputError
          /\ pPc' = pPc
      BY <1>9, ZenonT(30) DEF DiscardPublished, consumerVars, resultVars, OfProducer
    <3>2. OutcomeInv'
      BY <2>1, <2>3, <3>1 DEF WriterInv, OutcomeInv
    <3>3. QED
      BY <2>3, <3>1, <3>2, QuietConsumer DEF WriterInv, WriterTypes
  <2>4. QED
    BY <1>9, <2>2, <2>3 DEF DiscardPublished, CGoto
<1>10. CASE CheckClose
  <2>1. cPc = "closeCheck" /\ cPc' \in {"closeAll", "lock"}
    BY <1>10 DEF CheckClose, CGoto
  <2>2. ASSUME cPc' = "closeAll"
        PROVE  mem["close"] # FALSE /\ consumerSequence = producerSequence
    <3>1. mem["close"] # FALSE /\ consumerSequence = mem["published"]
      BY <1>10, <2>2, ConsumerLoads, Zenon DEF CheckClose, CGoto
    <3>2. pBuffer = << >> /\ pPc \notin Publishing
      BY <3>1, Zenon DEF WriterInv, CloseInv, Closing, Publishing
    <3>3. Latest(mem, pBuffer, "published", producerSequence)
      BY <3>2 DEF WriterInv, CloseInv
    <3>4. mem["published"] = producerSequence
      BY <3>2, <3>3, EmptyBuffer
    <3>5. QED
      BY <3>1, <3>4, Zenon
  <2>3. outputError = "none" => pending = "none"
    BY <2>1 DEF WriterInv, OutcomeInv
  <2>4. QED
    BY <1>10, <2>1, <2>2, <2>3, MovingConsumer, Zenon DEF CheckClose
<1>11. CASE LockSleepMutex \/ EvaluatePredicate \/ Park \/ WakeUp \/ WaitTimeout \/ Unlock
  <2>1. /\ UNCHANGED <<memoryVars, slots, consumerVars, resultVars, OfProducer>>
        /\ cPc \in {"lock", "predicate", "park", "waiting", "unlock"}
        /\ cPc' \in {"sleep", "awake", "park", "waiting", "predicate", "load"}
    BY <1>11 DEF LockSleepMutex, EvaluatePredicate, Park, WakeUp, WaitTimeout, Unlock, CGoto
  <2>2. outputError = "none" => pending = "none"
    BY <2>1 DEF WriterInv, OutcomeInv
  <2>3. QED
    BY <2>1, <2>2, MovingConsumer, Zenon
<1>12. QED
  BY <1>1, <1>2, <1>3, <1>4, <1>5, <1>6, <1>7, <1>8, <1>9, <1>10, <1>11, ZenonT(30) DEF ConsumerStep

LEMMA WriterStutterInv ==
  ASSUME WriterInv, UNCHANGED vars
  PROVE  WriterInv'
<1>1. /\ UNCHANGED <<memoryVars, slots, producerSequence, producerBytes, OfConsumer>>
      /\ size' = size /\ pPc' = pPc
  BY ZenonT(30) DEF vars, OfConsumer, producerVars
<1>2. size' \in Nat /\ pPc' \in PPcs /\ (pPc' = "joined" => cPc = "done")
  BY <1>1 DEF WriterInv, WriterTypes, OutcomeInv
<1>3. QED
  BY <1>1, <1>2, QuietProducer DEF ProducerOwnsSlot

LEMMA WriterInvariant == Safety => []WriterInv
<1>1. ASSUME WriterInv, [Next]_vars
      PROVE  WriterInv'
  BY <1>1, ProducerStepInv, ConsumerStepInv, PDrainInv, CDrainInv, WriterStutterInv
  DEF Next, Terminated
<1>2. QED
  BY <1>1, WriterInitInv, PTL DEF Safety

(* However the two threads interleave, however long their stores are       *)
(* delayed and whatever the sizes of ring and buffers, producer and        *)
(* consumer are never at the same slot, the consumer finds the batch of    *)
(* its number whole, and a run that reports success has written all rows.  *)
THEOREM RingHandsOverOnce == Safety => []BatchesHandedOverOnce
BY WriterInvariant, WriterInvSuffices, PTL

-----------------------------------------------------------------------------
(* What the steps of each thread do to the memory, the slots and the       *)
(* counters.                                                               *)
LEMMA ProducerClasses ==
  ASSUME ProducerStep \/ Environment
  PROVE  \/ PublishStage
         \/ TryAcquire
         \/ /\ UNCHANGED <<slots, producerSequence, producerBytes, OfConsumer>>
            /\ \/ pPc' = "storePublished" /\ PStore("bytesPublished", producerBytes)
               \/ /\ pPc = "storePublished" /\ pPc' # "storePublished"
                  /\ PStore("published", producerSequence)
               \/ /\ pPc' # "storePublished"
                  /\ \/ UNCHANGED memoryVars
                     \/ Exchange(pBuffer, "armed", FALSE)
                     \/ \E x \in {"publishActive", "armed", "close"}, v \in BOOLEAN : PStore(x, v)
<1> USE DEF PGoto
<1> DEFINE Same == UNCHANGED <<slots, producerSequence, producerBytes, OfConsumer>>
           Flag == \E x \in {"publishActive", "armed", "close"}, v \in BOOLEAN : PStore(x, v)
<1>1. PublishBegin => Same /\ pPc' # "storePublished" /\ Flag
  BY Zenon DEF PublishBegin
<1>2. PublishReject => Same /\ pPc' # "storePublished" /\ Flag
  BY Zenon DEF PublishReject, producerVars
<1>3. Close => Same /\ pPc' # "storePublished" /\ Flag
  BY Zenon DEF Close, producerVars
<1>4. PublishStore => \/ Same /\ pPc' = "storePublished" /\ PStore("bytesPublished", producerBytes)
                      \/ /\ Same /\ pPc = "storePublished" /\ pPc' # "storePublished"
                         /\ PStore("published", producerSequence)
                      \/ Same /\ pPc' # "storePublished" /\ Flag
  BY Zenon DEF PublishStore, producerVars
<1>5. ArmResume => Same /\ pPc' # "storePublished" /\ (Flag \/ UNCHANGED memoryVars)
  BY Zenon DEF ArmResume, producerVars
<1>6. ArmClaim => Same /\ pPc' # "storePublished" /\ Exchange(pBuffer, "armed", FALSE)
  BY Zenon DEF ArmClaim, producerVars
<1>7. Cancel \/ PublishNotFailed \/ Wake \/ Join \/ OnBackpressureTimeout \/ OnSessionTerminal \/ OnOpen
        => Same /\ pPc' # "storePublished" /\ UNCHANGED memoryVars
  BY ZenonT(30) DEF Cancel, PublishNotFailed, Wake, Join, OnBackpressureTimeout,
                    OnSessionTerminal, OnOpen, producerVars
<1>8. NotifyWriter \/ PauseForBackpressure \/ ArmRecheck \/ OnWriterResume
        => Same /\ pPc' # "storePublished" /\ UNCHANGED memoryVars
  <2>1. NotifyWriter \/ PauseForBackpressure \/ ArmRecheck \/ OnWriterResume
          => pPc' # "storePublished"
    BY DEF NotifyWriter, PauseForBackpressure, ArmRecheck, OnWriterResume, controllerVars
  <2>2. NotifyWriter \/ PauseForBackpressure \/ ArmRecheck \/ OnWriterResume
          => Same /\ UNCHANGED memoryVars
    BY Zenon DEF NotifyWriter, PauseForBackpressure, ArmRecheck, OnWriterResume, producerVars
  <2>3. QED
    BY <2>1, <2>2
<1> HIDE DEF Same, Flag
<1>9. \/ PublishStage \/ TryAcquire
      \/ Same /\ pPc' = "storePublished" /\ PStore("bytesPublished", producerBytes)
      \/ /\ Same /\ pPc = "storePublished" /\ pPc' # "storePublished"
         /\ PStore("published", producerSequence)
      \/ /\ Same /\ pPc' # "storePublished"
         /\ Flag \/ UNCHANGED memoryVars \/ Exchange(pBuffer, "armed", FALSE)
  BY <1>1, <1>2, <1>3, <1>4, <1>5, <1>6, <1>7, <1>8, ZenonT(30) DEF ProducerStep, Environment
<1>10. QED
  BY <1>9, Zenon DEF Same, Flag

LEMMA ConsumerClasses ==
  ASSUME ConsumerStep \/ WaitTimeout
  PROVE  /\ UNCHANGED OfProducer
         /\ \/ ReleaseSlot
            \/ /\ UNCHANGED <<slots, consumerSequence, consumerBytes>>
               /\ \/ CStore("released", consumerSequence)
                  \/ UNCHANGED memoryVars
                  \/ \E x \in {"armed", "failureSent"}, v \in BOOLEAN : Exchange(cBuffer, x, v)
                  \/ \E x \in {"failed", "sleeping"}, v \in BOOLEAN : CStore(x, v)
<1> DEFINE Same == UNCHANGED <<slots, consumerSequence, consumerBytes>>
           Flag == \E x \in {"failed", "sleeping"}, v \in BOOLEAN : CStore(x, v)
           Claim == \E x \in {"armed", "failureSent"}, v \in BOOLEAN : Exchange(cBuffer, x, v)
<1>1. UNCHANGED OfProducer
  BY Zenon DEF ConsumerStep, WaitTimeout, LoadPublished, WriteBatch, EndDrain, ReleaseSlot,
         StoreReleased, NotifyResume, ClaimResume, DiscardPublished, LatchFailure,
         NotifyFailure, AwaitPublish, AgeFlush, CheckClose, LockSleepMutex, StoreSleeping,
         EvaluatePredicate, Park, WakeUp, Unlock, CloseAll, FinalMetrics
<1>2. StoreReleased => Same /\ CStore("released", consumerSequence)
  BY Zenon DEF StoreReleased, consumerVars
<1>3. ClaimResume \/ NotifyFailure => Same /\ Claim
  BY Zenon DEF ClaimResume, NotifyFailure, consumerVars
<1>4. LatchFailure \/ StoreSleeping => Same /\ Flag
  BY Zenon DEF LatchFailure, StoreSleeping, consumerVars
<1>5. (\/ LoadPublished \/ WriteBatch \/ EndDrain \/ NotifyResume \/ DiscardPublished
       \/ AwaitPublish \/ AgeFlush \/ CheckClose \/ LockSleepMutex \/ EvaluatePredicate
       \/ Park \/ WakeUp \/ WaitTimeout \/ Unlock \/ CloseAll \/ FinalMetrics)
        => Same /\ UNCHANGED memoryVars
  BY Zenon DEF LoadPublished, WriteBatch, EndDrain, NotifyResume, DiscardPublished,
         AwaitPublish, AgeFlush, CheckClose, LockSleepMutex, EvaluatePredicate, Park, WakeUp,
         WaitTimeout, Unlock, CloseAll, FinalMetrics, consumerVars
<1> HIDE DEF Same, Flag, Claim
<1>6. \/ ReleaseSlot
      \/ Same /\ (CStore("released", consumerSequence) \/ UNCHANGED memoryVars \/ Claim \/ Flag)
  BY <1>2, <1>3, <1>4, <1>5, ZenonT(30) DEF ConsumerStep
<1>7. QED
  BY <1>1, <1>6, Zenon DEF Same, Flag, Claim

(* The producer stores none of the consumer's atomics.                     *)
LEMMA ProducerKeepsReleased ==
  ASSUME WriterInv, ProducerStep \/ Environment
  PROVE  /\ UNCHANGED OfConsumer /\ cBuffer' = cBuffer
         /\ \A y \in CAtomics \cup {"failureSent"} : mem'[y] = mem[y]
<1> DEFINE Others == CAtomics \cup {"failureSent"}
<1>0. Others \subseteq Atomics /\ Others \cap PAtomics = {} /\ "armed" \notin Others
  BY DEF PAtomics, CAtomics, Atomics, Counters, Flags
<1> SUFFICES /\ UNCHANGED OfConsumer /\ cBuffer' = cBuffer
             /\ \A y \in Others : mem'[y] = mem[y]
  OBVIOUS
<1> HIDE DEF Others
<1>1. /\ MemoryTypes /\ producerSequence \in Values /\ producerSequence + 1 \in Values
      /\ producerBytes \in Values /\ BOOLEAN \subseteq Values
      /\ {"rows", "bytesPublished", "published", "publishActive", "armed", "close"} \subseteq PAtomics
  BY DEF WriterInv, WriterTypes, Values, PAtomics
<1>2. ASSUME NEW x \in PAtomics, NEW v \in Values, PStore(x, v)
      PROVE  cBuffer' = cBuffer /\ \A y \in Others : mem'[y] = mem[y]
  BY <1>0, <1>1, <1>2, PStoreView, Zenon
<1>3. CASE PublishStage
  BY <1>1, <1>2, <1>3 DEF PublishStage
<1>4. CASE TryAcquire
  BY <1>4 DEF TryAcquire, memoryVars
<1>5. CASE /\ UNCHANGED OfConsumer
           /\ \/ UNCHANGED memoryVars
              \/ Exchange(pBuffer, "armed", FALSE)
              \/ \E x \in PAtomics, v \in Values : PStore(x, v)
  <2>1. Exchange(pBuffer, "armed", FALSE) => cBuffer' = cBuffer /\ \A y \in Others : mem'[y] = mem[y]
    BY <1>0, <1>1, ExchangeView, Zenon
  <2>2. QED
    BY <1>2, <1>5, <2>1, Zenon DEF memoryVars
<1>6. QED
  BY <1>1, <1>3, <1>4, <1>5, ProducerClasses, ZenonT(30)

-----------------------------------------------------------------------------
(* Failures and notifications.  The consumer's store of writer_failed is   *)
(* pending only until the exchange that follows it, so between two calls   *)
(* of latch_output_failure an error is visible and has been reported: the  *)
(* notification is posted, or its handler has stopped the run.             *)

Notice == Latest(mem, pBuffer, "armed", TRUE) \/ posted > 0 \/ cPc = "notifyFailure"

FailureInv ==
  /\ outputError # "none" => Latest(mem, cBuffer, "failed", TRUE)
  /\ cPc # "notifyFailure" => NoEntry(cBuffer, "failed")
  /\ outputError # "none" /\ cPc # "notifyFailure" => mem["failureSent"] = TRUE
  /\ mem["failureSent"] \in BOOLEAN
  /\ mem["failureSent"] = TRUE =>
       /\ outputError # "none"
       /\ AllIn(mem, cBuffer, "failed", {TRUE})
       /\ posted > 0 \/ stopping = TRUE

(* A producer that reads is not paused, one that has stopped does not      *)
(* publish, and a pause has its notice.                                    *)
PausedInv ==
  /\ open \in BOOLEAN /\ paused \in BOOLEAN /\ stopping \in BOOLEAN /\ posted \in Nat
  /\ pPc \in {"filling", "checkFailed", "checkBytes"} => stopping = FALSE
  /\ pPc \in Closing => stopping = TRUE
  /\ pPc \notin {"idle", "arm", "armCheck", "armClaim"} \cup Closing => paused = FALSE
  /\ paused = TRUE \/ pPc \notin {"idle"} \cup Closing => open = TRUE
  /\ pPc \in {"idle", "armCheck", "armClaim"} /\ paused = TRUE /\ stopping = FALSE => Notice

NoticeInv == FailureInv /\ PausedInv

LEMMA FailedLoads ==
  ASSUME WriterInv, FailureInv
  PROVE  /\ PLoad("failed") = mem["failed"]
         /\ mem["failed"] = TRUE => outputError # "none"
         /\ cPc # "notifyFailure" =>
              CLoad("failed") = mem["failed"] /\ (outputError # "none" => mem["failed"] = TRUE)
<1>1. PLoad("failed") = mem["failed"]
  BY ProducerLoads
<1>2. mem["failed"] = TRUE => outputError # "none"
  BY DEF WriterInv, OutcomeInv
<1>3. cPc # "notifyFailure" => CLoad("failed") = mem["failed"]
  BY LoadOfOther, Zenon DEF FailureInv, CLoad
<1>4. cPc # "notifyFailure" /\ outputError # "none" => mem["failed"] = TRUE
  BY Zenon DEF FailureInv, Latest
<1>5. QED
  BY <1>1, <1>2, <1>3, <1>4

(* A thread whose latest store is v loads v.                               *)
LEMMA LoadLatest ==
  ASSUME NEW b \in Seq(Store), NEW x, NEW v, Latest(mem, b, x, v)
  PROVE  Load(b, x) = v
<1> DEFINE own == {i \in 1 .. Len(b) : b[i].atomic = x}
           n == Len(b)
<1>1. n \in Nat
  BY LenProperties, SMTT(30)
<1>2. CASE own = {}
  BY <1>2 DEF Load, Latest, NoEntry
<1>3. CASE own # {}
  <2> DEFINE T == {n - i : i \in own}
  <2>1. T \subseteq Nat /\ T # {}
    BY <1>1, <1>3
  <2>2. PICK t \in T : \A u \in T : t <= u
    <3> HIDE DEF T
    <3>1. QED
      BY <2>1, LeastNatural, Zenon
  <2>3. PICK i \in own : t = n - i
    BY SMTT(30)
  <2>4. \A j \in own : n - i <= n - j
    BY <2>2, <2>3, ZenonT(30)
  <2>5. \A j \in own : j <= i
    BY <1>1, <2>4
  <2>6. PICK k \in own : /\ k = (CHOOSE m \in own : \A j \in own : j <= m)
                         /\ \A j \in own : j <= k
    <3> HIDE DEF own
    <3>1. QED
      BY <2>5, Zenon
  <2>7. Load(b, x) = b[k].value
    BY <1>3, <2>6, ZenonT(30) DEF Load
  <2>8. \A j \in k + 1 .. Len(b) : b[j].atomic # x
    <3>1. k \in 1 .. n
      BY SMTT(30)
    <3>2. ASSUME NEW j \in k + 1 .. n PROVE j \in 1 .. n /\ ~ (j <= k)
      BY <1>1, <3>1
    <3>3. \A j \in own : j <= k
      BY <2>6, Zenon
    <3>4. QED
      BY <3>2, <3>3, ZenonT(30)
  <2>9. QED
    BY <2>7, <2>8, ZenonT(30) DEF Latest
<1>4. QED
  BY <1>2, <1>3

(* What the stores of the consumer leave as its latest.                    *)
LEMMA CStoreLatest ==
  ASSUME MemoryTypes, NEW x \in CAtomics, NEW v \in Values, CStore(x, v), NEW y \in Atomics
  PROVE  /\ y = x => Latest(mem', cBuffer', y, v)
         /\ \A w : Latest(mem, cBuffer, y, w) /\ y # x => Latest(mem', cBuffer', y, w)
<1>1. mem \in Memory /\ cBuffer \in Seq(Store) /\ x \in Atomics
  BY AtomicSets DEF MemoryTypes
<1>2. CASE StoreBuffer > 0
  <2> DEFINE e == [atomic |-> x, value |-> v]
  <2>1. cBuffer' = Append(cBuffer, e) /\ mem' = mem
    BY <1>2, SMTT(30) DEF CStore
  <2>2. e \in Store /\ e.atomic = x /\ e.value = v
    BY <1>1, SMTT(30) DEF Store
  <2> HIDE DEF e
  <2>3. QED
    BY <1>1, <2>1, <2>2, AppendView, Zenon
<1>3. CASE ~ (StoreBuffer > 0)
  <2>1. cBuffer = << >> /\ cBuffer' = << >> /\ mem' = [mem EXCEPT ![x] = v]
    BY <1>3, StoreBufferAssumption DEF CStore, MemoryTypes
  <2>2. mem'[y] = IF y = x THEN v ELSE mem[y]
    BY <1>1, <2>1 DEF Memory
  <2>3. \A w : Latest(mem, cBuffer, y, w) => mem[y] = w
    BY <2>1, EmptyBuffer, Zenon
  <2>4. Latest(mem', cBuffer', y, mem'[y])
    BY <2>1, EmptyBuffer, Zenon
  <2>5. QED
    BY <2>2, <2>3, <2>4, SMTT(30)
<1>4. QED
  BY <1>2, <1>3, SMTT(30)

LEMMA CDrainLatest ==
  ASSUME MemoryTypes, CDrain, NEW y \in Atomics
  PROVE  \A w : Latest(mem, cBuffer, y, w) => Latest(mem', cBuffer', y, w)
<1>1. /\ cBuffer # << >> /\ cBuffer' = Tail(cBuffer)
      /\ mem' = [mem EXCEPT ![Head(cBuffer).atomic] = Head(cBuffer).value]
  BY ZenonT(30) DEF CDrain
<1>2. mem \in Memory /\ cBuffer \in Seq(Store)
  BY DEF MemoryTypes
<1>3. QED
  BY <1>1, <1>2, DrainView, Zenon

(* What the steps of the producer do to the pause and its notice.          *)
LEMMA ProducerNotices ==
  ASSUME WriterInv, NoticeInv, ProducerStep \/ Environment
  PROVE  /\ PausedInv'
         /\ mem["failureSent"] = TRUE => posted' > 0 \/ stopping' = TRUE
         /\ stopping = TRUE => stopping' = TRUE
<1> DEFINE Keeps == posted' = posted /\ (stopping = TRUE => stopping' = TRUE)
<1>1. cPc' = cPc
  BY ProducerKeepsReleased, ZenonT(30) DEF OfConsumer
<1>2. MemoryTypes /\ posted \in Nat
  BY DEF WriterInv, WriterTypes, NoticeInv, PausedInv
<1>3. mem["failureSent"] = TRUE => mem["failed"] = TRUE /\ (posted > 0 \/ stopping = TRUE)
  BY Zenon DEF NoticeInv, FailureInv, AllIn
<1>4. PLoad("failed") = mem["failed"]
  BY ProducerLoads
<1>5. UNCHANGED memoryVars /\ posted' = posted => (Notice => Notice')
  BY <1>1, Zenon DEF memoryVars, Notice
<1> USE DEF PGoto, Closing
<1>6. CASE \/ TryAcquire \/ Cancel \/ PublishBegin \/ PublishNotFailed \/ PublishReject
           \/ PublishStage \/ PublishStore \/ NotifyWriter \/ Wake
  <2>1. TryAcquire =>
          /\ pPc = "idle" /\ open = TRUE /\ paused = FALSE /\ stopping = FALSE
          /\ UNCHANGED <<open, paused, posted>>
          /\ \/ pPc' = "idle" /\ stopping' = TRUE
             \/ pPc' = "filling" /\ stopping' = FALSE
    <3>1. TryAcquire => pPc = "idle" /\ open /\ ~ paused /\ ~ stopping /\ UNCHANGED <<open, paused, posted>>
      BY Zenon DEF TryAcquire
    <3>2. TryAcquire => \/ pPc' = pPc /\ stopping' = TRUE
                        \/ pPc' = "filling" /\ stopping' = stopping
      BY Zenon DEF TryAcquire
    <3>3. QED
      BY <3>1, <3>2 DEF NoticeInv, PausedInv
  <2>2. TryAcquire => PausedInv' /\ Keeps
    BY <1>2, <2>1, ZenonT(30) DEF NoticeInv, PausedInv
  <2>3. Cancel \/ PublishBegin \/ PublishNotFailed \/ PublishReject => PausedInv' /\ Keeps
    <3>1. Cancel \/ PublishBegin \/ PublishNotFailed \/ PublishReject =>
            /\ pPc \in {"filling", "checkFailed", "checkBytes"}
            /\ \/ pPc' \in {"checkFailed", "checkBytes"} /\ stopping' = stopping
               \/ pPc' = "idle" /\ stopping' \in BOOLEAN
            /\ UNCHANGED <<open, paused, posted>>
      BY Zenon DEF Cancel, PublishBegin, PublishNotFailed, PublishReject, controllerVars
    <3>2. QED
      BY <1>2, <3>1 DEF NoticeInv, PausedInv
  <2>4. PublishStage \/ PublishStore \/ NotifyWriter \/ Wake => PausedInv' /\ Keeps
    BY <1>2, ZenonT(30)
    DEF NoticeInv, PausedInv, PublishStage, PublishStore, NotifyWriter, Wake, controllerVars
  <2>5. QED
    BY <1>3, <1>6, <2>2, <2>3, <2>4, Zenon
<1>7. CASE PauseForBackpressure
  <2>1. /\ pPc = "pauseCheck" /\ UNCHANGED <<open, stopping, posted>>
        /\ \/ pPc' = "idle" /\ UNCHANGED paused
           \/ pPc' = "arm" /\ paused' = TRUE
    BY <1>7, Zenon DEF PauseForBackpressure
  <2>2. open = TRUE /\ stopping \in BOOLEAN /\ paused = FALSE
    BY <2>1, Zenon DEF NoticeInv, PausedInv
  <2>3. PausedInv'
    BY <1>2, <2>1, <2>2, ZenonT(30) DEF PausedInv
  <2>4. QED
    BY <1>3, <2>1, <2>3
<1>8. CASE ArmResume
  <2>1. /\ pPc = "arm" /\ Keeps /\ UNCHANGED <<open, paused, stopping>>
        /\ \/ pPc' = "idle" /\ mem["failed"] = TRUE /\ UNCHANGED memoryVars
           \/ pPc' = "armCheck" /\ PStore("armed", TRUE)
    BY <1>4, <1>8, Zenon DEF ArmResume, controllerVars
  <2>2. mem["failed"] = TRUE => posted > 0 \/ cPc = "notifyFailure" \/ stopping = TRUE
    BY FailedLoads, Zenon DEF NoticeInv, FailureInv
  <2>3. PStore("armed", TRUE) => Latest(mem', pBuffer', "armed", TRUE)
    BY <1>2, PStoreView, Zenon DEF PAtomics, Values
  <2>4. stopping' = TRUE \/ Notice'
    BY <1>1, <2>1, <2>2, <2>3, Zenon DEF Notice
  <2>5. PausedInv'
    BY <1>2, <2>1, <2>4, ZenonT(30) DEF NoticeInv, PausedInv
  <2>6. QED
    BY <1>3, <2>1, <2>5
<1>9. CASE ArmRecheck \/ Join \/ OnBackpressureTimeout \/ OnSessionTerminal
  <2>1. PausedInv' /\ Keeps
    BY <1>2, <1>5, <1>9, ZenonT(30)
    DEF NoticeInv, PausedInv, ArmRecheck, Join, OnBackpressureTimeout, OnSessionTerminal,
        controllerVars
  <2>2. QED
    BY <1>3, <2>1
<1>10. CASE OnOpen \/ Close
  <2>1. PausedInv' /\ Keeps
    BY <1>2, <1>10, ZenonT(30) DEF NoticeInv, PausedInv, OnOpen, Close
  <2>2. QED
    BY <1>3, <2>1
<1>11. CASE ArmClaim
  <2>1. /\ pPc = "armClaim" /\ pPc' = "idle" /\ UNCHANGED <<open, paused, stopping>>
        /\ pBuffer = << >>
        /\ posted' = posted + 1 \/ posted' = posted
        /\ mem["armed"] = TRUE => posted' = posted + 1
    BY <1>11, Zenon DEF ArmClaim, Exchange, controllerVars
  <2>2. Latest(mem, pBuffer, "armed", TRUE) => mem["armed"] = TRUE
    BY <2>1, EmptyBuffer, Zenon
  <2>3. posted' \in Nat /\ posted' >= posted
    BY <1>2, <2>1, SMTT(30)
  <2>4. posted > 0 \/ mem["armed"] = TRUE => posted' > 0
    BY <1>2, <2>1
  <2>5. Notice => Notice'
    BY <1>1, <2>2, <2>4, Zenon DEF Notice
  <2>6. PausedInv'
    BY <2>1, <2>3, <2>5, ZenonT(30) DEF NoticeInv, PausedInv
  <2>7. QED
    BY <1>3, <2>1, <2>4, <2>6, SMTT(30)
<1>12. CASE OnWriterResume
  <2>1. /\ pPc = "idle" /\ posted > 0 /\ posted' = posted - 1
        /\ \/ stopping' = TRUE /\ UNCHANGED <<pPc, open, paused>>
           \/ paused = FALSE /\ UNCHANGED <<pPc, open, paused, stopping>>
           \/ paused = TRUE /\ pPc' = "arm" /\ UNCHANGED <<open, paused, stopping>>
           \/ paused' = FALSE /\ UNCHANGED <<pPc, open, stopping>>
    BY <1>12 DEF OnWriterResume, controllerVars, NoticeInv, PausedInv
  <2>2. mem["failureSent"] = TRUE => stopping' = TRUE
    BY <1>3, <1>4, <1>12, SMTT(30) DEF OnWriterResume
  <2>3. posted' \in Nat
    BY <1>2, <2>1
  <2>4. /\ open \in BOOLEAN /\ paused \in BOOLEAN /\ stopping \in BOOLEAN
        /\ paused = TRUE => open = TRUE
    BY DEF NoticeInv, PausedInv
  <2>5. pPc' = "idle" => PausedInv'
    BY <2>1, <2>3, <2>4, ZenonT(30) DEF PausedInv
  <2>6. pPc' = "arm" => PausedInv'
    BY <2>1, <2>3, <2>4, ZenonT(30) DEF PausedInv
  <2>7. QED
    BY <1>3, <2>1, <2>2, <2>5, <2>6, SMTT(30)
<1>13. QED
  BY <1>6, <1>7, <1>8, <1>9, <1>10, <1>11, <1>12, Zenon DEF ProducerStep, Environment

LEMMA ProducerNoticeInv ==
  ASSUME WriterInv, NoticeInv, ProducerStep \/ Environment
  PROVE  NoticeInv'
<1>1. /\ cBuffer' = cBuffer /\ mem'["failed"] = mem["failed"]
      /\ mem'["failureSent"] = mem["failureSent"]
      /\ cPc' = cPc /\ outputError' = outputError
  BY ProducerKeepsReleased, Zenon DEF CAtomics, OfConsumer, resultVars
<1>2. PausedInv' /\ (mem["failureSent"] = TRUE => posted' > 0 \/ stopping' = TRUE)
  BY ProducerNotices, Zenon
<1>3. FailureInv'
  BY <1>1, <1>2, ZenonT(30) DEF NoticeInv, FailureInv, Latest, AllIn
<1>4. QED
  BY <1>2, <1>3 DEF NoticeInv

(* Steps of the consumer and of the memory leave the pause alone.          *)
LEMMA NoticeFrame ==
  ASSUME NoticeInv, UNCHANGED OfProducer, posted' \in Nat, FailureInv', Notice => Notice'
  PROVE  NoticeInv'
<1>1. /\ pPc' = pPc /\ open' = open /\ paused' = paused /\ stopping' = stopping
  BY DEF OfProducer, controllerVars
<1>2. PausedInv'
  BY <1>1, Zenon DEF NoticeInv, PausedInv
<1>3. QED
  BY <1>2 DEF NoticeInv

(* A store of the consumer in another atomic, or none.                     *)
LEMMA FailureFrame ==
  ASSUME WriterInv, NoticeInv, UNCHANGED <<posted, outputError, OfProducer>>,
         cPc # "notifyFailure", cPc' # "notifyFailure",
         \/ UNCHANGED memoryVars
         \/ \E x \in CAtomics \ {"failed"}, v \in Values : CStore(x, v)
  PROVE  NoticeInv'
<1>1. MemoryTypes /\ {"failed", "failureSent"} \subseteq Atomics /\ "armed" \in PAtomics
      /\ "failureSent" \notin CAtomics /\ stopping' = stopping
  BY DEF WriterInv, WriterTypes, Atomics, Flags, PAtomics, CAtomics, OfProducer, controllerVars
<1>2. CASE UNCHANGED memoryVars
  <2>1. mem' = mem /\ pBuffer' = pBuffer /\ cBuffer' = cBuffer
    BY <1>2 DEF memoryVars
  <2>2. FailureInv' /\ (Notice => Notice')
    BY <1>1, <2>1, ZenonT(30) DEF NoticeInv, FailureInv, Notice
  <2>3. QED
    BY <2>2, NoticeFrame, Zenon DEF NoticeInv, PausedInv
<1>3. ASSUME NEW x \in CAtomics \ {"failed"}, NEW v \in Values, CStore(x, v)
      PROVE  NoticeInv'
  <2>1. x \in CAtomics /\ x # "failed" /\ x # "failureSent"
    BY <1>1
  <2>2. /\ mem'["failureSent"] = mem["failureSent"]
        /\ NoEntry(cBuffer, "failed") => NoEntry(cBuffer', "failed")
        /\ AllIn(mem, cBuffer, "failed", {TRUE}) => AllIn(mem', cBuffer', "failed", {TRUE})
        /\ Latest(mem, pBuffer, "armed", TRUE) => Latest(mem', pBuffer', "armed", TRUE)
    BY <1>1, <1>3, <2>1, CStoreView, Zenon
  <2>3. Latest(mem, cBuffer, "failed", TRUE) => Latest(mem', cBuffer', "failed", TRUE)
    BY <1>1, <1>3, <2>1, CStoreLatest, Zenon
  <2>4. FailureInv' /\ (Notice => Notice')
    BY <1>1, <2>2, <2>3, ZenonT(30) DEF NoticeInv, FailureInv, Notice
  <2>5. QED
    BY <2>4, NoticeFrame, Zenon DEF NoticeInv, PausedInv
<1>4. QED
  BY <1>2, <1>3, Zenon

LEMMA ConsumerNoticeInv ==
  ASSUME WriterInv, NoticeInv, ConsumerStep \/ WaitTimeout
  PROVE  NoticeInv'
<1>1. MemoryTypes /\ {"failed", "failureSent", "armed"} \subseteq Atomics
      /\ "armed" \in PAtomics /\ "failed" \in CAtomics /\ TRUE \in Values
      /\ "failureSent" \notin CAtomics /\ posted \in Nat
  BY DEF WriterInv, WriterTypes, Atomics, Flags, PAtomics, CAtomics, Values, NoticeInv, PausedInv
<1>2. UNCHANGED OfProducer
  BY ConsumerClasses
<1>3. stopping' = stopping
  BY <1>2 DEF OfProducer, controllerVars
<1>4. CASE LatchFailure
  <2>1. /\ cPc = "latch" /\ cPc' = "notifyFailure" /\ CStore("failed", TRUE) /\ posted' = posted
        /\ outputError' = IF outputError = "none" THEN pending ELSE outputError
    BY <1>4, Zenon DEF LatchFailure, CGoto
  <2>2. outputError' # "none"
    BY <2>1 DEF WriterInv, OutcomeInv
  <2>3. Latest(mem', cBuffer', "failed", TRUE)
    BY <1>1, <2>1, CStoreLatest, Zenon
  <2>4. /\ mem'["failureSent"] = mem["failureSent"]
        /\ AllIn(mem, cBuffer, "failed", {TRUE}) => AllIn(mem', cBuffer', "failed", {TRUE})
    BY <1>1, <2>1, CStoreView, Zenon
  <2>5. FailureInv'
    BY <1>3, <2>1, <2>2, <2>3, <2>4, ZenonT(30) DEF NoticeInv, FailureInv
  <2>6. Notice'
    BY <2>1, Zenon DEF Notice
  <2>7. QED
    BY <1>1, <1>2, <2>1, <2>5, <2>6, NoticeFrame, Zenon
<1>5. CASE NotifyFailure
  <2>1. /\ cPc = "notifyFailure" /\ cPc' # "notifyFailure" /\ outputError' = outputError
        /\ cBuffer = << >> /\ Exchange(cBuffer, "failureSent", TRUE)
        /\ mem' = [mem EXCEPT !["failureSent"] = TRUE] /\ cBuffer' = cBuffer
    BY <1>5, Zenon DEF NotifyFailure, CGoto, Exchange, resultVars
  <2>2. outputError # "none" /\ Latest(mem, cBuffer, "failed", TRUE)
    BY <2>1, Zenon DEF WriterInv, OutcomeInv, NoticeInv, FailureInv
  <2>3. /\ mem'["failed"] = mem["failed"] /\ Latest(mem', cBuffer', "failed", TRUE)
    BY <1>1, <2>1, <2>2, ExchangeView, Zenon
  <2>4. mem["failed"] = TRUE
    BY <2>1, <2>2, EmptyBuffer, Zenon
  <2>5. AllIn(mem', cBuffer', "failed", {TRUE}) /\ NoEntry(cBuffer', "failed")
    BY <2>1, <2>3, <2>4, EmptyBuffer, Zenon
  <2>6. mem'["failureSent"] = TRUE
    BY <1>1, <2>1 DEF MemoryTypes, Memory
  <2>7. posted' \in Nat /\ (posted' > 0 \/ stopping = TRUE)
    <3>1. /\ mem["failureSent"] = TRUE => posted' = posted
          /\ mem["failureSent"] = FALSE => posted' = posted + 1
      BY <1>5, Zenon DEF NotifyFailure
    <3>2. /\ mem["failureSent"] \in BOOLEAN
          /\ mem["failureSent"] = TRUE => posted > 0 \/ stopping = TRUE
      BY DEF NoticeInv, FailureInv
    <3>3. CASE mem["failureSent"] = TRUE
      BY <1>1, <3>1, <3>2, <3>3, SMTT(30)
    <3>4. CASE mem["failureSent"] = FALSE
      BY <1>1, <3>1, <3>4
    <3>5. QED
      BY <3>2, <3>3, <3>4, Zenon
  <2>8. FailureInv'
    BY <1>3, <2>1, <2>2, <2>3, <2>5, <2>6, <2>7, ZenonT(30) DEF FailureInv
  <2>9. PausedInv'
    <3>1. /\ pPc' = pPc /\ open' = open /\ paused' = paused
      BY <1>2 DEF OfProducer, controllerVars
    <3>2. stopping = FALSE => Notice'
      BY <2>7, Zenon DEF Notice
    <3>3. QED
      BY <1>3, <2>7, <3>1, <3>2, ZenonT(30) DEF NoticeInv, PausedInv
  <2>10. QED
    BY <2>8, <2>9 DEF NoticeInv
<1>6. CASE ClaimResume
  <2>1. /\ cPc # "notifyFailure" /\ cPc' # "notifyFailure" /\ outputError' = outputError
        /\ Exchange(cBuffer, "armed", FALSE)
        /\ posted' = posted + 1 \/ posted' = posted
        /\ mem["armed"] = TRUE => posted' = posted + 1
    BY <1>6, Zenon DEF ClaimResume, CGoto, AfterRelease, resultVars
  <2>2. /\ pBuffer' = pBuffer /\ cBuffer' = cBuffer
        /\ mem'["failed"] = mem["failed"] /\ mem'["failureSent"] = mem["failureSent"]
    BY <1>1, <2>1, ExchangeView, Zenon
  <2>3. /\ posted' \in Nat /\ (posted > 0 => posted' > 0)
        /\ mem["armed"] = TRUE => posted' > 0
    BY <1>1, <2>1
  <2>4. FailureInv'
    BY <1>3, <2>1, <2>2, <2>3, ZenonT(30) DEF NoticeInv, FailureInv, Latest, AllIn
  <2>5. ASSUME Latest(mem, pBuffer, "armed", TRUE)
        PROVE  posted' > 0 \/ Latest(mem', pBuffer', "armed", TRUE)
    <3>1. CASE NoEntry(pBuffer, "armed")
      BY <2>3, <2>5, <3>1 DEF Latest
    <3>2. CASE ~ NoEntry(pBuffer, "armed")
      BY <2>2, <2>5, <3>2, Zenon DEF Latest
    <3>3. QED
      BY <3>1, <3>2, Zenon
  <2>6. Notice => Notice'
    BY <2>1, <2>3, <2>5, Zenon DEF Notice
  <2>7. QED
    BY <1>2, <2>3, <2>4, <2>6, NoticeFrame, Zenon
<1>7. CASE ReleaseSlot \/ StoreReleased \/ StoreSleeping
  <2>1. consumerSequence \in Values /\ BOOLEAN \subseteq Values
        /\ {"bytesReleased", "released", "sleeping"} \subseteq CAtomics \ {"failed"}
        /\ consumerBytes + slots[SlotOf(consumerSequence)].size \in Values
    <3>1. slots[SlotOf(consumerSequence)].size \in Nat
      BY SlotRange, Zenon DEF WriterInv, WriterTypes
    <3>2. QED
      BY <3>1 DEF WriterInv, WriterTypes, Values, CAtomics
  <2>2. /\ cPc # "notifyFailure" /\ cPc' # "notifyFailure" /\ UNCHANGED <<posted, outputError>>
        /\ \E x \in CAtomics \ {"failed"}, v \in Values : CStore(x, v)
    BY <1>7, <2>1, ZenonT(30) DEF ReleaseSlot, StoreReleased, StoreSleeping, CGoto, resultVars
  <2>3. QED
    BY <1>2, <2>2, FailureFrame, Zenon
<1>8. CASE \/ LoadPublished \/ WriteBatch \/ EndDrain \/ NotifyResume \/ DiscardPublished
           \/ AwaitPublish \/ AgeFlush \/ CheckClose \/ LockSleepMutex \/ EvaluatePredicate
           \/ Park \/ WakeUp \/ WaitTimeout \/ Unlock \/ CloseAll \/ FinalMetrics
  <2>1. /\ cPc # "notifyFailure" /\ cPc' # "notifyFailure"
        /\ UNCHANGED <<posted, outputError, memoryVars>>
    BY <1>8, ZenonT(30)
    DEF LoadPublished, WriteBatch, EndDrain, NotifyResume, AfterRelease, DiscardPublished,
        AwaitPublish, AfterFailure, AgeFlush, CheckClose, LockSleepMutex, EvaluatePredicate,
        Park, WakeUp, WaitTimeout, Unlock, CloseAll, FinalMetrics, CGoto, resultVars
  <2>2. QED
    BY <1>2, <2>1, FailureFrame, Zenon
<1>9. QED
  BY <1>4, <1>5, <1>6, <1>7, <1>8, ZenonT(30) DEF ConsumerStep

LEMMA DrainNoticeInv ==
  ASSUME WriterInv, NoticeInv, PDrain \/ CDrain
  PROVE  NoticeInv'
<1>1. MemoryTypes /\ {"failed", "failureSent", "armed"} \subseteq Atomics
      /\ "armed" \in PAtomics /\ {"failed", "failureSent"} \cap PAtomics = {}
      /\ "failureSent" \notin CAtomics /\ posted \in Nat
  BY DEF WriterInv, WriterTypes, Atomics, Flags, PAtomics, CAtomics, NoticeInv, PausedInv
<1>2. UNCHANGED <<OfProducer, posted, cPc, outputError, stopping>>
  BY Zenon DEF PDrain, CDrain, OfProducer, resultVars, controllerVars
<1>3. CASE PDrain
  <2>1. NoEntry(pBuffer, "failed") /\ NoEntry(pBuffer, "failureSent")
    BY <1>1, Zenon DEF MemoryTypes
  <2>2. /\ cBuffer' = cBuffer
        /\ mem'["failed"] = mem["failed"] /\ mem'["failureSent"] = mem["failureSent"]
        /\ Latest(mem, pBuffer, "armed", TRUE) => Latest(mem', pBuffer', "armed", TRUE)
    BY <1>1, <1>3, <2>1, PDrainView, Zenon
  <2>3. FailureInv' /\ (Notice => Notice')
    BY <1>2, <2>2, ZenonT(30) DEF NoticeInv, FailureInv, Latest, AllIn, Notice
  <2>4. QED
    BY <1>1, <1>2, <2>3, NoticeFrame, Zenon
<1>4. CASE CDrain
  <2>1. NoEntry(cBuffer, "failureSent")
    BY <1>1, Zenon DEF MemoryTypes
  <2>2. /\ mem'["failureSent"] = mem["failureSent"]
        /\ NoEntry(cBuffer, "failed") => NoEntry(cBuffer', "failed")
        /\ AllIn(mem, cBuffer, "failed", {TRUE}) => AllIn(mem', cBuffer', "failed", {TRUE})
        /\ Latest(mem, pBuffer, "armed", TRUE) => Latest(mem', pBuffer', "armed", TRUE)
    BY <1>1, <1>4, <2>1, CDrainView, Zenon
  <2>3. Latest(mem, cBuffer, "failed", TRUE) => Latest(mem', cBuffer', "failed", TRUE)
    BY <1>1, <1>4, CDrainLatest, Zenon
  <2>4. FailureInv' /\ (Notice => Notice')
    BY <1>2, <2>2, <2>3, ZenonT(30) DEF NoticeInv, FailureInv, Notice
  <2>5. QED
    BY <1>1, <1>2, <2>4, NoticeFrame, Zenon
<1>5. QED
  BY <1>3, <1>4, SMTT(30)

LEMMA NoticeInvariant == Safety => []NoticeInv
<1>1. Init => NoticeInv
  <2> SUFFICES ASSUME Init PROVE NoticeInv
    OBVIOUS
  <2>1. /\ pBuffer = << >> /\ cBuffer = << >> /\ pPc = "idle" /\ cPc = "load"
        /\ open = FALSE /\ paused = FALSE /\ stopping = FALSE /\ posted = 0
        /\ outputError = "none" /\ mem["failureSent"] = FALSE
    BY DEF Init, Atomics, Counters, Flags
  <2>2. NoEntry(cBuffer, "failed")
    BY <2>1, EmptyBuffer, Zenon
  <2>3. QED
    BY <2>1, <2>2, Zenon DEF NoticeInv, FailureInv, PausedInv, Closing
<1>2. ASSUME WriterInv, NoticeInv, [Next]_vars
      PROVE  NoticeInv'
  <2>1. CASE UNCHANGED vars
    <3>1. /\ mem' = mem /\ pBuffer' = pBuffer /\ cBuffer' = cBuffer /\ posted' = posted
          /\ cPc' = cPc /\ outputError' = outputError /\ UNCHANGED OfProducer
          /\ stopping' = stopping
      BY <2>1 DEF vars, memoryVars, resultVars, OfProducer, controllerVars
    <3>2. posted' \in Nat
      BY <1>2, <3>1 DEF NoticeInv, PausedInv
    <3>3. FailureInv' /\ (Notice => Notice')
      BY <1>2, <3>1, ZenonT(30) DEF NoticeInv, FailureInv, Notice
    <3>4. QED
      BY <1>2, <3>1, <3>2, <3>3, NoticeFrame, Zenon
  <2>2. QED
    BY <1>2, <2>1, ProducerNoticeInv, ConsumerNoticeInv, DrainNoticeInv, SMTT(30) DEF Next, Terminated
<1>3. QED
  BY <1>1, <1>2, WriterInvariant, PTL DEF Safety

(* However sessions end and open, notifications overtake each other and    *)
(* stores are delayed, a producer that waits in a pause has armed the      *)
(* resume, or a notification is posted, or a failure is being reported.    *)
THEOREM PauseIsAlwaysArmedOrPosted == Safety => []PauseIsArmedOrPosted
<1>1. WriterInv /\ NoticeInv => PauseIsArmedOrPosted
  <2> SUFFICES ASSUME WriterInv, NoticeInv, pPc = "idle", paused, ~ stopping
               PROVE  PLoad("armed") \/ posted > 0 \/ cPc = "notifyFailure"
    BY DEF PauseIsArmedOrPosted
  <2>1. paused = TRUE /\ stopping = FALSE
    BY DEF NoticeInv, PausedInv
  <2>2. Notice
    BY <2>1, Zenon DEF NoticeInv, PausedInv
  <2>3. pBuffer \in Seq(Store)
    BY DEF WriterInv, WriterTypes, MemoryTypes
  <2>4. Latest(mem, pBuffer, "armed", TRUE) => PLoad("armed")
    BY <2>3, LoadLatest, Zenon DEF PLoad
  <2>5. QED
    BY <2>2, <2>4, Zenon DEF Notice
<1>2. QED
  BY <1>1, WriterInvariant, NoticeInvariant, PTL

-----------------------------------------------------------------------------
(* What the writer's state means as a state of the queue.                  *)
Outcome ==
  IF cPc # "done" THEN "open" ELSE IF outputError = "none" THEN "complete" ELSE "failed"

LEMMA QueueSteps ==
  ASSUME WriterInv, NoticeInv, [Next]_vars
  PROVE  \/ UNCHANGED <<producerSequence, stopping, accepted, Outcome>>
         \/ /\ stopping = FALSE /\ UNCHANGED <<stopping, accepted, Outcome>>
            /\ producerSequence' = producerSequence + 1
         \/ stopping' = TRUE /\ UNCHANGED <<producerSequence, accepted, Outcome>>
         \/ /\ Outcome = "open" /\ UNCHANGED <<producerSequence, stopping, Outcome>>
            /\ Len(accepted) < producerSequence
            /\ accepted' = Append(accepted, Len(accepted) + 1)
         \/ /\ Outcome = "open" /\ UNCHANGED <<producerSequence, stopping, accepted>>
            /\ stopping = TRUE
            /\ Len(accepted) = producerSequence /\ Outcome' = "complete"
         \/ /\ Outcome = "open" /\ UNCHANGED <<producerSequence, stopping, accepted>>
            /\ Outcome' = "failed"
<1>1. CASE UNCHANGED vars
  BY <1>1, ZenonT(30) DEF vars, producerVars, controllerVars, resultVars, Outcome
<1>2. CASE ProducerStep \/ Environment
  <2>1. UNCHANGED OfConsumer
    BY <1>2, ProducerKeepsReleased
  <2>2. accepted' = accepted /\ Outcome' = Outcome
    BY <2>1, SMTT(30) DEF OfConsumer, resultVars, Outcome
  <2>3. CASE PublishStage
    <3>1. pPc = "checkBytes" /\ producerSequence' = producerSequence + 1 /\ stopping' = stopping
      BY <2>3, Zenon DEF PublishStage, PGoto, controllerVars
    <3>2. stopping = FALSE
      BY <3>1, Zenon DEF NoticeInv, PausedInv
    <3>3. QED
      BY <2>2, <3>1, <3>2
  <2>4. CASE ~ PublishStage
    <3>1. producerSequence' = producerSequence
      BY <1>2, <2>4, ProducerClasses, Zenon DEF TryAcquire, producerVars
    <3>2. stopping \in BOOLEAN /\ stopping' \in BOOLEAN
      BY <1>2, ProducerNoticeInv, Zenon DEF NoticeInv, PausedInv
    <3>3. stopping = TRUE => stopping' = TRUE
      BY <1>2, ProducerNotices, Zenon
    <3>4. QED
      BY <2>2, <3>1, <3>2, <3>3, SMTT(30)
  <2>5. QED
    BY <2>3, <2>4, Zenon
<1>3. CASE ConsumerStep \/ WaitTimeout
  <2>1. producerSequence' = producerSequence /\ stopping' = stopping
    BY <1>3, ConsumerClasses, ZenonT(30) DEF OfProducer, producerVars, controllerVars
  <2>2. CASE WriteBatch
    <3>1. /\ cPc = "drain" /\ cPc' = "release" /\ consumerSequence < seen
          /\ CLoad("failed") # TRUE
      BY <2>2, Zenon DEF WriteBatch, CGoto
    <3>2. Outcome = "open" /\ Outcome' = "open"
      BY <3>1 DEF Outcome
    <3>3. outputError = "none"
      BY <3>1, FailedLoads, Zenon DEF NoticeInv
    <3>4. Len(accepted) = consumerSequence
      BY <3>1, <3>3, SMTT(30) DEF WriterInv, OutcomeInv
    <3>5. consumerSequence \in Nat /\ seen \in Nat /\ producerSequence \in Nat
      BY DEF WriterInv, WriterTypes
    <3>6. seen <= producerSequence
      <4>1. mem["published"] \in seen .. producerSequence
        BY ConsumerLoads, Zenon
      <4>2. QED
        BY <3>5, <4>1
    <3>7. slots[SlotOf(consumerSequence)].number = consumerSequence + 1
      <4>1. consumerSequence \in consumerSequence .. producerSequence - 1
        BY <3>1, <3>5, <3>6
      <4>2. QED
        BY <4>1, Zenon DEF WriterInv, RingInv
    <3>8. accepted' = accepted \/ accepted' = Append(accepted, Len(accepted) + 1)
      BY <2>2, <3>4, <3>7, Zenon DEF WriteBatch
    <3>9. Len(accepted) < producerSequence
      BY <3>1, <3>4, <3>5, <3>6, SMTT(30)
    <3>10. QED
      BY <2>1, <3>2, <3>8, <3>9, SMTT(30)
  <2>3. CASE FinalMetrics
    <3>1. /\ cPc = "metrics" /\ cPc' = "done" /\ accepted' = accepted
          /\ outputError' = outputError
      BY <2>3 DEF FinalMetrics, CGoto
    <3>2. outputError = "none" => Len(accepted) = producerSequence /\ mem["close"] # FALSE
      BY <3>1, ZenonT(30) DEF WriterInv, OutcomeInv, Finishing
    <3>3. mem["close"] # FALSE => stopping = TRUE
      BY Zenon DEF WriterInv, CloseInv, NoticeInv, PausedInv
    <3>4. QED
      BY <2>1, <3>1, <3>2, <3>3, Zenon DEF Outcome
  <2>4. CASE ~ WriteBatch /\ ~ FinalMetrics
    <3>1. accepted' = accepted /\ cPc # "done" /\ cPc' # "done"
      BY <1>3, <2>4, Zenon
      DEF ConsumerStep, WaitTimeout, LoadPublished, EndDrain, ReleaseSlot, StoreReleased,
          NotifyResume, ClaimResume, AfterRelease, DiscardPublished, LatchFailure,
          NotifyFailure, AwaitPublish, AfterFailure, AgeFlush, CheckClose, LockSleepMutex,
          StoreSleeping, EvaluatePredicate, Park, WakeUp, Unlock, CloseAll, CGoto, resultVars
    <3>2. QED
      BY <2>1, <3>1, Zenon DEF Outcome
  <2>5. QED
    BY <2>2, <2>3, <2>4, Zenon
<1>4. CASE PDrain \/ CDrain
  BY <1>4, Zenon DEF PDrain, CDrain, producerVars, controllerVars, resultVars, Outcome
<1>5. QED
  BY <1>1, <1>2, <1>3, <1>4, Zenon DEF Next, Terminated

(* The ring, its two threads and the shutdown implement the queue of       *)
(* RowQueue, for every size of the ring and any delay of the stores:       *)
(* batches are written in order, each once, and a run is complete only     *)
(* when the controller has stopped sending and all of them are written.    *)
THEOREM WriterImplementsQueue == Safety => ImplementsRowQueue
<1>1. Init => Queue!Init
  BY DEF Init, Queue!Init
<1>2. ASSUME WriterInv, NoticeInv, [Next]_vars
      PROVE  [Queue!Next]_<<producerSequence, stopping, accepted, Outcome>>
  BY <1>2, QueueSteps, Zenon
  DEF Outcome, Queue!Next, Queue!Send, Queue!StopSending, Queue!Write, Queue!Complete, Queue!Fail
<1>3. QED
  BY <1>1, <1>2, WriterInvariant, NoticeInvariant, PTL
  DEF Safety, ImplementsRowQueue, Queue!Spec, Outcome
=============================================================================
