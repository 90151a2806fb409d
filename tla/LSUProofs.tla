------------------------------- MODULE LSUProofs -------------------------------
(***************************************************************************)
(* Proofs about the load/store unit, for any tile, number of slots, ids    *)
(* and banks, any hash of chunks to banks that its inverse undoes, and any *)
(* loads and stores inside the memory.  The two halves of the unit have an *)
(* invariant each; only the tick touches both.  At the end, that the hash  *)
(* of the bus is such a hash.                                              *)
(***************************************************************************)
EXTENDS LSU, RanksProofs, BankHash

-----------------------------------------------------------------------------
(* The inductive invariant of the loads.                                   *)

Addr == { AddrOf[c] : c \in Chunk }

LoadTypes ==
  /\ slots \in [Slot -> SlotState]
  /\ respMap \in [Id -> {NoResp} \cup [valid : {TRUE}, slot : Slot, part : Part]]
  /\ \A b \in Bank : readq[b] \in Seq(ReadEntry(b))
  /\ bus \in SUBSET [id : Id, bank : Bank, addr : Addr]

\* An id in use belongs to a load that is in a slot and to a part of it.
IdsInUse ==
  \A i \in Id : respMap[i].valid =>
    /\ slots[respMap[i].slot].valid
    /\ respMap[i].part \in Parts(slots[respMap[i].slot].meta)

\* The id is in use and stands for the chunk at addr of bank b.
StandsFor(i, b, addr) ==
  /\ respMap[i].valid
  /\ PhysOf[<<b, addr>>] = ChunkAddr(slots[respMap[i].slot].meta, respMap[i].part)

\* A request on its way, in a queue or in the bus, has an id that stands
\* for what it asks.
RequestsAsk ==
  /\ \A b \in Bank : \A j \in 1 .. Len(readq[b]) :
       StandsFor(readq[b][j].id, b, readq[b][j].addr)
  /\ \A r \in bus : StandsFor(r.id, r.bank, r.addr)

\* No two requests on their way have the same id.
RequestsApart ==
  /\ \A b, c \in Bank : \A j \in 1 .. Len(readq[b]) : \A k \in 1 .. Len(readq[c]) :
       readq[b][j].id = readq[c][k].id => b = c /\ j = k
  /\ \A r, q \in bus : r.id = q.id => r = q
  /\ \A b \in Bank : \A j \in 1 .. Len(readq[b]) : \A r \in bus : readq[b][j].id # r.id

\* An id in use is that of a request on its way.
InQueue(i) == \E b \in Bank : \E j \in 1 .. Len(readq[b]) : readq[b][j].id = i
OnItsWay(i) == InQueue(i) \/ \E r \in bus : r.id = i
IdsAwaited == \A i \in Id : respMap[i].valid => OnItsWay(i)

\* A slot counts what it has received, has the data of every part that is
\* not awaited, and gives planes away only when nothing is.
SlotConsistent(s) ==
  /\ slots[s].meta \in Loads
  /\ slots[s].byte < slots[s].meta.bytes
  /\ slots[s].recv + Cardinality(Outstanding(s)) = Total(slots[s].meta)
  /\ slots[s].active => Complete(s)
  /\ \A part \in Part :
       \/ slots[s].data[part] = TileOf(slots[s].meta)[part]
       \/ \E i \in Outstanding(s) : respMap[i].part = part
SlotsConsistent == \A s \in Slot : slots[s].valid => SlotConsistent(s)

LoadInv ==
  /\ LoadTypes /\ IdsInUse /\ RequestsAsk /\ RequestsApart
  /\ IdsAwaited /\ SlotsConsistent

-----------------------------------------------------------------------------
(* The inductive invariant of the stores.                                  *)

WriteEntry ==
  [addr : Addr, data : UNION { [0 .. n - 1 -> 1 .. MaxStores] : n \in 1 .. MaxBytes },
   enable : BOOLEAN]

StoreTypes ==
  /\ \A b \in Bank : writeq[b] \in Seq(WriteEntry)
  /\ store \in [active : BOOLEAN, valid : [Plane -> BOOLEAN],
                data : [Plane -> 0 .. MaxStores], meta : Stores \cup {NoStore.meta}]
  /\ mem \in [Chunk -> 0 .. MaxStores]
  /\ fired \in 0 .. MaxStores

\* What the store context holds was given for the store fired last.
ContextCurrent ==
  store.active =>
    /\ store.meta \in Stores /\ fired >= 1
    /\ \A p \in Plane : store.valid[p] => store.data[p] = fired

\* A request is in the queue of the bank of its chunk, with the data of one
\* store in all planes.
Written(e) == e.data[0]
WriteExact(b, e) ==
  /\ PhysOf[<<b, e.addr>>] \in Chunk /\ BankOf[PhysOf[<<b, e.addr>>]] = b
  /\ \A p \in DOMAIN e.data : e.data[p] = e.data[0]
  /\ e.data[0] <= fired

\* A bank queue holds the stores in the order they were fired, all of them
\* not older than the memory behind it.
QueueInOrder(b, q) ==
  /\ \A j \in 1 .. Len(q) : WriteExact(b, q[j])
  /\ \A j, k \in 1 .. Len(q) : j < k => Written(q[j]) <= Written(q[k])
  /\ \A c \in Chunk : BankOf[c] = b => \A j \in 1 .. Len(q) : mem[c] <= Written(q[j])

StoreInv ==
  /\ StoreTypes /\ ContextCurrent
  /\ \A b \in Bank : QueueInOrder(b, writeq[b])
  /\ \A c \in Chunk : mem[c] <= fired

IInv == LoadInv /\ StoreInv

-----------------------------------------------------------------------------
(* Parts, positions and ranks.                                             *)

\* An access has as many chunks as its rows have bytes, at most a tile.
LEMMA MetaFacts ==
  ASSUME NEW m \in Loads \cup Stores
  PROVE  /\ m.bytes \in 1 .. MaxBytes
         /\ Total(m) \in Nat /\ Total(m) > 0 /\ Total(m) <= TILE_SIZE * MaxBytes
         /\ \A part \in Parts(m) : ChunkAddr(m, part) \in Chunk
<1>1. m.bytes \in 1 .. MaxBytes /\ InMemory(m)
  BY MetaAssumption DEF Meta, LoadMeta
<1>2. TILE_SIZE \in Nat /\ TILE_SIZE > 0 /\ MaxBytes \in Nat /\ m.bytes \in Nat /\ m.bytes > 0
        /\ m.bytes <= MaxBytes
  BY <1>1, UnitAssumption
<1>3. ASSUME NEW t \in Nat, t > 0, NEW a \in Nat, a > 0, NEW b \in Nat, a <= b
      PROVE  t * a \in Nat /\ t * a > 0 /\ t * a <= t * b
  BY <1>3
<1> QED
  BY <1>1, <1>2, <1>3 DEF Total, InMemory

\* Every position of an access has a row and a chunk of a tile.
LEMMA PartFacts ==
  ASSUME NEW m \in Loads \cup Stores, NEW k \in 1 .. Total(m)
  PROVE  PartAt(m, k) \in Part /\ PartAt(m, k) \in Parts(m)
<1>1. ASSUME NEW t \in Nat, NEW b \in Nat, b > 0, NEW j \in 1 .. t * b
      PROVE  (j - 1) \div b \in 0 .. t - 1 /\ (j - 1) % b \in 0 .. b - 1
  <2> DEFINE q == (j - 1) \div b
             r == (j - 1) % b
  <2>1. j - 1 \in Nat /\ j - 1 < t * b
    BY <1>1
  <2>2. q \in Int /\ r \in 0 .. b - 1 /\ j - 1 = b * q + r
    BY <1>1, <2>1
  <2> HIDE DEF q, r
  <2>3. q >= 0
    <3> SUFFICES ASSUME q <= -1
                 PROVE  FALSE
      BY <2>2
    <3>1. b * q <= b * (-1)
      BY <1>1, <2>2
    <3> QED
      BY <1>1, <2>1, <2>2, <3>1
  <2>4. q <= t - 1
    <3> SUFFICES ASSUME q >= t
                 PROVE  FALSE
      BY <2>2
    <3>1. b * q >= b * t /\ b * t = t * b
      BY <1>1, <2>2
    <3> QED
      BY <1>1, <2>1, <2>2, <3>1
  <2>5. q \in 0 .. t - 1 /\ r \in 0 .. b - 1
    BY <2>2, <2>3, <2>4
  <2> QED
    BY <2>5 DEF q, r
<1>2. m.bytes \in 1 .. MaxBytes /\ TILE_SIZE \in Nat /\ MaxBytes \in Nat
  BY MetaFacts, UnitAssumption
<1>3. (k - 1) \div m.bytes \in 0 .. TILE_SIZE - 1 /\ (k - 1) % m.bytes \in 0 .. m.bytes - 1
  BY <1>1, <1>2 DEF Total
<1>4. (k - 1) % m.bytes \in 0 .. MaxBytes - 1
  BY <1>2, <1>3
<1> QED
  BY <1>3, <1>4 DEF PartAt, Part, Parts

\* The positions of an access that go to a bank, in loop order: each once.
LEMMA PositionFacts ==
  ASSUME NEW m \in Loads \cup Stores, NEW b \in Bank
  PROVE  LET n == Cardinality(ForBank(m, b))
         IN  /\ n \in Nat
             /\ DOMAIN Positions[m][b] = 1 .. n
             /\ \A j \in 1 .. n : /\ Positions[m][b][j] \in 1 .. Total(m)
                                 /\ BankOf[ChunkAddr(m, PartAt(m, Positions[m][b][j]))] = b
             /\ \A j, k \in 1 .. n : Positions[m][b][j] = Positions[m][b][k] => j = k
             /\ \A k \in 1 .. Total(m) :
                  BankOf[ChunkAddr(m, PartAt(m, k))] = b =>
                    \E j \in 1 .. n : Positions[m][b][j] = k
<1> DEFINE S == ForBank(m, b)
           n == Cardinality(S)
<1>1. S \in SUBSET (1 .. Total(m)) /\ Total(m) \in Nat
  BY MetaFacts DEF ForBank
<1>2. n \in Nat /\ \A j \in 1 .. n : AtRank(S, j) \in S /\ Rank(S, AtRank(S, j)) = j
  BY <1>1, RankFacts
<1>3. \A k \in S : Rank(S, k) \in 1 .. n /\ AtRank(S, Rank(S, k)) = k
  <2>1. IsFiniteSet(1 .. Total(m))
    BY <1>1, FS_Interval
  <2>2. IsFiniteSet(S)
    BY <1>1, <2>1, FS_Subset
  <2>3. S \in SUBSET Int
    BY <1>1
  <2> HIDE DEF S
  <2> QED
    BY <2>2, <2>3, FiniteRankFacts
<1>4. Positions[m][b] = [j \in 1 .. n |-> AtRank(S, j)]
  BY DEF Positions
<1>5. \A k \in S : k \in 1 .. Total(m) /\ BankOf[ChunkAddr(m, PartAt(m, k))] = b
  BY DEF ForBank
<1>6. \A k \in 1 .. Total(m) : BankOf[ChunkAddr(m, PartAt(m, k))] = b => k \in S
  BY DEF ForBank
<1>7. \A k \in 1 .. Total(m) : BankOf[ChunkAddr(m, PartAt(m, k))] = b =>
        Rank(S, k) \in 1 .. n /\ Positions[m][b][Rank(S, k)] = k
  <2> HIDE DEF S
  <2> QED
    BY <1>3, <1>4, <1>6
<1>8. \A j, k \in 1 .. n : Positions[m][b][j] = Positions[m][b][k] => j = k
  <2> HIDE DEF S
  <2> QED
    BY <1>2, <1>4
<1>9. \A j \in 1 .. n : Positions[m][b][j] \in S
  <2> HIDE DEF S
  <2> QED
    BY <1>2, <1>4
<1>10. DOMAIN Positions[m][b] = 1 .. n
  BY <1>4
<1> HIDE DEF S
<1>11. \A j \in 1 .. n : /\ Positions[m][b][j] \in 1 .. Total(m)
                        /\ BankOf[ChunkAddr(m, PartAt(m, Positions[m][b][j]))] = b
  BY <1>5, <1>9
<1>12. \A k \in 1 .. Total(m) : BankOf[ChunkAddr(m, PartAt(m, k))] = b =>
         \E j \in 1 .. n : Positions[m][b][j] = k
  BY <1>7
<1> QED
  BY <1>2, <1>8, <1>10, <1>11, <1>12 DEF S

-----------------------------------------------------------------------------
(* The loads.                                                              *)

LEMMA ZeroSlotType ==
  /\ ZeroSlot \in SlotState
  /\ \A m \in Loads : [ZeroSlot EXCEPT !.valid = TRUE, !.meta = m] \in SlotState
<1>1. 0 \in 0 .. TILE_SIZE * MaxBytes /\ 0 \in 0 .. MaxBytes - 1
  <2>1. \A t, b \in Nat : t * b >= 0 /\ t * b \in Nat
    OBVIOUS
  <2> QED
    BY <2>1, UnitAssumption
<1>2. [part \in Part |-> Zero] \in [Part -> { <<c>> : c \in Chunk } \cup {Zero}]
  OBVIOUS
<1>3. ZeroSlot \in SlotState
  BY <1>1, <1>2 DEF ZeroSlot, SlotState
<1>4. \A m \in Loads : [ZeroSlot EXCEPT !.valid = TRUE, !.meta = m] \in SlotState
  BY <1>3 DEF SlotState
<1> QED
  BY <1>3, <1>4

LEMMA LoadInit ==
  ASSUME Init
  PROVE  LoadInv
<1> USE DEF Init
<1>1. LoadTypes
  <2>1. slots \in [Slot -> SlotState]
    BY ZeroSlotType
  <2>2. respMap \in [Id -> {NoResp} \cup [valid : {TRUE}, slot : Slot, part : Part]]
    OBVIOUS
  <2>3. \A b \in Bank : readq[b] \in Seq(ReadEntry(b))
    OBVIOUS
  <2> QED
    BY <2>1, <2>2, <2>3 DEF LoadTypes
<1>2. \A i \in Id : ~ respMap[i].valid
  BY DEF NoResp
<1>3. \A s \in Slot : ~ slots[s].valid
  BY DEF ZeroSlot
<1>4. \A b \in Bank : Len(readq[b]) = 0
  OBVIOUS
<1>5. IdsInUse /\ IdsAwaited
  BY <1>2 DEF IdsInUse, IdsAwaited
<1>6. RequestsAsk /\ RequestsApart
  BY <1>4 DEF RequestsAsk, RequestsApart
<1>7. SlotsConsistent
  BY <1>3 DEF SlotsConsistent
<1> QED
  BY <1>1, <1>5, <1>6, <1>7 DEF LoadInv

\* What an entry of the response map holds.
LEMMA RespTypes ==
  ASSUME LoadTypes, NEW i \in Id
  PROVE  /\ respMap[i].valid \in BOOLEAN
         /\ respMap[i].valid => respMap[i].slot \in Slot /\ respMap[i].part \in Part
         /\ ~ respMap[i].valid => respMap[i] = NoResp
<1>1. CASE respMap[i] = NoResp
  BY <1>1 DEF NoResp
<1>2. CASE respMap[i] \in [valid : {TRUE}, slot : Slot, part : Part]
  BY <1>2
<1> QED
  BY <1>1, <1>2 DEF LoadTypes

\* The free ids and the free slot that a load takes: as many ids as the load
\* has chunks.
LEMMA FreeFacts ==
  ASSUME LoadReady, NEW m \in Loads
  PROVE  /\ FreeSlot \in Slot /\ ~ slots[FreeSlot].valid
         /\ FreeIds \in SUBSET Int /\ IsFiniteSet(FreeIds)
         /\ Total(m) \in 0 .. Cardinality(FreeIds)
         /\ \A k \in 1 .. Total(m) :
              AtRank(FreeIds, k) \in FreeIds /\ Rank(FreeIds, AtRank(FreeIds, k)) = k
         /\ \A i \in FreeIds : Rank(FreeIds, i) \in Nat /\ Rank(FreeIds, i) >= 1
<1>1. FreeSlots \in SUBSET Int /\ IsFiniteSet(FreeSlots) /\ FreeSlots # {}
  <2>1. IsFiniteSet(Slot)
    BY UnitAssumption, FS_Interval DEF Slot
  <2>2. FreeSlots \in SUBSET Slot
    BY DEF FreeSlots
  <2>3. IsFiniteSet(FreeSlots)
    BY <2>1, <2>2, FS_Subset
  <2>4. Slot \in SUBSET Int
    BY UnitAssumption DEF Slot
  <2> QED
    BY <2>2, <2>3, <2>4 DEF LoadReady
<1>2. FreeSlot \in FreeSlots
  BY <1>1, FirstMember DEF FreeSlot
<1>3. FreeIds \in SUBSET Int /\ IsFiniteSet(FreeIds)
  <2>1. IsFiniteSet(Id)
    BY UnitAssumption, FS_Interval DEF Id
  <2>2. FreeIds \in SUBSET Id
    BY DEF FreeIds
  <2>3. IsFiniteSet(FreeIds)
    BY <2>1, <2>2, FS_Subset
  <2>4. Id \in SUBSET Int
    BY UnitAssumption DEF Id
  <2> QED
    BY <2>2, <2>3, <2>4
<1>4. Cardinality(FreeIds) \in Nat /\ Cardinality(FreeIds) >= Total(m) /\ Total(m) \in Nat
  <2>1. Cardinality(FreeIds) >= TILE_SIZE * MaxBytes
    BY DEF LoadReady
  <2>2. Total(m) \in Nat /\ Total(m) <= TILE_SIZE * MaxBytes
    BY MetaFacts
  <2>3. Cardinality(FreeIds) \in Nat
    BY <1>3, FS_CardinalityType
  <2>4. TILE_SIZE * MaxBytes \in Nat
    BY UnitAssumption
  <2> QED
    BY <2>1, <2>2, <2>3, <2>4
<1>5. \A k \in 1 .. Total(m) :
        AtRank(FreeIds, k) \in FreeIds /\ Rank(FreeIds, AtRank(FreeIds, k)) = k
  <2>1. \A k \in 1 .. Total(m) : k \in 1 .. Cardinality(FreeIds)
    BY <1>4
  <2> QED
    BY <1>3, <2>1, FiniteRankFacts
<1>6. \A i \in FreeIds : Rank(FreeIds, i) \in Nat /\ Rank(FreeIds, i) >= 1
  <2>1. \A i \in FreeIds : Rank(FreeIds, i) \in 1 .. Cardinality(FreeIds)
    BY <1>3, FiniteRankFacts
  <2> QED
    BY <1>4, <2>1
<1>7. FreeSlot \in Slot /\ ~ slots[FreeSlot].valid
  BY <1>2 DEF FreeSlots
<1> QED
  BY <1>3, <1>4, <1>5, <1>6, <1>7

\* The requests of a load: one for each position of the bank, each with the
\* id of the position's rank and the address of its chunk.
LEMMA ReadRequestFacts ==
  ASSUME LoadReady, NEW m \in Loads, NEW b \in Bank
  PROVE  LET n == Cardinality(ForBank(m, b))
             q == ReadRequests(m, b)
         IN  /\ q \in Seq(ReadEntry(b)) /\ Len(q) = n
             /\ \A j \in 1 .. n :
                  LET k == Positions[m][b][j]
                  IN  /\ k \in 1 .. Total(m)
                      /\ q[j].id = AtRank(FreeIds, k)
                      /\ PhysOf[<<b, q[j].addr>>] = ChunkAddr(m, PartAt(m, k))
<1> DEFINE n == Cardinality(ForBank(m, b))
           q == ReadRequests(m, b)
           P == Positions[m][b]
<1>1. n \in Nat /\ DOMAIN P = 1 .. n
      /\ \A j \in 1 .. n : P[j] \in 1 .. Total(m) /\ BankOf[ChunkAddr(m, PartAt(m, P[j]))] = b
  BY PositionFacts
<1> HIDE DEF P
<1>2. q = [j \in 1 .. n |-> [id |-> AtRank(FreeIds, P[j]),
                             addr |-> AddrOf[ChunkAddr(m, PartAt(m, P[j]))]]]
  BY <1>1 DEF ReadRequests, P
<1>3. ASSUME NEW j \in 1 .. n
      PROVE  /\ q[j].id = AtRank(FreeIds, P[j]) /\ q[j].addr = AddrOf[ChunkAddr(m, PartAt(m, P[j]))]
             /\ q[j] \in ReadEntry(b) /\ PhysOf[<<b, q[j].addr>>] = ChunkAddr(m, PartAt(m, P[j]))
  <2>1. P[j] \in 1 .. Total(m) /\ BankOf[ChunkAddr(m, PartAt(m, P[j]))] = b
    BY <1>1
  <2>2. AtRank(FreeIds, P[j]) \in Id
    BY <2>1, FreeFacts DEF FreeIds
  <2>3. ChunkAddr(m, PartAt(m, P[j])) \in Chunk
    BY <2>1, MetaFacts, PartFacts
  <2>4. q[j] = [id |-> AtRank(FreeIds, P[j]), addr |-> AddrOf[ChunkAddr(m, PartAt(m, P[j]))]]
    BY <1>2
  <2>5. q[j].id = AtRank(FreeIds, P[j]) /\ q[j].addr = AddrOf[ChunkAddr(m, PartAt(m, P[j]))]
    BY <2>4
  <2>6. q[j] \in ReadEntry(b)
    BY <2>2, <2>3, <2>4 DEF ReadEntry
  <2>7. PhysOf[<<b, q[j].addr>>] = ChunkAddr(m, PartAt(m, P[j]))
    BY <2>1, <2>3, <2>5, HashAssumption
  <2> QED
    BY <2>5, <2>6, <2>7
<1>4. DOMAIN q = 1 .. n /\ q = [j \in 1 .. n |-> q[j]]
  BY <1>2
<1> HIDE DEF q, n
<1>5. q \in Seq(ReadEntry(b)) /\ Len(q) = n
  <2>1. \A j \in 1 .. n : q[j] \in ReadEntry(b)
    BY <1>3
  <2> QED
    BY <1>1, <1>4, <2>1, SequenceIntro
<1>6. \A j \in 1 .. n : /\ P[j] \in 1 .. Total(m)
                       /\ q[j].id = AtRank(FreeIds, P[j])
                       /\ PhysOf[<<b, q[j].addr>>] = ChunkAddr(m, PartAt(m, P[j]))
  BY <1>1, <1>3
<1> QED
  BY <1>5, <1>6 DEF q, n, P

\* A load puts its requests in the queues: the slot and the ids it takes,
\* seen id by id and request by request.
LEMMA FireFacts ==
  ASSUME LoadInv, NEW m \in Loads, LoadRowFire(m)
  PROVE  /\ slots' \in [Slot -> SlotState]
         /\ slots'[FreeSlot].valid /\ ~ slots'[FreeSlot].active
         /\ slots'[FreeSlot].recv = 0 /\ slots'[FreeSlot].byte = 0
         /\ slots'[FreeSlot].meta = m
         /\ \A part \in Part : slots'[FreeSlot].data[part] = Zero
         /\ \A s \in Slot : s # FreeSlot => slots'[s] = slots[s]
         /\ \A i \in Id : ~ (i \in FreeIds /\ Rank(FreeIds, i) <= Total(m)) => respMap'[i] = respMap[i]
         /\ \A i \in FreeIds : Rank(FreeIds, i) <= Total(m) =>
              /\ Rank(FreeIds, i) \in 1 .. Total(m)
              /\ respMap'[i] = Resp(FreeSlot, PartAt(m, Rank(FreeIds, i)))
              /\ PartAt(m, Rank(FreeIds, i)) \in Part /\ PartAt(m, Rank(FreeIds, i)) \in Parts(m)
         /\ \A b \in Bank : readq'[b] = readq[b] \o ReadRequests(m, b)
         /\ bus' = bus
<1> USE DEF LoadRowFire
<1>1. FreeSlot \in Slot
  BY FreeFacts
<1>2. slots' = [slots EXCEPT ![FreeSlot] = [ZeroSlot EXCEPT !.valid = TRUE, !.meta = m]]
  OBVIOUS
<1>3. slots \in [Slot -> SlotState]
  BY DEF LoadInv, LoadTypes
<1>4. slots' \in [Slot -> SlotState]
  BY <1>1, <1>2, <1>3, ZeroSlotType
<1>5. slots'[FreeSlot] = [ZeroSlot EXCEPT !.valid = TRUE, !.meta = m]
  BY <1>1, <1>2, <1>3
<1>6. slots'[FreeSlot].valid /\ ~ slots'[FreeSlot].active
      /\ slots'[FreeSlot].recv = 0 /\ slots'[FreeSlot].byte = 0
      /\ slots'[FreeSlot].meta = m
      /\ slots'[FreeSlot].data = [part \in Part |-> Zero]
  <2> HIDE DEF LoadRowFire
  <2>1. slots'[FreeSlot].valid /\ slots'[FreeSlot].meta = m
    BY <1>5 DEF ZeroSlot
  <2>2. ~ slots'[FreeSlot].active
    BY <1>5 DEF ZeroSlot
  <2>3. slots'[FreeSlot].recv = 0 /\ slots'[FreeSlot].byte = 0
    <3>1. slots'[FreeSlot].recv = 0
      BY <1>5 DEF ZeroSlot
    <3>2. slots'[FreeSlot].byte = 0
      BY <1>5 DEF ZeroSlot
    <3> QED
      BY <3>1, <3>2
  <2>4. slots'[FreeSlot].data = [part \in Part |-> Zero]
    BY <1>5 DEF ZeroSlot
  <2> QED
    BY <2>1, <2>2, <2>3, <2>4
<1>7. \A s \in Slot : s # FreeSlot => slots'[s] = slots[s]
  BY <1>2, <1>3
<1>8. respMap' = [i \in Id |->
         IF i \in FreeIds /\ Rank(FreeIds, i) <= Total(m)
         THEN Resp(FreeSlot, PartAt(m, Rank(FreeIds, i)))
         ELSE respMap[i]]
  OBVIOUS
<1>9. FreeIds \in SUBSET Id
  BY DEF FreeIds
<1>10. ASSUME NEW i \in FreeIds, Rank(FreeIds, i) <= Total(m)
       PROVE  /\ Rank(FreeIds, i) \in 1 .. Total(m)
              /\ respMap'[i] = Resp(FreeSlot, PartAt(m, Rank(FreeIds, i)))
              /\ PartAt(m, Rank(FreeIds, i)) \in Part /\ PartAt(m, Rank(FreeIds, i)) \in Parts(m)
  <2>1. Rank(FreeIds, i) \in Nat /\ Rank(FreeIds, i) >= 1 /\ Total(m) \in Nat
    BY FreeFacts, MetaFacts
  <2>2. Rank(FreeIds, i) \in 1 .. Total(m)
    BY <1>10, <2>1
  <2>3. PartAt(m, Rank(FreeIds, i)) \in Part /\ PartAt(m, Rank(FreeIds, i)) \in Parts(m)
    BY <2>2, PartFacts
  <2>4. respMap'[i] = Resp(FreeSlot, PartAt(m, Rank(FreeIds, i)))
    BY <1>8, <1>9, <1>10
  <2> QED
    BY <2>2, <2>3, <2>4
<1>11. \A i \in Id : ~ (i \in FreeIds /\ Rank(FreeIds, i) <= Total(m)) => respMap'[i] = respMap[i]
  BY <1>8
<1>12. \A b \in Bank : readq'[b] = readq[b] \o ReadRequests(m, b)
  OBVIOUS
<1>13. bus' = bus
  OBVIOUS
<1>14. \A part \in Part : slots'[FreeSlot].data[part] = Zero
  BY <1>6
<1> QED
  BY <1>4, <1>6, <1>7, <1>10, <1>11, <1>12, <1>13, <1>14

\* After a load was fired, a request in a queue is an old one or one of the
\* new ones, which has the id of its rank.
LEMMA FireQueueFacts ==
  ASSUME LoadInv, NEW m \in Loads, LoadRowFire(m), NEW b \in Bank
  PROVE  /\ readq'[b] \in Seq(ReadEntry(b))
         /\ \A j \in 1 .. Len(readq[b]) : j \in 1 .. Len(readq'[b]) /\ readq'[b][j] = readq[b][j]
         /\ \A j \in 1 .. Len(readq'[b]) :
              \/ j \in 1 .. Len(readq[b]) /\ readq'[b][j] = readq[b][j]
              \/ \E l \in 1 .. Cardinality(ForBank(m, b)) :
                   LET k == Positions[m][b][l]
                   IN  /\ j = Len(readq[b]) + l
                       /\ k \in 1 .. Total(m)
                       /\ readq'[b][j].id = AtRank(FreeIds, k)
                       /\ PhysOf[<<b, readq'[b][j].addr>>] = ChunkAddr(m, PartAt(m, k))
         /\ \A k \in 1 .. Total(m) :
              BankOf[ChunkAddr(m, PartAt(m, k))] = b =>
                \E j \in 1 .. Len(readq'[b]) : readq'[b][j].id = AtRank(FreeIds, k)
<1> DEFINE old == readq[b]
           new == ReadRequests(m, b)
           n   == Cardinality(ForBank(m, b))
<1>1. LoadReady
  BY DEF LoadRowFire
<1>2. readq'[b] = old \o new
  BY FireFacts
<1>3. old \in Seq(ReadEntry(b))
  BY DEF LoadInv, LoadTypes
<1>4. /\ new \in Seq(ReadEntry(b)) /\ Len(new) = n
      /\ \A l \in 1 .. n :
           /\ Positions[m][b][l] \in 1 .. Total(m)
           /\ new[l].id = AtRank(FreeIds, Positions[m][b][l])
           /\ PhysOf[<<b, new[l].addr>>] = ChunkAddr(m, PartAt(m, Positions[m][b][l]))
  BY <1>1, ReadRequestFacts
<1>5. \A k \in 1 .. Total(m) : BankOf[ChunkAddr(m, PartAt(m, k))] = b =>
        \E l \in 1 .. n : Positions[m][b][l] = k
  BY PositionFacts
<1> HIDE DEF old, new, n
<1>41. new \in Seq(ReadEntry(b))
  BY <1>4
<1>6. /\ old \o new \in Seq(ReadEntry(b)) /\ Len(old \o new) = Len(old) + Len(new)
      /\ \A i \in 1 .. Len(old) : (old \o new)[i] = old[i]
      /\ \A i \in 1 .. Len(new) : (old \o new)[Len(old) + i] = new[i]
  <2> HIDE DEF ReadEntry
  <2> QED
    BY <1>3, <1>41, ConcatFacts
<1>7. Len(old) \in Nat /\ Len(new) \in Nat
  BY <1>3, <1>4
<1>8. \A j \in 1 .. Len(old) : j \in 1 .. Len(readq'[b]) /\ readq'[b][j] = old[j]
  BY <1>2, <1>6, <1>7
<1>9. ASSUME NEW j \in 1 .. Len(readq'[b])
      PROVE  \/ j \in 1 .. Len(old) /\ readq'[b][j] = old[j]
             \/ \E l \in 1 .. n :
                   /\ j = Len(old) + l
                   /\ Positions[m][b][l] \in 1 .. Total(m)
                   /\ readq'[b][j].id = AtRank(FreeIds, Positions[m][b][l])
                   /\ PhysOf[<<b, readq'[b][j].addr>>] = ChunkAddr(m, PartAt(m, Positions[m][b][l]))
  <2>1. \/ j \in 1 .. Len(old) /\ readq'[b][j] = old[j]
        \/ \E l \in 1 .. Len(new) : j = Len(old) + l /\ readq'[b][j] = new[l]
    BY <1>2, <1>3, <1>4, ConcatSplit
  <2> QED
    BY <1>4, <2>1
<1>10. ASSUME NEW k \in 1 .. Total(m), BankOf[ChunkAddr(m, PartAt(m, k))] = b
       PROVE  \E j \in 1 .. Len(readq'[b]) : readq'[b][j].id = AtRank(FreeIds, k)
  <2>1. PICK l \in 1 .. n : Positions[m][b][l] = k
    BY <1>5, <1>10
  <2>2. Len(old) + l \in 1 .. Len(readq'[b])
    BY <1>2, <1>4, <1>6, <1>7
  <2>3. readq'[b][Len(old) + l] = new[l]
    BY <1>2, <1>4, <1>6
  <2> QED
    BY <1>4, <2>1, <2>2, <2>3
<1>11. readq'[b] \in Seq(ReadEntry(b))
  BY <1>2, <1>6
<1> QED
  BY <1>8, <1>9, <1>10, <1>11 DEF old, n

LEMMA FireKeepsLoads ==
  ASSUME LoadInv, NEW m \in Loads, LoadRowFire(m)
  PROVE  LoadInv'
<1> PICK s0 : s0 = FreeSlot
  OBVIOUS
<1> DEFINE F == FreeIds
           isNew(i) == i \in F /\ Rank(F, i) <= Total(m)
<1>0. /\ s0 \in Slot /\ ~ slots[s0].valid
      /\ \A k \in 1 .. Total(m) : AtRank(F, k) \in F /\ Rank(F, AtRank(F, k)) = k
      /\ \A i \in F : i \in Id /\ ~ respMap[i].valid
      /\ \A i \in Id : ~ respMap[i].valid => i \in F
  BY FreeFacts DEF LoadRowFire, FreeIds
<1>1. /\ slots' \in [Slot -> SlotState]
      /\ slots'[s0].valid /\ ~ slots'[s0].active
      /\ slots'[s0].recv = 0 /\ slots'[s0].byte = 0 /\ slots'[s0].meta = m
      /\ \A part \in Part : slots'[s0].data[part] = Zero
      /\ \A s \in Slot : s # s0 => slots'[s] = slots[s]
      /\ \A i \in Id : ~ isNew(i) => respMap'[i] = respMap[i]
      /\ \A i \in Id : isNew(i) =>
           /\ Rank(F, i) \in 1 .. Total(m)
           /\ respMap'[i] = Resp(s0, PartAt(m, Rank(F, i)))
           /\ PartAt(m, Rank(F, i)) \in Part /\ PartAt(m, Rank(F, i)) \in Parts(m)
      /\ bus' = bus
  BY FireFacts
<1>2. \A i \in Id : isNew(i) =>
        respMap'[i].valid /\ respMap'[i].slot = s0 /\ respMap'[i].part = PartAt(m, Rank(F, i))
  <2> SUFFICES ASSUME NEW i \in Id, isNew(i)
               PROVE  respMap'[i].valid /\ respMap'[i].slot = s0
                      /\ respMap'[i].part = PartAt(m, Rank(F, i))
    OBVIOUS
  <2>1. respMap'[i] = Resp(s0, PartAt(m, Rank(F, i)))
    BY <1>1
  <2> QED
    BY <2>1 DEF Resp
<1>3. \A k \in 1 .. Total(m) :
        /\ AtRank(F, k) \in Id /\ isNew(AtRank(F, k)) /\ ~ respMap[AtRank(F, k)].valid
        /\ Rank(F, AtRank(F, k)) = k
  <2> SUFFICES ASSUME NEW k \in 1 .. Total(m)
               PROVE  /\ AtRank(F, k) \in Id /\ isNew(AtRank(F, k)) /\ ~ respMap[AtRank(F, k)].valid
                      /\ Rank(F, AtRank(F, k)) = k
    OBVIOUS
  <2>1. Total(m) \in Nat
    BY MetaFacts
  <2>2. k <= Total(m)
    BY <2>1
  <2> QED
    BY <1>0, <2>2
<1> HIDE DEF F
<1>4. \A i \in Id : respMap[i].valid =>
        /\ ~ isNew(i) /\ respMap'[i] = respMap[i] /\ respMap'[i].valid
        /\ respMap[i].slot \in Slot /\ respMap[i].slot # s0
        /\ slots'[respMap[i].slot] = slots[respMap[i].slot]
  <2>1. \A i \in Id : respMap[i].valid => respMap[i].slot \in Slot /\ slots[respMap[i].slot].valid
    BY RespTypes DEF LoadInv, IdsInUse
  <2> QED
    BY <1>0, <1>1, <2>1
<1>5. \A i \in Id : respMap'[i].valid /\ ~ isNew(i) => respMap[i].valid
  BY <1>1
<1> HIDE DEF isNew
<1>6. LoadTypes'
  <2>1. respMap' \in [Id -> {NoResp} \cup [valid : {TRUE}, slot : Slot, part : Part]]
    <3>1. respMap' = [i \in Id |-> respMap'[i]]
      BY DEF LoadRowFire
    <3>2. ASSUME NEW i \in Id
          PROVE  respMap'[i] \in {NoResp} \cup [valid : {TRUE}, slot : Slot, part : Part]
      <4>1. CASE isNew(i)
        <5>1. /\ respMap'[i] = Resp(s0, PartAt(m, Rank(F, i)))
              /\ PartAt(m, Rank(F, i)) \in Part
          BY <1>1, <4>1
        <5> QED
          BY <1>0, <5>1 DEF Resp
      <4>2. CASE ~ isNew(i)
        BY <1>1, <4>2 DEF LoadInv, LoadTypes
      <4> QED
        BY <4>1, <4>2
    <3> QED
      BY <3>1, <3>2
  <2>2. \A b \in Bank : readq'[b] \in Seq(ReadEntry(b))
    BY FireQueueFacts
  <2> QED
    BY <1>1, <2>1, <2>2 DEF LoadInv, LoadTypes
<1>7. IdsInUse'
  <2> SUFFICES ASSUME NEW i \in Id, respMap'[i].valid
               PROVE  /\ slots'[respMap'[i].slot].valid
                      /\ respMap'[i].part \in Parts(slots'[respMap'[i].slot].meta)
    BY DEF IdsInUse
  <2>1. CASE isNew(i)
    BY <1>1, <1>2, <2>1
  <2>2. CASE ~ isNew(i)
    BY <1>4, <1>5, <2>2 DEF LoadInv, IdsInUse
  <2> QED
    BY <2>1, <2>2
<1>8. ASSUME NEW b \in Bank
      PROVE  /\ \A j \in 1 .. Len(readq[b]) :
                  readq[b][j].id \in Id /\ StandsFor(readq[b][j].id, b, readq[b][j].addr)
             /\ \A j \in 1 .. Len(readq[b]) : j \in 1 .. Len(readq'[b]) /\ readq'[b][j] = readq[b][j]
             /\ \A j \in 1 .. Len(readq'[b]) :
                  \/ j \in 1 .. Len(readq[b]) /\ readq'[b][j] = readq[b][j]
                  \/ \E l \in 1 .. Cardinality(ForBank(m, b)) :
                       LET k == Positions[m][b][l]
                       IN  /\ j = Len(readq[b]) + l
                           /\ k \in 1 .. Total(m)
                           /\ readq'[b][j].id = AtRank(F, k)
                           /\ PhysOf[<<b, readq'[b][j].addr>>] = ChunkAddr(m, PartAt(m, k))
             /\ \A k \in 1 .. Total(m) :
                  BankOf[ChunkAddr(m, PartAt(m, k))] = b =>
                    \E j \in 1 .. Len(readq'[b]) : readq'[b][j].id = AtRank(F, k)
  <2>1. readq[b] \in Seq(ReadEntry(b))
    BY DEF LoadInv, LoadTypes
  <2>2. \A j \in 1 .. Len(readq[b]) : readq[b][j].id \in Id
    <3> SUFFICES ASSUME NEW j \in 1 .. Len(readq[b])
                 PROVE  readq[b][j].id \in Id
      OBVIOUS
    <3>1. readq[b][j] \in ReadEntry(b)
      BY <2>1, ItemType
    <3> QED
      BY <3>1 DEF ReadEntry
  <2>3. \A j \in 1 .. Len(readq[b]) : StandsFor(readq[b][j].id, b, readq[b][j].addr)
    BY DEF LoadInv, RequestsAsk
  <2> QED
    BY <2>2, <2>3, FireQueueFacts DEF F
<1>9. \A r \in bus : r.id \in Id /\ StandsFor(r.id, r.bank, r.addr)
  BY DEF LoadInv, LoadTypes, RequestsAsk
<1>10. \A i \in Id : \A b, addr : StandsFor(i, b, addr) => StandsFor(i, b, addr)'
  BY <1>4 DEF StandsFor
<1>11. RequestsAsk'
  <2>1. ASSUME NEW b \in Bank, NEW j \in 1 .. Len(readq'[b])
        PROVE  StandsFor(readq[b][j].id, b, readq[b][j].addr)'
    <3>1. CASE j \in 1 .. Len(readq[b]) /\ readq'[b][j] = readq[b][j]
      <4>1. readq[b][j].id \in Id /\ StandsFor(readq[b][j].id, b, readq[b][j].addr)
        BY <1>8, <3>1
      <4>2. StandsFor(readq[b][j].id, b, readq[b][j].addr)'
            <=> /\ respMap'[readq'[b][j].id].valid
                /\ PhysOf[<<b, readq'[b][j].addr>>]
                   = ChunkAddr(slots'[respMap'[readq'[b][j].id].slot].meta,
                               respMap'[readq'[b][j].id].part)
        BY DEF StandsFor
      <4>3. StandsFor(readq[b][j].id, b, readq[b][j].addr)
            <=> /\ respMap[readq[b][j].id].valid
                /\ PhysOf[<<b, readq[b][j].addr>>]
                   = ChunkAddr(slots[respMap[readq[b][j].id].slot].meta,
                               respMap[readq[b][j].id].part)
        BY DEF StandsFor
      <4>4. /\ respMap'[readq[b][j].id] = respMap[readq[b][j].id]
            /\ slots'[respMap[readq[b][j].id].slot] = slots[respMap[readq[b][j].id].slot]
        BY <1>4, <4>1, <4>3
      <4> QED
        BY <3>1, <4>1, <4>2, <4>3, <4>4
    <3>2. CASE \E k \in 1 .. Total(m) :
                 /\ readq'[b][j].id = AtRank(F, k)
                 /\ PhysOf[<<b, readq'[b][j].addr>>] = ChunkAddr(m, PartAt(m, k))
      BY <1>1, <1>2, <1>3, <3>2 DEF StandsFor
    <3> QED
      BY <1>8, <3>1, <3>2
  <2>2. ASSUME NEW r \in bus'
        PROVE  StandsFor(r.id, r.bank, r.addr)'
    BY <1>1, <1>4, <1>9, <2>2 DEF StandsFor
  <2> QED
    BY <2>1, <2>2 DEF RequestsAsk
<1>12. RequestsApart'
  <2>0. \A b \in Bank : \A j \in 1 .. Len(readq'[b]) :
          \/ /\ j \in 1 .. Len(readq[b]) /\ readq'[b][j] = readq[b][j]
             /\ respMap[readq[b][j].id].valid
          \/ /\ ~ respMap[readq'[b][j].id].valid
             /\ \E l \in 1 .. Cardinality(ForBank(m, b)) :
                  /\ j = Len(readq[b]) + l
                  /\ Positions[m][b][l] \in 1 .. Total(m)
                  /\ readq'[b][j].id = AtRank(F, Positions[m][b][l])
    <3> SUFFICES ASSUME NEW b \in Bank, NEW j \in 1 .. Len(readq'[b])
                 PROVE  \/ /\ j \in 1 .. Len(readq[b]) /\ readq'[b][j] = readq[b][j]
                           /\ respMap[readq[b][j].id].valid
                        \/ /\ ~ respMap[readq'[b][j].id].valid
                           /\ \E l \in 1 .. Cardinality(ForBank(m, b)) :
                                /\ j = Len(readq[b]) + l
                                /\ Positions[m][b][l] \in 1 .. Total(m)
                                /\ readq'[b][j].id = AtRank(F, Positions[m][b][l])
      OBVIOUS
    <3>1. CASE j \in 1 .. Len(readq[b]) /\ readq'[b][j] = readq[b][j]
      BY <1>8, <3>1 DEF StandsFor
    <3>2. ASSUME NEW l \in 1 .. Cardinality(ForBank(m, b)),
                 /\ j = Len(readq[b]) + l
                 /\ Positions[m][b][l] \in 1 .. Total(m)
                 /\ readq'[b][j].id = AtRank(F, Positions[m][b][l])
          PROVE  ~ respMap[readq'[b][j].id].valid
      BY <1>3, <3>2
    <3>3. \/ j \in 1 .. Len(readq[b]) /\ readq'[b][j] = readq[b][j]
          \/ \E l \in 1 .. Cardinality(ForBank(m, b)) :
                /\ j = Len(readq[b]) + l
                /\ Positions[m][b][l] \in 1 .. Total(m)
                /\ readq'[b][j].id = AtRank(F, Positions[m][b][l])
      BY <1>8
    <3> QED
      BY <3>1, <3>2, <3>3
  <2>1. ASSUME NEW b \in Bank, NEW c \in Bank,
               NEW j \in 1 .. Len(readq'[b]), NEW k \in 1 .. Len(readq'[c]),
               readq'[b][j].id = readq'[c][k].id
        PROVE  b = c /\ j = k
    <3>1. CASE respMap[readq'[b][j].id].valid
      <4>1. /\ j \in 1 .. Len(readq[b]) /\ readq'[b][j] = readq[b][j]
            /\ k \in 1 .. Len(readq[c]) /\ readq'[c][k] = readq[c][k]
        BY <2>0, <2>1, <3>1
      <4> QED
        BY <2>1, <4>1 DEF LoadInv, RequestsApart
    <3>2. CASE ~ respMap[readq'[b][j].id].valid
      <4>1. PICK x \in 1 .. Cardinality(ForBank(m, b)) :
              /\ j = Len(readq[b]) + x
              /\ Positions[m][b][x] \in 1 .. Total(m)
              /\ readq'[b][j].id = AtRank(F, Positions[m][b][x])
        BY <2>0, <3>2
      <4>2. PICK y \in 1 .. Cardinality(ForBank(m, c)) :
              /\ k = Len(readq[c]) + y
              /\ Positions[m][c][y] \in 1 .. Total(m)
              /\ readq'[c][k].id = AtRank(F, Positions[m][c][y])
        BY <2>0, <2>1, <3>2
      <4>3. Positions[m][b][x] = Positions[m][c][y]
        BY <1>3, <2>1, <4>1, <4>2
      <4>4. /\ BankOf[ChunkAddr(m, PartAt(m, Positions[m][b][x]))] = b
            /\ BankOf[ChunkAddr(m, PartAt(m, Positions[m][c][y]))] = c
        BY PositionFacts
      <4>5. b = c
        BY <4>3, <4>4
      <4>6. x = y
        BY <4>3, <4>5, PositionFacts
      <4> QED
        BY <4>1, <4>2, <4>5, <4>6
    <3> QED
      BY <3>1, <3>2
  <2>2. \A r, q \in bus' : r.id = q.id => r = q
    BY <1>1 DEF LoadInv, RequestsApart
  <2>3. ASSUME NEW b \in Bank, NEW j \in 1 .. Len(readq'[b]), NEW r \in bus'
        PROVE  readq'[b][j].id # r.id
    <3>1. r \in bus /\ respMap[r.id].valid
      BY <1>1, <1>9 DEF StandsFor
    <3>2. \A k \in 1 .. Len(readq[b]) : readq[b][k].id # r.id
      BY <3>1 DEF LoadInv, RequestsApart
    <3>3. CASE j \in 1 .. Len(readq[b]) /\ readq'[b][j] = readq[b][j]
      BY <3>2, <3>3
    <3>4. CASE ~ respMap[readq'[b][j].id].valid
      BY <3>1, <3>4
    <3> QED
      BY <2>0, <3>3, <3>4
  <2> QED
    BY <2>1, <2>2, <2>3 DEF RequestsApart
<1>13. IdsAwaited'
  <2> SUFFICES ASSUME NEW i \in Id, respMap'[i].valid
               PROVE  \/ \E b \in Bank : \E j \in 1 .. Len(readq'[b]) : readq'[b][j].id = i
                      \/ \E r \in bus' : r.id = i
    BY DEF IdsAwaited, OnItsWay, InQueue
  <2>1. CASE isNew(i)
    <3> DEFINE k == Rank(F, i)
               b == BankOf[ChunkAddr(m, PartAt(m, k))]
    <3>1. k \in 1 .. Total(m) /\ PartAt(m, k) \in Parts(m)
      BY <1>1, <2>1
    <3>2. b \in Bank
      BY <3>1, MetaFacts, HashAssumption
    <3>3. AtRank(F, k) = i
      BY <2>1, FreeFacts, FiniteRankFacts DEF F, isNew, LoadRowFire
    <3> QED
      BY <1>8, <3>1, <3>2, <3>3
  <2>2. CASE ~ isNew(i)
    <3>1. \/ \E b \in Bank : \E j \in 1 .. Len(readq[b]) : readq[b][j].id = i
          \/ \E r \in bus : r.id = i
      BY <1>5, <2>2 DEF LoadInv, IdsAwaited, OnItsWay, InQueue
    <3> QED
      BY <1>1, <1>8, <3>1
  <2> QED
    BY <2>1, <2>2
<1>14. SlotsConsistent'
  <2>1. ASSUME NEW s \in Slot, s # s0, slots'[s].valid
        PROVE  SlotConsistent(s)'
    <3>1. slots'[s] = slots[s] /\ SlotConsistent(s)
      BY <1>1, <2>1 DEF LoadInv, SlotsConsistent
    <3>2. Outstanding(s)' = Outstanding(s)
      BY <1>2, <1>4, <1>5, <2>1 DEF Outstanding
    <3>3. \A i \in Outstanding(s) : respMap'[i] = respMap[i]
      BY <1>4 DEF Outstanding
    <3>4. (Total(slots[s].meta))' = Total(slots[s].meta) /\ Complete(s)' = Complete(s)
      BY <3>1 DEF Complete, Total
    <3> QED
      BY <3>1, <3>2, <3>3, <3>4 DEF SlotConsistent
  <2>2. SlotConsistent(s0)'
    <3>1. Outstanding(s0)' = { i \in F : Rank(F, i) <= Total(m) }
      <4>1. \A i \in Id : i \in Outstanding(s0)' <=> isNew(i)
        <5> SUFFICES ASSUME NEW i \in Id
                     PROVE  respMap'[i].valid /\ respMap'[i].slot = s0 <=> isNew(i)
          BY DEF Outstanding
        <5>1. CASE isNew(i)
          BY <1>2, <5>1
        <5>2. CASE ~ isNew(i)
          <6>1. respMap'[i] = respMap[i]
            BY <1>1, <5>2
          <6>2. CASE respMap[i].valid
            BY <1>4, <5>2, <6>1, <6>2
          <6>3. CASE ~ respMap[i].valid
            BY <5>2, <6>1, <6>3
          <6> QED
            BY <6>2, <6>3
        <5> QED
          BY <5>1, <5>2
      <4>2. F \in SUBSET Id
        BY <1>0
      <4> QED
        BY <4>1, <4>2 DEF isNew, Outstanding
    <3>2. Cardinality(Outstanding(s0)') = Total(m)
      <4>1. F \in SUBSET Int /\ IsFiniteSet(F) /\ Total(m) \in 0 .. Cardinality(F)
        BY FreeFacts DEF F, LoadRowFire
      <4> QED
        BY <3>1, <4>1, RankPrefix
    <3>3. ASSUME NEW part \in Part
          PROVE  \/ slots'[s0].data[part] = TileOf(m)[part]
                 \/ \E i \in Outstanding(s0)' : respMap'[i].part = part
      <4>1. CASE part \in Parts(m)
        <5>1. PICK k \in 1 .. Total(m) : part = PartAt(m, k)
          BY <4>1 DEF Parts
        <5>2. isNew(AtRank(F, k)) /\ AtRank(F, k) \in Id /\ Rank(F, AtRank(F, k)) = k
          BY <1>3
        <5>3. AtRank(F, k) \in Outstanding(s0)'
          BY <3>1, <5>2 DEF isNew
        <5>4. respMap'[AtRank(F, k)].part = part
          BY <1>2, <5>1, <5>2
        <5> QED
          BY <5>3, <5>4
      <4>2. CASE part \notin Parts(m)
        BY <1>1, <4>2 DEF TileOf
      <4> QED
        BY <4>1, <4>2
    <3>4. slots'[s0].byte < slots'[s0].meta.bytes
      <4>1. m.bytes \in 1 .. MaxBytes /\ MaxBytes \in Nat
        BY MetaFacts, UnitAssumption
      <4> QED
        BY <1>1, <4>1
    <3>5. slots'[s0].recv + Cardinality(Outstanding(s0)') = Total(slots'[s0].meta)
      BY <1>1, <3>2, MetaFacts
    <3> QED
      BY <1>1, <3>3, <3>4, <3>5 DEF SlotConsistent
  <2> QED
    BY <2>1, <2>2 DEF SlotsConsistent
<1> QED
  BY <1>6, <1>7, <1>11, <1>12, <1>13, <1>14 DEF LoadInv

\* The ids a slot waits for are finitely many.
LEMMA OutstandingFacts ==
  ASSUME NEW s
  PROVE  /\ Outstanding(s) \in SUBSET Id
         /\ IsFiniteSet(Outstanding(s)) /\ Cardinality(Outstanding(s)) \in Nat
<1>1. Outstanding(s) \in SUBSET Id
  BY DEF Outstanding
<1>2. IsFiniteSet(Id)
  BY UnitAssumption, FS_Interval DEF Id
<1>3. IsFiniteSet(Outstanding(s))
  BY <1>1, <1>2, FS_Subset
<1> QED
  BY <1>1, <1>3, FS_CardinalityType

\* The guards of an answer are always true: its id is in use, for a part of
\* the load in its slot, and the data is what the load addressed.
LEMMA AnswerFacts ==
  ASSUME LoadInv, NEW r \in bus, BusReadResp(r)
  PROVE  \E s \in Slot, part \in Part :
           /\ r.id \in Id /\ respMap[r.id].valid /\ respMap[r.id].slot = s /\ respMap[r.id].part = part
           /\ slots[s].valid /\ part \in Parts(slots[s].meta)
           /\ respMap' = [respMap EXCEPT ![r.id] = NoResp]
           /\ slots' \in [Slot -> SlotState]
           /\ \A t \in Slot : t # s => slots'[t] = slots[t]
           /\ slots'[s].valid /\ slots'[s].active = slots[s].active
           /\ slots'[s].byte = slots[s].byte /\ slots'[s].meta = slots[s].meta
           /\ slots'[s].recv = slots[s].recv + 1
           /\ slots'[s].data[part] = TileOf(slots[s].meta)[part]
           /\ \A p \in Part : p # part => slots'[s].data[p] = slots[s].data[p]
<1> DEFINE s == respMap[r.id].slot
           part == respMap[r.id].part
           v == IF part \in slots[s].meta.mask THEN <<PhysOf[<<r.bank, r.addr>>]>> ELSE Zero
<1>1. r.id \in Id /\ StandsFor(r.id, r.bank, r.addr)
  BY DEF LoadInv, LoadTypes, RequestsAsk
<1>2. respMap[r.id].valid /\ PhysOf[<<r.bank, r.addr>>] = ChunkAddr(slots[s].meta, part)
  BY <1>1 DEF StandsFor
<1>3. s \in Slot /\ part \in Part
  BY <1>1, <1>2, RespTypes DEF LoadInv
<1>4. slots[s].valid /\ part \in Parts(slots[s].meta)
  BY <1>1, <1>2 DEF LoadInv, IdsInUse
<1>5. /\ respMap' = [respMap EXCEPT ![r.id] = NoResp]
      /\ slots' = [slots EXCEPT ![s].data[part] = v, ![s].recv = @ + 1]
  BY <1>2, <1>4 DEF BusReadResp
<1>6. slots \in [Slot -> SlotState] /\ slots[s] \in SlotState
  BY <1>3 DEF LoadInv, LoadTypes
<1>7. SlotConsistent(s)
  BY <1>3, <1>4 DEF LoadInv, SlotsConsistent
<1>8. v = TileOf(slots[s].meta)[part]
  BY <1>2, <1>3, <1>4 DEF TileOf
<1>9. v \in { <<c>> : c \in Chunk } \cup {Zero}
  <2>1. ChunkAddr(slots[s].meta, part) \in Chunk
    BY <1>4, <1>7, MetaFacts DEF SlotConsistent
  <2> QED
    BY <1>2, <2>1
<1>10. slots[s].recv + 1 \in 0 .. TILE_SIZE * MaxBytes
  <2>1. r.id \in Outstanding(s)
    BY <1>1, <1>2 DEF Outstanding
  <2>2. Cardinality(Outstanding(s)) \in Nat /\ Cardinality(Outstanding(s)) >= 1
    <3>1. Cardinality(Outstanding(s)) # 0
      BY <2>1, OutstandingFacts, FS_EmptySet
    <3> QED
      BY <3>1, OutstandingFacts
  <2>3. slots[s].recv + Cardinality(Outstanding(s)) = Total(slots[s].meta)
        /\ slots[s].meta \in Loads
    BY <1>7 DEF SlotConsistent
  <2>4. Total(slots[s].meta) \in Nat /\ Total(slots[s].meta) <= TILE_SIZE * MaxBytes
        /\ TILE_SIZE * MaxBytes \in Nat
    BY <2>3, MetaFacts, UnitAssumption
  <2>5. slots[s].recv \in Nat
    BY <1>6, <2>4 DEF SlotState
  <2> QED
    BY <2>2, <2>3, <2>4, <2>5
<1> HIDE DEF s, part, v
<1>11. slots' = [slots EXCEPT ![s] = [slots[s] EXCEPT
                   !.data = [slots[s].data EXCEPT ![part] = v], !.recv = slots[s].recv + 1]]
  BY <1>3, <1>5, <1>6
<1>12. slots'[s] = [slots[s] EXCEPT
                   !.data = [slots[s].data EXCEPT ![part] = v], !.recv = slots[s].recv + 1]
  BY <1>3, <1>6, <1>11
<1>13. /\ slots'[s].valid = slots[s].valid /\ slots'[s].active = slots[s].active
       /\ slots'[s].byte = slots[s].byte /\ slots'[s].meta = slots[s].meta
       /\ slots'[s].recv = slots[s].recv + 1
       /\ slots'[s].data = [slots[s].data EXCEPT ![part] = v]
  BY <1>6, <1>12 DEF SlotState
<1>14. slots[s].data \in [Part -> { <<c>> : c \in Chunk } \cup {Zero}]
  BY <1>6 DEF SlotState
<1>15. [slots[s].data EXCEPT ![part] = v] \in [Part -> { <<c>> : c \in Chunk } \cup {Zero}]
  BY <1>3, <1>9, <1>14
<1>16. slots'[s] \in SlotState
  BY <1>6, <1>10, <1>12, <1>15 DEF SlotState
<1>17. slots' \in [Slot -> SlotState] /\ \A t \in Slot : t # s => slots'[t] = slots[t]
  BY <1>3, <1>6, <1>11, <1>12, <1>16
<1>18. /\ slots'[s].data[part] = v
       /\ \A p \in Part : p # part => slots'[s].data[p] = slots[s].data[p]
  BY <1>3, <1>13, <1>14
<1>19. respMap[r.id].slot = s /\ respMap[r.id].part = part
  BY DEF s, part
<1>20. slots'[s].valid
  BY <1>4, <1>13
<1>21. slots'[s].data[part] = TileOf(slots[s].meta)[part]
  BY <1>8, <1>18
<1> USE <1>3
<1> WITNESS s \in Slot, part \in Part
<1> QED
  BY <1>1, <1>2, <1>4, <1>5, <1>13, <1>17, <1>18, <1>19, <1>20, <1>21

LEMMA AnswerKeepsLoads ==
  ASSUME LoadInv, NEW r \in bus, BusReadResp(r)
  PROVE  LoadInv'
<1>1. PICK s \in Slot, part \in Part :
           /\ r.id \in Id /\ respMap[r.id].valid /\ respMap[r.id].slot = s /\ respMap[r.id].part = part
           /\ slots[s].valid /\ part \in Parts(slots[s].meta)
           /\ respMap' = [respMap EXCEPT ![r.id] = NoResp]
           /\ slots' \in [Slot -> SlotState]
           /\ \A t \in Slot : t # s => slots'[t] = slots[t]
           /\ slots'[s].valid /\ slots'[s].active = slots[s].active
           /\ slots'[s].byte = slots[s].byte /\ slots'[s].meta = slots[s].meta
           /\ slots'[s].recv = slots[s].recv + 1
           /\ slots'[s].data[part] = TileOf(slots[s].meta)[part]
           /\ \A p \in Part : p # part => slots'[s].data[p] = slots[s].data[p]
  BY AnswerFacts
<1>2. bus' = bus \ {r} /\ readq' = readq
  BY DEF BusReadResp
<1>3. respMap \in [Id -> {NoResp} \cup [valid : {TRUE}, slot : Slot, part : Part]]
  BY DEF LoadInv, LoadTypes
<1>4. \A i \in Id : i # r.id => respMap'[i] = respMap[i]
  BY <1>1, <1>3
<1>5. ~ respMap'[r.id].valid
  BY <1>1, <1>3 DEF NoResp
<1>6. \A t \in Slot : slots'[t].valid = slots[t].valid /\ slots'[t].meta = slots[t].meta
  <2>1. slots[s].valid \in BOOLEAN /\ slots'[s].valid \in BOOLEAN
    BY <1>1 DEF LoadInv, LoadTypes, SlotState
  <2>2. slots'[s].valid = slots[s].valid
    BY <1>1, <2>1
  <2> QED
    BY <1>1, <2>2
<1>7. LoadTypes'
  <2>1. respMap' \in [Id -> {NoResp} \cup [valid : {TRUE}, slot : Slot, part : Part]]
    BY <1>1, <1>3
  <2> QED
    BY <1>1, <1>2, <2>1 DEF LoadInv, LoadTypes
<1>8. \A i \in Id : respMap'[i].valid =>
        /\ i # r.id /\ respMap'[i] = respMap[i] /\ respMap[i].valid
        /\ respMap[i].slot \in Slot /\ respMap[i].part \in Part
  BY <1>4, <1>5, RespTypes DEF LoadInv
<1>9. IdsInUse'
  <2> SUFFICES ASSUME NEW i \in Id, respMap'[i].valid
               PROVE  /\ slots'[respMap'[i].slot].valid
                      /\ respMap'[i].part \in Parts(slots'[respMap'[i].slot].meta)
    BY DEF IdsInUse
  <2>1. /\ slots[respMap[i].slot].valid
        /\ respMap[i].part \in Parts(slots[respMap[i].slot].meta)
    BY <1>8 DEF LoadInv, IdsInUse
  <2> QED
    BY <1>6, <1>8, <2>1
<1>10. \A i \in Id : \A b, addr : i # r.id /\ StandsFor(i, b, addr) => StandsFor(i, b, addr)'
  <2> SUFFICES ASSUME NEW i \in Id, NEW b, NEW addr, i # r.id, StandsFor(i, b, addr)
               PROVE  StandsFor(i, b, addr)'
    OBVIOUS
  <2>1. respMap[i].valid /\ respMap'[i] = respMap[i] /\ respMap[i].slot \in Slot
    BY <1>4, RespTypes DEF StandsFor, LoadInv
  <2> QED
    BY <1>6, <2>1 DEF StandsFor
<1>11. \A b \in Bank : \A j \in 1 .. Len(readq[b]) : readq[b][j].id # r.id
  BY DEF LoadInv, RequestsApart
<1>12. \A q \in bus' : q \in bus /\ q.id # r.id
  BY <1>2 DEF LoadInv, RequestsApart
<1>13. RequestsAsk'
  <2>1. ASSUME NEW b \in Bank, NEW j \in 1 .. Len(readq'[b])
        PROVE  StandsFor(readq[b][j].id, b, readq[b][j].addr)'
    <3>1. readq[b] \in Seq(ReadEntry(b)) /\ j \in 1 .. Len(readq[b])
      BY <1>2 DEF LoadInv, LoadTypes
    <3>2. readq[b][j].id \in Id
      <4>1. readq[b][j] \in ReadEntry(b)
        BY <3>1, ItemType
      <4> QED
        BY <4>1 DEF ReadEntry
    <3>3. StandsFor(readq[b][j].id, b, readq[b][j].addr)
      BY <3>1 DEF LoadInv, RequestsAsk
    <3>4. readq[b][j].id # r.id
      BY <1>11, <3>1
    <3>5. respMap[readq[b][j].id].valid /\ respMap'[readq[b][j].id] = respMap[readq[b][j].id]
          /\ respMap[readq[b][j].id].slot \in Slot
      BY <1>4, <3>2, <3>3, <3>4, RespTypes DEF StandsFor, LoadInv
    <3> QED
      BY <1>2, <1>6, <3>3, <3>5 DEF StandsFor
  <2>2. ASSUME NEW q \in bus'
        PROVE  StandsFor(q.id, q.bank, q.addr)'
    <3>1. q \in bus /\ q.id # r.id /\ q.id \in Id /\ StandsFor(q.id, q.bank, q.addr)
      BY <1>12 DEF LoadInv, LoadTypes, RequestsAsk
    <3>2. respMap[q.id].valid /\ respMap'[q.id] = respMap[q.id]
          /\ respMap[q.id].slot \in Slot
      BY <1>4, <3>1, RespTypes DEF StandsFor, LoadInv
    <3> QED
      BY <1>6, <3>1, <3>2 DEF StandsFor
  <2> QED
    BY <2>1, <2>2 DEF RequestsAsk
<1>14. RequestsApart'
  BY <1>2, <1>12 DEF LoadInv, RequestsApart
<1>15. IdsAwaited'
  <2> SUFFICES ASSUME NEW i \in Id, respMap'[i].valid
               PROVE  \/ \E b \in Bank : \E j \in 1 .. Len(readq'[b]) : readq'[b][j].id = i
                      \/ \E q \in bus' : q.id = i
    BY DEF IdsAwaited, OnItsWay, InQueue
  <2>1. \/ \E b \in Bank : \E j \in 1 .. Len(readq[b]) : readq[b][j].id = i
        \/ \E q \in bus : q.id = i
    BY <1>8 DEF LoadInv, IdsAwaited, OnItsWay, InQueue
  <2> QED
    BY <1>2, <1>8, <2>1
<1>16. SlotsConsistent'
  <2>1. ASSUME NEW t \in Slot, t # s, slots'[t].valid
        PROVE  SlotConsistent(t)'
    <3>1. slots'[t] = slots[t] /\ SlotConsistent(t)
      BY <1>1, <2>1 DEF LoadInv, SlotsConsistent
    <3>2. Outstanding(t)' = Outstanding(t)
      <4> SUFFICES ASSUME NEW i \in Id
                   PROVE  respMap'[i].valid /\ respMap'[i].slot = t <=>
                          respMap[i].valid /\ respMap[i].slot = t
        BY DEF Outstanding
      <4>1. CASE i = r.id
        BY <1>1, <1>5, <2>1, <4>1
      <4>2. CASE i # r.id
        BY <1>4, <4>2
      <4> QED
        BY <4>1, <4>2
    <3>3. \A i \in Outstanding(t) : respMap'[i] = respMap[i]
      BY <1>1, <1>4, <2>1 DEF Outstanding
    <3>4. (Total(slots[t].meta))' = Total(slots[t].meta) /\ Complete(t)' = Complete(t)
      BY <3>1 DEF Complete, Total
    <3> QED
      BY <3>1, <3>2, <3>3, <3>4 DEF SlotConsistent
  <2>2. SlotConsistent(s)'
    <3>1. SlotConsistent(s)
      BY <1>1 DEF LoadInv, SlotsConsistent
    <3>2. Outstanding(s)' = Outstanding(s) \ {r.id} /\ r.id \in Outstanding(s)
      <4>1. r.id \in Outstanding(s)
        BY <1>1 DEF Outstanding
      <4>2. ASSUME NEW i \in Id
            PROVE  respMap'[i].valid /\ respMap'[i].slot = s <=>
                   respMap[i].valid /\ respMap[i].slot = s /\ i # r.id
        <5>1. CASE i = r.id
          BY <1>5, <5>1
        <5>2. CASE i # r.id
          BY <1>4, <5>2
        <5> QED
          BY <5>1, <5>2
      <4> QED
        BY <4>1, <4>2 DEF Outstanding
    <3>3. Cardinality(Outstanding(s)') = Cardinality(Outstanding(s)) - 1
      <4>1. IsFiniteSet(Outstanding(s))
        BY OutstandingFacts
      <4>2. Cardinality(Outstanding(s) \ {r.id}) = Cardinality(Outstanding(s)) - 1
        BY <3>2, <4>1, FS_RemoveElement
      <4> QED
        BY <3>2, <4>2
    <3>4. slots[s].recv \in Int /\ Cardinality(Outstanding(s)) \in Nat
      BY OutstandingFacts DEF LoadInv, LoadTypes, SlotState
    <3>5. slots'[s].recv + Cardinality(Outstanding(s)') = Total(slots'[s].meta)
      BY <1>1, <3>1, <3>3, <3>4 DEF SlotConsistent
    <3>6. slots'[s].active => Complete(s)'
      <4> SUFFICES ASSUME slots[s].active
                   PROVE  slots'[s].recv >= Total(slots'[s].meta)
        BY <1>1 DEF Complete
      <4>1. slots[s].recv >= Total(slots[s].meta)
        BY <3>1 DEF SlotConsistent, Complete
      <4>2. Total(slots[s].meta) \in Int
        BY <3>1, MetaFacts DEF SlotConsistent
      <4> QED
        BY <1>1, <3>4, <4>1, <4>2
    <3>7. ASSUME NEW p \in Part
          PROVE  \/ slots'[s].data[p] = TileOf(slots'[s].meta)[p]
                 \/ \E i \in Outstanding(s)' : respMap'[i].part = p
      <4>1. CASE p = part
        BY <1>1, <4>1
      <4>2. CASE p # part
        <5>1. CASE slots[s].data[p] = TileOf(slots[s].meta)[p]
          BY <1>1, <4>2, <5>1
        <5>2. CASE \E i \in Outstanding(s) : respMap[i].part = p
          <6>1. PICK i \in Outstanding(s) : respMap[i].part = p
            BY <5>2
          <6>2. i \in Id /\ i # r.id
            BY <1>1, <4>2, <6>1 DEF Outstanding
          <6> QED
            BY <1>4, <3>2, <6>1, <6>2
        <5> QED
          BY <3>1, <5>1, <5>2 DEF SlotConsistent
      <4> QED
        BY <4>1, <4>2
    <3> QED
      BY <1>1, <3>1, <3>5, <3>6, <3>7 DEF SlotConsistent
  <2> QED
    BY <2>1, <2>2 DEF SlotsConsistent
<1> QED
  BY <1>7, <1>9, <1>13, <1>14, <1>15, <1>16 DEF LoadInv

\* A slot that has received everything waits for nothing and holds the tile.
LEMMA CompleteSlot ==
  ASSUME LoadInv, NEW s \in Slot, slots[s].valid, slots[s].active \/ Complete(s)
  PROVE  /\ Complete(s) /\ Outstanding(s) = {}
         /\ slots[s].data = TileOf(slots[s].meta)
<1>1. SlotConsistent(s) /\ slots[s] \in SlotState
  BY DEF LoadInv, LoadTypes, SlotsConsistent
<1>2. Complete(s)
  BY <1>1 DEF SlotConsistent
<1>3. Cardinality(Outstanding(s)) = 0
  <2>1. Cardinality(Outstanding(s)) \in Nat
    BY OutstandingFacts
  <2>2. slots[s].recv \in Int
    BY <1>1, UnitAssumption DEF SlotState
  <2>3. slots[s].recv + Cardinality(Outstanding(s)) = Total(slots[s].meta)
        /\ slots[s].recv >= Total(slots[s].meta)
    BY <1>1, <1>2 DEF SlotConsistent, Complete
  <2> QED
    BY <2>1, <2>2, <2>3
<1>4. Outstanding(s) = {}
  BY <1>3, OutstandingFacts, FS_EmptySet
<1>5. \A part \in Part : slots[s].data[part] = TileOf(slots[s].meta)[part]
  BY <1>1, <1>4 DEF SlotConsistent
<1>6. slots[s].data = [part \in Part |-> slots[s].data[part]]
  BY <1>1 DEF SlotState
<1>7. TileOf(slots[s].meta) = [part \in Part |-> TileOf(slots[s].meta)[part]]
  BY DEF TileOf
<1>8. slots[s].data = TileOf(slots[s].meta)
  BY <1>5, <1>6, <1>7
<1> QED
  BY <1>2, <1>4, <1>8

\* What a tick does to the slots: nothing, or one slot whose load is whole
\* offers a plane, and goes on to the next or is freed when it was taken.
LEMMA WritebackFacts ==
  ASSUME LoadInv, NEW ok \in BOOLEAN, ok => WritebackSlots # {}, TickWriteback(ok)
  PROVE  /\ slots' \in [Slot -> SlotState]
         /\ ~ ok => wb' = <<>>
         /\ \/ ~ ok /\ slots' = slots
            \/ \E s \in Slot :
                 /\ slots[s].valid /\ Complete(s) /\ Outstanding(s) = {}
                 /\ slots[s].data = TileOf(slots[s].meta)
                 /\ \A t \in Slot : t # s => slots'[t] = slots[t]
                 /\ ok => wb' = <<Writeback(s)>>
                 /\ \/ ok /\ Writeback(s).last /\ ~ slots'[s].valid
                    \/ /\ slots'[s].valid /\ slots'[s].active
                       /\ slots'[s].meta = slots[s].meta
                       /\ slots'[s].recv = slots[s].recv /\ slots'[s].data = slots[s].data
                       /\ \/ ~ ok /\ slots'[s].byte = slots[s].byte
                          \/ ok /\ ~ Writeback(s).last /\ slots'[s].byte = slots[s].byte + 1
<1>0. slots \in [Slot -> SlotState]
  BY DEF LoadInv, LoadTypes
<1>1. CASE WritebackSlots = {}
  BY <1>0, <1>1 DEF TickWriteback
<1>2. CASE WritebackSlots # {}
  <2>0. PICK s : s = WritebackSlot
    OBVIOUS
  <2>1. s \in Slot /\ slots[s].valid /\ (slots[s].active \/ Complete(s))
    <3>1. WritebackSlots \in SUBSET Slot
      BY DEF WritebackSlots
    <3>2. Slot \in SUBSET Int /\ IsFiniteSet(Slot)
      BY UnitAssumption, FS_Interval DEF Slot
    <3>3. IsFiniteSet(WritebackSlots)
      BY <3>1, <3>2, FS_Subset
    <3>4. WritebackSlots \in SUBSET Int
      BY <3>1, <3>2
    <3>5. \E x \in WritebackSlots : \A t \in WritebackSlots : x <= t
      BY <1>2, <3>3, <3>4, FirstMember
    <3>6. s \in WritebackSlots
      BY <2>0, <3>5 DEF WritebackSlot
    <3> QED
      BY <3>6 DEF WritebackSlots
  <2>2. Complete(s) /\ Outstanding(s) = {} /\ slots[s].data = TileOf(slots[s].meta)
    BY <2>1, CompleteSlot
  <2>3. SlotConsistent(s) /\ slots[s] \in SlotState
    BY <1>0, <2>1 DEF LoadInv, SlotsConsistent
  <2>4. /\ wb' = IF ok THEN <<Writeback(s)>> ELSE <<>>
        /\ slots' = [slots EXCEPT ![s] =
                IF ~ ok THEN [slots[s] EXCEPT !.active = TRUE]
                ELSE IF Writeback(s).last THEN ZeroSlot
                ELSE [slots[s] EXCEPT !.active = TRUE, !.byte = slots[s].byte + 1]]
    <3>1. /\ wb' = IF ok THEN <<Writeback(WritebackSlot)>> ELSE <<>>
          /\ slots' = [slots EXCEPT ![WritebackSlot] =
                IF ~ ok THEN [slots[WritebackSlot] EXCEPT !.active = TRUE]
                ELSE IF Writeback(WritebackSlot).last THEN ZeroSlot
                ELSE [slots[WritebackSlot] EXCEPT !.active = TRUE, !.byte = slots[WritebackSlot].byte + 1]]
      BY <1>2, Zenon DEF TickWriteback
    <3> QED
      BY <2>0, <3>1
  <2>5. \A t \in Slot : t # s => slots'[t] = slots[t]
    BY <1>0, <2>4
  <2>6. CASE ~ ok
    <3>1. slots'[s] = [slots[s] EXCEPT !.active = TRUE]
      BY <1>0, <2>1, <2>4, <2>6
    <3>2. slots'[s] \in SlotState
      BY <2>3, <3>1 DEF SlotState
    <3>3. slots' \in [Slot -> SlotState]
      BY <1>0, <2>1, <2>4, <2>6, <3>1, <3>2
    <3>4. /\ slots'[s].valid /\ slots'[s].active
          /\ slots'[s].meta = slots[s].meta
          /\ slots'[s].recv = slots[s].recv /\ slots'[s].data = slots[s].data
          /\ slots'[s].byte = slots[s].byte
      BY <2>1, <2>3, <3>1 DEF SlotState
    <3> QED
      BY <2>1, <2>2, <2>4, <2>5, <2>6, <3>3, <3>4
  <2>7. CASE ok /\ Writeback(s).last
    <3>1. slots'[s] = ZeroSlot
      BY <1>0, <2>1, <2>4, <2>7
    <3>2. slots' \in [Slot -> SlotState] /\ ~ slots'[s].valid
      BY <1>0, <2>1, <2>4, <2>7, <3>1, ZeroSlotType DEF ZeroSlot
    <3> QED
      BY <2>1, <2>2, <2>4, <2>5, <2>7, <3>2
  <2>8. CASE ok /\ ~ Writeback(s).last
    <3>1. slots'[s] = [slots[s] EXCEPT !.active = TRUE, !.byte = slots[s].byte + 1]
      BY <1>0, <2>1, <2>4, <2>8
    <3>2. slots[s].byte + 1 \in 0 .. MaxBytes - 1
      <4>1. ~ (slots[s].byte + 1 >= slots[s].meta.bytes)
        BY <2>8 DEF Writeback
      <4>2. slots[s].meta.bytes \in 1 .. MaxBytes /\ MaxBytes \in Nat
        BY <2>3, MetaFacts, UnitAssumption DEF SlotConsistent
      <4>3. slots[s].byte \in 0 .. MaxBytes - 1
        BY <2>3 DEF SlotState
      <4> QED
        BY <4>1, <4>2, <4>3
    <3>3. slots'[s] \in SlotState
      BY <2>3, <3>1, <3>2 DEF SlotState
    <3>4. slots' \in [Slot -> SlotState]
      BY <1>0, <2>1, <2>4, <2>8, <3>1, <3>3
    <3>5. /\ slots'[s].valid /\ slots'[s].active
          /\ slots'[s].meta = slots[s].meta
          /\ slots'[s].recv = slots[s].recv /\ slots'[s].data = slots[s].data
          /\ slots'[s].byte = slots[s].byte + 1
      BY <2>1, <2>3, <3>1 DEF SlotState
    <3> QED
      BY <2>1, <2>2, <2>4, <2>5, <2>8, <3>4, <3>5
  <2> QED
    BY <2>6, <2>7, <2>8
<1> QED
  BY <1>1, <1>2

\* A tick moves the head of the queues whose offer the bus takes: what is
\* left of a queue, and where each request is afterwards.
LEMMA OfferFacts ==
  ASSUME LoadInv, NEW ok \in BOOLEAN, NEW reads \in SUBSET Bank, NEW writes \in SUBSET Bank,
         Tick(ok, reads, writes), NEW b \in Bank
  PROVE  /\ readq'[b] \in Seq(ReadEntry(b))
         /\ \A j \in 1 .. Len(readq[b]) : readq[b][j].id \in Id /\ readq[b][j].addr \in Addr
         /\ b \notin reads => readq'[b] = readq[b]
         /\ b \in reads =>
              /\ 1 \in 1 .. Len(readq[b]) /\ Head(readq[b]) = readq[b][1]
              /\ \A j \in 1 .. Len(readq'[b]) :
                   j + 1 \in 1 .. Len(readq[b]) /\ readq'[b][j] = readq[b][j + 1]
              /\ \A j \in 1 .. Len(readq[b]) :
                   j = 1 \/ (j - 1 \in 1 .. Len(readq'[b]) /\ readq'[b][j - 1] = readq[b][j])
<1>1. readq[b] \in Seq(ReadEntry(b))
  BY DEF LoadInv, LoadTypes
<1>2. /\ readq'[b] = IF b \in reads THEN Tail(readq[b]) ELSE readq[b]
      /\ b \in reads => readq[b] # <<>>
  BY DEF Tick
<1>3. ASSUME NEW j \in 1 .. Len(readq[b])
      PROVE  readq[b][j].id \in Id /\ readq[b][j].addr \in Addr
  <2>1. readq[b][j] \in ReadEntry(b)
    BY <1>1, ItemType
  <2> QED
    BY <2>1 DEF ReadEntry, Addr
<1>4. CASE b \notin reads
  BY <1>1, <1>2, <1>3, <1>4
<1>5. CASE b \in reads
  <2> DEFINE q == readq[b]
  <2>1. readq'[b] = Tail(q) /\ q # <<>> /\ q \in Seq(ReadEntry(b))
    BY <1>1, <1>2, <1>5
  <2> HIDE DEF q
  <2>2. /\ Len(q) \in Nat /\ Len(q) >= 1 /\ Head(q) = q[1]
        /\ Tail(q) \in Seq(ReadEntry(b)) /\ Len(Tail(q)) = Len(q) - 1
        /\ \A i \in 1 .. Len(q) - 1 : Tail(q)[i] = q[i + 1]
    BY <2>1, TailFacts
  <2>3. \A j \in 1 .. Len(Tail(q)) : j + 1 \in 1 .. Len(q) /\ Tail(q)[j] = q[j + 1]
    BY <2>2
  <2>4. ASSUME NEW j \in 1 .. Len(q), j # 1
        PROVE  j - 1 \in 1 .. Len(Tail(q)) /\ Tail(q)[j - 1] = q[j]
    <3>1. j - 1 \in 1 .. Len(q) - 1 /\ (j - 1) + 1 = j
      BY <2>2, <2>4
    <3>2. Tail(q)[j - 1] = q[(j - 1) + 1]
      BY <2>2, <3>1
    <3> QED
      BY <2>2, <3>1, <3>2
  <2>5. 1 \in 1 .. Len(q)
    BY <2>2
  <2>6. /\ readq'[b] \in Seq(ReadEntry(b))
        /\ 1 \in 1 .. Len(q) /\ Head(q) = q[1]
        /\ \A j \in 1 .. Len(readq'[b]) : j + 1 \in 1 .. Len(q) /\ readq'[b][j] = q[j + 1]
        /\ \A j \in 1 .. Len(q) : j = 1 \/ (j - 1 \in 1 .. Len(readq'[b]) /\ readq'[b][j - 1] = q[j])
    BY <2>1, <2>2, <2>3, <2>4, <2>5
  <2> QED
    BY <1>3, <1>5, <2>6 DEF q
<1> QED
  BY <1>4, <1>5

LEMMA TickKeepsLoads ==
  ASSUME LoadInv, NEW ok \in BOOLEAN, NEW reads \in SUBSET Bank, NEW writes \in SUBSET Bank,
         Tick(ok, reads, writes)
  PROVE  LoadInv'
<1> DEFINE head(b) == [id |-> Head(readq[b]).id, bank |-> b, addr |-> Head(readq[b]).addr]
<1>1. /\ respMap' = respMap
      /\ bus' = bus \cup { head(b) : b \in reads }
      /\ TickWriteback(ok) /\ (ok => WritebackSlots # {})
  BY DEF Tick
<1>2. \A b \in Bank :
         /\ readq'[b] \in Seq(ReadEntry(b))
         /\ \A j \in 1 .. Len(readq[b]) : readq[b][j].id \in Id /\ readq[b][j].addr \in Addr
         /\ b \notin reads => readq'[b] = readq[b]
         /\ b \in reads =>
              /\ 1 \in 1 .. Len(readq[b]) /\ Head(readq[b]) = readq[b][1]
              /\ \A j \in 1 .. Len(readq'[b]) :
                   j + 1 \in 1 .. Len(readq[b]) /\ readq'[b][j] = readq[b][j + 1]
              /\ \A j \in 1 .. Len(readq[b]) :
                   j = 1 \/ (j - 1 \in 1 .. Len(readq'[b]) /\ readq'[b][j - 1] = readq[b][j])
  BY OfferFacts
<1>3. \A i \in Id : respMap[i].valid => respMap[i].slot \in Slot /\ respMap[i].part \in Part
  BY RespTypes DEF LoadInv
<1>4. /\ slots' \in [Slot -> SlotState]
      /\ \A i \in Id : respMap[i].valid =>
           /\ slots'[respMap[i].slot].valid
           /\ slots'[respMap[i].slot].meta = slots[respMap[i].slot].meta
      /\ \A s \in Slot : slots'[s].valid =>
           /\ slots[s].valid
           /\ slots'[s].meta = slots[s].meta /\ slots'[s].recv = slots[s].recv
           /\ slots'[s].data = slots[s].data
           /\ slots'[s].active => slots[s].active \/ Complete(s)
           /\ slots'[s].byte < slots'[s].meta.bytes
  <2>1. \A i \in Id : respMap[i].valid => slots[respMap[i].slot].valid
    BY DEF LoadInv, IdsInUse
  <2>2. \A s \in Slot : slots[s].valid => slots[s].byte < slots[s].meta.bytes
    BY DEF LoadInv, SlotsConsistent, SlotConsistent
  <2>3. CASE slots' = slots
    BY <1>3, <2>1, <2>2, <2>3 DEF LoadInv, LoadTypes
  <2>4. CASE \E s \in Slot :
                 /\ slots[s].valid /\ Complete(s) /\ Outstanding(s) = {}
                 /\ slots[s].data = TileOf(slots[s].meta)
                 /\ \A t \in Slot : t # s => slots'[t] = slots[t]
                 /\ \/ ok /\ Writeback(s).last /\ ~ slots'[s].valid
                    \/ /\ slots'[s].valid /\ slots'[s].active
                       /\ slots'[s].meta = slots[s].meta
                       /\ slots'[s].recv = slots[s].recv /\ slots'[s].data = slots[s].data
                       /\ \/ ~ ok /\ slots'[s].byte = slots[s].byte
                          \/ ok /\ ~ Writeback(s).last /\ slots'[s].byte = slots[s].byte + 1
    <3>1. PICK s \in Slot :
                 /\ slots[s].valid /\ Complete(s) /\ Outstanding(s) = {}
                 /\ \A t \in Slot : t # s => slots'[t] = slots[t]
                 /\ \/ ~ slots'[s].valid
                    \/ /\ slots'[s].valid /\ slots'[s].active
                       /\ slots'[s].meta = slots[s].meta
                       /\ slots'[s].recv = slots[s].recv /\ slots'[s].data = slots[s].data
                       /\ \/ slots'[s].byte = slots[s].byte
                          \/ ~ Writeback(s).last /\ slots'[s].byte = slots[s].byte + 1
      BY <2>4
    <3>2. \A i \in Id : respMap[i].valid => respMap[i].slot # s
      BY <3>1 DEF Outstanding
    <3>3. slots'[s].valid => slots'[s].byte < slots'[s].meta.bytes
      <4>1. slots[s].byte \in Int /\ slots[s].meta.bytes \in Int
        <5>1. slots[s] \in SlotState /\ slots[s].meta \in Loads
          BY <3>1 DEF LoadInv, LoadTypes, SlotsConsistent, SlotConsistent
        <5>2. slots[s].meta.bytes \in 1 .. MaxBytes
          BY <5>1, MetaFacts
        <5>3. slots[s].byte \in 0 .. MaxBytes - 1
          BY <5>1 DEF SlotState
        <5>4. MaxBytes \in Nat
          BY UnitAssumption
        <5> QED
          BY <5>2, <5>3, <5>4
      <4>2. ~ Writeback(s).last => slots[s].byte + 1 < slots[s].meta.bytes
        <5> SUFFICES ASSUME ~ Writeback(s).last
                     PROVE  slots[s].byte + 1 < slots[s].meta.bytes
          OBVIOUS
        <5>1. ~ (slots[s].byte + 1 >= slots[s].meta.bytes)
          BY DEF Writeback
        <5> QED
          BY <4>1, <5>1
      <4> QED
        BY <2>2, <3>1, <4>1, <4>2
    <3>4. slots' \in [Slot -> SlotState]
      BY <1>1, WritebackFacts
    <3> QED
      BY <1>3, <2>1, <2>2, <3>1, <3>2, <3>3, <3>4
  <2> QED
    BY <1>1, <2>3, <2>4, WritebackFacts
<1>5. \A s \in Slot : Outstanding(s)' = Outstanding(s)
  BY <1>1 DEF Outstanding
<1> HIDE DEF head
<1>6. ASSUME NEW b \in reads
      PROVE  /\ b \in Bank /\ head(b).id = readq[b][1].id /\ head(b).bank = b
             /\ head(b).addr = readq[b][1].addr /\ 1 \in 1 .. Len(readq[b])
             /\ head(b) \in [id : Id, bank : Bank, addr : Addr]
  BY <1>2 DEF head
<1>7. \A b \in Bank : \A j \in 1 .. Len(readq'[b]) :
         \/ b \notin reads /\ j \in 1 .. Len(readq[b]) /\ readq'[b][j] = readq[b][j]
         \/ b \in reads /\ j + 1 \in 1 .. Len(readq[b]) /\ readq'[b][j] = readq[b][j + 1]
  BY <1>2
<1>8. LoadTypes'
  <2>1. bus \in SUBSET [id : Id, bank : Bank, addr : Addr]
    BY DEF LoadInv, LoadTypes
  <2>2. bus' \in SUBSET [id : Id, bank : Bank, addr : Addr]
    BY <1>1, <1>6, <2>1
  <2> QED
    BY <1>1, <1>2, <1>4, <2>2 DEF LoadInv, LoadTypes
<1>9. IdsInUse'
  BY <1>1, <1>3, <1>4 DEF LoadInv, IdsInUse
<1>10. \A i \in Id : \A b, addr : StandsFor(i, b, addr) =>
         /\ respMap'[i].valid
         /\ PhysOf[<<b, addr>>] = ChunkAddr(slots'[respMap'[i].slot].meta, respMap'[i].part)
  BY <1>1, <1>4 DEF StandsFor
<1>11. RequestsAsk'
  <2>1. ASSUME NEW b \in Bank, NEW j \in 1 .. Len(readq'[b])
        PROVE  StandsFor(readq[b][j].id, b, readq[b][j].addr)'
    <3>1. PICK k \in 1 .. Len(readq[b]) : readq'[b][j] = readq[b][k]
      BY <1>7
    <3>2. readq[b][k].id \in Id /\ StandsFor(readq[b][k].id, b, readq[b][k].addr)
      BY <1>2 DEF LoadInv, RequestsAsk
    <3>3. StandsFor(readq[b][j].id, b, readq[b][j].addr)'
          <=> /\ respMap'[readq'[b][j].id].valid
              /\ PhysOf[<<b, readq'[b][j].addr>>]
                 = ChunkAddr(slots'[respMap'[readq'[b][j].id].slot].meta,
                             respMap'[readq'[b][j].id].part)
      BY DEF StandsFor
    <3> QED
      BY <1>10, <3>1, <3>2, <3>3
  <2>2. ASSUME NEW r \in bus'
        PROVE  StandsFor(r.id, r.bank, r.addr)'
    <3>1. r.id \in Id /\ StandsFor(r.id, r.bank, r.addr)
      <4>1. CASE r \in bus
        BY <4>1 DEF LoadInv, LoadTypes, RequestsAsk
      <4>2. CASE \E b \in reads : r = head(b)
        <5>1. PICK b \in reads : r = head(b)
          BY <4>2
        <5>2. StandsFor(readq[b][1].id, b, readq[b][1].addr) /\ readq[b][1].id \in Id
          BY <1>2, <1>6 DEF LoadInv, RequestsAsk
        <5> QED
          BY <1>6, <5>1, <5>2
      <4> QED
        BY <1>1, <4>1, <4>2
    <3> QED
      BY <1>10, <3>1 DEF StandsFor
  <2> QED
    BY <2>1, <2>2 DEF RequestsAsk
<1>12. RequestsApart'
  <2>0. /\ \A b, c \in Bank : \A j \in 1 .. Len(readq[b]) : \A k \in 1 .. Len(readq[c]) :
             readq[b][j].id = readq[c][k].id => b = c /\ j = k
        /\ \A r, q \in bus : r.id = q.id => r = q
        /\ \A b \in Bank : \A j \in 1 .. Len(readq[b]) : \A r \in bus : readq[b][j].id # r.id
    BY DEF LoadInv, RequestsApart
  <2>1. ASSUME NEW b \in Bank, NEW c \in Bank,
               NEW j \in 1 .. Len(readq'[b]), NEW k \in 1 .. Len(readq'[c]),
               readq'[b][j].id = readq'[c][k].id
        PROVE  b = c /\ j = k
    <3>1. j \in Int /\ k \in Int
      OBVIOUS
    <3>2. \/ b \notin reads /\ j \in 1 .. Len(readq[b]) /\ readq'[b][j] = readq[b][j]
          \/ b \in reads /\ j + 1 \in 1 .. Len(readq[b]) /\ readq'[b][j] = readq[b][j + 1]
      BY <1>7
    <3>3. \/ c \notin reads /\ k \in 1 .. Len(readq[c]) /\ readq'[c][k] = readq[c][k]
          \/ c \in reads /\ k + 1 \in 1 .. Len(readq[c]) /\ readq'[c][k] = readq[c][k + 1]
      BY <1>7
    <3>4. b = c
      <4>1. PICK x \in 1 .. Len(readq[b]) : readq'[b][j] = readq[b][x]
        BY <3>2
      <4>2. PICK y \in 1 .. Len(readq[c]) : readq'[c][k] = readq[c][y]
        BY <3>3
      <4> QED
        BY <2>0, <2>1, <4>1, <4>2
    <3>5. CASE b \in reads
      <4>1. j + 1 = k + 1
        BY <2>0, <2>1, <3>2, <3>3, <3>4, <3>5
      <4> QED
        BY <3>1, <3>4, <4>1
    <3>6. CASE b \notin reads
      BY <2>0, <2>1, <3>2, <3>3, <3>4, <3>6
    <3> QED
      BY <3>5, <3>6
  <2>2. ASSUME NEW r \in bus', NEW q \in bus', r.id = q.id
        PROVE  r = q
    <3>1. CASE r \in bus /\ q \in bus
      BY <2>0, <2>2, <3>1
    <3>2. ASSUME NEW b \in reads, r = head(b) \/ q = head(b)
          PROVE  r = head(b) /\ q = head(b)
      <4>1. r.id = readq[b][1].id /\ q.id = readq[b][1].id /\ 1 \in 1 .. Len(readq[b]) /\ b \in Bank
        BY <1>6, <2>2, <3>2
      <4>2. r \notin bus /\ q \notin bus
        BY <2>0, <4>1
      <4>3. PICK c \in reads, d \in reads : r = head(c) /\ q = head(d)
        BY <1>1, <4>2
      <4>4. /\ c \in Bank /\ r.id = readq[c][1].id /\ 1 \in 1 .. Len(readq[c])
            /\ d \in Bank /\ q.id = readq[d][1].id /\ 1 \in 1 .. Len(readq[d])
        BY <1>6, <4>3
      <4>5. c = b /\ d = b
        BY <2>0, <4>1, <4>4
      <4> QED
        BY <4>3, <4>5
    <3> QED
      BY <1>1, <3>1, <3>2
  <2>3. ASSUME NEW b \in Bank, NEW j \in 1 .. Len(readq'[b]), NEW r \in bus'
        PROVE  readq'[b][j].id # r.id
    <3>1. PICK k \in 1 .. Len(readq[b]) : readq'[b][j] = readq[b][k] /\ (b \in reads => k # 1)
      <4>1. j + 1 # 1
        OBVIOUS
      <4> QED
        BY <1>7, <4>1
    <3>2. CASE r \in bus
      BY <2>0, <3>1, <3>2
    <3>3. CASE \E c \in reads : r = head(c)
      <4>1. PICK c \in reads : r = head(c)
        BY <3>3
      <4>2. c \in Bank /\ r.id = readq[c][1].id /\ 1 \in 1 .. Len(readq[c])
        BY <1>6, <4>1
      <4>3. readq[b][k].id = readq[c][1].id => b = c /\ k = 1
        BY <2>0, <4>2
      <4> QED
        BY <3>1, <4>1, <4>2, <4>3
    <3> QED
      BY <1>1, <3>2, <3>3
  <2> QED
    BY <2>1, <2>2, <2>3 DEF RequestsApart
<1>13. IdsAwaited'
  <2> SUFFICES ASSUME NEW i \in Id, respMap[i].valid
               PROVE  \/ \E b \in Bank : \E j \in 1 .. Len(readq'[b]) : readq'[b][j].id = i
                      \/ \E r \in bus' : r.id = i
    BY <1>1 DEF IdsAwaited, OnItsWay, InQueue
  <2>1. CASE \E r \in bus : r.id = i
    BY <1>1, <2>1
  <2>2. CASE \E b \in Bank : \E j \in 1 .. Len(readq[b]) : readq[b][j].id = i
    <3>1. PICK b \in Bank : \E j \in 1 .. Len(readq[b]) : readq[b][j].id = i
      BY <2>2
    <3>2. PICK j \in 1 .. Len(readq[b]) : readq[b][j].id = i
      BY <3>1
    <3>3. CASE b \notin reads
      BY <1>2, <3>2, <3>3
    <3>4. CASE b \in reads /\ j = 1
      <4>1. head(b) \in bus' /\ head(b).id = i
        BY <1>1, <1>6, <3>2, <3>4
      <4> QED
        BY <4>1
    <3>5. CASE b \in reads /\ j # 1
      <4>0. \A k \in 1 .. Len(readq[b]) :
              k = 1 \/ (k - 1 \in 1 .. Len(readq'[b]) /\ readq'[b][k - 1] = readq[b][k])
        BY <1>2, <3>5
      <4>1. j - 1 \in 1 .. Len(readq'[b]) /\ readq'[b][j - 1] = readq[b][j]
        BY <3>5, <4>0
      <4> QED
        BY <3>2, <4>1
    <3> QED
      BY <3>3, <3>4, <3>5
  <2> QED
    BY <2>1, <2>2 DEF LoadInv, IdsAwaited, OnItsWay, InQueue
<1>14. SlotsConsistent'
  <2> SUFFICES ASSUME NEW s \in Slot, slots'[s].valid
               PROVE  SlotConsistent(s)'
    BY DEF SlotsConsistent
  <2>1. /\ slots[s].valid /\ SlotConsistent(s)
        /\ slots'[s].meta = slots[s].meta /\ slots'[s].recv = slots[s].recv
        /\ slots'[s].data = slots[s].data
        /\ slots'[s].active => Complete(s)
        /\ slots'[s].byte < slots'[s].meta.bytes
    BY <1>4 DEF LoadInv, SlotsConsistent, SlotConsistent
  <2>2. (Total(slots[s].meta))' = Total(slots[s].meta) /\ (Complete(s) => Complete(s)')
    BY <2>1 DEF Complete, Total
  <2> QED
    BY <1>1, <1>5, <2>1, <2>2 DEF SlotConsistent
<1> QED
  BY <1>8, <1>9, <1>11, <1>12, <1>13, <1>14 DEF LoadInv

-----------------------------------------------------------------------------
(* The stores.                                                             *)

LEMMA StoreInit ==
  ASSUME Init
  PROVE  StoreInv
<1> USE DEF Init
<1>1. 0 \in 0 .. MaxStores
  BY UnitAssumption
<1>2. store \in [active : BOOLEAN, valid : [Plane -> BOOLEAN],
                data : [Plane -> 0 .. MaxStores], meta : Stores \cup {NoStore.meta}]
  BY <1>1 DEF NoStore
<1>3. StoreTypes
  BY <1>1, <1>2 DEF StoreTypes
<1>4. ContextCurrent
  BY DEF ContextCurrent, NoStore
<1>5. \A b \in Bank : QueueInOrder(b, writeq[b])
  BY DEF QueueInOrder
<1>6. \A c \in Chunk : mem[c] <= fired
  OBVIOUS
<1> QED
  BY <1>3, <1>4, <1>5, <1>6 DEF StoreInv

LEMMA StoreFireKeepsStores ==
  ASSUME StoreInv, NEW m \in Stores, StoreRowFire(m)
  PROVE  StoreInv'
<1>1. /\ fired \in Nat /\ fired' = fired + 1 /\ fired' \in 0 .. MaxStores
      /\ writeq' = writeq /\ mem' = mem
  BY UnitAssumption DEF StoreInv, StoreTypes, StoreRowFire
<1>2. store' = [NoStore EXCEPT !.active = TRUE, !.meta = m]
  BY DEF StoreRowFire
<1>3. store' \in [active : BOOLEAN, valid : [Plane -> BOOLEAN],
                data : [Plane -> 0 .. MaxStores], meta : Stores \cup {NoStore.meta}]
  <2>1. 0 \in 0 .. MaxStores
    BY UnitAssumption
  <2> QED
    BY <1>2, <2>1 DEF NoStore
<1>4. ContextCurrent'
  <2>1. store'.meta = m /\ store'.valid = [p \in Plane |-> FALSE]
    BY <1>2 DEF NoStore
  <2> QED
    BY <1>1, <2>1 DEF ContextCurrent
<1>5. \A b \in Bank : QueueInOrder(b, writeq[b])'
  <2> SUFFICES ASSUME NEW b \in Bank
               PROVE  QueueInOrder(b, writeq[b])'
    OBVIOUS
  <2>1. writeq[b] \in Seq(WriteEntry) /\ QueueInOrder(b, writeq[b])
    BY DEF StoreInv, StoreTypes
  <2>2. ASSUME NEW j \in 1 .. Len(writeq[b])
        PROVE  WriteExact(b, writeq[b][j])'
    <3>1. WriteExact(b, writeq[b][j])
      BY <2>1 DEF QueueInOrder
    <3>2. writeq[b][j].data[0] \in Int
      <4>1. writeq[b][j] \in WriteEntry
        BY <2>1, ItemType
      <4>2. PICK n \in 1 .. MaxBytes : writeq[b][j].data \in [0 .. n - 1 -> 1 .. MaxStores]
        BY <4>1 DEF WriteEntry
      <4>3. 0 \in 0 .. n - 1
        BY UnitAssumption
      <4> QED
        BY <4>2, <4>3, UnitAssumption
    <3> QED
      BY <1>1, <3>1, <3>2 DEF WriteExact
  <2> QED
    BY <1>1, <2>1, <2>2 DEF QueueInOrder, Written
<1>6. \A c \in Chunk : mem'[c] <= fired'
  <2>1. \A c \in Chunk : mem[c] \in Int /\ mem[c] <= fired
    BY UnitAssumption DEF StoreInv, StoreTypes
  <2> QED
    BY <1>1, <2>1
<1>7. StoreTypes'
  BY <1>1, <1>3 DEF StoreInv, StoreTypes
<1> QED
  BY <1>4, <1>5, <1>6, <1>7 DEF StoreInv

LEMMA InputKeepsStores ==
  ASSUME StoreInv, NEW p \in Plane, StoreMemInput(p)
  PROVE  StoreInv'
<1>1. /\ store.active /\ store' = [store EXCEPT !.data[p] = fired, !.valid[p] = TRUE]
      /\ writeq' = writeq /\ mem' = mem /\ fired' = fired
  BY DEF StoreMemInput
<1>2. store \in [active : BOOLEAN, valid : [Plane -> BOOLEAN],
                data : [Plane -> 0 .. MaxStores], meta : Stores \cup {NoStore.meta}]
      /\ fired \in 0 .. MaxStores
  BY DEF StoreInv, StoreTypes
<1>3. store' = [store EXCEPT !.data = [store.data EXCEPT ![p] = fired],
                             !.valid = [store.valid EXCEPT ![p] = TRUE]]
  BY <1>1, <1>2
<1>4. /\ store' \in [active : BOOLEAN, valid : [Plane -> BOOLEAN],
                data : [Plane -> 0 .. MaxStores], meta : Stores \cup {NoStore.meta}]
      /\ store'.data = [store.data EXCEPT ![p] = fired]
      /\ store'.valid = [store.valid EXCEPT ![p] = TRUE]
      /\ store'.meta = store.meta
  <2>1. [store.data EXCEPT ![p] = fired] \in [Plane -> 0 .. MaxStores]
    BY <1>2
  <2>2. [store.valid EXCEPT ![p] = TRUE] \in [Plane -> BOOLEAN]
    BY <1>2
  <2> QED
    BY <1>2, <1>3, <2>1, <2>2
<1>5. ContextCurrent'
  <2>1. /\ store.meta \in Stores /\ fired >= 1
        /\ \A q \in Plane : store.valid[q] => store.data[q] = fired
    BY <1>1 DEF StoreInv, ContextCurrent
  <2>2. ASSUME NEW q \in Plane, store'.valid[q]
        PROVE  store'.data[q] = fired
    <3>1. CASE q = p
      BY <1>2, <1>4, <3>1
    <3>2. CASE q # p
      BY <1>2, <1>4, <2>1, <2>2, <3>2
    <3> QED
      BY <3>1, <3>2
  <2> QED
    BY <1>1, <1>4, <2>1, <2>2 DEF ContextCurrent
<1>6. StoreTypes'
  BY <1>1, <1>4 DEF StoreInv, StoreTypes
<1> QED
  BY <1>1, <1>5, <1>6 DEF StoreInv, QueueInOrder, WriteExact, Written

\* The requests of a store whose planes have all been given: one for each
\* position of the bank, with this store's data in every plane.
LEMMA WriteRequestFacts ==
  ASSUME StoreInv, EnqueueStore, NEW b \in Bank
  PROVE  LET q == WriteRequests(store.meta, b)
         IN  /\ q \in Seq(WriteEntry)
             /\ \A j \in 1 .. Len(q) : WriteExact(b, q[j]) /\ Written(q[j]) = fired
<1> DEFINE m == store.meta
           n == Cardinality(ForBank(m, b))
           q == WriteRequests(m, b)
           P == Positions[m][b]
           given == [p \in 0 .. m.bytes - 1 |-> store.data[p]]
<1>1. /\ m \in Stores /\ fired >= 1 /\ fired \in 0 .. MaxStores
      /\ \A p \in Plane : store.valid[p] => store.data[p] = fired
  BY DEF StoreInv, StoreTypes, ContextCurrent, EnqueueStore
<1>2. m.bytes \in 1 .. MaxBytes /\ MaxBytes \in Nat
  BY <1>1, MetaFacts, UnitAssumption
<1>3. \A p \in 0 .. m.bytes - 1 : store.data[p] = fired
  <2> SUFFICES ASSUME NEW p \in 0 .. m.bytes - 1
               PROVE  store.data[p] = fired
    OBVIOUS
  <2>1. p \in Plane
    BY <1>2 DEF Plane
  <2>2. store.valid[p]
    BY DEF EnqueueStore, InputDone
  <2> QED
    BY <1>1, <2>1, <2>2
<1>4. /\ n \in Nat /\ DOMAIN P = 1 .. n
      /\ \A j \in 1 .. n : P[j] \in 1 .. Total(m) /\ BankOf[ChunkAddr(m, PartAt(m, P[j]))] = b
  BY <1>1, PositionFacts
<1> HIDE DEF P, m
<1>5. q = [j \in 1 .. n |-> [addr |-> AddrOf[ChunkAddr(m, PartAt(m, P[j]))],
                             data |-> given, enable |-> PartAt(m, P[j]) \in m.mask]]
  BY <1>4 DEF WriteRequests, P
<1>6. /\ given \in [0 .. m.bytes - 1 -> 1 .. MaxStores]
      /\ DOMAIN given = 0 .. m.bytes - 1 /\ 0 \in DOMAIN given
      /\ \A p \in DOMAIN given : given[p] = fired
  <2>1. fired \in 1 .. MaxStores
    BY <1>1, UnitAssumption
  <2>2. 0 \in 0 .. m.bytes - 1
    BY <1>2
  <2> QED
    BY <1>3, <2>1, <2>2
<1> HIDE DEF given
<1>7. ASSUME NEW j \in 1 .. n
      PROVE  q[j] \in WriteEntry /\ WriteExact(b, q[j]) /\ Written(q[j]) = fired
  <2>1. P[j] \in 1 .. Total(m) /\ BankOf[ChunkAddr(m, PartAt(m, P[j]))] = b
    BY <1>4
  <2>2. ChunkAddr(m, PartAt(m, P[j])) \in Chunk
    BY <1>1, <2>1, MetaFacts, PartFacts
  <2>3. q[j] = [addr |-> AddrOf[ChunkAddr(m, PartAt(m, P[j]))],
                data |-> given, enable |-> PartAt(m, P[j]) \in m.mask]
    BY <1>5
  <2>4. q[j].addr = AddrOf[ChunkAddr(m, PartAt(m, P[j]))] /\ q[j].data = given
    BY <2>3
  <2>5. PhysOf[<<b, q[j].addr>>] = ChunkAddr(m, PartAt(m, P[j]))
    BY <2>1, <2>2, <2>4, HashAssumption
  <2>6. WriteExact(b, q[j]) /\ Written(q[j]) = fired
    BY <1>1, <1>6, <2>1, <2>2, <2>4, <2>5, UnitAssumption DEF WriteExact, Written
  <2>7. given \in UNION { [0 .. k - 1 -> 1 .. MaxStores] : k \in 1 .. MaxBytes }
    BY <1>2, <1>6
  <2>8. AddrOf[ChunkAddr(m, PartAt(m, P[j]))] \in Addr
    BY <2>2 DEF Addr
  <2>9. q[j] \in WriteEntry
    <3>1. (PartAt(m, P[j]) \in m.mask) \in BOOLEAN
      OBVIOUS
    <3> QED
      BY <2>3, <2>7, <2>8, <3>1 DEF WriteEntry
  <2> QED
    BY <2>6, <2>9
<1>8. DOMAIN q = 1 .. n /\ q = [j \in 1 .. n |-> q[j]]
  BY <1>5
<1> HIDE DEF q, n
<1>9. q \in Seq(WriteEntry) /\ Len(q) = n
  <2>1. \A j \in 1 .. n : q[j] \in WriteEntry
    BY <1>7
  <2> QED
    BY <1>4, <1>8, <2>1, SequenceIntro
<1> QED
  BY <1>7, <1>9 DEF q, m

\* What a request writes is a store that was fired.
LEMMA WrittenFacts ==
  ASSUME StoreInv, NEW b \in Bank, NEW e \in WriteEntry, WriteExact(b, e)
  PROVE  /\ Written(e) \in Nat /\ Written(e) \in 0 .. MaxStores /\ Written(e) >= 1 /\ Written(e) <= fired
         /\ 0 \in DOMAIN e.data /\ \A p \in DOMAIN e.data : e.data[p] = Written(e)
<1>1. PICK n \in 1 .. MaxBytes : e.data \in [0 .. n - 1 -> 1 .. MaxStores]
  BY DEF WriteEntry
<1>2. 0 \in 0 .. n - 1
  BY UnitAssumption
<1>3. Written(e) \in 1 .. MaxStores
  BY <1>1, <1>2 DEF Written
<1> QED
  BY <1>1, <1>2, <1>3, UnitAssumption DEF WriteExact, Written

\* With the requests of a complete store at its end, a queue still holds the
\* stores in the order they were fired.
LEMMA QueuedInOrder ==
  ASSUME StoreInv, NEW b \in Bank
  PROVE  QueuedWrites[b] \in Seq(WriteEntry) /\ QueueInOrder(b, QueuedWrites[b])
<1>1. writeq[b] \in Seq(WriteEntry) /\ QueueInOrder(b, writeq[b])
  BY DEF StoreInv, StoreTypes
<1>2. CASE ~ EnqueueStore
  BY <1>1, <1>2 DEF QueuedWrites
<1>3. CASE EnqueueStore
  <2> DEFINE s == writeq[b]
             t == WriteRequests(store.meta, b)
  <2>1. /\ t \in Seq(WriteEntry)
        /\ \A j \in 1 .. Len(t) : WriteExact(b, t[j]) /\ Written(t[j]) = fired
    BY <1>3, WriteRequestFacts
  <2>2. QueuedWrites[b] = s \o t
    BY <1>3 DEF QueuedWrites
  <2>3. s \in Seq(WriteEntry) /\ QueueInOrder(b, s)
    BY <1>1
  <2> HIDE DEF s, t
  <2>4. t \in Seq(WriteEntry)
    BY <2>1
  <2> DEFINE q == s \o t
  <2>5. q \in Seq(WriteEntry) /\ Len(q) = Len(s) + Len(t)
    BY <2>3, <2>4, ConcatFacts
  <2>6. \A j \in 1 .. Len(q) :
           \/ j \in 1 .. Len(s) /\ q[j] = s[j]
           \/ \E k \in 1 .. Len(t) : j = Len(s) + k /\ q[j] = t[k]
    BY <2>3, <2>4, ConcatSplit
  <2> HIDE DEF q
  <2>7. ASSUME NEW j \in 1 .. Len(q)
        PROVE  WriteExact(b, q[j]) /\ q[j] \in WriteEntry /\ Written(q[j]) \in Nat /\ Written(q[j]) <= fired
    <3>1. WriteExact(b, q[j])
      BY <2>1, <2>3, <2>6 DEF QueueInOrder
    <3>2. q[j] \in WriteEntry
      BY <2>5, ItemType
    <3> QED
      BY <3>1, <3>2, WrittenFacts
  <2>8. ASSUME NEW j \in 1 .. Len(q), NEW k \in 1 .. Len(q), j < k
        PROVE  Written(q[j]) <= Written(q[k])
    <3>1. CASE k \in 1 .. Len(s) /\ q[k] = s[k]
      <4>1. j \in 1 .. Len(s)
        BY <2>3, <2>5, <2>8, <3>1
      <4>2. q[j] = s[j]
        <5>1. Len(s) \in Nat
          BY <2>3
        <5>2. \A i \in 1 .. Len(t) : j # Len(s) + i
          BY <4>1, <5>1
        <5> QED
          BY <2>6, <5>2
      <4> QED
        BY <2>3, <2>8, <3>1, <4>1, <4>2 DEF QueueInOrder
    <3>2. CASE \E i \in 1 .. Len(t) : q[k] = t[i]
      <4>1. Written(q[k]) = fired
        BY <2>1, <3>2
      <4> QED
        BY <2>7, <4>1
    <3> QED
      BY <2>6, <3>1, <3>2
  <2>9. ASSUME NEW c \in Chunk, BankOf[c] = b, NEW j \in 1 .. Len(q)
        PROVE  mem[c] <= Written(q[j])
    <3>1. CASE j \in 1 .. Len(s) /\ q[j] = s[j]
      BY <2>3, <2>9, <3>1 DEF QueueInOrder
    <3>2. CASE \E i \in 1 .. Len(t) : q[j] = t[i]
      BY <2>1, <3>2 DEF StoreInv
    <3> QED
      BY <2>6, <3>1, <3>2
  <2>10. QueueInOrder(b, q)
    BY <2>7, <2>8, <2>9 DEF QueueInOrder
  <2> QED
    BY <2>2, <2>5, <2>10 DEF q
<1> QED
  BY <1>2, <1>3

\* What a tick writes to memory: each chunk keeps its store or takes a later
\* one, that of the head of its bank's queue.
LEMMA TickWrites ==
  ASSUME StoreInv, NEW ok \in BOOLEAN, NEW reads \in SUBSET Bank, NEW writes \in SUBSET Bank,
         Tick(ok, reads, writes)
  PROVE  /\ mem' \in [Chunk -> 0 .. MaxStores]
         /\ \A b \in writes : QueuedWrites[b] # <<>>
         /\ \A b \in Bank :
              writeq'[b] = IF b \in writes THEN Tail(QueuedWrites[b]) ELSE QueuedWrites[b]
         /\ \A c \in Chunk :
              \/ mem'[c] = mem[c]
              \/ /\ BankOf[c] \in writes
                 /\ mem'[c] = Written(QueuedWrites[BankOf[c]][1])
         /\ \A c \in Chunk : mem'[c] >= mem[c] /\ mem'[c] <= fired
<1> DEFINE queued == QueuedWrites
           taken == [b \in writes |-> Head(queued[b])]
           written == { PhysOf[<<b, taken[b].addr>>] : b \in { w \in writes : taken[w].enable } }
<1>1. /\ \A b \in writes : queued[b] # <<>>
      /\ \A b \in Bank : writeq'[b] = IF b \in writes THEN Tail(queued[b]) ELSE queued[b]
      /\ mem' = [c \in Chunk |-> IF c \in written THEN taken[BankOf[c]].data[0] ELSE mem[c]]
  BY DEF Tick
<1>2. ASSUME NEW b \in writes
      PROVE  /\ b \in Bank /\ taken[b] = queued[b][1] /\ 1 \in 1 .. Len(queued[b])
             /\ taken[b] \in WriteEntry /\ WriteExact(b, taken[b])
  <2> DEFINE q == queued[b]
  <2>1. q \in Seq(WriteEntry) /\ QueueInOrder(b, q) /\ q # <<>>
    BY <1>1, QueuedInOrder
  <2> HIDE DEF q
  <2>2. Head(q) = q[1] /\ Head(q) \in WriteEntry /\ 1 \in 1 .. Len(q)
    BY <2>1, TailFacts
  <2>3. WriteExact(b, q[1])
    BY <2>1, <2>2 DEF QueueInOrder
  <2> QED
    BY <2>2, <2>3 DEF q
<1>3. mem \in [Chunk -> 0 .. MaxStores] /\ \A c \in Chunk : mem[c] <= fired
  BY DEF StoreInv, StoreTypes
<1> HIDE DEF taken
<1>4. ASSUME NEW c \in Chunk, c \in written
      PROVE  /\ BankOf[c] \in writes
             /\ mem'[c] = Written(queued[BankOf[c]][1])
             /\ mem'[c] \in 0 .. MaxStores /\ mem'[c] >= mem[c] /\ mem'[c] <= fired
  <2>1. PICK b \in writes : c = PhysOf[<<b, taken[b].addr>>]
    BY <1>4
  <2>2. BankOf[c] = b
    BY <1>2, <2>1 DEF WriteExact
  <2>3. mem'[c] = Written(queued[b][1])
    BY <1>1, <1>2, <1>4, <2>2 DEF Written
  <2>4. Written(queued[b][1]) \in 0 .. MaxStores /\ Written(queued[b][1]) <= fired
    BY <1>2, WrittenFacts
  <2>5. mem[c] <= Written(queued[b][1])
    BY <1>2, <2>2, QueuedInOrder DEF QueueInOrder
  <2>6. mem[c] \in Int /\ Written(queued[b][1]) \in Int
    BY <1>3, <2>4, UnitAssumption
  <2> QED
    BY <2>2, <2>3, <2>4, <2>5, <2>6
<1>5. ASSUME NEW c \in Chunk, c \notin written
      PROVE  mem'[c] = mem[c] /\ mem'[c] >= mem[c] /\ mem'[c] <= fired
  <2>1. mem'[c] = mem[c]
    BY <1>1, <1>5
  <2>2. mem[c] \in Int
    BY <1>3, UnitAssumption
  <2> QED
    BY <1>3, <2>1, <2>2
<1>6. mem' \in [Chunk -> 0 .. MaxStores]
  <2>1. \A c \in Chunk : mem'[c] \in 0 .. MaxStores
    BY <1>3, <1>4, <1>5
  <2>2. mem' = [c \in Chunk |-> mem'[c]]
    BY <1>1
  <2> QED
    BY <2>1, <2>2
<1> QED
  BY <1>1, <1>4, <1>5, <1>6

LEMMA TickKeepsStores ==
  ASSUME StoreInv, NEW ok \in BOOLEAN, NEW reads \in SUBSET Bank, NEW writes \in SUBSET Bank,
         Tick(ok, reads, writes)
  PROVE  StoreInv'
<1>1. /\ store' = IF EnqueueStore THEN [store EXCEPT !.active = FALSE] ELSE store
      /\ fired' = fired
  BY DEF Tick
<1>2. /\ mem' \in [Chunk -> 0 .. MaxStores]
      /\ \A b \in writes : QueuedWrites[b] # <<>>
      /\ \A b \in Bank :
           writeq'[b] = IF b \in writes THEN Tail(QueuedWrites[b]) ELSE QueuedWrites[b]
      /\ \A c \in Chunk :
           \/ mem'[c] = mem[c]
           \/ BankOf[c] \in writes /\ mem'[c] = Written(QueuedWrites[BankOf[c]][1])
      /\ \A c \in Chunk : mem'[c] <= fired
  BY TickWrites
<1>3. ASSUME NEW b \in Bank
      PROVE  writeq'[b] \in Seq(WriteEntry) /\ QueueInOrder(b, writeq[b])'
  <2> DEFINE q == QueuedWrites[b]
  <2>1. q \in Seq(WriteEntry) /\ QueueInOrder(b, q)
    BY QueuedInOrder
  <2>2. \A c \in Chunk : BankOf[c] = b =>
           mem'[c] = mem[c] \/ (b \in writes /\ mem'[c] = Written(q[1]))
    BY <1>2
  <2>3. CASE b \notin writes
    <3>1. writeq'[b] = q
      BY <1>2, <2>3
    <3>2. \A c \in Chunk : BankOf[c] = b => mem'[c] = mem[c]
      BY <2>2, <2>3
    <3> HIDE DEF q
    <3> QED
      BY <1>1, <2>1, <3>1, <3>2 DEF QueueInOrder, WriteExact, Written
  <2>4. CASE b \in writes
    <3>1. writeq'[b] = Tail(q) /\ q # <<>>
      BY <1>2, <2>4
    <3> HIDE DEF q
    <3>2. /\ Len(q) \in Nat /\ Len(q) >= 1 /\ Tail(q) \in Seq(WriteEntry)
          /\ Len(Tail(q)) = Len(q) - 1
          /\ \A i \in 1 .. Len(q) - 1 : Tail(q)[i] = q[i + 1]
      BY <2>1, <3>1, TailFacts
    <3>3. \A i \in 1 .. Len(writeq'[b]) :
             i + 1 \in 1 .. Len(q) /\ writeq'[b][i] = q[i + 1] /\ 1 \in 1 .. Len(q) /\ 1 < i + 1
      BY <3>1, <3>2
    <3>4. ASSUME NEW i \in 1 .. Len(writeq'[b])
          PROVE  WriteExact(b, writeq[b][i])'
      BY <1>1, <2>1, <3>3 DEF QueueInOrder, WriteExact
    <3>5. ASSUME NEW i \in 1 .. Len(writeq'[b]), NEW j \in 1 .. Len(writeq'[b]), i < j
          PROVE  Written(writeq'[b][i]) <= Written(writeq'[b][j])
      <4>1. i + 1 < j + 1
        BY <3>5
      <4> QED
        BY <2>1, <3>3, <4>1 DEF QueueInOrder
    <3>6. ASSUME NEW c \in Chunk, BankOf[c] = b, NEW j \in 1 .. Len(writeq'[b])
          PROVE  mem'[c] <= Written(writeq'[b][j])
      <4>1. CASE mem'[c] = mem[c]
        BY <2>1, <3>3, <3>6, <4>1 DEF QueueInOrder
      <4>2. CASE mem'[c] = Written(q[1])
        BY <2>1, <3>3, <4>2 DEF QueueInOrder
      <4> QED
        BY <2>2, <3>6, <4>1, <4>2
    <3>7. writeq'[b] \in Seq(WriteEntry)
      BY <3>1, <3>2
    <3> QED
      BY <3>4, <3>5, <3>6, <3>7 DEF QueueInOrder, Written
  <2> QED
    BY <2>3, <2>4
<1>4. store \in [active : BOOLEAN, valid : [Plane -> BOOLEAN],
                data : [Plane -> 0 .. MaxStores], meta : Stores \cup {NoStore.meta}]
  BY DEF StoreInv, StoreTypes
<1>5. store' \in [active : BOOLEAN, valid : [Plane -> BOOLEAN],
                data : [Plane -> 0 .. MaxStores], meta : Stores \cup {NoStore.meta}]
  BY <1>1, <1>4
<1>6. ContextCurrent'
  <2>1. CASE EnqueueStore
    <3>1. ~ store'.active
      BY <1>1, <1>4, <2>1
    <3> QED
      BY <3>1 DEF ContextCurrent
  <2>2. CASE ~ EnqueueStore
    BY <1>1, <2>2 DEF StoreInv, ContextCurrent
  <2> QED
    BY <2>1, <2>2
<1>7. StoreTypes'
  BY <1>1, <1>2, <1>3, <1>5 DEF StoreInv, StoreTypes
<1> QED
  BY <1>1, <1>2, <1>3, <1>6, <1>7 DEF StoreInv

-----------------------------------------------------------------------------
(* The invariant of the unit.                                              *)

\* Between the actions of the unit and its clients, both halves keep their
\* invariants (header of LSU.hpp; lines 114-416).
THEOREM InductiveInvariant == Spec => []IInv
<1>1. Init => IInv
  BY LoadInit, StoreInit DEF IInv
<1>2. IInv /\ [Next]_vars => IInv'
  <2> SUFFICES ASSUME IInv, [Next]_vars
               PROVE  IInv'
    OBVIOUS
  <2>0. LoadInv /\ StoreInv
    BY DEF IInv
  <2>8. ASSUME UNCHANGED <<writeq, store, mem, fired>>
        PROVE  StoreInv'
    <3>1. StoreTypes' /\ ContextCurrent'
      BY <2>0, <2>8 DEF StoreInv, StoreTypes, ContextCurrent
    <3>2. ASSUME NEW b \in Bank
          PROVE  QueueInOrder(b, writeq[b])'
      <4>1. QueueInOrder(b, writeq[b])
        BY <2>0 DEF StoreInv
      <4>2. \A e : WriteExact(b, e) => WriteExact(b, e)'
        BY <2>8 DEF WriteExact
      <4> QED
        BY <2>8, <4>1, <4>2 DEF QueueInOrder, Written
    <3>3. \A c \in Chunk : mem'[c] <= fired'
      BY <2>0, <2>8 DEF StoreInv
    <3> QED
      BY <3>1, <3>2, <3>3 DEF StoreInv
  <2>1. ASSUME NEW m \in Loads, LoadRowFire(m)
        PROVE  IInv'
    <3>1. LoadInv'
      BY <2>0, <2>1, FireKeepsLoads
    <3>2. StoreInv'
      BY <2>1, <2>8 DEF LoadRowFire
    <3> QED
      BY <3>1, <3>2 DEF IInv
  <2>2. ASSUME UNCHANGED <<slots, respMap, readq, bus>>
        PROVE  LoadInv'
    <3>1. LoadTypes' /\ IdsInUse'
      BY <2>0, <2>2 DEF LoadInv, LoadTypes, IdsInUse
    <3>2. RequestsAsk' /\ RequestsApart'
      <4>1. RequestsAsk'
        BY <2>0, <2>2 DEF LoadInv, RequestsAsk, StandsFor
      <4>2. RequestsApart'
        BY <2>0, <2>2 DEF LoadInv, RequestsApart
      <4> QED
        BY <4>1, <4>2
    <3>3. IdsAwaited'
      BY <2>0, <2>2 DEF LoadInv, IdsAwaited, OnItsWay, InQueue
    <3>4. SlotsConsistent'
      <4> SUFFICES ASSUME NEW s \in Slot, slots[s].valid
                   PROVE  SlotConsistent(s)'
        BY <2>2 DEF SlotsConsistent
      <4>1. SlotConsistent(s) /\ Outstanding(s)' = Outstanding(s) /\ Complete(s)' = Complete(s)
        BY <2>0, <2>2 DEF LoadInv, SlotsConsistent, Outstanding, Complete
      <4> QED
        BY <2>2, <4>1 DEF SlotConsistent
    <3> QED
      BY <3>1, <3>2, <3>3, <3>4 DEF LoadInv
  <2>3. ASSUME NEW m \in Stores, StoreRowFire(m)
        PROVE  IInv'
    <3>1. LoadInv'
      BY <2>2, <2>3 DEF StoreRowFire
    <3> QED
      BY <2>0, <2>3, <3>1, StoreFireKeepsStores DEF IInv
  <2>4. ASSUME NEW p \in Plane, StoreMemInput(p)
        PROVE  IInv'
    <3>1. LoadInv'
      BY <2>2, <2>4 DEF StoreMemInput
    <3> QED
      BY <2>0, <2>4, <3>1, InputKeepsStores DEF IInv
  <2>5. ASSUME NEW r \in bus, BusReadResp(r)
        PROVE  IInv'
    <3>1. LoadInv'
      BY <2>0, <2>5, AnswerKeepsLoads
    <3>2. StoreInv'
      BY <2>5, <2>8 DEF BusReadResp
    <3> QED
      BY <3>1, <3>2 DEF IInv
  <2>6. ASSUME NEW ok \in BOOLEAN, NEW reads \in SUBSET Bank, NEW writes \in SUBSET Bank,
               Tick(ok, reads, writes)
        PROVE  IInv'
    BY <2>0, <2>6, TickKeepsLoads, TickKeepsStores DEF IInv
  <2>7. CASE UNCHANGED vars
    <3>1. LoadInv'
      BY <2>2, <2>7 DEF vars
    <3>2. StoreInv'
      BY <2>7, <2>8 DEF vars
    <3> QED
      BY <3>1, <3>2 DEF IInv
  <2> QED
    BY <2>1, <2>3, <2>4, <2>5, <2>6, <2>7 DEF Next
<1> QED
  BY <1>1, <1>2, PTL DEF Spec

-----------------------------------------------------------------------------
(* What the invariant says of the loads and of the queues.                 *)

\* An id has one request on its way when it is in use and none when not.
LEMMA OneRequest ==
  ASSUME LoadInv, NEW i \in Id
  PROVE  Cardinality(InQueues(i)) + Cardinality(InBus(i)) = IF respMap[i].valid THEN 1 ELSE 0
<1>0. \A b \in Bank : DOMAIN readq[b] = 1 .. Len(readq[b])
  BY DEF LoadInv, LoadTypes
<1>1. InQueues(i) = { q \in UNION { {b} \X (1 .. Len(readq[b])) : b \in Bank } :
                       readq[q[1]][q[2]].id = i }
  BY <1>0 DEF InQueues
<1>2. \A q \in InQueues(i) : /\ q[1] \in Bank /\ q[2] \in 1 .. Len(readq[q[1]])
                            /\ q = <<q[1], q[2]>> /\ readq[q[1]][q[2]].id = i
  BY <1>1
<1>3. \A b \in Bank : \A j \in 1 .. Len(readq[b]) : readq[b][j].id = i => <<b, j>> \in InQueues(i)
  BY <1>1
<1>4. \A p, q \in InQueues(i) : p = q
  <2> SUFFICES ASSUME NEW p \in InQueues(i), NEW q \in InQueues(i)
               PROVE  p = q
    OBVIOUS
  <2>1. p[1] = q[1] /\ p[2] = q[2]
    BY <1>2 DEF LoadInv, RequestsApart
  <2> QED
    BY <1>2, <2>1
<1>5. \A r, q \in InBus(i) : r = q
  BY DEF InBus, LoadInv, RequestsApart
<1>6. InQueues(i) # {} => InBus(i) = {}
  BY <1>2 DEF InBus, LoadInv, RequestsApart
<1>7. ASSUME NEW S, \A x, y \in S : x = y
      PROVE  S = {} \/ \E x : S = {x}
  BY <1>7
<1>8. ASSUME NEW x
      PROVE  Cardinality({x}) = 1
  BY FS_Singleton
<1>9. CASE respMap[i].valid
  <2>1. OnItsWay(i)
    BY <1>9 DEF LoadInv, IdsAwaited
  <2>2. CASE InQueues(i) # {}
    <3>1. PICK x : InQueues(i) = {x}
      BY <1>4, <1>7, <2>2
    <3>2. Cardinality(InQueues(i)) = 1
      BY <1>8, <3>1
    <3>3. Cardinality(InBus(i)) = 0
      BY <1>6, <2>2, FS_EmptySet
    <3> QED
      BY <1>9, <3>2, <3>3
  <2>3. CASE InQueues(i) = {}
    <3>1. InBus(i) # {}
      BY <1>3, <2>1, <2>3 DEF OnItsWay, InQueue, InBus
    <3>2. PICK x : InBus(i) = {x}
      BY <1>5, <1>7, <3>1
    <3>3. Cardinality(InBus(i)) = 1
      BY <1>8, <3>2
    <3>4. Cardinality(InQueues(i)) = 0
      BY <2>3, FS_EmptySet
    <3> QED
      BY <1>9, <3>3, <3>4
  <2> QED
    BY <2>2, <2>3
<1>10. CASE ~ respMap[i].valid
  <2>1. InQueues(i) = {}
    <3>1. \A b \in Bank : \A j \in 1 .. Len(readq[b]) : respMap[readq[b][j].id].valid
      BY DEF LoadInv, RequestsAsk, StandsFor
    <3>2. \A b \in Bank : \A j \in 1 .. Len(readq[b]) : readq[b][j].id # i
      BY <1>10, <3>1
    <3> QED
      BY <1>2, <3>2
  <2>2. InBus(i) = {}
    BY <1>10 DEF InBus, LoadInv, RequestsAsk, StandsFor
  <2> QED
    BY <1>10, <2>1, <2>2, FS_EmptySet
<1> QED
  BY <1>9, <1>10

LEMMA AccountedLemma == IInv => LoadsAccounted
<1> SUFFICES ASSUME IInv
             PROVE  LoadsAccounted
  OBVIOUS
<1>0. LoadInv /\ StoreInv
  BY DEF IInv
<1>1. TypeOK
  <2>1. \A i \in Id : respMap[i] = NoResp \/ respMap[i] \in [valid : {TRUE}, slot : Slot, part : Part]
    BY <1>0 DEF LoadInv, LoadTypes
  <2>2. /\ slots \in [Slot -> SlotState]
        /\ \A b \in Bank : readq[b] \in Seq(ReadEntry(b))
    BY <1>0 DEF LoadInv, LoadTypes
  <2>3. store.active \in BOOLEAN /\ store.meta \in Stores \cup {NoStore.meta}
        /\ fired \in 0 .. MaxStores
    BY <1>0 DEF StoreInv, StoreTypes
  <2> QED
    BY <2>1, <2>2, <2>3 DEF TypeOK
<1>2. \A i \in Id : \A b, addr : StandsFor(i, b, addr) => Asks(i, b, addr)
  BY <1>0 DEF StandsFor, Asks, LoadInv, IdsInUse
<1>3. RequestsExact
  <2> SUFFICES ASSUME NEW i \in Id
               PROVE  /\ \A q \in InQueues(i) : Asks(i, q[1], readq[q[1]][q[2]].addr)
                      /\ \A r \in InBus(i) : Asks(i, r.bank, r.addr)
    BY <1>0, OneRequest DEF RequestsExact
  <2>1. ASSUME NEW q \in InQueues(i)
        PROVE  Asks(i, q[1], readq[q[1]][q[2]].addr)
    <3>1. q[1] \in Bank /\ q[2] \in DOMAIN readq[q[1]] /\ readq[q[1]][q[2]].id = i
      BY DEF InQueues
    <3>2. q[2] \in 1 .. Len(readq[q[1]])
      BY <1>0, <3>1 DEF LoadInv, LoadTypes
    <3>3. StandsFor(i, q[1], readq[q[1]][q[2]].addr)
      BY <1>0, <3>1, <3>2 DEF LoadInv, RequestsAsk
    <3> QED
      BY <1>2, <3>3
  <2>2. ASSUME NEW r \in InBus(i)
        PROVE  Asks(i, r.bank, r.addr)
    BY <1>0, <1>2 DEF InBus, LoadInv, RequestsAsk
  <2> QED
    BY <2>1, <2>2
<1>4. SlotsExact
  <2> SUFFICES ASSUME NEW s \in Slot, slots[s].valid
               PROVE  /\ slots[s].recv + Cardinality(Outstanding(s)) = Total(slots[s].meta)
                      /\ \A part \in Parts(slots[s].meta) :
                           \/ \E i \in Outstanding(s) : respMap[i].part = part
                           \/ slots[s].data[part] = TileOf(slots[s].meta)[part]
    BY DEF SlotsExact
  <2>1. SlotConsistent(s)
    BY <1>0 DEF LoadInv, SlotsConsistent
  <2>2. \A part \in Parts(slots[s].meta) : part \in Part
    BY <2>1, PartFacts DEF SlotConsistent, Parts
  <2> QED
    BY <2>1, <2>2 DEF SlotConsistent
<1> QED
  BY <1>1, <1>3, <1>4 DEF LoadsAccounted

\* The bookkeeping of loads is consistent for any interleaving of fires,
\* ticks and answers in any order (lines 114-135, 298-314, 391-410).
THEOREM LoadsAreAccounted == Spec => []LoadsAccounted
  BY InductiveInvariant, AccountedLemma, PTL

\* The ids in a queue are distinct, so there are at most as many as ids.
LEMMA QueueFitsLemma == IInv => ReadQueueFits
<1> SUFFICES ASSUME IInv, NEW b \in Bank
             PROVE  Len(readq[b]) <= LSU_BANK_QUEUE_DEPTH
  BY DEF ReadQueueFits
<1> DEFINE q == readq[b]
           D == 1 .. Len(q)
           f == [j \in D |-> q[j].id]
<1>1. q \in Seq(ReadEntry(b)) /\ RequestsApart
  BY DEF IInv, LoadInv, LoadTypes
<1>2. ASSUME NEW j \in D
      PROVE  q[j].id \in Id
  <2>1. q[j] \in ReadEntry(b)
    BY <1>1, ItemType
  <2> QED
    BY <2>1 DEF ReadEntry
<1>3. \A j, k \in D : q[j].id = q[k].id => j = k
  BY <1>1 DEF RequestsApart
<1>4. f \in Injection(D, Id)
  BY <1>2, <1>3 DEF Injection, IsInjective
<1>5. Len(q) \in Nat
  BY <1>1
<1>6. IsFiniteSet(Id) /\ Cardinality(Id) = LSU_MAX_LOAD_OUTSTANDING
  BY UnitAssumption, FS_Interval DEF Id
<1>7. IsFiniteSet(D) /\ Cardinality(D) = Len(q)
  BY <1>5, FS_Interval
<1>8. Cardinality(D) <= Cardinality(Id)
  BY <1>4, <1>6, FS_Injection DEF ExistsInjection
<1> QED
  BY <1>5, <1>6, <1>7, <1>8, UnitAssumption

\* Loads never overflow a bank queue: the assertion of line 214 cannot fail.
THEOREM ReadQueuesFit == Spec => []ReadQueueFits
  BY InductiveInvariant, QueueFitsLemma, PTL

LEMMA DataWholeLemma == IInv => StoreDataWhole
<1> SUFFICES ASSUME IInv, NEW b \in Bank, NEW j \in DOMAIN writeq[b],
                    NEW p \in DOMAIN writeq[b][j].data
             PROVE  /\ writeq[b][j].data[p] = writeq[b][j].data[0]
                    /\ writeq[b][j].data[p] \in 1 .. fired
  BY DEF StoreDataWhole
<1>1. StoreInv /\ writeq[b] \in Seq(WriteEntry) /\ QueueInOrder(b, writeq[b])
  BY DEF IInv, StoreInv, StoreTypes
<1>2. j \in 1 .. Len(writeq[b])
  BY <1>1
<1>3. writeq[b][j] \in WriteEntry /\ WriteExact(b, writeq[b][j])
  BY <1>1, <1>2, ItemType DEF QueueInOrder
<1>4. fired \in Nat
  BY <1>1, UnitAssumption DEF StoreInv, StoreTypes
<1> QED
  BY <1>1, <1>3, <1>4, WrittenFacts DEF Written

\* A request carries the data of one store in all planes (lines 203-211,
\* 372-382).
THEOREM StoreDataIsWhole == Spec => []StoreDataWhole
  BY InductiveInvariant, DataWholeLemma, PTL

\* Stores to a chunk reach memory in the order they were fired (lines
\* 203-254, 323-334).
THEOREM StoresReachMemoryInOrder == Spec => StoresInOrder
<1>1. IInv /\ [Next]_vars => [\A c \in Chunk : mem'[c] >= mem[c]]_vars
  <2> SUFFICES ASSUME IInv, Next, NEW c \in Chunk
               PROVE  mem'[c] >= mem[c]
    OBVIOUS
  <2>1. mem[c] \in Nat /\ StoreInv
    BY UnitAssumption DEF IInv, StoreInv, StoreTypes
  <2>2. CASE mem' = mem
    BY <2>1, <2>2
  <2>3. ASSUME NEW ok \in BOOLEAN, NEW reads \in SUBSET Bank, NEW writes \in SUBSET Bank,
               Tick(ok, reads, writes)
        PROVE  mem'[c] >= mem[c]
    BY <2>1, <2>3, TickWrites
  <2> QED
    BY <2>2, <2>3 DEF Next, LoadRowFire, StoreRowFire, StoreMemInput, BusReadResp
<1> QED
  BY <1>1, InductiveInvariant, PTL DEF Spec, StoresInOrder

-----------------------------------------------------------------------------
(* The unit implements the plane port.                                     *)

\* A slot as the port sees it.
PortSlot(s) ==
  IF slots[s].valid THEN [busy |-> TRUE, request |-> slots[s].meta, sent |-> slots[s].byte]
                    ELSE [busy |-> FALSE]
PortSlots == [s \in Slot |-> PortSlot(s)]

\* Firing a load is the port's Fire.
LEMMA FireImplements ==
  ASSUME LoadInv, NEW m \in Loads, LoadRowFire(m)
  PROVE  Port!Next
<1> PICK s0 : s0 = FreeSlot
  OBVIOUS
<1>1. /\ s0 \in Slot /\ ~ slots[s0].valid
      /\ slots'[s0].valid /\ slots'[s0].byte = 0 /\ slots'[s0].meta = m
      /\ \A s \in Slot : s # s0 => slots'[s] = slots[s]
  BY FreeFacts, FireFacts DEF LoadRowFire
<1>2. PortSlots[s0] = Port!NoRequest
  BY <1>1 DEF PortSlots, PortSlot, Port!NoRequest
<1>3. PortSlots' = [PortSlots EXCEPT ![s0] = Port!Pending(m, 0)]
  <2>1. PortSlots' = [s \in Slot |-> PortSlot(s)']
    BY DEF PortSlots
  <2>2. PortSlot(s0)' = Port!Pending(m, 0)
    BY <1>1 DEF PortSlot, Port!Pending
  <2>3. \A s \in Slot : s # s0 => PortSlot(s)' = PortSlot(s)
    BY <1>1 DEF PortSlot
  <2> QED
    BY <1>1, <2>1, <2>2, <2>3 DEF PortSlots
<1>4. wb' = wb
  BY DEF LoadRowFire
<1>5. Port!Fire(s0, m)
  BY <1>2, <1>3, <1>4 DEF Port!Fire, PortSlots, PortSlot
<1> QED
  BY <1>1, <1>5 DEF Port!Next

\* A tick delivers the next plane of a request, or nothing.
LEMMA TickImplements ==
  ASSUME LoadInv, NEW ok \in BOOLEAN, NEW reads \in SUBSET Bank, NEW writes \in SUBSET Bank,
         Tick(ok, reads, writes)
  PROVE  Port!Next
<1>1. TickWriteback(ok) /\ (ok => WritebackSlots # {})
  BY DEF Tick
<1>2. \A s \in Slot : slots[s].valid => slots[s].byte < slots[s].meta.bytes
  BY DEF LoadInv, SlotsConsistent, SlotConsistent
<1>3. ASSUME ~ ok
      PROVE  Port!Quiet
  <2>1. wb' = <<>> /\ \A s \in Slot : PortSlot(s)' = PortSlot(s)
    <3>1. CASE slots' = slots
      <4>1. wb' = <<>>
        BY <1>1, <1>3, WritebackFacts
      <4>2. \A s \in Slot : PortSlot(s)' = PortSlot(s)
        BY <3>1 DEF PortSlot
      <4> QED
        BY <4>1, <4>2
    <3>2. CASE \E s \in Slot :
                 /\ slots[s].valid
                 /\ \A t \in Slot : t # s => slots'[t] = slots[t]
                 /\ slots'[s].valid /\ slots'[s].meta = slots[s].meta /\ slots'[s].byte = slots[s].byte
      <4>1. wb' = <<>>
        BY <1>1, <1>3, WritebackFacts
      <4>2. PICK s \in Slot :
              /\ slots[s].valid
              /\ \A t \in Slot : t # s => slots'[t] = slots[t]
              /\ slots'[s].valid /\ slots'[s].meta = slots[s].meta
              /\ slots'[s].byte = slots[s].byte
        BY <3>2
      <4>3. PortSlot(s)' = PortSlot(s)
        BY <4>2 DEF PortSlot
      <4>4. \A t \in Slot : t # s => PortSlot(t)' = PortSlot(t)
        BY <4>2 DEF PortSlot
      <4> QED
        BY <4>1, <4>3, <4>4
    <3>3. \/ slots' = slots
          \/ \E s \in Slot :
                /\ slots[s].valid
                /\ \A t \in Slot : t # s => slots'[t] = slots[t]
                /\ slots'[s].valid /\ slots'[s].meta = slots[s].meta /\ slots'[s].byte = slots[s].byte
      BY <1>1, <1>3, WritebackFacts
    <3> QED
      BY <3>1, <3>2, <3>3
  <2>2. PortSlots' = PortSlots
    BY <2>1 DEF PortSlots
  <2> QED
    BY <2>1, <2>2 DEF Port!Quiet, PortSlots, PortSlot
<1>4. ASSUME ok
      PROVE  \E s \in Slot : Port!Deliver(s)
  <2>1. PICK s \in Slot :
                 /\ slots[s].valid /\ slots[s].data = TileOf(slots[s].meta)
                 /\ \A t \in Slot : t # s => slots'[t] = slots[t]
                 /\ wb' = <<Writeback(s)>>
                 /\ \/ Writeback(s).last /\ ~ slots'[s].valid
                    \/ /\ slots'[s].valid /\ slots'[s].meta = slots[s].meta
                       /\ ~ Writeback(s).last /\ slots'[s].byte = slots[s].byte + 1
    BY <1>1, <1>4, WritebackFacts
  <2> DEFINE m == slots[s].meta
             n == slots[s].byte
  <2>2. m.bytes \in Int /\ n \in Int /\ n < m.bytes
    <3>1. m.bytes \in 1 .. MaxBytes /\ slots[s] \in SlotState /\ MaxBytes \in Nat
      BY <2>1, MetaFacts, UnitAssumption DEF LoadInv, LoadTypes, SlotsConsistent, SlotConsistent
    <3>2. n \in 0 .. MaxBytes - 1
      BY <3>1 DEF SlotState
    <3> QED
      BY <1>2, <2>1, <3>1, <3>2
  <2>3. PortSlots[s] = Port!Pending(m, n) /\ PortSlots[s] # Port!NoRequest
        /\ PortSlots[s].request = m /\ PortSlots[s].sent = n
    BY <2>1 DEF PortSlots, PortSlot, Port!Pending, Port!NoRequest
  <2>4. Writeback(s) = Port!Plane(m, n) /\ (Writeback(s).last <=> n + 1 = m.bytes)
    <3>1. (n + 1 >= m.bytes) = (n + 1 = m.bytes)
      BY <2>2
    <3>2. Writeback(s) = [rd |-> m.rd, byte |-> n, last |-> n + 1 >= m.bytes, data |-> TileOf(m)]
      BY <2>1 DEF Writeback
    <3>3. Port!Plane(m, n) = [rd |-> m.rd, byte |-> n, last |-> n + 1 = m.bytes, data |-> TileOf(m)]
      BY DEF Port!Plane, TilePlane
    <3>4. Writeback(s).last <=> n + 1 >= m.bytes
      <4>1. ASSUME Writeback(s).last
            PROVE  n + 1 >= m.bytes
        BY <4>1 DEF Writeback
      <4>2. ASSUME ~ Writeback(s).last
            PROVE  ~ (n + 1 >= m.bytes)
        BY <4>2 DEF Writeback
      <4> QED
        BY <4>1, <4>2
    <3> QED
      BY <3>1, <3>2, <3>3, <3>4
  <2>5. PortSlots' = [PortSlots EXCEPT ![s] =
              IF n + 1 = m.bytes THEN Port!NoRequest ELSE Port!Pending(m, n + 1)]
    <3>1. PortSlots' = [t \in Slot |-> PortSlot(t)']
      BY DEF PortSlots
    <3>2. PortSlot(s)' = IF n + 1 = m.bytes THEN Port!NoRequest ELSE Port!Pending(m, n + 1)
      <4>1. CASE n + 1 = m.bytes
        BY <2>1, <2>4, <4>1 DEF PortSlot, Port!NoRequest
      <4>2. CASE n + 1 # m.bytes
        BY <2>1, <2>4, <4>2 DEF PortSlot, Port!Pending
      <4> QED
        BY <4>1, <4>2
    <3>3. \A t \in Slot : t # s => PortSlot(t)' = PortSlot(t)
      BY <2>1 DEF PortSlot
    <3> QED
      BY <3>1, <3>2, <3>3 DEF PortSlots
  <2>6. Port!Deliver(s)
    BY <2>1, <2>3, <2>4, <2>5 DEF Port!Deliver, PortSlots, PortSlot
  <2> QED
    BY <2>6
<1> QED
  BY <1>3, <1>4 DEF Port!Next

\* What was loaded comes back as the plane port promises, whatever the order
\* of the answers and of the writebacks of other slots (lines 298-321).
THEOREM UnitImplementsPlanePort == Spec => ImplementsPlanePort
<1>1. Init => Port!Init
  <2> SUFFICES ASSUME Init
               PROVE  Port!Init
    OBVIOUS
  <2>1. \A s \in Slot : PortSlot(s) = Port!NoRequest
    BY DEF Init, PortSlot, ZeroSlot, Port!NoRequest
  <2>2. PortSlots = [s \in Slot |-> Port!NoRequest]
    BY <2>1 DEF PortSlots
  <2> QED
    BY <2>2 DEF Init, Port!Init, PortSlots, PortSlot
<1>2. IInv /\ [Next]_vars => [Port!Next]_<<PortSlots, wb>>
  <2> SUFFICES ASSUME IInv, [Next]_vars
               PROVE  Port!Next \/ UNCHANGED <<PortSlots, wb>>
    OBVIOUS
  <2>0. LoadInv
    BY DEF IInv
  <2>1. ASSUME NEW m \in Loads, LoadRowFire(m)
        PROVE  Port!Next
    BY <2>0, <2>1, FireImplements
  <2>2. ASSUME slots' = slots, wb' = wb
        PROVE  UNCHANGED <<PortSlots, wb>>
    BY <2>2 DEF PortSlots, PortSlot
  <2>3. ASSUME NEW r \in bus, BusReadResp(r)
        PROVE  UNCHANGED <<PortSlots, wb>>
    <3>1. PICK s \in Slot, part \in Part :
           /\ slots[s].valid
           /\ \A t \in Slot : t # s => slots'[t] = slots[t]
           /\ slots'[s].valid /\ slots'[s].byte = slots[s].byte /\ slots'[s].meta = slots[s].meta
      BY <2>0, <2>3, AnswerFacts
    <3>2. \A t \in Slot : PortSlot(t)' = PortSlot(t)
      BY <3>1 DEF PortSlot
    <3>3. wb' = wb
      BY <2>3 DEF BusReadResp
    <3> QED
      BY <3>2, <3>3 DEF PortSlots
  <2>4. ASSUME NEW ok \in BOOLEAN, NEW reads \in SUBSET Bank, NEW writes \in SUBSET Bank,
               Tick(ok, reads, writes)
        PROVE  Port!Next
    BY <2>0, <2>4, TickImplements
  <2> QED
    BY <2>1, <2>2, <2>3, <2>4 DEF Next, StoreRowFire, StoreMemInput, vars
<1>3. PortSlots = [s \in Slot |->
    IF slots[s].valid THEN [busy |-> TRUE, request |-> slots[s].meta, sent |-> slots[s].byte]
                      ELSE [busy |-> FALSE]]
  BY DEF PortSlots, PortSlot
<1> QED
  BY <1>1, <1>2, <1>3, InductiveInvariant, PTL
     DEF Spec, ImplementsPlanePort, Port!Spec, PortSlots, PortSlot

-----------------------------------------------------------------------------
(* The bank hash.                                                          *)

\* The powers of two that bits and sizes are made with.
LEMMA Powers == 2 ^ 0 = 1 /\ 2 ^ 1 = 2 /\ 2 ^ 2 = 4 /\ 2 ^ 3 = 8
  OBVIOUS

\* A bus has two, four or eight banks.
LEMMA BankSizes == BankCount \in {2, 4, 8} /\ BankCount ^ 0 = 1 /\ BankCount ^ 1 = BankCount
                   /\ BankCount ^ 2 = BankCount * BankCount
<1>1. CASE BankBits = 1
  <2>1. BankCount = 2
    BY <1>1 DEF BankCount
  <2>2. 2 ^ 0 = 1 /\ 2 ^ 1 = 2 /\ 2 ^ 2 = 4
    OBVIOUS
  <2> QED
    BY <2>1, <2>2
<1>2. CASE BankBits = 2
  <2>1. BankCount = 4
    BY <1>2 DEF BankCount
  <2>2. 4 ^ 0 = 1 /\ 4 ^ 1 = 4 /\ 4 ^ 2 = 16
    OBVIOUS
  <2> QED
    BY <2>1, <2>2
<1>3. CASE BankBits = 3
  <2>1. BankCount = 8
    BY <1>3 DEF BankCount
  <2>2. 8 ^ 0 = 1 /\ 8 ^ 1 = 8 /\ 8 ^ 2 = 64
    OBVIOUS
  <2> QED
    BY <2>1, <2>2
<1> QED
  BY <1>1, <1>2, <1>3, BankBitsAssumption

\* A number of three bits is the sum of its bits.
LEMMA BitsOf ==
  ASSUME NEW x \in 0 .. 7
  PROVE  /\ Bit(x, 0) \in {0, 1} /\ Bit(x, 1) \in {0, 1} /\ Bit(x, 2) \in {0, 1}
         /\ x = Bit(x, 0) + 2 * Bit(x, 1) + 4 * Bit(x, 2)
  BY Powers DEF Bit

\* Any three bits are those of a number.
LEMMA BitsUnique ==
  ASSUME NEW a \in {0, 1}, NEW b \in {0, 1}, NEW c \in {0, 1}
  PROVE  LET x == a + 2 * b + 4 * c
         IN  x \in 0 .. 7 /\ Bit(x, 0) = a /\ Bit(x, 1) = b /\ Bit(x, 2) = c
  BY Powers DEF Bit

\* Exclusive or adds bit by bit, without carries.
LEMMA XorBits ==
  ASSUME NEW x \in 0 .. 7, NEW y \in 0 .. 7
  PROVE  /\ Xor(x, y) \in 0 .. 7
         /\ \A i \in 0 .. 2 : Bit(Xor(x, y), i) = (Bit(x, i) + Bit(y, i)) % 2
  BY BitsOf, BitsUnique DEF Xor

\* A number of three bits is known by them.
LEMMA SameBits ==
  ASSUME NEW x \in 0 .. 7, NEW y \in 0 .. 7, \A i \in 0 .. 2 : Bit(x, i) = Bit(y, i)
  PROVE  x = y
<1>1. Bit(x, 0) = Bit(y, 0) /\ Bit(x, 1) = Bit(y, 1) /\ Bit(x, 2) = Bit(y, 2)
  OBVIOUS
<1> QED
  BY <1>1, BitsOf

\* The exclusive or of two banks is a bank.
LEMMA XorInBanks ==
  ASSUME NEW x \in BankIndex, NEW y \in BankIndex
  PROVE  x \in 0 .. 7 /\ y \in 0 .. 7 /\ Xor(x, y) \in BankIndex
<1>1. BankCount \in {2, 4, 8} /\ x \in 0 .. BankCount - 1 /\ y \in 0 .. BankCount - 1
  BY BankSizes DEF BankIndex
<1>2. x \in 0 .. 7 /\ y \in 0 .. 7 /\ Xor(x, y) \in 0 .. 7
  BY <1>1, XorBits
<1>3. CASE BankCount = 8
  BY <1>2, <1>3 DEF BankIndex
<1>4. ASSUME NEW z \in 0 .. 7
      PROVE  z <= 3 <=> Bit(z, 2) = 0
  BY Powers DEF Bit
<1>5. ASSUME NEW z \in 0 .. 7
      PROVE  z <= 1 <=> Bit(z, 2) = 0 /\ Bit(z, 1) = 0
  BY Powers DEF Bit
<1>6. ASSUME NEW i \in {1, 2}, Bit(x, i) = 0, Bit(y, i) = 0
      PROVE  Bit(Xor(x, y), i) = 0
  BY <1>2, <1>6, XorBits
<1>7. CASE BankCount = 4
  <2>1. Xor(x, y) <= 3
    BY <1>1, <1>2, <1>4, <1>6, <1>7
  <2> QED
    BY <1>2, <1>7, <2>1 DEF BankIndex
<1>8. CASE BankCount = 2
  <2>1. Xor(x, y) <= 1
    BY <1>1, <1>2, <1>5, <1>6, <1>8
  <2> QED
    BY <1>2, <1>8, <2>1 DEF BankIndex
<1> QED
  BY <1>1, <1>2, <1>3, <1>7, <1>8

\* The address in the bank drops the lowest group and keeps the others.
LEMMA GroupFacts ==
  ASSUME NEW n \in Nat
  PROVE  /\ \A k \in 0 .. 2 : Group(n, k) \in BankIndex
         /\ n = PhysToBankAddr(n) * BankCount + Group(n, 0)
         /\ PhysToBankAddr(n) \in Nat
         /\ Group(PhysToBankAddr(n), 0) = Group(n, 1)
         /\ Group(PhysToBankAddr(n), 1) = Group(n, 2)
<1> DEFINE B == BankCount
           p == n \div B
           q == p \div B
           r == q \div B
           a == n % B
           b == p % B
           c == q % B
<1>1. B \in {2, 4, 8} /\ B ^ 0 = 1 /\ B ^ 1 = B /\ B ^ 2 = B * B
  BY BankSizes
<1> HIDE DEF B
<1>2. /\ p \in Nat /\ q \in Nat /\ r \in Nat
      /\ a \in 0 .. B - 1 /\ b \in 0 .. B - 1 /\ c \in 0 .. B - 1
      /\ n = p * B + a /\ p = q * B + b /\ q = r * B + c
  BY <1>1
<1>3. n \div (B * B) = q
  BY <1>1, <1>2
<1>4. n \div 1 = n /\ p \div 1 = p
  BY <1>2
<1>5. Group(n, 0) = a /\ Group(n, 1) = b /\ Group(n, 2) = c
  BY <1>1, <1>3, <1>4 DEF Group, B
<1>6. PhysToBankAddr(n) = p
  BY DEF PhysToBankAddr, B
<1>7. Group(p, 0) = b /\ Group(p, 1) = c
  BY <1>1, <1>4 DEF Group, B
<1>8. BankIndex = 0 .. B - 1
  BY DEF BankIndex, B
<1>9. \A k \in 0 .. 2 : Group(n, k) \in BankIndex
  BY <1>2, <1>5, <1>8
<1> QED
  BY <1>2, <1>5, <1>6, <1>7, <1>9 DEF B




\* The i-th bit of the sum of three numbers without carries.
SumBit(u, v, w, i) == (Bit(u, i) + Bit(v, i) + Bit(w, i)) % 2

\* Bit by bit, the exclusive or of three numbers is their sum.
LEMMA XorOfThree ==
  ASSUME NEW u \in 0 .. 7, NEW v \in 0 .. 7, NEW w \in 0 .. 7
  PROVE  /\ Xor(Xor(u, v), w) \in 0 .. 7
         /\ \A i \in 0 .. 2 : Bit(Xor(Xor(u, v), w), i) = SumBit(u, v, w, i)
<1>1. Xor(u, v) \in 0 .. 7 /\ Xor(Xor(u, v), w) \in 0 .. 7
  BY XorBits
<1>2. ASSUME NEW i \in 0 .. 2
      PROVE  Bit(Xor(Xor(u, v), w), i) = SumBit(u, v, w, i)
  <2>1. /\ Bit(Xor(u, v), i) = (Bit(u, i) + Bit(v, i)) % 2
        /\ Bit(Xor(Xor(u, v), w), i) = (Bit(Xor(u, v), i) + Bit(w, i)) % 2
    BY <1>1, XorBits
  <2>2. Bit(u, i) \in {0, 1} /\ Bit(v, i) \in {0, 1} /\ Bit(w, i) \in {0, 1}
    BY BitsOf
  <2> QED
    BY <2>1, <2>2 DEF SumBit
<1> QED
  BY <1>1, <1>2

\* Exclusive or forgets the order of its operands, and twice the same is nothing.
LEMMA XorMoves ==
  ASSUME NEW x \in BankIndex, NEW y \in BankIndex, NEW z \in BankIndex
  PROVE  /\ Xor(Xor(x, y), z) \in BankIndex
         /\ Xor(Xor(Xor(Xor(x, y), z), y), z) = x
         /\ Xor(Xor(x, y), z) = Xor(Xor(y, x), z)
         /\ Xor(Xor(x, y), z) = Xor(Xor(y, z), x)
<1>1. x \in 0 .. 7 /\ y \in 0 .. 7 /\ z \in 0 .. 7
  BY XorInBanks
<1>2. Xor(Xor(Xor(Xor(x, y), z), y), z) = x
  <2> DEFINE t == Xor(Xor(x, y), z)
  <2>1. t \in 0 .. 7 /\ Xor(Xor(t, y), z) \in 0 .. 7
    BY <1>1, XorOfThree
  <2>2. ASSUME NEW i \in 0 .. 2
        PROVE  Bit(Xor(Xor(t, y), z), i) = Bit(x, i)
    <3>1. Bit(t, i) = SumBit(x, y, z, i)
      BY <1>1, XorOfThree
    <3>2. Bit(Xor(Xor(t, y), z), i) = SumBit(t, y, z, i)
      BY <1>1, <2>1, XorOfThree
    <3>3. Bit(x, i) \in {0, 1} /\ Bit(y, i) \in {0, 1} /\ Bit(z, i) \in {0, 1}
      BY <1>1, BitsOf
    <3> QED
      BY <3>1, <3>2, <3>3 DEF SumBit
  <2> QED
    BY <1>1, <2>1, <2>2, SameBits
<1>3. ASSUME NEW u \in 0 .. 7, NEW v \in 0 .. 7, NEW w \in 0 .. 7
      PROVE  /\ Xor(Xor(u, v), w) = Xor(Xor(v, u), w)
             /\ Xor(Xor(u, v), w) = Xor(Xor(v, w), u)
  <2>1. ASSUME NEW i \in 0 .. 2
        PROVE  /\ Bit(Xor(Xor(u, v), w), i) = Bit(Xor(Xor(v, u), w), i)
               /\ Bit(Xor(Xor(u, v), w), i) = Bit(Xor(Xor(v, w), u), i)
    <3>1. Bit(u, i) \in {0, 1} /\ Bit(v, i) \in {0, 1} /\ Bit(w, i) \in {0, 1}
      BY BitsOf
    <3>2. SumBit(u, v, w, i) = SumBit(v, u, w, i) /\ SumBit(u, v, w, i) = SumBit(v, w, u, i)
      BY <3>1 DEF SumBit
    <3>3. /\ Bit(Xor(Xor(u, v), w), i) = SumBit(u, v, w, i)
          /\ Bit(Xor(Xor(v, u), w), i) = SumBit(v, u, w, i)
          /\ Bit(Xor(Xor(v, w), u), i) = SumBit(v, w, u, i)
      BY XorOfThree
    <3> QED
      BY <3>2, <3>3
  <2>2. /\ Xor(Xor(u, v), w) \in 0 .. 7 /\ Xor(Xor(v, u), w) \in 0 .. 7
        /\ Xor(Xor(v, w), u) \in 0 .. 7
    BY XorOfThree
  <2> QED
    BY <2>1, <2>2, SameBits
<1>4. Xor(x, y) \in BankIndex /\ Xor(Xor(x, y), z) \in BankIndex
  BY XorInBanks
<1> QED
  BY <1>1, <1>2, <1>3, <1>4

\* The groups of a number that is made of them.
LEMMA GroupsOfSum ==
  ASSUME NEW h \in Nat, NEW a \in BankIndex, NEW b \in BankIndex, NEW c \in BankIndex
  PROVE  LET n == ((h * BankCount + c) * BankCount + b) * BankCount + a
         IN  /\ n \in Nat /\ Group(n, 0) = a /\ Group(n, 1) = b /\ Group(n, 2) = c
             /\ PhysToBankAddr(n) = (h * BankCount + c) * BankCount + b
<1> DEFINE B == BankCount
           q == h * B + c
           p == q * B + b
           n == p * B + a
<1>1. B \in {2, 4, 8}
  BY BankSizes
<1> HIDE DEF B
<1>2. a \in 0 .. B - 1 /\ b \in 0 .. B - 1 /\ c \in 0 .. B - 1
  BY DEF BankIndex, B
<1>3. q \in Nat /\ p \in Nat /\ n \in Nat
  BY <1>1, <1>2
<1>4. q % B = c
  BY <1>1, <1>2, <1>3, DivUnique
<1> HIDE DEF q
<1>5. p \div B = q /\ p % B = b
  BY <1>1, <1>2, <1>3, DivUnique DEF p
<1> HIDE DEF p
<1>6. n \div B = p /\ n % B = a
  BY <1>1, <1>2, <1>3, DivUnique DEF n
<1> HIDE DEF n
<1>7. PhysToBankAddr(n) = p
  BY <1>6 DEF PhysToBankAddr, B
<1>8. Group(n, 1) = Group(p, 0) /\ Group(n, 2) = Group(p, 1) /\ Group(p, 1) = Group(q, 0)
  BY <1>3, <1>5, <1>7, GroupFacts DEF PhysToBankAddr, B
<1>9. \A m \in Nat : Group(m, 0) = m % B
  BY BankSizes DEF Group, B
<1> QED
  BY <1>3, <1>4, <1>5, <1>6, <1>7, <1>8, <1>9 DEF B, n, p, q

\* Every number is made of its groups.
LEMMA SumOfGroups ==
  ASSUME NEW n \in Nat
  PROVE  \E h \in Nat :
           n = ((h * BankCount + Group(n, 2)) * BankCount + Group(n, 1)) * BankCount + Group(n, 0)
<1> DEFINE p == PhysToBankAddr(n)
           q == PhysToBankAddr(p)
           h == PhysToBankAddr(q)
<1>1. p \in Nat /\ q \in Nat /\ h \in Nat
  BY GroupFacts
<1>2. n = p * BankCount + Group(n, 0)
  BY GroupFacts
<1>3. p = q * BankCount + Group(p, 0) /\ Group(p, 0) = Group(n, 1)
  BY <1>1, GroupFacts
<1>4. q = h * BankCount + Group(q, 0) /\ Group(q, 0) = Group(p, 1) /\ Group(p, 1) = Group(n, 2)
  BY <1>1, GroupFacts
<1> QED
  BY <1>1, <1>2, <1>3, <1>4

\* For two, four or eight banks and any chunk of any memory, the bank hash
\* (lines 67 to 89 of src/src/header/lsu.hpp) has an inverse in both directions,
\* and spreads rows: what HashAssumption asks of the hash of the unit.
THEOREM HashIsBijective ==
  \A chunk \in Nat : PhysToBank(chunk) \in BankIndex /\ HashLaws(chunk)
<1> SUFFICES ASSUME NEW chunk \in Nat
             PROVE  PhysToBank(chunk) \in BankIndex /\ HashLaws(chunk)
  OBVIOUS
<1> DEFINE B == BankCount
           a == Group(chunk, 0)
           b == Group(chunk, 1)
           c == Group(chunk, 2)
<1>1. a \in BankIndex /\ b \in BankIndex /\ c \in BankIndex
  BY GroupFacts
<1>2. B \in {2, 4, 8} /\ B ^ 0 = 1 /\ B ^ 1 = B /\ B ^ 2 = B * B /\ BankIndex = 0 .. B - 1
  BY BankSizes DEF BankIndex
<1>3. PICK h \in Nat : chunk = ((h * B + c) * B + b) * B + a
  BY SumOfGroups
<1>4. PhysToBank(chunk) = Xor(Xor(a, b), c)
  BY DEF PhysToBank
<1>5. PhysToBank(chunk) \in BankIndex
  BY <1>1, <1>4, XorMoves
<1>6. RoundTrip(chunk)
  BY <1>1, <1>4, XorMoves, GroupFacts DEF RoundTrip, BankToPhys
<1>7. ASSUME NEW bank \in BankIndex
      PROVE  PlaceUsed(bank, chunk)
  <2> DEFINE low == Xor(Xor(bank, a), b)
             n   == BankToPhys(bank, chunk)
  <2>1. low \in BankIndex /\ Xor(Xor(low, a), b) = bank
    BY <1>1, XorMoves
  <2>2. PICK g \in Nat : h = g * B + Group(h, 0) /\ Group(h, 0) \in BankIndex
    BY GroupFacts
  <2>3. n = chunk * B + low
    BY DEF BankToPhys
  <2>4. h * B + c \in Nat
    BY <1>1, <1>2
  <2>5. n = (((h * B + c) * B + b) * B + a) * B + low
    BY <1>3, <2>3
  <2> HIDE DEF n, low
  <2>6. Group(n, 0) = low /\ Group(n, 1) = a /\ Group(n, 2) = b /\ PhysToBankAddr(n) = chunk
    BY <1>1, <1>3, <2>1, <2>4, <2>5, GroupsOfSum
  <2> QED
    BY <2>1, <2>6 DEF PlaceUsed, PhysToBank, n
<1>8. RowsSpread(chunk)
  <2>1. ASSUME NEW k \in 0 .. 2, Group(chunk, k) = 0, NEW row \in BankIndex
        PROVE  LET n == chunk + row * B ^ k
               IN  PhysToBank(n) = IF k = 0 THEN Xor(Xor(row, b), c)
                                   ELSE IF k = 1 THEN Xor(Xor(row, a), c) ELSE Xor(Xor(row, a), b)
    <3> DEFINE n == chunk + row * B ^ k
    <3>1. row \in Nat /\ a \in Nat /\ b \in Nat /\ c \in Nat
      BY <1>1, <1>2
    <3>2. CASE k = 0
      <4>1. B ^ k = 1 /\ a = 0
        BY <1>2, <2>1, <3>2
      <4>2. n = chunk + row
        BY <3>1, <4>1
      <4>3. n = ((h * B + c) * B + b) * B + row
        <5> HIDE DEF a, b, c, n, B
        <5>1. chunk = ((h * B + c) * B + b) * B + 0
          BY <1>3, <4>1
        <5>2. CASE B = 2
          BY <3>1, <4>2, <5>1, <5>2
        <5>3. CASE B = 4
          BY <3>1, <4>2, <5>1, <5>3
        <5>4. CASE B = 8
          BY <3>1, <4>2, <5>1, <5>4
        <5> QED
          BY <1>2, <5>2, <5>3, <5>4
      <4> HIDE DEF n
      <4>4. Group(n, 0) = row /\ Group(n, 1) = b /\ Group(n, 2) = c
        BY <1>1, <4>3, GroupsOfSum
      <4> QED
        BY <3>2, <4>4 DEF PhysToBank, n
    <3>3. CASE k = 1
      <4>1. B ^ k = B /\ b = 0
        BY <1>2, <2>1, <3>3
      <4>2. n = chunk + row * B
        BY <3>1, <4>1
      <4>3. n = ((h * B + c) * B + row) * B + a
        <5> HIDE DEF a, b, c, n, B
        <5>1. chunk = ((h * B + c) * B + 0) * B + a
          BY <1>3, <4>1
        <5>2. CASE B = 2
          BY <3>1, <4>2, <5>1, <5>2
        <5>3. CASE B = 4
          BY <3>1, <4>2, <5>1, <5>3
        <5>4. CASE B = 8
          BY <3>1, <4>2, <5>1, <5>4
        <5> QED
          BY <1>2, <5>2, <5>3, <5>4
      <4> HIDE DEF n
      <4>4. Group(n, 0) = a /\ Group(n, 1) = row /\ Group(n, 2) = c
        BY <1>1, <4>3, GroupsOfSum
      <4> QED
        BY <1>1, <3>3, <4>4, XorMoves DEF PhysToBank, n
    <3>4. CASE k = 2
      <4>1. B ^ k = B * B /\ c = 0
        BY <1>2, <2>1, <3>4
      <4>2. n = chunk + row * (B * B)
        BY <3>1, <4>1
      <4>3. n = ((h * B + row) * B + b) * B + a
        <5> HIDE DEF a, b, c, n, B
        <5>1. chunk = ((h * B + 0) * B + b) * B + a
          BY <1>3, <4>1
        <5>2. CASE B = 2
          BY <3>1, <4>2, <5>1, <5>2
        <5>3. CASE B = 4
          BY <3>1, <4>2, <5>1, <5>3
        <5>4. CASE B = 8
          BY <3>1, <4>2, <5>1, <5>4
        <5> QED
          BY <1>2, <5>2, <5>3, <5>4
      <4> HIDE DEF n
      <4>4. Group(n, 0) = a /\ Group(n, 1) = b /\ Group(n, 2) = row
        BY <1>1, <4>3, GroupsOfSum
      <4> QED
        BY <1>1, <3>4, <4>4, XorMoves DEF PhysToBank, n
    <3> QED
      BY <3>2, <3>3, <3>4
  <2>2. ASSUME NEW y \in BankIndex, NEW z \in BankIndex
        PROVE  { Xor(Xor(row, y), z) : row \in BankIndex } = BankIndex
    <3>1. \A row \in BankIndex : Xor(Xor(row, y), z) \in BankIndex
      BY XorMoves
    <3>2. \A v \in BankIndex : \E row \in BankIndex : Xor(Xor(row, y), z) = v
      BY XorMoves
    <3> QED
      BY <3>1, <3>2
  <2>3. ASSUME NEW k \in 0 .. 2, Group(chunk, k) = 0
        PROVE  { PhysToBank(chunk + row * B ^ k) : row \in BankIndex } = BankIndex
    <3> DEFINE y == IF k = 0 THEN b ELSE a
               z == IF k = 2 THEN b ELSE c
    <3>1. y \in BankIndex /\ z \in BankIndex
      BY <1>1
    <3>2. \A row \in BankIndex : PhysToBank(chunk + row * B ^ k) = Xor(Xor(row, y), z)
      BY <2>1, <2>3
    <3>3. { PhysToBank(chunk + row * B ^ k) : row \in BankIndex } =
            { Xor(Xor(row, y), z) : row \in BankIndex }
      BY <3>2
    <3>4. { Xor(Xor(row, y), z) : row \in BankIndex } = BankIndex
      <4> HIDE DEF y, z
      <4> QED
        BY <2>2, <3>1
    <3> QED
      BY <3>3, <3>4
  <2> QED
    BY <2>3 DEF RowsSpread
<1> QED
  BY <1>5, <1>6, <1>7, <1>8 DEF HashLaws
=============================================================================
