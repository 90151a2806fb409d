--------------------------------- MODULE LSU ---------------------------------
(***************************************************************************)
(* The row load/store unit, src/src/lsu/LSU.hpp, closed with its clients:  *)
(* the dispatcher that fires loads and stores and gives store data, the    *)
(* memory bus behind the bank queues, and the receiver of writebacks.      *)
(*                                                                         *)
(* The state is software (HELPER): a service changes it at once, and Tick  *)
(* is TICK_IMPL.  Memory is counted in chunks of TILE_SIZE bytes, what one *)
(* bus request moves.  A tile is a function from parts (row, chunk of the  *)
(* row) to data; in a part the bytes of all planes are together, as on the *)
(* bus.  The mask enables or disables whole parts.                         *)
(***************************************************************************)
EXTENDS Integers, Sequences, FiniteSets, Functions, Ranks

CONSTANTS
  TILE_SIZE,             \* rows of a tile (32 in header/config.hpp)
  MaxBytes,              \* bytes of the widest element (4)
  LSU_LOAD_SLOTS,        \* 4
  LSU_MAX_LOAD_OUTSTANDING,  \* response ids (512)
  LSU_BANK_QUEUE_DEPTH,  \* entries of a bank queue (640)
  Bank,                  \* banks of the bus
  ChunkCount,            \* chunks of memory
  BankOf, AddrOf,        \* the hash: bank and address in the bank of a chunk
  PhysOf,                \* its inverse, which the bus uses
  Loads, Stores,         \* what the client may ask for
  MaxStores              \* bound: stores the client fires

Slot == 0 .. LSU_LOAD_SLOTS - 1
Id == 0 .. LSU_MAX_LOAD_OUTSTANDING - 1
Chunk == 0 .. ChunkCount - 1
Part == (0 .. TILE_SIZE - 1) \X (0 .. MaxBytes - 1)

\* lsu_total_chunks
Total(m) == TILE_SIZE * m.bytes

\* The parts of an access in the order of the nested loops over rows and
\* chunks: the k-th, counted from 1.
PartAt(m, k) == <<(k - 1) \div m.bytes, (k - 1) % m.bytes>>
Parts(m) == { PartAt(m, k) : k \in 1 .. Total(m) }

\* lsu_chunk_addr for an aligned base and stride (lsu_aligned_meta): base in
\* rows of the access, stride in tiles.
ChunkAddr(m, part) == (m.base + part[1] * m.stride) * m.bytes + part[2]

Meta == [base : Nat, stride : Nat, bytes : 1 .. MaxBytes, mask : SUBSET Part]
LoadMeta == [base : Nat, stride : Nat, bytes : 1 .. MaxBytes, mask : SUBSET Part, rd : Nat]

InMemory(m) == \A part \in Parts(m) : ChunkAddr(m, part) \in Chunk

ASSUME UnitAssumption ==
  /\ TILE_SIZE \in Nat \ {0} /\ MaxBytes \in Nat \ {0}
  /\ LSU_LOAD_SLOTS \in Nat /\ ChunkCount \in Nat /\ MaxStores \in Nat
  /\ LSU_MAX_LOAD_OUTSTANDING \in Nat /\ LSU_BANK_QUEUE_DEPTH \in Nat
  \* header/config.hpp: 512 ids, 640 entries.
  /\ LSU_MAX_LOAD_OUTSTANDING <= LSU_BANK_QUEUE_DEPTH
ASSUME HashAssumption ==
  /\ BankOf \in [Chunk -> Bank]
  /\ \A c \in Chunk : PhysOf[<<BankOf[c], AddrOf[c]>>] = c
ASSUME MetaAssumption ==
  /\ Loads \subseteq LoadMeta /\ Stores \subseteq Meta
  /\ \A m \in Loads \cup Stores : InMemory(m)

VARIABLES
  slots,       \* lsu_load_slots
  respMap,     \* lsu_resp_map: what each response id stands for
  readq,       \* lsu_readq_*: per bank, from head to tail
  writeq,      \* lsu_writeq_*
  store,       \* lsu_store_*: the one store context
  wb,          \* what loadRowWriteback took in the last cycle
  bus,         \* read requests the bus has accepted and not answered
  mem,         \* number of the store that wrote each chunk last
  fired        \* stores fired so far

vars == <<slots, respMap, readq, writeq, store, wb, bus, mem, fired>>

-----------------------------------------------------------------------------
(* Load slots and response ids.                                            *)

Zero == <<>>
NoMeta == [base |-> 0, stride |-> 1, bytes |-> 1, mask |-> {}, rd |-> 0]

\* lsu_zero_load_slot
ZeroSlot == [valid |-> FALSE, active |-> FALSE, recv |-> 0, byte |-> 0,
             meta |-> NoMeta, data |-> [part \in Part |-> Zero]]

NoResp == [valid |-> FALSE]
Resp(s, part) == [valid |-> TRUE, slot |-> s, part |-> part]

FreeSlots == { s \in Slot : ~ slots[s].valid }
FreeIds   == { i \in Id : ~ respMap[i].valid }

\* lsu_load_ready: a free slot, and ids for the largest row access.
LoadReady == FreeSlots # {} /\ Cardinality(FreeIds) >= TILE_SIZE * MaxBytes

\* lsu_find_free_slot
FreeSlot == CHOOSE s \in FreeSlots : \A t \in FreeSlots : s <= t

\* Mutant: every request is pushed to every bank (line 265).
ForBankAny(m, b) == 1 .. Total(m)

\* The requests of an access that go to bank b, as positions in loop order.
ForBank(m, b) == { k \in 1 .. Total(m) : BankOf[ChunkAddr(m, PartAt(m, k))] = b }

\* They are pushed to the queue in that order.
Positions ==
  [m \in Loads \cup Stores |-> [b \in Bank |->
     [j \in 1 .. Cardinality(ForBank(m, b)) |-> AtRank(ForBank(m, b), j)]]]

\* Mutant: the search for free ids starts again for each bank (line 257).
ReadRequestsSameIds(m, b) ==
  [j \in DOMAIN Positions[m][b] |->
     [id |-> AtRank(FreeIds, j), addr |-> AddrOf[ChunkAddr(m, PartAt(m, Positions[m][b][j]))]]]

\* lsu_enqueue_load_requests takes the lowest free ids one after the other.
ReadRequests(m, b) ==
  [j \in DOMAIN Positions[m][b] |->
     LET k == Positions[m][b][j]
     IN  [id |-> AtRank(FreeIds, k), addr |-> AddrOf[ChunkAddr(m, PartAt(m, k))]]]

LoadRowFire(m) ==
  /\ LoadReady
  /\ slots' = [slots EXCEPT ![FreeSlot] = [ZeroSlot EXCEPT !.valid = TRUE, !.meta = m]]
  /\ respMap' = [i \in Id |->
       IF i \in FreeIds /\ Rank(FreeIds, i) <= Total(m)
       THEN Resp(FreeSlot, PartAt(m, Rank(FreeIds, i)))
       ELSE respMap[i]]
  /\ readq' = [b \in Bank |-> readq[b] \o ReadRequests(m, b)]
  /\ UNCHANGED <<writeq, store, wb, bus, mem, fired>>

(***************************************************************************)
(* The bus answers an accepted request, in any order, with the chunk that  *)
(* the bank holds at the address.  The guards of the code for an unknown   *)
(* id and for a slot already freed ignore the answer.                      *)
(***************************************************************************)
BusReadResp(r) ==
  /\ r \in bus
  /\ bus' = bus \ {r}
  /\ LET map == respMap[r.id]
         s == map.slot
         part == map.part
     IN  IF ~ map.valid
         THEN UNCHANGED <<slots, respMap>>
         ELSE /\ respMap' = [respMap EXCEPT ![r.id] = NoResp]
              /\ IF ~ slots[s].valid
                 THEN UNCHANGED slots
                 ELSE slots' = [slots EXCEPT
                   ![s].data[part] =
                     IF part \in slots[s].meta.mask THEN <<PhysOf[<<r.bank, r.addr>>]>> ELSE Zero,
                   ![s].recv = @ + 1]
  /\ UNCHANGED <<readq, writeq, store, wb, mem, fired>>

-----------------------------------------------------------------------------
(* The store context.  The client's data for a plane of the n-th store is  *)
(* n; 0 stands for the zeros of lsu_clear_tile.                            *)

Plane == 0 .. MaxBytes - 1

NoStore == [active |-> FALSE, valid |-> [p \in Plane |-> FALSE],
            data |-> [p \in Plane |-> 0], meta |-> [base |-> 0, stride |-> 1, bytes |-> 1, mask |-> {}]]

StoreReady == ~ store.active

StoreRowFire(m) ==
  /\ StoreReady
  /\ fired < MaxStores
  /\ fired' = fired + 1
  /\ store' = [NoStore EXCEPT !.active = TRUE, !.meta = m]
  /\ UNCHANGED <<slots, respMap, readq, writeq, wb, bus, mem>>

\* An input is dropped when no store is active or the plane is not part of
\* it.
StoreMemInput(p) ==
  /\ store.active
  /\ p < store.meta.bytes
  /\ store' = [store EXCEPT !.data[p] = fired, !.valid[p] = TRUE]
  /\ UNCHANGED <<slots, respMap, readq, writeq, wb, bus, mem, fired>>

\* Mutant: the first plane is enough (line 205).
InputDoneFirst == store.valid[0]

\* Mutant: planes the element does not have are waited for (line 204).
InputDoneAll == \A p \in Plane : store.valid[p]

\* lsu_store_input_done
InputDone == \A p \in 0 .. store.meta.bytes - 1 : store.valid[p]

\* lsu_enqueue_store_requests.  A request carries all planes of its part.
WriteRequests(m, b) ==
  [j \in DOMAIN Positions[m][b] |->
     LET part == PartAt(m, Positions[m][b][j])
     IN  [addr |-> AddrOf[ChunkAddr(m, part)],
          data |-> [p \in 0 .. m.bytes - 1 |-> store.data[p]],
          enable |-> part \in m.mask]]

-----------------------------------------------------------------------------
(* The tick: a store whose data is complete goes to the bank queues, one   *)
(* plane is offered to loadRowWriteback, and every bank offers the head of *)
(* both queues to the bus.  The clients choose what they take: ok says     *)
(* whether the writeback is, reads and writes name the banks whose offer   *)
(* is.                                                                     *)

EnqueueStore == store.active /\ InputDone

\* Mutant: new requests go in front of the queue (line 236).
QueuedWritesFront ==
  [b \in Bank |-> IF EnqueueStore THEN WriteRequests(store.meta, b) \o writeq[b]
                                  ELSE writeq[b]]

QueuedWrites ==
  [b \in Bank |-> IF EnqueueStore THEN writeq[b] \o WriteRequests(store.meta, b)
                                  ELSE writeq[b]]

\* Mutant: one chunk short (line 307).
CompleteEarly(s) == slots[s].recv + 1 >= Total(slots[s].meta)

Complete(s) == slots[s].recv >= Total(slots[s].meta)

\* lsu_find_writeback_slot: the lowest one, even when a higher slot is in
\* the middle of its planes.
WritebackSlots == { s \in Slot : slots[s].valid /\ (slots[s].active \/ Complete(s)) }
\* Mutant: the search goes from the highest slot down (line 299).
WritebackSlotHighest == CHOOSE s \in WritebackSlots : \A t \in WritebackSlots : s >= t

WritebackSlot  == CHOOSE s \in WritebackSlots : \A t \in WritebackSlots : s <= t

Writeback(s) ==
  [rd |-> slots[s].meta.rd, byte |-> slots[s].byte,
   last |-> slots[s].byte + 1 >= slots[s].meta.bytes, data |-> slots[s].data]

TickWriteback(ok) ==
  IF WritebackSlots = {}
  THEN wb' = <<>> /\ UNCHANGED slots
  ELSE LET s == WritebackSlot
           offer == Writeback(s)
       IN  /\ wb' = IF ok THEN <<offer>> ELSE <<>>
           /\ slots' = [slots EXCEPT ![s] =
                IF ~ ok THEN [slots[s] EXCEPT !.active = TRUE]
                ELSE IF offer.last THEN ZeroSlot
                ELSE [slots[s] EXCEPT !.active = TRUE, !.byte = slots[s].byte + 1]]

Tick(ok, reads, writes) ==
  LET queued  == QueuedWrites
      taken   == [b \in writes |-> Head(queued[b])]
      written == { PhysOf[<<b, taken[b].addr>>] : b \in { w \in writes : taken[w].enable } }
  IN  /\ reads \subseteq { b \in Bank : readq[b] # <<>> }
      /\ writes \subseteq { b \in Bank : queued[b] # <<>> }
      /\ ok => WritebackSlots # {}
      /\ TickWriteback(ok)
      /\ store' = IF EnqueueStore THEN [store EXCEPT !.active = FALSE] ELSE store
      /\ readq' = [b \in Bank |-> IF b \in reads THEN Tail(readq[b]) ELSE readq[b]]
      /\ bus' = bus \cup
           { [id |-> Head(readq[b]).id, bank |-> b, addr |-> Head(readq[b]).addr] : b \in reads }
      /\ writeq' = [b \in Bank |-> IF b \in writes THEN Tail(queued[b]) ELSE queued[b]]
      /\ mem' = [c \in Chunk |-> IF c \in written THEN taken[BankOf[c]].data[0] ELSE mem[c]]
      /\ UNCHANGED <<respMap, fired>>

-----------------------------------------------------------------------------
\* The state after lsu_reset_sw, which the first tick calls.
Init ==
  /\ slots = [s \in Slot |-> ZeroSlot]
  /\ respMap = [i \in Id |-> NoResp]
  /\ readq = [b \in Bank |-> <<>>]
  /\ writeq = [b \in Bank |-> <<>>]
  /\ store = NoStore
  /\ wb = <<>>
  /\ bus = {}
  /\ mem = [c \in Chunk |-> 0]
  /\ fired = 0

Next ==
  \/ \E m \in Loads : LoadRowFire(m)
  \/ \E m \in Stores : StoreRowFire(m)
  \/ \E p \in Plane : StoreMemInput(p)
  \/ \E r \in bus : BusReadResp(r)
  \/ \E ok \in BOOLEAN, reads, writes \in SUBSET Bank : Tick(ok, reads, writes)

Spec == Init /\ [][Next]_vars

(***************************************************************************)
(* Fairness: the clock never stops while there is something to do, for the *)
(* unit then offers it to a client: the bus takes from every bank that     *)
(* keeps offering and answers every request; the receiver takes writebacks *)
(* again and again; the client gives the data of its stores.               *)
(***************************************************************************)
Takes(ok, b, c) ==
  /\ ok => WritebackSlots # {}
  /\ \A q \in b : readq[q] # <<>>
  /\ \A q \in c : EnqueueStore \/ writeq[q] # <<>>
  /\ \E reads, writes \in SUBSET Bank :
       b \subseteq reads /\ c \subseteq writes /\ Tick(ok, reads, writes)

Fairness ==
  /\ WF_vars(Takes(TRUE, {}, {}))
  /\ \A b \in Bank : /\ WF_vars(\E ok \in BOOLEAN : Takes(ok, {b}, {}))
                     /\ WF_vars(\E ok \in BOOLEAN : Takes(ok, {}, {b}))
  /\ \A i \in Id : WF_vars(\E r \in bus : r.id = i /\ BusReadResp(r))
  /\ \A p \in Plane : WF_vars(StoreMemInput(p))

-----------------------------------------------------------------------------
ReadEntry(b)  == [id : Id, addr : { AddrOf[c] : c \in Chunk }]
SlotState ==
  [valid : BOOLEAN, active : BOOLEAN, recv : 0 .. TILE_SIZE * MaxBytes,
   byte : 0 .. MaxBytes - 1, meta : Loads \cup {NoMeta},
   data : [Part -> { <<c>> : c \in Chunk } \cup {Zero}]]

\* Every variable holds a value of its type; in particular wb_byte indexes
\* the four planes of a slot and recv_count never exceeds a whole tile.
TypeOK ==
  /\ slots \in [Slot -> SlotState]
  /\ \A i \in Id : respMap[i] = NoResp \/ respMap[i] \in
       [valid : {TRUE}, slot : Slot, part : Part]
  /\ \A b \in Bank : readq[b] \in Seq(ReadEntry(b))
  /\ store.active \in BOOLEAN /\ store.meta \in Stores \cup {NoStore.meta}
  /\ fired \in 0 .. MaxStores

\* Every response id in use stands for exactly one request on its way, in
\* one bank queue or in the bus, and an id that is free for none; the
\* request asks for the chunk its id stands for.  An id is never allocated
\* again (lines 124-135, 406) while an answer for it may still come.
InQueues(i) == { q \in UNION { {b} \X DOMAIN readq[b] : b \in Bank } :
                   readq[q[1]][q[2]].id = i }
InBus(i) == { r \in bus : r.id = i }

Asks(i, b, addr) ==
  /\ slots[respMap[i].slot].valid
  /\ PhysOf[<<b, addr>>] = ChunkAddr(slots[respMap[i].slot].meta, respMap[i].part)

RequestsExact ==
  \A i \in Id :
    /\ Cardinality(InQueues(i)) + Cardinality(InBus(i)) = IF respMap[i].valid THEN 1 ELSE 0
    /\ \A q \in InQueues(i) : Asks(i, q[1], readq[q[1]][q[2]].addr)
    /\ \A r \in InBus(i) : Asks(i, r.bank, r.addr)

\* What a slot has received and what is on its way make up the load, part by
\* part: nothing is asked for twice, and recv_count (line 405) reaches the
\* total of line 308 only when the whole tile is there.
Outstanding(s) == { i \in Id : respMap[i].valid /\ respMap[i].slot = s }

TileOf(m) ==
  [part \in Part |-> IF part \in Parts(m) \cap m.mask THEN <<ChunkAddr(m, part)>> ELSE Zero]

SlotsExact ==
  \A s \in Slot : slots[s].valid =>
    /\ slots[s].recv + Cardinality(Outstanding(s)) = Total(slots[s].meta)
    /\ \A part \in Parts(slots[s].meta) :
         \/ \E i \in Outstanding(s) : respMap[i].part = part
         \/ slots[s].data[part] = TileOf(slots[s].meta)[part]

\* The bookkeeping of loads is consistent: variables keep their types, ids
\* stand for one request each, slots for whole loads.
LoadsAccounted == TypeOK /\ RequestsExact /\ SlotsExact

\* The assertion of lsu_readq_push (line 214): loads never overflow a queue.
ReadQueueFits == \A b \in Bank : Len(readq[b]) <= LSU_BANK_QUEUE_DEPTH

\* The assertion of lsu_writeq_push (line 234).
WriteQueueFits == \A b \in Bank : Len(writeq[b]) <= LSU_BANK_QUEUE_DEPTH

\* A request never carries a plane the client did not give for this store
\* (lines 203-211, 372-382), however inputs, the next store and the tick
\* interleave.
StoreDataWhole ==
  \A b \in Bank : \A j \in DOMAIN writeq[b] :
    LET data == writeq[b][j].data
    IN  \A p \in DOMAIN data : data[p] = data[0] /\ data[p] \in 1 .. fired

\* Stores to the same chunk reach memory in the order they were fired: they
\* hash to one bank, and its queue is first in first out.
StoresInOrder == [][\A c \in Chunk : mem'[c] >= mem[c]]_vars

\* A store that was fired reaches memory, every part its mask enables, or
\* is overwritten by a later one.
StoreLands ==
  \A n \in 1 .. MaxStores, m \in Stores :
    (fired = n /\ store.active /\ store.meta = m) ~>
      (\A part \in Parts(m) \cap m.mask : mem[ChunkAddr(m, part)] >= n)

\* A load in the lowest slot is always finished, whatever the client fires
\* meanwhile.
LowestSlotFinishes == slots[0].valid ~> ~ slots[0].valid

\* A load in any slot is finished once the client stops firing loads: until
\* then lower slots may keep taking the writeback port (lines 298-314).
QuietLoadsFinish ==
  (<>[][\A m \in Loads : ~ LoadRowFire(m)]_vars) =>
    \A s \in Slot : slots[s].valid ~> ~ slots[s].valid

\* Both promises about the end of a load (lines 298-314).
LoadsFinish == LowestSlotFinishes /\ QuietLoadsFinish

\* The chunks of a tile come with the plane of which they are a byte each.
TilePlane(m, n) == TileOf(m)

Port == INSTANCE PlanePort WITH
  Requests <- Loads, Expected <- TilePlane,
  pending <- [s \in Slot |->
    IF slots[s].valid THEN [busy |-> TRUE, request |-> slots[s].meta, sent |-> slots[s].byte]
                      ELSE [busy |-> FALSE]]

\* What was loaded comes back as PlanePort promises: the chunks the load
\* addressed, zeros where the mask is off.
ImplementsPlanePort == Port!Spec
=============================================================================
