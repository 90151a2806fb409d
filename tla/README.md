# A verification of oootpu-sim in TLA+

`oootpu-sim` is a cycle-level simulator, in C++, of the parts of an
out-of-order tensor processor: a register rename stage, a load/store unit, a
matrix unit, an element-wise unit, a unit for tile moves, and the library of
clocked registers, queues, memories and integers they are written with, with
its examples, an out-of-order backend and a cache among them. This directory
models those parts in TLA+, checks the models with TLC on small instances, and
proves the central properties for every instance with TLAPS. Source paths are
relative to the repository root; line numbers are those of the commit.

## 1. The system

Everything is clocked. In a cycle the surrounding code calls *services* of the
units; then every unit's `TICK_IMPL` runs, which may call *requests* (services
of somebody else); then every `REGISTER` takes its next value. State declared
with `REGISTER` changes only at that commit, and a write port of a register may
be used once per cycle (an assertion of `tools/vullib/storage.hpp`). State
declared with `HELPER` is ordinary C++ data and changes at once. In the models
a service is an action, a tick together with the commit is an action, and the
order of services within a cycle is free. What was written to a register in the
cycle and is not visible yet is a variable of its own.

| Part | State | Operations | Who it talks to |
|---|---|---|---|
| Rename, `src/core/Rename.hpp` | map from virtual to physical tile registers, free list, reference counters, one output register, one held instruction, two retire buffers | `s2GetResult`, `retireRead`, `retireWrite`, tick | fetches from the instruction source, gives renamed instructions to the back end, which retires their references |
| LSU, `src/lsu/LSU.hpp` | 4 load slots, 512 response ids, a read and a write queue per bank, one store context | `s0LoadRowFire`, `s0StoreRowFire`, `storeMemInput`, `busReadResp`, tick | dispatcher, memory bus of 8 banks, register file (writeback) |
| Bank hash, `src/header/lsu.hpp` | none | address to bank and back | LSU and the bus |
| GEMMUnit, `src/gemm/GEMMUnit.hpp` | a feeding register, 4 lanes of five stages, accumulators, the ACCGET state machine | `s0FireGemmInst`, `s1s2MemInput`, `s0FireAccget`, `sNAccInput`, two ticks | ALU (ACCGET path), back end |
| ALU, `src/alu/ALU.hpp` | one instruction in flight, temporaries, an ACCGET driver, a shared retire port | `s0AluInstFire`, `sNAluMemInput`, `s0AccgetStart`, `accTempInput`, `accgetRetirePTemp`, tick | GEMMUnit, register file, back end |
| ALUGEMMTop, `src/alu/ALUGEMMTop.hpp` | none | forwards services to its children | ALU and GEMMUnit |
| TMISC, `src/tmisc/TMISC.hpp` | one instruction in flight, source and result tile | `s0MiscFire`, `miscMemInput`, tick | register file |
| Registers, `tools/vullib/storage.hpp` | single registers, and arrays in two implementations chosen by size | `setnext`, `reset`, `apply_next_tick` | all units |
| Queues, `tools/vullib/queue.hpp` | a ring, a window on its front, the requests of the cycle | `enqnext`, `deqnext`, `clrnext`, `apply_next_tick` | all units |
| Block RAM, `tools/vullib/ram.hpp` | words, the requests of the cycle, the words of the last cycle's reads | `readreq`, `write`, `readdata`, `apply_next_tick` | units that need memories, the cache |
| Fixed-width integers, `tools/vullib/fixint.hpp` | none | arithmetic, slices, shifts, comparisons, conversions | all units |
| Out-of-order backend, `tools/example/ooo_backend/` | ingress ports and ring, register map, tags, reorder buffer, issue queue; lanes with slots and queues | `push_inst`, tick, and the lanes' `issue`, `pop_result` and `mem_req` | the driver and the memory of its tests |
| Cache, `tools/example/cachetest/` | two block RAMs and a stage register | `read_s0`, `refill_s0`, tick | its test |

What is hard about it: the clients' services and the ticks interleave in any
order; bus answers come in any order; retirement is delayed by two cycles and
races the tick for the same register; several tables must agree (map, flags,
counters, free list; slots, ids, queues); everything is of fixed size and is
mostly protected by assertions only. What makes the parts correct:

- Rename: a renamed program computes what the sequential program computes; no
  physical register is lost, freed early or given to two owners; a stalled
  instruction is renamed in the end.
- LSU: a load returns exactly the addressed tile, once; a store reaches memory,
  whole and in order; queues never overflow; no slot waits for ever.
- Bank hash: invertible, and balanced for strided rows.
- GEMMUnit, ALU, their composition, TMISC: every accepted instruction is
  executed once, on its own operands, and retired once.
- Queues: first in, first out, within the declared capacity.
- Register arrays: what was written in a cycle is there after the tick, in
  either implementation, whatever the order of the calls.
- Block RAM and cache: a read gives the word as it was before the writes of its
  cycle, and meets the address it was asked for.
- Integers: the operators are those of the numbers, whatever the widths.
- Numbers of the matrix unit and the ALU: a result is the exact one, rounded
  once, within the limits of its type.
- Out-of-order backend: what is committed is what the program computes in
  order; no tag or entry is lost or used twice; every program halts.

`PROJECT.json` lists the hazards of the code line by line, with the properties
that would catch each of them going wrong.

## 2. Modules

| Module | What it is |
|---|---|
| `Rename` | the rename stage with its instruction source and back end |
| `Dataflow` | abstract: a program that is fetched, issued and delivered in order and whose registers are variables |
| `RenameFlow` | `Rename` with the fetched program and instruction identities as history variables; implements `Dataflow` |
| `Ranks` | numbering the members of a finite set, used where the code walks an array and skips entries |
| `LSU` | the load/store unit with its clients and the bus |
| `PlanePort` | abstract: what a unit promises that gives tiles back plane by plane; `LSU` and `Tmisc` implement it |
| `BankHash` | the hash as pure operators, and its laws |
| `Gemm` | the multiplication path of the matrix unit with its client |
| `MatMul` | abstract: what a multiplication promises; `Gemm` implements it |
| `Accget` | the ACCGET path of the matrix unit, as operators that `AluGemm` composes |
| `Alu` | the element-wise unit, as operators that `AluGemm` composes |
| `AluGemm` | `Gemm`, `Accget` and `Alu` joined as `ALUGEMMTop` joins them, with the back end |
| `TempUnit` | abstract: what instructions and ACCGETs on temporaries promise together; `AluGemm` implements it |
| `Tmisc` | the unit for tile moves with its client |
| `TileOps` | the tile operations as pure operators, and their laws |
| `VulQueue` | the queues of the library |
| `Fifo` | abstract: a clocked first-in first-out queue |
| `RegArray` | both implementations of a register array, under the same calls |
| `ClockedArray` | abstract: an array of registers with write ports |
| `Bram` | the block memories, as operators that `SimpleCache` composes |
| `SimpleCache` | the cache over two block memories |
| `CacheTable` | abstract: a table that is asked for an address, looked up there and refilled |
| `FixInt` | the fixed-width integers as pure operators |
| `FixedPoint` | the numbers of the matrix unit as pure operators |
| `AluOps` | what the ALU computes for an element, as pure operators |
| `ToyIsa` | the instructions of the backend example, as pure operators, and what a machine makes of them that executes one after the other |
| `AluPipe`, `LsuPipe` | its lanes, as operators that `Backend` composes |
| `Backend` | the out-of-order backend with its lanes, driver and memory |
| `InOrder` | abstract: a program executed in order; `Backend` implements it |
| `RanksProofs` | lemmas on sequences, on finite sets and on numbering their members |
| `RenameProofs`, `LSUProofs`, `GemmProofs`, `AluGemmProofs`, `ComponentProofs`, `BackendProofs`, `InOrderProofs` | theorems and their proofs; `ComponentProofs` is about the queue, the register arrays, the cache and TMISC, `InOrderProofs` about the backend and `InOrder` |
| `MCRename`, `MCRenameFlow`, `MCLSU`, `MCAluGemm`, `MCComponents`, `MCBackend` | instances for TLC; `MCComponents` has the queue, the register arrays, the cache and TMISC under one roof |
| `MCLaws` | the laws of the other pure operators, and the inputs TLC tries all of them on |

### Rename

`vtMap`, `mapped`, `isFree`, `readCount`, `writeCount`, `maskCount` are the
software tables of lines 80-85. The ring `rename_free_ptregs` with head, tail
and count is the sequence `freeList`. `s2` and `hold` are a valid bit and its
register, as a sequence of at most one element. A retire buffer is the sequence
of its valid slots. `taken`, `readNext` and `writeNext` are what the services
have written to the ports of the registers in this cycle: `Update`, the body of
a tick, lets them win against the tick's own clearing, as port 0 wins against
port 1 in `storage.hpp`. The loops over operand registers become functions on
sequences: `SourceP` and `OldP` are the lookups, `NeedAlloc` the destinations
that cannot be renamed in place, `NewP` hands out the free list in order, and
`Update` applies the increments of the new instruction and then the decrements
that were sampled at the start of the tick. A tick is one of `TickOccupied`,
`TickNoInst`, `TickRename`, `TickHold`.

`owedReads` and `owedWrites` are the back end's: references it has taken and
not yet retired. It retires only what it owes; the code relies on that (a
reference retired twice would take a counter away from somebody else).

`RenameFlow` adds what the hardware does not know: what the source gave in what
order (`fetched`), how many instructions were renamed and how many the back end
took (`renamed`, `delivered`), and which instruction a physical register was last
given to. A destination counts as overwritten from the moment it is handed out,
the earliest time the back end may write it. `Dataflow` is a sequential front end:
it fetches one instruction when none waits, issues the next one of what it fetched,
once and only after the one before was delivered, and fixes what it reads. So an
instruction that is held may not be lost, renamed twice or overtaken, nor one in
the output register renamed over, and every outstanding read must still find the
value that the sequential program gives it.

### LSU

Memory and queues count in chunks of `TILE_SIZE` bytes, the unit of a bus
request; the bytes of a chunk stay together, so a tile is a function from parts
(row, chunk of the row) to the chunk it came from. The circular queues are
sequences. `store.data` records, plane by plane, which store of the client the
plane belongs to, so that a plane left over from another store would show.
`wb` is what the receiver took in the last cycle. The bus (`bus`, `mem`) accepts
at most one read and one write per bank and cycle and answers reads in any
order, with any delay, once each. In `Tick` the clients' choices are parameters:
whether the writeback is taken, and which banks take a read or a write. The
load and the store half of the unit share no state, only the tick, so `MCLSU`
looks at behaviours whose dispatcher fires loads and at others whose dispatcher
fires stores.

### GEMM, ALU and their composition

`GEMMUnit` mixes both kinds of state. Operand buffers, lane buffers and
accumulators are `HELPER` data and change at once (`TickData`); feeding
register, ready slots, execution levels and cooldown are registers and take
their next values together (`Commit`). Operand tiles are named by the
multiplication they were sent for, a product is the pair of tiles it was made
of, and an accumulator is the sequence of products added to it: addition
commutes, so only which products are there matters to a reader. A tick serves
the levels from last to first, each possibly moving into a level just left;
`Leaves` says when a level is left in one formula. `feeding` is read by the
services as it was at the start of the cycle and written to `next_feeding`,
with `written` for the call that used the write port.

The five flags of the ALU (`alu_busy`, `alu_exec_active`, `alu_result_ready`,
`alu_wb_active`, `alu_retire_pending`) occur in five combinations, the values
of `alu.stage`; the three of TMISC in three, `misc.stage`. A value the ALU
computes is the sequence of the operands it was computed from. ALU state is
`HELPER` and changes at once, so it matters in which order the wrapper's
children tick. `ALUGEMMTop` does not say, so `AluGemm` splits a cycle: services
while nobody has ticked, the ticks of the two children in either order, and the
commit of the matrix unit's registers when both have ticked (`ticked`).
`GEMMUnit.hpp` has two `TICK_IMPL` blocks, one per path;
`tools/userguide/3-module.md:289` says that only the first of a module is
valid, but the unit's own tests need both, so `GemmTick` does both.

The back end of `AluGemm` keeps dependent work apart, as no unit does: an
ACCGET is fired when the multiplications of its accumulator are retired
(`test/gemm/TestMain.cpp` fires one earlier and relies on latencies), nothing
is multiplied into an accumulator that is being read, and what is in flight
together does not write the temporaries the other one uses. `want` remembers
what each thing in flight owes, as a history variable.

### TMISC

`TileOps` translates the operations element by element, on words of four bytes
with `ByteBase` values each: masking with `tmisc_dtype_mask` is reduction, and
`%` on negative numbers is that of C (`Remainder`). `Tmisc` is the state
machine around `ComputeResult`. Planes carry no instruction number, so the
client sends those of the instruction in flight, in any order and possibly
again.

### BankHash, VulQueue

The hash is translated operator by operator for up to eight banks. `VulQueue`
is `VulQueueMP`; the call flags that are asserted (`enq_called_`, ...) are the
guards of the actions. `VulQueue` of the library is the instance with both
widths 1. Whether a clear keeps what is enqueued in its cycle is a constant of
`Fifo`: the code drops it, the user guide keeps it.

### Register arrays

`VulRegisterArray` is one of two classes, by size. `RegArray` makes every call
to both at once: `fullData`, `fullNext`, `pendingPort`, `issued` are the array
that commits each register, the other variables the one with a list of dirty
registers. An action is thus one call, and that both arrays end up the same is
what the refinement to `ClockedArray` says. Two variables are history:
`offers`, what each port wrote in this cycle, and `resetTo`, the values of the
last call if it was a reset; a reset may come between two writes of a cycle.

### Block RAM and cache

A memory is a record: its words, the reads and writes asked for in this cycle,
and the words it shows. Several ports may write one word; the loop over the
ports lets the last one win. The cache asks both memories in the cycle of a
request and compares the tag in the next one. `response` is what the last tick
gave to the caller. `CacheTable` is the model with which the test of the cache
predicts its answers: what is asked for and what is brought in a cycle is on record
until its tick, which looks up the address that was asked for, before the refill.

### FixInt

The operators follow the library's loops over words: carries are seen from a
wrapped sum, slices are put together from two adjacent words, the last word is
masked. Words have `WORD_BITS` bits where the library has 64, so that short
integers already have several words. The signed view of an integer is the
integer with a flag.

### FixedPoint and AluOps

In the state machines of the matrix unit and the ALU, products, sums and results
are named values; what their bits are is the matter of these two modules, which
follow the code function by function. Every size is a constant. A number of
`FixedPoint` is a word as in `Int<96>`; the work registers of 256 bits that add
a float are integers, wide enough here as there. `ShiftIntoWork` keeps a one for
what it shifts out, and the only rounding of a float is in `F32FromWork`.

`AluOps` computes with a small float as the code does with a float of the host,
but exactly. That is the same: the host's 24 bits of mantissa are at least twice
those of any small float and two, so that rounding there first does not show.
`BYTE` is the width of a byte; `HUGE` is what infinities and NaNs are
taken for, as 3.402823e38 is in the code. Left out are F32, which is the
host's own arithmetic, and the operations that are series or quotients (square
root, exponential, reciprocal and what is built on them).

### Out-of-order backend

A step is a cycle. All parts read the registers of the last cycle, and the core
works in a fixed order, each part on what the parts before it left:
drain the push ports, write back, commit, dispatch, issue. `Drained`,
`WrittenBack`, `Committed`, `Dispatched` and `Issued` are these parts, each a
function from a core record to the next; a loop of the code is `Iterated` over
the step that its body is. The lanes are functions as well; what
they accept and show is settled by their queues at the start of the cycle,
which is why they may tick in any order. The driver offers the next
instructions to the ports as the tests do, or holds back for up to `MaxIdle`
cycles. The memory is that of the tests: it answers at once, into one response
register for each lane. `memory.undo` is history, what the stores in flight
replaced; with it `ArchRegs` and `ArchMem` are registers and memory as the
committed instructions left them. The statistics counters are left out. The
quotient of the smallest word by -1 is undefined in C++, and no input has it.

## 3. What TLC checks

| Run | Instance | Shows |
|---|---|---|
| `rename` | 1 virtual, 2 physical registers, batches of 2 reads | `CountsConserved`, `FreeListExact`, `HeldIsRenamed`, `ReplacedIsFreed` |
| `rename_flow` | 2 virtual, 4 physical registers, pairs, programs of 3 instructions | `MapInjective`, `NoWriteUnderRead`, `ImplementsProgram` |
| `lsu` | tiles of 2 rows, elements of 1 and 2 bytes, 2 slots, 6 ids, 2 banks; 3 overlapping stores, one masked | `LoadsAccounted`, `ReadQueueFits`, `StoreDataWhole`, `ImplementsPlanePort`, `LoadsFinish`, `StoresInOrder`, `StoreLands` |
| `lsu_overflow` | one bank of 4 entries, 4 stores | `WriteQueueFits` fails |
| `gemm` | 2 lanes, 2 accumulators, levels of 8, 8, 8 and 3 cycles, 4 multiplications | `FeedingWrittenOnce`, `NeverStalls`, `ImplementsMatMul`, `EverythingRetires` |
| `alu_gemm` | 1 lane, 2 temporaries, 3 chunks, output latency 2; 1 multiplication, 2 instructions of 4, 2 ACCGETs of 2 | `ChunksConserved`, `AccumulatorComplete`, `ImplementsTempUnit`, `RequestsRetire` |
| `components` | a queue of 3 slots with batches of 2; arrays of 2 registers with 2 ports; a cache of 2 lines, 2 tags and 2 data; TMISC with tiles of 2 by 2, bytes of 3 values, 3 instructions of 6 | `RingExact`, `WindowExact`, `ImplementsFifo`, `DirtyListExact`, `ImplementArray`, `ImplementsTable`, `ImplementsPlanePort`, `InstFinishes` |
| `queue_clear` | the same queue | `ImplementsGuide` fails |
| `pure_laws` | tiles of 3 by 3, bytes of 4 values, offsets from -7 to 7, margins to 4; 8 banks, chunks 0 to 2047; integers of 1 to 7 bits in words of 3; operands of 5 bits, accumulators of 20 and 9, floats of 5, 7 and 10, elements of 2, 4 and 8 | `TileLaws`, `HashExact`, `IntegersExact`, `AccumulationExact`, `ElementsExact` |
| `ooo_backend` | 243 programs of 6 instructions; words of 2 bits, 3 registers, 6 tags, 4 entries in flight, 3 waiting, 2 + 2 lanes of 2 slots | `TagsShareOut`, `EntriesInOnePlace`, `WaitsForItsWriter`, `HaltsInTime`, `ImplementsInOrder` |
| `ooo_ingress` | the sizes of the narrow test, 39 dependent divisions | `DispatchedInOrder` fails |
| `ooo_loads` | the same sizes, 5 loads | `HaltsInTime` fails |

The laws of `pure_laws` are about operators without state, and the parts in
`components` share none: each run visits the inputs or behaviours of one after the
other.

Why the bounds are enough. A rename decision depends on one instruction, the
counters of the registers it names and the length of the free list. One spare
register makes the list run empty, two references per register make counters
differ from flags, batches of two name a register twice; pairs are needed for
an instruction that replaces one register and keeps the other, and that takes
two registers from the list at once. Three instructions are enough for a
reader between two writers. `MaxOwed` bounds the references the back end holds,
`MaxInsts` the program of `rename_flow`. For the LSU, two slots and two banks
give every order of answers and preemption of a writeback; an element of two
bytes gives rows of several chunks and several planes; six ids admit a wide and
a narrow load together and make a second wide one wait; `MaxStores` bounds the
stores fired, and three are enough for one to be given its data while another
drains and a third overwrites both. In `gemm`, levels of eight cycles are longer than it takes to
fire and feed three multiplications, so both lanes and the feeding register are
occupied at once and the next one waits; two lanes are the least that overtake
one another, and four multiplications use a lane again. In `alu_gemm` the
instructions are a copy into a temporary and one out of it, both without
latency, a masked comparison that reads two planes and a temporary, and one
with latency; two of them one after the other show what is left over from the
first, two ACCGETs likewise, and three chunks with latency two are under way
together. In TMISC types of one, two and four bytes are widened and narrowed.
Tiles of three have a centre, both triangles and shifts that wrap more than
once in either direction. The hash repeats after 512 chunks except for carries
above the third group, which do not reach the bank. In the queue, depth three
with batches of two makes a batch wrap and meet a full ring. Two registers are
enough for a list in either order and one register that is not on it, two ports
for either priority. Two lines and tags give hits, misses of either kind and a
refill between a read and its answer. Integers of up to seven bits in words of
three have one, two and three words, full and partial last ones; the second
operand is any single word, or a longer one made of zeros, ones and full words.
For the matrix unit every accumulator of nine bits meets every float of seven,
with three bits more behind the point than the float's least one has, so that
ties, cancellation, overflow and results below the normal floats all occur, and
`MaxNum` gives sums on both sides of both limits of an integer of five bits. For
the ALU every element of eight bits and every float of five and ten is a first
operand; second ones of ten bits have every exponent with mantissas at the edges.
In `ooo_backend` six tags for two renamed registers run out when four
instructions are in flight, the reorder buffer and the issue queue fill up,
divisions and loads finish after what follows them, and a ring of six entries
behind two ports never has just one place left, the case that `ooo_ingress`
shows. Programs load and store at addresses of their own, and so few
at a time that no response is overwritten before its slot has taken it, as in
the tests; the other case is `ooo_loads`. `MaxIdle` bounds the gaps in the driver's offers. No
counter grows without bound there: a program ends.

Fairness. The clock never stops: weak fairness of the tick, or of a cycle. The
bus takes from a bank that keeps offering and answers each request, and the
receiver of writebacks takes one in the end: without these the repository
promises nothing. An offer of the LSU or of TMISC stands until it is taken, so
weak fairness says this for each bank and for the writeback. The back end of
rename takes a result it has room for and retires each reference (strong
fairness per register, since one port serves them all). The receivers of the
ALU's planes and of retirements take one again and again (strong fairness,
since an offer comes and goes with the ticks of a cycle). No unit is
assumed fair beyond its tick: which instruction, slot or queue a tick serves is
decided by the code. Two properties show what that means. `LoadsFinish` says
without condition that the lowest slot finishes, but for the higher ones only
that they do once the client fires no more loads, since they can be starved by
the fixed priority of `lsu_find_writeback_slot`. `RequestsRetire` says without
condition that instructions retire, but for an ACCGET only if the ALU is idle
from some time on: instructions retire before ACCGETs (`ALU.hpp:811`), and
copies between temporaries, which take no time, can be fired and retired in
every cycle. The backend needs no fairness: each step is a cycle, and
`HaltsInTime` counts them against `MaxCycles`, as the loop of the tests does.

Every property of a passing run has a mutant: a definition of the model changed
the way a bug in the code would change it, under which TLC finds the property
violated. The mutated forms stand beside the definitions they replace.

### Where the code and its texts disagree

- `lsu_overflow`: the assertion at `src/lsu/LSU.hpp:234` can fail. A load is
  admitted only with enough response ids, and ids bound the read queues
  (`ReadQueueFits`); a store is admitted whenever the store context is free,
  whatever the queues hold. At full size, one-byte tiles with rows 512 chunks
  apart put 32 requests in one bank, so about twenty such stores in a row, one
  every two cycles, fill its 640 entries.
- `ooo_ingress`: the tests offer two instructions in a cycle, the older one to
  port 0. The core drains the ports one by one while the ring has room
  (`BackendCore.hpp:279-290`). With room for one, port 0 is drained and takes a
  younger instruction in the same cycle, which then enters the ring before the
  older one in port 1. It takes a full ring, hence the long chain of divisions.
- `ooo_loads`: a memory lane sends requests for all its slots, but takes a
  response for the first slot that waits (`LSUPipeline.hpp:117-146`), without
  looking at whose it is, and the tests' memory keeps one response. Five loads
  in a row leave a slot waiting for a response that is gone. The lane depends on
  each slot asking for the response before the next request is sent.
- `queue_clear`: `tools/userguide/7-queue.md:88` says that a clear goes first and
  the dequeue and enqueue of the cycle follow, as they do in the hardware
  counterpart `tools/vullib/queue.sv`; `queue.hpp:198` drops the enqueue. The run
  enqueues and clears in one cycle. `ImplementsFifo` is about the queue whose clear
  drops, which the test of `QUEUE_MP` expects (`test/Main.cpp:101-108`).

Two more were seen while modelling and are not runs of their own:

- `test/alu/ALUGEMMAccgetTest.cpp:205` calls the wrapper's `s0AccgetStart` until
  it answers true, but `ALUGEMMTop.hpp:37-40` declares the service always ready
  and asserts that the ALU accepted. Nor does `gemmAccgetReady`, which the test
  asks first, tell whether the ALU can take one: it answers for the matrix unit
  alone. The back end of `AluGemm` starts one only when the ALU is ready.
- `alu_encode_custom_float` divides by two until its argument is below two
  (`ALU.hpp:177`), and never ends for an infinity of the host. Floats with the
  highest exponent are decoded to 3.402823e38 so as to stay finite, but two of
  them added, one of them times a number above one, or one divided by a zero
  (`TRCP`, `TRSQRT`) are infinite. `Encodable` names these sums and products,
  and `ElementsExact` is about the others.

## 4. What is proved

The proofs hold for every value of the constants that satisfies the named
assumptions of the modules, and have been checked to the last leaf.

`RenameProofs` (from `SizesAssumption`, `SlotsAssumption`, `CountAssumption`,
`InstsAssumption`): `Spec => []NeverWraps`, `[]CountsConserved`, `[]MapInjective`,
`[]FreeListExact` and `Spec => NoWriteUnderRead`. The inductive invariant is
the last three with `TypeOK`: whether a tick may free a register depends on the counters
being exact, exact counters depend on what the map and the output register hold
and on the back end owing no more than `MaxOwed`, and a register can be taken
from the free list without a second owner only because the list holds
unmapped, unreferenced registers once each. There is one lemma per action, and
for a tick one per part of the invariant. `CountAssumption` says that what the
back end may owe fits sixteen bits; it is the only place where the width of the
counters matters. The counters are reduced modulo that width wherever the code
changes them, so their range says nothing; `NeverWraps` does: the sums of a tick as
whole numbers stay below the modulus, no more is taken off than there is, and no
retired slot is refused. `NoWriteUnderRead` follows from the invariant: a destination
that is new comes from the free list and so has no reference anywhere, and one
that is kept has a zero read counter, which counts every outstanding read.

The same module proves that `RenameFlow` implements `Dataflow` (`FlowSpec =>
ImplementsProgram`): what is fetched is renamed once and delivered once, in the
order of the fetches, and every read sees the value of the latest earlier writer of
its register, however late it comes. `FlowInv` adds two things to the invariant.
`FetchedExact` says that what was fetched is what was renamed and the held
instruction after it, and what was delivered is what was renamed but for the output
register. `RefsExact` says that the history of outstanding reads names exactly the
references that `CountsConserved` counts. A register that is handed out or
written in place has no reference, so no outstanding read loses its value.

`LSUProofs` (from `UnitAssumption`, `MetaAssumption`, `HashAssumption`):
`Spec => []LoadsAccounted`, `[]ReadQueueFits`, `[]StoreDataWhole`,
`Spec => StoresInOrder` and `Spec => PlanePort`'s specification, for every number of
banks, slots, ids and chunks, every hash that has an inverse, and answers in any
order. The invariant is `LoadInv /\ StoreInv`, one for each half; only the tick
touches both. `LoadInv` says that an id in use belongs to a load in a slot and to
one part of it (`IdsInUse`), that a request on its way asks for the chunk its id
stands for, no two have one id, and every id in use is on its way (`RequestsAsk`,
`RequestsApart`, `IdsAwaited`), and that a slot has received what it does not
await, as a count and as data (`SlotConsistent`). The entries of the read queues
then inject into the ids, which is why none overflows (`ReadQueueFits`). Most of
the work is in `s0LoadRowFire`, which hands out the free ids in order and puts a
request for every part in the queue of its bank: the lemmas of `RanksProofs` on
numbering a set give both. `StoreInv` says that what the context holds was given
for the store fired last (`ContextCurrent`), and that a queue holds whole stores in
the order they were fired, none older than the memory behind it (`QueueInOrder`).
That the hash of the bus has the inverse `HashAssumption` asks for is
`HashIsBijective`, from `BankBitsAssumption`, for 2, 4 or 8 banks and chunks without
bound, together with the other direction and the spread of rows. Its proof writes a
chunk as its three lowest groups and the rest (`SumOfGroups`) and takes the exclusive
or bit by bit (`XorOfThree`).

`GemmProofs` (from `SizesAssumption`, `LatencyAssumption`, `NoPaccAssumption`):
`Spec => []TypeOK`, `[]FeedingWrittenOnce`, `[]NeverStalls` and `Spec =>
MatMul`'s specification. The code lets a level
that has run out wait until the next one is free and, after the last, until no
other lane retires; that it never has to is a matter of timing. `Timetable` gives every multiplication in execution the number of
cycles it still has, counted over all the levels it has to pass: these numbers
differ between any two, and in a lane they are at least `TILE_SIZE` apart. A
tick lowers all of them by one and gives what starts a number higher than all
others, so they stay different; a level that has run out therefore finds the
next one free or run out too. Only one start per tick and a last level that is
not longer than the others (`LatencyAssumption`) are needed, not the cooldown.
For the refinement `OperandInv` numbers the multiplications and says which of
them the feeding register, the lanes and the accumulators hold, and `Counted`
says that what was added is retired or in execution: a tick maps the occupied
levels one to one, except for the multiplication it retires and the one it
starts.

Its theorem `SumsAreOwn` says that at any time an accumulator holds no product
but its own and none twice: what is in it was fired for it. Together with
`Counted` this bounds how often it was added to by what was fired for it.

`AluGemmProofs` (from `AluGemmAssumption`, which includes those of `Gemm`):
`Spec => []AccumulatorComplete`, `[]ChunksConserved` and `Spec => TempUnit`'s
specification, for both orders in which the children tick. The invariant `IInv`
has three parts. The first is what `GemmProofs` shows of the matrix unit, which
is not proved again: `AluGemm` splits a tick of it into data and commit, so `B`
instantiates `GemmProofs` with the registers as the commit will leave them once
the data has changed, and under this mapping every step of `AluGemm` is a step
of `Gemm` or a stutter (`GemmStep`). An ACCGET is fired when as many
multiplications have retired as were fired, a multiplication is added before it
retires (`RetiredIsComplete`), and no sum outgrows the multiplications fired for
it (`SumsOwn`), so the accumulator is complete. The second part, `InstInv`,
follows the instruction: which planes have come, that its operands are those of
the result `want` it owes, and where it is. The third, `GetInv`, follows the
ACCGET, of which each unit knows a half: what the ALU has sent is what the matrix
unit has taken but for the call of this cycle, whose effect the commit makes
visible (`Fired`, `Feeds`, `Waits`); a chunk that was taken is in one slot or back
in its temporary; and what is still to be sent is as it was at the start, since
nobody adds to the accumulator (part one) or writes the source (`Apart`). There
is a slot for every chunk because the chunks in the slots are different
(`RoomForChunk`, by counting). For the refinement, a tick of the ALU is a cycle of
`TempUnit` with a plane or none and a retirement or none, decided by whether
planes and retirements are taken; every other step but the starts is a stutter.

The unit for tile moves, in `ComponentProofs` (from `TileAssumption`, `FiredAssumption`, `InstsAssumption`,
`PlanesAssumption`, which say that sizes are positive, that elements have one to
four bytes, and that planes are made of bytes): `Spec => []MiscInv` and `Spec =>
PlanePort`'s specification, for every size of tile, every operation and every data
type, with planes in any order, again, or for bytes the element does not have.
`MiscInv` says what the source is while planes are coming: the word whose bytes are
those of the planes that came and zero elsewhere (`PartOf`). A merge writes one byte
of that word whatever was in it, so a plane that comes again changes nothing
(`MergePart`, from `BytesOfWord`: the bytes of a word are determined by it). From the
last plane on, the source is whole, the result is the operation applied to it
(`ResultSound`), and later planes are merged but no longer looked at. Each plane
that is written back is therefore the plane of the result.

The module also proves the laws of the operations for tiles of every size and any
instruction and source, where TLC tries them on one size and one source
(`TileLawsHold`): a shift is undone by the opposite one, since the index of C, made
positive, is the remainder of mathematics (`ModIndexFacts`, `BackAndForth`); the sign
of a type disappears when a value is stored, since masked values that differ by the
modulus are stored alike (`PackWraps`); turns and spreadings conjugate, and the
triangles share out the rectangle.

The other parts of `ComponentProofs`. The queue (from `WidthAssumption`,
`DefaultAssumption`): `QueueSpec =>
[]RingExact`, `[]WindowExact` and `QueueSpec => Fifo`'s specification under
the mapping that reads the ring from its head. The invariant is
`TypeOK /\ RingExact /\ WindowExact`; that accepted requests fit is what makes
the truncations in `apply_next_tick` dead code.

The register arrays (from `PortAssumption`, `ValueAssumption`): `RegSpec =>
[]DirtyListExact` and `RegSpec => ImplementArray`, for any set of registers and
any number of ports. The invariant ties each array to the history of the cycle:
the pending port is the lowest one that has written (`FullInv`), the slot of a
register holds the offer of its best port if it holds one (`DirtyInv`), and the
list names the registers that have offers. That the tick of the dirty array may
skip the registers it does not list is the last of these.

The cache (no assumptions on the constants): `CacheSpec =>
ImplementsTable`, for the address that was asked for. The invariant says that in a cycle both memories are asked for
the line of the address in the stage to come, and for nothing otherwise, and
that a refill writes one line of both. A tick then shows the words that the
table held before the refill, which is what `CacheTable` looks up.

`BackendProofs` (from `SizesAssumption`, `ProgramsAssumption`): `Spec =>
[]TagsShareOut` and `[]CountersAgree`, for any numbers of registers, tags, entries,
ports and lanes, any program, and whatever the lanes and the memory give back. A
cycle is several loops over a copy of the core's registers. `CoreInv` is about such a
copy, and each step of a loop keeps it: a write-back changes what is ready and
nothing else (`WritebackKeeps`); a commit moves a tag from the oldest entry to the
free list (`CommitKeeps`, `Freed`); a dispatch moves the first free tag to the map
and the tag it replaces to the new entry (`DispatchKeeps`, `Renamed`). A dispatch needs
`Room` for as many as are still to come, which `DispatchLimit` provides because the
counters agree with what is in the ring and the queue (`RingInv`, `QueueInv`): that is
why the tags need the whole invariant. A loop is a recursive function; `LoopRuns` shows
once that there is one, and `PassedOn` that what holds before the first step and
passes from each to the next holds in the end. `CountersAgree` is the part of
`EntriesInOnePlace` that is about the core alone.

On top of it stands the invariant `OrderInv`, from which follow `Spec =>
[]WaitsForItsWriter` and `[]FiledOnce`, the part of `EntriesInOnePlace` that says that
what is in the issue queue or a lane is filed under its own entry and is nowhere else.
That an operand which waits has a writer is inductive only together with three more
facts: a register whose tag is not ready has one too (`RegistersInv`), since a dispatch
copies the register's tag; an instruction is not ready as long as it is in the issue
queue or a lane, and no two places hold the same one (`FilingInv`, `Apart`), since
otherwise a write-back would take away a writer that is still awaited by others; and a
result whose instruction has a destination says so (`ItemOk`), since otherwise it would
make its entry ready and wake nobody. `FlowInv(c, T)` says this of a copy `c` of the
core and the set `T` of instructions in the lanes, and each loop keeps it with its own
`T`: the write-backs take the first result of each lane out of it (`FlowWritebacks`,
`Held`), the commits and dispatches leave it (`FlowCommits`, `FlowDispatches`), the
choice adds what it takes from the queue (`FlowIssue`, `ChosenAreFair`: no entry goes to
two lanes). For the lanes, a tick of either kind is shown to be a `Move`: one slot may
take the first request, one result may leave its slot, and everything else stays where
it was (`AluTickMoves`, `LsuTickMoves`), so what a lane holds then it held before or
was issued (`LanesKeep`). This is proved whatever the memory answers and however many
slots a lane has.

That nothing gets lost does depend on the slots. `NothingIsLost` is `Spec /\
[]AnswersDoNotCross => []EntriesInOnePlace`. In a memory lane with three slots or more a
slot that sends may stand between two that poll. In one cycle the first of these takes the
answer that is there, the second leaves one, the third takes that, and of the two results
the queue, which asserts that there is only one (`queue.hpp:44`), would keep the last
(`LSUPipeline.hpp:127`); the other instruction would never get ready.
`AnswersDoNotCross` excludes such slots, and the first half of `AnswersAreOwn` below is
stronger. The invariant adds to
`OrderInv` that each entry that is not ready has a ticket in the issue queue or in the
lanes (`Covered`). A write-back takes one ticket away and makes its entry ready, a
dispatch adds a ticket with each entry, a choice moves tickets from the queue to the lanes
(`CoreCovered`). For the lanes it says the converse of `Move`: the request that was issued
and everything the lane held is still there, but for the first result, which was written
back (`Retained`, `LanesLoseNothing`). An ALU lane frees a slot only for the result it puts
in the queue; for a memory lane, `VisitFreesOne` follows the answer through the visits of
a cycle. The sum in `EntriesInOnePlace` is then the cardinality of a union of three
disjoint sets that numbers the entries that are not ready (`InvImpliesEntriesInOnePlace`).

`InOrderProofs` (from these and `MemoryAssumption`, that the memory holds a word at every
address) shows that the backend implements `InOrder`: `BackendExecutesInOrder`, for any
number of ports, lanes and slots and programs of any length. Three hypotheses are left, which
the code does not enforce and the proof cannot do without.

- `[]IngressInOrder`: no port passes another, so that the ring, once the ports are drained,
  holds the next instructions of the program. `ooo_ingress` is a behaviour in which one does.
  The ring may fill up and ports may wait; what is excluded is that a younger instruction gets
  in first. With one port, or a ring with room for the program (`ProgramsFit`), this holds of
  every behaviour (`NoPortPasses`).
- `[]AnswersAreOwn`: each slot of a memory lane takes its own answer. The slots may have
  several requests under way, in one cycle a slot may take its answer and a later one send,
  and the queues may have any depth; what is excluded is that a slot takes, or overwrites, the
  answer to another's request, as happens in `ooo_loads`. Whether a lane gets that far depends
  on latencies, so this is a condition on behaviours and not on programs.
- `ProgramsOrderly`: what the tests' programs respect. The HALT is last, addresses are
  those of the memory, and a store and another access to its address are at least
  `ROB_SIZE` instructions apart, since the issue compares no addresses
  (`BackendCore.hpp:503-560`). `MCBackend` evaluates it for the programs of `ooo_backend`.

For what is committed, the two faults found are thus the only ones: an orderly program whose
behaviour shows neither commits what in-order execution does, whatever the latencies, widths
and depths. That it commits at all is `HaltsInTime`, which is only model-checked. As
TLC confirms when given the first two as invariants, both hold in the instance of
`ooo_backend`; in `ooo_ingress` only the second does, and in `ooo_loads` only the first. The
code does not keep either fault from the shipped test programs, of which the longest have 148
instructions, behind two ports and on lanes of 4 and 8 slots.

There are two invariants. `FetchInv`, under `ProgramsFit`, says that ports, ring and reorder buffer
hold consecutive instructions of the program. Any of the ports may be empty, so `PortsCount`
asks for a count that starts at the end of the ring, goes up by one at every full port, which
holds the instruction of that number, and ends at `fed`; a drain of port `k` adds one to the
count before `k` (`DrainStep`). The property of `ooo_ingress`, `DispatchedInOrder`,
follows under `ProgramsFit` (`DispatchesInOrder`).

`ValuesInv` says what everything holds in terms of `InOrderAfter(program, n)`, the machine
after the first `n` instructions. A tag that is ready holds the value of its register in the
machine after its writer; a tag that is not has that writer in flight (`HoldsTag`,
`Pending`). It must say so of each tag an operand waits for, of those in the map, from which
a dispatch copies, and of the one every entry replaced, from which the committed registers
are read as long as the entry is in flight (`WaitingInv`, `MapInv`, `OldInv`,
`RegsAreInOrder`). A request in a lane has the operands of its instruction, a result its
value (`LanesRight`). The memory is that of the machine after the committed instructions,
changed by the stores in flight, each at an address of its own (`StoresInv`); so a load that
is served out of order, among other accesses in flight, reads what in-order execution reads,
and undoing the stores in flight gives the memory of the committed instructions
(`MemoryIsInOrder`). Every loop of a cycle keeps this (`ValuesDrained`, `CoreVals`,
`ValuesLanes`), and a step of `Next` commits some instructions, between none and
`COMMIT_WIDTH`, for which the sequential machine makes one step (`SequentialStep`).

`RanksProofs` holds the lemmas on sequences, on numbering finite sets and on what
passes from each number to the next.
`TypeOK` of the modules that have proofs is part of their invariants and is
proved, not run.

Only model-checked are: the laws of integers, of
the matrix unit's numbers and of the ALU's elements (`IntegersExact`,
`AccumulationExact`, `ElementsExact`), over bounded inputs; and all liveness
(`HeldIsRenamed`, `ReplacedIsFreed`, `LoadsFinish`, `StoreLands`, `EverythingRetires`,
`RequestsRetire`, `InstFinishes`), which is out of the prover's reach, like
`HaltsInTime`, which counts the cycles of given programs. Section 5 says what can
still be proved. The operators of `FixInt` are recursive over words and bits, and
those of `FixedPoint` and `AluOps` are full of powers of two with a variable
exponent.

## 5. What is not modelled, and the plan

Left out of the modelled parts: fields an instruction only carries along, the
bytes inside a chunk, misaligned accesses (asserted away), and services called
before the first tick after a reset, which the units accept and then wipe (the
tests step once first). In the LSU, masks enable or disable whole chunks. In
the GEMM and ALU models, what a product, a sum or an operation computes from
its operands is a named value, apart from which `FixedPoint` and `AluOps` say
what it is, but for the ALU's series and quotients on floats and its F32. Two
writers of one register may be outstanding together when the rename stage keeps
the register (`Rename.hpp:361`); the stage counts them and leaves their order to
the back end, which is not in the repository.

In the library, `VulBRAM1RW` has no user in the repository, and `VulROM` adds to
a memory without write ports only the parsing of its file. In the backend,
loads and stores to one address in flight together are left out: the lanes
compare no addresses, and nothing in the repository says what such a program
should do; nor does a program go on after its HALT.

Left out altogether: waveform output, the process entry point, the macros that
describe modules to the generator, and the SystemVerilog counterparts. They hold
no state of the simulated machine. Of the examples, `rv64ima5` is an interpreter
of RV64IMA in five stages, nearly all of it decoding and arithmetic of
instructions, and the others show one feature of the library each.

Planned: the reset, as a flag for the cycle before the first tick, in `LSU` and
`Tmisc`.
