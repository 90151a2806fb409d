------------------------------- MODULE Backend -------------------------------
(***************************************************************************)
(* The out-of-order backend of the library's example                       *)
(* tools/example/ooo_backend: core/BackendCore.hpp with its arithmetic     *)
(* lanes (AluPipe), memory lanes (LsuPipe), and the driver and memory of   *)
(* its tests.  One step is one cycle: every part reads the registers as    *)
(* the last cycle left them, and the core works on a copy of its own, in   *)
(* the order of TICK_IMPL: drain the push ports, write back, commit,       *)
(* dispatch, issue.                                                        *)
(***************************************************************************)
EXTENDS Integers, Sequences, FiniteSets, SequencesExt, FiniteSetsExt

CONSTANTS
  WordBits,
  ARCH_REGS, PHYS_REGS, ROB_SIZE, IQ_SIZE, FRONTEND_QUEUE_DEPTH,
  INGRESS_WIDTH, DISPATCH_WIDTH, COMMIT_WIDTH, ALU_LANES, LSU_LANES,
  PIPE_SLOTS, INPUT_DEPTH, RESULT_DEPTH,     \* of every lane
  MUL_LATENCY, DIV_LATENCY, ADDR_LATENCY,
  Programs, InitMem,                         \* what may be run
  MaxIdle,                                   \* bound: cycles the driver may hold back
  MaxCycles                                  \* cycles a program may take

ASSUME SizesAssumption ==
  /\ ARCH_REGS \in Nat \ {0} /\ PHYS_REGS \in Nat /\ PHYS_REGS > ARCH_REGS
  /\ {ROB_SIZE, IQ_SIZE, FRONTEND_QUEUE_DEPTH, INGRESS_WIDTH, DISPATCH_WIDTH,
      COMMIT_WIDTH, ALU_LANES, LSU_LANES, PIPE_SLOTS, INPUT_DEPTH, RESULT_DEPTH,
      MUL_LATENCY, DIV_LATENCY, ADDR_LATENCY, WordBits} \subseteq Nat \ {0}

Toy == INSTANCE ToyIsa

\* Opcodes and registers fit their fields.
Instr ==
  [op : {"NOP", "ADD", "ADDI", "SUB", "AND", "OR", "XOR", "MUL", "DIV", "LOAD", "STORE", "HALT"},
   rd : 0 .. ARCH_REGS - 1, src1 : 0 .. ARCH_REGS - 1, src2 : 0 .. ARCH_REGS - 1, imm : Int]

ASSUME ProgramsAssumption == \A prog \in Programs : prog \in Seq(Instr)

\* The memory holds a word at every address.
ASSUME MemoryAssumption == InitMem \in [0 .. Toy!Words - 1 -> 0 .. Toy!Words - 1]

Alu == INSTANCE AluPipe
Lsu == INSTANCE LsuPipe

VARIABLES
  program, fed,   \* the driver: what it runs, how much of it the ports took
  idle,           \* cycles in which the driver held back
  push,           \* push_valid and push_data: port to what it holds (0 or 1)
  core,           \* the other registers of BackendCore, as a record
  cycle,          \* cycles up to the HALT (the code counts on after it)
  alu, lsu,       \* the lanes
  memory          \* the memory, and its response register for each memory lane

vars == <<program, fed, idle, push, core, cycle, alu, lsu, memory>>

Ports == 1 .. INGRESS_WIDTH
Tags  == 0 .. PHYS_REGS - 1

\* Arithmetic lanes come first, memory lanes after them.
AluLanes == 1 .. ALU_LANES
LsuLanes == ALU_LANES + 1 .. ALU_LANES + LSU_LANES

Empty == [valid |-> FALSE]

InitCore ==
  [ingress |-> <<>>,
   map   |-> [r \in 0 .. ARCH_REGS - 1 |-> r],
   ready |-> [t \in Tags |-> t < ARCH_REGS],
   value |-> [t \in Tags |-> 0],
   free  |-> [i \in 1 .. PHYS_REGS - ARCH_REGS |-> ARCH_REGS + i - 1],
   rob   |-> [i \in 0 .. ROB_SIZE - 1 |-> Empty],
   head  |-> 0, tail |-> 0, count |-> 0,
   iq    |-> [i \in 1 .. IQ_SIZE |-> Empty], iqCount |-> 0,
   seq   |-> 1, committed |-> 0, halted |-> FALSE]

\* What a loop over 1 .. n makes of c.
Iterated(Step(_, _), c, n) ==
  LET run[i \in 0 .. n] == IF i = 0 THEN c ELSE Step(run[i - 1], i)
  IN run[n]

-----------------------------------------------------------------------------
\* Mutant: the last port is drained first.
DrainedLastFirst(ports, ring) ==
  LET Port(i) == INGRESS_WIDTH + 1 - i
      taken   == { p \in Ports : ports[p] # <<>> /\ Len(ring) + INGRESS_WIDTH <= FRONTEND_QUEUE_DEPTH }
  IN [ring  |-> ring \o FlattenSeq([i \in Ports |-> IF Port(i) \in taken THEN ports[Port(i)] ELSE <<>>]),
      ports |-> [p \in Ports |-> IF p \in taken THEN <<>> ELSE ports[p]]]

\* The push ports are drained in port order while the ring has room.
DrainPort(a, p) ==
  IF a.ports[p] # <<>> /\ Len(a.ring) < FRONTEND_QUEUE_DEPTH
  THEN [ring |-> a.ring \o a.ports[p], ports |-> [a.ports EXCEPT ![p] = <<>>]]
  ELSE a

Drained(ports, ring) == Iterated(DrainPort, [ring |-> ring, ports |-> ports], INGRESS_WIDTH)

\* Mutant: only the first operand listens to the results (lines 306-309).
WokenFirst(e, wb) ==
  IF ~ e.valid \/ e.ready1 \/ e.tag1 # wb.dst THEN e
  ELSE [e EXCEPT !.ready1 = TRUE, !.src1 = wb.value]

\* A waiting operand takes the value of the tag it waits for.
Woken(e, wb) ==
  IF ~ e.valid THEN e
  ELSE [e EXCEPT !.ready1 = @ \/ e.tag1 = wb.dst,
                 !.src1   = IF ~ e.ready1 /\ e.tag1 = wb.dst THEN wb.value ELSE @,
                 !.ready2 = @ \/ e.tag2 = wb.dst,
                 !.src2   = IF ~ e.ready2 /\ e.tag2 = wb.dst THEN wb.value ELSE @]

\* One result reaches the registers, the reorder buffer and the issue queue.
Writeback(c, wb) ==
  LET writes == wb.hasDest /\ wb.dst # 0 IN
  [c EXCEPT !.ready = IF writes THEN [@ EXCEPT ![wb.dst] = TRUE] ELSE @,
            !.value = IF writes THEN [@ EXCEPT ![wb.dst] = wb.value] ELSE @,
            !.rob[wb.rob].ready = TRUE,
            !.iq = [i \in DOMAIN @ |-> Woken(@[i], wb)]]

\* The oldest result of every lane is written back, arithmetic lanes first.
WritebackOf(c, l) ==
  LET q == IF l \in AluLanes THEN alu[l].resultq ELSE lsu[l].resultq
  IN IF q = <<>> THEN c ELSE Writeback(c, Head(q))

WrittenBack(c) == Iterated(WritebackOf, c, ALU_LANES + LSU_LANES)

\* The head of the reorder buffer retires if it is ready, and the register
\* its instruction replaced is free again.
CommitOne(c, i) ==
  LET e == c.rob[c.head] IN
  IF c.count = 0 \/ ~ e.valid \/ ~ e.ready THEN c
  ELSE [c EXCEPT !.committed = @ + 1,
                 !.free   = IF e.hasDest /\ e.old # 0 THEN Append(@, e.old) ELSE @,
                 !.halted = @ \/ e.op = "HALT",
                 !.rob[c.head] = Empty,
                 !.head   = (@ + 1) % ROB_SIZE,
                 !.count  = @ - 1]

Committed(c) == Iterated(CommitOne, c, COMMIT_WIDTH)

\* Mutant: the room in the reorder buffer is not looked at (line 406).
DispatchLimitNoRob(c) ==
  Min({DISPATCH_WIDTH, Len(c.ingress), IQ_SIZE - c.iqCount, Len(c.free)})

\* How many instructions may be dispatched.
DispatchLimit(c) ==
  Min({DISPATCH_WIDTH, Len(c.ingress), IQ_SIZE - c.iqCount, ROB_SIZE - c.count, Len(c.free)})

\* The entry of the reorder buffer for an instruction: it keeps the tag that
\* its destination had.
RobEntry(c, inst, dst) ==
  [valid |-> TRUE, ready |-> FALSE, hasDest |-> Toy!WritesDest(inst), op |-> inst.op,
   rd |-> inst.rd, dst |-> dst, seq |-> c.seq,
   old |-> IF inst.rd = 0 THEN 0 ELSE c.map[inst.rd]]

\* Its entry of the issue queue: its sources are looked up.
IqEntry(c, inst, dst) ==
  LET tag1 == IF inst.src1 = 0 THEN 0 ELSE c.map[inst.src1]
      tag2 == IF inst.src2 = 0 THEN 0 ELSE c.map[inst.src2]
  IN [valid |-> TRUE, isLsu |-> Toy!IsLsu(inst), op |-> inst.op,
      rob |-> c.tail, dst |-> dst, imm |-> inst.imm, seq |-> c.seq,
      tag1 |-> tag1, ready1 |-> inst.src1 = 0 \/ c.ready[tag1],
      src1 |-> IF inst.src1 = 0 THEN 0 ELSE c.value[tag1],
      tag2 |-> tag2, ready2 |-> inst.src2 = 0 \/ c.ready[tag2],
      src2 |-> IF inst.src2 = 0 THEN 0 ELSE c.value[tag2]]

\* An instruction leaves the ring: its destination is renamed, and it enters
\* the reorder buffer and the first free entry of the issue queue.
DispatchOne(c, k) ==
  LET inst == Head(c.ingress)
      need == Toy!WritesDest(inst)
      dst  == IF need THEN Head(c.free) ELSE 0
      free == { i \in 1 .. IQ_SIZE : ~ c.iq[i].valid }
  IN IF free = {} THEN c ELSE
  [c EXCEPT
     !.ingress = Tail(@),
     !.free  = IF need THEN Tail(@) ELSE @,
     !.map   = IF need THEN [@ EXCEPT ![inst.rd] = dst] ELSE @,
     !.ready = IF need THEN [@ EXCEPT ![dst] = FALSE] ELSE @,
     !.value = IF need THEN [@ EXCEPT ![dst] = 0] ELSE @,
     !.rob[c.tail] = RobEntry(c, inst, dst),
     !.tail  = (@ + 1) % ROB_SIZE,
     !.count = @ + 1,
     !.iq[Min(free)] = IqEntry(c, inst, dst),
     !.iqCount = @ + 1,
     !.seq   = @ + 1]

Dispatched(c) == Iterated(DispatchOne, c, DispatchLimit(c))

\* Which entry of the issue queue every lane takes (0: none): the entries
\* are offered in turn to the first lane that can accept and has nothing
\* older.
Can(l) == IF l \in AluLanes THEN Alu!CanAccept(alu[l]) ELSE Lsu!CanAccept(lsu[l])

Offered(c, best, i) ==
  LET e     == c.iq[i]
      takes == { l \in IF e.isLsu THEN LsuLanes ELSE AluLanes :
                   Can(l) /\ (best[l] = 0 \/ e.seq < c.iq[best[l]].seq) }
  IN IF ~ e.valid \/ ~ e.ready1 \/ ~ e.ready2 \/ takes = {} THEN best
     ELSE [best EXCEPT ![Min(takes)] = i]

Chosen(c) ==
  Iterated(LAMBDA best, i : Offered(c, best, i), [l \in AluLanes \cup LsuLanes |-> 0], IQ_SIZE)

\* The FuRequest made of an entry.
FuRequest(e) ==
  [op |-> e.op, rob |-> e.rob, dst |-> e.dst, src1 |-> e.src1, src2 |-> e.src2,
   imm |-> e.imm, seq |-> e.seq]

\* Mutant: the counter is not taken down (line 547).
IssuedUncounted(c, chosen) ==
  LET gone == { chosen[l] : l \in DOMAIN chosen } \ {0} IN
  [c EXCEPT !.iq = [i \in DOMAIN @ |-> IF i \in gone THEN Empty ELSE @[i]]]

\* The chosen entries leave the issue queue: a lane that could accept takes.
Issued(c, chosen) ==
  LET gone == { chosen[l] : l \in DOMAIN chosen } \ {0} IN
  [c EXCEPT !.iq = [i \in DOMAIN @ |-> IF i \in gone THEN Empty ELSE @[i]],
            !.iqCount = @ - Cardinality(gone)]

-----------------------------------------------------------------------------
\* The driver offers its next n instructions to the ports, in port order; a
\* port takes one when push_inst is ready, and keeps it for the next cycle.
FeedPort(a, p, n) ==
  IF push[p] = <<>> /\ a.fed < fed + n /\ a.fed < Len(program)
  THEN [fed |-> a.fed + 1, ports |-> [a.ports EXCEPT ![p] = << program[a.fed + 1] >>]]
  ELSE a

Fed(n, ports) ==
  Iterated(LAMBDA a, p : FeedPort(a, p, n), [fed |-> fed, ports |-> ports], INGRESS_WIDTH)

\* The memory lanes tick one after the other on one memory.
ServeLane(a, k, issue, popped) ==
  LET n == ALU_LANES + k
      l == Lsu!Tick(lsu[n], [mem |-> a.mem, resp |-> a.resp[n], undo |-> a.undo],
                    issue[n], popped /\ Lsu!HasResult(lsu[n]))
  IN [lanes |-> [a.lanes EXCEPT ![n] = l.lane], mem |-> l.memory.mem,
      resp |-> [a.resp EXCEPT ![n] = l.memory.resp], undo |-> l.memory.undo]

Served(issue, popped) ==
  Iterated(LAMBDA a, k : ServeLane(a, k, issue, popped),
           [lanes |-> lsu, mem |-> memory.mem, resp |-> memory.resp, undo |-> memory.undo],
           LSU_LANES)

\* The lanes and the memory, given what the core issued and took away.
LanesTick(issue, popped) ==
  LET served == Served(issue, popped) IN
  /\ alu' = [k \in AluLanes |-> Alu!Tick(alu[k], issue[k], popped /\ Alu!HasResult(alu[k]))]
  /\ lsu' = served.lanes
  /\ memory' = [mem |-> served.mem, resp |-> served.resp,
                undo |-> { u \in served.undo : u.seq > core'.committed }]

\* A cycle of the core, in which the driver offers n instructions.
Cycle(n) ==
  LET drained == Drained(push, core.ingress)
      next    == Dispatched(Committed(WrittenBack([core EXCEPT !.ingress = drained.ring])))
      chosen  == Chosen(next)
      f       == Fed(n, drained.ports)
  IN
  /\ ~ core.halted
  /\ core' = Issued(next, chosen)
  /\ cycle' = cycle + 1
  /\ push' = f.ports /\ fed' = f.fed
  /\ LanesTick([l \in DOMAIN chosen |->
                  IF chosen[l] = 0 THEN <<>> ELSE << FuRequest(next.iq[chosen[l]]) >>], TRUE)
  /\ UNCHANGED program

\* The driver offers as much as the ports may take, or, MaxIdle times, less.
Offering ==
  \/ Cycle(INGRESS_WIDTH) /\ UNCHANGED idle
  \/ /\ idle < MaxIdle
     /\ fed < Len(program)
     /\ \E n \in 0 .. INGRESS_WIDTH - 1 : Cycle(n)
     /\ idle' = idle + 1

\* A cycle after the HALT: the core stands still, its lanes do not.
HaltedCycle ==
  /\ core.halted
  /\ LanesTick([l \in AluLanes \cup LsuLanes |-> <<>>], FALSE)
  /\ UNCHANGED <<program, fed, idle, push, core, cycle>>

Init ==
  /\ program \in Programs
  /\ fed = 0 /\ idle = 0
  /\ push = [p \in Ports |-> <<>>]
  /\ core = InitCore /\ cycle = 0
  /\ alu = [l \in AluLanes |-> Alu!Idle] /\ lsu = [l \in LsuLanes |-> Lsu!Idle]
  /\ memory = [mem |-> InitMem, resp |-> [l \in LsuLanes |-> Lsu!NoResponse], undo |-> {}]

Next == Offering \/ HaltedCycle

Spec == Init /\ [][Next]_vars

-----------------------------------------------------------------------------
\* The valid entries of the reorder buffer, oldest first.
InFlight == [i \in 1 .. core.count |-> core.rob[(core.head + i - 1) % ROB_SIZE]]

\* The results waiting to be written back.
Results == UNION { Range(q) : q \in { alu[l].resultq : l \in AluLanes } \cup { lsu[l].resultq : l \in LsuLanes } }

\* The requests that a lane has taken and not finished.
Working == UNION ({ Alu!Holds(alu[l]) : l \in AluLanes } \cup { Lsu!Holds(lsu[l]) : l \in LsuLanes })

Waiting == { core.iq[i] : i \in { k \in 1 .. IQ_SIZE : core.iq[k].valid } }

\* Every renaming tag is in one place: free, in the map, or kept by the
\* instruction that will free it when it commits (lines 379-383, 436-444).
\* The ring of free tags so never overflows and never runs dry for good.
TagsShareOut ==
  LET kept   == { i \in DOMAIN core.rob : core.rob[i].valid /\ core.rob[i].hasDest }
      places == ({"free"} \X DOMAIN core.free) \cup ({"map"} \X (1 .. ARCH_REGS - 1))
                  \cup ({"rob"} \X kept)
      Tag(p) == CASE p[1] = "free" -> core.free[p[2]]
                  [] p[1] = "map"  -> core.map[p[2]]
                  [] p[1] = "rob"  -> core.rob[p[2]].old
  IN  /\ { Tag(p) : p \in places } = Tags \ {0}
      /\ \A p, q \in places : Tag(p) = Tag(q) => p = q

\* The reorder buffer is a ring of consecutive instructions from the oldest
\* that is not committed, and the issue queue holds as many as it counts
\* (lines 401-407 trust the counters).
CountersAgree ==
  /\ \A i \in 1 .. core.count : InFlight[i].valid /\ InFlight[i].seq = core.committed + i
  /\ core.tail = (core.head + core.count) % ROB_SIZE
  /\ core.iqCount = Cardinality(Waiting)

Unready == { e \in Range(InFlight) : ~ e.ready }

Places == << Waiting, Working, Results >>

\* What is in the issue queue, a lane or a result queue is filed under its
\* own entry of the reorder buffer, and is nowhere else.
FiledOnce ==
  /\ \A k \in DOMAIN Places : \A r \in Places[k] :
       core.rob[r.rob] \in Unready /\ core.rob[r.rob].seq = r.seq /\ core.rob[r.rob].dst = r.dst
  /\ \A j, k \in DOMAIN Places : \A r \in Places[j], s \in Places[k] :
       r.seq = s.seq => j = k /\ r = s

\* And each instruction of the ring that is not ready is in exactly one place:
\* the issue queue, a lane, or a result queue, filed under its own entry.
EntriesInOnePlace ==
  /\ CountersAgree
  /\ Cardinality(Waiting) + Cardinality(Working) + Cardinality(Results) = Cardinality(Unready)
  /\ FiledOnce

\* An operand that waits, waits for an older instruction that has still to
\* write the tag back; were it not so it would wait for ever, or be woken by
\* a later user of the tag (lines 302-309, 428-433).
WaitsForItsWriter ==
  \A e \in Waiting :
    /\ ~ e.ready1 => \E w \in Range(InFlight) : ~ w.ready /\ w.dst = e.tag1 /\ w.seq < e.seq
    /\ ~ e.ready2 => \E w \in Range(InFlight) : ~ w.ready /\ w.dst = e.tag2 /\ w.seq < e.seq

\* The registers and the memory as the committed instructions left them: a
\* register that instructions in flight write again is still in the tag the
\* oldest of them replaced, and what stores in flight replaced is undone.
ArchRegs ==
  [r \in 1 .. ARCH_REGS - 1 |->
     LET writers == { i \in 1 .. core.count : InFlight[i].hasDest /\ InFlight[i].rd = r }
     IN core.value[IF writers = {} THEN core.map[r] ELSE InFlight[Min(writers)].old]]

ArchMem ==
  [a \in DOMAIN memory.mem |->
     LET undos == { u \in memory.undo : u.addr = a }
     IN IF undos = {} THEN memory.mem[a]
        ELSE (CHOOSE u \in undos : \A v \in undos : u.seq <= v.seq).old]

\* The backend executes out of order and commits what in-order execution of
\* the program would have computed.
Sequential == INSTANCE InOrder WITH
  ArchRegs <- ARCH_REGS, RetireWidth <- COMMIT_WIDTH, pc <- core.committed,
  regs <- ArchRegs, mem <- ArchMem, halted <- core.halted

ImplementsInOrder == Sequential!Spec

\* The machine after the first n instructions of a program, in order.
Boot == [regs |-> [r \in 1 .. ARCH_REGS - 1 |-> 0], mem |-> InitMem, halted |-> FALSE]

InOrderAfter(prog, n) == Toy!Ran(Boot, prog, 0, n)

\* The address its instruction i uses if it is a load or a store.
Touches(prog, i) == Toy!Address(Toy!Read(InOrderAfter(prog, i - 1).regs, prog[i]))

\* What the tests' programs respect and the backend does not enforce: the
\* HALT is last, addresses are those of the memory, and a store is ROB_SIZE
\* instructions away from other accesses to its address, since the core does
\* not compare the addresses of what is in flight (lines 503-560).
Orderly(prog) ==
  /\ \A i \in 1 .. Len(prog) - 1 : prog[i].op # "HALT"
  /\ \A i \in DOMAIN prog : Toy!IsLsu(prog[i]) => Touches(prog, i) \in DOMAIN InitMem
  /\ \A i, j \in DOMAIN prog :
       /\ i < j /\ j < i + ROB_SIZE
       /\ Toy!IsLsu(prog[i]) /\ Toy!IsLsu(prog[j]) /\ "STORE" \in {prog[i].op, prog[j].op}
       => Touches(prog, i) # Touches(prog, j)

Sending(slot) == slot.valid /\ slot.phase = "send"
Polling(slot) == slot.valid /\ slot.phase = "sent"

\* The slots of a memory lane may have several requests under way, but each
\* takes its own answer: no slot polls after another has sent in the same
\* cycle, and the first that polls is the one that the response register
\* answers (LSUPipeline.hpp:117-146 looks at neither).
AnswersAreOwn ==
  \A l \in LsuLanes :
    /\ \A s, t \in 1 .. PIPE_SLOTS : Sending(lsu[l].slots[s]) /\ Polling(lsu[l].slots[t]) => t < s
    /\ \A t \in 1 .. PIPE_SLOTS :
         /\ memory.resp[l].valid /\ Polling(lsu[l].slots[t])
         /\ \A s \in 1 .. t - 1 : ~ Polling(lsu[l].slots[s])
         => memory.resp[l].seq = lsu[l].slots[t].req.seq

\* No port passes another: the ring, once the ports are drained, holds the
\* next instructions of the program, in its order (BackendCore.hpp:279-290).
IngressInOrder ==
  IsPrefix(Drained(push, core.ingress).ring, SubSeq(program, core.seq, Len(program)))

\* What is dispatched is the program, in its order: the instruction with the
\* number n is its n-th.
DispatchedInOrder ==
  \A e \in Range(InFlight) : e.op = program[e.seq].op /\ e.rd = program[e.seq].rd

\* The tests' loop ends: the HALT at the end of the program is committed
\* within their limit of cycles (test/MainNarrow.cpp:86-119), so no
\* instruction waits for ever, for an operand, a lane or a response.
HaltsInTime == cycle <= MaxCycles
=============================================================================
