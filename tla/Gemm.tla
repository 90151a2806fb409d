-------------------------------- MODULE Gemm --------------------------------
(***************************************************************************)
(* The multiplication path of the matrix unit, src/src/gemm/GEMMUnit.hpp,  *)
(* with a client that fires multiplications and sends their operands.      *)
(*                                                                         *)
(* A multiplication waits in the feeding register for its two operands,    *)
(* then in the ready slot of a lane; the product is added to the           *)
(* accumulator when it enters the first execution level, and the levels    *)
(* only count down the latency up to its retirement.  Operand buffers and  *)
(* accumulators are HELPER data and change at once, the rest is registers  *)
(* and changes at the commit.                                              *)
(***************************************************************************)
EXTENDS Integers, Sequences, FiniteSets

CONSTANTS
  Pacc,                     \* accumulator registers (8 in header/config.hpp)
  GEMM_LANE_SIZE,           \* lanes (4)
  TILE_SIZE,                \* cycles of each level but the last (32)
  GEMM_LAST_LEVEL_LATENCY,  \* cycles of the last level (8)
  NoPacc,                   \* in place of a cleared valid bit
  MaxInsts                  \* bound: multiplications the client fires

Lane == 1 .. GEMM_LANE_SIZE
Levels == 4     \* GEMM_EXEC_LEVELS
Level == 1 .. Levels
Operand == {"A", "B"}

ASSUME SizesAssumption ==
  /\ GEMM_LANE_SIZE \in Nat \ {0} /\ TILE_SIZE \in Nat \ {0} /\ MaxInsts \in Nat
  /\ GEMM_LAST_LEVEL_LATENCY \in Nat \ {0}
ASSUME NoPaccAssumption == NoPacc \notin Pacc
\* header/config.hpp: 8 cycles of 32.
ASSUME LatencyAssumption == GEMM_LAST_LEVEL_LATENCY <= TILE_SIZE

VARIABLES
  feeding,       \* the feeding register
  next_feeding,  \* its next value ...
  written,       \* ... and whether a service has set it in this cycle
  ready_slot,    \* accumulator of the multiplication that waits in each lane
  exec_slot,     \* exec1_slot to exec4_slot, per lane
  gemm_acc_cooldown,
  inputBuffer,   \* the operand tiles received last
  laneBuffer,    \* the operand tiles of each lane
  paccs,         \* products in each accumulator, in the order of addition
  retired,       \* calls of retirePAcc, per accumulator
  insts,         \* the client: accumulator of each multiplication it fired,
  owed           \* and the operands it has still to send for the last one

regs == <<feeding, next_feeding, written, ready_slot, exec_slot, gemm_acc_cooldown>>
data == <<inputBuffer, laneBuffer, paccs, retired>>
client == <<insts, owed>>
vars == <<regs, data, client>>

-----------------------------------------------------------------------------

\* zero_gemm_inst and zero_pipe_slot
NoInst == [pacc |-> NoPacc, got |-> {}]
NoSlot == [pacc |-> NoPacc, remain |-> 0]

Free(slot) == slot.pacc = NoPacc
Ended(slot) == slot.pacc # NoPacc /\ slot.remain = 0

Lowest(S) == CHOOSE i \in S : \A j \in S : i <= j

\* An operand tile is the number of the multiplication it was sent for; 0 is
\* what the buffers hold before.
NoTiles == [o \in Operand |-> 0]

Init ==
  /\ feeding = NoInst /\ next_feeding = NoInst /\ written = FALSE
  /\ ready_slot = [i \in Lane |-> NoPacc]
  /\ exec_slot = [i \in Lane |-> [s \in Level |-> NoSlot]]
  /\ gemm_acc_cooldown = 0
  /\ inputBuffer = NoTiles /\ laneBuffer = [i \in Lane |-> NoTiles]
  /\ paccs = [p \in Pacc |-> <<>>] /\ retired = [p \in Pacc |-> 0]
  /\ insts = <<>> /\ owed = {}

-----------------------------------------------------------------------------
(* Services.                                                               *)

gemmFeedingReady == Free(feeding)

SetFeeding(inst) == next_feeding' = inst /\ written' = TRUE

s0FireGemmInst(p) ==
  /\ gemmFeedingReady
  /\ SetFeeding([pacc |-> p, got |-> {}])
  /\ UNCHANGED <<feeding, ready_slot, exec_slot, gemm_acc_cooldown, data>>

\* An operand that comes while nothing feeds is dropped.
s1s2MemInput(o, tile) ==
  IF Free(feeding)
  THEN UNCHANGED <<regs, data>>
  ELSE /\ inputBuffer' = [inputBuffer EXCEPT ![o] = tile]
       /\ SetFeeding([feeding EXCEPT !.got = @ \cup {o}])
       /\ UNCHANGED <<feeding, ready_slot, exec_slot, gemm_acc_cooldown,
                      laneBuffer, paccs, retired>>

-----------------------------------------------------------------------------
(* The tick.                                                               *)

\* Lanes whose last level has run out; one of them is retired.
Finished == { i \in Lane : Ended(exec_slot[i][Levels]) }
Retires(i) == i \in Finished /\ i = Lowest(Finished)

\* Levels are served from the last to the first, so a level moves on when the
\* next one is free or has just been left.
Leaves(i, s) ==
  \E t \in s .. Levels :
    /\ \A u \in s .. t : Ended(exec_slot[i][u])
    /\ IF t = Levels THEN Retires(i) ELSE Free(exec_slot[i][t + 1])

\* The cooldown after this cycle's decrement.
Cooled == IF gemm_acc_cooldown > 0 THEN gemm_acc_cooldown - 1 ELSE 0

Startable ==
  { i \in Lane : /\ Cooled = 0
                 /\ ready_slot[i] # NoPacc
                 /\ Free(exec_slot[i][1]) \/ Leaves(i, 1) }
Starts(i) == i \in Startable /\ i = Lowest(Startable)

\* Mutant: one operand is enough (line 691).
FedByOne == feeding.pacc # NoPacc /\ feeding.got # {}

\* The feeding multiplication has both operands.
Fed == feeding.pacc # NoPacc /\ feeding.got = Operand

\* Mutant: an occupied lane is taken (line 693).
OpenLanesAll == Lane

\* Lanes that can take it: the one that starts now is free again.
OpenLanes == { i \in Lane : ready_slot[i] = NoPacc \/ Starts(i) }
Takes(i) == Fed /\ i \in OpenLanes /\ i = Lowest(OpenLanes)

\* execute_gemm_lane adds the lane's product.  The operands are copied to the
\* lane afterwards, in the same tick.
Accumulate(lane) ==
  paccs' = [paccs EXCEPT ![ready_slot[lane]] = Append(@, laneBuffer[lane])]

\* Mutant: the retirement is reported when a lane takes the multiplication
\* (line 624).
RetiredNextEarly ==
  IF \E i \in Lane : Takes(i) THEN [retired EXCEPT ![feeding.pacc] = @ + 1] ELSE retired

\* Calls of retirePAcc.
RetiredNext ==
  IF Finished = {} THEN retired
  ELSE [retired EXCEPT ![exec_slot[Lowest(Finished)][Levels].pacc] = @ + 1]

\* What a tick does at once: data and calls.
TickData ==
  /\ IF Startable = {} THEN UNCHANGED paccs ELSE Accumulate(Lowest(Startable))
  /\ laneBuffer' = [i \in Lane |-> IF Takes(i) THEN inputBuffer ELSE laneBuffer[i]]
  /\ retired' = RetiredNext
  /\ UNCHANGED inputBuffer

\* Mutant: the second level takes one cycle more (line 659).
LatencyLong(s) == IF s = Levels THEN GEMM_LAST_LEVEL_LATENCY
                  ELSE IF s = 2 THEN TILE_SIZE + 1 ELSE TILE_SIZE

Latency(s) == IF s = Levels THEN GEMM_LAST_LEVEL_LATENCY ELSE TILE_SIZE

\* Mutant: a retired slot is not cleared (line 625).
NextExecKept(i, s) ==
  IF s = 1 /\ Starts(i) THEN [pacc |-> ready_slot[i], remain |-> Latency(s) - 1]
  ELSE IF s > 1 /\ Leaves(i, s - 1)
    THEN [pacc |-> exec_slot[i][s - 1].pacc, remain |-> Latency(s) - 1]
  ELSE IF s < Levels /\ Leaves(i, s) THEN NoSlot
  ELSE [exec_slot[i][s] EXCEPT !.remain = IF @ > 0 THEN @ - 1 ELSE 0]

\* A level receives what the level before it gives up, is left, or counts.
NextExec(i, s) ==
  IF s = 1 /\ Starts(i) THEN [pacc |-> ready_slot[i], remain |-> Latency(s) - 1]
  ELSE IF s > 1 /\ Leaves(i, s - 1)
    THEN [pacc |-> exec_slot[i][s - 1].pacc, remain |-> Latency(s) - 1]
  ELSE IF Leaves(i, s) THEN NoSlot
  ELSE [exec_slot[i][s] EXCEPT !.remain = IF @ > 0 THEN @ - 1 ELSE 0]

\* The values the registers take at the end of the cycle.
Commit ==
  /\ feeding' = IF \E i \in Lane : Takes(i) THEN NoInst ELSE next_feeding
  /\ next_feeding' = feeding'
  /\ written' = FALSE
  /\ ready_slot' = [i \in Lane |-> IF Takes(i) THEN feeding.pacc
                                   ELSE IF Starts(i) THEN NoPacc ELSE ready_slot[i]]
  /\ exec_slot' = [i \in Lane |-> [s \in Level |-> NextExec(i, s)]]
  /\ gemm_acc_cooldown' = IF Startable = {} THEN Cooled ELSE 2

Tick == TickData /\ Commit /\ UNCHANGED client

-----------------------------------------------------------------------------
(* The client: one call in a cycle that writes the feeding register, as    *)
(* the write port demands; each operand once, after the cycle of the fire, *)
(* in either order.                                                        *)

Fire(p) ==
  /\ Len(insts) < MaxInsts /\ ~ written
  /\ s0FireGemmInst(p)
  /\ insts' = Append(insts, p) /\ owed' = Operand

MemInput(o) ==
  /\ o \in owed /\ ~ written
  /\ s1s2MemInput(o, Len(insts))
  /\ owed' = owed \ {o}
  /\ UNCHANGED insts

Next ==
  \/ \E p \in Pacc : Fire(p)
  \/ \E o \in Operand : MemInput(o)
  \/ Tick

\* The clock does not stop.
Fairness == WF_vars(Tick)

Spec == Init /\ [][Next]_vars
FairSpec == Spec /\ Fairness

-----------------------------------------------------------------------------

Slot == [pacc : Pacc \cup {NoPacc}, remain : Nat]
Inst == [pacc : Pacc \cup {NoPacc}, got : SUBSET Operand]
Tiles == [Operand -> Nat]

\* Every variable holds a value of its type; a level never has more cycles
\* left than it takes.
TypeOK ==
  /\ feeding \in Inst /\ next_feeding \in Inst /\ written \in BOOLEAN
  /\ ready_slot \in [Lane -> Pacc \cup {NoPacc}]
  /\ exec_slot \in [Lane -> [Level -> Slot]]
  /\ \A i \in Lane, s \in Level : exec_slot[i][s].remain < Latency(s)
  /\ gemm_acc_cooldown \in 0 .. 2
  /\ inputBuffer \in Tiles /\ laneBuffer \in [Lane -> Tiles]
  /\ paccs \in [Pacc -> Seq(Tiles)] /\ retired \in [Pacc -> Nat]
  /\ insts \in Seq(Pacc) /\ owed \subseteq Operand

\* The feeding register has one write port (its assertion is in
\* storage.hpp): the tick never empties it in a cycle in which a service has
\* written it.
FeedingWrittenOnce == written => ~ \E i \in Lane : Takes(i)

\* Levels never wait for one another and no two lanes retire in one cycle,
\* although one retirement per cycle is all the tick can make: a level that
\* has run out is left at once (lines 621 to 667).  So every multiplication is
\* retired 3 * TILE_SIZE + GEMM_LAST_LEVEL_LATENCY cycles after it starts.
NeverStalls ==
  \A i \in Lane, s \in Level : Ended(exec_slot[i][s]) => Leaves(i, s)

M == INSTANCE MatMul WITH sums <- paccs

\* Every multiplication uses its own operands, once, in spite of the shared
\* input buffers and the lanes overtaking one another, and is retired once,
\* after it was added.
ImplementsMatMul == M!Spec

\* Whatever has both operands is retired in the end.
EverythingRetires ==
  []<>(owed # {} \/ \A p \in Pacc :
         retired[p] = Cardinality({ k \in DOMAIN insts : insts[k] = p }))
=============================================================================
