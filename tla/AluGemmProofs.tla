---------------------------- MODULE AluGemmProofs ----------------------------
(***************************************************************************)
(* Proofs about AluGemm, for every number of lanes, chunks, temporaries    *)
(* and accumulators, every latency and every program.                      *)
(*                                                                         *)
(* The invariant has three parts: what Gemm guarantees, seen at the commit *)
(* (B); the instruction in flight (InstInv); and the ACCGET in flight, of  *)
(* which each unit knows a half (GetInv).                                  *)
(***************************************************************************)
EXTENDS AluGemm, RanksProofs

-----------------------------------------------------------------------------
(* The matrix unit.  Its tick changes data first and registers at the      *)
(* commit; seen from Gemm it is over when the data has changed.            *)

feedingNow == IF \E i \in G!Lane : G!Takes(i) THEN G!NoInst ELSE next_feeding

feedingBar == IF "gemm" \in ticked THEN feedingNow ELSE feeding
nextFeedingBar == IF "gemm" \in ticked THEN feedingNow ELSE next_feeding
writtenBar == IF "gemm" \in ticked THEN FALSE ELSE written
readySlotBar ==
  IF "gemm" \in ticked
  THEN [i \in G!Lane |-> IF G!Takes(i) THEN feeding.pacc
                         ELSE IF G!Starts(i) THEN NoPacc ELSE ready_slot[i]]
  ELSE ready_slot
execSlotBar ==
  IF "gemm" \in ticked
  THEN [i \in G!Lane |-> [s \in G!Level |-> G!NextExec(i, s)]]
  ELSE exec_slot
cooldownBar ==
  IF "gemm" \in ticked THEN IF G!Startable = {} THEN G!Cooled ELSE 2
                       ELSE gemm_acc_cooldown

B == INSTANCE GemmProofs WITH
  feeding <- feedingBar, next_feeding <- nextFeedingBar, written <- writtenBar,
  ready_slot <- readySlotBar, exec_slot <- execSlotBar, gemm_acc_cooldown <- cooldownBar

-----------------------------------------------------------------------------
(* The instruction in flight.                                              *)

InFlightInst == alu.stage # "idle"

\* What a source that is no temporary is, when all its planes have come.
PlanesOf(s, came) ==
  <<[b \in A!Byte |-> IF <<s, b>> \in came THEN <<alu.n, s, b>> ELSE A!Zero]>>

UsedSource(s) == s = 1 \/ alu.inst.binary

\* The planes that have come and those that are owed are what it needs.
PlanesInv ==
  /\ alu.stage # "wait" => planes = {}
  /\ alu.stage = "wait" =>
       /\ alu.valid \cup planes = A!Needs(alu.inst)
       /\ alu.valid \cap planes = {}

\* Its sources are those of the result it owes.
SourceInv ==
  alu.stage = "wait" =>
    /\ want.inst = <<want.inst[1], want.inst[2], want.inst[3]>>
    /\ DOMAIN alu.src = 1 .. 2
    /\ \A s \in 1 .. 2 :
         IF UsedSource(s)
         THEN IF alu.inst.rs[s].kind = "temp"
              THEN want.inst[s] = alu.src[s]
              ELSE /\ want.inst[s] = PlanesOf(s, A!Planes(alu.inst, s))
                   /\ alu.src[s] = PlanesOf(s, alu.valid)
         ELSE want.inst[s] = A!Zero
    /\ want.inst[3] = IF alu.inst.masked THEN <<alu.n, 3, 0>> ELSE A!Zero
    /\ alu.mask = IF <<3, 0>> \in alu.valid THEN <<alu.n, 3, 0>> ELSE A!Zero

\* Where it is.
StageInv ==
  /\ alu.stage \in {"idle", "wait", "exec", "wb", "retire"}
  /\ DOMAIN alu = {"stage", "inst", "n", "src", "valid", "mask", "result", "remain", "wb_byte"}
  /\ InFlightInst => alu.inst \in AluInst /\ alu.n = fired /\ fired > 0
  /\ alu.stage \in {"exec", "wb"} => alu.result = want.inst
  /\ alu.stage = "wb" => A!WritesBack /\ alu.wb_byte \in 0 .. A!WbBytes - 1
  /\ alu.stage \in {"wait", "exec"} => alu.wb_byte = 0
  /\ alu.stage = "retire" /\ ~ A!WritesBack => alu.wb_byte = 0
  /\ alu.stage = "retire" /\ A!ToTemp =>
       alu_temps[alu.inst.rd.temp] = [c \in A!Chunk |-> Append(want.inst, c)]

InstInv ==
  /\ fired \in 0 .. MaxFired
  /\ alu_temps = [t \in Temp |-> [c \in A!Chunk |-> alu_temps[t][c]]]
  /\ want = [inst |-> want.inst, get |-> want.get]
  /\ PlanesInv /\ SourceInv /\ StageInv

-----------------------------------------------------------------------------
(* The ACCGET in flight.                                                   *)

NoneOut == \A i \in P!OutSlot : ~ out[i].valid

\* What has been sent to the matrix unit and what it has taken.
Fired ==
  /\ call.kind = "fire" /\ "alu" \in ticked
  /\ call.pacc = acc.meta.pacc /\ call.ptemp = acc.meta.rd
  /\ ~ accget.busy /\ acc.lane = 0 /\ acc.retire = <<>>

Feeds ==
  /\ call.kind = "input" /\ "alu" \in ticked
  /\ accget.count < ACCGET_CHUNKS /\ acc.lane = accget.count + 1
  /\ call.slot \in P!OutSlot /\ ~ out[call.slot].valid
  /\ call.chunk = accget.count /\ call.data = want.get[accget.count]
  /\ acc.retire = <<>>

Waits == call.kind = "none" /\ acc.lane = accget.count

Taking ==
  /\ accget.busy /\ accget.pacc = acc.meta.pacc /\ accget.ptemp = acc.meta.rd
  /\ DOMAIN accget = {"busy", "accepting", "count", "pacc", "ptemp"}
  /\ accget.count \in 0 .. ACCGET_CHUNKS
  /\ accget.accepting <=> accget.count < ACCGET_CHUNKS
  /\ Feeds \/ Waits

Given ==
  /\ ~ accget.busy /\ call.kind = "none" /\ acc.retire # <<>>

HalvesInv ==
  /\ call.kind \in {"none", "fire", "input"}
  /\ "alu" \notin ticked => call.kind = "none"
  /\ ~ acc.busy =>
       /\ acc.retire = <<>> /\ call.kind = "none" /\ NoneOut
       /\ accget.busy => ticked = {"alu", "gemm"} /\ ~ accget.accepting
  /\ acc.busy /\ ~ acc.started =>
       ~ accget.busy /\ acc.lane = 0 /\ acc.retire = <<>> /\ call.kind = "none"
  /\ acc.busy /\ acc.started => Fired \/ Taking \/ Given
  /\ ~ accget.busy => NoneOut

\* A chunk that was taken is in a slot or back in the temporary.
Returned(c) == alu_temps[acc.meta.rd][c] = want.get[c]

ChunksInv ==
  /\ \A i \in P!OutSlot : out[i].valid =>
       /\ DOMAIN out[i] = {"valid", "ptemp", "chunk", "remain", "data"}
       /\ out[i].ptemp = acc.meta.rd /\ out[i].chunk \in 0 .. accget.count - 1
       /\ out[i].data = want.get[out[i].chunk]
       /\ \A j \in P!OutSlot : out[j].valid /\ out[i].chunk = out[j].chunk => i = j
  /\ acc.busy /\ accget.busy =>
       \A c \in 0 .. accget.count - 1 :
         Returned(c) \/ \E i \in P!OutSlot : out[i].valid /\ out[i].chunk = c
  /\ "gemm" \in ticked /\ P!DueOuts # {} => Returned(out[P!Lowest(P!DueOuts)].chunk)
  /\ acc.busy /\ "gemm" \in ticked /\ P!Ends => acc.retire # <<>>
  /\ acc.retire # <<>> =>
       /\ acc.started /\ acc.lane = ACCGET_CHUNKS /\ call.kind = "none"
       /\ acc.retire = <<acc.meta.rd>> /\ NoneOut
       /\ \A c \in A!Chunk : Returned(c)
       /\ accget.busy => "gemm" \in ticked /\ accget.count = ACCGET_CHUNKS

\* What is still to be sent is as it was at the start.
SumsInv ==
  acc.busy =>
    /\ acc.meta \in Meta
    /\ DOMAIN acc = {"busy", "started", "lane", "retire", "meta"}
    /\ acc.lane \in 0 .. ACCGET_CHUNKS
    /\ want.get = [c \in A!Chunk |-> want.get[c]]
    /\ \A c \in A!Chunk : c >= acc.lane =>
         want.get[c] = <<paccs[acc.meta.pacc], alu_temps[acc.meta.rs][c]>>
    /\ InFlightInst => Apart(alu.inst, acc.meta)

AccType ==
  /\ ticked \subseteq {"alu", "gemm"}
  /\ acc.busy \in BOOLEAN /\ acc.started \in BOOLEAN /\ accget.busy \in BOOLEAN
  /\ accget.busy => accget.accepting \in BOOLEAN
  /\ DOMAIN out = P!OutSlot /\ \A i \in P!OutSlot : out[i].valid \in BOOLEAN

GetInv == AccType /\ HalvesInv /\ ChunksInv /\ SumsInv /\ AccumulatorComplete

IInv == B!GemmInv /\ B!SumsOwn /\ InstInv /\ GetInv

-----------------------------------------------------------------------------
(* A step of the two units is a step of the matrix unit, or none.          *)

\* Before the data changes both see the same registers.
LEMMA BarBefore ==
  ASSUME "gemm" \notin ticked
  PROVE  /\ feedingBar = feeding /\ nextFeedingBar = next_feeding /\ writtenBar = written
         /\ readySlotBar = ready_slot /\ execSlotBar = exec_slot
         /\ cooldownBar = gemm_acc_cooldown
  BY DEF feedingBar, nextFeedingBar, writtenBar, readySlotBar, execSlotBar, cooldownBar

\* After it Gemm sees what the registers take at the commit.
LEMMA BarAfter ==
  ASSUME "gemm" \in ticked
  PROVE  /\ feedingBar = feedingNow /\ nextFeedingBar = feedingNow /\ writtenBar = FALSE
         /\ readySlotBar = [i \in G!Lane |-> IF G!Takes(i) THEN feeding.pacc
                              ELSE IF G!Starts(i) THEN NoPacc ELSE ready_slot[i]]
         /\ execSlotBar = [i \in G!Lane |-> [s \in G!Level |-> G!NextExec(i, s)]]
         /\ cooldownBar = IF G!Startable = {} THEN G!Cooled ELSE 2
  BY DEF feedingBar, nextFeedingBar, writtenBar, readySlotBar, execSlotBar, cooldownBar

\* The operators of the tick depend on the registers only.
LEMMA SameLanes ==
  ASSUME "gemm" \notin ticked
  PROVE  /\ B!Lane = G!Lane /\ B!Level = G!Level /\ B!NoInst = G!NoInst
         /\ B!Finished = G!Finished /\ B!Startable = G!Startable
         /\ B!OpenLanes = G!OpenLanes /\ B!Cooled = G!Cooled
         /\ \A i : (B!Takes(i) <=> G!Takes(i)) /\ (B!Starts(i) <=> G!Starts(i))
         /\ \A i, s : B!NextExec(i, s) = G!NextExec(i, s)
         /\ \A S : B!Lowest(S) = G!Lowest(S)
<1>1. /\ feedingBar = feeding /\ nextFeedingBar = next_feeding /\ writtenBar = written
      /\ readySlotBar = ready_slot /\ execSlotBar = exec_slot
      /\ cooldownBar = gemm_acc_cooldown
  BY BarBefore
<1>2. /\ B!Lane = G!Lane /\ B!Level = G!Level /\ B!Levels = G!Levels
      /\ B!NoInst = G!NoInst /\ B!NoSlot = G!NoSlot /\ B!Operand = G!Operand
  BY DEF B!Lane, G!Lane, B!Level, G!Level, B!Levels, G!Levels, B!NoInst, G!NoInst,
         B!NoSlot, G!NoSlot, B!Operand, G!Operand
<1>3. \A S : B!Lowest(S) = G!Lowest(S)
  BY DEF B!Lowest, G!Lowest
<1>4. \A x : (B!Ended(x) <=> G!Ended(x)) /\ (B!Free(x) <=> G!Free(x))
  BY DEF B!Ended, G!Ended, B!Free, G!Free
<1>5. B!Finished = G!Finished
  BY <1>1, <1>2, <1>4 DEF B!Finished, G!Finished
<1>6. \A i : B!Retires(i) <=> G!Retires(i)
  BY <1>3, <1>5 DEF B!Retires, G!Retires
<1>7. \A i, s : B!Leaves(i, s) <=> G!Leaves(i, s)
  BY <1>1, <1>2, <1>4, <1>6 DEF B!Leaves, G!Leaves
<1>8. B!Cooled = G!Cooled
  BY <1>1 DEF B!Cooled, G!Cooled
<1>9. B!Startable = G!Startable
  BY <1>1, <1>2, <1>4, <1>7, <1>8 DEF B!Startable, G!Startable
<1>10. \A i : B!Starts(i) <=> G!Starts(i)
  BY <1>3, <1>9 DEF B!Starts, G!Starts
<1>11. B!Fed <=> G!Fed
  BY <1>1, <1>2 DEF B!Fed, G!Fed
<1>12. B!OpenLanes = G!OpenLanes
  BY <1>1, <1>2, <1>10 DEF B!OpenLanes, G!OpenLanes
<1>13. \A i : B!Takes(i) <=> G!Takes(i)
  BY <1>3, <1>11, <1>12 DEF B!Takes, G!Takes
<1>14. \A s : B!Latency(s) = G!Latency(s)
  BY <1>2 DEF B!Latency, G!Latency
<1>15. \A i, s : B!NextExec(i, s) = G!NextExec(i, s)
  BY <1>1, <1>2, <1>7, <1>10, <1>14 DEF B!NextExec, G!NextExec
<1> QED
  BY <1>2, <1>3, <1>5, <1>8, <1>9, <1>10, <1>12, <1>13, <1>15

\* They stay as long as the registers do.
LEMMA LanesKept ==
  ASSUME UNCHANGED gemmRegs
  PROVE  /\ G!Startable' = G!Startable /\ G!Cooled' = G!Cooled
         /\ feedingNow' = feedingNow
         /\ \A i : (G!Takes(i)' <=> G!Takes(i)) /\ (G!Starts(i)' <=> G!Starts(i))
         /\ \A i, s : G!NextExec(i, s)' = G!NextExec(i, s)
<1>1. /\ feeding' = feeding /\ next_feeding' = next_feeding /\ ready_slot' = ready_slot
      /\ exec_slot' = exec_slot /\ gemm_acc_cooldown' = gemm_acc_cooldown
  BY DEF gemmRegs
<1>2. G!Finished' = G!Finished
  BY <1>1 DEF G!Finished, G!Ended, G!Levels, G!Lane
<1>3. \A i : G!Retires(i)' <=> G!Retires(i)
  BY <1>2 DEF G!Retires, G!Lowest
<1>4. \A i, s : G!Leaves(i, s)' <=> G!Leaves(i, s)
  BY <1>1, <1>3 DEF G!Leaves, G!Ended, G!Free, G!Levels
<1>5. G!Cooled' = G!Cooled
  BY <1>1 DEF G!Cooled
<1>6. G!Startable' = G!Startable
  BY <1>1, <1>4, <1>5 DEF G!Startable, G!Free, G!Lane
<1>7. \A i : G!Starts(i)' <=> G!Starts(i)
  BY <1>6 DEF G!Starts, G!Lowest
<1>8. G!Fed' <=> G!Fed
  BY <1>1 DEF G!Fed, G!Operand
<1>9. G!OpenLanes' = G!OpenLanes
  BY <1>1, <1>7 DEF G!OpenLanes, G!Lane
<1>10. \A i : G!Takes(i)' <=> G!Takes(i)
  BY <1>8, <1>9 DEF G!Takes, G!Lowest
<1>11. \A i, s : G!NextExec(i, s)' = G!NextExec(i, s)
  BY <1>1, <1>4, <1>7 DEF G!NextExec, G!Latency, G!Levels, G!NoSlot
<1>12. feedingNow' = feedingNow
  BY <1>1, <1>10 DEF feedingNow, G!Lane, G!NoInst
<1> QED
  BY <1>5, <1>6, <1>7, <1>10, <1>11, <1>12

\* Before the units tick, the calls of the back end are those Gemm knows.
LEMMA ServicesAreGemms ==
  ASSUME "gemm" \notin ticked, "gemm" \notin ticked'
  PROVE  /\ \A p \in Pacc : G!Fire(p) => B!Fire(p)
         /\ \A o \in G!Operand : G!MemInput(o) => B!MemInput(o)
         /\ UNCHANGED gemm => UNCHANGED B!vars
<1>1. /\ feedingBar = feeding /\ nextFeedingBar = next_feeding /\ writtenBar = written
      /\ readySlotBar = ready_slot /\ execSlotBar = exec_slot
      /\ cooldownBar = gemm_acc_cooldown
  BY BarBefore
<1>2. /\ feedingBar' = feeding' /\ nextFeedingBar' = next_feeding' /\ writtenBar' = written'
      /\ readySlotBar' = ready_slot' /\ execSlotBar' = exec_slot'
      /\ cooldownBar' = gemm_acc_cooldown'
  BY DEF feedingBar, nextFeedingBar, writtenBar, readySlotBar, execSlotBar, cooldownBar
<1>3. ASSUME NEW p \in Pacc, G!Fire(p)
      PROVE  B!Fire(p)
  BY <1>1, <1>2, <1>3
     DEF G!Fire, G!s0FireGemmInst, G!gemmFeedingReady, G!SetFeeding, G!Free, G!Operand, G!data,
         B!Fire, B!s0FireGemmInst, B!gemmFeedingReady, B!SetFeeding, B!Free, B!Operand, B!data
<1>4. ASSUME NEW o \in G!Operand, G!MemInput(o)
      PROVE  B!MemInput(o)
  BY <1>1, <1>2, <1>4
     DEF G!MemInput, G!s1s2MemInput, G!SetFeeding, G!Free, G!data, G!regs,
         B!MemInput, B!s1s2MemInput, B!SetFeeding, B!Free, B!data, B!regs
<1>5. UNCHANGED gemm => UNCHANGED B!vars
  BY <1>1, <1>2 DEF gemm, gemmRegs, gemmData, gemmClient, B!vars, B!regs, B!data, B!client
<1> QED
  BY <1>3, <1>4, <1>5

\* The tick of the ALU is nothing to the matrix unit.
LEMMA GemmUntouched ==
  ASSUME UNCHANGED gemm, "gemm" \in ticked <=> "gemm" \in ticked'
  PROVE  UNCHANGED B!vars
<1>1. CASE "gemm" \notin ticked
  BY <1>1, ServicesAreGemms
<1>2. CASE "gemm" \in ticked
  <2>1. UNCHANGED gemmRegs
    BY DEF gemm
  <2>2. /\ feedingBar = feedingNow /\ nextFeedingBar = feedingNow /\ writtenBar = FALSE
        /\ readySlotBar = [i \in G!Lane |-> IF G!Takes(i) THEN feeding.pacc
                             ELSE IF G!Starts(i) THEN NoPacc ELSE ready_slot[i]]
        /\ execSlotBar = [i \in G!Lane |-> [s \in G!Level |-> G!NextExec(i, s)]]
        /\ cooldownBar = IF G!Startable = {} THEN G!Cooled ELSE 2
    BY <1>2, BarAfter
  <2>3. /\ feeding' = feeding /\ ready_slot' = ready_slot
        /\ feedingNow' = feedingNow
        /\ G!Startable' = G!Startable /\ G!Cooled' = G!Cooled
        /\ \A i : (G!Takes(i)' <=> G!Takes(i)) /\ (G!Starts(i)' <=> G!Starts(i))
        /\ \A i, s : G!NextExec(i, s)' = G!NextExec(i, s)
    BY <2>1, LanesKept DEF gemmRegs
  <2>4. /\ feedingBar' = feedingNow' /\ nextFeedingBar' = feedingNow' /\ writtenBar' = FALSE
        /\ readySlotBar' = [i \in G!Lane |-> IF G!Takes(i)' THEN feeding'.pacc
                              ELSE IF G!Starts(i)' THEN NoPacc ELSE ready_slot'[i]]
        /\ execSlotBar' = [i \in G!Lane |-> [s \in G!Level |-> G!NextExec(i, s)']]
        /\ cooldownBar' = IF G!Startable' = {} THEN G!Cooled' ELSE 2
    BY <1>2 DEF feedingBar, nextFeedingBar, writtenBar, readySlotBar, execSlotBar, cooldownBar
  <2>5. readySlotBar' = readySlotBar /\ execSlotBar' = execSlotBar
    BY <2>2, <2>3, <2>4
  <2>6. /\ feedingBar' = feedingBar /\ nextFeedingBar' = nextFeedingBar
        /\ writtenBar' = writtenBar /\ cooldownBar' = cooldownBar
    BY <2>2, <2>3, <2>4
  <2> QED
    BY <2>5, <2>6 DEF gemm, gemmData, gemmClient, B!vars, B!regs, B!data, B!client
<1> QED
  BY <1>1, <1>2

\* The tick of the matrix unit is the tick Gemm describes.
LEMMA TickIsGemms ==
  ASSUME GemmTick
  PROVE  B!Tick
<1>1. "gemm" \notin ticked /\ "gemm" \in ticked' /\ UNCHANGED gemmRegs /\ UNCHANGED gemmClient
  BY DEF GemmTick
<1>2. /\ feedingBar = feeding /\ nextFeedingBar = next_feeding /\ writtenBar = written
      /\ readySlotBar = ready_slot /\ execSlotBar = exec_slot
      /\ cooldownBar = gemm_acc_cooldown
  BY <1>1, BarBefore
<1>3. /\ B!Lane = G!Lane /\ B!Level = G!Level /\ B!NoInst = G!NoInst
      /\ B!Finished = G!Finished /\ B!Startable = G!Startable
      /\ B!OpenLanes = G!OpenLanes /\ B!Cooled = G!Cooled
      /\ \A i : (B!Takes(i) <=> G!Takes(i)) /\ (B!Starts(i) <=> G!Starts(i))
      /\ \A i, s : B!NextExec(i, s) = G!NextExec(i, s)
      /\ \A S : B!Lowest(S) = G!Lowest(S)
  BY <1>1, SameLanes
<1>4. /\ feeding' = feeding /\ ready_slot' = ready_slot
      /\ feedingNow' = feedingNow
      /\ G!Startable' = G!Startable /\ G!Cooled' = G!Cooled
      /\ \A i : (G!Takes(i)' <=> G!Takes(i)) /\ (G!Starts(i)' <=> G!Starts(i))
      /\ \A i, s : G!NextExec(i, s)' = G!NextExec(i, s)
  BY <1>1, LanesKept DEF gemmRegs
<1>5. B!TickData
  <2>1. G!TickData
    BY DEF GemmTick
  <2>2. B!RetiredNext = G!RetiredNext
    BY <1>2, <1>3 DEF B!RetiredNext, G!RetiredNext, B!Levels, G!Levels
  <2>3. \A i : B!Accumulate(i) <=> G!Accumulate(i)
    BY <1>2 DEF B!Accumulate, G!Accumulate
  <2> QED
    BY <1>3, <2>1, <2>2, <2>3 DEF B!TickData, G!TickData
<1>6. B!Commit
  <2>1. /\ feedingBar' = feedingNow' /\ nextFeedingBar' = feedingNow' /\ writtenBar' = FALSE
        /\ readySlotBar' = [i \in G!Lane |-> IF G!Takes(i)' THEN feeding'.pacc
                              ELSE IF G!Starts(i)' THEN NoPacc ELSE ready_slot'[i]]
        /\ execSlotBar' = [i \in G!Lane |-> [s \in G!Level |-> G!NextExec(i, s)']]
        /\ cooldownBar' = IF G!Startable' = {} THEN G!Cooled' ELSE 2
    BY <1>1 DEF feedingBar, nextFeedingBar, writtenBar, readySlotBar, execSlotBar, cooldownBar
  <2>2. readySlotBar' = [i \in B!Lane |-> IF B!Takes(i) THEN feedingBar.pacc
                           ELSE IF B!Starts(i) THEN NoPacc ELSE readySlotBar[i]]
    BY <1>2, <1>3, <1>4, <2>1
  <2>3. execSlotBar' = [i \in B!Lane |-> [s \in B!Level |-> B!NextExec(i, s)]]
    BY <1>3, <1>4, <2>1
  <2>4. feedingBar' = IF \E i \in B!Lane : B!Takes(i) THEN B!NoInst ELSE nextFeedingBar
    BY <1>2, <1>3, <1>4, <2>1 DEF feedingNow
  <2>5. cooldownBar' = IF B!Startable = {} THEN B!Cooled ELSE 2
    BY <1>3, <1>4, <2>1
  <2> QED
    BY <2>1, <2>2, <2>3, <2>4, <2>5 DEF B!Commit
<1> QED
  BY <1>1, <1>5, <1>6 DEF B!Tick, B!client, gemmClient

\* The commit brings the registers to where Gemm has them already.
LEMMA CommitIsNothing ==
  ASSUME Commit
  PROVE  UNCHANGED B!vars
<1>1. "gemm" \in ticked /\ "gemm" \notin ticked' /\ G!Commit
  BY DEF Commit
<1>2. /\ feedingBar = feedingNow /\ nextFeedingBar = feedingNow /\ writtenBar = FALSE
      /\ readySlotBar = [i \in G!Lane |-> IF G!Takes(i) THEN feeding.pacc
                           ELSE IF G!Starts(i) THEN NoPacc ELSE ready_slot[i]]
      /\ execSlotBar = [i \in G!Lane |-> [s \in G!Level |-> G!NextExec(i, s)]]
      /\ cooldownBar = IF G!Startable = {} THEN G!Cooled ELSE 2
  BY <1>1, BarAfter
<1>3. /\ feedingBar' = feeding' /\ nextFeedingBar' = next_feeding' /\ writtenBar' = written'
      /\ readySlotBar' = ready_slot' /\ execSlotBar' = exec_slot'
      /\ cooldownBar' = gemm_acc_cooldown'
  BY <1>1 DEF feedingBar, nextFeedingBar, writtenBar, readySlotBar, execSlotBar, cooldownBar
<1>4. UNCHANGED B!regs
  BY <1>1, <1>2, <1>3 DEF G!Commit, feedingNow, B!regs
<1> QED
  BY <1>4 DEF Commit, gemmData, gemmClient, B!vars, B!data, B!client

\* Every step of the two units is one of the matrix unit, or none.
LEMMA GemmStep == [Next]_vars => [B!Next]_(B!vars)
<1> SUFFICES ASSUME [Next]_vars PROVE [B!Next]_(B!vars)
  OBVIOUS
<1>1. CASE Service
  <2>1. ticked = {}
    BY <1>1 DEF Service
  <2>2. ASSUME NEW p \in Pacc, FireGemm(p)
        PROVE  B!Next
    BY <2>1, <2>2, ServicesAreGemms DEF FireGemm, B!Next
  <2>3. ASSUME NEW o \in G!Operand, GemmInput(o)
        PROVE  B!Next
    <3>1. o \in B!Operand
      BY DEF G!Operand, B!Operand
    <3> QED
      BY <2>1, <2>3, <3>1, ServicesAreGemms DEF GemmInput, B!Next
  <2>4. ASSUME \/ \E inst \in AluInst : FireAlu(inst)
               \/ \E pl \in planes : AluInput(pl)
               \/ \E m \in Meta : StartAccget(m)
        PROVE  UNCHANGED B!vars
    <3>1. ticked' = ticked /\ UNCHANGED gemm
      BY <2>4 DEF FireAlu, AluInput, StartAccget
    <3> QED
      BY <3>1, GemmUntouched
  <2> QED
    BY <1>1, <2>2, <2>3, <2>4 DEF Service
<1>2. ASSUME NEW wbTaken \in BOOLEAN, NEW retireTaken \in BOOLEAN, AluTick(wbTaken, retireTaken)
      PROVE  UNCHANGED B!vars
  <2>1. ticked' = ticked \cup {"alu"} /\ UNCHANGED gemm
    BY <1>2 DEF AluTick
  <2> QED
    BY <2>1, GemmUntouched
<1>3. CASE GemmTick
  BY <1>3, TickIsGemms DEF B!Next
<1>4. CASE Commit
  BY <1>4, CommitIsNothing
<1>5. CASE UNCHANGED vars
  BY <1>5, GemmUntouched DEF vars
<1> QED
  BY <1>1, <1>2, <1>3, <1>4, <1>5 DEF Next

\* The initial states agree.
LEMMA GemmInit == Init => B!Init
<1> SUFFICES ASSUME Init PROVE B!Init
  OBVIOUS
<1>1. G!Init /\ "gemm" \notin ticked
  BY DEF Init
<1>2. /\ feedingBar = feeding /\ nextFeedingBar = next_feeding /\ writtenBar = written
      /\ readySlotBar = ready_slot /\ execSlotBar = exec_slot
      /\ cooldownBar = gemm_acc_cooldown
  BY <1>1, BarBefore
<1> QED
  BY <1>1, <1>2
     DEF G!Init, G!NoInst, G!NoSlot, G!NoTiles, G!Lane, G!Level, G!Levels, G!Operand,
         B!Init, B!NoInst, B!NoSlot, B!NoTiles, B!Lane, B!Level, B!Levels, B!Operand

-----------------------------------------------------------------------------
(* Facts both halves need.                                                 *)

\* What the assumptions say.
LEMMA Sizes ==
  /\ ACCGET_CHUNKS \in Nat /\ ACCGET_CHUNKS > 0 /\ GEMM_OUTPUT_LATENCY \in Nat
  /\ A!Chunk = 0 .. ACCGET_CHUNKS - 1
  /\ P!OutSlot = 1 .. ACCGET_CHUNKS + GEMM_OUTPUT_LATENCY + 2
  /\ Meta \subseteq [pacc : Pacc, rs : Temp, rd : Temp]
  /\ AluInst \subseteq A!InstType
  BY AluGemmAssumption DEF A!AluAssumption, P!AccgetAssumption, A!Chunk, P!OutSlot

\* The lowest of some slots is one of them.
LEMMA LowestSlot ==
  ASSUME NEW S \in SUBSET P!OutSlot, S # {}
  PROVE  P!Lowest(S) \in S
<1>1. IsFiniteSet(S) /\ S \in SUBSET Int
  <2>1. IsFiniteSet(P!OutSlot) /\ P!OutSlot \subseteq Int
    BY Sizes, FS_Interval
  <2> QED
    BY <2>1, FS_Subset
<1>2. \E i \in S : \A j \in S : i <= j
  BY <1>1, FirstMember
<1> QED
  BY <1>2 DEF P!Lowest

\* The chunks in the slots are different and were all taken, so there is a
\* slot for the next one (ACCGET_OUT_SLOTS).
LEMMA RoomForChunk ==
  ASSUME AccType, ChunksInv, accget.count \in 0 .. ACCGET_CHUNKS
  PROVE  P!FreeOuts # {}
<1> SUFFICES ASSUME P!FreeOuts = {} PROVE FALSE
  OBVIOUS
<1> DEFINE n == accget.count
           f == [i \in P!OutSlot |-> out[i].chunk]
<1>1. \A i \in P!OutSlot : out[i].valid
  BY DEF P!FreeOuts
<1>2. \A i \in P!OutSlot : f[i] \in 0 .. n - 1
  BY <1>1 DEF ChunksInv
<1>3. \A i, j \in P!OutSlot : f[i] = f[j] => i = j
  BY <1>1 DEF ChunksInv
<1>4. f \in Injection(P!OutSlot, 0 .. n - 1)
  BY <1>2, <1>3 DEF Injection, IsInjective
<1>5. n \in Int
  BY Sizes
<1> HIDE DEF f, n
<1>6. /\ IsFiniteSet(0 .. n - 1) /\ Cardinality(0 .. n - 1) = IF 0 <= n - 1 THEN n ELSE 0
  <2>1. /\ IsFiniteSet(0 .. n - 1)
        /\ Cardinality(0 .. n - 1) = IF 0 > n - 1 THEN 0 ELSE (n - 1) - 0 + 1
    BY <1>5, FS_Interval
  <2> QED
    BY <1>5, <2>1
<1>7. /\ IsFiniteSet(P!OutSlot)
      /\ Cardinality(P!OutSlot) = ACCGET_CHUNKS + GEMM_OUTPUT_LATENCY + 2
  BY Sizes, FS_Interval
<1>8. Cardinality(P!OutSlot) <= Cardinality(0 .. n - 1)
  BY <1>4, <1>6, <1>7, FS_Injection
<1> QED
  BY <1>5, <1>6, <1>7, <1>8, Sizes DEF n

\* The instruction leaves the temporaries of the ACCGET alone.
LEMMA TempsNowApart ==
  ASSUME InstInv, GetInv, acc.busy, NEW t \in {acc.meta.rs, acc.meta.rd}
  PROVE  A!TempsNow[t] = alu_temps[t]
<1>1. acc.meta \in Meta /\ (InFlightInst => Apart(alu.inst, acc.meta))
  BY DEF GetInv, SumsInv
<1>2. t \in Temp
  BY <1>1, Sizes
<1>3. t \in DOMAIN alu_temps
  BY <1>2 DEF InstInv
<1>4. A!ToTemp => t # alu.inst.rd.temp
  BY <1>1 DEF A!ToTemp, InFlightInst, Apart, DestOf
<1> QED
  BY <1>3, <1>4 DEF A!TempsNow

\* The instruction in flight stays the same until it retires.
LEMMA SameInst ==
  ASSUME InstInv, NEW wbTaken, NEW retireTaken,
         alu' = A!AluNext(wbTaken, retireTaken)
  PROVE  /\ alu'.inst = alu.inst /\ alu'.n = alu.n
         /\ alu.stage = "idle" => alu'.stage = "idle"
<1>1. DOMAIN alu = {"stage", "inst", "n", "src", "valid", "mask", "result", "remain", "wb_byte"}
  BY DEF InstInv, StageInv
<1>2. alu'.inst = alu.inst /\ alu'.n = alu.n
  BY <1>1 DEF A!AluNext
<1>3. alu.stage = "idle" => alu' = alu
  BY DEF A!AluNext, A!Retires, A!Finishes, A!Starts, A!WbActive
<1> QED
  BY <1>2, <1>3

\* Nothing is to be shown when no ACCGET is in flight.
LEMMA IdleSuffices ==
  ASSUME AccType', ~ acc'.busy, acc'.retire = <<>>, call'.kind = "none", NoneOut',
         accget'.busy => ticked' = {"alu", "gemm"} /\ ~ accget'.accepting
  PROVE  GetInv'
<1>1. HalvesInv'
  BY DEF HalvesInv
<1>2. P!DueOuts' = {}
  BY DEF P!DueOuts, NoneOut
<1>3. ChunksInv'
  BY <1>2 DEF ChunksInv, NoneOut
<1>4. SumsInv' /\ AccumulatorComplete'
  BY DEF SumsInv, AccumulatorComplete
<1> QED
  BY <1>1, <1>3, <1>4 DEF GetInv

-----------------------------------------------------------------------------
(* The accumulator that is read.                                           *)

\* What the instance of the matrix unit assumes of the sizes.
LEMMA GemmSizes ==
  /\ GEMM_LAST_LEVEL_LATENCY =< TILE_SIZE /\ NoPacc \notin Pacc
  /\ GEMM_LANE_SIZE \in Nat \ {0} /\ TILE_SIZE \in Nat \ {0}
  /\ MaxInsts \in Nat /\ GEMM_LAST_LEVEL_LATENCY \in Nat \ {0}
  BY AluGemmAssumption DEF G!SizesAssumption, G!NoPaccAssumption, G!LatencyAssumption

\* The library of the instance counts as the library does.
LEMMA SameCardinality == \A S : B!Cardinality(S) = Cardinality(S)
  BY DEF B!Cardinality, Cardinality

\* The products of an accumulator are counted by its multiplications, and are
\* less while one of them waits in a lane.
LEMMA ProductsFired ==
  ASSUME B!GemmInv, B!SumsOwn, NEW p \in Pacc
  PROVE  /\ Len(paccs[p]) \in Nat /\ Multiplications(p) \in Nat
         /\ Len(paccs[p]) <= Multiplications(p)
         /\ "gemm" \notin ticked =>
              \A i \in G!Lane : ready_slot[i] = p => Len(paccs[p]) < Multiplications(p)
<1>1. /\ Len(paccs[p]) \in Nat /\ Cardinality(B!FiredFor(p)) \in Nat
      /\ Len(paccs[p]) <= Cardinality(B!FiredFor(p))
      /\ \A i \in B!Lane : readySlotBar[i] = p => Len(paccs[p]) < Cardinality(B!FiredFor(p))
  BY GemmSizes, B!OwnBound, SameCardinality
<1>2. Multiplications(p) = Cardinality(B!FiredFor(p))
  BY DEF Multiplications, B!FiredFor
<1>3. B!Lane = G!Lane /\ ("gemm" \notin ticked => readySlotBar = ready_slot)
  BY BarBefore DEF B!Lane, G!Lane
<1> QED
  BY <1>1, <1>2, <1>3

\* When all its multiplications have retired, all products are there.
LEMMA RetiredIsComplete ==
  ASSUME B!GemmInv, B!SumsOwn, NEW p \in Pacc, retired[p] = Multiplications(p)
  PROVE  Len(paccs[p]) = Multiplications(p)
<1>1. /\ Len(paccs[p]) \in Nat /\ Multiplications(p) \in Nat
      /\ Len(paccs[p]) <= Multiplications(p)
  BY ProductsFired
<1>2. retired[p] + Cardinality(B!InExec(p)) = Len(paccs[p])
  BY SameCardinality DEF B!GemmInv, B!Counted
<1>3. Cardinality(B!InExec(p)) \in Nat
  BY GemmSizes, B!InExecFinite, SameCardinality
<1> QED
  BY <1>1, <1>2, <1>3

\* Nothing is added to a complete accumulator.
LEMMA CompleteStays ==
  ASSUME B!GemmInv, B!SumsOwn, GemmTick, NEW p \in Pacc,
         Len(paccs[p]) = Multiplications(p)
  PROVE  paccs'[p] = paccs[p] /\ Multiplications(p)' = Multiplications(p)
<1>1. "gemm" \notin ticked /\ insts' = insts /\ G!TickData
  BY DEF GemmTick, gemmClient
<1>2. Multiplications(p)' = Multiplications(p)
  BY <1>1 DEF Multiplications
<1>3. CASE G!Startable = {}
  BY <1>1, <1>2, <1>3 DEF G!TickData
<1>4. CASE G!Startable # {}
  <2> DEFINE l == G!Lowest(G!Startable)
  <2>1. l \in G!Lane
    <3>1. B!Startable = G!Startable /\ B!Lane = G!Lane /\ (\A S : B!Lowest(S) = G!Lowest(S))
      BY <1>1, SameLanes
    <3>2. B!Startable # {} => B!Lowest(B!Startable) \in B!Startable
      BY GemmSizes, B!LanesOfATick
    <3>3. l \in G!Startable
      BY <1>4, <3>1, <3>2
    <3> QED
      BY <3>3 DEF G!Startable
  <2>2. ready_slot[l] # p
    <3>1. /\ Len(paccs[p]) \in Nat
          /\ ready_slot[l] = p => Len(paccs[p]) < Multiplications(p)
      BY <1>1, <2>1, ProductsFired
    <3> QED
      BY <3>1
  <2>3. paccs' = [paccs EXCEPT ![ready_slot[l]] = Append(@, laneBuffer[l])]
    BY <1>1, <1>4 DEF G!TickData, G!Accumulate
  <2>4. p \in DOMAIN paccs
    BY DEF B!GemmInv, B!TypeOK
  <2> HIDE DEF l
  <2>5. paccs'[p] = paccs[p]
    BY <2>2, <2>3, <2>4
  <2> QED
    BY <1>2, <2>5
<1> QED
  BY <1>3, <1>4

-----------------------------------------------------------------------------
(* The ACCGET: the calls of the back end.                                  *)

\* What does not concern the ACCGET.
LEMMA GetKept ==
  ASSUME GetInv, UNCHANGED <<acc, accgetVars, alu_temps, ticked>>, want'.get = want.get,
         acc.busy => /\ paccs'[acc.meta.pacc] = paccs[acc.meta.pacc]
                     /\ Multiplications(acc.meta.pacc)' = Multiplications(acc.meta.pacc)
                     /\ alu'.stage # "idle" => Apart(alu'.inst, acc.meta)
  PROVE  GetInv'
<1>1. acc' = acc /\ accget' = accget /\ out' = out /\ call' = call /\ alu_temps' = alu_temps /\ ticked' = ticked
  BY DEF accgetVars
<1>2. AccType'
  BY <1>1 DEF GetInv, AccType
<1>3. NoneOut' <=> NoneOut
  BY <1>1 DEF NoneOut
<1>4. HalvesInv'
  <2>1. (Fired' <=> Fired) /\ (Waits' <=> Waits) /\ (Given' <=> Given)
    BY <1>1 DEF Fired, Waits, Given
  <2>2. Feeds' <=> Feeds
    BY <1>1 DEF Feeds
  <2>3. Taking' <=> Taking
    BY <1>1, <2>1, <2>2 DEF Taking
  <2> QED
    BY <1>1, <1>3, <2>1, <2>3 DEF GetInv, HalvesInv
<1>5. ChunksInv'
  <2>1. P!DueOuts' = P!DueOuts /\ (P!Ends' <=> P!Ends)
    BY <1>1 DEF P!DueOuts, P!Ends
  <2>2. \A c : Returned(c)' <=> Returned(c)
    BY <1>1 DEF Returned
  <2>3. P!Lowest(P!DueOuts)' = P!Lowest(P!DueOuts)
    BY <2>1 DEF P!Lowest
  <2>4. ChunksInv
    BY DEF GetInv
  <2>5. Returned(out[P!Lowest(P!DueOuts)].chunk)' <=> Returned(out[P!Lowest(P!DueOuts)].chunk)
    BY <1>1, <2>3 DEF Returned
  <2> QED
    BY <1>1, <1>3, <2>1, <2>2, <2>4, <2>5 DEF ChunksInv
<1>6. SumsInv'
  BY <1>1 DEF GetInv, SumsInv, InFlightInst, Apart, DestOf, TempsOf
<1>7. AccumulatorComplete'
  BY <1>1 DEF GetInv, AccumulatorComplete
<1> QED
  BY <1>2, <1>4, <1>5, <1>6, <1>7 DEF GetInv

\* A call of the matrix unit: nobody multiplies into what is being read.
LEMMA GetGemmCalls ==
  ASSUME B!GemmInv, GetInv,
         (\E p \in Pacc : FireGemm(p)) \/ (\E o \in G!Operand : GemmInput(o))
  PROVE  GetInv'
<1>1. /\ UNCHANGED <<acc, accgetVars, alu_temps, ticked>> /\ want' = want /\ alu' = alu
      /\ paccs' = paccs
  BY DEF FireGemm, GemmInput, aluVars, backend, G!Fire, G!s0FireGemmInst, G!MemInput,
         G!s1s2MemInput, G!data
<1>2. acc.busy => Multiplications(acc.meta.pacc)' = Multiplications(acc.meta.pacc)
  <2>1. ASSUME NEW p \in Pacc, FireGemm(p), acc.busy
        PROVE  Multiplications(acc.meta.pacc)' = Multiplications(acc.meta.pacc)
    <3> DEFINE q == acc.meta.pacc
    <3>1. q # p /\ insts' = Append(insts, p) /\ insts \in Seq(Pacc)
      BY <2>1 DEF FireGemm, G!Fire, B!GemmInv, B!TypeOK
    <3> HIDE DEF q
    <3>2. { k \in DOMAIN insts' : insts'[k] = q } = { k \in DOMAIN insts : insts[k] = q }
      <4>1. /\ DOMAIN insts = 1 .. Len(insts) /\ Len(insts) \in Nat
            /\ DOMAIN insts' = 1 .. Len(insts) + 1
            /\ \A k \in 1 .. Len(insts) : insts'[k] = insts[k]
            /\ insts'[Len(insts) + 1] = p
        BY <3>1
      <4> QED
        BY <3>1, <4>1
    <3>3. Multiplications(q)' = Cardinality({ k \in DOMAIN insts' : insts'[k] = q' })
      BY DEF Multiplications
    <3>4. q' = q
      BY <1>1 DEF q
    <3> QED
      BY <3>2, <3>3, <3>4 DEF Multiplications, q
  <2>2. ASSUME NEW o \in G!Operand, GemmInput(o)
        PROVE  Multiplications(acc.meta.pacc)' = Multiplications(acc.meta.pacc)
    BY <1>1, <2>2 DEF GemmInput, G!MemInput, Multiplications
  <2> QED
    BY <2>1, <2>2
<1>3. acc.busy /\ alu'.stage # "idle" => Apart(alu'.inst, acc.meta)
  BY <1>1 DEF GetInv, SumsInv, InFlightInst
<1> QED
  BY <1>1, <1>2, <1>3, GetKept

\* A call for an instruction: it keeps away from the ACCGET.
LEMMA GetAluCalls ==
  ASSUME InstInv, GetInv,
         (\E inst \in AluInst : FireAlu(inst)) \/ (\E pl \in planes : AluInput(pl))
  PROVE  GetInv'
<1>1. /\ UNCHANGED <<acc, accgetVars, alu_temps, ticked>> /\ want'.get = want.get
      /\ paccs' = paccs /\ insts' = insts
  <2>1. want = [inst |-> want.inst, get |-> want.get]
    BY DEF InstInv
  <2> QED
    BY <2>1 DEF FireAlu, AluInput, A!s0AluInstFire, A!sNAluMemInput, gemm, gemmData, gemmClient
<1>2. Multiplications(acc.meta.pacc)' = Multiplications(acc.meta.pacc)
  BY <1>1 DEF Multiplications
<1>3. ASSUME acc.busy, alu'.stage # "idle"
      PROVE  Apart(alu'.inst, acc.meta)
  <2>1. ASSUME NEW inst \in AluInst, FireAlu(inst)
        PROVE  Apart(alu'.inst, acc.meta)
    BY <1>3, <2>1 DEF FireAlu, A!s0AluInstFire
  <2>2. ASSUME NEW pl \in planes, AluInput(pl)
        PROVE  Apart(alu'.inst, acc.meta)
    <3>1. DOMAIN alu = {"stage", "inst", "n", "src", "valid", "mask", "result", "remain", "wb_byte"}
      BY DEF InstInv, StageInv
    <3>2. alu'.stage = alu.stage /\ alu'.inst = alu.inst
      BY <2>2, <3>1 DEF AluInput, A!sNAluMemInput
    <3> QED
      BY <1>3, <3>2 DEF GetInv, SumsInv, InFlightInst
  <2> QED
    BY <2>1, <2>2
<1> QED
  BY <1>1, <1>2, <1>3, GetKept

\* The start of an ACCGET: it owes what is there now.
LEMMA GetStart ==
  ASSUME B!GemmInv, B!SumsOwn, InstInv, GetInv, ticked = {}, NEW m \in Meta, StartAccget(m)
  PROVE  GetInv'
<1>1. /\ acc' = [busy |-> TRUE, started |-> FALSE, lane |-> 0, retire |-> <<>>, meta |-> m]
      /\ ~ acc.busy /\ alu' = alu /\ alu_temps' = alu_temps /\ paccs' = paccs /\ insts' = insts
      /\ accget' = accget /\ out' = out /\ call' = call /\ ticked' = ticked
      /\ alu.stage # "idle" => Apart(alu.inst, m)
      /\ retired[m.pacc] = Multiplications(m.pacc)
  BY DEF StartAccget, A!s0AccgetStart, A!alu_accget_ready, accgetVars, gemm, gemmData, gemmClient
<1>2. want'.get = [c \in A!Chunk |-> <<paccs[m.pacc], alu_temps[m.rs][c]>>]
  <2>1. want = [inst |-> want.inst, get |-> want.get]
    BY DEF InstInv
  <2> QED
    BY <2>1 DEF StartAccget
<1>3. ~ accget.busy /\ call.kind = "none" /\ NoneOut
  BY <1>1 DEF GetInv, HalvesInv
<1>4. AccType'
  BY <1>1 DEF GetInv, AccType
<1>5. NoneOut'
  BY <1>1, <1>3 DEF NoneOut
<1>6. HalvesInv'
  BY <1>1, <1>3, <1>5 DEF HalvesInv
<1>7. ChunksInv'
  <2>1. P!DueOuts' = {} /\ ~ P!Ends'
    BY <1>1, <1>3, <1>5 DEF P!DueOuts, NoneOut, P!Ends
  <2> QED
    BY <1>1, <1>3, <1>5, <2>1 DEF ChunksInv, NoneOut
<1>8. SumsInv'
  <2>1. \A c \in A!Chunk : want'.get[c] = <<paccs'[m.pacc], alu_temps'[m.rs][c]>>
    BY <1>1, <1>2
  <2>2. want'.get = [c \in A!Chunk |-> want'.get[c]]
    BY <1>2
  <2>3. InFlightInst' => Apart(alu'.inst, acc'.meta)
    BY <1>1 DEF InFlightInst, Apart, DestOf, TempsOf
  <2>4. acc'.lane \in 0 .. ACCGET_CHUNKS /\ acc'.meta = m
    BY <1>1, Sizes
  <2>5. DOMAIN acc' = {"busy", "started", "lane", "retire", "meta"}
    BY <1>1
  <2> QED
    BY <2>1, <2>2, <2>3, <2>4, <2>5 DEF SumsInv
<1>9. AccumulatorComplete'
  <2>1. m.pacc \in Pacc
    BY Sizes
  <2>2. Len(paccs[m.pacc]) = Multiplications(m.pacc)
    BY <1>1, <2>1, RetiredIsComplete
  <2>3. Multiplications(m.pacc)' = Multiplications(m.pacc)
    BY <1>1 DEF Multiplications
  <2>4. acc'.meta.pacc = m.pacc
    BY <1>1
  <2>5. Multiplications(acc.meta.pacc)' = Multiplications(m.pacc)'
    BY <2>4 DEF Multiplications
  <2> QED
    BY <1>1, <2>2, <2>3, <2>4, <2>5 DEF AccumulatorComplete
<1> QED
  BY <1>4, <1>6, <1>7, <1>8, <1>9 DEF GetInv

-----------------------------------------------------------------------------
(* The ACCGET: the tick of the ALU.                                        *)

\* The driver's side of the tick, case by case: it hands over the request,
\* sends a chunk, retires, or does nothing (lines 779 to 815).
LEMMA DriverCases ==
  ASSUME InstInv, GetInv, NEW wbTaken \in BOOLEAN, NEW retireTaken \in BOOLEAN,
         AluTick(wbTaken, retireTaken)
  PROVE  \/ /\ ~ acc.busy \/ ~ (acc.started /\ acc.lane < ACCGET_CHUNKS)
            /\ acc.busy => acc.started
            /\ acc' = acc /\ call' = call
         \/ /\ acc.busy /\ acc.retire # <<>> /\ call' = call
            /\ acc' = A!NoAcc
         \/ /\ acc.busy /\ ~ acc.started
            /\ acc' = [acc EXCEPT !.started = TRUE, !.lane = 0]
            /\ call' = [kind |-> "fire", pacc |-> acc.meta.pacc, ptemp |-> acc.meta.rd]
         \/ /\ acc.busy /\ acc.started /\ acc.lane < ACCGET_CHUNKS
            /\ accget.busy /\ acc.retire = <<>>
            /\ acc' = [acc EXCEPT !.lane = @ + 1]
            /\ call' = [kind |-> "input", slot |-> P!Lowest(P!FreeOuts), chunk |-> acc.lane,
                        data |-> <<paccs[accget.pacc], A!TempsNow[acc.meta.rs][acc.lane]>>]
<1>1. /\ "alu" \notin ticked /\ acc' = A!AccNext(wbTaken, retireTaken, P!accgetReady)
      /\ IF A!AccFires /\ P!accgetReady THEN P!s0FireAccget(acc.meta.pacc, acc.meta.rd)
         ELSE IF A!AccSends THEN P!sNAccInput(acc.lane, A!AccData, paccs)
         ELSE UNCHANGED accgetVars
  BY DEF AluTick, A!Tick
<1>2. call.kind = "none"
  BY <1>1 DEF GetInv, HalvesInv
<1>3. CASE ~ acc.busy
  <2>1. acc.retire = <<>>
    BY <1>3 DEF GetInv, HalvesInv
  <2>2. ~ A!AccFires /\ ~ A!AccSends /\ ~ A!AccRetires(wbTaken, retireTaken)
    BY <1>3, <2>1 DEF A!AccFires, A!AccSends, A!AccRetires
  <2> QED
    BY <1>1, <1>3, <2>2 DEF A!AccNext, accgetVars
<1>4. CASE acc.busy /\ ~ acc.started
  <2>1. acc.retire = <<>> /\ ~ accget.busy
    BY <1>4 DEF GetInv, HalvesInv
  <2>2. A!AccFires /\ P!accgetReady /\ ~ A!AccRetires(wbTaken, retireTaken)
    BY <1>4, <2>1 DEF A!AccFires, P!accgetReady, A!AccRetires
  <2> QED
    BY <1>1, <1>4, <2>2 DEF A!AccNext, P!s0FireAccget
<1>5. CASE acc.busy /\ acc.started /\ acc.retire # <<>>
  <2>1. acc.lane = ACCGET_CHUNKS
    BY <1>5 DEF GetInv, ChunksInv
  <2>2. ~ A!AccFires /\ ~ A!AccSends
    BY <1>5, <2>1, Sizes DEF A!AccFires, A!AccSends
  <2>3. acc' = acc \/ acc' = A!NoAcc
    BY <1>1, <2>2 DEF A!AccNext
  <2> QED
    BY <1>1, <1>5, <2>1, <2>2, <2>3, Sizes DEF accgetVars
<1>6. CASE acc.busy /\ acc.started /\ acc.retire = <<>>
  <2>1. Taking /\ Waits
    BY <1>2, <1>6 DEF GetInv, HalvesInv, Fired, Taking, Given, Feeds
  <2>2. ~ A!AccFires /\ ~ A!AccRetires(wbTaken, retireTaken)
    BY <1>6 DEF A!AccFires, A!AccRetires
  <2>3. acc.lane \in 0 .. ACCGET_CHUNKS
    BY <1>6 DEF GetInv, SumsInv
  <2>4. CASE acc.lane = ACCGET_CHUNKS
    <3>1. ~ A!AccSends
      BY <2>4, Sizes DEF A!AccSends
    <3> QED
      BY <1>1, <1>6, <2>2, <2>4, <3>1, Sizes DEF A!AccNext, accgetVars
  <2>5. CASE acc.lane < ACCGET_CHUNKS
    <3>1. A!AccSends
      BY <1>6, <2>5 DEF A!AccSends
    <3>2. /\ accget.busy /\ accget.accepting /\ accget.count \in 0 .. ACCGET_CHUNKS
      BY <2>1, <2>5 DEF Taking, Waits
    <3>3. P!FreeOuts # {}
      BY <3>2, RoomForChunk DEF GetInv
    <3> QED
      BY <1>1, <1>6, <2>2, <2>5, <3>1, <3>2, <3>3 DEF A!AccNext, P!sNAccInput, A!AccData
  <2> QED
    BY <2>3, <2>4, <2>5, Sizes
<1> QED
  BY <1>3, <1>4, <1>5, <1>6 DEF GetInv, AccType

\* The tick of the ALU keeps the two halves together.
LEMMA GetAluTick ==
  ASSUME InstInv, GetInv, NEW wbTaken \in BOOLEAN, NEW retireTaken \in BOOLEAN,
         AluTick(wbTaken, retireTaken)
  PROVE  GetInv'
<1>1. /\ "alu" \notin ticked /\ ticked' = ticked \cup {"alu"}
      /\ accget' = accget /\ out' = out /\ want' = want /\ paccs' = paccs /\ insts' = insts
      /\ alu' = A!AluNext(wbTaken, retireTaken) /\ alu_temps' = A!TempsNow
  BY DEF AluTick, A!Tick, accgetVars, P!s0FireAccget, P!sNAccInput, backend, gemm, gemmData, gemmClient
<1>2. /\ alu'.inst = alu.inst
      /\ InFlightInst' => InFlightInst
  BY <1>1, SameInst DEF InFlightInst
<1>3. NoneOut' <=> NoneOut
  BY <1>1 DEF NoneOut
<1>4. P!DueOuts' = P!DueOuts /\ (P!Ends' <=> P!Ends) /\ P!Lowest(P!DueOuts)' = P!Lowest(P!DueOuts)
  BY <1>1 DEF P!DueOuts, P!Ends, P!Lowest
<1>5. /\ call.kind = "none" /\ ticked \subseteq {"alu", "gemm"} /\ ticked' \subseteq {"alu", "gemm"}
      /\ "alu" \in ticked' /\ ("gemm" \in ticked' <=> "gemm" \in ticked)
  BY <1>1 DEF GetInv, AccType, HalvesInv
<1>6. ASSUME acc'.busy \in BOOLEAN, acc'.started \in BOOLEAN PROVE AccType'
  BY <1>1, <1>5, <1>6 DEF GetInv, AccType
<1>7. CASE /\ ~ acc.busy /\ acc' = acc /\ call' = call
  <2>1. acc.retire = <<>> /\ NoneOut /\ ~ accget.busy
    BY <1>1, <1>7 DEF GetInv, HalvesInv
  <2>2. AccType'
    BY <1>6, <1>7 DEF GetInv, AccType
  <2> QED
    BY <1>1, <1>3, <1>5, <1>7, <2>1, <2>2, IdleSuffices
<1>8. CASE acc.busy /\ acc.retire # <<>> /\ call' = call /\ acc' = A!NoAcc
  <2>1. ~ acc'.busy /\ acc'.retire = <<>> /\ acc'.busy \in BOOLEAN /\ acc'.started \in BOOLEAN
    BY <1>8 DEF A!NoAcc
  <2>2. /\ acc.started /\ NoneOut
        /\ accget.busy => "gemm" \in ticked /\ accget.count = ACCGET_CHUNKS
    BY <1>8 DEF GetInv, ChunksInv
  <2>3. accget.busy => ~ accget.accepting
    <3>1. accget.busy => Taking
      BY <1>8, <2>2 DEF GetInv, HalvesInv, Fired, Given
    <3> QED
      BY <2>2, <3>1, Sizes DEF Taking
  <2>4. accget.busy => ticked' = {"alu", "gemm"}
    BY <1>1, <1>5, <2>2
  <2> QED
    BY <1>1, <1>3, <1>5, <1>6, <1>8, <2>1, <2>2, <2>3, <2>4, IdleSuffices
<1>9. ASSUME acc.busy, acc'.busy, acc'.meta = acc.meta, acc'.started, acc'.retire = acc.retire,
             acc'.lane \in 0 .. ACCGET_CHUNKS, acc'.lane >= acc.lane,
             DOMAIN acc' = {"busy", "started", "lane", "retire", "meta"},
             Fired' \/ Taking' \/ Given',
             acc.retire # <<>> => acc' = acc /\ call' = call,
             call'.kind \in {"none", "fire", "input"}
      PROVE  GetInv'
  <2>1. AccType'
    BY <1>6, <1>9
  <2>2. HalvesInv'
    BY <1>1, <1>3, <1>5, <1>9 DEF GetInv, HalvesInv
  <2>3. alu_temps'[acc.meta.rs] = alu_temps[acc.meta.rs] /\ alu_temps'[acc.meta.rd] = alu_temps[acc.meta.rd]
    BY <1>1, <1>9, TempsNowApart
  <2>4. \A c : Returned(c)' <=> Returned(c)
    BY <1>1, <1>9, <2>3 DEF Returned
  <2>5. ChunksInv'
    <3>1. ChunksInv
      BY DEF GetInv
    <3>2. \A i \in P!OutSlot : out'[i].valid =>
            /\ DOMAIN out'[i] = {"valid", "ptemp", "chunk", "remain", "data"}
            /\ out'[i].ptemp = acc'.meta.rd /\ out'[i].chunk \in 0 .. accget'.count - 1
            /\ out'[i].data = want'.get[out'[i].chunk]
            /\ \A j \in P!OutSlot : out'[j].valid /\ out'[i].chunk = out'[j].chunk => i = j
      BY <1>1, <1>9, <3>1 DEF ChunksInv
    <3>3. accget'.busy =>
            \A c \in 0 .. accget'.count - 1 :
              Returned(c)' \/ \E i \in P!OutSlot : out'[i].valid /\ out'[i].chunk = c
      BY <1>1, <1>9, <2>4, <3>1 DEF ChunksInv
    <3>4. "gemm" \in ticked' /\ P!DueOuts' # {} => Returned(out[P!Lowest(P!DueOuts)].chunk)'
      <4>1. Returned(out[P!Lowest(P!DueOuts)].chunk)' <=> Returned(out[P!Lowest(P!DueOuts)].chunk)
        BY <1>1, <1>4, <1>9, <2>3 DEF Returned
      <4> QED
        BY <1>4, <1>5, <3>1, <4>1 DEF ChunksInv
    <3>5. acc'.busy /\ "gemm" \in ticked' /\ P!Ends' => acc'.retire # <<>>
      BY <1>4, <1>5, <1>9, <3>1 DEF ChunksInv
    <3>6. acc'.retire # <<>> =>
            /\ acc'.started /\ acc'.lane = ACCGET_CHUNKS /\ call'.kind = "none"
            /\ acc'.retire = <<acc'.meta.rd>> /\ NoneOut'
            /\ \A c \in A!Chunk : Returned(c)'
            /\ accget'.busy => "gemm" \in ticked' /\ accget'.count = ACCGET_CHUNKS
      BY <1>1, <1>3, <1>5, <1>9, <2>4, <3>1 DEF ChunksInv
    <3> QED
      BY <3>2, <3>3, <3>4, <3>5, <3>6 DEF ChunksInv
  <2>6. SumsInv'
    <3>1. SumsInv
      BY DEF GetInv
    <3>2. InFlightInst' => Apart(alu'.inst, acc'.meta)
      BY <1>2, <1>9, <3>1 DEF SumsInv
    <3>3. Apart(alu'.inst, acc'.meta) => Apart(alu.inst, acc.meta)'
      BY DEF Apart, DestOf, TempsOf
    <3>4. \A c \in A!Chunk : c >= acc'.lane =>
            want'.get[c] = <<paccs'[acc'.meta.pacc], alu_temps'[acc'.meta.rs][c]>>
      <4>1. acc.lane \in Int /\ acc'.lane \in Int /\ A!Chunk \subseteq Int
        BY <1>9, <3>1, Sizes DEF SumsInv
      <4> QED
        BY <1>1, <1>9, <2>3, <3>1, <4>1 DEF SumsInv
    <3> QED
      BY <1>1, <1>9, <3>1, <3>2, <3>3, <3>4 DEF SumsInv
  <2>7. AccumulatorComplete'
    <3>1. Multiplications(acc.meta.pacc)' = Multiplications(acc.meta.pacc)
      BY <1>1, <1>9 DEF Multiplications
    <3> QED
      BY <1>1, <1>9, <3>1 DEF GetInv, AccumulatorComplete
  <2> QED
    BY <2>1, <2>2, <2>5, <2>6, <2>7 DEF GetInv
<1>10. CASE /\ acc.busy /\ acc.started /\ ~ (acc.lane < ACCGET_CHUNKS)
            /\ acc' = acc /\ call' = call
  <2>1. /\ acc.lane \in 0 .. ACCGET_CHUNKS
        /\ DOMAIN acc = {"busy", "started", "lane", "retire", "meta"}
    BY <1>10 DEF GetInv, SumsInv
  <2>2. Taking \/ Given
    BY <1>5, <1>10 DEF GetInv, HalvesInv, Fired
  <2>3. (Taking /\ Waits) \/ Given
    BY <1>5, <2>2 DEF Taking, Feeds
  <2>4. Waits' <=> Waits
    BY <1>1, <1>10 DEF Waits
  <2>5. Taking' \/ Given'
    BY <1>1, <1>10, <2>3, <2>4 DEF Taking, Given
  <2>6. acc'.lane >= acc.lane
    BY <1>10, <2>1, Sizes
  <2> QED
    BY <1>5, <1>9, <1>10, <2>1, <2>5, <2>6
<1>11. CASE /\ acc.busy /\ ~ acc.started
            /\ acc' = [acc EXCEPT !.started = TRUE, !.lane = 0]
            /\ call' = [kind |-> "fire", pacc |-> acc.meta.pacc, ptemp |-> acc.meta.rd]
  <2>1. DOMAIN acc = {"busy", "started", "lane", "retire", "meta"}
    BY <1>11 DEF GetInv, SumsInv
  <2>2. /\ acc'.busy /\ acc'.meta = acc.meta /\ acc'.started /\ acc'.retire = acc.retire
        /\ acc'.lane = 0 /\ DOMAIN acc' = {"busy", "started", "lane", "retire", "meta"}
    BY <1>11, <2>1
  <2>3. ~ accget.busy /\ acc.lane = 0 /\ acc.retire = <<>>
    BY <1>11 DEF GetInv, HalvesInv
  <2>4. Fired'
    BY <1>1, <1>5, <1>11, <2>2, <2>3 DEF Fired
  <2>5. acc'.lane \in 0 .. ACCGET_CHUNKS /\ acc'.lane >= acc.lane
    BY <2>2, <2>3, Sizes
  <2>6. call'.kind = "fire"
    BY <1>11
  <2> QED
    BY <1>9, <1>11, <2>2, <2>3, <2>4, <2>5, <2>6
<1>12. CASE /\ acc.busy /\ acc.started /\ acc.lane < ACCGET_CHUNKS
            /\ accget.busy /\ acc.retire = <<>>
            /\ acc' = [acc EXCEPT !.lane = @ + 1]
            /\ call' = [kind |-> "input", slot |-> P!Lowest(P!FreeOuts), chunk |-> acc.lane,
                        data |-> <<paccs[accget.pacc], A!TempsNow[acc.meta.rs][acc.lane]>>]
  <2>1. /\ DOMAIN acc = {"busy", "started", "lane", "retire", "meta"}
        /\ acc.lane \in 0 .. ACCGET_CHUNKS
        /\ \A c \in A!Chunk : c >= acc.lane =>
             want.get[c] = <<paccs[acc.meta.pacc], alu_temps[acc.meta.rs][c]>>
    BY <1>12 DEF GetInv, SumsInv
  <2>2. /\ acc'.busy /\ acc'.meta = acc.meta /\ acc'.started /\ acc'.retire = acc.retire
        /\ acc'.lane = acc.lane + 1 /\ DOMAIN acc' = {"busy", "started", "lane", "retire", "meta"}
    BY <1>12, <2>1
  <2>3. Taking /\ Waits
    BY <1>5, <1>12 DEF GetInv, HalvesInv, Fired, Given, Taking, Feeds
  <2>4. acc.lane = accget.count /\ accget.pacc = acc.meta.pacc
    BY <2>3 DEF Waits, Taking
  <2>5. acc.lane \in A!Chunk
    BY <1>12, <2>1, Sizes
  <2>6. A!TempsNow[acc.meta.rs] = alu_temps[acc.meta.rs]
    BY <1>12, TempsNowApart
  <2>7. want.get[acc.lane] = <<paccs[accget.pacc], A!TempsNow[acc.meta.rs][acc.lane]>>
    BY <2>1, <2>4, <2>5, <2>6, Sizes
  <2>8. P!Lowest(P!FreeOuts) \in P!OutSlot /\ ~ out[P!Lowest(P!FreeOuts)].valid
    <3>1. P!FreeOuts # {}
      BY <2>3, RoomForChunk DEF Taking, GetInv
    <3>2. P!FreeOuts \in SUBSET P!OutSlot
      BY DEF P!FreeOuts
    <3>3. P!Lowest(P!FreeOuts) \in P!FreeOuts
      BY <3>1, <3>2, LowestSlot
    <3> QED
      BY <3>3 DEF P!FreeOuts
  <2>9. Feeds'
    <3>1. /\ call'.kind = "input" /\ call'.slot = P!Lowest(P!FreeOuts) /\ call'.chunk = acc.lane
          /\ call'.data = <<paccs[accget.pacc], A!TempsNow[acc.meta.rs][acc.lane]>>
      BY <1>12
    <3> QED
      BY <1>1, <1>5, <1>12, <2>2, <2>4, <2>7, <2>8, <3>1 DEF Feeds
  <2>10. Taking'
    BY <1>1, <2>2, <2>3, <2>9 DEF Taking
  <2>11. acc'.lane \in 0 .. ACCGET_CHUNKS /\ acc'.lane >= acc.lane
    BY <1>12, <2>1, <2>2, Sizes
  <2>12. call'.kind = "input"
    BY <1>12
  <2> QED
    BY <1>9, <1>12, <2>2, <2>10, <2>11, <2>12
<1> QED
  BY <1>7, <1>8, <1>10, <1>11, <1>12, DriverCases

-----------------------------------------------------------------------------
(* The ACCGET: the tick of the matrix unit and the commit.                 *)

\* What the matrix unit has when no ACCGET asks for anything yet.
LEMMA QuietUnit ==
  ASSUME GetInv, ~ accget.busy
  PROVE  NoneOut /\ P!DueOuts = {} /\ ~ P!Ends
  BY DEF GetInv, HalvesInv, P!DueOuts, NoneOut, P!Ends

\* A sum that is due goes back to its chunk of the destination.
LEMMA ReturnsChunk ==
  ASSUME InstInv, GetInv, GemmTick, P!DueOuts # {}
  PROVE  LET o == out[P!Lowest(P!DueOuts)]
         IN  /\ acc.busy /\ accget.busy /\ accget.count \in 0 .. ACCGET_CHUNKS
             /\ accget.count <= acc.lane
             /\ o.valid /\ o.ptemp = acc.meta.rd
             /\ o.chunk \in 0 .. accget.count - 1 /\ o.chunk \in A!Chunk
             /\ alu_temps' = [alu_temps EXCEPT ![acc.meta.rd][o.chunk] = want.get[o.chunk]]
<1> DEFINE i == P!Lowest(P!DueOuts)
           o == out[i]
<1>1. accget.busy
  BY QuietUnit DEF GetInv, AccType
<1>2. "gemm" \notin ticked
  BY DEF GemmTick
<1>3. acc.busy
  BY <1>1, <1>2 DEF GetInv, HalvesInv
<1>4. Taking
  BY <1>1, <1>3 DEF GetInv, HalvesInv, Fired, Given
<1>5. accget.count \in 0 .. ACCGET_CHUNKS /\ acc.lane \in 0 .. ACCGET_CHUNKS
  BY <1>3, <1>4 DEF Taking, GetInv, SumsInv
<1>6. accget.count <= acc.lane
  BY <1>4, <1>5, Sizes DEF Taking, Feeds, Waits
<1>7. i \in P!OutSlot /\ o.valid
  <2>1. P!DueOuts \in SUBSET P!OutSlot
    BY DEF P!DueOuts
  <2>2. i \in P!DueOuts
    BY <2>1, LowestSlot
  <2> QED
    BY <2>2 DEF P!DueOuts
<1>8. o.ptemp = acc.meta.rd /\ o.chunk \in 0 .. accget.count - 1 /\ o.data = want.get[o.chunk]
  BY <1>7 DEF GetInv, ChunksInv
<1>9. o.chunk \in A!Chunk
  BY <1>5, <1>8, Sizes
<1>10. A!accTempInput(o.ptemp, o.chunk, o.data)
  BY DEF GemmTick
<1>11. alu_temps' = [alu_temps EXCEPT ![acc.meta.rd][o.chunk] = want.get[o.chunk]]
  BY <1>8, <1>10 DEF A!accTempInput
<1> QED
  BY <1>1, <1>3, <1>5, <1>6, <1>7, <1>8, <1>9, <1>11

\* The driver hears of the end when all chunks are back.
LEMMA EndsWhole ==
  ASSUME GetInv, GemmTick, P!Ends
  PROVE  /\ acc.busy /\ acc.started /\ acc.lane = ACCGET_CHUNKS /\ call.kind = "none"
         /\ accget.count = ACCGET_CHUNKS /\ accget.ptemp = acc.meta.rd /\ accget.busy
         /\ Taking /\ NoneOut /\ P!DueOuts = {}
         /\ \A c \in A!Chunk : Returned(c)
<1>1. accget.busy /\ ~ accget.accepting /\ NoneOut /\ P!DueOuts = {}
  BY DEF P!Ends, NoneOut, P!DueOuts
<1>2. "gemm" \notin ticked
  BY DEF GemmTick
<1>3. acc.busy /\ acc.started
  BY <1>1, <1>2 DEF GetInv, AccType, HalvesInv
<1>4. Taking
  BY <1>1, <1>3 DEF GetInv, HalvesInv, Fired, Given
<1>5. accget.count = ACCGET_CHUNKS
  BY <1>1, <1>4, Sizes DEF Taking
<1>6. Waits
  BY <1>4, <1>5, Sizes DEF Taking, Feeds
<1>7. \A c \in A!Chunk : Returned(c)
  <2>1. \A c \in 0 .. accget.count - 1 : Returned(c)
    BY <1>1, <1>3 DEF GetInv, ChunksInv, NoneOut
  <2> QED
    BY <1>5, <2>1, Sizes
<1> QED
  BY <1>1, <1>3, <1>4, <1>5, <1>6, <1>7 DEF Waits, Taking

\* The tick of the matrix unit keeps the two halves together.
LEMMA GetGemmTick ==
  ASSUME B!GemmInv, B!SumsOwn, InstInv, GetInv, GemmTick
  PROVE  GetInv'
<1>1. /\ "gemm" \notin ticked /\ ticked' = ticked \cup {"gemm"}
      /\ accget' = accget /\ out' = out /\ call' = call /\ want' = want /\ alu' = alu
  BY DEF GemmTick, accgetVars, backend
<1>2. /\ NoneOut' <=> NoneOut
      /\ P!DueOuts' = P!DueOuts /\ (P!Ends' <=> P!Ends) /\ P!Lowest(P!DueOuts)' = P!Lowest(P!DueOuts)
  BY <1>1 DEF NoneOut, P!DueOuts, P!Ends, P!Lowest
<1>3. ticked' \subseteq {"alu", "gemm"} /\ ("alu" \in ticked' <=> "alu" \in ticked) /\ "gemm" \in ticked'
  BY <1>1 DEF GetInv, AccType
<1>4. CASE ~ acc.busy
  <2>1. acc.retire = <<>> /\ call.kind = "none" /\ NoneOut /\ ~ accget.busy
    BY <1>1, <1>4 DEF GetInv, HalvesInv
  <2>2. acc' = acc
    BY <2>1, QuietUnit DEF GemmTick
  <2>3. AccType'
    BY <1>1, <1>3, <2>2 DEF GetInv, AccType
  <2> QED
    BY <1>1, <1>2, <1>4, <2>1, <2>2, <2>3, IdleSuffices
<1>5. CASE acc.busy
  <2>1. /\ DOMAIN acc = {"busy", "started", "lane", "retire", "meta"}
        /\ acc.lane \in 0 .. ACCGET_CHUNKS /\ acc.meta \in Meta
    BY <1>5 DEF GetInv, SumsInv
  <2>2. acc' = IF P!Ends THEN [acc EXCEPT !.retire = <<acc.meta.rd>>] ELSE acc
    BY EndsWhole DEF GemmTick, A!accgetRetirePTemp
  <2>3. /\ acc'.busy = acc.busy /\ acc'.meta = acc.meta /\ acc'.started = acc.started
        /\ acc'.lane = acc.lane
        /\ acc'.retire = IF P!Ends THEN <<acc.meta.rd>> ELSE acc.retire
        /\ DOMAIN acc' = {"busy", "started", "lane", "retire", "meta"}
    BY <2>1, <2>2
  <2>4. acc.meta.rs \in DOMAIN alu_temps /\ acc.meta.rd \in DOMAIN alu_temps /\ acc.meta.pacc \in Pacc
        /\ DOMAIN alu_temps[acc.meta.rd] = A!Chunk
    <3>1. acc.meta.rs \in Temp /\ acc.meta.rd \in Temp /\ acc.meta.pacc \in Pacc
      BY <2>1, Sizes
    <3> QED
      BY <3>1 DEF InstInv
  <2>5. /\ \A c \in A!Chunk : Returned(c) => Returned(c)'
        /\ P!DueOuts # {} => Returned(out[P!Lowest(P!DueOuts)].chunk)'
        /\ \A c \in A!Chunk : c >= acc.lane => alu_temps'[acc.meta.rs][c] = alu_temps[acc.meta.rs][c]
    <3>1. CASE P!DueOuts = {}
      <4>1. alu_temps' = alu_temps
        BY <3>1 DEF GemmTick
      <4> QED
        BY <1>1, <2>3, <3>1, <4>1 DEF Returned
    <3>2. CASE P!DueOuts # {}
      <4> DEFINE d == out[P!Lowest(P!DueOuts)].chunk
      <4>1. /\ accget.count \in 0 .. ACCGET_CHUNKS /\ accget.count <= acc.lane
            /\ d \in 0 .. accget.count - 1 /\ d \in A!Chunk
            /\ alu_temps' = [alu_temps EXCEPT ![acc.meta.rd][d] = want.get[d]]
        BY <3>2, ReturnsChunk
      <4>2. d' = d
        BY <1>1, <1>2
      <4> HIDE DEF d
      <4>3. alu_temps'[acc.meta.rd] = [alu_temps[acc.meta.rd] EXCEPT ![d] = want.get[d]]
        BY <2>4, <4>1
      <4>4. alu_temps'[acc.meta.rd][d] = want.get[d]
        BY <2>4, <4>1, <4>3
      <4>5. \A c \in A!Chunk : c # d => alu_temps'[acc.meta.rd][c] = alu_temps[acc.meta.rd][c]
        BY <2>4, <4>3
      <4>6. \A c \in A!Chunk : Returned(c) => Returned(c)'
        BY <1>1, <2>3, <4>4, <4>5 DEF Returned
      <4>7. Returned(d)'
        BY <1>1, <2>3, <4>2, <4>4 DEF Returned
      <4>8. \A c \in A!Chunk : c >= acc.lane => c # d
        BY <2>1, <4>1, Sizes
      <4>9. acc.meta.rs # acc.meta.rd => alu_temps'[acc.meta.rs] = alu_temps[acc.meta.rs]
        BY <2>4, <4>1
      <4>10. \A c \in A!Chunk : c >= acc.lane => alu_temps'[acc.meta.rs][c] = alu_temps[acc.meta.rs][c]
        BY <4>5, <4>8, <4>9
      <4> QED
        BY <4>6, <4>7, <4>10 DEF d
    <3> QED
      BY <3>1, <3>2
  <2>6. /\ paccs'[acc.meta.pacc] = paccs[acc.meta.pacc]
        /\ Len(paccs[acc.meta.pacc]) = Multiplications(acc.meta.pacc)
        /\ Multiplications(acc.meta.pacc)' = Multiplications(acc.meta.pacc)
    <3>1. Len(paccs[acc.meta.pacc]) = Multiplications(acc.meta.pacc)
      BY <1>5 DEF GetInv, AccumulatorComplete
    <3>2. PICK p \in Pacc : p = acc.meta.pacc
      BY <2>4
    <3>3. paccs'[p] = paccs[p] /\ Multiplications(p)' = Multiplications(p)
      BY <3>1, <3>2, CompleteStays
    <3>4. Multiplications(acc.meta.pacc)' = Multiplications(p)'
      BY <2>3, <3>2 DEF Multiplications
    <3> QED
      BY <3>1, <3>2, <3>3, <3>4
  <2>7. AccType'
    BY <1>1, <1>3, <2>3 DEF GetInv, AccType
  <2>8. HalvesInv'
    <3>1. HalvesInv
      BY DEF GetInv
    <3>2. CASE P!Ends
      <4>1. /\ acc.started /\ acc.lane = ACCGET_CHUNKS /\ call.kind = "none" /\ accget.busy
            /\ Taking /\ accget.count = ACCGET_CHUNKS
        BY <3>2, EndsWhole
      <4>2. Waits'
        BY <1>1, <2>3, <4>1 DEF Waits
      <4>3. Taking'
        BY <1>1, <2>3, <4>1, <4>2 DEF Taking
      <4> QED
        BY <1>1, <1>3, <1>5, <2>3, <4>1, <4>3 DEF HalvesInv
    <3>3. CASE ~ P!Ends
      <4>1. acc' = acc
        BY <2>2, <3>3
      <4>2. (Fired' <=> Fired) /\ (Waits' <=> Waits) /\ (Given' <=> Given)
        BY <1>1, <1>3, <4>1 DEF Fired, Waits, Given
      <4>3. Feeds' <=> Feeds
        BY <1>1, <1>3, <4>1 DEF Feeds
      <4>4. Taking' <=> Taking
        BY <1>1, <4>1, <4>2, <4>3 DEF Taking
      <4> QED
        BY <1>1, <1>2, <1>3, <1>5, <3>1, <4>1, <4>2, <4>4 DEF HalvesInv
    <3> QED
      BY <3>2, <3>3
  <2>9. ChunksInv'
    <3>1. ChunksInv
      BY DEF GetInv
    <3>2. \A i \in P!OutSlot : out'[i].valid =>
            /\ DOMAIN out'[i] = {"valid", "ptemp", "chunk", "remain", "data"}
            /\ out'[i].ptemp = acc'.meta.rd /\ out'[i].chunk \in 0 .. accget'.count - 1
            /\ out'[i].data = want'.get[out'[i].chunk]
            /\ \A j \in P!OutSlot : out'[j].valid /\ out'[i].chunk = out'[j].chunk => i = j
      BY <1>1, <2>3, <3>1 DEF ChunksInv
    <3>3. acc'.busy /\ accget'.busy =>
            \A c \in 0 .. accget'.count - 1 :
              Returned(c)' \/ \E i \in P!OutSlot : out'[i].valid /\ out'[i].chunk = c
      <4>1. accget.busy => Taking
        BY <1>5 DEF GetInv, HalvesInv, Fired, Given
      <4>2. accget.busy => \A c \in 0 .. accget.count - 1 : c \in A!Chunk
        BY <4>1, Sizes DEF Taking
      <4> QED
        BY <1>1, <1>5, <2>5, <3>1, <4>2 DEF ChunksInv
    <3>4. P!DueOuts' # {} => Returned(out[P!Lowest(P!DueOuts)].chunk)'
      BY <1>2, <2>5
    <3>5. P!Ends' => acc'.retire # <<>>
      BY <1>2, <2>3
    <3>6. acc'.retire # <<>> =>
            /\ acc'.started /\ acc'.lane = ACCGET_CHUNKS /\ call'.kind = "none"
            /\ acc'.retire = <<acc'.meta.rd>> /\ NoneOut'
            /\ \A c \in A!Chunk : Returned(c)'
            /\ accget'.busy => "gemm" \in ticked' /\ accget'.count = ACCGET_CHUNKS
      <4>1. CASE P!Ends
        BY <1>1, <1>2, <1>3, <2>3, <2>5, <4>1, EndsWhole
      <4>2. CASE ~ P!Ends
        BY <1>1, <1>2, <1>3, <2>3, <2>5, <3>1, <4>2 DEF ChunksInv
      <4> QED
        BY <4>1, <4>2
    <3> QED
      BY <3>2, <3>3, <3>4, <3>5, <3>6 DEF ChunksInv
  <2>10. SumsInv'
    <3>1. SumsInv
      BY DEF GetInv
    <3>2. \A c \in A!Chunk : c >= acc'.lane =>
            want'.get[c] = <<paccs'[acc'.meta.pacc], alu_temps'[acc'.meta.rs][c]>>
      BY <1>1, <1>5, <2>3, <2>5, <2>6, <3>1 DEF SumsInv
    <3>3. InFlightInst' => Apart(alu.inst, acc.meta)'
      BY <1>1, <1>5, <2>3, <3>1 DEF SumsInv, InFlightInst, Apart, DestOf, TempsOf
    <3> QED
      BY <1>1, <1>5, <2>3, <3>1, <3>2, <3>3 DEF SumsInv
  <2>11. AccumulatorComplete'
    BY <1>5, <2>3, <2>6 DEF AccumulatorComplete
  <2> QED
    BY <2>7, <2>8, <2>9, <2>10, <2>11 DEF GetInv
<1> QED
  BY <1>4, <1>5

\* The commit carries out what was sent.
LEMMA GetCommit ==
  ASSUME GetInv, Commit
  PROVE  GetInv'
<1>1. /\ ticked = {"alu", "gemm"} /\ ticked' = {} /\ accget' = P!AccgetNext
      /\ out' = [i \in P!OutSlot |-> P!OutNext(i)] /\ call'.kind = "none"
      /\ want' = want /\ alu' = alu /\ acc' = acc /\ alu_temps' = alu_temps
      /\ paccs' = paccs /\ insts' = insts
  BY DEF Commit, P!AccgetCommit, P!NoCall, backend, aluVars, gemmData, gemmClient
<1>2. DOMAIN out = P!OutSlot /\ \A i \in P!OutSlot : out[i].valid \in BOOLEAN
  BY DEF GetInv, AccType
<1>3. \A i \in P!OutSlot : ~ out[i].valid => i \notin P!DueOuts
  BY DEF P!DueOuts
<1>4. ASSUME NoneOut, call.kind # "input"
      PROVE  NoneOut'
  <2>1. \A i \in P!OutSlot : P!OutNext(i) = out[i]
    BY <1>3, <1>4 DEF P!OutNext, NoneOut
  <2> QED
    BY <1>1, <1>4, <2>1 DEF NoneOut
<1>5. CASE ~ acc.busy
  <2>1. /\ acc.retire = <<>> /\ call.kind = "none" /\ NoneOut
        /\ accget.busy => ~ accget.accepting
    BY <1>5 DEF GetInv, HalvesInv
  <2>2. P!AccgetNext = IF P!Ends THEN P!Idle ELSE accget
    BY <2>1 DEF P!AccgetNext
  <2>3. ~ accget'.busy
    BY <1>1, <2>1, <2>2 DEF P!Ends, NoneOut, P!Idle
  <2>4. NoneOut'
    BY <1>4, <2>1
  <2>5. accget'.busy \in BOOLEAN
    BY <1>1, <2>2 DEF P!Idle, GetInv, AccType
  <2>6. AccType'
    <3>1. \A i \in P!OutSlot : out'[i].valid \in BOOLEAN
      <4>1. \A i \in P!OutSlot : P!OutNext(i) = out[i]
        BY <1>3, <2>1 DEF P!OutNext, NoneOut
      <4> QED
        BY <1>1, <1>2, <4>1
    <3>2. DOMAIN out' = P!OutSlot
      BY <1>1
    <3> QED
      BY <1>1, <2>3, <2>5, <3>1, <3>2 DEF GetInv, AccType
  <2> QED
    BY <1>1, <1>5, <2>1, <2>3, <2>4, <2>6, IdleSuffices
<1>6. CASE acc.busy
  <2>1. SumsInv'
    <3>1. SumsInv
      BY DEF GetInv
    <3> QED
      BY <1>1, <3>1 DEF SumsInv, InFlightInst, Apart, DestOf, TempsOf
  <2>2. AccumulatorComplete'
    <3>1. Multiplications(acc.meta.pacc)' = Multiplications(acc.meta.pacc)
      BY <1>1 DEF Multiplications
    <3> QED
      BY <1>1, <3>1 DEF GetInv, AccumulatorComplete
  <2>3. \A c : Returned(c)' <=> Returned(c)
    BY <1>1 DEF Returned
  <2>4. ChunksInv
    BY DEF GetInv
  \* It is enough to look at the slots and at the three states of the unit.
  <2>5. ASSUME accget'.busy \in BOOLEAN, accget'.busy => accget'.accepting \in BOOLEAN,
               \A i \in P!OutSlot : out'[i].valid \in BOOLEAN
        PROVE  AccType'
    <3>1. DOMAIN out' = P!OutSlot
      BY <1>1
    <3> QED
      BY <1>1, <2>5, <3>1 DEF GetInv, AccType
  <2>6. ASSUME NoneOut', ~ accget'.busy \/ accget'.count = 0,
               acc.retire # <<>> => ~ accget'.busy /\ call.kind = "none"
        PROVE  ChunksInv'
    <3>1. acc'.busy /\ accget'.busy => (0 .. accget'.count - 1) = {}
      BY <2>6
    <3>2. acc'.retire # <<>> =>
            /\ acc'.started /\ acc'.lane = ACCGET_CHUNKS /\ call'.kind = "none"
            /\ acc'.retire = <<acc'.meta.rd>> /\ NoneOut'
            /\ \A c \in A!Chunk : Returned(c)'
            /\ accget'.busy => "gemm" \in ticked' /\ accget'.count = ACCGET_CHUNKS
      BY <1>1, <2>3, <2>4, <2>6 DEF ChunksInv
    <3> QED
      BY <1>1, <2>6, <3>1, <3>2 DEF ChunksInv, NoneOut
  <2>7. CASE ~ accget.busy /\ call.kind = "none"
    <3>1. NoneOut /\ ~ P!Ends
      BY <2>7, QuietUnit
    <3>2. accget' = accget
      BY <1>1, <2>7, <3>1 DEF P!AccgetNext
    <3>3. \A i \in P!OutSlot : out'[i] = out[i]
      BY <1>1, <1>3, <2>7, <3>1 DEF P!OutNext, NoneOut
    <3>4. NoneOut'
      BY <1>4, <2>7, <3>1
    <3>5. HalvesInv'
      <4>1. Given' <=> Given
        BY <1>1, <2>7, <3>2 DEF Given
      <4>2. acc.started => Given
        BY <1>6, <2>7 DEF GetInv, HalvesInv, Fired, Taking
      <4>3. ~ acc.started => acc.lane = 0 /\ acc.retire = <<>>
        BY <1>6 DEF GetInv, HalvesInv
      <4> QED
        BY <1>1, <1>6, <2>7, <3>2, <3>4, <4>1, <4>2, <4>3 DEF HalvesInv
    <3>6. ChunksInv'
      BY <2>6, <2>7, <3>2, <3>4
    <3>7. AccType'
      BY <1>2, <2>5, <2>7, <3>2, <3>3 DEF GetInv, AccType
    <3> QED
      BY <2>1, <2>2, <3>5, <3>6, <3>7 DEF GetInv
  <2>8. CASE Fired
    <3>1. /\ call.kind = "fire" /\ ~ accget.busy /\ acc.retire = <<>> /\ NoneOut
          /\ acc.lane = 0 /\ call.pacc = acc.meta.pacc /\ call.ptemp = acc.meta.rd
      BY <2>8, QuietUnit DEF Fired
    <3>2. accget' = [busy |-> TRUE, accepting |-> TRUE, count |-> 0,
                     pacc |-> acc.meta.pacc, ptemp |-> acc.meta.rd]
      BY <1>1, <3>1 DEF P!AccgetNext
    <3>3. \A i \in P!OutSlot : out'[i] = out[i]
      BY <1>1, <1>3, <3>1 DEF P!OutNext, NoneOut
    <3>4. NoneOut'
      BY <1>4, <3>1
    <3>5. Taking'
      <4>1. Waits'
        BY <1>1, <3>1, <3>2 DEF Waits
      <4> QED
        BY <1>1, <3>2, <4>1, Sizes DEF Taking
    <3>6. acc.started
      BY <1>6, <3>1 DEF GetInv, HalvesInv
    <3>7. HalvesInv'
      BY <1>1, <1>6, <3>2, <3>4, <3>5, <3>6 DEF HalvesInv
    <3>8. ChunksInv'
      BY <2>6, <3>1, <3>2, <3>4
    <3>9. AccType'
      BY <1>2, <2>5, <3>2, <3>3
    <3> QED
      BY <2>1, <2>2, <3>7, <3>8, <3>9 DEF GetInv
  <2>9. CASE Taking /\ Waits
    <3>1. /\ accget.busy /\ call.kind = "none" /\ acc.lane = accget.count /\ acc.started
          /\ DOMAIN accget = {"busy", "accepting", "count", "pacc", "ptemp"}
          /\ accget.count \in 0 .. ACCGET_CHUNKS
          /\ accget.accepting <=> accget.count < ACCGET_CHUNKS
      BY <1>6, <2>9 DEF Taking, Waits, GetInv, AccType, HalvesInv
    <3>2. accget' = IF P!Ends THEN P!Idle ELSE accget
      BY <1>1, <3>1 DEF P!AccgetNext
    <3>3. ASSUME NEW i \in P!OutSlot
          PROVE  \/ out'[i] = out[i]
                 \/ out'[i] = P!NoOut /\ P!DueOuts # {} /\ i = P!Lowest(P!DueOuts)
                 \/ out[i].valid /\ out'[i] = [out[i] EXCEPT !.remain = @ - 1]
      BY <1>1, <3>1 DEF P!OutNext
    <3>4. CASE P!Ends
      <4>1. acc.retire # <<>> /\ NoneOut
        BY <1>1, <1>6, <2>4, <3>4 DEF ChunksInv, P!Ends, NoneOut
      <4>2. NoneOut'
        BY <1>4, <3>1, <4>1
      <4>3. ~ accget'.busy /\ accget'.busy \in BOOLEAN
        BY <3>2, <3>4 DEF P!Idle
      <4>4. Given'
        BY <1>1, <4>1, <4>3 DEF Given
      <4>5. HalvesInv'
        BY <1>1, <1>6, <3>1, <4>2, <4>3, <4>4 DEF HalvesInv
      <4>6. ChunksInv'
        BY <2>6, <3>1, <4>2, <4>3
      <4>7. \A i \in P!OutSlot : out'[i].valid \in BOOLEAN
        <5>1. \A i \in P!OutSlot : out'[i] = out[i]
          BY <1>1, <1>3, <3>1, <4>1 DEF P!OutNext, NoneOut
        <5> QED
          BY <1>2, <5>1
      <4>8. AccType'
        BY <2>5, <4>3, <4>7
      <4> QED
        BY <2>1, <2>2, <4>5, <4>6, <4>8 DEF GetInv
    <3>5. CASE ~ P!Ends
      <4>1. accget' = accget
        BY <3>2, <3>5
      <4>2. acc.retire = <<>>
        BY <2>4, <3>1, <3>5, Sizes DEF ChunksInv, P!Ends, NoneOut
      <4>3. ASSUME NEW i \in P!OutSlot
            PROVE  /\ out'[i].valid \in BOOLEAN
                   /\ out'[i].valid => /\ out[i].valid
                                       /\ DOMAIN out'[i] = {"valid", "ptemp", "chunk", "remain", "data"}
                                       /\ out'[i].ptemp = out[i].ptemp /\ out'[i].chunk = out[i].chunk
                                       /\ out'[i].data = out[i].data
        <5>1. out[i].valid => DOMAIN out[i] = {"valid", "ptemp", "chunk", "remain", "data"}
          BY <2>4 DEF ChunksInv
        <5>2. CASE out'[i] = out[i]
          BY <1>2, <5>1, <5>2
        <5>3. CASE out'[i] = P!NoOut
          BY <5>3 DEF P!NoOut
        <5>4. CASE out[i].valid /\ out'[i] = [out[i] EXCEPT !.remain = @ - 1]
          <6>1. out'[i].valid = out[i].valid
            BY <5>1, <5>4
          <6>2. /\ DOMAIN out'[i] = {"valid", "ptemp", "chunk", "remain", "data"}
                /\ out'[i].ptemp = out[i].ptemp /\ out'[i].chunk = out[i].chunk
                /\ out'[i].data = out[i].data
            BY <5>1, <5>4
          <6> QED
            BY <1>2, <5>4, <6>1, <6>2
        <5> QED
          BY <3>3, <5>2, <5>3, <5>4
      <4>4. ASSUME NEW i \in P!OutSlot, out[i].valid, ~ out'[i].valid
            PROVE  Returned(out[i].chunk)
        <5>1. out[i].valid => DOMAIN out[i] = {"valid", "ptemp", "chunk", "remain", "data"}
          BY <2>4 DEF ChunksInv
        <5>2. out'[i] # [out[i] EXCEPT !.remain = @ - 1]
          BY <4>4, <5>1
        <5>3. P!DueOuts # {} /\ i = P!Lowest(P!DueOuts)
          BY <3>3, <4>4, <5>2
        <5> QED
          BY <1>1, <2>4, <5>3 DEF ChunksInv
      <4>5. Taking'
        <5>1. Waits'
          BY <1>1, <3>1, <4>1 DEF Waits
        <5> QED
          BY <1>1, <2>9, <4>1, <5>1 DEF Taking
      <4>6. HalvesInv'
        BY <1>1, <1>6, <3>1, <4>1, <4>5 DEF HalvesInv
      <4>7. ChunksInv'
        <5>1. \A i \in P!OutSlot : out'[i].valid =>
                /\ DOMAIN out'[i] = {"valid", "ptemp", "chunk", "remain", "data"}
                /\ out'[i].ptemp = acc'.meta.rd /\ out'[i].chunk \in 0 .. accget'.count - 1
                /\ out'[i].data = want'.get[out'[i].chunk]
                /\ \A j \in P!OutSlot : out'[j].valid /\ out'[i].chunk = out'[j].chunk => i = j
          BY <1>1, <2>4, <4>1, <4>3 DEF ChunksInv
        <5>2. \A c \in 0 .. accget'.count - 1 :
                Returned(c)' \/ \E i \in P!OutSlot : out'[i].valid /\ out'[i].chunk = c
          BY <1>1, <1>6, <2>3, <2>4, <3>1, <4>1, <4>3, <4>4 DEF ChunksInv
        <5> QED
          BY <1>1, <4>2, <5>1, <5>2 DEF ChunksInv
      <4>8. AccType'
        BY <2>5, <3>1, <4>1, <4>3 DEF GetInv, AccType
      <4> QED
        BY <2>1, <2>2, <4>6, <4>7, <4>8 DEF GetInv
    <3> QED
      BY <3>4, <3>5
  <2>10. CASE Taking /\ Feeds
    <3>1. /\ accget.busy /\ call.kind = "input" /\ acc.lane = accget.count + 1 /\ acc.started
          /\ DOMAIN accget = {"busy", "accepting", "count", "pacc", "ptemp"}
          /\ accget.count \in 0 .. ACCGET_CHUNKS /\ accget.count < ACCGET_CHUNKS
          /\ accget.pacc = acc.meta.pacc /\ accget.ptemp = acc.meta.rd
          /\ call.slot \in P!OutSlot /\ ~ out[call.slot].valid
          /\ call.chunk = accget.count /\ call.data = want.get[accget.count]
          /\ acc.retire = <<>>
      BY <1>6, <2>10 DEF Taking, Feeds, GetInv, AccType, HalvesInv
    <3>2. accget' = [accget EXCEPT !.count = @ + 1, !.accepting = P!Accepts(accget.count)]
      BY <1>1, <3>1 DEF P!AccgetNext
    <3>3. /\ accget'.busy = accget.busy /\ accget'.pacc = acc.meta.pacc /\ accget'.ptemp = acc.meta.rd
          /\ accget'.count = accget.count + 1
          /\ DOMAIN accget' = {"busy", "accepting", "count", "pacc", "ptemp"}
      BY <3>1, <3>2
    <3>4. accget'.accepting = (accget.count + 1 < ACCGET_CHUNKS)
      BY <3>1, <3>2 DEF P!Accepts
    <3>5. out'[call.slot] = [valid |-> TRUE, ptemp |-> acc.meta.rd, chunk |-> accget.count,
                             remain |-> GEMM_OUTPUT_LATENCY, data |-> want.get[accget.count]]
      BY <1>1, <3>1 DEF P!OutNext
    <3>6. ASSUME NEW i \in P!OutSlot, i # call.slot
          PROVE  \/ out'[i] = out[i]
                 \/ out'[i] = P!NoOut /\ P!DueOuts # {} /\ i = P!Lowest(P!DueOuts)
                 \/ out[i].valid /\ out'[i] = [out[i] EXCEPT !.remain = @ - 1]
      BY <1>1, <3>1, <3>6 DEF P!OutNext
    <3>7. ASSUME NEW i \in P!OutSlot, i # call.slot
          PROVE  /\ out'[i].valid \in BOOLEAN
                 /\ out'[i].valid => /\ out[i].valid
                                     /\ DOMAIN out'[i] = {"valid", "ptemp", "chunk", "remain", "data"}
                                     /\ out'[i].ptemp = out[i].ptemp /\ out'[i].chunk = out[i].chunk
                                     /\ out'[i].data = out[i].data
      <4>1. out[i].valid => DOMAIN out[i] = {"valid", "ptemp", "chunk", "remain", "data"}
        BY <2>4 DEF ChunksInv
      <4>2. CASE out'[i] = out[i]
        BY <1>2, <4>1, <4>2
      <4>3. CASE out'[i] = P!NoOut
        BY <4>3 DEF P!NoOut
      <4>4. CASE out[i].valid /\ out'[i] = [out[i] EXCEPT !.remain = @ - 1]
        <5>1. out'[i].valid = out[i].valid
          BY <4>1, <4>4
        <5>2. /\ DOMAIN out'[i] = {"valid", "ptemp", "chunk", "remain", "data"}
              /\ out'[i].ptemp = out[i].ptemp /\ out'[i].chunk = out[i].chunk
              /\ out'[i].data = out[i].data
          BY <4>1, <4>4
        <5> QED
          BY <1>2, <4>4, <5>1, <5>2
      <4> QED
        BY <3>6, <3>7, <4>2, <4>3, <4>4
    <3>8. ASSUME NEW i \in P!OutSlot, out[i].valid, ~ out'[i].valid
          PROVE  Returned(out[i].chunk)
      <4>1. out[i].valid => DOMAIN out[i] = {"valid", "ptemp", "chunk", "remain", "data"}
        BY <2>4 DEF ChunksInv
      <4>2. out'[i] # [out[i] EXCEPT !.remain = @ - 1] /\ i # call.slot
        BY <3>1, <3>8, <4>1
      <4>3. P!DueOuts # {} /\ i = P!Lowest(P!DueOuts)
        BY <3>6, <3>8, <4>2
      <4> QED
        BY <1>1, <2>4, <4>3 DEF ChunksInv
    <3>9. Taking'
      <4>1. Waits'
        BY <1>1, <3>1, <3>3 DEF Waits
      <4>2. accget'.count \in 0 .. ACCGET_CHUNKS
        BY <3>1, <3>3, Sizes
      <4>3. accget'.accepting <=> accget'.count < ACCGET_CHUNKS
        BY <3>3, <3>4
      <4> QED
        BY <1>1, <3>1, <3>3, <4>1, <4>2, <4>3 DEF Taking
    <3>10. HalvesInv'
      BY <1>1, <1>6, <3>1, <3>3, <3>9 DEF HalvesInv
    <3>11. ChunksInv'
      <4>1. accget.count \in Int
        BY <3>1, Sizes
      <4>2. ASSUME NEW i \in P!OutSlot, out'[i].valid
            PROVE  /\ DOMAIN out'[i] = {"valid", "ptemp", "chunk", "remain", "data"}
                   /\ out'[i].ptemp = acc'.meta.rd /\ out'[i].chunk \in 0 .. accget'.count - 1
                   /\ out'[i].data = want'.get[out'[i].chunk]
                   /\ i # call.slot => out[i].valid /\ out'[i].chunk = out[i].chunk
                                       /\ out'[i].chunk \in 0 .. accget.count - 1
        <5>1. CASE i = call.slot
          BY <1>1, <3>1, <3>3, <3>5, <4>1, <5>1, Sizes
        <5>2. CASE i # call.slot
          <6>1. /\ out[i].valid
                /\ DOMAIN out'[i] = {"valid", "ptemp", "chunk", "remain", "data"}
                /\ out'[i].ptemp = out[i].ptemp /\ out'[i].chunk = out[i].chunk
                /\ out'[i].data = out[i].data
            BY <3>7, <4>2, <5>2
          <6>2. /\ out[i].ptemp = acc.meta.rd /\ out[i].chunk \in 0 .. accget.count - 1
                /\ out[i].data = want.get[out[i].chunk]
            BY <2>4, <6>1 DEF ChunksInv
          <6>3. out[i].chunk \in 0 .. accget'.count - 1
            BY <3>3, <4>1, <6>2
          <6> QED
            BY <1>1, <6>1, <6>2, <6>3
        <5> QED
          BY <5>1, <5>2
      <4>3. ASSUME NEW i \in P!OutSlot, out'[i].valid, NEW j \in P!OutSlot,
                   out'[j].valid, out'[i].chunk = out'[j].chunk
            PROVE  i = j
        <5>1. out'[call.slot].chunk = accget.count /\ accget.count \notin 0 .. accget.count - 1
          BY <3>5, <4>1
        <5>2. i = call.slot <=> j = call.slot
          BY <4>2, <4>3, <5>1
        <5> QED
          BY <2>4, <4>2, <4>3, <5>2 DEF ChunksInv
      <4>4. ASSUME NEW c \in 0 .. accget'.count - 1
            PROVE  Returned(c)' \/ \E i \in P!OutSlot : out'[i].valid /\ out'[i].chunk = c
        <5>1. CASE c = accget.count
          BY <3>1, <3>5, <5>1
        <5>2. CASE c # accget.count
          <6>1. c \in 0 .. accget.count - 1
            BY <3>3, <4>1, <5>2
          <6>2. Returned(c) \/ \E i \in P!OutSlot : out[i].valid /\ out[i].chunk = c
            BY <1>6, <2>4, <3>1, <6>1 DEF ChunksInv
          <6>3. ASSUME NEW i \in P!OutSlot, out[i].valid, out[i].chunk = c, ~ Returned(c)
                PROVE  out'[i].valid /\ out'[i].chunk = c
            <7>1. out'[i].valid
              BY <3>8, <6>3
            <7>2. i # call.slot
              BY <3>1, <6>3
            <7> QED
              BY <3>7, <6>3, <7>1, <7>2
          <6> QED
            BY <2>3, <6>2, <6>3
        <5> QED
          BY <5>1, <5>2
      <4> QED
        BY <1>1, <3>1, <4>2, <4>3, <4>4 DEF ChunksInv
    <3>12. AccType'
      <4>1. ASSUME NEW i \in P!OutSlot PROVE out'[i].valid \in BOOLEAN
        <5>1. out'[call.slot].valid = TRUE
          BY <3>5
        <5>2. CASE i = call.slot
          BY <5>1, <5>2
        <5>3. CASE i # call.slot
          BY <3>7, <5>3
        <5> QED
          BY <5>2, <5>3
      <4>2. accget'.busy \in BOOLEAN /\ accget'.accepting \in BOOLEAN
        BY <3>3, <3>4 DEF GetInv, AccType
      <4> QED
        BY <2>5, <4>1, <4>2
    <3> QED
      BY <2>1, <2>2, <3>10, <3>11, <3>12 DEF GetInv
  <2>11. /\ ~ acc.started => ~ accget.busy /\ call.kind = "none"
         /\ acc.started => Fired \/ Taking \/ Given
         /\ Given => ~ accget.busy /\ call.kind = "none"
         /\ Taking => Feeds \/ Waits
    BY <1>6 DEF GetInv, HalvesInv, Given, Taking
  <2> QED
    BY <2>7, <2>8, <2>9, <2>10, <2>11
<1> QED
  BY <1>5, <1>6

-----------------------------------------------------------------------------
(* The instruction: the calls of the back end.                             *)

\* What the promise reads for a new instruction is what the unit reads: a
\* temporary of a source is not the destination of anything in flight.
LEMMA SourceOfFire ==
  ASSUME alu.stage = "idle", GetInv, NEW inst \in AluInst,
         acc.busy => Apart(inst, acc.meta), NEW s \in 1 .. 2, NEW n
  PROVE  U!Source(inst, s, n) =
           IF inst.rs[s].kind = "temp" THEN <<alu_temps[inst.rs[s].temp]>>
           ELSE <<[b \in A!Byte |-> IF <<s, b>> \in A!Planes(inst, s) THEN <<n, s, b>> ELSE A!Zero]>>
<1>1. CASE inst.rs[s].kind = "temp"
  <2> DEFINE t == inst.rs[s].temp
  <2>1. inst \in A!InstType
    BY Sizes
  <2>2. t \in Temp
    BY <2>1 DEF A!InstType, A!OperandType
  <2>3. t \in TempsOf(inst)
    BY <1>1 DEF TempsOf
  <2>4. t \notin InFlight
    BY <2>3 DEF InFlight, Apart
  <2> HIDE DEF t
  <2>5. [u \in Temp |-> IF u \in InFlight THEN [c \in A!Chunk |-> <<"unknown">>]
                        ELSE alu_temps[u]][t] = alu_temps[t]
    BY <2>2, <2>4
  <2> QED
    BY <1>1, <2>5 DEF U!Source, t
<1>2. CASE inst.rs[s].kind # "temp"
  BY <1>2 DEF U!Source, U!Zero, A!Zero
<1> QED
  BY <1>1, <1>2

\* What the unit holds while nothing happens to it.
LEMMA InstKept ==
  ASSUME InstInv, UNCHANGED <<alu, alu_temps, planes, fired>>,
         want' = [inst |-> want.inst, get |-> want'.get]
  PROVE  InstInv'
<1>1. /\ alu' = alu /\ alu_temps' = alu_temps /\ planes' = planes /\ fired' = fired
      /\ want'.inst = want.inst
  OBVIOUS
<1>2. PlanesInv'
  BY <1>1 DEF InstInv, PlanesInv
<1>3. \A s, came : PlanesOf(s, came)' = PlanesOf(s, came)
  BY <1>1 DEF PlanesOf
<1>4. SourceInv'
  BY <1>1, <1>3 DEF InstInv, SourceInv, UsedSource
<1>5. StageInv'
  BY <1>1 DEF InstInv, StageInv, InFlightInst, A!WritesBack, A!WbBytes, A!ToTemp
<1>6. want' = [inst |-> want'.inst, get |-> want'.get]
  BY <1>1
<1> QED
  BY <1>1, <1>2, <1>4, <1>5, <1>6 DEF InstInv

\* A new instruction owes the result of its own operands as they are now.
LEMMA InstFire ==
  ASSUME InstInv, GetInv, NEW inst \in AluInst, FireAlu(inst)
  PROVE  InstInv'
<1> DEFINE n == fired + 1
<1>1. /\ fired < MaxFired /\ alu.stage = "idle" /\ (acc.busy => Apart(inst, acc.meta))
      /\ fired' = n /\ planes' = A!Needs(inst) /\ alu_temps' = alu_temps
      /\ alu' = [stage |-> "wait", inst |-> inst, n |-> n,
                 src |-> [s \in 1 .. 2 |-> A!Source(inst, s)],
                 valid |-> {}, mask |-> A!NoMask, result |-> <<>>, remain |-> 0, wb_byte |-> 0]
  BY DEF FireAlu, A!s0AluInstFire
<1>2. want' = [inst |-> U!Result(inst, n), get |-> want.get]
  <2>1. want = [inst |-> want.inst, get |-> want.get]
    BY DEF InstInv
  <2> QED
    BY <2>1 DEF FireAlu
<1>3. fired' \in 0 .. MaxFired /\ fired' > 0
  BY <1>1, AluGemmAssumption DEF InstInv
<1> HIDE DEF n
<1>4. PlanesInv'
  BY <1>1 DEF PlanesInv
<1>5. want'.inst = << U!Source(inst, 1, n), IF inst.binary THEN U!Source(inst, 2, n) ELSE A!Zero,
                      IF inst.masked THEN <<n, 3, 0>> ELSE A!Zero >>
  BY <1>2 DEF U!Result, U!Zero, A!Zero
<1>6. /\ want'.inst[1] = U!Source(inst, 1, n)
      /\ want'.inst[2] = IF inst.binary THEN U!Source(inst, 2, n) ELSE A!Zero
      /\ want'.inst[3] = IF inst.masked THEN <<n, 3, 0>> ELSE A!Zero
      /\ want'.inst = <<want'.inst[1], want'.inst[2], want'.inst[3]>>
  BY <1>5
<1>7. alu'.inst = inst /\ alu'.n = n /\ alu'.stage = "wait" /\ alu'.valid = {}
  BY <1>1
<1>8. ASSUME NEW s \in 1 .. 2
      PROVE  IF UsedSource(s)'
             THEN IF alu'.inst.rs[s].kind = "temp"
                  THEN want'.inst[s] = alu'.src[s]
                  ELSE /\ want'.inst[s] = PlanesOf(s, A!Planes(alu.inst, s))'
                       /\ alu'.src[s] = PlanesOf(s, alu.valid)'
             ELSE want'.inst[s] = A!Zero
  <2>1. UsedSource(s)' <=> s = 1 \/ inst.binary
    BY <1>7 DEF UsedSource
  <2>2. want'.inst[s] = IF UsedSource(s)' THEN U!Source(inst, s, n) ELSE A!Zero
    BY <1>6, <2>1
  <2>3. U!Source(inst, s, n) =
          IF inst.rs[s].kind = "temp" THEN <<alu_temps[inst.rs[s].temp]>>
          ELSE <<[b \in A!Byte |-> IF <<s, b>> \in A!Planes(inst, s) THEN <<n, s, b>> ELSE A!Zero]>>
    BY <1>1, SourceOfFire
  <2>4. alu'.src[s] = A!Source(inst, s)
    BY <1>1
  <2>5. CASE inst.rs[s].kind = "temp"
    BY <1>7, <2>2, <2>3, <2>4, <2>5 DEF A!Source
  <2>6. CASE inst.rs[s].kind # "temp"
    <3>1. PlanesOf(s, A!Planes(alu.inst, s))' =
            <<[b \in A!Byte |-> IF <<s, b>> \in A!Planes(inst, s) THEN <<n, s, b>> ELSE A!Zero]>>
      BY <1>7 DEF PlanesOf, A!Planes
    <3>2. PlanesOf(s, alu.valid)' = <<[b \in A!Byte |-> A!Zero]>>
      BY <1>7 DEF PlanesOf
    <3>3. alu'.src[s] = <<[b \in A!Byte |-> A!Zero]>>
      BY <2>4, <2>6 DEF A!Source, A!NoPlanes
    <3> QED
      BY <1>7, <2>2, <2>3, <2>6, <3>1, <3>2, <3>3
  <2> QED
    BY <2>5, <2>6
<1>9. SourceInv'
  <2>1. DOMAIN alu'.src = 1 .. 2 /\ alu'.mask = A!Zero
    BY <1>1 DEF A!NoMask
  <2> QED
    BY <1>6, <1>7, <1>8, <2>1 DEF SourceInv
<1>10. StageInv'
  <2>1. DOMAIN alu' = {"stage", "inst", "n", "src", "valid", "mask", "result", "remain", "wb_byte"}
        /\ alu'.wb_byte = 0
    BY <1>1
  <2> QED
    BY <1>1, <1>3, <1>7, <2>1 DEF StageInv, InFlightInst
<1> QED
  BY <1>1, <1>2, <1>3, <1>4, <1>9, <1>10 DEF InstInv

\* A plane goes to the source that waits for it.
LEMMA InstInput ==
  ASSUME InstInv, NEW pl \in planes, AluInput(pl)
  PROVE  InstInv'
<1>1. alu.stage = "wait"
  BY DEF InstInv, PlanesInv
<1>2. /\ alu.valid \cup planes = A!Needs(alu.inst) /\ alu.valid \cap planes = {}
      /\ alu.n = fired /\ alu.inst \in AluInst
      /\ DOMAIN alu = {"stage", "inst", "n", "src", "valid", "mask", "result", "remain", "wb_byte"}
  BY <1>1 DEF InstInv, PlanesInv, StageInv, InFlightInst
<1>3. /\ planes' = planes \ {pl} /\ fired' = fired /\ want' = want /\ alu_temps' = alu_temps
  BY DEF AluInput, A!sNAluMemInput
<1>4. alu' = IF pl[1] = 3 THEN [alu EXCEPT !.mask = <<fired, pl[1], pl[2]>>, !.valid = @ \cup {<<3, 0>>}]
             ELSE [alu EXCEPT !.src[pl[1]][1][pl[2]] = <<fired, pl[1], pl[2]>>,
                              !.valid = @ \cup {<<pl[1], pl[2]>>}]
  BY <1>1 DEF AluInput, A!sNAluMemInput
\* It is one the instruction needs.
<1>5. \/ pl = <<3, 0>> /\ alu.inst.masked
      \/ \E s \in 1 .. 2, b \in A!Byte :
           pl = <<s, b>> /\ UsedSource(s) /\ alu.inst.rs[s].kind # "temp"
  <2>1. pl \in A!Needs(alu.inst)
    BY <1>2
  <2>2. alu.inst \in A!InstType
    BY <1>2, Sizes
  <2>3. ASSUME NEW s \in 1 .. 2, pl \in A!Planes(alu.inst, s)
        PROVE  alu.inst.rs[s].kind # "temp" /\ \E b \in A!Byte : pl = <<s, b>>
    <3>1. alu.inst.rs[s].bytes \in 1 .. 4
      BY <2>2 DEF A!InstType, A!OperandType
    <3>2. CASE alu.inst.rs[s].kind = "reg"
      BY <2>3, <3>1, <3>2 DEF A!Planes, A!Byte
    <3>3. CASE alu.inst.rs[s].kind = "mask"
      BY <2>3, <3>3 DEF A!Planes, A!Byte
    <3>4. alu.inst.rs[s].kind \in {"reg", "mask"}
      BY <2>3 DEF A!Planes
    <3> QED
      BY <3>2, <3>3, <3>4
  <2>4. pl \in A!Planes(alu.inst, 1) \/ (alu.inst.binary /\ pl \in A!Planes(alu.inst, 2))
        \/ (alu.inst.masked /\ pl = <<3, 0>>)
    BY <2>1 DEF A!Needs
  <2> QED
    BY <2>3, <2>4 DEF UsedSource
<1>6. /\ alu'.stage = alu.stage /\ alu'.inst = alu.inst /\ alu'.n = alu.n
      /\ alu'.wb_byte = alu.wb_byte /\ alu'.result = alu.result
      /\ DOMAIN alu' = {"stage", "inst", "n", "src", "valid", "mask", "result", "remain", "wb_byte"}
  BY <1>2, <1>4
<1>7. alu'.valid = alu.valid \cup {pl}
  BY <1>2, <1>4, <1>5
<1>8. PlanesInv'
  BY <1>1, <1>2, <1>3, <1>6, <1>7 DEF PlanesInv, A!Needs, A!Planes
<1>9. SourceInv'
  <2>1. /\ want.inst = <<want.inst[1], want.inst[2], want.inst[3]>>
        /\ DOMAIN alu.src = 1 .. 2
        /\ \A s \in 1 .. 2 :
             IF UsedSource(s)
             THEN IF alu.inst.rs[s].kind = "temp"
                  THEN want.inst[s] = alu.src[s]
                  ELSE /\ want.inst[s] = PlanesOf(s, A!Planes(alu.inst, s))
                       /\ alu.src[s] = PlanesOf(s, alu.valid)
             ELSE want.inst[s] = A!Zero
        /\ want.inst[3] = IF alu.inst.masked THEN <<alu.n, 3, 0>> ELSE A!Zero
        /\ alu.mask = IF <<3, 0>> \in alu.valid THEN <<alu.n, 3, 0>> ELSE A!Zero
    BY <1>1 DEF InstInv, SourceInv
  <2>2. \A s : UsedSource(s)' <=> UsedSource(s)
    BY <1>6 DEF UsedSource
  <2>3. \A s : PlanesOf(s, A!Planes(alu.inst, s))' = PlanesOf(s, A!Planes(alu.inst, s))
    BY <1>6 DEF PlanesOf, A!Planes
  <2>4. \A s : PlanesOf(s, alu.valid)' = <<[b \in A!Byte |-> IF <<s, b>> \in alu'.valid THEN <<alu.n, s, b>> ELSE A!Zero]>>
    BY <1>6 DEF PlanesOf
  <2>5. CASE pl = <<3, 0>>
    <3>1. alu'.src = alu.src /\ alu'.mask = <<alu.n, 3, 0>>
      BY <1>2, <1>4, <2>5
    <3>2. \A s \in 1 .. 2 : PlanesOf(s, alu.valid)' = PlanesOf(s, alu.valid)
      <4>1. \A s \in 1 .. 2, b \in A!Byte : <<s, b>> \in alu'.valid <=> <<s, b>> \in alu.valid
        BY <1>7, <2>5
      <4> QED
        BY <2>4, <4>1 DEF PlanesOf
    <3>3. <<3, 0>> \in alu'.valid
      BY <1>7, <2>5
    <3> QED
      BY <1>3, <1>6, <2>1, <2>2, <2>3, <3>1, <3>2, <3>3 DEF SourceInv
  <2>6. ASSUME NEW t \in 1 .. 2, NEW b \in A!Byte, pl = <<t, b>>, UsedSource(t),
               alu.inst.rs[t].kind # "temp"
        PROVE  SourceInv'
    <3>1. alu' = [alu EXCEPT !.src[t][1][b] = <<fired, t, b>>, !.valid = @ \cup {<<t, b>>}]
      BY <1>4, <2>6
    <3>2. alu'.mask = alu.mask /\ alu'.src = [alu.src EXCEPT ![t][1][b] = <<fired, t, b>>]
      BY <1>2, <3>1
    <3>3. DOMAIN alu'.src = 1 .. 2 /\ \A s \in 1 .. 2 : s # t => alu'.src[s] = alu.src[s]
      BY <2>1, <3>2
    <3>4. alu'.src[t] = [alu.src[t] EXCEPT ![1][b] = <<alu.n, t, b>>]
      BY <1>2, <2>1, <3>2
    <3>5. alu.src[t] = <<[a \in A!Byte |-> IF <<t, a>> \in alu.valid THEN <<alu.n, t, a>> ELSE A!Zero]>>
      BY <2>1, <2>6 DEF PlanesOf
    <3>6. alu'.src[t] = <<[[a \in A!Byte |-> IF <<t, a>> \in alu.valid THEN <<alu.n, t, a>> ELSE A!Zero]
                           EXCEPT ![b] = <<alu.n, t, b>>]>>
      BY <3>4, <3>5
    <3>7. [[a \in A!Byte |-> IF <<t, a>> \in alu.valid THEN <<alu.n, t, a>> ELSE A!Zero]
             EXCEPT ![b] = <<alu.n, t, b>>]
          = [a \in A!Byte |-> IF <<t, a>> \in alu'.valid THEN <<alu.n, t, a>> ELSE A!Zero]
      <4>1. \A a \in A!Byte : <<t, a>> \in alu'.valid <=> (<<t, a>> \in alu.valid \/ a = b)
        BY <1>7, <2>6
      <4> QED
        BY <4>1
    <3>8. alu'.src[t] = PlanesOf(t, alu.valid)'
      BY <2>4, <3>6, <3>7
    <3>9. \A s \in 1 .. 2 : s # t => PlanesOf(s, alu.valid)' = PlanesOf(s, alu.valid)
      <4>1. \A s \in 1 .. 2, a \in A!Byte : s # t => (<<s, a>> \in alu'.valid <=> <<s, a>> \in alu.valid)
        BY <1>7, <2>6
      <4> QED
        BY <2>4, <4>1 DEF PlanesOf
    <3>10. <<3, 0>> \in alu'.valid <=> <<3, 0>> \in alu.valid
      BY <1>7, <2>6
    <3>11. ASSUME NEW s \in 1 .. 2
           PROVE  IF UsedSource(s)'
                  THEN IF alu'.inst.rs[s].kind = "temp"
                       THEN want'.inst[s] = alu'.src[s]
                       ELSE /\ want'.inst[s] = PlanesOf(s, A!Planes(alu.inst, s))'
                            /\ alu'.src[s] = PlanesOf(s, alu.valid)'
                  ELSE want'.inst[s] = A!Zero
      <4>1. CASE s = t
        BY <1>3, <1>6, <2>1, <2>2, <2>3, <2>6, <3>8, <4>1
      <4>2. CASE s # t
        BY <1>3, <1>6, <2>1, <2>2, <2>3, <3>3, <3>9, <4>2
      <4> QED
        BY <4>1, <4>2
    <3> QED
      BY <1>3, <1>6, <2>1, <3>2, <3>3, <3>10, <3>11 DEF SourceInv
  <2> QED
    BY <1>5, <2>5, <2>6
<1>10. StageInv'
  BY <1>1, <1>3, <1>6 DEF InstInv, StageInv, InFlightInst
<1> QED
  BY <1>3, <1>8, <1>9, <1>10 DEF InstInv

-----------------------------------------------------------------------------
(* The instruction: the ticks.                                             *)

\* When it starts, its operands are those it owes the result of.
LEMMA StartsWhole ==
  ASSUME InstInv, A!Starts
  PROVE  A!Execute = want.inst /\ planes = {}
<1>1. alu.stage = "wait" /\ alu.valid = A!Needs(alu.inst) /\ planes = {}
  BY DEF A!Starts, InstInv, PlanesInv
<1>2. SourceInv /\ alu.inst \in AluInst
  BY <1>1 DEF InstInv, StageInv, InFlightInst
<1>3. \A s \in 1 .. 2 : UsedSource(s) => want.inst[s] = alu.src[s]
  <2> SUFFICES ASSUME NEW s \in 1 .. 2, UsedSource(s)
               PROVE  want.inst[s] = alu.src[s]
    OBVIOUS
  <2>1. CASE alu.inst.rs[s].kind = "temp"
    BY <1>1, <1>2, <2>1 DEF SourceInv
  <2>2. CASE alu.inst.rs[s].kind # "temp"
    <3>1. want.inst[s] = PlanesOf(s, A!Planes(alu.inst, s)) /\ alu.src[s] = PlanesOf(s, alu.valid)
      BY <1>1, <1>2, <2>2 DEF SourceInv
    <3>2. \A b \in A!Byte : <<s, b>> \in A!Planes(alu.inst, s) <=> <<s, b>> \in alu.valid
      <4>1. \A t \in 1 .. 2 : \A b : <<s, b>> \in A!Planes(alu.inst, t) => t = s
        BY DEF A!Planes
      <4>2. A!Planes(alu.inst, s) \subseteq alu.valid
        BY <1>1 DEF A!Needs, UsedSource
      <4>3. \A b : <<s, b>> \in A!Needs(alu.inst) =>
              \/ <<s, b>> \in A!Planes(alu.inst, 1) \/ <<s, b>> \in A!Planes(alu.inst, 2)
        BY DEF A!Needs
      <4> QED
        BY <1>1, <4>1, <4>2, <4>3
    <3>3. PlanesOf(s, A!Planes(alu.inst, s)) = PlanesOf(s, alu.valid)
      BY <3>2 DEF PlanesOf
    <3> QED
      BY <3>1, <3>3
  <2> QED
    BY <2>1, <2>2
<1>4. want.inst[1] = alu.src[1]
  BY <1>3 DEF UsedSource
<1>5. want.inst[2] = IF alu.inst.binary THEN alu.src[2] ELSE A!Zero
  BY <1>1, <1>2, <1>3 DEF SourceInv, UsedSource
<1>6. want.inst[3] = IF alu.inst.masked THEN alu.mask ELSE A!Zero
  <2>1. alu.inst.masked => <<3, 0>> \in alu.valid
    BY <1>1 DEF A!Needs
  <2> QED
    BY <1>1, <1>2, <2>1 DEF SourceInv
<1>7. want.inst = <<want.inst[1], want.inst[2], want.inst[3]>>
  BY <1>1, <1>2 DEF SourceInv
<1>8. <<want.inst[1], want.inst[2], want.inst[3]>> = A!Execute
  BY <1>4, <1>5, <1>6 DEF A!Execute
<1> QED
  BY <1>1, <1>7, <1>8

\* From then on it has the result it owes.
LEMMA ResultIsOwed ==
  ASSUME InstInv, A!Starts \/ alu.stage \in {"exec", "wb"}
  PROVE  A!Result = want.inst /\ planes = {}
<1>1. CASE A!Starts
  BY <1>1, StartsWhole DEF A!Result
<1>2. CASE ~ A!Starts
  BY <1>2 DEF A!Result, InstInv, StageInv, PlanesInv
<1> QED
  BY <1>1, <1>2

\* Planes are counted from zero up to the last one.
LEMMA WbFacts ==
  ASSUME InstInv, A!WbActive
  PROVE  /\ A!WritesBack /\ ~ A!ToTemp /\ A!WbBytes \in 1 .. 4
         /\ alu.wb_byte \in 0 .. A!WbBytes - 1
         /\ A!WbLast <=> alu.wb_byte + 1 = A!WbBytes
         /\ A!Starts \/ alu.stage \in {"exec", "wb"}
<1>1. A!WritesBack /\ (A!Starts \/ alu.stage \in {"exec", "wb"})
  BY DEF A!WbActive, A!Finishes, InstInv, StageInv
<1>2. ~ A!ToTemp
  BY <1>1 DEF A!ToTemp, A!WritesBack
<1>3. A!WbBytes \in 1 .. 4
  <2>1. alu.inst \in A!InstType
    BY <1>1, Sizes DEF InstInv, StageInv, InFlightInst, A!WritesBack
  <2>2. alu.inst.rd.bytes \in 1 .. 4
    BY <2>1 DEF A!InstType, A!OperandType
  <2> QED
    BY <2>2 DEF A!WbBytes
<1>4. alu.wb_byte \in 0 .. A!WbBytes - 1
  <2>1. CASE alu.stage = "wb"
    BY <2>1 DEF InstInv, StageInv
  <2>2. CASE alu.stage # "wb"
    <3>1. alu.stage \in {"wait", "exec"}
      BY <2>2 DEF A!WbActive, A!Finishes, A!Starts
    <3>2. alu.wb_byte = 0
      BY <3>1 DEF InstInv, StageInv
    <3> QED
      BY <1>3, <3>2
  <2> QED
    BY <2>1, <2>2
<1>5. A!WbLast <=> alu.wb_byte + 1 = A!WbBytes
  BY <1>3, <1>4 DEF A!WbLast
<1> QED
  BY <1>1, <1>2, <1>3, <1>4, <1>5

\* The five steps of the instruction in a tick.

\* The instruction gives its last plane, or has none to give, and retires.
RetireStep(wbTaken, retireTaken) ==
  /\ A!Retires(wbTaken)
  /\ InFlightInst /\ planes = {}
  /\ alu' = [alu EXCEPT !.stage = IF retireTaken THEN "idle" ELSE "retire",
                        !.result = A!Result]
  /\ A!ToTemp => A!TempsNow[alu.inst.rd.temp] = [c \in A!Chunk |-> Append(want.inst, c)]
  /\ ~ A!WritesBack => alu.wb_byte = 0

\* It gives a plane that is not its last, or waits for the port.
PlaneStep(wbTaken) ==
  /\ ~ A!Retires(wbTaken) /\ A!WbActive /\ planes = {}
  /\ A!Result = want.inst /\ A!TempsNow = alu_temps
  /\ alu' = [alu EXCEPT !.stage = "wb", !.result = A!Result,
                        !.wb_byte = IF wbTaken THEN @ + 1 ELSE @]
  /\ wbTaken => alu.wb_byte + 1 < A!WbBytes

\* It has its last source and enters the execution.
StartStep(wbTaken) ==
  /\ ~ A!Retires(wbTaken) /\ ~ A!WbActive /\ A!TempsNow = alu_temps
  /\ A!Starts /\ A!Result = want.inst /\ planes = {}
  /\ alu' = [alu EXCEPT !.stage = "exec", !.result = A!Result,
                        !.remain = A!Latency(alu.inst)]

\* It is one cycle nearer to the end of its execution.
RunStep(wbTaken) ==
  /\ ~ A!Retires(wbTaken) /\ ~ A!WbActive /\ A!TempsNow = alu_temps
  /\ alu.stage = "exec" /\ alu' = [alu EXCEPT !.remain = @ - 1]

\* It waits for a source, or there is no instruction.
RestStep(wbTaken) ==
  /\ ~ A!Retires(wbTaken) /\ ~ A!WbActive /\ A!TempsNow = alu_temps
  /\ alu.stage # "retire" /\ alu' = alu

\* The instruction's side of the tick, case by case (lines 650 to 793).
LEMMA InstCases ==
  ASSUME InstInv, NEW wbTaken \in BOOLEAN, NEW retireTaken \in BOOLEAN,
         alu' = A!AluNext(wbTaken, retireTaken)
  PROVE  \/ RetireStep(wbTaken, retireTaken)
         \/ PlaneStep(wbTaken)
         \/ StartStep(wbTaken)
         \/ RunStep(wbTaken)
         \/ RestStep(wbTaken)
<1>1. CASE A!Retires(wbTaken)
  <2>1. alu' = [alu EXCEPT !.stage = IF retireTaken THEN "idle" ELSE "retire", !.result = A!Result]
    BY <1>1 DEF A!AluNext
  <2>2. InFlightInst
    BY <1>1 DEF InFlightInst, A!Retires, A!Finishes, A!Starts, A!WbActive
  <2>3. CASE alu.stage = "retire"
    <3>1. ~ A!Finishes
      BY <2>3 DEF A!Finishes, A!Starts
    <3>2. planes = {} /\ A!TempsNow = alu_temps
      BY <2>3, <3>1 DEF InstInv, PlanesInv, A!TempsNow
    <3> QED
      BY <1>1, <2>1, <2>2, <2>3, <3>2 DEF RetireStep, InstInv, StageInv
  <2>4. CASE alu.stage # "retire" /\ A!WbActive
    <3>1. planes = {} /\ A!WritesBack /\ ~ A!ToTemp
      BY <2>4, WbFacts, ResultIsOwed
    <3> QED
      BY <1>1, <2>1, <2>2, <3>1 DEF RetireStep
  <2>5. CASE alu.stage # "retire" /\ ~ A!WbActive
    <3>1. A!Finishes /\ ~ A!WritesBack
      BY <1>1, <2>5 DEF A!Retires
    <3>2. A!Result = want.inst /\ planes = {}
      BY <3>1, ResultIsOwed DEF A!Finishes
    <3>3. ASSUME A!ToTemp
          PROVE  A!TempsNow[alu.inst.rd.temp] = [c \in A!Chunk |-> Append(want.inst, c)]
      <4>1. A!TempsNow = [alu_temps EXCEPT ![alu.inst.rd.temp] = [c \in A!Chunk |-> Append(A!Result, c)]]
        BY <3>1, <3>3 DEF A!TempsNow
      <4>2. alu.inst.rd.temp \in DOMAIN alu_temps
        <5>1. alu.inst \in A!InstType
          BY <2>2, Sizes DEF InstInv, StageInv
        <5>2. alu.inst.rd.temp \in Temp
          BY <5>1 DEF A!InstType, A!OperandType
        <5> QED
          BY <5>2 DEF InstInv
      <4> QED
        BY <3>2, <4>1, <4>2
    <3>4. alu.wb_byte = 0
      BY <3>1 DEF A!Finishes, A!Starts, InstInv, StageInv
    <3> QED
      BY <1>1, <2>1, <2>2, <3>2, <3>3, <3>4 DEF RetireStep
  <2> QED
    BY <2>3, <2>4, <2>5
<1>2. CASE ~ A!Retires(wbTaken) /\ A!WbActive
  <2>1. A!Result = want.inst /\ planes = {} /\ ~ A!ToTemp
    BY <1>2, WbFacts, ResultIsOwed
  <2>2. A!TempsNow = alu_temps
    BY <2>1 DEF A!TempsNow
  <2>3. wbTaken => alu.wb_byte + 1 < A!WbBytes
    <3>1. wbTaken => ~ A!WbLast
      BY <1>2 DEF A!Retires
    <3>2. A!WbBytes \in 1 .. 4 /\ alu.wb_byte \in 0 .. A!WbBytes - 1
      BY <1>2, WbFacts
    <3> QED
      BY <3>1, <3>2 DEF A!WbLast
  <2> QED
    BY <1>2, <2>1, <2>2, <2>3 DEF PlaneStep, A!AluNext
<1>3. CASE ~ A!Retires(wbTaken) /\ ~ A!WbActive
  <2>1. ~ A!Finishes
    BY <1>3 DEF A!Retires, A!WbActive
  <2>2. A!TempsNow = alu_temps
    BY <2>1 DEF A!TempsNow
  <2>3. alu.stage # "retire"
    BY <1>3 DEF A!Retires
  <2>4. CASE A!Starts
    <3>1. A!Result = want.inst /\ planes = {}
      BY <2>4, ResultIsOwed
    <3>2. alu' = [alu EXCEPT !.stage = "exec", !.result = A!Result, !.remain = A!Latency(alu.inst)]
      BY <1>3, <2>4 DEF A!AluNext
    <3> QED
      BY <1>3, <2>2, <2>4, <3>1, <3>2 DEF StartStep
  <2>5. CASE ~ A!Starts /\ alu.stage = "exec"
    <3>1. alu' = [alu EXCEPT !.remain = @ - 1]
      BY <1>3, <2>5 DEF A!AluNext
    <3> QED
      BY <1>3, <2>2, <2>5, <3>1 DEF RunStep
  <2>6. CASE ~ A!Starts /\ alu.stage # "exec"
    <3>1. alu' = alu
      BY <1>3, <2>6 DEF A!AluNext
    <3> QED
      BY <1>3, <2>2, <2>3, <3>1 DEF RestStep
  <2> QED
    BY <2>4, <2>5, <2>6
<1> QED
  BY <1>1, <1>2, <1>3

\* The tick of the ALU keeps what it owes.
LEMMA InstAluTick ==
  ASSUME InstInv, NEW wbTaken \in BOOLEAN, NEW retireTaken \in BOOLEAN,
         AluTick(wbTaken, retireTaken)
  PROVE  InstInv'
<1>1. /\ alu' = A!AluNext(wbTaken, retireTaken) /\ alu_temps' = A!TempsNow
      /\ planes' = planes /\ fired' = fired /\ want' = want
  BY DEF AluTick, A!Tick, backend
<1>2. /\ DOMAIN alu = {"stage", "inst", "n", "src", "valid", "mask", "result", "remain", "wb_byte"}
      /\ StageInv /\ PlanesInv
  BY DEF InstInv, StageInv
<1>3. alu'.inst = alu.inst /\ alu'.n = alu.n
  BY <1>1, SameInst
<1>4. DOMAIN alu' = {"stage", "inst", "n", "src", "valid", "mask", "result", "remain", "wb_byte"}
  BY <1>1, <1>2 DEF A!AluNext
<1>5. alu_temps' = [t \in Temp |-> [c \in A!Chunk |-> alu_temps'[t][c]]]
  <2>1. alu_temps = [t \in Temp |-> [c \in A!Chunk |-> alu_temps[t][c]]]
    BY DEF InstInv
  <2>2. CASE A!TempsNow = alu_temps
    BY <1>1, <2>1, <2>2
  <2>3. CASE A!TempsNow = [alu_temps EXCEPT ![alu.inst.rd.temp] = [c \in A!Chunk |-> Append(A!Result, c)]]
    BY <1>1, <2>1, <2>3
  <2> QED
    BY <2>2, <2>3 DEF A!TempsNow
<1>6. /\ A!WritesBack' <=> alu'.stage # "idle" /\ alu.inst.rd.kind \in {"reg", "mask"}
      /\ A!ToTemp' <=> alu'.stage # "idle" /\ alu.inst.rd.kind = "temp"
      /\ A!WbBytes' = A!WbBytes
  BY <1>3 DEF A!WritesBack, A!ToTemp, A!WbBytes
<1>7. ASSUME alu'.stage # "wait", planes = {}
      PROVE  PlanesInv' /\ SourceInv'
  BY <1>1, <1>7 DEF PlanesInv, SourceInv
<1>8. alu'.stage # "idle" => alu.stage # "idle"
  BY <1>1, SameInst
<1>9. CASE RetireStep(wbTaken, retireTaken)
  <2>0. /\ A!Retires(wbTaken)
        /\ InFlightInst /\ planes = {}
        /\ alu' = [alu EXCEPT !.stage = IF retireTaken THEN "idle" ELSE "retire",
                              !.result = A!Result]
        /\ A!ToTemp => A!TempsNow[alu.inst.rd.temp] = [c \in A!Chunk |-> Append(want.inst, c)]
        /\ ~ A!WritesBack => alu.wb_byte = 0
    BY <1>9 DEF RetireStep
  <2>1. alu'.stage \in {"idle", "retire"} /\ alu'.wb_byte = alu.wb_byte
    BY <1>2, <2>0
  <2>2. alu'.stage = "retire" /\ ~ A!WritesBack' => alu'.wb_byte = 0
    BY <1>6, <2>0, <2>1 DEF A!WritesBack, InFlightInst
  <2>3. alu'.stage = "retire" /\ A!ToTemp' =>
          alu_temps'[alu'.inst.rd.temp] = [c \in A!Chunk |-> Append(want'.inst, c)]
    BY <1>1, <1>3, <1>6, <2>0 DEF A!ToTemp, InFlightInst
  <2>4. StageInv'
    BY <1>1, <1>2, <1>3, <1>4, <1>8, <2>1, <2>2, <2>3 DEF StageInv, InFlightInst
  <2> QED
    BY <1>1, <1>5, <1>7, <2>0, <2>1, <2>4 DEF InstInv
<1>10. CASE PlaneStep(wbTaken)
  <2>0. /\ ~ A!Retires(wbTaken) /\ A!WbActive /\ planes = {}
        /\ A!Result = want.inst /\ A!TempsNow = alu_temps
        /\ alu' = [alu EXCEPT !.stage = "wb", !.result = A!Result,
                              !.wb_byte = IF wbTaken THEN @ + 1 ELSE @]
        /\ wbTaken => alu.wb_byte + 1 < A!WbBytes
    BY <1>10 DEF PlaneStep
  <2>1. /\ A!WritesBack /\ A!WbBytes \in 1 .. 4 /\ alu.wb_byte \in 0 .. A!WbBytes - 1
    BY <2>0, WbFacts
  <2>2. /\ alu'.stage = "wb" /\ alu'.result = want.inst
        /\ alu'.wb_byte = IF wbTaken THEN alu.wb_byte + 1 ELSE alu.wb_byte
    BY <1>2, <2>0
  <2>3. alu'.wb_byte \in 0 .. A!WbBytes' - 1
    BY <1>6, <2>0, <2>1, <2>2
  <2>4. A!WritesBack'
    BY <1>6, <2>1, <2>2 DEF A!WritesBack
  <2>5. StageInv'
    BY <1>1, <1>2, <1>3, <1>4, <1>8, <2>2, <2>3, <2>4 DEF StageInv, InFlightInst
  <2> QED
    BY <1>1, <1>5, <1>7, <2>0, <2>2, <2>5 DEF InstInv
<1>11. CASE StartStep(wbTaken)
  <2>0. /\ ~ A!Retires(wbTaken) /\ ~ A!WbActive /\ A!TempsNow = alu_temps
        /\ A!Starts /\ A!Result = want.inst /\ planes = {}
        /\ alu' = [alu EXCEPT !.stage = "exec", !.result = A!Result,
                              !.remain = A!Latency(alu.inst)]
    BY <1>11 DEF StartStep
  <2>1. alu'.stage = "exec" /\ alu'.result = want.inst /\ alu'.wb_byte = alu.wb_byte
    BY <1>2, <2>0
  <2>2. alu.wb_byte = 0
    BY <1>2, <2>0 DEF A!Starts, StageInv
  <2>3. StageInv'
    BY <1>1, <1>2, <1>3, <1>4, <1>8, <2>1, <2>2 DEF StageInv, InFlightInst
  <2> QED
    BY <1>1, <1>5, <1>7, <2>0, <2>1, <2>3 DEF InstInv
<1>12. CASE RunStep(wbTaken)
  <2>0. /\ ~ A!Retires(wbTaken) /\ ~ A!WbActive /\ A!TempsNow = alu_temps
        /\ alu.stage = "exec" /\ alu' = [alu EXCEPT !.remain = @ - 1]
    BY <1>12 DEF RunStep
  <2>1. alu'.stage = "exec" /\ alu'.result = alu.result /\ alu'.wb_byte = alu.wb_byte
    BY <1>2, <2>0
  <2>2. planes = {}
    BY <1>2, <2>0 DEF PlanesInv
  <2>3. StageInv'
    BY <1>1, <1>2, <1>3, <1>4, <1>8, <2>0, <2>1 DEF StageInv, InFlightInst
  <2> QED
    BY <1>1, <1>5, <1>7, <2>1, <2>2, <2>3 DEF InstInv
<1>13. CASE RestStep(wbTaken)
  <2>0. /\ ~ A!Retires(wbTaken) /\ ~ A!WbActive /\ A!TempsNow = alu_temps
        /\ alu.stage # "retire" /\ alu' = alu
    BY <1>13 DEF RestStep
  <2>1. want = [inst |-> want.inst, get |-> want.get]
    BY DEF InstInv
  <2>2. want' = [inst |-> want.inst, get |-> want'.get]
    BY <1>1, <2>1
  <2> QED
    BY <1>1, <2>0, <2>2, InstKept
<1> QED
  BY <1>1, <1>9, <1>10, <1>11, <1>12, <1>13, InstCases

\* The tick of the matrix unit writes another temporary than the one an
\* instruction has left its result in.
LEMMA InstGemmTick ==
  ASSUME InstInv, GetInv, GemmTick
  PROVE  InstInv'
<1>1. alu' = alu /\ planes' = planes /\ fired' = fired /\ want' = want
  BY DEF GemmTick, backend
<1>2. want = [inst |-> want.inst, get |-> want.get]
  BY DEF InstInv
<1>3. CASE P!DueOuts = {}
  <2>1. alu_temps' = alu_temps
    BY <1>3 DEF GemmTick
  <2>2. want' = [inst |-> want.inst, get |-> want'.get]
    BY <1>1, <1>2
  <2> QED
    BY <1>1, <2>1, <2>2, InstKept
<1>4. CASE P!DueOuts # {}
  <2> DEFINE d == out[P!Lowest(P!DueOuts)].chunk
  <2>1. /\ acc.busy /\ d \in A!Chunk
        /\ alu_temps' = [alu_temps EXCEPT ![acc.meta.rd][d] = want.get[d]]
    BY <1>4, ReturnsChunk
  <2> HIDE DEF d
  <2>2. acc.meta \in Meta /\ (InFlightInst => Apart(alu.inst, acc.meta))
    BY <2>1 DEF GetInv, SumsInv
  <2>3. acc.meta.rd \in Temp
    BY <2>2, Sizes
  <2>4. alu_temps = [t \in Temp |-> [c \in A!Chunk |-> alu_temps[t][c]]]
    BY DEF InstInv
  <2>5. alu_temps' = [t \in Temp |-> [c \in A!Chunk |-> alu_temps'[t][c]]]
    BY <2>1, <2>3, <2>4
  <2>6. A!ToTemp => acc.meta.rd # alu.inst.rd.temp
    BY <2>2 DEF A!ToTemp, InFlightInst, Apart, DestOf
  <2>7. A!ToTemp => alu_temps'[alu.inst.rd.temp] = alu_temps[alu.inst.rd.temp]
    <3>1. A!ToTemp => alu.inst.rd.temp \in Temp
      <4>1. A!ToTemp => alu.inst \in A!InstType
        BY Sizes DEF A!ToTemp, InstInv, StageInv, InFlightInst
      <4> QED
        BY <4>1 DEF A!InstType, A!OperandType
    <3> QED
      BY <2>1, <2>4, <2>6, <3>1
  <2>8. PlanesInv'
    BY <1>1 DEF InstInv, PlanesInv
  <2>9. SourceInv'
    <3>1. \A s, came : PlanesOf(s, came)' = PlanesOf(s, came)
      BY <1>1 DEF PlanesOf
    <3> QED
      BY <1>1, <3>1 DEF InstInv, SourceInv, UsedSource
  <2>10. StageInv'
    <3>1. /\ (A!WritesBack' <=> A!WritesBack) /\ (A!ToTemp' <=> A!ToTemp) /\ A!WbBytes' = A!WbBytes
      BY <1>1 DEF A!WritesBack, A!ToTemp, A!WbBytes
    <3> QED
      BY <1>1, <2>7, <3>1 DEF InstInv, StageInv, InFlightInst
  <2> QED
    BY <1>1, <2>5, <2>8, <2>9, <2>10 DEF InstInv
<1> QED
  BY <1>3, <1>4

-----------------------------------------------------------------------------
(* The invariant and what it shows.                                        *)

\* Nothing is in flight at the start.
LEMMA PathInit == Init => InstInv /\ GetInv
<1> SUFFICES ASSUME Init PROVE InstInv /\ GetInv
  OBVIOUS
<1>1. InstInv
  <2>1. alu.stage = "idle" /\ alu.wb_byte = 0 /\ fired = 0 /\ planes = {}
        /\ DOMAIN alu = {"stage", "inst", "n", "src", "valid", "mask", "result", "remain", "wb_byte"}
    BY DEF Init, A!AluInit
  <2>2. alu_temps = [t \in Temp |-> [c \in A!Chunk |-> alu_temps[t][c]]]
    BY DEF Init, A!AluInit, A!NoTile
  <2>3. want = [inst |-> want.inst, get |-> want.get]
    BY DEF Init
  <2>4. fired \in 0 .. MaxFired
    BY <2>1, AluGemmAssumption
  <2> QED
    BY <2>1, <2>2, <2>3, <2>4 DEF InstInv, PlanesInv, SourceInv, StageInv, InFlightInst
<1>2. /\ ticked = {} /\ ~ acc.busy /\ acc.retire = <<>> /\ call.kind = "none" /\ ~ accget.busy
      /\ acc.busy \in BOOLEAN /\ acc.started \in BOOLEAN /\ accget.busy \in BOOLEAN
  BY DEF Init, A!AluInit, A!NoAcc, P!AccgetInit, P!Idle, P!NoCall
<1>3. DOMAIN out = P!OutSlot /\ \A i \in P!OutSlot : out[i].valid = FALSE
  BY DEF Init, P!AccgetInit, P!NoOut
<1>4. NoneOut /\ P!DueOuts = {}
  BY <1>3 DEF NoneOut, P!DueOuts
<1>5. AccType
  BY <1>2, <1>3 DEF AccType
<1>6. HalvesInv
  BY <1>2, <1>4 DEF HalvesInv
<1>7. ChunksInv
  BY <1>2, <1>3, <1>4 DEF ChunksInv
<1>8. SumsInv /\ AccumulatorComplete
  BY <1>2 DEF SumsInv, AccumulatorComplete
<1> QED
  BY <1>1, <1>5, <1>6, <1>7, <1>8 DEF GetInv

\* Every step keeps both halves.
LEMMA PathStep == IInv /\ [Next]_vars => InstInv' /\ GetInv'
<1> SUFFICES ASSUME IInv, [Next]_vars PROVE InstInv' /\ GetInv'
  OBVIOUS
<1>0. B!GemmInv /\ B!SumsOwn /\ InstInv /\ GetInv
  BY DEF IInv
<1>1. want = [inst |-> want.inst, get |-> want.get]
  BY <1>0 DEF InstInv
<1>2. CASE Service
  <2>1. ticked = {}
    BY <1>2 DEF Service
  <2>2. CASE (\E p \in Pacc : FireGemm(p)) \/ (\E o \in G!Operand : GemmInput(o))
    <3>1. UNCHANGED <<alu, alu_temps, planes, fired>> /\ want' = want
      BY <2>2 DEF FireGemm, GemmInput, aluVars, backend
    <3>2. want' = [inst |-> want.inst, get |-> want'.get]
      BY <1>1, <3>1
    <3> QED
      BY <1>0, <2>2, <3>1, <3>2, InstKept, GetGemmCalls
  <2>3. ASSUME NEW inst \in AluInst, FireAlu(inst)
        PROVE  InstInv' /\ GetInv'
    BY <1>0, <2>3, InstFire, GetAluCalls
  <2>4. ASSUME NEW pl \in planes, AluInput(pl)
        PROVE  InstInv' /\ GetInv'
    BY <1>0, <2>4, InstInput, GetAluCalls
  <2>5. ASSUME NEW m \in Meta, StartAccget(m)
        PROVE  InstInv' /\ GetInv'
    <3>1. UNCHANGED <<alu, alu_temps, planes, fired>>
      BY <2>5 DEF StartAccget, A!s0AccgetStart
    <3>2. want' = [inst |-> want.inst, get |-> want'.get]
      BY <1>1, <2>5 DEF StartAccget
    <3> QED
      BY <1>0, <2>1, <2>5, <3>1, <3>2, InstKept, GetStart
  <2> QED
    BY <1>2, <2>2, <2>3, <2>4, <2>5 DEF Service
<1>3. ASSUME NEW wbTaken \in BOOLEAN, NEW retireTaken \in BOOLEAN, AluTick(wbTaken, retireTaken)
      PROVE  InstInv' /\ GetInv'
  BY <1>0, <1>3, InstAluTick, GetAluTick
<1>4. CASE GemmTick
  BY <1>0, <1>4, InstGemmTick, GetGemmTick
<1>5. CASE Commit
  <2>1. UNCHANGED <<alu, alu_temps, planes, fired>> /\ want' = want
    BY <1>5 DEF Commit, aluVars, backend
  <2>2. want' = [inst |-> want.inst, get |-> want'.get]
    BY <1>1, <2>1
  <2> QED
    BY <1>0, <1>5, <2>1, <2>2, InstKept, GetCommit
<1>6. CASE UNCHANGED vars
  <2>1. /\ UNCHANGED <<alu, alu_temps, planes, fired>> /\ want' = want
        /\ UNCHANGED <<acc, accgetVars, alu_temps, ticked>> /\ paccs' = paccs /\ insts' = insts
    BY <1>6 DEF vars, aluVars, accgetVars, backend, gemm, gemmData, gemmClient
  <2>2. want' = [inst |-> want.inst, get |-> want'.get]
    BY <1>1, <2>1
  <2>3. acc.busy => Multiplications(acc.meta.pacc)' = Multiplications(acc.meta.pacc)
    BY <2>1 DEF Multiplications
  <2>4. acc.busy /\ alu'.stage # "idle" => Apart(alu'.inst, acc.meta)
    BY <1>0, <2>1 DEF GetInv, SumsInv, InFlightInst
  <2> QED
    BY <1>0, <2>1, <2>2, <2>3, <2>4, InstKept, GetKept
<1> QED
  BY <1>2, <1>3, <1>4, <1>5, <1>6 DEF Next

\* The matrix unit of the two keeps what Gemm promises.
LEMMA GemmKeeps == Spec => [](B!GemmInv /\ B!SumsOwn)
<1>1. /\ GEMM_LAST_LEVEL_LATENCY =< TILE_SIZE /\ NoPacc \notin Pacc
      /\ GEMM_LANE_SIZE \in Nat \ {0} /\ TILE_SIZE \in Nat \ {0}
      /\ MaxInsts \in Nat /\ GEMM_LAST_LEVEL_LATENCY \in Nat \ {0}
  BY GemmSizes
<1>2. B!Spec => []B!GemmInv
  BY <1>1, B!Invariance
<1>3. B!Spec => []B!SumsOwn
  BY <1>1, B!SumsAreOwn
<1>4. Spec => B!Spec
  BY GemmInit, GemmStep, PTL DEF Spec, B!Spec
<1> QED
  BY <1>2, <1>3, <1>4, PTL

\* The two units keep the invariant.
THEOREM Invariance == Spec => []IInv
<1>1. B!GemmInv /\ B!SumsOwn /\ InstInv /\ GetInv <=> IInv
  BY DEF IInv
<1> QED
  BY <1>1, GemmKeeps, PathInit, PathStep, PTL DEF Spec

\* An ACCGET reads an accumulator with all its multiplications in it, and
\* nothing is added to it before the ACCGET retires (lines 621 to 690 of
\* GEMMUnit.hpp).
THEOREM ReadsCompleteAccumulator == Spec => []AccumulatorComplete
<1>1. IInv => AccumulatorComplete
  BY DEF IInv, GetInv
<1> QED
  BY <1>1, Invariance, PTL

\* What the driver has sent is what the matrix unit has taken, and what it has
\* taken is in one slot or back in the temporary; it says so when all is back
\* (lines 560 to 595 and 730 to 755 of GEMMUnit.hpp, 794 to 809 of ALU.hpp).
THEOREM ChunksAreConserved == Spec => []ChunksConserved
<1>1. IInv => ChunksConserved
  <2> SUFFICES ASSUME GetInv, ticked = {}
               PROVE  /\ accget.busy => acc.busy /\ acc.started /\ acc.lane = accget.count
                      /\ \A i, j \in P!OutSlot :
                           out[i].valid /\ out[j].valid /\ out[i].chunk = out[j].chunk => i = j
                      /\ \A i \in P!OutSlot : out[i].valid => out[i].chunk < acc.lane /\ acc.retire = <<>>
                      /\ acc.retire # <<>> => acc.lane = ACCGET_CHUNKS /\ ~ accget.busy
    BY DEF IInv, ChunksConserved
  <2>1. call.kind = "none" /\ (acc.busy => acc.lane \in 0 .. ACCGET_CHUNKS)
    BY DEF GetInv, HalvesInv, SumsInv
  <2>2. accget.busy => acc.busy /\ acc.started /\ Taking /\ Waits
    <3> SUFFICES ASSUME accget.busy PROVE acc.busy /\ acc.started /\ Taking /\ Waits
      OBVIOUS
    <3>1. acc.busy /\ acc.started
      BY DEF GetInv, AccType, HalvesInv
    <3>2. Taking
      BY <3>1 DEF GetInv, HalvesInv, Fired, Given
    <3> QED
      BY <2>1, <3>1, <3>2 DEF Taking, Feeds
  <2>3. \A i, j \in P!OutSlot :
          out[i].valid /\ out[j].valid /\ out[i].chunk = out[j].chunk => i = j
    BY DEF GetInv, ChunksInv
  <2>4. acc.retire # <<>> => acc.lane = ACCGET_CHUNKS /\ ~ accget.busy /\ NoneOut
    BY DEF GetInv, ChunksInv
  <2>5. ASSUME NEW i \in P!OutSlot, out[i].valid
        PROVE  out[i].chunk < acc.lane /\ acc.retire = <<>>
    <3>1. accget.busy
      BY <2>5, QuietUnit DEF NoneOut, GetInv, AccType
    <3>2. out[i].chunk \in 0 .. accget.count - 1 /\ accget.count = acc.lane
      BY <2>2, <2>5, <3>1 DEF Waits, GetInv, ChunksInv
    <3>3. acc.lane \in Int
      BY <2>1, <2>2, <3>1, Sizes
    <3> QED
      BY <2>4, <3>1, <3>2, <3>3
  <2> QED
    BY <2>2, <2>3, <2>4, <2>5 DEF Waits
<1> QED
  BY <1>1, Invariance, PTL

-----------------------------------------------------------------------------
(* The promise.  The values the abstract unit has, by name.                *)

InstBar ==
  IF alu.stage = "idle" THEN <<>>
  ELSE <<[inst |-> alu.inst, n |-> alu.n, result |-> want.inst, sent |-> Sent]>>
GetBar == IF acc.busy THEN <<[meta |-> acc.meta, value |-> want.get]>> ELSE <<>>
TempsBar == [t \in Temp |-> IF t \in InFlight THEN U!Unknown ELSE alu_temps[t]]

\* Its steps in these names: an instruction ...
LEMMA BarFire ==
  ASSUME NEW i, NEW n, InstBar = <<>>,
         InstBar' = <<[inst |-> i, n |-> n, result |-> U!Result(i, n), sent |-> 0]>>,
         TempsBar' = IF i.rd.kind = "temp" THEN [TempsBar EXCEPT ![i.rd.temp] = U!Unknown] ELSE TempsBar,
         GetBar' = GetBar, port' = port
  PROVE  U!Fire(i, n)
  BY DEF InstBar, TempsBar, GetBar, U!Fire, U!Unknown

\* ... an ACCGET ...
LEMMA BarStart ==
  ASSUME NEW m, GetBar = <<>>,
         GetBar' = <<[meta |-> m, value |-> [c \in A!Chunk |-> <<paccs[m.pacc], TempsBar[m.rs][c]>>]]>>,
         TempsBar' = [TempsBar EXCEPT ![m.rd] = U!Unknown],
         InstBar' = InstBar, port' = port
  PROVE  U!Start(m)
  BY DEF InstBar, TempsBar, GetBar, U!Start, U!Unknown

\* ... a cycle, with a plane or none and a retirement or none ...
LEMMA BarCycle ==
  ASSUME NEW x,
         \/ x = InstBar
         \/ /\ InstBar # <<>> /\ InstBar[1].sent < U!Count(InstBar[1].inst)
            /\ x = <<[InstBar[1] EXCEPT !.sent = @ + 1]>>,
         NEW wb, wb = IF x = InstBar THEN <<>> ELSE <<U!Plane(InstBar[1])>>,
         \/ /\ InstBar' = x /\ GetBar' = GetBar /\ TempsBar' = TempsBar
            /\ port' = [wb |-> wb, retire |-> <<>>]
         \/ /\ x # <<>> /\ x[1].sent = U!Count(x[1].inst)
            /\ InstBar' = <<>> /\ GetBar' = GetBar
            /\ TempsBar' = IF x[1].inst.rd.kind = "temp"
                           THEN [TempsBar EXCEPT ![x[1].inst.rd.temp] =
                                   [c \in A!Chunk |-> Append(x[1].result, c)]]
                           ELSE TempsBar
            /\ port' = [wb |-> wb, retire |-> <<[inst |-> x[1].n]>>]
         \/ /\ GetBar # <<>>
            /\ InstBar' = x /\ GetBar' = <<>>
            /\ TempsBar' = [TempsBar EXCEPT ![GetBar[1].meta.rd] = GetBar[1].value]
            /\ port' = [wb |-> wb, retire |-> <<[get |-> GetBar[1].meta.rd]>>]
  PROVE  U!Cycle
<1>1. x \in U!Delivered
  BY DEF InstBar, U!Delivered
<1> QED
  BY <1>1 DEF InstBar, TempsBar, GetBar, U!Cycle, U!Unknown

\* ... and no step.
LEMMA BarStutter ==
  ASSUME InstBar' = InstBar, GetBar' = GetBar, TempsBar' = TempsBar, port' = port
  PROVE  UNCHANGED U!vars
  BY DEF InstBar, TempsBar, GetBar, U!vars, U!Unknown

\* What the names depend on.
LEMMA BarKept ==
  ASSUME want' = want, alu'.stage = alu.stage, alu'.inst = alu.inst, alu'.n = alu.n,
         alu'.wb_byte = alu.wb_byte, acc'.busy = acc.busy,
         acc.busy => acc'.meta = acc.meta,
         \A t \in Temp : t \notin InFlight => alu_temps'[t] = alu_temps[t]
  PROVE  InstBar' = InstBar /\ GetBar' = GetBar /\ TempsBar' = TempsBar
<1>1. Sent' = Sent
  BY DEF Sent, A!WritesBack, A!WbBytes
<1>2. InFlight' = InFlight
  BY DEF InFlight, DestOf
<1>3. InstBar' = InstBar
  BY <1>1 DEF InstBar
<1>4. GetBar' = GetBar
  BY DEF GetBar
<1>5. TempsBar' = TempsBar
  BY <1>2 DEF TempsBar, U!Unknown
<1> QED
  BY <1>3, <1>4, <1>5

\* The initial state is one of the abstract unit.
LEMMA UnitInit == Init => U!Init
<1> SUFFICES ASSUME Init PROVE U!Init
  OBVIOUS
<1>1. alu.stage = "idle" /\ ~ acc.busy /\ port = [wb |-> <<>>, retire |-> <<>>]
      /\ alu_temps = [t \in Temp |-> [c \in A!Chunk |-> <<>>]]
  BY DEF Init, A!AluInit, A!NoAcc, A!NoPort, A!NoTile, A!Zero
<1>2. InFlight = {}
  BY <1>1 DEF InFlight
<1> QED
  BY <1>1, <1>2 DEF U!Init, U!Zero

\* A new instruction is one of the abstract unit.
LEMMA UnitFire ==
  ASSUME InstInv, GetInv, NEW inst \in AluInst, FireAlu(inst)
  PROVE  \E n \in 1 .. MaxFired : U!Fire(inst, n)
<1>0. PICK n \in 1 .. MaxFired : n = fired + 1
  BY AluGemmAssumption DEF FireAlu, InstInv
<1>1. /\ alu.stage = "idle" /\ alu_temps' = alu_temps /\ acc' = acc /\ port' = port
      /\ alu'.stage = "wait" /\ alu'.inst = inst /\ alu'.n = n /\ alu'.wb_byte = 0
  BY <1>0 DEF FireAlu, A!s0AluInstFire
<1>2. want'.inst = U!Result(inst, n) /\ want'.get = want.get
  <2>1. want = [inst |-> want.inst, get |-> want.get]
    BY DEF InstInv
  <2> QED
    BY <1>0, <2>1 DEF FireAlu
<1>3. InstBar = <<>> /\ GetBar' = GetBar
  BY <1>1, <1>2 DEF InstBar, GetBar
<1>4. Sent' = 0
  BY <1>1 DEF Sent
<1>5. InstBar' = <<[inst |-> inst, n |-> n, result |-> U!Result(inst, n), sent |-> 0]>>
  BY <1>1, <1>2, <1>4 DEF InstBar
<1>6. InFlight' = DestOf(inst) \cup InFlight
  BY <1>1 DEF InFlight, DestOf
<1>7. TempsBar' = IF inst.rd.kind = "temp" THEN [TempsBar EXCEPT ![inst.rd.temp] = U!Unknown] ELSE TempsBar
  <2>1. CASE inst.rd.kind = "temp"
    <3>1. InFlight' = InFlight \cup {inst.rd.temp}
      BY <1>6, <2>1 DEF DestOf
    <3> QED
      BY <1>1, <2>1, <3>1 DEF TempsBar, U!Unknown
  <2>2. CASE inst.rd.kind # "temp"
    <3>1. InFlight' = InFlight
      BY <1>6, <2>2 DEF DestOf
    <3> QED
      BY <1>1, <2>2, <3>1 DEF TempsBar, U!Unknown
  <2> QED
    BY <2>1, <2>2
<1>8. U!Fire(inst, n)
  BY <1>1, <1>3, <1>5, <1>7, BarFire
<1> QED
  BY <1>0, <1>8

\* The start of an ACCGET is one of the abstract unit.
LEMMA UnitStart ==
  ASSUME InstInv, GetInv, NEW m \in Meta, StartAccget(m)
  PROVE  U!Start(m)
<1>1. /\ ~ acc.busy /\ acc'.busy /\ acc'.meta = m /\ alu' = alu /\ alu_temps' = alu_temps /\ port' = port
      /\ alu.stage # "idle" => Apart(alu.inst, m)
  BY DEF StartAccget, A!s0AccgetStart, A!alu_accget_ready
<1>2. /\ want'.inst = want.inst
      /\ want'.get = [c \in A!Chunk |-> <<paccs[m.pacc], alu_temps[m.rs][c]>>]
  <2>1. want = [inst |-> want.inst, get |-> want.get]
    BY DEF InstInv
  <2> QED
    BY <2>1 DEF StartAccget
<1>3. m.rs \in Temp /\ m.rd \in Temp
  BY Sizes
<1>4. InFlight' = InFlight \cup {m.rd} /\ m.rs \notin InFlight
  BY <1>1 DEF InFlight, DestOf, Apart
<1>5. TempsBar[m.rs] = alu_temps[m.rs]
  BY <1>3, <1>4 DEF TempsBar
<1>6. GetBar = <<>>
  BY <1>1 DEF GetBar
<1>7. GetBar' = <<[meta |-> m, value |-> [c \in A!Chunk |-> <<paccs[m.pacc], TempsBar[m.rs][c]>>]]>>
  BY <1>1, <1>2, <1>5 DEF GetBar
<1>8. TempsBar' = [TempsBar EXCEPT ![m.rd] = U!Unknown]
  BY <1>1, <1>3, <1>4 DEF TempsBar, U!Unknown
<1>9. InstBar' = InstBar
  <2>1. Sent' = Sent
    BY <1>1 DEF Sent, A!WritesBack, A!WbBytes
  <2> QED
    BY <1>1, <1>2, <2>1 DEF InstBar
<1> QED
  BY <1>1, <1>6, <1>7, <1>8, <1>9, BarStart

-----------------------------------------------------------------------------
(* The promise: a cycle of the ALU.                                        *)

\* The instruction in flight after one more plane, and after this cycle's.
OneMore == <<[InstBar[1] EXCEPT !.sent = @ + 1]>>
Later(wbTaken) == IF A!WbActive /\ wbTaken THEN OneMore ELSE InstBar

\* A plane that is taken is the next one of the result it owes (lines 733 to
\* 778).
LEMMA PlaneGiven ==
  ASSUME InstInv, A!WbActive
  PROVE  /\ InstBar # <<>> /\ InstBar[1].sent = alu.wb_byte
         /\ InstBar[1].inst = alu.inst /\ U!Count(alu.inst) = A!WbBytes
         /\ InstBar[1].sent < U!Count(InstBar[1].inst)
         /\ OneMore = <<[inst |-> alu.inst, n |-> alu.n, result |-> want.inst,
                             sent |-> alu.wb_byte + 1]>>
         /\ OneMore # InstBar
         /\ U!Plane(InstBar[1]) = A!Wb
<1>1. /\ A!WritesBack /\ A!WbBytes \in 1 .. 4 /\ alu.wb_byte \in 0 .. A!WbBytes - 1
      /\ A!WbLast <=> alu.wb_byte + 1 = A!WbBytes
      /\ A!Starts \/ alu.stage \in {"exec", "wb"}
  BY WbFacts
<1>2. alu.stage \notin {"idle", "retire"}
  BY <1>1 DEF A!Starts
<1>3. InstBar = <<[inst |-> alu.inst, n |-> alu.n, result |-> want.inst, sent |-> alu.wb_byte]>>
  BY <1>2 DEF InstBar, Sent
<1>4. U!Count(alu.inst) = A!WbBytes
  BY <1>1 DEF U!Count, A!WbBytes, A!WritesBack
<1>5. alu.wb_byte < A!WbBytes /\ alu.wb_byte + 1 # alu.wb_byte
  BY <1>1
<1>6. A!Result = want.inst
  BY <1>1, ResultIsOwed
<1>7. OneMore = <<[inst |-> alu.inst, n |-> alu.n, result |-> want.inst, sent |-> alu.wb_byte + 1]>>
  BY <1>3 DEF OneMore
<1>8. OneMore[1].sent # InstBar[1].sent
  BY <1>3, <1>5, <1>7
<1>9. U!Plane(InstBar[1]) = A!Wb
  <2>1. U!Plane(InstBar[1]) =
          [n |-> alu.n, byte |-> alu.wb_byte, last |-> alu.wb_byte + 1 = U!Count(alu.inst),
           data |-> Append(want.inst, alu.wb_byte)]
    BY <1>3 DEF U!Plane
  <2>2. A!WbLast = (alu.wb_byte + 1 = U!Count(alu.inst))
    BY <1>1, <1>4 DEF A!WbLast
  <2> QED
    BY <1>6, <2>1, <2>2 DEF A!Wb
<1> QED
  BY <1>3, <1>4, <1>5, <1>7, <1>8, <1>9

\* An instruction that retires has given back all its planes.
LEMMA AllGiven ==
  ASSUME InstInv, NEW wbTaken \in BOOLEAN, A!Retires(wbTaken)
  PROVE  LET x == Later(wbTaken)
         IN  /\ x # <<>> /\ x[1].inst = alu.inst /\ x[1].n = alu.n
             /\ x[1].result = want.inst /\ x[1].sent = U!Count(alu.inst)
<1>1. CASE A!WbActive /\ wbTaken /\ A!WbLast
  <2>1. /\ OneMore = <<[inst |-> alu.inst, n |-> alu.n, result |-> want.inst,
                            sent |-> alu.wb_byte + 1]>>
        /\ U!Count(alu.inst) = A!WbBytes /\ alu.wb_byte + 1 = A!WbBytes
    BY <1>1, PlaneGiven, WbFacts
  <2>2. Later(wbTaken) = OneMore
    BY <1>1 DEF Later
  <2> QED
    BY <2>1, <2>2
<1>2. CASE ~ (A!WbActive /\ wbTaken /\ A!WbLast)
  <2>1. alu.stage = "retire" \/ (A!Finishes /\ ~ A!WritesBack)
    BY <1>2 DEF A!Retires
  <2>2. ~ A!WbActive
    BY <2>1 DEF A!WbActive, A!Finishes, A!Starts, InstInv, StageInv
  <2>3. alu.stage # "idle"
    BY <2>1 DEF A!Finishes, A!Starts
  <2>4. InstBar = <<[inst |-> alu.inst, n |-> alu.n, result |-> want.inst, sent |-> Sent]>>
    BY <2>3 DEF InstBar
  <2>5. Sent = U!Count(alu.inst)
    <3>1. CASE A!WritesBack
      BY <2>1, <2>3, <3>1 DEF Sent, U!Count, A!WbBytes, A!WritesBack
    <3>2. CASE ~ A!WritesBack
      <4>1. alu.wb_byte = 0
        BY <2>1, <3>2 DEF A!Finishes, A!Starts, InstInv, StageInv
      <4>2. U!Count(alu.inst) = 0
        BY <2>3, <3>2 DEF U!Count, A!WritesBack
      <4> QED
        BY <3>2, <4>1, <4>2 DEF Sent
    <3> QED
      BY <3>1, <3>2
  <2> QED
    BY <2>2, <2>4, <2>5 DEF Later
<1> QED
  BY <1>1, <1>2

\* Where the instruction is after the tick.
LEMMA InstBarTick ==
  ASSUME InstInv, NEW wbTaken \in BOOLEAN, NEW retireTaken \in BOOLEAN,
         AluTick(wbTaken, retireTaken)
  PROVE  /\ A!Retires(wbTaken) /\ retireTaken => alu'.stage = "idle" /\ InstBar' = <<>>
         /\ ~ (A!Retires(wbTaken) /\ retireTaken) =>
              /\ InstBar' = Later(wbTaken) /\ (alu'.stage = "idle" <=> alu.stage = "idle")
<1>1. alu' = A!AluNext(wbTaken, retireTaken) /\ want' = want
  BY DEF AluTick, A!Tick, backend
<1>2. /\ DOMAIN alu = {"stage", "inst", "n", "src", "valid", "mask", "result", "remain", "wb_byte"}
      /\ StageInv
  BY DEF InstInv, StageInv
<1>3. alu'.inst = alu.inst /\ alu'.n = alu.n
  BY <1>1, SameInst
<1>4. ASSUME alu'.stage # "idle"
      PROVE  InstBar' = <<[inst |-> alu.inst, n |-> alu.n, result |-> want.inst, sent |-> Sent']>>
  BY <1>1, <1>3, <1>4 DEF InstBar
<1>5. ASSUME alu.stage # "idle"
      PROVE  InstBar = <<[inst |-> alu.inst, n |-> alu.n, result |-> want.inst, sent |-> Sent]>>
  BY <1>5 DEF InstBar
<1>6. Sent' = IF alu'.stage = "retire" /\ alu.inst.rd.kind \in {"reg", "mask"} THEN A!WbBytes
              ELSE alu'.wb_byte
  BY <1>3 DEF Sent, A!WritesBack, A!WbBytes
<1>7. CASE RetireStep(wbTaken, retireTaken)
  <2>0. /\ A!Retires(wbTaken)
        /\ InFlightInst /\ planes = {}
        /\ alu' = [alu EXCEPT !.stage = IF retireTaken THEN "idle" ELSE "retire",
                              !.result = A!Result]
        /\ A!ToTemp => A!TempsNow[alu.inst.rd.temp] = [c \in A!Chunk |-> Append(want.inst, c)]
        /\ ~ A!WritesBack => alu.wb_byte = 0
    BY <1>7 DEF RetireStep
  <2>1. alu'.stage = (IF retireTaken THEN "idle" ELSE "retire") /\ alu'.wb_byte = alu.wb_byte
    BY <1>2, <2>0
  <2>2. CASE retireTaken
    BY <2>0, <2>1, <2>2 DEF InstBar
  <2>3. CASE ~ retireTaken
    <3>1. PICK x : x = Later(wbTaken)
      OBVIOUS
    <3>2. /\ x # <<>> /\ x[1].inst = alu.inst /\ x[1].n = alu.n
          /\ x[1].result = want.inst /\ x[1].sent = U!Count(alu.inst)
      BY <2>0, <3>1, AllGiven
    <3>3. Sent' = U!Count(alu.inst)
      <4>1. CASE A!WritesBack
        BY <1>6, <2>1, <2>3, <4>1 DEF U!Count, A!WbBytes, A!WritesBack
      <4>2. CASE ~ A!WritesBack
        <5>1. U!Count(alu.inst) = 0 /\ alu.inst.rd.kind \notin {"reg", "mask"}
          BY <2>0, <4>2 DEF U!Count, A!WritesBack, InFlightInst
        <5> QED
          BY <1>6, <2>0, <2>1, <4>2, <5>1
      <4> QED
        BY <4>1, <4>2
    <3>4. x = <<[inst |-> alu.inst, n |-> alu.n, result |-> want.inst, sent |-> x[1].sent]>>
      <4>1. CASE A!WbActive /\ wbTaken
        <5>1. x = <<[inst |-> alu.inst, n |-> alu.n, result |-> want.inst, sent |-> alu.wb_byte + 1]>>
          BY <3>1, <4>1, PlaneGiven DEF Later
        <5> QED
          BY <5>1
      <4>2. CASE ~ (A!WbActive /\ wbTaken)
        <5>1. x = <<[inst |-> alu.inst, n |-> alu.n, result |-> want.inst, sent |-> Sent]>>
          BY <1>5, <2>0, <3>1, <4>2 DEF Later, InFlightInst
        <5> QED
          BY <5>1
      <4> QED
        BY <4>1, <4>2
    <3>5. InstBar' = x
      BY <1>4, <2>1, <2>3, <3>2, <3>3, <3>4
    <3> QED
      BY <2>0, <2>1, <2>3, <3>1, <3>5 DEF InFlightInst
  <2> QED
    BY <2>2, <2>3
<1>8. CASE PlaneStep(wbTaken)
  <2>0. /\ ~ A!Retires(wbTaken) /\ A!WbActive /\ planes = {}
        /\ A!Result = want.inst /\ A!TempsNow = alu_temps
        /\ alu' = [alu EXCEPT !.stage = "wb", !.result = A!Result,
                              !.wb_byte = IF wbTaken THEN @ + 1 ELSE @]
        /\ wbTaken => alu.wb_byte + 1 < A!WbBytes
    BY <1>8 DEF PlaneStep
  <2>1. /\ alu'.stage = "wb" /\ alu'.wb_byte = IF wbTaken THEN alu.wb_byte + 1 ELSE alu.wb_byte
    BY <1>2, <2>0
  <2>2. alu.stage # "idle"
    BY <2>0 DEF A!WbActive, A!Finishes, A!Starts
  <2>3. OneMore = <<[inst |-> alu.inst, n |-> alu.n, result |-> want.inst, sent |-> alu.wb_byte + 1]>>
        /\ InstBar[1].sent = alu.wb_byte
    BY <2>0, PlaneGiven
  <2>4. InstBar = <<[inst |-> alu.inst, n |-> alu.n, result |-> want.inst, sent |-> alu.wb_byte]>>
    <3>1. Sent = alu.wb_byte
      BY <1>5, <2>2, <2>3
    <3> QED
      BY <1>5, <2>2, <3>1
  <2>5. InstBar' = Later(wbTaken)
    <3>1. InstBar' = <<[inst |-> alu.inst, n |-> alu.n, result |-> want.inst, sent |-> alu'.wb_byte]>>
      BY <1>4, <1>6, <2>1
    <3> QED
      BY <2>0, <2>1, <2>3, <2>4, <3>1 DEF Later
  <2> QED
    BY <2>0, <2>1, <2>2, <2>5
<1>9. ASSUME ~ A!Retires(wbTaken), ~ A!WbActive, alu'.stage # "retire", alu.stage # "retire",
             alu'.wb_byte = alu.wb_byte, alu'.stage = "idle" <=> alu.stage = "idle"
      PROVE  /\ A!Retires(wbTaken) /\ retireTaken => alu'.stage = "idle" /\ InstBar' = <<>>
             /\ ~ (A!Retires(wbTaken) /\ retireTaken) =>
                  /\ InstBar' = Later(wbTaken) /\ (alu'.stage = "idle" <=> alu.stage = "idle")
  <2>1. Later(wbTaken) = InstBar
    BY <1>9 DEF Later
  <2>2. Sent' = Sent
    BY <1>6, <1>9 DEF Sent
  <2>3. InstBar' = InstBar
    BY <1>1, <1>3, <1>9, <2>2 DEF InstBar
  <2> QED
    BY <1>9, <2>1, <2>3
<1>10. CASE StartStep(wbTaken)
  <2>0. /\ ~ A!Retires(wbTaken) /\ ~ A!WbActive /\ A!TempsNow = alu_temps
        /\ A!Starts /\ A!Result = want.inst /\ planes = {}
        /\ alu' = [alu EXCEPT !.stage = "exec", !.result = A!Result,
                              !.remain = A!Latency(alu.inst)]
    BY <1>10 DEF StartStep
  <2>1. alu'.stage = "exec" /\ alu'.wb_byte = alu.wb_byte /\ alu.stage = "wait"
    BY <1>2, <2>0 DEF A!Starts
  <2> QED
    BY <1>9, <2>0, <2>1
<1>11. CASE RunStep(wbTaken)
  <2>0. /\ ~ A!Retires(wbTaken) /\ ~ A!WbActive /\ A!TempsNow = alu_temps
        /\ alu.stage = "exec" /\ alu' = [alu EXCEPT !.remain = @ - 1]
    BY <1>11 DEF RunStep
  <2>1. alu'.stage = "exec" /\ alu'.wb_byte = alu.wb_byte
    BY <1>2, <2>0
  <2> QED
    BY <1>9, <2>0, <2>1
<1>12. CASE RestStep(wbTaken)
  <2>0. /\ ~ A!Retires(wbTaken) /\ ~ A!WbActive /\ A!TempsNow = alu_temps
        /\ alu.stage # "retire" /\ alu' = alu
    BY <1>12 DEF RestStep
  <2> QED
    BY <1>9, <2>0
<1> QED
  BY <1>1, <1>7, <1>8, <1>10, <1>11, <1>12, InstCases

\* The ACCGET in flight stays the same until it retires.
LEMMA SameGet ==
  ASSUME GetInv, NEW wbTaken \in BOOLEAN, NEW retireTaken \in BOOLEAN,
         AluTick(wbTaken, retireTaken), ~ (A!AccRetires(wbTaken, retireTaken) /\ retireTaken)
  PROVE  acc'.busy = acc.busy /\ (acc.busy => acc'.meta = acc.meta)
<1>1. acc' = A!AccNext(wbTaken, retireTaken, P!accgetReady)
  BY DEF AluTick, A!Tick
<1>2. CASE ~ acc.busy
  BY <1>1, <1>2 DEF A!AccNext, A!AccFires, A!AccSends
<1>3. CASE acc.busy
  <2>1. DOMAIN acc = {"busy", "started", "lane", "retire", "meta"}
    BY <1>3 DEF GetInv, SumsInv
  <2>2. \/ acc' = acc \/ acc' = [acc EXCEPT !.lane = @ + 1]
        \/ acc' = [acc EXCEPT !.started = TRUE, !.lane = 0]
    BY <1>1 DEF A!AccNext
  <2> QED
    BY <2>1, <2>2
<1> QED
  BY <1>2, <1>3

\* The tick writes no temporary but the destination of the instruction in
\* flight, which holds the result when the instruction asks to retire.
LEMMA TempsTick ==
  ASSUME InstInv, NEW wbTaken \in BOOLEAN, NEW retireTaken \in BOOLEAN,
         AluTick(wbTaken, retireTaken)
  PROVE  /\ \A t \in Temp : t \notin InFlight => A!TempsNow[t] = alu_temps[t]
         /\ A!Retires(wbTaken) /\ A!ToTemp =>
              A!TempsNow[alu.inst.rd.temp] = [c \in A!Chunk |-> Append(want.inst, c)]
<1>1. alu' = A!AluNext(wbTaken, retireTaken)
  BY DEF AluTick, A!Tick
<1>2. DOMAIN alu_temps = Temp
  BY DEF InstInv
<1>3. ASSUME NEW t \in Temp, t \notin InFlight
      PROVE  A!TempsNow[t] = alu_temps[t]
  <2>1. CASE A!ToTemp
    <3>1. t # alu.inst.rd.temp
      BY <1>3, <2>1 DEF InFlight, DestOf, A!ToTemp
    <3> QED
      BY <1>2, <3>1 DEF A!TempsNow
  <2>2. CASE ~ A!ToTemp
    BY <2>2 DEF A!TempsNow
  <2> QED
    BY <2>1, <2>2
<1>4. A!Retires(wbTaken) /\ A!ToTemp =>
        A!TempsNow[alu.inst.rd.temp] = [c \in A!Chunk |-> Append(want.inst, c)]
  BY <1>1, InstCases DEF RetireStep, PlaneStep, StartStep, RunStep, RestStep
<1> QED
  BY <1>3, <1>4

\* An ACCGET that retires has all its sums in its destination.
LEMMA GetWhole ==
  ASSUME InstInv, GetInv, acc.retire # <<>>
  PROVE  /\ acc.busy /\ acc.retire = <<acc.meta.rd>> /\ acc.meta.rd \in Temp
         /\ alu_temps[acc.meta.rd] = want.get
<1>1. acc.busy /\ acc.retire = <<acc.meta.rd>>
  BY DEF GetInv, AccType, HalvesInv, ChunksInv
<1>2. acc.meta.rd \in Temp
  BY <1>1, Sizes DEF GetInv, SumsInv
<1>3. want.get = [c \in A!Chunk |-> want.get[c]]
  BY <1>1 DEF GetInv, SumsInv
<1>4. alu_temps[acc.meta.rd] = [c \in A!Chunk |-> alu_temps[acc.meta.rd][c]]
  BY <1>2 DEF InstInv
<1>5. \A c \in A!Chunk : alu_temps[acc.meta.rd][c] = want.get[c]
  BY DEF GetInv, ChunksInv, Returned
<1> QED
  BY <1>1, <1>2, <1>3, <1>4, <1>5

\* The tick of the ALU is a cycle of the abstract unit.
LEMMA UnitTick ==
  ASSUME InstInv, GetInv, NEW wbTaken \in BOOLEAN, NEW retireTaken \in BOOLEAN,
         AluTick(wbTaken, retireTaken)
  PROVE  U!Cycle
<1>0. /\ alu' = A!AluNext(wbTaken, retireTaken) /\ alu_temps' = A!TempsNow
      /\ port' = A!Port(wbTaken, retireTaken) /\ want' = want
      /\ acc' = A!AccNext(wbTaken, retireTaken, P!accgetReady)
  BY DEF AluTick, A!Tick, backend
<1>1. PICK x : x = Later(wbTaken)
  OBVIOUS
<1>2. PICK wb : wb = IF x = InstBar THEN <<>> ELSE <<U!Plane(InstBar[1])>>
  OBVIOUS
<1>3. wb = IF A!WbActive /\ wbTaken THEN <<A!Wb>> ELSE <<>>
  BY <1>1, <1>2, PlaneGiven DEF Later
<1>4. \/ x = InstBar
      \/ /\ InstBar # <<>> /\ InstBar[1].sent < U!Count(InstBar[1].inst)
         /\ x = <<[InstBar[1] EXCEPT !.sent = @ + 1]>>
  BY <1>1, PlaneGiven DEF Later, OneMore
<1>5. alu'.inst = alu.inst /\ (alu.stage = "idle" => alu'.stage = "idle")
  BY <1>0, SameInst
<1>6. DestOf(alu'.inst) = DestOf(alu.inst)
  BY <1>5 DEF DestOf
<1>7. \A t \in Temp : t \notin InFlight => alu_temps'[t] = alu_temps[t]
  BY <1>0, TempsTick
<1>8. acc.busy => acc.meta.rd \in Temp /\ (alu.stage # "idle" => acc.meta.rd \notin DestOf(alu.inst))
  BY Sizes DEF GetInv, SumsInv, InFlightInst, Apart
<1>9. CASE A!Retires(wbTaken) /\ retireTaken
  <2>1. ~ A!AccRetires(wbTaken, retireTaken)
    BY <1>9 DEF A!AccRetires
  <2>2. acc'.busy = acc.busy /\ (acc.busy => acc'.meta = acc.meta)
    BY <2>1, SameGet
  <2>3. GetBar' = GetBar
    BY <1>0, <2>2 DEF GetBar
  <2>4. alu.stage # "idle"
    BY <1>9 DEF A!Retires, A!Finishes, A!WbActive, A!Starts
  <2>5. alu'.stage = "idle" /\ InstBar' = <<>>
    BY <1>9, InstBarTick
  <2>6. /\ x # <<>> /\ x[1].inst = alu.inst /\ x[1].n = alu.n
        /\ x[1].result = want.inst /\ x[1].sent = U!Count(alu.inst)
    BY <1>1, <1>9, AllGiven
  <2>7. InFlight' = IF acc.busy THEN {acc.meta.rd} ELSE {}
    BY <2>2, <2>5 DEF InFlight
  <2>8. InFlight = DestOf(alu.inst) \cup InFlight'
    BY <2>4, <2>7 DEF InFlight
  <2>9. TempsBar' = IF alu.inst.rd.kind = "temp"
                    THEN [TempsBar EXCEPT ![alu.inst.rd.temp] = [c \in A!Chunk |-> Append(want.inst, c)]]
                    ELSE TempsBar
    <3>1. CASE alu.inst.rd.kind = "temp"
      <4>1. DestOf(alu.inst) = {alu.inst.rd.temp} /\ A!ToTemp
        BY <2>4, <3>1 DEF DestOf, A!ToTemp
      <4>2. alu.inst.rd.temp \notin InFlight'
        BY <1>8, <2>4, <2>7, <4>1
      <4>3. alu_temps'[alu.inst.rd.temp] = [c \in A!Chunk |-> Append(want.inst, c)]
        BY <1>0, <1>9, <4>1, TempsTick
      <4>4. TempsBar' = [t \in Temp |-> IF t \in InFlight' THEN U!Unknown ELSE alu_temps'[t]]
        BY DEF TempsBar, U!Unknown
      <4>5. \A t \in Temp : t # alu.inst.rd.temp => (t \in InFlight' <=> t \in InFlight)
        BY <2>8, <4>1
      <4>6. alu.inst.rd.temp \in Temp
        BY <2>4, Sizes DEF InstInv, StageInv, InFlightInst, A!InstType, A!OperandType
      <4> QED
        BY <1>7, <3>1, <4>2, <4>3, <4>4, <4>5, <4>6 DEF TempsBar
    <3>2. CASE alu.inst.rd.kind # "temp"
      <4>1. InFlight' = InFlight
        BY <2>8, <3>2 DEF DestOf
      <4> QED
        BY <1>7, <3>2, <4>1 DEF TempsBar, U!Unknown
    <3> QED
      BY <3>1, <3>2
  <2>10. port' = [wb |-> wb, retire |-> <<[inst |-> x[1].n]>>]
    BY <1>0, <1>3, <1>9, <2>1, <2>6 DEF A!Port
  <2> QED
    BY <1>2, <1>4, <2>3, <2>5, <2>6, <2>9, <2>10, BarCycle
<1>10. CASE A!AccRetires(wbTaken, retireTaken) /\ retireTaken
  <2>1. acc.retire # <<>> /\ ~ A!Retires(wbTaken)
    BY <1>10 DEF A!AccRetires
  <2>2. /\ acc.busy /\ acc.retire = <<acc.meta.rd>> /\ acc.meta.rd \in Temp
        /\ alu_temps[acc.meta.rd] = want.get
    BY <2>1, GetWhole
  <2>3. ~ acc'.busy
    BY <1>0, <1>10 DEF A!AccNext, A!NoAcc
  <2>4. GetBar = <<[meta |-> acc.meta, value |-> want.get]>> /\ GetBar' = <<>>
    BY <2>2, <2>3 DEF GetBar
  <2>5. InstBar' = x /\ (alu'.stage = "idle" <=> alu.stage = "idle")
    BY <1>1, <2>1, InstBarTick
  <2>6. InFlight' = IF alu.stage = "idle" THEN {} ELSE DestOf(alu.inst)
    BY <1>6, <2>3, <2>5 DEF InFlight
  <2>7. InFlight = InFlight' \cup {acc.meta.rd} /\ acc.meta.rd \notin InFlight'
    BY <1>8, <2>2, <2>6 DEF InFlight
  <2>8. alu_temps'[acc.meta.rd] = want.get
    BY <1>0, <2>2, TempsNowApart
  <2>9. TempsBar' = [TempsBar EXCEPT ![acc.meta.rd] = want.get]
    <3>1. TempsBar' = [t \in Temp |-> IF t \in InFlight' THEN U!Unknown ELSE alu_temps'[t]]
      BY DEF TempsBar, U!Unknown
    <3> QED
      BY <1>7, <2>2, <2>7, <2>8, <3>1 DEF TempsBar
  <2>10. port' = [wb |-> wb, retire |-> <<[get |-> acc.meta.rd]>>]
    BY <1>0, <1>3, <1>10, <2>1, <2>2 DEF A!Port
  <2>11. GetBar # <<>> /\ GetBar[1].meta.rd = acc.meta.rd /\ GetBar[1].value = want.get
    BY <2>4
  <2> QED
    BY <1>2, <1>4, <2>4, <2>5, <2>9, <2>10, <2>11, BarCycle
<1>11. CASE ~ (A!Retires(wbTaken) /\ retireTaken) /\ ~ (A!AccRetires(wbTaken, retireTaken) /\ retireTaken)
  <2>1. acc'.busy = acc.busy /\ (acc.busy => acc'.meta = acc.meta)
    BY <1>11, SameGet
  <2>2. GetBar' = GetBar
    BY <1>0, <2>1 DEF GetBar
  <2>3. InstBar' = x /\ (alu'.stage = "idle" <=> alu.stage = "idle")
    BY <1>1, <1>11, InstBarTick
  <2>4. InFlight' = InFlight
    BY <1>6, <2>1, <2>3 DEF InFlight
  <2>5. TempsBar' = TempsBar
    BY <1>7, <2>4 DEF TempsBar, U!Unknown
  <2>6. port' = [wb |-> wb, retire |-> <<>>]
    BY <1>0, <1>3, <1>11 DEF A!Port
  <2> QED
    BY <1>2, <1>4, <2>2, <2>3, <2>5, <2>6, BarCycle
<1> QED
  BY <1>9, <1>10, <1>11

\* Every step of the two units is one of the abstract unit, or none: calls of
\* the matrix unit, planes that come in, its tick and the commit are none.
LEMMA UnitStep == IInv /\ [Next]_vars => [U!Next]_(U!vars)
<1> SUFFICES ASSUME IInv, [Next]_vars PROVE [U!Next]_(U!vars)
  OBVIOUS
<1>0. InstInv /\ GetInv
  BY DEF IInv
<1>1. ASSUME want' = want, alu'.stage = alu.stage, alu'.inst = alu.inst, alu'.n = alu.n,
             alu'.wb_byte = alu.wb_byte, acc'.busy = acc.busy, acc.busy => acc'.meta = acc.meta,
             \A t \in Temp : t \notin InFlight => alu_temps'[t] = alu_temps[t],
             port' = port
      PROVE  UNCHANGED U!vars
  BY <1>1, BarKept, BarStutter
<1>2. CASE Service
  <2>1. CASE (\E p \in Pacc : FireGemm(p)) \/ (\E o \in G!Operand : GemmInput(o))
    <3>1. UNCHANGED <<alu, acc, alu_temps, port, want>>
      BY <2>1 DEF FireGemm, GemmInput, aluVars, backend
    <3> QED
      BY <1>1, <3>1
  <2>2. ASSUME NEW inst \in AluInst, FireAlu(inst)
        PROVE  U!Next
    BY <1>0, <2>2, UnitFire DEF U!Next
  <2>3. ASSUME NEW pl \in planes, AluInput(pl)
        PROVE  UNCHANGED U!vars
    <3>1. UNCHANGED <<acc, alu_temps, port, want>>
      BY <2>3 DEF AluInput, A!sNAluMemInput
    <3>2. DOMAIN alu = {"stage", "inst", "n", "src", "valid", "mask", "result", "remain", "wb_byte"}
      BY <1>0 DEF InstInv, StageInv
    <3>3. /\ alu'.stage = alu.stage /\ alu'.inst = alu.inst /\ alu'.n = alu.n
          /\ alu'.wb_byte = alu.wb_byte
      BY <2>3, <3>2 DEF AluInput, A!sNAluMemInput
    <3> QED
      BY <1>1, <3>1, <3>3
  <2>4. ASSUME NEW m \in Meta, StartAccget(m)
        PROVE  U!Next
    BY <1>0, <2>4, UnitStart DEF U!Next
  <2> QED
    BY <1>2, <2>1, <2>2, <2>3, <2>4 DEF Service
<1>3. ASSUME NEW wbTaken \in BOOLEAN, NEW retireTaken \in BOOLEAN, AluTick(wbTaken, retireTaken)
      PROVE  U!Next
  BY <1>0, <1>3, UnitTick DEF U!Next
<1>4. CASE GemmTick
  <2>1. UNCHANGED <<alu, port, want>>
    BY <1>4 DEF GemmTick, backend
  <2>2. acc'.busy = acc.busy /\ (acc.busy => acc'.meta = acc.meta)
    <3>1. CASE P!Ends
      <4>1. acc.busy
        BY <1>0, <1>4, <3>1, EndsWhole
      <4>2. DOMAIN acc = {"busy", "started", "lane", "retire", "meta"}
        BY <1>0, <4>1 DEF GetInv, SumsInv
      <4> QED
        BY <1>4, <3>1, <4>2 DEF GemmTick, A!accgetRetirePTemp
    <3>2. CASE ~ P!Ends
      BY <1>4, <3>2 DEF GemmTick
    <3> QED
      BY <3>1, <3>2
  <2>3. \A t \in Temp : t \notin InFlight => alu_temps'[t] = alu_temps[t]
    <3>1. CASE P!DueOuts = {}
      BY <1>4, <3>1 DEF GemmTick
    <3>2. CASE P!DueOuts # {}
      <4>1. PICK c, v : /\ acc.busy
                        /\ alu_temps' = [alu_temps EXCEPT ![acc.meta.rd][c] = v]
        BY <1>0, <1>4, <3>2, ReturnsChunk
      <4>2. DOMAIN alu_temps = Temp
        BY <1>0 DEF InstInv
      <4> QED
        BY <4>1, <4>2 DEF InFlight
    <3> QED
      BY <3>1, <3>2
  <2> QED
    BY <1>1, <2>1, <2>2, <2>3
<1>5. CASE Commit
  <2>1. UNCHANGED <<alu, acc, alu_temps, port, want>>
    BY <1>5 DEF Commit, aluVars, backend
  <2> QED
    BY <1>1, <2>1
<1>6. CASE UNCHANGED vars
  <2>1. UNCHANGED <<alu, acc, alu_temps, port, want>>
    BY <1>6 DEF vars, aluVars, backend
  <2> QED
    BY <1>1, <2>1
<1> QED
  BY <1>2, <1>3, <1>4, <1>5, <1>6 DEF Next

\* The two units implement what the back end is promised: an instruction gives
\* back its own result in order or leaves it in its temporary, an ACCGET
\* leaves accumulator plus source in its destination, each retires once, and
\* no other temporary changes (lines 733 to 815 of ALU.hpp, 560 to 595 and 730
\* to 755 of GEMMUnit.hpp).
THEOREM PathImplementsTempUnit == Spec => ImplementsTempUnit
<1>1. Init => U!Init
  BY UnitInit
<1>2. IInv /\ [Next]_vars => [U!Next]_(U!vars)
  BY UnitStep
<1> QED
  BY <1>1, <1>2, Invariance, PTL DEF Spec, ImplementsTempUnit, U!Spec
=============================================================================
