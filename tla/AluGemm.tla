------------------------------ MODULE AluGemm -------------------------------
(***************************************************************************)
(* The element-wise unit and the matrix unit joined by                     *)
(* src/src/alu/ALUGEMMTop.hpp over the ACCGET path, with a back end that   *)
(* fires multiplications, instructions and ACCGETs and takes planes and    *)
(* retirements.                                                            *)
(*                                                                         *)
(* In a cycle the services are called, then both children tick, in either  *)
(* order, then the registers commit.  The ALU is software that the tick of *)
(* the matrix unit changes at once, so the order of the ticks shows.       *)
(***************************************************************************)
EXTENDS Integers, Sequences, FiniteSets

CONSTANTS
  Pacc, GEMM_LANE_SIZE, TILE_SIZE, GEMM_LAST_LEVEL_LATENCY, NoPacc,
  ACCGET_CHUNKS, GEMM_OUTPUT_LATENCY,
  Temp, AluInst,
  Meta,         \* ACCGETs: [pacc, rs, rd]
  MaxInsts,     \* bounds: multiplications the back end fires, ...
  MaxFired,     \* ... instructions, ...
  MaxGets       \* ... and ACCGETs

VARIABLES
  feeding, next_feeding, written, ready_slot, exec_slot, gemm_acc_cooldown,
  inputBuffer, laneBuffer, paccs, retired, insts, owed,
  alu, acc, alu_temps, port,
  accget, out, call,
  ticked,       \* children that have ticked in this cycle
  fired,        \* instructions fired
  gets,         \* ACCGETs fired
  planes,       \* planes the back end owes the instruction in flight
  want          \* history: the results owed for what is in flight

G == INSTANCE Gemm
A == INSTANCE Alu WITH Chunks <- ACCGET_CHUNKS
P == INSTANCE Accget

ASSUME AluGemmAssumption ==
  /\ G!SizesAssumption /\ G!NoPaccAssumption /\ G!LatencyAssumption
  /\ A!AluAssumption /\ P!AccgetAssumption
  /\ Meta \subseteq [pacc : Pacc, rs : Temp, rd : Temp]
  /\ MaxFired \in Nat /\ MaxGets \in Nat

gemmRegs == <<feeding, next_feeding, written, ready_slot, exec_slot, gemm_acc_cooldown>>
gemmData == <<inputBuffer, laneBuffer, paccs, retired>>
gemmClient == <<insts, owed>>
gemm == <<gemmRegs, gemmData, gemmClient>>
aluVars == <<alu, acc, alu_temps, port>>
accgetVars == <<accget, out, call>>
backend == <<fired, gets, planes, want>>
vars == <<gemm, aluVars, accgetVars, ticked, backend>>

Init ==
  /\ G!Init /\ A!AluInit /\ P!AccgetInit
  /\ ticked = {}
  /\ fired = 0 /\ gets = 0 /\ planes = {}
  /\ want = [inst |-> <<>>, get |-> <<>>]

-----------------------------------------------------------------------------
(* The promise.                                                            *)

DestOf(inst) == IF inst.rd.kind = "temp" THEN {inst.rd.temp} ELSE {}

\* Temporaries with no definite value: destinations of what is in flight.
InFlight ==
  (IF alu.stage = "idle" THEN {} ELSE DestOf(alu.inst)) \cup (IF acc.busy THEN {acc.meta.rd} ELSE {})

\* Planes given back so far.
Sent == IF alu.stage = "retire" /\ A!WritesBack THEN A!WbBytes ELSE alu.wb_byte

U == INSTANCE TempUnit WITH
  Chunk <- A!Chunk, Byte <- A!Byte, Number <- 1 .. MaxFired, Planes <- A!Planes,
  inst <- IF alu.stage = "idle" THEN <<>>
          ELSE <<[inst |-> alu.inst, n |-> alu.n, result |-> want.inst, sent |-> Sent]>>,
  get <- IF acc.busy THEN <<[meta |-> acc.meta, value |-> want.get]>> ELSE <<>>,
  temps <- [t \in Temp |-> IF t \in InFlight THEN [c \in A!Chunk |-> <<"unknown">>]
                           ELSE alu_temps[t]],
  sums <- paccs

-----------------------------------------------------------------------------
(* The back end.  It knows from the retirements what is in flight, and     *)
(* keeps dependent work apart, as the units do not: nobody multiplies into *)
(* an accumulator that is being read, an accumulator is read when its      *)
(* multiplications have retired, and instructions and ACCGETs in flight    *)
(* together do not write temporaries the other one uses.                   *)

TempsOf(inst) == { inst.rs[s].temp : s \in { s \in 1 .. 2 : inst.rs[s].kind = "temp" } }

Apart(inst, m) ==
  /\ DestOf(inst) \cap {m.rs, m.rd} = {}
  /\ m.rd \notin TempsOf(inst)

Multiplications(p) == Cardinality({ k \in DOMAIN insts : insts[k] = p })

FireGemm(p) ==
  /\ ~ (acc.busy /\ acc.meta.pacc = p)
  /\ G!Fire(p)
  /\ UNCHANGED <<aluVars, accgetVars, ticked, backend>>

GemmInput(o) ==
  /\ G!MemInput(o)
  /\ UNCHANGED <<aluVars, accgetVars, ticked, backend>>

\* The wrapper asserts that the child accepts.
FireAlu(inst) ==
  /\ fired < MaxFired /\ alu.stage = "idle"
  /\ acc.busy => Apart(inst, acc.meta)
  /\ A!s0AluInstFire(inst, fired + 1)
  /\ fired' = fired + 1 /\ planes' = A!Needs(inst)
  /\ want' = [want EXCEPT !.inst = U!Result(inst, fired + 1)]
  /\ UNCHANGED <<gemm, accgetVars, ticked, gets>>

AluInput(pl) ==
  /\ pl \in planes
  /\ A!sNAluMemInput(pl[1], pl[2], <<fired, pl[1], pl[2]>>)
  /\ planes' = planes \ {pl}
  /\ UNCHANGED <<gemm, accgetVars, ticked, fired, gets, want>>

\* The wrapper asserts that the child accepts.
StartAccget(m) ==
  /\ gets < MaxGets
  /\ A!alu_accget_ready
  /\ retired[m.pacc] = Multiplications(m.pacc)
  /\ alu.stage # "idle" => Apart(alu.inst, m)
  /\ A!s0AccgetStart(m)
  /\ want' = [want EXCEPT !.get = [c \in A!Chunk |-> <<paccs[m.pacc], alu_temps[m.rs][c]>>]]
  /\ gets' = gets + 1
  /\ UNCHANGED <<gemm, accgetVars, ticked, fired, planes>>

Service ==
  /\ ticked = {}
  /\ \/ \E p \in Pacc : FireGemm(p)
     \/ \E o \in G!Operand : GemmInput(o)
     \/ \E inst \in AluInst : FireAlu(inst)
     \/ \E pl \in planes : AluInput(pl)
     \/ \E m \in Meta : StartAccget(m)

-----------------------------------------------------------------------------
(* A cycle.                                                                *)

\* CONNECT_CR_CS: the requests of the ALU are services of the matrix unit.
AluTick(wbTaken, retireTaken) ==
  /\ "alu" \notin ticked
  /\ ticked' = ticked \cup {"alu"}
  /\ A!Tick(wbTaken, retireTaken, P!accgetReady)
  /\ IF A!AccFires /\ P!accgetReady THEN P!s0FireAccget(acc.meta.pacc, acc.meta.rd)
     ELSE IF A!AccSends THEN P!sNAccInput(acc.lane, A!AccData, paccs)
     ELSE UNCHANGED accgetVars
  /\ UNCHANGED <<gemm, backend>>

\* Both ticks of the matrix unit.  Its requests are services of the ALU.
GemmTick ==
  /\ "gemm" \notin ticked
  /\ ticked' = ticked \cup {"gemm"}
  /\ G!TickData
  /\ IF P!DueOuts = {} THEN UNCHANGED alu_temps
     ELSE LET o == out[P!Lowest(P!DueOuts)] IN A!accTempInput(o.ptemp, o.chunk, o.data)
  /\ IF P!Ends THEN A!accgetRetirePTemp(accget.ptemp) ELSE UNCHANGED acc
  /\ UNCHANGED <<gemmRegs, gemmClient, alu, port, accgetVars, backend>>

Commit ==
  /\ ticked = {"alu", "gemm"}
  /\ ticked' = {}
  /\ G!Commit /\ P!AccgetCommit
  /\ UNCHANGED <<gemmData, gemmClient, aluVars, backend>>

Next ==
  \/ Service
  \/ \E wbTaken, retireTaken \in BOOLEAN : AluTick(wbTaken, retireTaken)
  \/ GemmTick
  \/ Commit

\* The clock does not stop, and the receivers do not refuse what is offered
\* them again and again.
Cycle == (\E wbTaken, retireTaken \in BOOLEAN : AluTick(wbTaken, retireTaken)) \/ GemmTick \/ Commit
TakesPlane == \E retireTaken \in BOOLEAN : A!WbActive /\ AluTick(TRUE, retireTaken)
TakesRetirement ==
  \E wbTaken \in BOOLEAN : (A!Retires(wbTaken) \/ acc.retire # <<>>) /\ AluTick(wbTaken, TRUE)
Fairness == WF_vars(Cycle) /\ SF_vars(TakesPlane) /\ SF_vars(TakesRetirement)

Spec == Init /\ [][Next]_vars
FairSpec == Spec /\ Fairness

-----------------------------------------------------------------------------

\* The two halves of an ACCGET agree: what the ALU has sent is what the matrix
\* unit has taken, and what it has taken is in a slot or back in the
\* temporary; it gives back all chunks before it says so (lines 560 to 595 and
\* 730 to 755 of GEMMUnit.hpp, 794 to 809 of ALU.hpp).
ChunksConserved ==
  ticked = {} =>
    /\ accget.busy => acc.busy /\ acc.started /\ acc.lane = accget.count
    /\ \A i, j \in P!OutSlot :
         out[i].valid /\ out[j].valid /\ out[i].chunk = out[j].chunk => i = j
    /\ \A i \in P!OutSlot : out[i].valid => out[i].chunk < acc.lane /\ acc.retire = <<>>
    /\ acc.retire # <<>> => acc.lane = ACCGET_CHUNKS /\ ~ accget.busy

\* An ACCGET reads an accumulator with all its multiplications in it: their
\* retirement is not reported before they are added (lines 621 to 687).
AccumulatorComplete ==
  acc.busy => Len(paccs[acc.meta.pacc]) = Multiplications(acc.meta.pacc)

\* Every instruction gives back its own result, whole and in order, or leaves
\* it in its temporary, every ACCGET leaves accumulator plus source in its
\* destination, each retires once, and other temporaries stay as they are.
ImplementsTempUnit == U!Spec

\* An instruction with all its planes is retired in the end.
InstRetires == alu.stage # "idle" /\ planes = {} ~> alu.stage = "idle"

\* An ACCGET is retired in the end if instructions leave it the retirement
\* port: they come first (line 811 of ALU.hpp), and temporary copies can be
\* fired and retired in every cycle.
QuietAccgetRetires == <>[](alu.stage = "idle") => []<>(~ acc.busy)

\* Whatever was asked for is retired, with the priority between the two
\* users of the port (lines 779 to 815 of ALU.hpp).
RequestsRetire == InstRetires /\ QuietAccgetRetires
=============================================================================
