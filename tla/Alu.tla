-------------------------------- MODULE Alu ---------------------------------
(***************************************************************************)
(* The element-wise unit, src/src/alu/ALU.hpp: one instruction at a time,  *)
(* the temporaries, and the driver of ACCGET, which sends a temporary to   *)
(* the matrix unit chunk by chunk and takes the sums back.  AluGemm closes *)
(* it with its clients and the matrix unit.                                *)
(*                                                                         *)
(* All state is software (HELPER) and changes at once.  The flags          *)
(* alu_busy, alu_exec_active, alu_result_ready, alu_wb_active and          *)
(* alu_retire_pending only occur in five combinations: alu.stage.          *)
(***************************************************************************)
EXTENDS Integers, Sequences, FiniteSets

CONSTANTS
  Temp,       \* temporaries (8 in header/config.hpp)
  Chunks,     \* SIMD chunks of a tile, TILE_SIZE / SIMD_LANE_SIZE (4)
  AluInst     \* instructions the back end may fire

Chunk == 0 .. Chunks - 1
Byte == 0 .. 3

\* Kinds of operands, TOPRandType; "none" is INVALID.
Kind == {"none", "reg", "mask", "temp"}

(* An instruction: its destination with the bytes of its elements or the   *)
(* temporary it names; its sources likewise; whether the operation reads   *)
(* the second source and the mask (alu_needs_src2, alu_needs_mask); and    *)
(* the latency of the pipeline it takes (alu_op_pipe_latency).             *)
OperandType == [kind : Kind, bytes : 1 .. 4, temp : Temp]
InstType == [rd : OperandType, rs : [1 .. 2 -> OperandType],
             binary : BOOLEAN, masked : BOOLEAN, pipe : Nat]

AluAssumption == Chunks \in Nat \ {0} /\ AluInst \subseteq InstType

VARIABLES
  alu,         \* the instruction in flight and its stage
  acc,         \* the ACCGET in flight
  alu_temps,   \* [Temp -> [Chunk -> value]]
  port         \* what the back end took in the last cycle: [wb, retire]

aluVars == <<alu, acc, alu_temps, port>>

-----------------------------------------------------------------------------

(* Values are named by where they come from and are sequences: <<>> is     *)
(* zero, <<k>> an operand plane sent for the k-th instruction.             *)
Zero == <<>>
NoPlanes == [b \in Byte |-> Zero]

\* A clear tile of a temporary.
NoTile == [c \in Chunk |-> Zero]

NoAcc == [busy |-> FALSE, started |-> FALSE, lane |-> 0, retire |-> <<>>]
NoPort == [wb |-> <<>>, retire |-> <<>>]

NoMask == Zero

\* alu_reset_sw; alu_inst itself is not reset.
AluInit ==
  /\ alu = [stage |-> "idle", inst |-> CHOOSE i \in AluInst : TRUE, n |-> 0,
             src |-> [s \in 1 .. 2 |-> <<NoPlanes>>], valid |-> {}, mask |-> NoMask,
             result |-> <<>>, remain |-> 0, wb_byte |-> 0]
  /\ acc = NoAcc
  /\ alu_temps = [t \in Temp |-> NoTile]
  /\ port = NoPort

-----------------------------------------------------------------------------
(* Services.                                                               *)

alu_ready_for_inst == alu.stage = "idle"

\* alu_start_inst: n is the number of the instruction.  A temporary is read
\* at once.
Source(inst, s) ==
  IF inst.rs[s].kind = "temp" THEN <<alu_temps[inst.rs[s].temp]>> ELSE <<NoPlanes>>

\* Mutant: the planes of the last instruction stay valid (line 645).
s0AluInstFireStale(inst, n) ==
  /\ alu_ready_for_inst
  /\ alu' = [alu EXCEPT !.stage = "wait", !.inst = inst, !.n = n,
                        !.src = [s \in 1 .. 2 |-> Source(inst, s)], !.wb_byte = 0]
  /\ UNCHANGED <<acc, alu_temps, port>>

s0AluInstFire(inst, n) ==
  /\ alu_ready_for_inst
  /\ alu' = [stage |-> "wait", inst |-> inst, n |-> n,
             src |-> [s \in 1 .. 2 |-> Source(inst, s)],
             valid |-> {}, mask |-> NoMask, result |-> <<>>, remain |-> 0, wb_byte |-> 0]
  /\ UNCHANGED <<acc, alu_temps, port>>

\* Operand 3 is the mask.
sNAluMemInput(s, b, plane) ==
  /\ alu' = IF alu.stage = "idle" THEN alu
            ELSE IF s = 3 THEN [alu EXCEPT !.mask = plane, !.valid = @ \cup {<<3, 0>>}]
            ELSE [alu EXCEPT !.src[s][1][b] = plane, !.valid = @ \cup {<<s, b>>}]
  /\ UNCHANGED <<acc, alu_temps, port>>

alu_accget_ready == ~ acc.busy /\ acc.retire = <<>>

\* meta: accumulator, source and destination temporary.
s0AccgetStart(meta) ==
  /\ alu_accget_ready
  /\ acc' = [busy |-> TRUE, started |-> FALSE, lane |-> 0, retire |-> <<>>, meta |-> meta]
  /\ UNCHANGED <<alu, alu_temps, port>>

\* Services of the ALU that the matrix unit calls in its tick, which may come
\* before or after the tick of the ALU.
accTempInput(t, c, value) == alu_temps' = [alu_temps EXCEPT ![t][c] = value]
accgetRetirePTemp(t) == acc' = [acc EXCEPT !.retire = <<t>>]

-----------------------------------------------------------------------------
(* The tick.                                                               *)

\* The planes an operand waits for.
Planes(inst, s) ==
  { <<s, b>> : b \in CASE inst.rs[s].kind = "reg"  -> 0 .. inst.rs[s].bytes - 1
                       [] inst.rs[s].kind = "mask" -> {0}
                       [] OTHER -> {} }

\* alu_inputs_ready: everything an instruction waits for.
Needs(inst) ==
  Planes(inst, 1) \cup (IF inst.binary THEN Planes(inst, 2) ELSE {})
                  \cup (IF inst.masked THEN {<<3, 0>>} ELSE {})

Starts == alu.stage = "wait" /\ Needs(alu.inst) \subseteq alu.valid

\* alu_execute_current: a value of the operands the operation reads.
Execute == << alu.src[1], IF alu.inst.binary THEN alu.src[2] ELSE Zero,
              IF alu.inst.masked THEN alu.mask ELSE Zero >>
Result == IF Starts THEN Execute ELSE alu.result

\* alu_total_exec_latency
Latency(inst) == IF inst.pipe = 0 THEN 0 ELSE inst.pipe + Chunks - 1

Finishes ==
  \/ Starts /\ Latency(alu.inst) = 0
  \/ alu.stage = "exec" /\ alu.remain <= 1

ToTemp == alu.stage # "idle" /\ alu.inst.rd.kind = "temp"
WritesBack == alu.stage # "idle" /\ alu.inst.rd.kind \in {"reg", "mask"}

\* alu_finish_execute writes a temporary before the driver of ACCGET reads
\* in the same tick.
TempsNow ==
  IF Finishes /\ ToTemp
  THEN [alu_temps EXCEPT ![alu.inst.rd.temp] = [c \in Chunk |-> Append(Result, c)]]
  ELSE alu_temps

\* Writeback of one plane per cycle.
WbActive == alu.stage = "wb" \/ (Finishes /\ WritesBack)
WbBytes == IF alu.inst.rd.kind = "mask" THEN 1 ELSE alu.inst.rd.bytes
WbLast == alu.wb_byte + 1 >= WbBytes
Wb == [n |-> alu.n, byte |-> alu.wb_byte, last |-> WbLast, data |-> Append(Result, alu.wb_byte)]

\* Mutant: a refused retirement is not tried again (line 785).
RetiresOnce(wbTaken) ==
  \/ Finishes /\ ~ WritesBack
  \/ WbActive /\ wbTaken /\ WbLast

\* The instruction asks to retire.
Retires(wbTaken) ==
  \/ alu.stage = "retire"
  \/ Finishes /\ ~ WritesBack
  \/ WbActive /\ wbTaken /\ WbLast

\* An ACCGET retires only in a cycle in which no instruction does.
AccRetires(wbTaken, retireTaken) == acc.retire # <<>> /\ ~ (Retires(wbTaken) /\ retireTaken)

AccFires == acc.busy /\ ~ acc.started
AccSends == acc.busy /\ acc.started /\ acc.lane < Chunks

\* What the driver sends.
AccData == TempsNow[acc.meta.rs][acc.lane]

\* The instruction after the tick.  taken: what the receivers accept.
AluNext(wbTaken, retireTaken) ==
  IF Retires(wbTaken)
  THEN [alu EXCEPT !.stage = IF retireTaken THEN "idle" ELSE "retire", !.result = Result]
  ELSE IF WbActive
  THEN [alu EXCEPT !.stage = "wb", !.result = Result, !.wb_byte = IF wbTaken THEN @ + 1 ELSE @]
  ELSE IF Starts THEN [alu EXCEPT !.stage = "exec", !.result = Result, !.remain = Latency(alu.inst)]
  ELSE IF alu.stage = "exec" THEN [alu EXCEPT !.remain = @ - 1]
  ELSE alu

AccNext(wbTaken, retireTaken, fireTaken) ==
  IF AccRetires(wbTaken, retireTaken) /\ retireTaken THEN NoAcc
  ELSE IF AccFires /\ fireTaken THEN [acc EXCEPT !.started = TRUE, !.lane = 0]
  ELSE IF AccSends THEN [acc EXCEPT !.lane = @ + 1]
  ELSE acc

\* What goes over the ports in the tick.
Port(wbTaken, retireTaken) ==
  [wb |-> IF WbActive /\ wbTaken THEN <<Wb>> ELSE <<>>,
   retire |-> (IF Retires(wbTaken) /\ retireTaken THEN <<[inst |-> alu.n]>> ELSE <<>>)
          \o (IF AccRetires(wbTaken, retireTaken) /\ retireTaken THEN <<[get |-> acc.retire[1]]>> ELSE <<>>)]

Tick(wbTaken, retireTaken, fireTaken) ==
  /\ alu' = AluNext(wbTaken, retireTaken)
  /\ acc' = AccNext(wbTaken, retireTaken, fireTaken)
  /\ alu_temps' = TempsNow
  /\ port' = Port(wbTaken, retireTaken)
=============================================================================
