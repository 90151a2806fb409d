-------------------------------- MODULE Tmisc --------------------------------
(***************************************************************************)
(* The unit for tile moves, src/src/tmisc/TMISC.hpp, with its client: one  *)
(* instruction at a time waits for the byte planes of its source, computes *)
(* its result and gives it back one plane per cycle.                       *)
(*                                                                         *)
(* All state is software (HELPER) and changes at once.  The flags          *)
(* tmisc_busy, tmisc_result_ready and tmisc_wb_active only occur in three  *)
(* combinations: misc.stage.                                               *)
(***************************************************************************)
EXTENDS TileOps

CONSTANTS
  Insts,          \* instructions the client may fire: BaseInst, changed
  PlaneOf(_, _),  \* the planes of the source of the n-th instruction
  MaxFired        \* bound: instructions fired

ASSUME FiredAssumption == MaxFired \in Nat

\* Elements have one to four bytes.
ASSUME InstsAssumption ==
  \A inst \in Insts :
    /\ inst.op \in {"TFILL", "TFILLLINE", "TSETMASK"} \cup Broadcasts \cup Shifts \cup Transposes
    /\ inst.rdBytes \in 1 .. 4 /\ inst.rsBytes \in 1 .. 4

ASSUME PlanesAssumption ==
  \A n \in 1 .. MaxFired, b \in Byte :
    PlaneOf(n, b) \in [Index -> [Index -> 0 .. ByteBase - 1]]

VARIABLES
  misc,    \* the unit: its instruction, its tiles and its progress
  wb,      \* planes the register file took in the last cycle: none or one
  fired    \* instructions fired; the last one is in flight

vars == <<misc, wb, fired>>

\* After the reset of the first tick (tmisc_reset_sw).
Init ==
  /\ misc = [stage |-> "idle", inst |-> BaseInst, src |-> Zero, valid |-> {},
             result |-> Zero, wb_byte |-> 0]
  /\ wb = <<>> /\ fired = 0

-----------------------------------------------------------------------------

\* Mutant: the planes of the destination are counted (line 124).
InputReadyOfResult(m) == NeedsInput(m.inst) => 0 .. m.inst.rdBytes - 1 \subseteq m.valid

InputReady(m) == NeedsInput(m.inst) => 0 .. m.inst.rsBytes - 1 \subseteq m.valid

\* tmisc_compute_result
Computed(m) ==
  [m EXCEPT !.stage = "wb", !.result = ComputeResult(m.inst, m.src), !.wb_byte = 0]

\* What needs no input is computed at once.
s0MiscFire(inst) ==
  /\ misc.stage = "idle"
  /\ LET m == [stage |-> "wait", inst |-> inst, src |-> Zero, valid |-> {},
               result |-> Zero, wb_byte |-> 0]
     IN  misc' = IF NeedsInput(inst) THEN m ELSE Computed(m)

\* Planes nobody waits for are dropped.
Expects(b) ==
  misc.stage # "idle" /\ NeedsInput(misc.inst) /\ b \in 0 .. misc.inst.rsBytes - 1

\* Mutant: a plane that comes again restarts the writeback (line 346).
miscMemInputRestart(b, plane) ==
  IF ~ Expects(b) THEN UNCHANGED misc
  ELSE LET m == [misc EXCEPT !.src = Merge(@, b, plane), !.valid = @ \cup {b}]
       IN  misc' = IF InputReady(m) THEN Computed(m) ELSE m

\* The last plane that was missing starts the computation; one that comes
\* again later does not.
miscMemInput(b, plane) ==
  IF ~ Expects(b) THEN UNCHANGED misc
  ELSE LET m == [misc EXCEPT !.src = Merge(@, b, plane), !.valid = @ \cup {b}]
       IN  misc' = IF InputReady(m) /\ misc.stage = "wait" THEN Computed(m) ELSE m

Last == misc.wb_byte + 1 >= OutputBytes(misc.inst)
Writeback ==
  [rd |-> misc.inst.rd, byte |-> misc.wb_byte, last |-> Last,
   data |-> Plane(misc.result, misc.wb_byte)]

\* A plane that is refused is offered again.
Tick(taken) ==
  IF misc.stage = "wb" /\ taken
  THEN /\ wb' = <<Writeback>>
       /\ misc' = IF Last THEN [misc EXCEPT !.stage = "idle", !.wb_byte = 0]
                  ELSE [misc EXCEPT !.wb_byte = @ + 1]
  ELSE wb' = <<>> /\ UNCHANGED misc

-----------------------------------------------------------------------------
(* The client.  Planes carry no name of their instruction, so it sends     *)
(* those of the instruction in flight, in any order, some again.           *)

Fire(inst) ==
  /\ fired < MaxFired
  /\ s0MiscFire(inst)
  /\ fired' = fired + 1 /\ UNCHANGED wb

MemInput(b) ==
  /\ misc.stage # "idle"
  /\ miscMemInput(b, PlaneOf(fired, b))
  /\ UNCHANGED <<wb, fired>>

Cycle == (\E taken \in BOOLEAN : Tick(taken)) /\ UNCHANGED fired

Next ==
  \/ \E inst \in Insts : Fire(inst)
  \/ \E b \in Byte : MemInput(b)
  \/ Cycle

\* The register file sends every plane and takes one again and again.
Fairness ==
  /\ \A b \in Byte : WF_vars(MemInput(b))
  /\ WF_vars(misc.stage = "wb" /\ Tick(TRUE) /\ UNCHANGED fired)

Spec == Init /\ [][Next]_vars
FairSpec == Spec /\ Fairness

-----------------------------------------------------------------------------

\* The source of the n-th instruction, all planes together.
SourceOf(n, bytes) ==
  LET Part(b, r, c) == IF b < bytes THEN PlaneOf(n, b)[r][c] * Weight(b) ELSE 0
  IN  [r \in Index |-> [c \in Index |->
         Part(0, r, c) + Part(1, r, c) + Part(2, r, c) + Part(3, r, c)]]

Request(inst, n) == [rd |-> inst.rd, bytes |-> OutputBytes(inst), inst |-> inst, n |-> n]
Result(m, b) == Plane(ComputeResult(m.inst, SourceOf(m.n, m.inst.rsBytes)), b)

Port == INSTANCE PlanePort WITH
  Slot <- {1},
  Requests <- { Request(inst, n) : inst \in Insts, n \in 1 .. MaxFired },
  Expected <- Result,
  pending <- [s \in {1} |->
    IF misc.stage = "idle" THEN [busy |-> FALSE]
    ELSE [busy |-> TRUE, request |-> Request(misc.inst, fired), sent |-> misc.wb_byte]]

\* Every instruction gives back the operation applied to its own source,
\* plane by plane, each once, in whatever order the planes of the source come
\* and however late some come again (lines 313 to 375).
ImplementsPlanePort == Port!Spec

\* Every instruction is finished in the end, the widest and the narrowest.
InstFinishes == misc.stage # "idle" ~> misc.stage = "idle"
=============================================================================
