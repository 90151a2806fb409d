------------------------------- MODULE Accget -------------------------------
(***************************************************************************)
(* The ACCGET path of the matrix unit, src/src/gemm/GEMMUnit.hpp: it takes *)
(* the chunks of a tile one by one, adds the accumulator, holds each sum   *)
(* for the output latency and gives it back.  AluGemm closes it with the   *)
(* ALU, which drives it.  The registers change at the commit; what the     *)
(* services have written to them in the cycle is call.                     *)
(***************************************************************************)
EXTENDS Integers, FiniteSets

CONSTANTS
  ACCGET_CHUNKS,         \* chunks of a tile (4)
  GEMM_OUTPUT_LATENCY    \* 8

AccgetAssumption == ACCGET_CHUNKS \in Nat \ {0} /\ GEMM_OUTPUT_LATENCY \in Nat

\* ACCGET_OUT_SLOTS
OutSlot == 1 .. ACCGET_CHUNKS + GEMM_OUTPUT_LATENCY + 2

VARIABLES
  accget,   \* accget_busy, _accepting, _pacc, _ptemp, _input_count
  out,      \* accget_out_valid, _simdlane, _remain and the data, per slot
  call      \* what a service has written in this cycle

accgetVars == <<accget, out, call>>

Idle == [busy |-> FALSE, accepting |-> FALSE, count |-> 0]
NoOut == [valid |-> FALSE]
NoCall == [kind |-> "none"]

AccgetInit == accget = Idle /\ out = [i \in OutSlot |-> NoOut] /\ call = NoCall

accgetReady == ~ accget.busy

s0FireAccget(p, t) ==
  /\ accgetReady
  /\ call' = [kind |-> "fire", pacc |-> p, ptemp |-> t]
  /\ UNCHANGED <<accget, out>>

FreeOuts == { i \in OutSlot : ~ out[i].valid }
Lowest(S) == CHOOSE i \in S : \A j \in S : i <= j

\* A chunk that comes out of turn, or finds no free slot, is dropped.  The
\* sum is made of the accumulator as it is now.
sNAccInput(c, value, paccs) ==
  /\ call' = IF accget.busy /\ accget.accepting /\ FreeOuts # {}
             THEN [kind |-> "input", slot |-> Lowest(FreeOuts), chunk |-> c,
                   data |-> <<paccs[accget.pacc], value>>]
             ELSE call
  /\ UNCHANGED <<accget, out>>

\* The tick of the path: at most one output, from the first slot whose
\* latency has run out, and the retirement when nothing is left.
DueOuts == { i \in OutSlot : out[i].valid /\ out[i].remain = 0 }

\* Mutant: the retirement does not wait for the outputs (line 750).
EndsEarly == accget.busy /\ ~ accget.accepting

Ends == accget.busy /\ ~ accget.accepting /\ \A i \in OutSlot : ~ out[i].valid

OutNext(i) ==
  IF call.kind = "input" /\ call.slot = i
  THEN [valid |-> TRUE, ptemp |-> accget.ptemp, chunk |-> call.chunk,
        remain |-> GEMM_OUTPUT_LATENCY, data |-> call.data]
  ELSE IF i \in DueOuts /\ i = Lowest(DueOuts) THEN NoOut
  ELSE IF out[i].valid /\ out[i].remain > 0 THEN [out[i] EXCEPT !.remain = @ - 1]
  ELSE out[i]

Accepts(count) == count + 1 < ACCGET_CHUNKS

AccgetNext ==
  CASE call.kind = "fire"  -> [busy |-> TRUE, accepting |-> TRUE, count |-> 0,
                               pacc |-> call.pacc, ptemp |-> call.ptemp]
    [] call.kind = "input" -> [accget EXCEPT !.count = @ + 1, !.accepting = Accepts(accget.count)]
    [] call.kind = "none"  -> IF Ends THEN Idle ELSE accget

AccgetCommit ==
  /\ accget' = AccgetNext
  /\ out' = [i \in OutSlot |-> OutNext(i)]
  /\ call' = NoCall
=============================================================================
