------------------------------- MODULE MatMul -------------------------------
(***************************************************************************)
(* What the matrix unit promises: a multiplication that was accepted adds  *)
(* the product of its own two operands to its accumulator, once, and its   *)
(* retirement is reported once and not before the product has been added.  *)
(* The order in which accepted multiplications take effect is left open.   *)
(***************************************************************************)
EXTENDS Naturals, Sequences

CONSTANT Pacc

VARIABLES
  insts,    \* accumulator of each accepted multiplication
  sums,     \* products in each accumulator, in the order they were added
  retired   \* retirements reported per accumulator

Operand == {"A", "B"}

\* Operand tiles are named by the multiplication they were sent for.
Product(k) == [o \in Operand |-> k]

Init ==
  /\ insts = <<>>
  /\ sums = [p \in Pacc |-> <<>>]
  /\ retired = [p \in Pacc |-> 0]

Fire(p) == insts' = Append(insts, p) /\ UNCHANGED <<sums, retired>>

Accumulate(k) ==
  /\ \A j \in DOMAIN sums[insts[k]] : sums[insts[k]][j] # Product(k)
  /\ sums' = [sums EXCEPT ![insts[k]] = Append(@, Product(k))]

Retire(p) ==
  /\ retired[p] < Len(sums[p])
  /\ retired' = [retired EXCEPT ![p] = @ + 1]

\* In one cycle the unit may start one multiplication and retire another.
Cycle ==
  /\ (\E k \in DOMAIN insts : Accumulate(k)) \/ UNCHANGED sums
  /\ (\E p \in Pacc : Retire(p)) \/ UNCHANGED retired
  /\ UNCHANGED insts

Next == Cycle \/ \E p \in Pacc : Fire(p)

Spec == Init /\ [][Next]_<<insts, sums, retired>>
=============================================================================
