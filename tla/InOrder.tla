------------------------------- MODULE InOrder -------------------------------
(***************************************************************************)
(* What the out-of-order backend of tools/example/ooo_backend promises:    *)
(* the instructions of a program take effect one after the other, in       *)
(* program order, up to its HALT.  A cycle may retire several.             *)
(***************************************************************************)
EXTENDS Integers, Sequences, ToyIsa

CONSTANTS
  ArchRegs,      \* registers x0 .. x(ArchRegs - 1); x0 reads as zero
  RetireWidth,   \* instructions one step may retire
  Programs,      \* the programs that may be run
  InitMem        \* the memory at the start, word address to word

VARIABLES
  program,       \* the instructions, in program order
  pc,            \* how many of them have taken effect
  regs, mem,     \* their effect on registers and memory
  halted         \* a HALT took effect

vars == <<program, pc, regs, mem, halted>>

Init ==
  /\ program \in Programs
  /\ pc = 0
  /\ regs = [r \in 1 .. ArchRegs - 1 |-> 0]
  /\ mem = InitMem
  /\ halted = FALSE

\* The next n instructions take effect; nothing follows a HALT.
Retire(n) ==
  /\ ~ halted
  /\ pc + n <= Len(program)
  /\ \A i \in pc + 1 .. pc + n - 1 : program[i].op # "HALT"
  /\ pc' = pc + n
  /\ LET m == Ran([regs |-> regs, mem |-> mem, halted |-> halted], program, pc, n)
     IN regs' = m.regs /\ mem' = m.mem /\ halted' = m.halted
  /\ UNCHANGED program

Next == \E n \in 1 .. RetireWidth : Retire(n)

Spec == Init /\ [][Next]_vars
=============================================================================
