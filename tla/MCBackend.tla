------------------------------ MODULE MCBackend ------------------------------
EXTENDS Backend

I(op, rd, src1, src2, imm) == [op |-> op, rd |-> rd, src1 |-> src1, src2 |-> src2, imm |-> imm]

Halt == I("HALT", 0, 0, 0, 0)

\* Programs that rename a register twice, wait for a slow producer, and
\* load and store at addresses of their own, as those of the tests do.
Mixed ==
  { << a, b, c, d, e, Halt >> :
      a \in { I("ADDI", 1, 0, 0, 3), I("LOAD", 1, 0, 0, 1), I("DIV", 1, 0, 0, 0) },
      b \in { I("MUL", 2, 1, 1, 0), I("SUB", 1, 0, 1, 0), I("STORE", 0, 0, 1, 2) },
      c \in { I("MUL", 1, 1, 1, 0), I("XOR", 2, 1, 2, 0), I("ADDI", 2, 0, 0, 1) },
      d \in { I("ADD", 1, 2, 1, 0), I("STORE", 0, 0, 1, 3), I("LOAD", 2, 0, 0, 0) },
      e \in { I("OR", 2, 2, 1, 0), I("NOP", 1, 1, 2, 0), I("AND", 0, 1, 2, 0) } }

\* One load after the other, one more than the memory lane has slots.
FiveLoads == { [i \in 1 .. 5 |-> I("LOAD", i, 0, 0, i)] \o << Halt >> }

\* A chain of divisions, slow enough to fill the reorder buffer and the ring.
SlowChain ==
  { [i \in 1 .. 39 |-> I("DIV", (i % 7) + 1, ((i - 1) % 7) + 1, 0, 0)] \o << Halt >> }

Memory == [a \in 0 .. 2 ^ WordBits - 1 |-> (a + 1) % 2 ^ WordBits]
\* The programs of the long run are orderly, as the theorems ask.
ASSUME MixedIsOrderly == Programs = Mixed => \A prog \in Mixed : Orderly(prog)
=============================================================================
