------------------------------ MODULE MCAluGemm ------------------------------
(* Small instances of AluGemm.                                             *)
EXTENDS AluGemm, TLC

Reg(n) == [kind |-> "reg", bytes |-> n, temp |-> 1]
MaskReg == [kind |-> "mask", bytes |-> 1, temp |-> 1]
T(t) == [kind |-> "temp", bytes |-> 4, temp |-> t]
None == [kind |-> "none", bytes |-> 1, temp |-> 1]

I(rd, a, b, binary, masked, pipe) ==
  [rd |-> rd, rs |-> <<a, b>>, binary |-> binary, masked |-> masked, pipe |-> pipe]

\* Copies in and out of temporaries, which take no time, a masked comparison
\* of a register of two bytes with a temporary, and an operation that takes
\* time and leaves its result in a temporary.
CopyIn(t) == I(T(t), Reg(1), None, TRUE, FALSE, 0)
CopyOut(t) == I(Reg(2), T(t), None, TRUE, FALSE, 0)
Copy(t, u) == I(T(t), T(u), None, TRUE, FALSE, 0)
Compare == I(MaskReg, Reg(2), T(1), TRUE, TRUE, 1)
Sqrt(t) == I(T(t), Reg(1), None, FALSE, FALSE, 2)

TwoTemps == {1, 2}
Insts == { CopyIn(1), CopyOut(2), Compare, Sqrt(2) }
Copies == { CopyIn(1), Copy(2, 1) }
SomeMeta == { [pacc |-> "p", rs |-> 1, rd |-> 2], [pacc |-> "p", rs |-> 1, rd |-> 1] }
OnePacc == {"p"}
=============================================================================
