-------------------------------- MODULE ToyIsa --------------------------------
(***************************************************************************)
(* The instructions of tools/example/ooo_backend.  An instruction is a     *)
(* record [op, rd, src1, src2, imm] whose sources name registers; in a     *)
(* request to a functional unit the sources hold the operands' values.     *)
(* Words have WordBits bits, and a word address stands for the eight bytes *)
(* of an aligned double word.                                              *)
(***************************************************************************)
EXTENDS Integers

CONSTANT WordBits

Words == 2 ^ WordBits

Signed(x) == IF x >= Words \div 2 THEN x - Words ELSE x

Magnitude(x) == IF x < 0 THEN -x ELSE x

\* Signed division of words, rounding towards zero.  The quotient of the
\* smallest word by -1 does not fit: C++ leaves it undefined, no input has it.
Quotient(x, y) ==
  LET m == Magnitude(Signed(x)) \div Magnitude(Signed(y))
  IN (IF Signed(x) < 0 <=> Signed(y) < 0 THEN m ELSE -m) % Words

\* The word whose bits are those of x and y combined.
Bit(x, b) == (x \div 2 ^ b) % 2
BitByBit(Op(_, _), x, y) ==
  CHOOSE z \in 0 .. Words - 1 :
    \A b \in 0 .. WordBits - 1 : Bit(z, b) = Op(Bit(x, b), Bit(y, b))

\* Mutant: x0 is renamed like any other register (line 12).
WritesDestZero(inst) == inst.op \notin {"STORE", "HALT", "NOP"}

\* op_writes_dest and op_is_lsu.
WritesDest(inst) == inst.rd # 0 /\ inst.op \notin {"STORE", "HALT", "NOP"}

IsLsu(inst) == inst.op \in {"LOAD", "STORE"}

\* alu_execute.
Execute(req) ==
  LET x == req.src1  y == req.src2 IN
  CASE req.op = "ADD"  -> (x + y) % Words
    [] req.op = "ADDI" -> (x + req.imm) % Words
    [] req.op = "SUB"  -> (x - y) % Words
    [] req.op = "AND"  -> BitByBit(LAMBDA i, j : i * j, x, y)
    [] req.op = "OR"   -> BitByBit(LAMBDA i, j : i + j - i * j, x, y)
    [] req.op = "XOR"  -> BitByBit(LAMBDA i, j : (i + j) % 2, x, y)
    [] req.op = "MUL"  -> (x * y) % Words
    [] req.op = "DIV"  -> IF y = 0 THEN Words - 1 ELSE Quotient(x, y)
    [] OTHER           -> 0

\* The address of a load or a store.
Address(req) == (req.src1 + req.imm) % Words

\* An instruction with the values that its sources have in the registers.
Read(regs, inst) ==
  [inst EXCEPT !.src1 = IF @ = 0 THEN 0 ELSE regs[@], !.src2 = IF @ = 0 THEN 0 ELSE regs[@]]

\* What it computes from them, and from the memory.
Value(mem, req) == IF req.op = "LOAD" THEN mem[Address(req)] ELSE Execute(req)

\* The machine m after one more instruction, executed in program order.
Apply(m, inst) ==
  LET req == Read(m.regs, inst) IN
  [regs   |-> IF WritesDest(inst) THEN [m.regs EXCEPT ![inst.rd] = Value(m.mem, req)] ELSE m.regs,
   mem    |-> IF inst.op = "STORE" THEN [m.mem EXCEPT ![Address(req)] = req.src2] ELSE m.mem,
   halted |-> m.halted \/ inst.op = "HALT"]

\* The machine m after n more: those of the code that follow its first k.
Ran(m, code, k, n) ==
  LET run[i \in 0 .. n] == IF i = 0 THEN m ELSE Apply(run[i - 1], code[k + i])
  IN run[n]
=============================================================================
