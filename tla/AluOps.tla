-------------------------------- MODULE AluOps --------------------------------
(***************************************************************************)
(* What the operations of src/src/alu/ALU.hpp compute for one element      *)
(* (lines 59 to 301 and 458 to 599).  A byte has BYTE bits, where the unit *)
(* has 8; an element is a word of four bytes.  The code computes with a     *)
(* small float as a float of the host; here it is an integer that counts   *)
(* units of 2^-UNIT, and sums and products are exact.  F32, which is the   *)
(* host's own, and the series and quotients of the remaining float         *)
(* operations are left out.                                                *)
(***************************************************************************)
EXTENDS Integers, FiniteSetsExt

LOCAL INSTANCE Bitwise

CONSTANTS
  BYTE,
  UNIT,
  Format,   \* dtype of a small float -> bits of its fields, bias
  HUGE      \* what an infinity or a NaN is taken for, in units

Ones  == {"SINT8", "UINT8", "F8E4M3", "F8E5M2"}
Twos  == {"SINT16", "UINT16", "F16"}

IsSigned(dtype) == dtype \in {"SINT8", "SINT16", "SINT32"}
IsFloat(dtype)  == dtype \in {"F8E4M3", "F8E5M2", "F16", "F32"}
IsUnsigned(dtype) == ~ IsSigned(dtype) /\ ~ IsFloat(dtype)

Bytes(dtype) == IF dtype \in Ones THEN 1 ELSE IF dtype \in Twos THEN 2 ELSE 4

\* alu_mask_value; also what a result is cut to.
MaskValue(n, dtype) == n % 2 ^ (BYTE * Bytes(dtype))

DecodeInt(value, dtype) ==
  LET n == MaskValue(value, dtype)  size == 2 ^ (BYTE * Bytes(dtype))
  IN  IF IsSigned(dtype) /\ 2 * n >= size THEN n - size ELSE n

SameClass(l, r) ==
  \/ IsSigned(l) /\ IsSigned(r)
  \/ IsUnsigned(l) /\ IsUnsigned(r)
  \/ IsFloat(l) /\ IsFloat(r)

\* alu_mul_output_dtype: only a product may be wider than its factors.
MulOutput(src, rd) == IF SameClass(src, rd) /\ Bytes(rd) > Bytes(src) THEN rd ELSE src

-----------------------------------------------------------------------------
\* alu_decode_custom_float
DecodeFloat(value, dtype) ==
  LET f    == Format[dtype]
      bits == MaskValue(value, dtype)
      top  == 2 ^ f.exp - 1
      exp  == (bits \div 2 ^ f.mant) % 2 ^ f.exp
      mant == bits % 2 ^ f.mant
      mag  == CASE exp = 0   -> mant * 2 ^ (UNIT + 1 - f.bias - f.mant)
                [] exp = top -> HUGE
                [] OTHER     -> (2 ^ f.mant + mant) * 2 ^ (UNIT + exp - f.bias - f.mant)
  IN  IF bits \div 2 ^ (f.exp + f.mant) # 0 THEN - mag ELSE mag

Shift(n, shift) == IF shift >= 0 THEN n * 2 ^ shift ELSE n \div 2 ^ (- shift)

\* Mutant: a mantissa that is rounded up to the next power of two stays
\* (lines 196 to 202).
EncodeFloatNoCarry(n, unit, dtype) ==
  LET f    == Format[dtype]
      mag  == IF n < 0 THEN - n ELSE n
      msb  == Max({ i \in 0 .. 30 : mag \div 2 ^ i > 0 })
      exp  == msb - unit + f.bias
      mant == (Shift(mag, f.mant + 1 - msb) + 1) \div 2 - 2 ^ f.mant
      inf  == (2 ^ f.exp - 1) * 2 ^ f.mant
  IN  (IF n < 0 THEN 2 ^ (f.exp + f.mant) ELSE 0) +
      (CASE mag = 0            -> 0
         [] exp >= 2 ^ f.exp - 1 -> inf
         [] exp <= 0           -> 0
         [] OTHER              -> exp * 2 ^ f.mant + (mant % 2 ^ f.mant))

\* alu_encode_custom_float, for n units of 2^-unit: the mantissa is rounded,
\* with ties up; a mantissa that becomes a power of two is carried to the
\* exponent.  What is below the normal numbers is a zero.
EncodeFloat(n, unit, dtype) ==
  LET f    == Format[dtype]
      mag  == IF n < 0 THEN - n ELSE n
      msb  == Max({ i \in 0 .. 30 : mag \div 2 ^ i > 0 })
      exp  == msb - unit + f.bias
      mant == (Shift(mag, f.mant + 1 - msb) + 1) \div 2 - 2 ^ f.mant
      inf  == (2 ^ f.exp - 1) * 2 ^ f.mant
  IN  (IF n < 0 THEN 2 ^ (f.exp + f.mant) ELSE 0) +
      (CASE mag = 0              -> 0
         [] exp >= 2 ^ f.exp - 1 -> inf
         [] exp <= 0             -> 0
         [] OTHER                -> exp * 2 ^ f.mant + mant)

\* The loop of alu_encode_custom_float that normalises its argument does not
\* end for an infinity (lines 177 to 180), which the sum of two of what stand
\* for one is, and the product of one and a number above one.
Encodable(op, x, y) ==
  LET Infinite(n) == n \in {HUGE, - HUGE} IN
  CASE op = "TADD" -> x + y \notin {2 * HUGE, - 2 * HUGE}
    [] op = "TSUB" -> x - y \notin {2 * HUGE, - 2 * HUGE}
    [] op = "TMUL" -> /\ Infinite(x) => y \in - 2 ^ UNIT .. 2 ^ UNIT
                      /\ Infinite(y) => x \in - 2 ^ UNIT .. 2 ^ UNIT
    [] OTHER -> TRUE

-----------------------------------------------------------------------------
Larger(x, y)  == IF x > y THEN x ELSE y
Smaller(x, y) == IF x < y THEN x ELSE y

FloatBinary(op, x, y, out) ==
  CASE op = "TADD" -> EncodeFloat(x + y, UNIT, out)
    [] op = "TSUB" -> EncodeFloat(x - y, UNIT, out)
    [] op = "TMUL" -> EncodeFloat(x * y, 2 * UNIT, out)
    [] op = "TMAX" -> EncodeFloat(Larger(x, y), UNIT, out)
    [] op = "TMIN" -> EncodeFloat(Smaller(x, y), UNIT, out)
    [] OTHER       -> 0

\* x and y are the numbers of the operands, u and v their words.
IntBinary(op, x, y, u, v, shamt) ==
  CASE op = "TADD" -> x + y
    [] op = "TSUB" -> x - y
    [] op = "TMUL" -> x * y
    [] op = "TMAX" -> Larger(x, y)
    [] op = "TMIN" -> Smaller(x, y)
    [] op = "TAND" -> u & v
    [] op = "TOR"  -> u | v
    [] op = "TXOR" -> u ^^ v
    [] op = "TSLL" -> u * 2 ^ shamt
    [] op = "TSRL" -> u \div 2 ^ shamt
    [] op = "TSRA" -> x \div 2 ^ shamt
    [] OTHER       -> 0

\* alu_binary_value; a division gives zero.
BinaryValue(op, a, b, src, rd) ==
  LET out == IF op = "TMUL" THEN MulOutput(src, rd) ELSE src IN
  IF IsFloat(src) THEN FloatBinary(op, DecodeFloat(a, src), DecodeFloat(b, src), out)
  ELSE MaskValue(IntBinary(op, DecodeInt(a, src), DecodeInt(b, src),
                           MaskValue(a, src), MaskValue(b, src), b % (4 * BYTE)), out)

\* alu_unary_value
UnaryNumber(op, x, six) ==
  CASE op = "TABS"   -> IF x < 0 THEN - x ELSE x
    [] op = "TNEG"   -> - x
    [] op = "TRELU"  -> Larger(x, 0)
    [] op = "TRELU6" -> Smaller(Larger(x, 0), six)
    [] OTHER         -> x

UnaryValue(op, a, dtype) ==
  CASE IsFloat(dtype) -> EncodeFloat(UnaryNumber(op, DecodeFloat(a, dtype), 6 * 2 ^ UNIT), UNIT, dtype)
    [] op = "TNOT"    -> MaskValue(- 1 - MaskValue(a, dtype), dtype)
    [] OTHER          -> MaskValue(UnaryNumber(op, DecodeInt(a, dtype), 6), dtype)

\* alu_compare_value
CompareValue(op, a, b, dtype) ==
  LET x == IF IsFloat(dtype) THEN DecodeFloat(a, dtype) ELSE DecodeInt(a, dtype)
      y == IF IsFloat(dtype) THEN DecodeFloat(b, dtype) ELSE DecodeInt(b, dtype)
  IN  CASE op = "TMEQ"  -> x = y
        [] op = "TMNEQ" -> x # y
        [] op = "TMLT"  -> x < y
        [] op = "TMGE"  -> x >= y
        [] op = "TMLE"  -> x <= y
        [] op = "TMGT"  -> x > y

Compares == {"TMEQ", "TMNEQ", "TMLT", "TMGE", "TMLE", "TMGT"}
MaskOps  == {"TMAND", "TMNAND", "TMOR", "TMNOR", "TMXOR", "TMNXOR"}
Binaries == {"TADD", "TSUB", "TMUL", "TDIV", "TMAX", "TMIN",
             "TAND", "TOR", "TXOR", "TSLL", "TSRL", "TSRA"}

\* alu_bool_at
BoolAt(a) == a % 2 ^ BYTE # 0

MaskValueOf(op, x, y) ==
  CASE op = "TMAND"  -> x /\ y
    [] op = "TMNAND" -> ~ (x /\ y)
    [] op = "TMOR"   -> x \/ y
    [] op = "TMNOR"  -> ~ (x \/ y)
    [] op = "TMXOR"  -> x # y
    [] op = "TMNXOR" -> x = y

\* alu_execute_current, for an element with its operands and its mask bit.
ExecuteElement(inst, mask, a, b) ==
  LET Bit(p) == IF p THEN 1 ELSE 0 IN
  CASE inst.mask_enable /\ ~ mask -> 0
    [] inst.op = "TMERGE"     -> IF mask THEN a ELSE b
    [] inst.op = "TMMV"       -> Bit(BoolAt(a))
    [] inst.op = "TMNOT"      -> Bit(~ BoolAt(a))
    [] inst.op \in MaskOps    -> Bit(MaskValueOf(inst.op, BoolAt(a), BoolAt(b)))
    [] inst.op \in Compares   -> Bit(CompareValue(inst.op, a, b, inst.rs1))
    [] inst.op \in Binaries   -> BinaryValue(inst.op, a, b, inst.rs1, inst.rd)
    [] OTHER                  -> UnaryValue(inst.op, a, inst.rs1)
=============================================================================
