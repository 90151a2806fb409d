------------------------------ MODULE FixedPoint ------------------------------
(***************************************************************************)
(* The numbers of the matrix unit, src/src/gemm/GEMMUnit.hpp lines 73 to   *)
(* 396: bytes become fixed-point numbers of WIDTH bits, FRAC of them       *)
(* behind the point, products are added up in that form, and an            *)
(* accumulator is added to a word of a temporary and rounded.  A number is *)
(* a word as in Int<WIDTH>, 0 .. 2^WIDTH - 1; what the operators of Int    *)
(* compute is the matter of FixInt.  The sizes are constants: the unit has *)
(* FRAC 48, WIDTH 96, F32_ACC_WORK_FRAC 160, BYTE 8, OUT 32 and MANT 23.   *)
(***************************************************************************)
EXTENDS Integers, FiniteSetsExt

CONSTANTS
  FRAC, WIDTH,
  F32_ACC_WORK_FRAC,   \* bits behind the point while a float is added
  BYTE,                \* bits of an operand
  OUT, MANT,           \* bits of a result, and of its mantissa if a float
  Format               \* dtype of a float operand -> bits of its fields, bias

Cut(n) == n % 2 ^ WIDTH

\* The number that a word of so many bits is in two's complement.
SignExtend(value, bits) == IF value >= 2 ^ (bits - 1) THEN value - 2 ^ bits ELSE value

Signed(x) == SignExtend(x, WIDTH)

\* The magnitude of a number, as a word: that of the lowest one fits.
Magnitude(x) == IF Signed(x) < 0 THEN Cut(- x) ELSE x

\* value << shift, or value >> -shift when the shift is negative.
Shift(value, shift) == IF shift >= 0 THEN value * 2 ^ shift ELSE value \div 2 ^ (- shift)

HighestSetBit(mag) == Max({ i \in 0 .. 30 : mag \div 2 ^ i > 0 })

-----------------------------------------------------------------------------
\* fp8_to_fixed48.  The encodings of infinities and NaNs stand for the
\* largest finite number.
Fp8ToFixed(bits, f) ==
  LET top    == 2 ^ f.exp - 1
      field  == (bits \div 2 ^ f.mant) % 2 ^ f.exp
      exp    == IF field = top THEN top - 1 ELSE field
      mant   == IF field = top THEN 2 ^ f.mant - 1 ELSE bits % 2 ^ f.mant
      value  == IF exp # 0 THEN Shift(2 ^ f.mant + mant, exp - f.bias - f.mant + FRAC)
                ELSE Shift(mant, 1 - f.bias - f.mant + FRAC)
  IN  IF bits \div 2 ^ (f.exp + f.mant) # 0 THEN Cut(- value) ELSE Cut(value)

InputToFixed(value, dtype) ==
  CASE dtype = "SINT8" -> Cut(SignExtend(value, BYTE) * 2 ^ FRAC)
    [] dtype = "UINT8" -> Cut(value * 2 ^ FRAC)
    [] OTHER           -> Fp8ToFixed(value, Format[dtype])

\* fixed_mul48: the product has twice the width and never overflows.
FixedMul(l, r) == Cut((Signed(l) * Signed(r)) \div 2 ^ FRAC)

\* execute_gemm_lane: the sums after the product of the tiles a and b.
ExecuteLane(sums, a, b, transA, transB, dtype) ==
  LET A(row, k) == InputToFixed(IF transA THEN a[k][row] ELSE a[row][k], dtype)
      B(k, col) == InputToFixed(IF transB THEN b[col][k] ELSE b[k][col], dtype)
  IN  [row \in DOMAIN a |-> [col \in DOMAIN a |->
         Cut(sums[row][col] + MapThenSumSet(LAMBDA k : FixedMul(A(row, k), B(k, col)), DOMAIN a))]]

-----------------------------------------------------------------------------
\* round_fixed48_to_int, with ties to even.
RoundToInt(value) ==
  LET mag   == Magnitude(value)
      whole == mag \div 2 ^ FRAC
      frac  == mag % 2 ^ FRAC
      half  == 2 ^ (FRAC - 1)
      int   == IF frac > half \/ (frac = half /\ whole % 2 = 1) THEN whole + 1 ELSE whole
  IN  IF Signed(value) < 0 THEN Cut(- int) ELSE int

SaturateS32(value) ==
  LET top == 2 ^ (OUT - 1) - 1 IN
  CASE Signed(value) > top       -> top
    [] Signed(value) < - top - 1 -> top + 1
    [] OTHER                     -> value % 2 ^ OUT

SaturateU32(value) ==
  CASE Signed(value) < 0    -> 0
    [] value > 2 ^ OUT - 1  -> 2 ^ OUT - 1
    [] OTHER                -> value % 2 ^ OUT

TileToFixed(value, dtype) ==
  Cut((IF dtype = "UINT32" THEN value ELSE SignExtend(value, OUT)) * 2 ^ FRAC)

-----------------------------------------------------------------------------
(* Floats: a sign, EXP bits of exponent and MANT of mantissa.              *)
EXP  == OUT - 1 - MANT
BIAS == 2 ^ (EXP - 1) - 1
SIGN == 2 ^ (OUT - 1)
INF  == (2 ^ EXP - 1) * 2 ^ MANT

\* parse_f32: a number is sig24 * 2^(exponent - MANT), its highest bit set.
Parts(bits) ==
  LET exp  == (bits \div 2 ^ MANT) % 2 ^ EXP
      mant == bits % 2 ^ MANT
      msb  == HighestSetBit(mant)
      kind == CASE exp = 2 ^ EXP - 1 -> IF mant = 0 THEN "inf" ELSE "nan"
                [] exp = 0 /\ mant = 0 -> "zero"
                [] OTHER -> "number"
  IN  [sign |-> bits >= SIGN, kind |-> kind,
       exponent |-> CASE kind # "number" -> 0
                      [] exp # 0 -> exp - BIAS
                      [] OTHER -> msb - (BIAS - 1 + MANT),
       sig24    |-> CASE kind # "number" -> 0
                      [] exp # 0 -> 2 ^ MANT + mant
                      [] OTHER -> mant * 2 ^ (MANT - msb)]

\* Mutant: what is shifted out is forgotten (line 238).
ShiftIntoWorkCut(value, shift) == Shift(value, shift)

\* shift_into_f32_work: what is shifted out leaves a one in the last bit.
ShiftIntoWork(value, shift) ==
  LET shifted == Shift(value, shift)
      lost    == shift < 0 /\ shifted * 2 ^ (- shift) # value
  IN  IF lost /\ shifted % 2 = 0 THEN shifted + 1 ELSE shifted

\* round_shifted_mag_to_u32, with ties to even.
RoundShifted(mag, shift) ==
  LET out  == Shift(mag, shift)
      rest == mag - out * 2 ^ (- shift)
      half == 2 ^ (- shift - 1)
  IN  IF shift < 0 /\ (rest > half \/ (rest = half /\ out % 2 = 1)) THEN out + 1 ELSE out

\* f32_bits_from_work: the float nearest to sum * 2^scale.
F32FromWork(sum, scale) ==
  LET neg  == IF sum < 0 THEN SIGN ELSE 0
      mag  == IF sum < 0 THEN - sum ELSE sum
      msb  == HighestSetBit(mag)
      exp  == msb + scale + BIAS
      low  == RoundShifted(mag, scale + BIAS - 1 + MANT)
      sig  == RoundShifted(mag, MANT - msb)
      over == sig >= 2 ^ (MANT + 1)
      exp2 == IF over THEN exp + 1 ELSE exp
      sig2 == IF over THEN sig \div 2 ELSE sig
  IN  CASE mag = 0             -> 0
        [] exp >= 2 ^ EXP - 1  -> neg + INF
        [] exp <= 0 -> neg + (IF low >= 2 ^ MANT THEN 2 ^ MANT ELSE low)
        [] exp2 >= 2 ^ EXP - 1 -> neg + INF
        [] OTHER -> neg + exp2 * 2 ^ MANT + (sig2 % 2 ^ MANT)

\* add_fixed48_to_f32_bits: both operands are brought to the exponent of the
\* larger one, added and rounded once.
AddFixedToF32(fixed, bits) ==
  LET p      == Parts(bits)
      mag    == Magnitude(fixed)
      exp    == HighestSetBit(mag) - FRAC
      common == IF p.kind = "zero" \/ exp > p.exponent THEN exp ELSE p.exponent
      term   == ShiftIntoWork(mag, F32_ACC_WORK_FRAC - FRAC - common)
      other  == ShiftIntoWork(p.sig24, F32_ACC_WORK_FRAC + p.exponent - common - MANT)
      sum    == (IF Signed(fixed) < 0 THEN - term ELSE term)
                  + (CASE p.kind = "zero" -> 0 [] p.sign -> - other [] OTHER -> other)
      quiet  == 2 ^ (MANT - 1)
  IN  CASE p.kind = "nan" -> IF (bits \div quiet) % 2 = 0 THEN bits + quiet ELSE bits
        [] p.kind = "inf" \/ mag = 0 -> bits
        [] OTHER -> F32FromWork(sum, common - F32_ACC_WORK_FRAC)

\* fixed48_to_tile32: what an ACCGET gives for an accumulator and a word.
FixedToTile(value, addend, dtype) ==
  LET rounded == RoundToInt(Cut(value + TileToFixed(addend, dtype))) IN
  CASE dtype = "F32"    -> AddFixedToF32(value, addend)
    [] dtype = "UINT32" -> SaturateU32(rounded)
    [] OTHER            -> SaturateS32(rounded)
=============================================================================
