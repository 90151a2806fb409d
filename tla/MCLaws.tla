-------------------------------- MODULE MCLaws --------------------------------
(* The operators without state, TileOps, BankHash, FixInt, FixedPoint and   *)
(* AluOps, over bounds: one tile with different elements under one          *)
(* instruction after the other, the chunks 0 .. Last under the bank hash at *)
(* the size of the bus, pairs of integers of one to three words under the   *)
(* operators of FixInt, and the words 0 .. MaxNum, with partners, under the *)
(* arithmetic of the matrix unit and of the ALU.                            *)
EXTENDS TileOps, BankHash, FixInt

CONSTANTS
  MaxStep,    \* bounds: steps and offsets of the instructions, ...
  MaxMargin,  \* ... margins of the masks, ...
  Last,       \* ... the highest chunk that is visited, ...
  MaxWidth,   \* ... bits of the integers, ...
  MaxNum      \* ... and words for the units

VARIABLES inst, chunk, pair, num

Steps == - MaxStep .. MaxStep
Margins == 0 .. MaxMargin

Source == [r \in Index |-> [c \in Index |-> r * TILE_SIZE + c + 1]]

Fills == { [BaseInst EXCEPT !.rdBytes = b, !.signed = s, !.value = v, !.step = d,
                            !.row_step = TILE_SIZE * d, !.col_step = d] :
           b \in {1, 2}, s \in BOOLEAN, v \in 0 .. 7, d \in Steps }
Moves == { [BaseInst EXCEPT !.op = op, !.rdBytes = 4, !.row_off = x, !.col_off = y] :
           op \in Shifts, x \in Steps, y \in Steps }
Casts == { [BaseInst EXCEPT !.op = op, !.rdBytes = 4, !.row = x, !.col = y] :
           op \in Broadcasts, x \in 0 .. MaxStep, y \in 0 .. MaxStep }
Turns == { [BaseInst EXCEPT !.op = op, !.rdBytes = 4] : op \in Transposes }
Masks == { [BaseInst EXCEPT !.op = "TSETMASK", !.up = u, !.bottom = b, !.left = l, !.right = r,
                            !.invert = i] :
           u \in Margins, b \in Margins, l \in Margins, r \in Margins, i \in BOOLEAN }

\* The integer of width w whose number is n modulo 2 ^ w.
IntOf(w, n) ==
  [width |-> w, data |-> [i \in 0 .. NumWords(w) - 1 |->
                           ((n % 2 ^ w) \div WordBase ^ i) % WordBase]]
Ints == UNION { { IntOf(w, n) : n \in 0 .. 2 ^ w - 1 } : w \in 1 .. MaxWidth }

\* Second operands: any single word, and longer ones whose words are at an
\* edge, where carries and signs arise.
Edges == { x \in Ints : x.width <= WORD_BITS
                        \/ \A i \in DOMAIN x.data : x.data[i] \in {0, 1, AllOnes} }

\* As in the library, a word can hold every width.
ASSUME WidthAssumption == MaxWidth < WordBase

NoPair == <<>>

Init == inst = BaseInst /\ chunk = 0 /\ pair = NoPair /\ num = 0

\* Only the word varies.
AtWord == inst = BaseInst /\ chunk = 0 /\ pair = NoPair

Next ==
  \/ /\ AtWord /\ num = 0
     /\ \/ /\ inst' \in Fills \cup Moves \cup Casts \cup Turns \cup Masks
           /\ UNCHANGED <<chunk, pair, num>>
        \/ pair' \in Ints \X Edges /\ UNCHANGED <<inst, chunk, num>>
  \/ /\ inst = BaseInst /\ pair = NoPair /\ num = 0
     /\ chunk' = (chunk + 1) % (Last + 1)
     /\ UNCHANGED <<inst, pair, num>>
  \/ inst # BaseInst /\ inst' = BaseInst /\ UNCHANGED <<chunk, pair, num>>
  \/ pair # NoPair /\ pair' = NoPair /\ UNCHANGED <<inst, chunk, num>>
  \/ /\ AtWord
     /\ num' \in {2 * num + 1, 2 * num + 2, 0} \cap (0 .. MaxNum)
     /\ UNCHANGED <<inst, chunk, pair>>

Spec == Init /\ [][Next]_<<inst, chunk, pair, num>>

\* The operations of TMISC obey the laws that relate them (lines 133 to 274):
\* fillings agree, shifts are undone, moves conjugate and masks share out.
TileLaws ==
  /\ inst \in Fills => FillsAgree(inst)
  /\ inst \in Moves => ShiftUndone(inst, Source)
  /\ inst \in Turns => TurnsConjugate(inst, Source)
  /\ inst \in Casts => CastsConjugate(inst, Source)
  /\ inst \in Masks => MasksShareOut(inst)

\* The bank hash is a bijection that spreads rows over the banks (lines 67
\* to 89 of src/src/header/lsu.hpp).
HashExact == HashLaws(chunk)

-----------------------------------------------------------------------------
Unsigned(x) == LET sum[i \in 0 .. NumWords(x.width)] ==
                     IF i = 0 THEN 0 ELSE sum[i - 1] + x.data[i - 1] * WordBase ^ (i - 1)
               IN  sum[NumWords(x.width)]
Number(x, signed) ==
  IF signed /\ Unsigned(x) >= 2 ^ (x.width - 1) THEN Unsigned(x) - 2 ^ x.width ELSE Unsigned(x)

Left  == pair[1]
Right == pair[2]
Longer == Larger(Left.width, Right.width)
Views == BOOLEAN \X BOOLEAN

\* No result keeps a bit beyond its width in the last word.
Is(x, w, n) == x = IntOf(w, n)

\* Sums, differences, opposites and products of integers of different widths
\* and, for products, of any mixture of signed and unsigned views are those
\* of the numbers, cut to the width of the result: a carry or borrow that
\* crosses a word, meets an all-ones word or leaves the shorter operand is
\* not lost (lines 1070 to 1402).
ArithmeticExact ==
  pair # NoPair =>
    /\ Is(Plus(Left, Right), Longer + 1, Unsigned(Left) + Unsigned(Right))
    /\ Is(Minus(Left, Right), Longer, Unsigned(Left) - Unsigned(Right))
    /\ Is(Opposite(Left), Left.width, - Unsigned(Left))
    /\ \A s \in Views :
         Is(Times(Left, s[1], Right, s[2]), Left.width + Right.width,
            Number(Left, s[1]) * Number(Right, s[2]))

\* A slice read back is what was written, a narrower value is continued by
\* zeros, the bits around it stay, and shifts, concatenation and repetition
\* agree with it, wherever the words are cut (lines 310 to 416, 1534 to 1650
\* and 1708 to 1743).
BitsInPlace ==
  pair # NoPair =>
    /\ \A lo \in 0 .. Left.width - 1 : \A bits \in 1 .. Left.width - lo :
         LET out == SetBits(Left, lo, bits, Right)
             old == Unsigned(GetBits(Left, lo, bits))
             new == Unsigned(Right) % 2 ^ bits
         IN  /\ Is(GetBits(Left, lo, bits), bits, Unsigned(Left) \div 2 ^ lo)
             /\ Is(out, Left.width, Unsigned(Left) + (new - old) * 2 ^ lo)
    /\ Is(Cat(Left, Right), Left.width + Right.width,
          Unsigned(Left) * 2 ^ Right.width + Unsigned(Right))
    /\ Repeat(2, Left) = Cat(Left, Left)
    /\ LET n == Unsigned(Right)
           out == n >= Left.width
       IN  /\ Is(ShiftLeft(Left, Right), Left.width,
                 IF out THEN 0 ELSE Unsigned(Left) * 2 ^ n)
           /\ \A s \in BOOLEAN :
                Is(ShiftRight(Left, s, Right), Left.width,
                   IF out THEN 0 ELSE Number(Left, s) \div 2 ^ n)

\* Numbers compare as numbers in any mixture of views; a conversion keeps the
\* number whenever it fits, and a signed one keeps the sign even when it does
\* not; the bit operations are those of the numbers (lines 241 to 303,
\* 421 to 480, 1407 to 1527, 1654 to 1703 and 1747 to 1860).
ValuesKept ==
  pair # NoPair =>
    /\ Left.width = Right.width =>
         /\ Equal(Left, Right) <=> Left = Right
         /\ \A s \in Views :
              Less(Left, s[1], Right, s[2]) <=> Number(Left, s[1]) < Number(Right, s[2])
         /\ Plus(BitAnd(Left, Right), BitOr(Left, Right)) = Plus(Left, Right)
         /\ Plus(BitXor(Left, Right), ZeroInt(Left.width)) =
              Plus(Minus(BitOr(Left, Right), BitAnd(Left, Right)), ZeroInt(Left.width))
    /\ \A n \in - WordBase \div 2 .. AllOnes : Is(FromIntegral(Left.width, n), Left.width, n)
    /\ Unsigned(BitNot(Left)) = 2 ^ Left.width - 1 - Unsigned(Left)
    /\ ReduceAnd(Left) <=> ~ ReduceOr(BitNot(Left))
    /\ ReduceXor(Cat(Left, Right)) <=> (ReduceXor(Left) # ReduceXor(Right))
    /\ \A w \in 1 .. MaxWidth :
         LET n == Number(Left, TRUE)
             narrow == CastSigned(w, Left)
         IN  /\ Is(CastUnsigned(w, Left), w, Unsigned(Left))
             /\ n \in - 2 ^ (w - 1) .. 2 ^ (w - 1) - 1 => Is(narrow, w, n)
             /\ Number(narrow, TRUE) < 0 <=> n < 0
             /\ w <= WORD_BITS =>
                  /\ ToIntegral(Left, w, FALSE) = Unsigned(Left) % 2 ^ w
                  /\ Left.width <= w => ToIntegral(Left, w, TRUE) = n

\* Integers of different widths compute as the numbers they stand for: their
\* sums, differences and products, the bits that slices and shifts move, and
\* what comparisons and conversions make of their signs (the operators of
\* src/tools/vullib/fixint.hpp, lines 241 to 1860).
IntegersExact == ArithmeticExact /\ BitsInPlace /\ ValuesKept

-----------------------------------------------------------------------------
(* Floats of a few bits.  Without its sign a float of mant bits of mantissa *)
(* is LeastsIn(p, mant) times the least one, and patterns are ordered as the *)
(* numbers do.                                                              *)
Absolute(n) == IF n < 0 THEN - n ELSE n

LeastsIn(p, mant) ==
  LET exp == p \div 2 ^ mant
      m   == p % 2 ^ mant
  IN  IF exp = 0 THEN m ELSE (2 ^ mant + m) * 2 ^ (exp - 1)

SmallFormats ==
  [F8E5M2 |-> [exp |-> 3, mant |-> 1, bias |-> 3],
   F8E4M3 |-> [exp |-> 2, mant |-> 2, bias |-> 1],
   F16    |-> [exp |-> 3, mant |-> 6, bias |-> 3]]

\* The matrix unit at two sizes: operands of five bits whose products are
\* rounded to integers of five bits, and sums that are added to floats of
\* seven bits, with three more bits behind the point than they keep.
Gfix == INSTANCE FixedPoint WITH FRAC <- 6, WIDTH <- 20, F32_ACC_WORK_FRAC <- 0,
          BYTE <- 5, OUT <- 5, MANT <- 2, Format <- SmallFormats
Gacc == INSTANCE FixedPoint WITH FRAC <- 5, WIDTH <- 9, F32_ACC_WORK_FRAC <- 10,
          BYTE <- 5, OUT <- 7, MANT <- 2, Format <- SmallFormats

OperandTypes == {"SINT8", "UINT8", "F8E5M2", "F8E4M3"}
Operand(byte, t) == Gfix!Signed(Gfix!InputToFixed(byte, t))

\* A byte that is a float becomes its number, or the largest finite number of
\* its sign; the product of two operands loses no bit.
OperandsExact ==
  num < 32 =>
    /\ \A t \in OperandTypes, b \in 0 .. 31 :
         Gfix!Signed(Gfix!FixedMul(Gfix!InputToFixed(num, t), Gfix!InputToFixed(b, t))) * 64
           = Operand(num, t) * Operand(b, t)
    /\ \A t \in {"F8E5M2", "F8E4M3"} :
         LET f     == SmallFormats[t]
             sign  == 2 ^ (f.exp + f.mant)
             most  == (2 ^ f.exp - 1) * 2 ^ f.mant - 1
             least == 2 ^ (7 - f.bias - f.mant)
             p     == Smaller(num % sign, most)
         IN  Operand(num, t) = (IF num >= sign THEN - 1 ELSE 1) * LeastsIn(p, f.mant) * least

\* A lane adds the rows of one tile times the columns of the other, whichever
\* of the tiles is stored transposed, to the sums there are.
LaneExact ==
  num < 200 =>
    LET Tile(k) == [r \in 0 .. 1 |-> [c \in 0 .. 1 |-> (num * k + 2 * r + c) % 32]]
        Flip(tile, p) == IF p THEN [r \in 0 .. 1 |-> [c \in 0 .. 1 |-> tile[c][r]]] ELSE tile
        Old(r, c) == num * (r + 1) - 300 * c
        sums == [r \in 0 .. 1 |-> [c \in 0 .. 1 |-> Gfix!Cut(Old(r, c))]]
    IN  \A t \in OperandTypes, x, y \in BOOLEAN :
          LET out == Gfix!ExecuteLane(sums, Flip(Tile(1), x), Flip(Tile(7), y), x, y, t)
              Term(r, k, c) == Operand(Tile(1)[r][k], t) * Operand(Tile(7)[k][c], t)
          IN  \A r, c \in 0 .. 1 :
                Gfix!Signed(out[r][c]) = Old(r, c) + (Term(r, 0, c) + Term(r, 1, c)) \div 64

\* The integer nearest to n / 64, the even one of two.
Nearest(n) ==
  LET up == (n + 32) \div 64 IN IF (n + 32) % 64 = 0 /\ up % 2 = 1 THEN up - 1 ELSE up
Clamped(n, lo, hi) == Smaller(IF n < lo THEN lo ELSE n, hi)

\* An accumulator and a word add up to the nearest integer that the type has,
\* with ties to even and the limits of the type for what is beyond them.
IntegerSumsExact ==
  LET n == num - MaxNum \div 2 IN
  \A word \in {0, 1, 15, 16, 31} :
    /\ Gfix!FixedToTile(Gfix!Cut(n), word, "UINT32") = Clamped(Nearest(n + 64 * word), 0, 31)
    /\ Gfix!FixedToTile(Gfix!Cut(n), word, "SINT32") =
         Clamped(Nearest(n + 64 * Gfix!SignExtend(word, 5)), - 16, 15) % 32

\* bits is the float of seven bits nearest to n times the least one, the even
\* one of two; an infinity stands for what is beyond the largest one.
NearestFloat(bits, n) ==
  LET p == bits % Gacc!SIGN
      m == 2 * Absolute(n)
      Middle(q) == LeastsIn(q, 2) + LeastsIn(q + 1, 2)
  IN  /\ bits >= Gacc!SIGN <=> n < 0
      /\ p <= Gacc!INF
      /\ p > 0 => m > Middle(p - 1) \/ (m = Middle(p - 1) /\ p % 2 = 0)
      /\ p < Gacc!INF => m < Middle(p) \/ (m = Middle(p) /\ p % 2 = 0)

\* An accumulator and a float add up to the float nearest to the exact sum,
\* however far apart they are; a zero leaves the float as it is, and infinities
\* and NaNs stay what they are.
FloatSumsExact ==
  num < 512 =>
    \A bits \in 0 .. 127 :
      LET out == Gacc!FixedToTile(num, bits, "F32")
          p   == bits % Gacc!SIGN
          n   == LeastsIn(p, 2)
      IN  IF num = 0 \/ p >= Gacc!INF
          THEN out = IF p > Gacc!INF /\ p % 4 < 2 THEN bits + 2 ELSE bits
          ELSE NearestFloat(out, 8 * Gacc!Signed(num) + (IF bits >= Gacc!SIGN THEN - n ELSE n))

\* What an ACCGET gives is the exact sum of all products and of the word of the
\* temporary, rounded once: no product, sum or shift before loses anything that
\* the rounding needs, the last bit of what is shifted out for a float included
\* (src/src/gemm/GEMMUnit.hpp, lines 73 to 396).
AccumulationExact ==
  AtWord => OperandsExact /\ LaneExact /\ IntegerSumsExact /\ FloatSumsExact

-----------------------------------------------------------------------------
(* The ALU at two sizes: integers of two, four and eight bits, and floats of *)
(* five and ten bits.  What stands for an infinity is so large that its      *)
(* product with the least float is beyond the largest one.                   *)
Beyond == 2 ^ 20
Aint == INSTANCE AluOps WITH BYTE <- 2, UNIT <- 8, Format <- SmallFormats, HUGE <- Beyond
Aflt == INSTANCE AluOps WITH BYTE <- 5, UNIT <- 8, Format <- SmallFormats, HUGE <- Beyond

SignedTypes == {"SINT8", "SINT16", "SINT32"}
UnsignedTypes == {"UINT8", "UINT16", "UINT32"}
SecondWords == { 16 * h + l : h \in {0, 1, 7, 8, 15}, l \in {0, 1, 6, 7, 8, 15} }
Plain(op, t, rd) == [op |-> op, mask_enable |-> FALSE, rs1 |-> t, rd |-> rd]

\* A comparison holds one of three ways, and the other three are their
\* negations.
Trichotomy(Op(_), x, y) ==
  /\ Op("TMLT") + Op("TMEQ") + Op("TMGT") = 1
  /\ Op("TMLT") = 1 <=> x < y
  /\ Op("TMEQ") = 1 <=> x = y
  /\ <<Op("TMGE"), Op("TMNEQ"), Op("TMLE")>> = <<1 - Op("TMLT"), 1 - Op("TMEQ"), 1 - Op("TMGT")>>

\* Integer elements are numbers modulo the size of their type, and signed
\* shifts, maxima and comparisons see their signs; a product in a wider type of
\* the same kind is exact; bits beyond the type of an operand do not count.
IntegerElements ==
  num < 256 =>
    \A t \in SignedTypes \cup UnsignedTypes, b \in SecondWords :
      LET bits == 2 * Aint!Bytes(t)
          u == num % 2 ^ bits
          v == b % 2 ^ bits
          Value(word, type) ==
            LET w == 2 * Aint!Bytes(type)
                n == word % 2 ^ w
            IN  IF type \in SignedTypes /\ n >= 2 ^ (w - 1) THEN n - 2 ^ w ELSE n
          x == Value(num, t)
          y == Value(b, t)
          low == 2 ^ (b % 8)
          Do(op, left, right) == Aint!ExecuteElement(Plain(op, t, t), FALSE, left, right)
          Op(op) == Do(op, num, b)
          Val(op) == Value(Op(op), t)
      IN  /\ Do("TSUB", Op("TADD"), b) = u
          /\ Op("TSUB") = Do("TADD", num, Do("TNEG", b, 0))
          /\ Op("TMUL") = (x * y) % 2 ^ bits
          /\ \A rd \in SignedTypes \cup UnsignedTypes :
               /\ Aint!Bytes(rd) > Aint!Bytes(t)
               /\ {t, rd} \in SUBSET SignedTypes \cup SUBSET UnsignedTypes
               => Value(Aint!ExecuteElement(Plain("TMUL", t, rd), FALSE, num, b), rd) = x * y
          /\ {Val("TMAX"), Val("TMIN")} = {x, y} /\ Val("TMAX") >= Val("TMIN")
          /\ Op("TAND") + Op("TOR") = u + v /\ Op("TXOR") = Op("TOR") - Op("TAND")
          /\ Op("TSLL") = (u * low) % 2 ^ bits /\ Op("TSRL") = u \div low
          /\ Val("TSRA") * low \in x - low + 1 .. x
          /\ Op("TNOT") = 2 ^ bits - 1 - u
          /\ Op("TABS") = Absolute(x) % 2 ^ bits
          /\ Val("TRELU") = Clamped(x, 0, 255)
          /\ Val("TRELU6") = Clamped(x, 0, 6)
          /\ Trichotomy(Op, x, y)

\* word is the normal float nearest to n * 2 ^ -unit, the larger one of two,
\* with its sign: a number below the normal ones is a zero, and one beyond the
\* largest one an infinity.
Rounded(word, n, unit, t) ==
  LET f     == SmallFormats[t]
      sign  == 2 ^ (f.exp + f.mant)
      p     == word % sign
      first == 2 ^ f.mant
      last  == (2 ^ f.exp - 1) * 2 ^ f.mant
      m     == 2 * Absolute(n)
      Scaled(q) == LeastsIn(q, f.mant) * 2 ^ (unit + 1 - f.bias - f.mant)
      Middle(q) == Scaled(q) + Scaled(q + 1)
  IN  /\ word < 2 * sign
      /\ word >= sign <=> n < 0
      /\ p \in {0} \cup first .. last
      /\ p = 0 <=> m < 2 * Scaled(first)
      /\ p > first => m >= Middle(p - 1)
      /\ p \in first .. last - 1 => m < Middle(p)

\* The number of a small float in units of 2 ^ -8.
FloatNumber(word, t) ==
  LET f    == SmallFormats[t]
      sign == 2 ^ (f.exp + f.mant)
      p    == word % sign
      mag  == IF p >= (2 ^ f.exp - 1) * 2 ^ f.mant THEN Beyond
              ELSE LeastsIn(p, f.mant) * 2 ^ (9 - f.bias - f.mant)
  IN  IF (word \div sign) % 2 = 1 THEN - mag ELSE mag

SecondFloats(t) ==
  IF t = "F16" THEN { 64 * h + l : h \in 0 .. 15, l \in {0, 1, 63} } ELSE 0 .. 31

\* Float elements are rounded once, from the exact result, as Rounded says, in
\* the type of the operand or the wider one that a product may go to.
FloatElements ==
  \A t \in DOMAIN SmallFormats :
    num < 2 ^ (1 + SmallFormats[t].exp + SmallFormats[t].mant) =>
      LET x == FloatNumber(num, t)
          Do(op, b, rd) == Aflt!ExecuteElement(Plain(op, t, rd), FALSE, num, b)
      IN  /\ Rounded(Do("TCVT", 0, t), x, 8, t)
          /\ Rounded(Do("TABS", 0, t), Absolute(x), 8, t)
          /\ Rounded(Do("TNEG", 0, t), - x, 8, t)
          /\ Rounded(Do("TRELU6", 0, t), Clamped(x, 0, 6 * 256), 8, t)
          /\ \A b \in SecondFloats(t) :
               LET y == FloatNumber(b, t)
                   Op(op) == Do(op, b, t)
               IN  /\ Aflt!Encodable("TADD", x, y) => Rounded(Op("TADD"), x + y, 8, t)
                   /\ Aflt!Encodable("TSUB", x, y) => Rounded(Op("TSUB"), x - y, 8, t)
                   /\ Aflt!Encodable("TMUL", x, y) =>
                        \A rd \in {t, "F16"} : Rounded(Do("TMUL", b, rd), x * y, 16, rd)
                   /\ Rounded(Op("TMIN"), Smaller(x, y), 8, t)
                   /\ Rounded(Op("TMAX"), x + y - Smaller(x, y), 8, t)
                   /\ Trichotomy(Op, x, y)

\* Mask elements obey the laws of the truth values, and TMERGE takes an element
\* that TMMV of the mask, or its complement, lets through.
MaskElements ==
  num < 256 =>
    \A b \in SecondWords :
      LET Do(op, left, right) == Aint!ExecuteElement(Plain(op, "UINT8", "UINT8"), FALSE, left, right)
          Not(word) == Do("TMNOT", word, 0)
          Op(op) == Do(op, num, b)
          Merged(m) == Aint!ExecuteElement(Plain("TMERGE", "UINT8", "UINT8"), m, num, b)
      IN  /\ Not(Not(num)) = Do("TMMV", num, 0)
          /\ Op("TMNAND") = Do("TMOR", Not(num), Not(b)) /\ Op("TMAND") = Not(Op("TMNAND"))
          /\ Op("TMNOR") = Do("TMAND", Not(num), Not(b)) /\ Op("TMOR") = Not(Op("TMNOR"))
          /\ Op("TMXOR") = Op("TMOR") - Op("TMAND") /\ Op("TMNXOR") = Not(Op("TMXOR"))
          /\ <<Merged(TRUE), Merged(FALSE)>> = <<num, b>>
          /\ \A op \in {"TADD", "TMERGE", "TMEQ", "TMNOT", "TABS"} :
               Aint!ExecuteElement([Plain(op, "UINT8", "UINT8") EXCEPT !.mask_enable = TRUE],
                                   FALSE, num, b) = 0

\* Every element of a result of the ALU is the number, float or truth value
\* that the operation promises: none is rounded twice, keeps a mantissa that
\* belongs to the next exponent, loses a sign to a shift, a maximum or a
\* comparison, or drops the upper half of a product that has room for it
\* (src/src/alu/ALU.hpp, lines 59 to 301 and 458 to 599).
ElementsExact == AtWord => IntegerElements /\ FloatElements /\ MaskElements
=============================================================================
