-------------------------------- MODULE FixInt --------------------------------
(***************************************************************************)
(* Int<BitWidth> of tools/vullib/fixint.hpp: an integer of any width, kept *)
(* as an array of words, lowest first, whose bits beyond the width are     *)
(* zero.  The algorithms are those of the library, on words of WORD_BITS   *)
(* bits, where the library has 64.  A signed view (.sint()) of an integer  *)
(* is the integer together with signed = TRUE; where the library has a     *)
(* loop for the words both operands have and another for the rest, the     *)
(* shorter operand is read as having zero words there.                     *)
(***************************************************************************)
EXTENDS Integers, FiniteSets

LOCAL INSTANCE Bitwise

CONSTANT WORD_BITS

ASSUME WordAssumption == WORD_BITS \in Nat \ {0}

WordBase == 2 ^ WORD_BITS
AllOnes  == WordBase - 1

NumWords(w) == (w + WORD_BITS - 1) \div WORD_BITS

Larger(m, n)  == IF m > n THEN m ELSE n
Smaller(m, n) == IF m < n THEN m ELSE n

\* low_mask64
LowMask(bits) == 2 ^ Smaller(bits, WORD_BITS) - 1

\* mask_high_bits: an integer of w bits from words that may have more.
OfWords(w, words) ==
  [width |-> w,
   data  |-> [i \in 0 .. NumWords(w) - 1 |->
     IF i = NumWords(w) - 1 /\ w % WORD_BITS # 0
     THEN words[i] & LowMask(w % WORD_BITS)
     ELSE words[i]]]

Word(x, i) == IF i \in DOMAIN x.data THEN x.data[i] ELSE 0

ZeroInt(w) == OfWords(w, [i \in 0 .. NumWords(w) - 1 |-> 0])

\* get_bit, set_bit
GetBit(x, bit) == (x.data[bit \div WORD_BITS] \div 2 ^ (bit % WORD_BITS)) % 2

SetBit(x, bit, v) ==
  [x EXCEPT !.data[bit \div WORD_BITS] = @ + (v - GetBit(x, bit)) * 2 ^ (bit % WORD_BITS)]

Negative(x, signed) == signed /\ GetBit(x, x.width - 1) = 1

\* The words of an operand continued by its sign: the last word is filled up
\* and the words after it are all zeros or all ones.
ExtWord(x, signed, i) ==
  LET last == NumWords(x.width) - 1
      rem  == x.width % WORD_BITS
  IN  IF ~ Negative(x, signed) THEN Word(x, i)
      ELSE IF i > last THEN AllOnes
      ELSE IF i = last /\ rem # 0 THEN x.data[i] + (AllOnes - LowMask(rem))
      ELSE x.data[i]

-----------------------------------------------------------------------------
(* Conversions.                                                            *)

\* Int(T value) from a C integer: its low word, and the sign in the others.
FromIntegral(w, v) ==
  OfWords(w, [i \in 0 .. NumWords(w) - 1 |->
    IF i = 0 THEN v % WordBase ELSE IF v < 0 THEN AllOnes ELSE 0])

\* Int(const Int<OtherBitWidth>&), cast_unsigned_operand
CastUnsigned(w, x) == OfWords(w, [i \in 0 .. NumWords(w) - 1 |-> Word(x, i)])

\* cast_signed_operand: continued by the sign when it gets wider; when it
\* gets narrower, the sign of the source is put in the top bit.
CastSigned(w, x) ==
  LET out == OfWords(w, [i \in 0 .. NumWords(w) - 1 |-> ExtWord(x, TRUE, i)])
  IN  IF w < x.width THEN SetBit(out, w - 1, GetBit(x, x.width - 1)) ELSE out

\* to<T>() for a T of bits bits, at most a word; T's sign is a sign of the
\* integer only if T is wider than it.
ToIntegral(x, bits, signed) ==
  LET raw  == x.data[0] % 2 ^ bits
      full == IF signed /\ x.width < bits /\ GetBit(x, x.width - 1) = 1
              THEN raw + 2 ^ bits - 2 ^ x.width
              ELSE raw
  IN  IF signed /\ full >= 2 ^ (bits - 1) THEN full - 2 ^ bits ELSE full

-----------------------------------------------------------------------------
(* Slices.                                                                 *)

\* The WORD_BITS bits of x from bit src on, of two adjacent words.
Chunk(x, src) ==
  LET shift == src % WORD_BITS
      low   == Word(x, src \div WORD_BITS) \div 2 ^ shift
      high  == (Word(x, src \div WORD_BITS + 1) * 2 ^ (WORD_BITS - shift)) % WordBase
  IN  IF shift = 0 THEN low ELSE low | high

\* get_bits<bits>(lo)
GetBits(x, lo, bits) ==
  OfWords(bits, [i \in 0 .. NumWords(bits) - 1 |-> Chunk(x, lo + i * WORD_BITS)])

\* The bits of word k that belong to lo .. lo + bits - 1.
Within(k, lo, bits) ==
  { b \in 0 .. WORD_BITS - 1 : k * WORD_BITS + b \in lo .. lo + bits - 1 }

Lowest(bits) == CHOOSE b \in bits : \A c \in bits : b <= c

Cleared(x, lo, bits) ==
  LET Ones(s) == IF s = {} THEN 0 ELSE 2 ^ Lowest(s) * LowMask(Cardinality(s))
  IN  [x EXCEPT !.data =
        [k \in DOMAIN x.data |-> x.data[k] & (AllOnes - Ones(Within(k, lo, bits)))]]

\* The lowest bits of v are put at lo, word by word.
Put(x, lo, bits, v) ==
  LET Segment(s, k) ==
        (Chunk(v, k * WORD_BITS + Lowest(s) - lo) & LowMask(Cardinality(s))) * 2 ^ Lowest(s)
  IN  [x EXCEPT !.data = [k \in DOMAIN x.data |->
        LET s == Within(k, lo, bits)
        IN  IF s = {} THEN x.data[k] ELSE x.data[k] | Segment(s, k)]]

\* set_bits<bits>(lo, v): the whole place is cleared, whatever v's width.
SetBits(x, lo, bits, v) == Put(Cleared(x, lo, bits), lo, Smaller(bits, v.width), v)

\* Cat(high, low) and Repeat<n>(x)
Cat(high, low) ==
  SetBits(SetBits(ZeroInt(high.width + low.width), low.width, high.width, high), 0, low.width, low)

Repeat(n, x) ==
  LET copies[i \in 0 .. n] ==
        IF i = 0 THEN ZeroInt(n * x.width)
        ELSE SetBits(copies[i - 1], (i - 1) * x.width, x.width, x)
  IN  copies[n]

-----------------------------------------------------------------------------
(* Arithmetic.                                                             *)

Bool(b) == IF b THEN 1 ELSE 0

\* Mutant: the carry that comes in makes no carry (lines 1094 to 1125).
PlusOneCarry(l, r) ==
  LET w     == Larger(l.width, r.width) + 1
      s1(i) == (Word(l, i) + Word(r, i)) % WordBase
      carry[i \in 0 .. NumWords(w)] ==
        IF i = 0 THEN 0 ELSE Bool(s1(i - 1) < Word(l, i - 1))
  IN  OfWords(w, [i \in 0 .. NumWords(w) - 1 |-> (s1(i) + carry[i]) % WordBase])

\* operator+, one bit wider than its operands.  A word's carry is seen from
\* a sum that is less than what was added to.
Plus(l, r) ==
  LET w     == Larger(l.width, r.width) + 1
      s1(i) == (Word(l, i) + Word(r, i)) % WordBase
      carry[i \in 0 .. NumWords(w)] ==
        IF i = 0 THEN 0
        ELSE LET s2 == (s1(i - 1) + carry[i - 1]) % WordBase
             IN  Bool(s1(i - 1) < Word(l, i - 1) \/ s2 < s1(i - 1))
  IN  OfWords(w, [i \in 0 .. NumWords(w) - 1 |-> (s1(i) + carry[i]) % WordBase])

\* operator-, as wide as the wider operand.
Minus(l, r) ==
  LET w == Larger(l.width, r.width)
      borrow[i \in 0 .. NumWords(w)] ==
        IF i = 0 THEN 0
        ELSE LET rb == (Word(r, i - 1) + borrow[i - 1]) % WordBase
             IN  Bool(rb < Word(r, i - 1) \/ Word(l, i - 1) < rb)
  IN  OfWords(w, [i \in 0 .. NumWords(w) - 1 |->
        (Word(l, i) - Word(r, i) - borrow[i]) % WordBase])

\* Unary operator-
Opposite(x) ==
  LET carry[i \in 0 .. NumWords(x.width)] ==
        IF i = 0 THEN 1
        ELSE Bool(carry[i - 1] # 0 /\ (AllOnes - x.data[i - 1] + carry[i - 1]) % WordBase = 0)
  IN  OfWords(x.width, [i \in DOMAIN x.data |-> (AllOnes - x.data[i] + carry[i]) % WordBase])

\* operator* when an operand has several words: row by row, each with its
\* carries; the operands are continued by their signs and the product cut.
LongTimes(l, ls, r, rs) ==
  LET w == l.width + r.width
      n == NumWords(w)
      AddRow(out, i) ==
        LET Acc(j, c) == ExtWord(l, ls, i) * ExtWord(r, rs, j) + out[i + j] + c
            carry[j \in 0 .. n - i] ==
              IF j = 0 THEN 0 ELSE Acc(j - 1, carry[j - 1]) \div WordBase
        IN  [k \in 0 .. n - 1 |->
              IF k < i THEN out[k] ELSE Acc(k - i, carry[k - i]) % WordBase]
      rows[i \in 0 .. n] ==
        IF i = 0 THEN [k \in 0 .. n - 1 |-> 0] ELSE AddRow(rows[i - 1], i - 1)
  IN  OfWords(w, rows[n])

\* operator* of single words, by a product of twice the width.
ShortTimes(l, ls, r, rs) ==
  LET Extended(x, signed) ==
        IF Negative(x, signed) THEN x.data[0] - 2 ^ x.width ELSE x.data[0]
      product == (Extended(l, ls) * Extended(r, rs)) % WordBase ^ 2
  IN  OfWords(l.width + r.width,
              [i \in 0 .. 1 |-> (product \div WordBase ^ i) % WordBase])

Times(l, ls, r, rs) ==
  IF l.width <= WORD_BITS /\ r.width <= WORD_BITS
  THEN ShortTimes(l, ls, r, rs) ELSE LongTimes(l, ls, r, rs)

-----------------------------------------------------------------------------
(* Bits, shifts, reductions and comparisons.                               *)

BitAnd(l, r) == OfWords(l.width, [i \in DOMAIN l.data |-> l.data[i] & r.data[i]])
BitOr(l, r)  == OfWords(l.width, [i \in DOMAIN l.data |-> l.data[i] | r.data[i]])
BitXor(l, r) == OfWords(l.width, [i \in DOMAIN l.data |-> l.data[i] ^^ r.data[i]])
BitNot(x)    == OfWords(x.width, [i \in DOMAIN x.data |-> AllOnes - x.data[i]])

\* shift_amount_at_least_width
ShiftsOut(shift, w) ==
  (\E i \in DOMAIN shift.data : i > 0 /\ shift.data[i] # 0) \/ shift.data[0] >= w

\* operator<<
ShiftLeft(x, shift) ==
  LET n == shift.data[0]
      From(i) == i - n \div WORD_BITS
      bits == n % WORD_BITS
      low(i) == IF bits # 0 /\ From(i) > 0
                THEN x.data[From(i) - 1] \div 2 ^ (WORD_BITS - bits) ELSE 0
  IN  IF ShiftsOut(shift, x.width) THEN ZeroInt(x.width)
      ELSE OfWords(x.width, [i \in DOMAIN x.data |->
        IF From(i) < 0 THEN 0
        ELSE ((x.data[From(i)] * 2 ^ bits) % WordBase) | low(i)])

\* operator>>, arithmetic on a signed view, but zero when everything is
\* shifted out.
ShiftRight(x, signed, shift) ==
  LET n == shift.data[0]
      bits == n % WORD_BITS
      From(i) == i + n \div WORD_BITS
      high(i) == IF bits = 0 THEN 0
                 ELSE (ExtWord(x, signed, From(i) + 1) * 2 ^ (WORD_BITS - bits)) % WordBase
  IN  IF ShiftsOut(shift, x.width) THEN ZeroInt(x.width)
      ELSE OfWords(x.width, [i \in DOMAIN x.data |->
        (ExtWord(x, signed, From(i)) \div 2 ^ bits) | high(i)])

ReduceAnd(x) ==
  /\ \A i \in 0 .. x.width \div WORD_BITS - 1 : x.data[i] = AllOnes
  /\ x.width % WORD_BITS # 0 =>
       x.data[x.width \div WORD_BITS] = LowMask(x.width % WORD_BITS)
ReduceOr(x)  == \E i \in DOMAIN x.data : x.data[i] # 0
\* Every bit that is one turns the parity.
ReduceXor(x) == Cardinality({ b \in 0 .. x.width - 1 : GetBit(x, b) = 1 }) % 2 = 1

Equal(l, r) == \A i \in DOMAIN l.data : l.data[i] = r.data[i]

\* operator<: signs that differ decide, otherwise the highest words that do.
Less(l, ls, r, rs) ==
  IF Negative(l, ls) # Negative(r, rs) THEN Negative(l, ls)
  ELSE \E i \in DOMAIN l.data :
         l.data[i] < r.data[i] /\ \A j \in DOMAIN l.data : j > i => l.data[j] = r.data[j]
=============================================================================
