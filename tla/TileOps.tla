------------------------------- MODULE TileOps -------------------------------
(***************************************************************************)
(* The tile operations of src/src/tmisc/TMISC.hpp: filling, broadcasting,  *)
(* shifting, transposing and mask making, and the byte planes in which     *)
(* tiles come and go.  A word has four bytes of ByteBase values, and a     *)
(* type is its number of bytes and whether it is signed.                   *)
(***************************************************************************)
EXTENDS Integers

CONSTANTS
  TILE_SIZE,   \* rows and columns of a tile (32)
  ByteBase     \* values of a byte (256)

ASSUME TileAssumption == TILE_SIZE \in Nat \ {0} /\ ByteBase \in Nat \ {0, 1}

Index == 0 .. TILE_SIZE - 1
Byte == 0 .. 3

\* The instruction an idle unit holds after a reset.
BaseInst ==
  [op |-> "TFILL", rd |-> 0, rdBytes |-> 1, rsBytes |-> 1, signed |-> FALSE, value |-> 0,
   row_step |-> 0, col_step |-> 0, step |-> 0, row_off |-> 0, col_off |-> 0,
   row |-> 0, col |-> 0, up |-> 0, bottom |-> 0, left |-> 0, right |-> 0,
   mask_mode |-> "RECT", invert |-> FALSE]

Broadcasts == {"TBCAST", "TBCAST_R", "TBCAST_C"}
Shifts == {"TSHIFT", "TSHIFT_Z"}
Transposes == {"TTRANS", "TTRANS_RR", "TTRANS_RC"}

NeedsInput(inst) == inst.op \in Broadcasts \cup Shifts \cup Transposes
OutputBytes(inst) == IF inst.op = "TSETMASK" THEN 1 ELSE inst.rdBytes

-----------------------------------------------------------------------------
(* Values of a type: masking with tmisc_dtype_mask is reduction.           *)

\* What a shift by b bytes multiplies with.
Weight(b) ==
  CASE b = 0 -> 1
    [] b = 1 -> ByteBase
    [] b = 2 -> ByteBase * ByteBase
    [] b = 3 -> ByteBase * ByteBase * ByteBase

Modulus(bytes) == Weight(bytes - 1) * ByteBase
PackValue(value, bytes) == value % Modulus(bytes)

SignedOrUnsigned(value, bytes, signed) ==
  LET masked == PackValue(value, bytes)
  IN  IF signed /\ 2 * masked >= Modulus(bytes) THEN masked - Modulus(bytes) ELSE masked

Zero == [r \in Index |-> [c \in Index |-> 0]]

\* tmisc_make_wb_tile
Plane(tile, b) == [r \in Index |-> [c \in Index |-> (tile[r][c] \div Weight(b)) % ByteBase]]

\* One byte of every element is replaced (miscMemInput).
Merge(tile, b, plane) ==
  [r \in Index |-> [c \in Index |->
     tile[r][c] + (plane[r][c] - Plane(tile, b)[r][c]) * Weight(b)]]

-----------------------------------------------------------------------------
(* The operations.                                                         *)

Base(inst) == SignedOrUnsigned(inst.value, inst.rdBytes, inst.signed)

Fill(inst) ==
  [r \in Index |-> [c \in Index |->
     PackValue(Base(inst) + inst.row_step * r + inst.col_step * c, inst.rdBytes)]]

FillLine(inst) ==
  [r \in Index |-> [c \in Index |->
     PackValue(Base(inst) + inst.step * (r * TILE_SIZE + c), inst.rdBytes)]]

\* The whole tile takes one element, its row that element's column, or the
\* other way round.
Bcast(inst, src) ==
  [r \in Index |-> [c \in Index |->
     PackValue(src[IF inst.op = "TBCAST_R" THEN r ELSE inst.row % TILE_SIZE]
                  [IF inst.op = "TBCAST_C" THEN c ELSE inst.col % TILE_SIZE], inst.rdBytes)]]

\* The remainder of C takes the sign of the dividend.
Remainder(value) ==
  IF value >= 0 THEN value % TILE_SIZE ELSE - ((- value) % TILE_SIZE)

\* Mutant: a negative remainder is mirrored (line 191).
ModIndexMirrored(value) == IF Remainder(value) < 0 THEN - Remainder(value) ELSE Remainder(value)

ModIndex(value) ==
  IF Remainder(value) < 0 THEN Remainder(value) + TILE_SIZE ELSE Remainder(value)

Shift(inst, src) ==
  [r \in Index |-> [c \in Index |->
     IF inst.op = "TSHIFT_Z" /\ (r + inst.row_off \notin Index \/ c + inst.col_off \notin Index)
     THEN 0
     ELSE PackValue(src[ModIndex(r + inst.row_off)][ModIndex(c + inst.col_off)], inst.rdBytes)]]

Trans(inst, src) ==
  [r \in Index |-> [c \in Index |->
     PackValue(CASE inst.op = "TTRANS"    -> src[c][r]
                 [] inst.op = "TTRANS_RR" -> src[TILE_SIZE - 1 - r][c]
                 [] inst.op = "TTRANS_RC" -> src[r][TILE_SIZE - 1 - c], inst.rdBytes)]]

\* Margins are unsigned; margins wider than the tile leave nothing.
Until(margin) == IF TILE_SIZE > margin THEN TILE_SIZE - margin ELSE 0

RectContains(inst, r, c) ==
  r >= inst.up /\ r < Until(inst.bottom) /\ c >= inst.left /\ c < Until(inst.right)

\* The triangles are those of the rectangle, not of the tile.
TriangleContains(inst, r, c) ==
  /\ RectContains(inst, r, c)
  /\ LET lr == r - inst.up
         lc == c - inst.left
     IN  CASE inst.mask_mode = "UT"   -> lc > lr
           [] inst.mask_mode = "UT_D" -> lc >= lr
           [] inst.mask_mode = "LT"   -> lc < lr
           [] inst.mask_mode = "LT_D" -> lc <= lr
           [] OTHER -> TRUE

SetMask(inst) ==
  [r \in Index |-> [c \in Index |-> IF TriangleContains(inst, r, c) # inst.invert THEN 1 ELSE 0]]

ComputeResult(inst, src) ==
  CASE inst.op = "TFILL"      -> Fill(inst)
    [] inst.op = "TFILLLINE"  -> FillLine(inst)
    [] inst.op \in Broadcasts -> Bcast(inst, src)
    [] inst.op \in Shifts     -> Shift(inst, src)
    [] inst.op \in Transposes -> Trans(inst, src)
    [] inst.op = "TSETMASK"   -> SetMask(inst)

-----------------------------------------------------------------------------
(* Laws of the operations, for an instruction and a source whose elements  *)
(* fit the type of its result.                                             *)

\* A linear filling is a filling whose rows differ by a whole row of steps,
\* and the sign of the type does not show in the stored bytes, whatever the
\* sign of the steps (lines 133 to 169).
FillsAgree(inst) ==
  /\ FillLine(inst) =
       Fill([inst EXCEPT !.row_step = TILE_SIZE * inst.step, !.col_step = inst.step])
  /\ Fill(inst) = Fill([inst EXCEPT !.signed = ~ inst.signed])

\* A shift by any offsets, negative and beyond the tile, is undone by the
\* opposite one; the zero-filling shift gives the same elements where they
\* come from inside the tile, and loses the others (lines 188 to 213).
ShiftUndone(inst, src) ==
  LET back  == [inst EXCEPT !.op = "TSHIFT", !.row_off = - inst.row_off,
                            !.col_off = - inst.col_off]
      twice == Shift(back, Shift(inst, src))
      kept(r, c) == r - inst.row_off \in Index /\ c - inst.col_off \in Index
  IN  \A r, c \in Index :
        twice[r][c] = IF inst.op = "TSHIFT" \/ kept(r, c) THEN src[r][c] ELSE 0

Turned(inst, op, tile) == Trans([inst EXCEPT !.op = op], tile)
Transposed(inst, tile) == Turned(inst, "TTRANS", tile)

\* The transposition and the reversals are their own inverses, and reversing
\* the columns is reversing the rows of the transposed tile (lines 215 to 231).
TurnsConjugate(inst, src) ==
  /\ \A op \in Transposes : Turned(inst, op, Turned(inst, op, src)) = src
  /\ Turned(inst, "TTRANS_RC", src) = Transposed(inst, Turned(inst, "TTRANS_RR", Transposed(inst, src)))

\* Spreading an element is spreading its row after its column, and spreading a
\* column is spreading a row of the transposed tile, with rows and columns
\* taken modulo the size (lines 171 to 186).
CastsConjugate(inst, src) ==
  LET Cast(op, tile) == Bcast([inst EXCEPT !.op = op], tile)
      across == [inst EXCEPT !.op = "TBCAST_R", !.col = inst.row + TILE_SIZE]
  IN  /\ Cast("TBCAST_C", src) = Transposed(inst, Bcast(across, Transposed(inst, src)))
      /\ Cast("TBCAST", src) = Cast("TBCAST_R", Cast("TBCAST_C", src))

\* The strict triangle of one side and the triangle with diagonal of the other
\* share out the rectangle, for every rectangle; inverted masks are the
\* complements, outside the rectangle too (lines 233 to 274).
MasksShareOut(inst) ==
  LET Mask(mode) == SetMask([inst EXCEPT !.mask_mode = mode, !.invert = FALSE])
      inverted   == SetMask([inst EXCEPT !.invert = ~ inst.invert])
  IN  \A r, c \in Index :
        /\ Mask("UT")[r][c] + Mask("LT_D")[r][c] = Mask("RECT")[r][c]
        /\ Mask("LT")[r][c] + Mask("UT_D")[r][c] = Mask("RECT")[r][c]
        /\ SetMask(inst)[r][c] + inverted[r][c] = 1
=============================================================================
