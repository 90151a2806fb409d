------------------------------- MODULE BankHash -------------------------------
(***************************************************************************)
(* The mapping of physical addresses to bus banks, src/src/header/lsu.hpp. *)
(* An address is counted in chunks of TILE_SIZE bytes, the unit in which   *)
(* banks are interleaved; the offset in a chunk passes through unchanged.  *)
(***************************************************************************)
EXTENDS Integers

CONSTANT BankBits    \* tpu_bank_index_bits: 3 for the 8 banks of the bus

ASSUME BankBitsAssumption == BankBits \in 1 .. 3

BankCount == 2 ^ BankBits
BankIndex == 0 .. BankCount - 1

Bit(x, i) == (x \div 2 ^ i) % 2

\* Exclusive or of two bank indices, of at most three bits.
Xor(x, y) == LET bit(i) == (Bit(x, i) + Bit(y, i)) % 2
             IN  bit(0) + 2 * bit(1) + 4 * bit(2)

\* The k-th group of bank index bits of a number.
Group(n, k) == (n \div BankCount ^ k) % BankCount

\* The bank is the exclusive or of the three lowest groups of the address.
PhysToBank(chunk) == Xor(Xor(Group(chunk, 0), Group(chunk, 1)), Group(chunk, 2))

\* The address inside the bank drops the lowest group.
PhysToBankAddr(chunk) == chunk \div BankCount

\* Mutant: the third group is not undone (lines 86-87).
BankToPhysTwoGroups(bank, addr) == addr * BankCount + Xor(bank, Group(addr, 0))

\* The lowest group is recovered from the bank and the two groups above.
BankToPhys(bank, addr) ==
  addr * BankCount + Xor(Xor(bank, Group(addr, 0)), Group(addr, 1))

-----------------------------------------------------------------------------
(* Laws of the hash, for a chunk.                                          *)

\* The bus and the unit agree on where a chunk is: bank and address in the
\* bank lead back to it, so no two chunks share a place and a read sees what
\* a store wrote there.
RoundTrip(chunk) == BankToPhys(PhysToBank(chunk), PhysToBankAddr(chunk)) = chunk

\* No place is lost: every address of every bank is that of a chunk.
PlaceUsed(bank, addr) ==
  /\ PhysToBank(BankToPhys(bank, addr)) = bank
  /\ PhysToBankAddr(BankToPhys(bank, addr)) = addr

\* Rows that are 1, 8 or 64 chunks apart, starting at a boundary of eight
\* rows, use every bank: that is why three groups are folded (line 70).  A
\* stride of 512 chunks would put every row in one bank.
RowsSpread(chunk) ==
  \A k \in 0 .. 2 :
    Group(chunk, k) = 0 =>
      { PhysToBank(chunk + row * BankCount ^ k) : row \in BankIndex } = BankIndex

HashLaws(chunk) ==
  /\ RoundTrip(chunk)
  /\ \A bank \in BankIndex : PlaceUsed(bank, chunk)
  /\ RowsSpread(chunk)
=============================================================================
