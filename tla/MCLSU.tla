-------------------------------- MODULE MCLSU --------------------------------
(* Small instances of LSU: two banks with the hash of BankHash, or one.    *)
EXTENDS LSU

VARIABLE client    \* what the dispatcher of a behaviour fires

Hash == INSTANCE BankHash WITH BankBits <- 1

TwoBanks == Hash!BankIndex
HashBank == [c \in 0 .. ChunkCount - 1 |-> Hash!PhysToBank(c)]
HashAddr == [c \in 0 .. ChunkCount - 1 |-> Hash!PhysToBankAddr(c)]
HashPhys == [b \in TwoBanks, a \in 0 .. ChunkCount \div 2 - 1 |-> Hash!BankToPhys(b, a)]

OneBank == {0}
ZeroBank == [c \in 0 .. ChunkCount - 1 |-> 0]
SameAddr == [c \in 0 .. ChunkCount - 1 |-> c]
SamePhys == [b \in OneBank, a \in 0 .. ChunkCount - 1 |-> a]

All == Part
L(base, stride, bytes, mask, rd) ==
  [base |-> base, stride |-> stride, bytes |-> bytes, mask |-> mask, rd |-> rd]
S(base, stride, bytes, mask) ==
  [base |-> base, stride |-> stride, bytes |-> bytes, mask |-> mask]

\* Two-byte elements with rows apart and one part masked off, and one-byte
\* elements over the same memory.
MixedLoads == { L(0, 2, 2, All \ {<<1, 0>>}, 1), L(3, 1, 1, All, 2) }
NoLoads == {}

\* Overlapping stores of both element sizes, one masked.
MixedStores == { S(0, 1, 2, All \ {<<0, 1>>}), S(1, 2, 1, All) }
OneStore == { S(0, 1, 1, All) }

\* A behaviour has a dispatcher that fires loads or one that fires stores:
\* the halves of the unit share no state but the tick.
MCInit == Init /\ client \in {"loads", "stores"}

MCNext ==
  /\ \/ client = "loads" /\ \E m \in Loads : LoadRowFire(m)
     \/ client = "stores" /\ \E m \in Stores : StoreRowFire(m)
     \/ \E p \in Plane : StoreMemInput(p)
     \/ \E r \in bus : BusReadResp(r)
     \/ \E ok \in BOOLEAN, reads, writes \in SUBSET Bank : Tick(ok, reads, writes)
  /\ UNCHANGED client

MCSpec == MCInit /\ [][MCNext]_<<vars, client>> /\ Fairness
=============================================================================
