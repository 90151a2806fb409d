------------------------------- MODULE Rename -------------------------------
(***************************************************************************)
(* The register rename stage, src/src/core/Rename.hpp, closed with its two *)
(* clients: the instruction source behind s1FetchInstRaw and the back end  *)
(* that takes renamed instructions and retires their register references.  *)
(*                                                                         *)
(* The code is clocked: in a cycle the clients call services, then         *)
(* TICK_IMPL runs, then every REGISTER takes its next value.  A service is *)
(* an action here and writes the pending value of a register; Tick is      *)
(* TICK_IMPL with the commit of the cycle.                                 *)
(*                                                                         *)
(* A register group is a sequence of virtual registers.  Immediate fields  *)
(* of an instruction (opcode, data types, funct5, pmask), which the stage  *)
(* copies from input to output, are left out.                              *)
(***************************************************************************)
EXTENDS Integers, Sequences, FiniteSets, Functions, Ranks

CONSTANTS
  VTREG_SIZE,    \* virtual tile registers (384 in header/config.hpp)
  PTREG_SIZE,    \* physical tile registers (512)
  MaxReads,      \* slots of a RenameRetireRead (8)
  MaxWrites,     \* slots of a RenameRetireWrite (4)
  CountMod,      \* reference counters are modulo 2^16
  MaskCountMod,  \* mask reference counters are modulo 2^8
  MaxOwed,       \* bound: references to one register the back end may hold
  Insts          \* raw instructions the program may contain

VReg == 0 .. VTREG_SIZE - 1
PReg == 0 .. PTREG_SIZE - 1
Mask == 1 .. 3

\* Registers an operand covers, from bits 5:4 of its data type.
DtypeRegCount(group) == IF group = 0 THEN 1 ELSE IF group = 1 THEN 2 ELSE 4

\* A TREG operand: consecutive virtual registers inside the register file;
\* an operand of any other type takes none.
Operand ==
  {<<>>} \cup
  { o \in { [i \in 1 .. DtypeRegCount(g) |-> v + i - 1] : v \in VReg, g \in 0 .. 3 } :
      Range(o) \subseteq VReg }

\* masks lists the mask registers 1..3 the instruction refers to.
RawInst == [rs1 : Operand, rs2 : Operand, rd : Operand, masks : Seq(Mask)]

NoInst == [rs1 |-> <<>>, rs2 |-> <<>>, rd |-> <<>>, masks |-> <<>>]

ASSUME SizesAssumption ==
  /\ VTREG_SIZE \in Nat \ {0}
  /\ PTREG_SIZE \in Nat
  /\ VTREG_SIZE <= PTREG_SIZE
ASSUME SlotsAssumption == MaxReads \in Nat /\ MaxWrites \in Nat
ASSUME CountAssumption ==
  /\ MaxOwed \in Nat
  /\ CountMod \in Nat
  /\ MaskCountMod \in Nat \ {0}
  \* What one register may be owed by the back end, by the output register
  \* and by both copies of a retire buffer fits a counter.
  /\ MaxOwed + 8 + 2 * MaxReads < CountMod
  /\ MaxOwed + 4 + 2 * MaxWrites < CountMod
ASSUME InstsAssumption == Insts \subseteq RawInst

VARIABLES
  vtMap,       \* rename_vt_map: the physical register of a virtual one
  mapped,      \* rename_pt_mapped
  isFree,      \* rename_pt_free
  readCount,   \* rename_pt_read_count
  writeCount,  \* rename_pt_write_count
  maskCount,   \* rename_mask_read_count
  freeList,    \* rename_free_ptregs from head to tail
  s2,          \* rename_s2_valid, rename_s2_inst: <<>> or <<inst>>
  hold,        \* rename_s1_hold_valid, rename_s1_hold_raw: <<>> or <<raw>>
  readBuf,     \* retire_read_buf, the valid slots in slot order
  writeBuf,    \* retire_write_buf
  taken,       \* s2GetResult was called in this cycle
  readNext,    \* what retireRead wrote to its port in this cycle
  writeNext,   \* what retireWrite wrote to its port in this cycle
  owedReads,   \* reads the back end has taken and not yet retired
  owedWrites   \* writes the back end has taken and not yet retired

tables  == <<vtMap, mapped, isFree, readCount, writeCount, maskCount, freeList>>
backend == <<owedReads, owedWrites>>
pending == <<taken, readNext, writeNext>>
vars    == <<tables, s2, hold, readBuf, writeBuf, pending, backend>>

-----------------------------------------------------------------------------
(* Slots: sequences indexed like the arrays of the code.                   *)

\* How many slots of s hold x.
Occurs(s, x) == Cardinality({ i \in DOMAIN s : s[i] = x })

-----------------------------------------------------------------------------
(* Renaming one instruction.                                               *)

Sources(raw) == raw.rs1 \o raw.rs2

\* The lookups of both source operands, made before any update.
SourceP(raw) == [i \in DOMAIN Sources(raw) |-> vtMap[Sources(raw)[i]]]

OldP(raw) == [i \in DOMAIN raw.rd |-> vtMap[raw.rd[i]]]

\* Mutant: the readers of the old register are not looked at (line 316).
NeedAllocIgnoringReaders(raw) ==
  { i \in DOMAIN raw.rd : OldP(raw)[i] \in Range(SourceP(raw)) }

\* Mutant: the instruction's own sources are not looked at (line 317).
NeedAllocIgnoringSelf(raw) ==
  { i \in DOMAIN raw.rd : readCount[OldP(raw)[i]] # 0 }

\* Destinations that cannot be renamed in place: the old register still has
\* a reader, or the instruction reads it itself.
NeedAlloc(raw) ==
  { i \in DOMAIN raw.rd :
      \/ readCount[OldP(raw)[i]] # 0
      \/ OldP(raw)[i] \in Range(SourceP(raw)) }

CanRename(raw) == Cardinality(NeedAlloc(raw)) <= Len(freeList)

\* Mutant: alloc_pidx does not advance the head (line 151).
NewPSameHead(raw) ==
  [i \in DOMAIN raw.rd |-> IF i \in NeedAlloc(raw) THEN freeList[1] ELSE OldP(raw)[i]]

NewP(raw) ==
  [i \in DOMAIN raw.rd |->
     IF i \in NeedAlloc(raw) THEN freeList[Rank(NeedAlloc(raw), i)]
                             ELSE OldP(raw)[i]]

Allocated(raw) == { NewP(raw)[i] : i \in NeedAlloc(raw) }
Replaced(raw)  == { OldP(raw)[i] : i \in NeedAlloc(raw) }

Renamed(raw) == [src |-> SourceP(raw), rd |-> NewP(raw)]

-----------------------------------------------------------------------------
(* Retiring: both buffers are sampled at the start of the tick, and their  *)
(* decrements are applied at its end, reads before writes.                 *)

ReadDec  == { i \in DOMAIN readBuf : readCount[readBuf[i]] # 0 }
\* Mutant: the last reference is not given back (line 214).
WriteDecNotLast == { i \in DOMAIN writeBuf : writeCount[writeBuf[i]] > 1 }

WriteDec == { i \in DOMAIN writeBuf : writeCount[writeBuf[i]] # 0 }

Retired == readBuf \o writeBuf
\* Mutant: maybe_free_pidx is not called for writes (line 397).
RetiredDecReadsOnly == ReadDec

RetiredDec == ReadDec \cup { Len(readBuf) + i : i \in WriteDec }

\* Mutant: a register named by two slots is decremented once.
DecrementsOnce(buf, dec, p) == IF \E i \in dec : buf[i] = p THEN 1 ELSE 0

Decrements(buf, dec, p) == Cardinality({ i \in dec : buf[i] = p })

(***************************************************************************)
(* The body of a tick for instruction raw, or for NoInst when nothing is   *)
(* renamed: sample the buffers, rename, retire, commit.                    *)
(* A register goes to the tail of the free list at the last decrement that *)
(* names it.  The call of maybe_free_pidx at line 357 has no effect, as a  *)
(* replaced register has a reader counted at lines 330-331 or before.      *)
(***************************************************************************)
Update(raw) ==
  LET isMapped == [p \in PReg |->
        \/ p \in Allocated(raw)
        \/ mapped[p] /\ p \notin Replaced(raw)]
      reads == [p \in PReg |->
        (readCount[p] + Occurs(SourceP(raw), p)
           - Decrements(readBuf, ReadDec, p)) % CountMod]
      writes == [p \in PReg |->
        (writeCount[p] + Occurs(NewP(raw), p)
           - Decrements(writeBuf, WriteDec, p)) % CountMod]
      \* the slots at which maybe_free_pidx frees the register they name
      frees == { i \in RetiredDec :
        /\ ~ isMapped[Retired[i]]
        /\ reads[Retired[i]] = 0
        /\ writes[Retired[i]] = 0
        /\ ~ (isFree[Retired[i]] /\ Retired[i] \notin Allocated(raw))
        /\ \A j \in RetiredDec : j > i => Retired[j] # Retired[i] }
      freed == { Retired[i] : i \in frees }
  IN
  /\ vtMap' = [v \in VReg |->
       IF \E i \in DOMAIN raw.rd : raw.rd[i] = v
       THEN NewP(raw)[CHOOSE i \in DOMAIN raw.rd : raw.rd[i] = v]
       ELSE vtMap[v]]
  /\ mapped' = isMapped
  /\ readCount' = reads
  /\ writeCount' = writes
  /\ maskCount' = [m \in Mask |-> (maskCount[m] + Occurs(raw.masks, m)) % MaskCountMod]
  /\ isFree' = [p \in PReg |-> (isFree[p] /\ p \notin Allocated(raw)) \/ p \in freed]
  /\ freeList' =
       SubSeq(freeList, Cardinality(NeedAlloc(raw)) + 1, Len(freeList))
         \o [k \in 1 .. Cardinality(frees) |-> Retired[AtRank(frees, k)]]
  \* Port 0 (the services) beats port 1 (the clearing in the tick).
  /\ readBuf' = readNext
  /\ writeBuf' = writeNext
  /\ taken' = FALSE
  /\ readNext' = <<>>
  /\ writeNext' = <<>>
  /\ UNCHANGED backend

\* The output register is occupied: nothing is renamed.
TickOccupied ==
  /\ s2 # <<>>
  /\ Update(NoInst)
  /\ s2' = IF taken THEN <<>> ELSE s2
  /\ UNCHANGED hold

\* Nothing is held and s1FetchInstRaw has nothing.
TickNoInst ==
  /\ s2 = <<>> /\ hold = <<>>
  /\ Update(NoInst)
  /\ UNCHANGED <<s2, hold>>

\* The held instruction goes first; otherwise one is fetched.
Candidates == IF hold = <<>> THEN Insts ELSE {hold[1]}

TickRename(raw) ==
  /\ s2 = <<>>
  /\ CanRename(raw)
  /\ Update(raw)
  /\ s2' = <<Renamed(raw)>>
  /\ hold' = <<>>

\* Mutant: a fetched instruction is not kept (lines 380-381).
TickHoldDropped(raw) ==
  /\ s2 = <<>>
  /\ ~ CanRename(raw)
  /\ Update(NoInst)
  /\ UNCHANGED <<s2, hold>>

\* Too few free registers: the instruction is held.
TickHold(raw) ==
  /\ s2 = <<>>
  /\ ~ CanRename(raw)
  /\ Update(NoInst)
  /\ hold' = <<raw>>
  /\ UNCHANGED s2

Tick ==
  \/ TickOccupied
  \/ TickNoInst
  \/ \E raw \in Candidates : TickRename(raw) \/ TickHold(raw)

-----------------------------------------------------------------------------
(* The services, called by the back end at most once per cycle each (a     *)
(* register port may be written once per cycle).                           *)

\* The back end takes the result when it has room for its references.
S2GetResult ==
  /\ s2 # <<>>
  /\ ~ taken
  /\ \A p \in PReg :
       /\ owedReads[p] + Occurs(s2[1].src, p) <= MaxOwed
       /\ owedWrites[p] + Occurs(s2[1].rd, p) <= MaxOwed
  /\ taken' = TRUE
  /\ owedReads' = [p \in PReg |-> owedReads[p] + Occurs(s2[1].src, p)]
  /\ owedWrites' = [p \in PReg |-> owedWrites[p] + Occurs(s2[1].rd, p)]
  /\ UNCHANGED <<tables, s2, hold, readBuf, writeBuf, readNext, writeNext>>

\* Batches of at most n slots that retire only references that are owed.
Batches(n, owed) ==
  { b \in UNION { [1 .. k -> PReg] : k \in 1 .. n } :
      \A p \in PReg : Occurs(b, p) <= owed[p] }

RetireRead(b) ==
  /\ readNext = <<>>
  /\ readNext' = b
  /\ owedReads' = [p \in PReg |-> owedReads[p] - Occurs(b, p)]
  /\ UNCHANGED <<tables, s2, hold, readBuf, writeBuf, taken, writeNext, owedWrites>>

RetireWrite(b) ==
  /\ writeNext = <<>>
  /\ writeNext' = b
  /\ owedWrites' = [p \in PReg |-> owedWrites[p] - Occurs(b, p)]
  /\ UNCHANGED <<tables, s2, hold, readBuf, writeBuf, taken, readNext, owedReads>>

-----------------------------------------------------------------------------
\* The software tables are as rename_sw_reset leaves them: the first tick
\* calls it before it reads them, and no service looks at them.
Init ==
  /\ vtMap = [v \in VReg |-> v]
  /\ mapped = [p \in PReg |-> p \in VReg]
  /\ isFree = [p \in PReg |-> p \notin VReg]
  /\ readCount = [p \in PReg |-> 0]
  /\ writeCount = [p \in PReg |-> 0]
  /\ maskCount = [m \in Mask |-> 0]
  /\ freeList = [i \in 1 .. PTREG_SIZE - VTREG_SIZE |-> VTREG_SIZE + i - 1]
  /\ s2 = <<>> /\ hold = <<>>
  /\ readBuf = <<>> /\ writeBuf = <<>>
  /\ taken = FALSE
  /\ readNext = <<>> /\ writeNext = <<>>
  /\ owedReads = [p \in PReg |-> 0]
  /\ owedWrites = [p \in PReg |-> 0]

Next ==
  \/ Tick
  \/ S2GetResult
  \/ \E b \in Batches(MaxReads, owedReads) : RetireRead(b)
  \/ \E b \in Batches(MaxWrites, owedWrites) : RetireWrite(b)

Spec == Init /\ [][Next]_vars

(***************************************************************************)
(* Fairness: the clock never stops; the back end takes a result it has     *)
(* room for, and retires each reference it owes (strong fairness, as the   *)
(* one port for retiring is shared by all registers).                      *)
(***************************************************************************)
Fairness ==
  /\ WF_vars(Tick)
  /\ WF_vars(S2GetResult)
  /\ \A p \in PReg :
       /\ SF_vars(\E b \in Batches(MaxReads, owedReads) :
                    p \in Range(b) /\ RetireRead(b))
       /\ SF_vars(\E b \in Batches(MaxWrites, owedWrites) :
                    p \in Range(b) /\ RetireWrite(b))

FairSpec == Spec /\ Fairness

-----------------------------------------------------------------------------
OutInst ==
  { o \in [src : Seq(PReg), rd : Seq(PReg)] : Len(o.src) <= 8 /\ Len(o.rd) <= 4 }

\* Every variable holds a value of its C++ type.
TypeOK ==
  /\ vtMap \in [VReg -> PReg]
  /\ mapped \in [PReg -> BOOLEAN]
  /\ isFree \in [PReg -> BOOLEAN]
  /\ readCount \in [PReg -> 0 .. CountMod - 1]
  /\ writeCount \in [PReg -> 0 .. CountMod - 1]
  /\ maskCount \in [Mask -> 0 .. MaskCountMod - 1]
  /\ freeList \in Seq(PReg)
  /\ s2 \in Seq(OutInst) /\ Len(s2) <= 1
  /\ hold \in Seq(Insts) /\ Len(hold) <= 1
  /\ readBuf \in Seq(PReg) /\ Len(readBuf) <= MaxReads
  /\ writeBuf \in Seq(PReg) /\ Len(writeBuf) <= MaxWrites
  /\ taken \in BOOLEAN
  /\ readNext \in Seq(PReg) /\ Len(readNext) <= MaxReads
  /\ writeNext \in Seq(PReg) /\ Len(writeNext) <= MaxWrites
  /\ owedReads \in [PReg -> 0 .. MaxOwed]
  /\ owedWrites \in [PReg -> 0 .. MaxOwed]

\* References in the output register that the back end has not taken.
WaitingReads(p)  == IF s2 = <<>> \/ taken THEN 0 ELSE Occurs(s2[1].src, p)
WaitingWrites(p) == IF s2 = <<>> \/ taken THEN 0 ELSE Occurs(s2[1].rd, p)

(***************************************************************************)
(* A counter is exactly the number of references in the output register,   *)
(* in the back end and in the retire buffers: no increment (lines 330-331, *)
(* 361) is lost or made twice, no retirement is dropped when a service and *)
(* the tick write a buffer in the same cycle (lines 168, 205), and no      *)
(* counter wraps.                                                          *)
(***************************************************************************)
CountsConserved ==
  \A p \in PReg :
    /\ readCount[p] = WaitingReads(p) + owedReads[p]
                        + Occurs(readBuf, p) + Occurs(readNext, p)
    /\ writeCount[p] = WaitingWrites(p) + owedWrites[p]
                         + Occurs(writeBuf, p) + Occurs(writeNext, p)

\* No two virtual registers share a physical one, and the mapped flags
\* (lines 356, 358) are the range of the map.
MapInjective ==
  /\ IsInjective(vtMap)
  /\ \A p \in PReg : mapped[p] <=> p \in Range(vtMap)

\* The free list holds each register flagged free once, and those are the
\* unmapped registers nobody refers to: nothing leaks, nothing is freed
\* twice or under a reference (maybe_free_pidx, alloc_pidx, lines 135-156).
FreeListExact ==
  /\ IsInjective(freeList)
  /\ \A p \in PReg :
       /\ isFree[p] <=> p \in Range(freeList)
       /\ isFree[p] <=> ~ mapped[p] /\ readCount[p] = 0 /\ writeCount[p] = 0

(***************************************************************************)
(* A register becomes the destination of an instruction only when no other *)
(* instruction still has to read it, wherever that reader is, and when the *)
(* instruction does not read it itself (lines 315-317): the renamed        *)
(* program has no write-after-read hazard.                                 *)
(***************************************************************************)
Assigns(p) == s2 = <<>> /\ s2' # <<>> /\ p \in Range(s2'[1].rd)

NoWriteUnderRead ==
  [][\A p \in PReg : Assigns(p) =>
       /\ owedReads[p] = 0
       /\ p \notin Range(readNext)
       /\ p \notin Range(s2'[1].src)]_vars

\* An instruction held for want of registers (line 379) is renamed in the
\* end: retirement alone gives back enough registers.
HeldIsRenamed == (hold # <<>>) ~> (hold = <<>>)

\* A register that lost its virtual register becomes free in the end.
ReplacedIsFreed ==
  \A p \in PReg : (~ mapped[p]) ~> (isFree[p] \/ mapped[p])
=============================================================================
