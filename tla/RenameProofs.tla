---------------------------- MODULE RenameProofs ----------------------------
(***************************************************************************)
(* Proofs about Rename and RenameFlow, for every size of the register      *)
(* files, every program and every behaviour of the back end within its     *)
(* bound.                                                                  *)
(***************************************************************************)
EXTENDS RenameFlow, RanksProofs

-----------------------------------------------------------------------------
(* Slots.                                                                  *)

\* Occurs counts the slots that hold a value: none iff the value is not in
\* the sequence, and at most as many as there are slots.
LEMMA OccursFacts ==
  ASSUME NEW T, NEW s \in Seq(T), NEW x
  PROVE  /\ Occurs(s, x) \in Nat
         /\ Occurs(s, x) <= Len(s)
         /\ Occurs(s, x) = 0 <=> x \notin Range(s)
<1> DEFINE at == { i \in DOMAIN s : s[i] = x }
<1>1. DOMAIN s = 1 .. Len(s) /\ Len(s) \in Nat
  OBVIOUS
<1>2. IsFiniteSet(1 .. Len(s)) /\ Cardinality(1 .. Len(s)) = Len(s)
  BY <1>1, FS_Interval
<1>3. at \in SUBSET (1 .. Len(s))
  BY <1>1
<1>4. IsFiniteSet(at) /\ Cardinality(at) <= Len(s)
  BY <1>2, <1>3, FS_Subset
<1>5. Cardinality(at) \in Nat /\ (Cardinality(at) = 0 <=> at = {})
  BY <1>4, FS_CardinalityType, FS_EmptySet
<1>6. at = {} <=> x \notin Range(s)
  BY DEF Range
<1> QED
  BY <1>4, <1>5, <1>6 DEF Occurs

\* Nothing occurs in an empty batch.
LEMMA OccursEmpty == \A x : Occurs(<<>>, x) = 0
<1> SUFFICES ASSUME NEW x PROVE Occurs(<<>>, x) = 0
  OBVIOUS
<1>1. <<>> \in Seq({x}) /\ Range(<<>>) = {}
  BY DEF Range
<1> QED
  BY <1>1, OccursFacts

-----------------------------------------------------------------------------
(* Renaming one instruction.                                               *)

\* What a tick may rename: an instruction of the program, or nothing.
Renamable == Insts \cup {NoInst}

\* Operands are short sequences of distinct virtual registers.
LEMMA OperandFacts ==
  ASSUME NEW o \in Operand
  PROVE  o \in Seq(VReg) /\ Len(o) <= 4 /\ IsInjective(o)
<1>1. CASE o = <<>>
  BY <1>1 DEF IsInjective
<1>2. ASSUME NEW v \in VReg, NEW g \in 0 .. 3,
             o = [i \in 1 .. DtypeRegCount(g) |-> v + i - 1],
             Range(o) \subseteq VReg
      PROVE  o \in Seq(VReg) /\ Len(o) <= 4 /\ IsInjective(o)
  <2> DEFINE c == DtypeRegCount(g)
  <2>1. c \in {1, 2, 4}
    BY DEF DtypeRegCount
  <2>2. v \in Int
    BY DEF VReg, SizesAssumption
  <2>3. \A i \in 1 .. c : o[i] \in VReg
    BY <1>2 DEF Range
  <2>4. DOMAIN o = 1 .. c /\ \A i \in 1 .. c : o[i] = v + i - 1
    BY <1>2
  <2> HIDE DEF c
  <2>5. o \in Seq(VReg) /\ Len(o) = c
    BY <1>2, <2>1, <2>3 DEF c
  <2>6. IsInjective(o)
    BY <2>1, <2>2, <2>4 DEF IsInjective
  <2> QED
    BY <2>1, <2>5, <2>6
<1> QED
  BY <1>1, <1>2 DEF Operand

\* The parts of an instruction are sequences of the sizes an operand may have.
LEMMA RawFacts ==
  ASSUME NEW raw \in Renamable
  PROVE  /\ raw.rd \in Seq(VReg) /\ Len(raw.rd) <= 4 /\ IsInjective(raw.rd)
         /\ Sources(raw) \in Seq(VReg) /\ Len(Sources(raw)) <= 8
         /\ raw.masks \in Seq(Mask)
<1>1. raw.rs1 \in Operand /\ raw.rs2 \in Operand /\ raw.rd \in Operand
      /\ raw.masks \in Seq(Mask)
  <2>1. CASE raw \in Insts
    BY <2>1, InstsAssumption DEF RawInst
  <2>2. CASE raw = NoInst
    <3>1. <<>> \in Operand
      BY DEF Operand
    <3> QED
      BY <2>2, <3>1 DEF NoInst
  <2> QED
    BY <2>1, <2>2 DEF Renamable
<1>2. raw.rs1 \in Seq(VReg) /\ Len(raw.rs1) <= 4
  BY <1>1, OperandFacts
<1>3. raw.rs2 \in Seq(VReg) /\ Len(raw.rs2) <= 4
  BY <1>1, OperandFacts
<1>4. raw.rd \in Seq(VReg) /\ Len(raw.rd) <= 4 /\ IsInjective(raw.rd)
  BY <1>1, OperandFacts
<1>5. Sources(raw) \in Seq(VReg) /\ Len(Sources(raw)) = Len(raw.rs1) + Len(raw.rs2)
  BY <1>2, <1>3, ConcatFacts DEF Sources
<1>6. Len(raw.rs1) \in Nat /\ Len(raw.rs2) \in Nat
  BY <1>2, <1>3
<1>7. Len(Sources(raw)) <= 8
  <2> DEFINE a == Len(raw.rs1)
             b == Len(raw.rs2)
             c == Len(Sources(raw))
  <2>1. a \in Nat /\ b \in Nat /\ a <= 4 /\ b <= 4
    BY <1>2, <1>3
  <2>2. c = a + b
    BY <1>5
  <2> HIDE DEF a, b, c
  <2>3. c <= 8
    BY <2>1, <2>2
  <2> QED
    BY <2>3 DEF c
<1> QED
  BY <1>1, <1>4, <1>5, <1>7

-----------------------------------------------------------------------------
(***************************************************************************)
(* The inductive invariant.  FreeListExact alone is not inductive: that    *)
(* the register taken from the list is not the target of a pending         *)
(* decrement needs the counts, that it differs from every register left in *)
(* place needs the map, and the counts do not wrap only because of the     *)
(* bounds in TypeOK.                                                       *)
(***************************************************************************)
IInv == TypeOK /\ CountsConserved /\ MapInjective /\ FreeListExact

\* The physical registers an instruction uses: its sources are mapped, its
\* destinations are distinct, an allocated one is free and one that is
\* written in place is mapped and has no reader.
LEMMA RenamedFacts ==
  ASSUME IInv, NEW raw \in Renamable, CanRename(raw)
  PROVE  /\ SourceP(raw) \in Seq(PReg) /\ Len(SourceP(raw)) <= 8
         /\ NewP(raw) \in Seq(PReg) /\ Len(NewP(raw)) <= 4
         /\ DOMAIN NewP(raw) = DOMAIN raw.rd
         /\ \A p \in Range(SourceP(raw)) : mapped[p]
         /\ NeedAlloc(raw) \in SUBSET (1 .. Len(raw.rd))
         /\ \A i \in NeedAlloc(raw) :
              /\ Rank(NeedAlloc(raw), i) \in 1 .. Cardinality(NeedAlloc(raw))
              /\ NewP(raw)[i] = freeList[Rank(NeedAlloc(raw), i)]
              /\ isFree[NewP(raw)[i]]
         /\ \A i \in DOMAIN raw.rd \ NeedAlloc(raw) :
              /\ NewP(raw)[i] = vtMap[raw.rd[i]]
              /\ readCount[NewP(raw)[i]] = 0
              /\ NewP(raw)[i] \notin Range(SourceP(raw))
         /\ IsInjective(NewP(raw))
<1> USE DEF IInv
<1>1. raw.rd \in Seq(VReg) /\ Len(raw.rd) <= 4 /\ IsInjective(raw.rd)
      /\ Sources(raw) \in Seq(VReg) /\ Len(Sources(raw)) <= 8
  BY RawFacts
<1>2. vtMap \in [VReg -> PReg] /\ freeList \in Seq(PReg)
  BY DEF TypeOK
<1> DEFINE src == Sources(raw)
           need == NeedAlloc(raw)
<1>3. SourceP(raw) \in Seq(PReg) /\ Len(SourceP(raw)) = Len(src)
      /\ \A i \in 1 .. Len(src) : SourceP(raw)[i] = vtMap[src[i]]
  <2>1. DOMAIN src = 1 .. Len(src) /\ Len(src) \in Nat
        /\ \A i \in 1 .. Len(src) : src[i] \in VReg
    BY <1>1
  <2>2. SourceP(raw) = [i \in 1 .. Len(src) |-> vtMap[src[i]]]
    BY <2>1 DEF SourceP
  <2> HIDE DEF src
  <2>3. /\ DOMAIN SourceP(raw) = 1 .. Len(src)
        /\ SourceP(raw) = [i \in 1 .. Len(src) |-> SourceP(raw)[i]]
        /\ \A i \in 1 .. Len(src) : SourceP(raw)[i] = vtMap[src[i]]
    BY <2>2
  <2>4. \A i \in 1 .. Len(src) : SourceP(raw)[i] \in PReg
    BY <1>2, <2>1, <2>3
  <2> QED
    BY <2>1, <2>3, <2>4, SequenceIntro
<1>4. \A p \in Range(SourceP(raw)) : mapped[p]
  <2> SUFFICES ASSUME NEW i \in DOMAIN SourceP(raw)
               PROVE  mapped[SourceP(raw)[i]]
    BY DEF Range
  <2>1. src[i] \in VReg /\ SourceP(raw)[i] = vtMap[src[i]]
    BY <1>1, <1>3
  <2> QED
    BY <1>2, <2>1 DEF MapInjective, Range
<1>5. OldP(raw) = [i \in 1 .. Len(raw.rd) |-> vtMap[raw.rd[i]]]
      /\ DOMAIN raw.rd = 1 .. Len(raw.rd)
      /\ \A i \in DOMAIN raw.rd : raw.rd[i] \in VReg
  BY <1>1 DEF OldP
<1>6. need \in SUBSET (1 .. Len(raw.rd))
  BY <1>5 DEF NeedAlloc
<1>7. /\ Cardinality(need) \in Nat /\ Cardinality(need) <= Len(freeList)
      /\ \A i \in need : Rank(need, i) \in 1 .. Cardinality(need)
      /\ \A i, j \in need : i < j => Rank(need, i) < Rank(need, j)
  <2>1. Len(raw.rd) \in Nat
    BY <1>1
  <2>2. Cardinality(need) <= Len(freeList)
    BY <1>1 DEF CanRename
  <2> QED
    BY <2>1, <2>2, <1>6, RankFacts
<1> HIDE DEF need, src
<1>8. ASSUME NEW i \in need
      PROVE  /\ NewP(raw)[i] = freeList[Rank(need, i)]
             /\ NewP(raw)[i] \in PReg
             /\ isFree[NewP(raw)[i]]
  <2>1. NewP(raw)[i] = freeList[Rank(need, i)]
    BY <1>5, <1>6 DEF NewP, need
  <2>2. Rank(need, i) \in 1 .. Len(freeList)
    BY <1>2, <1>7
  <2>3. freeList[Rank(need, i)] \in PReg
        /\ freeList[Rank(need, i)] \in Range(freeList)
    BY <1>2, <2>2 DEF Range
  <2> QED
    BY <2>1, <2>3 DEF FreeListExact
<1>9. ASSUME NEW i \in DOMAIN raw.rd \ need
      PROVE  /\ NewP(raw)[i] = vtMap[raw.rd[i]]
             /\ NewP(raw)[i] \in PReg
             /\ mapped[NewP(raw)[i]]
             /\ readCount[NewP(raw)[i]] = 0
             /\ NewP(raw)[i] \notin Range(SourceP(raw))
  <2>1. NewP(raw)[i] = vtMap[raw.rd[i]] /\ OldP(raw)[i] = vtMap[raw.rd[i]]
    BY <1>5 DEF NewP, need
  <2>2. readCount[OldP(raw)[i]] = 0 /\ OldP(raw)[i] \notin Range(SourceP(raw))
    BY DEF NeedAlloc, need
  <2>3. vtMap[raw.rd[i]] \in PReg /\ vtMap[raw.rd[i]] \in Range(vtMap)
    BY <1>2, <1>5 DEF Range
  <2> QED
    BY <2>1, <2>2, <2>3 DEF MapInjective
<1>10. NewP(raw) \in Seq(PReg) /\ Len(NewP(raw)) = Len(raw.rd)
       /\ DOMAIN NewP(raw) = DOMAIN raw.rd
  <2>1. \A i \in DOMAIN raw.rd : NewP(raw)[i] \in PReg
    BY <1>8, <1>9
  <2>2. NewP(raw) = [i \in 1 .. Len(raw.rd) |-> NewP(raw)[i]]
        /\ DOMAIN NewP(raw) = 1 .. Len(raw.rd)
    BY <1>5 DEF NewP
  <2>3. Len(raw.rd) \in Nat
    BY <1>1
  <2> QED
    BY <1>5, <2>1, <2>2, <2>3, SequenceIntro
<1>11. ASSUME NEW i \in DOMAIN raw.rd, NEW j \in DOMAIN raw.rd,
              NewP(raw)[i] = NewP(raw)[j]
       PROVE  i = j
  <2>1. CASE i \in need /\ j \in need
    <3>1. Rank(need, i) \in 1 .. Len(freeList) /\ Rank(need, j) \in 1 .. Len(freeList)
      BY <1>2, <1>7, <2>1
    <3>2. Rank(need, i) = Rank(need, j)
      BY <1>2, <1>8, <1>11, <2>1, <3>1 DEF FreeListExact, IsInjective
    <3>3. i \in Nat /\ j \in Nat
      BY <1>5
    <3> QED
      BY <1>7, <2>1, <3>1, <3>2, <3>3
  <2>2. CASE i \in need /\ j \notin need
    BY <1>8, <1>9, <1>11, <2>2 DEF FreeListExact
  <2>3. CASE i \notin need /\ j \in need
    BY <1>8, <1>9, <1>11, <2>3 DEF FreeListExact
  <2>4. CASE i \notin need /\ j \notin need
    <3>1. vtMap[raw.rd[i]] = vtMap[raw.rd[j]]
      BY <1>9, <1>11, <2>4
    <3>2. raw.rd[i] = raw.rd[j]
      BY <1>2, <1>5, <3>1 DEF MapInjective, IsInjective
    <3> QED
      BY <1>1, <3>2 DEF IsInjective
  <2> QED
    BY <2>1, <2>2, <2>3, <2>4
<1> QED
  BY <1>1, <1>3, <1>4, <1>6, <1>7, <1>8, <1>9, <1>10, <1>11 DEF IsInjective, need, src

\* The references waiting in the output register are counted in Nat.
LEMMA WaitingType ==
  ASSUME TypeOK, NEW p
  PROVE  WaitingReads(p) \in Nat /\ WaitingWrites(p) \in Nat
<1>1. CASE s2 = <<>> \/ taken
  BY <1>1 DEF WaitingReads, WaitingWrites
<1>2. CASE ~ (s2 = <<>> \/ taken)
  <2>1. s2[1].src \in Seq(PReg) /\ s2[1].rd \in Seq(PReg)
    BY <1>2 DEF TypeOK, OutInst
  <2> QED
    BY <1>2, <2>1, OccursFacts DEF WaitingReads, WaitingWrites
<1> QED
  BY <1>1, <1>2

\* Every retired slot is decremented: the count of the register it names is
\* not zero when the buffers are sampled.
LEMMA RetireFacts ==
  ASSUME IInv
  PROVE  /\ Retired \in Seq(PReg)
         /\ RetiredDec = 1 .. Len(Retired)
         /\ \A p \in PReg :
              /\ Decrements(readBuf, ReadDec, p) = Occurs(readBuf, p)
              /\ Decrements(writeBuf, WriteDec, p) = Occurs(writeBuf, p)
         /\ \A p \in PReg : Occurs(readBuf, p) # 0 \/ Occurs(writeBuf, p) # 0
              => \E i \in RetiredDec : Retired[i] = p
<1> USE DEF IInv
<1>1. /\ readBuf \in Seq(PReg) /\ writeBuf \in Seq(PReg)
      /\ readNext \in Seq(PReg) /\ writeNext \in Seq(PReg)
      /\ Len(readBuf) \in Nat /\ Len(writeBuf) \in Nat
      /\ DOMAIN readBuf = 1 .. Len(readBuf)
      /\ DOMAIN writeBuf = 1 .. Len(writeBuf)
  BY DEF TypeOK
<1>2. \A p \in PReg : WaitingReads(p) \in Nat /\ WaitingWrites(p) \in Nat
  BY WaitingType
<1>3. ASSUME NEW p \in PReg
      PROVE  /\ Occurs(readBuf, p) \in Nat /\ Occurs(writeBuf, p) \in Nat
             /\ Occurs(readBuf, p) <= readCount[p]
             /\ Occurs(writeBuf, p) <= writeCount[p]
  <2>1. /\ Occurs(readBuf, p) \in Nat /\ Occurs(writeBuf, p) \in Nat
        /\ Occurs(readNext, p) \in Nat /\ Occurs(writeNext, p) \in Nat
    BY <1>1, OccursFacts
  <2>2. owedReads[p] \in Nat /\ owedWrites[p] \in Nat
    BY CountAssumption DEF TypeOK
  <2>3. /\ readCount[p] = WaitingReads(p) + owedReads[p]
                            + Occurs(readBuf, p) + Occurs(readNext, p)
        /\ writeCount[p] = WaitingWrites(p) + owedWrites[p]
                             + Occurs(writeBuf, p) + Occurs(writeNext, p)
    BY DEF CountsConserved
  <2> QED
    BY <1>2, <2>1, <2>2, <2>3
<1>4. \A i \in DOMAIN readBuf : readBuf[i] \in PReg /\ readCount[readBuf[i]] # 0
  <2> SUFFICES ASSUME NEW i \in DOMAIN readBuf
               PROVE  readBuf[i] \in PReg /\ readCount[readBuf[i]] # 0
    OBVIOUS
  <2>1. readBuf[i] \in PReg /\ readBuf[i] \in Range(readBuf)
    BY <1>1 DEF Range
  <2>2. Occurs(readBuf, readBuf[i]) # 0
    BY <1>1, <2>1, OccursFacts
  <2>3. readCount[readBuf[i]] \in Nat
    BY <2>1, CountAssumption DEF TypeOK
  <2> QED
    BY <1>3, <2>1, <2>2, <2>3
<1>5. \A i \in DOMAIN writeBuf : writeBuf[i] \in PReg /\ writeCount[writeBuf[i]] # 0
  <2> SUFFICES ASSUME NEW i \in DOMAIN writeBuf
               PROVE  writeBuf[i] \in PReg /\ writeCount[writeBuf[i]] # 0
    OBVIOUS
  <2>1. writeBuf[i] \in PReg /\ writeBuf[i] \in Range(writeBuf)
    BY <1>1 DEF Range
  <2>2. Occurs(writeBuf, writeBuf[i]) # 0
    BY <1>1, <2>1, OccursFacts
  <2>3. writeCount[writeBuf[i]] \in Nat
    BY <2>1, CountAssumption DEF TypeOK
  <2> QED
    BY <1>3, <2>1, <2>2, <2>3
<1>6. ReadDec = DOMAIN readBuf /\ WriteDec = DOMAIN writeBuf
  BY <1>4, <1>5 DEF ReadDec, WriteDec
<1>7. \A p \in PReg : /\ Decrements(readBuf, ReadDec, p) = Occurs(readBuf, p)
                      /\ Decrements(writeBuf, WriteDec, p) = Occurs(writeBuf, p)
  BY <1>6 DEF Decrements, Occurs
<1>8. /\ Retired \in Seq(PReg)
      /\ Len(Retired) = Len(readBuf) + Len(writeBuf)
      /\ \A i \in 1 .. Len(readBuf) : Retired[i] = readBuf[i]
      /\ \A i \in 1 .. Len(writeBuf) : Retired[Len(readBuf) + i] = writeBuf[i]
  BY <1>1, ConcatFacts DEF Retired
<1>9. RetiredDec = 1 .. Len(Retired)
  <2>1. RetiredDec = (1 .. Len(readBuf)) \cup { Len(readBuf) + i : i \in 1 .. Len(writeBuf) }
    BY <1>1, <1>6 DEF RetiredDec
  <2> DEFINE a == Len(readBuf)
             b == Len(writeBuf)
  <2>2. a \in Nat /\ b \in Nat
    BY <1>1
  <2> HIDE DEF a, b
  <2>3. (1 .. a) \cup { a + i : i \in 1 .. b } = 1 .. (a + b)
    <3>1. ASSUME NEW k \in 1 .. (a + b), k \notin 1 .. a
          PROVE  k - a \in 1 .. b /\ k = a + (k - a)
      BY <2>2, <3>1
    <3>2. ASSUME NEW k \in 1 .. (a + b), k \notin 1 .. a
          PROVE  k \in { a + i : i \in 1 .. b }
      BY <3>1, <3>2
    <3>3. ASSUME NEW i \in 1 .. b
          PROVE  a + i \in 1 .. (a + b)
      BY <2>2
    <3>4. 1 .. a \subseteq 1 .. (a + b)
      BY <2>2
    <3> QED
      BY <3>2, <3>3, <3>4
  <2> QED
    BY <1>8, <2>1, <2>3 DEF a, b
<1>10. ASSUME NEW p \in PReg, Occurs(readBuf, p) # 0 \/ Occurs(writeBuf, p) # 0
       PROVE  \E i \in RetiredDec : Retired[i] = p
  <2>1. CASE Occurs(readBuf, p) # 0
    <3>1. PICK i \in 1 .. Len(readBuf) : readBuf[i] = p
      BY <1>1, <2>1, OccursFacts DEF Range
    <3>2. i \in 1 .. Len(Retired)
      BY <1>1, <1>8, <3>1
    <3> QED
      BY <1>8, <1>9, <3>1, <3>2
  <2>2. CASE Occurs(writeBuf, p) # 0
    <3>1. PICK i \in 1 .. Len(writeBuf) : writeBuf[i] = p
      BY <1>1, <2>2, OccursFacts DEF Range
    <3>2. Len(readBuf) + i \in 1 .. Len(Retired)
      BY <1>1, <1>8, <3>1
    <3> QED
      BY <1>8, <1>9, <3>1, <3>2
  <2> QED
    BY <1>10, <2>1, <2>2
<1> QED
  BY <1>7, <1>8, <1>9, <1>10

-----------------------------------------------------------------------------
(* One tick.  An instruction is renamed only into an empty output.         *)

\* The counters of a tick fit their type: with what the tick counts they are
\* below the modulus, and there is enough to count down.
LEMMA SumsFit ==
  ASSUME IInv, NEW raw \in Renamable, CanRename(raw),
         raw # NoInst => s2 = <<>>, NEW p \in PReg
  PROVE  /\ readCount[p] \in Nat /\ Occurs(SourceP(raw), p) \in Nat
         /\ Occurs(readBuf, p) \in Nat
         /\ readCount[p] + Occurs(SourceP(raw), p) < CountMod
         /\ Occurs(readBuf, p) <= readCount[p]
         /\ writeCount[p] \in Nat /\ Occurs(NewP(raw), p) \in Nat
         /\ Occurs(writeBuf, p) \in Nat
         /\ writeCount[p] + Occurs(NewP(raw), p) < CountMod
         /\ Occurs(writeBuf, p) <= writeCount[p]
<1>1. /\ SourceP(raw) \in Seq(PReg) /\ Len(SourceP(raw)) <= 8
      /\ NewP(raw) \in Seq(PReg) /\ Len(NewP(raw)) <= 4
  BY RenamedFacts
<1>2. /\ readBuf \in Seq(PReg) /\ writeBuf \in Seq(PReg)
      /\ readNext \in Seq(PReg) /\ writeNext \in Seq(PReg)
      /\ Len(readBuf) <= MaxReads /\ Len(readNext) <= MaxReads
      /\ Len(writeBuf) <= MaxWrites /\ Len(writeNext) <= MaxWrites
  BY DEF IInv, TypeOK
<1>4. /\ WaitingReads(p) + Occurs(SourceP(raw), p) \in 0 .. 8
      /\ WaitingWrites(p) + Occurs(NewP(raw), p) \in 0 .. 4
      /\ WaitingReads(p) \in Nat /\ WaitingWrites(p) \in Nat
  <2>1. CASE raw = NoInst
    <3>1. SourceP(raw) = <<>> /\ NewP(raw) = <<>>
      BY <2>1 DEF NoInst, SourceP, Sources, NewP
    <3>2. Occurs(SourceP(raw), p) = 0 /\ Occurs(NewP(raw), p) = 0
      BY <3>1, OccursEmpty
    <3>3. CASE s2 = <<>> \/ taken
      BY <3>2, <3>3 DEF WaitingReads, WaitingWrites
    <3>4. CASE ~ (s2 = <<>> \/ taken)
      <4>1. /\ s2[1].src \in Seq(PReg) /\ Len(s2[1].src) <= 8
            /\ s2[1].rd \in Seq(PReg) /\ Len(s2[1].rd) <= 4
        BY <3>4 DEF IInv, TypeOK, OutInst
      <4>2. Occurs(s2[1].src, p) \in 0 .. 8
        <5>1. Occurs(s2[1].src, p) \in Nat /\ Occurs(s2[1].src, p) <= Len(s2[1].src)
          BY <4>1, OccursFacts
        <5>2. Len(s2[1].src) \in Nat
          BY <4>1
        <5> QED
          BY <4>1, <5>1, <5>2
      <4>3. Occurs(s2[1].rd, p) \in 0 .. 4
        <5>1. Occurs(s2[1].rd, p) \in Nat /\ Occurs(s2[1].rd, p) <= Len(s2[1].rd)
          BY <4>1, OccursFacts
        <5>2. Len(s2[1].rd) \in Nat
          BY <4>1
        <5> QED
          BY <4>1, <5>1, <5>2
      <4> QED
        BY <3>2, <3>4, <4>2, <4>3 DEF WaitingReads, WaitingWrites
    <3> QED
      BY <3>3, <3>4
  <2>2. CASE raw # NoInst
    <3>1. WaitingReads(p) = 0 /\ WaitingWrites(p) = 0
      BY <2>2 DEF WaitingReads, WaitingWrites
    <3>2. Occurs(SourceP(raw), p) \in Nat /\ Occurs(SourceP(raw), p) <= Len(SourceP(raw))
      BY <1>1, OccursFacts
    <3>3. Occurs(NewP(raw), p) \in Nat /\ Occurs(NewP(raw), p) <= Len(NewP(raw))
      BY <1>1, OccursFacts
    <3>4. Len(SourceP(raw)) \in Nat /\ Len(NewP(raw)) \in Nat
      BY <1>1
    <3> QED
      BY <1>1, <3>1, <3>2, <3>3, <3>4
  <2> QED
    BY <2>1, <2>2
<1>5. /\ readCount[p] \in Nat /\ Occurs(SourceP(raw), p) \in Nat
      /\ Occurs(readBuf, p) \in Nat
      /\ readCount[p] + Occurs(SourceP(raw), p) < CountMod
      /\ Occurs(readBuf, p) <= readCount[p]
  <2> DEFINE w == WaitingReads(p)
             s == Occurs(SourceP(raw), p)
             o == owedReads[p]
             b == Occurs(readBuf, p)
             n == Occurs(readNext, p)
  <2>1. readCount[p] = w + o + b + n
    BY DEF IInv, CountsConserved
  <2>2. w \in Nat /\ w + s \in 0 .. 8
    BY <1>4
  <2>3. s \in Nat /\ b \in Nat /\ n \in Nat /\ b <= MaxReads /\ n <= MaxReads
    <3>1. /\ n <= Len(readNext) /\ Len(readNext) \in Nat
          /\ b <= Len(readBuf) /\ Len(readBuf) \in Nat
      BY <1>2, OccursFacts
    <3> QED
      BY <1>1, <1>2, <3>1, OccursFacts, SlotsAssumption
  <2>4. o \in 0 .. MaxOwed
    BY DEF IInv, TypeOK
  <2> HIDE DEF w, s, o, b, n
  <2>5. /\ w \in Nat /\ s \in Nat /\ o \in Nat /\ b \in Nat /\ n \in Nat
        /\ w + s <= 8 /\ o <= MaxOwed /\ b <= MaxReads /\ n <= MaxReads
    BY <2>2, <2>3, <2>4, CountAssumption
  <2>6. w + o + b + n \in Nat /\ w + o + b + n + s < CountMod /\ b <= w + o + b + n
    BY <2>5, CountAssumption, SlotsAssumption
  <2> QED
    BY <2>1, <2>3, <2>6 DEF s, b
<1>6. /\ writeCount[p] \in Nat /\ Occurs(NewP(raw), p) \in Nat
      /\ Occurs(writeBuf, p) \in Nat
      /\ writeCount[p] + Occurs(NewP(raw), p) < CountMod
      /\ Occurs(writeBuf, p) <= writeCount[p]
  <2> DEFINE w == WaitingWrites(p)
             s == Occurs(NewP(raw), p)
             o == owedWrites[p]
             b == Occurs(writeBuf, p)
             n == Occurs(writeNext, p)
  <2>1. writeCount[p] = w + o + b + n
    BY DEF IInv, CountsConserved
  <2>2. w \in Nat /\ w + s \in 0 .. 4
    BY <1>4
  <2>3. s \in Nat /\ b \in Nat /\ n \in Nat /\ b <= MaxWrites /\ n <= MaxWrites
    <3>1. /\ n <= Len(writeNext) /\ Len(writeNext) \in Nat
          /\ b <= Len(writeBuf) /\ Len(writeBuf) \in Nat
      BY <1>2, OccursFacts
    <3> QED
      BY <1>1, <1>2, <3>1, OccursFacts, SlotsAssumption
  <2>4. o \in 0 .. MaxOwed
    BY DEF IInv, TypeOK
  <2> HIDE DEF w, s, o, b, n
  <2>5. /\ w \in Nat /\ s \in Nat /\ o \in Nat /\ b \in Nat /\ n \in Nat
        /\ w + s <= 4 /\ o <= MaxOwed /\ b <= MaxWrites /\ n <= MaxWrites
    BY <2>2, <2>3, <2>4, CountAssumption
  <2>6. w + o + b + n \in Nat /\ w + o + b + n + s < CountMod /\ b <= w + o + b + n
    BY <2>5, CountAssumption, SlotsAssumption
  <2> QED
    BY <2>1, <2>3, <2>6 DEF s, b
<1> QED
  BY <1>5, <1>6

\* The counters after a tick, without the modulus: it never wraps.
LEMMA UpdateCounts ==
  ASSUME IInv, NEW raw \in Renamable, CanRename(raw), Update(raw),
         raw # NoInst => s2 = <<>>
  PROVE  /\ readCount' \in [PReg -> 0 .. CountMod - 1]
         /\ writeCount' \in [PReg -> 0 .. CountMod - 1]
         /\ \A p \in PReg :
              /\ readCount'[p] = readCount[p] + Occurs(SourceP(raw), p)
                                   - Occurs(readBuf, p)
              /\ writeCount'[p] = writeCount[p] + Occurs(NewP(raw), p)
                                    - Occurs(writeBuf, p)
<1>3. /\ readCount' = [p \in PReg |->
             (readCount[p] + Occurs(SourceP(raw), p)
                - Decrements(readBuf, ReadDec, p)) % CountMod]
      /\ writeCount' = [p \in PReg |->
             (writeCount[p] + Occurs(NewP(raw), p)
                - Decrements(writeBuf, WriteDec, p)) % CountMod]
  BY DEF Update
<1>5. ASSUME NEW p \in PReg
      PROVE  /\ readCount'[p] = readCount[p] + Occurs(SourceP(raw), p)
                                  - Occurs(readBuf, p)
             /\ readCount'[p] \in 0 .. CountMod - 1
  <2> DEFINE c == readCount[p]
             s == Occurs(SourceP(raw), p)
             b == Occurs(readBuf, p)
  <2>1. c \in Nat /\ s \in Nat /\ b \in Nat /\ c + s < CountMod /\ b <= c
    BY SumsFit
  <2>2. readCount'[p] = (c + s - b) % CountMod
    BY <1>3, RetireFacts
  <2> HIDE DEF c, s, b
  <2>3. c + s - b \in 0 .. CountMod - 1 /\ (c + s - b) % CountMod = c + s - b
    BY <2>1, CountAssumption
  <2> QED
    BY <2>2, <2>3 DEF c, s, b
<1>6. ASSUME NEW p \in PReg
      PROVE  /\ writeCount'[p] = writeCount[p] + Occurs(NewP(raw), p)
                                   - Occurs(writeBuf, p)
             /\ writeCount'[p] \in 0 .. CountMod - 1
  <2> DEFINE c == writeCount[p]
             s == Occurs(NewP(raw), p)
             b == Occurs(writeBuf, p)
  <2>1. c \in Nat /\ s \in Nat /\ b \in Nat /\ c + s < CountMod /\ b <= c
    BY SumsFit
  <2>2. writeCount'[p] = (c + s - b) % CountMod
    BY <1>3, RetireFacts
  <2> HIDE DEF c, s, b
  <2>3. c + s - b \in 0 .. CountMod - 1 /\ (c + s - b) % CountMod = c + s - b
    BY <2>1, CountAssumption
  <2> QED
    BY <2>2, <2>3 DEF c, s, b
<1> QED
  BY <1>3, <1>5, <1>6

\* The map stays injective and its flags stay exact.
LEMMA UpdateMap ==
  ASSUME IInv, NEW raw \in Renamable, CanRename(raw), Update(raw)
  PROVE  /\ vtMap' \in [VReg -> PReg]
         /\ mapped' \in [PReg -> BOOLEAN]
         /\ MapInjective'
         /\ \A p \in PReg :
              mapped'[p] <=> \/ p \in Allocated(raw)
                             \/ mapped[p] /\ p \notin Replaced(raw)
<1> DEFINE N == NewP(raw)
           rd == raw.rd
           need == NeedAlloc(raw)
<1>1. /\ N \in Seq(PReg) /\ DOMAIN N = DOMAIN rd /\ IsInjective(N)
      /\ need \subseteq DOMAIN rd
      /\ \A i \in need : isFree[N[i]]
      /\ \A i \in DOMAIN rd \ need : N[i] = vtMap[rd[i]]
  <2>1. rd \in Seq(VReg)
    BY RawFacts
  <2> QED
    BY <2>1, RenamedFacts
<1>2. IsInjective(rd) /\ \A i \in DOMAIN rd : rd[i] \in VReg
  <2>1. rd \in Seq(VReg) /\ IsInjective(rd)
    BY RawFacts
  <2> QED
    BY <2>1
<1>3. vtMap' = [v \in VReg |->
        IF \E i \in DOMAIN rd : rd[i] = v
        THEN N[CHOOSE i \in DOMAIN rd : rd[i] = v]
        ELSE vtMap[v]]
  BY DEF Update
<1>4. mapped' = [p \in PReg |->
        \/ p \in Allocated(raw)
        \/ mapped[p] /\ p \notin Replaced(raw)]
  BY DEF Update
<1>5. /\ vtMap \in [VReg -> PReg] /\ IsInjective(vtMap)
      /\ \A p \in PReg : mapped[p] <=> p \in Range(vtMap)
      /\ \A p \in PReg : isFree[p] => ~ mapped[p]
      /\ mapped \in [PReg -> BOOLEAN]
  BY DEF IInv, TypeOK, MapInjective, FreeListExact
<1>6. Allocated(raw) = { N[i] : i \in need }
      /\ Replaced(raw) = { vtMap[rd[i]] : i \in need }
  <2>1. \A i \in need : OldP(raw)[i] = vtMap[rd[i]]
    BY <1>1 DEF OldP
  <2> QED
    BY <2>1 DEF Allocated, Replaced
<1> HIDE DEF N, rd, need
<1>7. ASSUME NEW i \in DOMAIN rd
      PROVE  vtMap'[rd[i]] = N[i] /\ N[i] \in PReg
  <2>1. (CHOOSE j \in DOMAIN rd : rd[j] = rd[i]) = i
    BY <1>2 DEF IsInjective
  <2> QED
    BY <1>1, <1>2, <1>3, <2>1
<1>8. ASSUME NEW v \in VReg, ~ \E i \in DOMAIN rd : rd[i] = v
      PROVE  vtMap'[v] = vtMap[v]
  BY <1>3, <1>8
<1>9. vtMap' \in [VReg -> PReg]
  <2>1. \A v \in VReg : vtMap'[v] \in PReg
    BY <1>5, <1>7, <1>8
  <2> QED
    BY <1>3, <2>1
<1>10. mapped' \in [PReg -> BOOLEAN]
  BY <1>4, <1>5
\* What a virtual register maps to is fresh, or is what one maps to now.
<1>11. ASSUME NEW v \in VReg
       PROVE  \/ \E i \in need : v = rd[i] /\ vtMap'[v] = N[i]
              \/ /\ vtMap'[v] = vtMap[v]
                 /\ ~ \E i \in need : v = rd[i]
  <2>1. CASE \E i \in DOMAIN rd : rd[i] = v
    <3>1. PICK i \in DOMAIN rd : rd[i] = v
      BY <2>1
    <3>2. CASE i \in need
      BY <1>7, <3>1, <3>2
    <3>3. CASE i \notin need
      BY <1>1, <1>2, <1>7, <3>1, <3>3 DEF IsInjective
    <3> QED
      BY <3>2, <3>3
  <2>2. CASE ~ \E i \in DOMAIN rd : rd[i] = v
    BY <1>1, <1>8, <2>2
  <2> QED
    BY <2>1, <2>2
<1>12. \A v \in VReg : vtMap[v] \in PReg /\ mapped[vtMap[v]]
  BY <1>5 DEF Range
<1>13. \A i \in need : N[i] \in PReg /\ ~ mapped[N[i]]
  BY <1>1, <1>5, <1>7
<1>14. ASSUME NEW v \in VReg, NEW w \in VReg, vtMap'[v] = vtMap'[w]
       PROVE  v = w
  <2>1. CASE \E i \in need : v = rd[i] /\ vtMap'[v] = N[i]
    <3>1. \E j \in need : w = rd[j] /\ vtMap'[w] = N[j]
      BY <1>11, <1>12, <1>13, <1>14, <2>1
    <3> QED
      BY <1>1, <1>14, <2>1, <3>1 DEF IsInjective
  <2>2. CASE vtMap'[v] = vtMap[v]
    <3>1. mapped[vtMap'[w]]
      BY <1>12, <1>14, <2>2
    <3>2. ~ \E j \in need : vtMap'[w] = N[j]
      BY <1>13, <3>1
    <3>3. vtMap'[w] = vtMap[w]
      BY <1>11, <3>2
    <3> QED
      BY <1>5, <1>14, <2>2, <3>3 DEF IsInjective
  <2> QED
    BY <1>11, <2>1, <2>2
<1>15. ASSUME NEW p \in PReg
       PROVE  mapped'[p] <=> \E v \in VReg : vtMap'[v] = p
  <2>1. ASSUME NEW v \in VReg, vtMap'[v] = p
        PROVE  mapped'[p]
    <3>1. CASE \E i \in need : v = rd[i] /\ vtMap'[v] = N[i]
      BY <1>4, <1>6, <2>1, <3>1
    <3>2. CASE /\ vtMap'[v] = vtMap[v]
               /\ ~ \E i \in need : v = rd[i]
      <4>1. p \notin Replaced(raw)
        BY <1>1, <1>2, <1>5, <1>6, <2>1, <3>2 DEF IsInjective
      <4> QED
        BY <1>4, <1>12, <2>1, <3>2, <4>1
    <3> QED
      BY <1>11, <3>1, <3>2
  <2>2. ASSUME p \in Allocated(raw)
        PROVE  \E v \in VReg : vtMap'[v] = p
    BY <1>1, <1>2, <1>6, <1>7, <2>2
  <2>3. ASSUME mapped[p], p \notin Replaced(raw)
        PROVE  \E v \in VReg : vtMap'[v] = p
    <3>1. PICK v \in VReg : vtMap[v] = p
      BY <1>5, <2>3 DEF Range
    <3>2. ~ \E i \in need : v = rd[i]
      BY <1>6, <2>3, <3>1
    <3> QED
      BY <1>11, <3>1, <3>2
  <2> QED
    BY <1>4, <2>1, <2>2, <2>3
<1>16. MapInjective'
  <2>1. DOMAIN vtMap' = VReg
    BY <1>9
  <2> QED
    BY <1>14, <1>15, <2>1 DEF MapInjective, IsInjective, Range
<1> QED
  BY <1>4, <1>9, <1>10, <1>16

\* The free list stays exact: its head goes to the allocated registers and
\* each register that loses its last reference is appended once.
LEMMA UpdateFree ==
  ASSUME IInv, NEW raw \in Renamable, CanRename(raw), Update(raw),
         raw # NoInst => s2 = <<>>
  PROVE  /\ isFree' \in [PReg -> BOOLEAN]
         /\ freeList' \in Seq(PReg)
         /\ FreeListExact'
<1> DEFINE N == NewP(raw)
           need == NeedAlloc(raw)
           alloc == Allocated(raw)
           c == Cardinality(need)
           frees == { i \in RetiredDec :
             /\ ~ mapped'[Retired[i]]
             /\ readCount'[Retired[i]] = 0
             /\ writeCount'[Retired[i]] = 0
             /\ ~ (isFree[Retired[i]] /\ Retired[i] \notin alloc)
             /\ \A j \in RetiredDec : j > i => Retired[j] # Retired[i] }
           freed == { Retired[i] : i \in frees }
           m == Cardinality(frees)
           rest == SubSeq(freeList, c + 1, Len(freeList))
           more == [k \in 1 .. m |-> Retired[AtRank(frees, k)]]
<1>1. /\ isFree' = [p \in PReg |-> (isFree[p] /\ p \notin alloc) \/ p \in freed]
      /\ freeList' = rest \o more
  BY DEF Update
<1>2. /\ freeList \in Seq(PReg) /\ isFree \in [PReg -> BOOLEAN]
      /\ IsInjective(freeList)
      /\ \A p \in PReg : isFree[p] <=> p \in Range(freeList)
      /\ \A p \in PReg :
           isFree[p] <=> ~ mapped[p] /\ readCount[p] = 0 /\ writeCount[p] = 0
  BY DEF IInv, TypeOK, FreeListExact
<1>3. Retired \in Seq(PReg) /\ RetiredDec = 1 .. Len(Retired) /\ Len(Retired) \in Nat
  BY RetireFacts
<1>4. frees \in SUBSET (1 .. Len(Retired))
  BY <1>3
<1>4b. \A i \in frees : i \in Nat
  BY <1>4
<1>5. /\ m \in Nat
      /\ \A k \in 1 .. m : AtRank(frees, k) \in frees /\ Rank(frees, AtRank(frees, k)) = k
      /\ \A i \in frees : Rank(frees, i) \in 1 .. m
      /\ \A i, j \in frees : i < j => Rank(frees, i) < Rank(frees, j)
  <2> HIDE DEF frees
  <2> QED
    BY <1>3, <1>4, RankFacts
\* Distinct slots free distinct registers.
<1>6. \A i, j \in frees : Retired[i] = Retired[j] => i = j
  <2> SUFFICES ASSUME NEW i \in frees, NEW j \in frees, Retired[i] = Retired[j]
               PROVE  i = j
    OBVIOUS
  <2>1. i \in Nat /\ j \in Nat /\ i \in RetiredDec /\ j \in RetiredDec
    BY <1>3
  <2>2. ~ (i < j) /\ ~ (j < i)
    BY <2>1
  <2> QED
    BY <2>1, <2>2
<1>7. \A i \in frees : /\ Retired[i] \in PReg
                       /\ ~ (isFree[Retired[i]] /\ Retired[i] \notin alloc)
                       /\ ~ mapped'[Retired[i]]
                       /\ readCount'[Retired[i]] = 0
                       /\ writeCount'[Retired[i]] = 0
  BY <1>3
\* A register that is not free and ends unmapped and without references is
\* freed, at the last slot that names it.
<1>8. ASSUME NEW p \in PReg, ~ mapped'[p], readCount'[p] = 0, writeCount'[p] = 0,
             ~ (isFree[p] /\ p \notin alloc),
             \E i \in RetiredDec : Retired[i] = p
      PROVE  p \in freed
  <2> DEFINE at == { i \in RetiredDec : Retired[i] = p }
  <2>1. at \in SUBSET (1 .. Len(Retired)) /\ at # {}
    BY <1>3, <1>8
  <2>2. PICK i \in at : \A j \in at : ~ (j > i)
    <3> HIDE DEF at
    <3> QED
      BY <1>3, <2>1, LastMember
  <2>3. i \in frees
    BY <1>8, <2>2
  <2> QED
    BY <2>2, <2>3
<1>9. \A p \in freed : \E i \in frees : Retired[i] = p
  OBVIOUS
<1>10. \A i \in frees : Retired[i] \in freed
  OBVIOUS
<1> HIDE DEF frees, freed
<1>11. /\ c \in Nat /\ c <= Len(freeList)
       /\ \A i \in need : Rank(need, i) \in 1 .. c /\ N[i] = freeList[Rank(need, i)]
       /\ \A k \in 1 .. c : AtRank(need, k) \in need /\ Rank(need, AtRank(need, k)) = k
       /\ need \subseteq DOMAIN raw.rd
       /\ alloc = { N[i] : i \in need }
  <2>1. raw.rd \in Seq(VReg) /\ Len(raw.rd) \in Nat
    BY RawFacts
  <2>2. need \in SUBSET (1 .. Len(raw.rd))
    BY RenamedFacts
  <2>3. \A i \in need : Rank(need, i) \in 1 .. c /\ N[i] = freeList[Rank(need, i)]
    BY RenamedFacts
  <2>4. alloc = { N[i] : i \in need }
    BY DEF Allocated
  <2>5. c <= Len(freeList)
    BY DEF CanRename
  <2> HIDE DEF need
  <2>6. c \in Nat
        /\ \A k \in 1 .. c : AtRank(need, k) \in need /\ Rank(need, AtRank(need, k)) = k
    BY <2>1, <2>2, RankFacts
  <2> QED
    BY <2>1, <2>2, <2>3, <2>4, <2>5, <2>6
<1> HIDE DEF need, alloc, c, N
\* The allocated registers are the head of the list.
<1>12. \A p : p \in alloc <=> \E k \in 1 .. c : freeList[k] = p
  <2>1. ASSUME NEW i \in need
        PROVE  \E k \in 1 .. c : freeList[k] = N[i]
    BY <1>11
  <2>2. ASSUME NEW k \in 1 .. c
        PROVE  freeList[k] \in alloc
    <3>1. freeList[k] = N[AtRank(need, k)] /\ AtRank(need, k) \in need
      BY <1>11
    <3> QED
      BY <1>11, <3>1
  <2>3. \A p : p \in alloc <=> \E i \in need : N[i] = p
    BY <1>11
  <2> QED
    BY <2>1, <2>2, <2>3
<1>13. /\ rest \in Seq(PReg) /\ Len(rest) = Len(freeList) - c
       /\ \A k \in 1 .. Len(rest) : rest[k] = freeList[c + k]
       /\ Len(rest) \in Nat
  BY <1>2, <1>11
<1>14. more \in Seq(PReg) /\ Len(more) = m
       /\ \A k \in 1 .. m : more[k] = Retired[AtRank(frees, k)]
  <2>1. \A k \in 1 .. m : Retired[AtRank(frees, k)] \in PReg
    BY <1>5, <1>7
  <2> QED
    BY <1>5, <2>1
<1> HIDE DEF rest, more, m
<1>15. \A p : p \in Range(rest) <=> p \in Range(freeList) /\ p \notin alloc
  <2>1. DOMAIN freeList = 1 .. Len(freeList) /\ Len(freeList) \in Nat
        /\ DOMAIN rest = 1 .. Len(rest)
    BY <1>2, <1>13
  <2>2. ASSUME NEW k \in 1 .. Len(rest)
        PROVE  rest[k] \in Range(freeList) /\ rest[k] \notin alloc
    <3>1. c + k \in 1 .. Len(freeList) /\ \A j \in 1 .. c : j # c + k /\ j \in 1 .. Len(freeList)
      BY <1>11, <1>13, <2>1
    <3>2. rest[k] = freeList[c + k]
      BY <1>13
    <3>3. \A j \in 1 .. c : freeList[j] # rest[k]
      BY <1>2, <2>1, <3>1, <3>2 DEF IsInjective
    <3> QED
      BY <1>12, <2>1, <3>1, <3>2, <3>3 DEF Range
  <2>3. ASSUME NEW j \in 1 .. Len(freeList), freeList[j] \notin alloc
        PROVE  freeList[j] \in Range(rest)
    <3>1. j \notin 1 .. c
      BY <1>12, <2>3
    <3>2. j - c \in 1 .. Len(rest) /\ c + (j - c) = j
      BY <1>11, <1>13, <2>1, <3>1
    <3>3. rest[j - c] = freeList[j]
      BY <1>13, <3>2
    <3> QED
      BY <2>1, <3>2, <3>3 DEF Range
  <2> QED
    BY <2>1, <2>2, <2>3 DEF Range
<1>16. \A p : p \in Range(more) <=> p \in freed
  <2>1. DOMAIN more = 1 .. m
    BY <1>14
  <2>2. ASSUME NEW k \in 1 .. m
        PROVE  more[k] \in freed
    BY <1>5, <1>10, <1>14
  <2>3. ASSUME NEW i \in frees
        PROVE  Retired[i] \in Range(more)
    <3> DEFINE k == Rank(frees, i)
               j == AtRank(frees, k)
    <3>1. k \in 1 .. m /\ j \in frees /\ Rank(frees, j) = k
      BY <1>5
    <3>2. i \in Nat /\ j \in Nat
      BY <1>4b, <3>1
    <3>3. k \in Nat /\ j = i
      BY <1>5, <3>1, <3>2
    <3>4. more[k] = Retired[i]
      BY <1>14, <3>1, <3>3
    <3> QED
      BY <2>1, <3>1, <3>4 DEF Range
  <2> QED
    BY <1>9, <2>1, <2>2, <2>3 DEF Range
<1>17. IsInjective(rest)
  <2> SUFFICES ASSUME NEW j \in 1 .. Len(rest), NEW k \in 1 .. Len(rest),
                      rest[j] = rest[k]
               PROVE  j = k
    BY <1>13 DEF IsInjective
  <2>1. c + j \in 1 .. Len(freeList) /\ c + k \in 1 .. Len(freeList)
    BY <1>2, <1>11, <1>13
  <2>2. freeList[c + j] = freeList[c + k]
    BY <1>13
  <2>3. c + j = c + k
    BY <1>2, <2>1, <2>2 DEF IsInjective
  <2> QED
    BY <1>11, <2>3
<1>18. IsInjective(more)
  <2> SUFFICES ASSUME NEW j \in 1 .. m, NEW k \in 1 .. m, more[j] = more[k]
               PROVE  j = k
    BY <1>14 DEF IsInjective
  <2>1. AtRank(frees, j) = AtRank(frees, k)
    BY <1>5, <1>6, <1>14
  <2> QED
    BY <1>5, <2>1
<1>19. \A p \in freed : p \notin Range(rest)
  BY <1>2, <1>7, <1>9, <1>15
<1>20. /\ freeList' \in Seq(PReg)
       /\ Len(freeList') = Len(rest) + Len(more)
       /\ \A k \in 1 .. Len(rest) : freeList'[k] = rest[k]
       /\ \A k \in 1 .. Len(more) : freeList'[Len(rest) + k] = more[k]
       /\ Len(rest) \in Nat /\ Len(more) \in Nat
       /\ DOMAIN rest = 1 .. Len(rest) /\ DOMAIN more = 1 .. Len(more)
  <2>1. rest \in Seq(PReg) /\ more \in Seq(PReg) /\ freeList' = rest \o more
    BY <1>1, <1>13, <1>14
  <2> QED
    BY <2>1, ConcatFacts
\* Position k of the new list is in its old part or in its new part.
<1>21. ASSUME NEW k \in 1 .. Len(freeList')
       PROVE  \/ k \in 1 .. Len(rest)
              \/ k - Len(rest) \in 1 .. Len(more) /\ k = Len(rest) + (k - Len(rest))
  BY <1>20
<1>22. IsInjective(freeList')
  <2> DEFINE r == Len(rest)
  <2> SUFFICES ASSUME NEW j \in 1 .. Len(freeList'), NEW k \in 1 .. Len(freeList'),
                      freeList'[j] = freeList'[k]
               PROVE  j = k
    BY <1>20 DEF IsInjective
  <2>1. ASSUME NEW a \in 1 .. r, NEW b \in 1 .. Len(more)
        PROVE  freeList'[a] # freeList'[r + b]
    <3>1. freeList'[a] \in Range(rest) /\ freeList'[r + b] \in Range(more)
      BY <1>20 DEF Range
    <3> QED
      BY <1>16, <1>19, <3>1
  <2>2. CASE j \in 1 .. r /\ k \in 1 .. r
    BY <1>17, <1>20, <2>2 DEF IsInjective
  <2>3. CASE j \in 1 .. r /\ k \notin 1 .. r
    BY <1>21, <2>1, <2>3
  <2>4. CASE j \notin 1 .. r /\ k \in 1 .. r
    BY <1>21, <2>1, <2>4
  <2>5. CASE j \notin 1 .. r /\ k \notin 1 .. r
    <3> DEFINE a == j - r
               b == k - r
    <3>1. a \in 1 .. Len(more) /\ j = r + a /\ b \in 1 .. Len(more) /\ k = r + b
      BY <1>21, <2>5
    <3> HIDE DEF a, b
    <3>2. more[a] = more[b]
      BY <1>20, <3>1
    <3>3. a = b
      BY <1>18, <1>20, <3>1, <3>2 DEF IsInjective
    <3> QED
      BY <3>1, <3>3
  <2> QED
    BY <2>2, <2>3, <2>4, <2>5
<1>23. \A p : p \in Range(freeList') <=> p \in Range(rest) \/ p \in Range(more)
  <2>1. DOMAIN freeList' = 1 .. Len(freeList')
    BY <1>20
  <2>2. ASSUME NEW k \in 1 .. Len(freeList')
        PROVE  freeList'[k] \in Range(rest) \/ freeList'[k] \in Range(more)
    <3>1. CASE k \in 1 .. Len(rest)
      BY <1>20, <3>1 DEF Range
    <3>2. CASE k \notin 1 .. Len(rest)
      <4> DEFINE at == k - Len(rest)
      <4>1. at \in 1 .. Len(more) /\ k = Len(rest) + at
        BY <1>20, <1>21, <3>2
      <4> HIDE DEF at
      <4>2. freeList'[k] = more[at]
        BY <1>20, <4>1
      <4> QED
        BY <4>1, <4>2 DEF Range
    <3> QED
      BY <3>1, <3>2
  <2>3. ASSUME NEW k \in 1 .. Len(rest)
        PROVE  rest[k] \in Range(freeList')
    <3>1. k \in 1 .. Len(freeList')
      BY <1>20
    <3> QED
      BY <1>20, <2>1, <3>1 DEF Range
  <2>4. ASSUME NEW k \in 1 .. Len(more)
        PROVE  more[k] \in Range(freeList')
    <3>1. Len(rest) + k \in 1 .. Len(freeList')
      BY <1>20
    <3> QED
      BY <1>20, <2>1, <3>1 DEF Range
  <2> QED
    BY <1>20, <2>1, <2>2, <2>3, <2>4 DEF Range
<1>24. \A p \in PReg : isFree'[p] <=> p \in Range(freeList')
  BY <1>1, <1>2, <1>15, <1>16, <1>23
<1>25. ASSUME NEW p \in PReg
       PROVE  isFree'[p] <=> ~ mapped'[p] /\ readCount'[p] = 0 /\ writeCount'[p] = 0
  <2>1. mapped'[p] <=> p \in alloc \/ (mapped[p] /\ p \notin Replaced(raw))
    BY UpdateMap DEF alloc
  <2>2. /\ readCount'[p] = readCount[p] + Occurs(SourceP(raw), p) - Occurs(readBuf, p)
        /\ writeCount'[p] = writeCount[p] + Occurs(N, p) - Occurs(writeBuf, p)
    BY UpdateCounts DEF N
  <2>3. /\ Occurs(SourceP(raw), p) \in Nat /\ Occurs(N, p) \in Nat
        /\ (Occurs(SourceP(raw), p) # 0 <=> p \in Range(SourceP(raw)))
        /\ (Occurs(N, p) # 0 <=> p \in Range(N))
    BY RenamedFacts, OccursFacts DEF N
  <2>4. /\ Occurs(readBuf, p) \in Nat /\ Occurs(writeBuf, p) \in Nat
        /\ readCount[p] \in Nat /\ writeCount[p] \in Nat
    <3>1. readBuf \in Seq(PReg) /\ writeBuf \in Seq(PReg)
          /\ readCount[p] \in Nat /\ writeCount[p] \in Nat
      BY CountAssumption DEF IInv, TypeOK
    <3> QED
      BY <3>1, OccursFacts
  <2>5. ASSUME p \in freed
        PROVE  ~ mapped'[p] /\ readCount'[p] = 0 /\ writeCount'[p] = 0
    BY <1>7, <1>9, <2>5
  <2>6. ASSUME isFree[p], p \notin alloc
        PROVE  ~ mapped'[p] /\ readCount'[p] = 0 /\ writeCount'[p] = 0
    <3>1. ~ mapped[p] /\ readCount[p] = 0 /\ writeCount[p] = 0
      BY <1>2, <2>6
    <3>2. p \notin Range(SourceP(raw))
      BY <3>1, RenamedFacts
    <3>3. p \notin Range(N)
      <4> SUFFICES ASSUME NEW i \in DOMAIN raw.rd
                   PROVE  N[i] # p
        BY RenamedFacts DEF Range, N
      <4>1. CASE i \in need
        BY <1>11, <2>6, <4>1
      <4>2. CASE i \notin need
        <5>1. N[i] = vtMap[raw.rd[i]]
          BY <4>2, RenamedFacts DEF N, need
        <5>2. raw.rd[i] \in VReg
          <6>1. raw.rd \in Seq(VReg)
            BY RawFacts
          <6> QED
            BY <6>1
        <5>3. N[i] \in PReg /\ N[i] \in Range(vtMap)
          BY <5>1, <5>2 DEF IInv, TypeOK, Range
        <5> QED
          BY <3>1, <5>3 DEF IInv, MapInjective
      <4> QED
        BY <4>1, <4>2
    <3>4. Occurs(readBuf, p) = 0 /\ Occurs(writeBuf, p) = 0
      <4>1. readCount'[p] \in Nat /\ writeCount'[p] \in Nat
        BY UpdateCounts, CountAssumption
      <4> QED
        BY <2>2, <2>3, <2>4, <3>1, <3>2, <3>3, <4>1
    <3>5. ~ mapped'[p]
      BY <2>1, <2>6, <3>1
    <3>6. readCount'[p] = 0 /\ writeCount'[p] = 0
      BY <2>2, <2>3, <3>1, <3>2, <3>3, <3>4
    <3> QED
      BY <3>5, <3>6
  <2>7. ASSUME ~ mapped'[p], readCount'[p] = 0, writeCount'[p] = 0,
               ~ (isFree[p] /\ p \notin alloc)
        PROVE  p \in freed
    <3>1. p \notin alloc
      BY <2>1, <2>7
    <3>2. mapped[p] \/ readCount[p] # 0 \/ writeCount[p] # 0
      BY <1>2, <2>7, <3>1
    <3>3. CASE mapped[p]
      <4>1. p \in Replaced(raw)
        BY <2>1, <2>7, <3>3
      <4>2. readCount[p] # 0 \/ p \in Range(SourceP(raw))
        BY <4>1 DEF Replaced, NeedAlloc
      <4>3. Occurs(readBuf, p) # 0
        BY <2>2, <2>3, <2>4, <2>7, <4>2
      <4> QED
        BY <1>8, <2>7, <4>3, RetireFacts
    <3>4. CASE readCount[p] # 0
      <4>1. Occurs(readBuf, p) # 0
        BY <2>2, <2>3, <2>4, <2>7, <3>4
      <4> QED
        BY <1>8, <2>7, <4>1, RetireFacts
    <3>5. CASE writeCount[p] # 0
      <4>1. Occurs(writeBuf, p) # 0
        BY <2>2, <2>3, <2>4, <2>7, <3>5
      <4> QED
        BY <1>8, <2>7, <4>1, RetireFacts
    <3> QED
      BY <3>2, <3>3, <3>4, <3>5
  <2> QED
    BY <1>1, <2>5, <2>6, <2>7
<1>26. isFree' \in [PReg -> BOOLEAN]
  BY <1>1, <1>2
<1> QED
  BY <1>20, <1>22, <1>24, <1>25, <1>26 DEF FreeListExact

\* What a tick adds to a counter goes to the output register, and what it
\* takes away was in the sampled buffer.
LEMMA UpdateBalance ==
  ASSUME IInv, NEW raw \in Renamable, CanRename(raw), Update(raw),
         raw # NoInst => s2 = <<>>, NEW p \in PReg
  PROVE  /\ readCount'[p] = WaitingReads(p) + Occurs(SourceP(raw), p)
                               + owedReads[p] + Occurs(readNext, p)
         /\ writeCount'[p] = WaitingWrites(p) + Occurs(NewP(raw), p)
                                + owedWrites[p] + Occurs(writeNext, p)
<1>1. /\ readCount[p] = WaitingReads(p) + owedReads[p]
                          + Occurs(readBuf, p) + Occurs(readNext, p)
      /\ writeCount[p] = WaitingWrites(p) + owedWrites[p]
                           + Occurs(writeBuf, p) + Occurs(writeNext, p)
  BY DEF IInv, CountsConserved
<1>2. /\ readCount'[p] = readCount[p] + Occurs(SourceP(raw), p) - Occurs(readBuf, p)
      /\ writeCount'[p] = writeCount[p] + Occurs(NewP(raw), p) - Occurs(writeBuf, p)
  BY UpdateCounts
<1>3. /\ Occurs(readBuf, p) \in Nat /\ Occurs(writeBuf, p) \in Nat
      /\ Occurs(readNext, p) \in Nat /\ Occurs(writeNext, p) \in Nat
      /\ Occurs(SourceP(raw), p) \in Nat /\ Occurs(NewP(raw), p) \in Nat
  <2>1. /\ readBuf \in Seq(PReg) /\ writeBuf \in Seq(PReg)
        /\ readNext \in Seq(PReg) /\ writeNext \in Seq(PReg)
    BY DEF IInv, TypeOK
  <2>2. SourceP(raw) \in Seq(PReg) /\ NewP(raw) \in Seq(PReg)
    BY RenamedFacts
  <2> QED
    BY <2>1, <2>2, OccursFacts
<1>4. owedReads[p] \in Nat /\ owedWrites[p] \in Nat
  BY CountAssumption DEF IInv, TypeOK
<1>5. WaitingReads(p) \in Nat /\ WaitingWrites(p) \in Nat
  BY WaitingType DEF IInv
<1> DEFINE r  == readCount[p]                w  == writeCount[p]
           r1 == readCount'[p]               w1 == writeCount'[p]
           rw == WaitingReads(p)             ww == WaitingWrites(p)
           ro == owedReads[p]                wo == owedWrites[p]
           rb == Occurs(readBuf, p)          wb == Occurs(writeBuf, p)
           rn == Occurs(readNext, p)         wn == Occurs(writeNext, p)
           ra == Occurs(SourceP(raw), p)     wa == Occurs(NewP(raw), p)
<1>6. r = rw + ro + rb + rn /\ r1 = r + ra - rb
  BY <1>1, <1>2
<1>7. w = ww + wo + wb + wn /\ w1 = w + wa - wb
  BY <1>1, <1>2
<1>8. /\ rw \in Nat /\ ro \in Nat /\ rb \in Nat /\ rn \in Nat /\ ra \in Nat
      /\ ww \in Nat /\ wo \in Nat /\ wb \in Nat /\ wn \in Nat /\ wa \in Nat
  BY <1>3, <1>4, <1>5
<1>9. SUFFICES r1 = rw + ra + ro + rn /\ w1 = ww + wa + wo + wn
  OBVIOUS
<1> HIDE DEF r, w, r1, w1, rw, ww, ro, wo, rb, wb, rn, wn, ra, wa
<1> QED
  BY <1>6, <1>7, <1>8

\* A tick keeps the invariant when the output register and the held
\* instruction stay well formed, and the references that wait in the output
\* are exactly those counted for the renamed instruction.
LEMMA UpdateStep ==
  ASSUME IInv, NEW raw \in Renamable, CanRename(raw), Update(raw),
         raw # NoInst => s2 = <<>>,
         s2' \in Seq(OutInst), Len(s2') <= 1,
         hold' \in Seq(Insts), Len(hold') <= 1,
         \A p \in PReg :
           /\ WaitingReads(p)' = WaitingReads(p) + Occurs(SourceP(raw), p)
           /\ WaitingWrites(p)' = WaitingWrites(p) + Occurs(NewP(raw), p)
  PROVE  IInv'
<1>1. /\ readBuf' = readNext /\ writeBuf' = writeNext
      /\ taken' = FALSE
      /\ readNext' = <<>> /\ writeNext' = <<>>
      /\ owedReads' = owedReads /\ owedWrites' = owedWrites
      /\ maskCount' = [m \in Mask |->
            (maskCount[m] + Occurs(raw.masks, m)) % MaskCountMod]
  BY DEF Update, backend
<1>2. maskCount' \in [Mask -> 0 .. MaskCountMod - 1]
  <2> SUFFICES ASSUME NEW m \in Mask
               PROVE  (maskCount[m] + Occurs(raw.masks, m)) % MaskCountMod
                        \in 0 .. MaskCountMod - 1
    BY <1>1
  <2>1. raw.masks \in Seq(Mask)
    BY RawFacts
  <2>2. Occurs(raw.masks, m) \in Nat
    BY <2>1, OccursFacts
  <2>3. maskCount[m] \in Nat
    BY CountAssumption DEF IInv, TypeOK
  <2> DEFINE x == maskCount[m] + Occurs(raw.masks, m)
  <2>4. x \in Nat
    BY <2>2, <2>3
  <2> HIDE DEF x
  <2>5. x % MaskCountMod \in 0 .. MaskCountMod - 1
    BY <2>4, CountAssumption
  <2> QED
    BY <2>5 DEF x
<1>3. TypeOK'
  <2>1. /\ readBuf' \in Seq(PReg) /\ Len(readBuf') <= MaxReads
        /\ writeBuf' \in Seq(PReg) /\ Len(writeBuf') <= MaxWrites
    BY <1>1 DEF IInv, TypeOK
  <2>2. /\ readNext' \in Seq(PReg) /\ Len(readNext') <= MaxReads
        /\ writeNext' \in Seq(PReg) /\ Len(writeNext') <= MaxWrites
    BY <1>1, SlotsAssumption
  <2>3. /\ owedReads' \in [PReg -> 0 .. MaxOwed]
        /\ owedWrites' \in [PReg -> 0 .. MaxOwed]
    BY <1>1 DEF IInv, TypeOK
  <2>4. taken' \in BOOLEAN
    BY <1>1
  <2>5. vtMap' \in [VReg -> PReg] /\ mapped' \in [PReg -> BOOLEAN]
    BY UpdateMap
  <2>6. isFree' \in [PReg -> BOOLEAN] /\ freeList' \in Seq(PReg)
    BY UpdateFree
  <2>7. /\ readCount' \in [PReg -> 0 .. CountMod - 1]
        /\ writeCount' \in [PReg -> 0 .. CountMod - 1]
    BY UpdateCounts
  <2> QED
    BY <1>2, <2>1, <2>2, <2>3, <2>4, <2>5, <2>6, <2>7 DEF TypeOK
<1>4. CountsConserved'
  <2> SUFFICES ASSUME NEW p \in PReg
               PROVE  /\ readCount'[p] = WaitingReads(p)' + owedReads'[p]
                           + Occurs(readBuf', p) + Occurs(readNext', p)
                      /\ writeCount'[p] = WaitingWrites(p)' + owedWrites'[p]
                           + Occurs(writeBuf', p) + Occurs(writeNext', p)
    BY DEF CountsConserved
  <2>1. /\ Occurs(readBuf', p) = Occurs(readNext, p) /\ Occurs(readNext', p) = 0
        /\ Occurs(writeBuf', p) = Occurs(writeNext, p) /\ Occurs(writeNext', p) = 0
    BY <1>1, OccursEmpty
  <2>2. owedReads' = owedReads /\ owedWrites' = owedWrites
    BY <1>1
  <2>3. /\ readNext \in Seq(PReg) /\ writeNext \in Seq(PReg)
        /\ owedReads[p] \in Nat /\ owedWrites[p] \in Nat
    BY CountAssumption DEF IInv, TypeOK
  <2>4. Occurs(readNext, p) \in Nat /\ Occurs(writeNext, p) \in Nat
    BY <2>3, OccursFacts
  <2>5. WaitingReads(p)' = WaitingReads(p) + Occurs(SourceP(raw), p)
        /\ WaitingWrites(p)' = WaitingWrites(p) + Occurs(NewP(raw), p)
    OBVIOUS
  <2>6. SourceP(raw) \in Seq(PReg) /\ NewP(raw) \in Seq(PReg)
    BY RenamedFacts
  <2>7. /\ WaitingReads(p) \in Nat /\ WaitingWrites(p) \in Nat
        /\ Occurs(SourceP(raw), p) \in Nat /\ Occurs(NewP(raw), p) \in Nat
    BY <2>6, OccursFacts, WaitingType DEF IInv
  <2>8. /\ readCount'[p] = WaitingReads(p) + Occurs(SourceP(raw), p)
                              + owedReads[p] + Occurs(readNext, p)
        /\ writeCount'[p] = WaitingWrites(p) + Occurs(NewP(raw), p)
                               + owedWrites[p] + Occurs(writeNext, p)
    BY UpdateBalance
  <2> QED
    BY <2>1, <2>2, <2>3, <2>4, <2>5, <2>7, <2>8, SMTT(60)
<1> QED
  BY <1>3, <1>4, UpdateMap, UpdateFree DEF IInv

\* With nothing to rename, no register is needed and none is referred to.
LEMMA NothingToRename ==
  ASSUME TypeOK
  PROVE  /\ CanRename(NoInst)
         /\ \A p : Occurs(SourceP(NoInst), p) = 0 /\ Occurs(NewP(NoInst), p) = 0
<1>1. NeedAlloc(NoInst) = {}
  BY DEF NeedAlloc, NoInst
<1>2. CanRename(NoInst)
  BY <1>1, FS_EmptySet DEF CanRename, TypeOK
<1>3. SourceP(NoInst) = <<>> /\ NewP(NoInst) = <<>>
  BY DEF NoInst, SourceP, Sources, NewP
<1> QED
  BY <1>2, <1>3, OccursEmpty

\* A tick keeps the invariant, whatever it renames or holds.
LEMMA TickStep == IInv /\ Tick => IInv'
<1> SUFFICES ASSUME IInv, Tick
             PROVE  IInv'
  OBVIOUS
<1>1. /\ s2 \in Seq(OutInst) /\ Len(s2) <= 1
      /\ hold \in Seq(Insts) /\ Len(hold) <= 1
      /\ taken \in BOOLEAN
  BY DEF IInv, TypeOK
<1>2. NoInst \in Renamable /\ CanRename(NoInst)
      /\ \A p : Occurs(SourceP(NoInst), p) = 0 /\ Occurs(NewP(NoInst), p) = 0
  BY NothingToRename DEF Renamable, IInv
<1>3. \A p \in PReg : WaitingReads(p) \in Nat /\ WaitingWrites(p) \in Nat
  BY WaitingType DEF IInv
<1>4. CASE TickOccupied
  <2>1. Update(NoInst) /\ hold' = hold /\ s2' = IF taken THEN <<>> ELSE s2
    BY <1>4 DEF TickOccupied
  <2>2. taken' = FALSE
    BY <2>1 DEF Update
  <2>3. \A p \in PReg : WaitingReads(p)' = WaitingReads(p)
                        /\ WaitingWrites(p)' = WaitingWrites(p)
    BY <2>1, <2>2 DEF WaitingReads, WaitingWrites
  <2>4. s2' \in Seq(OutInst) /\ Len(s2') <= 1
    BY <1>1, <2>1
  <2> QED
    BY <1>1, <1>2, <1>3, <2>1, <2>3, <2>4, UpdateStep
<1>5. CASE TickNoInst
  <2>1. Update(NoInst) /\ hold' = hold /\ s2' = s2 /\ s2 = <<>>
    BY <1>5 DEF TickNoInst
  <2>2. \A p \in PReg : WaitingReads(p)' = WaitingReads(p)
                        /\ WaitingWrites(p)' = WaitingWrites(p)
    BY <2>1 DEF WaitingReads, WaitingWrites
  <2> QED
    BY <1>1, <1>2, <1>3, <2>1, <2>2, UpdateStep
<1>6. ASSUME NEW raw \in Candidates, TickRename(raw)
      PROVE  IInv'
  <2>1. /\ s2 = <<>> /\ CanRename(raw) /\ Update(raw)
        /\ s2' = <<Renamed(raw)>> /\ hold' = <<>>
    BY <1>6 DEF TickRename
  <2>2. raw \in Renamable
    BY <1>1 DEF Candidates, Renamable
  <2>3. Renamed(raw) \in OutInst
    BY <2>1, <2>2, RenamedFacts DEF Renamed, OutInst
  <2>4. taken' = FALSE
    BY <2>1 DEF Update
  <2>5. \A p \in PReg :
          /\ WaitingReads(p) = 0 /\ WaitingWrites(p) = 0
          /\ WaitingReads(p)' = Occurs(SourceP(raw), p)
          /\ WaitingWrites(p)' = Occurs(NewP(raw), p)
    BY <2>1, <2>4 DEF WaitingReads, WaitingWrites, Renamed
  <2>6. \A p \in PReg : Occurs(SourceP(raw), p) \in Nat /\ Occurs(NewP(raw), p) \in Nat
    <3>1. SourceP(raw) \in Seq(PReg) /\ NewP(raw) \in Seq(PReg)
      BY <2>1, <2>2, RenamedFacts
    <3> QED
      BY <3>1, OccursFacts
  <2>7. /\ s2' \in Seq(OutInst) /\ Len(s2') <= 1
        /\ hold' \in Seq(Insts) /\ Len(hold') <= 1
    BY <2>1, <2>3
  <2> QED
    BY <2>1, <2>2, <2>5, <2>6, <2>7, UpdateStep
<1>7. ASSUME NEW raw \in Candidates, TickHold(raw)
      PROVE  IInv'
  <2>1. Update(NoInst) /\ hold' = <<raw>> /\ s2' = s2 /\ s2 = <<>>
    BY <1>7 DEF TickHold
  <2>2. raw \in Insts
    BY <1>1 DEF Candidates
  <2>3. hold' \in Seq(Insts) /\ Len(hold') <= 1
    BY <2>1, <2>2
  <2>4. \A p \in PReg : WaitingReads(p)' = WaitingReads(p)
                        /\ WaitingWrites(p)' = WaitingWrites(p)
    BY <2>1 DEF WaitingReads, WaitingWrites
  <2> QED
    BY <1>1, <1>2, <1>3, <2>1, <2>3, <2>4, UpdateStep
<1> QED
  BY <1>4, <1>5, <1>6, <1>7 DEF Tick

-----------------------------------------------------------------------------
(* The services.                                                           *)

\* Taking the result moves its references from the output to the back end.
LEMMA TakeStep == IInv /\ S2GetResult => IInv'
<1> SUFFICES ASSUME IInv, S2GetResult
             PROVE  IInv'
  OBVIOUS
<1> DEFINE src == s2[1].src
           rd == s2[1].rd
<1>1. /\ s2 # <<>> /\ ~ taken /\ taken' = TRUE
      /\ owedReads' = [p \in PReg |-> owedReads[p] + Occurs(src, p)]
      /\ owedWrites' = [p \in PReg |-> owedWrites[p] + Occurs(rd, p)]
      /\ \A p \in PReg : /\ owedReads[p] + Occurs(src, p) <= MaxOwed
                         /\ owedWrites[p] + Occurs(rd, p) <= MaxOwed
      /\ UNCHANGED <<vtMap, mapped, isFree, readCount, writeCount, maskCount,
                     freeList, s2, hold, readBuf, writeBuf, readNext, writeNext>>
  BY DEF S2GetResult, tables
<1>2. src \in Seq(PReg) /\ rd \in Seq(PReg)
  BY <1>1 DEF IInv, TypeOK, OutInst
<1> HIDE DEF src, rd
<1>3. \A p \in PReg : Occurs(src, p) \in Nat /\ Occurs(rd, p) \in Nat
  BY <1>2, OccursFacts
<1>4. /\ owedReads' \in [PReg -> 0 .. MaxOwed]
      /\ owedWrites' \in [PReg -> 0 .. MaxOwed]
  <2>1. \A p \in PReg : owedReads[p] \in Nat /\ owedWrites[p] \in Nat
    BY CountAssumption DEF IInv, TypeOK
  <2>2. MaxOwed \in Nat
    BY CountAssumption
  <2>3. \A p \in PReg : /\ owedReads[p] + Occurs(src, p) \in 0 .. MaxOwed
                        /\ owedWrites[p] + Occurs(rd, p) \in 0 .. MaxOwed
    BY <1>1, <1>3, <2>1, <2>2
  <2> QED
    BY <1>1, <2>3
<1>5. TypeOK'
  BY <1>1, <1>4 DEF IInv, TypeOK
<1>6. CountsConserved'
  <2>1. \A p \in PReg :
          /\ WaitingReads(p) = Occurs(src, p) /\ WaitingWrites(p) = Occurs(rd, p)
          /\ WaitingReads(p)' = 0 /\ WaitingWrites(p)' = 0
    BY <1>1 DEF WaitingReads, WaitingWrites, src, rd
  <2> SUFFICES ASSUME NEW p \in PReg
               PROVE  /\ readCount'[p] = WaitingReads(p)' + owedReads'[p]
                           + Occurs(readBuf', p) + Occurs(readNext', p)
                      /\ writeCount'[p] = WaitingWrites(p)' + owedWrites'[p]
                           + Occurs(writeBuf', p) + Occurs(writeNext', p)
    BY DEF CountsConserved
  <2>2. /\ readCount[p] = WaitingReads(p) + owedReads[p]
                            + Occurs(readBuf, p) + Occurs(readNext, p)
        /\ writeCount[p] = WaitingWrites(p) + owedWrites[p]
                             + Occurs(writeBuf, p) + Occurs(writeNext, p)
    BY DEF IInv, CountsConserved
  <2>3. owedReads[p] \in Nat /\ owedWrites[p] \in Nat
    BY CountAssumption DEF IInv, TypeOK
  <2>4. /\ readCount' = readCount /\ writeCount' = writeCount
        /\ readBuf' = readBuf /\ readNext' = readNext
        /\ writeBuf' = writeBuf /\ writeNext' = writeNext
        /\ owedReads'[p] = owedReads[p] + Occurs(src, p)
        /\ owedWrites'[p] = owedWrites[p] + Occurs(rd, p)
    BY <1>1
  <2> QED
    BY <1>3, <2>1, <2>2, <2>3, <2>4
<1>7. MapInjective' /\ FreeListExact'
  BY <1>1 DEF IInv, MapInjective, FreeListExact
<1> QED
  BY <1>5, <1>6, <1>7 DEF IInv

\* A batch is a sequence of registers no longer than the port.
LEMMA BatchFacts ==
  ASSUME NEW n \in Nat, NEW owed \in [PReg -> Nat], NEW b \in Batches(n, owed)
  PROVE  /\ b \in Seq(PReg) /\ Len(b) <= n
         /\ \A p \in PReg : Occurs(b, p) \in Nat /\ Occurs(b, p) <= owed[p]
<1>1. PICK k \in 1 .. n : b \in [1 .. k -> PReg]
  BY DEF Batches
<1>2. k \in Nat /\ k <= n
  OBVIOUS
<1>3. b \in Seq(PReg) /\ Len(b) = k
  BY <1>1, <1>2
<1>4. \A p \in PReg : Occurs(b, p) <= owed[p]
  BY DEF Batches
<1> QED
  BY <1>2, <1>3, <1>4, OccursFacts

\* A batch of reads moves references from the back end to a retire buffer.
LEMMA RetireReadStep ==
  ASSUME IInv, NEW b \in Batches(MaxReads, owedReads), RetireRead(b)
  PROVE  IInv'
<1>1. owedReads \in [PReg -> Nat] /\ \A p \in PReg : owedReads[p] <= MaxOwed
  BY CountAssumption DEF IInv, TypeOK
<1>2. /\ b \in Seq(PReg) /\ Len(b) <= MaxReads
      /\ \A p \in PReg : Occurs(b, p) \in Nat /\ Occurs(b, p) <= owedReads[p]
  BY <1>1, SlotsAssumption, BatchFacts
<1>3. /\ readNext = <<>> /\ readNext' = b
      /\ owedReads' = [p \in PReg |-> owedReads[p] - Occurs(b, p)]
      /\ UNCHANGED <<vtMap, mapped, isFree, readCount, writeCount, maskCount,
                     freeList, s2, hold, readBuf, writeBuf, taken, writeNext,
                     owedWrites>>
  BY DEF RetireRead, tables
<1>4. owedReads' \in [PReg -> 0 .. MaxOwed]
  <2>1. \A p \in PReg : owedReads[p] - Occurs(b, p) \in 0 .. MaxOwed
    BY <1>1, <1>2, CountAssumption
  <2> QED
    BY <1>3, <2>1
<1>5. TypeOK'
  BY <1>2, <1>3, <1>4 DEF IInv, TypeOK
<1>6. CountsConserved'
  <2>1. \A p \in PReg : WaitingReads(p)' = WaitingReads(p)
                        /\ WaitingWrites(p)' = WaitingWrites(p)
    BY <1>3 DEF WaitingReads, WaitingWrites
  <2>2. \A p \in PReg : /\ WaitingReads(p) \in Nat /\ Occurs(readBuf, p) \in Nat
                        /\ Occurs(readNext, p) = 0 /\ owedReads[p] \in Nat
    <3>1. readBuf \in Seq(PReg)
      BY DEF IInv, TypeOK
    <3> QED
      BY <1>1, <1>3, <3>1, OccursFacts, OccursEmpty, WaitingType DEF IInv
  <2>3. ASSUME NEW p \in PReg
        PROVE  /\ readCount'[p] = WaitingReads(p)' + owedReads'[p]
                    + Occurs(readBuf', p) + Occurs(readNext', p)
               /\ writeCount'[p] = WaitingWrites(p)' + owedWrites'[p]
                    + Occurs(writeBuf', p) + Occurs(writeNext', p)
    <3>1. /\ readCount[p] = WaitingReads(p) + owedReads[p]
                              + Occurs(readBuf, p) + Occurs(readNext, p)
          /\ writeCount[p] = WaitingWrites(p) + owedWrites[p]
                               + Occurs(writeBuf, p) + Occurs(writeNext, p)
      BY DEF IInv, CountsConserved
    <3>2. /\ readCount' = readCount /\ writeCount' = writeCount
          /\ readBuf' = readBuf /\ writeBuf' = writeBuf
          /\ writeNext' = writeNext /\ owedWrites' = owedWrites
          /\ readNext' = b /\ owedReads'[p] = owedReads[p] - Occurs(b, p)
      BY <1>3
    <3> QED
      BY <1>2, <2>1, <2>2, <3>1, <3>2
  <2> QED
    BY <2>3 DEF CountsConserved
<1>7. MapInjective' /\ FreeListExact'
  BY <1>3 DEF IInv, MapInjective, FreeListExact
<1> QED
  BY <1>5, <1>6, <1>7 DEF IInv

\* A batch of writes moves references from the back end to a retire buffer.
LEMMA RetireWriteStep ==
  ASSUME IInv, NEW b \in Batches(MaxWrites, owedWrites), RetireWrite(b)
  PROVE  IInv'
<1>1. owedWrites \in [PReg -> Nat] /\ \A p \in PReg : owedWrites[p] <= MaxOwed
  BY CountAssumption DEF IInv, TypeOK
<1>2. /\ b \in Seq(PReg) /\ Len(b) <= MaxWrites
      /\ \A p \in PReg : Occurs(b, p) \in Nat /\ Occurs(b, p) <= owedWrites[p]
  BY <1>1, SlotsAssumption, BatchFacts
<1>3. /\ writeNext = <<>> /\ writeNext' = b
      /\ owedWrites' = [p \in PReg |-> owedWrites[p] - Occurs(b, p)]
      /\ UNCHANGED <<vtMap, mapped, isFree, readCount, writeCount, maskCount,
                     freeList, s2, hold, readBuf, writeBuf, taken, readNext,
                     owedReads>>
  BY DEF RetireWrite, tables
<1>4. owedWrites' \in [PReg -> 0 .. MaxOwed]
  <2>1. \A p \in PReg : owedWrites[p] - Occurs(b, p) \in 0 .. MaxOwed
    BY <1>1, <1>2, CountAssumption
  <2> QED
    BY <1>3, <2>1
<1>5. TypeOK'
  BY <1>2, <1>3, <1>4 DEF IInv, TypeOK
<1>6. CountsConserved'
  <2>1. \A p \in PReg : WaitingReads(p)' = WaitingReads(p)
                        /\ WaitingWrites(p)' = WaitingWrites(p)
    BY <1>3 DEF WaitingReads, WaitingWrites
  <2>2. \A p \in PReg : /\ WaitingWrites(p) \in Nat /\ Occurs(writeBuf, p) \in Nat
                        /\ Occurs(writeNext, p) = 0 /\ owedWrites[p] \in Nat
    <3>1. writeBuf \in Seq(PReg)
      BY DEF IInv, TypeOK
    <3> QED
      BY <1>1, <1>3, <3>1, OccursFacts, OccursEmpty, WaitingType DEF IInv
  <2>3. ASSUME NEW p \in PReg
        PROVE  /\ readCount'[p] = WaitingReads(p)' + owedReads'[p]
                    + Occurs(readBuf', p) + Occurs(readNext', p)
               /\ writeCount'[p] = WaitingWrites(p)' + owedWrites'[p]
                    + Occurs(writeBuf', p) + Occurs(writeNext', p)
    <3>1. /\ readCount[p] = WaitingReads(p) + owedReads[p]
                              + Occurs(readBuf, p) + Occurs(readNext, p)
          /\ writeCount[p] = WaitingWrites(p) + owedWrites[p]
                               + Occurs(writeBuf, p) + Occurs(writeNext, p)
      BY DEF IInv, CountsConserved
    <3>2. /\ readCount' = readCount /\ writeCount' = writeCount
          /\ readBuf' = readBuf /\ writeBuf' = writeBuf
          /\ readNext' = readNext /\ owedReads' = owedReads
          /\ writeNext' = b /\ owedWrites'[p] = owedWrites[p] - Occurs(b, p)
      BY <1>3
    <3> QED
      BY <1>2, <2>1, <2>2, <3>1, <3>2
  <2> QED
    BY <2>3 DEF CountsConserved
<1>7. MapInjective' /\ FreeListExact'
  BY <1>3 DEF IInv, MapInjective, FreeListExact
<1> QED
  BY <1>5, <1>6, <1>7 DEF IInv

-----------------------------------------------------------------------------
(* The theorems.                                                           *)

\* The reset state satisfies the invariant.
LEMMA InitStep == Init => IInv
<1> SUFFICES ASSUME Init
             PROVE  IInv
  OBVIOUS
<1>1. VReg \subseteq PReg
  BY SizesAssumption DEF VReg, PReg
<1>2. 0 \in 0 .. CountMod - 1 /\ 0 \in 0 .. MaskCountMod - 1 /\ 0 \in 0 .. MaxOwed
  BY CountAssumption, SlotsAssumption
<1>3. PTREG_SIZE - VTREG_SIZE \in Nat
  BY SizesAssumption
<1>4. /\ freeList \in Seq(PReg) /\ Len(freeList) = PTREG_SIZE - VTREG_SIZE
      /\ \A i \in 1 .. Len(freeList) : freeList[i] = VTREG_SIZE + i - 1
  <2>1. /\ DOMAIN freeList = 1 .. PTREG_SIZE - VTREG_SIZE
        /\ freeList = [i \in 1 .. PTREG_SIZE - VTREG_SIZE |-> freeList[i]]
        /\ \A i \in 1 .. PTREG_SIZE - VTREG_SIZE : freeList[i] = VTREG_SIZE + i - 1
    BY DEF Init
  <2>2. \A i \in 1 .. PTREG_SIZE - VTREG_SIZE : freeList[i] \in PReg
    BY <2>1, SizesAssumption DEF PReg
  <2> QED
    BY <1>3, <2>1, <2>2, SequenceIntro
<1>5. TypeOK
  <2>1. /\ vtMap \in [VReg -> PReg]
        /\ mapped \in [PReg -> BOOLEAN] /\ isFree \in [PReg -> BOOLEAN]
    BY <1>1 DEF Init
  <2>2. /\ readCount \in [PReg -> 0 .. CountMod - 1]
        /\ writeCount \in [PReg -> 0 .. CountMod - 1]
        /\ maskCount \in [Mask -> 0 .. MaskCountMod - 1]
        /\ owedReads \in [PReg -> 0 .. MaxOwed]
        /\ owedWrites \in [PReg -> 0 .. MaxOwed]
    BY <1>2 DEF Init
  <2>3. /\ s2 \in Seq(OutInst) /\ Len(s2) <= 1
        /\ hold \in Seq(Insts) /\ Len(hold) <= 1
    <3>1. s2 = <<>> /\ hold = <<>>
      BY DEF Init
    <3>2. \A T : <<>> \in Seq(T)
      OBVIOUS
    <3>3. Len(<<>>) = 0
      OBVIOUS
    <3> QED
      BY <3>1, <3>2, <3>3
  <2>5. taken \in BOOLEAN
    BY DEF Init
  <2>4. /\ readBuf \in Seq(PReg) /\ Len(readBuf) <= MaxReads
        /\ writeBuf \in Seq(PReg) /\ Len(writeBuf) <= MaxWrites
        /\ readNext \in Seq(PReg) /\ Len(readNext) <= MaxReads
        /\ writeNext \in Seq(PReg) /\ Len(writeNext) <= MaxWrites
    BY SlotsAssumption DEF Init
  <2> QED
    BY <1>4, <2>1, <2>2, <2>3, <2>4, <2>5 DEF TypeOK
<1>6. CountsConserved
  <2> SUFFICES ASSUME NEW p \in PReg
               PROVE  /\ readCount[p] = WaitingReads(p) + owedReads[p]
                           + Occurs(readBuf, p) + Occurs(readNext, p)
                      /\ writeCount[p] = WaitingWrites(p) + owedWrites[p]
                           + Occurs(writeBuf, p) + Occurs(writeNext, p)
    BY DEF CountsConserved
  <2>1. /\ readCount[p] = 0 /\ writeCount[p] = 0
        /\ owedReads[p] = 0 /\ owedWrites[p] = 0
        /\ readBuf = <<>> /\ readNext = <<>> /\ writeBuf = <<>> /\ writeNext = <<>>
    BY DEF Init
  <2>2. WaitingReads(p) = 0 /\ WaitingWrites(p) = 0
    BY DEF Init, WaitingReads, WaitingWrites
  <2>3. /\ Occurs(readBuf, p) = 0 /\ Occurs(readNext, p) = 0
        /\ Occurs(writeBuf, p) = 0 /\ Occurs(writeNext, p) = 0
    BY <2>1, OccursEmpty
  <2> QED
    BY <2>1, <2>2, <2>3
<1>7. MapInjective
  BY DEF Init, MapInjective, IsInjective, Range
<1>8. FreeListExact
  <2>1. IsInjective(freeList)
    <3>1. DOMAIN freeList = 1 .. Len(freeList)
      BY <1>4
    <3> QED
      BY <1>4, <3>1, SizesAssumption DEF IsInjective
  <2>2. ASSUME NEW p \in PReg
        PROVE  p \notin VReg <=> p \in Range(freeList)
    <3>1. DOMAIN freeList = 1 .. PTREG_SIZE - VTREG_SIZE
      BY <1>4
    <3>2. CASE p \in VReg
      BY <1>4, <3>1, <3>2, SizesAssumption DEF Range, VReg
    <3>3. CASE p \notin VReg
      <4>1. p \in Nat /\ p >= VTREG_SIZE /\ p < PTREG_SIZE
        BY <3>3, SizesAssumption DEF VReg, PReg
      <4>2. p - VTREG_SIZE + 1 \in 1 .. PTREG_SIZE - VTREG_SIZE
        BY <4>1, SizesAssumption
      <4>3. freeList[p - VTREG_SIZE + 1] = p
        BY <1>4, <4>1, <4>2, SizesAssumption
      <4> QED
        BY <3>1, <3>3, <4>2, <4>3 DEF Range
    <3> QED
      BY <3>2, <3>3
  <2>3. \A p \in PReg : /\ isFree[p] <=> p \notin VReg
                        /\ mapped[p] <=> p \in VReg
                        /\ readCount[p] = 0 /\ writeCount[p] = 0
    BY DEF Init
  <2> QED
    BY <2>1, <2>2, <2>3 DEF FreeListExact
<1> QED
  BY <1>5, <1>6, <1>7, <1>8 DEF IInv

\* Nothing happens, the invariant stays.
LEMMA StutterStep == IInv /\ UNCHANGED vars => IInv'
<1> SUFFICES ASSUME IInv, UNCHANGED vars
             PROVE  IInv'
  OBVIOUS
<1>1. UNCHANGED <<vtMap, mapped, isFree, readCount, writeCount, maskCount,
                  freeList, s2, hold, readBuf, writeBuf, taken, readNext,
                  writeNext, owedReads, owedWrites>>
  BY DEF vars, tables, pending, backend
<1>2. TypeOK'
  BY <1>1 DEF IInv, TypeOK
<1>3. \A p \in PReg : WaitingReads(p)' = WaitingReads(p)
                      /\ WaitingWrites(p)' = WaitingWrites(p)
  BY <1>1 DEF WaitingReads, WaitingWrites
<1>4. CountsConserved'
  BY <1>1, <1>3 DEF IInv, CountsConserved
<1>5. MapInjective' /\ FreeListExact'
  BY <1>1 DEF IInv, MapInjective, FreeListExact
<1> QED
  BY <1>2, <1>4, <1>5 DEF IInv

\* Every step keeps the invariant.
LEMMA NextStep == IInv /\ [Next]_vars => IInv'
<1> SUFFICES ASSUME IInv, [Next]_vars
             PROVE  IInv'
  OBVIOUS
<1>1. CASE Tick
  BY <1>1, TickStep
<1>2. CASE S2GetResult
  BY <1>2, TakeStep
<1>3. ASSUME NEW b \in Batches(MaxReads, owedReads), RetireRead(b)
      PROVE  IInv'
  BY <1>3, RetireReadStep
<1>4. ASSUME NEW b \in Batches(MaxWrites, owedWrites), RetireWrite(b)
      PROVE  IInv'
  BY <1>4, RetireWriteStep
<1>5. CASE UNCHANGED vars
  BY <1>5, StutterStep
<1> QED
  BY <1>1, <1>2, <1>3, <1>4, <1>5 DEF Next

\* The four invariants hold together: none of them is inductive alone, as
\* what a tick frees depends on the counters, what the counters hold on the
\* map, and what may be allocated on the free list.
THEOREM InvariantHolds == Spec => []IInv
<1> QED
  BY InitStep, NextStep, PTL DEF Spec

(***************************************************************************)
(* In the tick that follows, whether it renames an instruction or not,     *)
(* the sixteen bits of a counter (lines 83-84) are enough and its modulus  *)
(* plays no part: the increments (lines 330-331, 361) do not carry it past *)
(* its limit, and it has as much as the retired slots take off             *)
(* (lines 389, 396).                                                       *)
(***************************************************************************)
NeverWraps ==
  \A raw \in Renamable, p \in PReg :
    raw = NoInst \/ (s2 = <<>> /\ CanRename(raw)) =>
      /\ readCount[p] + Occurs(SourceP(raw), p) < CountMod
      /\ writeCount[p] + Occurs(NewP(raw), p) < CountMod
      /\ Occurs(readBuf, p) <= readCount[p]
      /\ Occurs(writeBuf, p) <= writeCount[p]
      /\ Decrements(readBuf, ReadDec, p) = Occurs(readBuf, p)
      /\ Decrements(writeBuf, WriteDec, p) = Occurs(writeBuf, p)

\* No reference counter overflows or is counted below zero, and every slot of
\* a retire buffer counts, whatever the program and the order of retirement,
\* as long as the back end owes at most MaxOwed references to a register.
THEOREM CountersNeverWrap == Spec => []NeverWraps
<1>1. ASSUME IInv
      PROVE  NeverWraps
  <2>1. ASSUME NEW raw \in Renamable, NEW p \in PReg,
               raw = NoInst \/ (s2 = <<>> /\ CanRename(raw))
        PROVE  /\ readCount[p] + Occurs(SourceP(raw), p) < CountMod
               /\ writeCount[p] + Occurs(NewP(raw), p) < CountMod
               /\ Occurs(readBuf, p) <= readCount[p]
               /\ Occurs(writeBuf, p) <= writeCount[p]
    <3>1. CanRename(raw)
      BY <1>1, <2>1, NothingToRename DEF IInv
    <3> QED
      BY <1>1, <2>1, <3>1, SumsFit
  <2>2. \A p \in PReg :
          /\ Decrements(readBuf, ReadDec, p) = Occurs(readBuf, p)
          /\ Decrements(writeBuf, WriteDec, p) = Occurs(writeBuf, p)
    BY <1>1, RetireFacts
  <2> QED
    BY <2>1, <2>2 DEF NeverWraps
<1> QED
  BY <1>1, InvariantHolds, PTL

\* Every variable stays in the range of its C++ type.
THEOREM TypeCorrect == Spec => []TypeOK
<1>1. IInv => TypeOK
  BY DEF IInv
<1> QED
  BY <1>1, InvariantHolds, PTL

\* A counter is the number of references to its register that exist anywhere
\* between renaming and retirement.
THEOREM CountersExact == Spec => []CountsConserved
<1>1. IInv => CountsConserved
  BY DEF IInv
<1> QED
  BY <1>1, InvariantHolds, PTL

\* The register map (lines 350-373) stays one to one.
THEOREM MapStaysInjective == Spec => []MapInjective
<1>1. IInv => MapInjective
  BY DEF IInv
<1> QED
  BY <1>1, InvariantHolds, PTL

\* No physical register leaks, is freed twice or is freed under a reference
\* (lines 135-156).
THEOREM NothingLeaks == Spec => []FreeListExact
<1>1. IInv => FreeListExact
  BY DEF IInv
<1> QED
  BY <1>1, InvariantHolds, PTL

\* What an instruction writes has no reader: a register renamed in place has
\* a zero read counter and is not a source; a fresh one was free, so its
\* counters are zero and, being unmapped, it is not a source either.
LEMMA DestinationUnread ==
  ASSUME IInv, NEW raw \in Renamable, CanRename(raw),
         NEW p \in PReg, p \in Range(NewP(raw))
  PROVE  readCount[p] = 0 /\ p \notin Range(SourceP(raw))
<1>1. PICK i \in DOMAIN NewP(raw) : p = NewP(raw)[i]
  BY DEF Range
<1>2. i \in DOMAIN raw.rd
  BY <1>1, RenamedFacts
<1>3. CASE i \notin NeedAlloc(raw)
  BY <1>1, <1>2, <1>3, RenamedFacts
<1>4. CASE i \in NeedAlloc(raw)
  <2>1. isFree[p]
    BY <1>1, <1>4, RenamedFacts
  <2>2. ~ mapped[p] /\ readCount[p] = 0
    BY <2>1 DEF IInv, FreeListExact
  <2>3. \A q \in Range(SourceP(raw)) : mapped[q]
    BY RenamedFacts
  <2> QED
    BY <2>2, <2>3
<1> QED
  BY <1>3, <1>4

\* No write-after-read hazard (lines 315-317): a register becomes the
\* destination of an instruction only when nobody has still to read it.
THEOREM NoHazard == Spec => NoWriteUnderRead
<1> DEFINE Safe == \A p \in PReg : Assigns(p) =>
                     /\ owedReads[p] = 0
                     /\ p \notin Range(readNext)
                     /\ p \notin Range(s2'[1].src)
<1>1. ASSUME IInv, [Next]_vars, NEW p \in PReg, Assigns(p)
      PROVE  /\ owedReads[p] = 0
             /\ p \notin Range(readNext)
             /\ p \notin Range(s2'[1].src)
  <2>1. s2 = <<>> /\ s2' # s2 /\ s2' # <<>> /\ p \in Range(s2'[1].rd)
    BY <1>1 DEF Assigns
  <2>2. PICK raw \in Candidates : TickRename(raw)
    <3>1. ~ UNCHANGED vars
      BY <2>1 DEF vars
    <3>2. ~ S2GetResult
      BY <2>1 DEF S2GetResult
    <3>3. \A b : ~ RetireRead(b) /\ ~ RetireWrite(b)
      BY <2>1 DEF RetireRead, RetireWrite
    <3>4. Tick
      BY <1>1, <3>1, <3>2, <3>3 DEF Next
    <3>5. ~ TickOccupied /\ ~ TickNoInst /\ \A raw : ~ TickHold(raw)
      BY <2>1 DEF TickOccupied, TickNoInst, TickHold
    <3> QED
      BY <3>4, <3>5 DEF Tick
  <2>3. CanRename(raw) /\ s2' = <<Renamed(raw)>>
    BY <2>2 DEF TickRename
  <2>4. s2'[1].rd = NewP(raw) /\ s2'[1].src = SourceP(raw)
    BY <2>3 DEF Renamed
  <2>5. raw \in Renamable
    <3>1. hold \in Seq(Insts)
      BY <1>1 DEF IInv, TypeOK
    <3> QED
      BY <3>1 DEF Candidates, Renamable
  <2>6. readCount[p] = 0 /\ p \notin Range(s2'[1].src)
    BY <1>1, <2>1, <2>3, <2>4, <2>5, DestinationUnread
  <2>7. readCount[p] = WaitingReads(p) + owedReads[p]
                         + Occurs(readBuf, p) + Occurs(readNext, p)
    BY <1>1 DEF IInv, CountsConserved
  <2>8. /\ owedReads[p] \in Nat
        /\ readBuf \in Seq(PReg) /\ readNext \in Seq(PReg)
    BY <1>1, CountAssumption DEF IInv, TypeOK
  <2>9. /\ Occurs(readBuf, p) \in Nat /\ Occurs(readNext, p) \in Nat
        /\ Occurs(readNext, p) = 0 => p \notin Range(readNext)
    BY <2>8, OccursFacts
  <2>10. WaitingReads(p) \in Nat
    BY <1>1, WaitingType DEF IInv
  <2>11. owedReads[p] = 0 /\ Occurs(readNext, p) = 0
    BY <2>6, <2>7, <2>8, <2>9, <2>10
  <2> QED
    BY <2>6, <2>9, <2>11
<1>2. IInv /\ [Next]_vars => [Safe]_vars
  BY <1>1
<1> QED
  BY <1>2, InvariantHolds, PTL DEF Spec, NoWriteUnderRead

-----------------------------------------------------------------------------
(* The dataflow of the program.                                            *)

\* The references an instruction in the output register stands for.
Operands(n, regs) == { [inst |-> n, slot |-> k, reg |-> regs[k]] : k \in DOMAIN regs }

ReadsOf(set, p) == { r \in set : r.reg = p }

RefType == [inst : 1 .. renamed, slot : Nat, reg : PReg]

(***************************************************************************)
(* The references of the history are those the counters count: what the    *)
(* back end owes, and, until it takes them, the sources of the instruction *)
(* in the output register.                                                 *)
(***************************************************************************)
RefsExact ==
  /\ renamed \in Nat
  /\ IsFiniteSet(refs) /\ refs \subseteq RefType
  /\ s2 # <<>> /\ ~ taken =>
       { r \in refs : r.inst = renamed } = Operands(renamed, s2[1].src)
  /\ \A p \in PReg : Cardinality(ReadsOf(Taken, p)) = owedReads[p]

\* The program as it was fetched is what was renamed and what is held; all
\* of what was renamed was delivered, but for what waits in the output
\* register.
FetchedExact ==
  /\ fetched \in Seq(Insts)
  /\ Len(fetched) = renamed + Len(hold)
  /\ hold # <<>> => fetched[renamed + 1] = hold[1]
  /\ delivered = IF s2 = <<>> \/ taken THEN renamed ELSE renamed - 1

FlowInv == IInv /\ RefsExact /\ FetchedExact

\* An instruction refers to a register once for each of its slots.
LEMMA OperandsCounted ==
  ASSUME NEW T, NEW s \in Seq(T), NEW n, NEW p
  PROVE  /\ IsFiniteSet(Operands(n, s))
         /\ IsFiniteSet(ReadsOf(Operands(n, s), p))
         /\ Cardinality(ReadsOf(Operands(n, s), p)) = Occurs(s, p)
<1> DEFINE at == { i \in DOMAIN s : s[i] = p }
           ref(i) == [inst |-> n, slot |-> i, reg |-> s[i]]
           all == [i \in DOMAIN s |-> ref(i)]
           some == [i \in at |-> ref(i)]
<1>1. DOMAIN s = 1 .. Len(s) /\ Len(s) \in Nat
  OBVIOUS
<1>2. IsFiniteSet(DOMAIN s)
  BY <1>1, FS_Interval
<1>3. IsFiniteSet(at)
  BY <1>2, FS_Subset
<1>4. all \in Surjection(DOMAIN s, Operands(n, s))
  BY DEF Surjection, Operands
<1>5. IsFiniteSet(Operands(n, s))
  BY <1>2, <1>4, FS_Surjection
<1>6. some \in Injection(at, ReadsOf(Operands(n, s), p))
  <2>1. some \in [at -> ReadsOf(Operands(n, s), p)]
    BY DEF ReadsOf, Operands
  <2>2. \A i, j \in at : some[i] = some[j] => i = j
    OBVIOUS
  <2> QED
    BY <2>1, <2>2 DEF Injection, IsInjective
<1>7. some \in Surjection(at, ReadsOf(Operands(n, s), p))
  <2>1. some \in [at -> ReadsOf(Operands(n, s), p)]
    BY DEF ReadsOf, Operands
  <2>2. ASSUME NEW r \in ReadsOf(Operands(n, s), p)
        PROVE  \E i \in at : some[i] = r
    BY DEF ReadsOf, Operands
  <2> QED
    BY <2>1, <2>2 DEF Surjection
<1>8. ExistsBijection(at, ReadsOf(Operands(n, s), p))
  BY <1>6, <1>7 DEF ExistsBijection, Bijection
<1>9. /\ IsFiniteSet(ReadsOf(Operands(n, s), p))
      /\ Cardinality(ReadsOf(Operands(n, s), p)) = Cardinality(at)
  BY <1>3, <1>8, FS_Bijection
<1> QED
  BY <1>5, <1>9 DEF Occurs

\* Somebody still has to read a register that a reference names, so its
\* counter is not zero.
LEMMA ReferredIsCounted ==
  ASSUME FlowInv, NEW r \in refs
  PROVE  r.reg \in PReg /\ readCount[r.reg] # 0
<1> DEFINE p == r.reg
<1>1. /\ p \in PReg /\ r.inst \in 1 .. renamed /\ renamed \in Nat
      /\ IsFiniteSet(refs)
  BY DEF FlowInv, RefsExact, RefType
<1> HIDE DEF p
<1>2. /\ owedReads[p] \in Nat /\ readCount[p] \in Nat
      /\ readBuf \in Seq(PReg) /\ readNext \in Seq(PReg)
  BY <1>1, CountAssumption DEF FlowInv, IInv, TypeOK
<1>3. /\ Occurs(readBuf, p) \in Nat /\ Occurs(readNext, p) \in Nat
      /\ WaitingReads(p) \in Nat
  BY <1>2, OccursFacts, WaitingType DEF FlowInv, IInv
<1>4. readCount[p] = WaitingReads(p) + owedReads[p] + Occurs(readBuf, p) + Occurs(readNext, p)
  BY <1>1 DEF FlowInv, IInv, CountsConserved
<1>5. CASE r \in Taken
  <2>1. IsFiniteSet(ReadsOf(Taken, p)) /\ r \in ReadsOf(Taken, p)
    <3>1. ReadsOf(Taken, p) \in SUBSET refs
      BY DEF ReadsOf, Taken
    <3> QED
      BY <1>1, <1>5, <3>1, FS_Subset DEF ReadsOf, p
  <2>2. Cardinality(ReadsOf(Taken, p)) # 0
    BY <2>1, FS_EmptySet
  <2>3. owedReads[p] # 0
    BY <1>1, <2>2 DEF FlowInv, RefsExact
  <2> QED
    BY <1>1, <1>2, <1>3, <1>4, <2>3 DEF p
<1>6. CASE r \notin Taken
  <2>1. s2 # <<>> /\ ~ taken /\ r.inst = renamed
    BY <1>1, <1>6 DEF Taken
  <2>2. r \in Operands(renamed, s2[1].src)
    BY <2>1 DEF FlowInv, RefsExact
  <2>3. p \in Range(s2[1].src)
    BY <2>2 DEF Operands, Range, p
  <2>4. s2[1].src \in Seq(PReg)
    BY <2>1 DEF FlowInv, IInv, TypeOK, OutInst
  <2>5. WaitingReads(p) # 0
    BY <2>1, <2>3, <2>4, OccursFacts DEF WaitingReads
  <2> QED
    BY <1>1, <1>2, <1>3, <1>4, <2>5 DEF p
<1> QED
  BY <1>5, <1>6

\* The history only watches: a step with it is a step of the rename stage.
LEMMA FlowStepIsStep == [FlowNext]_flowVars => [Next]_vars
<1> SUFFICES ASSUME [FlowNext]_flowVars
             PROVE  [Next]_vars
  OBVIOUS
<1>1. ASSUME NEW raw \in InProgram, FlowRename(raw)
      PROVE  Next
  <2>1. raw \in Candidates
    BY <1>1 DEF InProgram
  <2> QED
    BY <1>1, <2>1 DEF FlowRename, Next, Tick
<1>7. ASSUME NEW raw \in InProgram, FlowHold(raw)
      PROVE  Next
  <2>1. raw \in Candidates
    BY <1>7 DEF InProgram
  <2> QED
    BY <1>7, <2>1 DEF FlowHold, Next, Tick
<1>2. CASE FlowTickIdle
  BY <1>2 DEF FlowTickIdle, Next, Tick
<1>3. CASE FlowTake
  BY <1>3 DEF FlowTake, Next
<1>4. ASSUME NEW b \in Batches(MaxReads, owedReads), FlowRetireRead(b)
      PROVE  Next
  BY <1>4 DEF FlowRetireRead, Next
<1>5. ASSUME NEW b \in Batches(MaxWrites, owedWrites),
             RetireWrite(b) /\ UNCHANGED history
      PROVE  Next
  BY <1>5 DEF Next
<1>6. CASE UNCHANGED flowVars
  BY <1>6 DEF flowVars
<1> QED
  BY <1>1, <1>2, <1>3, <1>4, <1>5, <1>6, <1>7 DEF FlowNext

\* An instruction that may be renamed is one of the program.
LEMMA InProgramFacts ==
  ASSUME IInv, NEW raw \in InProgram
  PROVE  raw \in Insts /\ raw \in Renamable
<1>1. hold \in Seq(Insts)
  BY DEF IInv, TypeOK
<1>2. raw \in Insts
  BY <1>1 DEF InProgram, Candidates
<1> QED
  BY <1>2 DEF Renamable

\* Nothing is referred to at reset.
LEMMA RefsInit == FlowInit => RefsExact
<1> SUFFICES ASSUME FlowInit
             PROVE  RefsExact
  OBVIOUS
<1>1. renamed = 0 /\ refs = {} /\ s2 = <<>> /\ \A p \in PReg : owedReads[p] = 0
  BY DEF FlowInit, Init
<1>2. \A p : ReadsOf(Taken, p) = {}
  BY <1>1 DEF ReadsOf, Taken
<1> QED
  BY <1>1, <1>2, FS_EmptySet DEF RefsExact

LEMMA FetchedInit == FlowInit => FetchedExact
<1> SUFFICES ASSUME FlowInit
             PROVE  FetchedExact
  OBVIOUS
<1>1. fetched = <<>> /\ renamed = 0 /\ delivered = 0 /\ s2 = <<>> /\ hold = <<>>
  BY DEF FlowInit, Init
<1> QED
  BY <1>1 DEF FetchedExact

\* The references of a renamed instruction wait in the output register.
LEMMA RefsRename ==
  ASSUME FlowInv, NEW raw \in InProgram, FlowRename(raw)
  PROVE  RefsExact'
<1>1. raw \in Renamable
  BY InProgramFacts DEF FlowInv
<1>2. /\ s2 = <<>> /\ s2' = <<Renamed(raw)>> /\ CanRename(raw)
      /\ taken' = FALSE /\ owedReads' = owedReads
      /\ renamed' = renamed + 1
  BY DEF FlowRename, TickRename, Update, backend
<1>3. SourceP(raw) \in Seq(PReg) /\ s2'[1].src = SourceP(raw)
  BY <1>1, <1>2, RenamedFacts DEF FlowInv, Renamed
<1> DEFINE fresh == Operands(renamed + 1, SourceP(raw))
<1>4. refs' = refs \cup fresh
  BY DEF FlowRename, Operands, SourceP
<1>5. /\ renamed \in Nat /\ IsFiniteSet(refs) /\ refs \subseteq RefType
  BY DEF FlowInv, RefsExact
<1>6. IsFiniteSet(fresh)
  BY <1>3, OperandsCounted
<1>7. \A r \in fresh : r.inst = renamed + 1 /\ r.slot \in Nat /\ r.reg \in PReg
                       /\ r = [inst |-> r.inst, slot |-> r.slot, reg |-> r.reg]
  BY <1>3 DEF Operands
<1>8. \A r \in refs : r.inst \in 1 .. renamed
  BY <1>5 DEF RefType
<1> HIDE DEF fresh
<1>9. IsFiniteSet(refs')
  BY <1>4, <1>5, <1>6, FS_Union
<1>10. refs' \subseteq RefType'
  <2>1. \A r \in fresh : r \in [inst : 1 .. renamed', slot : Nat, reg : PReg]
    <3>1. renamed + 1 \in 1 .. renamed'
      BY <1>2, <1>5
    <3> QED
      BY <1>7, <3>1
  <2>2. refs \subseteq [inst : 1 .. renamed', slot : Nat, reg : PReg]
    <3>1. 1 .. renamed \subseteq 1 .. renamed'
      BY <1>2, <1>5
    <3> QED
      BY <1>5, <3>1 DEF RefType
  <2> QED
    BY <1>4, <2>1, <2>2 DEF RefType
<1>11. { r \in refs' : r.inst = renamed' } = Operands(renamed', s2'[1].src)
  <2>1. \A r \in refs : r.inst # renamed'
    BY <1>2, <1>5, <1>8
  <2>2. \A r \in fresh : r.inst = renamed'
    BY <1>2, <1>7
  <2>3. { r \in refs' : r.inst = renamed' } = fresh
    BY <1>4, <2>1, <2>2
  <2> QED
    BY <1>2, <1>3, <2>3 DEF fresh
<1>12. Taken' = Taken
  <2>1. Taken = refs
    BY <1>2 DEF Taken
  <2>2. Taken' = { r \in refs' : r.inst < renamed' }
    BY <1>2 DEF Taken
  <2>3. \A r \in refs : r.inst < renamed'
    BY <1>2, <1>5, <1>8
  <2>4. \A r \in fresh : ~ (r.inst < renamed')
    BY <1>2, <1>5, <1>7
  <2> QED
    BY <1>4, <2>1, <2>2, <2>3, <2>4
<1>13. \A p \in PReg : Cardinality(ReadsOf(Taken', p)) = owedReads'[p]
  BY <1>2, <1>12 DEF FlowInv, RefsExact
<1> QED
  BY <1>2, <1>5, <1>9, <1>10, <1>11, <1>13 DEF RefsExact, ReadsOf

\* A step that leaves the history, the owed reads and the waiting references
\* alone leaves them exact.
LEMMA RefsKept ==
  ASSUME RefsExact, UNCHANGED <<renamed, refs>>, UNCHANGED owedReads,
         Taken' = Taken,
         s2' # <<>> /\ ~ taken' => s2' = s2 /\ ~ taken
  PROVE  RefsExact'
<1>1. renamed' = renamed /\ refs' = refs
  OBVIOUS
<1>2. /\ renamed' \in Nat /\ IsFiniteSet(refs') /\ refs' \subseteq RefType'
  BY <1>1 DEF RefsExact, RefType
<1>3. s2' # <<>> /\ ~ taken' =>
        { r \in refs' : r.inst = renamed' } = Operands(renamed', s2'[1].src)
  BY <1>1 DEF RefsExact
<1>4. \A p \in PReg : Cardinality(ReadsOf(Taken', p)) = owedReads'[p]
  BY DEF RefsExact
<1> QED
  BY <1>2, <1>3, <1>4 DEF RefsExact, ReadsOf

\* A tick that renames nothing moves no reference.
LEMMA RefsTick ==
  ASSUME FlowInv, FlowTickIdle \/ \E raw \in InProgram : FlowHold(raw)
  PROVE  RefsExact'
<1>1. taken' = FALSE /\ owedReads' = owedReads /\ renamed' = renamed /\ refs' = refs
  BY DEF FlowTickIdle, FlowHold, TickOccupied, TickNoInst, TickHold, Update, backend, history
<1>2. \/ s2 # <<>> /\ s2' = IF taken THEN <<>> ELSE s2
      \/ s2 = <<>> /\ s2' = s2
  BY DEF FlowTickIdle, FlowHold, TickOccupied, TickNoInst, TickHold
<1>3. taken \in BOOLEAN
  BY DEF FlowInv, IInv, TypeOK
<1>4. Taken' = Taken
  BY <1>1, <1>2, <1>3 DEF Taken
<1>5. s2' # <<>> /\ ~ taken' => s2' = s2 /\ ~ taken
  BY <1>1, <1>2, <1>3
<1> QED
  BY <1>1, <1>4, <1>5, RefsKept DEF FlowInv

\* The back end owes what waited in the output register.
LEMMA RefsTake ==
  ASSUME FlowInv, FlowTake
  PROVE  RefsExact'
<1>1. /\ s2 # <<>> /\ ~ taken /\ taken' = TRUE /\ s2' = s2
      /\ owedReads' = [p \in PReg |-> owedReads[p] + Occurs(s2[1].src, p)]
      /\ renamed' = renamed /\ refs' = refs
  BY DEF FlowTake, S2GetResult
<1>2. s2[1].src \in Seq(PReg)
  BY <1>1 DEF FlowInv, IInv, TypeOK, OutInst
<1>3. /\ renamed \in Nat /\ IsFiniteSet(refs) /\ refs \subseteq RefType
      /\ { r \in refs : r.inst = renamed } = Operands(renamed, s2[1].src)
  BY <1>1 DEF FlowInv, RefsExact
<1> DEFINE waiting == Operands(renamed, s2[1].src)
<1>4. Taken' = Taken \cup waiting /\ Taken \cap waiting = {} /\ Taken \subseteq refs
  <2>1. Taken = { r \in refs : r.inst < renamed } /\ Taken' = refs
    BY <1>1 DEF Taken
  <2>2. \A r \in refs : r.inst \in 1 .. renamed
    BY <1>3 DEF RefType
  <2>3. waiting = { r \in refs : r.inst = renamed }
    BY <1>3
  <2>4. \A r \in refs : (r.inst < renamed) <=> r.inst # renamed
    BY <1>3, <2>2
  <2> HIDE DEF waiting
  <2> QED
    BY <2>1, <2>3, <2>4
<1>5. ASSUME NEW p \in PReg
      PROVE  Cardinality(ReadsOf(Taken', p)) = owedReads'[p]
  <2>1. /\ IsFiniteSet(ReadsOf(waiting, p))
        /\ Cardinality(ReadsOf(waiting, p)) = Occurs(s2[1].src, p)
    BY <1>2, OperandsCounted
  <2>2. Cardinality(ReadsOf(Taken, p)) = owedReads[p]
    BY DEF FlowInv, RefsExact
  <2>3. IsFiniteSet(ReadsOf(Taken, p))
    <3>1. ReadsOf(Taken, p) \in SUBSET refs
      BY <1>4 DEF ReadsOf
    <3> QED
      BY <1>3, <3>1, FS_Subset
  <2> HIDE DEF waiting
  <2>4. /\ ReadsOf(Taken', p) = ReadsOf(Taken, p) \cup ReadsOf(waiting, p)
        /\ ReadsOf(Taken, p) \cap ReadsOf(waiting, p) = {}
    BY <1>4 DEF ReadsOf
  <2>5. Cardinality(ReadsOf(Taken', p)) =
          Cardinality(ReadsOf(Taken, p)) + Cardinality(ReadsOf(waiting, p))
            - Cardinality(ReadsOf(Taken, p) \cap ReadsOf(waiting, p))
    BY <2>1, <2>3, <2>4, FS_Union
  <2>6. Cardinality(ReadsOf(Taken, p) \cap ReadsOf(waiting, p)) = 0
    BY <2>4, FS_EmptySet
  <2>7. Occurs(s2[1].src, p) \in Nat
    BY <1>2, OccursFacts
  <2>8. owedReads[p] \in Nat
    BY CountAssumption DEF FlowInv, IInv, TypeOK
  <2> QED
    BY <1>1, <2>1, <2>2, <2>5, <2>6, <2>7, <2>8
<1>6. refs' \subseteq RefType'
  BY <1>1, <1>3 DEF RefType
<1> QED
  BY <1>1, <1>3, <1>5, <1>6 DEF RefsExact, ReadsOf

\* What is retired was owed.
LEMMA RefsRetire ==
  ASSUME FlowInv, NEW b \in Batches(MaxReads, owedReads), FlowRetireRead(b)
  PROVE  RefsExact'
<1>1. PICK done \in SUBSET Taken :
        /\ \A p \in PReg : Occurs(b, p) = Cardinality(ReadsOf(done, p))
        /\ refs' = refs \ done
  BY DEF FlowRetireRead, ReadsOf
<1>2. /\ s2' = s2 /\ taken' = taken /\ renamed' = renamed
      /\ owedReads' = [p \in PReg |-> owedReads[p] - Occurs(b, p)]
  BY DEF FlowRetireRead, RetireRead
<1>3. renamed \in Nat /\ IsFiniteSet(refs) /\ refs \subseteq RefType
  BY DEF FlowInv, RefsExact
<1>4. IsFiniteSet(refs') /\ refs' \subseteq RefType'
  <2>1. refs' \in SUBSET refs
    BY <1>1
  <2> QED
    BY <1>2, <1>3, <2>1, FS_Subset DEF RefType
<1>5. Taken' = Taken \ done
  BY <1>1, <1>2 DEF Taken
<1>6. ASSUME s2' # <<>>, ~ taken'
      PROVE  { r \in refs' : r.inst = renamed' } = Operands(renamed', s2'[1].src)
  <2>1. \A r \in done : r.inst < renamed
    BY <1>1, <1>2, <1>6 DEF Taken
  <2>2. \A r \in done : r.inst # renamed
    BY <1>3, <2>1
  <2>3. { r \in refs' : r.inst = renamed } = { r \in refs : r.inst = renamed }
    BY <1>1, <2>2
  <2> QED
    BY <1>2, <1>6, <2>3 DEF FlowInv, RefsExact
<1>7. ASSUME NEW p \in PReg
      PROVE  Cardinality(ReadsOf(Taken', p)) = owedReads'[p]
  <2>1. IsFiniteSet(ReadsOf(Taken, p))
    <3>1. ReadsOf(Taken, p) \in SUBSET refs
      BY DEF ReadsOf, Taken
    <3> QED
      BY <1>3, <3>1, FS_Subset
  <2>2. /\ ReadsOf(Taken', p) = ReadsOf(Taken, p) \ ReadsOf(done, p)
        /\ ReadsOf(Taken, p) \cap ReadsOf(done, p) = ReadsOf(done, p)
    BY <1>1, <1>5 DEF ReadsOf
  <2>3. Cardinality(ReadsOf(Taken', p)) =
          Cardinality(ReadsOf(Taken, p)) - Cardinality(ReadsOf(Taken, p) \cap ReadsOf(done, p))
    BY <2>1, <2>2, FS_Difference
  <2>4. Cardinality(ReadsOf(Taken, p)) = owedReads[p]
    BY DEF FlowInv, RefsExact
  <2> QED
    BY <1>1, <1>2, <2>2, <2>3, <2>4
<1> QED
  BY <1>2, <1>3, <1>4, <1>6, <1>7 DEF RefsExact, ReadsOf

\* Every step keeps the references exact.
LEMMA RefsStep == FlowInv /\ [FlowNext]_flowVars => RefsExact'
<1> SUFFICES ASSUME FlowInv, [FlowNext]_flowVars
             PROVE  RefsExact'
  OBVIOUS
<1>1. ASSUME NEW raw \in InProgram, FlowRename(raw)
      PROVE  RefsExact'
  BY <1>1, RefsRename
<1>2. CASE FlowTickIdle \/ \E raw \in InProgram : FlowHold(raw)
  BY <1>2, RefsTick
<1>3. CASE FlowTake
  BY <1>3, RefsTake
<1>4. ASSUME NEW b \in Batches(MaxReads, owedReads), FlowRetireRead(b)
      PROVE  RefsExact'
  BY <1>4, RefsRetire
<1>5. ASSUME NEW b \in Batches(MaxWrites, owedWrites),
             RetireWrite(b) /\ UNCHANGED history
      PROVE  RefsExact'
  <2>1. s2' = s2 /\ taken' = taken /\ owedReads' = owedReads
        /\ renamed' = renamed /\ refs' = refs
    BY <1>5 DEF RetireWrite, history
  <2>2. Taken' = Taken
    BY <2>1 DEF Taken
  <2> QED
    BY <1>5, <2>1, <2>2, RefsKept DEF FlowInv
<1>6. CASE UNCHANGED flowVars
  <2>1. s2' = s2 /\ taken' = taken /\ owedReads' = owedReads
        /\ renamed' = renamed /\ refs' = refs /\ UNCHANGED history
    BY <1>6 DEF flowVars, vars, pending, backend, history
  <2>2. Taken' = Taken
    BY <2>1 DEF Taken
  <2> QED
    BY <2>1, <2>2, RefsKept DEF FlowInv
<1> QED
  BY <1>1, <1>2, <1>3, <1>4, <1>5, <1>6 DEF FlowNext

LEMMA AppendFacts ==
  ASSUME NEW S, NEW s \in Seq(S), NEW e \in S
  PROVE  /\ Append(s, e) \in Seq(S)
         /\ Len(Append(s, e)) = Len(s) + 1
         /\ Append(s, e)[Len(s) + 1] = e
  OBVIOUS

\* The instruction a tick renames or holds is the next of the program.
LEMMA FetchedNext ==
  ASSUME FlowInv, NEW raw \in InProgram, Fetched(raw)
  PROVE  /\ fetched' \in Seq(Insts) /\ Len(fetched') = renamed + 1
         /\ fetched'[renamed + 1] = raw
         /\ \/ Len(fetched) = renamed /\ fetched' = Append(fetched, raw)
            \/ fetched' = fetched
<1>1. /\ hold \in Seq(Insts) /\ Len(hold) <= 1 /\ renamed \in Nat
      /\ fetched \in Seq(Insts) /\ Len(fetched) = renamed + Len(hold)
  BY DEF FlowInv, IInv, TypeOK, RefsExact, FetchedExact
<1>2. raw \in Insts
  BY InProgramFacts DEF FlowInv
<1>3. CASE hold = <<>>
  <2>1. fetched' = Append(fetched, raw) /\ Len(fetched) = renamed
    BY <1>1, <1>3 DEF Fetched
  <2>2. /\ Append(fetched, raw) \in Seq(Insts)
        /\ Len(Append(fetched, raw)) = renamed + 1
        /\ Append(fetched, raw)[renamed + 1] = raw
    BY <1>1, <1>2, <2>1, AppendFacts
  <2> QED
    BY <2>1, <2>2
<1>4. CASE hold # <<>>
  <2>1. fetched' = fetched
    BY <1>4 DEF Fetched
  <2>2. Len(hold) # 0 /\ Len(hold) \in Nat /\ Len(hold) <= 1
    BY <1>1, <1>4
  <2>3. Len(hold) = 1
    BY <2>2
  <2>4. raw = hold[1]
    BY <1>4 DEF InProgram, Candidates
  <2> QED
    BY <1>1, <1>4, <2>1, <2>3, <2>4 DEF FlowInv, FetchedExact
<1> QED
  BY <1>3, <1>4

\* Every step keeps account of what was fetched and delivered.
LEMMA FetchedStep == FlowInv /\ [FlowNext]_flowVars => FetchedExact'
<1> SUFFICES ASSUME FlowInv, [FlowNext]_flowVars
             PROVE  FetchedExact'
  OBVIOUS
<1>0. /\ hold \in Seq(Insts) /\ Len(hold) <= 1 /\ renamed \in Nat
      /\ taken \in BOOLEAN
  BY DEF FlowInv, IInv, TypeOK, RefsExact
<1>1. ASSUME NEW raw \in InProgram, FlowRename(raw)
      PROVE  FetchedExact'
  <2>1. /\ s2 = <<>> /\ s2' = <<Renamed(raw)>> /\ taken' = FALSE /\ hold' = <<>>
        /\ renamed' = renamed + 1 /\ delivered' = delivered
    BY <1>1 DEF FlowRename, TickRename, Update
  <2>2. fetched' \in Seq(Insts) /\ Len(fetched') = renamed + 1
    BY <1>1, FetchedNext DEF FlowRename
  <2>3. delivered = renamed
    BY <2>1 DEF FlowInv, FetchedExact
  <2> QED
    BY <1>0, <2>1, <2>2, <2>3 DEF FetchedExact
<1>2. ASSUME NEW raw \in InProgram, FlowHold(raw)
      PROVE  FetchedExact'
  <2>1. /\ s2 = <<>> /\ s2' = s2 /\ hold' = <<raw>>
        /\ renamed' = renamed /\ delivered' = delivered
    BY <1>2 DEF FlowHold, TickHold
  <2>2. /\ fetched' \in Seq(Insts) /\ Len(fetched') = renamed + 1
        /\ fetched'[renamed + 1] = raw
    BY <1>2, FetchedNext DEF FlowHold
  <2> QED
    BY <1>0, <2>1, <2>2 DEF FlowInv, FetchedExact
<1>3. CASE FlowTickIdle
  <2>1. /\ taken' = FALSE /\ hold' = hold /\ renamed' = renamed
        /\ fetched' = fetched /\ delivered' = delivered
    BY <1>3 DEF FlowTickIdle, TickOccupied, TickNoInst, Update, history
  <2>2. \/ s2 # <<>> /\ s2' = IF taken THEN <<>> ELSE s2
        \/ s2 = <<>> /\ s2' = s2
    BY <1>3 DEF FlowTickIdle, TickOccupied, TickNoInst
  <2> QED
    BY <1>0, <2>1, <2>2 DEF FlowInv, FetchedExact
<1>4. CASE FlowTake
  <2>1. /\ s2 # <<>> /\ ~ taken /\ taken' = TRUE /\ s2' = s2 /\ hold' = hold
        /\ renamed' = renamed /\ fetched' = fetched /\ delivered' = delivered + 1
    BY <1>4 DEF FlowTake, S2GetResult
  <2> QED
    BY <1>0, <2>1 DEF FlowInv, FetchedExact
<1>5. CASE /\ UNCHANGED <<s2, taken, hold, fetched, renamed, delivered>>
  BY <1>5 DEF FlowInv, FetchedExact
<1>6. ASSUME NEW b \in Batches(MaxReads, owedReads), FlowRetireRead(b)
      PROVE  FetchedExact'
  BY <1>5, <1>6 DEF FlowRetireRead, RetireRead
<1>7. ASSUME NEW b \in Batches(MaxWrites, owedWrites),
             RetireWrite(b) /\ UNCHANGED history
      PROVE  FetchedExact'
  BY <1>5, <1>7 DEF RetireWrite, history
<1>8. CASE UNCHANGED flowVars
  BY <1>5, <1>8 DEF flowVars, vars, pending, history
<1> QED
  BY <1>1, <1>2, <1>3, <1>4, <1>6, <1>7, <1>8 DEF FlowNext

LEMMA FlowInvStep == FlowInv /\ [FlowNext]_flowVars => FlowInv'
  BY FlowStepIsStep, NextStep, RefsStep, FetchedStep DEF FlowInv

\* At reset every register holds what it held before the program.
LEMMA ProgramInit == FlowInit => Program!Init
<1> SUFFICES ASSUME FlowInit
             PROVE  Program!Init
  OBVIOUS
<1>1. VReg \subseteq PReg
  BY SizesAssumption DEF VReg, PReg
<1>2. /\ fetched = <<>> /\ renamed = 0 /\ delivered = 0 /\ refs = {}
      /\ content = [p \in PReg |-> <<0, p>>] /\ vtMap = [v \in VReg |-> v]
  BY DEF FlowInit, Init
<1>3. \A v \in VReg : content[vtMap[v]] = <<0, v>>
  BY <1>1, <1>2
<1> QED
  BY <1>2, <1>3 DEF Program!Init

\* What an instruction is given to write is nobody's to read, neither an
\* outstanding reference nor a source of its own, and no other virtual
\* register is mapped to it.
LEMMA GivenIsUnused ==
  ASSUME FlowInv, NEW raw \in Renamable, CanRename(raw),
         NEW p \in PReg, p \in Range(NewP(raw))
  PROVE  /\ \A r \in refs : r.reg # p
         /\ p \notin Range(SourceP(raw))
         /\ \A v \in VReg : vtMap[v] = p => v \in Range(raw.rd)
<1>1. readCount[p] = 0 /\ p \notin Range(SourceP(raw))
  BY DestinationUnread DEF FlowInv
<1>2. \A r \in refs : r.reg # p
  BY <1>1, ReferredIsCounted
<1>3. ASSUME NEW v \in VReg, vtMap[v] = p
      PROVE  v \in Range(raw.rd)
  <2>1. PICK i \in DOMAIN NewP(raw) : p = NewP(raw)[i]
    BY DEF Range
  <2>2. i \in DOMAIN raw.rd
    BY <2>1, RenamedFacts DEF FlowInv
  <2>3. vtMap \in [VReg -> PReg] /\ raw.rd \in Seq(VReg)
    BY RawFacts DEF FlowInv, IInv, TypeOK
  <2>4. CASE i \in NeedAlloc(raw)
    <3>1. isFree[p]
      BY <2>1, <2>4, RenamedFacts DEF FlowInv
    <3>2. ~ mapped[p]
      BY <3>1 DEF FlowInv, IInv, FreeListExact
    <3>3. mapped[p]
      BY <1>3, <2>3 DEF FlowInv, IInv, MapInjective, Range
    <3> QED
      BY <3>2, <3>3
  <2>5. CASE i \notin NeedAlloc(raw)
    <3>1. p = vtMap[raw.rd[i]]
      BY <2>1, <2>2, <2>5, RenamedFacts DEF FlowInv
    <3>2. raw.rd[i] \in VReg
      BY <2>2, <2>3
    <3>3. v = raw.rd[i]
      BY <1>3, <2>3, <3>1, <3>2 DEF FlowInv, IInv, MapInjective, IsInjective
    <3> QED
      BY <2>2, <3>3 DEF Range
  <2> QED
    BY <2>4, <2>5
<1> QED
  BY <1>1, <1>2, <1>3

\* To rename an instruction is to issue the next of the program: it reads
\* what its sources hold, then its destinations hold what it writes, and no
\* read still to be done sees anything else than before.
LEMMA ProgramIssue ==
  ASSUME FlowInv, NEW raw \in InProgram, FlowRename(raw)
  PROVE  Program!Issue
<1>1. raw \in Insts /\ raw \in Renamable
  BY InProgramFacts DEF FlowInv
<1>2. /\ CanRename(raw) /\ renamed' = renamed + 1
      /\ vtMap' = [v \in VReg |->
           IF \E i \in DOMAIN raw.rd : raw.rd[i] = v
           THEN NewP(raw)[CHOOSE i \in DOMAIN raw.rd : raw.rd[i] = v]
           ELSE vtMap[v]]
  BY DEF FlowRename, TickRename, Update
<1>3. /\ raw.rd \in Seq(VReg) /\ IsInjective(raw.rd)
      /\ Sources(raw) \in Seq(VReg)
      /\ SourceP(raw) \in Seq(PReg)
      /\ NewP(raw) \in Seq(PReg) /\ DOMAIN NewP(raw) = DOMAIN raw.rd
      /\ IsInjective(NewP(raw))
      /\ vtMap \in [VReg -> PReg]
  BY <1>1, <1>2, RawFacts, RenamedFacts DEF FlowInv, IInv, TypeOK
<1> DEFINE n == renamed + 1
           given == Range(NewP(raw))
<1>4. ASSUME NEW p \in PReg, p \notin given
      PROVE  content'[p] = content[p]
  <2>1. ~ \E i \in DOMAIN raw.rd : NewP(raw)[i] = p
    BY <1>3, <1>4 DEF Range
  <2> QED
    BY <2>1 DEF FlowRename
<1>5. ASSUME NEW i \in DOMAIN raw.rd
      PROVE  /\ NewP(raw)[i] \in PReg
             /\ content'[NewP(raw)[i]] = <<n, raw.rd[i]>>
             /\ vtMap'[raw.rd[i]] = NewP(raw)[i]
  <2> DEFINE q == NewP(raw)[i]
             same(j) == NewP(raw)[j] = q
             there == CHOOSE j \in DOMAIN raw.rd : NewP(raw)[j] = q
             here == CHOOSE j \in DOMAIN raw.rd : raw.rd[j] = raw.rd[i]
  <2>1. q \in PReg /\ raw.rd[i] \in VReg
    BY <1>3
  <2>2. there = i
    <3>1. there \in DOMAIN raw.rd /\ NewP(raw)[there] = q
      OBVIOUS
    <3> QED
      BY <1>3, <3>1 DEF IsInjective
  <2>3. here = i
    <3>1. here \in DOMAIN raw.rd /\ raw.rd[here] = raw.rd[i]
      OBVIOUS
    <3> QED
      BY <1>3, <3>1 DEF IsInjective
  <2>4. content'[q] = <<renamed + 1, raw.rd[there]>>
    BY <2>1 DEF FlowRename
  <2>5. vtMap'[raw.rd[i]] = NewP(raw)[here]
    BY <1>2, <2>1
  <2> QED
    BY <2>1, <2>2, <2>3, <2>4, <2>5
<1>6. \A v \in VReg : v \notin Range(raw.rd) => vtMap'[v] = vtMap[v]
  BY <1>2 DEF Range
<1>7. ASSUME NEW v \in VReg
      PROVE  content'[vtMap'[v]] =
               IF \E i \in DOMAIN raw.rd : raw.rd[i] = v
               THEN <<n, v>> ELSE content[vtMap[v]]
  <2>1. CASE \E i \in DOMAIN raw.rd : raw.rd[i] = v
    BY <1>5, <2>1
  <2>2. CASE ~ \E i \in DOMAIN raw.rd : raw.rd[i] = v
    <3>1. v \notin Range(raw.rd)
      BY <2>2 DEF Range
    <3>2. vtMap[v] \in PReg
      BY <1>3
    <3>3. vtMap[v] \notin given
      BY <1>1, <1>2, <3>1, <3>2, GivenIsUnused
    <3> QED
      BY <1>4, <1>6, <2>2, <3>1, <3>2, <3>3
  <2> QED
    BY <2>1, <2>2
<1>8. ASSUME NEW r \in refs
      PROVE  content'[r.reg] = content[r.reg]
  <2>1. r.reg \in PReg
    BY ReferredIsCounted
  <2>2. r.reg \notin given
    BY <1>1, <1>2, <2>1, GivenIsUnused
  <2> QED
    BY <1>4, <2>1, <2>2
<1>9. /\ DOMAIN Sources(raw) = DOMAIN SourceP(raw)
      /\ \A k \in DOMAIN Sources(raw) :
           /\ Sources(raw)[k] \in VReg
           /\ SourceP(raw)[k] = vtMap[Sources(raw)[k]]
  BY <1>3 DEF SourceP
<1>10. ASSUME NEW k \in DOMAIN Sources(raw)
       PROVE  content'[SourceP(raw)[k]] = content[vtMap[Sources(raw)[k]]]
  <2>1. SourceP(raw)[k] \in PReg /\ SourceP(raw)[k] \in Range(SourceP(raw))
    BY <1>3, <1>9 DEF Range
  <2>2. SourceP(raw)[k] \notin given
    BY <1>1, <1>2, <2>1, GivenIsUnused
  <2> QED
    BY <1>4, <1>9, <2>1, <2>2
<1> DEFINE read(r) == [inst |-> r.inst, slot |-> r.slot, value |-> content[r.reg]]
           fresh == { [inst |-> n, slot |-> k, reg |-> SourceP(raw)[k]] :
                        k \in DOMAIN Sources(raw) }
           old == { [inst |-> r.inst, slot |-> r.slot, value |-> content[r.reg]] : r \in refs }
           new == { [inst |-> n, slot |-> k, value |-> content[vtMap[Sources(raw)[k]]]] :
                      k \in DOMAIN Sources(raw) }
           all == { [inst |-> r.inst, slot |-> r.slot, value |-> content'[r.reg]] : r \in refs' }
<1>11. refs' = refs \cup fresh
  BY DEF FlowRename
<1>12. { [inst |-> r.inst, slot |-> r.slot, value |-> content'[r.reg]] : r \in refs } = old
  BY <1>8
<1>13. { [inst |-> r.inst, slot |-> r.slot, value |-> content'[r.reg]] : r \in fresh } = new
  <2> DEFINE seen == { [inst |-> r.inst, slot |-> r.slot, value |-> content'[r.reg]] : r \in fresh }
             ref(k) == [inst |-> n, slot |-> k, reg |-> SourceP(raw)[k]]
             val(k) == [inst |-> n, slot |-> k, value |-> content[vtMap[Sources(raw)[k]]]]
  <2>1. ASSUME NEW k \in DOMAIN Sources(raw)
        PROVE  [inst |-> ref(k).inst, slot |-> ref(k).slot, value |-> content'[ref(k).reg]] = val(k)
    BY <1>10
  <2>2. ASSUME NEW x \in seen
        PROVE  x \in new
    <3>1. PICK r \in fresh :
            x = [inst |-> r.inst, slot |-> r.slot, value |-> content'[r.reg]]
      OBVIOUS
    <3>2. PICK k \in DOMAIN Sources(raw) : r = ref(k)
      OBVIOUS
    <3>3. x = val(k)
      BY <2>1, <3>1, <3>2
    <3> QED
      BY <3>3
  <2>3. ASSUME NEW k \in DOMAIN Sources(raw)
        PROVE  val(k) \in seen
    <3>1. ref(k) \in fresh
      OBVIOUS
    <3> QED
      BY <2>1, <3>1
  <2> QED
    BY <2>2, <2>3
<1>14. all = old \cup new
  <2> HIDE DEF fresh
  <2>1. all = { [inst |-> r.inst, slot |-> r.slot, value |-> content'[r.reg]] : r \in refs }
              \cup { [inst |-> r.inst, slot |-> r.slot, value |-> content'[r.reg]] : r \in fresh }
    BY <1>11
  <2> HIDE DEF all, old, new
  <2> QED
    BY <1>12, <1>13, <2>1
<1>15. new = { [inst |-> n, slot |-> k,
                value |-> [v \in VReg |-> content[vtMap[v]]][Sources(raw)[k]]] :
                 k \in DOMAIN Sources(raw) }
  BY <1>9
<1>16. [v \in VReg |-> content'[vtMap'[v]]] =
         [v \in VReg |->
            IF \E i \in DOMAIN raw.rd : raw.rd[i] = v
            THEN <<n, v>> ELSE [u \in VReg |-> content[vtMap[u]]][v]]
  BY <1>7
<1>17. /\ fetched'[n] = raw /\ n <= Len(fetched') /\ renamed \in Nat
  <2>1. Fetched(raw)
    BY DEF FlowRename
  <2>2. fetched'[renamed + 1] = raw /\ Len(fetched') = renamed + 1 /\ renamed \in Nat
    BY <2>1, FetchedNext DEF FlowInv, RefsExact
  <2> QED
    BY <2>2
<1>18. delivered = renamed
  BY DEF FlowRename, TickRename, FlowInv, FetchedExact
<1> HIDE DEF read, fresh, old, new, all
<1>19. Program!Issue <=>
         /\ delivered = renamed
         /\ n <= Len(fetched')
         /\ renamed' = n
         /\ all = old \cup
              { [inst |-> n, slot |-> k,
                 value |-> [v \in VReg |-> content[vtMap[v]]][Sources(raw)[k]]] :
                  k \in DOMAIN Sources(raw) }
         /\ [v \in VReg |-> content'[vtMap'[v]]] =
              [v \in VReg |->
                 IF \E i \in DOMAIN raw.rd : raw.rd[i] = v
                 THEN <<n, v>> ELSE [u \in VReg |-> content[vtMap[u]]][v]]
  BY <1>17 DEF Program!Issue, Sources, old, all
<1> QED
  BY <1>2, <1>14, <1>15, <1>16, <1>17, <1>18, <1>19

\* The instruction of a tick is fetched when none is held.
LEMMA ProgramFetch ==
  ASSUME FlowInv, NEW raw \in InProgram, Fetched(raw)
  PROVE  Program!Fetch \/ fetched' = fetched
<1>1. raw \in Insts
  BY InProgramFacts DEF FlowInv
<1>2. \/ Len(fetched) = renamed /\ fetched' = Append(fetched, raw)
      \/ fetched' = fetched
  BY FetchedNext
<1> QED
  BY <1>1, <1>2 DEF Program!Fetch

\* A step that renames and retires nothing leaves the program's registers
\* and reads as they are.
LEMMA ProgramKept ==
  ASSUME renamed' = renamed, content' = content, vtMap' = vtMap, refs' = refs
  PROVE  UNCHANGED <<renamed,
                     [v \in VReg |-> content[vtMap[v]]],
                     { [inst |-> r.inst, slot |-> r.slot, value |-> content[r.reg]] :
                         r \in refs }>>
  OBVIOUS

\* A tick that renames nothing leaves the map as it is.
LEMMA MapKept ==
  ASSUME FlowInv, Update(NoInst)
  PROVE  vtMap' = vtMap
<1>1. vtMap \in [VReg -> PReg] /\ DOMAIN NoInst.rd = {}
  BY DEF FlowInv, IInv, TypeOK, NoInst
<1>2. vtMap' = [v \in VReg |-> vtMap[v]]
  BY <1>1 DEF Update
<1> QED
  BY <1>1, <1>2

\* The back end takes the instruction that was renamed last.
LEMMA ProgramDeliver ==
  ASSUME FlowInv, FlowTake
  PROVE  Program!Deliver
<1>1. /\ s2 # <<>> /\ ~ taken /\ vtMap' = vtMap /\ delivered' = delivered + 1
      /\ UNCHANGED <<fetched, renamed, content, refs>>
  BY DEF FlowTake, S2GetResult, tables
<1>2. delivered = renamed - 1 /\ renamed \in Nat
  BY <1>1 DEF FlowInv, FetchedExact, RefsExact
<1>3. delivered < renamed
  BY <1>2
<1> QED
  BY <1>1, <1>3, ProgramKept DEF Program!Deliver

\* A read that is retired is one of an instruction the back end has taken.
LEMMA ProgramDone ==
  ASSUME FlowInv, NEW b \in Batches(MaxReads, owedReads), FlowRetireRead(b)
  PROVE  Program!Done
<1>1. /\ s2' = s2 /\ taken' = taken /\ vtMap' = vtMap
      /\ UNCHANGED <<fetched, renamed, delivered, content>>
  BY DEF FlowRetireRead, RetireRead, tables
<1>2. PICK done \in SUBSET Taken : refs' = refs \ done
  BY DEF FlowRetireRead
<1> DEFINE seen(r) == [inst |-> r.inst, slot |-> r.slot, value |-> content[r.reg]]
           before == { seen(r) : r \in refs }
           after  == { seen(r) : r \in refs' }
<1>3. after \subseteq before
  BY <1>2
<1>4. ASSUME NEW r \in done
      PROVE  r.inst <= delivered
  <2>1. r \in Taken /\ r \in refs
    BY <1>2 DEF Taken
  <2>2. r.inst \in 1 .. renamed /\ renamed \in Nat
    BY <2>1 DEF FlowInv, RefsExact, RefType
  <2>3. r.inst < renamed \/ s2 = <<>> \/ taken
    BY <2>1 DEF Taken
  <2>4. delivered = IF s2 = <<>> \/ taken THEN renamed ELSE renamed - 1
    BY DEF FlowInv, FetchedExact
  <2> QED
    BY <2>2, <2>3, <2>4
<1>5. ASSUME NEW x \in before \ after
      PROVE  x.inst <= delivered
  <2>1. PICK r \in refs : x = seen(r)
    OBVIOUS
  <2>2. r \notin refs'
    BY <1>5, <2>1
  <2>3. r \in done
    BY <1>2, <2>1, <2>2
  <2> QED
    BY <1>4, <2>1, <2>3
<1>6. { [inst |-> r.inst, slot |-> r.slot, value |-> content'[r.reg]] : r \in refs' } = after
  BY <1>1
<1> HIDE DEF before, after
<1>7. Program!Done <=>
        /\ after \subseteq before
        /\ \A x \in before \ after : x.inst <= delivered
        /\ UNCHANGED <<fetched, renamed, delivered, [v \in VReg |-> content[vtMap[v]]]>>
  BY <1>6 DEF Program!Done, before, after
<1> QED
  BY <1>1, <1>3, <1>5, <1>7

\* Every step of the rename stage is one of the program.
LEMMA ProgramStep ==
  FlowInv /\ [FlowNext]_flowVars => [Program!Next]_(Program!dfVars)
<1> SUFFICES ASSUME FlowInv, [FlowNext]_flowVars
             PROVE  [Program!Next]_(Program!dfVars)
  OBVIOUS
<1>1. ASSUME NEW raw \in InProgram, FlowRename(raw)
      PROVE  Program!Next
  <2>1. Fetched(raw) /\ delivered' = delivered
    BY <1>1 DEF FlowRename
  <2>2. Program!Issue
    BY <1>1, ProgramIssue
  <2>3. Program!Fetch \/ fetched' = fetched
    BY <2>1, ProgramFetch
  <2> QED
    BY <2>1, <2>2, <2>3 DEF Program!Next, Program!Advance
<1>2. ASSUME NEW raw \in InProgram, FlowHold(raw)
      PROVE  Program!Next
  <2>1. /\ Fetched(raw) /\ Update(NoInst)
        /\ UNCHANGED <<renamed, delivered, content, refs>>
    BY <1>2 DEF FlowHold, TickHold
  <2>2. Program!Fetch \/ fetched' = fetched
    BY <2>1, ProgramFetch
  <2>3. vtMap' = vtMap
    BY <2>1, MapKept
  <2> QED
    BY <2>1, <2>2, <2>3, ProgramKept DEF Program!Next, Program!Advance
<1>3. CASE FlowTickIdle
  <2>1. Update(NoInst) /\ UNCHANGED history
    BY <1>3 DEF FlowTickIdle, TickOccupied, TickNoInst
  <2>2. vtMap' = vtMap
    BY <2>1, MapKept
  <2> QED
    BY <2>1, <2>2, ProgramKept DEF history, Program!dfVars
<1>4. CASE FlowTake
  BY <1>4, ProgramDeliver DEF Program!Next
<1>5. ASSUME NEW b \in Batches(MaxReads, owedReads), FlowRetireRead(b)
      PROVE  Program!Next
  BY <1>5, ProgramDone DEF Program!Next
<1>6. ASSUME NEW b \in Batches(MaxWrites, owedWrites),
             RetireWrite(b) /\ UNCHANGED history
      PROVE  UNCHANGED Program!dfVars
  BY <1>6, ProgramKept DEF RetireWrite, tables, history, Program!dfVars
<1>7. CASE UNCHANGED flowVars
  BY <1>7, ProgramKept DEF flowVars, vars, tables, history, Program!dfVars
<1> QED
  BY <1>1, <1>2, <1>3, <1>4, <1>5, <1>6, <1>7 DEF FlowNext

\* Renaming implements the sequential program, for every size of the register
\* files and every order of retirement: every instruction that is fetched is
\* renamed once and taken by the back end once, in the order of the fetches,
\* and each read sees the value of the latest earlier writer of its register,
\* however long it is delayed.
THEOREM RenameImplementsProgram == FlowSpec => ImplementsProgram
<1>1. FlowInit => FlowInv
  BY InitStep, RefsInit, FetchedInit DEF FlowInit, FlowInv
<1> QED
  BY <1>1, FlowInvStep, ProgramInit, ProgramStep, PTL
     DEF FlowSpec, ImplementsProgram, Program!Spec
=============================================================================
