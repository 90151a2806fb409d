----------------------------- MODULE RenameFlow -----------------------------
(***************************************************************************)
(* Rename with the identity of the instructions added as history: what     *)
(* s1FetchInstRaw gave, how many instructions were renamed and how many    *)
(* the back end took, which of them each physical register was last given  *)
(* to, and which read references are outstanding.  A destination register  *)
(* counts as overwritten from the moment it is handed out, the earliest    *)
(* time the back end may write it.                                         *)
(***************************************************************************)
EXTENDS Rename

CONSTANT MaxInsts  \* bound: length of the program

VARIABLES
  fetched,    \* what s1FetchInstRaw gave, in order
  renamed,    \* instructions renamed so far
  delivered,  \* instructions the back end took so far
  content,    \* physical register -> <<instruction, virtual register>>
  refs        \* reads not yet retired: [inst, slot, reg]

history  == <<fetched, renamed, delivered, content, refs>>
flowVars == <<vars, history>>

FlowInit ==
  /\ Init
  /\ fetched = <<>> /\ renamed = 0 /\ delivered = 0
  /\ content = [p \in PReg |-> <<0, p>>]
  /\ refs = {}

\* The source is asked only when nothing is held (lines 229-233).
InProgram == IF hold = <<>> /\ Len(fetched) = MaxInsts THEN {} ELSE Candidates

Fetched(raw) == fetched' = IF hold = <<>> THEN Append(fetched, raw) ELSE fetched

FlowRename(raw) ==
  /\ TickRename(raw)
  /\ Fetched(raw)
  /\ renamed' = renamed + 1
  /\ content' = [p \in PReg |->
       IF \E i \in DOMAIN raw.rd : NewP(raw)[i] = p
       THEN <<renamed + 1,
              raw.rd[CHOOSE i \in DOMAIN raw.rd : NewP(raw)[i] = p]>>
       ELSE content[p]]
  /\ refs' = refs \cup
       { [inst |-> renamed + 1, slot |-> k, reg |-> SourceP(raw)[k]] :
           k \in DOMAIN Sources(raw) }
  /\ UNCHANGED delivered

FlowHold(raw) ==
  /\ TickHold(raw)
  /\ Fetched(raw)
  /\ UNCHANGED <<renamed, delivered, content, refs>>

FlowTickIdle == (TickOccupied \/ TickNoInst) /\ UNCHANGED history

FlowTake ==
  /\ S2GetResult
  /\ delivered' = delivered + 1
  /\ UNCHANGED <<fetched, renamed, content, refs>>

\* References the back end has: all but those of an output not yet taken.
Taken == { r \in refs : r.inst < renamed \/ s2 = <<>> \/ taken }

\* The back end retires a batch, one slot for each reference of a set.
FlowRetireRead(b) ==
  /\ RetireRead(b)
  /\ \E done \in SUBSET Taken :
       /\ \A p \in PReg : Occurs(b, p) = Cardinality({ r \in done : r.reg = p })
       /\ refs' = refs \ done
  /\ UNCHANGED <<fetched, renamed, delivered, content>>

FlowNext ==
  \/ \E raw \in InProgram : FlowRename(raw) \/ FlowHold(raw)
  \/ FlowTickIdle
  \/ FlowTake
  \/ \E b \in Batches(MaxReads, owedReads) : FlowRetireRead(b)
  \/ \E b \in Batches(MaxWrites, owedWrites) :
       RetireWrite(b) /\ UNCHANGED history

FlowSpec == FlowInit /\ [][FlowNext]_flowVars

-----------------------------------------------------------------------------
(***************************************************************************)
(* The rename stage implements the sequential program: a virtual register  *)
(* holds what its physical register was last given to, and a read sees     *)
(* what its physical register holds now, however long it is delayed.       *)
(* Every instruction that was fetched is renamed once and taken by the     *)
(* back end once, in the order in which they were fetched: one that is     *)
(* held is not lost, renamed twice or overtaken (lines 228-233, 376-382),  *)
(* nor is one in the output register renamed over (lines 161, 225).        *)
(***************************************************************************)
Program == INSTANCE Dataflow WITH
  Regs   <- VReg,
  Code   <- Insts,
  issued <- renamed,
  writer <- [v \in VReg |-> content[vtMap[v]]],
  reads  <- { [inst |-> r.inst, slot |-> r.slot, value |-> content[r.reg]] :
                r \in refs }

ImplementsProgram == Program!Spec
=============================================================================
