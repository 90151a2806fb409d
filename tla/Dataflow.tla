------------------------------ MODULE Dataflow ------------------------------
(***************************************************************************)
(* What register renaming promises to a program: the program executes as   *)
(* if each virtual register were a variable.  Instructions are fetched one *)
(* after the other, at most one ahead of those that are issued; each is    *)
(* issued once, in that order, and delivered to the back end before the    *)
(* next.  When it is issued it reads, for each source register, the value  *)
(* of the latest earlier instruction that writes it, and that value stays  *)
(* readable until the read is done.  Value 0 of register v stands for what *)
(* v holds before the program.                                             *)
(***************************************************************************)
EXTENDS Integers, Sequences

CONSTANTS
  Regs,   \* the registers of the program
  Code    \* the instructions: records with fields rs1, rs2, rd

VARIABLES
  fetched,    \* the program as far as it was fetched
  issued,     \* how many of its instructions were issued
  delivered,  \* how many the back end was given
  writer,     \* register -> <<instruction, register>> whose value it holds
  reads       \* reads not yet done: [inst, slot, value]

dfVars == <<fetched, issued, delivered, writer, reads>>

Init ==
  /\ fetched = <<>>
  /\ issued = 0 /\ delivered = 0
  /\ writer = [v \in Regs |-> <<0, v>>]
  /\ reads = {}

\* An instruction is fetched when none waits to be issued.
Fetch ==
  /\ Len(fetched) = issued
  /\ \E inst \in Code : fetched' = Append(fetched, inst)

\* The next instruction, which may have been fetched just now, fixes what it
\* reads, then becomes the writer of its destination registers.
Issue ==
  LET n    == issued + 1
      inst == fetched'[n]
      src  == inst.rs1 \o inst.rs2
  IN
  /\ delivered = issued
  /\ n <= Len(fetched')
  /\ issued' = n
  /\ reads' = reads \cup
       { [inst |-> n, slot |-> k, value |-> writer[src[k]]] : k \in DOMAIN src }
  /\ writer' = [v \in Regs |->
       IF \E i \in DOMAIN inst.rd : inst.rd[i] = v THEN <<n, v>> ELSE writer[v]]

\* One step of the front end.
Advance ==
  /\ Fetch \/ UNCHANGED fetched
  /\ Issue \/ UNCHANGED <<issued, writer, reads>>
  /\ UNCHANGED delivered

\* The back end is given the instruction that was issued last.
Deliver ==
  /\ delivered < issued
  /\ delivered' = delivered + 1
  /\ UNCHANGED <<fetched, issued, writer, reads>>

\* Some reads of instructions that were delivered are done.
Done ==
  /\ reads' \subseteq reads
  /\ \A r \in reads \ reads' : r.inst <= delivered
  /\ UNCHANGED <<fetched, issued, delivered, writer>>

Next == Advance \/ Deliver \/ Done

Spec == Init /\ [][Next]_dfVars
=============================================================================
