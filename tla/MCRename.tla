------------------------------ MODULE MCRename ------------------------------
(* Small instances of Rename. *)
EXTENDS Rename

V(i) == <<i>>

I(a, b, d) == [rs1 |-> a, rs2 |-> b, rd |-> d, masks |-> <<>>]

\* One register: written in place, read (under a mask), read twice by its
\* own writer.
OneInsts ==
  { I(<<>>, <<>>, V(0)),
    [rs1 |-> V(0), rs2 |-> <<>>, rd |-> <<>>, masks |-> <<1>>],
    I(V(0), V(0), V(0)) }
=============================================================================
