---------------------------- MODULE MCRenameFlow ----------------------------
(* A small instance of RenameFlow. *)
EXTENDS RenameFlow

I(a, b, d) == [rs1 |-> a, rs2 |-> b, rd |-> d, masks |-> <<>>]

\* A plain writer, an instruction that overwrites one of its sources, and a
\* copy in the other direction.
FlowInsts ==
  { I(<<>>, <<>>, <<0>>),
    I(<<0>>, <<1>>, <<1>>),
    I(<<0, 1>>, <<>>, <<0, 1>>) }
=============================================================================
