------------------------------ MODULE CacheTable ------------------------------
(***************************************************************************)
(* What a direct-mapped cache promises, after the table with which         *)
(* tools/example/cachetest/TestMain.cpp predicts its answers (model_read,  *)
(* model_refill): in a cycle an address may be asked for and a word be     *)
(* brought; at its end the address that was asked for is looked up, before *)
(* the word goes in, and what was found is answered in the next cycle.     *)
(***************************************************************************)
CONSTANTS Line, Tag, Datum, NoDatum

VARIABLES
  lines,    \* line -> [entry, data]
  asked,    \* the address asked for in this cycle, or <<>>
  brought,  \* the refill of this cycle, [addr, datum], or <<>>
  due,      \* the answer due in this cycle, or <<>>
  answer    \* the answer of the last cycle, or <<>>

tableVars == <<lines, asked, brought, due, answer>>

Addr == [tag : Tag, line : Line]

NoTag == CHOOSE t \in Tag : TRUE

LookUp(addr) ==
  LET line == lines[addr.line]
      hit  == line.entry.valid /\ line.entry.tag = addr.tag
  IN  [hit |-> hit, data |-> IF hit THEN line.data ELSE NoDatum]

Init ==
  /\ lines = [l \in Line |-> [entry |-> [valid |-> FALSE, tag |-> NoTag], data |-> NoDatum]]
  /\ asked = <<>> /\ brought = <<>> /\ due = <<>> /\ answer = <<>>

Read ==
  /\ asked = <<>>
  /\ \E addr \in Addr : asked' = <<addr>>
  /\ UNCHANGED <<lines, brought, due, answer>>

Refill ==
  /\ brought = <<>>
  /\ \E addr \in Addr, datum \in Datum : brought' = <<[addr |-> addr, datum |-> datum]>>
  /\ UNCHANGED <<lines, asked, due, answer>>

Tick ==
  /\ answer' = due
  /\ due' = IF asked = <<>> THEN <<>> ELSE <<LookUp(asked[1])>>
  /\ lines' = IF brought = <<>> THEN lines
              ELSE [lines EXCEPT ![brought[1].addr.line] =
                     [entry |-> [valid |-> TRUE, tag |-> brought[1].addr.tag],
                      data  |-> brought[1].datum]]
  /\ asked' = <<>> /\ brought' = <<>>

Next == Read \/ Refill \/ Tick

Spec == Init /\ [][Next]_tableVars
=============================================================================
