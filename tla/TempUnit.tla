------------------------------ MODULE TempUnit ------------------------------
(***************************************************************************)
(* What the element-wise unit and its ACCGET path promise together.  An    *)
(* instruction computes its result from its own operands as they were when *)
(* it was fired, gives it back plane by plane in order, or puts it in a    *)
(* temporary, and retires once.  An ACCGET puts accumulator plus source    *)
(* temporary, both as they were at its start, in its destination and       *)
(* retires once.  One retirement a cycle; no other temporary changes.      *)
(***************************************************************************)
EXTENDS Integers, Sequences

CONSTANTS
  Temp, Chunk, Byte,
  AluInst, Meta,        \* what may be asked for
  Number,               \* numbers of instructions
  Planes(_, _)          \* planes of a source that come from the client

VARIABLES
  inst,    \* instruction in flight: <<>> or <<[inst, n, result, sent]>>
  get,     \* ACCGET in flight: <<>> or <<[meta, value]>>
  temps,   \* temporaries; the destination of something in flight is Unknown
  port,    \* planes and retirements in the last cycle
  sums     \* the accumulators, which somebody else changes

vars == <<inst, get, temps, port>>

Unknown == [c \in Chunk |-> <<"unknown">>]
Zero == <<>>

Init ==
  /\ inst = <<>> /\ get = <<>>
  /\ temps = [t \in Temp |-> [c \in Chunk |-> Zero]]
  /\ port = [wb |-> <<>>, retire |-> <<>>]

Source(i, s, n) ==
  IF i.rs[s].kind = "temp" THEN <<temps[i.rs[s].temp]>>
  ELSE <<[b \in Byte |-> IF <<s, b>> \in Planes(i, s) THEN <<n, s, b>> ELSE Zero]>>

Result(i, n) == << Source(i, 1, n), IF i.binary THEN Source(i, 2, n) ELSE Zero,
                   IF i.masked THEN <<n, 3, 0>> ELSE Zero >>

\* Planes to be given back.
Count(i) == CASE i.rd.kind = "reg"  -> i.rd.bytes
              [] i.rd.kind = "mask" -> 1
              [] OTHER -> 0

Fire(i, n) ==
  /\ inst = <<>>
  /\ inst' = <<[inst |-> i, n |-> n, result |-> Result(i, n), sent |-> 0]>>
  /\ temps' = IF i.rd.kind = "temp" THEN [temps EXCEPT ![i.rd.temp] = Unknown] ELSE temps
  /\ UNCHANGED <<get, port>>

Start(m) ==
  /\ get = <<>>
  /\ get' = <<[meta |-> m, value |-> [c \in Chunk |-> <<sums[m.pacc], temps[m.rs][c]>>]]>>
  /\ temps' = [temps EXCEPT ![m.rd] = Unknown]
  /\ UNCHANGED <<inst, port>>

Plane(x) == [n |-> x.n, byte |-> x.sent, last |-> x.sent + 1 = Count(x.inst),
             data |-> Append(x.result, x.sent)]

\* One more plane, or none.
Delivered == { inst } \cup
  (IF inst # <<>> /\ inst[1].sent < Count(inst[1].inst)
   THEN {<<[inst[1] EXCEPT !.sent = @ + 1]>>} ELSE {})

\* A cycle: perhaps a plane, then perhaps one retirement.
Cycle ==
  \E x \in Delivered :
    \/ /\ inst' = x /\ UNCHANGED <<get, temps>>
       /\ port' = [wb |-> IF x = inst THEN <<>> ELSE <<Plane(inst[1])>>, retire |-> <<>>]
    \/ /\ x # <<>> /\ x[1].sent = Count(x[1].inst)
       /\ inst' = <<>> /\ UNCHANGED get
       /\ temps' = IF x[1].inst.rd.kind = "temp"
                   THEN [temps EXCEPT ![x[1].inst.rd.temp] =
                           [c \in Chunk |-> Append(x[1].result, c)]]
                   ELSE temps
       /\ port' = [wb |-> IF x = inst THEN <<>> ELSE <<Plane(inst[1])>>, retire |-> <<[inst |-> x[1].n]>>]
    \/ /\ get # <<>>
       /\ inst' = x /\ get' = <<>>
       /\ temps' = [temps EXCEPT ![get[1].meta.rd] = get[1].value]
       /\ port' = [wb |-> IF x = inst THEN <<>> ELSE <<Plane(inst[1])>>, retire |-> <<[get |-> get[1].meta.rd]>>]

Next ==
  \/ \E i \in AluInst, n \in Number : Fire(i, n)
  \/ \E m \in Meta : Start(m)
  \/ Cycle

Spec == Init /\ [][Next]_vars
=============================================================================
