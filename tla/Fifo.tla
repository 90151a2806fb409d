--------------------------------- MODULE Fifo ---------------------------------
(***************************************************************************)
(* What a clocked queue promises: requests of a cycle are registered, and  *)
(* take effect together at its end.  A clear empties the queue, otherwise  *)
(* the oldest values leave; the new ones follow what is left, and the      *)
(* window shows the oldest of it.  Of what happens to the values that came *)
(* in the cycle of a clear there are two accounts: ClearKeepsNew says      *)
(* whether they enter the emptied queue or are dropped with the old ones.  *)
(***************************************************************************)
EXTENDS Integers, Sequences

CONSTANTS Depth, EnqWidth, DeqWidth, Value, ClearKeepsNew

VARIABLES
  q,        \* the values in the queue, oldest first
  window,   \* the oldest values, as shown to the consumer
  enq,      \* values registered in this cycle
  pops,     \* removals registered in this cycle
  clear     \* a clear was registered in this cycle

Least(m, n) == IF m < n THEN m ELSE n

Prefix(s) == SubSeq(s, 1, Least(Len(s), DeqWidth))

Batch(n) == UNION { [1 .. k -> Value] : k \in 1 .. n }

Init == q = <<>> /\ window = <<>> /\ enq = <<>> /\ pops = 0 /\ clear = FALSE

Enqueue(batch) ==
  /\ enq = <<>>
  /\ Len(batch) <= Depth - Len(q)
  /\ enq' = batch
  /\ UNCHANGED <<q, window, pops, clear>>

Dequeue(n) ==
  /\ pops = 0
  /\ n <= Len(window)
  /\ pops' = n
  /\ UNCHANGED <<q, window, enq, clear>>

Clear ==
  /\ ~ clear
  /\ clear' = TRUE
  /\ UNCHANGED <<q, window, enq, pops>>

Left == IF clear THEN <<>> ELSE SubSeq(q, pops + 1, Len(q))

Entering == IF clear /\ ~ ClearKeepsNew THEN <<>> ELSE enq

Commit ==
  /\ q' = Left \o Entering
  /\ window' = Prefix(q')
  /\ enq' = <<>> /\ pops' = 0 /\ clear' = FALSE

Next ==
  \/ \E batch \in Batch(EnqWidth) : Enqueue(batch)
  \/ \E n \in 1 .. DeqWidth : Dequeue(n)
  \/ Clear
  \/ Commit

Spec == Init /\ [][Next]_<<q, window, enq, pops, clear>>
=============================================================================
