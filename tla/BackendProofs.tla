---------------------------- MODULE BackendProofs ----------------------------
(***************************************************************************)
(* Proofs about the out-of-order backend, for any widths, depths, numbers  *)
(* of registers, tags and lanes, and any programs.  A cycle of the core is *)
(* several loops over a copy of its registers; each step of a loop keeps   *)
(* the invariant, and so does the loop.  The first part is about the core  *)
(* alone (BackendInv), the second also about its lanes (OrderInv), the     *)
(* last says that the lanes lose nothing (PlacesInv).  What they compute  *)
(* is the matter of InOrderProofs.                                         *)
(***************************************************************************)
EXTENDS Backend, RanksProofs

-----------------------------------------------------------------------------
(* The loops.  Iterated is a recursive function, so it has to be shown     *)
(* that there is one; it is shown once, for all the steps.                 *)

Step(kind, x, i) ==
  CASE kind.loop = "drain"     -> DrainPort(x, i)
    [] kind.loop = "writeback" -> WritebackOf(x, i)
    [] kind.loop = "commit"    -> CommitOne(x, i)
    [] kind.loop = "dispatch"  -> DispatchOne(x, i)
    [] kind.loop = "choose"    -> Offered(kind.with, x, i)
    [] kind.loop = "feed"      -> FeedPort(x, i, kind.with)
    [] kind.loop = "visit"     -> Lsu!Visit(x, i, kind.with)
    [] kind.loop = "serve"     -> ServeLane(x, i, kind.with, kind.taken)
    [] kind.loop = "inorder"   -> Toy!Apply(x, kind.code[kind.from + i])

\* There is a sequence of what the step makes of c.
HasRun(kind, c, n) ==
  \E V : \E run \in [0 .. n -> V] :
    run[0] = c /\ \A i \in 1 .. n : run[i] = Step(kind, run[i - 1], i)

\* Whatever the step, there is a sequence of what it makes of c.
LEMMA LoopRuns ==
  ASSUME NEW kind, NEW c, NEW n \in Nat
  PROVE  HasRun(kind, c, n)
<1> DEFINE Runs(k) ==
      \E run : run = [i \in 0 .. k |-> IF i = 0 THEN c ELSE Step(kind, run[i - 1], i)]
           Good == { k \in 0 .. n : Runs(k) }
<1>1. Runs(0)
  <2> DEFINE run == [i \in 0 .. 0 |-> c]
  <2>1. run = [i \in 0 .. 0 |-> IF i = 0 THEN c ELSE Step(kind, run[i - 1], i)]
    OBVIOUS
  <2> QED
    BY <2>1
<1>2. ASSUME NEW k \in 1 .. n, Runs(k - 1)
      PROVE  Runs(k)
  <2>1. PICK old : old = [i \in 0 .. k - 1 |-> IF i = 0 THEN c ELSE Step(kind, old[i - 1], i)]
    BY <1>2
  <2> DEFINE last == Step(kind, old[k - 1], k)
             run  == [i \in 0 .. k |-> IF i = k THEN last ELSE old[i]]
  <2> HIDE DEF last
  <2>2. \A i \in 0 .. k - 1 : run[i] = old[i]
    OBVIOUS
  <2>3. run[k] = last
    OBVIOUS
  <2>4. DOMAIN run = 0 .. k /\ run = [i \in 0 .. k |-> run[i]]
    OBVIOUS
  <2> HIDE DEF run
  <2>5. run[0] = c
    BY <2>1, <2>2
  <2>6. ASSUME NEW i \in 1 .. k
        PROVE  run[i] = Step(kind, run[i - 1], i)
    <3>1. run[i - 1] = old[i - 1]
      BY <2>2
    <3>2. CASE i = k
      BY <2>3, <3>1, <3>2 DEF last
    <3>3. CASE i # k
      <4>1. i \in 0 .. k - 1 /\ i # 0
        BY <3>3
      <4>2. old[i] = Step(kind, old[i - 1], i)
        BY <2>1, <4>1
      <4> QED
        BY <2>2, <3>1, <4>1, <4>2
    <3> QED
      BY <3>2, <3>3
  <2>7. \A i \in 0 .. k : run[i] = IF i = 0 THEN c ELSE Step(kind, run[i - 1], i)
    BY <2>5, <2>6
  <2>8. run = [i \in 0 .. k |-> IF i = 0 THEN c ELSE Step(kind, run[i - 1], i)]
    BY <2>4, <2>7
  <2> QED
    BY <2>8
<1> HIDE DEF Runs
<1>3. 0 \in Good /\ \A i \in 1 .. n : i - 1 \in Good => i \in Good
  BY <1>1, <1>2
<1>4. Good = 0 .. n
  <2> HIDE DEF Good
  <2> QED
    BY <1>3, PassedOn DEF Good
<1>5. Runs(n)
  BY <1>4
<1>6. PICK run : run = [i \in 0 .. n |-> IF i = 0 THEN c ELSE Step(kind, run[i - 1], i)]
  BY <1>5 DEF Runs
<1>7. run \in [0 .. n -> { run[i] : i \in 0 .. n }] /\ run[0] = c
  BY <1>6
<1>8. \A i \in 1 .. n : run[i] = Step(kind, run[i - 1], i)
  BY <1>6
<1> QED
  BY <1>7, <1>8 DEF HasRun

\* What draining the ports goes through.
LEMMA DrainedRun ==
  ASSUME NEW ports, NEW ring
  PROVE  \E run :
           /\ run[0] = [ring |-> ring, ports |-> ports] /\ Drained(ports, ring) = run[INGRESS_WIDTH]
           /\ \A i \in 1 .. INGRESS_WIDTH : run[i] = DrainPort(run[i - 1], i)
<1> DEFINE n == INGRESS_WIDTH
           Is(f) == f = [i \in 0 .. n |-> IF i = 0 THEN [ring |-> ring, ports |-> ports] ELSE DrainPort(f[i - 1], i)]
           run == CHOOSE f : Is(f)
<1>1. n \in Nat
  BY SizesAssumption
<1>2. Drained(ports, ring) = run[n]
  BY DEF Drained, Iterated
<1> HIDE DEF n
<1>3. PICK kind, init : kind = [loop |-> "drain"] /\ init = [ring |-> ring, ports |-> ports]
  OBVIOUS
<1>4. HasRun(kind, init, n)
  BY <1>1, LoopRuns
<1>5. PICK V : \E f \in [0 .. n -> V] : f[0] = init /\ \A i \in 1 .. n : f[i] = Step(kind, f[i - 1], i)
  BY <1>4 DEF HasRun
<1>6. PICK f \in [0 .. n -> V] : f[0] = init /\ \A i \in 1 .. n : f[i] = Step(kind, f[i - 1], i)
  BY <1>5
<1>7. \A x, i : Step(kind, x, i) = DrainPort(x, i)
  BY <1>3 DEF Step
<1>8. Is(f)
  BY <1>1, <1>3, <1>6, <1>7
<1> HIDE DEF Is
<1>9. Is(run)
  BY <1>8
<1> HIDE DEF run
<1>10. run[0] = [ring |-> ring, ports |-> ports] /\ \A i \in 1 .. n : run[i] = DrainPort(run[i - 1], i)
  BY <1>1, <1>9 DEF Is
<1> QED
  BY <1>2, <1>10 DEF n

\* What the write-backs of a cycle go through.
LEMMA WrittenBackRun ==
  ASSUME NEW c
  PROVE  \E run :
           /\ run[0] = c /\ WrittenBack(c) = run[ALU_LANES + LSU_LANES]
           /\ \A i \in 1 .. (ALU_LANES + LSU_LANES) : run[i] = WritebackOf(run[i - 1], i)
<1> DEFINE n == ALU_LANES + LSU_LANES
           Is(f) == f = [i \in 0 .. n |-> IF i = 0 THEN c ELSE WritebackOf(f[i - 1], i)]
           run == CHOOSE f : Is(f)
<1>1. n \in Nat
  BY SizesAssumption
<1>2. WrittenBack(c) = run[n]
  BY DEF WrittenBack, Iterated
<1> HIDE DEF n
<1>3. PICK kind, init : kind = [loop |-> "writeback"] /\ init = c
  OBVIOUS
<1>4. HasRun(kind, init, n)
  BY <1>1, LoopRuns
<1>5. PICK V : \E f \in [0 .. n -> V] : f[0] = init /\ \A i \in 1 .. n : f[i] = Step(kind, f[i - 1], i)
  BY <1>4 DEF HasRun
<1>6. PICK f \in [0 .. n -> V] : f[0] = init /\ \A i \in 1 .. n : f[i] = Step(kind, f[i - 1], i)
  BY <1>5
<1>7. \A x, i : Step(kind, x, i) = WritebackOf(x, i)
  BY <1>3 DEF Step
<1>8. Is(f)
  BY <1>1, <1>3, <1>6, <1>7
<1> HIDE DEF Is
<1>9. Is(run)
  BY <1>8
<1> HIDE DEF run
<1>10. run[0] = c /\ \A i \in 1 .. n : run[i] = WritebackOf(run[i - 1], i)
  BY <1>1, <1>9 DEF Is
<1> QED
  BY <1>2, <1>10 DEF n

\* What the commits of a cycle go through.
LEMMA CommittedRun ==
  ASSUME NEW c
  PROVE  \E run :
           /\ run[0] = c /\ Committed(c) = run[COMMIT_WIDTH]
           /\ \A i \in 1 .. COMMIT_WIDTH : run[i] = CommitOne(run[i - 1], i)
<1> DEFINE n == COMMIT_WIDTH
           Is(f) == f = [i \in 0 .. n |-> IF i = 0 THEN c ELSE CommitOne(f[i - 1], i)]
           run == CHOOSE f : Is(f)
<1>1. n \in Nat
  BY SizesAssumption
<1>2. Committed(c) = run[n]
  BY DEF Committed, Iterated
<1> HIDE DEF n
<1>3. PICK kind, init : kind = [loop |-> "commit"] /\ init = c
  OBVIOUS
<1>4. HasRun(kind, init, n)
  BY <1>1, LoopRuns
<1>5. PICK V : \E f \in [0 .. n -> V] : f[0] = init /\ \A i \in 1 .. n : f[i] = Step(kind, f[i - 1], i)
  BY <1>4 DEF HasRun
<1>6. PICK f \in [0 .. n -> V] : f[0] = init /\ \A i \in 1 .. n : f[i] = Step(kind, f[i - 1], i)
  BY <1>5
<1>7. \A x, i : Step(kind, x, i) = CommitOne(x, i)
  BY <1>3 DEF Step
<1>8. Is(f)
  BY <1>1, <1>3, <1>6, <1>7
<1> HIDE DEF Is
<1>9. Is(run)
  BY <1>8
<1> HIDE DEF run
<1>10. run[0] = c /\ \A i \in 1 .. n : run[i] = CommitOne(run[i - 1], i)
  BY <1>1, <1>9 DEF Is
<1> QED
  BY <1>2, <1>10 DEF n

\* What the dispatches of a cycle go through.
LEMMA DispatchedRun ==
  ASSUME NEW c, DispatchLimit(c) \in Nat
  PROVE  \E run :
           /\ run[0] = c /\ Dispatched(c) = run[DispatchLimit(c)]
           /\ \A i \in 1 .. DispatchLimit(c) : run[i] = DispatchOne(run[i - 1], i)
<1> DEFINE n == DispatchLimit(c)
           Is(f) == f = [i \in 0 .. n |-> IF i = 0 THEN c ELSE DispatchOne(f[i - 1], i)]
           run == CHOOSE f : Is(f)
<1>1. n \in Nat
  BY SizesAssumption
<1>2. Dispatched(c) = run[n]
  BY DEF Dispatched, Iterated
<1> HIDE DEF n
<1>3. PICK kind, init : kind = [loop |-> "dispatch"] /\ init = c
  OBVIOUS
<1>4. HasRun(kind, init, n)
  BY <1>1, LoopRuns
<1>5. PICK V : \E f \in [0 .. n -> V] : f[0] = init /\ \A i \in 1 .. n : f[i] = Step(kind, f[i - 1], i)
  BY <1>4 DEF HasRun
<1>6. PICK f \in [0 .. n -> V] : f[0] = init /\ \A i \in 1 .. n : f[i] = Step(kind, f[i - 1], i)
  BY <1>5
<1>7. \A x, i : Step(kind, x, i) = DispatchOne(x, i)
  BY <1>3 DEF Step
<1>8. Is(f)
  BY <1>1, <1>3, <1>6, <1>7
<1> HIDE DEF Is
<1>9. Is(run)
  BY <1>8
<1> HIDE DEF run
<1>10. run[0] = c /\ \A i \in 1 .. n : run[i] = DispatchOne(run[i - 1], i)
  BY <1>1, <1>9 DEF Is
<1> QED
  BY <1>2, <1>10 DEF n

\* What the choice for the lanes goes through.
LEMMA ChosenRun ==
  ASSUME NEW c
  PROVE  \E run :
           /\ run[0] = [l \in AluLanes \cup LsuLanes |-> 0] /\ Chosen(c) = run[IQ_SIZE]
           /\ \A i \in 1 .. IQ_SIZE : run[i] = Offered(c, run[i - 1], i)
<1> DEFINE n == IQ_SIZE
           Is(f) == f = [i \in 0 .. n |-> IF i = 0 THEN [l \in AluLanes \cup LsuLanes |-> 0] ELSE Offered(c, f[i - 1], i)]
           run == CHOOSE f : Is(f)
<1>1. n \in Nat
  BY SizesAssumption
<1>2. Chosen(c) = run[n]
  BY DEF Chosen, Iterated
<1> HIDE DEF n
<1>3. PICK kind, init : kind = [loop |-> "choose", with |-> c] /\ init = [l \in AluLanes \cup LsuLanes |-> 0]
  OBVIOUS
<1>4. HasRun(kind, init, n)
  BY <1>1, LoopRuns
<1>5. PICK V : \E f \in [0 .. n -> V] : f[0] = init /\ \A i \in 1 .. n : f[i] = Step(kind, f[i - 1], i)
  BY <1>4 DEF HasRun
<1>6. PICK f \in [0 .. n -> V] : f[0] = init /\ \A i \in 1 .. n : f[i] = Step(kind, f[i - 1], i)
  BY <1>5
<1>7. \A x, i : Step(kind, x, i) = Offered(c, x, i)
  BY <1>3 DEF Step
<1>8. Is(f)
  BY <1>1, <1>3, <1>6, <1>7
<1> HIDE DEF Is
<1>9. Is(run)
  BY <1>8
<1> HIDE DEF run
<1>10. run[0] = [l \in AluLanes \cup LsuLanes |-> 0] /\ \A i \in 1 .. n : run[i] = Offered(c, run[i - 1], i)
  BY <1>1, <1>9 DEF Is
<1> QED
  BY <1>2, <1>10 DEF n

\* What feeding the ports goes through.
LEMMA FedRun ==
  ASSUME NEW m, NEW ports
  PROVE  \E run :
           /\ run[0] = [fed |-> fed, ports |-> ports] /\ Fed(m, ports) = run[INGRESS_WIDTH]
           /\ \A i \in 1 .. INGRESS_WIDTH : run[i] = FeedPort(run[i - 1], i, m)
<1> DEFINE n == INGRESS_WIDTH
           Is(f) == f = [i \in 0 .. n |-> IF i = 0 THEN [fed |-> fed, ports |-> ports] ELSE FeedPort(f[i - 1], i, m)]
           run == CHOOSE f : Is(f)
<1>1. n \in Nat
  BY SizesAssumption
<1>2. Fed(m, ports) = run[n]
  BY DEF Fed, Iterated
<1> HIDE DEF n
<1>3. PICK kind, init : kind = [loop |-> "feed", with |-> m] /\ init = [fed |-> fed, ports |-> ports]
  OBVIOUS
<1>4. HasRun(kind, init, n)
  BY <1>1, LoopRuns
<1>5. PICK V : \E f \in [0 .. n -> V] : f[0] = init /\ \A i \in 1 .. n : f[i] = Step(kind, f[i - 1], i)
  BY <1>4 DEF HasRun
<1>6. PICK f \in [0 .. n -> V] : f[0] = init /\ \A i \in 1 .. n : f[i] = Step(kind, f[i - 1], i)
  BY <1>5
<1>7. \A x, i : Step(kind, x, i) = FeedPort(x, i, m)
  BY <1>3 DEF Step
<1>8. Is(f)
  BY <1>1, <1>3, <1>6, <1>7
<1> HIDE DEF Is
<1>9. Is(run)
  BY <1>8
<1> HIDE DEF run
<1>10. run[0] = [fed |-> fed, ports |-> ports] /\ \A i \in 1 .. n : run[i] = FeedPort(run[i - 1], i, m)
  BY <1>1, <1>9 DEF Is
<1> QED
  BY <1>2, <1>10 DEF n

-----------------------------------------------------------------------------
(* The invariant: the shape of the registers, the ring of the reorder      *)
(* buffer, the counter of the issue queue, and the renaming tags.          *)

Regs  == 1 .. ARCH_REGS - 1
Slots == 0 .. ROB_SIZE - 1

CoreFields == {"ingress", "map", "ready", "value", "free", "rob", "head", "tail", "count",
               "iq", "iqCount", "seq", "committed", "halted"}

\* What every step relies on.
Shape(c) ==
  /\ DOMAIN c = CoreFields
  /\ c.ingress \in Seq(Instr) /\ c.free \in Seq(Tags)
  /\ c.map \in [0 .. ARCH_REGS - 1 -> Tags]
  /\ DOMAIN c.rob = Slots /\ DOMAIN c.iq = 1 .. IQ_SIZE
  /\ \A i \in Slots : "valid" \in DOMAIN c.rob[i]
  /\ \A i \in Slots : c.rob[i].valid => {"hasDest", "old", "seq", "ready"} \subseteq DOMAIN c.rob[i]
  /\ \A i \in 1 .. IQ_SIZE : "valid" \in DOMAIN c.iq[i]
  /\ c.committed \in Nat

\* How far a slot of the reorder buffer is from its head.
Dist(head, i) == IF i >= head THEN i - head ELSE i - head + ROB_SIZE

\* The position a number of slots ahead.
Ahead(head, k) == IF head + k < ROB_SIZE THEN head + k ELSE head + k - ROB_SIZE

\* The reorder buffer holds the instructions from the oldest that is not
\* committed to the last that is dispatched, in consecutive slots.
RingInv(c) ==
  /\ c.head \in Slots /\ c.count \in 0 .. ROB_SIZE
  /\ c.tail = Ahead(c.head, c.count)
  /\ c.seq = c.committed + c.count + 1
  /\ \A i \in Slots : c.rob[i].valid <=> Dist(c.head, i) < c.count
  /\ \A i \in Slots : c.rob[i].valid => c.rob[i].seq = c.committed + 1 + Dist(c.head, i)

\* The valid entries of the issue queue.
Queued(c) == { i \in 1 .. IQ_SIZE : c.iq[i].valid }

\* The counter counts them, and no two are the same instruction.
QueueInv(c) ==
  /\ c.iqCount = Cardinality(Queued(c))
  /\ \A i \in Queued(c) : "seq" \in DOMAIN c.iq[i] /\ c.iq[i].seq \in Nat /\ c.iq[i].seq < c.seq
  /\ \A i, j \in Queued(c) : c.iq[i].seq = c.iq[j].seq => i = j

\* The slots that keep the tag their instruction replaced.
Kept(c) == { i \in Slots : c.rob[i].valid /\ c.rob[i].hasDest }

\* Tags that are free, mapped and kept: no tag twice, and none missing.
Sharing(free, map, kept, old) ==
  /\ \A a \in 1 .. Len(free) : free[a] \in Tags \ {0}
  /\ \A r \in Regs : map[r] \in Tags \ {0}
  /\ \A i \in kept : old[i] \in Tags \ {0}
  /\ \A a, b \in 1 .. Len(free) : free[a] = free[b] => a = b
  /\ \A q, r \in Regs : map[q] = map[r] => q = r
  /\ \A i, j \in kept : old[i] = old[j] => i = j
  /\ \A a \in 1 .. Len(free), r \in Regs : free[a] # map[r]
  /\ \A a \in 1 .. Len(free), i \in kept : free[a] # old[i]
  /\ \A r \in Regs, i \in kept : map[r] # old[i]
  /\ \A t \in Tags \ {0} :
       \/ \E a \in 1 .. Len(free) : free[a] = t
       \/ \E r \in Regs : map[r] = t
       \/ \E i \in kept : old[i] = t

Olds(c) == [i \in Slots |-> c.rob[i].old]

TagsInv(c) == Sharing(c.free, c.map, Kept(c), Olds(c))

CoreInv(c) == Shape(c) /\ RingInv(c) /\ QueueInv(c) /\ TagsInv(c)

-----------------------------------------------------------------------------
(* What a step does to the tags and the ring.                              *)

\* Only the slots that keep a tag matter.
LEMMA SameKept ==
  ASSUME NEW free, NEW map, NEW kept, NEW old, NEW old2,
         Sharing(free, map, kept, old), \A i \in kept : old2[i] = old[i]
  PROVE  Sharing(free, map, kept, old2)
BY DEF Sharing

\* A tag that was kept becomes free.
LEMMA Freed ==
  ASSUME NEW free \in Seq(Tags), NEW map, NEW kept, NEW old, NEW h \in kept,
         Sharing(free, map, kept, old)
  PROVE  Append(free, old[h]) \in Seq(Tags)
         /\ Sharing(Append(free, old[h]), map, kept \ {h}, old)
<1> DEFINE f == Append(free, old[h])
           n == Len(free)
<1>1. old[h] \in Tags \ {0}
  BY DEF Sharing
<1>2. n \in Nat /\ f \in Seq(Tags) /\ Len(f) = n + 1 /\ f[n + 1] = old[h] /\ \A a \in 1 .. n : f[a] = free[a]
  BY <1>1
<1> HIDE DEF f, n
<1>3. \A a \in 1 .. Len(f) : a = n + 1 \/ a \in 1 .. n
  BY <1>2
<1>4. \A a \in 1 .. n : free[a] \in Tags \ {0} /\ free[a] # old[h] /\ a \in 1 .. n + 1
  BY <1>2 DEF Sharing, n
<1>5. \A a \in 1 .. Len(f) : f[a] \in Tags \ {0}
  BY <1>1, <1>2, <1>3, <1>4
<1>6. \A a, b \in 1 .. Len(f) : f[a] = f[b] => a = b
  BY <1>2, <1>3, <1>4 DEF Sharing, n
<1>7. \A a \in 1 .. Len(f), r \in Regs : f[a] # map[r]
  BY <1>2, <1>3 DEF Sharing, n
<1>8. \A a \in 1 .. Len(f), i \in kept \ {h} : f[a] # old[i]
  BY <1>2, <1>3 DEF Sharing, n
<1>9. ASSUME NEW t \in Tags \ {0}
      PROVE  \/ \E a \in 1 .. Len(f) : f[a] = t
             \/ \E r \in Regs : map[r] = t
             \/ \E i \in kept \ {h} : old[i] = t
  <2>1. CASE \E a \in 1 .. n : free[a] = t
    BY <1>2, <1>4, <2>1
  <2>2. CASE t = old[h]
    <3>1. n + 1 \in 1 .. Len(f)
      BY <1>2
    <3> QED
      BY <1>2, <2>2, <3>1
  <2> QED
    BY <2>1, <2>2 DEF Sharing, n
<1>10. Sharing(f, map, kept \ {h}, old)
  BY <1>5, <1>6, <1>7, <1>8, <1>9 DEF Sharing
<1> QED
  BY <1>2, <1>10 DEF f

\* Register r is mapped to the first free tag, and the slot t keeps the tag
\* it was mapped to.
Renames(free, map, kept, old, r, t, map2, old2) ==
  /\ free \in Seq(Tags) /\ free # <<>>
  /\ map \in [0 .. ARCH_REGS - 1 -> Tags] /\ r \in Regs /\ map2 = [map EXCEPT ![r] = Head(free)]
  /\ t \notin kept /\ old2[t] = map[r] /\ \A i \in kept : old2[i] = old[i]

\* The first free tag goes to the map, and the one it replaces is kept.
LEMMA Renamed ==
  ASSUME NEW free, NEW map, NEW kept, NEW old, NEW r, NEW t, NEW map2, NEW old2,
         Renames(free, map, kept, old, r, t, map2, old2), Sharing(free, map, kept, old)
  PROVE  /\ Tail(free) \in Seq(Tags) /\ map2 \in [0 .. ARCH_REGS - 1 -> Tags]
         /\ Sharing(Tail(free), map2, kept \cup {t}, old2)
<1>0. /\ free \in Seq(Tags) /\ free # <<>>
      /\ map \in [0 .. ARCH_REGS - 1 -> Tags] /\ r \in Regs /\ map2 = [map EXCEPT ![r] = Head(free)]
      /\ t \notin kept /\ old2[t] = map[r] /\ \A i \in kept : old2[i] = old[i]
  BY DEF Renames
<1> DEFINE f == Tail(free)
           n == Len(free)
<1>1. n \in Nat /\ n >= 1 /\ Head(free) = free[1] /\ f \in Seq(Tags) /\ Len(f) = n - 1
      /\ \A a \in 1 .. n - 1 : f[a] = free[a + 1]
  BY <1>0, TailFacts
<1>2. Regs \subseteq 0 .. ARCH_REGS - 1
  BY SizesAssumption DEF Regs
<1>3. map2[r] = free[1] /\ \A q \in Regs : q # r => map2[q] = map[q]
  BY <1>0, <1>1, <1>2
<1>4. free[1] \in Tags \ {0} /\ 1 \in 1 .. n
  BY <1>1 DEF Sharing, n
<1>5. map2 \in [0 .. ARCH_REGS - 1 -> Tags]
  BY <1>0, <1>1, <1>2, <1>4
<1> HIDE DEF f, n
<1>6. \A a \in 1 .. Len(f) : a + 1 \in 1 .. n /\ a + 1 # 1 /\ f[a] = free[a + 1]
  BY <1>1
<1>7. \A a \in 1 .. n : a = 1 \/ (a - 1 \in 1 .. Len(f) /\ f[a - 1] = free[a])
  BY <1>1
<1>8. \A a \in 1 .. Len(f) : f[a] \in Tags \ {0}
  BY <1>6 DEF Sharing, n
<1>9. \A q \in Regs : map2[q] \in Tags \ {0}
  BY <1>0, <1>3, <1>4 DEF Sharing
<1>10. \A i \in kept \cup {t} : old2[i] \in Tags \ {0}
  BY <1>0 DEF Sharing
<1>11. \A a, b \in 1 .. Len(f) : f[a] = f[b] => a = b
  <2> SUFFICES ASSUME NEW a \in 1 .. Len(f), NEW b \in 1 .. Len(f), f[a] = f[b]
               PROVE  a = b
    OBVIOUS
  <2>1. a + 1 = b + 1
    BY <1>6 DEF Sharing, n
  <2> QED
    BY <2>1
<1>12. \A q \in Regs : q # r => map[q] # free[1] /\ map[q] # map[r]
  BY <1>0, <1>4 DEF Sharing, n
<1>13. \A p, q \in Regs : map2[p] = map2[q] => p = q
  BY <1>0, <1>3, <1>12 DEF Sharing
<1>14. \A i \in kept : old[i] # free[1] /\ old[i] # map[r]
  BY <1>0, <1>4 DEF Sharing, n
<1>15. \A i, j \in kept \cup {t} : old2[i] = old2[j] => i = j
  BY <1>0, <1>14 DEF Sharing
<1>16. \A a \in 1 .. Len(f) : f[a] # free[1] /\ f[a] # map[r]
  BY <1>0, <1>4, <1>6 DEF Sharing, n
<1>17. \A a \in 1 .. Len(f), q \in Regs : f[a] # map2[q]
  BY <1>0, <1>3, <1>6, <1>16 DEF Sharing, n
<1>18. \A a \in 1 .. Len(f), i \in kept \cup {t} : f[a] # old2[i]
  BY <1>0, <1>6, <1>16 DEF Sharing, n
<1>19. map[r] # free[1]
  BY <1>0, <1>4 DEF Sharing, n
<1>20. \A q \in Regs, i \in kept \cup {t} : map2[q] # old2[i]
  BY <1>0, <1>3, <1>12, <1>14, <1>19 DEF Sharing
<1>21. ASSUME NEW u \in Tags \ {0}
       PROVE  \/ \E a \in 1 .. Len(f) : f[a] = u
              \/ \E q \in Regs : map2[q] = u
              \/ \E i \in kept \cup {t} : old2[i] = u
  <2>1. CASE \E a \in 1 .. n : free[a] = u
    BY <1>0, <1>3, <1>7, <2>1
  <2>2. CASE \E q \in Regs : map[q] = u
    BY <1>0, <1>3, <2>2
  <2>3. CASE \E i \in kept : old[i] = u
    BY <1>0, <2>3
  <2> QED
    BY <2>1, <2>2, <2>3 DEF Sharing, n
<1>22. Sharing(f, map2, kept \cup {t}, old2)
  BY <1>8, <1>9, <1>10, <1>11, <1>13, <1>15, <1>17, <1>18, <1>20, <1>21 DEF Sharing
<1> QED
  BY <1>1, <1>5, <1>22 DEF f

\* What the ring and the tags look at, and two registers' worth of it that
\* are the same.
LEMMA SameRing ==
  ASSUME NEW c, NEW d, RingInv(c), TagsInv(c),
         d.head = c.head, d.tail = c.tail, d.count = c.count, d.seq = c.seq,
         d.committed = c.committed, d.free = c.free, d.map = c.map,
         \A i \in Slots : /\ d.rob[i].valid <=> c.rob[i].valid
                          /\ d.rob[i].valid => /\ d.rob[i].hasDest <=> c.rob[i].hasDest
                                               /\ d.rob[i].old = c.rob[i].old
                                               /\ d.rob[i].seq = c.rob[i].seq
  PROVE  RingInv(d) /\ TagsInv(d)
<1>1. RingInv(d)
  BY DEF RingInv
<1>2. Kept(d) = Kept(c)
  BY DEF Kept
<1>3. \A i \in Kept(c) : Olds(d)[i] = Olds(c)[i]
  BY DEF Kept, Olds
<1>4. TagsInv(d)
  BY <1>2, <1>3, SameKept DEF TagsInv
<1> QED
  BY <1>1, <1>4

\* A write-back makes an entry and operands ready and nothing else.
LEMMA WritebackKeeps ==
  ASSUME NEW c, NEW l, CoreInv(c)
  PROVE  CoreInv(WritebackOf(c, l))
<1>1. PICK q : q = IF l \in AluLanes THEN alu[l].resultq ELSE lsu[l].resultq
  OBVIOUS
<1>2. WritebackOf(c, l) = IF q = <<>> THEN c ELSE Writeback(c, Head(q))
  BY <1>1 DEF WritebackOf
<1>3. PICK wb : wb = Head(q)
  OBVIOUS
<1>4. PICK d : d = Writeback(c, wb)
  OBVIOUS
<1>5. DOMAIN c = CoreFields /\ DOMAIN c.rob = Slots /\ DOMAIN c.iq = 1 .. IQ_SIZE
  BY DEF CoreInv, Shape
<1>6. /\ DOMAIN d = CoreFields
      /\ d.ingress = c.ingress /\ d.map = c.map /\ d.free = c.free
      /\ d.head = c.head /\ d.tail = c.tail /\ d.count = c.count
      /\ d.iqCount = c.iqCount /\ d.seq = c.seq /\ d.committed = c.committed
      /\ d.rob = [c.rob EXCEPT ![wb.rob].ready = TRUE]
      /\ d.iq = [i \in 1 .. IQ_SIZE |-> Woken(c.iq[i], wb)]
  BY <1>4, <1>5 DEF Writeback, CoreFields
<1>7. /\ DOMAIN d.rob = Slots
      /\ \A i \in Slots : d.rob[i] = c.rob[i] \/ d.rob[i] = [c.rob[i] EXCEPT !.ready = TRUE]
  BY <1>5, <1>6
<1>8. \A i \in Slots :
        /\ DOMAIN d.rob[i] = DOMAIN c.rob[i]
        /\ d.rob[i].valid <=> c.rob[i].valid
        /\ d.rob[i].valid => /\ d.rob[i].hasDest <=> c.rob[i].hasDest
                             /\ d.rob[i].old = c.rob[i].old
                             /\ d.rob[i].seq = c.rob[i].seq
  <2> SUFFICES ASSUME NEW i \in Slots
               PROVE  /\ DOMAIN d.rob[i] = DOMAIN c.rob[i]
                      /\ d.rob[i].valid <=> c.rob[i].valid
                      /\ d.rob[i].valid => /\ d.rob[i].hasDest <=> c.rob[i].hasDest
                                           /\ d.rob[i].old = c.rob[i].old
                                           /\ d.rob[i].seq = c.rob[i].seq
    OBVIOUS
  <2>1. PICK e : e = c.rob[i]
    OBVIOUS
  <2>2. "valid" \in DOMAIN e /\ (e.valid => {"hasDest", "old", "seq", "ready"} \subseteq DOMAIN e)
    BY <2>1 DEF CoreInv, Shape
  <2>3. d.rob[i] = e \/ d.rob[i] = [e EXCEPT !.ready = TRUE]
    BY <1>7, <2>1
  <2> QED
    BY <2>1, <2>2, <2>3
<1>9. \A i \in 1 .. IQ_SIZE :
        /\ "valid" \in DOMAIN d.iq[i] /\ (d.iq[i].valid <=> c.iq[i].valid)
        /\ DOMAIN d.iq[i] = DOMAIN c.iq[i]
        /\ "seq" \in DOMAIN c.iq[i] => d.iq[i].seq = c.iq[i].seq
  <2> SUFFICES ASSUME NEW i \in 1 .. IQ_SIZE
               PROVE  /\ "valid" \in DOMAIN d.iq[i] /\ (d.iq[i].valid <=> c.iq[i].valid)
                      /\ DOMAIN d.iq[i] = DOMAIN c.iq[i]
                      /\ "seq" \in DOMAIN c.iq[i] => d.iq[i].seq = c.iq[i].seq
    OBVIOUS
  <2>1. PICK e : e = c.iq[i]
    OBVIOUS
  <2>2. "valid" \in DOMAIN e
    BY <2>1 DEF CoreInv, Shape
  <2>3. d.iq[i] = Woken(e, wb)
    BY <1>6, <2>1
  <2>4. /\ DOMAIN Woken(e, wb) = DOMAIN e /\ (Woken(e, wb).valid <=> e.valid)
        /\ "seq" \in DOMAIN e => Woken(e, wb).seq = e.seq
    BY <2>2 DEF Woken
  <2> QED
    BY <2>1, <2>2, <2>3, <2>4
<1>10. DOMAIN d.iq = 1 .. IQ_SIZE
  BY <1>6
<1>11. Shape(d)
  BY <1>6, <1>7, <1>8, <1>9, <1>10 DEF CoreInv, Shape
<1>12. RingInv(d) /\ TagsInv(d)
  BY <1>6, <1>8, SameRing DEF CoreInv
<1>13. Queued(d) = Queued(c)
  BY <1>9 DEF Queued
<1>14. QueueInv(d)
  <2>1. \A i \in Queued(c) : d.iq[i].seq = c.iq[i].seq /\ DOMAIN d.iq[i] = DOMAIN c.iq[i]
    BY <1>9 DEF Queued, QueueInv, CoreInv
  <2> QED
    BY <1>6, <1>13, <2>1 DEF QueueInv, CoreInv
<1>15. CoreInv(d)
  BY <1>11, <1>12, <1>14 DEF CoreInv
<1> QED
  BY <1>2, <1>3, <1>4, <1>15

\* Modular arithmetic on the ring is one comparison.
LEMMA Wrap ==
  ASSUME NEW i \in Slots, NEW k \in 0 .. ROB_SIZE
  PROVE  (i + k) % ROB_SIZE = Ahead(i, k) /\ Ahead(i, k) \in Slots
<1>1. ROB_SIZE \in Nat \ {0} /\ i \in Nat /\ i < ROB_SIZE /\ k \in Nat /\ k <= ROB_SIZE
  BY SizesAssumption DEF Slots
<1>2. CASE i + k < ROB_SIZE
  <2>1. i + k = 0 * ROB_SIZE + (i + k) /\ i + k \in 0 .. ROB_SIZE - 1
    BY <1>1, <1>2
  <2> QED
    BY <1>1, <1>2, <2>1, DivUnique DEF Ahead, Slots
<1>3. CASE ~ (i + k < ROB_SIZE)
  <2>1. i + k = 1 * ROB_SIZE + (i + k - ROB_SIZE) /\ i + k - ROB_SIZE \in 0 .. ROB_SIZE - 1
    BY <1>1, <1>3
  <2> QED
    BY <1>1, <1>3, <2>1, DivUnique DEF Ahead, Slots
<1> QED
  BY <1>2, <1>3

\* A commit takes the oldest instruction off the ring, and the tag it kept
\* becomes free.
LEMMA CommitKeeps ==
  ASSUME NEW c, NEW k, CoreInv(c)
  PROVE  CoreInv(CommitOne(c, k))
<1> DEFINE h == c.head
           e == c.rob[h]
           d == CommitOne(c, k)
<1>1. CASE c.count = 0 \/ ~ e.valid \/ ~ e.ready
  BY <1>1 DEF CommitOne
<1>2. CASE ~ (c.count = 0 \/ ~ e.valid \/ ~ e.ready)
  <2>0. c.count # 0 /\ e.valid
    BY <1>2
  <2>1. DOMAIN c = CoreFields /\ DOMAIN c.rob = Slots /\ DOMAIN c.iq = 1 .. IQ_SIZE /\ c.committed \in Nat
    BY DEF CoreInv, Shape
  <2>2. /\ DOMAIN d = CoreFields
        /\ d.ingress = c.ingress /\ d.map = c.map /\ d.tail = c.tail /\ d.seq = c.seq
        /\ d.iq = c.iq /\ d.iqCount = c.iqCount
        /\ d.free = (IF e.hasDest /\ e.old # 0 THEN Append(c.free, e.old) ELSE c.free)
        /\ d.rob = [c.rob EXCEPT ![h] = Empty]
        /\ d.head = (h + 1) % ROB_SIZE /\ d.count = c.count - 1 /\ d.committed = c.committed + 1
    BY <1>2, <2>1 DEF CommitOne, CoreFields
  <2> HIDE DEF d
  <2>3. h \in Slots /\ d.head = Ahead(h, 1)
    <3>1. h \in Slots /\ 1 \in 0 .. ROB_SIZE
      BY SizesAssumption DEF CoreInv, RingInv
    <3> QED
      BY <2>2, <3>1, Wrap
  <2>4. /\ DOMAIN d.rob = Slots /\ d.rob[h] = Empty
        /\ \A i \in Slots : i # h => d.rob[i] = c.rob[i]
    BY <2>1, <2>2, <2>3
  <2>5. "valid" \in DOMAIN d.rob[h] /\ ~ d.rob[h].valid
    BY <2>4 DEF Empty
  <2>6. Kept(d) = Kept(c) \ {h}
    BY <2>4, <2>5 DEF Kept
  <2>7. \A i \in Kept(d) : Olds(d)[i] = Olds(c)[i]
    BY <2>4, <2>6 DEF Olds, Kept
  <2>8. d.free \in Seq(Tags) /\ Sharing(d.free, c.map, Kept(c) \ {h}, Olds(c))
    <3>0. PICK free, map, kept, old :
            free = c.free /\ map = c.map /\ kept = Kept(c) /\ old = Olds(c)
      OBVIOUS
    <3>1. free \in Seq(Tags) /\ Sharing(free, map, kept, old)
      BY <3>0 DEF CoreInv, Shape, TagsInv
    <3>2. CASE h \in kept
      <4>1. e.hasDest /\ old[h] = e.old
        BY <2>0, <2>3, <3>0, <3>2 DEF Kept, Olds
      <4>2. e.old # 0
        BY <3>1, <3>2, <4>1 DEF Sharing
      <4>3. d.free = Append(free, old[h])
        BY <2>2, <3>0, <4>1, <4>2
      <4>4. Append(free, old[h]) \in Seq(Tags) /\ Sharing(Append(free, old[h]), map, kept \ {h}, old)
        BY <3>1, <3>2, Freed
      <4> QED
        BY <3>0, <4>3, <4>4
    <3>3. CASE h \notin kept
      <4>1. ~ e.hasDest
        BY <2>0, <2>3, <3>0, <3>3 DEF Kept
      <4>2. kept \ {h} = kept /\ d.free = free
        BY <2>2, <3>0, <3>3, <4>1
      <4> QED
        BY <3>0, <3>1, <4>2
    <3> QED
      BY <3>2, <3>3
  <2>9. TagsInv(d)
    BY <2>2, <2>6, <2>7, <2>8, SameKept DEF TagsInv
  <2>10. Shape(d)
    BY <2>1, <2>2, <2>4, <2>5, <2>8 DEF CoreInv, Shape
  <2>11. QueueInv(d)
    BY <2>2 DEF CoreInv, QueueInv, Queued
  <2>12. RingInv(d)
    <3>0. PICK R : R = ROB_SIZE /\ R \in Nat \ {0}
      BY SizesAssumption
    <3>1. /\ h \in 0 .. R - 1 /\ c.count \in 1 .. R /\ d.count \in 0 .. R
          /\ c.tail = Ahead(h, c.count) /\ d.tail = Ahead(d.head, d.count)
          /\ d.head \in 0 .. R - 1
      BY <2>0, <2>2, <2>3, <3>0 DEF CoreInv, RingInv, Ahead, Slots
    <3>2. \A i \in 0 .. R - 1 : i # h => Dist(d.head, i) = Dist(h, i) - 1
      BY <2>3, <3>0, <3>1 DEF Dist, Ahead
    <3>3. Dist(d.head, h) = R - 1
      BY <2>3, <3>0, <3>1 DEF Dist, Ahead
    <3>4. d.seq = d.committed + d.count + 1
      BY <2>1, <2>2, <3>1 DEF CoreInv, RingInv
    <3>5. \A i \in 0 .. R - 1 : Dist(h, i) \in Int
      BY <3>0, <3>1 DEF Dist
    <3>6. ASSUME NEW i \in Slots
          PROVE  /\ d.rob[i].valid <=> Dist(d.head, i) < d.count
                 /\ d.rob[i].valid => d.rob[i].seq = d.committed + 1 + Dist(d.head, i)
      <4>0. i \in 0 .. R - 1
        BY <3>0 DEF Slots
      <4>1. CASE i = h
        BY <2>2, <2>5, <3>0, <3>1, <3>3, <4>1
      <4>2. CASE i # h
        <5>1. d.rob[i] = c.rob[i]
          BY <2>4, <4>2
        <5>2. /\ c.rob[i].valid <=> Dist(h, i) < c.count
              /\ c.rob[i].valid => c.rob[i].seq = c.committed + 1 + Dist(h, i)
          BY DEF CoreInv, RingInv
        <5>3. Dist(d.head, i) < d.count <=> Dist(h, i) < c.count
          BY <2>2, <3>1, <3>2, <3>5, <4>0, <4>2
        <5>4. d.committed + 1 + Dist(d.head, i) = c.committed + 1 + Dist(h, i)
          BY <2>1, <2>2, <3>2, <3>5, <4>0, <4>2
        <5> QED
          BY <5>1, <5>2, <5>3, <5>4
      <4> QED
        BY <4>1, <4>2
    <3> QED
      BY <3>0, <3>1, <3>4, <3>6 DEF RingInv, Slots
  <2> QED
    BY <2>9, <2>10, <2>11, <2>12 DEF CoreInv, d
<1> QED
  BY <1>1, <1>2

\* There is room for k more instructions.
Room(c, k) ==
  /\ k \in Nat
  /\ k <= Len(c.ingress) /\ k <= Len(c.free) /\ k <= ROB_SIZE - c.count

\* The first place of the issue queue that is free is one of them.
LEMMA FirstFree ==
  ASSUME NEW S \in SUBSET (1 .. IQ_SIZE), S # {}
  PROVE  Min(S) \in S
<1>1. IsFiniteSet(S) /\ S \in SUBSET Int
  <2>1. IsFiniteSet(1 .. IQ_SIZE)
    BY SizesAssumption, FS_Interval
  <2>2. IsFiniteSet(S)
    BY <2>1, FS_Subset
  <2>3. S \in SUBSET Int
    OBVIOUS
  <2> QED
    BY <2>2, <2>3
<1>2. \E i \in S : \A j \in S : i <= j
  BY <1>1, FirstMember
<1> QED
  BY <1>2 DEF Min

\* A dispatch puts an instruction behind the youngest one, with the first
\* free tag if it writes a register.
LEMMA DispatchKeeps ==
  ASSUME NEW c, NEW x, NEW k \in Nat, k >= 1, CoreInv(c), Room(c, k)
  PROVE  CoreInv(DispatchOne(c, x)) /\ Room(DispatchOne(c, x), k - 1)
<1> DEFINE inst == Head(c.ingress)
           need == Toy!WritesDest(inst)
           free == { i \in 1 .. IQ_SIZE : ~ c.iq[i].valid }
           d == DispatchOne(c, x)
           t == c.tail
<1>1. CASE free = {}
  <2>1. d = c
    BY <1>1 DEF DispatchOne
  <2>2. Room(c, k - 1)
    <3>1. Len(c.ingress) \in Nat /\ Len(c.free) \in Nat
      BY DEF CoreInv, Shape
    <3>2. ROB_SIZE \in Nat
      BY SizesAssumption
    <3>3. c.count \in Nat
      BY <3>2 DEF CoreInv, RingInv
    <3> QED
      BY <3>1, <3>2, <3>3 DEF Room
  <2> QED
    BY <2>1, <2>2
<1>2. CASE free # {}
  <2>1. DOMAIN c = CoreFields /\ DOMAIN c.rob = Slots /\ DOMAIN c.iq = 1 .. IQ_SIZE
        /\ c.ingress \in Seq(Instr) /\ c.free \in Seq(Tags) /\ c.committed \in Nat
        /\ c.map \in [0 .. ARCH_REGS - 1 -> Tags]
    BY DEF CoreInv, Shape
  <2>2. PICK ne, qe : /\ ne = RobEntry(c, inst, IF need THEN Head(c.free) ELSE 0)
                      /\ qe = IqEntry(c, inst, IF need THEN Head(c.free) ELSE 0)
    OBVIOUS
  <2>3. /\ DOMAIN d = CoreFields
        /\ d.ingress = Tail(c.ingress) /\ d.head = c.head
        /\ d.free = (IF need THEN Tail(c.free) ELSE c.free)
        /\ d.map = (IF need THEN [c.map EXCEPT ![inst.rd] = Head(c.free)] ELSE c.map)
        /\ d.tail = (t + 1) % ROB_SIZE /\ d.count = c.count + 1
        /\ d.seq = c.seq + 1 /\ d.committed = c.committed /\ d.iqCount = c.iqCount + 1
    BY <1>2, <2>1 DEF DispatchOne, CoreFields
  <2>4. d.rob = [c.rob EXCEPT ![t] = ne]
    BY <1>2, <2>1, <2>2 DEF DispatchOne, CoreFields
  <2>5. d.iq = [c.iq EXCEPT ![Min(free)] = qe]
    BY <1>2, <2>1, <2>2 DEF DispatchOne, CoreFields
  <2> HIDE DEF d
  <2>6. PICK m \in 1 .. IQ_SIZE : m = Min(free) /\ ~ c.iq[m].valid
    BY <1>2, FirstFree
  <2>7. /\ ne.valid /\ (ne.hasDest <=> need) /\ ne.seq = c.seq
        /\ ne.old = (IF inst.rd = 0 THEN 0 ELSE c.map[inst.rd])
        /\ {"valid", "hasDest", "old", "seq", "ready"} \subseteq DOMAIN ne
        /\ qe.valid /\ {"valid", "seq"} \subseteq DOMAIN qe /\ qe.seq = c.seq
    <3> HIDE DEF inst
    <3> QED
      BY <2>2 DEF RobEntry, IqEntry
  <2>8. /\ Len(c.ingress) \in Nat /\ c.ingress # <<>> /\ inst \in Instr
        /\ Tail(c.ingress) \in Seq(Instr) /\ Len(Tail(c.ingress)) = Len(c.ingress) - 1
    <3>1. Len(c.ingress) \in Nat /\ Len(c.ingress) >= 1
      BY <2>1 DEF Room
    <3>2. c.ingress # <<>>
      BY <3>1
    <3> QED
      BY <2>1, <3>1, <3>2, TailFacts
  <2>9. /\ Len(c.free) \in Nat /\ c.free # <<>> /\ Head(c.free) \in Tags
        /\ Tail(c.free) \in Seq(Tags) /\ Len(Tail(c.free)) = Len(c.free) - 1
    <3>1. Len(c.free) \in Nat /\ Len(c.free) >= 1
      BY <2>1 DEF Room
    <3>2. c.free # <<>>
      BY <3>1
    <3> QED
      BY <2>1, <3>1, <3>2, TailFacts
  <2>10. inst.rd \in 0 .. ARCH_REGS - 1 /\ (need => inst.rd \in Regs)
    <3>1. inst.rd \in 0 .. ARCH_REGS - 1
      BY <2>8 DEF Instr
    <3>2. need => inst.rd # 0
      BY DEF Toy!WritesDest
    <3> QED
      BY <3>1, <3>2 DEF Regs
  <2> HIDE DEF inst, need, free
  <2>11. PICK R : R = ROB_SIZE /\ R \in Nat \ {0}
    BY SizesAssumption
  <2>12. /\ c.head \in 0 .. R - 1 /\ c.count \in 0 .. R - 1 /\ t = Ahead(c.head, c.count)
         /\ t \in Slots
    BY <2>11 DEF CoreInv, RingInv, Room, Ahead, Slots
  <2>13. /\ DOMAIN d.rob = Slots /\ d.rob[t] = ne
         /\ \A i \in Slots : i # t => d.rob[i] = c.rob[i]
    BY <2>1, <2>4, <2>12
  <2>14. /\ DOMAIN d.iq = 1 .. IQ_SIZE /\ d.iq[m] = qe
         /\ \A i \in 1 .. IQ_SIZE : i # m => d.iq[i] = c.iq[i]
    BY <2>1, <2>5, <2>6
  <2>15. Dist(c.head, t) = c.count /\ ~ c.rob[t].valid
    <3>1. Dist(c.head, t) = c.count
      BY <2>11, <2>12 DEF Dist, Ahead
    <3>2. c.rob[t].valid <=> Dist(c.head, t) < c.count
      BY <2>12 DEF CoreInv, RingInv
    <3> QED
      BY <2>12, <3>1, <3>2
  <2>16. QueueInv(d)
    <3>1. Queued(d) = Queued(c) \cup {m} /\ m \notin Queued(c)
      BY <2>6, <2>7, <2>14 DEF Queued
    <3>2. IsFiniteSet(Queued(c))
      <4>1. IsFiniteSet(1 .. IQ_SIZE)
        BY SizesAssumption, FS_Interval
      <4> QED
        BY <4>1, FS_Subset DEF Queued
    <3>3. Cardinality(Queued(d)) = Cardinality(Queued(c)) + 1
      BY <3>1, <3>2, FS_AddElement
    <3>4. c.seq \in Nat
      BY <2>1, <2>11, <2>12 DEF CoreInv, RingInv
    <3>5. ASSUME NEW i \in Queued(d)
          PROVE  /\ "seq" \in DOMAIN d.iq[i] /\ d.iq[i].seq \in Nat /\ d.iq[i].seq < d.seq
                 /\ \A j \in Queued(d) : d.iq[i].seq = d.iq[j].seq => i = j
      <4>1. \A j \in Queued(c) : /\ "seq" \in DOMAIN c.iq[j] /\ c.iq[j].seq \in Nat /\ c.iq[j].seq < c.seq
                                  /\ d.iq[j] = c.iq[j]
        BY <2>14, <3>1 DEF CoreInv, QueueInv, Queued
      <4>2. CASE i = m
        BY <2>3, <2>7, <2>14, <3>1, <3>4, <4>1, <4>2
      <4>3. CASE i \in Queued(c)
        BY <2>3, <2>7, <2>14, <3>1, <3>4, <4>1, <4>3 DEF CoreInv, QueueInv
      <4> QED
        BY <3>1, <4>2, <4>3
    <3> QED
      BY <2>3, <3>3, <3>5 DEF CoreInv, QueueInv
  <2>17. Room(d, k - 1)
    <3>1. Len(d.free) >= Len(c.free) - 1
      BY <2>3, <2>9
    <3>2. d.ingress = Tail(c.ingress) /\ d.count = c.count + 1
      BY <2>3
    <3>3. /\ k <= Len(c.ingress) /\ k <= Len(c.free) /\ k <= R - c.count
      BY <2>11 DEF Room
    <3>4. k - 1 <= Len(d.ingress)
      BY <2>8, <3>2, <3>3
    <3>5. k - 1 <= R - d.count
      BY <2>11, <2>12, <3>2, <3>3
    <3>6. k - 1 <= Len(d.free)
      <4>1. Len(d.free) \in Nat
        BY <2>3, <2>9
      <4> QED
        BY <2>9, <3>1, <3>3, <4>1
    <3> QED
      BY <2>11, <3>4, <3>5, <3>6 DEF Room
  <2>18. RingInv(d)
    <3>1. d.tail = Ahead(c.head, c.count + 1)
      <4>1. d.tail = Ahead(t, 1)
        <5>1. 1 \in 0 .. ROB_SIZE
          BY <2>11
        <5> QED
          BY <2>3, <2>12, <5>1, Wrap
      <4> QED
        BY <2>11, <2>12, <4>1 DEF Ahead
    <3>2. \A i \in 0 .. R - 1 : Dist(c.head, i) \in Nat /\ (Dist(c.head, i) = c.count => i = t)
      BY <2>11, <2>12 DEF Dist, Ahead
    <3>3. ASSUME NEW i \in Slots
          PROVE  /\ d.rob[i].valid <=> Dist(d.head, i) < d.count
                 /\ d.rob[i].valid => d.rob[i].seq = d.committed + 1 + Dist(d.head, i)
      <4>1. CASE i = t
        <5>1. d.rob[i].seq = c.committed + c.count + 1
          BY <2>7, <2>13, <4>1 DEF CoreInv, RingInv
        <5>2. d.rob[i].valid /\ Dist(d.head, i) = c.count
          BY <2>3, <2>7, <2>13, <2>15, <4>1
        <5> QED
          BY <2>1, <2>3, <2>12, <5>1, <5>2
      <4>2. CASE i # t
        <5>1. d.rob[i] = c.rob[i]
          BY <2>13, <4>2
        <5>2. /\ c.rob[i].valid <=> Dist(c.head, i) < c.count
              /\ c.rob[i].valid => c.rob[i].seq = c.committed + 1 + Dist(c.head, i)
          BY DEF CoreInv, RingInv
        <5>3. i \in 0 .. R - 1 /\ Dist(c.head, i) \in Nat /\ Dist(c.head, i) # c.count
          BY <2>11, <3>2, <4>2 DEF Slots
        <5>4. Dist(d.head, i) < d.count <=> Dist(c.head, i) < c.count
          BY <2>3, <2>12, <5>3
        <5> QED
          BY <2>3, <5>1, <5>2, <5>4
      <4> QED
        BY <4>1, <4>2
    <3>4. d.seq = d.committed + d.count + 1
      BY <2>1, <2>3, <2>12 DEF CoreInv, RingInv
    <3>5. d.count \in 0 .. ROB_SIZE /\ d.head \in Slots
      BY <2>3, <2>11, <2>12 DEF Slots
    <3>6. d.tail = Ahead(d.head, d.count)
      BY <2>3, <3>1
    <3> QED
      BY <3>3, <3>4, <3>5, <3>6 DEF RingInv
  <2>19. d.free \in Seq(Tags) /\ d.map \in [0 .. ARCH_REGS - 1 -> Tags] /\ TagsInv(d)
    <3>1. PICK fr, map, kept, old, r :
            /\ fr = c.free /\ map = c.map /\ kept = Kept(c) /\ old = Olds(c) /\ r = inst.rd
      OBVIOUS
    <3>2. fr \in Seq(Tags) /\ map \in [0 .. ARCH_REGS - 1 -> Tags] /\ Sharing(fr, map, kept, old)
      BY <2>1, <3>1 DEF CoreInv, TagsInv
    <3>3. t \notin kept /\ \A i \in kept : i \in Slots /\ i # t
      BY <2>15, <3>1 DEF Kept
    <3>4. \A i \in kept : Olds(d)[i] = old[i]
      BY <2>13, <3>1, <3>3 DEF Olds
    <3>5. CASE need
      <4>1. PICK map2, old2 : map2 = [map EXCEPT ![r] = Head(fr)] /\ old2 = Olds(d)
        OBVIOUS
      <4>2. r \in Regs /\ fr # <<>>
        BY <2>9, <2>10, <3>1, <3>5
      <4>3. old2[t] = map[r]
        <5>1. r # 0
          BY <4>2 DEF Regs
        <5> QED
          BY <2>7, <2>12, <2>13, <3>1, <4>1, <5>1 DEF Olds
      <4>4. \A i \in kept : old2[i] = old[i]
        BY <3>4, <4>1
      <4>5. /\ Tail(fr) \in Seq(Tags) /\ map2 \in [0 .. ARCH_REGS - 1 -> Tags]
            /\ Sharing(Tail(fr), map2, kept \cup {t}, old2)
        <5>1. PICK s : s = t
          OBVIOUS
        <5>2. Renames(fr, map, kept, old, r, s, map2, old2)
          BY <3>2, <3>3, <4>1, <4>2, <4>3, <4>4, <5>1 DEF Renames
        <5> QED
          BY <3>2, <5>1, <5>2, Renamed
      <4>6. Kept(d) = kept \cup {t}
        BY <2>7, <2>12, <2>13, <3>1, <3>3, <3>5 DEF Kept
      <4>7. d.free = Tail(fr) /\ d.map = map2
        BY <2>3, <3>1, <3>5, <4>1
      <4> QED
        BY <4>1, <4>5, <4>6, <4>7 DEF TagsInv
    <3>6. CASE ~ need
      <4>1. Kept(d) = kept
        BY <2>7, <2>13, <2>15, <3>1, <3>6 DEF Kept
      <4>2. d.free = fr /\ d.map = map
        BY <2>3, <3>1, <3>6
      <4> QED
        BY <3>2, <3>4, <4>1, <4>2, SameKept DEF TagsInv
    <3> QED
      BY <3>5, <3>6
  <2>20. Shape(d)
    <3>1. \A i \in Slots :
            /\ "valid" \in DOMAIN d.rob[i]
            /\ d.rob[i].valid => {"hasDest", "old", "seq", "ready"} \subseteq DOMAIN d.rob[i]
      BY <2>7, <2>13 DEF CoreInv, Shape
    <3>2. \A i \in 1 .. IQ_SIZE : "valid" \in DOMAIN d.iq[i]
      BY <2>7, <2>14 DEF CoreInv, Shape
    <3> QED
      BY <2>1, <2>3, <2>8, <2>13, <2>14, <2>19, <3>1, <3>2 DEF Shape
  <2> QED
    BY <2>16, <2>17, <2>18, <2>19, <2>20 DEF CoreInv, d
<1> QED
  BY <1>1, <1>2

Lanes == AluLanes \cup LsuLanes

\* What issues leaves the issue queue and is counted.
LEMMA IssueKeeps ==
  ASSUME NEW c, NEW chosen \in [Lanes -> {0} \cup Queued(c)], CoreInv(c)
  PROVE  CoreInv(Issued(c, chosen))
<1> DEFINE gone == { chosen[l] : l \in DOMAIN chosen } \ {0}
           d == Issued(c, chosen)
<1>1. DOMAIN c = CoreFields /\ DOMAIN c.iq = 1 .. IQ_SIZE
  BY DEF CoreInv, Shape
<1>2. /\ DOMAIN d = CoreFields
      /\ d.ingress = c.ingress /\ d.map = c.map /\ d.free = c.free /\ d.rob = c.rob
      /\ d.head = c.head /\ d.tail = c.tail /\ d.count = c.count
      /\ d.seq = c.seq /\ d.committed = c.committed
      /\ d.iq = [i \in 1 .. IQ_SIZE |-> IF i \in gone THEN Empty ELSE c.iq[i]]
      /\ d.iqCount = c.iqCount - Cardinality(gone)
  BY <1>1 DEF Issued, CoreFields
<1>3. gone \in SUBSET Queued(c)
  OBVIOUS
<1> HIDE DEF gone, d
<1>4. Queued(d) = Queued(c) \ gone
  BY <1>2, <1>3 DEF Queued, Empty
<1>5. IsFiniteSet(Queued(c))
  <2>1. IsFiniteSet(1 .. IQ_SIZE)
    BY SizesAssumption, FS_Interval
  <2> QED
    BY <2>1, FS_Subset DEF Queued
<1>6. QueueInv(d)
  <2>1. IsFiniteSet(gone) /\ Queued(c) \cap gone = gone
    BY <1>3, <1>5, FS_Subset
  <2>2. Cardinality(Queued(c) \ gone) = Cardinality(Queued(c)) - Cardinality(gone)
    BY <1>5, <2>1, FS_Difference
  <2>3. \A i \in Queued(d) : i \in Queued(c) /\ d.iq[i] = c.iq[i]
    BY <1>2, <1>4 DEF Queued
  <2> QED
    BY <1>2, <1>4, <2>2, <2>3 DEF QueueInv, CoreInv
<1>7. Shape(d)
  <2>1. \A i \in 1 .. IQ_SIZE : "valid" \in DOMAIN d.iq[i]
    BY <1>2 DEF CoreInv, Shape, Empty
  <2>2. DOMAIN d.iq = 1 .. IQ_SIZE
    BY <1>2
  <2> QED
    BY <1>2, <2>1, <2>2 DEF CoreInv, Shape
<1>8. RingInv(d) /\ TagsInv(d)
  BY <1>2, SameRing DEF CoreInv
<1> QED
  BY <1>6, <1>7, <1>8 DEF CoreInv, d

-----------------------------------------------------------------------------
(* The loops keep what their steps keep.                                   *)

\* The write-backs of a cycle.
LEMMA WritebacksKeep ==
  ASSUME NEW c, CoreInv(c)
  PROVE  CoreInv(WrittenBack(c))
<1> DEFINE n == ALU_LANES + LSU_LANES
<1>1. PICK run : /\ run[0] = c /\ WrittenBack(c) = run[n]
                 /\ \A i \in 1 .. n : run[i] = WritebackOf(run[i - 1], i)
  BY WrittenBackRun
<1>2. n \in Nat
  BY SizesAssumption
<1> HIDE DEF n
<1> DEFINE Good == { i \in 0 .. n : CoreInv(run[i]) }
<1>3. 0 \in Good
  BY <1>1, <1>2
<1>4. \A i \in 1 .. n : i - 1 \in Good => i \in Good
  BY <1>1, WritebackKeeps
<1>5. Good \in SUBSET (0 .. n)
  OBVIOUS
<1> HIDE DEF Good
<1>6. Good = 0 .. n
  BY <1>2, <1>3, <1>4, <1>5, PassedOn
<1> QED
  BY <1>1, <1>2, <1>6 DEF Good

\* The commits of a cycle.
LEMMA CommitsKeep ==
  ASSUME NEW c, CoreInv(c)
  PROVE  CoreInv(Committed(c))
<1> DEFINE n == COMMIT_WIDTH
<1>1. PICK run : /\ run[0] = c /\ Committed(c) = run[n]
                 /\ \A i \in 1 .. n : run[i] = CommitOne(run[i - 1], i)
  BY CommittedRun
<1>2. n \in Nat
  BY SizesAssumption
<1> HIDE DEF n
<1> DEFINE Good == { i \in 0 .. n : CoreInv(run[i]) }
<1>3. 0 \in Good
  BY <1>1, <1>2
<1>4. \A i \in 1 .. n : i - 1 \in Good => i \in Good
  BY <1>1, CommitKeeps
<1>5. Good \in SUBSET (0 .. n)
  OBVIOUS
<1> HIDE DEF Good
<1>6. Good = 0 .. n
  BY <1>2, <1>3, <1>4, <1>5, PassedOn
<1> QED
  BY <1>1, <1>2, <1>6 DEF Good

\* The least of five numbers is one of them and at most each.
LEMMA LeastOfFive ==
  ASSUME NEW v \in Nat, NEW w \in Nat, NEW x \in Nat, NEW y \in Nat, NEW z \in Nat,
         NEW m, m = Min({v, w, x, y, z})
  PROVE  m \in Nat /\ m <= v /\ m <= w /\ m <= x /\ m <= y /\ m <= z
<1>1. \E i \in {v, w, x, y, z} : \A j \in {v, w, x, y, z} : i <= j
  OBVIOUS
<1>2. m \in {v, w, x, y, z} /\ \A j \in {v, w, x, y, z} : m <= j
  BY <1>1 DEF Min
<1> QED
  BY <1>2

\* The number of instructions to dispatch leaves room for each of them.
LEMMA LimitIsRoom ==
  ASSUME NEW c, CoreInv(c)
  PROVE  Room(c, DispatchLimit(c))
<1>1. Len(c.ingress) \in Nat /\ Len(c.free) \in Nat
  BY DEF CoreInv, Shape
<1>2. ROB_SIZE - c.count \in Nat
  BY SizesAssumption DEF CoreInv, RingInv
<1>3. IQ_SIZE - c.iqCount \in Nat
  <2>0. IQ_SIZE \in Nat \ {0}
    BY SizesAssumption
  <2>1. IsFiniteSet(1 .. IQ_SIZE) /\ Cardinality(1 .. IQ_SIZE) = IQ_SIZE
    BY <2>0, FS_Interval
  <2>2. Queued(c) \in SUBSET (1 .. IQ_SIZE)
    BY DEF Queued
  <2>3. IsFiniteSet(Queued(c)) /\ Cardinality(Queued(c)) <= IQ_SIZE
    BY <2>1, <2>2, FS_Subset
  <2>4. Cardinality(Queued(c)) \in Nat
    BY <2>3, FS_CardinalityType
  <2>5. c.iqCount = Cardinality(Queued(c))
    BY DEF CoreInv, QueueInv
  <2> QED
    BY <2>0, <2>3, <2>4, <2>5
<1>4. PICK m, w, x, y, z : m = DispatchLimit(c) /\ w = Len(c.ingress) /\ x = IQ_SIZE - c.iqCount
                           /\ y = ROB_SIZE - c.count /\ z = Len(c.free)
  OBVIOUS
<1>5. m = Min({DISPATCH_WIDTH, w, x, y, z})
  BY <1>4 DEF DispatchLimit
<1>6. DISPATCH_WIDTH \in Nat
  BY SizesAssumption
<1>7. m \in Nat /\ m <= w /\ m <= y /\ m <= z
  BY <1>1, <1>2, <1>3, <1>4, <1>5, <1>6, LeastOfFive
<1> QED
  BY <1>4, <1>7 DEF Room

\* The dispatches of a cycle.
LEMMA DispatchesKeep ==
  ASSUME NEW c, CoreInv(c)
  PROVE  CoreInv(Dispatched(c))
<1> DEFINE n == DispatchLimit(c)
<1>1. Room(c, n) /\ n \in Nat
  BY LimitIsRoom DEF Room
<1>2. PICK run : /\ run[0] = c /\ Dispatched(c) = run[n]
                 /\ \A i \in 1 .. n : run[i] = DispatchOne(run[i - 1], i)
  BY <1>1, DispatchedRun
<1> HIDE DEF n
<1> DEFINE Good == { i \in 0 .. n : CoreInv(run[i]) /\ Room(run[i], n - i) }
<1>3. 0 \in Good
  BY <1>1, <1>2
<1>4. ASSUME NEW i \in 1 .. n, i - 1 \in Good
      PROVE  i \in Good
  <2>1. PICK x, k : x = run[i - 1] /\ k = n - (i - 1)
    OBVIOUS
  <2>2. CoreInv(x) /\ Room(x, k) /\ k \in Nat /\ k >= 1 /\ k - 1 = n - i
    BY <1>1, <1>4, <2>1
  <2>3. CoreInv(DispatchOne(x, i)) /\ Room(DispatchOne(x, i), k - 1)
    BY <2>2, DispatchKeeps
  <2>4. run[i] = DispatchOne(x, i)
    BY <1>2, <2>1
  <2> QED
    BY <1>1, <2>2, <2>3, <2>4
<1>5. Good \in SUBSET (0 .. n)
  OBVIOUS
<1> HIDE DEF Good
<1>6. Good = 0 .. n
  BY <1>1, <1>3, <1>4, <1>5, PassedOn
<1> QED
  BY <1>1, <1>2, <1>6 DEF Good

\* The lanes take entries that are in the queue.
LEMMA ChosenAreQueued ==
  ASSUME NEW c
  PROVE  Chosen(c) \in [Lanes -> {0} \cup Queued(c)]
<1> DEFINE n == IQ_SIZE
<1>1. PICK run : /\ run[0] = [l \in AluLanes \cup LsuLanes |-> 0] /\ Chosen(c) = run[n]
                 /\ \A i \in 1 .. n : run[i] = Offered(c, run[i - 1], i)
  BY ChosenRun
<1>2. n \in Nat
  BY SizesAssumption
<1> DEFINE Good == { i \in 0 .. n : run[i] \in [Lanes -> {0} \cup Queued(c)] }
<1>3. 0 \in Good
  BY <1>1, <1>2 DEF Lanes
<1>4. ASSUME NEW i \in 1 .. n, i - 1 \in Good
      PROVE  i \in Good
  <2>1. PICK best : best = run[i - 1] /\ best \in [Lanes -> {0} \cup Queued(c)]
    BY <1>4
  <2>2. c.iq[i].valid => i \in Queued(c)
    BY DEF Queued
  <2>3. PICK x : Offered(c, best, i) = best
                 \/ (c.iq[i].valid /\ Offered(c, best, i) = [best EXCEPT ![x] = i])
    BY DEF Offered
  <2>4. Offered(c, best, i) \in [Lanes -> {0} \cup Queued(c)]
    BY <2>1, <2>2, <2>3
  <2> QED
    BY <1>1, <1>2, <2>1, <2>4
<1>5. Good \in SUBSET (0 .. n)
  OBVIOUS
<1> HIDE DEF Good
<1>6. Good = 0 .. n
  BY <1>2, <1>3, <1>4, <1>5, PassedOn
<1> QED
  BY <1>1, <1>2, <1>6 DEF Good

\* The ports and the ring hold instructions when they are drained.
LEMMA DrainKeeps ==
  ASSUME NEW ports \in [Ports -> Seq(Instr)], NEW ring \in Seq(Instr)
  PROVE  Drained(ports, ring).ring \in Seq(Instr)
         /\ Drained(ports, ring).ports \in [Ports -> Seq(Instr)]
<1> DEFINE n == INGRESS_WIDTH
           Holds(a) == a.ring \in Seq(Instr) /\ a.ports \in [Ports -> Seq(Instr)]
<1>1. PICK run : /\ run[0] = [ring |-> ring, ports |-> ports] /\ Drained(ports, ring) = run[n]
                 /\ \A i \in 1 .. n : run[i] = DrainPort(run[i - 1], i)
  BY DrainedRun
<1>2. n \in Nat
  BY SizesAssumption
<1> DEFINE Good == { i \in 0 .. n : Holds(run[i]) }
<1>3. 0 \in Good
  BY <1>1, <1>2
<1>4. ASSUME NEW i \in 1 .. n, i - 1 \in Good
      PROVE  i \in Good
  <2>1. PICK a : a = run[i - 1] /\ Holds(a)
    BY <1>4
  <2>2. i \in Ports
    BY DEF Ports
  <2>3. Holds(DrainPort(a, i))
    <3>1. PICK r, p : r = a.ring \o a.ports[i] /\ p = [a.ports EXCEPT ![i] = <<>>]
      OBVIOUS
    <3>2. r \in Seq(Instr)
      <4>1. PICK s, t : s = a.ring /\ t = a.ports[i] /\ s \in Seq(Instr) /\ t \in Seq(Instr)
        BY <2>1, <2>2
      <4>2. s \o t \in Seq(Instr)
        BY <4>1
      <4> QED
        BY <3>1, <4>1, <4>2
    <3>3. p \in [Ports -> Seq(Instr)]
      <4>1. a.ports \in [Ports -> Seq(Instr)] /\ <<>> \in Seq(Instr)
        BY <2>1
      <4>2. PICK q, none : q = a.ports /\ none = <<>>
        OBVIOUS
      <4>3. [q EXCEPT ![i] = none] \in [Ports -> Seq(Instr)]
        BY <4>1, <4>2
      <4>4. p = [q EXCEPT ![i] = none]
        BY <3>1, <4>2
      <4> QED
        BY <4>3, <4>4
    <3>4. DrainPort(a, i) = a \/ DrainPort(a, i) = [ring |-> r, ports |-> p]
      BY <3>1 DEF DrainPort
    <3> QED
      BY <2>1, <3>2, <3>3, <3>4
  <2> HIDE DEF Holds
  <2> QED
    BY <1>1, <1>2, <2>1, <2>3
<1>5. Good \in SUBSET (0 .. n)
  OBVIOUS
<1> HIDE DEF Good
<1>6. Good = 0 .. n
  BY <1>2, <1>3, <1>4, <1>5, PassedOn
<1>7. Holds(run[n])
  BY <1>2, <1>6 DEF Good
<1> QED
  BY <1>1, <1>7

\* The ports hold instructions of the program when they are fed.
LEMMA FeedKeeps ==
  ASSUME NEW m, NEW ports \in [Ports -> Seq(Instr)], program \in Seq(Instr), fed \in Nat
  PROVE  Fed(m, ports).fed \in Nat /\ Fed(m, ports).ports \in [Ports -> Seq(Instr)]
<1> DEFINE n == INGRESS_WIDTH
           Holds(a) == a.fed \in Nat /\ a.ports \in [Ports -> Seq(Instr)]
<1>1. PICK run : /\ run[0] = [fed |-> fed, ports |-> ports] /\ Fed(m, ports) = run[n]
                 /\ \A i \in 1 .. n : run[i] = FeedPort(run[i - 1], i, m)
  BY FedRun
<1>2. n \in Nat
  BY SizesAssumption
<1> DEFINE Good == { i \in 0 .. n : Holds(run[i]) }
<1>3. 0 \in Good
  BY <1>1, <1>2
<1>4. ASSUME NEW i \in 1 .. n, i - 1 \in Good
      PROVE  i \in Good
  <2>1. PICK a : a = run[i - 1] /\ Holds(a)
    BY <1>4
  <2>2. PICK q : q = << program[a.fed + 1] >>
    OBVIOUS
  <2>3. PICK p : p = [a.ports EXCEPT ![i] = << program[a.fed + 1] >>]
    OBVIOUS
  <2>4. CASE a.fed < Len(program)
    <3>1. a.fed + 1 \in 1 .. Len(program)
      BY <2>1, <2>4
    <3>2. program[a.fed + 1] \in Instr
      BY <3>1, ItemType
    <3>3. q \in Seq(Instr)
      BY <2>2, <3>2
    <3>4. p \in [Ports -> Seq(Instr)]
      BY <2>1, <2>2, <2>3, <3>3
    <3>5. FeedPort(a, i, m) = a \/ FeedPort(a, i, m) = [fed |-> a.fed + 1, ports |-> p]
      BY <2>3 DEF FeedPort
    <3>6. Holds(FeedPort(a, i, m))
      BY <2>1, <3>4, <3>5
    <3> HIDE DEF Holds
    <3> QED
      BY <1>1, <1>2, <2>1, <3>6
  <2>5. CASE ~ (a.fed < Len(program))
    <3>1. FeedPort(a, i, m) = a
      BY <2>5 DEF FeedPort
    <3> HIDE DEF Holds
    <3> QED
      BY <1>1, <1>2, <2>1, <3>1
  <2> QED
    BY <2>4, <2>5
<1>5. Good \in SUBSET (0 .. n)
  OBVIOUS
<1> HIDE DEF Good
<1>6. Good = 0 .. n
  BY <1>2, <1>3, <1>4, <1>5, PassedOn
<1>7. Holds(run[n])
  BY <1>2, <1>6 DEF Good
<1> QED
  BY <1>1, <1>7

-----------------------------------------------------------------------------
(* The invariant of the specification.                                     *)

BackendInv ==
  /\ program \in Seq(Instr) /\ fed \in Nat
  /\ push \in [Ports -> Seq(Instr)]
  /\ CoreInv(core)

\* The registers after a reset.
LEMMA InitCoreInv == CoreInv(InitCore)
<1> DEFINE c == InitCore
           n == PHYS_REGS - ARCH_REGS
<1>1. /\ ARCH_REGS \in Nat /\ ARCH_REGS >= 1 /\ PHYS_REGS \in Nat /\ PHYS_REGS > ARCH_REGS
      /\ ROB_SIZE \in Nat /\ ROB_SIZE >= 1
  BY SizesAssumption
<1>2. PICK free, map, rob, iq :
        /\ free = [i \in 1 .. n |-> ARCH_REGS + i - 1]
        /\ map = [r \in 0 .. ARCH_REGS - 1 |-> r]
        /\ rob = [i \in Slots |-> Empty]
        /\ iq = [i \in 1 .. IQ_SIZE |-> Empty]
  OBVIOUS
<1>3. /\ DOMAIN c = CoreFields /\ c.ingress = <<>>
      /\ c.free = free /\ c.map = map /\ c.rob = rob /\ c.iq = iq
      /\ c.head = 0 /\ c.tail = 0 /\ c.count = 0 /\ c.iqCount = 0
      /\ c.seq = 1 /\ c.committed = 0
  BY <1>2 DEF InitCore, CoreFields, Slots
<1> HIDE DEF c
<1>4. n \in Nat /\ n >= 1
  BY <1>1
<1>5. free \in Seq(Tags) /\ Len(free) = n /\ \A i \in 1 .. n : free[i] = ARCH_REGS + i - 1
  <2>1. \A i \in 1 .. n : free[i] = ARCH_REGS + i - 1 /\ free[i] \in Tags
    BY <1>1, <1>2 DEF Tags
  <2>2. DOMAIN free = 1 .. n /\ free = [i \in 1 .. n |-> free[i]]
    BY <1>2
  <2> HIDE DEF n
  <2> QED
    BY <1>4, <2>1, <2>2, SequenceIntro
<1>6. map \in [0 .. ARCH_REGS - 1 -> Tags] /\ \A r \in 0 .. ARCH_REGS - 1 : map[r] = r
  BY <1>1, <1>2 DEF Tags
<1>7. \A i \in Slots : "valid" \in DOMAIN rob[i] /\ ~ rob[i].valid
  BY <1>2 DEF Empty
<1>8. \A i \in 1 .. IQ_SIZE : "valid" \in DOMAIN iq[i] /\ ~ iq[i].valid
  BY <1>2 DEF Empty
<1>9. Shape(c)
  <2>1. DOMAIN rob = Slots /\ DOMAIN iq = 1 .. IQ_SIZE
    BY <1>2
  <2>2. c.ingress \in Seq(Instr) /\ c.committed \in Nat
    BY <1>3
  <2> QED
    BY <1>3, <1>5, <1>6, <1>7, <1>8, <2>1, <2>2 DEF Shape
<1>10. RingInv(c)
  <2>1. \A i \in Slots : i >= 0 /\ Dist(0, i) \in Nat
    BY <1>1 DEF Dist, Slots
  <2>2. 0 \in Slots /\ 0 \in 0 .. ROB_SIZE /\ Ahead(0, 0) = 0
    BY <1>1 DEF Slots, Ahead
  <2>3. \A i \in Slots : ~ (Dist(0, i) < 0)
    BY <2>1
  <2> QED
    BY <1>3, <1>7, <2>2, <2>3 DEF RingInv
<1>11. QueueInv(c)
  <2>1. Queued(c) = {}
    BY <1>3, <1>8 DEF Queued
  <2> QED
    BY <1>3, <2>1, FS_EmptySet DEF QueueInv
<1>12. TagsInv(c)
  <2>1. Kept(c) = {}
    BY <1>3, <1>7 DEF Kept
  <2>2. \A r \in Regs : r \in 1 .. ARCH_REGS - 1 /\ map[r] = r /\ r \in Tags \ {0}
    BY <1>1, <1>6 DEF Regs, Tags
  <2>3. \A i \in 1 .. Len(free) : free[i] \in Tags \ {0} /\ free[i] >= ARCH_REGS
    BY <1>1, <1>4, <1>5 DEF Tags
  <2>4. \A i, j \in 1 .. Len(free) : free[i] = free[j] => i = j
    BY <1>1, <1>4, <1>5
  <2>5. \A i \in 1 .. Len(free), r \in Regs : free[i] # map[r]
    BY <1>1, <2>2, <2>3
  <2>6. ASSUME NEW t \in Tags \ {0}
        PROVE  (\E i \in 1 .. Len(free) : free[i] = t) \/ (\E r \in Regs : map[r] = t)
    <3>1. CASE t < ARCH_REGS
      <4>1. t \in Regs
        BY <1>1, <3>1 DEF Tags, Regs
      <4> QED
        BY <2>2, <4>1
    <3>2. CASE ~ (t < ARCH_REGS)
      <4>1. t - ARCH_REGS + 1 \in 1 .. n /\ free[t - ARCH_REGS + 1] = t
        BY <1>1, <1>5, <3>2 DEF Tags
      <4> QED
        BY <1>5, <4>1
    <3> QED
      BY <3>1, <3>2
  <2>7. Sharing(free, map, {}, Olds(c))
    BY <2>2, <2>3, <2>4, <2>5, <2>6 DEF Sharing
  <2> QED
    BY <1>3, <2>1, <2>7 DEF TagsInv
<1> QED
  BY <1>9, <1>10, <1>11, <1>12 DEF CoreInv, c

\* A cycle of the core keeps the invariant of its registers.
LEMMA CoreCycle ==
  ASSUME NEW c, NEW ring \in Seq(Instr), CoreInv(c)
  PROVE  LET next == Dispatched(Committed(WrittenBack([c EXCEPT !.ingress = ring])))
         IN  CoreInv(Issued(next, Chosen(next)))
<1>1. PICK d : d = [c EXCEPT !.ingress = ring]
  OBVIOUS
<1>2. DOMAIN c = CoreFields
  BY DEF CoreInv, Shape
<1>3. /\ DOMAIN d = CoreFields /\ d.ingress = ring /\ d.map = c.map /\ d.free = c.free
      /\ d.rob = c.rob /\ d.head = c.head /\ d.tail = c.tail /\ d.count = c.count
      /\ d.iq = c.iq /\ d.iqCount = c.iqCount /\ d.seq = c.seq /\ d.committed = c.committed
  BY <1>1, <1>2 DEF CoreFields
<1>4. CoreInv(d)
  <2>1. Shape(d)
    BY <1>3 DEF CoreInv, Shape
  <2>2. RingInv(d) /\ TagsInv(d)
    BY <1>3, SameRing DEF CoreInv
  <2>3. QueueInv(d)
    BY <1>3 DEF CoreInv, QueueInv, Queued
  <2> QED
    BY <2>1, <2>2, <2>3 DEF CoreInv
<1>5. PICK next : next = Dispatched(Committed(WrittenBack(d)))
  OBVIOUS
<1>6. CoreInv(next)
  <2>1. PICK w, m : w = WrittenBack(d) /\ m = Committed(w)
    OBVIOUS
  <2>2. CoreInv(w)
    BY <1>4, <2>1, WritebacksKeep
  <2>3. CoreInv(m)
    BY <2>1, <2>2, CommitsKeep
  <2>4. CoreInv(Dispatched(m))
    BY <2>3, DispatchesKeep
  <2> QED
    BY <1>5, <2>1, <2>4
<1>7. PICK chosen : chosen = Chosen(next) /\ chosen \in [Lanes -> {0} \cup Queued(next)]
  BY ChosenAreQueued
<1>8. CoreInv(Issued(next, chosen))
  BY <1>6, <1>7, IssueKeeps
<1> QED
  BY <1>1, <1>5, <1>7, <1>8

\* A reset establishes the invariant: nothing is fed, dispatched or filed.
LEMMA BackendInvInit == Init => BackendInv
<1> SUFFICES ASSUME Init
             PROVE  BackendInv
  OBVIOUS
<1>1. program \in Seq(Instr) /\ fed \in Nat
  BY ProgramsAssumption DEF Init
<1>2. push \in [Ports -> Seq(Instr)]
  BY DEF Init
<1>3. CoreInv(core)
  BY InitCoreInv DEF Init
<1> QED
  BY <1>1, <1>2, <1>3 DEF BackendInv

\* And every cycle keeps it.
LEMMA BackendInvNext == BackendInv /\ [Next]_vars => BackendInv'
<1> SUFFICES ASSUME BackendInv, [Next]_vars
             PROVE  BackendInv'
  OBVIOUS
<1>1. ASSUME NEW m, Cycle(m)
      PROVE  BackendInv'
  <2>1. PICK ports, ring : ports = Drained(push, core.ingress).ports
                           /\ ring = Drained(push, core.ingress).ring
    OBVIOUS
  <2>2. core.ingress \in Seq(Instr) /\ push \in [Ports -> Seq(Instr)] /\ CoreInv(core)
        /\ program \in Seq(Instr) /\ fed \in Nat
    BY DEF BackendInv, CoreInv, Shape
  <2>3. ring \in Seq(Instr) /\ ports \in [Ports -> Seq(Instr)]
    BY <2>1, <2>2, DrainKeeps
  <2>4. PICK next : next = Dispatched(Committed(WrittenBack([core EXCEPT !.ingress = ring])))
    OBVIOUS
  <2>5. core' = Issued(next, Chosen(next)) /\ program' = program
        /\ push' = Fed(m, ports).ports /\ fed' = Fed(m, ports).fed
    BY <1>1, <2>1, <2>4 DEF Cycle
  <2>6. CoreInv(Issued(next, Chosen(next)))
    <3>1. PICK c : c = core
      OBVIOUS
    <3> QED
      BY <2>2, <2>3, <2>4, <3>1, CoreCycle
  <2>7. fed' \in Nat /\ push' \in [Ports -> Seq(Instr)]
    BY <2>2, <2>3, <2>5, FeedKeeps
  <2>8. CoreInv(core')
    BY <2>5, <2>6
  <2> QED
    BY <2>2, <2>5, <2>7, <2>8 DEF BackendInv
<1>2. CASE HaltedCycle
  BY <1>2 DEF HaltedCycle, BackendInv
<1>3. CASE UNCHANGED vars
  BY <1>3 DEF vars, BackendInv
<1>4. CASE Offering
  <2>1. \E m : Cycle(m)
    BY <1>4 DEF Offering
  <2> QED
    BY <1>1, <2>1
<1> QED
  BY <1>2, <1>3, <1>4 DEF Next

\* In every state of the backend the registers of its core are in order.
THEOREM BackendIsSound == Spec => []BackendInv
<1>1. Init => BackendInv
  BY BackendInvInit
<1>2. BackendInv /\ [Next]_vars => BackendInv'
  BY BackendInvNext
<1> QED
  BY <1>1, <1>2, PTL DEF Spec

\* Where a tag is, told by the shape of the registers, is where TagsShareOut
\* looks for it.
LEMMA InvImpliesTagsShareOut == BackendInv => TagsShareOut
<1> SUFFICES ASSUME BackendInv
             PROVE  TagsShareOut
  OBVIOUS
<1> DEFINE kept == { i \in DOMAIN core.rob : core.rob[i].valid /\ core.rob[i].hasDest }
           places == ({"free"} \X DOMAIN core.free) \cup ({"map"} \X (1 .. ARCH_REGS - 1))
                       \cup ({"rob"} \X kept)
           Tag(p) == CASE p[1] = "free" -> core.free[p[2]]
                       [] p[1] = "map"  -> core.map[p[2]]
                       [] p[1] = "rob"  -> core.rob[p[2]].old
<1>1. PICK free, map, old, n :
        free = core.free /\ map = core.map /\ old = Olds(core) /\ n = Len(free)
  OBVIOUS
<1>0. DOMAIN free = 1 .. n
  <2>1. free \in Seq(Tags)
    BY <1>1 DEF BackendInv, CoreInv, Shape
  <2> QED
    BY <1>1, <2>1
<1>2. Sharing(free, map, kept, old)
  <2>1. kept = Kept(core)
    BY DEF BackendInv, CoreInv, Shape, Kept
  <2> QED
    BY <1>1, <2>1 DEF BackendInv, CoreInv, TagsInv
<1>3. \A i \in kept : old[i] = core.rob[i].old
  BY <1>1 DEF BackendInv, CoreInv, Shape, Olds
<1>4. /\ \A p \in places : \/ \E a \in 1 .. n : p = <<"free", a>>
                           \/ \E r \in Regs : p = <<"map", r>>
                           \/ \E i \in kept : p = <<"rob", i>>
      /\ \A a \in 1 .. n : <<"free", a>> \in places
      /\ \A r \in Regs : <<"map", r>> \in places
      /\ \A i \in kept : <<"rob", i>> \in places
  <2> HIDE DEF kept
  <2> QED
    BY <1>0, <1>1 DEF Regs
<1>5. /\ \A a \in 1 .. n : Tag(<<"free", a>>) = free[a]
      /\ \A r \in Regs : Tag(<<"map", r>>) = map[r]
      /\ \A i \in kept : Tag(<<"rob", i>>) = old[i]
  <2> HIDE DEF kept
  <2> QED
    BY <1>1, <1>3
<1>6. /\ { Tag(p) : p \in places } = Tags \ {0}
      /\ \A p, q \in places : Tag(p) = Tag(q) => p = q
  <2> HIDE DEF kept, places, Tag
  <2>0. /\ \A a \in 1 .. n : free[a] \in Tags \ {0}
        /\ \A r \in Regs : map[r] \in Tags \ {0}
        /\ \A i \in kept : old[i] \in Tags \ {0}
    BY <1>1, <1>2 DEF Sharing
  <2>1. ASSUME NEW p \in places
        PROVE  Tag(p) \in Tags \ {0}
    <3>1. CASE \E a \in 1 .. n : p = <<"free", a>>
      BY <1>5, <2>0, <3>1
    <3>2. CASE \E r \in Regs : p = <<"map", r>>
      BY <1>5, <2>0, <3>2
    <3>3. CASE \E i \in kept : p = <<"rob", i>>
      BY <1>5, <2>0, <3>3
    <3> QED
      BY <1>4, <3>1, <3>2, <3>3
  <2>2. ASSUME NEW t \in Tags \ {0}
        PROVE  \E p \in places : Tag(p) = t
    <3>0. \/ \E a \in 1 .. n : free[a] = t
          \/ \E r \in Regs : map[r] = t
          \/ \E i \in kept : old[i] = t
      BY <1>1, <1>2 DEF Sharing
    <3>1. CASE \E a \in 1 .. n : free[a] = t
      BY <1>4, <1>5, <3>1
    <3>2. CASE \E r \in Regs : map[r] = t
      BY <1>4, <1>5, <3>2
    <3>3. CASE \E i \in kept : old[i] = t
      BY <1>4, <1>5, <3>3
    <3> QED
      BY <3>0, <3>1, <3>2, <3>3
  <2>3. ASSUME NEW p \in places, NEW q \in places, Tag(p) = Tag(q)
        PROVE  p = q
    <3>1. CASE \E a \in 1 .. n : p = <<"free", a>>
      BY <1>1, <1>2, <1>4, <1>5, <2>3, <3>1 DEF Sharing
    <3>2. CASE \E r \in Regs : p = <<"map", r>>
      BY <1>1, <1>2, <1>4, <1>5, <2>3, <3>2 DEF Sharing
    <3>3. CASE \E i \in kept : p = <<"rob", i>>
      BY <1>1, <1>2, <1>4, <1>5, <2>3, <3>3 DEF Sharing
    <3> QED
      BY <1>4, <3>1, <3>2, <3>3
  <2> QED
    BY <2>1, <2>2, <2>3
<1> QED
  BY <1>6 DEF TagsShareOut

\* Every renaming tag is in exactly one place, for any number of registers,
\* tags, ports and lanes and any program (BackendCore.hpp:379-383, 436-444).
THEOREM TagsAreShared == Spec => []TagsShareOut
<1>1. BackendInv => TagsShareOut
  BY InvImpliesTagsShareOut
<1> QED
  BY <1>1, BackendIsSound, PTL

\* The rest of EntriesInOnePlace that is about the core alone: the ring of the
\* reorder buffer and the counter of the issue queue.
LEMMA InvImpliesCountersAgree == BackendInv => CountersAgree
<1> SUFFICES ASSUME BackendInv
             PROVE  CountersAgree
  OBVIOUS
<1>1. RingInv(core) /\ QueueInv(core)
  BY DEF BackendInv, CoreInv
<1>2. PICK R : R = ROB_SIZE /\ R \in Nat \ {0}
  BY SizesAssumption
<1>3. PICK h, n, done : h = core.head /\ n = core.count /\ done = core.committed
  OBVIOUS
<1>4. h \in Slots /\ n \in 0 .. R /\ done \in Nat
  BY <1>1, <1>2, <1>3 DEF RingInv, BackendInv, CoreInv, Shape
<1>5. ASSUME NEW i \in 1 .. n
      PROVE  InFlight[i].valid /\ InFlight[i].seq = done + i
  <2>1. i - 1 \in 0 .. R /\ i - 1 < n /\ i - 1 < R
    BY <1>2, <1>4
  <2>2. (h + (i - 1)) % ROB_SIZE = Ahead(h, i - 1) /\ Ahead(h, i - 1) \in Slots
    BY <1>2, <1>4, <2>1, Wrap
  <2>3. h + i - 1 = h + (i - 1)
    BY <1>2, <1>4 DEF Slots
  <2>4. InFlight[i] = core.rob[Ahead(h, i - 1)]
    BY <1>3, <2>2, <2>3 DEF InFlight
  <2>5. Dist(h, Ahead(h, i - 1)) = i - 1
    BY <1>2, <1>4, <2>1 DEF Dist, Ahead, Slots
  <2> QED
    BY <1>1, <1>3, <1>4, <2>1, <2>2, <2>4, <2>5 DEF RingInv
<1>6. core.tail = (h + n) % ROB_SIZE
  BY <1>1, <1>2, <1>3, <1>4, Wrap DEF RingInv
<1>7. core.iqCount = Cardinality(Waiting)
  <2> DEFINE Q == Queued(core)
             f == [i \in Q |-> core.iq[i]]
  <2>1. Waiting = { core.iq[i] : i \in Q }
    BY DEF Waiting, Queued
  <2>2. \A i, j \in Q : core.iq[i] = core.iq[j] => i = j
    BY <1>1 DEF QueueInv
  <2>3. IsFiniteSet(Q)
    <3>1. IsFiniteSet(1 .. IQ_SIZE)
      BY SizesAssumption, FS_Interval
    <3> QED
      BY <3>1, FS_Subset DEF Queued
  <2> HIDE DEF Q
  <2>4. f \in Bijection(Q, Waiting)
    BY <2>1, <2>2 DEF Bijection, Injection, IsInjective, Surjection
  <2>5. Cardinality(Waiting) = Cardinality(Q)
    <3>1. ExistsBijection(Q, Waiting)
      BY <2>4 DEF ExistsBijection
    <3> QED
      BY <2>3, <3>1, FS_Bijection
  <2> QED
    BY <1>1, <2>5 DEF QueueInv, Q
<1> QED
  BY <1>3, <1>5, <1>6, <1>7 DEF CountersAgree

\* The counters of the core agree with what it holds, so a dispatch never finds
\* the reorder buffer or the issue queue full (BackendCore.hpp:401-407).
THEOREM CountersAlwaysAgree == Spec => []CountersAgree
<1>1. BackendInv => CountersAgree
  BY InvImpliesCountersAgree
<1> QED
  BY <1>1, BackendIsSound, PTL


-----------------------------------------------------------------------------
(* The instructions that are not ready: in the issue queue or in a lane.   *)

\* What identifies an instruction wherever it is: its slot of the reorder
\* buffer, its destination and its number.
Tickets == [rob : Slots, dst : Tags, seq : Nat]

Ticket(x) == [rob |-> x.rob, dst |-> x.dst, seq |-> x.seq]

\* The slot that it names holds it, and it is not ready.
Filed(c, x) ==
  /\ x.rob \in Slots
  /\ c.rob[x.rob].valid /\ ~ c.rob[x.rob].ready
  /\ c.rob[x.rob].seq = x.seq /\ c.rob[x.rob].dst = x.dst

\* An instruction that is older than number s has still to write tag t.
Awaited(c, t, s) ==
  \E w \in Slots : c.rob[w].valid /\ ~ c.rob[w].ready /\ c.rob[w].dst = t /\ c.rob[w].seq < s

\* Every operand of the issue queue that waits, waits for such a one.
OperandsInv(c) ==
  \A i \in Queued(c) :
    /\ ~ c.iq[i].ready1 => Awaited(c, c.iq[i].tag1, c.iq[i].seq)
    /\ ~ c.iq[i].ready2 => Awaited(c, c.iq[i].tag2, c.iq[i].seq)

\* And so does every register.
RegistersInv(c) == \A r \in Regs : ~ c.ready[c.map[r]] => Awaited(c, c.map[r], c.seq)

\* The instructions of T, in the lanes, and those of the issue queue are filed,
\* and none is in both.
FilingInv(c, T) ==
  /\ T \in SUBSET Tickets
  /\ \A t \in T : Filed(c, t)
  /\ \A i \in Queued(c) : Filed(c, c.iq[i])
  /\ \A t \in T, i \in Queued(c) : t.seq # c.iq[i].seq

\* What the entries have, and that a memory lane's has a destination only if
\* it is a load.
EntryShape(c) ==
  /\ DOMAIN c.ready = Tags
  /\ \A i \in Slots : c.rob[i].valid => "dst" \in DOMAIN c.rob[i]
  /\ \A i \in Queued(c) :
       /\ {"rob", "dst", "seq", "op", "isLsu", "tag1", "ready1", "tag2", "ready2"} \subseteq DOMAIN c.iq[i]
       /\ c.iq[i].dst \in Tags
       /\ c.iq[i].isLsu /\ c.iq[i].dst # 0 => c.iq[i].op = "LOAD"

FlowInv(c, T) ==
  CoreInv(c) /\ EntryShape(c) /\ FilingInv(c, T) /\ OperandsInv(c) /\ RegistersInv(c)

\* What a write-back does to an entry of the issue queue.
LEMMA WokenEntry ==
  ASSUME NEW e, NEW wb, e.valid,
         {"valid", "rob", "dst", "seq", "op", "isLsu", "tag1", "ready1", "tag2", "ready2"} \subseteq DOMAIN e
  PROVE  /\ DOMAIN Woken(e, wb) = DOMAIN e /\ Woken(e, wb).valid
         /\ Woken(e, wb).rob = e.rob /\ Woken(e, wb).dst = e.dst /\ Woken(e, wb).seq = e.seq
         /\ Woken(e, wb).op = e.op /\ Woken(e, wb).isLsu = e.isLsu
         /\ Woken(e, wb).tag1 = e.tag1 /\ Woken(e, wb).tag2 = e.tag2
         /\ ~ Woken(e, wb).ready1 => ~ e.ready1 /\ e.tag1 # wb.dst
         /\ ~ Woken(e, wb).ready2 => ~ e.ready2 /\ e.tag2 # wb.dst
BY DEF Woken

\* A write-back wakes every operand that waits for the entry it makes ready.
LEMMA FlowWriteback ==
  ASSUME NEW c, NEW T, NEW l, NEW q, NEW wb, FlowInv(c, T),
         q = IF l \in AluLanes THEN alu[l].resultq ELSE lsu[l].resultq, q # <<>>, wb = Head(q),
         Ticket(wb) \in T, wb.dst # 0 => wb.hasDest
  PROVE  FlowInv(WritebackOf(c, l), T \ {Ticket(wb)})
<1>1. PICK d : d = WritebackOf(c, l)
  OBVIOUS
<1>2. d = Writeback(c, wb)
  BY <1>1 DEF WritebackOf
<1>3. CoreInv(d)
  BY <1>1, WritebackKeeps DEF FlowInv
<1>4. /\ DOMAIN c = CoreFields /\ DOMAIN c.rob = Slots /\ DOMAIN c.iq = 1 .. IQ_SIZE /\ DOMAIN c.ready = Tags
      /\ \A i \in Slots : c.rob[i].valid => {"hasDest", "old", "seq", "ready"} \subseteq DOMAIN c.rob[i]
      /\ \A i \in 1 .. IQ_SIZE : "valid" \in DOMAIN c.iq[i]
  BY DEF FlowInv, CoreInv, Shape, EntryShape
<1>5. /\ d.map = c.map /\ d.seq = c.seq
      /\ d.rob = [c.rob EXCEPT ![wb.rob].ready = TRUE]
      /\ d.ready = IF wb.hasDest /\ wb.dst # 0 THEN [c.ready EXCEPT ![wb.dst] = TRUE] ELSE c.ready
  BY <1>2, <1>4 DEF Writeback, CoreFields
<1>50. \A i \in 1 .. IQ_SIZE : d.iq[i] = Woken(c.iq[i], wb)
  <2>1. d.iq = [i \in 1 .. IQ_SIZE |-> Woken(c.iq[i], wb)]
    BY <1>2, <1>4 DEF Writeback, CoreFields
  <2> QED
    BY <2>1
<1>6. /\ wb.rob \in Slots /\ wb.dst \in Tags /\ c.rob[wb.rob].valid /\ ~ c.rob[wb.rob].ready
      /\ c.rob[wb.rob].dst = wb.dst /\ c.rob[wb.rob].seq = wb.seq
  <2>1. Filed(c, Ticket(wb)) /\ Ticket(wb) \in Tickets
    BY DEF FlowInv, FilingInv
  <2> QED
    BY <2>1 DEF Filed, Ticket, Tickets
<1>7. /\ \A i \in Slots : i # wb.rob => d.rob[i] = c.rob[i]
      /\ d.rob[wb.rob] = [c.rob[wb.rob] EXCEPT !.ready = TRUE]
  BY <1>4, <1>5, <1>6
<1>8. /\ "dst" \in DOMAIN d.rob[wb.rob] /\ d.rob[wb.rob].ready /\ d.rob[wb.rob].dst = wb.dst
  <2>1. PICK e : e = c.rob[wb.rob]
    OBVIOUS
  <2>2. {"ready", "dst"} \subseteq DOMAIN e
    BY <1>4, <1>6, <2>1 DEF FlowInv, EntryShape
  <2> QED
    BY <1>6, <1>7, <2>1, <2>2
<1>9. ASSUME NEW i \in 1 .. IQ_SIZE
      PROVE  d.iq[i].valid <=> c.iq[i].valid
  <2>1. PICK e : e = c.iq[i] /\ "valid" \in DOMAIN e
    BY <1>4
  <2>2. Woken(e, wb).valid <=> e.valid
    BY <2>1 DEF Woken
  <2> QED
    BY <1>50, <2>1, <2>2
<1>10. Queued(d) = Queued(c)
  BY <1>9 DEF Queued
<1>11. ASSUME NEW i \in Queued(c)
       PROVE  /\ DOMAIN d.iq[i] = DOMAIN c.iq[i]
              /\ {"rob", "dst", "seq", "op", "isLsu", "tag1", "ready1", "tag2", "ready2"} \subseteq DOMAIN c.iq[i]
              /\ d.iq[i].rob = c.iq[i].rob /\ d.iq[i].dst = c.iq[i].dst /\ d.iq[i].seq = c.iq[i].seq
              /\ d.iq[i].op = c.iq[i].op /\ d.iq[i].isLsu = c.iq[i].isLsu
              /\ d.iq[i].tag1 = c.iq[i].tag1 /\ d.iq[i].tag2 = c.iq[i].tag2
              /\ ~ d.iq[i].ready1 => ~ c.iq[i].ready1 /\ c.iq[i].tag1 # wb.dst
              /\ ~ d.iq[i].ready2 => ~ c.iq[i].ready2 /\ c.iq[i].tag2 # wb.dst
  <2>0. i \in 1 .. IQ_SIZE
    BY DEF Queued
  <2>1. PICK e : e = c.iq[i]
    OBVIOUS
  <2>2. e.valid /\ "valid" \in DOMAIN e
        /\ {"rob", "dst", "seq", "op", "isLsu", "tag1", "ready1", "tag2", "ready2"} \subseteq DOMAIN e
    BY <1>4, <2>0, <2>1 DEF Queued, FlowInv, EntryShape
  <2>3. {"valid", "rob", "dst", "seq", "op", "isLsu", "tag1", "ready1", "tag2", "ready2"} \subseteq DOMAIN e
    BY <2>2
  <2>4. d.iq[i] = Woken(e, wb)
    BY <1>50, <2>0, <2>1
  <2> QED
    BY <2>1, <2>2, <2>3, <2>4, WokenEntry
<1>12. EntryShape(d)
  <2>1. DOMAIN d.ready = Tags
    BY <1>4, <1>5
  <2>2. ASSUME NEW i \in Slots, d.rob[i].valid
        PROVE  "dst" \in DOMAIN d.rob[i]
    BY <1>7, <1>8, <2>2 DEF FlowInv, EntryShape
  <2>3. ASSUME NEW i \in Queued(c)
        PROVE  /\ c.iq[i].dst \in Tags
               /\ c.iq[i].isLsu /\ c.iq[i].dst # 0 => c.iq[i].op = "LOAD"
    BY DEF FlowInv, EntryShape
  <2> QED
    BY <1>10, <1>11, <2>1, <2>2, <2>3 DEF EntryShape
<1>13. ASSUME NEW x, Filed(c, x), x.rob # wb.rob
       PROVE  Filed(d, x)
  BY <1>7, <1>13 DEF Filed
<1>14. FilingInv(d, T \ {Ticket(wb)})
  <2>1. ASSUME NEW t \in T \ {Ticket(wb)}
        PROVE  Filed(d, t)
    <3>1. Filed(c, t) /\ t \in Tickets
      BY DEF FlowInv, FilingInv
    <3>2. t.rob # wb.rob
      <4>1. SUFFICES ASSUME t.rob = wb.rob
                     PROVE  FALSE
        OBVIOUS
      <4>2. t.seq = wb.seq /\ t.dst = wb.dst
        BY <1>6, <3>1, <4>1 DEF Filed
      <4>3. t = Ticket(wb)
        BY <3>1, <4>1, <4>2 DEF Tickets, Ticket
      <4> QED
        BY <4>3
    <3> QED
      BY <1>13, <3>1, <3>2
  <2>2. ASSUME NEW i \in Queued(c)
        PROVE  Filed(d, d.iq[i])
    <3>1. Filed(c, c.iq[i]) /\ c.iq[i].seq # wb.seq
      BY DEF FlowInv, FilingInv, Ticket
    <3>2. c.iq[i].rob # wb.rob
      BY <1>6, <3>1 DEF Filed
    <3>3. Filed(d, c.iq[i])
      BY <1>13, <3>1, <3>2
    <3> QED
      BY <1>11, <3>3 DEF Filed
  <2>3. T \in SUBSET Tickets /\ \A t \in T, i \in Queued(c) : t.seq # c.iq[i].seq
    BY DEF FlowInv, FilingInv
  <2>4. \A t \in T, i \in Queued(d) : t.seq # d.iq[i].seq
    BY <1>10, <1>11, <2>3
  <2> QED
    BY <1>10, <2>1, <2>2, <2>3, <2>4 DEF FilingInv
<1>15. ASSUME NEW t, NEW s, t # wb.dst, Awaited(c, t, s)
       PROVE  Awaited(d, t, s)
  BY <1>6, <1>7, <1>15 DEF Awaited
<1>16. OperandsInv(d)
  BY <1>10, <1>11, <1>15 DEF OperandsInv, FlowInv
<1>17. RegistersInv(d)
  <2> SUFFICES ASSUME NEW r \in Regs, ~ d.ready[d.map[r]]
               PROVE  Awaited(d, d.map[r], d.seq)
    BY DEF RegistersInv
  <2>1. PICK t : t = c.map[r] /\ t \in Tags \ {0}
    BY DEF FlowInv, CoreInv, TagsInv, Sharing
  <2>2. t # wb.dst /\ ~ c.ready[t]
    BY <1>4, <1>5, <1>6, <2>1
  <2> QED
    BY <1>5, <1>15, <2>1, <2>2 DEF FlowInv, RegistersInv
<1> QED
  BY <1>1, <1>3, <1>12, <1>14, <1>16, <1>17 DEF FlowInv

\* A commit takes a ready instruction away, which nobody waits for.
LEMMA FlowCommit ==
  ASSUME NEW c, NEW T, NEW k, FlowInv(c, T)
  PROVE  FlowInv(CommitOne(c, k), T)
<1> DEFINE h == c.head
           e == c.rob[h]
           d == CommitOne(c, k)
<1>1. CASE c.count = 0 \/ ~ e.valid \/ ~ e.ready
  BY <1>1 DEF CommitOne
<1>2. CASE ~ (c.count = 0 \/ ~ e.valid \/ ~ e.ready)
  <2>1. DOMAIN c = CoreFields /\ DOMAIN c.rob = Slots /\ h \in Slots
    BY DEF FlowInv, CoreInv, Shape, RingInv
  <2>2. /\ d.map = c.map /\ d.seq = c.seq /\ d.iq = c.iq /\ d.ready = c.ready
        /\ d.rob = [c.rob EXCEPT ![h] = Empty]
    BY <1>2, <2>1 DEF CommitOne, CoreFields
  <2>3. CoreInv(d)
    BY CommitKeeps DEF FlowInv
  <2> HIDE DEF d
  <2>4. /\ ~ d.rob[h].valid /\ \A i \in Slots : i # h => d.rob[i] = c.rob[i]
    BY <2>1, <2>2 DEF Empty
  <2>5. Queued(d) = Queued(c)
    BY <2>2 DEF Queued
  <2>6. ASSUME NEW x, Filed(c, x)
        PROVE  Filed(d, x)
    BY <1>2, <2>4, <2>6 DEF Filed
  <2>7. ASSUME NEW t, NEW s, Awaited(c, t, s)
        PROVE  Awaited(d, t, s)
    BY <1>2, <2>4, <2>7 DEF Awaited
  <2>8. EntryShape(d)
    BY <2>2, <2>4, <2>5 DEF EntryShape, FlowInv
  <2>9. FilingInv(d, T)
    BY <2>2, <2>5, <2>6 DEF FilingInv, FlowInv
  <2>10. OperandsInv(d)
    BY <2>2, <2>5, <2>7 DEF OperandsInv, FlowInv
  <2>11. RegistersInv(d)
    BY <2>2, <2>7 DEF RegistersInv, FlowInv
  <2> QED
    BY <2>3, <2>8, <2>9, <2>10, <2>11 DEF FlowInv, d
<1> QED
  BY <1>1, <1>2

\* The number of the next instruction to be dispatched.
LEMMA SeqIsNat ==
  ASSUME NEW c, CoreInv(c)
  PROVE  c.seq \in Nat
<1>1. PICK n, done : n = c.count /\ done = c.committed
  OBVIOUS
<1>2. c.seq = done + n + 1 /\ done \in Nat
  BY <1>1 DEF CoreInv, Shape, RingInv
<1>3. n \in 0 .. ROB_SIZE
  BY <1>1 DEF CoreInv, RingInv
<1> QED
  BY <1>2, <1>3, SizesAssumption

\* A filed instruction is older than the next to be dispatched.
LEMMA FiledIsOlder ==
  ASSUME NEW c, NEW x, CoreInv(c), Filed(c, x)
  PROVE  x.seq \in Nat /\ x.seq < c.seq
<1>1. PICK i : i = x.rob /\ i \in Slots
  BY DEF Filed
<1>2. c.rob[i].valid /\ x.seq = c.rob[i].seq
  BY <1>1 DEF Filed
<1>3. PICK k, n, done : k = Dist(c.head, i) /\ n = c.count /\ done = c.committed
  OBVIOUS
<1>4. RingInv(c) /\ done \in Nat
  BY <1>3 DEF CoreInv, Shape
<1>5. k < n /\ x.seq = done + 1 + k /\ c.seq = done + n + 1
  BY <1>1, <1>2, <1>3, <1>4 DEF RingInv
<1>6. PICK R, h : R = ROB_SIZE /\ R \in Nat \ {0} /\ h = c.head /\ h \in 0 .. R - 1 /\ n \in 0 .. R
  BY <1>3, <1>4, SizesAssumption DEF RingInv, Slots
<1>7. i \in 0 .. R - 1 /\ k = IF i >= h THEN i - h ELSE i - h + R
  BY <1>1, <1>3, <1>6 DEF Dist, Slots
<1>8. k \in Nat
  BY <1>6, <1>7
<1> QED
  BY <1>4, <1>5, <1>6, <1>8

\* What is dispatched waits for writers that are in flight, and is the writer
\* that the next readers of its destination wait for.
LEMMA FlowDispatch ==
  ASSUME NEW c, NEW T, NEW x, NEW k \in Nat, k >= 1, FlowInv(c, T), Room(c, k)
  PROVE  FlowInv(DispatchOne(c, x), T)
<1> DEFINE inst == Head(c.ingress)
           need == Toy!WritesDest(inst)
           free == { i \in 1 .. IQ_SIZE : ~ c.iq[i].valid }
           dst == IF need THEN Head(c.free) ELSE 0
           d == DispatchOne(c, x)
           t == c.tail
<1>1. CASE free = {}
  <2>1. d = c
    BY <1>1 DEF DispatchOne
  <2> QED
    BY <2>1
<1>2. CASE free # {}
  <2>1. /\ DOMAIN c = CoreFields /\ DOMAIN c.rob = Slots /\ DOMAIN c.iq = 1 .. IQ_SIZE
        /\ c.ingress \in Seq(Instr) /\ c.free \in Seq(Tags) /\ DOMAIN c.ready = Tags
        /\ c.map \in [0 .. ARCH_REGS - 1 -> Tags] /\ CoreInv(c)
    BY DEF FlowInv, CoreInv, Shape, EntryShape
  <2>2. PICK ne, qe : ne = RobEntry(c, inst, dst) /\ qe = IqEntry(c, inst, dst)
    OBVIOUS
  <2>3. /\ d.map = (IF need THEN [c.map EXCEPT ![inst.rd] = dst] ELSE c.map)
        /\ d.ready = (IF need THEN [c.ready EXCEPT ![dst] = FALSE] ELSE c.ready)
        /\ d.seq = c.seq + 1
    BY <1>2, <2>1 DEF DispatchOne, CoreFields
  <2>4. d.rob = [c.rob EXCEPT ![t] = ne]
    BY <1>2, <2>1, <2>2 DEF DispatchOne, CoreFields
  <2>5. d.iq = [c.iq EXCEPT ![Min(free)] = qe]
    BY <1>2, <2>1, <2>2 DEF DispatchOne, CoreFields
  <2>6. PICK m \in 1 .. IQ_SIZE : m = Min(free) /\ ~ c.iq[m].valid
    BY <1>2, FirstFree
  <2>7. CoreInv(d)
    BY <2>1, DispatchKeeps
  <2> HIDE DEF d
  <2>8. Len(c.ingress) \in Nat /\ c.ingress # <<>> /\ inst \in Instr
    <3>1. Len(c.ingress) \in Nat /\ Len(c.ingress) >= 1
      BY <2>1 DEF Room
    <3>2. c.ingress # <<>>
      BY <3>1
    <3> QED
      BY <2>1, <3>1, <3>2, TailFacts
  <2>9. 1 \in 1 .. Len(c.free) /\ Head(c.free) = c.free[1] /\ Head(c.free) \in Tags
    <3>1. Len(c.free) \in Nat /\ Len(c.free) >= 1
      BY <2>1 DEF Room
    <3>2. c.free # <<>>
      BY <3>1
    <3> QED
      BY <2>1, <3>1, <3>2, TailFacts
  <2>10. /\ inst.rd \in 0 .. ARCH_REGS - 1 /\ inst.src1 \in 0 .. ARCH_REGS - 1
         /\ inst.src2 \in 0 .. ARCH_REGS - 1 /\ (need => inst.rd \in Regs)
         /\ need => inst.op # "STORE"
    <3>1. inst.rd \in 0 .. ARCH_REGS - 1 /\ inst.src1 \in 0 .. ARCH_REGS - 1 /\ inst.src2 \in 0 .. ARCH_REGS - 1
      BY <2>8 DEF Instr
    <3>2. need => inst.rd # 0 /\ inst.op # "STORE"
      BY DEF Toy!WritesDest
    <3> QED
      BY <3>1, <3>2 DEF Regs
  <2>11. dst \in Tags /\ (need => dst # 0) /\ (~ need => dst = 0)
    <3>1. 0 \in Tags
      BY SizesAssumption DEF Tags
    <3>2. c.free[1] \in Tags \ {0}
      BY <2>1, <2>9 DEF CoreInv, TagsInv, Sharing
    <3> QED
      BY <2>9, <3>1, <3>2
  <2>12. \A r \in Regs : r \in 0 .. ARCH_REGS - 1 /\ c.map[r] \in Tags \ {0} /\ (need => c.map[r] # dst)
    <3>1. \A r \in Regs : r \in 0 .. ARCH_REGS - 1
      BY SizesAssumption DEF Regs
    <3> QED
      BY <2>1, <2>9, <3>1 DEF CoreInv, TagsInv, Sharing
  <2> HIDE DEF dst
  <2>13. /\ ne.valid /\ ~ ne.ready /\ ne.dst = dst /\ ne.seq = c.seq /\ "dst" \in DOMAIN ne
    <3> HIDE DEF inst
    <3> QED
      BY <2>2 DEF RobEntry
  <2>14. /\ qe.valid /\ qe.rob = t /\ qe.dst = dst /\ qe.seq = c.seq /\ qe.op = inst.op
         /\ (qe.isLsu <=> Toy!IsLsu(inst))
         /\ {"rob", "dst", "seq", "op", "isLsu", "tag1", "ready1", "tag2", "ready2"} \subseteq DOMAIN qe
    <3> HIDE DEF inst
    <3> QED
      BY <2>2 DEF IqEntry
  <2>15. /\ ~ qe.ready1 => inst.src1 # 0 /\ qe.tag1 = c.map[inst.src1] /\ ~ c.ready[c.map[inst.src1]]
         /\ ~ qe.ready2 => inst.src2 # 0 /\ qe.tag2 = c.map[inst.src2] /\ ~ c.ready[c.map[inst.src2]]
    <3> HIDE DEF inst
    <3> QED
      BY <2>2 DEF IqEntry
  <2>16. qe.isLsu /\ qe.dst # 0 => qe.op = "LOAD"
    BY <2>10, <2>11, <2>14 DEF Toy!IsLsu
  <2> HIDE DEF inst, need, free
  <2>17. t \in Slots /\ ~ c.rob[t].valid
    <3>0. PICK R : R = ROB_SIZE /\ R \in Nat \ {0}
      BY SizesAssumption
    <3>1. /\ c.head \in 0 .. R - 1 /\ c.count \in 0 .. R - 1 /\ t = Ahead(c.head, c.count)
          /\ t \in Slots
      BY <2>1, <3>0 DEF CoreInv, RingInv, Room, Ahead, Slots
    <3>2. Dist(c.head, t) = c.count
      BY <3>0, <3>1 DEF Dist, Ahead
    <3>3. c.rob[t].valid <=> Dist(c.head, t) < c.count
      BY <2>1, <3>1 DEF CoreInv, RingInv
    <3> QED
      BY <3>1, <3>2, <3>3
  <2>18. d.rob[t] = ne /\ \A i \in Slots : i # t => d.rob[i] = c.rob[i]
    BY <2>1, <2>4, <2>17
  <2>19. d.iq[m] = qe /\ \A i \in 1 .. IQ_SIZE : i # m => d.iq[i] = c.iq[i]
    BY <2>1, <2>5, <2>6
  <2>20. Queued(d) = Queued(c) \cup {m} /\ m \notin Queued(c) /\ \A i \in Queued(c) : d.iq[i] = c.iq[i]
    BY <2>6, <2>14, <2>19 DEF Queued
  <2>21. ASSUME NEW y, Filed(c, y)
         PROVE  Filed(d, y) /\ y.seq # c.seq
    <3>1. y.rob # t
      BY <2>17, <2>21 DEF Filed
    <3>2. y.seq \in Nat /\ y.seq < c.seq
      BY <2>1, <2>21, FiledIsOlder
    <3>3. Filed(d, y)
      BY <2>18, <2>21, <3>1 DEF Filed
    <3>4. c.seq \in Nat
      BY <2>1, SeqIsNat
    <3> QED
      BY <3>2, <3>3, <3>4
  <2>22. ASSUME NEW u, NEW s, Awaited(c, u, s)
         PROVE  Awaited(d, u, s)
    BY <2>17, <2>18, <2>22 DEF Awaited
  <2>23. EntryShape(d)
    <3>1. DOMAIN d.ready = Tags
      BY <2>1, <2>3
    <3>2. \A i \in Slots : d.rob[i].valid => "dst" \in DOMAIN d.rob[i]
      BY <2>13, <2>18 DEF FlowInv, EntryShape
    <3>3. ASSUME NEW i \in Queued(d)
          PROVE  /\ {"rob", "dst", "seq", "op", "isLsu", "tag1", "ready1", "tag2", "ready2"} \subseteq DOMAIN d.iq[i]
                 /\ d.iq[i].dst \in Tags
                 /\ d.iq[i].isLsu /\ d.iq[i].dst # 0 => d.iq[i].op = "LOAD"
      <4>1. CASE i = m
        BY <2>11, <2>14, <2>16, <2>19, <4>1
      <4>2. CASE i \in Queued(c)
        BY <2>20, <4>2 DEF FlowInv, EntryShape
      <4> QED
        BY <2>20, <4>1, <4>2
    <3> QED
      BY <3>1, <3>2, <3>3 DEF EntryShape
  <2>24. FilingInv(d, T)
    <3>1. Filed(d, qe)
      BY <2>13, <2>14, <2>17, <2>18 DEF Filed
    <3>2. \A u \in T : Filed(d, u) /\ u.seq # qe.seq
      BY <2>14, <2>21 DEF FlowInv, FilingInv
    <3>3. \A i \in Queued(c) : Filed(d, d.iq[i])
      BY <2>20, <2>21 DEF FlowInv, FilingInv
    <3>4. \A u \in T, i \in Queued(d) : u.seq # d.iq[i].seq
      BY <2>19, <2>20, <3>2 DEF FlowInv, FilingInv
    <3>5. \A i \in Queued(d) : Filed(d, d.iq[i])
      BY <2>19, <2>20, <3>1, <3>3
    <3> QED
      BY <3>2, <3>4, <3>5 DEF FlowInv, FilingInv
  <2>25. OperandsInv(d)
    <3>1. \A r \in 0 .. ARCH_REGS - 1 : r # 0 => r \in Regs
      BY SizesAssumption DEF Regs
    <3>2. \A r \in Regs : ~ c.ready[c.map[r]] => Awaited(d, c.map[r], c.seq)
      BY <2>22 DEF FlowInv, RegistersInv
    <3>3. /\ ~ qe.ready1 => Awaited(d, qe.tag1, qe.seq)
          /\ ~ qe.ready2 => Awaited(d, qe.tag2, qe.seq)
      BY <2>10, <2>14, <2>15, <3>1, <3>2
    <3>4. \A i \in Queued(c) :
            /\ ~ d.iq[i].ready1 => Awaited(d, d.iq[i].tag1, d.iq[i].seq)
            /\ ~ d.iq[i].ready2 => Awaited(d, d.iq[i].tag2, d.iq[i].seq)
      BY <2>20, <2>22 DEF FlowInv, OperandsInv
    <3> QED
      BY <2>19, <2>20, <3>3, <3>4 DEF OperandsInv
  <2>26. RegistersInv(d)
    <3>0. c.seq \in Nat
      BY <2>1, SeqIsNat
    <3> SUFFICES ASSUME NEW r \in Regs, ~ d.ready[d.map[r]]
                 PROVE  Awaited(d, d.map[r], d.seq)
      BY DEF RegistersInv
    <3>1. CASE need /\ r = inst.rd
      <4>1. d.map[r] = dst
        BY <2>1, <2>3, <2>12, <3>1
      <4> QED
        BY <2>3, <2>13, <2>17, <2>18, <3>0, <4>1 DEF Awaited
    <3>2. CASE ~ (need /\ r = inst.rd)
      <4>1. d.map[r] = c.map[r]
        BY <2>1, <2>3, <2>12, <3>2
      <4>2. ~ c.ready[c.map[r]]
        BY <2>1, <2>3, <2>11, <2>12, <4>1
      <4>3. Awaited(c, c.map[r], c.seq)
        BY <4>2 DEF FlowInv, RegistersInv
      <4>4. PICK w \in Slots : /\ d.rob[w].valid /\ ~ d.rob[w].ready /\ d.rob[w].dst = c.map[r]
                               /\ d.rob[w].seq < c.seq /\ w # t
        BY <2>17, <2>18, <4>3 DEF Awaited
      <4>5. d.rob[w].seq \in Nat
        <5>1. Filed(d, [rob |-> w, seq |-> d.rob[w].seq, dst |-> d.rob[w].dst])
          BY <4>4 DEF Filed
        <5>2. PICK y : y = [rob |-> w, seq |-> d.rob[w].seq, dst |-> d.rob[w].dst]
          OBVIOUS
        <5>3. y.seq \in Nat
          BY <2>7, <5>1, <5>2, FiledIsOlder
        <5> QED
          BY <5>2, <5>3
      <4>6. d.rob[w].seq < d.seq
        BY <2>3, <3>0, <4>4, <4>5
      <4> QED
        BY <4>1, <4>4, <4>6 DEF Awaited
    <3> QED
      BY <3>1, <3>2
  <2> QED
    BY <2>7, <2>23, <2>24, <2>25, <2>26 DEF FlowInv, d
<1> QED
  BY <1>1, <1>2

\* What issues is in the lanes afterwards and not in the queue.
LEMMA FlowIssue ==
  ASSUME NEW c, NEW T, NEW chosen \in [Lanes -> {0} \cup Queued(c)], FlowInv(c, T)
  PROVE  FlowInv(Issued(c, chosen),
                 T \cup { Ticket(c.iq[i]) : i \in { chosen[l] : l \in Lanes } \ {0} })
<1> DEFINE gone == { chosen[l] : l \in DOMAIN chosen } \ {0}
           d == Issued(c, chosen)
           U == T \cup { Ticket(c.iq[i]) : i \in gone }
<1>1. DOMAIN c = CoreFields /\ DOMAIN c.iq = 1 .. IQ_SIZE
  BY DEF FlowInv, CoreInv, Shape
<1>2. /\ d.map = c.map /\ d.rob = c.rob /\ d.seq = c.seq /\ d.ready = c.ready
      /\ d.iq = [i \in 1 .. IQ_SIZE |-> IF i \in gone THEN Empty ELSE c.iq[i]]
  BY <1>1 DEF Issued, CoreFields
<1>3. gone \in SUBSET Queued(c) /\ Queued(c) \in SUBSET (1 .. IQ_SIZE)
  BY DEF Queued
<1>4. CoreInv(d)
  BY IssueKeeps DEF FlowInv
<1>5. { chosen[l] : l \in Lanes } \ {0} = gone
  OBVIOUS
<1> HIDE DEF gone, d
<1>6. Queued(d) = Queued(c) \ gone /\ \A i \in Queued(d) : d.iq[i] = c.iq[i]
  BY <1>2, <1>3 DEF Queued, Empty
<1>7. \A y : Filed(c, y) => Filed(d, y)
  BY <1>2 DEF Filed
<1>8. \A t, s : Awaited(c, t, s) => Awaited(d, t, s)
  BY <1>2 DEF Awaited
<1>9. EntryShape(d)
  BY <1>2, <1>6 DEF FlowInv, EntryShape
<1>10. FilingInv(d, U)
  <2>1. ASSUME NEW i \in gone
        PROVE  /\ Ticket(c.iq[i]) \in Tickets /\ Filed(d, Ticket(c.iq[i]))
               /\ \A j \in Queued(d) : Ticket(c.iq[i]).seq # c.iq[j].seq
    <3>1. PICK e : e = c.iq[i]
      OBVIOUS
    <3>2. i \in Queued(c) /\ Filed(c, e) /\ e.dst \in Tags
      BY <1>3, <3>1 DEF FlowInv, FilingInv, EntryShape
    <3>3. e.seq \in Nat
      BY <3>2, FiledIsOlder DEF FlowInv
    <3>4. \A j \in Queued(d) : e.seq # c.iq[j].seq
      <4>1. \A j \in Queued(d) : j \in Queued(c) /\ j # i
        BY <1>6
      <4> QED
        BY <3>1, <3>2, <4>1 DEF FlowInv, CoreInv, QueueInv
    <3>5. Filed(c, Ticket(e)) /\ Ticket(e) \in Tickets /\ Ticket(e).seq = e.seq
      BY <3>2, <3>3 DEF Filed, Ticket, Tickets
    <3> QED
      BY <1>7, <3>1, <3>4, <3>5
  <2>2. \A t \in T : t \in Tickets /\ Filed(d, t) /\ \A j \in Queued(d) : t.seq # c.iq[j].seq
    BY <1>6, <1>7 DEF FlowInv, FilingInv
  <2>3. \A t \in U : t \in Tickets /\ Filed(d, t) /\ \A j \in Queued(d) : t.seq # c.iq[j].seq
    BY <2>1, <2>2
  <2>4. \A j \in Queued(d) : Filed(d, c.iq[j])
    BY <1>6, <1>7 DEF FlowInv, FilingInv
  <2> HIDE DEF U
  <2> QED
    BY <1>6, <2>3, <2>4 DEF FilingInv
<1>11. OperandsInv(d)
  BY <1>6, <1>8 DEF FlowInv, OperandsInv
<1>12. RegistersInv(d)
  BY <1>2, <1>8 DEF FlowInv, RegistersInv
<1>13. FlowInv(d, U)
  BY <1>4, <1>9, <1>10, <1>11, <1>12 DEF FlowInv
<1> QED
  BY <1>5, <1>13 DEF d

-----------------------------------------------------------------------------
(* The lanes.                                                              *)

\* A lane holds an instruction in its request queue, a slot or its result
\* queue: k says which, i where.
Kinds == {"in", "slot", "out"}

Has(lane, k, i) ==
  \/ k = "in" /\ i \in 1 .. Len(lane.issueq)
  \/ k = "slot" /\ i \in 1 .. PIPE_SLOTS /\ lane.slots[i].valid
  \/ k = "out" /\ i \in 1 .. Len(lane.resultq)

Item(lane, k, i) ==
  CASE k = "in"   -> lane.issueq[i]
    [] k = "slot" -> lane.slots[i].req
    [] k = "out"  -> lane.resultq[i]

IsASeq(s) == \E S : s \in Seq(S)

\* What a lane holds names an instruction, and if that has a destination its
\* result says so: the request is to an arithmetic lane, or a load.
ItemOk(mem, k, x) ==
  /\ x.rob \in Slots /\ x.dst \in Tags /\ x.seq \in Nat
  /\ k = "out" /\ x.dst # 0 => x.hasDest
  /\ mem /\ k # "out" /\ x.dst # 0 => x.op = "LOAD"

LaneOk(lane, mem) ==
  /\ IsASeq(lane.issueq) /\ IsASeq(lane.resultq)
  /\ DOMAIN lane.slots = 1 .. PIPE_SLOTS
  /\ \A s \in 1 .. PIPE_SLOTS : /\ "valid" \in DOMAIN lane.slots[s]
                                /\ lane.slots[s].valid => "req" \in DOMAIN lane.slots[s]
  /\ \A k \in Kinds, i \in Nat : Has(lane, k, i) => ItemOk(mem, k, Item(lane, k, i))

\* No two of them are the same instruction.
Apart(lanes) ==
  \A l, m \in Lanes, k, n \in Kinds, i, j \in Nat :
    /\ Has(lanes[l], k, i) /\ Has(lanes[m], n, j)
    /\ Item(lanes[l], k, i).seq = Item(lanes[m], n, j).seq
    => l = m /\ k = n /\ i = j

LanesInv(lanes) ==
  /\ \A l \in Lanes : LaneOk(lanes[l], l \in LsuLanes)
  /\ Apart(lanes)

\* The instructions in the lanes, when the first results of the first n lanes
\* are written back.
Held(lanes, n) ==
  { t \in Tickets : \E l \in Lanes, k \in Kinds, i \in Nat :
      /\ Has(lanes[l], k, i) /\ t = Ticket(Item(lanes[l], k, i))
      /\ ~ (l <= n /\ k = "out" /\ i = 1) }

AllLanes == [l \in Lanes |-> IF l \in AluLanes THEN alu[l] ELSE lsu[l]]

OrderInv ==
  /\ BackendInv
  /\ DOMAIN alu = AluLanes /\ DOMAIN lsu = LsuLanes
  /\ LanesInv(AllLanes) /\ FlowInv(core, Held(AllLanes, 0))

\* The lanes have the numbers from 1, arithmetic lanes first.
LEMMA LaneNumbers ==
  /\ Lanes = 1 .. (ALU_LANES + LSU_LANES) /\ ALU_LANES + LSU_LANES \in Nat
  /\ \A l \in Lanes : l \in LsuLanes <=> l \notin AluLanes
<1>1. PICK a, m : a = ALU_LANES /\ m = LSU_LANES /\ a \in Nat /\ m \in Nat
  BY SizesAssumption
<1> QED
  BY <1>1 DEF Lanes, AluLanes, LsuLanes

\* What a lane holds.
LEMMA ItemFacts ==
  ASSUME NEW lane, NEW mem, NEW k \in Kinds, NEW i \in Nat, LaneOk(lane, mem), Has(lane, k, i)
  PROVE  ItemOk(mem, k, Item(lane, k, i)) /\ Ticket(Item(lane, k, i)) \in Tickets
<1>1. PICK x : x = Item(lane, k, i) /\ ItemOk(mem, k, x)
  BY DEF LaneOk
<1>2. Ticket(x) \in Tickets
  BY <1>1 DEF ItemOk, Ticket, Tickets
<1> QED
  BY <1>1, <1>2

\* The first result of a lane.
LEMMA FirstResult ==
  ASSUME NEW lane, NEW mem, LaneOk(lane, mem), lane.resultq # <<>>
  PROVE  Has(lane, "out", 1) /\ Item(lane, "out", 1) = Head(lane.resultq)
<1>1. PICK q : q = lane.resultq
  OBVIOUS
<1>2. PICK S : q \in Seq(S)
  BY <1>1 DEF LaneOk, IsASeq
<1>3. 1 \in 1 .. Len(q) /\ Head(q) = q[1]
  BY <1>1, <1>2, TailFacts
<1> QED
  BY <1>1, <1>3 DEF Has, Item

\* Fewer instructions in the lanes are filed too.
LEMMA FlowFewer ==
  ASSUME NEW c, NEW T, NEW U, FlowInv(c, T), U \subseteq T
  PROVE  FlowInv(c, U)
BY DEF FlowInv, FilingInv

\* Lane l's first result is written back.
LEMMA HeldStep ==
  ASSUME NEW lanes, NEW l \in Lanes, LanesInv(lanes)
  PROVE  /\ Held(lanes, l) \subseteq Held(lanes, l - 1)
         /\ lanes[l].resultq # <<>> =>
              /\ Ticket(Head(lanes[l].resultq)) \in Held(lanes, l - 1)
              /\ Ticket(Head(lanes[l].resultq)) \notin Held(lanes, l)
<1>0. Lanes \subseteq Nat
  BY LaneNumbers
<1>1. Held(lanes, l) \subseteq Held(lanes, l - 1)
  BY <1>0 DEF Held
<1>2. ASSUME lanes[l].resultq # <<>>
      PROVE  /\ Ticket(Head(lanes[l].resultq)) \in Held(lanes, l - 1)
             /\ Ticket(Head(lanes[l].resultq)) \notin Held(lanes, l)
  <2>1. LaneOk(lanes[l], l \in LsuLanes)
    BY DEF LanesInv
  <2>2. PICK x : x = Head(lanes[l].resultq)
    OBVIOUS
  <2>3. Has(lanes[l], "out", 1) /\ x = Item(lanes[l], "out", 1)
    BY <1>2, <2>1, <2>2, FirstResult
  <2>4. "out" \in Kinds /\ 1 \in Nat
    BY DEF Kinds
  <2>5. Ticket(x) \in Tickets
    BY <2>1, <2>3, <2>4, ItemFacts
  <2>6. Ticket(x) \in Held(lanes, l - 1)
    <3>1. ~ (l <= l - 1)
      BY <1>0
    <3> QED
      BY <2>3, <2>4, <2>5, <3>1 DEF Held
  <2>7. ASSUME Ticket(x) \in Held(lanes, l)
        PROVE  FALSE
    <3>1. PICK m \in Lanes, k \in Kinds, i \in Nat :
            /\ Has(lanes[m], k, i) /\ Ticket(x) = Ticket(Item(lanes[m], k, i))
            /\ ~ (m <= l /\ k = "out" /\ i = 1)
      BY <2>7 DEF Held
    <3>2. x.seq = Item(lanes[m], k, i).seq
      <4>1. Ticket(x).seq = x.seq /\ Ticket(Item(lanes[m], k, i)).seq = Item(lanes[m], k, i).seq
        BY DEF Ticket
      <4> QED
        BY <3>1, <4>1
    <3>3. l = m /\ k = "out" /\ i = 1
      BY <2>3, <2>4, <3>1, <3>2 DEF LanesInv, Apart
    <3> QED
      BY <1>0, <3>1, <3>3
  <2> QED
    BY <2>2, <2>6, <2>7
<1> QED
  BY <1>1, <1>2

\* The write-backs of a cycle.
LEMMA FlowWritebacks ==
  ASSUME NEW c, NEW lanes, lanes = AllLanes, LanesInv(lanes), FlowInv(c, Held(lanes, 0))
  PROVE  FlowInv(WrittenBack(c), Held(lanes, ALU_LANES + LSU_LANES))
<1> DEFINE n == ALU_LANES + LSU_LANES
<1>1. PICK run : /\ run[0] = c /\ WrittenBack(c) = run[n]
                 /\ \A i \in 1 .. n : run[i] = WritebackOf(run[i - 1], i)
  BY WrittenBackRun
<1>2. n \in Nat /\ Lanes = 1 .. n
  BY LaneNumbers
<1> HIDE DEF n
<1> DEFINE Good == { i \in 0 .. n : FlowInv(run[i], Held(lanes, i)) }
<1>3. 0 \in Good
  BY <1>1, <1>2
<1>4. ASSUME NEW l \in 1 .. n, l - 1 \in Good
      PROVE  l \in Good
  <2>1. PICK x, T, q : x = run[l - 1] /\ T = Held(lanes, l - 1) /\ q = lanes[l].resultq
    OBVIOUS
  <2>2. l \in Lanes /\ FlowInv(x, T) /\ run[l] = WritebackOf(x, l)
    BY <1>1, <1>2, <1>4, <2>1
  <2>3. q = IF l \in AluLanes THEN alu[l].resultq ELSE lsu[l].resultq
    BY <2>1, <2>2 DEF AllLanes
  <2>4. Held(lanes, l) \subseteq T
    BY <2>1, <2>2, HeldStep
  <2>5. CASE q = <<>>
    <3>1. run[l] = x
      BY <2>2, <2>3, <2>5 DEF WritebackOf
    <3> QED
      BY <1>2, <2>2, <2>4, <3>1, FlowFewer
  <2>6. CASE q # <<>>
    <3>1. PICK wb : wb = Head(q)
      OBVIOUS
    <3>2. Ticket(wb) \in T /\ Ticket(wb) \notin Held(lanes, l)
      BY <2>1, <2>2, <2>6, <3>1, HeldStep
    <3>3. wb.dst # 0 => wb.hasDest
      <4>1. LaneOk(lanes[l], l \in LsuLanes)
        BY <2>2 DEF LanesInv
      <4>2. Has(lanes[l], "out", 1) /\ wb = Item(lanes[l], "out", 1)
        BY <2>1, <2>6, <3>1, <4>1, FirstResult
      <4>3. "out" \in Kinds /\ 1 \in Nat
        BY DEF Kinds
      <4> QED
        BY <4>1, <4>2, <4>3, ItemFacts DEF ItemOk
    <3>4. FlowInv(WritebackOf(x, l), T \ {Ticket(wb)})
      BY <2>2, <2>3, <2>6, <3>1, <3>2, <3>3, FlowWriteback
    <3>5. Held(lanes, l) \subseteq T \ {Ticket(wb)}
      BY <2>4, <3>2
    <3>6. FlowInv(run[l], Held(lanes, l))
      BY <2>2, <3>4, <3>5, FlowFewer
    <3> QED
      BY <1>2, <3>6
  <2> QED
    BY <2>5, <2>6
<1>5. Good \in SUBSET (0 .. n)
  OBVIOUS
<1> HIDE DEF Good
<1>6. Good = 0 .. n
  BY <1>2, <1>3, <1>4, <1>5, PassedOn
<1>7. FlowInv(run[n], Held(lanes, n))
  BY <1>2, <1>6 DEF Good
<1> QED
  BY <1>1, <1>7 DEF n

\* The commits of a cycle.
LEMMA FlowCommits ==
  ASSUME NEW c, NEW T, FlowInv(c, T)
  PROVE  FlowInv(Committed(c), T)
<1> DEFINE n == COMMIT_WIDTH
<1>1. PICK run : /\ run[0] = c /\ Committed(c) = run[n]
                 /\ \A i \in 1 .. n : run[i] = CommitOne(run[i - 1], i)
  BY CommittedRun
<1>2. n \in Nat
  BY SizesAssumption
<1> HIDE DEF n
<1> DEFINE Good == { i \in 0 .. n : FlowInv(run[i], T) }
<1>3. 0 \in Good
  BY <1>1, <1>2
<1>4. \A i \in 1 .. n : i - 1 \in Good => i \in Good
  BY <1>1, FlowCommit
<1>5. Good \in SUBSET (0 .. n)
  OBVIOUS
<1> HIDE DEF Good
<1>6. Good = 0 .. n
  BY <1>2, <1>3, <1>4, <1>5, PassedOn
<1> QED
  BY <1>1, <1>2, <1>6 DEF Good

\* The dispatches of a cycle.
LEMMA FlowDispatches ==
  ASSUME NEW c, NEW T, FlowInv(c, T)
  PROVE  FlowInv(Dispatched(c), T)
<1> DEFINE n == DispatchLimit(c)
<1>1. Room(c, n) /\ n \in Nat
  BY LimitIsRoom DEF Room, FlowInv
<1>2. PICK run : /\ run[0] = c /\ Dispatched(c) = run[n]
                 /\ \A i \in 1 .. n : run[i] = DispatchOne(run[i - 1], i)
  BY <1>1, DispatchedRun
<1> HIDE DEF n
<1> DEFINE Good == { i \in 0 .. n : FlowInv(run[i], T) /\ Room(run[i], n - i) }
<1>3. 0 \in Good
  BY <1>1, <1>2
<1>4. ASSUME NEW i \in 1 .. n, i - 1 \in Good
      PROVE  i \in Good
  <2>1. PICK x, k : x = run[i - 1] /\ k = n - (i - 1)
    OBVIOUS
  <2>2. FlowInv(x, T) /\ Room(x, k) /\ k \in Nat /\ k >= 1 /\ k - 1 = n - i
    BY <1>1, <1>4, <2>1
  <2>3. Room(DispatchOne(x, i), k - 1)
    BY <2>2, DispatchKeeps DEF FlowInv
  <2>4. FlowInv(DispatchOne(x, i), T)
    BY <2>2, FlowDispatch
  <2>5. run[i] = DispatchOne(x, i)
    BY <1>2, <2>1
  <2> QED
    BY <1>1, <2>2, <2>3, <2>4, <2>5
<1>5. Good \in SUBSET (0 .. n)
  OBVIOUS
<1> HIDE DEF Good
<1>6. Good = 0 .. n
  BY <1>1, <1>3, <1>4, <1>5, PassedOn
<1> QED
  BY <1>1, <1>2, <1>6 DEF Good

-----------------------------------------------------------------------------
(* A cycle of a lane: what it holds comes from where it was, or is issued. *)

\* Slot t takes the first request, and the result r of slot o leaves (0: none).
Move(lane, new, mem, issued, popped, t, o, r) ==
  /\ t \in 0 .. PIPE_SLOTS /\ o \in 0 .. PIPE_SLOTS
  /\ t # 0 => lane.issueq # <<>>
  /\ new.issueq = (IF t # 0 THEN Tail(lane.issueq) ELSE lane.issueq) \o issued
  /\ new.resultq = (IF popped THEN Tail(lane.resultq) ELSE lane.resultq)
                     \o (IF o # 0 THEN <<r>> ELSE <<>>)
  /\ o # 0 => /\ lane.slots[o].valid
              /\ r.rob = lane.slots[o].req.rob /\ r.dst = lane.slots[o].req.dst
              /\ r.seq = lane.slots[o].req.seq
              /\ r.dst # 0 /\ (mem => lane.slots[o].req.op = "LOAD") => r.hasDest
  /\ DOMAIN new.slots = 1 .. PIPE_SLOTS
  /\ \A s \in 1 .. PIPE_SLOTS :
       /\ "valid" \in DOMAIN new.slots[s]
       /\ new.slots[s].valid =>
            /\ "req" \in DOMAIN new.slots[s]
            /\ s = t => new.slots[s].req = Head(lane.issueq)
            /\ s # t => s # o /\ lane.slots[s].valid /\ new.slots[s].req = lane.slots[s].req

Moved(lane, new, mem, issued, popped) ==
  \E t, o, r : Move(lane, new, mem, issued, popped, t, o, r)

\* No slot but o loses what it holds, and t, which is free or o, is filled.
Fills(lane, new, t, o) ==
  /\ t # 0 => new.slots[t].valid /\ (lane.slots[t].valid => t = o)
  /\ \A s \in 1 .. PIPE_SLOTS : lane.slots[s].valid /\ s # o /\ s # t => new.slots[s].valid

Retained(lane, new, mem, issued, popped) ==
  \E t, o, r : Move(lane, new, mem, issued, popped, t, o, r) /\ Fills(lane, new, t, o)

\* Where the instruction that is now at place i of k was.
Origin(new, popped, t, o, k, i, k0, i0) ==
  \/ k = "in" /\ k0 = "in" /\ i0 = IF t # 0 THEN i + 1 ELSE i
  \/ k = "slot" /\ i # t /\ i # o /\ k0 = "slot" /\ i0 = i
  \/ k = "slot" /\ i = t /\ t # 0 /\ k0 = "in" /\ i0 = 1
  \/ k = "out" /\ k0 = "out" /\ i0 = IF popped THEN i + 1 ELSE i
  \/ k = "out" /\ i = Len(new.resultq) /\ k0 = "slot" /\ i0 = o /\ o # 0

\* A lane holds no instruction twice.
Distinct(lane) ==
  \A k, n \in Kinds, i, j \in Nat :
    Has(lane, k, i) /\ Has(lane, n, j) /\ Item(lane, k, i).seq = Item(lane, n, j).seq
    => k = n /\ i = j

\* Place i of k, which is not that of a result that is taken away.
Stays(lane, popped, k, i) == Has(lane, k, i) /\ ~ (popped /\ k = "out" /\ i = 1)

\* x is issued, or was in the lane.
Arrives(lane, issued, popped, x) ==
  \/ issued # <<>> /\ x = issued[1]
  \/ \E k \in Kinds, i \in Nat : Stays(lane, popped, k, i) /\ Ticket(x) = Ticket(Item(lane, k, i))

\* What is issued to a lane: at most one instruction, which is not there yet.
Issue(lane, mem, issued, popped) ==
  \/ issued = <<>>
  \/ \E x : /\ issued = <<x>> /\ ItemOk(mem, "in", x)
            /\ \A k \in Kinds, i \in Nat : Stays(lane, popped, k, i) => Item(lane, k, i).seq # x.seq

AtMostOne(e) == e = <<>> \/ \E x : e = <<x>>

\* Place i of k holds what is issued, or what was in the lane and stays, or r.
Came(lane, new, mem, issued, popped, t, o, r, k, i) ==
  /\ k = "in" \/ k = "out" => i # 0
  /\ \/ /\ k = "in" /\ issued # <<>> /\ i = Len(new.issueq) /\ Item(new, k, i) = issued[1]
     \/ \E k0 \in Kinds, i0 \in Nat :
          /\ Origin(new, popped, t, o, k, i, k0, i0) /\ Stays(lane, popped, k0, i0)
          /\ Ticket(Item(new, k, i)) = Ticket(Item(lane, k0, i0))
          /\ Item(new, k, i) = IF k = "out" /\ k0 = "slot" THEN r ELSE Item(lane, k0, i0)
  /\ ItemOk(mem, k, Item(new, k, i))

\* The queue r is q after the first is taken (if pop) and e is added.
Shifted(q, e, pop, r) ==
  /\ IsASeq(q) /\ AtMostOne(e)
  /\ pop => q # <<>>
  /\ r = (IF pop THEN Tail(q) ELSE q) \o e

\* What it holds was in q, or is the last, which is added.
Follows(q, e, pop, r) ==
  \A i \in 1 .. Len(r) :
    \/ (IF pop THEN i + 1 ELSE i) \in 1 .. Len(q) /\ r[i] = q[IF pop THEN i + 1 ELSE i]
    \/ e # <<>> /\ r[i] = e[1] /\ i = Len(r)

\* And it holds what was in q, but for the first if it is taken, and what is
\* added.
Passes(q, e, pop, r) ==
  /\ \A i \in 1 .. Len(q) : ~ (pop /\ i = 1) => \E j \in 1 .. Len(r) : r[j] = q[i]
  /\ e # <<>> => \E j \in 1 .. Len(r) : r[j] = e[1]

\* A queue from which the first may be taken and to which one may be added.
LEMMA QueueStep ==
  ASSUME NEW q, NEW e, NEW pop \in BOOLEAN, NEW r, Shifted(q, e, pop, r)
  PROVE  IsASeq(r) /\ Follows(q, e, pop, r) /\ Passes(q, e, pop, r)
<1> USE DEF Follows
<1>0. /\ IsASeq(q) /\ AtMostOne(e)
      /\ pop => q # <<>>
      /\ r = (IF pop THEN Tail(q) ELSE q) \o e
  BY DEF Shifted
<1>1. PICK S : q \in Seq(S)
  BY <1>0 DEF IsASeq
<1>2. PICK rest : rest = (IF pop THEN Tail(q) ELSE q)
  OBVIOUS
<1>3. /\ rest \in Seq(S) /\ Len(rest) \in Nat /\ Len(q) \in Nat
      /\ pop => Len(q) >= 1 /\ Head(q) = q[1]
      /\ Len(rest) = (IF pop THEN Len(q) - 1 ELSE Len(q))
      /\ \A i \in 1 .. Len(rest) :
           (IF pop THEN i + 1 ELSE i) \in 1 .. Len(q) /\ rest[i] = q[IF pop THEN i + 1 ELSE i]
  <2>1. CASE pop
    <3>1. q # <<>>
      BY <1>0, <2>1
    <3>2. /\ Len(q) \in Nat /\ Len(q) >= 1 /\ Head(q) = q[1] /\ rest \in Seq(S)
          /\ Len(rest) = Len(q) - 1 /\ \A i \in 1 .. Len(q) - 1 : rest[i] = q[i + 1]
      BY <1>1, <1>2, <2>1, <3>1, TailFacts
    <3> QED
      BY <2>1, <3>2
  <2>2. CASE ~ pop
    BY <1>1, <1>2, <2>2
  <2> QED
    BY <2>1, <2>2
<1>30. ASSUME NEW i \in 1 .. Len(q), ~ (pop /\ i = 1)
       PROVE  \E j \in 1 .. Len(rest) : rest[j] = q[i]
  <2>1. PICK j : j = (IF pop THEN i - 1 ELSE i)
    OBVIOUS
  <2>2. j \in 1 .. Len(rest) /\ (IF pop THEN j + 1 ELSE j) = i
    BY <1>3, <1>30, <2>1
  <2> QED
    BY <1>3, <2>2
<1>4. CASE e = <<>>
  <2>1. r = rest
    <3>1. r = rest \o <<>>
      BY <1>0, <1>2, <1>4
    <3>2. rest \o <<>> = rest
      BY <1>3
    <3> QED
      BY <3>1, <3>2
  <2> QED
    BY <1>3, <1>4, <1>30, <2>1 DEF IsASeq, Passes
<1>5. CASE \E x : e = <<x>>
  <2>1. PICK x : e = <<x>>
    BY <1>5
  <2>2. PICK U : U = S \cup {x}
    OBVIOUS
  <2>3. rest \in Seq(U) /\ e \in Seq(U) /\ Len(e) = 1 /\ e[1] = x /\ e # <<>>
    BY <1>3, <2>1, <2>2
  <2>4. r = rest \o e
    BY <1>0, <1>2
  <2>5. /\ r \in Seq(U) /\ Len(r) = Len(rest) + 1
        /\ \A i \in 1 .. Len(rest) : r[i] = rest[i]
        /\ r[Len(rest) + 1] = x
    <3>1. /\ rest \o e \in Seq(U) /\ Len(rest \o e) = Len(rest) + Len(e)
          /\ \A i \in 1 .. Len(rest) : (rest \o e)[i] = rest[i]
          /\ \A i \in 1 .. Len(e) : (rest \o e)[Len(rest) + i] = e[i]
      <4>1. rest \in Seq(U) /\ e \in Seq(U)
        BY <2>3
      <4> QED
        BY <4>1, ConcatFacts
    <3>2. 1 \in 1 .. Len(e)
      BY <2>3
    <3> QED
      BY <2>3, <2>4, <3>1, <3>2
  <2>6. ASSUME NEW i \in 1 .. Len(r)
        PROVE  \/ (IF pop THEN i + 1 ELSE i) \in 1 .. Len(q) /\ r[i] = q[IF pop THEN i + 1 ELSE i]
               \/ e # <<>> /\ r[i] = e[1] /\ i = Len(r)
    <3>1. CASE i \in 1 .. Len(rest)
      BY <1>3, <2>5, <3>1
    <3>2. CASE i = Len(rest) + 1
      BY <2>3, <2>5, <3>2
    <3> QED
      BY <1>3, <2>5, <3>1, <3>2
  <2>7. /\ \A j \in 1 .. Len(rest) : j \in 1 .. Len(r)
        /\ Len(rest) + 1 \in 1 .. Len(r)
    BY <1>3, <2>5
  <2>8. Passes(q, e, pop, r)
    BY <1>30, <2>3, <2>5, <2>7 DEF Passes
  <2> QED
    BY <1>3, <2>5, <2>6, <2>8 DEF IsASeq
<1> QED
  BY <1>0, <1>4, <1>5 DEF AtMostOne

\* Two places do not get what was in the same one.
LEMMA OriginUnique ==
  ASSUME NEW new, NEW popped \in BOOLEAN, NEW t, NEW o, NEW k, NEW i \in Nat, NEW n, NEW j \in Nat, NEW k0, NEW i0,
         Origin(new, popped, t, o, k, i, k0, i0), Origin(new, popped, t, o, n, j, k0, i0),
         k = "in" => i # 0, n = "in" => j # 0
  PROVE  k = n /\ i = j
<1>1. t # 0 \/ t = 0
  OBVIOUS
<1> QED
  BY DEF Origin

\* What is in a lane after a cycle was in it before, or was issued.
LEMMA MoveOrigin ==
  ASSUME NEW lane, NEW new, NEW mem, NEW issued, NEW popped \in BOOLEAN, NEW t, NEW o, NEW r,
         LaneOk(lane, mem), Move(lane, new, mem, issued, popped, t, o, r),
         Issue(lane, mem, issued, popped), popped => lane.resultq # <<>>,
         NEW k \in Kinds, NEW i \in Nat, Has(new, k, i)
  PROVE  Came(lane, new, mem, issued, popped, t, o, r, k, i)
<1> USE DEF Came
<1>1. "in" \in Kinds /\ "slot" \in Kinds /\ "out" \in Kinds
  BY DEF Kinds
<1>2. CASE k = "in"
  <2>1. PICK q, n, pop : q = lane.issueq /\ n = new.issueq /\ pop = (t # 0)
    OBVIOUS
  <2>2. i \in 1 .. Len(n) /\ Item(new, k, i) = n[i]
    BY <1>2, <2>1 DEF Has, Item
  <2>3. pop \in BOOLEAN
    BY <2>1
  <2>4. Shifted(q, issued, pop, n)
    BY <2>1 DEF LaneOk, Issue, Move, AtMostOne, Shifted
  <2>5. \/ (IF pop THEN i + 1 ELSE i) \in 1 .. Len(q) /\ n[i] = q[IF pop THEN i + 1 ELSE i]
        \/ issued # <<>> /\ n[i] = issued[1] /\ i = Len(n)
    <3>1. Follows(q, issued, pop, n)
      BY <2>3, <2>4, QueueStep
    <3> QED
      BY <2>2, <3>1 DEF Follows
  <2>6. CASE issued # <<>> /\ n[i] = issued[1] /\ i = Len(n)
    <3>1. PICK x : issued = <<x>> /\ ItemOk(mem, "in", x)
      BY <2>6 DEF Issue
    <3>2. issued[1] = x
      BY <3>1
    <3> QED
      BY <1>2, <2>1, <2>2, <2>6, <3>1, <3>2
  <2>7. CASE (IF pop THEN i + 1 ELSE i) \in 1 .. Len(q) /\ n[i] = q[IF pop THEN i + 1 ELSE i]
    <3>1. PICK i0 : i0 = (IF pop THEN i + 1 ELSE i) /\ i0 \in 1 .. Len(q) /\ n[i] = q[i0]
      BY <2>7
    <3>2. i0 \in Nat /\ Has(lane, "in", i0) /\ Item(lane, "in", i0) = n[i] /\ Stays(lane, popped, "in", i0)
      BY <2>1, <3>1 DEF Has, Item, Stays
    <3>3. Origin(new, popped, t, o, k, i, "in", i0)
      BY <1>2, <2>1, <3>1 DEF Origin
    <3>4. ItemOk(mem, "in", n[i])
      BY <1>1, <3>2 DEF LaneOk
    <3> QED
      BY <1>1, <1>2, <2>2, <3>2, <3>3, <3>4
  <2> QED
    BY <2>5, <2>6, <2>7
<1>3. CASE k = "slot"
  <2>1. i \in 1 .. PIPE_SLOTS /\ new.slots[i].valid /\ Item(new, k, i) = new.slots[i].req
    BY <1>3 DEF Has, Item
  <2>2. CASE i = t
    <3>1. t # 0 /\ new.slots[i].req = Head(lane.issueq) /\ lane.issueq # <<>>
      BY <2>1, <2>2 DEF Move
    <3>2. PICK q : q = lane.issueq /\ IsASeq(q) /\ q # <<>>
      BY <3>1 DEF LaneOk
    <3>3. PICK S : q \in Seq(S)
      BY <3>2 DEF IsASeq
    <3>4. 1 \in 1 .. Len(q) /\ Head(q) = q[1]
      BY <3>2, <3>3, TailFacts
    <3>5. 1 \in Nat /\ Has(lane, "in", 1) /\ Item(lane, "in", 1) = Item(new, k, i) /\ Stays(lane, popped, "in", 1)
      BY <2>1, <3>1, <3>2, <3>4 DEF Has, Item, Stays
    <3>6. Origin(new, popped, t, o, k, i, "in", 1)
      BY <1>3, <2>2, <3>1 DEF Origin
    <3>7. ItemOk(mem, "in", Item(new, k, i))
      BY <1>1, <3>5 DEF LaneOk
    <3>8. ItemOk(mem, k, Item(new, k, i))
      BY <1>3, <3>7 DEF ItemOk
    <3> QED
      BY <1>1, <1>3, <3>5, <3>6, <3>8
  <2>3. CASE i # t
    <3>1. i # o /\ lane.slots[i].valid /\ new.slots[i].req = lane.slots[i].req
      BY <2>1, <2>3 DEF Move
    <3>2. Has(lane, "slot", i) /\ Item(lane, "slot", i) = Item(new, k, i) /\ Stays(lane, popped, "slot", i)
      BY <2>1, <3>1 DEF Has, Item, Stays
    <3>3. Origin(new, popped, t, o, k, i, "slot", i)
      BY <1>3, <2>3, <3>1 DEF Origin
    <3>4. ItemOk(mem, k, Item(new, k, i))
      BY <1>1, <1>3, <3>2 DEF LaneOk
    <3> QED
      BY <1>1, <1>3, <3>2, <3>3, <3>4
  <2> QED
    BY <2>2, <2>3
<1>4. CASE k = "out"
  <2>1. PICK q, n, e : q = lane.resultq /\ n = new.resultq /\ e = (IF o # 0 THEN <<r>> ELSE <<>>)
    OBVIOUS
  <2>2. i \in 1 .. Len(n) /\ Item(new, k, i) = n[i]
    BY <1>4, <2>1 DEF Has, Item
  <2>4. Shifted(q, e, popped, n)
    BY <2>1 DEF LaneOk, Move, AtMostOne, Shifted
  <2>5. \/ (IF popped THEN i + 1 ELSE i) \in 1 .. Len(q) /\ n[i] = q[IF popped THEN i + 1 ELSE i]
        \/ e # <<>> /\ n[i] = e[1] /\ i = Len(n)
    <3>1. Follows(q, e, popped, n)
      BY <2>4, QueueStep
    <3> QED
      BY <2>2, <3>1 DEF Follows
  <2>6. CASE e # <<>> /\ n[i] = e[1] /\ i = Len(n)
    <3>1. o # 0 /\ e[1] = r
      BY <2>1, <2>6
    <3>2. PICK x : x = lane.slots[o].req
      OBVIOUS
    <3>3. /\ o \in 1 .. PIPE_SLOTS /\ o \in Nat /\ lane.slots[o].valid
          /\ r.rob = x.rob /\ r.dst = x.dst /\ r.seq = x.seq
          /\ r.dst # 0 /\ (mem => x.op = "LOAD") => r.hasDest
      BY <3>1, <3>2 DEF Move
    <3>4. Has(lane, "slot", o) /\ Item(lane, "slot", o) = x /\ Stays(lane, popped, "slot", o)
      BY <3>2, <3>3 DEF Has, Item, Stays
    <3>5. Origin(new, popped, t, o, k, i, "slot", o)
      BY <1>4, <2>1, <2>6, <3>1 DEF Origin
    <3>6. ItemOk(mem, "slot", x)
      BY <1>1, <3>3, <3>4 DEF LaneOk
    <3>7. ItemOk(mem, k, r) /\ Ticket(r) = Ticket(x)
      BY <1>4, <3>3, <3>6 DEF ItemOk, Ticket
    <3> QED
      BY <1>1, <1>4, <2>2, <2>6, <3>1, <3>3, <3>4, <3>5, <3>7
  <2>7. CASE (IF popped THEN i + 1 ELSE i) \in 1 .. Len(q) /\ n[i] = q[IF popped THEN i + 1 ELSE i]
    <3>1. PICK i0 : i0 = (IF popped THEN i + 1 ELSE i) /\ i0 \in 1 .. Len(q) /\ n[i] = q[i0]
      BY <2>7
    <3>2. i0 \in Nat /\ Has(lane, "out", i0) /\ Item(lane, "out", i0) = n[i]
      BY <2>1, <3>1 DEF Has, Item
    <3>3. Stays(lane, popped, "out", i0)
      BY <2>2, <3>1, <3>2 DEF Stays
    <3>4. Origin(new, popped, t, o, k, i, "out", i0)
      BY <1>4, <3>1 DEF Origin
    <3>5. ItemOk(mem, "out", n[i])
      BY <1>1, <3>2 DEF LaneOk
    <3> QED
      BY <1>1, <1>4, <2>2, <3>2, <3>3, <3>4, <3>5
  <2> QED
    BY <2>5, <2>6, <2>7
<1> QED
  BY <1>2, <1>3, <1>4 DEF Kinds

\* A cycle keeps the order of a lane.
LEMMA MovedKeeps ==
  ASSUME NEW lane, NEW new, NEW mem, NEW issued, NEW popped \in BOOLEAN,
         LaneOk(lane, mem), Distinct(lane), Moved(lane, new, mem, issued, popped),
         Issue(lane, mem, issued, popped), popped => lane.resultq # <<>>
  PROVE  /\ LaneOk(new, mem) /\ Distinct(new)
         /\ \A k \in Kinds, i \in Nat : Has(new, k, i) => Arrives(lane, issued, popped, Item(new, k, i))
<1>1. PICK t, o, r : Move(lane, new, mem, issued, popped, t, o, r)
  BY DEF Moved
<1>2. ASSUME NEW k \in Kinds, NEW i \in Nat, Has(new, k, i)
      PROVE  /\ k = "in" => i # 0
             /\ \/ /\ k = "in" /\ issued # <<>> /\ i = Len(new.issueq) /\ Item(new, k, i) = issued[1]
                \/ \E k0 \in Kinds, i0 \in Nat :
                     /\ Origin(new, popped, t, o, k, i, k0, i0) /\ Stays(lane, popped, k0, i0)
                     /\ Ticket(Item(new, k, i)) = Ticket(Item(lane, k0, i0))
             /\ ItemOk(mem, k, Item(new, k, i))
  <2>1. Came(lane, new, mem, issued, popped, t, o, r, k, i)
    BY <1>1, <1>2, MoveOrigin
  <2> QED
    BY <2>1 DEF Came
<1>3. \A x, y : Ticket(x) = Ticket(y) => x.seq = y.seq
  <2> SUFFICES ASSUME NEW x, NEW y, Ticket(x) = Ticket(y)
               PROVE  x.seq = y.seq
    OBVIOUS
  <2>1. Ticket(x).seq = x.seq /\ Ticket(y).seq = y.seq
    BY DEF Ticket
  <2> QED
    BY <2>1
<1>4. LaneOk(new, mem)
  <2>1. IsASeq(new.issueq)
    <3>1. PICK q, n, pop : q = lane.issueq /\ n = new.issueq /\ pop = (t # 0)
      OBVIOUS
    <3>2. pop \in BOOLEAN
      BY <3>1
    <3>3. Shifted(q, issued, pop, n)
      BY <1>1, <3>1 DEF LaneOk, Issue, Move, AtMostOne, Shifted
    <3> QED
      BY <3>1, <3>2, <3>3, QueueStep
  <2>2. IsASeq(new.resultq)
    <3>1. PICK q, n, e : q = lane.resultq /\ n = new.resultq /\ e = (IF o # 0 THEN <<r>> ELSE <<>>)
      OBVIOUS
    <3>2. PICK pop : pop = popped /\ pop \in BOOLEAN
      OBVIOUS
    <3>3. Shifted(q, e, pop, n)
      BY <1>1, <3>1, <3>2 DEF LaneOk, Move, AtMostOne, Shifted
    <3>4. IsASeq(n)
      BY <3>2, <3>3, QueueStep
    <3> QED
      BY <3>1, <3>4
  <2>3. /\ DOMAIN new.slots = 1 .. PIPE_SLOTS
        /\ \A s \in 1 .. PIPE_SLOTS : /\ "valid" \in DOMAIN new.slots[s]
                                      /\ new.slots[s].valid => "req" \in DOMAIN new.slots[s]
    BY <1>1 DEF Move
  <2> QED
    BY <1>2, <2>1, <2>2, <2>3 DEF LaneOk
<1>5. Distinct(new)
  <2> SUFFICES ASSUME NEW k \in Kinds, NEW n \in Kinds, NEW i \in Nat, NEW j \in Nat,
                      Has(new, k, i), Has(new, n, j), Item(new, k, i).seq = Item(new, n, j).seq
               PROVE  k = n /\ i = j
    BY DEF Distinct
  <2>1. PICK x, y : x = Item(new, k, i) /\ y = Item(new, n, j) /\ x.seq = y.seq
    OBVIOUS
  <2>2. ASSUME issued # <<>>, NEW k0 \in Kinds, NEW i0 \in Nat, Stays(lane, popped, k0, i0)
        PROVE  Item(lane, k0, i0).seq # issued[1].seq
    <3>1. PICK z : issued = <<z>> /\ Item(lane, k0, i0).seq # z.seq
      BY <2>2 DEF Issue
    <3>2. issued[1] = z
      BY <3>1
    <3> QED
      BY <3>1, <3>2
  <2>3. CASE k = "in" /\ issued # <<>> /\ i = Len(new.issueq) /\ x = issued[1]
    <3>1. CASE n = "in" /\ issued # <<>> /\ j = Len(new.issueq) /\ y = issued[1]
      BY <2>3, <3>1
    <3>2. CASE \E k0 \in Kinds, i0 \in Nat : Stays(lane, popped, k0, i0) /\ Ticket(y) = Ticket(Item(lane, k0, i0))
      BY <1>3, <2>1, <2>2, <2>3, <3>2
    <3> QED
      BY <1>2, <2>1, <3>1, <3>2
  <2>4. CASE \E k0 \in Kinds, i0 \in Nat :
               /\ Origin(new, popped, t, o, k, i, k0, i0) /\ Stays(lane, popped, k0, i0)
               /\ Ticket(x) = Ticket(Item(lane, k0, i0))
    <3>1. PICK k0 \in Kinds, i0 \in Nat :
            /\ Origin(new, popped, t, o, k, i, k0, i0) /\ Stays(lane, popped, k0, i0)
            /\ x.seq = Item(lane, k0, i0).seq
      BY <1>3, <2>4
    <3>2. CASE n = "in" /\ issued # <<>> /\ j = Len(new.issueq) /\ y = issued[1]
      BY <2>1, <2>2, <3>1, <3>2
    <3>3. CASE \E k1 \in Kinds, i1 \in Nat :
                 /\ Origin(new, popped, t, o, n, j, k1, i1) /\ Stays(lane, popped, k1, i1)
                 /\ Ticket(y) = Ticket(Item(lane, k1, i1))
      <4>1. PICK k1 \in Kinds, i1 \in Nat :
              /\ Origin(new, popped, t, o, n, j, k1, i1) /\ Stays(lane, popped, k1, i1)
              /\ y.seq = Item(lane, k1, i1).seq
        BY <1>3, <3>3
      <4>2. k0 = k1 /\ i0 = i1
        BY <2>1, <3>1, <4>1 DEF Distinct, Stays
      <4>3. (k = "in" => i # 0) /\ (n = "in" => j # 0)
        BY <1>2
      <4> QED
        BY <3>1, <4>1, <4>2, <4>3, OriginUnique
    <3> QED
      BY <1>2, <2>1, <3>2, <3>3
  <2> QED
    BY <1>2, <2>1, <2>3, <2>4
<1>6. ASSUME NEW k \in Kinds, NEW i \in Nat, Has(new, k, i)
      PROVE  Arrives(lane, issued, popped, Item(new, k, i))
  BY <1>2, <1>6 DEF Arrives
<1> QED
  BY <1>4, <1>5, <1>6

\* The lanes after a cycle, in which each of them moves.
AllMove(lanes, news, issue, popped) ==
  \A l \in Lanes :
    /\ Moved(lanes[l], news[l], l \in LsuLanes, issue[l], popped /\ lanes[l].resultq # <<>>)
    /\ Issue(lanes[l], l \in LsuLanes, issue[l], popped /\ lanes[l].resultq # <<>>)

\* What is issued to a lane is in no other lane, nor issued to one.
IssuedApart(lanes, issue, n) ==
  \A l \in Lanes : issue[l] # <<>> =>
    /\ \A t \in Held(lanes, n) : t.seq # issue[l][1].seq
    /\ \A m \in Lanes : issue[m] # <<>> /\ issue[m][1].seq = issue[l][1].seq => l = m

\* What is issued.
IssuedTickets(issue) == { Ticket(issue[l][1]) : l \in { m \in Lanes : issue[m] # <<>> } }

\* What a lane holds that stays is among what the lanes hold.
LEMMA StaysHeld ==
  ASSUME NEW lanes, LanesInv(lanes), NEW l \in Lanes, NEW popped \in BOOLEAN,
         NEW k \in Kinds, NEW i \in Nat,
         Stays(lanes[l], popped /\ lanes[l].resultq # <<>>, k, i)
  PROVE  Ticket(Item(lanes[l], k, i)) \in Held(lanes, IF popped THEN ALU_LANES + LSU_LANES ELSE 0)
<1>1. Has(lanes[l], k, i) /\ LaneOk(lanes[l], l \in LsuLanes)
  BY DEF Stays, LanesInv
<1>2. Ticket(Item(lanes[l], k, i)) \in Tickets
  BY <1>1, ItemFacts
<1>3. CASE popped
  <2>1. ~ (k = "out" /\ i = 1)
    <3>1. SUFFICES ASSUME k = "out", i = 1
                   PROVE  lanes[l].resultq # <<>>
      BY <1>3 DEF Stays
    <3>2. 1 \in 1 .. Len(lanes[l].resultq)
      BY <1>1, <3>1 DEF Has
    <3> QED
      BY <3>2
  <2> QED
    BY <1>1, <1>2, <1>3, <2>1 DEF Held
<1>4. CASE ~ popped
  <2>1. ~ (l <= 0)
    BY LaneNumbers
  <2> QED
    BY <1>1, <1>2, <1>4, <2>1 DEF Held
<1> QED
  BY <1>3, <1>4

\* A cycle keeps the order of the lanes, and what they hold then they held
\* before, or it is issued.
LEMMA LanesKeep ==
  ASSUME NEW lanes, NEW news, NEW issue, NEW popped \in BOOLEAN, NEW n,
         n = (IF popped THEN ALU_LANES + LSU_LANES ELSE 0),
         LanesInv(lanes), AllMove(lanes, news, issue, popped), IssuedApart(lanes, issue, n)
  PROVE  /\ LanesInv(news)
         /\ Held(news, 0) \subseteq
              Held(lanes, n) \cup IssuedTickets(issue)
<1>1. \A x, y : Ticket(x) = Ticket(y) => x.seq = y.seq
  <2> SUFFICES ASSUME NEW x, NEW y, Ticket(x) = Ticket(y)
               PROVE  x.seq = y.seq
    OBVIOUS
  <2>1. Ticket(x).seq = x.seq /\ Ticket(y).seq = y.seq
    BY DEF Ticket
  <2> QED
    BY <2>1
<1>2. ASSUME NEW l \in Lanes
      PROVE  /\ LaneOk(news[l], l \in LsuLanes) /\ Distinct(news[l])
             /\ \A k \in Kinds, i \in Nat : Has(news[l], k, i) =>
                  Arrives(lanes[l], issue[l], popped /\ lanes[l].resultq # <<>>, Item(news[l], k, i))
  <2>1. PICK lane, new, mem, issued, pop :
          /\ lane = lanes[l] /\ new = news[l] /\ mem = (l \in LsuLanes) /\ issued = issue[l]
          /\ pop = (popped /\ lanes[l].resultq # <<>>)
    OBVIOUS
  <2>2. pop \in BOOLEAN /\ LaneOk(lane, mem) /\ (pop => lane.resultq # <<>>)
    BY <2>1 DEF LanesInv
  <2>3. Moved(lane, new, mem, issued, pop) /\ Issue(lane, mem, issued, pop)
    BY <2>1 DEF AllMove
  <2>4. Distinct(lane)
    BY <2>1 DEF LanesInv, Apart, Distinct
  <2>5. /\ LaneOk(new, mem) /\ Distinct(new)
        /\ \A k \in Kinds, i \in Nat : Has(new, k, i) => Arrives(lane, issued, pop, Item(new, k, i))
    BY <2>2, <2>3, <2>4, MovedKeeps
  <2> QED
    BY <2>1, <2>5
<1>3. ASSUME NEW l \in Lanes, NEW k \in Kinds, NEW i \in Nat, Has(news[l], k, i)
      PROVE  \/ issue[l] # <<>> /\ Item(news[l], k, i) = issue[l][1]
             \/ \E k0 \in Kinds, i0 \in Nat :
                  /\ Has(lanes[l], k0, i0) /\ Ticket(Item(news[l], k, i)) = Ticket(Item(lanes[l], k0, i0))
                  /\ Ticket(Item(lanes[l], k0, i0)) \in Held(lanes, n)
  <2>1. Arrives(lanes[l], issue[l], popped /\ lanes[l].resultq # <<>>, Item(news[l], k, i))
    BY <1>2, <1>3
  <2>2. CASE issue[l] # <<>> /\ Item(news[l], k, i) = issue[l][1]
    BY <2>2
  <2>3. CASE \E k0 \in Kinds, i0 \in Nat :
               /\ Stays(lanes[l], popped /\ lanes[l].resultq # <<>>, k0, i0)
               /\ Ticket(Item(news[l], k, i)) = Ticket(Item(lanes[l], k0, i0))
    <3>1. PICK k0 \in Kinds, i0 \in Nat :
            /\ Stays(lanes[l], popped /\ lanes[l].resultq # <<>>, k0, i0)
            /\ Ticket(Item(news[l], k, i)) = Ticket(Item(lanes[l], k0, i0))
      BY <2>3
    <3>2. Ticket(Item(lanes[l], k0, i0)) \in Held(lanes, n)
      BY <3>1, StaysHeld
    <3> QED
      BY <3>1, <3>2 DEF Stays
  <2> QED
    BY <2>1, <2>2, <2>3 DEF Arrives
<1>4. Apart(news)
  <2> SUFFICES ASSUME NEW l \in Lanes, NEW m \in Lanes, NEW k \in Kinds, NEW j \in Kinds,
                      NEW i \in Nat, NEW h \in Nat,
                      Has(news[l], k, i), Has(news[m], j, h),
                      Item(news[l], k, i).seq = Item(news[m], j, h).seq
               PROVE  l = m /\ k = j /\ i = h
    BY DEF Apart
  <2>1. PICK x, y : x = Item(news[l], k, i) /\ y = Item(news[m], j, h) /\ x.seq = y.seq
    OBVIOUS
  <2>2. l = m
    <3>1. \A a \in Lanes : \A z : issue[a] # <<>> /\ z \in Held(lanes, n) => z.seq # issue[a][1].seq
      BY DEF IssuedApart
    <3>2. \A z : Ticket(z).seq = z.seq
      BY DEF Ticket
    <3>3. CASE issue[l] # <<>> /\ x = issue[l][1]
      <4>1. CASE issue[m] # <<>> /\ y = issue[m][1]
        BY <2>1, <3>3, <4>1 DEF IssuedApart
      <4>2. CASE \E k0 \in Kinds, i0 \in Nat :
                   /\ Has(lanes[m], k0, i0) /\ Ticket(y) = Ticket(Item(lanes[m], k0, i0))
                   /\ Ticket(Item(lanes[m], k0, i0)) \in Held(lanes, n)
        BY <2>1, <3>1, <3>2, <3>3, <4>2
      <4> QED
        BY <1>3, <2>1, <4>1, <4>2
    <3>4. CASE \E k0 \in Kinds, i0 \in Nat :
                 /\ Has(lanes[l], k0, i0) /\ Ticket(x) = Ticket(Item(lanes[l], k0, i0))
                 /\ Ticket(Item(lanes[l], k0, i0)) \in Held(lanes, n)
      <4>1. CASE issue[m] # <<>> /\ y = issue[m][1]
        BY <2>1, <3>1, <3>2, <3>4, <4>1
      <4>2. CASE \E k0 \in Kinds, i0 \in Nat :
                   /\ Has(lanes[m], k0, i0) /\ Ticket(y) = Ticket(Item(lanes[m], k0, i0))
                   /\ Ticket(Item(lanes[m], k0, i0)) \in Held(lanes, n)
        <5>1. PICK k0 \in Kinds, i0 \in Nat : Has(lanes[l], k0, i0) /\ x.seq = Item(lanes[l], k0, i0).seq
          BY <1>1, <3>4
        <5>2. PICK k1 \in Kinds, i1 \in Nat : Has(lanes[m], k1, i1) /\ y.seq = Item(lanes[m], k1, i1).seq
          BY <1>1, <4>2
        <5> QED
          BY <2>1, <5>1, <5>2 DEF LanesInv, Apart
      <4> QED
        BY <1>3, <2>1, <4>1, <4>2
    <3> QED
      BY <1>3, <2>1, <3>3, <3>4
  <2> QED
    BY <1>2, <2>2 DEF Distinct
<1>5. ASSUME NEW t \in Held(news, 0)
      PROVE  t \in Held(lanes, n) \cup IssuedTickets(issue)
  <2>1. PICK l \in Lanes, k \in Kinds, i \in Nat : Has(news[l], k, i) /\ t = Ticket(Item(news[l], k, i))
    BY DEF Held
  <2> QED
    BY <1>3, <2>1 DEF IssuedTickets
<1> QED
  BY <1>2, <1>4, <1>5 DEF LanesInv

\* What the visits to the slots of a memory lane go through.
LEMMA VisitedRun ==
  ASSUME NEW lane, NEW memo
  PROVE  \E run :
           /\ run[0] = [slots |-> lane.slots, out |-> <<>>, mem |-> memo.mem, resp |-> memo.resp, undo |-> memo.undo] /\ Lsu!Visited(lane, memo) = run[PIPE_SLOTS]
           /\ \A i \in 1 .. PIPE_SLOTS : run[i] = Lsu!Visit(run[i - 1], i, Len(lane.resultq) < RESULT_DEPTH)
<1> DEFINE n == PIPE_SLOTS
           Is(f) == f = [i \in 0 .. n |-> IF i = 0 THEN [slots |-> lane.slots, out |-> <<>>, mem |-> memo.mem, resp |-> memo.resp, undo |-> memo.undo] ELSE Lsu!Visit(f[i - 1], i, Len(lane.resultq) < RESULT_DEPTH)]
           run == CHOOSE f : Is(f)
<1>1. n \in Nat
  BY SizesAssumption
<1>2. Lsu!Visited(lane, memo) = run[n]
  BY DEF Lsu!Visited
<1> HIDE DEF n
<1>3. PICK kind, init : kind = [loop |-> "visit", with |-> Len(lane.resultq) < RESULT_DEPTH] /\ init = [slots |-> lane.slots, out |-> <<>>, mem |-> memo.mem, resp |-> memo.resp, undo |-> memo.undo]
  OBVIOUS
<1>4. HasRun(kind, init, n)
  BY <1>1, LoopRuns
<1>5. PICK V : \E f \in [0 .. n -> V] : f[0] = init /\ \A i \in 1 .. n : f[i] = Step(kind, f[i - 1], i)
  BY <1>4 DEF HasRun
<1>6. PICK f \in [0 .. n -> V] : f[0] = init /\ \A i \in 1 .. n : f[i] = Step(kind, f[i - 1], i)
  BY <1>5
<1>7. \A x, i : Step(kind, x, i) = Lsu!Visit(x, i, Len(lane.resultq) < RESULT_DEPTH)
  BY <1>3 DEF Step
<1>8. Is(f)
  BY <1>1, <1>3, <1>6, <1>7
<1> HIDE DEF Is
<1>9. Is(run)
  BY <1>8
<1> HIDE DEF run
<1>10. run[0] = [slots |-> lane.slots, out |-> <<>>, mem |-> memo.mem, resp |-> memo.resp, undo |-> memo.undo] /\ \A i \in 1 .. n : run[i] = Lsu!Visit(run[i - 1], i, Len(lane.resultq) < RESULT_DEPTH)
  BY <1>1, <1>9 DEF Is
<1> QED
  BY <1>2, <1>10 DEF n

\* What the cycle of the memory lanes goes through.
LEMMA ServedRun ==
  ASSUME NEW issue, NEW popped
  PROVE  \E run :
           /\ run[0] = [lanes |-> lsu, mem |-> memory.mem, resp |-> memory.resp, undo |-> memory.undo] /\ Served(issue, popped) = run[LSU_LANES]
           /\ \A i \in 1 .. LSU_LANES : run[i] = ServeLane(run[i - 1], i, issue, popped)
<1> DEFINE n == LSU_LANES
           Is(f) == f = [i \in 0 .. n |-> IF i = 0 THEN [lanes |-> lsu, mem |-> memory.mem, resp |-> memory.resp, undo |-> memory.undo] ELSE ServeLane(f[i - 1], i, issue, popped)]
           run == CHOOSE f : Is(f)
<1>1. n \in Nat
  BY SizesAssumption
<1>2. Served(issue, popped) = run[n]
  BY DEF Served, Iterated
<1> HIDE DEF n
<1>3. PICK kind, init : kind = [loop |-> "serve", with |-> issue, taken |-> popped] /\ init = [lanes |-> lsu, mem |-> memory.mem, resp |-> memory.resp, undo |-> memory.undo]
  OBVIOUS
<1>4. HasRun(kind, init, n)
  BY <1>1, LoopRuns
<1>5. PICK V : \E f \in [0 .. n -> V] : f[0] = init /\ \A i \in 1 .. n : f[i] = Step(kind, f[i - 1], i)
  BY <1>4 DEF HasRun
<1>6. PICK f \in [0 .. n -> V] : f[0] = init /\ \A i \in 1 .. n : f[i] = Step(kind, f[i - 1], i)
  BY <1>5
<1>7. \A x, i : Step(kind, x, i) = ServeLane(x, i, issue, popped)
  BY <1>3 DEF Step
<1>8. Is(f)
  BY <1>1, <1>3, <1>6, <1>7
<1> HIDE DEF Is
<1>9. Is(run)
  BY <1>8
<1> HIDE DEF run
<1>10. run[0] = [lanes |-> lsu, mem |-> memory.mem, resp |-> memory.resp, undo |-> memory.undo] /\ \A i \in 1 .. n : run[i] = ServeLane(run[i - 1], i, issue, popped)
  BY <1>1, <1>9 DEF Is
<1> QED
  BY <1>2, <1>10 DEF n

\* The first of some slots is one of them.
LEMMA LeastSlot ==
  ASSUME NEW S \in SUBSET (1 .. PIPE_SLOTS), S # {}
  PROVE  Alu!Min(S) \in S /\ Lsu!Min(S) \in S
<1>1. IsFiniteSet(S) /\ S \in SUBSET Int
  <2>1. IsFiniteSet(1 .. PIPE_SLOTS)
    BY SizesAssumption, FS_Interval
  <2>2. IsFiniteSet(S)
    BY <2>1, FS_Subset
  <2>3. S \in SUBSET Int
    OBVIOUS
  <2> QED
    BY <2>2, <2>3
<1>2. \E i \in S : \A j \in S : i <= j
  BY <1>1, FirstMember
<1> QED
  BY <1>2 DEF Alu!Min, Lsu!Min

\* The first of at most one slot, or 0.
LEMMA OnlyOne ==
  ASSUME NEW S, \A s \in S : s \in 1 .. PIPE_SLOTS /\ \A u \in S : s = u,
         NEW t, t = (IF S = {} THEN 0 ELSE Alu!Min(S))
  PROVE  /\ (t # 0 <=> S # {}) /\ t \in 0 .. PIPE_SLOTS
         /\ S # {} => t \in S /\ S = {t}
<1>1. PIPE_SLOTS \in Nat
  BY SizesAssumption
<1>2. S \in SUBSET (1 .. PIPE_SLOTS)
  OBVIOUS
<1>3. CASE S = {}
  <2>1. t = 0
    BY <1>3
  <2> QED
    BY <1>1, <1>3, <2>1
<1>4. CASE S # {}
  <2>1. Alu!Min(S) \in S
    BY <1>2, <1>4, LeastSlot
  <2>2. t \in S
    BY <1>4, <2>1
  <2>3. t \in 1 .. PIPE_SLOTS /\ S = {t}
    BY <2>2
  <2> QED
    BY <1>1, <1>4, <2>2, <2>3
<1> QED
  BY <1>3, <1>4

\* At most one slot of an arithmetic lane finishes in a cycle: no two of its
\* instructions are of the same age.
LEMMA OneFinishes ==
  ASSUME NEW lane, NEW mem, LaneOk(lane, mem), Distinct(lane)
  PROVE  \A s \in Alu!Finishing(lane) :
           /\ s \in 1 .. PIPE_SLOTS /\ lane.slots[s].valid
           /\ \A u \in Alu!Finishing(lane) : s = u
<1>1. DOMAIN lane.slots = 1 .. PIPE_SLOTS
  BY DEF LaneOk
<1>2. \A s \in Alu!Finishing(lane) :
        /\ s \in 1 .. PIPE_SLOTS /\ lane.slots[s].valid
        /\ \A u \in Alu!Finishing(lane) : lane.slots[s].req.seq <= lane.slots[u].req.seq
  BY <1>1 DEF Alu!Finishing
<1>3. ASSUME NEW s \in Alu!Finishing(lane), NEW u \in Alu!Finishing(lane)
      PROVE  s = u
  <2>1. "slot" \in Kinds /\ s \in Nat /\ u \in Nat
    BY <1>2 DEF Kinds
  <2>2. /\ Has(lane, "slot", s) /\ Item(lane, "slot", s) = lane.slots[s].req
        /\ Has(lane, "slot", u) /\ Item(lane, "slot", u) = lane.slots[u].req
    BY <1>2 DEF Has, Item
  <2>3. lane.slots[s].req.seq \in Nat /\ lane.slots[u].req.seq \in Nat
    BY <2>1, <2>2 DEF LaneOk, ItemOk
  <2>4. lane.slots[s].req.seq = lane.slots[u].req.seq
    BY <1>2, <2>3
  <2> QED
    BY <2>1, <2>2, <2>4 DEF Distinct
<1> QED
  BY <1>2, <1>3

\* A cycle of an arithmetic lane.
LEMMA AluTickMoves ==
  ASSUME NEW lane, NEW issued, NEW popped, LaneOk(lane, FALSE), Distinct(lane)
  PROVE  \E t, o, r : /\ Move(lane, Alu!Tick(lane, issued, popped), FALSE, issued, popped, t, o, r)
                      /\ Fills(lane, Alu!Tick(lane, issued, popped), t, o)
                      /\ o # 0 => r = Alu!Result(lane.slots[o].req)
<1>1. PICK in, out : in = Alu!Accepting(lane) /\ out = Alu!Finishing(lane)
  OBVIOUS
<1>2. PICK t, o, r : /\ t = (IF in = {} THEN 0 ELSE Alu!Min(in))
                     /\ o = (IF out = {} THEN 0 ELSE Alu!Min(out))
                     /\ r = Alu!Result(lane.slots[o].req)
  OBVIOUS
<1>3. PICK new : new = Alu!Tick(lane, issued, popped)
  OBVIOUS
<1>4. \A s \in out : s \in 1 .. PIPE_SLOTS /\ lane.slots[s].valid /\ \A u \in out : s = u
  BY <1>1, OneFinishes
<1>5. /\ \A s \in in : s \in 1 .. PIPE_SLOTS /\ \A u \in in : s = u
      /\ in # {} => lane.issueq # <<>>
      /\ \A s \in in : lane.slots[s].valid => s \in out
  <2> DEFINE free == { s \in DOMAIN lane.slots : ~ lane.slots[s].valid }
  <2>1. in = IF lane.issueq = <<>> THEN {} ELSE IF free # {} THEN {Alu!Min(free)} ELSE out
    BY <1>1 DEF Alu!Accepting
  <2>2. free # {} => Alu!Min(free) \in 1 .. PIPE_SLOTS /\ ~ lane.slots[Alu!Min(free)].valid
    <3>1. free \in SUBSET (1 .. PIPE_SLOTS)
      BY DEF LaneOk
    <3>2. free # {} => Alu!Min(free) \in free
      BY <3>1, LeastSlot
    <3> QED
      BY <3>1, <3>2
  <2> HIDE DEF free
  <2> QED
    BY <1>4, <2>1, <2>2
<1>6. /\ (t # 0 <=> in # {}) /\ t \in 0 .. PIPE_SLOTS
      /\ in # {} => t \in in /\ in = {t}
  BY <1>2, <1>5, OnlyOne
<1>7. /\ (o # 0 <=> out # {}) /\ o \in 0 .. PIPE_SLOTS
      /\ out # {} => o \in out /\ out = {o}
  BY <1>2, <1>4, OnlyOne
<1>8. /\ (t # 0 <=> in # {}) /\ t \in 0 .. PIPE_SLOTS
      /\ (o # 0 <=> out # {}) /\ o \in 0 .. PIPE_SLOTS
  BY <1>6, <1>7
<1>9. /\ new.issueq = (IF in # {} THEN Tail(lane.issueq) ELSE lane.issueq) \o issued
      /\ new.resultq = (IF popped THEN Tail(lane.resultq) ELSE lane.resultq)
                         \o (IF out # {} THEN << Alu!Result(lane.slots[Alu!Min(out)].req) >> ELSE <<>>)
      /\ new.slots = [s \in 1 .. PIPE_SLOTS |->
           CASE s \in in  -> [valid |-> TRUE, remain |-> Alu!Latency(Head(lane.issueq)) - 1,
                              req |-> Head(lane.issueq)]
             [] s \in out /\ s \notin in -> Alu!Free
             [] OTHER     -> IF lane.slots[s].valid
                             THEN [lane.slots[s] EXCEPT !.remain = IF @ > 0 THEN @ - 1 ELSE 0]
                             ELSE Alu!Free]
  BY <1>1, <1>3 DEF Alu!Tick
<1>10. new.issueq = (IF t # 0 THEN Tail(lane.issueq) ELSE lane.issueq) \o issued
  BY <1>8, <1>9
<1>11. new.resultq = (IF popped THEN Tail(lane.resultq) ELSE lane.resultq) \o (IF o # 0 THEN <<r>> ELSE <<>>)
  <2>1. (IF out # {} THEN << Alu!Result(lane.slots[Alu!Min(out)].req) >> ELSE <<>>)
          = (IF o # 0 THEN <<r>> ELSE <<>>)
    BY <1>2, <1>8
  <2> QED
    BY <1>9, <2>1
<1>12. o # 0 => /\ lane.slots[o].valid
                /\ r.rob = lane.slots[o].req.rob /\ r.dst = lane.slots[o].req.dst
                /\ r.seq = lane.slots[o].req.seq
                /\ r.dst # 0 => r.hasDest
  BY <1>2, <1>4, <1>7, <1>8 DEF Alu!Result
<1>13. ASSUME NEW s \in 1 .. PIPE_SLOTS
       PROVE  /\ "valid" \in DOMAIN new.slots[s]
              /\ new.slots[s].valid =>
                   /\ "req" \in DOMAIN new.slots[s]
                   /\ s = t => new.slots[s].req = Head(lane.issueq)
                   /\ s # t => s # o /\ lane.slots[s].valid /\ new.slots[s].req = lane.slots[s].req
  <2>1. PICK e, x : e = lane.slots[s] /\ x = new.slots[s]
    OBVIOUS
  <2>2. "valid" \in DOMAIN e /\ (e.valid => "req" \in DOMAIN e)
    BY <2>1 DEF LaneOk
  <2>3. CASE s \in in
    <3>1. x = [valid |-> TRUE, remain |-> Alu!Latency(Head(lane.issueq)) - 1, req |-> Head(lane.issueq)]
      BY <1>9, <2>1, <2>3
    <3>2. s = t
      BY <1>6, <2>3
    <3>3. x.req = Head(lane.issueq) /\ "req" \in DOMAIN x /\ "valid" \in DOMAIN x
      BY <3>1
    <3> QED
      BY <2>1, <3>2, <3>3
  <2>4. CASE s \notin in /\ s \in out
    <3>1. x = Alu!Free
      BY <1>9, <2>1, <2>4
    <3>2. "valid" \in DOMAIN x /\ ~ x.valid
      BY <3>1 DEF Alu!Free
    <3> QED
      BY <2>1, <3>2
  <2>5. CASE s \notin in /\ s \notin out
    <3>1. s # t /\ s # o
      BY <1>6, <1>7, <1>8, <2>5
    <3>2. x = IF e.valid THEN [e EXCEPT !.remain = IF @ > 0 THEN @ - 1 ELSE 0] ELSE Alu!Free
      BY <1>9, <2>1, <2>5
    <3>3. CASE e.valid
      <4>1. x = [e EXCEPT !.remain = IF @ > 0 THEN @ - 1 ELSE 0]
        BY <3>2, <3>3
      <4>2. PICK v : x = [e EXCEPT !.remain = v]
        BY <4>1
      <4>3. DOMAIN x = DOMAIN e /\ x.req = e.req
        BY <2>2, <3>3, <4>2
      <4> QED
        BY <2>1, <2>2, <3>1, <3>3, <4>3
    <3>4. CASE ~ e.valid
      <4>1. "valid" \in DOMAIN x /\ ~ x.valid
        BY <3>2, <3>4 DEF Alu!Free
      <4> QED
        BY <2>1, <4>1
    <3> QED
      BY <3>3, <3>4
  <2> QED
    BY <2>3, <2>4, <2>5
<1>14. DOMAIN new.slots = 1 .. PIPE_SLOTS
  BY <1>9
<1>15. t # 0 => lane.issueq # <<>>
  BY <1>5, <1>8
<1>16. Move(lane, new, FALSE, issued, popped, t, o, r)
  BY <1>8, <1>10, <1>11, <1>12, <1>13, <1>14, <1>15 DEF Move
<1>17. Fills(lane, new, t, o)
  <2>1. ASSUME t # 0
        PROVE  new.slots[t].valid /\ (lane.slots[t].valid => t = o)
    <3>1. t \in in /\ t \in 1 .. PIPE_SLOTS /\ (lane.slots[t].valid => t \in out)
      BY <1>5, <1>6, <2>1
    <3>2. new.slots[t] = [valid |-> TRUE, remain |-> Alu!Latency(Head(lane.issueq)) - 1,
                          req |-> Head(lane.issueq)]
      BY <1>9, <3>1
    <3>3. new.slots[t].valid
      BY <3>2
    <3> QED
      BY <1>7, <3>1, <3>3
  <2>2. ASSUME NEW s \in 1 .. PIPE_SLOTS, lane.slots[s].valid, s # o, s # t
        PROVE  new.slots[s].valid
    <3>1. s \notin in /\ s \notin out
      BY <1>6, <1>7, <2>2
    <3>2. PICK e : e = lane.slots[s] /\ e.valid /\ "valid" \in DOMAIN e
      BY <2>2 DEF LaneOk
    <3>3. new.slots[s] = [e EXCEPT !.remain = IF @ > 0 THEN @ - 1 ELSE 0]
      BY <1>9, <3>1, <3>2
    <3>4. PICK v : new.slots[s] = [e EXCEPT !.remain = v]
      BY <3>3
    <3> QED
      BY <3>2, <3>4
  <2> QED
    BY <2>1, <2>2 DEF Fills
<1> QED
  BY <1>2, <1>3, <1>16, <1>17

VisitFields == {"slots", "out", "mem", "resp", "undo"}

\* What the visits to the slots may have done.
VisitInv(lane, a) ==
  /\ DOMAIN a = VisitFields /\ DOMAIN a.slots = 1 .. PIPE_SLOTS
  /\ \A s \in 1 .. PIPE_SLOTS :
       /\ "valid" \in DOMAIN a.slots[s]
       /\ a.slots[s].valid => /\ lane.slots[s].valid /\ "req" \in DOMAIN a.slots[s]
                              /\ a.slots[s].req = lane.slots[s].req
  /\ \/ a.out = <<>>
     \/ \E o \in 1 .. PIPE_SLOTS : \E resp :
          lane.slots[o].valid /\ ~ a.slots[o].valid /\ a.out = << Lsu!Result(lane.slots[o].req, resp) >>

\* A visit to a slot changes that slot, and frees it if its result leaves.
LEMMA VisitKeeps ==
  ASSUME NEW lane, NEW a, NEW s \in 1 .. PIPE_SLOTS, NEW room, VisitInv(lane, a)
  PROVE  VisitInv(lane, Lsu!Visit(a, s, room))
<1>1. PICK b : b = Lsu!Visit(a, s, room)
  OBVIOUS
<1>2. PICK e : e = a.slots[s]
  OBVIOUS
<1>3. /\ DOMAIN a = VisitFields /\ DOMAIN a.slots = 1 .. PIPE_SLOTS
      /\ "valid" \in DOMAIN e
      /\ e.valid => lane.slots[s].valid /\ "req" \in DOMAIN e /\ e.req = lane.slots[s].req
  BY <1>2 DEF VisitInv
<1>4. ASSUME NEW x, DOMAIN b = VisitFields, b.slots = [a.slots EXCEPT ![s] = x], b.out = a.out,
             "valid" \in DOMAIN x, e.valid,
             x.valid => "req" \in DOMAIN x /\ x.req = e.req
      PROVE  VisitInv(lane, b)
  <2>1. /\ DOMAIN b.slots = 1 .. PIPE_SLOTS /\ b.slots[s] = x
        /\ \A u \in 1 .. PIPE_SLOTS : u # s => b.slots[u] = a.slots[u]
    BY <1>3, <1>4
  <2>2. ASSUME NEW u \in 1 .. PIPE_SLOTS
        PROVE  /\ "valid" \in DOMAIN b.slots[u]
               /\ b.slots[u].valid => /\ lane.slots[u].valid /\ "req" \in DOMAIN b.slots[u]
                                      /\ b.slots[u].req = lane.slots[u].req
    <3>1. CASE u = s
      BY <1>3, <1>4, <2>1, <3>1
    <3>2. CASE u # s
      BY <2>1, <3>2 DEF VisitInv
    <3> QED
      BY <3>1, <3>2
  <2>3. ASSUME NEW o \in 1 .. PIPE_SLOTS, ~ a.slots[o].valid
        PROVE  ~ b.slots[o].valid
    <3>1. o # s
      BY <1>2, <1>4, <2>3
    <3> QED
      BY <2>1, <2>3, <3>1
  <2>4. \/ b.out = <<>>
        \/ \E o \in 1 .. PIPE_SLOTS : \E resp :
             lane.slots[o].valid /\ ~ b.slots[o].valid /\ b.out = << Lsu!Result(lane.slots[o].req, resp) >>
    <3>1. CASE a.out = <<>>
      BY <1>4, <3>1
    <3>2. CASE \E o \in 1 .. PIPE_SLOTS : \E resp :
                 lane.slots[o].valid /\ ~ a.slots[o].valid /\ a.out = << Lsu!Result(lane.slots[o].req, resp) >>
      <4>1. b.out = a.out
        BY <1>4
      <4> QED
        BY <2>3, <3>2, <4>1
    <3> QED
      BY <3>1, <3>2 DEF VisitInv
  <2> QED
    BY <1>4, <2>1, <2>2, <2>4 DEF VisitInv
<1>5. CASE ~ e.valid
  <2>1. b = a
    BY <1>1, <1>2, <1>5 DEF Lsu!Visit
  <2> QED
    BY <1>1, <2>1
<1>6. CASE e.valid /\ e.phase = "addr"
  <2>1. PICK x : x = IF e.remain > 0 THEN [e EXCEPT !.remain = @ - 1] ELSE [e EXCEPT !.phase = "send"]
    OBVIOUS
  <2>2. b = [a EXCEPT !.slots[s] = x]
    BY <1>1, <1>2, <1>6, <2>1 DEF Lsu!Visit
  <2>3. PICK f, v : x = [e EXCEPT !.remain = v] \/ x = [e EXCEPT !.phase = f]
    BY <2>1
  <2>4. DOMAIN x = DOMAIN e /\ x.req = e.req
    BY <1>3, <1>6, <2>3
  <2>5. DOMAIN b = VisitFields /\ b.slots = [a.slots EXCEPT ![s] = x] /\ b.out = a.out
    BY <1>3, <2>2 DEF VisitFields
  <2> QED
    BY <1>1, <1>3, <1>4, <1>6, <2>4, <2>5
<1>7. CASE e.valid /\ e.phase # "addr" /\ e.phase = "send"
  <2>1. PICK g : g = Lsu!Request(a, e.req)
    OBVIOUS
  <2>2. DOMAIN g = VisitFields /\ g.slots = a.slots /\ g.out = a.out
    BY <1>3, <2>1 DEF Lsu!Request, VisitFields
  <2>3. b = [g EXCEPT !.slots[s].phase = "sent"]
    BY <1>1, <1>2, <1>7, <2>1 DEF Lsu!Visit
  <2>4. PICK x : x = [e EXCEPT !.phase = "sent"]
    OBVIOUS
  <2>5. DOMAIN x = DOMAIN e /\ x.req = e.req
    BY <1>3, <1>7, <2>4
  <2>6. DOMAIN b = VisitFields /\ b.slots = [a.slots EXCEPT ![s] = x] /\ b.out = a.out
    <3>1. b.slots = [g.slots EXCEPT ![s] = [g.slots[s] EXCEPT !.phase = "sent"]]
          /\ DOMAIN b = DOMAIN g /\ b.out = g.out
      BY <2>2, <2>3 DEF VisitFields
    <3> QED
      BY <1>2, <2>2, <2>4, <3>1
  <2> QED
    BY <1>1, <1>3, <1>4, <1>7, <2>5, <2>6
<1>8. CASE e.valid /\ e.phase # "addr" /\ e.phase # "send"
  <2>1. b = IF ~ a.resp.valid THEN a
            ELSE IF ~ room THEN [a EXCEPT !.resp = Lsu!NoResponse]
            ELSE [a EXCEPT !.resp = Lsu!NoResponse, !.slots[s] = Lsu!Free,
                           !.out = << Lsu!Result(e.req, a.resp) >>]
    BY <1>1, <1>2, <1>8 DEF Lsu!Visit
  <2>2. CASE b = a
    BY <1>1, <2>2
  <2>3. CASE b = [a EXCEPT !.resp = Lsu!NoResponse]
    <3>1. DOMAIN b = VisitFields /\ b.slots = a.slots /\ b.out = a.out
      BY <1>3, <2>3 DEF VisitFields
    <3> QED
      BY <1>1, <3>1 DEF VisitInv
  <2>4. CASE b = [a EXCEPT !.resp = Lsu!NoResponse, !.slots[s] = Lsu!Free,
                           !.out = << Lsu!Result(e.req, a.resp) >>]
    <3>1. PICK resp : resp = a.resp
      OBVIOUS
    <3>2. /\ DOMAIN b = VisitFields /\ b.slots = [a.slots EXCEPT ![s] = Lsu!Free]
          /\ b.out = << Lsu!Result(lane.slots[s].req, resp) >>
      BY <1>3, <1>8, <2>4, <3>1 DEF VisitFields
    <3>3. /\ DOMAIN b.slots = 1 .. PIPE_SLOTS /\ b.slots[s] = Lsu!Free
          /\ \A u \in 1 .. PIPE_SLOTS : u # s => b.slots[u] = a.slots[u]
      BY <1>3, <3>2
    <3>4. "valid" \in DOMAIN b.slots[s] /\ ~ b.slots[s].valid
      BY <3>3 DEF Lsu!Free
    <3>5. \A u \in 1 .. PIPE_SLOTS :
            /\ "valid" \in DOMAIN b.slots[u]
            /\ b.slots[u].valid => /\ lane.slots[u].valid /\ "req" \in DOMAIN b.slots[u]
                                   /\ b.slots[u].req = lane.slots[u].req
      BY <3>3, <3>4 DEF VisitInv
    <3>6. lane.slots[s].valid
      BY <1>3, <1>8
    <3> QED
      BY <1>1, <3>2, <3>3, <3>4, <3>5, <3>6 DEF VisitInv
  <2> QED
    BY <2>1, <2>2, <2>3, <2>4
<1> QED
  BY <1>5, <1>6, <1>7, <1>8

\* The visits to all the slots.
LEMMA VisitsKeep ==
  ASSUME NEW lane, NEW memo, LaneOk(lane, TRUE)
  PROVE  VisitInv(lane, Lsu!Visited(lane, memo))
<1> DEFINE n == PIPE_SLOTS
           room == Len(lane.resultq) < RESULT_DEPTH
<1>1. PICK run :
        /\ run[0] = [slots |-> lane.slots, out |-> <<>>,
                     mem |-> memo.mem, resp |-> memo.resp, undo |-> memo.undo]
        /\ Lsu!Visited(lane, memo) = run[n]
        /\ \A i \in 1 .. n : run[i] = Lsu!Visit(run[i - 1], i, room)
  BY VisitedRun
<1>2. n \in Nat
  BY SizesAssumption
<1>3. VisitInv(lane, run[0])
  <2>1. /\ DOMAIN run[0] = VisitFields /\ run[0].slots = lane.slots /\ run[0].out = <<>>
    BY <1>1 DEF VisitFields
  <2> QED
    BY <2>1 DEF VisitInv, LaneOk
<1>4. ASSUME NEW i \in 1 .. n, VisitInv(lane, run[i - 1])
      PROVE  VisitInv(lane, run[i])
  <2>1. PICK a : a = run[i - 1] /\ VisitInv(lane, a)
    BY <1>4
  <2>2. VisitInv(lane, Lsu!Visit(a, i, room))
    BY <2>1, VisitKeeps
  <2> QED
    BY <1>1, <2>1, <2>2
<1> HIDE DEF n, room
<1> DEFINE Good == { i \in 0 .. n : VisitInv(lane, run[i]) }
<1>5. 0 \in Good /\ \A i \in 1 .. n : i - 1 \in Good => i \in Good
  BY <1>2, <1>3, <1>4
<1>6. Good \in SUBSET (0 .. n)
  OBVIOUS
<1> HIDE DEF Good
<1>7. Good = 0 .. n
  BY <1>2, <1>5, <1>6, PassedOn
<1> QED
  BY <1>1, <1>2, <1>7 DEF Good

\* Slot s is valid and polls for an answer.
Polls(lane, s) == lane.slots[s].valid /\ lane.slots[s].phase # "addr" /\ lane.slots[s].phase # "send"

\* No slot sends between two that poll: were there one, the first would take
\* the answer that is there and the other that of the slot between, and the
\* second result of the cycle would replace the first.
OneAnswer(lane) ==
  \A s, t, u \in 1 .. PIPE_SLOTS :
    s < t /\ t < u /\ lane.slots[t].valid /\ lane.slots[t].phase = "send" => ~ (Polls(lane, s) /\ Polls(lane, u))

\* The visits up to slot k, starting from lane, made it a: at most one slot is
\* freed, its result leaves, and only a later slot has left an answer since.
FreesOne(lane, a, k) ==
  /\ \A s \in 1 .. PIPE_SLOTS : s > k => a.slots[s] = lane.slots[s]
  /\ \A s \in 1 .. PIPE_SLOTS : lane.slots[s].valid /\ ~ a.slots[s].valid =>
       /\ Polls(lane, s) /\ a.out # <<>>
       /\ \A u \in 1 .. PIPE_SLOTS : lane.slots[u].valid /\ ~ a.slots[u].valid => s = u
       /\ a.resp.valid => \E t \in 1 .. k : /\ s < t /\ t \in 1 .. PIPE_SLOTS
                                           /\ lane.slots[t].valid /\ lane.slots[t].phase = "send"

\* A visit frees its slot only if no slot is freed yet.
LEMMA VisitFreesOne ==
  ASSUME NEW lane, NEW a, NEW k \in 1 .. PIPE_SLOTS, NEW room, VisitInv(lane, a),
         OneAnswer(lane), FreesOne(lane, a, k - 1)
  PROVE  FreesOne(lane, Lsu!Visit(a, k, room), k)
<1>0. PIPE_SLOTS \in Nat /\ k \in Nat
  BY SizesAssumption
<1>1. PICK b : b = Lsu!Visit(a, k, room)
  OBVIOUS
<1>2. PICK e : e = a.slots[k]
  OBVIOUS
<1>3. /\ DOMAIN a = VisitFields /\ DOMAIN a.slots = 1 .. PIPE_SLOTS
      /\ "valid" \in DOMAIN e /\ e = lane.slots[k]
  <2>1. a.slots[k] = lane.slots[k]
    BY <1>0 DEF FreesOne
  <2> QED
    BY <1>2, <2>1 DEF VisitInv
<1>4. ASSUME NEW s \in 1 .. PIPE_SLOTS, lane.slots[s].valid, ~ a.slots[s].valid
      PROVE  /\ Polls(lane, s) /\ a.out # <<>>
             /\ \A u \in 1 .. PIPE_SLOTS : lane.slots[u].valid /\ ~ a.slots[u].valid => s = u
             /\ a.resp.valid => \E t \in 1 .. k : /\ s < t /\ t \in 1 .. PIPE_SLOTS
                                                 /\ lane.slots[t].valid /\ lane.slots[t].phase = "send"
             /\ s < k
  <2>1. s <= k - 1
    BY <1>0, <1>4 DEF FreesOne
  <2>2. \A t \in 1 .. k - 1 : t \in 1 .. k
    BY <1>0
  <2> QED
    BY <1>0, <1>4, <2>1, <2>2 DEF FreesOne
<1>5. ASSUME NEW x, b.slots = [a.slots EXCEPT ![k] = x], x.valid, e.valid, b.out = a.out,
             b.resp.valid => \/ a.resp.valid
                             \/ lane.slots[k].phase = "send"
      PROVE  FreesOne(lane, b, k)
  <2>1. /\ b.slots[k].valid
        /\ \A u \in 1 .. PIPE_SLOTS : u # k => b.slots[u] = a.slots[u]
    BY <1>3, <1>5
  <2>2. \A s \in 1 .. PIPE_SLOTS : s > k => b.slots[s] = lane.slots[s]
    <3>1. \A s \in 1 .. PIPE_SLOTS : s > k => s # k /\ s > k - 1
      BY <1>0
    <3> QED
      BY <2>1, <3>1 DEF FreesOne
  <2>3. ASSUME NEW s \in 1 .. PIPE_SLOTS, lane.slots[s].valid, ~ b.slots[s].valid
        PROVE  ~ a.slots[s].valid
    BY <2>1, <2>3
  <2>4. k \in 1 .. k /\ (lane.slots[k].phase = "send" => lane.slots[k].valid)
    BY <1>0, <1>3, <1>5
  <2>5. ASSUME NEW s \in 1 .. PIPE_SLOTS, lane.slots[s].valid, ~ b.slots[s].valid
        PROVE  /\ Polls(lane, s) /\ b.out # <<>>
               /\ \A u \in 1 .. PIPE_SLOTS : lane.slots[u].valid /\ ~ b.slots[u].valid => s = u
               /\ b.resp.valid => \E t \in 1 .. k : /\ s < t /\ t \in 1 .. PIPE_SLOTS
                                                   /\ lane.slots[t].valid /\ lane.slots[t].phase = "send"
    <3>1. ~ a.slots[s].valid
      BY <2>3, <2>5
    <3>2. Polls(lane, s) /\ b.out # <<>> /\ s < k
      BY <1>4, <1>5, <2>5, <3>1
    <3>3. \A u \in 1 .. PIPE_SLOTS : lane.slots[u].valid /\ ~ b.slots[u].valid => s = u
      BY <1>4, <2>3, <2>5, <3>1
    <3>4. ASSUME b.resp.valid
          PROVE  \E t \in 1 .. k : /\ s < t /\ t \in 1 .. PIPE_SLOTS
                                   /\ lane.slots[t].valid /\ lane.slots[t].phase = "send"
      <4>1. CASE a.resp.valid
        BY <1>4, <2>5, <3>1, <4>1
      <4>2. CASE lane.slots[k].phase = "send"
        BY <2>4, <3>2, <4>2
      <4> QED
        BY <1>5, <3>4, <4>1, <4>2
    <3> QED
      BY <3>2, <3>3, <3>4
  <2> QED
    BY <2>2, <2>5 DEF FreesOne
<1>6. CASE b.slots = a.slots /\ b.out = a.out /\ (b.resp.valid => a.resp.valid)
  <2>1. \A s \in 1 .. PIPE_SLOTS : s > k => b.slots[s] = lane.slots[s]
    <3>1. \A s \in 1 .. PIPE_SLOTS : s > k => s > k - 1
      BY <1>0
    <3> QED
      BY <1>6, <3>1 DEF FreesOne
  <2>2. ASSUME NEW s \in 1 .. PIPE_SLOTS, lane.slots[s].valid, ~ b.slots[s].valid
        PROVE  /\ Polls(lane, s) /\ b.out # <<>>
               /\ \A u \in 1 .. PIPE_SLOTS : lane.slots[u].valid /\ ~ b.slots[u].valid => s = u
               /\ b.resp.valid => \E t \in 1 .. k : /\ s < t /\ t \in 1 .. PIPE_SLOTS
                                                   /\ lane.slots[t].valid /\ lane.slots[t].phase = "send"
    BY <1>4, <1>6, <2>2
  <2> QED
    BY <1>1, <2>1, <2>2 DEF FreesOne
<1>7. CASE ~ e.valid
  <2>1. b = a
    BY <1>1, <1>2, <1>7 DEF Lsu!Visit
  <2> QED
    BY <1>1, <1>6, <2>1
<1>8. CASE e.valid /\ e.phase = "addr"
  <2>1. PICK x : x = IF e.remain > 0 THEN [e EXCEPT !.remain = @ - 1] ELSE [e EXCEPT !.phase = "send"]
    OBVIOUS
  <2>2. b = [a EXCEPT !.slots[k] = x]
    BY <1>1, <1>2, <1>8, <2>1 DEF Lsu!Visit
  <2>3. PICK f, v : x = [e EXCEPT !.remain = v] \/ x = [e EXCEPT !.phase = f]
    BY <2>1
  <2>4. x.valid
    BY <1>3, <1>8, <2>3
  <2>5. b.slots = [a.slots EXCEPT ![k] = x] /\ b.out = a.out /\ b.resp = a.resp
    BY <1>3, <2>2 DEF VisitFields
  <2> QED
    BY <1>1, <1>5, <1>8, <2>4, <2>5
<1>9. CASE e.valid /\ e.phase # "addr" /\ e.phase = "send"
  <2>1. PICK g : g = Lsu!Request(a, e.req)
    OBVIOUS
  <2>2. DOMAIN g = VisitFields /\ g.slots = a.slots /\ g.out = a.out
    BY <1>3, <2>1 DEF Lsu!Request, VisitFields
  <2>3. b = [g EXCEPT !.slots[k].phase = "sent"]
    BY <1>1, <1>2, <1>9, <2>1 DEF Lsu!Visit
  <2>4. PICK x : x = [e EXCEPT !.phase = "sent"]
    OBVIOUS
  <2>5. x.valid
    BY <1>3, <1>9, <2>4
  <2>6. b.slots = [a.slots EXCEPT ![k] = x] /\ b.out = a.out
    <3>1. b.slots = [g.slots EXCEPT ![k] = [g.slots[k] EXCEPT !.phase = "sent"]] /\ b.out = g.out
      BY <2>2, <2>3 DEF VisitFields
    <3> QED
      BY <1>2, <2>2, <2>4, <3>1
  <2>7. lane.slots[k].phase = "send"
    BY <1>3, <1>9
  <2> QED
    BY <1>1, <1>5, <1>9, <2>5, <2>6, <2>7
<1>10. CASE e.valid /\ e.phase # "addr" /\ e.phase # "send"
  <2>0. ~ Lsu!NoResponse.valid /\ ~ Lsu!Free.valid
    BY DEF Lsu!NoResponse, Lsu!Free
  <2>1. \/ b = a
        \/ b = [a EXCEPT !.resp = Lsu!NoResponse]
        \/ a.resp.valid /\ b = [a EXCEPT !.resp = Lsu!NoResponse, !.slots[k] = Lsu!Free,
                                        !.out = << Lsu!Result(e.req, a.resp) >>]
    BY <1>1, <1>2, <1>10 DEF Lsu!Visit
  <2>2. CASE b = a
    BY <1>1, <1>6, <2>2
  <2>3. CASE b = [a EXCEPT !.resp = Lsu!NoResponse]
    <3>1. b.slots = a.slots /\ b.out = a.out /\ b.resp = Lsu!NoResponse
      BY <1>3, <2>3 DEF VisitFields
    <3> QED
      BY <1>1, <1>6, <2>0, <3>1
  <2>4. CASE a.resp.valid /\ b = [a EXCEPT !.resp = Lsu!NoResponse, !.slots[k] = Lsu!Free,
                                          !.out = << Lsu!Result(e.req, a.resp) >>]
    <3>1. PICK res : res = Lsu!Result(e.req, a.resp)
      OBVIOUS
    <3>2. /\ b.slots = [a.slots EXCEPT ![k] = Lsu!Free] /\ b.resp = Lsu!NoResponse
          /\ b.out = << res >>
      BY <1>3, <2>4, <3>1 DEF VisitFields
    <3>3. \A u \in 1 .. PIPE_SLOTS : u # k => b.slots[u] = a.slots[u]
      BY <1>3, <3>2
    <3>4. Polls(lane, k)
      BY <1>3, <1>10 DEF Polls
    <3>5. ASSUME NEW s \in 1 .. PIPE_SLOTS, lane.slots[s].valid, ~ a.slots[s].valid
          PROVE  FALSE
      <4>1. Polls(lane, s)
        BY <1>4, <3>5
      <4>2. PICK t \in 1 .. k : /\ s < t /\ t \in 1 .. PIPE_SLOTS
                               /\ lane.slots[t].valid /\ lane.slots[t].phase = "send"
        BY <1>4, <2>4, <3>5
      <4>3. t # k
        BY <3>4, <4>2 DEF Polls
      <4>4. t < k
        BY <1>0, <4>2, <4>3
      <4> QED
        BY <3>4, <4>1, <4>2, <4>4 DEF OneAnswer
    <3>6. \A s \in 1 .. PIPE_SLOTS : lane.slots[s].valid /\ ~ b.slots[s].valid => s = k
      BY <3>3, <3>5
    <3>7. \A s \in 1 .. PIPE_SLOTS : s > k => b.slots[s] = lane.slots[s]
      <4>1. \A s \in 1 .. PIPE_SLOTS : s > k => s # k /\ s > k - 1
        BY <1>0
      <4> QED
        BY <3>3, <4>1 DEF FreesOne
    <3>8. b.out # <<>> /\ ~ b.resp.valid
      BY <2>0, <3>2
    <3> QED
      BY <1>1, <3>4, <3>6, <3>7, <3>8 DEF FreesOne
  <2> QED
    BY <2>1, <2>2, <2>3, <2>4
<1> QED
  BY <1>7, <1>8, <1>9, <1>10

\* And so the visits to all the slots.
LEMMA VisitsFreeOne ==
  ASSUME NEW lane, NEW memo, LaneOk(lane, TRUE), OneAnswer(lane)
  PROVE  FreesOne(lane, Lsu!Visited(lane, memo), PIPE_SLOTS)
<1> DEFINE n == PIPE_SLOTS
           room == Len(lane.resultq) < RESULT_DEPTH
<1>1. PICK run :
        /\ run[0] = [slots |-> lane.slots, out |-> <<>>,
                     mem |-> memo.mem, resp |-> memo.resp, undo |-> memo.undo]
        /\ Lsu!Visited(lane, memo) = run[n]
        /\ \A i \in 1 .. n : run[i] = Lsu!Visit(run[i - 1], i, room)
  BY VisitedRun
<1>2. n \in Nat
  BY SizesAssumption
<1>3. VisitInv(lane, run[0]) /\ FreesOne(lane, run[0], 0)
  <2>1. /\ DOMAIN run[0] = VisitFields /\ run[0].slots = lane.slots /\ run[0].out = <<>>
    BY <1>1 DEF VisitFields
  <2> QED
    BY <2>1 DEF VisitInv, FreesOne, LaneOk
<1>4. ASSUME NEW i \in 1 .. n, VisitInv(lane, run[i - 1]), FreesOne(lane, run[i - 1], i - 1)
      PROVE  VisitInv(lane, run[i]) /\ FreesOne(lane, run[i], i)
  <2>1. PICK a : a = run[i - 1] /\ VisitInv(lane, a) /\ FreesOne(lane, a, i - 1)
    BY <1>4
  <2>2. VisitInv(lane, Lsu!Visit(a, i, room))
    BY <2>1, VisitKeeps
  <2>3. FreesOne(lane, Lsu!Visit(a, i, room), i)
    BY <2>1, VisitFreesOne
  <2> QED
    BY <1>1, <2>1, <2>2, <2>3
<1> HIDE DEF n, room
<1> DEFINE Good == { i \in 0 .. n : VisitInv(lane, run[i]) /\ FreesOne(lane, run[i], i) }
<1>5. 0 \in Good /\ \A i \in 1 .. n : i - 1 \in Good => i \in Good
  BY <1>2, <1>3, <1>4
<1>6. Good \in SUBSET (0 .. n)
  OBVIOUS
<1> HIDE DEF Good
<1>7. Good = 0 .. n
  BY <1>2, <1>5, <1>6, PassedOn
<1>8. FreesOne(lane, run[n], n)
  BY <1>2, <1>7 DEF Good
<1> QED
  BY <1>1, <1>8 DEF n

\* The memory lane after a cycle in which the visits to its slots made it a.
LsuMove(lane, a, new, issued, popped, t, o, r) ==
  /\ Move(lane, new, TRUE, issued, popped, t, o, r)
  /\ a.out = (IF o # 0 THEN <<r>> ELSE <<>>)
  /\ o # 0 => ~ a.slots[o].valid
  /\ t # 0 => "phase" \in DOMAIN new.slots[t] /\ new.slots[t].phase = "addr"
  /\ t # 0 => new.slots[t].valid /\ ~ a.slots[t].valid
  /\ \A s \in 1 .. PIPE_SLOTS : s # t => new.slots[s] = a.slots[s]

\* A cycle of a memory lane.
LEMMA LsuTickMoves ==
  ASSUME NEW lane, NEW memo, NEW issued, NEW popped, LaneOk(lane, TRUE)
  PROVE  \E t, o, r : LsuMove(lane, Lsu!Visited(lane, memo), Lsu!Tick(lane, memo, issued, popped).lane,
                              issued, popped, t, o, r)
<1>1. PICK a : a = Lsu!Visited(lane, memo) /\ VisitInv(lane, a)
  BY VisitsKeep
<1>2. PICK free, in :
        /\ free = { s \in 1 .. PIPE_SLOTS : ~ a.slots[s].valid }
        /\ in = IF lane.issueq = <<>> \/ free = {} THEN {} ELSE {Lsu!Min(free)}
  OBVIOUS
<1>3. PICK new : new = Lsu!Tick(lane, memo, issued, popped).lane
  OBVIOUS
<1>4. /\ new.issueq = (IF in # {} THEN Tail(lane.issueq) ELSE lane.issueq) \o issued
      /\ new.resultq = (IF popped THEN Tail(lane.resultq) ELSE lane.resultq) \o a.out
      /\ new.slots = [s \in 1 .. PIPE_SLOTS |->
           IF s \in in
           THEN [valid |-> TRUE, phase |-> "addr", remain |-> ADDR_LATENCY - 1, req |-> Head(lane.issueq)]
           ELSE a.slots[s]]
  BY <1>1, <1>2, <1>3 DEF Lsu!Tick
<1>5. PICK t : /\ t \in 0 .. PIPE_SLOTS /\ (t # 0 <=> in # {})
               /\ t # 0 => in = {t} /\ t \in free /\ lane.issueq # <<>>
  <2>1. PIPE_SLOTS \in Nat
    BY SizesAssumption
  <2>2. CASE in = {}
    <3>1. 0 \in 0 .. PIPE_SLOTS
      BY <2>1
    <3> QED
      BY <2>2, <3>1
  <2>3. CASE in # {}
    <3>1. PICK m : m = Lsu!Min(free)
      OBVIOUS
    <3>2. lane.issueq # <<>> /\ free # {} /\ in = {m}
      BY <1>2, <2>3, <3>1
    <3>3. free \in SUBSET (1 .. PIPE_SLOTS)
      BY <1>2
    <3>4. m \in free
      BY <3>1, <3>2, <3>3, LeastSlot
    <3>5. m \in 0 .. PIPE_SLOTS /\ m # 0
      BY <2>1, <3>3, <3>4
    <3> QED
      BY <2>3, <3>2, <3>4, <3>5
  <2> QED
    BY <2>2, <2>3
<1>6. PICK o, r : /\ o \in 0 .. PIPE_SLOTS /\ a.out = (IF o # 0 THEN <<r>> ELSE <<>>)
                  /\ o # 0 => /\ lane.slots[o].valid /\ ~ a.slots[o].valid
                              /\ r.rob = lane.slots[o].req.rob /\ r.dst = lane.slots[o].req.dst
                              /\ r.seq = lane.slots[o].req.seq
                              /\ r.hasDest = (lane.slots[o].req.op = "LOAD" /\ lane.slots[o].req.dst # 0)
  <2>1. PIPE_SLOTS \in Nat
    BY SizesAssumption
  <2>2. CASE a.out = <<>>
    <3>1. 0 \in 0 .. PIPE_SLOTS
      BY <2>1
    <3> QED
      BY <2>2, <3>1
  <2>3. CASE \E o \in 1 .. PIPE_SLOTS : \E resp :
               /\ lane.slots[o].valid /\ ~ a.slots[o].valid
               /\ a.out = << Lsu!Result(lane.slots[o].req, resp) >>
    <3>1. PICK o, resp :
            /\ o \in 1 .. PIPE_SLOTS
            /\ lane.slots[o].valid /\ ~ a.slots[o].valid
            /\ a.out = << Lsu!Result(lane.slots[o].req, resp) >>
      BY <2>3
    <3>2. PICK q, r : q = lane.slots[o].req /\ r = Lsu!Result(q, resp)
      OBVIOUS
    <3>3. /\ r.rob = q.rob /\ r.dst = q.dst /\ r.seq = q.seq
          /\ r.hasDest = (q.op = "LOAD" /\ q.dst # 0)
      BY <3>2 DEF Lsu!Result
    <3>4. o \in 0 .. PIPE_SLOTS /\ o # 0
      BY <2>1, <3>1
    <3>5. a.out = (IF o # 0 THEN <<r>> ELSE <<>>)
      BY <3>1, <3>2, <3>4
    <3>6. /\ lane.slots[o].valid /\ ~ a.slots[o].valid
          /\ r.rob = lane.slots[o].req.rob /\ r.dst = lane.slots[o].req.dst
          /\ r.seq = lane.slots[o].req.seq
          /\ r.hasDest = (lane.slots[o].req.op = "LOAD" /\ lane.slots[o].req.dst # 0)
      BY <3>1, <3>2, <3>3
    <3> QED
      BY <3>4, <3>5, <3>6
  <2> QED
    BY <1>1, <2>2, <2>3 DEF VisitInv
<1>7. new.issueq = (IF t # 0 THEN Tail(lane.issueq) ELSE lane.issueq) \o issued
  BY <1>4, <1>5
<1>8. new.resultq = (IF popped THEN Tail(lane.resultq) ELSE lane.resultq) \o (IF o # 0 THEN <<r>> ELSE <<>>)
  BY <1>4, <1>6
<1>9. o # 0 => /\ lane.slots[o].valid
               /\ r.rob = lane.slots[o].req.rob /\ r.dst = lane.slots[o].req.dst
               /\ r.seq = lane.slots[o].req.seq
               /\ r.dst # 0 /\ (TRUE => lane.slots[o].req.op = "LOAD") => r.hasDest
  BY <1>6
<1>10. ASSUME NEW s \in 1 .. PIPE_SLOTS
       PROVE  /\ "valid" \in DOMAIN new.slots[s]
              /\ new.slots[s].valid =>
                   /\ "req" \in DOMAIN new.slots[s]
                   /\ s = t => new.slots[s].req = Head(lane.issueq)
                   /\ s # t => s # o /\ lane.slots[s].valid /\ new.slots[s].req = lane.slots[s].req
  <2>1. PICK e, x : e = a.slots[s] /\ x = new.slots[s]
    OBVIOUS
  <2>2. /\ "valid" \in DOMAIN e
        /\ e.valid => /\ lane.slots[s].valid /\ "req" \in DOMAIN e /\ e.req = lane.slots[s].req
    BY <1>1, <2>1 DEF VisitInv
  <2>3. CASE s \in in
    <3>1. x = [valid |-> TRUE, phase |-> "addr", remain |-> ADDR_LATENCY - 1, req |-> Head(lane.issueq)]
      BY <1>4, <2>1, <2>3
    <3>2. s = t
      BY <1>5, <2>3
    <3>3. x.req = Head(lane.issueq) /\ "req" \in DOMAIN x /\ "valid" \in DOMAIN x
      BY <3>1
    <3> QED
      BY <2>1, <3>2, <3>3
  <2>4. CASE s \notin in
    <3>1. x = e
      BY <1>4, <2>1, <2>4
    <3>2. s # t
      BY <1>5, <2>4
    <3>3. e.valid => s # o
      BY <1>6, <2>1
    <3> QED
      BY <2>1, <2>2, <3>1, <3>2, <3>3
  <2> QED
    BY <2>3, <2>4
<1>11. DOMAIN new.slots = 1 .. PIPE_SLOTS
  BY <1>4
<1>12. Move(lane, new, TRUE, issued, popped, t, o, r)
  BY <1>5, <1>6, <1>7, <1>8, <1>9, <1>10, <1>11 DEF Move
<1>13. t # 0 => /\ "phase" \in DOMAIN new.slots[t] /\ new.slots[t].phase = "addr"
               /\ new.slots[t].valid /\ ~ a.slots[t].valid
  <2>1. SUFFICES ASSUME t # 0
                 PROVE  /\ "phase" \in DOMAIN new.slots[t] /\ new.slots[t].phase = "addr"
                        /\ new.slots[t].valid /\ ~ a.slots[t].valid
    OBVIOUS
  <2>2. new.slots[t] = [valid |-> TRUE, phase |-> "addr", remain |-> ADDR_LATENCY - 1, req |-> Head(lane.issueq)]
    BY <1>4, <1>5, <2>1
  <2>3. ~ a.slots[t].valid
    BY <1>2, <1>5, <2>1
  <2> QED
    BY <2>2, <2>3
<1>14. \A s \in 1 .. PIPE_SLOTS : s # t => new.slots[s] = a.slots[s]
  BY <1>4, <1>5
<1>15. LsuMove(lane, a, new, issued, popped, t, o, r)
  BY <1>6, <1>12, <1>13, <1>14 DEF LsuMove
<1> QED
  BY <1>1, <1>3, <1>15

\* A cycle of a memory lane from which one result leaves loses nothing.
LEMMA LsuTickFills ==
  ASSUME NEW lane, NEW memo, NEW issued, NEW popped, LaneOk(lane, TRUE), OneAnswer(lane)
  PROVE  Retained(lane, Lsu!Tick(lane, memo, issued, popped).lane, TRUE, issued, popped)
<1>1. PICK a, new : a = Lsu!Visited(lane, memo) /\ new = Lsu!Tick(lane, memo, issued, popped).lane
  OBVIOUS
<1>2. PICK t, o, r : LsuMove(lane, a, new, issued, popped, t, o, r)
  BY <1>1, LsuTickMoves
<1>3. FreesOne(lane, a, PIPE_SLOTS)
  BY <1>1, VisitsFreeOne
<1>4. Move(lane, new, TRUE, issued, popped, t, o, r) /\ t \in 0 .. PIPE_SLOTS /\ o \in 0 .. PIPE_SLOTS
  BY <1>2 DEF LsuMove, Move
<1>5. \A s \in 0 .. PIPE_SLOTS : s # 0 => s \in 1 .. PIPE_SLOTS
  BY SizesAssumption
<1>6. o # 0 => o \in 1 .. PIPE_SLOTS /\ lane.slots[o].valid /\ ~ a.slots[o].valid
  BY <1>2, <1>4, <1>5 DEF LsuMove, Move
<1>7. ASSUME NEW s \in 1 .. PIPE_SLOTS, lane.slots[s].valid, ~ a.slots[s].valid
      PROVE  s = o
  <2>1. a.out # <<>> /\ \A u \in 1 .. PIPE_SLOTS : lane.slots[u].valid /\ ~ a.slots[u].valid => s = u
    BY <1>3, <1>7 DEF FreesOne
  <2>2. o # 0
    BY <1>2, <2>1 DEF LsuMove
  <2> QED
    BY <1>6, <2>1, <2>2
<1>8. t # 0 => t \in 1 .. PIPE_SLOTS /\ new.slots[t].valid /\ ~ a.slots[t].valid
  BY <1>2, <1>4, <1>5 DEF LsuMove
<1>9. \A s \in 1 .. PIPE_SLOTS : lane.slots[s].valid /\ s # o /\ s # t => new.slots[s].valid
  BY <1>2, <1>7 DEF LsuMove
<1>10. Fills(lane, new, t, o)
  BY <1>7, <1>8, <1>9 DEF Fills
<1> QED
  BY <1>1, <1>4, <1>10 DEF Retained

\* What the memory lanes become, whatever the memory answers them.
LEMMA ServedLanes ==
  ASSUME NEW issue, NEW popped, DOMAIN lsu = LsuLanes
  PROVE  /\ DOMAIN Served(issue, popped).lanes = LsuLanes
         /\ \A l \in LsuLanes : \E memo :
              Served(issue, popped).lanes[l]
                = Lsu!Tick(lsu[l], memo, issue[l], popped /\ Lsu!HasResult(lsu[l])).lane
<1> DEFINE n == LSU_LANES
           Ticked(l, x) == \E memo : x = Lsu!Tick(lsu[l], memo, issue[l], popped /\ Lsu!HasResult(lsu[l])).lane
<1>1. PICK run :
        /\ run[0] = [lanes |-> lsu, mem |-> memory.mem, resp |-> memory.resp, undo |-> memory.undo]
        /\ Served(issue, popped) = run[n]
        /\ \A i \in 1 .. n : run[i] = ServeLane(run[i - 1], i, issue, popped)
  BY ServedRun
<1>2. n \in Nat /\ ALU_LANES \in Nat
  BY SizesAssumption
<1>3. ASSUME NEW i \in 1 .. n, DOMAIN run[i - 1].lanes = LsuLanes
      PROVE  /\ DOMAIN run[i].lanes = LsuLanes /\ Ticked(ALU_LANES + i, run[i].lanes[ALU_LANES + i])
             /\ \A l \in LsuLanes : l # ALU_LANES + i => run[i].lanes[l] = run[i - 1].lanes[l]
  <2>1. PICK a, b, l : a = run[i - 1] /\ b = run[i] /\ l = ALU_LANES + i
    OBVIOUS
  <2>2. l \in LsuLanes /\ DOMAIN a.lanes = LsuLanes
    <3>1. l \in LsuLanes
      BY <1>2, <2>1 DEF LsuLanes
    <3> QED
      BY <1>3, <2>1, <3>1
  <2>3. b = ServeLane(a, i, issue, popped)
    BY <1>1, <2>1
  <2>4. PICK x, memo : /\ memo = [mem |-> a.mem, resp |-> a.resp[l], undo |-> a.undo]
                       /\ x = Lsu!Tick(lsu[l], memo, issue[l], popped /\ Lsu!HasResult(lsu[l])).lane
    OBVIOUS
  <2>5. b.lanes = [a.lanes EXCEPT ![l] = x]
    BY <2>1, <2>3, <2>4 DEF ServeLane
  <2>6. DOMAIN b.lanes = LsuLanes /\ b.lanes[l] = x /\ \A m \in LsuLanes : m # l => b.lanes[m] = a.lanes[m]
    BY <2>2, <2>5
  <2>7. Ticked(l, x)
    BY <2>4
  <2> QED
    BY <2>1, <2>6, <2>7
<1>4. DOMAIN run[0].lanes = LsuLanes
  BY <1>1
<1>5. \A l \in LsuLanes : l - ALU_LANES \in 1 .. n
  BY <1>2 DEF LsuLanes
<1> HIDE DEF n, Ticked
<1> DEFINE Good == { i \in 0 .. n :
                       /\ DOMAIN run[i].lanes = LsuLanes
                       /\ \A l \in LsuLanes : l <= ALU_LANES + i => Ticked(l, run[i].lanes[l]) }
<1>6. 0 \in Good
  <2>1. \A l \in LsuLanes : ~ (l <= ALU_LANES + 0)
    BY <1>2 DEF LsuLanes
  <2> QED
    BY <1>2, <1>4, <2>1
<1>7. ASSUME NEW i \in 1 .. n, i - 1 \in Good
      PROVE  i \in Good
  <2>1. /\ DOMAIN run[i - 1].lanes = LsuLanes
        /\ \A l \in LsuLanes : l <= ALU_LANES + (i - 1) => Ticked(l, run[i - 1].lanes[l])
    BY <1>7
  <2>2. /\ DOMAIN run[i].lanes = LsuLanes /\ Ticked(ALU_LANES + i, run[i].lanes[ALU_LANES + i])
        /\ \A l \in LsuLanes : l # ALU_LANES + i => run[i].lanes[l] = run[i - 1].lanes[l]
    BY <1>3, <2>1
  <2>3. \A l \in LsuLanes : l <= ALU_LANES + i /\ l # ALU_LANES + i => l <= ALU_LANES + (i - 1)
    BY <1>2 DEF LsuLanes
  <2>4. \A l \in LsuLanes : l <= ALU_LANES + i => Ticked(l, run[i].lanes[l])
    BY <2>1, <2>2, <2>3
  <2> QED
    BY <1>2, <2>2, <2>4
<1>8. Good \in SUBSET (0 .. n)
  OBVIOUS
<1> HIDE DEF Good
<1>9. Good = 0 .. n
  BY <1>2, <1>6, <1>7, <1>8, PassedOn
<1>10. /\ DOMAIN run[n].lanes = LsuLanes
       /\ \A l \in LsuLanes : l <= ALU_LANES + n => Ticked(l, run[n].lanes[l])
  BY <1>2, <1>9 DEF Good
<1>11. \A l \in LsuLanes : l <= ALU_LANES + n
  BY DEF LsuLanes, n
<1> QED
  BY <1>1, <1>10, <1>11 DEF Ticked

\* The lanes after a cycle.
LEMMA LanesMove ==
  ASSUME NEW issue, NEW popped \in BOOLEAN, LanesTick(issue, popped),
         DOMAIN alu = AluLanes, DOMAIN lsu = LsuLanes, LanesInv(AllLanes)
  PROVE  /\ DOMAIN alu' = AluLanes /\ DOMAIN lsu' = LsuLanes
         /\ \A l \in Lanes :
              Moved(AllLanes[l], AllLanes'[l], l \in LsuLanes, issue[l],
                    popped /\ AllLanes[l].resultq # <<>>)
         /\ \A l \in Lanes : (l \in LsuLanes => OneAnswer(AllLanes[l])) =>
              Retained(AllLanes[l], AllLanes'[l], l \in LsuLanes, issue[l],
                     popped /\ AllLanes[l].resultq # <<>>)
<1>1. /\ alu' = [k \in AluLanes |-> Alu!Tick(alu[k], issue[k], popped /\ Alu!HasResult(alu[k]))]
      /\ lsu' = Served(issue, popped).lanes
  BY DEF LanesTick
<1>2. /\ DOMAIN Served(issue, popped).lanes = LsuLanes
      /\ \A l \in LsuLanes : \E memo :
           Served(issue, popped).lanes[l]
             = Lsu!Tick(lsu[l], memo, issue[l], popped /\ Lsu!HasResult(lsu[l])).lane
  BY ServedLanes
<1>3. DOMAIN alu' = AluLanes /\ DOMAIN lsu' = LsuLanes
  BY <1>1, <1>2
<1>4. ASSUME NEW l \in Lanes
      PROVE  /\ Moved(AllLanes[l], AllLanes'[l], l \in LsuLanes, issue[l],
                      popped /\ AllLanes[l].resultq # <<>>)
             /\ (l \in LsuLanes => OneAnswer(AllLanes[l])) =>
                  Retained(AllLanes[l], AllLanes'[l], l \in LsuLanes, issue[l],
                         popped /\ AllLanes[l].resultq # <<>>)
  <2>1. PICK lane, new : lane = AllLanes[l] /\ new = AllLanes'[l]
    OBVIOUS
  <2>2. LaneOk(lane, l \in LsuLanes) /\ Distinct(lane)
    BY <2>1 DEF LanesInv, Apart, Distinct
  <2>3. CASE l \in AluLanes
    <3>1. l \notin LsuLanes
      BY <2>3, LaneNumbers
    <3>2. lane = alu[l] /\ new = alu'[l]
      BY <2>1, <2>3 DEF AllLanes
    <3>3. LaneOk(lane, FALSE)
      <4>1. (l \in LsuLanes) = FALSE
        BY <3>1
      <4> QED
        BY <2>2, <4>1
    <3>4. PICK pop : pop = (popped /\ lane.resultq # <<>>)
      OBVIOUS
    <3>5. /\ Moved(lane, Alu!Tick(lane, issue[l], pop), FALSE, issue[l], pop)
          /\ Retained(lane, Alu!Tick(lane, issue[l], pop), FALSE, issue[l], pop)
      BY <2>2, <3>3, AluTickMoves DEF Moved, Retained
    <3>6. new = Alu!Tick(lane, issue[l], pop)
      BY <1>1, <2>3, <3>2, <3>4 DEF Alu!HasResult
    <3>7. (l \in LsuLanes) = FALSE
      BY <3>1
    <3> QED
      BY <2>1, <3>4, <3>5, <3>6, <3>7
  <2>4. CASE l \in LsuLanes
    <3>1. l \notin AluLanes
      BY <2>4, LaneNumbers
    <3>2. lane = lsu[l] /\ new = lsu'[l]
      BY <2>1, <3>1 DEF AllLanes
    <3>3. (l \in LsuLanes) = TRUE
      BY <2>4
    <3>4. LaneOk(lane, TRUE)
      BY <2>2, <3>3
    <3>5. PICK pop : pop = (popped /\ lane.resultq # <<>>)
      OBVIOUS
    <3>6. PICK memo : new = Lsu!Tick(lane, memo, issue[l], pop).lane
      BY <1>1, <1>2, <2>4, <3>2, <3>5 DEF Lsu!HasResult
    <3>7. Moved(lane, Lsu!Tick(lane, memo, issue[l], pop).lane, TRUE, issue[l], pop)
      BY <3>4, LsuTickMoves DEF LsuMove, Moved
    <3>8. OneAnswer(lane) => Retained(lane, Lsu!Tick(lane, memo, issue[l], pop).lane, TRUE, issue[l], pop)
      BY <3>4, LsuTickFills
    <3> QED
      BY <2>1, <3>3, <3>5, <3>6, <3>7, <3>8
  <2> QED
    BY <2>3, <2>4 DEF Lanes
<1> QED
  BY <1>3, <1>4

-----------------------------------------------------------------------------
(* A cycle.                                                                *)

\* What is chosen for the lanes: no two lanes take the same entry, its operands
\* are ready, and the memory lanes take the loads and stores.
Suits(e, l) == e.ready1 /\ e.ready2 /\ (e.isLsu <=> l \in LsuLanes)

Fair(c, best, k) ==
  /\ best \in [Lanes -> 0 .. k]
  /\ \A l, m \in Lanes : best[l] # 0 /\ best[l] = best[m] => l = m
  /\ \A l \in Lanes : best[l] # 0 => Suits(c.iq[best[l]], l)

\* The first of some lanes is one of them.
LEMMA LeastLane ==
  ASSUME NEW S \in SUBSET Lanes, S # {}
  PROVE  Min(S) \in S
<1>1. IsFiniteSet(S) /\ S \in SUBSET Int
  <2>1. IsFiniteSet(1 .. (ALU_LANES + LSU_LANES))
    BY LaneNumbers, FS_Interval
  <2>2. IsFiniteSet(S)
    BY <2>1, LaneNumbers, FS_Subset
  <2>3. S \in SUBSET Int
    BY LaneNumbers
  <2> QED
    BY <2>2, <2>3
<1>2. \E i \in S : \A j \in S : i <= j
  BY <1>1, FirstMember
<1> QED
  BY <1>2 DEF Min

\* An entry is offered to the lanes: it goes to one of its kind, or to none.
LEMMA OfferIsFair ==
  ASSUME NEW c, NEW k \in Nat, k >= 1, NEW best, Fair(c, best, k - 1)
  PROVE  Fair(c, Offered(c, best, k), k)
<1>1. PICK e, takes :
        /\ e = c.iq[k]
        /\ takes = { l \in IF e.isLsu THEN LsuLanes ELSE AluLanes :
                       Can(l) /\ (best[l] = 0 \/ e.seq < c.iq[best[l]].seq) }
  OBVIOUS
<1>2. PICK new : new = Offered(c, best, k)
  OBVIOUS
<1>3. new = IF ~ e.valid \/ ~ e.ready1 \/ ~ e.ready2 \/ takes = {} THEN best
            ELSE [best EXCEPT ![Min(takes)] = k]
  BY <1>1, <1>2 DEF Offered
<1>4. /\ best \in [Lanes -> 0 .. k - 1]
      /\ \A l, m \in Lanes : best[l] # 0 /\ best[l] = best[m] => l = m
      /\ \A l \in Lanes : best[l] # 0 => Suits(c.iq[best[l]], l)
      /\ LsuLanes \subseteq Lanes
  BY DEF Fair, Lanes
<1>5. CASE new = best
  BY <1>2, <1>4, <1>5 DEF Fair
<1>6. CASE e.ready1 /\ e.ready2 /\ takes # {} /\ new = [best EXCEPT ![Min(takes)] = k]
  <2>1. PICK x : x = Min(takes)
    OBVIOUS
  <2>2. takes \in SUBSET Lanes
    BY <1>1 DEF Lanes
  <2>3. x \in takes /\ x \in Lanes
    BY <1>6, <2>1, <2>2, LeastLane
  <2>4. Suits(c.iq[k], x)
    <3>1. x \in IF e.isLsu THEN LsuLanes ELSE AluLanes
      BY <1>1, <2>3
    <3>2. e.isLsu <=> x \in LsuLanes
      BY <2>3, <3>1, LaneNumbers
    <3> QED
      BY <1>1, <1>6, <3>2 DEF Suits
  <2>5. /\ new[x] = k /\ \A l \in Lanes : l # x => new[l] = best[l] /\ new[l] # k
        /\ new \in [Lanes -> 0 .. k]
    BY <1>4, <1>6, <2>1, <2>3
  <2>6. \A l, m \in Lanes : new[l] # 0 /\ new[l] = new[m] => l = m
    BY <1>4, <2>5
  <2>7. \A l \in Lanes : new[l] # 0 => Suits(c.iq[new[l]], l)
    BY <1>4, <2>4, <2>5
  <2> QED
    BY <1>2, <2>5, <2>6, <2>7 DEF Fair
<1> QED
  BY <1>3, <1>5, <1>6

\* And so the whole choice is fair.
LEMMA ChosenAreFair ==
  ASSUME NEW c
  PROVE  Fair(c, Chosen(c), IQ_SIZE)
<1> DEFINE n == IQ_SIZE
<1>1. PICK run : /\ run[0] = [l \in AluLanes \cup LsuLanes |-> 0] /\ Chosen(c) = run[n]
                 /\ \A i \in 1 .. n : run[i] = Offered(c, run[i - 1], i)
  BY ChosenRun
<1>2. n \in Nat
  BY SizesAssumption
<1> HIDE DEF n
<1> DEFINE Good == { i \in 0 .. n : Fair(c, run[i], i) }
<1>3. 0 \in Good
  <2>1. run[0] \in [Lanes -> 0 .. 0] /\ \A l \in Lanes : run[0][l] = 0
    BY <1>1 DEF Lanes
  <2>2. LsuLanes \subseteq Lanes
    BY DEF Lanes
  <2> QED
    BY <1>2, <2>1, <2>2 DEF Fair
<1>4. ASSUME NEW i \in 1 .. n, i - 1 \in Good
      PROVE  i \in Good
  <2>1. PICK best : best = run[i - 1] /\ Fair(c, best, i - 1)
    BY <1>4
  <2>2. i \in Nat /\ i >= 1
    BY <1>2
  <2>3. Fair(c, Offered(c, best, i), i)
    BY <2>1, <2>2, OfferIsFair
  <2> QED
    BY <1>1, <1>2, <2>1, <2>3
<1>5. Good \in SUBSET (0 .. n)
  OBVIOUS
<1> HIDE DEF Good
<1>6. Good = 0 .. n
  BY <1>2, <1>3, <1>4, <1>5, PassedOn
<1>7. Fair(c, run[n], n)
  BY <1>2, <1>6 DEF Good
<1> QED
  BY <1>1, <1>7 DEF n

\* The requests made of the chosen entries.
Requests(c, chosen) ==
  [l \in Lanes |-> IF chosen[l] = 0 THEN <<>> ELSE << FuRequest(c.iq[chosen[l]]) >>]

\* What is issued is in no lane yet, goes to one lane only, and has a
\* destination in a memory lane only if it is a load.
LEMMA IssueFits ==
  ASSUME NEW c, NEW lanes, NEW n, n = ALU_LANES + LSU_LANES, LanesInv(lanes),
         FlowInv(c, Held(lanes, n)),
         NEW chosen, Fair(c, chosen, IQ_SIZE), chosen \in [Lanes -> {0} \cup Queued(c)],
         NEW issue, issue = Requests(c, chosen)
  PROVE  /\ \A l \in Lanes :
              Issue(lanes[l], l \in LsuLanes, issue[l], TRUE /\ lanes[l].resultq # <<>>)
         /\ IssuedApart(lanes, issue, n)
         /\ IssuedTickets(issue) \subseteq { Ticket(c.iq[i]) : i \in { chosen[l] : l \in Lanes } \ {0} }
<1>1. ASSUME NEW l \in Lanes
      PROVE  \/ chosen[l] = 0 /\ issue[l] = <<>>
             \/ \E x : /\ chosen[l] \in Queued(c) /\ chosen[l] # 0 /\ issue[l] = <<x>> /\ issue[l] # <<>>
                       /\ issue[l][1] = x
                       /\ x.rob = c.iq[chosen[l]].rob /\ x.dst = c.iq[chosen[l]].dst
                       /\ x.seq = c.iq[chosen[l]].seq /\ x.op = c.iq[chosen[l]].op
                       /\ Ticket(x) = Ticket(c.iq[chosen[l]])
  <2>1. CASE chosen[l] = 0
    BY <2>1 DEF Requests
  <2>2. CASE chosen[l] # 0
    <3>1. PICK e, x : e = c.iq[chosen[l]] /\ x = FuRequest(e)
      OBVIOUS
    <3>2. x.rob = e.rob /\ x.dst = e.dst /\ x.seq = e.seq /\ x.op = e.op
      BY <3>1 DEF FuRequest
    <3>3. Ticket(x) = Ticket(e)
      BY <3>2 DEF Ticket
    <3>4. issue[l] = <<x>>
      BY <2>2, <3>1 DEF Requests
    <3>5. issue[l] # <<>> /\ issue[l][1] = x
      BY <3>4
    <3> QED
      BY <2>2, <3>1, <3>2, <3>3, <3>4, <3>5
  <2> QED
    BY <2>1, <2>2
<1>2. /\ \A i \in Queued(c) : /\ c.iq[i].rob \in Slots /\ c.iq[i].dst \in Tags /\ c.iq[i].seq \in Nat
                              /\ c.iq[i].isLsu /\ c.iq[i].dst # 0 => c.iq[i].op = "LOAD"
      /\ \A i, j \in Queued(c) : c.iq[i].seq = c.iq[j].seq => i = j
      /\ \A t \in Held(lanes, n), i \in Queued(c) : t.seq # c.iq[i].seq
  BY DEF FlowInv, FilingInv, Filed, EntryShape, CoreInv, QueueInv
<1>3. \A l \in LsuLanes : chosen[l] # 0 => c.iq[chosen[l]].isLsu
  BY DEF Fair, Suits, Lanes
<1>4. \A x : Ticket(x).seq = x.seq
  BY DEF Ticket
<1>5. ASSUME NEW l \in Lanes
      PROVE  Issue(lanes[l], l \in LsuLanes, issue[l], TRUE /\ lanes[l].resultq # <<>>)
  <2>1. CASE issue[l] = <<>>
    BY <2>1 DEF Issue
  <2>2. CASE issue[l] # <<>>
    <3>1. PICK x, i : /\ i \in Queued(c) /\ i = chosen[l] /\ i # 0 /\ issue[l] = <<x>>
                      /\ x.rob = c.iq[i].rob /\ x.dst = c.iq[i].dst
                      /\ x.seq = c.iq[i].seq /\ x.op = c.iq[i].op
      BY <1>1, <2>2
    <3>2. ItemOk(l \in LsuLanes, "in", x)
      BY <1>2, <1>3, <3>1 DEF ItemOk
    <3>3. ASSUME NEW k \in Kinds, NEW j \in Nat,
                 Stays(lanes[l], TRUE /\ lanes[l].resultq # <<>>, k, j)
          PROVE  Item(lanes[l], k, j).seq # x.seq
      <4>1. Ticket(Item(lanes[l], k, j)) \in Held(lanes, n)
        BY <3>3, StaysHeld
      <4>2. PICK y, u : /\ y = Item(lanes[l], k, j) /\ u = Ticket(y)
                        /\ u \in Held(lanes, n) /\ u.seq = y.seq
        BY <1>4, <4>1
      <4>3. u.seq # c.iq[i].seq
        BY <1>2, <3>1, <4>2
      <4> QED
        BY <3>1, <4>2, <4>3
    <3> QED
      BY <3>1, <3>2, <3>3 DEF Issue
  <2> QED
    BY <2>1, <2>2
<1>6. ASSUME NEW l \in Lanes, issue[l] # <<>>
      PROVE  /\ \A t \in Held(lanes, n) : t.seq # issue[l][1].seq
             /\ \A m \in Lanes : issue[m] # <<>> /\ issue[m][1].seq = issue[l][1].seq => l = m
  <2>1. chosen[l] \in Queued(c) /\ chosen[l] # 0 /\ issue[l][1].seq = c.iq[chosen[l]].seq
    BY <1>1, <1>6
  <2>2. ASSUME NEW m \in Lanes, issue[m] # <<>>, issue[m][1].seq = issue[l][1].seq
        PROVE  l = m
    <3>1. chosen[m] \in Queued(c) /\ issue[m][1].seq = c.iq[chosen[m]].seq
      BY <1>1, <2>2
    <3>2. chosen[l] = chosen[m]
      BY <1>2, <2>1, <2>2, <3>1
    <3> QED
      BY <2>1, <3>2 DEF Fair
  <2> QED
    BY <1>2, <2>1, <2>2
<1>7. ASSUME NEW l \in Lanes, issue[l] # <<>>
      PROVE  Ticket(issue[l][1]) \in { Ticket(c.iq[i]) : i \in { chosen[m] : m \in Lanes } \ {0} }
  <2>1. chosen[l] # 0 /\ Ticket(issue[l][1]) = Ticket(c.iq[chosen[l]])
    BY <1>1, <1>7
  <2> QED
    BY <2>1
<1> QED
  BY <1>5, <1>6, <1>7 DEF IssuedApart, IssuedTickets

\* The lanes are idle at the start.
LEMMA IdleLanes ==
  ASSUME Init, NEW l \in Lanes
  PROVE  /\ AllLanes[l].issueq = <<>> /\ AllLanes[l].resultq = <<>>
         /\ AllLanes[l].slots = [s \in 1 .. PIPE_SLOTS |-> [valid |-> FALSE]]
         /\ \A k, i : ~ Has(AllLanes[l], k, i)
         /\ \A s \in 1 .. PIPE_SLOTS : ~ AllLanes[l].slots[s].valid
<1>1. AllLanes[l] = Alu!Idle \/ AllLanes[l] = Lsu!Idle
  <2>1. CASE l \in AluLanes
    BY <2>1 DEF AllLanes, Init
  <2>2. CASE l \notin AluLanes
    BY <2>2, LaneNumbers DEF AllLanes, Init
  <2> QED
    BY <2>1, <2>2
<1>2. Alu!Free = [valid |-> FALSE] /\ Lsu!Free = [valid |-> FALSE]
  BY DEF Alu!Free, Lsu!Free
<1>3. PICK slots : slots = [s \in 1 .. PIPE_SLOTS |-> [valid |-> FALSE]]
  OBVIOUS
<1>4. /\ Alu!Idle = [issueq |-> <<>>, resultq |-> <<>>, slots |-> slots]
      /\ Lsu!Idle = [issueq |-> <<>>, resultq |-> <<>>, slots |-> slots]
  BY <1>2, <1>3 DEF Alu!Idle, Lsu!Idle
<1>5. PICK lane : lane = AllLanes[l] /\ lane = [issueq |-> <<>>, resultq |-> <<>>, slots |-> slots]
  BY <1>1, <1>4
<1>6. lane.issueq = <<>> /\ lane.resultq = <<>> /\ lane.slots = slots
  BY <1>5
<1>7. \A s \in 1 .. PIPE_SLOTS : ~ lane.slots[s].valid
  BY <1>3, <1>6
<1>8. 1 .. Len(lane.issueq) = {} /\ 1 .. Len(lane.resultq) = {}
  BY <1>6
<1>9. \A k, i : ~ Has(lane, k, i)
  BY <1>6, <1>7, <1>8 DEF Has
<1> QED
  BY <1>3, <1>5, <1>6, <1>7, <1>9

\* The lanes are empty after a reset, and every register can be read.
LEMMA OrderInvInit == Init => OrderInv
<1> SUFFICES ASSUME Init
             PROVE  OrderInv
  OBVIOUS
<1>1. BackendInv
  BY BackendInvInit
<1>2. DOMAIN alu = AluLanes /\ DOMAIN lsu = LsuLanes
  BY DEF Init
<1>3. ASSUME NEW l \in Lanes, NEW k, NEW i
      PROVE  ~ Has(AllLanes[l], k, i)
  BY IdleLanes
<1>4. LanesInv(AllLanes)
  <2>1. ASSUME NEW l \in Lanes
        PROVE  LaneOk(AllLanes[l], l \in LsuLanes)
    <3>1. PICK lane : lane = AllLanes[l] /\ lane.issueq = <<>> /\ lane.resultq = <<>>
                      /\ lane.slots = [s \in 1 .. PIPE_SLOTS |-> [valid |-> FALSE]]
      BY IdleLanes
    <3>2. IsASeq(lane.issueq) /\ IsASeq(lane.resultq)
      <4>1. <<>> \in Seq({})
        OBVIOUS
      <4> QED
        BY <3>1, <4>1 DEF IsASeq
    <3>3. /\ DOMAIN lane.slots = 1 .. PIPE_SLOTS
          /\ \A s \in 1 .. PIPE_SLOTS : "valid" \in DOMAIN lane.slots[s] /\ ~ lane.slots[s].valid
      BY <3>1
    <3> QED
      BY <1>3, <3>1, <3>2, <3>3 DEF LaneOk
  <2>2. Apart(AllLanes)
    BY <1>3 DEF Apart
  <2> QED
    BY <2>1, <2>2 DEF LanesInv
<1>5. Held(AllLanes, 0) = {}
  BY <1>3 DEF Held
<1>6. FlowInv(core, {})
  <2>1. PICK c : c = core /\ CoreInv(c)
    BY <1>1 DEF BackendInv
  <2>2. /\ c.map = [r \in 0 .. ARCH_REGS - 1 |-> r] /\ c.ready = [t \in Tags |-> t < ARCH_REGS]
        /\ c.rob = [i \in Slots |-> Empty] /\ c.iq = [i \in 1 .. IQ_SIZE |-> Empty]
    BY <2>1 DEF Init, InitCore, Slots
  <2>3. Queued(c) = {} /\ \A i \in Slots : ~ c.rob[i].valid
    BY <2>2 DEF Queued, Empty
  <2>4. ASSUME NEW r \in Regs
        PROVE  c.ready[c.map[r]]
    <3>1. r \in 0 .. ARCH_REGS - 1 /\ r < ARCH_REGS /\ r \in Tags
      BY SizesAssumption DEF Regs, Tags
    <3> QED
      BY <2>2, <3>1
  <2>5. EntryShape(c) /\ FilingInv(c, {}) /\ OperandsInv(c)
    BY <2>2, <2>3 DEF EntryShape, FilingInv, OperandsInv
  <2>6. RegistersInv(c)
    BY <2>4 DEF RegistersInv
  <2> QED
    BY <2>1, <2>5, <2>6 DEF FlowInv
<1> QED
  BY <1>1, <1>2, <1>4, <1>5, <1>6 DEF OrderInv

\* What the ring gets does not disturb what is in flight.
LEMMA FlowDrained ==
  ASSUME NEW c, NEW T, FlowInv(c, T), NEW ring \in Seq(Instr), NEW d, d = [c EXCEPT !.ingress = ring]
  PROVE  /\ FlowInv(d, T) /\ DOMAIN d = DOMAIN c /\ d.ingress = ring
         /\ \A x \in DOMAIN c : x # "ingress" => d[x] = c[x]
<1>1. DOMAIN c = CoreFields /\ CoreInv(c)
  BY DEF FlowInv, CoreInv, Shape
<1>2. DOMAIN d = DOMAIN c /\ d.ingress = ring /\ \A x \in DOMAIN c : x # "ingress" => d[x] = c[x]
  BY <1>1 DEF CoreFields
<1>3. /\ DOMAIN d = CoreFields /\ d.ingress = ring /\ d.map = c.map /\ d.free = c.free
      /\ d.rob = c.rob /\ d.head = c.head /\ d.tail = c.tail /\ d.count = c.count
      /\ d.iq = c.iq /\ d.iqCount = c.iqCount /\ d.seq = c.seq /\ d.committed = c.committed
      /\ d.ready = c.ready
  BY <1>1, <1>2 DEF CoreFields
<1>4. CoreInv(d)
  <2>1. Shape(d)
    BY <1>1, <1>3 DEF CoreInv, Shape
  <2>2. RingInv(d) /\ TagsInv(d)
    BY <1>1, <1>3, SameRing DEF CoreInv
  <2>3. QueueInv(d)
    BY <1>1, <1>3 DEF CoreInv, QueueInv, Queued
  <2> QED
    BY <2>1, <2>2, <2>3 DEF CoreInv
<1>5. Queued(d) = Queued(c)
  BY <1>3 DEF Queued
<1>6. EntryShape(d)
  BY <1>3, <1>5 DEF FlowInv, EntryShape
<1>7. FilingInv(d, T)
  <2>1. \A x : Filed(c, x) => Filed(d, x)
    BY <1>3 DEF Filed
  <2> QED
    BY <1>3, <1>5, <2>1 DEF FlowInv, FilingInv
<1>8. OperandsInv(d) /\ RegistersInv(d)
  BY <1>3, <1>5 DEF FlowInv, OperandsInv, RegistersInv, Awaited
<1> QED
  BY <1>2, <1>4, <1>6, <1>7, <1>8 DEF FlowInv

\* A cycle keeps them.
LEMMA OrderInvCycle ==
  ASSUME NEW m, OrderInv, Cycle(m), BackendInv'
  PROVE  OrderInv'
<1>1. PICK n, lanes, T : n = ALU_LANES + LSU_LANES /\ lanes = AllLanes /\ T = Held(lanes, n)
  OBVIOUS
<1>2. PICK ring, d : /\ ring = Drained(push, core.ingress).ring
                     /\ d = [core EXCEPT !.ingress = ring]
  OBVIOUS
<1>3. PICK next, chosen : /\ next = Dispatched(Committed(WrittenBack(d)))
                          /\ chosen = Chosen(next)
  OBVIOUS
<1>4. PICK issue : issue = Requests(next, chosen)
  OBVIOUS
<1>5. /\ LanesInv(lanes) /\ FlowInv(core, Held(lanes, 0)) /\ CoreInv(core)
      /\ push \in [Ports -> Seq(Instr)] /\ core.ingress \in Seq(Instr)
      /\ DOMAIN alu = AluLanes /\ DOMAIN lsu = LsuLanes
  BY <1>1 DEF OrderInv, BackendInv, CoreInv, Shape
<1>6. ring \in Seq(Instr)
  BY <1>2, <1>5, DrainKeeps
<1>7. FlowInv(d, Held(lanes, 0))
  <2>1. PICK c, U : c = core /\ U = Held(lanes, 0)
    OBVIOUS
  <2>2. FlowInv(c, U) /\ d = [c EXCEPT !.ingress = ring]
    BY <1>2, <1>5, <2>1
  <2>3. FlowInv(d, U)
    BY <1>6, <2>2, FlowDrained
  <2> QED
    BY <2>1, <2>3
<1>8. FlowInv(next, T)
  <2>1. PICK w, k : w = WrittenBack(d) /\ k = Committed(w)
    OBVIOUS
  <2>2. FlowInv(w, T)
    BY <1>1, <1>5, <1>7, <2>1, FlowWritebacks
  <2>3. FlowInv(k, T)
    BY <2>1, <2>2, FlowCommits
  <2> QED
    BY <1>3, <2>1, <2>3, FlowDispatches
<1>9. Fair(next, chosen, IQ_SIZE) /\ chosen \in [Lanes -> {0} \cup Queued(next)]
  BY <1>3, ChosenAreFair, ChosenAreQueued
<1>10. core' = Issued(next, chosen)
  BY <1>2, <1>3 DEF Cycle
<1>11. LanesTick(issue, TRUE)
  <2>1. DOMAIN chosen = Lanes
    BY <1>9
  <2>2. LanesTick([l \in DOMAIN chosen |->
                     IF chosen[l] = 0 THEN <<>> ELSE << FuRequest(next.iq[chosen[l]]) >>], TRUE)
    BY <1>2, <1>3 DEF Cycle
  <2> QED
    BY <1>4, <2>1, <2>2 DEF Requests
<1>12. /\ \A l \in Lanes :
            Issue(lanes[l], l \in LsuLanes, issue[l], TRUE /\ lanes[l].resultq # <<>>)
       /\ IssuedApart(lanes, issue, n)
       /\ IssuedTickets(issue) \subseteq { Ticket(next.iq[i]) : i \in { chosen[l] : l \in Lanes } \ {0} }
  <2>1. FlowInv(next, Held(lanes, n)) /\ n = ALU_LANES + LSU_LANES
    BY <1>1, <1>8
  <2>2. LanesInv(lanes) /\ issue = Requests(next, chosen)
    BY <1>4, <1>5
  <2> QED
    BY <1>9, <2>1, <2>2, IssueFits
<1>13. PICK news : news = AllLanes'
  OBVIOUS
<1>14. /\ DOMAIN alu' = AluLanes /\ DOMAIN lsu' = LsuLanes
       /\ \A l \in Lanes :
            Moved(lanes[l], news[l], l \in LsuLanes, issue[l], TRUE /\ lanes[l].resultq # <<>>)
  BY <1>1, <1>5, <1>11, <1>13, LanesMove
<1>15. AllMove(lanes, news, issue, TRUE)
  BY <1>12, <1>14 DEF AllMove
<1>16. /\ LanesInv(news)
       /\ Held(news, 0) \subseteq T \cup IssuedTickets(issue)
  <2>1. n = (IF TRUE THEN ALU_LANES + LSU_LANES ELSE 0) /\ TRUE \in BOOLEAN
    BY <1>1
  <2>2. LanesInv(lanes) /\ IssuedApart(lanes, issue, n)
    BY <1>5, <1>12
  <2>3. /\ LanesInv(news)
        /\ Held(news, 0) \subseteq Held(lanes, n) \cup IssuedTickets(issue)
    BY <1>15, <2>1, <2>2, LanesKeep
  <2> QED
    BY <1>1, <2>3
<1>17. FlowInv(Issued(next, chosen),
               T \cup { Ticket(next.iq[i]) : i \in { chosen[l] : l \in Lanes } \ {0} })
  BY <1>8, <1>9, FlowIssue
<1>18. FlowInv(core', Held(news, 0))
  <2>1. Held(news, 0) \subseteq
          T \cup { Ticket(next.iq[i]) : i \in { chosen[l] : l \in Lanes } \ {0} }
    BY <1>12, <1>16
  <2> QED
    BY <1>10, <1>17, <2>1, FlowFewer
<1> QED
  BY <1>13, <1>14, <1>16, <1>18 DEF OrderInv

\* Every cycle keeps them, those after the HALT too.
LEMMA OrderInvNext == OrderInv /\ [Next]_vars => OrderInv'
<1> SUFFICES ASSUME OrderInv, [Next]_vars
             PROVE  OrderInv'
  OBVIOUS
<1>1. BackendInv'
  BY BackendInvNext DEF OrderInv
<1>2. ASSUME NEW m, Cycle(m)
      PROVE  OrderInv'
  BY <1>1, <1>2, OrderInvCycle
<1>3. CASE Offering
  <2>1. \E m : Cycle(m)
    BY <1>3 DEF Offering
  <2> QED
    BY <1>2, <2>1
<1>4. CASE HaltedCycle
  <2>1. PICK lanes, news, issue : /\ lanes = AllLanes /\ news = AllLanes'
                                  /\ issue = [l \in AluLanes \cup LsuLanes |-> <<>>]
    OBVIOUS
  <2>2. LanesTick(issue, FALSE) /\ core' = core
    BY <1>4, <2>1 DEF HaltedCycle
  <2>3. /\ LanesInv(lanes) /\ FlowInv(core, Held(lanes, 0))
        /\ DOMAIN alu = AluLanes /\ DOMAIN lsu = LsuLanes
    BY <2>1 DEF OrderInv
  <2>4. /\ DOMAIN alu' = AluLanes /\ DOMAIN lsu' = LsuLanes
        /\ \A l \in Lanes :
             Moved(lanes[l], news[l], l \in LsuLanes, issue[l], FALSE /\ lanes[l].resultq # <<>>)
    BY <2>1, <2>2, <2>3, LanesMove
  <2>5. \A l \in Lanes : issue[l] = <<>>
    BY <2>1 DEF Lanes
  <2>6. AllMove(lanes, news, issue, FALSE)
    BY <2>4, <2>5 DEF AllMove, Issue
  <2>7. IssuedApart(lanes, issue, 0)
    BY <2>5 DEF IssuedApart
  <2>8. /\ LanesInv(news)
        /\ Held(news, 0) \subseteq Held(lanes, 0) \cup IssuedTickets(issue)
    <3>1. 0 = (IF FALSE THEN ALU_LANES + LSU_LANES ELSE 0) /\ FALSE \in BOOLEAN
      OBVIOUS
    <3> QED
      BY <2>3, <2>6, <2>7, <3>1, LanesKeep
  <2>9. Held(news, 0) \subseteq Held(lanes, 0)
    BY <2>5, <2>8 DEF IssuedTickets
  <2>10. FlowInv(core', Held(news, 0))
    BY <2>2, <2>3, <2>9, FlowFewer
  <2> QED
    BY <1>1, <2>1, <2>4, <2>8, <2>10 DEF OrderInv
<1>5. CASE UNCHANGED vars
  <2>1. AllLanes' = AllLanes /\ core' = core /\ alu' = alu /\ lsu' = lsu
    BY <1>5 DEF vars, AllLanes
  <2> QED
    BY <1>1, <2>1 DEF OrderInv
<1> QED
  BY <1>3, <1>4, <1>5 DEF Next

\* In every state of the backend the instructions that are not ready are
\* filed, and what waits, waits for an older one of them.
THEOREM OrderIsSound == Spec => []OrderInv
<1>1. Init => OrderInv
  BY OrderInvInit
<1>2. OrderInv /\ [Next]_vars => OrderInv'
  BY OrderInvNext
<1> QED
  BY <1>1, <1>2, PTL DEF Spec

\* A valid slot of the reorder buffer is one of the ring's.
LEMMA SlotIsInFlight ==
  ASSUME BackendInv, NEW w \in Slots, core.rob[w].valid
  PROVE  core.rob[w] \in Range(InFlight)
<1>1. RingInv(core)
  BY DEF BackendInv, CoreInv
<1>2. PICK R : R = ROB_SIZE /\ R \in Nat \ {0}
  BY SizesAssumption
<1>3. PICK h, n, k : h = core.head /\ n = core.count /\ k = Dist(h, w)
  OBVIOUS
<1>4. h \in Slots /\ n \in 0 .. R /\ k < n
  BY <1>1, <1>2, <1>3 DEF RingInv
<1>5. k \in Nat /\ k \in 0 .. R /\ Ahead(h, k) = w
  BY <1>2, <1>3, <1>4 DEF Dist, Ahead, Slots
<1>6. (h + k) % ROB_SIZE = w
  BY <1>2, <1>4, <1>5, Wrap
<1>7. k + 1 \in 1 .. n /\ h + (k + 1) - 1 = h + k
  BY <1>2, <1>4, <1>5 DEF Slots
<1>8. DOMAIN InFlight = 1 .. n /\ InFlight[k + 1] = core.rob[w]
  BY <1>3, <1>6, <1>7 DEF InFlight
<1> QED
  BY <1>7, <1>8 DEF Range

\* What the operands await is in the ring.
LEMMA InvImpliesWaitsForItsWriter == OrderInv => WaitsForItsWriter
<1> SUFFICES ASSUME OrderInv
             PROVE  WaitsForItsWriter
  OBVIOUS
<1>1. OperandsInv(core) /\ BackendInv
  BY DEF OrderInv, FlowInv
<1>2. ASSUME NEW t, NEW s, Awaited(core, t, s)
      PROVE  \E w \in Range(InFlight) : ~ w.ready /\ w.dst = t /\ w.seq < s
  <2>1. PICK w \in Slots : /\ core.rob[w].valid /\ ~ core.rob[w].ready
                           /\ core.rob[w].dst = t /\ core.rob[w].seq < s
    BY <1>2 DEF Awaited
  <2>2. core.rob[w] \in Range(InFlight)
    BY <1>1, <2>1, SlotIsInFlight
  <2> QED
    BY <2>1, <2>2
<1>3. ASSUME NEW e \in Waiting
      PROVE  /\ ~ e.ready1 => \E w \in Range(InFlight) : ~ w.ready /\ w.dst = e.tag1 /\ w.seq < e.seq
             /\ ~ e.ready2 => \E w \in Range(InFlight) : ~ w.ready /\ w.dst = e.tag2 /\ w.seq < e.seq
  <2>1. PICK i \in Queued(core) : e = core.iq[i]
    BY DEF Waiting, Queued
  <2>2. /\ ~ e.ready1 => Awaited(core, e.tag1, e.seq)
        /\ ~ e.ready2 => Awaited(core, e.tag2, e.seq)
    BY <1>1, <2>1 DEF OperandsInv
  <2> QED
    BY <1>2, <2>2
<1> QED
  BY <1>3 DEF WaitsForItsWriter

\* An operand that waits, waits for an older instruction that has still to
\* write its tag: it never waits for a tag that was freed and given out again
\* (BackendCore.hpp:302-309, 428-433).
THEOREM OperandsWaitForTheirWriters == Spec => []WaitsForItsWriter
<1>1. OrderInv => WaitsForItsWriter
  BY InvImpliesWaitsForItsWriter
<1> QED
  BY <1>1, OrderIsSound, PTL

\* A result that waits to be written back is held by a lane.
LEMMA ResultsAreHeld ==
  ASSUME OrderInv, NEW r \in Results
  PROVE  \E l \in Lanes : \E i \in Nat :
           Has(AllLanes[l], "out", i) /\ r = Item(AllLanes[l], "out", i)
<1>1. PICK l, q : l \in Lanes /\ q = AllLanes[l].resultq /\ r \in Range(q)
  <2>1. CASE \E a \in AluLanes : r \in Range(alu[a].resultq)
    BY <2>1 DEF Lanes, AllLanes
  <2>2. CASE \E a \in LsuLanes : r \in Range(lsu[a].resultq)
    <3>1. PICK a \in LsuLanes : r \in Range(lsu[a].resultq)
      BY <2>2
    <3>2. a \in Lanes /\ a \notin AluLanes
      BY LaneNumbers DEF Lanes
    <3>3. AllLanes[a] = lsu[a]
      BY <3>2 DEF AllLanes
    <3> QED
      BY <3>1, <3>2, <3>3
  <2> QED
    BY <2>1, <2>2 DEF Results
<1>2. LaneOk(AllLanes[l], l \in LsuLanes)
  BY <1>1 DEF OrderInv, LanesInv
<1>3. PICK S : q \in Seq(S)
  BY <1>1, <1>2 DEF LaneOk, IsASeq
<1>4. PICK i : i \in 1 .. Len(q) /\ r = q[i]
  BY <1>1, <1>3 DEF Range
<1>5. Has(AllLanes[l], "out", i) /\ r = Item(AllLanes[l], "out", i)
  BY <1>1, <1>4 DEF Has, Item
<1> QED
  BY <1>1, <1>3, <1>4, <1>5

\* And so are the requests that the lanes work on.
LEMMA WorkingIsHeld ==
  ASSUME OrderInv, NEW r \in Working
  PROVE  \E l \in Lanes : \E k \in {"in", "slot"} : \E i \in Nat :
           Has(AllLanes[l], k, i) /\ r = Item(AllLanes[l], k, i)
<1>1. PICK l, lane :
        /\ l \in Lanes /\ lane = AllLanes[l]
        /\ r \in { lane.issueq[i] : i \in DOMAIN lane.issueq }
                   \cup { lane.slots[s].req : s \in { t \in DOMAIN lane.slots : lane.slots[t].valid } }
  <2>1. CASE \E a \in AluLanes : r \in Alu!Holds(alu[a])
    BY <2>1 DEF Lanes, AllLanes, Alu!Holds
  <2>2. CASE \E a \in LsuLanes : r \in Lsu!Holds(lsu[a])
    <3>1. PICK a \in LsuLanes : r \in Lsu!Holds(lsu[a])
      BY <2>2
    <3>2. a \in Lanes /\ a \notin AluLanes
      BY LaneNumbers DEF Lanes
    <3>3. AllLanes[a] = lsu[a]
      BY <3>2 DEF AllLanes
    <3> QED
      BY <3>1, <3>2, <3>3 DEF Lsu!Holds
  <2> QED
    BY <2>1, <2>2 DEF Working
<1>2. LaneOk(lane, l \in LsuLanes)
  BY <1>1 DEF OrderInv, LanesInv
<1>3. CASE r \in { lane.issueq[i] : i \in DOMAIN lane.issueq }
  <2>1. PICK S : lane.issueq \in Seq(S)
    BY <1>2 DEF LaneOk, IsASeq
  <2>2. PICK i : i \in 1 .. Len(lane.issueq) /\ r = lane.issueq[i]
    BY <1>3, <2>1
  <2>3. Has(lane, "in", i) /\ r = Item(lane, "in", i) /\ i \in Nat
    BY <2>1, <2>2 DEF Has, Item
  <2> QED
    BY <1>1, <2>3
<1>4. CASE r \in { lane.slots[s].req : s \in { t \in DOMAIN lane.slots : lane.slots[t].valid } }
  <2>1. PICK s : s \in DOMAIN lane.slots /\ lane.slots[s].valid /\ r = lane.slots[s].req
    BY <1>4
  <2>2. s \in 1 .. PIPE_SLOTS
    BY <1>2, <2>1 DEF LaneOk
  <2>3. Has(lane, "slot", s) /\ r = Item(lane, "slot", s) /\ s \in Nat
    BY <2>1, <2>2 DEF Has, Item
  <2> QED
    BY <1>1, <2>3
<1> QED
  BY <1>1, <1>3, <1>4

\* An instruction of a lane is filed, and its number is in no other place of
\* the lanes nor in the issue queue.
LEMMA HeldIsFiled ==
  ASSUME OrderInv, NEW l \in Lanes, NEW k \in Kinds, NEW i \in Nat, NEW x,
         Has(AllLanes[l], k, i), x = Item(AllLanes[l], k, i)
  PROVE  Filed(core, x) /\ \A j \in Queued(core) : core.iq[j].seq # x.seq
<1>1. LaneOk(AllLanes[l], l \in LsuLanes)
  BY DEF OrderInv, LanesInv
<1>2. Ticket(x) \in Tickets
  BY <1>1, ItemFacts
<1>3. ~ (l <= 0)
  BY LaneNumbers
<1>4. Ticket(x) \in Held(AllLanes, 0)
  <2>1. PICK lanes, t : lanes = AllLanes /\ t = Ticket(x) /\ t \in Tickets
    BY <1>2
  <2>2. /\ Has(lanes[l], k, i) /\ t = Ticket(Item(lanes[l], k, i))
        /\ ~ (l <= 0 /\ k = "out" /\ i = 1)
    BY <1>3, <2>1
  <2>3. t \in Held(lanes, 0)
    BY <2>1, <2>2 DEF Held
  <2> QED
    BY <2>1, <2>3
<1>5. PICK t : t = Ticket(x) /\ t.rob = x.rob /\ t.dst = x.dst /\ t.seq = x.seq
  <2>1. PICK t : t = [rob |-> x.rob, dst |-> x.dst, seq |-> x.seq]
    OBVIOUS
  <2>2. t.rob = x.rob /\ t.dst = x.dst /\ t.seq = x.seq
    BY <2>1
  <2> QED
    BY <2>1, <2>2 DEF Ticket
<1>6. Filed(core, t) /\ \A j \in Queued(core) : t.seq # core.iq[j].seq
  <2>1. PICK T : T = Held(AllLanes, 0)
    OBVIOUS
  <2>2. FilingInv(core, T) /\ t \in T
    BY <1>4, <1>5, <2>1 DEF OrderInv, FlowInv
  <2> QED
    BY <2>2 DEF FilingInv
<1> QED
  BY <1>5, <1>6 DEF Filed

\* What is filed and apart is in one place.
LEMMA InvImpliesFiledOnce == OrderInv => FiledOnce
<1> SUFFICES ASSUME OrderInv
             PROVE  FiledOnce
  OBVIOUS
<1>1. DOMAIN Places = {1, 2, 3} /\ Places[1] = Waiting /\ Places[2] = Working /\ Places[3] = Results
  BY DEF Places
<1>2. ASSUME NEW r \in Waiting
      PROVE  \E i \in Queued(core) : r = core.iq[i] /\ Filed(core, r)
  <2>1. PICK i \in Queued(core) : r = core.iq[i]
    BY DEF Waiting, Queued
  <2> QED
    BY <2>1 DEF OrderInv, FlowInv, FilingInv
<1>3. ASSUME NEW r \in Working \cup Results
      PROVE  Filed(core, r) /\ \A j \in Queued(core) : core.iq[j].seq # r.seq
  <2>1. PICK l \in Lanes, k \in Kinds, i \in Nat :
          Has(AllLanes[l], k, i) /\ r = Item(AllLanes[l], k, i)
    <3>1. CASE r \in Working
      BY <3>1, WorkingIsHeld DEF Kinds
    <3>2. CASE r \in Results
      BY <3>2, ResultsAreHeld DEF Kinds
    <3> QED
      BY <3>1, <3>2
  <2> QED
    BY <2>1, HeldIsFiled
<1>4. ASSUME NEW r, Filed(core, r)
      PROVE  core.rob[r.rob] \in Unready /\ core.rob[r.rob].seq = r.seq /\ core.rob[r.rob].dst = r.dst
  <2>1. core.rob[r.rob] \in Range(InFlight)
    BY <1>4, SlotIsInFlight DEF Filed, OrderInv
  <2> QED
    BY <1>4, <2>1 DEF Filed, Unready
<1>5. \A i, j \in Queued(core) : core.iq[i].seq = core.iq[j].seq => i = j
  BY DEF OrderInv, FlowInv, CoreInv, QueueInv
<1>6. ASSUME NEW r \in Working, NEW s \in Working, r.seq = s.seq
      PROVE  r = s
  <2>1. PICK l \in Lanes, k \in {"in", "slot"}, i \in Nat :
          Has(AllLanes[l], k, i) /\ r = Item(AllLanes[l], k, i)
    BY WorkingIsHeld
  <2>2. PICK m \in Lanes, n \in {"in", "slot"}, j \in Nat :
          Has(AllLanes[m], n, j) /\ s = Item(AllLanes[m], n, j)
    BY WorkingIsHeld
  <2>3. l = m /\ k = n /\ i = j
    BY <1>6, <2>1, <2>2 DEF OrderInv, LanesInv, Apart, Kinds
  <2> QED
    BY <2>1, <2>2, <2>3
<1>7. ASSUME NEW r \in Results, NEW s \in Results, r.seq = s.seq
      PROVE  r = s
  <2>1. PICK l \in Lanes, i \in Nat :
          Has(AllLanes[l], "out", i) /\ r = Item(AllLanes[l], "out", i)
    BY ResultsAreHeld
  <2>2. PICK m \in Lanes, j \in Nat :
          Has(AllLanes[m], "out", j) /\ s = Item(AllLanes[m], "out", j)
    BY ResultsAreHeld
  <2>3. l = m /\ i = j
    BY <1>7, <2>1, <2>2 DEF OrderInv, LanesInv, Apart, Kinds
  <2> QED
    BY <2>1, <2>2, <2>3
<1>8. ASSUME NEW r \in Working, NEW s \in Results
      PROVE  r.seq # s.seq
  <2>1. PICK l \in Lanes, k \in {"in", "slot"}, i \in Nat :
          Has(AllLanes[l], k, i) /\ r = Item(AllLanes[l], k, i)
    BY WorkingIsHeld
  <2>2. PICK m \in Lanes, j \in Nat :
          Has(AllLanes[m], "out", j) /\ s = Item(AllLanes[m], "out", j)
    BY ResultsAreHeld
  <2> QED
    BY <2>1, <2>2 DEF OrderInv, LanesInv, Apart, Kinds
<1>9. ASSUME NEW r \in Waiting, NEW s \in Working \cup Results
      PROVE  r.seq # s.seq
  BY <1>2, <1>3
<1>10. ASSUME NEW r \in Waiting, NEW s \in Waiting, r.seq = s.seq
       PROVE  r = s
  BY <1>2, <1>5, <1>10
<1>11. ASSUME NEW k \in DOMAIN Places, NEW r \in Places[k]
       PROVE  core.rob[r.rob] \in Unready /\ core.rob[r.rob].seq = r.seq /\ core.rob[r.rob].dst = r.dst
  <2>1. r \in Waiting \/ r \in Working \cup Results
    BY <1>1
  <2>2. Filed(core, r)
    BY <1>2, <1>3, <2>1
  <2> QED
    BY <1>4, <2>2
<1>12. ASSUME NEW j \in DOMAIN Places, NEW k \in DOMAIN Places, NEW r \in Places[j], NEW s \in Places[k],
              r.seq = s.seq
       PROVE  j = k /\ r = s
  <2>1. CASE j = 1
    BY <1>1, <1>9, <1>10, <1>12, <2>1
  <2>2. CASE j = 2
    BY <1>1, <1>6, <1>8, <1>9, <1>12, <2>2
  <2>3. CASE j = 3
    BY <1>1, <1>7, <1>8, <1>9, <1>12, <2>3
  <2> QED
    BY <1>1, <2>1, <2>2, <2>3
<1> QED
  BY <1>11, <1>12 DEF FiledOnce

\* Whatever the lanes, an instruction is in one place at a time and its result
\* is written to the entry of the reorder buffer that is its own
\* (BackendCore.hpp:296-301, 500-548).
THEOREM InstructionsAreFiledOnce == Spec => []FiledOnce
<1>1. OrderInv => FiledOnce
  BY InvImpliesFiledOnce
<1> QED
  BY <1>1, OrderIsSound, PTL

-----------------------------------------------------------------------------
(* Nothing is lost: an instruction that is not ready is in the issue queue *)
(* or in a lane, if no result replaces another.                            *)

\* Every instruction that is not ready is in T, in the lanes, or in the issue
\* queue.
Covered(c, T) ==
  \A s \in Slots : c.rob[s].valid /\ ~ c.rob[s].ready =>
    \/ \E t \in T : t.rob = s
    \/ \E i \in Queued(c) : c.iq[i].rob = s

\* Of a step that leaves the issue queue what it names: only the instructions
\* that are not ready after it have to be covered.
LEMMA CoveredStill ==
  ASSUME NEW c, NEW d, NEW T, NEW U, Covered(c, T),
         \A s \in Slots : d.rob[s].valid /\ ~ d.rob[s].ready =>
           /\ c.rob[s].valid /\ ~ c.rob[s].ready
           /\ \A t \in T : t.rob = s => t \in U,
         \A i \in Queued(c) : i \in Queued(d) /\ d.iq[i].rob = c.iq[i].rob
  PROVE  Covered(d, U)
<1> SUFFICES ASSUME NEW s \in Slots, d.rob[s].valid, ~ d.rob[s].ready
             PROVE  (\E t \in U : t.rob = s) \/ (\E i \in Queued(d) : d.iq[i].rob = s)
  BY DEF Covered
<1>1. (\E t \in T : t.rob = s) \/ (\E i \in Queued(c) : c.iq[i].rob = s)
  BY DEF Covered
<1> QED
  BY <1>1

\* What is written back is ready afterwards.
LEMMA CoveredWriteback ==
  ASSUME NEW c, NEW T, NEW l, NEW q, NEW wb, FlowInv(c, T), Covered(c, T),
         q = IF l \in AluLanes THEN alu[l].resultq ELSE lsu[l].resultq, q # <<>>, wb = Head(q),
         Ticket(wb) \in T
  PROVE  Covered(WritebackOf(c, l), T \ {Ticket(wb)})
<1>1. PICK d : d = WritebackOf(c, l)
  OBVIOUS
<1>2. d = Writeback(c, wb)
  BY <1>1 DEF WritebackOf
<1>3. /\ DOMAIN c = CoreFields /\ DOMAIN c.rob = Slots /\ DOMAIN c.iq = 1 .. IQ_SIZE
      /\ \A i \in Slots : c.rob[i].valid => {"hasDest", "old", "seq", "ready"} \subseteq DOMAIN c.rob[i]
      /\ \A i \in 1 .. IQ_SIZE : "valid" \in DOMAIN c.iq[i]
  BY DEF FlowInv, CoreInv, Shape
<1>4. d.rob = [c.rob EXCEPT ![wb.rob].ready = TRUE]
  BY <1>2, <1>3 DEF Writeback, CoreFields
<1>5. d.iq = [i \in 1 .. IQ_SIZE |-> Woken(c.iq[i], wb)]
  BY <1>2, <1>3 DEF Writeback, CoreFields
<1>6. PICK w : /\ w = wb.rob /\ w \in Slots /\ Ticket(wb).rob = w
               /\ c.rob[w].valid
  <2>1. Filed(c, Ticket(wb)) /\ Ticket(wb).rob = wb.rob
    BY DEF FlowInv, FilingInv, Ticket
  <2> QED
    BY <2>1 DEF Filed
<1>7. /\ \A i \in Slots : i # w => d.rob[i] = c.rob[i]
      /\ d.rob[w].ready
  <2>1. PICK e : e = c.rob[w] /\ "ready" \in DOMAIN e
    BY <1>3, <1>6
  <2>2. d.rob[w] = [e EXCEPT !.ready = TRUE]
    BY <1>3, <1>4, <1>6, <2>1
  <2>3. d.rob[w].ready
    BY <2>1, <2>2
  <2> QED
    BY <1>3, <1>4, <1>6, <2>3
<1>8. \A s \in Slots : d.rob[s].valid /\ ~ d.rob[s].ready =>
        /\ c.rob[s].valid /\ ~ c.rob[s].ready
        /\ \A t \in T : t.rob = s => t \in T \ {Ticket(wb)}
  BY <1>6, <1>7
<1>9. ASSUME NEW i \in Queued(c)
      PROVE  i \in Queued(d) /\ d.iq[i].rob = c.iq[i].rob
  <2>1. PICK e : e = c.iq[i] /\ e.valid /\ i \in 1 .. IQ_SIZE
    BY DEF Queued
  <2>2. {"valid", "rob", "dst", "seq", "op", "isLsu", "tag1", "ready1", "tag2", "ready2"} \subseteq DOMAIN e
    BY <1>3, <2>1 DEF FlowInv, EntryShape
  <2>3. d.iq[i] = Woken(e, wb)
    BY <1>5, <2>1
  <2>4. Woken(e, wb).valid /\ Woken(e, wb).rob = e.rob
    BY <2>1, <2>2, WokenEntry
  <2> QED
    BY <2>1, <2>3, <2>4 DEF Queued
<1>10. Covered(d, T \ {Ticket(wb)})
  BY <1>8, <1>9, CoveredStill
<1> QED
  BY <1>1, <1>10

\* What commits was ready.
LEMMA CoveredCommit ==
  ASSUME NEW c, NEW T, NEW k, FlowInv(c, T), Covered(c, T)
  PROVE  Covered(CommitOne(c, k), T)
<1> DEFINE h == c.head
           e == c.rob[h]
           d == CommitOne(c, k)
<1>1. CASE c.count = 0 \/ ~ e.valid \/ ~ e.ready
  BY <1>1 DEF CommitOne
<1>2. CASE ~ (c.count = 0 \/ ~ e.valid \/ ~ e.ready)
  <2>1. DOMAIN c = CoreFields /\ DOMAIN c.rob = Slots /\ h \in Slots
    BY DEF FlowInv, CoreInv, Shape, RingInv
  <2>2. d.iq = c.iq /\ d.rob = [c.rob EXCEPT ![h] = Empty]
    BY <1>2, <2>1 DEF CommitOne, CoreFields
  <2> HIDE DEF d
  <2>3. /\ ~ d.rob[h].valid /\ \A i \in Slots : i # h => d.rob[i] = c.rob[i]
    BY <2>1, <2>2 DEF Empty
  <2>4. \A s \in Slots : d.rob[s].valid /\ ~ d.rob[s].ready => c.rob[s].valid /\ ~ c.rob[s].ready
    BY <2>3
  <2>5. \A i \in Queued(c) : i \in Queued(d) /\ d.iq[i].rob = c.iq[i].rob
    BY <2>2 DEF Queued
  <2>6. Covered(d, T)
    BY <2>4, <2>5, CoveredStill
  <2> QED
    BY <2>6 DEF d
<1> QED
  BY <1>1, <1>2

\* What is dispatched enters the issue queue.
LEMMA CoveredDispatch ==
  ASSUME NEW c, NEW T, NEW x, FlowInv(c, T), Covered(c, T)
  PROVE  Covered(DispatchOne(c, x), T)
<1> DEFINE inst == Head(c.ingress)
           need == Toy!WritesDest(inst)
           free == { i \in 1 .. IQ_SIZE : ~ c.iq[i].valid }
           dst == IF need THEN Head(c.free) ELSE 0
           d == DispatchOne(c, x)
           t == c.tail
<1>1. CASE free = {}
  <2>1. d = c
    BY <1>1 DEF DispatchOne
  <2> QED
    BY <2>1
<1>2. CASE free # {}
  <2>1. DOMAIN c = CoreFields /\ DOMAIN c.rob = Slots /\ DOMAIN c.iq = 1 .. IQ_SIZE
    BY DEF FlowInv, CoreInv, Shape
  <2>2. PICK ne, qe : ne = RobEntry(c, inst, dst) /\ qe = IqEntry(c, inst, dst)
    OBVIOUS
  <2>3. d.rob = [c.rob EXCEPT ![t] = ne]
    BY <1>2, <2>1, <2>2 DEF DispatchOne, CoreFields
  <2>4. d.iq = [c.iq EXCEPT ![Min(free)] = qe]
    BY <1>2, <2>1, <2>2 DEF DispatchOne, CoreFields
  <2>5. PICK m \in 1 .. IQ_SIZE : m = Min(free) /\ ~ c.iq[m].valid
    BY <1>2, FirstFree
  <2>6. qe.valid /\ qe.rob = t
    <3> HIDE DEF inst, need, dst
    <3> QED
      BY <2>2 DEF IqEntry
  <2> HIDE DEF d, inst, need, dst, free
  <2>7. \A i \in Slots : i # t => d.rob[i] = c.rob[i]
    BY <2>1, <2>3
  <2>8. d.iq[m] = qe /\ \A i \in 1 .. IQ_SIZE : i # m => d.iq[i] = c.iq[i]
    BY <2>1, <2>4, <2>5
  <2>9. m \in Queued(d) /\ d.iq[m].rob = t
    BY <2>5, <2>6, <2>8 DEF Queued
  <2>10. \A i \in Queued(c) : i \in Queued(d) /\ d.iq[i].rob = c.iq[i].rob
    BY <2>5, <2>8 DEF Queued
  <2>11. ASSUME NEW s \in Slots, d.rob[s].valid, ~ d.rob[s].ready
         PROVE  (\E u \in T : u.rob = s) \/ (\E i \in Queued(d) : d.iq[i].rob = s)
    <3>1. CASE s = t
      BY <2>9, <3>1
    <3>2. CASE s # t
      <4>1. (\E u \in T : u.rob = s) \/ (\E i \in Queued(c) : c.iq[i].rob = s)
        BY <2>7, <2>11, <3>2 DEF Covered
      <4> QED
        BY <2>10, <4>1
    <3> QED
      BY <3>1, <3>2
  <2> QED
    BY <2>11 DEF Covered, d
<1> QED
  BY <1>1, <1>2

\* What issues is in the lanes.
LEMMA CoveredIssue ==
  ASSUME NEW c, NEW T, NEW chosen \in [Lanes -> {0} \cup Queued(c)], FlowInv(c, T), Covered(c, T)
  PROVE  Covered(Issued(c, chosen),
                 T \cup { Ticket(c.iq[i]) : i \in { chosen[l] : l \in Lanes } \ {0} })
<1> DEFINE gone == { chosen[l] : l \in DOMAIN chosen } \ {0}
           d == Issued(c, chosen)
           U == T \cup { Ticket(c.iq[i]) : i \in gone }
<1>1. DOMAIN c = CoreFields /\ DOMAIN c.iq = 1 .. IQ_SIZE
  BY DEF FlowInv, CoreInv, Shape
<1>2. /\ d.rob = c.rob
      /\ d.iq = [i \in 1 .. IQ_SIZE |-> IF i \in gone THEN Empty ELSE c.iq[i]]
  BY <1>1 DEF Issued, CoreFields
<1>3. { chosen[l] : l \in Lanes } \ {0} = gone
  OBVIOUS
<1> HIDE DEF gone, d
<1>4. \A i \in Queued(c) : i \notin gone => i \in Queued(d) /\ d.iq[i].rob = c.iq[i].rob
  BY <1>2 DEF Queued
<1>5. ASSUME NEW i \in gone
      PROVE  Ticket(c.iq[i]) \in U /\ Ticket(c.iq[i]).rob = c.iq[i].rob
  BY DEF Ticket
<1> HIDE DEF U
<1>6. T \subseteq U
  BY DEF U
<1>7. ASSUME NEW s \in Slots, d.rob[s].valid, ~ d.rob[s].ready
      PROVE  (\E t \in U : t.rob = s) \/ (\E i \in Queued(d) : d.iq[i].rob = s)
  <2>1. (\E t \in T : t.rob = s) \/ (\E i \in Queued(c) : c.iq[i].rob = s)
    BY <1>2, <1>7 DEF Covered
  <2> QED
    BY <1>4, <1>5, <1>6, <2>1
<1>8. Covered(d, U)
  BY <1>7 DEF Covered
<1> QED
  BY <1>3, <1>8 DEF d, U

\* A ticket is held by the first l - 1 lanes' write-backs and not after the
\* l-th only if it is that of the first result.
LEMMA HeldStepBack ==
  ASSUME NEW lanes, NEW l \in Lanes, LanesInv(lanes), NEW t \in Held(lanes, l - 1), t \notin Held(lanes, l)
  PROVE  lanes[l].resultq # <<>> /\ t = Ticket(Head(lanes[l].resultq))
<1>0. Lanes \subseteq Nat
  BY LaneNumbers
<1>1. PICK m \in Lanes, k \in Kinds, i \in Nat :
        /\ Has(lanes[m], k, i) /\ t = Ticket(Item(lanes[m], k, i)) /\ t \in Tickets
        /\ ~ (m <= l - 1 /\ k = "out" /\ i = 1)
  BY DEF Held
<1>2. m <= l /\ k = "out" /\ i = 1
  BY <1>1 DEF Held
<1>3. m = l
  BY <1>0, <1>1, <1>2
<1>4. LaneOk(lanes[l], l \in LsuLanes) /\ Has(lanes[l], "out", 1)
  BY <1>1, <1>2, <1>3 DEF LanesInv
<1>5. PICK q : q = lanes[l].resultq /\ IsASeq(q) /\ 1 \in 1 .. Len(q)
  BY <1>4 DEF Has, LaneOk
<1>6. q # <<>>
  BY <1>5
<1> QED
  BY <1>1, <1>2, <1>3, <1>4, <1>5, <1>6, FirstResult

\* The write-backs of a cycle.
LEMMA CoveredWritebacks ==
  ASSUME NEW c, NEW lanes, lanes = AllLanes, LanesInv(lanes), FlowInv(c, Held(lanes, 0)),
         Covered(c, Held(lanes, 0))
  PROVE  Covered(WrittenBack(c), Held(lanes, ALU_LANES + LSU_LANES))
<1> DEFINE n == ALU_LANES + LSU_LANES
<1>1. PICK run : /\ run[0] = c /\ WrittenBack(c) = run[n]
                 /\ \A i \in 1 .. n : run[i] = WritebackOf(run[i - 1], i)
  BY WrittenBackRun
<1>2. n \in Nat /\ Lanes = 1 .. n
  BY LaneNumbers
<1> HIDE DEF n
<1> DEFINE Good == { i \in 0 .. n : FlowInv(run[i], Held(lanes, i)) /\ Covered(run[i], Held(lanes, i)) }
<1>3. 0 \in Good
  BY <1>1, <1>2
<1>4. ASSUME NEW l \in 1 .. n, l - 1 \in Good
      PROVE  l \in Good
  <2>1. PICK x, T, U, q : /\ x = run[l - 1] /\ T = Held(lanes, l - 1) /\ U = Held(lanes, l)
                          /\ q = lanes[l].resultq
    OBVIOUS
  <2>2. l \in Lanes /\ FlowInv(x, T) /\ Covered(x, T) /\ run[l] = WritebackOf(x, l)
    BY <1>1, <1>2, <1>4, <2>1
  <2>3. q = IF l \in AluLanes THEN alu[l].resultq ELSE lsu[l].resultq
    BY <2>1, <2>2 DEF AllLanes
  <2>4. U \subseteq T /\ \A t \in T : t \notin U => q # <<>> /\ t = Ticket(Head(q))
    BY <2>1, <2>2, HeldStep, HeldStepBack
  <2>5. CASE q = <<>>
    <3>1. run[l] = x
      BY <2>2, <2>3, <2>5 DEF WritebackOf
    <3>2. U = T
      BY <2>4, <2>5
    <3>3. FlowInv(x, U) /\ Covered(x, U)
      BY <2>2, <3>2
    <3>4. FlowInv(run[l], Held(lanes, l)) /\ Covered(run[l], Held(lanes, l))
      BY <2>1, <3>1, <3>3
    <3> QED
      BY <1>2, <3>4
  <2>6. CASE q # <<>>
    <3>1. PICK wb : wb = Head(q)
      OBVIOUS
    <3>2. Ticket(wb) \in T /\ Ticket(wb) \notin U
      BY <2>1, <2>2, <2>6, <3>1, HeldStep
    <3>3. wb.dst # 0 => wb.hasDest
      <4>1. LaneOk(lanes[l], l \in LsuLanes)
        BY <2>2 DEF LanesInv
      <4>2. Has(lanes[l], "out", 1) /\ wb = Item(lanes[l], "out", 1)
        BY <2>1, <2>6, <3>1, <4>1, FirstResult
      <4>3. "out" \in Kinds /\ 1 \in Nat
        BY DEF Kinds
      <4> QED
        BY <4>1, <4>2, <4>3, ItemFacts DEF ItemOk
    <3>4. FlowInv(WritebackOf(x, l), T \ {Ticket(wb)}) /\ Covered(WritebackOf(x, l), T \ {Ticket(wb)})
      BY <2>2, <2>3, <2>6, <3>1, <3>2, <3>3, FlowWriteback, CoveredWriteback
    <3>5. U = T \ {Ticket(wb)}
      BY <2>4, <3>1, <3>2
    <3>6. PICK y : y = WritebackOf(x, l) /\ y = run[l]
      BY <2>2
    <3>7. FlowInv(y, U) /\ Covered(y, U)
      BY <3>4, <3>5, <3>6
    <3>8. FlowInv(run[l], Held(lanes, l)) /\ Covered(run[l], Held(lanes, l))
      BY <2>1, <3>6, <3>7
    <3> QED
      BY <1>2, <3>8
  <2> QED
    BY <2>5, <2>6
<1>5. Good \in SUBSET (0 .. n)
  OBVIOUS
<1> HIDE DEF Good
<1>6. Good = 0 .. n
  BY <1>2, <1>3, <1>4, <1>5, PassedOn
<1>7. Covered(run[n], Held(lanes, n))
  BY <1>2, <1>6 DEF Good
<1> QED
  BY <1>1, <1>7 DEF n

\* The commits of a cycle.
LEMMA CoveredCommits ==
  ASSUME NEW c, NEW T, FlowInv(c, T), Covered(c, T)
  PROVE  Covered(Committed(c), T)
<1> DEFINE n == COMMIT_WIDTH
<1>1. PICK run : /\ run[0] = c /\ Committed(c) = run[n]
                 /\ \A i \in 1 .. n : run[i] = CommitOne(run[i - 1], i)
  BY CommittedRun
<1>2. n \in Nat
  BY SizesAssumption
<1> HIDE DEF n
<1> DEFINE Good == { i \in 0 .. n : FlowInv(run[i], T) /\ Covered(run[i], T) }
<1>3. 0 \in Good
  BY <1>1, <1>2
<1>4. \A i \in 1 .. n : i - 1 \in Good => i \in Good
  BY <1>1, FlowCommit, CoveredCommit
<1>5. Good \in SUBSET (0 .. n)
  OBVIOUS
<1> HIDE DEF Good
<1>6. Good = 0 .. n
  BY <1>2, <1>3, <1>4, <1>5, PassedOn
<1> QED
  BY <1>1, <1>2, <1>6 DEF Good

\* The dispatches of a cycle.
LEMMA CoveredDispatches ==
  ASSUME NEW c, NEW T, FlowInv(c, T), Covered(c, T)
  PROVE  Covered(Dispatched(c), T)
<1> DEFINE n == DispatchLimit(c)
<1>1. Room(c, n) /\ n \in Nat
  BY LimitIsRoom DEF Room, FlowInv
<1>2. PICK run : /\ run[0] = c /\ Dispatched(c) = run[n]
                 /\ \A i \in 1 .. n : run[i] = DispatchOne(run[i - 1], i)
  BY <1>1, DispatchedRun
<1> HIDE DEF n
<1> DEFINE Good == { i \in 0 .. n : FlowInv(run[i], T) /\ Covered(run[i], T) /\ Room(run[i], n - i) }
<1>3. 0 \in Good
  BY <1>1, <1>2
<1>4. ASSUME NEW i \in 1 .. n, i - 1 \in Good
      PROVE  i \in Good
  <2>1. PICK x, k : x = run[i - 1] /\ k = n - (i - 1)
    OBVIOUS
  <2>2. FlowInv(x, T) /\ Covered(x, T) /\ Room(x, k) /\ k \in Nat /\ k >= 1 /\ k - 1 = n - i
    BY <1>1, <1>4, <2>1
  <2>3. Room(DispatchOne(x, i), k - 1)
    BY <2>2, DispatchKeeps DEF FlowInv
  <2>4. FlowInv(DispatchOne(x, i), T)
    BY <2>2, FlowDispatch
  <2>5. Covered(DispatchOne(x, i), T)
    BY <2>2, CoveredDispatch
  <2>6. run[i] = DispatchOne(x, i)
    BY <1>2, <2>1
  <2> QED
    BY <1>1, <2>2, <2>3, <2>4, <2>5, <2>6
<1>5. Good \in SUBSET (0 .. n)
  OBVIOUS
<1> HIDE DEF Good
<1>6. Good = 0 .. n
  BY <1>1, <1>3, <1>4, <1>5, PassedOn
<1> QED
  BY <1>1, <1>2, <1>6 DEF Good
-----------------------------------------------------------------------------
(* The lanes lose nothing.                                                 *)

\* A lane holds what the ticket t is of.
Keeps(lane, t) == \E k \in Kinds, i \in Nat : Has(lane, k, i) /\ Ticket(Item(lane, k, i)) = t

\* What stays in a lane in a cycle is there after it, and so is what is issued.
LEMMA RetainedKeeps ==
  ASSUME NEW lane, NEW new, NEW mem, NEW issued, NEW popped \in BOOLEAN,
         LaneOk(lane, mem), Retained(lane, new, mem, issued, popped),
         Issue(lane, mem, issued, popped), popped => lane.resultq # <<>>
  PROVE  /\ \A k \in Kinds, i \in Nat : Stays(lane, popped, k, i) => Keeps(new, Ticket(Item(lane, k, i)))
         /\ issued # <<>> => Keeps(new, Ticket(issued[1]))
<1>1. PICK t, o, r : Move(lane, new, mem, issued, popped, t, o, r) /\ Fills(lane, new, t, o)
  BY DEF Retained
<1>2. "in" \in Kinds /\ "slot" \in Kinds /\ "out" \in Kinds
  BY DEF Kinds
<1>3. PICK q, n, pop : q = lane.issueq /\ n = new.issueq /\ pop = (t # 0)
  OBVIOUS
<1>4. pop \in BOOLEAN /\ Shifted(q, issued, pop, n)
  BY <1>1, <1>3 DEF LaneOk, Issue, Move, AtMostOne, Shifted
<1>5. Passes(q, issued, pop, n) /\ IsASeq(n)
  BY <1>4, QueueStep
<1>6. PICK q2, n2, e2 : q2 = lane.resultq /\ n2 = new.resultq /\ e2 = (IF o # 0 THEN <<r>> ELSE <<>>)
  OBVIOUS
<1>7. Shifted(q2, e2, popped, n2)
  BY <1>1, <1>6 DEF LaneOk, Move, AtMostOne, Shifted
<1>8. Passes(q2, e2, popped, n2) /\ IsASeq(n2)
  BY <1>7, QueueStep
<1>9. ASSUME NEW j \in 1 .. Len(n)
      PROVE  Keeps(new, Ticket(n[j]))
  <2>1. j \in Nat /\ Has(new, "in", j) /\ Item(new, "in", j) = n[j]
    <3>1. j \in Nat
      BY <1>5 DEF IsASeq
    <3> QED
      BY <1>3, <3>1 DEF Has, Item
  <2> QED
    BY <1>2, <2>1 DEF Keeps
<1>10. ASSUME NEW j \in 1 .. Len(n2)
       PROVE  Keeps(new, Ticket(n2[j]))
  <2>1. j \in Nat /\ Has(new, "out", j) /\ Item(new, "out", j) = n2[j]
    <3>1. j \in Nat
      BY <1>8 DEF IsASeq
    <3> QED
      BY <1>6, <3>1 DEF Has, Item
  <2> QED
    BY <1>2, <2>1 DEF Keeps
<1>11. ASSUME NEW s \in 1 .. PIPE_SLOTS, new.slots[s].valid
       PROVE  Keeps(new, Ticket(new.slots[s].req))
  <2>1. s \in Nat /\ Has(new, "slot", s) /\ Item(new, "slot", s) = new.slots[s].req
    BY <1>11 DEF Has, Item
  <2> QED
    BY <1>2, <2>1 DEF Keeps
<1>12. t \in 0 .. PIPE_SLOTS /\ o \in 0 .. PIPE_SLOTS /\ \A s \in 0 .. PIPE_SLOTS : s # 0 => s \in 1 .. PIPE_SLOTS
  BY <1>1, SizesAssumption DEF Move
<1>13. issued # <<>> => Keeps(new, Ticket(issued[1]))
  BY <1>5, <1>9 DEF Passes
<1>14. ASSUME NEW k \in Kinds, NEW i \in Nat, Stays(lane, popped, k, i)
       PROVE  Keeps(new, Ticket(Item(lane, k, i)))
  <2>1. Has(lane, k, i)
    BY <1>14 DEF Stays
  <2>2. CASE k = "in"
    <3>1. i \in 1 .. Len(q) /\ Item(lane, k, i) = q[i]
      BY <1>3, <2>1, <2>2 DEF Has, Item
    <3>2. CASE pop /\ i = 1
      <4>1. t \in 1 .. PIPE_SLOTS /\ new.slots[t].valid
        BY <1>1, <1>3, <1>12, <3>2 DEF Fills
      <4>2. new.slots[t].req = Head(q)
        BY <1>1, <1>3, <4>1 DEF Move
      <4>3. Head(q) = q[1]
        BY <1>4, <3>1, <3>2 DEF Shifted, IsASeq
      <4> QED
        BY <1>11, <3>1, <3>2, <4>1, <4>2, <4>3
    <3>3. CASE ~ (pop /\ i = 1)
      <4>1. PICK j \in 1 .. Len(n) : n[j] = q[i]
        BY <1>5, <3>1, <3>3 DEF Passes
      <4> QED
        BY <1>9, <3>1, <4>1
    <3> QED
      BY <3>2, <3>3
  <2>3. CASE k = "slot"
    <3>1. PICK x : i \in 1 .. PIPE_SLOTS /\ lane.slots[i].valid /\ x = lane.slots[i].req /\ Item(lane, k, i) = x
      BY <2>1, <2>3 DEF Has, Item
    <3>2. CASE i = o
      <4>1. o # 0 /\ e2 = <<r>>
        BY <1>6, <3>1, <3>2
      <4>2. r.rob = x.rob /\ r.dst = x.dst /\ r.seq = x.seq
        BY <1>1, <3>1, <3>2, <4>1 DEF Move
      <4>3. Ticket(r) = Ticket(x)
        BY <4>2 DEF Ticket
      <4>4. e2 # <<>> /\ e2[1] = r
        BY <4>1
      <4>5. PICK j \in 1 .. Len(n2) : n2[j] = r
        BY <1>8, <4>4 DEF Passes
      <4> QED
        BY <1>10, <3>1, <4>3, <4>5
    <3>3. CASE i # o
      <4>1. i # t
        BY <1>1, <3>1, <3>3 DEF Fills
      <4>2. new.slots[i].valid
        BY <1>1, <3>1, <3>3, <4>1 DEF Fills
      <4>3. new.slots[i].req = x
        BY <1>1, <3>1, <4>1, <4>2 DEF Move
      <4> QED
        BY <1>11, <3>1, <4>2, <4>3
    <3> QED
      BY <3>2, <3>3
  <2>4. CASE k = "out"
    <3>1. i \in 1 .. Len(q2) /\ Item(lane, k, i) = q2[i] /\ ~ (popped /\ i = 1)
      BY <1>6, <1>14, <2>1, <2>4 DEF Has, Item, Stays
    <3>2. PICK j \in 1 .. Len(n2) : n2[j] = q2[i]
      BY <1>8, <3>1 DEF Passes
    <3> QED
      BY <1>10, <3>1, <3>2
  <2> QED
    BY <2>2, <2>3, <2>4 DEF Kinds
<1> QED
  BY <1>13, <1>14

\* The lanes after a cycle in which each of them is filled and loses nothing.
AllRetained(lanes, news, issue, popped) ==
  \A l \in Lanes :
    /\ Retained(lanes[l], news[l], l \in LsuLanes, issue[l], popped /\ lanes[l].resultq # <<>>)
    /\ Issue(lanes[l], l \in LsuLanes, issue[l], popped /\ lanes[l].resultq # <<>>)

\* The lanes hold then what they held and what is issued.
LEMMA LanesLoseNothing ==
  ASSUME NEW lanes, NEW news, NEW issue, NEW popped \in BOOLEAN, NEW n,
         n = (IF popped THEN ALU_LANES + LSU_LANES ELSE 0),
         LanesInv(lanes), LanesInv(news), AllRetained(lanes, news, issue, popped)
  PROVE  Held(lanes, n) \cup IssuedTickets(issue) \subseteq Held(news, 0)
<1>1. ASSUME NEW l \in Lanes
      PROVE  /\ \A k \in Kinds, i \in Nat : Stays(lanes[l], popped /\ lanes[l].resultq # <<>>, k, i)
                                            => Keeps(news[l], Ticket(Item(lanes[l], k, i)))
             /\ issue[l] # <<>> => Keeps(news[l], Ticket(issue[l][1]))
  <2>1. PICK lane, new, mem, issued, pop :
          /\ lane = lanes[l] /\ new = news[l] /\ mem = (l \in LsuLanes) /\ issued = issue[l]
          /\ pop = (popped /\ lanes[l].resultq # <<>>)
    OBVIOUS
  <2>2. pop \in BOOLEAN /\ LaneOk(lane, mem) /\ (pop => lane.resultq # <<>>)
    BY <2>1 DEF LanesInv
  <2>3. Retained(lane, new, mem, issued, pop) /\ Issue(lane, mem, issued, pop)
    BY <2>1 DEF AllRetained
  <2>4. /\ \A k \in Kinds, i \in Nat : Stays(lane, pop, k, i) => Keeps(new, Ticket(Item(lane, k, i)))
        /\ issued # <<>> => Keeps(new, Ticket(issued[1]))
    BY <2>2, <2>3, RetainedKeeps
  <2> QED
    BY <2>1, <2>4
<1>2. ASSUME NEW l \in Lanes, NEW t, Keeps(news[l], t)
      PROVE  t \in Held(news, 0)
  <2>1. PICK k \in Kinds, i \in Nat : Has(news[l], k, i) /\ Ticket(Item(news[l], k, i)) = t
    BY <1>2 DEF Keeps
  <2>2. t \in Tickets
    BY <2>1, ItemFacts DEF LanesInv
  <2>3. ~ (l <= 0)
    BY LaneNumbers
  <2> QED
    BY <2>1, <2>2, <2>3 DEF Held
<1>3. ASSUME NEW t \in Held(lanes, n)
      PROVE  t \in Held(news, 0)
  <2>1. PICK l \in Lanes, k \in Kinds, i \in Nat :
          /\ Has(lanes[l], k, i) /\ t = Ticket(Item(lanes[l], k, i))
          /\ ~ (l <= n /\ k = "out" /\ i = 1)
    BY DEF Held
  <2>2. popped => l <= n
    BY LaneNumbers
  <2>3. Stays(lanes[l], popped /\ lanes[l].resultq # <<>>, k, i)
    BY <2>1, <2>2 DEF Stays
  <2> QED
    BY <1>1, <1>2, <2>1, <2>3
<1>4. ASSUME NEW t \in IssuedTickets(issue)
      PROVE  t \in Held(news, 0)
  <2>1. PICK l \in Lanes : issue[l] # <<>> /\ t = Ticket(issue[l][1])
    BY DEF IssuedTickets
  <2> QED
    BY <1>1, <1>2, <2>1
<1> QED
  BY <1>3, <1>4
-----------------------------------------------------------------------------
(* Every instruction that is not ready is in one place.                    *)

\* In no memory lane does a slot send between two that poll.
AnswersDoNotCross == \A l \in LsuLanes : OneAnswer(lsu[l])

\* The invariant: besides, nothing is lost.
PlacesInv == OrderInv /\ Covered(core, Held(AllLanes, 0))

\* More tickets cover what fewer do.
LEMMA CoveredMore ==
  ASSUME NEW c, NEW T, NEW U, Covered(c, T), T \subseteq U
  PROVE  Covered(c, U)
BY DEF Covered

\* What is chosen is issued to a lane.
LEMMA ChosenAreIssued ==
  ASSUME NEW c, NEW chosen, NEW issue, issue = Requests(c, chosen)
  PROVE  { Ticket(c.iq[i]) : i \in { chosen[l] : l \in Lanes } \ {0} } \subseteq IssuedTickets(issue)
<1> SUFFICES ASSUME NEW l \in Lanes, chosen[l] # 0
             PROVE  Ticket(c.iq[chosen[l]]) \in IssuedTickets(issue)
  OBVIOUS
<1>1. PICK e, x : e = c.iq[chosen[l]] /\ x = FuRequest(e)
  OBVIOUS
<1>2. issue[l] = <<x>>
  BY <1>1 DEF Requests
<1>3. x.rob = e.rob /\ x.dst = e.dst /\ x.seq = e.seq
  BY <1>1 DEF FuRequest
<1>4. Ticket(x) = Ticket(e)
  BY <1>3 DEF Ticket
<1>5. issue[l] # <<>> /\ issue[l][1] = x
  BY <1>2
<1> QED
  BY <1>1, <1>4, <1>5 DEF IssuedTickets

\* What the core does in a cycle to what is in flight.
LEMMA CoreCovered ==
  ASSUME NEW c, NEW lanes, lanes = AllLanes, LanesInv(lanes), FlowInv(c, Held(lanes, 0)),
         Covered(c, Held(lanes, 0)), NEW ring \in Seq(Instr), NEW d, d = [c EXCEPT !.ingress = ring],
         NEW next, next = Dispatched(Committed(WrittenBack(d)))
  PROVE  /\ FlowInv(next, Held(lanes, ALU_LANES + LSU_LANES))
         /\ Covered(next, Held(lanes, ALU_LANES + LSU_LANES))
<1>1. PICK w, k, T, U : /\ w = WrittenBack(d) /\ k = Committed(w)
                        /\ T = Held(lanes, 0) /\ U = Held(lanes, ALU_LANES + LSU_LANES)
  OBVIOUS
<1>2. FlowInv(d, T)
  BY <1>1, FlowDrained
<1>3. Covered(d, T)
  <2>1. DOMAIN c = CoreFields
    BY DEF FlowInv, CoreInv, Shape
  <2>2. d.rob = c.rob /\ d.iq = c.iq
    BY <2>1 DEF CoreFields
  <2>3. Queued(d) = Queued(c)
    BY <2>2 DEF Queued
  <2> QED
    BY <1>1, <2>2, <2>3 DEF Covered
<1>4. FlowInv(w, U) /\ Covered(w, U)
  BY <1>1, <1>2, <1>3, FlowWritebacks, CoveredWritebacks
<1>5. FlowInv(k, U) /\ Covered(k, U)
  BY <1>1, <1>4, FlowCommits, CoveredCommits
<1>6. FlowInv(Dispatched(k), U) /\ Covered(Dispatched(k), U)
  BY <1>5, FlowDispatches, CoveredDispatches
<1> QED
  BY <1>1, <1>6

\* Nothing is in flight after a reset.
LEMMA PlacesInvInit == Init => PlacesInv
<1> SUFFICES ASSUME Init
             PROVE  PlacesInv
  OBVIOUS
<1>1. OrderInv
  BY OrderInvInit
<1>2. core.rob = [i \in 0 .. ROB_SIZE - 1 |-> Empty]
  BY DEF Init, InitCore
<1>3. \A i \in Slots : ~ core.rob[i].valid
  BY <1>2 DEF Slots, Empty
<1> QED
  BY <1>1, <1>3 DEF PlacesInv, Covered

\* A cycle of the core loses nothing.
LEMMA PlacesInvCycle ==
  ASSUME NEW m, PlacesInv, AnswersDoNotCross, Cycle(m), OrderInv'
  PROVE  PlacesInv'
<1>1. PICK n, lanes, T : n = ALU_LANES + LSU_LANES /\ lanes = AllLanes /\ T = Held(lanes, n)
  OBVIOUS
<1>2. PICK ring, d : /\ ring = Drained(push, core.ingress).ring
                     /\ d = [core EXCEPT !.ingress = ring]
  OBVIOUS
<1>3. PICK next, chosen : /\ next = Dispatched(Committed(WrittenBack(d)))
                          /\ chosen = Chosen(next)
  OBVIOUS
<1>4. PICK issue : issue = Requests(next, chosen)
  OBVIOUS
<1>5. /\ LanesInv(lanes) /\ FlowInv(core, Held(lanes, 0)) /\ Covered(core, Held(lanes, 0))
      /\ push \in [Ports -> Seq(Instr)] /\ core.ingress \in Seq(Instr)
      /\ DOMAIN alu = AluLanes /\ DOMAIN lsu = LsuLanes
  BY <1>1 DEF PlacesInv, OrderInv, BackendInv, CoreInv, Shape
<1>6. ring \in Seq(Instr)
  BY <1>2, <1>5, DrainKeeps
<1>7. FlowInv(next, T) /\ Covered(next, T)
  <2>1. PICK c : c = core
    OBVIOUS
  <2>2. /\ FlowInv(c, Held(lanes, 0)) /\ Covered(c, Held(lanes, 0))
        /\ d = [c EXCEPT !.ingress = ring] /\ lanes = AllLanes
    BY <1>1, <1>2, <1>5, <2>1
  <2>3. next = Dispatched(Committed(WrittenBack(d))) /\ LanesInv(lanes)
    BY <1>3, <1>5
  <2>4. /\ FlowInv(next, Held(lanes, ALU_LANES + LSU_LANES))
        /\ Covered(next, Held(lanes, ALU_LANES + LSU_LANES))
    BY <1>6, <2>2, <2>3, CoreCovered
  <2> QED
    BY <1>1, <2>4
<1>8. Fair(next, chosen, IQ_SIZE) /\ chosen \in [Lanes -> {0} \cup Queued(next)]
  BY <1>3, ChosenAreFair, ChosenAreQueued
<1>9. core' = Issued(next, chosen)
  BY <1>2, <1>3 DEF Cycle
<1>10. LanesTick(issue, TRUE)
  <2>1. DOMAIN chosen = Lanes
    BY <1>8
  <2>2. LanesTick([l \in DOMAIN chosen |->
                     IF chosen[l] = 0 THEN <<>> ELSE << FuRequest(next.iq[chosen[l]]) >>], TRUE)
    BY <1>2, <1>3 DEF Cycle
  <2> QED
    BY <1>4, <2>1, <2>2 DEF Requests
<1>11. \A l \in Lanes :
         Issue(lanes[l], l \in LsuLanes, issue[l], TRUE /\ lanes[l].resultq # <<>>)
  <2>1. FlowInv(next, Held(lanes, n)) /\ n = ALU_LANES + LSU_LANES
    BY <1>1, <1>7
  <2>2. LanesInv(lanes) /\ issue = Requests(next, chosen)
    BY <1>4, <1>5
  <2> QED
    BY <1>8, <2>1, <2>2, IssueFits
<1>12. PICK news : news = AllLanes' /\ LanesInv(news)
  BY DEF OrderInv
<1>13. ASSUME NEW l \in Lanes
       PROVE  l \in LsuLanes => OneAnswer(AllLanes[l])
  BY LaneNumbers DEF AnswersDoNotCross, AllLanes
<1>14. \A l \in Lanes :
         Retained(lanes[l], news[l], l \in LsuLanes, issue[l], TRUE /\ lanes[l].resultq # <<>>)
  <2>1. LanesInv(AllLanes) /\ TRUE \in BOOLEAN
    BY <1>1, <1>5
  <2> QED
    BY <1>1, <1>5, <1>10, <1>12, <1>13, <2>1, LanesMove
<1>15. AllRetained(lanes, news, issue, TRUE)
  BY <1>11, <1>14 DEF AllRetained
<1>16. T \cup IssuedTickets(issue) \subseteq Held(news, 0)
  <2>1. n = (IF TRUE THEN ALU_LANES + LSU_LANES ELSE 0) /\ TRUE \in BOOLEAN
    BY <1>1
  <2>2. Held(lanes, n) \cup IssuedTickets(issue) \subseteq Held(news, 0)
    BY <1>5, <1>12, <1>15, <2>1, LanesLoseNothing
  <2> QED
    BY <1>1, <2>2
<1>17. PICK U : U = T \cup { Ticket(next.iq[i]) : i \in { chosen[l] : l \in Lanes } \ {0} }
  OBVIOUS
<1>18. Covered(Issued(next, chosen), U)
  BY <1>7, <1>8, <1>17, CoveredIssue
<1>19. U \subseteq Held(news, 0)
  <2>1. { Ticket(next.iq[i]) : i \in { chosen[l] : l \in Lanes } \ {0} } \subseteq IssuedTickets(issue)
    BY <1>4, ChosenAreIssued
  <2> QED
    BY <1>16, <1>17, <2>1
<1>20. Covered(core', Held(news, 0))
  BY <1>9, <1>18, <1>19, CoveredMore
<1> QED
  BY <1>12, <1>20 DEF PlacesInv

\* Nor does a cycle after the HALT.
LEMMA PlacesInvNext == PlacesInv /\ AnswersDoNotCross /\ [Next]_vars => PlacesInv'
<1> SUFFICES ASSUME PlacesInv, AnswersDoNotCross, [Next]_vars
             PROVE  PlacesInv'
  OBVIOUS
<1>1. OrderInv'
  BY OrderInvNext DEF PlacesInv
<1>2. ASSUME NEW m, Cycle(m)
      PROVE  PlacesInv'
  BY <1>1, <1>2, PlacesInvCycle
<1>3. CASE Offering
  <2>1. \E m : Cycle(m)
    BY <1>3 DEF Offering
  <2> QED
    BY <1>2, <2>1
<1>4. CASE HaltedCycle
  <2>1. PICK lanes, news, issue : /\ lanes = AllLanes /\ news = AllLanes'
                                  /\ issue = [l \in AluLanes \cup LsuLanes |-> <<>>]
    OBVIOUS
  <2>2. LanesTick(issue, FALSE) /\ core' = core
    BY <1>4, <2>1 DEF HaltedCycle
  <2>3. /\ LanesInv(lanes) /\ Covered(core, Held(lanes, 0))
        /\ DOMAIN alu = AluLanes /\ DOMAIN lsu = LsuLanes
    BY <2>1 DEF PlacesInv, OrderInv
  <2>4. LanesInv(news)
    BY <1>1, <2>1 DEF OrderInv
  <2>5. ASSUME NEW l \in Lanes
        PROVE  l \in LsuLanes => OneAnswer(AllLanes[l])
    BY LaneNumbers DEF AnswersDoNotCross, AllLanes
  <2>6. \A l \in Lanes :
          Retained(lanes[l], news[l], l \in LsuLanes, issue[l], FALSE /\ lanes[l].resultq # <<>>)
    <3>1. LanesInv(AllLanes) /\ FALSE \in BOOLEAN
      BY <2>1, <2>3
    <3> QED
      BY <2>1, <2>2, <2>3, <2>5, <3>1, LanesMove
  <2>7. \A l \in Lanes : issue[l] = <<>>
    BY <2>1 DEF Lanes
  <2>8. AllRetained(lanes, news, issue, FALSE)
    BY <2>6, <2>7 DEF AllRetained, Issue
  <2>9. Held(lanes, 0) \cup IssuedTickets(issue) \subseteq Held(news, 0)
    <3>1. 0 = (IF FALSE THEN ALU_LANES + LSU_LANES ELSE 0) /\ FALSE \in BOOLEAN
      OBVIOUS
    <3> QED
      BY <2>3, <2>4, <2>8, <3>1, LanesLoseNothing
  <2>10. Covered(core', Held(news, 0))
    BY <2>2, <2>3, <2>9, CoveredMore
  <2> QED
    BY <1>1, <2>1, <2>10 DEF PlacesInv
<1>5. CASE UNCHANGED vars
  <2>1. AllLanes' = AllLanes /\ core' = core
    BY <1>5 DEF vars, AllLanes
  <2> QED
    BY <1>1, <2>1 DEF PlacesInv
<1> QED
  BY <1>3, <1>4, <1>5 DEF Next

\* What a lane holds is worked on, or is a result.
LEMMA HeldIsSomewhere ==
  ASSUME OrderInv, NEW l \in Lanes, NEW k \in Kinds, NEW i \in Nat, NEW x,
         Has(AllLanes[l], k, i), x = Item(AllLanes[l], k, i)
  PROVE  x \in Working \cup Results
<1>1. PICK lane : lane = AllLanes[l] /\ LaneOk(lane, l \in LsuLanes)
  BY DEF OrderInv, LanesInv
<1>2. CASE k = "out"
  <2>1. PICK q : q = lane.resultq /\ IsASeq(q) /\ i \in 1 .. Len(q) /\ x = q[i]
    BY <1>1, <1>2 DEF Has, Item, LaneOk
  <2>2. i \in DOMAIN q
    BY <2>1 DEF IsASeq
  <2>3. x \in Range(q)
    BY <2>1, <2>2 DEF Range
  <2>4. q \in { alu[a].resultq : a \in AluLanes } \cup { lsu[a].resultq : a \in LsuLanes }
    BY <1>1, <2>1 DEF AllLanes, Lanes
  <2> QED
    BY <2>3, <2>4 DEF Results
<1>3. CASE k # "out"
  <2> DEFINE H == { lane.issueq[j] : j \in DOMAIN lane.issueq }
                    \cup { lane.slots[s].req : s \in { t \in DOMAIN lane.slots : lane.slots[t].valid } }
  <2>1. x \in H
    <3>1. CASE k = "in"
      <4>1. PICK q : q = lane.issueq /\ IsASeq(q) /\ i \in 1 .. Len(q) /\ x = q[i]
        BY <1>1, <3>1 DEF Has, Item, LaneOk
      <4>2. i \in DOMAIN q
        BY <4>1 DEF IsASeq
      <4> QED
        BY <4>1, <4>2
    <3>2. CASE k = "slot"
      <4>1. i \in DOMAIN lane.slots /\ lane.slots[i].valid /\ x = lane.slots[i].req
        BY <1>1, <3>2 DEF Has, Item, LaneOk
      <4> QED
        BY <4>1
    <3> QED
      BY <1>3, <3>1, <3>2 DEF Kinds
  <2>2. CASE l \in AluLanes
    <3>1. lane = alu[l]
      BY <1>1, <2>2 DEF AllLanes
    <3>2. H = Alu!Holds(alu[l])
      BY <3>1 DEF Alu!Holds
    <3> QED
      BY <2>1, <2>2, <3>2 DEF Working
  <2>3. CASE l \notin AluLanes
    <3>1. lane = lsu[l] /\ l \in LsuLanes
      BY <1>1, <2>3 DEF AllLanes, Lanes
    <3>2. H = Lsu!Holds(lsu[l])
      BY <3>1 DEF Lsu!Holds
    <3> QED
      BY <2>1, <3>1, <3>2 DEF Working
  <2> QED
    BY <2>2, <2>3
<1> QED
  BY <1>2, <1>3

\* An instruction of the ring is in a slot of the reorder buffer.
LEMMA InFlightIsInSlot ==
  ASSUME BackendInv, NEW e \in Range(InFlight)
  PROVE  \E w \in Slots : e = core.rob[w] /\ core.rob[w].valid
<1>1. RingInv(core)
  BY DEF BackendInv, CoreInv
<1>2. PICK R : R = ROB_SIZE /\ R \in Nat \ {0}
  BY SizesAssumption
<1>3. PICK h, n : h = core.head /\ n = core.count /\ h \in Slots /\ n \in 0 .. R
  BY <1>1, <1>2 DEF RingInv
<1>4. DOMAIN InFlight = 1 .. n /\ \A i \in 1 .. n : InFlight[i] = core.rob[(h + i - 1) % ROB_SIZE]
  BY <1>3 DEF InFlight
<1>5. PICK i \in 1 .. n : e = InFlight[i]
  BY <1>4 DEF Range
<1>6. CountersAgree
  BY InvImpliesCountersAgree
<1>7. e.valid
  BY <1>3, <1>5, <1>6 DEF CountersAgree
<1>8. i - 1 \in 0 .. R /\ h + i - 1 = h + (i - 1)
  BY <1>2, <1>3, <1>5 DEF Slots
<1>9. (h + i - 1) % ROB_SIZE \in Slots
  BY <1>2, <1>3, <1>8, Wrap
<1> QED
  BY <1>4, <1>5, <1>7, <1>9

\* What is not ready is finite.
LEMMA UnreadyIsFinite ==
  ASSUME BackendInv
  PROVE  IsFiniteSet(Unready)
<1>1. PICK n : n = core.count /\ n \in Nat
  BY SizesAssumption DEF BackendInv, CoreInv, RingInv
<1>2. InFlight \in Surjection(1 .. n, Range(InFlight))
  BY <1>1 DEF InFlight, Range, Surjection
<1>3. IsFiniteSet(1 .. n)
  BY <1>1, FS_Interval
<1>4. IsFiniteSet(Range(InFlight))
  BY <1>2, <1>3, FS_Surjection
<1> QED
  BY <1>4, FS_Subset DEF Unready

\* What is filed, apart and covers the ring is as many as there are to cover.
LEMMA InvImpliesEntriesInOnePlace == PlacesInv => EntriesInOnePlace
<1> SUFFICES ASSUME PlacesInv
             PROVE  EntriesInOnePlace
  OBVIOUS
<1>1. OrderInv /\ BackendInv /\ CountersAgree /\ FiledOnce
  BY InvImpliesCountersAgree, InvImpliesFiledOnce DEF PlacesInv, OrderInv
<1>2. PICK W, L, Q, U : W = Waiting /\ L = Working /\ Q = Results /\ U = Unready
  OBVIOUS
<1>3. DOMAIN Places = {1, 2, 3} /\ Places[1] = W /\ Places[2] = L /\ Places[3] = Q
  BY <1>2 DEF Places
<1>4. PICK A : A = (W \cup L) \cup Q
  OBVIOUS
<1>5. ASSUME NEW x \in A
      PROVE  core.rob[x.rob] \in U /\ core.rob[x.rob].seq = x.seq
  <2>1. PICK k \in DOMAIN Places : x \in Places[k]
    BY <1>3, <1>4
  <2> QED
    BY <1>1, <1>2, <2>1 DEF FiledOnce
<1>6. ASSUME NEW x \in A, NEW y \in A, x.seq = y.seq
      PROVE  x = y
  <2>1. PICK j \in DOMAIN Places : x \in Places[j]
    BY <1>3, <1>4
  <2>2. PICK k \in DOMAIN Places : y \in Places[k]
    BY <1>3, <1>4
  <2> QED
    BY <1>1, <1>6, <2>1, <2>2 DEF FiledOnce
<1>7. W \cap L = {} /\ (W \cup L) \cap Q = {}
  <2>1. \A j, k \in {1, 2, 3} : \A x : x \in Places[j] /\ x \in Places[k] => j = k
    BY <1>1, <1>3 DEF FiledOnce
  <2>2. \A x : ~ (x \in Places[1] /\ x \in Places[2])
    BY <2>1
  <2>3. \A x : ~ (x \in Places[1] /\ x \in Places[3])
    BY <2>1
  <2>4. \A x : ~ (x \in Places[2] /\ x \in Places[3])
    BY <2>1
  <2> QED
    BY <1>3, <2>2, <2>3, <2>4
<1>8. ASSUME NEW e \in U
      PROVE  \E x \in A : core.rob[x.rob] = e
  <2>1. e \in Range(InFlight) /\ ~ e.ready
    BY <1>2 DEF Unready
  <2>2. PICK w \in Slots : e = core.rob[w] /\ core.rob[w].valid
    BY <1>1, <2>1, InFlightIsInSlot
  <2>3. CASE \E i \in Queued(core) : core.iq[i].rob = w
    <3>1. PICK i \in Queued(core) : core.iq[i].rob = w
      BY <2>3
    <3>2. core.iq[i] \in Waiting
      BY DEF Waiting, Queued
    <3> QED
      BY <1>2, <1>4, <2>2, <3>1, <3>2
  <2>4. CASE \E t \in Held(AllLanes, 0) : t.rob = w
    <3>1. PICK t \in Held(AllLanes, 0) : t.rob = w
      BY <2>4
    <3>2. PICK l \in Lanes, k \in Kinds, i \in Nat :
            Has(AllLanes[l], k, i) /\ t = Ticket(Item(AllLanes[l], k, i))
      BY DEF Held
    <3>3. PICK x : x = Item(AllLanes[l], k, i)
      OBVIOUS
    <3>4. x \in Working \cup Results
      BY <1>1, <3>2, <3>3, HeldIsSomewhere
    <3>5. x.rob = w
      BY <3>1, <3>2, <3>3 DEF Ticket
    <3> QED
      BY <1>2, <1>4, <2>2, <3>4, <3>5
  <2> QED
    BY <2>1, <2>2, <2>3, <2>4 DEF PlacesInv, Covered
<1> DEFINE f == [x \in A |-> core.rob[x.rob]]
<1>9. f \in [A -> U]
  BY <1>5
<1>10. f \in Injection(A, U)
  <2>1. ASSUME NEW x \in A, NEW y \in A, f[x] = f[y]
        PROVE  x = y
    <3>1. x.seq = y.seq
      BY <1>5, <2>1
    <3> QED
      BY <1>6, <3>1
  <2> HIDE DEF f
  <2> QED
    BY <1>9, <2>1 DEF Injection, IsInjective
<1>11. f \in Surjection(A, U)
  <2>1. \A e \in U : \E x \in A : f[x] = e
    BY <1>8
  <2> HIDE DEF f
  <2> QED
    BY <1>9, <2>1 DEF Surjection
<1> HIDE DEF f
<1>12. IsFiniteSet(A) /\ Cardinality(A) = Cardinality(U)
  <2>1. IsFiniteSet(U)
    BY <1>1, <1>2, UnreadyIsFinite
  <2> QED
    BY <1>10, <1>11, <2>1, FS_Injection
<1>13. IsFiniteSet(W) /\ IsFiniteSet(L) /\ IsFiniteSet(Q) /\ IsFiniteSet(W \cup L)
  BY <1>4, <1>12, FS_Subset
<1>14. Cardinality(W \cup L) = Cardinality(W) + Cardinality(L)
  <2>1. Cardinality(W \cup L) = Cardinality(W) + Cardinality(L) - Cardinality({})
    BY <1>7, <1>13, FS_Union
  <2>2. Cardinality({}) = 0 /\ Cardinality(W) \in Nat /\ Cardinality(L) \in Nat
    BY <1>13, FS_EmptySet, FS_CardinalityType
  <2> QED
    BY <2>1, <2>2
<1>15. Cardinality(A) = Cardinality(W \cup L) + Cardinality(Q)
  <2>1. Cardinality((W \cup L) \cup Q) = Cardinality(W \cup L) + Cardinality(Q) - Cardinality({})
    BY <1>7, <1>13, FS_Union
  <2>2. Cardinality({}) = 0 /\ Cardinality(W \cup L) \in Nat /\ Cardinality(Q) \in Nat
    BY <1>13, FS_EmptySet, FS_CardinalityType
  <2> QED
    BY <1>4, <2>1, <2>2
<1>16. Cardinality(W) + Cardinality(L) + Cardinality(Q) = Cardinality(U)
  BY <1>12, <1>14, <1>15
<1> QED
  BY <1>1, <1>2, <1>16 DEF EntriesInOnePlace

\* If no slot of a memory lane sends between two that poll, each instruction
\* of the ring that is not ready is in exactly one place, the issue queue, a
\* lane or a result queue: none is lost and none is there twice
\* (BackendCore.hpp:296-301, 500-548, ALUPipeline.hpp, LSUPipeline.hpp).
THEOREM NothingIsLost == Spec /\ []AnswersDoNotCross => []EntriesInOnePlace
<1>1. Init => PlacesInv
  BY PlacesInvInit
<1>2. PlacesInv /\ AnswersDoNotCross /\ [Next]_vars => PlacesInv'
  BY PlacesInvNext
<1>3. PlacesInv => EntriesInOnePlace
  BY InvImpliesEntriesInOnePlace
<1> QED
  BY <1>1, <1>2, <1>3, PTL DEF Spec
=============================================================================
