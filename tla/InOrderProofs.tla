---------------------------- MODULE InOrderProofs ----------------------------
(***************************************************************************)
(* Proofs that the backend executes its program in order, as far as its    *)
(* architectural state tells, for any widths, depths, latencies and        *)
(* numbers of registers, tags and lanes.  FetchInv is about which          *)
(* instruction of the program is where, ValuesInv about what the tags, the *)
(* operands, the lanes and the memory hold.                                *)
(***************************************************************************)
EXTENDS BackendProofs

-----------------------------------------------------------------------------
(* The in-order machine.                                                   *)

\* What the in-order machine goes through.
LEMMA RanRun ==
  ASSUME NEW m, NEW p, NEW from, NEW n \in Nat
  PROVE  \E run :
           /\ run[0] = m /\ Toy!Ran(m, p, from, n) = run[n]
           /\ \A i \in 1 .. n : run[i] = Toy!Apply(run[i - 1], p[from + i])
<1> DEFINE Is(f) == f = [i \in 0 .. n |-> IF i = 0 THEN m ELSE Toy!Apply(f[i - 1], p[from + i])]
           run == CHOOSE f : Is(f)
<1>2. Toy!Ran(m, p, from, n) = run[n]
  BY DEF Toy!Ran
<1>3. PICK kind, init : kind = [loop |-> "inorder", code |-> p, from |-> from] /\ init = m
  OBVIOUS
<1>4. HasRun(kind, init, n)
  BY LoopRuns
<1>5. PICK V : \E f \in [0 .. n -> V] : f[0] = init /\ \A i \in 1 .. n : f[i] = Step(kind, f[i - 1], i)
  BY <1>4 DEF HasRun
<1>6. PICK f \in [0 .. n -> V] : f[0] = init /\ \A i \in 1 .. n : f[i] = Step(kind, f[i - 1], i)
  BY <1>5
<1>7. \A x, i : Step(kind, x, i) = Toy!Apply(x, p[from + i])
  BY <1>3 DEF Step
<1>8. Is(f)
  BY <1>3, <1>6, <1>7
<1> HIDE DEF Is
<1>9. Is(run)
  BY <1>8
<1> HIDE DEF run
<1>10. run[0] = m /\ \A i \in 1 .. n : run[i] = Toy!Apply(run[i - 1], p[from + i])
  BY <1>9 DEF Is
<1> QED
  BY <1>2, <1>10

\* There is only one way that it can run.
LEMMA RanIs ==
  ASSUME NEW m, NEW p, NEW from, NEW n \in Nat, NEW f, f[0] = m,
         \A i \in 1 .. n : f[i] = Toy!Apply(f[i - 1], p[from + i])
  PROVE  f[n] = Toy!Ran(m, p, from, n)
<1>1. PICK g : /\ g[0] = m /\ Toy!Ran(m, p, from, n) = g[n]
               /\ \A i \in 1 .. n : g[i] = Toy!Apply(g[i - 1], p[from + i])
  BY RanRun
<1> DEFINE Good == { i \in 0 .. n : f[i] = g[i] }
<1>2. 0 \in Good /\ \A i \in 1 .. n : i - 1 \in Good => i \in Good
  BY <1>1
<1>3. Good \in SUBSET (0 .. n)
  OBVIOUS
<1> HIDE DEF Good
<1>4. Good = 0 .. n
  BY <1>2, <1>3, PassedOn
<1>5. n \in Good
  BY <1>4
<1> QED
  BY <1>1, <1>5 DEF Good

\* The machine after n instructions of p, the value its register r has then,
\* the n-th instruction with its operands, what it computes, where it goes.
Ref(p, n)      == InOrderAfter(p, n)
RegAt(p, n, r) == IF r = 0 THEN 0 ELSE Ref(p, n).regs[r]
Req(p, n)      == Toy!Read(Ref(p, n - 1).regs, p[n])
Val(p, n)      == Toy!Value(Ref(p, n - 1).mem, Req(p, n))
Addr(p, n)     == Toy!Address(Req(p, n))

\* It starts with the registers at zero, and goes from one instruction to the next.
LEMMA RefStep ==
  ASSUME NEW p, NEW n \in Nat
  PROVE  Ref(p, 0) = Boot /\ Ref(p, n + 1) = Toy!Apply(Ref(p, n), p[n + 1])
<1>1. Ref(p, 0) = Boot
  <2>1. PICK f : f[0] = Boot /\ Toy!Ran(Boot, p, 0, 0) = f[0]
    <3>1. 0 \in Nat
      OBVIOUS
    <3> QED
      BY <3>1, RanRun
  <2> QED
    BY <2>1 DEF Ref, InOrderAfter
<1>2. PICK f : /\ f[0] = Boot /\ Toy!Ran(Boot, p, 0, n + 1) = f[n + 1]
               /\ \A i \in 1 .. n + 1 : f[i] = Toy!Apply(f[i - 1], p[0 + i])
  <2>1. n + 1 \in Nat
    OBVIOUS
  <2> QED
    BY <2>1, RanRun
<1>3. f[n] = Toy!Ran(Boot, p, 0, n)
  <2>1. \A i \in 1 .. n : f[i] = Toy!Apply(f[i - 1], p[0 + i])
    BY <1>2
  <2> QED
    BY <1>2, <2>1, RanIs
<1>4. f[n + 1] = Toy!Apply(f[n], p[n + 1])
  <2>1. n + 1 \in 1 .. n + 1 /\ (n + 1) - 1 = n /\ 0 + (n + 1) = n + 1
    OBVIOUS
  <2> QED
    BY <1>2, <2>1
<1> QED
  BY <1>1, <1>2, <1>3, <1>4 DEF Ref, InOrderAfter

\* From where it is after k instructions, n more bring it where it is after k + n.
LEMMA RefRan ==
  ASSUME NEW p, NEW k \in Nat, NEW n \in Nat
  PROVE  Toy!Ran(Ref(p, k), p, k, n) = Ref(p, k + n)
<1> DEFINE f == [i \in 0 .. n |-> Ref(p, k + i)]
<1>1. f[0] = Ref(p, k) /\ f[n] = Ref(p, k + n)
  OBVIOUS
<1>2. ASSUME NEW i \in 1 .. n
      PROVE  f[i] = Toy!Apply(f[i - 1], p[k + i])
  <2>1. PICK j : j = k + (i - 1) /\ j \in Nat /\ j + 1 = k + i
    OBVIOUS
  <2>2. f[i] = Ref(p, j + 1) /\ f[i - 1] = Ref(p, j)
    BY <2>1
  <2> QED
    BY <2>1, <2>2, RefStep
<1> HIDE DEF f
<1> QED
  BY <1>1, <1>2, RanIs

\* The n-th instruction with its operands.
LEMMA ReqFacts ==
  ASSUME NEW p \in Seq(Instr), NEW n \in 1 .. Len(p)
  PROVE  /\ p[n] \in Instr /\ Req(p, n).op = p[n].op /\ Req(p, n).imm = p[n].imm /\ Req(p, n).rd = p[n].rd
         /\ Req(p, n).src1 = RegAt(p, n - 1, p[n].src1)
         /\ Req(p, n).src2 = RegAt(p, n - 1, p[n].src2)
<1>1. PICK e, regs : e = p[n] /\ regs = Ref(p, n - 1).regs
  OBVIOUS
<1>2. e \in Instr
  BY <1>1
<1>3. PICK x : x = [e EXCEPT !.src1 = IF e.src1 = 0 THEN 0 ELSE regs[e.src1],
                            !.src2 = IF e.src2 = 0 THEN 0 ELSE regs[e.src2]]
  OBVIOUS
<1>4. x = Req(p, n)
  BY <1>1, <1>3 DEF Req, Toy!Read
<1>5. DOMAIN e = {"op", "rd", "src1", "src2", "imm"}
  BY <1>2 DEF Instr
<1>6. /\ x.op = e.op /\ x.imm = e.imm /\ x.rd = e.rd
      /\ x.src1 = IF e.src1 = 0 THEN 0 ELSE regs[e.src1]
      /\ x.src2 = IF e.src2 = 0 THEN 0 ELSE regs[e.src2]
  BY <1>3, <1>5
<1> QED
  BY <1>1, <1>2, <1>4, <1>6 DEF RegAt

\* What the machine has at the start, and what an instruction changes.
LEMMA RefBoot ==
  ASSUME NEW p
  PROVE  /\ Ref(p, 0).regs = [r \in Regs |-> 0] /\ Ref(p, 0).mem = InitMem /\ Ref(p, 0).halted = FALSE
<1>1. Ref(p, 0) = Boot
  <2>1. 0 \in Nat
    OBVIOUS
  <2> QED
    BY <2>1, RefStep
<1>2. Boot = [regs |-> [r \in Regs |-> 0], mem |-> InitMem, halted |-> FALSE]
  BY DEF Boot, Regs
<1> HIDE DEF Ref
<1> QED
  BY <1>1, <1>2

LEMMA RefNext ==
  ASSUME NEW p \in Seq(Instr), NEW n \in 1 .. Len(p)
  PROVE  /\ Ref(p, n).regs = IF Toy!WritesDest(p[n]) THEN [Ref(p, n - 1).regs EXCEPT ![p[n].rd] = Val(p, n)]
                             ELSE Ref(p, n - 1).regs
         /\ Ref(p, n).mem = IF p[n].op = "STORE" THEN [Ref(p, n - 1).mem EXCEPT ![Addr(p, n)] = Req(p, n).src2]
                            ELSE Ref(p, n - 1).mem
         /\ Ref(p, n).halted = (Ref(p, n - 1).halted \/ p[n].op = "HALT")
<1>1. PICK k, m, inst : k = n - 1 /\ m = Ref(p, k) /\ inst = p[n]
  OBVIOUS
<1>2. k \in Nat /\ k + 1 = n
  BY <1>1
<1>3. Ref(p, n) = Toy!Apply(m, inst)
  BY <1>1, <1>2, RefStep
<1>4. PICK req, x : req = Toy!Read(m.regs, inst) /\ x = Toy!Value(m.mem, req)
  OBVIOUS
<1>5. req = Req(p, n) /\ x = Val(p, n) /\ Toy!Address(req) = Addr(p, n)
  BY <1>1, <1>4 DEF Req, Val, Addr
<1>6. Toy!Apply(m, inst) =
        [regs   |-> IF Toy!WritesDest(inst) THEN [m.regs EXCEPT ![inst.rd] = x] ELSE m.regs,
         mem    |-> IF inst.op = "STORE" THEN [m.mem EXCEPT ![Toy!Address(req)] = req.src2] ELSE m.mem,
         halted |-> m.halted \/ inst.op = "HALT"]
  BY <1>4 DEF Toy!Apply
<1> QED
  BY <1>1, <1>3, <1>5, <1>6

\* Something that holds at the start and that no instruction breaks.
LEMMA RefShape ==
  ASSUME NEW p \in Seq(Instr), NEW n \in 0 .. Len(p)
  PROVE  /\ Ref(p, n).regs = [r \in Regs |-> Ref(p, n).regs[r]]
         /\ Ref(p, n).mem = [a \in DOMAIN InitMem |-> Ref(p, n).mem[a]]
         /\ Ref(p, n).halted \in BOOLEAN
<1> DEFINE Is(k) == /\ Ref(p, k).regs = [r \in Regs |-> Ref(p, k).regs[r]]
                    /\ Ref(p, k).mem = [a \in DOMAIN InitMem |-> Ref(p, k).mem[a]]
                    /\ Ref(p, k).halted \in BOOLEAN
           Good == { k \in 0 .. n : Is(k) }
<1>1. Is(0)
  <2>1. InitMem = [a \in DOMAIN InitMem |-> InitMem[a]]
    BY MemoryAssumption
  <2> QED
    BY <2>1, RefBoot
<1>2. ASSUME NEW k \in 1 .. n, Is(k - 1)
      PROVE  Is(k)
  <2>1. k \in 1 .. Len(p)
    OBVIOUS
  <2>2. PICK f, g, f2, g2 : f = Ref(p, k - 1).regs /\ g = Ref(p, k - 1).mem /\ f2 = Ref(p, k).regs /\ g2 = Ref(p, k).mem
    OBVIOUS
  <2>3. f = [r \in Regs |-> f[r]] /\ g = [a \in DOMAIN InitMem |-> g[a]]
    BY <1>2, <2>2
  <2>4. PICK r, x, a, y : r = p[k].rd /\ x = Val(p, k) /\ a = Addr(p, k) /\ y = Req(p, k).src2
    OBVIOUS
  <2>8. f2 = f \/ f2 = [f EXCEPT ![r] = x]
    BY <2>1, <2>2, <2>4, RefNext
  <2>9. g2 = g \/ g2 = [g EXCEPT ![a] = y]
    BY <2>1, <2>2, <2>4, RefNext
  <2>5. f2 = [q \in Regs |-> f2[q]]
    BY <2>3, <2>8
  <2>6. g2 = [b \in DOMAIN InitMem |-> g2[b]]
    BY <2>3, <2>9
  <2>7. Ref(p, k).halted \in BOOLEAN
    BY <1>2, <2>1, RefNext
  <2> QED
    BY <2>2, <2>5, <2>6, <2>7
<1> HIDE DEF Is
<1>3. 0 \in Good /\ \A k \in 1 .. n : k - 1 \in Good => k \in Good
  BY <1>1, <1>2
<1>4. Good \in SUBSET (0 .. n)
  OBVIOUS
<1> HIDE DEF Good
<1>5. Good = 0 .. n
  BY <1>3, <1>4, PassedOn
<1>6. Is(n)
  BY <1>5 DEF Good
<1> QED
  BY <1>6 DEF Is

\* A register and an address after an instruction.
LEMMA RegNext ==
  ASSUME NEW p \in Seq(Instr), NEW n \in 1 .. Len(p), NEW r \in 0 .. ARCH_REGS - 1
  PROVE  RegAt(p, n, r) = IF Toy!WritesDest(p[n]) /\ p[n].rd = r THEN Val(p, n) ELSE RegAt(p, n - 1, r)
<1>0. ARCH_REGS \in Nat
  BY SizesAssumption
<1>1. CASE r = 0
  BY <1>1 DEF RegAt, Toy!WritesDest
<1>2. CASE r # 0
  <2>1. r \in Regs /\ n - 1 \in 0 .. Len(p)
    BY <1>0, <1>2 DEF Regs
  <2>2. PICK f, x : f = Ref(p, n - 1).regs /\ x = Val(p, n)
    OBVIOUS
  <2>3. f = [q \in Regs |-> f[q]]
    BY <2>1, <2>2, RefShape
  <2>4. Ref(p, n).regs = IF Toy!WritesDest(p[n]) THEN [f EXCEPT ![p[n].rd] = x] ELSE f
    BY <2>2, RefNext
  <2>5. Ref(p, n).regs[r] = IF Toy!WritesDest(p[n]) /\ p[n].rd = r THEN x ELSE f[r]
    BY <2>1, <2>3, <2>4
  <2> QED
    BY <1>2, <2>2, <2>5 DEF RegAt
<1> QED
  BY <1>1, <1>2

LEMMA MemNext ==
  ASSUME NEW p \in Seq(Instr), NEW n \in 1 .. Len(p), NEW a \in DOMAIN InitMem
  PROVE  Ref(p, n).mem[a] = IF p[n].op = "STORE" /\ Addr(p, n) = a THEN Req(p, n).src2 ELSE Ref(p, n - 1).mem[a]
<1>1. n - 1 \in 0 .. Len(p)
  OBVIOUS
<1>2. PICK f, x : f = Ref(p, n - 1).mem /\ x = Req(p, n).src2
  OBVIOUS
<1>3. f = [b \in DOMAIN InitMem |-> f[b]]
  BY <1>1, <1>2, RefShape
<1>4. Ref(p, n).mem = IF p[n].op = "STORE" THEN [f EXCEPT ![Addr(p, n)] = x] ELSE f
  BY <1>2, RefNext
<1> QED
  BY <1>2, <1>3, <1>4

\* A register that no instruction in between writes keeps its value.
LEMMA RegKept ==
  ASSUME NEW p \in Seq(Instr), NEW r \in 0 .. ARCH_REGS - 1,
         NEW a \in 0 .. Len(p), NEW b \in a .. Len(p),
         \A j \in a + 1 .. b : ~ (Toy!WritesDest(p[j]) /\ p[j].rd = r)
  PROVE  RegAt(p, b, r) = RegAt(p, a, r)
<1> DEFINE n == b - a
           Good == { i \in 0 .. n : RegAt(p, a + i, r) = RegAt(p, a, r) }
<1>1. n \in Nat
  OBVIOUS
<1>2. 0 \in Good
  BY <1>1
<1>3. ASSUME NEW i \in 1 .. n, i - 1 \in Good
      PROVE  i \in Good
  <2>1. PICK j : j = a + i /\ j \in 1 .. Len(p) /\ j \in a + 1 .. b /\ j - 1 = a + (i - 1)
    OBVIOUS
  <2>2. RegAt(p, j, r) = RegAt(p, j - 1, r)
    BY <2>1, RegNext
  <2> QED
    BY <1>3, <2>1, <2>2
<1>4. Good \in SUBSET (0 .. n)
  OBVIOUS
<1>5. a + n = b
  OBVIOUS
<1> HIDE DEF Good, n
<1>6. Good = 0 .. n
  BY <1>1, <1>2, <1>3, <1>4, PassedOn
<1>7. n \in Good
  BY <1>1, <1>6
<1> QED
  BY <1>5, <1>7 DEF Good

\* And so does an address that none of them stores to.
LEMMA MemKept ==
  ASSUME NEW p \in Seq(Instr), NEW x \in DOMAIN InitMem,
         NEW a \in 0 .. Len(p), NEW b \in a .. Len(p),
         \A j \in a + 1 .. b : ~ (p[j].op = "STORE" /\ Addr(p, j) = x)
  PROVE  Ref(p, b).mem[x] = Ref(p, a).mem[x]
<1> DEFINE n == b - a
           Good == { i \in 0 .. n : Ref(p, a + i).mem[x] = Ref(p, a).mem[x] }
<1>1. n \in Nat
  OBVIOUS
<1>2. 0 \in Good
  BY <1>1
<1>3. ASSUME NEW i \in 1 .. n, i - 1 \in Good
      PROVE  i \in Good
  <2>1. PICK j : j = a + i /\ j \in 1 .. Len(p) /\ j \in a + 1 .. b /\ j - 1 = a + (i - 1)
    OBVIOUS
  <2>2. Ref(p, j).mem[x] = Ref(p, j - 1).mem[x]
    BY <2>1, MemNext
  <2> QED
    BY <1>3, <2>1, <2>2
<1>4. Good \in SUBSET (0 .. n)
  OBVIOUS
<1>5. a + n = b
  OBVIOUS
<1> HIDE DEF Good, n
<1>6. Good = 0 .. n
  BY <1>1, <1>2, <1>3, <1>4, PassedOn
<1>7. n \in Good
  BY <1>1, <1>6
<1> QED
  BY <1>5, <1>7 DEF Good

-----------------------------------------------------------------------------
(* The instructions come in program order.                                 *)

\* The ring holds the instructions of p that follow the first n.
RingIs(p, n, ring) == \A i \in 1 .. Len(ring) : ring[i] = p[n + i]

\* The ports hold those from at + 1 to last; f counts them, port by port.
PortsCount(p, at, ports, last, f) ==
  /\ f[0] = at /\ f[INGRESS_WIDTH] = last
  /\ \A q \in 0 .. INGRESS_WIDTH : f[q] \in at .. last
  /\ \A q \in Ports : \/ ports[q] = <<>> /\ f[q] = f[q - 1]
                      \/ ports[q] = << p[f[q]] >> /\ f[q] = f[q - 1] + 1

PortsAre(p, at, ports, last) ==
  \E f \in [0 .. INGRESS_WIDTH -> Nat] : PortsCount(p, at, ports, last, f)

\* What draining the ports up to k has done; port q was empty if asked(q).
DrainInv(p, n, last, ports0, a, k) ==
  /\ DOMAIN a = {"ring", "ports"}
  /\ a.ring \in Seq(Instr) /\ a.ports \in [Ports -> Seq(Instr)]
  /\ RingIs(p, n, a.ring) /\ PortsAre(p, n + Len(a.ring), a.ports, last)
  /\ \A q \in Ports : ports0[q] = <<>> => a.ports[q] = <<>>
  /\ INGRESS_WIDTH = 1 \/ \A q \in Ports : q <= k => a.ports[q] = <<>>

\* A port that is drained adds its instruction to the ring.
LEMMA DrainStep ==
  ASSUME NEW p \in Seq(Instr), NEW n \in Nat, NEW last \in Nat, NEW ports0, NEW a, NEW k \in Ports,
         DrainInv(p, n, last, ports0, a, k - 1), last <= Len(p),
         INGRESS_WIDTH = 1 \/ Len(p) <= FRONTEND_QUEUE_DEPTH
  PROVE  DrainInv(p, n, last, ports0, DrainPort(a, k), k)
<1>0. INGRESS_WIDTH \in Nat /\ INGRESS_WIDTH >= 1 /\ FRONTEND_QUEUE_DEPTH \in Nat /\ k \in 1 .. INGRESS_WIDTH
  <2>1. INGRESS_WIDTH \in Nat \ {0} /\ FRONTEND_QUEUE_DEPTH \in Nat \ {0}
    BY SizesAssumption
  <2> QED
    BY <2>1 DEF Ports
<1>1. PICK ring, ports, len : ring = a.ring /\ ports = a.ports /\ len = Len(ring)
  OBVIOUS
<1>2. /\ DOMAIN a = {"ring", "ports"} /\ ring \in Seq(Instr) /\ ports \in [Ports -> Seq(Instr)] /\ len \in Nat
      /\ RingIs(p, n, ring) /\ PortsAre(p, n + len, ports, last)
      /\ \A q \in Ports : ports0[q] = <<>> => ports[q] = <<>>
      /\ INGRESS_WIDTH = 1 \/ \A q \in Ports : q < k => ports[q] = <<>>
  BY <1>0, <1>1 DEF DrainInv, Ports
<1>3. PICK f \in [0 .. INGRESS_WIDTH -> Nat] : PortsCount(p, n + len, ports, last, f)
  BY <1>2 DEF PortsAre
<1>4. CASE ports[k] = <<>>
  <2>1. DrainPort(a, k) = a
    BY <1>1, <1>4 DEF DrainPort
  <2>2. INGRESS_WIDTH = 1 \/ \A q \in Ports : q <= k => ports[q] = <<>>
    BY <1>0, <1>2, <1>4 DEF Ports
  <2> QED
    BY <1>1, <1>2, <2>1, <2>2 DEF DrainInv
<1>5. CASE ports[k] # <<>> /\ len < FRONTEND_QUEUE_DEPTH
  <2>1. PICK x : x = p[f[k]] /\ ports[k] = <<x>> /\ f[k] = f[k - 1] + 1
    BY <1>3, <1>5 DEF PortsCount
  <2>2. \A q \in Ports : q < k => ports[q] = <<>>
    BY <1>0, <1>2 DEF Ports
  <2>3. \A q \in 0 .. k - 1 : f[q] = n + len
    <3> DEFINE Good == { q \in 0 .. k - 1 : f[q] = n + len }
    <3>1. 0 \in Good
      BY <1>0, <1>3 DEF PortsCount
    <3>2. \A q \in 1 .. k - 1 : q - 1 \in Good => q \in Good
      <4>1. \A q \in 1 .. k - 1 : q \in Ports /\ ports[q] = <<>>
        BY <1>0, <2>2 DEF Ports
      <4>2. \A q \in 1 .. k - 1 : f[q] = f[q - 1]
        <5>1. \A y : <<>> # <<y>>
          OBVIOUS
        <5> QED
          BY <1>3, <4>1, <5>1 DEF PortsCount
      <4> QED
        BY <4>2
    <3>3. Good \in SUBSET (0 .. k - 1) /\ k - 1 \in Nat
      BY <1>0
    <3> HIDE DEF Good
    <3>4. Good = 0 .. k - 1
      BY <3>1, <3>2, <3>3, PassedOn
    <3> QED
      BY <3>4 DEF Good
  <2>4. f[k] = n + len + 1
    <3>1. k - 1 \in 0 .. k - 1
      BY <1>0
    <3> QED
      BY <2>1, <2>3, <3>1
  <2>5. PICK ring2, ports2 : ring2 = ring \o <<x>> /\ ports2 = [ports EXCEPT ![k] = <<>>]
    OBVIOUS
  <2>6. DrainPort(a, k) = [ring |-> ring2, ports |-> ports2]
    BY <1>1, <1>5, <2>1, <2>5 DEF DrainPort
  <2>7. x \in Instr
    <3>1. f[k] \in 1 .. Len(p)
      <4>1. f[k] \in n + len .. last
        BY <1>0, <1>3 DEF PortsCount
      <4> QED
        BY <1>2, <2>4, <4>1
    <3> QED
      BY <2>1, <3>1
  <2>8. /\ ring2 \in Seq(Instr) /\ Len(ring2) = len + 1 /\ ring2[len + 1] = x
        /\ \A i \in 1 .. len : ring2[i] = ring[i]
    BY <1>1, <1>2, <2>5, <2>7
  <2>9. RingIs(p, n, ring2)
    <3>1. \A i \in 1 .. len : ring2[i] = p[n + i]
      BY <1>1, <1>2, <2>8 DEF RingIs
    <3>2. ring2[len + 1] = p[n + (len + 1)]
      BY <1>2, <2>1, <2>4, <2>8
    <3>3. \A i \in 1 .. len + 1 : i \in 1 .. len \/ i = len + 1
      BY <1>2
    <3> QED
      BY <2>8, <3>1, <3>2, <3>3 DEF RingIs
  <2>10. /\ ports2 \in [Ports -> Seq(Instr)] /\ ports2[k] = <<>>
         /\ \A q \in Ports : q # k => ports2[q] = ports[q]
    BY <1>2, <2>5
  <2>11. PortsAre(p, n + Len(ring2), ports2, last)
    <3> DEFINE g == [q \in 0 .. INGRESS_WIDTH |-> IF q < k THEN f[q] + 1 ELSE f[q]]
    <3>1. g \in [0 .. INGRESS_WIDTH -> Nat]
      OBVIOUS
    <3>2. g[0] = n + (len + 1) /\ g[INGRESS_WIDTH] = last
      BY <1>0, <1>2, <1>3 DEF PortsCount
    <3>3. \A q \in 0 .. INGRESS_WIDTH : g[q] \in n + (len + 1) .. last
      <4>1. \A q \in 0 .. INGRESS_WIDTH : q < k => g[q] = n + len + 1
        BY <1>0, <2>3
      <4>2. \A q \in 0 .. INGRESS_WIDTH : f[q] \in n + len .. last
        BY <1>3 DEF PortsCount
      <4>3. \A q \in 0 .. INGRESS_WIDTH : q >= k => f[q] >= n + len + 1
        <5> DEFINE Good == { i \in 0 .. INGRESS_WIDTH - k : f[k + i] >= n + len + 1 }
        <5>1. 0 \in Good
          BY <1>0, <2>4
        <5>2. ASSUME NEW i \in 1 .. INGRESS_WIDTH - k, i - 1 \in Good
              PROVE  i \in Good
          <6>1. PICK q : q = k + i /\ q \in Ports /\ q - 1 = k + (i - 1)
            BY <1>0 DEF Ports
          <6>2. f[q] = f[q - 1] \/ f[q] = f[q - 1] + 1
            BY <1>3, <6>1 DEF PortsCount
          <6>3. f[q - 1] \in Nat /\ f[q] \in Nat /\ f[q - 1] >= n + len + 1
            BY <1>0, <5>2, <6>1 DEF Ports
          <6>4. f[k + i] >= n + len + 1
            BY <1>2, <6>1, <6>2, <6>3
          <6> QED
            BY <1>0, <6>4
        <5>3. Good \in SUBSET (0 .. INGRESS_WIDTH - k) /\ INGRESS_WIDTH - k \in Nat
          BY <1>0
        <5> HIDE DEF Good
        <5>4. Good = 0 .. INGRESS_WIDTH - k
          BY <5>1, <5>2, <5>3, PassedOn
        <5>5. ASSUME NEW q \in 0 .. INGRESS_WIDTH, q >= k
              PROVE  f[q] >= n + len + 1
          <6>1. q - k \in Good /\ k + (q - k) = q
            BY <1>0, <5>4, <5>5
          <6> QED
            BY <6>1 DEF Good
        <5> QED
          BY <5>5
      <4>4. last >= n + len + 1
        <5>1. k \in 0 .. INGRESS_WIDTH /\ k >= k
          BY <1>0
        <5>2. PICK t : t = f[k]
          OBVIOUS
        <5>3. t \in n + len .. last /\ t >= n + len + 1 /\ t \in Nat
          BY <4>2, <4>3, <5>1, <5>2
        <5> QED
          BY <1>0, <5>3
      <4>5. ASSUME NEW q \in 0 .. INGRESS_WIDTH
            PROVE  g[q] \in n + (len + 1) .. last
        <5>1. CASE q < k
          BY <1>2, <4>1, <4>4, <5>1
        <5>2. CASE ~ (q < k)
          <6>1. g[q] = f[q] /\ f[q] \in Nat /\ f[q] >= n + len + 1 /\ f[q] \in n + len .. last
            BY <1>0, <4>2, <4>3, <5>2
          <6> QED
            BY <1>2, <6>1
        <5> QED
          BY <5>1, <5>2
      <4> QED
        BY <4>5
    <3>4. ASSUME NEW q \in Ports
          PROVE  \/ ports2[q] = <<>> /\ g[q] = g[q - 1]
                 \/ ports2[q] = << p[g[q]] >> /\ g[q] = g[q - 1] + 1
      <4>1. q \in 1 .. INGRESS_WIDTH /\ q - 1 \in 0 .. INGRESS_WIDTH
        BY <1>0 DEF Ports
      <4>2. \/ ports[q] = <<>> /\ f[q] = f[q - 1]
            \/ ports[q] = << p[f[q]] >> /\ f[q] = f[q - 1] + 1
        BY <1>3 DEF PortsCount
      <4>3. CASE q = k
        <5>1. g[q] = f[q] /\ g[q - 1] = f[q - 1] + 1
          BY <1>0, <4>1, <4>3
        <5> QED
          BY <2>1, <2>10, <4>3, <5>1
      <4>4. CASE q < k
        <5>0. q \in 0 .. k - 1 /\ q - 1 \in 0 .. k - 1 /\ q # k /\ q - 1 < k
          BY <1>0, <4>1, <4>4
        <5>1. ports2[q] = <<>> /\ g[q] = f[q] + 1 /\ g[q - 1] = f[q - 1] + 1 /\ f[q] = f[q - 1]
          <6>1. ports2[q] = <<>>
            BY <2>2, <2>10, <4>4, <5>0
          <6>2. g[q] = f[q] + 1 /\ g[q - 1] = f[q - 1] + 1
            BY <4>1, <4>4, <5>0
          <6>3. f[q] = f[q - 1]
            BY <2>3, <5>0
          <6> QED
            BY <6>1, <6>2, <6>3
        <5> QED
          BY <5>1
      <4>5. CASE q > k
        <5>0. ~ (q < k) /\ ~ (q - 1 < k) /\ q # k
          BY <1>0, <4>1, <4>5
        <5>1. g[q] = f[q] /\ g[q - 1] = f[q - 1] /\ ports2[q] = ports[q]
          BY <2>10, <4>1, <5>0
        <5> QED
          BY <4>2, <5>1
      <4>6. q = k \/ q < k \/ q > k
        BY <1>0, <4>1
      <4> QED
        BY <4>3, <4>4, <4>5, <4>6
    <3> HIDE DEF g
    <3>5. PortsCount(p, n + (len + 1), ports2, last, g)
      BY <3>2, <3>3, <3>4 DEF PortsCount
    <3> QED
      BY <2>8, <3>1, <3>5 DEF PortsAre
  <2>12. INGRESS_WIDTH = 1 \/ \A q \in Ports : q <= k => ports2[q] = <<>>
    <3>1. \A q \in Ports : q <= k => q = k \/ q < k
      BY <1>0 DEF Ports
    <3>2. \A q \in Ports : q < k => q # k
      BY <1>0 DEF Ports
    <3> QED
      BY <2>2, <2>10, <3>1, <3>2
  <2>13. \A q \in Ports : ports0[q] = <<>> => ports2[q] = <<>>
    BY <1>2, <2>10
  <2>14. PICK b : b = DrainPort(a, k) /\ DOMAIN b = {"ring", "ports"} /\ b.ring = ring2 /\ b.ports = ports2
    BY <2>6
  <2>15. DrainInv(p, n, last, ports0, b, k)
    BY <2>8, <2>9, <2>10, <2>11, <2>12, <2>13, <2>14 DEF DrainInv
  <2> QED
    BY <2>14, <2>15
<1>6. CASE ports[k] # <<>> /\ ~ (len < FRONTEND_QUEUE_DEPTH)
  <2>1. DrainPort(a, k) = a
    BY <1>1, <1>6 DEF DrainPort
  <2>2. INGRESS_WIDTH = 1
    <3>1. \A y : <<>> # <<y>>
      OBVIOUS
    <3>2. f[k] = f[k - 1] + 1
      BY <1>3, <1>6 DEF PortsCount
    <3>3. f[k] \in n + len .. last /\ f[k - 1] \in n + len .. last
      BY <1>0, <1>3 DEF PortsCount
    <3>4. Len(p) > len
      BY <1>2, <3>2, <3>3
    <3> QED
      BY <1>0, <1>2, <1>6, <3>4
  <2> QED
    BY <1>1, <1>2, <2>1, <2>2 DEF DrainInv
<1> QED
  BY <1>4, <1>5, <1>6

\* The ports in program order are drained in program order.
LEMMA DrainedInOrder ==
  ASSUME NEW p \in Seq(Instr), NEW n \in Nat, NEW last \in Nat, last <= Len(p),
         INGRESS_WIDTH = 1 \/ Len(p) <= FRONTEND_QUEUE_DEPTH,
         NEW ring \in Seq(Instr), NEW ports \in [Ports -> Seq(Instr)],
         RingIs(p, n, ring), PortsAre(p, n + Len(ring), ports, last)
  PROVE  DrainInv(p, n, last, ports, Drained(ports, ring), INGRESS_WIDTH)
<1> DEFINE w == INGRESS_WIDTH
<1>1. PICK run : /\ run[0] = [ring |-> ring, ports |-> ports] /\ Drained(ports, ring) = run[w]
                 /\ \A i \in 1 .. w : run[i] = DrainPort(run[i - 1], i)
  BY DrainedRun
<1>2. w \in Nat /\ Ports = 1 .. w
  BY SizesAssumption DEF Ports
<1>3. DrainInv(p, n, last, ports, run[0], 0)
  <2>1. PICK a : a = run[0] /\ a = [ring |-> ring, ports |-> ports]
    BY <1>1
  <2>2. DOMAIN a = {"ring", "ports"} /\ a.ring = ring /\ a.ports = ports
    BY <2>1
  <2>3. \A q \in Ports : ~ (q <= 0)
    BY <1>2
  <2> QED
    BY <2>1, <2>2, <2>3 DEF DrainInv
<1> HIDE DEF w
<1> DEFINE Good == { i \in 0 .. w : DrainInv(p, n, last, ports, run[i], i) }
<1>4. 0 \in Good
  BY <1>2, <1>3
<1>5. ASSUME NEW i \in 1 .. w, i - 1 \in Good
      PROVE  i \in Good
  <2>1. PICK a : a = run[i - 1] /\ DrainInv(p, n, last, ports, a, i - 1)
    BY <1>5
  <2>2. i \in Ports
    BY <1>2
  <2>3. DrainInv(p, n, last, ports, DrainPort(a, i), i)
    BY <2>1, <2>2, DrainStep
  <2> QED
    BY <1>1, <1>2, <2>1, <2>3
<1>6. Good \in SUBSET (0 .. w)
  OBVIOUS
<1> HIDE DEF Good
<1>7. Good = 0 .. w
  BY <1>2, <1>4, <1>5, <1>6, PassedOn
<1>8. DrainInv(p, n, last, ports, run[w], w)
  <2>1. w \in Good
    BY <1>2, <1>7
  <2> QED
    BY <2>1 DEF Good
<1> QED
  BY <1>1, <1>8 DEF w

\* What feeding the ports up to k has done.
FeedInv(at, a, k) ==
  /\ DOMAIN a = {"fed", "ports"}
  /\ a.fed \in Nat /\ a.fed <= Len(program) /\ a.ports \in [Ports -> Seq(Instr)]
  /\ PortsAre(program, at, a.ports, a.fed)
  /\ \A q \in Ports : push[q] = <<>> /\ q > k => a.ports[q] = <<>>
  /\ INGRESS_WIDTH = 1 \/ \A q \in Ports : q > k => a.ports[q] = <<>>

\* A port that is fed takes the next instruction.
LEMMA FeedStep ==
  ASSUME NEW at \in Nat, NEW a, NEW m, NEW k \in Ports, program \in Seq(Instr), FeedInv(at, a, k - 1)
  PROVE  FeedInv(at, FeedPort(a, k, m), k)
<1> DEFINE w == INGRESS_WIDTH
<1>0. w \in Nat /\ w >= 1 /\ k \in 1 .. w /\ Ports = 1 .. w
  <2>1. INGRESS_WIDTH \in Nat \ {0}
    BY SizesAssumption
  <2> QED
    BY <2>1 DEF Ports
<1> HIDE DEF w
<1>1. PICK ports, n, p : ports = a.ports /\ n = a.fed /\ p = program
  OBVIOUS
<1>2. /\ DOMAIN a = {"fed", "ports"} /\ n \in Nat /\ n <= Len(p) /\ ports \in [Ports -> Seq(Instr)]
      /\ p \in Seq(Instr) /\ PortsAre(p, at, ports, n)
      /\ \A q \in Ports : push[q] = <<>> /\ q >= k => ports[q] = <<>>
      /\ w = 1 \/ \A q \in Ports : q >= k => ports[q] = <<>>
  BY <1>0, <1>1 DEF FeedInv, w
<1>3. CASE FeedPort(a, k, m) = a
  <2>1. \A q \in Ports : q > k => q >= k
    BY <1>0
  <2> QED
    BY <1>1, <1>2, <1>3, <2>1 DEF FeedInv, w
<1>4. CASE push[k] = <<>> /\ n < Len(p)
           /\ FeedPort(a, k, m) = [fed |-> n + 1, ports |-> [ports EXCEPT ![k] = << p[n + 1] >>]]
  <2>1. PICK f \in [0 .. w -> Nat] : PortsCount(p, at, ports, n, f)
    BY <1>2 DEF PortsAre, w
  <2>2. /\ f[0] = at /\ f[w] = n /\ \A q \in 0 .. w : f[q] \in at .. n
        /\ \A q \in Ports : \/ ports[q] = <<>> /\ f[q] = f[q - 1]
                            \/ ports[q] = << p[f[q]] >> /\ f[q] = f[q - 1] + 1
    BY <2>1 DEF PortsCount, w
  <2>3. \A q \in Ports : q >= k => ports[q] = <<>> /\ f[q] = f[q - 1]
    <3>1. \A y : <<>> # <<y>>
      OBVIOUS
    <3>2. \A q \in Ports : q >= k => ports[q] = <<>>
      <4>1. w = 1 => \A q \in Ports : q >= k => q = k
        BY <1>0
      <4>2. k >= k
        BY <1>0
      <4> QED
        BY <1>2, <1>4, <4>1, <4>2
    <3> QED
      BY <2>2, <3>1, <3>2
  <2>4. f[k - 1] = n
    <3> DEFINE Good == { i \in 0 .. w - k : f[k + i] = f[k - 1] }
    <3>0. k \in Ports /\ k >= k
      BY <1>0
    <3>1. 0 \in Good
      <4>1. f[k] = f[k - 1] /\ k + 0 = k /\ 0 \in 0 .. w - k
        BY <1>0, <2>3, <3>0
      <4> QED
        BY <4>1
    <3>2. ASSUME NEW i \in 1 .. w - k, i - 1 \in Good
          PROVE  i \in Good
      <4>1. PICK q : q = k + i /\ q \in Ports /\ q >= k /\ q - 1 = k + (i - 1)
        BY <1>0
      <4>2. f[q] = f[q - 1]
        BY <2>3, <4>1
      <4> QED
        BY <3>2, <4>1, <4>2
    <3>3. Good \in SUBSET (0 .. w - k) /\ w - k \in Nat /\ k + (w - k) = w
      BY <1>0
    <3> HIDE DEF Good
    <3>4. Good = 0 .. w - k
      BY <3>1, <3>2, <3>3, PassedOn
    <3>5. w - k \in Good
      BY <3>3, <3>4
    <3>6. f[k + (w - k)] = f[k - 1]
      BY <3>5 DEF Good
    <3> QED
      BY <2>2, <3>3, <3>6
  <2>5. PICK x, ports2 : x = p[n + 1] /\ ports2 = [ports EXCEPT ![k] = <<x>>]
    OBVIOUS
  <2>6. x \in Instr
    <3>1. n + 1 \in 1 .. Len(p)
      BY <1>2, <1>4
    <3> QED
      BY <1>2, <2>5, <3>1
  <2>7. /\ ports2 \in [Ports -> Seq(Instr)] /\ ports2[k] = <<x>>
        /\ \A q \in Ports : q # k => ports2[q] = ports[q]
    <3>1. <<x>> \in Seq(Instr)
      BY <2>6
    <3> QED
      BY <1>2, <2>5, <3>1
  <2> DEFINE g == [q \in 0 .. w |-> IF q >= k THEN f[q] + 1 ELSE f[q]]
  <2>8. g \in [0 .. w -> Nat] /\ g[0] = at /\ g[w] = n + 1
    BY <1>0, <1>2, <2>2
  <2>9. \A q \in 0 .. w : g[q] \in at .. n + 1
    BY <1>2, <2>2
  <2>10. ASSUME NEW q \in Ports
         PROVE  \/ ports2[q] = <<>> /\ g[q] = g[q - 1]
                \/ ports2[q] = << p[g[q]] >> /\ g[q] = g[q - 1] + 1
    <3>0. q \in 0 .. w /\ q - 1 \in 0 .. w /\ k - 1 \in 0 .. w /\ ~ (k - 1 >= k)
      BY <1>0
    <3>1. CASE q = k
      <4>1. f[k] = n
        <5>1. k >= k
          BY <1>0
        <5> QED
          BY <2>3, <2>4, <3>1, <5>1
      <4>2. g[k] = n + 1 /\ g[k - 1] = n
        BY <2>4, <3>0, <3>1, <4>1
      <4> QED
        BY <1>2, <2>5, <2>7, <3>1, <4>2
    <3>2. CASE q > k
      <4>1. g[q] = f[q] + 1 /\ g[q - 1] = f[q - 1] + 1 /\ q # k /\ q >= k
        BY <1>0, <3>0, <3>2
      <4> QED
        BY <2>3, <2>7, <4>1
    <3>3. CASE q < k
      <4>1. g[q] = f[q] /\ g[q - 1] = f[q - 1] /\ q # k
        BY <1>0, <3>0, <3>3
      <4> QED
        BY <2>2, <2>7, <4>1
    <3>4. q = k \/ q < k \/ q > k
      BY <1>0
    <3> QED
      BY <3>1, <3>2, <3>3, <3>4
  <2> HIDE DEF g
  <2>11. PortsAre(p, at, ports2, n + 1)
    <3>1. PortsCount(p, at, ports2, n + 1, g)
      BY <2>8, <2>9, <2>10 DEF PortsCount, w
    <3> QED
      BY <2>8, <3>1 DEF PortsAre, w
  <2>12. \A q \in Ports : q > k => ports2[q] = <<>>
    <3>1. \A q \in Ports : q > k => q # k /\ q >= k
      BY <1>0
    <3> QED
      BY <2>3, <2>7, <3>1
  <2>13. PICK b : b = FeedPort(a, k, m) /\ DOMAIN b = {"fed", "ports"} /\ b.fed = n + 1 /\ b.ports = ports2
    <3>1. PICK b : b = [fed |-> n + 1, ports |-> ports2]
      OBVIOUS
    <3>2. b = FeedPort(a, k, m)
      BY <1>4, <2>5, <3>1
    <3> QED
      BY <3>1, <3>2
  <2>14. n + 1 \in Nat /\ n + 1 <= Len(p)
    BY <1>2, <1>4
  <2>15. FeedInv(at, b, k)
    BY <1>1, <2>7, <2>11, <2>12, <2>13, <2>14 DEF FeedInv
  <2> QED
    BY <2>13, <2>15
<1> QED
  BY <1>1, <1>3, <1>4 DEF FeedPort

\* The ports are fed in program order.
LEMMA FedInOrder ==
  ASSUME NEW at \in Nat, NEW m, NEW ports \in [Ports -> Seq(Instr)], program \in Seq(Instr), fed \in Nat,
         fed <= Len(program), PortsAre(program, at, ports, fed),
         \A q \in Ports : push[q] = <<>> => ports[q] = <<>>,
         INGRESS_WIDTH = 1 \/ \A q \in Ports : ports[q] = <<>>
  PROVE  FeedInv(at, Fed(m, ports), INGRESS_WIDTH)
<1> DEFINE w == INGRESS_WIDTH
<1>1. PICK run : /\ run[0] = [fed |-> fed, ports |-> ports] /\ Fed(m, ports) = run[w]
                 /\ \A i \in 1 .. w : run[i] = FeedPort(run[i - 1], i, m)
  <2>1. \E run :
           /\ run[0] = [fed |-> fed, ports |-> ports] /\ Fed(m, ports) = run[INGRESS_WIDTH]
           /\ \A i \in 1 .. INGRESS_WIDTH : run[i] = FeedPort(run[i - 1], i, m)
    BY ONLY FedRun
  <2> QED
    BY <2>1
<1>2. w \in Nat /\ Ports = 1 .. w
  BY SizesAssumption DEF Ports
<1>3. FeedInv(at, run[0], 0)
  <2>1. PICK a : a = run[0] /\ a = [fed |-> fed, ports |-> ports]
    BY <1>1
  <2>2. DOMAIN a = {"fed", "ports"} /\ a.fed = fed /\ a.ports = ports
    BY <2>1
  <2> QED
    BY <2>1, <2>2 DEF FeedInv
<1> HIDE DEF w
<1> DEFINE Good == { i \in 0 .. w : FeedInv(at, run[i], i) }
<1>4. 0 \in Good
  BY <1>2, <1>3
<1>5. ASSUME NEW i \in 1 .. w, i - 1 \in Good
      PROVE  i \in Good
  <2>1. PICK a : a = run[i - 1] /\ FeedInv(at, a, i - 1)
    BY <1>5
  <2>2. i \in Ports
    BY <1>2
  <2>3. FeedInv(at, FeedPort(a, i, m), i)
    BY <2>1, <2>2, FeedStep
  <2> QED
    BY <1>1, <1>2, <2>1, <2>3
<1>6. Good \in SUBSET (0 .. w)
  OBVIOUS
<1> HIDE DEF Good
<1>7. Good = 0 .. w
  BY <1>2, <1>4, <1>5, <1>6, PassedOn
<1>8. FeedInv(at, run[w], w)
  <2>1. w \in Good
    BY <1>2, <1>7
  <2> QED
    BY <2>1 DEF Good
<1> QED
  BY <1>1, <1>8 DEF w

-----------------------------------------------------------------------------
(* The values: what the core holds is what in-order execution computes.    *)

Filled(c) == { i \in Slots : c.rob[i].valid }

\* An entry of the reorder buffer is the instruction of p that it is numbered.
EntryIs(e, p) ==
  /\ {"valid", "ready", "hasDest", "op", "rd", "dst", "seq", "old"} \subseteq DOMAIN e
  /\ e.seq \in 1 .. Len(p) /\ e.op = p[e.seq].op /\ e.rd = p[e.seq].rd
  /\ e.hasDest <=> Toy!WritesDest(p[e.seq])

EntriesInv(c, p) == \A i \in Filled(c) : EntryIs(c.rob[i], p)

\* Each destination is the tag of one entry in flight; a later entry keeps it,
\* or the map has it, and it is not ready before the entry is.
DestsInv(c) ==
  /\ DOMAIN c.value = Tags
  /\ \A i \in Filled(c) : c.rob[i].dst \in Tags /\ (c.rob[i].hasDest <=> c.rob[i].dst # 0)
  /\ \A i, j \in Kept(c) : c.rob[i].dst = c.rob[j].dst => i = j
  /\ \A i \in Kept(c) : \/ c.rob[i].dst = c.map[c.rob[i].rd]
                        \/ \E j \in Kept(c) : c.rob[j].old = c.rob[i].dst /\ c.rob[j].seq > c.rob[i].seq
  /\ \A i \in Kept(c) : ~ c.rob[i].ready => ~ c.ready[c.rob[i].dst]

\* An entry older than number s has still to write tag t, for register r, with v.
Pending(c, p, t, r, s, v) ==
  \E w \in Kept(c) : /\ ~ c.rob[w].ready /\ c.rob[w].dst = t /\ c.rob[w].rd = r
                     /\ c.rob[w].seq < s /\ Val(p, c.rob[w].seq) = v

\* Tag t has the value v, or it will have.
HoldsTag(c, p, t, r, s, v) == IF c.ready[t] THEN c.value[t] = v ELSE Pending(c, p, t, r, s, v)

\* The map has the registers as the last instruction dispatched leaves them,
\* and an entry keeps its register as the instruction before it left it.
MapInv(c, p) == \A r \in Regs : HoldsTag(c, p, c.map[r], r, c.seq, RegAt(p, c.seq - 1, r))

OldInv(c, p) ==
  \A i \in Kept(c) : HoldsTag(c, p, c.rob[i].old, c.rob[i].rd, c.rob[i].seq,
                              RegAt(p, c.rob[i].seq - 1, c.rob[i].rd))

\* An operand of the issue queue has the value of its register, or waits for it.
OperandIs(c, p, ready, src, tag, r, s) ==
  IF ready THEN src = RegAt(p, s - 1, r) ELSE Pending(c, p, tag, r, s, RegAt(p, s - 1, r))

QueuedIs(c, p, e) ==
  /\ {"imm", "src1", "src2"} \subseteq DOMAIN e
  /\ e.seq \in 1 .. Len(p) /\ e.op = p[e.seq].op /\ e.imm = p[e.seq].imm
  /\ e.isLsu <=> Toy!IsLsu(p[e.seq])
  /\ OperandIs(c, p, e.ready1, e.src1, e.tag1, p[e.seq].src1, e.seq)
  /\ OperandIs(c, p, e.ready2, e.src2, e.tag2, p[e.seq].src2, e.seq)

WaitingInv(c, p) == \A i \in Queued(c) : QueuedIs(c, p, c.iq[i])

HaltInv(c, p) == c.halted = Ref(p, c.committed).halted

DataInv(c, p) ==
  /\ RingIs(p, c.seq - 1, c.ingress) /\ c.seq - 1 + Len(c.ingress) <= Len(p)
  /\ EntriesInv(c, p) /\ DestsInv(c) /\ MapInv(c, p) /\ OldInv(c, p) /\ WaitingInv(c, p)
  /\ HaltInv(c, p)

\* A tag that is not touched holds what it held.
LEMMA HoldsSame ==
  ASSUME NEW c, NEW d, NEW p, NEW t, NEW r, NEW s, NEW v, HoldsTag(c, p, t, r, s, v),
         d.ready[t] = c.ready[t], d.value[t] = c.value[t],
         \A w \in Kept(c) : ~ c.rob[w].ready /\ c.rob[w].dst = t => w \in Kept(d) /\ d.rob[w] = c.rob[w]
  PROVE  HoldsTag(d, p, t, r, s, v)
<1>1. CASE c.ready[t]
  BY <1>1 DEF HoldsTag
<1>2. CASE ~ c.ready[t]
  <2>1. Pending(c, p, t, r, s, v)
    BY <1>2 DEF HoldsTag
  <2>2. Pending(d, p, t, r, s, v)
    BY <2>1 DEF Pending
  <2> QED
    BY <1>2, <2>2 DEF HoldsTag
<1> QED
  BY <1>1, <1>2

\* An entry of the issue queue that a write-back may wake.
LEMMA WokenValue ==
  ASSUME NEW e, NEW wb, e.valid,
         {"valid", "rob", "dst", "seq", "op", "isLsu", "tag1", "ready1", "tag2", "ready2",
          "imm", "src1", "src2"} \subseteq DOMAIN e
  PROVE  /\ DOMAIN Woken(e, wb) = DOMAIN e /\ Woken(e, wb).seq = e.seq
         /\ Woken(e, wb).op = e.op /\ Woken(e, wb).isLsu = e.isLsu /\ Woken(e, wb).imm = e.imm
         /\ Woken(e, wb).tag1 = e.tag1 /\ Woken(e, wb).tag2 = e.tag2
         /\ Woken(e, wb).ready1 <=> e.ready1 \/ e.tag1 = wb.dst
         /\ Woken(e, wb).src1 = IF ~ e.ready1 /\ e.tag1 = wb.dst THEN wb.value ELSE e.src1
         /\ Woken(e, wb).ready2 <=> e.ready2 \/ e.tag2 = wb.dst
         /\ Woken(e, wb).src2 = IF ~ e.ready2 /\ e.tag2 = wb.dst THEN wb.value ELSE e.src2
BY DEF Woken

\* A write-back puts the value that the instruction computes in order.
LEMMA DataWriteback ==
  ASSUME NEW c, NEW T, NEW l, NEW q, NEW wb, NEW p, FlowInv(c, T), DataInv(c, p),
         q = IF l \in AluLanes THEN alu[l].resultq ELSE lsu[l].resultq, q # <<>>, wb = Head(q),
         Ticket(wb) \in T, wb.dst # 0 => wb.hasDest /\ wb.value = Val(p, wb.seq)
  PROVE  DataInv(WritebackOf(c, l), p)
<1>1. PICK d : d = WritebackOf(c, l)
  OBVIOUS
<1>2. d = Writeback(c, wb)
  BY <1>1 DEF WritebackOf
<1>3. /\ DOMAIN c = CoreFields /\ DOMAIN c.rob = Slots /\ DOMAIN c.iq = 1 .. IQ_SIZE /\ DOMAIN c.ready = Tags
      /\ DOMAIN c.value = Tags /\ \A i \in 1 .. IQ_SIZE : "valid" \in DOMAIN c.iq[i]
  BY DEF FlowInv, CoreInv, Shape, EntryShape, DataInv, DestsInv
<1>4. /\ d.map = c.map /\ d.seq = c.seq /\ d.ingress = c.ingress /\ d.halted = c.halted /\ d.committed = c.committed
      /\ d.rob = [c.rob EXCEPT ![wb.rob].ready = TRUE]
      /\ d.ready = IF wb.hasDest /\ wb.dst # 0 THEN [c.ready EXCEPT ![wb.dst] = TRUE] ELSE c.ready
      /\ d.value = IF wb.hasDest /\ wb.dst # 0 THEN [c.value EXCEPT ![wb.dst] = wb.value] ELSE c.value
  BY <1>2, <1>3 DEF Writeback, CoreFields
<1>5. \A i \in 1 .. IQ_SIZE : d.iq[i] = Woken(c.iq[i], wb)
  <2>1. d.iq = [i \in 1 .. IQ_SIZE |-> Woken(c.iq[i], wb)]
    BY <1>2, <1>3 DEF Writeback, CoreFields
  <2> QED
    BY <2>1
<1>6. /\ wb.rob \in Filled(c) /\ ~ c.rob[wb.rob].ready /\ wb.dst \in Tags
      /\ c.rob[wb.rob].dst = wb.dst /\ c.rob[wb.rob].seq = wb.seq
  <2>1. Filed(c, Ticket(wb)) /\ Ticket(wb) \in Tickets
    BY DEF FlowInv, FilingInv
  <2> QED
    BY <2>1 DEF Filed, Ticket, Tickets, Filled
<1>7. ASSUME NEW i \in Filled(c)
      PROVE  /\ DOMAIN d.rob[i] = DOMAIN c.rob[i] /\ d.rob[i].valid
             /\ d.rob[i].hasDest = c.rob[i].hasDest /\ d.rob[i].op = c.rob[i].op /\ d.rob[i].rd = c.rob[i].rd
             /\ d.rob[i].dst = c.rob[i].dst /\ d.rob[i].seq = c.rob[i].seq /\ d.rob[i].old = c.rob[i].old
             /\ i # wb.rob => d.rob[i] = c.rob[i]
             /\ i = wb.rob => d.rob[i].ready
  <2>1. PICK e, x : e = c.rob[i] /\ x = d.rob[i]
    OBVIOUS
  <2>2. e.valid /\ {"valid", "ready", "hasDest", "op", "rd", "dst", "seq", "old"} \subseteq DOMAIN e /\ i \in Slots
    BY <2>1 DEF DataInv, EntriesInv, EntryIs, Filled
  <2>3. CASE i = wb.rob
    <3>1. x = [e EXCEPT !.ready = TRUE]
      BY <1>3, <1>4, <2>1, <2>2, <2>3
    <3>2. /\ DOMAIN x = DOMAIN e /\ x.valid /\ x.ready
          /\ x.hasDest = e.hasDest /\ x.op = e.op /\ x.rd = e.rd
          /\ x.dst = e.dst /\ x.seq = e.seq /\ x.old = e.old
      BY <2>2, <3>1
    <3> QED
      BY <2>1, <2>3, <3>2
  <2>4. CASE i # wb.rob
    <3>1. x = e
      BY <1>3, <1>4, <2>1, <2>2, <2>4
    <3> QED
      BY <2>1, <2>2, <2>4, <3>1
  <2> QED
    BY <2>3, <2>4
<1>8. Filled(d) = Filled(c) /\ Kept(d) = Kept(c) /\ Kept(c) \subseteq Filled(c)
  <2>1. \A i \in Slots : i # wb.rob => d.rob[i] = c.rob[i]
    BY <1>3, <1>4
  <2>2. ASSUME NEW i \in Slots
        PROVE  d.rob[i].valid <=> c.rob[i].valid
    <3>1. CASE i \in Filled(c)
      BY <1>7, <3>1 DEF Filled
    <3>2. CASE i \notin Filled(c)
      <4>1. i # wb.rob
        BY <1>6, <3>2
      <4> QED
        BY <2>1, <4>1
    <3> QED
      BY <3>1, <3>2
  <2>3. Filled(d) = Filled(c)
    BY <2>2 DEF Filled
  <2>4. Kept(c) \subseteq Filled(c) /\ Kept(d) \subseteq Filled(d)
    BY DEF Filled, Kept
  <2>5. \A i \in Filled(c) : i \in Kept(d) <=> i \in Kept(c)
    BY <1>7 DEF Filled, Kept
  <2> QED
    BY <2>3, <2>4, <2>5
<1>9. EntriesInv(d, p)
  BY <1>7, <1>8 DEF DataInv, EntriesInv, EntryIs
<1>10. wb.dst # 0 => wb.rob \in Kept(c)
  BY <1>6 DEF Kept, Filled, DataInv, DestsInv
<1>11. \A t \in Tags : t # wb.dst => d.ready[t] = c.ready[t] /\ d.value[t] = c.value[t]
  BY <1>3, <1>4, <1>6
<1>12. wb.dst # 0 => d.ready[wb.dst] /\ d.value[wb.dst] = Val(p, wb.seq)
  BY <1>3, <1>4, <1>6
<1>13. ASSUME NEW t \in Tags \ {0}, NEW r, NEW s, NEW v
       PROVE  /\ HoldsTag(c, p, t, r, s, v) => HoldsTag(d, p, t, r, s, v)
              /\ t # wb.dst /\ Pending(c, p, t, r, s, v) => Pending(d, p, t, r, s, v)
              /\ t = wb.dst /\ Pending(c, p, t, r, s, v) => v = Val(p, wb.seq)
  <2>1. CASE t # wb.dst
    <3>1. ASSUME NEW w \in Kept(c), c.rob[w].dst = t
          PROVE  w \in Kept(d) /\ d.rob[w] = c.rob[w]
      <4>1. w # wb.rob /\ w \in Filled(c)
        BY <1>6, <1>8, <2>1, <3>1
      <4> QED
        BY <1>7, <1>8, <4>1
    <3>2. Pending(c, p, t, r, s, v) => Pending(d, p, t, r, s, v)
      BY <3>1 DEF Pending
    <3> QED
      BY <1>11, <2>1, <3>1, <3>2, HoldsSame
  <2>2. CASE t = wb.dst
    <3>1. wb.rob \in Kept(c)
      BY <1>10, <2>2
    <3>2. ASSUME Pending(c, p, t, r, s, v)
          PROVE  v = Val(p, wb.seq)
      <4>1. PICK w \in Kept(c) : c.rob[w].dst = t /\ Val(p, c.rob[w].seq) = v
        BY <3>2 DEF Pending
      <4>2. c.rob[w].dst = c.rob[wb.rob].dst
        BY <1>6, <2>2, <4>1
      <4>3. \A i, j \in Kept(c) : c.rob[i].dst = c.rob[j].dst => i = j
        BY DEF DataInv, DestsInv
      <4>4. w = wb.rob
        BY <3>1, <4>1, <4>2, <4>3
      <4> QED
        BY <1>6, <4>1, <4>4
    <3>3. ~ c.ready[t]
      BY <1>6, <2>2, <3>1 DEF DataInv, DestsInv
    <3> QED
      BY <1>12, <2>2, <3>2, <3>3 DEF HoldsTag
  <2> QED
    BY <2>1, <2>2
<1>14. DestsInv(d)
  <2>1. DOMAIN d.value = Tags
    BY <1>3, <1>4
  <2>2. \A i \in Kept(c) : ~ d.rob[i].ready => ~ d.ready[d.rob[i].dst]
    <3> SUFFICES ASSUME NEW i \in Kept(c), ~ d.rob[i].ready
                 PROVE  ~ d.ready[d.rob[i].dst]
      OBVIOUS
    <3>1. i # wb.rob /\ i \in Filled(c) /\ d.rob[i] = c.rob[i]
      BY <1>7, <1>8
    <3>2. c.rob[i].dst \in Tags /\ c.rob[i].dst # 0 /\ ~ c.ready[c.rob[i].dst]
      BY <3>1 DEF DataInv, DestsInv, Kept
    <3>3. c.rob[i].dst # wb.dst
      BY <1>6, <1>10, <3>1, <3>2 DEF DataInv, DestsInv
    <3> QED
      BY <1>11, <3>1, <3>2, <3>3
  <2>3. \A i \in Filled(c) : d.rob[i].dst \in Tags /\ (d.rob[i].hasDest <=> d.rob[i].dst # 0)
    BY <1>7 DEF DataInv, DestsInv
  <2>4. ASSUME NEW i \in Kept(c), NEW j \in Kept(c), d.rob[i].dst = d.rob[j].dst
        PROVE  i = j
    <3>1. c.rob[i].dst = c.rob[j].dst
      BY <1>7, <1>8, <2>4
    <3> QED
      BY <3>1 DEF DataInv, DestsInv
  <2>5. ASSUME NEW i \in Kept(c)
        PROVE  \/ d.rob[i].dst = d.map[d.rob[i].rd]
               \/ \E j \in Kept(c) : d.rob[j].old = d.rob[i].dst /\ d.rob[j].seq > d.rob[i].seq
    <3>1. /\ d.rob[i].dst = c.rob[i].dst /\ d.rob[i].rd = c.rob[i].rd /\ d.rob[i].seq = c.rob[i].seq
          /\ \A j \in Kept(c) : d.rob[j].old = c.rob[j].old /\ d.rob[j].seq = c.rob[j].seq
      BY <1>7, <1>8
    <3>2. \/ c.rob[i].dst = c.map[c.rob[i].rd]
          \/ \E j \in Kept(c) : c.rob[j].old = c.rob[i].dst /\ c.rob[j].seq > c.rob[i].seq
      BY DEF DataInv, DestsInv
    <3>3. CASE c.rob[i].dst = c.map[c.rob[i].rd]
      BY <1>4, <3>1, <3>3
    <3>4. CASE \E j \in Kept(c) : c.rob[j].old = c.rob[i].dst /\ c.rob[j].seq > c.rob[i].seq
      <4>1. PICK j \in Kept(c) : c.rob[j].old = c.rob[i].dst /\ c.rob[j].seq > c.rob[i].seq
        BY <3>4
      <4>2. d.rob[j].old = d.rob[i].dst /\ d.rob[j].seq > d.rob[i].seq
        BY <3>1, <4>1
      <4> QED
        BY <4>2
    <3> QED
      BY <3>2, <3>3, <3>4
  <2> QED
    BY <1>8, <2>1, <2>2, <2>3, <2>4, <2>5 DEF DestsInv
<1>15. MapInv(d, p)
  <2>1. \A r \in Regs : c.map[r] \in Tags \ {0}
    BY DEF FlowInv, CoreInv, TagsInv, Sharing
  <2> QED
    BY <1>4, <1>13, <2>1 DEF DataInv, MapInv
<1>16. OldInv(d, p)
  <2> SUFFICES ASSUME NEW i \in Kept(c)
               PROVE  HoldsTag(d, p, d.rob[i].old, d.rob[i].rd, d.rob[i].seq, RegAt(p, d.rob[i].seq - 1, d.rob[i].rd))
    BY <1>8 DEF OldInv
  <2>1. c.rob[i].old \in Tags \ {0}
    BY DEF FlowInv, CoreInv, TagsInv, Sharing, Olds, Kept
  <2>2. HoldsTag(c, p, c.rob[i].old, c.rob[i].rd, c.rob[i].seq, RegAt(p, c.rob[i].seq - 1, c.rob[i].rd))
    BY DEF DataInv, OldInv
  <2>3. d.rob[i].old = c.rob[i].old /\ d.rob[i].rd = c.rob[i].rd /\ d.rob[i].seq = c.rob[i].seq
    BY <1>7, <1>8
  <2> QED
    BY <1>13, <2>1, <2>2, <2>3
<1>17. Queued(d) = Queued(c)
  <2>1. ASSUME NEW i \in 1 .. IQ_SIZE
        PROVE  d.iq[i].valid <=> c.iq[i].valid
    <3>1. PICK e : e = c.iq[i] /\ "valid" \in DOMAIN e
      BY <1>3
    <3>2. Woken(e, wb).valid <=> e.valid
      BY <3>1 DEF Woken
    <3> QED
      BY <1>5, <3>1, <3>2
  <2> QED
    BY <2>1 DEF Queued
<1>18. WaitingInv(d, p)
  <2> SUFFICES ASSUME NEW i \in Queued(c)
               PROVE  QueuedIs(d, p, d.iq[i])
    BY <1>17 DEF WaitingInv
  <2>1. PICK e, x : e = c.iq[i] /\ x = d.iq[i]
    OBVIOUS
  <2>2. i \in 1 .. IQ_SIZE /\ e.valid /\ "valid" \in DOMAIN e /\ QueuedIs(c, p, e)
        /\ {"rob", "dst", "seq", "op", "isLsu", "tag1", "ready1", "tag2", "ready2"} \subseteq DOMAIN e
    BY <1>3, <2>1 DEF Queued, FlowInv, EntryShape, DataInv, WaitingInv
  <2>3. x = Woken(e, wb)
    BY <1>5, <2>1, <2>2
  <2>4. {"valid", "rob", "dst", "seq", "op", "isLsu", "tag1", "ready1", "tag2", "ready2",
          "imm", "src1", "src2"} \subseteq DOMAIN e
    BY <2>2 DEF QueuedIs
  <2>5. /\ DOMAIN x = DOMAIN e /\ x.seq = e.seq /\ x.op = e.op /\ x.isLsu = e.isLsu /\ x.imm = e.imm
        /\ x.tag1 = e.tag1 /\ x.tag2 = e.tag2
        /\ x.ready1 <=> e.ready1 \/ e.tag1 = wb.dst
        /\ x.src1 = IF ~ e.ready1 /\ e.tag1 = wb.dst THEN wb.value ELSE e.src1
        /\ x.ready2 <=> e.ready2 \/ e.tag2 = wb.dst
        /\ x.src2 = IF ~ e.ready2 /\ e.tag2 = wb.dst THEN wb.value ELSE e.src2
    BY <2>2, <2>3, <2>4, WokenValue
  <2>6. \A t, r, s, v : Pending(c, p, t, r, s, v) => t \in Tags \ {0}
    BY <1>8 DEF Pending, DataInv, DestsInv, Kept
  <2>7. ASSUME NEW ready, NEW src, NEW tag, NEW r, NEW ready2, NEW src2,
               OperandIs(c, p, ready, src, tag, r, e.seq), ready2 <=> ready \/ tag = wb.dst,
               src2 = IF ~ ready /\ tag = wb.dst THEN wb.value ELSE src
        PROVE  OperandIs(d, p, ready2, src2, tag, r, e.seq)
    <3>1. CASE ready
      BY <2>7, <3>1 DEF OperandIs
    <3>2. CASE ~ ready
      <4>1. PICK v : v = RegAt(p, e.seq - 1, r) /\ Pending(c, p, tag, r, e.seq, v) /\ tag \in Tags \ {0}
        BY <2>6, <2>7, <3>2 DEF OperandIs
      <4>2. CASE tag = wb.dst
        <5>1. v = Val(p, wb.seq) /\ wb.value = Val(p, wb.seq)
          BY <1>13, <4>1, <4>2
        <5> QED
          BY <2>7, <3>2, <4>1, <4>2, <5>1 DEF OperandIs
      <4>3. CASE tag # wb.dst
        <5>1. Pending(d, p, tag, r, e.seq, v)
          BY <1>13, <4>1, <4>3
        <5> QED
          BY <2>7, <3>2, <4>1, <4>3, <5>1 DEF OperandIs
      <4> QED
        BY <4>2, <4>3
    <3> QED
      BY <3>1, <3>2
  <2>8. /\ OperandIs(d, p, x.ready1, x.src1, x.tag1, p[e.seq].src1, e.seq)
        /\ OperandIs(d, p, x.ready2, x.src2, x.tag2, p[e.seq].src2, e.seq)
    BY <2>2, <2>5, <2>7 DEF QueuedIs
  <2> QED
    BY <2>1, <2>2, <2>5, <2>8 DEF QueuedIs
<1> QED
  BY <1>1, <1>4, <1>9, <1>14, <1>15, <1>16, <1>18 DEF DataInv, HaltInv

-----------------------------------------------------------------------------
(* What a commit and a dispatch do, in one place.                          *)

\* The instruction in slot h, the oldest, leaves.
Commits(c, d, h) ==
  /\ h \in Slots /\ c.rob[h].valid /\ c.rob[h].ready
  /\ c.rob[h].seq = c.committed + 1 /\ c.committed \in Nat
  /\ \A i \in Slots : c.rob[i].valid => c.rob[i].seq >= c.rob[h].seq
  /\ d.ingress = c.ingress /\ d.map = c.map /\ d.ready = c.ready /\ d.value = c.value /\ d.seq = c.seq /\ d.iq = c.iq
  /\ d.committed = c.committed + 1 /\ d.halted = (c.halted \/ c.rob[h].op = "HALT")
  /\ ~ d.rob[h].valid /\ \A i \in Slots : i # h => d.rob[i] = c.rob[i]

LEMMA CommitFacts ==
  ASSUME NEW c, NEW k, CoreInv(c)
  PROVE  CommitOne(c, k) = c \/ \E h : Commits(c, CommitOne(c, k), h)
<1>1. PICK h, e, d : h = c.head /\ e = c.rob[h] /\ d = CommitOne(c, k)
  OBVIOUS
<1>2. CASE c.count = 0 \/ ~ e.valid \/ ~ e.ready
  BY <1>1, <1>2 DEF CommitOne
<1>3. CASE ~ (c.count = 0 \/ ~ e.valid \/ ~ e.ready)
  <2>1. DOMAIN c = CoreFields /\ DOMAIN c.rob = Slots /\ h \in Slots /\ c.committed \in Nat
    BY <1>1 DEF CoreInv, Shape, RingInv
  <2>2. /\ d.ingress = c.ingress /\ d.map = c.map /\ d.ready = c.ready /\ d.value = c.value /\ d.seq = c.seq
        /\ d.iq = c.iq /\ d.committed = c.committed + 1 /\ d.halted = (c.halted \/ e.op = "HALT")
        /\ d.rob = [c.rob EXCEPT ![h] = Empty]
    BY <1>1, <1>3, <2>1 DEF CommitOne, CoreFields
  <2>3. ~ d.rob[h].valid /\ \A i \in Slots : i # h => d.rob[i] = c.rob[i]
    BY <2>1, <2>2 DEF Empty
  <2>4. PICK R, done : R = ROB_SIZE /\ R \in Nat \ {0} /\ done = c.committed
    BY SizesAssumption
  <2>5. h \in 0 .. R - 1 /\ Dist(h, h) = 0 /\ \A i \in Slots : Dist(h, i) \in Nat
    BY <2>1, <2>4 DEF Dist, Slots
  <2>6. \A i \in Slots : c.rob[i].valid => c.rob[i].seq = done + 1 + Dist(h, i)
    BY <1>1, <2>4 DEF CoreInv, RingInv
  <2>7. c.rob[h].seq = done + 1
    BY <1>1, <1>3, <2>1, <2>4, <2>5, <2>6
  <2>8. \A i \in Slots : c.rob[i].valid => c.rob[i].seq >= c.rob[h].seq
    BY <2>1, <2>4, <2>5, <2>6, <2>7
  <2> QED
    BY <1>1, <1>3, <2>1, <2>2, <2>3, <2>4, <2>7, <2>8 DEF Commits
<1> QED
  BY <1>2, <1>3

\* inst leaves the ring, and its destination becomes dst.
Allots(c, d, inst, dst) ==
  /\ inst \in Instr /\ c.ingress # <<>> /\ inst = c.ingress[1] /\ d.ingress = Tail(c.ingress)
  /\ d.seq = c.seq + 1 /\ c.seq \in Nat /\ d.committed = c.committed /\ d.halted = c.halted
  /\ dst \in Tags
  /\ Toy!WritesDest(inst) => dst # 0 /\ 1 \in 1 .. Len(c.free) /\ dst = c.free[1] /\ inst.rd \in Regs
  /\ ~ Toy!WritesDest(inst) => dst = 0
  /\ d.map = IF Toy!WritesDest(inst) THEN [c.map EXCEPT ![inst.rd] = dst] ELSE c.map
  /\ d.ready = IF Toy!WritesDest(inst) THEN [c.ready EXCEPT ![dst] = FALSE] ELSE c.ready
  /\ d.value = IF Toy!WritesDest(inst) THEN [c.value EXCEPT ![dst] = 0] ELSE c.value

\* It enters the reorder buffer in slot t as ne.
Records(c, d, inst, dst, t, ne) ==
  /\ t \in Slots /\ ~ c.rob[t].valid /\ ne = RobEntry(c, inst, dst)
  /\ d.rob[t] = ne /\ \A i \in Slots : i # t => d.rob[i] = c.rob[i]
  /\ \A i \in Slots : c.rob[i].valid => c.rob[i].seq \in Nat /\ c.rob[i].seq < c.seq

\* And the issue queue in m as qe.
Queues(c, d, inst, dst, m, qe) ==
  /\ qe = IqEntry(c, inst, dst) /\ m \notin Queued(c) /\ m \in 1 .. IQ_SIZE
  /\ Queued(d) = Queued(c) \cup {m} /\ d.iq[m] = qe /\ \A i \in Queued(c) : d.iq[i] = c.iq[i]

Dispatches(c, d, inst, dst, t, ne, m, qe) ==
  Allots(c, d, inst, dst) /\ Records(c, d, inst, dst, t, ne) /\ Queues(c, d, inst, dst, m, qe)

LEMMA DispatchFacts ==
  ASSUME NEW c, NEW x, NEW k \in Nat, k >= 1, CoreInv(c), Room(c, k)
  PROVE  \/ DispatchOne(c, x) = c
         \/ \E inst, dst, t, ne, m, qe : Dispatches(c, DispatchOne(c, x), inst, dst, t, ne, m, qe)
<1>1. PICK inst, need, free, d, t :
        /\ inst = Head(c.ingress) /\ need = Toy!WritesDest(inst) /\ d = DispatchOne(c, x) /\ t = c.tail
        /\ free = { i \in 1 .. IQ_SIZE : ~ c.iq[i].valid }
  OBVIOUS
<1>2. CASE free = {}
  BY <1>1, <1>2 DEF DispatchOne
<1>3. CASE free # {}
  <2>1. /\ DOMAIN c = CoreFields /\ DOMAIN c.rob = Slots /\ DOMAIN c.iq = 1 .. IQ_SIZE
        /\ c.ingress \in Seq(Instr) /\ c.free \in Seq(Tags)
    BY DEF CoreInv, Shape
  <2>2. PICK dst, ne, qe, m :
          /\ dst = (IF need THEN Head(c.free) ELSE 0)
          /\ ne = RobEntry(c, inst, dst) /\ qe = IqEntry(c, inst, dst) /\ m = Min(free)
    OBVIOUS
  <2>3. /\ d.ingress = Tail(c.ingress) /\ d.seq = c.seq + 1 /\ d.committed = c.committed /\ d.halted = c.halted
        /\ d.map = IF need THEN [c.map EXCEPT ![inst.rd] = dst] ELSE c.map
        /\ d.ready = IF need THEN [c.ready EXCEPT ![dst] = FALSE] ELSE c.ready
        /\ d.value = IF need THEN [c.value EXCEPT ![dst] = 0] ELSE c.value
        /\ d.rob = [c.rob EXCEPT ![t] = ne] /\ d.iq = [c.iq EXCEPT ![m] = qe]
    BY <1>1, <1>3, <2>1, <2>2 DEF DispatchOne, CoreFields
  <2>4. m \in 1 .. IQ_SIZE /\ ~ c.iq[m].valid
    BY <1>1, <1>3, <2>2, FirstFree
  <2>5. c.ingress # <<>> /\ inst \in Instr /\ inst = c.ingress[1]
    <3>1. Len(c.ingress) \in Nat /\ Len(c.ingress) >= 1
      BY <2>1 DEF Room
    <3>2. c.ingress # <<>>
      BY <3>1
    <3> QED
      BY <1>1, <2>1, <3>1, <3>2, TailFacts
  <2>6. need => 1 \in 1 .. Len(c.free) /\ dst = c.free[1] /\ dst \in Tags
    <3>1. Len(c.free) \in Nat /\ Len(c.free) >= 1
      BY <2>1 DEF Room
    <3>2. c.free # <<>>
      BY <3>1
    <3> QED
      BY <2>1, <2>2, <3>1, <3>2, TailFacts
  <2>7. need => inst.rd \in Regs
    <3>1. inst.rd \in 0 .. ARCH_REGS - 1
      BY <2>5 DEF Instr
    <3>2. need => inst.rd # 0
      BY <1>1 DEF Toy!WritesDest
    <3> QED
      BY <3>1, <3>2 DEF Regs
  <2>8. dst \in Tags /\ (need => dst # 0) /\ (~ need => dst = 0)
    <3>1. 0 \in Tags
      BY SizesAssumption DEF Tags
    <3>2. need => c.free[1] \in Tags \ {0}
      BY <2>6 DEF CoreInv, TagsInv, Sharing
    <3> QED
      BY <2>2, <2>6, <3>1, <3>2
  <2>9. t \in Slots /\ ~ c.rob[t].valid
    <3>0. PICK R : R = ROB_SIZE /\ R \in Nat \ {0}
      BY SizesAssumption
    <3>1. /\ c.head \in 0 .. R - 1 /\ c.count \in 0 .. R - 1 /\ t = Ahead(c.head, c.count)
          /\ t \in Slots
      BY <1>1, <2>1, <3>0 DEF CoreInv, RingInv, Room, Ahead, Slots
    <3>2. Dist(c.head, t) = c.count
      BY <3>0, <3>1 DEF Dist, Ahead
    <3>3. c.rob[t].valid <=> Dist(c.head, t) < c.count
      BY <2>1, <3>1 DEF CoreInv, RingInv
    <3> QED
      BY <3>1, <3>2, <3>3
  <2>10. d.rob[t] = ne /\ \A i \in Slots : i # t => d.rob[i] = c.rob[i]
    BY <2>1, <2>3, <2>9
  <2>11. d.iq[m] = qe /\ \A i \in 1 .. IQ_SIZE : i # m => d.iq[i] = c.iq[i]
    BY <2>1, <2>3, <2>4
  <2>12. Queued(d) = Queued(c) \cup {m} /\ m \notin Queued(c) /\ \A i \in Queued(c) : d.iq[i] = c.iq[i]
    <3>1. qe.valid
      BY <2>2 DEF IqEntry
    <3> QED
      BY <2>4, <2>11, <3>1 DEF Queued
  <2>13. ASSUME NEW i \in Slots, c.rob[i].valid
         PROVE  c.rob[i].seq \in Nat /\ c.rob[i].seq < c.seq
    <3>1. PICK R, n, h, done, j : R = ROB_SIZE /\ n = c.count /\ h = c.head /\ done = c.committed /\ j = Dist(h, i)
      OBVIOUS
    <3>2. /\ R \in Nat \ {0} /\ h \in 0 .. R - 1 /\ i \in 0 .. R - 1 /\ n \in 0 .. R /\ done \in Nat
          /\ c.seq = done + n + 1 /\ j < n /\ c.rob[i].seq = done + 1 + j
      BY <2>13, <3>1, SizesAssumption DEF CoreInv, Shape, RingInv, Slots
    <3>3. j \in Nat
      BY <3>1, <3>2 DEF Dist
    <3> QED
      BY <3>2, <3>3
  <2>14. c.seq \in Nat
    BY SeqIsNat
  <2>15. /\ Toy!WritesDest(inst) => dst # 0 /\ 1 \in 1 .. Len(c.free) /\ dst = c.free[1] /\ inst.rd \in Regs
         /\ ~ Toy!WritesDest(inst) => dst = 0
    BY <1>1, <2>6, <2>7, <2>8
  <2>16. d.map = IF Toy!WritesDest(inst) THEN [c.map EXCEPT ![inst.rd] = dst] ELSE c.map
    BY <1>1, <2>3
  <2>17. d.ready = IF Toy!WritesDest(inst) THEN [c.ready EXCEPT ![dst] = FALSE] ELSE c.ready
    BY <1>1, <2>3
  <2>18. d.value = IF Toy!WritesDest(inst) THEN [c.value EXCEPT ![dst] = 0] ELSE c.value
    BY <1>1, <2>3
  <2>19. d.ingress = Tail(c.ingress) /\ d.seq = c.seq + 1 /\ d.committed = c.committed /\ d.halted = c.halted
    BY <2>3
  <2>20. ne = RobEntry(c, inst, dst) /\ qe = IqEntry(c, inst, dst)
    BY <2>2
  <2>21. Allots(c, d, inst, dst)
    BY <2>5, <2>8, <2>14, <2>15, <2>16, <2>17, <2>18, <2>19 DEF Allots
  <2>22. Records(c, d, inst, dst, t, ne)
    <3>1. \A i \in Slots : c.rob[i].valid => c.rob[i].seq \in Nat /\ c.rob[i].seq < c.seq
      BY <2>13
    <3>2. ne = RobEntry(c, inst, dst)
      BY <2>20
    <3> QED
      BY ONLY <2>9, <2>10, <3>1, <3>2 DEF Records
  <2>23. Queues(c, d, inst, dst, m, qe)
    BY <2>4, <2>11, <2>12, <2>20 DEF Queues
  <2> QED
    BY <1>1, <2>21, <2>22, <2>23 DEF Dispatches
<1> QED
  BY <1>2, <1>3

\* What is in the ring and in the reorder buffer is the program, in its order.
FetchedInv(c, p) == RingIs(p, c.seq - 1, c.ingress) /\ c.seq - 1 + Len(c.ingress) <= Len(p) /\ EntriesInv(c, p)

LEMMA FetchedCommit ==
  ASSUME NEW c, NEW k, NEW p, CoreInv(c), FetchedInv(c, p)
  PROVE  FetchedInv(CommitOne(c, k), p)
<1>1. PICK d : d = CommitOne(c, k)
  OBVIOUS
<1>2. CASE \E h : Commits(c, d, h)
  <2>1. PICK h : Commits(c, d, h)
    BY <1>2
  <2>2. \A i \in Filled(d) : i \in Filled(c) /\ d.rob[i] = c.rob[i]
    BY <2>1 DEF Commits, Filled
  <2> QED
    BY <1>1, <2>1, <2>2 DEF Commits, FetchedInv, EntriesInv
<1> QED
  BY <1>1, <1>2, CommitFacts

LEMMA FetchedDispatch ==
  ASSUME NEW c, NEW x, NEW k \in Nat, k >= 1, CoreInv(c), Room(c, k), NEW p \in Seq(Instr), FetchedInv(c, p)
  PROVE  FetchedInv(DispatchOne(c, x), p)
<1>1. PICK d : d = DispatchOne(c, x)
  OBVIOUS
<1>2. CASE \E inst, dst, t, ne, m, qe : Dispatches(c, d, inst, dst, t, ne, m, qe)
  <2>1. PICK inst, dst, t, ne, m, qe : Dispatches(c, d, inst, dst, t, ne, m, qe)
    BY <1>2
  <2>2. PICK ring, rest, n : ring = c.ingress /\ rest = d.ingress /\ n = c.seq - 1
    OBVIOUS
  <2>3. /\ ring \in Seq(Instr) /\ Len(ring) \in Nat /\ Len(ring) >= 1 /\ rest = Tail(ring) /\ inst = ring[1]
        /\ Len(rest) = Len(ring) - 1 /\ \A i \in 1 .. Len(ring) - 1 : rest[i] = ring[i + 1]
    <3>1. ring \in Seq(Instr) /\ ring # <<>> /\ rest = Tail(ring) /\ inst = ring[1]
      BY <2>1, <2>2 DEF Dispatches, Allots, CoreInv, Shape
    <3> QED
      BY <3>1, TailFacts
  <2>4. n \in Int /\ d.seq - 1 = n + 1 /\ c.seq = n + 1 /\ n \in Nat
    <3>1. c.seq >= 1 /\ c.seq \in Nat
      <4>1. PICK N, done : N = c.count /\ done = c.committed
        OBVIOUS
      <4>2. c.seq = done + N + 1 /\ done \in Nat /\ N \in 0 .. ROB_SIZE
        BY <4>1 DEF CoreInv, Shape, RingInv
      <4> QED
        BY <4>2, SizesAssumption
    <3> QED
      BY <2>1, <2>2, <3>1 DEF Dispatches, Allots
  <2>5. RingIs(p, n, ring) /\ n + Len(ring) <= Len(p) /\ EntriesInv(c, p)
    BY <2>2 DEF FetchedInv
  <2>6. inst = p[c.seq] /\ c.seq \in 1 .. Len(p)
    BY <2>3, <2>4, <2>5 DEF RingIs
  <2>7. RingIs(p, n + 1, rest) /\ n + 1 + Len(rest) <= Len(p)
    <3>1. PICK N : N = Len(ring) /\ N \in Nat /\ N >= 1
      BY <2>3
    <3>2. ASSUME NEW i \in 1 .. N - 1
          PROVE  rest[i] = p[n + 1 + i]
      <4>1. PICK j : j = i + 1 /\ j \in 1 .. N /\ n + j = n + 1 + i
        BY <2>4, <3>1
      <4>2. rest[i] = ring[j] /\ ring[j] = p[n + j]
        BY <2>3, <2>5, <3>1, <4>1 DEF RingIs
      <4> QED
        BY <4>1, <4>2
    <3>3. Len(rest) = N - 1 /\ n + N <= Len(p)
      BY <2>3, <2>5, <3>1
    <3>4. n + 1 + Len(rest) = n + N
      BY <2>4, <3>1, <3>3
    <3> QED
      BY <3>2, <3>3, <3>4 DEF RingIs
  <2>8. EntryIs(ne, p)
    <3>1. ne = RobEntry(c, inst, dst)
      BY <2>1 DEF Dispatches, Records
    <3>2. /\ {"valid", "ready", "hasDest", "op", "rd", "dst", "seq", "old"} \subseteq DOMAIN ne
          /\ ne.seq = c.seq /\ ne.op = inst.op /\ ne.rd = inst.rd /\ ne.hasDest = Toy!WritesDest(inst)
      BY <3>1 DEF RobEntry
    <3> QED
      BY <2>6, <3>2 DEF EntryIs
  <2>9. EntriesInv(d, p)
    <3>1. ASSUME NEW i \in Filled(d)
          PROVE  EntryIs(d.rob[i], p)
      <4>1. i \in Slots
        BY DEF Filled
      <4>2. CASE i = t
        BY <2>1, <2>8, <4>2 DEF Dispatches, Records
      <4>3. CASE i # t
        BY <2>1, <2>5, <4>1, <4>3 DEF Dispatches, Records, Filled, EntriesInv
      <4> QED
        BY <4>2, <4>3
    <3> QED
      BY <3>1 DEF EntriesInv
  <2> QED
    BY <1>1, <2>2, <2>4, <2>7, <2>9 DEF FetchedInv
<1> QED
  BY <1>1, <1>2, DispatchFacts

\* What an entry of the issue queue waits for is still to come.
LEMMA QueuedSame ==
  ASSUME NEW c, NEW d, NEW p, NEW e, QueuedIs(c, p, e),
         \A t, r, s, v : Pending(c, p, t, r, s, v) => Pending(d, p, t, r, s, v)
  PROVE  QueuedIs(d, p, e)
BY DEF QueuedIs, OperandIs

\* A write-back leaves the program's order alone.
LEMMA FetchedWriteback ==
  ASSUME NEW c, NEW T, NEW l, NEW q, NEW wb, NEW p, FlowInv(c, T), FetchedInv(c, p),
         q = IF l \in AluLanes THEN alu[l].resultq ELSE lsu[l].resultq, q # <<>>, wb = Head(q), Ticket(wb) \in T
  PROVE  FetchedInv(WritebackOf(c, l), p)
<1>1. PICK d, h : d = WritebackOf(c, l) /\ h = wb.rob
  OBVIOUS
<1>2. d = Writeback(c, wb)
  BY <1>1 DEF WritebackOf
<1>3. DOMAIN c = CoreFields /\ DOMAIN c.rob = Slots
  BY DEF FlowInv, CoreInv, Shape
<1>4. d.seq = c.seq /\ d.ingress = c.ingress /\ d.rob = [c.rob EXCEPT ![h].ready = TRUE]
  BY <1>1, <1>2, <1>3 DEF Writeback, CoreFields
<1>5. h \in Slots /\ c.rob[h].valid
  <2>1. Filed(c, Ticket(wb))
    BY DEF FlowInv, FilingInv
  <2> QED
    BY <1>1, <2>1 DEF Filed, Ticket
<1>6. EntryIs(c.rob[h], p)
  BY <1>5 DEF FetchedInv, EntriesInv, Filled
<1>7. PICK e, x : e = c.rob[h] /\ x = [e EXCEPT !.ready = TRUE]
  OBVIOUS
<1>8. DOMAIN x = DOMAIN e /\ x.seq = e.seq /\ x.op = e.op /\ x.rd = e.rd /\ x.hasDest = e.hasDest
  BY <1>6, <1>7 DEF EntryIs
<1>9. EntryIs(x, p)
  BY <1>6, <1>7, <1>8 DEF EntryIs
<1>10. d.rob[h] = x /\ \A i \in Slots : i # h => d.rob[i] = c.rob[i]
  BY <1>3, <1>4, <1>5, <1>7
<1>11. EntriesInv(d, p)
  BY <1>5, <1>9, <1>10 DEF FetchedInv, EntriesInv, Filled
<1> QED
  BY <1>1, <1>4, <1>11 DEF FetchedInv

\* A commit leaves what is in flight alone.
LEMMA DataCommit ==
  ASSUME NEW c, NEW T, NEW k, NEW p \in Seq(Instr), FlowInv(c, T), DataInv(c, p)
  PROVE  DataInv(CommitOne(c, k), p)
<1>0. CoreInv(c) /\ FetchedInv(c, p)
  BY DEF FlowInv, DataInv, FetchedInv
<1>1. PICK d : d = CommitOne(c, k)
  OBVIOUS
<1>2. CASE \E h : Commits(c, d, h)
  <2>1. PICK h : Commits(c, d, h)
    BY <1>2
  <2>2. FetchedInv(d, p)
    BY <1>0, <1>1, FetchedCommit
  <2>3. \A i \in Filled(d) : i \in Filled(c) /\ i # h /\ d.rob[i] = c.rob[i]
    BY <2>1 DEF Commits, Filled
  <2>4. \A i \in Kept(d) : i \in Kept(c) /\ i \in Filled(d) /\ i # h /\ d.rob[i] = c.rob[i]
    BY <2>3 DEF Kept, Filled
  <2>5. \A i \in Kept(c) : i # h => i \in Kept(d) /\ d.rob[i] = c.rob[i]
    BY <2>1 DEF Commits, Kept
  <2>6. \A w \in Kept(c) : ~ c.rob[w].ready => w \in Kept(d) /\ d.rob[w] = c.rob[w]
    BY <2>1, <2>5 DEF Commits
  <2>7. \A t, r, s, v : Pending(c, p, t, r, s, v) => Pending(d, p, t, r, s, v)
    BY <2>6 DEF Pending
  <2>8. /\ d.map = c.map /\ d.ready = c.ready /\ d.value = c.value /\ d.seq = c.seq /\ d.iq = c.iq
        /\ d.committed = c.committed + 1 /\ d.halted = (c.halted \/ c.rob[h].op = "HALT")
    BY <2>1 DEF Commits
  <2>9. \A t, r, s, v : HoldsTag(c, p, t, r, s, v) => HoldsTag(d, p, t, r, s, v)
    BY <2>7, <2>8 DEF HoldsTag
  <2>10. DestsInv(d)
    <3>1. ASSUME NEW i \in Kept(d)
          PROVE  \/ d.rob[i].dst = d.map[d.rob[i].rd]
                 \/ \E j \in Kept(d) : d.rob[j].old = d.rob[i].dst /\ d.rob[j].seq > d.rob[i].seq
      <4>1. i \in Kept(c) /\ d.rob[i] = c.rob[i]
        BY <2>4
      <4>2. CASE c.rob[i].dst = c.map[c.rob[i].rd]
        BY <2>8, <4>1, <4>2
      <4>3. CASE \E j \in Kept(c) : c.rob[j].old = c.rob[i].dst /\ c.rob[j].seq > c.rob[i].seq
        <5>1. PICK j \in Kept(c) : c.rob[j].old = c.rob[i].dst /\ c.rob[j].seq > c.rob[i].seq
          BY <4>3
        <5>2. c.rob[i].seq \in Int /\ c.rob[h].seq \in Int /\ c.rob[i].seq >= c.rob[h].seq
          <6>1. i \in Filled(c) /\ h \in Filled(c)
            BY <2>1, <4>1 DEF Commits, Kept, Filled
          <6>2. EntryIs(c.rob[i], p) /\ EntryIs(c.rob[h], p)
            BY <6>1 DEF DataInv, EntriesInv
          <6> QED
            BY <2>1, <6>1, <6>2 DEF Commits, Filled, EntryIs
        <5>3. j # h
          BY <5>1, <5>2
        <5> QED
          BY <2>5, <4>1, <5>1, <5>3
      <4> QED
        BY <4>1, <4>2, <4>3 DEF DataInv, DestsInv
    <3>2. \A i \in Filled(d) : d.rob[i].dst \in Tags /\ (d.rob[i].hasDest <=> d.rob[i].dst # 0)
      BY <2>3 DEF DataInv, DestsInv
    <3>3. \A i, j \in Kept(d) : d.rob[i].dst = d.rob[j].dst => i = j
      BY <2>4 DEF DataInv, DestsInv
    <3>4. \A i \in Kept(d) : ~ d.rob[i].ready => ~ d.ready[d.rob[i].dst]
      BY <2>4, <2>8 DEF DataInv, DestsInv
    <3>5. DOMAIN d.value = Tags
      BY <2>8 DEF DataInv, DestsInv
    <3> QED
      BY <3>1, <3>2, <3>3, <3>4, <3>5 DEF DestsInv
  <2>11. MapInv(d, p)
    BY <2>8, <2>9 DEF DataInv, MapInv
  <2>12. OldInv(d, p)
    BY <2>4, <2>9 DEF DataInv, OldInv
  <2>13. WaitingInv(d, p)
    <3>1. ASSUME NEW i \in Queued(d)
          PROVE  QueuedIs(d, p, d.iq[i])
      <4>1. i \in Queued(c) /\ d.iq[i] = c.iq[i]
        BY <2>8 DEF Queued
      <4>2. QueuedIs(c, p, c.iq[i])
        BY <4>1 DEF DataInv, WaitingInv
      <4> QED
        BY <2>7, <4>1, <4>2, QueuedSame
    <3> QED
      BY <3>1 DEF WaitingInv
  <2>14. HaltInv(d, p)
    <3>1. PICK n : n = c.rob[h].seq /\ n = c.committed + 1 /\ n \in 1 .. Len(p) /\ c.rob[h].op = p[n].op
      <4>1. EntryIs(c.rob[h], p)
        BY <2>1 DEF Commits, Filled, DataInv, EntriesInv
      <4> QED
        BY <2>1, <4>1 DEF Commits, EntryIs
    <3>2. c.committed = n - 1 /\ d.committed = n
      BY <2>1, <2>8, <3>1 DEF Commits
    <3>3. c.halted = Ref(p, n - 1).halted
      BY <3>2 DEF DataInv, HaltInv
    <3>4. Ref(p, n).halted = (Ref(p, n - 1).halted \/ p[n].op = "HALT")
      BY <3>1, RefNext
    <3> QED
      BY <2>8, <3>1, <3>2, <3>3, <3>4 DEF HaltInv
  <2> QED
    BY <1>1, <2>2, <2>10, <2>11, <2>12, <2>13, <2>14 DEF DataInv, FetchedInv
<1> QED
  BY <1>0, <1>1, <1>2, CommitFacts

\* The instruction that leaves the ring is the next of the program.
LEMMA NextFetched ==
  ASSUME NEW c, NEW d, NEW inst, NEW dst, NEW p \in Seq(Instr), CoreInv(c), FetchedInv(c, p), Allots(c, d, inst, dst)
  PROVE  c.seq \in 1 .. Len(p) /\ inst = p[c.seq]
<1>1. PICK ring, n, s : ring = c.ingress /\ n = c.seq - 1 /\ s = c.seq
  OBVIOUS
<1>2. ring \in Seq(Instr) /\ ring # <<>> /\ inst = ring[1] /\ s \in Nat
  BY <1>1 DEF Allots, CoreInv, Shape
<1>3. Len(ring) \in Nat /\ Len(ring) >= 1
  BY <1>2
<1>4. s >= 1
  <2>1. PICK N, done : N = c.count /\ done = c.committed
    OBVIOUS
  <2>2. c.seq = done + N + 1 /\ done \in Nat /\ N \in 0 .. ROB_SIZE
    BY <2>1 DEF CoreInv, Shape, RingInv
  <2> QED
    BY <1>1, <2>2, SizesAssumption
<1>5. RingIs(p, n, ring) /\ n + Len(ring) <= Len(p)
  BY <1>1 DEF FetchedInv
<1>6. ring[1] = p[n + 1]
  BY <1>3, <1>5 DEF RingIs
<1> QED
  BY <1>1, <1>2, <1>3, <1>4, <1>5, <1>6

\* A dispatch renames its destination, and its sources hold what the
\* instructions before it leave, or wait for it.
LEMMA DataDispatch ==
  ASSUME NEW c, NEW T, NEW x, NEW k \in Nat, k >= 1, NEW p \in Seq(Instr), FlowInv(c, T), Room(c, k),
         DataInv(c, p)
  PROVE  DataInv(DispatchOne(c, x), p)
<1>0. CoreInv(c) /\ FetchedInv(c, p)
  BY DEF FlowInv, DataInv, FetchedInv
<1>1. PICK d : d = DispatchOne(c, x)
  OBVIOUS
<1>2. CASE \E inst, dst, t, ne, m, qe : Dispatches(c, d, inst, dst, t, ne, m, qe)
  <2>1. PICK inst, dst, t, ne, m, qe : Allots(c, d, inst, dst) /\ Records(c, d, inst, dst, t, ne)
                                       /\ Queues(c, d, inst, dst, m, qe)
    BY <1>2 DEF Dispatches
  <2>2. FetchedInv(d, p)
    BY <1>0, <1>1, FetchedDispatch
  <2>3. PICK s, need : s = c.seq /\ s \in 1 .. Len(p) /\ inst = p[s] /\ need = Toy!WritesDest(inst)
    BY <1>0, <2>1, NextFetched
  <2>4. /\ d.seq = s + 1 /\ d.committed = c.committed /\ d.halted = c.halted /\ inst \in Instr /\ dst \in Tags
        /\ need => dst # 0 /\ 1 \in 1 .. Len(c.free) /\ dst = c.free[1] /\ inst.rd \in Regs
        /\ ~ need => dst = 0
        /\ d.map = IF need THEN [c.map EXCEPT ![inst.rd] = dst] ELSE c.map
        /\ d.ready = IF need THEN [c.ready EXCEPT ![dst] = FALSE] ELSE c.ready
        /\ d.value = IF need THEN [c.value EXCEPT ![dst] = 0] ELSE c.value
    BY <2>1, <2>3 DEF Allots
  <2>5. /\ t \in Slots /\ ~ c.rob[t].valid /\ ne = RobEntry(c, inst, dst)
        /\ d.rob[t] = ne /\ \A i \in Slots : i # t => d.rob[i] = c.rob[i]
        /\ \A i \in Slots : c.rob[i].valid => c.rob[i].seq \in Nat /\ c.rob[i].seq < s
    BY <2>1, <2>3 DEF Records
  <2>6. /\ ne.valid /\ ~ ne.ready /\ ne.hasDest = need /\ ne.op = inst.op /\ ne.rd = inst.rd
        /\ ne.dst = dst /\ ne.seq = s /\ (need => ne.old = c.map[inst.rd])
    <3>1. need => inst.rd # 0
      BY <2>3 DEF Toy!WritesDest
    <3> QED
      BY <2>3, <2>5, <3>1 DEF RobEntry
  <2>7. /\ Kept(c) \subseteq Kept(d) /\ Kept(c) \subseteq Slots
        /\ \A i \in Kept(d) : i \in Kept(c) \/ (i = t /\ need)
        /\ need => t \in Kept(d)
        /\ \A i \in Kept(c) : i # t /\ d.rob[i] = c.rob[i] /\ c.rob[i].valid
    BY <2>5, <2>6 DEF Kept
  <2>8. \A i \in Kept(c) : c.rob[i].rd \in Regs /\ c.rob[i].seq \in Nat /\ c.rob[i].seq < s
    <3>1. ASSUME NEW i \in Kept(c)
          PROVE  c.rob[i].rd \in Regs
      <4>1. PICK n : n = c.rob[i].seq /\ n \in 1 .. Len(p) /\ c.rob[i].rd = p[n].rd /\ Toy!WritesDest(p[n])
        BY DEF Kept, Filled, DataInv, EntriesInv, EntryIs
      <4>2. p[n].rd \in 0 .. ARCH_REGS - 1 /\ p[n].rd # 0
        <5>1. p[n] \in Instr
          BY <4>1
        <5> QED
          BY <4>1, <5>1 DEF Instr, Toy!WritesDest
      <4> QED
        BY <4>1, <4>2 DEF Regs
    <3> QED
      BY <2>5, <2>7, <3>1
  <2>9. /\ \A r \in Regs : c.map[r] \in Tags \ {0}
        /\ \A i \in Kept(c) : c.rob[i].old \in Tags \ {0}
        /\ need => \A r \in Regs : c.map[r] # dst
        /\ need => \A i \in Kept(c) : c.rob[i].old # dst
    <3>0. \A i \in Kept(c) : Olds(c)[i] = c.rob[i].old
      BY DEF Olds, Kept
    <3>1. PICK olds, n : olds = Olds(c) /\ n = Len(c.free) /\ \A i \in Kept(c) : olds[i] = c.rob[i].old
      BY <3>0
    <3>2. Sharing(c.free, c.map, Kept(c), olds)
      BY <1>0, <3>1 DEF CoreInv, TagsInv
    <3>3. /\ \A r \in Regs : c.map[r] \in Tags \ {0}
          /\ \A i \in Kept(c) : olds[i] \in Tags \ {0}
          /\ \A a \in 1 .. n, r \in Regs : c.free[a] # c.map[r]
          /\ \A a \in 1 .. n, i \in Kept(c) : c.free[a] # olds[i]
      BY <3>1, <3>2 DEF Sharing
    <3> QED
      BY <2>4, <3>1, <3>3
  <2>10. need => \A i \in Kept(c) : c.rob[i].dst # dst
    BY <2>8, <2>9 DEF DataInv, DestsInv
  <2>11. DOMAIN c.ready = Tags /\ DOMAIN c.value = Tags /\ c.map \in [0 .. ARCH_REGS - 1 -> Tags]
    BY <1>0 DEF FlowInv, EntryShape, DataInv, DestsInv, CoreInv, Shape
  <2>12. \A u \in Tags \ {0} : u # dst => d.ready[u] = c.ready[u] /\ d.value[u] = c.value[u]
    BY <2>4, <2>11
  <2>13. \A u, r, v, a : Pending(c, p, u, r, a, v) => Pending(d, p, u, r, a, v)
    BY <2>7 DEF Pending
  <2>14. \A u, r, v : Pending(c, p, u, r, s, v) => Pending(c, p, u, r, s + 1, v)
    BY <2>3, <2>8 DEF Pending
  <2>15. ASSUME NEW u \in Tags \ {0}, u # dst, NEW r, NEW a, NEW v, HoldsTag(c, p, u, r, a, v)
         PROVE  HoldsTag(d, p, u, r, a, v)
    <3>1. d.ready[u] = c.ready[u] /\ d.value[u] = c.value[u]
      BY <2>12, <2>15
    <3>2. CASE c.ready[u]
      <4>1. c.value[u] = v
        BY <2>15, <3>2 DEF HoldsTag
      <4> QED
        BY <3>1, <3>2, <4>1 DEF HoldsTag
    <3>3. CASE ~ c.ready[u]
      <4>1. Pending(c, p, u, r, a, v)
        BY <2>15, <3>3 DEF HoldsTag
      <4>2. Pending(d, p, u, r, a, v)
        BY <2>13, <4>1
      <4> QED
        BY <3>1, <3>3, <4>2 DEF HoldsTag
    <3> QED
      BY <3>2, <3>3
  <2>16. \A r \in Regs : d.map[r] = IF need /\ r = inst.rd THEN dst ELSE c.map[r]
    <3>1. \A r \in Regs : r \in 0 .. ARCH_REGS - 1
      BY DEF Regs
    <3> QED
      BY <2>4, <2>11, <3>1
  <2>17. need => ~ d.ready[dst]
    BY <2>4, <2>11
  <2>18. MapInv(d, p)
    <3> SUFFICES ASSUME NEW r \in Regs
                 PROVE  HoldsTag(d, p, d.map[r], r, s + 1, RegAt(p, s, r))
      BY <2>3, <2>4 DEF MapInv
    <3>1. RegAt(p, s, r) = IF need /\ inst.rd = r THEN Val(p, s) ELSE RegAt(p, s - 1, r)
      <4>1. r \in 0 .. ARCH_REGS - 1
        BY DEF Regs
      <4> QED
        BY <2>3, <4>1, RegNext
    <3>2. CASE need /\ inst.rd = r
      <4>1. t \in Kept(d) /\ ~ d.rob[t].ready /\ d.rob[t].dst = dst /\ d.rob[t].rd = r /\ d.rob[t].seq = s
        BY <2>5, <2>6, <2>7, <3>2
      <4>2. s < s + 1
        BY <2>3
      <4>3. Pending(d, p, dst, r, s + 1, Val(p, s))
        BY <4>1, <4>2 DEF Pending
      <4> QED
        BY <2>16, <2>17, <3>1, <3>2, <4>3 DEF HoldsTag
    <3>3. CASE ~ (need /\ inst.rd = r)
      <4>1. PICK u, v : u = c.map[r] /\ v = RegAt(p, s - 1, r)
        OBVIOUS
      <4>2. HoldsTag(c, p, u, r, s, v)
        BY <2>3, <4>1 DEF DataInv, MapInv
      <4>3. HoldsTag(c, p, u, r, s + 1, v)
        BY <2>14, <4>2 DEF HoldsTag
      <4>4. u \in Tags \ {0} /\ u # dst
        BY <2>4, <2>9, <4>1
      <4>5. HoldsTag(d, p, u, r, s + 1, v)
        BY <2>15, <4>3, <4>4
      <4> QED
        BY <2>16, <3>1, <3>3, <4>1, <4>5
    <3> QED
      BY <3>2, <3>3
  <2>19. OldInv(d, p)
    <3> SUFFICES ASSUME NEW i \in Kept(d)
                 PROVE  HoldsTag(d, p, d.rob[i].old, d.rob[i].rd, d.rob[i].seq,
                                 RegAt(p, d.rob[i].seq - 1, d.rob[i].rd))
      BY DEF OldInv
    <3>1. CASE i \in Kept(c)
      <4>1. PICK u, r, a, v : u = c.rob[i].old /\ r = c.rob[i].rd /\ a = c.rob[i].seq /\ v = RegAt(p, a - 1, r)
        OBVIOUS
      <4>2. HoldsTag(c, p, u, r, a, v)
        BY <3>1, <4>1 DEF DataInv, OldInv
      <4>3. u \in Tags \ {0} /\ u # dst
        BY <2>4, <2>9, <3>1, <4>1
      <4>4. HoldsTag(d, p, u, r, a, v)
        BY <2>15, <4>2, <4>3
      <4> QED
        BY <2>7, <3>1, <4>1, <4>4
    <3>2. CASE i = t /\ need
      <4>1. PICK u, r, v : u = c.map[inst.rd] /\ r = inst.rd /\ v = RegAt(p, s - 1, r) /\ r \in Regs
        BY <2>4, <3>2
      <4>2. HoldsTag(c, p, u, r, s, v)
        BY <2>3, <4>1 DEF DataInv, MapInv
      <4>3. u \in Tags \ {0} /\ u # dst
        BY <2>9, <3>2, <4>1
      <4>4. HoldsTag(d, p, u, r, s, v)
        BY <2>15, <4>2, <4>3
      <4>5. d.rob[i].old = u /\ d.rob[i].rd = r /\ d.rob[i].seq = s
        BY <2>5, <2>6, <3>2, <4>1
      <4> QED
        BY <4>1, <4>4, <4>5
    <3> QED
      BY <2>7, <3>1, <3>2
  <2>20. \A i \in Queued(c) : QueuedIs(d, p, c.iq[i])
    BY <2>13, QueuedSame DEF DataInv, WaitingInv
  <2>21. QueuedIs(d, p, qe)
    <3>1. qe = IqEntry(c, inst, dst)
      BY <2>1 DEF Queues
    <3>2. ASSUME NEW r \in 0 .. ARCH_REGS - 1, NEW tag, NEW ready, NEW src,
                 tag = IF r = 0 THEN 0 ELSE c.map[r], ready = (r = 0 \/ c.ready[tag]),
                 src = IF r = 0 THEN 0 ELSE c.value[tag]
          PROVE  OperandIs(d, p, ready, src, tag, r, s)
      <4>1. CASE r = 0
        BY <3>2, <4>1 DEF OperandIs, RegAt
      <4>2. CASE r # 0
        <5>1. r \in Regs
          BY <4>2, SizesAssumption DEF Regs
        <5>2. PICK v : v = RegAt(p, s - 1, r)
          OBVIOUS
        <5>3. HoldsTag(c, p, tag, r, s, v)
          BY <2>3, <3>2, <4>2, <5>1, <5>2 DEF DataInv, MapInv
        <5>4. CASE c.ready[tag]
          BY <3>2, <4>2, <5>2, <5>3, <5>4 DEF OperandIs, HoldsTag
        <5>5. CASE ~ c.ready[tag]
          <6>1. Pending(d, p, tag, r, s, v)
            BY <2>13, <5>3, <5>5 DEF HoldsTag
          <6> QED
            BY <3>2, <4>2, <5>2, <5>5, <6>1 DEF OperandIs
        <5> QED
          BY <5>4, <5>5
      <4> QED
        BY <4>1, <4>2
    <3>3. inst.src1 \in 0 .. ARCH_REGS - 1 /\ inst.src2 \in 0 .. ARCH_REGS - 1
      BY <2>4 DEF Instr
    <3>4. /\ qe.seq = s /\ qe.op = inst.op /\ qe.imm = inst.imm /\ qe.isLsu = Toy!IsLsu(inst)
          /\ {"imm", "src1", "src2"} \subseteq DOMAIN qe
      BY <2>3, <3>1 DEF IqEntry
    <3>5. /\ qe.tag1 = IF inst.src1 = 0 THEN 0 ELSE c.map[inst.src1]
          /\ qe.ready1 = (inst.src1 = 0 \/ c.ready[qe.tag1])
          /\ qe.src1 = IF inst.src1 = 0 THEN 0 ELSE c.value[qe.tag1]
      BY <3>1 DEF IqEntry
    <3>6. /\ qe.tag2 = IF inst.src2 = 0 THEN 0 ELSE c.map[inst.src2]
          /\ qe.ready2 = (inst.src2 = 0 \/ c.ready[qe.tag2])
          /\ qe.src2 = IF inst.src2 = 0 THEN 0 ELSE c.value[qe.tag2]
      BY <3>1 DEF IqEntry
    <3>7. OperandIs(d, p, qe.ready1, qe.src1, qe.tag1, inst.src1, s)
      BY <3>2, <3>3, <3>5
    <3>8. OperandIs(d, p, qe.ready2, qe.src2, qe.tag2, inst.src2, s)
      BY <3>2, <3>3, <3>6
    <3> QED
      BY <2>3, <3>4, <3>7, <3>8 DEF QueuedIs
  <2>22. WaitingInv(d, p)
    BY <2>1, <2>20, <2>21 DEF WaitingInv, Queues
  <2>23. DestsInv(d)
    <3>1. \A i \in Filled(d) : d.rob[i].dst \in Tags /\ (d.rob[i].hasDest <=> d.rob[i].dst # 0)
      <4>1. ASSUME NEW i \in Filled(d)
            PROVE  d.rob[i].dst \in Tags /\ (d.rob[i].hasDest <=> d.rob[i].dst # 0)
        <5>1. CASE i = t
          BY <2>4, <2>5, <2>6, <5>1
        <5>2. CASE i # t
          BY <2>5, <5>2 DEF Filled, DataInv, DestsInv
        <5> QED
          BY <5>1, <5>2
      <4> QED
        BY <4>1
    <3>2. ASSUME NEW i \in Kept(d), NEW j \in Kept(d), d.rob[i].dst = d.rob[j].dst
          PROVE  i = j
      <4>1. t \in Kept(d) => d.rob[t].dst = dst
        BY <2>5, <2>6
      <4> QED
        BY <2>7, <2>10, <3>2, <4>1 DEF DataInv, DestsInv
    <3>3. ASSUME NEW i \in Kept(d)
          PROVE  \/ d.rob[i].dst = d.map[d.rob[i].rd]
                 \/ \E j \in Kept(d) : d.rob[j].old = d.rob[i].dst /\ d.rob[j].seq > d.rob[i].seq
      <4>1. CASE i = t /\ need
        BY <2>4, <2>5, <2>6, <2>16, <4>1
      <4>2. CASE i \in Kept(c)
        <5>1. d.rob[i] = c.rob[i] /\ c.rob[i].rd \in Regs /\ c.rob[i].seq < s
          BY <2>7, <2>8, <4>2
        <5>2. CASE c.rob[i].dst = c.map[c.rob[i].rd]
          <6>1. CASE need /\ c.rob[i].rd = inst.rd
            <7>1. t \in Kept(d) /\ d.rob[t].old = c.map[inst.rd] /\ d.rob[t].seq = s
              BY <2>5, <2>6, <2>7, <6>1
            <7>2. d.rob[t].old = d.rob[i].dst /\ d.rob[t].seq > d.rob[i].seq
              BY <2>3, <2>8, <4>2, <5>1, <5>2, <6>1, <7>1
            <7> QED
              BY <7>1, <7>2
          <6>2. CASE ~ (need /\ c.rob[i].rd = inst.rd)
            BY <2>16, <5>1, <5>2, <6>2
          <6> QED
            BY <6>1, <6>2
        <5>3. CASE \E j \in Kept(c) : c.rob[j].old = c.rob[i].dst /\ c.rob[j].seq > c.rob[i].seq
          BY <2>7, <5>1, <5>3
        <5> QED
          BY <4>2, <5>2, <5>3 DEF DataInv, DestsInv
      <4> QED
        BY <2>7, <4>1, <4>2
    <3>4. ASSUME NEW i \in Kept(d), ~ d.rob[i].ready
          PROVE  ~ d.ready[d.rob[i].dst]
      <4>1. CASE i = t /\ need
        BY <2>5, <2>6, <2>17, <4>1
      <4>2. CASE i \in Kept(c)
        <5>1. d.rob[i] = c.rob[i] /\ c.rob[i].dst \in Tags \ {0} /\ ~ c.ready[c.rob[i].dst]
          BY <2>7, <3>4, <4>2 DEF Kept, Filled, DataInv, DestsInv
        <5>2. c.rob[i].dst # dst
          BY <2>4, <2>10, <4>2, <5>1
        <5> QED
          BY <2>12, <5>1, <5>2
      <4> QED
        BY <2>7, <4>1, <4>2
    <3>5. DOMAIN d.value = Tags
      BY <2>4, <2>11
    <3> QED
      BY <3>1, <3>2, <3>3, <3>4, <3>5 DEF DestsInv
  <2>24. HaltInv(d, p)
    BY <2>4 DEF DataInv, HaltInv
  <2> QED
    BY <1>1, <2>2, <2>18, <2>19, <2>22, <2>23, <2>24 DEF DataInv, FetchedInv
<1> QED
  BY <1>0, <1>1, <1>2, DispatchFacts

\* What is issued leaves the queue.
LEMMA DataIssue ==
  ASSUME NEW c, NEW T, NEW chosen \in [Lanes -> {0} \cup Queued(c)], NEW p, FlowInv(c, T), DataInv(c, p)
  PROVE  DataInv(Issued(c, chosen), p)
<1> DEFINE gone == { chosen[l] : l \in DOMAIN chosen } \ {0}
<1>1. PICK d : d = Issued(c, chosen)
  OBVIOUS
<1>2. DOMAIN c = CoreFields /\ DOMAIN c.iq = 1 .. IQ_SIZE
  BY DEF FlowInv, CoreInv, Shape
<1>3. /\ d.map = c.map /\ d.rob = c.rob /\ d.seq = c.seq /\ d.ready = c.ready /\ d.value = c.value
      /\ d.ingress = c.ingress /\ d.committed = c.committed /\ d.halted = c.halted
      /\ d.iq = [i \in 1 .. IQ_SIZE |-> IF i \in gone THEN Empty ELSE c.iq[i]]
  BY <1>1, <1>2 DEF Issued, CoreFields
<1> HIDE DEF gone
<1>4. \A i \in Queued(d) : i \in Queued(c) /\ d.iq[i] = c.iq[i]
  BY <1>3 DEF Queued, Empty
<1>5. Filled(d) = Filled(c) /\ Kept(d) = Kept(c)
  BY <1>3 DEF Filled, Kept
<1>6. \A t, r, s, v : Pending(c, p, t, r, s, v) => Pending(d, p, t, r, s, v)
  BY <1>3, <1>5 DEF Pending
<1>7. \A t, r, s, v : HoldsTag(c, p, t, r, s, v) => HoldsTag(d, p, t, r, s, v)
  BY <1>3, <1>6 DEF HoldsTag
<1>8. EntriesInv(d, p) /\ DestsInv(d)
  BY <1>3, <1>5 DEF DataInv, EntriesInv, DestsInv
<1>9. MapInv(d, p) /\ OldInv(d, p)
  BY <1>3, <1>5, <1>7 DEF DataInv, MapInv, OldInv
<1>10. WaitingInv(d, p)
  <2>1. ASSUME NEW i \in Queued(d)
        PROVE  QueuedIs(d, p, d.iq[i])
    <3>1. QueuedIs(c, p, c.iq[i]) /\ d.iq[i] = c.iq[i]
      BY <1>4 DEF DataInv, WaitingInv
    <3> QED
      BY <1>6, <3>1, QueuedSame
  <2> QED
    BY <2>1 DEF WaitingInv
<1> QED
  BY <1>1, <1>3, <1>8, <1>9, <1>10 DEF DataInv, HaltInv

\* A store that has been sent left in undo what it replaced; those that can
\* be ready or committed have been sent, those in the issue queue have not.
Stored(undo, s) == \E u \in undo : u.seq = s

StoresInv(c, p, undo, lo) ==
  /\ \A i \in Filled(c) : c.rob[i].ready /\ c.rob[i].op = "STORE" => Stored(undo, c.rob[i].seq)
  /\ \A i \in Queued(c) : ~ Stored(undo, c.iq[i].seq)
  /\ \A u \in undo : u.seq \in Nat /\ u.seq < c.seq
  /\ \A s \in lo + 1 .. c.committed : p[s].op = "STORE" => Stored(undo, s)

LEMMA StoresWriteback ==
  ASSUME NEW c, NEW T, NEW l, NEW q, NEW wb, NEW p, NEW undo, NEW lo, FlowInv(c, T), DataInv(c, p),
         StoresInv(c, p, undo, lo),
         q = IF l \in AluLanes THEN alu[l].resultq ELSE lsu[l].resultq, q # <<>>, wb = Head(q),
         Ticket(wb) \in T, p[wb.seq].op = "STORE" => Stored(undo, wb.seq)
  PROVE  StoresInv(WritebackOf(c, l), p, undo, lo)
<1>1. PICK d, h : d = WritebackOf(c, l) /\ h = wb.rob
  OBVIOUS
<1>2. d = Writeback(c, wb)
  BY <1>1 DEF WritebackOf
<1>3. /\ DOMAIN c = CoreFields /\ DOMAIN c.rob = Slots /\ DOMAIN c.iq = 1 .. IQ_SIZE
      /\ \A i \in 1 .. IQ_SIZE : "valid" \in DOMAIN c.iq[i]
  BY DEF FlowInv, CoreInv, Shape
<1>4. /\ d.seq = c.seq /\ d.committed = c.committed /\ d.rob = [c.rob EXCEPT ![h].ready = TRUE]
      /\ d.iq = [i \in 1 .. IQ_SIZE |-> Woken(c.iq[i], wb)]
  <2>1. d.seq = c.seq /\ d.committed = c.committed /\ d.rob = [c.rob EXCEPT ![h].ready = TRUE]
    BY <1>1, <1>2, <1>3 DEF Writeback, CoreFields
  <2>2. d.iq = [i \in 1 .. IQ_SIZE |-> Woken(c.iq[i], wb)]
    BY <1>2, <1>3 DEF Writeback, CoreFields
  <2> QED
    BY <2>1, <2>2
<1>5. h \in Filled(c) /\ c.rob[h].seq = wb.seq
  <2>1. Filed(c, Ticket(wb))
    BY DEF FlowInv, FilingInv
  <2> QED
    BY <1>1, <2>1 DEF Filed, Ticket, Filled
<1>6. EntryIs(c.rob[h], p)
  BY <1>5 DEF DataInv, EntriesInv
<1>7. PICK e, x : e = c.rob[h] /\ x = [e EXCEPT !.ready = TRUE]
  OBVIOUS
<1>8. x.seq = e.seq /\ x.op = e.op
  BY <1>7
<1>9. h \in Slots /\ d.rob[h] = x /\ \A i \in Slots : i # h => d.rob[i] = c.rob[i]
  BY <1>3, <1>4, <1>5, <1>7 DEF Filled
<1>10. ASSUME NEW i \in Filled(d), d.rob[i].ready, d.rob[i].op = "STORE"
       PROVE  Stored(undo, d.rob[i].seq)
  <2>1. CASE i = h
    <3>1. d.rob[i].seq = wb.seq /\ p[wb.seq].op = "STORE"
      BY <1>5, <1>6, <1>7, <1>8, <1>9, <1>10, <2>1 DEF EntryIs
    <3> QED
      BY <3>1
  <2>2. CASE i # h
    <3>1. i \in Filled(c) /\ d.rob[i] = c.rob[i]
      BY <1>9, <2>2 DEF Filled
    <3> QED
      BY <1>10, <3>1 DEF StoresInv
  <2> QED
    BY <2>1, <2>2
<1>11. ASSUME NEW i \in Queued(d)
       PROVE  ~ Stored(undo, d.iq[i].seq)
  <2>1. PICK f : f = c.iq[i]
    OBVIOUS
  <2>2. i \in 1 .. IQ_SIZE /\ d.iq[i] = Woken(f, wb) /\ Woken(f, wb).valid
    BY <1>4, <2>1 DEF Queued
  <2>3. f.valid
    BY <2>2 DEF Woken
  <2>4. i \in Queued(c) /\ "seq" \in DOMAIN f
    BY <2>1, <2>2, <2>3 DEF Queued, FlowInv, EntryShape
  <2>5. Woken(f, wb).seq = f.seq
    BY <2>3, <2>4 DEF Woken
  <2> QED
    BY <2>1, <2>2, <2>4, <2>5 DEF StoresInv
<1>12. /\ \A u \in undo : u.seq \in Nat /\ u.seq < d.seq
       /\ \A s \in lo + 1 .. d.committed : p[s].op = "STORE" => Stored(undo, s)
  BY <1>4 DEF StoresInv
<1> QED
  BY <1>1, <1>10, <1>11, <1>12 DEF StoresInv

LEMMA StoresCommit ==
  ASSUME NEW c, NEW k, NEW p, NEW undo, NEW lo \in Nat, CoreInv(c), EntriesInv(c, p), StoresInv(c, p, undo, lo)
  PROVE  StoresInv(CommitOne(c, k), p, undo, lo)
<1>1. PICK d : d = CommitOne(c, k)
  OBVIOUS
<1>2. CASE \E h : Commits(c, d, h)
  <2>1. PICK h : Commits(c, d, h)
    BY <1>2
  <2>2. \A i \in Filled(d) : i \in Filled(c) /\ d.rob[i] = c.rob[i]
    BY <2>1 DEF Commits, Filled
  <2>0. PICK n : n = c.committed + 1
    OBVIOUS
  <2>3. n = c.committed + 1 /\ n \in Nat /\ c.committed = n - 1 /\ d.committed = n /\ c.rob[h].seq = n
    <3>1. c.committed \in Nat
      BY <2>1 DEF Commits
    <3>2. d.committed = c.committed + 1
      BY <2>1 DEF Commits
    <3>3. c.rob[h].seq = c.committed + 1
      BY <2>1 DEF Commits
    <3> QED
      BY <2>0, <3>1, <3>2, <3>3
  <2>4. p[n].op = "STORE" => Stored(undo, n)
    <3>1. h \in Filled(c) /\ c.rob[h].ready
      BY <2>1 DEF Commits, Filled
    <3>2. c.rob[h].op = p[n].op
      BY <2>3, <3>1 DEF EntriesInv, EntryIs
    <3> QED
      BY <2>3, <3>1, <3>2 DEF StoresInv
  <2>5. \A s \in lo + 1 .. n : s = n \/ s \in lo + 1 .. n - 1
    BY <2>3
  <2>6. \A s \in lo + 1 .. n : p[s].op = "STORE" => Stored(undo, s)
    BY <2>3, <2>4, <2>5 DEF StoresInv
  <2>7. Queued(d) = Queued(c) /\ d.iq = c.iq /\ d.seq = c.seq
    BY <2>1 DEF Commits, Queued
  <2> QED
    BY <1>1, <2>2, <2>3, <2>6, <2>7 DEF StoresInv
<1> QED
  BY <1>1, <1>2, CommitFacts

LEMMA StoresDispatch ==
  ASSUME NEW c, NEW x, NEW k \in Nat, k >= 1, CoreInv(c), Room(c, k), NEW p, NEW undo, NEW lo,
         StoresInv(c, p, undo, lo)
  PROVE  StoresInv(DispatchOne(c, x), p, undo, lo)
<1>1. PICK d : d = DispatchOne(c, x)
  OBVIOUS
<1>2. CASE \E inst, dst, t, ne, m, qe : Dispatches(c, d, inst, dst, t, ne, m, qe)
  <2>1. PICK inst, dst, t, ne, m, qe : Allots(c, d, inst, dst) /\ Records(c, d, inst, dst, t, ne)
                                       /\ Queues(c, d, inst, dst, m, qe)
    BY <1>2 DEF Dispatches
  <2>2. PICK s : s = c.seq /\ s \in Nat /\ d.seq = s + 1 /\ d.committed = c.committed
    BY <2>1 DEF Allots
  <2>3. ~ ne.ready /\ qe.seq = s
    BY <2>1, <2>2 DEF Records, Queues, RobEntry, IqEntry
  <2>4. \A u \in undo : u.seq \in Nat /\ u.seq < s
    BY <2>2 DEF StoresInv
  <2>5. ASSUME NEW i \in Filled(d), d.rob[i].ready, d.rob[i].op = "STORE"
        PROVE  Stored(undo, d.rob[i].seq)
    <3>1. i \in Slots /\ i # t
      BY <2>1, <2>3, <2>5 DEF Records, Filled
    <3>2. i \in Filled(c) /\ d.rob[i] = c.rob[i]
      BY <2>1, <3>1 DEF Records, Filled
    <3> QED
      BY <2>5, <3>2 DEF StoresInv
  <2>6. ASSUME NEW i \in Queued(d)
        PROVE  ~ Stored(undo, d.iq[i].seq)
    <3>1. CASE i = m
      <4>1. d.iq[i].seq = s
        BY <2>1, <2>3, <3>1 DEF Queues
      <4> QED
        BY <2>2, <2>4, <4>1 DEF Stored
    <3>2. CASE i # m
      <4>1. i \in Queued(c) /\ d.iq[i] = c.iq[i]
        BY <2>1, <3>2 DEF Queues
      <4> QED
        BY <4>1 DEF StoresInv
    <3> QED
      BY <3>1, <3>2
  <2>7. \A u \in undo : u.seq \in Nat /\ u.seq < d.seq
    BY <2>2, <2>4
  <2>8. \A a \in lo + 1 .. d.committed : p[a].op = "STORE" => Stored(undo, a)
    BY <2>2 DEF StoresInv
  <2> QED
    BY <1>1, <2>5, <2>6, <2>7, <2>8 DEF StoresInv
<1> QED
  BY <1>1, <1>2, DispatchFacts

LEMMA StoresIssue ==
  ASSUME NEW c, NEW T, NEW chosen \in [Lanes -> {0} \cup Queued(c)], NEW p, NEW undo, NEW lo, FlowInv(c, T),
         StoresInv(c, p, undo, lo)
  PROVE  StoresInv(Issued(c, chosen), p, undo, lo)
<1> DEFINE gone == { chosen[l] : l \in DOMAIN chosen } \ {0}
<1>1. PICK d : d = Issued(c, chosen)
  OBVIOUS
<1>2. DOMAIN c = CoreFields /\ DOMAIN c.iq = 1 .. IQ_SIZE
  BY DEF FlowInv, CoreInv, Shape
<1>3. /\ d.rob = c.rob /\ d.seq = c.seq /\ d.committed = c.committed
      /\ d.iq = [i \in 1 .. IQ_SIZE |-> IF i \in gone THEN Empty ELSE c.iq[i]]
  BY <1>1, <1>2 DEF Issued, CoreFields
<1> HIDE DEF gone
<1>4. \A i \in Queued(d) : i \in Queued(c) /\ d.iq[i] = c.iq[i]
  BY <1>3 DEF Queued, Empty
<1>5. Filled(d) = Filled(c)
  BY <1>3 DEF Filled
<1> QED
  BY <1>1, <1>3, <1>4, <1>5 DEF StoresInv

\* What is said of the core; of its values if whole.
CoreVals(c, T, p, whole, undo, lo) ==
  /\ FlowInv(c, T) /\ FetchedInv(c, p)
  /\ whole => DataInv(c, p) /\ StoresInv(c, p, undo, lo)

\* From c to d at most k instructions commit, and those that leave the ring
\* are dispatched.
Onward(c, d, k) ==
  /\ d.committed \in c.committed .. c.committed + k
  /\ d.seq \in Nat /\ d.seq >= c.seq /\ d.seq + Len(d.ingress) = c.seq + Len(c.ingress)

\* A result to be written back is right; a store among them has been sent.
ResultIs(wb, p, undo) ==
  /\ wb.dst # 0 => wb.value = Val(p, wb.seq)
  /\ p[wb.seq].op = "STORE" => Stored(undo, wb.seq)

LEMMA ValsWritebacks ==
  ASSUME NEW c, NEW lanes, NEW p, NEW whole, NEW undo, NEW lo, lanes = AllLanes, LanesInv(lanes),
         CoreVals(c, Held(lanes, 0), p, whole, undo, lo),
         whole => \A l \in Lanes : lanes[l].resultq # <<>> => ResultIs(Head(lanes[l].resultq), p, undo)
  PROVE  /\ CoreVals(WrittenBack(c), Held(lanes, ALU_LANES + LSU_LANES), p, whole, undo, lo)
         /\ WrittenBack(c).committed = c.committed /\ WrittenBack(c).seq = c.seq
         /\ WrittenBack(c).ingress = c.ingress
<1> DEFINE n == ALU_LANES + LSU_LANES
           Ok(d, i) == /\ CoreVals(d, Held(lanes, i), p, whole, undo, lo)
                       /\ d.committed = c.committed /\ d.seq = c.seq /\ d.ingress = c.ingress
<1>1. PICK run : /\ run[0] = c /\ WrittenBack(c) = run[n]
                 /\ \A i \in 1 .. n : run[i] = WritebackOf(run[i - 1], i)
  BY WrittenBackRun
<1>2. n \in Nat /\ Lanes = 1 .. n
  BY LaneNumbers
<1> HIDE DEF n
<1> DEFINE Good == { i \in 0 .. n : Ok(run[i], i) }
<1>3. 0 \in Good
  BY <1>1, <1>2
<1>4. ASSUME NEW l \in 1 .. n, l - 1 \in Good
      PROVE  l \in Good
  <2>1. PICK x, T, q : x = run[l - 1] /\ T = Held(lanes, l - 1) /\ q = lanes[l].resultq
    OBVIOUS
  <2>2. /\ l \in Lanes /\ CoreVals(x, T, p, whole, undo, lo) /\ run[l] = WritebackOf(x, l)
        /\ x.committed = c.committed /\ x.seq = c.seq /\ x.ingress = c.ingress
    BY <1>1, <1>2, <1>4, <2>1
  <2>3. q = IF l \in AluLanes THEN alu[l].resultq ELSE lsu[l].resultq
    BY <2>1, <2>2 DEF AllLanes
  <2>4. Held(lanes, l) \subseteq T
    BY <2>1, <2>2, HeldStep
  <2>5. CASE q = <<>>
    <3>1. run[l] = x
      BY <2>2, <2>3, <2>5 DEF WritebackOf
    <3>2. CoreVals(x, Held(lanes, l), p, whole, undo, lo)
      BY <2>2, <2>4, FlowFewer DEF CoreVals
    <3> QED
      BY <1>2, <2>2, <3>1, <3>2
  <2>6. CASE q # <<>>
    <3>1. PICK wb : wb = Head(q)
      OBVIOUS
    <3>2. Ticket(wb) \in T /\ Ticket(wb) \notin Held(lanes, l)
      BY <2>1, <2>2, <2>6, <3>1, HeldStep
    <3>3. wb.dst # 0 => wb.hasDest
      <4>1. LaneOk(lanes[l], l \in LsuLanes)
        BY <2>2 DEF LanesInv
      <4>2. Has(lanes[l], "out", 1) /\ wb = Item(lanes[l], "out", 1)
        BY <2>1, <2>6, <3>1, <4>1, FirstResult
      <4>3. "out" \in Kinds /\ 1 \in Nat
        BY DEF Kinds
      <4> QED
        BY <4>1, <4>2, <4>3, ItemFacts DEF ItemOk
    <3>4. whole => ResultIs(wb, p, undo)
      BY <2>1, <2>2, <2>6, <3>1
    <3>5. /\ FlowInv(x, T) /\ FetchedInv(x, p)
          /\ whole => DataInv(x, p) /\ StoresInv(x, p, undo, lo)
      BY <2>2 DEF CoreVals
    <3>6. FlowInv(WritebackOf(x, l), T \ {Ticket(wb)})
      BY <2>3, <2>6, <3>1, <3>2, <3>3, <3>5, FlowWriteback
    <3>7. Held(lanes, l) \subseteq T \ {Ticket(wb)}
      BY <2>4, <3>2
    <3>8. FlowInv(run[l], Held(lanes, l))
      BY <2>2, <3>6, <3>7, FlowFewer
    <3>9. FetchedInv(WritebackOf(x, l), p)
      BY <2>3, <2>6, <3>1, <3>2, <3>5, FetchedWriteback
    <3>10. ASSUME whole
           PROVE  DataInv(WritebackOf(x, l), p) /\ StoresInv(WritebackOf(x, l), p, undo, lo)
      <4>1. wb.dst # 0 => wb.hasDest /\ wb.value = Val(p, wb.seq)
        BY <3>3, <3>4, <3>10 DEF ResultIs
      <4>2. p[wb.seq].op = "STORE" => Stored(undo, wb.seq)
        BY <3>4, <3>10 DEF ResultIs
      <4>3. DataInv(x, p) /\ StoresInv(x, p, undo, lo)
        BY <3>5, <3>10
      <4>4. DataInv(WritebackOf(x, l), p)
        BY <2>3, <2>6, <3>1, <3>2, <3>5, <4>1, <4>3, DataWriteback
      <4>5. StoresInv(WritebackOf(x, l), p, undo, lo)
        BY <2>3, <2>6, <3>1, <3>2, <3>5, <4>2, <4>3, StoresWriteback
      <4> QED
        BY <4>4, <4>5
    <3>11. run[l].committed = x.committed /\ run[l].seq = x.seq /\ run[l].ingress = x.ingress
      <4>1. DOMAIN x = CoreFields
        BY <3>5 DEF FlowInv, CoreInv, Shape
      <4>2. run[l] = Writeback(x, wb)
        BY <2>2, <2>3, <2>6, <3>1 DEF WritebackOf
      <4> QED
        BY <4>1, <4>2 DEF Writeback, CoreFields
    <3>12. Ok(run[l], l)
      BY <2>2, <3>8, <3>9, <3>10, <3>11 DEF CoreVals
    <3> QED
      BY <1>2, <3>12
  <2> QED
    BY <2>5, <2>6
<1>5. Good \in SUBSET (0 .. n)
  OBVIOUS
<1> HIDE DEF Good
<1>6. Good = 0 .. n
  BY <1>2, <1>3, <1>4, <1>5, PassedOn
<1>7. Ok(run[n], n)
  <2>1. n \in Good
    BY <1>2, <1>6
  <2> QED
    BY <2>1 DEF Good
<1> QED
  BY <1>1, <1>7 DEF n

LEMMA ValsCommits ==
  ASSUME NEW c, NEW T, NEW p \in Seq(Instr), NEW whole, NEW undo, NEW lo \in Nat, CoreVals(c, T, p, whole, undo, lo)
  PROVE  /\ CoreVals(Committed(c), T, p, whole, undo, lo)
         /\ Committed(c).committed \in c.committed .. c.committed + COMMIT_WIDTH
         /\ Committed(c).seq = c.seq /\ Committed(c).ingress = c.ingress
<1> DEFINE n == COMMIT_WIDTH
           Ok(d, i) == /\ CoreVals(d, T, p, whole, undo, lo)
                       /\ d.committed \in c.committed .. c.committed + i
                       /\ d.seq = c.seq /\ d.ingress = c.ingress
<1>1. PICK run : /\ run[0] = c /\ Committed(c) = run[n]
                 /\ \A i \in 1 .. n : run[i] = CommitOne(run[i - 1], i)
  BY CommittedRun
<1>2. n \in Nat /\ c.committed \in Nat
  BY SizesAssumption DEF CoreVals, FlowInv, CoreInv, Shape
<1> HIDE DEF n
<1> DEFINE Good == { i \in 0 .. n : Ok(run[i], i) }
<1>3. 0 \in Good
  BY <1>1, <1>2
<1>4. ASSUME NEW i \in 1 .. n, i - 1 \in Good
      PROVE  i \in Good
  <2>1. PICK x : x = run[i - 1] /\ Ok(x, i - 1)
    BY <1>4
  <2>2. PICK d : d = CommitOne(x, i) /\ d = run[i]
    BY <1>1, <2>1
  <2>3. /\ FlowInv(x, T) /\ FetchedInv(x, p) /\ CoreInv(x) /\ EntriesInv(x, p)
        /\ whole => DataInv(x, p) /\ StoresInv(x, p, undo, lo)
    BY <2>1 DEF CoreVals, FlowInv, FetchedInv
  <2>4. CoreVals(d, T, p, whole, undo, lo)
    <3>1. FlowInv(d, T) /\ FetchedInv(d, p)
      BY <2>2, <2>3, FlowCommit, FetchedCommit
    <3>2. ASSUME whole
          PROVE  DataInv(d, p) /\ StoresInv(d, p, undo, lo)
      BY <2>2, <2>3, <3>2, DataCommit, StoresCommit
    <3> QED
      BY <3>1, <3>2 DEF CoreVals
  <2>5. PICK done, a : done = c.committed /\ a = x.committed /\ done \in Nat /\ a \in done .. done + (i - 1)
    BY <1>2, <2>1
  <2>6. /\ d.committed = a \/ d.committed = a + 1
        /\ d.seq = x.seq /\ d.ingress = x.ingress
    <3>1. CASE d = x
      BY <2>5, <3>1
    <3>2. CASE \E h : Commits(x, d, h)
      BY <2>5, <3>2 DEF Commits
    <3> QED
      BY <2>2, <2>3, <3>1, <3>2, CommitFacts
  <2>7. d.committed \in done .. done + i
    BY <1>2, <2>5, <2>6
  <2> QED
    BY <1>2, <2>1, <2>2, <2>4, <2>5, <2>6, <2>7
<1>5. Good \in SUBSET (0 .. n)
  OBVIOUS
<1> HIDE DEF Good
<1>6. Good = 0 .. n
  BY <1>2, <1>3, <1>4, <1>5, PassedOn
<1>7. Ok(run[n], n)
  <2>1. n \in Good
    BY <1>2, <1>6
  <2> QED
    BY <2>1 DEF Good
<1> QED
  BY <1>1, <1>7 DEF n

LEMMA ValsDispatches ==
  ASSUME NEW c, NEW T, NEW p \in Seq(Instr), NEW whole, NEW undo, NEW lo, CoreVals(c, T, p, whole, undo, lo)
  PROVE  /\ CoreVals(Dispatched(c), T, p, whole, undo, lo)
         /\ Dispatched(c).committed = c.committed
         /\ Dispatched(c).seq \in Nat /\ Dispatched(c).seq >= c.seq
         /\ Dispatched(c).seq + Len(Dispatched(c).ingress) = c.seq + Len(c.ingress)
<1> DEFINE n == DispatchLimit(c)
           Ok(d, i) == /\ CoreVals(d, T, p, whole, undo, lo) /\ Room(d, n - i)
                       /\ d.committed = c.committed /\ d.seq \in Nat /\ d.seq >= c.seq
                       /\ d.seq + Len(d.ingress) = c.seq + Len(c.ingress)
<1>1. Room(c, n) /\ n \in Nat /\ c.seq \in Nat
  BY LimitIsRoom, SeqIsNat DEF Room, FlowInv, CoreVals
<1>2. PICK run : /\ run[0] = c /\ Dispatched(c) = run[n]
                 /\ \A i \in 1 .. n : run[i] = DispatchOne(run[i - 1], i)
  BY <1>1, DispatchedRun
<1> HIDE DEF n
<1> DEFINE Good == { i \in 0 .. n : Ok(run[i], i) }
<1>3. 0 \in Good
  BY <1>1, <1>2
<1>4. ASSUME NEW i \in 1 .. n, i - 1 \in Good
      PROVE  i \in Good
  <2>1. PICK x, k : x = run[i - 1] /\ k = n - (i - 1) /\ Ok(x, i - 1)
    BY <1>4
  <2>2. PICK d : d = DispatchOne(x, i) /\ d = run[i]
    BY <1>2, <2>1
  <2>3. Room(x, k) /\ k \in Nat /\ k >= 1 /\ k - 1 = n - i
    BY <1>1, <2>1
  <2>4. /\ FlowInv(x, T) /\ FetchedInv(x, p) /\ CoreInv(x)
        /\ whole => DataInv(x, p) /\ StoresInv(x, p, undo, lo)
    BY <2>1 DEF CoreVals, FlowInv
  <2>5. Room(d, k - 1)
    BY <2>2, <2>3, <2>4, DispatchKeeps
  <2>6. FlowInv(d, T)
    BY <2>2, <2>3, <2>4, FlowDispatch
  <2>7. FetchedInv(d, p)
    BY <2>2, <2>3, <2>4, FetchedDispatch
  <2>8. ASSUME whole
        PROVE  DataInv(d, p) /\ StoresInv(d, p, undo, lo)
    <3>1. DataInv(d, p)
      BY <2>2, <2>3, <2>4, <2>8, DataDispatch
    <3>2. StoresInv(d, p, undo, lo)
      BY <2>2, <2>3, <2>4, <2>8, StoresDispatch
    <3> QED
      BY <3>1, <3>2
  <2>9. PICK s, q : s = x.seq /\ q = x.ingress /\ s \in Nat /\ s >= c.seq /\ s + Len(q) = c.seq + Len(c.ingress)
    BY <2>1
  <2>10. /\ d.committed = x.committed /\ d.seq \in Nat /\ d.seq >= c.seq
         /\ d.seq + Len(d.ingress) = s + Len(q)
    <3>1. CASE d = x
      BY <2>9, <3>1
    <3>2. CASE \E inst, dst, t, ne, m, qe : Dispatches(x, d, inst, dst, t, ne, m, qe)
      <4>1. PICK inst, dst : Allots(x, d, inst, dst)
        BY <3>2 DEF Dispatches
      <4>2. q \in Seq(Instr) /\ q # <<>> /\ d.ingress = Tail(q) /\ d.seq = s + 1 /\ d.committed = x.committed
        BY <2>4, <2>9, <4>1 DEF Allots, CoreInv, Shape
      <4>3. Len(q) \in Nat /\ Len(Tail(q)) = Len(q) - 1
        BY <4>2, TailFacts
      <4>4. PICK a, z : a = Len(q) /\ z = c.seq
        OBVIOUS
      <4>5. s \in Nat /\ z \in Nat /\ s >= z /\ a \in Nat
        BY <1>1, <2>9, <4>3, <4>4
      <4>6. d.seq = s + 1 /\ Len(d.ingress) = a - 1
        BY <4>2, <4>3, <4>4
      <4>7. d.seq \in Nat /\ d.seq >= z /\ d.seq + Len(d.ingress) = s + a
        BY <4>5, <4>6
      <4> QED
        BY <4>2, <4>4, <4>7
    <3> QED
      BY <2>2, <2>3, <2>4, <3>1, <3>2, DispatchFacts
  <2>11. Ok(d, i)
    BY <2>1, <2>3, <2>5, <2>6, <2>7, <2>8, <2>9, <2>10 DEF CoreVals
  <2> QED
    BY <1>1, <2>2, <2>11
<1>5. Good \in SUBSET (0 .. n)
  OBVIOUS
<1> HIDE DEF Good
<1>6. Good = 0 .. n
  BY <1>1, <1>3, <1>4, <1>5, PassedOn
<1>7. Ok(run[n], n)
  <2>1. n \in Good
    BY <1>1, <1>6
  <2> QED
    BY <2>1 DEF Good
<1> QED
  BY <1>2, <1>7

\* The fed part of the program, and what the core makes of it.
LEMMA ValsCycle ==
  ASSUME NEW d, NEW lanes, NEW p \in Seq(Instr), NEW whole, NEW undo, NEW lo \in Nat, lanes = AllLanes, LanesInv(lanes),
         CoreVals(d, Held(lanes, 0), p, whole, undo, lo),
         whole => \A l \in Lanes : lanes[l].resultq # <<>> => ResultIs(Head(lanes[l].resultq), p, undo)
  PROVE  LET next == Dispatched(Committed(WrittenBack(d))) IN
         /\ CoreVals(next, Held(lanes, ALU_LANES + LSU_LANES), p, whole, undo, lo)
         /\ Onward(d, next, COMMIT_WIDTH)
         /\ next.committed <= d.seq - 1
<1>1. PICK T, w, k, next : /\ T = Held(lanes, ALU_LANES + LSU_LANES)
                           /\ w = WrittenBack(d) /\ k = Committed(w) /\ next = Dispatched(k)
  OBVIOUS
<1>2. CoreVals(w, T, p, whole, undo, lo) /\ w.committed = d.committed /\ w.seq = d.seq /\ w.ingress = d.ingress
  BY <1>1, ValsWritebacks
<1>3. /\ CoreVals(k, T, p, whole, undo, lo) /\ k.committed \in w.committed .. w.committed + COMMIT_WIDTH
      /\ k.seq = w.seq /\ k.ingress = w.ingress
  BY <1>1, <1>2, ValsCommits
<1>4. /\ CoreVals(next, T, p, whole, undo, lo) /\ next.committed = k.committed
      /\ next.seq \in Nat /\ next.seq >= k.seq /\ next.seq + Len(next.ingress) = k.seq + Len(k.ingress)
  BY <1>1, <1>3, ValsDispatches
<1>5. k.committed <= k.seq - 1
  <2>1. PICK N, done : N = k.count /\ done = k.committed
    OBVIOUS
  <2>2. k.seq = done + N + 1 /\ done \in Nat /\ N \in 0 .. ROB_SIZE
    BY <1>3, <2>1 DEF CoreVals, FlowInv, CoreInv, Shape, RingInv
  <2>3. N \in Nat
    BY <2>2, SizesAssumption
  <2>4. done <= done + N + 1 - 1
    BY <2>2, <2>3
  <2> QED
    BY <2>1, <2>2, <2>4
<1>6. Onward(d, next, COMMIT_WIDTH) /\ next.committed <= d.seq - 1
  BY <1>2, <1>3, <1>4, <1>5 DEF Onward
<1> QED
  BY <1>1, <1>4, <1>6

-----------------------------------------------------------------------------
(* The lanes: what they hold is what in-order execution computes.          *)

\* An instruction in a lane has the operands that it has in order, and its
\* result is what they give.
ItemVal(mem, k, p, x) ==
  /\ x.seq \in 1 .. Len(p) /\ (Toy!IsLsu(p[x.seq]) <=> mem)
  /\ k # "out" => /\ x.op = Req(p, x.seq).op /\ x.imm = Req(p, x.seq).imm
                  /\ x.src1 = Req(p, x.seq).src1 /\ x.src2 = Req(p, x.seq).src2
  /\ k = "out" /\ x.dst # 0 => x.value = Val(p, x.seq)

LaneVals(lane, mem, p) ==
  \A k \in Kinds, i \in Nat : Has(lane, k, i) => ItemVal(mem, k, p, Item(lane, k, i))

\* A lane moves, and what it is given and what it computes is right.
LEMMA LaneValsMove ==
  ASSUME NEW lane, NEW new, NEW mem, NEW issued, NEW popped \in BOOLEAN, NEW t, NEW o, NEW r, NEW p,
         LaneOk(lane, mem), Move(lane, new, mem, issued, popped, t, o, r),
         Issue(lane, mem, issued, popped), popped => lane.resultq # <<>>,
         LaneVals(lane, mem, p), issued # <<>> => ItemVal(mem, "in", p, issued[1]),
         o # 0 => ItemVal(mem, "out", p, r)
  PROVE  LaneVals(new, mem, p)
<1> SUFFICES ASSUME NEW k \in Kinds, NEW i \in Nat, Has(new, k, i)
             PROVE  ItemVal(mem, k, p, Item(new, k, i))
  BY DEF LaneVals
<1>1. Came(lane, new, mem, issued, popped, t, o, r, k, i)
  BY MoveOrigin
<1>2. CASE k = "in" /\ issued # <<>> /\ Item(new, k, i) = issued[1]
  BY <1>2
<1>3. CASE \E k0 \in Kinds, i0 \in Nat :
             /\ Origin(new, popped, t, o, k, i, k0, i0) /\ Stays(lane, popped, k0, i0)
             /\ Item(new, k, i) = IF k = "out" /\ k0 = "slot" THEN r ELSE Item(lane, k0, i0)
  <2>1. PICK k0 \in Kinds, i0 \in Nat :
          /\ Origin(new, popped, t, o, k, i, k0, i0) /\ Stays(lane, popped, k0, i0)
          /\ Item(new, k, i) = IF k = "out" /\ k0 = "slot" THEN r ELSE Item(lane, k0, i0)
    BY <1>3
  <2>2. PICK x, y : x = Item(lane, k0, i0) /\ y = Item(new, k, i)
    OBVIOUS
  <2>3. ItemVal(mem, k0, p, x)
    BY <2>1, <2>2 DEF LaneVals, Stays
  <2>4. CASE k = "out" /\ k0 = "slot"
    <3>1. o # 0
      BY <2>1, <2>4 DEF Origin
    <3> QED
      BY <2>1, <2>4, <3>1
  <2>5. CASE ~ (k = "out" /\ k0 = "slot")
    <3>1. (k = "out" <=> k0 = "out") /\ y = x
      BY <2>1, <2>2, <2>5 DEF Origin
    <3> QED
      BY <2>2, <2>3, <3>1 DEF ItemVal
  <2> QED
    BY <2>4, <2>5
<1> QED
  BY <1>1, <1>2, <1>3 DEF Came

\* What arithmetic lanes compute is what in-order execution computes.
LEMMA AluComputes ==
  ASSUME NEW p \in Seq(Instr), NEW x, ItemVal(FALSE, "slot", p, x)
  PROVE  ItemVal(FALSE, "out", p, Alu!Result(x))
<1>1. PICK r, n, q : r = Alu!Result(x) /\ n = x.seq /\ q = Req(p, n)
  OBVIOUS
<1>2. r.seq = n /\ r.value = Alu!Execute(x)
  BY <1>1 DEF Alu!Result
<1>3. /\ n \in 1 .. Len(p) /\ ~ Toy!IsLsu(p[n])
      /\ x.op = q.op /\ x.imm = q.imm /\ x.src1 = q.src1 /\ x.src2 = q.src2
  BY <1>1 DEF ItemVal
<1>4. q.op # "LOAD"
  BY <1>1, <1>3, ReqFacts DEF Toy!IsLsu
<1>5. Alu!Execute(x) = Toy!Execute(q)
  <2>1. PICK op, a, b, c : /\ op = q.op /\ a = q.src1 /\ b = q.src2 /\ c = q.imm
                           /\ op = x.op /\ a = x.src1 /\ b = x.src2 /\ c = x.imm
    BY <1>3
  <2> QED
    BY <2>1 DEF Alu!Execute, Toy!Execute, Alu!Words, Toy!Words, Alu!Quotient, Toy!Quotient,
                Alu!Signed, Toy!Signed, Alu!Magnitude, Toy!Magnitude, Alu!BitByBit, Toy!BitByBit, Alu!Bit, Toy!Bit
<1>6. Val(p, n) = Toy!Execute(q)
  BY <1>1, <1>4 DEF Val, Toy!Value
<1> QED
  BY <1>1, <1>2, <1>3, <1>5, <1>6 DEF ItemVal

\* A cycle of an arithmetic lane.
LEMMA AluValsTick ==
  ASSUME NEW lane, NEW issued, NEW popped \in BOOLEAN, NEW p \in Seq(Instr),
         LaneOk(lane, FALSE), Distinct(lane), Issue(lane, FALSE, issued, popped), popped => lane.resultq # <<>>,
         LaneVals(lane, FALSE, p), issued # <<>> => ItemVal(FALSE, "in", p, issued[1])
  PROVE  LaneVals(Alu!Tick(lane, issued, popped), FALSE, p)
<1>1. PICK new : new = Alu!Tick(lane, issued, popped)
  OBVIOUS
<1>2. PICK t, o, r : /\ Move(lane, new, FALSE, issued, popped, t, o, r)
                     /\ o # 0 => r = Alu!Result(lane.slots[o].req)
  BY <1>1, AluTickMoves
<1>3. ASSUME o # 0
      PROVE  ItemVal(FALSE, "out", p, r)
  <2>1. o \in 1 .. PIPE_SLOTS /\ o \in Nat /\ lane.slots[o].valid
    BY <1>2, <1>3 DEF Move
  <2>2. "slot" \in Kinds /\ Has(lane, "slot", o) /\ Item(lane, "slot", o) = lane.slots[o].req
    BY <2>1 DEF Kinds, Has, Item
  <2>3. ItemVal(FALSE, "slot", p, lane.slots[o].req)
    BY <2>1, <2>2 DEF LaneVals
  <2> QED
    BY <1>2, <1>3, <2>3, AluComputes
<1> QED
  BY <1>1, <1>2, <1>3, LaneValsMove

\* An instruction that its lane has not sent to the memory.
Unsent(lane, k, i) == k = "in" \/ (k = "slot" /\ lane.slots[i].phase # "sent")

\* The stores of a lane that have changed the memory are those that were sent.
SentInv(lane, undo, p) ==
  \A k \in Kinds, i \in Nat :
    Has(lane, k, i) /\ p[Item(lane, k, i).seq].op = "STORE"
    => (Stored(undo, Item(lane, k, i).seq) <=> ~ Unsent(lane, k, i))

PhaseOk(slot) == slot.valid => "phase" \in DOMAIN slot /\ slot.phase \in {"addr", "send", "sent"}

\* The response register of a lane has what the load has that it answers.
ResponseIs(resp, p) == resp.valid /\ p[resp.seq].op = "LOAD" => resp.data = Val(p, resp.seq)

AnswerInv(lane, resp, p) == ResponseIs(resp, p) /\ \A s \in 1 .. PIPE_SLOTS : PhaseOk(lane.slots[s])

\* AnswersAreOwn, of one lane.
OwnInv(lane, resp) ==
  /\ \A s, t \in 1 .. PIPE_SLOTS : Sending(lane.slots[s]) /\ Polling(lane.slots[t]) => t < s
  /\ \A t \in 1 .. PIPE_SLOTS :
       /\ resp.valid /\ Polling(lane.slots[t])
       /\ \A s \in 1 .. t - 1 : ~ Polling(lane.slots[s])
       => resp.seq = lane.slots[t].req.seq

\* What the memory of a makes of a request.
Requested(mem, undo, req, a) ==
  /\ a.resp.seq = req.seq
  /\ IF req.op = "STORE"
     THEN /\ a.mem = [mem EXCEPT ![Toy!Address(req)] = req.src2]
          /\ a.undo = undo \cup {[seq |-> req.seq, addr |-> Toy!Address(req), old |-> mem[Toy!Address(req)]]}
     ELSE a.mem = mem /\ a.undo = undo /\ a.resp.data = mem[Toy!Address(req)]

\* The memory has the addresses of the lane.
LEMMA SameAddress ==
  ASSUME NEW req
  PROVE  Lsu!Address(req) = Toy!Address(req)
BY DEF Lsu!Address, Toy!Address, Lsu!Words, Toy!Words

\* A visit to a slot that sends its request.
LEMMA VisitSends ==
  ASSUME NEW lane, NEW a, NEW k \in 1 .. PIPE_SLOTS, NEW room, NEW b, b = Lsu!Visit(a, k, room),
         VisitInv(lane, a), Sending(a.slots[k]), "phase" \in DOMAIN a.slots[k]
  PROVE  /\ Requested(a.mem, a.undo, a.slots[k].req, b) /\ b.out = a.out
         /\ b.slots[k].valid /\ b.slots[k].phase = "sent"
<1>1. PICK e, req : e = a.slots[k] /\ req = e.req
  OBVIOUS
<1>2. /\ DOMAIN a = VisitFields /\ DOMAIN a.slots = 1 .. PIPE_SLOTS /\ e.valid /\ e.phase = "send"
      /\ "valid" \in DOMAIN e /\ "phase" \in DOMAIN e /\ req = e.req
  BY <1>1 DEF VisitInv, Sending
<1>3. PICK g, addr : g = Lsu!Request(a, req) /\ addr = Toy!Address(req)
  OBVIOUS
<1>4. g = IF req.op = "STORE"
          THEN [a EXCEPT !.mem[addr] = req.src2,
                         !.resp = [valid |-> TRUE, data |-> 0, seq |-> req.seq],
                         !.undo = @ \cup {[seq |-> req.seq, addr |-> addr, old |-> a.mem[addr]]}]
          ELSE [a EXCEPT !.resp = [valid |-> TRUE, data |-> a.mem[addr], seq |-> req.seq]]
  BY <1>3, SameAddress DEF Lsu!Request
<1>5. DOMAIN g = VisitFields /\ g.slots = a.slots /\ g.out = a.out
  BY <1>2, <1>4 DEF VisitFields
<1>6. Requested(a.mem, a.undo, req, g)
  <2>1. CASE req.op = "STORE"
    <3>1. g.mem = [a.mem EXCEPT ![addr] = req.src2]
      BY <1>2, <1>4, <2>1 DEF VisitFields
    <3>2. g.undo = a.undo \cup {[seq |-> req.seq, addr |-> addr, old |-> a.mem[addr]]}
      BY <1>2, <1>4, <2>1 DEF VisitFields
    <3>3. g.resp = [valid |-> TRUE, data |-> 0, seq |-> req.seq]
      BY <1>2, <1>4, <2>1 DEF VisitFields
    <3>4. g.resp.seq = req.seq
      BY <3>3
    <3> QED
      BY <1>3, <2>1, <3>1, <3>2, <3>4 DEF Requested
  <2>2. CASE req.op # "STORE"
    <3>1. g.mem = a.mem /\ g.undo = a.undo /\ g.resp = [valid |-> TRUE, data |-> a.mem[addr], seq |-> req.seq]
      BY <1>2, <1>4, <2>2 DEF VisitFields
    <3>2. g.resp.data = a.mem[addr] /\ g.resp.seq = req.seq
      BY <3>1
    <3> QED
      BY <1>3, <2>2, <3>1, <3>2 DEF Requested
  <2> QED
    BY <2>1, <2>2
<1>7. b = [g EXCEPT !.slots[k].phase = "sent"]
  BY <1>1, <1>2, <1>3 DEF Lsu!Visit
<1>8. PICK x : x = [e EXCEPT !.phase = "sent"]
  OBVIOUS
<1>9. x.valid /\ x.phase = "sent"
  BY <1>2, <1>8
<1>10. /\ b.slots = [g.slots EXCEPT ![k] = [g.slots[k] EXCEPT !.phase = "sent"]]
       /\ b.mem = g.mem /\ b.undo = g.undo /\ b.resp = g.resp /\ b.out = g.out
  BY <1>5, <1>7 DEF VisitFields
<1>11. b.slots[k] = x
  <2>1. b.slots = [a.slots EXCEPT ![k] = x]
    BY <1>1, <1>5, <1>8, <1>10
  <2> QED
    BY <1>2, <2>1
<1>12. Requested(a.mem, a.undo, req, b)
  BY <1>6, <1>10 DEF Requested
<1> QED
  BY <1>1, <1>5, <1>9, <1>10, <1>11, <1>12

\* A visit to a slot that polls: it takes or loses the response, if there is one.
LEMMA VisitPolls ==
  ASSUME NEW lane, NEW a, NEW k \in 1 .. PIPE_SLOTS, NEW room, NEW b, b = Lsu!Visit(a, k, room),
         VisitInv(lane, a), Polling(a.slots[k])
  PROVE  /\ b.mem = a.mem /\ b.undo = a.undo /\ ~ b.resp.valid
         /\ \/ b.out = a.out /\ b.slots[k] = a.slots[k]
            \/ a.resp.valid /\ b.out = << Lsu!Result(a.slots[k].req, a.resp) >> /\ ~ b.slots[k].valid
<1>1. PICK e, req : e = a.slots[k] /\ req = e.req
  OBVIOUS
<1>2. DOMAIN a = VisitFields /\ DOMAIN a.slots = 1 .. PIPE_SLOTS /\ e.valid /\ e.phase = "sent" /\ req = e.req
  BY <1>1 DEF VisitInv, Polling
<1>3. b = IF ~ a.resp.valid THEN a
          ELSE IF ~ room THEN [a EXCEPT !.resp = Lsu!NoResponse]
          ELSE [a EXCEPT !.resp = Lsu!NoResponse, !.slots[k] = Lsu!Free,
                         !.out = << Lsu!Result(req, a.resp) >>]
  BY <1>1, <1>2 DEF Lsu!Visit
<1>4. CASE ~ a.resp.valid /\ b = a
  BY <1>4
<1>5. CASE b = [a EXCEPT !.resp = Lsu!NoResponse]
  <2>1. b.slots = a.slots /\ b.out = a.out /\ b.mem = a.mem /\ b.undo = a.undo /\ b.resp = Lsu!NoResponse
    BY <1>2, <1>5 DEF VisitFields
  <2>2. ~ b.resp.valid
    BY <2>1 DEF Lsu!NoResponse
  <2> QED
    BY <2>1, <2>2
<1>6. CASE /\ a.resp.valid
           /\ b = [a EXCEPT !.resp = Lsu!NoResponse, !.slots[k] = Lsu!Free,
                            !.out = << Lsu!Result(req, a.resp) >>]
  <2>1. PICK r : r = Lsu!Result(req, a.resp)
    OBVIOUS
  <2>2. /\ b.slots = [a.slots EXCEPT ![k] = Lsu!Free] /\ b.out = <<r>>
        /\ b.mem = a.mem /\ b.undo = a.undo /\ b.resp = Lsu!NoResponse
    BY <1>2, <1>6, <2>1 DEF VisitFields
  <2>3. ~ b.resp.valid
    BY <2>2 DEF Lsu!NoResponse
  <2>4. b.slots[k] = Lsu!Free
    BY <1>2, <2>2
  <2>5. ~ b.slots[k].valid
    BY <2>4 DEF Lsu!Free
  <2> QED
    BY <1>1, <1>6, <2>1, <2>2, <2>3, <2>5
<1> QED
  BY <1>3, <1>4, <1>5, <1>6

\* What a visit to slot k leaves alone.
LEMMA VisitSlots ==
  ASSUME NEW lane, NEW a, NEW k \in 1 .. PIPE_SLOTS, NEW room, NEW b, b = Lsu!Visit(a, k, room),
         VisitInv(lane, a), PhaseOk(a.slots[k])
  PROVE  /\ \A s \in 1 .. PIPE_SLOTS : s # k => b.slots[s] = a.slots[s]
         /\ PhaseOk(b.slots[k])
         /\ ~ a.slots[k].valid => b = a
         /\ a.slots[k].valid /\ a.slots[k].phase = "addr" =>
              /\ b.slots[k].valid /\ b.slots[k].phase # "sent"
              /\ b.mem = a.mem /\ b.undo = a.undo /\ b.resp = a.resp /\ b.out = a.out
<1>1. PICK e : e = a.slots[k]
  OBVIOUS
<1>2. /\ DOMAIN a = VisitFields /\ DOMAIN a.slots = 1 .. PIPE_SLOTS /\ "valid" \in DOMAIN e
      /\ e.valid => "phase" \in DOMAIN e /\ e.phase \in {"addr", "send", "sent"}
  BY <1>1 DEF VisitInv, PhaseOk
<1>3. ASSUME NEW x, b.slots = [a.slots EXCEPT ![k] = x]
      PROVE  b.slots[k] = x /\ \A s \in 1 .. PIPE_SLOTS : s # k => b.slots[s] = a.slots[s]
  BY <1>2, <1>3
<1>4. CASE ~ e.valid
  <2>1. b = a
    BY <1>1, <1>4 DEF Lsu!Visit
  <2> QED
    BY <1>1, <1>4, <2>1
<1>5. CASE e.valid /\ e.phase = "addr"
  <2>1. PICK x : x = IF e.remain > 0 THEN [e EXCEPT !.remain = @ - 1] ELSE [e EXCEPT !.phase = "send"]
    OBVIOUS
  <2>2. b = [a EXCEPT !.slots[k] = x]
    BY <1>1, <1>5, <2>1 DEF Lsu!Visit
  <2>3. PICK v : x = [e EXCEPT !.remain = v] \/ x = [e EXCEPT !.phase = "send"]
    BY <2>1
  <2>4. x.valid /\ "phase" \in DOMAIN x /\ x.phase \in {"addr", "send"}
    BY <1>2, <1>5, <2>3
  <2>5. b.slots = [a.slots EXCEPT ![k] = x] /\ b.mem = a.mem /\ b.undo = a.undo /\ b.resp = a.resp /\ b.out = a.out
    BY <1>2, <2>2 DEF VisitFields
  <2>6. b.slots[k] = x /\ \A s \in 1 .. PIPE_SLOTS : s # k => b.slots[s] = a.slots[s]
    BY <1>3, <2>5
  <2> QED
    BY <1>1, <1>5, <2>4, <2>5, <2>6 DEF PhaseOk
<1>6. CASE e.valid /\ e.phase = "send"
  <2>1. PICK g : g = Lsu!Request(a, e.req)
    OBVIOUS
  <2>2. DOMAIN g = VisitFields /\ g.slots = a.slots
    BY <1>2, <2>1 DEF Lsu!Request, VisitFields
  <2>3. b = [g EXCEPT !.slots[k].phase = "sent"]
    BY <1>1, <1>6, <2>1 DEF Lsu!Visit
  <2>4. PICK x : x = [e EXCEPT !.phase = "sent"]
    OBVIOUS
  <2>5. "phase" \in DOMAIN x /\ x.phase = "sent"
    BY <1>2, <1>6, <2>4
  <2>6. b.slots = [g.slots EXCEPT ![k] = [g.slots[k] EXCEPT !.phase = "sent"]]
    BY <2>2, <2>3 DEF VisitFields
  <2>7. b.slots = [a.slots EXCEPT ![k] = x]
    BY <1>1, <2>2, <2>4, <2>6
  <2>8. b.slots[k] = x /\ \A s \in 1 .. PIPE_SLOTS : s # k => b.slots[s] = a.slots[s]
    BY <1>3, <2>7
  <2> QED
    BY <1>1, <1>6, <2>5, <2>8 DEF PhaseOk
<1>7. CASE e.valid /\ e.phase = "sent"
  <2>1. b = IF ~ a.resp.valid THEN a
            ELSE IF ~ room THEN [a EXCEPT !.resp = Lsu!NoResponse]
            ELSE [a EXCEPT !.resp = Lsu!NoResponse, !.slots[k] = Lsu!Free,
                           !.out = << Lsu!Result(e.req, a.resp) >>]
    BY <1>1, <1>7 DEF Lsu!Visit
  <2>2. CASE b = a
    BY <1>1, <1>7, <2>2
  <2>3. CASE b = [a EXCEPT !.resp = Lsu!NoResponse]
    <3>1. b.slots = a.slots
      BY <1>2, <2>3 DEF VisitFields
    <3> QED
      BY <1>1, <1>7, <3>1
  <2>4. CASE b = [a EXCEPT !.resp = Lsu!NoResponse, !.slots[k] = Lsu!Free,
                           !.out = << Lsu!Result(e.req, a.resp) >>]
    <3>1. b.slots = [a.slots EXCEPT ![k] = Lsu!Free]
      BY <1>2, <2>4 DEF VisitFields
    <3>2. b.slots[k] = Lsu!Free /\ \A s \in 1 .. PIPE_SLOTS : s # k => b.slots[s] = a.slots[s]
      BY <1>3, <3>1
    <3>3. PhaseOk(b.slots[k])
      BY <3>2 DEF PhaseOk, Lsu!Free
    <3> QED
      BY <1>1, <1>7, <3>2, <3>3
  <2> QED
    BY <2>1, <2>2, <2>3, <2>4
<1> QED
  BY <1>2, <1>4, <1>5, <1>6, <1>7

-----------------------------------------------------------------------------
(* The memory: in flight, one store at most has changed an address.        *)

\* What was not committed when lo were, up to number hi, uses addresses of the
\* memory; and two of them the same one only if they are loads.
Window(p, lo, hi) ==
  /\ lo \in Nat /\ hi \in lo .. Len(p)
  /\ \A s \in lo + 1 .. hi : Toy!IsLsu(p[s]) => Addr(p, s) \in DOMAIN InitMem
  /\ \A i, j \in lo + 1 .. hi :
       /\ Toy!IsLsu(p[i]) /\ Toy!IsLsu(p[j]) /\ (p[i].op = "STORE" \/ p[j].op = "STORE")
       /\ Addr(p, i) = Addr(p, j)
       => i = j

\* The memory is that of the in-order machine after lo instructions, except
\* where a later store was sent: that left in undo what was there, and it is
\* what the in-order machine has there just before the store.
UndoIs(p, lo, hi, mem, u) ==
  /\ u.seq \in lo + 1 .. hi /\ p[u.seq].op = "STORE" /\ u.addr = Addr(p, u.seq)
  /\ u.old = Ref(p, u.seq - 1).mem[u.addr] /\ mem[u.addr] = Req(p, u.seq).src2

MemInv(p, lo, hi, mem, undo) ==
  /\ DOMAIN mem = DOMAIN InitMem
  /\ \A u \in undo : u.seq > lo => UndoIs(p, lo, hi, mem, u)
  /\ \A a \in DOMAIN InitMem : (\A u \in undo : u.seq > lo => u.addr # a) => mem[a] = Ref(p, lo).mem[a]

LEMMA OrderlyWindow ==
  ASSUME NEW p \in Seq(Instr), Orderly(p), NEW lo \in Nat, NEW hi \in lo .. Len(p), hi - lo <= ROB_SIZE
  PROVE  Window(p, lo, hi)
<1>1. \A s : Touches(p, s) = Addr(p, s)
  BY DEF Touches, Addr, Req, Ref
<1>2. lo + 1 .. hi \subseteq 1 .. Len(p) /\ DOMAIN p = 1 .. Len(p) /\ ROB_SIZE \in Nat /\ Len(p) \in Nat
  BY SizesAssumption
<1>3. \A s \in lo + 1 .. hi : Toy!IsLsu(p[s]) => Addr(p, s) \in DOMAIN InitMem
  BY <1>1, <1>2 DEF Orderly
<1>4. ASSUME NEW i \in 1 .. Len(p), NEW j \in 1 .. Len(p), i < j, j < i + ROB_SIZE,
             Toy!IsLsu(p[i]), Toy!IsLsu(p[j]), p[i].op = "STORE" \/ p[j].op = "STORE"
      PROVE  Addr(p, i) # Addr(p, j)
  <2>1. "STORE" \in {p[i].op, p[j].op}
    BY <1>4
  <2>2. Touches(p, i) # Touches(p, j)
    BY <1>2, <1>4, <2>1 DEF Orderly
  <2> QED
    BY <1>1, <2>2
<1>5. ASSUME NEW i \in lo + 1 .. hi, NEW j \in lo + 1 .. hi,
             Toy!IsLsu(p[i]), Toy!IsLsu(p[j]), p[i].op = "STORE" \/ p[j].op = "STORE", Addr(p, i) = Addr(p, j)
      PROVE  i = j
  <2>1. PICK R : R = ROB_SIZE /\ R \in Nat /\ hi - lo <= R
    BY <1>2
  <2>2. i \in 1 .. Len(p) /\ j \in 1 .. Len(p) /\ i < j + R /\ j < i + R
    BY <1>2, <2>1
  <2>3. ~ (i < j) /\ ~ (j < i)
    BY <1>4, <1>5, <2>1, <2>2
  <2> QED
    BY <2>2, <2>3
<1> QED
  BY <1>3, <1>5 DEF Window

\* Before it is sent, a store has not changed its address, and before a load
\* no other has: the address is as the instructions before it leave it.
LEMMA AddressIsOld ==
  ASSUME NEW p \in Seq(Instr), NEW lo, NEW hi, Window(p, lo, hi), NEW mem, NEW undo,
         MemInv(p, lo, hi, mem, undo), NEW s \in lo + 1 .. hi, Toy!IsLsu(p[s]),
         p[s].op = "STORE" => ~ Stored(undo, s)
  PROVE  /\ Addr(p, s) \in DOMAIN InitMem /\ mem[Addr(p, s)] = Ref(p, s - 1).mem[Addr(p, s)]
         /\ \A u \in undo : u.seq > lo => u.addr # Addr(p, s)
<1>1. PICK a : a = Addr(p, s)
  OBVIOUS
<1>2. /\ lo \in Nat /\ hi \in lo .. Len(p) /\ a \in DOMAIN InitMem
      /\ \A i \in lo + 1 .. hi : Toy!IsLsu(p[i]) /\ (p[i].op = "STORE" \/ p[s].op = "STORE") /\ Addr(p, i) = a => i = s
  BY <1>1 DEF Window
<1>3. \A i : p[i].op = "STORE" => Toy!IsLsu(p[i])
  BY DEF Toy!IsLsu
<1>4. ASSUME NEW u \in undo, u.seq > lo
      PROVE  u.addr # a
  <2>1. SUFFICES ASSUME u.addr = a
                 PROVE  FALSE
    OBVIOUS
  <2>2. PICK n : n = u.seq /\ n \in lo + 1 .. hi /\ p[n].op = "STORE" /\ a = Addr(p, n)
    BY <1>4, <2>1 DEF MemInv, UndoIs
  <2>3. n = s
    BY <1>2, <1>3, <2>2
  <2> QED
    BY <2>2, <2>3 DEF Stored
<1>5. mem[a] = Ref(p, lo).mem[a]
  BY <1>2, <1>4 DEF MemInv
<1>6. Ref(p, s - 1).mem[a] = Ref(p, lo).mem[a]
  <2>1. ASSUME NEW j \in lo + 1 .. s - 1
        PROVE  ~ (p[j].op = "STORE" /\ Addr(p, j) = a)
    <3>1. j \in lo + 1 .. hi /\ j # s
      BY <1>2
    <3> QED
      BY <1>2, <1>3, <3>1
  <2>2. lo \in 0 .. Len(p) /\ s - 1 \in lo .. Len(p)
    BY <1>2
  <2> QED
    BY <1>2, <2>1, <2>2, MemKept
<1> QED
  BY <1>1, <1>2, <1>4, <1>5, <1>6

\* A load so reads what it reads in order, and a store changes its address.
Answered(p, lo, hi, undo, req, a) ==
  /\ MemInv(p, lo, hi, a.mem, a.undo)
  /\ req.op # "STORE" => a.undo = undo /\ a.resp.data = Val(p, req.seq)
  /\ req.op = "STORE" => \E u : u.seq = req.seq /\ a.undo = undo \cup {u}

LEMMA MemRequest ==
  ASSUME NEW p \in Seq(Instr), NEW lo, NEW hi, Window(p, lo, hi), NEW mem, NEW undo,
         MemInv(p, lo, hi, mem, undo), NEW req, ItemVal(TRUE, "slot", p, req), req.seq \in lo + 1 .. hi,
         req.op = "STORE" => ~ Stored(undo, req.seq), NEW a, Requested(mem, undo, req, a)
  PROVE  Answered(p, lo, hi, undo, req, a)
<1>1. PICK s, addr, q : s = req.seq /\ addr = Toy!Address(req) /\ q = Req(p, s)
  OBVIOUS
<1>2. /\ s \in 1 .. Len(p) /\ Toy!IsLsu(p[s]) /\ s \in lo + 1 .. hi
      /\ req.op = q.op /\ req.imm = q.imm /\ req.src1 = q.src1 /\ req.src2 = q.src2 /\ q.op = p[s].op
  BY <1>1, ReqFacts DEF ItemVal
<1>3. addr = Addr(p, s) /\ addr = Toy!Address(q)
  BY <1>1, <1>2 DEF Addr, Toy!Address
<1>4. /\ addr \in DOMAIN InitMem /\ mem[addr] = Ref(p, s - 1).mem[addr]
      /\ \A u \in undo : u.seq > lo => u.addr # addr
  <2>1. p[s].op = "STORE" => ~ Stored(undo, s)
    BY <1>1, <1>2
  <2>2. /\ Addr(p, s) \in DOMAIN InitMem /\ mem[Addr(p, s)] = Ref(p, s - 1).mem[Addr(p, s)]
        /\ \A u \in undo : u.seq > lo => u.addr # Addr(p, s)
    <3>1. Window(p, lo, hi) /\ MemInv(p, lo, hi, mem, undo) /\ s \in lo + 1 .. hi /\ Toy!IsLsu(p[s])
      BY <1>2
    <3> QED
      BY <2>1, <3>1, AddressIsOld
  <2> QED
    BY ONLY <1>3, <2>2
<1>5. CASE req.op # "STORE"
  <2>1. q.op = "LOAD"
    BY <1>2, <1>5 DEF Toy!IsLsu
  <2>2. a.mem = mem /\ a.undo = undo /\ a.resp.data = mem[addr]
    BY <1>1, <1>5 DEF Requested
  <2>3. Val(p, s) = Ref(p, s - 1).mem[addr]
    BY <1>1, <1>3, <2>1 DEF Val, Toy!Value
  <2> QED
    BY <1>1, <1>4, <1>5, <2>2, <2>3 DEF Answered
<1>6. CASE req.op = "STORE"
  <2>1. PICK v : v = [seq |-> s, addr |-> addr, old |-> mem[addr]]
    OBVIOUS
  <2>2. v.seq = s /\ v.addr = addr /\ v.old = mem[addr]
    BY <2>1
  <2>3. a.mem = [mem EXCEPT ![addr] = req.src2] /\ a.undo = undo \cup {v}
    BY <1>1, <1>6, <2>1 DEF Requested
  <2>4. DOMAIN mem = DOMAIN InitMem
    BY DEF MemInv
  <2>5. /\ DOMAIN a.mem = DOMAIN InitMem /\ a.mem[addr] = q.src2
        /\ \A b \in DOMAIN InitMem : b # addr => a.mem[b] = mem[b]
    BY <1>2, <1>4, <2>3, <2>4
  <2>6. ASSUME NEW u \in a.undo, u.seq > lo
        PROVE  UndoIs(p, lo, hi, a.mem, u)
    <3>1. CASE u = v
      BY <1>1, <1>2, <1>3, <1>4, <1>6, <2>2, <2>5, <3>1 DEF UndoIs
    <3>2. CASE u \in undo
      <4>1. UndoIs(p, lo, hi, mem, u) /\ u.addr # addr
        BY <1>4, <2>6, <3>2 DEF MemInv
      <4>2. u.addr \in DOMAIN InitMem
        <5>1. u.seq \in lo + 1 .. hi /\ p[u.seq].op = "STORE" /\ u.addr = Addr(p, u.seq)
          BY <4>1 DEF UndoIs
        <5> QED
          BY <5>1 DEF Window, Toy!IsLsu
      <4> QED
        BY <2>5, <4>1, <4>2 DEF UndoIs
    <3> QED
      BY <2>3, <3>1, <3>2
  <2>7. ASSUME NEW b \in DOMAIN InitMem, \A u \in a.undo : u.seq > lo => u.addr # b
        PROVE  a.mem[b] = Ref(p, lo).mem[b]
    <3>1. v \in a.undo /\ v.seq > lo
      <4>1. lo \in Nat /\ s > lo
        BY <1>2 DEF Window
      <4> QED
        BY <2>2, <2>3, <4>1
    <3>2. b # addr
      BY <2>2, <2>7, <3>1
    <3>3. \A u \in undo : u.seq > lo => u.addr # b
      BY <2>3, <2>7
    <3> QED
      BY <2>5, <3>2, <3>3 DEF MemInv
  <2>8. MemInv(p, lo, hi, a.mem, a.undo)
    BY <2>5, <2>6, <2>7 DEF MemInv
  <2> QED
    BY <1>1, <1>6, <2>2, <2>3, <2>8 DEF Answered
<1> QED
  BY <1>5, <1>6

\* More instructions are committed, and more are dispatched.
LEMMA MemCommits ==
  ASSUME NEW p \in Seq(Instr), NEW lo, NEW hi, Window(p, lo, hi), NEW mem, NEW undo,
         MemInv(p, lo, hi, mem, undo), \A u \in undo : u.seq \in Nat,
         NEW lo2 \in lo .. hi, NEW hi2 \in Nat, hi2 >= hi,
         \A s \in lo + 1 .. lo2 : p[s].op = "STORE" => Stored(undo, s)
  PROVE  MemInv(p, lo2, hi2, mem, undo)
<1>1. lo \in Nat /\ hi \in lo .. Len(p) /\ lo2 \in Nat /\ Len(p) \in Nat /\ lo <= lo2
  BY DEF Window
<1>2. \A i : p[i].op = "STORE" => Toy!IsLsu(p[i])
  BY DEF Toy!IsLsu
<1>3. ASSUME NEW u \in undo, u.seq > lo2
      PROVE  UndoIs(p, lo2, hi2, mem, u)
  <2>1. u.seq \in Nat /\ u.seq > lo
    BY <1>1, <1>3
  <2>2. UndoIs(p, lo, hi, mem, u)
    BY <2>1 DEF MemInv
  <2> QED
    BY <1>1, <1>3, <2>2 DEF UndoIs
<1>4. ASSUME NEW a \in DOMAIN InitMem, \A u \in undo : u.seq > lo2 => u.addr # a
      PROVE  mem[a] = Ref(p, lo2).mem[a]
  <2>1. CASE \A u \in undo : u.seq > lo => u.addr # a
    <3>1. mem[a] = Ref(p, lo).mem[a]
      BY <2>1 DEF MemInv
    <3>2. ASSUME NEW j \in lo + 1 .. lo2
          PROVE  ~ (p[j].op = "STORE" /\ Addr(p, j) = a)
      <4>1. SUFFICES ASSUME p[j].op = "STORE", Addr(p, j) = a
                     PROVE  FALSE
        OBVIOUS
      <4>2. PICK u \in undo : u.seq = j
        BY <4>1 DEF Stored
      <4>3. u.seq > lo
        BY <1>1, <4>2
      <4>4. u.addr = a
        BY <4>1, <4>2, <4>3 DEF MemInv, UndoIs
      <4> QED
        BY <2>1, <4>3, <4>4
    <3>3. lo \in 0 .. Len(p) /\ lo2 \in lo .. Len(p)
      BY <1>1
    <3> QED
      BY <3>1, <3>2, <3>3, MemKept
  <2>2. CASE \E u \in undo : u.seq > lo /\ u.addr = a
    <3>1. PICK u \in undo : u.seq > lo /\ u.addr = a
      BY <2>2
    <3>2. PICK n : /\ n = u.seq /\ n \in lo + 1 .. hi /\ p[n].op = "STORE" /\ a = Addr(p, n)
                   /\ mem[a] = Req(p, n).src2
      BY <3>1 DEF MemInv, UndoIs
    <3>3. n <= lo2
      <4>1. ~ (n > lo2)
        BY <1>4, <3>1, <3>2
      <4> QED
        BY <1>1, <3>2, <4>1
    <3>4. n \in 1 .. Len(p) /\ lo2 \in n .. Len(p) /\ n \in 0 .. Len(p)
      BY <1>1, <3>2, <3>3
    <3>5. Ref(p, n).mem[a] = Req(p, n).src2
      BY <3>2, <3>4, MemNext
    <3>6. ASSUME NEW j \in n + 1 .. lo2
          PROVE  ~ (p[j].op = "STORE" /\ Addr(p, j) = a)
      <4>1. j \in lo + 1 .. hi /\ j # n
        BY <1>1, <3>2, <3>4
      <4> QED
        BY <1>2, <3>2, <4>1 DEF Window
    <3>7. Ref(p, lo2).mem[a] = Ref(p, n).mem[a]
      BY <3>4, <3>6, MemKept
    <3> QED
      BY <3>2, <3>5, <3>7
  <2> QED
    BY <2>1, <2>2
<1> QED
  BY <1>3, <1>4 DEF MemInv

-----------------------------------------------------------------------------
(* A memory lane and its memory in a cycle.                                *)

\* What the memory adds to undo is of stores in the slots of the lane.
Grows(lane, undo, new) ==
  /\ undo \subseteq new
  /\ \A u \in new : u \in undo \/ \E s \in 1 .. PIPE_SLOTS : lane.slots[s].valid /\ u.seq = lane.slots[s].req.seq

\* The stores of the slots that have changed the memory are those that were
\* sent: those of the slots that poll, or are done.
SlotsSent(lane, a, p) ==
  \A s \in 1 .. PIPE_SLOTS :
    lane.slots[s].valid /\ p[lane.slots[s].req.seq].op = "STORE"
    => (Stored(a.undo, lane.slots[s].req.seq) <=> (a.slots[s].valid => a.slots[s].phase = "sent"))

\* What the visits to the slots make of a lane with the right values.
Outcome(lane, memo, a, p, lo, hi) ==
  /\ MemInv(p, lo, hi, a.mem, a.undo) /\ Grows(lane, memo.undo, a.undo)
  /\ SlotsSent(lane, a, p) /\ ResponseIs(a.resp, p)
  /\ \A r : a.out = <<r>> => ItemVal(TRUE, "out", p, r)

\* A lane with the right values, and the memory it meets.
LaneGood(lane, memo, p, lo, hi) ==
  /\ LaneOk(lane, TRUE) /\ Distinct(lane) /\ OwnInv(lane, memo.resp)
  /\ LaneVals(lane, TRUE, p) /\ SentInv(lane, memo.undo, p) /\ AnswerInv(lane, memo.resp, p)
  /\ Window(p, lo, hi) /\ MemInv(p, lo, hi, memo.mem, memo.undo)
  /\ \A s \in 1 .. PIPE_SLOTS : lane.slots[s].valid => lane.slots[s].req.seq \in lo + 1 .. hi

\* What such a lane has in its slot s.
SlotGood(lane, memo, p, lo, hi, s, req) ==
  /\ ItemVal(TRUE, "slot", p, req) /\ ItemOk(TRUE, "slot", req)
  /\ req.op = p[req.seq].op /\ req.seq \in lo + 1 .. hi
  /\ p[req.seq].op = "STORE" => (Stored(memo.undo, req.seq) <=> lane.slots[s].phase = "sent")
  /\ \A k \in Kinds, i \in Nat : Has(lane, k, i) /\ Item(lane, k, i).seq = req.seq => k = "slot" /\ i = s

LEMMA SlotFacts ==
  ASSUME NEW lane, NEW memo, NEW p, NEW lo, NEW hi, LaneGood(lane, memo, p, lo, hi),
         NEW s \in 1 .. PIPE_SLOTS, lane.slots[s].valid, NEW req, req = lane.slots[s].req
  PROVE  SlotGood(lane, memo, p, lo, hi, s, req)
<1>1. "slot" \in Kinds /\ s \in Nat /\ Has(lane, "slot", s) /\ Item(lane, "slot", s) = req
  <2>1. PIPE_SLOTS \in Nat
    BY SizesAssumption
  <2> QED
    BY <2>1 DEF Kinds, Has, Item
<1>2. ItemVal(TRUE, "slot", p, req)
  BY <1>1 DEF LaneGood, LaneVals
<1>3. ItemOk(TRUE, "slot", req)
  BY <1>1 DEF LaneGood, LaneOk
<1>4. req.seq \in lo + 1 .. hi
  BY DEF LaneGood
<1>5. req.op = p[req.seq].op
  <2>1. req.op = Req(p, req.seq).op
    BY <1>2 DEF ItemVal
  <2>2. Req(p, req.seq).op = p[req.seq].op
    BY DEF Req, Toy!Read
  <2> QED
    BY <2>1, <2>2
<1>6. p[req.seq].op = "STORE" => (Stored(memo.undo, req.seq) <=> lane.slots[s].phase = "sent")
  <2>1. Unsent(lane, "slot", s) <=> lane.slots[s].phase # "sent"
    BY DEF Unsent
  <2>2. SentInv(lane, memo.undo, p)
    BY DEF LaneGood
  <2>3. p[req.seq].op = "STORE" => (Stored(memo.undo, req.seq) <=> ~ Unsent(lane, "slot", s))
    BY <1>1, <2>2 DEF SentInv
  <2> QED
    BY <2>1, <2>3
<1>7. ASSUME NEW k \in Kinds, NEW i \in Nat, Has(lane, k, i), Item(lane, k, i).seq = req.seq
      PROVE  k = "slot" /\ i = s
  <2>1. Distinct(lane)
    BY DEF LaneGood
  <2> QED
    BY <1>1, <1>7, <2>1 DEF Distinct
<1> QED
  BY <1>2, <1>3, <1>4, <1>5, <1>6, <1>7 DEF SlotGood

\* What the visits up to slot k have done.  A slot that is still to poll finds
\* the response that was there, if no slot before it polled, or none.
Visiting(lane, memo, a, p, lo, hi, k) ==
  /\ VisitInv(lane, a) /\ Outcome(lane, memo, a, p, lo, hi)
  /\ \A s \in 1 .. PIPE_SLOTS : PhaseOk(a.slots[s]) /\ (s > k => a.slots[s] = lane.slots[s])
  /\ \A t \in 1 .. PIPE_SLOTS :
       t > k /\ Polling(lane.slots[t]) /\ a.resp.valid
       => a.resp = memo.resp /\ \A s \in 1 .. k : ~ Polling(lane.slots[s])

\* A visit to a slot that has nothing to do with the memory.
LEMMA VisitingIdle ==
  ASSUME NEW lane, NEW memo, NEW a, NEW p, NEW lo, NEW hi, NEW k \in 1 .. PIPE_SLOTS, NEW b,
         Outcome(lane, memo, a, p, lo, hi), a.slots[k] = lane.slots[k],
         ~ a.slots[k].valid \/ (a.slots[k].phase = "addr" /\ b.slots[k].valid /\ b.slots[k].phase # "sent"),
         \A s \in 1 .. PIPE_SLOTS : s # k => b.slots[s] = a.slots[s],
         b.mem = a.mem, b.undo = a.undo, b.resp = a.resp, b.out = a.out
  PROVE  Outcome(lane, memo, b, p, lo, hi)
<1>1. SlotsSent(lane, b, p)
  <2>1. ASSUME NEW s \in 1 .. PIPE_SLOTS, lane.slots[s].valid, p[lane.slots[s].req.seq].op = "STORE"
        PROVE  Stored(b.undo, lane.slots[s].req.seq) <=> (b.slots[s].valid => b.slots[s].phase = "sent")
    <3>1. Stored(a.undo, lane.slots[s].req.seq) <=> (a.slots[s].valid => a.slots[s].phase = "sent")
      BY <2>1 DEF Outcome, SlotsSent
    <3> QED
      BY <2>1, <3>1
  <2> QED
    BY <2>1 DEF SlotsSent
<1> QED
  BY <1>1 DEF Outcome

\* A visit to a slot that sends.
LEMMA VisitingSends ==
  ASSUME NEW lane, NEW memo, NEW a, NEW p \in Seq(Instr), NEW lo, NEW hi, LaneGood(lane, memo, p, lo, hi),
         NEW k \in 1 .. PIPE_SLOTS, NEW b,
         Outcome(lane, memo, a, p, lo, hi), a.slots[k] = lane.slots[k], Sending(lane.slots[k]),
         \A s \in 1 .. PIPE_SLOTS : s # k => b.slots[s] = a.slots[s],
         Requested(a.mem, a.undo, lane.slots[k].req, b), b.out = a.out,
         b.slots[k].valid, b.slots[k].phase = "sent"
  PROVE  Outcome(lane, memo, b, p, lo, hi)
<1>1. PICK req : req = lane.slots[k].req
  OBVIOUS
<1>2. lane.slots[k].valid /\ lane.slots[k].phase = "send" /\ a.slots[k].valid /\ a.slots[k].phase # "sent"
  BY DEF Sending
<1>3. /\ ItemVal(TRUE, "slot", p, req) /\ req.op = p[req.seq].op /\ req.seq \in lo + 1 .. hi
      /\ \A j \in Kinds, i \in Nat : Has(lane, j, i) /\ Item(lane, j, i).seq = req.seq => j = "slot" /\ i = k
  <2>1. SlotGood(lane, memo, p, lo, hi, k, req)
    BY <1>1, <1>2, SlotFacts
  <2> QED
    BY <2>1 DEF SlotGood
<1>4. req.op = "STORE" => ~ Stored(a.undo, req.seq)
  BY <1>1, <1>2, <1>3 DEF Outcome, SlotsSent
<1>5. /\ MemInv(p, lo, hi, b.mem, b.undo)
      /\ req.op # "STORE" => b.undo = a.undo /\ b.resp.data = Val(p, req.seq)
      /\ req.op = "STORE" => \E u : u.seq = req.seq /\ b.undo = a.undo \cup {u}
  <2>1. Window(p, lo, hi) /\ MemInv(p, lo, hi, a.mem, a.undo)
    BY DEF LaneGood, Outcome
  <2>2. Requested(a.mem, a.undo, req, b)
    BY <1>1
  <2>3. Answered(p, lo, hi, a.undo, req, b)
    BY <1>3, <1>4, <2>1, <2>2, MemRequest
  <2> QED
    BY <2>3 DEF Answered
<1>6. Grows(lane, memo.undo, b.undo)
  BY <1>1, <1>2, <1>5 DEF Grows, Outcome
<1>7. ResponseIs(b.resp, p)
  <2>1. b.resp.seq = req.seq
    BY <1>1 DEF Requested
  <2>2. p[req.seq].op = "LOAD" => req.op # "STORE"
    BY <1>3
  <2> QED
    BY <1>5, <2>1, <2>2 DEF ResponseIs
<1>8. SlotsSent(lane, b, p)
  <2>1. ASSUME NEW s \in 1 .. PIPE_SLOTS, lane.slots[s].valid, p[lane.slots[s].req.seq].op = "STORE"
        PROVE  Stored(b.undo, lane.slots[s].req.seq) <=> (b.slots[s].valid => b.slots[s].phase = "sent")
    <3>1. CASE s = k
      <4>1. req.op = "STORE"
        BY <1>1, <1>3, <2>1, <3>1
      <4>2. Stored(b.undo, req.seq)
        BY <1>5, <4>1 DEF Stored
      <4> QED
        BY <1>1, <3>1, <4>2
    <3>2. CASE s # k
      <4>1. PICK n : n = lane.slots[s].req.seq
        OBVIOUS
      <4>2. n # req.seq
        <5>1. "slot" \in Kinds /\ s \in Nat /\ Has(lane, "slot", s) /\ Item(lane, "slot", s) = lane.slots[s].req
          <6>1. PIPE_SLOTS \in Nat
            BY SizesAssumption
          <6> QED
            BY <2>1, <6>1 DEF Kinds, Has, Item
        <5> QED
          BY <1>3, <3>2, <4>1, <5>1
      <4>3. Stored(b.undo, n) <=> Stored(a.undo, n)
        BY <1>5, <4>2 DEF Stored
      <4>4. Stored(a.undo, n) <=> (a.slots[s].valid => a.slots[s].phase = "sent")
        BY <2>1, <4>1 DEF Outcome, SlotsSent
      <4> QED
        BY <3>2, <4>1, <4>3, <4>4
    <3> QED
      BY <3>1, <3>2
  <2> QED
    BY <2>1 DEF SlotsSent
<1> QED
  BY <1>5, <1>6, <1>7, <1>8 DEF Outcome

\* A visit to a slot that polls: the answer that it takes is its own.
LEMMA VisitingPolls ==
  ASSUME NEW lane, NEW memo, NEW a, NEW p, NEW lo, NEW hi, LaneGood(lane, memo, p, lo, hi),
         NEW k \in 1 .. PIPE_SLOTS, NEW b,
         Outcome(lane, memo, a, p, lo, hi), a.slots[k] = lane.slots[k], Polling(lane.slots[k]),
         a.resp.valid => a.resp = memo.resp /\ \A s \in 1 .. k - 1 : ~ Polling(lane.slots[s]),
         \A s \in 1 .. PIPE_SLOTS : s # k => b.slots[s] = a.slots[s],
         b.mem = a.mem, b.undo = a.undo, ~ b.resp.valid,
         \/ b.out = a.out /\ b.slots[k] = a.slots[k]
         \/ a.resp.valid /\ b.out = << Lsu!Result(lane.slots[k].req, a.resp) >> /\ ~ b.slots[k].valid
  PROVE  Outcome(lane, memo, b, p, lo, hi)
<1>1. PICK req : req = lane.slots[k].req
  OBVIOUS
<1>2. lane.slots[k].valid /\ a.slots[k].valid /\ a.slots[k].phase = "sent"
  BY DEF Polling
<1>3. SlotsSent(lane, b, p)
  <2>1. ASSUME NEW s \in 1 .. PIPE_SLOTS, lane.slots[s].valid, p[lane.slots[s].req.seq].op = "STORE"
        PROVE  Stored(b.undo, lane.slots[s].req.seq) <=> (b.slots[s].valid => b.slots[s].phase = "sent")
    <3>1. Stored(a.undo, lane.slots[s].req.seq) <=> (a.slots[s].valid => a.slots[s].phase = "sent")
      BY <2>1 DEF Outcome, SlotsSent
    <3> QED
      BY <1>2, <3>1
  <2> QED
    BY <2>1 DEF SlotsSent
<1>4. ResponseIs(b.resp, p)
  BY DEF ResponseIs
<1>5. ASSUME NEW r, b.out = <<r>>
      PROVE  ItemVal(TRUE, "out", p, r)
  <2>1. CASE b.out = a.out
    BY <1>5, <2>1 DEF Outcome
  <2>2. CASE a.resp.valid /\ b.out = << Lsu!Result(lane.slots[k].req, a.resp) >>
    <3>1. r = Lsu!Result(req, a.resp)
      BY <1>1, <1>5, <2>2
    <3>2. r.dst = req.dst /\ r.seq = req.seq /\ r.value = a.resp.data
      BY <3>1 DEF Lsu!Result
    <3>3. a.resp.seq = req.seq
      <4>1. OwnInv(lane, memo.resp)
        BY DEF LaneGood
      <4> QED
        BY <1>1, <2>2, <4>1 DEF OwnInv
    <3>4. ItemVal(TRUE, "slot", p, req) /\ ItemOk(TRUE, "slot", req) /\ req.op = p[req.seq].op
      <4>1. SlotGood(lane, memo, p, lo, hi, k, req)
        BY <1>1, <1>2, SlotFacts
      <4> QED
        BY <4>1 DEF SlotGood
    <3>5. req.seq \in 1 .. Len(p) /\ Toy!IsLsu(p[req.seq]) /\ (req.dst # 0 => req.op = "LOAD")
      BY <3>4 DEF ItemVal, ItemOk
    <3>6. req.op = "LOAD" => a.resp.data = Val(p, req.seq)
      BY <2>2, <3>3, <3>4 DEF Outcome, ResponseIs
    <3> QED
      BY <3>2, <3>5, <3>6 DEF ItemVal
  <2> QED
    BY <2>1, <2>2
<1> QED
  BY <1>3, <1>4, <1>5 DEF Outcome

\* A visit to any slot.
LEMMA VisitingStep ==
  ASSUME NEW lane, NEW memo, NEW a, NEW p, p \in Seq(Instr), NEW lo, NEW hi, LaneGood(lane, memo, p, lo, hi),
         NEW k \in 1 .. PIPE_SLOTS, NEW room, Visiting(lane, memo, a, p, lo, hi, k - 1)
  PROVE  Visiting(lane, memo, Lsu!Visit(a, k, room), p, lo, hi, k)
<1>1. PICK b, e : b = Lsu!Visit(a, k, room) /\ e = lane.slots[k]
  OBVIOUS
<1>2. k > k - 1 /\ \A s \in 1 .. PIPE_SLOTS : s > k => s > k - 1 /\ s # k
  <2>1. PICK n : n = PIPE_SLOTS /\ n \in Nat
    BY SizesAssumption
  <2> QED
    BY ONLY <2>1, k \in 1 .. PIPE_SLOTS
<1>3. /\ VisitInv(lane, a) /\ Outcome(lane, memo, a, p, lo, hi) /\ a.slots[k] = e /\ PhaseOk(e)
      /\ \A s \in 1 .. PIPE_SLOTS : PhaseOk(a.slots[s]) /\ (s > k => a.slots[s] = lane.slots[s])
      /\ Polling(e) /\ a.resp.valid => a.resp = memo.resp /\ \A s \in 1 .. k - 1 : ~ Polling(lane.slots[s])
      /\ \A t \in 1 .. PIPE_SLOTS :
           t > k /\ Polling(lane.slots[t]) /\ a.resp.valid
           => a.resp = memo.resp /\ \A s \in 1 .. k - 1 : ~ Polling(lane.slots[s])
  BY <1>1, <1>2 DEF Visiting
<1>4. VisitInv(lane, b)
  BY <1>1, <1>3, VisitKeeps
<1>5. /\ \A s \in 1 .. PIPE_SLOTS : s # k => b.slots[s] = a.slots[s]
      /\ PhaseOk(b.slots[k])
      /\ ~ a.slots[k].valid => b = a
      /\ a.slots[k].valid /\ a.slots[k].phase = "addr" =>
           /\ b.slots[k].valid /\ b.slots[k].phase # "sent"
           /\ b.mem = a.mem /\ b.undo = a.undo /\ b.resp = a.resp /\ b.out = a.out
  <2>1. PhaseOk(a.slots[k]) /\ VisitInv(lane, a) /\ b = Lsu!Visit(a, k, room)
    BY <1>1, <1>3
  <2> QED
    BY ONLY <2>1, k \in 1 .. PIPE_SLOTS, VisitSlots
<1>6. \A s \in 1 .. PIPE_SLOTS : PhaseOk(b.slots[s]) /\ (s > k => b.slots[s] = lane.slots[s])
  BY <1>2, <1>3, <1>5
<1>7. (\A s \in 1 .. k - 1 : ~ Polling(lane.slots[s])) /\ ~ Polling(e) => \A s \in 1 .. k : ~ Polling(lane.slots[s])
  BY <1>1, <1>2
<1>8. CASE ~ e.valid \/ e.phase = "addr"
  <2>1. b.mem = a.mem /\ b.undo = a.undo /\ b.resp = a.resp /\ b.out = a.out
    BY <1>3, <1>5, <1>8
  <2>2. ~ e.valid \/ (e.phase = "addr" /\ b.slots[k].valid /\ b.slots[k].phase # "sent")
    BY <1>3, <1>5, <1>8
  <2>3. Outcome(lane, memo, b, p, lo, hi)
    <3>1. /\ Outcome(lane, memo, a, p, lo, hi) /\ a.slots[k] = lane.slots[k]
          /\ ~ a.slots[k].valid \/ (a.slots[k].phase = "addr" /\ b.slots[k].valid /\ b.slots[k].phase # "sent")
          /\ \A s \in 1 .. PIPE_SLOTS : s # k => b.slots[s] = a.slots[s]
          /\ b.mem = a.mem /\ b.undo = a.undo /\ b.resp = a.resp /\ b.out = a.out
      BY <1>1, <1>3, <1>5, <2>1, <2>2
    <3> QED
      BY ONLY <3>1, k \in 1 .. PIPE_SLOTS, VisitingIdle
  <2>4. ~ Polling(e)
    BY <1>8 DEF Polling
  <2> QED
    BY <1>1, <1>3, <1>4, <1>6, <1>7, <2>1, <2>3, <2>4 DEF Visiting
<1>9. CASE Sending(e)
  <2>1. e.valid /\ "phase" \in DOMAIN e
    BY <1>3, <1>9 DEF Sending, PhaseOk
  <2>2. /\ Requested(a.mem, a.undo, e.req, b) /\ b.out = a.out
        /\ b.slots[k].valid /\ b.slots[k].phase = "sent"
    <3>1. b = Lsu!Visit(a, k, room)
      BY <1>1
    <3>2. VisitInv(lane, a)
      BY <1>3
    <3>3. Sending(a.slots[k])
      BY <1>3, <1>9
    <3>4. "phase" \in DOMAIN a.slots[k]
      BY <1>3, <2>1
    <3>5. /\ Requested(a.mem, a.undo, a.slots[k].req, b) /\ b.out = a.out
          /\ b.slots[k].valid /\ b.slots[k].phase = "sent"
      BY ONLY <3>1, <3>2, <3>3, <3>4, k \in 1 .. PIPE_SLOTS, VisitSends
    <3> QED
      BY <1>1, <1>3, <3>5
  <2>3. Outcome(lane, memo, b, p, lo, hi)
    <3>1. /\ Outcome(lane, memo, a, p, lo, hi) /\ a.slots[k] = lane.slots[k] /\ Sending(lane.slots[k])
          /\ \A s \in 1 .. PIPE_SLOTS : s # k => b.slots[s] = a.slots[s]
          /\ Requested(a.mem, a.undo, lane.slots[k].req, b) /\ b.out = a.out
          /\ b.slots[k].valid /\ b.slots[k].phase = "sent"
      BY <1>1, <1>3, <1>5, <1>9, <2>2
    <3>2. p \in Seq(Instr) /\ LaneGood(lane, memo, p, lo, hi)
      OBVIOUS
    <3> QED
      BY ONLY <3>1, <3>2, k \in 1 .. PIPE_SLOTS, VisitingSends
  <2>4. \A t \in 1 .. PIPE_SLOTS : t > k => ~ Polling(lane.slots[t])
    <3>1. OwnInv(lane, memo.resp)
      BY DEF LaneGood
    <3>2. \A t \in 1 .. PIPE_SLOTS : Polling(lane.slots[t]) => t < k
      BY <1>1, <1>9, <3>1 DEF OwnInv
    <3> QED
      BY <1>2, <3>2
  <2> QED
    BY <1>1, <1>4, <1>6, <2>3, <2>4 DEF Visiting
<1>10. CASE Polling(e)
  <2>1. /\ b.mem = a.mem /\ b.undo = a.undo /\ ~ b.resp.valid
        /\ \/ b.out = a.out /\ b.slots[k] = a.slots[k]
           \/ a.resp.valid /\ b.out = << Lsu!Result(e.req, a.resp) >> /\ ~ b.slots[k].valid
    <3>1. b = Lsu!Visit(a, k, room)
      BY <1>1
    <3>2. VisitInv(lane, a)
      BY <1>3
    <3>3. Polling(a.slots[k])
      BY <1>3, <1>10
    <3>4. /\ b.mem = a.mem /\ b.undo = a.undo /\ ~ b.resp.valid
          /\ \/ b.out = a.out /\ b.slots[k] = a.slots[k]
             \/ a.resp.valid /\ b.out = << Lsu!Result(a.slots[k].req, a.resp) >> /\ ~ b.slots[k].valid
      BY ONLY <3>1, <3>2, <3>3, k \in 1 .. PIPE_SLOTS, VisitPolls
    <3> QED
      BY <1>1, <1>3, <3>4
  <2>2. Outcome(lane, memo, b, p, lo, hi)
    BY <1>1, <1>3, <1>5, <1>10, <2>1, VisitingPolls
  <2> QED
    BY <1>1, <1>4, <1>6, <2>1, <2>2 DEF Visiting
<1>11. ~ e.valid \/ e.phase = "addr" \/ Sending(e) \/ Polling(e)
  BY <1>3 DEF PhaseOk, Sending, Polling
<1> QED
  BY <1>8, <1>9, <1>10, <1>11

\* What the visits make of a lane with the right values.
LEMMA VisitsOutcome ==
  ASSUME NEW lane, NEW memo, NEW p \in Seq(Instr), NEW lo, NEW hi, LaneGood(lane, memo, p, lo, hi),
         NEW a, a = Lsu!Visited(lane, memo)
  PROVE  Outcome(lane, memo, a, p, lo, hi) /\ \A s \in 1 .. PIPE_SLOTS : PhaseOk(a.slots[s])
<1> DEFINE n == PIPE_SLOTS
           room == Len(lane.resultq) < RESULT_DEPTH
<1>1. PICK run :
        /\ run[0] = [slots |-> lane.slots, out |-> <<>>,
                     mem |-> memo.mem, resp |-> memo.resp, undo |-> memo.undo]
        /\ Lsu!Visited(lane, memo) = run[n]
        /\ \A i \in 1 .. n : run[i] = Lsu!Visit(run[i - 1], i, room)
  BY VisitedRun
<1>2. n \in Nat
  BY SizesAssumption
<1>3. Visiting(lane, memo, run[0], p, lo, hi, 0)
  <2>1. PICK x : x = run[0]
    OBVIOUS
  <2>2. /\ DOMAIN x = VisitFields /\ x.slots = lane.slots /\ x.out = <<>>
        /\ x.mem = memo.mem /\ x.resp = memo.resp /\ x.undo = memo.undo
    BY <1>1, <2>1 DEF VisitFields
  <2>3. VisitInv(lane, x)
    BY <2>2 DEF VisitInv, LaneGood, LaneOk
  <2>4. SlotsSent(lane, x, p)
    <3>1. ASSUME NEW s \in 1 .. PIPE_SLOTS, lane.slots[s].valid, p[lane.slots[s].req.seq].op = "STORE"
          PROVE  Stored(x.undo, lane.slots[s].req.seq) <=> (x.slots[s].valid => x.slots[s].phase = "sent")
      <4>1. PICK req : req = lane.slots[s].req
        OBVIOUS
      <4>2. p[req.seq].op = "STORE" => (Stored(memo.undo, req.seq) <=> lane.slots[s].phase = "sent")
        <5>1. SlotGood(lane, memo, p, lo, hi, s, req)
          BY <3>1, <4>1, SlotFacts
        <5> QED
          BY <5>1 DEF SlotGood
      <4> QED
        BY <2>2, <3>1, <4>1, <4>2
    <3> QED
      BY <3>1 DEF SlotsSent
  <2>5. Outcome(lane, memo, x, p, lo, hi)
    <3>1. \A r : x.out # <<r>>
      BY <2>2
    <3> QED
      BY <2>2, <2>4, <3>1 DEF Outcome, Grows, LaneGood, AnswerInv
  <2>6. \A s \in 1 .. PIPE_SLOTS : PhaseOk(x.slots[s])
    BY <2>2 DEF LaneGood, AnswerInv
  <2> QED
    BY <2>1, <2>2, <2>3, <2>5, <2>6 DEF Visiting
<1> HIDE DEF n, room
<1>4. ASSUME NEW i \in 1 .. n, Visiting(lane, memo, run[i - 1], p, lo, hi, i - 1)
      PROVE  Visiting(lane, memo, run[i], p, lo, hi, i)
  <2>1. PICK x : x = run[i - 1] /\ Visiting(lane, memo, x, p, lo, hi, i - 1)
    BY <1>4
  <2>2. Visiting(lane, memo, Lsu!Visit(x, i, room), p, lo, hi, i)
    BY <2>1, VisitingStep DEF n
  <2> QED
    BY <1>1, <2>1, <2>2
<1> DEFINE Good == { i \in 0 .. n : Visiting(lane, memo, run[i], p, lo, hi, i) }
<1>5. 0 \in Good /\ \A i \in 1 .. n : i - 1 \in Good => i \in Good
  BY <1>2, <1>3, <1>4
<1>6. Good \in SUBSET (0 .. n)
  OBVIOUS
<1> HIDE DEF Good
<1>7. Good = 0 .. n
  BY <1>2, <1>5, <1>6, PassedOn
<1>8. n \in Good
  BY <1>2, <1>7
<1>9. Visiting(lane, memo, a, p, lo, hi, n)
  BY <1>1, <1>8 DEF Good
<1> QED
  BY <1>9 DEF Visiting

\* What is in no slot of the lane is stored after the cycle if it was before.
LEMMA StoredSame ==
  ASSUME NEW lane, NEW undo, NEW new, Grows(lane, undo, new), NEW n,
         \A s \in 1 .. PIPE_SLOTS : lane.slots[s].valid => lane.slots[s].req.seq # n
  PROVE  Stored(new, n) <=> Stored(undo, n)
  BY DEF Grows, Stored

\* The slot t takes the first request, and the result r of slot o leaves.
LEMMA LsuMoveSent ==
  ASSUME NEW lane, NEW memo, NEW p, NEW lo, NEW hi, LaneGood(lane, memo, p, lo, hi),
         NEW a, Outcome(lane, memo, a, p, lo, hi),
         NEW issued, NEW popped \in BOOLEAN, Issue(lane, TRUE, issued, popped), popped => lane.resultq # <<>>,
         issued # <<>> => ~ Stored(memo.undo, issued[1].seq),
         NEW new, NEW t, NEW o, NEW r, LsuMove(lane, a, new, issued, popped, t, o, r)
  PROVE  SentInv(new, a.undo, p)
<1>1. SUFFICES ASSUME NEW k \in Kinds, NEW i \in Nat, Has(new, k, i), NEW y, y = Item(new, k, i), p[y.seq].op = "STORE"
               PROVE  Stored(a.undo, y.seq) <=> ~ Unsent(new, k, i)
  BY DEF SentInv
<1>2. Move(lane, new, TRUE, issued, popped, t, o, r) /\ LaneOk(lane, TRUE) /\ Distinct(lane)
  BY DEF LsuMove, LaneGood
<1>3. Came(lane, new, TRUE, issued, popped, t, o, r, k, i)
  BY <1>1, <1>2, MoveOrigin
<1>4. Grows(lane, memo.undo, a.undo) /\ SentInv(lane, memo.undo, p)
  BY DEF Outcome, LaneGood
<1>5. ASSUME NEW s \in 1 .. PIPE_SLOTS, lane.slots[s].valid
      PROVE  "slot" \in Kinds /\ s \in Nat /\ Stays(lane, popped, "slot", s) /\ Item(lane, "slot", s) = lane.slots[s].req
  <2>1. PIPE_SLOTS \in Nat
    BY SizesAssumption
  <2> QED
    BY <1>5, <2>1 DEF Kinds, Stays, Has, Item
<1>6. CASE k = "in" /\ issued # <<>> /\ y = issued[1]
  <2>1. \A s \in 1 .. PIPE_SLOTS : lane.slots[s].valid => lane.slots[s].req.seq # y.seq
    <3>1. PICK x : issued = <<x>> /\ \A kk \in Kinds, ii \in Nat : Stays(lane, popped, kk, ii) => Item(lane, kk, ii).seq # x.seq
      BY <1>6 DEF Issue
    <3>2. y = x
      BY <1>6, <3>1
    <3> QED
      BY <1>5, <3>1, <3>2
  <2>2. ~ Stored(a.undo, y.seq)
    BY <1>4, <1>6, <2>1, StoredSame
  <2> QED
    BY <1>6, <2>2 DEF Unsent
<1>7. CASE \E k0 \in Kinds, i0 \in Nat :
             /\ Origin(new, popped, t, o, k, i, k0, i0) /\ Stays(lane, popped, k0, i0)
             /\ Ticket(y) = Ticket(Item(lane, k0, i0))
  <2>1. PICK k0 \in Kinds, i0 \in Nat : \E x :
          /\ Origin(new, popped, t, o, k, i, k0, i0) /\ Has(lane, k0, i0)
          /\ x = Item(lane, k0, i0) /\ Ticket(y) = Ticket(x)
    BY <1>7 DEF Stays
  <2> PICK x : /\ Origin(new, popped, t, o, k, i, k0, i0) /\ Has(lane, k0, i0)
               /\ x = Item(lane, k0, i0) /\ Ticket(y) = Ticket(x)
    BY <2>1
  <2>2. x.seq = y.seq
    BY <2>1 DEF Ticket
  <2>3. Stored(memo.undo, y.seq) <=> ~ Unsent(lane, k0, i0)
    BY <1>1, <1>4, <2>1, <2>2 DEF SentInv
  <2>4. CASE k0 # "slot"
    <3>1. ASSUME NEW s \in 1 .. PIPE_SLOTS, lane.slots[s].valid
          PROVE  lane.slots[s].req.seq # y.seq
      <4>1. Has(lane, "slot", s) /\ Item(lane, "slot", s) = lane.slots[s].req /\ "slot" \in Kinds /\ s \in Nat
        BY <1>5, <3>1 DEF Stays
      <4> QED
        BY <1>2, <2>1, <2>2, <2>4, <4>1 DEF Distinct
    <3>2. Stored(a.undo, y.seq) <=> Stored(memo.undo, y.seq)
      BY <1>4, <3>1, StoredSame
    <3>3. Unsent(lane, k0, i0) <=> k0 = "in"
      BY <2>4 DEF Unsent
    <3>4. Unsent(new, k, i) <=> k0 = "in"
      <4>1. CASE k = "slot" /\ i = t /\ t # 0 /\ k0 = "in"
        <5>1. new.slots[i].phase = "addr"
          BY <4>1 DEF LsuMove
        <5> QED
          BY <4>1, <5>1 DEF Unsent
      <4>2. CASE k \in {"in", "out"} /\ k0 = k
        BY <4>2 DEF Unsent
      <4> QED
        BY <2>1, <2>4, <4>1, <4>2 DEF Origin
    <3> QED
      BY <2>3, <3>2, <3>3, <3>4
  <2>5. CASE k0 = "slot"
    <3>1. /\ i0 \in 1 .. PIPE_SLOTS /\ lane.slots[i0].valid /\ lane.slots[i0].req = x
      BY <2>1, <2>5 DEF Has, Item
    <3>2. Stored(a.undo, y.seq) <=> (a.slots[i0].valid => a.slots[i0].phase = "sent")
      BY <1>1, <2>2, <3>1 DEF Outcome, SlotsSent
    <3>3. CASE k = "slot" /\ i # t /\ i0 = i
      <4>1. new.slots[i] = a.slots[i] /\ new.slots[i].valid
        BY <1>1, <3>1, <3>3 DEF LsuMove, Has
      <4>2. Unsent(new, k, i) <=> a.slots[i].phase # "sent"
        BY <3>3, <4>1 DEF Unsent
      <4> QED
        BY <3>2, <3>3, <4>1, <4>2
    <3>4. CASE k = "out" /\ i0 = o /\ o # 0
      <4>1. ~ a.slots[i0].valid
        BY <3>4 DEF LsuMove
      <4>2. ~ Unsent(new, k, i)
        BY <3>4 DEF Unsent
      <4> QED
        BY <3>2, <4>1, <4>2
    <3> QED
      BY <2>1, <2>5, <3>3, <3>4 DEF Origin
  <2> QED
    BY <2>4, <2>5
<1> QED
  BY <1>1, <1>3, <1>6, <1>7 DEF Came

LEMMA LsuMoveAnswers ==
  ASSUME NEW lane, NEW memo, NEW p, NEW lo, NEW hi, NEW a, Outcome(lane, memo, a, p, lo, hi),
         \A s \in 1 .. PIPE_SLOTS : PhaseOk(a.slots[s]),
         NEW issued, NEW popped, NEW new, NEW t, NEW o, NEW r, LsuMove(lane, a, new, issued, popped, t, o, r)
  PROVE  AnswerInv(new, a.resp, p)
<1>1. ASSUME NEW s \in 1 .. PIPE_SLOTS
      PROVE  PhaseOk(new.slots[s])
  <2>1. CASE s = t
    <3>1. t # 0
      BY <2>1
    <3>2. "phase" \in DOMAIN new.slots[s] /\ new.slots[s].phase = "addr"
      BY <2>1, <3>1 DEF LsuMove
    <3> QED
      BY <3>2 DEF PhaseOk
  <2>2. CASE s # t
    <3>1. new.slots[s] = a.slots[s]
      BY <2>2 DEF LsuMove
    <3> QED
      BY <3>1
  <2> QED
    BY <2>1, <2>2
<1> QED
  BY <1>1 DEF AnswerInv, Outcome

\* A memory lane after a cycle, and the memory it leaves.
LaneDone(lane, memo, new, memo2, p, lo, hi) ==
  /\ LaneVals(new, TRUE, p) /\ SentInv(new, memo2.undo, p) /\ AnswerInv(new, memo2.resp, p)
  /\ MemInv(p, lo, hi, memo2.mem, memo2.undo) /\ Grows(lane, memo.undo, memo2.undo)

LEMMA LsuValsTick ==
  ASSUME NEW lane, NEW memo, NEW p \in Seq(Instr), NEW lo, NEW hi, LaneGood(lane, memo, p, lo, hi),
         NEW issued, NEW popped \in BOOLEAN, Issue(lane, TRUE, issued, popped), popped => lane.resultq # <<>>,
         issued # <<>> => ~ Stored(memo.undo, issued[1].seq) /\ ItemVal(TRUE, "in", p, issued[1]),
         NEW b, b = Lsu!Tick(lane, memo, issued, popped)
  PROVE  LaneDone(lane, memo, b.lane, b.memory, p, lo, hi)
<1>1. PICK a, new : a = Lsu!Visited(lane, memo) /\ new = b.lane
  OBVIOUS
<1>2. b.memory = [mem |-> a.mem, resp |-> a.resp, undo |-> a.undo]
  BY <1>1 DEF Lsu!Tick
<1>3. LaneOk(lane, TRUE) /\ LaneVals(lane, TRUE, p)
  BY DEF LaneGood
<1>4. PICK t, o, r : LsuMove(lane, a, new, issued, popped, t, o, r)
  BY <1>1, <1>3, LsuTickMoves
<1>5. Outcome(lane, memo, a, p, lo, hi) /\ \A s \in 1 .. PIPE_SLOTS : PhaseOk(a.slots[s])
  BY <1>1, VisitsOutcome
<1>6. Move(lane, new, TRUE, issued, popped, t, o, r)
  BY <1>4 DEF LsuMove
<1>7. o # 0 => ItemVal(TRUE, "out", p, r)
  <2>1. o # 0 => a.out = <<r>>
    BY <1>4 DEF LsuMove
  <2> QED
    BY <1>5, <2>1 DEF Outcome
<1>8. LaneVals(new, TRUE, p)
  BY <1>3, <1>6, <1>7, LaneValsMove
<1>9. SentInv(new, a.undo, p)
  BY <1>4, <1>5, LsuMoveSent
<1>10. AnswerInv(new, a.resp, p)
  BY <1>4, <1>5, LsuMoveAnswers
<1>11. b.memory.mem = a.mem /\ b.memory.resp = a.resp /\ b.memory.undo = a.undo
  BY <1>2
<1>12. MemInv(p, lo, hi, a.mem, a.undo) /\ Grows(lane, memo.undo, a.undo)
  BY <1>5 DEF Outcome
<1> QED
  BY <1>1, <1>8, <1>9, <1>10, <1>11, <1>12 DEF LaneDone

-----------------------------------------------------------------------------
(* The memory lanes one after the other.                                   *)

\* x is issued, or an instruction of the lane.
Near(lane, issued, x) ==
  \/ issued # <<>> /\ x = issued[1]
  \/ \E k \in Kinds, i \in Nat : Has(lane, k, i) /\ Ticket(x) = Ticket(Item(lane, k, i))

InSlot(lane, n) == \E s \in 1 .. PIPE_SLOTS : lane.slots[s].valid /\ n = lane.slots[s].req.seq

\* What is issued is in no slot.
LEMMA IssuedInNoSlot ==
  ASSUME NEW lanes, LanesInv(lanes), NEW popped \in BOOLEAN, NEW issue,
         IssuedApart(lanes, issue, IF popped THEN ALU_LANES + LSU_LANES ELSE 0),
         NEW l \in Lanes, NEW m \in Lanes, issue[m] # <<>>
  PROVE  ~ InSlot(lanes[l], issue[m][1].seq)
<1> SUFFICES ASSUME NEW s \in 1 .. PIPE_SLOTS, lanes[l].slots[s].valid
             PROVE  lanes[l].slots[s].req.seq # issue[m][1].seq
  BY DEF InSlot
<1>1. PIPE_SLOTS \in Nat
  BY SizesAssumption
<1>2. /\ "slot" \in Kinds /\ s \in Nat /\ Item(lanes[l], "slot", s) = lanes[l].slots[s].req
      /\ Stays(lanes[l], popped /\ lanes[l].resultq # <<>>, "slot", s)
  BY <1>1 DEF Kinds, Stays, Has, Item
<1>3. PICK t : /\ t = Ticket(Item(lanes[l], "slot", s))
               /\ t \in Held(lanes, IF popped THEN ALU_LANES + LSU_LANES ELSE 0)
  BY <1>2, StaysHeld
<1>4. t.seq = lanes[l].slots[s].req.seq
  BY <1>2, <1>3 DEF Ticket
<1> QED
  BY <1>3, <1>4 DEF IssuedApart

\* What another lane has, or gets, is in no slot of a lane.
LEMMA NearInNoSlot ==
  ASSUME NEW lanes, LanesInv(lanes), NEW popped \in BOOLEAN, NEW issue,
         IssuedApart(lanes, issue, IF popped THEN ALU_LANES + LSU_LANES ELSE 0),
         NEW l \in Lanes, NEW m \in Lanes, l # m, NEW x, Near(lanes[m], issue[m], x)
  PROVE  ~ InSlot(lanes[l], x.seq)
<1>1. CASE issue[m] # <<>> /\ x = issue[m][1]
  BY <1>1, IssuedInNoSlot
<1>2. CASE \E k \in Kinds, i \in Nat : Has(lanes[m], k, i) /\ Ticket(x) = Ticket(Item(lanes[m], k, i))
  <2>1. PICK k \in Kinds, i \in Nat : Has(lanes[m], k, i) /\ Ticket(x) = Ticket(Item(lanes[m], k, i))
    BY <1>2
  <2>2. x.seq = Item(lanes[m], k, i).seq
    <3>1. PICK y : y = Item(lanes[m], k, i)
      OBVIOUS
    <3>2. Ticket(x) = Ticket(y)
      BY <2>1, <3>1
    <3> QED
      BY <3>1, <3>2 DEF Ticket
  <2>3. ASSUME NEW s \in 1 .. PIPE_SLOTS, lanes[l].slots[s].valid, x.seq = lanes[l].slots[s].req.seq
        PROVE  FALSE
    <3>1. PIPE_SLOTS \in Nat
      BY SizesAssumption
    <3>2. /\ "slot" \in Kinds /\ s \in Nat /\ Has(lanes[l], "slot", s)
          /\ Item(lanes[l], "slot", s) = lanes[l].slots[s].req
      BY <2>3, <3>1 DEF Kinds, Has, Item
    <3>3. Item(lanes[l], "slot", s).seq = Item(lanes[m], k, i).seq
      BY <2>2, <2>3, <3>2
    <3> QED
      BY <2>1, <3>2, <3>3 DEF LanesInv, Apart
  <2> QED
    BY <2>3 DEF InSlot
<1> QED
  BY <1>1, <1>2 DEF Near

\* What the memory lane l meets in a cycle that starts with memory m.
MemoFor(m, l) == [mem |-> m.mem, resp |-> m.resp[l], undo |-> m.undo]

\* What holds of the lanes and of what is issued before they tick.
ServeHyp(issue, popped, p, lo, hi) ==
  /\ popped \in BOOLEAN /\ p \in Seq(Instr) /\ DOMAIN lsu = LsuLanes /\ DOMAIN memory.resp = LsuLanes
  /\ LanesInv(AllLanes) /\ IssuedApart(AllLanes, issue, IF popped THEN ALU_LANES + LSU_LANES ELSE 0)
  /\ MemInv(p, lo, hi, memory.mem, memory.undo)
  /\ \A l \in LsuLanes :
       /\ LaneGood(lsu[l], MemoFor(memory, l), p, lo, hi)
       /\ Issue(lsu[l], TRUE, issue[l], popped /\ lsu[l].resultq # <<>>)
       /\ issue[l] # <<>> => ItemVal(TRUE, "in", p, issue[l][1]) /\ ~ Stored(memory.undo, issue[l][1].seq)

\* What the ticks of the memory lanes up to n have done.
Serving(issue, p, lo, hi, a, n) ==
  /\ DOMAIN a.lanes = LsuLanes /\ DOMAIN a.resp = LsuLanes
  /\ MemInv(p, lo, hi, a.mem, a.undo) /\ memory.undo \subseteq a.undo
  /\ \A u \in a.undo : u \in memory.undo \/ \E l \in LsuLanes : InSlot(lsu[l], u.seq)
  /\ \A l \in LsuLanes : SentInv(a.lanes[l], a.undo, p)
  /\ \A l \in LsuLanes :
       IF l <= n
       THEN /\ LaneVals(a.lanes[l], TRUE, p) /\ AnswerInv(a.lanes[l], a.resp[l], p)
            /\ \A k \in Kinds, i \in Nat : Has(a.lanes[l], k, i) => Near(lsu[l], issue[l], Item(a.lanes[l], k, i))
       ELSE a.lanes[l] = lsu[l] /\ a.resp[l] = memory.resp[l]

\* The lane l meets the memory that the lanes before it leave.
LEMMA ServeMeets ==
  ASSUME NEW issue, NEW popped, NEW p, NEW lo, NEW hi, ServeHyp(issue, popped, p, lo, hi),
         NEW l \in LsuLanes, NEW a, Serving(issue, p, lo, hi, a, l - 1)
  PROVE  /\ LaneGood(lsu[l], MemoFor(a, l), p, lo, hi)
         /\ issue[l] # <<>> => ItemVal(TRUE, "in", p, issue[l][1]) /\ ~ Stored(a.undo, issue[l][1].seq)
<1>1. PICK memo, old : memo = MemoFor(a, l) /\ old = MemoFor(memory, l)
  OBVIOUS
<1>2. /\ memo.mem = a.mem /\ memo.resp = a.resp[l] /\ memo.undo = a.undo
      /\ old.mem = memory.mem /\ old.resp = memory.resp[l] /\ old.undo = memory.undo
  BY <1>1 DEF MemoFor
<1>3. ~ (l <= l - 1)
  BY SizesAssumption DEF LsuLanes
<1>4. a.lanes[l] = lsu[l] /\ a.resp[l] = memory.resp[l]
  BY <1>3 DEF Serving
<1>5. LaneGood(lsu[l], old, p, lo, hi)
  BY <1>1 DEF ServeHyp
<1>6. SentInv(lsu[l], memo.undo, p)
  BY <1>2, <1>4 DEF Serving
<1>7. AnswerInv(lsu[l], memo.resp, p)
  BY <1>2, <1>4, <1>5 DEF LaneGood
<1>8. MemInv(p, lo, hi, memo.mem, memo.undo)
  BY <1>2 DEF Serving
<1>9. LaneGood(lsu[l], memo, p, lo, hi)
  BY <1>2, <1>4, <1>5, <1>6, <1>7, <1>8 DEF LaneGood
<1>10. ASSUME issue[l] # <<>>
       PROVE  ~ Stored(a.undo, issue[l][1].seq)
  <2>1. PICK lanes : lanes = AllLanes /\ LanesInv(lanes) /\ popped \in BOOLEAN
                     /\ IssuedApart(lanes, issue, IF popped THEN ALU_LANES + LSU_LANES ELSE 0)
    BY DEF ServeHyp
  <2>2. ASSUME NEW m \in LsuLanes
        PROVE  ~ InSlot(lsu[m], issue[l][1].seq)
    <3>1. m \in Lanes /\ l \in Lanes /\ lanes[m] = lsu[m]
      BY <2>1, LaneNumbers DEF Lanes, AllLanes
    <3>2. ~ InSlot(lanes[m], issue[l][1].seq)
      BY <1>10, <2>1, <3>1, IssuedInNoSlot
    <3> QED
      BY <3>1, <3>2
  <2>3. ~ Stored(memory.undo, issue[l][1].seq)
    BY <1>10 DEF ServeHyp
  <2> QED
    BY <2>2, <2>3 DEF Serving, Stored
<1> QED
  BY <1>1, <1>9, <1>10 DEF ServeHyp

\* The tick of lane l.
LEMMA ServeTicks ==
  ASSUME NEW issue, NEW popped, NEW p, NEW lo, NEW hi, ServeHyp(issue, popped, p, lo, hi),
         NEW l \in LsuLanes, NEW a, Serving(issue, p, lo, hi, a, l - 1),
         NEW x, x = Lsu!Tick(lsu[l], MemoFor(a, l), issue[l], popped /\ lsu[l].resultq # <<>>)
  PROVE  /\ LaneDone(lsu[l], MemoFor(a, l), x.lane, x.memory, p, lo, hi)
         /\ \A k \in Kinds, i \in Nat : Has(x.lane, k, i) => Near(lsu[l], issue[l], Item(x.lane, k, i))
<1>1. PICK memo, lane, issued, pop :
        memo = MemoFor(a, l) /\ lane = lsu[l] /\ issued = issue[l] /\ pop = (popped /\ lane.resultq # <<>>)
  OBVIOUS
<1>2. x = Lsu!Tick(lane, memo, issued, pop)
  BY <1>1
<1>3. /\ LaneGood(lane, memo, p, lo, hi)
      /\ issued # <<>> => ~ Stored(memo.undo, issued[1].seq) /\ ItemVal(TRUE, "in", p, issued[1])
  <2>1. memo.undo = a.undo
    BY <1>1 DEF MemoFor
  <2> QED
    BY <1>1, <2>1, ServeMeets
<1>4. /\ pop \in BOOLEAN /\ Issue(lane, TRUE, issued, pop) /\ p \in Seq(Instr)
      /\ pop => lane.resultq # <<>>
  BY <1>1 DEF ServeHyp
<1>5. LaneDone(lane, memo, x.lane, x.memory, p, lo, hi)
  BY <1>2, <1>3, <1>4, LsuValsTick
<1>6. LaneOk(lane, TRUE) /\ Distinct(lane)
  BY <1>3 DEF LaneGood
<1>7. Moved(lane, x.lane, TRUE, issued, pop)
  <2>1. \E t, o, r : LsuMove(lane, Lsu!Visited(lane, memo), Lsu!Tick(lane, memo, issued, pop).lane, issued, pop, t, o, r)
    BY <1>6, LsuTickMoves
  <2> QED
    BY <1>2, <2>1 DEF LsuMove, Moved
<1>8. \A k \in Kinds, i \in Nat : Has(x.lane, k, i) => Arrives(lane, issued, pop, Item(x.lane, k, i))
  <2>1. PICK new, mem : new = x.lane /\ mem = TRUE
    OBVIOUS
  <2>2. pop \in BOOLEAN /\ LaneOk(lane, mem) /\ (pop => lane.resultq # <<>>)
    BY <1>4, <1>6, <2>1
  <2>3. Moved(lane, new, mem, issued, pop) /\ Issue(lane, mem, issued, pop)
    BY <1>4, <1>7, <2>1
  <2>4. /\ LaneOk(new, mem) /\ Distinct(new)
        /\ \A k \in Kinds, i \in Nat : Has(new, k, i) => Arrives(lane, issued, pop, Item(new, k, i))
    BY <1>6, <2>2, <2>3, MovedKeeps
  <2> QED
    BY <2>1, <2>4
<1>9. \A y : Arrives(lane, issued, pop, y) => Near(lane, issued, y)
  BY DEF Arrives, Near, Stays
<1> QED
  BY <1>1, <1>5, <1>8, <1>9

LEMMA ServeStep ==
  ASSUME NEW issue, NEW popped, NEW p, NEW lo, NEW hi, ServeHyp(issue, popped, p, lo, hi),
         NEW n \in 1 .. LSU_LANES, NEW l, l = ALU_LANES + n, NEW a, Serving(issue, p, lo, hi, a, l - 1),
         NEW b, b = ServeLane(a, n, issue, popped)
  PROVE  Serving(issue, p, lo, hi, b, l)
<1>1. l \in LsuLanes /\ ALU_LANES \in Nat /\ LSU_LANES \in Nat
  BY SizesAssumption DEF LsuLanes
<1>2. PICK x, memo : /\ memo = MemoFor(a, l)
                     /\ x = Lsu!Tick(lsu[l], memo, issue[l], popped /\ lsu[l].resultq # <<>>)
  OBVIOUS
<1>3. b = [lanes |-> [a.lanes EXCEPT ![l] = x.lane], mem |-> x.memory.mem,
           resp |-> [a.resp EXCEPT ![l] = x.memory.resp], undo |-> x.memory.undo]
  <2>1. x = Lsu!Tick(lsu[l], [mem |-> a.mem, resp |-> a.resp[l], undo |-> a.undo], issue[l],
                     popped /\ Lsu!HasResult(lsu[l]))
    BY <1>2 DEF MemoFor, Lsu!HasResult
  <2> QED
    BY <2>1 DEF ServeLane
<1>4. /\ b.lanes = [a.lanes EXCEPT ![l] = x.lane] /\ b.resp = [a.resp EXCEPT ![l] = x.memory.resp]
      /\ b.mem = x.memory.mem /\ b.undo = x.memory.undo
  BY <1>3
<1>5. DOMAIN a.lanes = LsuLanes /\ DOMAIN a.resp = LsuLanes
  BY DEF Serving
<1>6. /\ DOMAIN b.lanes = LsuLanes /\ DOMAIN b.resp = LsuLanes /\ b.lanes[l] = x.lane /\ b.resp[l] = x.memory.resp
      /\ \A m \in LsuLanes : m # l => b.lanes[m] = a.lanes[m] /\ b.resp[m] = a.resp[m]
  BY <1>1, <1>4, <1>5
<1>7. /\ LaneDone(lsu[l], memo, x.lane, x.memory, p, lo, hi)
      /\ \A k \in Kinds, i \in Nat : Has(x.lane, k, i) => Near(lsu[l], issue[l], Item(x.lane, k, i))
  BY <1>1, <1>2, ServeTicks
<1>8. memo.undo = a.undo
  BY <1>2 DEF MemoFor
<1>9. /\ LaneVals(b.lanes[l], TRUE, p) /\ SentInv(b.lanes[l], b.undo, p) /\ AnswerInv(b.lanes[l], b.resp[l], p)
      /\ MemInv(p, lo, hi, b.mem, b.undo) /\ Grows(lsu[l], a.undo, b.undo)
  BY <1>4, <1>6, <1>7, <1>8 DEF LaneDone
<1>10. memory.undo \subseteq b.undo /\ \A u \in b.undo : u \in memory.undo \/ \E m \in LsuLanes : InSlot(lsu[m], u.seq)
  <2>1. \A u \in b.undo : u \in a.undo \/ InSlot(lsu[l], u.seq)
    BY <1>9 DEF Grows, InSlot
  <2>2. a.undo \subseteq b.undo
    BY <1>9 DEF Grows
  <2>3. memory.undo \subseteq a.undo /\ \A u \in a.undo : u \in memory.undo \/ \E m \in LsuLanes : InSlot(lsu[m], u.seq)
    BY DEF Serving
  <2> QED
    BY <1>1, <2>1, <2>2, <2>3
<1>11. ASSUME NEW m \in LsuLanes, m # l
       PROVE  SentInv(b.lanes[m], b.undo, p)
  <2>1. PICK lane : lane = a.lanes[m]
    OBVIOUS
  <2>2. SentInv(lane, a.undo, p)
    BY <2>1 DEF Serving
  <2>3. ASSUME NEW k \in Kinds, NEW i \in Nat, Has(lane, k, i)
        PROVE  Stored(b.undo, Item(lane, k, i).seq) <=> Stored(a.undo, Item(lane, k, i).seq)
    <3>1. Near(lsu[m], issue[m], Item(lane, k, i))
      <4>1. CASE m <= l - 1
        BY <2>1, <2>3, <4>1 DEF Serving
      <4>2. CASE ~ (m <= l - 1)
        <5>1. lane = lsu[m]
          BY <2>1, <4>2 DEF Serving
        <5> QED
          BY <2>3, <5>1 DEF Near
      <4> QED
        BY <4>1, <4>2
    <3>2. ~ InSlot(lsu[l], Item(lane, k, i).seq)
      <4>1. PICK lanes : lanes = AllLanes /\ LanesInv(lanes) /\ popped \in BOOLEAN
                         /\ IssuedApart(lanes, issue, IF popped THEN ALU_LANES + LSU_LANES ELSE 0)
        BY DEF ServeHyp
      <4>2. m \in Lanes /\ l \in Lanes /\ lanes[m] = lsu[m] /\ lanes[l] = lsu[l]
        BY <1>1, <4>1, LaneNumbers DEF Lanes, AllLanes
      <4>3. Near(lanes[m], issue[m], Item(lane, k, i))
        BY <3>1, <4>2
      <4>4. ~ InSlot(lanes[l], Item(lane, k, i).seq)
        BY <1>11, <4>1, <4>2, <4>3, NearInNoSlot
      <4> QED
        BY <4>2, <4>4
    <3>3. Grows(lsu[l], a.undo, b.undo)
      BY <1>9
    <3>4. \A s \in 1 .. PIPE_SLOTS : lsu[l].slots[s].valid => lsu[l].slots[s].req.seq # Item(lane, k, i).seq
      BY <3>2 DEF InSlot
    <3> QED
      BY <3>3, <3>4, StoredSame
  <2>4. SentInv(lane, b.undo, p)
    BY <2>2, <2>3 DEF SentInv
  <2> QED
    BY <1>6, <1>11, <2>1, <2>4
<1>12. ASSUME NEW m \in LsuLanes
       PROVE  IF m <= l
              THEN /\ LaneVals(b.lanes[m], TRUE, p) /\ AnswerInv(b.lanes[m], b.resp[m], p)
                   /\ \A k \in Kinds, i \in Nat : Has(b.lanes[m], k, i) => Near(lsu[m], issue[m], Item(b.lanes[m], k, i))
              ELSE b.lanes[m] = lsu[m] /\ b.resp[m] = memory.resp[m]
  <2>1. CASE m = l
    <3>1. l <= l
      BY <1>1 DEF LsuLanes
    <3>2. \A k \in Kinds, i \in Nat : Has(b.lanes[m], k, i) => Near(lsu[m], issue[m], Item(b.lanes[m], k, i))
      BY <1>6, <1>7, <2>1
    <3> QED
      BY <1>9, <2>1, <3>1, <3>2
  <2>2. CASE m # l
    <3>1. (m <= l <=> m <= l - 1) /\ b.lanes[m] = a.lanes[m] /\ b.resp[m] = a.resp[m]
      <4>1. m <= l <=> m <= l - 1
        BY <1>1, <2>2 DEF LsuLanes
      <4> QED
        BY <1>6, <2>2, <4>1
    <3>2. IF m <= l - 1
          THEN /\ LaneVals(a.lanes[m], TRUE, p) /\ AnswerInv(a.lanes[m], a.resp[m], p)
               /\ \A k \in Kinds, i \in Nat : Has(a.lanes[m], k, i) => Near(lsu[m], issue[m], Item(a.lanes[m], k, i))
          ELSE a.lanes[m] = lsu[m] /\ a.resp[m] = memory.resp[m]
      BY DEF Serving
    <3> QED
      BY <3>1, <3>2
  <2> QED
    BY <2>1, <2>2
<1>13. \A m \in LsuLanes : SentInv(b.lanes[m], b.undo, p)
  BY <1>9, <1>11
<1> QED
  BY <1>6, <1>9, <1>10, <1>12, <1>13 DEF Serving

\* The memory lanes after a cycle, and the memory.
LEMMA ServedRight ==
  ASSUME NEW issue, NEW popped, NEW p, NEW lo, NEW hi, ServeHyp(issue, popped, p, lo, hi)
  PROVE  Serving(issue, p, lo, hi, Served(issue, popped), ALU_LANES + LSU_LANES)
<1> DEFINE n == LSU_LANES
           S(i, a) == Serving(issue, p, lo, hi, a, ALU_LANES + i)
<1>1. PICK run :
        /\ run[0] = [lanes |-> lsu, mem |-> memory.mem, resp |-> memory.resp, undo |-> memory.undo]
        /\ Served(issue, popped) = run[n]
        /\ \A i \in 1 .. n : run[i] = ServeLane(run[i - 1], i, issue, popped)
  BY ServedRun
<1>2. n \in Nat /\ ALU_LANES \in Nat
  BY SizesAssumption
<1>3. S(0, run[0])
  <2>1. PICK a : a = run[0] /\ a.lanes = lsu /\ a.mem = memory.mem /\ a.resp = memory.resp /\ a.undo = memory.undo
    BY <1>1
  <2>2. \A l \in LsuLanes : ~ (l <= ALU_LANES + 0)
    BY <1>2 DEF LsuLanes
  <2>3. /\ DOMAIN lsu = LsuLanes /\ DOMAIN memory.resp = LsuLanes /\ MemInv(p, lo, hi, memory.mem, memory.undo)
    BY DEF ServeHyp
  <2>4. ASSUME NEW l \in LsuLanes
        PROVE  SentInv(lsu[l], memory.undo, p)
    <3>1. PICK memo : memo = MemoFor(memory, l) /\ LaneGood(lsu[l], memo, p, lo, hi)
      BY DEF ServeHyp
    <3>2. memo.undo = memory.undo
      BY <3>1 DEF MemoFor
    <3> QED
      BY <3>1, <3>2 DEF LaneGood
  <2> QED
    BY <2>1, <2>2, <2>3, <2>4 DEF Serving
<1>4. ASSUME NEW i \in 1 .. n, S(i - 1, run[i - 1])
      PROVE  S(i, run[i])
  <2>1. PICK l, a : l = ALU_LANES + i /\ a = run[i - 1]
    OBVIOUS
  <2>2. ALU_LANES + (i - 1) = l - 1
    BY <1>2, <2>1
  <2>3. Serving(issue, p, lo, hi, a, l - 1)
    BY <1>4, <2>1, <2>2
  <2>4. run[i] = ServeLane(a, i, issue, popped)
    BY <1>1, <2>1
  <2>5. Serving(issue, p, lo, hi, run[i], l)
    BY <2>1, <2>3, <2>4, ServeStep
  <2> QED
    BY <2>1, <2>5
<1> HIDE DEF n, S
<1> DEFINE Good == { i \in 0 .. n : S(i, run[i]) }
<1>5. 0 \in Good /\ \A i \in 1 .. n : i - 1 \in Good => i \in Good
  BY <1>2, <1>3, <1>4
<1>6. Good \in SUBSET (0 .. n)
  OBVIOUS
<1> HIDE DEF Good
<1>7. Good = 0 .. n
  BY <1>2, <1>5, <1>6, PassedOn
<1>8. S(n, run[n])
  <2>1. n \in Good
    BY <1>2, <1>7
  <2> QED
    BY <2>1 DEF Good
<1> QED
  BY <1>1, <1>8 DEF S, n

-----------------------------------------------------------------------------
(* All the registers.                                                      *)

\* What is filed is in flight.
LEMMA FiledRange ==
  ASSUME NEW c, NEW x, CoreInv(c), Filed(c, x)
  PROVE  x.seq \in c.committed + 1 .. c.seq - 1
<1>1. PICK i : i = x.rob /\ i \in Slots
  BY DEF Filed
<1>2. c.rob[i].valid /\ x.seq = c.rob[i].seq
  BY <1>1 DEF Filed
<1>3. PICK k, n, done : k = Dist(c.head, i) /\ n = c.count /\ done = c.committed
  OBVIOUS
<1>4. RingInv(c) /\ done \in Nat
  BY <1>3 DEF CoreInv, Shape
<1>5. k < n /\ x.seq = done + 1 + k /\ c.seq = done + n + 1
  BY <1>1, <1>2, <1>3, <1>4 DEF RingInv
<1>6. PICK R, h : R = ROB_SIZE /\ R \in Nat \ {0} /\ h = c.head /\ h \in 0 .. R - 1 /\ n \in 0 .. R
  BY <1>3, <1>4, SizesAssumption DEF RingInv, Slots
<1>7. i \in 0 .. R - 1 /\ k = IF i >= h THEN i - h ELSE i - h + R
  BY <1>1, <1>3, <1>6 DEF Dist, Slots
<1>8. k \in Nat
  BY <1>6, <1>7
<1> QED
  BY <1>3, <1>4, <1>5, <1>6, <1>8

\* As much is in flight as fits the reorder buffer.
LEMMA CoreWindow ==
  ASSUME NEW c, NEW p \in Seq(Instr), CoreInv(c), c.seq - 1 <= Len(p), Orderly(p)
  PROVE  Window(p, c.committed, c.seq - 1)
<1>1. PICK n, done, R : n = c.count /\ done = c.committed /\ R = ROB_SIZE
  OBVIOUS
<1>2. c.seq = done + n + 1 /\ n \in 0 .. R /\ done \in Nat /\ R \in Nat /\ Len(p) \in Nat
  BY <1>1, SizesAssumption DEF CoreInv, Shape, RingInv
<1>3. c.seq - 1 \in done .. Len(p) /\ c.seq - 1 - done <= R
  BY <1>2
<1> QED
  BY <1>1, <1>2, <1>3, OrderlyWindow

\* The requests have the operands that their instructions have in order.
LEMMA RequestVal ==
  ASSUME NEW c, NEW p \in Seq(Instr), NEW e, QueuedIs(c, p, e), NEW l, Suits(e, l)
  PROVE  ItemVal(l \in LsuLanes, "in", p, FuRequest(e))
<1>1. PICK x, n : x = FuRequest(e) /\ n = e.seq
  OBVIOUS
<1>2. x.seq = n /\ x.op = e.op /\ x.imm = e.imm /\ x.src1 = e.src1 /\ x.src2 = e.src2
  BY <1>1 DEF FuRequest
<1>3. e.ready1 /\ e.ready2 /\ (e.isLsu <=> l \in LsuLanes)
  BY DEF Suits
<1>4. n \in 1 .. Len(p) /\ e.op = p[n].op /\ e.imm = p[n].imm /\ (e.isLsu <=> Toy!IsLsu(p[n]))
  BY <1>1 DEF QueuedIs
<1>5. e.src1 = RegAt(p, n - 1, p[n].src1) /\ e.src2 = RegAt(p, n - 1, p[n].src2)
  BY <1>1, <1>3 DEF QueuedIs, OperandIs
<1>6. /\ Req(p, n).op = p[n].op /\ Req(p, n).imm = p[n].imm
      /\ Req(p, n).src1 = RegAt(p, n - 1, p[n].src1) /\ Req(p, n).src2 = RegAt(p, n - 1, p[n].src2)
  BY <1>4, ReqFacts
<1>7. ItemVal(l \in LsuLanes, "in", p, x)
  BY <1>2, <1>3, <1>4, <1>5, <1>6 DEF ItemVal
<1> QED
  BY <1>1, <1>7

\* Those of stores have not been sent.
LEMMA IssueVals ==
  ASSUME NEW c, NEW p \in Seq(Instr), DataInv(c, p), NEW undo, NEW lo, StoresInv(c, p, undo, lo),
         NEW chosen \in [Lanes -> {0} \cup Queued(c)], Fair(c, chosen, IQ_SIZE), NEW issue, issue = Requests(c, chosen)
  PROVE  \A l \in Lanes : issue[l] # <<>> =>
           ItemVal(l \in LsuLanes, "in", p, issue[l][1]) /\ ~ Stored(undo, issue[l][1].seq)
<1>1. SUFFICES ASSUME NEW l \in Lanes, issue[l] # <<>>
               PROVE  ItemVal(l \in LsuLanes, "in", p, issue[l][1]) /\ ~ Stored(undo, issue[l][1].seq)
  OBVIOUS
<1>2. chosen[l] # 0 /\ chosen[l] \in Queued(c) /\ issue[l] = << FuRequest(c.iq[chosen[l]]) >>
  <2>1. chosen[l] # 0
    BY <1>1 DEF Requests
  <2> QED
    BY <2>1 DEF Requests
<1>3. PICK e, x : e = c.iq[chosen[l]] /\ x = FuRequest(e)
  OBVIOUS
<1>4. issue[l][1] = x
  BY <1>2, <1>3
<1>5. QueuedIs(c, p, e) /\ ~ Stored(undo, e.seq)
  BY <1>2, <1>3 DEF DataInv, WaitingInv, StoresInv
<1>6. Suits(e, l)
  BY <1>2, <1>3 DEF Fair
<1>7. x.seq = e.seq
  BY <1>3 DEF FuRequest
<1>8. ItemVal(l \in LsuLanes, "in", p, x)
  BY <1>3, <1>5, <1>6, RequestVal
<1> QED
  BY <1>4, <1>5, <1>7, <1>8

\* What holds of all lanes, and of what is issued, before they tick.
TickHyp(issue, popped, p, lo, hi) ==
  /\ ServeHyp(issue, popped, p, lo, hi) /\ DOMAIN alu = AluLanes
  /\ \A l \in AluLanes :
       /\ LaneVals(alu[l], FALSE, p) /\ Issue(alu[l], FALSE, issue[l], popped /\ alu[l].resultq # <<>>)
       /\ issue[l] # <<>> => ItemVal(FALSE, "in", p, issue[l][1])

\* And what holds of them after it.
LanesRight(all, mems, memo, p, lo, hi) ==
  /\ \A l \in Lanes : LaneVals(all[l], l \in LsuLanes, p)
  /\ DOMAIN memo.resp = LsuLanes
  /\ \A l \in LsuLanes : SentInv(mems[l], memo.undo, p) /\ AnswerInv(mems[l], memo.resp[l], p)
  /\ MemInv(p, lo, hi, memo.mem, memo.undo) /\ \A u \in memo.undo : u.seq > lo

LEMMA LanesVals ==
  ASSUME NEW issue, NEW popped, NEW p, NEW lo, NEW hi, TickHyp(issue, popped, p, lo, hi), LanesTick(issue, popped),
         core'.committed = lo,
         \A l \in LsuLanes, k \in Kinds, i \in Nat : Has(lsu'[l], k, i) => Item(lsu'[l], k, i).seq > lo
  PROVE  /\ LanesRight(AllLanes', lsu', memory', p, lo, hi)
         /\ \A u \in memory'.undo : u \in memory.undo \/ \E l \in LsuLanes : InSlot(lsu[l], u.seq)
         /\ \A u \in memory.undo : u.seq > lo => u \in memory'.undo
<1>1. PICK S : S = Served(issue, popped)
  OBVIOUS
<1>2. /\ alu' = [l \in AluLanes |-> Alu!Tick(alu[l], issue[l], popped /\ Alu!HasResult(alu[l]))]
      /\ lsu' = S.lanes
      /\ memory' = [mem |-> S.mem, resp |-> S.resp, undo |-> { u \in S.undo : u.seq > lo }]
  BY <1>1 DEF LanesTick
<1>3. memory'.mem = S.mem /\ memory'.resp = S.resp /\ memory'.undo = { u \in S.undo : u.seq > lo }
  BY <1>2
<1>4. Serving(issue, p, lo, hi, S, ALU_LANES + LSU_LANES) /\ popped \in BOOLEAN /\ p \in Seq(Instr)
  <2>1. ServeHyp(issue, popped, p, lo, hi)
    BY DEF TickHyp
  <2> QED
    BY <1>1, <2>1, ServedRight DEF ServeHyp
<1>5. \A l \in LsuLanes : l <= ALU_LANES + LSU_LANES
  BY DEF LsuLanes
<1>6. ASSUME NEW l \in LsuLanes
      PROVE  /\ LaneVals(lsu'[l], TRUE, p) /\ AnswerInv(lsu'[l], memory'.resp[l], p)
             /\ SentInv(lsu'[l], memory'.undo, p)
  <2>1. PICK lane : lane = lsu'[l]
    OBVIOUS
  <2>2. LaneVals(lane, TRUE, p) /\ AnswerInv(lane, S.resp[l], p) /\ SentInv(lane, S.undo, p)
    BY <1>2, <1>4, <1>5, <2>1 DEF Serving
  <2>3. \A k \in Kinds, i \in Nat : Has(lane, k, i) =>
          (Stored(S.undo, Item(lane, k, i).seq) <=> Stored(memory'.undo, Item(lane, k, i).seq))
    BY <1>3, <2>1 DEF Stored
  <2>4. SentInv(lane, memory'.undo, p)
    BY <2>2, <2>3 DEF SentInv
  <2> QED
    BY <1>3, <2>1, <2>2, <2>4
<1>7. ASSUME NEW l \in AluLanes
      PROVE  LaneVals(alu'[l], FALSE, p)
  <2>1. PICK lane, issued, pop : lane = alu[l] /\ issued = issue[l] /\ pop = (popped /\ lane.resultq # <<>>)
    OBVIOUS
  <2>2. alu'[l] = Alu!Tick(lane, issued, pop)
    BY <1>2, <2>1 DEF Alu!HasResult
  <2>3. /\ pop \in BOOLEAN /\ LaneVals(lane, FALSE, p) /\ Issue(lane, FALSE, issued, pop)
        /\ issued # <<>> => ItemVal(FALSE, "in", p, issued[1])
        /\ pop => lane.resultq # <<>>
    BY <1>4, <2>1 DEF TickHyp
  <2>4. LaneOk(lane, FALSE) /\ Distinct(lane)
    <3>1. l \in Lanes /\ AllLanes[l] = lane /\ (l \in LsuLanes) = FALSE
      <4>1. l \in Lanes
        BY DEF Lanes
      <4>2. l \notin LsuLanes
        BY <4>1, LaneNumbers
      <4> QED
        BY <2>1, <4>1, <4>2 DEF AllLanes
    <3>2. LanesInv(AllLanes)
      BY DEF TickHyp, ServeHyp
    <3>3. LaneOk(AllLanes[l], l \in LsuLanes) /\ Distinct(AllLanes[l])
      BY <3>1, <3>2 DEF LanesInv, Apart, Distinct
    <3> QED
      BY <3>1, <3>3
  <2> QED
    BY <1>4, <2>2, <2>3, <2>4, AluValsTick
<1>8. ASSUME NEW l \in Lanes
      PROVE  LaneVals(AllLanes'[l], l \in LsuLanes, p)
  <2>1. CASE l \in AluLanes
    <3>1. (l \in LsuLanes) = FALSE /\ AllLanes'[l] = alu'[l]
      <4>1. l \notin LsuLanes
        BY <2>1, LaneNumbers
      <4> QED
        BY <2>1, <4>1 DEF AllLanes
    <3> QED
      BY <1>7, <2>1, <3>1
  <2>2. CASE l \notin AluLanes
    <3>1. (l \in LsuLanes) = TRUE /\ l \in LsuLanes /\ AllLanes'[l] = lsu'[l]
      <4>1. l \in LsuLanes
        BY <2>2, LaneNumbers
      <4> QED
        BY <2>2, <4>1 DEF AllLanes
    <3> QED
      BY <1>6, <3>1
  <2> QED
    BY <2>1, <2>2
<1>9. DOMAIN memory'.resp = LsuLanes
  BY <1>3, <1>4 DEF Serving
<1>10. MemInv(p, lo, hi, memory'.mem, memory'.undo)
  <2>1. MemInv(p, lo, hi, S.mem, S.undo)
    BY <1>4 DEF Serving
  <2>2. PICK undo : undo = memory'.undo /\ undo = { u \in S.undo : u.seq > lo }
    BY <1>3
  <2>3. MemInv(p, lo, hi, S.mem, undo)
    BY <2>1, <2>2 DEF MemInv
  <2> QED
    BY <1>3, <2>2, <2>3
<1>11. LanesRight(AllLanes', lsu', memory', p, lo, hi)
  BY <1>3, <1>6, <1>8, <1>9, <1>10 DEF LanesRight
<1>12. /\ \A u \in S.undo : u \in memory.undo \/ \E l \in LsuLanes : InSlot(lsu[l], u.seq)
       /\ memory.undo \subseteq S.undo
  BY <1>4 DEF Serving
<1> QED
  BY <1>3, <1>11, <1>12

\* What is in a slot stays there, in a cycle, or moves on.
LEMMA InSlotHeld ==
  ASSUME NEW lanes, LanesInv(lanes), NEW l \in Lanes, NEW popped \in BOOLEAN, NEW n, InSlot(lanes[l], n)
  PROVE  \E t \in Held(lanes, IF popped THEN ALU_LANES + LSU_LANES ELSE 0) : t.seq = n
<1>1. PICK s \in 1 .. PIPE_SLOTS : lanes[l].slots[s].valid /\ n = lanes[l].slots[s].req.seq
  BY DEF InSlot
<1>2. PIPE_SLOTS \in Nat
  BY SizesAssumption
<1>3. /\ "slot" \in Kinds /\ s \in Nat /\ Item(lanes[l], "slot", s) = lanes[l].slots[s].req
      /\ Stays(lanes[l], popped /\ lanes[l].resultq # <<>>, "slot", s)
  BY <1>1, <1>2 DEF Kinds, Stays, Has, Item
<1>4. PICK t : /\ t = Ticket(Item(lanes[l], "slot", s))
               /\ t \in Held(lanes, IF popped THEN ALU_LANES + LSU_LANES ELSE 0)
  BY <1>3, StaysHeld
<1>5. t.seq = n
  BY <1>1, <1>3, <1>4 DEF Ticket
<1> QED
  BY <1>4, <1>5

\* The lanes as they are, what is issued to them, and the memory they meet.
LEMMA LanesReady ==
  ASSUME OrderInv, AnswersAreOwn, NEW p \in Seq(Instr), NEW lo, NEW hi, NEW lo0, NEW hi0,
         LanesRight(AllLanes, lsu, memory, p, lo0, hi0),
         NEW issue, NEW popped \in BOOLEAN,
         \A l \in Lanes : Issue(AllLanes[l], l \in LsuLanes, issue[l], popped /\ AllLanes[l].resultq # <<>>),
         IssuedApart(AllLanes, issue, IF popped THEN ALU_LANES + LSU_LANES ELSE 0),
         \A l \in Lanes : issue[l] # <<>> =>
           ItemVal(l \in LsuLanes, "in", p, issue[l][1]) /\ ~ Stored(memory.undo, issue[l][1].seq),
         Window(p, lo, hi), MemInv(p, lo, hi, memory.mem, memory.undo),
         \A t \in Held(AllLanes, IF popped THEN ALU_LANES + LSU_LANES ELSE 0) : t.seq \in lo + 1 .. hi
  PROVE  TickHyp(issue, popped, p, lo, hi)
<1>1. LanesInv(AllLanes) /\ DOMAIN alu = AluLanes /\ DOMAIN lsu = LsuLanes
  BY DEF OrderInv
<1>2. ASSUME NEW l \in LsuLanes
      PROVE  /\ LaneGood(lsu[l], MemoFor(memory, l), p, lo, hi)
             /\ Issue(lsu[l], TRUE, issue[l], popped /\ lsu[l].resultq # <<>>)
             /\ issue[l] # <<>> => ItemVal(TRUE, "in", p, issue[l][1]) /\ ~ Stored(memory.undo, issue[l][1].seq)
  <2>1. l \in Lanes /\ AllLanes[l] = lsu[l] /\ (l \in LsuLanes) = TRUE
    <3>1. l \in Lanes
      BY DEF Lanes
    <3>2. l \notin AluLanes
      BY <3>1, LaneNumbers
    <3> QED
      BY <3>1, <3>2 DEF AllLanes
  <2>2. PICK lane, memo : lane = lsu[l] /\ memo = MemoFor(memory, l)
    OBVIOUS
  <2>3. memo.mem = memory.mem /\ memo.resp = memory.resp[l] /\ memo.undo = memory.undo
    BY <2>2 DEF MemoFor
  <2>4. LaneOk(lane, TRUE) /\ Distinct(lane)
    <3>1. LaneOk(AllLanes[l], l \in LsuLanes) /\ Distinct(AllLanes[l])
      BY <1>1, <2>1 DEF LanesInv, Apart, Distinct
    <3> QED
      BY <2>1, <2>2, <3>1
  <2>5. OwnInv(lane, memo.resp)
    BY <2>2, <2>3 DEF AnswersAreOwn, OwnInv
  <2>6. LaneVals(lane, TRUE, p)
    <3>1. LaneVals(AllLanes[l], l \in LsuLanes, p)
      BY <2>1 DEF LanesRight
    <3> QED
      BY <2>1, <2>2, <3>1
  <2>7. SentInv(lane, memo.undo, p) /\ AnswerInv(lane, memo.resp, p)
    BY <2>2, <2>3 DEF LanesRight
  <2>8. ASSUME NEW s \in 1 .. PIPE_SLOTS, lane.slots[s].valid
        PROVE  lane.slots[s].req.seq \in lo + 1 .. hi
    <3>1. InSlot(AllLanes[l], lane.slots[s].req.seq)
      BY <2>1, <2>2, <2>8 DEF InSlot
    <3>2. PICK t \in Held(AllLanes, IF popped THEN ALU_LANES + LSU_LANES ELSE 0) : t.seq = lane.slots[s].req.seq
      BY <1>1, <2>1, <3>1, InSlotHeld
    <3> QED
      BY <3>2
  <2>9. LaneGood(lane, memo, p, lo, hi)
    BY <2>3, <2>4, <2>5, <2>6, <2>7, <2>8 DEF LaneGood
  <2>10. Issue(lane, TRUE, issue[l], popped /\ lane.resultq # <<>>)
    BY <2>1, <2>2
  <2>11. issue[l] # <<>> => ItemVal(TRUE, "in", p, issue[l][1]) /\ ~ Stored(memory.undo, issue[l][1].seq)
    BY <2>1
  <2> QED
    BY <2>2, <2>9, <2>10, <2>11
<1>3. ASSUME NEW l \in AluLanes
      PROVE  /\ LaneVals(alu[l], FALSE, p) /\ Issue(alu[l], FALSE, issue[l], popped /\ alu[l].resultq # <<>>)
             /\ issue[l] # <<>> => ItemVal(FALSE, "in", p, issue[l][1])
  <2>1. l \in Lanes /\ AllLanes[l] = alu[l] /\ (l \in LsuLanes) = FALSE
    <3>1. l \in Lanes
      BY DEF Lanes
    <3>2. l \notin LsuLanes
      BY <3>1, LaneNumbers
    <3> QED
      BY <3>1, <3>2 DEF AllLanes
  <2>2. LaneVals(AllLanes[l], l \in LsuLanes, p)
    BY <2>1 DEF LanesRight
  <2> QED
    BY <2>1, <2>2
<1>4. DOMAIN memory.resp = LsuLanes
  BY DEF LanesRight
<1>5. ServeHyp(issue, popped, p, lo, hi)
  BY <1>1, <1>2, <1>4 DEF ServeHyp
<1> QED
  BY <1>1, <1>3, <1>5 DEF TickHyp

\* The stores of which the memory keeps a record after a cycle of the lanes.
LEMMA StoresServed ==
  ASSUME NEW c, NEW T, FlowInv(c, T), NEW p, NEW undo, NEW lo, StoresInv(c, p, undo, lo),
         NEW new, \A u \in new : u \in undo \/ \E t \in T : t.seq = u.seq,
         \A u \in undo : u.seq > c.committed => u \in new
  PROVE  StoresInv(c, p, new, c.committed)
<1>1. CoreInv(c) /\ FilingInv(c, T) /\ c.committed \in Nat
  BY DEF FlowInv, CoreInv, Shape
<1>2. ASSUME NEW i \in Filled(c), c.rob[i].ready, c.rob[i].op = "STORE"
      PROVE  Stored(new, c.rob[i].seq)
  <2>1. PICK k, n, done : k = Dist(c.head, i) /\ n = c.count /\ done = c.committed
    OBVIOUS
  <2>2. c.rob[i].seq = done + 1 + k /\ c.head \in Slots /\ i \in Slots
    BY <1>1, <1>2, <2>1 DEF CoreInv, RingInv, Filled
  <2>3. PICK R, h : R = ROB_SIZE /\ R \in Nat \ {0} /\ h = c.head /\ h \in 0 .. R - 1 /\ i \in 0 .. R - 1
    BY <2>2, SizesAssumption DEF Slots
  <2>4. k \in Nat
    BY <2>1, <2>3 DEF Dist
  <2>5. c.rob[i].seq > c.committed
    BY <1>1, <2>1, <2>2, <2>4
  <2>6. Stored(undo, c.rob[i].seq)
    BY <1>2 DEF StoresInv
  <2> QED
    BY <2>5, <2>6 DEF Stored
<1>3. ASSUME NEW i \in Queued(c)
      PROVE  ~ Stored(new, c.iq[i].seq)
  <2>1. ~ Stored(undo, c.iq[i].seq) /\ \A t \in T : t.seq # c.iq[i].seq
    BY <1>1, <1>3 DEF StoresInv, FilingInv
  <2> QED
    BY <2>1 DEF Stored
<1>4. ASSUME NEW u \in new
      PROVE  u.seq \in Nat /\ u.seq < c.seq
  <2>1. CASE u \in undo
    BY <2>1 DEF StoresInv
  <2>2. CASE \E t \in T : t.seq = u.seq
    <3>1. PICK t \in T : t.seq = u.seq /\ Filed(c, t)
      BY <1>1, <2>2 DEF FilingInv
    <3> QED
      BY <1>1, <3>1, FiledIsOlder
  <2> QED
    BY <2>1, <2>2
<1>5. c.committed + 1 .. c.committed = {}
  BY <1>1
<1> QED
  BY <1>2, <1>3, <1>4, <1>5 DEF StoresInv

\* The invariant of the order: the ports and the ring hold the program from
\* where the core is.
FetchInv ==
  /\ OrderInv /\ program \in Programs /\ fed <= Len(program)
  /\ PortsAre(program, core.seq - 1 + Len(core.ingress), push, fed)
  /\ FetchedInv(core, program)

\* That of the values: they are those of in-order execution.
ValuesInv ==
  /\ OrderInv /\ program \in Programs
  /\ DataInv(core, program) /\ StoresInv(core, program, memory.undo, core.committed)
  /\ LanesRight(AllLanes, lsu, memory, program, core.committed, core.seq - 1)

\* What is in the lanes is in flight.
LEMMA LaneItemsInFlight ==
  ASSUME NEW c, NEW lanes, LanesInv(lanes), FlowInv(c, Held(lanes, 0)), NEW l \in Lanes, NEW k \in Kinds, NEW i \in Nat,
         Has(lanes[l], k, i)
  PROVE  Item(lanes[l], k, i).seq > c.committed
<1>1. PICK x : x = Item(lanes[l], k, i)
  OBVIOUS
<1>2. Stays(lanes[l], FALSE /\ lanes[l].resultq # <<>>, k, i) /\ FALSE \in BOOLEAN
  BY DEF Stays
<1>3. Ticket(x) \in Held(lanes, 0)
  <2>1. Ticket(x) \in Held(lanes, IF FALSE THEN ALU_LANES + LSU_LANES ELSE 0)
    BY <1>1, <1>2, StaysHeld
  <2> QED
    BY <2>1
<1>4. CoreInv(c) /\ Filed(c, Ticket(x)) /\ c.committed \in Nat
  <2>1. PICK T, y : T = Held(lanes, 0) /\ y = Ticket(x)
    OBVIOUS
  <2>2. CoreInv(c) /\ FilingInv(c, T) /\ y \in T
    BY <1>3, <2>1 DEF FlowInv
  <2>3. Filed(c, y)
    BY <2>2 DEF FilingInv
  <2>4. c.committed \in Nat
    BY <2>2 DEF CoreInv, Shape
  <2> QED
    BY <2>1, <2>2, <2>3, <2>4
<1>5. PICK t : t = Ticket(x) /\ t.seq = x.seq
  <2>1. PICK t : t = [rob |-> x.rob, dst |-> x.dst, seq |-> x.seq]
    OBVIOUS
  <2>2. t.seq = x.seq
    BY <2>1
  <2> QED
    BY <2>1, <2>2 DEF Ticket
<1>6. t.seq \in c.committed + 1 .. c.seq - 1
  BY <1>4, <1>5, FiledRange
<1> QED
  BY <1>1, <1>4, <1>5, <1>6

\* A cycle after the HALT keeps it: the lanes go on.
LEMMA ValuesHalted ==
  ASSUME ValuesInv, AnswersAreOwn, HaltedCycle, OrderInv', program \in Seq(Instr), Orderly(program)
  PROVE  ValuesInv'
<1>1. PICK lanes, p, lo, hi, issue :
        /\ lanes = AllLanes /\ p = program /\ lo = core.committed /\ hi = core.seq - 1
        /\ issue = [l \in AluLanes \cup LsuLanes |-> <<>>]
  OBVIOUS
<1>2. /\ LanesTick(issue, FALSE) /\ core' = core /\ program' = program /\ fed' = fed /\ push' = push
  BY <1>1 DEF HaltedCycle
<1>3. /\ OrderInv /\ LanesInv(lanes) /\ FlowInv(core, Held(lanes, 0)) /\ CoreInv(core)
  BY <1>1 DEF ValuesInv, OrderInv, BackendInv
<1>4. /\ DataInv(core, p) /\ StoresInv(core, p, memory.undo, lo) /\ LanesRight(lanes, lsu, memory, p, lo, hi)
  BY <1>1 DEF ValuesInv
<1>5. \A l \in Lanes : issue[l] = <<>>
  BY <1>1 DEF Lanes
<1>6. Window(p, lo, hi)
  <2>1. core.seq - 1 <= Len(p)
    <3>1. PICK s, n, L : s = core.seq /\ n = Len(core.ingress) /\ L = Len(p)
      OBVIOUS
    <3>2. s - 1 + n <= L
      BY <1>4, <3>1 DEF DataInv
    <3>3. s \in Nat /\ n \in Nat /\ L \in Nat
      <4>1. core.ingress \in Seq(Instr) /\ core.seq \in Nat
        BY <1>3, SeqIsNat DEF CoreInv, Shape
      <4> QED
        BY <1>1, <3>1, <4>1
    <3> QED
      BY <3>1, <3>2, <3>3
  <2> QED
    BY <1>1, <1>3, <2>1, CoreWindow
<1>7. \A t \in Held(lanes, 0) : t.seq \in lo + 1 .. hi
  <2>1. PICK T : T = Held(lanes, 0)
    OBVIOUS
  <2>2. \A t \in T : Filed(core, t)
    BY <1>3, <2>1 DEF FlowInv, FilingInv
  <2> QED
    BY <1>1, <1>3, <2>1, <2>2, FiledRange
<1>8. TickHyp(issue, FALSE, p, lo, hi)
  <2>1. \A l \in Lanes : Issue(AllLanes[l], l \in LsuLanes, issue[l], FALSE /\ AllLanes[l].resultq # <<>>)
    BY <1>5 DEF Issue
  <2>2. IssuedApart(AllLanes, issue, IF FALSE THEN ALU_LANES + LSU_LANES ELSE 0)
    BY <1>5 DEF IssuedApart
  <2>3. \A l \in Lanes : issue[l] # <<>> =>
          ItemVal(l \in LsuLanes, "in", p, issue[l][1]) /\ ~ Stored(memory.undo, issue[l][1].seq)
    BY <1>5
  <2>4. MemInv(p, lo, hi, memory.mem, memory.undo) /\ LanesRight(AllLanes, lsu, memory, p, lo, hi)
    BY <1>1, <1>4 DEF LanesRight
  <2>5. \A t \in Held(AllLanes, IF FALSE THEN ALU_LANES + LSU_LANES ELSE 0) : t.seq \in lo + 1 .. hi
    BY <1>1, <1>7
  <2>6. FALSE \in BOOLEAN /\ p \in Seq(Instr)
    BY <1>1
  <2> QED
    BY <1>3, <1>6, <2>1, <2>2, <2>3, <2>4, <2>5, <2>6, LanesReady
<1>9. \A l \in LsuLanes, k \in Kinds, i \in Nat : Has(lsu'[l], k, i) => Item(lsu'[l], k, i).seq > lo
  <2>1. PICK news, c : /\ news = AllLanes' /\ c = core' /\ LanesInv(news) /\ FlowInv(c, Held(news, 0))
                       /\ \A l \in LsuLanes : l \in Lanes /\ news[l] = lsu'[l]
    <3>1. LanesInv(AllLanes)' /\ FlowInv(core, Held(AllLanes, 0))'
      BY DEF OrderInv
    <3>2. \A l \in LsuLanes : l \in Lanes /\ AllLanes'[l] = lsu'[l]
      BY LaneNumbers DEF AllLanes, Lanes
    <3> QED
      BY <3>1, <3>2
  <2>2. c.committed = lo
    BY <1>1, <1>2, <2>1
  <2> QED
    BY <2>1, <2>2, LaneItemsInFlight
<1>10. /\ LanesRight(AllLanes', lsu', memory', p, lo, hi)
       /\ \A u \in memory'.undo : u \in memory.undo \/ \E l \in LsuLanes : InSlot(lsu[l], u.seq)
       /\ \A u \in memory.undo : u.seq > lo => u \in memory'.undo
  <2>1. core'.committed = lo
    BY <1>1, <1>2
  <2> QED
    BY <1>2, <1>8, <1>9, <2>1, LanesVals
<1>11. StoresInv(core, p, memory'.undo, lo)
  <2>1. ASSUME NEW u \in memory'.undo
        PROVE  u \in memory.undo \/ \E t \in Held(lanes, 0) : t.seq = u.seq
    <3>1. ASSUME NEW l \in LsuLanes, InSlot(lsu[l], u.seq)
          PROVE  \E t \in Held(lanes, 0) : t.seq = u.seq
      <4>1. l \in Lanes /\ lanes[l] = lsu[l]
        BY <1>1, LaneNumbers DEF AllLanes, Lanes
      <4>2. PICK pop, n : pop = FALSE /\ n = u.seq
        OBVIOUS
      <4>3. pop \in BOOLEAN /\ InSlot(lanes[l], n)
        BY <3>1, <4>1, <4>2
      <4>4. \E t \in Held(lanes, IF pop THEN ALU_LANES + LSU_LANES ELSE 0) : t.seq = n
        BY <1>3, <4>1, <4>3, InSlotHeld
      <4> QED
        BY <4>2, <4>4
    <3> QED
      BY <1>10, <3>1
  <2>2. PICK c, T, undo, new : c = core /\ T = Held(lanes, 0) /\ undo = memory.undo /\ new = memory'.undo
    OBVIOUS
  <2>3. /\ FlowInv(c, T) /\ StoresInv(c, p, undo, lo)
        /\ \A u \in new : u \in undo \/ \E t \in T : t.seq = u.seq
        /\ \A u \in undo : u.seq > c.committed => u \in new
    BY <1>1, <1>3, <1>4, <1>10, <2>1, <2>2
  <2>4. StoresInv(c, p, new, c.committed)
    BY <2>3, StoresServed
  <2> QED
    BY <1>1, <2>2, <2>4
<1> QED
  BY <1>1, <1>2, <1>4, <1>10, <1>11 DEF ValuesInv

\* The first results of the lanes are right.
LEMMA FirstResultsRight ==
  ASSUME LanesInv(AllLanes), NEW p, NEW lo, NEW hi, LanesRight(AllLanes, lsu, memory, p, lo, hi),
         NEW l \in Lanes, AllLanes[l].resultq # <<>>
  PROVE  ResultIs(Head(AllLanes[l].resultq), p, memory.undo)
<1>1. PICK lane, mem, wb : lane = AllLanes[l] /\ mem = (l \in LsuLanes) /\ wb = Head(lane.resultq)
  OBVIOUS
<1>2. LaneOk(lane, mem) /\ lane.resultq # <<>>
  BY <1>1 DEF LanesInv
<1>3. Has(lane, "out", 1) /\ Item(lane, "out", 1) = wb /\ "out" \in Kinds /\ 1 \in Nat
  BY <1>1, <1>2, FirstResult DEF Kinds
<1>4. LaneVals(lane, mem, p)
  BY <1>1 DEF LanesRight
<1>5. ItemVal(mem, "out", p, wb)
  BY <1>3, <1>4 DEF LaneVals
<1>6. ASSUME p[wb.seq].op = "STORE"
      PROVE  Stored(memory.undo, wb.seq)
  <2>1. mem /\ l \in LsuLanes
    BY <1>1, <1>5, <1>6 DEF ItemVal, Toy!IsLsu
  <2>2. lane = lsu[l]
    BY <1>1, <2>1, LaneNumbers DEF AllLanes
  <2>3. SentInv(lane, memory.undo, p)
    BY <2>1, <2>2 DEF LanesRight
  <2>4. ~ Unsent(lane, "out", 1)
    BY DEF Unsent
  <2> QED
    BY <1>3, <1>6, <2>3, <2>4 DEF SentInv
<1> QED
  BY <1>1, <1>5, <1>6 DEF ResultIs, ItemVal

\* The cycle up to the drained ports: r has what they leave.
LEMMA FetchDrained ==
  ASSUME FetchInv, NEW p, p = program, p \in Seq(Instr), INGRESS_WIDTH = 1 \/ Len(p) <= FRONTEND_QUEUE_DEPTH,
         NEW r, r = Drained(push, core.ingress), NEW d, d = [core EXCEPT !.ingress = r.ring]
  PROVE  /\ FlowInv(d, Held(AllLanes, 0)) /\ FetchedInv(d, p)
         /\ \A x \in CoreFields : x # "ingress" => d[x] = core[x]
         /\ d.seq - 1 + Len(d.ingress) \in Nat /\ r.ports \in [Ports -> Seq(Instr)]
         /\ PortsAre(p, d.seq - 1 + Len(d.ingress), r.ports, fed)
         /\ \A q \in Ports : push[q] = <<>> => r.ports[q] = <<>>
         /\ INGRESS_WIDTH = 1 \/ \A q \in Ports : r.ports[q] = <<>>
<1>1. PICK c, T, n : c = core /\ T = Held(AllLanes, 0) /\ n = c.seq - 1
  OBVIOUS
<1>2. /\ FlowInv(c, T) /\ CoreInv(c) /\ fed \in Nat /\ push \in [Ports -> Seq(Instr)] /\ c.ingress \in Seq(Instr)
      /\ DOMAIN c = CoreFields
  BY <1>1 DEF FetchInv, OrderInv, BackendInv, CoreInv, Shape
<1>3. FetchedInv(c, p) /\ fed <= Len(p) /\ PortsAre(p, n + Len(c.ingress), push, fed)
  BY <1>1 DEF FetchInv
<1>4. n \in Nat
  <2>1. PICK k, done, s, R : k = c.count /\ done = c.committed /\ s = c.seq /\ R = ROB_SIZE
    OBVIOUS
  <2>2. s = done + k + 1 /\ done \in Nat /\ k \in 0 .. R
    BY <1>2, <2>1 DEF CoreInv, Shape, RingInv
  <2>3. R \in Nat
    BY <2>1, SizesAssumption
  <2>4. n = s - 1
    BY <1>1, <2>1
  <2> QED
    BY <2>2, <2>3, <2>4
<1>5. DrainInv(p, n, fed, push, r, INGRESS_WIDTH)
  <2>1. RingIs(p, n, c.ingress)
    BY <1>1, <1>3 DEF FetchedInv
  <2>2. r = Drained(push, c.ingress)
    BY <1>1
  <2> QED
    BY <1>2, <1>3, <1>4, <2>1, <2>2, DrainedInOrder
<1>6. PICK ring, ports : ring = r.ring /\ ports = r.ports
  OBVIOUS
<1>7. /\ ring \in Seq(Instr) /\ ports \in [Ports -> Seq(Instr)]
      /\ RingIs(p, n, ring) /\ PortsAre(p, n + Len(ring), ports, fed)
      /\ \A q \in Ports : push[q] = <<>> => ports[q] = <<>>
  BY <1>5, <1>6 DEF DrainInv
<1>8. INGRESS_WIDTH = 1 \/ \A q \in Ports : ports[q] = <<>>
  <2>1. \A q \in Ports : q <= INGRESS_WIDTH
    BY DEF Ports
  <2> QED
    BY <1>5, <1>6, <2>1 DEF DrainInv
<1>9. n + Len(ring) <= Len(p)
  <2>1. PICK f : PortsCount(p, n + Len(ring), ports, fed, f)
    BY <1>7 DEF PortsAre
  <2>2. f[0] \in n + Len(ring) .. fed
    <3>1. 0 \in 0 .. INGRESS_WIDTH
      BY SizesAssumption
    <3> QED
      BY <2>1, <3>1 DEF PortsCount
  <2>3. PICK a, b, L, x : a = n + Len(ring) /\ b = fed /\ L = Len(p) /\ x = f[0]
    OBVIOUS
  <2>4. L \in Nat /\ Len(ring) \in Nat
    BY <1>7, <2>3
  <2>5. a \in Nat /\ b \in Nat /\ b <= L
    BY <1>2, <1>3, <1>4, <2>3, <2>4
  <2>6. x \in a .. b
    BY <2>2, <2>3
  <2>7. a <= L
    BY <2>4, <2>5, <2>6
  <2> QED
    BY <2>3, <2>7
<1>10. /\ FlowInv(d, T) /\ d.ingress = ring /\ \A x \in CoreFields : x # "ingress" => d[x] = c[x]
  <2>1. d = [c EXCEPT !.ingress = ring]
    BY <1>1, <1>6
  <2>2. /\ FlowInv(d, T) /\ DOMAIN d = DOMAIN c /\ d.ingress = ring
        /\ \A x \in DOMAIN c : x # "ingress" => d[x] = c[x]
    BY <1>2, <1>7, <2>1, FlowDrained
  <2> QED
    BY <1>2, <2>2
<1>11. d.seq = c.seq /\ d.rob = c.rob
  BY <1>10 DEF CoreFields
<1>12. FetchedInv(d, p)
  <2>1. RingIs(p, d.seq - 1, d.ingress) /\ d.seq - 1 + Len(d.ingress) <= Len(p)
    BY <1>1, <1>7, <1>9, <1>10, <1>11
  <2>2. EntriesInv(d, p)
    BY <1>3, <1>11 DEF FetchedInv, EntriesInv, Filled
  <2> QED
    BY <2>1, <2>2 DEF FetchedInv
<1>13. d.seq - 1 + Len(d.ingress) = n + Len(ring) /\ n + Len(ring) \in Nat
  BY <1>1, <1>4, <1>7, <1>10, <1>11
<1> QED
  BY <1>1, <1>6, <1>7, <1>8, <1>10, <1>12, <1>13

\* What begins the rest of the program after its first n instructions.
LEMMA NextOfProgram ==
  ASSUME NEW p \in Seq(Instr), NEW ring \in Seq(Instr), NEW n \in Nat, n <= Len(p)
  PROVE  IsPrefix(ring, SubSeq(p, n + 1, Len(p))) <=> RingIs(p, n, ring) /\ n + Len(ring) <= Len(p)
<1>1. PICK L, k, rest : L = Len(p) /\ k = Len(ring) /\ rest = SubSeq(p, n + 1, L)
  OBVIOUS
<1>2. L \in Nat /\ k \in Nat /\ n <= L
  BY <1>1
<1>3. Len(rest) = L - n /\ \A i \in 1 .. L - n : rest[i] = p[n + i]
  <2>1. rest = [i \in 1 .. (1 + L - (n + 1)) |-> p[i + (n + 1) - 1]]
    BY <1>1, <1>2
  <2>2. 1 + L - (n + 1) = L - n /\ \A i \in 1 .. L - n : i + (n + 1) - 1 = n + i
    BY <1>2
  <2>3. rest = [i \in 1 .. L - n |-> p[n + i]]
    BY <2>1, <2>2
  <2>4. L - n \in Nat
    BY <1>2
  <2>5. Len(rest) = L - n
    BY <2>3, <2>4
  <2> QED
    BY <2>3, <2>5
<1>4. SubSeq(ring, 1, k) = ring
  BY <1>1
<1>5. ASSUME k <= L - n
      PROVE  SubSeq(rest, 1, k) = [i \in 1 .. k |-> rest[i]]
  <2>1. rest \in Seq(Instr)
    BY <1>1, <1>2
  <2>2. SubSeq(rest, 1, k) = [i \in 1 .. (1 + k - 1) |-> rest[i + 1 - 1]]
    BY <1>2, <1>3, <1>5, <2>1
  <2> QED
    BY <1>2, <2>2
<1>6. ring = [i \in 1 .. k |-> ring[i]]
  BY <1>1
<1>7. k <= L - n => (ring = SubSeq(rest, 1, k) <=> \A i \in 1 .. k : ring[i] = p[n + i])
  <2> SUFFICES ASSUME k <= L - n
               PROVE  ring = SubSeq(rest, 1, k) <=> \A i \in 1 .. k : ring[i] = p[n + i]
    OBVIOUS
  <2>1. \A i \in 1 .. k : rest[i] = p[n + i]
    BY <1>2, <1>3
  <2>2. PICK g : g = SubSeq(rest, 1, k) /\ g = [i \in 1 .. k |-> rest[i]]
    BY <1>5
  <2>3. ring = g <=> \A i \in 1 .. k : ring[i] = g[i]
    BY <1>6, <2>2
  <2>4. \A i \in 1 .. k : g[i] = p[n + i]
    BY <2>1, <2>2
  <2> QED
    BY <2>2, <2>3, <2>4
<1>8. k <= L - n <=> n + k <= L
  BY <1>2
<1> QED
  BY <1>1, <1>3, <1>4, <1>7, <1>8 DEF IsPrefix, RingIs

\* The same where the ring, once drained, holds what comes next: then the
\* ports need not be in order after it.
LEMMA OrderedDrained ==
  ASSUME ValuesInv, IngressInOrder, NEW p, p = program, p \in Seq(Instr),
         NEW r, r = Drained(push, core.ingress), NEW d, d = [core EXCEPT !.ingress = r.ring]
  PROVE  /\ FlowInv(d, Held(AllLanes, 0)) /\ FetchedInv(d, p)
         /\ \A x \in CoreFields : x # "ingress" => d[x] = core[x]
<1>1. PICK c, T, n, ring, L :
        c = core /\ T = Held(AllLanes, 0) /\ n = c.seq - 1 /\ ring = r.ring /\ L = Len(p)
  OBVIOUS
<1>2. /\ FlowInv(c, T) /\ CoreInv(c) /\ push \in [Ports -> Seq(Instr)] /\ c.ingress \in Seq(Instr)
      /\ DOMAIN c = CoreFields /\ c.seq \in Nat
  BY <1>1, SeqIsNat DEF ValuesInv, OrderInv, BackendInv, CoreInv, Shape
<1>3. DataInv(c, p)
  BY <1>1 DEF ValuesInv
<1>4. ring \in Seq(Instr) /\ L \in Nat /\ Len(ring) \in Nat
  <2>1. r.ring \in Seq(Instr)
    <3>1. core.ingress \in Seq(Instr) /\ push \in [Ports -> Seq(Instr)]
      BY <1>1, <1>2
    <3> QED
      BY <3>1, DrainKeeps
  <2> QED
    BY <1>1, <2>1
<1>5. /\ n \in Nat /\ n <= L /\ c.seq = n + 1
  <2>1. PICK s, k : s = c.seq /\ k = Len(c.ingress)
    OBVIOUS
  <2>2. k \in Nat /\ s - 1 + k <= L
    BY <1>1, <1>2, <1>3, <2>1 DEF DataInv
  <2>3. s \in Nat /\ s >= 1
    <3>1. PICK j, done, R : j = c.count /\ done = c.committed /\ R = ROB_SIZE
      OBVIOUS
    <3>2. s = done + j + 1 /\ done \in Nat /\ j \in 0 .. R
      BY <1>2, <2>1, <3>1 DEF CoreInv, Shape, RingInv
    <3>3. R \in Nat
      BY <3>1, SizesAssumption
    <3> QED
      BY <3>2, <3>3
  <2>4. n = s - 1
    BY <1>1, <2>1
  <2> QED
    BY <1>4, <2>1, <2>2, <2>3, <2>4
<1>6. RingIs(p, n, ring)
  <2>1. IsPrefix(ring, SubSeq(p, n + 1, Len(p)))
    BY <1>1, <1>5 DEF IngressInOrder
  <2> QED
    BY <1>1, <1>4, <1>5, <2>1, NextOfProgram
<1>7. n + Len(ring) <= Len(p)
  <2>1. IsPrefix(ring, SubSeq(p, n + 1, Len(p)))
    BY <1>1, <1>5 DEF IngressInOrder
  <2> QED
    BY <1>1, <1>4, <1>5, <2>1, NextOfProgram
<1>8. /\ FlowInv(d, T) /\ d.ingress = ring /\ \A x \in CoreFields : x # "ingress" => d[x] = c[x]
  <2>1. d = [c EXCEPT !.ingress = ring]
    BY <1>1
  <2>2. /\ FlowInv(d, T) /\ DOMAIN d = DOMAIN c /\ d.ingress = ring
        /\ \A x \in DOMAIN c : x # "ingress" => d[x] = c[x]
    BY <1>2, <1>4, <2>1, FlowDrained
  <2> QED
    BY <1>2, <2>2
<1>9. d.seq = c.seq /\ d.rob = c.rob
  BY <1>8 DEF CoreFields
<1>10. FetchedInv(d, p)
  <2>1. RingIs(p, d.seq - 1, d.ingress) /\ d.seq - 1 + Len(d.ingress) <= Len(p)
    BY <1>1, <1>6, <1>7, <1>8, <1>9
  <2>2. EntriesInv(d, p)
    BY <1>3, <1>9 DEF DataInv, EntriesInv, Filled
  <2> QED
    BY <2>1, <2>2 DEF FetchedInv
<1> QED
  BY <1>1, <1>8, <1>10

LEMMA ValuesDrained ==
  ASSUME ValuesInv, NEW p, p = program,
         NEW d, FetchedInv(d, p), \A x \in CoreFields : x # "ingress" => d[x] = core[x]
  PROVE  DataInv(d, p) /\ StoresInv(d, p, memory.undo, core.committed)
<1>1. PICK c, undo, lo : c = core /\ undo = memory.undo /\ lo = core.committed
  OBVIOUS
<1>2. FetchedInv(d, p) /\ \A x \in CoreFields : x # "ingress" => d[x] = c[x]
  BY <1>1
<1>3. DataInv(c, p) /\ StoresInv(c, p, undo, lo)
  BY <1>1 DEF ValuesInv
<1>4. /\ d.map = c.map /\ d.ready = c.ready /\ d.value = c.value /\ d.rob = c.rob /\ d.iq = c.iq
      /\ d.seq = c.seq /\ d.committed = c.committed /\ d.halted = c.halted
  BY <1>2 DEF CoreFields
<1>5. Filled(d) = Filled(c) /\ Kept(d) = Kept(c) /\ Queued(d) = Queued(c)
  BY <1>4 DEF Filled, Kept, Queued
<1>6. \A t, s, v, q : Pending(d, p, t, q, s, v) = Pending(c, p, t, q, s, v)
  BY <1>4, <1>5 DEF Pending
<1>7. DataInv(d, p)
  <2>1. DestsInv(d) /\ HaltInv(d, p)
    BY <1>3, <1>4, <1>5 DEF DataInv, DestsInv, HaltInv
  <2>2. MapInv(d, p) /\ OldInv(d, p)
    BY <1>3, <1>4, <1>5, <1>6 DEF DataInv, MapInv, OldInv, HoldsTag
  <2>3. WaitingInv(d, p)
    BY <1>3, <1>4, <1>5, <1>6 DEF DataInv, WaitingInv, QueuedIs, OperandIs
  <2> QED
    BY <1>2, <2>1, <2>2, <2>3 DEF DataInv, FetchedInv
<1>8. StoresInv(d, p, undo, lo)
  BY <1>3, <1>4, <1>5 DEF StoresInv
<1> QED
  BY <1>1, <1>7, <1>8

\* The core before it issues; with the right values if it has them.
LEMMA FetchCore ==
  ASSUME OrderInv, NEW whole, whole => ValuesInv, NEW p, p = program,
         NEW d, FlowInv(d, Held(AllLanes, 0)), FetchedInv(d, p),
         \A x \in CoreFields : x # "ingress" => d[x] = core[x],
         NEW next, next = Dispatched(Committed(WrittenBack(d))), NEW T, T = Held(AllLanes, ALU_LANES + LSU_LANES),
         p \in Seq(Instr)
  PROVE  /\ CoreVals(next, T, p, whole, memory.undo, core.committed)
         /\ Onward(d, next, COMMIT_WIDTH) /\ d.seq = core.seq /\ d.committed = core.committed
         /\ next.committed <= core.seq - 1
<1>1. PICK lanes, undo, lo : lanes = AllLanes /\ undo = memory.undo /\ lo = core.committed
  OBVIOUS
<1>2. /\ FlowInv(d, Held(lanes, 0)) /\ FetchedInv(d, p)
      /\ \A x \in CoreFields : x # "ingress" => d[x] = core[x]
  BY <1>1
<1>3. d.committed = lo /\ d.seq = core.seq
  BY <1>1, <1>2 DEF CoreFields
<1>4. CoreVals(d, Held(lanes, 0), p, whole, undo, lo)
  <2>1. ASSUME whole
        PROVE  DataInv(d, p) /\ StoresInv(d, p, undo, lo)
    BY <1>1, <2>1, ValuesDrained
  <2> QED
    BY <1>2, <2>1 DEF CoreVals
<1>5. LanesInv(lanes) /\ lo \in Nat
  BY <1>1 DEF OrderInv, BackendInv, CoreInv, Shape
<1>6. whole => \A l \in Lanes : lanes[l].resultq # <<>> => ResultIs(Head(lanes[l].resultq), p, undo)
  <2>1. ASSUME whole
        PROVE  \A l \in Lanes : lanes[l].resultq # <<>> => ResultIs(Head(lanes[l].resultq), p, undo)
    <3>1. PICK hi : LanesRight(AllLanes, lsu, memory, p, lo, hi)
      BY <1>1, <2>1 DEF ValuesInv
    <3> QED
      BY <1>1, <1>5, <3>1, FirstResultsRight
  <2> QED
    BY <2>1
<1>7. /\ CoreVals(next, Held(lanes, ALU_LANES + LSU_LANES), p, whole, undo, lo)
      /\ Onward(d, next, COMMIT_WIDTH)
      /\ next.committed <= d.seq - 1
  BY <1>4, <1>5, <1>6, <1>1, ValsCycle
<1> QED
  BY <1>1, <1>3, <1>7

\* The lanes, when the core issues.
LEMMA ValuesLanes ==
  ASSUME ValuesInv, AnswersAreOwn, OrderInv', NEW p, p = program, p \in Seq(Instr), Orderly(p),
         NEW T, T = Held(AllLanes, ALU_LANES + LSU_LANES),
         NEW next, FlowInv(next, T), DataInv(next, p), StoresInv(next, p, memory.undo, core.committed),
         next.committed >= core.committed, next.committed <= core.seq - 1, next.seq >= core.seq,
         NEW chosen, chosen = Chosen(next), NEW issue, issue = Requests(next, chosen),
         core' = Issued(next, chosen), LanesTick(issue, TRUE)
  PROVE  /\ LanesRight(AllLanes', lsu', memory', p, next.committed, next.seq - 1)
         /\ StoresInv(next, p, memory'.undo, next.committed)
<1>1. PICK lanes, lo0, hi0, lo, hi :
        /\ lanes = AllLanes /\ lo0 = core.committed /\ hi0 = core.seq - 1
        /\ lo = next.committed /\ hi = next.seq - 1
  OBVIOUS
<1>2. PICK undo, mem : undo = memory.undo /\ mem = memory.mem
  OBVIOUS
<1>3. /\ FlowInv(next, T) /\ DataInv(next, p) /\ StoresInv(next, p, undo, lo0) /\ CoreInv(next)
  BY <1>1, <1>2 DEF FlowInv
<1>4. /\ OrderInv /\ LanesInv(lanes) /\ CoreInv(core) /\ DataInv(core, p) /\ StoresInv(core, p, undo, lo0)
      /\ LanesRight(lanes, lsu, memory, p, lo0, hi0)
  BY <1>1, <1>2 DEF ValuesInv, OrderInv, BackendInv
<1>5. Window(p, lo0, hi0) /\ Window(p, lo, hi)
  <2>1. ASSUME NEW c, CoreInv(c), DataInv(c, p)
        PROVE  Window(p, c.committed, c.seq - 1)
    <3>1. PICK s, n, L : s = c.seq /\ n = Len(c.ingress) /\ L = Len(p)
      OBVIOUS
    <3>2. s - 1 + n <= L
      BY <2>1, <3>1 DEF DataInv
    <3>3. s \in Nat /\ n \in Nat /\ L \in Nat
      <4>1. c.ingress \in Seq(Instr) /\ c.seq \in Nat
        BY <2>1, SeqIsNat DEF CoreInv, Shape
      <4> QED
        BY <3>1, <4>1
    <3>4. c.seq - 1 <= Len(p)
      BY <3>1, <3>2, <3>3
    <3> QED
      BY <2>1, <3>4, CoreWindow
  <2>2. PICK c : c = core
    OBVIOUS
  <2> QED
    BY <1>1, <1>3, <1>4, <2>1, <2>2
<1>6. lo0 \in Nat /\ hi0 \in Nat /\ lo \in Nat /\ hi \in Nat /\ lo \in lo0 .. hi0 /\ hi >= hi0
  <2>1. lo0 \in Nat /\ lo \in Nat
    BY <1>1, <1>3, <1>4 DEF CoreInv, Shape
  <2>2. PICK s, t : s = core.seq /\ t = next.seq
    OBVIOUS
  <2>3. s \in Nat /\ t \in Nat /\ t >= s /\ hi0 = s - 1 /\ hi = t - 1 /\ lo0 <= lo /\ lo <= s - 1
    BY <1>1, <1>3, <1>4, <2>2, SeqIsNat
  <2> QED
    BY <2>1, <2>3
<1>7. MemInv(p, lo, hi, mem, undo)
  <2>1. MemInv(p, lo0, hi0, mem, undo)
    BY <1>2, <1>4 DEF LanesRight
  <2>2. \A u \in undo : u.seq \in Nat
    BY <1>4 DEF StoresInv
  <2>3. \A s \in lo0 + 1 .. lo : p[s].op = "STORE" => Stored(undo, s)
    BY <1>1, <1>3 DEF StoresInv
  <2> QED
    BY <1>5, <1>6, <2>1, <2>2, <2>3, MemCommits
<1>8. Fair(next, chosen, IQ_SIZE) /\ chosen \in [Lanes -> {0} \cup Queued(next)]
  BY ChosenAreFair, ChosenAreQueued
<1>9. /\ \A l \in Lanes : Issue(lanes[l], l \in LsuLanes, issue[l], TRUE /\ lanes[l].resultq # <<>>)
      /\ IssuedApart(lanes, issue, ALU_LANES + LSU_LANES)
  <2>1. FlowInv(next, Held(lanes, ALU_LANES + LSU_LANES)) /\ LanesInv(lanes) /\ issue = Requests(next, chosen)
    BY <1>1, <1>3, <1>4
  <2> QED
    BY <1>8, <2>1, IssueFits
<1>10. \A l \in Lanes : issue[l] # <<>> =>
         ItemVal(l \in LsuLanes, "in", p, issue[l][1]) /\ ~ Stored(undo, issue[l][1].seq)
  BY <1>3, <1>8, IssueVals
<1>11. \A t \in T : t.seq \in lo + 1 .. hi
  <2>1. \A t \in T : Filed(next, t)
    BY <1>3 DEF FlowInv, FilingInv
  <2> QED
    BY <1>1, <1>3, <2>1, FiledRange
<1>12. PICK pop : pop = TRUE
  OBVIOUS
<1>13. T = Held(lanes, IF pop THEN ALU_LANES + LSU_LANES ELSE 0) /\ pop \in BOOLEAN
  BY <1>1, <1>12
<1>14. TickHyp(issue, pop, p, lo, hi)
  <2>1. \A l \in Lanes : Issue(AllLanes[l], l \in LsuLanes, issue[l], pop /\ AllLanes[l].resultq # <<>>)
    BY <1>1, <1>9, <1>12
  <2>2. IssuedApart(AllLanes, issue, IF pop THEN ALU_LANES + LSU_LANES ELSE 0)
    BY <1>1, <1>9, <1>12
  <2>3. \A l \in Lanes : issue[l] # <<>> =>
          ItemVal(l \in LsuLanes, "in", p, issue[l][1]) /\ ~ Stored(memory.undo, issue[l][1].seq)
    BY <1>2, <1>10
  <2>4. MemInv(p, lo, hi, memory.mem, memory.undo) /\ LanesRight(AllLanes, lsu, memory, p, lo0, hi0)
    BY <1>1, <1>2, <1>4, <1>7
  <2>5. \A t \in Held(AllLanes, IF pop THEN ALU_LANES + LSU_LANES ELSE 0) : t.seq \in lo + 1 .. hi
    BY <1>1, <1>11, <1>13
  <2> QED
    BY <1>4, <1>5, <1>13, <2>1, <2>2, <2>3, <2>4, <2>5, LanesReady
<1>15. core'.committed = lo
  BY <1>1 DEF Issued
<1>16. \A l \in LsuLanes, k \in Kinds, i \in Nat : Has(lsu'[l], k, i) => Item(lsu'[l], k, i).seq > lo
  <2>1. PICK news, c : news = AllLanes' /\ c = core'
    OBVIOUS
  <2>2. LanesInv(news) /\ FlowInv(c, Held(news, 0))
    <3>1. LanesInv(AllLanes)' /\ FlowInv(core, Held(AllLanes, 0))'
      BY DEF OrderInv
    <3> QED
      BY <2>1, <3>1
  <2>3. \A l \in LsuLanes : l \in Lanes /\ news[l] = lsu'[l]
    BY <2>1, LaneNumbers DEF AllLanes, Lanes
  <2>4. c.committed = lo
    BY <1>15, <2>1
  <2> QED
    BY <2>2, <2>3, <2>4, LaneItemsInFlight
<1>17. /\ LanesRight(AllLanes', lsu', memory', p, lo, hi)
       /\ \A u \in memory'.undo : u \in memory.undo \/ \E l \in LsuLanes : InSlot(lsu[l], u.seq)
       /\ \A u \in memory.undo : u.seq > lo => u \in memory'.undo
  <2>1. LanesTick(issue, pop)
    BY <1>12
  <2> QED
    BY <1>14, <1>15, <1>16, <2>1, LanesVals
<1>18. PICK new : new = memory'.undo
  OBVIOUS
<1>19. \A u \in new : u \in undo \/ \E t \in T : t.seq = u.seq
  <2>1. ASSUME NEW l \in LsuLanes, NEW n, InSlot(lsu[l], n)
        PROVE  \E t \in T : t.seq = n
    <3>1. l \in Lanes /\ lanes[l] = lsu[l]
      BY <1>1, LaneNumbers DEF AllLanes, Lanes
    <3>2. \E t \in Held(lanes, IF pop THEN ALU_LANES + LSU_LANES ELSE 0) : t.seq = n
      BY <1>4, <1>13, <2>1, <3>1, InSlotHeld
    <3> QED
      BY <1>13, <3>2
  <2> QED
    BY <1>2, <1>17, <1>18, <2>1
<1>20. StoresInv(next, p, new, next.committed)
  <2>1. \A u \in undo : u.seq > next.committed => u \in new
    BY <1>1, <1>2, <1>17, <1>18
  <2> QED
    BY <1>3, <1>19, <2>1, StoresServed
<1> QED
  BY <1>1, <1>17, <1>18, <1>20

\* A cycle keeps the program's order.
LEMMA FetchCycle ==
  ASSUME NEW m, FetchInv, Cycle(m), OrderInv', program \in Seq(Instr),
         INGRESS_WIDTH = 1 \/ Len(program) <= FRONTEND_QUEUE_DEPTH
  PROVE  FetchInv' /\ core'.committed \in core.committed .. core.committed + COMMIT_WIDTH
<1>1. PICK p, T, whole : p = program /\ T = Held(AllLanes, ALU_LANES + LSU_LANES) /\ whole = FALSE
  OBVIOUS
<1>2. PICK r, d : r = Drained(push, core.ingress) /\ d = [core EXCEPT !.ingress = r.ring]
  OBVIOUS
<1>3. PICK next, chosen : next = Dispatched(Committed(WrittenBack(d))) /\ chosen = Chosen(next)
  OBVIOUS
<1>4. PICK at, f, ports : at = d.seq - 1 + Len(d.ingress) /\ ports = r.ports /\ f = Fed(m, ports)
  OBVIOUS
<1>5. /\ at \in Nat /\ ports \in [Ports -> Seq(Instr)] /\ PortsAre(p, at, ports, fed)
      /\ \A q \in Ports : push[q] = <<>> => ports[q] = <<>>
      /\ INGRESS_WIDTH = 1 \/ \A q \in Ports : ports[q] = <<>>
      /\ FlowInv(d, Held(AllLanes, 0))
  <2>1. /\ d.seq - 1 + Len(d.ingress) \in Nat /\ r.ports \in [Ports -> Seq(Instr)]
        /\ PortsAre(p, d.seq - 1 + Len(d.ingress), r.ports, fed)
        /\ \A q \in Ports : push[q] = <<>> => r.ports[q] = <<>>
        /\ INGRESS_WIDTH = 1 \/ \A q \in Ports : r.ports[q] = <<>>
        /\ FlowInv(d, Held(AllLanes, 0))
    BY <1>1, <1>2, FetchDrained
  <2> QED
    BY <1>4, <2>1
<1>6. /\ CoreVals(next, T, p, whole, memory.undo, core.committed)
      /\ Onward(d, next, COMMIT_WIDTH) /\ d.seq = core.seq /\ d.committed = core.committed
  <2>1. /\ FlowInv(d, Held(AllLanes, 0)) /\ FetchedInv(d, p)
        /\ \A x \in CoreFields : x # "ingress" => d[x] = core[x]
    BY <1>1, <1>2, FetchDrained
  <2>2. OrderInv /\ (whole => ValuesInv)
    BY <1>1 DEF FetchInv
  <2> QED
    BY <1>1, <1>3, <2>1, <2>2, FetchCore
<1>7. core' = Issued(next, chosen) /\ push' = f.ports /\ fed' = f.fed /\ program' = program
  BY <1>2, <1>3, <1>4 DEF Cycle
<1>8. PICK new : new = core'
  OBVIOUS
<1>9. /\ new.committed = next.committed /\ new.seq = next.seq /\ new.ingress = next.ingress
      /\ new.rob = next.rob
  <2>1. DOMAIN next = CoreFields
    BY <1>6 DEF CoreVals, FlowInv, CoreInv, Shape
  <2>2. new = Issued(next, chosen)
    BY <1>7, <1>8
  <2> QED
    BY <2>1, <2>2 DEF Issued, CoreFields
<1>10. FetchedInv(new, p)
  BY <1>6, <1>9 DEF CoreVals, FetchedInv, EntriesInv, Filled
<1>11. FeedInv(at, f, INGRESS_WIDTH)
  <2>1. fed \in Nat /\ fed <= Len(program) /\ PortsAre(program, at, ports, fed)
    BY <1>1, <1>5 DEF FetchInv, OrderInv, BackendInv
  <2>2. FeedInv(at, Fed(m, ports), INGRESS_WIDTH)
    BY <1>5, <2>1, FedInOrder
  <2> QED
    BY <1>4, <2>2
<1>12. fed' <= Len(p) /\ PortsAre(p, at, push', fed')
  BY <1>1, <1>7, <1>11 DEF FeedInv
<1>13. new.seq - 1 + Len(new.ingress) = at
  <2>1. PICK s, s0, n, k : s = next.seq /\ s0 = d.seq /\ n = Len(next.ingress) /\ k = Len(d.ingress)
    OBVIOUS
  <2>2. s \in Nat /\ s + n = s0 + k /\ at = s0 - 1 + k
    BY <1>4, <1>6, <2>1 DEF Onward
  <2>3. n \in Nat /\ k \in Nat /\ s0 \in Nat
    <3>1. next.ingress \in Seq(Instr)
      BY <1>6 DEF CoreVals, FlowInv, CoreInv, Shape
    <3>2. CoreInv(d) /\ d.ingress \in Seq(Instr)
      BY <1>5 DEF FlowInv, CoreInv, Shape
    <3> QED
      BY <2>1, <3>1, <3>2, SeqIsNat
  <2>4. at = s - 1 + n
    BY <2>2, <2>3
  <2> QED
    BY <1>9, <2>1, <2>4
<1>14. program' \in Programs /\ program' = p
  BY <1>1, <1>7 DEF FetchInv
<1>15. FetchInv'
  <2>1. PortsAre(program', core'.seq - 1 + Len(core'.ingress), push', fed') /\ fed' <= Len(program')
    BY <1>8, <1>12, <1>13, <1>14
  <2>2. FetchedInv(core', program')
    BY <1>8, <1>10, <1>14
  <2> QED
    BY <1>14, <2>1, <2>2 DEF FetchInv
<1>16. core'.committed \in core.committed .. core.committed + COMMIT_WIDTH
  BY <1>6, <1>8, <1>9 DEF Onward
<1> QED
  BY <1>15, <1>16

\* And the values.
LEMMA ValuesCycle ==
  ASSUME NEW m, ValuesInv, IngressInOrder, AnswersAreOwn, Cycle(m), OrderInv', program \in Seq(Instr), Orderly(program)
  PROVE  ValuesInv' /\ core'.committed \in core.committed .. core.committed + COMMIT_WIDTH
<1>1. PICK p, T, whole : p = program /\ T = Held(AllLanes, ALU_LANES + LSU_LANES) /\ whole = TRUE
  OBVIOUS
<1>2. PICK r, d : r = Drained(push, core.ingress) /\ d = [core EXCEPT !.ingress = r.ring]
  OBVIOUS
<1>3. PICK next, chosen, issue :
        next = Dispatched(Committed(WrittenBack(d))) /\ chosen = Chosen(next) /\ issue = Requests(next, chosen)
  OBVIOUS
<1>4. /\ CoreVals(next, T, p, whole, memory.undo, core.committed)
      /\ Onward(d, next, COMMIT_WIDTH) /\ d.seq = core.seq /\ d.committed = core.committed
      /\ next.committed <= core.seq - 1
  <2>1. /\ FlowInv(d, Held(AllLanes, 0)) /\ FetchedInv(d, p)
        /\ \A x \in CoreFields : x # "ingress" => d[x] = core[x]
    BY <1>1, <1>2, OrderedDrained
  <2>2. OrderInv /\ (whole => ValuesInv)
    BY DEF ValuesInv
  <2> QED
    BY <1>1, <1>3, <2>1, <2>2, FetchCore
<1>5. FlowInv(next, T) /\ DataInv(next, p) /\ StoresInv(next, p, memory.undo, core.committed)
  BY <1>1, <1>4 DEF CoreVals
<1>6. chosen \in [Lanes -> {0} \cup Queued(next)]
  BY <1>3, ChosenAreQueued
<1>7. core' = Issued(next, chosen) /\ program' = program
  BY <1>2, <1>3 DEF Cycle
<1>8. LanesTick(issue, TRUE)
  <2>1. DOMAIN chosen = Lanes
    BY <1>6
  <2>2. LanesTick([l \in DOMAIN chosen |->
                     IF chosen[l] = 0 THEN <<>> ELSE << FuRequest(next.iq[chosen[l]]) >>], TRUE)
    BY <1>2, <1>3 DEF Cycle
  <2> QED
    BY <1>3, <2>1, <2>2 DEF Requests
<1>9. next.committed >= core.committed /\ next.seq >= core.seq
  <2>1. PICK lo0, lo, w : lo0 = core.committed /\ lo = next.committed /\ w = COMMIT_WIDTH
    OBVIOUS
  <2>2. lo \in lo0 .. lo0 + w
    BY <1>4, <2>1 DEF Onward
  <2>3. lo0 \in Nat /\ w \in Nat
    BY <2>1, SizesAssumption DEF ValuesInv, OrderInv, BackendInv, CoreInv, Shape
  <2>4. lo >= lo0
    BY <2>2, <2>3
  <2> QED
    BY <1>4, <2>1, <2>4 DEF Onward
<1>10. /\ LanesRight(AllLanes', lsu', memory', p, next.committed, next.seq - 1)
       /\ StoresInv(next, p, memory'.undo, next.committed)
  BY <1>1, <1>3, <1>4, <1>5, <1>7, <1>8, <1>9, ValuesLanes
<1>11. PICK new, undo, lo : new = core' /\ undo = memory'.undo /\ lo = next.committed
  OBVIOUS
<1>12. /\ new.committed = next.committed /\ new.seq = next.seq
       /\ DataInv(new, p) /\ StoresInv(new, p, undo, lo)
  <2>1. FlowInv(next, T) /\ DataInv(next, p) /\ StoresInv(next, p, undo, lo) /\ DOMAIN next = CoreFields
    BY <1>5, <1>10, <1>11 DEF FlowInv, CoreInv, Shape
  <2>2. DataInv(Issued(next, chosen), p) /\ StoresInv(Issued(next, chosen), p, undo, lo)
    BY <1>6, <2>1, DataIssue, StoresIssue
  <2>3. new = Issued(next, chosen)
    BY <1>7, <1>11
  <2>4. new.committed = next.committed /\ new.seq = next.seq
    BY <2>1, <2>3 DEF Issued, CoreFields
  <2> QED
    BY <2>2, <2>3, <2>4
<1>13. core'.committed = lo /\ core'.seq = next.seq /\ program' = p
  BY <1>1, <1>7, <1>11, <1>12
<1>14. DataInv(core', program') /\ StoresInv(core', program', memory'.undo, core'.committed)
  BY <1>11, <1>12, <1>13
<1>15. LanesRight(AllLanes', lsu', memory', program', core'.committed, core'.seq - 1)
  BY <1>10, <1>11, <1>13
<1>16. core'.committed \in core.committed .. core.committed + COMMIT_WIDTH
  BY <1>4, <1>11, <1>13 DEF Onward
<1>17. program' \in Programs
  BY <1>1, <1>13 DEF ValuesInv
<1> QED
  BY <1>14, <1>15, <1>16, <1>17 DEF ValuesInv

\* What the core has at the start is what the in-order machine has.
LEMMA DataBoot ==
  ASSUME NEW c, c = InitCore, NEW p \in Seq(Instr)
  PROVE  DataInv(c, p) /\ StoresInv(c, p, {}, 0)
<1>1. /\ c.ingress = <<>> /\ c.seq = 1 /\ c.committed = 0 /\ c.halted = FALSE
      /\ c.map = [r \in 0 .. ARCH_REGS - 1 |-> r] /\ c.ready = [t \in Tags |-> t < ARCH_REGS]
      /\ c.value = [t \in Tags |-> 0]
      /\ c.rob = [i \in Slots |-> Empty] /\ c.iq = [i \in 1 .. IQ_SIZE |-> Empty]
  BY DEF InitCore, Slots
<1>2. Filled(c) = {} /\ Kept(c) = {} /\ Queued(c) = {}
  BY <1>1 DEF Filled, Kept, Queued, Empty
<1>3. /\ Ref(p, 0).regs = [r \in Regs |-> 0] /\ Ref(p, 0).halted = FALSE
  BY RefBoot
<1>4. RingIs(p, c.seq - 1, c.ingress) /\ c.seq - 1 + Len(c.ingress) <= Len(p)
  <2>1. Len(c.ingress) = 0 /\ Len(p) \in Nat
    BY <1>1
  <2> QED
    BY <1>1, <2>1 DEF RingIs
<1>5. MapInv(c, p)
  <2>1. ASSUME NEW r \in Regs
        PROVE  HoldsTag(c, p, c.map[r], r, c.seq, RegAt(p, c.seq - 1, r))
    <3>1. r \in 0 .. ARCH_REGS - 1 /\ r < ARCH_REGS /\ r \in Tags /\ r # 0
      BY SizesAssumption DEF Regs, Tags
    <3>2. c.map[r] = r /\ c.ready[r] /\ c.value[r] = 0
      BY <1>1, <3>1
    <3>3. RegAt(p, 0, r) = 0 /\ c.seq - 1 = 0
      BY <1>1, <1>3, <3>1 DEF RegAt
    <3> QED
      BY <3>2, <3>3 DEF HoldsTag
  <2> QED
    BY <2>1 DEF MapInv
<1>6. EntriesInv(c, p) /\ DestsInv(c) /\ OldInv(c, p) /\ WaitingInv(c, p)
  BY <1>1, <1>2 DEF EntriesInv, DestsInv, OldInv, WaitingInv
<1>7. HaltInv(c, p)
  BY <1>1, <1>3 DEF HaltInv
<1>8. StoresInv(c, p, {}, 0)
  BY <1>1, <1>2 DEF StoresInv
<1> QED
  BY <1>4, <1>5, <1>6, <1>7, <1>8 DEF DataInv

\* It holds at the start.
LEMMA ValuesInit == Init => ValuesInv /\ FetchInv
<1> SUFFICES ASSUME Init
             PROVE  ValuesInv /\ FetchInv
  OBVIOUS
<1>1. OrderInv
  BY OrderInvInit
<1>2. PICK p, c : p = program /\ c = core
  OBVIOUS
<1>3. p \in Programs /\ p \in Seq(Instr) /\ c = InitCore /\ fed = 0 /\ push = [q \in Ports |-> <<>>]
  BY <1>2, ProgramsAssumption DEF Init
<1>4. c.ingress = <<>> /\ c.seq = 1 /\ c.committed = 0
  BY <1>3 DEF InitCore
<1>5. c.seq - 1 = 0 /\ c.seq - 1 + Len(c.ingress) = 0 /\ Len(p) \in Nat
  BY <1>3, <1>4
<1>6. PortsAre(p, 0, push, fed)
  <2>1. PICK w : w = INGRESS_WIDTH /\ w \in Nat /\ w >= 1
    BY SizesAssumption
  <2>2. PICK f : f = [q \in 0 .. w |-> 0]
    OBVIOUS
  <2>3. f \in [0 .. w -> Nat] /\ f[0] = 0 /\ f[w] = 0 /\ \A q \in 0 .. w : f[q] \in 0 .. 0
    BY <2>1, <2>2
  <2>4. ASSUME NEW q \in 1 .. w
        PROVE  f[q] = f[q - 1]
    BY <2>1, <2>2
  <2>5. PortsCount(p, 0, push, 0, f)
    BY <1>3, <2>1, <2>3, <2>4 DEF PortsCount, Ports
  <2> QED
    BY <1>3, <2>1, <2>3, <2>5 DEF PortsAre
<1>7. DataInv(c, p) /\ StoresInv(c, p, {}, 0)
  BY <1>3, DataBoot
<1>8. memory.mem = InitMem /\ memory.resp = [l \in LsuLanes |-> Lsu!NoResponse] /\ memory.undo = {}
  BY DEF Init
<1>9. LanesRight(AllLanes, lsu, memory, p, 0, 0)
  <2>1. \A l \in Lanes : LaneVals(AllLanes[l], l \in LsuLanes, p)
    BY IdleLanes DEF LaneVals
  <2>2. ASSUME NEW l \in LsuLanes
        PROVE  SentInv(lsu[l], memory.undo, p) /\ AnswerInv(lsu[l], memory.resp[l], p)
    <3>1. l \in Lanes /\ AllLanes[l] = lsu[l]
      BY LaneNumbers DEF AllLanes, Lanes
    <3> QED
      BY <1>8, <3>1, IdleLanes DEF SentInv, AnswerInv, ResponseIs, PhaseOk, Lsu!NoResponse
  <2>3. MemInv(p, 0, 0, memory.mem, memory.undo)
    BY <1>8, RefBoot DEF MemInv
  <2> QED
    BY <1>8, <2>1, <2>2, <2>3 DEF LanesRight
<1>10. fed <= Len(program)
  BY <1>2, <1>3, <1>5
<1> QED
  BY <1>1, <1>2, <1>3, <1>4, <1>5, <1>6, <1>7, <1>8, <1>9, <1>10 DEF ValuesInv, FetchInv, DataInv, FetchedInv

-----------------------------------------------------------------------------
(* The backend implements in-order execution.                              *)

\* What the programs respect.
ProgramsOrderly == \A prog \in Programs : Orderly(prog)

\* All programs fit the ring, or there is one port: a port that finds the ring
\* full waits, and a later one must not find room in the meantime.
ProgramsFit == INGRESS_WIDTH = 1 \/ \A prog \in Programs : Len(prog) <= FRONTEND_QUEUE_DEPTH

LEMMA FetchNext ==
  ASSUME ProgramsFit
  PROVE  FetchInv /\ [Next]_vars => FetchInv'
<1> SUFFICES ASSUME FetchInv, [Next]_vars
             PROVE  FetchInv'
  OBVIOUS
<1>1. OrderInv'
  BY OrderInvNext DEF FetchInv
<1>2. program \in Seq(Instr) /\ (INGRESS_WIDTH = 1 \/ Len(program) <= FRONTEND_QUEUE_DEPTH)
  BY ProgramsAssumption DEF FetchInv, ProgramsFit
<1>3. CASE Offering
  <2>1. PICK m : Cycle(m)
    BY <1>3 DEF Offering
  <2> QED
    BY <1>1, <1>2, <2>1, FetchCycle
<1>4. CASE HaltedCycle
  BY <1>1, <1>4 DEF HaltedCycle, FetchInv
<1>5. CASE UNCHANGED vars
  BY <1>1, <1>5 DEF vars, FetchInv
<1> QED
  BY <1>3, <1>4, <1>5 DEF Next

LEMMA ValuesNext ==
  ASSUME ProgramsOrderly
  PROVE  ValuesInv /\ IngressInOrder /\ AnswersAreOwn /\ [Next]_vars => ValuesInv'
<1> SUFFICES ASSUME ValuesInv, IngressInOrder, AnswersAreOwn, [Next]_vars
             PROVE  ValuesInv'
  OBVIOUS
<1>1. OrderInv'
  BY OrderInvNext DEF ValuesInv
<1>2. program \in Seq(Instr) /\ Orderly(program)
  BY ProgramsAssumption DEF ValuesInv, ProgramsOrderly
<1>3. CASE Offering
  <2>1. PICK m : Cycle(m)
    BY <1>3 DEF Offering
  <2> QED
    BY <1>1, <1>2, <2>1, ValuesCycle
<1>4. CASE HaltedCycle
  BY <1>1, <1>2, <1>4, ValuesHalted
<1>5. CASE UNCHANGED vars
  <2>1. /\ program' = program /\ core' = core /\ lsu' = lsu /\ memory' = memory
        /\ AllLanes' = AllLanes
    BY <1>5 DEF vars, AllLanes
  <2> QED
    BY <1>1, <2>1 DEF ValuesInv
<1> QED
  BY <1>3, <1>4, <1>5 DEF Next

\* In every state the core, the lanes and the memory have the values of
\* in-order execution, as long as no port passes another and each load takes
\* its own answer: what a tag holds, what an operand has read, what a lane
\* will give back and what a store has written (WRITEBACK to issue,
\* BackendCore.hpp:292-560).
THEOREM ValuesAreSound ==
  ASSUME ProgramsOrderly
  PROVE  Spec /\ []IngressInOrder /\ []AnswersAreOwn => []ValuesInv
<1>1. Init => ValuesInv
  BY ValuesInit
<1>2. ValuesInv /\ IngressInOrder /\ AnswersAreOwn /\ [Next]_vars => ValuesInv'
  BY ValuesNext
<1> QED
  BY <1>1, <1>2, PTL DEF Spec

\* With one port, or room in the ring for the program, what is in the ports,
\* in the ring and in flight is the program, in its order
\* (BackendCore.hpp:279-290, 400-482).
THEOREM FetchIsSound ==
  ASSUME ProgramsFit
  PROVE  Spec => []FetchInv
<1>1. Init => FetchInv
  BY ValuesInit
<1>2. FetchInv /\ [Next]_vars => FetchInv'
  BY FetchNext
<1> QED
  BY <1>1, <1>2, PTL DEF Spec

\* So no port passes another then: what ValuesAreSound supposes of the ports
\* holds of every behaviour (BackendCore.hpp:279-290).
THEOREM NoPortPasses ==
  ASSUME ProgramsFit
  PROVE  Spec => []IngressInOrder
<1>1. FetchInv => IngressInOrder
  <2> SUFFICES ASSUME FetchInv
               PROVE  IngressInOrder
    OBVIOUS
  <2>1. program \in Seq(Instr) /\ (INGRESS_WIDTH = 1 \/ Len(program) <= FRONTEND_QUEUE_DEPTH)
    BY ProgramsAssumption DEF FetchInv, ProgramsFit
  <2>2. PICK p, r, d : p = program /\ r = Drained(push, core.ingress) /\ d = [core EXCEPT !.ingress = r.ring]
    OBVIOUS
  <2>3. /\ FetchedInv(d, p) /\ \A x \in CoreFields : x # "ingress" => d[x] = core[x]
    BY <2>1, <2>2, FetchDrained
  <2>4. PICK n, ring : n = core.seq - 1 /\ ring = r.ring
    OBVIOUS
  <2>5. d.ingress = ring /\ d.seq = core.seq
    <3>1. DOMAIN core = CoreFields
      BY DEF FetchInv, OrderInv, BackendInv, CoreInv, Shape
    <3> QED
      BY <2>2, <2>4, <3>1 DEF CoreFields
  <2>6. RingIs(p, n, ring) /\ n + Len(ring) <= Len(p)
    BY <2>3, <2>4, <2>5 DEF FetchedInv
  <2>7. ring \in Seq(Instr)
    <3>1. core.ingress \in Seq(Instr) /\ push \in [Ports -> Seq(Instr)]
      BY DEF FetchInv, OrderInv, BackendInv, CoreInv, Shape
    <3> QED
      BY <2>2, <2>4, <3>1, DrainKeeps
  <2>8. n \in Nat /\ n + 1 = core.seq
    <3>1. PICK s, j, done, R : s = core.seq /\ j = core.count /\ done = core.committed /\ R = ROB_SIZE
      OBVIOUS
    <3>2. s = done + j + 1 /\ done \in Nat /\ j \in 0 .. R
      BY <3>1 DEF FetchInv, OrderInv, BackendInv, CoreInv, Shape, RingInv
    <3>3. R \in Nat
      BY <3>1, SizesAssumption
    <3> QED
      BY <2>4, <3>1, <3>2, <3>3
  <2>9. n <= Len(p)
    <3>1. PICK k, L : k = Len(ring) /\ L = Len(p)
      OBVIOUS
    <3>2. k \in Nat /\ L \in Nat
      BY <2>1, <2>2, <2>7, <3>1
    <3>3. n + k <= L
      BY <2>6, <3>1
    <3> QED
      BY <2>8, <3>1, <3>2, <3>3
  <2>10. IsPrefix(ring, SubSeq(p, n + 1, Len(p)))
    BY <2>1, <2>2, <2>6, <2>7, <2>8, <2>9, NextOfProgram
  <2> QED
    BY <2>2, <2>4, <2>8, <2>10 DEF IngressInOrder
<1>2. Spec => []FetchInv
  BY FetchIsSound
<1> QED
  BY <1>1, <1>2, PTL

\* The i-th in flight is in a slot of the reorder buffer, with its number.
LEMMA InFlightSlot ==
  ASSUME CoreInv(core), NEW i \in 1 .. core.count
  PROVE  \E x \in Filled(core) : InFlight[i] = core.rob[x] /\ core.rob[x].seq = core.committed + i
<1>1. PICK R, h, n, x : R = ROB_SIZE /\ h = core.head /\ n = core.count /\ x = (h + i - 1) % R
  OBVIOUS
<1>2. R \in Nat \ {0} /\ h \in 0 .. R - 1 /\ n \in 0 .. R /\ i \in 1 .. n
  BY <1>1, SizesAssumption DEF CoreInv, RingInv, Slots
<1>3. x \in 0 .. R - 1 /\ Dist(h, x) = i - 1
  <2>1. i - 1 \in 0 .. R /\ h \in Slots /\ h + (i - 1) = h + i - 1
    BY <1>1, <1>2 DEF Slots
  <2>2. x = Ahead(h, i - 1)
    BY <1>1, <2>1, Wrap
  <2>3. PICK k : k = i - 1 /\ k \in 0 .. R - 1
    BY <1>2
  <2>4. x = IF h + k < R THEN h + k ELSE h + k - R
    BY <1>1, <2>2, <2>3 DEF Ahead
  <2>5. x \in 0 .. R - 1 /\ k = IF x >= h THEN x - h ELSE x - h + R
    BY <1>2, <2>3, <2>4
  <2> QED
    BY <1>1, <2>3, <2>5 DEF Dist
<1>4. x \in Slots /\ core.rob[x].valid /\ core.rob[x].seq = core.committed + 1 + (i - 1)
  BY <1>1, <1>2, <1>3 DEF CoreInv, RingInv, Slots
<1>5. core.committed \in Nat
  BY DEF CoreInv, Shape
<1>6. InFlight[i] = core.rob[x]
  BY <1>1 DEF InFlight
<1> QED
  BY <1>2, <1>4, <1>5, <1>6 DEF Filled

\* And each slot is that of one in flight.
LEMMA SlotInFlight ==
  ASSUME CoreInv(core), NEW x \in Filled(core)
  PROVE  \E i \in 1 .. core.count : InFlight[i] = core.rob[x] /\ core.rob[x].seq = core.committed + i
<1>1. PICK R, h, n, k : R = ROB_SIZE /\ h = core.head /\ n = core.count /\ k = Dist(h, x)
  OBVIOUS
<1>2. /\ R \in Nat \ {0} /\ h \in 0 .. R - 1 /\ n \in 0 .. R /\ x \in 0 .. R - 1 /\ k < n
      /\ core.rob[x].seq = core.committed + 1 + k
  BY <1>1, SizesAssumption DEF CoreInv, RingInv, Filled, Slots
<1>3. k \in 0 .. R /\ Ahead(h, k) = x
  BY <1>1, <1>2 DEF Dist, Ahead
<1>4. (h + k) % ROB_SIZE = x
  <2>1. h \in Slots /\ k \in 0 .. ROB_SIZE
    BY <1>1, <1>2, <1>3 DEF Slots
  <2> QED
    BY <1>3, <2>1, Wrap
<1>5. k + 1 \in 1 .. n /\ h + (k + 1) - 1 = h + k /\ core.committed \in Nat
  BY <1>2, <1>3 DEF CoreInv, Shape
<1>6. InFlight[k + 1] = core.rob[x]
  BY <1>1, <1>4, <1>5 DEF InFlight
<1>7. core.rob[x].seq = core.committed + (k + 1)
  BY <1>2, <1>3, <1>5
<1> QED
  BY <1>1, <1>5, <1>6, <1>7

\* What is dispatched is the program in its order, if one port fills the ring
\* or the ring has room for the program: the drained ports never wait for it
\* and so never pass each other (BackendCore.hpp:279-290).
THEOREM DispatchesInOrder ==
  ASSUME ProgramsFit
  PROVE  Spec => []DispatchedInOrder
<1>1. FetchInv => DispatchedInOrder
  <2> SUFFICES ASSUME FetchInv, NEW e \in Range(InFlight)
               PROVE  e.op = program[e.seq].op /\ e.rd = program[e.seq].rd
    BY DEF DispatchedInOrder
  <2>1. CoreInv(core) /\ EntriesInv(core, program)
    BY DEF FetchInv, FetchedInv, OrderInv, BackendInv
  <2>2. PICK i \in 1 .. core.count : e = InFlight[i]
    BY DEF Range, InFlight
  <2>3. PICK x \in Filled(core) : e = core.rob[x]
    BY <2>1, <2>2, InFlightSlot
  <2> QED
    BY <2>1, <2>3 DEF EntriesInv, EntryIs
<1>2. Spec => []FetchInv
  BY FetchIsSound
<1> QED
  BY <1>1, <1>2, PTL

\* What in-order execution of p has after n instructions, as a machine.
LEMMA RefIsMachine ==
  ASSUME NEW p, NEW n \in Nat
  PROVE  Ref(p, n) = [regs |-> Ref(p, n).regs, mem |-> Ref(p, n).mem, halted |-> Ref(p, n).halted]
<1>1. CASE n = 0
  <2>1. Ref(p, 0) = Boot
    BY RefStep
  <2> QED
    BY <1>1, <2>1 DEF Boot
<1>2. CASE n # 0
  <2>1. PICK k \in Nat : n = k + 1
    <3>1. n - 1 \in Nat /\ n = (n - 1) + 1
      BY <1>2
    <3> QED
      BY <3>1
  <2>2. Ref(p, k + 1) = Toy!Apply(Ref(p, k), p[k + 1])
    BY RefStep
  <2>3. PICK m, inst : m = Ref(p, k) /\ inst = p[k + 1]
    OBVIOUS
  <2>4. PICK regs, mem, halted : Toy!Apply(m, inst) = [regs |-> regs, mem |-> mem, halted |-> halted]
    BY DEF Toy!Apply
  <2>5. Ref(p, n) = [regs |-> regs, mem |-> mem, halted |-> halted]
    BY <2>1, <2>2, <2>3, <2>4
  <2>6. PICK o : o = Ref(p, n) /\ o = [regs |-> regs, mem |-> mem, halted |-> halted]
    BY <2>5
  <2>7. o = [regs |-> o.regs, mem |-> o.mem, halted |-> o.halted]
    BY <2>6
  <2> QED
    BY <2>6, <2>7
<1> QED
  BY <1>1, <1>2

\* The least of the instructions in flight with a property.
LEMMA FirstInFlight ==
  ASSUME CoreInv(core), NEW S \in SUBSET (1 .. core.count), S # {}
  PROVE  Min(S) \in S /\ \A i \in S : Min(S) <= i
<1>1. IsFiniteSet(S) /\ S \in SUBSET Int
  <2>1. core.count \in Nat
    BY SizesAssumption DEF CoreInv, RingInv
  <2>2. IsFiniteSet(1 .. core.count)
    BY <2>1, FS_Interval
  <2>3. IsFiniteSet(S)
    BY <2>2, FS_Subset
  <2>4. S \in SUBSET Int
    BY <2>1
  <2> QED
    BY <2>3, <2>4
<1>2. \E i \in S : \A j \in S : i <= j
  BY <1>1, FirstMember
<1> QED
  BY <1>2 DEF Min

\* The registers as the committed instructions left them.
LEMMA RegsAreInOrder ==
  ASSUME CoreInv(core), NEW p \in Seq(Instr), DataInv(core, p)
  PROVE  ArchRegs = Ref(p, core.committed).regs
<1>1. PICK lo, n, s, L : lo = core.committed /\ n = core.count /\ s = core.seq /\ L = Len(p)
  OBVIOUS
<1>2. lo \in Nat /\ n \in Nat /\ s = lo + n + 1 /\ s - 1 <= L /\ L \in Nat
  <2>1. PICK R : R = ROB_SIZE /\ R \in Nat
    BY SizesAssumption
  <2>2. lo \in Nat /\ n \in 0 .. R /\ s = lo + n + 1
    BY <1>1, <2>1 DEF CoreInv, Shape, RingInv
  <2>3. L \in Nat
    BY <1>1
  <2>4. PICK k : k = Len(core.ingress)
    OBVIOUS
  <2>5. core.ingress \in Seq(Instr)
    BY DEF CoreInv, Shape
  <2>6. k \in Nat /\ s - 1 + k <= L
    BY <1>1, <2>4, <2>5 DEF DataInv
  <2> QED
    BY <2>2, <2>3, <2>6
<1>3. ASSUME NEW i \in 1 .. n
      PROVE  \E x \in Filled(core) : /\ InFlight[i] = core.rob[x] /\ core.rob[x].seq = lo + i
                                     /\ core.rob[x].rd = p[lo + i].rd
                                     /\ core.rob[x].hasDest <=> Toy!WritesDest(p[lo + i])
  <2>1. PICK x \in Filled(core) : InFlight[i] = core.rob[x] /\ core.rob[x].seq = lo + i
    BY <1>1, InFlightSlot
  <2>2. EntryIs(core.rob[x], p)
    BY DEF DataInv, EntriesInv
  <2> QED
    BY <2>1, <2>2 DEF EntryIs
<1>4. ASSUME NEW r \in 1 .. ARCH_REGS - 1
      PROVE  ArchRegs[r] = Ref(p, lo).regs[r]
  <2>1. PICK S : S = { i \in 1 .. core.count : InFlight[i].hasDest /\ InFlight[i].rd = r }
    OBVIOUS
  <2>2. S \in SUBSET (1 .. core.count) /\ \A i \in S : i \in 1 .. n /\ InFlight[i].hasDest /\ InFlight[i].rd = r
    BY <1>1, <2>1
  <2>3. ArchRegs[r] = core.value[IF S = {} THEN core.map[r] ELSE InFlight[Min(S)].old]
    BY <2>1 DEF ArchRegs
  <2>4. r \in Regs /\ r \in 0 .. ARCH_REGS - 1 /\ r # 0
    BY DEF Regs
  <2>5. ASSUME NEW i \in 1 .. n, p[lo + i].rd = r, Toy!WritesDest(p[lo + i])
        PROVE  i \in S
    <3>1. InFlight[i].hasDest /\ InFlight[i].rd = r
      BY <1>3, <2>5
    <3> QED
      BY <1>1, <2>1, <3>1
  <2>6. ASSUME NEW w \in Kept(core), core.rob[w].rd = r
        PROVE  \E i \in S : core.rob[w].seq = lo + i
    <3>1. w \in Filled(core) /\ core.rob[w].hasDest
      BY <2>6 DEF Kept, Filled
    <3>2. PICK i \in 1 .. core.count : InFlight[i] = core.rob[w] /\ core.rob[w].seq = lo + i
      BY <1>1, <3>1, SlotInFlight
    <3> QED
      BY <2>1, <2>6, <3>1, <3>2
  <2>7. RegAt(p, lo, r) = Ref(p, lo).regs[r]
    BY <2>4 DEF RegAt
  <2>8. CASE S = {}
    <3>1. PICK t, v : t = core.map[r] /\ v = RegAt(p, s - 1, r)
      OBVIOUS
    <3>2. HoldsTag(core, p, t, r, s, v)
      BY <1>1, <2>4, <3>1 DEF DataInv, MapInv
    <3>3. core.value[t] = v
      BY <2>6, <2>8, <3>2 DEF HoldsTag, Pending
    <3>4. RegAt(p, s - 1, r) = RegAt(p, lo, r)
      <4>1. lo \in 0 .. Len(p) /\ s - 1 \in lo .. Len(p)
        BY <1>1, <1>2
      <4>2. ASSUME NEW j \in lo + 1 .. s - 1
            PROVE  ~ (Toy!WritesDest(p[j]) /\ p[j].rd = r)
        <5>1. j - lo \in 1 .. n /\ lo + (j - lo) = j
          BY <1>2
        <5> QED
          BY <2>5, <2>8, <5>1
      <4> QED
        BY <2>4, <4>1, <4>2, RegKept
    <3> QED
      BY <2>3, <2>7, <2>8, <3>1, <3>3, <3>4
  <2>9. CASE S # {}
    <3>1. PICK i \in S : i = Min(S) /\ \A j \in S : i <= j
      BY <2>2, <2>9, FirstInFlight
    <3>2. PICK x \in Filled(core) : InFlight[i] = core.rob[x] /\ core.rob[x].seq = lo + i
      BY <1>3, <2>2
    <3>3. PICK e : e = core.rob[x] /\ e.seq = lo + i /\ e.rd = r /\ x \in Kept(core) /\ i \in 1 .. n
      BY <2>2, <3>2 DEF Kept, Filled
    <3>4. PICK v : v = RegAt(p, e.seq - 1, r)
      OBVIOUS
    <3>5. HoldsTag(core, p, e.old, r, e.seq, v)
      BY <3>3, <3>4 DEF DataInv, OldInv
    <3>6. ~ Pending(core, p, e.old, r, e.seq, v)
      <4>1. ASSUME NEW w \in Kept(core), core.rob[w].rd = r, core.rob[w].seq < e.seq
            PROVE  FALSE
        <5>1. PICK j \in S : core.rob[w].seq = lo + j
          BY <2>6, <4>1
        <5>2. j \in 1 .. n /\ i <= j
          BY <2>2, <3>1
        <5> QED
          BY <1>2, <3>3, <4>1, <5>1, <5>2
      <4> QED
        BY <4>1 DEF Pending
    <3>7. core.value[e.old] = v
      BY <3>5, <3>6 DEF HoldsTag
    <3>8. RegAt(p, e.seq - 1, r) = RegAt(p, lo, r)
      <4>1. lo \in 0 .. Len(p) /\ e.seq - 1 \in lo .. Len(p) /\ e.seq - 1 = lo + i - 1
        BY <1>1, <1>2, <3>3
      <4>2. ASSUME NEW j \in lo + 1 .. e.seq - 1
            PROVE  ~ (Toy!WritesDest(p[j]) /\ p[j].rd = r)
        <5>1. j - lo \in 1 .. n /\ lo + (j - lo) = j /\ j - lo < i
          BY <1>2, <3>3, <4>1
        <5>2. j - lo \notin S
          <6>1. PICK k : k = j - lo /\ k < i /\ k \in 1 .. n
            BY <5>1
          <6>2. k \in S => i <= k
            BY <3>1
          <6> QED
            BY <3>3, <6>1, <6>2
        <5> QED
          BY <2>5, <5>1, <5>2
      <4> QED
        BY <2>4, <4>1, <4>2, RegKept
    <3> QED
      BY <2>3, <2>7, <2>9, <3>1, <3>2, <3>3, <3>4, <3>7, <3>8
  <2> QED
    BY <2>8, <2>9
<1>5. PICK f : f = Ref(p, lo).regs
  OBVIOUS
<1>6. f = [r \in 1 .. ARCH_REGS - 1 |-> f[r]]
  <2>1. lo \in 0 .. Len(p)
    BY <1>1, <1>2
  <2> QED
    BY <1>5, <2>1, RefShape DEF Regs
<1>7. \A r \in 1 .. ARCH_REGS - 1 : ArchRegs[r] = f[r]
  BY <1>4, <1>5
<1>8. PICK g : g = ArchRegs /\ g = [r \in 1 .. ARCH_REGS - 1 |-> g[r]]
  BY DEF ArchRegs
<1> QED
  BY <1>1, <1>5, <1>6, <1>7, <1>8

\* The memory as the committed instructions left it.
LEMMA MemoryIsInOrder ==
  ASSUME NEW p \in Seq(Instr), NEW lo, NEW hi, Window(p, lo, hi), MemInv(p, lo, hi, memory.mem, memory.undo),
         \A u \in memory.undo : u.seq > lo
  PROVE  ArchMem = Ref(p, lo).mem
<1>1. PICK mem, undo, f : mem = memory.mem /\ undo = memory.undo /\ f = Ref(p, lo).mem
  OBVIOUS
<1>2. /\ DOMAIN mem = DOMAIN InitMem /\ \A u \in undo : UndoIs(p, lo, hi, mem, u)
      /\ \A a \in DOMAIN InitMem : (\A u \in undo : u.addr # a) => mem[a] = f[a]
  BY <1>1 DEF MemInv
<1>3. lo \in Nat /\ hi \in lo .. Len(p) /\ Len(p) \in Nat
  BY DEF Window
<1>4. ASSUME NEW a \in DOMAIN mem
      PROVE  ArchMem[a] = f[a]
  <2>1. PICK S : S = { u \in undo : u.addr = a }
    OBVIOUS
  <2>2. ArchMem[a] = IF S = {} THEN mem[a] ELSE (CHOOSE u \in S : \A v \in S : u.seq <= v.seq).old
    BY <1>1, <2>1 DEF ArchMem
  <2>3. CASE S = {}
    BY <1>2, <2>1, <2>2, <2>3
  <2>4. CASE S # {}
    <3>1. ASSUME NEW u \in S, NEW v \in S
          PROVE  u.seq = v.seq
      <4>1. UndoIs(p, lo, hi, mem, u) /\ UndoIs(p, lo, hi, mem, v) /\ u.addr = a /\ v.addr = a
        BY <1>2, <2>1
      <4>2. PICK i, j : i = u.seq /\ j = v.seq
        OBVIOUS
      <4>3. /\ i \in lo + 1 .. hi /\ j \in lo + 1 .. hi /\ p[i].op = "STORE" /\ p[j].op = "STORE"
            /\ Addr(p, i) = a /\ Addr(p, j) = a
        BY <4>1, <4>2 DEF UndoIs
      <4> QED
        BY <4>2, <4>3 DEF Window, Toy!IsLsu
    <3>2. \E u \in S : \A v \in S : u.seq <= v.seq
      <4>1. PICK u \in S : TRUE
        BY <2>4
      <4>2. u.seq \in Int
        BY <1>2, <1>3, <2>1 DEF UndoIs
      <4>3. \A v \in S : u.seq <= v.seq
        BY <3>1, <4>2
      <4> QED
        BY <4>3
    <3>3. PICK u \in S : ArchMem[a] = u.old
      BY <2>2, <2>4, <3>2
    <3>4. PICK s : s = u.seq /\ u \in undo /\ u.addr = a
      BY <2>1
    <3>5. s \in lo + 1 .. hi /\ p[s].op = "STORE" /\ Addr(p, s) = a /\ u.old = Ref(p, s - 1).mem[a]
      BY <1>2, <3>4 DEF UndoIs
    <3>6. Ref(p, s - 1).mem[a] = Ref(p, lo).mem[a]
      <4>1. lo \in 0 .. Len(p) /\ s - 1 \in lo .. Len(p) /\ a \in DOMAIN InitMem
        BY <1>2, <1>3, <3>5
      <4>2. ASSUME NEW j \in lo + 1 .. s - 1
            PROVE  ~ (p[j].op = "STORE" /\ Addr(p, j) = a)
        <5>1. j \in lo + 1 .. hi /\ j # s
          BY <1>3, <3>5
        <5> QED
          BY <3>5, <5>1 DEF Window, Toy!IsLsu
      <4> QED
        BY <4>1, <4>2, MemKept
    <3> QED
      BY <1>1, <3>3, <3>5, <3>6
  <2> QED
    BY <2>3, <2>4
<1>5. f = [a \in DOMAIN InitMem |-> f[a]]
  <2>1. lo \in 0 .. Len(p)
    BY <1>3
  <2> QED
    BY <1>1, <2>1, RefShape
<1> DEFINE Old(a) == LET undos == { u \in memory.undo : u.addr = a }
                     IN IF undos = {} THEN memory.mem[a]
                        ELSE (CHOOSE u \in undos : \A v \in undos : u.seq <= v.seq).old
<1>6. ArchMem = [a \in DOMAIN memory.mem |-> Old(a)]
  BY DEF ArchMem
<1> HIDE DEF Old
<1>7. PICK g : g = ArchMem /\ g = [a \in DOMAIN mem |-> Old(a)]
  BY <1>1, <1>6
<1>8. g = [a \in DOMAIN mem |-> g[a]]
  BY <1>7
<1> QED
  BY <1>1, <1>2, <1>4, <1>5, <1>7, <1>8

\* The machine that the mapping shows is that of in-order execution.
Machine == [regs |-> ArchRegs, mem |-> ArchMem, halted |-> core.halted]

LEMMA MachineIsInOrder ==
  ASSUME ValuesInv, ProgramsOrderly
  PROVE  /\ program \in Seq(Instr) /\ Orderly(program) /\ core.committed \in 0 .. Len(program)
         /\ Machine = Ref(program, core.committed)
<1>1. PICK p, lo, hi : p = program /\ lo = core.committed /\ hi = core.seq - 1
  OBVIOUS
<1>2. /\ p \in Seq(Instr) /\ Orderly(p) /\ CoreInv(core) /\ DataInv(core, p)
      /\ LanesRight(AllLanes, lsu, memory, p, lo, hi)
  BY <1>1, ProgramsAssumption DEF ValuesInv, ProgramsOrderly, OrderInv, BackendInv
<1>3. Window(p, lo, hi)
  <2>1. core.seq - 1 <= Len(p)
    <3>1. PICK s, n, L : s = core.seq /\ n = Len(core.ingress) /\ L = Len(p)
      OBVIOUS
    <3>2. s - 1 + n <= L
      BY <1>2, <3>1 DEF DataInv
    <3>3. s \in Nat /\ n \in Nat /\ L \in Nat
      <4>1. core.ingress \in Seq(Instr) /\ core.seq \in Nat
        BY <1>2, SeqIsNat DEF CoreInv, Shape
      <4> QED
        BY <1>2, <3>1, <4>1
    <3> QED
      BY <3>1, <3>2, <3>3
  <2> QED
    BY <1>1, <1>2, <2>1, CoreWindow
<1>4. lo \in Nat /\ lo \in 0 .. Len(p)
  <2>1. lo \in Nat /\ hi \in lo .. Len(p)
    BY <1>3 DEF Window
  <2>2. Len(p) \in Nat
    BY <1>2
  <2> QED
    BY <2>1, <2>2
<1>5. ArchRegs = Ref(p, lo).regs
  BY <1>1, <1>2, RegsAreInOrder
<1>6. ArchMem = Ref(p, lo).mem
  BY <1>2, <1>3, MemoryIsInOrder DEF LanesRight
<1>7. core.halted = Ref(p, lo).halted
  BY <1>1, <1>2 DEF DataInv, HaltInv
<1>8. Machine = Ref(p, lo)
  BY <1>4, <1>5, <1>6, <1>7, RefIsMachine DEF Machine
<1> QED
  BY <1>1, <1>2, <1>4, <1>8

\* The abstract machine runs the same instructions.
LEMMA SameIsa ==
  ASSUME NEW m, NEW prog, NEW k, NEW n
  PROVE  Sequential!Ran(m, prog, k, n) = Toy!Ran(m, prog, k, n)
<1>1. ASSUME NEW req
      PROVE  Sequential!Execute(req) = Toy!Execute(req)
  BY DEF Sequential!Execute, Toy!Execute, Sequential!BitByBit, Toy!BitByBit, Sequential!Bit, Toy!Bit,
         Sequential!Words, Toy!Words, Sequential!Quotient, Toy!Quotient, Sequential!Magnitude, Toy!Magnitude,
         Sequential!Signed, Toy!Signed
<1>2. ASSUME NEW s, NEW inst
      PROVE  Sequential!Apply(s, inst) = Toy!Apply(s, inst)
  BY <1>1 DEF Sequential!Apply, Toy!Apply, Sequential!Read, Toy!Read, Sequential!Value, Toy!Value,
              Sequential!WritesDest, Toy!WritesDest, Sequential!Address, Toy!Address, Sequential!Words, Toy!Words
<1> QED
  BY <1>2 DEF Sequential!Ran, Toy!Ran

\* The machine is that of in-order execution after a step, too.
MachineOk ==
  /\ program \in Seq(Instr) /\ core.committed \in 0 .. Len(program)
  /\ Machine = Ref(program, core.committed)

LEMMA MachineStaysInOrder ==
  ASSUME ProgramsOrderly
  PROVE  ValuesInv' => MachineOk'
<1>1. ValuesInv => MachineOk
  BY MachineIsInOrder DEF MachineOk
<1> QED
  BY <1>1, PTL

LEMMA SequentialInit ==
  ASSUME Init
  PROVE  Sequential!Init
<1>1. PICK p : p = program /\ p \in Programs /\ p \in Seq(Instr)
  BY ProgramsAssumption DEF Init
<1>2. CoreInv(core)
  BY OrderInvInit DEF OrderInv, BackendInv
<1>3. DataInv(core, p) /\ core.committed = 0 /\ core.halted = FALSE
  <2>1. PICK c : c = core /\ c = InitCore
    BY DEF Init
  <2>2. DataInv(c, p)
    BY <1>1, <2>1, DataBoot
  <2>3. c.committed = 0 /\ c.halted = FALSE
    BY <2>1 DEF InitCore
  <2> QED
    BY <2>1, <2>2, <2>3
<1>4. ArchRegs = Ref(p, 0).regs
  BY <1>1, <1>2, <1>3, RegsAreInOrder
<1>5. ArchRegs = [r \in 1 .. ARCH_REGS - 1 |-> 0]
  BY <1>4, RefBoot DEF Regs
<1>6. ArchMem = InitMem
  <2>1. PICK mem : mem = memory.mem /\ mem = InitMem /\ memory.undo = {}
    BY DEF Init
  <2>2. \A a : { u \in memory.undo : u.addr = a } = {}
    BY <2>1
  <2>3. ArchMem = [a \in DOMAIN mem |-> mem[a]]
    BY <2>1, <2>2 DEF ArchMem
  <2>4. mem = [a \in DOMAIN mem |-> mem[a]]
    BY <2>1, MemoryAssumption
  <2> QED
    BY <2>1, <2>3, <2>4
<1> QED
  BY <1>1, <1>3, <1>5, <1>6 DEF Sequential!Init

\* Each step commits some of the next instructions, or none.
LEMMA SequentialStep ==
  ASSUME ProgramsOrderly
  PROVE  ValuesInv /\ IngressInOrder /\ AnswersAreOwn /\ [Next]_vars => [Sequential!Next]_Sequential!vars
<1> SUFFICES ASSUME ValuesInv, IngressInOrder, AnswersAreOwn, [Next]_vars
             PROVE  [Sequential!Next]_Sequential!vars
  OBVIOUS
<1>1. ValuesInv'
  BY ValuesNext
<1>2. PICK p, lo, machine : p = program /\ lo = core.committed /\ machine = Machine
  OBVIOUS
<1>3. p \in Seq(Instr) /\ Orderly(p) /\ lo \in 0 .. Len(p) /\ machine = Ref(p, lo)
  BY <1>2, MachineIsInOrder
<1>4. PICK p2, lo2, machine2 : p2 = program' /\ lo2 = core'.committed /\ machine2 = Machine'
  OBVIOUS
<1>5. p2 \in Seq(Instr) /\ lo2 \in 0 .. Len(p2) /\ machine2 = Ref(p2, lo2)
  <2>1. /\ program' \in Seq(Instr) /\ core'.committed \in 0 .. Len(program')
        /\ Machine' = Ref(program', core'.committed)
    BY <1>1, MachineStaysInOrder DEF MachineOk
  <2> QED
    BY <1>4, <2>1
<1>6. /\ machine.regs = ArchRegs /\ machine.mem = ArchMem /\ machine.halted = core.halted
      /\ machine = [regs |-> ArchRegs, mem |-> ArchMem, halted |-> core.halted]
      /\ machine2.regs = ArchRegs' /\ machine2.mem = ArchMem' /\ machine2.halted = core'.halted
  BY <1>2, <1>4 DEF Machine
<1>7. ASSUME p2 = p, lo2 = lo
      PROVE  UNCHANGED Sequential!vars
  <2>1. machine2 = machine
    BY <1>3, <1>5, <1>7
  <2>2. ArchRegs' = ArchRegs /\ ArchMem' = ArchMem /\ core'.halted = core.halted
    BY <1>6, <2>1
  <2> QED
    BY <1>2, <1>4, <1>7, <2>2 DEF Sequential!vars
<1>8. ASSUME NEW m, Cycle(m)
      PROVE  [Sequential!Next]_Sequential!vars
  <2>1. p2 = p /\ core.halted = FALSE
    <3>1. core.halted \in BOOLEAN
      <4>1. machine.halted \in BOOLEAN
        BY <1>3, RefShape
      <4> QED
        BY <1>6, <4>1
    <3> QED
      BY <1>2, <1>4, <1>8, <3>1 DEF Cycle
  <2>2. lo2 \in lo .. lo + COMMIT_WIDTH
    <3>1. OrderInv' /\ program \in Seq(Instr) /\ Orderly(program)
      BY <1>1, <1>2, <1>3 DEF ValuesInv
    <3>2. core'.committed \in core.committed .. core.committed + COMMIT_WIDTH
      BY <1>8, <3>1, ValuesCycle
    <3> QED
      BY <1>2, <1>4, <3>2
  <2>3. PICK n, w : n = lo2 - lo /\ w = COMMIT_WIDTH /\ w \in Nat
    BY SizesAssumption
  <2>4. n \in 0 .. w /\ lo \in Nat /\ lo2 = lo + n
    BY <1>3, <2>2, <2>3
  <2>5. CASE n = 0
    BY <1>7, <2>1, <2>4, <2>5
  <2>6. CASE n # 0
    <3>1. n \in 1 .. w /\ n \in Nat
      BY <2>4, <2>6
    <3>2. PICK L : L = Len(p) /\ L \in Nat /\ lo + n <= L
      BY <1>3, <1>5, <2>1, <2>4
    <3>3. \A i \in lo + 1 .. lo + n - 1 : p[i].op # "HALT"
      <4>1. \A i \in lo + 1 .. lo + n - 1 : i \in 1 .. L - 1
        BY <2>4, <3>1, <3>2
      <4>2. \A i \in 1 .. L - 1 : p[i].op # "HALT"
        BY <1>3, <3>2 DEF Orderly
      <4> QED
        BY <4>1, <4>2
    <3>4. Toy!Ran(machine, p, lo, n) = Ref(p, lo + n)
      BY <1>3, <2>4, <3>1, RefRan
    <3>5. Sequential!Ran(machine, p, lo, n) = machine2
      BY <1>5, <2>1, <2>4, <3>4, SameIsa
    <3>6. Sequential!Ran([regs |-> ArchRegs, mem |-> ArchMem, halted |-> core.halted], program, core.committed, n)
            = machine2
      BY <1>2, <1>6, <3>5
    <3>7. LET r == Sequential!Ran([regs |-> ArchRegs, mem |-> ArchMem, halted |-> core.halted],
                                  program, core.committed, n)
          IN ArchRegs' = r.regs /\ ArchMem' = r.mem /\ core'.halted = r.halted
      BY <1>6, <3>6
    <3>8. /\ core.committed + n <= Len(program) /\ core'.committed = core.committed + n
          /\ \A i \in core.committed + 1 .. core.committed + n - 1 : program[i].op # "HALT"
          /\ program' = program /\ ~ core.halted
      BY <1>2, <1>4, <2>1, <2>4, <3>2, <3>3
    <3>9. Sequential!Retire(n)
      BY <3>7, <3>8 DEF Sequential!Retire
    <3> QED
      BY <2>3, <3>1, <3>9 DEF Sequential!Next
  <2> QED
    BY <2>5, <2>6
<1>9. CASE Offering
  <2>1. PICK m : Cycle(m)
    BY <1>9 DEF Offering
  <2> QED
    BY <1>8, <2>1
<1>10. CASE HaltedCycle
  BY <1>2, <1>4, <1>7, <1>10 DEF HaltedCycle
<1>11. CASE UNCHANGED vars
  BY <1>2, <1>4, <1>7, <1>11 DEF vars
<1> QED
  BY <1>9, <1>10, <1>11 DEF Next

\* The backend executes out of order, in several lanes, and commits what
\* in-order execution computes: registers, memory and halt.  The programs are
\* orderly as those of the tests (BackendCore.hpp:503-560).  Two things only
\* can spoil it, and do in ooo_ingress and ooo_loads: a push port passes
\* another at a full ring (BackendCore.hpp:279-290), or a slot takes the answer
\* to another's request (LSUPipeline.hpp:117-146).
THEOREM BackendExecutesInOrder ==
  ASSUME ProgramsOrderly
  PROVE  Spec /\ []IngressInOrder /\ []AnswersAreOwn => ImplementsInOrder
<1>1. Init => Sequential!Init
  BY SequentialInit
<1>2. ValuesInv /\ IngressInOrder /\ AnswersAreOwn /\ [Next]_vars => [Sequential!Next]_Sequential!vars
  BY SequentialStep
<1>3. Spec /\ []IngressInOrder /\ []AnswersAreOwn => []ValuesInv
  BY ValuesAreSound
<1> QED
  BY <1>1, <1>2, <1>3, PTL DEF Spec, ImplementsInOrder, Sequential!Spec
=============================================================================
