----------------------------- MODULE GemmProofs -----------------------------
(***************************************************************************)
(* The multiplication path of the matrix unit keeps its promise, for every *)
(* number of lanes and accumulators and every latency the unit allows.     *)
(***************************************************************************)
EXTENDS Gemm, RanksProofs

T == TILE_SIZE
L == GEMM_LAST_LEVEL_LATENCY

\* What the assumptions say of the lanes, the levels and their latencies.
LEMMA ConstantFacts ==
  /\ T \in Nat /\ T > 0 /\ L \in Nat /\ L > 0 /\ L <= T
  /\ \A s \in Level : Latency(s) \in Nat /\ Latency(s) > 0
  /\ Latency(4) = L /\ \A s \in 1 .. 3 : Latency(s) = T
  /\ Level = 1 .. 4
  BY SizesAssumption, LatencyAssumption DEF T, L, Latency, Level, Levels

\* The lowest member of a set of lanes.
LEMMA LowestLane ==
  ASSUME NEW S \in SUBSET Lane, S # {}
  PROVE  Lowest(S) \in S /\ \A j \in S : Lowest(S) <= j
<1>1. IsFiniteSet(S) /\ S \subseteq Int /\ Cardinality(S) \in Nat /\ Cardinality(S) # 0
  <2>1. IsFiniteSet(Lane)
    BY SizesAssumption, FS_Interval DEF Lane
  <2>2. IsFiniteSet(S)
    BY <2>1, FS_Subset
  <2> QED
    BY <2>2, FS_CardinalityType, FS_EmptySet DEF Lane
<1> DEFINE i == AtRank(S, 1)
<1>2. /\ 1 \in 1 .. Cardinality(S)
      /\ GEMM_LANE_SIZE \in Nat /\ S \in SUBSET (1 .. GEMM_LANE_SIZE)
  BY <1>1, SizesAssumption DEF Lane
<1>3. i \in S /\ Rank(S, i) = 1
  BY <1>1, <1>2, RankFacts
<1>4. i \in Int
  BY <1>1, <1>3
<1> HIDE DEF i
<1>5. ASSUME NEW j \in S
      PROVE  i <= j
  <2>1. CASE j < i
    <3>1. Rank(S, j) < Rank(S, i) /\ Rank(S, j) \in 1 .. Cardinality(S)
      BY <1>1, <1>2, <1>3, <2>1, RankFacts
    <3> QED
      BY <1>1, <1>3, <3>1
  <2>2. j \in Int
    BY <1>1
  <2> QED
    BY <1>4, <2>1, <2>2
<1> QED
  BY <1>3, <1>5 DEF Lowest

-----------------------------------------------------------------------------
(* Types.                                                                  *)

\* What is in the sets a tick searches.
LEMMA LanesOfATick ==
  /\ Finished \subseteq Lane /\ Startable \subseteq Lane /\ OpenLanes \subseteq Lane
  /\ Finished # {} => Lowest(Finished) \in Finished
  /\ Startable # {} => Lowest(Startable) \in Startable
  /\ \A i \in Lane : Starts(i) => ready_slot[i] # NoPacc
  /\ \A i \in Lane : Takes(i) => feeding.pacc # NoPacc /\ feeding.got = Operand
  BY LowestLane DEF Finished, Startable, OpenLanes, Starts, Takes, Fed

\* The types hold at the start (lines 400 to 436).
LEMMA TypeInit == Init => TypeOK
<1> SUFFICES ASSUME Init PROVE TypeOK
  OBVIOUS
<1>1. feeding \in Inst /\ next_feeding \in Inst /\ written \in BOOLEAN
  BY DEF Init, NoInst, Inst
<1>2. ready_slot \in [Lane -> Pacc \cup {NoPacc}]
  BY DEF Init
<1>3. /\ exec_slot \in [Lane -> [Level -> Slot]]
      /\ \A i \in Lane, s \in Level : exec_slot[i][s].remain < Latency(s)
  BY ConstantFacts DEF Init, NoSlot, Slot
<1>4. inputBuffer \in Tiles /\ laneBuffer \in [Lane -> Tiles]
  BY DEF Init, NoTiles, Tiles
<1>5. paccs \in [Pacc -> Seq(Tiles)] /\ retired \in [Pacc -> Nat]
  BY DEF Init
<1> QED
  BY <1>1, <1>2, <1>3, <1>4, <1>5 DEF Init, TypeOK

\* Whatever a level receives or keeps is shorter than the level takes.
LEMMA TypeLevel ==
  ASSUME TypeOK, NEW i \in Lane, NEW s \in Level
  PROVE  NextExec(i, s) \in Slot /\ NextExec(i, s).remain < Latency(s)
<1>1. exec_slot[i][s] \in Slot /\ exec_slot[i][s].remain < Latency(s) /\ ready_slot[i] \in Pacc \cup {NoPacc}
  BY DEF TypeOK
<1>2. Latency(s) \in Nat /\ Latency(s) > 0
  BY ConstantFacts
<1>3. s > 1 => exec_slot[i][s - 1] \in Slot
  <2>1. s > 1 => s - 1 \in Level
    BY ConstantFacts
  <2> QED
    BY <2>1 DEF TypeOK
<1>4. ASSUME NEW pacc \in Pacc \cup {NoPacc}
      PROVE  LET new == [pacc |-> pacc, remain |-> Latency(s) - 1]
             IN  new \in Slot /\ new.remain < Latency(s)
  BY <1>2 DEF Slot
<1>5. NoSlot \in Slot /\ NoSlot.remain < Latency(s)
  BY <1>2 DEF NoSlot, Slot
<1>6. LET kept == [exec_slot[i][s] EXCEPT !.remain = IF @ > 0 THEN @ - 1 ELSE 0]
      IN  kept \in Slot /\ kept.remain < Latency(s)
  BY <1>1, <1>2 DEF Slot
<1>7. s > 1 => exec_slot[i][s - 1].pacc \in Pacc \cup {NoPacc}
  BY <1>3 DEF Slot
<1> QED
  BY <1>1, <1>4, <1>5, <1>6, <1>7, ConstantFacts DEF NextExec

\* The tick keeps the types (lines 597 to 728).
LEMMA TypeTick ==
  ASSUME TypeOK, Tick
  PROVE  TypeOK'
<1> USE DEF Tick, Commit, TickData, client
<1>1. /\ feeding' \in Inst /\ next_feeding' \in Inst /\ written' \in BOOLEAN
  BY DEF TypeOK, NoInst, Inst
<1>2. ready_slot' \in [Lane -> Pacc \cup {NoPacc}]
  BY DEF TypeOK, Inst
<1>3. /\ exec_slot' \in [Lane -> [Level -> Slot]]
      /\ \A i \in Lane, s \in Level : exec_slot'[i][s].remain < Latency(s)
  BY TypeLevel
<1>4. gemm_acc_cooldown' \in 0 .. 2
  BY DEF TypeOK, Cooled
<1>5. inputBuffer' \in Tiles /\ laneBuffer' \in [Lane -> Tiles]
  BY DEF TypeOK
<1>6. paccs' \in [Pacc -> Seq(Tiles)]
  <2>1. CASE Startable = {}
    BY <2>1 DEF TypeOK
  <2>2. CASE Startable # {}
    <3> DEFINE lane == Lowest(Startable)
    <3>1. lane \in Lane /\ ready_slot[lane] \in Pacc
      BY <2>2, LanesOfATick DEF TypeOK, Startable
    <3>2. laneBuffer[lane] \in Tiles /\ paccs[ready_slot[lane]] \in Seq(Tiles)
      BY <3>1 DEF TypeOK
    <3>3. paccs' = [paccs EXCEPT ![ready_slot[lane]] = Append(@, laneBuffer[lane])]
      BY <2>2 DEF Accumulate
    <3> HIDE DEF lane
    <3> QED
      BY <3>1, <3>2, <3>3 DEF TypeOK
  <2> QED
    BY <2>1, <2>2
<1>7. retired' \in [Pacc -> Nat]
  <2>1. CASE Finished = {}
    BY <2>1 DEF TypeOK, RetiredNext
  <2>2. CASE Finished # {}
    <3> DEFINE p == exec_slot[Lowest(Finished)][Levels].pacc
    <3>1. p \in Pacc
      BY <2>2, LanesOfATick, ConstantFacts DEF TypeOK, Finished, Ended, Slot, Levels
    <3>2. retired' = [retired EXCEPT ![p] = @ + 1]
      BY <2>2 DEF RetiredNext
    <3>3. retired \in [Pacc -> Nat]
      BY DEF TypeOK
    <3> HIDE DEF p, Tick, Commit, TickData, client
    <3> QED
      BY <3>1, <3>2, <3>3
  <2> QED
    BY <2>1, <2>2
<1>8. insts' \in Seq(Pacc) /\ owed' \subseteq Operand
  BY DEF TypeOK
<1>9. \A s \in Level : Latency(s)' = Latency(s)
  BY DEF Latency
<1> QED
  BY <1>1, <1>2, <1>3, <1>4, <1>5, <1>6, <1>7, <1>8, <1>9 DEF TypeOK

\* A new multiplication keeps the types (lines 500 to 510).
LEMMA TypeFire ==
  ASSUME TypeOK, NEW p \in Pacc, Fire(p)
  PROVE  TypeOK'
<1>1. next_feeding' \in Inst /\ written' \in BOOLEAN
  BY DEF Fire, s0FireGemmInst, SetFeeding, Inst
<1>2. insts' \in Seq(Pacc) /\ owed' \subseteq Operand
  BY DEF Fire, TypeOK
<1> QED
  BY <1>1, <1>2 DEF Fire, s0FireGemmInst, TypeOK, data

\* An operand keeps the types (lines 517 to 530).
LEMMA TypeInput ==
  ASSUME TypeOK, NEW o \in Operand, MemInput(o)
  PROVE  TypeOK'
<1>1. Len(insts) \in Nat
  BY DEF TypeOK
<1>2. CASE Free(feeding)
  BY <1>2 DEF MemInput, s1s2MemInput, TypeOK, regs, data
<1>3. CASE ~ Free(feeding)
  <2>1. next_feeding' \in Inst /\ written' \in BOOLEAN
    <3>1. feeding.pacc \in Pacc \cup {NoPacc} /\ feeding.got \cup {o} \in SUBSET Operand
      BY DEF TypeOK, Inst
    <3>2. next_feeding' = [feeding EXCEPT !.got = @ \cup {o}] /\ written' = TRUE
      BY <1>3 DEF MemInput, s1s2MemInput, SetFeeding
    <3> QED
      BY <3>1, <3>2 DEF TypeOK, Inst
  <2>2. inputBuffer' \in Tiles
    BY <1>1, <1>3 DEF MemInput, s1s2MemInput, TypeOK, Tiles
  <2> QED
    BY <1>3, <2>1, <2>2 DEF MemInput, s1s2MemInput, TypeOK
<1> QED
  BY <1>2, <1>3

\* Every step keeps the types.
LEMMA TypeStep == TypeOK /\ [Next]_vars => TypeOK'
<1>1. TypeOK /\ UNCHANGED vars => TypeOK'
  BY DEF vars, regs, data, client, TypeOK
<1> QED
  BY <1>1, TypeTick, TypeFire, TypeInput DEF Next

-----------------------------------------------------------------------------
(* The feeding register.                                                   *)

\* What is fed has come, and what has come is fed: a call that completes the
\* operands is the last one for the multiplication.
FeedingInv ==
  /\ written => Free(feeding) \/ feeding.got # Operand
  /\ ~ written => next_feeding = feeding
  /\ Free(next_feeding) => owed = {}
  /\ ~ Free(next_feeding) => next_feeding.got = Operand \ owed

\* Every step keeps the record of what a cycle writes to the feeding register.
LEMMA FeedingStep == TypeOK /\ FeedingInv /\ [Next]_vars => FeedingInv'
<1> SUFFICES ASSUME TypeOK, FeedingInv, [Next]_vars PROVE FeedingInv'
  OBVIOUS
<1>1. ASSUME NEW p \in Pacc, Fire(p)
      PROVE  FeedingInv'
  <2>1. /\ feeding' = feeding /\ Free(feeding) /\ written'
        /\ next_feeding' = [pacc |-> p, got |-> {}] /\ owed' = Operand
    BY <1>1 DEF Fire, s0FireGemmInst, SetFeeding, gemmFeedingReady
  <2> QED
    BY <2>1, NoPaccAssumption DEF FeedingInv, Free
<1>2. ASSUME NEW o \in Operand, MemInput(o)
      PROVE  FeedingInv'
  <2>1. o \in owed /\ ~ written /\ owed' = owed \ {o}
    BY <1>2 DEF MemInput
  <2>2. ~ Free(feeding) /\ next_feeding = feeding /\ feeding.got = Operand \ owed
    BY <2>1 DEF FeedingInv
  <2>3. /\ feeding' = feeding /\ written'
        /\ next_feeding' = [feeding EXCEPT !.got = @ \cup {o}]
    BY <1>2, <2>2 DEF MemInput, s1s2MemInput, SetFeeding
  <2>4. feeding \in Inst /\ owed \subseteq Operand
    BY DEF TypeOK
  <2>5. next_feeding'.pacc = feeding.pacc /\ next_feeding'.got = Operand \ owed'
    BY <2>1, <2>2, <2>3, <2>4 DEF Inst
  <2> QED
    BY <2>1, <2>2, <2>3, <2>5 DEF FeedingInv, Free
<1>3. CASE Tick
  <2>1. /\ written' = FALSE /\ owed' = owed /\ next_feeding' = feeding'
        /\ feeding' = IF \E i \in Lane : Takes(i) THEN NoInst ELSE next_feeding
    BY <1>3 DEF Tick, Commit, client
  <2>2. CASE \E i \in Lane : Takes(i)
    <3>1. ~ Free(feeding) /\ feeding.got = Operand
      BY <2>2, LanesOfATick DEF Free
    <3>2. owed = {}
      BY <3>1 DEF FeedingInv, TypeOK
    <3> QED
      BY <2>1, <2>2, <3>2 DEF FeedingInv, NoInst, Free
  <2>3. CASE ~ \E i \in Lane : Takes(i)
    BY <2>1, <2>3 DEF FeedingInv, Free
  <2> QED
    BY <2>2, <2>3
<1>4. CASE UNCHANGED vars
  BY <1>4 DEF vars, regs, client, FeedingInv, Free
<1> QED
  BY <1>1, <1>2, <1>3, <1>4 DEF Next

\* At the start nothing has been written.
LEMMA FeedingInit == Init => FeedingInv
  BY DEF Init, FeedingInv, Free, NoInst

\* That record excludes a second write of the cycle (line 529).
LEMMA FeedingSafe == FeedingInv => FeedingWrittenOnce
  BY LanesOfATick DEF FeedingInv, FeedingWrittenOnce, Free

-----------------------------------------------------------------------------
(* The timetable.                                                          *)

\* Cycles a multiplication spends after level s.
After(s) == IF s = 1 THEN T + T + L ELSE IF s = 2 THEN T + L ELSE IF s = 3 THEN L ELSE 0

Occupied(i, s) == exec_slot[i][s].pacc # NoPacc

\* Cycles it has left before it is due to retire.
Left(i, s) == exec_slot[i][s].remain + After(s)

\* How many cycles follow each level (lines 634 to 687).
LEMMA AfterFacts ==
  /\ \A s \in Level : After(s) \in Nat
  /\ \A s \in 2 .. 4 : s - 1 \in Level /\ After(s - 1) = After(s) + Latency(s)
  /\ \A s \in 1 .. 3 : s + 1 \in Level /\ After(s) - T <= After(s + 1)
  /\ After(4) = 0
  BY ConstantFacts DEF After

\* Multiplications in execution are due at different times, and in a lane a
\* level's latency apart.
Timetable ==
  \A i, j \in Lane, s, u \in Level : Occupied(i, s) /\ Occupied(j, u) =>
    /\ <<i, s>> # <<j, u>> => Left(i, s) # Left(j, u)
    /\ i = j /\ s < u => Left(i, s) >= Left(i, u) + T

\* How many cycles a lane has left, at each level.
LEMMA LeftFacts ==
  ASSUME TypeOK, NEW i \in Lane, NEW s \in Level
  PROVE  /\ exec_slot[i][s].remain \in Nat /\ exec_slot[i][s].remain < Latency(s)
         /\ Left(i, s) \in Nat
         /\ Left(i, s) >= After(s) /\ Left(i, s) < After(s) + Latency(s)
<1>1. exec_slot[i][s].remain \in Nat /\ exec_slot[i][s].remain < Latency(s)
  BY DEF TypeOK, Slot
<1>2. After(s) \in Nat /\ Latency(s) \in Nat
  BY AfterFacts, ConstantFacts
<1> QED
  BY <1>1, <1>2 DEF Left

\* Under the timetable a level that has run out is left: the level after it
\* is free or runs out too, and nobody else retires.
LEMMA NobodyStalls == TypeOK /\ Timetable => NeverStalls
<1> SUFFICES ASSUME TypeOK, Timetable, NEW i \in Lane
             PROVE  \A s \in Level : Ended(exec_slot[i][s]) => Leaves(i, s)
  BY DEF NeverStalls
<1>1. \A s \in Level : Ended(exec_slot[i][s]) <=> Occupied(i, s) /\ Left(i, s) = After(s)
  <2> TAKE s \in Level
  <2>1. exec_slot[i][s].remain \in Nat /\ After(s) \in Nat
    BY LeftFacts, AfterFacts
  <2> QED
    BY <2>1 DEF Ended, Occupied, Left
<1>2. Ended(exec_slot[i][4]) => Leaves(i, 4)
  <2> SUFFICES ASSUME Ended(exec_slot[i][4]) PROVE Retires(i)
    BY ConstantFacts DEF Leaves, Levels
  <2>1. i \in Finished
    BY DEF Finished, Levels
  <2>2. ASSUME NEW j \in Finished PROVE j = i
    <3>1. j \in Lane /\ Ended(exec_slot[j][4]) /\ 4 \in Level
      BY <2>2, ConstantFacts DEF Finished, Levels
    <3>2. exec_slot[i][4].remain = 0 /\ exec_slot[j][4].remain = 0
          /\ Occupied(i, 4) /\ Occupied(j, 4)
      BY <3>1 DEF Ended, Occupied
    <3>3. Left(i, 4) = Left(j, 4)
      BY <3>2 DEF Left
    <3> QED
      BY <3>1, <3>2, <3>3 DEF Timetable
  <2> QED
    BY <2>1, <2>2, LanesOfATick DEF Retires
<1>3. ASSUME NEW s \in 1 .. 3, Ended(exec_slot[i][s]), Ended(exec_slot[i][s + 1]) => Leaves(i, s + 1)
      PROVE  Leaves(i, s)
  <2>1. s \in Level /\ s + 1 \in Level /\ s # Levels /\ After(s) - T <= After(s + 1)
    BY AfterFacts, ConstantFacts DEF Levels
  <2>2. CASE ~ Occupied(i, s + 1)
    <3>1. \A u \in s .. s : Ended(exec_slot[i][u])
      BY <1>3
    <3>2. Free(exec_slot[i][s + 1])
      BY <2>2 DEF Free, Occupied
    <3>3. s \in s .. Levels
      BY DEF Levels
    <3> QED
      BY <2>1, <3>1, <3>2, <3>3 DEF Leaves
  <2>3. CASE Occupied(i, s + 1)
    <3>1. Left(i, s) >= Left(i, s + 1) + T
      BY <1>1, <1>3, <2>1, <2>3 DEF Timetable
    <3>2. Left(i, s) = After(s) /\ Left(i, s + 1) >= After(s + 1) /\ Left(i, s + 1) \in Nat
      BY <1>1, <1>3, <2>1, LeftFacts
    <3>3. Left(i, s + 1) = After(s + 1)
      <4> DEFINE x == Left(i, s + 1)
                 a == After(s)
                 b == After(s + 1)
      <4>1. x \in Nat /\ a \in Nat /\ b \in Nat /\ T \in Nat
        BY <2>1, <3>2, AfterFacts, ConstantFacts
      <4>2. a >= x + T /\ x >= b /\ a - T <= b
        BY <2>1, <3>1, <3>2
      <4> HIDE DEF x, a, b
      <4>3. x = b
        BY <4>1, <4>2
      <4> QED
        BY <4>3 DEF x, b
    <3>4. Ended(exec_slot[i][s + 1]) /\ Leaves(i, s + 1)
      BY <1>1, <1>3, <2>1, <2>3, <3>3
    <3>5. PICK t \in s + 1 .. Levels :
            /\ \A u \in s + 1 .. t : Ended(exec_slot[i][u])
            /\ IF t = Levels THEN Retires(i) ELSE Free(exec_slot[i][t + 1])
      BY <3>4 DEF Leaves
    <3>6. \A u \in s .. t : u = s \/ u \in s + 1 .. t
      OBVIOUS
    <3>7. t \in s .. Levels
      OBVIOUS
    <3>8. \A u \in s .. t : Ended(exec_slot[i][u])
      BY <1>3, <3>5, <3>6
    <3> QED
      BY <3>5, <3>7, <3>8 DEF Leaves
  <2> QED
    BY <2>2, <2>3
<1>4. \A s \in 1 .. 3 : (Ended(exec_slot[i][s + 1]) => Leaves(i, s + 1)) => (Ended(exec_slot[i][s]) => Leaves(i, s))
  BY <1>3
<1>5. Ended(exec_slot[i][3]) => Leaves(i, 3)
  BY <1>2, <1>4
<1>6. Ended(exec_slot[i][2]) => Leaves(i, 2)
  BY <1>4, <1>5
<1>7. Ended(exec_slot[i][1]) => Leaves(i, 1)
  BY <1>4, <1>6
<1> QED
  BY <1>2, <1>5, <1>6, <1>7, ConstantFacts

\* A level that is left has run out, and so has the next one or it is free.
LEMMA Leaving ==
  ASSUME NEW i \in Lane, NEW s \in Level, Leaves(i, s)
  PROVE  /\ Ended(exec_slot[i][s])
         /\ s < 4 => Free(exec_slot[i][s + 1]) \/ Ended(exec_slot[i][s + 1])
<1>1. PICK t \in s .. Levels :
        /\ \A u \in s .. t : Ended(exec_slot[i][u])
        /\ IF t = Levels THEN Retires(i) ELSE Free(exec_slot[i][t + 1])
  BY DEF Leaves
<1>2. s \in s .. t /\ (s < 4 /\ t # s => s + 1 \in s .. t) /\ (s < 4 => t # Levels \/ t # s)
  BY ConstantFacts DEF Levels
<1> QED
  BY <1>1, <1>2

\* What occupies a level after a tick has just started, or comes from the
\* level before, or was there.
Entered(i, s) == s > 1 /\ Ended(exec_slot[i][s - 1])
Stayed(i, s) == Occupied(i, s) /\ ~ Ended(exec_slot[i][s])

\* Which level a lane enters in the tick, and with what count (lines 634 to 687).
LEMMA NextLevel ==
  ASSUME TypeOK, NeverStalls, Tick, NEW i \in Lane, NEW s \in Level
  PROVE  /\ Stayed(i, s) => ~ Entered(i, s) /\ ~ (s = 1 /\ Starts(i))
         /\ s = 1 /\ Starts(i) =>
              /\ exec_slot'[i][s].pacc = ready_slot[i]
              /\ exec_slot'[i][s].remain = Latency(1) - 1
         /\ Entered(i, s) =>
              /\ exec_slot'[i][s].pacc = exec_slot[i][s - 1].pacc
              /\ exec_slot'[i][s].remain = Latency(s) - 1
         /\ Stayed(i, s) =>
              /\ exec_slot'[i][s].pacc = exec_slot[i][s].pacc
              /\ exec_slot'[i][s].remain = exec_slot[i][s].remain - 1
         /\ ~ (s = 1 /\ Starts(i)) /\ ~ Entered(i, s) /\ ~ Stayed(i, s) =>
              exec_slot'[i][s].pacc = NoPacc
<1>1. exec_slot'[i][s] = NextExec(i, s)
  BY DEF Tick, Commit
<1>2. Leaves(i, s) <=> Ended(exec_slot[i][s])
  BY Leaving DEF NeverStalls
<1>3. s > 1 => s - 1 \in Level /\ (Leaves(i, s - 1) <=> Ended(exec_slot[i][s - 1]))
  BY Leaving, AfterFacts, ConstantFacts DEF NeverStalls
<1>4. Stayed(i, s) => ~ Entered(i, s) /\ ~ (s = 1 /\ Starts(i))
  <2> SUFFICES ASSUME Stayed(i, s) PROVE ~ Entered(i, s) /\ ~ (s = 1 /\ Starts(i))
    OBVIOUS
  <2>1. ~ Free(exec_slot[i][s]) /\ ~ Ended(exec_slot[i][s])
    BY DEF Stayed, Occupied, Free
  <2>2. ASSUME Entered(i, s) PROVE FALSE
    <3>1. s - 1 \in Level /\ s - 1 < 4 /\ (s - 1) + 1 = s /\ Leaves(i, s - 1)
      BY <1>3, <2>2, ConstantFacts DEF Entered
    <3>2. Free(exec_slot[i][(s - 1) + 1]) \/ Ended(exec_slot[i][(s - 1) + 1])
      BY <3>1, Leaving
    <3> QED
      BY <2>1, <3>1, <3>2
  <2>3. ASSUME s = 1, Starts(i) PROVE FALSE
    BY <1>2, <2>1, <2>3 DEF Starts, Startable
  <2> QED
    BY <2>2, <2>3
<1>5. exec_slot[i][s] \in Slot /\ exec_slot[i][s].remain \in Nat
  BY DEF TypeOK, Slot
<1>6. Stayed(i, s) => exec_slot[i][s].remain > 0
  BY <1>5 DEF Stayed, Occupied, Ended
<1>7. s = 1 /\ Starts(i) =>
        /\ exec_slot'[i][s].pacc = ready_slot[i]
        /\ exec_slot'[i][s].remain = Latency(1) - 1
  BY <1>1 DEF NextExec
<1>8. Entered(i, s) =>
        /\ exec_slot'[i][s].pacc = exec_slot[i][s - 1].pacc
        /\ exec_slot'[i][s].remain = Latency(s) - 1
  BY <1>1, <1>3 DEF NextExec, Entered
<1>9. Stayed(i, s) =>
        /\ exec_slot'[i][s].pacc = exec_slot[i][s].pacc
        /\ exec_slot'[i][s].remain = exec_slot[i][s].remain - 1
  <2> SUFFICES ASSUME Stayed(i, s)
               PROVE  /\ exec_slot'[i][s].pacc = exec_slot[i][s].pacc
                      /\ exec_slot'[i][s].remain = exec_slot[i][s].remain - 1
    OBVIOUS
  <2>1. ~ (s = 1 /\ Starts(i)) /\ ~ (s > 1 /\ Leaves(i, s - 1)) /\ ~ Leaves(i, s)
    BY <1>2, <1>3, <1>4 DEF Entered, Stayed
  <2>2. exec_slot'[i][s] = [exec_slot[i][s] EXCEPT !.remain = IF @ > 0 THEN @ - 1 ELSE 0]
    BY <1>1, <2>1 DEF NextExec
  <2> QED
    BY <1>5, <1>6, <2>2 DEF Slot
<1>10. ~ (s = 1 /\ Starts(i)) /\ ~ Entered(i, s) /\ ~ Stayed(i, s) =>
         exec_slot'[i][s].pacc = NoPacc
  <2> SUFFICES ASSUME ~ (s = 1 /\ Starts(i)), ~ Entered(i, s), ~ Stayed(i, s)
               PROVE  exec_slot'[i][s].pacc = NoPacc
    OBVIOUS
  <2>1. ~ (s > 1 /\ Leaves(i, s - 1))
    BY <1>3 DEF Entered
  <2>2. CASE Ended(exec_slot[i][s])
    BY <1>1, <1>2, <2>1, <2>2 DEF NextExec, NoSlot
  <2>3. CASE ~ Occupied(i, s)
    <3>1. exec_slot[i][s].pacc = NoPacc /\ ~ Leaves(i, s)
      BY <1>2, <2>3 DEF Occupied, Ended
    <3>2. exec_slot'[i][s] = [exec_slot[i][s] EXCEPT !.remain = IF @ > 0 THEN @ - 1 ELSE 0]
      BY <1>1, <2>1, <3>1 DEF NextExec
    <3> QED
      BY <1>5, <3>1, <3>2 DEF Slot
  <2> QED
    BY <2>2, <2>3 DEF Stayed
<1> QED
  BY <1>4, <1>7, <1>8, <1>9, <1>10

\* The same after a step.
NextOccupied(i, s) == exec_slot'[i][s].pacc # NoPacc
NextLeft(i, s) == exec_slot'[i][s].remain + After(s)

\* Where what is in execution after a tick was before it: it has just
\* started, or is one cycle closer to its time at its level or the next one.
CameFrom(i, s, r) ==
  /\ r = s \/ r = s - 1
  /\ Occupied(i, r) /\ NextLeft(i, s) = Left(i, r) - 1
  /\ r = s - 1 <=> Ended(exec_slot[i][r])
  /\ exec_slot'[i][s].pacc = exec_slot[i][r].pacc

\* Where a lane that is at some level after the tick came from.
LEMMA Origin ==
  ASSUME TypeOK, NeverStalls, Tick, NEW i \in Lane, NEW s \in Level, NextOccupied(i, s)
  PROVE  \/ s = 1 /\ Starts(i) /\ NextLeft(i, s) = After(1) + T - 1
         \/ \E r \in Level : CameFrom(i, s, r)
<1>1. CASE s = 1 /\ Starts(i)
  <2>1. exec_slot'[i][s].remain = Latency(1) - 1
    BY <1>1, NextLevel
  <2>2. Latency(1) = T /\ T \in Nat /\ After(1) \in Nat
    BY ConstantFacts, AfterFacts
  <2> QED
    BY <1>1, <2>1, <2>2 DEF NextLeft
<1>2. CASE Entered(i, s)
  <2>1. s \in 2 .. 4
    BY <1>2, ConstantFacts DEF Entered
  <2>2. /\ s - 1 \in Level /\ After(s - 1) = After(s) + Latency(s)
        /\ After(s) \in Nat /\ Latency(s) \in Nat
    BY <2>1, AfterFacts, ConstantFacts
  <2>3. /\ exec_slot'[i][s].pacc = exec_slot[i][s - 1].pacc
        /\ exec_slot'[i][s].remain = Latency(s) - 1
        /\ Ended(exec_slot[i][s - 1])
    BY <1>2, NextLevel DEF Entered
  <2>4. Occupied(i, s - 1) /\ Left(i, s - 1) = After(s - 1)
    BY <2>2, <2>3, AfterFacts DEF Ended, Occupied, Left
  <2>5. NextLeft(i, s) = Left(i, s - 1) - 1
    BY <2>2, <2>3, <2>4 DEF NextLeft
  <2>6. CameFrom(i, s, s - 1)
    BY <2>1, <2>3, <2>4, <2>5 DEF CameFrom
  <2> QED
    BY <2>2, <2>6
<1>3. CASE Stayed(i, s)
  <2>1. /\ exec_slot'[i][s].pacc = exec_slot[i][s].pacc
        /\ exec_slot'[i][s].remain = exec_slot[i][s].remain - 1
    BY <1>3, NextLevel
  <2>2. After(s) \in Nat /\ exec_slot[i][s].remain \in Nat
    BY AfterFacts, LeftFacts
  <2>3. NextLeft(i, s) = Left(i, s) - 1
    BY <2>1, <2>2 DEF NextLeft, Left
  <2>4. s # s - 1
    BY ConstantFacts
  <2>5. CameFrom(i, s, s)
    BY <1>3, <2>1, <2>3, <2>4 DEF CameFrom, Stayed
  <2> QED
    BY <2>5
<1> QED
  BY <1>1, <1>2, <1>3, NextLevel DEF NextOccupied

\* The tick keeps the distances between the lanes.
LEMMA TimetableTick ==
  ASSUME TypeOK, NeverStalls, Timetable, Tick,
         NEW i \in Lane, NEW j \in Lane, NEW s \in Level, NEW u \in Level,
         NextOccupied(i, s), NextOccupied(j, u)
  PROVE  /\ <<i, s>> # <<j, u>> => NextLeft(i, s) # NextLeft(j, u)
         /\ i = j /\ s < u => NextLeft(i, s) >= NextLeft(j, u) + T
<1> DEFINE a == After(1)
<1>0. a \in Nat /\ T \in Nat /\ T > 0
  BY AfterFacts, ConstantFacts
\* Before the tick all times are before that of what starts now.
<1>1. \A k \in Lane, r \in Level :
        Left(k, r) \in Nat /\ Left(k, r) < a + T /\ (r > 1 => Left(k, r) < a)
  <2> TAKE k \in Lane, r \in Level
  <2>1. Left(k, r) \in Nat /\ Left(k, r) < After(r) + Latency(r)
    BY LeftFacts
  <2>2. After(r) + Latency(r) <= a + T /\ (r > 1 => After(r) + Latency(r) <= a)
    BY ConstantFacts DEF After
  <2>3. After(r) + Latency(r) \in Nat
    BY AfterFacts, ConstantFacts
  <2> HIDE DEF a
  <2> QED
    BY <1>0, <2>1, <2>2, <2>3
<1>2. ASSUME NEW k \in Lane, NEW x \in Level, NEW r \in Level, CameFrom(k, x, r)
      PROVE  /\ NextLeft(k, x) = Left(k, r) - 1 /\ NextLeft(k, x) < a + T - 1
             /\ x > 1 => NextLeft(k, x) <= a - 1
  <2>1. NextLeft(k, x) = Left(k, r) - 1 /\ NextLeft(k, x) < a + T - 1
    BY <1>0, <1>1, <1>2 DEF CameFrom
  <2>2. ASSUME x > 1 PROVE Left(k, r) <= a
    <3>1. CASE r > 1
      BY <1>0, <1>1, <3>1
    <3>2. CASE r = 1
      <4>1. exec_slot[k][1].remain = 0
        BY <1>2, <2>2, <3>2 DEF CameFrom, Ended
      <4> QED
        BY <1>0, <3>2, <4>1 DEF Left
    <3> QED
      BY <3>1, <3>2, ConstantFacts
  <2> QED
    BY <1>0, <1>1, <2>1, <2>2
<1> DEFINE Started(k, x) == x = 1 /\ Starts(k) /\ NextLeft(k, x) = a + T - 1
<1>3. Started(i, s) \/ \E r \in Level : CameFrom(i, s, r)
  BY Origin
<1>4. Started(j, u) \/ \E v \in Level : CameFrom(j, u, v)
  BY Origin
<1>5. ASSUME Started(i, s), Started(j, u)
      PROVE  i = j /\ s = u
  BY <1>5 DEF Starts
<1>6. ASSUME Started(i, s), NEW v \in Level, CameFrom(j, u, v)
      PROVE  /\ NextLeft(i, s) # NextLeft(j, u)
             /\ s < u => NextLeft(i, s) >= NextLeft(j, u) + T
  <2>1. NextLeft(i, s) = a + T - 1 /\ s = 1
    BY <1>6
  <2>2. /\ NextLeft(j, u) = Left(j, v) - 1 /\ NextLeft(j, u) < a + T - 1
        /\ u > 1 => NextLeft(j, u) <= a - 1
    BY <1>2, <1>6
  <2>3. Left(j, v) \in Nat
    BY <1>1
  <2> HIDE DEF a
  <2> QED
    BY <1>0, <2>1, <2>2, <2>3
<1>7. ASSUME Started(j, u), NEW r \in Level, CameFrom(i, s, r)
      PROVE  NextLeft(i, s) # NextLeft(j, u) /\ ~ (s < u)
  <2>1. NextLeft(j, u) = a + T - 1 /\ u = 1
    BY <1>7
  <2>2. NextLeft(i, s) < a + T - 1 /\ NextLeft(i, s) = Left(i, r) - 1
    BY <1>2, <1>7
  <2>3. Left(i, r) \in Nat
    BY <1>1
  <2> HIDE DEF a
  <2> QED
    BY <1>0, <2>1, <2>2, <2>3, ConstantFacts
<1>8. ASSUME NEW r \in Level, NEW v \in Level, CameFrom(i, s, r), CameFrom(j, u, v)
      PROVE  /\ <<i, s>> # <<j, u>> => NextLeft(i, s) # NextLeft(j, u)
             /\ i = j /\ s < u => NextLeft(i, s) >= NextLeft(j, u) + T
  <2>1. /\ r = s \/ r = s - 1
        /\ v = u \/ v = u - 1
        /\ r = s - 1 <=> Ended(exec_slot[i][r])
        /\ v = u - 1 <=> Ended(exec_slot[j][v])
    BY <1>8 DEF CameFrom
  <2>2. i = j /\ s < u => r < v
    BY <2>1, ConstantFacts
  <2>3. i = j /\ u < s => v < r
    BY <2>1, ConstantFacts
  <2>4. <<i, s>> # <<j, u>> => <<i, r>> # <<j, v>>
    BY <2>2, <2>3, ConstantFacts
  <2>5. /\ <<i, r>> # <<j, v>> => Left(i, r) # Left(j, v)
        /\ i = j /\ r < v => Left(i, r) >= Left(i, v) + T
    BY <1>8 DEF CameFrom, Timetable
  <2>6. /\ NextLeft(i, s) = Left(i, r) - 1 /\ NextLeft(j, u) = Left(j, v) - 1
        /\ Left(i, r) \in Nat /\ Left(j, v) \in Nat
    BY <1>1, <1>8 DEF CameFrom
  <2> QED
    BY <1>0, <2>2, <2>4, <2>5, <2>6
<1> QED
  BY <1>3, <1>4, <1>5, <1>6, <1>7, <1>8, ConstantFacts

\* Every step keeps the distances between the lanes.
LEMMA TimetableStep == TypeOK /\ Timetable /\ [Next]_vars => Timetable'
<1> SUFFICES ASSUME TypeOK, Timetable, [Next]_vars PROVE Timetable'
  OBVIOUS
<1>1. \A s \in Level : After(s)' = After(s)
  BY DEF After, T, L
<1>2. CASE Tick
  <2>1. \A i \in Lane, s \in Level :
          (Occupied(i, s)' <=> NextOccupied(i, s)) /\ Left(i, s)' = NextLeft(i, s)
    BY <1>1 DEF Occupied, NextOccupied, Left, NextLeft
  <2>2. NeverStalls
    BY NobodyStalls
  <2> QED
    BY <1>2, <2>1, <2>2, TimetableTick DEF Timetable, T
<1>3. CASE exec_slot' = exec_slot
  BY <1>1, <1>3 DEF Timetable, Occupied, Left, T
<1>4. (\E p \in Pacc : Fire(p)) \/ (\E o \in Operand : MemInput(o)) \/ UNCHANGED vars
      => exec_slot' = exec_slot
  BY DEF Fire, s0FireGemmInst, MemInput, s1s2MemInput, vars, regs
<1> QED
  BY <1>2, <1>3, <1>4 DEF Next

\* At the start no lane is busy.
LEMMA TimetableInit == Init => Timetable
  BY DEF Init, Timetable, Occupied, NoSlot

-----------------------------------------------------------------------------
(* The products.                                                           *)

\* The multiplication whose operands a lane holds, and how many have left
\* the feeding register.
Num(i) == laneBuffer[i]["A"]
Done == IF Free(next_feeding) THEN Len(insts) ELSE Len(insts) - 1

\* What is fed is the last multiplication, and the operands it has are its
\* own.
FedOperands ==
  ~ Free(next_feeding) =>
    /\ Len(insts) > 0 /\ next_feeding.pacc = insts[Len(insts)]
    /\ \A o \in next_feeding.got : inputBuffer[o] = Len(insts)

\* Lanes hold different multiplications, each with both of its operands.
LaneOperands ==
  \A i \in Lane : ready_slot[i] # NoPacc =>
    /\ Num(i) \in 1 .. Done /\ insts[Num(i)] = ready_slot[i]
    /\ laneBuffer[i] = M!Product(Num(i))
    /\ \A j \in Lane : ready_slot[j] # NoPacc /\ i # j => Num(i) # Num(j)

\* No lane waits with a multiplication that was added already.
AddedOnce ==
  \A p \in Pacc : \A k \in DOMAIN paccs[p] :
    /\ paccs[p][k]["A"] <= Done
    /\ \A i \in Lane : ready_slot[i] # NoPacc => paccs[p][k]["A"] # Num(i)

OperandInv == FedOperands /\ LaneOperands /\ AddedOnce

\* At the start no operand is awaited.
LEMMA OperandInit == Init => OperandInv
  BY DEF Init, OperandInv, FedOperands, LaneOperands, AddedOnce, Free, NoInst

\* The numbers of multiplications are natural numbers.
LEMMA DoneType == TypeOK /\ FedOperands => Len(insts) \in Nat /\ Done \in Nat
<1> SUFFICES ASSUME TypeOK, FedOperands PROVE Len(insts) \in Nat /\ Done \in Nat
  OBVIOUS
<1>1. Len(insts) \in Nat
  BY DEF TypeOK
<1> QED
  BY <1>1 DEF FedOperands, Done

\* A new multiplication waits for operands of its own.
LEMMA OperandFire ==
  ASSUME TypeOK, FeedingInv, OperandInv, NEW p \in Pacc, Fire(p)
  PROVE  OperandInv'
<1>1. /\ Free(feeding) /\ ~ written /\ next_feeding' = [pacc |-> p, got |-> {}]
      /\ insts' = Append(insts, p)
      /\ UNCHANGED <<ready_slot, laneBuffer, paccs, inputBuffer>>
  BY DEF Fire, s0FireGemmInst, SetFeeding, gemmFeedingReady, data
<1>2. Free(next_feeding)
  BY <1>1 DEF FeedingInv
<1>3. insts \in Seq(Pacc) /\ Len(insts) \in Nat
  BY DEF TypeOK
<1>4. /\ Len(insts') = Len(insts) + 1 /\ insts'[Len(insts')] = p
      /\ \A k \in 1 .. Len(insts) : insts'[k] = insts[k]
  BY <1>1, <1>3
<1>5. Done' = Done /\ Done = Len(insts)
  BY <1>1, <1>2, <1>3, <1>4, NoPaccAssumption DEF Done, Free
<1>6. FedOperands'
  BY <1>1, <1>3, <1>4 DEF FedOperands, Free
<1>7. \A i \in Lane : Num(i)' = Num(i)
  BY <1>1 DEF Num
<1>8. LaneOperands'
  <2> SUFFICES ASSUME NEW i \in Lane, ready_slot[i] # NoPacc
               PROVE  /\ Num(i) \in 1 .. Done' /\ insts'[Num(i)] = ready_slot[i]
                      /\ laneBuffer[i] = M!Product(Num(i))
                      /\ \A j \in Lane : ready_slot[j] # NoPacc /\ i # j => Num(i) # Num(j)
    BY <1>1 DEF LaneOperands, Num, M!Product
  <2> QED
    BY <1>4, <1>5 DEF OperandInv, LaneOperands
<1>9. AddedOnce'
  BY <1>1, <1>5, <1>7 DEF OperandInv, AddedOnce
<1> QED
  BY <1>6, <1>8, <1>9 DEF OperandInv

\* An operand goes to the multiplication that waits for it (line 517).
LEMMA OperandInput ==
  ASSUME TypeOK, FeedingInv, OperandInv, NEW o \in Operand, MemInput(o)
  PROVE  OperandInv'
<1>1. o \in owed /\ ~ written /\ next_feeding = feeding /\ ~ Free(feeding)
  BY DEF MemInput, FeedingInv
<1>2. /\ next_feeding' = [feeding EXCEPT !.got = @ \cup {o}]
      /\ inputBuffer' = [inputBuffer EXCEPT ![o] = Len(insts)]
      /\ UNCHANGED <<insts, ready_slot, laneBuffer, paccs>>
  BY <1>1 DEF MemInput, s1s2MemInput, SetFeeding
<1>3. feeding \in Inst /\ inputBuffer \in Tiles
  BY DEF TypeOK
<1>4. /\ next_feeding'.pacc = next_feeding.pacc
      /\ next_feeding'.got = next_feeding.got \cup {o}
      /\ next_feeding.got \subseteq Operand
  BY <1>1, <1>2, <1>3 DEF Inst
<1>5. \A q \in Operand : inputBuffer'[q] = IF q = o THEN Len(insts) ELSE inputBuffer[q]
  BY <1>2, <1>3 DEF Tiles
<1>6. Done' = Done
  BY <1>2, <1>4 DEF Done, Free
<1>7. FedOperands'
  BY <1>1, <1>2, <1>4, <1>5 DEF OperandInv, FedOperands, Free
<1>8. LaneOperands'
  BY <1>2, <1>6 DEF OperandInv, LaneOperands, M!Product, Num
<1>9. AddedOnce'
  BY <1>2, <1>6 DEF OperandInv, AddedOnce, Num
<1> QED
  BY <1>7, <1>8, <1>9 DEF OperandInv

\* A tick in which a lane takes what is fed.
LEMMA TakingFacts ==
  ASSUME TypeOK, FeedingInv, OperandInv, NEW i \in Lane, Takes(i)
  PROVE  /\ next_feeding = feeding /\ ~ Free(feeding)
         /\ Len(insts) > 0 /\ feeding.pacc = insts[Len(insts)] /\ Done = Len(insts) - 1
         /\ inputBuffer = M!Product(Len(insts))
<1>1. ~ Free(feeding) /\ feeding.got = Operand
  BY LanesOfATick DEF Free
<1>2. next_feeding = feeding
  BY <1>1 DEF FeedingInv
<1>3. /\ Len(insts) > 0 /\ feeding.pacc = insts[Len(insts)]
      /\ \A o \in Operand : inputBuffer[o] = Len(insts)
  BY <1>1, <1>2 DEF OperandInv, FedOperands
<1>4. inputBuffer = M!Product(Len(insts))
  BY <1>3 DEF TypeOK, Tiles, M!Product, M!Operand, Operand
<1> QED
  BY <1>1, <1>2, <1>3, <1>4 DEF Done

\* The tick hands a lane the operands of its own multiplication (line 694).
LEMMA OperandTick ==
  ASSUME TypeOK, FeedingInv, OperandInv, Tick
  PROVE  OperandInv'
<1> DEFINE n == Len(insts)
           taking == \E i \in Lane : Takes(i)
<1>1. n \in Nat /\ Done \in Nat
  BY DoneType DEF OperandInv
<1>2. /\ insts' = insts /\ inputBuffer' = inputBuffer
      /\ next_feeding' = IF taking THEN NoInst ELSE next_feeding
      /\ \A i \in Lane : /\ ready_slot'[i] = IF Takes(i) THEN feeding.pacc
                                            ELSE IF Starts(i) THEN NoPacc ELSE ready_slot[i]
                        /\ laneBuffer'[i] = IF Takes(i) THEN inputBuffer ELSE laneBuffer[i]
  BY DEF Tick, Commit, TickData, client
<1>3. FedOperands'
  BY <1>2 DEF OperandInv, FedOperands, NoInst, Free
<1>4. /\ taking => Done = n - 1 /\ Done' = n
      /\ ~ taking => Done' = Done
  BY <1>2, TakingFacts DEF Done, NoInst, Free
\* What a lane that takes has afterwards, and what the others keep.
<1>5. ASSUME NEW i \in Lane, Takes(i)
      PROVE  /\ Num(i)' = n /\ insts'[n] = ready_slot'[i] /\ laneBuffer'[i] = M!Product(n)
             /\ n \in 1 .. Done' /\ n > Done
  <2>1. laneBuffer'[i] = M!Product(n) /\ ready_slot'[i] = insts[n] /\ n > 0 /\ taking
    BY <1>2, <1>5, TakingFacts
  <2>2. M!Product(n)["A"] = n
    BY DEF M!Product, M!Operand
  <2>3. Num(i)' = n
    BY <2>1, <2>2 DEF Num
  <2> HIDE DEF n, taking
  <2> QED
    BY <1>1, <1>2, <1>4, <2>1, <2>3
<1>6. ASSUME NEW i \in Lane, ~ Takes(i), ready_slot'[i] # NoPacc
      PROVE  /\ ~ Starts(i) /\ ready_slot'[i] = ready_slot[i] /\ Num(i)' = Num(i)
             /\ laneBuffer'[i] = laneBuffer[i]
             /\ Num(i) \in 1 .. Done /\ Num(i) \in 1 .. Done'
  <2>1. ~ Starts(i) /\ ready_slot'[i] = ready_slot[i] /\ laneBuffer'[i] = laneBuffer[i]
    BY <1>2, <1>6
  <2>2. Num(i) \in 1 .. Done
    BY <1>6, <2>1 DEF OperandInv, LaneOperands
  <2>3. Done' \in Nat /\ Done <= Done'
    BY <1>1, <1>4
  <2>4. Num(i)' = Num(i)
    BY <2>1 DEF Num
  <2> QED
    BY <1>1, <2>1, <2>2, <2>3, <2>4
<1>7. LaneOperands'
  <2> SUFFICES ASSUME NEW i \in Lane, ready_slot'[i] # NoPacc
               PROVE  /\ Num(i)' \in 1 .. Done' /\ insts'[Num(i)'] = ready_slot'[i]
                      /\ laneBuffer'[i] = M!Product(Num(i)')
                      /\ \A j \in Lane : ready_slot'[j] # NoPacc /\ i # j => Num(i)' # Num(j)'
    BY DEF LaneOperands, M!Product
  <2>1. ASSUME NEW j \in Lane, ready_slot'[j] # NoPacc, i # j
        PROVE  Num(i)' # Num(j)'
    <3>1. ~ (Takes(i) /\ Takes(j))
      BY <2>1 DEF Takes
    <3>2. CASE Takes(i)
      BY <1>1, <1>5, <1>6, <2>1, <3>1, <3>2
    <3>3. CASE Takes(j)
      BY <1>1, <1>5, <1>6, <2>1, <3>1, <3>3
    <3>4. CASE ~ Takes(i) /\ ~ Takes(j)
      BY <1>6, <2>1, <3>4 DEF OperandInv, LaneOperands
    <3> QED
      BY <3>2, <3>3, <3>4
  <2>2. CASE Takes(i)
    BY <1>5, <2>1, <2>2
  <2>3. CASE ~ Takes(i)
    BY <1>2, <1>6, <2>1, <2>3 DEF OperandInv, LaneOperands
  <2> QED
    BY <2>2, <2>3
\* What is added now was in a lane, and leaves it.
<1>8. ASSUME NEW p \in Pacc, NEW k \in DOMAIN paccs'[p]
      PROVE  /\ paccs'[p][k]["A"] <= Done
             /\ \A i \in Lane : ready_slot'[i] # NoPacc => paccs'[p][k]["A"] # Num(i)'
  <2> DEFINE x == paccs'[p][k]["A"]
  <2>1. CASE k \in DOMAIN paccs[p] /\ paccs'[p][k] = paccs[p][k]
    <3>1. /\ x <= Done
          /\ \A i \in Lane : ready_slot[i] # NoPacc => x # Num(i)
      BY <2>1 DEF OperandInv, AddedOnce
    <3>2. x \in Nat
      BY <2>1 DEF TypeOK, Tiles, Operand
    <3> HIDE DEF x
    <3>3. \A i \in Lane : ready_slot'[i] # NoPacc => x # Num(i)'
      <4> SUFFICES ASSUME NEW i \in Lane, ready_slot'[i] # NoPacc PROVE x # Num(i)'
        OBVIOUS
      <4>1. CASE Takes(i)
        BY <1>1, <1>5, <3>1, <3>2, <4>1
      <4>2. CASE ~ Takes(i)
        BY <1>6, <3>1, <4>2
      <4> QED
        BY <4>1, <4>2
    <3> QED
      BY <3>1, <3>3 DEF x
  <2>2. CASE \E l \in Lane : Starts(l) /\ paccs'[p][k] = laneBuffer[l]
    <3> PICK l \in Lane : Starts(l) /\ paccs'[p][k] = laneBuffer[l]
      BY <2>2
    <3>1. x = Num(l) /\ ready_slot[l] # NoPacc
      BY LanesOfATick DEF Num
    <3>2. x \in 1 .. Done
      BY <3>1 DEF OperandInv, LaneOperands
    <3> HIDE DEF x
    <3>3. \A i \in Lane : ready_slot'[i] # NoPacc => x # Num(i)'
      <4> SUFFICES ASSUME NEW i \in Lane, ready_slot'[i] # NoPacc PROVE x # Num(i)'
        OBVIOUS
      <4>1. CASE Takes(i)
        BY <1>1, <1>5, <3>2, <4>1
      <4>2. CASE ~ Takes(i)
        <5>1. i # l
          BY <1>6, <4>2
        <5>2. ready_slot[i] # NoPacc /\ Num(i)' = Num(i)
          BY <1>6, <4>2
        <5> QED
          BY <3>1, <5>1, <5>2 DEF OperandInv, LaneOperands
      <4> QED
        BY <4>1, <4>2
    <3> QED
      BY <1>1, <3>2, <3>3 DEF x
  <2>3. CASE Startable = {}
    BY <2>1, <2>3 DEF Tick, TickData
  <2>4. CASE Startable # {}
    <3> DEFINE l == Lowest(Startable)
               q == ready_slot[l]
    <3>1. l \in Lane /\ Starts(l) /\ q \in Pacc
      BY <2>4, LanesOfATick DEF Starts, TypeOK
    <3>2. paccs' = [paccs EXCEPT ![q] = Append(@, laneBuffer[l])]
      BY <2>4 DEF Tick, TickData, Accumulate
    <3>3. paccs \in [Pacc -> Seq(Tiles)] /\ laneBuffer[l] \in Tiles
      BY <3>1 DEF TypeOK
    <3> HIDE DEF l, q
    <3>4. CASE p = q
      <4>1. paccs'[p] = Append(paccs[p], laneBuffer[l]) /\ paccs[p] \in Seq(Tiles)
        BY <3>2, <3>3, <3>4
      <4>2. \/ k \in DOMAIN paccs[p] /\ paccs'[p][k] = paccs[p][k]
            \/ paccs'[p][k] = laneBuffer[l]
        BY <3>3, <4>1
      <4> QED
        BY <2>1, <2>2, <3>1, <4>2
    <3>5. CASE p # q
      BY <2>1, <3>2, <3>3, <3>5
    <3> QED
      BY <3>4, <3>5
  <2> QED
    BY <2>3, <2>4
<1>9. AddedOnce'
  <2>1. \A x : x \in Int /\ x <= Done => x <= Done'
    BY <1>1, <1>4
  <2>2. TypeOK'
    BY TypeTick
  <2>3. \A p \in Pacc : \A k \in DOMAIN paccs'[p] : paccs'[p][k]["A"] \in Int
    BY <2>2 DEF TypeOK, Tiles, Operand
  <2> QED
    BY <1>8, <2>1, <2>3 DEF AddedOnce
<1> QED
  BY <1>3, <1>7, <1>9 DEF OperandInv

\* Every step keeps operands and multiplications together.
LEMMA OperandStep == TypeOK /\ FeedingInv /\ OperandInv /\ [Next]_vars => OperandInv'
<1>1. OperandInv /\ UNCHANGED vars => OperandInv'
  BY DEF vars, regs, data, client, OperandInv, FedOperands, LaneOperands, AddedOnce,
         Num, Done, Free, M!Product
<1> QED
  BY <1>1, OperandFire, OperandInput, OperandTick DEF Next

-----------------------------------------------------------------------------
(* The count.                                                              *)

InExec(p) == { x \in Lane \X Level : exec_slot[x[1]][x[2]].pacc = p }

\* What was added is retired or in execution.
Counted == \A p \in Pacc : retired[p] + Cardinality(InExec(p)) = Len(paccs[p])

\* The multiplications of an accumulator that are on their way can be counted.
LEMMA InExecFinite == \A p \in Pacc : IsFiniteSet(InExec(p)) /\ Cardinality(InExec(p)) \in Nat
<1> TAKE p \in Pacc
<1>1. IsFiniteSet(1 .. GEMM_LANE_SIZE) /\ IsFiniteSet(1 .. 4)
  <2>1. GEMM_LANE_SIZE \in Int /\ 1 \in Int /\ 4 \in Int
    BY SizesAssumption
  <2>2. IsFiniteSet(1 .. GEMM_LANE_SIZE)
    BY <2>1, FS_Interval
  <2>3. IsFiniteSet(1 .. 4)
    BY <2>1, FS_Interval
  <2> QED
    BY <2>2, <2>3
<1>2. IsFiniteSet(Lane \X Level)
  BY <1>1, FS_Product DEF Lane, Level, Levels
<1>3. IsFiniteSet(InExec(p))
  BY <1>2, FS_Subset DEF InExec
<1> QED
  BY <1>3, FS_CardinalityType

\* At the start nothing is to be counted.
LEMMA CountedInit == Init => Counted
<1> SUFFICES ASSUME Init, NEW p \in Pacc
             PROVE  retired[p] + Cardinality(InExec(p)) = Len(paccs[p])
  BY DEF Counted
<1>1. InExec(p) = {}
  BY NoPaccAssumption DEF Init, InExec, NoSlot
<1>2. Cardinality(InExec(p)) = 0
  BY <1>1, FS_EmptySet
<1> QED
  BY <1>2 DEF Init

\* A tick moves what is in execution; one multiplication may leave, and one
\* may join.
LEMMA CountTick ==
  ASSUME TypeOK, NeverStalls, Tick, NEW p \in Pacc
  PROVE  Cardinality(InExec(p)') =
           Cardinality(InExec(p))
             - (IF \E i \in Lane : Retires(i) /\ exec_slot[i][Levels].pacc = p THEN 1 ELSE 0)
             + (IF \E i \in Lane : Starts(i) /\ ready_slot[i] = p THEN 1 ELSE 0)
<1> DEFINE before == InExec(p)
           after == { x \in Lane \X Level : exec_slot'[x[1]][x[2]].pacc = p }
           stays == { x \in before : ~ (x[2] = 4 /\ Ended(exec_slot[x[1]][4])) }
           stayed == { x \in after : ~ (x[2] = 1 /\ Starts(x[1])) }
           move == [x \in stays |-> IF Ended(exec_slot[x[1]][x[2]]) THEN <<x[1], x[2] + 1>> ELSE x]
<1>1. InExec(p)' = after
  BY DEF InExec
<1>2. IsFiniteSet(before) /\ Cardinality(before) \in Nat /\ IsFiniteSet(stays)
  BY InExecFinite, FS_Subset
<1>3. p # NoPacc
  BY NoPaccAssumption
<1>4. \A i \in Lane, s \in Level :
        /\ <<i, s>> \in before <=> exec_slot[i][s].pacc = p
        /\ <<i, s>> \in after <=> exec_slot'[i][s].pacc = p
        /\ <<i, s>> \in stays <=> <<i, s>> \in before /\ ~ (s = 4 /\ Ended(exec_slot[i][4]))
        /\ <<i, s>> \in stayed <=> <<i, s>> \in after /\ ~ (s = 1 /\ Starts(i))
  BY DEF InExec
<1>5. \A x \in before \cup after : \E i \in Lane, s \in Level : x = <<i, s>>
  BY DEF InExec
<1>6. ASSUME NEW i \in Lane, NEW s \in Level, <<i, s>> \in stays
      PROVE  /\ Ended(exec_slot[i][s]) =>
                  /\ move[<<i, s>>] = <<i, s + 1>> /\ s + 1 \in Level
                  /\ Entered(i, s + 1) /\ <<i, s + 1>> \in stayed
             /\ ~ Ended(exec_slot[i][s]) =>
                  move[<<i, s>>] = <<i, s>> /\ Stayed(i, s) /\ <<i, s>> \in stayed
  <2>1. exec_slot[i][s].pacc = p
    BY <1>4, <1>6
  <2>2. move[<<i, s>>] = IF Ended(exec_slot[i][s]) THEN <<i, s + 1>> ELSE <<i, s>>
    BY <1>6
  <2>3. CASE Ended(exec_slot[i][s])
    <3>1. s + 1 \in Level /\ (s + 1) - 1 = s /\ s + 1 > 1 /\ s + 1 # 1
      BY <1>4, <1>6, <2>3, ConstantFacts
    <3>2. Entered(i, s + 1)
      BY <2>3, <3>1 DEF Entered
    <3>3. exec_slot'[i][s + 1].pacc = p
      BY <2>1, <3>1, <3>2, NextLevel
    <3>4. <<i, s + 1>> \in stayed
      BY <1>4, <3>1, <3>3
    <3> QED
      BY <2>2, <2>3, <3>1, <3>2, <3>4
  <2>4. CASE ~ Ended(exec_slot[i][s])
    <3>1. Stayed(i, s)
      BY <1>3, <2>1, <2>4 DEF Stayed, Occupied
    <3>2. exec_slot'[i][s].pacc = p /\ ~ (s = 1 /\ Starts(i))
      BY <2>1, <3>1, NextLevel
    <3> QED
      BY <1>4, <2>2, <2>4, <3>1, <3>2
  <2> QED
    BY <2>3, <2>4
<1> HIDE DEF before, after
<1>7. stays \subseteq before /\ stayed \subseteq after
  OBVIOUS
<1>8. move \in [stays -> stayed]
  <2>1. \A x \in stays : move[x] \in stayed
    <3> TAKE x \in stays
    <3>1. PICK i \in Lane, s \in Level : x = <<i, s>>
      BY <1>5, <1>7
    <3> HIDE DEF stays, stayed, move
    <3> QED
      BY <1>6, <3>1
  <2> HIDE DEF stayed
  <2> QED
    BY <2>1
<1>9. \A x, y \in stays : move[x] = move[y] => x = y
  <2> TAKE x, y \in stays
  <2> HIDE DEF stays, stayed, move
  <2>1. PICK i \in Lane, s \in Level : x = <<i, s>>
    BY <1>5, <1>7
  <2>2. PICK j \in Lane, u \in Level : y = <<j, u>>
    BY <1>5, <1>7
  <2>3. s \in Nat /\ u \in Nat
    BY ConstantFacts
  <2>4. <<i, s>> \in stays /\ <<j, u>> \in stays
    BY <2>1, <2>2
  <2>5. /\ Ended(exec_slot[i][s]) => move[x] = <<i, s + 1>> /\ s + 1 \in Level /\ Entered(i, s + 1)
        /\ ~ Ended(exec_slot[i][s]) => move[x] = <<i, s>> /\ Stayed(i, s)
    BY <1>6, <2>1, <2>4
  <2>6. /\ Ended(exec_slot[j][u]) => move[y] = <<j, u + 1>> /\ u + 1 \in Level /\ Entered(j, u + 1)
        /\ ~ Ended(exec_slot[j][u]) => move[y] = <<j, u>> /\ Stayed(j, u)
    BY <1>6, <2>2, <2>4
  <2> SUFFICES ASSUME move[x] = move[y] PROVE x = y
    OBVIOUS
  <2>7. CASE Ended(exec_slot[i][s]) /\ Ended(exec_slot[j][u])
    <3>1. move[x] = <<i, s + 1>> /\ move[y] = <<j, u + 1>>
      BY <2>5, <2>6, <2>7
    <3>2. <<i, s + 1>> = <<j, u + 1>>
      BY <3>1
    <3>3. i = j /\ s + 1 = u + 1
      BY <3>2
    <3> QED
      BY <2>1, <2>2, <2>3, <3>3
  <2>8. CASE Ended(exec_slot[i][s]) /\ ~ Ended(exec_slot[j][u])
    <3>1. move[x] = <<i, s + 1>> /\ Entered(i, s + 1) /\ move[y] = <<j, u>> /\ Stayed(j, u)
      BY <2>5, <2>6, <2>8
    <3>2. <<i, s + 1>> = <<j, u>>
      BY <3>1
    <3>3. i = j /\ s + 1 = u
      BY <3>2
    <3> QED
      BY <3>1, <3>3, NextLevel
  <2>9. CASE ~ Ended(exec_slot[i][s]) /\ Ended(exec_slot[j][u])
    <3>1. move[y] = <<j, u + 1>> /\ Entered(j, u + 1) /\ move[x] = <<i, s>> /\ Stayed(i, s)
      BY <2>5, <2>6, <2>9
    <3>2. i = j /\ u + 1 = s
      BY <3>1
    <3> QED
      BY <3>1, <3>2, NextLevel
  <2>10. CASE ~ Ended(exec_slot[i][s]) /\ ~ Ended(exec_slot[j][u])
    BY <2>1, <2>2, <2>5, <2>6, <2>10
  <2> QED
    BY <2>7, <2>8, <2>9, <2>10
<1>10. \A y \in stayed : \E x \in stays : move[x] = y
  <2> TAKE y \in stayed
  <2>1. PICK i \in Lane, s \in Level : y = <<i, s>>
    BY <1>5, <1>7
  <2> HIDE DEF stays, stayed, move
  <2>2. exec_slot'[i][s].pacc = p /\ ~ (s = 1 /\ Starts(i))
    BY <1>4, <2>1
  <2>3. CASE Entered(i, s)
    <3>1. s - 1 \in Level /\ (s - 1) + 1 = s /\ s - 1 # 4
      BY <2>3, ConstantFacts DEF Entered
    <3>2. Ended(exec_slot[i][s - 1]) /\ exec_slot[i][s - 1].pacc = p
      BY <2>2, <2>3, NextLevel DEF Entered
    <3>3. <<i, s - 1>> \in stays
      BY <1>4, <3>1, <3>2
    <3>4. move[<<i, s - 1>>] = <<i, (s - 1) + 1>>
      BY <1>6, <3>1, <3>2, <3>3
    <3> QED
      BY <2>1, <3>1, <3>3, <3>4
  <2>4. CASE Stayed(i, s)
    <3>1. ~ Ended(exec_slot[i][s]) /\ exec_slot[i][s].pacc = p
      BY <2>2, <2>4, NextLevel DEF Stayed
    <3>2. <<i, s>> \in stays
      BY <1>4, <3>1
    <3> QED
      BY <1>6, <2>1, <3>1, <3>2
  <2> QED
    BY <1>3, <2>2, <2>3, <2>4, NextLevel
<1>11. IsFiniteSet(stayed) /\ Cardinality(stayed) = Cardinality(stays)
  <2> HIDE DEF stays, stayed, move
  <2>1. move \in Injection(stays, stayed) /\ move \in Surjection(stays, stayed)
    BY <1>8, <1>9, <1>10 DEF Injection, IsInjective, Surjection
  <2>2. ExistsBijection(stays, stayed)
    BY <2>1 DEF ExistsBijection, Bijection
  <2> QED
    BY <1>2, <2>2, FS_Bijection
\* What leaves.
<1>12. Cardinality(stays) = Cardinality(before)
         - (IF \E i \in Lane : Retires(i) /\ exec_slot[i][Levels].pacc = p THEN 1 ELSE 0)
  <2>1. \A i \in Lane : Ended(exec_slot[i][4]) <=> Retires(i)
    <3> TAKE i \in Lane
    <3>1. Ended(exec_slot[i][4]) => Leaves(i, 4)
      BY ConstantFacts DEF NeverStalls
    <3>2. Leaves(i, 4) => Retires(i)
      BY DEF Leaves, Levels
    <3>3. Retires(i) => Ended(exec_slot[i][4])
      BY DEF Retires, Finished, Levels
    <3> QED
      BY <3>1, <3>2, <3>3
  <2>2. \A i, j \in Lane : Retires(i) /\ Retires(j) => i = j
    BY DEF Retires
  <2>3. CASE \E i \in Lane : Retires(i) /\ exec_slot[i][Levels].pacc = p
    <3> PICK i \in Lane : Retires(i) /\ exec_slot[i][Levels].pacc = p
      BY <2>3
    <3>0. 4 \in Level /\ exec_slot[i][4].pacc = p
      BY ConstantFacts DEF Levels
    <3>1. <<i, 4>> \in before
      BY <1>4, <3>0
    <3>2. \A x \in before : x \notin stays <=> x = <<i, 4>>
      <4> TAKE x \in before
      <4>1. PICK j \in Lane, u \in Level : x = <<j, u>>
        BY <1>5
      <4>2. <<j, u>> \notin stays <=> u = 4 /\ Retires(j)
        BY <1>4, <2>1, <4>1
      <4>3. u = 4 /\ Retires(j) <=> <<j, u>> = <<i, 4>>
        BY <2>2
      <4> QED
        BY <4>1, <4>2, <4>3
    <3>3. stays = before \ {<<i, 4>>}
      BY <3>1, <3>2
    <3> HIDE DEF stays, stayed, move
    <3> QED
      BY <1>2, <2>3, <3>1, <3>3, FS_RemoveElement
  <2>4. CASE ~ \E i \in Lane : Retires(i) /\ exec_slot[i][Levels].pacc = p
    <3>1. \A x \in before : x \in stays
      <4> TAKE x \in before
      <4>1. PICK j \in Lane, u \in Level : x = <<j, u>>
        BY <1>5
      <4> QED
        BY <1>4, <2>1, <2>4, <4>1 DEF Levels
    <3>2. stays = before
      BY <3>1
    <3> HIDE DEF stays, stayed, move
    <3> QED
      BY <1>2, <2>4, <3>2
  <2> QED
    BY <2>3, <2>4
\* What joins.
<1>13. Cardinality(after) = Cardinality(stayed)
         + (IF \E i \in Lane : Starts(i) /\ ready_slot[i] = p THEN 1 ELSE 0)
  <2>1. \A i \in Lane : Starts(i) => (<<i, 1>> \in after <=> ready_slot[i] = p)
    <3> TAKE i \in Lane
    <3>1. 1 \in Level
      BY ConstantFacts
    <3>2. Starts(i) => exec_slot'[i][1].pacc = ready_slot[i]
      BY <3>1, NextLevel
    <3> QED
      BY <1>4, <3>1, <3>2
  <2>2. \A i, j \in Lane : Starts(i) /\ Starts(j) => i = j
    BY DEF Starts
  <2>3. Cardinality(stayed) \in Nat
    BY <1>11, FS_CardinalityType
  <2>4. CASE \E i \in Lane : Starts(i) /\ ready_slot[i] = p
    <3> PICK i \in Lane : Starts(i) /\ ready_slot[i] = p
      BY <2>4
    <3>1. <<i, 1>> \in after /\ <<i, 1>> \notin stayed
      BY <1>4, <2>1, ConstantFacts
    <3>2. \A x \in after : x \notin stayed <=> x = <<i, 1>>
      <4> TAKE x \in after
      <4>1. PICK j \in Lane, u \in Level : x = <<j, u>>
        BY <1>5
      <4> QED
        BY <1>4, <2>2, <4>1
    <3>3. after = stayed \cup {<<i, 1>>}
      BY <1>7, <3>1, <3>2
    <3> HIDE DEF stays, stayed, move
    <3> QED
      BY <1>11, <2>3, <2>4, <3>1, <3>3, FS_AddElement
  <2>5. CASE ~ \E i \in Lane : Starts(i) /\ ready_slot[i] = p
    <3>1. \A x \in after : x \in stayed
      <4> TAKE x \in after
      <4>1. PICK j \in Lane, u \in Level : x = <<j, u>>
        BY <1>5
      <4> QED
        BY <1>4, <2>1, <2>5, <4>1
    <3>2. after = stayed
      BY <1>7, <3>1
    <3> HIDE DEF stays, stayed, move
    <3> QED
      BY <2>3, <2>5, <3>2
  <2> QED
    BY <2>4, <2>5
<1> DEFINE leaving == IF \E i \in Lane : Retires(i) /\ exec_slot[i][Levels].pacc = p THEN 1 ELSE 0
           joining == IF \E i \in Lane : Starts(i) /\ ready_slot[i] = p THEN 1 ELSE 0
<1>14. Cardinality(after) = (Cardinality(before) - leaving) + joining
  BY <1>11, <1>12, <1>13
<1> HIDE DEF stays, stayed, move, leaving, joining
<1>15. Cardinality(InExec(p)') = (Cardinality(InExec(p)) - leaving) + joining
  BY <1>1, <1>14 DEF before
<1> QED
  BY <1>15 DEF leaving, joining

\* What a tick adds and what it retires, per accumulator.
LEMMA AddedAndRetired ==
  ASSUME TypeOK, Tick, NEW p \in Pacc
  PROVE  /\ Len(paccs'[p]) = Len(paccs[p])
              + (IF \E i \in Lane : Starts(i) /\ ready_slot[i] = p THEN 1 ELSE 0)
         /\ retired'[p] = retired[p]
              + (IF \E i \in Lane : Retires(i) /\ exec_slot[i][Levels].pacc = p THEN 1 ELSE 0)
<1>1. Len(paccs'[p]) = Len(paccs[p])
        + (IF \E i \in Lane : Starts(i) /\ ready_slot[i] = p THEN 1 ELSE 0)
  <2> DEFINE adds == \E i \in Lane : Starts(i) /\ ready_slot[i] = p
             m == Len(paccs[p])
             n == Len(paccs'[p])
  <2> SUFFICES n = m + (IF adds THEN 1 ELSE 0)
    OBVIOUS
  <2>1. CASE Startable = {}
    <3>1. paccs' = paccs /\ ~ \E i \in Lane : Starts(i)
      BY <2>1 DEF Tick, TickData, Starts
    <3>2. m \in Nat
      BY DEF TypeOK
    <3>3. n = m /\ ~ adds
      BY <3>1
    <3> HIDE DEF n, m, adds
    <3> QED
      BY <3>2, <3>3
  <2>2. CASE Startable # {}
    <3> DEFINE l == Lowest(Startable)
               q == ready_slot[l]
    <3>1. l \in Lane /\ q \in Pacc /\ \A i \in Lane : Starts(i) <=> i = l
      BY <2>2, LanesOfATick DEF Starts, Startable, TypeOK
    <3>2. paccs' = [paccs EXCEPT ![q] = Append(@, laneBuffer[l])]
      BY <2>2 DEF Tick, TickData, Accumulate
    <3>3. paccs \in [Pacc -> Seq(Tiles)] /\ laneBuffer[l] \in Tiles
      BY <3>1 DEF TypeOK
    <3>4. adds <=> p = q
      BY <3>1
    <3> HIDE DEF l, q
    <3>5. paccs[p] \in Seq(Tiles) /\ m \in Nat
      BY <3>3
    <3>6. paccs'[p] = IF p = q THEN Append(paccs[p], laneBuffer[l]) ELSE paccs[p]
      BY <3>2, <3>3
    <3>7. n = IF p = q THEN m + 1 ELSE m
      BY <3>3, <3>5, <3>6
    <3> HIDE DEF n, m, adds
    <3> QED
      BY <3>4, <3>5, <3>7
  <2> QED
    BY <2>1, <2>2
<1>2. retired'[p] = retired[p]
        + (IF \E i \in Lane : Retires(i) /\ exec_slot[i][Levels].pacc = p THEN 1 ELSE 0)
  <2>1. retired \in [Pacc -> Nat] /\ retired' = RetiredNext
    BY DEF TypeOK, Tick, TickData
  <2>2. CASE Finished = {}
    BY <2>1, <2>2 DEF RetiredNext, Retires
  <2>3. CASE Finished # {}
    <3> DEFINE l == Lowest(Finished)
               q == exec_slot[l][Levels].pacc
    <3>1. l \in Lane /\ \A i \in Lane : Retires(i) <=> i = l
      BY <2>3, LanesOfATick DEF Retires
    <3>2. retired' = [retired EXCEPT ![q] = @ + 1]
      BY <2>1, <2>3 DEF RetiredNext
    <3>3. (\E i \in Lane : Retires(i) /\ exec_slot[i][Levels].pacc = p) <=> p = q
      BY <3>1
    <3> HIDE DEF l, q
    <3> QED
      BY <2>1, <3>2, <3>3
  <2> QED
    BY <2>2, <2>3
<1> QED
  BY <1>1, <1>2

\* Every step keeps the count of what was added and retired.
LEMMA CountedStep == TypeOK /\ Timetable /\ Counted /\ [Next]_vars => Counted'
<1> SUFFICES ASSUME TypeOK, Timetable, Counted, [Next]_vars,
                    NEW p \in Pacc
             PROVE  retired'[p] + Cardinality(InExec(p)') = Len(paccs'[p])
  BY DEF Counted
<1> DEFINE leaving == IF \E i \in Lane : Retires(i) /\ exec_slot[i][Levels].pacc = p THEN 1 ELSE 0
           joining == IF \E i \in Lane : Starts(i) /\ ready_slot[i] = p THEN 1 ELSE 0
           c == Cardinality(InExec(p))
           d == Cardinality(InExec(p)')
<1>1. /\ retired[p] \in Nat /\ c \in Nat /\ Len(paccs[p]) \in Nat
      /\ retired[p] + c = Len(paccs[p])
  BY InExecFinite DEF TypeOK, Counted
<1>2. CASE Tick
  <2>1. d = c - leaving + joining
    BY <1>2, NobodyStalls, CountTick
  <2>2. Len(paccs'[p]) = Len(paccs[p]) + joining /\ retired'[p] = retired[p] + leaving
    BY <1>2, AddedAndRetired
  <2>3. leaving \in Nat /\ joining \in Nat
    OBVIOUS
  <2> HIDE DEF c, d, leaving, joining
  <2>4. retired'[p] + d = Len(paccs'[p])
    BY <1>1, <2>1, <2>2, <2>3
  <2> QED
    BY <2>4 DEF d
<1>3. CASE UNCHANGED <<exec_slot, paccs, retired>>
  <2>1. InExec(p)' = InExec(p)
    BY <1>3 DEF InExec
  <2> QED
    BY <1>1, <1>3, <2>1
<1>4. (\E q \in Pacc : Fire(q)) \/ (\E o \in Operand : MemInput(o)) \/ UNCHANGED vars
      => UNCHANGED <<exec_slot, paccs, retired>>
  BY DEF Fire, s0FireGemmInst, MemInput, s1s2MemInput, vars, regs, data
<1> QED
  BY <1>2, <1>3, <1>4 DEF Next

-----------------------------------------------------------------------------

GemmInv == TypeOK /\ FeedingInv /\ Timetable /\ OperandInv /\ Counted

\* The inductive invariant holds throughout: types, feeding register, distances,
\* operands and counts (lines 597 to 728).
THEOREM Invariance == Spec => []GemmInv
<1>1. Init => GemmInv
  BY TypeInit, FeedingInit, TimetableInit, OperandInit, CountedInit DEF GemmInv
<1>2. GemmInv /\ [Next]_vars => GemmInv'
  BY TypeStep, FeedingStep, TimetableStep, OperandStep, CountedStep DEF GemmInv
<1> QED
  BY <1>1, <1>2, PTL DEF Spec

\* Every variable holds a value of its type, and a level never has more
\* cycles left than it takes.
THEOREM TypeCorrect == Spec => []TypeOK
<1>1. GemmInv => TypeOK
  BY DEF GemmInv
<1> QED
  BY <1>1, Invariance, PTL

\* The tick and a service never write the feeding register in one cycle.
THEOREM FeedingSingleWrite == Spec => []FeedingWrittenOnce
<1>1. GemmInv => FeedingWrittenOnce
  BY FeedingSafe DEF GemmInv
<1> QED
  BY <1>1, Invariance, PTL

\* A level that has run out is left at once, and no two lanes retire in the
\* same cycle.
THEOREM LevelsNeverStall == Spec => []NeverStalls
<1>1. GemmInv => NeverStalls
  BY NobodyStalls DEF GemmInv
<1> QED
  BY <1>1, Invariance, PTL

-----------------------------------------------------------------------------
(* The promise.                                                            *)

\* The initial state is one of the abstract unit.
LEMMA MatMulInit == Init => M!Init
  BY DEF Init, M!Init

\* What a tick adds was fired, has its own operands, and is new.
LEMMA AddStep ==
  ASSUME GemmInv, Tick
  PROVE  (\E k \in DOMAIN insts : M!Accumulate(k)) \/ UNCHANGED paccs
<1>1. CASE Startable = {}
  BY <1>1 DEF Tick, TickData
<1>2. CASE Startable # {}
  <2> DEFINE l == Lowest(Startable)
  <2>1. l \in Lane /\ ready_slot[l] # NoPacc
    BY <1>2, LanesOfATick DEF Startable
  <2>2. paccs' = [paccs EXCEPT ![ready_slot[l]] = Append(@, laneBuffer[l])]
    BY <1>2 DEF Tick, TickData, Accumulate
  <2> HIDE DEF l
  <2>3. /\ Num(l) \in 1 .. Done /\ insts[Num(l)] = ready_slot[l]
        /\ laneBuffer[l] = M!Product(Num(l))
    BY <2>1 DEF GemmInv, OperandInv, LaneOperands
  <2>4. Num(l) \in DOMAIN insts
    <3>1. Done \in Nat /\ Len(insts) \in Nat /\ Done <= Len(insts) /\ insts \in Seq(Pacc)
      BY DoneType DEF GemmInv, OperandInv, TypeOK, Done
    <3> QED
      BY <2>3, <3>1
  <2>5. ready_slot[l] \in Pacc
    BY <2>1 DEF GemmInv, TypeOK
  <2>6. \A j \in DOMAIN paccs[ready_slot[l]] : paccs[ready_slot[l]][j] # M!Product(Num(l))
    <3>1. M!Product(Num(l))["A"] = Num(l)
      BY DEF M!Product, M!Operand
    <3> QED
      BY <2>1, <2>5, <3>1 DEF GemmInv, OperandInv, AddedOnce
  <2>7. M!Accumulate(Num(l))
    BY <2>2, <2>3, <2>6 DEF M!Accumulate
  <2> QED
    BY <2>4, <2>7
<1> QED
  BY <1>1, <1>2

\* What a tick retires was added before.
LEMMA RetireStep ==
  ASSUME GemmInv, Tick
  PROVE  (\E p \in Pacc : M!Retire(p)) \/ UNCHANGED retired
<1>1. CASE Finished = {}
  BY <1>1 DEF Tick, TickData, RetiredNext
<1>2. CASE Finished # {}
  <2> DEFINE l == Lowest(Finished)
             p == exec_slot[l][Levels].pacc
  <2>1. l \in Lane /\ Levels \in Level /\ p # NoPacc /\ exec_slot[l][Levels] \in Slot
    BY <1>2, LanesOfATick, ConstantFacts DEF Finished, Ended, Levels, GemmInv, TypeOK
  <2>2. p \in Pacc
    BY <2>1 DEF Slot
  <2>3. <<l, Levels>> \in InExec(p)
    BY <2>1 DEF InExec
  <2>4. retired' = [retired EXCEPT ![p] = @ + 1]
    BY <1>2 DEF Tick, TickData, RetiredNext
  <2> HIDE DEF l, p
  <2>5. IsFiniteSet(InExec(p)) /\ Cardinality(InExec(p)) \in Nat /\ Cardinality(InExec(p)) # 0
    BY <2>2, <2>3, InExecFinite, FS_EmptySet
  <2>6. /\ retired[p] + Cardinality(InExec(p)) = Len(paccs[p])
        /\ retired[p] \in Nat
    BY <2>2 DEF GemmInv, Counted, TypeOK
  <2>7. retired[p] < Len(paccs[p])
    BY <2>5, <2>6
  <2>8. M!Retire(p)
    BY <2>4, <2>7 DEF M!Retire
  <2> QED
    BY <2>2, <2>8
<1> QED
  BY <1>1, <1>2

\* Every step is one of the abstract unit, or changes nothing it sees.
LEMMA MatMulStep == GemmInv /\ [Next]_vars => [M!Next]_<<insts, paccs, retired>>
<1> SUFFICES ASSUME GemmInv, [Next]_vars PROVE [M!Next]_<<insts, paccs, retired>>
  OBVIOUS
<1>1. ASSUME NEW p \in Pacc, Fire(p) PROVE M!Fire(p)
  BY <1>1 DEF Fire, s0FireGemmInst, data, M!Fire
<1>2. ASSUME NEW o \in Operand, MemInput(o) PROVE UNCHANGED <<insts, paccs, retired>>
  BY <1>2 DEF MemInput, s1s2MemInput, data
<1>3. CASE Tick
  <2>1. insts' = insts
    BY <1>3 DEF Tick, client
  <2>2. M!Cycle
    BY <1>3, <2>1, AddStep, RetireStep DEF M!Cycle
  <2> QED
    BY <2>2 DEF M!Next
<1>4. CASE UNCHANGED vars
  BY <1>4 DEF vars, data, client
<1> QED
  BY <1>1, <1>2, <1>3, <1>4 DEF Next, M!Next

\* Every multiplication is added once, with its own operands, and retired
\* once, after it was added: the unit implements the abstract one.
THEOREM LanesImplementMatMul == Spec => ImplementsMatMul
<1> QED
  BY Invariance, MatMulInit, MatMulStep, PTL DEF Spec, ImplementsMatMul, M!Spec

-----------------------------------------------------------------------------
(* What an accumulator holds.                                              *)

\* The multiplications fired for an accumulator.
FiredFor(p) == { k \in DOMAIN insts : insts[k] = p }

\* An accumulator holds products of its own multiplications, each once.
SumsOwn ==
  \A p \in Pacc : \A k \in DOMAIN paccs[p] :
    /\ paccs[p][k]["A"] \in FiredFor(p)
    /\ \A j \in DOMAIN paccs[p] : paccs[p][j]["A"] = paccs[p][k]["A"] => j = k

\* A tick adds a product that is not there yet, to its own accumulator.
LEMMA SumsTick ==
  ASSUME GemmInv, SumsOwn, Tick
  PROVE  SumsOwn'
<1>1. insts' = insts /\ insts \in Seq(Pacc) /\ paccs \in [Pacc -> Seq(Tiles)]
  BY DEF Tick, client, GemmInv, TypeOK
<1>2. CASE Startable = {}
  <2>1. paccs' = paccs
    BY <1>2 DEF Tick, TickData
  <2> QED
    BY <1>1, <2>1 DEF SumsOwn, FiredFor
<1>3. CASE Startable # {}
  <2> DEFINE l == Lowest(Startable)
             q == ready_slot[l]
             n == Num(l)
             s == paccs[q]
             t == laneBuffer[l]
  <2>1. l \in Lane /\ ready_slot[l] # NoPacc
    BY <1>3, LanesOfATick DEF Startable
  <2>2. q \in Pacc /\ t \in Tiles /\ n = t["A"]
    BY <2>1 DEF GemmInv, TypeOK, Num
  <2>3. paccs' = [paccs EXCEPT ![q] = Append(s, t)]
    BY <1>3 DEF Tick, TickData, Accumulate
  <2>4. n \in 1 .. Done /\ insts[n] = q
    BY <2>1 DEF GemmInv, OperandInv, LaneOperands
  <2>5. n \in FiredFor(q)
    <3>1. Done \in Nat /\ Len(insts) \in Nat /\ Done <= Len(insts)
      BY DoneType, <1>1 DEF GemmInv, OperandInv, Done
    <3>2. n \in DOMAIN insts
      BY <1>1, <2>4, <3>1
    <3> QED
      BY <2>4, <3>2 DEF FiredFor
  <2>6. \A j \in DOMAIN s : s[j]["A"] # n
    BY <2>1, <2>2 DEF GemmInv, OperandInv, AddedOnce
  <2> HIDE DEF l, q, n, s, t
  <2>7. s \in Seq(Tiles)
    BY <1>1, <2>2 DEF s
  <2>8. /\ DOMAIN s = 1 .. Len(s) /\ Len(s) \in Nat
        /\ DOMAIN Append(s, t) = 1 .. Len(s) + 1
        /\ \A k \in 1 .. Len(s) : Append(s, t)[k] = s[k]
        /\ Append(s, t)[Len(s) + 1] = t
    BY <2>2, <2>7
  <2>9. ASSUME NEW p \in Pacc, NEW k \in DOMAIN paccs'[p]
        PROVE  /\ paccs'[p][k]["A"] \in FiredFor(p)
               /\ \A j \in DOMAIN paccs'[p] : paccs'[p][j]["A"] = paccs'[p][k]["A"] => j = k
    <3>1. CASE p # q
      <4>1. paccs'[p] = paccs[p]
        BY <1>1, <2>3, <3>1
      <4> QED
        BY <2>9, <4>1 DEF SumsOwn
    <3>2. CASE p = q
      <4>1. paccs'[p] = Append(s, t)
        BY <1>1, <2>2, <2>3, <3>2
      <4>2. \A j \in 1 .. Len(s) :
              /\ s[j]["A"] \in FiredFor(p) /\ s[j]["A"] # t["A"]
              /\ \A i \in 1 .. Len(s) : s[i]["A"] = s[j]["A"] => i = j
        BY <2>2, <2>6, <2>8, <3>2 DEF SumsOwn, s
      <4>3. t["A"] \in FiredFor(p)
        BY <2>2, <2>5, <3>2
      <4> QED
        BY <2>8, <2>9, <4>1, <4>2, <4>3
    <3> QED
      BY <3>1, <3>2
  <2>10. \A p : FiredFor(p)' = FiredFor(p)
    BY <1>1 DEF FiredFor
  <2> QED
    BY <2>9, <2>10 DEF SumsOwn
<1> QED
  BY <1>2, <1>3

\* What is in an accumulator was fired for it, and nothing is in it twice.
LEMMA SumsStep == GemmInv /\ SumsOwn /\ [Next]_vars => SumsOwn'
<1> SUFFICES ASSUME GemmInv, SumsOwn, [Next]_vars
             PROVE  SumsOwn'
  OBVIOUS
<1>1. ASSUME NEW p \in Pacc, Fire(p)
      PROVE  SumsOwn'
  <2>1. paccs' = paccs /\ insts' = Append(insts, p) /\ insts \in Seq(Pacc)
    BY <1>1 DEF Fire, s0FireGemmInst, data, GemmInv, TypeOK
  <2>2. \A k \in DOMAIN insts : k \in DOMAIN insts' /\ insts'[k] = insts[k]
    BY <2>1
  <2>3. \A q : FiredFor(q) \subseteq FiredFor(q)'
    BY <2>2 DEF FiredFor
  <2> QED
    BY <2>1, <2>3 DEF SumsOwn
<1>2. CASE UNCHANGED <<paccs, insts>>
  BY <1>2 DEF SumsOwn, FiredFor
<1>3. (\E o \in Operand : MemInput(o)) \/ UNCHANGED vars => UNCHANGED <<paccs, insts>>
  BY DEF MemInput, s1s2MemInput, vars, data, client
<1> QED
  BY <1>1, <1>2, <1>3, SumsTick DEF Next

\* An accumulator never holds a product that is not its own, and none twice
\* (lines 670 to 690).
THEOREM SumsAreOwn == Spec => []SumsOwn
<1>1. Init => SumsOwn
  BY DEF Init, SumsOwn
<1> QED
  BY <1>1, Invariance, SumsStep, PTL DEF Spec

\* So an accumulator holds no more products than were fired for it, and less
\* while one of them waits in a lane.
LEMMA OwnBound ==
  ASSUME GemmInv, SumsOwn, NEW p \in Pacc
  PROVE  /\ Len(paccs[p]) \in Nat /\ Cardinality(FiredFor(p)) \in Nat
         /\ Len(paccs[p]) <= Cardinality(FiredFor(p))
         /\ \A i \in Lane : ready_slot[i] = p => Len(paccs[p]) < Cardinality(FiredFor(p))
<1> DEFINE s == paccs[p]
           num == [k \in 1 .. Len(s) |-> s[k]["A"]]
<1>1. s \in Seq(Tiles) /\ insts \in Seq(Pacc)
  BY DEF GemmInv, TypeOK
<1>2. DOMAIN s = 1 .. Len(s) /\ Len(s) \in Nat
  BY <1>1
<1>3. IsFiniteSet(FiredFor(p)) /\ Cardinality(FiredFor(p)) \in Nat
  <2>1. IsFiniteSet(DOMAIN insts)
    <3>1. DOMAIN insts = 1 .. Len(insts) /\ Len(insts) \in Nat
      BY <1>1
    <3> QED
      BY <3>1, FS_Interval
  <2>2. FiredFor(p) \in SUBSET DOMAIN insts
    BY DEF FiredFor
  <2> QED
    BY <2>1, <2>2, FS_Subset, FS_CardinalityType
<1>4. \A k \in 1 .. Len(s) : s[k]["A"] \in FiredFor(p)
  BY <1>2 DEF SumsOwn
<1>5. \A j, k \in 1 .. Len(s) : s[j]["A"] = s[k]["A"] => j = k
  BY <1>2 DEF SumsOwn
<1>6. IsFiniteSet(1 .. Len(s)) /\ Cardinality(1 .. Len(s)) = Len(s)
  BY <1>2, FS_Interval
<1> HIDE DEF s
<1>7. ASSUME NEW F \in SUBSET FiredFor(p), \A k \in 1 .. Len(s) : s[k]["A"] \in F
      PROVE  Len(s) <= Cardinality(F)
  <2>1. IsFiniteSet(F)
    BY <1>3, FS_Subset
  <2>2. num \in Injection(1 .. Len(s), F)
    BY <1>5, <1>7 DEF Injection, IsInjective
  <2> QED
    BY <1>6, <2>1, <2>2, FS_Injection
<1>8. ASSUME NEW i \in Lane, ready_slot[i] = p
      PROVE  Len(s) < Cardinality(FiredFor(p))
  <2> DEFINE n == Num(i)
             F == FiredFor(p) \ {n}
  <2>1. ready_slot[i] # NoPacc
    BY <1>8, NoPaccAssumption
  <2>2. n \in 1 .. Done /\ insts[n] = p
    BY <1>8, <2>1 DEF GemmInv, OperandInv, LaneOperands
  <2>3. n \in FiredFor(p)
    <3>1. Done \in Nat /\ Len(insts) \in Nat /\ Done <= Len(insts)
      BY <1>1, DoneType DEF GemmInv, OperandInv, Done
    <3>2. n \in DOMAIN insts
      BY <1>1, <2>2, <3>1
    <3> QED
      BY <2>2, <3>2 DEF FiredFor
  <2>4. \A k \in 1 .. Len(s) : s[k]["A"] # n
    BY <1>2, <1>8, <2>1 DEF GemmInv, OperandInv, AddedOnce, s
  <2> HIDE DEF n
  <2>5. Cardinality(F) = Cardinality(FiredFor(p)) - 1
    BY <1>3, <2>3, FS_RemoveElement
  <2>6. Len(s) <= Cardinality(F)
    <3>1. F \in SUBSET FiredFor(p) /\ \A k \in 1 .. Len(s) : s[k]["A"] \in F
      BY <1>4, <2>4
    <3> QED
      BY <1>7, <3>1
  <2> QED
    BY <1>2, <1>3, <2>5, <2>6
<1>9. Len(s) <= Cardinality(FiredFor(p))
  BY <1>4, <1>7
<1> QED
  BY <1>2, <1>3, <1>8, <1>9 DEF s
=============================================================================
