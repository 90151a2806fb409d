--------------------------- MODULE ComponentProofs ---------------------------
(***************************************************************************)
(* Proofs about the components of the simulation library and about the     *)
(* unit for tile moves.                                                    *)
(*                                                                         *)
(* The queue is a first-in first-out queue, for every depth, both widths   *)
(* and every value type.  Both register arrays keep the promise of the     *)
(* abstract array, for every number of registers and write ports: which of *)
(* them the size of an array selects makes no difference to a design.  The *)
(* pipelined cache over two block memories answers like the table of its   *)
(* test, for every number of lines, tags and data.                         *)
(*                                                                         *)
(* The unit for tile moves implements the plane port, for any size of      *)
(* tiles and bytes, any instructions and any planes.  What the planes of a *)
(* source add up to is decided by which of them came, so neither their     *)
(* order nor one that comes again makes a difference.  At the end, the     *)
(* laws that relate the operations.                                        *)
(***************************************************************************)
EXTENDS VulQueue, RegArray, SimpleCache, Tmisc, RanksProofs

-----------------------------------------------------------------------------
(* The queue.                                                              *)

RingIndex == 0 .. Depth - 1

\* Walking round the ring wraps once at most.
LEMMA SlotFacts ==
  ASSUME NEW s \in RingIndex, NEW i \in 0 .. Depth
  PROVE  /\ Slot(s, i) \in RingIndex
         /\ s + i < Depth => Slot(s, i) = s + i
         /\ s + i >= Depth => Slot(s, i) = s + i - Depth
<1>1. Depth \in Nat /\ Depth > 0 /\ s \in Nat /\ i \in Nat /\ s < Depth /\ i <= Depth
  BY WidthAssumption DEF RingIndex
<1>2. CASE s + i < Depth
  <2>1. (s + i) % Depth = s + i
    BY <1>1, <1>2
  <2> QED
    BY <1>1, <1>2, <2>1 DEF Slot, RingIndex
<1>3. CASE s + i >= Depth
  <2> DEFINE x == s + i - Depth
  <2>1. x \in Nat /\ x < Depth /\ s + i = x + Depth
    BY <1>1, <1>3
  <2> HIDE DEF x
  <2>2. (x + Depth) % Depth = x
    BY <1>1, <2>1
  <2> QED
    BY <1>1, <1>3, <2>1, <2>2 DEF Slot, RingIndex, x
<1> QED
  BY <1>1, <1>2, <1>3

\* Different distances lead to different slots.
LEMMA SlotInjective ==
  ASSUME NEW s \in RingIndex, NEW i \in RingIndex, NEW j \in RingIndex, Slot(s, i) = Slot(s, j)
  PROVE  i = j
<1>1. Depth \in Nat /\ Depth > 0 /\ s \in Nat /\ i \in Nat /\ j \in Nat
      /\ s < Depth /\ i < Depth /\ j < Depth
  BY WidthAssumption DEF RingIndex
<1>2. /\ s + i < Depth => Slot(s, i) = s + i
      /\ s + i >= Depth => Slot(s, i) = s + i - Depth
      /\ s + j < Depth => Slot(s, j) = s + j
      /\ s + j >= Depth => Slot(s, j) = s + j - Depth
  BY <1>1, SlotFacts
<1> QED
  BY <1>1, <1>2

\* Distances add up.
LEMMA SlotSlot ==
  ASSUME NEW s \in RingIndex, NEW i \in Nat, NEW j \in Nat, i + j <= Depth
  PROVE  Slot(Slot(s, i), j) = Slot(s, i + j)
<1>1. Depth \in Nat /\ Depth > 0 /\ s \in Nat /\ s < Depth
      /\ i \in 0 .. Depth /\ j \in 0 .. Depth /\ i + j \in 0 .. Depth
  BY WidthAssumption DEF RingIndex
<1> DEFINE t == Slot(s, i)
<1>2. /\ t \in RingIndex
      /\ s + i < Depth => t = s + i
      /\ s + i >= Depth => t = s + i - Depth
  BY <1>1, SlotFacts
<1>3. t \in Nat /\ t < Depth
  BY <1>1, <1>2 DEF RingIndex
<1> HIDE DEF t
<1>4. /\ t + j < Depth => Slot(t, j) = t + j
      /\ t + j >= Depth => Slot(t, j) = t + j - Depth
  BY <1>1, <1>2, SlotFacts
<1>5. /\ s + (i + j) < Depth => Slot(s, i + j) = s + (i + j)
      /\ s + (i + j) >= Depth => Slot(s, i + j) = s + (i + j) - Depth
  BY <1>1, SlotFacts
<1>6. Slot(t, j) = Slot(s, i + j)
  BY <1>1, <1>2, <1>3, <1>4, <1>5
<1> QED
  BY <1>6 DEF t

-----------------------------------------------------------------------------
(* The inductive invariant.  The ring's pointers are needed to know which  *)
(* slots a push overwrites, the accepted requests to know that nothing is  *)
(* cut off.                                                                *)

QueueInv == TypeOK /\ RingExact /\ WindowExact

\* The content of the ring is a sequence as long as its size.
LEMMA ContentFacts ==
  ASSUME TypeOK
  PROVE  /\ Content \in Seq(Value) /\ Len(Content) = size
         /\ \A i \in 1 .. size : Content[i] = data[Slot(head, i - 1)]
<1>1. size \in Nat /\ size <= Depth /\ head \in RingIndex
  BY WidthAssumption DEF TypeOK, RingIndex
<1>2. \A i \in 1 .. size : Content[i] = data[Slot(head, i - 1)]
  BY DEF Content
<1>3. \A i \in 1 .. size : data[Slot(head, i - 1)] \in Value
  <2> SUFFICES ASSUME NEW i \in 1 .. size
               PROVE  data[Slot(head, i - 1)] \in Value
    OBVIOUS
  <2>1. i - 1 \in 0 .. Depth
    BY <1>1, WidthAssumption
  <2>2. Slot(head, i - 1) \in RingIndex
    BY <1>1, <2>1, SlotFacts
  <2> QED
    BY <2>2 DEF TypeOK, RingIndex
<1>4. Content = [i \in 1 .. size |-> Content[i]] /\ DOMAIN Content = 1 .. size
  BY DEF Content
<1> QED
  BY <1>1, <1>2, <1>3, <1>4, SequenceIntro

\* What a tick that does not clear does to the ring.
LEMMA CommitFacts ==
  ASSUME QueueInv, ApplyNextTick, ~ clrPending
  PROVE  /\ head' \in RingIndex /\ head' = Slot(head, deqPending)
         /\ tail' \in RingIndex /\ tail' = Slot(head', size')
         /\ size' \in Nat /\ size' <= Depth
         /\ size' = size - deqPending + Len(enqBuf)
         /\ data' \in [RingIndex -> Value]
         /\ \A k \in 1 .. size - deqPending :
              data'[Slot(head', k - 1)] = Content[deqPending + k]
         /\ \A i \in 1 .. Len(enqBuf) :
              data'[Slot(head', size - deqPending + i - 1)] = enqBuf[i]
<1> DEFINE n == Len(enqBuf)
           d == deqPending
<1>1. /\ Depth \in Nat /\ Depth > 0
      /\ size \in Nat /\ size <= Depth
      /\ n \in Nat /\ n <= Depth - size
      /\ d \in Nat /\ d <= size
      /\ head \in RingIndex /\ tail \in RingIndex /\ tail = Slot(head, size)
      /\ enqBuf \in Seq(Value) /\ data \in [RingIndex -> Value]
  BY WidthAssumption DEF QueueInv, TypeOK, RingExact, RingIndex
<1>2. Least(d, size) = d /\ Least(n, Depth - (size - d)) = n
  <2> HIDE DEF n, d
  <2> QED
    BY <1>1 DEF Least
<1>3. /\ head' = Slot(head, d) /\ tail' = Slot(tail, n) /\ size' = size - d + n
      /\ data' = [s \in RingIndex |->
           IF \E i \in 1 .. n : Slot(tail, i - 1) = s
           THEN enqBuf[CHOOSE i \in 1 .. n : Slot(tail, i - 1) = s]
           ELSE data[s]]
  <2>1. PICK pop, push :
          pop = Least(deqPending, size) /\ push = Least(Len(enqBuf), Depth - (size - pop))
    OBVIOUS
  <2>2. pop = d /\ push = n
    BY <1>2, <2>1
  <2>3. /\ head' = Slot(head, pop) /\ tail' = Slot(tail, push) /\ size' = size - pop + push
        /\ data' = [s \in 0 .. Depth - 1 |->
             IF \E i \in 1 .. push : Slot(tail, i - 1) = s
             THEN enqBuf[CHOOSE i \in 1 .. push : Slot(tail, i - 1) = s]
             ELSE data[s]]
    BY <2>1 DEF ApplyNextTick
  <2> HIDE DEF n, d
  <2> QED
    BY <2>2, <2>3 DEF RingIndex
<1> HIDE DEF n, d
<1>4. size' \in Nat /\ size' <= Depth
  BY <1>1, <1>3
<1>5. head' \in RingIndex
  BY <1>1, <1>3, SlotFacts
<1>6. tail' = Slot(head', size') /\ tail' \in RingIndex
  <2>1. tail' = Slot(Slot(head, size), n)
    BY <1>1, <1>3
  <2>2. Slot(Slot(head, size), n) = Slot(head, size + n)
    BY <1>1, SlotSlot
  <2>3. d + size' = size + n /\ d + size' <= Depth
    BY <1>1, <1>3
  <2>4. Slot(Slot(head, d), size') = Slot(head, d + size')
    BY <1>1, <1>4, <2>3, SlotSlot
  <2>5. n \in 0 .. Depth
    BY <1>1
  <2> QED
    BY <1>1, <1>3, <2>1, <2>2, <2>3, <2>4, <2>5, SlotFacts
\* A pushed value is found at its distance from the old tail.
<1>7. ASSUME NEW i \in 1 .. n
      PROVE  data'[Slot(tail, i - 1)] = enqBuf[i]
  <2>1. i - 1 \in RingIndex /\ i - 1 \in 0 .. Depth
    BY <1>1 DEF RingIndex
  <2>2. Slot(tail, i - 1) \in RingIndex
    BY <1>1, <2>1, SlotFacts
  <2>3. ASSUME NEW j \in 1 .. n, Slot(tail, j - 1) = Slot(tail, i - 1)
        PROVE  j = i
    <3>1. j - 1 \in RingIndex
      BY <1>1 DEF RingIndex
    <3>2. j - 1 = i - 1
      BY <1>1, <2>1, <2>3, <3>1, SlotInjective
    <3> QED
      BY <1>1, <3>2
  <2> QED
    BY <1>3, <2>2, <2>3
\* Slots before the old tail are not touched.
<1>8. ASSUME NEW k \in 0 .. size - 1
      PROVE  data'[Slot(head, k)] = data[Slot(head, k)]
  <2>1. k \in RingIndex /\ k \in 0 .. Depth
    BY <1>1 DEF RingIndex
  <2>2. Slot(head, k) \in RingIndex
    BY <1>1, <2>1, SlotFacts
  <2>3. ASSUME NEW i \in 1 .. n, Slot(tail, i - 1) = Slot(head, k)
        PROVE  FALSE
    <3>1. i - 1 \in Nat /\ size + (i - 1) <= Depth /\ size + (i - 1) \in RingIndex
      BY <1>1 DEF RingIndex
    <3>2. Slot(tail, i - 1) = Slot(head, size + (i - 1))
      BY <1>1, <3>1, SlotSlot
    <3>3. size + (i - 1) = k
      BY <1>1, <2>1, <2>3, <3>1, <3>2, SlotInjective
    <3> QED
      BY <1>1, <3>3
  <2> QED
    BY <1>3, <2>2, <2>3
<1>9. ASSUME NEW k \in 1 .. size - d
      PROVE  data'[Slot(head', k - 1)] = Content[d + k]
  <2> DEFINE j == d + (k - 1)
             m == d + k
  <2>1. /\ k - 1 \in Nat /\ j <= Depth /\ j \in 0 .. size - 1
        /\ m \in 1 .. size /\ m - 1 = j
    BY <1>1
  <2>2. Slot(head', k - 1) = Slot(head, j)
    BY <1>1, <1>3, <2>1, SlotSlot
  <2> HIDE DEF j, m
  <2>3. Content[m] = data[Slot(head, m - 1)]
    BY <2>1, ContentFacts DEF QueueInv
  <2>4. data'[Slot(head', k - 1)] = Content[m]
    BY <1>8, <2>1, <2>2, <2>3
  <2> QED
    BY <2>4 DEF m
<1>10. ASSUME NEW i \in 1 .. n
       PROVE  data'[Slot(head', size - d + i - 1)] = enqBuf[i]
  <2> DEFINE j == size - d + i - 1
  <2>1. /\ j \in Nat /\ d + j <= Depth /\ d + j = size + (i - 1)
        /\ i - 1 \in Nat /\ size + (i - 1) <= Depth
    BY <1>1
  <2> HIDE DEF j
  <2>2. Slot(head', j) = Slot(head, d + j)
    BY <1>1, <1>3, <2>1, SlotSlot
  <2>3. Slot(tail, i - 1) = Slot(head, size + (i - 1))
    BY <1>1, <2>1, SlotSlot
  <2>4. data'[Slot(head', j)] = enqBuf[i]
    BY <1>7, <2>1, <2>2, <2>3
  <2> QED
    BY <2>4 DEF j
<1>11. data' \in [RingIndex -> Value]
  <2> SUFFICES ASSUME NEW s \in RingIndex
               PROVE  data'[s] \in Value
    BY <1>3
  <2>1. CASE \E i \in 1 .. n : Slot(tail, i - 1) = s
    <3>1. PICK i \in 1 .. n : Slot(tail, i - 1) = s
      BY <2>1
    <3>2. enqBuf[i] \in Value
      BY <1>1, <3>1 DEF n
    <3> QED
      BY <1>7, <3>1, <3>2
  <2>2. CASE ~ \E i \in 1 .. n : Slot(tail, i - 1) = s
    BY <1>1, <1>3, <2>2
  <2> QED
    BY <2>1, <2>2
<1> QED
  BY <1>3, <1>4, <1>5, <1>6, <1>9, <1>10, <1>11 DEF n, d

\* A tick that clears leaves an empty ring.
LEMMA ClearFacts ==
  ASSUME QueueInv, ApplyNextTick, clrPending
  PROVE  head' = 0 /\ tail' = 0 /\ size' = 0 /\ data' \in [RingIndex -> Value]
<1>1. Depth \in Nat /\ Depth > 0 /\ deqPending \in Nat /\ 0 \in RingIndex /\ 0 \in 0 .. Depth
  BY WidthAssumption DEF QueueInv, TypeOK, RingIndex
<1>2. Least(deqPending, 0) = 0
  BY <1>1 DEF Least
<1>3. Slot(0, 0) = 0
  BY <1>1, SlotFacts
<1>4. head' = Slot(0, 0) /\ tail' = Slot(0, 0) /\ size' = 0 - 0 + 0
      /\ data' = [s \in RingIndex |->
           IF \E i \in 1 .. 0 : Slot(0, i - 1) = s
           THEN enqBuf[CHOOSE i \in 1 .. 0 : Slot(0, i - 1) = s]
           ELSE data[s]]
  BY <1>2 DEF ApplyNextTick, RingIndex
<1>5. \A i \in 1 .. 0 : FALSE
  OBVIOUS
<1>6. data' = data /\ data \in [RingIndex -> Value]
  BY <1>4, <1>5 DEF QueueInv, TypeOK, RingIndex
<1> QED
  BY <1>3, <1>4, <1>6

\* The content after a tick: nothing after a clear, otherwise the rest of
\* the old content and the pushed values.
LEMMA CommitContent ==
  ASSUME QueueInv, ApplyNextTick
  PROVE  /\ TypeOK' /\ RingExact'
         /\ Content' = IF clrPending THEN <<>>
                       ELSE SubSeq(Content, deqPending + 1, Len(Content)) \o enqBuf
         /\ enqBuf' = <<>> /\ deqPending' = 0 /\ clrPending' = FALSE
         /\ deqBuf' = [i \in 1 .. Least(size', DeqWidth) |-> data'[Slot(head', i - 1)]]
<1>1. /\ enqBuf' = <<>> /\ deqPending' = 0 /\ clrPending' = FALSE
      /\ deqBuf' = [i \in 1 .. Least(size', DeqWidth) |-> data'[Slot(head', i - 1)]]
  BY DEF ApplyNextTick
<1>2. /\ size' \in 0 .. Depth /\ head' \in RingIndex /\ tail' \in RingIndex
      /\ tail' = Slot(head', size') /\ data' \in [RingIndex -> Value]
  <2>1. CASE clrPending
    <3>1. 0 \in RingIndex /\ 0 \in 0 .. Depth /\ 0 + 0 < Depth
      BY WidthAssumption DEF RingIndex
    <3>2. Slot(0, 0) = 0
      BY <3>1, SlotFacts
    <3> QED
      BY <2>1, <3>1, <3>2, ClearFacts
  <2>2. CASE ~ clrPending
    BY <2>2, CommitFacts, WidthAssumption
  <2> QED
    BY <2>1, <2>2
<1>3. deqBuf' \in Seq(Value) /\ Len(deqBuf') <= DeqWidth
  <2> DEFINE w == Least(size', DeqWidth)
  <2>1. w \in Nat /\ w <= DeqWidth /\ w <= size' /\ size' <= Depth
    BY <1>2, WidthAssumption DEF Least
  <2> HIDE DEF w
  <2>2. \A i \in 1 .. w : i - 1 \in 0 .. Depth
    BY <1>2, <2>1, WidthAssumption
  <2>3. \A i \in 1 .. w : data'[Slot(head', i - 1)] \in Value
    BY <1>2, <2>2, SlotFacts
  <2>4. deqBuf' = [i \in 1 .. w |-> data'[Slot(head', i - 1)]]
    BY <1>1 DEF w
  <2> DEFINE s == deqBuf'
  <2>5. DOMAIN s = 1 .. w /\ s = [i \in 1 .. w |-> s[i]] /\ \A i \in 1 .. w : s[i] \in Value
    BY <2>3, <2>4
  <2> HIDE DEF s
  <2>6. s \in Seq(Value) /\ Len(s) = w
    BY <2>1, <2>5, SequenceIntro
  <2> QED
    BY <2>1, <2>6 DEF s
<1>4. TypeOK'
  <2>1. /\ data' \in [0 .. Depth - 1 -> Value]
        /\ head' \in 0 .. Depth - 1 /\ tail' \in 0 .. Depth - 1 /\ size' \in 0 .. Depth
    BY <1>2 DEF RingIndex
  <2>2. enqBuf' \in Seq(Value) /\ Len(enqBuf') = 0
    BY <1>1
  <2>3. Len(enqBuf') <= EnqWidth /\ deqPending' \in 0 .. DeqWidth
    BY <1>1, <2>2, WidthAssumption
  <2>4. clrPending' \in BOOLEAN
    BY <1>1
  <2> QED
    BY <1>3, <2>1, <2>2, <2>3, <2>4 DEF TypeOK
<1>5. RingExact'
  <2>1. Len(enqBuf') = 0 /\ deqPending' = 0
    BY <1>1
  <2>2. Depth \in Nat /\ size' \in Nat /\ size' <= Depth
    BY <1>2, WidthAssumption
  <2>3. Len(enqBuf') <= Depth - size' /\ deqPending' <= size'
    <3> DEFINE z == size'
    <3>1. Depth \in Nat /\ z \in Nat /\ z <= Depth
      BY <2>2
    <3> HIDE DEF z
    <3>2. 0 <= Depth - z /\ 0 <= z
      BY <3>1
    <3> QED
      BY <2>1, <3>2 DEF z
  <2>4. tail' = Slot(head', size')
    BY <1>2
  <2> QED
    BY <2>3, <2>4 DEF RingExact
<1>6. Content' = IF clrPending THEN <<>>
                 ELSE SubSeq(Content, deqPending + 1, Len(Content)) \o enqBuf
  <2> DEFINE C == Content'
             c == Content
             rest == SubSeq(c, deqPending + 1, Len(c))
  <2>1. /\ C = [i \in 1 .. size' |-> data'[Slot(head', i - 1)]]
    BY DEF Content
  <2>2. CASE clrPending
    <3>1. size' = 0
      BY <2>2, ClearFacts
    <3>2. C = <<>>
      BY <2>1, <3>1
    <3> QED
      BY <2>2, <3>2
  <2>3. CASE ~ clrPending
    <3>1. /\ c \in Seq(Value) /\ Len(c) = size
          /\ enqBuf \in Seq(Value) /\ Len(enqBuf) \in Nat
          /\ deqPending \in Nat /\ deqPending <= size /\ size \in Nat
      BY ContentFacts, WidthAssumption DEF QueueInv, TypeOK, RingExact
    <3>2. /\ size' = size - deqPending + Len(enqBuf)
          /\ \A k \in 1 .. size - deqPending :
               data'[Slot(head', k - 1)] = c[deqPending + k]
          /\ \A i \in 1 .. Len(enqBuf) :
               data'[Slot(head', size - deqPending + i - 1)] = enqBuf[i]
      BY <2>3, CommitFacts
    <3> HIDE DEF c, C
    <3>3. /\ rest \in Seq(Value) /\ Len(rest) = size - deqPending
          /\ \A k \in 1 .. size - deqPending : rest[k] = c[deqPending + k]
      BY <3>1
    <3> HIDE DEF rest
    <3> DEFINE all == rest \o enqBuf
    <3>4. /\ all \in Seq(Value) /\ Len(all) = size'
          /\ \A k \in 1 .. size - deqPending : all[k] = rest[k]
          /\ \A i \in 1 .. Len(enqBuf) : all[size - deqPending + i] = enqBuf[i]
      <4>1. /\ all \in Seq(Value) /\ Len(all) = Len(rest) + Len(enqBuf)
            /\ \A k \in 1 .. Len(rest) : all[k] = rest[k]
            /\ \A i \in 1 .. Len(enqBuf) : all[Len(rest) + i] = enqBuf[i]
        <5>1. rest \in Seq(Value) /\ enqBuf \in Seq(Value)
          BY <3>1, <3>3
        <5> QED
          BY <5>1, ConcatFacts
      <4> HIDE DEF all
      <4>2. Len(rest) = size - deqPending /\ size' = size - deqPending + Len(enqBuf)
        BY <3>2, <3>3
      <4>3. \A k \in 1 .. size - deqPending : all[k] = rest[k]
        BY <4>1, <4>2
      <4>4. ASSUME NEW i \in 1 .. Len(enqBuf)
            PROVE  all[size - deqPending + i] = enqBuf[i]
        <5>1. all[Len(rest) + i] = enqBuf[i]
          BY <4>1
        <5>2. Len(rest) = size - deqPending
          BY <4>2
        <5> QED
          BY <5>1, <5>2
      <4> QED
        BY <4>1, <4>2, <4>3, <4>4
    <3> HIDE DEF all
    <3>5. ASSUME NEW k \in 1 .. size'
          PROVE  all[k] = C[k]
      <4>0. C[k] = data'[Slot(head', k - 1)]
        BY <2>1
      <4>1. CASE k \in 1 .. size - deqPending
        BY <3>2, <3>3, <3>4, <4>0, <4>1
      <4>2. CASE k \notin 1 .. size - deqPending
        <5> DEFINE i == k - (size - deqPending)
        <5>1. i \in 1 .. Len(enqBuf) /\ size - deqPending + i = k
              /\ size - deqPending + i - 1 = k - 1
          BY <3>1, <3>2, <4>2
        <5> HIDE DEF i
        <5> QED
          BY <3>2, <3>4, <4>0, <5>1
      <4> QED
        BY <4>1, <4>2
    <3>6. all = [k \in 1 .. size' |-> all[k]]
      BY <3>4
    <3>7. C = [k \in 1 .. size' |-> C[k]]
      BY <2>1
    <3>8. all = C
      BY <3>5, <3>6, <3>7
    <3> QED
      BY <2>3, <3>8 DEF all, rest, c, C
  <2> QED
    BY <2>2, <2>3
<1> QED
  BY <1>1, <1>4, <1>5, <1>6

\* The window refilled by a tick shows the front of the content.
LEMMA CommitWindow ==
  ASSUME QueueInv, ApplyNextTick
  PROVE  /\ WindowExact'
         /\ deqBuf' = SubSeq(Content', 1, Least(Len(Content'), DeqWidth))
<1>1. TypeOK'
  BY CommitContent
<1> DEFINE C == Content'
           w == Least(size', DeqWidth)
           z == size'
<1>2. C \in Seq(Value) /\ Len(C) = z
      /\ \A i \in 1 .. z : C[i] = data'[Slot(head', i - 1)]
  <2>1. z \in Nat /\ z <= Depth /\ head' \in RingIndex /\ data' \in [RingIndex -> Value]
    BY <1>1, WidthAssumption DEF TypeOK, RingIndex
  <2>2. C = [i \in 1 .. z |-> data'[Slot(head', i - 1)]]
    BY DEF Content
  <2> HIDE DEF z, C
  <2>3. \A i \in 1 .. z : i - 1 \in 0 .. Depth
    BY <2>1, WidthAssumption
  <2>4. \A i \in 1 .. z : data'[Slot(head', i - 1)] \in Value
    BY <2>1, <2>3, SlotFacts
  <2>5. \A i \in 1 .. z : C[i] = data'[Slot(head', i - 1)]
    BY <2>2
  <2>6. C = [i \in 1 .. z |-> C[i]] /\ DOMAIN C = 1 .. z
    BY <2>2
  <2>7. \A i \in 1 .. z : C[i] \in Value
    BY <2>4, <2>5
  <2>8. C \in Seq(Value) /\ Len(C) = z
    BY <2>1, <2>6, <2>7, SequenceIntro
  <2> QED
    BY <2>5, <2>8
<1>3. w \in Nat /\ w <= z /\ z \in Nat
  BY <1>1, WidthAssumption DEF Least, TypeOK
<1>4. deqBuf' = [i \in 1 .. w |-> data'[Slot(head', i - 1)]]
  BY CommitContent
<1>5. WindowExact' <=> deqBuf' = [i \in 1 .. w |-> C[i]]
  BY DEF WindowExact
<1>6. w = Least(Len(C), DeqWidth)
  BY <1>2
<1> HIDE DEF C, w, z
<1>7. \A i \in 1 .. w : i \in 1 .. z
  BY <1>3
<1>8. deqBuf' = [i \in 1 .. w |-> C[i]]
  BY <1>2, <1>4, <1>7
<1>9. SubSeq(C, 1, w) = [i \in 1 .. w |-> C[i]]
  <2> DEFINE t == SubSeq(C, 1, w)
  <2>1. t \in Seq(Value) /\ Len(t) = w /\ \A i \in 1 .. w : t[i] = C[i]
    BY <1>2, <1>3
  <2>2. DOMAIN t = 1 .. w
    BY <2>1
  <2>3. t = [i \in DOMAIN t |-> t[i]]
    BY <2>1
  <2> HIDE DEF t
  <2>4. t = [i \in 1 .. w |-> C[i]]
    BY <2>1, <2>2, <2>3
  <2> QED
    BY <2>4 DEF t
<1> QED
  BY <1>5, <1>6, <1>8, <1>9 DEF C

\* The empty queue satisfies the invariant and is the empty abstract queue.
LEMMA QueueInitInv == QueueInit => QueueInv /\ Queue!Init
<1> SUFFICES ASSUME QueueInit
             PROVE  QueueInv /\ Queue!Init
  OBVIOUS
<1>1. Depth \in Nat /\ Depth > 0 /\ 0 \in RingIndex /\ 0 \in 0 .. Depth
  BY WidthAssumption DEF RingIndex
<1>2. head = 0 /\ tail = 0 /\ size = 0 /\ enqBuf = <<>> /\ deqPending = 0
      /\ clrPending = FALSE /\ deqBuf = <<>>
  BY DEF QueueInit
<1>3. Content = <<>>
  BY <1>2 DEF Content
<1>4. TypeOK
  <2>1. data \in [0 .. Depth - 1 -> Value]
    BY DefaultAssumption DEF QueueInit
  <2>2. enqBuf \in Seq(Value) /\ Len(enqBuf) = 0 /\ deqBuf \in Seq(Value) /\ Len(deqBuf) = 0
    BY <1>2
  <2>3. Len(enqBuf) <= EnqWidth /\ Len(deqBuf) <= DeqWidth /\ deqPending \in 0 .. DeqWidth
    BY <1>2, <2>2, WidthAssumption
  <2>4. head \in 0 .. Depth - 1 /\ tail \in 0 .. Depth - 1 /\ size \in 0 .. Depth
    BY <1>1, <1>2 DEF RingIndex
  <2>5. clrPending \in BOOLEAN
    BY <1>2
  <2> QED
    BY <2>1, <2>2, <2>3, <2>4, <2>5 DEF TypeOK
<1>5. RingExact
  <2>1. Slot(0, 0) = 0
    BY <1>1, SlotFacts
  <2> QED
    BY <1>1, <1>2, <2>1 DEF RingExact
<1>6. WindowExact
  <2>1. Least(0, DeqWidth) = 0
    BY WidthAssumption DEF Least
  <2> QED
    BY <1>2, <2>1 DEF WindowExact
<1> QED
  BY <1>2, <1>3, <1>4, <1>5, <1>6 DEF QueueInv, Queue!Init

\* Batches are short sequences of values.
LEMMA BatchFacts ==
  ASSUME NEW n \in Nat, NEW b \in Batch(n)
  PROVE  b \in Seq(Value) /\ Len(b) <= n /\ Len(b) \in Nat
<1>1. PICK k \in 1 .. n : b \in [1 .. k -> Value]
  BY DEF Batch
<1> QED
  BY <1>1

\* Every step keeps the invariant and is a step of the abstract queue.
LEMMA QueueStep ==
  QueueInv /\ [QueueNext]_queueVars =>
    QueueInv' /\ [Queue!Next]_<<Content, deqBuf, enqBuf, deqPending, clrPending>>
<1> SUFFICES ASSUME QueueInv, [QueueNext]_queueVars
             PROVE  QueueInv' /\ [Queue!Next]_<<Content, deqBuf, enqBuf, deqPending, clrPending>>
  OBVIOUS
<1>0. Len(Content) = size
  BY ContentFacts DEF QueueInv
<1>1. ASSUME NEW b \in Batch(EnqWidth), EnqNext(b)
      PROVE  QueueInv' /\ Queue!Enqueue(b)
  <2>1. /\ enqBuf = <<>> /\ enqBuf' = b /\ Len(b) <= EnqReady
        /\ UNCHANGED <<data, head, tail, size, deqPending, clrPending, deqBuf>>
    BY <1>1 DEF EnqNext
  <2>2. b \in Seq(Value) /\ Len(b) <= EnqWidth /\ Len(b) \in Nat
    BY WidthAssumption, BatchFacts
  <2>3. Len(b) <= Depth - size
    <3>1. Depth \in Nat /\ size \in Nat /\ EnqWidth \in Nat
      BY WidthAssumption DEF QueueInv, TypeOK
    <3> QED
      BY <2>1, <2>2, <3>1 DEF EnqReady, Least
  <2>4. Content' = Content
    BY <2>1 DEF Content
  <2>5. TypeOK'
    BY <2>1, <2>2 DEF QueueInv, TypeOK
  <2>6. RingExact' /\ WindowExact'
    BY <2>1, <2>3, <2>4 DEF QueueInv, RingExact, WindowExact
  <2> QED
    BY <1>0, <2>1, <2>3, <2>4, <2>5, <2>6 DEF QueueInv, Queue!Enqueue
<1>2. ASSUME NEW num \in 1 .. DeqWidth, DeqNext(num)
      PROVE  QueueInv' /\ Queue!Dequeue(num)
  <2>1. /\ deqPending = 0 /\ deqPending' = num /\ num <= Len(deqBuf)
        /\ UNCHANGED <<data, head, tail, size, enqBuf, clrPending, deqBuf>>
    BY <1>2 DEF DeqNext, DeqValid
  <2>2. num <= size
    <3> DEFINE w == Least(size, DeqWidth)
    <3>1. w \in Nat /\ w <= size /\ size \in Nat
      BY WidthAssumption DEF QueueInv, TypeOK, Least
    <3>2. deqBuf = [i \in 1 .. w |-> Content[i]]
      BY DEF QueueInv, WindowExact
    <3> HIDE DEF w
    <3>3. Len(deqBuf) = w
      BY <3>1, <3>2
    <3> QED
      BY <2>1, <3>1, <3>3
  <2>3. Content' = Content
    BY <2>1 DEF Content
  <2>4. TypeOK'
    BY <2>1, WidthAssumption DEF QueueInv, TypeOK
  <2>5. RingExact' /\ WindowExact'
    BY <2>1, <2>2, <2>3 DEF QueueInv, RingExact, WindowExact
  <2> QED
    BY <2>1, <2>3, <2>4, <2>5 DEF QueueInv, Queue!Dequeue
<1>3. CASE ClrNext
  <2>1. /\ clrPending = FALSE /\ clrPending' = TRUE
        /\ UNCHANGED <<data, head, tail, size, enqBuf, deqPending, deqBuf>>
    BY <1>3 DEF ClrNext, QueueInv, TypeOK
  <2>2. Content' = Content
    BY <2>1 DEF Content
  <2>3. QueueInv'
    BY <2>1, <2>2 DEF QueueInv, TypeOK, RingExact, WindowExact
  <2> QED
    BY <2>1, <2>2, <2>3 DEF Queue!Next, Queue!Clear
<1>4. CASE ApplyNextTick
  <2>1. QueueInv'
    BY <1>4, CommitContent, CommitWindow DEF QueueInv
  <2>2. Queue!Commit
    <3>1. Content' = IF clrPending THEN <<>>
                     ELSE SubSeq(Content, deqPending + 1, Len(Content)) \o enqBuf
      BY <1>4, CommitContent
    <3>2. <<>> \o <<>> = <<>>
      OBVIOUS
    <3>3. Content' = Queue!Left \o Queue!Entering
      BY <3>1, <3>2 DEF Queue!Left, Queue!Entering
    <3> QED
      BY <1>4, <3>3, CommitContent, CommitWindow
      DEF Queue!Commit, Queue!Prefix, Queue!Least, Least
  <2> QED
    BY <2>1, <2>2 DEF Queue!Next
<1>5. CASE UNCHANGED queueVars
  <2>1. UNCHANGED <<data, head, tail, size, enqBuf, deqPending, clrPending, deqBuf>>
    BY <1>5 DEF queueVars
  <2>2. Content' = Content
    BY <2>1 DEF Content
  <2> QED
    BY <2>1, <2>2 DEF QueueInv, TypeOK, RingExact, WindowExact
<1>6. \A n : Batch(n) = Queue!Batch(n)
  BY DEF Batch, Queue!Batch
<1> QED
  BY <1>1, <1>2, <1>3, <1>4, <1>5, <1>6 DEF QueueNext, Queue!Next

\* The ring's pointers always agree with its size, and no accepted request is
\* ever cut off (lines 184, 195).
THEOREM RingIsExact == QueueSpec => []RingExact
<1>1. QueueInv => RingExact
  BY DEF QueueInv
<1> QED
  BY <1>1, QueueInitInv, QueueStep, PTL DEF QueueSpec

\* The cached window (lines 215-222) is never stale.
THEOREM WindowIsExact == QueueSpec => []WindowExact
<1>1. QueueInv => WindowExact
  BY DEF QueueInv
<1> QED
  BY <1>1, QueueInitInv, QueueStep, PTL DEF QueueSpec

\* The ring buffer implements a first-in first-out queue whose clear drops
\* the values accepted in the same cycle.
THEOREM RingImplementsFifo == QueueSpec => ImplementsFifo
<1> QED
  BY QueueInitInv, QueueStep, PTL DEF QueueSpec, ImplementsFifo, Queue!Spec

-----------------------------------------------------------------------------
(* The register arrays.                                                    *)

\* The ports that wrote register i in this cycle, and the lowest of them.
Offered(i) == { p \in WritePort : offers[i][p] # NoOffer }
Wins(i, p) == p \in Offered(i) /\ \A q \in Offered(i) : p <= q

\* A call of setnext as the history has it.
Offers(i, p, v) == offers' = [offers EXCEPT ![i][p] = v]

RegTypeOK ==
  /\ offers \in [Reg -> [WritePort -> Word \cup {NoOffer}]]
  /\ fullData \in [Reg -> Word] /\ fullNext \in [Reg -> Word]
  /\ pendingPort \in [Reg -> 0 .. WRPortNum] /\ issued \in [Reg -> SUBSET WritePort]
  /\ curr \in [Reg -> Word] /\ slotValue \in [Reg -> Word]
  /\ bestPrio \in [Reg -> 0 .. WRPortNum] /\ issuedPorts \in [Reg -> SUBSET WritePort]
  /\ hasWrite \in [Reg -> BOOLEAN] /\ dirtyFlags \in [Reg -> BOOLEAN]
  /\ dirtyIndices \in Seq(Reg)

\* The full array keeps the offer of the lowest port as its next value.
FullInv ==
  \A i \in Reg :
    /\ issued[i] = Offered(i)
    /\ pendingPort[i] = WRPortNum => Offered(i) = {} /\ fullNext[i] = fullData[i]
    /\ pendingPort[i] # WRPortNum =>
         Wins(i, pendingPort[i]) /\ fullNext[i] = offers[i][pendingPort[i]]

\* So does the slot of a register in the dirty array.
DirtyInv ==
  \A i \in Reg :
    /\ issuedPorts[i] = Offered(i)
    /\ ~ hasWrite[i] => Offered(i) = {}
    /\ hasWrite[i] => Wins(i, bestPrio[i]) /\ slotValue[i] = offers[i][bestPrio[i]]

RegInv == RegTypeOK /\ FullInv /\ DirtyInv /\ DirtyListExact

-----------------------------------------------------------------------------
\* Without offers nothing is offered.
LEMMA SilentOffers ==
  ASSUME NEW o, o = Silent, NEW i \in Reg
  PROVE  { p \in WritePort : o[i][p] # NoOffer } = {}
BY DEF Silent, All

\* A port that has not written this cycle writes: it is among those that did,
\* and wins if it is below the one that won so far.
LEMMA OfferOne ==
  ASSUME RegTypeOK, NEW i \in Reg, NEW p \in WritePort, NEW v \in Word,
         Offers(i, p, v)
  PROVE  /\ offers' \in [Reg -> [WritePort -> Word \cup {NoOffer}]]
         /\ Offered(i)' = Offered(i) \cup {p}
         /\ offers'[i][p] = v
         /\ \A q \in Offered(i) : q # p => offers'[i][q] = offers[i][q]
         /\ \A j \in Reg : j # i => offers'[j] = offers[j] /\ Offered(j)' = Offered(j)
<1>1. offers'[i] = [offers[i] EXCEPT ![p] = v] /\ \A j \in Reg : j # i => offers'[j] = offers[j]
  BY DEF RegTypeOK, Offers
<1>2. /\ offers'[i][p] = v
      /\ \A q \in WritePort : q # p => offers'[i][q] = offers[i][q]
  BY <1>1 DEF RegTypeOK
<1>3. v # NoOffer
  BY ValueAssumption
<1>4. Offered(i)' = Offered(i) \cup {p}
  BY <1>2, <1>3 DEF Offered
<1>5. \A j \in Reg : j # i => Offered(j)' = Offered(j)
  BY <1>1 DEF Offered
<1>6. offers' \in [Reg -> [WritePort -> Word \cup {NoOffer}]]
  BY DEF RegTypeOK, Offers
<1> QED
  BY <1>1, <1>2, <1>4, <1>5, <1>6 DEF Offered

\* The invariant holds in new arrays (storage.hpp:202-210).
LEMMA InitInv == RegInit => RegInv
<1> SUFFICES ASSUME RegInit PROVE RegInv
  OBVIOUS
<1>1. \A i \in Reg : Offered(i) = {}
  BY SilentOffers DEF RegInit, Offered
<1>2. RegTypeOK
  BY PortAssumption, ValueAssumption DEF RegInit, RegTypeOK, All, Silent, WritePort
<1>3. FullInv
  BY <1>1 DEF RegInit, FullInv, All
<1>4. DirtyInv
  BY <1>1 DEF RegInit, DirtyInv, All
<1>5. DirtyListExact
  <2>1. Len(dirtyIndices) = 0 /\ \A i \in Reg : Listed(i) = FALSE
    BY DEF RegInit, Listed
  <2>2. \A i \in Reg : dirtyFlags[i] = FALSE /\ hasWrite[i] = FALSE /\ issuedPorts[i] = {}
    BY DEF RegInit, All
  <2>3. \A k, m \in 1 .. Len(dirtyIndices) : FALSE
    BY <2>1
  <2> QED
    BY <2>1, <2>2, <2>3 DEF DirtyListExact
<1> QED
  BY <1>2, <1>3, <1>4, <1>5 DEF RegInv

-----------------------------------------------------------------------------
(* A write.                                                                *)

\* A write keeps the pending value that of the lowest port so far (lines 39 to 49).
LEMMA SetNextFull ==
  ASSUME RegInv, NEW i \in Reg, NEW p \in WritePort, NEW v \in Word,
         FullSetNext(i, p, v), Offers(i, p, v)
  PROVE  /\ FullInv'
         /\ fullData' \in [Reg -> Word] /\ fullNext' \in [Reg -> Word]
         /\ pendingPort' \in [Reg -> 0 .. WRPortNum] /\ issued' \in [Reg -> SUBSET WritePort]
<1>r. RegTypeOK /\ FullInv /\ DirtyInv
  BY DEF RegInv
<1> USE <1>r
<1>1. /\ Offered(i)' = Offered(i) \cup {p}
      /\ offers'[i][p] = v
      /\ \A q \in Offered(i) : q # p => offers'[i][q] = offers[i][q]
      /\ \A j \in Reg : j # i => offers'[j] = offers[j] /\ Offered(j)' = Offered(j)
  BY OfferOne
<1>2. /\ p \in Int /\ p < WRPortNum /\ p \in 0 .. WRPortNum /\ WRPortNum \in Nat
      /\ pendingPort[i] \in Int /\ \A q \in WritePort : q \in Int
  BY PortAssumption DEF WritePort, RegTypeOK
<1>3. issued'[i] = Offered(i)' /\ issued' \in [Reg -> SUBSET WritePort]
      /\ \A j \in Reg : j # i => issued'[j] = issued[j]
  BY <1>1 DEF FullSetNext, FullInv, RegTypeOK
<1>4. fullData' = fullData
  BY DEF FullSetNext
<1>5. CASE p < pendingPort[i]
  <2>1. /\ fullNext'[i] = v /\ pendingPort'[i] = p
        /\ \A j \in Reg : j # i => fullNext'[j] = fullNext[j] /\ pendingPort'[j] = pendingPort[j]
        /\ fullNext' \in [Reg -> Word] /\ pendingPort' \in [Reg -> 0 .. WRPortNum]
    <3>1. fullNext \in [Reg -> Word] /\ pendingPort \in [Reg -> 0 .. WRPortNum]
      BY DEF RegTypeOK
    <3>2. /\ fullNext' = [fullNext EXCEPT ![i] = v]
          /\ pendingPort' = [pendingPort EXCEPT ![i] = p]
      BY <1>2, <1>5 DEF FullSetNext
    <3> QED
      BY <1>2, <3>1, <3>2
  <2>2. \A q \in Offered(i) : p <= q
    <3>1. CASE pendingPort[i] = WRPortNum
      BY <3>1 DEF FullInv
    <3>2. CASE pendingPort[i] # WRPortNum
      <4>1. \A q \in Offered(i) : pendingPort[i] <= q /\ q \in Int
        BY <3>2, <1>2 DEF FullInv, Wins, Offered
      <4> QED
        BY <4>1, <1>2, <1>5
    <3> QED
      BY <3>1, <3>2
  <2>3. Wins(i, p)'
    BY <2>2, <1>1, <1>2 DEF Wins
  <2>4. \A j \in Reg : j # i => \A q : Wins(j, q)' <=> Wins(j, q)
    BY <1>1 DEF Wins
  <2>5. ASSUME NEW j \in Reg
        PROVE  /\ issued'[j] = Offered(j)'
               /\ pendingPort'[j] = WRPortNum => Offered(j)' = {} /\ fullNext'[j] = fullData'[j]
               /\ pendingPort'[j] # WRPortNum =>
                    Wins(j, pendingPort[j])' /\ fullNext'[j] = offers'[j][pendingPort'[j]]
    <3>1. CASE j = i
      BY <3>1, <2>1, <2>3, <1>1, <1>2, <1>3
    <3>2. CASE j # i
      BY <3>2, <2>1, <2>4, <1>1, <1>3, <1>4 DEF FullInv
    <3> QED
      BY <3>1, <3>2
  <2> QED
    BY <2>1, <2>5, <1>3, <1>4 DEF FullInv, RegTypeOK
<1>6. CASE ~ p < pendingPort[i]
  <2>1. fullNext' = fullNext /\ pendingPort' = pendingPort
    BY <1>6 DEF FullSetNext
  <2>2. pendingPort[i] # WRPortNum
    BY <1>2, <1>6
  <2>3. Wins(i, pendingPort[i])' /\ fullNext'[i] = offers'[i][pendingPort'[i]]
    <3>1. pendingPort[i] \in Offered(i) /\ p \notin Offered(i)
          /\ \A q \in Offered(i) : pendingPort[i] <= q
      BY <2>2 DEF FullInv, Wins, FullSetNext
    <3>2. \A q \in Offered(i)' : pendingPort[i] <= q
      BY <3>1, <1>1, <1>2, <1>6
    <3> QED
      BY <3>1, <3>2, <2>1, <2>2, <1>1 DEF Wins, FullInv
  <2>4. \A j \in Reg : j # i => \A q : Wins(j, q)' <=> Wins(j, q)
    BY <1>1 DEF Wins
  <2>5. ASSUME NEW j \in Reg
        PROVE  /\ issued'[j] = Offered(j)'
               /\ pendingPort'[j] = WRPortNum => Offered(j)' = {} /\ fullNext'[j] = fullData'[j]
               /\ pendingPort'[j] # WRPortNum =>
                    Wins(j, pendingPort[j])' /\ fullNext'[j] = offers'[j][pendingPort'[j]]
    <3>1. CASE j = i
      BY <3>1, <2>1, <2>2, <2>3, <1>3
    <3>2. CASE j # i
      BY <3>2, <2>1, <2>4, <1>1, <1>3, <1>4 DEF FullInv
    <3> QED
      BY <3>1, <3>2
  <2> QED
    BY <2>1, <2>5, <1>3, <1>4 DEF FullInv, RegTypeOK
<1> QED
  BY <1>5, <1>6

\* A write keeps list, flags and pending writes in agreement (lines 212 to 229).
LEMMA SetNextDirty ==
  ASSUME RegInv, NEW i \in Reg, NEW p \in WritePort, NEW v \in Word,
         DirtySetNext(i, p, v), Offers(i, p, v)
  PROVE  /\ DirtyInv'
         /\ curr' \in [Reg -> Word] /\ slotValue' \in [Reg -> Word]
         /\ bestPrio' \in [Reg -> 0 .. WRPortNum] /\ issuedPorts' \in [Reg -> SUBSET WritePort]
         /\ hasWrite' \in [Reg -> BOOLEAN]
<1>r. RegTypeOK /\ FullInv /\ DirtyInv
  BY DEF RegInv
<1> USE <1>r
<1>1. /\ Offered(i)' = Offered(i) \cup {p}
      /\ offers'[i][p] = v
      /\ \A q \in Offered(i) : q # p => offers'[i][q] = offers[i][q]
      /\ \A j \in Reg : j # i => offers'[j] = offers[j] /\ Offered(j)' = Offered(j)
  BY OfferOne
<1>2. /\ p \in Int /\ p \in 0 .. WRPortNum
      /\ bestPrio[i] \in Int /\ \A q \in WritePort : q \in Int
  BY PortAssumption DEF WritePort, RegTypeOK
<1>3. issuedPorts'[i] = Offered(i)' /\ issuedPorts' \in [Reg -> SUBSET WritePort]
      /\ \A j \in Reg : j # i => issuedPorts'[j] = issuedPorts[j]
  BY <1>1 DEF DirtySetNext, DirtyInv, RegTypeOK
<1>4. curr' = curr
  BY DEF DirtySetNext
<1>w. \A j \in Reg : j # i => \A q : Wins(j, q)' <=> Wins(j, q)
  BY <1>1 DEF Wins
<1>5. CASE ~ hasWrite[i] \/ p < bestPrio[i]
  <2>1. /\ slotValue'[i] = v /\ bestPrio'[i] = p /\ hasWrite'[i] = TRUE
        /\ \A j \in Reg : j # i => /\ slotValue'[j] = slotValue[j] /\ bestPrio'[j] = bestPrio[j]
                                   /\ hasWrite'[j] = hasWrite[j]
        /\ slotValue' \in [Reg -> Word] /\ bestPrio' \in [Reg -> 0 .. WRPortNum]
        /\ hasWrite' \in [Reg -> BOOLEAN]
    <3>1. /\ slotValue' = [slotValue EXCEPT ![i] = v] /\ bestPrio' = [bestPrio EXCEPT ![i] = p]
          /\ hasWrite' = [hasWrite EXCEPT ![i] = TRUE]
      BY <1>5 DEF DirtySetNext
    <3>2. /\ hasWrite'[i] = TRUE /\ \A j \in Reg : j # i => hasWrite'[j] = hasWrite[j]
          /\ hasWrite' \in [Reg -> BOOLEAN]
      BY <3>1, Zenon DEF RegTypeOK
    <3> QED
      BY <1>2, <3>1, <3>2 DEF RegTypeOK
  <2>2. \A q \in Offered(i) : p <= q
    <3>1. CASE ~ hasWrite[i]
      BY <3>1 DEF DirtyInv
    <3>2. CASE hasWrite[i]
      <4>1. \A q \in Offered(i) : bestPrio[i] <= q /\ q \in Int
        BY <3>2, <1>2 DEF DirtyInv, Wins, Offered
      <4> QED
        BY <4>1, <3>2, <1>2, <1>5
    <3> QED
      BY <3>1, <3>2
  <2>3. Wins(i, p)'
    BY <2>2, <1>1, <1>2 DEF Wins
  <2>4. ASSUME NEW j \in Reg
        PROVE  /\ issuedPorts'[j] = Offered(j)'
               /\ ~ hasWrite'[j] => Offered(j)' = {}
               /\ hasWrite'[j] => Wins(j, bestPrio[j])' /\ slotValue'[j] = offers'[j][bestPrio'[j]]
    <3>1. CASE j = i
      BY <3>1, <2>1, <2>3, <1>1, <1>3
    <3>2. CASE j # i
      BY <3>2, <2>1, <1>w, <1>1, <1>3 DEF DirtyInv
    <3> QED
      BY <3>1, <3>2
  <2> QED
    BY <2>1, <2>4, <1>3, <1>4 DEF DirtyInv, RegTypeOK
<1>6. CASE ~ (~ hasWrite[i] \/ p < bestPrio[i])
  <2>1. slotValue' = slotValue /\ bestPrio' = bestPrio /\ hasWrite' = hasWrite /\ hasWrite[i]
    BY <1>6 DEF DirtySetNext
  <2>2. Wins(i, bestPrio[i])' /\ slotValue'[i] = offers'[i][bestPrio'[i]]
    <3>1. bestPrio[i] \in Offered(i) /\ p \notin Offered(i)
          /\ \A q \in Offered(i) : bestPrio[i] <= q
      BY <2>1 DEF DirtyInv, Wins, DirtySetNext
    <3>2. \A q \in Offered(i)' : bestPrio[i] <= q
      BY <3>1, <1>1, <1>2, <1>6
    <3> QED
      BY <3>1, <3>2, <2>1, <1>1 DEF Wins, DirtyInv
  <2>3. ASSUME NEW j \in Reg
        PROVE  /\ issuedPorts'[j] = Offered(j)'
               /\ ~ hasWrite'[j] => Offered(j)' = {}
               /\ hasWrite'[j] => Wins(j, bestPrio[j])' /\ slotValue'[j] = offers'[j][bestPrio'[j]]
    <3>1. CASE j = i
      BY <3>1, <2>1, <2>2, <1>3
    <3>2. CASE j # i
      BY <3>2, <2>1, <1>w, <1>1, <1>3 DEF DirtyInv
    <3> QED
      BY <3>1, <3>2
  <2> QED
    BY <2>1, <2>3, <1>3, <1>4 DEF DirtyInv, RegTypeOK
<1> QED
  BY <1>5, <1>6

\* The first write of a register in a cycle lists it, a later one finds it
\* listed.
LEMMA SetNextList ==
  ASSUME RegInv, NEW i \in Reg, NEW p \in WritePort, NEW v \in Word, DirtySetNext(i, p, v)
  PROVE  DirtyListExact' /\ dirtyIndices' \in Seq(Reg) /\ dirtyFlags' \in [Reg -> BOOLEAN]
<1>r. RegTypeOK /\ DirtyListExact /\ DirtyInv
  BY DEF RegInv
<1> USE <1>r
<1> DEFINE n == Len(dirtyIndices)
<1>1. n \in Nat /\ \A k \in 1 .. n : dirtyIndices[k] \in Reg
  BY DEF RegTypeOK
<1>2. /\ issuedPorts'[i] # {}
      /\ \A j \in Reg : j # i => issuedPorts'[j] = issuedPorts[j]
  BY DEF DirtySetNext, RegTypeOK
<1>3. CASE dirtyFlags[i]
  <2>1. Listed(i) /\ hasWrite[i]
    BY <1>3 DEF DirtyListExact
  <2>2. dirtyIndices' = dirtyIndices /\ dirtyFlags' = dirtyFlags /\ hasWrite' = hasWrite
    <3>1. CASE p < bestPrio[i]
      <4>1. /\ dirtyIndices' = dirtyIndices /\ dirtyFlags' = [dirtyFlags EXCEPT ![i] = TRUE]
            /\ hasWrite' = [hasWrite EXCEPT ![i] = TRUE]
        BY <3>1, <1>3 DEF DirtySetNext
      <4>2. dirtyFlags[i] = TRUE /\ hasWrite[i] = TRUE
        BY <1>3, <2>1 DEF RegTypeOK
      <4> QED
        BY <4>1, <4>2 DEF RegTypeOK
    <3>2. CASE ~ p < bestPrio[i]
      BY <3>2, <2>1 DEF DirtySetNext
    <3> QED
      BY <3>1, <3>2
  <2>3. \A j \in Reg : Listed(j)' = Listed(j)
    BY <2>2 DEF Listed
  <2>4. ASSUME NEW j \in Reg PROVE (issuedPorts'[j] # {}) = Listed(j)
    <3>1. CASE j = i
      BY <3>1, <1>2, <2>1 DEF Listed
    <3>2. CASE j # i
      BY <3>2, <1>2 DEF DirtyListExact
    <3> QED
      BY <3>1, <3>2
  <2> QED
    BY <2>2, <2>3, <2>4 DEF DirtyListExact, RegTypeOK
<1>4. CASE ~ dirtyFlags[i]
  <2>1. ~ Listed(i) /\ ~ hasWrite[i]
    BY <1>4 DEF DirtyListExact
  <2>2. /\ dirtyIndices' = Append(dirtyIndices, i)
        /\ dirtyFlags' = [dirtyFlags EXCEPT ![i] = TRUE] /\ hasWrite' = [hasWrite EXCEPT ![i] = TRUE]
    BY <1>4, <2>1 DEF DirtySetNext
  <2>3. /\ Len(dirtyIndices') = n + 1 /\ dirtyIndices'[n + 1] = i
        /\ \A k \in 1 .. n : dirtyIndices'[k] = dirtyIndices[k]
        /\ dirtyIndices' \in Seq(Reg)
    BY <2>2 DEF RegTypeOK
  <2>4. Listed(i)'
    BY <2>3, <1>1 DEF Listed
  <2>5. ASSUME NEW j \in Reg, j # i PROVE Listed(j)' <=> Listed(j)
    BY <2>3, <2>5, <1>1 DEF Listed
  <2>6. /\ dirtyFlags'[i] = TRUE /\ hasWrite'[i] = TRUE
        /\ dirtyFlags' \in [Reg -> BOOLEAN]
        /\ \A j \in Reg : j # i => dirtyFlags'[j] = dirtyFlags[j] /\ hasWrite'[j] = hasWrite[j]
    BY <2>2, Zenon DEF RegTypeOK
  <2>7. ASSUME NEW j \in Reg
        PROVE  /\ dirtyFlags'[j] = Listed(j)'
               /\ hasWrite'[j] = Listed(j)'
               /\ (issuedPorts'[j] # {}) = Listed(j)'
    <3>1. CASE j = i
      <4>1. Listed(j)' = TRUE
        BY <3>1, <2>4 DEF Listed
      <4> QED
        BY <3>1, <4>1, <2>6, <1>2
    <3>2. CASE j # i
      <4>1. Listed(j)' = Listed(j)
        BY <3>2, <2>5 DEF Listed
      <4>2. dirtyFlags'[j] = Listed(j) /\ hasWrite'[j] = Listed(j)
        BY <3>2, <2>6, Zenon DEF DirtyListExact
      <4> QED
        BY <3>2, <4>1, <4>2, <1>2 DEF DirtyListExact
    <3> QED
      BY <3>1, <3>2
  <2>8. \A k \in 1 .. n : dirtyIndices[k] # i
    BY <2>1 DEF Listed
  <2>9. ASSUME NEW k \in 1 .. n + 1, NEW m \in 1 .. n + 1, dirtyIndices'[k] = dirtyIndices'[m]
        PROVE  k = m
    <3>1. (k \in 1 .. n \/ k = n + 1) /\ (m \in 1 .. n \/ m = n + 1)
      BY <1>1
    <3> QED
      BY <3>1, <2>9, <2>3, <2>8 DEF DirtyListExact
  <2>10. \A k, m \in 1 .. Len(dirtyIndices') : dirtyIndices'[k] = dirtyIndices'[m] => k = m
    BY <2>9, <2>3
  <2> QED
    BY <2>3, <2>6, <2>7, <2>10 DEF DirtyListExact
<1> QED
  BY <1>3, <1>4

\* A write keeps the invariant of both arrays.
LEMMA SetNextInv ==
  ASSUME RegInv, NEW i \in Reg, NEW p \in WritePort, NEW v \in Word, RegSetNext(i, p, v)
  PROVE  RegInv'
<1>1. FullSetNext(i, p, v) /\ DirtySetNext(i, p, v) /\ Offers(i, p, v)
  BY DEF RegSetNext, Offers
<1>2. offers' \in [Reg -> [WritePort -> Word \cup {NoOffer}]]
  BY <1>1, OfferOne DEF RegInv
<1>3. RegTypeOK' /\ FullInv' /\ DirtyInv' /\ DirtyListExact'
  BY <1>1, <1>2, SetNextFull, SetNextDirty, SetNextList DEF RegTypeOK
<1> QED
  BY <1>3 DEF RegInv

-----------------------------------------------------------------------------
(* The tick and the reset.                                                 *)

\* The tick empties the list, and no flag stays up.
LEMMA TickInv == ASSUME RegInv, RegTick PROVE RegInv'
<1>r. RegTypeOK /\ DirtyListExact
  BY DEF RegInv
<1> USE <1>r
<1>1. \A i \in Reg : Offered(i)' = {}
  BY SilentOffers DEF RegTick, Offered
<1>2. /\ fullData' = fullNext /\ fullNext' = fullNext
      /\ pendingPort' = All(WRPortNum) /\ issued' = All({})
  BY DEF RegTick, FullTick
<1>3. FullInv'
  BY <1>1, <1>2 DEF FullInv, All
<1>4. /\ \A i \in Reg : ~ hasWrite'[i] /\ hasWrite'[i] = FALSE
      /\ \A i \in Reg : ~ dirtyFlags'[i] /\ dirtyFlags'[i] = FALSE
      /\ hasWrite' \in [Reg -> BOOLEAN] /\ dirtyFlags' \in [Reg -> BOOLEAN]
  <2>1. /\ hasWrite' = [i \in Reg |-> hasWrite[i] /\ ~ Listed(i)]
        /\ dirtyFlags' = [i \in Reg |-> dirtyFlags[i] /\ ~ Listed(i)]
    BY DEF RegTick, DirtyTick
  <2>2. \A i \in Reg : hasWrite[i] = Listed(i) /\ dirtyFlags[i] = Listed(i)
    BY DEF DirtyListExact
  <2> QED
    BY <2>1, <2>2, Zenon
<1>5. /\ \A i \in Reg : issuedPorts'[i] = {}
      /\ issuedPorts' \in [Reg -> SUBSET WritePort]
  <2>1. issuedPorts' = [i \in Reg |-> IF Listed(i) THEN {} ELSE issuedPorts[i]]
    BY DEF RegTick, DirtyTick
  <2>2. \A i \in Reg : ~ Listed(i) => issuedPorts[i] = {}
    BY DEF DirtyListExact
  <2> QED
    BY <2>1, <2>2
<1>6. DirtyInv'
  BY <1>1, <1>4, <1>5 DEF DirtyInv
<1>7. dirtyIndices' = <<>>
  BY DEF RegTick, DirtyTick
<1>8. DirtyListExact'
  <2>1. Len(dirtyIndices') = 0 /\ \A i \in Reg : Listed(i)' = FALSE
    BY <1>7 DEF Listed
  <2>2. \A k, m \in 1 .. Len(dirtyIndices') : FALSE
    BY <2>1
  <2> QED
    BY <2>1, <2>2, <1>4, <1>5 DEF DirtyListExact
<1>9. /\ curr' \in [Reg -> Word] /\ slotValue' \in [Reg -> Word]
      /\ bestPrio' \in [Reg -> 0 .. WRPortNum]
  BY PortAssumption DEF RegTick, DirtyTick, RegTypeOK
<1>10. offers' \in [Reg -> [WritePort -> Word \cup {NoOffer}]]
  BY DEF RegTick, Silent, All
<1>11. RegTypeOK'
  BY <1>2, <1>4, <1>5, <1>7, <1>9, <1>10, PortAssumption DEF RegTypeOK, All
<1> QED
  BY <1>3, <1>6, <1>8, <1>11 DEF RegInv

\* A reset in the middle of a cycle leaves nothing pending (lines 245 to 268).
LEMMA ResetInv == ASSUME NEW values \in [Reg -> Word], RegReset(values) PROVE RegInv'
<1>1. \A i \in Reg : Offered(i)' = {}
  BY SilentOffers DEF RegReset, Offered
<1>2. RegTypeOK'
  BY PortAssumption DEF RegReset, FullReset, DirtyReset, RegTypeOK, All, Silent
<1>3. FullInv'
  BY <1>1 DEF RegReset, FullReset, FullInv, All
<1>4. DirtyInv'
  BY <1>1 DEF RegReset, DirtyReset, DirtyInv, All
<1>5. DirtyListExact'
  <2>1. Len(dirtyIndices') = 0 /\ \A i \in Reg : Listed(i)' = FALSE
    BY DEF RegReset, DirtyReset, Listed
  <2>2. \A i \in Reg : dirtyFlags'[i] = FALSE /\ hasWrite'[i] = FALSE /\ issuedPorts'[i] = {}
    BY DEF RegReset, DirtyReset, All
  <2>3. \A k, m \in 1 .. Len(dirtyIndices') : FALSE
    BY <2>1
  <2> QED
    BY <2>1, <2>2, <2>3 DEF DirtyListExact
<1> QED
  BY <1>2, <1>3, <1>4, <1>5 DEF RegInv

\* Every step keeps the invariant.
LEMMA StepInv == RegInv /\ [RegNext]_regVars => RegInv'
<1> SUFFICES ASSUME RegInv, [RegNext]_regVars PROVE RegInv'
  OBVIOUS
<1>1. CASE RegNext
  BY <1>1, SetNextInv, TickInv, ResetInv DEF RegNext
<1>2. CASE UNCHANGED regVars
  <2>1. /\ fullData' = fullData /\ fullNext' = fullNext /\ pendingPort' = pendingPort
        /\ issued' = issued /\ curr' = curr /\ slotValue' = slotValue /\ bestPrio' = bestPrio
        /\ hasWrite' = hasWrite /\ issuedPorts' = issuedPorts /\ dirtyIndices' = dirtyIndices
        /\ dirtyFlags' = dirtyFlags /\ offers' = offers
    BY <1>2 DEF regVars, fullVars, dirtyVars
  <2>2. \A i \in Reg : /\ Offered(i)' = Offered(i) /\ Listed(i)' = Listed(i)
                       /\ \A p : Wins(i, p)' = Wins(i, p)
    BY <2>1 DEF Offered, Listed, Wins
  <2>3. RegTypeOK' /\ FullInv'
    BY <2>1, <2>2 DEF RegInv, RegTypeOK, FullInv
  <2>4. DirtyInv'
    BY <2>1, <2>2 DEF RegInv, DirtyInv
  <2>5. DirtyListExact'
    BY <2>1, <2>2 DEF RegInv, DirtyListExact
  <2> QED
    BY <2>3, <2>4, <2>5 DEF RegInv
<1> QED
  BY <1>1, <1>2

\* In both arrays what is pending is what the lowest port that wrote in this
\* cycle has written, and the list is exact (storage.hpp:39-269).
THEOREM RegInvariant == RegSpec => []RegInv
BY InitInv, StepInv, PTL DEF RegSpec

\* The list of written registers is exact, so that the tick visits whatever
\* was written and nothing twice (storage.hpp:206-242).
THEOREM ListIsExact == RegSpec => []DirtyListExact
<1>1. RegInv => DirtyListExact
  BY DEF RegInv
<1> QED
  BY <1>1, RegInvariant, PTL

-----------------------------------------------------------------------------
(* Refinement.                                                             *)

\* The port that wins is the one the abstract array chooses.
LEMMA Winner ==
  ASSUME RegTypeOK, NEW i \in Reg, NEW p, Wins(i, p)
  PROVE  /\ \E q \in Full!Port : Full!Wins(offers[i], q)
         /\ (CHOOSE q \in Full!Port : Full!Wins(offers[i], q)) = p
<1>1. p \in WritePort /\ Full!Port = WritePort /\ \A q \in WritePort : q \in Int
  BY PortAssumption DEF Wins, Offered, WritePort, Full!Port
<1>2. Full!Wins(offers[i], p)
  <2>1. ASSUME NEW q \in 0 .. p - 1 PROVE offers[i][q] = NoOffer
    <3>1. q \in WritePort /\ ~ p <= q
      BY <1>1, PortAssumption DEF WritePort
    <3> QED
      BY <3>1 DEF Wins, Offered
  <2> QED
    BY <2>1 DEF Full!Wins, Wins, Offered
<1>3. ASSUME NEW q \in WritePort, Full!Wins(offers[i], q) PROVE q = p
  <2>1. p <= q
    BY <1>3 DEF Full!Wins, Wins, Offered
  <2>2. ~ p < q
    <3>1. p < q => p \in 0 .. q - 1
      BY <1>1, PortAssumption DEF WritePort
    <3> QED
      BY <3>1, <1>3 DEF Full!Wins, Wins, Offered
  <2> QED
    BY <2>1, <2>2, <1>1
<1> QED
  BY <1>1, <1>2, <1>3

\* Where nothing is offered nothing wins.
LEMMA NoWinner ==
  ASSUME NEW i \in Reg, Offered(i) = {}
  PROVE  ~ \E q \in Full!Port : Full!Wins(offers[i], q)
BY DEF Offered, WritePort, Full!Port, Full!Wins

\* What the tick of the abstract array makes of a register.
AfterRegTick(v, i) ==
  IF \E q \in Full!Port : Full!Wins(offers[i], q)
  THEN offers[i][CHOOSE q \in Full!Port : Full!Wins(offers[i], q)]
  ELSE v

\* Every step of the array that commits all registers is one of the abstract array.
LEMMA FullStep == RegInv /\ RegNext => Full!Next
<1> SUFFICES ASSUME RegInv, RegNext PROVE Full!Next
  OBVIOUS
<1>r. RegTypeOK /\ FullInv
  BY DEF RegInv
<1> USE <1>r
<1>1. ASSUME NEW i \in Reg, NEW p \in WritePort, NEW v \in Word, RegSetNext(i, p, v)
      PROVE  Full!Next
  <2>1. offers[i][p] = NoOffer
    BY <1>1 DEF RegSetNext, FullSetNext, FullInv, Offered
  <2>2. Full!SetNext(i, p, v)
    BY <1>1, <2>1 DEF RegSetNext, FullSetNext, Full!SetNext
  <2> QED
    BY <2>2 DEF Full!Next, Full!Port, WritePort
<1>2. CASE RegTick
  <2>1. ASSUME NEW i \in Reg PROVE fullNext[i] = AfterRegTick(fullData[i], i)
    <3>1. CASE pendingPort[i] = WRPortNum
      BY <3>1, NoWinner DEF FullInv, AfterRegTick
    <3>2. CASE pendingPort[i] # WRPortNum
      <4>1. Wins(i, pendingPort[i]) /\ fullNext[i] = offers[i][pendingPort[i]]
        BY <3>2 DEF FullInv
      <4> QED
        BY <4>1, Winner DEF AfterRegTick
    <3> QED
      BY <3>1, <3>2
  <2>2. fullData' = [i \in Reg |-> AfterRegTick(fullData[i], i)]
    BY <1>2, <2>1 DEF RegTick, FullTick, RegTypeOK
  <2>3. offers' = Full!Silent /\ resetTo' = <<>>
    BY <1>2 DEF RegTick, Silent, All, Full!Silent, Full!Port, WritePort
  <2> QED
    BY <2>2, <2>3 DEF Full!Next, Full!Tick, AfterRegTick
<1>3. ASSUME NEW values \in [Reg -> Word], RegReset(values) PROVE Full!Next
  BY <1>3 DEF RegReset, FullReset, Silent, All, WritePort,
     Full!Next, Full!Reset, Full!Silent, Full!Port
<1> QED
  BY <1>1, <1>2, <1>3 DEF RegNext

\* Every step of the array that commits the listed registers is one, too.
LEMMA DirtyStep == RegInv /\ RegNext => Dirty!Next
<1> SUFFICES ASSUME RegInv, RegNext PROVE Dirty!Next
  OBVIOUS
<1>r. RegTypeOK /\ DirtyInv /\ DirtyListExact
  BY DEF RegInv
<1> USE <1>r
<1>1. ASSUME NEW i \in Reg, NEW p \in WritePort, NEW v \in Word, RegSetNext(i, p, v)
      PROVE  Dirty!Next
  <2>1. offers[i][p] = NoOffer
    BY <1>1 DEF RegSetNext, DirtySetNext, DirtyInv, Offered
  <2>2. Dirty!SetNext(i, p, v)
    BY <1>1, <2>1 DEF RegSetNext, DirtySetNext, Dirty!SetNext
  <2> QED
    BY <2>2 DEF Dirty!Next, Dirty!Port, WritePort
<1>2. CASE RegTick
  <2>1. ASSUME NEW i \in Reg
        PROVE  (IF Listed(i) THEN slotValue[i] ELSE curr[i]) = AfterRegTick(curr[i], i)
    <3>1. CASE ~ Listed(i)
      <4>1. ~ hasWrite[i]
        BY <3>1 DEF DirtyListExact
      <4>2. Offered(i) = {}
        BY <4>1 DEF DirtyInv
      <4> QED
        BY <3>1, <4>2, NoWinner DEF AfterRegTick
    <3>2. CASE Listed(i)
      <4>1. hasWrite[i]
        BY <3>2 DEF DirtyListExact
      <4>2. Wins(i, bestPrio[i]) /\ slotValue[i] = offers[i][bestPrio[i]]
        BY <4>1 DEF DirtyInv
      <4> QED
        BY <3>2, <4>2, Winner DEF AfterRegTick
    <3> QED
      BY <3>1, <3>2
  <2>2. curr' = [i \in Reg |-> AfterRegTick(curr[i], i)]
    BY <1>2, <2>1 DEF RegTick, DirtyTick
  <2>3. offers' = Dirty!Silent /\ resetTo' = <<>>
    BY <1>2 DEF RegTick, Silent, All, Dirty!Silent, Dirty!Port, WritePort
  <2> QED
    BY <2>2, <2>3 DEF Dirty!Next, Dirty!Tick, AfterRegTick, Dirty!Port, Full!Port, Dirty!Wins, Full!Wins
<1>3. ASSUME NEW values \in [Reg -> Word], RegReset(values) PROVE Dirty!Next
  BY <1>3 DEF RegReset, DirtyReset, Silent, All, WritePort,
     Dirty!Next, Dirty!Reset, Dirty!Silent, Dirty!Port
<1> QED
  BY <1>1, <1>2, <1>3 DEF RegNext

\* Both arrays implement the abstract one: reads show the values of the last
\* tick, and at the tick the lowest port that wrote wins (storage.hpp:35-275).
THEOREM ArraysImplement == RegSpec => ImplementArray
<1>1. RegInit => Full!Init /\ Dirty!Init
  BY ValueAssumption DEF RegInit, All, Silent, WritePort, Full!Init, Full!Silent, Full!Port,
     Dirty!Init, Dirty!Silent, Dirty!Port
<1>2. RegInv /\ [RegNext]_regVars =>
        [Full!Next]_<<fullData, offers, resetTo>> /\ [Dirty!Next]_<<curr, offers, resetTo>>
  <2>1. UNCHANGED regVars => UNCHANGED <<fullData, offers, resetTo>> /\ UNCHANGED <<curr, offers, resetTo>>
    BY DEF regVars, fullVars, dirtyVars
  <2> QED
    BY <2>1, FullStep, DirtyStep
<1> QED
  BY <1>1, <1>2, RegInvariant, PTL DEF RegSpec, ImplementArray, Full!Spec, Dirty!Spec

-----------------------------------------------------------------------------
(* The cache.                                                              *)

Entry == [valid : BOOLEAN, tag : Tag \cup {NoTag}]

\* A memory of one read and one write port.
OneRam(Cell) ==
  [memory : [Line -> Cell], asked : [0 .. 0 -> Seq(Line)], shown : [0 .. 0 -> Seq(Cell)],
   writes : [0 .. 0 -> {<<>>} \cup (Line \X Cell)]]

\* The requests of a cycle go to both memories, and the stage that waits for
\* their words carries the address they were asked for.
CacheInv ==
  /\ tagArray \in OneRam(Entry) /\ dataArray \in OneRam(Datum \cup {NoDatum})
  /\ stageNext \in Seq(Addr) /\ readStage \in Seq(Addr)
  /\ readInputed \in BOOLEAN /\ (readInputed <=> stageNext # <<>>)
  /\ stageNext = <<>> => tagArray.asked[0] = <<>> /\ dataArray.asked[0] = <<>>
  /\ stageNext # <<>> => /\ tagArray.asked[0] = <<stageNext[1].line>>
                         /\ dataArray.asked[0] = <<stageNext[1].line>>
  /\ tagArray.shown[0] = <<>> <=> readStage = <<>>
  /\ dataArray.shown[0] = <<>> <=> readStage = <<>>
  /\ asked = stageNext
  /\ \/ /\ brought = <<>>
        /\ tagArray.writes[0] = <<>> /\ dataArray.writes[0] = <<>>
     \/ \E addr \in Addr, datum \in Datum :
          /\ brought = <<[addr |-> addr, datum |-> datum]>>
          /\ tagArray.writes[0] = <<addr.line, [valid |-> TRUE, tag |-> addr.tag]>>
          /\ dataArray.writes[0] = <<addr.line, datum>>

-----------------------------------------------------------------------------
(* The block memory.                                                       *)

\* A request is not the absence of one.
LEMMA OneOrNone == \A x : <<x>> # <<>> /\ <<x>>[1] = x
OBVIOUS

\* The same of an address with its word.
LEMMA PairOrNone == \A x, y : <<x, y>> # <<>> /\ <<x, y>>[1] = x /\ <<x, y>>[2] = y
OBVIOUS

\* What a memory keeps when a read is asked for (ram.hpp:134-142).
LEMMA AfterReadReq ==
  ASSUME NEW Cell, NEW ram \in OneRam(Cell), NEW l \in Line
  PROVE  /\ ReadReq(ram, 0, l) \in OneRam(Cell)
         /\ ReadReq(ram, 0, l).asked[0] = <<l>>
         /\ ReadReq(ram, 0, l).memory = ram.memory
         /\ ReadReq(ram, 0, l).shown = ram.shown
         /\ ReadReq(ram, 0, l).writes = ram.writes
<1> DEFINE t == ReadReq(ram, 0, l)
           b == [ram.asked EXCEPT ![0] = <<l>>]
<1>1. b \in [0 .. 0 -> Seq(Line)] /\ b[0] = <<l>>
  BY DEF OneRam
<1>2. t = [ram EXCEPT !.asked = b]
  BY DEF ReadReq
<1> HIDE DEF b
<1>3. t = [memory |-> ram.memory, asked |-> b, shown |-> ram.shown, writes |-> ram.writes]
  BY <1>2 DEF OneRam
<1> QED
  BY <1>1, <1>3 DEF OneRam

\* What a memory keeps when a write is asked for (ram.hpp:151-160).
LEMMA AfterWrite ==
  ASSUME NEW Cell, NEW ram \in OneRam(Cell), NEW l \in Line, NEW c \in Cell
  PROVE  /\ Write(ram, 0, l, c) \in OneRam(Cell)
         /\ Write(ram, 0, l, c).writes[0] = <<l, c>>
         /\ Write(ram, 0, l, c).memory = ram.memory
         /\ Write(ram, 0, l, c).shown = ram.shown
         /\ Write(ram, 0, l, c).asked = ram.asked
<1> DEFINE t == Write(ram, 0, l, c)
<1>0. /\ ram = [memory |-> ram.memory, asked |-> ram.asked, shown |-> ram.shown, writes |-> ram.writes]
      /\ ram.writes \in [0 .. 0 -> {<<>>} \cup (Line \X Cell)]
  BY DEF OneRam
<1>1. t = [memory |-> ram.memory, asked |-> ram.asked,
           shown |-> ram.shown, writes |-> [ram.writes EXCEPT ![0] = <<l, c>>]]
  BY <1>0 DEF Write
<1>2. t.writes \in [0 .. 0 -> {<<>>} \cup (Line \X Cell)] /\ t.writes[0] = <<l, c>>
  BY <1>0, <1>1
<1> QED
  BY <1>1, <1>2 DEF OneRam

\* The tick shows the word before the write of the cycle.
LEMMA AfterTick ==
  ASSUME NEW Cell, NEW ram \in OneRam(Cell)
  PROVE  /\ BramTick(ram) \in OneRam(Cell)
         /\ BramTick(ram).asked[0] = <<>> /\ BramTick(ram).writes[0] = <<>>
         /\ BramTick(ram).shown[0] = <<>> <=> ram.asked[0] = <<>>
         /\ ram.asked[0] # <<>> => BramTick(ram).shown[0] = <<ram.memory[ram.asked[0][1]]>>
         /\ ram.writes[0] = <<>> => BramTick(ram).memory = ram.memory
         /\ ram.writes[0] # <<>> =>
              BramTick(ram).memory = [ram.memory EXCEPT ![ram.writes[0][1]] = ram.writes[0][2]]
<1> DEFINE t == BramTick(ram)
<1>1. /\ DOMAIN ram.asked = 0 .. 0 /\ DOMAIN ram.writes = 0 .. 0 /\ DOMAIN ram.memory = Line
      /\ \A p : p \in 0 .. 0 <=> p = 0
      /\ ram.memory \in [Line -> Cell] /\ ram.asked[0] \in Seq(Line)
  BY DEF OneRam
<1>2. /\ t.memory = Written(ram) /\ t.shown = Shown(ram, ram.memory)
      /\ t.asked = NoRequests(0 .. 0) /\ t.writes = NoRequests(0 .. 0)
      /\ t = [memory |-> t.memory, shown |-> t.shown, asked |-> t.asked, writes |-> t.writes]
  BY <1>1 DEF BramTick
<1>3. t.asked[0] = <<>> /\ t.writes[0] = <<>> /\ t.asked \in [0 .. 0 -> Seq(Line)]
      /\ t.writes \in [0 .. 0 -> {<<>>} \cup (Line \X Cell)]
  BY <1>1, <1>2 DEF NoRequests
<1>4. /\ t.shown \in [0 .. 0 -> Seq(Cell)]
      /\ t.shown[0] = <<>> <=> ram.asked[0] = <<>>
      /\ ram.asked[0] # <<>> => t.shown[0] = <<ram.memory[ram.asked[0][1]]>>
  <2>1. t.shown = [p \in 0 .. 0 |-> IF ram.asked[p] = <<>> THEN <<>>
                                    ELSE <<ram.memory[ram.asked[p][1]]>>]
    BY <1>1, <1>2 DEF Shown
  <2>2. ram.asked[0] # <<>> => ram.asked[0][1] \in Line
    BY <1>1
  <2> QED
    BY <1>1, <2>1, <2>2
<1>5. CASE ram.writes[0] = <<>>
  <2>1. t.memory = [a \in Line |-> ram.memory[a]]
    BY <1>1, <1>2, <1>5 DEF Written
  <2>2. t.memory = ram.memory
    BY <1>1, <2>1
  <2> QED
    BY <1>1, <1>2, <1>3, <1>4, <1>5, <2>2 DEF OneRam
<1>6. CASE ram.writes[0] # <<>>
  <2>1. ram.writes[0] \in Line \X Cell
    BY <1>6 DEF OneRam
  <2>2. ram.writes[0][1] \in Line /\ ram.writes[0][2] \in Cell
    BY <2>1
  <2> DEFINE ports(a) == { p \in 0 .. 0 : ram.writes[p] # <<>> /\ ram.writes[p][1] = a }
  <2>3. t.memory = [a \in Line |-> IF ports(a) = {} THEN ram.memory[a]
                                   ELSE ram.writes[Max(ports(a))][2]]
    BY <1>1, <1>2 DEF Written
  <2>4. ASSUME NEW a \in Line PROVE ports(a) = IF a = ram.writes[0][1] THEN {0} ELSE {}
    BY <1>1, <1>6
  <2>5. Max({0}) = 0
    BY DEF Max
  <2> HIDE DEF ports
  <2>6. \A a \in Line : (IF ports(a) = {} THEN ram.memory[a] ELSE ram.writes[Max(ports(a))][2])
                        = IF a = ram.writes[0][1] THEN ram.writes[0][2] ELSE ram.memory[a]
    BY <2>4, <2>5
  <2>7. t.memory = [ram.memory EXCEPT ![ram.writes[0][1]] = ram.writes[0][2]]
    BY <1>1, <2>2, <2>3, <2>6
  <2>8. t.memory \in [Line -> Cell]
    BY <1>1, <2>2, <2>7
  <2> QED
    BY <1>1, <1>2, <1>3, <1>4, <1>6, <2>7, <2>8 DEF OneRam
<1> QED
  BY <1>5, <1>6

-----------------------------------------------------------------------------
(* The cache.                                                              *)

\* The invariant holds at the start.
LEMMA CacheInitInv == CacheInit => CacheInv
<1> SUFFICES ASSUME CacheInit PROVE CacheInv
  OBVIOUS
<1>1. /\ stageNext = <<>> /\ readStage = <<>> /\ <<>> \in Seq(Addr)
      /\ readInputed = FALSE /\ asked = <<>> /\ brought = <<>>
  BY DEF CacheInit
<1>2. tagArray \in OneRam(Entry) /\ dataArray \in OneRam(Datum \cup {NoDatum})
  BY DEF CacheInit, Quiet, OneRam, Entry, NoEntry
<1>3. /\ tagArray.asked[0] = <<>> /\ tagArray.shown[0] = <<>> /\ tagArray.writes[0] = <<>>
      /\ dataArray.asked[0] = <<>> /\ dataArray.shown[0] = <<>> /\ dataArray.writes[0] = <<>>
  BY DEF CacheInit, Quiet
<1> QED
  BY <1>1, <1>2, <1>3 DEF CacheInv

\* A read asks both memories together (SimpleCache.hpp:40-49).
LEMMA ReadInv == ASSUME CacheInv, NEW addr \in Addr, ReadS0(addr) PROVE CacheInv'
<1>1. /\ addr.line \in Line
      /\ tagArray \in OneRam(Entry) /\ dataArray \in OneRam(Datum \cup {NoDatum})
  BY DEF Addr, CacheInv
<1>2. /\ tagArray' \in OneRam(Entry) /\ tagArray'.asked[0] = <<addr.line>>
      /\ tagArray'.shown = tagArray.shown /\ tagArray'.writes = tagArray.writes
  BY <1>1, AfterReadReq DEF ReadS0
<1>3. /\ dataArray' \in OneRam(Datum \cup {NoDatum}) /\ dataArray'.asked[0] = <<addr.line>>
      /\ dataArray'.shown = dataArray.shown /\ dataArray'.writes = dataArray.writes
  BY <1>1, AfterReadReq DEF ReadS0
<1>4. /\ stageNext' = <<addr>> /\ readInputed' = TRUE /\ readStage' = readStage
      /\ stageNext' # <<>> /\ stageNext'[1] = addr /\ stageNext' \in Seq(Addr)
      /\ asked' = stageNext' /\ brought' = brought
  BY DEF ReadS0
<1> QED
  BY <1>2, <1>3, <1>4 DEF CacheInv

\* A refill writes the same line of both memories (lines 51 to 59).
LEMMA RefillInv ==
  ASSUME CacheInv, NEW addr \in Addr, NEW datum \in Datum, RefillS0(addr, datum) PROVE CacheInv'
<1> DEFINE entry == [valid |-> TRUE, tag |-> addr.tag]
<1>1. /\ addr.line \in Line /\ entry \in Entry
      /\ tagArray \in OneRam(Entry) /\ dataArray \in OneRam(Datum \cup {NoDatum})
  BY DEF Addr, Entry, CacheInv
<1> HIDE DEF entry
<1>5. tagArray' = Write(tagArray, 0, addr.line, entry)
  BY DEF RefillS0, entry
<1>2. /\ tagArray' \in OneRam(Entry) /\ tagArray'.writes[0] = <<addr.line, entry>>
      /\ tagArray'.shown = tagArray.shown /\ tagArray'.asked = tagArray.asked
  BY <1>1, <1>5, AfterWrite
<1>3. /\ dataArray' \in OneRam(Datum \cup {NoDatum}) /\ dataArray'.writes[0] = <<addr.line, datum>>
      /\ dataArray'.shown = dataArray.shown /\ dataArray'.asked = dataArray.asked
  BY <1>1, AfterWrite DEF RefillS0
<1>4. /\ readStage' = readStage /\ stageNext' = stageNext /\ readInputed' = readInputed
      /\ asked' = asked /\ brought' = <<[addr |-> addr, datum |-> datum]>>
  BY DEF RefillS0
<1> QED
  BY <1>2, <1>3, <1>4 DEF CacheInv, entry

\* The tick moves the stage and the words it asked for together (lines 63 to 82).
LEMMA CacheTickInv == ASSUME CacheInv, CacheTick PROVE CacheInv'
<1>0. tagArray' = BramTick(tagArray) /\ dataArray' = BramTick(dataArray)
  BY DEF CacheTick
<1>1. tagArray \in OneRam(Entry) /\ dataArray \in OneRam(Datum \cup {NoDatum})
  BY DEF CacheInv
<1>2. /\ tagArray' \in OneRam(Entry) /\ tagArray'.asked[0] = <<>> /\ tagArray'.writes[0] = <<>>
      /\ tagArray'.shown[0] = <<>> <=> tagArray.asked[0] = <<>>
  BY <1>0, <1>1, AfterTick
<1>3. /\ dataArray' \in OneRam(Datum \cup {NoDatum})
      /\ dataArray'.asked[0] = <<>> /\ dataArray'.writes[0] = <<>>
      /\ dataArray'.shown[0] = <<>> <=> dataArray.asked[0] = <<>>
  BY <1>0, <1>1, AfterTick
<1>4. /\ stageNext' = <<>> /\ readInputed' = FALSE /\ readStage' = stageNext
      /\ <<>> \in Seq(Addr) /\ asked' = <<>> /\ brought' = <<>>
  BY DEF CacheTick, Stage, CacheInv
<1>5. /\ tagArray.asked[0] = <<>> <=> stageNext = <<>>
      /\ dataArray.asked[0] = <<>> <=> stageNext = <<>>
  BY OneOrNone DEF CacheInv
<1> QED
  BY <1>2, <1>3, <1>4, <1>5 DEF CacheInv

\* Every step keeps the invariant.
LEMMA CacheStepInv == CacheInv /\ [CacheNext]_cacheVars => CacheInv'
<1> SUFFICES ASSUME CacheInv, [CacheNext]_cacheVars PROVE CacheInv'
  OBVIOUS
<1>1. CASE CacheNext
  BY <1>1, ReadInv, RefillInv, CacheTickInv DEF CacheNext
<1>2. CASE UNCHANGED cacheVars
  BY <1>2 DEF cacheVars, calls, CacheInv
<1> QED
  BY <1>1, <1>2

\* Stage and memories agree: what the stage names in this cycle is what both
\* memories show, and what it will name is what they were asked for.
THEOREM CacheInvariant == CacheSpec => []CacheInv
BY CacheInitInv, CacheStepInv, PTL DEF CacheSpec

-----------------------------------------------------------------------------
(* Refinement.                                                             *)

Lines == [l \in Line |-> [entry |-> tagArray.memory[l], data |-> dataArray.memory[l]]]

\* Asking for an address is the table's read: it changes neither the words
\* nor what is due.
LEMMA ReadAsks ==
  ASSUME CacheInv, NEW addr \in Addr, ReadS0(addr)
  PROVE  Table!Read
<1>1. /\ addr.line \in Line
      /\ tagArray \in OneRam(Entry) /\ dataArray \in OneRam(Datum \cup {NoDatum})
  BY DEF Addr, CacheInv
<1>2. /\ tagArray'.memory = tagArray.memory /\ tagArray'.shown = tagArray.shown
      /\ dataArray'.memory = dataArray.memory /\ dataArray'.shown = dataArray.shown
      /\ readStage' = readStage
  BY <1>1, AfterReadReq DEF ReadS0
<1>3. Lines' = Lines /\ Answer' = Answer
  BY <1>2 DEF Lines, Answer, Hit, ReadData
<1>4. asked = <<>>
  <2>1. tagArray.asked[0] = <<>>
    BY DEF ReadS0, MayRead
  <2> QED
    BY <2>1, OneOrNone DEF CacheInv
<1>5. asked' = <<addr>> /\ UNCHANGED <<brought, response>>
  BY DEF ReadS0
<1> QED
  BY <1>3, <1>4, <1>5 DEF Table!Read, Table!Addr, Addr, Lines

\* A refill is not seen before the tick.
LEMMA RefillBrings ==
  ASSUME CacheInv, NEW addr \in Addr, NEW datum \in Datum, RefillS0(addr, datum)
  PROVE  Table!Refill
<1>1. /\ addr.line \in Line /\ [valid |-> TRUE, tag |-> addr.tag] \in Entry
      /\ tagArray \in OneRam(Entry) /\ dataArray \in OneRam(Datum \cup {NoDatum})
  BY DEF Addr, Entry, CacheInv
<1>2. /\ tagArray'.memory = tagArray.memory /\ tagArray'.shown = tagArray.shown
      /\ dataArray'.memory = dataArray.memory /\ dataArray'.shown = dataArray.shown
      /\ readStage' = readStage
  BY <1>1, AfterWrite DEF RefillS0
<1>3. Lines' = Lines /\ Answer' = Answer
  BY <1>2 DEF Lines, Answer, Hit, ReadData
<1>4. brought = <<>>
  <2>1. tagArray.writes[0] = <<>>
    BY DEF RefillS0, MayWrite
  <2> QED
    BY <2>1, PairOrNone DEF CacheInv
<1>5. brought' = <<[addr |-> addr, datum |-> datum]>> /\ UNCHANGED <<asked, response>>
  BY DEF RefillS0
<1> QED
  BY <1>3, <1>4, <1>5 DEF Table!Refill, Table!Addr, Addr, Lines

\* At the tick the read of the cycle is looked up in the words before the
\* refill of the cycle, which is then written.
LEMMA TickLooksUp == ASSUME CacheInv, CacheTick PROVE Table!Tick
<1>0. tagArray' = BramTick(tagArray) /\ dataArray' = BramTick(dataArray)
  BY DEF CacheTick
<1>1. tagArray \in OneRam(Entry) /\ dataArray \in OneRam(Datum \cup {NoDatum})
      /\ readStage' = stageNext
  BY DEF CacheInv, CacheTick, Stage
<1>2. Answer' = IF asked = <<>> THEN <<>> ELSE <<Table!LookUp(asked[1])>>
  <2>0. asked = stageNext
    BY DEF CacheInv
  <2>1. CASE stageNext = <<>>
    <3>1. Answer' = <<>>
      BY <2>1, <1>1 DEF Answer
    <3> QED
      BY <2>0, <2>1, <3>1
  <2>2. CASE stageNext # <<>>
    <3> DEFINE addr == stageNext[1]
    <3>0. stageNext \in Seq(Addr)
      BY DEF CacheInv
    <3>1. addr \in Addr /\ addr.line \in Line
      <4>1. addr \in Addr
        BY <2>2, <3>0
      <4> QED
        BY <4>1 DEF Addr
    <3>2. /\ tagArray.asked[0] = <<addr.line>> /\ dataArray.asked[0] = <<addr.line>>
          /\ tagArray.asked[0] # <<>> /\ dataArray.asked[0] # <<>>
          /\ tagArray.asked[0][1] = addr.line /\ dataArray.asked[0][1] = addr.line
      BY <2>2, OneOrNone DEF CacheInv
    <3>3. /\ tagArray'.shown[0] = <<tagArray.memory[addr.line]>>
          /\ dataArray'.shown[0] = <<dataArray.memory[addr.line]>>
      BY <3>2, <1>0, <1>1, AfterTick
    <3>4. /\ tagArray'.shown[0][1] = Lines[addr.line].entry
          /\ dataArray'.shown[0][1] = Lines[addr.line].data
          /\ readStage'[1] = addr /\ readStage' # <<>>
      BY <3>1, <3>3, <1>1, <2>2 DEF Lines
    <3>5. Hit' = (Lines[addr.line].entry.valid /\ Lines[addr.line].entry.tag = addr.tag)
      BY <3>4 DEF Hit, ReadData
    <3>6. Answer' = <<Table!LookUp(addr)>>
      BY <3>4, <3>5 DEF Answer, ReadData, Table!LookUp, Lines
    <3> QED
      BY <2>0, <2>2, <3>6
  <2> QED
    BY <2>1, <2>2
<1>3. Lines' = IF brought = <<>> THEN Lines
               ELSE [Lines EXCEPT ![brought[1].addr.line] =
                      [entry |-> [valid |-> TRUE, tag |-> brought[1].addr.tag],
                       data  |-> brought[1].datum]]
  <2>1. CASE brought = <<>> /\ tagArray.writes[0] = <<>> /\ dataArray.writes[0] = <<>>
    <3>1. tagArray'.memory = tagArray.memory
      BY <2>1, <1>0, <1>1, AfterTick
    <3>2. dataArray'.memory = dataArray.memory
      BY <2>1, <1>0, <1>1, AfterTick
    <3> QED
      BY <2>1, <3>1, <3>2 DEF Lines
  <2>2. CASE \E addr \in Addr, datum \in Datum :
               /\ brought = <<[addr |-> addr, datum |-> datum]>>
               /\ tagArray.writes[0] = <<addr.line, [valid |-> TRUE, tag |-> addr.tag]>>
               /\ dataArray.writes[0] = <<addr.line, datum>>
    <3>1. PICK addr \in Addr, datum \in Datum :
               /\ brought = <<[addr |-> addr, datum |-> datum]>>
               /\ tagArray.writes[0] = <<addr.line, [valid |-> TRUE, tag |-> addr.tag]>>
               /\ dataArray.writes[0] = <<addr.line, datum>>
      BY <2>2
    <3> DEFINE entry == [valid |-> TRUE, tag |-> addr.tag]
    <3>2. /\ tagArray.writes[0] # <<>> /\ tagArray.writes[0][1] = addr.line
          /\ tagArray.writes[0][2] = entry
          /\ dataArray.writes[0] # <<>> /\ dataArray.writes[0][1] = addr.line
          /\ dataArray.writes[0][2] = datum
      BY <3>1
    <3>3. /\ tagArray'.memory = [tagArray.memory EXCEPT ![addr.line] = entry]
          /\ dataArray'.memory = [dataArray.memory EXCEPT ![addr.line] = datum]
      <4>1. tagArray'.memory = [tagArray.memory EXCEPT ![addr.line] = entry]
        BY <3>2, <1>0, <1>1, AfterTick
      <4>2. dataArray'.memory = [dataArray.memory EXCEPT ![addr.line] = datum]
        BY <3>2, <1>0, <1>1, AfterTick
      <4> QED
        BY <4>1, <4>2
    <3>4. /\ DOMAIN tagArray.memory = Line /\ DOMAIN dataArray.memory = Line
      BY <1>1 DEF OneRam
    <3>5. Lines' = [Lines EXCEPT ![addr.line] = [entry |-> entry, data |-> datum]]
      BY <3>3, <3>4 DEF Lines
    <3>6. /\ brought # <<>> /\ brought[1].addr = addr /\ brought[1].datum = datum
      BY <3>1, OneOrNone
    <3> QED
      BY <3>5, <3>6
  <2> QED
    BY <2>1, <2>2 DEF CacheInv
<1>4. response' = Answer /\ asked' = <<>> /\ brought' = <<>>
  BY DEF CacheTick
<1> QED
  BY <1>2, <1>3, <1>4 DEF Table!Tick, Lines

\* The pipelined cache answers like the table: each read is answered in the
\* next cycle with what was looked up for its address, a read in the cycle of
\* a refill of its line included (SimpleCache.hpp:40-82, ram.hpp:159-176), and
\* the cache never looks at a word that is not there (ram.hpp:142).
THEOREM CacheImplementsTable == CacheSpec => ImplementsTable
<1>1. CacheInit => Table!Init
  BY DEF CacheInit, Quiet, Answer, NoEntry, NoTag, Table!Init, Table!NoTag
<1>2. CacheInv /\ [CacheNext]_cacheVars => [Table!Next]_(Table!tableVars)
  <2> SUFFICES ASSUME CacheInv, [CacheNext]_cacheVars PROVE [Table!Next]_(Table!tableVars)
    OBVIOUS
  <2>1. CASE CacheNext
    BY <2>1, ReadAsks, RefillBrings, TickLooksUp DEF CacheNext, Table!Next
  <2>2. CASE UNCHANGED cacheVars
    BY <2>2 DEF cacheVars, calls, Answer, Hit, ReadData, Table!tableVars
  <2> QED
    BY <2>1, <2>2
<1>3. CacheInv => StageHasItsWords
  BY DEF CacheInv, StageHasItsWords, MayShow
<1> QED
  BY <1>1, <1>2, <1>3, CacheInvariant, PTL DEF CacheSpec, ImplementsTable, Table!Spec

-----------------------------------------------------------------------------
(* Bytes of a word.                                                        *)

\* A word of four bytes, the lowest first.
WordOf(b0, b1, b2, b3) == b0 * Weight(0) + b1 * Weight(1) + b2 * Weight(2) + b3 * Weight(3)

ByteValue == 0 .. ByteBase - 1

\* Shifting and masking gives back each of the four bytes a word was made of.
LEMMA BytesOfWord ==
  ASSUME NEW b0 \in ByteValue, NEW b1 \in ByteValue, NEW b2 \in ByteValue, NEW b3 \in ByteValue
  PROVE  LET w == WordOf(b0, b1, b2, b3)
         IN  /\ w \in Nat
             /\ (w \div Weight(0)) % ByteBase = b0
             /\ (w \div Weight(1)) % ByteBase = b1
             /\ (w \div Weight(2)) % ByteBase = b2
             /\ (w \div Weight(3)) % ByteBase = b3
<1> DEFINE B  == ByteBase
           W2 == B * B
           W3 == B * B * B
           w  == b0 + b1 * B + b2 * W2 + b3 * W3
<1>1. B \in Nat \ {0} /\ W2 \in Nat \ {0} /\ W3 \in Nat \ {0} /\ W3 = W2 * B
  BY TileAssumption
<1>2. /\ b0 \in 0 .. B - 1 /\ b1 \in 0 .. B - 1 /\ b2 \in 0 .. B - 1 /\ b3 \in 0 .. B - 1
      /\ b0 \in Nat /\ b1 \in Nat /\ b2 \in Nat /\ b3 \in Nat
  BY TileAssumption DEF ByteValue
<1>3. w \in Nat
  BY <1>1, <1>2
<1>4. Weight(0) = 1 /\ Weight(1) = B /\ Weight(2) = W2 /\ Weight(3) = W3
  BY DEF Weight
<1>5. WordOf(b0, b1, b2, b3) = w
  BY <1>2, <1>4 DEF WordOf
<1>6. (w \div 1) % B = b0
  <2> DEFINE q == b1 + b2 * B + b3 * W2
  <2>1. w \div 1 = w
    BY <1>3
  <2>2. q \in Int /\ w = q * B + b0
    BY <1>1, <1>2
  <2> HIDE DEF q, w, B
  <2>3. w % B = b0
    BY <1>1, <1>2, <1>3, <2>2, DivUnique
  <2> QED
    BY <2>1, <2>3
<1>7. (w \div B) % B = b1
  <2> DEFINE q == b1 + b2 * B + b3 * W2
             p == b2 + b3 * B
  <2>1. q \in Int /\ w = q * B + b0
    BY <1>1, <1>2
  <2>2. p \in Int /\ q = p * B + b1
    BY <1>1, <1>2
  <2> HIDE DEF p, q, w, B
  <2>3. w \div B = q
    BY <1>1, <1>2, <1>3, <2>1, DivUnique
  <2>4. q % B = b1
    BY <1>1, <1>2, <2>1, <2>2, DivUnique
  <2> QED
    BY <2>3, <2>4
<1>8. (w \div W2) % B = b2
  <2> DEFINE q == b2 + b3 * B
             r == b0 + b1 * B
  <2>1. q \in Int /\ r \in Nat /\ w = q * W2 + r
    BY <1>1, <1>2
  <2>2. r < W2
    <3>1. b1 + 1 <= B /\ b0 < B
      BY <1>1, <1>2
    <3>2. (b1 + 1) * B <= B * B
      BY <1>1, <1>2, <3>1
    <3> QED
      BY <1>1, <1>2, <3>1, <3>2
  <2>3. q = b3 * B + b2
    BY <1>1, <1>2
  <2> HIDE DEF q, r, w, B, W2
  <2>4. w \div W2 = q
    BY <1>1, <1>3, <2>1, <2>2, DivUnique
  <2>5. q % B = b2
    <3>1. B \in Nat \ {0} /\ b3 \in Int /\ b2 \in 0 .. B - 1 /\ q \in Int
      BY <1>1, <1>2, <2>1
    <3> QED
      BY <2>3, <3>1, DivUnique
  <2> QED
    BY <2>4, <2>5
<1>9. (w \div W3) % B = b3
  <2> DEFINE r == b0 + b1 * B + b2 * W2
  <2>1. r \in Nat /\ w = b3 * W3 + r
    BY <1>1, <1>2
  <2>2. r < W3
    <3>1. b1 + 1 <= B /\ b0 < B /\ b2 + 1 <= B
      BY <1>1, <1>2
    <3>2. (b1 + 1) * B <= B * B
      BY <1>1, <1>2, <3>1
    <3>3. b0 + b1 * B < W2
      BY <1>1, <1>2, <3>1, <3>2
    <3>4. (b2 + 1) * W2 <= B * W2
      BY <1>1, <1>2, <3>1
    <3>5. (b2 + 1) * W2 = b2 * W2 + W2 /\ B * W2 = W3
      BY <1>1, <1>2
    <3> QED
      BY <1>1, <1>2, <3>3, <3>4, <3>5
  <2> HIDE DEF r, w, B, W3
  <2>3. w \div W3 = b3
    BY <1>1, <1>2, <1>3, <2>1, <2>2, DivUnique
  <2>4. b3 = 0 * B + b3
    BY <1>1, <1>2
  <2>5. b3 % B = b3
    BY <1>1, <1>2, <2>4, DivUnique
  <2> QED
    BY <2>3, <2>5
<1> HIDE DEF w, W2, W3, B
<1>10. B = ByteBase
  BY DEF B
<1> QED
  BY <1>3, <1>4, <1>5, <1>6, <1>7, <1>8, <1>9, <1>10

-----------------------------------------------------------------------------
(* What the source holds, when the planes in S came.                       *)

ByteIn(n, S, b, r, c) == IF b \in S THEN PlaneOf(n, b)[r][c] ELSE 0

PartOf(n, S) ==
  [r \in Index |-> [c \in Index |->
     WordOf(ByteIn(n, S, 0, r, c), ByteIn(n, S, 1, r, c), ByteIn(n, S, 2, r, c),
          ByteIn(n, S, 3, r, c))]]

\* The weights are numbers, and the bytes of a plane are bytes.
LEMMA Numbers ==
  /\ \A b \in Byte : Weight(b) \in Nat
  /\ \A n \in 1 .. MaxFired, S \in SUBSET Byte, b \in Byte, r \in Index, c \in Index :
       ByteIn(n, S, b, r, c) \in ByteValue
<1>1. ByteBase \in Nat \ {0, 1}
  BY TileAssumption
<1>2. ASSUME NEW b \in Byte
      PROVE  Weight(b) \in Nat
  BY <1>1 DEF Weight, Byte
<1>3. ASSUME NEW n \in 1 .. MaxFired, NEW S \in SUBSET Byte, NEW b \in Byte,
             NEW r \in Index, NEW c \in Index
      PROVE  ByteIn(n, S, b, r, c) \in ByteValue
  <2>1. PlaneOf(n, b) \in [Index -> [Index -> 0 .. ByteBase - 1]]
    BY PlanesAssumption
  <2> QED
    BY <1>1, <2>1 DEF ByteIn, ByteValue
<1> QED
  BY <1>2, <1>3

\* A plane of it is the plane that came, or zero.
LEMMA PlaneOfPart ==
  ASSUME NEW n \in 1 .. MaxFired, NEW S \in SUBSET Byte, NEW b \in Byte,
         NEW r \in Index, NEW c \in Index
  PROVE  /\ PartOf(n, S)[r][c] \in Nat
         /\ Plane(PartOf(n, S), b)[r][c] = ByteIn(n, S, b, r, c)
<1> DEFINE B(k) == ByteIn(n, S, k, r, c)
<1>1. B(0) \in ByteValue /\ B(1) \in ByteValue /\ B(2) \in ByteValue /\ B(3) \in ByteValue
  BY Numbers DEF Byte
<1>2. PartOf(n, S)[r][c] = WordOf(B(0), B(1), B(2), B(3))
  BY DEF PartOf
<1>3. Plane(PartOf(n, S), b)[r][c] = (PartOf(n, S)[r][c] \div Weight(b)) % ByteBase
  BY DEF Plane
<1>4. b = 0 \/ b = 1 \/ b = 2 \/ b = 3
  BY DEF Byte
<1> HIDE DEF B
<1>5. LET w == WordOf(B(0), B(1), B(2), B(3))
      IN  w \in Nat /\ (w \div Weight(b)) % ByteBase = B(b)
  BY <1>1, <1>4, BytesOfWord
<1> QED
  BY <1>2, <1>3, <1>5 DEF B

\* A plane that comes takes its place, the others stay.
LEMMA MergePart ==
  ASSUME NEW n \in 1 .. MaxFired, NEW S \in SUBSET Byte, NEW b \in Byte
  PROVE  Merge(PartOf(n, S), b, PlaneOf(n, b)) = PartOf(n, S \cup {b})
<1> DEFINE T == S \cup {b}
<1>1. ASSUME NEW r \in Index, NEW c \in Index
      PROVE  PartOf(n, S)[r][c] + (PlaneOf(n, b)[r][c] - Plane(PartOf(n, S), b)[r][c]) * Weight(b)
             = PartOf(n, T)[r][c]
  <2> DEFINE Old(k) == ByteIn(n, S, k, r, c)
             New(k) == ByteIn(n, T, k, r, c)
             W(k)   == Weight(k)
  <2>1. Plane(PartOf(n, S), b)[r][c] = Old(b)
    BY PlaneOfPart
  <2>2. New(b) = PlaneOf(n, b)[r][c] /\ \A k : k # b => New(k) = Old(k)
    BY DEF ByteIn
  <2>3. \A k \in Byte : Old(k) \in Int /\ New(k) \in Int /\ W(k) \in Int
    BY Numbers, TileAssumption DEF ByteValue
  <2>4. /\ PartOf(n, S)[r][c] = Old(0) * W(0) + Old(1) * W(1) + Old(2) * W(2) + Old(3) * W(3)
        /\ PartOf(n, T)[r][c] = New(0) * W(0) + New(1) * W(1) + New(2) * W(2) + New(3) * W(3)
    BY DEF PartOf, WordOf
  <2>5. b = 0 \/ b = 1 \/ b = 2 \/ b = 3
    BY DEF Byte
  <2>6. 0 \in Byte /\ 1 \in Byte /\ 2 \in Byte /\ 3 \in Byte
    BY DEF Byte
  <2> HIDE DEF Old, New, W
  <2>7. \A x, y, w \in Int : x * w + (y - x) * w = y * w
    OBVIOUS
  <2>8. PartOf(n, S)[r][c] + (New(b) - Old(b)) * W(b) = PartOf(n, T)[r][c]
    <3>1. CASE b = 0
      BY <2>2, <2>3, <2>4, <2>6, <2>7, <3>1
    <3>2. CASE b = 1
      BY <2>2, <2>3, <2>4, <2>6, <2>7, <3>2
    <3>3. CASE b = 2
      BY <2>2, <2>3, <2>4, <2>6, <2>7, <3>3
    <3>4. CASE b = 3
      BY <2>2, <2>3, <2>4, <2>6, <2>7, <3>4
    <3> QED
      BY <2>5, <3>1, <3>2, <3>3, <3>4
  <2> QED
    BY <2>1, <2>2, <2>8 DEF W
<1>2. PartOf(n, T) = [r \in Index |-> [c \in Index |-> PartOf(n, T)[r][c]]]
  BY DEF PartOf
<1> HIDE DEF T
<1>3. Merge(PartOf(n, S), b, PlaneOf(n, b)) = [r \in Index |-> [c \in Index |-> PartOf(n, T)[r][c]]]
  BY <1>1 DEF Merge
<1> QED
  BY <1>2, <1>3 DEF T

\* When no plane came the source is zero; when all came it is the source.
LEMMA WholePart ==
  ASSUME NEW n \in 1 .. MaxFired
  PROVE  /\ PartOf(n, {}) = Zero
         /\ \A bytes \in 1 .. 4 : PartOf(n, 0 .. bytes - 1) = SourceOf(n, bytes)
<1>1. \A b \in Byte : Weight(b) \in Nat /\ 0 * Weight(b) = 0
  BY Numbers
<1>2. PartOf(n, {}) = Zero
  <2>1. \A r, c \in Index : WordOf(ByteIn(n, {}, 0, r, c), ByteIn(n, {}, 1, r, c),
                                 ByteIn(n, {}, 2, r, c), ByteIn(n, {}, 3, r, c)) = 0
    BY <1>1 DEF WordOf, ByteIn, Byte
  <2> QED
    BY <2>1 DEF PartOf, Zero
<1>3. ASSUME NEW bytes \in 1 .. 4
      PROVE  PartOf(n, 0 .. bytes - 1) = SourceOf(n, bytes)
  <2> DEFINE D(b, r, c) == IF b < bytes THEN PlaneOf(n, b)[r][c] * Weight(b) ELSE 0
  <2>1. ASSUME NEW b \in Byte, NEW r, NEW c
        PROVE  ByteIn(n, 0 .. bytes - 1, b, r, c) * Weight(b) = D(b, r, c)
    <3>1. b \in Nat /\ (b \in 0 .. bytes - 1 <=> b < bytes)
      BY DEF Byte
    <3>2. CASE b < bytes
      BY <3>1, <3>2 DEF ByteIn
    <3>3. CASE ~ (b < bytes)
      <4>1. ByteIn(n, 0 .. bytes - 1, b, r, c) = 0 /\ D(b, r, c) = 0
        BY <3>1, <3>3 DEF ByteIn
      <4> QED
        BY <1>1, <4>1
    <3> QED
      BY <3>2, <3>3
  <2>2. SourceOf(n, bytes) = [r \in Index |-> [c \in Index |->
                                D(0, r, c) + D(1, r, c) + D(2, r, c) + D(3, r, c)]]
    BY DEF SourceOf
  <2> HIDE DEF D
  <2>3. \A r, c : WordOf(ByteIn(n, 0 .. bytes - 1, 0, r, c), ByteIn(n, 0 .. bytes - 1, 1, r, c),
                       ByteIn(n, 0 .. bytes - 1, 2, r, c), ByteIn(n, 0 .. bytes - 1, 3, r, c))
                  = D(0, r, c) + D(1, r, c) + D(2, r, c) + D(3, r, c)
    BY <2>1 DEF WordOf, Byte
  <2> QED
    BY <2>2, <2>3 DEF PartOf
<1> QED
  BY <1>2, <1>3

-----------------------------------------------------------------------------
(* The inductive invariant.                                                *)

\* The source is made of the planes that came.
SourceSound ==
  /\ misc.inst \in Insts /\ fired \in 1 .. MaxFired
  /\ misc.valid \in SUBSET (0 .. misc.inst.rsBytes - 1)
  /\ misc.src = PartOf(fired, misc.valid)

\* What is given back is the operation applied to the whole source, although
\* planes that come again are still merged.
ResultSound ==
  /\ misc.result = ComputeResult(misc.inst, SourceOf(fired, misc.inst.rsBytes))
  /\ misc.wb_byte \in 0 .. OutputBytes(misc.inst) - 1

MiscInv ==
  /\ misc = [stage |-> misc.stage, inst |-> misc.inst, src |-> misc.src, valid |-> misc.valid,
             result |-> misc.result, wb_byte |-> misc.wb_byte]
  /\ misc.stage \in {"idle", "wait", "wb"}
  /\ fired \in 0 .. MaxFired
  /\ misc.stage # "idle" => SourceSound
  /\ misc.stage = "wait" => NeedsInput(misc.inst) /\ misc.wb_byte = 0
  /\ misc.stage = "wb" => ResultSound

\* What the instructions have in common.
LEMMA InstFacts ==
  ASSUME NEW inst \in Insts
  PROVE  /\ OutputBytes(inst) \in 1 .. 4 /\ inst.rsBytes \in 1 .. 4
         /\ 0 .. inst.rsBytes - 1 \in SUBSET Byte
         /\ ~ NeedsInput(inst) => inst.op \in {"TFILL", "TFILLLINE", "TSETMASK"}
<1>1. inst.rdBytes \in 1 .. 4 /\ inst.rsBytes \in 1 .. 4
  BY InstsAssumption
<1> QED
  BY <1>1, InstsAssumption DEF OutputBytes, Byte, NeedsInput

\* An operation without an input gives the same on any.
LEMMA NoInput ==
  ASSUME NEW inst \in Insts, ~ NeedsInput(inst), NEW src, NEW tgt
  PROVE  ComputeResult(inst, src) = ComputeResult(inst, tgt)
<1>1. inst.op \in {"TFILL", "TFILLLINE", "TSETMASK"}
  BY InstFacts
<1> QED
  BY <1>1 DEF ComputeResult, Broadcasts, Shifts, Transposes

\* An instruction that is fired, and needs a source, waits for its planes;
\* any other has its result at once (lines 313-327).
LEMMA FireKeeps ==
  ASSUME MiscInv, NEW inst \in Insts, Fire(inst)
  PROVE  /\ MiscInv'
         /\ misc'.stage # "idle" /\ misc'.inst = inst /\ misc'.wb_byte = 0
         /\ fired' \in 1 .. MaxFired
<1> DEFINE m == [stage |-> "wait", inst |-> inst, src |-> Zero, valid |-> {},
                 result |-> Zero, wb_byte |-> 0]
<1>1. /\ misc' = IF NeedsInput(inst) THEN m ELSE Computed(m)
      /\ fired' = fired + 1 /\ fired < MaxFired
  BY DEF Fire, s0MiscFire
<1>2. fired' \in 1 .. MaxFired
  BY <1>1, FiredAssumption DEF MiscInv
<1>3. PartOf(fired', {}) = Zero /\ SourceOf(fired', inst.rsBytes) = PartOf(fired', 0 .. inst.rsBytes - 1)
  <2>1. PICK n \in 1 .. MaxFired : n = fired'
    BY <1>2
  <2> QED
    BY <2>1, WholePart, InstFacts
<1>4. CASE NeedsInput(inst)
  <2>1. misc' = m
    BY <1>1, <1>4
  <2>2. SourceSound'
    BY <1>2, <1>3, <2>1 DEF SourceSound, PartOf, ByteIn
  <2> QED
    BY <1>2, <1>4, <2>1, <2>2 DEF MiscInv
<1>5. CASE ~ NeedsInput(inst)
  <2>1. misc' = [stage |-> "wb", inst |-> inst, src |-> Zero, valid |-> {},
                 result |-> ComputeResult(inst, Zero), wb_byte |-> 0]
    BY <1>1, <1>5 DEF Computed
  <2>2. SourceSound'
    BY <1>2, <1>3, <2>1 DEF SourceSound
  <2>3. ResultSound'
    <3>1. ComputeResult(inst, Zero) = ComputeResult(inst, SourceOf(fired', inst.rsBytes))
      BY <1>5, NoInput
    <3>2. 0 \in 0 .. OutputBytes(inst) - 1
      BY InstFacts
    <3> QED
      BY <2>1, <3>1, <3>2 DEF ResultSound
  <2> QED
    BY <1>2, <2>1, <2>2, <2>3 DEF MiscInv
<1> QED
  BY <1>4, <1>5

\* A plane that comes is merged; only the last one that was missing starts
\* the computation, on the whole source (lines 329-349).
LEMMA InputKeeps ==
  ASSUME MiscInv, NEW b \in Byte, MemInput(b)
  PROVE  /\ MiscInv'
         /\ misc'.stage # "idle" /\ misc'.inst = misc.inst /\ misc'.wb_byte = misc.wb_byte
<1>1. /\ misc.stage # "idle" /\ SourceSound /\ fired' = fired
      /\ miscMemInput(b, PlaneOf(fired, b))
  BY DEF MemInput, MiscInv
<1>2. CASE ~ Expects(b)
  <2>1. misc' = misc
    BY <1>1, <1>2 DEF miscMemInput
  <2> QED
    BY <1>1, <2>1 DEF MiscInv, SourceSound, ResultSound
<1>3. CASE Expects(b)
  <2> DEFINE m == [stage |-> misc.stage, inst |-> misc.inst, src |-> PartOf(fired, misc.valid \cup {b}),
                   valid |-> misc.valid \cup {b}, result |-> misc.result, wb_byte |-> misc.wb_byte]
  <2>1. b \in 0 .. misc.inst.rsBytes - 1 /\ NeedsInput(misc.inst)
    BY <1>3 DEF Expects
  <2>2. misc.valid \in SUBSET Byte /\ misc.inst \in Insts /\ fired \in 1 .. MaxFired
    BY <1>1, InstFacts DEF SourceSound
  <2>3. Merge(misc.src, b, PlaneOf(fired, b)) = PartOf(fired, misc.valid \cup {b})
    BY <1>1, <2>2, MergePart DEF SourceSound
  <2>4. [misc EXCEPT !.src = Merge(@, b, PlaneOf(fired, b)), !.valid = @ \cup {b}] = m
    <3>1. misc = [stage |-> misc.stage, inst |-> misc.inst, src |-> misc.src,
                  valid |-> misc.valid, result |-> misc.result, wb_byte |-> misc.wb_byte]
      BY DEF MiscInv
    <3>2. PICK x, y : x = PartOf(fired, misc.valid \cup {b}) /\ y = misc.valid \cup {b}
      OBVIOUS
    <3>3. PICK z : z = [misc EXCEPT !.src = x, !.valid = y]
      OBVIOUS
    <3>4. z = [stage |-> misc.stage, inst |-> misc.inst, src |-> x, valid |-> y,
               result |-> misc.result, wb_byte |-> misc.wb_byte]
      BY <3>1, <3>3
    <3> QED
      BY <2>3, <3>2, <3>3, <3>4
  <2>5. misc' = IF InputReady(m) /\ misc.stage = "wait" THEN Computed(m) ELSE m
    BY <1>1, <1>3, <2>4 DEF miscMemInput
  <2>6. m.valid \in SUBSET (0 .. misc.inst.rsBytes - 1)
    BY <1>1, <2>1 DEF SourceSound
  <2>7. CASE InputReady(m) /\ misc.stage = "wait"
    <3>1. misc' = [stage |-> "wb", inst |-> misc.inst, src |-> m.src, valid |-> m.valid,
                   result |-> ComputeResult(misc.inst, m.src), wb_byte |-> 0]
      BY <2>5, <2>7 DEF Computed
    <3>2. m.valid = 0 .. misc.inst.rsBytes - 1
      BY <2>1, <2>6, <2>7 DEF InputReady
    <3>3. m.src = SourceOf(fired, misc.inst.rsBytes)
      BY <2>2, <3>2, WholePart, InstFacts
    <3>4. misc.wb_byte = 0
      BY <2>7 DEF MiscInv
    <3>5. SourceSound'
      BY <1>1, <2>2, <2>6, <3>1 DEF SourceSound
    <3>6. ResultSound'
      <4>1. 0 \in 0 .. OutputBytes(misc.inst) - 1
        BY <2>2, InstFacts
      <4> QED
        BY <1>1, <3>1, <3>3, <4>1 DEF ResultSound
    <3> QED
      BY <1>1, <3>1, <3>4, <3>5, <3>6 DEF MiscInv
  <2>8. CASE ~ (InputReady(m) /\ misc.stage = "wait")
    <3>1. misc' = m
      BY <2>5, <2>8
    <3>2. SourceSound'
      BY <1>1, <2>2, <2>6, <3>1 DEF SourceSound
    <3>3. misc.stage = "wb" => ResultSound'
      BY <1>1, <3>1 DEF ResultSound, MiscInv
    <3> QED
      BY <1>1, <3>1, <3>2, <3>3 DEF MiscInv
  <2> QED
    BY <2>7, <2>8
<1> QED
  BY <1>2, <1>3

\* A plane that is taken is counted; the last one ends the instruction.
LEMMA TickKeeps ==
  ASSUME MiscInv, NEW taken \in BOOLEAN, Tick(taken), fired' = fired
  PROVE  /\ MiscInv'
         /\ misc.stage = "wb" /\ taken =>
              /\ misc'.inst = misc.inst
              /\ IF Last THEN misc'.stage = "idle"
                 ELSE misc'.stage = "wb" /\ misc'.wb_byte = misc.wb_byte + 1
<1>1. CASE ~ (misc.stage = "wb" /\ taken)
  <2>1. misc' = misc
    BY <1>1 DEF Tick
  <2> QED
    BY <1>1, <2>1 DEF MiscInv, SourceSound, ResultSound
<1>2. CASE misc.stage = "wb" /\ taken
  <2>1. SourceSound /\ ResultSound /\ fired \in 0 .. MaxFired
    BY <1>2 DEF MiscInv
  <2>2. CASE Last
    <3>1. misc' = [misc EXCEPT !.stage = "idle", !.wb_byte = 0]
      BY <1>2, <2>2 DEF Tick
    <3>2. misc' = [stage |-> "idle", inst |-> misc.inst, src |-> misc.src, valid |-> misc.valid,
                   result |-> misc.result, wb_byte |-> 0]
      BY <3>1 DEF MiscInv
    <3> QED
      BY <2>1, <2>2, <3>2 DEF MiscInv
  <2>3. CASE ~ Last
    <3>1. misc' = [misc EXCEPT !.wb_byte = @ + 1]
      BY <1>2, <2>3 DEF Tick
    <3>2. misc' = [stage |-> "wb", inst |-> misc.inst, src |-> misc.src, valid |-> misc.valid,
                   result |-> misc.result, wb_byte |-> misc.wb_byte + 1]
      BY <1>2, <3>1 DEF MiscInv
    <3>3. misc.wb_byte + 1 \in 0 .. OutputBytes(misc.inst) - 1
      <4>1. OutputBytes(misc.inst) \in 1 .. 4
        BY <2>1, InstFacts DEF SourceSound
      <4> QED
        BY <2>1, <2>3, <4>1 DEF Last, ResultSound
    <3>4. SourceSound'
      BY <2>1, <3>2 DEF SourceSound
    <3>5. ResultSound'
      BY <2>1, <3>2, <3>3 DEF ResultSound
    <3> QED
      BY <2>1, <2>3, <3>2, <3>4, <3>5 DEF MiscInv
  <2> QED
    BY <2>2, <2>3
<1> QED
  BY <1>1, <1>2

\* In every state the planes of the source that came are in it, and from the
\* last of them on the result is that of the whole source.
THEOREM MiscIsSound == Spec => []MiscInv
<1>1. Init => MiscInv
  BY FiredAssumption DEF Init, MiscInv
<1>2. MiscInv /\ [Next]_vars => MiscInv'
  <2> SUFFICES ASSUME MiscInv, [Next]_vars
               PROVE  MiscInv'
    OBVIOUS
  <2>1. ASSUME NEW inst \in Insts, Fire(inst)
        PROVE  MiscInv'
    BY <2>1, FireKeeps
  <2>2. ASSUME NEW b \in Byte, MemInput(b)
        PROVE  MiscInv'
    BY <2>2, InputKeeps
  <2>3. ASSUME NEW taken \in BOOLEAN, Tick(taken), fired' = fired
        PROVE  MiscInv'
    BY <2>3, TickKeeps
  <2>4. CASE UNCHANGED vars
    BY <2>4 DEF vars, MiscInv, SourceSound, ResultSound
  <2> QED
    BY <2>1, <2>2, <2>3, <2>4 DEF Next, Cycle
<1> QED
  BY <1>1, <1>2, PTL DEF Spec

-----------------------------------------------------------------------------
(* The refinement of the plane port.                                       *)

\* The one slot of the port: the substitution of Tmisc.
MiscSlots ==
  [s \in {1} |->
    IF misc.stage = "idle" THEN [busy |-> FALSE]
    ELSE [busy |-> TRUE, request |-> Request(misc.inst, fired), sent |-> misc.wb_byte]]

\* What the slot holds in each case.
LEMMA MiscSlotFacts ==
  /\ misc.stage = "idle" => MiscSlots = [s \in {1} |-> Port!NoRequest]
  /\ misc.stage # "idle" =>
       MiscSlots = [s \in {1} |-> Port!Pending(Request(misc.inst, fired), misc.wb_byte)]
  BY DEF MiscSlots, Port!NoRequest, Port!Pending

\* An instruction that is fired is a request the port accepts.
LEMMA FireImplements ==
  ASSUME MiscInv, NEW inst \in Insts, Fire(inst)
  PROVE  Port!Next
<1>1. misc.stage = "idle" /\ wb' = wb
  BY DEF Fire, s0MiscFire
<1>2. misc'.stage # "idle" /\ misc'.inst = inst /\ misc'.wb_byte = 0 /\ fired' \in 1 .. MaxFired
  BY FireKeeps
<1>3. PICK n \in 1 .. MaxFired : n = fired'
  BY <1>2
<1>4. MiscSlots = [s \in {1} |-> Port!NoRequest]
  BY <1>1, MiscSlotFacts
<1>5. MiscSlots' = [s \in {1} |-> Port!Pending(Request(inst, n), 0)]
  BY <1>2, <1>3 DEF MiscSlots, Port!Pending, Request
<1>6. MiscSlots' = [MiscSlots EXCEPT ![1] = Port!Pending(Request(inst, n), 0)]
  BY <1>4, <1>5
<1>7. Port!Fire(1, Request(inst, n))
  BY <1>1, <1>4, <1>6 DEF Port!Fire, MiscSlots
<1> QED
  BY <1>7 DEF Port!Next

\* A tick gives the plane that is due, or nothing.
LEMMA TickImplements ==
  ASSUME MiscInv, NEW taken \in BOOLEAN, Tick(taken), fired' = fired
  PROVE  Port!Next
<1>1. CASE ~ (misc.stage = "wb" /\ taken)
  <2>1. misc' = misc /\ wb' = <<>>
    BY <1>1 DEF Tick
  <2>2. MiscSlots' = MiscSlots
    BY <2>1 DEF MiscSlots, Request
  <2>3. Port!Quiet
    BY <2>1, <2>2 DEF Port!Quiet, MiscSlots
  <2> QED
    BY <2>3 DEF Port!Next
<1>2. CASE misc.stage = "wb" /\ taken
  <2>1. wb' = <<Writeback>>
    BY <1>2 DEF Tick
  <2>2. /\ misc'.inst = misc.inst
        /\ IF Last THEN misc'.stage = "idle"
           ELSE misc'.stage = "wb" /\ misc'.wb_byte = misc.wb_byte + 1
    BY <1>2, TickKeeps
  <2>3. PICK m, n : m = Request(misc.inst, fired) /\ n = misc.wb_byte
    OBVIOUS
  <2>4. /\ m.rd = misc.inst.rd /\ m.bytes = OutputBytes(misc.inst)
        /\ m.inst = misc.inst /\ m.n = fired
    BY <2>3 DEF Request
  <2>5. Last <=> n + 1 = m.bytes
    <3>1. OutputBytes(misc.inst) \in 1 .. 4 /\ n \in 0 .. OutputBytes(misc.inst) - 1
      BY <1>2, <2>3, InstFacts DEF MiscInv, SourceSound, ResultSound
    <3> QED
      BY <2>3, <2>4, <3>1 DEF Last
  <2>6. Writeback = Port!Plane(m, n)
    <3>1. Plane(misc.result, n) = Result(m, n)
      BY <1>2, <2>4 DEF MiscInv, ResultSound, Result
    <3> QED
      BY <2>3, <2>4, <2>5, <3>1 DEF Writeback, Port!Plane
  <2>7. MiscSlots = [s \in {1} |-> Port!Pending(m, n)]
    BY <1>2, <2>3, MiscSlotFacts
  <2>8. MiscSlots' = [s \in {1} |->
          IF n + 1 = m.bytes THEN Port!NoRequest ELSE Port!Pending(m, n + 1)]
    <3>1. CASE Last
      BY <2>2, <2>5, <3>1 DEF MiscSlots, Port!NoRequest
    <3>2. CASE ~ Last
      BY <2>2, <2>3, <2>5, <3>2 DEF MiscSlots, Port!Pending, Request
    <3> QED
      BY <3>1, <3>2
  <2>9. Port!Deliver(1)
    <3>1. MiscSlots[1] = Port!Pending(m, n) /\ MiscSlots[1] # Port!NoRequest
      BY <2>7 DEF Port!Pending, Port!NoRequest
    <3>2. MiscSlots[1].request = m /\ MiscSlots[1].sent = n
      BY <3>1 DEF Port!Pending
    <3>3. MiscSlots' = [MiscSlots EXCEPT ![1] =
            IF n + 1 = m.bytes THEN Port!NoRequest ELSE Port!Pending(m, n + 1)]
      BY <2>7, <2>8
    <3> QED
      BY <2>1, <2>6, <3>1, <3>2, <3>3 DEF Port!Deliver, MiscSlots
  <2> QED
    BY <2>9 DEF Port!Next
<1> QED
  BY <1>1, <1>2

\* Every instruction gives back the operation applied to its own source,
\* plane by plane, each once, in whatever order the planes of the source come
\* and however late some come again (lines 313 to 375).
THEOREM MiscImplementsPlanePort == Spec => ImplementsPlanePort
<1>1. Init => Port!Init
  BY MiscSlotFacts DEF Init, Port!Init, MiscSlots
<1>2. MiscInv /\ [Next]_vars => [Port!Next]_<<MiscSlots, wb>>
  <2> SUFFICES ASSUME MiscInv, [Next]_vars
               PROVE  Port!Next \/ UNCHANGED <<MiscSlots, wb>>
    OBVIOUS
  <2>1. ASSUME NEW inst \in Insts, Fire(inst)
        PROVE  Port!Next
    BY <2>1, FireImplements
  <2>2. ASSUME NEW b \in Byte, MemInput(b)
        PROVE  UNCHANGED <<MiscSlots, wb>>
    <3>1. /\ misc.stage # "idle" /\ misc'.stage # "idle" /\ misc'.inst = misc.inst
          /\ misc'.wb_byte = misc.wb_byte /\ fired' = fired /\ wb' = wb
      BY <2>2, InputKeeps DEF MemInput
    <3> QED
      BY <3>1 DEF MiscSlots, Request
  <2>3. ASSUME NEW taken \in BOOLEAN, Tick(taken), fired' = fired
        PROVE  Port!Next
    BY <2>3, TickImplements
  <2>4. CASE UNCHANGED vars
    BY <2>4 DEF vars, MiscSlots, Request
  <2> QED
    BY <2>1, <2>2, <2>3, <2>4 DEF Next, Cycle
<1> QED
  BY <1>1, <1>2, MiscIsSound, PTL
     DEF Spec, ImplementsPlanePort, Port!Spec, MiscSlots

-----------------------------------------------------------------------------
(* The laws of the operations.                                             *)

\* An instruction, of any operation.
TileInst ==
  [op : STRING, rd : Nat, rdBytes : 1 .. 4, rsBytes : 1 .. 4, signed : BOOLEAN, value : Int,
   row_step : Int, col_step : Int, step : Int, row_off : Int, col_off : Int,
   row : Nat, col : Nat, up : Nat, bottom : Nat, left : Nat, right : Nat,
   mask_mode : STRING, invert : BOOLEAN]

\* The tiles of a type.
TileOf(bytes) == [Index -> [Index -> 0 .. Modulus(bytes) - 1]]

\* Types have at least two values.
LEMMA ModulusType ==
  ASSUME NEW bytes \in 1 .. 4
  PROVE  Modulus(bytes) \in Nat \ {0}
<1> DEFINE B == ByteBase
<1>1. B \in Nat \ {0} /\ B * B \in Nat \ {0} /\ B * B * B \in Nat \ {0}
      /\ B * B * B * B \in Nat \ {0}
  BY TileAssumption
<1>2. bytes - 1 \in {0, 1, 2, 3}
  OBVIOUS
<1>3. Weight(bytes - 1) \in {1, B, B * B, B * B * B}
  BY <1>2 DEF Weight
<1>4. Weight(bytes - 1) * B \in {B, B * B, B * B * B, B * B * B * B}
  <2>1. 1 * B = B
    BY <1>1
  <2> QED
    BY <1>3, <2>1
<1> QED
  BY <1>1, <1>4 DEF Modulus

\* A value that fits is stored as it is.
LEMMA PackFits ==
  ASSUME NEW bytes \in 1 .. 4, NEW v \in 0 .. Modulus(bytes) - 1
  PROVE  PackValue(v, bytes) = v
<1>1. Modulus(bytes) \in Nat \ {0}
  BY ModulusType
<1>2. v = 0 * Modulus(bytes) + v
  BY <1>1
<1> QED
  BY <1>1, <1>2, DivUnique DEF PackValue

\* A value is stored like one that is a modulus less.
LEMMA PackWraps ==
  ASSUME NEW bytes \in 1 .. 4, NEW v \in Int
  PROVE  /\ PackValue(v, bytes) \in 0 .. Modulus(bytes) - 1
         /\ PackValue(v - Modulus(bytes), bytes) = PackValue(v, bytes)
<1> DEFINE M == Modulus(bytes)
           q == v \div M
           r == v % M
<1>1. M \in Nat \ {0}
  BY ModulusType
<1> HIDE DEF M
<1>2. q \in Int /\ r \in 0 .. M - 1 /\ v = q * M + r
  BY <1>1
<1> HIDE DEF q, r
<1>3. v - M = (q - 1) * M + r /\ q - 1 \in Int /\ v - M \in Int
  BY <1>1, <1>2
<1>4. (v - M) % M = r
  BY <1>1, <1>2, <1>3, DivUnique
<1>5. v % M = r
  BY DEF r
<1> QED
  BY <1>2, <1>4, <1>5 DEF PackValue, M


\* Quotient and remainder.
LEMMA DivMod ==
  ASSUME NEW n \in Int, NEW d \in Nat \ {0}
  PROVE  n \div d \in Int /\ n % d \in 0 .. d - 1 /\ n = (n \div d) * d + (n % d)
OBVIOUS

\* The index of C, made positive, is the remainder of mathematics.
LEMMA ModIndexFacts ==
  ASSUME NEW v \in Int
  PROVE  /\ ModIndex(v) \in Index
         /\ \E q \in Int : v = q * TILE_SIZE + ModIndex(v)
<1> DEFINE T == TILE_SIZE
<1>1. T \in Nat \ {0} /\ Index = 0 .. T - 1
  BY TileAssumption DEF Index
<1> HIDE DEF T
<1>2. ASSUME NEW n \in Int
      PROVE  n \div T \in Int /\ n % T \in 0 .. T - 1 /\ n = (n \div T) * T + (n % T)
  BY <1>1
<1>3. CASE v >= 0
  <2>1. Remainder(v) = v % T
    BY <1>3 DEF Remainder, T
  <2>2. ModIndex(v) = v % T
    BY <1>1, <1>2, <2>1 DEF ModIndex, T
  <2> QED
    BY <1>1, <1>2, <1>3, <2>2 DEF T
<1>4. CASE v < 0
  <2> DEFINE w == - v
             q == w \div T
             r == w % T
  <2>1. w \in Int /\ q \in Int /\ r \in 0 .. T - 1 /\ w = q * T + r
    BY <1>2
  <2>2. Remainder(v) = 0 - r
    <3>1. Remainder(v) = - r
      BY <1>4 DEF Remainder, T
    <3> QED
      BY <2>1, <3>1
  <2> HIDE DEF q, r
  <2>3. CASE r = 0
    <3>1. Remainder(v) = 0
      BY <1>1, <2>1, <2>2, <2>3
    <3>2. ModIndex(v) = 0
      BY <1>1, <3>1 DEF ModIndex, T
    <3> DEFINE p == - q
    <3>3. v = p * T + 0 /\ p \in Int
      BY <1>1, <2>1, <2>3
    <3> HIDE DEF p
    <3> QED
      BY <1>1, <3>2, <3>3 DEF T
  <2>4. CASE r # 0
    <3>1. ModIndex(v) = T - r
      BY <1>1, <2>1, <2>2, <2>4 DEF ModIndex, T
    <3>2. v = (- q - 1) * T + (T - r) /\ - q - 1 \in Int /\ T - r \in 0 .. T - 1
      BY <1>1, <2>1, <2>4
    <3> QED
      BY <1>1, <3>1, <3>2 DEF T
  <2> QED
    BY <2>3, <2>4
<1> QED
  BY <1>3, <1>4

\* Fillings agree.
LEMMA FillLaw ==
  ASSUME NEW inst \in TileInst
  PROVE  FillsAgree(inst)
<1> DEFINE line == [inst EXCEPT !.row_step = TILE_SIZE * inst.step, !.col_step = inst.step]
           other == [inst EXCEPT !.signed = ~ inst.signed]
           M == Modulus(inst.rdBytes)
           m == PackValue(inst.value, inst.rdBytes)
<1>1. /\ inst.rdBytes \in 1 .. 4 /\ inst.value \in Int /\ inst.signed \in BOOLEAN
      /\ inst.row_step \in Int /\ inst.col_step \in Int /\ inst.step \in Int
  BY DEF TileInst
<1>2. /\ line.row_step = TILE_SIZE * inst.step /\ line.col_step = inst.step
      /\ line.value = inst.value /\ line.rdBytes = inst.rdBytes /\ line.signed = inst.signed
  BY DEF TileInst
<1>3. /\ other.row_step = inst.row_step /\ other.col_step = inst.col_step
      /\ other.value = inst.value /\ other.rdBytes = inst.rdBytes /\ other.signed = ~ inst.signed
  BY DEF TileInst
<1> HIDE DEF line, other
<1>4. M \in Nat \ {0} /\ m \in 0 .. M - 1
  BY <1>1, ModulusType, PackWraps
<1> HIDE DEF M, m
<1>5. Base(inst) \in {m, m - M} /\ Base(other) \in {m, m - M}
  BY <1>1, <1>3 DEF Base, SignedOrUnsigned, M, m
<1>6. Base(inst) \in Int /\ Base(line) = Base(inst)
  BY <1>2, <1>4, <1>5 DEF Base
<1>7. FillLine(inst) = Fill(line)
  <2>1. ASSUME NEW r \in Index, NEW c \in Index
        PROVE  Base(inst) + inst.step * (r * TILE_SIZE + c)
                 = Base(line) + line.row_step * r + line.col_step * c
    <3>1. r \in Int /\ c \in Int /\ TILE_SIZE \in Int
      BY TileAssumption DEF Index
    <3>2. inst.step * (r * TILE_SIZE + c) = (TILE_SIZE * inst.step) * r + inst.step * c
      BY <1>1, <3>1
    <3> DEFINE x == (TILE_SIZE * inst.step) * r
               y == inst.step * c
    <3>3. x \in Int /\ y \in Int
      BY <1>1, <3>1
    <3>4. line.row_step * r = x /\ line.col_step * c = y
      BY <1>2
    <3> HIDE DEF x, y
    <3>5. inst.step * (r * TILE_SIZE + c) = x + y
      BY <3>2 DEF x, y
    <3> QED
      BY <1>6, <3>3, <3>4, <3>5
  <2> QED
    BY <1>2, <2>1 DEF FillLine, Fill
<1>8. Fill(inst) = Fill(other)
  <2>1. ASSUME NEW r \in Index, NEW c \in Index
        PROVE  PackValue(Base(inst) + inst.row_step * r + inst.col_step * c, inst.rdBytes) =
                 PackValue(Base(other) + inst.row_step * r + inst.col_step * c, inst.rdBytes)
    <3> DEFINE x == inst.row_step * r
               y == inst.col_step * c
    <3>1. x \in Int /\ y \in Int
      <4>1. r \in Int /\ c \in Int
        BY TileAssumption DEF Index
      <4> QED
        BY <1>1, <4>1
    <3> HIDE DEF x, y
    <3>2. PackValue((m + x + y) - M, inst.rdBytes) = PackValue(m + x + y, inst.rdBytes)
      BY <1>1, <1>4, <3>1, PackWraps DEF M
    <3>3. (m - M) + x + y = (m + x + y) - M
      BY <1>4, <3>1
    <3>4. PackValue((m - M) + x + y, inst.rdBytes) = PackValue(m + x + y, inst.rdBytes)
      BY <3>2, <3>3
    <3>5. \A b1, b2 \in {m, m - M} :
            PackValue(b1 + x + y, inst.rdBytes) = PackValue(b2 + x + y, inst.rdBytes)
      BY <3>4
    <3> QED
      BY <1>5, <3>5 DEF x, y
  <2> QED
    BY <1>3, <2>1 DEF Fill
<1> QED
  BY <1>7, <1>8 DEF FillsAgree, line, other

\* Where the elements of a turned tile come from.
LEMMA TransFacts ==
  ASSUME NEW inst \in TileInst, NEW op \in Transposes, NEW src \in TileOf(inst.rdBytes)
  PROVE  /\ Turned(inst, op, src) \in TileOf(inst.rdBytes)
         /\ \A r, c \in Index :
              Turned(inst, op, src)[r][c] = CASE op = "TTRANS"    -> src[c][r]
                                              [] op = "TTRANS_RR" -> src[TILE_SIZE - 1 - r][c]
                                              [] op = "TTRANS_RC" -> src[r][TILE_SIZE - 1 - c]
<1> DEFINE to(r, c) == CASE op = "TTRANS"    -> src[c][r]
                         [] op = "TTRANS_RR" -> src[TILE_SIZE - 1 - r][c]
                         [] op = "TTRANS_RC" -> src[r][TILE_SIZE - 1 - c]
           i == [inst EXCEPT !.op = op]
<1>1. i.op = op /\ i.rdBytes = inst.rdBytes /\ inst.rdBytes \in 1 .. 4
  BY DEF TileInst
<1> HIDE DEF i
<1>2. ASSUME NEW r \in Index, NEW c \in Index
      PROVE  to(r, c) \in 0 .. Modulus(inst.rdBytes) - 1
  <2>1. TILE_SIZE - 1 - r \in Index /\ TILE_SIZE - 1 - c \in Index
    BY TileAssumption DEF Index
  <2> QED
    BY <2>1 DEF TileOf, Transposes
<1>3. Turned(inst, op, src) = [r \in Index |-> [c \in Index |-> PackValue(to(r, c), inst.rdBytes)]]
  <2>1. Turned(inst, op, src) = Trans(i, src)
    BY DEF Turned, i
  <2> QED
    BY <1>1, <2>1 DEF Trans
<1>4. \A r, c \in Index : PackValue(to(r, c), inst.rdBytes) = to(r, c)
  BY <1>1, <1>2, PackFits
<1> HIDE DEF to
<1>5. Turned(inst, op, src) = [r \in Index |-> [c \in Index |-> to(r, c)]]
  BY <1>3, <1>4
<1>6. Turned(inst, op, src) \in TileOf(inst.rdBytes)
  BY <1>2, <1>5 DEF TileOf
<1>7. \A r, c \in Index : Turned(inst, op, src)[r][c] = to(r, c)
  BY <1>5
<1> QED
  BY <1>6, <1>7 DEF to

\* Tiles are equal when their elements are.
LEMMA SameTile ==
  ASSUME NEW bytes, NEW s \in TileOf(bytes), NEW t \in TileOf(bytes),
         \A r, c \in Index : s[r][c] = t[r][c]
  PROVE  s = t
<1>1. ASSUME NEW r \in Index
      PROVE  s[r] = t[r]
  <2>1. s[r] \in [Index -> 0 .. Modulus(bytes) - 1] /\ t[r] \in [Index -> 0 .. Modulus(bytes) - 1]
    BY DEF TileOf
  <2> QED
    BY <2>1
<1> QED
  BY <1>1 DEF TileOf

\* Turning back what was turned.
LEMMA TurnLaw ==
  ASSUME NEW inst \in TileInst, NEW src \in TileOf(inst.rdBytes)
  PROVE  TurnsConjugate(inst, src)
<1> DEFINE Tile == TileOf(inst.rdBytes)
           T == TILE_SIZE
<1>1. \A i \in Index : T - 1 - i \in Index /\ T - 1 - (T - 1 - i) = i
  BY TileAssumption DEF Index
<1>2. "TTRANS" \in Transposes /\ "TTRANS_RR" \in Transposes /\ "TTRANS_RC" \in Transposes
  BY DEF Transposes
<1>3. ASSUME NEW t \in Tile
      PROVE  /\ Turned(inst, "TTRANS", t) \in Tile
             /\ Turned(inst, "TTRANS_RR", t) \in Tile
             /\ Turned(inst, "TTRANS_RC", t) \in Tile
             /\ \A r, c \in Index :
                  /\ Turned(inst, "TTRANS", t)[r][c] = t[c][r]
                  /\ Turned(inst, "TTRANS_RR", t)[r][c] = t[T - 1 - r][c]
                  /\ Turned(inst, "TTRANS_RC", t)[r][c] = t[r][T - 1 - c]
  BY <1>2, TransFacts
<1>4. ASSUME NEW op \in Transposes
      PROVE  Turned(inst, op, Turned(inst, op, src)) = src
  <2> DEFINE twice == Turned(inst, op, Turned(inst, op, src))
  <2>1. op \in {"TTRANS", "TTRANS_RR", "TTRANS_RC"}
    BY DEF Transposes
  <2>2. twice \in Tile
    BY <1>3, <2>1
  <2>3. \A r, c \in Index : twice[r][c] = src[r][c]
    BY <1>1, <1>3, <2>1
  <2> HIDE DEF twice
  <2>4. twice = src
    BY <2>2, <2>3, SameTile
  <2> QED
    BY <2>4 DEF twice
<1>5. Turned(inst, "TTRANS_RC", src) =
        Transposed(inst, Turned(inst, "TTRANS_RR", Transposed(inst, src)))
  <2> DEFINE s == Turned(inst, "TTRANS_RC", src)
             u == Turned(inst, "TTRANS", src)
             v == Turned(inst, "TTRANS_RR", u)
             t == Turned(inst, "TTRANS", v)
  <2>1. s \in Tile /\ u \in Tile
    BY <1>3
  <2>2. v \in Tile
    BY <1>3, <2>1
  <2>3. t \in Tile
    BY <1>3, <2>2
  <2>4. ASSUME NEW r \in Index, NEW c \in Index
        PROVE  s[r][c] = t[r][c]
    <3>1. s[r][c] = src[r][T - 1 - c]
      BY <1>3
    <3>2. t[r][c] = v[c][r]
      BY <1>3, <2>2
    <3>3. v[c][r] = u[T - 1 - c][r]
      BY <1>3, <2>1
    <3>4. u[T - 1 - c][r] = src[r][T - 1 - c]
      BY <1>1, <1>3
    <3> QED
      BY <3>1, <3>2, <3>3, <3>4
  <2> HIDE DEF s, t
  <2>5. s = t
    BY <2>1, <2>3, <2>4, SameTile
  <2> QED
    BY <2>5 DEF s, t, Transposed
<1> QED
  BY <1>4, <1>5 DEF TurnsConjugate

\* Spreading over the tile is spreading over rows and columns.
LEMMA CastLaw ==
  ASSUME NEW inst \in TileInst, NEW src \in TileOf(inst.rdBytes)
  PROVE  CastsConjugate(inst, src)
<1> DEFINE Tile == TileOf(inst.rdBytes)
           T == TILE_SIZE
           x == inst.row % T
           y == inst.col % T
           Cast(op, tile) == Bcast([inst EXCEPT !.op = op], tile)
           across == [inst EXCEPT !.op = "TBCAST_R", !.col = inst.row + T]
<1>1. /\ inst.rdBytes \in 1 .. 4 /\ inst.row \in Nat /\ inst.col \in Nat
      /\ x \in Index /\ y \in Index /\ (inst.row + T) % T = x
  <2>1. T \in Nat \ {0} /\ inst.rdBytes \in 1 .. 4 /\ inst.row \in Nat /\ inst.col \in Nat
    BY TileAssumption DEF TileInst
  <2> DEFINE q == inst.row \div T
  <2>2. q \in Int /\ x \in 0 .. T - 1 /\ y \in 0 .. T - 1 /\ inst.row = q * T + x
    <3>1. ASSUME NEW n \in Nat
          PROVE  n \div T \in Int /\ n % T \in 0 .. T - 1 /\ n = (n \div T) * T + (n % T)
      <4> HIDE DEF T
      <4> QED
        BY <2>1, DivMod
    <3> HIDE DEF T
    <3> QED
      BY <2>1, <3>1
  <2> HIDE DEF q, x
  <2>3. inst.row + T = (q + 1) * T + x /\ q + 1 \in Int /\ inst.row + T \in Int
    BY <2>1, <2>2
  <2>4. (inst.row + T) % T = x
    BY <2>1, <2>2, <2>3, DivUnique
  <2> QED
    BY <2>1, <2>2, <2>4 DEF Index
<1>2. \A r, c \in Index : \A t \in Tile : PackValue(t[r][c], inst.rdBytes) = t[r][c]
  BY <1>1, PackFits DEF TileOf
<1>3. ASSUME NEW t \in Tile, NEW i, NEW op, i.op = op, i.rdBytes = inst.rdBytes,
             op \in Broadcasts, i.row % T = x, i.col % T \in Index
      PROVE  /\ Bcast(i, t) \in Tile
             /\ \A r, c \in Index :
                  /\ op = "TBCAST"   => Bcast(i, t)[r][c] = t[x][i.col % T]
                  /\ op = "TBCAST_R" => Bcast(i, t)[r][c] = t[r][i.col % T]
                  /\ op = "TBCAST_C" => Bcast(i, t)[r][c] = t[x][c]
  <2> DEFINE from(r, c) == t[IF op = "TBCAST_R" THEN r ELSE x]
                            [IF op = "TBCAST_C" THEN c ELSE i.col % T]
  <2>1. \A r, c \in Index : PackValue(from(r, c), inst.rdBytes) = from(r, c)
    BY <1>1, <1>2, <1>3
  <2>2. \A r, c \in Index : from(r, c) \in 0 .. Modulus(inst.rdBytes) - 1
    BY <1>1, <1>3 DEF TileOf
  <2>3. Bcast(i, t) = [r \in Index |-> [c \in Index |-> PackValue(from(r, c), inst.rdBytes)]]
    BY <1>3 DEF Bcast
  <2> HIDE DEF from
  <2>4. Bcast(i, t) = [r \in Index |-> [c \in Index |-> from(r, c)]]
    BY <2>1, <2>3
  <2>5. Bcast(i, t) \in Tile
    BY <2>2, <2>4 DEF TileOf
  <2>6. \A r, c \in Index : Bcast(i, t)[r][c] = from(r, c)
    BY <2>4
  <2> QED
    BY <2>5, <2>6 DEF from
<1>4. ASSUME NEW t \in Tile, NEW op \in Broadcasts
      PROVE  /\ Cast(op, t) \in Tile
             /\ \A r, c \in Index :
                  /\ op = "TBCAST"   => Cast(op, t)[r][c] = t[x][y]
                  /\ op = "TBCAST_R" => Cast(op, t)[r][c] = t[r][y]
                  /\ op = "TBCAST_C" => Cast(op, t)[r][c] = t[x][c]
  <2> DEFINE i == [inst EXCEPT !.op = op]
  <2>1. i.op = op /\ i.rdBytes = inst.rdBytes /\ i.row = inst.row /\ i.col = inst.col
    BY DEF TileInst
  <2> HIDE DEF i
  <2>2. i.row % T = x /\ i.col % T = y
    BY <2>1
  <2> HIDE DEF x, y
  <2>3. /\ Bcast(i, t) \in Tile
        /\ \A r, c \in Index :
             /\ op = "TBCAST"   => Bcast(i, t)[r][c] = t[x][y]
             /\ op = "TBCAST_R" => Bcast(i, t)[r][c] = t[r][y]
             /\ op = "TBCAST_C" => Bcast(i, t)[r][c] = t[x][c]
    BY <1>1, <1>3, <2>1, <2>2
  <2> QED
    BY <2>3 DEF i
<1>5. ASSUME NEW t \in Tile
      PROVE  /\ Bcast(across, t) \in Tile
             /\ \A r, c \in Index : Bcast(across, t)[r][c] = t[r][x]
  <2>1. /\ across.op = "TBCAST_R" /\ across.rdBytes = inst.rdBytes /\ across.row = inst.row
        /\ across.col = inst.row + T
    BY DEF TileInst
  <2> HIDE DEF across
  <2>2. across.row % T = x /\ across.col % T = x
    BY <1>1, <2>1
  <2> HIDE DEF x
  <2>3. "TBCAST_R" \in Broadcasts
    BY DEF Broadcasts
  <2> QED
    BY <1>1, <1>3, <2>1, <2>2, <2>3
<1>6. ASSUME NEW t \in Tile
      PROVE  /\ Transposed(inst, t) \in Tile
             /\ \A r, c \in Index : Transposed(inst, t)[r][c] = t[c][r]
  <2>1. "TTRANS" \in Transposes
    BY DEF Transposes
  <2> QED
    BY <2>1, TransFacts DEF Transposed
<1> HIDE DEF x, y, Cast, across
<1>7. "TBCAST" \in Broadcasts /\ "TBCAST_R" \in Broadcasts /\ "TBCAST_C" \in Broadcasts
  BY DEF Broadcasts
<1>8. Cast("TBCAST_C", src) = Transposed(inst, Bcast(across, Transposed(inst, src)))
  <2> DEFINE s == Cast("TBCAST_C", src)
             u == Transposed(inst, src)
             v == Bcast(across, u)
             t == Transposed(inst, v)
  <2>1. s \in Tile /\ u \in Tile
    BY <1>4, <1>6, <1>7
  <2>2. v \in Tile
    BY <1>5, <2>1
  <2>3. t \in Tile
    BY <1>6, <2>2
  <2>4. ASSUME NEW r \in Index, NEW c \in Index
        PROVE  s[r][c] = t[r][c]
    <3>1. s[r][c] = src[x][c]
      BY <1>4, <1>7
    <3>2. t[r][c] = v[c][r]
      BY <1>6, <2>2
    <3>3. v[c][r] = u[c][x]
      BY <1>5, <2>1
    <3>4. u[c][x] = src[x][c]
      BY <1>1, <1>6
    <3> QED
      BY <3>1, <3>2, <3>3, <3>4
  <2> HIDE DEF s, t
  <2>5. s = t
    BY <2>1, <2>3, <2>4, SameTile
  <2> QED
    BY <2>5 DEF s, t
<1>9. Cast("TBCAST", src) = Cast("TBCAST_R", Cast("TBCAST_C", src))
  <2> DEFINE s == Cast("TBCAST", src)
             u == Cast("TBCAST_C", src)
             t == Cast("TBCAST_R", u)
  <2>1. s \in Tile /\ u \in Tile
    BY <1>4, <1>7
  <2>2. t \in Tile
    BY <1>4, <1>7, <2>1
  <2>3. ASSUME NEW r \in Index, NEW c \in Index
        PROVE  s[r][c] = t[r][c]
    <3>1. s[r][c] = src[x][y]
      BY <1>4, <1>7
    <3>2. t[r][c] = u[r][y]
      BY <1>4, <1>7, <2>1
    <3>3. u[r][y] = src[x][y]
      BY <1>1, <1>4, <1>7
    <3> QED
      BY <3>1, <3>2, <3>3
  <2> HIDE DEF s, t
  <2>4. s = t
    BY <2>1, <2>2, <2>3, SameTile
  <2> QED
    BY <2>4 DEF s, t
<1> QED
  BY <1>8, <1>9 DEF CastsConjugate, Cast, across

\* The triangles share out the rectangle, and inverted masks are complements.
LEMMA MaskLaw ==
  ASSUME NEW inst \in TileInst
  PROVE  MasksShareOut(inst)
<1> DEFINE of(mode) == [inst EXCEPT !.mask_mode = mode, !.invert = FALSE]
           other == [inst EXCEPT !.invert = ~ inst.invert]
<1> SUFFICES ASSUME NEW r \in Index, NEW c \in Index
             PROVE  /\ SetMask(of("UT"))[r][c] + SetMask(of("LT_D"))[r][c]
                         = SetMask(of("RECT"))[r][c]
                    /\ SetMask(of("LT"))[r][c] + SetMask(of("UT_D"))[r][c]
                         = SetMask(of("RECT"))[r][c]
                    /\ SetMask(inst)[r][c] + SetMask(other)[r][c] = 1
  BY DEF MasksShareOut
<1> DEFINE In(i) == TriangleContains(i, r, c)
           rect == RectContains(inst, r, c)
           lr == r - inst.up
           lc == c - inst.left
<1>1. ASSUME NEW i
      PROVE  /\ i.invert = FALSE => SetMask(i)[r][c] = IF In(i) THEN 1 ELSE 0
             /\ i.invert = TRUE => SetMask(i)[r][c] = IF In(i) THEN 0 ELSE 1
  <2>1. SetMask(i)[r][c] = IF In(i) # i.invert THEN 1 ELSE 0
    BY DEF SetMask
  <2>2. In(i) \in BOOLEAN
    BY DEF TriangleContains
  <2> HIDE DEF In
  <2>3. CASE i.invert = FALSE
    <3>1. In(i) # i.invert <=> In(i)
      BY <2>2, <2>3, Zenon
    <3> QED
      BY <2>1, <2>3, <3>1
  <2>4. CASE i.invert = TRUE
    <3>1. In(i) # i.invert <=> ~ In(i)
      BY <2>2, <2>4, Zenon
    <3> QED
      BY <2>1, <2>4, <3>1
  <2> QED
    BY <2>3, <2>4
<1>2. /\ other.invert = ~ inst.invert /\ inst.invert \in BOOLEAN
      /\ other.mask_mode = inst.mask_mode
      /\ other.up = inst.up /\ other.left = inst.left
      /\ other.bottom = inst.bottom /\ other.right = inst.right
  BY DEF TileInst
<1>3. SetMask(inst)[r][c] + SetMask(other)[r][c] = 1
  <2> HIDE DEF other
  <2>1. In(other) <=> In(inst)
    BY <1>2 DEF TriangleContains, RectContains
  <2> HIDE DEF In
  <2>2. CASE inst.invert = TRUE
    <3>1. other.invert = FALSE
      BY <1>2, <2>2
    <3>2. SetMask(inst)[r][c] = IF In(inst) THEN 0 ELSE 1
      BY <1>1, <2>2
    <3>3. SetMask(other)[r][c] = IF In(other) THEN 1 ELSE 0
      BY <1>1, <3>1
    <3> QED
      BY <2>1, <3>2, <3>3
  <2>3. CASE inst.invert = FALSE
    <3>1. other.invert = TRUE
      BY <1>2, <2>3
    <3>2. SetMask(inst)[r][c] = IF In(inst) THEN 1 ELSE 0
      BY <1>1, <2>3
    <3>3. SetMask(other)[r][c] = IF In(other) THEN 0 ELSE 1
      BY <1>1, <3>1
    <3> QED
      BY <2>1, <3>2, <3>3
  <2> QED
    BY <1>2, <2>2, <2>3
<1>4. ASSUME NEW mode
      PROVE  /\ SetMask(of(mode))[r][c] = IF In(of(mode)) THEN 1 ELSE 0
             /\ In(of(mode)) <=>
                  /\ rect
                  /\ mode = "UT"   => lc > lr
                  /\ mode = "UT_D" => lc >= lr
                  /\ mode = "LT"   => lc < lr
                  /\ mode = "LT_D" => lc <= lr
  <2> DEFINE i == of(mode)
  <2>1. /\ i.invert = FALSE /\ i.mask_mode = mode
        /\ i.up = inst.up /\ i.left = inst.left
        /\ i.bottom = inst.bottom /\ i.right = inst.right
    BY DEF TileInst
  <2> HIDE DEF i
  <2>2. RectContains(i, r, c) <=> rect
    BY <2>1 DEF RectContains
  <2> HIDE DEF rect
  <2>3. In(i) <=> /\ rect
                  /\ CASE mode = "UT"   -> lc > lr
                       [] mode = "UT_D" -> lc >= lr
                       [] mode = "LT"   -> lc < lr
                       [] mode = "LT_D" -> lc <= lr
                       [] OTHER -> TRUE
    BY <2>1, <2>2 DEF TriangleContains
  <2> HIDE DEF In
  <2>4. SetMask(i)[r][c] = IF In(i) THEN 1 ELSE 0
    BY <1>1, <2>1
  <2> QED
    BY <2>3, <2>4 DEF i
<1>5. lr \in Int /\ lc \in Int
  BY TileAssumption DEF TileInst, Index
<1> HIDE DEF other, lr, lc
<1>6. /\ SetMask(of("UT"))[r][c] = IF rect /\ lc > lr THEN 1 ELSE 0
      /\ SetMask(of("UT_D"))[r][c] = IF rect /\ lc >= lr THEN 1 ELSE 0
      /\ SetMask(of("LT"))[r][c] = IF rect /\ lc < lr THEN 1 ELSE 0
      /\ SetMask(of("LT_D"))[r][c] = IF rect /\ lc <= lr THEN 1 ELSE 0
      /\ SetMask(of("RECT"))[r][c] = IF rect THEN 1 ELSE 0
  <2>1. SetMask(of("UT"))[r][c] = IF rect /\ lc > lr THEN 1 ELSE 0
    BY <1>4
  <2>2. SetMask(of("UT_D"))[r][c] = IF rect /\ lc >= lr THEN 1 ELSE 0
    BY <1>4
  <2>3. SetMask(of("LT"))[r][c] = IF rect /\ lc < lr THEN 1 ELSE 0
    BY <1>4
  <2>4. SetMask(of("LT_D"))[r][c] = IF rect /\ lc <= lr THEN 1 ELSE 0
    BY <1>4
  <2>5. SetMask(of("RECT"))[r][c] = IF rect THEN 1 ELSE 0
    BY <1>4
  <2> QED
    BY <2>1, <2>2, <2>3, <2>4, <2>5
<1> QED
  BY <1>3, <1>5, <1>6

\* A remainder is decided by its number.
LEMMA ModIndexUnique ==
  ASSUME NEW v \in Int, NEW q \in Int, NEW i \in Index, v = q * TILE_SIZE + i
  PROVE  ModIndex(v) = i
<1>1. PICK p \in Int : v = p * TILE_SIZE + ModIndex(v)
  BY ModIndexFacts
<1> DEFINE T == TILE_SIZE
<1>2. T \in Nat \ {0} /\ Index = 0 .. T - 1
  BY TileAssumption DEF Index
<1>3. ModIndex(v) \in 0 .. T - 1
  BY <1>2, ModIndexFacts
<1> HIDE DEF T
<1>4. v % T = ModIndex(v)
  BY <1>1, <1>2, <1>3, DivUnique DEF T
<1>5. v % T = i
  BY <1>2, DivUnique DEF T
<1> QED
  BY <1>4, <1>5

\* Going back by an offset and forward again leads to the same index, and
\* stays inside the tile exactly if the way back does.
LEMMA BackAndForth ==
  ASSUME NEW i \in Index, NEW off \in Int
  PROVE  LET j == ModIndex(i + (- off))
         IN  /\ j \in Index
             /\ ModIndex(j + off) = i
             /\ j + off \in Index <=> i - off \in Index
<1> DEFINE T == TILE_SIZE
           j == ModIndex(i + (- off))
<1>1. T \in Nat \ {0} /\ Index = 0 .. T - 1
  BY TileAssumption DEF Index
<1>2. i + (- off) \in Int /\ i \in Int
  BY <1>1
<1>3. j \in Index /\ \E q \in Int : i + (- off) = q * T + j
  BY <1>2, ModIndexFacts
<1>4. PICK q \in Int : i + (- off) = q * T + j
  BY <1>3
<1> DEFINE p == - q
<1> HIDE DEF j
<1>5. p \in Int /\ j + off \in Int /\ j + off = p * T + i
  BY <1>1, <1>2, <1>3, <1>4
<1>6. ModIndex(j + off) = i
  BY <1>5, ModIndexUnique
<1>7. j + off \in Index <=> i - off \in Index
  <2>1. ASSUME j + off \in Index
        PROVE  q = 0
    <3>1. (j + off) \div T = 0
      BY <1>1, <2>1
    <3> HIDE DEF p, T
    <3>2. (j + off) \div T = p
      BY <1>1, <1>5, DivUnique
    <3> QED
      BY <3>1, <3>2 DEF p
  <2>2. ASSUME i - off \in Index
        PROVE  q = 0
    <3> DEFINE w == i + (- off)
    <3>1. w = i - off /\ w \in 0 .. T - 1
      BY <1>1, <1>2, <2>2
    <3> HIDE DEF w, T
    <3>2. w \div T = 0
      BY <1>1, <3>1
    <3>3. w \div T = q
      BY <1>1, <1>3, <1>4, <3>1, DivUnique DEF w, T
    <3> QED
      BY <3>2, <3>3
  <2>3. ASSUME q = 0
        PROVE  j + off \in Index /\ i - off \in Index
    <3>1. i + (- off) = j
      BY <1>1, <1>3, <1>4, <2>3
    <3> QED
      BY <1>1, <1>2, <1>3, <3>1
  <2> QED
    BY <2>1, <2>2, <2>3
<1> QED
  BY <1>3, <1>6, <1>7 DEF j

\* Shifts are undone.
LEMMA ShiftLaw ==
  ASSUME NEW inst \in TileInst, inst.op \in Shifts, NEW src \in TileOf(inst.rdBytes)
  PROVE  ShiftUndone(inst, src)
<1> DEFINE back == [inst EXCEPT !.op = "TSHIFT", !.row_off = - inst.row_off,
                                !.col_off = - inst.col_off]
           x == inst.row_off
           y == inst.col_off
           bytes == inst.rdBytes
           once == Shift(inst, src)
<1>1. x \in Int /\ y \in Int /\ bytes \in 1 .. 4
  BY DEF TileInst
<1>2. back.op = "TSHIFT" /\ back.row_off = - x /\ back.col_off = - y /\ back.rdBytes = bytes
  BY DEF TileInst
<1> HIDE DEF back
<1> SUFFICES ASSUME NEW r \in Index, NEW c \in Index
             PROVE  Shift(back, once)[r][c] =
                      IF inst.op = "TSHIFT" \/ (r - x \in Index /\ c - y \in Index)
                      THEN src[r][c] ELSE 0
  BY DEF ShiftUndone, back
<1> DEFINE i == ModIndex(r + (- x))
           j == ModIndex(c + (- y))
<1>3. /\ i \in Index /\ ModIndex(i + x) = r /\ (i + x \in Index <=> r - x \in Index)
      /\ j \in Index /\ ModIndex(j + y) = c /\ (j + y \in Index <=> c - y \in Index)
  BY <1>1, BackAndForth
<1>4. Shift(back, once)[r][c] = PackValue(once[i][j], bytes)
  BY <1>2 DEF Shift
<1> HIDE DEF i, j
<1>5. once[i][j] = IF inst.op = "TSHIFT_Z" /\ (i + x \notin Index \/ j + y \notin Index)
                   THEN 0 ELSE PackValue(src[ModIndex(i + x)][ModIndex(j + y)], bytes)
  BY <1>3 DEF Shift
<1>6. src[r][c] \in 0 .. Modulus(bytes) - 1 /\ PackValue(src[r][c], bytes) = src[r][c]
  BY <1>1, PackFits DEF TileOf
<1>7. PackValue(0, bytes) = 0
  <2>1. 0 \in 0 .. Modulus(bytes) - 1
    BY <1>1, ModulusType
  <2> QED
    BY <1>1, <2>1, PackFits
<1>8. inst.op \in {"TSHIFT", "TSHIFT_Z"}
  BY DEF Shifts
<1> HIDE DEF once, x, y, bytes
<1>9. once[i][j] = IF inst.op = "TSHIFT" \/ (r - x \in Index /\ c - y \in Index)
                   THEN src[r][c] ELSE 0
  BY <1>3, <1>5, <1>6, <1>8
<1> QED
  BY <1>4, <1>6, <1>7, <1>9

\* For tiles of any size with any bytes, any instruction and any source that
\* fits its result, the operations obey the laws of TileOps: fillings agree,
\* shifts are undone, turns and spreadings conjugate, masks share out the
\* rectangle (lines 133 to 274 of src/src/tmisc/TMISC.hpp).
THEOREM TileLawsHold ==
  \A inst \in TileInst : \A src \in TileOf(inst.rdBytes) :
    /\ FillsAgree(inst)
    /\ inst.op \in Shifts => ShiftUndone(inst, src)
    /\ TurnsConjugate(inst, src)
    /\ CastsConjugate(inst, src)
    /\ MasksShareOut(inst)
BY FillLaw, ShiftLaw, TurnLaw, CastLaw, MaskLaw
=============================================================================
