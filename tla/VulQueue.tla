------------------------------- MODULE VulQueue -------------------------------
(***************************************************************************)
(* The queues of the simulation library, tools/vullib/queue.hpp.           *)
(* VulQueueMP<T, Depth, EnqWidth, DeqWidth> is modelled; VulQueue is its   *)
(* instance with both widths 1.  The calls of a cycle register requests,   *)
(* and apply_next_tick, called by the scheduler at the end of the cycle,   *)
(* applies them to the ring.                                               *)
(***************************************************************************)
EXTENDS Integers, Sequences

CONSTANTS
  Depth,       \* slots of the ring
  EnqWidth,    \* values one call of enqnext may bring
  DeqWidth,    \* values the front window shows
  Value,       \* what the slots may hold
  Default      \* the value T{} the slots are built with

\* The static_asserts of the class.
ASSUME WidthAssumption ==
  Depth \in Nat \ {0} /\ EnqWidth \in Nat \ {0} /\ DeqWidth \in Nat \ {0}
ASSUME DefaultAssumption == Default \in Value

VARIABLES
  data,        \* data_: the ring
  head, tail, size,
  enqBuf,      \* enq_buf_, its first enq_pending_num_ values
  deqPending,  \* deq_pending_num_
  clrPending,  \* clr_pending_
  deqBuf       \* deq_buf_, its first deq_valid_num_ values

queueVars == <<data, head, tail, size, enqBuf, deqPending, clrPending, deqBuf>>

Least(m, n) == IF m < n THEN m ELSE n

\* Mutant: the free slots are not looked at (line 134).
EnqReadyAlways == EnqWidth

EnqReady == Least(Depth - size, EnqWidth)
DeqValid == Len(deqBuf)

\* enqnext, at most once per cycle and within enqreqdy (asserted).
EnqNext(values) ==
  /\ enqBuf = <<>>
  /\ Len(values) <= EnqReady
  /\ enqBuf' = values
  /\ UNCHANGED <<data, head, tail, size, deqPending, clrPending, deqBuf>>

\* Mutant: the window moves on before the end of the cycle.
DeqNextAtOnce(num) ==
  /\ deqPending = 0
  /\ num <= DeqValid
  /\ deqPending' = num
  /\ deqBuf' = SubSeq(deqBuf, num + 1, Len(deqBuf))
  /\ UNCHANGED <<data, head, tail, size, enqBuf, clrPending>>

\* deqnext, at most once per cycle and within deqvalid (asserted).
DeqNext(num) ==
  /\ deqPending = 0
  /\ num <= DeqValid
  /\ deqPending' = num
  /\ UNCHANGED <<data, head, tail, size, enqBuf, clrPending, deqBuf>>

\* Mutant: the queue is emptied before the end of the cycle.
ClrNextAtOnce ==
  /\ ~ clrPending
  /\ clrPending' = TRUE
  /\ head' = 0 /\ tail' = 0 /\ size' = 0
  /\ UNCHANGED <<data, enqBuf, deqPending, deqBuf>>

\* clrnext, at most once per cycle (asserted).
ClrNext ==
  /\ ~ clrPending
  /\ clrPending' = TRUE
  /\ UNCHANGED <<data, head, tail, size, enqBuf, deqPending, deqBuf>>

\* The slot i places after slot s.
Slot(s, i) == (s + i) % Depth

\* apply_next_tick: clear, then pop, then push, unless the queue was
\* cleared; then refill the front window from the ring.
ApplyNextTick ==
  LET head0 == IF clrPending THEN 0 ELSE head
      tail0 == IF clrPending THEN 0 ELSE tail
      size0 == IF clrPending THEN 0 ELSE size
      pop   == Least(deqPending, size0)
      push  == IF clrPending THEN 0
               ELSE Least(Len(enqBuf), Depth - (size0 - pop))
  IN
  /\ head' = Slot(head0, pop)
  /\ tail' = Slot(tail0, push)
  /\ size' = size0 - pop + push
  /\ data' = [s \in 0 .. Depth - 1 |->
       IF \E i \in 1 .. push : Slot(tail0, i - 1) = s
       THEN enqBuf[CHOOSE i \in 1 .. push : Slot(tail0, i - 1) = s]
       ELSE data[s]]
  /\ deqBuf' = [i \in 1 .. Least(size', DeqWidth) |-> data'[Slot(head', i - 1)]]
  /\ enqBuf' = <<>> /\ deqPending' = 0 /\ clrPending' = FALSE

QueueInit ==
  /\ data = [s \in 0 .. Depth - 1 |-> Default]
  /\ head = 0 /\ tail = 0 /\ size = 0
  /\ enqBuf = <<>> /\ deqPending = 0 /\ clrPending = FALSE
  /\ deqBuf = <<>>

Batch(n) == UNION { [1 .. k -> Value] : k \in 1 .. n }

QueueNext ==
  \/ \E values \in Batch(EnqWidth) : EnqNext(values)
  \/ \E num \in 1 .. DeqWidth : DeqNext(num)
  \/ ClrNext
  \/ ApplyNextTick

QueueSpec == QueueInit /\ [][QueueNext]_queueVars

-----------------------------------------------------------------------------
\* Every variable holds a value of its type.
TypeOK ==
  /\ data \in [0 .. Depth - 1 -> Value]
  /\ head \in 0 .. Depth - 1 /\ tail \in 0 .. Depth - 1 /\ size \in 0 .. Depth
  /\ enqBuf \in Seq(Value) /\ Len(enqBuf) <= EnqWidth
  /\ deqPending \in 0 .. DeqWidth
  /\ clrPending \in BOOLEAN
  /\ deqBuf \in Seq(Value) /\ Len(deqBuf) <= DeqWidth

\* Head, tail and size agree on which slots are in use, and what enqnext and
\* deqnext accepted still fits when it is applied: the truncations at lines
\* 184 and 195 never drop a value.
RingExact ==
  /\ tail = Slot(head, size)
  /\ Len(enqBuf) <= Depth - size
  /\ deqPending <= size

\* The values in the ring, oldest first.
Content == [i \in 1 .. size |-> data[Slot(head, i - 1)]]

\* The window shown by front() is what the ring holds, although it is a copy
\* made at the last tick (lines 215-222).
WindowExact == deqBuf = [i \in 1 .. Least(size, DeqWidth) |-> Content[i]]

\* The ring with its cached window is a first-in first-out queue.  A clear
\* drops what was enqueued in its cycle (lines 198-200), as the test of
\* QUEUE_MP expects (tools/example/queue_mp_demo/test/Main.cpp:101-108).
Queue == INSTANCE Fifo WITH
  ClearKeepsNew <- FALSE,
  q <- Content, window <- deqBuf, enq <- enqBuf, pops <- deqPending, clear <- clrPending

ImplementsFifo == Queue!Spec

\* The queue of the user guide, which clears first and then dequeues and
\* enqueues (tools/userguide/7-queue.md:88), as the hardware counterpart
\* tools/vullib/queue.sv does: what was enqueued in the cycle of a clear
\* is in the queue after it.
GuideQueue == INSTANCE Fifo WITH
  ClearKeepsNew <- TRUE,
  q <- Content, window <- deqBuf, enq <- enqBuf, pops <- deqPending, clear <- clrPending

ImplementsGuide == GuideQueue!Spec
=============================================================================
