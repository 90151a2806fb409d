------------------------------- MODULE AluPipe -------------------------------
(***************************************************************************)
(* core/ALUPipeline.hpp of tools/example/ooo_backend: an arithmetic lane.  *)
(* A lane is a record of its registers: the queue of requests, the slots   *)
(* that count down their latency, and the queue of results.  The queues    *)
(* are VulQueues, so what they accept and show is settled by their         *)
(* contents at the start of the cycle.                                     *)
(***************************************************************************)
EXTENDS Integers, Sequences, FiniteSetsExt, ToyIsa

CONSTANTS PIPE_SLOTS, INPUT_DEPTH, RESULT_DEPTH, MUL_LATENCY, DIV_LATENCY

Free == [valid |-> FALSE]

\* A lane after reset.
Idle == [issueq |-> <<>>, resultq |-> <<>>, slots |-> [s \in 1 .. PIPE_SLOTS |-> Free]]

CanAccept(lane) == Len(lane.issueq) < INPUT_DEPTH

HasResult(lane) == lane.resultq # <<>>

Latency(req) ==
  CASE req.op = "MUL" -> MUL_LATENCY
    [] req.op = "DIV" -> DIV_LATENCY
    [] OTHER          -> 1

\* The WritebackEvent of a request.
Result(req) == [hasDest |-> req.dst # 0, rob |-> req.rob, dst |-> req.dst,
                value |-> Execute(req), seq |-> req.seq]

\* The slot whose result leaves: the oldest of those that have counted down.
Finishing(lane) ==
  LET done == { s \in DOMAIN lane.slots : lane.slots[s].valid /\ lane.slots[s].remain = 0 }
  IN IF Len(lane.resultq) < RESULT_DEPTH
     THEN { s \in done : \A t \in done : lane.slots[s].req.seq <= lane.slots[t].req.seq }
     ELSE {}

\* The slot that takes the next request, if there is one: the first that was
\* free, else the one that becomes free in this cycle.
Accepting(lane) ==
  LET free == { s \in DOMAIN lane.slots : ~ lane.slots[s].valid }
  IN IF lane.issueq = <<>> THEN {} ELSE IF free # {} THEN {Min(free)} ELSE Finishing(lane)

\* One cycle of the lane, in which the backend issued the requests of
\* `issued` (at most one) and took away the first result if `popped`.
Tick(lane, issued, popped) ==
  LET out == Finishing(lane)
      in  == Accepting(lane)
  IN [issueq  |-> (IF in # {} THEN Tail(lane.issueq) ELSE lane.issueq) \o issued,
      resultq |-> (IF popped THEN Tail(lane.resultq) ELSE lane.resultq)
                    \o (IF out # {} THEN << Result(lane.slots[Min(out)].req) >> ELSE <<>>),
      slots   |-> [s \in 1 .. PIPE_SLOTS |->
        CASE s \in in  -> [valid |-> TRUE, remain |-> Latency(Head(lane.issueq)) - 1,
                           req |-> Head(lane.issueq)]
          [] s \in out /\ s \notin in -> Free
          [] OTHER     -> IF lane.slots[s].valid
                          THEN [lane.slots[s] EXCEPT !.remain = IF @ > 0 THEN @ - 1 ELSE 0]
                          ELSE Free]]

\* The requests a lane holds, wherever they are.
Holds(lane) ==
  { lane.issueq[i] : i \in DOMAIN lane.issueq }
    \cup { lane.slots[s].req : s \in { t \in DOMAIN lane.slots : lane.slots[t].valid } }
=============================================================================
