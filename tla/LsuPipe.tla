------------------------------- MODULE LsuPipe -------------------------------
(***************************************************************************)
(* core/LSUPipeline.hpp of tools/example/ooo_backend: a memory lane, with  *)
(* the memory that the example's tests connect to it.  A slot spends its   *)
(* address latency ("addr"), sends its request in a cycle of its own       *)
(* ("send") and then polls for a response ("sent").  The tests' memory     *)
(* answers at once, into one register that the next answer overwrites.     *)
(***************************************************************************)
EXTENDS Integers, Sequences, FiniteSetsExt, ToyIsa

CONSTANTS PIPE_SLOTS, INPUT_DEPTH, RESULT_DEPTH, ADDR_LATENCY

Free == [valid |-> FALSE]

Idle == [issueq |-> <<>>, resultq |-> <<>>, slots |-> [s \in 1 .. PIPE_SLOTS |-> Free]]

\* The response register when it holds nothing.
NoResponse == [valid |-> FALSE]

CanAccept(lane) == Len(lane.issueq) < INPUT_DEPTH

HasResult(lane) == lane.resultq # <<>>

\* mem_req: the memory performs the request and leaves its answer.  In
\* undo, a store leaves what it replaced (history, for the properties).
Request(a, req) ==
  LET addr == Address(req) IN
  IF req.op = "STORE"
  THEN [a EXCEPT !.mem[addr] = req.src2,
                 !.resp = [valid |-> TRUE, data |-> 0, seq |-> req.seq],
                 !.undo = @ \cup {[seq |-> req.seq, addr |-> addr, old |-> a.mem[addr]]}]
  ELSE [a EXCEPT !.resp = [valid |-> TRUE, data |-> a.mem[addr], seq |-> req.seq]]

\* The WritebackEvent made of a response, for the slot that polled: neither
\* rob_idx nor seq of the response is looked at.
Result(req, resp) ==
  [hasDest |-> req.op = "LOAD" /\ req.dst # 0, rob |-> req.rob, dst |-> req.dst,
   value |-> resp.data, seq |-> req.seq]

\* What the tick does for slot s.  A response is taken even when the result
\* queue has no room (room is FALSE); a second result of the same cycle
\* would replace the first (the queue asserts that there is none).
Visit(a, s, room) ==
  LET slot == a.slots[s] IN
  CASE ~ slot.valid -> a
    [] slot.valid /\ slot.phase = "addr" ->
         [a EXCEPT !.slots[s] = IF slot.remain > 0
                                THEN [slot EXCEPT !.remain = @ - 1]
                                ELSE [slot EXCEPT !.phase = "send"]]
    [] slot.valid /\ slot.phase = "send" ->
         [Request(a, slot.req) EXCEPT !.slots[s].phase = "sent"]
    [] OTHER ->
         IF ~ a.resp.valid THEN a
         ELSE IF ~ room THEN [a EXCEPT !.resp = NoResponse]
         ELSE [a EXCEPT !.resp = NoResponse, !.slots[s] = Free,
                        !.out = << Result(slot.req, a.resp) >>]

\* What the slots, in order, make of a lane and its memory.
Visited(lane, memory) ==
  LET after[s \in 0 .. PIPE_SLOTS] ==
        IF s = 0
        THEN [slots |-> lane.slots, out |-> <<>>,
              mem |-> memory.mem, resp |-> memory.resp, undo |-> memory.undo]
        ELSE Visit(after[s - 1], s, Len(lane.resultq) < RESULT_DEPTH)
  IN after[PIPE_SLOTS]

\* One cycle of the lane and its memory: the slots in order, then the first
\* free slot takes a request.
Tick(lane, memory, issued, popped) ==
  LET a    == Visited(lane, memory)
      free == { s \in 1 .. PIPE_SLOTS : ~ a.slots[s].valid }
      in   == IF lane.issueq = <<>> \/ free = {} THEN {} ELSE {Min(free)}
  IN [lane |->
       [issueq  |-> (IF in # {} THEN Tail(lane.issueq) ELSE lane.issueq) \o issued,
        resultq |-> (IF popped THEN Tail(lane.resultq) ELSE lane.resultq) \o a.out,
        slots   |-> [s \in 1 .. PIPE_SLOTS |->
                      IF s \in in
                      THEN [valid |-> TRUE, phase |-> "addr", remain |-> ADDR_LATENCY - 1,
                            req |-> Head(lane.issueq)]
                      ELSE a.slots[s]]],
      memory |-> [mem |-> a.mem, resp |-> a.resp, undo |-> a.undo]]

Holds(lane) ==
  { lane.issueq[i] : i \in DOMAIN lane.issueq }
    \cup { lane.slots[s].req : s \in { t \in DOMAIN lane.slots : lane.slots[t].valid } }
=============================================================================
