----------------------------- MODULE SimpleCache -----------------------------
(***************************************************************************)
(* The direct-mapped cache of tools/example/cachetest/SimpleCache.hpp: two *)
(* block memories for tags and data, read in the cycle of a request, and a *)
(* register that carries the address to the next cycle, where the tag is   *)
(* compared.  In a cycle the services are called first, in any order, and  *)
(* then the tick runs and everything is committed.  The calls of a cycle   *)
(* are kept beside it, as history.                                         *)
(***************************************************************************)
EXTENDS Bram

CONSTANTS Line, Tag, Datum, NoDatum   \* an address is a tag and a line

VARIABLES
  tagArray,     \* tag_array: entries [valid, tag]
  dataArray,    \* data_array
  readStage,    \* read_stage: an address or <<>> when not valid
  stageNext,    \* what setnext wrote to it in this cycle
  readInputed,  \* read_inputed: a wire, cleared every cycle
  response,     \* readresp_s1 of the last tick, [hit, data], or <<>>
  asked,        \* history: the address of read_s0 in this cycle, or <<>>
  brought       \* history: the arguments of refill_s0 in this cycle, or <<>>

calls == <<asked, brought>>
cacheVars == <<tagArray, dataArray, readStage, stageNext, readInputed, response, calls>>

Addr == [tag : Tag, line : Line]

NoTag == CHOOSE t \in Tag : TRUE
NoEntry == [valid |-> FALSE, tag |-> NoTag]

\* At most one read and one refill per cycle: the memories have one port of
\* each kind.
ReadS0(addr) ==
  /\ MayRead(tagArray, 0) /\ MayRead(dataArray, 0)
  /\ stageNext' = <<addr>>
  /\ tagArray' = ReadReq(tagArray, 0, addr.line)
  /\ dataArray' = ReadReq(dataArray, 0, addr.line)
  /\ readInputed' = TRUE
  /\ asked' = <<addr>>
  /\ UNCHANGED <<readStage, response, brought>>

RefillS0(addr, datum) ==
  /\ MayWrite(tagArray, 0) /\ MayWrite(dataArray, 0)
  /\ tagArray' = Write(tagArray, 0, addr.line, [valid |-> TRUE, tag |-> addr.tag])
  /\ dataArray' = Write(dataArray, 0, addr.line, datum)
  /\ brought' = <<[addr |-> addr, datum |-> datum]>>
  /\ UNCHANGED <<readStage, stageNext, readInputed, response, asked>>

Hit == LET entry == ReadData(tagArray, 0)
       IN  entry.valid /\ entry.tag = readStage[1].tag

\* What the tick answers; the data of a miss is the default of Int.
Answer ==
  IF readStage = <<>> THEN <<>>
  ELSE <<[hit |-> Hit, data |-> IF Hit THEN ReadData(dataArray, 0) ELSE NoDatum]>>

\* The stage after the tick: a cycle without a request empties it.
Stage == IF readInputed THEN stageNext ELSE <<>>

CacheTick ==
  /\ response' = Answer
  /\ readStage' = Stage
  /\ stageNext' = <<>> /\ readInputed' = FALSE
  /\ tagArray' = BramTick(tagArray)
  /\ dataArray' = BramTick(dataArray)
  /\ asked' = <<>> /\ brought' = <<>>

CacheInit ==
  /\ tagArray = Quiet([l \in Line |-> NoEntry], 1, 1)
  /\ dataArray = Quiet([l \in Line |-> NoDatum], 1, 1)
  /\ readStage = <<>> /\ stageNext = <<>> /\ readInputed = FALSE
  /\ response = <<>>
  /\ asked = <<>> /\ brought = <<>>

CacheNext ==
  \/ \E addr \in Addr : ReadS0(addr)
  \/ \E addr \in Addr, datum \in Datum : RefillS0(addr, datum)
  \/ CacheTick

CacheSpec == CacheInit /\ [][CacheNext]_cacheVars

-----------------------------------------------------------------------------
\* The tick never asks a memory for a word that it does not show, which
\* readdata asserts (ram.hpp, line 147): the stage is valid exactly in the
\* cycles in which both memories answer.
StageHasItsWords ==
  (readStage # <<>>) = MayShow(tagArray, 0) /\ (readStage # <<>>) = MayShow(dataArray, 0)

(***************************************************************************)
(* The pipelined cache answers like the table of the test: a cycle after   *)
(* each read, and in no other, the tick answers for the address that was   *)
(* asked for (lines 64-76) what the table held at the end of that cycle,   *)
(* before a refill of the same cycle, and the words it needs are there.    *)
(***************************************************************************)
Table == INSTANCE CacheTable WITH
  lines  <- [l \in Line |-> [entry |-> tagArray.memory[l], data |-> dataArray.memory[l]]],
  due    <- Answer,
  answer <- response

ImplementsTable == Table!Spec /\ []StageHasItsWords
=============================================================================
