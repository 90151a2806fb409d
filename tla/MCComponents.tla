----------------------------- MODULE MCComponents -----------------------------
(***************************************************************************)
(* Small components under one roof: a behaviour is one of the queue, of    *)
(* the two register arrays, of the cache over two block memories or of     *)
(* TMISC, and leaves the others in their initial states.                   *)
(***************************************************************************)
EXTENDS VulQueue, RegArray, SimpleCache, Tmisc

VARIABLE component

QueueBehaves ==
  component = "queue" /\ QueueNext /\ UNCHANGED <<regVars, cacheVars, vars>>
ArraysBehave ==
  component = "registers" /\ RegNext /\ UNCHANGED <<queueVars, cacheVars, vars>>
CacheBehaves ==
  component = "cache" /\ CacheNext /\ UNCHANGED <<queueVars, regVars, vars>>
MiscBehaves ==
  component = "tmisc" /\ Next /\ UNCHANGED <<queueVars, regVars, cacheVars>>

RoofInit ==
  /\ QueueInit /\ RegInit /\ CacheInit /\ Init
  /\ component \in {"queue", "registers", "cache", "tmisc"}

RoofNext ==
  /\ QueueBehaves \/ ArraysBehave \/ CacheBehaves \/ MiscBehaves
  /\ UNCHANGED component

\* The fairness of TMISC asks nothing of the others: an idle unit has
\* nothing to do.
RoofSpec ==
  /\ RoofInit
  /\ [][RoofNext]_<<queueVars, regVars, cacheVars, vars, component>>
  /\ Fairness

-----------------------------------------------------------------------------
(* TMISC: one instruction of each kind on small tiles.                     *)

\* Planes that differ by instruction and byte.
SomePlane(n, b) == [r \in Index |-> [c \in Index |-> (n + 2 * b + 2 * r + c) % ByteBase]]

Inst(op, rdBytes, rsBytes) ==
  [BaseInst EXCEPT !.op = op, !.rd = 1, !.rdBytes = rdBytes, !.rsBytes = rsBytes]

\* Widening, narrowing and equal widths; a mask of a wide type has one plane.
Mixed ==
  { [Inst("TFILL", 2, 1) EXCEPT !.value = 3, !.row_step = - 1, !.signed = TRUE],
    [Inst("TFILLLINE", 1, 1) EXCEPT !.step = 3],
    [Inst("TBCAST_C", 4, 2) EXCEPT !.row = 1],
    [Inst("TSHIFT_Z", 2, 2) EXCEPT !.col_off = - 1],
    Inst("TTRANS", 1, 4),
    [Inst("TSETMASK", 2, 1) EXCEPT !.up = 1, !.invert = TRUE] }
=============================================================================
