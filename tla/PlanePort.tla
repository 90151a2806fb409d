----------------------------- MODULE PlanePort ------------------------------
(***************************************************************************)
(* What a unit that gives tiles back byte plane by byte plane promises its *)
(* client, whatever goes on inside: a request that was accepted comes back *)
(* in planes of increasing number, each once, to the registers the request *)
(* named, and every plane holds the expected data.                         *)
(***************************************************************************)
EXTENDS Integers

CONSTANTS
  Slot,           \* requests that may be outstanding together
  Requests,       \* what may be asked for; .bytes is the number of planes
  Expected(_, _)  \* the data of a plane of a request

VARIABLES
  pending,     \* the request in each slot: NoRequest or [busy, request, sent]
  wb           \* planes delivered in the last cycle: none or one

NoRequest == [busy |-> FALSE]

Pending(m, n) == [busy |-> TRUE, request |-> m, sent |-> n]

Plane(m, n) == [rd |-> m.rd, byte |-> n, last |-> n + 1 = m.bytes, data |-> Expected(m, n)]

Init == pending = [s \in Slot |-> NoRequest] /\ wb = <<>>

Fire(s, m) ==
  /\ pending[s] = NoRequest
  /\ pending' = [pending EXCEPT ![s] = Pending(m, 0)]
  /\ UNCHANGED wb

Deliver(s) ==
  /\ pending[s] # NoRequest
  /\ LET m == pending[s].request
         n == pending[s].sent
     IN  /\ wb' = <<Plane(m, n)>>
         /\ pending' = [pending EXCEPT ![s] =
              IF n + 1 = m.bytes THEN NoRequest ELSE Pending(m, n + 1)]

Quiet == wb' = <<>> /\ UNCHANGED pending

Next ==
  \/ \E s \in Slot, m \in Requests : Fire(s, m)
  \/ \E s \in Slot : Deliver(s)
  \/ Quiet

Spec == Init /\ [][Next]_<<pending, wb>>
=============================================================================
