----------------------------- MODULE ClockedArray -----------------------------
(***************************************************************************)
(* What an array of registers promises to the modules of a cycle: reads    *)
(* show the values of the last tick, every write port may be used once per *)
(* register and cycle, and at the tick the lowest port that wrote wins.    *)
(***************************************************************************)
EXTENDS Integers

CONSTANTS
  Index,        \* the registers
  WRPortNum,    \* write ports of each
  Value,        \* what a register may hold
  NoOffer       \* a port that did not write

VARIABLES
  value,        \* the values that reads show
  offers,       \* what the ports wrote in this cycle
  resetTo       \* the values of the last call, if it was a reset, or <<>>

Port == 0 .. WRPortNum - 1

Silent == [i \in Index |-> [p \in Port |-> NoOffer]]

Wins(o, p) == o[p] # NoOffer /\ \A q \in 0 .. p - 1 : o[q] = NoOffer

Init == value \in [Index -> Value] /\ offers = Silent /\ resetTo = <<>>

SetNext(i, p, v) ==
  /\ offers[i][p] = NoOffer
  /\ offers' = [offers EXCEPT ![i][p] = v]
  /\ resetTo' = <<>>
  /\ UNCHANGED value

Tick ==
  /\ value' = [i \in Index |->
       IF \E p \in Port : Wins(offers[i], p)
       THEN offers[i][CHOOSE p \in Port : Wins(offers[i], p)]
       ELSE value[i]]
  /\ offers' = Silent
  /\ resetTo' = <<>>

Reset(values) == value' = values /\ offers' = Silent /\ resetTo' = <<values>>

Next ==
  \/ \E i \in Index, p \in Port, v \in Value : SetNext(i, p, v)
  \/ Tick
  \/ \E values \in [Index -> Value] : Reset(values)

Spec == Init /\ [][Next]_<<value, offers, resetTo>>
=============================================================================
