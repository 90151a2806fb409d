--------------------------------- MODULE Bram ---------------------------------
(***************************************************************************)
(* The block memories of tools/vullib/ram.hpp as operators on records: a   *)
(* VulBRAM with its read and write ports, and the VulROM, which has no     *)
(* write ports and gets its words from a file.  Requests are noted when    *)
(* they are made and take effect at the tick; the word that was asked for  *)
(* is shown in the next cycle only.                                        *)
(***************************************************************************)
EXTENDS Integers, FiniteSetsExt

\* A memory without requests.
Quiet(cells, readPorts, writePorts) ==
  [memory |-> cells,
   asked  |-> [p \in 0 .. readPorts - 1 |-> <<>>],
   shown  |-> [p \in 0 .. readPorts - 1 |-> <<>>],
   writes |-> [p \in 0 .. writePorts - 1 |-> <<>>]]

\* readreq and write, once per port and cycle (asserted).
MayRead(ram, p)  == ram.asked[p] = <<>>
MayWrite(ram, p) == ram.writes[p] = <<>>

ReadReq(ram, p, addr)     == [ram EXCEPT !.asked[p] = <<addr>>]
Write(ram, p, addr, word) == [ram EXCEPT !.writes[p] = <<addr, word>>]

\* readdata, which asserts that the port was asked in the last cycle.
MayShow(ram, p)  == ram.shown[p] # <<>>
ReadData(ram, p) == ram.shown[p][1]

\* The words after the writes of the cycle: of the ports that write a word
\* the highest one is applied last.
Written(ram) ==
  [a \in DOMAIN ram.memory |->
     LET ports == { p \in DOMAIN ram.writes : ram.writes[p] # <<>> /\ ram.writes[p][1] = a }
     IN  IF ports = {} THEN ram.memory[a] ELSE ram.writes[Max(ports)][2]]

Shown(ram, cells) ==
  [p \in DOMAIN ram.asked |->
     IF ram.asked[p] = <<>> THEN <<>> ELSE <<cells[ram.asked[p][1]]>>]

NoRequests(ports) == [p \in ports |-> <<>>]

\* Mutant: the writes of the cycle are seen by its reads (lines 162 to 180).
BramTickWriteFirst(ram) ==
  [memory |-> Written(ram), shown |-> Shown(ram, Written(ram)),
   asked |-> NoRequests(DOMAIN ram.asked), writes |-> NoRequests(DOMAIN ram.writes)]

\* apply_next_tick: the reads come before the writes.
BramTick(ram) ==
  [memory |-> Written(ram), shown |-> Shown(ram, ram.memory),
   asked |-> NoRequests(DOMAIN ram.asked), writes |-> NoRequests(DOMAIN ram.writes)]
=============================================================================
