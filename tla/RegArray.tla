------------------------------- MODULE RegArray -------------------------------
(***************************************************************************)
(* The register arrays of tools/vullib/storage.hpp.  VulRegisterArray is   *)
(* VulRegisterArrayFullImpl up to 16 registers, an array of VulRegister    *)
(* that it ticks one by one, and VulRegisterArrayDirtyImpl above, which    *)
(* keeps a list of the registers written in the cycle and ticks only       *)
(* those.  Both are modelled here, side by side under the same calls; a    *)
(* VulRegister is a full array of one register.                            *)
(***************************************************************************)
EXTENDS Integers, Sequences

CONSTANTS
  Reg,         \* the registers of an array
  WRPortNum,   \* write ports of each
  Word, InitialWord,  \* what they hold, and T{}
  NoOffer      \* a port that did not write

ASSUME PortAssumption == WRPortNum \in Nat \ {0}
ASSUME ValueAssumption == InitialWord \in Word /\ NoOffer \notin Word

VARIABLES
  fullData, fullNext, pendingPort, issued,   \* the full array
  curr, slotValue, bestPrio, hasWrite,       \* the dirty array: its registers and
  issuedPorts, dirtyIndices, dirtyFlags,     \*   pending slots, and its dirty list
  offers, resetTo                            \* history: what the calls of this cycle wrote,
                                             \*   and the values of the last call if a reset

fullVars  == <<fullData, fullNext, pendingPort, issued>>
dirtyVars == <<curr, slotValue, bestPrio, hasWrite, issuedPorts, dirtyIndices, dirtyFlags>>
regVars   == <<fullVars, dirtyVars, offers, resetTo>>

WritePort == 0 .. WRPortNum - 1

All(x) == [i \in Reg |-> x]

Silent == All([p \in WritePort |-> NoOffer])

\* setnext<P>(index, value) of the full array: the value is kept if no lower
\* port wrote the register in this cycle.
FullSetNext(i, p, v) ==
  /\ p \notin issued[i]
  /\ issued' = [issued EXCEPT ![i] = @ \cup {p}]
  /\ IF p < pendingPort[i]
     THEN /\ fullNext' = [fullNext EXCEPT ![i] = v]
          /\ pendingPort' = [pendingPort EXCEPT ![i] = p]
     ELSE UNCHANGED <<fullNext, pendingPort>>
  /\ UNCHANGED fullData

\* apply_next_tick of the full array.
FullTick ==
  /\ fullData' = fullNext
  /\ pendingPort' = All(WRPortNum) /\ issued' = All({})
  /\ UNCHANGED fullNext

\* Mutant: the value to come is not reset (line 67).
FullResetData(values) ==
  /\ fullData' = values
  /\ pendingPort' = All(WRPortNum) /\ issued' = All({})
  /\ UNCHANGED fullNext

\* reset of the full array.
FullReset(values) ==
  /\ fullData' = values /\ fullNext' = values
  /\ pendingPort' = All(WRPortNum) /\ issued' = All({})

\* setnext of the dirty array: the first write of a cycle lists the register.
DirtySetNext(i, p, v) ==
  /\ p \notin issuedPorts[i]
  /\ issuedPorts' = [issuedPorts EXCEPT ![i] = @ \cup {p}]
  /\ IF ~ hasWrite[i] \/ p < bestPrio[i]
     THEN /\ slotValue' = [slotValue EXCEPT ![i] = v]
          /\ bestPrio' = [bestPrio EXCEPT ![i] = p]
          /\ hasWrite' = [hasWrite EXCEPT ![i] = TRUE]
          /\ dirtyIndices' = IF dirtyFlags[i] THEN dirtyIndices ELSE Append(dirtyIndices, i)
          /\ dirtyFlags' = [dirtyFlags EXCEPT ![i] = TRUE]
     ELSE UNCHANGED <<slotValue, bestPrio, hasWrite, dirtyIndices, dirtyFlags>>
  /\ UNCHANGED curr

Listed(i) == \E k \in 1 .. Len(dirtyIndices) : dirtyIndices[k] = i

\* Mutant: the flags of the registers it ticked stay up (line 237).
DirtyTickFlagged ==
  /\ curr' = [i \in Reg |-> IF Listed(i) THEN slotValue[i] ELSE curr[i]]
  /\ hasWrite' = [i \in Reg |-> hasWrite[i] /\ ~ Listed(i)]
  /\ bestPrio' = [i \in Reg |-> IF Listed(i) THEN WRPortNum ELSE bestPrio[i]]
  /\ issuedPorts' = [i \in Reg |-> IF Listed(i) THEN {} ELSE issuedPorts[i]]
  /\ dirtyIndices' = <<>>
  /\ UNCHANGED <<slotValue, dirtyFlags>>

\* apply_next_tick of the dirty array touches the listed registers only.
DirtyTick ==
  /\ curr' = [i \in Reg |-> IF Listed(i) THEN slotValue[i] ELSE curr[i]]
  /\ hasWrite' = [i \in Reg |-> hasWrite[i] /\ ~ Listed(i)]
  /\ bestPrio' = [i \in Reg |-> IF Listed(i) THEN WRPortNum ELSE bestPrio[i]]
  /\ issuedPorts' = [i \in Reg |-> IF Listed(i) THEN {} ELSE issuedPorts[i]]
  /\ dirtyFlags' = [i \in Reg |-> dirtyFlags[i] /\ ~ Listed(i)]
  /\ dirtyIndices' = <<>>
  /\ UNCHANGED slotValue

\* reset of the dirty array.
DirtyReset(values) ==
  /\ curr' = values /\ slotValue' = values
  /\ bestPrio' = All(WRPortNum) /\ hasWrite' = All(FALSE) /\ issuedPorts' = All({})
  /\ dirtyIndices' = <<>> /\ dirtyFlags' = All(FALSE)

-----------------------------------------------------------------------------
RegSetNext(i, p, v) ==
  /\ FullSetNext(i, p, v)
  /\ DirtySetNext(i, p, v)
  /\ offers' = [offers EXCEPT ![i][p] = v] /\ resetTo' = <<>>

RegTick == FullTick /\ DirtyTick /\ offers' = Silent /\ resetTo' = <<>>

RegReset(values) ==
  FullReset(values) /\ DirtyReset(values) /\ offers' = Silent /\ resetTo' = <<values>>

RegInit ==
  /\ fullData = All(InitialWord) /\ fullNext = All(InitialWord)
  /\ pendingPort = All(WRPortNum) /\ issued = All({})
  /\ curr = All(InitialWord) /\ slotValue = All(InitialWord)
  /\ bestPrio = All(WRPortNum) /\ hasWrite = All(FALSE) /\ issuedPorts = All({})
  /\ dirtyIndices = <<>> /\ dirtyFlags = All(FALSE)
  /\ offers = Silent /\ resetTo = <<>>

RegNext ==
  \/ \E i \in Reg, p \in WritePort, v \in Word : RegSetNext(i, p, v)
  \/ RegTick
  \/ \E values \in [Reg -> Word] : RegReset(values)

RegSpec == RegInit /\ [][RegNext]_regVars

-----------------------------------------------------------------------------
\* The dirty list names each register written in the cycle once, so that it
\* never outgrows dirty_indices_ (line 225) and no write is left behind: a
\* register whose flag stayed up would never be ticked again.
DirtyListExact ==
  /\ \A i \in Reg : /\ dirtyFlags[i] = Listed(i)
                      /\ hasWrite[i] = Listed(i)
                      /\ (issuedPorts[i] # {}) = Listed(i)
  /\ \A k, m \in 1 .. Len(dirtyIndices) : dirtyIndices[k] = dirtyIndices[m] => k = m

\* Both implementations keep the promise of the abstract array, so which of
\* them the size of an array selects (line 278) cannot be seen: every write
\* of a cycle is there after the tick, the lowest port wins whatever the order
\* of the calls, and a reset drops what was pending.
Full  == INSTANCE ClockedArray WITH Index <- Reg, Value <- Word, value <- fullData
Dirty == INSTANCE ClockedArray WITH Index <- Reg, Value <- Word, value <- curr

ImplementArray == Full!Spec /\ Dirty!Spec
=============================================================================
