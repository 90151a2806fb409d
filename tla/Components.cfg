SPECIFICATION RoofSpec
CONSTANTS
  Depth = 3
  EnqWidth = 2
  DeqWidth = 2
  Value = {0, 1}
  Default = 0
  Reg = {0, 1}
  WRPortNum = 2
  Word = {0, 1}
  InitialWord = 0
  NoOffer = 9
  Line = {0, 1}
  Tag = {0, 1}
  Datum = {1, 2}
  NoDatum = 0
  TILE_SIZE = 2
  ByteBase = 3
  Insts <- Mixed
  PlaneOf <- SomePlane
  MaxFired = 3
INVARIANTS RingExact WindowExact DirtyListExact
PROPERTIES ImplementsFifo ImplementArray ImplementsTable ImplementsPlanePort InstFinishes
