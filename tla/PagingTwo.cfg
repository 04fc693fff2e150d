SPECIFICATION Spec
CONSTANTS
  Proc = {p1, p2}
  Sys = sys
  None = none
  NEnt = 3
  NKern = 1
  NGold = 1
  HeapIdx = 2
  NPdpt = 6
  NFss = 2
  NSwap = 2
  HSize = 2
  MaxHeap = 0
  Word = 1
  Sizes = {1}
  Data = {d1, d2}
  d1 = d1
  d2 = d2
  MaxPages = 3
  Hazards = {"badfree"}
  Unmapped = unmapped
  Fresh = fresh
SYMMETRY Symmetry
VIEW ModesView
ACTION_CONSTRAINT OneQuestion
INVARIANTS
  TypeOK
  TableOwnership
  FrameOwnership
  SwapOwnership
  CountersExact
  KernelMapIntact
PROPERTY KeepsMemory
