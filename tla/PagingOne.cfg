SPECIFICATION Spec
CONSTANTS
  Proc = {p1}
  Sys = sys
  None = none
  NEnt = 3
  NKern = 1
  NGold = 1
  HeapIdx = 1
  NPdpt = 6
  NFss = 2
  NSwap = 2
  HSize = 5
  MaxHeap = 4
  Word = 8
  Sizes = {1, 3}
  Data = {d1}
  Hazards = {"stub"}
SYMMETRY Symmetry
VIEW View
INVARIANTS
  BlocksMapped
  HeapCap
  SwapHasRoom
