SPECIFICATION Spec
CONSTANTS
  Proc = {p1}
  Sys = sys
  None = none
  NEnt = 5
  NKern = 1
  NGold = 1
  HeapIdx = 1
  NPdpt = 7
  NFss = 20
  NSwap = 2
  HSize = 18
  MaxHeap = 0
  Word = 1
  Sizes = {6}
  Data = {d1}
  Hazards = {"straddle"}
SYMMETRY Symmetry
VIEW View
INVARIANT FaultsOnValidated
