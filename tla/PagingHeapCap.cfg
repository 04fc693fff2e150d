SPECIFICATION Spec
CONSTANTS
  Proc = {p1, p2}
  Sys = sys
  None = none
  NEnt = 3
  NKern = 1
  NGold = 1
  HeapIdx = 2
  NPdpt = 6
  NFss = 2
  NSwap = 2
  HSize = 3
  MaxHeap = 2
  Word = 8
  Sizes = {1, 2}
  Data = {d1}
  Hazards = {}
SYMMETRY Symmetry
VIEW View
INVARIANT HeapCap
