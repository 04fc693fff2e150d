SPECIFICATION Spec
CONSTANTS
  Pid = {null, p1, p2, p3}
  Null = null
  Sem = {}
  Prio = {1}
  Delay = {}
  Count = {}
  MaxCount = 0
  Quantum = 1
  Hazards = {"killrace"}
SYMMETRY Symmetry
VIEW View
INVARIANT HaltsAtTheEnd
