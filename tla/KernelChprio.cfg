SPECIFICATION Spec
CONSTANTS
  Pid = {null, p1, p2}
  Null = null
  Sem = {}
  Prio = {1, 2}
  Delay = {}
  Count = {}
  MaxCount = 0
  Quantum = 1
  Hazards = {"chprio"}
SYMMETRY Symmetry
VIEW View
PROPERTY ReschedPicksHighest
