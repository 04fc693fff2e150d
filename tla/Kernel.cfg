SPECIFICATION ModesSpec
CONSTANTS
  Pid = {null, p1, p2, p3}
  Null = null
  Sem = {1}
  Prio = {1, 2}
  Delay = {1, 2}
  Count = {0, 2}
  MaxCount = 2
  Quantum = 1
  Hazards = {}
SYMMETRY Symmetry
VIEW ModesView
INVARIANTS
  TypeOK
  ListsMatchStates
  CountsWaiting
  HighestRuns
  HaltsAtTheEnd
  DeltasExact
  SleepsNoLonger
  MessageWakes
