SPECIFICATION FairSpec
CONSTANTS
  Pid = {null, p1, p2}
  Null = null
  Sem = {}
  Prio = {1, 2}
  Delay = {1, 2}
  Count = {}
  MaxCount = 0
  Quantum = 2
  Hazards = {}
PROPERTIES DelaysEnd TimeSharing
