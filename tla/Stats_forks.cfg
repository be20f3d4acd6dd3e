CONSTANTS
  Procs = {p1, p2, p3}
  First = {p1}
  num_bbs = 1
  MaxCount = 1
SPECIFICATION StatsSpec
INVARIANT CountsAddUp
CHECK_DEADLOCK FALSE
