CONSTANTS
  c0 = c0
  c1 = c1
  Cores = {c0, c1}
  Main = c0
SPECIFICATION AppSpec
CHECK_DEADLOCK FALSE
INVARIANT
  AllTasksDone
