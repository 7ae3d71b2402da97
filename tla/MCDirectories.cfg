SPECIFICATION Spec
CONSTANTS
  Processes = {p, q, r}
  Root = "/"
  LogName = "log"
  Paths <- MCPaths
  Trees <- MCTrees
SYMMETRY Symmetry
INVARIANTS CallsDeliver
CHECK_DEADLOCK FALSE
