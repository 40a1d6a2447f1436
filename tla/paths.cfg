\* One or two files of one or two functions, or none read, and two findings; analysed twice.
SPECIFICATION Spec
CONSTANTS
  Inputs <- MCInputs
  AuthFiles = {"auth"}
  ApiFiles = {"api"}
  Sanitizers = {"escape"}
  SinkTypes <- MCSinkTypes
  SinkCategories = {"injection", "ssrf"}
  MaxDepth = 15
  Limit = 4
  Shown = 2
  MaxChokepoints = 2
  MaxScans = 2
INVARIANTS
  FindingsReached
  ChokepointBlocks
  RadiiAccount
  StoredWhole
\* an analysis ends
CHECK_DEADLOCK FALSE
