\* The incident workflow, dynamic or escalated, no faults.
SPECIFICATION Spec
CONSTANTS
  WorkflowNames = {"incident-response"}
  Flows = {"fixed", "dynamic"}
  Incidents = {FALSE, TRUE}
  Levels = {"low", "critical"}
  Approvers = {}
  FaultyAgents = {}
  LateScrFault = FALSE
  MaxCrashes = 0
INVARIANTS
  AnnouncedIsKept
  OneTaskPerAgent
PROPERTIES
  Reported
\* a workflow ends: nothing is left to do
CHECK_DEADLOCK FALSE
