\* Four files of the ref, one of the default branch; full, bare and insufficient installations.
SPECIFICATION Spec
CONSTANTS
  Files <- MCFiles
  Findings <- MCFindings
  Inputs <- MCInputs
  Hosts <- MCHosts
  Faults = {"clone", "tarball", "save", "detect", "append"}
  UseAI = TRUE
  MaxFiles = 4
  MaxRead = 3
  BatchSize = 2
INVARIANTS
  ScansTheRef
  ChangedScanned
  TempGone
  FindingsKept
  FilterAccounts
\* a scan ends
CHECK_DEADLOCK FALSE
