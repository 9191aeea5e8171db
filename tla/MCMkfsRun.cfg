CONSTANTS
  Cap = 4
  Shapes <- MCShapes
  ArgsValid = {TRUE, FALSE}
  MaxRuns = 3
  MaxFaults = 2
SPECIFICATION Spec
CHECK_DEADLOCK FALSE
INVARIANT TypeOK
INVARIANT ImageAfterBlob
INVARIANT OneRunPerFile
INVARIANT ExitZeroComplete
 
