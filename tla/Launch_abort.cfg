SPECIFICATION LaunchFairSpec
CONSTANTS
  Lines <- BadSecondFile
  MaxStages = 2
  Cap = 1
  InSize = 2
  OutMax = 1
PROPERTIES AllEnd
CHECK_DEADLOCK FALSE
