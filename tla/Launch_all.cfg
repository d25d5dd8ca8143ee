SPECIFICATION LaunchFairSpec
CONSTANTS
  Lines <- Working
  MaxStages = 2
  Cap = 1
  InSize = 2
  OutMax = 2
INVARIANTS OutputComplete
PROPERTIES AllEnd
