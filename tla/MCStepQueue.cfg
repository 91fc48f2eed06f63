CONSTANTS
  QSIZE = 4
  MaxStep = 9
  StepIds <- MCStepIds
  Counts = {0, 1, 2}
SPECIFICATION StepFairSpec
INVARIANTS
  StepTypeOK
  WindowInv
PROPERTIES
  StepsImplementFifo
  AcceptedIsTaken
