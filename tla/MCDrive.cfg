CONSTANTS
  None = None  g1 = g1  g2 = g2
  Jobs = {g1, g2}  Budgets <- TestBudgets  MaxFiles = 5
SPECIFICATION Spec
CHECK_DEADLOCK FALSE
INVARIANTS DriveInputsSafe DriveOutputsOnce
