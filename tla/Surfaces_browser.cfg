SPECIFICATION SurfacesSpec
CONSTANTS
  MaxExecutions = 2
  MaxRepeats = 1
INVARIANT RunsAreApproved
CHECK_DEADLOCK FALSE
