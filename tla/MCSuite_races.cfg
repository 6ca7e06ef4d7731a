SPECIFICATION Spec
CONSTANT Scenarios <- MCRaces
INVARIANT LateWorkloadsPass
CHECK_DEADLOCK FALSE
