SPECIFICATION Spec
CONSTANT Scenarios <- MCScenarios
INVARIANTS FaithfulPasses BreakageIsNoticed RemovedOrReported EveryCheckAccounted
PROPERTY RunReturns
CHECK_DEADLOCK FALSE
