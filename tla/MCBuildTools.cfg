SPECIFICATION Spec
INVARIANTS PolicyAsDeclared DeployedAsDeclared GatesSound
PROPERTIES OutputsWhole
CHECK_DEADLOCK FALSE
