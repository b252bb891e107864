SPECIFICATION Spec
CONSTANT Calls = {c1}
INVARIANT CountCoversSalvage
CHECK_DEADLOCK FALSE
