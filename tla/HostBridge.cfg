SPECIFICATION CloseFairSpec
CONSTANT Calls = {c1, c2}
INVARIANTS TypeOK CountExact DrainedMeansQuiet HandedOverNotClosed
PROPERTIES  ShutdownReturns LateStreamClosed
CHECK_DEADLOCK FALSE
