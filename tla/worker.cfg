CONSTANT MaxAreas = 2
SPECIFICATION FairSpec
INVARIANTS TypeOK HealthIsTruthful StoppedIsClosed NoHandleLeaks
PROPERTIES RescanHappens StopReturns
CHECK_DEADLOCK FALSE
