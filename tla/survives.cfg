CONSTANT MaxAreas = 1
SPECIFICATION Spec
INVARIANT LoopSurvives
