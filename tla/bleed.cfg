SPECIFICATION Spec
CONSTANT MaxCalls = 3
INVARIANT TranscriptIsOwn
CHECK_DEADLOCK FALSE
