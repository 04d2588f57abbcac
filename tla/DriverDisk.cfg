SPECIFICATION FairSpec
INVARIANT NothingMounted
PROPERTIES DialogueAsks BackLeadsOut
CHECK_DEADLOCK FALSE
