SPECIFICATION Spec
CONSTANT MaxEvents = 4
INVARIANTS SessionInv RepliesMatch
PROPERTIES SessionReturns
CHECK_DEADLOCK FALSE
