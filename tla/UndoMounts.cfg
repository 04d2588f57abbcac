CONSTANT N = 3
SPECIFICATION Spec
PROPERTY ComesToAnEnd
INVARIANTS TypeOK LeavesFirst FileBeforeDevice ClearIdle AllUndone
CHECK_DEADLOCK FALSE
