SPECIFICATION IndexSetSpec
CONSTANTS
    MaxSize = 4
    IndexBound = 9
    OperandBound = 2
INVARIANT CountsAsserted
CHECK_DEADLOCK FALSE
