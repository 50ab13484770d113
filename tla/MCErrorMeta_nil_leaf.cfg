\* A business error whose cause is not a meta error leaves WrapperStack empty.
CONSTANTS
    MaxDepth = 3
    HandlerErrors <- AllErrors
SPECIFICATION Spec
INVARIANT NoNilLeafDereference
CHECK_DEADLOCK FALSE
