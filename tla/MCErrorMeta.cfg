\* Every chain of up to five levels: analyse and ClearMeta on all of them.
CONSTANTS
    MaxDepth = 5
    HandlerErrors <- AllErrors
SPECIFICATION Spec
INVARIANTS
    TypeOK
    AnalyseFollowsMetaChain
    MessageKeepsEveryError
CHECK_DEADLOCK FALSE
