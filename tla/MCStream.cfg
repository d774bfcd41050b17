SPECIFICATION Spec
CONSTANTS
    MaxLines = 3
    PipeRoom = 1
    ChanRoom = 1
INVARIANTS NoSendAfterClose ProgressInOrder
PROPERTY StreamReturns
CHECK_DEADLOCK FALSE
