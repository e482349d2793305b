SPECIFICATION FairSpec
CONSTANTS
    BufLen = 3
    FifoLen = 1
    Threshold = 0
    Default = 2
    Never = 4
    MaxCall = 2
    Timeouts = {2}
    MaxWritten = 4
    MaxSent = 3
INVARIANTS UartTypeOK RxArmed
PROPERTIES TxInOrder RxInOrder Drains WriteReturns ReadReturns
