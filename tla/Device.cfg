SPECIFICATION FairSpec
CONSTANTS
    BUF = 4
    PKT = 2
    Reads = {4, 5}
    Odd = {"NONE"}
    SIZE = 2
    MaxRx = 5
    MaxTx = 2
    SlowPc = FALSE
    ROWS = 2
    PAGES = 2
    Images = {1, 2}
    RunningSoc = FALSE
INVARIANTS TypeOK CommandsObeyed ImageWhole
PROPERTIES StreamsImplemented TransfersEnd
