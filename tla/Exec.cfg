SPECIFICATION FairSpec
CONSTANTS
    Ids = {1}
    SIZE = 2
    PIPE_CAP = 2
    MaxCtrl = 0
    MaxStdin = 3
    MaxStdout = 1
    MaxStderr = 0
    Cmds = {"KILL", "CLOSE", "WRITE", "ACK", "CLOSE_STREAM"}
    Lens = {1, 2}
    MaxQueue = 1
    MaxOpens = 1
    MaxConns = 1
    MaxSpin = 0
    Races = {}
INVARIANTS TypeOK CreditsAgree
PROPERTIES InputImplemented StreamsFlow EndsReported
CHECK_DEADLOCK FALSE
