SPECIFICATION Spec
CONSTANTS
    Ids = {1}
    SIZE = 2
    PIPE_CAP = 1
    MaxCtrl = 2
    MaxStdin = 0
    MaxStdout = 2
    MaxStderr = 0
    Cmds = {"RESET", "KILL", "CLOSE", "WRITE", "ACK", "CLOSE_STREAM"}
    Lens = {1, 2}
    MaxQueue = 1
    MaxOpens = 2
    MaxConns = 2
    MaxSpin = 2
    Races = {"stale_event", "slow_reader", "broken_pipe", "hangup"}
PROPERTIES ExitsExplained OutputImplemented ClosedAfterStreams
CHECK_DEADLOCK FALSE
