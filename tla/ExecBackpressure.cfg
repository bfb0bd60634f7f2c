SPECIFICATION Spec
CONSTANTS
    Ids = {1}
    SIZE = 2
    PIPE_CAP = 1
    MaxCtrl = 2
    MaxStdin = 0
    MaxStdout = 2
    MaxStderr = 0
    Cmds = {"RESET", "KILL", "CLOSE", "WRITE", "ACK", "CLOSE_STREAM"}
    Lens = {1, 2}
    MaxQueue = 1
    MaxOpens = 1
    MaxConns = 1
    MaxSpin = 2
    Races = {"slow_reader"}
PROPERTIES InputImplemented
CHECK_DEADLOCK FALSE
