SPECIFICATION Spec
CONSTANTS
    Chan = {0}
    MaxConn = 2
    MaxOut = 1
    MaxIn = 1
    MaxRetries = 1
    Faults = {"soc_header", "mcu_header", "slow_mcu", "pipe_disable"}
INVARIANTS TypeOK 
 
CHECK_DEADLOCK FALSE
