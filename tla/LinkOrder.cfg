SPECIFICATION Spec
CONSTANTS
    Chan = {1}
    MaxConn = 1
    MaxOut = 3
    MaxIn = 3
    MaxRetries = 1
    Faults = {}
PROPERTIES OutInOrder InInOrder
