SPECIFICATION Spec
CONSTANTS
    Chan = {1}
    MaxConn = 2
    MaxOut = 1
    MaxIn = 1
    MaxRetries = 1
    Faults = {}
PROPERTIES InToItsConnection
