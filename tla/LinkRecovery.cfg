SPECIFICATION FairSpec
CONSTANTS
    Chan = {1}
    MaxConn = 2
    MaxOut = 2
    MaxIn = 1
    MaxRetries = 1
    Faults = {"port_error"}
INVARIANTS PortsFollowOpen
PROPERTIES OutToItsConnection OpenSeen InDelivered ErrorRecovers
