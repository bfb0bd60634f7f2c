SPECIFICATION Spec
CONSTANTS
    Chan = {0, 1}
    MaxConn = 1
    MaxOut = 1
    MaxIn = 1
    MaxRetries = 1
    Faults = {"usbd_exit"}
INVARIANTS PlansAgree BufferOwned NeverInvalid
