SPECIFICATION Spec
CONSTANTS
    OUT_RING_SIZE = 3
    PACKET_SIZE = 3
    PacketLens = {1, 3}
    MaxPackets = 7
INVARIANTS IInv LengthKept NeverInvalid NeverStuck
PROPERTY ForwardedInOrder
CHECK_DEADLOCK FALSE
