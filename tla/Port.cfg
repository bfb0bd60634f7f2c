SPECIFICATION Spec
CONSTANTS
    BRIDGE_BUF_SIZE = 5
    UART_RX_SIZE = 2
    UART_SLACK = 1
    MaxPayload = 2
    Pins = {2}
    Cmds = {"DISABLE", "GPIO_INT", "READ", "ECHO", "TX", "RX", "TXRX", "START", "STOP", "ENABLE_SPI", "ENABLE_I2C", "ENABLE_UART", "DISABLE_UART"}
    Races = {}
INVARIANTS DmaOwnsItsBuffer DmaHasItsCommand WaitsForSomething
PROPERTIES RepliesKept RepliesWhole
