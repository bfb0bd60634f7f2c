SPECIFICATION Spec
CONSTANTS
    BRIDGE_BUF_SIZE = 3
    UART_RX_SIZE = 1
    UART_SLACK = 1
    MaxPayload = 1
    Pins = {2}
    Cmds = {"GPIO_INT", "ANALOG_READ", "START", "TX", "ENABLE_I2C", "ENABLE_UART"}
    Races = {"late", "duplex", "slow_soc", "other_port", "pin_and_uart", "i2c_error"}
INVARIANTS TypeOK DmaOwnsItsBuffer ClosedPortRests
PROPERTIES ErrorsExplained
CHECK_DEADLOCK FALSE
