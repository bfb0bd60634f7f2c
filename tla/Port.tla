------------------------------- MODULE Port -------------------------------
(***************************************************************************)
(* The command queue of a module port: firmware/port.c.                    *)
(*                                                                         *)
(* All its handlers (bridge completions, DMA, SERCOM, timer and pin        *)
(* interrupts) have the lowest interrupt priority: none preempts another,  *)
(* and one that becomes pending meanwhile runs afterwards.  The hardware   *)
(* goes on all the time.  A handler ends with port_step; each turn of the  *)
(* loop of port_step is a step here, while stepping is TRUE.               *)
(*                                                                         *)
(* The command stream is not stored: a command is chosen when its byte is  *)
(* read, from those the Node library (node/tessel-export.js) may send.     *)
(***************************************************************************)
EXTENDS Naturals, FiniteSets

CONSTANTS
    BRIDGE_BUF_SIZE,   \* bytes of cmd_buf and of reply_buf (255, the largest u8)
    UART_RX_SIZE,      \* bytes buffered from the UART (32)
    UART_SLACK,        \* flushed at once when fewer are free (4)
    MaxPayload,        \* bound: bytes of one ECHO, TX, RX or TXRX
    Pins,              \* the port's pins with interrupts (2, 5, 6, 7)
    Cmds,              \* the commands a client sends
    Races              \* the orders of events a run allows, among AllRaces

AllCmds == {"NOP", "GPIO", "GPIO_INT", "READ", "ANALOG_READ", "ECHO", "TX", "RX", "TXRX",
            "START", "STOP", "ENABLE_SPI", "ENABLE_I2C", "ENABLE_UART", "DISABLE",
            "DISABLE_UART"}

\* late        an interrupt becomes pending during a handler that disables it
\* pin_and_uart  a pin changes and the UART timeout ends while both interrupts are disabled
\* duplex      reply_buf has no room for what the UART receives during a transmission
\* other_port  a pin of the other port raises EIC_Handler
\* slow_soc    the UART timeout (10 ms) ends before the SoC fetched a reply
\* busy_close  the connection closes with a reply queued
\* i2c_error   the I2C master reports a bus error
AllRaces == {"late", "pin_and_uart", "duplex", "other_port", "slow_soc", "busy_close", "i2c_error"}

ASSUME SizeAssumption ==
    /\ {BRIDGE_BUF_SIZE, UART_RX_SIZE, UART_SLACK, MaxPayload} \subseteq Nat \ {0}
    /\ UART_SLACK <= UART_RX_SIZE /\ UART_RX_SIZE + 2 <= BRIDGE_BUF_SIZE
    /\ MaxPayload <= BRIDGE_BUF_SIZE
ASSUME PortAssumption ==
    /\ Pins \subseteq 0..7 /\ Cardinality(Pins) <= BRIDGE_BUF_SIZE
    /\ Cmds \subseteq AllCmds /\ Races \subseteq AllRaces

VARIABLES
    state, mode,           \* PortState, PortMode
    cmd, arg0, arg_len,    \* command, its first argument, arguments still to read
    cmd_len, cmd_pos, reply_len, pending_in, pending_out,
    stepping,              \* the loop of port_step is running
    connected,             \* the bridge reported the connection open
    enabled,               \* the channel's bit in out_chan_enabled
    in_req,                \* length the bridge has of bridge_start_in, 0 when none
    out_req,               \* the bridge has cmd_buf, from bridge_start_out
    chan,                  \* p->chan: "own", or any "other" value written over it
    tx_src, rx_dst,        \* what the running DMA reads and writes, or "none"
    tx_left,               \* bytes it can still send while the UART receives
    dma_int, dma_done,     \* DMA channels with interrupt enabled, with it pending
    i2c,                   \* I2C operation: "none", "busy", or "flag" (SB or MB is set)
    bus,                   \* I2C bus: "idle", or addressed for "write" or "read"
    uart_len,              \* uart_buf.buf_len
    rxc, rxc_en,           \* UART receive flag, its interrupt enable
    tcc, tcc_en,           \* timeout: subset of {"runs", "ovf"}; its interrupt enable
    sense,                 \* interrupt sense of each pin: "none", "edge" or "level"
    eic_flag, eic_en,      \* pins whose interrupt flag is set; interrupt enable
    nvic                   \* interrupts pending in the NVIC: "sercom", "tcc", "eic"

parserVars == <<cmd, arg0, arg_len>>
queueVars == <<cmd_len, cmd_pos, reply_len, pending_in, pending_out>>
bridgeVars == <<connected, enabled, in_req, out_req, chan>>
dmaVars == <<tx_src, rx_dst, tx_left, dma_int, dma_done>>
i2cVars == <<i2c, bus>>
uartVars == <<uart_len, rxc, rxc_en, tcc>>
pinVars == <<sense, eic_flag>>
vars == <<state, mode, parserVars, queueVars, stepping, bridgeVars, dmaVars, i2cVars,
          uartVars, tcc_en, pinVars, eic_en, nvic>>

Idle == "read_cmd"

TypeOK ==
    /\ state \in {"disable", "read_cmd", "read_arg", "exec", "exec_async"}
    /\ mode \in {"none", "spi", "i2c", "uart"}
    /\ cmd \in AllCmds
    /\ arg0 \in 0..BRIDGE_BUF_SIZE
    /\ arg_len \in 0..3
    /\ {cmd_len, cmd_pos, reply_len} \subseteq 0..BRIDGE_BUF_SIZE
    /\ {pending_in, pending_out, stepping, connected, enabled, out_req} \subseteq BOOLEAN
    /\ {in_req, tx_left} \subseteq 0..BRIDGE_BUF_SIZE
    /\ chan \in {"own", "other"}
    /\ tx_src \in {"none", "dummy", "cmd_buf"}
    /\ rx_dst \in {"none", "dummy", "reply_buf"}
    /\ dma_int \subseteq {"tx", "rx"} /\ dma_done \subseteq {"tx", "rx"}
    /\ i2c \in {"none", "busy", "flag"} /\ bus \in {"idle", "write", "read"}
    /\ uart_len \in 0..UART_RX_SIZE
    /\ tcc \subseteq {"runs", "ovf"}
    /\ {rxc, rxc_en, tcc_en, eic_en} \subseteq BOOLEAN
    /\ sense \in [Pins -> {"none", "edge", "level"}]
    /\ eic_flag \subseteq Pins
    /\ nvic \subseteq {"sercom", "tcc", "eic"}

Init ==
    /\ state = "disable" /\ mode = "none"
    /\ cmd = "NOP" /\ arg0 = 0 /\ arg_len = 0
    /\ cmd_len = 0 /\ cmd_pos = 0 /\ reply_len = 0
    /\ pending_in = FALSE /\ pending_out = FALSE
    /\ stepping = FALSE
    /\ connected = FALSE /\ enabled = TRUE /\ in_req = 0 /\ out_req = FALSE
    /\ chan = "own"
    /\ tx_src = "none" /\ rx_dst = "none" /\ tx_left = 0 /\ dma_int = {} /\ dma_done = {}
    /\ i2c = "none" /\ bus = "idle"
    /\ uart_len = 0 /\ rxc = FALSE /\ rxc_en = FALSE /\ tcc = {} /\ tcc_en = FALSE
    /\ sense = [p \in Pins |-> "none"]
    /\ eic_flag = {} /\ eic_en = FALSE
    /\ nvic = {}

---------------------------------------------------------------------------
(* Helpers.                                                                *)

U8(n) == n % (BRIDGE_BUF_SIZE + 1)
MinOf(a, b) == IF a < b THEN a ELSE b

\* Interrupts asserted by an enabled flag; the NVIC keeps them pending until their handler
\* starts, also if the flag goes away.  taken is the one whose handler starts.
Asserted == {k \in {"sercom", "tcc", "eic"} :
                \/ k = "sercom" /\ ((rxc /\ rxc_en) \/ i2c = "flag")
                \/ k = "tcc" /\ "ovf" \in tcc /\ tcc_en
                \/ k = "eic" /\ eic_flag # {} /\ eic_en}
Latch(taken) == nvic' = (nvic \ taken) \cup Asserted'

\* Of the pending interrupts the NVIC starts EIC's first, TCC's last.  Unless a run allows
\* late ones, the handlers of other interrupts start only when none is pending.
IsFirst(k) == k \in nvic /\ (k # "eic" => "eic" \notin nvic) /\ (k = "tcc" => nvic = {"tcc"})
Starts(k) == ~stepping /\ (IsFirst(k) \/ (k \in nvic /\ "late" \in Races))
NoneLate == nvic = {} \/ "late" \in Races

\* Calls of the bridge name p->chan.  When it was overwritten they do to another channel,
\* or to none, what they should do to the port's own (not modelled); the bridge still calls
\* the port for its own channel.
OwnChannel == chan = "own"

\* port_error: bridge_disable_chan drops what the bridge has not begun to transfer.
port_error ==
    \/ ~OwnChannel /\ UNCHANGED bridgeVars
    \/ /\ OwnChannel
       /\ enabled' = FALSE
       /\ in_req' \in {0, in_req}
       /\ out_req' \in {FALSE, out_req}
       /\ UNCHANGED <<connected, chan>>
Check(ok) == IF ok THEN UNCHANGED bridgeVars ELSE port_error

\* port_send_status, n times.
port_send_status(n) ==
    /\ reply_len' = MinOf(reply_len + n, BRIDGE_BUF_SIZE)
    /\ Check(reply_len + n <= BRIDGE_BUF_SIZE)

Remaining == cmd_len - cmd_pos
Room == BRIDGE_BUF_SIZE - reply_len
port_tx_len == MinOf(arg0, Remaining)
port_rx_len == MinOf(arg0, Room)
port_txrx_len == MinOf(MinOf(arg0, Remaining), Room)

\* The buffers the current command uses while it is in exec_async.
\* Mutants: RX is taken for TX, TX for RX.
port_tx_locked_not == cmd \notin {"RX", "TX"}
port_tx_locked == cmd # "RX"
port_rx_locked_not == cmd \notin {"RX", "TX"}
port_rx_locked == cmd # "TX"

\* Whether asynchronous events may write to reply_buf; pin is the value of pending_in.
\* Mutant: pending_in is not looked at.
AsyncAllowed_pending(pin) ==
    state = Idle \/ (state = "exec_async" /\ ~port_rx_locked)
AsyncAllowed(pin) ==
    ~pin /\ (state = Idle \/ (state = "exec_async" /\ ~port_rx_locked))

---------------------------------------------------------------------------
(* port_step.                                                              *)

\* Its beginning, in state s; port_disable_async_events.
\* Mutant: asynchronous events stay enabled.
port_step_keeps_events(s) ==
    /\ state' = s /\ stepping' = TRUE
    /\ UNCHANGED <<eic_en, tcc_en>>
port_step(s) ==
    /\ state' = s /\ stepping' = TRUE
    /\ eic_en' = FALSE
    /\ tcc_en' = (tcc_en /\ mode # "uart")
NoStep == UNCHANGED <<state, stepping, eic_en, tcc_en>>

\* The requests with which a turn of the loop begins.
WantOut == cmd_pos >= cmd_len /\ ~pending_out /\ ~(state = "exec_async" /\ port_tx_locked)
WantIn ==
    /\ reply_len >= BRIDGE_BUF_SIZE \/ ((pending_out \/ WantOut) /\ reply_len > 0)
    /\ ~pending_in /\ ~(state = "exec_async" /\ port_rx_locked)
MustWait == pending_in \/ pending_out \/ WantOut \/ WantIn

\* The loop ends to wait for the bridge.
StepWait ==
    /\ stepping /\ MustWait
    /\ stepping' = FALSE
    /\ pending_out' = (pending_out \/ WantOut)
    /\ out_req' = (out_req \/ (WantOut /\ OwnChannel))
    /\ pending_in' = (pending_in \/ WantIn)
    /\ in_req' = IF WantIn /\ OwnChannel THEN reply_len ELSE in_req
    /\ LET allowed == AsyncAllowed(pending_in \/ WantIn)
       IN /\ eic_en' = (eic_en \/ allowed)
          /\ tcc_en' = (tcc_en \/ (allowed /\ mode = "uart"))
    /\ UNCHANGED <<state, mode, parserVars, cmd_len, cmd_pos, reply_len, connected, enabled,
                   chan, dmaVars, i2cVars, uartVars, pinVars>>
    /\ Latch({})

\* The loop ends to wait for the command's transfer.
StepAsync ==
    /\ stepping /\ ~MustWait
    /\ state = "exec_async"
    /\ stepping' = FALSE
    /\ UNCHANGED <<state, mode, parserVars, queueVars, bridgeVars, dmaVars, i2cVars,
                   uartVars, tcc_en, pinVars, eic_en, nvic>>
---------------------------------------------------------------------------
(* Commands.                                                               *)

\* port_cmd_args; GPIO stands for all one-argument commands without a reply.
port_cmd_args(c) ==
    IF c \in {"NOP", "STOP", "DISABLE", "DISABLE_UART"} THEN 0
    ELSE IF c = "ENABLE_UART" THEN 2
    ELSE IF c = "ENABLE_SPI" THEN 3
    ELSE 1

\* What the first argument can be.
Arg0(c) ==
    IF c \in {"ECHO", "TX", "RX", "TXRX"} THEN 1..MaxPayload
    ELSE IF c \in {"GPIO", "GPIO_INT", "READ", "ANALOG_READ"} THEN Pins
    ELSE IF c = "START" THEN {0, 1}
    ELSE {0}

\* The client (external): a bus is used after it was enabled, an I2C transfer is between
\* START and STOP and of the announced direction, a UART is disabled before the port is
\* used otherwise.  No interrupt is under way when it is, unless late ones are allowed.
Legal(c) ==
    /\ c \in Cmds
    /\ c = "TX" => mode \in {"spi", "uart"} \/ bus = "write"
    /\ c = "TX" /\ mode = "uart" => Room >= UART_RX_SIZE + 2 \/ "duplex" \in Races
    /\ c = "RX" => mode = "spi" \/ bus = "read"
    /\ c = "TXRX" => mode = "spi"
    /\ c \in {"START", "STOP"} => mode = "i2c"
    /\ c \in {"ENABLE_SPI", "ENABLE_I2C", "DISABLE"} => mode # "uart"
    /\ c \in {"ENABLE_SPI", "ENABLE_I2C", "ENABLE_UART", "DISABLE"} => bus = "idle"
    /\ c = "DISABLE_UART" => mode = "uart" /\ ("sercom" \in nvic => "late" \in Races)

deviceVars == <<dmaVars, i2cVars, uartVars, tcc_en, sense>>

BeginDone(c) ==
    /\ c \in {"NOP", "GPIO", "DISABLE"}
    /\ state' = Idle
    /\ mode' = IF c = "DISABLE" THEN "none" ELSE mode
    /\ UNCHANGED <<reply_len, bridgeVars, deviceVars>>

BeginInt(c, a) ==
    /\ c = "GPIO_INT"
    /\ state' = Idle
    /\ \E m \in {"none", "edge", "level"} : sense' = [sense EXCEPT ![a] = m]
    /\ UNCHANGED <<mode, reply_len, bridgeVars, dmaVars, i2cVars, uartVars, tcc_en>>

BeginReply(c) ==
    /\ c \in {"READ", "ECHO", "RX", "TXRX"}
    /\ state' = IF c = "READ" THEN Idle ELSE "exec"
    /\ port_send_status(1)
    /\ UNCHANGED <<mode, deviceVars>>

\* Three bytes, and the u8 index is not compared with the size of the buffer: the byte
\* after the last goes to p->chan, which follows reply_buf, and then the index is 0.
BeginAnalogRead(c) ==
    /\ c = "ANALOG_READ"
    /\ state' = Idle
    /\ reply_len' = U8(reply_len + 3)
    /\ chan' \in IF reply_len + 3 > BRIDGE_BUF_SIZE THEN {"own", "other"} ELSE {chan}
    /\ UNCHANGED <<mode, connected, enabled, in_req, out_req, deviceVars>>

BeginTx(c) ==
    /\ c = "TX"
    /\ state' = "exec"
    /\ UNCHANGED <<mode, reply_len, bridgeVars, deviceVars>>

BeginStart(c, a) ==
    /\ c = "START"
    /\ state' = "exec_async"
    /\ i2c' = "busy"
    /\ bus' = IF a = 1 THEN "read" ELSE "write"
    /\ UNCHANGED <<mode, reply_len, bridgeVars, dmaVars, uartVars, tcc_en, sense>>

BeginStop(c) ==
    /\ c = "STOP"
    /\ state' = Idle
    /\ bus' = "idle"
    /\ UNCHANGED <<mode, reply_len, bridgeVars, dmaVars, i2c, uartVars, tcc_en, sense>>

\* Both DMA channels are reset; the one that receives last gets its interrupt.
BeginSpi(c) ==
    /\ c = "ENABLE_SPI"
    /\ state' = Idle /\ mode' = "spi"
    /\ dma_int' = {"rx"} /\ dma_done' = {}
    /\ UNCHANGED <<reply_len, bridgeVars, tx_src, rx_dst, tx_left, i2cVars, uartVars, tcc_en, sense>>

BeginI2c(c) ==
    /\ c = "ENABLE_I2C"
    /\ state' = Idle /\ mode' = "i2c"
    /\ i2c' = "none" /\ bus' = "idle"
    /\ rxc' = FALSE /\ rxc_en' = FALSE
    /\ UNCHANGED <<reply_len, bridgeVars, dmaVars, uart_len, tcc, tcc_en, sense>>

BeginUart(c) ==
    /\ c = "ENABLE_UART"
    /\ state' = Idle /\ mode' = "uart"
    /\ i2c' = "none" /\ bus' = "idle"
    /\ dma_int' = dma_int \cup {"tx"} /\ dma_done' = dma_done \ {"tx"}
    /\ uart_len' = 0 /\ rxc' = FALSE /\ rxc_en' = TRUE
    /\ tcc' = tcc \cup {"runs"} /\ tcc_en' = TRUE
    /\ UNCHANGED <<reply_len, bridgeVars, tx_src, rx_dst, tx_left, sense>>

BeginUartOff(c) ==
    /\ c = "DISABLE_UART"
    /\ state' = Idle /\ mode' = "none"
    /\ rxc_en' = FALSE
    /\ tcc' = tcc \ {"runs"} /\ tcc_en' = FALSE
    /\ UNCHANGED <<reply_len, bridgeVars, dmaVars, i2cVars, uart_len, rxc, sense>>

port_begin_cmd(c, a) ==
    /\ arg0' = IF c = "START" THEN 0 ELSE a
    /\ \/ BeginDone(c) \/ BeginInt(c, a) \/ BeginReply(c) \/ BeginAnalogRead(c)
       \/ BeginTx(c) \/ BeginStart(c, a) \/ BeginStop(c)
       \/ BeginSpi(c) \/ BeginI2c(c) \/ BeginUart(c) \/ BeginUartOff(c)

restOfStep == <<cmd_len, pending_in, pending_out, stepping, eic_flag, eic_en>>

\* The loop reads a command byte.
StepCmd(c) ==
    /\ stepping /\ ~MustWait
    /\ state = Idle
    /\ Legal(c)
    /\ cmd' = c
    /\ cmd_pos' = cmd_pos + 1
    /\ arg_len' = port_cmd_args(c)
    /\ IF port_cmd_args(c) = 0
       THEN port_begin_cmd(c, arg0)
       ELSE /\ state' = "read_arg"
            /\ UNCHANGED <<arg0, mode, reply_len, bridgeVars, deviceVars>>
    /\ UNCHANGED restOfStep
    /\ Latch({})

\* The loop reads an argument byte; the first is arg[0].
StepArg(a) ==
    /\ stepping /\ ~MustWait
    /\ state = "read_arg"
    /\ IF arg_len = port_cmd_args(cmd) THEN a \in Arg0(cmd) ELSE a = arg0
    /\ cmd_pos' = cmd_pos + 1
    /\ arg_len' = arg_len - 1
    /\ IF arg_len = 1
       THEN port_begin_cmd(cmd, a)
       ELSE /\ arg0' = a
            /\ UNCHANGED <<state, mode, reply_len, bridgeVars, deviceVars>>
    /\ UNCHANGED <<cmd, restOfStep>>
    /\ Latch({})

---------------------------------------------------------------------------
(* port_continue_cmd: the next part of a payload.                          *)

ContinueEcho ==
    /\ cmd = "ECHO"
    /\ reply_len' = reply_len + port_txrx_len
    /\ cmd_pos' = cmd_pos + port_txrx_len
    /\ arg0' = arg0 - port_txrx_len
    /\ state' = IF arg0 = port_txrx_len THEN Idle ELSE "exec"
    /\ UNCHANGED <<dmaVars, i2c>>

\* SPI, and sending to the UART: by DMA.
ContinueDma ==
    /\ \/ cmd \in {"TX", "RX", "TXRX"} /\ mode = "spi"
       \/ cmd = "TX" /\ mode = "uart"
    /\ LET size == IF cmd = "TX" THEN port_tx_len
                   ELSE IF cmd = "RX" THEN port_rx_len ELSE port_txrx_len
       IN /\ cmd_pos' = IF cmd = "RX" THEN cmd_pos ELSE cmd_pos + size
          /\ reply_len' = IF cmd = "TX" THEN reply_len ELSE reply_len + size
          /\ arg0' = arg0 - size
          /\ tx_left' = IF mode = "uart" THEN size ELSE 0
    /\ tx_src' = IF cmd = "RX" THEN "dummy" ELSE "cmd_buf"
    /\ rx_dst' = IF mode = "uart" THEN rx_dst
                 ELSE IF cmd = "TX" THEN "dummy" ELSE "reply_buf"
    /\ state' = "exec_async"
    /\ UNCHANGED <<dma_int, dma_done, i2c>>

\* I2C: a byte at a time.
ContinueI2c ==
    /\ cmd \in {"TX", "RX"} /\ mode = "i2c"
    /\ cmd_pos' = IF cmd = "TX" THEN cmd_pos + 1 ELSE cmd_pos
    /\ reply_len' = IF cmd = "RX" THEN reply_len + 1 ELSE reply_len
    /\ arg0' = arg0 - 1
    /\ i2c' = "busy"
    /\ state' = "exec_async"
    /\ UNCHANGED dmaVars

StepContinue ==
    /\ stepping /\ ~MustWait
    /\ state = "exec"
    /\ ContinueEcho \/ ContinueDma \/ ContinueI2c
    /\ UNCHANGED <<mode, cmd, arg_len, cmd_len, pending_in, pending_out, stepping, bridgeVars,
                   bus, uartVars, tcc_en, pinVars, eic_en>>
    /\ Latch({})
---------------------------------------------------------------------------
(* Handlers.                                                               *)

\* bridge_open_*: port_enable.  DMAC_Handler serves a DMA channel at a time and is entered
\* again at once: what DMA left pending when the port was closed is served before.
port_enable ==
    /\ ~stepping /\ NoneLate /\ dma_done = {}
    /\ ~connected /\ enabled
    /\ connected' = TRUE
    /\ out_req' = (out_req \/ OwnChannel)
    /\ pending_in' = FALSE /\ pending_out' = TRUE
    /\ cmd_len' = 0 /\ cmd_pos' = 0 /\ reply_len' = 0
    /\ state' = Idle /\ mode' = "none"
    /\ UNCHANGED <<parserVars, stepping, enabled, in_req, chan, dmaVars, i2cVars, uartVars,
                   tcc_en, pinVars, eic_en, nvic>>

\* bridge_close_*: port_disable.
CloseExceptDma ==
    /\ ~stepping
    /\ NoneLate /\ (dma_done = {} \/ "late" \in Races)
    /\ connected
    /\ in_req = 0 \/ "busy_close" \in Races
    /\ connected' = FALSE /\ enabled' = (enabled \/ OwnChannel)
    /\ state' = "disable"
    /\ i2c' = "none" /\ bus' = "idle" /\ rxc' = FALSE /\ rxc_en' = FALSE
    /\ eic_en' = FALSE /\ tcc_en' = (tcc_en /\ mode # "uart")
    /\ sense' = [p \in Pins |-> "none"] /\ eic_flag' = {}
    /\ UNCHANGED <<mode, parserVars, queueVars, stepping, in_req, out_req, chan, dma_int,
                   dma_done, uart_len, tcc>>
    /\ Latch({})
\* Mutant: the DMA goes on.
port_disable_keeps_dma == CloseExceptDma /\ UNCHANGED <<tx_src, rx_dst, tx_left>>
port_disable == CloseExceptDma /\ tx_src' = "none" /\ rx_dst' = "none" /\ tx_left' = 0

port_bridge_out_completion(n) ==
    /\ ~stepping /\ NoneLate
    /\ connected /\ out_req
    /\ out_req' = FALSE
    /\ pending_out' = FALSE
    /\ cmd_len' = n /\ cmd_pos' = 0
    /\ port_step(state)
    /\ UNCHANGED <<mode, parserVars, reply_len, pending_in, connected, enabled, in_req, chan,
                   dmaVars, i2cVars, uartVars, pinVars>>
    /\ Latch({})

InCompletionExceptPending ==
    /\ ~stepping /\ NoneLate
    /\ connected /\ in_req # 0
    /\ in_req' = 0
    /\ reply_len' = 0
    /\ port_step(state)
    /\ UNCHANGED <<mode, parserVars, cmd_len, cmd_pos, pending_out, connected, enabled, out_req,
                   chan, dmaVars, i2cVars, uartVars, pinVars>>
    /\ Latch({})
\* Mutant: pending_in is not reset.
port_bridge_in_completion_pending == InCompletionExceptPending /\ UNCHANGED pending_in
port_bridge_in_completion == InCompletionExceptPending /\ pending_in' = FALSE

\* The command that waits for its transfer goes on; an error if there is none.
Resume ==
    IF state = "exec_async"
    THEN port_step(IF arg0 = 0 THEN Idle ELSE "exec") /\ UNCHANGED bridgeVars
    ELSE port_error /\ NoStep

\* port_dma_tx_completion, port_dma_rx_completion; the lower channel first.
port_dma_completion(d) ==
    /\ ~stepping /\ NoneLate
    /\ d \in dma_done /\ (d = "rx" => "tx" \notin dma_done)
    /\ dma_done' = dma_done \ {d}
    /\ Resume
    /\ UNCHANGED <<mode, parserVars, queueVars, tx_src, rx_dst, tx_left, dma_int, i2cVars, uartVars,
                   pinVars>>
    /\ Latch({})

\* uart_send_data with len bytes in the buffer.
Send(len) ==
    /\ uart_len' = 0
    /\ reply_len' = reply_len + len + 2
    /\ IF state = "disable" THEN port_error /\ NoStep
                            ELSE port_step(state) /\ UNCHANGED bridgeVars
SendNothing == uart_len' = 0 /\ NoStep /\ UNCHANGED <<reply_len, bridgeVars>>
\* Mutant: the room in reply_buf is not looked at.
uart_send_data_unchecked(len) ==
    \/ len = 0 /\ SendNothing
    \/ len # 0 /\ Send(len)
uart_send_data(len) ==
    \/ len = 0 /\ SendNothing
    \/ len # 0 /\ len + 2 <= Room /\ Send(len)
    \/ len + 2 > Room /\ len # 0 /\ uart_len' = len /\ NoStep /\ port_error /\ UNCHANGED reply_len

\* TCC_HANDLER.
TccHandler ==
    /\ Starts("tcc")
    /\ uart_send_data(uart_len)
    /\ tcc' = tcc \ {"ovf"}
    /\ UNCHANGED <<mode, parserVars, cmd_len, cmd_pos, pending_in, pending_out, dmaVars,
                   i2cVars, rxc, rxc_en, pinVars>>
    /\ Latch({"tcc"})

\* port_handle_sercom_uart_i2c, by mode.
SercomUart ==
    /\ Starts("sercom") /\ mode = "uart"
    /\ IF rxc
       THEN LET len == MinOf(uart_len + 1, UART_RX_SIZE)
                flush == len > UART_RX_SIZE - UART_SLACK /\ AsyncAllowed(pending_in)
            IN /\ tcc' = tcc \cup {"runs"}
               /\ IF flush THEN uart_send_data(len)
                  ELSE uart_len' = len /\ NoStep /\ UNCHANGED <<reply_len, bridgeVars>>
       ELSE UNCHANGED <<tcc, uart_len, reply_len, bridgeVars>> /\ NoStep
    /\ rxc' = FALSE
    /\ UNCHANGED <<mode, parserVars, cmd_len, cmd_pos, pending_in, pending_out, dmaVars,
                   i2cVars, rxc_en, pinVars>>
    /\ Latch({"sercom"})

\* A bus error is signalled, and its flag stays set: the handler is entered again.
SercomI2c ==
    /\ ~stepping /\ mode = "i2c"
    /\ i2c' = IF i2c = "flag" THEN "none" ELSE i2c
    /\ \/ /\ Starts("sercom")
          /\ Resume
       \/ /\ "i2c_error" \in Races /\ bus # "idle"
          /\ port_error
          /\ IF state = "exec_async"
             THEN port_step(IF arg0 = 0 THEN Idle ELSE "exec")
             ELSE NoStep
    /\ UNCHANGED <<mode, parserVars, queueVars, dmaVars, bus, uartVars, pinVars>>
    /\ Latch({"sercom"})

\* The interrupt of a mode that has been left.
SercomError ==
    /\ Starts("sercom") /\ mode \in {"none", "spi"}
    /\ port_error
    /\ NoStep
    /\ UNCHANGED <<mode, parserVars, queueVars, dmaVars, i2cVars, uartVars, pinVars>>
    /\ Latch({"sercom"})

\* EIC_Handler and port_handle_extint.  The handler looks at the flags of all pins, also of
\* those whose interrupts are disabled.  It leaves the flags set when it signals an error.
port_handle_extint ==
    /\ Starts("eic") \/ (~stepping /\ "other_port" \in Races /\ eic_flag # {})
    /\ IF eic_flag = {}
       THEN NoStep /\ UNCHANGED <<reply_len, bridgeVars, sense, eic_flag>>
       ELSE IF state = Idle
       THEN /\ port_send_status(Cardinality(eic_flag))
            /\ sense' = [p \in Pins |-> IF p \in eic_flag /\ sense[p] = "level" THEN "none"
                                        ELSE sense[p]]
            /\ eic_flag' = {}
            /\ port_step(Idle)
       ELSE port_error /\ NoStep /\ UNCHANGED <<reply_len, sense, eic_flag>>
    /\ UNCHANGED <<mode, parserVars, cmd_len, cmd_pos, pending_in, pending_out, dmaVars,
                   i2cVars, uartVars>>
    /\ Latch({"eic"})

---------------------------------------------------------------------------
(* The hardware (external).                                                *)

restOfPort == <<state, mode, parserVars, queueVars, stepping, bridgeVars, dma_int, bus,
                uart_len, rxc_en, tcc_en, sense, eic_en>>

DmaTxDone ==
    /\ tx_src # "none"
    /\ tx_src' = "none" /\ tx_left' = 0
    /\ dma_done' = dma_done \cup (dma_int \cap {"tx"})
    /\ UNCHANGED <<restOfPort, rx_dst, i2c, rxc, tcc, eic_flag, nvic>>

\* The last byte arrives after the last one was sent.
DmaRxDone ==
    /\ rx_dst # "none" /\ tx_src = "none"
    /\ rx_dst' = "none"
    /\ dma_done' = dma_done \cup (dma_int \cap {"rx"})
    /\ UNCHANGED <<restOfPort, tx_src, tx_left, i2c, rxc, tcc, eic_flag, nvic>>

I2cDone ==
    /\ i2c = "busy"
    /\ i2c' = "flag"
    /\ UNCHANGED <<restOfPort, tx_src, rx_dst, tx_left, dma_done, rxc, tcc, eic_flag>>
    /\ Latch({})

Sending == cmd = "TX" /\ state \in {"exec", "exec_async"}
UartByte ==
    /\ rxc_en
    /\ "tcc" \notin nvic \/ "late" \in Races
    /\ ~Sending \/ uart_len + 3 <= Room \/ "duplex" \in Races
    /\ Sending /\ state = "exec_async" => tx_left # 0
    /\ tx_left' = IF tx_left = 0 THEN 0 ELSE tx_left - 1
    /\ rxc' = TRUE
    /\ UNCHANGED <<restOfPort, tx_src, rx_dst, dma_done, i2c, tcc, eic_flag>>
    /\ Latch({})

TccOver ==
    /\ "runs" \in tcc
    /\ eic_flag = {} \/ "pin_and_uart" \in Races
    /\ (in_req = 0 /\ ~stepping) \/ "slow_soc" \in Races
    /\ tcc' = {"ovf"}
    /\ UNCHANGED <<restOfPort, tx_src, rx_dst, tx_left, dma_done, i2c, rxc, eic_flag>>
    /\ Latch({})

PinChange(p) ==
    /\ sense[p] # "none"
    /\ "ovf" \notin tcc \/ "pin_and_uart" \in Races
    /\ eic_flag' = eic_flag \cup {p}
    /\ UNCHANGED <<restOfPort, tx_src, rx_dst, tx_left, dma_done, i2c, rxc, tcc>>
    /\ Latch({})

---------------------------------------------------------------------------
Step ==
    \/ StepWait \/ StepAsync \/ StepContinue
    \/ \E c \in Cmds : StepCmd(c)
    \/ \E a \in 0..BRIDGE_BUF_SIZE : StepArg(a)

Handler ==
    \/ port_enable \/ port_disable
    \/ \E n \in 1..BRIDGE_BUF_SIZE : port_bridge_out_completion(n)
    \/ port_bridge_in_completion
    \/ \E d \in {"tx", "rx"} : port_dma_completion(d)
    \/ TccHandler \/ SercomUart \/ SercomI2c \/ SercomError \/ port_handle_extint

Hardware ==
    \/ DmaTxDone \/ DmaRxDone \/ I2cDone \/ UartByte \/ TccOver
    \/ \E p \in Pins : PinChange(p)

Next == Step \/ Handler \/ Hardware

Spec == Init /\ [][Next]_vars

---------------------------------------------------------------------------
(* Properties.                                                             *)

\* A buffer the bridge holds is not in use by DMA: commands being sent are not overwritten
\* by the next packet, and a reply is not sent before its data arrived (port.c:604-622,
\* 668-678).
DmaOwnsItsBuffer ==
    /\ tx_src = "cmd_buf" => ~out_req
    /\ rx_dst = "reply_buf" => in_req = 0

\* DMA runs for the command that waits for it, and after a disconnection not at all
\* (port.c:142-147, 735-753).
DmaHasItsCommand ==
    tx_src # "none" \/ rx_dst # "none" \/ dma_done # {} => state = "exec_async"

\* Nothing is transferred to or from the buffers of a port that is closed, whatever error or
\* interrupt came before (port.c:142-147).
ClosedPortRests == ~connected => tx_src = "none" /\ rx_dst = "none" /\ i2c # "busy"

\* Replies and asynchronous messages leave reply_buf only by the bridge, all of them: none
\* is written after its length was handed over, and none overwrites another (port.c:14-16,
\* 165-172, 284-292).
RepliesKept ==
    [][reply_len' < reply_len /\ connected => in_req = reply_len /\ in_req' = 0]_vars

\* Asynchronous messages are inserted between replies, never into the data of one, which
\* the Node library takes from the stream by its length alone (tessel-export.js:424-448).
InReply == cmd \in {"ECHO", "RX", "TXRX"} /\ state \in {"exec", "exec_async"}
RepliesWhole == [][reply_len' > reply_len /\ ~stepping => ~InReply]_vars

\* A port never signals an error, which closes its connection (port.c:3-6).  This needs
\* that no race of Races happens and a client that sends to a UART only while there is room
\* for what it may receive meanwhile, which the client cannot know (port.c:287).
NoError == enabled

\* In any order of interrupts and with any errors, an open port signals an error only for
\*   a pin or the UART timeout whose interrupt had been disabled meanwhile,
\*   what a UART received while a reply or a transmission kept reply_buf,
\*   the I2C master, or the SERCOM of a mode that was left.
\* No completion of the bridge or of DMA and no command of the library finds the port in a
\* state that it does not expect, nor does a pin whose interrupt is enabled find reply_buf
\* full (port.c:3-6, 165-172, 288-292, 650-664, 730-753).
NoRoom == uart_len + 3 > Room /\ (in_req # 0 \/ Sending)
ErrorsExplained ==
    [][enabled /\ ~enabled' =>
         \/ ~connected
         \/ port_handle_extint /\ "eic" \notin Asserted
         \/ TccHandler /\ ("tcc" \notin Asserted \/ NoRoom)
         \/ SercomUart /\ NoRoom
         \/ SercomI2c
         \/ SercomError /\ ~rxc_en]_vars

\* A port is never left waiting for nothing: it has a buffer with the bridge, or the
\* command it executes has a transfer that will end (port.c:666-720).
WaitsForSomething ==
    connected /\ ~stepping =>
        \/ out_req
        \/ in_req # 0
        \/ state = "exec_async" /\ (dma_done # {} \/ tx_src # "none" \/ rx_dst # "none" \/ i2c # "none")
===========================================================================
