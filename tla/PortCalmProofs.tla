-------------------------- MODULE PortCalmProofs --------------------------
(***************************************************************************)
(* Proofs about a module port whose interrupts come in none of the orders  *)
(* of Races and whose client keeps to the protocol, with room for what a   *)
(* UART receives while it sends, and does not use ANALOG_READ (Calm): no   *)
(* error, never stuck, replies complete and unbroken.                      *)
(*                                                                         *)
(* They need one invariant, CalmInv.  That no handler signals an error     *)
(* follows from what a pending interrupt says of the state its handler     *)
(* will find (Sercom, PinInv, TccInv), which other handlers do not change  *)
(* because they disable interrupts that write to reply_buf; from the room  *)
(* that is left in it (Rested, UartFits); and from the mode a command was  *)
(* sent for (Modes).  Latched ties the NVIC to the flags.                  *)
(*                                                                         *)
(* First what each handler does when the invariant holds (CalmUart ...     *)
(* CalmContinue), then that every step keeps each part (RequestsStep ...   *)
(* TimeoutStep), then the theorems.                                        *)
(***************************************************************************)
EXTENDS PortProofs

\* No race is allowed: interrupts are punctual, no buffer is full, the SoC is quick.  No
\* command writes beyond reply_buf.
Calm == Races = {} /\ "ANALOG_READ" \notin Cmds

\* What the bridge has of the port's requests; no error is signalled.
Requests ==
    /\ enabled /\ OwnChannel
    /\ connected /\ pending_out => out_req
    /\ connected /\ pending_in => in_req = reply_len /\ in_req # 0

\* A command's turn has come to an end only with a request to the bridge.
Rested ==
    connected /\ ~stepping /\ state # "exec_async" =>
        pending_in \/ (reply_len = 0 /\ pending_out)

\* A command that waits for its transfer has one; I2C has none but that.
Busy ==
    /\ state = "exec_async" =>
        \/ mode = "i2c" /\ i2c # "none"
        \/ mode \in {"spi", "uart"} /\ (tx_src # "none" \/ rx_dst # "none" \/ dma_done # {})
    /\ i2c # "none" => mode = "i2c" /\ state = "exec_async"

\* What a command that has begun requires of the mode.
Admissible(c) ==
    /\ c \in Cmds
    /\ c \in {"START", "STOP"} => mode = "i2c"
    /\ c \in {"ENABLE_SPI", "ENABLE_I2C", "DISABLE"} => mode # "uart"
    /\ c \in {"ENABLE_SPI", "ENABLE_I2C", "ENABLE_UART", "DISABLE"} => bus = "idle"
    /\ c = "RX" => mode \in {"spi", "i2c"}
    /\ c = "TXRX" => mode = "spi"
    /\ c = "TX" => mode \in {"spi", "i2c", "uart"}
    /\ c = "DISABLE_UART" => mode = "uart"

Modes ==
    /\ state \in {"read_arg", "exec", "exec_async"} => Admissible(cmd)
    /\ bus # "idle" => mode = "i2c" /\ connected
    /\ state = "exec_async" /\ cmd \in {"TX", "TXRX"} => ~pending_out
    /\ rxc_en => mode = "uart" /\ connected
    /\ mode = "uart" /\ connected => rxc_en
    /\ tcc_en => mode = "uart" /\ connected

\* Pending interrupts are those of the current mode, and find the state they expect.
Latched == Asserted \subseteq nvic

Sercom == "sercom" \in nvic => (mode = "i2c" /\ i2c = "flag") \/ (mode = "uart" /\ connected)

PinOpen == connected /\ state = Idle /\ ~stepping /\ ~pending_in
PinInv ==
    /\ eic_en => PinOpen
    /\ "eic" \in nvic => eic_flag # {} /\ PinOpen
    /\ eic_flag # {} => "ovf" \notin tcc
    /\ "tcc" \in nvic => "ovf" \in tcc

\* What the UART has received fits into reply_buf during a transmission.
Fit(n) == n = 0 \/ n + 2 <= Room
UartFits ==
    mode = "uart" /\ cmd = "TX" =>
        /\ state \in {"exec", "exec_async"} =>
              Fit(uart_len) /\ (rxc => Fit(MinOf(uart_len + 1, UART_RX_SIZE)))
        /\ state = "read_arg" /\ Room < UART_RX_SIZE + 2 => pending_in \/ (stepping /\ pending_out)

\* The UART's timeout finds nothing received, or a port that waits with an empty reply_buf
\* or transmits.
NothingReceived == uart_len = 0 /\ ~rxc
MaySend ==
    /\ ~stepping /\ ~pending_in /\ connected /\ mode = "uart" /\ ~InReply
    /\ reply_len = 0 \/ (state = "exec_async" /\ cmd = "TX")
TccInv ==
    /\ tcc_en /\ InReply => reply_len > 0
    /\ "tcc" \in nvic => NothingReceived \/ MaySend

CalmInv ==
    /\ TypeInv /\ Held /\ DmaInv
    /\ Requests /\ Rested /\ Busy /\ Modes
    /\ Latched /\ Sercom /\ PinInv /\ UartFits /\ TccInv

---------------------------------------------------------------------------
(* What the handlers do when the invariant holds.                          *)

LEMMA CalmTypes ==
    ASSUME CalmInv
    PROVE  /\ state \in {"disable", "read_cmd", "read_arg", "exec", "exec_async"} /\ cmd \in AllCmds
           /\ mode \in {"none", "spi", "i2c", "uart"}
           /\ arg0 \in Nat /\ reply_len \in Nat /\ reply_len <= BRIDGE_BUF_SIZE
           /\ cmd_len \in Nat /\ cmd_pos \in Nat /\ cmd_pos <= cmd_len
           /\ uart_len \in Nat /\ uart_len <= UART_RX_SIZE
           /\ pending_in \in BOOLEAN /\ pending_out \in BOOLEAN /\ stepping \in BOOLEAN
           /\ connected \in BOOLEAN /\ enabled \in BOOLEAN /\ out_req \in BOOLEAN
           /\ rxc \in BOOLEAN /\ rxc_en \in BOOLEAN /\ tcc_en \in BOOLEAN /\ eic_en \in BOOLEAN
           /\ nvic \in SUBSET {"sercom", "tcc", "eic"} /\ eic_flag \subseteq Pins
           /\ i2c \in {"none", "busy", "flag"}
           /\ (connected <=> state # "disable") /\ (stepping => connected)
           /\ Room = BRIDGE_BUF_SIZE - reply_len
BY SizeFacts DEF CalmInv, TypeInv, Typed, TypedQueue, TypedDevice, Parser, Connection, Room

\* The first pending interrupt is the only one whose handler starts.
LEMMA CalmStarts ==
    ASSUME Calm, NEW k, Starts(k)
    PROVE  k \in nvic /\ ~stepping /\ (k # "eic" => "eic" \notin nvic) /\ (k = "tcc" => nvic = {"tcc"})
BY DEF Calm, Starts, IsFirst

\* What is received by the UART can be sent to the SoC.
LEMMA CalmUart ==
    ASSUME Calm, CalmInv, SercomUart
    PROVE  /\ connected /\ ~stepping /\ mode = "uart" /\ rxc' = FALSE /\ UNCHANGED bridgeVars
           /\ tcc' = tcc \/ tcc' = tcc \cup {"runs"}
           /\ \/ rxc = FALSE /\ NoStep /\ UNCHANGED <<uart_len, reply_len>>
              \/ rxc = TRUE /\ NoStep /\ UNCHANGED reply_len
                 /\ uart_len' = MinOf(uart_len + 1, UART_RX_SIZE)
              \/ /\ rxc = TRUE /\ uart_len' = 0 /\ port_step(state) /\ ~pending_in
                 /\ reply_len' \in Nat /\ reply_len' > reply_len /\ reply_len' <= BRIDGE_BUF_SIZE
                 /\ state = Idle \/ (state = "exec_async" /\ cmd = "TX")
<1> USE SizeFacts, CalmTypes
<1> DEFINE len == MinOf(uart_len + 1, UART_RX_SIZE)
<1>1. len \in Nat /\ 1 <= len /\ len <= UART_RX_SIZE
  BY DEF MinOf
<1>2. /\ ~stepping /\ mode = "uart" /\ rxc' = FALSE /\ "sercom" \in nvic
      /\ \/ rxc = FALSE /\ NoStep /\ UNCHANGED <<tcc, uart_len, reply_len, bridgeVars>>
         \/ rxc = TRUE /\ NoStep /\ UNCHANGED <<reply_len, bridgeVars>> /\ uart_len' = len /\ tcc' = tcc \cup {"runs"}
         \/ rxc = TRUE /\ AsyncAllowed(pending_in) /\ uart_send_data(len) /\ tcc' = tcc \cup {"runs"}
  BY CalmStarts DEF SercomUart
<1>3. connected
  BY <1>2 DEF CalmInv, Sercom
<1>4. ASSUME rxc = TRUE, AsyncAllowed(pending_in), uart_send_data(len)
      PROVE  /\ uart_len' = 0 /\ port_step(state) /\ ~pending_in /\ UNCHANGED bridgeVars
             /\ reply_len' \in Nat /\ reply_len' > reply_len /\ reply_len' <= BRIDGE_BUF_SIZE
             /\ state = Idle \/ (state = "exec_async" /\ cmd = "TX")
  <2>1. ~pending_in /\ (state = Idle \/ (state = "exec_async" /\ cmd = "TX"))
    BY <1>4 DEF AsyncAllowed, port_rx_locked
  <2>2. len + 2 <= Room
    <3>1. CASE state = Idle
      BY <1>1, <1>2, <1>3, <2>1, <3>1 DEF CalmInv, Rested, Idle
    <3>2. CASE state = "exec_async" /\ cmd = "TX"
      BY <1>1, <1>2, <1>4, <3>2 DEF CalmInv, UartFits, Fit
    <3> QED BY <2>1, <3>1, <3>2
  <2>3. Send(len)
    BY <1>1, <1>4, <2>2 DEF uart_send_data
  <2> QED BY <1>1, <2>1, <2>2, <2>3 DEF Send, Idle
<1> QED BY <1>2, <1>3, <1>4

\* So can what is left of it when the timeout ends.
LEMMA CalmTcc ==
    ASSUME Calm, CalmInv, TccHandler
    PROVE  /\ ~stepping /\ nvic = {"tcc"} /\ uart_len' = 0 /\ UNCHANGED bridgeVars
           /\ \/ NoStep /\ UNCHANGED reply_len
              \/ /\ reply_len' \in Nat /\ reply_len' > reply_len /\ reply_len' <= BRIDGE_BUF_SIZE
                 /\ port_step(state) /\ MaySend
<1> USE SizeFacts, CalmTypes
<1>1. ~stepping /\ nvic = {"tcc"} /\ uart_send_data(uart_len)
  BY CalmStarts DEF TccHandler
<1>2. CASE uart_len = 0
  <2>1. SendNothing
    BY <1>1, <1>2 DEF uart_send_data
  <2> QED BY <1>1, <2>1 DEF SendNothing
<1>3. CASE uart_len # 0
  <2>1. MaySend
    BY <1>1, <1>3 DEF CalmInv, TccInv, NothingReceived
  <2>2. uart_len + 2 <= Room
    <3>1. CASE reply_len = 0
      BY <3>1
    <3>2. CASE state = "exec_async" /\ cmd = "TX"
      BY <1>3, <2>1, <3>2 DEF CalmInv, UartFits, Fit, MaySend
    <3> QED BY <2>1, <3>1, <3>2 DEF MaySend
  <2>3. Send(uart_len) /\ state # "disable"
    BY <1>1, <1>3, <2>1, <2>2 DEF uart_send_data, MaySend
  <2> QED BY <1>1, <1>3, <2>1, <2>2, <2>3 DEF Send
<1> QED BY <1>2, <1>3

\* An I2C interrupt and the end of a DMA find the command that waits for them.
LEMMA CalmI2c ==
    ASSUME Calm, CalmInv, SercomI2c
    PROVE  /\ mode = "i2c" /\ i2c = "flag" /\ i2c' = "none" /\ state = "exec_async" /\ UNCHANGED bridgeVars
           /\ ~stepping /\ port_step(IF arg0 = 0 THEN Idle ELSE "exec") /\ "eic" \notin nvic /\ connected
<1> USE CalmTypes
<1>1. mode = "i2c" /\ "sercom" \in nvic /\ ~stepping /\ "eic" \notin nvic /\ Resume
  BY CalmStarts DEF SercomI2c, Calm
<1>2. i2c = "flag" /\ state = "exec_async"
  BY <1>1 DEF CalmInv, Sercom, Busy
<1> QED BY <1>1, <1>2 DEF SercomI2c, Resume

LEMMA CalmDma ==
    ASSUME Calm, CalmInv, NEW d \in {"tx", "rx"}, port_dma_completion(d)
    PROVE  /\ mode \in {"spi", "uart"} /\ state = "exec_async" /\ UNCHANGED bridgeVars /\ ~stepping
           /\ port_step(IF arg0 = 0 THEN Idle ELSE "exec") /\ nvic = {} /\ i2c = "none" /\ connected
<1> USE CalmTypes
<1>1. d \in dma_done /\ ~stepping /\ nvic = {} /\ Resume
  BY DEF port_dma_completion, NoneLate, Calm
<1>2. mode \in {"spi", "uart"} /\ state = "exec_async"
  BY <1>1 DEF CalmInv, DmaInv, DmaCommand
<1> QED BY <1>1, <1>2 DEF Resume, CalmInv, Busy

LEMMA CalmNoSercomError == Calm /\ CalmInv => ~SercomError
BY CalmStarts DEF SercomError, CalmInv, Sercom

\* A change of a pin finds the port at rest, and room.
LEMMA CalmPin ==
    ASSUME Calm, CalmInv, port_handle_extint
    PROVE  /\ eic_flag # {} /\ eic_flag' = {} /\ PinOpen /\ UNCHANGED bridgeVars /\ port_step(Idle)
           /\ reply_len' \in Nat /\ reply_len' >= reply_len /\ reply_len' <= BRIDGE_BUF_SIZE /\ "tcc" \notin nvic
<1> USE CalmTypes
<1>1. "eic" \in nvic
  BY CalmStarts DEF port_handle_extint, Calm
<1>2. eic_flag # {} /\ PinOpen /\ "tcc" \notin nvic
  BY <1>1 DEF CalmInv, PinInv
<1>3. reply_len = 0
  BY <1>2 DEF CalmInv, Rested, PinOpen, Idle
<1>4. Cardinality(eic_flag) \in Nat /\ Cardinality(eic_flag) <= BRIDGE_BUF_SIZE
  BY PinCount
<1>5. port_send_status(Cardinality(eic_flag)) /\ eic_flag' = {} /\ port_step(Idle)
  BY <1>2 DEF port_handle_extint, PinOpen
<1> QED BY <1>2, <1>3, <1>4, <1>5, SizeFacts DEF port_send_status, Check, MinOf

\* The interrupt handlers of the port.
Interrupt ==
    \/ \E d \in {"tx", "rx"} : port_dma_completion(d)
    \/ TccHandler \/ SercomUart \/ SercomI2c \/ SercomError \/ port_handle_extint

\* They signal no error, and end without a word or with port_step; what they write to
\* reply_buf they write for a port that does not wait for the bridge to send it.
LEMMA CalmInterrupt ==
    ASSUME Calm, CalmInv, Interrupt
    PROVE  /\ ~stepping /\ UNCHANGED bridgeVars
           /\ \/ NoStep /\ UNCHANGED reply_len
              \/ /\ stepping' /\ eic_en' = FALSE /\ tcc_en' = (tcc_en /\ mode # "uart") /\ connected
                 /\ UNCHANGED reply_len \/ (~pending_in /\ reply_len' >= reply_len /\ reply_len' <= BRIDGE_BUF_SIZE)
           /\ \/ state' = state
              \/ state = "exec_async" /\ state' \in {Idle, "exec"} /\ "eic" \notin nvic /\ connected
                 /\ UNCHANGED reply_len
<1> USE CalmTypes
<1>1. CASE \E d \in {"tx", "rx"} : port_dma_completion(d)
  BY <1>1, CalmDma DEF port_step, port_dma_completion, queueVars, Idle
<1>2. CASE TccHandler
  <2>1. ~stepping /\ UNCHANGED bridgeVars /\ state' = state
    BY <1>2, CalmTcc DEF port_step, NoStep
  <2>2. \/ NoStep /\ UNCHANGED reply_len
        \/ /\ port_step(state) /\ ~pending_in /\ connected
           /\ reply_len' \in Nat /\ reply_len' > reply_len /\ reply_len' <= BRIDGE_BUF_SIZE
    BY <1>2, CalmTcc DEF MaySend
  <2> QED BY <2>1, <2>2 DEF port_step
<1>3. CASE SercomUart
  <2>1. ~stepping /\ UNCHANGED bridgeVars /\ state' = state
    BY <1>3, CalmUart DEF port_step, NoStep
  <2>2. \/ NoStep /\ UNCHANGED reply_len
        \/ /\ port_step(state) /\ ~pending_in /\ connected
           /\ reply_len' \in Nat /\ reply_len' > reply_len /\ reply_len' <= BRIDGE_BUF_SIZE
    BY <1>3, CalmUart
  <2> QED BY <2>1, <2>2 DEF port_step
<1>4. CASE SercomI2c
  BY <1>4, CalmI2c DEF port_step, SercomI2c, queueVars, Idle
<1>5. CASE port_handle_extint
  BY <1>5, CalmPin DEF port_step, PinOpen
<1> QED BY <1>1, <1>2, <1>3, <1>4, <1>5, CalmNoSercomError DEF Interrupt

\* The loop of port_step reads a byte.
Read == (\E c \in Cmds : StepCmd(c)) \/ (\E a \in 0..BRIDGE_BUF_SIZE : StepArg(a))

LEMMA CalmRead ==
    ASSUME CalmInv, Read
    PROVE  /\ stepping /\ stepping' /\ connected /\ ~pending_in /\ ~pending_out /\ Latch({})
           /\ UNCHANGED <<pending_in, pending_out, cmd_len, eic_flag, eic_en>>
           /\ reply_len < BRIDGE_BUF_SIZE /\ state \in {Idle, "read_arg"} /\ i2c = "none"
<1> USE CalmTypes
<1>1. stepping /\ ~MustWait /\ state \in {Idle, "read_arg"} /\ Latch({}) /\ UNCHANGED restOfStep
  BY DEF Read, StepCmd, StepArg
<1>2. ~pending_in /\ ~pending_out /\ reply_len < BRIDGE_BUF_SIZE
  BY <1>1, LoopGoesOn DEF CalmInv, TypeInv, Idle
<1>3. i2c = "none"
  BY <1>1 DEF CalmInv, Busy, Idle
<1>4. stepping' /\ UNCHANGED <<pending_in, pending_out, cmd_len, eic_flag, eic_en>>
  BY <1>1 DEF restOfStep
<1>5. connected
  BY <1>1
<1> QED BY <1>1, <1>2, <1>3, <1>4, <1>5

\* Either the command is not yet complete, or it begins, in a mode it was sent for.
LEMMA CalmCommand ==
    ASSUME CalmInv, Read
    PROVE  /\ Admissible(cmd')
           /\ cmd' = "DISABLE_UART" => "sercom" \notin nvic \/ "late" \in Races
           /\ \/ state' = "read_arg" /\ UNCHANGED <<mode, reply_len, bridgeVars, deviceVars>>
              \/ \E a \in 0..BRIDGE_BUF_SIZE : port_begin_cmd(cmd', a)
           /\ \/ cmd' = cmd /\ state = "read_arg"
              \/ cmd' = "TX" /\ mode = "uart" => Room >= UART_RX_SIZE + 2 \/ "duplex" \in Races
<1> USE CalmTypes, SizeFacts
<1>1. ASSUME NEW c \in Cmds, StepCmd(c)
      PROVE  /\ Admissible(cmd')
             /\ cmd' = "DISABLE_UART" => "sercom" \notin nvic \/ "late" \in Races
             /\ \/ state' = "read_arg" /\ UNCHANGED <<mode, reply_len, bridgeVars, deviceVars>>
                \/ \E a \in 0..BRIDGE_BUF_SIZE : port_begin_cmd(cmd', a)
             /\ cmd' = "TX" /\ mode = "uart" => Room >= UART_RX_SIZE + 2 \/ "duplex" \in Races
  <2>1. Legal(c) /\ cmd' = c
    BY <1>1 DEF StepCmd
  <2>2. bus # "idle" => mode = "i2c"
    BY DEF CalmInv, Modes
  <2>3. Admissible(c)
    BY <2>1, <2>2 DEF Legal, Admissible
  <2>4. arg0 \in 0..BRIDGE_BUF_SIZE
    BY DEF CalmInv, TypeInv, Typed, TypedQueue
  <2> QED BY <1>1, <2>1, <2>3, <2>4 DEF StepCmd, Legal
<1>2. ASSUME NEW a \in 0..BRIDGE_BUF_SIZE, StepArg(a)
      PROVE  /\ Admissible(cmd') /\ cmd' = cmd /\ state = "read_arg" /\ cmd # "DISABLE_UART"
             /\ \/ state' = "read_arg" /\ UNCHANGED <<mode, reply_len, bridgeVars, deviceVars>>
                \/ port_begin_cmd(cmd', a)
  <2>1. cmd' = cmd /\ state = "read_arg"
    BY <1>2 DEF StepArg
  <2>2. Admissible(cmd)
    BY <2>1 DEF CalmInv, Modes
  <2>3. cmd # "DISABLE_UART"
    BY <2>1 DEF CalmInv, TypeInv, Parser, port_cmd_args
  <2> QED BY <1>2, <2>1, <2>2, <2>3 DEF StepArg
<1> QED BY <1>1, <1>2 DEF Read

\* A command that begins sends at most its status.
LEMMA CalmBegin ==
    ASSUME Calm, CalmInv, Read, NEW a, port_begin_cmd(cmd', a)
    PROVE  /\ UNCHANGED bridgeVars /\ state' \in {Idle, "exec", "exec_async"}
           /\ reply_len' >= reply_len
           /\ state' = "exec" /\ cmd' # "TX" => reply_len' > 0
           /\ cmd' = "TX" => state' = "exec" /\ UNCHANGED <<reply_len, deviceVars, mode>>
           /\ state' = "exec_async" => cmd' = "START" /\ i2c' = "busy"
           /\ state' # Idle => UNCHANGED mode /\ (bus' = bus \/ cmd' = "START")
           /\ state' # "exec_async" => i2c' \in {i2c, "none"}
<1> USE CalmTypes, CalmRead, SizeFacts
<1>1. CASE BeginReply(cmd')
  <2>1. reply_len' = reply_len + 1 /\ UNCHANGED bridgeVars
    BY <1>1 DEF BeginReply, port_send_status, Check, MinOf
  <2> QED BY <1>1, <2>1 DEF BeginReply, Idle, deviceVars, i2cVars
<1>2. CASE BeginTx(cmd')
  BY <1>2 DEF BeginTx, Idle, deviceVars, i2cVars
<1>3. CASE BeginStart(cmd', a)
  BY <1>3 DEF BeginStart, Idle, deviceVars, i2cVars
<1>4. CASE \/ BeginDone(cmd') \/ BeginInt(cmd', a) \/ BeginStop(cmd')
           \/ BeginSpi(cmd') \/ BeginI2c(cmd') \/ BeginUart(cmd') \/ BeginUartOff(cmd')
  BY <1>4 DEF BeginDone, BeginInt, BeginStop, BeginSpi, BeginI2c, BeginUart, BeginUartOff, Idle,
     deviceVars, i2cVars
<1>5. cmd' # "ANALOG_READ"
  BY CalmCommand DEF Calm, Admissible
<1> QED BY <1>1, <1>2, <1>3, <1>4, <1>5 DEF port_begin_cmd, BeginAnalogRead

\* The loop works on a payload.
LEMMA CalmContinue ==
    ASSUME CalmInv, StepContinue
    PROVE  /\ stepping /\ stepping' /\ connected /\ ~pending_in /\ ~pending_out /\ Latch({})
           /\ state = "exec" /\ state' \in {Idle, "exec", "exec_async"} /\ reply_len < BRIDGE_BUF_SIZE
           /\ state' = "exec" => cmd = "ECHO"
           /\ state' = "exec_async" => cmd # "ECHO"
           /\ reply_len' >= reply_len /\ (cmd = "TX" => reply_len' = reply_len) /\ i2c = "none"
           /\ UNCHANGED <<mode, cmd, cmd_len, pending_in, pending_out, bridgeVars, bus>>
           /\ UNCHANGED <<uart_len, rxc, rxc_en, tcc, tcc_en, sense, eic_flag, eic_en>>
<1> USE CalmTypes
<1>1. /\ stepping /\ stepping' /\ ~MustWait /\ Latch({}) /\ state = "exec"
      /\ ContinueEcho \/ ContinueDma \/ ContinueI2c
      /\ UNCHANGED <<mode, cmd, cmd_len, pending_in, pending_out, bridgeVars, bus>>
      /\ UNCHANGED <<uart_len, rxc, rxc_en, tcc, tcc_en, sense, eic_flag, eic_en>>
  BY DEF StepContinue, uartVars, pinVars
<1>2. ~pending_in /\ ~pending_out /\ reply_len < BRIDGE_BUF_SIZE
  BY <1>1, LoopGoesOn DEF CalmInv, TypeInv
<1>3. i2c = "none"
  BY <1>1 DEF CalmInv, Busy
<1>4. Remaining \in Nat /\ Room \in Nat
  BY SizeFacts DEF Remaining
<1>7. port_rx_len \in Nat /\ port_txrx_len \in Nat
  BY <1>4 DEF port_rx_len, port_txrx_len, MinOf
<1>5. /\ state' \in {Idle, "exec", "exec_async"} /\ (state' = "exec" => cmd = "ECHO")
      /\ state' = "exec_async" => cmd # "ECHO"
  BY <1>1 DEF ContinueEcho, ContinueDma, ContinueI2c, Idle
<1>6. reply_len' >= reply_len /\ (cmd = "TX" => reply_len' = reply_len)
  BY <1>1, <1>7 DEF ContinueEcho, ContinueDma, ContinueI2c
<1>8. connected
  BY <1>1
<1> QED BY <1>1, <1>2, <1>3, <1>5, <1>6, <1>8

---------------------------------------------------------------------------
(* The invariant is kept, part by part.                                    *)

\* What an interrupt handler and the hardware leave alone.
LEMMA CalmKeeps ==
    ASSUME Calm, CalmInv, Interrupt
    PROVE  UNCHANGED <<connected, mode, cmd, pending_in, pending_out, bus, rxc_en>>
BY HandlerKeeps DEF Interrupt

LEMMA RequestsStep == Calm /\ CalmInv /\ [Next]_vars => Requests'
<1> SUFFICES ASSUME Calm, CalmInv, [Next]_vars PROVE Requests'
  OBVIOUS
<1> USE CalmTypes, SizeFacts DEF OwnChannel
<1>0. Requests
  BY DEF CalmInv
<1>1. CASE StepWait
  <2>1. WantIn => reply_len # 0
    BY DEF WantIn
  <2>2. UNCHANGED <<connected, enabled, chan, reply_len>>
    BY <1>1 DEF StepWait
  <2>3. connected' /\ pending_out' => out_req'
    BY <1>0, <1>1, <2>2 DEF StepWait, Requests
  <2>4. connected' /\ pending_in' => in_req' = reply_len' /\ in_req' # 0
    BY <1>0, <1>1, <2>1, <2>2 DEF StepWait, Requests
  <2> QED BY <1>0, <2>2, <2>3, <2>4 DEF Requests
<1>2. CASE StepAsync \/ UNCHANGED vars
  <2>1. UNCHANGED <<connected, enabled, chan, pending_in, pending_out, in_req, out_req, reply_len>>
    BY <1>2 DEF StepAsync, vars, queueVars, bridgeVars
  <2> QED BY <1>0, <2>1 DEF Requests
<1>3. CASE StepContinue
  BY <1>0, <1>3, CalmContinue DEF Requests, bridgeVars
<1>4. CASE Read
  <2>1. UNCHANGED bridgeVars
    BY <1>4, CalmCommand, CalmBegin
  <2> QED BY <1>0, <1>4, <2>1, CalmRead DEF Requests, bridgeVars
<1>5. CASE port_enable \/ port_disable
  BY <1>0, <1>5 DEF port_enable, port_disable, CloseExceptDma, Requests
<1>6. CASE (\E n \in 1..BRIDGE_BUF_SIZE : port_bridge_out_completion(n)) \/ port_bridge_in_completion
  <2>1. UNCHANGED <<connected, enabled, chan>>
    BY <1>6, BridgeKeeps
  <2>2. CASE \E n \in 1..BRIDGE_BUF_SIZE : port_bridge_out_completion(n)
    <3>1. pending_out' = FALSE /\ UNCHANGED <<pending_in, in_req, reply_len>>
      BY <2>2 DEF port_bridge_out_completion
    <3> QED BY <1>0, <2>1, <3>1 DEF Requests
  <2>3. CASE port_bridge_in_completion
    <3>1. pending_in' = FALSE /\ UNCHANGED <<pending_out, out_req>>
      BY <2>3 DEF port_bridge_in_completion, InCompletionExceptPending
    <3> QED BY <1>0, <2>1, <3>1 DEF Requests
  <2> QED BY <1>6, <2>2, <2>3
<1>7. CASE Interrupt
  <2>1. UNCHANGED <<connected, enabled, chan, pending_in, pending_out, in_req, out_req>>
    BY <1>7, CalmInterrupt, CalmKeeps DEF bridgeVars
  <2>2. reply_len' = reply_len \/ ~pending_in
    BY <1>7, CalmInterrupt
  <2> QED BY <1>0, <2>1, <2>2 DEF Requests
<1>8. CASE Hardware
  BY <1>0, <1>8, HardwareKeeps DEF restOfPort, queueVars, bridgeVars, Requests
<1> QED BY <1>1, <1>2, <1>3, <1>4, <1>5, <1>6, <1>7, <1>8 DEF Next, Step, Handler, Read, Interrupt

LEMMA RestedStep == Calm /\ CalmInv /\ [Next]_vars => Rested'
<1> SUFFICES ASSUME Calm, CalmInv, [Next]_vars PROVE Rested'
  OBVIOUS
<1> USE CalmTypes, SizeFacts
<1>0. Rested
  BY DEF CalmInv
<1>1. CASE StepWait
  <2>1. ASSUME state # "exec_async", ~pending_in, ~WantIn PROVE reply_len = 0 /\ (pending_out \/ WantOut)
    BY <1>1, <2>1 DEF StepWait, MustWait, WantIn
  <2>2. /\ UNCHANGED <<state, reply_len>>
        /\ pending_in' = (pending_in \/ WantIn) /\ pending_out' = (pending_out \/ WantOut)
    BY <1>1 DEF StepWait
  <2> QED BY <2>1, <2>2 DEF Rested
<1>2. CASE StepAsync
  BY <1>2 DEF StepAsync, Rested
<1>3. CASE StepContinue
  BY <1>3, CalmContinue DEF Rested
<1>4. CASE Read
  BY <1>4, CalmRead DEF Rested
<1>5. CASE port_enable \/ port_disable
  BY <1>5 DEF port_enable, port_disable, CloseExceptDma, Rested
<1>6. CASE (\E n \in 1..BRIDGE_BUF_SIZE : port_bridge_out_completion(n)) \/ port_bridge_in_completion
  BY <1>6 DEF port_bridge_out_completion, port_bridge_in_completion, InCompletionExceptPending, port_step, Rested
<1>7. CASE Interrupt
  BY <1>0, <1>7, CalmInterrupt, CalmKeeps DEF Rested, NoStep
<1>8. CASE Hardware
  BY <1>0, <1>8, HardwareKeeps DEF restOfPort, queueVars, bridgeVars, Rested
<1>9. CASE UNCHANGED vars
  BY <1>0, <1>9 DEF vars, queueVars, bridgeVars, Rested
<1> QED BY <1>1, <1>2, <1>3, <1>4, <1>5, <1>6, <1>7, <1>8, <1>9 DEF Next, Step, Handler, Read, Interrupt

LEMMA BusyStep == Calm /\ CalmInv /\ [Next]_vars => Busy'
<1> SUFFICES ASSUME Calm, CalmInv, [Next]_vars PROVE Busy'
  OBVIOUS
<1> USE CalmTypes
<1>0. Busy
  BY DEF CalmInv
<1>1. CASE StepWait \/ StepAsync \/ UNCHANGED vars
  <2>1. UNCHANGED <<state, mode, i2c, tx_src, rx_dst, dma_done>>
    BY <1>1 DEF StepWait, StepAsync, vars, dmaVars, i2cVars
  <2> QED BY <1>0, <2>1 DEF Busy
<1>3. CASE StepContinue
  <2>1. i2c = "none" /\ mode' = mode
    BY <1>3, CalmContinue
  <2>2. CASE ContinueEcho
    BY <2>1, <2>2 DEF ContinueEcho, Busy, Idle
  <2>3. CASE ContinueDma
    <3>1. mode \in {"spi", "uart"} /\ tx_src' # "none" /\ i2c' = i2c
      BY <2>3 DEF ContinueDma
    <3> QED BY <2>1, <3>1 DEF Busy
  <2>4. CASE ContinueI2c
    BY <2>1, <2>4 DEF ContinueI2c, Busy
  <2> QED BY <1>3, <2>2, <2>3, <2>4 DEF StepContinue
<1>4. CASE Read
  <2>1. i2c = "none"
    BY <1>4, CalmRead
  <2>2. CASE state' = "read_arg" /\ UNCHANGED deviceVars
    BY <2>1, <2>2 DEF Busy, deviceVars, i2cVars
  <2>3. ASSUME NEW a, port_begin_cmd(cmd', a) PROVE Busy'
    <3>1. CASE state' = "exec_async"
      <4>1. cmd' = "START" /\ i2c' = "busy" /\ mode' = mode
        BY <1>4, <2>3, <3>1, CalmBegin DEF Idle
      <4>2. mode = "i2c"
        BY <1>4, <4>1, CalmCommand DEF Admissible
      <4> QED BY <3>1, <4>1, <4>2 DEF Busy
    <3>2. CASE state' # "exec_async"
      BY <1>4, <2>1, <2>3, <3>2, CalmBegin DEF Busy
    <3> QED BY <3>1, <3>2
  <2> QED BY <1>4, <2>2, <2>3, CalmCommand
<1>5. CASE port_enable \/ port_disable
  BY <1>0, <1>5 DEF port_enable, port_disable, CloseExceptDma, Busy, Idle, i2cVars
<1>6. CASE (\E n \in 1..BRIDGE_BUF_SIZE : port_bridge_out_completion(n)) \/ port_bridge_in_completion
  <2>1. UNCHANGED <<state, mode, i2c, tx_src, rx_dst, dma_done>>
    BY <1>6 DEF port_bridge_out_completion, port_bridge_in_completion, InCompletionExceptPending, port_step, dmaVars,
       i2cVars
  <2> QED BY <1>0, <2>1 DEF Busy
<1>7. CASE \E d \in {"tx", "rx"} : port_dma_completion(d)
  BY <1>7, CalmDma DEF Busy, port_step, port_dma_completion, i2cVars, Idle
<1>8. CASE TccHandler \/ SercomUart \/ port_handle_extint
  <2>1. UNCHANGED <<state, mode, i2c, tx_src, rx_dst, dma_done>>
    BY <1>8 DEF TccHandler, SercomUart, port_handle_extint, uart_send_data, Send, SendNothing, NoStep, port_step, dmaVars,
       i2cVars
  <2> QED BY <1>0, <2>1 DEF Busy
<1>9. CASE SercomI2c
  BY <1>9, CalmI2c DEF Busy, port_step, Idle
<1>10. CASE DmaTxDone
  <2>1. /\ tx_src # "none" /\ UNCHANGED <<state, mode, i2c, rx_dst>>
        /\ dma_done' = dma_done \cup (dma_int \cap {"tx"})
    BY <1>10 DEF DmaTxDone, restOfPort
  <2>2. mode \in {"spi", "uart"} /\ (mode = "spi" => rx_dst # "none") /\ (mode = "uart" => "tx" \in dma_int)
    BY <2>1 DEF CalmInv, DmaInv, DmaCommand
  <2> QED BY <1>0, <2>1, <2>2 DEF Busy
<1>11. CASE DmaRxDone
  <2>1. /\ rx_dst # "none" /\ UNCHANGED <<state, mode, i2c>>
        /\ dma_done' = dma_done \cup (dma_int \cap {"rx"})
    BY <1>11 DEF DmaRxDone, restOfPort
  <2>2. mode = "spi" /\ dma_int = {"rx"}
    BY <2>1 DEF CalmInv, DmaInv, DmaCommand
  <2> QED BY <1>0, <2>1, <2>2 DEF Busy
<1>12. CASE I2cDone \/ UartByte \/ TccOver \/ \E p \in Pins : PinChange(p)
  <2>1. UNCHANGED <<state, mode, tx_src, rx_dst, dma_done>> /\ (i2c' = i2c \/ (i2c = "busy" /\ i2c' = "flag"))
    BY <1>12 DEF I2cDone, UartByte, TccOver, PinChange, restOfPort
  <2> QED BY <1>0, <2>1 DEF Busy
<1> QED BY <1>1, <1>3, <1>4, <1>5, <1>6, <1>7, <1>8, <1>9, <1>10, <1>11, <1>12, CalmNoSercomError
        DEF Next, Step, Handler, Hardware, Read

\* What a command that begins does to the device.
LEMMA CalmDevice ==
    ASSUME CalmInv, Read, NEW a, port_begin_cmd(cmd', a)
    PROVE  /\ bus' # "idle" => mode' = "i2c"
           /\ rxc_en' => mode' = "uart"
           /\ mode' = "uart" => rxc_en'
           /\ tcc_en' => mode' = "uart"
<1> USE CalmTypes, CalmRead
<1>1. Admissible(cmd')
  BY CalmCommand
<1>2. /\ bus # "idle" => mode = "i2c"
      /\ rxc_en => mode = "uart"
      /\ mode = "uart" => rxc_en
      /\ tcc_en => mode = "uart"
  BY DEF CalmInv, Modes
<1>3. CASE BeginDone(cmd') \/ BeginInt(cmd', a) \/ BeginReply(cmd') \/ BeginAnalogRead(cmd') \/ BeginTx(cmd')
  <2>1. UNCHANGED <<bus, rxc_en, tcc_en>>
    BY <1>3 DEF BeginDone, BeginInt, BeginReply, BeginAnalogRead, BeginTx, deviceVars, i2cVars, uartVars
  <2>2. mode' = mode \/ (cmd' = "DISABLE" /\ mode' = "none")
    BY <1>3 DEF BeginDone, BeginInt, BeginReply, BeginAnalogRead, BeginTx
  <2> QED BY <1>1, <1>2, <2>1, <2>2 DEF Admissible
<1>4. CASE BeginStart(cmd', a) \/ BeginStop(cmd')
  <2>1. UNCHANGED <<mode, rxc_en, tcc_en>> /\ cmd' \in {"START", "STOP"}
    BY <1>4 DEF BeginStart, BeginStop, uartVars
  <2> QED BY <1>1, <1>2, <2>1 DEF Admissible
<1>5. CASE BeginSpi(cmd')
  <2>1. UNCHANGED <<bus, rxc_en, tcc_en>> /\ mode' = "spi" /\ cmd' = "ENABLE_SPI"
    BY <1>5 DEF BeginSpi, i2cVars, uartVars
  <2> QED BY <1>1, <1>2, <2>1 DEF Admissible
<1>6. CASE BeginI2c(cmd')
  <2>1. bus' = "idle" /\ rxc_en' = FALSE /\ tcc_en' = tcc_en /\ mode' = "i2c" /\ cmd' = "ENABLE_I2C"
    BY <1>6 DEF BeginI2c
  <2> QED BY <1>1, <1>2, <2>1 DEF Admissible
<1>7. CASE BeginUart(cmd')
  BY <1>7 DEF BeginUart
<1>8. CASE BeginUartOff(cmd')
  <2>1. bus' = bus /\ rxc_en' = FALSE /\ tcc_en' = FALSE /\ mode' = "none" /\ cmd' = "DISABLE_UART"
    BY <1>8 DEF BeginUartOff, i2cVars
  <2> QED BY <1>1, <1>2, <2>1 DEF Admissible
<1> QED BY <1>3, <1>4, <1>5, <1>6, <1>7, <1>8 DEF port_begin_cmd

\* The parts of Modes.
Sent == state \in {"read_arg", "exec", "exec_async"} => Admissible(cmd)
SendLocks == state = "exec_async" /\ cmd \in {"TX", "TXRX"} => ~pending_out
Device ==
    /\ bus # "idle" => mode = "i2c" /\ connected
    /\ rxc_en => mode = "uart" /\ connected
    /\ mode = "uart" /\ connected => rxc_en
    /\ tcc_en => mode = "uart" /\ connected

LEMMA ModesParts == (Modes <=> Sent /\ SendLocks /\ Device) /\ (Modes' <=> Sent' /\ SendLocks' /\ Device')
BY DEF Modes, Sent, SendLocks, Device

LEMMA ModesKept ==
    ASSUME Modes, UNCHANGED <<mode, cmd, connected, bus, rxc_en>>, tcc_en' => tcc_en,
           state' = state \/ (state = "exec_async" /\ state' \in {Idle, "exec"}), pending_out' => pending_out
    PROVE  Modes'
<1>1. Sent'
  BY DEF Modes, Sent, Admissible, Idle
<1>2. SendLocks' /\ Device'
  BY DEF Modes, SendLocks, Device, Idle
<1> QED BY <1>1, <1>2, ModesParts

LEMMA ModesStep == Calm /\ CalmInv /\ [Next]_vars => Modes'
<1> SUFFICES ASSUME Calm, CalmInv, [Next]_vars PROVE Modes'
  OBVIOUS
<1> USE CalmTypes
<1>0. Modes
  BY DEF CalmInv
<1>1. CASE StepWait
  <2>1. UNCHANGED <<state, mode, cmd, connected, bus, rxc_en>> /\ stepping
    BY <1>1 DEF StepWait, parserVars, i2cVars, uartVars
  <2>2. tcc_en' => tcc_en \/ mode = "uart"
    BY <1>1 DEF StepWait
  <2>3. pending_out' => pending_out \/ WantOut
    BY <1>1 DEF StepWait
  <2>4. Sent'
    BY <1>0, <2>1 DEF Modes, Sent, Admissible
  <2>5. SendLocks'
    BY <1>0, <2>1, <2>3 DEF Modes, SendLocks, WantOut, port_tx_locked
  <2>6. Device'
    BY <1>0, <2>1, <2>2 DEF Modes, Device
  <2> QED BY <2>4, <2>5, <2>6, ModesParts
<1>2. CASE StepAsync \/ UNCHANGED vars
  <2>1. UNCHANGED <<state, mode, cmd, connected, bus, rxc_en, tcc_en, pending_out>>
    BY <1>2 DEF StepAsync, vars, queueVars, parserVars, bridgeVars, i2cVars, uartVars
  <2> QED BY <1>0, <2>1, ModesKept
<1>3. CASE StepContinue
  <2>1. /\ UNCHANGED <<mode, cmd, connected, bus, rxc_en, tcc_en, pending_out>>
        /\ state = "exec" /\ ~pending_out
    BY <1>3, CalmContinue DEF bridgeVars
  <2>2. Sent' /\ SendLocks' /\ Device'
    BY <1>0, <2>1 DEF Modes, Sent, SendLocks, Device, Admissible
  <2> QED BY <2>2, ModesParts
<1>4. CASE Read
  <2>0. connected /\ ~pending_out /\ pending_out' = pending_out /\ Admissible(cmd')
    BY <1>4, CalmRead, CalmCommand
  <2>1. CASE state' = "read_arg" /\ UNCHANGED <<mode, reply_len, bridgeVars, deviceVars>>
    <3>1. UNCHANGED <<mode, connected, bus, rxc_en, tcc_en>>
      BY <2>1 DEF bridgeVars, deviceVars, i2cVars, uartVars
    <3>2. Sent' /\ SendLocks'
      BY <2>0, <2>1, <3>1 DEF Sent, SendLocks, Admissible
    <3>3. Device'
      BY <1>0, <3>1 DEF Modes, Device
    <3> QED BY <3>2, <3>3, ModesParts
  <2>2. ASSUME NEW a, port_begin_cmd(cmd', a) PROVE Modes'
    <3>1. connected'
      BY <1>4, <2>0, <2>2, CalmBegin DEF bridgeVars
    <3>2. Device'
      BY <1>4, <2>2, <3>1, CalmDevice DEF Device
    <3>3. SendLocks'
      BY <1>4, <2>0, <2>2, CalmBegin DEF SendLocks
    <3>4. ASSUME state' # Idle PROVE Admissible(cmd)'
      <4>1. mode' = mode /\ (bus' = bus \/ cmd' = "START")
        BY <1>4, <2>2, <3>4, CalmBegin
      <4> QED BY <2>0, <4>1 DEF Admissible
    <3> QED BY <3>2, <3>3, <3>4, ModesParts DEF Sent, Idle
  <2> QED BY <1>4, <2>1, <2>2, CalmCommand
<1>5. CASE port_enable
  <2>1. ~connected /\ state' = Idle /\ mode' = "none" /\ UNCHANGED <<bus, rxc_en, tcc_en>>
    BY <1>5 DEF port_enable, i2cVars, uartVars
  <2>2. Sent' /\ SendLocks' /\ Device'
    BY <1>0, <2>1 DEF Modes, Sent, SendLocks, Device, Idle
  <2> QED BY <2>2, ModesParts
<1>6. CASE port_disable
  <2>1. /\ state' = "disable" /\ bus' = "idle" /\ rxc_en' = FALSE /\ connected' = FALSE
        /\ tcc_en' = (tcc_en /\ mode # "uart")
    BY <1>6 DEF port_disable, CloseExceptDma
  <2>2. Sent' /\ SendLocks' /\ Device'
    BY <1>0, <2>1 DEF Modes, Sent, SendLocks, Device
  <2> QED BY <2>2, ModesParts
<1>7. CASE (\E n \in 1..BRIDGE_BUF_SIZE : port_bridge_out_completion(n)) \/ port_bridge_in_completion
  <2>1. pending_out' => pending_out
    BY <1>7 DEF port_bridge_out_completion, port_bridge_in_completion, InCompletionExceptPending
  <2>2. UNCHANGED <<state, mode, cmd, connected, bus, rxc_en>> /\ (tcc_en' => tcc_en)
    BY <1>7, BridgeKeeps
  <2> QED BY <1>0, <2>1, <2>2, ModesKept
<1>8. CASE Interrupt
  <2>1. UNCHANGED <<mode, cmd, connected, bus, rxc_en, pending_out>>
    BY <1>8, CalmKeeps
  <2>2. tcc_en' => tcc_en
    BY <1>8, CalmInterrupt DEF NoStep
  <2>3. state' = state \/ (state = "exec_async" /\ state' \in {Idle, "exec"})
    BY <1>8, CalmInterrupt
  <2> QED BY <1>0, <2>1, <2>2, <2>3, ModesKept
<1>9. CASE Hardware
  <2>1. UNCHANGED <<state, mode, cmd, connected, bus, rxc_en, tcc_en, pending_out>>
    BY <1>9, HardwareKeeps DEF restOfPort, parserVars, queueVars, bridgeVars
  <2> QED BY <1>0, <2>1, ModesKept
<1> QED BY <1>1, <1>2, <1>3, <1>4, <1>5, <1>6, <1>7, <1>8, <1>9 DEF Next, Step, Handler, Read, Interrupt

LEMMA LatchedStep == CalmInv /\ [Next]_vars => Latched'
<1> SUFFICES ASSUME CalmInv, [Next]_vars PROVE Latched'
  OBVIOUS
<1>1. ASSUME NEW k, Latch(k) PROVE Latched'
  BY <1>1 DEF Latch, Latched
<1>2. ASSUME UNCHANGED <<rxc, rxc_en, i2c, tcc, tcc_en, eic_flag, eic_en, nvic>> PROVE Latched'
  BY <1>2 DEF CalmInv, Latched, Asserted
<1>3. CASE Step
  <2>1. CASE StepAsync
    BY <1>2, <2>1 DEF StepAsync, i2cVars, uartVars, pinVars
  <2>2. CASE StepWait \/ StepContinue \/ Read
    BY <1>1, <2>2 DEF StepWait, StepContinue, Read, StepCmd, StepArg
  <2> QED BY <1>3, <2>1, <2>2 DEF Step, Read
<1>4. CASE Handler
  <2>1. CASE port_enable
    BY <1>2, <2>1 DEF port_enable, i2cVars, uartVars, pinVars
  <2>2. CASE ~port_enable
    BY <1>1, <1>4, <2>2 DEF Handler, port_disable, CloseExceptDma, port_bridge_out_completion, port_bridge_in_completion,
       InCompletionExceptPending, port_dma_completion, TccHandler, SercomUart, SercomI2c, SercomError, port_handle_extint
  <2> QED BY <2>1, <2>2
<1>5. CASE Hardware
  <2>1. CASE DmaTxDone \/ DmaRxDone
    BY <1>2, <2>1 DEF DmaTxDone, DmaRxDone, restOfPort
  <2>2. CASE I2cDone \/ UartByte \/ TccOver \/ \E p \in Pins : PinChange(p)
    BY <1>1, <2>2 DEF I2cDone, UartByte, TccOver, PinChange
  <2> QED BY <1>5, <2>1, <2>2 DEF Hardware
<1>6. CASE UNCHANGED vars
  BY <1>2, <1>6 DEF vars, i2cVars, uartVars, pinVars
<1> QED BY <1>3, <1>4, <1>5, <1>6 DEF Next

\* A pending SERCOM interrupt: a new one is of the mode.
LEMMA SercomNew ==
    ASSUME Modes', Busy', NEW k, Latch(k),
           "sercom" \in nvic \ k => (mode' = "i2c" /\ i2c' = "flag") \/ (mode' = "uart" /\ connected')
    PROVE  Sercom'
<1>1. "sercom" \in Asserted' => (mode' = "i2c" /\ i2c' = "flag") \/ (mode' = "uart" /\ connected')
  BY DEF Asserted, Modes, Busy
<1> QED BY <1>1 DEF Latch, Sercom

LEMMA SercomStep == Calm /\ CalmInv /\ [Next]_vars => Sercom'
<1> SUFFICES ASSUME Calm, CalmInv, [Next]_vars PROVE Sercom'
  OBVIOUS
<1> USE CalmTypes
<1>0. Sercom /\ Modes' /\ Busy'
  BY ModesStep, BusyStep DEF CalmInv
<1>k. ASSUME NEW k, Latch(k), UNCHANGED <<mode, i2c, connected>> PROVE Sercom'
  BY <1>0, <1>k, SercomNew DEF Sercom
<1>1. CASE StepWait
  BY <1>1, <1>k DEF StepWait, i2cVars
<1>2. CASE StepAsync \/ UNCHANGED vars
  BY <1>0, <1>2 DEF StepAsync, vars, bridgeVars, i2cVars, Sercom
<1>3. CASE StepContinue
  <2>1. Latch({}) /\ i2c = "none" /\ UNCHANGED <<mode, connected>>
    BY <1>3, CalmContinue DEF bridgeVars
  <2> QED BY <1>0, <2>1, SercomNew DEF Sercom
<1>4. CASE Read
  <2>1. Latch({}) /\ i2c = "none" /\ connected
    BY <1>4, CalmRead
  <2>2. ASSUME "sercom" \in nvic PROVE mode' = "uart" /\ connected'
    <3>1. mode = "uart" /\ Admissible(cmd') /\ cmd' # "DISABLE_UART"
      BY <1>0, <1>4, <2>1, <2>2, CalmCommand DEF Sercom, Calm
    <3>2. mode' = "uart"
      <4>1. CASE UNCHANGED mode
        BY <3>1, <4>1
      <4>2. ASSUME NEW a, port_begin_cmd(cmd', a) PROVE mode' = "uart"
        BY <3>1, <4>2 DEF port_begin_cmd, BeginDone, BeginInt, BeginReply, BeginAnalogRead, BeginTx, BeginStart,
           BeginStop, BeginSpi, BeginI2c, BeginUart, BeginUartOff, Admissible
      <4> QED BY <1>4, <4>1, <4>2, CalmCommand
    <3>3. UNCHANGED bridgeVars
      BY <1>4, CalmCommand, CalmBegin
    <3> QED BY <2>1, <3>2, <3>3 DEF bridgeVars
  <2> QED BY <1>0, <2>1, <2>2, SercomNew
<1>5. CASE port_enable
  BY <1>5 DEF port_enable, NoneLate, Calm, Sercom
<1>6. CASE port_disable
  BY <1>0, <1>6, SercomNew DEF port_disable, CloseExceptDma, NoneLate, Calm
<1>7. CASE (\E n \in 1..BRIDGE_BUF_SIZE : port_bridge_out_completion(n)) \/ port_bridge_in_completion
  BY <1>7, <1>k, BridgeKeeps
<1>8. CASE \E d \in {"tx", "rx"} : port_dma_completion(d)
  BY <1>0, <1>8, CalmDma, SercomNew DEF port_dma_completion
<1>9. CASE TccHandler
  BY <1>0, <1>9, CalmTcc, SercomNew DEF TccHandler
<1>10. CASE SercomUart
  BY <1>0, <1>10, SercomNew DEF SercomUart
<1>11. CASE SercomI2c
  BY <1>0, <1>11, SercomNew DEF SercomI2c
<1>12. CASE port_handle_extint
  <2>1. UNCHANGED <<mode, connected>>
    BY <1>12, CalmKeeps DEF Interrupt
  <2>2. i2c' = i2c /\ Latch({"eic"})
    BY <1>12 DEF port_handle_extint, i2cVars
  <2> QED BY <1>k, <2>1, <2>2
<1>13. CASE DmaTxDone \/ DmaRxDone
  BY <1>0, <1>13 DEF DmaTxDone, DmaRxDone, restOfPort, bridgeVars, Sercom
<1>14. CASE I2cDone
  <2>1. Latch({}) /\ mode' = "i2c" /\ i2c' = "flag"
    BY <1>14 DEF I2cDone, restOfPort, CalmInv, Busy
  <2> QED BY <1>0, <2>1, SercomNew
<1>15. CASE UartByte \/ TccOver \/ \E p \in Pins : PinChange(p)
  <2>1. Latch({}) /\ UNCHANGED <<mode, i2c, connected>>
    BY <1>15 DEF UartByte, TccOver, PinChange, restOfPort, bridgeVars
  <2> QED BY <1>k, <2>1
<1> QED BY <1>1, <1>2, <1>3, <1>4, <1>5, <1>6, <1>7, <1>8, <1>9, <1>10, <1>11, <1>12, <1>13, <1>14, <1>15,
           CalmNoSercomError
        DEF Next, Step, Handler, Hardware, Read

\* Pending pin and timeout interrupts: a new one has its flag set and enabled.
LEMMA PinNew ==
    ASSUME NEW k, Latch(k), eic_en' => PinOpen', "eic" \in nvic \ k => eic_flag' # {} /\ PinOpen',
           eic_flag' # {} => "ovf" \notin tcc', "tcc" \in nvic \ k => "ovf" \in tcc'
    PROVE  PinInv'
<1>1. "eic" \in Asserted' => eic_flag' # {} /\ eic_en'
  BY DEF Asserted
<1>2. "tcc" \in Asserted' => "ovf" \in tcc'
  BY DEF Asserted
<1> QED BY <1>1, <1>2 DEF Latch, PinInv

LEMMA PinStep == Calm /\ CalmInv /\ [Next]_vars => PinInv'
<1> SUFFICES ASSUME Calm, CalmInv, [Next]_vars PROVE PinInv'
  OBVIOUS
<1> USE CalmTypes
<1>0. /\ eic_en => PinOpen
      /\ "eic" \in nvic => eic_flag # {} /\ PinOpen
      /\ eic_flag # {} => "ovf" \notin tcc
      /\ "tcc" \in nvic => "ovf" \in tcc
  BY DEF CalmInv, PinInv
<1>1. CASE StepWait
  <2>1. /\ ~eic_en /\ "eic" \notin nvic /\ Latch({}) /\ UNCHANGED <<eic_flag, tcc>>
        /\ UNCHANGED <<connected, state, cmd>> /\ stepping' = FALSE /\ connected
    BY <1>0, <1>1 DEF StepWait, PinOpen, uartVars, pinVars, parserVars
  <2>2. pending_in' = (pending_in \/ WantIn) /\ MustWait
    BY <1>1 DEF StepWait
  <2>3. eic_en' => AsyncAllowed(pending_in \/ WantIn)
    BY <1>1, <2>1 DEF StepWait
  <2>4. AsyncAllowed(pending_in \/ WantIn) => ~pending_in' /\ state = Idle
    <3>1. SUFFICES ASSUME ~pending_in, ~WantIn, state = "exec_async", cmd = "TX" PROVE FALSE
      BY <2>2 DEF AsyncAllowed, port_rx_locked
    <3>2. ~pending_out /\ ~WantOut
      BY <3>1 DEF CalmInv, Modes, WantOut, port_tx_locked
    <3> QED BY <2>2, <3>1, <3>2 DEF MustWait
  <2>5. eic_en' => PinOpen'
    BY <2>1, <2>3, <2>4 DEF PinOpen
  <2> QED BY <1>0, <2>1, <2>5, PinNew
<1>2. CASE StepAsync
  <2>1. /\ ~eic_en /\ "eic" \notin nvic
        /\ UNCHANGED <<eic_en, eic_flag, tcc, nvic>>
    BY <1>0, <1>2 DEF StepAsync, PinOpen, uartVars, pinVars
  <2> QED BY <1>0, <2>1 DEF PinInv
<1>3. CASE StepContinue
  BY <1>0, <1>3, CalmContinue, PinNew DEF PinOpen
<1>4. CASE Read
  <2>1. /\ ~eic_en /\ "eic" \notin nvic /\ Latch({}) /\ UNCHANGED <<eic_flag, eic_en>>
    BY <1>0, <1>4, CalmRead DEF PinOpen
  <2>2. "ovf" \in tcc' <=> "ovf" \in tcc
    <3>1. CASE UNCHANGED deviceVars
      BY <3>1 DEF deviceVars, uartVars
    <3>2. ASSUME NEW a, port_begin_cmd(cmd', a) PROVE "ovf" \in tcc' <=> "ovf" \in tcc
      BY <3>2 DEF port_begin_cmd, BeginDone, BeginInt, BeginReply, BeginAnalogRead, BeginTx, BeginStart,
         BeginStop, BeginSpi, BeginI2c, BeginUart, BeginUartOff, deviceVars, uartVars
    <3> QED BY <1>4, <3>1, <3>2, CalmCommand
  <2> QED BY <1>0, <2>1, <2>2, PinNew
<1>5. CASE port_enable
  BY <1>0, <1>5 DEF port_enable, PinOpen, PinInv, uartVars, pinVars
<1>6. CASE port_disable
  <2>1. nvic = {} /\ Latch({}) /\ eic_en' = FALSE /\ eic_flag' = {}
    BY <1>6 DEF port_disable, CloseExceptDma, NoneLate, Calm
  <2> QED BY <2>1, PinNew
<1>7. CASE (\E n \in 1..BRIDGE_BUF_SIZE : port_bridge_out_completion(n)) \/ port_bridge_in_completion
  <2>1. nvic = {} /\ Latch({}) /\ eic_en' = FALSE /\ UNCHANGED <<eic_flag, tcc>>
    BY <1>7, BridgeKeeps DEF NoneLate, Calm
  <2> QED BY <1>0, <2>1, PinNew
<1>8. CASE (\E d \in {"tx", "rx"} : port_dma_completion(d)) \/ SercomI2c
  <2>1. /\ "eic" \notin nvic /\ (Latch({}) \/ Latch({"sercom"})) /\ UNCHANGED <<eic_flag, tcc>> /\ eic_en' = FALSE
    BY <1>8, CalmDma, CalmI2c DEF port_dma_completion, SercomI2c, port_step, uartVars, pinVars
  <2> QED BY <1>0, <2>1, PinNew
<1>9. CASE TccHandler \/ SercomUart
  <2>1. "eic" \notin nvic /\ (Latch({"tcc"}) \/ Latch({"sercom"}))
    BY <1>9, CalmStarts DEF TccHandler, SercomUart
  <2>2. UNCHANGED <<eic_flag, connected, pending_in>>
    BY <1>9, CalmKeeps DEF TccHandler, SercomUart, pinVars, Interrupt
  <2>3. eic_en' => PinOpen'
    <3>1. NoStep \/ eic_en' = FALSE
      BY <1>9, CalmInterrupt DEF Interrupt
    <3> QED BY <1>0, <2>2, <3>1 DEF NoStep, PinOpen
  <2>4. eic_flag' # {} => "ovf" \notin tcc'
    <3>1. tcc' = tcc \ {"ovf"} \/ tcc' = tcc \/ tcc' = tcc \cup {"runs"}
      BY <1>9, CalmUart DEF TccHandler
    <3>2. "ovf" \in tcc' => "ovf" \in tcc
      BY <3>1
    <3> QED BY <1>0, <2>2, <3>2
  <2>5. Latch({"tcc"}) \/ (Latch({"sercom"}) /\ ("ovf" \in tcc => "ovf" \in tcc'))
    BY <1>9, CalmUart DEF TccHandler, SercomUart
  <2>6. CASE Latch({"tcc"})
    BY <2>1, <2>3, <2>4, <2>6, PinNew
  <2>7. CASE Latch({"sercom"}) /\ ("ovf" \in tcc => "ovf" \in tcc')
    BY <1>0, <2>1, <2>3, <2>4, <2>7, PinNew
  <2> QED BY <2>5, <2>6, <2>7
<1>10. CASE port_handle_extint
  <2>1. eic_flag' = {} /\ eic_en' = FALSE /\ Latch({"eic"}) /\ tcc' = tcc
    BY <1>10, CalmPin DEF port_handle_extint, port_step, uartVars
  <2> QED BY <1>0, <2>1, PinNew
<1>11. CASE Hardware
  <2>1. UNCHANGED <<eic_en, connected, state, stepping, pending_in>>
    BY <1>11, HardwareKeeps DEF restOfPort, bridgeVars, queueVars
  <2>2. PinOpen' = PinOpen
    BY <2>1 DEF PinOpen
  <2>3. CASE DmaTxDone \/ DmaRxDone
    BY <1>0, <2>1, <2>2, <2>3 DEF DmaTxDone, DmaRxDone, PinInv
  <2>4. CASE I2cDone \/ UartByte
    BY <1>0, <2>1, <2>2, <2>4, PinNew DEF I2cDone, UartByte
  <2>5. CASE TccOver
    BY <1>0, <2>1, <2>2, <2>5, PinNew DEF TccOver, Calm
  <2>6. ASSUME NEW p \in Pins, PinChange(p) PROVE PinInv'
    <3>1. "ovf" \notin tcc /\ eic_flag' = eic_flag \cup {p} /\ tcc' = tcc /\ Latch({})
      BY <2>6 DEF PinChange, Calm
    <3> QED BY <1>0, <2>1, <2>2, <3>1, PinNew
  <2> QED BY <1>11, <2>3, <2>4, <2>5, <2>6 DEF Hardware
<1>12. CASE UNCHANGED vars
  BY <1>0, <1>12 DEF vars, bridgeVars, queueVars, uartVars, pinVars, PinInv, PinOpen
<1> QED BY <1>1, <1>2, <1>3, <1>4, <1>5, <1>6, <1>7, <1>8, <1>9, <1>10, <1>11, <1>12, CalmNoSercomError
        DEF Next, Step, Handler, Read

\* What the UART has received: nothing more while commands are worked on.
LEMMA UartKept ==
    ASSUME UartFits, reply_len \in Nat,
           UNCHANGED <<cmd, reply_len, pending_in, pending_out>>,
           mode' = "uart" => mode = "uart",
           \/ UNCHANGED <<uart_len, rxc>>
           \/ uart_len' = 0 /\ rxc' = FALSE
           \/ rxc = TRUE /\ rxc' = FALSE /\ uart_len' = MinOf(uart_len + 1, UART_RX_SIZE),
           state' = state \/ (state = "exec_async" /\ state' \in {Idle, "exec"}),
           stepping => stepping'
    PROVE  UartFits'
<1> USE DEF UartFits
<1>0. Room' = Room
  BY DEF Room
<1> SUFFICES ASSUME mode' = "uart", cmd' = "TX" PROVE UartFits'
  OBVIOUS
<1>1. ASSUME state' \in {"exec", "exec_async"}
      PROVE  (Fit(uart_len) /\ (rxc => Fit(MinOf(uart_len + 1, UART_RX_SIZE))))'
  <2>1. state \in {"exec", "exec_async"}
    BY <1>1
  <2>2. Fit(uart_len) /\ (rxc => Fit(MinOf(uart_len + 1, UART_RX_SIZE)))
    BY <2>1
  <2>3. CASE UNCHANGED <<uart_len, rxc>>
    BY <1>0, <2>2, <2>3 DEF Fit
  <2>4. CASE uart_len' = 0 /\ rxc' = FALSE
    BY <2>4 DEF Fit
  <2>5. CASE rxc = TRUE /\ rxc' = FALSE /\ uart_len' = MinOf(uart_len + 1, UART_RX_SIZE)
    BY <1>0, <2>2, <2>5 DEF Fit
  <2> QED BY <2>3, <2>4, <2>5
<1>2. state' = "read_arg" /\ Room' < UART_RX_SIZE + 2 => pending_in' \/ (stepping' /\ pending_out')
  BY <1>0 DEF Idle
<1> QED BY <1>1, <1>2 DEF Fit

LEMMA UartStep == Calm /\ CalmInv /\ [Next]_vars => UartFits'
<1> SUFFICES ASSUME Calm, CalmInv, [Next]_vars PROVE UartFits'
  OBVIOUS
<1> USE CalmTypes, SizeFacts
<1>0. UartFits
  BY DEF CalmInv
<1>1. CASE StepWait
  <2>1. UNCHANGED <<mode, cmd, state, reply_len, uart_len, rxc>> /\ stepping
    BY <1>1 DEF StepWait, parserVars, uartVars
  <2>2. Room' = Room
    BY <2>1 DEF Room
  <2>3. ASSUME mode = "uart", cmd = "TX", state = "read_arg", Room < UART_RX_SIZE + 2 PROVE pending_in'
    <3>1. pending_in \/ pending_out
      BY <1>0, <2>3 DEF UartFits
    <3>2. reply_len > 0
      BY <2>3
    <3>3. pending_in \/ WantIn
      BY <2>3, <3>1, <3>2 DEF WantIn
    <3> QED BY <1>1, <3>3 DEF StepWait
  <2> QED BY <1>0, <2>1, <2>2, <2>3 DEF UartFits, Fit
<1>2. CASE StepAsync
  <2>1. state = "exec_async" /\ UNCHANGED <<mode, cmd, state, reply_len, uart_len, rxc>>
    BY <1>2 DEF StepAsync, parserVars, queueVars, uartVars
  <2> QED BY <1>0, <2>1 DEF UartFits, Fit, Room
<1>3. CASE StepContinue
  <2>1. /\ UNCHANGED <<mode, cmd, uart_len, rxc>> /\ state = "exec" /\ state' # "read_arg"
        /\ cmd = "TX" => reply_len' = reply_len
    BY <1>3, CalmContinue DEF Idle
  <2> QED BY <1>0, <2>1 DEF UartFits, Fit, Room
<1>4. CASE Read
  <2>0. ~pending_in /\ ~pending_out
    BY <1>4, CalmRead
  <2>1. ASSUME mode = "uart", cmd' = "TX" PROVE Room >= UART_RX_SIZE + 2
    BY <1>0, <1>4, <2>0, <2>1, CalmCommand DEF UartFits, Calm
  <2>2. ASSUME mode' = "uart", cmd' = "TX"
        PROVE  UNCHANGED <<mode, reply_len, uart_len, rxc>> /\ state' \in {"read_arg", "exec"}
    <3>1. CASE state' = "read_arg" /\ UNCHANGED <<mode, reply_len, bridgeVars, deviceVars>>
      BY <3>1 DEF deviceVars, uartVars
    <3>2. ASSUME NEW a, port_begin_cmd(cmd', a)
          PROVE  UNCHANGED <<mode, reply_len, uart_len, rxc>> /\ state' \in {"read_arg", "exec"}
      BY <1>4, <2>2, <3>2, CalmBegin DEF deviceVars, uartVars
    <3> QED BY <1>4, <3>1, <3>2, CalmCommand
  <2>3. ASSUME mode' = "uart", cmd' = "TX" PROVE Room' = Room /\ Room >= UART_RX_SIZE + 2
    BY <2>1, <2>2, <2>3 DEF Room
  <2>4. ASSUME mode' = "uart", cmd' = "TX"
        PROVE  (Fit(uart_len) /\ (rxc => Fit(MinOf(uart_len + 1, UART_RX_SIZE))))'
    BY <2>2, <2>3, <2>4 DEF Fit, MinOf
  <2> QED BY <2>3, <2>4 DEF UartFits
<1>5. CASE port_enable \/ port_disable
  BY <1>5 DEF port_enable, port_disable, CloseExceptDma, UartFits, Idle
<1>6. ASSUME NEW n \in 1..BRIDGE_BUF_SIZE, port_bridge_out_completion(n) PROVE UartFits'
  <2>1. UNCHANGED <<mode, cmd, state, uart_len, rxc, reply_len, pending_in>> /\ ~stepping
    BY <1>6, BridgeKeeps DEF port_bridge_out_completion
  <2> QED BY <1>0, <2>1 DEF UartFits, Fit, Room
<1>7. CASE port_bridge_in_completion
  <2>1. reply_len' = 0 /\ uart_len' = uart_len
    BY <1>7, BridgeKeeps DEF port_bridge_in_completion, InCompletionExceptPending
  <2>2. Room' = BRIDGE_BUF_SIZE
    BY <2>1 DEF Room
  <2> QED BY <2>1, <2>2 DEF UartFits, Fit, MinOf
<1>8. CASE \E d \in {"tx", "rx"} : port_dma_completion(d)
  <2>1. UNCHANGED <<cmd, reply_len, pending_in, pending_out, mode, uart_len, rxc>>
    BY <1>8 DEF port_dma_completion, parserVars, queueVars, uartVars
  <2>2. state = "exec_async" /\ state' \in {Idle, "exec"} /\ ~stepping
    BY <1>8, CalmDma DEF port_step
  <2> QED BY <1>0, <2>1, <2>2, UartKept
<1>9. CASE TccHandler
  <2>1. UNCHANGED <<cmd, pending_in, pending_out, mode, rxc>> /\ uart_len' = 0
    BY <1>9, CalmTcc DEF TccHandler, parserVars
  <2>2. ASSUME mode = "uart", connected PROVE rxc = FALSE
    <3>1. nvic = {"tcc"} /\ rxc_en
      BY <1>9, <2>2, CalmTcc DEF CalmInv, Modes
    <3> QED BY <3>1 DEF CalmInv, Latched, Asserted
  <2>3. state' = state
    BY <1>9, CalmTcc DEF NoStep, port_step
  <2>4. ASSUME mode' = "uart", state' = "read_arg", Room' < UART_RX_SIZE + 2, cmd' = "TX"
        PROVE  pending_in' \/ (stepping' /\ pending_out')
    <3>1. CASE NoStep /\ UNCHANGED reply_len
      BY <1>0, <1>9, <2>1, <2>4, <3>1, CalmTcc DEF NoStep, UartFits, Room
    <3>2. CASE port_step(state) /\ MaySend
      BY <2>1, <2>3, <2>4, <3>2 DEF port_step, MaySend, CalmInv, Rested
    <3> QED BY <1>9, <3>1, <3>2, CalmTcc
  <2> QED BY <2>1, <2>2, <2>3, <2>4 DEF UartFits, Fit
<1>10. CASE SercomUart
  <2>1. UNCHANGED <<cmd, pending_in, pending_out, mode>> /\ rxc' = FALSE /\ ~stepping
    BY <1>10, CalmUart DEF SercomUart, parserVars
  <2>2. CASE rxc = FALSE /\ NoStep /\ UNCHANGED <<uart_len, reply_len>>
    BY <1>0, <2>1, <2>2, UartKept DEF NoStep
  <2>3. CASE rxc = TRUE /\ NoStep /\ UNCHANGED reply_len /\ uart_len' = MinOf(uart_len + 1, UART_RX_SIZE)
    BY <1>0, <2>1, <2>3, UartKept DEF NoStep
  <2>4. CASE /\ uart_len' = 0 /\ port_step(state)
             /\ state = Idle \/ (state = "exec_async" /\ cmd = "TX")
    BY <2>1, <2>4 DEF UartFits, Fit, port_step, Idle
  <2> QED BY <1>10, <2>2, <2>3, <2>4, CalmUart
<1>11. CASE SercomI2c
  BY <1>11, CalmI2c DEF UartFits, SercomI2c
<1>12. CASE port_handle_extint
  BY <1>12, CalmPin DEF UartFits, PinOpen, port_step, Idle
<1>13. CASE UartByte
  <2>1. /\ UNCHANGED <<cmd, reply_len, pending_in, pending_out, mode, state, stepping, uart_len>>
        /\ ~Sending \/ uart_len + 3 <= Room
    BY <1>13 DEF UartByte, restOfPort, parserVars, queueVars, Calm
  <2>2. Room' = Room /\ MinOf(uart_len + 1, UART_RX_SIZE) <= uart_len + 1 /\ Room \in Nat
    BY <2>1 DEF Room, MinOf
  <2>3. ASSUME cmd = "TX", state \in {"exec", "exec_async"}
        PROVE  (Fit(uart_len) /\ (rxc => Fit(MinOf(uart_len + 1, UART_RX_SIZE))))'
    <3>1. MinOf(uart_len + 1, UART_RX_SIZE) \in Nat
      BY DEF MinOf
    <3> QED BY <2>1, <2>2, <2>3, <3>1 DEF Fit, Sending
  <2> QED BY <1>0, <2>1, <2>2, <2>3 DEF UartFits
<1>14. CASE DmaTxDone \/ DmaRxDone \/ I2cDone \/ TccOver \/ (\E p \in Pins : PinChange(p)) \/ UNCHANGED vars
  <2>1. UNCHANGED <<cmd, reply_len, pending_in, pending_out, mode, state, stepping, uart_len, rxc>>
    BY <1>14 DEF DmaTxDone, DmaRxDone, I2cDone, TccOver, PinChange, vars, restOfPort, parserVars, queueVars, uartVars
  <2> QED BY <1>0, <2>1, UartKept
<1> QED BY <1>1, <1>2, <1>3, <1>4, <1>5, <1>6, <1>7, <1>8, <1>9, <1>10, <1>11, <1>12, <1>13, <1>14, CalmNoSercomError
        DEF Next, Step, Handler, Hardware, Read

\* The timeout's interrupt and what it finds.
RepliesFirst == tcc_en /\ InReply => reply_len > 0
TimeoutFinds == "tcc" \in nvic => NothingReceived \/ MaySend

LEMMA TccParts == (TccInv <=> RepliesFirst /\ TimeoutFinds) /\ (TccInv' <=> RepliesFirst' /\ TimeoutFinds')
BY DEF TccInv, RepliesFirst, TimeoutFinds

LEMMA RepliesFirstStep == Calm /\ CalmInv /\ [Next]_vars => RepliesFirst'
<1> SUFFICES ASSUME Calm, CalmInv, [Next]_vars PROVE RepliesFirst'
  OBVIOUS
<1> USE CalmTypes
<1>0. RepliesFirst /\ (tcc_en => mode = "uart")
  BY DEF CalmInv, TccInv, RepliesFirst, Modes
<1>1. CASE StepWait
  <2>1. UNCHANGED <<state, cmd, reply_len>>
    BY <1>1 DEF StepWait, parserVars
  <2>2. tcc_en' => tcc_en \/ AsyncAllowed(pending_in \/ WantIn)
    BY <1>1 DEF StepWait
  <2> QED BY <1>0, <2>1, <2>2 DEF RepliesFirst, InReply, AsyncAllowed, port_rx_locked, Idle
<1>2. CASE StepAsync \/ UNCHANGED vars
  <2>1. UNCHANGED <<state, cmd, reply_len, tcc_en>>
    BY <1>2 DEF StepAsync, vars, parserVars, queueVars
  <2> QED BY <1>0, <2>1 DEF RepliesFirst, InReply
<1>3. CASE StepContinue
  <2>1. UNCHANGED <<cmd, tcc_en>> /\ state = "exec" /\ reply_len' >= reply_len
    BY <1>3, CalmContinue
  <2>2. TypeInv'
    BY TypeStep DEF CalmInv
  <2>3. reply_len' \in Nat
    BY <2>2, SizeFacts DEF TypeInv, Typed, TypedQueue
  <2> QED BY <1>0, <2>1, <2>3 DEF RepliesFirst, InReply
<1>4. CASE Read
  <2>1. CASE state' = "read_arg"
    BY <2>1 DEF RepliesFirst, InReply
  <2>2. ASSUME NEW a, port_begin_cmd(cmd', a) PROVE RepliesFirst'
    BY <1>4, <2>2, CalmBegin DEF RepliesFirst, InReply, Idle
  <2> QED BY <1>4, <2>1, <2>2, CalmCommand
<1>5. CASE port_enable \/ port_disable
  BY <1>5 DEF port_enable, port_disable, CloseExceptDma, RepliesFirst, InReply, Idle
<1>6. CASE (\E n \in 1..BRIDGE_BUF_SIZE : port_bridge_out_completion(n)) \/ port_bridge_in_completion
  <2>1. ~tcc_en'
    BY <1>0, <1>6, BridgeKeeps
  <2> QED BY <2>1 DEF RepliesFirst
<1>7. CASE Interrupt
  <2>1. cmd' = cmd
    BY <1>7, CalmKeeps
  <2>2. CASE NoStep /\ UNCHANGED reply_len
    BY <1>0, <2>1, <2>2 DEF NoStep, RepliesFirst, InReply
  <2>3. CASE tcc_en' = (tcc_en /\ mode # "uart")
    BY <1>0, <2>3 DEF RepliesFirst
  <2> QED BY <1>7, <2>2, <2>3, CalmInterrupt
<1>8. CASE Hardware
  <2>1. UNCHANGED <<state, cmd, reply_len, tcc_en>>
    BY <1>8, HardwareKeeps DEF restOfPort, parserVars, queueVars
  <2> QED BY <1>0, <2>1 DEF RepliesFirst, InReply
<1> QED BY <1>1, <1>2, <1>3, <1>4, <1>5, <1>6, <1>7, <1>8 DEF Next, Step, Handler, Read, Interrupt

\* A timeout interrupt that is new finds its flag, and was not enabled with it before.
LEMMA TimeoutNew ==
    ASSUME NEW k, Latch(k),
           "tcc" \in nvic \ k \/ ("ovf" \in tcc' /\ tcc_en') => NothingReceived' \/ MaySend'
    PROVE  TimeoutFinds'
BY DEF Latch, Asserted, TimeoutFinds

LEMMA TimeoutStep == Calm /\ CalmInv /\ [Next]_vars => TimeoutFinds'
<1> SUFFICES ASSUME Calm, CalmInv, [Next]_vars PROVE TimeoutFinds'
  OBVIOUS
<1> USE CalmTypes
<1>0. /\ "tcc" \in nvic => NothingReceived \/ MaySend
      /\ "ovf" \in tcc /\ tcc_en => "tcc" \in nvic
      /\ tcc_en => mode = "uart" /\ connected
      /\ stepping => ~MaySend
  BY DEF CalmInv, TccInv, Modes, Latched, Asserted, MaySend
<1>1. CASE StepWait
  <2>1. /\ UNCHANGED <<mode, state, cmd, reply_len, connected, uart_len, rxc, tcc>>
        /\ stepping /\ stepping' = FALSE /\ Latch({})
    BY <1>1 DEF StepWait, parserVars, uartVars
  <2>2. CASE "tcc" \in nvic
    <3>1. NothingReceived'
      BY <1>0, <2>1, <2>2 DEF NothingReceived
    <3> QED BY <2>1, <3>1, TimeoutNew
  <2>3. ASSUME "tcc" \notin nvic, "ovf" \in tcc', tcc_en' PROVE MaySend'
    <3>1. AsyncAllowed(pending_in \/ WantIn) /\ mode = "uart" /\ pending_in' = (pending_in \/ WantIn)
      BY <1>0, <1>1, <2>1, <2>3 DEF StepWait
    <3>2. ~pending_in' /\ (state = Idle \/ (state = "exec_async" /\ cmd = "TX"))
      BY <3>1 DEF AsyncAllowed, port_rx_locked
    <3>3. Rested'
      BY RestedStep
    <3>4. state = Idle => reply_len' = 0
      BY <2>1, <3>2, <3>3 DEF Rested, Idle
    <3> QED BY <2>1, <3>1, <3>2, <3>4 DEF MaySend, InReply, Idle
  <2> QED BY <2>1, <2>2, <2>3, TimeoutNew
<1>2. CASE StepAsync
  BY <1>0, <1>2 DEF StepAsync, uartVars, TimeoutFinds, NothingReceived
<1>3. CASE StepContinue
  <2>1. UNCHANGED <<uart_len, rxc, tcc, tcc_en>> /\ stepping /\ Latch({})
    BY <1>3, CalmContinue
  <2>2. "tcc" \in nvic => NothingReceived'
    BY <1>0, <2>1 DEF NothingReceived
  <2> QED BY <1>0, <2>1, <2>2, TimeoutNew
<1>4. CASE Read
  <2>1. stepping /\ Latch({})
    BY <1>4, CalmRead
  <2>2. /\ "tcc" \in nvic => NothingReceived'
        /\ "ovf" \in tcc' /\ tcc_en' => NothingReceived' \/ ("ovf" \in tcc /\ tcc_en)
    <3>1. CASE UNCHANGED deviceVars
      BY <1>0, <2>1, <3>1 DEF deviceVars, uartVars, NothingReceived
    <3>2. ASSUME NEW a, port_begin_cmd(cmd', a)
          PROVE  /\ "tcc" \in nvic => NothingReceived'
                 /\ "ovf" \in tcc' /\ tcc_en' => NothingReceived' \/ ("ovf" \in tcc /\ tcc_en)
      <4>1. /\ (uart_len' = uart_len \/ uart_len' = 0) /\ (rxc' = rxc \/ rxc' = FALSE)
            /\ (UNCHANGED <<tcc, tcc_en>> \/ tcc_en' = FALSE \/ (uart_len' = 0 /\ rxc' = FALSE))
        BY <3>2 DEF port_begin_cmd, BeginDone, BeginInt, BeginReply, BeginAnalogRead, BeginTx, BeginStart,
           BeginStop, BeginSpi, BeginI2c, BeginUart, BeginUartOff, deviceVars, uartVars
      <4> QED BY <1>0, <2>1, <4>1 DEF NothingReceived
    <3> QED BY <1>4, <3>1, <3>2, CalmCommand
  <2> QED BY <1>0, <2>1, <2>2, TimeoutNew
<1>5. CASE port_enable
  BY <1>5 DEF port_enable, NoneLate, Calm, TimeoutFinds
<1>6. CASE port_disable
  <2>1. nvic = {} /\ Latch({}) /\ tcc_en' = (tcc_en /\ mode # "uart")
    BY <1>6 DEF port_disable, CloseExceptDma, NoneLate, Calm
  <2> QED BY <1>0, <2>1, TimeoutNew
<1>7. CASE (\E n \in 1..BRIDGE_BUF_SIZE : port_bridge_out_completion(n)) \/ port_bridge_in_completion
  <2>1. nvic = {} /\ Latch({}) /\ tcc_en' = (tcc_en /\ mode # "uart")
    BY <1>7, BridgeKeeps DEF NoneLate, Calm
  <2> QED BY <1>0, <2>1, TimeoutNew
<1>8. CASE \E d \in {"tx", "rx"} : port_dma_completion(d)
  <2>1. nvic = {} /\ Latch({}) /\ tcc_en' = (tcc_en /\ mode # "uart")
    BY <1>8, CalmDma DEF port_dma_completion, port_step
  <2> QED BY <1>0, <2>1, TimeoutNew
<1>9. CASE TccHandler
  <2>1. nvic = {"tcc"} /\ Latch({"tcc"}) /\ tcc' = tcc \ {"ovf"}
    BY <1>9, CalmTcc DEF TccHandler
  <2> QED BY <2>1, TimeoutNew
<1>10. CASE SercomUart
  <2>1. /\ UNCHANGED <<cmd, pending_in, mode, connected>> /\ rxc' = FALSE /\ Latch({"sercom"})
        /\ (tcc_en' => tcc_en) /\ ("ovf" \in tcc' => "ovf" \in tcc)
    <3>1. UNCHANGED <<cmd, pending_in, mode, connected>>
      BY <1>10, CalmKeeps DEF Interrupt
    <3>2. rxc' = FALSE /\ Latch({"sercom"}) /\ (tcc' = tcc \/ tcc' = tcc \cup {"runs"})
      BY <1>10, CalmUart DEF SercomUart
    <3>3. tcc_en' => tcc_en
      BY <1>10, CalmUart DEF NoStep, port_step
    <3> QED BY <3>1, <3>2, <3>3
  <2>2. CASE rxc = FALSE /\ NoStep /\ UNCHANGED <<uart_len, reply_len>>
    BY <1>0, <2>1, <2>2, TimeoutNew DEF NoStep, NothingReceived, MaySend, InReply
  <2>3. CASE rxc = TRUE /\ NoStep /\ UNCHANGED reply_len
    BY <1>0, <2>1, <2>3, TimeoutNew DEF NoStep, NothingReceived, MaySend, InReply
  <2>4. CASE uart_len' = 0
    BY <2>1, <2>4, TimeoutNew DEF NothingReceived
  <2> QED BY <1>10, <2>2, <2>3, <2>4, CalmUart
<1>11. CASE SercomI2c
  <2>1. /\ mode = "i2c" /\ UNCHANGED <<uart_len, rxc, tcc>> /\ Latch({"sercom"})
        /\ (tcc_en' => tcc_en)
    BY <1>11, CalmI2c DEF SercomI2c, uartVars, port_step
  <2> QED BY <1>0, <2>1, TimeoutNew DEF NothingReceived, MaySend
<1>12. CASE port_handle_extint
  <2>1. "tcc" \notin nvic /\ Latch({"eic"}) /\ tcc_en' = (tcc_en /\ mode # "uart")
    BY <1>12, CalmPin DEF port_handle_extint, port_step
  <2> QED BY <1>0, <2>1, TimeoutNew
<1>13. CASE Hardware
  <2>1. UNCHANGED <<state, mode, cmd, reply_len, pending_in, stepping, connected, uart_len, tcc_en>>
    BY <1>13, HardwareKeeps DEF restOfPort, parserVars, queueVars, bridgeVars
  <2>2. MaySend' = MaySend
    BY <2>1 DEF MaySend, InReply
  <2>3. CASE DmaTxDone \/ DmaRxDone
    BY <1>0, <2>1, <2>2, <2>3 DEF DmaTxDone, DmaRxDone, TimeoutFinds, NothingReceived
  <2>4. CASE I2cDone \/ \E p \in Pins : PinChange(p)
    <3>1. UNCHANGED <<rxc, tcc>> /\ Latch({})
      BY <2>4 DEF I2cDone, PinChange
    <3> QED BY <1>0, <2>1, <2>2, <3>1, TimeoutNew DEF NothingReceived
  <2>5. CASE UartByte
    BY <1>0, <2>1, <2>5, TimeoutNew DEF UartByte, Calm
  <2>6. CASE TccOver
    <3>1. in_req = 0 /\ ~stepping /\ Latch({}) /\ rxc' = rxc
      BY <2>6 DEF TccOver, Calm
    <3>2. ASSUME tcc_en PROVE MaySend
      <4>1. mode = "uart" /\ connected /\ ~pending_in
        BY <1>0, <3>1, <3>2 DEF CalmInv, Requests
      <4>2. state # "exec_async" => reply_len = 0
        BY <3>1, <4>1 DEF CalmInv, Rested
      <4>3. state = "exec_async" => cmd = "TX"
        BY <4>1 DEF CalmInv, TypeInv, Parser, Modes, Admissible
      <4>4. ~InReply
        BY <3>2, <4>2, <4>3 DEF CalmInv, TccInv, InReply
      <4> QED BY <3>1, <4>1, <4>2, <4>3, <4>4 DEF MaySend
    <3> QED BY <1>0, <2>1, <2>2, <3>1, <3>2, TimeoutNew DEF NothingReceived
  <2> QED BY <1>13, <2>3, <2>4, <2>5, <2>6 DEF Hardware
<1>14. CASE UNCHANGED vars
  BY <1>0, <1>14 DEF vars, parserVars, queueVars, bridgeVars, uartVars, TimeoutFinds, NothingReceived, MaySend, InReply
<1> QED BY <1>1, <1>2, <1>3, <1>4, <1>5, <1>6, <1>7, <1>8, <1>9, <1>10, <1>11, <1>12, <1>13, <1>14, CalmNoSercomError
        DEF Next, Step, Handler, Read

---------------------------------------------------------------------------
(* The theorems.                                                           *)

LEMMA CalmInit == Init => CalmInv
<1> SUFFICES ASSUME Init PROVE CalmInv
  OBVIOUS
<1> USE DEF Init
<1>1. TypeInv /\ Held /\ DmaInv
  BY TypeInit, DmaInit
<1>2. Requests /\ Rested /\ Busy
  BY DEF Requests, Rested, Busy, OwnChannel
<1>3. Modes /\ Sercom /\ PinInv
  BY DEF Modes, Sercom, PinInv
<1>4. Latched
  BY DEF Latched, Asserted
<1>5. UartFits /\ TccInv
  BY DEF UartFits, TccInv
<1> QED BY <1>1, <1>2, <1>3, <1>4, <1>5 DEF CalmInv

LEMMA CalmStep == Calm /\ CalmInv /\ [Next]_vars => CalmInv'
<1> SUFFICES ASSUME Calm, CalmInv, [Next]_vars PROVE CalmInv'
  OBVIOUS
<1>1. TypeInv' /\ Held' /\ DmaInv'
  BY TypeStep, HeldStep, DmaStep DEF Calm, CalmInv, FetchedFirst, Punctual
<1>2. Requests' /\ Rested' /\ Busy' /\ Modes'
  BY RequestsStep, RestedStep, BusyStep, ModesStep
<1>3. Latched' /\ Sercom' /\ PinInv' /\ UartFits'
  BY LatchedStep, SercomStep, PinStep, UartStep
<1>4. TccInv'
  BY RepliesFirstStep, TimeoutStep, TccParts
<1> QED BY <1>1, <1>2, <1>3, <1>4 DEF CalmInv

LEMMA CalmAlways == Calm => (Spec => []CalmInv)
<1> SUFFICES ASSUME Calm PROVE Spec => []CalmInv
  OBVIOUS
<1>1. CalmInv /\ [Next]_vars => CalmInv'
  BY CalmStep
<1> QED BY <1>1, CalmInit, PTL DEF Spec

\* A command sequence of the Node library makes the port signal no error, and so closes no
\* connection, when interrupts come in none of the orders of Races and the client, before it
\* sends to a UART, waits until there is room for what the UART may receive meanwhile.
THEOREM NeverAnError == Calm => (Spec => []NoError)
<1> SUFFICES ASSUME Calm PROVE Spec => []NoError
  OBVIOUS
<1>1. CalmInv => NoError
  BY DEF CalmInv, Requests, NoError
<1> QED BY <1>1, CalmAlways, PTL

\* A connected port that does not work has a buffer with the bridge, or the transfer of its
\* command runs or has its interrupt pending.
THEOREM NeverStuck == Calm => (Spec => []WaitsForSomething)
<1> SUFFICES ASSUME Calm PROVE Spec => []WaitsForSomething
  OBVIOUS
<1>1. ASSUME CalmInv PROVE WaitsForSomething
  <2>1. Requests /\ Rested /\ Busy
    BY <1>1 DEF CalmInv
  <2>2. ASSUME connected, ~stepping, state # "exec_async" PROVE out_req \/ in_req # 0
    BY <2>1, <2>2, <1>1, CalmTypes DEF Requests, Rested
  <2>3. state = "exec_async" => dma_done # {} \/ tx_src # "none" \/ rx_dst # "none" \/ i2c # "none"
    BY <2>1 DEF Busy
  <2> QED BY <2>2, <2>3 DEF WaitsForSomething
<1> QED BY <1>1, CalmAlways, PTL

\* What interrupts insert into the replies comes between two of them: a reply of announced
\* length is never broken up.
THEOREM RepliesUnbroken == Calm => (Spec => RepliesWhole)
<1> SUFFICES ASSUME Calm PROVE Spec => RepliesWhole
  OBVIOUS
<1>1. ASSUME CalmInv, [Next]_vars
      PROVE  [reply_len' > reply_len /\ ~stepping => ~InReply]_vars
  <2> SUFFICES ASSUME reply_len' > reply_len, ~stepping, InReply, Next PROVE FALSE
    BY <1>1
  <2> USE <1>1, CalmTypes
  <2>1. CASE Step
    BY <2>1, StepConnected DEF CalmInv
  <2>2. CASE port_enable \/ port_disable
    BY <2>2 DEF port_enable, port_disable, CloseExceptDma, queueVars
  <2>3. CASE (\E n \in 1..BRIDGE_BUF_SIZE : port_bridge_out_completion(n)) \/ port_bridge_in_completion
    BY <2>3 DEF port_bridge_out_completion, port_bridge_in_completion, InCompletionExceptPending
  <2>4. CASE \E d \in {"tx", "rx"} : port_dma_completion(d)
    BY <2>4 DEF port_dma_completion, queueVars
  <2>5. CASE TccHandler
    BY <2>5, CalmTcc DEF MaySend
  <2>6. CASE SercomUart
    <3>1. reply_len' = reply_len \/ state = Idle \/ (state = "exec_async" /\ cmd = "TX")
      BY <2>6, CalmUart
    <3> QED BY <3>1 DEF InReply, Idle
  <2>7. CASE SercomI2c
    BY <2>7 DEF SercomI2c, queueVars
  <2>8. CASE port_handle_extint
    BY <2>8, CalmPin DEF PinOpen, InReply, Idle
  <2>9. CASE Hardware
    BY <2>9, HardwareKeeps DEF restOfPort, queueVars
  <2> QED BY <2>1, <2>2, <2>3, <2>4, <2>5, <2>6, <2>7, <2>8, <2>9, CalmNoSercomError DEF Next, Handler
<1> QED BY <1>1, CalmAlways, PTL DEF Spec, RepliesWhole

\* What was written to reply_buf leaves it by the bridge, all of it.
THEOREM RepliesComplete == Calm => (Spec => RepliesKept)
<1> SUFFICES ASSUME Calm PROVE Spec => RepliesKept
  OBVIOUS
<1>1. ASSUME CalmInv, [Next]_vars
      PROVE  [reply_len' < reply_len /\ connected => in_req = reply_len /\ in_req' = 0]_vars
  <2> SUFFICES ASSUME reply_len' < reply_len, connected, Next PROVE in_req = reply_len /\ in_req' = 0
    BY <1>1
  <2> USE <1>1, CalmTypes
  <2>1. CASE StepWait \/ StepAsync
    <3>1. reply_len' = reply_len
      BY <2>1 DEF StepWait, StepAsync, queueVars
    <3> QED BY <3>1
  <2>2. CASE StepContinue
    <3>1. reply_len' >= reply_len
      BY <2>2, CalmContinue
    <3>2. reply_len' \in Nat
      BY TypeStep, SizeFacts DEF CalmInv, TypeInv, Typed, TypedQueue
    <3> QED BY <3>1, <3>2
  <2>3. CASE Read
    <3>1. reply_len' >= reply_len
      BY <2>3, CalmCommand, CalmBegin
    <3>2. reply_len' \in Nat
      BY TypeStep, SizeFacts DEF CalmInv, TypeInv, Typed, TypedQueue
    <3> QED BY <3>1, <3>2
  <2>4. CASE port_enable \/ port_disable
    BY <2>4 DEF port_enable, port_disable, CloseExceptDma, queueVars
  <2>5. CASE \E n \in 1..BRIDGE_BUF_SIZE : port_bridge_out_completion(n)
    BY <2>5 DEF port_bridge_out_completion
  <2>6. CASE port_bridge_in_completion
    <3>1. in_req # 0 /\ in_req' = 0
      BY <2>6 DEF port_bridge_in_completion, InCompletionExceptPending
    <3>2. in_req = reply_len
      BY <3>1 DEF CalmInv, Held, Requests
    <3> QED BY <3>1, <3>2
  <2>7. CASE Interrupt
    <3>1. reply_len' = reply_len \/ reply_len' >= reply_len
      BY <2>7, CalmInterrupt
    <3>2. reply_len' \in Nat
      BY TypeStep, SizeFacts DEF CalmInv, TypeInv, Typed, TypedQueue
    <3> QED BY <3>1, <3>2
  <2>8. CASE Hardware
    BY <2>8, HardwareKeeps DEF restOfPort, queueVars
  <2> QED BY <2>1, <2>2, <2>3, <2>4, <2>5, <2>6, <2>7, <2>8 DEF Next, Step, Handler, Read, Interrupt
<1> QED BY <1>1, CalmAlways, PTL DEF Spec, RepliesKept
===========================================================================
