---------------------------- MODULE PortProofs ----------------------------
(***************************************************************************)
(* Proofs about a module port that hold with errors and unlikely orders of *)
(* interrupts: types, the parser of commands, who uses the buffers, and    *)
(* what makes a port signal an error.                                      *)
(*                                                                         *)
(* What a theorem assumes of Races is named: nothing (TypeCorrect,         *)
(* ClosedRests, OnlyTheseErrors), that no interrupt outlives the handler   *)
(* that disables it (Punctual), that the SoC fetches the last reply before *)
(* it closes the connection (FetchedFirst).                                *)
(*                                                                         *)
(* The invariants, each inductive with TypeInv:                            *)
(*   TypeInv    types, the parser, and that a port works only while it is  *)
(*              connected;                                                 *)
(*   Held       the port knows which of its buffers the bridge has;        *)
(*   DmaInv     a transfer belongs to the command that waits for it, which *)
(*              locks the buffers it uses; Awaited: while connected;       *)
(*   Settings   what enabled interrupts and commands say of the mode;      *)
(*   Answering  replies that wait are with the bridge or a transfer.       *)
(***************************************************************************)
EXTENDS Port, FiniteSetTheorems, TLAPS

LEMMA SizeFacts ==
    /\ BRIDGE_BUF_SIZE \in Nat /\ UART_RX_SIZE \in Nat /\ UART_SLACK \in Nat /\ MaxPayload \in Nat
    /\ 0 < UART_RX_SIZE /\ 0 < MaxPayload
    /\ UART_RX_SIZE + 2 <= BRIDGE_BUF_SIZE /\ UART_SLACK <= UART_RX_SIZE
    /\ MaxPayload <= BRIDGE_BUF_SIZE
    /\ Pins \subseteq 0..7 /\ Cardinality(Pins) <= BRIDGE_BUF_SIZE /\ Cmds \subseteq AllCmds
BY SizeAssumption, PortAssumption

LEMMA PinCount ==
    ASSUME NEW S, S \subseteq Pins
    PROVE  Cardinality(S) \in Nat /\ Cardinality(S) <= BRIDGE_BUF_SIZE
<1>1. IsFiniteSet(0..7)
  BY FS_Interval, 0 \in Int, 7 \in Int
<1>2. IsFiniteSet(Pins)
  BY <1>1, FS_Subset, SizeFacts
<1>3. IsFiniteSet(S) /\ Cardinality(S) <= Cardinality(Pins)
  BY <1>2, FS_Subset
<1>4. Cardinality(S) \in Nat /\ Cardinality(Pins) \in Nat
  BY <1>2, <1>3, FS_CardinalityType
<1> QED BY <1>3, <1>4, SizeFacts

LEMMA Wraps ==
    ASSUME NEW n \in Nat
    PROVE  U8(n) \in 0..BRIDGE_BUF_SIZE
BY SizeFacts DEF U8

LEMMA MinOfType ==
    ASSUME NEW a \in Nat, NEW b \in Nat
    PROVE  MinOf(a, b) \in Nat /\ MinOf(a, b) <= a /\ MinOf(a, b) <= b
BY DEF MinOf

---------------------------------------------------------------------------
(* Types, the parser, and the connection.                                  *)

\* The port is disabled as long as it has no connection, and works only with one.
Connection == (connected <=> state # "disable") /\ (stepping => connected)

\* How far the parser has come: a payload is only continued when some of it is left.
Parser ==
    /\ cmd_pos <= cmd_len
    /\ state = "read_arg" => arg_len \in 1..port_cmd_args(cmd)
    /\ state = "exec" => cmd \in {"ECHO", "TX", "RX", "TXRX"} /\ arg0 >= 1
    /\ state = "exec_async" => cmd \in {"TX", "RX", "TXRX", "START"}
    /\ state = "exec_async" /\ cmd = "START" => arg0 = 0

\* TypeOK, a variable at a time.
TypedQueue ==
    /\ state \in {"disable", "read_cmd", "read_arg", "exec", "exec_async"}
    /\ cmd \in AllCmds
    /\ arg0 \in 0..BRIDGE_BUF_SIZE /\ arg_len \in 0..3
    /\ cmd_len \in 0..BRIDGE_BUF_SIZE /\ cmd_pos \in 0..BRIDGE_BUF_SIZE
    /\ reply_len \in 0..BRIDGE_BUF_SIZE
    /\ pending_in \in BOOLEAN /\ pending_out \in BOOLEAN /\ stepping \in BOOLEAN
    /\ connected \in BOOLEAN /\ enabled \in BOOLEAN /\ out_req \in BOOLEAN
    /\ in_req \in 0..BRIDGE_BUF_SIZE /\ chan \in {"own", "other"}

TypedDevice ==
    /\ mode \in {"none", "spi", "i2c", "uart"}
    /\ tx_left \in 0..BRIDGE_BUF_SIZE
    /\ tx_src \in {"none", "dummy", "cmd_buf"} /\ rx_dst \in {"none", "dummy", "reply_buf"}
    /\ dma_int \in SUBSET {"tx", "rx"} /\ dma_done \in SUBSET {"tx", "rx"}
    /\ i2c \in {"none", "busy", "flag"} /\ bus \in {"idle", "write", "read"}
    /\ uart_len \in 0..UART_RX_SIZE
    /\ tcc \in SUBSET {"runs", "ovf"}
    /\ rxc \in BOOLEAN /\ rxc_en \in BOOLEAN /\ tcc_en \in BOOLEAN /\ eic_en \in BOOLEAN
    /\ sense \in [Pins -> {"none", "edge", "level"}]
    /\ eic_flag \in SUBSET Pins
    /\ nvic \in SUBSET {"sercom", "tcc", "eic"}

Typed == TypedQueue /\ TypedDevice

LEMMA Flat == (TypeOK <=> Typed) /\ (TypeOK' <=> Typed')
<1>1. TypeOK => Typed
  BY DEF TypeOK, Typed, TypedQueue, TypedDevice
<1>2. Typed => TypeOK
  BY DEF TypeOK, Typed, TypedQueue, TypedDevice
<1>3. TypeOK' => Typed'
  BY DEF TypeOK, Typed, TypedQueue, TypedDevice
<1>4. Typed' => TypeOK'
  BY DEF TypeOK, Typed, TypedQueue, TypedDevice
<1> QED BY <1>1, <1>2, <1>3, <1>4

TypeInv == Typed /\ Parser /\ Connection

LEMMA TypeInit == Init => TypeInv
<1> SUFFICES ASSUME Init PROVE TypeInv
  OBVIOUS
<1> USE SizeFacts DEF Init, TypeInv
<1>a. 0 \in 0..BRIDGE_BUF_SIZE /\ 0 \in 0..UART_RX_SIZE /\ "NOP" \in AllCmds
  BY DEF AllCmds
<1>b. sense \in [Pins -> {"none", "edge", "level"}]
  OBVIOUS
<1>c. /\ dma_int \in SUBSET {"tx", "rx"} /\ dma_done \in SUBSET {"tx", "rx"} /\ tcc \in SUBSET {"runs", "ovf"}
      /\ eic_flag \in SUBSET Pins /\ nvic \in SUBSET {"sercom", "tcc", "eic"}
  OBVIOUS
<1>d. /\ pending_in \in BOOLEAN /\ pending_out \in BOOLEAN /\ stepping \in BOOLEAN
      /\ connected \in BOOLEAN /\ enabled \in BOOLEAN /\ out_req \in BOOLEAN
      /\ rxc \in BOOLEAN /\ rxc_en \in BOOLEAN /\ tcc_en \in BOOLEAN /\ eic_en \in BOOLEAN
  OBVIOUS
<1>1. Typed
  BY <1>a, <1>b, <1>c, <1>d DEF Typed, TypedQueue, TypedDevice
<1>2. Parser /\ Connection
  BY DEF Parser, Connection
<1> QED BY <1>1, <1>2

\* While the loop goes on there is room for a byte, and a byte to read.
LEMMA LoopGoesOn ==
    ASSUME Typed, ~MustWait, state # "exec_async"
    PROVE  cmd_pos < cmd_len /\ reply_len < BRIDGE_BUF_SIZE /\ ~pending_in /\ ~pending_out
BY SizeFacts DEF Typed, TypedQueue, TypedDevice, MustWait, WantOut, WantIn

LEMMA TypeError ==
    ASSUME Typed, port_error \/ UNCHANGED bridgeVars
    PROVE  /\ connected' = connected /\ enabled' \in BOOLEAN /\ out_req' \in BOOLEAN
           /\ in_req' \in 0..BRIDGE_BUF_SIZE /\ chan' = chan
<1>1. enabled \in BOOLEAN /\ out_req \in BOOLEAN /\ in_req \in 0..BRIDGE_BUF_SIZE
  BY DEF Typed, TypedQueue, TypedDevice
<1>2. CASE port_error
  <2>1. in_req' \in 0..BRIDGE_BUF_SIZE
    <3>1. in_req' \in {0, in_req}
      BY <1>2 DEF port_error, bridgeVars
    <3> QED BY <1>1, <3>1, SizeFacts
  <2>2. out_req' \in BOOLEAN /\ enabled' \in BOOLEAN
    BY <1>1, <1>2, Zenon DEF port_error, bridgeVars
  <2>3. connected' = connected /\ chan' = chan
    BY <1>2 DEF port_error, bridgeVars
  <2> QED BY <2>1, <2>2, <2>3
<1>3. CASE UNCHANGED bridgeVars
  BY <1>1, <1>3 DEF bridgeVars
<1> QED BY <1>2, <1>3

\* An error only takes requests away.
LEMMA ErrorTakes ==
    ASSUME Typed, port_error \/ UNCHANGED bridgeVars
    PROVE  (out_req' => out_req) /\ in_req' \in {0, in_req} /\ connected' = connected /\ chan' = chan
<1>1. out_req \in BOOLEAN
  BY DEF Typed, TypedQueue
<1>2. CASE port_error
  <2>1. out_req' => out_req
    BY <1>1, <1>2 DEF port_error, bridgeVars
  <2> QED BY <1>2, <2>1 DEF port_error, bridgeVars
<1>3. CASE UNCHANGED bridgeVars
  BY <1>3 DEF bridgeVars
<1> QED BY <1>2, <1>3

\* A command begins: the state it leads to, and what it changes.
LEMMA TypeBegin ==
    ASSUME Typed, NEW c \in AllCmds, NEW a \in 0..BRIDGE_BUF_SIZE, port_begin_cmd(c, a),
           c \in {"GPIO", "GPIO_INT", "READ", "ANALOG_READ"} => a \in Pins
    PROVE  /\ state' \in {Idle, "exec", "exec_async"}
           /\ state' = "exec" => c \in {"ECHO", "TX", "RX", "TXRX"} /\ arg0' = a
           /\ state' = "exec_async" => c = "START" /\ arg0' = 0
           /\ arg0' \in 0..BRIDGE_BUF_SIZE
           /\ mode' \in {"none", "spi", "i2c", "uart"}
           /\ reply_len' \in 0..BRIDGE_BUF_SIZE
           /\ connected' = connected /\ enabled' \in BOOLEAN /\ out_req' \in BOOLEAN
           /\ in_req' \in 0..BRIDGE_BUF_SIZE /\ chan' \in {"own", "other"}
           /\ UNCHANGED <<tx_src, rx_dst, tx_left>>
           /\ dma_int' \in SUBSET {"tx", "rx"} /\ dma_done' \in SUBSET {"tx", "rx"}
           /\ i2c' \in {"none", "busy", "flag"} /\ bus' \in {"idle", "write", "read"}
           /\ uart_len' \in 0..UART_RX_SIZE /\ tcc' \in SUBSET {"runs", "ovf"}
           /\ rxc' \in BOOLEAN /\ rxc_en' \in BOOLEAN /\ tcc_en' \in BOOLEAN
           /\ sense' \in [Pins -> {"none", "edge", "level"}]
<1> USE SizeFacts DEF Typed, TypedQueue, TypedDevice, bridgeVars, deviceVars, dmaVars, i2cVars, uartVars, Idle
<1>1. CASE BeginDone(c)
  BY <1>1 DEF BeginDone, port_begin_cmd
<1>2. CASE BeginInt(c, a)
  BY <1>2 DEF BeginInt, port_begin_cmd
<1>3. CASE BeginReply(c)
  <2>1. reply_len' \in 0..BRIDGE_BUF_SIZE
    BY <1>3, MinOfType, reply_len + 1 \in Nat DEF BeginReply, port_send_status
  <2>2. /\ connected' = connected /\ enabled' \in BOOLEAN /\ out_req' \in BOOLEAN /\ in_req' \in 0..BRIDGE_BUF_SIZE
        /\ chan' = chan
    <3>1. port_error \/ UNCHANGED bridgeVars
      BY <1>3 DEF BeginReply, port_send_status, Check
    <3> QED BY <3>1, TypeError
  <2> QED BY <1>3, <2>1, <2>2 DEF BeginReply, port_begin_cmd
<1>4. CASE BeginAnalogRead(c)
  BY <1>4, Wraps DEF BeginAnalogRead, port_begin_cmd
<1>5. CASE BeginTx(c)
  BY <1>5 DEF BeginTx, port_begin_cmd
<1>6. CASE BeginStart(c, a)
  BY <1>6 DEF BeginStart, port_begin_cmd
<1>7. CASE BeginStop(c)
  BY <1>7 DEF BeginStop, port_begin_cmd
<1>8. CASE BeginSpi(c)
  BY <1>8 DEF BeginSpi, port_begin_cmd
<1>9. CASE BeginI2c(c)
  BY <1>9 DEF BeginI2c, port_begin_cmd
<1>10. CASE BeginUart(c)
  <2>1. dma_int' \in SUBSET {"tx", "rx"} /\ dma_done' \in SUBSET {"tx", "rx"} /\ tcc' \in SUBSET {"runs", "ovf"}
    BY <1>10 DEF BeginUart
  <2>2. uart_len' \in 0..UART_RX_SIZE
    BY <1>10 DEF BeginUart
  <2> QED BY <1>10, <2>1, <2>2 DEF BeginUart, port_begin_cmd
<1>11. CASE BeginUartOff(c)
  BY <1>11 DEF BeginUartOff, port_begin_cmd
<1> QED BY <1>1, <1>2, <1>3, <1>4, <1>5, <1>6, <1>7, <1>8, <1>9, <1>10, <1>11 DEF port_begin_cmd

LEMMA NvicType ==
    ASSUME Typed, NEW taken, Latch(taken) \/ UNCHANGED nvic
    PROVE  nvic' \in SUBSET {"sercom", "tcc", "eic"}
<1>1. nvic \in SUBSET {"sercom", "tcc", "eic"}
  BY DEF Typed, TypedQueue, TypedDevice
<1>2. Asserted' \in SUBSET {"sercom", "tcc", "eic"}
  BY DEF Asserted
<1> QED BY <1>1, <1>2 DEF Latch

LEMMA ArgCount ==
    ASSUME NEW c \in AllCmds
    PROVE  /\ port_cmd_args(c) \in 0..3
           /\ port_cmd_args(c) = 0 => c \in {"NOP", "STOP", "DISABLE", "DISABLE_UART"}
           /\ c \in {"ECHO", "TX", "RX", "TXRX"} => port_cmd_args(c) = 1
BY DEF port_cmd_args

LEMMA TypeCmd == ASSUME TypeInv, NEW c \in Cmds, StepCmd(c) PROVE TypeInv'
<1> USE SizeFacts DEF TypeInv, restOfStep, Idle
<1>1. c \in AllCmds
  OBVIOUS
<1>2. cmd_pos < cmd_len /\ reply_len < BRIDGE_BUF_SIZE
  BY LoopGoesOn DEF StepCmd
<1>3. cmd_pos' \in 0..BRIDGE_BUF_SIZE /\ cmd_pos' <= cmd_len'
  BY <1>2 DEF StepCmd, Typed, TypedQueue, TypedDevice
<1>4. arg_len' \in 0..3 /\ cmd' \in AllCmds /\ nvic' \in SUBSET {"sercom", "tcc", "eic"}
  BY <1>1, ArgCount, NvicType DEF StepCmd
<1>5. UNCHANGED <<cmd_len, pending_in, pending_out, stepping, eic_flag, eic_en>> /\ stepping /\ state = "read_cmd"
  BY DEF StepCmd
<1>6. CASE port_cmd_args(c) = 0
  <2>1. port_begin_cmd(c, arg0) /\ arg0 \in 0..BRIDGE_BUF_SIZE
    BY <1>6 DEF StepCmd, Typed, TypedQueue, TypedDevice
  <2>2. c \in {"NOP", "STOP", "DISABLE", "DISABLE_UART"}
    BY <1>1, <1>6, ArgCount
  <2>3. Typed'
    BY <1>1, <1>3, <1>4, <1>5, <2>1, <2>2, TypeBegin DEF Typed, TypedQueue, TypedDevice
  <2>4. state' = "read_cmd" /\ connected' = connected
    BY <1>1, <2>1, <2>2, TypeBegin
  <2> QED BY <1>3, <1>5, <2>3, <2>4 DEF Parser, Connection
<1>7. CASE port_cmd_args(c) # 0
  <2>1. state' = "read_arg" /\ UNCHANGED <<arg0, mode, reply_len, bridgeVars, deviceVars>>
    BY <1>7 DEF StepCmd
  <2>2. Typed'
    BY <1>3, <1>4, <1>5, <2>1 DEF Typed, TypedQueue, TypedDevice, bridgeVars, deviceVars, dmaVars, i2cVars, uartVars
  <2>3. arg_len' \in 1..port_cmd_args(cmd')
    BY <1>1, <1>7, ArgCount DEF StepCmd
  <2> QED BY <1>3, <1>5, <2>1, <2>2, <2>3 DEF Parser, Connection, bridgeVars
<1> QED BY <1>6, <1>7

LEMMA TypeArg == ASSUME TypeInv, NEW a \in 0..BRIDGE_BUF_SIZE, StepArg(a) PROVE TypeInv'
<1> USE SizeFacts DEF TypeInv, restOfStep, Idle
<1>1. cmd_pos < cmd_len /\ reply_len < BRIDGE_BUF_SIZE
  BY LoopGoesOn DEF StepArg
<1>2. cmd_pos' \in 0..BRIDGE_BUF_SIZE /\ cmd_pos' <= cmd_len'
  BY <1>1 DEF StepArg, Typed, TypedQueue, TypedDevice
<1>3. /\ UNCHANGED <<cmd_len, cmd, pending_in, pending_out, stepping, eic_flag, eic_en>>
      /\ stepping /\ state = "read_arg" /\ connected
  BY DEF StepArg, Connection
<1>4. arg_len \in 1..port_cmd_args(cmd) /\ cmd \in AllCmds /\ port_cmd_args(cmd) \in 0..3
  BY <1>3, ArgCount DEF Parser, Typed, TypedQueue, TypedDevice
<1>5. arg_len' \in 0..3 /\ nvic' \in SUBSET {"sercom", "tcc", "eic"}
  BY <1>4, NvicType DEF StepArg
<1>6. CASE arg_len = 1
  <2>1. port_begin_cmd(cmd, a)
    BY <1>6 DEF StepArg
  <2>2. cmd \in {"GPIO", "GPIO_INT", "READ", "ANALOG_READ", "ECHO", "TX", "RX", "TXRX"} => a \in Arg0(cmd)
    BY <1>6 DEF StepArg, port_cmd_args
  <2>3. /\ cmd \in {"GPIO", "GPIO_INT", "READ", "ANALOG_READ"} => a \in Pins
        /\ cmd \in {"ECHO", "TX", "RX", "TXRX"} => a >= 1
    BY <2>2 DEF Arg0
  <2>4. Typed'
    BY <1>2, <1>3, <1>4, <1>5, <2>1, <2>3, TypeBegin DEF Typed, TypedQueue, TypedDevice
  <2>5. /\ state' \in {"read_cmd", "exec", "exec_async"}
        /\ state' = "exec" => cmd \in {"ECHO", "TX", "RX", "TXRX"} /\ arg0' = a
        /\ state' = "exec_async" => cmd = "START" /\ arg0' = 0
        /\ connected' = connected
    BY <1>4, <2>1, <2>3, TypeBegin
  <2> QED BY <1>2, <1>3, <2>3, <2>4, <2>5 DEF Parser, Connection
<1>7. CASE arg_len # 1
  <2>1. arg0' = a /\ UNCHANGED <<state, mode, reply_len, bridgeVars, deviceVars>>
    BY <1>7 DEF StepArg
  <2>2. Typed'
    BY <1>2, <1>3, <1>5, <2>1 DEF Typed, TypedQueue, TypedDevice, bridgeVars, deviceVars, dmaVars, i2cVars, uartVars
  <2>3. arg_len' \in 1..port_cmd_args(cmd')
    BY <1>3, <1>4, <1>7 DEF StepArg
  <2> QED BY <1>2, <1>3, <2>1, <2>2, <2>3 DEF Parser, Connection, bridgeVars
<1> QED BY <1>6, <1>7

LEMMA TypeWait == TypeInv /\ (StepWait \/ StepAsync) => TypeInv'
<1> SUFFICES ASSUME TypeInv, StepWait \/ StepAsync PROVE TypeInv'
  OBVIOUS
<1> USE SizeFacts DEF TypeInv
<1>1. CASE StepWait
  <2>1. nvic' \in SUBSET {"sercom", "tcc", "eic"} /\ in_req' \in 0..BRIDGE_BUF_SIZE
    BY <1>1, NvicType DEF StepWait, Typed, TypedQueue, TypedDevice
  <2>2. /\ pending_out' \in BOOLEAN /\ out_req' \in BOOLEAN /\ pending_in' \in BOOLEAN
        /\ stepping' \in BOOLEAN
    BY <1>1 DEF StepWait
  <2>3. eic_en' \in BOOLEAN /\ tcc_en' \in BOOLEAN
    BY <1>1 DEF StepWait
  <2>4. Typed'
    BY <1>1, <2>1, <2>2, <2>3 DEF StepWait, Typed, TypedQueue, TypedDevice, parserVars, dmaVars, i2cVars, uartVars, pinVars
  <2> QED BY <1>1, <2>4 DEF StepWait, Parser, Connection, parserVars
<1>2. CASE StepAsync
  <2>0. stepping' \in BOOLEAN
    BY <1>2 DEF StepAsync
  <2>1. Typed'
    BY <1>2, <2>0 DEF StepAsync, Typed, TypedQueue, TypedDevice, parserVars, queueVars, bridgeVars, dmaVars, i2cVars, uartVars, pinVars
  <2> QED BY <1>2, <2>1 DEF StepAsync, Parser, Connection, parserVars, queueVars, bridgeVars
<1> QED BY <1>1, <1>2

LEMMA TypeContinue == TypeInv /\ StepContinue => TypeInv'
<1> SUFFICES ASSUME TypeInv, StepContinue PROVE TypeInv'
  OBVIOUS
<1> USE SizeFacts DEF TypeInv, Idle
<1>1. cmd_pos < cmd_len /\ reply_len < BRIDGE_BUF_SIZE /\ cmd_len <= BRIDGE_BUF_SIZE
  BY LoopGoesOn DEF StepContinue, Typed, TypedQueue, TypedDevice
<1>2. /\ state = "exec" /\ stepping /\ connected /\ arg0 >= 1 /\ cmd \in {"ECHO", "TX", "RX", "TXRX"}
      /\ UNCHANGED <<mode, cmd, arg_len, cmd_len, pending_in, pending_out, stepping, connected, enabled,
                     in_req, out_req, chan, bus, uart_len, rxc, rxc_en, tcc, tcc_en, sense, eic_flag, eic_en>>
  BY DEF StepContinue, Parser, Connection, bridgeVars, uartVars, pinVars
<1>3. /\ arg0 \in Nat /\ cmd_pos \in Nat /\ reply_len \in Nat /\ cmd_len \in Nat
      /\ Remaining \in Nat /\ Room \in Nat /\ Remaining > 0 /\ Room > 0
  BY <1>1 DEF Typed, TypedQueue, TypedDevice, Remaining, Room
<1>4. /\ port_tx_len \in Nat /\ port_tx_len <= arg0 /\ port_tx_len <= Remaining
      /\ port_rx_len \in Nat /\ port_rx_len <= arg0 /\ port_rx_len <= Room
      /\ port_txrx_len \in Nat /\ port_txrx_len <= arg0 /\ port_txrx_len <= Remaining /\ port_txrx_len <= Room
  BY <1>3 DEF port_tx_len, port_rx_len, port_txrx_len, MinOf
<1>5. nvic' \in SUBSET {"sercom", "tcc", "eic"}
  BY NvicType DEF StepContinue
<1>6. CASE ContinueEcho
  <2>1. /\ reply_len' \in 0..BRIDGE_BUF_SIZE /\ cmd_pos' \in 0..BRIDGE_BUF_SIZE /\ arg0' \in 0..BRIDGE_BUF_SIZE
        /\ cmd_pos' <= cmd_len
    <3>1. port_txrx_len <= cmd_len - cmd_pos /\ port_txrx_len <= BRIDGE_BUF_SIZE - reply_len
      BY <1>4 DEF Remaining, Room
    <3>2. arg0 <= BRIDGE_BUF_SIZE
      BY DEF Typed, TypedQueue, TypedDevice
    <3> QED BY <1>1, <1>3, <1>4, <1>6, <3>1, <3>2 DEF ContinueEcho
  <2>2. state' \in {"read_cmd", "exec"} /\ (state' = "exec" => arg0' >= 1)
    BY <1>3, <1>4, <1>6 DEF ContinueEcho
  <2>3. Typed'
    BY <1>2, <1>5, <1>6, <2>1, <2>2 DEF ContinueEcho, Typed, TypedQueue, TypedDevice, dmaVars
  <2> QED BY <1>2, <2>1, <2>2, <2>3 DEF Parser, Connection
<1>7. CASE ContinueDma
  <2>1. /\ reply_len' \in 0..BRIDGE_BUF_SIZE /\ cmd_pos' \in 0..BRIDGE_BUF_SIZE /\ arg0' \in 0..BRIDGE_BUF_SIZE
        /\ cmd_pos' <= cmd_len /\ tx_left' \in 0..BRIDGE_BUF_SIZE
    <3>1. /\ port_txrx_len <= cmd_len - cmd_pos /\ port_txrx_len <= BRIDGE_BUF_SIZE - reply_len
          /\ port_tx_len <= cmd_len - cmd_pos /\ port_rx_len <= BRIDGE_BUF_SIZE - reply_len
      BY <1>4 DEF Remaining, Room
    <3>2. arg0 <= BRIDGE_BUF_SIZE
      BY DEF Typed, TypedQueue, TypedDevice
    <3> QED BY <1>1, <1>3, <1>4, <1>7, <3>1, <3>2 DEF ContinueDma
  <2>2. /\ tx_src' \in {"none", "dummy", "cmd_buf"} /\ rx_dst' \in {"none", "dummy", "reply_buf"}
        /\ state' = "exec_async" /\ cmd \in {"TX", "RX", "TXRX"} /\ UNCHANGED <<dma_int, dma_done, i2c>>
    BY <1>7 DEF ContinueDma, Typed, TypedQueue, TypedDevice
  <2>3. Typed'
    BY <1>2, <1>5, <2>1, <2>2 DEF Typed, TypedQueue, TypedDevice
  <2> QED BY <1>2, <2>1, <2>2, <2>3 DEF Parser, Connection
<1>8. CASE ContinueI2c
  <2>1. /\ reply_len' \in 0..BRIDGE_BUF_SIZE /\ cmd_pos' \in 0..BRIDGE_BUF_SIZE /\ arg0' \in 0..BRIDGE_BUF_SIZE
        /\ cmd_pos' <= cmd_len
    BY <1>1, <1>2, <1>3, <1>8 DEF ContinueI2c, Typed, TypedQueue, TypedDevice
  <2>2. state' = "exec_async" /\ cmd \in {"TX", "RX"} /\ i2c' = "busy" /\ UNCHANGED dmaVars
    BY <1>8 DEF ContinueI2c
  <2>3. Typed'
    BY <1>2, <1>5, <2>1, <2>2 DEF Typed, TypedQueue, TypedDevice, dmaVars
  <2> QED BY <1>2, <2>1, <2>2, <2>3 DEF Parser, Connection
<1> QED BY <1>6, <1>7, <1>8 DEF StepContinue

\* The loop of port_step is started in state s, or not.
LEMMA TypeOfStep ==
    ASSUME Typed, NEW s, port_step(s) \/ NoStep
    PROVE  /\ state' \in {s, state} /\ stepping' \in BOOLEAN
           /\ stepping' => state' = s \/ (stepping /\ state' = state)
           /\ eic_en' \in BOOLEAN /\ tcc_en' \in BOOLEAN
<1>1. stepping \in BOOLEAN /\ eic_en \in BOOLEAN /\ tcc_en \in BOOLEAN
  BY DEF Typed, TypedQueue, TypedDevice
<1>2. CASE port_step(s)
  BY <1>1, <1>2 DEF port_step
<1>3. CASE NoStep
  BY <1>1, <1>3 DEF NoStep
<1> QED BY <1>2, <1>3

LEMMA TypeOpenClose == TypeInv /\ (port_enable \/ port_disable) => TypeInv'
<1> SUFFICES ASSUME TypeInv, port_enable \/ port_disable PROVE TypeInv'
  OBVIOUS
<1> USE SizeFacts DEF TypeInv, Idle
<1>1. CASE port_enable
  <2>1. /\ connected' \in BOOLEAN /\ out_req' \in BOOLEAN /\ pending_in' \in BOOLEAN /\ pending_out' \in BOOLEAN
        /\ cmd_len' = 0 /\ cmd_pos' = 0 /\ reply_len' = 0
    BY <1>1 DEF port_enable
  <2>2. Typed'
    BY <1>1, <2>1 DEF port_enable, Typed, TypedQueue, TypedDevice, parserVars, dmaVars, i2cVars, uartVars, pinVars
  <2> QED BY <1>1, <2>2 DEF port_enable, Parser, Connection
<1>2. CASE port_disable
  <2>1. /\ connected' \in BOOLEAN /\ enabled' \in BOOLEAN /\ rxc' \in BOOLEAN /\ rxc_en' \in BOOLEAN
        /\ eic_en' \in BOOLEAN /\ tcc_en' \in BOOLEAN /\ eic_flag' \in SUBSET Pins
        /\ sense' \in [Pins -> {"none", "edge", "level"}]
    BY <1>2 DEF port_disable, CloseExceptDma
  <2>2. nvic' \in SUBSET {"sercom", "tcc", "eic"}
    BY <1>2, NvicType DEF port_disable, CloseExceptDma
  <2>3. /\ state' = "disable" /\ i2c' = "none" /\ bus' = "idle"
        /\ tx_src' = "none" /\ rx_dst' = "none" /\ tx_left' = 0
        /\ UNCHANGED <<mode, cmd, arg0, arg_len, cmd_len, cmd_pos, reply_len, pending_in, pending_out,
                       stepping, in_req, out_req, chan, dma_int, dma_done, uart_len, tcc>>
    BY <1>2 DEF port_disable, CloseExceptDma, parserVars, queueVars
  <2>4. Typed'
    BY <2>1, <2>2, <2>3 DEF Typed, TypedQueue, TypedDevice
  <2> QED BY <1>2, <2>3, <2>4 DEF port_disable, CloseExceptDma, Parser, Connection
<1> QED BY <1>1, <1>2

\* What the interrupts of the bridge leave alone.
LEMMA BridgeKeeps ==
    ASSUME NEW n, port_bridge_out_completion(n) \/ port_bridge_in_completion
    PROVE  /\ UNCHANGED <<mode, cmd, arg0, arg_len, connected, enabled, chan>>
           /\ UNCHANGED <<tx_src, rx_dst, tx_left, dma_int, dma_done, i2c, bus>>
           /\ UNCHANGED <<uart_len, rxc, rxc_en, tcc, sense, eic_flag>>
           /\ state' = state /\ connected /\ ~stepping /\ stepping' /\ Latch({}) /\ NoneLate
           /\ eic_en' = FALSE /\ tcc_en' = (tcc_en /\ mode # "uart")
<1>1. CASE port_bridge_out_completion(n)
  BY <1>1 DEF port_bridge_out_completion, parserVars, dmaVars, i2cVars, uartVars, pinVars, port_step
<1>2. CASE port_bridge_in_completion
  BY <1>2 DEF port_bridge_in_completion, InCompletionExceptPending, parserVars, dmaVars, i2cVars, uartVars,
     pinVars, port_step
<1> QED BY <1>1, <1>2

LEMMA TypeBridgeOut ==
    ASSUME TypeInv, NEW n \in 1..BRIDGE_BUF_SIZE, port_bridge_out_completion(n)
    PROVE  TypeInv'
<1> USE SizeFacts DEF TypeInv
<1>1. stepping' \in BOOLEAN /\ eic_en' \in BOOLEAN /\ tcc_en' \in BOOLEAN
  BY TypeOfStep DEF port_bridge_out_completion
<1>2. nvic' \in SUBSET {"sercom", "tcc", "eic"}
  BY NvicType DEF port_bridge_out_completion
<1>3. /\ out_req' = FALSE /\ pending_out' = FALSE /\ UNCHANGED <<reply_len, pending_in, in_req>>
      /\ cmd_len' \in 0..BRIDGE_BUF_SIZE /\ cmd_pos' \in 0..BRIDGE_BUF_SIZE /\ cmd_pos' <= cmd_len'
  BY DEF port_bridge_out_completion
<1>4. TypedQueue' /\ TypedDevice'
  <2>1. /\ UNCHANGED <<state, mode, cmd, arg0, arg_len, connected, enabled, chan>>
        /\ UNCHANGED <<tx_src, rx_dst, tx_left, dma_int, dma_done, i2c, bus>>
        /\ UNCHANGED <<uart_len, rxc, rxc_en, tcc, sense, eic_flag>>
    BY BridgeKeeps
  <2>2. TypedQueue'
    BY <1>1, <1>3, <2>1 DEF Typed, TypedQueue
  <2>3. TypedDevice'
    BY <1>1, <1>2, <2>1 DEF Typed, TypedDevice
  <2> QED BY <2>2, <2>3
<1> QED BY <1>3, <1>4, BridgeKeeps DEF Typed, Parser, Connection

LEMMA TypeBridgeIn == TypeInv /\ port_bridge_in_completion => TypeInv'
<1> SUFFICES ASSUME TypeInv, port_bridge_in_completion PROVE TypeInv'
  OBVIOUS
<1> USE SizeFacts DEF TypeInv
<1>1. stepping' \in BOOLEAN /\ eic_en' \in BOOLEAN /\ tcc_en' \in BOOLEAN
  BY TypeOfStep DEF port_bridge_in_completion, InCompletionExceptPending
<1>2. nvic' \in SUBSET {"sercom", "tcc", "eic"}
  BY NvicType DEF port_bridge_in_completion, InCompletionExceptPending
<1>3. /\ in_req' \in 0..BRIDGE_BUF_SIZE /\ pending_in' = FALSE /\ reply_len' \in 0..BRIDGE_BUF_SIZE
      /\ UNCHANGED <<cmd_len, cmd_pos, pending_out, out_req>>
  BY DEF port_bridge_in_completion, InCompletionExceptPending
<1>4. TypedQueue' /\ TypedDevice'
  <2>1. /\ UNCHANGED <<state, mode, cmd, arg0, arg_len, connected, enabled, chan>>
        /\ UNCHANGED <<tx_src, rx_dst, tx_left, dma_int, dma_done, i2c, bus>>
        /\ UNCHANGED <<uart_len, rxc, rxc_en, tcc, sense, eic_flag>>
    BY BridgeKeeps
  <2>2. TypedQueue'
    BY <1>1, <1>3, <2>1 DEF Typed, TypedQueue
  <2>3. TypedDevice'
    BY <1>1, <1>2, <2>1 DEF Typed, TypedDevice
  <2> QED BY <2>2, <2>3
<1> QED BY <1>3, <1>4, BridgeKeeps DEF Typed, Parser, Connection

\* What the interrupt handlers have in common: they only start the loop for a port that is
\* connected, in the state it is in or in the one that follows a transfer.
LEMMA TypeOfHandler ==
    ASSUME TypeInv,
           \/ NoStep \/ (state # "disable" /\ port_step(state))
           \/ state = "exec_async" /\ port_step(IF arg0 = 0 THEN Idle ELSE "exec"),
           port_error \/ UNCHANGED bridgeVars,
           Latch({"sercom"}) \/ Latch({"tcc"}) \/ Latch({"eic"}) \/ Latch({}),
           reply_len' \in 0..BRIDGE_BUF_SIZE, uart_len' \in 0..UART_RX_SIZE,
           tcc' \in SUBSET {"runs", "ovf"}, rxc' \in BOOLEAN, i2c' \in {"none", "busy", "flag"},
           dma_done' \in SUBSET {"tx", "rx"}, eic_flag' \in SUBSET Pins,
           sense' \in [Pins -> {"none", "edge", "level"}],
           UNCHANGED <<mode, cmd, arg0, arg_len, cmd_len, cmd_pos, pending_in, pending_out,
                       tx_src, rx_dst, tx_left, dma_int, bus, rxc_en>>
    PROVE  TypeInv'
<1> USE SizeFacts DEF TypeInv
<1>1. /\ connected' = connected /\ enabled' \in BOOLEAN /\ out_req' \in BOOLEAN
      /\ in_req' \in 0..BRIDGE_BUF_SIZE /\ chan' = chan
  BY TypeError
<1>2. nvic' \in SUBSET {"sercom", "tcc", "eic"}
  BY NvicType
<1>3. stepping' \in BOOLEAN /\ eic_en' \in BOOLEAN /\ tcc_en' \in BOOLEAN
  BY TypeOfStep
<1>4. /\ \/ state' = state
         \/ state = "exec_async" /\ state' = IF arg0 = 0 THEN "read_cmd" ELSE "exec"
      /\ stepping' => stepping \/ state # "disable"
  BY DEF port_step, NoStep, Idle
<1>5. Typed'
  BY <1>1, <1>2, <1>3, <1>4 DEF Typed, TypedQueue, TypedDevice
<1>6. Connection'
  BY <1>1, <1>4 DEF Connection
<1>7. Parser'
  <2>1. CASE state' = state
    BY <2>1 DEF Parser
  <2>2. CASE state = "exec_async" /\ arg0 = 0 /\ state' = "read_cmd"
    BY <2>2 DEF Parser
  <2>3. CASE state = "exec_async" /\ arg0 # 0 /\ state' = "exec"
    BY <2>3 DEF Parser, Typed, TypedQueue, TypedDevice
  <2> QED BY <1>4, <2>1, <2>2, <2>3
<1> QED BY <1>5, <1>6, <1>7

LEMMA TypeDma == ASSUME TypeInv, NEW d \in {"tx", "rx"}, port_dma_completion(d) PROVE TypeInv'
<1>1. dma_done' \in SUBSET {"tx", "rx"}
  BY DEF port_dma_completion, TypeInv, Typed, TypedQueue, TypedDevice
<1>2. /\ \/ NoStep
         \/ state = "exec_async" /\ port_step(IF arg0 = 0 THEN Idle ELSE "exec")
      /\ port_error \/ UNCHANGED bridgeVars
  BY DEF port_dma_completion, Resume
<1>3. /\ UNCHANGED <<mode, cmd, arg0, arg_len, cmd_len, cmd_pos, pending_in, pending_out,
                     tx_src, rx_dst, tx_left, dma_int, bus, rxc_en>>
      /\ UNCHANGED <<reply_len, uart_len, tcc, rxc, i2c, eic_flag, sense>>
      /\ Latch({})
  BY DEF port_dma_completion, parserVars, queueVars, i2cVars, uartVars, pinVars
<1>4. /\ reply_len' \in 0..BRIDGE_BUF_SIZE /\ uart_len' \in 0..UART_RX_SIZE
      /\ tcc' \in SUBSET {"runs", "ovf"} /\ rxc' \in BOOLEAN /\ i2c' \in {"none", "busy", "flag"}
      /\ eic_flag' \in SUBSET Pins /\ sense' \in [Pins -> {"none", "edge", "level"}]
  BY <1>3 DEF TypeInv, Typed, TypedQueue, TypedDevice
<1> QED BY <1>1, <1>2, <1>3, <1>4, TypeOfHandler

\* uart_send_data writes only what there is room for.
LEMMA TypeSend ==
    ASSUME TypeInv, NEW len \in 0..UART_RX_SIZE, uart_send_data(len)
    PROVE  /\ reply_len' \in 0..BRIDGE_BUF_SIZE /\ uart_len' \in 0..UART_RX_SIZE
           /\ NoStep \/ (state # "disable" /\ port_step(state))
           /\ port_error \/ UNCHANGED bridgeVars
<1> USE SizeFacts DEF TypeInv
<1>1. CASE len = 0 /\ SendNothing
  BY <1>1 DEF SendNothing, Typed, TypedQueue, TypedDevice
<1>2. CASE len # 0 /\ len + 2 <= Room /\ Send(len)
  BY <1>2 DEF Send, Room, Typed, TypedQueue, TypedDevice
<1>3. CASE len + 2 > Room /\ len # 0 /\ uart_len' = len /\ NoStep /\ port_error /\ UNCHANGED reply_len
  BY <1>3 DEF Typed, TypedQueue, TypedDevice
<1> QED BY <1>1, <1>2, <1>3 DEF uart_send_data

LEMMA TypeTcc == TypeInv /\ TccHandler => TypeInv'
<1> SUFFICES ASSUME TypeInv, TccHandler PROVE TypeInv'
  OBVIOUS
<1>1. uart_len \in 0..UART_RX_SIZE /\ uart_send_data(uart_len)
  BY DEF TccHandler, TypeInv, Typed, TypedQueue, TypedDevice
<1>2. /\ UNCHANGED <<mode, cmd, arg0, arg_len, cmd_len, cmd_pos, pending_in, pending_out,
                     tx_src, rx_dst, tx_left, dma_int, bus, rxc_en>>
      /\ UNCHANGED <<dma_done, rxc, i2c, eic_flag, sense>>
      /\ Latch({"tcc"}) /\ tcc' = tcc \ {"ovf"}
  BY DEF TccHandler, parserVars, dmaVars, i2cVars, pinVars
<1>3. /\ tcc' \in SUBSET {"runs", "ovf"} /\ rxc' \in BOOLEAN /\ i2c' \in {"none", "busy", "flag"}
      /\ dma_done' \in SUBSET {"tx", "rx"}
      /\ eic_flag' \in SUBSET Pins /\ sense' \in [Pins -> {"none", "edge", "level"}]
  BY <1>2 DEF TypeInv, Typed, TypedQueue, TypedDevice
<1> QED BY <1>1, <1>2, <1>3, TypeSend, TypeOfHandler

LEMMA TypeSercomUart == TypeInv /\ SercomUart => TypeInv'
<1> SUFFICES ASSUME TypeInv, SercomUart PROVE TypeInv'
  OBVIOUS
<1> USE SizeFacts
<1> DEFINE len == MinOf(uart_len + 1, UART_RX_SIZE)
<1>1. len \in 0..UART_RX_SIZE
  BY DEF MinOf, TypeInv, Typed, TypedQueue, TypedDevice
<1>2. /\ UNCHANGED <<mode, cmd, arg0, arg_len, cmd_len, cmd_pos, pending_in, pending_out,
                     tx_src, rx_dst, tx_left, dma_int, bus, rxc_en>>
      /\ UNCHANGED <<dma_done, i2c, eic_flag, sense>>
      /\ Latch({"sercom"}) /\ rxc' = FALSE
  BY DEF SercomUart, parserVars, dmaVars, i2cVars, pinVars
<1>3. \/ uart_send_data(len) /\ tcc' = tcc \cup {"runs"}
      \/ uart_len' = len /\ NoStep /\ UNCHANGED <<reply_len, bridgeVars>> /\ tcc' = tcc \cup {"runs"}
      \/ UNCHANGED <<tcc, uart_len, reply_len, bridgeVars>> /\ NoStep
  BY DEF SercomUart
<1>4. /\ reply_len' \in 0..BRIDGE_BUF_SIZE /\ uart_len' \in 0..UART_RX_SIZE
      /\ NoStep \/ (state # "disable" /\ port_step(state))
      /\ port_error \/ UNCHANGED bridgeVars
  BY <1>1, <1>3, TypeSend DEF TypeInv, Typed, TypedQueue, TypedDevice
<1>5. tcc' \in SUBSET {"runs", "ovf"}
  BY <1>3 DEF TypeInv, Typed, TypedQueue, TypedDevice
<1>6. /\ rxc' \in BOOLEAN /\ i2c' \in {"none", "busy", "flag"} /\ dma_done' \in SUBSET {"tx", "rx"}
      /\ eic_flag' \in SUBSET Pins /\ sense' \in [Pins -> {"none", "edge", "level"}]
  BY <1>2 DEF TypeInv, Typed, TypedQueue, TypedDevice
<1> QED BY <1>2, <1>4, <1>5, <1>6, TypeOfHandler

LEMMA TypeSercom == TypeInv /\ (SercomI2c \/ SercomError) => TypeInv'
<1> SUFFICES ASSUME TypeInv, SercomI2c \/ SercomError PROVE TypeInv'
  OBVIOUS
<1>1. /\ UNCHANGED <<mode, cmd, arg0, arg_len, cmd_len, cmd_pos, pending_in, pending_out,
                     tx_src, rx_dst, tx_left, dma_int, bus, rxc_en>>
      /\ UNCHANGED <<reply_len, uart_len, tcc, rxc, dma_done, eic_flag, sense>>
      /\ Latch({"sercom"}) /\ i2c' \in {"none", i2c}
  BY DEF SercomI2c, SercomError, parserVars, queueVars, dmaVars, i2cVars, uartVars, pinVars
<1>2. /\ \/ NoStep
         \/ state = "exec_async" /\ port_step(IF arg0 = 0 THEN Idle ELSE "exec")
      /\ port_error \/ UNCHANGED bridgeVars
  BY DEF SercomI2c, SercomError, Resume
<1>3. /\ reply_len' \in 0..BRIDGE_BUF_SIZE /\ uart_len' \in 0..UART_RX_SIZE
      /\ tcc' \in SUBSET {"runs", "ovf"} /\ rxc' \in BOOLEAN /\ i2c' \in {"none", "busy", "flag"}
      /\ dma_done' \in SUBSET {"tx", "rx"}
      /\ eic_flag' \in SUBSET Pins /\ sense' \in [Pins -> {"none", "edge", "level"}]
  BY <1>1 DEF TypeInv, Typed, TypedQueue, TypedDevice
<1> QED BY <1>1, <1>2, <1>3, TypeOfHandler

LEMMA TypePin == TypeInv /\ port_handle_extint => TypeInv'
<1> SUFFICES ASSUME TypeInv, port_handle_extint PROVE TypeInv'
  OBVIOUS
<1> USE SizeFacts
<1>1. /\ UNCHANGED <<mode, cmd, arg0, arg_len, cmd_len, cmd_pos, pending_in, pending_out,
                     tx_src, rx_dst, tx_left, dma_int, bus, rxc_en>>
      /\ UNCHANGED <<uart_len, tcc, rxc, i2c, dma_done>>
      /\ Latch({"eic"})
  BY DEF port_handle_extint, parserVars, dmaVars, i2cVars, uartVars
<1>2. /\ NoStep \/ (state # "disable" /\ port_step(state))
      /\ port_error \/ UNCHANGED bridgeVars
  BY DEF port_handle_extint, port_send_status, Check, Idle
<1>3. reply_len' \in 0..BRIDGE_BUF_SIZE
  <2>1. Cardinality(eic_flag) \in Nat
    BY PinCount DEF TypeInv, Typed, TypedQueue, TypedDevice
  <2>2. reply_len' \in {reply_len, MinOf(reply_len + Cardinality(eic_flag), BRIDGE_BUF_SIZE)}
    BY DEF port_handle_extint, port_send_status
  <2> QED BY <2>1, <2>2 DEF MinOf, TypeInv, Typed, TypedQueue, TypedDevice
<1>4. eic_flag' \in SUBSET Pins /\ sense' \in [Pins -> {"none", "edge", "level"}]
  BY DEF port_handle_extint, TypeInv, Typed, TypedQueue, TypedDevice
<1>5. /\ uart_len' \in 0..UART_RX_SIZE /\ tcc' \in SUBSET {"runs", "ovf"} /\ rxc' \in BOOLEAN
      /\ i2c' \in {"none", "busy", "flag"} /\ dma_done' \in SUBSET {"tx", "rx"}
  BY <1>1 DEF TypeInv, Typed, TypedQueue, TypedDevice
<1> QED BY <1>1, <1>2, <1>3, <1>4, <1>5, TypeOfHandler

LEMMA TypeHardware == TypeInv /\ Hardware => TypeInv'
<1> SUFFICES ASSUME TypeInv, Hardware PROVE TypeInv'
  OBVIOUS
<1> USE SizeFacts
<1>1. UNCHANGED restOfPort
  BY DEF Hardware, DmaTxDone, DmaRxDone, I2cDone, UartByte, TccOver, PinChange
<1>2. Latch({}) \/ UNCHANGED nvic
  BY DEF Hardware, DmaTxDone, DmaRxDone, I2cDone, UartByte, TccOver, PinChange
<1>3. /\ dma_done' \in SUBSET {"tx", "rx"} /\ tcc' \in SUBSET {"runs", "ovf"} /\ eic_flag' \in SUBSET Pins
      /\ i2c' \in {"none", "busy", "flag"}
  BY DEF Hardware, DmaTxDone, DmaRxDone, I2cDone, UartByte, TccOver, PinChange, TypeInv, Typed, TypedQueue, TypedDevice
<1>4. tx_left' \in 0..BRIDGE_BUF_SIZE
  BY DEF Hardware, DmaTxDone, DmaRxDone, I2cDone, UartByte, TccOver, PinChange, TypeInv, Typed, TypedQueue, TypedDevice
<1>5. rxc' \in BOOLEAN /\ tx_src' \in {"none", "dummy", "cmd_buf"} /\ rx_dst' \in {"none", "dummy", "reply_buf"}
  BY DEF Hardware, DmaTxDone, DmaRxDone, I2cDone, UartByte, TccOver, PinChange, TypeInv, Typed, TypedQueue, TypedDevice
<1>6. nvic' \in SUBSET {"sercom", "tcc", "eic"}
  BY <1>2, NvicType DEF TypeInv
<1>7. Typed'
  BY <1>1, <1>3, <1>4, <1>5, <1>6 DEF TypeInv, Typed, TypedQueue, TypedDevice, restOfPort, parserVars, queueVars, bridgeVars
<1>8. Parser' /\ Connection'
  BY <1>1 DEF TypeInv, Parser, Connection, restOfPort, parserVars, queueVars, bridgeVars
<1> QED BY <1>7, <1>8 DEF TypeInv

LEMMA TypeStep == TypeInv /\ [Next]_vars => TypeInv'
<1> SUFFICES ASSUME TypeInv, [Next]_vars PROVE TypeInv'
  OBVIOUS
<1>1. CASE UNCHANGED vars
  <2>1. /\ UNCHANGED <<state, mode, cmd, arg0, arg_len, cmd_len, cmd_pos, reply_len, pending_in, pending_out>>
        /\ UNCHANGED <<stepping, connected, enabled, in_req, out_req, chan, tx_src, rx_dst, tx_left, dma_int, dma_done>>
        /\ UNCHANGED <<i2c, bus, uart_len, rxc, rxc_en, tcc, tcc_en, sense, eic_flag, eic_en, nvic>>
    BY <1>1 DEF vars, parserVars, queueVars, bridgeVars, dmaVars, i2cVars, uartVars, pinVars
  <2>2. TypedQueue'
    BY <2>1 DEF TypeInv, Typed, TypedQueue
  <2>3. TypedDevice'
    BY <2>1 DEF TypeInv, Typed, TypedDevice
  <2> QED BY <2>1, <2>2, <2>3 DEF TypeInv, Typed, Parser, Connection
<1>2. CASE Step
  BY <1>2, TypeWait, TypeContinue, TypeCmd, TypeArg DEF Step
<1>3. CASE Handler
  BY <1>3, TypeOpenClose, TypeBridgeOut, TypeBridgeIn, TypeDma, TypeTcc, TypeSercomUart, TypeSercom, TypePin DEF Handler
<1> QED BY <1>1, <1>2, <1>3, TypeHardware DEF Next

\* Every step keeps the types of the port's state, in any order of interrupts: lengths and
\* positions stay within the buffers.  What ANALOG_READ writes beyond reply_buf is chan, which
\* then has one value or another (port.c:417-421, firmware.h:124-130).
THEOREM TypeCorrect == Spec => []TypeOK
<1>1. TypeInv => TypeOK
  BY Flat DEF TypeInv
<1> QED BY TypeInit, TypeStep, <1>1, PTL DEF Spec

---------------------------------------------------------------------------
(* A closed port.                                                          *)

\* The loop of port_step runs for a connected port, and leaves it connected.
LEMMA StepConnected == TypeInv /\ Step => stepping /\ connected /\ connected'
<1> SUFFICES ASSUME TypeInv, Step PROVE stepping /\ connected /\ connected'
  OBVIOUS
<1>1. stepping
  BY DEF Step, StepWait, StepAsync, StepContinue, StepCmd, StepArg
<1>2. connected
  BY <1>1 DEF TypeInv, Connection
<1>3. TypeInv'
  BY TypeStep DEF Next
<1>4. CASE StepWait \/ StepAsync \/ StepContinue
  BY <1>2, <1>4 DEF StepWait, StepAsync, StepContinue, bridgeVars
<1>5. CASE (\E c \in Cmds : StepCmd(c)) \/ (\E a \in 0..BRIDGE_BUF_SIZE : StepArg(a))
  <2>1. stepping'
    BY <1>1, <1>5 DEF StepCmd, StepArg, restOfStep
  <2>2. stepping' => connected'
    BY <1>3 DEF TypeInv, Connection
  <2> QED BY <1>1, <1>2, <2>1, <2>2
<1> QED BY <1>1, <1>2, <1>4, <1>5 DEF Step

\* The interrupt handlers of a port leave its DMA and its connection alone, and its I2C
\* operation or end it.
LEMMA HandlerKeeps ==
    ASSUME \/ \E d \in {"tx", "rx"} : port_dma_completion(d)
           \/ TccHandler \/ SercomUart \/ SercomI2c \/ SercomError \/ port_handle_extint
    PROVE  /\ connected' = connected /\ i2c' \in {"none", i2c}
           /\ UNCHANGED <<mode, cmd, arg0, cmd_len, cmd_pos, pending_in, pending_out>>
           /\ UNCHANGED <<tx_src, rx_dst, tx_left, dma_int, bus, rxc_en>>
<1>1. ASSUME NEW d, port_dma_completion(d)
      PROVE  /\ connected' = connected /\ i2c' \in {"none", i2c}
             /\ UNCHANGED <<mode, cmd, arg0, cmd_len, cmd_pos, pending_in, pending_out>>
             /\ UNCHANGED <<tx_src, rx_dst, tx_left, dma_int, bus, rxc_en>>
  BY <1>1 DEF port_dma_completion, Resume, port_error, bridgeVars, parserVars, queueVars, i2cVars, uartVars
<1>2. CASE TccHandler
  BY <1>2 DEF TccHandler, uart_send_data, Send, SendNothing, port_error, bridgeVars, parserVars, dmaVars, i2cVars
<1>3. CASE SercomUart
  BY <1>3 DEF SercomUart, uart_send_data, Send, SendNothing, port_error, bridgeVars, parserVars, dmaVars, i2cVars
<1>4. CASE SercomI2c
  BY <1>4 DEF SercomI2c, Resume, port_error, bridgeVars, parserVars, queueVars, dmaVars, uartVars
<1>5. CASE SercomError
  BY <1>5 DEF SercomError, port_error, bridgeVars, parserVars, queueVars, dmaVars, i2cVars, uartVars
<1>6. CASE port_handle_extint
  BY <1>6 DEF port_handle_extint, port_send_status, Check, port_error, bridgeVars, parserVars, dmaVars, i2cVars,
     uartVars
<1> QED BY <1>1, <1>2, <1>3, <1>4, <1>5, <1>6

\* The hardware does not touch what the software keeps.
LEMMA HardwareKeeps == Hardware => UNCHANGED restOfPort
BY DEF Hardware, DmaTxDone, DmaRxDone, I2cDone, UartByte, TccOver, PinChange

LEMMA RestsStep == TypeInv /\ ClosedPortRests /\ [Next]_vars => ClosedPortRests'
<1> SUFFICES ASSUME TypeInv, ClosedPortRests, [Next]_vars PROVE ClosedPortRests'
  OBVIOUS
<1> USE DEF ClosedPortRests
<1>1. CASE Step
  BY <1>1, StepConnected
<1>2. CASE port_enable \/ port_disable
  BY <1>2 DEF port_enable, port_disable, CloseExceptDma
<1>3. CASE (\E n \in 1..BRIDGE_BUF_SIZE : port_bridge_out_completion(n)) \/ port_bridge_in_completion
  BY <1>3 DEF port_bridge_out_completion, port_bridge_in_completion, InCompletionExceptPending
<1>4. CASE \/ \E d \in {"tx", "rx"} : port_dma_completion(d)
           \/ TccHandler \/ SercomUart \/ SercomI2c \/ SercomError \/ port_handle_extint
  BY <1>4, HandlerKeeps
<1>5. CASE Hardware
  <2>1. connected' = connected
    BY <1>5, HardwareKeeps DEF restOfPort, bridgeVars
  <2>2. tx_src' \in {"none", tx_src} /\ rx_dst' \in {"none", rx_dst} /\ i2c' \in {"flag", i2c}
    BY <1>5 DEF Hardware, DmaTxDone, DmaRxDone, I2cDone, UartByte, TccOver, PinChange
  <2> QED BY <2>1, <2>2
<1>6. CASE UNCHANGED vars
  BY <1>6 DEF vars, bridgeVars, dmaVars, i2cVars
<1> QED BY <1>1, <1>2, <1>3, <1>4, <1>5, <1>6 DEF Next, Handler

\* A port that is closed neither reads nor writes its buffers, whatever interrupt comes
\* late and whatever error came before.
THEOREM ClosedRests == Spec => []ClosedPortRests
<1>1. Init => ClosedPortRests
  BY DEF Init, ClosedPortRests
<1> QED BY <1>1, TypeInit, TypeStep, RestsStep, PTL DEF Spec

---------------------------------------------------------------------------
(* The DMA and the bridge share the buffers.                               *)

\* No interrupt outlives the handler that disables it.
Punctual == "late" \notin Races
\* The SoC fetches the last reply before it closes the connection.
FetchedFirst == "busy_close" \notin Races

\* What the bridge holds, the port knows of; nothing is held over a connection's end but
\* the command buffer.
Held ==
    /\ out_req => pending_out
    /\ in_req # 0 => pending_in /\ connected

LEMMA HeldStep == FetchedFirst /\ TypeInv /\ Held /\ [Next]_vars => Held'
<1> SUFFICES ASSUME FetchedFirst, TypeInv, Held, [Next]_vars PROVE Held'
  OBVIOUS
<1> USE DEF Held
<1>1. CASE StepWait
  BY <1>1, StepConnected DEF StepWait, Step
<1>2. CASE StepAsync \/ StepContinue \/ Hardware \/ UNCHANGED vars
  <2>1. CASE Hardware
    BY <2>1, HardwareKeeps DEF restOfPort, bridgeVars, queueVars
  <2> QED BY <1>2, <2>1 DEF StepAsync, StepContinue, vars, bridgeVars, queueVars
<1>3. CASE (\E c \in Cmds : StepCmd(c)) \/ (\E a \in 0..BRIDGE_BUF_SIZE : StepArg(a))
  <2>1. UNCHANGED <<pending_in, pending_out>>
    BY <1>3 DEF StepCmd, StepArg, restOfStep
  <2>2. UNCHANGED <<connected, in_req, out_req>> \/ port_error
    BY <1>3 DEF StepCmd, StepArg, port_begin_cmd, BeginDone, BeginInt, BeginReply, BeginAnalogRead, BeginTx,
       BeginStart, BeginStop, BeginSpi, BeginI2c, BeginUart, BeginUartOff, port_send_status, Check, bridgeVars
  <2> QED BY <2>1, <2>2, ErrorTakes DEF TypeInv
<1>4. CASE port_enable \/ port_disable
  <2>1. CASE port_enable
    BY <2>1 DEF port_enable
  <2>2. CASE port_disable
    BY <2>2 DEF port_disable, CloseExceptDma, FetchedFirst, queueVars
  <2> QED BY <1>4, <2>1, <2>2
<1>5. CASE (\E n \in 1..BRIDGE_BUF_SIZE : port_bridge_out_completion(n)) \/ port_bridge_in_completion
  BY <1>5 DEF port_bridge_out_completion, port_bridge_in_completion, InCompletionExceptPending
<1>6. CASE \/ \E d \in {"tx", "rx"} : port_dma_completion(d)
           \/ TccHandler \/ SercomUart \/ SercomI2c \/ SercomError \/ port_handle_extint
  <2>1. port_error \/ UNCHANGED bridgeVars
    BY <1>6 DEF port_dma_completion, Resume, TccHandler, SercomUart, SercomI2c, SercomError, port_handle_extint,
       uart_send_data, Send, SendNothing, port_send_status, Check
  <2>2. UNCHANGED <<connected, pending_in, pending_out>>
    BY <1>6, HandlerKeeps
  <2> QED BY <2>1, <2>2, ErrorTakes DEF TypeInv
<1> QED BY <1>1, <1>2, <1>3, <1>4, <1>5, <1>6 DEF Next, Step, Handler

\* A transfer by DMA, and the interrupt at its end, belong to the command that waits for
\* it, on a bus that has DMA.  Only the channel that ends last interrupts.
DmaCommand ==
    /\ tx_src # "none" \/ rx_dst # "none" \/ dma_done # {} =>
         state = "exec_async" /\ mode \in {"spi", "uart"} /\ cmd \in {"TX", "RX", "TXRX"}
    /\ dma_done # {} => tx_src = "none" /\ rx_dst = "none" /\ dma_done \in {{"tx"}, {"rx"}}
    /\ mode = "spi" => dma_int = {"rx"} /\ (tx_src # "none" => rx_dst # "none")
    /\ mode = "uart" => "tx" \in dma_int /\ rx_dst = "none"

\* The command locks the buffers that it reads and writes.
DmaLocks ==
    /\ tx_src = "cmd_buf" => cmd # "RX" /\ ~pending_out
    /\ rx_dst = "reply_buf" => cmd # "TX" /\ ~pending_in

DmaInv == DmaCommand /\ DmaLocks

LEMMA DmaKept ==
    ASSUME DmaInv, UNCHANGED <<state, mode, cmd, tx_src, rx_dst, dma_int, dma_done>>,
           pending_out' => pending_out, pending_in' => pending_in
    PROVE  DmaInv'
BY DEF DmaInv, DmaCommand, DmaLocks

\* Nothing is transferred before and after.
LEMMA DmaAtRest ==
    ASSUME UNCHANGED <<tx_src, rx_dst>>, tx_src = "none", rx_dst = "none", dma_done' = {},
           \/ UNCHANGED <<mode, dma_int>>
           \/ mode' \in {"none", "i2c"}
           \/ mode' = "spi" /\ dma_int' = {"rx"}
           \/ mode' = "uart" /\ "tx" \in dma_int',
           DmaInv
    PROVE  DmaInv'
BY DEF DmaInv, DmaCommand, DmaLocks

LEMMA DmaBegin ==
    ASSUME DmaInv, state \in {Idle, "read_arg"}, NEW c, NEW a, port_begin_cmd(c, a)
    PROVE  DmaInv'
<1>1. tx_src = "none" /\ rx_dst = "none" /\ dma_done = {}
  BY DEF DmaInv, DmaCommand, Idle
<1>2. UNCHANGED <<tx_src, rx_dst>>
  BY DEF port_begin_cmd, BeginDone, BeginInt, BeginReply, BeginAnalogRead, BeginTx, BeginStart, BeginStop, BeginSpi,
     BeginI2c, BeginUart, BeginUartOff, deviceVars, dmaVars
<1>3. dma_done' = {}
  BY <1>1 DEF port_begin_cmd, BeginDone, BeginInt, BeginReply, BeginAnalogRead, BeginTx, BeginStart, BeginStop, BeginSpi,
     BeginI2c, BeginUart, BeginUartOff, deviceVars, dmaVars
<1>4. \/ UNCHANGED <<mode, dma_int>>
      \/ mode' \in {"none", "i2c"}
      \/ mode' = "spi" /\ dma_int' = {"rx"}
      \/ mode' = "uart" /\ "tx" \in dma_int'
  BY DEF port_begin_cmd, BeginDone, BeginInt, BeginReply, BeginAnalogRead, BeginTx, BeginStart, BeginStop, BeginSpi,
     BeginI2c, BeginUart, BeginUartOff, deviceVars, dmaVars
<1> QED BY <1>1, <1>2, <1>3, <1>4, DmaAtRest

\* Only an interrupt that is pending when the port is disabled outlives its command.
LEMMA DmaStep == (Punctual \/ ~port_disable) /\ TypeInv /\ DmaInv /\ [Next]_vars => DmaInv'
<1> SUFFICES ASSUME Punctual \/ ~port_disable, TypeInv, DmaInv, [Next]_vars PROVE DmaInv'
  OBVIOUS
<1>1. CASE StepWait
  <2>1. UNCHANGED <<state, mode, cmd, tx_src, rx_dst, dma_int, dma_done>>
    BY <1>1 DEF StepWait, parserVars, dmaVars
  <2>2. tx_src = "cmd_buf" => ~WantOut
    BY DEF DmaInv, DmaCommand, DmaLocks, WantOut, port_tx_locked
  <2>3. rx_dst = "reply_buf" => ~WantIn
    BY DEF DmaInv, DmaCommand, DmaLocks, WantIn, port_rx_locked
  <2>4. pending_out' = (pending_out \/ WantOut) /\ pending_in' = (pending_in \/ WantIn)
    BY <1>1 DEF StepWait
  <2> QED BY <2>1, <2>2, <2>3, <2>4 DEF DmaInv, DmaCommand, DmaLocks
<1>2. CASE StepAsync \/ UNCHANGED vars
  BY <1>2, DmaKept DEF StepAsync, vars, parserVars, queueVars, dmaVars
<1>3. ASSUME NEW c \in Cmds, StepCmd(c) PROVE DmaInv'
  <2>1. state = Idle
    BY <1>3 DEF StepCmd
  <2>2. CASE port_begin_cmd(c, arg0)
    BY <2>1, <2>2, DmaBegin
  <2>3. CASE UNCHANGED <<mode, deviceVars>>
    BY <2>1, <2>3, DmaAtRest DEF DmaInv, DmaCommand, Idle, deviceVars, dmaVars
  <2> QED BY <1>3, <2>2, <2>3 DEF StepCmd
<1>4. ASSUME NEW a \in 0..BRIDGE_BUF_SIZE, StepArg(a) PROVE DmaInv'
  <2>1. state = "read_arg"
    BY <1>4 DEF StepArg
  <2>2. CASE port_begin_cmd(cmd, a)
    BY <2>1, <2>2, DmaBegin
  <2>3. CASE UNCHANGED <<mode, deviceVars>>
    BY <2>1, <2>3, DmaAtRest DEF DmaInv, DmaCommand, deviceVars, dmaVars
  <2> QED BY <1>4, <2>2, <2>3 DEF StepArg
<1>5. CASE StepContinue
  <2>1. /\ state = "exec" /\ UNCHANGED <<mode, cmd, pending_in, pending_out>>
        /\ tx_src = "none" /\ rx_dst = "none" /\ dma_done = {}
    BY <1>5 DEF StepContinue, DmaInv, DmaCommand
  <2>2. ~pending_in /\ ~pending_out
    BY <1>5, <2>1, LoopGoesOn DEF StepContinue, TypeInv
  <2>3. CASE ContinueEcho \/ ContinueI2c
    BY <2>1, <2>3, DmaAtRest DEF ContinueEcho, ContinueI2c, dmaVars
  <2>4. CASE ContinueDma
    <3>1. /\ cmd \in {"TX", "RX", "TXRX"} /\ mode \in {"spi", "uart"} /\ state' = "exec_async"
          /\ UNCHANGED <<dma_int, dma_done>> /\ (mode = "uart" => cmd = "TX")
      BY <2>4 DEF ContinueDma
    <3>2. /\ tx_src' = IF cmd = "RX" THEN "dummy" ELSE "cmd_buf"
          /\ mode = "uart" => rx_dst' = "none"
          /\ mode = "spi" => rx_dst' = IF cmd = "TX" THEN "dummy" ELSE "reply_buf"
      BY <2>1, <2>4 DEF ContinueDma
    <3> QED BY <2>1, <2>2, <3>1, <3>2 DEF DmaInv, DmaCommand, DmaLocks
  <2> QED BY <1>5, <2>3, <2>4 DEF StepContinue
<1>6. CASE port_enable
  <2>1. tx_src = "none" /\ rx_dst = "none" /\ dma_done = {}
    BY <1>6 DEF port_enable, TypeInv, Connection, DmaInv, DmaCommand
  <2> QED BY <1>6, <2>1, DmaAtRest DEF port_enable, dmaVars
<1>7. CASE port_disable
  <2>1. dma_done = {}
    BY <1>7 DEF port_disable, CloseExceptDma, Punctual
  <2>2. /\ tx_src' = "none" /\ rx_dst' = "none" /\ dma_done' = {} /\ UNCHANGED <<mode, dma_int>>
    BY <1>7, <2>1 DEF port_disable, CloseExceptDma
  <2> QED BY <2>2 DEF DmaInv, DmaCommand, DmaLocks
<1>8. ASSUME NEW n, port_bridge_out_completion(n) \/ port_bridge_in_completion PROVE DmaInv'
  <2>1. (pending_out' => pending_out) /\ (pending_in' => pending_in)
    BY <1>8 DEF port_bridge_out_completion, port_bridge_in_completion, InCompletionExceptPending
  <2> QED BY <1>8, <2>1, BridgeKeeps, DmaKept
<1>9. ASSUME NEW d \in {"tx", "rx"}, port_dma_completion(d) PROVE DmaInv'
  <2>1. d \in dma_done /\ dma_done' = dma_done \ {d}
    BY <1>9 DEF port_dma_completion
  <2>2. tx_src = "none" /\ rx_dst = "none" /\ dma_done' = {}
    BY <2>1 DEF DmaInv, DmaCommand
  <2> QED BY <1>9, <2>2, HandlerKeeps, DmaAtRest
<1>10. CASE TccHandler \/ SercomUart \/ SercomError \/ port_handle_extint
  <2>1. UNCHANGED <<state, dma_done>>
    BY <1>10 DEF TccHandler, SercomUart, SercomError, port_handle_extint, uart_send_data, Send, SendNothing, NoStep,
       port_step, dmaVars
  <2> QED BY <1>10, <2>1, HandlerKeeps, DmaKept
<1>11. CASE SercomI2c
  <2>1. mode = "i2c" /\ dma_done' = dma_done
    BY <1>11 DEF SercomI2c, dmaVars
  <2>2. tx_src = "none" /\ rx_dst = "none" /\ dma_done' = {}
    BY <2>1 DEF DmaInv, DmaCommand
  <2> QED BY <1>11, <2>2, HandlerKeeps, DmaAtRest
<1>12. CASE Hardware
  <2>1. UNCHANGED <<state, mode, cmd, pending_in, pending_out, dma_int>>
    BY <1>12, HardwareKeeps DEF restOfPort, parserVars, queueVars
  <2>2. CASE DmaTxDone
    <3>1. /\ tx_src # "none" /\ tx_src' = "none" /\ rx_dst' = rx_dst
          /\ dma_done' = dma_done \cup (dma_int \cap {"tx"})
      BY <2>2 DEF DmaTxDone
    <3>2. state = "exec_async" /\ mode \in {"spi", "uart"} /\ dma_done = {} /\ cmd \in {"TX", "RX", "TXRX"}
      BY <3>1 DEF DmaInv, DmaCommand
    <3>3. CASE mode = "spi"
      <4>1. dma_done' = {}
        BY <3>1, <3>2, <3>3 DEF DmaInv, DmaCommand
      <4> QED BY <2>1, <3>1, <3>2, <3>3, <4>1 DEF DmaInv, DmaCommand, DmaLocks
    <3>4. CASE mode = "uart"
      <4>1. dma_done' = {"tx"}
        BY <3>1, <3>2, <3>4 DEF DmaInv, DmaCommand
      <4> QED BY <2>1, <3>1, <3>2, <3>4, <4>1 DEF DmaInv, DmaCommand, DmaLocks
    <3> QED BY <3>2, <3>3, <3>4
  <2>3. CASE DmaRxDone
    <3>1. /\ rx_dst # "none" /\ tx_src = "none" /\ tx_src' = "none" /\ rx_dst' = "none"
          /\ dma_done' = dma_done \cup (dma_int \cap {"rx"})
      BY <2>3 DEF DmaRxDone
    <3>2. /\ state = "exec_async" /\ mode = "spi" /\ dma_done = {} /\ cmd \in {"TX", "RX", "TXRX"}
          /\ dma_int = {"rx"}
      BY <3>1 DEF DmaInv, DmaCommand
    <3>3. dma_done' = {"rx"}
      BY <3>1, <3>2
    <3> QED BY <2>1, <3>1, <3>2, <3>3 DEF DmaInv, DmaCommand, DmaLocks
  <2>4. CASE I2cDone \/ UartByte \/ TccOver \/ \E p \in Pins : PinChange(p)
    BY <2>1, <2>4, DmaKept DEF I2cDone, UartByte, TccOver, PinChange
  <2> QED BY <1>12, <2>2, <2>3, <2>4 DEF Hardware
<1> QED BY <1>1, <1>2, <1>3, <1>4, <1>5, <1>6, <1>7, <1>8, <1>9, <1>10, <1>11, <1>12 DEF Next, Step, Handler

LEMMA DmaInit == Init => Held /\ DmaInv
BY DEF Init, Held, DmaInv, DmaCommand, DmaLocks

\* A buffer that the bridge holds is not in use by DMA, if interrupts are punctual and the
\* last reply is fetched before the connection closes.  Bus errors, full buffers and
\* interrupts of the other port may come at any time.
THEOREM DmaOwns == Punctual /\ FetchedFirst => (Spec => []DmaOwnsItsBuffer)
<1> SUFFICES ASSUME Punctual /\ FetchedFirst PROVE Spec => []DmaOwnsItsBuffer
  OBVIOUS
<1> DEFINE Inv == TypeInv /\ Held /\ DmaInv
<1>1. Init => Inv
  BY TypeInit, DmaInit
<1>2. Inv /\ [Next]_vars => Inv'
  BY TypeStep, HeldStep, DmaStep
<1>3. Inv => DmaOwnsItsBuffer
  BY DEF Held, DmaInv, DmaLocks, DmaOwnsItsBuffer
<1> QED BY <1>1, <1>2, <1>3, PTL DEF Spec

\* DMA runs for the command that waits for it, and after a disconnection not at all, if
\* interrupts are punctual.
THEOREM DmaServesCommand == Punctual => (Spec => []DmaHasItsCommand)
<1> SUFFICES ASSUME Punctual PROVE Spec => []DmaHasItsCommand
  OBVIOUS
<1> DEFINE Inv == TypeInv /\ DmaInv
<1>1. Init => Inv
  BY TypeInit, DmaInit
<1>2. Inv /\ [Next]_vars => Inv'
  BY TypeStep, DmaStep
<1>3. Inv => DmaHasItsCommand
  BY DEF DmaInv, DmaCommand, DmaHasItsCommand
<1> QED BY <1>1, <1>2, <1>3, PTL DEF Spec

---------------------------------------------------------------------------
(* What makes an open port signal an error.                                *)

\* What interrupts and a command that has begun say of the mode.
Settings ==
    /\ tcc_en => mode = "uart" /\ connected
    /\ rxc_en => mode = "uart" /\ connected
    /\ state = "read_arg" /\ cmd \in {"START", "ENABLE_SPI", "ENABLE_I2C"} => mode # "uart"
    /\ state = "exec_async" /\ mode = "uart" => cmd = "TX"
    /\ state = "exec_async" /\ cmd = "TX" => ~pending_out

\* When the loop ends with replies in reply_buf, the bridge has them or a transfer goes on;
\* pins interrupt only a port that has none and waits for a command.
Answering ==
    /\ connected /\ ~stepping /\ reply_len # 0 => pending_in \/ state = "exec_async"
    /\ eic_en => connected /\ ~stepping /\ state = Idle /\ reply_len = 0
    /\ connected /\ enabled /\ OwnChannel /\ pending_in => in_req # 0

Awaited == connected => DmaInv

\* What a command does to the mode and to the interrupts of the UART.
LEMMA BeginSettings ==
    ASSUME NEW c, NEW a, port_begin_cmd(c, a)
    PROVE  /\ \/ UNCHANGED <<mode, tcc_en, rxc_en>>
              \/ c \in {"DISABLE", "ENABLE_SPI", "ENABLE_I2C"} /\ tcc_en' = tcc_en /\ (rxc_en' => rxc_en)
              \/ c = "ENABLE_UART" /\ mode' = "uart"
              \/ c = "DISABLE_UART" /\ ~tcc_en' /\ ~rxc_en'
           /\ state' \in {Idle, "exec", "exec_async"}
           /\ state' = "exec_async" => c = "START" /\ mode' = mode
BY DEF port_begin_cmd, BeginDone, BeginInt, BeginReply, BeginAnalogRead, BeginTx, BeginStart, BeginStop, BeginSpi,
   BeginI2c, BeginUart, BeginUartOff, deviceVars, uartVars, Idle

\* How interrupt handlers end: in the loop or not, with an error or not.
LEMMA HandlerEnds ==
    ASSUME TypeInv,
           \/ \E d \in {"tx", "rx"} : port_dma_completion(d)
           \/ TccHandler \/ SercomUart \/ SercomI2c \/ SercomError \/ port_handle_extint
    PROVE  /\ state' \in {state, Idle, "exec"}
           /\ \/ NoStep /\ (connected => reply_len' = reply_len)
              \/ stepping' /\ ~eic_en' /\ (tcc_en' => tcc_en)
           /\ port_error \/ UNCHANGED bridgeVars
<1>1. CASE \E d \in {"tx", "rx"} : port_dma_completion(d)
  BY <1>1 DEF port_dma_completion, Resume, port_step, NoStep, queueVars
<1>2. CASE TccHandler
  BY <1>2 DEF TccHandler, uart_send_data, Send, SendNothing, port_step, NoStep, TypeInv, Connection
<1>3. CASE SercomUart
  BY <1>3 DEF SercomUart, uart_send_data, Send, SendNothing, port_step, NoStep, TypeInv, Connection
<1>4. CASE SercomI2c
  BY <1>4 DEF SercomI2c, Resume, port_step, NoStep, queueVars
<1>5. CASE SercomError
  BY <1>5 DEF SercomError, NoStep, queueVars
<1>6. CASE port_handle_extint
  BY <1>6 DEF port_handle_extint, port_send_status, Check, port_step, NoStep
<1> QED BY <1>1, <1>2, <1>3, <1>4, <1>5, <1>6

LEMMA SettingsStep == TypeInv /\ Settings /\ [Next]_vars => Settings'
<1> SUFFICES ASSUME TypeInv, Settings, [Next]_vars PROVE Settings'
  OBVIOUS
<1>1. CASE StepWait
  <2>1. connected /\ connected'
    BY <1>1, StepConnected DEF Step
  <2>2. UNCHANGED <<state, mode, cmd, rxc_en>> /\ (tcc_en' => tcc_en \/ mode = "uart")
    BY <1>1 DEF StepWait, parserVars, uartVars
  <2>3. state = "exec_async" /\ cmd = "TX" => pending_out' = pending_out
    BY <1>1 DEF StepWait, WantOut, port_tx_locked, TypeInv, Typed, TypedQueue
  <2> QED BY <2>1, <2>2, <2>3 DEF Settings
<1>2. CASE StepAsync \/ UNCHANGED vars
  BY <1>2 DEF Settings, StepAsync, vars, parserVars, queueVars, bridgeVars, uartVars
<1>3. CASE StepContinue
  <2>1. ~pending_out /\ ~pending_out'
    BY <1>3, LoopGoesOn DEF StepContinue, TypeInv
  <2>2. /\ UNCHANGED <<mode, cmd, tcc_en, rxc_en, connected>> /\ state' # "read_arg"
        /\ state' = "exec_async" /\ mode = "uart" => cmd = "TX"
    BY <1>3 DEF StepContinue, ContinueEcho, ContinueDma, ContinueI2c, Idle, bridgeVars, uartVars
  <2> QED BY <2>1, <2>2 DEF Settings
<1>4. ASSUME NEW c \in Cmds, StepCmd(c) PROVE Settings'
  <2>1. connected /\ connected' /\ cmd' = c /\ Legal(c)
    BY <1>4, StepConnected DEF Step, StepCmd
  <2>2. CASE port_begin_cmd(c, arg0) /\ port_cmd_args(c) = 0
    <3>1. c # "START"
      BY <2>2 DEF port_cmd_args
    <3>2. c \in {"DISABLE", "ENABLE_SPI", "ENABLE_I2C"} => mode # "uart"
      BY <2>1 DEF Legal
    <3> QED BY <2>1, <2>2, <3>1, <3>2, BeginSettings DEF Settings, Idle
  <2>3. CASE state' = "read_arg" /\ UNCHANGED <<mode, deviceVars>>
    <3>1. c \in {"START", "ENABLE_SPI", "ENABLE_I2C"} => mode # "uart"
      BY <2>1 DEF Legal
    <3> QED BY <2>1, <2>3, <3>1 DEF Settings, deviceVars, uartVars
  <2> QED BY <1>4, <2>2, <2>3 DEF StepCmd
<1>5. ASSUME NEW a \in 0..BRIDGE_BUF_SIZE, StepArg(a) PROVE Settings'
  <2>1. connected /\ connected' /\ cmd' = cmd /\ state = "read_arg"
    BY <1>5, StepConnected DEF Step, StepArg
  <2>2. cmd # "DISABLE"
    BY <2>1 DEF TypeInv, Parser, port_cmd_args
  <2>3. CASE port_begin_cmd(cmd, a)
    BY <2>1, <2>2, <2>3, BeginSettings DEF Settings, Idle
  <2>4. CASE UNCHANGED <<state, mode, deviceVars>>
    BY <2>1, <2>4 DEF Settings, deviceVars, uartVars
  <2> QED BY <1>5, <2>3, <2>4 DEF StepArg
<1>6. CASE port_enable \/ port_disable
  <2>1. CASE port_enable
    BY <2>1 DEF Settings, port_enable, Idle, uartVars
  <2>2. CASE port_disable
    <3>1. state' = "disable" /\ rxc_en' = FALSE /\ (tcc_en' <=> tcc_en /\ mode # "uart")
      BY <2>2 DEF port_disable, CloseExceptDma
    <3>2. ~tcc_en'
      BY <3>1 DEF Settings
    <3> QED BY <3>1, <3>2 DEF Settings
  <2> QED BY <1>6, <2>1, <2>2
<1>7. ASSUME NEW n, port_bridge_out_completion(n) \/ port_bridge_in_completion PROVE Settings'
  <2>1. pending_out' => pending_out
    BY <1>7 DEF port_bridge_out_completion, port_bridge_in_completion, InCompletionExceptPending
  <2> QED BY <1>7, <2>1, BridgeKeeps DEF Settings
<1>8. CASE \/ \E d \in {"tx", "rx"} : port_dma_completion(d)
           \/ TccHandler \/ SercomUart \/ SercomI2c \/ SercomError \/ port_handle_extint
  <2>1. UNCHANGED <<connected, mode, cmd, pending_out, rxc_en>>
    BY <1>8, HandlerKeeps
  <2>2. state' \in {state, Idle, "exec"} /\ (tcc_en' => tcc_en)
    BY <1>8, HandlerEnds DEF NoStep
  <2> QED BY <2>1, <2>2 DEF Settings, Idle
<1>9. CASE Hardware
  BY <1>9, HardwareKeeps DEF Settings, restOfPort, parserVars, queueVars, bridgeVars
<1> QED BY <1>1, <1>2, <1>3, <1>4, <1>5, <1>6, <1>7, <1>8, <1>9 DEF Next, Step, Handler

\* A loop that ends to wait for the bridge leaves replies only with the bridge or with a
\* command that is receiving.
LEMMA WaitLeaves ==
    ASSUME TypeInv, Settings, StepWait
    PROVE  /\ reply_len # 0 => pending_in' \/ state = "exec_async"
           /\ eic_en' => eic_en \/ (state = Idle /\ reply_len = 0)
<1>1. /\ pending_in' = (pending_in \/ WantIn) /\ MustWait
      /\ eic_en' = (eic_en \/ AsyncAllowed(pending_in \/ WantIn))
  BY DEF StepWait
<1>2. reply_len \in Nat /\ BRIDGE_BUF_SIZE \in Nat
  BY SizeFacts DEF TypeInv, Typed, TypedQueue
<1>3. reply_len # 0 /\ ~(state = "exec_async" /\ port_rx_locked) => pending_in \/ WantIn
  BY <1>1, <1>2 DEF MustWait, WantIn
<1>4. AsyncAllowed(pending_in \/ WantIn) => state = Idle /\ reply_len = 0
  <2> SUFFICES ASSUME AsyncAllowed(pending_in \/ WantIn) PROVE state = Idle /\ reply_len = 0
    OBVIOUS
  <2>1. ~pending_in /\ ~WantIn /\ (state = Idle \/ (state = "exec_async" /\ ~port_rx_locked))
    BY DEF AsyncAllowed
  <2>2. reply_len = 0
    BY <1>3, <2>1 DEF Idle
  <2>3. ASSUME state = "exec_async", ~port_rx_locked PROVE FALSE
    <3>1. cmd = "TX" /\ ~pending_out
      BY <2>3 DEF port_rx_locked, Settings
    <3>2. ~WantOut
      BY <2>3, <3>1 DEF WantOut, port_tx_locked
    <3> QED BY <1>1, <2>1, <3>1, <3>2 DEF MustWait
  <2> QED BY <2>1, <2>2, <2>3
<1> QED BY <1>1, <1>3, <1>4

LEMMA AnsweringStep == TypeInv /\ Settings /\ Answering /\ [Next]_vars => Answering'
<1> SUFFICES ASSUME TypeInv, Settings, Answering, [Next]_vars PROVE Answering'
  OBVIOUS
<1> USE DEF OwnChannel
<1>1. CASE StepWait
  <2>1. connected /\ connected' /\ stepping
    BY <1>1, StepConnected DEF Step
  <2>2. UNCHANGED <<state, reply_len, enabled, chan>> /\ ~stepping' /\ ~eic_en
    BY <1>1, <2>1 DEF StepWait, Answering
  <2>3. /\ pending_in' = (pending_in \/ WantIn)
        /\ in_req' = IF WantIn /\ OwnChannel THEN reply_len ELSE in_req
    BY <1>1 DEF StepWait
  <2>4. WantIn => reply_len # 0
    BY SizeFacts DEF WantIn
  <2>5. enabled /\ chan = "own" /\ pending_in' => in_req' # 0
    BY <2>1, <2>3, <2>4 DEF Answering
  <2> QED BY <1>1, <2>1, <2>2, <2>5, WaitLeaves DEF Answering
<1>2. CASE StepAsync
  BY <1>2 DEF Answering, StepAsync, queueVars, bridgeVars
<1>3. CASE UNCHANGED vars
  BY <1>3 DEF Answering, vars, queueVars, bridgeVars
<1>4. CASE StepContinue \/ (\E c \in Cmds : StepCmd(c)) \/ (\E a \in 0..BRIDGE_BUF_SIZE : StepArg(a))
  <2>1. stepping /\ stepping'
    BY <1>4 DEF StepContinue, StepCmd, StepArg, restOfStep
  <2>2. ~pending_in /\ pending_in' = pending_in /\ eic_en' = eic_en
    BY <1>4, LoopGoesOn DEF StepContinue, StepCmd, StepArg, restOfStep, TypeInv, Idle
  <2> QED BY <2>1, <2>2 DEF Answering
<1>5. CASE port_enable
  BY <1>5 DEF Answering, port_enable
<1>6. CASE port_disable
  BY <1>6 DEF Answering, port_disable, CloseExceptDma
<1>7. ASSUME NEW n, port_bridge_out_completion(n) PROVE Answering'
  <2>1. UNCHANGED <<connected, enabled, chan>> /\ stepping' /\ ~eic_en'
    BY <1>7, BridgeKeeps
  <2>2. UNCHANGED <<pending_in, in_req>>
    BY <1>7 DEF port_bridge_out_completion
  <2> QED BY <2>1, <2>2 DEF Answering
<1>8. CASE port_bridge_in_completion
  <2>1. stepping' /\ ~eic_en'
    BY <1>8, BridgeKeeps
  <2> QED BY <1>8, <2>1 DEF Answering, port_bridge_in_completion
<1>9. CASE \/ \E d \in {"tx", "rx"} : port_dma_completion(d)
           \/ TccHandler \/ SercomUart \/ SercomI2c \/ SercomError \/ port_handle_extint
  <2>1. UNCHANGED <<connected, pending_in>>
    BY <1>9, HandlerKeeps
  <2>2. connected' /\ enabled' /\ chan' = "own" /\ pending_in' => in_req' # 0
    <3>1. CASE UNCHANGED bridgeVars
      BY <2>1, <3>1 DEF Answering, bridgeVars
    <3>2. CASE port_error
      BY <2>1, <3>2 DEF Answering, port_error, bridgeVars
    <3> QED BY <1>9, <3>1, <3>2, HandlerEnds
  <2>3. CASE NoStep /\ (connected => reply_len' = reply_len)
    BY <2>1, <2>2, <2>3 DEF Answering, NoStep
  <2>4. CASE stepping' /\ ~eic_en'
    BY <2>2, <2>4 DEF Answering
  <2> QED BY <1>9, <2>3, <2>4, HandlerEnds
<1>10. CASE Hardware
  BY <1>10, HardwareKeeps DEF Answering, restOfPort, queueVars, bridgeVars
<1> QED BY <1>1, <1>2, <1>3, <1>4, <1>5, <1>6, <1>7, <1>8, <1>9, <1>10 DEF Next, Step, Handler

LEMMA AwaitedStep == TypeInv /\ ClosedPortRests /\ Awaited /\ [Next]_vars => Awaited'
<1> SUFFICES ASSUME TypeInv, ClosedPortRests, Awaited, [Next]_vars, connected' PROVE DmaInv'
  BY DEF Awaited
<1>1. CASE port_disable
  BY <1>1 DEF port_disable, CloseExceptDma
<1>2. CASE connected /\ ~port_disable
  BY <1>2, DmaStep DEF Awaited
<1>3. CASE port_enable
  <2>1. tx_src = "none" /\ rx_dst = "none" /\ dma_done = {}
    BY <1>3 DEF port_enable, ClosedPortRests
  <2>2. UNCHANGED <<tx_src, rx_dst, dma_done>> /\ mode' = "none"
    BY <1>3 DEF port_enable, dmaVars
  <2> QED BY <2>1, <2>2 DEF DmaInv, DmaCommand, DmaLocks
<1>4. CASE ~connected /\ ~port_enable /\ ~port_disable
  <2>1. ~Step
    BY <1>4, StepConnected
  <2>2. CASE \/ \E d \in {"tx", "rx"} : port_dma_completion(d)
             \/ TccHandler \/ SercomUart \/ SercomI2c \/ SercomError \/ port_handle_extint
    BY <1>4, <2>2, HandlerKeeps
  <2>3. CASE Hardware \/ UNCHANGED vars
    BY <1>4, <2>3, HardwareKeeps DEF restOfPort, vars, bridgeVars
  <2>4. CASE \/ \E n \in 1..BRIDGE_BUF_SIZE : port_bridge_out_completion(n)
             \/ port_bridge_in_completion
    BY <1>4, <2>4 DEF port_bridge_out_completion, port_bridge_in_completion, InCompletionExceptPending
  <2> QED BY <1>4, <2>1, <2>2, <2>3, <2>4 DEF Next, Handler
<1> QED BY <1>1, <1>2, <1>3, <1>4

\* What a UART receives finds no room only while a reply or a transmission keeps reply_buf.
LEMMA RoomTaken ==
    ASSUME TypeInv, Settings, Answering, connected, ~stepping, mode = "uart", enabled, OwnChannel,
           NEW len \in 0..UART_RX_SIZE, len <= uart_len + 1, len + 2 > Room
    PROVE  NoRoom
<1>1. uart_len \in Nat /\ reply_len \in Nat
  BY SizeFacts DEF TypeInv, Typed, TypedQueue, TypedDevice
<1>2. uart_len + 3 > Room /\ reply_len # 0
  BY <1>1, SizeFacts DEF Room
<1>3. pending_in => in_req # 0
  BY DEF Answering
<1>4. state = "exec_async" => Sending
  BY DEF Settings, Sending
<1> QED BY <1>2, <1>3, <1>4 DEF Answering, NoRoom

\* An open port signals an error only for an interrupt that had been disabled, what a UART
\* received while reply_buf was in use, the I2C master or the SERCOM of a mode that was
\* left, in any order of interrupts and whatever errors came before.
THEOREM OnlyTheseErrors == Spec => ErrorsExplained
<1> DEFINE Inv == TypeInv /\ ClosedPortRests /\ Awaited /\ Settings /\ Answering
           Explained ==
             \/ ~connected
             \/ port_handle_extint /\ "eic" \notin Asserted
             \/ TccHandler /\ ("tcc" \notin Asserted \/ NoRoom)
             \/ SercomUart /\ NoRoom
             \/ SercomI2c
             \/ SercomError /\ ~rxc_en
<1>1. Init => Inv
  BY TypeInit, DmaInit DEF Init, ClosedPortRests, Awaited, Settings, Answering, Idle
<1>2. Inv /\ [Next]_vars => Inv'
  BY TypeStep, RestsStep, AwaitedStep, SettingsStep, AnsweringStep
<1>3. ASSUME Inv, [Next]_vars, enabled, ~enabled', connected PROVE Explained
  <2> USE <1>3
  <2>1. CASE StepWait \/ StepAsync \/ StepContinue \/ UNCHANGED vars
    BY <2>1 DEF StepWait, StepAsync, StepContinue, vars, bridgeVars
  <2>2. CASE (\E c \in Cmds : StepCmd(c)) \/ (\E a \in 0..BRIDGE_BUF_SIZE : StepArg(a))
    <3>1. reply_len < BRIDGE_BUF_SIZE /\ reply_len \in Nat
      BY <2>2, LoopGoesOn, SizeFacts DEF StepCmd, StepArg, TypeInv, Typed, TypedQueue, Idle
    <3>2. ASSUME NEW c, BeginReply(c) PROVE enabled' = enabled
      <4>1. Check(reply_len + 1 <= BRIDGE_BUF_SIZE)
        BY <3>2 DEF BeginReply, port_send_status
      <4>2. reply_len + 1 <= BRIDGE_BUF_SIZE
        BY <3>1, SizeFacts
      <4> QED BY <4>1, <4>2 DEF Check, bridgeVars
    <3>3. ASSUME NEW c, NEW a, port_begin_cmd(c, a) PROVE enabled' = enabled
      BY <3>2, <3>3 DEF port_begin_cmd, BeginDone, BeginInt, BeginAnalogRead, BeginTx, BeginStart, BeginStop, BeginSpi,
         BeginI2c, BeginUart, BeginUartOff, bridgeVars
    <3> QED BY <2>2, <3>3 DEF StepCmd, StepArg, bridgeVars
  <2>3. CASE port_enable \/ port_disable
    BY <2>3 DEF port_enable, port_disable, CloseExceptDma
  <2>4. CASE (\E n \in 1..BRIDGE_BUF_SIZE : port_bridge_out_completion(n)) \/ port_bridge_in_completion
    BY <2>4, BridgeKeeps
  <2>5. CASE \E d \in {"tx", "rx"} : port_dma_completion(d)
    <3>1. state = "exec_async"
      BY <2>5 DEF port_dma_completion, Awaited, DmaInv, DmaCommand
    <3> QED BY <2>5, <3>1 DEF port_dma_completion, Resume, bridgeVars
  <2>6. CASE TccHandler /\ "tcc" \in Asserted
    <3>1. tcc_en /\ ~stepping /\ uart_send_data(uart_len) /\ uart_len \in 0..UART_RX_SIZE
      BY <2>6 DEF Asserted, TccHandler, Starts, TypeInv, Typed, TypedDevice
    <3>2. mode = "uart"
      BY <3>1 DEF Settings
    <3>3. uart_len + 2 > Room /\ port_error
      BY <3>1 DEF uart_send_data, Send, SendNothing, bridgeVars, TypeInv, Connection
    <3>4. OwnChannel
      BY <3>3 DEF port_error, bridgeVars
    <3> QED BY <2>6, <3>1, <3>2, <3>3, <3>4, RoomTaken
  <2>7. CASE SercomUart
    <3> DEFINE len == MinOf(uart_len + 1, UART_RX_SIZE)
    <3>1. len \in 0..UART_RX_SIZE /\ len <= uart_len + 1
      BY SizeFacts DEF MinOf, TypeInv, Typed, TypedDevice
    <3>2. ~stepping /\ mode = "uart" /\ uart_send_data(len)
      BY <2>7 DEF SercomUart, Starts, bridgeVars
    <3>3. len + 2 > Room /\ port_error
      BY <3>2 DEF uart_send_data, Send, SendNothing, bridgeVars, TypeInv, Connection
    <3>4. OwnChannel
      BY <3>3 DEF port_error, bridgeVars
    <3> HIDE DEF len
    <3> QED BY <2>7, <3>1, <3>2, <3>3, <3>4, RoomTaken
  <2>8. CASE SercomError
    BY <2>8 DEF SercomError, Settings
  <2>9. CASE port_handle_extint /\ "eic" \in Asserted
    <3>1. state = Idle /\ reply_len = 0 /\ eic_flag # {} /\ eic_flag \subseteq Pins
      BY <2>9 DEF Asserted, Answering, TypeInv, Typed, TypedDevice
    <3>2. Cardinality(eic_flag) \in Nat /\ Cardinality(eic_flag) <= BRIDGE_BUF_SIZE
      BY <3>1, PinCount
    <3>3. Check(reply_len + Cardinality(eic_flag) <= BRIDGE_BUF_SIZE)
      BY <2>9, <3>1 DEF port_handle_extint, port_send_status
    <3>4. reply_len + Cardinality(eic_flag) <= BRIDGE_BUF_SIZE
      BY <3>1, <3>2, SizeFacts
    <3> QED BY <3>3, <3>4 DEF Check, bridgeVars
  <2>10. CASE Hardware
    BY <2>10, HardwareKeeps DEF restOfPort, bridgeVars
  <2> QED BY <2>1, <2>2, <2>3, <2>4, <2>5, <2>6, <2>7, <2>8, <2>9, <2>10 DEF Next, Step, Handler
<1>4. Inv /\ [Next]_vars => [enabled /\ ~enabled' => Explained]_vars
  BY <1>3
<1> QED BY <1>1, <1>2, <1>4, PTL DEF Spec, ErrorsExplained
===========================================================================
