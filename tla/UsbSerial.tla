----------------------------- MODULE UsbSerial -----------------------------
(***************************************************************************)
(* usbserial.c: the SoC's serial console as a USB serial port, with the    *)
(* UART and the PC's terminal at its two ends (external).                  *)
(*                                                                         *)
(* Received bytes are collected by DMA in one of two buffers, which is     *)
(* sent when it is full or nothing was received for 10 ms.  The bytes of   *)
(* either direction are numbered from 1.                                   *)
(***************************************************************************)
EXTENDS Naturals, Sequences

CONSTANTS
    SIZE,     \* BUF_SIZE, 64 bytes
    MaxRx,    \* bytes the SoC prints in a session of the terminal
    MaxTx,    \* bytes typed in it
    SlowPc    \* the PC may leave a buffer unread until the other one is full

ASSUME SerialAssumption ==
    SIZE \in Nat \ {0} /\ MaxRx \in Nat /\ MaxTx \in Nat /\ SlowPc \in BOOLEAN

VARIABLES
    active_rx_buf, sending_in, buf_in, buf_out,
    rx_count,   \* BUF_SIZE - dma_remaining(DMA_TERMINAL_RX)
    rx_dma,     \* "off", "running" or "done" (its interrupt is pending)
    tx_dma,
    timer,      \* TC_TERMINAL_TIMEOUT is counting
    ovf,        \* its overflow flag
    ovf_en,     \* its interrupt is enabled
    cdc_in,     \* the IN endpoint: [st, buf, len]
    cdc_out,    \* "off", "idle", "armed", or "full" (its completion is pending)
    tty,        \* the PC has configured the device and reads the port
    rx_put, rx_got,   \* bytes the SoC printed; bytes the PC has got
    tx_put, tx_got    \* bytes the PC wrote; bytes the SoC has got

serialVars == <<active_rx_buf, sending_in, buf_in, buf_out, rx_count, rx_dma, tx_dma, timer,
                ovf, ovf_en, cdc_in, cdc_out, tty, rx_put, rx_got, tx_put, tx_got>>
rxVars == <<active_rx_buf, sending_in, buf_in, rx_count, rx_dma, timer, ovf, ovf_en, cdc_in,
            rx_put, rx_got>>
txVars == <<buf_out, tx_dma, cdc_out, tx_put, tx_got>>

EpOff == [st |-> "off", buf |-> 0, len |-> 0]
Blank == [i \in 1..SIZE |-> 0]

SerialInit ==
    /\ active_rx_buf = 0 /\ sending_in = FALSE /\ buf_in = [b \in 0..1 |-> Blank]
    /\ buf_out = <<>> /\ rx_count = 0 /\ rx_dma = "off" /\ tx_dma = "off"
    /\ timer = FALSE /\ ovf = FALSE /\ ovf_en = FALSE
    /\ cdc_in = EpOff /\ cdc_out = "off"
    /\ tty = FALSE /\ rx_put = 0 /\ rx_got = <<>> /\ tx_put = 0 /\ tx_got = <<>>

\* SET_CONFIGURATION, and the PC opens the port.  The channels' reset takes back their
\* interrupts; 0 in a buffer is whatever it held before.
usbserial_init ==
    /\ ~tty
    /\ active_rx_buf' = 0 /\ sending_in' = FALSE
    /\ rx_dma' = "running" /\ rx_count' = 0 /\ tx_dma' = "off"
    /\ timer' = FALSE /\ ovf' = FALSE /\ ovf_en' = TRUE
    /\ cdc_in' = [st |-> "idle", buf |-> 0, len |-> 0] /\ cdc_out' = "armed"
    /\ tty' = TRUE /\ buf_in' = [b \in 0..1 |-> Blank] /\ buf_out' = <<>>
    /\ UNCHANGED <<rx_put, rx_got, tx_put, tx_got>>

---------------------------------------------------------------------------
(* PC to SoC.                                                              *)

usbserial_out_completion ==
    /\ cdc_out = "full"
    /\ cdc_out' = "idle" /\ tx_dma' = "running"
    /\ UNCHANGED <<buf_out, tx_put, tx_got, rxVars, tty>>

usbserial_dma_tx_completion ==
    /\ tx_dma = "done"
    /\ tx_dma' = "off"
    /\ cdc_out' = (IF cdc_out = "off" THEN "off" ELSE "armed")
    /\ UNCHANGED <<buf_out, tx_put, tx_got, rxVars, tty>>

\* (External.) The PC writes a packet, which the endpoint takes when it is armed.
PcWritesTty ==
    /\ tty /\ cdc_out = "armed"
    /\ \E n \in 1..SIZE : tx_put + n <= MaxTx /\ tx_put' = tx_put + n
    /\ buf_out' = [i \in 1..(tx_put' - tx_put) |-> tx_put + i]
    /\ cdc_out' = "full"
    /\ UNCHANGED <<tx_dma, tx_got, rxVars, tty>>

\* (External.) The UART has sent the next byte of the packet.
UartTx ==
    /\ tx_dma = "running"
    /\ tx_got' = IF tty THEN Append(tx_got, Head(buf_out)) ELSE tx_got
    /\ buf_out' = Tail(buf_out)
    /\ tx_dma' = (IF buf_out' = <<>> THEN "done" ELSE "running")
    /\ UNCHANGED <<cdc_out, tx_put, rxVars, tty>>

---------------------------------------------------------------------------
(* SoC to PC.                                                              *)

\* Mutant: reception goes on in the buffer that is being sent.
usbserial_rx_flush_same_buffer ==
    /\ ovf_en' = FALSE /\ ovf' = FALSE
    /\ IF sending_in THEN UNCHANGED <<cdc_in, sending_in, active_rx_buf>>
       ELSE /\ cdc_in' = IF cdc_in.st = "off" THEN cdc_in
                         ELSE [st |-> "sending", buf |-> active_rx_buf, len |-> rx_count]
            /\ sending_in' = TRUE
            /\ UNCHANGED active_rx_buf
    /\ rx_dma' = "running" /\ rx_count' = 0

\* Mutant: the buffers are not taken in turn.
usbserial_rx_flush_next_buffer ==
    /\ ovf_en' = FALSE /\ ovf' = FALSE
    /\ IF sending_in THEN UNCHANGED <<cdc_in, sending_in, active_rx_buf>>
       ELSE /\ cdc_in' = IF cdc_in.st = "off" THEN cdc_in
                         ELSE [st |-> "sending", buf |-> active_rx_buf, len |-> rx_count]
            /\ sending_in' = TRUE
            /\ active_rx_buf' = active_rx_buf + 1
    /\ rx_dma' = "running" /\ rx_count' = 0

\* Unless a buffer is being sent, send the active one and go on with the other; if one
\* is, the active one is begun anew.
usbserial_rx_flush ==
    /\ ovf_en' = FALSE /\ ovf' = FALSE
    /\ IF sending_in THEN UNCHANGED <<cdc_in, sending_in, active_rx_buf>>
       ELSE /\ cdc_in' = IF cdc_in.st = "off" THEN cdc_in
                         ELSE [st |-> "sending", buf |-> active_rx_buf, len |-> rx_count]
            /\ sending_in' = TRUE
            /\ active_rx_buf' = 1 - active_rx_buf
    /\ rx_dma' = "running" /\ rx_count' = 0

usbserial_dma_rx_completion ==
    /\ rx_dma = "done"
    /\ usbserial_rx_flush
    /\ UNCHANGED <<buf_in, timer, rx_put, rx_got, txVars, tty>>

usbserial_handle_tc ==
    /\ ovf /\ ovf_en
    /\ usbserial_rx_flush
    /\ UNCHANGED <<buf_in, timer, rx_put, rx_got, txVars, tty>>

\* Mutant: the timer's interrupt stays disabled.
usbserial_in_completion_masked ==
    /\ cdc_in.st = "done"
    /\ cdc_in' = [cdc_in EXCEPT !.st = "idle"]
    /\ sending_in' = FALSE
    /\ UNCHANGED <<active_rx_buf, buf_in, rx_count, rx_dma, timer, ovf, ovf_en, rx_put, rx_got, txVars,
                   tty>>

usbserial_in_completion ==
    /\ cdc_in.st = "done"
    /\ cdc_in' = [cdc_in EXCEPT !.st = "idle"]
    /\ sending_in' = FALSE
    /\ ovf_en' = TRUE
    /\ UNCHANGED <<active_rx_buf, buf_in, rx_count, rx_dma, timer, ovf, rx_put, rx_got, txVars, tty>>

\* (External.) The SoC prints a byte: the DMA stores it, and its event starts the timer
\* again.  Interrupts are served within the time of a byte.  Without SlowPc the byte
\* that fills the buffer comes when the other one has been sent.
UartRx ==
    /\ tty /\ rx_put < MaxRx
    /\ rx_dma = "running" /\ ~(ovf /\ ovf_en)
    /\ rx_count + 1 < SIZE \/ ~sending_in \/ SlowPc
    /\ rx_put' = rx_put + 1
    /\ rx_count' = rx_count + 1
    /\ buf_in' = [buf_in EXCEPT ![active_rx_buf][rx_count'] = rx_put']
    /\ rx_dma' = (IF rx_count' = SIZE THEN "done" ELSE "running")
    /\ timer' = TRUE
    /\ UNCHANGED <<active_rx_buf, sending_in, ovf, ovf_en, cdc_in, rx_got, txVars, tty>>

\* (External.) 10 ms without a byte.
TimerOverflow ==
    /\ timer
    /\ timer' = FALSE /\ ovf' = TRUE
    /\ UNCHANGED <<active_rx_buf, sending_in, buf_in, rx_count, rx_dma, ovf_en, cdc_in, rx_put,
                   rx_got, txVars, tty>>

\* (External.) The PC reads the packet the endpoint holds.
PcReadsTty ==
    /\ cdc_in.st = "sending"
    /\ cdc_in' = [cdc_in EXCEPT !.st = "done"]
    /\ rx_got' = rx_got \o SubSeq(buf_in[cdc_in.buf], 1, cdc_in.len)
    /\ UNCHANGED <<active_rx_buf, sending_in, buf_in, rx_count, rx_dma, timer, ovf, ovf_en, rx_put,
                   txVars, tty>>

\* (External.) A USB reset, or the cable: the endpoints are off, and the firmware, which
\* is not told (usb_cb_reset does nothing), goes on until it is configured again.
Detach ==
    /\ tty /\ tty' = FALSE
    /\ cdc_in' = EpOff /\ cdc_out' = "off"
    /\ rx_put' = 0 /\ rx_got' = <<>> /\ tx_put' = 0 /\ tx_got' = <<>>
    /\ UNCHANGED <<active_rx_buf, sending_in, buf_in, buf_out, rx_count, rx_dma, tx_dma, timer, ovf,
                   ovf_en>>
============================================================================
