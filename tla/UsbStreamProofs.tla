-------------------------- MODULE UsbStreamProofs --------------------------
(***************************************************************************)
(* Proofs that the console and the reads of the flash are byte streams:    *)
(* UsbDevice implements ByteStream for every size of buffers, packets and  *)
(* reads, when the PC reads the console in time.                           *)
(***************************************************************************)
EXTENDS UsbDeviceProofs

\* The PC reads a console buffer before the other one is full.
PromptPc == ~SlowPc

\* A full buffer of the flash programmer is sent as full packets (512 and 64 bytes).
WholePackets == BUF % PKT = 0

---------------------------------------------------------------------------
(* The abstract stream.                                                    *)

Numbered(s) == \A i \in 1..Len(s) : s[i] = i

\* A step of one stream: opened, written, read, dropped, or left alone.
Moved(mode1, put1, got1, mode2, put2, got2) ==
    \/ mode1 = "off" /\ mode2 = "open" /\ put2 = 0 /\ got2 = <<>>
    \/ mode1 = "open" /\ mode2 = "open" /\ put2 > put1 /\ got2 = got1
    \/ /\ mode1 = "open" /\ mode2 \in {"open", "done"} /\ put2 = put1
       /\ Len(got1) <= Len(got2) /\ Len(got2) <= put1 /\ Numbered(got2)
       /\ mode2 = "done" => Len(got2) = put1
    \/ mode1 # "off" /\ mode2 = "off" /\ put2 = 0 /\ got2 = <<>>
    \/ mode2 = mode1 /\ put2 = put1 /\ got2 = got1

TtyMode == IF tty THEN "open" ELSE "off"
ReadMode == IF pc_op.op.in = 0 THEN "off" ELSE IF pc_op.stage = "done" THEN "done" ELSE "open"
ReadPut == IF pc_op.stage \in {"in", "done"} THEN pc_op.op.in ELSE 0

RxMoves == Moved(TtyMode, rx_put, rx_got, TtyMode', rx_put', rx_got')
TxMoves == Moved(TtyMode, tx_put, tx_got, TtyMode', tx_put', tx_got')
ReadMoves == Moved(ReadMode, ReadPut, pc_got, ReadMode', ReadPut', pc_got')

StreamOf(s) == Stream!Open(s) \/ Stream!Put(s) \/ Stream!Get(s) \/ Stream!Drop(s) \/ Stream!Rest(s)

LEMMA StreamMoves ==
    ASSUME RxMoves, TxMoves, ReadMoves
    PROVE  Stream!Next
<1>1. StreamOf("rx")
  BY DEF RxMoves, Moved, TtyMode, Numbered, StreamOf,
         Stream!Open, Stream!Put, Stream!Get, Stream!Drop, Stream!Rest, Stream!Prefix
<1>2. StreamOf("tx")
  BY DEF TxMoves, Moved, TtyMode, Numbered, StreamOf,
         Stream!Open, Stream!Put, Stream!Get, Stream!Drop, Stream!Rest, Stream!Prefix
<1>3. StreamOf("read")
  BY DEF ReadMoves, Moved, ReadMode, ReadPut, Numbered, StreamOf,
         Stream!Open, Stream!Put, Stream!Get, Stream!Drop, Stream!Rest, Stream!Prefix
<1> QED BY <1>1, <1>2, <1>3 DEF StreamOf, Stream!Next

---------------------------------------------------------------------------
(* From the console to the PC.                                             *)

RxTypes ==
    /\ tty \in BOOLEAN /\ sending_in \in BOOLEAN
    /\ active_rx_buf \in 0..1 /\ rx_count \in 0..SIZE
    /\ rx_dma \in {"off", "running", "done"}
    /\ cdc_in = [st |-> cdc_in.st, buf |-> cdc_in.buf, len |-> cdc_in.len]
    /\ cdc_in.st \in {"off", "idle", "sending", "done"}
    /\ cdc_in.buf \in 0..1 /\ cdc_in.len \in 0..SIZE
    /\ buf_in \in [0..1 -> [1..SIZE -> Nat]]
    /\ rx_put \in Nat /\ rx_got \in Seq(Nat)

\* The buffers take turns, and while one is sent nothing asks for the other.
RxTurns ==
    /\ ~tty => cdc_in.st = "off" /\ rx_put = 0 /\ rx_got = <<>>
    /\ tty => cdc_in.st # "off" /\ (sending_in => cdc_in.st \in {"sending", "done"})
    /\ tty /\ cdc_in.st \in {"sending", "done"} => sending_in
    /\ ovf_en => ~sending_in
    /\ rx_dma = "running" => rx_count < SIZE
    /\ rx_dma = "done" => ~sending_in
    /\ cdc_in.st = "sending" => cdc_in.buf # active_rx_buf

\* Every byte printed is at the PC, in the buffer that is being sent, or in the active
\* one, in this order.
Unread == IF cdc_in.st = "sending" THEN cdc_in.len ELSE 0
RxBytes ==
    tty =>
        /\ rx_put = Len(rx_got) + Unread + rx_count
        /\ Numbered(rx_got)
        /\ \A i \in 1..Unread : buf_in[cdc_in.buf][i] = Len(rx_got) + i
        /\ \A i \in 1..rx_count : buf_in[active_rx_buf][i] = Len(rx_got) + Unread + i

RxInv == RxTypes /\ RxTurns /\ RxBytes

LEMMA EmptyBuffers ==
    /\ SIZE \in Nat /\ SIZE > 0 /\ 0 \in 0..SIZE /\ 0 \in 0..1 /\ 0 \in Nat
    /\ [b \in 0..1 |-> Blank] \in [0..1 -> [1..SIZE -> Nat]]
    /\ <<>> \in Seq(Nat) /\ Len(<<>>) = 0 /\ Numbered(<<>>)
<1>1. Blank \in [1..SIZE -> Nat]
  BY DEF Blank
<1>2. [b \in 0..1 |-> Blank] \in [0..1 -> [1..SIZE -> Nat]]
  BY <1>1
<1> QED BY <1>2, SerialAssumption DEF Numbered

LEMMA RxInit == SerialInit => RxInv
<1> SUFFICES ASSUME SerialInit PROVE RxInv
  OBVIOUS
<1>1. RxTypes
  BY EmptyBuffers DEF SerialInit, RxTypes, EpOff
<1>2. RxTurns /\ RxBytes
  BY DEF SerialInit, RxTurns, RxBytes, EpOff
<1> QED BY <1>1, <1>2 DEF RxInv

LEMMA RxRests ==
    ASSUME RxInv, UNCHANGED <<rxVars, tty>>
    PROVE  RxInv' /\ RxMoves
BY DEF rxVars, RxInv, RxTypes, RxTurns, RxBytes, Unread, Numbered, RxMoves, Moved, TtyMode

LEMMA RxGone ==
    ASSUME RxInv, SerialGone
    PROVE  RxInv' /\ RxMoves
<1>1. RxTypes'
  BY EmptyBuffers DEF SerialGone, RxTypes, EpOff
<1>2. RxTurns' /\ RxBytes'
  BY DEF SerialGone, RxTurns, RxBytes, EpOff
<1>3. RxMoves
  BY DEF SerialGone, RxInv, RxTurns, RxMoves, Moved, TtyMode
<1> QED BY <1>1, <1>2, <1>3 DEF RxInv

LEMMA RxOpens ==
    ASSUME RxInv, usbserial_init
    PROVE  RxInv' /\ RxMoves
<1>1. rx_put = 0 /\ rx_got = <<>>
  BY DEF usbserial_init, RxInv, RxTurns
<1>2. RxTypes'
  BY <1>1, EmptyBuffers DEF usbserial_init, RxTypes
<1>3. RxTurns'
  BY EmptyBuffers DEF usbserial_init, RxTurns
<1>4. RxBytes'
  BY <1>1, EmptyBuffers DEF usbserial_init, RxBytes, Unread
<1>5. RxMoves
  BY <1>1 DEF usbserial_init, RxMoves, Moved, TtyMode
<1> QED BY <1>2, <1>3, <1>4, <1>5 DEF RxInv

LEMMA RxDetach ==
    ASSUME RxInv, Detach
    PROVE  RxInv' /\ RxMoves
<1>1. RxTypes'
  BY EmptyBuffers DEF Detach, RxInv, RxTypes, EpOff
<1>2. RxTurns' /\ RxBytes'
  BY DEF Detach, RxInv, RxTurns, RxBytes, EpOff
<1>3. RxMoves
  BY DEF Detach, RxMoves, Moved, TtyMode
<1> QED BY <1>1, <1>2, <1>3 DEF RxInv

\* A buffer is handed over only when the other one is free: nothing is begun anew.
LEMMA RxFlush ==
    ASSUME RxInv, ~sending_in, usbserial_rx_flush, UNCHANGED <<buf_in, rx_put, rx_got, tty>>
    PROVE  RxInv' /\ RxMoves
<1>1. /\ active_rx_buf' = 1 - active_rx_buf /\ sending_in' = TRUE /\ ovf_en' = FALSE
      /\ rx_dma' = "running" /\ rx_count' = 0
      /\ cdc_in' = IF cdc_in.st = "off" THEN cdc_in
                   ELSE [st |-> "sending", buf |-> active_rx_buf, len |-> rx_count]
  BY DEF usbserial_rx_flush
<1>2. RxTypes'
  BY <1>1, SerialAssumption DEF RxInv, RxTypes
<1>3. RxTurns'
  BY <1>1, SerialAssumption DEF RxInv, RxTypes, RxTurns
<1>4. RxBytes'
  <2> SUFFICES ASSUME tty PROVE RxBytes'
    BY DEF RxBytes
  <2>1. /\ cdc_in' = [st |-> "sending", buf |-> active_rx_buf, len |-> rx_count]
        /\ cdc_in.st \notin {"sending", "off"}
    BY <1>1 DEF RxInv, RxTurns
  <2>2. Unread = 0 /\ Unread' = rx_count
    BY <2>1 DEF Unread
  <2> QED BY <1>1, <2>1, <2>2 DEF RxInv, RxTypes, RxBytes, Numbered
<1>5. RxMoves
  BY DEF RxMoves, Moved, TtyMode
<1> QED BY <1>2, <1>3, <1>4, <1>5 DEF RxInv

LEMMA RxSent ==
    ASSUME RxInv, usbserial_in_completion
    PROVE  RxInv' /\ RxMoves
<1>1. RxTypes'
  BY DEF usbserial_in_completion, RxInv, RxTypes
<1>2. RxTurns'
  BY DEF usbserial_in_completion, RxInv, RxTypes, RxTurns
<1>3. RxBytes'
  BY DEF usbserial_in_completion, RxInv, RxTypes, RxBytes, Unread, Numbered
<1>4. RxMoves
  BY DEF usbserial_in_completion, RxMoves, Moved, TtyMode
<1> QED BY <1>1, <1>2, <1>3, <1>4 DEF RxInv

LEMMA RxSilence ==
    ASSUME RxInv, TimerOverflow
    PROVE  RxInv' /\ RxMoves
<1>1. RxInv'
  BY DEF TimerOverflow, RxInv, RxTypes, RxTurns, RxBytes, Unread, Numbered
<1>2. RxMoves
  BY DEF TimerOverflow, RxMoves, Moved, TtyMode
<1> QED BY <1>1, <1>2

\* A byte is printed.
LEMMA RxByte ==
    ASSUME PromptPc, RxInv, UartRx
    PROVE  RxInv' /\ RxMoves
<1>1. tty /\ tty' = tty /\ rx_dma = "running" /\ rx_count < SIZE /\ (rx_count + 1 < SIZE \/ ~sending_in)
  BY DEF UartRx, PromptPc, RxInv, RxTurns
<1>2. /\ rx_put' = rx_put + 1 /\ rx_count' = rx_count + 1 /\ rx_got' = rx_got
      /\ UNCHANGED <<active_rx_buf, sending_in, ovf_en, cdc_in>>
      /\ rx_dma' = IF rx_count' = SIZE THEN "done" ELSE "running"
      /\ buf_in' = [buf_in EXCEPT ![active_rx_buf][rx_count'] = rx_put']
  BY DEF UartRx
<1>3. /\ rx_put \in Nat /\ rx_count \in 0..SIZE /\ active_rx_buf \in 0..1 /\ SIZE \in Nat
      /\ buf_in \in [0..1 -> [1..SIZE -> Nat]]
  BY SerialAssumption DEF RxInv, RxTypes
<1>4. buf_in' \in [0..1 -> [1..SIZE -> Nat]]
  <2>1. [buf_in[active_rx_buf] EXCEPT ![rx_count'] = rx_put'] \in [1..SIZE -> Nat]
    <3>1. buf_in[active_rx_buf] \in [1..SIZE -> Nat]
      BY <1>3
    <3>2. rx_put' \in Nat
      BY <1>2, <1>3
    <3>3. rx_count' \in 1..SIZE
      BY <1>1, <1>2, <1>3
    <3> QED BY <3>1, <3>2, <3>3
  <2>2. buf_in' = [buf_in EXCEPT ![active_rx_buf] = [buf_in[active_rx_buf] EXCEPT ![rx_count'] = rx_put']]
    BY <1>2, <1>3
  <2> QED BY <1>3, <2>1, <2>2
<1>5. RxTypes'
  <2>1. rx_put' \in Nat /\ rx_count' \in 0..SIZE /\ rx_dma' \in {"off", "running", "done"}
    BY <1>1, <1>2, <1>3
  <2> QED BY <1>1, <1>2, <1>4, <2>1 DEF RxInv, RxTypes
<1>6. RxTurns'
  BY <1>1, <1>2, <1>3 DEF RxInv, RxTurns
<1>7. RxBytes'
  <2>1. Unread' = Unread /\ Unread \in 0..SIZE
    BY <1>2, <1>3 DEF Unread, RxInv, RxTypes
  <2>2. /\ rx_put = Len(rx_got) + Unread + rx_count /\ Numbered(rx_got)
        /\ \A i \in 1..Unread : buf_in[cdc_in.buf][i] = Len(rx_got) + i
        /\ \A i \in 1..rx_count : buf_in[active_rx_buf][i] = Len(rx_got) + Unread + i
    BY <1>1 DEF RxInv, RxBytes
  <2>3. Len(rx_got) \in Nat
    BY DEF RxInv, RxTypes
  <2>4. rx_put' = Len(rx_got') + Unread' + rx_count'
    BY <1>2, <1>3, <2>1, <2>2, <2>3
  <2>5. ASSUME NEW i \in 1..Unread' PROVE buf_in'[cdc_in'.buf][i] = Len(rx_got') + i
    <3>1. cdc_in.st = "sending" /\ cdc_in.buf # active_rx_buf /\ cdc_in.buf \in 0..1
      BY <2>1 DEF Unread, RxInv, RxTypes, RxTurns
    <3>2. buf_in'[cdc_in.buf] = buf_in[cdc_in.buf]
      BY <1>2, <1>3, <3>1
    <3> QED BY <1>2, <2>1, <2>2, <3>2
  <2>6. ASSUME NEW i \in 1..rx_count' PROVE buf_in'[active_rx_buf'][i] = Len(rx_got') + Unread' + i
    <3>1. buf_in'[active_rx_buf] = [buf_in[active_rx_buf] EXCEPT ![rx_count + 1] = rx_put + 1]
      BY <1>2, <1>3
    <3>2. i \in 1..SIZE
      BY <1>1, <1>2, <1>3
    <3>3. CASE i = rx_count + 1
      BY <1>2, <1>3, <2>1, <2>2, <2>3, <3>1, <3>2, <3>3
    <3>4. CASE i # rx_count + 1
      <4>1. i \in 1..rx_count
        BY <1>2, <1>3, <3>4
      <4> QED BY <1>2, <1>3, <2>1, <2>2, <3>1, <3>2, <3>4, <4>1
    <3> QED BY <3>3, <3>4
  <2>7. Numbered(rx_got')
    BY <1>2, <2>2
  <2> QED BY <2>4, <2>5, <2>6, <2>7 DEF RxBytes
<1>8. RxMoves
  BY <1>1, <1>2, <1>3 DEF RxMoves, Moved, TtyMode
<1> QED BY <1>5, <1>6, <1>7, <1>8 DEF RxInv

\* The PC reads the buffer that is being sent.
LEMMA RxReads ==
    ASSUME RxInv, PcReadsTty
    PROVE  RxInv' /\ RxMoves
<1> DEFINE more == SubSeq(buf_in[cdc_in.buf], 1, cdc_in.len)
<1>1. /\ cdc_in.st = "sending" /\ tty /\ tty' = tty /\ Unread = cdc_in.len
      /\ cdc_in' = [cdc_in EXCEPT !.st = "done"] /\ rx_got' = rx_got \o more
      /\ UNCHANGED <<active_rx_buf, sending_in, buf_in, rx_count, rx_dma, ovf_en, rx_put>>
  BY DEF PcReadsTty, RxInv, RxTurns, Unread
<1>2. cdc_in' = [st |-> "done", buf |-> cdc_in.buf, len |-> cdc_in.len] /\ Unread' = 0
  BY <1>1 DEF RxInv, RxTypes, Unread
<1>3. /\ cdc_in.buf \in 0..1 /\ cdc_in.len \in 0..SIZE /\ SIZE \in Nat
      /\ buf_in[cdc_in.buf] \in [1..SIZE -> Nat]
  BY SerialAssumption DEF RxInv, RxTypes
<1>4. more \in Seq(Nat) /\ Len(more) = cdc_in.len
      /\ \A i \in 1..cdc_in.len : more[i] = buf_in[cdc_in.buf][i]
  <2>1. more = [i \in 1..cdc_in.len |-> buf_in[cdc_in.buf][i]]
    BY <1>3
  <2>2. \A i \in 1..cdc_in.len : buf_in[cdc_in.buf][i] \in Nat
    BY <1>3
  <2> QED BY <1>3, <2>1, <2>2
<1> HIDE DEF more
<1>5. /\ rx_put = Len(rx_got) + cdc_in.len + rx_count /\ Numbered(rx_got)
      /\ \A i \in 1..cdc_in.len : buf_in[cdc_in.buf][i] = Len(rx_got) + i
      /\ \A i \in 1..rx_count : buf_in[active_rx_buf][i] = Len(rx_got) + cdc_in.len + i
      /\ rx_got \in Seq(Nat) /\ rx_count \in 0..SIZE /\ rx_put \in Nat
  BY <1>1 DEF RxInv, RxBytes, RxTypes
<1>6. rx_got' \in Seq(Nat) /\ Len(rx_got') = Len(rx_got) + cdc_in.len /\ Numbered(rx_got')
  <2>1. rx_got' \in Seq(Nat) /\ Len(rx_got') = Len(rx_got) + cdc_in.len
    BY <1>1, <1>4, <1>5
  <2>2. ASSUME NEW i \in 1..Len(rx_got') PROVE rx_got'[i] = i
    <3>1. CASE i <= Len(rx_got)
      BY <1>1, <1>4, <1>5, <2>1, <3>1 DEF Numbered
    <3>2. CASE i > Len(rx_got)
      <4>1. i - Len(rx_got) \in 1..cdc_in.len
        BY <1>3, <1>5, <2>1, <3>2
      <4>2. rx_got'[i] = more[i - Len(rx_got)]
        BY <1>1, <1>4, <1>5, <2>1, <3>2
      <4>3. more[i - Len(rx_got)] = Len(rx_got) + (i - Len(rx_got))
        BY <1>4, <1>5, <4>1
      <4>4. Len(rx_got) \in Nat /\ i \in Nat
        BY <1>5, <2>1
      <4> QED BY <4>2, <4>3, <4>4
    <3> QED BY <1>5, <2>1, <3>1, <3>2
  <2> QED BY <2>1, <2>2 DEF Numbered
<1>7. RxTypes'
  BY <1>1, <1>2, <1>6 DEF RxInv, RxTypes
<1>8. RxTurns'
  BY <1>1, <1>2 DEF RxInv, RxTurns
<1>9. RxBytes'
  BY <1>1, <1>2, <1>3, <1>5, <1>6 DEF RxBytes
<1>10. Len(rx_got) <= Len(rx_got') /\ Len(rx_got') <= rx_put
  <2>1. Len(rx_got) \in Nat
    BY <1>5
  <2> QED BY <1>3, <1>5, <1>6, <2>1
<1>11. RxMoves
  BY <1>1, <1>6, <1>10 DEF RxMoves, Moved, TtyMode
<1> QED BY <1>7, <1>8, <1>9, <1>11 DEF RxInv

\* The handlers of each direction leave the other alone.
LEMMA RxStep ==
    ASSUME PromptPc, RxInv, [Next]_vars
    PROVE  RxInv' /\ RxMoves
<1>1. CASE PowerOn \/ handle_reset_pin \/ req_reset \/ WdtReset \/ PowerLoss
  BY <1>1, RxGone DEF PowerOn, handle_reset_pin, req_reset, WdtReset, Reset, PowerLoss
<1>2. CASE \/ LeaveBootloader \/ req_boot
           \/ task = "update" /\ Dfu /\ UNCHANGED <<flashVars, serialVars, usbVars>>
           \/ req_gpio \/ usb_cb_set_interface \/ SocBoots \/ bridge_handle_sync \/ TCC1_Handler
  <2>1. UNCHANGED serialVars
    BY <1>2 DEF LeaveBootloader, req_boot, req_gpio, usb_cb_set_interface, SetInterface, SocBoots,
                bridge_handle_sync, TCC1_Handler
  <2> QED BY <2>1, RxRests DEF serialVars, rxVars
<1>3. CASE usb_cb_set_configuration
  BY <1>3, RxOpens DEF usb_cb_set_configuration
<1>4. CASE UsbCompletion
  <2>1. UNCHANGED <<rxVars, tty>> \/ usbserial_in_completion
    BY <1>4 DEF UsbCompletion, Flash_, Serial_, usbserial_out_completion, serialVars, rxVars
  <2> QED BY <2>1, RxRests, RxSent
<1>5. CASE DMAC_Handler
  <2>1. UNCHANGED <<rxVars, tty>> \/ usbserial_dma_rx_completion
    BY <1>5 DEF DMAC_Handler, Flash_, Serial_, usbserial_dma_tx_completion, serialVars, rxVars
  <2>2. CASE usbserial_dma_rx_completion
    <3>1. ~sending_in
      BY <2>2 DEF usbserial_dma_rx_completion, RxInv, RxTurns
    <3> QED BY <2>2, <3>1, RxFlush DEF usbserial_dma_rx_completion
  <2> QED BY <2>1, <2>2, RxRests
<1>6. CASE TC3_Handler
  <2>1. ~sending_in
    BY <1>6 DEF TC3_Handler, Serial_, usbserial_handle_tc, RxInv, RxTurns
  <2> QED BY <1>6, <2>1, RxFlush DEF TC3_Handler, Serial_, usbserial_handle_tc
<1>7. CASE Hardware
  <2>1. UNCHANGED <<rxVars, tty>> \/ TimerOverflow
    BY <1>7 DEF Hardware, Flash_, Serial_, UartTx, serialVars, rxVars
  <2> QED BY <2>1, RxRests, RxSilence
<1>8. CASE Pc
  <2>1. UNCHANGED <<rxVars, tty>> \/ PcReadsTty \/ Detach
    BY <1>8 DEF Pc, Flash_, Serial_, PcWritesTty, serialVars, rxVars
  <2> QED BY <2>1, RxRests, RxReads, RxDetach
<1>9. CASE Serial_(UartRx)
  BY <1>9, RxByte DEF Serial_
<1>10. CASE UNCHANGED vars
  BY <1>10, RxRests DEF vars, serialVars, rxVars
<1> QED BY <1>1, <1>2, <1>3, <1>4, <1>5, <1>6, <1>7, <1>8, <1>9, <1>10 DEF Next

---------------------------------------------------------------------------
(* From the PC to the console.                                             *)

TxTypes == tty \in BOOLEAN /\ tx_put \in Nat /\ tx_got \in Seq(Nat) /\ buf_out \in Seq(Nat)

\* The packet is with the endpoint, with the UART or nowhere.
TxTurns ==
    /\ tx_dma = "running" => buf_out # <<>>
    /\ ~tty => tx_put = 0 /\ tx_got = <<>> /\ cdc_out = "off"
    /\ tty => \/ cdc_out = "armed" /\ buf_out = <<>> /\ tx_dma = "off"
              \/ cdc_out = "full" /\ buf_out # <<>> /\ tx_dma = "off"
              \/ cdc_out = "idle" /\ buf_out # <<>> /\ tx_dma = "running"
              \/ cdc_out = "idle" /\ buf_out = <<>> /\ tx_dma = "done"

\* The packet is what the UART has not sent yet.
TxBytes ==
    tty =>
        /\ tx_put = Len(tx_got) + Len(buf_out)
        /\ Numbered(tx_got)
        /\ \A i \in 1..Len(buf_out) : buf_out[i] = Len(tx_got) + i

TxInv == TxTypes /\ TxTurns /\ TxBytes

LEMMA TxInit == SerialInit => TxInv
BY EmptyBuffers DEF SerialInit, TxInv, TxTypes, TxTurns, TxBytes

LEMMA TxRests ==
    ASSUME TxInv, UNCHANGED <<txVars, tty>>
    PROVE  TxInv' /\ TxMoves
BY DEF txVars, TxInv, TxTypes, TxTurns, TxBytes, Numbered, TxMoves, Moved, TtyMode

LEMMA TxGone ==
    ASSUME TxInv, SerialGone
    PROVE  TxInv' /\ TxMoves
<1>1. TxInv'
  BY EmptyBuffers DEF SerialGone, TxInv, TxTypes, TxTurns, TxBytes
<1>2. TxMoves
  BY DEF SerialGone, TxInv, TxTurns, TxMoves, Moved, TtyMode
<1> QED BY <1>1, <1>2

LEMMA TxOpens ==
    ASSUME TxInv, usbserial_init
    PROVE  TxInv' /\ TxMoves
<1>1. tx_put = 0 /\ tx_got = <<>>
  BY DEF usbserial_init, TxInv, TxTurns
<1>2. TxTypes'
  BY <1>1, EmptyBuffers DEF usbserial_init, TxTypes
<1>3. TxTurns' /\ TxBytes'
  BY <1>1, EmptyBuffers DEF usbserial_init, TxTurns, TxBytes
<1>4. TxMoves
  BY <1>1 DEF usbserial_init, TxMoves, Moved, TtyMode
<1> QED BY <1>2, <1>3, <1>4 DEF TxInv

LEMMA TxDetach ==
    ASSUME TxInv, Detach
    PROVE  TxInv' /\ TxMoves
<1>1. TxTypes'
  BY EmptyBuffers DEF Detach, TxInv, TxTypes
<1>2. TxTurns' /\ TxBytes'
  BY DEF Detach, TxInv, TxTurns, TxBytes
<1>3. TxMoves
  BY DEF Detach, TxMoves, Moved, TtyMode
<1> QED BY <1>1, <1>2, <1>3 DEF TxInv

\* The packet goes to the UART; the endpoint is armed when it has been sent.
LEMMA TxHandlers ==
    ASSUME TxInv, usbserial_out_completion \/ usbserial_dma_tx_completion
    PROVE  TxInv' /\ TxMoves
<1>1. UNCHANGED <<tty, buf_out, tx_put, tx_got>>
  BY DEF usbserial_out_completion, usbserial_dma_tx_completion
<1>2. TxTypes' /\ TxBytes'
  BY <1>1 DEF TxInv, TxTypes, TxBytes, Numbered
<1>3. TxTurns'
  BY DEF usbserial_out_completion, usbserial_dma_tx_completion, TxInv, TxTurns
<1>4. TxMoves
  BY <1>1 DEF TxMoves, Moved, TtyMode
<1> QED BY <1>2, <1>3, <1>4 DEF TxInv

LEMMA TxPacket ==
    ASSUME TxInv, PcWritesTty
    PROVE  TxInv' /\ TxMoves
<1>1. PICK n \in 1..SIZE : tx_put' = tx_put + n
  BY DEF PcWritesTty
<1>2. /\ tty /\ tty' = tty /\ cdc_out = "armed" /\ cdc_out' = "full" /\ UNCHANGED <<tx_dma, tx_got>>
      /\ buf_out' = [i \in 1..(tx_put' - tx_put) |-> tx_put + i]
  BY DEF PcWritesTty
<1>3. buf_out = <<>> /\ tx_dma = "off" /\ tx_put = Len(tx_got) /\ tx_put \in Nat
  BY <1>2 DEF TxInv, TxTypes, TxTurns, TxBytes
<1>4. tx_put' - tx_put = n /\ n \in Nat /\ n > 0 /\ tx_put' \in Nat /\ tx_put' > tx_put
  BY <1>1, <1>3
<1>5. buf_out' = [i \in 1..n |-> tx_put + i]
  BY <1>2, <1>4
<1>6. buf_out' \in Seq(Nat) /\ Len(buf_out') = n /\ \A i \in 1..n : buf_out'[i] = tx_put + i
  <2>1. \A i \in 1..n : tx_put + i \in Nat
    BY <1>3, <1>4
  <2> QED BY <1>4, <1>5, <2>1
<1>7. TxTypes'
  BY <1>2, <1>4, <1>6 DEF TxInv, TxTypes
<1>8. TxTurns'
  <2>1. buf_out' # <<>>
    BY <1>4, <1>6
  <2> QED BY <1>2, <1>3, <2>1 DEF TxTurns
<1>9. TxBytes'
  BY <1>1, <1>2, <1>3, <1>6 DEF TxInv, TxBytes
<1>10. TxMoves
  BY <1>2, <1>4 DEF TxMoves, Moved, TtyMode
<1> QED BY <1>7, <1>8, <1>9, <1>10 DEF TxInv

LEMMA TxByte ==
    ASSUME TxInv, UartTx
    PROVE  TxInv' /\ TxMoves
<1>1. /\ tx_dma = "running" /\ buf_out' = Tail(buf_out)
      /\ tx_dma' = (IF buf_out' = <<>> THEN "done" ELSE "running")
      /\ tx_got' = IF tty THEN Append(tx_got, Head(buf_out)) ELSE tx_got
      /\ UNCHANGED <<cdc_out, tx_put, tty>>
  BY DEF UartTx
<1>2. CASE ~tty
  <2>0. buf_out # <<>> /\ buf_out \in Seq(Nat)
    BY <1>1 DEF TxInv, TxTypes, TxTurns
  <2>1. TxTypes'
    BY <1>1, <1>2, <2>0 DEF TxInv, TxTypes
  <2>2. TxTurns' /\ TxBytes'
    BY <1>1, <1>2 DEF TxInv, TxTurns, TxBytes
  <2>3. TxMoves
    BY <1>1, <1>2 DEF TxMoves, Moved, TtyMode
  <2> QED BY <2>1, <2>2, <2>3 DEF TxInv
<1>3. CASE tty
  <2>1. buf_out # <<>> /\ cdc_out = "idle" /\ buf_out \in Seq(Nat) /\ tx_got \in Seq(Nat)
    BY <1>1, <1>3 DEF TxInv, TxTypes, TxTurns
  <2>2. /\ Len(buf_out) \in Nat /\ Len(buf_out) > 0 /\ Len(tx_got) \in Nat
        /\ buf_out' \in Seq(Nat) /\ Len(buf_out') = Len(buf_out) - 1
        /\ \A i \in 1..Len(buf_out') : buf_out'[i] = buf_out[i + 1]
        /\ Head(buf_out) = buf_out[1] /\ Head(buf_out) \in Nat
    BY <1>1, <2>1
  <2>3. tx_put = Len(tx_got) + Len(buf_out) /\ Numbered(tx_got)
        /\ \A i \in 1..Len(buf_out) : buf_out[i] = Len(tx_got) + i
    BY <1>3 DEF TxInv, TxBytes
  <2>4. /\ tx_got' \in Seq(Nat) /\ Len(tx_got') = Len(tx_got) + 1
        /\ \A i \in 1..Len(tx_got) : tx_got'[i] = tx_got[i]
        /\ tx_got'[Len(tx_got) + 1] = Len(tx_got) + 1
    BY <1>1, <1>3, <2>1, <2>2, <2>3
  <2>5. Numbered(tx_got')
    <3>1. ASSUME NEW i \in 1..Len(tx_got') PROVE tx_got'[i] = i
      <4>1. CASE i = Len(tx_got) + 1
        BY <2>4, <4>1
      <4>2. CASE i # Len(tx_got) + 1
        <5>1. i \in 1..Len(tx_got)
          BY <2>2, <2>4, <4>2
        <5> QED BY <2>3, <2>4, <5>1 DEF Numbered
      <4> QED BY <4>1, <4>2
    <3> QED BY <3>1 DEF Numbered
  <2>6. TxTypes'
    BY <1>1, <2>2, <2>4 DEF TxInv, TxTypes
  <2>7. TxTurns'
    BY <1>1, <1>3, <2>1 DEF TxTurns
  <2>8. TxBytes'
    <3>1. ASSUME NEW i \in 1..Len(buf_out') PROVE buf_out'[i] = Len(tx_got') + i
      <4>1. i + 1 \in 1..Len(buf_out)
        BY <2>2
      <4>2. buf_out'[i] = Len(tx_got) + (i + 1)
        BY <2>2, <2>3, <4>1
      <4> QED BY <2>2, <2>4, <4>2
    <3>2. tx_put' = Len(tx_got') + Len(buf_out')
      BY <1>1, <2>2, <2>3, <2>4
    <3> QED BY <2>5, <3>1, <3>2 DEF TxBytes
  <2>9. TxMoves
    BY <1>1, <1>3, <2>2, <2>3, <2>4, <2>5 DEF TxMoves, Moved, TtyMode
  <2> QED BY <2>6, <2>7, <2>8, <2>9 DEF TxInv
<1> QED BY <1>2, <1>3

LEMMA TxStep ==
    ASSUME TxInv, [Next]_vars
    PROVE  TxInv' /\ TxMoves
<1>1. CASE PowerOn \/ handle_reset_pin \/ req_reset \/ WdtReset \/ PowerLoss
  BY <1>1, TxGone DEF PowerOn, handle_reset_pin, req_reset, WdtReset, Reset, PowerLoss
<1>2. CASE \/ LeaveBootloader \/ req_boot
           \/ task = "update" /\ Dfu /\ UNCHANGED <<flashVars, serialVars, usbVars>>
           \/ req_gpio \/ usb_cb_set_interface \/ SocBoots \/ bridge_handle_sync \/ TCC1_Handler
  <2>1. UNCHANGED serialVars
    BY <1>2 DEF LeaveBootloader, req_boot, req_gpio, usb_cb_set_interface, SetInterface, SocBoots,
                bridge_handle_sync, TCC1_Handler
  <2> QED BY <2>1, TxRests DEF serialVars, txVars
<1>3. CASE usb_cb_set_configuration
  BY <1>3, TxOpens DEF usb_cb_set_configuration
<1>4. CASE UsbCompletion
  <2>1. UNCHANGED <<txVars, tty>> \/ usbserial_out_completion
    BY <1>4 DEF UsbCompletion, Flash_, Serial_, usbserial_in_completion, serialVars, txVars
  <2> QED BY <2>1, TxRests, TxHandlers
<1>5. CASE DMAC_Handler
  <2>1. UNCHANGED <<txVars, tty>> \/ usbserial_dma_tx_completion
    BY <1>5 DEF DMAC_Handler, Flash_, Serial_, usbserial_dma_rx_completion, serialVars, txVars
  <2> QED BY <2>1, TxRests, TxHandlers
<1>6. CASE TC3_Handler \/ Serial_(UartRx)
  <2>1. UNCHANGED <<txVars, tty>>
    BY <1>6 DEF TC3_Handler, Serial_, usbserial_handle_tc, UartRx
  <2> QED BY <2>1, TxRests
<1>7. CASE Hardware
  <2>1. UNCHANGED <<txVars, tty>> \/ UartTx
    BY <1>7 DEF Hardware, Flash_, Serial_, TimerOverflow, serialVars, txVars
  <2> QED BY <2>1, TxRests, TxByte
<1>8. CASE Pc
  <2>1. UNCHANGED <<txVars, tty>> \/ PcWritesTty \/ Detach
    BY <1>8 DEF Pc, Flash_, Serial_, PcReadsTty, serialVars, txVars
  <2> QED BY <2>1, TxRests, TxPacket, TxDetach
<1>9. CASE UNCHANGED vars
  BY <1>9, TxRests DEF vars, serialVars, txVars
<1> QED BY <1>1, <1>2, <1>3, <1>4, <1>5, <1>6, <1>7, <1>8, <1>9 DEF Next

---------------------------------------------------------------------------
(* From the flash to the PC.                                               *)

Chunk == flash_in_packet_len(flash_op.in)

\* What the PC has, and what it is waiting for.
ReadPc ==
    /\ pc_got \in Seq(Nat) /\ Numbered(pc_got)
    /\ flash_op.in \in Nat /\ pc_op.op.in \in Nat
    /\ pc_op.stage \in {"none", "out", "in", "sent", "done"}
    /\ pc_op.stage \in {"none", "out", "sent"} => pc_got = <<>>
    /\ pc_op.stage \in {"none", "sent"} => pc_op.op.in = 0
    /\ pc_op.stage \in {"in", "done"} => pc_op.op.in > 0

\* The chip's next answer is in flash_buffer, and continues what the PC has.
Buffered ==
    chip.sent = Len(pc_got) + Chunk /\ flash_data = [i \in 1..Chunk |-> Len(pc_got) + i]

\* While the PC reads, flash_op.in counts what it has not been sent, and the chip's answer
\* is at the byte after the last one that was fetched.
ReadRest ==
    pc_op.stage = "in" =>
        /\ ep_out = "full" => pc_got = <<>>
        /\ flash_state = "OUT" => pc_got = <<>> /\ pc_op.op.in = flash_op.in /\ chip.sent = 0
        /\ flash_state = "IN_SPI" \/ ep_in = "sending" => pc_op.op.in = Len(pc_got) + flash_op.in
        /\ flash_state = "IN_SPI" /\ flash_dma = "running" => chip.sent = Len(pc_got)
        /\ (flash_state = "IN_SPI" /\ flash_dma = "done") \/ ep_in = "sending" => Buffered
        /\ ep_in = "done" => pc_op.op.in + Chunk = Len(pc_got) + flash_op.in /\ chip.sent = Len(pc_got)

ReadInv == ReadPc /\ ReadRest

LEMMA ChunkFacts ==
    ASSUME NEW n \in Nat
    PROVE  /\ flash_in_packet_len(n) \in Nat /\ flash_in_packet_len(n) <= n
           /\ flash_in_packet_len(n) <= BUF
           /\ flash_in_packet_len(n) # BUF => flash_in_packet_len(n) = n
BY FlashAssumption DEF flash_in_packet_len

LEMMA EmptySeq == <<>> \in Seq(Nat) /\ Len(<<>>) = 0 /\ Numbered(<<>>)
BY DEF Numbered

LEMMA ReadStill ==
    ASSUME UNCHANGED <<pc_op, pc_got>>
    PROVE  ReadMoves
BY DEF ReadMoves, Moved, ReadMode, ReadPut

LEMMA ReadPcKept ==
    ASSUME ReadPc, UNCHANGED <<pc_op, pc_got>>, flash_op'.in \in Nat
    PROVE  ReadPc'
BY DEF ReadPc, Numbered

LEMMA ReadInit == FlashInit => ReadInv
<1> SUFFICES ASSUME FlashInit PROVE ReadInv
  OBVIOUS
<1>1. pc_got = <<>> /\ pc_op.stage = "none" /\ pc_op.op.in = 0 /\ flash_op.in = 0
  BY DEF FlashInit, PcIdle, NoOp, Op
<1> QED BY <1>1, EmptySeq DEF ReadInv, ReadPc, ReadRest

LEMMA ReadRests ==
    ASSUME ReadInv,
           UNCHANGED <<flash_state, flash_op, flash_data, flash_dma, ep_out, ep_in, chip, pc_op, pc_got>>
    PROVE  ReadInv' /\ ReadMoves
<1>1. ReadPc'
  BY ReadPcKept DEF ReadInv, ReadPc
<1>2. ReadRest'
  BY DEF ReadInv, ReadRest, Buffered, Chunk, flash_in_packet_len
<1> QED BY <1>1, <1>2, ReadStill DEF ReadInv

\* A reset, or a change of the alternate setting, drops what the PC has.
LEMMA ReadGone ==
    ASSUME ReadInv, pc_op' = PcIdle, pc_got' = <<>>, flash_op'.in \in Nat
    PROVE  ReadInv' /\ ReadMoves
<1>1. pc_op'.stage = "none" /\ pc_op'.op.in = 0
  BY DEF PcIdle, NoOp, Op
<1>2. ReadInv'
  BY <1>1, EmptySeq DEF ReadInv, ReadPc, ReadRest
<1>3. CASE pc_op.op.in = 0
  <2>1. pc_got = <<>> /\ ReadPut = 0 /\ ReadPut' = 0 /\ ReadMode = "off" /\ ReadMode' = "off"
    BY <1>1, <1>3 DEF ReadInv, ReadPc, ReadPut, ReadMode
  <2> QED BY <1>2, <2>1 DEF ReadMoves, Moved
<1>4. CASE pc_op.op.in # 0
  <2>1. ReadMode # "off" /\ ReadMode' = "off" /\ ReadPut' = 0
    BY <1>1, <1>4 DEF ReadPut, ReadMode
  <2> QED BY <1>2, <2>1 DEF ReadMoves, Moved
<1> QED BY <1>3, <1>4

\* The programmer takes the read from its packet.
LEMMA ReadStarts ==
    ASSUME FlashInv, ReadInv, flash_usb_out_completion
    PROVE  ReadInv' /\ ReadMoves
<1>1. /\ flash_state = "IDLE" /\ ep_out = "full" /\ pc_op.stage \in {"in", "sent"}
      /\ pc_next \in {"ANY", "ERASE", "PAGES", "WAIT"} /\ pc_op.op \in Legal(pc_next)
      /\ ep_in \notin {"sending", "done"}
  BY DEF flash_usb_out_completion, FlashInv, Where, PcInv
<1>2. UNCHANGED <<pc_op, pc_got, ep_in, flash_data>>
  BY <1>1 DEF flash_usb_out_completion
<1>3. flash_op' \in {flash_op, pc_op.op}
  BY <1>1 DEF flash_usb_out_completion
<1>4. ReadPc'
  BY <1>2, <1>3, ReadPcKept DEF ReadInv, ReadPc
<1>5. ASSUME pc_op.stage = "in"
      PROVE  /\ flash_state' = "OUT" /\ flash_op' = pc_op.op /\ pc_got = <<>>
             /\ chip'.sent = 0 /\ ep_out' = "idle"
  <2>1. pc_op.op.cmd \in {"READ", "RDSR"}
    BY <1>1, <1>5, LegalFacts DEF ReadInv, ReadPc
  <2>2. ~pc_op.op.poll /\ ~pc_op.op.wren /\ pc_op.op.cmd # "NONE" /\ pc_op.op.cmd # "SHORT"
    BY <1>1, <2>1, LegalFacts
  <2>3. flash_op' = pc_op.op /\ StartDma("OUT", Lower(chip))
    BY <1>1, <2>2 DEF flash_usb_out_completion, flash_start_sr_poll, flash_start_wren, flash_start_write
  <2>4. chip'.sent = 0 /\ flash_state' = "OUT" /\ ep_out' = "idle"
    BY <2>3 DEF StartDma, Lower, NewFrame
  <2> QED BY <1>1, <1>5, <2>3, <2>4 DEF ReadInv, ReadRest
<1>6. ReadRest'
  BY <1>1, <1>2, <1>5 DEF ReadRest
<1> QED BY <1>2, <1>4, <1>6, ReadStill DEF ReadInv

\* The PC has the buffer: the programmer fetches the next one, or is done.
LEMMA ReadGoesOn ==
    ASSUME FlashInv, ReadInv, flash_usb_in_completion
    PROVE  ReadInv' /\ ReadMoves
<1>1. /\ flash_state = "IN_USB" /\ ep_in = "done" /\ ep_in' = "idle"
      /\ flash_op' = [flash_op EXCEPT !.in = @ - Chunk]
      /\ flash_start_read(flash_op', chip) /\ UNCHANGED <<pc_op, pc_got>>
  BY DEF flash_usb_in_completion, FlashInv, Where, Chunk
<1>2. flash_op'.in = flash_op.in - Chunk
  <2>1. flash_op = [cmd |-> flash_op.cmd, in |-> flash_op.in, poll |-> flash_op.poll,
                    wren |-> flash_op.wren]
    BY <1>1 DEF FlashInv, Working, WorkOp
  <2> QED BY <1>1, <2>1
<1>3. Chunk \in Nat /\ Chunk <= flash_op.in /\ flash_op.in \in Nat
  BY ChunkFacts DEF Chunk, ReadInv, ReadPc
<1>4. flash_op'.in \in Nat
  BY <1>2, <1>3
<1>5. ReadPc'
  BY <1>1, <1>4, ReadPcKept DEF ReadInv
<1>6. /\ flash_state' \in {"IN_SPI", "IDLE"} /\ ep_out' # "full"
      /\ flash_state' = "IN_SPI" => flash_dma' = "running" /\ chip' = chip
  BY <1>1 DEF flash_start_read, StartDma
<1>7. ASSUME pc_op.stage = "in", flash_state' = "IN_SPI"
      PROVE  pc_op.op.in = Len(pc_got) + flash_op'.in /\ chip.sent = Len(pc_got)
  <2>1. pc_op.op.in + Chunk = Len(pc_got) + flash_op.in /\ chip.sent = Len(pc_got)
    BY <1>1, <1>7 DEF ReadInv, ReadRest
  <2>2. Len(pc_got) \in Nat /\ pc_op.op.in \in Nat
    BY DEF ReadInv, ReadPc
  <2>3. ASSUME NEW a \in Nat, NEW b \in Nat, NEW c \in Nat, NEW d \in Nat, a + c = b + d
        PROVE  a = b + (d - c)
    BY <2>3
  <2>4. pc_op.op.in = Len(pc_got) + (flash_op.in - Chunk)
    BY <1>3, <2>1, <2>2, <2>3
  <2> QED BY <1>2, <2>1, <2>4
<1>8. ReadRest'
  BY <1>1, <1>6, <1>7 DEF ReadRest
<1> QED BY <1>1, <1>5, <1>8, ReadStill DEF ReadInv

\* After the command the programmer fetches the answer, and what it has fetched it sends.
LEMMA ReadFetches ==
    ASSUME FlashInv, ReadInv, flash_dma_rx_completion
    PROVE  ReadInv' /\ ReadMoves
<1>1. /\ flash_dma = "done" /\ flash_state \notin {"DISABLE", "IDLE"}
      /\ UNCHANGED <<flash_op, flash_data, pc_op, pc_got>>
  BY DEF flash_dma_rx_completion, FlashInv, Where
<1>2. ReadPc'
  BY <1>1, ReadPcKept DEF ReadInv, ReadPc
<1>3. CASE pc_op.stage # "in"
  <2>1. ReadRest'
    BY <1>1, <1>3 DEF ReadRest
  <2> QED BY <1>1, <1>2, <2>1, ReadStill DEF ReadInv
<1>4. CASE pc_op.stage = "in" /\ flash_state = "IN_SPI"
  <2>1. /\ ep_in' = "sending" /\ flash_state' = "IN_USB" /\ UNCHANGED <<ep_out, chip>>
    BY <1>4 DEF flash_dma_rx_completion
  <2>2. Buffered /\ pc_op.op.in = Len(pc_got) + flash_op.in
    BY <1>1, <1>4 DEF ReadInv, ReadRest
  <2>3. Buffered'
    BY <1>1, <2>1, <2>2 DEF Buffered, Chunk, flash_in_packet_len
  <2>4. ep_out' # "full"
    BY <1>1, <2>1 DEF FlashInv, Where
  <2>5. ReadRest'
    BY <1>1, <2>1, <2>2, <2>3, <2>4 DEF ReadRest
  <2> QED BY <1>1, <1>2, <2>5, ReadStill DEF ReadInv
<1>5. CASE pc_op.stage = "in" /\ flash_state = "IN_USB"
  <2>1. UNCHANGED <<flash_state, flash_dma, ep_out, ep_in, chip>>
    BY <1>5 DEF flash_dma_rx_completion, invalid
  <2> QED BY <1>1, <2>1, ReadRests
<1>6. CASE pc_op.stage = "in" /\ flash_state \notin {"IN_SPI", "IN_USB"}
  <2>1. pc_op.op.cmd \in {"READ", "RDSR"} /\ flash_op.cmd = pc_op.op.cmd
    BY <1>1, <1>6, LegalFacts DEF FlashInv, Working, WorkPc, PcInv, ReadInv, ReadPc
  <2>2. flash_state = "OUT"
    BY <1>1, <1>6, <2>1 DEF FlashInv, Working, WorkOp, Where
  <2>3. flash_start_read(flash_op, chip) /\ UNCHANGED ep_in /\ ep_in \notin {"sending", "done"}
    BY <2>2 DEF flash_dma_rx_completion, AfterDma, FlashInv, Where
  <2>4. pc_got = <<>> /\ pc_op.op.in = flash_op.in /\ chip.sent = 0 /\ flash_op.in \in Nat
    BY <1>6, <2>2 DEF ReadInv, ReadRest, ReadPc
  <2>5. /\ flash_state' \in {"IN_SPI", "IDLE"} /\ ep_out' # "full"
        /\ flash_state' = "IN_SPI" => flash_dma' = "running" /\ chip' = chip
    BY <2>3 DEF flash_start_read, StartDma
  <2>6. ReadRest'
    BY <1>1, <2>3, <2>4, <2>5, EmptySeq DEF ReadRest
  <2> QED BY <1>1, <1>2, <2>6, ReadStill DEF ReadInv
<1> QED BY <1>3, <1>4, <1>5, <1>6

\* The chip answers with the bytes that follow the ones it has answered with.
LEMMA ReadTransfers ==
    ASSUME FlashInv, ReadInv, SpiTransfer
    PROVE  ReadInv' /\ ReadMoves
<1>1. /\ flash_dma = "running" /\ flash_dma' = "done"
      /\ UNCHANGED <<flash_state, flash_op, ep_out, ep_in, pc_op, pc_got>>
  BY DEF SpiTransfer
<1>2. flash_state \notin {"DISABLE", "IDLE", "IN_USB"} /\ ep_in \notin {"sending", "done"}
  BY <1>1 DEF FlashInv, Where
<1>3. ReadPc'
  BY <1>1, ReadPcKept DEF ReadInv, ReadPc
<1>4. chip = [frame |-> chip.frame, sent |-> chip.sent, busy |-> chip.busy, wel |-> chip.wel,
              ignored |-> FALSE]
  BY DEF FlashInv, ChipInv
<1>5. CASE flash_state # "IN_SPI"
  <2>1. flash_state = "OUT" => chip' = [chip EXCEPT !.frame = flash_op.cmd]
    BY <1>5 DEF SpiTransfer
  <2>2. flash_state = "OUT" => chip'.sent = chip.sent
    BY <1>4, <2>1
  <2>3. ReadRest'
    BY <1>1, <1>2, <1>5, <2>2 DEF ReadInv, ReadRest
  <2> QED BY <1>1, <1>3, <2>3, ReadStill DEF ReadInv
<1>6. CASE flash_state = "IN_SPI" /\ pc_op.stage # "in"
  <2>1. ReadRest'
    BY <1>1, <1>6 DEF ReadRest
  <2> QED BY <1>1, <1>3, <2>1, ReadStill DEF ReadInv
<1>7. CASE flash_state = "IN_SPI" /\ pc_op.stage = "in"
  <2>1. flash_data' = Answer(chip, Chunk) /\ chip' = [chip EXCEPT !.sent = @ + Chunk]
    BY <1>7 DEF SpiTransfer, Chunk
  <2>2. chip.frame = "RDSR" \/ (chip.frame = "READ" /\ ~chip.busy)
    BY <1>2, <1>7 DEF FlashInv, Working, WorkOp, WorkChip, WorkFrame
  <2>3. Answer(chip, Chunk) = [i \in 1..Chunk |-> chip.sent + i]
    BY <2>2 DEF Answer
  <2>4. chip.sent = Len(pc_got) /\ pc_op.op.in = Len(pc_got) + flash_op.in
    BY <1>1, <1>7 DEF ReadInv, ReadRest
  <2>5. chip'.sent = Len(pc_got) + Chunk
    BY <1>4, <2>1, <2>4
  <2>6. Chunk' = Chunk
    BY <1>1 DEF Chunk, flash_in_packet_len
  <2>7. Buffered'
    BY <1>1, <2>1, <2>3, <2>4, <2>5, <2>6 DEF Buffered
  <2>8. ReadRest'
    BY <1>1, <1>2, <1>7, <2>4, <2>7 DEF ReadRest, FlashInv, Where
  <2> QED BY <1>1, <1>3, <2>8, ReadStill DEF ReadInv
<1> QED BY <1>5, <1>6, <1>7

LEMMA ReadChip ==
    ASSUME FlashInv, ReadInv, ChipReady
    PROVE  ReadInv' /\ ReadMoves
<1>1. UNCHANGED <<flash_state, flash_op, flash_data, flash_dma, ep_out, ep_in, pc_op, pc_got>>
  BY DEF ChipReady
<1>2. chip'.sent = chip.sent
  BY DEF ChipReady, FlashInv, ChipInv
<1>3. ReadPc'
  BY <1>1, ReadPcKept DEF ReadInv, ReadPc
<1>4. ReadRest'
  BY <1>1, <1>2 DEF ReadInv, ReadRest, Buffered, Chunk, flash_in_packet_len
<1> QED BY <1>1, <1>3, <1>4, ReadStill DEF ReadInv

\* The PC begins a read (its stream is opened), ...
LEMMA ReadOpens ==
    ASSUME FlashInv, ReadInv, PcWrites
    PROVE  ReadInv' /\ ReadMoves
<1>1. /\ pc_op.stage = "none" /\ pc_op.op.in = 0 /\ pc_op'.stage = "out" /\ pc_got' = <<>>
      /\ flash_op' = flash_op
  BY DEF PcWrites, PcIdle, NoOp, Op
<1>2. PICK op \in Legal(pc_next) : pc_op' = [op |-> op, stage |-> "out"]
  BY DEF PcWrites
<1>3. op.in \in Nat
  <2>1. CASE op \in {Op("READ", n, FALSE, FALSE) : n \in Reads}
    BY <2>1, FlashAssumption DEF Op
  <2>2. CASE op \notin {Op("READ", n, FALSE, FALSE) : n \in Reads}
    <3>1. op.in \in {0, 1}
      BY <1>2, <2>2 DEF Legal, Op, FlashInv, PcInv
    <3> QED BY <3>1
  <2> QED BY <2>1, <2>2
<1>4. pc_got = <<>> /\ pc_op'.op.in \in Nat
  BY <1>1, <1>2, <1>3 DEF ReadInv, ReadPc
<1>5. ReadPc'
  BY <1>1, <1>4, EmptySeq DEF ReadInv, ReadPc
<1>6. ReadRest'
  BY <1>1 DEF ReadRest
<1>7. ReadMoves
  BY <1>1, <1>4 DEF ReadMoves, Moved, ReadMode, ReadPut
<1> QED BY <1>5, <1>6, <1>7 DEF ReadInv

\* ... sends the command, which makes the bytes it wants those of the stream, ...
LEMMA ReadAsks ==
    ASSUME FlashInv, ReadInv, PcDelivers
    PROVE  ReadInv' /\ ReadMoves
<1>1. /\ pc_op.stage = "out" /\ ep_out' = "full"
      /\ pc_op' = [pc_op EXCEPT !.stage = IF pc_op.op.in > 0 THEN "in" ELSE "sent"]
      /\ UNCHANGED <<flash_state, flash_op, ep_in, pc_got>>
  BY DEF PcDelivers
<1>2. flash_state = "IDLE" /\ ep_in \notin {"sending", "done"}
  BY DEF PcDelivers, FlashInv, Where
<1>3. pc_op'.op = pc_op.op /\ pc_op'.stage = IF pc_op.op.in > 0 THEN "in" ELSE "sent"
  <2>1. pc_op = [op |-> pc_op.op, stage |-> pc_op.stage]
    BY DEF FlashInv, PcInv
  <2> QED BY <1>1, <2>1
<1>4. pc_got = <<>> /\ pc_op.op.in \in Nat
  BY <1>1 DEF ReadInv, ReadPc
<1>5. ReadPc'
  BY <1>1, <1>3, <1>4, EmptySeq DEF ReadInv, ReadPc
<1>6. ReadRest'
  BY <1>1, <1>2, <1>4 DEF ReadRest
<1>7. ReadMoves
  BY <1>1, <1>3, <1>4 DEF ReadMoves, Moved, ReadMode, ReadPut
<1> QED BY <1>5, <1>6, <1>7 DEF ReadInv

\* ... and drops the stream when it has been served.
LEMMA ReadDrops ==
    ASSUME ReadInv, PcReturns
    PROVE  ReadInv' /\ ReadMoves
BY ReadGone DEF PcReturns, ReadInv, ReadPc

\* What follows is longer by what it gets.
LEMMA Joined ==
    ASSUME NEW s \in Seq(Nat), NEW t \in Seq(Nat)
    PROVE  s \o t \in Seq(Nat) /\ Len(s \o t) = Len(s) + Len(t)
OBVIOUS

\* A packet that is not full ends a read, and it is the last one.
LEMMA ReadGets ==
    ASSUME WholePackets, FlashInv, ReadInv, PcReads
    PROVE  ReadInv' /\ ReadMoves
<1> DEFINE asked == IF pc_op.op.in < BUF THEN BUF ELSE pc_op.op.in
           ends == Len(flash_data) % PKT # 0 \/ Len(pc_got') >= asked
<1>1. /\ pc_op.stage = "in" /\ ep_in = "sending" /\ ep_in' = "done"
      /\ pc_got' = pc_got \o flash_data
      /\ pc_op' = [pc_op EXCEPT !.stage = IF ends THEN "done" ELSE "in"]
      /\ UNCHANGED <<flash_state, flash_op, flash_data, flash_dma, ep_out, chip>>
  BY DEF PcReads
<1>2. /\ chip.sent = Len(pc_got) + Chunk /\ flash_data = [i \in 1..Chunk |-> Len(pc_got) + i]
      /\ pc_op.op.in = Len(pc_got) + flash_op.in
  BY <1>1 DEF ReadInv, ReadRest, Buffered
<1>3. /\ pc_got \in Seq(Nat) /\ Len(pc_got) \in Nat /\ Numbered(pc_got)
      /\ flash_op.in \in Nat /\ pc_op.op.in \in Nat /\ pc_op.op.in > 0
      /\ Chunk \in Nat /\ Chunk <= flash_op.in /\ Chunk <= BUF /\ (Chunk # BUF => Chunk = flash_op.in)
  BY <1>1, ChunkFacts DEF ReadInv, ReadPc, Chunk
<1>4. /\ flash_data \in Seq(Nat) /\ Len(flash_data) = Chunk
      /\ \A i \in 1..Chunk : flash_data[i] = Len(pc_got) + i
  <2> DEFINE l == Len(pc_got)
  <2>1. l \in Nat /\ Chunk \in Nat /\ flash_data = [i \in 1..Chunk |-> l + i]
    BY <1>2, <1>3
  <2> HIDE DEF l
  <2>2. \A i \in 1..Chunk : l + i \in Nat
    BY <2>1
  <2>3. flash_data \in [1..Chunk -> Nat]
    BY <2>1, <2>2
  <2>4. flash_data \in Seq(Nat) /\ Len(flash_data) = Chunk
    BY <2>1, <2>3
  <2>5. \A i \in 1..Chunk : flash_data[i] = l + i
    BY <2>1
  <2> QED BY <2>4, <2>5 DEF l
<1>5. pc_got' \in Seq(Nat) /\ Len(pc_got') = Len(pc_got) + Chunk
  <2>1. pc_got' = pc_got \o flash_data
    BY <1>1
  <2>2. pc_got \in Seq(Nat) /\ flash_data \in Seq(Nat)
    BY <1>3, <1>4
  <2>3. pc_got' \in Seq(Nat) /\ Len(pc_got') = Len(pc_got) + Len(flash_data)
    BY <2>1, <2>2, Joined
  <2> QED BY <1>4, <2>3
<1>6. Numbered(pc_got')
  <2>1. ASSUME NEW i \in 1..Len(pc_got') PROVE pc_got'[i] = i
    <3>1. CASE i <= Len(pc_got)
      BY <1>1, <1>3, <1>4, <1>5, <3>1 DEF Numbered
    <3>2. CASE i > Len(pc_got)
      <4>1. i - Len(pc_got) \in 1..Chunk
        BY <1>3, <1>5, <3>2
      <4>2. pc_got'[i] = flash_data[i - Len(pc_got)]
        BY <1>1, <1>3, <1>4, <1>5, <3>2
      <4>3. flash_data[i - Len(pc_got)] = Len(pc_got) + (i - Len(pc_got))
        BY <1>4, <4>1
      <4>4. Len(pc_got) \in Nat /\ i \in Nat
        BY <1>3, <1>5
      <4> QED BY <4>2, <4>3, <4>4
    <3> QED BY <1>3, <1>5, <3>1, <3>2
  <2> QED BY <2>1 DEF Numbered
<1>7. pc_op'.op = pc_op.op /\ pc_op'.stage = IF ends THEN "done" ELSE "in"
  <2>1. pc_op = [op |-> pc_op.op, stage |-> pc_op.stage]
    BY DEF FlashInv, PcInv
  <2> QED BY <1>1, <2>1
<1>8. ends => Len(pc_got') = pc_op.op.in
  <2>1. CASE Chunk # BUF
    BY <1>2, <1>3, <1>5, <2>1
  <2>2. CASE Chunk = BUF
    <3>1. Len(flash_data) % PKT = 0
      BY <1>4, <2>2 DEF WholePackets
    <3>2. ends => Len(pc_got') >= asked
      BY <3>1
    <3>3. asked >= pc_op.op.in
      BY <1>3, FlashAssumption
    <3>4. Len(pc_got') <= pc_op.op.in /\ Len(pc_got') \in Nat
      BY <1>2, <1>3, <1>5
    <3>5. asked \in Nat
      BY <1>3, FlashAssumption
    <3> HIDE DEF asked, ends
    <3> QED BY <1>3, <3>2, <3>3, <3>4, <3>5
  <2> QED BY <2>1, <2>2
<1> HIDE DEF asked, ends
<1>9. ReadPc'
  BY <1>1, <1>3, <1>5, <1>6, <1>7 DEF ReadPc
<1>10. ReadRest'
  <2>1. Chunk' = Chunk
    BY <1>1 DEF Chunk, flash_in_packet_len
  <2>2. ep_out # "full" /\ flash_state = "IN_USB"
    BY <1>1 DEF FlashInv, Where
  <2>3. pc_op'.op.in + Chunk' = Len(pc_got') + flash_op'.in /\ chip'.sent = Len(pc_got')
    <3>1. pc_op'.op.in = Len(pc_got) + flash_op.in /\ chip'.sent = Len(pc_got) + Chunk
      BY <1>1, <1>2, <1>7
    <3>2. Len(pc_got') = Len(pc_got) + Chunk /\ flash_op'.in = flash_op.in
      BY <1>1, <1>5
    <3>3. ASSUME NEW a \in Nat, NEW b \in Nat, NEW c \in Nat PROVE (a + b) + c = (a + c) + b
      OBVIOUS
    <3>4. (Len(pc_got) + flash_op.in) + Chunk = (Len(pc_got) + Chunk) + flash_op.in
      BY <1>3, <3>3
    <3> QED BY <2>1, <3>1, <3>2, <3>4
  <2> QED BY <1>1, <2>2, <2>3 DEF ReadRest
<1>11. ReadMoves
  <2>1. ReadMode = "open" /\ ReadPut = pc_op.op.in
    BY <1>1, <1>3 DEF ReadMode, ReadPut
  <2>2. ReadMode' = (IF ends THEN "done" ELSE "open") /\ ReadPut' = pc_op.op.in
    BY <1>3, <1>7 DEF ReadMode, ReadPut
  <2>3. Len(pc_got) <= Len(pc_got') /\ Len(pc_got') <= pc_op.op.in
    BY <1>2, <1>3, <1>5
  <2> QED BY <1>6, <1>8, <2>1, <2>2, <2>3 DEF ReadMoves, Moved
<1> QED BY <1>9, <1>10, <1>11 DEF ReadInv

LEMMA ReadStep ==
    ASSUME WholePackets, FlashInv, ReadInv, [Next]_vars
    PROVE  ReadInv' /\ ReadMoves
<1>1. CASE PowerOn \/ handle_reset_pin \/ req_reset \/ WdtReset \/ PowerLoss
  <2>1. pc_op' = PcIdle /\ pc_got' = <<>> /\ flash_op' = NoOp
    BY <1>1 DEF PowerOn, handle_reset_pin, req_reset, WdtReset, Reset, PowerLoss, FlashGone
  <2> QED BY <2>1, ReadGone DEF NoOp, Op
<1>2. CASE usb_cb_set_interface
  <2>1. pc_op' = PcIdle /\ pc_got' = <<>> /\ flash_op' = flash_op
    BY <1>2 DEF usb_cb_set_interface, SetInterface
  <2> QED BY <2>1, ReadGone DEF ReadInv, ReadPc
<1>3. CASE bridge_handle_sync
  <2>1. /\ flash_dma' = "off"
        /\ UNCHANGED <<flash_state, flash_op, flash_data, ep_out, ep_in, chip, pc_op, pc_got>>
    BY <1>3 DEF bridge_handle_sync
  <2>2. ReadPc'
    BY <2>1, ReadPcKept DEF ReadInv, ReadPc
  <2>3. ReadRest'
    BY <2>1 DEF ReadInv, ReadRest, Buffered, Chunk, flash_in_packet_len
  <2> QED BY <2>1, <2>2, <2>3, ReadStill DEF ReadInv
<1>4. CASE \/ LeaveBootloader \/ (task = "update" /\ Dfu /\ UNCHANGED <<flashVars, serialVars, usbVars>>)
           \/ req_boot \/ req_gpio \/ usb_cb_set_configuration \/ SocBoots \/ TCC1_Handler \/ TC3_Handler
           \/ Serial_(UartRx) \/ UNCHANGED vars
  <2>1. UNCHANGED flashVars
    BY <1>4 DEF LeaveBootloader, req_boot, req_gpio, usb_cb_set_configuration, SocBoots, TCC1_Handler,
                TC3_Handler, Serial_, vars
  <2> QED BY <2>1, ReadRests DEF flashVars
<1>5. CASE UsbCompletion \/ DMAC_Handler \/ Hardware \/ Pc
  <2>1. \/ UNCHANGED flashVars
        \/ flash_usb_out_completion \/ flash_usb_in_completion \/ flash_dma_rx_completion
        \/ SpiTransfer \/ ChipReady \/ PcWrites \/ PcDelivers \/ PcReads \/ PcReturns
    BY <1>5 DEF UsbCompletion, DMAC_Handler, Hardware, Pc, Flash_, Serial_
  <2>2. CASE UNCHANGED flashVars
    BY <2>2, ReadRests DEF flashVars
  <2> QED BY <2>1, <2>2, ReadStarts, ReadGoesOn, ReadFetches, ReadTransfers, ReadChip, ReadOpens, ReadAsks,
             ReadGets, ReadDrops
<1> QED BY <1>1, <1>2, <1>3, <1>4, <1>5 DEF Next


---------------------------------------------------------------------------
(* The refinement.                                                         *)

StreamInv == FlashInv /\ RxInv /\ TxInv /\ ReadInv

LEMMA StreamInit == Init => StreamInv /\ Stream!Init
<1> SUFFICES ASSUME Init PROVE StreamInv /\ Stream!Init
  OBVIOUS
<1>1. StreamInv
  BY FlashStarts, RxInit, TxInit, ReadInit DEF Init, StreamInv
<1>2. ~tty /\ rx_put = 0 /\ tx_put = 0 /\ rx_got = <<>> /\ tx_got = <<>> /\ pc_got = <<>>
  BY DEF Init, FlashInit, SerialInit
<1>3. pc_op.op.in = 0 /\ pc_op.stage = "none"
  BY DEF Init, FlashInit, PcIdle, NoOp, Op
<1>4. Stream!Init
  BY <1>2, <1>3 DEF Stream!Init
<1> QED BY <1>1, <1>4

LEMMA StreamStep ==
    ASSUME PromptPc, WholePackets, StreamInv, [Next]_vars
    PROVE  StreamInv' /\ Stream!Next
<1>1. FlashInv' /\ RxInv' /\ TxInv' /\ ReadInv' /\ RxMoves /\ TxMoves /\ ReadMoves
  BY FlashStep, RxStep, TxStep, ReadStep DEF StreamInv
<1> QED BY <1>1, StreamMoves DEF StreamInv

\* The bytes of the console in either direction and those of a read of the flash arrive
\* whole, in order and once, and a read ends when it has all it asked for (usbserial.c,
\* flash.c), through every reset, detaching and change of the alternate setting: if the PC
\* reads a console buffer before the other is full, and full buffers of the programmer are
\* full packets.
THEOREM StreamsAreImplemented == PromptPc /\ WholePackets => (Spec => StreamsImplemented)
<1> SUFFICES ASSUME PromptPc, WholePackets PROVE Spec => StreamsImplemented
  OBVIOUS
<1>1. Init => StreamInv /\ Stream!Init
  BY StreamInit
<1>2. StreamInv /\ [Next]_vars => StreamInv' /\ Stream!Next
  BY StreamStep
<1> QED BY <1>1, <1>2, PTL DEF Spec, StreamsImplemented, Stream!Spec
===========================================================================
