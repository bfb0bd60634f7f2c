------------------------------- MODULE Flash -------------------------------
(***************************************************************************)
(* flash.c, which programs the SoC's SPI flash for the PC, with the flash  *)
(* chip and scripts/flash.py at its two ends (external).                   *)
(*                                                                         *)
(* A transaction of the PC is one OUT packet, in_count and flags followed  *)
(* by the chip's command, and in_count bytes back.  The bytes the chip     *)
(* answers to a command are numbered from 1; 0 is a byte it did not give.  *)
(***************************************************************************)
EXTENDS Naturals, Sequences

CONSTANTS
    BUF,     \* FLASH_BUFFER_SIZE, 512 bytes
    PKT,     \* bytes in a USB packet, 64
    Reads,   \* lengths of the PC's reads
    Odd      \* further transactions the PC sends: subset of {"SHORT", "NONE"}

ASSUME FlashAssumption ==
    /\ BUF \in Nat \ {0} /\ PKT \in Nat \ {0} /\ Reads \subseteq Nat
    /\ Odd \subseteq {"SHORT", "NONE"}

VARIABLES
    flash_state,
    flash_op,    \* flash_out_count, flash_in_count and the flags, with the command
    flash_data,  \* what the chip answered, in flash_buffer
    flash_busy,  \* bit 0 of the last status byte the chip gave
    flash_dma,   \* DMA_FLASH_RX: "off", "running" or "done" (its interrupt is pending)
    sercom,      \* SERCOM_BRIDGE: "master" (of the chip) or "slave" (of the SoC)
    ep_out,      \* "off", "idle", "armed", or "full" (its completion is pending)
    ep_in,       \* "off", "idle", "sending", or "done"
    halted,      \* invalid() was called
    chip,
    pc_op,       \* the transaction the PC performs
    pc_got,      \* the bytes it has got back
    pc_next      \* what flash.py does next: "ANY", "ERASE", "PAGES" or "WAIT"

flashVars == <<flash_state, flash_op, flash_data, flash_busy, flash_dma, sercom, ep_out,
               ep_in, halted, chip, pc_op, pc_got, pc_next>>

Op(cmd, in, poll, wren) == [cmd |-> cmd, in |-> in, poll |-> poll, wren |-> wren]
NoOp == Op("NONE", 0, FALSE, FALSE)
PcIdle == [op |-> NoOp, stage |-> "none"]

\* The chip when CS has just fallen or risen.
NewFrame(busy, wel, ignored) ==
    [frame |-> "none", sent |-> 0, busy |-> busy, wel |-> wel, ignored |-> ignored]
SilentChip == NewFrame(FALSE, FALSE, FALSE)

FlashInit ==
    /\ flash_state = "DISABLE" /\ flash_op = NoOp /\ flash_data = <<>> /\ flash_busy = FALSE
    /\ flash_dma = "off" /\ sercom = "slave" /\ ep_out = "off" /\ ep_in = "off"
    /\ halted = FALSE /\ chip = SilentChip
    /\ pc_op = PcIdle /\ pc_got = <<>> /\ pc_next = "ANY"

---------------------------------------------------------------------------
(* The chip (external).  A command is what it receives while CS is low.    *)

Lower(ch) == NewFrame(ch.busy, ch.wel, ch.ignored)

\* CS rises: the chip does what it was told, unless it is busy or may not write.
Raise(ch) ==
    LET writes == ch.frame \in {"PP", "ERASE"}
    IN IF ch.frame = "WREN" /\ ~ch.busy THEN NewFrame(FALSE, TRUE, ch.ignored)
       ELSE IF writes /\ ch.wel /\ ~ch.busy THEN NewFrame(TRUE, FALSE, ch.ignored)
       ELSE NewFrame(ch.busy, ch.wel, ch.ignored \/ writes \/ ch.frame = "WREN")

\* len more bytes of the chip's answer.
Answer(ch, len) ==
    [i \in 1..len |-> IF ch.frame = "RDSR" \/ (ch.frame = "READ" /\ ~ch.busy)
                      THEN ch.sent + i ELSE 0]

\* The chip finishes erasing or programming.
ChipReady ==
    /\ chip.busy
    /\ chip' = [chip EXCEPT !.busy = FALSE]
    /\ UNCHANGED <<flash_state, flash_op, flash_data, flash_busy, flash_dma, sercom, ep_out,
                   ep_in, halted, pc_op, pc_got, pc_next>>

---------------------------------------------------------------------------
(* The state machine of flash.c.                                           *)

flash_in_packet_len(in) == IF in > BUF THEN BUF ELSE in

StartDma(state, ch) ==
    flash_dma' = "running" /\ flash_state' = state /\ chip' = ch /\ ep_out' = "idle"

flash_start_read(op, ch) ==
    IF op.in > 0 THEN StartDma("IN_SPI", ch)
    ELSE /\ chip' = Raise(ch) /\ ep_out' = "armed" /\ flash_state' = "IDLE"
         /\ flash_dma' = "off"

flash_start_write(op, ch) ==
    IF op.cmd # "NONE" THEN StartDma("OUT", Lower(ch)) ELSE flash_start_read(op, Lower(ch))

flash_start_wren(op, ch) ==
    IF op.wren THEN StartDma("WREN_OUT", Lower(ch)) ELSE flash_start_write(op, ch)

flash_start_sr_poll(op, ch) ==
    IF op.poll THEN StartDma("SR_POLL_OUT", Lower(ch)) ELSE flash_start_wren(op, ch)

flash_read_sr_poll == StartDma("SR_POLL_IN", chip)

invalid ==
    /\ halted' = TRUE
    /\ UNCHANGED <<flash_state, flash_op, flash_dma, ep_out, ep_in, chip>>

\* A packet too short to hold a header is dropped, and the endpoint not armed again.
flash_usb_out_completion ==
    /\ ep_out = "full"
    /\ IF flash_state # "IDLE" THEN invalid
       ELSE IF pc_op.op.cmd = "SHORT"
       THEN ep_out' = "idle" /\ UNCHANGED <<flash_state, flash_op, flash_dma, chip, ep_in, halted>>
       ELSE /\ flash_op' = pc_op.op
            /\ flash_start_sr_poll(pc_op.op, chip)
            /\ UNCHANGED <<ep_in, halted>>
    /\ UNCHANGED <<flash_data, flash_busy, sercom, pc_op, pc_got, pc_next>>

flash_usb_in_completion ==
    /\ ep_in = "done"
    /\ IF flash_state # "IN_USB" THEN invalid
       ELSE LET op == [flash_op EXCEPT !.in = @ - flash_in_packet_len(@)]
            IN flash_op' = op /\ flash_start_read(op, chip) /\ ep_in' = "idle" /\ UNCHANGED halted
    /\ UNCHANGED <<flash_data, flash_busy, sercom, pc_op, pc_got, pc_next>>

\* Mutant: CS stays low between write enable and the command.
AfterDma_cs_low ==
    CASE flash_state = "SR_POLL_OUT" -> flash_read_sr_poll
      [] flash_state = "SR_POLL_IN" /\ flash_busy -> flash_read_sr_poll
      [] flash_state = "SR_POLL_IN" /\ ~flash_busy -> flash_start_wren(flash_op, Raise(chip))
      [] flash_state = "WREN_OUT" -> flash_start_write(flash_op, chip)
      [] flash_state = "OUT" -> flash_start_read(flash_op, chip)

\* What follows a transfer by DMA, by the state it was made in.
AfterDma ==
    CASE flash_state = "SR_POLL_OUT" -> flash_read_sr_poll
      [] flash_state = "SR_POLL_IN" /\ flash_busy -> flash_read_sr_poll
      [] flash_state = "SR_POLL_IN" /\ ~flash_busy -> flash_start_wren(flash_op, Raise(chip))
      [] flash_state = "WREN_OUT" -> flash_start_write(flash_op, Raise(chip))
      [] flash_state = "OUT" -> flash_start_read(flash_op, chip)

flash_dma_rx_completion ==
    /\ flash_dma = "done"
    /\ IF flash_state = "DISABLE"
       THEN flash_dma' = "off" /\ UNCHANGED <<flash_state, ep_out, ep_in, chip, halted>>
       ELSE IF flash_state = "IN_SPI"
       THEN /\ ep_in' = "sending" /\ flash_state' = "IN_USB" /\ flash_dma' = "off"
            /\ UNCHANGED <<ep_out, chip, halted>>
       ELSE IF flash_state \in {"IDLE", "IN_USB"} THEN invalid
       ELSE AfterDma /\ UNCHANGED <<ep_in, halted>>
    /\ UNCHANGED <<flash_op, flash_data, flash_busy, sercom, pc_op, pc_got, pc_next>>

\* Selecting and leaving the alternate setting.  wired: the SERCOM becomes master and
\* stays it.  The reset of the DMA channel takes back a pending interrupt.
flash_init(wired) ==
    /\ sercom' = (IF wired THEN "master" ELSE "slave")
    /\ flash_dma' = "off" /\ flash_state' = "IDLE" /\ ep_out' = "armed" /\ ep_in' = "idle"

flash_disable == flash_state' = "DISABLE" /\ ep_out' = "off" /\ ep_in' = "off"

---------------------------------------------------------------------------
(* The SPI bus and the PC (external).                                      *)

\* The DMA has written what flash.c gave it to the chip, or read from it.
SpiTransfer ==
    /\ flash_dma = "running" /\ sercom = "master"
    /\ flash_dma' = "done"
    /\ LET len == flash_in_packet_len(flash_op.in)
           out == CASE flash_state = "SR_POLL_OUT" -> "RDSR"
                    [] flash_state = "WREN_OUT" -> "WREN"
                    [] OTHER -> flash_op.cmd
       IN CASE flash_state = "IN_SPI" ->
                 /\ flash_data' = Answer(chip, len)
                 /\ chip' = [chip EXCEPT !.sent = @ + len]
                 /\ flash_busy' = chip.busy
            [] flash_state = "SR_POLL_IN" -> flash_busy' = chip.busy /\ UNCHANGED <<flash_data, chip>>
            [] OTHER -> chip' = [chip EXCEPT !.frame = out] /\ UNCHANGED <<flash_data, flash_busy>>
    /\ UNCHANGED <<flash_state, flash_op, sercom, ep_out, ep_in, halted, pc_op, pc_got, pc_next>>

\* The transactions of flash.py: a read or an erasure or pages when it likes; an erasure
\* is preceded by write enable, and it waits for the chip after erasing and after pages.
Legal(next) ==
    CASE next = "ANY" -> {Op("READ", n, FALSE, FALSE) : n \in Reads}
                         \cup {Op("WREN", 0, FALSE, FALSE), Op("PP", 0, TRUE, TRUE)}
                         \cup {Op(c, 0, FALSE, FALSE) : c \in Odd}
      [] next = "ERASE" -> {Op("ERASE", 0, FALSE, FALSE)}
      [] next = "PAGES" -> {Op("PP", 0, TRUE, TRUE), Op("RDSR", 1, FALSE, FALSE)}
      [] next = "WAIT" -> {Op("RDSR", 1, FALSE, FALSE)}

After(op) ==
    CASE op.cmd = "WREN" -> "ERASE"
      [] op.cmd = "ERASE" -> "WAIT"
      [] op.cmd = "PP" -> "PAGES"
      [] op.cmd = "RDSR" -> IF flash_busy THEN "WAIT" ELSE "ANY"
      [] OTHER -> "ANY"

PcWrites ==
    /\ pc_op = PcIdle /\ ep_out # "off"
    /\ \E op \in Legal(pc_next) : pc_op' = [op |-> op, stage |-> "out"]
    /\ pc_got' = <<>>
    /\ UNCHANGED <<flash_state, flash_op, flash_data, flash_busy, flash_dma, sercom, ep_out,
                   ep_in, halted, chip, pc_next>>

PcDelivers ==
    /\ pc_op.stage = "out" /\ ep_out = "armed"
    /\ ep_out' = "full"
    /\ pc_op' = [pc_op EXCEPT !.stage = IF pc_op.op.in > 0 THEN "in" ELSE "sent"]
    /\ UNCHANGED <<flash_state, flash_op, flash_data, flash_busy, flash_dma, sercom, ep_in,
                   halted, chip, pc_got, pc_next>>

\* A read of USB ends with a packet that is not full, or with what was asked for, which
\* is at least one buffer.
PcReads ==
    /\ pc_op.stage = "in" /\ ep_in = "sending"
    /\ ep_in' = "done"
    /\ pc_got' = pc_got \o flash_data
    /\ LET asked == IF pc_op.op.in < BUF THEN BUF ELSE pc_op.op.in
           ends == Len(flash_data) % PKT # 0 \/ Len(pc_got') >= asked
       IN pc_op' = [pc_op EXCEPT !.stage = IF ends THEN "done" ELSE "in"]
    /\ UNCHANGED <<flash_state, flash_op, flash_data, flash_busy, flash_dma, sercom, ep_out,
                   halted, chip, pc_next>>

\* flash.py goes on.  Its next packet waits for an armed endpoint anyway, so the one
\* sent is taken to be read first.
PcReturns ==
    /\ pc_op.stage = "done" \/ (pc_op.stage = "sent" /\ ep_out # "full")
    /\ pc_next' = After(pc_op.op)
    /\ pc_op' = PcIdle /\ pc_got' = <<>>
    /\ UNCHANGED <<flash_state, flash_op, flash_data, flash_busy, flash_dma, sercom, ep_out,
                   ep_in, halted, chip>>
============================================================================
