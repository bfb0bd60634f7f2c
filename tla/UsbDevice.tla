----------------------------- MODULE UsbDevice -----------------------------
(***************************************************************************)
(* The MCU as a USB device: its life from reset to reset (main.c, boot),   *)
(* the alternate settings and control requests of usb.c, and under them    *)
(* the flash programmer and the serial console.  Of the bridge and the     *)
(* pipe only being on is modelled here; BridgeLink and UsbPipe have the    *)
(* rest.                                                                   *)
(***************************************************************************)
EXTENDS Flash, UsbSerial, Boot

CONSTANT RunningSoc   \* the PC selects flash programming, or starts the SoC under it,
                      \* without regard for what the SoC does

VARIABLES
    altsetting,   \* "NONE", "FLASH" or "PIPE"
    bridge_on,    \* bridge_state # BRIDGE_STATE_DISABLE
    pipe_on,
    booted,
    breathing,    \* the LED's animation runs
    soc,          \* "off": held in reset; "linux"; "daemon": spid drives SYNC
    task          \* what the PC does in this behaviour: "terminal", "flash" or "update"

usbVars == <<altsetting, bridge_on, pipe_on, booted, breathing, soc, task>>
vars == <<flashVars, serialVars, bootVars, usbVars>>

Up == running = "firmware" /\ ~halted

Init ==
    /\ FlashInit /\ SerialInit /\ BootInit
    /\ altsetting = "NONE" /\ bridge_on = FALSE /\ pipe_on = FALSE /\ booted = FALSE
    /\ breathing = FALSE /\ soc = "off"
    /\ task \in {"terminal", "flash", "update"}

---------------------------------------------------------------------------
(* Reset.                                                                  *)

\* A reset of the MCU lets go of the flash chip's CS and of USB.
FlashGone(ch) ==
    /\ flash_state' = "DISABLE" /\ flash_dma' = "off" /\ sercom' = "slave" /\ halted' = FALSE
    /\ ep_out' = "off" /\ ep_in' = "off"
    /\ chip' = ch /\ pc_op' = PcIdle /\ pc_got' = <<>> /\ pc_next' = "ANY"
    /\ flash_op' = NoOp /\ flash_data' = <<>> /\ flash_busy' = FALSE

SerialGone ==
    /\ active_rx_buf' = 0 /\ sending_in' = FALSE /\ buf_in' = [b \in 0..1 |-> Blank]
    /\ buf_out' = <<>> /\ rx_count' = 0 /\ rx_dma' = "off" /\ tx_dma' = "off"
    /\ timer' = FALSE /\ ovf' = FALSE /\ ovf_en' = FALSE
    /\ cdc_in' = EpOff /\ cdc_out' = "off"
    /\ tty' = FALSE /\ rx_put' = 0 /\ rx_got' = <<>> /\ tx_put' = 0 /\ tx_got' = <<>>

\* main of the firmware starts the SoC, cutting its power first after some resets, and
\* the bridge; before it the boot loader holds the SoC in reset after power came on.
Starts(cause) ==
    /\ altsetting' = "NONE" /\ pipe_on' = FALSE /\ booted' = FALSE
    /\ bridge_on' = (running' = "firmware")
    /\ breathing' = (running' = "firmware")
    /\ soc' = IF running' = "firmware"
              THEN IF cause \in {"POR", "SYST"} \/ soc = "off" THEN "linux" ELSE soc
              ELSE IF cause = "POR" THEN "off" ELSE soc
    /\ UNCHANGED task

Reset(cause) ==
    /\ \E button_pressed \in BOOLEAN : BootMain(cause, button_pressed)
    /\ Starts(cause) /\ FlashGone(Raise(chip)) /\ SerialGone

PowerOn == running = "off" /\ Reset("POR")
handle_reset_pin == Up /\ Reset("SYST")
req_reset == Up /\ Reset("SYST")
WdtReset == wdt /\ Reset("WDT")

\* The boot loader's jump starts the firmware with the SoC as it is, unless the cause of
\* the reset was one that cuts its power.
LeaveBootloader == BootLeaves /\ Starts(rcause) /\ UNCHANGED <<flashVars, serialVars>>

PowerLoss ==
    /\ running # "off" /\ running' = "off"
    /\ rcause' = "POR" /\ dfu' = NoDfu /\ wdt' = FALSE /\ UNCHANGED <<nvm, complete>>
    /\ FlashGone(SilentChip) /\ SerialGone
    /\ altsetting' = "NONE" /\ pipe_on' = FALSE /\ booted' = FALSE
    /\ bridge_on' = FALSE /\ breathing' = FALSE /\ soc' = "off"
    /\ UNCHANGED task

---------------------------------------------------------------------------
(* Control requests and alternate settings.                                *)

req_boot ==
    /\ Up /\ ~wdt /\ task = "update"
    /\ wdt' = TRUE
    /\ UNCHANGED <<flashVars, serialVars, usbVars, running, nvm, rcause, dfu, complete>>

\* REQ_PWR of the SoC's reset line: flash.py raises it when it is done.
req_gpio ==
    /\ Up /\ (altsetting # "FLASH" \/ RunningSoc)
    /\ \/ soc # "off" /\ soc' = "off"
       \/ soc = "off" /\ soc' = "linux"
    /\ UNCHANGED <<flashVars, serialVars, bootVars, altsetting, bridge_on, pipe_on, booted, breathing, task>>

\* Selecting FLASH resets the SoC.  If its daemon held SYNC high, SYNC falls, and
\* bridge_handle_sync, which bridge_disable leaves enabled, makes the SERCOM a slave again.
SetInterface(new) ==
    /\ Up /\ task = "flash"
    /\ chip' = IF altsetting = "FLASH" THEN Raise(chip) ELSE chip
    /\ new = "FLASH" => ~chip'.busy /\ (soc # "daemon" \/ RunningSoc)
    /\ altsetting' = new
    /\ breathing' = ((breathing \/ altsetting = "FLASH") /\ new # "FLASH")
    /\ bridge_on' = (new # "FLASH" \/ soc = "daemon" \/ (altsetting = "FLASH" /\ bridge_on))
    /\ pipe_on' = (new = "PIPE" /\ booted)
    /\ soc' = IF new = "FLASH" THEN "off" ELSE soc
    /\ IF new = "FLASH" THEN flash_init(soc # "daemon")
       ELSE IF altsetting = "FLASH" THEN flash_disable /\ flash_dma' = "off" /\ UNCHANGED sercom
       ELSE UNCHANGED <<flash_state, flash_dma, sercom, ep_out, ep_in>>
    /\ pc_op' = PcIdle /\ pc_got' = <<>> /\ pc_next' = "ANY"
    /\ UNCHANGED <<flash_op, flash_data, flash_busy, halted, serialVars, bootVars, booted, task>>

usb_cb_set_interface == \E new \in {"NONE", "FLASH", "PIPE"} : SetInterface(new)

usb_cb_set_configuration ==
    Up /\ task = "terminal" /\ usbserial_init /\ UNCHANGED <<flashVars, bootVars, usbVars>>

---------------------------------------------------------------------------
(* The SoC, the LED.                                                       *)

\* (External.) Linux has started the daemon.
SocBoots ==
    /\ soc = "linux" /\ soc' = "daemon"
    /\ UNCHANGED <<flashVars, serialVars, bootVars, altsetting, bridge_on, pipe_on, booted, breathing, task>>

\* The daemon's first header: bridge_handle_sync sets booted, or, when the flash is being
\* programmed, takes the SERCOM and its DMA away.
bridge_handle_sync ==
    /\ Up /\ soc = "daemon"
    /\ ~booted \/ sercom = "master"
    /\ booted' = TRUE /\ bridge_on' = TRUE
    /\ sercom' = "slave" /\ flash_dma' = "off"
    /\ UNCHANGED <<flash_state, flash_op, flash_data, flash_busy, ep_out, ep_in, halted, chip, pc_op,
                   pc_got, pc_next, serialVars, bootVars, altsetting, pipe_on, breathing, soc, task>>

\* The next overflow of the LED's timer after booting stops the animation.
TCC1_Handler ==
    /\ Up /\ breathing /\ booted
    /\ breathing' = FALSE
    /\ UNCHANGED <<flashVars, serialVars, bootVars, altsetting, bridge_on, pipe_on, booted, soc, task>>

---------------------------------------------------------------------------
(* Dispatch of the interrupts (usb_cb_completion, DMAC_Handler, TC3).      *)

Flash_(A) == A /\ UNCHANGED <<serialVars, bootVars, usbVars>>
Serial_(A) == A /\ UNCHANGED <<flashVars, bootVars, usbVars>>

UsbCompletion ==
    Up /\ \/ altsetting = "FLASH" /\ Flash_(flash_usb_out_completion)
          \/ altsetting = "FLASH" /\ Flash_(flash_usb_in_completion)
          \/ Serial_(usbserial_out_completion)
          \/ Serial_(usbserial_in_completion)

DMAC_Handler ==
    Up /\ \/ Flash_(flash_dma_rx_completion)
          \/ Serial_(usbserial_dma_rx_completion)
          \/ Serial_(usbserial_dma_tx_completion)

TC3_Handler == Up /\ Serial_(usbserial_handle_tc)

\* What the chip, the UART and the timer do by themselves.
Hardware == Flash_(SpiTransfer) \/ Flash_(ChipReady) \/ Serial_(UartTx) \/ Serial_(TimerOverflow)

Pc == Flash_(PcWrites) \/ Flash_(PcDelivers) \/ Flash_(PcReads) \/ Flash_(PcReturns)
      \/ Serial_(PcWritesTty) \/ Serial_(PcReadsTty) \/ Serial_(Detach)

Next ==
    \/ PowerOn \/ handle_reset_pin \/ req_reset \/ WdtReset \/ LeaveBootloader \/ PowerLoss
    \/ task = "update" /\ Dfu /\ UNCHANGED <<flashVars, serialVars, usbVars>>
    \/ req_boot \/ req_gpio \/ usb_cb_set_interface \/ usb_cb_set_configuration
    \/ SocBoots \/ bridge_handle_sync \/ TCC1_Handler
    \/ UsbCompletion \/ DMAC_Handler \/ TC3_Handler
    \/ Hardware \/ Pc \/ Serial_(UartRx)

Spec == Init /\ [][Next]_vars

\* Interrupts are served, hardware finishes what was started, and the PC takes what it
\* asked for.
Fairness ==
    /\ WF_vars(UsbCompletion) /\ WF_vars(DMAC_Handler) /\ WF_vars(TC3_Handler)
    /\ WF_vars(Flash_(SpiTransfer)) /\ WF_vars(Flash_(ChipReady))
    /\ WF_vars(Serial_(UartTx)) /\ WF_vars(Serial_(TimerOverflow))
    /\ WF_vars(Flash_(PcDelivers)) /\ WF_vars(Flash_(PcReads)) /\ WF_vars(Serial_(PcReadsTty))

FairSpec == Spec /\ Fairness

---------------------------------------------------------------------------
(* Properties.                                                             *)

TypeOK ==
    /\ flash_state \in {"DISABLE", "IDLE", "OUT", "IN_SPI", "IN_USB", "SR_POLL_OUT", "SR_POLL_IN",
                        "WREN_OUT"}
    /\ flash_dma \in {"off", "running", "done"} /\ sercom \in {"master", "slave"}
    /\ ep_out \in {"off", "idle", "armed", "full"} /\ ep_in \in {"off", "idle", "sending", "done"}
    /\ active_rx_buf \in 0..1 /\ rx_count \in 0..SIZE
    /\ rx_dma \in {"off", "running", "done"} /\ tx_dma \in {"off", "running", "done"}
    /\ running \in {"off", "bootloader", "firmware", "hung"}
    /\ altsetting \in {"NONE", "FLASH", "PIPE"} /\ soc \in {"off", "linux", "daemon"}

\* The flash chip is never told to erase or to write while it is busy or not prepared
\* for it: pages and erasures of the PC all happen (flash.c:122-199, the polling of the
\* status register, write enable, and CS around each command).
CommandsObeyed == ~chip.ignored

\* What the console prints, what is typed, and what the PC reads from the flash arrives
\* whole, in order and once; a read ends when it has all it asked for.
Stream == INSTANCE ByteStream WITH
    Streams <- {"rx", "tx", "read"},
    mode <- [s \in {"rx", "tx", "read"} |->
                IF s # "read" THEN IF tty THEN "open" ELSE "off"
                ELSE IF pc_op.op.in = 0 THEN "off"
                ELSE IF pc_op.stage = "done" THEN "done" ELSE "open"],
    put <- [s \in {"rx", "tx", "read"} |->
                IF s = "rx" THEN rx_put ELSE IF s = "tx" THEN tx_put
                ELSE IF pc_op.stage \in {"in", "done"} THEN pc_op.op.in ELSE 0],
    got <- [s \in {"rx", "tx", "read"} |->
                IF s = "rx" THEN rx_got ELSE IF s = "tx" THEN tx_got ELSE pc_got]

StreamsImplemented == Stream!Spec

\* Nothing is left lying: what the console printed reaches the PC when the console falls
\* silent (the timer, and its interrupt enabled again, usbserial.c:72-101), what was typed
\* reaches it, and a transaction with the flash ends.
TransfersEnd ==
    /\ rx_put > Len(rx_got) ~> rx_put = Len(rx_got)
    /\ tx_put > Len(tx_got) ~> tx_put = Len(tx_got)
    /\ pc_op.stage \in {"out", "in"} ~> pc_op.stage \notin {"out", "in"}
============================================================================
