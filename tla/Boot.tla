-------------------------------- MODULE Boot --------------------------------
(***************************************************************************)
(* boot/main.c: what the MCU runs after a reset, and DFU, by which the PC  *)
(* replaces the firmware in the MCU's own flash memory.  The DFU protocol  *)
(* (a library) and dfu-util on the PC are external.                        *)
(*                                                                         *)
(* The memory is rows, erased one at a time, of pages, written one at a    *)
(* time.  A page holds a page of an image, or nothing, or what writing     *)
(* over another page leaves.  Row ROWS is the first of the configuration.  *)
(***************************************************************************)
EXTENDS Integers

CONSTANTS
    ROWS,    \* FLASH_FW_SIZE / DFU_TRANSFER_SIZE, 1004
    PAGES,   \* pages in a row, 4
    Images   \* the firmware images, named by their lengths in rows

Erased == 0
Mixed == -1
Config == -2

ASSUME BootAssumption ==
    /\ ROWS \in Nat \ {0} /\ PAGES \in Nat \ {0}
    /\ Images \subseteq Nat \ {0}

VARIABLES
    running,    \* "off", "bootloader", "firmware", or "hung": half an image
    nvm,
    rcause,     \* PM->RCAUSE, as long as the boot loader runs: "POR", "SYST" or "WDT"
    dfu,        \* the download: [st, image, block, page]
    complete,   \* history: the image last downloaded to the end, or Erased if since then
                \* another download was begun
    wdt         \* the watchdog is about to reset the MCU

bootVars == <<running, nvm, rcause, dfu, complete, wdt>>

NoDfu == [st |-> "idle", image |-> Erased, block |-> 0, page |-> 0]
FullRow(image) == [p \in 0..PAGES-1 |-> image]

BootInit ==
    /\ running = "off" /\ rcause = "POR" /\ dfu = NoDfu /\ wdt = FALSE
    /\ complete \in {image \in Images : image <= ROWS}
    /\ nvm = [r \in 0..ROWS |-> FullRow(IF r = ROWS THEN Config
                                        ELSE IF r < complete THEN complete ELSE Erased)]

\* flash_valid looks at the first two words, an initial stack and an address.
flash_valid == nvm[0][0] # Erased

\* The image the memory holds from its first to its last page.
Holds(image) == \A r \in 0..image-1 : nvm[r] = FullRow(image)

\* What jump_to_flash comes to: only a whole image is sure to work.
Jump == running' = IF \E image \in Images : Holds(image) THEN "firmware" ELSE "hung"

\* main of the boot loader after a reset.
BootMain(cause, button_pressed) ==
    /\ IF ~flash_valid \/ button_pressed \/ cause = "WDT"
       THEN running' = "bootloader" ELSE Jump
    /\ rcause' = (IF running' = "bootloader" THEN cause ELSE "POR")
    /\ dfu' = NoDfu /\ wdt' = FALSE
    /\ UNCHANGED <<nvm, complete>>

\* The end of bootloader_main, 125 ms after the last block.
BootLeaves ==
    /\ running = "bootloader" /\ dfu.st = "exit_and_jump"
    /\ Jump
    /\ dfu' = NoDfu /\ rcause' = "POR"
    /\ UNCHANGED <<nvm, complete, wdt>>

---------------------------------------------------------------------------
(* nvm.c.                                                                  *)

\* Mutant: a row is written without being erased.
nvm_erase_row_skipped(r) == UNCHANGED nvm

nvm_erase_row(r) == nvm' = [nvm EXCEPT ![r] = FullRow(Erased)]

nvm_write_page(r, p, image) ==
    nvm' = [nvm EXCEPT ![r][p] = IF @ \in {Erased, image} THEN image ELSE Mixed]

---------------------------------------------------------------------------
(* DFU.                                                                    *)

\* The PC announces the first block of a file or the next one.  The address of a block
\* behind the firmware's memory is refused, except that of the first one.
NextBlock(image, block) ==
    IF block > ROWS
    THEN dfu' = [dfu EXCEPT !.st = "error"] /\ UNCHANGED <<nvm, complete>>
    ELSE /\ nvm_erase_row(block)
         /\ dfu' = [st |-> "data", image |-> image, block |-> block, page |-> 0]
         /\ complete' = Erased

dfu_cb_dnload_block ==
    /\ running = "bootloader"
    /\ \/ dfu.st = "idle" /\ \E image \in Images : NextBlock(image, 0)
       \/ dfu.st = "dnload" /\ dfu.block + 1 < dfu.image /\ NextBlock(dfu.image, dfu.block + 1)
    /\ UNCHANGED <<running, rcause, wdt>>

\* The next 64 bytes of the block.
dfu_cb_dnload_packet_completed ==
    /\ running = "bootloader" /\ dfu.st = "data"
    /\ nvm_write_page(dfu.block, dfu.page, dfu.image)
    /\ dfu' = [dfu EXCEPT !.page = @ + 1, !.st = IF dfu.page + 1 = PAGES THEN "dnload" ELSE "data"]
    /\ UNCHANGED <<running, rcause, complete, wdt>>

\* The PC has sent all blocks and says so.
dfu_cb_manifest ==
    /\ running = "bootloader" /\ dfu.st = "dnload" /\ dfu.block + 1 = dfu.image
    /\ dfu' = [NoDfu EXCEPT !.st = "exit_and_jump"]
    /\ complete' = dfu.image
    /\ UNCHANGED <<running, nvm, rcause, wdt>>

\* dfu-util was stopped and is started again (usb_cb_set_interface, dfu_reset).
DfuReset ==
    /\ running = "bootloader" /\ dfu.st \in {"data", "dnload", "error"}
    /\ dfu' = NoDfu
    /\ UNCHANGED <<running, nvm, rcause, complete, wdt>>

Dfu ==
    dfu_cb_dnload_block \/ dfu_cb_dnload_packet_completed \/ dfu_cb_manifest \/ DfuReset

---------------------------------------------------------------------------
(* Properties.                                                             *)

\* However many downloads were stopped before, by the PC or by a loss of power, a
\* download that ends leaves exactly its image, and the row of the configuration as it
\* was (boot/main.c:47-64).
ImageWhole ==
    /\ Holds(complete)
    /\ nvm[ROWS] = FullRow(Config)
============================================================================
