-------------------------- MODULE UsbDeviceProofs --------------------------
(***************************************************************************)
(* Proofs about the MCU as a USB device: ImageWhole for every number and   *)
(* size of images that fit the memory, CommandsObeyed for every size of    *)
(* buffers and packets and every set of reads.  Each has an inductive      *)
(* invariant of its own: MemoryInv, of the download, and FlashInv, of the  *)
(* flash chip, the programmer and the PC.                                  *)
(***************************************************************************)
EXTENDS UsbDevice, TLAPS

Fits == Images \subseteq 1..ROWS

---------------------------------------------------------------------------
(* The firmware's memory.                                                  *)

\* The rows before the one being written are those of the new image, and of that one the
\* pages before the next are, while the others are erased.
Download ==
    dfu.st \in {"data", "dnload"} =>
        /\ dfu.image \in Images /\ dfu.block \in 0..dfu.image-1
        /\ complete = Erased
        /\ \A r \in 0..dfu.block-1 : nvm[r] = FullRow(dfu.image)
        /\ dfu.st = "dnload" => nvm[dfu.block] = FullRow(dfu.image)
        /\ dfu.st = "data" =>
              /\ dfu.page \in 0..PAGES-1
              /\ \A p \in 0..PAGES-1 : nvm[dfu.block][p] = IF p < dfu.page THEN dfu.image ELSE Erased

MemoryInv ==
    /\ nvm \in [0..ROWS -> [0..PAGES-1 -> Int]]
    /\ complete \in 0..ROWS
    /\ dfu.st \in {"idle", "data", "dnload", "error", "exit_and_jump"}
    /\ dfu = [st |-> dfu.st, image |-> dfu.image, block |-> dfu.block, page |-> dfu.page]
    /\ Download
    /\ ImageWhole

\* A reset, a loss of power and the end of the boot loader forget the download.
Forgotten == UNCHANGED <<nvm, complete>> /\ dfu' \in {dfu, NoDfu}

\* Only DFU writes to the memory.
LEMMA OnlyDfuWrites == Next => Forgotten \/ Dfu
<1> USE DEF Forgotten, bootVars
<1>1. PowerOn \/ handle_reset_pin \/ req_reset \/ WdtReset => Forgotten
  BY DEF PowerOn, handle_reset_pin, req_reset, WdtReset, Reset, BootMain
<1>2. LeaveBootloader \/ PowerLoss => Forgotten
  BY DEF LeaveBootloader, BootLeaves, PowerLoss
<1>3. req_boot \/ req_gpio \/ usb_cb_set_interface \/ usb_cb_set_configuration => Forgotten
  BY DEF req_boot, req_gpio, usb_cb_set_interface, SetInterface, usb_cb_set_configuration
<1>4. SocBoots \/ bridge_handle_sync \/ TCC1_Handler => Forgotten
  BY DEF SocBoots, bridge_handle_sync, TCC1_Handler
<1>5. UsbCompletion \/ DMAC_Handler \/ TC3_Handler \/ Hardware \/ Pc \/ Serial_(UartRx) => Forgotten
  BY DEF UsbCompletion, DMAC_Handler, TC3_Handler, Hardware, Pc, Serial_, Flash_
<1> QED BY <1>1, <1>2, <1>3, <1>4, <1>5 DEF Next

LEMMA MemoryInit == Fits /\ BootInit => MemoryInv
<1> SUFFICES ASSUME Fits, BootInit PROVE MemoryInv
  OBVIOUS
<1> USE BootAssumption DEF Erased, Mixed, Config
<1>1. complete \in 0..ROWS /\ ROWS \in Nat /\ PAGES \in Nat
  BY DEF BootInit, Fits
<1>2. nvm \in [0..ROWS -> [0..PAGES-1 -> Int]]
  BY <1>1 DEF BootInit, FullRow
<1>3. ImageWhole
  BY <1>1 DEF BootInit, ImageWhole, Holds
<1> QED BY <1>1, <1>2, <1>3 DEF MemoryInv, BootInit, NoDfu, Download

LEMMA MemoryForgotten == MemoryInv /\ Forgotten => MemoryInv'
<1> SUFFICES ASSUME MemoryInv, Forgotten PROVE MemoryInv'
  OBVIOUS
<1> USE DEF Forgotten, MemoryInv
<1>1. ImageWhole'
  BY DEF ImageWhole, Holds, FullRow
<1>2. CASE dfu' = dfu
  BY <1>1, <1>2 DEF Download, FullRow
<1>3. CASE dfu' = NoDfu
  BY <1>1, <1>3 DEF Download, NoDfu
<1> QED BY <1>2, <1>3

\* The first page of a block comes after its row was erased.
LEMMA MemoryBlock ==
    ASSUME Fits, MemoryInv, NEW image \in Images, NEW block \in 0..image-1,
           NextBlock(image, block),
           \A r \in 0..block-1 : nvm[r] = FullRow(image)
    PROVE  MemoryInv'
<1> USE BootAssumption DEF Erased, Mixed, Config
<1>1. image \in 1..ROWS /\ block \in 0..ROWS-1 /\ ROWS \in Nat /\ PAGES \in Nat \ {0}
  BY DEF Fits
<1>2. /\ nvm' = [nvm EXCEPT ![block] = FullRow(Erased)]
      /\ dfu' = [st |-> "data", image |-> image, block |-> block, page |-> 0]
      /\ complete' = Erased
  BY <1>1 DEF NextBlock, nvm_erase_row
<1>3. nvm' \in [0..ROWS -> [0..PAGES-1 -> Int]]
  BY <1>1, <1>2 DEF MemoryInv, FullRow
<1>4. ImageWhole'
  BY <1>1, <1>2 DEF MemoryInv, ImageWhole, Holds, FullRow
<1>5. \A r \in 0..block-1 : nvm'[r] = FullRow(image)
  BY <1>1, <1>2 DEF MemoryInv
<1>6. \A p \in 0..PAGES-1 : nvm'[block][p] = Erased
  BY <1>1, <1>2 DEF MemoryInv, FullRow
<1>7. Download'
  BY <1>1, <1>2, <1>5, <1>6 DEF Download, FullRow
<1> QED BY <1>1, <1>2, <1>3, <1>4, <1>7 DEF MemoryInv

\* A page written into an erased place is the image's.
LEMMA PageWritten ==
    ASSUME NEW mem \in [0..ROWS -> [0..PAGES-1 -> Int]], NEW b \in 0..ROWS, NEW q \in 0..PAGES-1,
           NEW image \in Int, mem[b][q] = Erased,
           NEW mem2, mem2 = [mem EXCEPT ![b][q] = IF mem[b][q] \in {Erased, image} THEN image ELSE Mixed]
    PROVE  /\ mem2 \in [0..ROWS -> [0..PAGES-1 -> Int]]
           /\ mem2[b][q] = image
           /\ \A p \in 0..PAGES-1 : p # q => mem2[b][p] = mem[b][p]
           /\ \A r \in 0..ROWS : r # b => mem2[r] = mem[r]
<1> USE BootAssumption DEF Erased, Mixed
<1>1. mem[b] \in [0..PAGES-1 -> Int]
  OBVIOUS
<1>2. mem2 = [mem EXCEPT ![b] = [mem[b] EXCEPT ![q] = image]]
  OBVIOUS
<1>3. [mem[b] EXCEPT ![q] = image] \in [0..PAGES-1 -> Int]
  BY <1>1
<1>4. mem2 \in [0..ROWS -> [0..PAGES-1 -> Int]]
  BY <1>2, <1>3
<1>5. mem2[b] = [mem[b] EXCEPT ![q] = image]
  BY <1>2
<1>6. mem2[b][q] = image /\ \A p \in 0..PAGES-1 : p # q => mem2[b][p] = mem[b][p]
  BY <1>1, <1>5
<1>7. \A r \in 0..ROWS : r # b => mem2[r] = mem[r]
  BY <1>2
<1> QED BY <1>4, <1>6, <1>7

LEMMA MemoryPage == Fits /\ MemoryInv /\ dfu_cb_dnload_packet_completed => MemoryInv'
<1> SUFFICES ASSUME Fits, MemoryInv, dfu_cb_dnload_packet_completed PROVE MemoryInv'
  OBVIOUS
<1>1. /\ dfu.st = "data" /\ dfu.image \in Images /\ dfu.block \in 0..dfu.image-1
      /\ dfu.page \in 0..PAGES-1 /\ complete = Erased
      /\ \A p \in 0..PAGES-1 : nvm[dfu.block][p] = IF p < dfu.page THEN dfu.image ELSE Erased
      /\ \A r \in 0..dfu.block-1 : nvm[r] = FullRow(dfu.image)
  BY DEF dfu_cb_dnload_packet_completed, MemoryInv, Download
<1>2. PICK image, b, q : image = dfu.image /\ b = dfu.block /\ q = dfu.page
  OBVIOUS
<1>3. /\ image \in Images /\ image \in 1..ROWS /\ b \in 0..image-1 /\ b \in 0..ROWS-1 /\ b \in 0..ROWS
      /\ q \in 0..PAGES-1 /\ ROWS \in Nat /\ PAGES \in Nat \ {0}
      /\ nvm \in [0..ROWS -> [0..PAGES-1 -> Int]]
  BY <1>1, <1>2, BootAssumption DEF Fits, MemoryInv
<1>4. /\ \A p \in 0..PAGES-1 : nvm[b][p] = IF p < q THEN image ELSE Erased
      /\ \A r \in 0..b-1 : nvm[r] = FullRow(image)
  BY <1>1, <1>2
<1>5. nvm[b][q] = Erased /\ image \in Int
  BY <1>3, <1>4
<1>6. /\ nvm' = [nvm EXCEPT ![b][q] = IF @ \in {Erased, image} THEN image ELSE Mixed]
      /\ complete' = complete
      /\ dfu' = [st |-> IF q + 1 = PAGES THEN "dnload" ELSE "data", image |-> image, block |-> b,
                 page |-> q + 1]
  BY <1>2 DEF dfu_cb_dnload_packet_completed, nvm_write_page, MemoryInv
<1>7. /\ nvm' \in [0..ROWS -> [0..PAGES-1 -> Int]]
      /\ nvm'[b][q] = image
      /\ \A p \in 0..PAGES-1 : p # q => nvm'[b][p] = nvm[b][p]
      /\ \A r \in 0..ROWS : r # b => nvm'[r] = nvm[r]
  <2>1. PICK mem : mem = nvm /\ mem \in [0..ROWS -> [0..PAGES-1 -> Int]]
    BY <1>3
  <2>2. PICK mem2 : mem2 = nvm'
    OBVIOUS
  <2>3. mem2 = [mem EXCEPT ![b][q] = IF mem[b][q] \in {Erased, image} THEN image ELSE Mixed]
    BY <1>6, <2>1, <2>2
  <2>4. mem[b][q] = Erased
    BY <1>5, <2>1
  <2>5. /\ mem2 \in [0..ROWS -> [0..PAGES-1 -> Int]]
        /\ mem2[b][q] = image
        /\ \A p \in 0..PAGES-1 : p # q => mem2[b][p] = mem[b][p]
        /\ \A r \in 0..ROWS : r # b => mem2[r] = mem[r]
    <3> HIDE <1>1, <1>6, <2>2
    <3> QED BY <1>3, <1>5, <2>1, <2>3, <2>4, PageWritten
  <2> QED BY <2>1, <2>2, <2>5
<1>8. ImageWhole'
  <2>1. complete' = 0 /\ complete = 0
    BY <1>1, <1>6 DEF Erased
  <2>2. nvm'[ROWS] = nvm[ROWS]
    BY <1>3, <1>7
  <2> QED BY <2>1, <2>2 DEF MemoryInv, ImageWhole, Holds, FullRow
<1>9. \A p \in 0..PAGES-1 : nvm'[b][p] = IF p < q + 1 THEN image ELSE Erased
  <2> SUFFICES ASSUME NEW p \in 0..PAGES-1
               PROVE  nvm'[b][p] = IF p < q + 1 THEN image ELSE Erased
    OBVIOUS
  <2>1. CASE p = q
    <3>1. nvm'[b][p] = image /\ p < q + 1
      BY <1>3, <1>7, <2>1
    <3> QED BY <3>1
  <2>2. CASE p # q
    <3>1. nvm'[b][p] = nvm[b][p] /\ nvm[b][p] = IF p < q THEN image ELSE Erased
      BY <1>4, <1>7, <2>2
    <3>2. p < q <=> p < q + 1
      BY <1>3, <2>2
    <3> QED BY <3>1, <3>2
  <2> QED BY <2>1, <2>2
<1>10. \A r \in 0..b-1 : nvm'[r] = FullRow(image)
  BY <1>3, <1>4, <1>7
<1>11. q + 1 = PAGES => nvm'[b] = FullRow(image)
  <2> SUFFICES ASSUME q + 1 = PAGES PROVE nvm'[b] = FullRow(image)
    OBVIOUS
  <2>1. ASSUME NEW p \in 0..PAGES-1 PROVE nvm'[b][p] = image
    <3>1. p < q + 1
      BY <1>3
    <3> QED BY <1>9, <3>1
  <2>2. nvm'[b] \in [0..PAGES-1 -> Int]
    BY <1>3, <1>7
  <2> QED BY <2>1, <2>2 DEF FullRow
<1>12. /\ dfu'.image = image /\ dfu'.block = b /\ dfu'.page = q + 1
       /\ dfu'.st = IF q + 1 = PAGES THEN "dnload" ELSE "data"
       /\ dfu' = [st |-> dfu'.st, image |-> dfu'.image, block |-> dfu'.block, page |-> dfu'.page]
  BY <1>6
<1>13. \A r \in 0..dfu'.block-1 : nvm'[r] = FullRow(dfu'.image)
  BY <1>10, <1>12
<1>14. dfu'.st = "dnload" => nvm'[dfu'.block] = FullRow(dfu'.image)
  BY <1>11, <1>12
<1>15. dfu'.st = "data" =>
         /\ dfu'.page \in 0..PAGES-1
         /\ \A p \in 0..PAGES-1 : nvm'[dfu'.block][p] = IF p < dfu'.page THEN dfu'.image ELSE Erased
  BY <1>3, <1>9, <1>12
<1>16. Download'
  BY <1>1, <1>3, <1>6, <1>12, <1>13, <1>14, <1>15 DEF Download, Erased, FullRow
<1> QED BY <1>3, <1>1, <1>6, <1>7, <1>8, <1>12, <1>16, BootAssumption DEF MemoryInv, Erased

LEMMA MemoryDfu == Fits /\ MemoryInv /\ Dfu => MemoryInv'
<1> SUFFICES ASSUME Fits, MemoryInv, Dfu PROVE MemoryInv'
  OBVIOUS
<1> USE BootAssumption DEF Erased, Mixed, Config
<1>1. CASE dfu_cb_dnload_block
  <2>1. CASE dfu.st = "idle" /\ \E image \in Images : NextBlock(image, 0)
    <3>1. PICK image \in Images : NextBlock(image, 0)
      BY <2>1
    <3> QED BY <3>1, MemoryBlock DEF Fits
  <2>2. CASE dfu.st = "dnload" /\ dfu.block + 1 < dfu.image /\ NextBlock(dfu.image, dfu.block + 1)
    <3>1. /\ dfu.image \in Images /\ dfu.block \in 0..dfu.image-1 /\ dfu.image \in Nat
          /\ \A r \in 0..dfu.block-1 : nvm[r] = FullRow(dfu.image)
          /\ nvm[dfu.block] = FullRow(dfu.image)
      BY <2>2 DEF MemoryInv, Download
    <3>2. dfu.block + 1 \in 0..dfu.image-1 /\ \A r \in 0..(dfu.block+1)-1 : nvm[r] = FullRow(dfu.image)
      BY <2>2, <3>1
    <3> QED BY <2>2, <3>1, <3>2, MemoryBlock
  <2> QED BY <1>1, <2>1, <2>2 DEF dfu_cb_dnload_block
<1>2. CASE dfu_cb_dnload_packet_completed
  BY <1>2, MemoryPage
<1>3. CASE dfu_cb_manifest
  <2>1. /\ dfu.image \in Images /\ dfu.block + 1 = dfu.image /\ dfu.block \in 0..dfu.image-1
        /\ nvm' = nvm /\ complete' = dfu.image /\ dfu' = [NoDfu EXCEPT !.st = "exit_and_jump"]
        /\ \A r \in 0..dfu.block-1 : nvm[r] = FullRow(dfu.image)
        /\ nvm[dfu.block] = FullRow(dfu.image)
    BY <1>3 DEF dfu_cb_manifest, MemoryInv, Download
  <2>2. dfu.image \in 1..ROWS /\ \A r \in 0..dfu.image-1 : nvm[r] = FullRow(dfu.image)
    BY <2>1 DEF Fits
  <2>3. ImageWhole'
    BY <2>1, <2>2 DEF MemoryInv, ImageWhole, Holds, FullRow
  <2>4. Download' /\ dfu'.st = "exit_and_jump"
        /\ dfu' = [st |-> dfu'.st, image |-> dfu'.image, block |-> dfu'.block, page |-> dfu'.page]
    BY <2>1 DEF Download, NoDfu
  <2> QED BY <2>1, <2>2, <2>3, <2>4 DEF MemoryInv
<1>4. CASE DfuReset
  <2>1. Forgotten
    BY <1>4 DEF DfuReset, Forgotten
  <2> QED BY <2>1, MemoryForgotten
<1> QED BY <1>1, <1>2, <1>3, <1>4 DEF Dfu

\* However many downloads were stopped, by the PC or by a loss of power, the image last
\* downloaded to the end is in the memory, and the configuration is untouched
\* (boot/main.c:47-64).
THEOREM ImageAlwaysWhole == Fits => (Spec => []ImageWhole)
<1> SUFFICES ASSUME Fits PROVE Spec => []ImageWhole
  OBVIOUS
<1>1. Init => MemoryInv
  BY MemoryInit DEF Init
<1>2. MemoryInv /\ [Next]_vars => MemoryInv'
  <2>1. UNCHANGED vars => Forgotten
    BY DEF vars, bootVars, Forgotten
  <2> QED BY <2>1, OnlyDfuWrites, MemoryForgotten, MemoryDfu
<1>3. MemoryInv => ImageWhole
  BY DEF MemoryInv
<1> QED BY <1>1, <1>2, <1>3, PTL DEF Spec

---------------------------------------------------------------------------
(* The flash chip.                                                         *)

\* The chip as the PC may expect it before the command it sends next.
Ready(next) ==
    /\ next = "ANY" => ~chip.busy
    /\ next = "ERASE" => ~chip.busy /\ chip.wel

\* The chip is ready for what the PC sends when it has its answer.
Settled ==
    IF pc_op.stage \in {"none", "out"} THEN Ready(pc_next) ELSE Ready(After(pc_op.op))

ChipInv ==
    /\ chip = [frame |-> chip.frame, sent |-> chip.sent, busy |-> chip.busy, wel |-> chip.wel,
               ignored |-> FALSE]
    /\ chip.busy \in BOOLEAN /\ chip.wel \in BOOLEAN
    /\ chip.frame \in {"WREN", "PP", "ERASE"} => ~chip.busy
    /\ chip.frame \in {"PP", "ERASE"} => chip.wel

PcInv ==
    /\ pc_op = [op |-> pc_op.op, stage |-> pc_op.stage]
    /\ pc_op.stage \in {"none", "out", "in", "sent", "done"}
    /\ pc_next \in {"ANY", "ERASE", "PAGES", "WAIT"}
    /\ pc_op.stage # "none" => pc_op.op \in Legal(pc_next)
    /\ pc_op.stage = "sent" => pc_op.op.cmd # "RDSR"

Where ==
    /\ flash_state \in {"DISABLE", "IDLE", "OUT", "IN_SPI", "IN_USB", "SR_POLL_OUT", "SR_POLL_IN",
                        "WREN_OUT"}
    /\ flash_busy \in BOOLEAN
    /\ flash_state # "DISABLE" => running = "firmware" /\ altsetting = "FLASH"
    /\ flash_state = "DISABLE" =>
          ep_out = "off" /\ flash_dma = "off" /\ pc_op = PcIdle /\ pc_next = "ANY"
    /\ flash_state = "IDLE" => flash_dma = "off"
    /\ flash_state = "IN_USB" => flash_dma # "running"
    /\ ep_out \in {"armed", "full"} => flash_state = "IDLE"
    /\ ep_out = "full" => pc_op.stage \in {"in", "sent"}
    /\ ep_in \in {"sending", "done"} => flash_state = "IN_USB"

\* The operation under way: its kind fits the state, ...
WorkOp ==
    /\ flash_op = [cmd |-> flash_op.cmd, in |-> flash_op.in, poll |-> flash_op.poll, wren |-> flash_op.wren]
    /\ flash_op.cmd \in {"READ", "WREN", "PP", "RDSR", "ERASE"}
    /\ flash_op.cmd \in {"WREN", "PP", "ERASE"} => flash_op.in = 0
    /\ flash_op.cmd = "RDSR" /\ flash_state = "OUT" => flash_op.in = 1
    /\ flash_op.poll <=> flash_op.cmd = "PP"
    /\ flash_op.wren <=> flash_op.cmd = "PP"
    /\ flash_state \in {"SR_POLL_OUT", "SR_POLL_IN", "WREN_OUT"} => flash_op.cmd = "PP"
    /\ flash_state \in {"IN_SPI", "IN_USB"} => flash_op.cmd \in {"READ", "RDSR"}

\* ... the chip can do it, ...
WorkChip ==
    /\ flash_op.cmd \in {"READ", "WREN", "ERASE"} \/ flash_state = "WREN_OUT" => ~chip.busy
    /\ flash_op.cmd = "ERASE" => chip.wel
    /\ flash_state = "OUT" /\ flash_op.cmd = "PP" => ~chip.busy /\ chip.wel
    /\ (flash_dma = "done" /\ flash_state \in {"SR_POLL_IN", "IN_SPI"}) \/ flash_state = "IN_USB" =>
          (~flash_busy => ~chip.busy)

\* ... has been sent its command, ...
WorkFrame ==
    /\ flash_state = "OUT" /\ flash_dma = "done" => chip.frame = flash_op.cmd
    /\ flash_state = "WREN_OUT" /\ flash_dma = "done" => chip.frame = "WREN"
    /\ flash_state = "SR_POLL_OUT" /\ flash_dma = "done" => chip.frame = "RDSR"
    /\ flash_state = "SR_POLL_IN" => chip.frame = "RDSR"
    /\ flash_state \in {"IN_SPI", "IN_USB"} => chip.frame = flash_op.cmd

\* ... and what the PC does next fits what the chip will be.
WorkPc ==
    /\ pc_op.stage \in {"in", "sent", "done"} => pc_op.op.cmd = flash_op.cmd
    /\ pc_op.stage = "done" /\ flash_op.cmd = "RDSR" => (~flash_busy => ~chip.busy)
    /\ pc_op.stage \in {"none", "out"} =>
          /\ flash_op.cmd = "WREN" => pc_next = "ERASE"
          /\ flash_op.cmd = "PP" => pc_next = "PAGES"
          /\ flash_op.cmd = "ERASE" => pc_next = "WAIT"
          /\ flash_op.cmd \in {"READ", "RDSR"} => pc_next \in {"ANY", "WAIT"}
          /\ flash_op.cmd = "RDSR" /\ pc_next = "ANY" => ~chip.busy

Working == WorkOp /\ WorkChip /\ WorkFrame /\ WorkPc

FlashInv ==
    /\ ChipInv /\ PcInv /\ Where
    /\ flash_state = "IDLE" => IF ep_out = "full" THEN Ready(pc_next) ELSE Settled
    /\ flash_state \notin {"DISABLE", "IDLE"} => Working

USE DEF Ready

\* What Legal says of an operation of the PC.
LEMMA LegalFacts ==
    ASSUME NEW next \in {"ANY", "ERASE", "PAGES", "WAIT"}, NEW op \in Legal(next)
    PROVE  /\ op = [cmd |-> op.cmd, in |-> op.in, poll |-> op.poll, wren |-> op.wren]
           /\ op.cmd \in {"READ", "WREN", "PP", "RDSR", "ERASE", "SHORT", "NONE"}
           /\ op.poll <=> op.cmd = "PP"
           /\ op.wren <=> op.cmd = "PP"
           /\ op.cmd \in {"WREN", "PP", "ERASE", "SHORT", "NONE"} => op.in = 0
           /\ op.cmd = "RDSR" => op.in = 1
           /\ op.cmd \in {"READ", "WREN", "SHORT", "NONE"} => next = "ANY"
           /\ op.cmd = "ERASE" => next = "ERASE"
<1> USE FlashAssumption DEF Op
<1>1. CASE next = "ANY"
  <2>1. CASE op \in {Op("READ", n, FALSE, FALSE) : n \in Reads}
    BY <1>1, <2>1
  <2>2. CASE op \in {Op("WREN", 0, FALSE, FALSE), Op("PP", 0, TRUE, TRUE)}
    BY <1>1, <2>2
  <2>3. CASE op \in {Op(c, 0, FALSE, FALSE) : c \in Odd}
    BY <1>1, <2>3
  <2> QED BY <1>1, <2>1, <2>2, <2>3 DEF Legal
<1>2. CASE next = "ERASE"
  BY <1>2 DEF Legal
<1>3. CASE next = "PAGES"
  BY <1>3 DEF Legal
<1>4. CASE next = "WAIT"
  BY <1>4 DEF Legal
<1> QED BY <1>1, <1>2, <1>3, <1>4

\* The chip obeys when CS rises.
LEMMA RaiseFacts ==
    ASSUME ChipInv
    PROVE  LET ch == Raise(chip)
           IN /\ ch = [frame |-> "none", sent |-> 0, busy |-> ch.busy, wel |-> ch.wel, ignored |-> FALSE]
              /\ ch.busy \in BOOLEAN /\ ch.wel \in BOOLEAN
              /\ chip.frame = "WREN" => ~ch.busy /\ ch.wel
              /\ chip.frame \notin {"WREN", "PP", "ERASE"} => ch.busy = chip.busy /\ ch.wel = chip.wel
<1>1. CASE chip.frame = "WREN"
  <2>1. ~chip.busy /\ chip.ignored = FALSE
    BY <1>1 DEF ChipInv
  <2>2. Raise(chip) = NewFrame(FALSE, TRUE, FALSE)
    BY <1>1, <2>1 DEF Raise
  <2> QED BY <1>1, <2>2 DEF NewFrame
<1>2. CASE chip.frame \in {"PP", "ERASE"}
  <2>1. ~chip.busy /\ chip.wel /\ chip.ignored = FALSE
    BY <1>2 DEF ChipInv
  <2>2. Raise(chip) = NewFrame(TRUE, FALSE, FALSE)
    BY <1>2, <2>1 DEF Raise
  <2>3. chip.frame # "WREN" /\ chip.frame \in {"WREN", "PP", "ERASE"}
    BY <1>2
  <2>4. Raise(chip) = [frame |-> "none", sent |-> 0, busy |-> TRUE, wel |-> FALSE, ignored |-> FALSE]
    BY <2>2 DEF NewFrame
  <2>5. chip.frame = "WREN" => FALSE
    BY <2>3
  <2>6. chip.frame \notin {"WREN", "PP", "ERASE"} => FALSE
    BY <2>3
  <2>7. Raise(chip).busy \in BOOLEAN /\ Raise(chip).wel \in BOOLEAN
    BY <2>4
  <2>8. Raise(chip) = [frame |-> "none", sent |-> 0, busy |-> Raise(chip).busy, wel |-> Raise(chip).wel,
                       ignored |-> FALSE]
    BY <2>4
  <2> QED BY <2>5, <2>6, <2>7, <2>8, Zenon
<1>3. CASE chip.frame \notin {"WREN", "PP", "ERASE"}
  <2>1. chip.ignored \/ chip.frame \in {"PP", "ERASE"} \/ chip.frame = "WREN" <=> FALSE
    BY <1>3 DEF ChipInv
  <2>2. Raise(chip) = NewFrame(chip.busy, chip.wel, FALSE)
    BY <1>3, <2>1 DEF Raise, NewFrame
  <2> QED BY <1>3, <2>2 DEF NewFrame, ChipInv
<1> QED BY <1>1, <1>2, <1>3

\* Out of its alternate setting the programmer does nothing.
LEMMA FlashGoneInv ==
    ASSUME ChipInv, NEW ch \in {Raise(chip), SilentChip}, FlashGone(ch)
    PROVE  FlashInv'
<1>1. ch = [frame |-> "none", sent |-> 0, busy |-> ch.busy, wel |-> ch.wel, ignored |-> FALSE]
      /\ ch.busy \in BOOLEAN /\ ch.wel \in BOOLEAN
  <2>1. CASE ch = SilentChip
    BY <2>1 DEF SilentChip, NewFrame
  <2>2. CASE ch = Raise(chip)
    BY <2>2, RaiseFacts
  <2> QED BY <2>1, <2>2
<1>2. ChipInv'
  BY <1>1 DEF FlashGone, ChipInv
<1>3. PcInv' /\ Where'
  BY DEF FlashGone, PcInv, Where, PcIdle
<1> QED BY <1>2, <1>3 DEF FlashInv, FlashGone

LEMMA FlashRests ==
    ASSUME FlashInv, UNCHANGED flashVars,
           flash_state # "DISABLE" => running' = running /\ altsetting' = altsetting
    PROVE  FlashInv'
<1>1. ChipInv' /\ PcInv'
  BY DEF FlashInv, ChipInv, PcInv, flashVars, Legal
<1>2. Where'
  BY DEF FlashInv, Where, flashVars
<1>3. Settled' = Settled
  BY DEF Settled, flashVars, After
<1>4. flash_state \notin {"DISABLE", "IDLE"} => Working'
  BY DEF FlashInv, Working, WorkOp, WorkChip, WorkFrame, WorkPc, flashVars
<1> QED BY <1>1, <1>2, <1>3, <1>4 DEF FlashInv, flashVars

\* A step of the programmer or the PC keeps the alternate setting.
Stays == UNCHANGED <<running, altsetting>>

LEMMA LowerFacts ==
    ASSUME ChipInv
    PROVE  /\ Lower(chip) = [frame |-> "none", sent |-> 0, busy |-> chip.busy, wel |-> chip.wel,
                             ignored |-> FALSE]
           /\ Raise(Lower(chip)) = Lower(chip)
<1>1. chip.ignored = FALSE
  BY DEF ChipInv
<1>2. Lower(chip) = [frame |-> "none", sent |-> 0, busy |-> chip.busy, wel |-> chip.wel, ignored |-> FALSE]
  BY <1>1 DEF Lower, NewFrame
<1>3. Lower(chip).frame = "none" /\ Lower(chip).busy = chip.busy /\ Lower(chip).wel = chip.wel
      /\ Lower(chip).ignored = FALSE
  BY <1>2
<1>4. Lower(chip).ignored \/ Lower(chip).frame \in {"PP", "ERASE"} \/ Lower(chip).frame = "WREN" <=> FALSE
  BY <1>3
<1>5. Raise(Lower(chip)) = NewFrame(chip.busy, chip.wel, FALSE)
  BY <1>3, <1>4 DEF Raise
<1> QED BY <1>2, <1>5 DEF NewFrame

LEMMA SetInterfaceInv == FlashInv /\ usb_cb_set_interface => FlashInv'
<1> SUFFICES ASSUME FlashInv, NEW new \in {"NONE", "FLASH", "PIPE"}, SetInterface(new)
             PROVE  FlashInv'
  BY DEF usb_cb_set_interface
<1>1. ChipInv'
  <2>1. CASE chip' = chip
    BY <2>1 DEF FlashInv, ChipInv
  <2>2. CASE chip' = Raise(chip)
    <3>1. chip' = [frame |-> "none", sent |-> 0, busy |-> chip'.busy, wel |-> chip'.wel, ignored |-> FALSE]
          /\ chip'.busy \in BOOLEAN /\ chip'.wel \in BOOLEAN
      BY <2>2, RaiseFacts DEF FlashInv
    <3> QED BY <3>1 DEF ChipInv
  <2> QED BY <2>1, <2>2 DEF SetInterface
<1>2. PcInv' /\ pc_op' = PcIdle /\ pc_next' = "ANY" /\ flash_busy' = flash_busy
      /\ running' = running /\ altsetting' = new /\ Up
  BY DEF SetInterface, PcInv, PcIdle, bootVars
<1>3. CASE new = "FLASH"
  <2>1. flash_state' = "IDLE" /\ flash_dma' = "off" /\ ep_out' = "armed" /\ ep_in' = "idle" /\ ~chip'.busy
    BY <1>3 DEF SetInterface, flash_init
  <2>2. Where'
    BY <1>2, <1>3, <2>1 DEF Where, FlashInv, Up
  <2>3. Settled'
    BY <1>2, <2>1 DEF Settled, PcIdle
  <2> QED BY <1>1, <1>2, <2>1, <2>2, <2>3 DEF FlashInv
<1>4. CASE new # "FLASH"
  <2>1. flash_state' = "DISABLE" /\ flash_dma' = "off" /\ ep_out' = "off"
        /\ ep_in' \notin {"sending", "done"}
    BY <1>4 DEF SetInterface, flash_disable, FlashInv, Where
  <2>2. Where'
    BY <1>2, <2>1 DEF Where, FlashInv
  <2> QED BY <1>1, <1>2, <2>1, <2>2 DEF FlashInv
<1> QED BY <1>3, <1>4

LEMMA SyncInv == FlashInv /\ bridge_handle_sync => FlashInv'
<1> SUFFICES ASSUME FlashInv, bridge_handle_sync PROVE FlashInv'
  OBVIOUS
<1>1. /\ flash_dma' = "off"
      /\ UNCHANGED <<flash_state, flash_op, flash_data, flash_busy, ep_out, ep_in, halted, chip, pc_op,
                     pc_got, pc_next, running, altsetting>>
  BY DEF bridge_handle_sync, bootVars
<1>2. ChipInv' /\ PcInv'
  BY <1>1 DEF FlashInv, ChipInv, PcInv, Legal
<1>3. Where'
  BY <1>1 DEF FlashInv, Where
<1>4. Settled' = Settled
  BY <1>1 DEF Settled, After
<1>5. flash_state \notin {"DISABLE", "IDLE"} => Working'
  BY <1>1 DEF FlashInv, Working, WorkOp, WorkChip, WorkFrame, WorkPc
<1> QED BY <1>1, <1>2, <1>3, <1>4, <1>5 DEF FlashInv

\* A packet of the PC starts its operation.
LEMMA OutCompletionInv == FlashInv /\ flash_usb_out_completion /\ Stays => FlashInv'
<1> SUFFICES ASSUME FlashInv, flash_usb_out_completion, Stays PROVE FlashInv'
  OBVIOUS
<1> DEFINE op == pc_op.op
<1>1. /\ flash_state = "IDLE" /\ ep_out = "full" /\ pc_op.stage \in {"in", "sent"}
      /\ Ready(pc_next) /\ op \in Legal(pc_next) /\ flash_dma = "off"
      /\ running = "firmware" /\ altsetting = "FLASH" /\ ep_in \notin {"sending", "done"}
  BY DEF flash_usb_out_completion, FlashInv, Where, PcInv
<1>2. /\ UNCHANGED <<flash_data, flash_busy, sercom, pc_op, pc_got, pc_next, running, altsetting, ep_in>>
      /\ PcInv'
  BY <1>1 DEF flash_usb_out_completion, Stays, FlashInv, PcInv, Legal
<1>3. /\ op = [cmd |-> op.cmd, in |-> op.in, poll |-> op.poll, wren |-> op.wren]
      /\ op.cmd \in {"READ", "WREN", "PP", "RDSR", "ERASE", "SHORT", "NONE"}
      /\ op.poll <=> op.cmd = "PP"
      /\ op.wren <=> op.cmd = "PP"
      /\ op.cmd \in {"WREN", "PP", "ERASE", "SHORT", "NONE"} => op.in = 0
      /\ op.cmd = "RDSR" => op.in = 1
      /\ op.cmd \in {"READ", "WREN", "SHORT", "NONE"} => pc_next = "ANY"
      /\ op.cmd = "ERASE" => pc_next = "ERASE"
  BY <1>1, LegalFacts DEF FlashInv, PcInv
<1>4. ChipInv
  BY DEF FlashInv
<1>5. CASE op.cmd = "SHORT"
  <2>1. ep_out' = "idle" /\ UNCHANGED <<flash_state, flash_op, flash_dma, chip, halted>>
    BY <1>1, <1>5 DEF flash_usb_out_completion
  <2>2. ChipInv' /\ Where'
    BY <1>1, <1>2, <2>1 DEF FlashInv, ChipInv, Where
  <2>3. Settled'
    BY <1>1, <1>2, <1>3, <1>5, <2>1 DEF Settled, After
  <2> QED BY <1>1, <1>2, <2>1, <2>2, <2>3 DEF FlashInv
<1>6. CASE op.cmd = "NONE"
  <2>1. chip' = Raise(Lower(chip)) /\ ep_out' = "armed" /\ flash_state' = "IDLE" /\ flash_dma' = "off"
    BY <1>1, <1>3, <1>6 DEF flash_usb_out_completion, flash_start_sr_poll, flash_start_wren,
       flash_start_write, flash_start_read
  <2>2. chip' = [frame |-> "none", sent |-> 0, busy |-> chip.busy, wel |-> chip.wel, ignored |-> FALSE]
    BY <1>4, <2>1, LowerFacts
  <2>3. ChipInv'
    BY <1>4, <2>2 DEF ChipInv
  <2>4. Where'
    BY <1>1, <1>2, <2>1 DEF FlashInv, Where
  <2>5. Settled'
    BY <1>1, <1>2, <1>3, <1>6, <2>2 DEF Settled, After
  <2> QED BY <1>2, <2>1, <2>3, <2>4, <2>5 DEF FlashInv
<1>7. CASE op.cmd \in {"READ", "WREN", "PP", "RDSR", "ERASE"}
  <2>1. /\ chip' = Lower(chip) /\ ep_out' = "idle" /\ flash_dma' = "running" /\ flash_op' = op
        /\ flash_state' = IF op.cmd = "PP" THEN "SR_POLL_OUT" ELSE "OUT"
    BY <1>1, <1>3, <1>7 DEF flash_usb_out_completion, flash_start_sr_poll, flash_start_wren,
       flash_start_write, StartDma
  <2>2. chip' = [frame |-> "none", sent |-> 0, busy |-> chip.busy, wel |-> chip.wel, ignored |-> FALSE]
    BY <1>4, <2>1, LowerFacts
  <2>3. ChipInv'
    BY <1>4, <2>2 DEF ChipInv
  <2>4. Where'
    BY <1>1, <1>2, <2>1 DEF FlashInv, Where
  <2>5. Working'
    <3>1. WorkOp'
      BY <1>3, <1>7, <2>1 DEF WorkOp
    <3>2. WorkChip'
      BY <1>1, <1>3, <1>7, <2>1, <2>2 DEF WorkChip
    <3>3. WorkFrame'
      BY <1>3, <1>7, <2>1, <2>2 DEF WorkFrame
    <3>4. WorkPc'
      BY <1>1, <1>2, <1>3, <1>7, <2>1 DEF WorkPc, FlashInv, PcInv
    <3> QED BY <3>1, <3>2, <3>3, <3>4 DEF Working
  <2> QED BY <1>2, <2>1, <2>3, <2>4, <2>5 DEF FlashInv
<1> QED BY <1>3, <1>5, <1>6, <1>7

\* Reading goes on, or the operation is done and the endpoint armed for the next.
LEMMA ReadOrDone ==
    ASSUME FlashInv, Stays, Working, flash_state \notin {"DISABLE", "IDLE"},
           NEW n, flash_op' = [flash_op EXCEPT !.in = n],
           flash_start_read(flash_op', chip), ep_in' \notin {"sending", "done"},
           UNCHANGED <<flash_busy, pc_op, pc_next>>,
           flash_op.cmd \in {"WREN", "PP", "ERASE"} => n = 0 /\ flash_dma = "done" /\ flash_state = "OUT",
           flash_op.cmd = "RDSR" /\ flash_state # "IN_USB" => n = 1,
           flash_state = "OUT" => flash_dma = "done",
           flash_state \in {"OUT", "IN_USB"}
    PROVE  FlashInv'
<1>1. ChipInv /\ PcInv /\ Where /\ WorkOp /\ WorkChip /\ WorkFrame /\ WorkPc
  BY DEF FlashInv, Working
<1>2. flash_op' = [cmd |-> flash_op.cmd, in |-> n, poll |-> flash_op.poll, wren |-> flash_op.wren]
  BY <1>1 DEF WorkOp
<1>3. PcInv'
  BY <1>1 DEF PcInv, Legal
<1>4. chip.frame = flash_op.cmd
  BY <1>1 DEF WorkFrame
<1>5. CASE n > 0
  <2>1. flash_dma' = "running" /\ flash_state' = "IN_SPI" /\ chip' = chip /\ ep_out' = "idle"
    BY <1>2, <1>5 DEF flash_start_read, StartDma
  <2>2. flash_op.cmd \in {"READ", "RDSR"}
    BY <1>1, <1>5 DEF WorkOp
  <2>3. ChipInv' /\ Where'
    BY <1>1, <2>1 DEF ChipInv, Where, Stays
  <2>4. WorkOp'
    BY <1>1, <1>2, <2>1, <2>2 DEF WorkOp
  <2>5. WorkChip' /\ WorkFrame'
    BY <1>1, <1>2, <1>4, <2>1, <2>2 DEF WorkChip, WorkFrame
  <2>6. WorkPc'
    BY <1>1, <1>2, <2>1 DEF WorkPc
  <2> QED BY <1>3, <2>1, <2>3, <2>4, <2>5, <2>6 DEF FlashInv, Working
<1>6. CASE ~(n > 0)
  <2>1. chip' = Raise(chip) /\ ep_out' = "armed" /\ flash_state' = "IDLE" /\ flash_dma' = "off"
    BY <1>2, <1>6 DEF flash_start_read
  <2>2. /\ chip' = [frame |-> "none", sent |-> 0, busy |-> chip'.busy, wel |-> chip'.wel, ignored |-> FALSE]
        /\ chip'.busy \in BOOLEAN /\ chip'.wel \in BOOLEAN
        /\ flash_op.cmd = "WREN" => ~chip'.busy /\ chip'.wel
        /\ flash_op.cmd \in {"READ", "RDSR"} => chip'.busy = chip.busy
    BY <1>1, <1>4, <2>1, RaiseFacts
  <2>3. ChipInv'
    BY <2>2 DEF ChipInv
  <2>4. Where'
    BY <1>1, <2>1 DEF Where, Stays
  <2>5. flash_op.cmd = "RDSR" => flash_state = "IN_USB" /\ (~flash_busy => ~chip'.busy)
    BY <1>1, <1>6, <2>2 DEF WorkChip
  <2>6. flash_op.cmd = "READ" => ~chip'.busy
    BY <1>1, <2>2 DEF WorkChip
  <2>7. Settled'
    <3>1. CASE pc_op.stage \in {"none", "out"}
      <4>1. pc_next = "ANY" => flash_op.cmd \in {"READ", "RDSR"} /\ ~chip'.busy
        BY <1>1, <2>2, <2>6, <3>1 DEF WorkPc, WorkOp
      <4>2. pc_next = "ERASE" => flash_op.cmd = "WREN"
        BY <1>1, <3>1 DEF WorkPc, WorkOp
      <4> QED BY <2>2, <3>1, <4>1, <4>2 DEF Settled
    <3>2. CASE pc_op.stage \in {"in", "sent", "done"}
      <4>1. pc_op.op.cmd = flash_op.cmd
        BY <1>1, <3>2 DEF WorkPc
      <4>2. After(pc_op.op)' = After(pc_op.op)
        BY DEF After
      <4>3. After(pc_op.op) = "ANY" => ~chip'.busy
        BY <1>1, <2>5, <2>6, <4>1 DEF After, WorkOp
      <4>4. After(pc_op.op) = "ERASE" => flash_op.cmd = "WREN"
        BY <1>1, <4>1 DEF After, WorkOp
      <4> QED BY <2>2, <3>2, <4>2, <4>3, <4>4 DEF Settled
    <3> QED BY <1>1, <3>1, <3>2 DEF PcInv
  <2> QED BY <1>3, <2>1, <2>3, <2>4, <2>7 DEF FlashInv
<1> QED BY <1>5, <1>6

LEMMA InCompletionInv == FlashInv /\ flash_usb_in_completion /\ Stays => FlashInv'
<1> SUFFICES ASSUME FlashInv, flash_usb_in_completion, Stays PROVE FlashInv'
  OBVIOUS
<1>1. flash_state = "IN_USB" /\ Working /\ UNCHANGED <<flash_busy, pc_op, pc_next>>
  BY DEF flash_usb_in_completion, FlashInv, Where
<1>2. /\ flash_op' = [flash_op EXCEPT !.in = @ - flash_in_packet_len(@)]
      /\ flash_start_read(flash_op', chip) /\ ep_in' = "idle"
  BY <1>1 DEF flash_usb_in_completion
<1>3. flash_op.cmd \notin {"WREN", "PP", "ERASE"}
  BY <1>1 DEF Working, WorkOp
<1>4. PICK n : flash_op' = [flash_op EXCEPT !.in = n]
  BY <1>2
<1> QED BY <1>1, <1>2, <1>3, <1>4, ReadOrDone

LEMMA DmaCompletionInv == FlashInv /\ flash_dma_rx_completion /\ Stays => FlashInv'
<1> SUFFICES ASSUME FlashInv, flash_dma_rx_completion, Stays PROVE FlashInv'
  OBVIOUS
<1>1. /\ flash_dma = "done" /\ flash_state \notin {"DISABLE", "IDLE"}
      /\ UNCHANGED <<flash_op, flash_data, flash_busy, sercom, pc_op, pc_got, pc_next, running, altsetting>>
      /\ ChipInv /\ PcInv /\ Where /\ WorkOp /\ WorkChip /\ WorkFrame /\ WorkPc /\ Working
  BY DEF flash_dma_rx_completion, Stays, FlashInv, Where, Working
<1>2. PcInv'
  BY <1>1 DEF PcInv, Legal
<1>3. CASE flash_state = "IN_USB"
  <2>1. UNCHANGED <<flash_state, flash_dma, ep_out, ep_in, chip>>
    BY <1>1, <1>3 DEF flash_dma_rx_completion, invalid
  <2>2. ChipInv' /\ Where'
    BY <1>1, <2>1 DEF ChipInv, Where
  <2>3. WorkOp' /\ WorkChip' /\ WorkFrame' /\ WorkPc'
    BY <1>1, <2>1 DEF WorkOp, WorkChip, WorkFrame, WorkPc
  <2> QED BY <1>1, <1>2, <2>1, <2>2, <2>3 DEF FlashInv, Working
<1>4. CASE flash_state = "IN_SPI"
  <2>1. ep_in' = "sending" /\ flash_state' = "IN_USB" /\ flash_dma' = "off" /\ UNCHANGED <<ep_out, chip>>
    BY <1>1, <1>4 DEF flash_dma_rx_completion
  <2>2. ChipInv' /\ Where'
    BY <1>1, <1>4, <2>1 DEF ChipInv, Where
  <2>3. WorkOp' /\ WorkChip' /\ WorkFrame' /\ WorkPc'
    BY <1>1, <1>4, <2>1 DEF WorkOp, WorkChip, WorkFrame, WorkPc
  <2> QED BY <1>2, <2>1, <2>2, <2>3 DEF FlashInv, Working
<1>5. CASE flash_state \notin {"IN_USB", "IN_SPI"}
  <2>1. AfterDma /\ UNCHANGED <<ep_in, halted>> /\ ep_in \notin {"sending", "done"}
    BY <1>1, <1>5 DEF flash_dma_rx_completion, Where
  <2>2. CASE flash_state = "SR_POLL_OUT" \/ (flash_state = "SR_POLL_IN" /\ flash_busy)
    <3>1. flash_dma' = "running" /\ flash_state' = "SR_POLL_IN" /\ chip' = chip /\ ep_out' = "idle"
      BY <2>1, <2>2 DEF AfterDma, flash_read_sr_poll, StartDma
    <3>2. ChipInv' /\ Where'
      BY <1>1, <2>1, <3>1 DEF ChipInv, Where
    <3>3. WorkOp' /\ WorkChip' /\ WorkFrame' /\ WorkPc'
      BY <1>1, <2>2, <3>1 DEF WorkOp, WorkChip, WorkFrame, WorkPc
    <3> QED BY <1>2, <3>1, <3>2, <3>3 DEF FlashInv, Working
  <2>3. CASE flash_state = "SR_POLL_IN" /\ ~flash_busy
    <3>1. flash_op.wren /\ chip.frame = "RDSR" /\ ~chip.busy
      BY <1>1, <2>3 DEF WorkOp, WorkFrame, WorkChip
    <3>2. /\ flash_dma' = "running" /\ flash_state' = "WREN_OUT" /\ ep_out' = "idle"
          /\ chip' = Lower(Raise(chip))
      BY <2>1, <2>3, <3>1 DEF AfterDma, flash_start_wren, StartDma
    <3>3. chip' = [frame |-> "none", sent |-> 0, busy |-> chip.busy, wel |-> chip.wel, ignored |-> FALSE]
      <4>1. Raise(chip).busy = chip.busy /\ Raise(chip).wel = chip.wel /\ Raise(chip).ignored = FALSE
        BY <1>1, <3>1, RaiseFacts
      <4> QED BY <3>2, <4>1 DEF Lower, NewFrame
    <3>4. ChipInv' /\ Where'
      BY <1>1, <2>1, <3>2, <3>3 DEF ChipInv, Where
    <3>5. WorkOp' /\ WorkChip' /\ WorkFrame' /\ WorkPc'
      BY <1>1, <2>3, <3>1, <3>2, <3>3 DEF WorkOp, WorkChip, WorkFrame, WorkPc
    <3> QED BY <1>2, <3>2, <3>4, <3>5 DEF FlashInv, Working
  <2>4. CASE flash_state = "WREN_OUT"
    <3>1. chip.frame = "WREN" /\ flash_op.cmd = "PP"
      BY <1>1, <2>4 DEF WorkOp, WorkFrame
    <3>2. /\ flash_dma' = "running" /\ flash_state' = "OUT" /\ ep_out' = "idle"
          /\ chip' = Lower(Raise(chip))
      BY <2>1, <2>4, <3>1 DEF AfterDma, flash_start_write, StartDma
    <3>3. /\ chip' = [frame |-> "none", sent |-> 0, busy |-> chip'.busy, wel |-> chip'.wel, ignored |-> FALSE]
          /\ chip'.busy \in BOOLEAN /\ chip'.wel \in BOOLEAN /\ ~chip'.busy /\ chip'.wel
      <4>1. /\ Raise(chip).busy \in BOOLEAN /\ Raise(chip).wel \in BOOLEAN
            /\ ~Raise(chip).busy /\ Raise(chip).wel /\ Raise(chip).ignored = FALSE
        BY <1>1, <3>1, RaiseFacts
      <4>2. chip' = [frame |-> "none", sent |-> 0, busy |-> Raise(chip).busy, wel |-> Raise(chip).wel,
                     ignored |-> FALSE]
        BY <3>2, <4>1 DEF Lower, NewFrame
      <4> QED BY <4>1, <4>2
    <3>4. ChipInv' /\ Where'
      BY <1>1, <2>1, <3>2, <3>3 DEF ChipInv, Where
    <3>5. WorkOp' /\ WorkChip' /\ WorkFrame' /\ WorkPc'
      BY <1>1, <2>4, <3>1, <3>2, <3>3 DEF WorkOp, WorkChip, WorkFrame, WorkPc
    <3> QED BY <1>2, <3>2, <3>4, <3>5 DEF FlashInv, Working
  <2>5. CASE flash_state = "OUT"
    <3>1. flash_start_read(flash_op, chip)
      BY <2>1, <2>5 DEF AfterDma
    <3>2. PICK n : flash_op' = [flash_op EXCEPT !.in = n] /\ n = flash_op.in /\ flash_op' = flash_op
      BY <1>1 DEF WorkOp
    <3>3. /\ flash_op.cmd \in {"WREN", "PP", "ERASE"} => n = 0
          /\ flash_op.cmd = "RDSR" => n = 1
      BY <1>1, <2>5, <3>2 DEF WorkOp
    <3> QED BY <1>1, <2>1, <2>5, <3>1, <3>2, <3>3, ReadOrDone
  <2> QED BY <1>1, <1>5, <2>2, <2>3, <2>4, <2>5 DEF Where
<1> QED BY <1>3, <1>4, <1>5

\* The bus has moved a command or an answer.
LEMMA TransferInv == FlashInv /\ SpiTransfer /\ Stays => FlashInv'
<1> SUFFICES ASSUME FlashInv, SpiTransfer, Stays PROVE FlashInv'
  OBVIOUS
<1>1. /\ flash_dma = "running" /\ flash_dma' = "done" /\ flash_state \notin {"DISABLE", "IDLE"}
      /\ UNCHANGED <<flash_state, flash_op, sercom, ep_out, ep_in, halted, pc_op, pc_got, pc_next,
                     running, altsetting>>
      /\ ChipInv /\ PcInv /\ Where /\ WorkOp /\ WorkChip /\ WorkFrame /\ WorkPc
  BY DEF SpiTransfer, Stays, FlashInv, Where, Working
<1>2. PcInv' /\ WorkOp'
  BY <1>1 DEF PcInv, WorkOp, Legal
<1>3. CASE flash_state \in {"IN_SPI", "SR_POLL_IN"}
  <2>1. PICK n : flash_busy' = chip.busy /\ chip' = [chip EXCEPT !.sent = n]
    <3>1. CASE flash_state = "IN_SPI"
      BY <3>1 DEF SpiTransfer
    <3>2. CASE flash_state = "SR_POLL_IN"
      <4>1. chip = [chip EXCEPT !.sent = chip.sent]
        BY <1>1 DEF ChipInv
      <4> QED BY <3>2, <4>1 DEF SpiTransfer
    <3> QED BY <1>3, <3>1, <3>2
  <2>2. chip' = [frame |-> chip.frame, sent |-> n, busy |-> chip.busy, wel |-> chip.wel, ignored |-> FALSE]
    <3>1. PICK g, k, b, w : chip = [frame |-> g, sent |-> k, busy |-> b, wel |-> w, ignored |-> FALSE]
      BY <1>1 DEF ChipInv
    <3> QED BY <2>1, <3>1
  <2>3. ChipInv' /\ Where'
    BY <1>1, <2>1, <2>2 DEF ChipInv, Where
  <2>4. WorkChip' /\ WorkFrame' /\ WorkPc'
    BY <1>1, <1>3, <2>1, <2>2 DEF WorkChip, WorkFrame, WorkPc
  <2> QED BY <1>1, <1>2, <2>3, <2>4 DEF FlashInv, Working
<1>4. CASE flash_state = "IN_USB"
  <2>1. FALSE
    BY <1>1, <1>4 DEF Where
  <2> QED BY <2>1
<1>5. CASE flash_state \in {"SR_POLL_OUT", "WREN_OUT", "OUT"}
  <2>1. PICK f : /\ chip' = [chip EXCEPT !.frame = f] /\ UNCHANGED flash_busy
                 /\ flash_state = "SR_POLL_OUT" => f = "RDSR"
                 /\ flash_state = "WREN_OUT" => f = "WREN"
                 /\ flash_state = "OUT" => f = flash_op.cmd
    BY <1>5 DEF SpiTransfer
  <2>2. chip' = [frame |-> f, sent |-> chip.sent, busy |-> chip.busy, wel |-> chip.wel, ignored |-> FALSE]
    <3>1. PICK g, k, b, w : chip = [frame |-> g, sent |-> k, busy |-> b, wel |-> w, ignored |-> FALSE]
      BY <1>1 DEF ChipInv
    <3> QED BY <2>1, <3>1
  <2>3. /\ f \in {"WREN", "PP", "ERASE"} => ~chip.busy
        /\ f \in {"PP", "ERASE"} => chip.wel
    BY <1>1, <1>5, <2>1 DEF WorkChip, WorkOp
  <2>4. ChipInv' /\ Where'
    BY <1>1, <2>1, <2>2, <2>3 DEF ChipInv, Where
  <2>5. WorkChip' /\ WorkFrame' /\ WorkPc'
    BY <1>1, <1>5, <2>1, <2>2 DEF WorkChip, WorkFrame, WorkPc
  <2> QED BY <1>1, <1>2, <2>4, <2>5 DEF FlashInv, Working
<1> QED BY <1>1, <1>3, <1>4, <1>5 DEF Where

LEMMA ReadyInv == FlashInv /\ ChipReady /\ Stays => FlashInv'
<1> SUFFICES ASSUME FlashInv, ChipReady, Stays PROVE FlashInv'
  OBVIOUS
<1>1. /\ chip' = [chip EXCEPT !.busy = FALSE]
      /\ UNCHANGED <<flash_state, flash_op, flash_data, flash_busy, flash_dma, sercom, ep_out,
                     ep_in, halted, pc_op, pc_got, pc_next, running, altsetting>>
      /\ ChipInv /\ PcInv /\ Where
  BY DEF ChipReady, Stays, FlashInv
<1>2. chip' = [frame |-> chip.frame, sent |-> chip.sent, busy |-> FALSE, wel |-> chip.wel, ignored |-> FALSE]
  <2>1. PICK g, k, b, w : chip = [frame |-> g, sent |-> k, busy |-> b, wel |-> w, ignored |-> FALSE]
    BY <1>1 DEF ChipInv
  <2> QED BY <1>1, <2>1
<1>3. ChipInv' /\ PcInv' /\ Where'
  <2>1. ChipInv'
    BY <1>1, <1>2 DEF ChipInv
  <2>2. PcInv'
    BY <1>1 DEF PcInv, Legal
  <2>3. Where'
    BY <1>1 DEF Where
  <2> QED BY <2>1, <2>2, <2>3
<1>4. Settled => Settled'
  BY <1>1, <1>2 DEF Settled, After
<1>5. Working => Working'
  BY <1>1, <1>2 DEF Working, WorkOp, WorkChip, WorkFrame, WorkPc
<1> QED BY <1>1, <1>2, <1>3, <1>4, <1>5 DEF FlashInv

LEMMA WritesInv == FlashInv /\ PcWrites /\ Stays => FlashInv'
<1> SUFFICES ASSUME FlashInv, PcWrites, Stays PROVE FlashInv'
  OBVIOUS
<1>1. PICK op \in Legal(pc_next) : pc_op' = [op |-> op, stage |-> "out"]
  BY DEF PcWrites
<1>2. /\ pc_op = PcIdle /\ ep_out # "off"
      /\ UNCHANGED <<flash_state, flash_op, flash_data, flash_busy, flash_dma, sercom, ep_out,
                     ep_in, halted, chip, pc_next, running, altsetting>>
      /\ ChipInv /\ PcInv /\ Where
  BY DEF PcWrites, Stays, FlashInv
<1>3. ChipInv' /\ PcInv' /\ Where'
  BY <1>1, <1>2 DEF ChipInv, PcInv, Where, Legal, PcIdle
<1>4. Settled => Settled'
  BY <1>1, <1>2 DEF Settled, PcIdle
<1>5. Working => Working'
  BY <1>1, <1>2 DEF Working, WorkOp, WorkChip, WorkFrame, WorkPc, PcIdle
<1> QED BY <1>2, <1>3, <1>4, <1>5 DEF FlashInv

LEMMA DeliversInv == FlashInv /\ PcDelivers /\ Stays => FlashInv'
<1> SUFFICES ASSUME FlashInv, PcDelivers, Stays PROVE FlashInv'
  OBVIOUS
<1>1. /\ pc_op.stage = "out" /\ ep_out = "armed" /\ ep_out' = "full" /\ flash_state = "IDLE"
      /\ UNCHANGED <<flash_state, flash_op, flash_data, flash_busy, flash_dma, sercom, ep_in,
                     halted, chip, pc_got, pc_next, running, altsetting>>
      /\ ChipInv /\ PcInv /\ Where
  BY DEF PcDelivers, Stays, FlashInv, Where
<1>2. PICK op : pc_op.op = op /\ pc_op = [op |-> op, stage |-> "out"] /\ op \in Legal(pc_next)
  BY <1>1 DEF PcInv
<1>3. op.cmd = "RDSR" => op.in = 1
  BY <1>1, <1>2, LegalFacts DEF PcInv
<1>4. pc_op' = [op |-> op, stage |-> IF op.in > 0 THEN "in" ELSE "sent"]
  BY <1>2 DEF PcDelivers
<1>5. ChipInv' /\ PcInv' /\ Where'
  <2>1. PICK st \in {"in", "sent"} : /\ pc_op' = [op |-> op, stage |-> st]
                                     /\ st = "sent" => op.cmd # "RDSR"
    BY <1>3, <1>4
  <2>2. op \in Legal(pc_next)'
    BY <1>1, <1>2 DEF Legal
  <2>3. PcInv'
    BY <1>1, <2>1, <2>2 DEF PcInv
  <2> QED BY <1>1, <2>1, <2>3 DEF ChipInv, Where
<1>6. Ready(pc_next)'
  BY <1>1 DEF FlashInv, Settled
<1> QED BY <1>1, <1>5, <1>6 DEF FlashInv

LEMMA ReadsInv == FlashInv /\ PcReads /\ Stays => FlashInv'
<1> SUFFICES ASSUME FlashInv, PcReads, Stays PROVE FlashInv'
  OBVIOUS
<1>1. /\ pc_op.stage = "in" /\ ep_in' = "done" /\ flash_state = "IN_USB"
      /\ UNCHANGED <<flash_state, flash_op, flash_data, flash_busy, flash_dma, sercom, ep_out,
                     halted, chip, pc_next, running, altsetting>>
      /\ ChipInv /\ PcInv /\ Where /\ Working
  BY DEF PcReads, Stays, FlashInv, Where
<1>2. PICK op : pc_op.op = op /\ pc_op = [op |-> op, stage |-> "in"] /\ op \in Legal(pc_next)
  BY <1>1 DEF PcInv
<1>3. PICK st \in {"in", "done"} : pc_op' = [op |-> op, stage |-> st]
  BY <1>2 DEF PcReads
<1>4. ChipInv' /\ PcInv' /\ Where'
  BY <1>1, <1>2, <1>3 DEF ChipInv, PcInv, Where, Legal
<1>5. Working'
  BY <1>1, <1>2, <1>3 DEF Working, WorkOp, WorkChip, WorkFrame, WorkPc
<1> QED BY <1>1, <1>4, <1>5 DEF FlashInv

LEMMA ReturnsInv == FlashInv /\ PcReturns /\ Stays => FlashInv'
<1> SUFFICES ASSUME FlashInv, PcReturns, Stays PROVE FlashInv'
  OBVIOUS
<1>1. /\ pc_op.stage \in {"done", "sent"} /\ ep_out # "full"
      /\ pc_op' = PcIdle /\ pc_next' = After(pc_op.op)
      /\ UNCHANGED <<flash_state, flash_op, flash_data, flash_busy, flash_dma, sercom, ep_out,
                     ep_in, halted, chip, running, altsetting>>
      /\ ChipInv /\ PcInv /\ Where
  BY DEF PcReturns, Stays, FlashInv, Where
<1>2. After(pc_op.op) \in {"ANY", "ERASE", "PAGES", "WAIT"}
  BY DEF After
<1>3. ChipInv' /\ PcInv' /\ Where'
  BY <1>1, <1>2 DEF ChipInv, PcInv, Where, PcIdle
<1>4. Settled => Settled'
  BY <1>1 DEF Settled, PcIdle
<1>5. Working => Working'
  <2> SUFFICES ASSUME Working PROVE Working'
    OBVIOUS
  <2>1. WorkOp' /\ WorkChip' /\ WorkFrame'
    BY <1>1 DEF Working, WorkOp, WorkChip, WorkFrame
  <2>2. pc_op.op.cmd = flash_op.cmd /\ flash_op.cmd \in {"READ", "WREN", "PP", "RDSR", "ERASE"}
    BY <1>1 DEF Working, WorkPc, WorkOp
  <2>3. flash_op.cmd = "RDSR" => pc_op.stage = "done" /\ (~flash_busy => ~chip.busy)
    BY <1>1, <2>2 DEF Working, WorkPc, PcInv
  <2>4. WorkPc'
    BY <1>1, <2>2, <2>3 DEF WorkPc, After, PcIdle
  <2> QED BY <2>1, <2>4 DEF Working
<1> QED BY <1>1, <1>3, <1>4, <1>5 DEF FlashInv

LEMMA FlashSteps == FlashInv /\ Next => FlashInv'
<1> SUFFICES ASSUME FlashInv, Next PROVE FlashInv'
  OBVIOUS
<1>1. CASE PowerOn \/ handle_reset_pin \/ req_reset \/ WdtReset
  <2>1. FlashGone(Raise(chip)) /\ ChipInv
    BY <1>1 DEF PowerOn, handle_reset_pin, req_reset, WdtReset, Reset, FlashInv
  <2> QED BY <2>1, FlashGoneInv
<1>2. CASE PowerLoss
  <2>1. FlashGone(SilentChip) /\ ChipInv
    BY <1>2 DEF PowerLoss, FlashInv
  <2> QED BY <2>1, FlashGoneInv
<1>3. CASE LeaveBootloader \/ (Dfu /\ UNCHANGED <<flashVars, serialVars, usbVars>>)
  <2>1. running = "bootloader" /\ UNCHANGED flashVars
    BY <1>3 DEF LeaveBootloader, BootLeaves, Dfu, dfu_cb_dnload_block, dfu_cb_dnload_packet_completed,
       dfu_cb_manifest, DfuReset
  <2>2. flash_state = "DISABLE"
    BY <2>1 DEF FlashInv, Where
  <2> QED BY <2>1, <2>2, FlashRests
<1>4. CASE req_boot \/ req_gpio \/ usb_cb_set_configuration \/ SocBoots \/ TCC1_Handler
  <2>1. UNCHANGED flashVars /\ Stays
    BY <1>4 DEF req_boot, req_gpio, usb_cb_set_configuration, SocBoots, TCC1_Handler, bootVars, usbVars, Stays
  <2> QED BY <2>1, FlashRests DEF Stays
<1>5. CASE usb_cb_set_interface
  BY <1>5, SetInterfaceInv
<1>6. CASE bridge_handle_sync
  BY <1>6, SyncInv
<1>7. CASE UsbCompletion \/ DMAC_Handler \/ TC3_Handler \/ Hardware \/ Pc \/ Serial_(UartRx)
  <2>1. /\ Stays
        /\ \/ UNCHANGED flashVars
           \/ flash_usb_out_completion \/ flash_usb_in_completion \/ flash_dma_rx_completion
           \/ SpiTransfer \/ ChipReady \/ PcWrites \/ PcDelivers \/ PcReads \/ PcReturns
    BY <1>7 DEF UsbCompletion, DMAC_Handler, TC3_Handler, Hardware, Pc, Flash_, Serial_, bootVars, usbVars, Stays
  <2> QED BY <2>1, FlashRests, OutCompletionInv, InCompletionInv, DmaCompletionInv, TransferInv, ReadyInv,
             WritesInv, DeliversInv, ReadsInv, ReturnsInv DEF Stays
<1> QED BY <1>1, <1>2, <1>3, <1>4, <1>5, <1>6, <1>7 DEF Next

LEMMA FlashStarts == Init => FlashInv
<1> SUFFICES ASSUME Init PROVE FlashInv
  OBVIOUS
<1>1. ChipInv
  BY DEF Init, FlashInit, SilentChip, NewFrame, ChipInv
<1>2. PcInv /\ Where
  BY DEF Init, FlashInit, PcInv, Where, PcIdle
<1> QED BY <1>1, <1>2 DEF FlashInv, Init, FlashInit

LEMMA FlashStep == FlashInv /\ [Next]_vars => FlashInv'
<1>1. FlashInv /\ UNCHANGED vars => FlashInv'
  BY FlashRests DEF vars, bootVars, usbVars
<1> QED BY <1>1, FlashSteps

\* Whatever the PC sends of what flash.py sends, in packets and buffers of any size, and
\* however it is interrupted, the chip gets no command it would ignore (flash.c:122-199).
THEOREM CommandsAlwaysObeyed == Spec => []CommandsObeyed
<1>1. FlashInv => CommandsObeyed
  BY DEF FlashInv, ChipInv, CommandsObeyed
<1> QED BY <1>1, FlashStarts, FlashStep, PTL DEF Spec

---------------------------------------------------------------------------
(* The types.                                                              *)

\* What the flash programmer's invariant does not say, and that reception stops at a
\* full buffer.
DeviceTypes ==
    /\ ep_out \in {"off", "idle", "armed", "full"} /\ ep_in \in {"off", "idle", "sending", "done"}
    /\ flash_dma \in {"off", "running", "done"} /\ sercom \in {"master", "slave"}
    /\ active_rx_buf \in 0..1 /\ rx_count \in 0..SIZE
    /\ rx_dma \in {"off", "running", "done"} /\ tx_dma \in {"off", "running", "done"}
    /\ rx_dma = "running" => rx_count < SIZE
    /\ running \in {"off", "bootloader", "firmware", "hung"}
    /\ altsetting \in {"NONE", "FLASH", "PIPE"} /\ soc \in {"off", "linux", "daemon"}

LEMMA SizeFacts == SIZE \in Nat /\ 0 < SIZE /\ 0 \in 0..SIZE /\ 0 \in 0..1 /\ 1 \in 0..1
BY SerialAssumption

LEMMA TypesBoot ==
    ASSUME DeviceTypes,
           PowerOn \/ handle_reset_pin \/ req_reset \/ WdtReset \/ LeaveBootloader \/ PowerLoss
    PROVE  DeviceTypes'
<1>1. running' \in {"off", "bootloader", "firmware", "hung"}
  BY DEF PowerOn, handle_reset_pin, req_reset, WdtReset, LeaveBootloader, PowerLoss, Reset, BootMain,
         BootLeaves, Jump, DeviceTypes
<1>2. altsetting' \in {"NONE", "FLASH", "PIPE"} /\ soc' \in {"off", "linux", "daemon"}
  BY DEF PowerOn, handle_reset_pin, req_reset, WdtReset, LeaveBootloader, PowerLoss, Reset, Starts,
         DeviceTypes
<1>3. \/ (\E ch : FlashGone(ch)) /\ SerialGone
      \/ UNCHANGED <<flashVars, serialVars>>
  BY DEF PowerOn, handle_reset_pin, req_reset, WdtReset, LeaveBootloader, PowerLoss, Reset
<1> QED BY <1>1, <1>2, <1>3, SizeFacts DEF FlashGone, SerialGone, flashVars, serialVars, DeviceTypes

LEMMA TypesFlash ==
    ASSUME FlashInv, DeviceTypes, UNCHANGED <<serialVars, running, altsetting, soc>>,
           \/ flash_usb_out_completion \/ flash_usb_in_completion \/ flash_dma_rx_completion
           \/ SpiTransfer \/ ChipReady \/ PcWrites \/ PcDelivers \/ PcReads \/ PcReturns
    PROVE  DeviceTypes'
<1> DEFINE Kept == /\ ep_out' \in {"off", "idle", "armed", "full"}
                   /\ ep_in' \in {"off", "idle", "sending", "done"}
                   /\ flash_dma' \in {"off", "running", "done"} /\ sercom' \in {"master", "slave"}
<1> USE DEF StartDma, flash_start_read, flash_start_write, flash_start_wren, flash_start_sr_poll,
            flash_read_sr_poll, invalid
<1>1. flash_usb_out_completion \/ flash_usb_in_completion => Kept
  BY DEF flash_usb_out_completion, flash_usb_in_completion, DeviceTypes
<1>2. flash_dma_rx_completion => Kept
  <2>1. flash_busy \in BOOLEAN /\ flash_state \in {"DISABLE", "IDLE", "OUT", "IN_SPI", "IN_USB",
                                                   "SR_POLL_OUT", "SR_POLL_IN", "WREN_OUT"}
    BY DEF FlashInv, Where
  <2> QED BY <2>1 DEF flash_dma_rx_completion, AfterDma, DeviceTypes
<1>3. SpiTransfer \/ ChipReady \/ PcWrites \/ PcDelivers \/ PcReads \/ PcReturns => Kept
  BY DEF SpiTransfer, ChipReady, PcWrites, PcDelivers, PcReads, PcReturns, DeviceTypes
<1> QED BY <1>1, <1>2, <1>3 DEF DeviceTypes, serialVars

LEMMA TypesSerial ==
    ASSUME DeviceTypes, UNCHANGED <<flashVars, running, altsetting, soc>>,
           \/ usbserial_init \/ usbserial_out_completion \/ usbserial_in_completion
           \/ usbserial_dma_rx_completion \/ usbserial_dma_tx_completion \/ usbserial_handle_tc
           \/ UartTx \/ UartRx \/ TimerOverflow \/ PcWritesTty \/ PcReadsTty \/ Detach
    PROVE  DeviceTypes'
<1> DEFINE Kept == /\ active_rx_buf' \in 0..1 /\ rx_count' \in 0..SIZE
                   /\ rx_dma' \in {"off", "running", "done"} /\ tx_dma' \in {"off", "running", "done"}
                   /\ rx_dma' = "running" => rx_count' < SIZE
<1> USE SizeFacts DEF DeviceTypes, rxVars, txVars
<1>1. usbserial_init \/ usbserial_out_completion \/ usbserial_in_completion => Kept
  BY DEF usbserial_init, usbserial_out_completion, usbserial_in_completion
<1>2. usbserial_dma_rx_completion \/ usbserial_handle_tc => Kept
  <2>1. 1 - active_rx_buf \in 0..1
    OBVIOUS
  <2> QED BY <2>1 DEF usbserial_dma_rx_completion, usbserial_handle_tc, usbserial_rx_flush
<1>3. usbserial_dma_tx_completion \/ UartTx \/ TimerOverflow => Kept
  BY DEF usbserial_dma_tx_completion, UartTx, TimerOverflow
<1>4. UartRx => Kept
  BY DEF UartRx
<1>5. PcWritesTty \/ PcReadsTty \/ Detach => Kept
  BY DEF PcWritesTty, PcReadsTty, Detach
<1> QED BY <1>1, <1>2, <1>3, <1>4, <1>5 DEF flashVars

LEMMA TypesStep == FlashInv /\ DeviceTypes /\ [Next]_vars => DeviceTypes'
<1> SUFFICES ASSUME FlashInv, DeviceTypes, [Next]_vars PROVE DeviceTypes'
  OBVIOUS
<1>1. CASE PowerOn \/ handle_reset_pin \/ req_reset \/ WdtReset \/ LeaveBootloader \/ PowerLoss
  BY <1>1, TypesBoot
<1>2. CASE \/ task = "update" /\ Dfu /\ UNCHANGED <<flashVars, serialVars, usbVars>>
           \/ req_boot \/ req_gpio \/ SocBoots \/ TCC1_Handler \/ UNCHANGED vars
  <2>1. /\ UNCHANGED <<flashVars, serialVars, running, altsetting>>
        /\ soc' \in {"off", "linux", "daemon"}
    BY <1>2 DEF Dfu, dfu_cb_dnload_block, dfu_cb_dnload_packet_completed, dfu_cb_manifest, DfuReset,
                req_boot, req_gpio, SocBoots, TCC1_Handler, vars, bootVars, usbVars, DeviceTypes
  <2> QED BY <2>1 DEF DeviceTypes, flashVars, serialVars
<1>3. CASE usb_cb_set_interface
  <2>1. PICK new \in {"NONE", "FLASH", "PIPE"} : SetInterface(new)
    BY <1>3 DEF usb_cb_set_interface
  <2> QED BY <2>1 DEF SetInterface, flash_init, flash_disable, DeviceTypes, serialVars, bootVars
<1>4. CASE bridge_handle_sync
  BY <1>4 DEF bridge_handle_sync, DeviceTypes, serialVars, bootVars
<1>5. CASE UsbCompletion \/ DMAC_Handler \/ Hardware \/ Pc
  BY <1>5, TypesFlash, TypesSerial DEF UsbCompletion, DMAC_Handler, Hardware, Pc, Flash_, Serial_,
     bootVars, usbVars
<1>6. CASE usb_cb_set_configuration \/ TC3_Handler \/ Serial_(UartRx)
  BY <1>6, TypesSerial DEF usb_cb_set_configuration, TC3_Handler, Serial_, bootVars, usbVars
<1> QED BY <1>1, <1>2, <1>3, <1>4, <1>5, <1>6 DEF Next

\* The handlers keep the states, endpoints, DMA channels and the console's buffers and
\* counter in their ranges (main.c, flash.c, usbserial.c), whatever the sizes, and
\* whether or not the PC reads the console in time.
THEOREM DeviceTypeCorrect == Spec => []TypeOK
<1>1. Init => DeviceTypes
  BY SizeFacts DEF Init, FlashInit, SerialInit, BootInit, DeviceTypes
<1>2. FlashInv /\ DeviceTypes => TypeOK
  BY DEF FlashInv, Where, DeviceTypes, TypeOK
<1> QED BY <1>1, <1>2, FlashStarts, FlashStep, TypesStep, PTL DEF Spec
===========================================================================
