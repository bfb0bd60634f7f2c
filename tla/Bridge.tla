------------------------------ MODULE Bridge ------------------------------
(***************************************************************************)
(* The MCU end of the bridge: firmware/bridge.c.                           *)
(*                                                                         *)
(* bridge_handle_sync runs from EVSYS at priority 0 and preempts           *)
(* everything; bridge_dma_rx_completion runs from DMAC_Handler at the      *)
(* lowest priority, so SYNC interrupts can fall between any two of its     *)
(* steps: each callback it makes is a step, and so are the assignments to  *)
(* was_open and bridge_state with which it ends.                           *)
(***************************************************************************)
EXTENDS BridgeWire

VARIABLES
    bridge_state,
    was_open,          \* channels last seen open by the completion handler
    ctrl_rx,           \* header received: [ok, open, writable, size]
    ctrl_tx,           \* header sent: [enabled, ready, size]
    in_chan_ptr,       \* packet in the buffer of the last bridge_start_in
    in_chan_size,      \* that packet until a transfer takes it, else NoPkt
    out_chan_ready,    \* low nibble: channels with a buffer for the SoC's data
    out_chan_enabled,  \* high nibble: channels the MCU wants open
    out_chan_ptr,      \* packet the DMA left in the buffer of bridge_start_out
    dma,               \* data transfer the DMA chain is set up for
    tcmpl,             \* CHINTFLAG.TCMPL of DMA_BRIDGE_RX
    inten,             \* CHINTENSET.TCMPL of DMA_BRIDGE_RX
    handler,           \* where bridge_dma_rx_completion is
    rx_status,         \* its copy of ctrl_rx.open
    todo,              \* callbacks it has still to make
    cur                \* channel whose callback is running

mcuVars == <<bridge_state, was_open, ctrl_rx, ctrl_tx, in_chan_ptr, in_chan_size,
             out_chan_ready, out_chan_enabled, out_chan_ptr, dma, tcmpl, inten,
             handler, rx_status, todo, cur>>
handlerVars == <<handler, rx_status, todo, cur>>
requestVars == <<in_chan_ptr, in_chan_size, out_chan_ready, out_chan_enabled>>

NoChan == 3

\* The order of the CHECK_ macros: opens, OUT completions, IN completions, closes.
OpenCb == 0
OutCb == 1
InCb == 2
CloseCb == 3

SocHeader == [ok : BOOLEAN, open : [Chan -> 0..MaxConn],
              writable : SUBSET Chan, size : [Chan -> Packet]]
McuHeader == [enabled : SUBSET Chan, ready : SUBSET Chan, size : [Chan -> Packet]]

BridgeTypeOK ==
    /\ bridge_state \in {"DISABLE", "IDLE", "CTRL", "DATA"}
    /\ was_open \in SUBSET Chan
    /\ ctrl_rx \in SocHeader
    /\ ctrl_tx \in McuHeader
    /\ in_chan_ptr \in [Chan -> Packet]
    /\ in_chan_size \in [Chan -> Packet]
    /\ out_chan_ready \in SUBSET Chan
    /\ out_chan_enabled \in SUBSET Chan
    /\ out_chan_ptr \in [Chan -> Packet]
    /\ dma \in Transfer
    /\ tcmpl \in BOOLEAN
    /\ inten \in BOOLEAN
    /\ handler \in {"idle", "callbacks", "was_open", "state"}
    /\ rx_status \in [Chan -> 0..MaxConn]
    /\ todo \in SUBSET ((OpenCb..CloseCb) \X Chan)
    /\ cur \in Chan \cup {NoChan}

\* bridge_init has run, and port_init has enabled the channels of the ports.
BridgeInit ==
    /\ bridge_state = "IDLE"
    /\ was_open = {}
    /\ ctrl_rx = [ok |-> FALSE, open |-> [c \in Chan |-> 0], writable |-> {},
                  size |-> [c \in Chan |-> NoPkt]]
    /\ ctrl_tx = [enabled |-> {}, ready |-> {}, size |-> [c \in Chan |-> NoPkt]]
    /\ in_chan_ptr = [c \in Chan |-> NoPkt]
    /\ in_chan_size = [c \in Chan |-> NoPkt]
    /\ out_chan_ready = {}
    /\ out_chan_enabled = PortChan
    /\ out_chan_ptr = [c \in Chan |-> NoPkt]
    /\ dma = {}
    /\ tcmpl = FALSE
    /\ inten = FALSE
    /\ handler = "idle"
    /\ rx_status = [c \in Chan |-> 0]
    /\ todo = {}
    /\ cur = NoChan

---------------------------------------------------------------------------
(* The calls the MCU's functions make to hand buffers to the bridge.       *)

bridge_start_in(c, p) ==
    /\ in_chan_ptr' = [in_chan_ptr EXCEPT ![c] = p]
    /\ in_chan_size' = [in_chan_size EXCEPT ![c] = p]
    /\ RaiseIrq
    /\ UNCHANGED <<out_chan_ready, out_chan_enabled>>

bridge_start_out(c) ==
    /\ out_chan_ready' = out_chan_ready \cup {c}
    /\ RaiseIrq
    /\ UNCHANGED <<in_chan_ptr, in_chan_size, out_chan_enabled>>

bridge_enable_chan(c) ==
    /\ out_chan_enabled' = out_chan_enabled \cup {c}
    /\ RaiseIrq
    /\ UNCHANGED <<in_chan_ptr, in_chan_size, out_chan_ready>>

bridge_disable_chan(c) ==
    /\ out_chan_enabled' = out_chan_enabled \ {c}
    /\ out_chan_ready' = out_chan_ready \ {c}
    /\ in_chan_size' = [in_chan_size EXCEPT ![c] = NoPkt]
    /\ RaiseIrq
    /\ UNCHANGED in_chan_ptr

---------------------------------------------------------------------------
(* bridge_handle_sync: the SYNC interrupt.                                 *)

ForgetHeader == ctrl_rx' = [ctrl_rx EXCEPT !.ok = FALSE]

\* SYNC low: abort the data DMA and publish a header sampled from the requests.
SyncLow ==
    /\ sync_evd /\ ~sync
    /\ sync_evd' = FALSE
    /\ ForgetHeader
    /\ ctrl_tx' = [enabled |-> out_chan_enabled, ready |-> out_chan_ready,
                   size |-> in_chan_size]
    /\ dma' = {}
    /\ inten' = FALSE
    /\ bridge_state' = "CTRL"
    /\ UNCHANGED <<sync, irq, irq_edge, was_open, requestVars, out_chan_ptr, tcmpl,
                   handlerVars>>

\* The channel directions both headers agree to transfer, as the MCU computes them.
\* Mutant: it takes the requests of now, not those of the header it published.
McuOut == {c \in Chan : c \in ctrl_tx.ready /\ ctrl_rx.size[c] # NoPkt}
McuIn_live == {c \in Chan : c \in ctrl_rx.writable /\ in_chan_size[c] # NoPkt}
McuIn == {c \in Chan : c \in ctrl_rx.writable /\ ctrl_tx.size[c] # NoPkt}
McuTransfer == (McuOut \X {"out"}) \cup (McuIn \X {"in"})

RxOpen == {c \in Chan : ctrl_rx.open[c] # 0}

\* The buffers of the agreed directions are taken from their clients' requests.
\* Mutants: one direction's request is not cleared.
TakeBuffers_keeps_out ==
    /\ UNCHANGED out_chan_ready
    /\ in_chan_size' = [c \in Chan |-> IF c \in McuIn THEN NoPkt ELSE in_chan_size[c]]
TakeBuffers_keeps_in ==
    /\ out_chan_ready' = out_chan_ready \ McuOut
    /\ UNCHANGED in_chan_size
TakeBuffers ==
    /\ out_chan_ready' = out_chan_ready \ McuOut
    /\ in_chan_size' = [c \in Chan |-> IF c \in McuIn THEN NoPkt ELSE in_chan_size[c]]

\* A change of the open bits is reported even when there is nothing to transfer.
\* Mutant: only transfers lead to the completion handler.
Notify_never == FALSE
Notify == RxOpen # was_open

\* SYNC high after a header without the magic number: wait for the next one.
SyncHighBadHeader ==
    /\ sync_evd /\ sync
    /\ ~ctrl_rx.ok
    /\ sync_evd' = FALSE
    /\ bridge_state' = "IDLE"
    /\ UNCHANGED <<sync, irq, irq_edge, was_open, ctrl_rx, ctrl_tx, requestVars,
                   out_chan_ptr, dma, tcmpl, inten, handlerVars>>

\* SYNC high after a good header: take the buffers of the agreed directions, set the
\* DMA chain up, and drop IRQ.  A change of the open bits alone uses the header's own
\* completion interrupt, still pending and now unmasked, to reach the handler.
SyncHighGoodHeader ==
    /\ sync_evd /\ sync
    /\ ctrl_rx.ok
    /\ sync_evd' = FALSE
    /\ TakeBuffers
    /\ dma' = McuTransfer
    /\ LET data == McuTransfer # {}
       IN /\ tcmpl' = (tcmpl /\ ~data)
          /\ inten' = (inten \/ data \/ Notify)
          /\ bridge_state' = IF data \/ Notify THEN "DATA" ELSE "IDLE"
    /\ irq' = FALSE
    /\ UNCHANGED <<sync, irq_edge, was_open, ctrl_rx, ctrl_tx, in_chan_ptr,
                   out_chan_enabled, out_chan_ptr, handlerVars>>

---------------------------------------------------------------------------
(* What the SPI transfers do to the MCU through DMA.                       *)

\* The header chain: it fills ctrl_rx (received reports whether intact) and sets TCMPL.
CtrlDma(received, header) ==
    /\ ctrl_rx' = IF received THEN header ELSE ctrl_rx
    /\ tcmpl' = TRUE
    /\ UNCHANGED <<bridge_state, was_open, ctrl_tx, requestVars, out_chan_ptr, dma,
                   inten, handlerVars>>

\* The data chain: it fills the OUT buffers; done when all its bytes were clocked.
DataDma(done, data) ==
    /\ out_chan_ptr' = [c \in Chan |-> IF <<c, "out">> \in dma THEN data[c]
                                       ELSE out_chan_ptr[c]]
    /\ tcmpl' = (tcmpl \/ done)
    /\ UNCHANGED <<bridge_state, was_open, ctrl_rx, ctrl_tx, requestVars, dma, inten,
                   handlerVars>>

\* The packet an IN descriptor sends: the length was sampled with the header, the
\* bytes are those of the buffer handed over last.
InData(c) == IF ctrl_tx.size[c] = in_chan_ptr[c] THEN in_chan_ptr[c] ELSE Garbage

---------------------------------------------------------------------------
(* bridge_dma_rx_completion, called by DMAC_Handler.                       *)

\* The callbacks due for the two headers.
\* Mutant: OUT completions do not depend on the SoC having sent anything.
Callbacks_all_ready ==
    ({OpenCb} \X (RxOpen \ was_open)) \cup ({OutCb} \X ctrl_tx.ready)
        \cup ({InCb} \X McuIn) \cup ({CloseCb} \X (was_open \ RxOpen))
Callbacks ==
    ({OpenCb} \X (RxOpen \ was_open)) \cup ({OutCb} \X McuOut)
        \cup ({InCb} \X McuIn) \cup ({CloseCb} \X (was_open \ RxOpen))

CompletionEnter ==
    /\ handler = "idle"
    /\ tcmpl /\ inten
    /\ bridge_state = "DATA"
    /\ handler' = "callbacks"
    /\ rx_status' = ctrl_rx.open
    /\ todo' = Callbacks
    /\ UNCHANGED <<wireVars, bridge_state, was_open, ctrl_rx, ctrl_tx, requestVars,
                   out_chan_ptr, dma, tcmpl, inten, cur>>

\* In any other state the interrupt is acknowledged and nothing else happens.
CompletionIgnore ==
    /\ handler = "idle"
    /\ tcmpl /\ inten
    /\ bridge_state # "DATA"
    /\ tcmpl' = FALSE
    /\ UNCHANGED <<wireVars, bridge_state, was_open, ctrl_rx, ctrl_tx, requestVars,
                   out_chan_ptr, dma, inten, handlerVars>>

\* k, c is the next callback; NextCallback makes it the running one.
IsNext(k, c) ==
    /\ handler = "callbacks"
    /\ <<k, c>> \in todo
    /\ \A t \in todo : k < t[1] \/ (k = t[1] /\ c <= t[2])

NextCallback(k, c) ==
    /\ IsNext(k, c)
    /\ todo' = todo \ {<<k, c>>}
    /\ cur' = c
    /\ UNCHANGED <<handler, rx_status, bridge_state, was_open, ctrl_rx, ctrl_tx,
                   out_chan_ptr, dma, tcmpl, inten>>

CallbacksDone ==
    /\ handler = "callbacks"
    /\ todo = {}
    /\ handler' = "was_open"
    /\ cur' = NoChan
    /\ rx_status' = [c \in Chan |-> 0]
    /\ UNCHANGED <<wireVars, bridge_state, was_open, ctrl_rx, ctrl_tx, requestVars,
                   out_chan_ptr, dma, tcmpl, inten, todo>>

\* was_open is assigned from the global header, not from the handler's copy of it.
\* Mutant: closed channels stay in it.
NewWasOpen_keeps_closed == was_open \cup RxOpen
NewWasOpen == RxOpen

SetWasOpen ==
    /\ handler = "was_open"
    /\ was_open' = NewWasOpen
    /\ handler' = "state"
    /\ UNCHANGED <<wireVars, bridge_state, ctrl_rx, ctrl_tx, requestVars,
                   out_chan_ptr, dma, tcmpl, inten, rx_status, todo, cur>>

\* bridge_state is assigned, and DMAC_Handler acknowledges the interrupt.
CompletionReturn ==
    /\ handler = "state"
    /\ bridge_state' = "IDLE"
    /\ tcmpl' = FALSE
    /\ handler' = "idle"
    /\ UNCHANGED <<wireVars, was_open, ctrl_rx, ctrl_tx, requestVars,
                   out_chan_ptr, dma, inten, rx_status, todo, cur>>

\* EVSYS_Handler.
SyncInterrupt ==
    \/ SyncLow
    \/ SyncHighBadHeader
    \/ SyncHighGoodHeader

\* DMAC_Handler, for DMA_BRIDGE_RX.
CompletionInterrupt ==
    \/ CompletionEnter
    \/ CompletionIgnore
    \/ CallbacksDone
    \/ SetWasOpen
    \/ CompletionReturn
===========================================================================
