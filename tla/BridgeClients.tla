--------------------------- MODULE BridgeClients ---------------------------
(***************************************************************************)
(* The MCU functions that use the bridge, seen from the bridge: the ports  *)
(* (firmware/port.c) on channels 1 and 2, the USB pipe                     *)
(* (firmware/usbpipe.c) on channel 0.  Of their state only what they hand  *)
(* to the bridge is kept; what makes them send or receive next (commands,  *)
(* pin interrupts, USB packets) is left open.                              *)
(*                                                                         *)
(* They run in interrupts of the completion handler's priority: inside the *)
(* callback of their own channel, or while that handler is not running.    *)
(***************************************************************************)
EXTENDS Bridge

VARIABLES
    active,        \* ports not in PORT_DISABLE; the pipe if its endpoints are enabled
    pending_in,    \* channels whose IN buffer the client gave away
    pending_out,   \* channels whose OUT buffer the client gave away
    serving,       \* connection whose opening the client was told of last
    in_seq,        \* packets sent so far to that connection
    mcu_got,       \* last intact packet received
    starting,      \* usbpipe_init is between its two calls to the bridge
    halted         \* an invalid() was executed

clientVars == <<active, pending_in, pending_out, serving, in_seq, mcu_got, starting,
                halted>>

ClientsTypeOK ==
    /\ active \in SUBSET Chan
    /\ pending_in \in SUBSET Chan
    /\ pending_out \in SUBSET Chan
    /\ serving \in [Chan -> 0..MaxConn]
    /\ in_seq \in [Chan -> 0..MaxIn]
    /\ mcu_got \in [Chan -> Packet]
    /\ starting \in BOOLEAN
    /\ halted \in BOOLEAN

ClientsInit ==
    /\ active = {}
    /\ pending_in = {}
    /\ pending_out = {}
    /\ serving = [c \in Chan |-> 0]
    /\ in_seq = [c \in Chan |-> 0]
    /\ mcu_got = [c \in Chan |-> NoPkt]
    /\ starting = FALSE
    /\ halted = FALSE

restOfBridge == <<sync, sync_evd, bridge_state, was_open, ctrl_rx, ctrl_tx,
                  out_chan_ptr, dma, tcmpl, inten, handlerVars>>

\* An interrupt of the handler's priority can run; client code of c can.
MayInterrupt == ~starting /\ handler = "idle"
MayRun(c) == MayInterrupt \/ cur = c

---------------------------------------------------------------------------
(* Callbacks.                                                              *)

\* bridge_open_1, bridge_open_2: port_enable.
PortOpen(c) ==
    /\ c \in PortChan
    /\ NextCallback(OpenCb, c)
    /\ bridge_start_out(c)
    /\ active' = active \cup {c}
    /\ pending_in' = pending_in \ {c}
    /\ pending_out' = pending_out \cup {c}
    /\ serving' = [serving EXCEPT ![c] = rx_status[c]]
    /\ in_seq' = [in_seq EXCEPT ![c] = 0]
    /\ UNCHANGED <<sync, sync_evd, mcu_got, starting, halted>>

\* bridge_close_1, bridge_close_2: port_disable, which enables the channel again.
\* Mutant: it does not.
PortClose_leaves_disabled(c) ==
    /\ c \in PortChan
    /\ NextCallback(CloseCb, c)
    /\ active' = active \ {c}
    /\ UNCHANGED <<wireVars, requestVars, pending_in, pending_out, serving, in_seq,
                   mcu_got, starting, halted>>
PortClose(c) ==
    /\ c \in PortChan
    /\ NextCallback(CloseCb, c)
    /\ bridge_enable_chan(c)
    /\ active' = active \ {c}
    /\ UNCHANGED <<sync, sync_evd, pending_in, pending_out, serving, in_seq, mcu_got,
                   starting, halted>>

\* bridge_open_0 and bridge_close_0 do nothing.
PipeOpenClose(k) ==
    /\ k \in {OpenCb, CloseCb}
    /\ NextCallback(k, UsbChan)
    /\ UNCHANGED <<wireVars, requestVars, clientVars>>

\* port_bridge_out_completion.  A disabled port answers with port_error.
PortOut(c) ==
    /\ c \in PortChan
    /\ NextCallback(OutCb, c)
    /\ pending_out' = pending_out \ {c}
    /\ mcu_got' = [mcu_got EXCEPT ![c] = LastIntact(@, out_chan_ptr[c])]
    /\ IF c \in active THEN UNCHANGED <<irq, irq_edge, requestVars>>
                       ELSE bridge_disable_chan(c)
    /\ UNCHANGED <<sync, sync_evd, active, pending_in, serving, in_seq,
                   starting, halted>>

\* port_bridge_in_completion.
PortIn(c) ==
    /\ c \in PortChan
    /\ NextCallback(InCb, c)
    /\ pending_in' = pending_in \ {c}
    /\ IF c \in active THEN UNCHANGED <<irq, irq_edge, requestVars>>
                       ELSE bridge_disable_chan(c)
    /\ UNCHANGED <<sync, sync_evd, active, pending_out, serving, in_seq, mcu_got,
                   starting, halted>>

\* pipe_bridge_out_completion: invalid() unless the pipe waits for the bridge.
PipeOut ==
    /\ NextCallback(OutCb, UsbChan)
    /\ IF UsbChan \in active \cap pending_out
       THEN /\ pending_out' = pending_out \ {UsbChan}
            /\ mcu_got' = [mcu_got EXCEPT ![UsbChan] = LastIntact(@, out_chan_ptr[UsbChan])]
            /\ UNCHANGED halted
       ELSE halted' = TRUE /\ UNCHANGED <<pending_out, mcu_got>>
    /\ UNCHANGED <<wireVars, requestVars, active, pending_in, serving, in_seq, starting>>

\* pipe_bridge_in_completion.
PipeIn ==
    /\ NextCallback(InCb, UsbChan)
    /\ pending_in' = pending_in \ {UsbChan}
    /\ UNCHANGED <<wireVars, requestVars, active, pending_out, serving, in_seq, mcu_got,
                   starting, halted>>

---------------------------------------------------------------------------
(* Requests.                                                               *)

\* port_step asks for the next batch of commands; pipe_usb_in_completion, a USB interrupt,
\* for the next data for the PC.
StartOut(c) ==
    /\ IF c = UsbChan THEN MayInterrupt ELSE MayRun(c)
    /\ c \in active \ pending_out
    /\ bridge_start_out(c)
    /\ pending_out' = pending_out \cup {c}
    /\ UNCHANGED <<restOfBridge, active, pending_in, serving, in_seq, mcu_got,
                   starting, halted>>

\* port_step flushes the reply buffer; out_ring_step sends a packet of the ring.
StartIn(c) ==
    /\ MayRun(c)
    /\ c \in active \ pending_in
    /\ in_seq[c] < MaxIn
    /\ bridge_start_in(c, [conn |-> serving[c], seq |-> in_seq[c] + 1])
    /\ pending_in' = pending_in \cup {c}
    /\ in_seq' = [in_seq EXCEPT ![c] = @ + 1]
    /\ UNCHANGED <<restOfBridge, active, pending_out, serving, mcu_got, starting, halted>>

\* port_error: the port goes on as before, its channel is disabled.
PortError(c) ==
    /\ "port_error" \in Faults
    /\ MayRun(c)
    /\ c \in PortChan \cap active \cap out_chan_enabled
    /\ bridge_disable_chan(c)
    /\ UNCHANGED <<restOfBridge, clientVars>>

\* usbpipe_init: the PC selects the pipe's alternate setting.  A SYNC interrupt can
\* fall between bridge_start_out and bridge_enable_chan.
PipeInit ==
    /\ UsbChan \in Chan \ active
    /\ MayInterrupt
    /\ serving[UsbChan] < MaxConn
    /\ bridge_start_out(UsbChan)
    /\ active' = active \cup {UsbChan}
    /\ pending_out' = pending_out \cup {UsbChan}
    /\ pending_in' = pending_in \ {UsbChan}
    /\ serving' = [serving EXCEPT ![UsbChan] = @ + 1]
    /\ in_seq' = [in_seq EXCEPT ![UsbChan] = 0]
    /\ starting' = TRUE
    /\ UNCHANGED <<restOfBridge, mcu_got, halted>>

PipeInitEnable ==
    /\ starting
    /\ bridge_enable_chan(UsbChan)
    /\ starting' = FALSE
    /\ UNCHANGED <<restOfBridge, active, pending_in, pending_out, serving, in_seq,
                   mcu_got, halted>>

\* usbpipe_disable: another alternate setting is selected.
PipeDisable ==
    /\ "pipe_disable" \in Faults
    /\ MayInterrupt
    /\ UsbChan \in active
    /\ bridge_disable_chan(UsbChan)
    /\ active' = active \ {UsbChan}
    /\ UNCHANGED <<restOfBridge, pending_in, pending_out, serving, in_seq, mcu_got,
                   starting, halted>>

ClientCallback(c) ==
    \/ PortOpen(c)
    \/ PortOut(c)
    \/ PortIn(c)
    \/ PortClose(c)
===========================================================================
