---------------------------- MODULE BridgeWire ----------------------------
(***************************************************************************)
(* What the two ends of the SPI bridge share: the channels, the packets    *)
(* that travel on them, and the SYNC and IRQ lines.  Bridge.tla is the MCU *)
(* end (firmware/bridge.c), Spid.tla the SoC end (soc/spid.c).             *)
(*                                                                         *)
(* A packet stands for the bytes of one bridge transfer and for their      *)
(* number: seq counts the packets of one connection, conn is the           *)
(* connection they belong to.  NoPkt is the length 0 of a header, Garbage  *)
(* is what a side reads when the two sides disagree on the transfer.       *)
(***************************************************************************)
EXTENDS Naturals, FiniteSets

CONSTANTS
    Chan,      \* the bridge channels, a subset of 0 .. BRIDGE_NUM_CHAN - 1
    MaxConn,   \* bound: connections made on one channel
    MaxOut,    \* bound: packets of one connection from the SoC to the MCU
    MaxIn,     \* bound: packets of one connection from the MCU to the SoC
    Faults     \* what may go wrong, a subset of AllFaults

ASSUME ChanAssumption == Chan \subseteq 0..2
ASSUME BoundAssumption == {MaxConn, MaxOut, MaxIn} \subseteq Nat \ {0}

\* soc_header, mcu_header  the header arrives corrupted at the SoC, at the MCU
\* port_error              a port runs into port_error
\* pipe_disable            the PC leaves the pipe's USB alternate setting
\* slow_mcu                SYNC falls before the MCU's completion handler is done
\* usbd_exit               the USB daemon exits, which closes its end of the pipe
AllFaults ==
    {"soc_header", "mcu_header", "port_error", "pipe_disable", "slow_mcu", "usbd_exit"}
ASSUME FaultsAssumption == Faults \subseteq AllFaults

\* Channel 0 is BRIDGE_USB on the MCU and USBD_CHANNEL on the SoC; 1 and 2 are the ports.
UsbChan == 0
PortChan == Chan \ {UsbChan}

Packet == [conn : 0..MaxConn, seq : 0..MaxOut \cup 0..MaxIn]
NoPkt == [conn |-> 0, seq |-> 0]
Garbage == [conn |-> 0, seq |-> 1]

\* What a receiver knows to have received last: garbage does not count.
LastIntact(old, new) == IF new = Garbage THEN old ELSE new

\* A data transfer is a set of channel directions.  Both sides lay it out in channel
\* order, OUT before IN, so equal sets mean equal byte layouts.
Transfer == SUBSET (Chan \X {"out", "in"})

VARIABLES
    sync,      \* level of PIN_BRIDGE_SYNC, driven by the SoC
    sync_evd,  \* EVSYS flag: a SYNC edge whose interrupt has not run yet
    irq,       \* level of PIN_BRIDGE_IRQ, driven by the MCU
    irq_edge   \* a rising IRQ edge the SoC has not read from its GPIO yet

wireVars == <<sync, sync_evd, irq, irq_edge>>

WireTypeOK ==
    /\ sync \in BOOLEAN
    /\ sync_evd \in BOOLEAN
    /\ irq \in BOOLEAN
    /\ irq_edge \in BOOLEAN

\* The daemon has driven SYNC high; port_init's bridge_enable_chan raised IRQ long
\* before.  The first poll of a GPIO's value reports an event.
WireInit ==
    /\ sync = TRUE
    /\ sync_evd = FALSE
    /\ irq = TRUE
    /\ irq_edge = TRUE

\* pin_high(PIN_BRIDGE_IRQ); the SoC's GPIO latches rising edges only.
RaiseIrq ==
    /\ irq' = TRUE
    /\ irq_edge' = (irq_edge \/ ~irq)

\* The SoC drives SYNC to a level; the MCU's event system sees both edges.
DriveSync(level) ==
    /\ sync' = level
    /\ sync_evd' = TRUE
===========================================================================
