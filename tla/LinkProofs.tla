---------------------------- MODULE LinkProofs ----------------------------
(***************************************************************************)
(* Proofs about the bridge between the MCU and the SPI daemon: types, the  *)
(* daemon's view of the ports, and the plans of the two ends.              *)
(*                                                                         *)
(* What a theorem assumes of Faults is named: nothing (TypeCorrect), that  *)
(* the daemon leaves the MCU the time to prepare (PatientDaemon), that     *)
(* besides no connection is broken off by the MCU while it is in use       *)
(* (SteadyClients).  Everywhere in this module headers may be garbled.     *)
(*                                                                         *)
(* The invariants, each inductive with those before it:                    *)
(*   TypeInv      types;                                                   *)
(*   Phase        which process acts in which phase of a transaction;      *)
(*   OpenInv      the channels the daemon takes for open, and the ports;   *)
(*   PeerInv      what each end knows of the other from the last header;   *)
(*   PlanInv      the transfers each end has planned;                      *)
(*   PipeOutInv   the pipe has room for what the bridge gives it.          *)
(***************************************************************************)
EXTENDS BridgeLink, TLAPS

LEMMA ConstantFacts ==
    /\ MaxConn \in Nat \ {0} /\ MaxOut \in Nat \ {0} /\ MaxIn \in Nat \ {0} /\ MaxRetries \in Nat
    /\ Chan \subseteq 0..2 /\ NoChan \notin Chan
    /\ NoPkt \in Packet /\ Garbage \in Packet /\ NoPkt # Garbage
BY BoundAssumption, ChanAssumption, RetryAssumption DEF NoChan, NoPkt, Garbage, Packet

\* What the types rest on: what a peer has written is not more than its connection may
\* carry, and usbpipe_init runs for the pipe, on its own.
AvailOK == \A c \in avail : out_seq[c] < MaxOut
StartingOK == starting => UsbChan \in active /\ UsbChan \in Chan /\ handler = "idle"

TypeInv == TypeOK /\ AvailOK /\ StartingOK

LEMMA TypeInit == Init => TypeInv
<1> SUFFICES ASSUME Init PROVE TypeInv
  OBVIOUS
<1> USE ConstantFacts DEF Init, TypeInv
<1>1. WireTypeOK
  BY DEF WireInit, WireTypeOK
<1>a. 0 \in 0..MaxConn /\ 0 \in 0..MaxIn
  OBVIOUS
<1>2. BridgeTypeOK
  BY <1>a DEF BridgeInit, BridgeTypeOK, SocHeader, McuHeader, Transfer, PortChan
<1>3. ClientsTypeOK
  BY <1>a DEF ClientsInit, ClientsTypeOK
<1>4. SpidTypeOK /\ AvailOK
  BY DEF SpidInit, SpidTypeOK, NoHeader, AvailOK
<1>5. StartingOK
  BY DEF ClientsInit, StartingOK
<1> QED BY <1>1, <1>2, <1>3, <1>4, <1>5 DEF TypeOK

\* An event of poll.
LEMMA TypePoll ==
    ASSUME TypeInv, SpidPoll, UNCHANGED <<mcuVars, clientVars>>
    PROVE  TypeInv'
<1> USE ConstantFacts DEF TypeInv
<1> USE DEF SpidPoll, DriveSync
<1>1. WireTypeOK'
  BY DEF TypeOK, WireTypeOK
<1>2. BridgeTypeOK' /\ ClientsTypeOK'
  BY DEF TypeOK, BridgeTypeOK, ClientsTypeOK, mcuVars, clientVars, handlerVars, requestVars
<1>3. \A c \in Readable : out_seq[c] + 1 \in 0..MaxOut
  BY DEF TypeOK, SpidTypeOK, Readable, AvailOK
<1>4. out_buf' \in [Chan -> Packet]
  BY <1>3 DEF TypeOK, SpidTypeOK, Serve, OutAfterPoll, Packet
<1>5. out_seq' \in [Chan -> 0..MaxOut]
  BY <1>3 DEF TypeOK, SpidTypeOK, Serve
<1>6. channels_opened' \in [Chan -> 0..MaxConn] /\ peer' \in [Chan -> {"none", "connecting", "connected", "closed"}]
  BY DEF TypeOK, SpidTypeOK, Serve
<1>7. /\ channels_writable' \in SUBSET Chan /\ listening' \in SUBSET Chan
      /\ poll_in' \in SUBSET Chan /\ poll_out' \in SUBSET Chan
      /\ avail' \in SUBSET Chan /\ room' \in SUBSET Chan
  BY DEF TypeOK, SpidTypeOK, Serve, Accepted, HungUp, Readable, Writable, Open, PortChan
<1>8. SpidTypeOK'
  BY <1>4, <1>5, <1>6, <1>7 DEF TypeOK, SpidTypeOK, Serve
<1>9. AvailOK'
  BY DEF TypeOK, SpidTypeOK, Serve, AvailOK
<1>s. StartingOK'
  BY DEF StartingOK, clientVars, mcuVars, handlerVars, CtrlDma, DataDma
<1> QED BY <1>s, <1>1, <1>2, <1>8, <1>9 DEF TypeOK

\* Exchanging headers.
LEMMA TypeHeader == TypeInv /\ Header => TypeInv'
<1> SUFFICES ASSUME TypeInv, Header PROVE TypeInv'
  OBVIOUS
<1> USE ConstantFacts DEF Header, SpidHeader, HeaderExchange, DriveSync, TypeInv
<1>1. WireTypeOK' /\ ClientsTypeOK'
  BY DEF TypeOK, WireTypeOK, ClientsTypeOK, clientVars
<1>2. TxHeader \in SocHeader
  BY DEF TxHeader, SocHeader, TypeOK, SpidTypeOK
<1>3. BridgeTypeOK'
  BY <1>2 DEF TypeOK, BridgeTypeOK, CtrlDma, requestVars, handlerVars
<1>4. \A c \in (ctrl_tx.enabled \ channels_enabled) \cap {UsbChan} : conns[c] + 1 \in 0..MaxConn
  BY DEF TypeOK, SpidTypeOK, BridgeTypeOK, McuHeader
<1>5. ctrl_tx.enabled \in SUBSET Chan
  BY DEF TypeOK, BridgeTypeOK, McuHeader
<1>6. /\ conns' \in [Chan -> 0..MaxConn] /\ channels_opened' \in [Chan -> 0..MaxConn]
      /\ peer' \in [Chan -> {"none", "connecting", "connected", "closed"}]
      /\ out_buf' \in [Chan -> Packet] /\ out_seq' \in [Chan -> 0..MaxOut]
  BY <1>4, <1>5 DEF TypeOK, SpidTypeOK, manage_channel_active_status
<1>7. /\ channels_writable' \in SUBSET Chan /\ listening' \in SUBSET Chan
      /\ poll_in' \in SUBSET Chan /\ poll_out' \in SUBSET Chan
      /\ avail' \in SUBSET Chan /\ room' \in SUBSET Chan /\ channels_enabled' \in SUBSET Chan
  BY <1>5 DEF TypeOK, SpidTypeOK, manage_channel_active_status
<1>8. rx_buf' \in [enabled : SUBSET Chan, ready : SUBSET Chan, size : [Chan -> Packet]]
  BY DEF TypeOK, BridgeTypeOK, McuHeader
<1>9. SpidTypeOK'
  BY <1>6, <1>7, <1>8 DEF TypeOK, SpidTypeOK
<1>10. AvailOK'
  BY DEF TypeOK, SpidTypeOK, manage_channel_active_status, AvailOK
<1>s. StartingOK'
  BY DEF StartingOK, clientVars, mcuVars, handlerVars, CtrlDma, DataDma
<1> QED BY <1>s, <1>1, <1>3, <1>9, <1>10 DEF TypeOK

LEMMA TypeBadHeader == TypeInv /\ BadHeader => TypeInv'
<1> SUFFICES ASSUME TypeInv, BadHeader PROVE TypeInv'
  OBVIOUS
<1> USE ConstantFacts DEF BadHeader, SpidBadHeader, HeaderExchange, DriveSync, TypeInv
<1>1. WireTypeOK' /\ ClientsTypeOK'
  BY DEF TypeOK, WireTypeOK, ClientsTypeOK, clientVars
<1>2. TxHeader \in SocHeader
  BY DEF TxHeader, SocHeader, TypeOK, SpidTypeOK
<1>3. BridgeTypeOK'
  BY <1>2 DEF TypeOK, BridgeTypeOK, CtrlDma, requestVars, handlerVars
<1>4. SpidTypeOK' /\ AvailOK'
  BY DEF TypeOK, SpidTypeOK, spidState, peerVars, TooManyRetries, AvailOK
<1>s. StartingOK'
  BY DEF StartingOK, clientVars, mcuVars, handlerVars, CtrlDma, DataDma
<1> QED BY <1>s, <1>1, <1>3, <1>4 DEF TypeOK

LEMMA TypeData == TypeInv /\ Data => TypeInv'
<1> SUFFICES ASSUME TypeInv, Data PROVE TypeInv'
  OBVIOUS
<1> USE ConstantFacts DEF Data, SpidData, wireVars, TypeInv
<1>1. WireTypeOK' /\ ClientsTypeOK'
  BY DEF TypeOK, WireTypeOK, ClientsTypeOK, clientVars
<1>2. \A c \in Chan : InData(c) \in Packet
  BY DEF InData, TypeOK, BridgeTypeOK, McuHeader
<1>3. out_chan_ptr' \in [Chan -> Packet]
  BY DEF TypeOK, BridgeTypeOK, DataDma, SpidTypeOK
<1>4. tcmpl' \in BOOLEAN
  BY DEF TypeOK, BridgeTypeOK, DataDma
<1>5. BridgeTypeOK'
  BY <1>3, <1>4 DEF TypeOK, BridgeTypeOK, DataDma, requestVars, handlerVars
<1>6. soc_got' \in [Chan -> Packet]
  BY <1>2 DEF TypeOK, SpidTypeOK, LastIntact
<1>7. SocOut \subseteq Chan /\ SocIn \subseteq Chan
  BY DEF SocOut, SocIn
<1>8. out_buf' \in [Chan -> Packet]
  BY DEF TypeOK, SpidTypeOK, Unsent
<1>9. SpidTypeOK' /\ AvailOK'
  BY <1>6, <1>7, <1>8 DEF TypeOK, SpidTypeOK, NoHeader, AvailOK
<1>s. StartingOK'
  BY DEF StartingOK, clientVars, mcuVars, handlerVars, CtrlDma, DataDma
<1> QED BY <1>s, <1>1, <1>5, <1>9 DEF TypeOK

\* A step of the MCU leaves the daemon's types alone.
LEMMA TypeOfMcuStep ==
    ASSUME TypeInv, UNCHANGED socVars, WireTypeOK', BridgeTypeOK', ClientsTypeOK', StartingOK'
    PROVE  TypeInv'
BY DEF TypeInv, TypeOK, SpidTypeOK, AvailOK, socVars, spidState, peerVars

LEMMA TypeInterrupt == TypeInv /\ Interrupt => TypeInv'
<1> SUFFICES ASSUME TypeInv, Interrupt PROVE TypeInv'
  OBVIOUS
<1> USE ConstantFacts DEF Interrupt, TypeInv
<1>1. ClientsTypeOK'
  BY DEF TypeOK, ClientsTypeOK, clientVars
<1>2. ASSUME SyncInterrupt PROVE WireTypeOK' /\ BridgeTypeOK'
  <2>1. CASE SyncLow
    BY <2>1 DEF SyncLow, TypeOK, WireTypeOK, BridgeTypeOK, ForgetHeader, SocHeader, McuHeader, requestVars,
       handlerVars, Transfer
  <2>2. CASE SyncHighBadHeader
    BY <2>2 DEF SyncHighBadHeader, TypeOK, WireTypeOK, BridgeTypeOK, requestVars, handlerVars
  <2>3. CASE SyncHighGoodHeader
    <3>1. McuTransfer \in Transfer /\ McuOut \subseteq Chan
      BY DEF McuTransfer, McuOut, McuIn, Transfer
    <3>2. in_chan_size' \in [Chan -> Packet] /\ out_chan_ready' \in SUBSET Chan
      BY <2>3, <3>1 DEF SyncHighGoodHeader, TakeBuffers, TypeOK, BridgeTypeOK
    <3> QED BY <2>3, <3>1, <3>2 DEF SyncHighGoodHeader, TypeOK, WireTypeOK, BridgeTypeOK, handlerVars
  <2> QED BY <1>2, <2>1, <2>2, <2>3 DEF SyncInterrupt
<1>3. ASSUME CompletionInterrupt PROVE WireTypeOK' /\ BridgeTypeOK'
  <2>1. CASE CompletionEnter
    <3>1. Callbacks \in SUBSET ((OpenCb..CloseCb) \X Chan)
      <4>1. {OpenCb, OutCb, InCb, CloseCb} \subseteq OpenCb..CloseCb
        BY DEF OpenCb, OutCb, InCb, CloseCb
      <4>2. RxOpen \subseteq Chan /\ McuOut \subseteq Chan /\ McuIn \subseteq Chan /\ was_open \subseteq Chan
             /\ ctrl_tx.ready \subseteq Chan
        BY DEF RxOpen, McuOut, McuIn, TypeOK, BridgeTypeOK, McuHeader
      <4> QED BY <4>1, <4>2 DEF Callbacks
    <3> QED BY <2>1, <3>1 DEF CompletionEnter, TypeOK, WireTypeOK, BridgeTypeOK, wireVars, requestVars, SocHeader
  <2>2. CASE CompletionIgnore
    BY <2>2 DEF CompletionIgnore, TypeOK, WireTypeOK, BridgeTypeOK, wireVars, requestVars, handlerVars
  <2>3. CASE CallbacksDone
    BY <2>3 DEF CallbacksDone, TypeOK, WireTypeOK, BridgeTypeOK, wireVars, requestVars
  <2>4. CASE SetWasOpen
    BY <2>4 DEF SetWasOpen, NewWasOpen, RxOpen, TypeOK, WireTypeOK, BridgeTypeOK, wireVars, requestVars
  <2>5. CASE CompletionReturn
    BY <2>5 DEF CompletionReturn, TypeOK, WireTypeOK, BridgeTypeOK, wireVars, requestVars
  <2> QED BY <1>3, <2>1, <2>2, <2>3, <2>4, <2>5 DEF CompletionInterrupt
<1>4. StartingOK'
  BY DEF StartingOK, clientVars, SyncInterrupt, SyncLow, SyncHighBadHeader, SyncHighGoodHeader, handlerVars
<1> QED BY <1>1, <1>2, <1>3, <1>4, TypeOfMcuStep

\* What the calls of the bridge's clients do to its requests.
LEMMA TypeRequest ==
    ASSUME TypeOK, NEW c \in Chan, NEW p \in Packet,
           \/ bridge_start_in(c, p) \/ bridge_start_out(c)
           \/ bridge_enable_chan(c) \/ bridge_disable_chan(c)
           \/ UNCHANGED <<irq, irq_edge, requestVars>>
    PROVE  /\ in_chan_ptr' \in [Chan -> Packet] /\ in_chan_size' \in [Chan -> Packet]
           /\ out_chan_ready' \in SUBSET Chan /\ out_chan_enabled' \in SUBSET Chan
           /\ irq' \in BOOLEAN /\ irq_edge' \in BOOLEAN
<1> USE ConstantFacts DEF TypeOK, BridgeTypeOK, WireTypeOK, RaiseIrq
<1>1. CASE bridge_start_in(c, p)
  BY <1>1 DEF bridge_start_in
<1>2. CASE bridge_start_out(c)
  BY <1>2 DEF bridge_start_out
<1>3. CASE bridge_enable_chan(c)
  BY <1>3 DEF bridge_enable_chan
<1>4. CASE bridge_disable_chan(c)
  BY <1>4 DEF bridge_disable_chan
<1>5. CASE UNCHANGED <<irq, irq_edge, requestVars>>
  BY <1>5 DEF requestVars
<1> QED BY <1>1, <1>2, <1>3, <1>4, <1>5

LEMMA TypeCallback == TypeInv /\ Callback => TypeInv'
<1> SUFFICES ASSUME TypeInv, Callback PROVE TypeInv'
  OBVIOUS
<1> USE ConstantFacts DEF PortChan, TypeInv
<1>1. ASSUME NEW k, NEW c \in Chan, NextCallback(k, c),
             UNCHANGED <<sync, sync_evd>>,
             \/ bridge_start_out(c) \/ bridge_enable_chan(c) \/ bridge_disable_chan(c)
             \/ UNCHANGED <<irq, irq_edge, requestVars>>
      PROVE  WireTypeOK' /\ BridgeTypeOK'
  <2>1. /\ in_chan_ptr' \in [Chan -> Packet] /\ in_chan_size' \in [Chan -> Packet]
        /\ out_chan_ready' \in SUBSET Chan /\ out_chan_enabled' \in SUBSET Chan
        /\ irq' \in BOOLEAN /\ irq_edge' \in BOOLEAN
    BY <1>1, TypeRequest
  <2> QED BY <1>1, <2>1 DEF NextCallback, TypeOK, WireTypeOK, BridgeTypeOK
<1>2. ASSUME NEW c \in Chan, ClientCallback(c) PROVE WireTypeOK' /\ BridgeTypeOK' /\ ClientsTypeOK'
  <2>1. CASE PortOpen(c)
    BY <2>1, <1>1 DEF PortOpen, NextCallback, TypeOK, ClientsTypeOK, BridgeTypeOK
  <2>2. CASE PortOut(c)
    BY <2>2, <1>1 DEF PortOut, NextCallback, TypeOK, ClientsTypeOK, BridgeTypeOK, LastIntact
  <2>3. CASE PortIn(c)
    BY <2>3, <1>1 DEF PortIn, NextCallback, TypeOK, ClientsTypeOK
  <2>4. CASE PortClose(c)
    BY <2>4, <1>1 DEF PortClose, NextCallback, TypeOK, ClientsTypeOK
  <2> QED BY <1>2, <2>1, <2>2, <2>3, <2>4 DEF ClientCallback
<1>3. ASSUME NEW k, NextCallback(k, UsbChan) PROVE UsbChan \in Chan
  BY <1>3 DEF NextCallback, IsNext, TypeOK, BridgeTypeOK
<1>4. ASSUME \E k \in {OpenCb, CloseCb} : PipeOpenClose(k) PROVE WireTypeOK' /\ BridgeTypeOK' /\ ClientsTypeOK'
  BY <1>4, <1>1, <1>3 DEF PipeOpenClose, wireVars, clientVars, TypeOK, ClientsTypeOK
<1>5. ASSUME PipeOut PROVE WireTypeOK' /\ BridgeTypeOK' /\ ClientsTypeOK'
  BY <1>5, <1>1, <1>3 DEF PipeOut, wireVars, TypeOK, ClientsTypeOK, BridgeTypeOK, LastIntact
<1>6. ASSUME PipeIn PROVE WireTypeOK' /\ BridgeTypeOK' /\ ClientsTypeOK'
  BY <1>6, <1>1, <1>3 DEF PipeIn, wireVars, TypeOK, ClientsTypeOK
<1>7. ~starting
  BY DEF StartingOK, Callback, ClientCallback, PortOpen, PortOut, PortIn, PortClose, PipeOpenClose, PipeOut, PipeIn,
     NextCallback, IsNext
<1>8. ~starting'
  BY <1>7 DEF Callback, ClientCallback, PortOpen, PortOut, PortIn, PortClose, PipeOpenClose, PipeOut, PipeIn,
     clientVars
<1> QED BY <1>2, <1>4, <1>5, <1>6, <1>8, TypeOfMcuStep DEF Callback, StartingOK

LEMMA TypeClient == TypeInv /\ Request => TypeInv'
<1> SUFFICES ASSUME TypeInv, Request PROVE TypeInv'
  OBVIOUS
<1> USE ConstantFacts DEF PortChan, TypeInv
<1>1. ASSUME NEW c \in Chan, NEW p \in Packet, UNCHANGED restOfBridge,
             \/ bridge_start_in(c, p) \/ bridge_start_out(c)
             \/ bridge_enable_chan(c) \/ bridge_disable_chan(c)
      PROVE  WireTypeOK' /\ BridgeTypeOK'
  <2>1. /\ in_chan_ptr' \in [Chan -> Packet] /\ in_chan_size' \in [Chan -> Packet]
        /\ out_chan_ready' \in SUBSET Chan /\ out_chan_enabled' \in SUBSET Chan
        /\ irq' \in BOOLEAN /\ irq_edge' \in BOOLEAN
    BY <1>1, TypeRequest
  <2> QED BY <1>1, <2>1 DEF restOfBridge, handlerVars, TypeOK, WireTypeOK, BridgeTypeOK
<1>2. ASSUME NEW c \in Chan, StartOut(c) PROVE WireTypeOK' /\ BridgeTypeOK' /\ ClientsTypeOK'
  BY <1>1, <1>2 DEF StartOut, TypeOK, ClientsTypeOK
<1>3. ASSUME NEW c \in Chan, StartIn(c) PROVE WireTypeOK' /\ BridgeTypeOK' /\ ClientsTypeOK'
  <2>1. in_seq[c] + 1 \in 0..MaxIn /\ serving[c] \in 0..MaxConn
    BY <1>3 DEF StartIn, TypeOK, ClientsTypeOK
  <2>2. [conn |-> serving[c], seq |-> in_seq[c] + 1] \in Packet
    BY <2>1 DEF Packet
  <2> QED BY <1>1, <1>3, <2>1, <2>2 DEF StartIn, TypeOK, ClientsTypeOK
<1>4. ASSUME NEW c \in Chan, PortError(c) PROVE WireTypeOK' /\ BridgeTypeOK' /\ ClientsTypeOK'
  BY <1>1, <1>4 DEF PortError, TypeOK, ClientsTypeOK, clientVars
<1>5. ASSUME PipeInit PROVE WireTypeOK' /\ BridgeTypeOK' /\ ClientsTypeOK'
  BY <1>1, <1>5 DEF PipeInit, TypeOK, ClientsTypeOK
<1>6. ASSUME PipeInitEnable, UsbChan \in Chan PROVE WireTypeOK' /\ BridgeTypeOK' /\ ClientsTypeOK'
  BY <1>1, <1>6 DEF PipeInitEnable, TypeOK, ClientsTypeOK
<1>7. ASSUME PipeDisable PROVE WireTypeOK' /\ BridgeTypeOK' /\ ClientsTypeOK'
  BY <1>1, <1>7 DEF PipeDisable, TypeOK, ClientsTypeOK
<1>8. StartingOK'
  BY DEF StartingOK, Request, StartOut, StartIn, PortError, PipeInit, PipeInitEnable, PipeDisable, clientVars,
     restOfBridge, handlerVars, MayInterrupt
<1>9. PipeInitEnable => UsbChan \in Chan
  BY DEF StartingOK, PipeInitEnable
<1> QED BY <1>2, <1>3, <1>4, <1>5, <1>6, <1>7, <1>8, <1>9, TypeOfMcuStep DEF Request

LEMMA TypePeer == TypeInv /\ Environment => TypeInv'
<1> SUFFICES ASSUME TypeInv, NEW c \in Chan, Peer(c), UNCHANGED <<wireVars, mcuVars, clientVars>>
             PROVE  TypeInv'
  BY DEF Environment
<1> USE ConstantFacts DEF TypeInv
<1>1. WireTypeOK' /\ BridgeTypeOK' /\ ClientsTypeOK'
  BY DEF TypeOK, WireTypeOK, BridgeTypeOK, ClientsTypeOK, wireVars, mcuVars, clientVars, requestVars, handlerVars
<1>2. SpidTypeOK' /\ AvailOK'
  <2> USE DEF TypeOK, SpidTypeOK, AvailOK, spidState
  <2>1. CASE PeerConnect(c)
    BY <2>1 DEF PeerConnect
  <2>2. CASE PeerWrite(c)
    BY <2>2 DEF PeerWrite
  <2>3. CASE PeerRead(c)
    BY <2>3 DEF PeerRead
  <2>4. CASE PeerClose(c)
    BY <2>4 DEF PeerClose
  <2> QED BY <2>1, <2>2, <2>3, <2>4 DEF Peer
<1>s. StartingOK'
  BY DEF StartingOK, clientVars, mcuVars, handlerVars, CtrlDma, DataDma
<1> QED BY <1>s, <1>1, <1>2 DEF TypeOK

LEMMA TypeStep == TypeInv /\ [Next]_vars => TypeInv'
<1> SUFFICES ASSUME TypeInv, [Next]_vars PROVE TypeInv'
  OBVIOUS
<1>1. CASE PollEvent \/ PollTimeout
  BY <1>1, TypePoll DEF PollEvent, PollTimeout
<1>2. CASE UNCHANGED vars
  <2>1. WireTypeOK' /\ ClientsTypeOK' /\ StartingOK'
    BY <1>2 DEF vars, wireVars, clientVars, mcuVars, handlerVars, TypeInv, TypeOK, WireTypeOK, ClientsTypeOK, StartingOK
  <2>2. BridgeTypeOK'
    BY <1>2 DEF vars, mcuVars, requestVars, handlerVars, TypeInv, TypeOK, BridgeTypeOK
  <2> QED BY <1>2, <2>1, <2>2, TypeOfMcuStep DEF vars
<1> QED BY <1>1, <1>2, TypeHeader, TypeBadHeader, TypeData, TypeInterrupt, TypeCallback, TypeClient,
           TypePeer DEF Next

\* Every step of either side keeps the types, whatever goes wrong on the way.
THEOREM TypeCorrect == Spec => []TypeOK
<1>1. TypeInv => TypeOK
  BY DEF TypeInv
<1> QED BY TypeInit, TypeStep, <1>1, PTL DEF Spec

---------------------------------------------------------------------------
(* Where SYNC, the daemon and the MCU's DMA can be at the same time.       *)

\* A daemon that waits long enough for the MCU (spid.c:372-375, 492-493).
PatientDaemon == "slow_mcu" \notin Faults

\* SYNC is low while the daemon exchanges the header; a fall of SYNC never meets a
\* completion that is due or running; and what the MCU set up is what its headers say.
Phase ==
    /\ sync = (soc_pc # "header")
    /\ handler # "idle" => bridge_state = "DATA" /\ tcmpl /\ inten /\ ~sync_evd /\ sync
    /\ sync = sync_evd => bridge_state = "CTRL" /\ ~inten /\ dma = {}
    /\ ~sync => ~(tcmpl /\ inten)
    /\ ~sync /\ ~sync_evd => ~ctrl_rx.ok
    /\ bridge_state = "DATA" => ctrl_rx.ok
    /\ sync /\ ~sync_evd /\ ctrl_rx.ok => dma = McuTransfer
    /\ bridge_state = "DATA" => dma = McuTransfer

\* A client's code, in a callback or on its own, touches its requests only.
LEMMA ClientKeeps ==
    ASSUME Callback \/ Request
    PROVE  /\ UNCHANGED <<sync, sync_evd, bridge_state, was_open, ctrl_rx, ctrl_tx,
                          out_chan_ptr, dma, tcmpl, inten, handler, rx_status>>
           /\ UNCHANGED socVars
<1>1. ASSUME Callback PROVE UNCHANGED <<sync, sync_evd, bridge_state, was_open, ctrl_rx, ctrl_tx,
                          out_chan_ptr, dma, tcmpl, inten, handler, rx_status, socVars>>
  BY <1>1 DEF Callback, ClientCallback, PortOpen, PortOut, PortIn, PortClose, PipeOpenClose,
     PipeOut, PipeIn, NextCallback, wireVars
<1>2. ASSUME Request PROVE UNCHANGED <<sync, sync_evd, bridge_state, was_open, ctrl_rx, ctrl_tx,
                          out_chan_ptr, dma, tcmpl, inten, handler, rx_status, socVars>>
  BY <1>2 DEF Request, StartOut, StartIn, PortError, PipeInit, PipeInitEnable, PipeDisable,
     restOfBridge, handlerVars
<1> QED BY <1>1, <1>2

LEMMA TransferKept ==
    UNCHANGED <<ctrl_rx, ctrl_tx>> => UNCHANGED <<McuOut, McuIn, McuTransfer, RxOpen>>
BY DEF McuTransfer, McuOut, McuIn, RxOpen

LEMMA PhaseInit == Init => Phase
<1> SUFFICES ASSUME Init PROVE Phase
  OBVIOUS
<1>1. ~ctrl_rx.ok
  BY DEF Init, BridgeInit
<1>2. sync = TRUE /\ sync_evd = FALSE /\ soc_pc = "poll" /\ handler = "idle" /\ bridge_state = "IDLE"
  BY DEF Init, WireInit, BridgeInit, SpidInit
<1> QED BY <1>1, <1>2 DEF Phase

LEMMA PhaseStep ==
    ASSUME PatientDaemon, TypeInv, Phase, [Next]_vars
    PROVE  Phase'
<1> USE DEF Phase
<1>1. CASE PollEvent \/ PollTimeout
  <2>1. ~CompletionPending
    BY <1>1 DEF PollEvent, PollTimeout, PatientDaemon
  <2>2. SpidPoll /\ UNCHANGED mcuVars
    BY <1>1 DEF PollEvent, PollTimeout
  <2> QED BY <2>1, <2>2, TransferKept DEF SpidPoll, DriveSync, mcuVars, handlerVars, CompletionPending
<1>2. CASE Header \/ BadHeader
  <2>1. /\ soc_pc = "header" /\ ~sync_evd /\ sync' /\ sync_evd' /\ soc_pc' # "header"
        /\ UNCHANGED <<bridge_state, inten, dma, handler>>
    BY <1>2 DEF Header, BadHeader, SpidHeader, SpidBadHeader, HeaderExchange, DriveSync, CtrlDma, handlerVars
  <2> QED BY <2>1 DEF TypeInv, TypeOK, WireTypeOK
<1>3. CASE Data
  <2>1. /\ soc_pc = "data" /\ soc_pc' = "poll" /\ tcmpl => tcmpl'
        /\ UNCHANGED <<sync, sync_evd, bridge_state, inten, dma, handler, ctrl_rx, ctrl_tx>>
    BY <1>3 DEF Data, SpidData, DataDma, handlerVars, wireVars
  <2> QED BY <2>1, TransferKept, <1>3 DEF Data, SpidData
<1>4. CASE Interrupt
  <2> SUFFICES ASSUME SyncInterrupt \/ CompletionInterrupt, UNCHANGED socVars PROVE Phase'
    BY <1>4 DEF Interrupt
  <2> USE DEF socVars, TypeInv, TypeOK, WireTypeOK, BridgeTypeOK, SocHeader
  <2>1. CASE SyncLow
    BY <2>1 DEF SyncLow, ForgetHeader, handlerVars
  <2>2. CASE SyncHighBadHeader
    BY <2>2, TransferKept DEF SyncHighBadHeader, handlerVars
  <2>3. CASE SyncHighGoodHeader
    BY <2>3, TransferKept DEF SyncHighGoodHeader, handlerVars
  <2>4. CASE CompletionInterrupt
    <3>1. UNCHANGED <<ctrl_rx, ctrl_tx, sync, sync_evd, dma, inten>>
      BY <2>4 DEF CompletionInterrupt, CompletionEnter, CompletionIgnore, CallbacksDone, SetWasOpen,
         CompletionReturn, wireVars, handlerVars
    <3> QED BY <2>4, <3>1, TransferKept DEF CompletionInterrupt, CompletionEnter, CompletionIgnore,
         CallbacksDone, SetWasOpen, CompletionReturn, handlerVars
  <2> QED BY <2>1, <2>2, <2>3, <2>4 DEF SyncInterrupt
<1>5. CASE Callback \/ Request
  BY <1>5, ClientKeeps, TransferKept DEF socVars
<1>6. CASE Environment
  BY <1>6, TransferKept DEF Environment, Peer, PeerConnect, PeerWrite, PeerRead, PeerClose, wireVars,
     mcuVars, handlerVars
<1>7. CASE UNCHANGED vars
  BY <1>7, TransferKept DEF vars, wireVars, mcuVars, handlerVars, socVars
<1> QED BY <1>1, <1>2, <1>3, <1>4, <1>5, <1>6, <1>7 DEF Next

---------------------------------------------------------------------------
(* Opens and closes.                                                       *)

\* In the callbacks of a completion: port c has been told what the header says of it.
Told(c) == IF c \in RxOpen THEN <<OpenCb, c>> \notin todo ELSE <<CloseCb, c>> \in todo

\* A port is on exactly if the last header the handler went through, or has begun with
\* and gone far enough through, says its channel is open.
OpenInv ==
    /\ handler # "callbacks" => todo = {}
    /\ handler = "callbacks" => rx_status = ctrl_rx.open /\ todo \subseteq Callbacks
    /\ handler = "state" => was_open = RxOpen
    /\ \A c \in PortChan :
           c \in active <=> IF handler = "idle" THEN c \in was_open
                            ELSE IF handler = "callbacks" THEN Told(c) ELSE c \in RxOpen

LEMMA OpenInit == Init => OpenInv
BY DEF Init, WireInit, BridgeInit, ClientsInit, SpidInit, OpenInv, PortChan

LEMMA CallbacksKept ==
    UNCHANGED <<ctrl_rx, ctrl_tx, was_open>> => UNCHANGED Callbacks
BY TransferKept DEF Callbacks

LEMMA OpenStep ==
    ASSUME PatientDaemon, TypeInv, Phase, OpenInv, [Next]_vars
    PROVE  OpenInv'
<1> USE DEF OpenInv
\* While the handler is idle only its own state and the active set matter.
<1>k. ASSUME UNCHANGED <<handler, todo, was_open, active, rx_status>>,
             handler = "idle" \/ UNCHANGED <<ctrl_rx, ctrl_tx>>
      PROVE  OpenInv'
  <2>1. CASE handler = "idle"
    BY <1>k, <2>1
  <2>2. CASE UNCHANGED <<ctrl_rx, ctrl_tx>>
    BY <1>k, <2>2, CallbacksKept, TransferKept DEF Told
  <2> QED BY <1>k, <2>1, <2>2
<1>1. CASE PollEvent \/ PollTimeout \/ Data \/ Environment
  BY <1>1, <1>k DEF PollEvent, PollTimeout, Data, DataDma, Environment, mcuVars, handlerVars, clientVars
<1>2. CASE Header \/ BadHeader
  <2>1. ~sync
    BY <1>2 DEF Phase, Header, BadHeader, SpidHeader, SpidBadHeader, HeaderExchange
  <2>2. handler = "idle"
    BY <2>1 DEF Phase
  <2> QED BY <2>2, <1>k, <1>2 DEF Header, BadHeader, CtrlDma, handlerVars, clientVars
<1>3. CASE Interrupt
  <2>1. UNCHANGED active
    BY <1>3 DEF Interrupt, clientVars
  <2>2. CASE SyncInterrupt
    <3>1. CASE SyncLow
      BY <2>1, <3>1, <1>k DEF SyncLow, handlerVars, Phase
    <3> QED BY <2>1, <2>2, <3>1, <1>k DEF SyncInterrupt, SyncHighBadHeader, SyncHighGoodHeader, handlerVars
  <2>3. CASE CompletionEnter
    <3>1. \A c \in PortChan : c \in active <=> Told(c)'
      <4> TAKE c \in PortChan
      <4>1. c \in active <=> c \in was_open
        BY <2>3 DEF CompletionEnter
      <4>2. <<OpenCb, c>> \in Callbacks <=> c \in RxOpen \ was_open
        BY DEF Callbacks, OpenCb, OutCb, InCb, CloseCb
      <4>3. <<CloseCb, c>> \in Callbacks <=> c \in was_open \ RxOpen
        BY DEF Callbacks, OpenCb, OutCb, InCb, CloseCb
      <4> QED BY <4>1, <4>2, <4>3, <2>3, TransferKept DEF CompletionEnter, Told
    <3> QED BY <3>1, <2>1, <2>3, CallbacksKept DEF CompletionEnter
  <2>4. CASE CompletionIgnore
    BY <2>1, <2>4, <1>k DEF CompletionIgnore, handlerVars
  <2>5. CASE CallbacksDone
    BY <2>1, <2>5, TransferKept DEF CallbacksDone, Told
  <2>6. CASE SetWasOpen
    BY <2>1, <2>6, TransferKept DEF SetWasOpen, NewWasOpen
  <2>7. CASE CompletionReturn
    BY <2>1, <2>7, TransferKept DEF CompletionReturn
  <2> QED BY <1>3, <2>2, <2>3, <2>4, <2>5, <2>6, <2>7 DEF Interrupt, CompletionInterrupt
<1>4. CASE Callback
  <2>1. UNCHANGED <<was_open, ctrl_rx, ctrl_tx, handler, rx_status>>
    BY <1>4, ClientKeeps
  <2>2. handler = "callbacks" /\ todo' \subseteq todo
    BY <1>4 DEF Callback, ClientCallback, PortOpen, PortOut, PortIn, PortClose, PipeOpenClose, PipeOut,
       PipeIn, NextCallback, IsNext
  <2>3. \A c \in PortChan : c \in active' <=> Told(c)'
    <3> TAKE c \in PortChan
    <3>0. c \in active <=> Told(c)
      BY <2>2
    <3>1. ASSUME NEW d \in Chan, PortOpen(d) PROVE c \in active' <=> Told(c)'
      <4>1. d \in RxOpen /\ d \in PortChan
        BY <3>1, <2>2 DEF PortOpen, NextCallback, IsNext, Callbacks, OpenCb, OutCb, InCb, CloseCb
      <4> QED BY <3>0, <3>1, <4>1, <2>1, TransferKept
              DEF PortOpen, NextCallback, Told, OpenCb, OutCb, InCb, CloseCb
    <3>2. ASSUME NEW d \in Chan, PortClose(d) PROVE c \in active' <=> Told(c)'
      <4>1. d \notin RxOpen /\ d \in PortChan
        BY <3>2, <2>2 DEF PortClose, NextCallback, IsNext, Callbacks, OpenCb, OutCb, InCb, CloseCb
      <4> QED BY <3>0, <3>2, <4>1, <2>1, TransferKept
              DEF PortClose, NextCallback, Told, OpenCb, OutCb, InCb, CloseCb
    <3>3. ASSUME NEW d \in Chan, PortOut(d) \/ PortIn(d) PROVE c \in active' <=> Told(c)'
      BY <3>0, <3>3, <2>1, TransferKept
         DEF PortOut, PortIn, NextCallback, Told, OpenCb, OutCb, InCb, CloseCb
    <3>4. ASSUME \/ \E k \in {OpenCb, CloseCb} : PipeOpenClose(k)
                 \/ PipeOut \/ PipeIn
          PROVE c \in active' <=> Told(c)'
      BY <3>0, <3>4, <2>1, TransferKept
         DEF PipeOpenClose, PipeOut, PipeIn, NextCallback, clientVars, Told, PortChan, OpenCb, OutCb, InCb, CloseCb
    <3> QED BY <1>4, <3>1, <3>2, <3>3, <3>4 DEF Callback, ClientCallback
  <2> QED BY <2>1, <2>2, <2>3, CallbacksKept
<1>5. CASE Request
  <2>1. UNCHANGED <<was_open, ctrl_rx, ctrl_tx, handler, rx_status>>
    BY <1>5, ClientKeeps
  <2>2. UNCHANGED todo /\ \A c \in PortChan : c \in active' <=> c \in active
    BY <1>5 DEF Request, StartOut, StartIn, PortError, PipeInit, PipeInitEnable, PipeDisable, clientVars,
       restOfBridge, handlerVars, PortChan
  <2> QED BY <2>1, <2>2, CallbacksKept, TransferKept DEF Told
<1>6. CASE UNCHANGED vars
  BY <1>6, <1>k DEF vars, mcuVars, handlerVars, clientVars
<1> QED BY <1>1, <1>2, <1>3, <1>4, <1>5, <1>6 DEF Next

\* With a patient daemon no open or close is missed or reported twice, whatever else
\* goes wrong: garbled headers, port errors, a pipe that comes and goes
\* (bridge.c:142-217).
THEOREM PortsFollow == PatientDaemon => (Spec => []PortsFollowOpen)
<1> SUFFICES ASSUME PatientDaemon PROVE Spec => []PortsFollowOpen
  OBVIOUS
<1> DEFINE Inv == TypeInv /\ Phase /\ OpenInv
<1>1. Init => Inv
  BY TypeInit, PhaseInit, OpenInit
<1>2. Inv /\ [Next]_vars => Inv'
  BY TypeStep, PhaseStep, OpenStep
<1>3. Inv => PortsFollowOpen
  BY DEF OpenInv, PortsFollowOpen
<1> QED BY <1>1, <1>2, <1>3, PTL DEF Spec

---------------------------------------------------------------------------
(* What the daemon's own state says of a connection.                       *)

\* A channel with a peer has a connection, and only a channel with a connection has
\* data to send or room for it; nor did the last header say anything else.
PeerInv ==
    \A c \in Chan :
        /\ peer[c] \in {"connected", "closed"} <=> channels_opened[c] # 0
        /\ peer[c] = "connecting" => conns[c] > 0
        /\ out_buf[c] # NoPkt \/ c \in channels_writable => channels_opened[c] # 0
        /\ ctrl_rx.size[c] # NoPkt \/ c \in ctrl_rx.writable => ctrl_rx.open[c] # 0

LEMMA PeerInit == Init => PeerInv
BY DEF Init, BridgeInit, SpidInit, PeerInv

\* The half of PeerInv about the daemon, and the half about the header it sent last.
PeerOf(c) ==
    /\ peer[c] \in {"connected", "closed"} <=> channels_opened[c] # 0
    /\ peer[c] = "connecting" => conns[c] > 0
    /\ out_buf[c] # NoPkt \/ c \in channels_writable => channels_opened[c] # 0
HeaderOf(c) == ctrl_rx.size[c] # NoPkt \/ c \in ctrl_rx.writable => ctrl_rx.open[c] # 0

LEMMA PeerStep ==
    ASSUME TypeInv, PeerInv, [Next]_vars
    PROVE  PeerInv'
<1> SUFFICES ASSUME NEW c \in Chan PROVE PeerOf(c)' /\ HeaderOf(c)'
  BY DEF PeerInv, PeerOf, HeaderOf
<1>0. PeerOf(c) /\ HeaderOf(c)
  BY DEF PeerInv, PeerOf, HeaderOf
<1>p. ASSUME UNCHANGED <<peer, channels_opened, conns, out_buf, channels_writable>> PROVE PeerOf(c)'
  BY <1>0, <1>p DEF PeerOf
<1>h. ASSUME UNCHANGED ctrl_rx \/ ForgetHeader \/ ctrl_rx' = TxHeader PROVE HeaderOf(c)'
  <2>1. CASE UNCHANGED ctrl_rx
    BY <1>0, <2>1 DEF HeaderOf
  <2>2. CASE ForgetHeader
    <3>1. ctrl_rx'.size = ctrl_rx.size /\ ctrl_rx'.writable = ctrl_rx.writable /\ ctrl_rx'.open = ctrl_rx.open
      BY <2>2 DEF ForgetHeader, TypeInv, TypeOK, BridgeTypeOK, SocHeader
    <3> QED BY <1>0, <3>1 DEF HeaderOf
  <2>3. CASE ctrl_rx' = TxHeader
    BY <1>0, <2>3 DEF HeaderOf, PeerOf, TxHeader
  <2> QED BY <1>h, <2>1, <2>2, <2>3
<1>1. CASE PollEvent \/ PollTimeout
  <2>1. Serve /\ UNCHANGED ctrl_rx
    BY <1>1 DEF PollEvent, PollTimeout, SpidPoll, mcuVars
  <2>2. conns[c] \in Nat /\ channels_opened \in [Chan -> 0..MaxConn]
    BY ConstantFacts DEF TypeInv, TypeOK, SpidTypeOK
  <2>3. PeerOf(c)'
    BY <1>0, <2>1, <2>2 DEF PeerOf, Serve, Accepted, HungUp, Readable, Writable, Open, OutAfterPoll
  <2> QED BY <2>1, <2>3, <1>h
<1>2. CASE Header
  <2>1. manage_channel_active_status(ctrl_tx)
    BY <1>2 DEF Header, SpidHeader
  <2>2. conns[c] \in Nat
    BY ConstantFacts DEF TypeInv, TypeOK, SpidTypeOK
  <2>3. PeerOf(c)'
    BY <1>0, <2>1, <2>2 DEF PeerOf, manage_channel_active_status
  <2> QED BY <1>2, <2>3, <1>h DEF Header, CtrlDma
<1>3. CASE BadHeader
  BY <1>3, <1>h, <1>p DEF BadHeader, SpidBadHeader, CtrlDma, spidState, peerVars
<1>4. CASE Data
  <2>1. PeerOf(c)'
    BY <1>0, <1>4 DEF PeerOf, Data, SpidData, Unsent
  <2> QED BY <1>4, <2>1, <1>h DEF Data, DataDma
<1>5. CASE Interrupt
  <2>1. PeerOf(c)'
    BY <1>5, <1>p DEF Interrupt, socVars, spidState, peerVars
  <2>2. UNCHANGED ctrl_rx \/ ForgetHeader
    BY <1>5 DEF Interrupt, SyncInterrupt, CompletionInterrupt, SyncLow, SyncHighBadHeader, SyncHighGoodHeader,
       CompletionEnter, CompletionIgnore, CallbacksDone, SetWasOpen, CompletionReturn
  <2> QED BY <2>1, <2>2, <1>h
<1>6. CASE Callback \/ Request
  BY <1>6, <1>p, <1>h, ClientKeeps DEF socVars, spidState, peerVars
<1>7. CASE Environment
  <2>1. UNCHANGED ctrl_rx
    BY <1>7 DEF Environment, mcuVars
  <2>2. PICK d \in Chan : Peer(d)
    BY <1>7 DEF Environment
  <2>3. conns \in [Chan -> Nat] /\ peer \in [Chan -> {"none", "connecting", "connected", "closed"}]
    BY ConstantFacts DEF TypeInv, TypeOK, SpidTypeOK
  <2>4. PeerOf(c)'
    BY <1>0, <2>2, <2>3 DEF PeerOf, Peer, PeerConnect, PeerWrite, PeerRead, PeerClose, spidState
  <2> QED BY <2>1, <2>4, <1>h
<1>8. CASE UNCHANGED vars
  BY <1>8, <1>p, <1>h DEF vars, mcuVars, socVars, spidState, peerVars
<1> QED BY <1>1, <1>2, <1>3, <1>4, <1>5, <1>6, <1>7, <1>8 DEF Next

---------------------------------------------------------------------------
(* The two sides plan the same transfer.                                   *)

\* The MCU's clients never ask for a channel to be closed.
SteadyClients == PatientDaemon /\ Faults \cap {"port_error", "pipe_disable"} = {}

\* What the two sides compute the transfer from is the same on both, from the exchange
\* of good headers to the end of the transfer.
PlanInv ==
    /\ PortChan \subseteq out_chan_enabled
    /\ channels_enabled \subseteq ctrl_tx.enabled /\ ctrl_tx.enabled \subseteq out_chan_enabled
    /\ soc_pc = "data" => rx_buf = ctrl_tx
    /\ soc_pc = "data" /\ ctrl_rx.ok => ctrl_rx.size = out_buf /\ ctrl_rx.writable = channels_writable

LEMMA PlanInit == Init => PlanInv
BY DEF Init, BridgeInit, SpidInit, PlanInv

\* A completion finds its port on: the header announced data only for an open channel,
\* and the opens come before the completions.
LEMMA CompletionOfActive ==
    ASSUME TypeInv, OpenInv, PeerInv, NEW c \in PortChan, NEW k \in {OutCb, InCb}, IsNext(k, c)
    PROVE  c \in active
<1>1. handler = "callbacks" /\ <<k, c>> \in Callbacks
  BY DEF IsNext, OpenInv
<1>2. c \in McuOut \cup McuIn
  BY <1>1 DEF Callbacks, OpenCb, OutCb, InCb, CloseCb
<1>3. c \in RxOpen
  BY <1>2 DEF McuOut, McuIn, RxOpen, PeerInv
<1>4. <<OpenCb, c>> \notin todo
  <2>1. ~(k < OpenCb) /\ k # OpenCb
    BY DEF OpenCb, OutCb, InCb
  <2> QED BY <2>1 DEF IsNext
<1> QED BY <1>1, <1>3, <1>4 DEF OpenInv, Told

\* With steady clients no channel is disabled.
LEMMA EnabledKept ==
    ASSUME SteadyClients, TypeInv, OpenInv, PeerInv, Callback \/ Request
    PROVE  out_chan_enabled \subseteq out_chan_enabled' /\ out_chan_ready \subseteq out_chan_ready'
<1>1. ASSUME Request PROVE out_chan_enabled \subseteq out_chan_enabled' /\ out_chan_ready \subseteq out_chan_ready'
  BY <1>1 DEF Request, StartOut, StartIn, PortError, PipeInit, PipeInitEnable, PipeDisable, SteadyClients,
     bridge_start_in, bridge_start_out, bridge_enable_chan
<1>2. ASSUME NEW c \in Chan, PortOut(c) \/ PortIn(c) PROVE UNCHANGED requestVars
  <2>1. c \in active
    BY <1>2, CompletionOfActive DEF PortOut, PortIn, NextCallback
  <2> QED BY <1>2, <2>1 DEF PortOut, PortIn, requestVars
<1>3. ASSUME Callback PROVE out_chan_enabled \subseteq out_chan_enabled' /\ out_chan_ready \subseteq out_chan_ready'
  BY <1>2, <1>3 DEF Callback, ClientCallback, PortOpen, PortClose, PipeOpenClose, PipeOut, PipeIn, requestVars,
     bridge_start_out, bridge_enable_chan
<1> QED BY <1>1, <1>3

LEMMA PlanStep ==
    ASSUME SteadyClients, TypeInv, Phase, OpenInv, PeerInv, PlanInv, [Next]_vars
    PROVE  PlanInv'
<1> USE DEF PlanInv
<1>k. ASSUME out_chan_enabled \subseteq out_chan_enabled',
             UNCHANGED <<channels_enabled, ctrl_tx>>,
             soc_pc' = "data" => UNCHANGED <<soc_pc, rx_buf, ctrl_rx, out_buf, channels_writable>>
      PROVE  PlanInv'
  BY <1>k
<1>1. CASE PollEvent \/ PollTimeout
  BY <1>1, <1>k DEF PollEvent, PollTimeout, SpidPoll, Serve, mcuVars, requestVars
<1>2. CASE Header
  <2>1. ~ctrl_rx.ok
    BY <1>2 DEF Header, SpidHeader, HeaderExchange, Phase
  <2>2. channels_enabled \ ctrl_tx.enabled = {}
    OBVIOUS
  <2>3. UNCHANGED <<ctrl_tx, out_chan_enabled>> /\ rx_buf' = ctrl_tx /\ channels_enabled' = ctrl_tx.enabled
    BY <1>2 DEF Header, SpidHeader, CtrlDma, requestVars, manage_channel_active_status
  <2>4. UNCHANGED <<out_buf, channels_writable>>
    BY <1>2, <2>2 DEF Header, SpidHeader, manage_channel_active_status, TypeInv, TypeOK, SpidTypeOK
  <2>5. ctrl_rx'.ok => ctrl_rx' = TxHeader
    BY <1>2, <2>1 DEF Header, CtrlDma
  <2>6. ctrl_rx'.ok => ctrl_rx'.size = out_buf /\ ctrl_rx'.writable = channels_writable
    BY <2>5 DEF TxHeader
  <2> QED BY <2>3, <2>4, <2>6
<1>3. CASE BadHeader
  BY <1>3, <1>k DEF BadHeader, SpidBadHeader, CtrlDma, spidState, requestVars
<1>4. CASE Data
  BY <1>4, <1>k DEF Data, SpidData, DataDma, requestVars
<1>5. CASE Interrupt
  <2>1. CASE SyncLow
    <3>1. soc_pc # "data" /\ UNCHANGED <<socVars, out_chan_enabled>> /\ ctrl_tx'.enabled = out_chan_enabled
      BY <1>5, <2>1 DEF Interrupt, SyncLow, requestVars, Phase
    <3> QED BY <3>1 DEF socVars, spidState
  <2>2. CASE ~SyncLow
    BY <1>5, <2>2, <1>k DEF Interrupt, SyncInterrupt, CompletionInterrupt, SyncHighBadHeader, SyncHighGoodHeader,
       CompletionEnter, CompletionIgnore, CallbacksDone, SetWasOpen, CompletionReturn, requestVars, socVars, spidState
  <2> QED BY <2>1, <2>2
<1>6. CASE Callback \/ Request
  BY <1>6, <1>k, ClientKeeps, EnabledKept DEF socVars, spidState
<1>7. CASE Environment
  BY <1>7, <1>k DEF Environment, Peer, PeerConnect, PeerWrite, PeerRead, PeerClose, spidState, mcuVars, requestVars
<1>8. CASE UNCHANGED vars
  BY <1>8, <1>k DEF vars, mcuVars, requestVars, socVars, spidState
<1> QED BY <1>1, <1>2, <1>3, <1>4, <1>5, <1>6, <1>7, <1>8 DEF Next

LEMMA PlansFollow ==
    ASSUME Phase, PlanInv
    PROVE  PlansAgree
<1> SUFFICES ASSUME soc_pc = "data", ~sync_evd, ctrl_rx.ok PROVE SocTransfer = dma
  BY DEF PlansAgree
<1>1. dma = McuTransfer
  BY DEF Phase
<1>2. SocOut = McuOut /\ SocIn = McuIn
  BY DEF PlanInv, SocOut, McuOut, SocIn, McuIn
<1> QED BY <1>1, <1>2 DEF SocTransfer, McuTransfer

\* Headers that arrive garbled, at either side, never lead to a transfer the two sides
\* lay out differently, as long as the MCU's clients keep their channels enabled and the
\* daemon leaves the MCU its time.
THEOREM PlansAlwaysAgree == SteadyClients => (Spec => []PlansAgree)
<1> SUFFICES ASSUME SteadyClients PROVE Spec => []PlansAgree
  OBVIOUS
<1> DEFINE Inv == TypeInv /\ Phase /\ OpenInv /\ PeerInv /\ PlanInv
<1>1. Init => Inv
  BY TypeInit, PhaseInit, OpenInit, PeerInit, PlanInit
<1>2. Inv /\ [Next]_vars => Inv'
  BY TypeStep, PhaseStep, OpenStep, PeerStep, PlanStep DEF SteadyClients
<1>3. Inv => PlansAgree
  BY PlansFollow
<1> QED BY <1>1, <1>2, <1>3, PTL DEF Spec

---------------------------------------------------------------------------
(* The pipe is never surprised.                                            *)

\* A buffer the pipe gave the bridge for data from the SoC is queued, or is being filled,
\* or comes back by a callback, and the pipe knows of it.
OutQueued(c) == c \in out_chan_ready
OutFlying(c) == InFlight(c, "out")
OutDue(c) == <<OutCb, c>> \in todo

PipeOutInv ==
    /\ OutQueued(UsbChan) \/ OutFlying(UsbChan) \/ OutDue(UsbChan) => UsbChan \in active \cap pending_out
    /\ OutQueued(UsbChan) => ~OutFlying(UsbChan) /\ ~OutDue(UsbChan)
    /\ bridge_state = "CTRL" => ctrl_tx.ready \subseteq out_chan_ready
    /\ ~halted

LEMMA PipeOutInit == Init => PipeOutInv
BY DEF Init, BridgeInit, ClientsInit, PipeOutInv, OutQueued, OutFlying, OutDue, InFlight

\* Where an OUT completion of channel c comes from.
LEMMA OutDirection ==
    ASSUME NEW c
    PROVE  /\ <<c, "out">> \in McuTransfer <=> c \in McuOut
           /\ <<OutCb, c>> \in Callbacks <=> c \in McuOut
<1>1. <<c, "out">> \in McuTransfer <=> c \in McuOut
  BY DEF McuTransfer
<1>2. <<OutCb, c>> \in Callbacks <=> c \in McuOut
  BY DEF Callbacks, OpenCb, OutCb, InCb, CloseCb
<1> QED BY <1>1, <1>2

LEMMA PipeOutStep ==
    ASSUME SteadyClients, TypeInv, Phase, OpenInv, PeerInv, PipeOutInv, [Next]_vars
    PROVE  PipeOutInv'
<1> USE DEF PipeOutInv, OutQueued, OutFlying, OutDue
\* Steps that leave the pipe's OUT buffer where it is.
<1>k. ASSUME UNCHANGED <<out_chan_ready, todo, active, pending_out, halted, bridge_state, ctrl_tx, dma, handler>>
      PROVE  PipeOutInv'
  BY <1>k DEF InFlight
<1>1. CASE PollEvent \/ PollTimeout
  BY <1>1, <1>k DEF PollEvent, PollTimeout, mcuVars, requestVars, handlerVars, clientVars
<1>2. CASE Header \/ BadHeader
  BY <1>2, <1>k DEF Header, BadHeader, CtrlDma, requestVars, handlerVars, clientVars
<1>3. CASE Data
  BY <1>3, <1>k DEF Data, DataDma, requestVars, handlerVars, clientVars
<1>4. CASE Interrupt
  <2>1. UNCHANGED <<active, pending_out, halted>>
    BY <1>4 DEF Interrupt, clientVars
  <2>2. CASE SyncLow
    BY <2>1, <2>2 DEF SyncLow, requestVars, handlerVars, InFlight
  <2>3. CASE SyncHighBadHeader
    BY <2>1, <2>3 DEF SyncHighBadHeader, requestVars, handlerVars, InFlight, Phase
  <2>4. CASE SyncHighGoodHeader
    <3>1. bridge_state = "CTRL" /\ handler = "idle"
      BY <2>4 DEF SyncHighGoodHeader, Phase, TypeInv, TypeOK, WireTypeOK
    <3>2. out_chan_ready' = out_chan_ready \ McuOut /\ dma' = McuTransfer /\ bridge_state' # "CTRL" /\ UNCHANGED todo
      BY <2>4 DEF SyncHighGoodHeader, TakeBuffers, handlerVars
    <3>3. McuOut \subseteq out_chan_ready
      BY <3>1 DEF McuOut
    <3>4. <<UsbChan, "out">> \in dma' <=> UsbChan \in McuOut
      BY <3>2, OutDirection
    <3>5. ~OutFlying(UsbChan)
      BY <3>1 DEF InFlight
    <3> QED BY <2>1, <3>1, <3>2, <3>3, <3>4, <3>5 DEF InFlight
  <2>5. CASE CompletionEnter
    <3>1. dma = McuTransfer /\ UNCHANGED <<out_chan_ready, dma, bridge_state, ctrl_tx>> /\ todo' = Callbacks
          /\ handler' # "idle" /\ handler = "idle" /\ bridge_state = "DATA" /\ todo = {}
      BY <2>5 DEF CompletionEnter, Phase, OpenInv, requestVars
    <3>2. <<OutCb, UsbChan>> \in todo' <=> OutFlying(UsbChan)
      BY <3>1, OutDirection DEF InFlight
    <3> QED BY <2>1, <3>1, <3>2 DEF InFlight
  <2>6. CASE CompletionIgnore
    BY <2>1, <2>6 DEF CompletionIgnore, requestVars, handlerVars, InFlight
  <2>7. CASE CallbacksDone
    BY <2>1, <2>7 DEF CallbacksDone, requestVars, InFlight
  <2>8. CASE SetWasOpen
    BY <2>1, <2>8 DEF SetWasOpen, requestVars, InFlight
  <2>9. CASE CompletionReturn
    BY <2>1, <2>9 DEF CompletionReturn, requestVars, InFlight
  <2> QED BY <1>4, <2>2, <2>3, <2>4, <2>5, <2>6, <2>7, <2>8, <2>9
          DEF Interrupt, SyncInterrupt, CompletionInterrupt
<1>5. CASE Callback
  <2>1. /\ UNCHANGED <<bridge_state, ctrl_tx, dma, handler>> /\ out_chan_ready \subseteq out_chan_ready'
        /\ handler = "callbacks" /\ bridge_state = "DATA"
    BY <1>5, ClientKeeps, EnabledKept DEF Callback, ClientCallback, PortOpen, PortOut, PortIn, PortClose, PipeOpenClose,
       PipeOut, PipeIn, NextCallback, IsNext, Phase
  <2>2. ASSUME NEW c \in PortChan, ClientCallback(c)
        PROVE  /\ UNCHANGED halted
               /\ UsbChan \in active' <=> UsbChan \in active
               /\ UsbChan \in pending_out' <=> UsbChan \in pending_out
               /\ UsbChan \in out_chan_ready' <=> UsbChan \in out_chan_ready
               /\ todo' \subseteq todo
    BY <2>2 DEF ClientCallback, PortOpen, PortOut, PortIn, PortClose, NextCallback, PortChan,
       bridge_start_out, bridge_enable_chan, bridge_disable_chan, requestVars
  <2>3. ASSUME NEW c \in Chan, ClientCallback(c) PROVE c \in PortChan
    BY <2>3 DEF ClientCallback, PortOpen, PortOut, PortIn, PortClose
  <2>4. CASE \E c \in Chan : ClientCallback(c)
    BY <2>1, <2>2, <2>3, <2>4 DEF InFlight
  <2>5. CASE \E k \in {OpenCb, CloseCb} : PipeOpenClose(k)
    BY <2>1, <2>5 DEF PipeOpenClose, NextCallback, requestVars, clientVars, InFlight
  <2>6. CASE PipeOut
    BY <2>1, <2>6 DEF PipeOut, NextCallback, IsNext, requestVars, InFlight
  <2>7. CASE PipeIn
    BY <2>1, <2>7 DEF PipeIn, NextCallback, requestVars, InFlight
  <2> QED BY <1>5, <2>4, <2>5, <2>6, <2>7 DEF Callback
<1>6. CASE Request
  <2>1. UNCHANGED <<bridge_state, ctrl_tx, dma, handler>> /\ out_chan_ready \subseteq out_chan_ready' /\ UNCHANGED <<todo, halted>>
    BY <1>6, ClientKeeps, EnabledKept DEF Request, StartOut, StartIn, PortError, PipeInit, PipeInitEnable, PipeDisable,
       restOfBridge, handlerVars, clientVars
  <2>2. ASSUME NEW c \in Chan, StartOut(c) PROVE PipeOutInv'
    BY <2>1, <2>2 DEF StartOut, bridge_start_out, InFlight
  <2>3. ASSUME NEW c \in Chan, StartIn(c) PROVE PipeOutInv'
    BY <2>1, <2>3 DEF StartIn, bridge_start_in, InFlight
  <2>4. ASSUME PipeInit PROVE PipeOutInv'
    BY <2>1, <2>4 DEF PipeInit, bridge_start_out, InFlight
  <2>5. ASSUME PipeInitEnable PROVE PipeOutInv'
    BY <2>1, <2>5 DEF PipeInitEnable, bridge_enable_chan, InFlight
  <2> QED BY <1>6, <2>2, <2>3, <2>4, <2>5 DEF Request, PortError, PipeDisable, SteadyClients
<1>7. CASE Environment
  BY <1>7, <1>k DEF Environment, mcuVars, requestVars, handlerVars, clientVars
<1>8. CASE UNCHANGED vars
  BY <1>8, <1>k DEF vars, mcuVars, requestVars, handlerVars, clientVars
<1> QED BY <1>1, <1>2, <1>3, <1>4, <1>5, <1>6, <1>7, <1>8 DEF Next

\* An OUT completion always finds the pipe waiting for it: the invalid() of
\* pipe_bridge_out_completion is never reached, garbled headers or not.
THEOREM PipeNeverInvalid == SteadyClients => (Spec => []NeverInvalid)
<1> SUFFICES ASSUME SteadyClients PROVE Spec => []NeverInvalid
  OBVIOUS
<1> DEFINE Inv == TypeInv /\ Phase /\ OpenInv /\ PeerInv /\ PipeOutInv
<1>1. Init => Inv
  BY TypeInit, PhaseInit, OpenInit, PeerInit, PipeOutInit
<1>2. Inv /\ [Next]_vars => Inv'
  BY TypeStep, PhaseStep, OpenStep, PeerStep, PipeOutStep DEF SteadyClients
<1>3. Inv => NeverInvalid
  BY DEF PipeOutInv, NeverInvalid
<1> QED BY <1>1, <1>2, <1>3, PTL DEF Spec

===========================================================================
