-------------------------- MODULE LinkOrderProofs --------------------------
(***************************************************************************)
(* Proofs about the bridge when nothing goes wrong (Reliable): buffers     *)
(* have one owner, and packets arrive intact, once and in order.           *)
(*                                                                         *)
(* The invariants, each inductive with those before it:                    *)
(*   Base     the invariants of LinkProofs;                                *)
(*   Quiet    no error is under way;                                       *)
(*   Known    what the ends know of each other: Seen, Serves, Unserved,    *)
(*            Sampled;                                                     *)
(*   Places   where a packet to or from a channel can be;                  *)
(*   Owned    each buffer is in one place;                                 *)
(*   OutOrder OUT packets between a connection and its port, in order;     *)
(*   InOrder  IN packets between a port and its first connection, in       *)
(*            order.                                                       *)
(***************************************************************************)
EXTENDS LinkProofs, FiniteSetTheorems

\* Nothing goes wrong: no header is garbled, no port fails, the pipe stays selected and
\* the daemon leaves the MCU its time.
Reliable == Faults \subseteq {"usbd_exit"}

LEMMA ReliableIsSteady == Reliable => SteadyClients
BY DEF Reliable, SteadyClients, PatientDaemon

\* What the faults do not disturb.
Base == TypeInv /\ Phase /\ OpenInv /\ PeerInv /\ PlanInv /\ PipeOutInv

LEMMA BaseInit == Init => Base
BY TypeInit, PhaseInit, OpenInit, PeerInit, PlanInit, PipeOutInit DEF Base

LEMMA BaseStep == Reliable /\ Base /\ [Next]_vars => Base'
BY ReliableIsSteady, TypeStep, PhaseStep, OpenStep, PeerStep, PlanStep, PipeOutStep DEF Base, SteadyClients

\* The step is none of the things that go wrong.
LEMMA ReliableStep ==
    ASSUME Reliable, Base, [Next]_vars
    PROVE  /\ ~BadHeader
           /\ Header => ctrl_rx' = TxHeader
           /\ PollEvent \/ PollTimeout => SpidPoll /\ ~CompletionPending /\ UNCHANGED <<mcuVars, clientVars>>
           /\ \A c \in Chan : ~PortError(c)
           /\ ~PipeDisable
<1> USE DEF Reliable
<1>1. ~BadHeader /\ ~PipeDisable /\ \A c \in Chan : ~PortError(c)
  BY DEF BadHeader, PipeDisable, PortError
<1>2. Header => ctrl_rx' = TxHeader
  BY DEF Header, CtrlDma
<1>3. PollEvent \/ PollTimeout => SpidPoll /\ ~CompletionPending /\ UNCHANGED <<mcuVars, clientVars>>
  BY DEF PollEvent, PollTimeout
<1> QED BY <1>1, <1>2, <1>3

---------------------------------------------------------------------------
(* The turn of the loop and the state of the MCU.                          *)

\* Every header arrives, the MCU has gone through the one before when the next is
\* exchanged, and what it sets up for a transfer waits for that transfer.
Quiet ==
    /\ soc_pc # "fatal" /\ bridge_state # "DISABLE"
    /\ bridge_state = "CTRL" /\ soc_pc = "data" => tcmpl
    /\ soc_pc = "poll" => ~sync_evd
    /\ soc_pc = "data" => ctrl_rx.ok
    /\ bridge_state = "IDLE" \/ soc_pc = "header" => was_open = RxOpen /\ handler = "idle"
    /\ bridge_state = "CTRL" => soc_pc \in {"header", "data"} /\ sync = sync_evd
    /\ bridge_state = "DATA" => soc_pc # "header" /\ ~sync_evd /\ inten /\ (tcmpl \/ (soc_pc = "data" /\ dma # {}))
    /\ soc_pc = "data" /\ ~sync_evd /\ dma # {} => bridge_state = "DATA" /\ handler = "idle" /\ ~tcmpl

LEMMA QuietInit == Init => Quiet
<1> SUFFICES ASSUME Init PROVE Quiet
  OBVIOUS
<1>1. sync_evd = FALSE /\ soc_pc = "poll" /\ handler = "idle" /\ bridge_state = "IDLE"
  BY DEF Init, WireInit, BridgeInit, SpidInit
<1>2. was_open = RxOpen
  BY DEF Init, BridgeInit, RxOpen
<1> QED BY <1>1, <1>2 DEF Quiet

\* The types the case distinctions on SYNC and the daemon's place rest on.
LEMMA FlagsOf ==
    ASSUME TypeInv
    PROVE  /\ sync \in BOOLEAN /\ sync_evd \in BOOLEAN /\ tcmpl \in BOOLEAN /\ inten \in BOOLEAN
           /\ soc_pc \in {"poll", "header", "data", "fatal"}
           /\ bridge_state \in {"DISABLE", "IDLE", "CTRL", "DATA"}
           /\ handler \in {"idle", "callbacks", "was_open", "state"}
BY DEF TypeInv, TypeOK, WireTypeOK, BridgeTypeOK, SpidTypeOK

\* When poll returns the MCU is at rest.
LEMMA PollAtRest ==
    ASSUME Base, Quiet, soc_pc = "poll", ~CompletionPending
    PROVE  bridge_state = "IDLE" /\ handler = "idle" /\ was_open = RxOpen
BY FlagsOf DEF Base, Quiet, CompletionPending

LEMMA QuietStep ==
    ASSUME Reliable, Base, Quiet, [Next]_vars
    PROVE  Quiet'
<1> USE FlagsOf DEF Base, Quiet
<1>1. CASE PollEvent \/ PollTimeout
  <2>1. SpidPoll /\ ~CompletionPending /\ UNCHANGED mcuVars
    BY <1>1, ReliableStep
  <2>2. bridge_state = "IDLE" /\ handler = "idle" /\ was_open = RxOpen
    BY <2>1, PollAtRest DEF SpidPoll
  <2> QED BY <2>1, <2>2, TransferKept DEF SpidPoll, DriveSync, mcuVars, handlerVars
<1>2. CASE Header
  <2>1. ctrl_rx' = TxHeader
    BY <1>2, ReliableStep
  <2>2. /\ soc_pc = "header" /\ ~sync_evd /\ soc_pc' = "data" /\ sync' = TRUE /\ sync_evd' = TRUE /\ tcmpl'
        /\ UNCHANGED <<bridge_state, inten, dma, handler>>
    BY <1>2 DEF Header, SpidHeader, HeaderExchange, DriveSync, CtrlDma, handlerVars
  <2>3. ctrl_rx'.ok
    BY <2>1 DEF TxHeader
  <2> QED BY <2>2, <2>3 DEF Phase
<1>3. CASE Data
  <2>1. /\ soc_pc = "data" /\ soc_pc' = "poll" /\ ~sync_evd
        /\ UNCHANGED <<sync, sync_evd, bridge_state, inten, dma, handler, was_open, ctrl_rx, ctrl_tx>>
    BY <1>3 DEF Data, SpidData, DataDma, handlerVars, wireVars
  <2>2. SocTransfer = dma
    BY <2>1, PlansFollow DEF PlansAgree
  <2>3. tcmpl' = (tcmpl \/ dma # {})
    BY <1>3, <2>2 DEF Data, DataDma
  <2> QED BY <2>1, <2>3, TransferKept DEF Phase
<1>4. CASE Interrupt
  <2>0. UNCHANGED soc_pc
    BY <1>4 DEF Interrupt, socVars
  <2>1. CASE SyncLow
    <3>1. RxOpen' = RxOpen
      BY <2>1 DEF SyncLow, ForgetHeader, RxOpen, TypeInv, TypeOK, BridgeTypeOK, SocHeader
    <3>2. soc_pc = "header"
      BY <2>1 DEF SyncLow, Phase
    <3> QED BY <2>0, <2>1, <3>1, <3>2 DEF SyncLow, handlerVars
  <2>2. ~SyncHighBadHeader
    BY DEF SyncHighBadHeader, Phase
  <2>3. CASE SyncHighGoodHeader
    <3>1. /\ soc_pc = "data" /\ bridge_state = "CTRL" /\ handler = "idle" /\ tcmpl /\ ~inten
      BY <2>3 DEF SyncHighGoodHeader, Phase
    <3>2. CASE McuTransfer # {}
      BY <2>0, <2>3, <3>1, <3>2, TransferKept DEF SyncHighGoodHeader, handlerVars
    <3>3. CASE McuTransfer = {}
      BY <2>0, <2>3, <3>1, <3>3, TransferKept DEF SyncHighGoodHeader, handlerVars, Notify
    <3> QED BY <3>2, <3>3
  <2>4. CASE CompletionInterrupt
    <3>1. UNCHANGED <<ctrl_rx, ctrl_tx, sync, sync_evd, dma, inten>>
      BY <2>4 DEF CompletionInterrupt, CompletionEnter, CompletionIgnore, CallbacksDone, SetWasOpen,
         CompletionReturn, wireVars, handlerVars
    <3>2. RxOpen' = RxOpen
      BY <3>1, TransferKept
    <3>3. CASE CompletionEnter
      BY <2>0, <3>1, <3>2, <3>3 DEF CompletionEnter
    <3>4. CASE CompletionIgnore
      BY <2>0, <3>1, <3>2, <3>4 DEF CompletionIgnore, handlerVars, Phase
    <3>5. CASE CallbacksDone \/ SetWasOpen \/ CompletionReturn
      BY <2>0, <3>1, <3>2, <3>5 DEF CallbacksDone, SetWasOpen, CompletionReturn, Phase, OpenInv
    <3> QED BY <2>4, <3>3, <3>4, <3>5 DEF CompletionInterrupt
  <2> QED BY <1>4, <2>1, <2>2, <2>3, <2>4 DEF Interrupt, SyncInterrupt
<1>5. CASE Callback \/ Request
  BY <1>5, ClientKeeps, TransferKept DEF socVars
<1>6. CASE Environment
  BY <1>6, TransferKept DEF Environment, Peer, PeerConnect, PeerWrite, PeerRead, PeerClose, wireVars,
     mcuVars, handlerVars
<1>7. CASE UNCHANGED vars
  BY <1>7, TransferKept DEF vars, wireVars, mcuVars, handlerVars, socVars
<1> QED BY <1>1, <1>2, <1>3, <1>4, <1>5, <1>6, <1>7, ReliableStep DEF Next

---------------------------------------------------------------------------
(* Which connection a channel serves, on both sides.                       *)

\* What the last header said of port c, and whether that is still so: the daemon closes
\* and accepts only between two headers.
Seen(c) ==
    /\ soc_pc \in {"poll", "data"} => ctrl_rx.open[c] = channels_opened[c]
    /\ soc_pc = "header" =>
           \/ ctrl_rx.open[c] = channels_opened[c]
           \/ channels_opened[c] = 0
           \/ ctrl_rx.open[c] = 0 /\ out_buf[c] = NoPkt /\ c \notin channels_writable
    /\ ctrl_rx.size[c] # NoPkt \/ c \in ctrl_rx.writable => c \in was_open

\* Port c serves the connection the daemon has open, or an earlier one.
Serves(c) ==
    /\ serving[c] <= conns[c]
    /\ peer[c] = "connecting" => serving[c] < conns[c]
    /\ channels_opened[c] # 0 =>
           IF c \in active THEN serving[c] = channels_opened[c] ELSE serving[c] < channels_opened[c]

\* A channel whose client was never told of a connection asked for nothing.
Unserved(c) ==
    serving[c] = 0 =>
        /\ c \notin active \cup out_chan_ready \cup ctrl_tx.ready
        /\ in_chan_size[c] = NoPkt /\ ctrl_tx.size[c] = NoPkt
        /\ soc_got[c] = NoPkt

\* What the MCU published at SYNC low it still has at SYNC high.
Sampled(c) ==
    bridge_state = "CTRL" => /\ c \in ctrl_tx.ready => c \in out_chan_ready
                             /\ ctrl_tx.size[c] # NoPkt => in_chan_size[c] # NoPkt

Known ==
    \A c \in Chan :
        /\ c \in PortChan => Seen(c) /\ Serves(c)
        /\ channels_opened[c] # 0 => channels_opened[c] = conns[c]
        /\ c = UsbChan => serving[c] = IF c \in active THEN 1 ELSE 0
        /\ Unserved(c) /\ Sampled(c)

LEMMA KnownInit == Init => Known
<1> SUFFICES ASSUME Init, NEW c \in Chan
             PROVE  /\ Seen(c) /\ Serves(c) /\ Unserved(c) /\ Sampled(c) /\ channels_opened[c] = 0
                    /\ serving[c] = IF c \in active THEN 1 ELSE 0
  BY DEF Known
<1>1. Seen(c)
  BY DEF Init, BridgeInit, SpidInit, Seen
<1>2. Serves(c)
  BY DEF Init, ClientsInit, SpidInit, Serves
<1>3. Unserved(c) /\ Sampled(c)
  BY DEF Init, BridgeInit, ClientsInit, SpidInit, Unserved, Sampled
<1>4. channels_opened[c] = 0 /\ serving[c] = 0 /\ c \notin active
  BY DEF Init, ClientsInit, SpidInit
<1> QED BY <1>1, <1>2, <1>3, <1>4

\* What the types say of one channel.
LEMMA TypesOf ==
    ASSUME TypeInv, NEW c \in Chan
    PROVE  /\ serving[c] \in Nat /\ conns[c] \in Nat /\ channels_opened[c] \in Nat
           /\ in_seq[c] \in Nat /\ out_seq[c] \in Nat
           /\ peer[c] \in {"none", "connecting", "connected", "closed"}
BY ConstantFacts DEF TypeInv, TypeOK, ClientsTypeOK, SpidTypeOK

\* No step takes Seen from a port.
LEMMA SeenStep ==
    ASSUME Reliable, Base, Quiet, Known, [Next]_vars, NEW c \in PortChan
    PROVE  Seen(c)'
<1> USE FlagsOf DEF Base
<1>0. Seen(c) /\ c \in Chan
  BY DEF Known, PortChan
<1>t. ctrl_rx.size[c] # NoPkt \/ c \in ctrl_rx.writable => c \in RxOpen
  BY <1>0 DEF PeerInv, RxOpen
<1>k. ASSUME UNCHANGED <<ctrl_rx, channels_opened, out_buf, channels_writable, soc_pc>>,
             was_open' = was_open \/ was_open' = RxOpen
      PROVE  Seen(c)'
  BY <1>0, <1>t, <1>k DEF Seen
<1>1. CASE PollEvent \/ PollTimeout
  <2>1. SpidPoll /\ UNCHANGED <<ctrl_rx, was_open>>
    BY <1>1, ReliableStep DEF mcuVars
  <2>2. ctrl_rx.open[c] = channels_opened[c] /\ soc_pc' = "header"
    BY <1>0, <2>1 DEF SpidPoll, Seen
  <2>3. CASE c \in HungUp
    <3>1. channels_opened'[c] = 0
      BY <1>0, <2>1, <2>3 DEF SpidPoll, Serve
    <3> QED BY <1>0, <2>1, <2>2, <3>1 DEF Seen
  <2>4. CASE c \in Accepted \ HungUp
    <3>1. channels_opened[c] = 0 /\ out_buf[c] = NoPkt /\ c \notin channels_writable
      BY <1>0, <2>4 DEF Accepted, PeerInv
    <3>2. out_buf'[c] = NoPkt /\ c \notin channels_writable'
      BY <1>0, <2>1, <2>4, <3>1 DEF SpidPoll, Serve, OutAfterPoll, Readable, Writable, Open
    <3> QED BY <1>0, <2>1, <2>2, <3>1, <3>2 DEF Seen
  <2>5. CASE c \notin HungUp \cup Accepted
    <3>1. channels_opened'[c] = channels_opened[c]
      BY <1>0, <2>1, <2>5 DEF SpidPoll, Serve
    <3> QED BY <1>0, <2>1, <2>2, <3>1 DEF Seen
  <2> QED BY <2>3, <2>4, <2>5
<1>2. CASE Header
  <2>1. ctrl_rx' = TxHeader
    BY <1>2, ReliableStep
  <2>2. /\ soc_pc = "header" /\ soc_pc' = "data" /\ was_open' = was_open
        /\ manage_channel_active_status(ctrl_tx)
    BY <1>2 DEF Header, SpidHeader, HeaderExchange, CtrlDma
  <2>3. channels_opened'[c] = channels_opened[c]
    <3>1. c \notin channels_enabled \ ctrl_tx.enabled
      BY DEF PlanInv
    <3> QED BY <1>0, <2>2, <3>1 DEF manage_channel_active_status, PortChan
  <2>4. ctrl_rx'.open[c] = channels_opened'[c]
    BY <2>1, <2>3 DEF TxHeader
  <2>5. ctrl_rx'.size[c] # NoPkt \/ c \in ctrl_rx'.writable => c \in was_open'
    <3>1. SUFFICES ASSUME out_buf[c] # NoPkt \/ c \in channels_writable PROVE c \in was_open
      BY <2>1, <2>2 DEF TxHeader
    <3>2. channels_opened[c] # 0
      BY <1>0, <3>1 DEF PeerInv
    <3>3. ctrl_rx.open[c] # 0
      BY <1>0, <2>2, <3>1, <3>2 DEF Seen
    <3> QED BY <1>0, <2>2, <3>3 DEF Quiet, RxOpen
  <2> QED BY <2>2, <2>4, <2>5 DEF Seen
<1>3. CASE Data
  <2>1. soc_pc = "data" /\ soc_pc' = "poll" /\ UNCHANGED <<ctrl_rx, was_open, channels_opened>>
    BY <1>3 DEF Data, SpidData, DataDma
  <2> QED BY <1>0, <2>1 DEF Seen
<1>4. CASE Interrupt
  <2>1. UNCHANGED <<channels_opened, out_buf, channels_writable, soc_pc>>
    BY <1>4 DEF Interrupt, socVars, spidState
  <2>2. CASE SyncLow
    <3>1. /\ ctrl_rx'.open = ctrl_rx.open /\ ctrl_rx'.size = ctrl_rx.size /\ ctrl_rx'.writable = ctrl_rx.writable
          /\ was_open' = was_open
      BY <2>2 DEF SyncLow, ForgetHeader, TypeInv, TypeOK, BridgeTypeOK, SocHeader
    <3> QED BY <1>0, <2>1, <3>1 DEF Seen
  <2>3. CASE ~SyncLow
    BY <1>4, <2>1, <2>3, <1>k DEF Interrupt, SyncInterrupt, CompletionInterrupt, SyncHighBadHeader, SyncHighGoodHeader,
       CompletionEnter, CompletionIgnore, CallbacksDone, SetWasOpen, NewWasOpen, CompletionReturn
  <2> QED BY <2>2, <2>3
<1>5. CASE Callback \/ Request
  BY <1>5, <1>k, ClientKeeps DEF socVars, spidState
<1>6. CASE Environment
  <2>1. UNCHANGED <<ctrl_rx, was_open, channels_opened, out_buf, channels_writable, soc_pc>>
    BY <1>6 DEF Environment, Peer, PeerConnect, PeerWrite, PeerRead, PeerClose, spidState, mcuVars
  <2> QED BY <2>1, <1>k
<1>7. CASE UNCHANGED vars
  BY <1>7, <1>k DEF vars, mcuVars, socVars, spidState
<1> QED BY <1>1, <1>2, <1>3, <1>4, <1>5, <1>6, <1>7, ReliableStep DEF Next

\* The number of a connection that is open is the number of connections made.
LEMMA OpenedStep ==
    ASSUME Reliable, Base, Known, [Next]_vars, NEW c \in Chan
    PROVE  channels_opened'[c] # 0 => channels_opened'[c] = conns'[c]
<1> USE DEF Base
<1>0. channels_opened[c] # 0 => channels_opened[c] = conns[c]
  BY DEF Known
<1>1. CASE PollEvent \/ PollTimeout
  <2>1. SpidPoll
    BY <1>1, ReliableStep
  <2> QED BY <1>0, <2>1 DEF SpidPoll, Serve
<1>2. CASE Header
  <2>1. manage_channel_active_status(ctrl_tx)
    BY <1>2 DEF Header, SpidHeader
  <2> QED BY <1>0, <2>1 DEF manage_channel_active_status
<1>3. CASE Data
  BY <1>0, <1>3 DEF Data, SpidData
<1>4. CASE Interrupt \/ Callback \/ Request
  BY <1>0, <1>4, ClientKeeps DEF Interrupt, socVars, spidState, peerVars
<1>5. CASE Environment
  <2>1. PICK d \in Chan : Peer(d)
    BY <1>5 DEF Environment
  <2>2. peer[c] = "none" => channels_opened[c] = 0
    BY DEF PeerInv
  <2> QED BY <1>0, <2>1, <2>2 DEF Peer, PeerConnect, PeerWrite, PeerRead, PeerClose, spidState, TypeInv, TypeOK, SpidTypeOK
<1>6. CASE UNCHANGED vars
  BY <1>0, <1>6 DEF vars, socVars, spidState, peerVars
<1> QED BY <1>1, <1>2, <1>3, <1>4, <1>5, <1>6, ReliableStep DEF Next

\* In a callback, what the handler works from is still what the daemon has open.
LEMMA CallbackSees ==
    ASSUME Base, Quiet, Known, handler # "idle", NEW c \in PortChan
    PROVE  ctrl_rx.open[c] = channels_opened[c] /\ (c \in RxOpen <=> channels_opened[c] # 0)
<1>1. soc_pc \in {"poll", "data"}
  BY FlagsOf DEF Base, Quiet
<1>2. ctrl_rx.open[c] = channels_opened[c]
  BY <1>1 DEF Known, PortChan, Seen
<1> QED BY <1>2 DEF RxOpen, PortChan

\* What a callback that opens or closes a port knows.
LEMMA OpenCallback ==
    ASSUME Base, Quiet, Known, NEW c \in Chan, PortOpen(c)
    PROVE  /\ handler = "callbacks" /\ c \in PortChan
           /\ c \in RxOpen \ (was_open \cup active)
           /\ serving' = [serving EXCEPT ![c] = channels_opened[c]] /\ channels_opened[c] # 0
<1>1. handler = "callbacks" /\ c \in PortChan /\ <<OpenCb, c>> \in todo
      /\ serving' = [serving EXCEPT ![c] = rx_status[c]]
  BY DEF PortOpen, NextCallback, IsNext
<1>2. c \in RxOpen \ was_open
  BY <1>1 DEF Base, OpenInv, Callbacks, OpenCb, OutCb, InCb, CloseCb
<1>3. c \notin active
  BY <1>1, <1>2 DEF Base, OpenInv, Told
<1>4. ctrl_rx.open[c] = channels_opened[c] /\ channels_opened[c] # 0
  BY <1>1, <1>2, CallbackSees
<1> QED BY <1>1, <1>2, <1>3, <1>4 DEF Base, OpenInv

LEMMA CloseCallback ==
    ASSUME Base, Quiet, Known, NEW c \in Chan, PortClose(c)
    PROVE  c \in PortChan /\ channels_opened[c] = 0 /\ active' = active \ {c}
<1>1. handler = "callbacks" /\ c \in PortChan /\ <<CloseCb, c>> \in todo
  BY DEF PortClose, NextCallback, IsNext
<1>2. c \notin RxOpen
  BY <1>1 DEF Base, OpenInv, Callbacks, OpenCb, OutCb, InCb, CloseCb
<1> QED BY <1>1, <1>2, CallbackSees DEF PortClose

LEMMA ServesStep ==
    ASSUME Reliable, Base, Quiet, Known, [Next]_vars, NEW c \in PortChan
    PROVE  Serves(c)'
<1> USE DEF Base
<1>0. Serves(c) /\ Seen(c) /\ c \in Chan /\ (channels_opened[c] # 0 => channels_opened[c] = conns[c])
  BY DEF Known, PortChan
<1>t. serving[c] \in Nat /\ conns[c] \in Nat /\ channels_opened[c] \in Nat
  BY <1>0, TypesOf
<1>p. peer[c] = "connecting" => channels_opened[c] = 0
  BY <1>0 DEF PeerInv
<1>1. CASE PollEvent \/ PollTimeout
  <2>1. SpidPoll /\ ~CompletionPending /\ UNCHANGED clientVars
    BY <1>1, ReliableStep
  <2>2. channels_opened[c] = 0 => c \notin active
    <3>1. handler = "idle" /\ was_open = RxOpen
      BY <2>1, PollAtRest DEF SpidPoll
    <3>2. ctrl_rx.open[c] = channels_opened[c]
      BY <1>0, <2>1 DEF SpidPoll, Seen
    <3> QED BY <3>1, <3>2 DEF OpenInv, RxOpen
  <2>3. UNCHANGED <<serving, active, conns>>
    BY <2>1 DEF clientVars, SpidPoll, Serve
  <2>4. CASE c \in Accepted
    <3>1. peer[c] = "connecting" /\ c \notin HungUp
      BY <2>4 DEF Accepted, HungUp
    <3>2. channels_opened'[c] = conns[c] /\ peer'[c] = "connected"
      BY <1>0, <2>1, <2>4, <3>1 DEF SpidPoll, Serve
    <3> QED BY <1>0, <1>t, <1>p, <2>2, <2>3, <3>1, <3>2 DEF Serves
  <2>5. CASE c \notin Accepted
    <3>1. channels_opened'[c] \in {0, channels_opened[c]} /\ peer'[c] \in {"none", peer[c]}
      BY <1>0, <2>1, <2>5 DEF SpidPoll, Serve
    <3> QED BY <1>0, <2>3, <3>1 DEF Serves
  <2> QED BY <2>4, <2>5
<1>2. CASE Header
  <2>1. manage_channel_active_status(ctrl_tx) /\ UNCHANGED clientVars
    BY <1>2 DEF Header, SpidHeader
  <2>2. c \notin channels_enabled \ ctrl_tx.enabled
    BY DEF PlanInv
  <2>3. channels_opened'[c] = channels_opened[c] /\ conns'[c] = conns[c] /\ peer'[c] = peer[c]
    BY <1>0, <2>1, <2>2 DEF manage_channel_active_status, PortChan
  <2> QED BY <1>0, <2>1, <2>3 DEF Serves, clientVars
<1>3. CASE Data
  BY <1>0, <1>3 DEF Data, SpidData, Serves, clientVars
<1>4. CASE Interrupt
  BY <1>0, <1>4 DEF Interrupt, socVars, spidState, peerVars, clientVars, Serves
<1>5. CASE Callback
  <2>1. UNCHANGED <<channels_opened, conns, peer>>
    BY <1>5, ClientKeeps DEF socVars, spidState, peerVars
  <2>2. ASSUME NEW d \in Chan, PortOpen(d) PROVE Serves(c)'
    <3>1. d \in RxOpen \ active /\ serving' = [serving EXCEPT ![d] = channels_opened[d]] /\ channels_opened[d] # 0
      BY <2>2, OpenCallback
    <3>2. active' = active \cup {d}
      BY <2>2 DEF PortOpen
    <3>3. CASE c = d
      <4>1. serving'[c] = channels_opened[c]
        BY <1>0, <3>1, <3>3 DEF TypeInv, TypeOK, ClientsTypeOK
      <4> QED BY <1>0, <1>t, <1>p, <2>1, <3>1, <3>2, <3>3, <4>1 DEF Serves
    <3>4. CASE c # d
      <4>1. serving'[c] = serving[c]
        BY <1>0, <3>1, <3>4 DEF TypeInv, TypeOK, ClientsTypeOK
      <4> QED BY <1>0, <2>1, <3>2, <3>4, <4>1 DEF Serves
    <3> QED BY <3>3, <3>4
  <2>3. ASSUME NEW d \in Chan, PortClose(d) PROVE Serves(c)'
    <3>1. channels_opened[d] = 0 /\ active' = active \ {d}
      BY <2>3, CloseCallback
    <3>2. UNCHANGED serving
      BY <2>3 DEF PortClose
    <3> QED BY <1>0, <2>1, <3>1, <3>2 DEF Serves
  <2>4. ASSUME UNCHANGED <<serving, active>> PROVE Serves(c)'
    BY <1>0, <2>1, <2>4 DEF Serves
  <2> QED BY <1>5, <2>2, <2>3, <2>4 DEF Callback, ClientCallback, PortOut, PortIn, PipeOpenClose, PipeOut, PipeIn, clientVars
<1>6. CASE Request
  <2>1. UNCHANGED <<channels_opened, conns, peer>>
    BY <1>6, ClientKeeps DEF socVars, spidState, peerVars
  <2>2. serving'[c] = serving[c] /\ (c \in active' <=> c \in active)
    BY <1>0, <1>6 DEF Request, StartOut, StartIn, PortError, PipeInit, PipeInitEnable, PipeDisable, clientVars,
       PortChan, TypeInv, TypeOK, ClientsTypeOK
  <2> QED BY <1>0, <2>1, <2>2 DEF Serves
<1>7. CASE Environment
  <2>1. UNCHANGED <<serving, active, channels_opened>>
    BY <1>7 DEF Environment, Peer, PeerConnect, PeerWrite, PeerRead, PeerClose, spidState, clientVars
  <2>2. PICK d \in Chan : Peer(d)
    BY <1>7 DEF Environment
  <2>3. conns'[c] \in {conns[c], conns[c] + 1} /\ (peer'[c] = "connecting" /\ peer[c] # "connecting" => conns'[c] = conns[c] + 1)
    BY <1>0, <2>2 DEF Peer, PeerConnect, PeerWrite, PeerRead, PeerClose, TypeInv, TypeOK, SpidTypeOK
  <2> QED BY <1>0, <1>t, <2>1, <2>3 DEF Serves
<1>8. CASE UNCHANGED vars
  BY <1>0, <1>8 DEF vars, socVars, spidState, peerVars, clientVars, Serves
<1> QED BY <1>1, <1>2, <1>3, <1>4, <1>5, <1>6, <1>7, <1>8, ReliableStep DEF Next

\* The pipe is never disabled, so it is initialised at most once.
LEMMA PipeServesStep ==
    ASSUME Reliable, Base, Known, [Next]_vars, UsbChan \in Chan
    PROVE  serving'[UsbChan] = IF UsbChan \in active' THEN 1 ELSE 0
<1>0. serving[UsbChan] = IF UsbChan \in active THEN 1 ELSE 0
  BY DEF Known
<1>t. serving \in [Chan -> 0..MaxConn]
  BY DEF Base, TypeInv, TypeOK, ClientsTypeOK
<1>1. CASE UNCHANGED clientVars
  BY <1>0, <1>1 DEF clientVars
<1>2. CASE Callback
  BY <1>0, <1>t, <1>2 DEF Callback, ClientCallback, PortOpen, PortOut, PortIn, PortClose, PipeOpenClose, PipeOut,
     PipeIn, clientVars, PortChan
<1>3. CASE Request
  <2>1. ~PipeDisable /\ \A c \in Chan : ~PortError(c)
    BY ReliableStep
  <2>2. CASE PipeInit
    BY <1>0, <1>t, <2>2 DEF PipeInit
  <2>3. CASE PipeInitEnable \/ \E c \in Chan : StartOut(c) \/ StartIn(c)
    BY <1>0, <2>3 DEF PipeInitEnable, StartOut, StartIn
  <2> QED BY <1>3, <2>1, <2>2, <2>3 DEF Request
<1> QED BY <1>1, <1>2, <1>3, ReliableStep DEF Next, Header, Data, Interrupt, Environment, vars

LEMMA NotNoPkt == ASSUME NEW n, NEW s \in Nat PROVE [conn |-> n, seq |-> s + 1] # NoPkt
<1>1. [conn |-> n, seq |-> s + 1].seq # NoPkt.seq
  BY DEF NoPkt
<1> QED BY <1>1

\* Which requests a client's step can touch: those of an active channel, or of one that
\* it makes active.
LEMMA ClientRequests ==
    ASSUME Reliable, Base, Known, [Next]_vars, Callback \/ Request, NEW c \in Chan
    PROVE  \/ /\ c \in active'
              /\ c \in out_chan_ready => c \in out_chan_ready'
              /\ in_chan_size[c] # NoPkt => in_chan_size'[c] # NoPkt
           \/ /\ in_chan_size'[c] = in_chan_size[c] /\ (c \in out_chan_ready' <=> c \in out_chan_ready)
              /\ c \in active' => c \in active
              /\ serving'[c] = serving[c]
<1> USE ConstantFacts DEF Base
<1>t. in_chan_size \in [Chan -> Packet] /\ serving \in [Chan -> 0..MaxConn] /\ in_seq \in [Chan -> 0..MaxIn]
  BY DEF TypeInv, TypeOK, BridgeTypeOK, ClientsTypeOK
<1>1. CASE Request
  <2>1. ASSUME NEW d \in Chan, StartIn(d) PROVE in_chan_size'[d] # NoPkt
    <3>1. in_chan_size'[d] = [conn |-> serving[d], seq |-> in_seq[d] + 1]
      BY <1>t, <2>1 DEF StartIn, bridge_start_in
    <3>2. in_seq[d] \in Nat
      BY <1>t
    <3> QED BY <3>1, <3>2, NotNoPkt
  <2>2. ASSUME NEW d \in Chan, StartIn(d) PROVE d \in active' /\ out_chan_ready' = out_chan_ready /\ UNCHANGED <<active, serving>>
                                            /\ (c # d => in_chan_size'[c] = in_chan_size[c])
    BY <1>t, <2>2 DEF StartIn, bridge_start_in
  <2>3. ASSUME NEW d \in Chan, StartIn(d)
        PROVE  /\ d \in active' /\ out_chan_ready' = out_chan_ready /\ UNCHANGED <<active, serving>>
               /\ c \in out_chan_ready => c \in out_chan_ready'
               /\ in_chan_size[c] # NoPkt => in_chan_size'[c] # NoPkt
    BY <2>1, <2>2, <2>3
  <2>5. ASSUME NEW d \in Chan, StartOut(d)
        PROVE  /\ d \in active /\ out_chan_ready' = out_chan_ready \cup {d}
               /\ UNCHANGED <<active, serving, in_chan_size>>
    BY <2>5 DEF StartOut, bridge_start_out
  <2>6. CASE PipeInit
    BY <1>t, <2>6 DEF PipeInit, bridge_start_out
  <2>7. CASE PipeInitEnable
    BY <2>7 DEF PipeInitEnable, bridge_enable_chan
  <2>8. CASE \E d \in Chan : StartOut(d)
    BY <2>5, <2>8
  <2>9. ASSUME NEW d \in Chan, StartIn(d)
        PROVE  \/ /\ c \in active'
                  /\ c \in out_chan_ready => c \in out_chan_ready'
                  /\ in_chan_size[c] # NoPkt => in_chan_size'[c] # NoPkt
               \/ /\ c \in active' => c \in active
                  /\ UNCHANGED <<in_chan_size[c], out_chan_ready, serving>>
    BY <2>2, <2>3, <2>9
  <2> QED BY <1>1, <2>6, <2>7, <2>8, <2>9, ReliableStep DEF Request
<1>2. CASE Callback
  <2>1. ASSUME NEW d \in Chan, PortOut(d) \/ PortIn(d) PROVE UNCHANGED requestVars
    <3>1. d \in active
      BY <2>1, CompletionOfActive DEF PortOut, PortIn, NextCallback
    <3> QED BY <2>1, <3>1 DEF PortOut, PortIn, requestVars
  <2> QED BY <1>2, <1>t, <2>1 DEF Callback, ClientCallback, PortOpen, PortOut, PortIn, PortClose, PipeOpenClose, PipeOut,
       PipeIn, clientVars, requestVars, bridge_start_out, bridge_enable_chan
<1> QED BY <1>1, <1>2

LEMMA ActiveServed ==
    ASSUME Reliable, Base, Quiet, Known, [Next]_vars, Callback \/ Request, NEW c \in active'
    PROVE  c \in Chan /\ serving'[c] # 0
<1> USE DEF Base
<1>t. serving \in [Chan -> Nat] /\ active \subseteq Chan
  BY ConstantFacts DEF TypeInv, TypeOK, ClientsTypeOK
<1>0. \A d \in active : serving[d] # 0
  BY <1>t DEF Known, Unserved
<1>1. ASSUME UNCHANGED serving, active' \subseteq active PROVE c \in Chan /\ serving'[c] # 0
  BY <1>0, <1>1, <1>t
<1>2. ASSUME NEW d \in Chan, PortOpen(d) PROVE c \in Chan /\ serving'[c] # 0
  <2>1. serving' = [serving EXCEPT ![d] = channels_opened[d]] /\ channels_opened[d] # 0
    BY <1>2, OpenCallback
  <2>2. active' = active \cup {d}
    BY <1>2 DEF PortOpen
  <2> QED BY <1>0, <1>t, <2>1, <2>2
<1>3. ASSUME PipeInit PROVE c \in Chan /\ serving'[c] # 0
  BY <1>0, <1>t, <1>3 DEF PipeInit
<1>4. CASE Callback
  BY <1>1, <1>2, <1>4 DEF Callback, ClientCallback, PortOut, PortIn, PortClose, PipeOpenClose, PipeOut, PipeIn, clientVars
<1>5. CASE Request
  BY <1>1, <1>3, <1>5, ReliableStep DEF Request, StartOut, StartIn, PipeInitEnable
<1> QED BY <1>4, <1>5

LEMMA UnservedStep ==
    ASSUME Reliable, Base, Quiet, Known, [Next]_vars, NEW c \in Chan
    PROVE  Unserved(c)'
<1> USE DEF Base
<1>0. Unserved(c)
  BY DEF Known
<1>k. ASSUME UNCHANGED <<serving, active, soc_got, ctrl_tx, in_chan_size, out_chan_ready>> PROVE Unserved(c)'
  BY <1>0, <1>k DEF Unserved
<1>1. CASE PollEvent \/ PollTimeout
  <2>1. SpidPoll /\ UNCHANGED <<mcuVars, clientVars>>
    BY <1>1, ReliableStep
  <2> QED BY <2>1, <1>k DEF SpidPoll, Serve, mcuVars, clientVars, requestVars
<1>2. CASE Header
  BY <1>2, <1>k DEF Header, SpidHeader, HeaderExchange, CtrlDma, clientVars, requestVars
<1>3. CASE Data
  <2>1. UNCHANGED <<serving, active, ctrl_tx, in_chan_size, out_chan_ready>> /\ rx_buf = ctrl_tx
    BY <1>3 DEF Data, SpidData, DataDma, clientVars, requestVars, PlanInv
  <2>2. c \notin SocIn => soc_got'[c] = soc_got[c]
    BY <1>3 DEF Data, SpidData
  <2>3. ctrl_tx.size[c] = NoPkt => c \notin SocIn
    BY <2>1 DEF SocIn
  <2> QED BY <1>0, <2>1, <2>2, <2>3 DEF Unserved
<1>4. CASE Interrupt
  <2>1. UNCHANGED <<serving, active, soc_got>>
    BY <1>4 DEF Interrupt, socVars, clientVars
  <2>2. CASE SyncLow
    BY <1>0, <2>1, <2>2 DEF SyncLow, requestVars, Unserved
  <2>3. CASE SyncHighGoodHeader
    BY <1>0, <2>1, <2>3 DEF SyncHighGoodHeader, TakeBuffers, Unserved
  <2> QED BY <1>4, <2>1, <2>2, <2>3, <1>k DEF Interrupt, SyncInterrupt, CompletionInterrupt, SyncHighBadHeader,
       CompletionEnter, CompletionIgnore, CallbacksDone, SetWasOpen, CompletionReturn, requestVars
<1>5. CASE Callback \/ Request
  <2>1. UNCHANGED <<soc_got, ctrl_tx>>
    BY <1>5, ClientKeeps DEF socVars
  <2>2. CASE c \in active'
    BY <2>2, <1>5, ActiveServed DEF Unserved
  <2>3. CASE c \notin active'
    BY <1>0, <2>1, <2>3, <1>5, ClientRequests DEF Unserved
  <2> QED BY <2>2, <2>3
<1>6. CASE Environment
  BY <1>6, <1>k DEF Environment, Peer, PeerConnect, PeerWrite, PeerRead, PeerClose, mcuVars, clientVars, requestVars
<1>7. CASE UNCHANGED vars
  BY <1>7, <1>k DEF vars, mcuVars, clientVars, requestVars, socVars
<1> QED BY <1>1, <1>2, <1>3, <1>4, <1>5, <1>6, <1>7, ReliableStep DEF Next

LEMMA SampledStep ==
    ASSUME Reliable, Base, Quiet, Known, [Next]_vars, NEW c \in Chan
    PROVE  Sampled(c)'
<1> USE DEF Base
<1>0. Sampled(c)
  BY DEF Known
<1>k. ASSUME UNCHANGED <<bridge_state, ctrl_tx, in_chan_size, out_chan_ready>> \/ bridge_state' # "CTRL"
      PROVE  Sampled(c)'
  BY <1>0, <1>k DEF Sampled
<1>1. CASE PollEvent \/ PollTimeout \/ Header \/ Data \/ Environment
  BY <1>1, <1>k DEF PollEvent, PollTimeout, Header, CtrlDma, Data, DataDma, Environment, mcuVars, requestVars
<1>2. CASE Interrupt
  <2>1. CASE SyncLow
    BY <2>1 DEF SyncLow, requestVars, Sampled
  <2> QED BY <1>2, <2>1, <1>k DEF Interrupt, SyncInterrupt, CompletionInterrupt, SyncHighBadHeader, SyncHighGoodHeader,
       CompletionEnter, CompletionIgnore, CallbacksDone, SetWasOpen, CompletionReturn, requestVars
<1>3. CASE Callback
  <2>1. bridge_state = "DATA"
    BY <1>3 DEF Callback, ClientCallback, PortOpen, PortOut, PortIn, PortClose, PipeOpenClose, PipeOut,
       PipeIn, NextCallback, IsNext, Phase
  <2> QED BY <1>3, <2>1, <1>k, ClientKeeps
<1>4. CASE Request
  BY <1>0, <1>4, ClientKeeps, ClientRequests DEF Sampled
<1>5. CASE UNCHANGED vars
  BY <1>5, <1>k DEF vars, mcuVars, requestVars
<1> QED BY <1>1, <1>2, <1>3, <1>4, <1>5, ReliableStep DEF Next

LEMMA KnownStep ==
    ASSUME Reliable, Base, Quiet, Known, [Next]_vars
    PROVE  Known'
<1>1. \A c \in PortChan : Seen(c)' /\ Serves(c)'
  BY SeenStep, ServesStep
<1>2. \A c \in Chan : /\ channels_opened'[c] # 0 => channels_opened'[c] = conns'[c]
                      /\ Unserved(c)' /\ Sampled(c)'
  BY OpenedStep, UnservedStep, SampledStep
<1>3. UsbChan \in Chan => serving'[UsbChan] = IF UsbChan \in active' THEN 1 ELSE 0
  BY PipeServesStep
<1> QED BY <1>1, <1>2, <1>3 DEF Known

---------------------------------------------------------------------------
(* Where a client's buffers are.                                           *)

InQueued(c) == in_chan_size[c] # NoPkt
InFlying(c) == InFlight(c, "in")
InDue(c) == <<InCb, c>> \in todo

OutPlace(c) ==
    /\ c \in pending_out <=> OutQueued(c) \/ OutFlying(c) \/ OutDue(c)
    /\ OutQueued(c) => ~OutFlying(c) /\ ~OutDue(c)
InPlace(c) ==
    /\ c \in pending_in <=> InQueued(c) \/ InFlying(c) \/ InDue(c)
    /\ InQueued(c) => ~InFlying(c) /\ ~InDue(c)

\* The buffers given away by the client of an active channel are in one place each.  Of
\* the IN buffers this is so until the channel is opened again: port_enable forgets the
\* reply that is still queued for the connection before.
Places == \A c \in active : OutPlace(c) /\ (serving[c] <= 1 => InPlace(c))

LEMMA PlacesInit == Init => Places
BY DEF Init, ClientsInit, Places

LEMMA InDirection ==
    ASSUME NEW c
    PROVE  /\ <<c, "in">> \in McuTransfer <=> c \in McuIn
           /\ <<InCb, c>> \in Callbacks <=> c \in McuIn
<1>1. <<c, "in">> \in McuTransfer <=> c \in McuIn
  BY DEF McuTransfer
<1>2. <<InCb, c>> \in Callbacks <=> c \in McuIn
  BY DEF Callbacks, OpenCb, OutCb, InCb, CloseCb
<1> QED BY <1>1, <1>2

\* A channel that was just opened has nothing under way from before.
LEMMA OpenIsFresh ==
    ASSUME Base, Quiet, Known, NEW c \in Chan, PortOpen(c)
    PROVE  /\ ~OutFlying(c) /\ ~OutDue(c) /\ ~InFlying(c) /\ ~InDue(c)
           /\ serving'[c] <= 1 => serving[c] = 0 /\ ~InQueued(c)
<1>1. /\ handler = "callbacks" /\ c \in PortChan /\ c \in RxOpen \ (was_open \cup active)
      /\ serving' = [serving EXCEPT ![c] = channels_opened[c]] /\ channels_opened[c] # 0
  BY OpenCallback
<1>2. ~OutFlying(c) /\ ~InFlying(c)
  BY <1>1 DEF OutFlying, InFlying, InFlight
<1>3. c \notin McuOut \cup McuIn
  BY <1>1 DEF Known, Seen, McuOut, McuIn
<1>4. ~OutDue(c) /\ ~InDue(c)
  BY <1>1, <1>3, InDirection, OutDirection DEF Base, OpenInv, OutDue, InDue
<1>5. serving[c] < channels_opened[c] /\ serving[c] \in Nat
  BY <1>1, TypesOf DEF Known, Serves, Base
<1>6. serving'[c] = channels_opened[c]
  BY <1>1 DEF Base, TypeInv, TypeOK, ClientsTypeOK
<1>7. ASSUME serving'[c] <= 1 PROVE serving[c] = 0
  BY <1>5, <1>6, <1>7, TypesOf DEF Base
<1>8. serving[c] = 0 => ~InQueued(c)
  BY DEF Known, Unserved, InQueued
<1> QED BY <1>2, <1>4, <1>7, <1>8

\* Nor has the pipe when it is initialised.
LEMMA PipeIsFresh ==
    ASSUME Base, Quiet, Known, PipeInit
    PROVE  /\ ~OutFlying(UsbChan) /\ ~OutDue(UsbChan) /\ ~OutQueued(UsbChan)
           /\ ~InFlying(UsbChan) /\ ~InDue(UsbChan) /\ ~InQueued(UsbChan)
           /\ serving[UsbChan] = 0
<1>1. UsbChan \in Chan \ active /\ handler = "idle"
  BY DEF PipeInit, MayInterrupt
<1>2. serving[UsbChan] = 0
  BY <1>1 DEF Known
<1>3. ~OutFlying(UsbChan) /\ ~OutDue(UsbChan) /\ ~OutQueued(UsbChan)
  BY <1>1 DEF Base, PipeOutInv
<1>4. ~InDue(UsbChan)
  BY <1>1 DEF Base, OpenInv, InDue
<1>5. ~InQueued(UsbChan) /\ ctrl_tx.size[UsbChan] = NoPkt
  BY <1>1, <1>2 DEF Known, Unserved, InQueued
<1>6. ~InFlying(UsbChan)
  <2>1. UsbChan \notin McuIn
    BY <1>5 DEF McuIn
  <2> QED BY <2>1, InDirection DEF InFlying, InFlight, Base, Phase
<1> QED BY <1>2, <1>3, <1>4, <1>5, <1>6

\* The steps of the interrupts move the buffers on.
LEMMA PlacesInterrupt ==
    ASSUME Reliable, Base, Quiet, Known, Places, Interrupt
    PROVE  Places'
<1> USE FlagsOf DEF Base
<1>1. UNCHANGED clientVars
  BY DEF Interrupt
<1> SUFFICES ASSUME NEW c \in active PROVE OutPlace(c)' /\ (serving[c] <= 1 => InPlace(c)')
  BY <1>1 DEF Places, clientVars
<1>2. OutPlace(c) /\ (serving[c] <= 1 => InPlace(c)) /\ UNCHANGED <<pending_in, pending_out>> /\ c \in Chan
  BY <1>1 DEF Places, clientVars, TypeInv, TypeOK, ClientsTypeOK
<1> USE DEF OutPlace, InPlace, OutQueued, InQueued, OutDue, InDue, OutFlying, InFlying, InFlight
<1>3. CASE SyncLow
  <2>1. bridge_state # "DATA"
    BY <1>3 DEF SyncLow, Phase, Quiet
  <2> QED BY <1>2, <1>3, <2>1 DEF SyncLow, requestVars, handlerVars
<1>4. ~SyncHighBadHeader
  BY DEF SyncHighBadHeader, Phase, Quiet
<1>5. CASE SyncHighGoodHeader
  <2>1. bridge_state = "CTRL" /\ handler = "idle" /\ todo = {}
    BY <1>5 DEF SyncHighGoodHeader, Phase, OpenInv
  <2>2. c \in McuOut => c \in out_chan_ready
    BY <1>2, <2>1 DEF Known, Sampled, McuOut
  <2>3. c \in McuIn => in_chan_size[c] # NoPkt
    BY <1>2, <2>1 DEF Known, Sampled, McuIn
  <2>4. dma' = McuTransfer /\ UNCHANGED <<todo, handler>>
    BY <1>5 DEF SyncHighGoodHeader, handlerVars
  <2>5. (c \in out_chan_ready' <=> c \in out_chan_ready /\ c \notin McuOut)
        /\ in_chan_size'[c] = IF c \in McuIn THEN NoPkt ELSE in_chan_size[c]
    BY <1>2, <1>5 DEF SyncHighGoodHeader, TakeBuffers
  <2>6. (<<c, "out">> \in dma' <=> c \in McuOut) /\ (<<c, "in">> \in dma' <=> c \in McuIn)
    BY <2>4, OutDirection, InDirection
  <2>7. c \in McuOut \/ c \in McuIn => bridge_state' = "DATA"
    <3>1. c \in McuOut \/ c \in McuIn => McuTransfer # {}
      BY OutDirection, InDirection
    <3> QED BY <1>5, <3>1 DEF SyncHighGoodHeader
  <2>8. OutPlace(c)'
    BY <1>2, <2>1, <2>2, <2>4, <2>5, <2>6, <2>7
  <2>9. InPlace(c) => InPlace(c)'
    BY <1>2, <2>1, <2>3, <2>4, <2>5, <2>6, <2>7
  <2> QED BY <1>2, <2>8, <2>9
<1>6. CASE CompletionEnter
  <2>1. dma = McuTransfer /\ todo' = Callbacks /\ todo = {} /\ handler' = "callbacks" /\ handler = "idle"
        /\ bridge_state = "DATA" /\ UNCHANGED <<dma, in_chan_size, out_chan_ready>>
    BY <1>6 DEF CompletionEnter, Phase, OpenInv, requestVars
  <2>2. (<<OutCb, c>> \in todo' <=> <<c, "out">> \in dma) /\ (<<InCb, c>> \in todo' <=> <<c, "in">> \in dma)
    BY <2>1, OutDirection, InDirection
  <2> QED BY <1>2, <2>1, <2>2
<1>7. CASE CompletionIgnore
  BY <1>2, <1>7 DEF CompletionIgnore, requestVars, handlerVars
<1>8. CASE CallbacksDone
  BY <1>2, <1>8 DEF CallbacksDone, requestVars
<1>9. CASE SetWasOpen
  BY <1>2, <1>9 DEF SetWasOpen, requestVars
<1>10. CASE CompletionReturn
  BY <1>2, <1>10 DEF CompletionReturn, requestVars
<1> QED BY <1>3, <1>4, <1>5, <1>6, <1>7, <1>8, <1>9, <1>10 DEF Interrupt, SyncInterrupt, CompletionInterrupt

\* The callbacks take them back.
LEMMA PlacesCallback ==
    ASSUME Reliable, Base, Quiet, Known, Places, Callback
    PROVE  Places'
<1> USE DEF Base
<1>1. UNCHANGED <<bridge_state, dma, handler>> /\ handler = "callbacks"
  BY ClientKeeps DEF Callback, ClientCallback, PortOpen, PortOut, PortIn, PortClose, PipeOpenClose, PipeOut,
     PipeIn, NextCallback, IsNext
<1>t. in_chan_size \in [Chan -> Packet] /\ serving \in [Chan -> 0..MaxConn] /\ active \subseteq Chan
  BY DEF TypeInv, TypeOK, BridgeTypeOK, ClientsTypeOK
\* A callback of channel d leaves the other channels' buffers alone.
<1>o. ASSUME NEW d, NEW k, todo' = todo \ {<<k, d>>},
             NEW c \in active \ {d}, serving'[c] = serving[c], in_chan_size'[c] = in_chan_size[c],
             c \in out_chan_ready' <=> c \in out_chan_ready,
             c \in pending_in' <=> c \in pending_in, c \in pending_out' <=> c \in pending_out
      PROVE  OutPlace(c)' /\ (serving'[c] <= 1 => InPlace(c)')
  BY <1>o, <1>1 DEF Places, OutPlace, InPlace, OutQueued, InQueued, OutDue, InDue, OutFlying, InFlying, InFlight
<1>2. ASSUME NEW d \in Chan, PortOpen(d) PROVE Places'
  <2> SUFFICES ASSUME NEW c \in active' PROVE OutPlace(c)' /\ (serving'[c] <= 1 => InPlace(c)')
    BY DEF Places
  <2>1. CASE c # d
    BY <1>o, <1>t, <1>2, <2>1 DEF PortOpen, NextCallback, bridge_start_out
  <2>2. CASE c = d
    <3>1. /\ ~OutFlying(c) /\ ~OutDue(c) /\ ~InFlying(c) /\ ~InDue(c)
          /\ serving'[c] <= 1 => ~InQueued(c)
      BY <1>2, <2>2, OpenIsFresh
    <3> QED BY <1>1, <1>2, <2>2, <3>1 DEF PortOpen, NextCallback, bridge_start_out,
            OutPlace, InPlace, OutQueued, InQueued, OutDue, InDue, OutFlying, InFlying, InFlight
  <2> QED BY <2>1, <2>2
<1>3. ASSUME NEW d \in Chan, PortOut(d) \/ PortIn(d) PROVE Places'
  <2>1. d \in active /\ UNCHANGED <<active, requestVars, serving>>
    <3>1. d \in active
      BY <1>3, CompletionOfActive DEF PortOut, PortIn, NextCallback
    <3> QED BY <1>3, <3>1 DEF PortOut, PortIn, requestVars
  <2> SUFFICES ASSUME NEW c \in active PROVE OutPlace(c)' /\ (serving'[c] <= 1 => InPlace(c)')
    BY <2>1 DEF Places
  <2>2. CASE c # d
    BY <1>o, <1>3, <2>1, <2>2 DEF PortOut, PortIn, NextCallback, requestVars
  <2>3. CASE c = d
    BY <1>1, <1>3, <2>1, <2>3 DEF PortOut, PortIn, NextCallback, IsNext, requestVars, OutCb, InCb,
       Places, OutPlace, InPlace, OutQueued, InQueued, OutDue, InDue, OutFlying, InFlying, InFlight
  <2> QED BY <2>2, <2>3
<1>4. ASSUME NEW d \in Chan, PortClose(d) PROVE Places'
  <2> SUFFICES ASSUME NEW c \in active' PROVE OutPlace(c)' /\ (serving'[c] <= 1 => InPlace(c)')
    BY DEF Places
  <2> QED BY <1>o, <1>4 DEF PortClose, NextCallback, bridge_enable_chan
<1>5. ASSUME NEW k \in {OpenCb, CloseCb}, PipeOpenClose(k) PROVE Places'
  <2> SUFFICES ASSUME NEW c \in active PROVE OutPlace(c)' /\ (serving'[c] <= 1 => InPlace(c)')
    BY <1>5 DEF Places, PipeOpenClose, clientVars
  <2> QED BY <1>1, <1>5 DEF PipeOpenClose, clientVars, NextCallback, requestVars, OpenCb, CloseCb, OutCb, InCb,
       Places, OutPlace, InPlace, OutQueued, InQueued, OutDue, InDue, OutFlying, InFlying, InFlight
<1>6. ASSUME PipeOut \/ PipeIn PROVE Places'
  <2>1. UNCHANGED <<active, requestVars, serving>>
    BY <1>6 DEF PipeOut, PipeIn
  <2> SUFFICES ASSUME NEW c \in active PROVE OutPlace(c)' /\ (serving'[c] <= 1 => InPlace(c)')
    BY <2>1 DEF Places
  <2>2. CASE c # UsbChan
    BY <1>o, <1>6, <2>1, <2>2 DEF PipeOut, PipeIn, NextCallback, requestVars
  <2>3. CASE c = UsbChan
    BY <1>1, <1>6, <2>1, <2>3 DEF PipeOut, PipeIn, NextCallback, IsNext, requestVars, OutCb, InCb,
       Places, OutPlace, InPlace, OutQueued, InQueued, OutDue, InDue, OutFlying, InFlying, InFlight
  <2> QED BY <2>2, <2>3
<1> QED BY <1>2, <1>3, <1>4, <1>5, <1>6 DEF Callback, ClientCallback

\* The requests give them away.
LEMMA PlacesRequest ==
    ASSUME Reliable, Base, Quiet, Known, Places, [Next]_vars, Request
    PROVE  Places'
<1> USE DEF Base
<1>1. UNCHANGED <<bridge_state, dma, handler, todo>>
  BY ClientKeeps DEF Request, StartOut, StartIn, PortError, PipeInit, PipeInitEnable, PipeDisable, restOfBridge, handlerVars
<1>t. in_chan_size \in [Chan -> Packet] /\ serving \in [Chan -> 0..MaxConn] /\ in_seq \in [Chan -> 0..MaxIn]
      /\ active \subseteq Chan
  BY DEF TypeInv, TypeOK, BridgeTypeOK, ClientsTypeOK
<1> USE DEF Places, OutPlace, InPlace, OutQueued, InQueued, OutDue, InDue, OutFlying, InFlying, InFlight
<1>2. ASSUME NEW d \in Chan, StartOut(d) PROVE Places'
  BY <1>1, <1>2 DEF StartOut, bridge_start_out
<1>3. ASSUME NEW d \in Chan, StartIn(d) PROVE Places'
  <2>1. in_chan_size' = [in_chan_size EXCEPT ![d] = [conn |-> serving[d], seq |-> in_seq[d] + 1]]
        /\ UNCHANGED <<out_chan_ready, pending_out, active, serving>> /\ pending_in' = pending_in \cup {d}
        /\ d \notin pending_in
    BY <1>3 DEF StartIn, bridge_start_in
  <2>2. [conn |-> serving[d], seq |-> in_seq[d] + 1] # NoPkt
    BY <1>t, ConstantFacts, NotNoPkt
  <2>3. \A c \in active : OutPlace(c)'
    BY <1>1, <2>1
  <2>4. \A c \in active : InPlace(c) => InPlace(c)'
    BY <1>1, <1>t, <2>1, <2>2
  <2> QED BY <2>1, <2>3, <2>4
<1>4. ASSUME PipeInit PROVE Places'
  <2>1. /\ UNCHANGED in_chan_size /\ out_chan_ready' = out_chan_ready \cup {UsbChan}
        /\ active' = active \cup {UsbChan} /\ pending_out' = pending_out \cup {UsbChan}
        /\ pending_in' = pending_in \ {UsbChan} /\ UsbChan \notin active
        /\ serving' = [serving EXCEPT ![UsbChan] = @ + 1]
    BY <1>4 DEF PipeInit, bridge_start_out
  <2>2. OutPlace(UsbChan)' /\ InPlace(UsbChan)'
    BY <1>1, <1>4, <2>1, PipeIsFresh
  <2>3. \A c \in active : OutPlace(c)' /\ (serving'[c] <= 1 => InPlace(c)')
    BY <1>1, <1>t, <2>1
  <2> QED BY <2>1, <2>2, <2>3
<1>5. ASSUME PipeInitEnable PROVE Places'
  BY <1>1, <1>5 DEF PipeInitEnable, bridge_enable_chan
<1> QED BY <1>2, <1>3, <1>4, <1>5, ReliableStep DEF Request

LEMMA PlacesStep ==
    ASSUME Reliable, Base, Quiet, Known, Places, [Next]_vars
    PROVE  Places'
<1>k. ASSUME UNCHANGED <<active, serving, pending_in, pending_out, in_chan_size, out_chan_ready, dma, bridge_state,
                         handler, todo>>
      PROVE  Places'
  BY <1>k DEF Places, OutPlace, InPlace, OutQueued, InQueued, OutDue, InDue, OutFlying, InFlying, InFlight
<1>1. CASE PollEvent \/ PollTimeout \/ Header \/ Data \/ Environment
  BY <1>1, <1>k DEF PollEvent, PollTimeout, Header, CtrlDma, Data, DataDma, Environment, mcuVars, requestVars, handlerVars,
     clientVars
<1>2. CASE UNCHANGED vars
  BY <1>2, <1>k DEF vars, mcuVars, requestVars, handlerVars, clientVars
<1> QED BY <1>1, <1>2, PlacesInterrupt, PlacesCallback, PlacesRequest, ReliableStep DEF Next

\* Everything about the bridge of a run in which nothing goes wrong, but the data.
Owned == Base /\ Quiet /\ Known /\ Places

LEMMA OwnedInit == Init => Owned
BY BaseInit, QuietInit, KnownInit, PlacesInit DEF Owned

LEMMA OwnedStep == Reliable /\ Owned /\ [Next]_vars => Owned'
BY BaseStep, QuietStep, KnownStep, PlacesStep DEF Owned

\* At most one of three exclusive places holds.
LEMMA OneOfThree ==
    ASSUME NEW A \in BOOLEAN, NEW B \in BOOLEAN, NEW C \in BOOLEAN, NEW P,
           P <=> A \/ B \/ C, ~(A /\ B), ~(A /\ C), ~(B /\ C)
    PROVE  Cardinality({i \in 1..3 : (i = 1 /\ A) \/ (i = 2 /\ B) \/ (i = 3 /\ C)}) = IF P THEN 1 ELSE 0
<1> DEFINE S == {i \in 1..3 : (i = 1 /\ A) \/ (i = 2 /\ B) \/ (i = 3 /\ C)}
<1>1. CASE ~P
  <2>1. S = {}
    BY <1>1
  <2> QED BY <1>1, <2>1, FS_EmptySet
<1>2. CASE P
  <2>1. CASE A
    <3>1. S = {1}
      BY <2>1
    <3> QED BY <1>2, <3>1, FS_Singleton
  <2>2. CASE B
    <3>1. S = {2}
      BY <2>2
    <3> QED BY <1>2, <3>1, FS_Singleton
  <2>3. CASE C
    <3>1. S = {3}
      BY <2>3
    <3> QED BY <1>2, <3>1, FS_Singleton
  <2> QED BY <1>2, <2>1, <2>2, <2>3
<1> QED BY <1>1, <1>2

LEMMA OwnedBuffers == Owned => BufferOwned
<1> SUFFICES ASSUME Owned, NEW c \in active PROVE
        /\ serving[c] <= 1 =>
            Cardinality({i \in 1..3 : (i = 1 /\ in_chan_size[c] # NoPkt) \/ (i = 2 /\ InFlight(c, "in")) \/ (i = 3 /\ <<InCb, c>> \in todo)}) = (IF c \in pending_in THEN 1 ELSE 0)
        /\ Cardinality({i \in 1..3 : (i = 1 /\ c \in out_chan_ready) \/ (i = 2 /\ InFlight(c, "out")) \/ (i = 3 /\ <<OutCb, c>> \in todo)}) = (IF c \in pending_out THEN 1 ELSE 0)
  BY DEF BufferOwned
<1>1. \A dir : InFlight(c, dir) => todo = {}
  BY DEF Owned, Base, OpenInv, InFlight
<1>2. OutPlace(c) /\ (serving[c] <= 1 => InPlace(c))
  BY DEF Owned, Places
<1>3. ASSUME InPlace(c)
      PROVE  Cardinality({i \in 1..3 : (i = 1 /\ in_chan_size[c] # NoPkt) \/ (i = 2 /\ InFlight(c, "in")) \/ (i = 3 /\ <<InCb, c>> \in todo)}) = (IF c \in pending_in THEN 1 ELSE 0)
  BY <1>1, <1>3, OneOfThree DEF InPlace, InQueued, InFlying, InDue
<1>4. Cardinality({i \in 1..3 : (i = 1 /\ c \in out_chan_ready) \/ (i = 2 /\ InFlight(c, "out")) \/ (i = 3 /\ <<OutCb, c>> \in todo)}) = (IF c \in pending_out THEN 1 ELSE 0)
  BY <1>1, <1>2, OneOfThree DEF OutPlace, OutQueued, OutFlying, OutDue
<1> QED BY <1>2, <1>3, <1>4

\* On a bridge where nothing goes wrong no buffer is lost, given back twice or given back
\* while it is queued, whatever the interleaving of SYNC, completions and clients.
THEOREM BuffersOwned == Reliable => (Spec => []BufferOwned)
<1> SUFFICES ASSUME Reliable PROVE Spec => []BufferOwned
  OBVIOUS
<1> QED BY OwnedInit, OwnedStep, OwnedBuffers, PTL DEF Spec

---------------------------------------------------------------------------
(* The order of what the SoC sends.                                        *)

\* The daemon listens for the ports only; the USB channel is connected when it is enabled.
Sockets ==
    /\ listening \subseteq PortChan
    /\ UsbChan \in Chan /\ UsbChan \notin channels_enabled => channels_opened[UsbChan] = 0

\* A packet the daemon has sent and the client has not been told of.
Delivered(c) == OutDue(c) \/ (OutFlying(c) /\ soc_pc # "data")

\* The last packet that left the daemon, and the packet that leaves it next.
LastOut(c) == IF Delivered(c) THEN out_chan_ptr[c] ELSE mcu_got[c]
NextOut(c) ==
    [conn |-> channels_opened[c],
     seq |-> IF out_buf[c] = NoPkt THEN out_seq[c] + 1 ELSE out_seq[c]]

\* What is on its way to the client of channel c is in order.
OutChain(c) ==
    /\ out_buf[c] # NoPkt => out_buf[c] = [conn |-> channels_opened[c], seq |-> out_seq[c]]
    /\ channels_opened[c] # 0 => Follows(LastOut(c), NextOut(c))
    /\ channels_opened[c] = 0 => out_seq[c] = 0
    /\ LastOut(c).conn <= conns[c]
    /\ peer[c] = "connecting" => LastOut(c).conn < conns[c]
    /\ Delivered(c) => Follows(mcu_got[c], out_chan_ptr[c]) /\ out_chan_ptr[c].conn # 0
    /\ Delivered(c) /\ c \in PortChan => out_chan_ptr[c].conn = ctrl_rx.open[c]
    /\ c \in poll_in => out_buf[c] = NoPkt

OutOrder == Sockets /\ \A c \in Chan : OutChain(c)

LEMMA OutOrderInit == Init => OutOrder
<1> SUFFICES ASSUME Init PROVE OutOrder
  OBVIOUS
<1>1. Sockets
  BY DEF Init, SpidInit, Sockets
<1>2. ASSUME NEW c \in Chan PROVE OutChain(c)
  <2>1. ~Delivered(c) /\ mcu_got[c] = NoPkt
    BY DEF Init, BridgeInit, ClientsInit, Delivered, OutDue, OutFlying, InFlight
  <2>2. LastOut(c).conn = 0
    BY <2>1 DEF LastOut, NoPkt
  <2>3. out_buf[c] = NoPkt /\ channels_opened[c] = 0 /\ out_seq[c] = 0 /\ conns[c] = 0 /\ peer[c] = "none"
    BY DEF Init, SpidInit
  <2> QED BY <2>1, <2>2, <2>3 DEF OutChain
<1> QED BY <1>1, <1>2 DEF OutOrder

LEMMA SocketsStep ==
    ASSUME Reliable, Base, Sockets, [Next]_vars
    PROVE  Sockets'
<1> USE DEF Base
<1>k. ASSUME UNCHANGED <<listening, channels_enabled, channels_opened>> PROVE Sockets'
  BY <1>k DEF Sockets
<1>1. CASE PollEvent \/ PollTimeout
  <2>1. SpidPoll
    BY <1>1, ReliableStep
  <2>2. UsbChan \notin Accepted
    BY DEF Sockets, Accepted, PortChan
  <2> QED BY <2>1, <2>2 DEF SpidPoll, Serve, Sockets
<1>2. CASE Header
  <2>1. manage_channel_active_status(ctrl_tx)
    BY <1>2 DEF Header, SpidHeader
  <2>2. ctrl_tx.enabled \subseteq Chan
    BY DEF TypeInv, TypeOK, BridgeTypeOK, McuHeader
  <2>3. listening' \subseteq PortChan
    BY <2>1, <2>2 DEF manage_channel_active_status, Sockets, PortChan
  <2>4. ASSUME UsbChan \in Chan, UsbChan \notin channels_enabled' PROVE channels_opened'[UsbChan] = 0
    <3>1. UsbChan \notin ctrl_tx.enabled /\ UsbChan \notin channels_enabled
      BY <2>1, <2>4 DEF manage_channel_active_status, PlanInv
    <3> QED BY <2>1, <2>4, <3>1 DEF manage_channel_active_status, Sockets
  <2> QED BY <2>3, <2>4 DEF Sockets
<1>3. CASE Data \/ Interrupt \/ Environment
  BY <1>3, <1>k DEF Data, SpidData, Interrupt, socVars, spidState, Environment, Peer, PeerConnect, PeerWrite, PeerRead, PeerClose
<1>4. CASE Callback \/ Request
  BY <1>4, <1>k, ClientKeeps DEF socVars, spidState
<1>5. CASE UNCHANGED vars
  BY <1>5, <1>k DEF vars, socVars, spidState
<1> QED BY <1>1, <1>2, <1>3, <1>4, <1>5, ReliableStep DEF Next

LEMMA PacketsOf ==
    ASSUME TypeInv, NEW c \in Chan
    PROVE  /\ mcu_got[c] \in Packet /\ mcu_got[c].conn \in Nat /\ mcu_got[c].seq \in Nat
           /\ out_chan_ptr[c] \in Packet /\ out_chan_ptr[c].conn \in Nat /\ out_chan_ptr[c].seq \in Nat
           /\ LastOut(c).conn \in Nat /\ LastOut(c).seq \in Nat
           /\ soc_got[c] \in Packet /\ soc_got[c].conn \in Nat /\ soc_got[c].seq \in Nat
<1>1. mcu_got[c] \in Packet /\ out_chan_ptr[c] \in Packet /\ soc_got[c] \in Packet
  BY DEF TypeInv, TypeOK, ClientsTypeOK, BridgeTypeOK, SpidTypeOK
<1>2. \A p \in Packet : p.conn \in Nat /\ p.seq \in Nat
  BY ConstantFacts DEF Packet
<1> QED BY <1>1, <1>2 DEF LastOut

\* Nothing is on its way from a transfer to come, and nothing outlives a header.
LEMMA DeliveredWhen ==
    ASSUME Owned, NEW c
    PROVE  /\ soc_pc = "header" => ~OutDue(c) /\ ~OutFlying(c)
           /\ sync_evd => ~OutDue(c) /\ ~OutFlying(c)
           /\ OutFlying(c) => c \in McuOut
           /\ OutDue(c) => c \in McuOut /\ handler = "callbacks"
           /\ soc_pc = "data" /\ ~sync_evd /\ c \in McuOut => OutFlying(c) /\ ~tcmpl /\ handler = "idle"
<1> USE FlagsOf DEF Owned, Base
<1>1. OutFlying(c) => c \in McuOut
  BY OutDirection DEF OutFlying, InFlight, Phase
<1>2. OutDue(c) => c \in McuOut /\ handler = "callbacks"
  BY OutDirection DEF OutDue, OpenInv
<1>3. soc_pc = "header" => ~OutDue(c) /\ ~OutFlying(c)
  BY <1>2 DEF Quiet, OutFlying, InFlight
<1>4. sync_evd => ~OutDue(c) /\ ~OutFlying(c)
  BY <1>2 DEF Quiet, OutFlying, InFlight, Phase
<1>5. ASSUME soc_pc = "data", ~sync_evd, c \in McuOut PROVE OutFlying(c) /\ ~tcmpl /\ handler = "idle"
  <2>1. dma = McuTransfer
    BY <1>5 DEF Phase, Quiet
  <2>2. <<c, "out">> \in dma
    BY <1>5, <2>1, OutDirection
  <2> QED BY <1>5, <2>2 DEF Quiet, OutFlying, InFlight
<1> QED BY <1>1, <1>2, <1>3, <1>4, <1>5

\* A turn of poll: reading a packet does not change which packet goes out next.
LEMMA OutPoll ==
    ASSUME Owned, OutOrder, SpidPoll, UNCHANGED <<mcuVars, clientVars>>, NEW c \in Chan
    PROVE  OutChain(c)'
<1> USE DEF Owned, Base
<1>0. OutChain(c)
  BY DEF OutOrder
<1>1. UNCHANGED <<Delivered(c), LastOut(c), mcu_got[c], out_chan_ptr[c], ctrl_rx, conns>>
  BY DEF SpidPoll, Serve, Delivered, LastOut, OutDue, OutFlying, InFlight, mcuVars, clientVars, handlerVars
<1>2. ASSUME UNCHANGED <<channels_opened[c], out_buf[c], out_seq[c], peer[c]>>, c \in poll_in' => c \in poll_in
      PROVE  OutChain(c)'
  BY <1>0, <1>1, <1>2 DEF OutChain, NextOut
<1>p. /\ peer[c] = "connecting" => channels_opened[c] = 0
      /\ channels_opened[c] = 0 => out_buf[c] = NoPkt
  BY DEF PeerInv
<1>3. CASE c \in HungUp
  <2>1. channels_opened'[c] = 0 /\ out_buf'[c] = NoPkt /\ out_seq'[c] = 0 /\ peer'[c] = "none"
    BY <1>3 DEF SpidPoll, Serve, OutAfterPoll
  <2> QED BY <1>0, <1>1, <2>1 DEF OutChain
<1>4. CASE c \in Accepted
  <2>1. peer[c] = "connecting" /\ channels_opened[c] = 0 /\ out_buf[c] = NoPkt /\ out_seq[c] = 0
    BY <1>0, <1>p, <1>4 DEF Accepted, OutChain
  <2>2. c \notin HungUp /\ c \notin Readable
    BY <2>1 DEF HungUp, Readable, Open
  <2>3. channels_opened'[c] = conns[c] /\ out_buf'[c] = NoPkt /\ out_seq'[c] = 0 /\ peer'[c] = "connected"
    BY <1>4, <2>1, <2>2 DEF SpidPoll, Serve, OutAfterPoll
  <2>4. NextOut(c)' = [conn |-> conns[c], seq |-> 1]
    BY <2>3 DEF NextOut
  <2>5. LastOut(c).conn < conns[c]
    BY <1>0, <2>1 DEF OutChain
  <2>6. Follows(LastOut(c), NextOut(c)')
    BY <2>4, <2>5 DEF Follows
  <2> QED BY <1>0, <1>1, <2>1, <2>3, <2>6 DEF OutChain
<1>5. CASE c \in Readable \ HungUp
  <2>1. channels_opened[c] # 0 /\ out_buf[c] = NoPkt /\ peer[c] # "connecting"
    BY <1>0, <1>p, <1>5 DEF Readable, Open, OutChain
  <2>2. c \notin Accepted
    BY <2>1 DEF Accepted
  <2>3. /\ channels_opened'[c] = channels_opened[c] /\ out_seq'[c] = out_seq[c] + 1 /\ peer'[c] = peer[c]
        /\ out_buf'[c] = [conn |-> channels_opened[c], seq |-> out_seq[c] + 1]
        /\ c \notin poll_in'
    BY <1>5, <2>2 DEF SpidPoll, Serve, OutAfterPoll
  <2>4. out_buf'[c] # NoPkt
    BY <2>3, TypesOf, NotNoPkt
  <2>5. NextOut(c)' = NextOut(c)
    BY <2>1, <2>3, <2>4 DEF NextOut
  <2> QED BY <1>0, <1>1, <2>1, <2>3, <2>5 DEF OutChain
<1>6. CASE c \notin HungUp \cup Accepted \cup Readable
  BY <1>2, <1>6 DEF SpidPoll, Serve, OutAfterPoll
<1> QED BY <1>3, <1>4, <1>5, <1>6

\* The header: the USB channel may be connected.
LEMMA OutHeader ==
    ASSUME Owned, OutOrder, Header, NEW c \in Chan
    PROVE  OutChain(c)'
<1> USE DEF Owned, Base
<1>0. OutChain(c)
  BY DEF OutOrder
<1>1. soc_pc = "header" /\ manage_channel_active_status(ctrl_tx)
      /\ UNCHANGED <<dma, bridge_state, handlerVars, out_chan_ptr, clientVars>>
  BY DEF Header, SpidHeader, HeaderExchange, CtrlDma
<1>2. ~Delivered(c) /\ ~Delivered(c)' /\ LastOut(c)' = LastOut(c)
  <2>1. ~OutDue(c) /\ ~OutFlying(c)
    BY <1>1, DeliveredWhen
  <2> QED BY <1>1, <2>1 DEF Delivered, LastOut, OutDue, OutFlying, InFlight, handlerVars, clientVars
<1>3. c \notin channels_enabled \ ctrl_tx.enabled
  BY DEF PlanInv
<1>4. CASE c \in (ctrl_tx.enabled \ channels_enabled) \cap {UsbChan}
  <2>1. channels_opened[c] = 0 /\ out_seq[c] = 0 /\ out_buf[c] = NoPkt
    BY <1>0, <1>4 DEF OutOrder, Sockets, OutChain, PeerInv
  <2>2. /\ channels_opened'[c] = conns[c] + 1 /\ out_seq'[c] = 0 /\ out_buf'[c] = NoPkt
        /\ conns'[c] = conns[c] + 1 /\ peer'[c] = "connected"
    BY <1>1, <1>3, <1>4, <2>1 DEF manage_channel_active_status
  <2>3. LastOut(c).conn \in Nat /\ conns[c] \in Nat /\ LastOut(c).conn <= conns[c]
    BY <1>0, TypesOf, PacketsOf DEF OutChain
  <2>4. Follows(LastOut(c), NextOut(c)')
    BY <2>2, <2>3 DEF Follows, NextOut
  <2> QED BY <1>2, <2>2, <2>3, <2>4 DEF OutChain
<1>5. CASE c \notin (ctrl_tx.enabled \ channels_enabled) \cap {UsbChan}
  <2>1. UNCHANGED <<channels_opened[c], out_seq[c], out_buf[c], conns[c], peer[c]>> /\ (c \in poll_in' => c \in poll_in)
    BY <1>1, <1>3, <1>5 DEF manage_channel_active_status
  <2> QED BY <1>0, <1>2, <2>1 DEF OutChain, NextOut
<1> QED BY <1>4, <1>5

\* The transfer: the packet that goes out is the next, and is the last from then on.
LEMMA OutData ==
    ASSUME Owned, OutOrder, Data, NEW c \in Chan
    PROVE  OutChain(c)'
<1> USE DEF Owned, Base
<1>0. OutChain(c)
  BY DEF OutOrder
<1>1. /\ soc_pc = "data" /\ soc_pc' = "poll" /\ ~sync_evd
      /\ UNCHANGED <<dma, bridge_state, handlerVars, clientVars, ctrl_rx, channels_opened, out_seq, conns, peer>>
  BY DEF Data, SpidData, DataDma
<1>2. SocTransfer = dma /\ dma = McuTransfer /\ SocOut = McuOut
  <2>1. SocTransfer = dma
    BY <1>1, PlansFollow DEF PlansAgree, Quiet
  <2>2. dma = McuTransfer
    BY <1>1 DEF Phase, Quiet
  <2> QED BY <1>1, <2>1, <2>2 DEF PlanInv, Quiet, SocOut, McuOut
<1>3. out_chan_ptr'[c] = IF c \in McuOut THEN out_buf[c] ELSE out_chan_ptr[c]
  <2>1. <<c, "out">> \in dma <=> c \in McuOut
    BY <1>2, OutDirection
  <2> QED BY <1>2, <2>1 DEF Data, DataDma
<1>4. out_buf'[c] = IF c \in McuOut THEN NoPkt ELSE out_buf[c]
  BY <1>2 DEF Data, SpidData, Unsent
<1>5. c \in poll_in' => c \in poll_in \/ c \in McuOut
  BY <1>2 DEF Data, SpidData
<1>6. CASE c \in McuOut
  <2>1. OutFlying(c) /\ handler = "idle"
    BY <1>1, <1>6, DeliveredWhen
  <2>2. ~OutDue(c)
    BY <2>1 DEF OutDue, OpenInv
  <2>3. ~Delivered(c) /\ Delivered(c)'
    BY <1>1, <2>1, <2>2 DEF Delivered, OutDue, OutFlying, InFlight, handlerVars
  <2>4. out_buf[c] # NoPkt
    BY <1>2, <1>6 DEF SocOut
  <2>5. out_buf[c] = [conn |-> channels_opened[c], seq |-> out_seq[c]] /\ channels_opened[c] # 0
    BY <1>0, <2>4 DEF OutChain, PeerInv
  <2>6. Follows(mcu_got[c], out_buf[c])
    BY <1>0, <2>3, <2>4, <2>5 DEF OutChain, LastOut, NextOut
  <2>7. LastOut(c)' = out_buf[c] /\ out_chan_ptr'[c] = out_buf[c]
    BY <1>3, <1>6, <2>3 DEF LastOut
  <2>8. NextOut(c)' = [conn |-> channels_opened[c], seq |-> out_seq[c] + 1]
    BY <1>1, <1>4, <1>6 DEF NextOut
  <2>9. Follows(LastOut(c)', NextOut(c)')
    BY <2>5, <2>7, <2>8 DEF Follows
  <2>10. channels_opened[c] = conns[c] /\ conns[c] \in Nat
    BY <2>5, TypesOf DEF Known
  <2>11. peer[c] # "connecting"
    BY <2>5 DEF PeerInv
  <2>12. c \in PortChan => channels_opened[c] = ctrl_rx.open[c]
    BY <1>1 DEF Known, Seen
  <2>13. out_buf'[c] = NoPkt /\ mcu_got'[c] = mcu_got[c]
    BY <1>1, <1>4, <1>6 DEF clientVars
  <2>14. LastOut(c)'.conn = conns[c] /\ out_chan_ptr'[c].conn = channels_opened[c]
    BY <2>5, <2>7, <2>10
  <2> QED BY <1>1, <2>5, <2>6, <2>7, <2>9, <2>10, <2>11, <2>12, <2>13, <2>14 DEF OutChain
<1>7. CASE c \notin McuOut
  <2>1. ~OutFlying(c) /\ ~OutFlying(c)'
    BY <1>1, <1>7, DeliveredWhen DEF OutFlying, InFlight, handlerVars
  <2>2. Delivered(c)' = Delivered(c) /\ LastOut(c)' = LastOut(c) /\ NextOut(c)' = NextOut(c) /\ mcu_got'[c] = mcu_got[c]
    BY <1>1, <1>3, <1>4, <1>7, <2>1 DEF Delivered, LastOut, NextOut, OutDue, handlerVars, clientVars
  <2> QED BY <1>0, <1>1, <1>3, <1>4, <1>5, <1>7, <2>2 DEF OutChain
<1> QED BY <1>6, <1>7

\* An interrupt takes no packet and makes none.
LEMMA OutInterrupt ==
    ASSUME Owned, OutOrder, Interrupt, NEW c \in Chan
    PROVE  OutChain(c)'
<1> USE FlagsOf DEF Owned, Base
<1>0. OutChain(c)
  BY DEF OutOrder
<1>1. UNCHANGED <<clientVars, socVars>>
  BY DEF Interrupt
<1>2. UNCHANGED out_chan_ptr /\ (UNCHANGED ctrl_rx \/ ForgetHeader)
  BY DEF Interrupt, SyncInterrupt, CompletionInterrupt, SyncLow, SyncHighBadHeader, SyncHighGoodHeader,
     CompletionEnter, CompletionIgnore, CallbacksDone, SetWasOpen, CompletionReturn, requestVars
<1>3. ctrl_rx'.open = ctrl_rx.open
  BY <1>2 DEF ForgetHeader, TypeInv, TypeOK, BridgeTypeOK, SocHeader
<1>4. Delivered(c)' = Delivered(c)
  <2>0. soc_pc' = soc_pc
    BY <1>1 DEF socVars
  <2>1. CASE SyncInterrupt
    <3>1. ~OutDue(c) /\ ~OutFlying(c)
      BY <2>1, DeliveredWhen DEF SyncInterrupt, SyncLow, SyncHighBadHeader, SyncHighGoodHeader
    <3>2. UNCHANGED todo
      BY <2>1 DEF SyncInterrupt, SyncLow, SyncHighBadHeader, SyncHighGoodHeader, handlerVars
    <3>3. CASE SyncLow \/ SyncHighBadHeader
      BY <3>1, <3>2, <3>3 DEF SyncLow, SyncHighBadHeader, Delivered, OutDue, OutFlying, InFlight
    <3>4. CASE SyncHighGoodHeader
      <4>1. soc_pc = "data"
        BY <3>4 DEF SyncHighGoodHeader, Phase, Quiet
      <4> QED BY <2>0, <3>1, <3>2, <4>1 DEF Delivered, OutDue
    <3> QED BY <2>1, <3>3, <3>4 DEF SyncInterrupt
  <2>2. CASE CompletionEnter
    <3>1. dma = McuTransfer /\ todo = {} /\ todo' = Callbacks /\ handler = "idle" /\ handler' = "callbacks"
          /\ bridge_state = "DATA" /\ tcmpl /\ ~sync_evd
      BY <2>2 DEF CompletionEnter, Phase, OpenInv, Quiet
    <3>2. OutDue(c)' <=> c \in McuOut
      BY <3>1, OutDirection DEF OutDue
    <3>3. OutFlying(c) <=> c \in McuOut
      BY <3>1, OutDirection DEF OutFlying, InFlight
    <3>4. soc_pc = "data" => c \notin McuOut
      BY <3>1, DeliveredWhen
    <3> QED BY <2>0, <3>1, <3>2, <3>3, <3>4 DEF Delivered, OutDue, OutFlying, InFlight
  <2>3. CASE CompletionIgnore
    BY <2>0, <2>3 DEF CompletionIgnore, Delivered, OutDue, OutFlying, InFlight, handlerVars
  <2>4. CASE CallbacksDone \/ SetWasOpen \/ CompletionReturn
    BY <2>0, <2>4 DEF CallbacksDone, SetWasOpen, CompletionReturn, Delivered, OutDue, OutFlying, InFlight
  <2> QED BY <2>1, <2>2, <2>3, <2>4 DEF Interrupt, CompletionInterrupt
<1> QED BY <1>0, <1>1, <1>2, <1>3, <1>4 DEF OutChain, LastOut, NextOut, clientVars, socVars, spidState, peerVars

\* A callback takes the packet that was delivered, or leaves the channel's packets alone.
LEMMA OutTaken ==
    ASSUME Owned, OutOrder, Callback, NEW c \in Chan
    PROVE  \/ OutDue(c) /\ ~OutDue(c)' /\ mcu_got'[c] = out_chan_ptr[c]
           \/ (OutDue(c)' <=> OutDue(c)) /\ mcu_got'[c] = mcu_got[c]
<1> USE DEF Owned, Base
<1>t. mcu_got \in [Chan -> Packet]
  BY DEF TypeInv, TypeOK, ClientsTypeOK
<1>0. OutDue(c) => LastIntact(mcu_got[c], out_chan_ptr[c]) = out_chan_ptr[c]
  <2>1. SUFFICES ASSUME OutDue(c) PROVE out_chan_ptr[c] # Garbage
    BY DEF LastIntact
  <2>2. out_chan_ptr[c].conn # 0
    BY <2>1 DEF OutOrder, OutChain, Delivered
  <2> QED BY <2>2 DEF Garbage
<1>1. ASSUME NEW d \in Chan, PortOut(d)
      PROVE  \/ OutDue(c) /\ ~OutDue(c)' /\ mcu_got'[c] = out_chan_ptr[c]
             \/ (OutDue(c)' <=> OutDue(c)) /\ mcu_got'[c] = mcu_got[c]
  BY <1>0, <1>1, <1>t DEF PortOut, NextCallback, IsNext, OutDue
<1>2. ASSUME PipeOut
      PROVE  \/ OutDue(c) /\ ~OutDue(c)' /\ mcu_got'[c] = out_chan_ptr[c]
             \/ (OutDue(c)' <=> OutDue(c)) /\ mcu_got'[c] = mcu_got[c]
  <2>1. UsbChan \in active \cap pending_out
    BY <1>2 DEF PipeOut, NextCallback, IsNext, PipeOutInv, OutDue
  <2> QED BY <1>0, <1>2, <1>t, <2>1 DEF PipeOut, NextCallback, IsNext, OutDue
<1>3. ASSUME NEW d, NEW k \in {OpenCb, InCb, CloseCb}, todo' = todo \ {<<k, d>>}, UNCHANGED mcu_got
      PROVE  (OutDue(c)' <=> OutDue(c)) /\ mcu_got'[c] = mcu_got[c]
  BY <1>3 DEF OutDue, OpenCb, OutCb, InCb, CloseCb
<1> QED BY <1>1, <1>2, <1>3 DEF Callback, ClientCallback, PortOpen, PortIn, PortClose, PipeOpenClose, PipeIn, NextCallback,
         clientVars

LEMMA OutCallback ==
    ASSUME Owned, OutOrder, Callback, NEW c \in Chan
    PROVE  OutChain(c)'
<1> USE DEF Owned, Base
<1>0. OutChain(c)
  BY DEF OutOrder
<1>1. /\ UNCHANGED <<handler, bridge_state, dma, out_chan_ptr, ctrl_rx, socVars>>
      /\ handler = "callbacks"
  BY ClientKeeps DEF Callback, ClientCallback, PortOpen, PortOut, PortIn, PortClose, PipeOpenClose, PipeOut,
     PipeIn, NextCallback, IsNext
<1>2. (Delivered(c) <=> OutDue(c)) /\ (Delivered(c)' <=> OutDue(c)')
  BY <1>1 DEF Delivered, OutFlying, InFlight
<1>3. LastOut(c)' = LastOut(c)
  BY <1>1, <1>2, OutTaken DEF LastOut
<1>4. Delivered(c)' => Delivered(c) /\ mcu_got'[c] = mcu_got[c]
  BY <1>2, OutTaken
<1> QED BY <1>0, <1>1, <1>3, <1>4 DEF OutChain, NextOut, socVars, spidState, peerVars

LEMMA OutStep ==
    ASSUME Reliable, Owned, OutOrder, [Next]_vars
    PROVE  OutOrder'
<1> USE DEF Owned, Base
<1>1. Sockets'
  BY SocketsStep DEF OutOrder
<1> SUFFICES ASSUME NEW c \in Chan PROVE OutChain(c)'
  BY <1>1 DEF OutOrder
<1>0. OutChain(c)
  BY DEF OutOrder
<1>k. ASSUME UNCHANGED <<mcu_got, todo, dma, bridge_state, handler, out_chan_ptr, ctrl_rx, socVars>> PROVE OutChain(c)'
  BY <1>0, <1>k DEF OutChain, NextOut, LastOut, Delivered, OutDue, OutFlying, InFlight, socVars, spidState, peerVars
<1>2. CASE PollEvent \/ PollTimeout
  BY <1>2, OutPoll, ReliableStep
<1>3. CASE Request
  BY <1>3, <1>k, ClientKeeps DEF Request, StartOut, StartIn, PortError, PipeInit, PipeInitEnable, PipeDisable,
     restOfBridge, handlerVars, clientVars
<1>4. CASE Environment
  <2>1. UNCHANGED <<mcu_got, todo, dma, bridge_state, handler, out_chan_ptr, ctrl_rx, soc_pc, spidState>>
    BY <1>4 DEF Environment, Peer, PeerConnect, PeerWrite, PeerRead, PeerClose, mcuVars, handlerVars, clientVars
  <2>2. PICK d \in Chan : Peer(d)
    BY <1>4 DEF Environment
  <2>3. conns'[c] \in {conns[c], conns[c] + 1} /\ (peer'[c] = "connecting" /\ peer[c] # "connecting" => conns'[c] = conns[c] + 1)
    BY <2>2 DEF Peer, PeerConnect, PeerWrite, PeerRead, PeerClose, TypeInv, TypeOK, SpidTypeOK
  <2>4. Delivered(c)' = Delivered(c) /\ LastOut(c)' = LastOut(c) /\ NextOut(c)' = NextOut(c)
    BY <2>1 DEF Delivered, OutDue, OutFlying, InFlight, LastOut, NextOut, spidState
  <2>5. LastOut(c).conn \in Nat /\ conns[c] \in Nat
    BY TypesOf, PacketsOf
  <2> QED BY <1>0, <2>1, <2>3, <2>4, <2>5 DEF OutChain, spidState
<1>5. CASE UNCHANGED vars
  BY <1>5, <1>k DEF vars, mcuVars, handlerVars, clientVars
<1> QED BY <1>2, <1>3, <1>4, <1>5, OutHeader, OutData, OutInterrupt, OutCallback, ReliableStep DEF Next

\* A received packet is the one that was delivered.
LEMMA ReceivedIsDelivered ==
    ASSUME Reliable, Owned, OutOrder, [Next]_vars, NEW c \in Chan, Received(c)
    PROVE  OutDue(c) /\ Delivered(c) /\ mcu_got'[c] = out_chan_ptr[c] /\ Callback
<1> USE DEF Owned, Base
<1>1. OutDue(c) /\ ~OutDue(c)'
  BY DEF Received, OutDue
<1>2. handler = "callbacks" /\ todo # {}
  BY <1>1 DEF OutDue, OpenInv
<1>3. CASE Callback
  BY <1>1, <1>3, OutTaken DEF Delivered
<1>4. CASE Interrupt
  BY <1>1, <1>2, <1>4 DEF Interrupt, SyncInterrupt, CompletionInterrupt, SyncLow, SyncHighBadHeader, SyncHighGoodHeader,
     CompletionEnter, CompletionIgnore, CallbacksDone, SetWasOpen, CompletionReturn, handlerVars, OutDue
<1>5. CASE Request
  BY <1>1, <1>5 DEF Request, StartOut, StartIn, PortError, PipeInit, PipeInitEnable, PipeDisable, restOfBridge,
     handlerVars, OutDue
<1>6. CASE PollEvent \/ PollTimeout \/ Header \/ Data \/ Environment \/ UNCHANGED vars
  BY <1>1, <1>6 DEF PollEvent, PollTimeout, Header, CtrlDma, Data, DataDma, Environment, vars, mcuVars, handlerVars, OutDue
<1> QED BY <1>3, <1>4, <1>5, <1>6, ReliableStep DEF Next

\* The MCU's clients receive what the daemon read from the sockets: every packet, once, in
\* the order of the reads.
THEOREM OutOrdered == Reliable => (Spec => OutInOrder)
<1> SUFFICES ASSUME Reliable PROVE Spec => OutInOrder
  OBVIOUS
<1> DEFINE Inv == Owned /\ OutOrder
<1>1. Init => Inv
  BY OwnedInit, OutOrderInit
<1>2. Inv /\ [Next]_vars => Inv'
  BY OwnedStep, OutStep
<1>3. Inv /\ [Next]_vars => [\A c \in Chan : Received(c) => Follows(mcu_got[c], mcu_got'[c])]_vars
  <2> SUFFICES ASSUME Inv, [Next]_vars, NEW c \in Chan, Received(c) PROVE Follows(mcu_got[c], mcu_got'[c])
    OBVIOUS
  <2>1. Delivered(c) /\ mcu_got'[c] = out_chan_ptr[c]
    BY ReceivedIsDelivered
  <2> QED BY <2>1 DEF OutOrder, OutChain
<1> QED BY <1>1, <1>2, <1>3, PTL DEF Spec, OutInOrder

\* A port receives a packet only while it serves the connection it was read from.
THEOREM OutDeliveredToConnection == Reliable => (Spec => OutToItsConnection)
<1> SUFFICES ASSUME Reliable PROVE Spec => OutToItsConnection
  OBVIOUS
<1> DEFINE Inv == Owned /\ OutOrder
<1>1. Init => Inv
  BY OwnedInit, OutOrderInit
<1>2. Inv /\ [Next]_vars => Inv'
  BY OwnedStep, OutStep
<1>3. Inv /\ [Next]_vars => [\A c \in PortChan : Received(c) => mcu_got'[c].conn = serving[c]]_vars
  <2> SUFFICES ASSUME Inv, [Next]_vars, NEW c \in PortChan, Received(c) PROVE mcu_got'[c].conn = serving[c]
    OBVIOUS
  <2>0. c \in Chan
    BY DEF PortChan
  <2>1. OutDue(c) /\ Delivered(c) /\ mcu_got'[c] = out_chan_ptr[c] /\ Callback
    BY <2>0, ReceivedIsDelivered
  <2>2. out_chan_ptr[c].conn = ctrl_rx.open[c] /\ out_chan_ptr[c].conn # 0
    BY <2>0, <2>1 DEF OutOrder, OutChain
  <2>3. handler = "callbacks"
    BY <2>1 DEF Owned, Base, OpenInv, OutDue
  <2>4. ctrl_rx.open[c] = channels_opened[c]
    BY <2>3, CallbackSees DEF Owned
  <2>5. c \in active
    <3>1. IsNext(OutCb, c)
      BY <2>1, <2>3 DEF Received, Callback, ClientCallback, PortOpen, PortOut, PortIn, PortClose, PipeOpenClose, PipeOut,
         PipeIn, NextCallback, OutDue
    <3> QED BY <3>1, CompletionOfActive DEF Owned, Base
  <2> QED BY <2>0, <2>1, <2>2, <2>4, <2>5 DEF Owned, Known, Serves
<1> QED BY <1>1, <1>2, <1>3, PTL DEF Spec, OutToItsConnection

---------------------------------------------------------------------------
(* The order of what the MCU sends.                                        *)

\* A packet the client has queued and the daemon has not taken.
InUnsent(c) == InQueued(c) \/ (InFlying(c) /\ soc_pc = "data")

\* What is on its way from the client of channel c, on its first connection, is in order.
InSent(c) ==
    /\ bridge_state = "CTRL" /\ ctrl_tx.size[c] # NoPkt => ctrl_tx.size[c] = in_chan_ptr[c]
    /\ InFlying(c) => ctrl_tx.size[c] = in_chan_ptr[c]
    /\ InUnsent(c) => /\ in_chan_ptr[c] = [conn |-> 1, seq |-> in_seq[c]]
                      /\ Follows(soc_got[c], in_chan_ptr[c])
    /\ ~InUnsent(c) => Follows(soc_got[c], [conn |-> 1, seq |-> in_seq[c] + 1])

InChain(c) ==
    /\ in_chan_size[c] \in {NoPkt, in_chan_ptr[c]}
    /\ c \in active /\ serving[c] = 1 => InSent(c)

InOrder == \A c \in Chan : InChain(c)

LEMMA InOrderInit == Init => InOrder
BY DEF Init, BridgeInit, ClientsInit, InOrder, InChain

\* A transfer waits for the daemon with its packets in the DMA chain.
LEMMA FlyingWhen ==
    ASSUME Owned, NEW c
    PROVE  /\ InFlying(c) => c \in McuIn
           /\ InFlying(c) => soc_pc # "header" /\ ~sync_evd /\ bridge_state = "DATA" /\ handler = "idle"
           /\ soc_pc = "data" /\ ~sync_evd /\ c \in McuIn => InFlying(c) /\ ~tcmpl /\ handler = "idle"
<1> USE FlagsOf DEF Owned, Base
<1>1. InFlying(c) => c \in McuIn
  BY InDirection DEF InFlying, InFlight, Phase
<1>2. InFlying(c) => soc_pc # "header" /\ ~sync_evd /\ bridge_state = "DATA" /\ handler = "idle"
  BY DEF Quiet, InFlying, InFlight
<1>3. ASSUME soc_pc = "data", ~sync_evd, c \in McuIn PROVE InFlying(c) /\ ~tcmpl /\ handler = "idle"
  <2>1. dma = McuTransfer
    BY <1>3 DEF Phase, Quiet
  <2>2. <<c, "in">> \in dma
    BY <1>3, <2>1, InDirection
  <2> QED BY <1>3, <2>2 DEF Quiet, InFlying, InFlight
<1> QED BY <1>1, <1>2, <1>3

\* The transfer: the packet that is in flight arrives.
LEMMA InDataStep ==
    ASSUME Owned, InOrder, Data, NEW c \in Chan
    PROVE  InChain(c)'
<1> USE DEF Owned, Base
<1>0. InChain(c)
  BY DEF InOrder
<1>1. /\ soc_pc = "data" /\ soc_pc' = "poll" /\ ~sync_evd
      /\ UNCHANGED <<dma, bridge_state, handlerVars, clientVars, ctrl_tx, requestVars>>
  BY DEF Data, SpidData, DataDma
<1>2. SocTransfer = dma /\ SocIn = McuIn
  <2>1. SocTransfer = dma
    BY <1>1, PlansFollow DEF PlansAgree, Quiet
  <2> QED BY <1>1, <2>1 DEF PlanInv, Quiet, SocIn, McuIn
<1>3. soc_got'[c] = IF c \in McuIn THEN LastIntact(soc_got[c], InData(c)) ELSE soc_got[c]
  BY <1>2 DEF Data, SpidData
<1>4. in_chan_size'[c] \in {NoPkt, in_chan_ptr'[c]}
  BY <1>0, <1>1 DEF InChain, requestVars
<1>5. ASSUME c \in active, serving[c] = 1 PROVE InSent(c)'
  <2>0. InSent(c)
    BY <1>0, <1>5 DEF InChain
  <2>1. (InUnsent(c)' <=> InQueued(c)) /\ (InFlying(c)' <=> InFlying(c))
    BY <1>1 DEF InUnsent, InQueued, InFlying, InFlight, handlerVars, requestVars
  <2>2. CASE c \in McuIn
    <3>1. InFlying(c)
      BY <1>1, <2>2, FlyingWhen
    <3>2. ~InQueued(c)
      BY <1>5, <3>1 DEF Places, InPlace
    <3>3. InUnsent(c) /\ ~InUnsent(c)'
      BY <1>1, <2>1, <3>1, <3>2 DEF InUnsent
    <3>4. InData(c) = in_chan_ptr[c] /\ in_chan_ptr[c] = [conn |-> 1, seq |-> in_seq[c]]
      BY <2>0, <3>1, <3>3 DEF InSent, InData
    <3>5. soc_got'[c] = [conn |-> 1, seq |-> in_seq[c]]
      <4>1. InData(c) # Garbage
        <5>1. InData(c).conn # Garbage.conn
          BY <3>4 DEF Garbage
        <5> QED BY <5>1
      <4> QED BY <1>3, <2>2, <3>4, <4>1 DEF LastIntact
    <3>6. Follows(soc_got'[c], [conn |-> 1, seq |-> in_seq[c] + 1])
      BY <3>5 DEF Follows
    <3> QED BY <1>1, <2>0, <2>1, <3>3, <3>6 DEF InSent, clientVars, requestVars
  <2>3. CASE c \notin McuIn
    <3>1. ~InFlying(c)
      BY <2>3, FlyingWhen
    <3> QED BY <1>1, <1>3, <2>0, <2>1, <2>3, <3>1 DEF InSent, InUnsent, clientVars, requestVars
  <2> QED BY <2>2, <2>3
<1> QED BY <1>1, <1>4, <1>5 DEF InChain, clientVars

LEMMA InInterrupt ==
    ASSUME Owned, InOrder, Interrupt, NEW c \in Chan
    PROVE  InChain(c)'
<1> USE FlagsOf DEF Owned, Base
<1>0. InChain(c)
  BY DEF InOrder
<1>1. UNCHANGED <<clientVars, soc_pc, soc_got, in_chan_ptr>>
  BY DEF Interrupt, socVars, SyncInterrupt, CompletionInterrupt, SyncLow, SyncHighBadHeader, SyncHighGoodHeader,
     CompletionEnter, CompletionIgnore, CallbacksDone, SetWasOpen, CompletionReturn, requestVars
<1>2. in_chan_size'[c] \in {NoPkt, in_chan_size[c]}
  BY DEF Interrupt, SyncInterrupt, CompletionInterrupt, SyncLow, SyncHighBadHeader, SyncHighGoodHeader, TakeBuffers,
     CompletionEnter, CompletionIgnore, CallbacksDone, SetWasOpen, CompletionReturn, requestVars
<1>3. ASSUME c \in active, serving[c] = 1 PROVE InSent(c)'
  <2>0. InSent(c)
    BY <1>0, <1>3 DEF InChain
  <2>1. CASE SyncLow
    <3>1. ~InFlying(c) /\ ~InFlying(c)' /\ in_chan_size' = in_chan_size /\ ctrl_tx'.size = in_chan_size
      BY <2>1, FlyingWhen DEF SyncLow, InFlying, InFlight, requestVars
    <3> QED BY <1>0, <1>1, <2>0, <3>1 DEF InChain, InSent, InUnsent, InQueued, clientVars
  <2>2. ~SyncHighBadHeader
    BY DEF SyncHighBadHeader, Phase, Quiet
  <2>3. CASE SyncHighGoodHeader
    <3>1. bridge_state = "CTRL" /\ handler = "idle" /\ soc_pc = "data" /\ ~InFlying(c)
      BY <2>3 DEF SyncHighGoodHeader, Phase, Quiet, InFlying, InFlight
    <3>2. in_chan_size'[c] = (IF c \in McuIn THEN NoPkt ELSE in_chan_size[c]) /\ UNCHANGED <<ctrl_tx, handler>>
          /\ bridge_state' # "CTRL" /\ dma' = McuTransfer
      BY <2>3 DEF SyncHighGoodHeader, TakeBuffers, handlerVars
    <3>3. c \in McuIn => ctrl_tx.size[c] # NoPkt /\ in_chan_size[c] # NoPkt
      BY <3>1 DEF McuIn, Known, Sampled
    <3>4. InFlying(c)' <=> c \in McuIn
      <4>1. c \in McuIn => McuTransfer # {}
        BY InDirection
      <4> QED BY <2>3, <3>1, <3>2, <4>1, InDirection DEF SyncHighGoodHeader, InFlying, InFlight
    <3>5. InUnsent(c)' <=> InUnsent(c)
      BY <1>1, <3>1, <3>2, <3>3, <3>4 DEF InUnsent, InQueued
    <3> QED BY <1>1, <2>0, <3>1, <3>2, <3>3, <3>4, <3>5 DEF InSent, clientVars
  <2>4. CASE CompletionEnter
    <3>1. tcmpl /\ bridge_state = "DATA" /\ handler' # "idle" /\ UNCHANGED <<bridge_state, ctrl_tx, in_chan_size>>
      BY <2>4 DEF CompletionEnter, requestVars
    <3>2. InFlying(c) => soc_pc # "data"
      BY <3>1, FlyingWhen
    <3> QED BY <1>1, <2>0, <3>1, <3>2 DEF InSent, InUnsent, InQueued, InFlying, InFlight, clientVars
  <2>5. CASE CompletionIgnore
    BY <1>1, <2>0, <2>5 DEF CompletionIgnore, InSent, InUnsent, InQueued, InFlying, InFlight, clientVars, requestVars, handlerVars
  <2>6. CASE CallbacksDone \/ SetWasOpen \/ CompletionReturn
    BY <1>1, <2>0, <2>6 DEF CallbacksDone, SetWasOpen, CompletionReturn, InSent, InUnsent, InQueued, InFlying, InFlight,
       clientVars, requestVars
  <2> QED BY <2>1, <2>2, <2>3, <2>4, <2>5, <2>6 DEF Interrupt, SyncInterrupt, CompletionInterrupt
<1> QED BY <1>0, <1>1, <1>2, <1>3 DEF InChain, clientVars

\* A client that is told of its first connection has sent nothing.
LEMMA InFirst ==
    ASSUME Owned, InOrder, NEW c \in Chan, serving[c] = 0, ~InFlying(c)', in_seq'[c] = 0,
           UNCHANGED <<ctrl_tx, in_chan_size, in_chan_ptr, soc_got>>
    PROVE  InChain(c)'
<1>0. InChain(c)
  BY DEF InOrder
<1>1. in_chan_size[c] = NoPkt /\ ctrl_tx.size[c] = NoPkt /\ soc_got[c] = NoPkt
  BY DEF Owned, Known, Unserved
<1>2. ~InUnsent(c)'
  BY <1>1 DEF InUnsent, InQueued
<1>3. Follows(NoPkt, [conn |-> 1, seq |-> 1])
  BY DEF Follows, NoPkt
<1>4. Follows(soc_got'[c], [conn |-> 1, seq |-> in_seq'[c] + 1])
  BY <1>1, <1>3
<1> QED BY <1>0, <1>1, <1>2, <1>4 DEF InChain, InSent

LEMMA InClient ==
    ASSUME Reliable, Owned, InOrder, [Next]_vars, Callback \/ Request, NEW c \in Chan
    PROVE  InChain(c)'
<1> USE DEF Owned, Base
<1>0. InChain(c)
  BY DEF InOrder
<1>1. UNCHANGED <<bridge_state, ctrl_tx, dma, handler, soc_pc, soc_got>> /\ InFlying(c)' = InFlying(c)
  BY ClientKeeps DEF socVars, InFlying, InFlight
<1>t. /\ in_chan_size \in [Chan -> Packet] /\ in_chan_ptr \in [Chan -> Packet]
      /\ serving \in [Chan -> 0..MaxConn] /\ in_seq \in [Chan -> 0..MaxIn]
  BY DEF TypeInv, TypeOK, BridgeTypeOK, ClientsTypeOK
<1>k. ASSUME UNCHANGED <<in_chan_size[c], in_chan_ptr[c], serving[c], in_seq[c]>>, c \in active' => c \in active
      PROVE  InChain(c)'
  BY <1>0, <1>1, <1>k DEF InChain, InSent, InUnsent, InQueued
<1>2. ASSUME NEW d \in Chan, PortOpen(d) PROVE InChain(c)'
  <2>1. UNCHANGED <<in_chan_size, in_chan_ptr>>
    BY <1>2 DEF PortOpen, bridge_start_out
  <2>2. CASE c # d
    BY <1>k, <1>t, <1>2, <2>1, <2>2 DEF PortOpen
  <2>3. CASE c = d /\ serving'[c] = 1
    <3>1. ~InFlying(c) /\ serving[c] = 0
      BY <1>2, <2>3, OpenIsFresh
    <3>2. in_seq'[c] = 0
      BY <1>t, <1>2, <2>3 DEF PortOpen
    <3> QED BY <1>1, <2>1, <3>1, <3>2, InFirst
  <2>4. CASE c = d /\ serving'[c] # 1
    BY <1>0, <2>1, <2>4 DEF InChain
  <2> QED BY <2>2, <2>3, <2>4
<1>3. ASSUME NEW d \in Chan, PortOut(d) \/ PortIn(d) PROVE InChain(c)'
  <2>1. d \in active
    BY <1>3, CompletionOfActive DEF PortOut, PortIn, NextCallback
  <2> QED BY <1>k, <1>3, <2>1 DEF PortOut, PortIn, requestVars
<1>4. CASE Callback
  BY <1>k, <1>2, <1>3, <1>4 DEF Callback, ClientCallback, PortClose, bridge_enable_chan, PipeOpenClose, PipeOut, PipeIn,
     clientVars, requestVars
<1>5. ASSUME NEW d \in Chan, StartIn(d) PROVE InChain(c)'
  <2>1. /\ in_chan_size' = [in_chan_size EXCEPT ![d] = [conn |-> serving[d], seq |-> in_seq[d] + 1]]
        /\ in_chan_ptr' = [in_chan_ptr EXCEPT ![d] = [conn |-> serving[d], seq |-> in_seq[d] + 1]]
        /\ in_seq' = [in_seq EXCEPT ![d] = @ + 1] /\ UNCHANGED <<serving, active>> /\ d \in active \ pending_in
    BY <1>5 DEF StartIn, bridge_start_in
  <2>2. CASE c # d
    BY <1>k, <1>t, <2>1, <2>2
  <2>3. CASE c = d
    <3>1. in_chan_size'[c] = in_chan_ptr'[c] /\ in_chan_ptr'[c] = [conn |-> serving[c], seq |-> in_seq[c] + 1]
          /\ in_seq'[c] = in_seq[c] + 1
      BY <1>t, <2>1, <2>3
    <3>2. ASSUME serving[c] = 1 PROVE InSent(c)'
      <4>1. ~InQueued(c) /\ ~InFlying(c)
        BY <2>1, <2>3, <3>2 DEF Places, InPlace
      <4>2. bridge_state = "CTRL" => ctrl_tx.size[c] = NoPkt
        BY <4>1 DEF Known, Sampled, InQueued
      <4>3. InUnsent(c)'
        <5>1. in_chan_size'[c] # NoPkt
          BY <3>1, <1>t, ConstantFacts, NotNoPkt
        <5> QED BY <5>1 DEF InUnsent, InQueued
      <4>4. Follows(soc_got[c], [conn |-> 1, seq |-> in_seq[c] + 1])
        BY <1>0, <2>1, <2>3, <3>2, <4>1 DEF InChain, InSent, InUnsent
      <4> QED BY <1>1, <3>1, <3>2, <4>1, <4>2, <4>3, <4>4 DEF InSent
    <3> QED BY <2>1, <3>1, <3>2 DEF InChain
  <2> QED BY <2>2, <2>3
<1>6. ASSUME PipeInit PROVE InChain(c)'
  <2>1. UNCHANGED <<in_chan_size, in_chan_ptr>>
    BY <1>6 DEF PipeInit, bridge_start_out
  <2>2. CASE c # UsbChan
    BY <1>k, <1>t, <1>6, <2>1, <2>2 DEF PipeInit
  <2>3. CASE c = UsbChan
    <3>1. ~InFlying(c) /\ serving[c] = 0
      BY <1>6, <2>3, PipeIsFresh
    <3>2. in_seq'[c] = 0
      BY <1>t, <1>6, <2>3 DEF PipeInit
    <3> QED BY <1>1, <2>1, <3>1, <3>2, InFirst
  <2> QED BY <2>2, <2>3
<1>7. CASE Request
  BY <1>k, <1>5, <1>6, <1>7, ReliableStep DEF Request, StartOut, bridge_start_out, PipeInitEnable, bridge_enable_chan
<1> QED BY <1>4, <1>7

LEMMA InStep ==
    ASSUME Reliable, Owned, InOrder, [Next]_vars
    PROVE  InOrder'
<1> USE DEF Owned, Base
<1> SUFFICES ASSUME NEW c \in Chan PROVE InChain(c)'
  BY DEF InOrder
<1>0. InChain(c)
  BY DEF InOrder
<1>k. ASSUME UNCHANGED <<requestVars, clientVars, ctrl_tx, bridge_state, dma, handler, soc_got>>,
             InFlying(c) => (soc_pc' = "data" <=> soc_pc = "data")
      PROVE  InChain(c)'
  BY <1>0, <1>k DEF InChain, InSent, InUnsent, InQueued, InFlying, InFlight, requestVars, clientVars
<1>1. CASE PollEvent \/ PollTimeout
  <2>1. SpidPoll /\ UNCHANGED <<mcuVars, clientVars>>
    BY <1>1, ReliableStep
  <2> QED BY <1>k, <2>1 DEF SpidPoll, Serve, mcuVars, handlerVars, requestVars
<1>2. CASE Header
  <2>1. ~InFlying(c)
    BY <1>2, FlyingWhen DEF Header, SpidHeader, HeaderExchange
  <2> QED BY <1>k, <1>2, <2>1 DEF Header, SpidHeader, HeaderExchange, CtrlDma, handlerVars
<1>3. CASE Environment \/ UNCHANGED vars
  BY <1>k, <1>3 DEF Environment, Peer, PeerConnect, PeerWrite, PeerRead, PeerClose, vars, mcuVars, handlerVars,
     requestVars, socVars
<1> QED BY <1>1, <1>2, <1>3, InDataStep, InInterrupt, InClient, ReliableStep DEF Next

\* What the daemon writes to a socket on its first connection is the packet the client
\* sent after the one written before.
LEMMA WrittenIsSent ==
    ASSUME Reliable, Owned, InOrder, [Next]_vars, NEW c \in Chan, Written(c), channels_opened[c] = 1
    PROVE  Follows(soc_got[c], soc_got'[c])
<1> USE FlagsOf DEF Owned, Base
<1>1. Data
  <2>1. soc_pc = "data" /\ soc_pc' = "poll"
    BY DEF Written
  <2>2. ~(Interrupt \/ Environment \/ UNCHANGED vars)
    BY <2>1 DEF Interrupt, Environment, Peer, PeerConnect, PeerWrite, PeerRead, PeerClose, vars, socVars
  <2>3. ~(Callback \/ Request)
    BY <2>1, ClientKeeps DEF socVars
  <2>4. ~(PollEvent \/ PollTimeout \/ Header)
    BY <2>1 DEF PollEvent, PollTimeout, SpidPoll, Header, SpidHeader, HeaderExchange
  <2> QED BY <2>2, <2>3, <2>4, ReliableStep DEF Next
<1>2. soc_pc = "data" /\ ~sync_evd
  BY <1>1 DEF Data, SpidData
<1>3. SocTransfer = dma /\ SocIn = McuIn
  <2>1. SocTransfer = dma
    BY <1>2, PlansFollow DEF PlansAgree, Quiet
  <2> QED BY <1>2, <2>1 DEF PlanInv, Quiet, SocIn, McuIn
<1>4. c \in McuIn
  BY <1>3 DEF Written
<1>5. InFlying(c) /\ handler = "idle"
  BY <1>2, <1>4, FlyingWhen
<1>6. c \in active /\ serving[c] = 1
  <2>1. CASE c = UsbChan
    <3>1. ctrl_tx.size[c] # NoPkt
      BY <1>4 DEF McuIn
    <3>2. serving[c] # 0
      BY <3>1 DEF Known, Unserved
    <3> QED BY <2>1, <3>2 DEF Known
  <2>2. CASE c \in PortChan
    <3>1. c \in was_open
      BY <1>4, <2>2 DEF McuIn, Known, Seen
    <3>2. c \in active
      BY <1>5, <2>2, <3>1 DEF OpenInv
    <3> QED BY <2>2, <3>2 DEF Known, Serves
  <2> QED BY <2>1, <2>2 DEF PortChan
<1>7. InSent(c)
  BY <1>6 DEF InOrder, InChain
<1>8. InUnsent(c)
  BY <1>2, <1>5 DEF InUnsent
<1>9. InData(c) = in_chan_ptr[c] /\ in_chan_ptr[c] = [conn |-> 1, seq |-> in_seq[c]] /\ Follows(soc_got[c], in_chan_ptr[c])
  BY <1>5, <1>7, <1>8 DEF InSent, InData
<1>10. InData(c) # Garbage
  <2>1. InData(c).conn # Garbage.conn
    BY <1>9 DEF Garbage
  <2> QED BY <2>1
<1>11. soc_got'[c] = InData(c)
  BY <1>1, <1>3, <1>4, <1>10 DEF Data, SpidData, LastIntact
<1> QED BY <1>9, <1>11

\* The first process at a socket receives what the MCU's client sent: every packet, once,
\* in the order it was sent.
THEOREM InOrdered == Reliable => (Spec => InInOrder)
<1> SUFFICES ASSUME Reliable PROVE Spec => InInOrder
  OBVIOUS
<1> DEFINE Inv == Owned /\ InOrder
<1>1. Init => Inv
  BY OwnedInit, InOrderInit
<1>2. Inv /\ [Next]_vars => Inv'
  BY OwnedStep, InStep
<1>3. Inv /\ [Next]_vars => [\A c \in Chan : Written(c) /\ channels_opened[c] = 1 => Follows(soc_got[c], soc_got'[c])]_vars
  BY WrittenIsSent
<1> QED BY <1>1, <1>2, <1>3, PTL DEF Spec, InInOrder

===========================================================================
