---------------------------- MODULE BridgeLink ----------------------------
(***************************************************************************)
(* The bridge end to end: the MCU (Bridge, BridgeClients) and the SPI      *)
(* daemon (Spid) joined by the SYNC and IRQ lines and the SPI transfers.   *)
(***************************************************************************)
EXTENDS BridgeClients, Spid

vars == <<wireVars, mcuVars, clientVars, socVars>>

TypeOK == WireTypeOK /\ BridgeTypeOK /\ ClientsTypeOK /\ SpidTypeOK

Init ==
    /\ WireInit
    /\ BridgeInit
    /\ ClientsInit
    /\ SpidInit

---------------------------------------------------------------------------
(* Steps of the SoC.  A poll without events is a timeout.                  *)

CompletionPending == handler # "idle" \/ (tcmpl /\ inten)

PollEvent ==
    /\ PollReady
    /\ CompletionPending => "slow_mcu" \in Faults
    /\ SpidPoll
    /\ UNCHANGED <<mcuVars, clientVars>>

\* Mutant: the daemon goes back to poll after a timeout.
PollTimeout_idle == ~PollReady /\ soc_pc = "poll" /\ UNCHANGED vars
PollTimeout ==
    /\ ~PollReady
    /\ CompletionPending => "slow_mcu" \in Faults
    /\ SpidPoll
    /\ UNCHANGED <<mcuVars, clientVars>>

\* A good header at the SoC, and at the MCU unless it was corrupted there.
Header ==
    /\ SpidHeader(ctrl_tx)
    /\ \E intact \in {TRUE, "mcu_header" \notin Faults} : CtrlDma(intact, TxHeader)
    /\ UNCHANGED clientVars

\* A corrupted header at the SoC; the MCU's may have suffered too.
BadHeader ==
    /\ "soc_header" \in Faults
    /\ SpidBadHeader
    /\ \E intact \in BOOLEAN : CtrlDma(intact, TxHeader)
    /\ UNCHANGED clientVars

\* When both sides set up the same transfer every byte lands where it belongs.  When
\* they do not, what is clocked lands in the wrong buffers and the MCU's DMA chain may
\* or may not reach its end; nothing happens to it when nothing is clocked.
Data ==
    LET agree == SocTransfer = dma
        clocked == dma # {} /\ SocTransfer # {}
    IN /\ SpidData([c \in Chan |-> IF agree THEN InData(c) ELSE Garbage])
       /\ \E done \in {clocked, clocked /\ agree} :
              DataDma(done, [c \in Chan |-> IF agree THEN out_buf[c]
                                            ELSE IF clocked THEN Garbage
                                            ELSE out_chan_ptr[c]])
       /\ UNCHANGED clientVars

Peer(c) ==
    \/ PeerConnect(c)
    \/ PeerWrite(c)
    \/ PeerRead(c)
    \/ PeerClose(c)

---------------------------------------------------------------------------
(* Steps of the MCU, none after an invalid().                              *)

Interrupt ==
    /\ ~halted
    /\ SyncInterrupt \/ (~starting /\ CompletionInterrupt)
    /\ UNCHANGED <<clientVars, socVars>>

Callback ==
    /\ ~halted
    /\ \/ \E c \in Chan : ClientCallback(c)
       \/ \E k \in {OpenCb, CloseCb} : PipeOpenClose(k)
       \/ PipeOut
       \/ PipeIn
    /\ UNCHANGED socVars

Request ==
    /\ ~halted
    /\ \/ \E c \in Chan : StartOut(c) \/ StartIn(c) \/ PortError(c)
       \/ PipeInit
       \/ PipeInitEnable
       \/ PipeDisable
    /\ UNCHANGED socVars

Environment == (\E c \in Chan : Peer(c)) /\ UNCHANGED <<wireVars, mcuVars, clientVars>>

Next ==
    \/ PollEvent \/ PollTimeout \/ Header \/ BadHeader \/ Data
    \/ Interrupt \/ Callback \/ Request \/ Environment

Spec == Init /\ [][Next]_vars

\* The daemon's loop, the MCU's interrupts, and the peers reading their sockets do not
\* stop; what the clients ask for and when the peers connect, write or close is free.
Fairness ==
    /\ WF_vars(PollEvent)
    /\ WF_vars(PollTimeout)
    /\ WF_vars(Header)
    /\ WF_vars(Data)
    /\ WF_vars(Interrupt)
    /\ WF_vars(Callback)
    /\ WF_vars(~halted /\ PipeInitEnable /\ UNCHANGED socVars)
    /\ \A c \in Chan : WF_vars(PeerRead(c) /\ UNCHANGED <<wireVars, mcuVars, clientVars>>)

FairSpec == Spec /\ Fairness

---------------------------------------------------------------------------
(* Properties.                                                             *)

\* From the headers they exchanged, if both arrived, the two sides compute the same data
\* transfer (bridge.c:117-136 against spid.c:513-547).  There is no framing: any
\* difference puts bytes of one channel into the buffers of another.
PlansAgree == soc_pc = "data" /\ ~sync_evd /\ ctrl_rx.ok => SocTransfer = dma


\* Where the buffer of a channel direction can be once its client gave it away: waiting
\* for the SoC, in the transfer set up at SYNC high, or due back by a callback.
InFlight(c, dir) == <<c, dir>> \in dma /\ bridge_state = "DATA" /\ handler = "idle"

\* A buffer the client has given to the bridge is in exactly one place, and no other is:
\* no completion is lost (the channel would be stuck for good) and none comes for a
\* buffer that is queued again (bridge.c:120-136, 164-205).  Of the IN buffers this is
\* said until the channel is opened again: port_enable forgets the reply that is still
\* queued for the connection before (see InToItsConnection).
BufferOwned ==
    \A c \in active \cap out_chan_enabled :
        LET inAt == {i \in 1..3 : \/ i = 1 /\ in_chan_size[c] # NoPkt
                                  \/ i = 2 /\ InFlight(c, "in")
                                  \/ i = 3 /\ <<InCb, c>> \in todo}
            outAt == {i \in 1..3 : \/ i = 1 /\ c \in out_chan_ready
                                   \/ i = 2 /\ InFlight(c, "out")
                                   \/ i = 3 /\ <<OutCb, c>> \in todo}
        IN /\ serving[c] <= 1 => Cardinality(inAt) = (IF c \in pending_in THEN 1 ELSE 0)
           /\ Cardinality(outAt) = (IF c \in pending_out THEN 1 ELSE 0)

\* Outside the completion handler the ports that are on are the channels it last saw
\* open: no open or close was missed or reported twice (bridge.c:164-217).
PortsFollowOpen == handler = "idle" => active \cap PortChan = was_open \cap PortChan

\* A step in which the completion handler tells channel c's client of a received packet,
\* and one in which the daemon writes a packet to c's socket.
Received(c) == <<OutCb, c>> \in todo /\ <<OutCb, c>> \notin todo' /\ ~halted'
Written(c) == soc_pc = "data" /\ soc_pc' = "poll" /\ c \in SocIn

\* q is the packet after p: the next of its connection, or the first of a later one.
Follows(p, q) ==
    \/ q.conn = p.conn /\ q.seq = p.seq + 1
    \/ q.conn > p.conn /\ q.seq = 1

\* The MCU receives the packets read from a socket intact, once each, in order and
\* without a gap (spid.c:427-449, 549-571; bridge.c:117-136, 183-189).
OutInOrder == [][\A c \in Chan : Received(c) => Follows(mcu_got[c], mcu_got'[c])]_vars

\* The first process at the socket receives the MCU's packets intact, once each, in order
\* and without a gap (bridge.c:126-136, 222-228; spid.c:571-580).  Later ones may receive
\* what the port left queued for the one before (see InToItsConnection).
InInOrder ==
    [][\A c \in Chan : Written(c) /\ channels_opened[c] = 1 => Follows(soc_got[c], soc_got'[c])]_vars

Later(p, q) == q.conn > p.conn \/ (q.conn = p.conn /\ q.seq > p.seq)


\* A port receives a packet only while it serves the connection the packet was read
\* from: close_channel_connection drops what a closed connection left (spid.c:169-186).
OutToItsConnection ==
    [][\A c \in PortChan : Received(c) => mcu_got'[c].conn = serving[c]]_vars

\* A connection receives only replies to its own commands: nothing a port had queued for
\* the connection before it (port.c:119-131, "Resets all port state").
InToItsConnection ==
    [][\A c \in PortChan : Written(c) => soc_got'[c].conn = channels_opened[c]]_vars

\* The daemon never sleeps on a request: when it is in poll with nothing to report, the
\* MCU has nothing it could transfer (README.md:49, IRQ is driven high when the MCU has
\* data to send or has become ready to receive).
NoSleepingRequest ==
    soc_pc = "poll" /\ ~sync_evd /\ ~PollReady /\ ~CompletionPending =>
        \A c \in Chan :
            /\ c \in channels_writable => in_chan_size[c] = NoPkt
            /\ out_buf[c] # NoPkt => c \notin out_chan_ready

\* pipe_bridge_out_completion is only called for a buffer the pipe waits for; otherwise
\* it stops the MCU with invalid() (usbpipe.c:104-111).
NeverInvalid == ~halted

\* A packet queued by bridge_start_in leaves, unless its connection closes first: the
\* 5 s timeout of poll makes up for a missed IRQ edge (spid.c:368).
InDelivered ==
    \A c \in Chan : in_chan_size[c] # NoPkt ~> in_chan_size[c] = NoPkt \/ c \notin Open

\* A port learns of every connection that is not closed meanwhile, also when there is no
\* data to transfer (bridge.c:142-152, 175-181).
OpenSeen ==
    \A c \in PortChan : \A n \in 1..MaxConn :
        channels_opened[c] = n ~> serving[c] = n \/ channels_opened[c] # n

\* After port_error the channel comes back: the daemon closes the connection
\* (spid.c:255-271), the MCU sees it closed, resets the port and enables the channel
\* again (bridge.c:207-210, port.c:142-163).
ErrorRecovers == \A c \in PortChan : c \notin out_chan_enabled ~> c \in out_chan_enabled
===========================================================================
