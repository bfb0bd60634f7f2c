------------------------------- MODULE Spid -------------------------------
(***************************************************************************)
(* The SoC end of the bridge: the loop of the SPI daemon, soc/spid.c, and  *)
(* the processes at the other end of its Unix sockets.                     *)
(*                                                                         *)
(* One turn of the loop is three steps, between which the MCU's SYNC       *)
(* interrupt runs (that is what the delay() calls wait for):               *)
(*   SpidPoll     poll returns; SYNC low; accept, read, close; the header; *)
(*   SpidHeader   the header is exchanged; SYNC high; open/close requests; *)
(*   SpidData     the data transfer; writes to the sockets.                *)
(***************************************************************************)
EXTENDS BridgeWire

CONSTANT MaxRetries    \* bad headers in a row before the daemon exits (15)
ASSUME RetryAssumption == MaxRetries \in Nat

VARIABLES
    soc_pc,             \* "poll", "header", "data" or "fatal"
    channels_enabled,
    channels_opened,    \* per channel, the connection of CONN_POLL(n).fd, or 0
    channels_writable,
    out_buf,            \* per channel, the packet of out_length bytes, or NoPkt
    listening,          \* channels with POLLIN in SOCK_POLL(n).events
    poll_in,            \* channels with POLLIN in CONN_POLL(n).events
    poll_out,           \* channels with POLLOUT in CONN_POLL(n).events
    rx_buf,             \* the MCU's header, [enabled, ready, size]
    retries,
    peer,               \* the process at the socket: none, connecting, connected, closed
    conns,              \* number of connections made so far
    avail,              \* channels whose peer has written what spid has not read
    room,               \* channels whose peer can take another write
    out_seq,            \* packets read from the current connection
    soc_got             \* last intact packet written to the peer

spidState == <<channels_enabled, channels_opened, channels_writable, out_buf,
               listening, poll_in, poll_out, out_seq>>
peerVars == <<peer, conns, avail, room>>
socVars == <<soc_pc, rx_buf, retries, spidState, peerVars, soc_got>>

NoHeader == [enabled |-> {}, ready |-> {}, size |-> [c \in Chan |-> NoPkt]]

SpidTypeOK ==
    /\ soc_pc \in {"poll", "header", "data", "fatal"}
    /\ channels_enabled \in SUBSET Chan
    /\ channels_opened \in [Chan -> 0..MaxConn]
    /\ channels_writable \in SUBSET Chan
    /\ out_buf \in [Chan -> Packet]
    /\ listening \in SUBSET Chan
    /\ poll_in \in SUBSET Chan
    /\ poll_out \in SUBSET Chan
    /\ rx_buf \in [enabled : SUBSET Chan, ready : SUBSET Chan, size : [Chan -> Packet]]
    /\ retries \in 0..MaxRetries
    /\ peer \in [Chan -> {"none", "connecting", "connected", "closed"}]
    /\ conns \in [Chan -> 0..MaxConn]
    /\ avail \in SUBSET Chan
    /\ room \in SUBSET Chan
    /\ out_seq \in [Chan -> 0..MaxOut]
    /\ soc_got \in [Chan -> Packet]

SpidInit ==
    /\ soc_pc = "poll"
    /\ channels_enabled = {}
    /\ channels_opened = [c \in Chan |-> 0]
    /\ channels_writable = {}
    /\ out_buf = [c \in Chan |-> NoPkt]
    /\ listening = {}
    /\ poll_in = {}
    /\ poll_out = {}
    /\ rx_buf = NoHeader
    /\ retries = 0
    /\ peer = [c \in Chan |-> "none"]
    /\ conns = [c \in Chan |-> 0]
    /\ avail = {}
    /\ room = {}
    /\ out_seq = [c \in Chan |-> 0]
    /\ soc_got = [c \in Chan |-> NoPkt]

Open == {c \in Chan : channels_opened[c] # 0}

---------------------------------------------------------------------------
(* The processes at the sockets (external): Node on the ports' sockets,    *)
(* the USB daemon on the other.                                            *)

\* A process connects to the listening socket of a port.
PeerConnect(c) ==
    /\ c \in PortChan
    /\ peer[c] = "none"
    /\ conns[c] < MaxConn
    /\ peer' = [peer EXCEPT ![c] = "connecting"]
    /\ conns' = [conns EXCEPT ![c] = @ + 1]
    /\ UNCHANGED <<soc_pc, rx_buf, retries, spidState, avail, room, soc_got>>

PeerWrite(c) ==
    /\ peer[c] = "connected"
    /\ c \notin avail
    /\ out_seq[c] < MaxOut
    /\ avail' = avail \cup {c}
    /\ UNCHANGED <<soc_pc, rx_buf, retries, spidState, peer, conns, room, soc_got>>

\* It reads what spid wrote, so that the socket is writable again.
PeerRead(c) ==
    /\ peer[c] = "connected"
    /\ c \notin room
    /\ room' = room \cup {c}
    /\ UNCHANGED <<soc_pc, rx_buf, retries, spidState, peer, conns, avail, soc_got>>

\* The USB daemon has no other reason to close its socket than that it exits.
PeerClose(c) ==
    /\ c = UsbChan => "usbd_exit" \in Faults
    /\ peer[c] = "connected"
    /\ peer' = [peer EXCEPT ![c] = "closed"]
    /\ UNCHANGED <<soc_pc, rx_buf, retries, spidState, conns, avail, room, soc_got>>

---------------------------------------------------------------------------
(* poll() and what the loop does with its results.                         *)

Accepted == {c \in listening : peer[c] = "connecting"}
HungUp == {c \in Open : peer[c] = "closed"}
Readable == {c \in poll_in \cap Open : c \in avail}
Writable == {c \in poll_out \cap Open : c \in room} \ HungUp

\* poll has something to report; otherwise it returns after its 5 s timeout.
PollReady == irq_edge \/ Accepted # {} \/ HungUp # {} \/ Readable # {} \/ Writable # {}

\* The packets to send after the reads of this turn; a hang-up drops what was read from
\* the connection.
\* Mutant: close_channel_connection leaves out_length alone.
OutAfterPoll_keeps_closed ==
    [c \in Chan |-> IF c \in Readable
                    THEN [conn |-> channels_opened[c], seq |-> out_seq[c] + 1]
                    ELSE out_buf[c]]
OutAfterPoll ==
    [c \in Chan |-> IF c \in HungUp THEN NoPkt
                    ELSE IF c \in Readable
                         THEN [conn |-> channels_opened[c], seq |-> out_seq[c] + 1]
                    ELSE out_buf[c]]

\* New connections are accepted, data is read, hung-up connections are closed.
Serve ==
    /\ channels_opened' = [c \in Chan |-> IF c \in HungUp THEN 0
                                          ELSE IF c \in Accepted THEN conns[c]
                                          ELSE channels_opened[c]]
    /\ out_buf' = OutAfterPoll
    /\ out_seq' = [c \in Chan |-> IF c \in HungUp THEN 0
                                  ELSE IF c \in Readable THEN out_seq[c] + 1
                                  ELSE out_seq[c]]
    /\ channels_writable' = (channels_writable \cup Writable) \ HungUp
    /\ listening' = (listening \ Accepted) \cup (HungUp \cap channels_enabled \cap PortChan)
    /\ poll_in' = (poll_in \ Readable) \cup Accepted
    /\ poll_out' = (poll_out \ Writable) \cup Accepted
    /\ peer' = [c \in Chan |-> IF c \in HungUp THEN "none"
                               ELSE IF c \in Accepted THEN "connected"
                               ELSE peer[c]]
    /\ avail' = avail \ (HungUp \cup Readable)
    /\ room' = (room \ HungUp) \cup Accepted
    /\ UNCHANGED <<channels_enabled, conns, rx_buf, retries, soc_got>>

SpidPoll ==
    /\ soc_pc = "poll"
    /\ irq_edge' = FALSE
    /\ DriveSync(FALSE)
    /\ Serve
    /\ soc_pc' = "header"
    /\ UNCHANGED irq

---------------------------------------------------------------------------
(* The header.                                                             *)

\* tx_buf: magic number, open and writable bits, lengths.
TxHeader == [ok |-> TRUE, open |-> channels_opened, writable |-> channels_writable,
             size |-> out_buf]

\* manage_channel_active_status: the MCU's enable bits against the last ones seen.
\* Enabling the USB channel connects to the USB daemon; enabling a port listens.
manage_channel_active_status(header) ==
    LET enable == header.enabled \ channels_enabled
        disable == channels_enabled \ header.enabled
        connect == enable \cap {UsbChan}
    IN /\ channels_enabled' = header.enabled
       /\ conns' = [c \in Chan |-> IF c \in connect THEN conns[c] + 1 ELSE conns[c]]
       /\ channels_opened' = [c \in Chan |-> IF c \in disable THEN 0
                                             ELSE IF c \in connect THEN conns[c] + 1
                                             ELSE channels_opened[c]]
       /\ peer' = [c \in Chan |-> IF c \in disable /\ peer[c] # "connecting" THEN "none"
                                  ELSE IF c \in connect THEN "connected"
                                  ELSE peer[c]]
       /\ out_buf' = [c \in Chan |-> IF c \in disable THEN NoPkt ELSE out_buf[c]]
       /\ out_seq' = [c \in Chan |-> IF c \in disable THEN 0 ELSE out_seq[c]]
       /\ channels_writable' = channels_writable \ disable
       /\ listening' = (listening \cup (enable \ connect)) \ disable
       /\ poll_in' = (poll_in \cup connect) \ (disable \cap {UsbChan})
       /\ poll_out' = (poll_out \cup connect) \ (disable \cap {UsbChan})
       /\ avail' = avail \ disable
       /\ room' = (room \cup connect) \ disable

\* The SPI exchange of headers, after the delay() that lets the MCU prepare its own.
HeaderExchange ==
    /\ soc_pc = "header"
    /\ ~sync_evd
    /\ DriveSync(TRUE)
    /\ UNCHANGED <<irq, irq_edge, soc_got>>

SpidHeader(header) ==
    /\ HeaderExchange
    /\ \A c \in (header.enabled \ channels_enabled) \cap {UsbChan} : conns[c] < MaxConn
    /\ manage_channel_active_status(header)
    /\ rx_buf' = header
    /\ retries' = 0
    /\ soc_pc' = "data"

\* Too many bad headers in a row.
\* Mutant: the limit is tested too late.
TooManyRetries_late == retries > MaxRetries
TooManyRetries == retries = MaxRetries

\* A reply without the magic number: start over, or exit after too many.
SpidBadHeader ==
    /\ HeaderExchange
    /\ IF TooManyRetries
       THEN soc_pc' = "fatal" /\ UNCHANGED retries
       ELSE soc_pc' = "poll" /\ retries' = retries + 1
    /\ UNCHANGED <<rx_buf, spidState, peerVars>>

---------------------------------------------------------------------------
(* The data transfer, after the delay() that lets the MCU set its DMA up.  *)

\* The channel directions to transfer, as the daemon computes them.
SocOut == {c \in Chan : c \in rx_buf.ready /\ out_buf[c] # NoPkt}
SocIn == {c \in Chan : c \in channels_writable /\ rx_buf.size[c] # NoPkt}
SocTransfer == (SocOut \X {"out"}) \cup (SocIn \X {"in"})

\* Packets that were sent leave their buffers.
\* Mutant: out_length is not reset.
Unsent_all == out_buf
Unsent == [c \in Chan |-> IF c \in SocOut THEN NoPkt ELSE out_buf[c]]

\* The transfer, and the writes to the sockets; data[c] is what came in on channel c.
SpidData(data) ==
    /\ soc_pc = "data"
    /\ ~sync_evd
    /\ out_buf' = Unsent
    /\ poll_in' = poll_in \cup SocOut
    /\ poll_out' = poll_out \cup SocIn
    /\ channels_writable' = channels_writable \ SocIn
    /\ room' = room \ SocIn
    /\ soc_got' = [c \in Chan |-> IF c \in SocIn THEN LastIntact(soc_got[c], data[c])
                                  ELSE soc_got[c]]
    /\ rx_buf' = NoHeader
    /\ soc_pc' = "poll"
    /\ UNCHANGED <<wireVars, channels_enabled, channels_opened, listening, out_seq,
                   retries, peer, conns, avail>>
===========================================================================
