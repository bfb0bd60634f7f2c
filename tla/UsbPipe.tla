------------------------------ MODULE UsbPipe ------------------------------
(***************************************************************************)
(* The USB pipe, firmware/usbpipe.c: packets from the PC go through a ring *)
(* of buffers to channel 0 of the bridge, data from the bridge goes        *)
(* through one buffer to the PC.                                           *)
(*                                                                         *)
(* Every action is a whole interrupt handler: USB and DMA completions have *)
(* the same priority.  The USB endpoints and the bridge are external; they *)
(* appear as the buffers they hold.  A packet is its number in the order   *)
(* the PC sent it, and its length.                                         *)
(***************************************************************************)
EXTENDS Naturals

CONSTANTS
    OUT_RING_SIZE,    \* 10
    PACKET_SIZE,      \* 64
    PacketLens,       \* lengths of the packets the PC sends
    MaxPackets        \* bound: packets the PC sends

ASSUME RingAssumption ==
    /\ OUT_RING_SIZE \in 1..254
    /\ PACKET_SIZE \in 1..255
    /\ PacketLens \subseteq 0..PACKET_SIZE
    /\ MaxPackets \in Nat

VARIABLES
    out_ring_count,
    out_ring_write_pos,
    out_ring_read_pos,
    out_ring_short_packet,
    out_usb_pending,
    out_bridge_pending,
    pipe_state_soc_to_pc,
    out_ring_buf,    \* per slot, the packet received into it: [id, len]
    bridge_in,       \* the IN request queued at the bridge: [pos, len], len 0 if none
    in_transfer,     \* the IN request in a data phase, likewise
    bridge_out,      \* an OUT request for pipe_buffer_soc_to_pc is queued
    out_transfer,    \* the OUT request is in a data phase
    usb_in,          \* the IN endpoint is sending pipe_buffer_soc_to_pc
    received,        \* packets received from the PC since usbpipe_init
    forwarded,       \* [id, len] of the last packet the SoC got, len as sent
    halted,          \* invalid() was executed
    in_cut,          \* history: when last disabled, an IN transfer was under way
    out_cut          \* history: when last disabled, an OUT transfer was under way

ringVars == <<out_ring_count, out_ring_write_pos, out_ring_read_pos,
              out_ring_short_packet, out_usb_pending, out_bridge_pending,
              out_ring_buf, bridge_in, in_transfer, received, forwarded, in_cut>>
inVars == <<pipe_state_soc_to_pc, bridge_out, out_transfer, usb_in, halted, out_cut>>
vars == <<ringVars, inVars>>

Slot == 0..(OUT_RING_SIZE - 1)
Pkt == [id : 0..MaxPackets, len : 0..PACKET_SIZE]
Request == [pos : Slot, len : 0..PACKET_SIZE]
NoRequest == [pos |-> 0, len |-> 0]
NoPacket == [id |-> 0, len |-> 0]

\* u8 arithmetic: out_ring_count -= 1 wraps.
Dec8(n) == (n + 255) % 256
Succ(pos) == (pos + 1) % OUT_RING_SIZE

TypeOK ==
    /\ out_ring_count \in 0..255
    /\ out_ring_write_pos \in Slot
    /\ out_ring_read_pos \in Slot
    /\ out_ring_short_packet \in 0..(PACKET_SIZE - 1)
    /\ out_usb_pending \in BOOLEAN
    /\ out_bridge_pending \in BOOLEAN
    /\ pipe_state_soc_to_pc \in {"DISABLE", "WAIT_FOR_USB", "WAIT_FOR_BRIDGE"}
    /\ out_ring_buf \in [Slot -> Pkt]
    /\ bridge_in \in Request
    /\ in_transfer \in Request
    /\ bridge_out \in BOOLEAN
    /\ out_transfer \in BOOLEAN
    /\ usb_in \in BOOLEAN
    /\ received \in 0..MaxPackets
    /\ forwarded \in Pkt
    /\ halted \in BOOLEAN
    /\ in_cut \in BOOLEAN
    /\ out_cut \in BOOLEAN

Queued == bridge_in.len > 0
InTransfer == in_transfer.len > 0

Enabled == pipe_state_soc_to_pc # "DISABLE"

Init ==
    /\ out_ring_count = 0
    /\ out_ring_write_pos = 0
    /\ out_ring_read_pos = 0
    /\ out_ring_short_packet = 0
    /\ out_usb_pending = FALSE
    /\ out_bridge_pending = FALSE
    /\ pipe_state_soc_to_pc = "DISABLE"
    /\ out_ring_buf = [s \in Slot |-> NoPacket]
    /\ bridge_in = NoRequest
    /\ in_transfer = NoRequest
    /\ bridge_out = FALSE
    /\ out_transfer = FALSE
    /\ usb_in = FALSE
    /\ received = 0
    /\ forwarded = NoPacket
    /\ halted = FALSE
    /\ in_cut = FALSE
    /\ out_cut = FALSE

---------------------------------------------------------------------------

\* The pipe's alternate setting is selected; usb_cb_set_interface disables the pipe
\* first if it was enabled.  A session of packets begins.
usbpipe_init ==
    /\ ~Enabled
    /\ out_usb_pending' = TRUE
    /\ out_bridge_pending' = FALSE
    /\ bridge_out' = TRUE
    /\ pipe_state_soc_to_pc' = "WAIT_FOR_BRIDGE"
    /\ received' = 0
    /\ forwarded' = NoPacket
    /\ UNCHANGED <<out_ring_count, out_ring_write_pos, out_ring_read_pos,
                   out_ring_short_packet, out_ring_buf, bridge_in, in_transfer, out_transfer,
                   usb_in, halted, in_cut, out_cut>>

\* The resets of usbpipe_disable.
\* Mutants: one variable is forgotten.
ResetRing_keeps_read ==
    /\ out_ring_count' = 0
    /\ out_ring_write_pos' = 0
    /\ out_ring_short_packet' = 0
    /\ UNCHANGED out_ring_read_pos
ResetRing_keeps_short ==
    /\ out_ring_count' = 0
    /\ out_ring_write_pos' = 0
    /\ out_ring_read_pos' = 0
    /\ UNCHANGED out_ring_short_packet
ResetRing ==
    /\ out_ring_count' = 0
    /\ out_ring_write_pos' = 0
    /\ out_ring_read_pos' = 0
    /\ out_ring_short_packet' = 0

\* Another alternate setting is selected: the USB endpoints are disabled, and
\* bridge_disable_chan withdraws the requests the bridge has not begun to serve.  Those it
\* has begun to serve complete later: usb_cb_set_interface does not wait for them.
usbpipe_disable ==
    /\ Enabled
    /\ usb_in' = FALSE
    /\ ResetRing
    /\ pipe_state_soc_to_pc' = "DISABLE"
    /\ bridge_in' = NoRequest
    /\ bridge_out' = FALSE
    /\ in_cut' = InTransfer
    /\ out_cut' = out_transfer
    /\ UNCHANGED <<out_usb_pending, out_bridge_pending, out_ring_buf, in_transfer,
                   out_transfer, received, forwarded, halted>>

\* When the endpoint may be armed.
\* Mutants: a full ring, a waiting short packet do not prevent it.
MayReceive_full(count, short) == count <= OUT_RING_SIZE /\ short = 0
MayReceive_after_short(count, short) == count < OUT_RING_SIZE
MayReceive(count, short) == count < OUT_RING_SIZE /\ short = 0

\* out_ring_step, with the values its caller has just assigned: receive into a free
\* slot unless a short packet still waits, and send the oldest packet.
out_ring_step(count, read_pos, short, usb_pending, bridge_pending) ==
    LET receive == ~usb_pending /\ MayReceive(count, short)
        send == ~bridge_pending /\ count > 0
        last == count = 1 /\ short # 0
    IN /\ out_usb_pending' = (usb_pending \/ receive)
       /\ out_bridge_pending' = (bridge_pending \/ send)
       /\ out_ring_short_packet' = IF send /\ last THEN 0 ELSE short
       /\ bridge_in' = IF send
                       THEN [pos |-> read_pos,
                             len |-> IF last THEN short ELSE PACKET_SIZE]
                       ELSE bridge_in

\* A packet of len bytes arrived in the slot at out_ring_write_pos.
pipe_usb_out_completion(len) ==
    /\ Enabled /\ out_usb_pending
    /\ received < MaxPackets
    /\ received' = received + 1
    /\ out_ring_buf' = [out_ring_buf EXCEPT ![out_ring_write_pos] =
                            [id |-> received + 1, len |-> len]]
    /\ out_ring_write_pos' = Succ(out_ring_write_pos)
    /\ out_ring_count' = (out_ring_count + 1) % 256
    /\ out_ring_step((out_ring_count + 1) % 256, out_ring_read_pos,
                     IF len < PACKET_SIZE THEN len ELSE out_ring_short_packet,
                     FALSE, out_bridge_pending)
    /\ UNCHANGED <<out_ring_read_pos, in_transfer, forwarded, in_cut, inVars>>

\* The bridge sent the packet; what arrived at the SoC is the slot of the request, cut
\* or padded to its length.
\* Mutant: out_bridge_pending is not reset.
pipe_bridge_in_completion_pending ==
    /\ InTransfer
    /\ in_transfer' = NoRequest
    /\ forwarded' = [id |-> out_ring_buf[in_transfer.pos].id, len |-> in_transfer.len]
    /\ out_ring_read_pos' = Succ(out_ring_read_pos)
    /\ out_ring_count' = Dec8(out_ring_count)
    /\ out_ring_step(Dec8(out_ring_count), Succ(out_ring_read_pos),
                     out_ring_short_packet, out_usb_pending, out_bridge_pending)
    /\ UNCHANGED <<out_ring_write_pos, out_ring_buf, received, in_cut, inVars>>
pipe_bridge_in_completion ==
    /\ InTransfer
    /\ in_transfer' = NoRequest
    /\ forwarded' = [id |-> out_ring_buf[in_transfer.pos].id, len |-> in_transfer.len]
    /\ out_ring_read_pos' = Succ(out_ring_read_pos)
    /\ out_ring_count' = Dec8(out_ring_count)
    /\ out_ring_step(Dec8(out_ring_count), Succ(out_ring_read_pos),
                     out_ring_short_packet, out_usb_pending, FALSE)
    /\ UNCHANGED <<out_ring_write_pos, out_ring_buf, received, in_cut, inVars>>

\* Data from the SoC is in the buffer; send it to the PC.
pipe_bridge_out_completion ==
    /\ out_transfer
    /\ out_transfer' = FALSE
    /\ IF pipe_state_soc_to_pc = "WAIT_FOR_BRIDGE"
       THEN /\ usb_in' = TRUE
            /\ pipe_state_soc_to_pc' = "WAIT_FOR_USB"
            /\ UNCHANGED halted
       ELSE halted' = TRUE /\ UNCHANGED <<usb_in, pipe_state_soc_to_pc>>
    /\ UNCHANGED <<ringVars, bridge_out, out_cut>>

\* The PC has the data; wait for more from the bridge.
\* Mutants: the buffer is not handed to the bridge; the state is not changed.
Rearm_no_start == UNCHANGED bridge_out /\ pipe_state_soc_to_pc' = "WAIT_FOR_BRIDGE"
Rearm_no_state == bridge_out' = TRUE /\ UNCHANGED pipe_state_soc_to_pc
Rearm == bridge_out' = TRUE /\ pipe_state_soc_to_pc' = "WAIT_FOR_BRIDGE"

pipe_usb_in_completion ==
    /\ usb_in
    /\ usb_in' = FALSE
    /\ IF pipe_state_soc_to_pc = "WAIT_FOR_USB"
       THEN Rearm /\ UNCHANGED halted
       ELSE halted' = TRUE /\ UNCHANGED <<bridge_out, pipe_state_soc_to_pc>>
    /\ UNCHANGED <<ringVars, out_transfer, out_cut>>

\* External: SYNC high begins a transfer of a queued request.
BridgeTakesIn ==
    /\ Queued /\ ~InTransfer
    /\ bridge_in' = NoRequest
    /\ in_transfer' = bridge_in
    /\ UNCHANGED <<out_ring_count, out_ring_write_pos, out_ring_read_pos,
                   out_ring_short_packet, out_usb_pending, out_bridge_pending,
                   out_ring_buf, received, forwarded, in_cut, inVars>>

BridgeTakesOut ==
    /\ bridge_out /\ ~out_transfer
    /\ bridge_out' = FALSE
    /\ out_transfer' = TRUE
    /\ UNCHANGED <<ringVars, pipe_state_soc_to_pc, usb_in, halted, out_cut>>

Next ==
    /\ ~halted
    /\ \/ usbpipe_init
       \/ usbpipe_disable
       \/ \E len \in PacketLens : pipe_usb_out_completion(len)
       \/ pipe_bridge_in_completion
       \/ pipe_bridge_out_completion
       \/ pipe_usb_in_completion
       \/ BridgeTakesIn
       \/ BridgeTakesOut

Spec == Init /\ [][Next]_vars

---------------------------------------------------------------------------
(* Properties.  What they say of the ring holds until the pipe is disabled *)
(* in the middle of an IN transfer, and what they say of the buffer to the *)
(* PC until that happens to an OUT transfer; being disabled at any other   *)
(* time makes all of it hold again.                                        *)

\* The ring's counter and positions describe the same packets, within the ring
\* (usbpipe.c:5-7, 76-101): the counter of usbpipe.c is "Number of packets in the ring
\* buffer".  The completion of a transfer that was cut decrements it below zero.
RingConsistent ==
    ~in_cut =>
        /\ out_ring_count <= OUT_RING_SIZE
        /\ out_ring_write_pos = (out_ring_read_pos + out_ring_count) % OUT_RING_SIZE

\* The USB endpoint never receives into a slot that waits for, or is in, a bridge
\* transfer, and the bridge is sent the slot at the read position (usbpipe.c:50-71).
SlotsDisjoint ==
    Enabled /\ ~in_cut =>
        /\ out_usb_pending => out_ring_count < OUT_RING_SIZE
        /\ \A q \in {bridge_in, in_transfer} : q.len > 0 =>
             /\ q.pos = out_ring_read_pos
             /\ out_usb_pending => q.pos # out_ring_write_pos

\* A packet is handed to the bridge with the length it was received with, although one
\* variable holds the length of every short packet (usbpipe.c:8, 58-69, 80).
LengthKept ==
    \A q \in {bridge_in, in_transfer} :
        Enabled /\ ~in_cut /\ q.len > 0 => q.len = out_ring_buf[q.pos].len

\* The SoC gets the packets of one session once each, in the order the PC sent them
\* (the ring of usbpipe.c:46-101).
ForwardedInOrder ==
    [][~in_cut /\ forwarded'.id # forwarded.id =>
          forwarded'.id = forwarded.id + 1 \/ forwarded'.id = 0]_vars

\* The one buffer to the PC is in exactly one place while the pipe is enabled: queued at
\* the bridge, being filled by it, or being sent to the PC (usbpipe.c:104-121).
BufferToPcOwned ==
    Enabled /\ ~out_cut => /\ bridge_out \/ out_transfer \/ usb_in
                           /\ ~(bridge_out /\ out_transfer)
                           /\ ~(usb_in /\ (bridge_out \/ out_transfer))

\* The invalid() calls of usbpipe.c:109 and 119 are reached in one way only: the pipe was
\* disabled while data of the SoC was on its way, and the completion of that transfer
\* came when the pipe was disabled, or was taken for that of the next session's buffer.
\* Nothing in usb_cb_set_interface (usb.c:501-528) prevents it.
NeverInvalid == halted => out_cut

\* The pipe is never wedged: while packets wait one of them is with the bridge, whose
\* completion steps the ring again, and an empty ring has the endpoint armed
\* (out_ring_step, usbpipe.c:46-73).
NeverStuck ==
    Enabled /\ ~in_cut =>
        /\ out_ring_count > 0 => Queued \/ InTransfer
        /\ out_ring_count = 0 => out_usb_pending
===========================================================================
