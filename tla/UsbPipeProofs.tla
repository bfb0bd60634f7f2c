--------------------------- MODULE UsbPipeProofs ---------------------------
(***************************************************************************)
(* Proofs about the USB pipe for every ring size and packet size.  The     *)
(* pipe may be disabled at any time; what the invariant says of the ring   *)
(* and of the buffer to the PC holds while that has not cut a transfer of  *)
(* theirs short.                                                           *)
(***************************************************************************)
EXTENDS UsbPipe, TLAPS

\* usbpipe.c forwards a packet of length 0 as a full one (out_ring_short_packet = 0).
NoEmptyPackets == 0 \notin PacketLens

\* The slot k places after the read position.
At(k) == IF out_ring_read_pos + k < OUT_RING_SIZE THEN out_ring_read_pos + k
         ELSE (out_ring_read_pos + k) - OUT_RING_SIZE

\* A disabled pipe has an empty ring and has nothing at the bridge.
DisabledRing ==
    ~Enabled => /\ out_ring_count = 0
                /\ out_ring_read_pos = 0
                /\ out_ring_short_packet = 0
                /\ ~Queued /\ ~InTransfer

\* The sending side: the oldest packet, if any, is with the bridge, exactly once.
Sending ==
    Enabled => /\ out_bridge_pending <=> out_ring_count > 0
               /\ out_bridge_pending <=> Queued \/ InTransfer
               /\ ~(Queued /\ InTransfer)
               /\ Queued => bridge_in.pos = out_ring_read_pos
                            /\ bridge_in.len = out_ring_buf[out_ring_read_pos].len
               /\ InTransfer => in_transfer.pos = out_ring_read_pos
                                /\ in_transfer.len = out_ring_buf[out_ring_read_pos].len

\* The receiving side: an armed endpoint has a free slot and no short packet waits.
Receiving ==
    Enabled => /\ out_usb_pending => out_ring_count < OUT_RING_SIZE
                                     /\ out_ring_short_packet = 0
               /\ out_ring_count = 0 => out_usb_pending
               /\ out_ring_short_packet # 0 => out_ring_count > 1

\* The packets of the ring are the last ones received, in order; all but the oldest are
\* full, except the youngest when a short packet waits.
Contents ==
    Enabled => /\ forwarded.id + out_ring_count = received
               /\ \A k \in 0..(out_ring_count - 1) :
                    /\ out_ring_buf[At(k)].id = forwarded.id + k + 1
                    /\ k > 0 => out_ring_buf[At(k)].len =
                                  IF k = out_ring_count - 1 /\ out_ring_short_packet # 0
                                  THEN out_ring_short_packet ELSE PACKET_SIZE

\* Who has the buffer to the PC is what pipe_state_soc_to_pc says.
ToPc ==
    /\ ~halted
    /\ pipe_state_soc_to_pc = "DISABLE" => ~usb_in /\ ~bridge_out /\ ~out_transfer
    /\ pipe_state_soc_to_pc = "WAIT_FOR_USB" => usb_in /\ ~bridge_out /\ ~out_transfer
    /\ pipe_state_soc_to_pc = "WAIT_FOR_BRIDGE" => ~usb_in /\ (bridge_out <=> ~out_transfer)

Positions ==
    /\ out_ring_count <= OUT_RING_SIZE
    /\ out_ring_write_pos = (out_ring_read_pos + out_ring_count) % OUT_RING_SIZE

RingInv == Positions /\ DisabledRing /\ Sending /\ Receiving /\ Contents
BufferInv == TypeOK /\ (~out_cut => ToPc)
IInv == BufferInv /\ (~in_cut => RingInv)

---------------------------------------------------------------------------
(* The arithmetic of positions.                                            *)

\* The wrapped successor of a position, without the modulus.
LEMMA SuccValue ==
    ASSUME NEW pos \in Slot
    PROVE  Succ(pos) = IF pos + 1 < OUT_RING_SIZE THEN pos + 1 ELSE 0
<1>1. CASE pos + 1 < OUT_RING_SIZE
    BY <1>1, RingAssumption DEF Succ, Slot
<1>2. CASE pos + 1 = OUT_RING_SIZE
    BY <1>2, RingAssumption DEF Succ, Slot
<1>3. QED  BY <1>1, <1>2, RingAssumption DEF Slot

\* The modulus of the code, below twice the size of the ring.
LEMMA ModValue ==
    ASSUME NEW pos \in Slot, NEW k \in 0..OUT_RING_SIZE
    PROVE  (pos + k) % OUT_RING_SIZE =
               IF pos + k < OUT_RING_SIZE THEN pos + k ELSE (pos + k) - OUT_RING_SIZE
<1> DEFINE n == OUT_RING_SIZE  a == pos + k
<1>1. n \in Nat \ {0} /\ a \in 0..(n + n - 1)
    BY RingAssumption DEF Slot
<1>2. \A m \in Nat \ {0} : \A b \in 0..(m + m - 1) :
          b % m = IF b < m THEN b ELSE b - m
    <2> SUFFICES ASSUME NEW m \in Nat \ {0}, NEW b \in 0..(m + m - 1)
                 PROVE  b % m = IF b < m THEN b ELSE b - m
        OBVIOUS
    <2>1. CASE b < m   BY <2>1
    <2>2. CASE b >= m  BY <2>2
    <2>3. QED  BY <2>1, <2>2
<1>3. a % n = IF a < n THEN a ELSE a - n
    <2> HIDE DEF n, a
    <2>1. QED  BY <1>1, <1>2
<1>4. QED  BY <1>3

\* The slot k places on is computed by the modulus of the code.
LEMMA AtValue ==
    ASSUME TypeOK, NEW k \in 0..OUT_RING_SIZE
    PROVE  (out_ring_read_pos + k) % OUT_RING_SIZE = At(k) /\ At(k) \in Slot
<1>1. out_ring_read_pos \in Slot
    BY DEF TypeOK
<1>2. (out_ring_read_pos + k) % OUT_RING_SIZE = At(k)
    BY <1>1, ModValue DEF At
<1>3. At(k) \in Slot
    BY <1>1, RingAssumption DEF At, Slot
<1>4. QED  BY <1>2, <1>3

\* The u8 counter neither wraps up nor, when packets are there, down.
LEMMA CountValue ==
    ASSUME NEW n \in 0..255
    PROVE  /\ n < 255 => (n + 1) % 256 = n + 1
           /\ n > 0 => Dec8(n) = n - 1
           /\ Dec8(n) \in 0..255
BY DEF Dec8

---------------------------------------------------------------------------
(* The invariant.                                                          *)

\* The initial and the reset values have their types.
LEMMA ZeroTypes ==
    /\ 0 \in Slot /\ 0 \in 0..(PACKET_SIZE - 1) /\ 0 \in 0..MaxPackets /\ 0 \in 0..255
    /\ NoPacket \in Pkt
    /\ NoRequest \in Request
<1>1. 0 \in Slot /\ 0 \in 0..(PACKET_SIZE - 1) /\ 0 \in 0..MaxPackets /\ 0 \in 0..255
    BY RingAssumption DEF Slot
<1>2. 0 \in 0..PACKET_SIZE
    BY RingAssumption
<1>3. NoPacket \in Pkt /\ NoRequest \in Request
    BY <1>1, <1>2 DEF NoPacket, Pkt, NoRequest, Request
<1>4. QED  BY <1>1, <1>3

LEMMA InitIInv == Init => IInv
<1> SUFFICES ASSUME Init PROVE IInv
    OBVIOUS
<1>1. TypeOK
    BY ZeroTypes DEF Init, TypeOK
<1>2. Positions
    BY RingAssumption DEF Init, Positions
<1>3. ~Enabled
    BY DEF Init, Enabled
<1>4. QED
    BY <1>1, <1>2, <1>3 DEF Init, IInv, BufferInv, RingInv, DisabledRing, Sending, Receiving,
       Contents, ToPc, Queued, InTransfer, NoRequest, Enabled

\* out_ring_step only assigns values of the right type.
LEMMA StepType ==
    ASSUME TypeOK,
           NEW count \in 0..255, NEW read \in Slot, NEW short \in 0..(PACKET_SIZE - 1),
           NEW usb \in BOOLEAN, NEW bridge \in BOOLEAN,
           out_ring_step(count, read, short, usb, bridge)
    PROVE  /\ out_usb_pending' \in BOOLEAN
           /\ out_bridge_pending' \in BOOLEAN
           /\ out_ring_short_packet' \in 0..(PACKET_SIZE - 1)
           /\ bridge_in' \in Request
BY RingAssumption DEF out_ring_step, MayReceive, TypeOK, Request

\* Every handler keeps the type of every variable.
LEMMA NextType ==
    ASSUME TypeOK, [Next]_vars
    PROVE  TypeOK'
<1>1. CASE usbpipe_init
    BY <1>1, ZeroTypes DEF usbpipe_init, TypeOK
<1>2. CASE usbpipe_disable
    <2>1. in_cut' \in BOOLEAN
        <3>1. InTransfer \in BOOLEAN
            BY DEF InTransfer
        <3>2. in_cut' = InTransfer
            BY <1>2 DEF usbpipe_disable
        <3>3. QED  BY <3>1, <3>2
    <2>2. QED
        BY <1>2, <2>1, ZeroTypes DEF usbpipe_disable, ResetRing, TypeOK
<1>3. ASSUME NEW len \in PacketLens, pipe_usb_out_completion(len)
      PROVE  TypeOK'
    <2> DEFINE count == (out_ring_count + 1) % 256
               short == IF len < PACKET_SIZE THEN len ELSE out_ring_short_packet
    <2>1. count \in 0..255
        BY DEF TypeOK
    <2>2. short \in 0..(PACKET_SIZE - 1)
        BY RingAssumption DEF TypeOK
    <2>3. out_ring_step(count, out_ring_read_pos, short, FALSE, out_bridge_pending)
        BY <1>3 DEF pipe_usb_out_completion
    <2>4. out_ring_read_pos \in Slot /\ out_bridge_pending \in BOOLEAN
        BY DEF TypeOK
    <2> HIDE DEF count, short
    <2>5. /\ out_usb_pending' \in BOOLEAN
          /\ out_bridge_pending' \in BOOLEAN
          /\ out_ring_short_packet' \in 0..(PACKET_SIZE - 1)
          /\ bridge_in' \in Request
        BY <2>1, <2>2, <2>3, <2>4, StepType
    <2>6. Succ(out_ring_write_pos) \in Slot
        <3>1. out_ring_write_pos \in Slot
            BY DEF TypeOK
        <3>2. QED  BY <3>1, SuccValue, RingAssumption DEF Slot
    <2>7. received' \in 0..MaxPackets /\ [id |-> received + 1, len |-> len] \in Pkt
        BY <1>3, RingAssumption DEF pipe_usb_out_completion, TypeOK, Pkt
    <2>8. out_ring_buf' \in [Slot -> Pkt]
        BY <1>3, <2>7 DEF pipe_usb_out_completion, TypeOK
    <2>9. QED
        BY <1>3, <2>1, <2>5, <2>6, <2>7, <2>8
        DEF pipe_usb_out_completion, TypeOK, inVars, count
<1>4. CASE pipe_bridge_in_completion
    <2> DEFINE count == Dec8(out_ring_count)  read == Succ(out_ring_read_pos)
    <2>1. count \in 0..255
        BY CountValue DEF TypeOK
    <2>2. read \in Slot
        <3>1. out_ring_read_pos \in Slot
            BY DEF TypeOK
        <3>2. QED  BY <3>1, SuccValue, RingAssumption DEF Slot
    <2>3. out_ring_step(count, read, out_ring_short_packet, out_usb_pending, FALSE)
        BY <1>4 DEF pipe_bridge_in_completion
    <2>4. out_ring_short_packet \in 0..(PACKET_SIZE - 1) /\ out_usb_pending \in BOOLEAN
        BY DEF TypeOK
    <2> HIDE DEF count, read
    <2>5. /\ out_usb_pending' \in BOOLEAN
          /\ out_bridge_pending' \in BOOLEAN
          /\ out_ring_short_packet' \in 0..(PACKET_SIZE - 1)
          /\ bridge_in' \in Request
        BY <2>1, <2>2, <2>3, <2>4, StepType
    <2>6. forwarded' \in Pkt /\ in_transfer' \in Request
        BY <1>4, ZeroTypes DEF pipe_bridge_in_completion, TypeOK, Pkt, Request
    <2>7. QED
        BY <1>4, <2>1, <2>2, <2>5, <2>6
        DEF pipe_bridge_in_completion, TypeOK, inVars, count, read
<1>5. CASE pipe_bridge_out_completion
    BY <1>5 DEF pipe_bridge_out_completion, TypeOK, ringVars
<1>6. CASE pipe_usb_in_completion
    BY <1>6 DEF pipe_usb_in_completion, Rearm, TypeOK, ringVars
<1>7. CASE BridgeTakesIn
    BY <1>7, ZeroTypes DEF BridgeTakesIn, TypeOK, inVars
<1>8. CASE BridgeTakesOut
    BY <1>8 DEF BridgeTakesOut, TypeOK, ringVars
<1>9. CASE UNCHANGED vars
    BY <1>9 DEF vars, ringVars, inVars, TypeOK
<1>10. QED
    BY <1>1, <1>2, <1>3, <1>4, <1>5, <1>6, <1>7, <1>8, <1>9 DEF Next

\* No handler finds the buffer to the PC in a state it does not expect, unless the pipe was
\* disabled in the middle of a transfer to it.
LEMMA NextToPc ==
    ASSUME BufferInv, [Next]_vars, ~out_cut'
    PROVE  ToPc'
<1>1. CASE usbpipe_disable /\ ~halted
    BY <1>1 DEF usbpipe_disable, ToPc
<1>2. ASSUME ~usbpipe_disable PROVE TypeOK /\ ToPc /\ out_cut' = out_cut
    BY <1>2 DEF BufferInv, Next, usbpipe_init, pipe_usb_out_completion, pipe_bridge_in_completion,
       pipe_bridge_out_completion, pipe_usb_in_completion, BridgeTakesIn, BridgeTakesOut,
       vars, inVars
<1>3. CASE ~usbpipe_disable
    <2> USE <1>2, <1>3 DEF ToPc
    <2>1. CASE usbpipe_init
        BY <2>1 DEF usbpipe_init, Enabled
    <2>2. ASSUME NEW len \in PacketLens, pipe_usb_out_completion(len)
          PROVE  ToPc'
        BY <2>2 DEF pipe_usb_out_completion, inVars
    <2>3. CASE pipe_bridge_in_completion
        BY <2>3 DEF pipe_bridge_in_completion, inVars
    <2>4. CASE pipe_bridge_out_completion
        BY <2>4 DEF pipe_bridge_out_completion, TypeOK
    <2>5. CASE pipe_usb_in_completion
        BY <2>5 DEF pipe_usb_in_completion, Rearm, TypeOK
    <2>6. CASE BridgeTakesIn
        BY <2>6 DEF BridgeTakesIn, inVars
    <2>7. CASE BridgeTakesOut
        BY <2>7 DEF BridgeTakesOut, TypeOK
    <2>8. CASE UNCHANGED vars
        BY <2>8 DEF vars, inVars
    <2> HIDE DEF ToPc
    <2>9. QED
        BY <2>1, <2>2, <2>3, <2>4, <2>5, <2>6, <2>7, <2>8 DEF Next
<1>4. usbpipe_disable => ~halted
    BY DEF Next, vars, ringVars, inVars, Enabled, usbpipe_disable
<1>5. QED  BY <1>1, <1>3, <1>4

---------------------------------------------------------------------------
(* The ring, handler by handler.                                           *)

\* usbpipe_init starts on an empty ring.
LEMMA InitRing ==
    ASSUME TypeOK, RingInv, usbpipe_init
    PROVE  RingInv'
<1> USE DEF RingInv, DisabledRing, usbpipe_init
<1>1. Positions'
    BY DEF Positions
<1>2. Enabled' /\ out_ring_count' = 0 /\ out_ring_short_packet' = 0
    BY DEF Enabled
<1>3. DisabledRing' /\ Sending'
    BY <1>2 DEF Sending, Queued, InTransfer
<1>4. Receiving' /\ Contents'
    BY <1>2, RingAssumption DEF Receiving, Contents, NoPacket
<1>5. QED  BY <1>1, <1>3, <1>4

\* usbpipe_disable empties the ring; if nothing of it was in a bridge transfer, nothing is.
LEMMA DisableRing ==
    ASSUME usbpipe_disable, ~in_cut'
    PROVE  RingInv'
<1> USE DEF usbpipe_disable, ResetRing
<1>1. Positions'
    BY RingAssumption DEF Positions
<1>2. ~Enabled'
    BY DEF Enabled
<1>3. DisabledRing'
    <2>1. ~InTransfer /\ in_transfer' = in_transfer
        OBVIOUS
    <2>2. QED  BY <2>1 DEF DisabledRing, Queued, InTransfer, NoRequest
<1>4. QED  BY <1>1, <1>2, <1>3 DEF RingInv, Sending, Receiving, Contents

\* A packet arrives: it goes to the slot after the youngest one.
LEMMA UsbOutRing ==
    ASSUME TypeOK, RingInv, NEW len \in PacketLens, pipe_usb_out_completion(len), NoEmptyPackets
    PROVE  RingInv'
<1> DEFINE n == OUT_RING_SIZE  c == out_ring_count  r == out_ring_read_pos
           s == IF len < PACKET_SIZE THEN len ELSE 0
<1>1. /\ n \in 1..254 /\ c \in 0..(n - 1) /\ r \in 0..(n - 1)
      /\ PACKET_SIZE \in 1..255 /\ len \in 1..PACKET_SIZE
    BY RingAssumption
    DEF RingInv, TypeOK, Slot, Receiving, pipe_usb_out_completion, NoEmptyPackets
<1>2. out_ring_short_packet = 0 /\ Enabled /\ Enabled'
    BY DEF RingInv, Receiving, pipe_usb_out_completion, Enabled, inVars
<1>3. (c + 1) % 256 = c + 1
    BY <1>1
<1>4. /\ out_usb_pending' => c + 1 < n /\ s = 0
      /\ out_bridge_pending'
      /\ out_ring_short_packet' = IF c = 0 THEN 0 ELSE s
      /\ bridge_in' = IF c = 0 THEN [pos |-> r, len |-> len] ELSE bridge_in
    <2>1. out_ring_step(c + 1, r, s, FALSE, out_bridge_pending)
        BY <1>2, <1>3 DEF pipe_usb_out_completion
    <2>2. out_bridge_pending <=> c > 0
        BY <1>2 DEF RingInv, Sending, TypeOK
    <2>3. (out_usb_pending' => c + 1 < n /\ s = 0) /\ out_bridge_pending'
        <3>1. c + 1 > 0
            BY <1>1
        <3> HIDE DEF n, c, s
        <3>2. QED  BY <2>1, <3>1, Zenon DEF out_ring_step, MayReceive, n
    <2>4. CASE c = 0
        BY <1>1, <2>1, <2>2, <2>3, <2>4 DEF out_ring_step, MayReceive
    <2>5. CASE c > 0
        BY <1>1, <2>1, <2>2, <2>3, <2>5 DEF out_ring_step, MayReceive
    <2>6. QED  BY <1>1, <2>4, <2>5
<1>5. /\ out_ring_count' = c + 1 /\ out_ring_read_pos' = r
      /\ in_transfer' = in_transfer
      /\ forwarded' = forwarded /\ received' = received + 1
    BY <1>3 DEF pipe_usb_out_completion
<1>6. out_ring_write_pos = At(c) /\ At(c) \in Slot
    BY <1>1, AtValue DEF RingInv, Positions
<1>7. /\ out_ring_buf'[At(c)] = [id |-> received + 1, len |-> len]
      /\ \A k \in 0..(c - 1) : out_ring_buf'[At(k)] = out_ring_buf[At(k)]
    <2>1. \A k \in 0..(c - 1) : At(k) \in Slot /\ At(k) # At(c)
        BY <1>1 DEF At, Slot
    <2>2. QED  BY <1>6, <2>1 DEF pipe_usb_out_completion, TypeOK
<1>8. At(0) = r /\ \A k \in 0..n : At(k)' = At(k)
    BY <1>1, <1>5 DEF At
<1> HIDE DEF n, c, r, s
<1>9. Positions'
    <2>1. out_ring_write_pos' = Succ(At(c))
        BY <1>6 DEF pipe_usb_out_completion
    <2>2. Succ(At(c)) = At(c + 1)
        BY <1>1, <1>6, SuccValue DEF At, n, c, r, Slot
    <2>3. (r + (c + 1)) % n = At(c + 1)
        BY <1>1, AtValue DEF n, c, r
    <2>4. QED  BY <1>1, <1>5, <2>1, <2>2, <2>3 DEF Positions, n
<1>10. DisabledRing'
    BY <1>2 DEF DisabledRing
<1>11. Sending'
    <2>1. CASE c = 0
        <3>1. ~InTransfer
            BY <1>2, <2>1 DEF RingInv, Sending, c
        <3>2. bridge_in' = [pos |-> r, len |-> len] /\ out_ring_buf'[r].len = len
            BY <1>4, <1>7, <1>8, <2>1
        <3>3. QED
            BY <1>1, <1>4, <1>5, <2>1, <3>1, <3>2 DEF Sending, Queued, InTransfer
    <2>2. CASE c > 0
        <3>1. bridge_in' = bridge_in /\ out_ring_buf'[r] = out_ring_buf[r]
            BY <1>1, <1>4, <1>7, <1>8, <2>2
        <3>2. QED
            BY <1>1, <1>2, <1>4, <1>5, <2>2, <3>1
            DEF RingInv, Sending, Queued, InTransfer, c, r
    <2>3. QED  BY <1>1, <2>1, <2>2
<1>12. Receiving'
    BY <1>1, <1>4, <1>5 DEF Receiving, n
<1>13. Contents'
    <2>1. forwarded.id + c = received /\ forwarded.id \in Nat
        BY <1>2 DEF RingInv, Contents, TypeOK, Pkt, c
    <2>2. forwarded'.id + out_ring_count' = received'
        BY <1>1, <1>5, <2>1
    <2>3. ASSUME NEW k \in 0..c
          PROVE  /\ out_ring_buf'[At(k)].id = forwarded.id + k + 1
                 /\ k > 0 => out_ring_buf'[At(k)].len =
                               IF k = c /\ out_ring_short_packet' # 0
                               THEN out_ring_short_packet' ELSE PACKET_SIZE
        <3>1. CASE k = c
            BY <1>1, <1>4, <1>7, <2>1, <3>1 DEF s
        <3>2. CASE k < c
            <4>1. out_ring_buf'[At(k)] = out_ring_buf[At(k)]
                BY <1>1, <1>7, <3>2
            <4>2. QED
                BY <1>1, <1>2, <3>2, <4>1 DEF RingInv, Contents, c
        <3>3. QED  BY <1>1, <3>1, <3>2
    <2>4. QED
        BY <1>1, <1>5, <1>8, <2>2, <2>3 DEF Contents
<1>14. QED  BY <1>9, <1>10, <1>11, <1>12, <1>13 DEF RingInv

\* The oldest packet has left: every other one moves a place nearer the read position.
LEMMA BridgeInRing ==
    ASSUME TypeOK, RingInv, pipe_bridge_in_completion
    PROVE  RingInv'
<1> DEFINE n == OUT_RING_SIZE  c == out_ring_count  r == out_ring_read_pos
           s == out_ring_short_packet
<1>1. Enabled /\ Enabled' /\ InTransfer /\ ~Queued
    BY DEF RingInv, DisabledRing, Sending, pipe_bridge_in_completion, Enabled,
           inVars
<1>2. /\ n \in 1..254 /\ c \in 1..n /\ r \in 0..(n - 1)
      /\ PACKET_SIZE \in 1..255 /\ s \in 0..(PACKET_SIZE - 1)
      /\ s # 0 => c > 1
      /\ c = 1 => out_usb_pending \/ s = 0
    BY <1>1, RingAssumption
    DEF RingInv, Positions, Sending, Receiving, TypeOK, Slot
<1>3. Dec8(c) = c - 1 /\ Succ(r) = At(1) /\ At(0) = r
    BY <1>2, CountValue, SuccValue DEF At, Slot
<1>4. /\ out_ring_count' = c - 1 /\ out_ring_read_pos' = At(1)
      /\ in_transfer' = NoRequest /\ out_ring_buf' = out_ring_buf
      /\ out_ring_write_pos' = out_ring_write_pos /\ received' = received
    BY <1>3 DEF pipe_bridge_in_completion
<1>5. \A k \in 0..(n - 1) : At(k)' = At(k + 1)
    BY <1>2, <1>4 DEF At
<1>6. out_ring_step(c - 1, At(1), s, out_usb_pending, FALSE)
    BY <1>3 DEF pipe_bridge_in_completion
<1> HIDE DEF n, c, r, s
<1>7. /\ out_usb_pending' => out_usb_pending \/ s = 0
      /\ out_usb_pending \/ s = 0 => out_usb_pending'
      /\ out_bridge_pending' <=> c - 1 > 0
    <2>1. c - 1 < n
        BY <1>2
    <2>2. QED  BY <1>6, <2>1, Zenon DEF out_ring_step, MayReceive, n
<1>8. out_ring_short_packet' = IF c = 2 THEN 0 ELSE s
    <2>1. CASE c = 2
        BY <1>2, <1>6, <2>1 DEF out_ring_step, MayReceive
    <2>2. CASE c # 2
        BY <1>2, <1>6, <2>2 DEF out_ring_step, MayReceive
    <2>3. QED  BY <2>1, <2>2
<1>9. bridge_in' = IF c > 1
                   THEN [pos |-> At(1),
                         len |-> IF c = 2 /\ s # 0 THEN s ELSE PACKET_SIZE]
                   ELSE bridge_in
    <2>1. CASE c > 1
        BY <1>2, <1>6, <2>1 DEF out_ring_step, MayReceive
    <2>2. CASE c = 1
        BY <1>2, <1>6, <2>2 DEF out_ring_step, MayReceive
    <2>3. QED  BY <1>2, <2>1, <2>2
<1>10. /\ forwarded.id + c = received /\ forwarded.id \in Nat
       /\ forwarded'.id = forwarded.id + 1
    <2>1. forwarded.id + c = received /\ forwarded.id \in Nat
        BY <1>1 DEF RingInv, Contents, TypeOK, Pkt, c
    <2>2. forwarded'.id = out_ring_buf[in_transfer.pos].id
        BY DEF pipe_bridge_in_completion
    <2>3. in_transfer.pos = r
        BY <1>1 DEF RingInv, Sending, r
    <2>4. out_ring_buf[At(0)].id = forwarded.id + 1
        BY <1>1, <1>2, <2>1 DEF RingInv, Contents, c
    <2>5. QED  BY <1>3, <2>1, <2>2, <2>3, <2>4
<1>11. ASSUME NEW k \in 1..(c - 1)
       PROVE  /\ out_ring_buf[At(k)].id = forwarded.id + k + 1
              /\ out_ring_buf[At(k)].len =
                    IF k = c - 1 /\ s # 0 THEN s ELSE PACKET_SIZE
    BY <1>1, <1>2 DEF RingInv, Contents, c, s
<1>12. Positions'
    <2>1. out_ring_write_pos = At(c)
        BY <1>2, AtValue DEF RingInv, Positions, n, c, r
    <2>2. At(1) \in Slot /\ c - 1 \in 0..OUT_RING_SIZE
        BY <1>2, AtValue DEF n
    <2>3. (At(1) + (c - 1)) % n = At(c)
        <3>1. (At(1) + (c - 1)) % n = IF At(1) + (c - 1) < n THEN At(1) + (c - 1)
                                      ELSE (At(1) + (c - 1)) - n
            BY <2>2, ModValue DEF n
        <3>2. QED  BY <1>2, <3>1 DEF At, n, r
    <2>4. QED  BY <1>2, <1>4, <2>1, <2>3 DEF Positions, n
<1>13. DisabledRing'
    BY <1>1 DEF DisabledRing
<1>14. Sending'
    <2>1. CASE c = 1
        BY <1>1, <1>2, <1>4, <1>7, <1>9, <2>1 DEF Sending, Queued, InTransfer, NoRequest
    <2>2. CASE c > 1
        <3>1. out_ring_buf[At(1)].len = bridge_in'.len /\ bridge_in'.len > 0
            BY <1>2, <1>9, <1>11, <2>2
        <3>2. QED
            BY <1>2, <1>4, <1>7, <1>9, <2>2, <3>1
            DEF Sending, Queued, InTransfer, NoRequest
    <2>3. QED  BY <1>2, <2>1, <2>2
<1>15. Receiving'
    BY <1>1, <1>2, <1>4, <1>7, <1>8 DEF Receiving, RingInv, n, c, s
<1>16. Contents'
    <2>1. forwarded'.id + out_ring_count' = received'
        BY <1>2, <1>4, <1>10
    <2>2. ASSUME NEW k \in 0..(c - 2)
          PROVE  /\ out_ring_buf[At(k + 1)].id = forwarded'.id + k + 1
                 /\ k > 0 => out_ring_buf[At(k + 1)].len =
                               IF k = c - 2 /\ out_ring_short_packet' # 0
                               THEN out_ring_short_packet' ELSE PACKET_SIZE
        BY <1>2, <1>8, <1>10, <1>11
    <2>3. QED
        BY <1>2, <1>4, <1>5, <2>1, <2>2 DEF Contents
<1>17. QED  BY <1>12, <1>13, <1>14, <1>15, <1>16 DEF RingInv

\* A step that leaves the ring alone and neither enables nor disables the pipe.
LEMMA SameRing ==
    ASSUME RingInv, UNCHANGED ringVars, Enabled <=> Enabled'
    PROVE  RingInv'
<1>1. \A k \in 0..255 : At(k)' = At(k)
    BY DEF ringVars, At
<1>2. QED
    BY <1>1 DEF RingInv, Positions, DisabledRing, Sending, Receiving,
       Contents, Queued, InTransfer, ringVars, At

\* SYNC high begins the transfer of the queued packet.
LEMMA TakeInRing ==
    ASSUME TypeOK, RingInv, BridgeTakesIn
    PROVE  RingInv'
<1> USE DEF RingInv, BridgeTakesIn, inVars
<1>1. Enabled /\ Enabled'
    BY DEF DisabledRing, Enabled
<1>2. Queued /\ InTransfer' /\ ~Queued'
    BY DEF Queued, InTransfer, NoRequest
<1>3. Positions' /\ DisabledRing' /\ Receiving'
    BY <1>1 DEF Positions, DisabledRing, Receiving
<1>4. Sending'
    BY <1>1, <1>2 DEF Sending
<1>5. Contents'
    BY <1>1 DEF Contents, At
<1>6. QED  BY <1>3, <1>4, <1>5

\* Every step keeps the invariant of the ring, unless it cuts an IN transfer short.
LEMMA NextRing ==
    ASSUME IInv, [Next]_vars, ~in_cut', NoEmptyPackets
    PROVE  RingInv'
<1>1. TypeOK
    BY DEF IInv, BufferInv
<1>2. CASE usbpipe_disable
    BY <1>2, DisableRing
<1>3. ASSUME ~usbpipe_disable PROVE RingInv
    BY <1>3 DEF IInv, Next, usbpipe_init, pipe_usb_out_completion, pipe_bridge_in_completion,
       pipe_bridge_out_completion, pipe_usb_in_completion, BridgeTakesIn, BridgeTakesOut,
       vars, ringVars
<1>4. CASE ~usbpipe_disable
    <2> USE <1>1, <1>3, <1>4
    <2>1. CASE usbpipe_init
        BY <2>1, InitRing
    <2>2. ASSUME NEW len \in PacketLens, pipe_usb_out_completion(len)
          PROVE  RingInv'
        BY <2>2, UsbOutRing
    <2>3. CASE pipe_bridge_in_completion
        BY <2>3, BridgeInRing
    <2>4. CASE BridgeTakesIn
        BY <2>4, TakeInRing
    <2>5. CASE UNCHANGED ringVars /\ (Enabled <=> Enabled')
        BY <2>5, SameRing
    <2>6. CASE pipe_bridge_out_completion
        BY <2>5, <2>6 DEF pipe_bridge_out_completion, Enabled
    <2>7. CASE pipe_usb_in_completion
        BY <2>5, <2>7 DEF pipe_usb_in_completion, Rearm, Enabled
    <2>8. CASE BridgeTakesOut
        BY <2>5, <2>8 DEF BridgeTakesOut, Enabled
    <2>9. CASE UNCHANGED vars
        BY <2>5, <2>9 DEF vars, inVars, Enabled
    <2>10. QED
        BY <2>1, <2>2, <2>3, <2>4, <2>6, <2>7, <2>8, <2>9 DEF Next
<1>5. QED  BY <1>2, <1>4

---------------------------------------------------------------------------
(* Theorems.                                                               *)

\* Every handler of usbpipe.c keeps every variable within its type, disabled in the
\* middle of a transfer or not: the positions never leave the ring.
THEOREM TypeCorrect == Spec => []TypeOK
<1>1. Init => TypeOK
    BY ZeroTypes DEF Init, TypeOK
<1>2. TypeOK /\ [Next]_vars => TypeOK'
    BY NextType
<1>3. QED  BY <1>1, <1>2, PTL DEF Spec

\* The buffer to the PC is where pipe_state_soc_to_pc says, until the pipe is disabled in
\* the middle of a transfer to it.
THEOREM BufferInvariant == Spec => []BufferInv
<1>1. Init => BufferInv
    BY InitIInv DEF IInv
<1>2. BufferInv /\ [Next]_vars => BufferInv'
    BY NextType, NextToPc DEF BufferInv
<1>3. QED  BY <1>1, <1>2, PTL DEF Spec

\* The inductive invariant of the pipe.
THEOREM Invariant == NoEmptyPackets => (Spec => []IInv)
<1> SUFFICES ASSUME NoEmptyPackets PROVE Spec => []IInv
    OBVIOUS
<1>1. IInv /\ [Next]_vars => IInv'
    <2> SUFFICES ASSUME IInv, [Next]_vars PROVE IInv'
        OBVIOUS
    <2>1. BufferInv'
        BY NextType, NextToPc DEF IInv, BufferInv
    <2>2. ~in_cut' => RingInv'
        BY NextRing
    <2>3. QED  BY <2>1, <2>2 DEF IInv
<1>2. QED  BY InitIInv, <1>1, PTL DEF Spec

\* What the invariants say of one state.
LEMMA BufferImplies ==
    ASSUME BufferInv
    PROVE  BufferToPcOwned /\ NeverInvalid
BY DEF BufferInv, BufferToPcOwned, NeverInvalid, ToPc, TypeOK, Enabled

LEMMA RingImplies ==
    ASSUME IInv
    PROVE  RingConsistent /\ SlotsDisjoint /\ LengthKept /\ NeverStuck
<1>1. CASE in_cut
    BY <1>1 DEF RingConsistent, SlotsDisjoint, LengthKept, NeverStuck
<1>2. CASE ~in_cut
    <2> USE <1>2 DEF IInv, BufferInv, RingInv
    <2>1. RingConsistent
        BY DEF RingConsistent, Positions
    <2>2. LengthKept
        BY DEF LengthKept, Sending, Queued, InTransfer
    <2>3. NeverStuck
        BY DEF NeverStuck, Sending, Receiving
    <2>4. SlotsDisjoint
        <3> SUFFICES ASSUME Enabled PROVE SlotsDisjoint
            BY DEF SlotsDisjoint
        <3>1. out_usb_pending => out_ring_count < OUT_RING_SIZE
            BY DEF Receiving
        <3>2. ASSUME NEW q \in {bridge_in, in_transfer}, q.len > 0
              PROVE  q.pos = out_ring_read_pos /\ out_ring_count > 0
            BY <3>2 DEF Sending, Queued, InTransfer
        <3>3. ASSUME out_usb_pending, out_ring_count > 0
              PROVE  out_ring_read_pos # out_ring_write_pos
            <4>1. out_ring_count \in 1..(OUT_RING_SIZE - 1)
                BY <3>1, <3>3, RingAssumption DEF TypeOK
            <4>2. out_ring_write_pos = At(out_ring_count)
                BY <4>1, AtValue, RingAssumption DEF Positions
            <4>3. QED  BY <4>1, <4>2, RingAssumption DEF At, TypeOK, Slot
        <3>4. QED  BY <3>1, <3>2, <3>3 DEF SlotsDisjoint
    <2>5. QED  BY <2>1, <2>2, <2>3, <2>4
<1>3. QED  BY <1>1, <1>2

\* The counter and the positions of the ring describe the same packets, until the pipe is
\* disabled in the middle of a transfer of the ring.
THEOREM RingIsConsistent == NoEmptyPackets => (Spec => []RingConsistent)
BY Invariant, RingImplies, PTL

\* Until then usb_ep_start_out never gets a slot whose packet has not left yet.
THEOREM SlotsAreDisjoint == NoEmptyPackets => (Spec => []SlotsDisjoint)
BY Invariant, RingImplies, PTL

\* Until then out_ring_short_packet, one variable for the whole ring, is enough: every
\* packet goes to bridge_start_in with the length it was received with.
THEOREM LengthIsKept == NoEmptyPackets => (Spec => []LengthKept)
BY Invariant, RingImplies, PTL

\* pipe_buffer_soc_to_pc has exactly one owner, until the pipe is disabled in the middle
\* of a transfer to it.
THEOREM BufferToPcIsOwned == Spec => []BufferToPcOwned
BY BufferInvariant, BufferImplies, PTL

\* Whatever the PC and the SoC send, and however often the pipe is selected and left, the
\* invalid() calls of usbpipe.c:109 and 119 have one cause: SET_INTERFACE left the pipe in
\* the middle of a transfer of data of the SoC (usb.c:507).  No other order reaches them.
THEOREM NoOtherInvalid == Spec => []NeverInvalid
BY BufferInvariant, BufferImplies, PTL

\* out_ring_step never leaves the pipe with nothing that would call it again, until the
\* pipe is disabled in the middle of a transfer of the ring.
THEOREM NotStuck == NoEmptyPackets => (Spec => []NeverStuck)
BY Invariant, RingImplies, PTL

\* Until then the SoC receives the packets of the PC in order, none lost and none twice.
THEOREM InOrder == NoEmptyPackets => (Spec => ForwardedInOrder)
<1> DEFINE Step == ~in_cut /\ forwarded'.id # forwarded.id =>
                       forwarded'.id = forwarded.id + 1 \/ forwarded'.id = 0
<1> SUFFICES ASSUME NoEmptyPackets PROVE Spec => ForwardedInOrder
    OBVIOUS
<1>1. IInv /\ [Next]_vars => [Step]_vars
    <2> SUFFICES ASSUME IInv, Next, ~in_cut PROVE Step
        OBVIOUS
    <2>1. CASE usbpipe_init
        BY <2>1 DEF usbpipe_init, NoPacket
    <2>2. CASE pipe_bridge_in_completion
        <3> USE DEF IInv, BufferInv, RingInv
        <3>1. forwarded'.id = out_ring_buf[in_transfer.pos].id
            BY <2>2 DEF pipe_bridge_in_completion
        <3>2. Enabled /\ out_ring_count > 0 /\ in_transfer.pos = out_ring_read_pos
            BY <2>2 DEF pipe_bridge_in_completion, DisabledRing, Sending
        <3>3. out_ring_buf[At(0)].id = forwarded.id + 1
            <4>1. 0 \in 0..(out_ring_count - 1) /\ forwarded.id \in Nat
                BY <3>2 DEF TypeOK, Pkt
            <4>2. QED  BY <3>2, <4>1 DEF Contents
        <3>4. At(0) = out_ring_read_pos
            BY RingAssumption DEF At, TypeOK, Slot
        <3>5. QED  BY <3>1, <3>2, <3>3, <3>4
    <2>3. CASE forwarded' = forwarded
        BY <2>3
    <2>4. QED
        BY <2>1, <2>2, <2>3 DEF Next, usbpipe_disable, pipe_usb_out_completion,
           pipe_bridge_out_completion, pipe_usb_in_completion, BridgeTakesIn,
           BridgeTakesOut, ringVars
<1>2. QED  BY Invariant, <1>1, PTL DEF Spec, ForwardedInOrder
===========================================================================
