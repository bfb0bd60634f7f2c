------------------------------ MODULE UsbExecd ------------------------------
(***************************************************************************)
(* The USB daemon, soc/usbexecd.c: it runs the processes the host asks for *)
(* and carries their streams over one socket, each with a ring buffer and  *)
(* a credit.                                                               *)
(*                                                                         *)
(* The daemon has one thread around epoll.  Handling one event is one      *)
(* action, except the loop that writes to a process, which other programs  *)
(* run against.  The host keeps to the protocol of the test cases; host,   *)
(* processes, pipes and socket are external.  What the daemon writes to    *)
(* the socket reaches the host at once: what the host does with it is      *)
(* delayed in the queue to the daemon anyway.                              *)
(*                                                                         *)
(* A byte stands for a page of a pipe, the unit in which epoll says that a *)
(* pipe has room; the k-th byte put into a stream is the number k.         *)
(***************************************************************************)
EXTENDS Integers, Sequences, FiniteSetsExt

CONSTANTS
    Ids,          \* ids of processes, 0..255
    SIZE,         \* INTERNAL_PIPE_BUF_SIZE
    PIPE_CAP,     \* capacity of a pipe
    MaxCtrl, MaxStdin, MaxStdout, MaxStderr,   \* bounds: bytes put into a stream; if 0,
                  \* host and process leave the stream alone
    Cmds,         \* commands the host gives, besides OPEN
    Lens,         \* lengths of writes and sizes of acknowledgements of the host
    MaxQueue,     \* bound: commands of the host on their way
    MaxOpens,     \* bound: processes opened
    MaxConns,     \* bound: connections of the host
    MaxSpin,      \* bound: failed writes in one run of the write loop
    Races         \* orders of events the run allows, see below

(***************************************************************************)
(* Races:                                                                  *)
(*   "stale_event"  the socket is handled before other events of its batch *)
(*   "slow_reader"  a process leaves its pipe without room for the buffer  *)
(*   "broken_pipe"  a process ends its stdin while data is coming          *)
(*   "hangup"       the host goes away while there are other events, or in *)
(*                  the middle of a command                                *)
(***************************************************************************)
RaceNames == {"stale_event", "slow_reader", "broken_pipe", "hangup"}

OutRoles == {"ctrl", "stdin"}
InRoles == {"stdout", "stderr"}
Role == OutRoles \cup InRoles

MaxBytes(r) == CASE r = "ctrl" -> MaxCtrl [] r = "stdin" -> MaxStdin
                 [] r = "stdout" -> MaxStdout [] r = "stderr" -> MaxStderr

Used(r) == r = "ctrl" \/ MaxBytes(r) > 0

ASSUME ExecAssumption ==
    /\ SIZE \in Nat \ {0}
    /\ PIPE_CAP \in Nat \ {0}
    /\ {MaxCtrl, MaxStdin, MaxStdout, MaxStderr} \subseteq Nat
    /\ Cmds \subseteq {"RESET", "CLOSE", "KILL", "WRITE", "ACK", "CLOSE_STREAM"}
    /\ Lens \subseteq 1..SIZE
    /\ {MaxQueue, MaxOpens, MaxConns, MaxSpin} \subseteq Nat
    /\ Races \subseteq RaceNames

VARIABLES
    exit,       \* "no": the daemon runs; otherwise why it exited
    conn,       \* sock_fd is open; if not, the listener is polled
    events,     \* what is left of the batch of the last epoll_wait
    loop,       \* the write loop that failed to write everything
    proc,       \* which entries of processes[] are in use
    pid,        \* p->pid is not 0
    pb,         \* the four pipebuf_t of each process
    \* external
    peer,       \* the host is connected
    conns,      \* connections made
    opens,      \* processes opened
    queue,      \* commands from the host
    phase,      \* the host's view of an id: "free", "open", "closing"
    exits,      \* EXIT_STATUS received for an id
    child,      \* the process: "none", "command", "running", "zombie"
    sigchld,    \* SIGCHLD is pending
    io          \* outside ends of each stream

daemonVars == <<exit, conn, events, loop, proc, pid, pb>>
hostVars == <<peer, conns, opens, queue, phase, exits>>
vars == <<daemonVars, hostVars, child, sigchld, io>>

Garbage == 0
NoLoop == [left |-> 0]
Ring == 0..(SIZE - 1)

\* A pipebuf_t; fd: its descriptor is open, polled: how often it is registered with epoll.
ClosedBuf == [fd |-> FALSE, eof |-> FALSE, polled |-> 0, credit |-> 0,
              startpos |-> 0, endpos |-> 0, bufcount |-> 0, buffer |-> [p \in Ring |-> Garbage]]
\* The pipe of a stream and its two outside ends: far: the process has its end open;
\* put, got: bytes put in by the producer and got by the consumer; window: what the host
\* may still send, or has granted; asked: the host has asked to close it; ends: how often
\* the host was told that it has ended.
Outside == [pipe |-> <<>>, far |-> TRUE, put |-> 0, got |-> <<>>, window |-> 0,
            asked |-> FALSE, ends |-> 0]

Init ==
    /\ exit = "no"
    /\ conn = FALSE
    /\ events = {}
    /\ loop = NoLoop
    /\ proc = [i \in Ids |-> FALSE]
    /\ pid = [i \in Ids |-> FALSE]
    /\ pb = [i \in Ids |-> [r \in Role |-> ClosedBuf]]
    /\ peer = FALSE
    /\ conns = 0
    /\ opens = 0
    /\ queue = <<>>
    /\ phase = [i \in Ids |-> "free"]
    /\ exits = [i \in Ids |-> 0]
    /\ child = [i \in Ids |-> "none"]
    /\ sigchld = FALSE
    /\ io = [i \in Ids |-> [r \in Role |-> Outside]]

(***************************************************************************)
(* Pipe buffers: what the helpers of usbexecd.c make of one.               *)
(***************************************************************************)
NO_FLUSH == TRUE
FLUSH == FALSE

\* The next n bytes of the ring.
Bytes(b, n) == [i \in 1..n |-> b.buffer[(b.startpos + i - 1) % SIZE]]

\* Mutant: the end of the ring is not looked for.
Filled_unwrapped(b, bytes) ==
    [b EXCEPT !.buffer = [p \in Ring |-> IF p - b.endpos + 1 \in 1..Len(bytes)
                                         THEN bytes[p - b.endpos + 1] ELSE @[p]],
              !.endpos = @ + Len(bytes),
              !.bufcount = @ + Len(bytes)]

\* Reading into the ring and writing from it, in two parts where it wraps.
Filled(b, bytes) ==
    [b EXCEPT !.buffer = [p \in Ring |->
                            IF \E i \in 1..Len(bytes) : p = (b.endpos + i - 1) % SIZE
                            THEN bytes[CHOOSE i \in 1..Len(bytes) : p = (b.endpos + i - 1) % SIZE]
                            ELSE @[p]],
              !.endpos = (@ + Len(bytes)) % SIZE,
              !.bufcount = @ + Len(bytes)]
Drained(b, n) == [b EXCEPT !.startpos = (@ + n) % SIZE, !.bufcount = @ - n]

\* Closing a descriptor takes it out of epoll.
CloseSucceeds(b, noflush) == b.fd /\ (b.bufcount = 0 \/ noflush)
\* Mutant: what is left in the ring is dropped.
pipebuf_common_close_at_once(b, noflush) ==
    [b EXCEPT !.eof = TRUE, !.fd = FALSE, !.polled = 0,
              !.startpos = 0, !.endpos = 0, !.bufcount = 0]
pipebuf_common_close(b, noflush) ==
    IF CloseSucceeds(b, noflush)
    THEN [b EXCEPT !.eof = TRUE, !.fd = FALSE, !.polled = 0,
                   !.startpos = 0, !.endpos = 0, !.bufcount = 0]
    ELSE [b EXCEPT !.eof = TRUE]

\* Mutants: a stream that has ended is left open, and is closed before it is empty.
CloseIfEof_never(b) == b
CloseIfEof_unflushed(b) == IF b.eof THEN pipebuf_common_close(b, NO_FLUSH) ELSE b
CloseIfEof(b) == IF b.eof /\ b.bufcount = 0 THEN pipebuf_common_close(b, FLUSH) ELSE b

\* What pipebuf_in_write_to_sock sends of n bytes, and the buffer after it.
CreditLimit(b, n) == Min({b.bufcount, n, b.credit})
Sent(b, n) == LET k == CreditLimit(b, n) IN [Drained(b, k) EXCEPT !.credit = @ - k]

\* Registering a descriptor twice, or one that is closed, fails, and so does removing
\* one that is not registered: polled leaves 0..1, and the daemon exits.
\* Mutant: a pipe is never removed.
Add(b) == [b EXCEPT !.polled = @ + 1]
Del_never(b) == b
Del(b) == [b EXCEPT !.polled = @ - 1]
EpollFails(b) == b.polled \notin 0..1 \/ (b.polled = 1 /\ ~b.fd)

\* A stream whose handler leaves the buffer b and the outside io1, after having sent bytes.
\* The end of stdout or stderr is reported, and what was written acknowledged; writing to a
\* closed socket kills the daemon.
ToHost(i, r, b, io1, bytes) ==
    LET reports == pb[i][r].fd /\ ~b.fd /\ r \in InRoles
        acknowledges == io1.window # io[i][r].window
    IN  /\ pb' = [pb EXCEPT ![i][r] = b]
        /\ io' = [io EXCEPT ![i][r] = [io1 EXCEPT !.got = @ \o bytes,
                                               !.window = @ - Len(bytes),
                                               !.ends = IF reports THEN @ + 1 ELSE @]]
        /\ exit' = CASE EpollFails(b) -> "epoll"
                     [] ~peer /\ (reports \/ acknowledges \/ bytes # <<>>) -> "sigpipe"
                     [] OTHER -> exit

\* The daemon stops in the middle of a handler.
Exit(why) ==
    /\ exit' = why
    /\ UNCHANGED <<pb, io>>

(***************************************************************************)
(* Events of pipes                                                         *)
(***************************************************************************)

\* stdout or stderr of a process has data, or has ended.
pipebuf_in_to_internal_buffer(i, r) ==
    LET b0 == pb[i][r]
        k  == Min({SIZE - b0.bufcount, Len(io[i][r].pipe)})
        b1 == Filled(b0, SubSeq(io[i][r].pipe, 1, k))
        ended == b1.bufcount < SIZE /\ ~io[i][r].far
        b2 == IF ended THEN [Del(b1) EXCEPT !.eof = TRUE] ELSE b1
        b3 == IF b2.credit > 0 THEN Sent(b2, b2.bufcount) ELSE b2
        b4 == IF b3.bufcount = SIZE THEN Del(b3) ELSE CloseIfEof(b3)
    IN  ToHost(i, r, b4, [io[i][r] EXCEPT !.pipe = SubSeq(@, k + 1, Len(@))],
               Bytes(b2, b2.bufcount - b3.bufcount))

\* n bytes were written to ctrl or stdin: tell the host, and close if that was asked for.
\* Mutant: the credit is not counted.
Acknowledged_uncounted(b, n) == CloseIfEof(b)
Acknowledged(b, n) == CloseIfEof([b EXCEPT !.credit = @ + n])
Widened(io1, n) == [io1 EXCEPT !.window = @ + n]

Room(i, r) == PIPE_CAP - Len(io[i][r].pipe)

\* The pipe of ctrl or stdin has room.  A write that does not fit is repeated at once,
\* in write_from_pipebuf, until everything is written.
pipebuf_out_is_writable(i, r) ==
    LET b0 == pb[i][r]
        n  == Min({b0.bufcount, Room(i, r)})
        b1 == Drained(b0, n)
        io1 == [io[i][r] EXCEPT !.pipe = @ \o Bytes(b0, n)]
    IN  IF ~io[i][r].far THEN Exit("sigpipe") /\ UNCHANGED loop
        ELSE IF n = b0.bufcount
        THEN ToHost(i, r, Acknowledged(Del(b1), n), Widened(io1, n), <<>>) /\ UNCHANGED loop
        ELSE /\ "slow_reader" \in Races
             /\ ToHost(i, r, b1, io1, <<>>)
             /\ loop' = [left |-> b0.bufcount - n, total |-> b0.bufcount, id |-> i, role |-> r,
                         fails |-> 0]

\* The bytes at startpos, which may have become negative.
RawBytes(b, n) == [j \in 1..n |-> IF b.startpos + j - 1 \in Ring
                                  THEN b.buffer[b.startpos + j - 1] ELSE Garbage]
\* Positions after a write that returned n.
Written(b, n) == [b EXCEPT !.startpos = IF @ + n = SIZE THEN 0 ELSE @ + n, !.bufcount = @ - n]

\* One more write of the loop.  If the pipe is full it returns -1, which is taken for the
\* number of bytes written.
WriteLoop ==
    /\ exit = "no"
    /\ loop # NoLoop
    /\ LET i == loop.id
           r == loop.role
           b0 == pb[i][r]
           n == Min({loop.left, Room(i, r), SIZE - b0.startpos})
           io1 == [io[i][r] EXCEPT !.pipe = @ \o RawBytes(b0, n)]
       IN  IF ~io[i][r].far THEN Exit("sigpipe") /\ UNCHANGED loop
           ELSE IF n = 0
           THEN /\ loop.fails < MaxSpin
                /\ ToHost(i, r, Written(b0, -1), io[i][r], <<>>)
                /\ loop' = [loop EXCEPT !.left = @ + 1, !.fails = @ + 1]
           ELSE IF n < loop.left
           THEN /\ ToHost(i, r, Written(b0, n), io1, <<>>)
                /\ loop' = [loop EXCEPT !.left = @ - n]
           ELSE /\ ToHost(i, r, Acknowledged(Del(Written(b0, n)), loop.total),
                          Widened(io1, loop.total), <<>>)
                /\ loop' = NoLoop
    /\ UNCHANGED <<conn, events, proc, pid, hostVars, child, sigchld>>

(***************************************************************************)
(* Commands of the host                                                    *)
(***************************************************************************)

\* The daemon is told how much of stdout or stderr the host can take.
\* Mutant: data that waited for the credit goes on waiting.
pipebuf_in_ack_silent(i, r, n) ==
    LET b0 == pb[i][r]
        b1 == IF b0.bufcount = SIZE THEN Add(b0) ELSE b0
    IN  ToHost(i, r, CloseIfEof([b1 EXCEPT !.credit = @ + n]), io[i][r], <<>>)
pipebuf_in_ack(i, r, n) ==
    LET b0 == pb[i][r]
        b1 == IF b0.bufcount = SIZE THEN Add(b0) ELSE b0
        b2 == [b1 EXCEPT !.credit = @ + n]
        b3 == Sent(b2, n)
    IN  ToHost(i, r, CloseIfEof(b3), io[i][r], Bytes(b2, b2.bufcount - b3.bufcount))

\* The host writes to ctrl or stdin.
pipebuf_out_to_internal_buffer(i, r, from, n) ==
    LET b0 == pb[i][r]
        b1 == IF b0.bufcount = 0 THEN Add(b0) ELSE b0
        b2 == [Filled(b1, [k \in 1..n |-> from + k]) EXCEPT !.credit = @ - n]
    IN  IF b0.eof THEN Exit("closed_stream")
        ELSE ToHost(i, r, b2, io[i][r], <<>>)

\* The four pipes of a new process, two of them writable and two readable.
NewBuf(r) == [ClosedBuf EXCEPT !.fd = TRUE,
                               !.polled = IF r \in InRoles THEN 1 ELSE 0,
                               !.credit = IF r \in OutRoles THEN SIZE ELSE 0]

Open(i) ==
    IF proc[i] THEN Exit("in_use") /\ UNCHANGED <<proc, pid, child>>
    ELSE /\ proc' = [proc EXCEPT ![i] = TRUE]
         /\ pid' = [pid EXCEPT ![i] = TRUE]
         /\ child' = [child EXCEPT ![i] = "command"]
         /\ pb' = [pb EXCEPT ![i] = [r \in Role |-> NewBuf(r)]]
         /\ io' = [io EXCEPT ![i] = [r \in Role |->
                    IF r \in OutRoles THEN Widened(@[r], SIZE) ELSE @[r]]]
         /\ exit' = IF peer THEN exit ELSE "sigpipe"

\* Whether a process may end a stream without killing the daemon.
MayEnd(i, r) == r \in InRoles \/ io[i][r].put = Len(io[i][r].got) \/ "broken_pipe" \in Races

\* The process is killed and waited for, its descriptors are closed, and the memory is freed.
Alive(i) == child[i] \in {"command", "running"}
close_process(ids) ==
    /\ child' = [i \in Ids |-> IF i \in ids THEN "none" ELSE child[i]]
    /\ sigchld' = (sigchld \/ \E i \in ids : Alive(i))
    /\ pid' = [i \in Ids |-> pid[i] /\ i \notin ids]
    /\ pb' = [i \in Ids |-> IF i \in ids THEN [r \in Role |-> ClosedBuf] ELSE pb[i]]
    /\ proc' = [i \in Ids |-> proc[i] /\ i \notin ids]

\* Mutant: streams that still hold data are closed without a word.
EndsAfterClose_flushing(i, r) ==
    io[i][r].ends + IF r \in InRoles /\ CloseSucceeds(pb[i][r], FLUSH) THEN 1 ELSE 0
EndsAfterClose(i, r) ==
    io[i][r].ends + IF r \in InRoles /\ CloseSucceeds(pb[i][r], NO_FLUSH) THEN 1 ELSE 0

Close(i) ==
    /\ close_process({i})
    /\ io' = [io EXCEPT ![i] = [r \in Role |-> [Outside EXCEPT !.ends = EndsAfterClose(i, r)]]]
    /\ phase' = [phase EXCEPT ![i] = "free"]
    /\ exit' = IF peer THEN exit ELSE "sigpipe"

\* The signal may end the process or not.  Before it executed the command it is alone with
\* its pipes.
Kill(i) ==
    \/ /\ pid[i] /\ Alive(i)
       /\ child[i] = "command" => MayEnd(i, "ctrl") /\ MayEnd(i, "stdin")
       /\ child' = [child EXCEPT ![i] = "zombie"]
       /\ sigchld' = TRUE
       /\ io' = IF child[i] = "command"
               THEN [io EXCEPT ![i] = [r \in Role |-> [@[r] EXCEPT !.far = FALSE]]] ELSE io
    \/ UNCHANGED <<child, sigchld, io>>

\* The socket is closed, with what was still to be read from it.
handle_socket_closed == conn' = FALSE /\ queue' = <<>>

wipe_existing_processes == close_process({i \in Ids : proc[i]})

\* The connection has ended; without conn the listener is polled again.  What the host
\* keeps of the connection goes with it.
handle_closed_spid_socket ==
    /\ handle_socket_closed
    /\ wipe_existing_processes
    /\ phase' = [i \in Ids |-> "free"]
    /\ exits' = [i \in Ids |-> 0]
    /\ io' = [i \in Ids |-> [r \in Role |-> Outside]]
    /\ UNCHANGED <<exit, loop, peer, conns, opens>>

\* A command of the host that reached the daemon in whole.
Command(m) ==
    LET i == m.id
        r == m.role
    IN  \/ /\ m.cmd = "RESET"
           /\ Exit("reset")
           /\ UNCHANGED <<proc, pid, phase, child, sigchld>>
        \/ /\ m.cmd = "OPEN"
           /\ Open(i)
           /\ UNCHANGED <<phase, sigchld>>
        \/ /\ m.cmd \notin {"RESET", "OPEN"}
           /\ ~proc[i]
           /\ Exit("no_process")
           /\ UNCHANGED <<proc, pid, phase, child, sigchld>>
        \/ /\ proc[i]
           /\ \/ /\ m.cmd = "CLOSE"
                 /\ Close(i)
              \/ /\ m.cmd = "KILL"
                 /\ Kill(i)
                 /\ UNCHANGED <<exit, proc, pid, pb, phase>>
              \/ /\ \/ m.cmd = "WRITE" /\ pipebuf_out_to_internal_buffer(i, r, m.from, m.n)
                    \/ m.cmd = "ACK" /\ pipebuf_in_ack(i, r, m.n)
                    \/ /\ m.cmd = "CLOSE_STREAM"
                       /\ ToHost(i, r, pipebuf_common_close(pb[i][r], FLUSH), io[i][r], <<>>)
                 /\ UNCHANGED <<proc, pid, phase, child, sigchld>>

\* The socket is readable.  The host may have gone after part of a command: in the header
\* that makes the daemon exit, in the bytes that follow it closes the connection.
handle_socket_readable ==
    LET m == Head(queue)
    IN  \/ /\ m.part = "all"
           /\ Command(m)
           /\ queue' = Tail(queue)
           /\ UNCHANGED <<conn, loop, peer, conns, opens, exits>>
        \/ /\ m.part = "header"
           /\ Exit("cut")
           /\ UNCHANGED <<conn, loop, proc, pid, hostVars, child, sigchld>>
        \/ /\ m.part = "body"
           /\ handle_closed_spid_socket

\* Children have died: their statuses are collected and reported.
handle_sigchld ==
    LET dead == {i \in Ids : child[i] = "zombie"}
    IN  /\ sigchld' = FALSE
        /\ child' = [i \in Ids |-> IF i \in dead THEN "reaped" ELSE child[i]]
        /\ pid' = [i \in Ids |-> pid[i] /\ i \notin dead]
        /\ exits' = [i \in Ids |-> IF i \in dead THEN exits[i] + 1 ELSE exits[i]]
        /\ exit' = IF dead # {} /\ ~peer THEN "sigpipe" ELSE exit
        /\ UNCHANGED <<conn, loop, proc, pb, peer, conns, opens, queue, phase, io>>

(***************************************************************************)
(* The event loop                                                          *)
(***************************************************************************)
\* An event of a pipe is its process and role.
Listener == <<-1, "listener">>
Socket == <<-1, "socket">>
Hangup == <<-1, "hangup">>
Signal == <<-1, "signal">>

PipeReady(i, r) ==
    /\ pb[i][r].polled = 1
    /\ IF r \in InRoles THEN io[i][r].pipe # <<>> \/ ~io[i][r].far
                        ELSE Room(i, r) > 0 \/ ~io[i][r].far

Ready ==
    {e \in {Listener, Socket, Hangup, Signal} :
        \/ e = Listener /\ ~conn /\ peer
        \/ e = Socket /\ conn /\ peer /\ queue # <<>>
        \/ e = Hangup /\ conn /\ ~peer
        \/ e = Signal /\ sigchld}
    \cup {e \in Ids \X Role : PipeReady(e[1], e[2])}

epoll_wait ==
    /\ exit = "no"
    /\ loop = NoLoop
    /\ events = {}
    /\ Ready # {}
    /\ events' = IF conn /\ ~peer /\ "hangup" \notin Races THEN {Hangup} ELSE Ready
    /\ UNCHANGED <<exit, conn, loop, proc, pid, pb, hostVars, child, sigchld, io>>

\* The listener is polled no more, the socket is.
handle_incoming_spid_socket == conn' = TRUE

\* Events whose handling may free or close what other events of the batch are about.
Frees(e) ==
    \/ e = Hangup
    \/ /\ e = Socket
       /\ LET m == Head(queue)
          IN  \/ m.part # "all"
              \/ m.cmd \in {"CLOSE", "CLOSE_STREAM"}
              \/ m.cmd = "ACK" /\ pb[m.id][m.role].eof

\* An event of a pipe that has been closed or freed since epoll_wait returned: the
\* daemon reads freed memory, or its next call on the descriptor fails.
Stale(e) == e \in Ids \X Role /\ ~pb[e[1]][e[2]].fd

Handle(e) ==
    /\ exit = "no"
    /\ loop = NoLoop
    /\ e \in events
    /\ events = {e} \/ ~Frees(e) \/ "stale_event" \in Races
    /\ events' = events \ {e}
    /\ \/ /\ e = Listener
          /\ handle_incoming_spid_socket
          /\ UNCHANGED <<exit, loop, proc, pid, pb, hostVars, child, sigchld, io>>
       \/ /\ e = Hangup
          /\ handle_closed_spid_socket
       \/ /\ e = Socket
          /\ handle_socket_readable
       \/ /\ e = Signal
          /\ handle_sigchld
       \/ /\ Stale(e)
          /\ Exit("stale_event")
          /\ UNCHANGED <<conn, loop, proc, pid, hostVars, child, sigchld>>
       \/ /\ e \in Ids \X Role
          /\ ~Stale(e)
          /\ IF e[2] \in InRoles
             THEN pipebuf_in_to_internal_buffer(e[1], e[2]) /\ UNCHANGED loop
             ELSE pipebuf_out_is_writable(e[1], e[2])
          /\ UNCHANGED <<conn, proc, pid, hostVars, child, sigchld>>

(***************************************************************************)
(* Processes.  Once started, a process or its descendants use and close    *)
(* its standard streams independently of its exit.                         *)
(***************************************************************************)
Started(i) == child[i] \in {"running", "zombie", "reaped"}

ChildRead(i, r) ==
    /\ io[i][r].far /\ io[i][r].pipe # <<>>
    /\ IF r = "ctrl" THEN child[i] = "command" ELSE Started(i)
    /\ io' = [io EXCEPT ![i][r].got = Append(@, Head(io[i][r].pipe)), ![i][r].pipe = Tail(@)]
    /\ UNCHANGED <<daemonVars, hostVars, child, sigchld>>

\* The command is read until the end of ctrl, then executed.
ChildExec(i) ==
    /\ child[i] = "command"
    /\ io[i]["ctrl"].pipe = <<>> /\ ~pb[i]["ctrl"].fd
    /\ child' = [child EXCEPT ![i] = "running"]
    /\ UNCHANGED <<daemonVars, hostVars, sigchld, io>>

ChildWrite(i, r) ==
    /\ Started(i)
    /\ io[i][r].far /\ pb[i][r].fd
    /\ Len(io[i][r].pipe) < PIPE_CAP
    /\ io[i][r].put < MaxBytes(r)
    /\ io' = [io EXCEPT ![i][r].put = @ + 1, ![i][r].pipe = Append(@, io[i][r].put + 1)]
    /\ UNCHANGED <<daemonVars, hostVars, child, sigchld>>

ChildCloseEnd(i, r) ==
    /\ Started(i)
    /\ r # "ctrl" /\ Used(r)
    /\ io[i][r].far /\ pb[i][r].fd
    /\ MayEnd(i, r)
    /\ io' = [io EXCEPT ![i][r].far = FALSE]
    /\ UNCHANGED <<daemonVars, hostVars, child, sigchld>>

ChildExit(i) ==
    /\ child[i] = "running"
    /\ child' = [child EXCEPT ![i] = "zombie"]
    /\ sigchld' = TRUE
    /\ UNCHANGED <<daemonVars, hostVars, io>>

(***************************************************************************)
(* The host                                                                *)
(***************************************************************************)
Send(cmd, i, r, n) ==
    /\ cmd \in Cmds
    /\ peer
    /\ Len(queue) < MaxQueue
    /\ queue' = Append(queue, [cmd |-> cmd, id |-> i, role |-> r, n |-> n,
                               from |-> io[i][r].put, part |-> "all"])
    /\ UNCHANGED <<daemonVars, peer, conns, exits, child, sigchld>>

HostConnect ==
    /\ ~peer /\ ~conn
    /\ conns < MaxConns
    /\ peer' = TRUE
    /\ conns' = conns + 1
    /\ UNCHANGED <<daemonVars, opens, queue, phase, exits, child, sigchld, io>>

HostOpen(i) ==
    /\ phase[i] = "free"
    /\ opens < MaxOpens
    /\ peer /\ Len(queue) < MaxQueue
    /\ queue' = Append(queue, [cmd |-> "OPEN", id |-> i, role |-> "ctrl", n |-> 0,
                               from |-> 0, part |-> "all"])
    /\ phase' = [phase EXCEPT ![i] = "open"]
    /\ opens' = opens + 1
    /\ exits' = [exits EXCEPT ![i] = 0]
    /\ io' = [io EXCEPT ![i] = [r \in Role |-> Outside]]
    /\ UNCHANGED <<daemonVars, peer, conns, child, sigchld>>

HostWrite(i, r, n) ==
    /\ phase[i] = "open"
    /\ n <= io[i][r].window
    /\ ~io[i][r].asked
    /\ io[i][r].put + n <= MaxBytes(r)
    /\ io[i][r].far \/ "broken_pipe" \in Races
    /\ Send("WRITE", i, r, n)
    /\ io' = [io EXCEPT ![i][r].put = @ + n, ![i][r].window = @ - n]
    /\ UNCHANGED <<opens, phase>>

HostAck(i, r, n) ==
    /\ phase[i] = "open"
    /\ Len(io[i][r].got) + io[i][r].window + n <= MaxBytes(r)
    /\ Send("ACK", i, r, n)
    /\ io' = [io EXCEPT ![i][r].window = @ + n]
    /\ UNCHANGED <<opens, phase>>

HostCloseStream(i, r) ==
    /\ phase[i] = "open"
    /\ Used(r) /\ ~io[i][r].asked
    /\ Send("CLOSE_STREAM", i, r, 0)
    /\ io' = [io EXCEPT ![i][r].asked = TRUE]
    /\ UNCHANGED <<opens, phase>>

HostKill(i) ==
    /\ phase[i] = "open"
    /\ Send("KILL", i, "ctrl", 0)
    /\ UNCHANGED <<opens, phase, io>>

HostClose(i) ==
    /\ phase[i] = "open"
    /\ Send("CLOSE", i, "ctrl", 0)
    /\ phase' = [phase EXCEPT ![i] = "closing"]
    /\ UNCHANGED <<opens, io>>

HostReset ==
    /\ \E i \in Ids : Send("RESET", i, "ctrl", 0)
    /\ UNCHANGED <<opens, phase, io>>

\* The host goes away; its last command may not have been written in whole.
HostHangup ==
    /\ peer /\ conn
    /\ events = {} \/ "hangup" \in Races
    /\ peer' = FALSE
    /\ \/ UNCHANGED queue
       \/ /\ "hangup" \in Races
          /\ queue # <<>>
          /\ \E part \in {"header", "body"} :
                /\ part = "body" => queue[Len(queue)].cmd = "WRITE"
                /\ queue' = [queue EXCEPT ![Len(queue)].part = part]
    /\ UNCHANGED <<daemonVars, conns, opens, phase, exits, child, sigchld, io>>

(***************************************************************************)
(* Specification                                                           *)
(***************************************************************************)
HandleEvent == \E e \in events : Handle(e)

Process(i) ==
    \/ ChildExec(i)
    \/ ChildExit(i)
    \/ \E r \in Role : ChildCloseEnd(i, r)
    \/ \E r \in OutRoles : ChildRead(i, r)
    \/ \E r \in InRoles : ChildWrite(i, r)

Host ==
    \/ HostConnect
    \/ HostHangup
    \/ HostReset
    \/ \E i \in Ids :
         \/ HostOpen(i)
         \/ HostKill(i)
         \/ HostClose(i)
         \/ \E r \in Role : HostCloseStream(i, r)
         \/ \E r \in OutRoles, n \in Lens : HostWrite(i, r, n)
         \/ \E r \in InRoles, n \in Lens : HostAck(i, r, n)

Daemon == epoll_wait \/ HandleEvent \/ WriteLoop

Next == exit = "no" /\ (Daemon \/ Host \/ \E i \in Ids : Process(i))

Spec == Init /\ [][Next]_vars

\* The daemon runs, and a process reads what it is sent.  Nothing else need happen.
FairSpec ==
    /\ Spec
    /\ WF_vars(Daemon)
    /\ \A i \in Ids : WF_vars(ChildExec(i)) /\ \A r \in OutRoles : WF_vars(ChildRead(i, r))

(***************************************************************************)
(* Properties                                                              *)
(***************************************************************************)

SumOf(s) ==
    LET sum[k \in 0..Len(s)] == IF k = 0 THEN 0 ELSE sum[k - 1] + s[k] IN sum[Len(s)]

\* The bytes of a stream's commands in a queue.
Amount(m, cmd, i, r) == IF m.cmd = cmd /\ m.id = i /\ m.role = r THEN m.n ELSE 0
Amounts(q, cmd, i, r) == [k \in 1..Len(q) |-> Amount(q[k], cmd, i, r)]
QueuedBytes(cmd, i, r) == SumOf(Amounts(queue, cmd, i, r))

\* Every variable stays in range: in particular no ring holds more than fits, and no
\* credit is negative.
TypeOK ==
    /\ exit \in {"no", "reset", "epoll", "sigpipe", "closed_stream", "in_use", "no_process",
                 "cut", "stale_event"}
    /\ {conn, peer, sigchld} \subseteq BOOLEAN
    /\ proc \in [Ids -> BOOLEAN] /\ pid \in [Ids -> BOOLEAN]
    /\ child \in [Ids -> {"none", "command", "running", "zombie", "reaped"}]
    /\ phase \in [Ids -> {"free", "open", "closing"}]
    /\ \A i \in Ids, r \in Role :
         /\ pb[i][r].startpos \in Ring /\ pb[i][r].endpos \in Ring
         /\ pb[i][r].bufcount \in 0..SIZE
         /\ pb[i][r].credit \in Nat
         /\ io[i][r].window \in Nat
         /\ Len(io[i][r].pipe) <= PIPE_CAP

\* The daemon holds data for a process that has ended its stdin.
Orphaned == \E i \in Ids, r \in OutRoles : pb[i][r].bufcount > 0 /\ ~io[i][r].far

\* In whatever order events, commands and the ends of streams come, a host that keeps to
\* the protocol makes the daemon exit in four ways only: by resetting it, by an event of a
\* stream that was closed earlier in the batch (usbexecd.c:1155-1183), by SIGPIPE when the
\* host, or the reader of what the ring holds, is gone (261, 411, 694), and by going away in
\* the header of a command (748).  No stream is registered twice with epoll or removed twice
\* (287-315, 560), and no command comes for a process or a stream that the daemon has
\* closed (602, 762, 777), however late it learned that it should close it.
ExitsExplained ==
    [][exit' # exit =>
         \/ exit' \in {"reset", "stale_event"}
         \/ exit' = "sigpipe" /\ (~peer \/ Orphaned)
         \/ exit' = "cut" /\ ~peer]_vars

\* The daemon goes on until the host resets it.
RunsOn == exit \in {"no", "reset"}

\* Credit is neither lost nor made: what the host may still send to a process, what is on
\* its way and what the ring holds fill the ring, and what the host granted stdout and
\* stderr is what the daemon counts, or on its way to it (usbexecd.c:434, 468, 579-581, 655,
\* 694: the arithmetic of pb->credit, which the code never checks).
CreditsAgree ==
    \A i \in Ids : proc[i] /\ phase[i] = "open" =>
        /\ \A r \in OutRoles :
             /\ io[i][r].window + QueuedBytes("WRITE", i, r) + pb[i][r].bufcount = SIZE
             /\ pb[i][r].credit + pb[i][r].bufcount = SIZE
        /\ \A r \in InRoles : pb[i][r].credit + QueuedBytes("ACK", i, r) = io[i][r].window

\* Streams as ByteStream sees them.  ctrl and stdin end when the daemon has closed its end
\* and the pipe is empty, stdout and stderr when the host is told so; a host that asks to
\* close one of the latter drops it.
Ended(i, r) ==
    IF r \in InRoles THEN io[i][r].ends > 0 ELSE ~pb[i][r].fd /\ io[i][r].pipe = <<>>
Dropped(i, r) == ~proc[i] \/ (r \in InRoles /\ io[i][r].asked)
StreamMode(S) == [s \in S |-> CASE Dropped(s[1], s[2]) -> "off" [] Ended(s[1], s[2]) -> "done"
                                 [] OTHER -> "open"]
StreamPut(S) == [s \in S |-> IF Dropped(s[1], s[2]) THEN 0 ELSE io[s[1]][s[2]].put]
StreamGot(S) == [s \in S |-> IF Dropped(s[1], s[2]) THEN <<>> ELSE io[s[1]][s[2]].got]

\* What the host writes to a process is what the process reads, whole, in order and once,
\* and it reads the end only after all of it (pipebuf_out_to_internal_buffer,
\* pipebuf_out_is_writable and the deferred close, usbexecd.c:599-686).
InputStreams == Ids \X OutRoles
Input == INSTANCE ByteStream WITH
    Streams <- InputStreams, mode <- StreamMode(InputStreams),
    put <- StreamPut(InputStreams), got <- StreamGot(InputStreams)
InputImplemented == Input!Spec

\* What a process writes is what the host gets, and it is told of the end only after all of
\* it, whichever of the ring, the credit or the pipe held it up (usbexecd.c:401-568).
OutputStreams == Ids \X InRoles
Output == INSTANCE ByteStream WITH
    Streams <- OutputStreams, mode <- StreamMode(OutputStreams),
    put <- StreamPut(OutputStreams), got <- StreamGot(OutputStreams)
OutputImplemented == Output!Spec

\* When the host learns that a process is closed, it has been told once, and only once,
\* that stdout and stderr have ended, and at most once how the process exited
\* (close_process closes what is open whatever it holds; usbexecd.c:715-734, 842, 973).
ClosedAfterStreams ==
    [][\A i \in Ids : phase[i] = "closing" /\ phase'[i] = "free" /\ conn' =>
            exits[i] <= 1 /\ \A r \in InRoles : io'[i][r].ends = 1]_vars

\* A process the host has open, on a connection that holds.
Serving(i) == exit = "no" /\ peer /\ phase[i] = "open"

\* Data moves on: time and again nothing is held up.  What the host writes gets to the
\* process unless it ended the stream, and what a process writes gets to the host as far as
\* it granted: a stream that holds data is registered with epoll, or its credit is used up
\* (usbexecd.c:464, 558, 610, 670).
HeldUp(i, r) ==
    /\ Serving(i)
    /\ Len(io[i][r].got) < io[i][r].put
    /\ r = "stdin" => Started(i)
    /\ IF r \in InRoles THEN io[i][r].window > 0 /\ ~io[i][r].asked ELSE io[i][r].far
StreamsFlow == []<>(\A i \in Ids, r \in Role : ~HeldUp(i, r))

\* The ends of stdout and stderr are reported once the host has granted what was written,
\* and the exit of a process is (usbexecd.c:479, 564, 948-973).
Unreported(i) ==
    /\ Serving(i)
    /\ \/ child[i] \in {"zombie", "reaped"} /\ exits[i] = 0
       \/ \E r \in InRoles : /\ ~io[i][r].far /\ io[i][r].ends = 0
                             /\ Len(io[i][r].got) + io[i][r].window >= io[i][r].put
EndsReported == []<>(\A i \in Ids : ~Unreported(i))
=============================================================================
