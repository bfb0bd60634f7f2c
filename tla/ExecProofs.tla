----------------------------- MODULE ExecProofs -----------------------------
(***************************************************************************)
(* Proofs about the USB daemon: its variables keep their ranges and credit *)
(* is neither lost nor made, if processes leave their pipes room; and,     *)
(* without races, it never exits.  Sums over the queue come first, then    *)
(* the invariants, what each helper makes of a buffer, one lemma per       *)
(* handler, command and step of a process or of the host, and the          *)
(* theorems; last what holds without races.                                *)
(***************************************************************************)
EXTENDS UsbExecd, TLAPS, WellFoundedInduction

---------------------------------------------------------------------------
(* Sums over sequences.                                                    *)

Less == {ss \in Nat \X Nat : ss[1] < ss[2]}
\* Induction over the natural numbers, in terms of sets: WFMin, unlike the induction
\* theorems, is about sets only.
LEMMA LessWF == IsWellFoundedOn(Less, Nat)
BY NatLessThanWellFounded DEF OpToRel, Less

LEMMA Least ==
    ASSUME NEW T \in SUBSET Nat, T # {}
    PROVE  \E n \in T : \A m \in T : n <= m
<1>1. PICK x \in T : \A y \in T : ~(<<y, x>> \in Less)
  BY LessWF, WFMin
<1>2. ASSUME NEW y \in T PROVE x <= y
  <2>1. x \in Nat /\ y \in Nat
    OBVIOUS
  <2>2. ~(<<y, x>>[1] < <<y, x>>[2])
    BY <1>1, <2>1 DEF Less
  <2> QED BY <2>1, <2>2
<1> QED BY <1>2

LEMMA NatInduct ==
    ASSUME NEW S \in SUBSET Nat, 0 \in S, \A n \in S : n + 1 \in S
    PROVE  S = Nat
<1> SUFFICES ASSUME S # Nat PROVE FALSE
  OBVIOUS
<1>1. PICK n \in Nat \ S : \A m \in Nat \ S : n <= m
  BY Least
<1>2. n - 1 \in Nat /\ n - 1 < n
  BY <1>1
<1>3. n - 1 \in S
  BY <1>1, <1>2
<1> QED BY <1>1, <1>2, <1>3

\* The sums of the first elements of s.
SumsOf(s, g) == g = [k \in 0..Len(s) |-> IF k = 0 THEN 0 ELSE g[k - 1] + s[k]]

LEMMA SumsExist == \A s \in Seq(Nat) : \E g \in [0..Len(s) -> Nat] : SumsOf(s, g)
<1> DEFINE S == {n \in Nat : \A s \in Seq(Nat) :
                          Len(s) = n => \E g \in [0..Len(s) -> Nat] : SumsOf(s, g)}
<1>1. 0 \in S
  <2>1. ASSUME NEW s \in Seq(Nat), Len(s) = 0 PROVE \E g \in [0..Len(s) -> Nat] : SumsOf(s, g)
    <3> DEFINE g == [k \in 0..Len(s) |-> 0]
    <3>1. g \in [0..Len(s) -> Nat] /\ SumsOf(s, g)
      BY <2>1 DEF SumsOf
    <3> QED BY <3>1
  <2> QED BY <2>1
<1>2. ASSUME NEW n \in S PROVE n + 1 \in S
  <2>1. ASSUME NEW s \in Seq(Nat), Len(s) = n + 1 PROVE \E g \in [0..Len(s) -> Nat] : SumsOf(s, g)
    <3> DEFINE s1 == SubSeq(s, 1, n)
    <3>1. s1 \in Seq(Nat) /\ Len(s1) = n /\ \A k \in 1..n : s1[k] = s[k]
      BY <2>1
    <3> HIDE DEF s1
    <3>2. PICK h \in [0..n -> Nat] : SumsOf(s1, h)
      BY <3>1
    <3> DEFINE g == [k \in 0..Len(s) |-> IF k = n + 1 THEN h[n] + s[n + 1] ELSE h[k]]
    <3>3. g \in [0..Len(s) -> Nat]
      BY <2>1, <3>2
    <3>4. \A k \in 0..n : h[k] = IF k = 0 THEN 0 ELSE h[k - 1] + s[k]
      BY <3>1, <3>2 DEF SumsOf
    <3>5. \A k \in 0..Len(s) : g[k] = IF k = 0 THEN 0 ELSE g[k - 1] + s[k]
      BY <2>1, <3>4
    <3>6. SumsOf(s, g)
      BY <3>3, <3>5 DEF SumsOf
    <3> QED BY <3>3, <3>6
  <2> QED BY <2>1
<1>3. S = Nat
  <2> HIDE DEF S
  <2>1. S \in SUBSET Nat
    BY DEF S
  <2> QED BY <1>1, <1>2, <2>1, NatInduct
<1> QED BY <1>3

LEMMA SumsEqual ==
    ASSUME NEW s \in Seq(Nat), NEW g \in [0..Len(s) -> Nat], SumsOf(s, g), NEW h, SumsOf(s, h)
    PROVE  h = g
<1> DEFINE S == {n \in Nat : n <= Len(s) => h[n] = g[n]}
<1>1. 0 \in S
  BY DEF SumsOf
<1>2. ASSUME NEW n \in S PROVE n + 1 \in S
  BY DEF SumsOf
<1>3. S = Nat
  <2> HIDE DEF S
  <2>1. S \in SUBSET Nat
    BY DEF S
  <2> QED BY <1>1, <1>2, <2>1, NatInduct
<1>4. \A n \in 0..Len(s) : h[n] = g[n]
  BY <1>3
<1> QED BY <1>4 DEF SumsOf

LEMMA SumIs ==
    ASSUME NEW s \in Seq(Nat), NEW g \in [0..Len(s) -> Nat], SumsOf(s, g)
    PROVE  SumOf(s) = g[Len(s)]
<1> DEFINE h == CHOOSE f : SumsOf(s, f)
<1>1. SumsOf(s, h)
  OBVIOUS
<1>2. h = g
  BY <1>1, SumsEqual
<1>3. SumOf(s) = h[Len(s)]
  BY DEF SumOf, SumsOf
<1> QED BY <1>2, <1>3

LEMMA SumEmpty == SumOf(<<>>) = 0
<1>1. SumsOf(<<>>, [k \in 0..0 |-> 0]) /\ [k \in 0..0 |-> 0] \in [0..Len(<<>>) -> Nat] /\ <<>> \in Seq(Nat)
  BY DEF SumsOf
<1> HIDE DEF SumsOf
<1> QED BY <1>1, SumIs

LEMMA SumType == ASSUME NEW s \in Seq(Nat) PROVE SumOf(s) \in Nat
<1>1. PICK g \in [0..Len(s) -> Nat] : SumsOf(s, g)
  BY SumsExist
<1> QED BY <1>1, SumIs

LEMMA SumAppend ==
    ASSUME NEW s \in Seq(Nat), NEW e \in Nat
    PROVE  SumOf(Append(s, e)) = SumOf(s) + e
<1> DEFINE t == Append(s, e)
<1>1. t \in Seq(Nat) /\ Len(t) = Len(s) + 1 /\ t[Len(s) + 1] = e /\ \A k \in 1..Len(s) : t[k] = s[k]
  OBVIOUS
<1> HIDE DEF t
<1>2. PICK g \in [0..Len(t) -> Nat] : SumsOf(t, g)
  BY <1>1, SumsExist
<1> DEFINE h == [k \in 0..Len(s) |-> g[k]]
<1>3. h \in [0..Len(s) -> Nat]
  BY <1>1
<1>4. SumsOf(s, h)
  <2>1. \A k \in 0..Len(t) : g[k] = IF k = 0 THEN 0 ELSE g[k - 1] + t[k]
    BY <1>2 DEF SumsOf
  <2>2. \A k \in 0..Len(s) : k \in 0..Len(t) /\ (k # 0 => k \in 1..Len(s) /\ k - 1 \in 0..Len(s))
    BY <1>1
  <2>3. \A k \in 0..Len(s) : h[k] = IF k = 0 THEN 0 ELSE h[k - 1] + s[k]
    BY <1>1, <2>1, <2>2
  <2> QED BY <2>3 DEF SumsOf
<1>5. SumOf(s) = g[Len(s)]
  BY <1>3, <1>4, SumIs
<1>6. SumOf(t) = g[Len(s) + 1]
  BY <1>1, <1>2, SumIs
<1>7. g[Len(s) + 1] = g[Len(s)] + e
  BY <1>1, <1>2 DEF SumsOf
<1> QED BY <1>5, <1>6, <1>7 DEF t

LEMMA SumTail ==
    ASSUME NEW s \in Seq(Nat), s # <<>>
    PROVE  SumOf(s) = Head(s) + SumOf(Tail(s))
<1> DEFINE t == Tail(s)
           e == Head(s)
<1>1. /\ t \in Seq(Nat) /\ Len(s) = Len(t) + 1 /\ e \in Nat /\ s[1] = e
      /\ \A k \in 1..Len(t) : t[k] = s[k + 1]
  OBVIOUS
<1> HIDE DEF t, e
<1>2. PICK g \in [0..Len(t) -> Nat] : SumsOf(t, g)
  BY <1>1, SumsExist
<1>3. Len(t) \in Nat
  BY <1>1
<1> DEFINE h == [k \in 0..Len(s) |-> IF k = 0 THEN 0 ELSE e + g[k - 1]]
<1>4. \A k \in 1..Len(s) : k - 1 \in 0..Len(t)
  BY <1>1, <1>3
<1>5. h \in [0..Len(s) -> Nat]
  BY <1>1, <1>4
<1>6. \A k \in 0..Len(t) : g[k] = IF k = 0 THEN 0 ELSE g[k - 1] + t[k]
  BY <1>2 DEF SumsOf
<1>7. ASSUME NEW k \in 1..Len(s) PROVE h[k] = h[k - 1] + s[k]
  <2>1. CASE k = 1
    <3>1. h[1] = e + g[0] /\ h[0] = 0 /\ g[0] = 0
      BY <1>1, <1>3, <1>6
    <3> QED BY <1>1, <2>1, <3>1
  <2>2. CASE k > 1
    <3>1. k - 1 \in 1..Len(t) /\ k - 2 \in 0..Len(t) /\ (k - 1) - 1 = k - 2 /\ (k - 1) + 1 = k
      BY <1>1, <1>3, <2>2
    <3>2. h[k] = e + g[k - 1] /\ h[k - 1] = e + g[k - 2]
      BY <1>1, <1>3, <2>2, <3>1
    <3>a. t[k - 1] = s[k]
      <4>1. \A j \in 1..Len(t) : t[j] = s[j + 1]
        BY <1>1
      <4>2. t[k - 1] = s[(k - 1) + 1]
        BY <3>1, <4>1
      <4> QED BY <3>1, <4>2
    <3>b. k - 1 \in 0..Len(t) /\ k - 1 # 0
      BY <1>3, <2>2, <3>1
    <3>3. g[k - 1] = g[k - 2] + s[k]
      BY <1>6, <3>1, <3>a, <3>b
    <3>4. g[k - 2] \in Nat /\ s[k] \in Nat
      BY <1>2, <2>2, <3>1
    <3> QED BY <1>1, <3>2, <3>3, <3>4
  <2> QED BY <2>1, <2>2
<1>8. SumsOf(s, h)
  <2>1. \A k \in 0..Len(s) : k # 0 => k \in 1..Len(s)
    OBVIOUS
  <2>2. h[0] = 0 /\ h = [k \in 0..Len(s) |-> h[k]]
    BY <1>1, <1>3
  <2> HIDE DEF h
  <2>3. \A k \in 0..Len(s) : h[k] = IF k = 0 THEN 0 ELSE h[k - 1] + s[k]
    BY <1>7, <2>1, <2>2
  <2> QED BY <2>2, <2>3 DEF SumsOf
<1>9. SumOf(s) = h[Len(s)]
  BY <1>5, <1>8, SumIs
<1>10. h[Len(s)] = e + g[Len(t)]
  BY <1>1, <1>3
<1>11. SumOf(t) = g[Len(t)]
  BY <1>1, <1>2, SumIs
<1> QED BY <1>9, <1>10, <1>11 DEF t, e

LEMMA SumZero ==
    ASSUME NEW s \in Seq(Nat), \A k \in 1..Len(s) : s[k] = 0
    PROVE  SumOf(s) = 0
<1> DEFINE g == [k \in 0..Len(s) |-> 0]
<1>1. g \in [0..Len(s) -> Nat] /\ SumsOf(s, g)
  BY DEF SumsOf
<1>2. g[Len(s)] = 0
  OBVIOUS
<1> HIDE DEF g
<1> QED BY <1>1, <1>2, SumIs

---------------------------------------------------------------------------
(* The invariant.                                                          *)

\* A process leaves its pipe room for what the daemon holds for it.
PromptReader == "slow_reader" \notin Races
\* Events come in none of the orders named in Races.
Calm == Races = {}

Commands == {"RESET", "OPEN", "CLOSE", "KILL", "WRITE", "ACK", "CLOSE_STREAM"}
CommandType == [cmd : Commands, id : Ids, role : Role, n : Nat, from : Nat,
                part : {"all", "header", "body"}]
BufType == [fd : BOOLEAN, eof : BOOLEAN, polled : {0, 1}, credit : Nat, startpos : Ring,
            endpos : Ring, bufcount : 0..SIZE, buffer : [Ring -> Nat]]
IoType == [pipe : Seq(Nat), far : BOOLEAN, put : Nat, got : Seq(Nat), window : Nat, asked : BOOLEAN,
           ends : Nat]
Exits == {"no", "reset", "epoll", "sigpipe", "closed_stream", "in_use", "no_process", "cut",
          "stale_event"}
Children == {"none", "command", "running", "zombie", "reaped"}
Streams == Ids \X Role

Types ==
    /\ exit \in Exits /\ conn \in BOOLEAN /\ peer \in BOOLEAN /\ sigchld \in BOOLEAN
    /\ loop = NoLoop
    /\ proc \in [Ids -> BOOLEAN] /\ pid \in [Ids -> BOOLEAN]
    /\ child \in [Ids -> Children]
    /\ phase \in [Ids -> {"free", "open", "closing"}] /\ exits \in [Ids -> Nat]
    /\ pb \in [Ids -> [Role -> BufType]] /\ io \in [Ids -> [Role -> IoType]]
    /\ queue \in Seq(CommandType)
    /\ events \subseteq {Listener, Socket, Hangup, Signal} \cup Streams

\* What an id is before OPEN is handled, and when it is free.
Unused(i) ==
    /\ pb[i] = [r \in Role |-> ClosedBuf] /\ child[i] = "none" /\ ~pid[i]
    /\ \A r \in Role : io[i][r].pipe = <<>> /\ io[i][r].got = <<>> /\ io[i][r].put = 0
                       /\ io[i][r].far /\ (r \in OutRoles => io[i][r].window = 0)

\* A session lasts from its OPEN to its CLOSE, on one connection.
IsOpen(m, i) == m.cmd = "OPEN" /\ m.id = i
Session(i) ==
    /\ proc[i] => phase[i] # "free" /\ conn
    /\ ~proc[i] => Unused(i)
    /\ phase[i] # "free" /\ ~proc[i] => \E k \in 1..Len(queue) : IsOpen(queue[k], i)

\* A command that the daemon can carry out.
Current(m) ==
    /\ m.cmd # "RESET" => phase[m.id] # "free"
    /\ m.cmd = "OPEN" => ~proc[m.id]
    /\ m.cmd = "CLOSE" => phase[m.id] = "closing"
    /\ m.cmd = "WRITE" => m.n > 0 /\ m.role \in OutRoles /\ ~pb[m.id][m.role].eof
    /\ m.cmd = "ACK" => m.n > 0 /\ m.role \in InRoles
    /\ m.cmd = "CLOSE_STREAM" => io[m.id][m.role].asked

\* The order of two commands: of those for one process OPEN is the first and CLOSE the
\* last, and a stream is not written to once it is asked to close.
Before(a, b) ==
    a.id = b.id =>
        /\ b.cmd = "OPEN" => a.cmd = "RESET"
        /\ a.cmd = "CLOSE" => b.cmd = "RESET"
        /\ a.cmd = "CLOSE_STREAM" /\ b.cmd = "WRITE" => a.role # b.role
Ordered(q) == \A j, k \in 1..Len(q) : j < k => Before(q[j], q[k])
InOrder == Ordered(queue) /\ \A k \in 1..Len(queue) : Current(queue[k])

\* A stream is polled while its ring has room for what it reads, or data to write.
Polled(i, r) ==
    LET b == pb[i][r]
    IN  /\ ~b.fd => b.bufcount = 0 /\ b.polled = 0
        /\ r \in InRoles /\ b.bufcount = SIZE => b.polled = 0
        /\ r \in OutRoles => (b.polled = 1 <=> b.bufcount > 0)
        /\ r \in OutRoles /\ b.eof => io[i][r].asked
        /\ r \in OutRoles /\ proc[i] /\ ~b.eof => b.fd

\* An event of a stream is stale or the stream is still polled.  Only a command can make it
\* stale and only another one could open the stream again: there is one in a batch.
Fresh(i, r) ==
    <<i, r>> \in events /\ exit = "no" =>
        /\ pb[i][r].fd => pb[i][r].polled = 1
        /\ Socket \in events => pb[i][r].polled = 1
Batch ==
    /\ Socket \in events => queue # <<>> /\ conn /\ Hangup \notin events

Accounts(i, r) ==
    LET b == pb[i][r]
    IN  IF r \in InRoles THEN b.credit + QueuedBytes("ACK", i, r) = io[i][r].window
        ELSE IF proc[i]
        THEN /\ io[i][r].window + QueuedBytes("WRITE", i, r) + b.bufcount = SIZE
             /\ b.credit + b.bufcount = SIZE
        ELSE QueuedBytes("WRITE", i, r) = 0

Fits(i, r) == Len(io[i][r].pipe) <= PIPE_CAP
StreamInv(i, r) == Accounts(i, r) /\ Polled(i, r) /\ Fresh(i, r) /\ Fits(i, r)

CreditInv ==
    /\ Types /\ Batch /\ InOrder
    /\ \A i \in Ids : Session(i)
    /\ \A i \in Ids, r \in Role : StreamInv(i, r)

\* SIGPIPE, from the host's socket and from the pipe of a process.
BrokenSocket == exit' = "sigpipe" /\ ~peer
BrokenPipe(i, r) == exit' = "sigpipe" /\ pb[i][r].bufcount > 0 /\ ~io[i][r].far

\* Only a host that goes away leaves part of a command.
Whole ==
    /\ peer => \A k \in 1..Len(queue) : queue[k].part = "all"
    /\ ~peer /\ ~conn => queue = <<>>

---------------------------------------------------------------------------
(* Without races.                                                          *)

Peaceful ==
    /\ exit \in {"no", "reset"}
    /\ \A k \in 1..Len(queue) : queue[k].part = "all"
    /\ Hangup \in events => conn /\ ~peer
    /\ conn /\ ~peer => events \subseteq {Hangup}
    /\ ~conn => events \subseteq {Listener, Signal}
    /\ Listener \in events => peer /\ ~conn
    /\ exit = "no" => \A e \in events \cap Streams : pb[e[1]][e[2]].polled = 1

\* What the host wrote is with the process, in its pipe, in the ring, or on its way, and a
\* process ends its stdin when it has read all of that.
OnItsWay(i, r) ==
    LET s == io[i][r]
    IN  /\ s.put = Len(s.got) + Len(s.pipe) + pb[i][r].bufcount + QueuedBytes("WRITE", i, r)
        /\ s.far \/ s.put = Len(s.got)

CalmInv == Peaceful /\ \A i \in Ids, r \in OutRoles : OnItsWay(i, r)

---------------------------------------------------------------------------
(* Numbers, rings and buffers.                                             *)

LEMMA MinOfTwo ==
    ASSUME NEW a \in Nat, NEW b \in Nat
    PROVE  Min({a, b}) \in Nat /\ Min({a, b}) <= a /\ Min({a, b}) <= b /\ Min({a, b}) \in {a, b}
<1>1. \E x \in {a, b} : \A y \in {a, b} : x <= y
  <2>1. CASE a <= b
    BY <2>1
  <2>2. CASE b <= a
    BY <2>2
  <2> QED BY <2>1, <2>2
<1>2. Min({a, b}) \in {a, b} /\ \A y \in {a, b} : Min({a, b}) <= y
  BY <1>1 DEF Min
<1> QED BY <1>2

LEMMA MinOfThree ==
    ASSUME NEW a \in Nat, NEW b \in Nat, NEW c \in Nat
    PROVE  /\ Min({a, b, c}) \in Nat /\ Min({a, b, c}) \in {a, b, c}
           /\ Min({a, b, c}) <= a /\ Min({a, b, c}) <= b /\ Min({a, b, c}) <= c
<1>1. \E x \in {a, b, c} : \A y \in {a, b, c} : x <= y
  <2>1. CASE a <= b /\ a <= c
    BY <2>1
  <2>2. CASE b <= a /\ b <= c
    BY <2>2
  <2>3. CASE c <= a /\ c <= b
    BY <2>3
  <2> QED BY <2>1, <2>2, <2>3
<1>2. Min({a, b, c}) \in {a, b, c} /\ \A y \in {a, b, c} : Min({a, b, c}) <= y
  BY <1>1 DEF Min
<1> QED BY <1>2

LEMMA InRing == \A a \in Nat : a % SIZE \in Ring
<1>1. SIZE \in Nat /\ SIZE > 0
  BY ExecAssumption
<1> QED BY <1>1 DEF Ring

\* Updates of a buffer, with what they leave alone.
FillUp(b, c, e, n) == [b EXCEPT !.buffer = c, !.endpos = e, !.bufcount = n]
LEMMA FillType ==
    ASSUME NEW b \in BufType, NEW c \in [Ring -> Nat], NEW e \in Ring, NEW n \in 0..SIZE
    PROVE  LET x == FillUp(b, c, e, n)
           IN  /\ x \in BufType /\ (x.fd <=> b.fd) /\ (x.eof <=> b.eof) /\ x.polled = b.polled
               /\ x.credit = b.credit /\ x.bufcount = n
BY DEF FillUp, BufType

Drain(b, e, n) == [b EXCEPT !.startpos = e, !.bufcount = n]
LEMMA DrainType ==
    ASSUME NEW b \in BufType, NEW e \in Ring, NEW n \in 0..SIZE
    PROVE  LET x == Drain(b, e, n)
           IN  /\ x \in BufType /\ (x.fd <=> b.fd) /\ (x.eof <=> b.eof) /\ x.polled = b.polled
               /\ x.credit = b.credit /\ x.bufcount = n
BY DEF Drain, BufType

EndBuf(b) == [b EXCEPT !.eof = TRUE, !.fd = FALSE, !.polled = 0,
                       !.startpos = 0, !.endpos = 0, !.bufcount = 0]
LEMMA EndType ==
    ASSUME NEW b \in BufType
    PROVE  LET x == EndBuf(b)
           IN  /\ x \in BufType /\ ~x.fd /\ x.eof /\ x.polled = 0
               /\ x.credit = b.credit /\ x.bufcount = 0
<1>1. 0 \in Ring /\ 0 \in 0..SIZE
  BY ExecAssumption DEF Ring
<1> QED BY <1>1 DEF EndBuf, BufType

SetEof(b) == [b EXCEPT !.eof = TRUE]
LEMMA EofType ==
    ASSUME NEW b \in BufType
    PROVE  LET x == SetEof(b)
           IN  /\ x \in BufType /\ (x.fd <=> b.fd) /\ x.eof /\ x.polled = b.polled
               /\ x.credit = b.credit /\ x.bufcount = b.bufcount
BY DEF SetEof, BufType

SetCredit(b, n) == [b EXCEPT !.credit = n]
LEMMA CreditType ==
    ASSUME NEW b \in BufType, NEW n \in Nat
    PROVE  LET x == SetCredit(b, n)
           IN  /\ x \in BufType /\ (x.fd <=> b.fd) /\ (x.eof <=> b.eof) /\ x.polled = b.polled
               /\ x.credit = n /\ x.bufcount = b.bufcount
BY DEF SetCredit, BufType

SetPolled(b, n) == [b EXCEPT !.polled = n]
LEMMA PolledType ==
    ASSUME NEW b \in BufType, NEW n \in {0, 1}
    PROVE  LET x == SetPolled(b, n)
           IN  /\ x \in BufType /\ (x.fd <=> b.fd) /\ (x.eof <=> b.eof) /\ x.polled = n
               /\ x.credit = b.credit /\ x.bufcount = b.bufcount
BY DEF SetPolled, BufType

OpenBuf(b, n, c) == [b EXCEPT !.fd = TRUE, !.polled = n, !.credit = c]
Opened(x, b, n, c) ==
    /\ x \in BufType /\ x.fd /\ (x.eof <=> b.eof) /\ x.polled = n /\ x.credit = c
    /\ x.bufcount = b.bufcount
LEMMA OpenType ==
    ASSUME NEW b \in BufType, NEW n \in {0, 1}, NEW c \in Nat
    PROVE  Opened(OpenBuf(b, n, c), b, n, c)
BY DEF OpenBuf, BufType, Opened

LEMMA ClosedBufType == ClosedBuf \in BufType
<1>1. SIZE \in Nat /\ SIZE > 0
  BY ExecAssumption
<1> QED BY <1>1 DEF ClosedBuf, BufType, Ring, Garbage

LEMMA NewBufType ==
    ASSUME NEW r \in Role
    PROVE  /\ NewBuf(r) \in BufType
           /\ NewBuf(r).fd /\ ~NewBuf(r).eof /\ NewBuf(r).bufcount = 0
           /\ r \in InRoles => NewBuf(r).polled = 1 /\ NewBuf(r).credit = 0
           /\ r \in OutRoles => NewBuf(r).polled = 0 /\ NewBuf(r).credit = SIZE
<1>1. SIZE \in Nat /\ SIZE > 0
  BY ExecAssumption
<1>2. ClosedBuf \in BufType /\ ~ClosedBuf.eof /\ ClosedBuf.bufcount = 0
  BY ClosedBufType DEF ClosedBuf
<1>3. r \in InRoles <=> r \notin OutRoles
  BY DEF Role, InRoles, OutRoles
<1>4. PICK n \in {0, 1} : n = IF r \in InRoles THEN 1 ELSE 0
  OBVIOUS
<1>5. PICK c \in Nat : c = IF r \in OutRoles THEN SIZE ELSE 0
  BY <1>1
<1>6. NewBuf(r) = OpenBuf(ClosedBuf, n, c)
  BY <1>4, <1>5 DEF NewBuf, OpenBuf
<1>7. /\ NewBuf(r) \in BufType /\ NewBuf(r).fd /\ (NewBuf(r).eof <=> ClosedBuf.eof)
      /\ NewBuf(r).polled = n /\ NewBuf(r).credit = c /\ NewBuf(r).bufcount = ClosedBuf.bufcount
  <2>1. Opened(NewBuf(r), ClosedBuf, n, c)
    BY <1>2, <1>6, OpenType
  <2> QED BY <2>1 DEF Opened
<1> QED BY <1>2, <1>3, <1>4, <1>5, <1>7

LEMMA OutsideType == Outside \in IoType
BY DEF Outside, IoType

LEMMA BytesType ==
    ASSUME NEW b \in BufType, NEW n \in Nat
    PROVE  Bytes(b, n) \in Seq(Nat) /\ Len(Bytes(b, n)) = n
<1>1. b.startpos \in Nat /\ b.buffer \in [Ring -> Nat]
  BY ExecAssumption DEF BufType, Ring
<1>2. ASSUME NEW i \in 1..n PROVE b.buffer[(b.startpos + i - 1) % SIZE] \in Nat
  <2>1. b.startpos + i - 1 \in Nat
    BY <1>1
  <2> QED BY <1>1, <2>1, InRing
<1> QED BY <1>2 DEF Bytes

LEMMA FilledType ==
    ASSUME NEW b \in BufType, NEW bytes \in Seq(Nat), b.bufcount + Len(bytes) <= SIZE
    PROVE  /\ Filled(b, bytes) \in BufType
           /\ (Filled(b, bytes).fd <=> b.fd) /\ (Filled(b, bytes).eof <=> b.eof)
           /\ Filled(b, bytes).polled = b.polled /\ Filled(b, bytes).credit = b.credit
           /\ Filled(b, bytes).bufcount = b.bufcount + Len(bytes)
<1> DEFINE c == [p \in Ring |-> IF \E i \in 1..Len(bytes) : p = (b.endpos + i - 1) % SIZE
                                THEN bytes[CHOOSE i \in 1..Len(bytes) : p = (b.endpos + i - 1) % SIZE]
                                ELSE b.buffer[p]]
<1>1. SIZE \in Nat /\ b.endpos \in Nat /\ b.bufcount \in 0..SIZE /\ b.buffer \in [Ring -> Nat]
  BY ExecAssumption DEF BufType, Ring
<1>2. ASSUME NEW p \in Ring PROVE c[p] \in Nat
  <2>1. CASE \E i \in 1..Len(bytes) : p = (b.endpos + i - 1) % SIZE
    <3> DEFINE j == CHOOSE i \in 1..Len(bytes) : p = (b.endpos + i - 1) % SIZE
    <3>1. j \in 1..Len(bytes)
      BY <2>1
    <3>2. c[p] = bytes[j]
      BY <2>1
    <3> QED BY <3>1, <3>2
  <2>2. CASE ~\E i \in 1..Len(bytes) : p = (b.endpos + i - 1) % SIZE
    BY <1>1, <2>2
  <2> QED BY <2>1, <2>2
<1>3. c \in [Ring -> Nat]
  BY <1>2
<1>4. (b.endpos + Len(bytes)) % SIZE \in Ring
  BY <1>1, InRing
<1> DEFINE e == (b.endpos + Len(bytes)) % SIZE
           n == b.bufcount + Len(bytes)
<1>5. Filled(b, bytes) = FillUp(b, c, e, n)
  BY DEF Filled, FillUp
<1>6. n \in 0..SIZE
  BY <1>1
<1> HIDE DEF c, e
<1> QED BY <1>3, <1>4, <1>5, <1>6, FillType DEF e

LEMMA DrainedType ==
    ASSUME NEW b \in BufType, NEW n \in 0..b.bufcount
    PROVE  /\ Drained(b, n) \in BufType
           /\ (Drained(b, n).fd <=> b.fd) /\ (Drained(b, n).eof <=> b.eof)
           /\ Drained(b, n).polled = b.polled /\ Drained(b, n).credit = b.credit
           /\ Drained(b, n).bufcount = b.bufcount - n
<1>1. SIZE \in Nat /\ b.startpos \in Nat /\ b.bufcount \in 0..SIZE
  BY ExecAssumption DEF BufType, Ring
<1>2. (b.startpos + n) % SIZE \in Ring
  BY <1>1, InRing
<1> DEFINE e == (b.startpos + n) % SIZE
           c == b.bufcount - n
<1>3. Drained(b, n) = Drain(b, e, c)
  BY DEF Drained, Drain
<1>4. c \in 0..SIZE
  BY <1>1
<1> HIDE DEF e
<1> QED BY <1>2, <1>3, <1>4, DrainType DEF e

LEMMA SentType ==
    ASSUME NEW b \in BufType, NEW n \in Nat
    PROVE  \E k \in Nat :
             /\ k <= b.bufcount /\ k <= n /\ k <= b.credit /\ k \in {b.bufcount, n, b.credit}
             /\ Sent(b, n) \in BufType
             /\ (Sent(b, n).fd <=> b.fd) /\ (Sent(b, n).eof <=> b.eof) /\ Sent(b, n).polled = b.polled
             /\ Sent(b, n).bufcount = b.bufcount - k /\ Sent(b, n).credit = b.credit - k
<1>1. b.bufcount \in Nat /\ b.credit \in Nat
  BY ExecAssumption DEF BufType
<1> DEFINE k == CreditLimit(b, n)
<1>2. k \in Nat /\ k <= b.bufcount /\ k <= n /\ k <= b.credit /\ k \in {b.bufcount, n, b.credit}
  BY <1>1, MinOfThree DEF CreditLimit
<1>3. Sent(b, n) = [Drained(b, k) EXCEPT !.credit = @ - k]
  BY DEF Sent
<1> HIDE DEF k
<1>4. /\ Drained(b, k) \in BufType
      /\ (Drained(b, k).fd <=> b.fd) /\ (Drained(b, k).eof <=> b.eof)
      /\ Drained(b, k).polled = b.polled /\ Drained(b, k).credit = b.credit
      /\ Drained(b, k).bufcount = b.bufcount - k
  BY <1>1, <1>2, DrainedType
<1> DEFINE d == Drained(b, k)
<1> HIDE DEF d
<1>5. Sent(b, n) = SetCredit(d, b.credit - k)
  BY <1>3, <1>4 DEF d, SetCredit
<1>6. b.credit - k \in Nat
  BY <1>1, <1>2
<1>7. d \in BufType
  BY <1>4 DEF d
<1>8. /\ Sent(b, n) \in BufType
      /\ Sent(b, n).credit = b.credit - k /\ (Sent(b, n).fd <=> d.fd) /\ (Sent(b, n).eof <=> d.eof)
      /\ Sent(b, n).polled = d.polled /\ Sent(b, n).bufcount = d.bufcount
  <2>1. PICK c \in Nat : c = b.credit - k
    BY <1>6
  <2>2. PICK e \in BufType : e = d
    BY <1>7
  <2>3. Sent(b, n) = SetCredit(e, c)
    BY <1>5, <2>1, <2>2
  <2>4. LET x == SetCredit(e, c)
        IN  /\ x \in BufType /\ (x.fd <=> e.fd) /\ (x.eof <=> e.eof) /\ x.polled = e.polled
            /\ x.credit = c /\ x.bufcount = e.bufcount
    BY CreditType
  <2> QED BY <2>1, <2>2, <2>3, <2>4
<1> QED BY <1>2, <1>4, <1>8 DEF d

\* A stream that closes is empty.
LEMMA CloseType ==
    ASSUME NEW b \in BufType, NEW noflush \in BOOLEAN
    PROVE  LET c == pipebuf_common_close(b, noflush)
           IN  /\ c \in BufType /\ c.credit = b.credit /\ c.eof
               /\ \/ (c.fd <=> b.fd) /\ c.polled = b.polled /\ c.bufcount = b.bufcount
                  \/ /\ b.fd /\ ~c.fd /\ c.polled = 0 /\ c.bufcount = 0
                     /\ b.bufcount = 0 \/ noflush
<1>1. SIZE \in Nat /\ SIZE > 0
  BY ExecAssumption
<1>3. CASE CloseSucceeds(b, noflush)
  <2>1. pipebuf_common_close(b, noflush) = EndBuf(b)
    BY <1>3 DEF pipebuf_common_close, EndBuf
  <2>2. b.fd /\ (b.bufcount = 0 \/ noflush)
    BY <1>3 DEF CloseSucceeds
  <2> QED BY <2>1, <2>2, EndType
<1>4. CASE ~CloseSucceeds(b, noflush)
  <2>1. pipebuf_common_close(b, noflush) = SetEof(b)
    BY <1>4 DEF pipebuf_common_close, SetEof
  <2> QED BY <2>1, EofType
<1> QED BY <1>3, <1>4

LEMMA CloseIfEofType ==
    ASSUME NEW b \in BufType
    PROVE  /\ CloseIfEof(b) \in BufType
           /\ CloseIfEof(b).credit = b.credit /\ (CloseIfEof(b).eof <=> b.eof)
           /\ CloseIfEof(b).bufcount = b.bufcount
           /\ \/ CloseIfEof(b) = b
              \/ b.eof /\ b.fd /\ b.bufcount = 0 /\ ~CloseIfEof(b).fd /\ CloseIfEof(b).polled = 0
<1>1. CASE b.eof /\ b.bufcount = 0
  <2>1. CloseIfEof(b) = pipebuf_common_close(b, FLUSH)
    BY <1>1 DEF CloseIfEof
  <2>2. CASE b.fd
    <3>1. CloseIfEof(b) = EndBuf(b)
      BY <1>1, <2>1, <2>2 DEF pipebuf_common_close, CloseSucceeds, EndBuf
    <3> QED BY <1>1, <2>2, <3>1, EndType
  <2>3. CASE ~b.fd
    <3>1. CloseIfEof(b) = [b EXCEPT !.eof = TRUE]
      BY <2>1, <2>3 DEF pipebuf_common_close, CloseSucceeds
    <3> QED BY <1>1, <3>1 DEF BufType
  <2> QED BY <2>2, <2>3
<1>2. CASE ~(b.eof /\ b.bufcount = 0)
  BY <1>2 DEF CloseIfEof
<1> QED BY <1>1, <1>2

---------------------------------------------------------------------------
(* The queue of commands.                                                  *)

Queued(q, cmd, i, r) == SumOf(Amounts(q, cmd, i, r))

LEMMA QueuedIs == \A cmd, i, r : QueuedBytes(cmd, i, r) = Queued(queue, cmd, i, r)
BY DEF QueuedBytes, Queued

LEMMA AmountType == \A m \in CommandType : \A cmd, i, r : Amount(m, cmd, i, r) \in Nat
BY DEF Amount, CommandType

LEMMA AmountsType ==
    ASSUME NEW q \in Seq(CommandType), NEW cmd, NEW i, NEW r
    PROVE  /\ Amounts(q, cmd, i, r) \in Seq(Nat)
           /\ Len(Amounts(q, cmd, i, r)) = Len(q)
           /\ \A k \in 1..Len(q) : Amounts(q, cmd, i, r)[k] = Amount(q[k], cmd, i, r)
<1>1. \A k \in 1..Len(q) : Amount(q[k], cmd, i, r) \in Nat
  BY AmountType
<1> QED BY <1>1 DEF Amounts

LEMMA QueuedType ==
    ASSUME NEW q \in Seq(CommandType), NEW cmd, NEW i, NEW r
    PROVE  Queued(q, cmd, i, r) \in Nat
BY AmountsType, SumType DEF Queued

LEMMA QueuedPush ==
    ASSUME NEW q \in Seq(CommandType), NEW m \in CommandType, NEW cmd, NEW i, NEW r
    PROVE  Queued(Append(q, m), cmd, i, r) = Queued(q, cmd, i, r) + Amount(m, cmd, i, r)
<1> DEFINE s == Amounts(q, cmd, i, r)
           e == Amount(m, cmd, i, r)
           q1 == Append(q, m)
           t == Amounts(q1, cmd, i, r)
<1>1. /\ s \in Seq(Nat) /\ Len(s) = Len(q)
      /\ \A k \in 1..Len(q) : s[k] = Amount(q[k], cmd, i, r)
  BY AmountsType
<1>a. /\ q1 \in Seq(CommandType) /\ Len(q1) = Len(q) + 1 /\ q1[Len(q) + 1] = m
      /\ \A k \in 1..Len(q) : q1[k] = q[k] /\ k \in 1..Len(q) + 1
  OBVIOUS
<1> HIDE DEF q1
<1>2. /\ t \in Seq(Nat) /\ Len(t) = Len(q) + 1
      /\ \A k \in 1..Len(q) + 1 : t[k] = Amount(q1[k], cmd, i, r)
  BY <1>a, AmountsType
<1>3. e \in Nat
  BY AmountType
<1>4. \A k \in 1..Len(q) : t[k] = s[k]
  BY <1>1, <1>2, <1>a
<1>5. t[Len(q) + 1] = e
  BY <1>2, <1>a
<1> HIDE DEF s, e, t
<1>6. t = Append(s, e)
  BY <1>1, <1>2, <1>3, <1>4, <1>5
<1>7. SumOf(t) = SumOf(s) + e
  BY <1>1, <1>3, <1>6, SumAppend
<1> QED BY <1>7 DEF Queued, s, e, t, q1

LEMMA QueuedPop ==
    ASSUME NEW q \in Seq(CommandType), q # <<>>, NEW cmd, NEW i, NEW r
    PROVE  Queued(q, cmd, i, r) = Amount(Head(q), cmd, i, r) + Queued(Tail(q), cmd, i, r)
<1> DEFINE s == Amounts(q, cmd, i, r)
           q1 == Tail(q)
           t == Amounts(q1, cmd, i, r)
<1>1. /\ s \in Seq(Nat) /\ Len(s) = Len(q)
      /\ \A k \in 1..Len(q) : s[k] = Amount(q[k], cmd, i, r)
  BY AmountsType
<1>2. /\ q1 \in Seq(CommandType) /\ Len(q1) = Len(q) - 1 /\ Len(q) \in Nat \ {0}
      /\ \A k \in 1..Len(q) - 1 : q1[k] = q[k + 1]
  OBVIOUS
<1>a. Head(q) = q[1] /\ 1 \in 1..Len(q)
  BY <1>2
<1> HIDE DEF q1
<1>3. /\ t \in Seq(Nat) /\ Len(t) = Len(q) - 1
      /\ \A k \in 1..Len(q) - 1 : t[k] = Amount(q1[k], cmd, i, r)
  BY <1>2, AmountsType
<1>4. \A k \in 1..Len(q) - 1 : t[k] = s[k + 1]
  <2>1. \A k \in 1..Len(q) - 1 : k + 1 \in 1..Len(q)
    BY <1>2
  <2> QED BY <1>1, <1>2, <1>3, <2>1
<1>5. Head(s) = Amount(Head(q), cmd, i, r) /\ s # <<>>
  BY <1>1, <1>2, <1>a
<1> HIDE DEF s, t
<1>6. t = Tail(s)
  <2>1. Tail(s) \in Seq(Nat) /\ Len(Tail(s)) = Len(q) - 1
    BY <1>1, <1>5
  <2>2. \A k \in 1..Len(q) - 1 : Tail(s)[k] = s[k + 1]
    BY <1>1, <1>5
  <2>3. \A k \in 1..Len(q) - 1 : t[k] = Tail(s)[k]
    BY <1>4, <2>2
  <2> DEFINE u == Tail(s)
             n == Len(q) - 1
  <2>4. /\ u \in Seq(Nat) /\ Len(u) = n /\ t \in Seq(Nat) /\ Len(t) = n
        /\ \A k \in 1..n : t[k] = u[k]
    BY <1>3, <2>1, <2>3
  <2> HIDE DEF u, n
  <2>5. t = u
    BY <2>4
  <2> QED BY <2>5 DEF u
<1>7. SumOf(s) = Head(s) + SumOf(t)
  BY <1>1, <1>5, <1>6, SumTail
<1> QED BY <1>5, <1>7 DEF Queued, s, t, q1

LEMMA QueuedNone ==
    ASSUME NEW q \in Seq(CommandType), NEW cmd, NEW i, NEW r,
           \A k \in 1..Len(q) : ~(q[k].cmd = cmd /\ q[k].id = i /\ q[k].role = r)
    PROVE  Queued(q, cmd, i, r) = 0
<1>1. \A k \in 1..Len(q) : Amounts(q, cmd, i, r)[k] = 0
  BY AmountsType DEF Amount
<1> QED BY <1>1, AmountsType, SumZero DEF Queued

\* The last command is cut off.
Cut(q, p) == [q EXCEPT ![Len(q)].part = p]
LEMMA CutType ==
    ASSUME NEW q \in Seq(CommandType), q # <<>>, NEW p \in {"all", "header", "body"}
    PROVE  /\ Cut(q, p) \in Seq(CommandType) /\ Len(Cut(q, p)) = Len(q)
           /\ \A k \in 1..Len(q) :
                /\ Cut(q, p)[k].cmd = q[k].cmd /\ Cut(q, p)[k].id = q[k].id
                /\ Cut(q, p)[k].role = q[k].role /\ Cut(q, p)[k].n = q[k].n
<1> DEFINE m == [q[Len(q)] EXCEPT !.part = p]
<1>1. Len(q) \in 1..Len(q) /\ q[Len(q)] \in CommandType
  OBVIOUS
<1>2. /\ m \in CommandType
      /\ m.cmd = q[Len(q)].cmd /\ m.id = q[Len(q)].id /\ m.role = q[Len(q)].role /\ m.n = q[Len(q)].n
  BY <1>1 DEF CommandType
<1>3. Cut(q, p) = [q EXCEPT ![Len(q)] = m]
  BY DEF Cut
<1> HIDE DEF m
<1> QED BY <1>1, <1>2, <1>3

LEMMA QueuedCut ==
    ASSUME NEW q \in Seq(CommandType), q # <<>>, NEW p \in {"all", "header", "body"},
           NEW cmd, NEW i, NEW r
    PROVE  Queued(Cut(q, p), cmd, i, r) = Queued(q, cmd, i, r)
<1>1. \A k \in 1..Len(q) : Amount(Cut(q, p)[k], cmd, i, r) = Amount(q[k], cmd, i, r)
  BY CutType DEF Amount
<1>2. Amounts(Cut(q, p), cmd, i, r) = Amounts(q, cmd, i, r)
  BY <1>1, CutType DEF Amounts
<1> QED BY <1>2 DEF Queued

LEMMA OrderedPush ==
    ASSUME NEW q \in Seq(CommandType), Ordered(q), NEW m \in CommandType,
           \A k \in 1..Len(q) : Before(q[k], m)
    PROVE  Ordered(Append(q, m))
<1>1. /\ Len(Append(q, m)) = Len(q) + 1 /\ Append(q, m)[Len(q) + 1] = m
      /\ \A k \in 1..Len(q) : Append(q, m)[k] = q[k]
  OBVIOUS
<1>2. ASSUME NEW j \in 1..Len(q) + 1, NEW k \in 1..Len(q) + 1, j < k
      PROVE  Before(Append(q, m)[j], Append(q, m)[k])
  <2>1. j \in 1..Len(q)
    BY <1>2
  <2>2. CASE k = Len(q) + 1
    BY <1>1, <2>1, <2>2
  <2>3. CASE k \in 1..Len(q)
    BY <1>1, <1>2, <2>1, <2>3 DEF Ordered
  <2> QED BY <2>2, <2>3
<1> QED BY <1>1, <1>2 DEF Ordered

LEMMA OrderedPop ==
    ASSUME NEW q \in Seq(CommandType), Ordered(q), q # <<>>
    PROVE  /\ Ordered(Tail(q))
           /\ \A k \in 1..Len(Tail(q)) : Before(Head(q), Tail(q)[k])
<1>1. /\ Len(Tail(q)) = Len(q) - 1 /\ Len(q) \in Nat \ {0} /\ Head(q) = q[1]
      /\ \A k \in 1..Len(q) - 1 : Tail(q)[k] = q[k + 1]
  OBVIOUS
<1>2. \A k \in 1..Len(q) - 1 : k + 1 \in 1..Len(q) /\ 1 \in 1..Len(q) /\ 1 < k + 1
  BY <1>1
<1>3. \A j, k \in 1..Len(q) - 1 : j < k => Before(Tail(q)[j], Tail(q)[k])
  BY <1>1, <1>2 DEF Ordered
<1>4. \A k \in 1..Len(q) - 1 : Before(Head(q), Tail(q)[k])
  BY <1>1, <1>2 DEF Ordered
<1> QED BY <1>1, <1>3, <1>4 DEF Ordered

LEMMA OrderedCut ==
    ASSUME NEW q \in Seq(CommandType), Ordered(q), q # <<>>,
           NEW p \in {"all", "header", "body"}
    PROVE  Ordered(Cut(q, p))
BY CutType DEF Ordered, Before

---------------------------------------------------------------------------
(* What handlers do to one stream.                                         *)

LEMMA Update ==
    ASSUME NEW T, NEW f \in [Ids -> [Role -> T]], NEW i \in Ids, NEW r \in Role, NEW x \in T,
           NEW g, g = [f EXCEPT ![i][r] = x]
    PROVE  /\ g \in [Ids -> [Role -> T]] /\ g[i][r] = x
           /\ \A j \in Ids : j # i => g[j] = f[j]
           /\ \A j \in Ids, s \in Role : j # i \/ s # r => g[j][s] = f[j][s]
OBVIOUS

IoSent(x, g, w, e) == [x EXCEPT !.got = g, !.window = w, !.ends = e]
SentFrom(y, x, g, w) ==
    /\ y \in IoType /\ y.got = g /\ y.window = w /\ y.pipe = x.pipe /\ (y.far <=> x.far)
    /\ y.put = x.put /\ (y.asked <=> x.asked)
LEMMA IoSentType ==
    ASSUME NEW x \in IoType, NEW g \in Seq(Nat), NEW w \in Nat, NEW e \in Nat
    PROVE  SentFrom(IoSent(x, g, w, e), x, g, w)
BY DEF IoSent, IoType, SentFrom

\* Nothing happens to the other streams.
OthersKept(i, r) ==
    /\ pb' \in [Ids -> [Role -> BufType]] /\ io' \in [Ids -> [Role -> IoType]]
    /\ \A j \in Ids : j # i => pb'[j] = pb[j] /\ io'[j] = io[j]
    /\ \A j \in Ids, s \in Role : j # i \/ s # r => pb'[j][s] = pb[j][s] /\ io'[j][s] = io[j][s]

LEMMA ToHostStep ==
    ASSUME Types, NEW i \in Ids, NEW r \in Role, NEW b \in BufType, NEW x \in IoType,
           NEW bytes \in Seq(Nat), Len(bytes) <= x.window, b.polled = 1 => b.fd,
           ToHost(i, r, b, x, bytes)
    PROVE  /\ OthersKept(i, r)
           /\ exit' \in Exits /\ (exit' = exit \/ BrokenSocket)
           /\ pb'[i][r] = b
           /\ io'[i][r].got = x.got \o bytes /\ io'[i][r].window = x.window - Len(bytes)
           /\ io'[i][r].pipe = x.pipe /\ (io'[i][r].far <=> x.far) /\ io'[i][r].put = x.put
           /\ (io'[i][r].asked <=> x.asked)
<1> DEFINE g == x.got \o bytes
           w == x.window - Len(bytes)
           e == IF pb[i][r].fd /\ ~b.fd /\ r \in InRoles THEN x.ends + 1 ELSE x.ends
<1>1. g \in Seq(Nat) /\ w \in Nat /\ e \in Nat
  BY DEF IoType
<1>2. pb' = [pb EXCEPT ![i][r] = b] /\ io' = [io EXCEPT ![i][r] = IoSent(x, g, w, e)]
  BY DEF ToHost, IoSent
<1> HIDE DEF g, w, e
<1>3. /\ IoSent(x, g, w, e) \in IoType
      /\ IoSent(x, g, w, e).got = g /\ IoSent(x, g, w, e).window = w
      /\ IoSent(x, g, w, e).pipe = x.pipe /\ (IoSent(x, g, w, e).far <=> x.far)
      /\ IoSent(x, g, w, e).put = x.put /\ (IoSent(x, g, w, e).asked <=> x.asked)
  <2>1. SentFrom(IoSent(x, g, w, e), x, g, w)
    BY <1>1, IoSentType
  <2> QED BY <2>1 DEF SentFrom
<1>4. pb \in [Ids -> [Role -> BufType]] /\ io \in [Ids -> [Role -> IoType]]
  BY DEF Types
<1>5. /\ pb' \in [Ids -> [Role -> BufType]] /\ pb'[i][r] = b
      /\ \A j \in Ids : j # i => pb'[j] = pb[j]
      /\ \A j \in Ids, s \in Role : j # i \/ s # r => pb'[j][s] = pb[j][s]
  BY <1>2, <1>4, Update
<1>6. /\ io' \in [Ids -> [Role -> IoType]] /\ io'[i][r] = IoSent(x, g, w, e)
      /\ \A j \in Ids : j # i => io'[j] = io[j]
      /\ \A j \in Ids, s \in Role : j # i \/ s # r => io'[j][s] = io[j][s]
  BY <1>2, <1>3, <1>4, Update
<1>7. ~EpollFails(b)
  BY DEF EpollFails, BufType
<1>8. exit' \in Exits /\ (exit' = exit \/ BrokenSocket)
  BY <1>7 DEF ToHost, Types, Exits, BrokenSocket
<1>9. OthersKept(i, r)
  BY <1>5, <1>6 DEF OthersKept
<1> QED BY <1>3, <1>5, <1>6, <1>8, <1>9 DEF g, w

\* What is left of StreamInv for a stream that nothing happened to.
LEMMA StreamFrame ==
    ASSUME NEW j \in Ids, NEW s \in Role, StreamInv(j, s),
           pb'[j][s] = pb[j][s], io'[j][s] = io[j][s], proc'[j] = proc[j],
           QueuedBytes("ACK", j, s)' = QueuedBytes("ACK", j, s),
           QueuedBytes("WRITE", j, s)' = QueuedBytes("WRITE", j, s),
           events' \subseteq events, exit = "no"
    PROVE  StreamInv(j, s)'
<1>1. Accounts(j, s)'
  BY DEF StreamInv, Accounts
<1>2. Polled(j, s)'
  BY DEF StreamInv, Polled
<1>3. Fresh(j, s)'
  BY DEF StreamInv, Fresh
<1>4. Fits(j, s)'
  BY DEF StreamInv, Fits
<1> QED BY <1>1, <1>2, <1>3, <1>4 DEF StreamInv

LEMMA CurrentFrame ==
    ASSUME NEW m \in CommandType, Current(m),
           m.cmd # "RESET" => phase'[m.id] = phase[m.id] /\ proc'[m.id] = proc[m.id],
           m.cmd = "WRITE" => (pb'[m.id][m.role].eof <=> pb[m.id][m.role].eof),
           m.cmd = "CLOSE_STREAM" => (io'[m.id][m.role].asked <=> io[m.id][m.role].asked)
    PROVE  Current(m)'
BY DEF Current

\* The queue is as it was or its first command has been carried out.
Popped == queue # <<>> /\ queue' = Tail(queue)
QueueSame == queue' = queue \/ (Popped /\ Head(queue).cmd # "OPEN")

LEMMA SameBytes ==
    ASSUME queue' = queue, NEW cmd, NEW i, NEW r
    PROVE  QueuedBytes(cmd, i, r)' = QueuedBytes(cmd, i, r)
BY DEF QueuedBytes

LEMMA PoppedBytes ==
    ASSUME queue \in Seq(CommandType), Popped, NEW cmd, NEW i, NEW r
    PROVE  /\ QueuedBytes(cmd, i, r) = Amount(Head(queue), cmd, i, r) + QueuedBytes(cmd, i, r)'
           /\ QueuedBytes(cmd, i, r)' \in Nat /\ Amount(Head(queue), cmd, i, r) \in Nat
<1>1. Head(queue) \in CommandType /\ Tail(queue) \in Seq(CommandType)
  BY DEF Popped
<1>2. QueuedBytes(cmd, i, r)' = Queued(Tail(queue), cmd, i, r)
  BY DEF Popped, QueuedBytes, Queued
<1>3. QueuedBytes(cmd, i, r) = Queued(queue, cmd, i, r)
  BY DEF QueuedBytes, Queued
<1>4. Queued(queue, cmd, i, r) = Amount(Head(queue), cmd, i, r) + Queued(Tail(queue), cmd, i, r)
  BY QueuedPop DEF Popped
<1>5. Queued(Tail(queue), cmd, i, r) \in Nat
  BY <1>1, QueuedType
<1>6. Amount(Head(queue), cmd, i, r) \in Nat
  BY <1>1, AmountType
<1> QED BY <1>2, <1>3, <1>4, <1>5, <1>6

LEMMA BytesNat ==
    ASSUME queue \in Seq(CommandType), NEW cmd, NEW i, NEW r
    PROVE  QueuedBytes(cmd, i, r) \in Nat
BY QueuedType DEF QueuedBytes, Queued

LEMMA PoppedOrder ==
    ASSUME queue \in Seq(CommandType), Popped, InOrder
    PROVE  /\ queue' \in Seq(CommandType) /\ Len(queue') = Len(queue) - 1 /\ Len(queue) \in Nat \ {0}
           /\ Head(queue) \in CommandType /\ Current(Head(queue)) /\ Head(queue) = queue[1]
           /\ \A k \in 1..Len(queue') : /\ k + 1 \in 1..Len(queue) /\ queue'[k] = queue[k + 1]
                                        /\ queue'[k] \in CommandType
                                        /\ Current(queue'[k]) /\ Before(Head(queue), queue'[k])
           /\ Ordered(queue')
<1>1. /\ Tail(queue) \in Seq(CommandType) /\ Len(Tail(queue)) = Len(queue) - 1
      /\ Len(queue) \in Nat \ {0} /\ Head(queue) = queue[1] /\ queue[1] \in CommandType
      /\ 1 \in 1..Len(queue)
  BY DEF Popped
<1>2. \A k \in 1..Len(Tail(queue)) : k + 1 \in 1..Len(queue) /\ Tail(queue)[k] = queue[k + 1]
  BY <1>1
<1>3. \A k \in 1..Len(queue) : Current(queue[k]) /\ queue[k] \in CommandType
  BY DEF InOrder
<1>4. Ordered(Tail(queue)) /\ \A k \in 1..Len(Tail(queue)) : Before(Head(queue), Tail(queue)[k])
  BY OrderedPop DEF InOrder, Popped
<1>5. Current(Head(queue))
  BY <1>1, <1>3
<1>6. queue' = Tail(queue)
  BY DEF Popped
<1>7. \A k \in 1..Len(Tail(queue)) : Current(Tail(queue)[k]) /\ Tail(queue)[k] \in CommandType
  BY <1>2, <1>3
<1> QED BY <1>1, <1>2, <1>4, <1>5, <1>6, <1>7

LEMMA OrderStep ==
    ASSUME queue \in Seq(CommandType), InOrder, queue' = queue \/ Popped,
           \A m \in CommandType :
               Current(m) /\ (\E k \in 1..Len(queue') : queue'[k] = m) => Current(m)'
    PROVE  InOrder' /\ queue' \in Seq(CommandType)
<1>1. /\ queue' \in Seq(CommandType) /\ Ordered(queue')
      /\ \A k \in 1..Len(queue') : queue'[k] \in CommandType /\ Current(queue'[k])
  <2>1. CASE queue' = queue
    BY <2>1 DEF InOrder
  <2>2. CASE Popped
    BY <2>2, PoppedOrder
  <2> QED BY <2>1, <2>2
<1>2. ASSUME NEW k \in 1..Len(queue') PROVE Current(queue[k])'
  <2>1. PICK m \in CommandType : m = queue'[k]
    BY <1>1
  <2>2. Current(m)
    BY <1>1, <2>1
  <2>3. Current(m)'
    BY <2>1, <2>2
  <2> QED BY <2>1, <2>3 DEF Current
<1>3. Ordered(queue)'
  BY <1>1 DEF Ordered, Before
<1> QED BY <1>1, <1>2, <1>3 DEF InOrder

\* An OPEN is still there unless it has just been carried out.
LEMMA OpenStep ==
    ASSUME queue \in Seq(CommandType), QueueSame, NEW j,
           \E k \in 1..Len(queue) : IsOpen(queue[k], j)
    PROVE  \E k \in 1..Len(queue') : IsOpen(queue'[k], j)
<1>1. CASE queue' = queue
  BY <1>1
<1>2. CASE Popped /\ Head(queue).cmd # "OPEN"
  <2>1. PICK k \in 1..Len(queue) : IsOpen(queue[k], j)
    OBVIOUS
  <2>2. k # 1
    BY <1>2, <2>1 DEF IsOpen, Popped
  <2>3. k - 1 \in 1..Len(queue') /\ queue'[k - 1] = queue[k]
    BY <1>2, <2>2 DEF Popped
  <2> QED BY <2>1, <2>3
<1> QED BY <1>1, <1>2 DEF QueueSame

\* One stream of an open process changes, and keeps its part of the invariant.
StreamStep(i, r) ==
    /\ proc[i] /\ exit = "no" /\ exit' \in Exits
    /\ OthersKept(i, r)
    /\ UNCHANGED <<conn, loop, proc, pid, peer, conns, opens, phase, exits, child, sigchld>>
    /\ events' \subseteq events /\ (Socket \in events' => queue' = queue)
    /\ QueueSame
    /\ \A j \in Ids, s \in Role : j # i \/ s # r =>
            /\ QueuedBytes("ACK", j, s)' = QueuedBytes("ACK", j, s)
            /\ QueuedBytes("WRITE", j, s)' = QueuedBytes("WRITE", j, s)
    /\ (io'[i][r].asked <=> io[i][r].asked)
    /\ \/ r \in InRoles \/ (pb'[i][r].eof <=> pb[i][r].eof)
       \/ \A k \in 1..Len(queue') : ~(/\ queue'[k].cmd = "WRITE" /\ queue'[k].id = i
                                      /\ queue'[k].role = r)

LEMMA StreamStepInv ==
    ASSUME CreditInv, NEW i \in Ids, NEW r \in Role, StreamStep(i, r), StreamInv(i, r)'
    PROVE  CreditInv'
<1>1. queue \in Seq(CommandType) /\ (queue' = queue \/ Popped) /\ InOrder /\ Types
  BY DEF CreditInv, StreamStep, QueueSame, Types
<1>2. InOrder' /\ queue' \in Seq(CommandType)
  <2>1. ASSUME NEW m \in CommandType, Current(m), NEW k \in 1..Len(queue'), queue'[k] = m
        PROVE  Current(m)'
    <3>1. m.id \in Ids /\ m.role \in Role
      BY DEF CommandType
    <3>2. phase'[m.id] = phase[m.id] /\ proc'[m.id] = proc[m.id]
      BY DEF StreamStep
    <3>3. (io'[m.id][m.role].asked <=> io[m.id][m.role].asked)
      BY <3>1 DEF StreamStep, OthersKept
    <3>4. m.cmd = "WRITE" => m.role \notin InRoles
      BY <2>1 DEF Current, InRoles, OutRoles
    <3>5. m.cmd = "WRITE" => (pb'[m.id][m.role].eof <=> pb[m.id][m.role].eof)
      BY <2>1, <3>1, <3>4 DEF StreamStep, OthersKept
    <3> QED BY <2>1, <3>2, <3>3, <3>5, CurrentFrame
  <2> QED BY <1>1, <2>1, OrderStep
<1>3. Types'
  BY <1>1, <1>2 DEF Types, StreamStep, OthersKept
<1>4. Batch'
  BY DEF CreditInv, Batch, StreamStep
<1>5. ASSUME NEW j \in Ids PROVE Session(j)'
  <2>1. Session(j)
    BY DEF CreditInv
  <2>2. /\ proc'[j] = proc[j] /\ phase'[j] = phase[j] /\ conn' = conn /\ child'[j] = child[j]
        /\ pid'[j] = pid[j]
    BY DEF StreamStep
  <2>3. ~proc[j] => pb'[j] = pb[j] /\ io'[j] = io[j]
    BY DEF StreamStep, OthersKept
  <2>4. ~proc[j] => Unused(j)'
    BY <2>1, <2>2, <2>3 DEF Session, Unused
  <2>5. phase[j] # "free" /\ ~proc[j] => \E k \in 1..Len(queue') : IsOpen(queue'[k], j)
    BY <1>1, <2>1, OpenStep DEF Session, StreamStep
  <2> QED BY <2>1, <2>2, <2>4, <2>5 DEF Session, IsOpen
<1>6. ASSUME NEW j \in Ids, NEW s \in Role PROVE StreamInv(j, s)'
  <2>1. CASE j = i /\ s = r
    BY <2>1
  <2>2. CASE j # i \/ s # r
    <3>1. StreamInv(j, s)
      BY DEF CreditInv
    <3>2. pb'[j][s] = pb[j][s] /\ io'[j][s] = io[j][s] /\ proc'[j] = proc[j]
      BY <2>2 DEF StreamStep, OthersKept
    <3>3. /\ QueuedBytes("ACK", j, s)' = QueuedBytes("ACK", j, s)
          /\ QueuedBytes("WRITE", j, s)' = QueuedBytes("WRITE", j, s)
          /\ events' \subseteq events /\ exit = "no"
      BY <2>2 DEF StreamStep
    <3> QED BY <3>1, <3>2, <3>3, StreamFrame
  <2> QED BY <2>1, <2>2
<1> QED BY <1>2, <1>3, <1>4, <1>5, <1>6 DEF CreditInv

---------------------------------------------------------------------------
(* Events of pipes.                                                        *)

\* A stream with an event that is not stale belongs to a process that is open.
LEMMA PolledStream ==
    ASSUME CreditInv, NEW i \in Ids, NEW r \in Role, <<i, r>> \in events, exit = "no",
           ~Stale(<<i, r>>)
    PROVE  /\ pb[i][r] \in BufType /\ io[i][r] \in IoType /\ pb[i][r].fd
           /\ pb[i][r].polled = 1 /\ proc[i] /\ StreamInv(i, r)
<1>1. pb[i][r] \in BufType /\ io[i][r] \in IoType /\ StreamInv(i, r) /\ Session(i)
  BY DEF CreditInv, Types
<1>2. pb[i][r].fd
  BY DEF Stale
<1>3. pb[i][r].polled = 1
  BY <1>1, <1>2 DEF StreamInv, Fresh
<1>4. proc[i]
  <2>1. ~ClosedBuf.fd
    BY DEF ClosedBuf
  <2>2. ~proc[i] => pb[i][r] = ClosedBuf
    BY <1>1 DEF Session, Unused
  <2> QED BY <1>2, <2>1, <2>2
<1> QED BY <1>1, <1>2, <1>3, <1>4

\* The parts of pipebuf_in_to_internal_buffer.
AtEnd(b, end) == IF end THEN [Del(b) EXCEPT !.eof = TRUE] ELSE b
AfterSend(b) == IF b.credit > 0 THEN Sent(b, b.bufcount) ELSE b
AfterRead(b) == IF b.bufcount = SIZE THEN Del(b) ELSE CloseIfEof(b)

LEMMA AddType ==
    ASSUME NEW b \in BufType, b.polled = 0
    PROVE  /\ Add(b) \in BufType /\ (Add(b).fd <=> b.fd) /\ (Add(b).eof <=> b.eof) /\ Add(b).polled = 1
           /\ Add(b).credit = b.credit /\ Add(b).bufcount = b.bufcount
<1>1. Add(b) = SetPolled(b, 1)
  BY DEF Add, SetPolled
<1> QED BY <1>1, PolledType

LEMMA DelType ==
    ASSUME NEW b \in BufType, b.polled = 1
    PROVE  /\ Del(b) \in BufType /\ (Del(b).fd <=> b.fd) /\ (Del(b).eof <=> b.eof) /\ Del(b).polled = 0
           /\ Del(b).credit = b.credit /\ Del(b).bufcount = b.bufcount
<1>1. Del(b) = SetPolled(b, 0)
  BY DEF Del, SetPolled
<1> QED BY <1>1, PolledType

LEMMA AtEndType ==
    ASSUME NEW b \in BufType, b.polled = 1, NEW end \in BOOLEAN
    PROVE  /\ AtEnd(b, end) \in BufType /\ (AtEnd(b, end).fd <=> b.fd)
           /\ AtEnd(b, end).credit = b.credit /\ AtEnd(b, end).bufcount = b.bufcount
           /\ ~end => AtEnd(b, end).polled = 1
<1>1. CASE end
  <2>1. PICK d \in BufType : /\ d = Del(b) /\ (d.fd <=> b.fd) /\ d.credit = b.credit
                             /\ d.bufcount = b.bufcount
    BY DelType
  <2>2. AtEnd(b, end) = SetEof(d)
    BY <1>1, <2>1 DEF AtEnd, SetEof
  <2> QED BY <1>1, <2>1, <2>2, EofType
<1>2. CASE ~end
  BY <1>2 DEF AtEnd
<1> QED BY <1>1, <1>2

LEMMA AfterSendType ==
    ASSUME NEW b \in BufType
    PROVE  \E n \in Nat :
             /\ n <= b.bufcount /\ n <= b.credit
             /\ AfterSend(b) \in BufType
             /\ (AfterSend(b).fd <=> b.fd) /\ (AfterSend(b).eof <=> b.eof)
             /\ AfterSend(b).polled = b.polled
             /\ AfterSend(b).bufcount = b.bufcount - n /\ AfterSend(b).credit = b.credit - n
<1>1. b.bufcount \in Nat /\ b.credit \in Nat
  BY ExecAssumption DEF BufType
<1>2. CASE b.credit > 0
  BY <1>1, <1>2, SentType DEF AfterSend
<1>3. CASE ~(b.credit > 0)
  <2>1. AfterSend(b) = b /\ b.bufcount = b.bufcount - 0 /\ b.credit = b.credit - 0
    BY <1>1, <1>3 DEF AfterSend
  <2> QED BY <1>1, <2>1
<1> QED BY <1>2, <1>3

LEMMA AfterReadType ==
    ASSUME NEW b \in BufType, b.fd, b.bufcount = SIZE => b.polled = 1
    PROVE  LET c == AfterRead(b)
           IN  /\ c \in BufType /\ c.credit = b.credit /\ c.bufcount = b.bufcount
               /\ ~c.fd => c.bufcount = 0 /\ c.polled = 0
               /\ c.bufcount = SIZE => c.polled = 0
<1>1. SIZE \in Nat /\ SIZE > 0
  BY ExecAssumption
<1>2. CASE b.bufcount = SIZE
  BY <1>2, DelType DEF AfterRead
<1>3. CASE b.bufcount # SIZE
  <2>1. AfterRead(b) = CloseIfEof(b)
    BY <1>3 DEF AfterRead
  <2> QED BY <1>1, <1>3, <2>1, CloseIfEofType
<1> QED BY <1>2, <1>3

InTaken(b, s) == Min({SIZE - b.bufcount, Len(s.pipe)})
InFilled(b, s) == Filled(b, SubSeq(s.pipe, 1, InTaken(b, s)))
InRead(b, s) == AtEnd(InFilled(b, s), InFilled(b, s).bufcount < SIZE /\ ~s.far)
Trimmed(s, k) == [s EXCEPT !.pipe = SubSeq(@, k + 1, Len(@))]

LEMMA TrimmedType ==
    ASSUME NEW s \in IoType, NEW k \in Nat, k <= Len(s.pipe)
    PROVE  /\ Trimmed(s, k) \in IoType /\ Trimmed(s, k).window = s.window
           /\ (Trimmed(s, k).asked <=> s.asked) /\ Len(Trimmed(s, k).pipe) <= Len(s.pipe)
           /\ Trimmed(s, k).got = s.got /\ Trimmed(s, k).put = s.put /\ (Trimmed(s, k).far <=> s.far)
<1>1. PICK p \in Seq(Nat) : p = s.pipe
  BY DEF IoType
<1>2. PICK t \in Seq(Nat) : t = SubSeq(p, k + 1, Len(p)) /\ Len(t) <= Len(p)
  <2>1. Len(p) \in Nat /\ k <= Len(p)
    BY <1>1
  <2>2. \A j \in k + 1..Len(p) : p[j] \in Nat
    BY <2>1
  <2>3. SubSeq(p, k + 1, Len(p)) \in Seq(Nat) /\ Len(SubSeq(p, k + 1, Len(p))) <= Len(p)
    BY <2>1, <2>2
  <2> QED BY <2>3
<1>3. Trimmed(s, k) = [s EXCEPT !.pipe = t]
  BY <1>1, <1>2 DEF Trimmed
<1> QED BY <1>1, <1>2, <1>3 DEF IoType

LEMMA InFilledType ==
    ASSUME NEW b \in BufType, NEW s \in IoType
    PROVE  /\ InTaken(b, s) \in Nat /\ InTaken(b, s) <= Len(s.pipe)
           /\ InFilled(b, s) \in BufType /\ (InFilled(b, s).fd <=> b.fd)
           /\ InFilled(b, s).polled = b.polled /\ InFilled(b, s).credit = b.credit
<1>1. PICK p \in Seq(Nat) : p = s.pipe
  BY DEF IoType
<1>2. PICK n \in 0..SIZE : n = b.bufcount
  BY DEF BufType
<1>3. PICK k \in Nat : k = InTaken(b, s) /\ k <= Len(p) /\ k <= SIZE - n
  <2>1. SIZE - n \in Nat /\ Len(p) \in Nat
    BY <1>2, ExecAssumption
  <2>2. PICK m \in Nat : m = SIZE - n
    BY <2>1
  <2>3. Min({m, Len(p)}) \in Nat /\ Min({m, Len(p)}) <= m /\ Min({m, Len(p)}) <= Len(p)
    BY <2>1, MinOfTwo
  <2>4. InTaken(b, s) = Min({m, Len(p)})
    BY <1>1, <1>2, <2>2 DEF InTaken
  <2> QED BY <2>2, <2>3, <2>4
<1>4. PICK bytes \in Seq(Nat) : bytes = SubSeq(p, 1, k) /\ Len(bytes) = k
  <2>1. SubSeq(p, 1, k) \in Seq(Nat) /\ Len(SubSeq(p, 1, k)) = k
    BY <1>3
  <2> QED BY <2>1
<1>5. InFilled(b, s) = Filled(b, bytes)
  BY <1>1, <1>3, <1>4 DEF InFilled
<1>6. b.bufcount + Len(bytes) <= SIZE
  <2>1. Len(bytes) = k /\ k <= SIZE - n /\ b.bufcount = n
    BY <1>2, <1>3, <1>4
  <2>2. SIZE \in Nat
    BY ExecAssumption
  <2> QED BY <2>1, <2>2
<1> QED BY <1>1, <1>3, <1>5, <1>6, FilledType

LEMMA InReadType ==
    ASSUME NEW b \in BufType, NEW s \in IoType, b.polled = 1
    PROVE  /\ InRead(b, s) \in BufType /\ (InRead(b, s).fd <=> b.fd)
           /\ InRead(b, s).credit = b.credit
           /\ InRead(b, s).bufcount = SIZE => InRead(b, s).polled = 1
<1>1. PICK c \in BufType : /\ c = InFilled(b, s) /\ (c.fd <=> b.fd) /\ c.polled = 1
                           /\ c.credit = b.credit
  BY InFilledType
<1>2. PICK end \in BOOLEAN : end <=> (c.bufcount < SIZE /\ ~s.far)
  OBVIOUS
<1>3. InRead(b, s) = AtEnd(c, end)
  BY <1>1, <1>2 DEF InRead, AtEnd
<1>4. c.bufcount \in Nat /\ SIZE \in Nat
  BY ExecAssumption DEF BufType
<1>5. /\ AtEnd(c, end) \in BufType /\ (AtEnd(c, end).fd <=> c.fd)
      /\ AtEnd(c, end).credit = c.credit /\ AtEnd(c, end).bufcount = c.bufcount
      /\ ~end => AtEnd(c, end).polled = 1
  BY <1>1, AtEndType
<1>6. c.bufcount = SIZE => ~end
  BY <1>2, <1>4
<1> QED BY <1>1, <1>3, <1>5, <1>6

LEMMA InEvent ==
    ASSUME CreditInv, NEW i \in Ids, NEW r \in InRoles, <<i, r>> \in events, exit = "no",
           ~Stale(<<i, r>>), events' = events \ {<<i, r>>},
           pipebuf_in_to_internal_buffer(i, r),
           UNCHANGED <<loop, conn, proc, pid, hostVars, child, sigchld>>
    PROVE  StreamStep(i, r) /\ StreamInv(i, r)' /\ (exit' = exit \/ BrokenSocket)
<1> r \in Role
  BY DEF Role
<1>a. /\ pb[i][r] \in BufType /\ io[i][r] \in IoType /\ pb[i][r].fd
      /\ pb[i][r].polled = 1 /\ proc[i] /\ StreamInv(i, r)
  BY PolledStream
<1>1. PICK b0 \in BufType : b0 = pb[i][r] /\ b0.fd /\ b0.polled = 1
  BY <1>a
<1>2. PICK s \in IoType : s = io[i][r]
  BY <1>a
<1>3. ToHost(i, r, AfterRead(AfterSend(InRead(b0, s))), Trimmed(s, InTaken(b0, s)),
             Bytes(InRead(b0, s), InRead(b0, s).bufcount - AfterSend(InRead(b0, s)).bufcount))
  <2> DEFINE b == pb[i][r]
             t == io[i][r]
  <2>1. ToHost(i, r, AfterRead(AfterSend(InRead(b, t))), Trimmed(t, InTaken(b, t)),
               Bytes(InRead(b, t), InRead(b, t).bufcount - AfterSend(InRead(b, t)).bufcount))
    BY DEF pipebuf_in_to_internal_buffer, AtEnd, AfterSend, AfterRead, InRead, InFilled, InTaken, Trimmed
  <2> HIDE DEF b, t
  <2>2. b = b0 /\ t = s
    BY <1>1, <1>2 DEF b, t
  <2> QED BY <2>1, <2>2
<1>4. PICK b2 \in BufType : /\ b2 = InRead(b0, s) /\ b2.fd /\ b2.credit = b0.credit
                            /\ b2.bufcount = SIZE => b2.polled = 1
  BY <1>1, InReadType
<1>5. PICK n \in Nat : /\ n <= b2.bufcount /\ n <= b2.credit
                       /\ AfterSend(b2) \in BufType /\ (AfterSend(b2).fd <=> b2.fd)
                       /\ AfterSend(b2).polled = b2.polled
                       /\ AfterSend(b2).bufcount = b2.bufcount - n
                       /\ AfterSend(b2).credit = b2.credit - n
  BY AfterSendType
<1>6. PICK b3 \in BufType : b3 = AfterSend(b2)
  BY <1>5
<1>7. b2.bufcount \in 0..SIZE /\ b2.credit \in Nat /\ SIZE \in Nat
  BY ExecAssumption DEF BufType
<1>8. b3.fd /\ (b3.bufcount = SIZE => b3.polled = 1)
  BY <1>4, <1>5, <1>6, <1>7
<1>9. PICK b4 \in BufType : /\ b4 = AfterRead(b3) /\ b4.credit = b3.credit
                            /\ b4.bufcount = b3.bufcount
                            /\ ~b4.fd => b4.bufcount = 0 /\ b4.polled = 0
                            /\ b4.bufcount = SIZE => b4.polled = 0
  BY <1>8, AfterReadType
<1>10. PICK x \in IoType : /\ x = Trimmed(s, InTaken(b0, s)) /\ x.window = s.window
                           /\ (x.asked <=> s.asked) /\ Len(x.pipe) <= Len(s.pipe)
  BY InFilledType, TrimmedType
<1>11. PICK sent \in Seq(Nat) : sent = Bytes(b2, n) /\ Len(sent) = n
  BY BytesType
<1>12. b2.bufcount - b3.bufcount = n
  BY <1>5, <1>6, <1>7
<1>13. ToHost(i, r, b4, x, sent)
  BY <1>3, <1>4, <1>6, <1>9, <1>10, <1>11, <1>12
<1>14. queue' = queue /\ queue \in Seq(CommandType)
  BY DEF hostVars, CreditInv, Types
<1>15. PICK q \in Nat : q = QueuedBytes("ACK", i, r)
  BY <1>14, BytesNat
<1>16. /\ QueuedBytes("ACK", i, r)' = q
       /\ b0.credit \in Nat /\ s.window \in Nat /\ b0.credit + q = s.window
  <2>1. QueuedBytes("ACK", i, r)' = q
    BY <1>14, <1>15, SameBytes
  <2>2. b0.credit \in Nat /\ s.window \in Nat
    BY DEF BufType, IoType
  <2>3. b0.credit + q = s.window
    BY <1>a, <1>1, <1>2, <1>15 DEF StreamInv, Accounts
  <2> QED BY <2>1, <2>2, <2>3
<1>17. Len(sent) <= x.window
  BY <1>4, <1>5, <1>10, <1>11, <1>16
<1>18. b4.polled = 1 => b4.fd
  BY <1>9
<1>19. Types
  BY DEF CreditInv
<1>20. /\ OthersKept(i, r) /\ exit' \in Exits /\ (exit' = exit \/ BrokenSocket)
       /\ pb'[i][r] = b4 /\ io'[i][r].window = x.window - Len(sent) /\ io'[i][r].pipe = x.pipe
       /\ (io'[i][r].asked <=> x.asked)
  BY <1>13, <1>17, <1>18, <1>19, ToHostStep
<1>21. Accounts(i, r)'
  <2>1. b4.credit + q = x.window - n
    BY <1>4, <1>5, <1>6, <1>9, <1>10, <1>16
  <2> QED BY <1>11, <1>16, <1>20, <2>1 DEF Accounts
<1>22. Polled(i, r)'
  BY <1>9, <1>20 DEF Polled, InRoles, OutRoles
<1>23. Fresh(i, r)'
  BY DEF Fresh
<1>24. Fits(i, r)'
  <2>1. Len(s.pipe) <= PIPE_CAP /\ PIPE_CAP \in Nat
    BY <1>a, <1>2, ExecAssumption DEF StreamInv, Fits
  <2>2. Len(x.pipe) \in Nat /\ Len(s.pipe) \in Nat
    BY DEF IoType
  <2> QED BY <1>10, <1>20, <2>1, <2>2 DEF Fits
<1>25. StreamStep(i, r)
  <2>1. \A j, t : /\ QueuedBytes("ACK", j, t)' = QueuedBytes("ACK", j, t)
                  /\ QueuedBytes("WRITE", j, t)' = QueuedBytes("WRITE", j, t)
    BY <1>14, SameBytes
  <2> QED BY <1>a, <1>2, <1>10, <1>14, <1>20, <2>1 DEF StreamStep, hostVars, QueueSame
<1> QED BY <1>20, <1>21, <1>22, <1>23, <1>24, <1>25 DEF StreamInv

\* A handler that sends no data of the stream.
LEMMA ToHostQuiet ==
    ASSUME Types, NEW i \in Ids, NEW r \in Role, NEW b \in BufType, NEW x \in IoType,
           b.polled = 1 => b.fd, ToHost(i, r, b, x, <<>>)
    PROVE  /\ OthersKept(i, r)
           /\ exit' \in Exits /\ (exit' = exit \/ BrokenSocket)
           /\ pb'[i][r] = b
           /\ io'[i][r].got = x.got /\ io'[i][r].window = x.window
           /\ io'[i][r].pipe = x.pipe /\ (io'[i][r].far <=> x.far) /\ io'[i][r].put = x.put
           /\ (io'[i][r].asked <=> x.asked)
<1>1. PICK e \in Seq(Nat) : e = <<>> /\ Len(e) = 0
  <2>1. <<>> \in Seq(Nat) /\ Len(<<>>) = 0
    OBVIOUS
  <2> QED BY <2>1
<1>2. x.window \in Nat /\ x.got \in Seq(Nat)
  BY DEF IoType
<1>3. ToHost(i, r, b, x, e) /\ Len(e) <= x.window
  BY <1>1, <1>2
<1>4. x.got \o e = x.got /\ x.window - Len(e) = x.window
  <2>1. PICK g \in Seq(Nat) : g = x.got
    BY <1>2
  <2>2. g \o <<>> = g
    OBVIOUS
  <2>3. x.got \o e = x.got
    BY <1>1, <2>1, <2>2
  <2>4. x.window - Len(e) = x.window
    BY <1>1, <1>2
  <2> QED BY <2>3, <2>4
<1>5. /\ OthersKept(i, r)
      /\ exit' \in Exits /\ (exit' = exit \/ BrokenSocket)
      /\ pb'[i][r] = b
      /\ io'[i][r].got = x.got \o e /\ io'[i][r].window = x.window - Len(e)
      /\ io'[i][r].pipe = x.pipe /\ (io'[i][r].far <=> x.far) /\ io'[i][r].put = x.put
      /\ (io'[i][r].asked <=> x.asked)
  BY <1>3, ToHostStep
<1> QED BY <1>4, <1>5

\* Nothing happens to a stream.
LEMMA QuietStep ==
    ASSUME CreditInv, NEW i \in Ids, NEW r \in Role, proc[i], exit = "no", exit' \in Exits,
           UNCHANGED <<pb, io, conn, loop, proc, pid, peer, conns, opens, queue, phase, exits, child,
                       sigchld>>,
           events' \subseteq events
    PROVE  StreamStep(i, r) /\ StreamInv(i, r)'
<1>1. \A j, s : /\ QueuedBytes("ACK", j, s)' = QueuedBytes("ACK", j, s)
                /\ QueuedBytes("WRITE", j, s)' = QueuedBytes("WRITE", j, s)
  BY SameBytes
<1>2. OthersKept(i, r)
  BY DEF OthersKept, CreditInv, Types
<1>3. StreamStep(i, r)
  BY <1>1, <1>2 DEF StreamStep, QueueSame
<1>4. StreamInv(i, r)
  BY DEF CreditInv
<1>5. StreamInv(i, r)'
  BY <1>1, <1>4, StreamFrame
<1> QED BY <1>3, <1>5

\* What a process has been sent is neither lost nor made on the way to its pipe.
Conserved(i, r) ==
    /\ io'[i][r].put = io[i][r].put /\ io'[i][r].got = io[i][r].got
    /\ (io'[i][r].far <=> io[i][r].far)
    /\ Len(io'[i][r].pipe) + pb'[i][r].bufcount + QueuedBytes("WRITE", i, r)' =
         Len(io[i][r].pipe) + pb[i][r].bufcount + QueuedBytes("WRITE", i, r)

\* The parts of pipebuf_out_is_writable.
OutTaken(b, s) == Min({b.bufcount, PIPE_CAP - Len(s.pipe)})
Piped(s, b, n, w) == [s EXCEPT !.pipe = @ \o Bytes(b, n), !.window = @ + w]

PipedFrom(x, s, n, w) ==
    /\ x \in IoType /\ x.got = s.got /\ x.put = s.put /\ (x.far <=> s.far)
    /\ (x.asked <=> s.asked) /\ x.window = s.window + w /\ Len(x.pipe) = Len(s.pipe) + n
LEMMA PipedType ==
    ASSUME NEW b \in BufType, NEW s \in IoType, NEW n \in Nat, NEW w \in Nat
    PROVE  PipedFrom(Piped(s, b, n, w), s, n, w)
<1>1. PICK p \in Seq(Nat) : p = s.pipe
  BY DEF IoType
<1>2. PICK q \in Seq(Nat) : q = Bytes(b, n) /\ Len(q) = n
  BY BytesType
<1>3. PICK t \in Seq(Nat) : t = p \o q /\ Len(t) = Len(p) + n
  <2>1. p \o q \in Seq(Nat) /\ Len(p \o q) = Len(p) + n
    BY <1>2
  <2> QED BY <2>1
<1>4. PICK v \in Nat : v = s.window + w
  BY DEF IoType
<1>5. Piped(s, b, n, w) = [s EXCEPT !.pipe = t, !.window = v]
  BY <1>1, <1>2, <1>3, <1>4 DEF Piped
<1> QED BY <1>1, <1>3, <1>4, <1>5 DEF IoType, PipedFrom

LEMMA OutTakenType ==
    ASSUME NEW b \in BufType, NEW s \in IoType, Len(s.pipe) <= PIPE_CAP
    PROVE  /\ OutTaken(b, s) \in 0..b.bufcount /\ OutTaken(b, s) + Len(s.pipe) <= PIPE_CAP
<1>1. PICK n \in Nat : n = b.bufcount
  BY ExecAssumption DEF BufType
<1>2. PICK l \in Nat : l = Len(s.pipe) /\ l <= PIPE_CAP
  BY DEF IoType
<1>3. PICK m \in Nat : m = PIPE_CAP - l
  <2>1. PIPE_CAP - l \in Nat
    BY <1>2, ExecAssumption
  <2> QED BY <2>1
<1>4. OutTaken(b, s) = Min({n, m})
  BY <1>1, <1>2, <1>3 DEF OutTaken
<1>5. Min({n, m}) \in Nat /\ Min({n, m}) <= n /\ Min({n, m}) <= m
  BY MinOfTwo
<1>6. PIPE_CAP \in Nat
  BY ExecAssumption
<1> QED BY <1>1, <1>2, <1>3, <1>4, <1>5, <1>6

LEMMA AcknowledgedType ==
    ASSUME NEW b \in BufType, b.bufcount = 0, b.polled = 0, b.fd, NEW n \in Nat
    PROVE  LET c == Acknowledged(b, n)
           IN  /\ c \in BufType /\ c.credit = b.credit + n /\ c.bufcount = 0 /\ c.polled = 0
               /\ (c.eof <=> b.eof) /\ (~c.eof => c.fd)
<1>1. PICK m \in Nat : m = b.credit + n
  BY DEF BufType
<1>2. PICK d \in BufType : /\ d = SetCredit(b, m) /\ d.fd /\ (d.eof <=> b.eof) /\ d.credit = m
                           /\ d.bufcount = 0 /\ d.polled = 0
  BY CreditType
<1>3. Acknowledged(b, n) = CloseIfEof(d)
  BY <1>1, <1>2 DEF Acknowledged, SetCredit
<1>4. /\ CloseIfEof(d) \in BufType
      /\ CloseIfEof(d).credit = d.credit /\ (CloseIfEof(d).eof <=> d.eof)
      /\ CloseIfEof(d).bufcount = d.bufcount
      /\ CloseIfEof(d) = d \/ (d.eof /\ CloseIfEof(d).polled = 0)
  BY CloseIfEofType
<1> QED BY <1>1, <1>2, <1>3, <1>4

LEMMA OutEvent ==
    ASSUME CreditInv, PromptReader, NEW i \in Ids, NEW r \in OutRoles, <<i, r>> \in events,
           exit = "no", ~Stale(<<i, r>>), events' = events \ {<<i, r>>},
           pipebuf_out_is_writable(i, r),
           UNCHANGED <<conn, proc, pid, hostVars, child, sigchld>>
    PROVE  /\ StreamStep(i, r) /\ StreamInv(i, r)' /\ Conserved(i, r)
           /\ exit' = exit \/ BrokenSocket \/ BrokenPipe(i, r)
<1> r \in Role
  BY DEF Role
<1>a. /\ pb[i][r] \in BufType /\ io[i][r] \in IoType /\ pb[i][r].fd
      /\ pb[i][r].polled = 1 /\ proc[i] /\ StreamInv(i, r)
  BY PolledStream
<1>b. Types /\ loop = NoLoop /\ queue' = queue /\ queue \in Seq(CommandType)
  BY DEF CreditInv, Types, hostVars
<1>c. CASE ~io[i][r].far
  <2>1. exit' = "sigpipe" /\ UNCHANGED <<pb, io, loop>>
    BY <1>c DEF pipebuf_out_is_writable, Exit
  <2>2. StreamStep(i, r) /\ StreamInv(i, r)'
    BY <1>a, <2>1, QuietStep DEF Exits, hostVars
  <2>3. QueuedBytes("WRITE", i, r)' = QueuedBytes("WRITE", i, r)
    BY <1>b, SameBytes
  <2>4. Conserved(i, r)
    BY <2>1, <2>3 DEF Conserved
  <2>5. BrokenPipe(i, r)
    BY <1>a, <1>c, <2>1 DEF BrokenPipe, StreamInv, Polled
  <2> QED BY <2>2, <2>4, <2>5
<1>d. CASE io[i][r].far
  <2>1. PICK b0 \in BufType : b0 = pb[i][r] /\ b0.fd /\ b0.polled = 1
    BY <1>a
  <2>2. PICK s \in IoType : s = io[i][r]
    BY <1>a
  <2>3. Len(s.pipe) <= PIPE_CAP
    BY <1>a, <2>2 DEF StreamInv, Fits
  <2>4. PICK n \in 0..b0.bufcount : n = OutTaken(b0, s) /\ n + Len(s.pipe) <= PIPE_CAP
    BY <2>3, OutTakenType
  <2>5. /\ n = b0.bufcount
        /\ ToHost(i, r, Acknowledged(Del(Drained(b0, n)), n), Piped(s, b0, n, n), <<>>)
        /\ loop' = loop
    <3> DEFINE b == pb[i][r]
               t == io[i][r]
               m == OutTaken(b, t)
    <3>1. /\ m = b.bufcount
          /\ ToHost(i, r, Acknowledged(Del(Drained(b, m)), m), Piped(t, b, m, m), <<>>)
          /\ loop' = loop
      BY <1>d DEF pipebuf_out_is_writable, OutTaken, Room, Piped, Widened, PromptReader
    <3> HIDE DEF b, t, m
    <3>2. b = b0 /\ t = s /\ m = n
      BY <2>1, <2>2, <2>4 DEF b, t, m
    <3> QED BY <3>1, <3>2
  <2>6. n \in Nat /\ b0.bufcount \in 0..SIZE /\ b0.credit \in Nat /\ SIZE \in Nat
    BY ExecAssumption DEF BufType
  <2>7. PICK b1 \in BufType : /\ b1 = Drained(b0, n) /\ b1.fd /\ (b1.eof <=> b0.eof)
                              /\ b1.polled = 1 /\ b1.credit = b0.credit /\ b1.bufcount = 0
    BY <2>1, <2>5, <2>6, DrainedType
  <2>8. PICK b2 \in BufType : /\ b2 = Del(b1) /\ b2.fd /\ (b2.eof <=> b0.eof)
                              /\ b2.polled = 0 /\ b2.credit = b0.credit /\ b2.bufcount = 0
    BY <2>7, DelType
  <2>9. PICK b3 \in BufType : /\ b3 = Acknowledged(b2, n) /\ b3.credit = b0.credit + n
                              /\ b3.bufcount = 0 /\ b3.polled = 0
                              /\ (b3.eof <=> b0.eof) /\ (~b3.eof => b3.fd)
    BY <2>6, <2>8, AcknowledgedType
  <2>10. PICK x \in IoType : x = Piped(s, b0, n, n) /\ PipedFrom(x, s, n, n)
    <3>1. PipedFrom(Piped(s, b0, n, n), s, n, n)
      BY <2>6, PipedType
    <3> QED BY <3>1 DEF PipedFrom
  <2>11. ToHost(i, r, b3, x, <<>>)
    BY <2>5, <2>7, <2>8, <2>9, <2>10
  <2>13. /\ OthersKept(i, r) /\ exit' \in Exits /\ (exit' = exit \/ BrokenSocket)
         /\ pb'[i][r] = b3
         /\ io'[i][r].got = x.got /\ io'[i][r].window = x.window
         /\ io'[i][r].pipe = x.pipe /\ (io'[i][r].far <=> x.far) /\ io'[i][r].put = x.put
         /\ (io'[i][r].asked <=> x.asked)
    <3>1. (b3.polled = 1 => b3.fd) /\ Types
      BY <1>b, <2>9
    <3> QED BY <2>11, <3>1, ToHostQuiet
  <2>14. /\ io'[i][r].got = s.got /\ io'[i][r].window = s.window + n
         /\ io'[i][r].pipe = x.pipe /\ (io'[i][r].far <=> s.far) /\ io'[i][r].put = s.put
         /\ (io'[i][r].asked <=> s.asked) /\ Len(x.pipe) = Len(s.pipe) + n
    BY <2>10, <2>13 DEF PipedFrom
  <2>15. PICK q \in Nat : q = QueuedBytes("WRITE", i, r)
    BY <1>b, BytesNat
  <2>16. /\ QueuedBytes("WRITE", i, r)' = q /\ s.window \in Nat
         /\ s.window + q + b0.bufcount = SIZE /\ b0.credit + b0.bufcount = SIZE
    <3>1. r \notin InRoles
      BY DEF InRoles, OutRoles
    <3>2. s.window \in Nat /\ QueuedBytes("WRITE", i, r)' = q
      BY <1>b, <2>15, SameBytes DEF IoType
    <3>3. s.window + q + b0.bufcount = SIZE /\ b0.credit + b0.bufcount = SIZE
      BY <1>a, <2>1, <2>2, <2>15, <3>1 DEF StreamInv, Accounts
    <3> QED BY <3>2, <3>3
  <2>17. proc'[i] = proc[i]
    OBVIOUS
  <2>18. Accounts(i, r)'
    <3>1. r \notin InRoles
      BY DEF InRoles, OutRoles
    <3>2. (s.window + n) + q + 0 = SIZE /\ (b0.credit + n) + 0 = SIZE
      BY <2>5, <2>6, <2>16
    <3> QED BY <1>a, <2>9, <2>13, <2>14, <2>16, <2>17, <3>1, <3>2 DEF Accounts
  <2>19. Polled(i, r)'
    <3>1. r \notin InRoles /\ SIZE > 0
      BY ExecAssumption DEF InRoles, OutRoles
    <3>2. b0.eof => s.asked
      BY <1>a, <2>1, <2>2 DEF StreamInv, Polled
    <3> QED BY <2>6, <2>9, <2>13, <2>14, <3>1, <3>2 DEF Polled
  <2>20. Fresh(i, r)'
    BY DEF Fresh
  <2>21. Fits(i, r)'
    BY <2>4, <2>14 DEF Fits
  <2>22. StreamStep(i, r)
    <3>1. \A j, t : /\ QueuedBytes("ACK", j, t)' = QueuedBytes("ACK", j, t)
                    /\ QueuedBytes("WRITE", j, t)' = QueuedBytes("WRITE", j, t)
      BY <1>b, SameBytes
    <3>2. (pb'[i][r].eof <=> pb[i][r].eof) /\ (io'[i][r].asked <=> io[i][r].asked)
      BY <2>1, <2>2, <2>9, <2>13, <2>14
    <3> QED BY <1>a, <1>b, <2>5, <2>13, <3>1, <3>2 DEF StreamStep, hostVars, QueueSame
  <2>23. Conserved(i, r)
    <3>1. Len(x.pipe) + 0 + q = Len(s.pipe) + n + q /\ b0.bufcount = n
      <4>1. Len(s.pipe) \in Nat
        BY DEF IoType
      <4> QED BY <2>5, <2>6, <2>14, <4>1
    <3> QED BY <2>1, <2>2, <2>9, <2>13, <2>14, <2>15, <2>16, <3>1 DEF Conserved
  <2> QED BY <2>13, <2>18, <2>19, <2>20, <2>21, <2>22, <2>23 DEF StreamInv
<1> QED BY <1>c, <1>d

---------------------------------------------------------------------------
(* Commands.                                                               *)

\* The first command of the queue is taken from it.
Taken(m) ==
    /\ exit = "no" /\ Socket \in events /\ events' = events \ {Socket}
    /\ queue # <<>> /\ m = Head(queue) /\ queue' = Tail(queue)
    /\ UNCHANGED <<conn, loop, peer, conns, opens, exits>>

LEMMA TakenBytes ==
    ASSUME CreditInv, NEW m, Taken(m)
    PROVE  /\ m \in CommandType /\ Current(m) /\ Popped
           /\ \A cmd, j, s : /\ QueuedBytes(cmd, j, s)' \in Nat
                             /\ ~(m.cmd = cmd /\ m.id = j /\ m.role = s) =>
                                    QueuedBytes(cmd, j, s)' = QueuedBytes(cmd, j, s)
           /\ QueuedBytes(m.cmd, m.id, m.role) = m.n + QueuedBytes(m.cmd, m.id, m.role)'
<1>1. queue \in Seq(CommandType) /\ InOrder /\ Popped
  BY DEF CreditInv, Types, Taken, Popped
<1>2. m \in CommandType /\ Current(m)
  BY <1>1, PoppedOrder DEF Taken
<1>3. \A cmd, j, s : /\ QueuedBytes(cmd, j, s) = Amount(m, cmd, j, s) + QueuedBytes(cmd, j, s)'
                     /\ QueuedBytes(cmd, j, s)' \in Nat
  BY <1>1, PoppedBytes DEF Taken
<1>4. Amount(m, m.cmd, m.id, m.role) = m.n
  BY DEF Amount
<1>5. \A cmd, j, s : ~(m.cmd = cmd /\ m.id = j /\ m.role = s) => Amount(m, cmd, j, s) = 0
  BY DEF Amount
<1>6. ASSUME NEW cmd, NEW j, NEW s, ~(m.cmd = cmd /\ m.id = j /\ m.role = s)
      PROVE  QueuedBytes(cmd, j, s)' = QueuedBytes(cmd, j, s)
  <2>1. Amount(m, cmd, j, s) = 0
    BY <1>5, <1>6
  <2>2. /\ QueuedBytes(cmd, j, s) = Amount(m, cmd, j, s) + QueuedBytes(cmd, j, s)'
        /\ QueuedBytes(cmd, j, s)' \in Nat
    BY <1>3
  <2> QED BY <2>1, <2>2
<1>7. QueuedBytes(m.cmd, m.id, m.role) = m.n + QueuedBytes(m.cmd, m.id, m.role)'
  <2>1. QueuedBytes(m.cmd, m.id, m.role) =
            Amount(m, m.cmd, m.id, m.role) + QueuedBytes(m.cmd, m.id, m.role)'
    <3> DEFINE c == m.cmd
               i == m.id
               r == m.role
    <3>1. QueuedBytes(c, i, r) = Amount(m, c, i, r) + QueuedBytes(c, i, r)'
      BY <1>3 DEF QueuedBytes
    <3> QED BY <3>1
  <2> QED BY <1>4, <2>1
<1> QED BY <1>1, <1>2, <1>3, <1>6, <1>7


\* The host writes: what was in the queue is in the ring.
Numbers(from, n) == [k \in 1..n |-> from + k]
LEMMA NumbersType ==
    ASSUME NEW from \in Nat, NEW n \in Nat
    PROVE  Numbers(from, n) \in Seq(Nat) /\ Len(Numbers(from, n)) = n
<1>1. \A k \in 1..n : from + k \in Nat
  OBVIOUS
<1> QED BY <1>1 DEF Numbers

Watched(b) == IF b.bufcount = 0 THEN Add(b) ELSE b
Loaded(b, from, n) == [Filled(Watched(b), Numbers(from, n)) EXCEPT !.credit = @ - n]

LEMMA LoadedType ==
    ASSUME NEW b \in BufType, b.bufcount = 0 => b.polled = 0, b.bufcount > 0 => b.polled = 1,
           NEW from \in Nat, NEW n \in Nat, b.bufcount + n <= SIZE, n <= b.credit
    PROVE  LET c == Loaded(b, from, n)
           IN  /\ c \in BufType /\ (c.fd <=> b.fd) /\ (c.eof <=> b.eof) /\ c.polled = 1
               /\ c.credit = b.credit - n /\ c.bufcount = b.bufcount + n
<1>1. b.bufcount \in Nat /\ b.credit \in Nat
  BY ExecAssumption DEF BufType
<1>2. PICK b1 \in BufType : /\ b1 = Watched(b) /\ (b1.fd <=> b.fd) /\ (b1.eof <=> b.eof)
                            /\ b1.polled = 1 /\ b1.credit = b.credit /\ b1.bufcount = b.bufcount
  <2>1. CASE b.bufcount = 0
    BY <2>1, AddType DEF Watched
  <2>2. CASE b.bufcount # 0
    BY <1>1, <2>2 DEF Watched
  <2> QED BY <2>1, <2>2
<1>3. PICK bytes \in Seq(Nat) : bytes = Numbers(from, n) /\ Len(bytes) = n
  BY NumbersType
<1>4. b1.bufcount + Len(bytes) <= SIZE
  BY <1>2, <1>3
<1>5. PICK b2 \in BufType : /\ b2 = Filled(b1, bytes) /\ (b2.fd <=> b1.fd) /\ (b2.eof <=> b1.eof)
                            /\ b2.polled = 1 /\ b2.credit = b.credit
                            /\ b2.bufcount = b.bufcount + n
  BY <1>2, <1>3, <1>4, FilledType
<1>6. PICK e \in Nat : e = b.credit - n
  BY <1>1
<1>7. Loaded(b, from, n) = SetCredit(b2, e)
  BY <1>2, <1>3, <1>5, <1>6 DEF Loaded, SetCredit
<1>8. PICK c \in BufType : /\ c = SetCredit(b2, e) /\ (c.fd <=> b2.fd) /\ (c.eof <=> b2.eof)
                           /\ c.polled = b2.polled /\ c.credit = e /\ c.bufcount = b2.bufcount
  BY CreditType
<1> QED BY <1>2, <1>5, <1>6, <1>7, <1>8

LEMMA WriteCommand ==
    ASSUME CreditInv, NEW m, Taken(m), m.cmd = "WRITE", NEW i \in Ids, i = m.id,
           NEW r \in Role, r = m.role, proc[i],
           pipebuf_out_to_internal_buffer(i, r, m.from, m.n),
           UNCHANGED <<proc, pid, phase, child, sigchld>>
    PROVE  /\ StreamStep(i, r) /\ StreamInv(i, r)' /\ Conserved(i, r) /\ (exit' = exit \/ BrokenSocket)
           /\ pb'[i][r].polled = 1
<1>1. /\ m \in CommandType /\ Current(m) /\ Popped
      /\ \A cmd, j, s : /\ QueuedBytes(cmd, j, s)' \in Nat
                        /\ ~(m.cmd = cmd /\ m.id = j /\ m.role = s) =>
                              QueuedBytes(cmd, j, s)' = QueuedBytes(cmd, j, s)
      /\ QueuedBytes(m.cmd, m.id, m.role) = m.n + QueuedBytes(m.cmd, m.id, m.role)'
  BY TakenBytes
<1>2. r \in OutRoles /\ r \notin InRoles /\ ~pb[i][r].eof
  BY <1>1 DEF Current, InRoles, OutRoles
<1>3. pb[i][r] \in BufType /\ io[i][r] \in IoType /\ StreamInv(i, r) /\ Types
  BY DEF CreditInv, Types
<1>4. PICK b0 \in BufType : b0 = pb[i][r] /\ ~b0.eof
  BY <1>2, <1>3
<1>5. PICK s \in IoType : s = io[i][r]
  BY <1>3
<1>6. PICK n \in Nat : n = m.n
  BY <1>1 DEF CommandType
<1>7. PICK from \in Nat : from = m.from
  BY <1>1 DEF CommandType
<1>8. ToHost(i, r, Loaded(b0, from, n), s, <<>>)
  <2> DEFINE b == pb[i][r]
             t == io[i][r]
  <2>1. ToHost(i, r, Loaded(b, m.from, m.n), t, <<>>)
    BY <1>2 DEF pipebuf_out_to_internal_buffer, Loaded, Watched, Numbers
  <2> HIDE DEF b, t
  <2>2. b = b0 /\ t = s
    BY <1>4, <1>5 DEF b, t
  <2> QED BY <1>6, <1>7, <2>1, <2>2
<1>9. PICK q \in Nat : q = QueuedBytes("WRITE", i, r)'
  BY <1>1
<1>10. QueuedBytes("WRITE", i, r) = n + q
  <2>1. QueuedBytes("WRITE", i, r)' = QueuedBytes(m.cmd, m.id, m.role)'
    BY DEF QueuedBytes
  <2> QED BY <1>1, <1>6, <1>9, <2>1
<1>11. /\ b0.bufcount \in Nat /\ b0.credit \in Nat /\ s.window \in Nat /\ SIZE \in Nat
       /\ s.window + (n + q) + b0.bufcount = SIZE /\ b0.credit + b0.bufcount = SIZE
  <2>1. b0.bufcount \in Nat /\ b0.credit \in Nat /\ s.window \in Nat /\ SIZE \in Nat
    BY ExecAssumption DEF BufType, IoType
  <2>2. s.window + (n + q) + b0.bufcount = SIZE /\ b0.credit + b0.bufcount = SIZE
    BY <1>2, <1>3, <1>4, <1>5, <1>10 DEF StreamInv, Accounts
  <2> QED BY <2>1, <2>2
<1>12. b0.bufcount + n <= SIZE /\ n <= b0.credit
  BY <1>11
<1>13. b0.fd /\ (b0.polled = 1 <=> b0.bufcount > 0) /\ b0.polled \in {0, 1}
  BY <1>2, <1>3, <1>4 DEF StreamInv, Polled, BufType
<1>14. PICK c \in BufType : /\ c = Loaded(b0, from, n) /\ c.fd /\ ~c.eof /\ c.polled = 1
                            /\ c.credit = b0.credit - n /\ c.bufcount = b0.bufcount + n
  <2>1. (b0.bufcount = 0 => b0.polled = 0) /\ (b0.bufcount > 0 => b0.polled = 1)
    BY <1>11, <1>13
  <2> QED BY <1>4, <1>12, <1>13, <2>1, LoadedType
<1>15. /\ OthersKept(i, r)
       /\ exit' \in Exits /\ (exit' = exit \/ BrokenSocket)
       /\ pb'[i][r] = c
       /\ io'[i][r].got = s.got /\ io'[i][r].window = s.window
       /\ io'[i][r].pipe = s.pipe /\ (io'[i][r].far <=> s.far) /\ io'[i][r].put = s.put
       /\ (io'[i][r].asked <=> s.asked)
  BY <1>3, <1>8, <1>14, ToHostQuiet
<1>16. m.n > 0
  BY <1>1 DEF Current
<1>17. Accounts(i, r)'
  <2>1. s.window + q + (b0.bufcount + n) = SIZE /\ (b0.credit - n) + (b0.bufcount + n) = SIZE
    BY <1>11
  <2> QED BY <1>2, <1>9, <1>14, <1>15, <2>1 DEF Accounts
<1>18. Polled(i, r)'
  <2>1. b0.bufcount + n > 0
    BY <1>6, <1>11, <1>16
  <2> QED BY <1>2, <1>14, <1>15, <2>1 DEF Polled
<1>19. Fresh(i, r)'
  BY <1>14, <1>15 DEF Fresh
<1>20. Fits(i, r)'
  BY <1>3, <1>5, <1>15 DEF StreamInv, Fits
<1>21. StreamStep(i, r)
  <2>1. \A j \in Ids, t \in Role : j # i \/ t # r =>
            /\ QueuedBytes("ACK", j, t)' = QueuedBytes("ACK", j, t)
            /\ QueuedBytes("WRITE", j, t)' = QueuedBytes("WRITE", j, t)
    BY <1>1
  <2>2. (pb'[i][r].eof <=> pb[i][r].eof) /\ (io'[i][r].asked <=> io[i][r].asked)
    BY <1>4, <1>5, <1>14, <1>15
  <2>3. QueueSame
    BY <1>1 DEF QueueSame, Taken
  <2> QED BY <1>15, <2>1, <2>2, <2>3 DEF StreamStep, Taken
<1>22. Conserved(i, r)
  <2>1. PICK l \in Nat : l = Len(s.pipe)
    BY DEF IoType
  <2>2. l + (b0.bufcount + n) + q = l + b0.bufcount + (n + q)
    BY <1>11
  <2> QED BY <1>4, <1>5, <1>9, <1>10, <1>14, <1>15, <2>1, <2>2 DEF Conserved
<1> QED BY <1>14, <1>15, <1>17, <1>18, <1>19, <1>20, <1>21, <1>22 DEF StreamInv

\* The host grants stdout or stderr more: what waited for it is sent.
Refilled(b) == IF b.bufcount = SIZE THEN Add(b) ELSE b
Granted(b, n) == [Refilled(b) EXCEPT !.credit = @ + n]

LEMMA GrantedType ==
    ASSUME NEW b \in BufType, b.bufcount = SIZE => b.polled = 0, NEW n \in Nat
    PROVE  LET c == Granted(b, n)
           IN  /\ c \in BufType /\ (c.fd <=> b.fd) /\ (c.eof <=> b.eof)
               /\ c.credit = b.credit + n /\ c.bufcount = b.bufcount
               /\ c.polled = IF b.bufcount = SIZE THEN 1 ELSE b.polled
<1>1. PICK b1 \in BufType : /\ b1 = Refilled(b) /\ (b1.fd <=> b.fd) /\ (b1.eof <=> b.eof)
                            /\ b1.credit = b.credit /\ b1.bufcount = b.bufcount
                            /\ b1.polled = IF b.bufcount = SIZE THEN 1 ELSE b.polled
  BY AddType DEF Refilled
<1>2. PICK e \in Nat : e = b.credit + n
  BY DEF BufType
<1>3. Granted(b, n) = SetCredit(b1, e)
  BY <1>1, <1>2 DEF Granted, SetCredit
<1>4. PICK c \in BufType : /\ c = SetCredit(b1, e) /\ (c.fd <=> b1.fd) /\ (c.eof <=> b1.eof)
                           /\ c.polled = b1.polled /\ c.credit = e /\ c.bufcount = b1.bufcount
  BY CreditType
<1> QED BY <1>1, <1>2, <1>3, <1>4

LEMMA AckCommand ==
    ASSUME CreditInv, NEW m, Taken(m), m.cmd = "ACK", NEW i \in Ids, i = m.id,
           NEW r \in Role, r = m.role, proc[i], pipebuf_in_ack(i, r, m.n),
           UNCHANGED <<proc, pid, phase, child, sigchld>>
    PROVE  /\ StreamStep(i, r) /\ StreamInv(i, r)' /\ (exit' = exit \/ BrokenSocket)
           /\ r \in InRoles
           /\ pb[i][r].polled = 1 => pb'[i][r].polled = 1 \/ pb[i][r].eof
<1>1. /\ m \in CommandType /\ Current(m) /\ Popped
      /\ \A cmd, j, s : /\ QueuedBytes(cmd, j, s)' \in Nat
                        /\ ~(m.cmd = cmd /\ m.id = j /\ m.role = s) =>
                              QueuedBytes(cmd, j, s)' = QueuedBytes(cmd, j, s)
      /\ QueuedBytes(m.cmd, m.id, m.role) = m.n + QueuedBytes(m.cmd, m.id, m.role)'
  BY TakenBytes
<1>2. r \in InRoles /\ r \notin OutRoles /\ m.n > 0
  BY <1>1 DEF Current, InRoles, OutRoles
<1>3. pb[i][r] \in BufType /\ io[i][r] \in IoType /\ StreamInv(i, r) /\ Types
  BY DEF CreditInv, Types
<1>4. PICK b0 \in BufType : b0 = pb[i][r]
  BY <1>3
<1>5. PICK s \in IoType : s = io[i][r]
  BY <1>3
<1>6. PICK n \in Nat : n = m.n /\ n > 0
  BY <1>1, <1>2 DEF CommandType
<1>7. ToHost(i, r, CloseIfEof(Sent(Granted(b0, n), n)), s,
             Bytes(Granted(b0, n), Granted(b0, n).bufcount - Sent(Granted(b0, n), n).bufcount))
  <2> DEFINE b == pb[i][r]
             t == io[i][r]
  <2>1. ToHost(i, r, CloseIfEof(Sent(Granted(b, m.n), m.n)), t,
               Bytes(Granted(b, m.n), Granted(b, m.n).bufcount - Sent(Granted(b, m.n), m.n).bufcount))
    BY DEF pipebuf_in_ack, Granted, Refilled
  <2> HIDE DEF b, t
  <2>2. b = b0 /\ t = s
    BY <1>4, <1>5 DEF b, t
  <2> QED BY <1>6, <2>1, <2>2
<1>8. PICK q \in Nat : q = QueuedBytes("ACK", i, r)'
  BY <1>1
<1>9. QueuedBytes("ACK", i, r) = n + q
  <2>1. QueuedBytes("ACK", i, r)' = QueuedBytes(m.cmd, m.id, m.role)'
    BY DEF QueuedBytes
  <2> QED BY <1>1, <1>6, <1>8, <2>1
<1>10. /\ b0.bufcount \in 0..SIZE /\ b0.credit \in Nat /\ s.window \in Nat /\ SIZE \in Nat \ {0}
       /\ b0.credit + (n + q) = s.window
  <2>1. b0.bufcount \in 0..SIZE /\ b0.credit \in Nat /\ s.window \in Nat /\ SIZE \in Nat \ {0}
    BY ExecAssumption DEF BufType, IoType
  <2>2. b0.credit + (n + q) = s.window
    BY <1>2, <1>3, <1>4, <1>5, <1>9 DEF StreamInv, Accounts
  <2> QED BY <2>1, <2>2
<1>11. (~b0.fd => b0.bufcount = 0 /\ b0.polled = 0) /\ (b0.bufcount = SIZE => b0.polled = 0)
  BY <1>2, <1>3, <1>4 DEF StreamInv, Polled
<1>12. PICK b2 \in BufType : /\ b2 = Granted(b0, n) /\ (b2.fd <=> b0.fd) /\ (b2.eof <=> b0.eof)
                             /\ b2.credit = b0.credit + n /\ b2.bufcount = b0.bufcount
                             /\ b2.polled = IF b0.bufcount = SIZE THEN 1 ELSE b0.polled
  BY <1>11, GrantedType
<1>13. PICK k \in Nat :
         /\ k <= b2.bufcount /\ k <= n /\ k <= b2.credit /\ k \in {b2.bufcount, n, b2.credit}
         /\ Sent(b2, n) \in BufType
         /\ (Sent(b2, n).fd <=> b2.fd) /\ (Sent(b2, n).eof <=> b2.eof) /\ Sent(b2, n).polled = b2.polled
         /\ Sent(b2, n).bufcount = b2.bufcount - k /\ Sent(b2, n).credit = b2.credit - k
  BY SentType
<1>14. PICK b3 \in BufType : b3 = Sent(b2, n)
  BY <1>13
<1>15. b3.bufcount # SIZE
  <2>1. b3.bufcount = b0.bufcount - k
    BY <1>12, <1>13, <1>14
  <2>2. b0.bufcount = SIZE => k > 0
    BY <1>6, <1>10, <1>12, <1>13
  <2> QED BY <1>10, <2>1, <2>2
<1>16. /\ CloseIfEof(b3) \in BufType
       /\ CloseIfEof(b3).credit = b3.credit /\ (CloseIfEof(b3).eof <=> b3.eof)
       /\ CloseIfEof(b3).bufcount = b3.bufcount
       /\ \/ CloseIfEof(b3) = b3
          \/ b3.eof /\ b3.fd /\ b3.bufcount = 0 /\ ~CloseIfEof(b3).fd /\ CloseIfEof(b3).polled = 0
  BY CloseIfEofType
<1>17. PICK b4 \in BufType : b4 = CloseIfEof(b3)
  BY <1>16
<1>18. ~b3.fd => b3.bufcount = 0 /\ b3.polled = 0
  BY <1>10, <1>11, <1>12, <1>13, <1>14
<1>19. ~b4.fd => b4.bufcount = 0 /\ b4.polled = 0
  BY <1>16, <1>17, <1>18
<1>20. PICK sent \in Seq(Nat) : sent = Bytes(b2, k) /\ Len(sent) = k
  BY BytesType
<1>21. b2.bufcount - b3.bufcount = k
  BY <1>10, <1>12, <1>13, <1>14
<1>22. ToHost(i, r, b4, s, sent)
  BY <1>7, <1>12, <1>14, <1>17, <1>20, <1>21
<1>23. Len(sent) <= s.window
  BY <1>10, <1>12, <1>13, <1>20
<1>24. b4.polled = 1 => b4.fd
  BY <1>19
<1>25. /\ OthersKept(i, r) /\ exit' \in Exits /\ (exit' = exit \/ BrokenSocket)
       /\ pb'[i][r] = b4 /\ io'[i][r].window = s.window - Len(sent) /\ io'[i][r].pipe = s.pipe
       /\ (io'[i][r].asked <=> s.asked)
  BY <1>3, <1>22, <1>23, <1>24, ToHostStep
<1>26. Accounts(i, r)'
  <2>1. b4.credit = (b0.credit + n) - k
    BY <1>12, <1>13, <1>14, <1>16, <1>17
  <2>2. b4.credit + q = s.window - k
    BY <1>10, <2>1
  <2> QED BY <1>2, <1>8, <1>20, <1>25, <2>2 DEF Accounts
<1>27. Polled(i, r)'
  <2>1. b4.bufcount # SIZE
    BY <1>15, <1>16, <1>17
  <2> QED BY <1>2, <1>19, <1>25, <2>1 DEF Polled
<1>28. b0.polled = 1 => b4.polled = 1 \/ b0.eof
  BY <1>11, <1>12, <1>13, <1>14, <1>16, <1>17
<1>29. Fresh(i, r)'
  <2>1. <<i, r>> \in events' => b0.polled = 1
    BY <1>3, <1>4 DEF StreamInv, Fresh, Taken
  <2>2. b0.polled = 1 /\ b4.fd => b4.polled = 1
    BY <1>11, <1>12, <1>13, <1>14, <1>16, <1>17
  <2>3. Socket \notin events'
    BY DEF Taken
  <2> QED BY <1>25, <2>1, <2>2, <2>3 DEF Fresh
<1>30. Fits(i, r)'
  BY <1>3, <1>5, <1>25 DEF StreamInv, Fits
<1>31. StreamStep(i, r)
  <2>1. \A j \in Ids, t \in Role : j # i \/ t # r =>
            /\ QueuedBytes("ACK", j, t)' = QueuedBytes("ACK", j, t)
            /\ QueuedBytes("WRITE", j, t)' = QueuedBytes("WRITE", j, t)
    BY <1>1
  <2>2. (io'[i][r].asked <=> io[i][r].asked)
    BY <1>5, <1>25
  <2>3. QueueSame
    BY <1>1 DEF QueueSame, Taken
  <2> QED BY <1>2, <1>25, <2>1, <2>2, <2>3 DEF StreamStep, Taken
<1> QED BY <1>2, <1>4, <1>25, <1>26, <1>27, <1>28, <1>29, <1>30, <1>31 DEF StreamInv

\* The host closes a stream: it will not write to it any more.
LEMMA CloseStreamCommand ==
    ASSUME CreditInv, NEW m, Taken(m), m.cmd = "CLOSE_STREAM", NEW i \in Ids, i = m.id,
           NEW r \in Role, r = m.role, proc[i],
           ToHost(i, r, pipebuf_common_close(pb[i][r], FLUSH), io[i][r], <<>>),
           UNCHANGED <<proc, pid, phase, child, sigchld>>
    PROVE  /\ StreamStep(i, r) /\ StreamInv(i, r)' /\ Conserved(i, r) /\ (exit' = exit \/ BrokenSocket)
<1>1. /\ m \in CommandType /\ Current(m) /\ Popped
      /\ \A cmd, j, s : /\ QueuedBytes(cmd, j, s)' \in Nat
                        /\ ~(m.cmd = cmd /\ m.id = j /\ m.role = s) =>
                              QueuedBytes(cmd, j, s)' = QueuedBytes(cmd, j, s)
  BY TakenBytes
<1>2. pb[i][r] \in BufType /\ io[i][r] \in IoType /\ StreamInv(i, r) /\ Types
  BY DEF CreditInv, Types
<1>3. PICK b0 \in BufType : b0 = pb[i][r]
  BY <1>2
<1>4. PICK s \in IoType : s = io[i][r] /\ s.asked
  BY <1>1, <1>2 DEF Current
<1>5. PICK c \in BufType : /\ c = pipebuf_common_close(b0, FLUSH) /\ c.credit = b0.credit /\ c.eof
                           /\ \/ (c.fd <=> b0.fd) /\ c.polled = b0.polled /\ c.bufcount = b0.bufcount
                              \/ /\ b0.fd /\ ~c.fd /\ c.polled = 0 /\ c.bufcount = 0
                                 /\ b0.bufcount = 0
  <2>1. FLUSH \in BOOLEAN /\ ~FLUSH
    BY DEF FLUSH
  <2> QED BY <2>1, CloseType
<1>6. ToHost(i, r, c, s, <<>>)
  BY <1>3, <1>4, <1>5
<1>7. b0.bufcount \in 0..SIZE /\ SIZE \in Nat \ {0}
  BY ExecAssumption DEF BufType
<1>8. /\ ~b0.fd => b0.bufcount = 0 /\ b0.polled = 0
      /\ r \in InRoles /\ b0.bufcount = SIZE => b0.polled = 0
      /\ r \in OutRoles => (b0.polled = 1 <=> b0.bufcount > 0)
  BY <1>2, <1>3 DEF StreamInv, Polled
<1>9. c.polled = 1 => c.fd
  BY <1>5, <1>8
<1>10. /\ OthersKept(i, r)
       /\ exit' \in Exits /\ (exit' = exit \/ BrokenSocket)
       /\ pb'[i][r] = c
       /\ io'[i][r].got = s.got /\ io'[i][r].window = s.window
       /\ io'[i][r].pipe = s.pipe /\ (io'[i][r].far <=> s.far) /\ io'[i][r].put = s.put
       /\ (io'[i][r].asked <=> s.asked)
  BY <1>2, <1>6, <1>9, ToHostQuiet
<1>11. c.bufcount = b0.bufcount
  BY <1>5
<1>12. /\ QueuedBytes("ACK", i, r)' = QueuedBytes("ACK", i, r)
       /\ QueuedBytes("WRITE", i, r)' = QueuedBytes("WRITE", i, r)
  BY <1>1
<1>13. Accounts(i, r)'
  BY <1>2, <1>3, <1>4, <1>5, <1>10, <1>11, <1>12 DEF StreamInv, Accounts
<1>14. Polled(i, r)'
  <2>1. /\ ~c.fd => c.bufcount = 0 /\ c.polled = 0
        /\ r \in InRoles /\ c.bufcount = SIZE => c.polled = 0
        /\ r \in OutRoles => (c.polled = 1 <=> c.bufcount > 0)
    BY <1>5, <1>7, <1>8
  <2> QED BY <1>4, <1>5, <1>10, <2>1 DEF Polled
<1>15. Fresh(i, r)'
  <2>1. <<i, r>> \in events' => b0.polled = 1
    BY <1>2, <1>3 DEF StreamInv, Fresh, Taken
  <2>2. b0.polled = 1 /\ c.fd => c.polled = 1
    BY <1>5
  <2>3. Socket \notin events'
    BY DEF Taken
  <2> QED BY <1>10, <2>1, <2>2, <2>3 DEF Fresh
<1>16. Fits(i, r)'
  BY <1>2, <1>4, <1>10 DEF StreamInv, Fits
<1>17. StreamStep(i, r)
  <2>1. \A j \in Ids, t \in Role : j # i \/ t # r =>
            /\ QueuedBytes("ACK", j, t)' = QueuedBytes("ACK", j, t)
            /\ QueuedBytes("WRITE", j, t)' = QueuedBytes("WRITE", j, t)
    BY <1>1
  <2>2. (io'[i][r].asked <=> io[i][r].asked)
    BY <1>4, <1>10
  <2>3. QueueSame
    BY <1>1 DEF QueueSame, Taken
  <2>4. ASSUME NEW k \in 1..Len(queue')
        PROVE  ~(queue'[k].cmd = "WRITE" /\ queue'[k].id = i /\ queue'[k].role = r)
    <3>1. Before(m, queue'[k])
      BY <1>1, PoppedOrder DEF CreditInv, Types, Taken
    <3> QED BY <3>1 DEF Before
  <2> QED BY <1>10, <2>1, <2>2, <2>3, <2>4 DEF StreamStep, Taken
<1>18. Conserved(i, r)
  BY <1>3, <1>4, <1>10, <1>11, <1>12 DEF Conserved
<1> QED BY <1>10, <1>13, <1>14, <1>15, <1>16, <1>17, <1>18 DEF StreamInv

---------------------------------------------------------------------------
(* Steps that leave the buffers alone.                                     *)

OpenKept(j) ==
    (\E k \in 1..Len(queue) : IsOpen(queue[k], j)) => \E k \in 1..Len(queue') : IsOpen(queue'[k], j)
\* What a step does with a process and with a stream.
ProcessKept(j) ==
    /\ phase'[j] = "free" <=> phase[j] = "free"
    /\ proc[j] => conn'
    /\ ~proc[j] =>
          /\ child'[j] = child[j] /\ (pid'[j] <=> pid[j])
          /\ \A s \in Role : /\ io'[j][s].pipe = io[j][s].pipe /\ io'[j][s].got = io[j][s].got
                             /\ io'[j][s].put = io[j][s].put /\ (io'[j][s].far <=> io[j][s].far)
                             /\ s \in OutRoles => io'[j][s].window = io[j][s].window
    /\ OpenKept(j)
StreamKept(j, s) ==
    /\ io[j][s].asked => io'[j][s].asked
    /\ Len(io'[j][s].pipe) <= PIPE_CAP
    /\ Accounts(j, s)' /\ Fresh(j, s)'

LEMMA StillInv ==
    ASSUME CreditInv, UNCHANGED <<pb, proc>>, Types', Batch', InOrder',
           \A j \in Ids : ProcessKept(j), \A j \in Ids, s \in Role : StreamKept(j, s)
    PROVE  CreditInv'
<1>1. ASSUME NEW j \in Ids PROVE Session(j)'
  <2>1. Session(j) /\ ProcessKept(j)
    BY DEF CreditInv
  <2>2. proc'[j] => phase'[j] # "free" /\ conn'
    BY <2>1 DEF Session, ProcessKept
  <2>3. ~proc'[j] => Unused(j)'
    BY <2>1 DEF Session, ProcessKept, Unused
  <2>4. phase'[j] # "free" /\ ~proc'[j] => \E k \in 1..Len(queue') : IsOpen(queue'[k], j)
    BY <2>1 DEF Session, ProcessKept, OpenKept
  <2> QED BY <2>2, <2>3, <2>4 DEF Session, IsOpen
<1>2. ASSUME NEW j \in Ids, NEW s \in Role PROVE StreamInv(j, s)'
  <2>1. StreamInv(j, s) /\ StreamKept(j, s)
    BY DEF CreditInv
  <2>2. Polled(j, s)'
    BY <2>1 DEF StreamInv, StreamKept, Polled
  <2> QED BY <2>1, <2>2 DEF StreamKept, StreamInv, Fits
<1> QED BY <1>1, <1>2 DEF CreditInv

LEMMA FreshKept ==
    ASSUME CreditInv, exit = "no", events' \subseteq events, pb' = pb, NEW j \in Ids, NEW s \in Role
    PROVE  Fresh(j, s)'
<1>1. Fresh(j, s)
  BY DEF CreditInv, StreamInv
<1> QED BY <1>1 DEF Fresh

LEMMA AccountsKept ==
    ASSUME CreditInv, pb' = pb, proc' = proc, NEW j \in Ids, NEW s \in Role,
           io'[j][s].window = io[j][s].window,
           QueuedBytes("ACK", j, s)' = QueuedBytes("ACK", j, s),
           QueuedBytes("WRITE", j, s)' = QueuedBytes("WRITE", j, s)
    PROVE  Accounts(j, s)'
<1>1. Accounts(j, s)
  BY DEF CreditInv, StreamInv
<1> QED BY <1>1 DEF Accounts

LEMMA BatchKept ==
    ASSUME CreditInv, conn => conn', events' \subseteq events, queue # <<>> => queue' # <<>>
    PROVE  Batch'
BY DEF CreditInv, Batch

\* Nothing changes but what the processes and the host do, and the events.
LEMMA QuietQueue ==
    ASSUME CreditInv, queue' = queue, UNCHANGED <<pb, proc, phase>>,
           \A j \in Ids, s \in Role : io[j][s].asked => io'[j][s].asked
    PROVE  /\ InOrder' /\ \A j : OpenKept(j)
           /\ \A cmd, j, s : QueuedBytes(cmd, j, s)' = QueuedBytes(cmd, j, s)
<1>1. queue \in Seq(CommandType) /\ InOrder
  BY DEF CreditInv, Types
<1>2. ASSUME NEW m \in CommandType, Current(m) PROVE Current(m)'
  <2>1. m.id \in Ids /\ m.role \in Role
    BY DEF CommandType
  <2> QED BY <1>2, <2>1 DEF Current
<1>3. InOrder'
  BY <1>1, <1>2, OrderStep
<1> QED BY <1>3, SameBytes DEF OpenKept

\* The streams keep what they have, but for what a process does at its ends.
LEMMA QuietInv ==
    ASSUME CreditInv, exit = "no", UNCHANGED <<pb, proc, phase, loop, queue>>,
           exit' \in Exits, conn' \in BOOLEAN, peer' \in BOOLEAN, sigchld' \in BOOLEAN,
           pid' \in [Ids -> BOOLEAN], child' \in [Ids -> Children], exits' \in [Ids -> Nat],
           events' \subseteq {Listener, Socket, Hangup, Signal} \cup Streams,
           io' \in [Ids -> [Role -> IoType]], Batch', conn => conn',
           \A j \in Ids : ~proc[j] => /\ child'[j] = child[j] /\ (pid'[j] <=> pid[j])
                                      /\ io'[j] = io[j],
           \A j \in Ids, s \in Role : /\ io'[j][s].window = io[j][s].window
                                      /\ (io'[j][s].asked <=> io[j][s].asked)
                                      /\ Len(io'[j][s].pipe) <= PIPE_CAP
                                      /\ Fresh(j, s)'
    PROVE  CreditInv'
<1>1. /\ InOrder' /\ \A j : OpenKept(j)
      /\ \A cmd, j, s : QueuedBytes(cmd, j, s)' = QueuedBytes(cmd, j, s)
  BY QuietQueue
<1>2. Types'
  BY DEF CreditInv, Types
<1>3. ASSUME NEW j \in Ids PROVE ProcessKept(j)
  <2>1. Session(j)
    BY DEF CreditInv
  <2> QED BY <1>1, <2>1 DEF ProcessKept, Session
<1>4. ASSUME NEW j \in Ids, NEW s \in Role PROVE StreamKept(j, s)
  <2>1. Accounts(j, s)'
    BY <1>1, AccountsKept
  <2> QED BY <2>1 DEF StreamKept
<1> QED BY <1>1, <1>2, <1>3, <1>4, StillInv

\* The same, for steps at no stream.
LEMMA QuieterInv ==
    ASSUME CreditInv, exit = "no", UNCHANGED <<pb, io, proc, phase, loop, queue>>,
           exit' \in Exits, conn' \in BOOLEAN, peer' \in BOOLEAN, sigchld' \in BOOLEAN,
           pid' \in [Ids -> BOOLEAN], child' \in [Ids -> Children], exits' \in [Ids -> Nat],
           events' \subseteq events, conn => conn',
           \A j \in Ids : ~proc[j] => child'[j] = child[j] /\ (pid'[j] <=> pid[j])
    PROVE  CreditInv'
<1>1. Batch' /\ \A j \in Ids, s \in Role : Fresh(j, s)'
  BY BatchKept, FreshKept
<1>2. \A j \in Ids, s \in Role : Len(io[j][s].pipe) <= PIPE_CAP
  BY DEF CreditInv, StreamInv, Fits
<1>3. /\ events' \subseteq {Listener, Socket, Hangup, Signal} \cup Streams
      /\ io' \in [Ids -> [Role -> IoType]]
  BY DEF CreditInv, Types
<1> QED BY <1>1, <1>2, <1>3, QuietInv

\* An id with no process has nothing, and no process has died.
LEMMA UnusedProcess ==
    ASSUME CreditInv, NEW i \in Ids, ~proc[i]
    PROVE  /\ child[i] = "none" /\ ~pid[i]
           /\ \A r \in Role : ~pb[i][r].fd /\ pb[i][r].polled = 0 /\ io[i][r].pipe = <<>>
<1>1. Unused(i)
  BY DEF CreditInv, Session
<1>2. ~ClosedBuf.fd /\ ClosedBuf.polled = 0
  BY DEF ClosedBuf
<1> QED BY <1>1, <1>2 DEF Unused

LEMMA SignalInv ==
    ASSUME CreditInv, exit = "no", events' \subseteq events, handle_sigchld
    PROVE  CreditInv'
<1>1. /\ child \in [Ids -> Children] /\ pid \in [Ids -> BOOLEAN] /\ exits \in [Ids -> Nat]
      /\ conn \in BOOLEAN /\ peer \in BOOLEAN
  BY DEF CreditInv, Types
<1>2. child' \in [Ids -> Children]
  BY <1>1 DEF handle_sigchld, Children
<1>3. pid' \in [Ids -> BOOLEAN]
  BY <1>1 DEF handle_sigchld
<1>4. exits' \in [Ids -> Nat]
  BY <1>1 DEF handle_sigchld
<1>5. exit' \in Exits
  BY DEF handle_sigchld, Exits, CreditInv, Types
<1>6. ASSUME NEW j \in Ids, ~proc[j] PROVE child'[j] = child[j] /\ (pid'[j] <=> pid[j])
  <2>1. child[j] = "none" /\ ~pid[j]
    BY <1>6, UnusedProcess
  <2> QED BY <1>1, <2>1 DEF handle_sigchld
<1>7. UNCHANGED <<pb, io, proc, phase, loop, queue, conn, peer>> /\ sigchld' = FALSE
  BY DEF handle_sigchld
<1> QED BY <1>1, <1>2, <1>3, <1>4, <1>5, <1>6, <1>7, QuieterInv

\* The daemon stops.
LEMMA ExitInv ==
    ASSUME CreditInv, exit = "no", events' \subseteq events, NEW why \in Exits, Exit(why),
           UNCHANGED <<conn, loop, proc, pid, hostVars, child, sigchld>>
    PROVE  CreditInv'
<1>1. /\ conn \in BOOLEAN /\ peer \in BOOLEAN /\ sigchld \in BOOLEAN /\ pid \in [Ids -> BOOLEAN]
      /\ child \in [Ids -> Children] /\ exits \in [Ids -> Nat]
  BY DEF CreditInv, Types
<1>2. UNCHANGED <<pb, io, proc, phase, loop, queue, conn, peer, sigchld, pid, child, exits>>
  BY DEF Exit, hostVars
<1>3. exit' \in Exits
  BY DEF Exit
<1> QED BY <1>1, <1>2, <1>3, QuieterInv

LEMMA ListenerInv ==
    ASSUME CreditInv, exit = "no", events' \subseteq events, conn' = TRUE,
           UNCHANGED <<exit, loop, proc, pid, pb, hostVars, child, sigchld, io>>
    PROVE  CreditInv'
<1>1. /\ peer \in BOOLEAN /\ sigchld \in BOOLEAN /\ pid \in [Ids -> BOOLEAN] /\ exit \in Exits
      /\ child \in [Ids -> Children] /\ exits \in [Ids -> Nat]
  BY DEF CreditInv, Types
<1>2. UNCHANGED <<pb, io, proc, phase, loop, queue, peer, sigchld, pid, child, exits>>
  BY DEF hostVars
<1> QED BY <1>1, <1>2, QuieterInv

\* Events are of streams that are polled.
LEMMA WaitInv ==
    ASSUME CreditInv, epoll_wait
    PROVE  CreditInv'
<1>1. /\ peer \in BOOLEAN /\ sigchld \in BOOLEAN /\ pid \in [Ids -> BOOLEAN] /\ exit \in Exits
      /\ child \in [Ids -> Children] /\ exits \in [Ids -> Nat] /\ conn \in BOOLEAN
      /\ io \in [Ids -> [Role -> IoType]]
  BY DEF CreditInv, Types
<1>2. UNCHANGED <<pb, io, proc, phase, loop, queue, peer, sigchld, pid, child, exits, conn, exit>>
  BY DEF epoll_wait, hostVars
<1>3. exit = "no" /\ (events' = {Hangup} \/ events' = Ready)
  BY DEF epoll_wait
<1>4. events' \subseteq {Listener, Socket, Hangup, Signal} \cup Streams
  BY <1>3 DEF Ready, Streams
<1>5. Batch'
  <2>1. Socket \in events' => Socket \in Ready /\ events' = Ready
    BY <1>3 DEF Socket, Hangup
  <2>2. ASSUME Socket \in Ready PROVE conn /\ peer /\ queue # <<>>
    <3>1. Socket \notin Ids \X Role
      BY DEF Socket, Role, InRoles, OutRoles
    <3> QED BY <2>2, <3>1 DEF Ready, Socket, Listener, Hangup, Signal
  <2>3. ASSUME Hangup \in Ready PROVE ~peer
    <3>1. Hangup \notin Ids \X Role
      BY DEF Hangup, Role, InRoles, OutRoles
    <3> QED BY <2>3, <3>1 DEF Ready, Socket, Listener, Hangup, Signal
  <2> QED BY <1>2, <2>1, <2>2, <2>3 DEF Batch
<1>6. ASSUME NEW j \in Ids, NEW s \in Role PROVE Fresh(j, s)'
  <2>1. <<j, s>> \notin {Listener, Socket, Hangup, Signal}
    BY DEF Listener, Socket, Hangup, Signal, Role, InRoles, OutRoles
  <2>2. <<j, s>> \in events' => PipeReady(j, s)
    BY <1>3, <2>1 DEF Ready
  <2> QED BY <1>2, <2>2 DEF Fresh, PipeReady
<1>7. \A j \in Ids, s \in Role : Len(io[j][s].pipe) <= PIPE_CAP
  BY DEF CreditInv, StreamInv, Fits
<1> QED BY <1>1, <1>2, <1>3, <1>4, <1>5, <1>6, <1>7, QuietInv

---------------------------------------------------------------------------
(* Processes.                                                              *)

\* One end of a stream changes.
IoEnd(x, p, g, n, f) == [x EXCEPT !.pipe = p, !.got = g, !.put = n, !.far = f]
EndFrom(y, x, p) ==
    /\ y \in IoType /\ y.pipe = p /\ y.window = x.window /\ (y.asked <=> x.asked)
LEMMA IoEndType ==
    ASSUME NEW x \in IoType, NEW p \in Seq(Nat), NEW g \in Seq(Nat), NEW n \in Nat, NEW f \in BOOLEAN
    PROVE  /\ EndFrom(IoEnd(x, p, g, n, f), x, p)
           /\ IoEnd(x, p, g, n, f).got = g /\ IoEnd(x, p, g, n, f).put = n
           /\ (IoEnd(x, p, g, n, f).far <=> f)
BY DEF IoEnd, EndFrom, IoType

LEMMA EndInv ==
    ASSUME CreditInv, exit = "no", NEW i \in Ids, NEW r \in Role, proc[i], NEW y \in IoType,
           NEW p \in Seq(Nat), EndFrom(y, io[i][r], p), Len(p) <= PIPE_CAP,
           io' = [io EXCEPT ![i][r] = y],
           UNCHANGED <<daemonVars, hostVars, child, sigchld>>
    PROVE  CreditInv'
<1>1. /\ peer \in BOOLEAN /\ sigchld \in BOOLEAN /\ pid \in [Ids -> BOOLEAN] /\ exit \in Exits
      /\ child \in [Ids -> Children] /\ exits \in [Ids -> Nat] /\ conn \in BOOLEAN
      /\ io \in [Ids -> [Role -> IoType]]
      /\ events \subseteq {Listener, Socket, Hangup, Signal} \cup Streams
  BY DEF CreditInv, Types
<1>2. UNCHANGED <<pb, proc, phase, loop, queue, peer, sigchld, pid, child, exits, conn, exit, events>>
  BY DEF daemonVars, hostVars
<1>3. /\ io' \in [Ids -> [Role -> IoType]] /\ io'[i][r] = y
      /\ \A j \in Ids : j # i => io'[j] = io[j]
      /\ \A j \in Ids, s \in Role : j # i \/ s # r => io'[j][s] = io[j][s]
  BY <1>1, Update
<1>4. Batch' /\ \A j \in Ids, s \in Role : Fresh(j, s)'
  BY <1>2, BatchKept, FreshKept
<1>5. ASSUME NEW j \in Ids, NEW s \in Role
      PROVE  /\ io'[j][s].window = io[j][s].window /\ (io'[j][s].asked <=> io[j][s].asked)
             /\ Len(io'[j][s].pipe) <= PIPE_CAP
  <2>1. CASE j = i /\ s = r
    BY <1>3, <2>1 DEF EndFrom
  <2>2. CASE j # i \/ s # r
    BY <1>3, <2>2 DEF CreditInv, StreamInv, Fits
  <2> QED BY <2>1, <2>2
<1> QED BY <1>1, <1>2, <1>3, <1>4, <1>5, QuietInv

LEMMA ReadInv ==
    ASSUME CreditInv, exit = "no", NEW i \in Ids, NEW r \in OutRoles, ChildRead(i, r)
    PROVE  CreditInv'
<1> r \in Role
  BY DEF Role
<1>1. PICK x \in IoType : x = io[i][r] /\ x.pipe # <<>>
  BY DEF CreditInv, Types, ChildRead
<1>2. proc[i]
  BY <1>1, UnusedProcess
<1>3. /\ PIPE_CAP \in Nat /\ Len(x.pipe) <= PIPE_CAP /\ x.pipe \in Seq(Nat) /\ x.got \in Seq(Nat)
      /\ x.put \in Nat /\ x.far \in BOOLEAN
  BY <1>1, ExecAssumption DEF CreditInv, StreamInv, Fits, IoType
<1>4. PICK p \in Seq(Nat) : p = Tail(x.pipe) /\ Len(p) <= PIPE_CAP
  <2>1. Tail(x.pipe) \in Seq(Nat) /\ Len(Tail(x.pipe)) <= PIPE_CAP
    BY <1>1, <1>3
  <2> QED BY <2>1
<1>5. PICK g \in Seq(Nat) : g = Append(x.got, Head(x.pipe))
  <2>1. Head(x.pipe) \in Nat
    BY <1>1, <1>3
  <2>2. Append(x.got, Head(x.pipe)) \in Seq(Nat)
    BY <1>3, <2>1
  <2> QED BY <2>2
<1>6. PICK y \in IoType : y = IoEnd(x, p, g, x.put, x.far) /\ EndFrom(y, x, p)
  <2>1. EndFrom(IoEnd(x, p, g, x.put, x.far), x, p)
    BY <1>3, IoEndType
  <2> QED BY <2>1 DEF EndFrom
<1>7. io' = [io EXCEPT ![i][r] = y]
  <2>1. y = [x EXCEPT !.pipe = p, !.got = g]
    BY <1>6 DEF IoEnd, IoType
  <2>2. io' = [io EXCEPT ![i][r].got = Append(@, Head(io[i][r].pipe)), ![i][r].pipe = Tail(@)]
    BY DEF ChildRead
  <2>3. io \in [Ids -> [Role -> IoType]]
    BY DEF CreditInv, Types
  <2>4. io' = [io EXCEPT ![i][r] = [io[i][r] EXCEPT !.pipe = Tail(io[i][r].pipe),
                                         !.got = Append(io[i][r].got, Head(io[i][r].pipe))]]
    BY <2>2, <2>3 DEF IoType
  <2> QED BY <1>1, <1>4, <1>5, <2>1, <2>4
<1>8. EndFrom(y, io[i][r], p)
  BY <1>1, <1>6
<1>9. UNCHANGED <<daemonVars, hostVars, child, sigchld>>
  BY DEF ChildRead
<1> QED BY <1>2, <1>4, <1>7, <1>8, <1>9, EndInv

LEMMA ChildWriteInv ==
    ASSUME CreditInv, exit = "no", NEW i \in Ids, NEW r \in InRoles, ChildWrite(i, r)
    PROVE  CreditInv'
<1> r \in Role
  BY DEF Role
<1>1. PICK x \in IoType : x = io[i][r]
  BY DEF CreditInv, Types
<1>2. proc[i]
  BY UnusedProcess DEF ChildWrite
<1>3. /\ PIPE_CAP \in Nat /\ Len(x.pipe) < PIPE_CAP /\ x.pipe \in Seq(Nat) /\ x.got \in Seq(Nat)
      /\ x.put \in Nat /\ x.far \in BOOLEAN
  BY <1>1, ExecAssumption DEF ChildWrite, IoType
<1>4. PICK p \in Seq(Nat) : p = Append(x.pipe, x.put + 1) /\ Len(p) <= PIPE_CAP
  <2>1. Append(x.pipe, x.put + 1) \in Seq(Nat) /\ Len(Append(x.pipe, x.put + 1)) <= PIPE_CAP
    BY <1>3
  <2> QED BY <2>1
<1>5. PICK n \in Nat : n = x.put + 1
  BY <1>3
<1>6. PICK y \in IoType : y = IoEnd(x, p, x.got, n, x.far) /\ EndFrom(y, x, p)
  <2>1. EndFrom(IoEnd(x, p, x.got, n, x.far), x, p)
    BY <1>3, IoEndType
  <2> QED BY <2>1 DEF EndFrom
<1>7. io' = [io EXCEPT ![i][r] = y]
  <2>1. y = [x EXCEPT !.put = n, !.pipe = p]
    BY <1>6 DEF IoEnd, IoType
  <2>2. io' = [io EXCEPT ![i][r].put = @ + 1, ![i][r].pipe = Append(@, io[i][r].put + 1)]
    BY DEF ChildWrite
  <2>3. io \in [Ids -> [Role -> IoType]]
    BY DEF CreditInv, Types
  <2>4. io' = [io EXCEPT ![i][r] = [io[i][r] EXCEPT !.put = io[i][r].put + 1,
                                         !.pipe = Append(io[i][r].pipe, io[i][r].put + 1)]]
    BY <2>2, <2>3 DEF IoType
  <2> QED BY <1>1, <1>4, <1>5, <2>1, <2>4
<1>8. EndFrom(y, io[i][r], p)
  BY <1>1, <1>6
<1>9. UNCHANGED <<daemonVars, hostVars, child, sigchld>>
  BY DEF ChildWrite
<1> QED BY <1>2, <1>4, <1>7, <1>8, <1>9, EndInv

LEMMA CloseEndInv ==
    ASSUME CreditInv, exit = "no", NEW i \in Ids, NEW r \in Role, ChildCloseEnd(i, r)
    PROVE  CreditInv'
<1>1. PICK x \in IoType : x = io[i][r]
  BY DEF CreditInv, Types
<1>2. proc[i]
  BY UnusedProcess DEF ChildCloseEnd
<1>3. /\ Len(x.pipe) <= PIPE_CAP /\ x.pipe \in Seq(Nat) /\ x.got \in Seq(Nat) /\ x.put \in Nat
  BY <1>1 DEF CreditInv, StreamInv, Fits, IoType
<1>4. PICK p \in Seq(Nat) : p = x.pipe /\ Len(p) <= PIPE_CAP
  BY <1>3
<1>5. PICK y \in IoType : y = IoEnd(x, p, x.got, x.put, FALSE) /\ EndFrom(y, x, p)
  <2>1. EndFrom(IoEnd(x, p, x.got, x.put, FALSE), x, p)
    BY <1>3, IoEndType
  <2> QED BY <2>1 DEF EndFrom
<1>6. io' = [io EXCEPT ![i][r] = y]
  <2>1. y = [x EXCEPT !.far = FALSE]
    BY <1>4, <1>5 DEF IoEnd, IoType
  <2>2. io' = [io EXCEPT ![i][r].far = FALSE]
    BY DEF ChildCloseEnd
  <2> QED BY <1>1, <2>1, <2>2
<1>8. EndFrom(y, io[i][r], p)
  BY <1>1, <1>5
<1>9. UNCHANGED <<daemonVars, hostVars, child, sigchld>>
  BY DEF ChildCloseEnd
<1> QED BY <1>2, <1>4, <1>6, <1>8, <1>9, EndInv

LEMMA ChildStep ==
    ASSUME CreditInv, exit = "no", NEW i \in Ids, child[i] # "none", NEW c \in Children,
           child' = [child EXCEPT ![i] = c], sigchld' \in BOOLEAN,
           UNCHANGED <<daemonVars, hostVars, io>>
    PROVE  CreditInv'
<1>1. /\ peer \in BOOLEAN /\ pid \in [Ids -> BOOLEAN] /\ exit \in Exits
      /\ child \in [Ids -> Children] /\ exits \in [Ids -> Nat] /\ conn \in BOOLEAN
  BY DEF CreditInv, Types
<1>2. UNCHANGED <<pb, io, proc, phase, loop, queue, peer, pid, exits, conn, exit, events>>
  BY DEF daemonVars, hostVars
<1>3. proc[i]
  BY UnusedProcess
<1>4. child' \in [Ids -> Children] /\ \A j \in Ids : ~proc[j] => child'[j] = child[j]
  BY <1>1, <1>3
<1> QED BY <1>1, <1>2, <1>4, QuieterInv

LEMMA ExecInv ==
    ASSUME CreditInv, exit = "no", NEW i \in Ids, ChildExec(i)
    PROVE  CreditInv'
<1>1. "running" \in Children /\ sigchld' \in BOOLEAN
  BY DEF Children, ChildExec, CreditInv, Types
<1> QED BY <1>1, ChildStep DEF ChildExec

LEMMA ChildExitInv ==
    ASSUME CreditInv, exit = "no", NEW i \in Ids, ChildExit(i)
    PROVE  CreditInv'
<1>1. "zombie" \in Children
  BY DEF Children
<1> QED BY <1>1, ChildStep DEF ChildExit

LEMMA ProcessInv ==
    ASSUME CreditInv, exit = "no", NEW i \in Ids, Process(i)
    PROVE  CreditInv'
<1> QED BY ReadInv, ChildWriteInv, CloseEndInv, ExecInv, ChildExitInv DEF Process

---------------------------------------------------------------------------
(* The host.                                                               *)

LEMMA ConnectInv ==
    ASSUME CreditInv, exit = "no", HostConnect
    PROVE  CreditInv'
<1>1. /\ sigchld \in BOOLEAN /\ pid \in [Ids -> BOOLEAN] /\ exit \in Exits
      /\ child \in [Ids -> Children] /\ exits \in [Ids -> Nat] /\ conn \in BOOLEAN
  BY DEF CreditInv, Types
<1>2. UNCHANGED <<pb, io, proc, phase, loop, queue, pid, exits, conn, exit, events, child, sigchld>>
      /\ peer' = TRUE
  BY DEF HostConnect, daemonVars
<1> QED BY <1>1, <1>2, QuieterInv

LEMMA HangupInv ==
    ASSUME CreditInv, exit = "no", HostHangup
    PROVE  CreditInv'
<1>1. /\ sigchld \in BOOLEAN /\ pid \in [Ids -> BOOLEAN] /\ exit \in Exits
      /\ child \in [Ids -> Children] /\ exits \in [Ids -> Nat] /\ conn \in BOOLEAN
      /\ queue \in Seq(CommandType) /\ InOrder
  BY DEF CreditInv, Types
<1>2. UNCHANGED <<pb, io, proc, phase, loop, pid, exits, conn, exit, events, child, sigchld>>
      /\ peer' = FALSE
  BY DEF HostHangup, daemonVars
<1>3. CASE queue' = queue
  BY <1>1, <1>2, <1>3, QuieterInv
<1>4. CASE queue # <<>> /\ \E part \in {"header", "body"} :
                               /\ part = "body" => queue[Len(queue)].cmd = "WRITE"
                               /\ queue' = [queue EXCEPT ![Len(queue)].part = part]
  <2>1. PICK part \in {"all", "header", "body"} : queue' = Cut(queue, part)
    BY <1>4 DEF Cut
  <2>2. /\ queue' \in Seq(CommandType) /\ Len(queue') = Len(queue)
        /\ \A k \in 1..Len(queue) :
             /\ queue'[k].cmd = queue[k].cmd /\ queue'[k].id = queue[k].id
             /\ queue'[k].role = queue[k].role /\ queue'[k].n = queue[k].n
    <3>1. /\ Cut(queue, part) \in Seq(CommandType) /\ Len(Cut(queue, part)) = Len(queue)
          /\ \A k \in 1..Len(queue) :
               /\ Cut(queue, part)[k].cmd = queue[k].cmd /\ Cut(queue, part)[k].id = queue[k].id
               /\ Cut(queue, part)[k].role = queue[k].role /\ Cut(queue, part)[k].n = queue[k].n
      BY <1>1, <1>4, CutType
    <3> QED BY <2>1, <3>1
  <2>3. \A cmd, j, s : QueuedBytes(cmd, j, s)' = QueuedBytes(cmd, j, s)
    <3>1. \A cmd, j, s : Queued(Cut(queue, part), cmd, j, s) = Queued(queue, cmd, j, s)
      BY <1>1, <1>4, QueuedCut
    <3>2. \A cmd, j, s : QueuedBytes(cmd, j, s)' = Queued(queue', cmd, j, s)
      BY DEF QueuedBytes, Queued
    <3> QED BY <2>1, <3>1, <3>2, QueuedIs
  <2>4. Ordered(queue')
    BY <1>1, <1>4, <2>1, OrderedCut DEF InOrder
  <2>5. \A k \in 1..Len(queue') : Current(queue'[k])
    BY <1>1, <2>2 DEF InOrder, Current
  <2>6. InOrder'
    <3>1. \A k \in 1..Len(queue') : Current(queue[k])'
      BY <1>2, <2>5 DEF Current
    <3>2. Ordered(queue)'
      BY <2>4 DEF Ordered, Before
    <3> QED BY <3>1, <3>2 DEF InOrder
  <2>7. \A j : OpenKept(j)
    BY <2>2 DEF OpenKept, IsOpen
  <2>8. Types'
    BY <1>2, <2>2 DEF CreditInv, Types
  <2>9. queue' # <<>>
    BY <1>1, <1>4, <2>2
  <2>10. Batch' /\ \A j \in Ids, s \in Role : Fresh(j, s)'
    BY <1>2, <2>9, BatchKept, FreshKept
  <2>11. \A j \in Ids, s \in Role : Accounts(j, s)'
    BY <1>2, <2>3, AccountsKept
  <2>12. \A j \in Ids : ProcessKept(j)
    <3>1. \A j \in Ids : Session(j)
      BY DEF CreditInv
    <3> QED BY <1>2, <2>7, <3>1 DEF ProcessKept, Session
  <2>13. \A j \in Ids, s \in Role : StreamKept(j, s)
    BY <1>2, <2>10, <2>11 DEF StreamKept, CreditInv, StreamInv, Fits
  <2> QED BY <1>2, <2>6, <2>8, <2>10, <2>12, <2>13, StillInv
<1> QED BY <1>3, <1>4 DEF HostHangup

\* A command is added to the queue.
Pushed(m) == queue' = Append(queue, m)

LEMMA PushBytes ==
    ASSUME queue \in Seq(CommandType), NEW m \in CommandType, Pushed(m), NEW cmd, NEW i, NEW r
    PROVE  /\ QueuedBytes(cmd, i, r)' = QueuedBytes(cmd, i, r) + Amount(m, cmd, i, r)
           /\ QueuedBytes(cmd, i, r) \in Nat /\ Amount(m, cmd, i, r) \in Nat
           /\ ~(m.cmd = cmd /\ m.id = i /\ m.role = r) =>
                  QueuedBytes(cmd, i, r)' = QueuedBytes(cmd, i, r)
<1>1. Queued(Append(queue, m), cmd, i, r) = Queued(queue, cmd, i, r) + Amount(m, cmd, i, r)
  BY QueuedPush
<1>2. Queued(queue, cmd, i, r) \in Nat /\ Amount(m, cmd, i, r) \in Nat
  BY QueuedType, AmountType
<1>3. QueuedBytes(cmd, i, r)' = Queued(queue', cmd, i, r)
  BY DEF QueuedBytes, Queued
<1>4. QueuedBytes(cmd, i, r) = Queued(queue, cmd, i, r)
  BY QueuedIs
<1>5. ~(m.cmd = cmd /\ m.id = i /\ m.role = r) => Amount(m, cmd, i, r) = 0
  BY DEF Amount
<1> QED BY <1>1, <1>2, <1>3, <1>4, <1>5 DEF Pushed

LEMMA PushOrder ==
    ASSUME CreditInv, NEW m \in CommandType, Pushed(m), Current(m)',
           \A c \in CommandType : Current(c) => Before(c, m) /\ Current(c)'
    PROVE  /\ queue' \in Seq(CommandType) /\ InOrder' /\ queue' # <<>>
           /\ \A j : OpenKept(j)
           /\ m.cmd = "OPEN" => \E k \in 1..Len(queue') : IsOpen(queue'[k], m.id)
<1>1. /\ queue \in Seq(CommandType) /\ Ordered(queue)
      /\ \A k \in 1..Len(queue) : queue[k] \in CommandType /\ Current(queue[k])
  BY DEF CreditInv, Types, InOrder
<1>2. /\ queue' \in Seq(CommandType) /\ Len(queue') = Len(queue) + 1
      /\ queue'[Len(queue) + 1] = m /\ queue' # <<>>
      /\ \A k \in 1..Len(queue) : queue'[k] = queue[k] /\ k \in 1..Len(queue')
      /\ Len(queue) + 1 \in 1..Len(queue')
  BY <1>1 DEF Pushed
<1>3. Ordered(queue')
  <2>1. \A k \in 1..Len(queue) : Before(queue[k], m)
    BY <1>1
  <2> QED BY <1>1, <2>1, OrderedPush DEF Pushed
<1>4. ASSUME NEW k \in 1..Len(queue') PROVE Current(queue[k])'
  <2>1. CASE k \in 1..Len(queue)
    <3>1. PICK c \in CommandType : c = queue[k] /\ Current(c)
      BY <1>1, <2>1
    <3>2. Current(c)' /\ queue'[k] = c
      BY <1>2, <2>1, <3>1
    <3> QED BY <3>2 DEF Current
  <2>2. CASE k = Len(queue) + 1
    <3>1. queue'[k] = m
      BY <1>2, <2>2
    <3> QED BY <3>1 DEF Current
  <2> QED BY <1>1, <1>2, <2>1, <2>2
<1>5. InOrder'
  <2>1. Ordered(queue)'
    BY <1>3 DEF Ordered, Before
  <2> QED BY <1>4, <2>1 DEF InOrder
<1>6. \A j : OpenKept(j)
  BY <1>2 DEF OpenKept
<1> QED BY <1>2, <1>5, <1>6 DEF IsOpen

\* The host gives a command that does not grant or take credit.
LEMMA PushInv ==
    ASSUME CreditInv, exit = "no", NEW m \in CommandType, Pushed(m), m.cmd \notin {"WRITE", "ACK", "OPEN"},
           UNCHANGED <<daemonVars, peer, exits, child, sigchld>>,
           phase' \in [Ids -> {"free", "open", "closing"}], io' \in [Ids -> [Role -> IoType]],
           \A j \in Ids : phase'[j] = "free" <=> phase[j] = "free",
           \A j \in Ids, s \in Role :
               /\ io'[j][s].pipe = io[j][s].pipe /\ io'[j][s].got = io[j][s].got
               /\ io'[j][s].put = io[j][s].put /\ (io'[j][s].far <=> io[j][s].far)
               /\ io'[j][s].window = io[j][s].window
               /\ io[j][s].asked => io'[j][s].asked,
           Current(m)',
           \A c \in CommandType : Current(c) => Before(c, m) /\ Current(c)'
    PROVE  CreditInv'
<1>1. /\ queue' \in Seq(CommandType) /\ InOrder' /\ queue' # <<>>
      /\ \A j : OpenKept(j)
  BY PushOrder
<1>2. UNCHANGED <<pb, proc, pid, loop, exit, conn, events>>
  BY DEF daemonVars
<1>3. Types'
  BY <1>1, <1>2 DEF CreditInv, Types
<1>4. Batch' /\ \A j \in Ids, s \in Role : Fresh(j, s)'
  BY <1>1, <1>2, BatchKept, FreshKept
<1>5. ASSUME NEW j \in Ids, NEW s \in Role PROVE Accounts(j, s)'
  <2>1. /\ QueuedBytes("ACK", j, s)' = QueuedBytes("ACK", j, s)
        /\ QueuedBytes("WRITE", j, s)' = QueuedBytes("WRITE", j, s)
    BY PushBytes DEF CreditInv, Types
  <2> QED BY <1>2, <2>1, AccountsKept
<1>6. ASSUME NEW j \in Ids PROVE ProcessKept(j)
  <2>1. Session(j)
    BY DEF CreditInv
  <2> QED BY <1>1, <1>2, <2>1 DEF ProcessKept, Session
<1>7. \A j \in Ids, s \in Role : StreamKept(j, s)
  BY <1>4, <1>5 DEF StreamKept, CreditInv, StreamInv, Fits
<1> QED BY <1>1, <1>2, <1>3, <1>4, <1>6, <1>7, StillInv

\* A command of the host.
Order(cmd, i, r, n) == [cmd |-> cmd, id |-> i, role |-> r, n |-> n, from |-> io[i][r].put, part |-> "all"]
LEMMA OrderType ==
    ASSUME CreditInv, NEW cmd \in Commands, NEW i \in Ids, NEW r \in Role, NEW n \in Nat
    PROVE  /\ Order(cmd, i, r, n) \in CommandType
           /\ Order(cmd, i, r, n).cmd = cmd /\ Order(cmd, i, r, n).id = i
           /\ Order(cmd, i, r, n).role = r /\ Order(cmd, i, r, n).n = n
           /\ Order(cmd, i, r, n).part = "all"
<1>1. io[i][r].put \in Nat
  BY DEF CreditInv, Types, IoType
<1> QED BY <1>1 DEF Order, CommandType

LEMMA KillOrReset ==
    ASSUME CreditInv, exit = "no", NEW i \in Ids, NEW cmd \in {"KILL", "RESET"},
           cmd = "KILL" => phase[i] = "open", Send(cmd, i, "ctrl", 0), UNCHANGED <<phase, io>>
    PROVE  CreditInv'
<1> "ctrl" \in Role /\ cmd \in Commands
  BY DEF Role, OutRoles, Commands
<1>1. PICK m \in CommandType : m = Order(cmd, i, "ctrl", 0) /\ m.cmd = cmd /\ m.id = i
  BY OrderType
<1>2. Pushed(m)
  BY <1>1 DEF Send, Order, Pushed
<1>3. UNCHANGED <<daemonVars, peer, exits, child, sigchld>> /\ UNCHANGED <<pb, proc>>
  BY DEF Send, daemonVars
<1>4. Current(m)'
  BY <1>1 DEF Current
<1>5. ASSUME NEW c \in CommandType, Current(c) PROVE Before(c, m) /\ Current(c)'
  BY <1>1, <1>3, <1>5 DEF Before, Current
<1>6. /\ phase' \in [Ids -> {"free", "open", "closing"}] /\ io' \in [Ids -> [Role -> IoType]]
  BY DEF CreditInv, Types
<1> QED BY <1>1, <1>2, <1>3, <1>4, <1>5, <1>6, PushInv

LEMMA CloseOrderInv ==
    ASSUME CreditInv, exit = "no", NEW i \in Ids, HostClose(i)
    PROVE  CreditInv'
<1> "ctrl" \in Role /\ "CLOSE" \in Commands
  BY DEF Role, OutRoles, Commands
<1>1. PICK m \in CommandType : m = Order("CLOSE", i, "ctrl", 0) /\ m.cmd = "CLOSE" /\ m.id = i
  BY OrderType
<1>2. Pushed(m)
  BY <1>1 DEF HostClose, Send, Order, Pushed
<1>3. /\ UNCHANGED <<daemonVars, peer, exits, child, sigchld>> /\ UNCHANGED <<pb, proc, io>>
      /\ phase[i] = "open" /\ phase' = [phase EXCEPT ![i] = "closing"]
  BY DEF HostClose, Send, daemonVars
<1>4. /\ phase' \in [Ids -> {"free", "open", "closing"}] /\ io' \in [Ids -> [Role -> IoType]]
      /\ phase'[i] = "closing" /\ \A j \in Ids : j # i => phase'[j] = phase[j]
  BY <1>3 DEF CreditInv, Types
<1>5. Current(m)'
  BY <1>1, <1>4 DEF Current
<1>6. ASSUME NEW c \in CommandType, Current(c) PROVE Before(c, m) /\ Current(c)'
  <2>1. c.id \in Ids
    BY DEF CommandType
  <2>2. CASE c.id = i
    <3>1. c.cmd # "CLOSE"
      BY <1>3, <1>6, <2>2 DEF Current
    <3> QED BY <1>1, <1>3, <1>4, <1>6, <2>2, <3>1 DEF Before, Current
  <2>3. CASE c.id # i
    BY <1>1, <1>3, <1>4, <1>6, <2>1, <2>3 DEF Before, Current
  <2> QED BY <2>2, <2>3
<1>7. \A j \in Ids : phase'[j] = "free" <=> phase[j] = "free"
  BY <1>3, <1>4
<1> QED BY <1>1, <1>2, <1>3, <1>4, <1>5, <1>6, <1>7, PushInv

Asked(x) == [x EXCEPT !.asked = TRUE]
LEMMA AskedType ==
    ASSUME NEW x \in IoType
    PROVE  /\ Asked(x) \in IoType /\ Asked(x).asked /\ Asked(x).pipe = x.pipe /\ Asked(x).got = x.got
           /\ Asked(x).put = x.put /\ (Asked(x).far <=> x.far) /\ Asked(x).window = x.window
BY DEF Asked, IoType

LEMMA CloseStreamOrderInv ==
    ASSUME CreditInv, exit = "no", NEW i \in Ids, NEW r \in Role, HostCloseStream(i, r)
    PROVE  CreditInv'
<1> "CLOSE_STREAM" \in Commands
  BY DEF Commands
<1>1. PICK m \in CommandType : /\ m = Order("CLOSE_STREAM", i, r, 0) /\ m.cmd = "CLOSE_STREAM"
                               /\ m.id = i /\ m.role = r
  BY OrderType
<1>2. Pushed(m)
  BY <1>1 DEF HostCloseStream, Send, Order, Pushed
<1>3. /\ UNCHANGED <<daemonVars, peer, exits, child, sigchld>> /\ UNCHANGED <<pb, proc, phase>>
      /\ phase[i] = "open" /\ io' = [io EXCEPT ![i][r].asked = TRUE]
  BY DEF HostCloseStream, Send, daemonVars
<1>4. PICK x \in IoType : x = io[i][r]
  BY DEF CreditInv, Types
<1>5. io' = [io EXCEPT ![i][r] = Asked(x)]
  BY <1>3, <1>4 DEF Asked
<1>6. /\ io' \in [Ids -> [Role -> IoType]] /\ io'[i][r] = Asked(x)
      /\ \A j \in Ids, s \in Role : j # i \/ s # r => io'[j][s] = io[j][s]
  BY <1>5, AskedType, Update DEF CreditInv, Types
<1>7. ASSUME NEW j \in Ids, NEW s \in Role
      PROVE  /\ io'[j][s].pipe = io[j][s].pipe /\ io'[j][s].got = io[j][s].got
             /\ io'[j][s].put = io[j][s].put /\ (io'[j][s].far <=> io[j][s].far)
             /\ io'[j][s].window = io[j][s].window
             /\ io[j][s].asked => io'[j][s].asked
  BY <1>4, <1>6, AskedType
<1>8. io'[i][r].asked
  BY <1>6, AskedType
<1>9. Current(m)'
  BY <1>1, <1>3, <1>8 DEF Current
<1>10. ASSUME NEW c \in CommandType, Current(c) PROVE Before(c, m) /\ Current(c)'
  <2>1. c.id \in Ids /\ c.role \in Role
    BY DEF CommandType
  <2>2. Before(c, m)
    BY <1>1, <1>3, <1>10 DEF Before, Current
  <2>3. Current(c)'
    BY <1>3, <1>7, <1>10, <2>1 DEF Current
  <2> QED BY <2>2, <2>3
<1>11. phase' \in [Ids -> {"free", "open", "closing"}]
  BY <1>3 DEF CreditInv, Types
<1> QED BY <1>1, <1>2, <1>3, <1>6, <1>7, <1>9, <1>10, <1>11, PushInv

\* The credit the host takes for what it writes, or grants, is in the queue.
Pay(x, n, w) == [x EXCEPT !.put = n, !.window = w]
Paid(y, x, n, w) ==
    /\ y \in IoType /\ y.put = n /\ y.window = w /\ y.pipe = x.pipe /\ y.got = x.got
    /\ (y.far <=> x.far) /\ (y.asked <=> x.asked)
LEMMA PayType ==
    ASSUME NEW x \in IoType, NEW n \in Nat, NEW w \in Nat
    PROVE  Paid(Pay(x, n, w), x, n, w)
BY DEF Pay, Paid, IoType

LEMMA PayInv ==
    ASSUME CreditInv, exit = "no", NEW i \in Ids, NEW r \in Role, NEW m \in CommandType, Pushed(m),
           m.id = i, m.role = r, m.cmd \in {"WRITE", "ACK"},
           UNCHANGED <<daemonVars, peer, exits, child, sigchld, phase>>,
           phase[i] = "open", r \in OutRoles => proc[i],
           NEW y \in IoType, NEW p \in Nat, NEW w \in Nat, Paid(y, io[i][r], p, w),
           io' = [io EXCEPT ![i][r] = y], Accounts(i, r)', ~proc[i] => p = io[i][r].put,
           Current(m)', \A c \in CommandType : Current(c) => Before(c, m)
    PROVE  CreditInv'
<1>1. UNCHANGED <<pb, proc, pid, loop, exit, conn, events>>
  BY DEF daemonVars
<1>2. /\ io' \in [Ids -> [Role -> IoType]] /\ io'[i][r] = y
      /\ \A j \in Ids, s \in Role : j # i \/ s # r => io'[j][s] = io[j][s]
  BY Update DEF CreditInv, Types
<1>3. \A j \in Ids, s \in Role : (io'[j][s].asked <=> io[j][s].asked) /\ io'[j][s].pipe = io[j][s].pipe
  BY <1>2 DEF Paid
<1>4. ASSUME NEW c \in CommandType, Current(c) PROVE Before(c, m) /\ Current(c)'
  <2>1. c.id \in Ids /\ c.role \in Role
    BY DEF CommandType
  <2> QED BY <1>1, <1>3, <1>4, <2>1 DEF Current
<1>5. /\ queue' \in Seq(CommandType) /\ InOrder' /\ queue' # <<>>
      /\ \A j : OpenKept(j)
  BY <1>4, PushOrder
<1>6. Types'
  BY <1>1, <1>2, <1>5 DEF CreditInv, Types
<1>7. Batch' /\ \A j \in Ids, s \in Role : Fresh(j, s)'
  BY <1>1, <1>5, BatchKept, FreshKept
<1>8. ASSUME NEW j \in Ids, NEW s \in Role PROVE Accounts(j, s)'
  <2>1. CASE j = i /\ s = r
    BY <2>1
  <2>2. CASE j # i \/ s # r
    <3>1. /\ QueuedBytes("ACK", j, s)' = QueuedBytes("ACK", j, s)
          /\ QueuedBytes("WRITE", j, s)' = QueuedBytes("WRITE", j, s)
      BY <2>2, PushBytes DEF CreditInv, Types
    <3> QED BY <1>1, <1>2, <2>2, <3>1, AccountsKept
  <2> QED BY <2>1, <2>2
<1>9. ASSUME NEW j \in Ids PROVE ProcessKept(j)
  <2>1. Session(j)
    BY DEF CreditInv
  <2>2. ASSUME ~proc[j], NEW s \in Role
        PROVE  /\ io'[j][s].pipe = io[j][s].pipe /\ io'[j][s].got = io[j][s].got
               /\ io'[j][s].put = io[j][s].put /\ (io'[j][s].far <=> io[j][s].far)
               /\ s \in OutRoles => io'[j][s].window = io[j][s].window
    BY <1>2, <2>2 DEF Paid
  <2> QED BY <1>1, <1>5, <2>1, <2>2 DEF ProcessKept, Session
<1>10. \A j \in Ids, s \in Role : StreamKept(j, s)
  BY <1>3, <1>7, <1>8 DEF StreamKept, CreditInv, StreamInv, Fits
<1> QED BY <1>1, <1>5, <1>6, <1>7, <1>9, <1>10, StillInv

LEMMA WriteOrderInv ==
    ASSUME CreditInv, exit = "no", NEW i \in Ids, NEW r \in OutRoles, NEW n \in Lens,
           HostWrite(i, r, n)
    PROVE  CreditInv' /\ proc[i]
<1> r \in Role /\ r \notin InRoles /\ "WRITE" \in Commands
  BY DEF Role, InRoles, OutRoles, Commands
<1>1. n \in Nat /\ n > 0
  BY ExecAssumption
<1>2. PICK m \in CommandType : /\ m = Order("WRITE", i, r, n) /\ m.cmd = "WRITE"
                               /\ m.id = i /\ m.role = r /\ m.n = n
  BY <1>1, OrderType
<1>3. Pushed(m)
  BY <1>2 DEF HostWrite, Send, Order, Pushed
<1>4. /\ UNCHANGED <<daemonVars, peer, exits, child, sigchld, phase>> /\ UNCHANGED <<pb, proc>>
      /\ phase[i] = "open" /\ ~io[i][r].asked /\ n <= io[i][r].window
      /\ io' = [io EXCEPT ![i][r].put = @ + n, ![i][r].window = @ - n]
  BY DEF HostWrite, Send, daemonVars
<1>5. PICK x \in IoType : x = io[i][r]
  BY DEF CreditInv, Types
<1>6. x.window \in Nat /\ x.put \in Nat /\ n <= x.window
  BY <1>4, <1>5 DEF IoType
<1>7. proc[i]
  <2>1. SUFFICES ASSUME ~proc[i] PROVE FALSE
    OBVIOUS
  <2>2. io[i][r].window = 0
    BY <2>1 DEF CreditInv, Session, Unused
  <2> QED BY <1>1, <1>5, <1>6, <2>2
<1>8. PICK p \in Nat : p = x.put + n
  BY <1>1, <1>6
<1>9. PICK w \in Nat : w = x.window - n
  BY <1>1, <1>6
<1>10. PICK y \in IoType : y = Pay(x, p, w) /\ Paid(y, x, p, w)
  <2>1. Paid(Pay(x, p, w), x, p, w)
    BY PayType
  <2> QED BY <2>1 DEF Paid
<1>11. io' = [io EXCEPT ![i][r] = y]
  <2>1. y = [x EXCEPT !.put = p, !.window = w]
    BY <1>10 DEF Pay
  <2>2. io \in [Ids -> [Role -> IoType]]
    BY DEF CreditInv, Types
  <2>3. io' = [io EXCEPT ![i][r] = [io[i][r] EXCEPT !.put = io[i][r].put + n,
                                                    !.window = io[i][r].window - n]]
    BY <1>4, <2>2 DEF IoType
  <2> QED BY <1>5, <1>8, <1>9, <2>1, <2>3
<1>12. PICK q \in Nat : q = QueuedBytes("WRITE", i, r) /\ QueuedBytes("WRITE", i, r)' = q + n
  <2>1. /\ QueuedBytes("WRITE", i, r)' = QueuedBytes("WRITE", i, r) + Amount(m, "WRITE", i, r)
        /\ QueuedBytes("WRITE", i, r) \in Nat
    BY <1>3, PushBytes DEF CreditInv, Types
  <2>2. Amount(m, "WRITE", i, r) = n
    BY <1>2 DEF Amount
  <2> QED BY <2>1, <2>2
<1>13. io'[i][r] = y
  BY <1>11, Update DEF CreditInv, Types
<1>14. Accounts(i, r)'
  <2>1. PICK b \in BufType : b = pb[i][r]
    BY DEF CreditInv, Types
  <2>2. x.window + q + b.bufcount = SIZE /\ b.credit + b.bufcount = SIZE
    BY <1>5, <1>7, <1>12, <2>1 DEF CreditInv, StreamInv, Accounts
  <2>3. b.bufcount \in 0..SIZE /\ SIZE \in Nat
    BY ExecAssumption DEF BufType
  <2>4. w + (q + n) + b.bufcount = SIZE
    BY <1>1, <1>6, <1>9, <2>2, <2>3
  <2>5. y.window = w /\ proc'[i] /\ pb'[i][r] = b
    BY <1>4, <1>7, <1>10, <2>1 DEF Paid
  <2> QED BY <1>12, <1>13, <2>2, <2>4, <2>5 DEF Accounts
<1>15. Current(m)'
  <2>1. pb[i][r].eof => io[i][r].asked
    BY DEF CreditInv, StreamInv, Polled
  <2> QED BY <1>1, <1>2, <1>4, <2>1 DEF Current
<1>16. ASSUME NEW c \in CommandType, Current(c) PROVE Before(c, m)
  BY <1>2, <1>4, <1>16 DEF Before, Current
<1>17. CreditInv'
  BY <1>2, <1>3, <1>4, <1>5, <1>7, <1>10, <1>11, <1>14, <1>15, <1>16, PayInv
<1> QED BY <1>7, <1>17

LEMMA AckOrderInv ==
    ASSUME CreditInv, exit = "no", NEW i \in Ids, NEW r \in InRoles, NEW n \in Lens,
           HostAck(i, r, n)
    PROVE  CreditInv'
<1> r \in Role /\ r \notin OutRoles /\ "ACK" \in Commands
  BY DEF Role, InRoles, OutRoles, Commands
<1>1. n \in Nat /\ n > 0
  BY ExecAssumption
<1>2. PICK m \in CommandType : /\ m = Order("ACK", i, r, n) /\ m.cmd = "ACK"
                               /\ m.id = i /\ m.role = r /\ m.n = n
  BY <1>1, OrderType
<1>3. Pushed(m)
  BY <1>2 DEF HostAck, Send, Order, Pushed
<1>4. /\ UNCHANGED <<daemonVars, peer, exits, child, sigchld, phase>> /\ UNCHANGED <<pb, proc>>
      /\ phase[i] = "open"
      /\ io' = [io EXCEPT ![i][r].window = @ + n]
  BY DEF HostAck, Send, daemonVars
<1>5. PICK x \in IoType : x = io[i][r]
  BY DEF CreditInv, Types
<1>6. x.window \in Nat /\ x.put \in Nat
  BY DEF IoType
<1>7. PICK w \in Nat : w = x.window + n
  BY <1>1, <1>6
<1>8. PICK y \in IoType : y = Pay(x, x.put, w) /\ Paid(y, x, x.put, w)
  <2>1. Paid(Pay(x, x.put, w), x, x.put, w)
    BY <1>6, PayType
  <2> QED BY <2>1 DEF Paid
<1>9. io' = [io EXCEPT ![i][r] = y]
  <2>1. y = [x EXCEPT !.window = w]
    BY <1>8 DEF Pay, IoType
  <2> QED BY <1>4, <1>5, <1>7, <2>1
<1>10. PICK q \in Nat : q = QueuedBytes("ACK", i, r) /\ QueuedBytes("ACK", i, r)' = q + n
  <2>1. /\ QueuedBytes("ACK", i, r)' = QueuedBytes("ACK", i, r) + Amount(m, "ACK", i, r)
        /\ QueuedBytes("ACK", i, r) \in Nat
    BY <1>3, PushBytes DEF CreditInv, Types
  <2>2. Amount(m, "ACK", i, r) = n
    BY <1>2 DEF Amount
  <2> QED BY <2>1, <2>2
<1>11. io'[i][r] = y
  BY <1>9, Update DEF CreditInv, Types
<1>12. Accounts(i, r)'
  <2>1. PICK b \in BufType : b = pb[i][r]
    BY DEF CreditInv, Types
  <2>2. b.credit + q = x.window
    BY <1>5, <1>10, <2>1 DEF CreditInv, StreamInv, Accounts
  <2>3. b.credit \in Nat
    BY DEF BufType
  <2>4. b.credit + (q + n) = w
    BY <1>1, <1>7, <2>2, <2>3
  <2> QED BY <1>4, <1>8, <1>10, <1>11, <2>1, <2>4 DEF Accounts, Paid
<1>13. Current(m)'
  BY <1>1, <1>2, <1>4 DEF Current
<1>14. ASSUME NEW c \in CommandType, Current(c) PROVE Before(c, m)
  BY <1>2, <1>4, <1>14 DEF Before, Current
<1> QED BY <1>2, <1>3, <1>4, <1>5, <1>6, <1>8, <1>9, <1>12, <1>13, <1>14, PayInv

\* An id that is free has no commands but resets on their way.
LEMMA FreeBytes ==
    ASSUME CreditInv, NEW i \in Ids, phase[i] = "free", NEW cmd \in {"WRITE", "ACK"}, NEW r
    PROVE  QueuedBytes(cmd, i, r) = 0
<1>1. queue \in Seq(CommandType) /\ \A k \in 1..Len(queue) : Current(queue[k])
  BY DEF CreditInv, Types, InOrder
<1>2. \A k \in 1..Len(queue) : ~(queue[k].cmd = cmd /\ queue[k].id = i /\ queue[k].role = r)
  BY <1>1 DEF Current
<1> QED BY <1>1, <1>2, QueuedNone, QueuedIs

LEMMA OutsideFields ==
    /\ Outside \in IoType /\ Outside.pipe = <<>> /\ Outside.far /\ Outside.put = 0
    /\ Outside.got = <<>> /\ Outside.window = 0 /\ ~Outside.asked
BY OutsideType DEF Outside

LEMMA OpenOrderInv ==
    ASSUME CreditInv, exit = "no", NEW i \in Ids, HostOpen(i)
    PROVE  CreditInv'
<1>1. /\ UNCHANGED <<pb, proc, pid, loop, exit, conn, events, peer, child, sigchld>>
      /\ phase[i] = "free" /\ phase' = [phase EXCEPT ![i] = "open"]
      /\ exits' = [exits EXCEPT ![i] = 0]
      /\ io' = [io EXCEPT ![i] = [r \in Role |-> Outside]]
  BY DEF HostOpen, daemonVars
<1>2. PICK m \in CommandType : /\ m = [cmd |-> "OPEN", id |-> i, role |-> "ctrl", n |-> 0,
                                       from |-> 0, part |-> "all"]
                               /\ m.cmd = "OPEN" /\ m.id = i
  <2>1. [cmd |-> "OPEN", id |-> i, role |-> "ctrl", n |-> 0, from |-> 0, part |-> "all"]
            \in CommandType
    BY DEF CommandType, Commands, Role, OutRoles
  <2> QED BY <2>1
<1>3. Pushed(m)
  BY <1>2 DEF HostOpen, Pushed
<1>4. ~proc[i] /\ Unused(i)
  BY <1>1 DEF CreditInv, Session
<1>5. /\ phase' \in [Ids -> {"free", "open", "closing"}] /\ phase'[i] = "open"
      /\ \A j \in Ids : j # i => phase'[j] = phase[j]
      /\ exits' \in [Ids -> Nat]
  BY <1>1 DEF CreditInv, Types
<1>6. /\ io' \in [Ids -> [Role -> IoType]] /\ \A s \in Role : io'[i][s] = Outside
      /\ \A j \in Ids : j # i => io'[j] = io[j]
  BY <1>1, OutsideFields DEF CreditInv, Types
<1>7. Current(m)'
  BY <1>1, <1>2, <1>4, <1>5 DEF Current
<1>8. ASSUME NEW c \in CommandType, Current(c) PROVE Before(c, m) /\ Current(c)'
  <2>1. c.id \in Ids /\ c.role \in Role
    BY DEF CommandType
  <2>2. c.id = i => c.cmd = "RESET"
    BY <1>1, <1>8 DEF Current
  <2>3. Before(c, m)
    BY <1>2, <2>2 DEF Before
  <2>4. Current(c)'
    BY <1>1, <1>5, <1>6, <1>8, <2>1, <2>2 DEF Current
  <2> QED BY <2>3, <2>4
<1>9. /\ queue' \in Seq(CommandType) /\ InOrder' /\ queue' # <<>>
      /\ \A j : OpenKept(j)
      /\ \E k \in 1..Len(queue') : IsOpen(queue'[k], i)
  BY <1>2, <1>3, <1>7, <1>8, PushOrder
<1>10. Types'
  BY <1>1, <1>5, <1>6, <1>9 DEF CreditInv, Types
<1>11. Batch' /\ \A j \in Ids, s \in Role : Fresh(j, s)'
  BY <1>1, <1>9, BatchKept, FreshKept
<1>12. ASSUME NEW j \in Ids, NEW s \in Role
       PROVE  /\ QueuedBytes("ACK", j, s)' = QueuedBytes("ACK", j, s)
              /\ QueuedBytes("WRITE", j, s)' = QueuedBytes("WRITE", j, s)
  BY <1>2, <1>3, PushBytes DEF CreditInv, Types
<1>13. ASSUME NEW j \in Ids PROVE Session(j)'
  <2>1. Session(j)
    BY DEF CreditInv
  <2>2. CASE j # i
    <3>1. ~proc[j] => Unused(j)'
      BY <1>1, <1>6, <2>1, <2>2 DEF Session, Unused
    <3>2. phase'[j] # "free" /\ ~proc'[j] => \E k \in 1..Len(queue') : IsOpen(queue'[k], j)
      BY <1>1, <1>5, <1>9, <2>1, <2>2 DEF Session, OpenKept
    <3> QED BY <1>1, <1>5, <2>1, <2>2, <3>1, <3>2 DEF Session, IsOpen
  <2>3. CASE j = i
    <3>1. Unused(i)'
      BY <1>1, <1>4, <1>6, OutsideFields DEF Unused
    <3> QED BY <1>1, <1>4, <1>9, <2>3, <3>1 DEF Session, IsOpen
  <2> QED BY <2>2, <2>3
<1>14. ASSUME NEW j \in Ids, NEW s \in Role PROVE StreamInv(j, s)'
  <2>1. StreamInv(j, s)
    BY DEF CreditInv
  <2>2. CASE j # i
    BY <1>1, <1>6, <1>12, <2>1, <2>2, StreamFrame
  <2>3. CASE j = i
    <3>1. QueuedBytes("ACK", i, s) = 0 /\ QueuedBytes("WRITE", i, s) = 0
      BY <1>1, FreeBytes
    <3>2. pb[i][s] = ClosedBuf
      BY <1>4 DEF Unused
    <3>3. ClosedBuf.credit = 0 /\ ~ClosedBuf.eof
      BY DEF ClosedBuf
    <3>4. io'[i][s].window = 0 /\ Len(io'[i][s].pipe) = 0
      BY <1>6, OutsideFields
    <3>5. Accounts(i, s)'
      BY <1>1, <1>4, <1>12, <3>1, <3>2, <3>3, <3>4 DEF Accounts
    <3>6. Polled(i, s)'
      BY <1>1, <1>4, <2>1, <2>3, <3>2, <3>3 DEF StreamInv, Polled
    <3>7. Fits(i, s)'
      BY <3>4, ExecAssumption DEF Fits
    <3> QED BY <1>11, <2>3, <3>5, <3>6, <3>7 DEF StreamInv
  <2> QED BY <2>2, <2>3
<1> QED BY <1>9, <1>10, <1>11, <1>13, <1>14 DEF CreditInv

LEMMA HostInv ==
    ASSUME CreditInv, exit = "no", Host
    PROVE  CreditInv'
<1>1. CASE HostConnect
  BY <1>1, ConnectInv
<1>2. CASE HostHangup
  BY <1>2, HangupInv
<1>3. CASE HostReset
  <2>1. PICK i \in Ids : Send("RESET", i, "ctrl", 0) /\ UNCHANGED <<phase, io>>
    BY <1>3 DEF HostReset
  <2> QED BY <2>1, KillOrReset
<1>4. ASSUME NEW i \in Ids, HostKill(i) PROVE CreditInv'
  <2>1. phase[i] = "open" /\ Send("KILL", i, "ctrl", 0) /\ UNCHANGED <<phase, io>>
    BY <1>4 DEF HostKill
  <2> QED BY <2>1, KillOrReset
<1> QED BY <1>1, <1>2, <1>3, <1>4, OpenOrderInv, CloseOrderInv, CloseStreamOrderInv,
           WriteOrderInv, AckOrderInv DEF Host

---------------------------------------------------------------------------
(* Commands that open and close processes.                                 *)

LEMMA ResetCommand ==
    ASSUME CreditInv, NEW m, Taken(m), m.cmd = "RESET", Exit("reset"),
           UNCHANGED <<proc, pid, phase, child, sigchld>>
    PROVE  CreditInv' /\ exit' = "reset" /\ UNCHANGED <<pb, io>>
           /\ \A j, s : QueuedBytes("WRITE", j, s)' = QueuedBytes("WRITE", j, s)
<1>1. /\ m \in CommandType /\ Popped
      /\ \A j, s : /\ QueuedBytes("WRITE", j, s)' = QueuedBytes("WRITE", j, s)
                   /\ QueuedBytes("ACK", j, s)' = QueuedBytes("ACK", j, s)
  BY TakenBytes
<1>2. /\ UNCHANGED <<pb, io, proc, pid, phase, child, sigchld, conn, loop, peer, exits>>
      /\ exit = "no" /\ exit' = "reset" /\ events' \subseteq events /\ Socket \notin events'
      /\ QueueSame
  BY <1>1 DEF Taken, Exit, QueueSame
<1>3. queue \in Seq(CommandType) /\ InOrder
  BY DEF CreditInv, Types
<1>4. InOrder' /\ queue' \in Seq(CommandType)
  <2>1. ASSUME NEW c \in CommandType, Current(c) PROVE Current(c)'
    BY <1>2, <2>1 DEF Current
  <2> QED BY <1>1, <1>3, <2>1, OrderStep
<1>5. Types'
  BY <1>2, <1>4 DEF CreditInv, Types, Exits
<1>6. Batch'
  BY <1>2 DEF Batch
<1>7. ASSUME NEW j \in Ids PROVE ProcessKept(j)
  <2>1. Session(j) /\ OpenKept(j)
    BY <1>2, <1>3, OpenStep DEF CreditInv, OpenKept
  <2> QED BY <1>2, <2>1 DEF ProcessKept, Session
<1>8. ASSUME NEW j \in Ids, NEW s \in Role PROVE StreamKept(j, s)
  <2>1. Accounts(j, s)' /\ Fresh(j, s)'
    BY <1>1, <1>2, AccountsKept, FreshKept
  <2> QED BY <1>2, <2>1 DEF StreamKept, CreditInv, StreamInv, Fits
<1>9. CreditInv'
  BY <1>2, <1>4, <1>5, <1>6, <1>7, <1>8, StillInv
<1> QED BY <1>1, <1>2, <1>9

\* OPEN is the first command for its process.
LEMMA OpenCommand ==
    ASSUME CreditInv, NEW m, Taken(m), m.cmd = "OPEN", NEW i \in Ids, i = m.id, Open(i),
           UNCHANGED <<phase, sigchld>>
    PROVE  /\ CreditInv' /\ (exit' = exit \/ BrokenSocket)
           /\ \A j \in Ids : j # i => pb'[j] = pb[j] /\ io'[j] = io[j]
           /\ \A s \in Role : <<i, s>> \notin events
           /\ \A s \in Role : /\ io'[i][s].pipe = io[i][s].pipe /\ io'[i][s].put = io[i][s].put
                              /\ io'[i][s].got = io[i][s].got /\ (io'[i][s].far <=> io[i][s].far)
                              /\ pb[i][s].bufcount = 0 /\ pb'[i][s].bufcount = 0
           /\ \A j, s : QueuedBytes("WRITE", j, s)' = QueuedBytes("WRITE", j, s)
<1>1. /\ m \in CommandType /\ Popped /\ Current(m)
      /\ \A j, s : /\ QueuedBytes("WRITE", j, s)' = QueuedBytes("WRITE", j, s)
                   /\ QueuedBytes("ACK", j, s)' = QueuedBytes("ACK", j, s)
  BY TakenBytes
<1>2. ~proc[i] /\ Unused(i) /\ phase[i] # "free" /\ conn
  BY <1>1 DEF CreditInv, Session, Current, Batch, Taken
<1>3. /\ proc' = [proc EXCEPT ![i] = TRUE] /\ pid' = [pid EXCEPT ![i] = TRUE]
      /\ child' = [child EXCEPT ![i] = "command"]
      /\ pb' = [pb EXCEPT ![i] = [r \in Role |-> NewBuf(r)]]
      /\ io' = [io EXCEPT ![i] = [r \in Role |->
                    IF r \in OutRoles THEN Widened(io[i][r], SIZE) ELSE io[i][r]]]
      /\ exit' = IF peer THEN exit ELSE "sigpipe"
  BY <1>2 DEF Open
<1>4. /\ UNCHANGED <<phase, sigchld, conn, loop, peer, exits>>
      /\ exit = "no" /\ events' \subseteq events /\ Socket \in events /\ Socket \notin events'
  BY DEF Taken
<1>5. /\ queue \in Seq(CommandType) /\ InOrder /\ proc \in [Ids -> BOOLEAN] /\ pid \in [Ids -> BOOLEAN]
      /\ child \in [Ids -> Children] /\ pb \in [Ids -> [Role -> BufType]]
      /\ io \in [Ids -> [Role -> IoType]]
  BY DEF CreditInv, Types
<1>6. /\ pb' \in [Ids -> [Role -> BufType]] /\ \A j \in Ids : j # i => pb'[j] = pb[j]
      /\ \A s \in Role : pb'[i][s] = NewBuf(s)
  BY <1>3, <1>5, NewBufType
<1>7. \A s \in Role : /\ Widened(io[i][s], SIZE) \in IoType
                      /\ Widened(io[i][s], SIZE).window = io[i][s].window + SIZE
                      /\ Widened(io[i][s], SIZE).pipe = io[i][s].pipe
                      /\ Widened(io[i][s], SIZE).put = io[i][s].put
                      /\ Widened(io[i][s], SIZE).got = io[i][s].got
                      /\ (Widened(io[i][s], SIZE).far <=> io[i][s].far)
                      /\ (Widened(io[i][s], SIZE).asked <=> io[i][s].asked)
  <2>1. ASSUME NEW s \in Role
        PROVE  Paid(Widened(io[i][s], SIZE), io[i][s], io[i][s].put, io[i][s].window + SIZE)
    <3>1. PICK x \in IoType : x = io[i][s]
      BY <1>5
    <3>2. PICK w \in Nat : w = x.window + SIZE
      BY ExecAssumption DEF IoType
    <3>3. Widened(x, SIZE) = Pay(x, x.put, w) /\ x.put \in Nat
      BY <3>2 DEF Widened, Pay, IoType
    <3> QED BY <3>1, <3>2, <3>3, PayType
  <2> QED BY <2>1 DEF Paid
<1>8. /\ io' \in [Ids -> [Role -> IoType]] /\ \A j \in Ids : j # i => io'[j] = io[j]
      /\ \A s \in Role : io'[i][s] = IF s \in OutRoles THEN Widened(io[i][s], SIZE) ELSE io[i][s]
  BY <1>3, <1>5, <1>7
<1>9. \A s \in Role : /\ io'[i][s].pipe = io[i][s].pipe /\ io'[i][s].put = io[i][s].put
                      /\ io'[i][s].got = io[i][s].got /\ (io'[i][s].far <=> io[i][s].far)
                      /\ (io'[i][s].asked <=> io[i][s].asked)
                      /\ io'[i][s].window = IF s \in OutRoles THEN io[i][s].window + SIZE
                                            ELSE io[i][s].window
  BY <1>7, <1>8
<1>10. ASSUME NEW s \in Role PROVE <<i, s>> \notin events
  <2>1. pb[i][s].polled = 0
    BY <1>2, UnusedProcess
  <2> QED BY <1>4, <2>1 DEF CreditInv, StreamInv, Fresh
<1>11. /\ proc' \in [Ids -> BOOLEAN] /\ proc'[i] /\ \A j \in Ids : j # i => proc'[j] = proc[j]
       /\ pid' \in [Ids -> BOOLEAN] /\ \A j \in Ids : j # i => pid'[j] = pid[j]
       /\ child' \in [Ids -> Children] /\ \A j \in Ids : j # i => child'[j] = child[j]
  BY <1>3, <1>5 DEF Children
<1>12. InOrder' /\ queue' \in Seq(CommandType)
  <2>1. ASSUME NEW c \in CommandType, Current(c), NEW k \in 1..Len(queue'), queue'[k] = c
        PROVE  Current(c)'
    <3>1. c.id \in Ids /\ c.role \in Role
      BY DEF CommandType
    <3>2. Before(m, c)
      BY <1>1, <1>5, <2>1, PoppedOrder DEF Taken
    <3>3. CASE c.id = i
      <4>1. c.cmd # "OPEN"
        BY <3>2, <3>3 DEF Before
      <4>2. ~pb'[i][c.role].eof
        BY <1>6, <3>1, NewBufType
      <4> QED BY <1>4, <1>9, <2>1, <3>1, <3>3, <4>1, <4>2 DEF Current
    <3>4. CASE c.id # i
      BY <1>4, <1>6, <1>8, <1>11, <2>1, <3>1, <3>4 DEF Current
    <3> QED BY <3>3, <3>4
  <2> QED BY <1>1, <1>5, <2>1, OrderStep
<1>13. exit' \in Exits /\ (exit' = exit \/ BrokenSocket)
  BY <1>3 DEF CreditInv, Types, Exits, BrokenSocket
<1>14. Types'
  BY <1>4, <1>6, <1>8, <1>11, <1>12, <1>13 DEF CreditInv, Types
<1>15. Batch'
  BY <1>4 DEF Batch
<1>16. ASSUME NEW j \in Ids PROVE Session(j)'
  <2>1. Session(j)
    BY DEF CreditInv
  <2>2. CASE j = i
    BY <1>2, <1>4, <1>11, <2>2 DEF Session
  <2>3. CASE j # i
    <3>1. ~proc[j] => Unused(j)'
      BY <1>6, <1>8, <1>11, <2>1, <2>3 DEF Session, Unused
    <3>2. phase[j] # "free" /\ ~proc[j] => \E k \in 1..Len(queue') : IsOpen(queue'[k], j)
      <4>1. ASSUME NEW k \in 1..Len(queue), IsOpen(queue[k], j)
            PROVE  \E n \in 1..Len(queue') : IsOpen(queue'[n], j)
        <5>1. k # 1
          BY <2>3, <4>1 DEF IsOpen, Taken
        <5>2. k - 1 \in 1..Len(queue') /\ queue'[k - 1] = queue[k]
          BY <1>1, <1>5, <5>1 DEF Popped
        <5> QED BY <4>1, <5>2
      <4> QED BY <2>1, <4>1 DEF Session
    <3> QED BY <1>4, <1>11, <2>1, <2>3, <3>1, <3>2 DEF Session, IsOpen
  <2> QED BY <2>2, <2>3
<1>17. ASSUME NEW j \in Ids, NEW s \in Role PROVE StreamInv(j, s)'
  <2>1. StreamInv(j, s)
    BY DEF CreditInv
  <2>2. CASE j # i
    BY <1>1, <1>4, <1>6, <1>8, <1>11, <2>1, <2>2, StreamFrame
  <2>3. CASE j = i
    <3>1. ClosedBuf.credit = 0 /\ pb[i][s] = ClosedBuf /\ io[i][s].window \in Nat
      BY <1>2, <1>5 DEF ClosedBuf, Unused, IoType
    <3>2. s \in OutRoles => io[i][s].window = 0
      BY <1>2 DEF Unused
    <3>3. SIZE \in Nat \ {0} /\ (s \in InRoles <=> s \notin OutRoles)
      BY ExecAssumption DEF Role, InRoles, OutRoles
    <3>4. /\ pb'[i][s].fd /\ ~pb'[i][s].eof /\ pb'[i][s].bufcount = 0
          /\ s \in InRoles => pb'[i][s].polled = 1 /\ pb'[i][s].credit = 0
          /\ s \in OutRoles => pb'[i][s].polled = 0 /\ pb'[i][s].credit = SIZE
      BY <1>6, NewBufType
    <3>5. Accounts(i, s)'
      <4>1. CASE s \in InRoles
        <5>1. 0 + QueuedBytes("ACK", i, s) = io[i][s].window
          BY <2>1, <2>3, <3>1, <4>1 DEF StreamInv, Accounts
        <5> QED BY <1>1, <1>9, <3>3, <3>4, <4>1, <5>1 DEF Accounts
      <4>2. CASE s \in OutRoles
        <5>1. QueuedBytes("WRITE", i, s) = 0
          BY <1>2, <2>1, <2>3, <3>3, <4>2 DEF StreamInv, Accounts
        <5>2. io'[i][s].window = SIZE
          BY <1>9, <3>2, <3>3, <4>2
        <5> QED BY <1>1, <1>11, <3>3, <3>4, <4>2, <5>1, <5>2 DEF Accounts
      <4> QED BY <3>3, <4>1, <4>2
    <3>6. Polled(i, s)'
      BY <3>3, <3>4 DEF Polled
    <3>7. Fresh(i, s)'
      BY <1>4, <1>10 DEF Fresh
    <3>8. Fits(i, s)'
      BY <1>9, <2>1, <2>3 DEF StreamInv, Fits
    <3> QED BY <2>3, <3>5, <3>6, <3>7, <3>8 DEF StreamInv
  <2> QED BY <2>2, <2>3
<1>18. CreditInv'
  BY <1>12, <1>14, <1>15, <1>16, <1>17 DEF CreditInv
<1>19. \A s \in Role : pb[i][s].bufcount = 0 /\ pb'[i][s].bufcount = 0
  BY <1>2, <1>6, NewBufType DEF Unused, ClosedBuf
<1> QED BY <1>1, <1>6, <1>8, <1>9, <1>10, <1>13, <1>18, <1>19

\* A process that is closed leaves nothing.
LEMMA ClosedProcesses ==
    ASSUME CreditInv, NEW S \in SUBSET Ids, close_process(S)
    PROVE  /\ sigchld' \in BOOLEAN /\ proc' \in [Ids -> BOOLEAN] /\ pid' \in [Ids -> BOOLEAN]
           /\ child' \in [Ids -> Children] /\ pb' \in [Ids -> [Role -> BufType]]
           /\ \A j \in S : /\ ~proc'[j] /\ ~pid'[j] /\ child'[j] = "none"
                           /\ pb'[j] = [r \in Role |-> ClosedBuf]
           /\ \A j \in Ids \ S : /\ proc'[j] = proc[j] /\ (pid'[j] <=> pid[j])
                                 /\ child'[j] = child[j] /\ pb'[j] = pb[j]
<1>1. /\ sigchld \in BOOLEAN /\ proc \in [Ids -> BOOLEAN] /\ pid \in [Ids -> BOOLEAN]
      /\ child \in [Ids -> Children] /\ pb \in [Ids -> [Role -> BufType]]
  BY DEF CreditInv, Types
<1>2. sigchld' \in BOOLEAN
  BY <1>1 DEF close_process
<1>3. proc' \in [Ids -> BOOLEAN] /\ pid' \in [Ids -> BOOLEAN]
  BY <1>1 DEF close_process
<1>4. child' \in [Ids -> Children]
  BY <1>1 DEF close_process, Children
<1>5. pb' \in [Ids -> [Role -> BufType]]
  BY <1>1, ClosedBufType DEF close_process
<1>6. \A j \in S : /\ ~proc'[j] /\ ~pid'[j] /\ child'[j] = "none"
                   /\ pb'[j] = [r \in Role |-> ClosedBuf]
  BY DEF close_process
<1>7. \A j \in Ids \ S : /\ proc'[j] = proc[j] /\ (pid'[j] <=> pid[j])
                         /\ child'[j] = child[j] /\ pb'[j] = pb[j]
  BY <1>1 DEF close_process
<1> QED BY <1>2, <1>3, <1>4, <1>5, <1>6, <1>7

\* A stream that is closed with nothing queued for it.
LEMMA RestInv ==
    ASSUME NEW j \in Ids, NEW s \in Role, pb'[j][s] = ClosedBuf, ~proc'[j], Socket \notin events',
           io'[j][s].window = 0, io'[j][s].pipe = <<>>,
           QueuedBytes("ACK", j, s)' = 0, QueuedBytes("WRITE", j, s)' = 0
    PROVE  StreamInv(j, s)'
<1>1. /\ ~ClosedBuf.fd /\ ~ClosedBuf.eof /\ ClosedBuf.polled = 0 /\ ClosedBuf.bufcount = 0
      /\ ClosedBuf.credit = 0
  BY DEF ClosedBuf
<1>2. PIPE_CAP \in Nat /\ SIZE \in Nat \ {0} /\ Len(<<>>) = 0
  BY ExecAssumption
<1>3. Accounts(j, s)'
  BY <1>1 DEF Accounts
<1>4. Polled(j, s)'
  BY <1>1, <1>2 DEF Polled
<1>5. Fresh(j, s)'
  BY <1>1 DEF Fresh
<1>6. Fits(j, s)'
  BY <1>2 DEF Fits
<1> QED BY <1>3, <1>4, <1>5, <1>6 DEF StreamInv

LEMMA RestFields ==
    ASSUME NEW e \in Nat
    PROVE  LET x == [Outside EXCEPT !.ends = e]
           IN  /\ x \in IoType /\ x.pipe = <<>> /\ x.far /\ x.put = 0 /\ x.got = <<>> /\ x.window = 0
BY OutsideType DEF Outside, IoType

\* CLOSE is the last command for its process.
LEMMA CloseCommand ==
    ASSUME CreditInv, NEW m, Taken(m), m.cmd = "CLOSE", NEW i \in Ids, i = m.id, proc[i], Close(i)
    PROVE  /\ CreditInv' /\ (exit' = exit \/ BrokenSocket)
           /\ \A j \in Ids : j # i => pb'[j] = pb[j] /\ io'[j] = io[j]
           /\ \A s \in Role : /\ io'[i][s].pipe = <<>> /\ io'[i][s].put = 0 /\ io'[i][s].got = <<>>
                              /\ io'[i][s].far /\ pb'[i][s].bufcount = 0
                              /\ QueuedBytes("WRITE", i, s)' = 0
           /\ \A j, s : QueuedBytes("WRITE", j, s)' = QueuedBytes("WRITE", j, s)
<1>1. /\ m \in CommandType /\ Popped /\ Current(m)
      /\ \A j, s : /\ QueuedBytes("WRITE", j, s)' = QueuedBytes("WRITE", j, s)
                   /\ QueuedBytes("ACK", j, s)' = QueuedBytes("ACK", j, s)
  BY TakenBytes
<1>2. /\ UNCHANGED <<conn, loop, peer, exits>>
      /\ exit = "no" /\ events' \subseteq events /\ Socket \in events /\ Socket \notin events'
  BY DEF Taken
<1>3. /\ queue \in Seq(CommandType) /\ InOrder /\ io \in [Ids -> [Role -> IoType]]
      /\ phase \in [Ids -> {"free", "open", "closing"}] /\ {i} \in SUBSET Ids
  BY DEF CreditInv, Types
<1>4. /\ close_process({i}) /\ phase' = [phase EXCEPT ![i] = "free"]
      /\ io' = [io EXCEPT ![i] = [r \in Role |-> [Outside EXCEPT !.ends = EndsAfterClose(i, r)]]]
      /\ exit' = IF peer THEN exit ELSE "sigpipe"
  BY DEF Close
<1>5. /\ sigchld' \in BOOLEAN /\ proc' \in [Ids -> BOOLEAN] /\ pid' \in [Ids -> BOOLEAN]
      /\ child' \in [Ids -> Children] /\ pb' \in [Ids -> [Role -> BufType]]
      /\ ~proc'[i] /\ ~pid'[i] /\ child'[i] = "none" /\ pb'[i] = [r \in Role |-> ClosedBuf]
      /\ \A j \in Ids : j # i => /\ proc'[j] = proc[j] /\ (pid'[j] <=> pid[j])
                                 /\ child'[j] = child[j] /\ pb'[j] = pb[j]
  BY <1>3, <1>4, ClosedProcesses
<1>6. /\ phase' \in [Ids -> {"free", "open", "closing"}] /\ phase'[i] = "free"
      /\ \A j \in Ids : j # i => phase'[j] = phase[j]
  BY <1>3, <1>4
<1>7. \A s \in Role : EndsAfterClose(i, s) \in Nat
  <2>1. ASSUME NEW s \in Role PROVE EndsAfterClose(i, s) \in Nat
    <3>1. io[i][s].ends \in Nat
      BY <1>3 DEF IoType
    <3> QED BY <3>1 DEF EndsAfterClose
  <2> QED BY <2>1
<1>8. /\ io' \in [Ids -> [Role -> IoType]] /\ \A j \in Ids : j # i => io'[j] = io[j]
      /\ \A s \in Role : io'[i][s] = [Outside EXCEPT !.ends = EndsAfterClose(i, s)]
  BY <1>3, <1>4, <1>7, RestFields
<1>9. \A s \in Role : /\ io'[i][s].pipe = <<>> /\ io'[i][s].put = 0 /\ io'[i][s].got = <<>>
                      /\ io'[i][s].far /\ io'[i][s].window = 0
  <2>1. ASSUME NEW s \in Role
        PROVE  /\ io'[i][s].pipe = <<>> /\ io'[i][s].put = 0 /\ io'[i][s].got = <<>>
               /\ io'[i][s].far /\ io'[i][s].window = 0
    <3>1. PICK e \in Nat : e = EndsAfterClose(i, s)
      BY <1>7
    <3>2. io'[i][s] = [Outside EXCEPT !.ends = e]
      BY <1>8, <3>1
    <3> QED BY <3>2, RestFields
  <2> QED BY <2>1
<1>10. \A k \in 1..Len(queue') : /\ queue'[k] \in CommandType /\ Current(queue'[k])
                                 /\ queue'[k].id = i => queue'[k].cmd = "RESET"
  <2>1. ASSUME NEW k \in 1..Len(queue')
        PROVE  queue'[k] \in CommandType /\ Current(queue'[k]) /\ Before(m, queue'[k])
    BY <1>1, <1>3, PoppedOrder DEF Taken
  <2> QED BY <2>1 DEF Before
<1>11. InOrder' /\ queue' \in Seq(CommandType)
  <2>1. ASSUME NEW c \in CommandType, Current(c), NEW k \in 1..Len(queue'), queue'[k] = c
        PROVE  Current(c)'
    <3>1. c.id \in Ids /\ c.role \in Role
      BY DEF CommandType
    <3>2. c.id = i => c.cmd = "RESET"
      BY <1>10, <2>1
    <3> QED BY <1>5, <1>6, <1>8, <2>1, <3>1, <3>2 DEF Current
  <2> QED BY <1>1, <1>3, <2>1, OrderStep
<1>12. exit' \in Exits /\ (exit' = exit \/ BrokenSocket)
  BY <1>4 DEF CreditInv, Types, Exits, BrokenSocket
<1>13. Types'
  BY <1>2, <1>5, <1>6, <1>8, <1>11, <1>12 DEF CreditInv, Types
<1>14. Batch'
  BY <1>2 DEF Batch
<1>15. ASSUME NEW j \in Ids PROVE Session(j)'
  <2>1. Session(j)
    BY DEF CreditInv
  <2>2. CASE j = i
    <3>1. Unused(i)'
      BY <1>5, <1>9 DEF Unused
    <3> QED BY <1>5, <1>6, <2>2, <3>1 DEF Session
  <2>3. CASE j # i
    <3>1. ~proc[j] => Unused(j)'
      BY <1>5, <1>8, <2>1, <2>3 DEF Session, Unused
    <3>2. phase[j] # "free" /\ ~proc[j] => \E k \in 1..Len(queue') : IsOpen(queue'[k], j)
      <4>1. QueueSame
        BY <1>1 DEF QueueSame, Taken
      <4> QED BY <1>3, <2>1, <4>1, OpenStep DEF Session
    <3> QED BY <1>2, <1>5, <1>6, <2>1, <2>3, <3>1, <3>2 DEF Session, IsOpen
  <2> QED BY <2>2, <2>3
<1>16. ASSUME NEW s \in Role
       PROVE  QueuedBytes("ACK", i, s)' = 0 /\ QueuedBytes("WRITE", i, s)' = 0
  <2>1. \A k \in 1..Len(queue') : queue'[k].id = i => queue'[k].cmd = "RESET"
    BY <1>10
  <2>2. Queued(queue', "ACK", i, s) = 0 /\ Queued(queue', "WRITE", i, s) = 0
    BY <1>11, <2>1, QueuedNone
  <2> QED BY <2>2 DEF QueuedBytes, Queued
<1>17. ASSUME NEW j \in Ids, NEW s \in Role PROVE StreamInv(j, s)'
  <2>1. CASE j = i
    BY <1>2, <1>5, <1>9, <1>16, <2>1, RestInv
  <2>2. CASE j # i
    <3>1. StreamInv(j, s)
      BY DEF CreditInv
    <3>2. pb'[j][s] = pb[j][s] /\ io'[j][s] = io[j][s] /\ proc'[j] = proc[j]
      BY <1>5, <1>8, <2>2
    <3>3. /\ QueuedBytes("ACK", j, s)' = QueuedBytes("ACK", j, s)
          /\ QueuedBytes("WRITE", j, s)' = QueuedBytes("WRITE", j, s)
      BY <1>1
    <3> QED BY <1>2, <3>1, <3>2, <3>3, StreamFrame
  <2> QED BY <2>1, <2>2
<1>18. CreditInv'
  BY <1>11, <1>13, <1>14, <1>15, <1>17 DEF CreditInv
<1>19. \A s \in Role : pb'[i][s].bufcount = 0
  BY <1>5 DEF ClosedBuf
<1> QED BY <1>1, <1>5, <1>8, <1>9, <1>12, <1>16, <1>18, <1>19

LEMMA HungUp ==
    ASSUME CreditInv, exit = "no", events' \subseteq events, Socket \notin events',
           handle_closed_spid_socket
    PROVE  /\ CreditInv' /\ exit' = exit /\ queue' = <<>>
           /\ \A j \in Ids, s \in Role :
                /\ io'[j][s].pipe = <<>> /\ io'[j][s].put = 0 /\ io'[j][s].got = <<>>
                /\ io'[j][s].far /\ pb'[j][s].bufcount = 0 /\ QueuedBytes("WRITE", j, s)' = 0
<1> DEFINE S == {i \in Ids : proc[i]}
<1>1. /\ conn' = FALSE /\ queue' = <<>> /\ close_process(S)
      /\ phase' = [i \in Ids |-> "free"] /\ exits' = [i \in Ids |-> 0]
      /\ io' = [i \in Ids |-> [r \in Role |-> Outside]]
      /\ UNCHANGED <<exit, loop, peer, conns, opens>>
  BY DEF handle_closed_spid_socket, handle_socket_closed, wipe_existing_processes
<1>2. S \in SUBSET Ids
  OBVIOUS
<1>3. /\ sigchld' \in BOOLEAN /\ proc' \in [Ids -> BOOLEAN] /\ pid' \in [Ids -> BOOLEAN]
      /\ child' \in [Ids -> Children] /\ pb' \in [Ids -> [Role -> BufType]]
      /\ \A j \in S : /\ ~proc'[j] /\ ~pid'[j] /\ child'[j] = "none"
                      /\ pb'[j] = [r \in Role |-> ClosedBuf]
      /\ \A j \in Ids \ S : /\ proc'[j] = proc[j] /\ (pid'[j] <=> pid[j])
                            /\ child'[j] = child[j] /\ pb'[j] = pb[j]
  BY <1>1, <1>2, ClosedProcesses
<1>4. ASSUME NEW j \in Ids
      PROVE  /\ ~proc'[j] /\ ~pid'[j] /\ child'[j] = "none" /\ pb'[j] = [r \in Role |-> ClosedBuf]
  <2>1. CASE j \in S
    BY <1>3, <2>1
  <2>2. CASE j \notin S
    <3>1. Unused(j) /\ ~proc[j]
      BY <2>2 DEF CreditInv, Session
    <3> QED BY <1>3, <2>2, <3>1 DEF Unused
  <2> QED BY <2>1, <2>2
<1>5. ASSUME NEW j \in Ids, NEW s \in Role
      PROVE  /\ io'[j][s] = Outside /\ io'[j][s].pipe = <<>> /\ io'[j][s].put = 0
             /\ io'[j][s].got = <<>> /\ io'[j][s].far /\ io'[j][s].window = 0
  BY <1>1, OutsideFields
<1>6. io' \in [Ids -> [Role -> IoType]] /\ phase' \in [Ids -> {"free", "open", "closing"}]
      /\ exits' \in [Ids -> Nat] /\ queue' \in Seq(CommandType)
  BY <1>1, OutsideFields
<1>7. Types'
  BY <1>1, <1>3, <1>6 DEF CreditInv, Types
<1>8. Batch'
  BY DEF Batch
<1>9. InOrder'
  BY <1>1 DEF InOrder, Ordered
<1>10. ASSUME NEW j \in Ids PROVE Session(j)'
  <2>1. Unused(j)'
    BY <1>4, <1>5 DEF Unused
  <2> QED BY <1>1, <1>4, <2>1 DEF Session
<1>11. ASSUME NEW j \in Ids, NEW s \in Role
       PROVE  QueuedBytes("ACK", j, s)' = 0 /\ QueuedBytes("WRITE", j, s)' = 0
  <2>1. \A k \in 1..Len(queue') : FALSE
    BY <1>1
  <2>2. Queued(queue', "ACK", j, s) = 0 /\ Queued(queue', "WRITE", j, s) = 0
    BY <1>6, <2>1, QueuedNone
  <2> QED BY <2>2 DEF QueuedBytes, Queued
<1>12. ASSUME NEW j \in Ids, NEW s \in Role PROVE StreamInv(j, s)'
  BY <1>4, <1>5, <1>11, RestInv
<1>13. CreditInv'
  BY <1>7, <1>8, <1>9, <1>10, <1>12 DEF CreditInv
<1>14. \A j \in Ids, s \in Role : pb'[j][s].bufcount = 0
  BY <1>4 DEF ClosedBuf
<1> QED BY <1>1, <1>5, <1>11, <1>13, <1>14

\* A signal may end a process that has not executed its command, with its pipes.
LEMMA KillCommand ==
    ASSUME CreditInv, NEW m, Taken(m), m.cmd = "KILL", NEW i \in Ids, i = m.id, proc[i], Kill(i),
           UNCHANGED <<exit, proc, pid, pb, phase>>
    PROVE  /\ CreditInv'
           /\ \A j \in Ids, s \in Role :
                /\ io'[j][s].pipe = io[j][s].pipe /\ io'[j][s].put = io[j][s].put
                /\ io'[j][s].got = io[j][s].got
                /\ (io'[j][s].far <=> io[j][s].far) \/ s \in InRoles \/ MayEnd(j, s)
           /\ \A j, s : QueuedBytes("WRITE", j, s)' = QueuedBytes("WRITE", j, s)
<1>1. /\ m \in CommandType /\ Popped /\ Current(m)
      /\ \A j, s : /\ QueuedBytes("WRITE", j, s)' = QueuedBytes("WRITE", j, s)
                   /\ QueuedBytes("ACK", j, s)' = QueuedBytes("ACK", j, s)
  BY TakenBytes
<1>2. /\ UNCHANGED <<conn, loop, peer, exits, exit, proc, pid, pb, phase>>
      /\ exit = "no" /\ events' \subseteq events /\ Socket \notin events'
      /\ QueueSame
  BY <1>1 DEF Taken, QueueSame
<1>3. /\ queue \in Seq(CommandType) /\ InOrder /\ io \in [Ids -> [Role -> IoType]]
      /\ child \in [Ids -> Children] /\ sigchld \in BOOLEAN
  BY DEF CreditInv, Types
<1>4. /\ sigchld' \in BOOLEAN /\ child' \in [Ids -> Children]
      /\ \A j \in Ids : j # i => child'[j] = child[j]
  BY <1>3 DEF Kill, Children
<1>5. \/ io' = io
      \/ /\ io' = [io EXCEPT ![i] = [r \in Role |-> [io[i][r] EXCEPT !.far = FALSE]]]
         /\ MayEnd(i, "ctrl") /\ MayEnd(i, "stdin")
  BY <1>3 DEF Kill
<1>6. ASSUME NEW s \in Role
      PROVE  LET x == [io[i][s] EXCEPT !.far = FALSE]
             IN  /\ x \in IoType /\ x.pipe = io[i][s].pipe /\ x.put = io[i][s].put
                 /\ x.got = io[i][s].got /\ x.window = io[i][s].window
                 /\ (x.asked <=> io[i][s].asked)
  <2>1. PICK y \in IoType : y = io[i][s]
    BY <1>3
  <2>2. /\ [y EXCEPT !.far = FALSE] \in IoType /\ [y EXCEPT !.far = FALSE].pipe = y.pipe
        /\ [y EXCEPT !.far = FALSE].put = y.put /\ [y EXCEPT !.far = FALSE].got = y.got
        /\ [y EXCEPT !.far = FALSE].window = y.window
        /\ ([y EXCEPT !.far = FALSE].asked <=> y.asked)
    BY DEF IoType
  <2> QED BY <2>1, <2>2
<1>7. /\ io' \in [Ids -> [Role -> IoType]] /\ \A j \in Ids : j # i => io'[j] = io[j]
      /\ \A s \in Role : /\ io'[i][s].pipe = io[i][s].pipe /\ io'[i][s].put = io[i][s].put
                         /\ io'[i][s].got = io[i][s].got /\ io'[i][s].window = io[i][s].window
                         /\ (io'[i][s].asked <=> io[i][s].asked)
  <2>1. CASE io' = io
    BY <1>3, <2>1
  <2>2. CASE io' = [io EXCEPT ![i] = [r \in Role |-> [io[i][r] EXCEPT !.far = FALSE]]]
    BY <1>3, <1>6, <2>2
  <2> QED BY <1>5, <2>1, <2>2
<1>8. InOrder' /\ queue' \in Seq(CommandType)
  <2>1. ASSUME NEW c \in CommandType, Current(c) PROVE Current(c)'
    <3>1. c.id \in Ids /\ c.role \in Role
      BY DEF CommandType
    <3> QED BY <1>2, <1>7, <2>1, <3>1 DEF Current
  <2> QED BY <1>1, <1>3, <2>1, OrderStep
<1>9. Types'
  BY <1>2, <1>4, <1>7, <1>8 DEF CreditInv, Types
<1>10. Batch'
  BY <1>2 DEF Batch
<1>11. ASSUME NEW j \in Ids PROVE ProcessKept(j)
  <2>1. Session(j) /\ OpenKept(j)
    BY <1>2, <1>3, OpenStep DEF CreditInv, OpenKept
  <2> QED BY <1>2, <1>4, <1>7, <2>1 DEF ProcessKept, Session
<1>12. ASSUME NEW j \in Ids, NEW s \in Role PROVE StreamKept(j, s)
  <2>1. /\ io'[j][s].window = io[j][s].window /\ (io[j][s].asked => io'[j][s].asked)
        /\ io'[j][s].pipe = io[j][s].pipe
    BY <1>7
  <2>2. Accounts(j, s)' /\ Fresh(j, s)'
    BY <1>1, <1>2, <2>1, AccountsKept, FreshKept
  <2> QED BY <2>1, <2>2 DEF StreamKept, CreditInv, StreamInv, Fits
<1>13. CreditInv'
  BY <1>2, <1>8, <1>9, <1>10, <1>11, <1>12, StillInv
<1>14. \A j \in Ids, s \in Role :
         (io'[j][s].far <=> io[j][s].far) \/ s \in InRoles \/ MayEnd(j, s)
  BY <1>5, <1>7 DEF Role, OutRoles
<1> QED BY <1>1, <1>7, <1>13, <1>14

\* A process that commands are for exists: those for it are between its OPEN and its CLOSE.
LEMMA NoCommandForNobody ==
    ASSUME CreditInv, NEW m, Taken(m), m \in CommandType, Current(m), Popped,
           m.cmd \notin {"RESET", "OPEN"}, NEW i \in Ids, i = m.id
    PROVE  proc[i]
<1>1. SUFFICES ASSUME ~proc[i] PROVE FALSE
  OBVIOUS
<1>2. PICK k \in 1..Len(queue) : IsOpen(queue[k], i)
  BY <1>1 DEF CreditInv, Session, Current
<1>3. k # 1
  BY <1>2 DEF IsOpen, Taken
<1>4. k - 1 \in 1..Len(queue') /\ queue'[k - 1] = queue[k]
  BY <1>3 DEF CreditInv, Types, Popped
<1>5. Before(m, queue'[k - 1])
  BY <1>4, PoppedOrder DEF CreditInv, Types, Taken
<1> QED BY <1>2, <1>4, <1>5 DEF Before, IsOpen

LEMMA CommandInv ==
    ASSUME CreditInv, NEW m, Taken(m), Command(m)
    PROVE  CreditInv'
<1>1. m \in CommandType /\ Current(m) /\ Popped
  BY TakenBytes
<1>2. PICK i \in Ids : i = m.id
  BY <1>1 DEF CommandType
<1>3. PICK r \in Role : r = m.role
  BY <1>1 DEF CommandType
<1>4. CASE m.cmd = "RESET" /\ Exit("reset") /\ UNCHANGED <<proc, pid, phase, child, sigchld>>
  BY <1>4, ResetCommand
<1>5. CASE m.cmd = "OPEN" /\ Open(i) /\ UNCHANGED <<phase, sigchld>>
  BY <1>2, <1>5, OpenCommand
<1>6. CASE m.cmd \notin {"RESET", "OPEN"} /\ ~proc[i]
  BY <1>1, <1>2, <1>6, NoCommandForNobody
<1>7. CASE proc[i] /\ m.cmd = "CLOSE" /\ Close(i)
  BY <1>2, <1>7, CloseCommand
<1>8. CASE proc[i] /\ m.cmd = "KILL" /\ Kill(i) /\ UNCHANGED <<exit, proc, pid, pb, phase>>
  BY <1>2, <1>8, KillCommand
<1>9. CASE /\ proc[i] /\ m.cmd = "WRITE" /\ pipebuf_out_to_internal_buffer(i, r, m.from, m.n)
           /\ UNCHANGED <<proc, pid, phase, child, sigchld>>
  BY <1>2, <1>3, <1>9, WriteCommand, StreamStepInv
<1>10. CASE /\ proc[i] /\ m.cmd = "ACK" /\ pipebuf_in_ack(i, r, m.n)
            /\ UNCHANGED <<proc, pid, phase, child, sigchld>>
  BY <1>2, <1>3, <1>10, AckCommand, StreamStepInv
<1>11. CASE /\ proc[i] /\ m.cmd = "CLOSE_STREAM"
            /\ ToHost(i, r, pipebuf_common_close(pb[i][r], FLUSH), io[i][r], <<>>)
            /\ UNCHANGED <<proc, pid, phase, child, sigchld>>
  BY <1>2, <1>3, <1>11, CloseStreamCommand, StreamStepInv
<1> QED BY <1>2, <1>3, <1>4, <1>5, <1>6, <1>7, <1>8, <1>9, <1>10, <1>11 DEF Command

LEMMA HandleInv ==
    ASSUME CreditInv, PromptReader, NEW e \in events, Handle(e)
    PROVE  CreditInv'
<1>1. exit = "no" /\ events' = events \ {e} /\ events' \subseteq events
  BY DEF Handle
<1>2. CASE e = Listener /\ handle_incoming_spid_socket
           /\ UNCHANGED <<exit, loop, proc, pid, pb, hostVars, child, sigchld, io>>
  BY <1>1, <1>2, ListenerInv DEF handle_incoming_spid_socket
<1>3. CASE e = Hangup /\ handle_closed_spid_socket
  <2>1. Socket \notin events'
    BY <1>1, <1>3 DEF CreditInv, Batch
  <2> QED BY <1>1, <1>3, <2>1, HungUp
<1>4. CASE e = Socket /\ handle_socket_readable
  <2> DEFINE m == Head(queue)
  <2>1. queue # <<>> /\ Socket \notin events'
    BY <1>1, <1>4 DEF CreditInv, Batch
  <2>2. CASE /\ m.part = "all" /\ Command(m) /\ queue' = Tail(queue)
             /\ UNCHANGED <<conn, loop, peer, conns, opens, exits>>
    <3>1. Taken(m)
      BY <1>1, <1>4, <2>1, <2>2 DEF Taken
    <3> QED BY <2>2, <3>1, CommandInv
  <2>3. CASE Exit("cut") /\ UNCHANGED <<conn, loop, proc, pid, hostVars, child, sigchld>>
    <3>1. "cut" \in Exits
      BY DEF Exits
    <3> QED BY <1>1, <2>3, <3>1, ExitInv
  <2>4. CASE handle_closed_spid_socket
    BY <1>1, <2>1, <2>4, HungUp
  <2> QED BY <1>4, <2>2, <2>3, <2>4 DEF handle_socket_readable
<1>5. CASE e = Signal /\ handle_sigchld
  BY <1>1, <1>5, SignalInv
<1>6. CASE Exit("stale_event") /\ UNCHANGED <<conn, loop, proc, pid, hostVars, child, sigchld>>
  <2>1. "stale_event" \in Exits
    BY DEF Exits
  <2> QED BY <1>1, <1>6, <2>1, ExitInv
<1>7. ASSUME e \in Ids \X Role, ~Stale(e), e[2] \in InRoles,
             pipebuf_in_to_internal_buffer(e[1], e[2]), UNCHANGED loop,
             UNCHANGED <<conn, proc, pid, hostVars, child, sigchld>>
      PROVE  CreditInv'
  <2>1. PICK i \in Ids, r \in InRoles : e = <<i, r>> /\ e[1] = i /\ e[2] = r
    BY <1>7
  <2>2. r \in Role
    BY DEF Role
  <2>3. StreamStep(i, r) /\ StreamInv(i, r)'
    BY <1>1, <1>7, <2>1, InEvent
  <2> QED BY <2>2, <2>3, StreamStepInv
<1>8. ASSUME e \in Ids \X Role, ~Stale(e), e[2] \notin InRoles,
             pipebuf_out_is_writable(e[1], e[2]),
             UNCHANGED <<conn, proc, pid, hostVars, child, sigchld>>
      PROVE  CreditInv'
  <2>1. PICK i \in Ids, r \in OutRoles : e = <<i, r>> /\ e[1] = i /\ e[2] = r
    BY <1>8 DEF Role
  <2>2. r \in Role
    BY DEF Role
  <2>3. StreamStep(i, r) /\ StreamInv(i, r)'
    BY <1>1, <1>8, <2>1, OutEvent
  <2> QED BY <2>2, <2>3, StreamStepInv
<1> QED BY <1>2, <1>3, <1>4, <1>5, <1>6, <1>7, <1>8 DEF Handle

LEMMA CreditNext ==
    ASSUME CreditInv, PromptReader, [Next]_vars
    PROVE  CreditInv'
<1>1. CASE UNCHANGED vars
  <2>1. /\ UNCHANGED <<exit, conn, events, loop, proc, pid, pb, peer, queue, phase, exits, child,
                       sigchld, io>>
    BY <1>1 DEF vars, daemonVars, hostVars
  <2>2. ASSUME NEW cmd, NEW j, NEW s PROVE QueuedBytes(cmd, j, s)' = QueuedBytes(cmd, j, s)
    BY <2>1, SameBytes
  <2>3. Types' /\ Batch' /\ \A j \in Ids : Session(j)'
    BY <2>1 DEF CreditInv, Types, Batch, Session, Unused, IsOpen
  <2>4. InOrder'
    BY <2>1 DEF CreditInv, InOrder, Ordered, Before, Current
  <2>5. \A j \in Ids, s \in Role : StreamInv(j, s)'
    <3>1. ASSUME NEW j \in Ids, NEW s \in Role PROVE StreamInv(j, s)'
      <4>1. StreamInv(j, s)
        BY DEF CreditInv
      <4>2. Accounts(j, s)'
        BY <2>1, <2>2, <4>1 DEF StreamInv, Accounts
      <4>3. Polled(j, s)'
        BY <2>1, <4>1 DEF StreamInv, Polled
      <4>4. Fresh(j, s)'
        BY <2>1, <4>1 DEF StreamInv, Fresh
      <4>5. Fits(j, s)'
        BY <2>1, <4>1 DEF StreamInv, Fits
      <4> QED BY <4>2, <4>3, <4>4, <4>5 DEF StreamInv
    <3> QED BY <3>1
  <2> QED BY <2>3, <2>4, <2>5 DEF CreditInv
<1>2. CASE Next
  <2>1. exit = "no" /\ loop = NoLoop
    BY <1>2 DEF Next, CreditInv, Types
  <2>2. CASE Daemon
    BY <2>1, <2>2, WaitInv, HandleInv DEF Daemon, HandleEvent, WriteLoop
  <2>3. CASE Host
    BY <2>1, <2>3, HostInv
  <2>4. CASE \E i \in Ids : Process(i)
    BY <2>1, <2>4, ProcessInv
  <2> QED BY <1>2, <2>2, <2>3, <2>4 DEF Next
<1> QED BY <1>1, <1>2

LEMMA CreditInit == Init => CreditInv
<1> SUFFICES ASSUME Init PROVE CreditInv
  OBVIOUS
<1>1. \A i \in Ids, r \in Role : pb[i][r] = ClosedBuf /\ io[i][r] = Outside
  BY DEF Init
<1>2. Types
  <2>1. pb \in [Ids -> [Role -> BufType]] /\ io \in [Ids -> [Role -> IoType]]
    BY ClosedBufType, OutsideType DEF Init
  <2>2. queue \in Seq(CommandType) /\ events \subseteq {Listener, Socket, Hangup, Signal} \cup Streams
    BY DEF Init
  <2>3. /\ exit \in Exits /\ conn \in BOOLEAN /\ peer \in BOOLEAN /\ sigchld \in BOOLEAN
        /\ loop = NoLoop
    BY DEF Init, Exits
  <2>4. /\ proc \in [Ids -> BOOLEAN] /\ pid \in [Ids -> BOOLEAN] /\ child \in [Ids -> Children]
        /\ phase \in [Ids -> {"free", "open", "closing"}] /\ exits \in [Ids -> Nat]
    BY DEF Init, Children
  <2> QED BY <2>1, <2>2, <2>3, <2>4 DEF Types
<1>3. Batch
  BY DEF Init, Batch
<1>4. InOrder
  BY DEF Init, InOrder, Ordered
<1>5. ASSUME NEW i \in Ids PROVE Session(i)
  <2>1. Unused(i)
    BY OutsideFields DEF Init, Unused
  <2> QED BY <2>1 DEF Init, Session
<1>6. ASSUME NEW i \in Ids, NEW r \in Role PROVE StreamInv(i, r)
  <2>1. /\ ~ClosedBuf.fd /\ ~ClosedBuf.eof /\ ClosedBuf.polled = 0 /\ ClosedBuf.bufcount = 0
        /\ ClosedBuf.credit = 0
    BY DEF ClosedBuf
  <2>2. PIPE_CAP \in Nat /\ SIZE \in Nat \ {0} /\ Len(<<>>) = 0
    BY ExecAssumption
  <2>3. QueuedBytes("ACK", i, r) = 0 /\ QueuedBytes("WRITE", i, r) = 0
    <3>1. queue \in Seq(CommandType) /\ \A k \in 1..Len(queue) : FALSE
      BY DEF Init
    <3> QED BY <3>1, QueuedNone, QueuedIs
  <2>4. Accounts(i, r)
    BY <1>1, <2>1, <2>3, OutsideFields DEF Accounts, Init
  <2>5. Polled(i, r)
    BY <1>1, <2>1, <2>2 DEF Polled, Init
  <2>6. Fresh(i, r)
    BY DEF Fresh, Init
  <2>7. Fits(i, r)
    BY <1>1, <2>2, OutsideFields DEF Fits
  <2> QED BY <2>4, <2>5, <2>6, <2>7 DEF StreamInv
<1> QED BY <1>2, <1>3, <1>4, <1>5, <1>6 DEF CreditInv

\* The invariant, when processes leave their pipes room (usbexecd.c:640-679: every write to
\* a process succeeds at once).
THEOREM ExecInductive == PromptReader => (Spec => []CreditInv)
<1> SUFFICES ASSUME PromptReader PROVE Spec => []CreditInv
  OBVIOUS
<1>1. CreditInv /\ [Next]_vars => CreditInv'
  BY CreditNext
<1> QED BY <1>1, CreditInit, PTL DEF Spec

\* Every variable stays in range, for any number of processes, sizes of ring and pipe, and
\* any order of events: no ring is overrun or read when empty, and no credit becomes negative
\* (usbexecd.c:401-686).
THEOREM ExecTypeCorrect == PromptReader => (Spec => []TypeOK)
<1>1. CreditInv => TypeOK
  BY DEF CreditInv, Types, TypeOK, Exits, Children, StreamInv, Fits, BufType, IoType
<1> QED BY <1>1, ExecInductive, PTL

\* Credit is neither lost nor made (usbexecd.c:434, 468, 579-581, 655, 694).
THEOREM CreditsKept == PromptReader => (Spec => []CreditsAgree)
<1>1. CreditInv => CreditsAgree
  BY DEF CreditInv, StreamInv, Accounts, CreditsAgree, Role, InRoles, OutRoles
<1> QED BY <1>1, ExecInductive, PTL

---------------------------------------------------------------------------
(* How the daemon exits.                                                   *)

LEMMA CommandExits ==
    ASSUME CreditInv, NEW m, Taken(m), Command(m)
    PROVE  exit' \in {exit, "reset"} \/ BrokenSocket
<1>1. m \in CommandType /\ Current(m) /\ Popped
  BY TakenBytes
<1>2. PICK i \in Ids : i = m.id
  BY <1>1 DEF CommandType
<1>3. PICK r \in Role : r = m.role
  BY <1>1 DEF CommandType
<1>4. CASE m.cmd = "RESET" /\ Exit("reset") /\ UNCHANGED <<proc, pid, phase, child, sigchld>>
  BY <1>4 DEF Exit
<1>5. CASE m.cmd = "OPEN" /\ Open(i) /\ UNCHANGED <<phase, sigchld>>
  BY <1>2, <1>5, OpenCommand
<1>6. CASE m.cmd \notin {"RESET", "OPEN"} /\ ~proc[i]
  BY <1>1, <1>2, <1>6, NoCommandForNobody
<1>7. CASE proc[i] /\ m.cmd = "CLOSE" /\ Close(i)
  BY <1>2, <1>7, CloseCommand
<1>8. CASE proc[i] /\ m.cmd = "KILL" /\ Kill(i) /\ UNCHANGED <<exit, proc, pid, pb, phase>>
  BY <1>8
<1>9. CASE /\ proc[i] /\ m.cmd = "WRITE" /\ pipebuf_out_to_internal_buffer(i, r, m.from, m.n)
           /\ UNCHANGED <<proc, pid, phase, child, sigchld>>
  BY <1>2, <1>3, <1>9, WriteCommand
<1>10. CASE /\ proc[i] /\ m.cmd = "ACK" /\ pipebuf_in_ack(i, r, m.n)
            /\ UNCHANGED <<proc, pid, phase, child, sigchld>>
  BY <1>2, <1>3, <1>10, AckCommand
<1>11. CASE /\ proc[i] /\ m.cmd = "CLOSE_STREAM"
            /\ ToHost(i, r, pipebuf_common_close(pb[i][r], FLUSH), io[i][r], <<>>)
            /\ UNCHANGED <<proc, pid, phase, child, sigchld>>
  BY <1>2, <1>3, <1>11, CloseStreamCommand
<1> QED BY <1>2, <1>3, <1>4, <1>5, <1>6, <1>7, <1>8, <1>9, <1>10, <1>11 DEF Command

\* What ExitsExplained says of one step.
Explained ==
    exit' # exit =>
        \/ exit' \in {"reset", "stale_event"}
        \/ exit' = "sigpipe" /\ (~peer \/ Orphaned)
        \/ exit' = "cut" /\ ~peer

LEMMA HandleExits ==
    ASSUME CreditInv, Whole, PromptReader, NEW e \in events, Handle(e)
    PROVE  Explained
<1>1. exit = "no" /\ events' = events \ {e}
  BY DEF Handle
<1>2. CASE e = Listener /\ UNCHANGED <<exit, loop, proc, pid, pb, hostVars, child, sigchld, io>>
  BY <1>2 DEF Explained
<1>3. CASE handle_closed_spid_socket
  BY <1>3 DEF handle_closed_spid_socket, Explained
<1>4. CASE e = Socket /\ handle_socket_readable
  <2> DEFINE m == Head(queue)
  <2>1. queue # <<>> /\ queue \in Seq(CommandType)
    BY <1>1, <1>4 DEF CreditInv, Batch, Types
  <2>2. CASE /\ m.part = "all" /\ Command(m) /\ queue' = Tail(queue)
             /\ UNCHANGED <<conn, loop, peer, conns, opens, exits>>
    <3>1. Taken(m)
      BY <1>1, <1>4, <2>1, <2>2 DEF Taken
    <3>2. exit' \in {exit, "reset"} \/ BrokenSocket
      BY <2>2, <3>1, CommandExits
    <3> QED BY <3>2 DEF BrokenSocket, Explained
  <2>3. CASE m.part = "header" /\ Exit("cut")
    <3>1. m = queue[1] /\ 1 \in 1..Len(queue)
      BY <2>1
    <3>2. ~peer
      BY <2>3, <3>1 DEF Whole
    <3> QED BY <2>3, <3>2 DEF Exit, Explained
  <2>4. CASE handle_closed_spid_socket
    BY <1>3, <2>4
  <2> QED BY <1>4, <2>2, <2>3, <2>4 DEF handle_socket_readable
<1>5. CASE handle_sigchld
  BY <1>5 DEF handle_sigchld, Explained
<1>6. CASE Exit("stale_event")
  BY <1>6 DEF Exit, Explained
<1>7. ASSUME e \in Ids \X Role, ~Stale(e), e[2] \in InRoles,
             pipebuf_in_to_internal_buffer(e[1], e[2]), UNCHANGED loop,
             UNCHANGED <<conn, proc, pid, hostVars, child, sigchld>>
      PROVE  Explained
  <2>1. PICK i \in Ids, r \in InRoles : e = <<i, r>> /\ e[1] = i /\ e[2] = r
    BY <1>7
  <2>2. exit' = exit \/ BrokenSocket
    BY <1>1, <1>7, <2>1, InEvent
  <2> QED BY <2>2 DEF BrokenSocket, Explained
<1>8. ASSUME e \in Ids \X Role, ~Stale(e), e[2] \notin InRoles,
             pipebuf_out_is_writable(e[1], e[2]),
             UNCHANGED <<conn, proc, pid, hostVars, child, sigchld>>
      PROVE  Explained
  <2>1. PICK i \in Ids, r \in OutRoles : e = <<i, r>> /\ e[1] = i /\ e[2] = r
    BY <1>8 DEF Role
  <2>2. exit' = exit \/ BrokenSocket \/ BrokenPipe(i, r)
    BY <1>1, <1>8, <2>1, OutEvent
  <2> QED BY <2>2 DEF BrokenSocket, BrokenPipe, Orphaned, Explained
<1> QED BY <1>2, <1>3, <1>4, <1>5, <1>6, <1>7, <1>8 DEF Handle

\* The host lets the daemon alone; it connects, hangs up, or gives a command.
LEMMA HostStep ==
    ASSUME CreditInv, Host
    PROVE  /\ UNCHANGED daemonVars
           /\ \/ ~peer /\ ~conn /\ queue' = queue
              \/ conn /\ ~peer'
              \/ /\ peer /\ peer' = peer
                 /\ \E m \in CommandType : m.part = "all" /\ queue' = Append(queue, m)
<1>1. CASE HostConnect
  BY <1>1 DEF HostConnect
<1>2. CASE HostHangup
  BY <1>2 DEF HostHangup
<1>3. ASSUME NEW cmd \in Commands, NEW i \in Ids, NEW r \in Role, NEW n \in Nat, Send(cmd, i, r, n)
      PROVE  /\ UNCHANGED daemonVars /\ peer /\ peer' = peer
             /\ \E m \in CommandType : m.part = "all" /\ queue' = Append(queue, m)
  <2>1. Order(cmd, i, r, n) \in CommandType /\ Order(cmd, i, r, n).part = "all"
    BY OrderType DEF Order
  <2> QED BY <1>3, <2>1 DEF Send, Order
<1>4. /\ "ctrl" \in Role /\ {"RESET", "KILL", "CLOSE", "CLOSE_STREAM", "WRITE", "ACK"} \subseteq Commands
      /\ InRoles \subseteq Role /\ OutRoles \subseteq Role /\ Lens \subseteq Nat
  BY ExecAssumption DEF Role, InRoles, OutRoles, Commands
<1>5. CASE HostReset
  BY <1>3, <1>4, <1>5 DEF HostReset
<1>6. ASSUME NEW i \in Ids, HostOpen(i)
      PROVE  /\ UNCHANGED daemonVars /\ peer /\ peer' = peer
             /\ \E m \in CommandType : m.part = "all" /\ queue' = Append(queue, m)
  <2>1. [cmd |-> "OPEN", id |-> i, role |-> "ctrl", n |-> 0, from |-> 0, part |-> "all"]
            \in CommandType
    BY DEF CommandType, Commands, Role, OutRoles
  <2> QED BY <1>6, <2>1 DEF HostOpen
<1>7. ASSUME NEW i \in Ids, HostKill(i) PROVE Send("KILL", i, "ctrl", 0)
  BY <1>7 DEF HostKill
<1>8. ASSUME NEW i \in Ids, HostClose(i) PROVE Send("CLOSE", i, "ctrl", 0)
  BY <1>8 DEF HostClose
<1>9. ASSUME NEW i \in Ids, NEW r \in Role, HostCloseStream(i, r) PROVE Send("CLOSE_STREAM", i, r, 0)
  BY <1>9 DEF HostCloseStream
<1>10. ASSUME NEW i \in Ids, NEW r \in OutRoles, NEW n \in Lens, HostWrite(i, r, n)
       PROVE  Send("WRITE", i, r, n)
  BY <1>10 DEF HostWrite
<1>11. ASSUME NEW i \in Ids, NEW r \in InRoles, NEW n \in Lens, HostAck(i, r, n)
       PROVE  Send("ACK", i, r, n)
  BY <1>11 DEF HostAck
<1>12. CASE \E i \in Ids : \/ HostKill(i) \/ HostClose(i) \/ \E r \in Role : HostCloseStream(i, r)
  <2>1. \E i \in Ids : \/ Send("KILL", i, "ctrl", 0) \/ Send("CLOSE", i, "ctrl", 0)
                       \/ \E r \in Role : Send("CLOSE_STREAM", i, r, 0)
    BY <1>7, <1>8, <1>9, <1>12
  <2> QED BY <1>3, <1>4, <2>1
<1>13. CASE \E i \in Ids : \/ \E r \in OutRoles, n \in Lens : HostWrite(i, r, n)
                          \/ \E r \in InRoles, n \in Lens : HostAck(i, r, n)
  <2>1. \E i \in Ids : \/ \E r \in OutRoles, n \in Lens : Send("WRITE", i, r, n)
                       \/ \E r \in InRoles, n \in Lens : Send("ACK", i, r, n)
    BY <1>10, <1>11, <1>13
  <2> QED BY <1>3, <1>4, <2>1
<1> QED BY <1>1, <1>2, <1>5, <1>6, <1>12, <1>13 DEF Host

LEMMA NextExits ==
    ASSUME CreditInv, Whole, PromptReader, [Next]_vars
    PROVE  Explained
<1>1. CASE UNCHANGED vars
  BY <1>1 DEF vars, daemonVars, Explained
<1>2. CASE epoll_wait
  BY <1>2 DEF epoll_wait, Explained
<1>3. CASE WriteLoop
  BY <1>3 DEF WriteLoop, CreditInv, Types
<1>4. CASE HandleEvent
  BY <1>4, HandleExits DEF HandleEvent
<1>5. CASE Host
  BY <1>5, HostStep DEF daemonVars, Explained
<1>6. CASE \E i \in Ids : Process(i)
  <2>1. UNCHANGED daemonVars
    BY <1>6 DEF Process, ChildExec, ChildExit, ChildCloseEnd, ChildRead, ChildWrite
  <2> QED BY <2>1 DEF daemonVars, Explained
<1> QED BY <1>1, <1>2, <1>3, <1>4, <1>5, <1>6 DEF Next, Daemon

\* The queue of a host that is there loses its first command, is emptied, or gets another.
LEMMA WholeKept ==
    ASSUME queue \in Seq(CommandType), Whole, peer' = peer, conn' = conn,
           \/ queue' \in {queue, <<>>}
           \/ queue # <<>> /\ queue' = Tail(queue)
           \/ peer /\ \E m \in CommandType : m.part = "all" /\ queue' = Append(queue, m)
    PROVE  Whole'
<1>1. CASE queue' \in {queue, <<>>}
  BY <1>1 DEF Whole
<1>2. CASE queue # <<>> /\ queue' = Tail(queue)
  <2>1. \A k \in 1..Len(queue') : queue'[k] = queue[k + 1] /\ k + 1 \in 1..Len(queue)
    BY <1>2
  <2>2. ~(~peer /\ ~conn)
    BY <1>2 DEF Whole
  <2> QED BY <2>1, <2>2 DEF Whole
<1>3. CASE peer /\ \E m \in CommandType : m.part = "all" /\ queue' = Append(queue, m)
  <2>1. PICK m \in CommandType : m.part = "all" /\ queue' = Append(queue, m)
    BY <1>3
  <2>2. \A k \in 1..Len(queue') : queue'[k] = m \/ (k \in 1..Len(queue) /\ queue'[k] = queue[k])
    BY <2>1
  <2> QED BY <1>3, <2>1, <2>2 DEF Whole
<1> QED BY <1>1, <1>2, <1>3

LEMMA WholeHandle ==
    ASSUME CreditInv, Whole, NEW e \in events, Handle(e)
    PROVE  Whole'
<1>1. queue \in Seq(CommandType)
  BY DEF CreditInv, Types
<1>2. CASE e = Listener /\ handle_incoming_spid_socket
           /\ UNCHANGED <<exit, loop, proc, pid, pb, hostVars, child, sigchld, io>>
  BY <1>2 DEF handle_incoming_spid_socket, hostVars, Whole
<1>3. CASE handle_closed_spid_socket
  BY <1>3 DEF handle_closed_spid_socket, handle_socket_closed, Whole
<1>4. CASE e = Socket /\ handle_socket_readable
  <2>1. queue # <<>>
    BY <1>4 DEF CreditInv, Batch
  <2>2. CASE queue' = Tail(queue) /\ UNCHANGED <<conn, loop, peer, conns, opens, exits>>
    BY <1>1, <2>1, <2>2, WholeKept
  <2>3. CASE UNCHANGED <<conn, loop, proc, pid, hostVars, child, sigchld>>
    BY <1>1, <2>3, WholeKept DEF hostVars
  <2> QED BY <1>3, <1>4, <2>2, <2>3 DEF handle_socket_readable
<1>5. CASE handle_sigchld
  BY <1>1, <1>5, WholeKept DEF handle_sigchld
<1>6. CASE UNCHANGED <<conn, hostVars>>
  BY <1>1, <1>6, WholeKept DEF hostVars
<1> QED BY <1>2, <1>3, <1>4, <1>5, <1>6 DEF Handle

LEMMA WholeNext ==
    ASSUME CreditInv, Whole, [Next]_vars
    PROVE  Whole'
<1>1. queue \in Seq(CommandType)
  BY DEF CreditInv, Types
<1>2. CASE UNCHANGED vars
  BY <1>1, <1>2, WholeKept DEF vars, daemonVars, hostVars
<1>3. CASE epoll_wait
  BY <1>1, <1>3, WholeKept DEF epoll_wait, hostVars
<1>4. CASE WriteLoop
  BY <1>4 DEF WriteLoop, CreditInv, Types
<1>5. CASE HandleEvent
  BY <1>5, WholeHandle DEF HandleEvent
<1>6. CASE Host
  <2>1. conn' = conn
    BY <1>6, HostStep DEF daemonVars
  <2>2. CASE ~peer /\ ~conn /\ queue' = queue
    BY <2>2 DEF Whole
  <2>3. CASE conn /\ ~peer'
    BY <2>1, <2>3 DEF Whole
  <2>4. CASE /\ peer /\ peer' = peer
             /\ \E m \in CommandType : m.part = "all" /\ queue' = Append(queue, m)
    BY <1>1, <2>1, <2>4, WholeKept
  <2> QED BY <1>6, <2>2, <2>3, <2>4, HostStep
<1>7. CASE \E i \in Ids : Process(i)
  <2>1. UNCHANGED <<daemonVars, hostVars>>
    BY <1>7 DEF Process, ChildExec, ChildExit, ChildCloseEnd, ChildRead, ChildWrite
  <2> QED BY <1>1, <2>1, WholeKept DEF daemonVars, hostVars
<1> QED BY <1>2, <1>3, <1>4, <1>5, <1>6, <1>7 DEF Next, Daemon

\* In whatever order events, commands, hangups and the ends of streams come, for any number
\* of processes and any sizes: the daemon exits only when reset, by an event of a stream
\* closed earlier in the batch, by SIGPIPE when the host or the reader of held data is gone,
\* and by a header cut short by a host that went away (usbexecd.c:261, 287-315, 602, 748,
\* 762, 777).
THEOREM OnlyTheseExits == PromptReader => (Spec => ExitsExplained)
<1> SUFFICES ASSUME PromptReader PROVE Spec => ExitsExplained
  OBVIOUS
<1>1. Init => Whole
  BY DEF Init, Whole
<1>2. CreditInv /\ Whole /\ [Next]_vars => Whole'
  BY WholeNext
<1>3. CreditInv /\ Whole /\ [Next]_vars =>
        [exit' # exit =>
           \/ exit' \in {"reset", "stale_event"}
           \/ exit' = "sigpipe" /\ (~peer \/ Orphaned)
           \/ exit' = "cut" /\ ~peer]_vars
  BY NextExits DEF Explained
<1> QED BY <1>1, <1>2, <1>3, ExecInductive, PTL DEF Spec, ExitsExplained

---------------------------------------------------------------------------
(* Without races.                                                          *)

LEMMA CalmIsPrompt == Calm => PromptReader
BY DEF Calm, PromptReader

LEMMA PeaceKept ==
    ASSUME Peaceful, events' \subseteq events, conn' = conn, peer' = peer,
           exit' \in {"no", "reset"}, exit = "no",
           \A k \in 1..Len(queue') : queue'[k].part = "all",
           \A e \in events' \cap Streams : pb'[e[1]][e[2]].polled = 1
    PROVE  Peaceful'
BY DEF Peaceful

\* Events of streams and commands come on a connection to a host that is there.
LEMMA PeerThere ==
    ASSUME Peaceful, NEW e \in events, e \notin {Listener, Hangup, Signal}
    PROVE  conn /\ peer
BY DEF Peaceful

LEMMA PartsKept ==
    ASSUME CreditInv, Peaceful, queue' = queue \/ Popped
    PROVE  \A k \in 1..Len(queue') : queue'[k].part = "all"
<1>1. queue \in Seq(CommandType) /\ InOrder
  BY DEF CreditInv, Types
<1>2. CASE queue' = queue
  BY <1>2 DEF Peaceful
<1>3. CASE Popped
  BY <1>1, <1>3, PoppedOrder DEF Peaceful
<1> QED BY <1>2, <1>3

LEMMA LengthsType ==
    ASSUME NEW x \in IoType
    PROVE  Len(x.got) \in Nat /\ Len(x.pipe) \in Nat /\ x.put \in Nat
<1>1. x.got \in Seq(Nat) /\ x.pipe \in Seq(Nat) /\ x.put \in Nat
  BY DEF IoType
<1> QED BY <1>1

LEMMA WayTypes ==
    ASSUME CreditInv, NEW j \in Ids, NEW s \in Role
    PROVE  /\ Len(io[j][s].got) \in Nat /\ Len(io[j][s].pipe) \in Nat /\ pb[j][s].bufcount \in Nat
           /\ QueuedBytes("WRITE", j, s) \in Nat /\ io[j][s].put \in Nat
<1>1. io[j][s] \in IoType /\ pb[j][s] \in BufType /\ queue \in Seq(CommandType)
  BY DEF CreditInv, Types
<1>2. SIZE \in Nat
  BY ExecAssumption
<1>3. Len(io[j][s].got) \in Nat /\ Len(io[j][s].pipe) \in Nat /\ io[j][s].put \in Nat
  BY <1>1, LengthsType
<1>4. pb[j][s].bufcount \in Nat
  BY <1>1, <1>2 DEF BufType
<1> QED BY <1>1, <1>3, <1>4, BytesNat

LEMMA WayKept ==
    ASSUME NEW j, NEW s, OnItsWay(j, s),
           io'[j][s].pipe = io[j][s].pipe, io'[j][s].put = io[j][s].put,
           io'[j][s].got = io[j][s].got, io'[j][s].far <=> io[j][s].far,
           pb'[j][s].bufcount = pb[j][s].bufcount,
           QueuedBytes("WRITE", j, s)' = QueuedBytes("WRITE", j, s)
    PROVE  OnItsWay(j, s)'
BY DEF OnItsWay

LEMMA WayMoved ==
    ASSUME CreditInv, CreditInv', NEW j \in Ids, NEW s \in Role, OnItsWay(j, s), Conserved(j, s)
    PROVE  OnItsWay(j, s)'
<1>1. /\ Len(io[j][s].got) \in Nat /\ Len(io[j][s].pipe) \in Nat /\ pb[j][s].bufcount \in Nat
      /\ QueuedBytes("WRITE", j, s) \in Nat /\ io[j][s].put \in Nat
  BY WayTypes
<1>2. /\ Len(io'[j][s].got) \in Nat /\ Len(io'[j][s].pipe) \in Nat /\ pb'[j][s].bufcount \in Nat
      /\ QueuedBytes("WRITE", j, s)' \in Nat /\ io'[j][s].put \in Nat
  <2>1. io'[j][s] \in IoType /\ pb'[j][s] \in BufType /\ queue' \in Seq(CommandType)
    BY DEF CreditInv, Types
  <2>2. SIZE \in Nat
    BY ExecAssumption
  <2>3. Len(io'[j][s].got) \in Nat /\ Len(io'[j][s].pipe) \in Nat /\ io'[j][s].put \in Nat
    BY <2>1, LengthsType
  <2>4. pb'[j][s].bufcount \in Nat
    BY <2>1, <2>2 DEF BufType
  <2>5. Queued(queue', "WRITE", j, s) \in Nat
    BY <2>1, QueuedType
  <2> QED BY <2>3, <2>4, <2>5 DEF QueuedBytes, Queued
<1>3. /\ io[j][s].put = Len(io[j][s].got) + Len(io[j][s].pipe) + pb[j][s].bufcount
                            + QueuedBytes("WRITE", j, s)
      /\ io'[j][s].put = io[j][s].put /\ Len(io'[j][s].got) = Len(io[j][s].got)
      /\ Len(io'[j][s].pipe) + pb'[j][s].bufcount + QueuedBytes("WRITE", j, s)' =
             Len(io[j][s].pipe) + pb[j][s].bufcount + QueuedBytes("WRITE", j, s)
  BY DEF OnItsWay, Conserved
<1>4. io'[j][s].put = Len(io'[j][s].got) + Len(io'[j][s].pipe) + pb'[j][s].bufcount
                          + QueuedBytes("WRITE", j, s)'
  <2>1. PICK g \in Nat : g = Len(io[j][s].got)
    BY <1>1
  <2>2. PICK l \in Nat : l = Len(io[j][s].pipe)
    BY <1>1
  <2>3. PICK l1 \in Nat : l1 = Len(io'[j][s].pipe)
    BY <1>2
  <2>4. PICK c \in Nat : c = pb[j][s].bufcount
    BY <1>1
  <2>5. PICK c1 \in Nat : c1 = pb'[j][s].bufcount
    BY <1>2
  <2>6. PICK q \in Nat : q = QueuedBytes("WRITE", j, s)
    BY <1>1
  <2>7. PICK q1 \in Nat : q1 = QueuedBytes("WRITE", j, s)'
    BY <1>2
  <2>8. io'[j][s].put = g + l + c + q /\ Len(io'[j][s].got) = g /\ l1 + c1 + q1 = l + c + q
    BY <1>3, <2>1, <2>2, <2>3, <2>4, <2>5, <2>6, <2>7
  <2>9. g + l1 + c1 + q1 = g + l + c + q
    BY <2>8
  <2> QED BY <2>3, <2>5, <2>7, <2>8, <2>9
<1>5. io'[j][s].far \/ io'[j][s].put = Len(io'[j][s].got)
  BY DEF OnItsWay, Conserved
<1> QED BY <1>4, <1>5 DEF OnItsWay

LEMMA WayEmpty ==
    ASSUME NEW j, NEW s, io'[j][s].pipe = <<>>, io'[j][s].put = 0, io'[j][s].got = <<>>,
           io'[j][s].far, pb'[j][s].bufcount = 0, QueuedBytes("WRITE", j, s)' = 0
    PROVE  OnItsWay(j, s)'
<1>1. Len(<<>>) = 0
  OBVIOUS
<1> QED BY <1>1 DEF OnItsWay

\* A handler of one stream.
LEMMA CalmStream ==
    ASSUME CreditInv, CreditInv', CalmInv, NEW i \in Ids, NEW r \in Role, StreamStep(i, r),
           exit' = exit, <<i, r>> \in events' => pb'[i][r].polled = 1,
           r \in OutRoles => Conserved(i, r)
    PROVE  CalmInv'
<1>1. Peaceful /\ \A j \in Ids, s \in OutRoles : OnItsWay(j, s)
  BY DEF CalmInv
<1>2. /\ events' \subseteq events /\ conn' = conn /\ peer' = peer /\ exit = "no"
      /\ queue' = queue \/ Popped
      /\ OthersKept(i, r)
  BY DEF StreamStep, QueueSame
<1>3. ASSUME NEW e \in events' \cap Streams PROVE pb'[e[1]][e[2]].polled = 1
  <2>1. PICK j \in Ids, s \in Role : e = <<j, s>> /\ e[1] = j /\ e[2] = s
    BY DEF Streams
  <2>2. CASE j = i /\ s = r
    BY <2>1, <2>2
  <2>3. CASE j # i \/ s # r
    <3>1. pb[j][s].polled = 1
      BY <1>1, <1>2, <2>1 DEF Peaceful
    <3> QED BY <1>2, <2>1, <2>3, <3>1 DEF OthersKept
  <2> QED BY <2>2, <2>3
<1>4. Peaceful'
  BY <1>1, <1>2, <1>3, PartsKept, PeaceKept
<1>5. ASSUME NEW j \in Ids, NEW s \in OutRoles PROVE OnItsWay(j, s)'
  <2>1. s \in Role /\ OnItsWay(j, s)
    BY <1>1 DEF Role
  <2>2. CASE j = i /\ s = r
    BY <2>1, <2>2, WayMoved
  <2>3. CASE j # i \/ s # r
    <3>1. /\ pb'[j][s] = pb[j][s] /\ io'[j][s] = io[j][s]
          /\ QueuedBytes("WRITE", j, s)' = QueuedBytes("WRITE", j, s)
      BY <1>2, <2>1, <2>3 DEF OthersKept, StreamStep
    <3> QED BY <2>1, <3>1, WayKept
  <2> QED BY <2>2, <2>3
<1> QED BY <1>4, <1>5 DEF CalmInv

\* A process reads until the end of its stdin: what comes later would kill the daemon.
LEMMA CalmFar ==
    ASSUME CreditInv, CalmInv, NEW i \in Ids, NEW r \in OutRoles, pb[i][r].polled = 1
    PROVE  io[i][r].far
<1>1. r \in Role /\ OnItsWay(i, r)
  BY DEF Role, CalmInv
<1>2. /\ Len(io[i][r].got) \in Nat /\ Len(io[i][r].pipe) \in Nat /\ pb[i][r].bufcount \in Nat
      /\ QueuedBytes("WRITE", i, r) \in Nat /\ io[i][r].put \in Nat
  BY <1>1, WayTypes
<1>3. pb[i][r].bufcount > 0
  BY <1>1 DEF CreditInv, StreamInv, Polled
<1>4. /\ io[i][r].put = Len(io[i][r].got) + Len(io[i][r].pipe) + pb[i][r].bufcount
                            + QueuedBytes("WRITE", i, r)
      /\ io[i][r].far \/ io[i][r].put = Len(io[i][r].got)
  BY <1>1 DEF OnItsWay
<1>5. io[i][r].put # Len(io[i][r].got)
  <2>1. PICK g \in Nat : g = Len(io[i][r].got)
    BY <1>2
  <2>2. PICK l \in Nat : l = Len(io[i][r].pipe)
    BY <1>2
  <2>3. PICK c \in Nat : c = pb[i][r].bufcount /\ c > 0
    BY <1>2, <1>3
  <2>4. PICK q \in Nat : q = QueuedBytes("WRITE", i, r)
    BY <1>2
  <2>5. io[i][r].put = g + l + c + q
    BY <1>4, <2>1, <2>2, <2>3, <2>4
  <2>6. g + l + c + q # g
    BY <2>3
  <2> QED BY <2>1, <2>5, <2>6
<1> QED BY <1>4, <1>5

LEMMA CalmStreamEvent ==
    ASSUME CreditInv, CreditInv', CalmInv, Calm, NEW e \in Ids \X Role, e \in events, exit = "no",
           ~Stale(e), events' = events \ {e},
           IF e[2] \in InRoles THEN pipebuf_in_to_internal_buffer(e[1], e[2]) /\ UNCHANGED loop
                               ELSE pipebuf_out_is_writable(e[1], e[2]),
           UNCHANGED <<conn, proc, pid, hostVars, child, sigchld>>
    PROVE  CalmInv'
<1>1. PICK i \in Ids, r \in Role : e = <<i, r>> /\ e[1] = i /\ e[2] = r
  OBVIOUS
<1>2. e \notin {Listener, Hangup, Signal}
  BY <1>1 DEF Listener, Hangup, Signal, Role, InRoles, OutRoles
<1>3. peer /\ pb[i][r].polled = 1 /\ <<i, r>> \notin events'
  BY <1>1, <1>2, PeerThere DEF CalmInv, Peaceful, Streams
<1>4. CASE r \in InRoles
  <2>1. StreamStep(i, r) /\ exit' = exit
    BY <1>1, <1>3, <1>4, InEvent DEF BrokenSocket
  <2>2. r \notin OutRoles
    BY <1>4 DEF InRoles, OutRoles
  <2> QED BY <1>3, <2>1, <2>2, CalmStream
<1>5. CASE r \in OutRoles
  <2>1. r \notin InRoles /\ io[i][r].far
    BY <1>3, <1>5, CalmFar DEF InRoles, OutRoles
  <2>2. pipebuf_out_is_writable(i, r)
    BY <1>1, <2>1
  <2>3. StreamStep(i, r) /\ Conserved(i, r) /\ exit' = exit
    BY <1>1, <1>3, <1>5, <2>1, <2>2, CalmIsPrompt, OutEvent DEF BrokenSocket, BrokenPipe
  <2> QED BY <1>3, <2>3, CalmStream
<1> QED BY <1>4, <1>5 DEF Role

\* What other handlers and commands do.
LEMMA CalmStill ==
    ASSUME CreditInv, CalmInv, exit = "no", exit' \in {"no", "reset"}, UNCHANGED <<pb, conn, peer>>,
           events' \subseteq events, queue' = queue \/ Popped,
           \A j \in Ids, s \in OutRoles :
             /\ io'[j][s].pipe = io[j][s].pipe /\ io'[j][s].put = io[j][s].put
             /\ io'[j][s].got = io[j][s].got
             /\ (io'[j][s].far <=> io[j][s].far) \/ io[j][s].put = Len(io[j][s].got)
             /\ QueuedBytes("WRITE", j, s)' = QueuedBytes("WRITE", j, s)
    PROVE  CalmInv'
<1>1. Peaceful /\ \A j \in Ids, s \in OutRoles : OnItsWay(j, s)
  BY DEF CalmInv
<1>2. \A e \in events' \cap Streams : pb'[e[1]][e[2]].polled = 1
  BY <1>1 DEF Peaceful
<1>3. Peaceful'
  BY <1>1, <1>2, PartsKept, PeaceKept
<1>4. ASSUME NEW j \in Ids, NEW s \in OutRoles PROVE OnItsWay(j, s)'
  BY <1>1 DEF OnItsWay
<1> QED BY <1>3, <1>4 DEF CalmInv

\* Without races a command that may close a stream is handled when no other event is left.
LEMMA CalmCommand ==
    ASSUME CreditInv, CreditInv', CalmInv, Calm, NEW m, Taken(m), Command(m),
           events = {Socket} \/ ~Frees(Socket)
    PROVE  CalmInv'
<1>1. m \in CommandType /\ Current(m) /\ Popped
  BY TakenBytes
<1>2. PICK i \in Ids : i = m.id
  BY <1>1 DEF CommandType
<1>3. PICK r \in Role : r = m.role
  BY <1>1 DEF CommandType
<1>4. /\ peer /\ Peaceful /\ exit = "no" /\ events' \subseteq events /\ Socket \in events
      /\ UNCHANGED <<conn, peer>> /\ \A j \in Ids, s \in OutRoles : OnItsWay(j, s)
  BY PeerThere DEF Taken, CalmInv, Socket, Listener, Hangup, Signal
<1>5. \/ events' = {}
      \/ m.cmd \notin {"CLOSE", "CLOSE_STREAM"} /\ ~(m.cmd = "ACK" /\ pb[i][r].eof)
  BY <1>2, <1>3 DEF Frees, Taken
<1>6. CASE m.cmd = "RESET" /\ Exit("reset") /\ UNCHANGED <<proc, pid, phase, child, sigchld>>
  <2>1. /\ exit' = "reset" /\ UNCHANGED <<pb, io>>
        /\ \A j, s : QueuedBytes("WRITE", j, s)' = QueuedBytes("WRITE", j, s)
    BY <1>6, ResetCommand
  <2> QED BY <1>1, <1>4, <2>1, CalmStill
<1>7. CASE m.cmd = "OPEN" /\ Open(i) /\ UNCHANGED <<phase, sigchld>>
  <2>1. /\ exit' = exit
        /\ \A j \in Ids : j # i => pb'[j] = pb[j] /\ io'[j] = io[j]
        /\ \A s \in Role : <<i, s>> \notin events
        /\ \A s \in Role : /\ io'[i][s].pipe = io[i][s].pipe /\ io'[i][s].put = io[i][s].put
                           /\ io'[i][s].got = io[i][s].got /\ (io'[i][s].far <=> io[i][s].far)
                           /\ pb[i][s].bufcount = 0 /\ pb'[i][s].bufcount = 0
        /\ \A j, s : QueuedBytes("WRITE", j, s)' = QueuedBytes("WRITE", j, s)
    BY <1>2, <1>4, <1>7, OpenCommand DEF BrokenSocket
  <2>2. ASSUME NEW e \in events' \cap Streams PROVE pb'[e[1]][e[2]].polled = 1
    <3>1. PICK j \in Ids, s \in Role : e = <<j, s>> /\ e[1] = j /\ e[2] = s
      BY DEF Streams
    <3>2. j # i
      BY <1>4, <2>1, <3>1
    <3>3. pb[j][s].polled = 1
      BY <1>4, <3>1 DEF Peaceful
    <3> QED BY <2>1, <3>1, <3>2, <3>3
  <2>3. Peaceful'
    BY <1>1, <1>4, <2>1, <2>2, PartsKept, PeaceKept
  <2>4. ASSUME NEW j \in Ids, NEW s \in OutRoles PROVE OnItsWay(j, s)'
    <3>1. s \in Role /\ OnItsWay(j, s)
      BY <1>4 DEF Role
    <3> QED BY <2>1, <3>1, WayKept
  <2> QED BY <2>3, <2>4 DEF CalmInv
<1>8. CASE m.cmd \notin {"RESET", "OPEN"} /\ ~proc[i]
  BY <1>1, <1>2, <1>8, NoCommandForNobody
<1>9. CASE proc[i] /\ m.cmd = "CLOSE" /\ Close(i)
  <2>1. /\ exit' = exit
        /\ \A j \in Ids : j # i => pb'[j] = pb[j] /\ io'[j] = io[j]
        /\ \A s \in Role : /\ io'[i][s].pipe = <<>> /\ io'[i][s].put = 0 /\ io'[i][s].got = <<>>
                           /\ io'[i][s].far /\ pb'[i][s].bufcount = 0
                           /\ QueuedBytes("WRITE", i, s)' = 0
        /\ \A j, s : QueuedBytes("WRITE", j, s)' = QueuedBytes("WRITE", j, s)
    BY <1>2, <1>4, <1>9, CloseCommand DEF BrokenSocket
  <2>2. events' = {}
    BY <1>5, <1>9
  <2>3. Peaceful'
    BY <1>1, <1>4, <2>1, <2>2, PartsKept, PeaceKept
  <2>4. ASSUME NEW j \in Ids, NEW s \in OutRoles PROVE OnItsWay(j, s)'
    <3>1. s \in Role /\ OnItsWay(j, s)
      BY <1>4 DEF Role
    <3>2. CASE j = i
      BY <2>1, <3>1, <3>2, WayEmpty
    <3>3. CASE j # i
      BY <2>1, <3>1, <3>3, WayKept
    <3> QED BY <3>2, <3>3
  <2> QED BY <2>3, <2>4 DEF CalmInv
<1>10. CASE proc[i] /\ m.cmd = "KILL" /\ Kill(i) /\ UNCHANGED <<exit, proc, pid, pb, phase>>
  <2>1. /\ \A j \in Ids, s \in Role :
             /\ io'[j][s].pipe = io[j][s].pipe /\ io'[j][s].put = io[j][s].put
             /\ io'[j][s].got = io[j][s].got
             /\ (io'[j][s].far <=> io[j][s].far) \/ s \in InRoles \/ MayEnd(j, s)
        /\ \A j, s : QueuedBytes("WRITE", j, s)' = QueuedBytes("WRITE", j, s)
    BY <1>2, <1>10, KillCommand
  <2>2. ASSUME NEW j \in Ids, NEW s \in OutRoles
        PROVE  (io'[j][s].far <=> io[j][s].far) \/ io[j][s].put = Len(io[j][s].got)
    <3>1. s \in Role /\ s \notin InRoles
      BY DEF Role, InRoles, OutRoles
    <3> QED BY <2>1, <3>1 DEF MayEnd, Calm
  <2>3. \A s \in OutRoles : s \in Role
    BY DEF Role
  <2> QED BY <1>1, <1>4, <1>10, <2>1, <2>2, <2>3, CalmStill
<1>11. CASE /\ proc[i] /\ m.cmd = "WRITE" /\ pipebuf_out_to_internal_buffer(i, r, m.from, m.n)
            /\ UNCHANGED <<proc, pid, phase, child, sigchld>>
  <2>1. StreamStep(i, r) /\ Conserved(i, r) /\ exit' = exit /\ pb'[i][r].polled = 1
    BY <1>2, <1>3, <1>4, <1>11, WriteCommand DEF BrokenSocket
  <2> QED BY <2>1, CalmStream
<1>12. CASE /\ proc[i] /\ m.cmd = "ACK" /\ pipebuf_in_ack(i, r, m.n)
            /\ UNCHANGED <<proc, pid, phase, child, sigchld>>
  <2>1. /\ StreamStep(i, r) /\ exit' = exit /\ r \in InRoles
        /\ pb[i][r].polled = 1 => pb'[i][r].polled = 1 \/ pb[i][r].eof
    BY <1>2, <1>3, <1>4, <1>12, AckCommand DEF BrokenSocket
  <2>2. r \notin OutRoles
    BY <2>1 DEF InRoles, OutRoles
  <2>3. <<i, r>> \in events' => pb'[i][r].polled = 1
    <3>1. <<i, r>> \in events' => pb[i][r].polled = 1
      BY <1>4 DEF Peaceful, Streams
    <3> QED BY <1>5, <1>12, <2>1, <3>1
  <2> QED BY <2>1, <2>2, <2>3, CalmStream
<1>13. CASE /\ proc[i] /\ m.cmd = "CLOSE_STREAM"
            /\ ToHost(i, r, pipebuf_common_close(pb[i][r], FLUSH), io[i][r], <<>>)
            /\ UNCHANGED <<proc, pid, phase, child, sigchld>>
  <2>1. StreamStep(i, r) /\ Conserved(i, r) /\ exit' = exit
    BY <1>2, <1>3, <1>4, <1>13, CloseStreamCommand DEF BrokenSocket
  <2>2. events' = {}
    BY <1>5, <1>13
  <2> QED BY <2>1, <2>2, CalmStream
<1> QED BY <1>2, <1>3, <1>6, <1>7, <1>8, <1>9, <1>10, <1>11, <1>12, <1>13 DEF Command

LEMMA CalmHandle ==
    ASSUME CreditInv, CreditInv', CalmInv, Calm, NEW e \in events, Handle(e)
    PROVE  CalmInv'
<1>1. /\ exit = "no" /\ events' = events \ {e} /\ events' \subseteq events
      /\ events = {e} \/ ~Frees(e)
      /\ Peaceful /\ \A j \in Ids, s \in OutRoles : OnItsWay(j, s)
  BY DEF Handle, Calm, CalmInv
<1>2. CASE e = Listener /\ handle_incoming_spid_socket
           /\ UNCHANGED <<exit, loop, proc, pid, pb, hostVars, child, sigchld, io>>
  <2>1. conn' = TRUE /\ peer' = TRUE /\ ~conn /\ exit' = exit /\ queue' = queue
    BY <1>1, <1>2 DEF handle_incoming_spid_socket, hostVars, Peaceful
  <2>2. Listener \notin events' /\ Hangup \notin events'
    BY <1>1, <1>2, <2>1 DEF Peaceful
  <2>3. Peaceful'
    BY <1>1, <1>2, <2>1, <2>2 DEF Peaceful
  <2>4. \A j \in Ids, s \in OutRoles : OnItsWay(j, s)'
    BY <1>1, <1>2, <2>1, SameBytes, WayKept
  <2> QED BY <2>3, <2>4 DEF CalmInv
<1>3. CASE e = Hangup /\ handle_closed_spid_socket
  <2>1. Socket \notin events' /\ events' = {}
    BY <1>1, <1>3 DEF CreditInv, Batch, Frees
  <2>2. /\ exit' = exit /\ queue' = <<>>
        /\ \A j \in Ids, s \in Role :
             /\ io'[j][s].pipe = <<>> /\ io'[j][s].put = 0 /\ io'[j][s].got = <<>>
             /\ io'[j][s].far /\ pb'[j][s].bufcount = 0 /\ QueuedBytes("WRITE", j, s)' = 0
    BY <1>1, <1>3, <2>1, HungUp
  <2>3. Peaceful'
    BY <1>1, <2>1, <2>2 DEF Peaceful
  <2>4. ASSUME NEW j \in Ids, NEW s \in OutRoles PROVE OnItsWay(j, s)'
    <3>1. s \in Role
      BY DEF Role
    <3> QED BY <2>2, <3>1, WayEmpty
  <2> QED BY <2>3, <2>4 DEF CalmInv
<1>4. CASE e = Socket /\ handle_socket_readable
  <2> DEFINE m == Head(queue)
  <2>1. queue # <<>> /\ queue \in Seq(CommandType)
    BY <1>1, <1>4 DEF CreditInv, Batch, Types
  <2>2. m.part = "all"
    BY <1>1, <2>1 DEF Peaceful
  <2>3. /\ Command(m) /\ queue' = Tail(queue)
        /\ UNCHANGED <<conn, loop, peer, conns, opens, exits>>
    BY <1>4, <2>2 DEF handle_socket_readable
  <2>4. Taken(m)
    BY <1>1, <1>4, <2>1, <2>3 DEF Taken
  <2> QED BY <1>1, <1>4, <2>3, <2>4, CalmCommand
<1>5. CASE e = Signal /\ handle_sigchld
  <2>1. UNCHANGED <<pb, io, queue, conn, peer>>
    BY <1>5 DEF handle_sigchld
  <2>2. exit' = exit
    <3>1. SUFFICES ASSUME ~peer PROVE \A i \in Ids : child[i] # "zombie"
      BY <1>5 DEF handle_sigchld
    <3>2. ~conn
      BY <1>1, <1>5, <3>1 DEF Peaceful, Signal, Hangup
    <3>3. \A i \in Ids : ~proc[i]
      BY <3>2 DEF CreditInv, Session
    <3> QED BY <3>3, UnusedProcess
  <2> QED BY <1>1, <2>1, <2>2, SameBytes, CalmStill
<1>6. CASE Stale(e)
  <2>1. PICK j \in Ids, s \in Role : e = <<j, s>> /\ e[1] = j /\ e[2] = s /\ ~pb[j][s].fd
    BY <1>6 DEF Stale
  <2>2. pb[j][s].polled = 1
    BY <1>1, <2>1 DEF Peaceful, Streams
  <2>3. Polled(j, s)
    BY DEF CreditInv, StreamInv
  <2> QED BY <2>1, <2>2, <2>3 DEF Polled
<1>7. CASE /\ e \in Ids \X Role /\ ~Stale(e)
           /\ IF e[2] \in InRoles THEN pipebuf_in_to_internal_buffer(e[1], e[2]) /\ UNCHANGED loop
                                  ELSE pipebuf_out_is_writable(e[1], e[2])
           /\ UNCHANGED <<conn, proc, pid, hostVars, child, sigchld>>
  BY <1>1, <1>7, CalmStreamEvent
<1> QED BY <1>2, <1>3, <1>4, <1>5, <1>6, <1>7 DEF Handle

LEMMA CalmWait ==
    ASSUME CreditInv, CalmInv, Calm, epoll_wait
    PROVE  CalmInv'
<1>1. /\ UNCHANGED <<exit, conn, pb, io, queue, peer>>
      /\ events' = IF conn /\ ~peer THEN {Hangup} ELSE Ready
      /\ Peaceful /\ \A j \in Ids, s \in OutRoles : OnItsWay(j, s)
  BY DEF epoll_wait, hostVars, Calm, CalmInv
<1>2. \A j \in Ids, s \in OutRoles : OnItsWay(j, s)'
  BY <1>1, SameBytes, WayKept
<1>3. CASE conn /\ ~peer
  <2>1. events' = {Hangup} /\ Hangup # Listener /\ Hangup \notin Streams
    BY <1>1, <1>3 DEF Hangup, Listener, Streams, Role, InRoles, OutRoles
  <2>2. Peaceful'
    BY <1>1, <1>3, <2>1 DEF Peaceful
  <2> QED BY <1>2, <2>2 DEF CalmInv
<1>4. CASE ~(conn /\ ~peer)
  <2>1. events' = Ready
    BY <1>1, <1>4
  <2>2. /\ {Listener, Socket, Hangup, Signal} \cap (Ids \X Role) = {}
        /\ Listener # Socket /\ Listener # Hangup /\ Listener # Signal
        /\ Hangup # Socket /\ Hangup # Signal
    BY DEF Listener, Socket, Hangup, Signal, Role, InRoles, OutRoles
  <2>3. Hangup \notin Ready
    BY <1>4, <2>2 DEF Ready
  <2>4. Listener \in Ready => peer /\ ~conn
    BY <2>2 DEF Ready
  <2>5. ASSUME NEW j \in Ids, NEW s \in Role, <<j, s>> \in Ready PROVE pb[j][s].polled = 1
    <3>1. <<j, s>> \notin {Listener, Socket, Hangup, Signal}
      BY <2>2
    <3> QED BY <2>5, <3>1 DEF Ready, PipeReady
  <2>6. ASSUME NEW e \in Ready \cap Streams PROVE pb[e[1]][e[2]].polled = 1
    <3>1. PICK j \in Ids, s \in Role : e = <<j, s>> /\ e[1] = j /\ e[2] = s
      BY DEF Streams
    <3> QED BY <2>5, <3>1
  <2>7. ~conn => Ready \subseteq {Listener, Signal}
    <3>1. SUFFICES ASSUME ~conn, NEW e \in Ready PROVE e \in {Listener, Signal}
      OBVIOUS
    <3>2. e \notin Ids \X Role
      <4>1. SUFFICES ASSUME e \in Ids \X Role PROVE FALSE
        OBVIOUS
      <4>2. PICK j \in Ids, s \in Role : e = <<j, s>>
        BY <4>1
      <4>3. pb[j][s].polled = 1 /\ ~proc[j]
        BY <2>5, <3>1, <4>2 DEF CreditInv, Session
      <4> QED BY <4>3, UnusedProcess
    <3> QED BY <3>1, <3>2 DEF Ready
  <2>8. Peaceful'
    BY <1>1, <1>4, <2>1, <2>3, <2>4, <2>6, <2>7 DEF Peaceful
  <2> QED BY <1>2, <2>8 DEF CalmInv
<1> QED BY <1>3, <1>4

\* What the processes and the host do.
LEMMA CalmOutside ==
    ASSUME CreditInv, CalmInv, UNCHANGED <<pb, conn, peer, events, exit>>,
           queue' = queue \/ \E m \in CommandType : m.part = "all" /\ Pushed(m),
           \A j \in Ids, s \in OutRoles : OnItsWay(j, s)'
    PROVE  CalmInv'
<1>1. Peaceful /\ queue \in Seq(CommandType)
  BY DEF CalmInv, CreditInv, Types
<1>2. \A k \in 1..Len(queue') : queue'[k].part = "all"
  <2>1. CASE queue' = queue
    BY <1>1, <2>1 DEF Peaceful
  <2>2. CASE \E m \in CommandType : m.part = "all" /\ Pushed(m)
    <3>1. PICK m \in CommandType : m.part = "all" /\ queue' = Append(queue, m)
      BY <2>2 DEF Pushed
    <3>2. /\ Len(queue') = Len(queue) + 1 /\ queue'[Len(queue) + 1] = m
          /\ \A k \in 1..Len(queue) : queue'[k] = queue[k]
      BY <1>1, <3>1
    <3>3. ASSUME NEW k \in 1..Len(queue') PROVE queue'[k].part = "all"
      <4>1. k \in 1..Len(queue) \/ k = Len(queue) + 1
        BY <1>1, <3>2
      <4> QED BY <1>1, <3>1, <3>2, <4>1 DEF Peaceful
    <3> QED BY <3>3
  <2> QED BY <2>1, <2>2
<1>3. Peaceful'
  BY <1>1, <1>2 DEF Peaceful
<1> QED BY <1>3 DEF CalmInv

\* One end of one stream moves.
LEMMA CalmEnd ==
    ASSUME CreditInv, CalmInv, NEW i \in Ids, NEW r \in Role, NEW y \in IoType,
           io' = [io EXCEPT ![i][r] = y], UNCHANGED <<daemonVars, hostVars>>,
           r \in OutRoles => /\ y.put = io[i][r].put
                             /\ Len(y.got) + Len(y.pipe) = Len(io[i][r].got) + Len(io[i][r].pipe)
                             /\ y.far \/ y.put = Len(y.got)
    PROVE  CalmInv'
<1>1. UNCHANGED <<pb, conn, peer, events, exit>> /\ queue' = queue
  BY DEF daemonVars, hostVars
<1>2. io'[i][r] = y /\ \A j \in Ids, s \in Role : j # i \/ s # r => io'[j][s] = io[j][s]
  BY Update DEF CreditInv, Types
<1>3. ASSUME NEW j \in Ids, NEW s \in OutRoles PROVE OnItsWay(j, s)'
  <2>1. s \in Role /\ OnItsWay(j, s)
    BY DEF Role, CalmInv
  <2>2. CASE j # i \/ s # r
    BY <1>1, <1>2, <2>1, <2>2, SameBytes, WayKept
  <2>3. CASE j = i /\ s = r
    <3>1. /\ Len(io[i][r].got) \in Nat /\ Len(io[i][r].pipe) \in Nat /\ pb[i][r].bufcount \in Nat
          /\ QueuedBytes("WRITE", i, r) \in Nat /\ io[i][r].put \in Nat
      BY WayTypes
    <3>2. y.put = io[i][r].put /\ (y.far \/ y.put = Len(y.got))
          /\ Len(y.got) + Len(y.pipe) = Len(io[i][r].got) + Len(io[i][r].pipe)
      BY <2>3
    <3>3. io[i][r].put = Len(io[i][r].got) + Len(io[i][r].pipe) + pb[i][r].bufcount
                             + QueuedBytes("WRITE", i, r)
      BY <2>1, <2>3 DEF OnItsWay
    <3>4. Len(y.got) \in Nat /\ Len(y.pipe) \in Nat
      BY DEF IoType
    <3>5. y.put = Len(y.got) + Len(y.pipe) + pb[i][r].bufcount + QueuedBytes("WRITE", i, r)
      BY <3>1, <3>2, <3>3, <3>4
    <3>6. /\ io'[i][r] = y /\ pb'[i][r].bufcount = pb[i][r].bufcount
          /\ QueuedBytes("WRITE", i, r)' = QueuedBytes("WRITE", i, r)
      BY <1>1, <1>2, SameBytes
    <3> QED BY <2>3, <3>2, <3>5, <3>6 DEF OnItsWay
  <2> QED BY <2>2, <2>3
<1> QED BY <1>1, <1>3, CalmOutside

LEMMA CalmRead ==
    ASSUME CreditInv, CalmInv, NEW i \in Ids, NEW r \in OutRoles, ChildRead(i, r)
    PROVE  CalmInv'
<1> r \in Role
  BY DEF Role
<1>1. PICK x \in IoType : x = io[i][r] /\ x.pipe # <<>>
  BY DEF CreditInv, Types, ChildRead
<1>2. x.pipe \in Seq(Nat) /\ x.got \in Seq(Nat) /\ x.put \in Nat /\ x.far \in BOOLEAN
  BY <1>1 DEF IoType
<1>a. x.far
  BY <1>1 DEF ChildRead
<1>3. PICK p \in Seq(Nat) : p = Tail(x.pipe) /\ Len(p) = Len(x.pipe) - 1
  <2>1. Tail(x.pipe) \in Seq(Nat) /\ Len(Tail(x.pipe)) = Len(x.pipe) - 1
    BY <1>1, <1>2
  <2> QED BY <2>1
<1>4. PICK g \in Seq(Nat) : g = Append(x.got, Head(x.pipe)) /\ Len(g) = Len(x.got) + 1
  <2>1. Head(x.pipe) \in Nat
    <3>1. PICK p0 \in Seq(Nat) : p0 = x.pipe
      BY <1>2
    <3>2. p0 # <<>>
      BY <1>1, <3>1
    <3>3. Head(p0) \in Nat
      BY <3>2
    <3> QED BY <3>1, <3>3
  <2>2. Append(x.got, Head(x.pipe)) \in Seq(Nat) /\ Len(Append(x.got, Head(x.pipe))) = Len(x.got) + 1
    BY <1>2, <2>1
  <2> QED BY <2>2
<1>5. PICK y \in IoType : /\ y = IoEnd(x, p, g, x.put, x.far) /\ y.pipe = p /\ y.got = g
                          /\ y.put = x.put /\ y.far
  <2>1. /\ EndFrom(IoEnd(x, p, g, x.put, x.far), x, p)
        /\ IoEnd(x, p, g, x.put, x.far).got = g /\ IoEnd(x, p, g, x.put, x.far).put = x.put
        /\ (IoEnd(x, p, g, x.put, x.far).far <=> x.far)
    BY <1>2, IoEndType
  <2> QED BY <1>a, <2>1 DEF EndFrom
<1>6. io' = [io EXCEPT ![i][r] = y]
  <2>1. y = [x EXCEPT !.pipe = p, !.got = g]
    BY <1>5 DEF IoEnd, IoType
  <2>2. io' = [io EXCEPT ![i][r].got = Append(@, Head(io[i][r].pipe)), ![i][r].pipe = Tail(@)]
    BY DEF ChildRead
  <2>3. io \in [Ids -> [Role -> IoType]]
    BY DEF CreditInv, Types
  <2>4. io' = [io EXCEPT ![i][r] = [io[i][r] EXCEPT !.pipe = Tail(io[i][r].pipe),
                                         !.got = Append(io[i][r].got, Head(io[i][r].pipe))]]
    BY <2>2, <2>3 DEF IoType
  <2> QED BY <1>1, <1>3, <1>4, <2>1, <2>4
<1>7. Len(y.got) + Len(y.pipe) = Len(x.got) + Len(x.pipe)
  <2>1. PICK n \in Nat : n = Len(x.got)
    BY <1>2
  <2>2. PICK l \in Nat : l = Len(x.pipe)
    BY <1>2
  <2>3. (n + 1) + (l - 1) = n + l
    OBVIOUS
  <2> QED BY <1>3, <1>4, <1>5, <2>1, <2>2, <2>3
<1>8. UNCHANGED <<daemonVars, hostVars>>
  BY DEF ChildRead
<1> QED BY <1>1, <1>5, <1>6, <1>7, <1>8, CalmEnd

LEMMA CalmChildWrite ==
    ASSUME CreditInv, CalmInv, NEW i \in Ids, NEW r \in InRoles, ChildWrite(i, r)
    PROVE  CalmInv'
<1>1. r \in Role /\ r \notin OutRoles
  BY DEF Role, InRoles, OutRoles
<1>2. io \in [Ids -> [Role -> IoType]]
  BY DEF CreditInv, Types
<1>3. /\ io' = [io EXCEPT ![i][r].put = @ + 1, ![i][r].pipe = Append(@, io[i][r].put + 1)]
      /\ UNCHANGED <<daemonVars, hostVars>>
  BY DEF ChildWrite
<1>4. \A j \in Ids, s \in Role : j # i \/ s # r => io'[j][s] = io[j][s]
  BY <1>1, <1>2, <1>3
<1>5. \A j \in Ids, s \in OutRoles : OnItsWay(j, s) /\ s \in Role /\ s # r
  BY <1>1 DEF CalmInv, Role
<1>6. UNCHANGED <<pb, conn, peer, events, exit>> /\ queue' = queue
  BY <1>3 DEF daemonVars, hostVars
<1>7. \A j \in Ids, s \in OutRoles : OnItsWay(j, s)'
  BY <1>4, <1>5, <1>6, SameBytes, WayKept
<1> QED BY <1>6, <1>7, CalmOutside

LEMMA CalmCloseEnd ==
    ASSUME CreditInv, CalmInv, Calm, NEW i \in Ids, NEW r \in Role, ChildCloseEnd(i, r)
    PROVE  CalmInv'
<1>1. PICK x \in IoType : x = io[i][r]
  BY DEF CreditInv, Types
<1>2. /\ x.pipe \in Seq(Nat) /\ x.got \in Seq(Nat) /\ x.put \in Nat
  BY <1>1 DEF IoType
<1>p. PICK p \in Seq(Nat) : p = x.pipe
  BY <1>2
<1>g. PICK g \in Seq(Nat) : g = x.got
  BY <1>2
<1>3. PICK y \in IoType : /\ y = IoEnd(x, p, g, x.put, FALSE)
                          /\ y.pipe = p /\ y.got = g /\ y.put = x.put
  <2>1. PICK f \in BOOLEAN : f = FALSE
    OBVIOUS
  <2>2. PICK n \in Nat : n = x.put
    BY <1>2
  <2>3. /\ EndFrom(IoEnd(x, p, g, n, f), x, p)
        /\ IoEnd(x, p, g, n, f).got = g /\ IoEnd(x, p, g, n, f).put = n
    BY IoEndType
  <2> QED BY <2>1, <2>2, <2>3 DEF EndFrom
<1>4. io' = [io EXCEPT ![i][r] = y]
  <2>1. y = [x EXCEPT !.far = FALSE]
    BY <1>p, <1>g, <1>3 DEF IoEnd, IoType
  <2>2. io' = [io EXCEPT ![i][r].far = FALSE]
    BY DEF ChildCloseEnd
  <2> QED BY <1>1, <2>1, <2>2
<1>5. r \in OutRoles => x.put = Len(x.got)
  BY <1>1 DEF ChildCloseEnd, MayEnd, Calm, InRoles, OutRoles
<1>6. UNCHANGED <<daemonVars, hostVars>>
  BY DEF ChildCloseEnd
<1> QED BY <1>1, <1>p, <1>g, <1>3, <1>4, <1>5, <1>6, CalmEnd

LEMMA CalmProcess ==
    ASSUME CreditInv, CalmInv, Calm, exit = "no", NEW i \in Ids, Process(i)
    PROVE  CalmInv'
<1>1. CASE ChildExec(i) \/ ChildExit(i)
  <2>1. UNCHANGED <<pb, conn, peer, events, exit, io, queue>>
    BY <1>1 DEF ChildExec, ChildExit, daemonVars, hostVars
  <2>2. \A j \in Ids, s \in OutRoles : OnItsWay(j, s)'
    BY <2>1, SameBytes, WayKept DEF CalmInv
  <2> QED BY <2>1, <2>2, CalmOutside
<1> QED BY <1>1, CalmRead, CalmChildWrite, CalmCloseEnd DEF Process

\* A command is sent that brings no bytes.
LEMMA CalmOrder ==
    ASSUME CreditInv, CalmInv, NEW m \in CommandType, m.cmd # "WRITE", m.part = "all", Pushed(m),
           UNCHANGED <<daemonVars, peer>>,
           \A j \in Ids, s \in OutRoles :
               /\ io'[j][s].pipe = io[j][s].pipe /\ io'[j][s].put = io[j][s].put
               /\ io'[j][s].got = io[j][s].got /\ (io'[j][s].far <=> io[j][s].far)
    PROVE  CalmInv'
<1>1. UNCHANGED <<pb, conn, peer, events, exit>> /\ queue \in Seq(CommandType)
  BY DEF daemonVars, CreditInv, Types
<1>2. \A j, s : QueuedBytes("WRITE", j, s)' = QueuedBytes("WRITE", j, s)
  BY <1>1, PushBytes
<1>3. ASSUME NEW j \in Ids, NEW s \in OutRoles PROVE OnItsWay(j, s)'
  <2>1. OnItsWay(j, s)
    BY DEF CalmInv
  <2> QED BY <1>1, <1>2, <2>1, WayKept
<1> QED BY <1>1, <1>3, CalmOutside

LEMMA CalmPlain ==
    ASSUME CreditInv, CalmInv, NEW cmd \in Commands, cmd # "WRITE", NEW i \in Ids, NEW r \in Role,
           NEW n \in Nat, Send(cmd, i, r, n),
           \A j \in Ids, s \in OutRoles :
               /\ io'[j][s].pipe = io[j][s].pipe /\ io'[j][s].put = io[j][s].put
               /\ io'[j][s].got = io[j][s].got /\ (io'[j][s].far <=> io[j][s].far)
    PROVE  CalmInv'
<1>1. PICK m \in CommandType : m = Order(cmd, i, r, n) /\ m.cmd = cmd /\ m.part = "all"
  BY OrderType
<1>2. Pushed(m) /\ UNCHANGED <<daemonVars, peer>>
  BY <1>1 DEF Send, Order, Pushed
<1> QED BY <1>1, <1>2, CalmOrder

LEMMA CalmOpen ==
    ASSUME CreditInv, CalmInv, NEW i \in Ids, HostOpen(i)
    PROVE  CalmInv'
<1>1. /\ UNCHANGED <<pb, conn, peer, events, exit>> /\ phase[i] = "free"
      /\ io' = [io EXCEPT ![i] = [r \in Role |-> Outside]]
  BY DEF HostOpen, daemonVars
<1>2. PICK m \in CommandType : m.cmd = "OPEN" /\ m.part = "all" /\ Pushed(m)
  <2>1. [cmd |-> "OPEN", id |-> i, role |-> "ctrl", n |-> 0, from |-> 0, part |-> "all"]
            \in CommandType
    BY DEF CommandType, Commands, Role, OutRoles
  <2> QED BY <2>1 DEF HostOpen, Pushed
<1>3. \A j, s : QueuedBytes("WRITE", j, s)' = QueuedBytes("WRITE", j, s)
  BY <1>2, PushBytes DEF CreditInv, Types
<1>4. ~proc[i] /\ Unused(i)
  BY <1>1 DEF CreditInv, Session
<1>5. (\A s \in Role : io'[i][s] = Outside) /\ \A j \in Ids : j # i => io'[j] = io[j]
  BY <1>1 DEF CreditInv, Types
<1>6. ASSUME NEW j \in Ids, NEW s \in OutRoles PROVE OnItsWay(j, s)'
  <2>1. s \in Role /\ OnItsWay(j, s)
    BY DEF Role, CalmInv
  <2>2. CASE j # i
    BY <1>1, <1>3, <1>5, <2>1, <2>2, WayKept
  <2>3. CASE j = i
    <3>1. QueuedBytes("WRITE", i, s)' = 0
      BY <1>1, <1>3, FreeBytes
    <3>2. pb'[i][s].bufcount = 0
      <4>1. ClosedBuf.bufcount = 0
        BY DEF ClosedBuf
      <4>2. pb[i][s] = ClosedBuf
        BY <1>4, <2>1 DEF Unused
      <4> QED BY <1>1, <4>1, <4>2
    <3>3. /\ io'[i][s].pipe = <<>> /\ io'[i][s].put = 0 /\ io'[i][s].got = <<>> /\ io'[i][s].far
      BY <1>5, <2>1, OutsideFields
    <3> QED BY <2>3, <3>1, <3>2, <3>3, WayEmpty
  <2> QED BY <2>2, <2>3
<1> QED BY <1>1, <1>2, <1>6, CalmOutside

\* The host writes to a process that still reads.
LEMMA CalmWrite ==
    ASSUME CreditInv, CalmInv, Calm, NEW i \in Ids, NEW r \in OutRoles, NEW n \in Lens,
           HostWrite(i, r, n)
    PROVE  CalmInv'
<1> r \in Role /\ "WRITE" \in Commands
  BY DEF Role, Commands
<1>1. n \in Nat
  BY ExecAssumption
<1>2. PICK m \in CommandType : /\ m = Order("WRITE", i, r, n) /\ m.cmd = "WRITE"
                               /\ m.id = i /\ m.role = r /\ m.n = n /\ m.part = "all"
  BY <1>1, OrderType
<1>3. Pushed(m) /\ UNCHANGED <<pb, conn, peer, events, exit>>
  BY <1>2 DEF HostWrite, Send, Order, Pushed, daemonVars
<1>4. io' = [io EXCEPT ![i][r].put = @ + n, ![i][r].window = @ - n]
  BY DEF HostWrite
<1>5. io[i][r].far
  BY DEF HostWrite, Calm
<1>6. io \in [Ids -> [Role -> IoType]] /\ queue \in Seq(CommandType)
  BY DEF CreditInv, Types
<1>7. \A j \in Ids, s \in Role : j # i \/ s # r => io'[j][s] = io[j][s]
  BY <1>4, <1>6
<1>8. io'[i][r].put = io[i][r].put + n /\ io'[i][r].pipe = io[i][r].pipe /\ io'[i][r].got = io[i][r].got
  BY <1>4, <1>6 DEF IoType
<1>9. io'[i][r].far
  BY <1>4, <1>5, <1>6 DEF IoType
<1>10. ASSUME NEW j \in Ids, NEW s \in OutRoles PROVE OnItsWay(j, s)'
  <2>1. s \in Role /\ OnItsWay(j, s)
    BY DEF Role, CalmInv
  <2>2. CASE j # i \/ s # r
    <3>1. QueuedBytes("WRITE", j, s)' = QueuedBytes("WRITE", j, s)
      BY <1>2, <1>3, <1>6, <2>2, PushBytes
    <3> QED BY <1>3, <1>7, <2>1, <2>2, <3>1, WayKept
  <2>3. CASE j = i /\ s = r
    <3>1. /\ Len(io[i][r].got) \in Nat /\ Len(io[i][r].pipe) \in Nat /\ pb[i][r].bufcount \in Nat
          /\ QueuedBytes("WRITE", i, r) \in Nat /\ io[i][r].put \in Nat
      BY WayTypes
    <3>2. QueuedBytes("WRITE", i, r)' = QueuedBytes("WRITE", i, r) + n
      <4>1. Amount(m, "WRITE", i, r) = n
        BY <1>2 DEF Amount
      <4> QED BY <1>3, <1>6, <4>1, PushBytes
    <3>3. io[i][r].put = Len(io[i][r].got) + Len(io[i][r].pipe) + pb[i][r].bufcount
                             + QueuedBytes("WRITE", i, r)
      BY <2>1, <2>3 DEF OnItsWay
    <3>4. io[i][r].put + n = Len(io[i][r].got) + Len(io[i][r].pipe) + pb[i][r].bufcount
                                 + (QueuedBytes("WRITE", i, r) + n)
      <4>1. PICK g \in Nat : g = Len(io[i][r].got)
        BY <3>1
      <4>2. PICK l \in Nat : l = Len(io[i][r].pipe)
        BY <3>1
      <4>3. PICK c \in Nat : c = pb[i][r].bufcount
        BY <3>1
      <4>4. PICK q \in Nat : q = QueuedBytes("WRITE", i, r)
        BY <3>1
      <4>5. PICK d \in Nat : d = n
        BY <1>1
      <4>6. io[i][r].put = g + l + c + q
        BY <3>3, <4>1, <4>2, <4>3, <4>4
      <4>7. (g + l + c + q) + d = g + l + c + (q + d)
        OBVIOUS
      <4> QED BY <4>1, <4>2, <4>3, <4>4, <4>5, <4>6, <4>7
    <3>5. io'[i][r].put = Len(io'[i][r].got) + Len(io'[i][r].pipe) + pb'[i][r].bufcount
                              + QueuedBytes("WRITE", i, r)'
      BY <1>3, <1>8, <3>2, <3>4
    <3> QED BY <1>9, <2>3, <3>5 DEF OnItsWay
  <2> QED BY <2>2, <2>3
<1> QED BY <1>2, <1>3, <1>10, CalmOutside

LEMMA CalmHost ==
    ASSUME CreditInv, CalmInv, Calm, exit = "no", Host
    PROVE  CalmInv'
<1>1. io \in [Ids -> [Role -> IoType]] /\ (\A s \in OutRoles : s \in Role) /\ "ctrl" \in Role
      /\ {"RESET", "KILL", "CLOSE", "CLOSE_STREAM", "ACK"} \subseteq Commands
  BY DEF CreditInv, Types, Role, OutRoles, Commands
<1>2. CASE HostConnect
  <2>1. UNCHANGED <<pb, conn, events, exit, io, queue>> /\ peer' = TRUE /\ ~peer /\ ~conn
    BY <1>2 DEF HostConnect, daemonVars
  <2>2. Peaceful'
    BY <2>1 DEF CalmInv, Peaceful
  <2>3. \A j \in Ids, s \in OutRoles : OnItsWay(j, s)'
    BY <2>1, SameBytes, WayKept DEF CalmInv
  <2> QED BY <2>2, <2>3 DEF CalmInv
<1>3. CASE HostHangup
  <2>1. UNCHANGED <<pb, conn, events, exit, io, queue>> /\ peer' = FALSE /\ peer /\ conn /\ events = {}
    BY <1>3 DEF HostHangup, daemonVars, Calm
  <2>2. Peaceful'
    BY <2>1 DEF CalmInv, Peaceful
  <2>3. \A j \in Ids, s \in OutRoles : OnItsWay(j, s)'
    BY <2>1, SameBytes, WayKept DEF CalmInv
  <2> QED BY <2>2, <2>3 DEF CalmInv
<1>4. CASE HostReset
  BY <1>1, <1>4, CalmPlain DEF HostReset
<1>5. ASSUME NEW i \in Ids, HostKill(i) PROVE CalmInv'
  BY <1>1, <1>5, CalmPlain DEF HostKill
<1>6. ASSUME NEW i \in Ids, HostClose(i) PROVE CalmInv'
  BY <1>1, <1>6, CalmPlain DEF HostClose
<1>7. ASSUME NEW i \in Ids, NEW r \in Role, HostCloseStream(i, r) PROVE CalmInv'
  <2>1. Send("CLOSE_STREAM", i, r, 0) /\ io' = [io EXCEPT ![i][r].asked = TRUE]
    BY <1>7 DEF HostCloseStream
  <2>2. \A j \in Ids, s \in Role :
            /\ io'[j][s].pipe = io[j][s].pipe /\ io'[j][s].put = io[j][s].put
            /\ io'[j][s].got = io[j][s].got /\ (io'[j][s].far <=> io[j][s].far)
    <3>1. PICK y \in IoType : /\ y = Asked(io[i][r]) /\ y.pipe = io[i][r].pipe
                              /\ y.got = io[i][r].got /\ y.put = io[i][r].put
                              /\ (y.far <=> io[i][r].far)
      BY <1>1, AskedType
    <3>2. io' = [io EXCEPT ![i][r] = y]
      BY <2>1, <3>1 DEF Asked
    <3>3. io'[i][r] = y /\ \A j \in Ids, s \in Role : j # i \/ s # r => io'[j][s] = io[j][s]
      BY <1>1, <3>2, Update
    <3> QED BY <3>1, <3>3
  <2> QED BY <1>1, <2>1, <2>2, CalmPlain
<1>8. ASSUME NEW i \in Ids, NEW r \in InRoles, NEW n \in Lens, HostAck(i, r, n) PROVE CalmInv'
  <2>1. Send("ACK", i, r, n) /\ io' = [io EXCEPT ![i][r].window = @ + n]
    BY <1>8 DEF HostAck
  <2>2. r \in Role /\ n \in Nat
    BY ExecAssumption DEF Role
  <2>3. \A j \in Ids, s \in OutRoles : io'[j][s] = io[j][s]
    <3>1. r \notin OutRoles
      BY DEF InRoles, OutRoles
    <3> QED BY <1>1, <2>1, <2>2, <3>1
  <2> QED BY <1>1, <2>1, <2>2, <2>3, CalmPlain
<1> QED BY <1>2, <1>3, <1>4, <1>5, <1>6, <1>7, <1>8, CalmOpen, CalmWrite DEF Host

LEMMA CalmInit == Init => CalmInv
<1> SUFFICES ASSUME Init PROVE CalmInv
  OBVIOUS
<1>1. Peaceful
  BY DEF Init, Peaceful
<1>2. ASSUME NEW i \in Ids, NEW r \in OutRoles PROVE OnItsWay(i, r)
  <2>1. pb[i][r] = ClosedBuf /\ io[i][r] = Outside /\ queue = <<>>
    BY DEF Init, Role
  <2>2. ClosedBuf.bufcount = 0 /\ Len(<<>>) = 0
    BY DEF ClosedBuf
  <2>3. QueuedBytes("WRITE", i, r) = 0
    <3>1. queue \in Seq(CommandType) /\ \A k \in 1..Len(queue) : FALSE
      BY <2>1
    <3> QED BY <3>1, QueuedNone, QueuedIs
  <2> QED BY <2>1, <2>2, <2>3, OutsideFields DEF OnItsWay
<1> QED BY <1>1, <1>2 DEF CalmInv

LEMMA CalmNext ==
    ASSUME CreditInv, CreditInv', CalmInv, Calm, [Next]_vars
    PROVE  CalmInv'
<1>1. CASE UNCHANGED vars
  <2>1. UNCHANGED <<pb, conn, peer, events, exit, queue, io>>
    BY <1>1 DEF vars, daemonVars, hostVars
  <2>2. \A j \in Ids, s \in OutRoles : OnItsWay(j, s)'
    BY <2>1, SameBytes, WayKept DEF CalmInv
  <2> QED BY <2>1, <2>2, CalmOutside
<1>2. CASE Next
  <2>1. exit = "no" /\ loop = NoLoop
    BY <1>2 DEF Next, CreditInv, Types
  <2>2. CASE Daemon
    BY <2>1, <2>2, CalmWait, CalmHandle DEF Daemon, HandleEvent, WriteLoop
  <2>3. CASE Host
    BY <2>1, <2>3, CalmHost
  <2>4. CASE \E i \in Ids : Process(i)
    BY <2>1, <2>4, CalmProcess
  <2> QED BY <1>2, <2>2, <2>3, <2>4 DEF Next
<1> QED BY <1>1, <1>2

\* In the absence of every race - events of other streams in the batch of a CLOSE, a process
\* that ends its stdin while data comes, a full pipe, a host that hangs up with events
\* pending - the daemon does not exit but by being reset, for any number of processes and
\* any sizes: of the exits of OnlyTheseExits the races are the only causes.
THEOREM NeverExits == Calm => (Spec => []RunsOn)
<1> SUFFICES ASSUME Calm PROVE Spec => []RunsOn
  OBVIOUS
<1>1. Spec => []CreditInv
  BY CalmIsPrompt, ExecInductive
<1>2. CreditInv /\ CreditInv' /\ CalmInv /\ [Next]_vars => CalmInv'
  BY CalmNext
<1>3. CalmInv => RunsOn
  BY DEF CalmInv, Peaceful, RunsOn
<1> QED BY <1>1, <1>2, <1>3, CalmInit, PTL DEF Spec
===========================================================================
