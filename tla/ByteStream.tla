----------------------------- MODULE ByteStream -----------------------------
(***************************************************************************)
(* What the streams of processes started over USB promise, whichever way   *)
(* they flow: the consumer gets the bytes the producer put, in order, none *)
(* lost, repeated or altered, and it sees the end of the stream only once  *)
(* it has everything.  Opening the process starts its streams; closing it  *)
(* or losing the connection drops them.                                    *)
(*                                                                         *)
(* The k-th byte put is the number k.                                      *)
(***************************************************************************)
EXTENDS Naturals, Sequences

CONSTANT Streams

VARIABLES
    mode,   \* "off": no process; "open"; "done": the consumer saw the end
    put,    \* number of bytes the producer has put
    got     \* the bytes the consumer has got

vars == <<mode, put, got>>

\* The bytes a stream delivers are the first Len(s) ones.
Prefix(s) == \A i \in 1..Len(s) : s[i] = i

Init ==
    /\ mode = [s \in Streams |-> "off"]
    /\ put = [s \in Streams |-> 0]
    /\ got = [s \in Streams |-> <<>>]

Open(s) ==
    /\ mode[s] = "off"
    /\ mode'[s] = "open"
    /\ put'[s] = 0
    /\ got'[s] = <<>>

Put(s) ==
    /\ mode[s] = "open"
    /\ put'[s] > put[s]
    /\ mode'[s] = mode[s] /\ got'[s] = got[s]

\* The consumer gets more bytes, sees the end, or both.
Get(s) ==
    /\ mode[s] = "open"
    /\ Len(got[s]) <= Len(got'[s]) /\ Len(got'[s]) <= put[s]
    /\ Prefix(got'[s])
    /\ \/ mode'[s] = "open"
       \/ mode'[s] = "done" /\ Len(got'[s]) = put[s]
    /\ put'[s] = put[s]

Drop(s) ==
    /\ mode[s] # "off"
    /\ mode'[s] = "off"
    /\ put'[s] = 0
    /\ got'[s] = <<>>

Rest(s) == mode'[s] = mode[s] /\ put'[s] = put[s] /\ got'[s] = got[s]

\* One command, or the end of the connection, affects several streams at once.
Next == \A s \in Streams : Open(s) \/ Put(s) \/ Get(s) \/ Drop(s) \/ Rest(s)

Spec == Init /\ [][Next]_vars
=============================================================================
