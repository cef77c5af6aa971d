-------------------------- MODULE PacketizerReadline --------------------------
(***************************************************************************)
(* src/paramiko/packet.py Packetizer.readline: the read of the peer's      *)
(* version line before the packet layer starts, one byte per recv, with a  *)
(* software timeout.  The clock is an integer that time passing advances   *)
(* up to MaxTime; recv(1) returns the next byte of what the peer sent,     *)
(* returns b'' once the peer has closed and everything was read, and       *)
(* blocks while nothing is there.  One step is one pass of the while loop: *)
(* the recv and the two tests after it.                                    *)
(***************************************************************************)
EXTENDS Integers, Sequences, SequencesExt

CONSTANTS
    Streams,    \* what the peer sends: [bytes, closed]
    Timeouts,   \* timeout arguments; NoTimeout is None
    NoTimeout,
    Newline,    \* b'\n'
    MaxTime     \* the clock bound

VARIABLES
    stream,     \* the peer's bytes and whether it closed after them
    timeout,    \* the timeout argument
    got,        \* bytes recv has returned
    buf,        \* buf
    start,      \* start = time.time()
    clock,      \* time.time()
    rstage      \* "idle", "loop", "returned", "timeout"

vars == <<stream, timeout, got, buf, start, clock, rstage>>

Init ==
    /\ stream = CHOOSE s \in Streams : TRUE
    /\ timeout = NoTimeout
    /\ got = 0 /\ buf = <<>> /\ start = 0 /\ clock = 0
    /\ rstage = "idle"

\* readline(timeout) called: buf is empty and the clock read, lines 183-184.
Call(s, t) ==
    /\ rstage = "idle"
    /\ stream' = s /\ timeout' = t
    /\ got' = 0 /\ buf' = <<>> /\ start' = clock
    /\ rstage' = "loop"
    /\ UNCHANGED clock

\* Time passes, inside a blocked recv or between two of them.
Tick ==
    /\ clock < MaxTime
    /\ clock' = clock + 1
    /\ UNCHANGED <<stream, timeout, got, buf, start, rstage>>

\* The deadline test with >= in place of >.
PastDeadlineEarly == timeout # NoTimeout /\ clock - start >= timeout

\* timeout is not None and time.time() - start > timeout, line 189.
PastDeadline == timeout # NoTimeout /\ clock - start > timeout

\* One pass of the while loop, lines 185-190: recv(1) returns a byte, or
\* b'' when the peer has closed and all was read (it blocks otherwise);
\* a buf ending in a newline is returned, else past the deadline
\* socket.timeout is raised.
RecvStep ==
    /\ rstage = "loop"
    /\ got < Len(stream.bytes) \/ stream.closed
    /\ LET b == IF got < Len(stream.bytes) THEN <<stream.bytes[got + 1]>> ELSE <<>>
           nbuf == buf \o b
       IN  /\ buf' = nbuf
           /\ got' = got + Len(b)
           /\ rstage' = IF nbuf # <<>> /\ Last(nbuf) = Newline THEN "returned"
                        ELSE IF PastDeadline THEN "timeout" ELSE "loop"
    /\ UNCHANGED <<stream, timeout, start, clock>>

\* The clock bound: nothing more happens once MaxTime is reached, or after
\* readline returned or raised.
Done ==
    /\ rstage \in {"returned", "timeout"} \/ clock = MaxTime
    /\ UNCHANGED vars

Next ==
    \/ \E s \in Streams, t \in Timeouts \cup {NoTimeout} : Call(s, t)
    \/ Tick
    \/ RecvStep
    \/ Done

Spec == Init /\ [][Next]_vars

-----------------------------------------------------------------------------

\* The peer's bytes up to and including the first newline.
FirstLine(bs) ==
    LET nl == {j \in DOMAIN bs : bs[j] = Newline} IN
    IF nl = {} THEN bs ELSE SubSeq(bs, 1, Min(nl))

TypeOK ==
    /\ rstage \in {"idle", "loop", "returned", "timeout"}
    /\ got \in 0..Len(stream.bytes)
    /\ clock \in 0..MaxTime

\* spec.md, readline: the bytes up to and including a newline are
\* returned, and the timeout error is raised only when the overall
\* timeout across the reads is exceeded; the software check of line 189
\* never fires early and never drops a line that is complete.
ReadlineResult ==
    /\ rstage = "returned" => buf = FirstLine(stream.bytes) /\ Last(buf) = Newline
    /\ rstage = "timeout" => /\ timeout # NoTimeout /\ clock - start > timeout
                             /\ IsPrefix(buf, FirstLine(stream.bytes))
                             /\ Newline \notin ToSet(buf)

====
