------------------------------ MODULE ByteStream ------------------------------
(***************************************************************************)
(* What a channel's receive buffer promises its readers, stated without    *)
(* locks, conditions or events (the docstrings of buffered_pipe.py):       *)
(* bytes are appended by feed; a read hands out a non-empty prefix of what *)
(* is buffered, or b'' when the pipe is closed and drained, or times out;  *)
(* empty() hands out everything buffered; a closed pipe stays closed.      *)
(* BufferedPipe is checked against it through a refinement mapping.       *)
(***************************************************************************)
EXTENDS Sequences, SequencesExt

CONSTANT Readers

VARIABLES
    buf,    \* the bytes buffered
    taken,  \* the bytes handed out by reads and empty(), in order
    shut,   \* the pipe was closed
    res     \* the result of each reader's last read

vars == <<buf, taken, shut, res>>

Init ==
    /\ buf = <<>> /\ taken = <<>> /\ shut = FALSE
    /\ res = [r \in Readers |-> "none"]

\* feed(data): bytes are added at the end.
Put ==
    /\ IsStrictPrefix(buf, buf')
    /\ UNCHANGED <<taken, shut, res>>

\* read(nbytes) returning data: a non-empty prefix leaves the buffer.
Get(r) ==
    /\ \E n \in 1..Len(buf) :
          /\ buf' = SubSeq(buf, n + 1, Len(buf))
          /\ taken' = taken \o SubSeq(buf, 1, n)
    /\ res' = [res EXCEPT ![r] = "data"]
    /\ UNCHANGED shut

\* read returning b'': only on a closed, drained pipe.
Eof(r) ==
    /\ shut /\ buf = <<>>
    /\ res' = [res EXCEPT ![r] = "eof"]
    /\ UNCHANGED <<buf, taken, shut>>

\* read raising PipeTimeout.
Timeout(r) ==
    /\ res' = [res EXCEPT ![r] = "timeout"]
    /\ UNCHANGED <<buf, taken, shut>>

\* empty(): everything buffered is handed out.
Drain ==
    /\ taken' = taken \o buf /\ buf' = <<>>
    /\ UNCHANGED <<shut, res>>

Close ==
    /\ shut' = TRUE
    /\ UNCHANGED <<buf, taken, res>>

Next ==
    \/ Put \/ Drain \/ Close
    \/ \E r \in Readers : Get(r) \/ Eof(r) \/ Timeout(r)

Spec == Init /\ [][Next]_vars

====
