--------------------------- MODULE MC_BufferedPipe ---------------------------
(* Model values for the reader threads of BufferedPipe. *)
EXTENDS BufferedPipe

CONSTANTS r1, r2

OneReader == {r1}
TwoReaders == {r1, r2}
====
