--------------------------- MODULE MC_Packetizer ---------------------------
(* Instantiation of Packetizer for TLC: a client end c and a server end s. *)
EXTENDS Packetizer

CONSTANTS c, s, w1, w2

\* One writer thread per end: sends serialised as the spec requires.
OneWriterEach == (w1 :> c) @@ (w2 :> s)

\* Two writer threads on the client end, none on the server end.
TwoClientWriters == (w1 :> c) @@ (w2 :> c)

\* An SSH_MSG_IGNORE and an SSH_MSG_CHANNEL_DATA body of 4 bytes, so that
\* 4 + len(ciphertext) is one 8-byte block.
FourBytePayloads == {<<2, 0, 0, 0>>, <<94, 0, 0, 1>>}

\* A 5-byte payload besides, which no code path pads to the block size.
MixedPayloads == {<<2, 0, 0, 0>>, <<1, 5, 6, 7, 8>>}
====
