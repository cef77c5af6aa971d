------------------------------ MODULE MC_KexGSS ------------------------------
(* Two connections: a KexGSSGroup1 client c1 and server s1, a KexGSSGex   *)
(* client c2 and server s2.  The Group1 prime is scaled to 23, with the    *)
(* generator 5.                                                            *)
EXTENDS KexGSS

CONSTANTS c1, s1, c2, s2

Both == {c1, s1, c2, s2}
Classes == (c1 :> "group1") @@ (s1 :> "group1") @@ (c2 :> "gex") @@ (s2 :> "gex")
ServerMode == [d \in Both |-> d \in {s1, s2}]
Peers == (c1 :> s1) @@ (s1 :> c1) @@ (c2 :> s2) @@ (s2 :> c2)

\* os.urandom(127), scaled to one byte: the lowest and highest byte.
OneRandomByte == {<<0>>, <<255>>}
====
