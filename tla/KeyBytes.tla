------------------------------- MODULE KeyBytes -------------------------------
(***************************************************************************)
(* src/paramiko/util.py generate_key_bytes: the key and IV of an encrypted *)
(* private key file derived from a passphrase and a salt, one hash per    *)
(* round of the while loop.  The hash is a free function: a digest is      *)
(* DigestLen symbols naming the exact input hashed and their place in the *)
(* digest, so two digests are equal only when their inputs are.  b(key)  *)
(* is the passphrase as one symbol.                                        *)
(***************************************************************************)
EXTENDS Integers, Sequences, SequencesExt

CONSTANTS
    Passphrases,    \* key arguments
    Salts,          \* salt arguments, byte strings
    NBytes,         \* nbytes arguments
    DigestLen       \* len(hash_obj.digest()), scaled

VARIABLES
    gkey,       \* key
    gsalt,      \* salt, after the cut to 8 bytes
    gleft,      \* nbytes, as the loop leaves it
    gdata,      \* keydata
    gdigest,    \* digest
    gwant,      \* the nbytes argument
    gsaltArg,   \* the salt argument
    gstage      \* "call", "loop", "done"

vars == <<gkey, gsalt, gleft, gdata, gdigest, gwant, gsaltArg, gstage>>

\* hash_alg() updated with the bytes of input, then digest().
Hash(input) == [j \in 1..DigestLen |-> [in |-> input, at |-> j]]

Min2(a, b) == IF a < b THEN a ELSE b

-----------------------------------------------------------------------------
(* The reference: OpenSSL's EVP_BytesToKey with one iteration, which the   *)
(* PEM key format uses.  D_1 = H(pass || salt8), D_i = H(D_(i-1) || pass  *)
(* || salt8); the key is the first nbytes of D_1 || D_2 || ...            *)

RECURSIVE Chain(_, _, _)
Chain(p, s8, i) ==
    IF i = 1 THEN Hash(<<p>> \o s8) ELSE Hash(Chain(p, s8, i - 1) \o <<p>> \o s8)

EVPBytesToKey(p, salt, n) ==
    LET s8 == SubSeq(salt, 1, Min2(8, Len(salt)))
        rounds == (n + DigestLen - 1) \div DigestLen
    IN  SubSeq(FlattenSeq([i \in 1..rounds |-> Chain(p, s8, i)]), 1, n)

-----------------------------------------------------------------------------

Init ==
    /\ gkey = CHOOSE p \in Passphrases : TRUE
    /\ gsalt = <<>> /\ gsaltArg = <<>>
    /\ gleft = 0 /\ gwant = 0
    /\ gdata = <<>> /\ gdigest = <<>>
    /\ gstage = "call"

\* The call generate_key_bytes(hash_alg, salt, key, nbytes), lines 72-75:
\* keydata and digest start empty; a salt longer than 8 bytes is cut.
Call(p, salt, n) ==
    /\ gstage = "call"
    /\ gkey' = p /\ gsaltArg' = salt /\ gwant' = n /\ gleft' = n
    /\ gsalt' = IF Len(salt) > 8 THEN SubSeq(salt, 1, 8) ELSE salt
    /\ gdata' = <<>> /\ gdigest' = <<>>
    /\ gstage' = "loop"

\* A round that hashes key and salt without the previous digest.
RoundNoChain ==
    LET d == Hash(<<gkey>> \o gsalt)
        size == Min2(gleft, Len(d))
    IN  /\ gstage = "loop"
        /\ IF gleft > 0
             THEN /\ gdigest' = d
                  /\ gdata' = gdata \o SubSeq(d, 1, size)
                  /\ gleft' = gleft - size
                  /\ UNCHANGED gstage
             ELSE /\ gstage' = "done"
                  /\ UNCHANGED <<gdigest, gdata, gleft>>
        /\ UNCHANGED <<gkey, gsalt, gwant, gsaltArg>>

\* One pass of the while loop, lines 76-85: the new digest is the hash of
\* the previous digest (if any), the key and the salt; min(nbytes,
\* len(digest)) of its bytes are appended.  The loop ends when nbytes is 0.
Round ==
    LET d == Hash((IF Len(gdigest) > 0 THEN gdigest ELSE <<>>) \o <<gkey>> \o gsalt)
        size == Min2(gleft, Len(d))
    IN  /\ gstage = "loop"
        /\ IF gleft > 0
             THEN /\ gdigest' = d
                  /\ gdata' = gdata \o SubSeq(d, 1, size)
                  /\ gleft' = gleft - size
                  /\ UNCHANGED gstage
             ELSE /\ gstage' = "done"
                  /\ UNCHANGED <<gdigest, gdata, gleft>>
        /\ UNCHANGED <<gkey, gsalt, gwant, gsaltArg>>

Done == gstage = "done" /\ UNCHANGED vars

Next ==
    \/ \E p \in Passphrases, s \in Salts, n \in NBytes : Call(p, s, n)
    \/ Round
    \/ Done

Spec == Init /\ [][Next]_vars

-----------------------------------------------------------------------------

TypeOK ==
    /\ gstage \in {"call", "loop", "done"}
    /\ gleft \in 0..gwant
    /\ Len(gsalt) <= 8

\* The docstring: the bytes that decrypt a private key file written by
\* OpenSSL, that is EVP_BytesToKey of the passphrase and the first 8 bytes
\* of the salt, exactly nbytes of them; and before the loop ends, keydata
\* is always a prefix of them.
KeyBytesEVP ==
    /\ gstage = "loop" => IsPrefix(gdata, EVPBytesToKey(gkey, gsaltArg, gwant))
    /\ gstage = "done" => gdata = EVPBytesToKey(gkey, gsaltArg, gwant)

====
