----------------------------- MODULE RSAKeyInputs -----------------------------
(***************************************************************************)
(* The arguments RSAKey is checked on: plain public key messages of two    *)
(* types, ssh-rsa certificates (PROTOCOL.certkeys: type, nonce, e, n, then *)
(* the other fields), each whole or missing its last field, a Message with *)
(* no field, and a msg that is not a Message; and the values passed to     *)
(* load_certificate.                                                       *)
(***************************************************************************)
EXTENDS Naturals, Sequences

\* Fields as written: a text, a string, an mpint.
Text(t) == [kind |-> "text", val |-> t]
Str(v) == [kind |-> "string", val |-> v]
Mp(v) == [kind |-> "mpint", val |-> v]

\* (e, n): a key cryptography accepts, and one with e >= n.
KeyNumbers == {<<3, 33>>, <<35, 33>>}

\* The integer a 32-byte nonce spells, far above any modulus here.
NonceValue == 1001

PlainMsg(t, k) == [isMessage |-> TRUE, fields |-> <<Text(t), Mp(k[1]), Mp(k[2])>>]
CertMsg(k) ==
    [isMessage |-> TRUE,
     fields |-> <<Text("ssh-rsa-cert-v01@openssh.com"), Str(NonceValue),
                  Mp(k[1]), Mp(k[2]), Str(0)>>]
Cut(m) == [m EXCEPT !.fields = SubSeq(@, 1, Len(@) - 1)]
EmptyMsg == [isMessage |-> TRUE, fields |-> <<>>]

Whole ==
    {PlainMsg(t, k) : t \in {"ssh-rsa", "ssh-ed25519"}, k \in KeyNumbers}
        \cup {CertMsg(k) : k \in KeyNumbers}

TestMessages ==
    Whole \cup {Cut(m) : m \in Whole}
          \cup {EmptyMsg, [isMessage |-> FALSE, fields |-> <<>>]}

\* load_certificate values: a Message, a str of one word, a str whose
\* second word is not base64, a str holding a certificate, and an int.
CertValues ==
    {[kind |-> "message", words |-> 0, b64 |-> TRUE, msg |-> m] : m \in Whole \cup {EmptyMsg}}
        \cup {[kind |-> "str", words |-> w, b64 |-> b, msg |-> CertMsg(<<3, 33>>)] :
                 w \in {1, 3}, b \in BOOLEAN}
        \cup {[kind |-> "other", words |-> 0, b64 |-> TRUE, msg |-> EmptyMsg]}
====
