-------------------------------- MODULE RSAKey --------------------------------
(***************************************************************************)
(* src/paramiko/rsakey.py RSAKey.__init__, with the type check it calls,   *)
(* PKey._check_type_and_load_cert, and PKey.load_certificate of pkey.py.   *)
(* A call is one step: Python runs it to its return or its exception.      *)
(*                                                                         *)
(* A Message (message.py is not part of this tree) is the list of its     *)
(* fields, read front to back by the get_* calls as the design describes   *)
(* the message codec: each get advances a cursor and fails with a          *)
(* decoding error when no field is left.  On the wire a text, a string    *)
(* and an mpint are all a uint32 length and bytes, so any field can be    *)
(* read as any of them: a field records what it was written as and the    *)
(* value get_mpint reads from its bytes.                                   *)
(***************************************************************************)
EXTENDS Integers, Sequences

CONSTANTS
    Messages,       \* the msg and data arguments: [isMessage, fields]
    KeyArgs,        \* key arguments: cryptography key objects
    CertArgs,       \* the value arguments of load_certificate
    NoKey           \* None

\* RSAKey.name and the cert_type __init__ passes.
KeyType == "ssh-rsa"
RsaCertType == "ssh-rsa-cert-v01@openssh.com"

\* str.endswith('-cert-v01@openssh.com') over the type names the messages
\* carry.
EndsWithCertSuffix(t) ==
    t \in {RsaCertType, "ssh-ed25519-cert-v01@openssh.com"}

VARIABLES
    call,           \* the constructor arguments: [kind, msg, key]
    key,            \* self.key: NoKey, <<e, n>> or a key object
    publicBlob,     \* self.public_blob
    raised,         \* the exception the last call raised, or "none"
    stage           \* "new" (no object yet), "built", "failed"

vars == <<call, key, publicBlob, raised, stage>>

-----------------------------------------------------------------------------
(* Message reads, from the design of the message codec.                    *)

\* get_text at field p: the text a text field holds; other bytes decode to
\* a text that is no key type name.
TextAt(m, p) == IF m.fields[p].kind = "text" THEN m.fields[p].val ELSE "other"

\* get_mpint at field p: the integer its bytes spell.
MpintAt(m, p) == m.fields[p].val

HasField(m, p) == p <= Len(m.fields)

\* The type check without its final else: every type is accepted.
CheckTypeAcceptsAny(m, keyType, certType) ==
    IF ~m.isMessage THEN [err |-> "SSHException", pos |-> 1]
    ELSE IF ~HasField(m, 1) THEN [err |-> "DecodeError", pos |-> 1]
    ELSE [err |-> "none", pos |-> 2]

\* _check_type_and_load_cert(msg, key_type, cert_type), pkey.py lines
\* 482-496: the position after the fields it read, or the exception.  A
\* msg that is not a Message has no get_text (AttributeError, turned into
\* SSHException); a type equal to key_type or cert_type is accepted as is;
\* only the RSA cert type that is neither has its nonce skipped.
CheckTypeAndLoadCert(m, keyType, certType) ==
    IF ~m.isMessage THEN [err |-> "SSHException", pos |-> 1]
    ELSE IF ~HasField(m, 1) THEN [err |-> "DecodeError", pos |-> 1]
    ELSE IF TextAt(m, 1) \in {keyType, certType} THEN [err |-> "none", pos |-> 2]
    ELSE IF TextAt(m, 1) = RsaCertType
         THEN IF HasField(m, 2) THEN [err |-> "none", pos |-> 3]
                                ELSE [err |-> "DecodeError", pos |-> 2]
    ELSE [err |-> "SSHException", pos |-> 2]

\* rsa.RSAPublicNumbers(e=e, n=n).public_key(), rsakey.py line 38: the
\* public numbers cryptography accepts (3 <= e < n, e odd); others
\* raise ValueError.
ValidPublicNumbers(e, n) == 3 <= e /\ e < n /\ e % 2 = 1

-----------------------------------------------------------------------------

Init ==
    /\ call = [kind |-> "none", msg |-> CHOOSE m \in Messages : TRUE, key |-> NoKey]
    /\ key = NoKey
    /\ publicBlob = NoKey
    /\ raised = "none"
    /\ stage = "new"

\* The msg branch of __init__, lines 33-38, as its outcome: the type check,
\* then e and n read with get_mpint, then the public key built.
FromMessage(m) ==
    LET c == CheckTypeAndLoadCert(m, KeyType, RsaCertType)
        e == MpintAt(m, c.pos)
        n == MpintAt(m, c.pos + 1)
    IN  CASE c.err # "none" -> [err |-> c.err, key |-> NoKey]
          [] ~HasField(m, c.pos + 1) -> [err |-> "DecodeError", key |-> NoKey]
          [] ~ValidPublicNumbers(e, n) -> [err |-> "ValueError", key |-> NoKey]
          [] OTHER -> [err |-> "none", key |-> <<e, n>>]

\* RSAKey(msg, data, filename, password, key, file_obj), lines 20-40: the
\* file_obj and filename branches call _from_private_key and
\* _from_private_key_file, which no class of this tree defines; data is
\* wrapped in a Message; a key object is stored; with none of them
\* SSHException is raised.
New(a) ==
    /\ stage = "new"
    /\ call' = a
    /\ LET r == CASE a.kind \in {"file_obj", "filename"} -> [err |-> "AttributeError", key |-> NoKey]
                  [] a.kind \in {"msg", "data"} -> FromMessage(a.msg)
                  [] a.kind = "key" -> [err |-> "none", key |-> a.key]
                  [] OTHER -> [err |-> "SSHException", key |-> NoKey]
       IN  /\ key' = r.key
           /\ raised' = r.err
           /\ stage' = IF r.err = "none" THEN "built" ELSE "failed"
    /\ publicBlob' = NoKey

\* load_certificate(value), pkey.py lines 517-533, on a built key: a
\* Message is used as is; a str (a path or the contents) is split and its
\* second word base64-decoded into a Message; anything else is ValueError.
\* A certificate type is handed to PublicBlob.from_message, whose body is
\* empty (lines 576-583), so public_blob becomes None.
LoadCertificate(v) ==
    /\ stage = "built"
    /\ LET r == CASE v.kind = "other" -> "ValueError"
                  [] v.kind = "str" /\ v.words < 2 -> "IndexError"
                  [] v.kind = "str" /\ ~v.b64 -> "binascii.Error"
                  [] ~HasField(v.msg, 1) -> "DecodeError"
                  [] EndsWithCertSuffix(TextAt(v.msg, 1)) -> "none"
                  [] OTHER -> "ValueError"
       IN  /\ raised' = r
           /\ publicBlob' = IF r = "none" THEN NoKey ELSE publicBlob
    /\ UNCHANGED <<call, key, stage>>

Done == stage = "failed" /\ UNCHANGED vars

Next ==
    \/ \E m \in Messages, k \in KeyArgs,
          kd \in {"msg", "data", "key", "file_obj", "filename", "none"} :
          /\ kd = "data" => m.isMessage
          /\ New([kind |-> kd, msg |-> m, key |-> k])
    \/ \E v \in CertArgs : LoadCertificate(v)
    \/ Done

Spec == Init /\ [][Next]_vars

-----------------------------------------------------------------------------

TypeOK ==
    /\ stage \in {"new", "built", "failed"}
    /\ raised \in {"none", "SSHException", "AttributeError", "DecodeError",
                   "ValueError", "IndexError", "binascii.Error"}
    /\ stage = "built" => key # NoKey

\* A message or data argument holding a plain public key: its type and the
\* mpints e and n.
PlainKeyMessage(m) ==
    /\ m.isMessage /\ Len(m.fields) = 3
    /\ \A p \in 2..3 : m.fields[p].kind = "mpint"

\* The __init__ docstring of PKey (the key's public parts are filled in
\* from the message): an RSAKey built from an ssh-rsa public key message
\* holds exactly that message's e and n, one whose e and n cryptography
\* rejects is not built, and a message of any other key type is refused
\* with SSHException.
PlainKeyLoaded ==
    (stage # "new" /\ call.kind \in {"msg", "data"} /\ PlainKeyMessage(call.msg)) =>
        LET e == MpintAt(call.msg, 2)
            n == MpintAt(call.msg, 3)
        IN  /\ TextAt(call.msg, 1) = KeyType =>
                 IF ValidPublicNumbers(e, n) THEN stage = "built" /\ key = <<e, n>>
                                             ELSE raised = "ValueError"
            /\ TextAt(call.msg, 1) \notin {KeyType, RsaCertType} =>
                 raised = "SSHException" /\ key = NoKey

\* A certificate message: the RSA cert type, a nonce string, then the
\* mpints e and n (PROTOCOL.certkeys), then the other certificate fields.
CertMessage(m) ==
    /\ m.isMessage /\ Len(m.fields) >= 4
    /\ TextAt(m, 1) = RsaCertType
    /\ m.fields[2].kind = "string"
    /\ m.fields[3].kind = "mpint" /\ m.fields[4].kind = "mpint"

\* The docstring of _check_type_and_load_cert: a cert message is
\* fast-forwarded past the nonce, so that the fields after it are the key
\* numbers; an RSAKey built from an ssh-rsa certificate holds the
\* certificate's e and n.
CertKeyLoaded ==
    (stage # "new" /\ call.kind \in {"msg", "data"} /\ CertMessage(call.msg)
        /\ ValidPublicNumbers(MpintAt(call.msg, 3), MpintAt(call.msg, 4)))
        => stage = "built" /\ key = <<MpintAt(call.msg, 3), MpintAt(call.msg, 4)>>

====
