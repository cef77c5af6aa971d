------------------------------ MODULE OpenSSHKey ------------------------------
(***************************************************************************)
(* src/paramiko/pkey.py PKey._read_private_key_openssh: the reader of the  *)
(* OpenSSH private key format (PROTOCOL.key).  A call is one step: Python  *)
(* runs it to its return or its exception.  The decoded file is abstracted *)
(* to whether base64 decoding succeeds, whether its first 15 bytes are     *)
(* OPENSSH_AUTH_MAGIC, and the bytes after them, written in the layout of  *)
(* PROTOCOL.key by CStruct's reference packer and handed over whole or cut *)
(* short.  The fields are read by _uint32_cstruct_unpack, whose field      *)
(* reader is CStruct's.                                                    *)
(***************************************************************************)
EXTENDS Integers, Sequences, SequencesExt

CONSTANTS
    Ciphers,        \* ciphername fields, byte strings
    PubKeys,        \* public key blobs
    PrivKeys,       \* private key sections
    Passwords,      \* password arguments
    NoPassword,     \* None
    Magic,          \* b'openssh-key-v1\x00', the first 15 bytes
    OtherMagic      \* 15 other bytes

\* b'none'
CipherNone == <<110, 111, 110, 101>>

VARIABLES
    file,       \* the decoded key file handed to the call
    password,   \* the password argument
    result,     \* the bytes returned
    raised,     \* the exception raised, or "none"
    stage       \* "call" or "done"

vars == <<file, password, result, raised, stage>>

CS == INSTANCE CStruct WITH Formats <- {}, Strings <- {}, Longs <- {}, Words <- {},
                            cfmt <- <<>>, cvals <- <<>>, cdata <- <<>>, cresult <- <<>>,
                            cpos <- 0, cstage <- "pack", cshort <- FALSE

-----------------------------------------------------------------------------
(* The files: the header fields ciphername, kdfname, kdfoptions, the      *)
(* uint32 number of keys (1), one public key and the private key section, *)
(* as PROTOCOL.key lays them out, behind the magic or another 15 bytes,    *)
(* whole or without their last byte.                                       *)

Body(c, pub, priv) ==
    CS!Pack(<<"s", "s", "s", "u", "s", "s">>, <<c, CipherNone, <<>>, 1, pub, priv>>)

Files ==
    {[b64 |-> b, magic |-> m, cipher |-> c, priv |-> priv,
      body |-> IF cut THEN SubSeq(Body(c, pub, priv), 1, Len(Body(c, pub, priv)) - 1)
                      ELSE Body(c, pub, priv),
      whole |-> ~cut] :
        b \in BOOLEAN, m \in {Magic, OtherMagic}, c \in Ciphers, pub \in PubKeys,
        priv \in PrivKeys, cut \in BOOLEAN}

-----------------------------------------------------------------------------

\* _uint32_cstruct_unpack(data, strformat), lines 426-442, as one call: the
\* values of the letters, or err when struct.unpack raises struct.error on
\* fewer than 4 bytes.
RECURSIVE CstructUnpack(_, _)
CstructUnpack(d, fs) ==
    IF fs = <<>> THEN [vals |-> <<>>, err |-> FALSE]
    ELSE IF Head(fs) # "r" /\ Len(d) < 4 THEN [vals |-> <<>>, err |-> TRUE]
    ELSE LET field == CS!UnpackField(d, Head(fs))
             rest == CstructUnpack(field.rest, Tail(fs))
         IN  [vals |-> <<field.val>> \o rest.vals, err |-> rest.err]

Init ==
    /\ file = CHOOSE f \in Files : TRUE
    /\ password = NoPassword
    /\ result = <<>>
    /\ raised = "none"
    /\ stage = "call"

\* _read_private_key_openssh(lines, password), lines 382-411.  The bare
\* except turns a base64 error into SSHException; struct.error out of the
\* unpacking is not caught; num_keys is read with 'i'; the encrypted case
\* goes on without decrypting; the second unpack starts again at data.
ReadPrivateKeyOpenSSH(f, pw) ==
    LET hdr == CstructUnpack(f.body, <<"s", "s", "s", "i">>)
        keys == CstructUnpack(f.body, <<"s", "s", "s">>)
    IN
    /\ stage = "call"
    /\ file' = f /\ password' = pw /\ stage' = "done"
    /\ CASE ~f.b64 ->
              raised' = "SSHException" /\ UNCHANGED result
         [] f.magic # Magic ->
              raised' = "SSHException" /\ UNCHANGED result
         [] hdr.err ->
              raised' = "struct.error" /\ UNCHANGED result
         [] hdr.vals[4] # 1 ->
              raised' = "SSHException" /\ UNCHANGED result
         [] hdr.vals[1] # CipherNone /\ pw = NoPassword ->
              raised' = "PasswordRequiredException" /\ UNCHANGED result
         [] keys.err ->
              raised' = "struct.error" /\ UNCHANGED result
         [] OTHER ->
              raised' = "none" /\ result' = keys.vals[2]

Done == stage = "done" /\ UNCHANGED vars

Next ==
    \/ \E f \in Files, pw \in Passwords \cup {NoPassword} : ReadPrivateKeyOpenSSH(f, pw)
    \/ Done

Spec == Init /\ [][Next]_vars

-----------------------------------------------------------------------------

\* The docstring (read the OpenSSH format of PROTOCOL.key): a whole,
\* well-formed file holding one unencrypted key is read without an
\* exception, and what comes back is its private key section.
ReadsOpenSSHKey ==
    (stage = "done" /\ file.b64 /\ file.magic = Magic /\ file.whole
        /\ file.cipher = CipherNone)
        => raised = "none" /\ result = file.priv

====
