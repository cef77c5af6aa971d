---------------------------- MODULE MC_Sequential ----------------------------
(***************************************************************************)
(* The single-threaded components, checked side by side in one model: the *)
(* wire codecs, the integer codec                                          *)
(* of util.py (Codec), the BER codec of ber.py (Ber), the reader of       *)
(* OpenSSH key structures of pkey.py (CStruct) and the passphrase key      *)
(* derivation generate_key_bytes of util.py (KeyBytes), and two line       *)
(* readers: SSHConfig.parse of config.py (ConfigParse) and                 *)
(* ModulusPack.read_file of primes.py (Moduli), and the version-line read  *)
(* Packetizer.readline of packet.py (PacketizerReadline), and the two     *)
(* file-backed objects: the buffering of file.py (BufferedFile) and the    *)
(* known_hosts table of hostkeys.py (HostKeys); and the construction of    *)
(* an RSAKey from a key message (RSAKey).  They share no                   *)
(* state, so the model is their disjoint sum: a behaviour picks one part   *)
(* in its first state and runs only that part, the other staying in its    *)
(* initial state.  The state space is the sum of the parts, not their      *)
(* product.                                                                *)
(***************************************************************************)
EXTENDS Integers, Sequences, RSAKeyInputs

CONSTANTS Values, Idents, Lengths, MaxItems, Formats, Strings, Longs, Words,
          Passphrases, Salts, NBytes, DigestLen, NoValue, Junk,
          Timeouts, NoTimeout, MaxTime,
          StreamLen, Newlines, Modes, BufSizes, DefaultBufSize, ReadSizes,
          WriteData, WriteLists, SeekOffsets, FileCalls,      \* BufferedFile
          Hosts, KeyTypes, KeyIds, NoKey, HostKeyCalls,        \* HostKeys
          KeyObject                                           \* RSAKey

VARIABLES
    part,                           \* the codec this behaviour exercises
    n, positive, enc, dec, stage,   \* Codec
    content, idx, encoded, decoded, phase, short,  \* Ber
    cfmt, cvals, cdata, cresult, cpos, cstage, cshort,  \* CStruct
    gkey, gsalt, gleft, gdata, gdigest, gwant, gsaltArg, gstage,  \* KeyBytes
    plines, pi, pconfig, phost, pstage, plooked,    \* ConfigParse
    mlines, mi, pack, discarded, mstage,            \* Moduli
    stream, timeout, got, buf, start, clock, rstage, \* PacketizerReadline
    flags, bufsize, rbuffer, wbuffer, pos, spos, written, returned,
    lastLine, lastSize, fcalls,                     \* BufferedFile
    entries, raised, last, hcalls, saved,           \* HostKeys
    kcall, kkey, publicBlob, kraised, kstage        \* RSAKey

\* ssh_config lines: blank, a comment, "Host h", "Host=h" (a setting whose
\* key is host), "Match all", "Port 22", "Port 2222" and a bare "Port".
CfgLine(t, kw, sep, val) == [t |-> t, kw |-> kw, sep |-> sep, val |-> val]
ConfigLines ==
    {CfgLine("blank", "", "", NoValue), CfgLine("comment", "", "", NoValue),
     CfgLine("words", "host", " ", "h"), CfgLine("words", "host", "=", "h"),
     CfgLine("words", "match", " ", "all"), CfgLine("words", "port", " ", "22"),
     CfgLine("words", "port", " ", "2222"), CfgLine("words", "port", " ", NoValue)}
ConfigFiles == UNION {[1..k -> ConfigLines] : k \in 0..3}

\* moduli lines: blank, a comment, two generators for one modulus, another
\* modulus, a junk first field (never converted), junk in the modulus and
\* in the size, and three fields.
ModLine(t, fs) == [t |-> t, fields |-> fs]
ModuliLines ==
    {ModLine("blank", <<>>), ModLine("comment", <<>>),
     ModLine("words", <<1, 23, 5, 8>>), ModLine("words", <<1, 23, 2, 8>>),
     ModLine("words", <<1, 29, 2, 8>>), ModLine("words", <<Junk, 29, 2, 8>>),
     ModLine("words", <<1, Junk, 2, 8>>), ModLine("words", <<1, 23, 5, Junk>>),
     ModLine("words", <<1, 23, 5>>)}
ModuliFileSet == UNION {[1..k -> ModuliLines] : k \in 0..3}

\* What the peer sends before readline: a line and more, a line cut short
\* then closed, a line cut short with the peer still open, nothing then
\* closed.
PeerStreams ==
    {[bytes |-> <<"a", "nl", "a">>, closed |-> FALSE],
     [bytes |-> <<"a">>, closed |-> TRUE],
     [bytes |-> <<"a">>, closed |-> FALSE],
     [bytes |-> <<>>, closed |-> TRUE]}

C == INSTANCE Codec
B == INSTANCE Ber
S == INSTANCE CStruct
G == INSTANCE KeyBytes
P == INSTANCE ConfigParse WITH Files <- ConfigFiles, lines <- plines, i <- pi,
                               config <- pconfig, host <- phost, stage <- pstage,
                               looked <- plooked
M == INSTANCE Moduli WITH ModuliFiles <- ModuliFileSet
L == INSTANCE PacketizerReadline WITH Streams <- PeerStreams, Newline <- "nl"
F == INSTANCE BufferedFile WITH calls <- fcalls, MaxCalls <- FileCalls
H == INSTANCE HostKeys WITH calls <- hcalls, MaxCalls <- HostKeyCalls
R == INSTANCE RSAKey WITH Messages <- TestMessages, KeyArgs <- {KeyObject},
                          CertArgs <- CertValues, call <- kcall, key <- kkey,
                          raised <- kraised, stage <- kstage

cvars == <<n, positive, enc, dec, stage>>
bvars == <<content, idx, encoded, decoded, phase, short>>
svars == <<cfmt, cvals, cdata, cresult, cpos, cstage, cshort>>
gvars == <<gkey, gsalt, gleft, gdata, gdigest, gwant, gsaltArg, gstage>>
pvars == <<plines, pi, pconfig, phost, pstage, plooked>>
mvars == <<mlines, mi, pack, discarded, mstage>>
lvars == <<stream, timeout, got, buf, start, clock, rstage>>
fvars == <<flags, bufsize, rbuffer, wbuffer, pos, spos, written, returned,
           lastLine, lastSize, fcalls>>
hvars == <<entries, raised, last, hcalls, saved>>
rvars == <<kcall, kkey, publicBlob, kraised, kstage>>
vars == <<part, cvars, bvars, svars, gvars, pvars, mvars, lvars, fvars, hvars, rvars>>

Parts == {"codec", "ber", "cstruct", "keybytes", "config", "moduli", "readline",
          "file", "hostkeys", "rsakey"}

\* The idle Codec part: its initial state for the first value.
CodecIdle == C!Init /\ n = (CHOOSE v \in Values : TRUE) /\ ~positive

\* The idle BufferedFile part: opened "r" with the default bufsize.
FileIdle == F!Init /\ flags = F!ModeFlags({"r"}, -1)

Init ==
    /\ B!Init /\ S!Init /\ G!Init /\ P!Init /\ M!Init /\ L!Init /\ H!Init /\ R!Init
    /\ part \in Parts
    /\ IF part = "codec" THEN C!Init ELSE CodecIdle
    /\ IF part = "file" THEN F!Init ELSE FileIdle

Next ==
    \/ part = "codec" /\ C!Next
       /\ UNCHANGED <<part, bvars, svars, gvars, pvars, mvars, lvars, fvars, hvars, rvars>>
    \/ part = "ber" /\ B!Next
       /\ UNCHANGED <<part, cvars, svars, gvars, pvars, mvars, lvars, fvars, hvars, rvars>>
    \/ part = "cstruct" /\ S!Next
       /\ UNCHANGED <<part, cvars, bvars, gvars, pvars, mvars, lvars, fvars, hvars, rvars>>
    \/ part = "keybytes" /\ G!Next
       /\ UNCHANGED <<part, cvars, bvars, svars, pvars, mvars, lvars, fvars, hvars, rvars>>
    \/ part = "config" /\ P!Next
       /\ UNCHANGED <<part, cvars, bvars, svars, gvars, mvars, lvars, fvars, hvars, rvars>>
    \/ part = "moduli" /\ M!Next
       /\ UNCHANGED <<part, cvars, bvars, svars, gvars, pvars, lvars, fvars, hvars, rvars>>
    \/ part = "readline" /\ L!Next
       /\ UNCHANGED <<part, cvars, bvars, svars, gvars, pvars, mvars, fvars, hvars, rvars>>
    \/ part = "file" /\ F!Next
       /\ UNCHANGED <<part, cvars, bvars, svars, gvars, pvars, mvars, lvars, hvars, rvars>>
    \/ part = "hostkeys" /\ H!Next
       /\ UNCHANGED <<part, cvars, bvars, svars, gvars, pvars, mvars, lvars, fvars, rvars>>
    \/ part = "rsakey" /\ R!Next
       /\ UNCHANGED <<part, cvars, bvars, svars, gvars, pvars, mvars, lvars, fvars, hvars>>

Spec == Init /\ [][Next]_vars

\* A TLC integer as a long: its four two's-complement bytes.
AsLong(i) == <<(i \div 16777216) % 256, (i \div 65536) % 256, (i \div 256) % 256, i % 256>>

\* Every value of up to two bytes around zero, the 16- and 24-bit and sign
\* boundaries above it.
SmallAndBoundaries ==
    {AsLong(v) : v \in -300..300} \cup
    {AsLong(v) : v \in {32767, 32768, -32768, -32769, 65535, 65536, -65536,
                          -65537, 16777216, -16777216, 2147483647, -2147483647}}
    \cup
    \* 2^31, 2^32 - 1, 2^32, 2^32 + 1, 2^40, 2^63, 2^64 - 1, 2^64, and
    \* -2^31 - 1, -2^32: two and three words, with and without sign padding.
    {<<0, 128, 0, 0, 0>>, <<0, 255, 255, 255, 255>>, <<1, 0, 0, 0, 0>>,
     <<1, 0, 0, 0, 1>>, <<1, 0, 0, 0, 0, 0>>, <<0, 128, 0, 0, 0, 0, 0, 0, 0>>,
     <<0, 255, 255, 255, 255, 255, 255, 255, 255>>,
     <<1, 0, 0, 0, 0, 0, 0, 0, 0>>, <<255, 127, 255, 255, 255>>,
     <<255, 0, 0, 0, 0>>}

\* A stream of 6 bytes holding two newlines, so that lines end inside a
\* refill, at a refill boundary and at EOF without a newline.
TwoLines == {2, 5}

ReadModes == {{"r"}, {"r", "b"}, {"r", "+"}, {"a"}}

\* bufsize -1 (the default), 0 and 2; read sizes None, 1 and 3.
BufSizeArgs == {-1, 0, 2}
ReadSizeArgs == {-1, 1, 3}    \* -1 is None

\* writelines of two lines, of 1 and 2 bytes.
LineLengths == {<<1, 2>>}

\* BER lengths on both sides of the 127-byte boundary of encode_tlv.
ShortAndLong == {0, 3, 127, 128, 130}

\* The header of PROTOCOL.key as _read_private_key_openssh reads it
\* ("sssi") and as the format defines it ("sssu"), and every letter once.
KeyFormats == {<<"s", "s", "s", "i">>, <<"s", "s", "s", "u">>,
               <<"s", "i", "u", "r">>}

\* Empty, one-byte and three-byte strings.
ShortStrings == {<<>>, <<0>>, <<1, 2, 3>>}

\* An empty salt, a short one and one longer than the 8 bytes used.
SaltArgs == {<<>>, <<1, 2, 3>>, <<1, 2, 3, 4, 5, 6, 7, 8, 9, 10>>}

-----------------------------------------------------------------------------

TypeOK == part \in Parts /\ C!TypeOK /\ B!TypeOK /\ S!TypeOK
          /\ G!TypeOK /\ P!TypeOK /\ M!TypeOK /\ L!TypeOK /\ F!TypeOK /\ H!TypeOK
          /\ R!TypeOK

\* What BER.encode_tlv and kex_gss rely on (util.deflate_long then
\* util.inflate_long): a non-negative integer comes back, with or without
\* always_positive.
UnsignedRoundTrip == C!UnsignedRoundTrip

\* ber.py decode_seq reads back exactly what encode_seq wrote: from a short
\* content a prefix of the items and never an item that was not encoded
\* (a length written by deflate_long is read back by the long-form loop of
\* decode); from the whole content all of them.
DecodeSeqRoundTrip == B!DecodeSeqRoundTrip

\* pkey.py _uint32_cstruct_unpack reads back, field by field, a structure
\* written in the PROTOCOL.key layout of strings, length-prefixed integers
\* and uint32s, and raises nothing on it.
CstructRoundTrip == S!CstructRoundTrip

\* util.py generate_key_bytes derives exactly the nbytes that OpenSSL's
\* EVP_BytesToKey gives for the passphrase and the first 8 bytes of the
\* salt, the key and IV of PEM private key files.
KeyBytesEVP == G!KeyBytesEVP

\* config.py SSHConfig.parse puts each setting line in the section opened
\* by the last Host or Match line above it, closes every section in file
\* order, and on a malformed line leaves exactly the sections before it.
ParseSections == P!ParseSections

\* primes.py ModulusPack.read_file keeps every well-formed moduli line in
\* pack under its modulus, in file order, and every other non-blank,
\* non-comment line in discarded, and no line in both.
ModuliKept == M!ModuliKept

\* packet.py Packetizer.readline returns the peer's bytes up to and
\* including the first newline, and raises socket.timeout only once the
\* time since the call exceeds the timeout, with no whole line in buf.
ReadlineResult == L!ReadlineResult

\* BufferedFile.read and readline: the bytes handed to the caller are the
\* stream's bytes in order, each once, whatever the mode and buffer size.
ReadsInOrder == F!ReadsInOrder

\* BufferedFile.readline: a line holds no newline but its last byte, and
\* lacks that newline only at EOF or when the size argument cut it.
ReadlineWhole == F!ReadlineWhole

\* HostKeys.add and __setitem__: no host form ever has two entries
\* for one key type.
UniqueEntry == H!UniqueEntry

\* HostKeys.add and __setitem__ followed by lookup and check: the key
\* just stored for a plain host name is the one they find.
LookupAfterAdd == H!LookupAfterAdd

\* rsakey.py RSAKey.__init__ on a message or data: an ssh-rsa public key
\* message gives a key of exactly its e and n, or ValueError for numbers
\* cryptography rejects, and a message of another key type SSHException.
PlainKeyLoaded == R!PlainKeyLoaded

====
