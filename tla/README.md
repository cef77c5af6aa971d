# TLA+ models of paramiko's transport-side building blocks

This directory holds TLA+ specifications of the parts of `src/paramiko/` that have state or a non-trivial algorithm that TLC can explore:
- the SSH packet engine, with its threads, its handshake timer and the version-line read;
- the channel receive buffer, with its readers, feeder and event, shown to implement an abstract byte stream;
- the GSS-API key exchange engines on both ends of a connection;
- the wire codecs: integers, BER, the OpenSSH key structure reader, the OpenSSH private key reader built on it, and the passphrase key derivation;
- the ssh_config parser and the moduli file reader;
- the buffered file layer;
- the known-hosts table, with saving and loading, checked against the dict its docstrings describe;
- RSA public key construction from a message, and certificate loading.

`PROJECT.json` lists:
- every component, modelled or not;
- the runs, and the mutants that show each property can fail;
- the map from every definition to the source lines it translates;
- the hazards: what is hard to test in this code, and which property covers it.

## The system and how its parts interact

| Part | Source | Role |
|---|---|---|
| Packetizer | `packet.py` | Frames, MACs and counts SSH packets. Any number of writer threads call `send_message`; one reader thread per connection loops on `read_message`. `set_outbound_cipher` and `set_inbound_cipher` install keys after a key exchange, and `need_rekey` asks for a new one. `start_handshake`, `handshake_timed_out` and `complete_handshake` keep a deadline for the handshake. `readline` reads the peer's version line byte by byte, with a timeout, before any of this starts. |
| BufferedPipe | `buffered_pipe.py` | The receive buffer of a channel. The transport thread `feed`s it. Application threads `read` it, blocking on a condition variable, with or without a timeout. `close` wakes readers. An optional event (`set_event`) lets `select` see readiness. |
| GSS key exchange | `kex_gss.py` | One engine per end. The transport calls `start_kex`, then `parse_next` with every KEXGSS packet from the peer. The engine answers through the transport: `_send_message`, `_set_K_H`, `_activate_outbound`. |
| deflate_long / inflate_long | `util.py` | Integer to two's-complement bytes and back. BER long lengths and the GSS key exchange use them. |
| generate_key_bytes | `util.py` | Passphrase and salt to the key and IV of an encrypted PEM private key. |
| BER | `ber.py` | Tag-length-value encoder and decoder used for key material. |
| `_uint32_cstruct_unpack` | `pkey.py` | Reads the length-prefixed structures of OpenSSH's private key format for `_read_private_key_openssh`. |
| `_read_private_key_openssh` | `pkey.py` | Reads an OpenSSH-format private key file (PROTOCOL.key) with `_uint32_cstruct_unpack`. |
| SSHConfig | `config.py` | `from_file`/`parse` split an ssh_config file into sections at `Host` and `Match` lines; `lookup` reads them. |
| ModulusPack | `primes.py` | `read_file` reads `/etc/ssh/moduli` into a dict of (generator, size) pairs per modulus, keeping the lines it cannot use in `discarded`. |
| BufferedFile | `file.py` | Python-file buffering (`read`, `readline`, `readlines`, `write`, `seek`, ...) over a subclass's `_read`/`_write`. SFTPFile is such a subclass. |
| RSAKey | `rsakey.py`, `pkey.py` | `RSAKey(msg=...)` checks the key type with `_check_type_and_load_cert` and reads e and n from the message; `HostKeyEntry.from_line` would build keys this way through `PKey.from_type_string`, but it raises before it gets there (see HostKeys). `load_certificate` attaches an OpenSSH certificate. |
| HostKeys | `hostkeys.py` | The known_hosts table: an ordered list of entries. `add`, `load`, `__setitem__`, `__delitem__` and `clear` change it; `lookup` and `check` read it; `save` writes it to a file. `load` raises TypeError at every entry line (below), so it never adds a key. |

## Modules

Each module has its state as VARIABLES, one action per operation, and a `Spec`. An `MC_*` module supplies model values and constant sets for TLC, and the `.cfg` files choose among them.

- **Packetizer.tla** models both ends of one connection.
  - Per end it holds:
    - the outbound and inbound key slots (`outKey`, `inKey`);
    - the sequence numbers (`seqOut`, `seqIn`);
    - the sent and received counters;
    - the wire (frames in stream order);
    - a reader program counter and position (`rpc`, `rpos`).
  - Writers have their own program counter, because `send_message` is three steps without a lock:
    - `SendSeal` encrypts and MACs with the current sequence number (lines 193-199);
    - `SendBumpSeq` advances the sequence number (line 200);
    - `SendPut` writes and counts (lines 201-203).
  - The reader has two steps:
    - `ReadHeader` is `read_all` of the first block, including the `need_rekey` check;
    - `ReadBody` is the rest of `read_message`: the length checks, the MAC check, then `Accept` or the NeedRekeyException of line 231.
  - `Fail` is each `SSHException` path.
  - Cipher and MAC are abstract: a keyed, length-preserving transform, and a record of (key, seq, bytes).
- **PacketizerTimer.tla** models the handshake deadline and the keepalive settings of a Packetizer:
  - `StartHandshake`, `CompleteHandshake` and `SetKeepalive` are the three methods.
  - `DeadlinePasses` is real time passing the deadline.
  - `HandshakeTimedOut` is the pure query `handshake_timed_out()`.
  - `start_handshake` is modelled as what it does: it clears the flag, then raises `AttributeError` on the mangled name `self.__handshake_timed_out`, so no timer is ever armed.
- **BufferedPipe.tla**:
  - Each `with self._lock` section is one atomic action: `FeedLocked`, `ReadStart`, `TakeNow`, `Empty`, `CloseLocked`.
  - `Condition.wait` puts the reader in a waiting set. `notify` removes one waiter and `notify_all` removes all.
  - The event updates made after the lock is released are separate actions: `FeedSetEvent`, `CloseSetEvent`, and the two halves of the unlocked `set_event`.
  - A timed read can time out (`ReadTimeout`) or be woken (`ReadResume`).
  - `Stream == INSTANCE ByteStream WITH buf <- buffer, taken <- out, shut <- closed, res <- rres` maps it onto the abstract specification.
- **ByteStream.tla** is the abstract specification of what a channel buffer promises its readers, with no locks or events:
  - `feed` appends;
  - a read hands out a non-empty prefix, or `b''` only on a closed and drained pipe, or times out;
  - `empty` hands out everything;
  - a closed pipe stays closed.
- **KexGSS.tla** models one engine per end, on two connections at once (a Group1 pair and a Gex pair):
  - `StartKex` is `start_kex` of either class. `ParseNext` hands the head of the end's inbox to `parse_next`, which dispatches to the handler actions.
  - The handlers are `ParseHostkey`, `Group1Continue`, `Group1Complete`, `ParseError`, `GexGroupReq`, `GexGroup`, `GexInit` and `GexIgnore`.
  - Transport calls are recorded: a sent message goes to the peer's `inbox`; `K`, `hostKey` and `activated` record `_set_K_H`, `_set_remote_host_key` and `_activate_outbound`.
  - An exception ends that end's exchange (`raised`). GSS-API calls always succeed.
  - The group is scaled to P = 23, G = 5. `PowMod` is Python's `pow` with one recursive call, and `GenerateX` is `_generate_x` over `InflateLong`.
- **IntCodec.tla** holds `DeflateLong` and `InflateLong`, translated loop by loop:
  - 32-bit words packed big-endian;
  - the never-true strip test of line 41;
  - the zero filler;
  - the word fold;
  - the negative branch.

  A Python int has no width and TLC's integers stop at 2^31, so an int is held as its two's-complement bytes of any length (a "long": `<<0, 128, 0, 0, 0>>` is 2^31). `n & 0xffffffff` takes the low four bytes (sign-extended), `n >> 32` drops them, and `(1 << 8*len) - out` is the byte-wise complement plus one (`ComplementPlusOne`, `PlusOne`). `IntBytes` and `LongValue` convert TLC integers for the callers (BER lengths, `_generate_x`).
- **Codec.tla** is a caller that deflates a value and inflates it again.
- **Ber.tla**:
  - `encode_tlv` appends to `content`.
  - The decoder is built on all of the content or on a prefix of it, as when a token arrives short.
  - `decode` is `DecodeAt`: high tag numbers, long lengths, and the `None` returns with `idx` already advanced.
- **CStruct.tla** models `_uint32_cstruct_unpack`:
  - `UnpackStep` is one pass of its `for` loop over the format letters, and `UnpackField` is the slice arithmetic of each letter.
  - The input is written by a reference packer in the PROTOCOL.key layout (uint32 big-endian; strings and integers after their uint32 length), and handed over whole or cut short at any byte.
- **KeyBytes.tla** models `generate_key_bytes`:
  - `Call` is the salt cut, and `Round` is one pass of the `while` loop.
  - The hash is a free function: a digest names its exact input, so digests are equal only when inputs are.
  - `EVPBytesToKey` is the reference: OpenSSL's one-iteration key derivation, written as a recursive chain.
- **PacketizerReadline.tla** models `Packetizer.readline`:
  - `Call` clears `buf` and reads the clock; `RecvStep` is one pass of the `while` loop: `recv(1)`, the newline test, then the deadline test `PastDeadline` (line 189).
  - The peer is a byte sequence and whether it closed after it: `recv` returns the next byte, `b''` once a closed peer is drained, and blocks otherwise. `Tick` is time passing, up to `MaxTime`.
- **OpenSSHKey.tla** models `_read_private_key_openssh` as one call (`ReadPrivateKeyOpenSSH`): the base64 and magic checks, the header unpack with the code's `sssi`, the key count test, the password test, and the second unpack, each with the exception it raises. The files are PROTOCOL.key bodies written by CStruct's reference packer, whole or cut by one byte. `CstructUnpack` is `_uint32_cstruct_unpack` as a recursive operator over CStruct's `UnpackField`.
- **ConfigParse.tla** models `SSHConfig`: `Start` is `from_file` entering `parse`, `ParseLine` one pass of its loop (blank or comment, `Host`, `Match`, a setting, or the `AttributeError` of a line `SETTINGS_REGEX` does not match), `Finish` the final append, and `Lookup` what `lookup` does in this tree: `AttributeError` on the missing `_host_match` once a section exists, `TypeError` on the `None` of `_expand_variables` otherwise. A line is abstracted to its keyword, separator and whether it has a value.
- **Moduli.tla** models `ModulusPack.read_file`: `Open`, one `ReadLine` per pass of the `for` loop (skip, discard on a `ValueError` of the unpacking or an `int()`, or append under the modulus), and `Close`. A field is an integer or `Junk`.
- **MC_Concurrent.tla** checks the three multi-threaded setups in one run, as a disjoint sum like MC_Sequential: the Packetizer with two writers on one end (`pkt`), a BufferedPipe with one reader, one `empty` and one `set_event` call installing the event late (`flow`), and a BufferedPipe with its event installed first (`event`). The two pipes are instances of BufferedPipe with their variables renamed. Each part's fairness is stated on its own steps (`PktStep(K!ReadHeader(e))`, ...), so it constrains only the behaviours of that part.
- **MC_Sequential.tla** checks the ten single-threaded parts in one run as a disjoint sum: the integer codec, BER, CStruct, KeyBytes, ConfigParse, Moduli, PacketizerReadline, BufferedFile, HostKeys and RSAKey. A behaviour picks one part (`part`) in its first state and runs only that part; the others stay in their initial states. They share no state, so the sum (not the product) of their state spaces is explored. Clashing names are renamed with `INSTANCE ... WITH`.
- **RSAKey.tla** models `RSAKey.__init__` and `PKey.load_certificate`:
  - `New` is one constructor call, every branch of it: `file_obj` and `filename` (whose loaders `_from_private_key` and `_from_private_key_file` are not defined in this tree, so `AttributeError`), `msg` or `data` through `FromMessage`, a key object, or none (`SSHException`).
  - `FromMessage` is `_check_type_and_load_cert` (`CheckTypeAndLoadCert`, which returns the message cursor after the fields it read, or the exception) followed by two `get_mpint` reads and cryptography's check of the public numbers (`ValidPublicNumbers`: 3 <= e < n, e odd).
  - `LoadCertificate` is `load_certificate` on a built key: Message, `str` (split, base64) or other value, then the `-cert-v01@openssh.com` suffix test. `PublicBlob.from_message` has an empty body, so `public_blob` becomes `None`.
  - A Message is its list of fields; `message.py` is not in this tree, so `TextAt`, `MpintAt` and `HasField` follow the design's description of the message codec (a cursor; a read past the end is a decoding error).
- **RSAKeyInputs.tla** builds the messages: `ssh-rsa` and `ssh-ed25519` public keys, an `ssh-rsa` certificate (type, nonce, e, n, ...), every cut of them, an empty message and a value that is not a Message. **MC_RSAKey.tla** instantiates RSAKey on them.
- **BufferedFile.tla**:
  - `_set_mode` gives the flags and `_bufsize`.
  - `read`, `readline` (its `while` loop as the recursive `ReadlineLoop`, then `line[:size]`), `readlines`, `seek`, `write`, `writelines`, `__next__` and `readinto` are actions.
  - The subclass stream is the `_read` contract, and stream bytes are named by their position.
- **HostKeys.tla**:
  - `entries` is `self._entries`. An entry is one host form (plain or hashed) and one key (type, identity), or `NoKey` for `None`.
  - `add`, `load`, `__setitem__`, `__delitem__`, `clear` and `save` are actions. Each keeps the partial effect of an exception raised part way.
  - `Load` is `load` of a file: blank and comment lines are skipped, and any other line raises TypeError out of `load` with the table unchanged. `from_line` (`FromLineRaises`) raises `InvalidHostKey` with one argument for a short line (line 252) and, for every other line, from its bare `except` (line 261), because `b()` already returned bytes and `.encode` at line 259 fails. `InvalidHostKey` there is the class of lines 219-224, which shadows the import and needs two arguments, so the raise is a TypeError, which `load` does not catch (line 75). `from_type_string` is never reached.
  - `saved` is the list of lines the last `save` wrote. `Lookup` and `Check` are operators.
  - `View` is the table as a dict: for each host and key type, what `__getitem__`/`lookup` returns. `Dict == INSTANCE HostKeysDict WITH table <- View, ...` maps the table onto the abstract dict.
- **HostKeysDict.tla** is the abstract specification of what the docstrings of `hostkeys.py` promise: a dict from host to a dict of key type to key. `add` replaces the pair's key; `load` adds for every host of a line (and the table may stay as it was when load raises); `__setitem__` puts each key type; `del` removes the host; `clear` empties; `save` leaves the table alone. A call that raises may have made any part of its puts.

## Runs

Every property in a passing run has a mutant in `PROJECT.json`: a plausible bug in a mapped definition (a dropped guard, an off-by-one, a missing `return`, a lost chaining) that TLC must catch.

| Run | Expect | What it shows |
|---|---|---|
| concurrent_checks | pass | The three multi-threaded setups in one run (`MC_Concurrent`). Packetizer, two writer threads racing in `send_message` with payloads of aligned and unaligned length: `AcceptedAuthentic` (every frame the peer accepts is the frame at that stream position, MACed with that position), `FramingKept` (the reader consumes whole frames), `EventuallyDelivered` (below the rekey threshold, every frame sent is eventually returned, or a fatal error ends the reader: a MAC mismatch, or "Invalid packet blocking" for the 5-byte payload, whose unpadded frame is not block-aligned). BufferedPipe with one reader, `empty`, `set_event` and `close`: `Conservation` (bytes out plus bytes buffered equals bytes fed) and `ReaderReturns` (a blocked reader returns after close). BufferedPipe with its event installed first and no `empty` or `set_event` while in use: `NoLostWakeup` (the event is set whenever data is ready or the pipe is closed) and `StreamRefined` (BufferedPipe implements ByteStream: no read hands out bytes twice or out of order, and none returns `b''` before close). |
| pkt_racing_mac | violation | `NoMacMismatch` fails. The MAC's sequence number is read at line 198 and bumped at line 200 without a lock, so two writers use one number and the peer raises "Mismatched MAC". |
| pkt_rekey_drop | violation | `NoFrameLost` fails. NeedRekeyException is raised after a header (line 174) or a whole frame (line 231) was consumed, so that data is lost. |
| pkt_handshake_timeout | violation | `TimeoutReported` fails. `start_handshake` raises before any timer exists, and nothing sets `__timer_expired`, so after the deadline of an uncompleted handshake `handshake_timed_out()` is still False. spec.md (lines 51 and 106) says it reports True. |
| pipe_event_race | violation | `NoLostWakeup` fails once one `empty` and one `set_event` call are allowed. `close` sets the event, then `empty` (line 127) clears it on the closed pipe, so a select loop waiting on the event never sees the close. The unlocked `set_event` (lines 40-43) has the same race with `feed`. |
| hostkeys_dict | violation | `DictRefined` fails: HostKeys is not the dict its docstring says it can be treated as (`HostKeysDict`, through `View`, which is `lookup`). Adding a plain `h1` rsa key, then a hashed `h1` rsa key, then another plain `h1` rsa key leaves `lookup` returning the first key: `add` matches `hostnames == [hostname]` literally (line 45), so it replaced the plain entry's key and left the hashed entry's id1, and `lookup` lets the later matching entry win. `__delitem__` (line 177) removes only the first matching entry, so a host with two key types keeps one. |
| pipe_false_eof | violation | `NoFalseEOF` fails. With two readers, a notified reader whose byte the other reader took returns `b''` on an open pipe. There is no `while` around `wait` (lines 93-98). |
| pipe_close_one | violation | `ReaderReturns` fails. `close` uses `notify()`, so a second reader blocked in a read without a timeout never returns. |
| kex_completes | violation | `KexCompletes` fails: no client/server pair ever activates its keys. Group1: each end raises on the peer's INIT, because `parse_next` has no INIT branch. Gex: the server raises `AttributeError` on `self.P`, and the client raises on `util.generate_random_int`. |
| sequential_checks | pass | `UnsignedRoundTrip`: non-negative values survive deflate then inflate, among them 2^31 and 2^32 - 1 (sign padding, then a 5-byte string that inflate fills to two words), 2^32, 2^40, 2^63 and 2^64 (two and three words). `DecodeSeqRoundTrip`: `decode_seq` returns exactly the encoded items, or a prefix of them from a truncated content. `CstructRoundTrip`: `_uint32_cstruct_unpack` reads back every field of a whole structure and raises nothing. `KeyBytesEVP`: `generate_key_bytes` gives exactly OpenSSL's bytes. `ParseSections`: after every line, `_config` holds the sections closed so far with the keys their lines set, also when `parse` raises part way. `ModuliKept`: `pack` holds the pairs of exactly the well-formed lines, in order, and `discarded` exactly the others. `ReadlineResult`: `readline` returns exactly the first line, and raises `socket.timeout` only past its deadline, with a partial line. |
| | | BufferedFile: `ReadsInOrder`: between two seeks, bytes come out in stream order and are never repeated. (What a read after `seek` returns is an observation below.) `ReadlineWhole`: a line never has an inner newline, and lacks its trailing one only at EOF or a size cut. Both hold in every mode and buffer size. HostKeys: `UniqueEntry`: no host form gets two entries of one key type. `LookupAfterAdd`: after a successful `add` or `__setitem__` for a plain host, `check` and `lookup` see the new key. RSAKey: `PlainKeyLoaded`: a key built from an `ssh-rsa` public key message holds exactly its e and n (or is refused with ValueError when cryptography rejects them), and a message of another key type is refused with SSHException. `TypeOK` covers all ten parts. |
| rsakey_cert | violation | `CertKeyLoaded` fails. `RSAKey(msg=cert)` of an `ssh-rsa-cert-v01@openssh.com` message: `__init__` passes that type as `cert_type` (rsakey.py line 35), so `_check_type_and_load_cert` accepts it at line 487 and never skips the nonce (the `elif` of line 490 is dead for RSA). e is read from the nonce and n from e, and cryptography raises ValueError. The docstring says cert messages are fast-forwarded past the nonce. |
| openssh_key_read | violation | `ReadsOpenSSHKey` fails. A whole, valid, unencrypted OpenSSH key file is rejected with SSHException "Invalid key": `num_keys` is unpacked with `'i'` (line 398), which reads a length-prefixed integer where PROTOCOL.key has a uint32, so it reads 0. |

## Bounds and why they suffice

- **Packetizer:**
  - Two ends, and either one writer each or two writers on one end.
  - Three sends, and payloads of 4 and 5 bytes (block-aligned and not aligned) with block size 8.
  - `RekeyPackets = 2` crosses the threshold in pkt_rekey_drop. At 1000 it is never crossed.
  - Two racing writers and three frames are the smallest case where the sequence number is read twice before it is bumped.
- **PacketizerTimer:** the deadline is one event. Keepalive intervals 0 and 30 and one callback are enough to reach every assignment.
- **BufferedPipe:**
  - One or two readers, up to three reads and three feeds, and read and chunk sizes of 1 and 2.
  - This gives partial reads, a reader woken with nothing left, and close while blocked.
- **KexGSS:**
  - Two connections, a Group1 pair and a Gex pair, and one GSS token.
  - Random bytes of `<<0>>` or `<<255>>` give the two extreme exponents.
  - P = 23 and G = 5 keep the arithmetic exact. The handlers' control flow does not depend on the size of the prime.
- **Codec:** every value in -300..300, the 16- and 24-bit boundaries and 2^31 - 1, and, as longs, 2^31, 2^32 - 1, 2^32, 2^32 + 1, 2^40, 2^63, 2^64 - 1, 2^64, -2^31 - 1 and -2^32. These reach the sign padding of `deflate_long`, the filler of `inflate_long` (5- and 9-byte strings) and folds of two and three words.
- **Ber:**
  - Two items with tags 2 and 48, and lengths 0, 3, 127, 128 and 130 (the short/long boundary).
  - Every truncation point of the content.
- **CStruct:**
  - The header as `_read_private_key_openssh` reads it (`sssi`), as the format defines it (`sssu`), and every letter once (`siur`).
  - Strings of 0, 1 and 3 bytes; integers 0, 1, 255 and 256 (the one-to-two-byte boundary); words 0, 1 and 2^31-1 (TLC's integers stop at 2^31).
  - Every truncation point.
- **KeyBytes:**
  - A 3-symbol digest, and `nbytes` of 0, 1, 3, 4 and 7: none, part of a digest, exactly one, and across two or three.
  - Salts of 0, 3 and 10 bytes (over the 8-byte cut), and two passphrases.
- **BufferedFile:**
  - A 6-byte stream with newlines at 2 and 5, and buffer sizes below and above the line length.
  - Read sizes `None`, 1 and 3; a two-line `writelines`; four calls.
- **OpenSSHKey:** two cipher names (`none` and another), one public key and one private section, with and without base64, magic and the last byte, and with and without a password: every branch of the reader.
- **ConfigParse:** files of zero to three lines over eight kinds of line (blank, comment, `Host h`, `Host=h`, `Match all`, two settings of one key with different values, a lone keyword). Three lines close two sections, repeat a key, and hit the error after a closed section.
- **Moduli:** files of zero to three lines over nine kinds (blank, comment, two generators for one modulus and a line for another, too few fields, `Junk` in the modulus and in the size, `Junk` in the unconverted first field).
- **PacketizerReadline:** four peers (a line then more bytes, a partial line then close, a partial line then silence, close with nothing sent), timeouts 0, 2 and `None`, and a clock up to 3, which passes both deadlines.
- **RSAKey:** public numbers (3, 33) (valid) and (35, 33) (e > n, refused); a plain message of each of two key types, an RSA certificate, every cut of them, an empty message and a non-Message; certificate values of each kind (Message, `str` with one or two words, with and without valid base64, other). Every branch of `__init__`, `_check_type_and_load_cert` and `load_certificate` is taken.
- **HostKeys:**
  - Two hosts, two key types and two keys per type.
  - Plain and hashed forms, the three kinds of line `load` tells apart (blank, comment, any other text), and dicts of zero to two keys.
  - Three calls: enough to build two or more entries and then save them, or to put a hashed or `None`-key entry in front of a later add. Four calls take about 12 minutes and found nothing new.
  - hostkeys_dict uses the same bounds: three calls are exactly the plain-hashed-plain sequence of its counterexample.

## Fairness

- **Packetizer:**
  - Weak fairness on each reader step. The reader thread loops on `read_message` for as long as the transport runs.
  - Weak fairness on installing the inbound cipher, which key exchange always completes.
  - Weak fairness on finishing a started send. A thread inside `send_message` is not descheduled forever.
  - Starting a send is not fair: callers may stop sending.
- **MC_Concurrent:** each module's fairness below, applied to that module's steps inside its part, so an idle part's enabled actions impose nothing.
- **BufferedPipe:** weak fairness on `ReadResume` and `ReadTimeout`. A notified reader eventually reacquires the lock, and a timed `cv.wait(timeout)` returns once the timeout has passed. An untimed wait has no such step, so pipe_close_one's reader that is never notified waits for good. Feeding, reading and closing are the application's choice, so they are not fair.
- **KexGSS:**
  - Weak fairness on `StartKex`: the transport starts the engine once GSS key exchange is negotiated.
  - Weak fairness on `ParseNext`: the transport thread hands every packet that arrives to `parse_next`.
  - The run does not check deadlock, because an end that raised stops for good.

## What is not modelled, and why

`PROJECT.json` lists each component with its status.

| Part | Why it is not modelled |
|---|---|
| SFTPFile | It cannot run. Its prefetch thread calls `self.read(size, offset)` (wrong arity), and `_read`, `_write` and `_close` are not defined in this tree, so every path that would interleave dies at its first call. |
| `config.py` apart from `from_file`, `parse` and `lookup` | `_get_hosts`, `_expand_variables`, `canonicalize`, the token helpers and the `SSHConfigDict` conversions have empty bodies; `from_text` and `from_path` only open text or a file for `from_file`; `LazyFqdn.__str__` caches one `socket.getfqdn()` answer. |
| `pkey.py` apart from the OpenSSH reader, the type check and `load_certificate`; `rsakey.py` apart from `__init__` | Cryptography, PEM files and signing. |
| `sftp_si` | A stateless interface. |
| `_winapi`, `win_pageant` | Windows I/O. |

## Observations without a run

These came up while modelling. Each is recorded as a hazard in `PROJECT.json` with a note, because the twelve runs go to the questions above.
- **Packetizer:**
  - `need_rekey` never resets, so once it is true no payload is returned again.
  - `need_rekey` ignores the received counters.
  - `read_message` never decrypts, and `send_message` never pads.
  - `readline` tests its timeout only after a `recv` returned: a silent peer blocks it forever, and a closed peer makes `recv` return `b''` in a loop until the deadline, reported as `socket.timeout` (forever with timeout `None`). PacketizerReadline reaches both (the clock runs out with the call still in its loop).
  - The keepalive settings are stored but never read, so the callback is never called.
- **BufferedPipe:**
  - `empty` with a single reader: a reader notified by `feed` finds the buffer emptied by `empty()` and returns `b''` on an open pipe, the same false EOF as with two readers. `StreamRefined` is therefore checked without `empty` calls. (The lost event of `empty` and `set_event` is the pipe_event_race run.)
- **util.py:**
  - `inflate_long` returns the magnitude of a negative string.
  - `deflate_long` never strips, and maps -1 to `b''`.
- **BER:** tags with `(ident & 31) == 31` do not round-trip.
- **pkey.py:**
  - `_read_private_key_openssh` unpacks `num_keys` with `'i'` (a length-prefixed integer), where PROTOCOL.key has a uint32. For a real file, `'i'` reads length 1 and then the first byte of the public key's length, which is 0, so every OpenSSH key file is rejected as invalid.
  - Its second unpack starts again from the beginning of `data`, so the "private key" it would return is `kdfname`. (The `num_keys` error is the openssh_key_read run.)
  - `load_certificate` accepts any type name ending in `-cert-v01@openssh.com`, also of another algorithm than the key's, and stores `PublicBlob.from_message(cert)`, whose body is empty: it returns normally with `public_blob` still `None`.
  - On a structure cut short, `_uint32_cstruct_unpack` returns a truncated string, or an `'i'` integer of fewer bytes, without an error. CStruct reaches these states (`cshort`).
- **config.py:**
  - A key set twice in one section keeps its last value (`host['config'][key] = value`), where `lookup`'s docstring and ssh_config use the first value obtained.
  - `Host=h` or `Host<tab>h` is not a section start but a setting whose key is `host`.
  - `lookup` always raises: `AttributeError` on the missing `_host_match`, or `TypeError` before any parse.
- **primes.py:** the first field of a moduli line is never converted, so junk there is accepted.
- **BufferedFile:**
  - `readline(size)` drops buffered bytes beyond `size`.
  - `read` does not advance `_pos`.
  - `bufsize == 0` turns buffering on.
  - `flush` is a no-op.
  - `seek` discards the read buffer but not the stream's position, so a read after `seek(0)` goes on where the stream was, where the docstring (stdio's `fseek`) says the bytes from offset 0 come again.
  - `readline` treats `u(line)` as the identity; its UnicodeDecodeError after the buffer was consumed is left out.
- **HostKeys:**
  - `save` empties the file, then raises at an entry whose key is `None`, so the entries after it are lost on disk.
  - (The hashed `add` and the single-entry `__delitem__` are the hostkeys_dict run.)
  - `load` raises TypeError at the first line that is not blank or a comment, and adds nothing (see the module list). So a file `save` wrote cannot be loaded back.
  - `hostkeys.py` line 9 imports `get_logger` and `constant_time_bytes_eq`, which this tree's `util.py` does not define. The model assumes the module imports, as every module here imports from files outside the tree.

## Open work

1. A refinement of BufferedFile's reads onto ByteStream.
2. Violation runs for the save/load round trip and for reads after `seek`.
3. The remaining observations above as violation runs; each needs a run of its own.
