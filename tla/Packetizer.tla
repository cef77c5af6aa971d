----------------------------- MODULE Packetizer -----------------------------
(***************************************************************************)
(* The SSH packet engine of src/paramiko/packet.py (class Packetizer) on   *)
(* both ends of one connection.  Each end owns an outbound and an inbound  *)
(* cipher/MAC slot, the sequence numbers and the rekey counters; writer    *)
(* threads call send_message and one reader thread per end loops on        *)
(* read_message.  wire[e] is the byte stream from end e to its peer, kept  *)
(* as the sequence of frames e wrote; rpos[e] is how many bytes of the     *)
(* peer's stream the reader of e has consumed, so a reader that stops      *)
(* between a header and a body is misaligned with the frame boundaries.   *)
(*                                                                         *)
(* The cipher and MAC engines are external collaborators: Encrypt is a     *)
(* keyed, length-preserving byte transform (a keystream), and a MAC is the *)
(* record of the key, sequence number and bytes it was computed over, so   *)
(* two MACs are equal exactly when their inputs are.                       *)
(***************************************************************************)
EXTENDS Naturals, Sequences, FiniteSets, SequencesExt

CONSTANTS
    Ends,          \* the two ends of the connection
    Writers,       \* threads calling send_message
    WriterEnd,     \* WriterEnd[w]: the end whose Packetizer writer w uses
    Payloads,      \* payloads a caller may pass to send_message (byte seqs)
    SessionKey,    \* the key installed by the first key exchange (1..255)
    NoKey,         \* the slot before any key exchange: engines are None
    BlockSize,     \* __block_size_in once keys are installed
    MacLen,        \* digest size of the negotiated MAC
    RekeyBytes,    \* Packetizer.REKEY_BYTES (2^29, scaled down)
    RekeyPackets,  \* Packetizer.REKEY_PACKETS (2^29, scaled down)
    MaxSends       \* bound on send_message calls per end

ASSUME /\ Cardinality(Ends) = 2
       /\ WriterEnd \in [Writers -> Ends]
       /\ SessionKey \in 1..255 /\ NoKey \notin 1..255
       /\ BlockSize \in Nat \ {0, 1, 2, 3, 4} /\ MacLen \in Nat \ {0}
       /\ \A d \in Payloads : d \in Seq(0..255) /\ Len(d) > 0
       /\ RekeyBytes \in Nat /\ RekeyPackets \in Nat /\ MaxSends \in Nat

VARIABLES
    outKey, inKey,           \* key of the outbound / inbound slot, or NoKey
    seqOut, seqIn,           \* __sequence_number_out / _in
    sentBytes, sentPackets,  \* __sent_bytes / __sent_packets
    recvBytes, recvPackets,  \* __received_bytes / __received_packets
    wire,                    \* wire[e]: frames written by e, in stream order
    calls,                   \* send_message calls begun at each end
    wpc, wframe,             \* writer program counter and frame being built
    rpc, rpos, rerr,         \* reader program counter, bytes consumed, error
    accepted, delivered      \* frames that passed the MAC check; payloads
                             \* read_message returned to its caller

vars == <<outKey, inKey, seqOut, seqIn, sentBytes, sentPackets, recvBytes,
          recvPackets, wire, calls, wpc, wframe, rpc, rpos, rerr, accepted,
          delivered>>

Peer(e) == CHOOSE p \in Ends : p # e

-----------------------------------------------------------------------------
(* Data of a frame.                                                        *)

\* block_engine.encrypt: a length-preserving keystream over the bytes.
Encrypt(k, d) == [i \in DOMAIN d |-> (d[i] + k) % 256]

MacOf(k, s, ct) == [key |-> k, seq |-> s, ct |-> ct]

\* struct.pack('>I', len(payload)) + payload + mac
FrameSize(f) == 4 + Len(f.ct) + MacLen

\* The frame variable of a writer that is not inside send_message.
NoFrame == [ct |-> <<>>, mac |-> MacOf(NoKey, 0, <<>>), data |-> <<>>]

\* Bytes taken up by the first n frames of stream w.
Offset(w, n) == FoldLeft(LAMBDA acc, f : acc + FrameSize(f), 0, SubSeq(w, 1, n))

WireBytes(w) == Offset(w, Len(w))

IsBoundary(w, pos) == \E n \in 0..Len(w) : Offset(w, n) = pos

FrameAt(w, pos) == w[CHOOSE n \in 1..Len(w) : Offset(w, n - 1) = pos]

\* Python's s[i:j] for i >= 0, on a TLA+ sequence.
PySlice(s, i, j) ==
    LET hi == IF j < 0 THEN IF Len(s) + j < 0 THEN 0 ELSE Len(s) + j
              ELSE IF j > Len(s) THEN Len(s) ELSE j
    IN  IF i >= hi THEN <<>> ELSE SubSeq(s, i + 1, hi)

\* padding = byte_ord(packet[0]); payload = packet[1:packet_size - padding]
Unpad(packet) == PySlice(packet, 1, Len(packet) - packet[1])

MacSizeIn(e) == IF inKey[e] = NoKey THEN 0 ELSE MacLen

-----------------------------------------------------------------------------
(* Packetizer methods.                                                     *)

\* need_rekey(): the explicit __need_rekey flag is never set in packet.py,
\* so only the outbound counters count.
NeedRekey(e) == sentBytes[e] >= RekeyBytes \/ sentPackets[e] >= RekeyPackets

\* Mutation: a MAC compared over the packet alone, without the sequence
\* number prefix.
MacVerifiedNoSeq(e, f) ==
    MacSizeIn(e) > 0 => f.mac.key = inKey[e] /\ f.mac.ct = f.ct

\* The MAC test of read_message: skipped when no MAC is installed.
MacVerified(e, f) ==
    MacSizeIn(e) > 0 => f.mac = MacOf(inKey[e], seqIn[e], f.ct)

Init ==
    /\ outKey = [e \in Ends |-> NoKey]
    /\ inKey = [e \in Ends |-> NoKey]
    /\ seqOut = [e \in Ends |-> 0]
    /\ seqIn = [e \in Ends |-> 0]
    /\ sentBytes = [e \in Ends |-> 0]
    /\ sentPackets = [e \in Ends |-> 0]
    /\ recvBytes = [e \in Ends |-> 0]
    /\ recvPackets = [e \in Ends |-> 0]
    /\ wire = [e \in Ends |-> <<>>]
    /\ calls = [e \in Ends |-> 0]
    /\ wpc = [w \in Writers |-> "idle"]
    /\ wframe = [w \in Writers |-> NoFrame]
    /\ rpc = [e \in Ends |-> "header"]
    /\ rpos = [e \in Ends |-> 0]
    /\ rerr = [e \in Ends |-> "none"]
    /\ accepted = [e \in Ends |-> <<>>]
    /\ delivered = [e \in Ends |-> <<>>]

\* set_outbound_cipher, called by the key exchange once it has keys.
SetOutboundCipher(e) ==
    /\ outKey[e] = NoKey
    /\ outKey' = [outKey EXCEPT ![e] = SessionKey]
    /\ UNCHANGED <<inKey, seqOut, seqIn, sentBytes, sentPackets, recvBytes,
                   recvPackets, wire, calls, wpc, wframe, rpc, rpos, rerr,
                   accepted, delivered>>

\* set_inbound_cipher, called by the key exchange when the peer's NEWKEYS
\* has been read, that is once the peer switched its outbound slot and
\* before the reader reads the first frame sent under the new keys.
SetInboundCipher(e) ==
    /\ inKey[e] = NoKey
    /\ outKey[Peer(e)] # NoKey
    /\ inKey' = [inKey EXCEPT ![e] = SessionKey]
    /\ UNCHANGED <<outKey, seqOut, seqIn, sentBytes, sentPackets, recvBytes,
                   recvPackets, wire, calls, wpc, wframe, rpc, rpos, rerr,
                   accepted, delivered>>

\* send_message(data), lines 197-198: encrypt and MAC with the current
\* slot and __sequence_number_out.  With no slot installed the engines
\* are None and the call raises AttributeError before writing anything.
SendSeal(w, d) ==
    LET e == WriterEnd[w]
        ct == Encrypt(outKey[e], d)
    IN
    /\ wpc[w] = "idle"
    /\ calls[e] < MaxSends
    /\ calls' = [calls EXCEPT ![e] = @ + 1]
    /\ IF outKey[e] = NoKey
         THEN UNCHANGED <<wpc, wframe>>
         ELSE /\ wframe' = [wframe EXCEPT ![w] =
                     [ct |-> ct, mac |-> MacOf(outKey[e], seqOut[e], ct),
                      data |-> d]]
              /\ wpc' = [wpc EXCEPT ![w] = "bump"]
    /\ UNCHANGED <<outKey, inKey, seqOut, seqIn, sentBytes, sentPackets,
                   recvBytes, recvPackets, wire, rpc, rpos, rerr, accepted,
                   delivered>>

\* line 200: the sequence number is re-read and advanced after the MAC
\* was computed.  The & 0xffffffff wrap needs 2^32 sends and is left out.
SendBumpSeq(w) ==
    LET e == WriterEnd[w] IN
    /\ wpc[w] = "bump"
    /\ seqOut' = [seqOut EXCEPT ![e] = @ + 1]
    /\ wpc' = [wpc EXCEPT ![w] = "put"]
    /\ UNCHANGED <<outKey, inKey, seqIn, sentBytes, sentPackets, recvBytes,
                   recvPackets, wire, calls, wframe, rpc, rpos, rerr,
                   accepted, delivered>>

\* Mutation: the counters of lines 202-203 advanced twice per frame.
SendPutTwice(w) ==
    LET e == WriterEnd[w] IN
    /\ wpc[w] = "put"
    /\ wire' = [wire EXCEPT ![e] = Append(@, wframe[w])]
    /\ sentBytes' = [sentBytes EXCEPT ![e] = @ + 2 * FrameSize(wframe[w])]
    /\ sentPackets' = [sentPackets EXCEPT ![e] = @ + 2]
    /\ wpc' = [wpc EXCEPT ![w] = "idle"]
    /\ UNCHANGED <<outKey, inKey, seqOut, seqIn, recvBytes, recvPackets,
                   calls, wframe, rpc, rpos, rerr, accepted, delivered>>

\* lines 201-203: sendall of the whole frame, then the rekey counters.
SendPut(w) ==
    LET e == WriterEnd[w] IN
    /\ wpc[w] = "put"
    /\ wire' = [wire EXCEPT ![e] = Append(@, wframe[w])]
    /\ sentBytes' = [sentBytes EXCEPT ![e] = @ + FrameSize(wframe[w])]
    /\ sentPackets' = [sentPackets EXCEPT ![e] = @ + 1]
    /\ wpc' = [wpc EXCEPT ![w] = "idle"]
    /\ UNCHANGED <<outKey, inKey, seqOut, seqIn, recvBytes, recvPackets,
                   calls, wframe, rpc, rpos, rerr, accepted, delivered>>


\* A fatal SSHException in read_message: the reader thread stops.
Fail(e, why) ==
    /\ rpc' = [rpc EXCEPT ![e] = "dead"]
    /\ rerr' = [rerr EXCEPT ![e] = why]

\* read_message, lines 213-217: read_all(block_size, check_rekey=True)
\* consumes a header, then raises NeedRekeyException if need_rekey() (the
\* caller retries read_message), else checks the declared length against
\* the block size.  The header bytes a NeedRekeyException consumed are
\* lost, so the reader leaves the frame boundaries; as need_rekey() never
\* becomes false again, every later call raises NeedRekeyException too
\* and no header read off a boundary is ever interpreted.
ReadHeader(e) ==
    LET w == wire[Peer(e)] IN
    /\ rpc[e] = "header"
    /\ inKey[e] # NoKey
    /\ WireBytes(w) - rpos[e] >= BlockSize
    /\ rpos' = [rpos EXCEPT ![e] = @ + BlockSize]
    /\ IF NeedRekey(e)
         THEN UNCHANGED <<rpc, rerr>>
       ELSE IF (Len(FrameAt(w, rpos[e]).ct) - (BlockSize - 4)) % BlockSize # 0
         THEN Fail(e, "blocking")
         ELSE /\ rpc' = [rpc EXCEPT ![e] = "body"]
              /\ UNCHANGED rerr
    /\ UNCHANGED <<outKey, inKey, seqOut, seqIn, sentBytes, sentPackets,
                   recvBytes, recvPackets, wire, calls, wpc, wframe,
                   accepted, delivered>>

\* Mutation: the need_rekey() test of line 231 inverted.
AcceptRekeyInverted(e, f) ==
    /\ accepted' = [accepted EXCEPT ![e] = Append(@, f)]
    /\ seqIn' = [seqIn EXCEPT ![e] = @ + 1]
    /\ recvBytes' = [recvBytes EXCEPT ![e] = @ + Len(f.ct) + MacSizeIn(e) + 4]
    /\ recvPackets' = [recvPackets EXCEPT ![e] = @ + 1]
    /\ rpc' = [rpc EXCEPT ![e] = "header"]
    /\ delivered' = IF ~NeedRekey(e) THEN delivered
                    ELSE [delivered EXCEPT ![e] = Append(@, Unpad(f.ct))]
    /\ UNCHANGED rerr

\* read_message, lines 218-233, once the MAC of frame f checked out: the
\* sequence number and counters advance, then need_rekey() is asked again
\* and a NeedRekeyException is raised instead of returning the payload.
Accept(e, f) ==
    /\ accepted' = [accepted EXCEPT ![e] = Append(@, f)]
    /\ seqIn' = [seqIn EXCEPT ![e] = @ + 1]
    /\ recvBytes' = [recvBytes EXCEPT ![e] = @ + Len(f.ct) + MacSizeIn(e) + 4]
    /\ recvPackets' = [recvPackets EXCEPT ![e] = @ + 1]
    /\ rpc' = [rpc EXCEPT ![e] = "header"]
    /\ delivered' = IF NeedRekey(e) THEN delivered
                    ELSE [delivered EXCEPT ![e] = Append(@, Unpad(f.ct))]
    /\ UNCHANGED rerr

\* Mutation: read_all(packet_size + mac_size), forgetting the leftover
\* header bytes already read.
ReadBodyNoLeftover(e) ==
    LET w == wire[Peer(e)]
        start == rpos[e] - BlockSize
        f == FrameAt(w, start)
    IN
    /\ rpc[e] = "body"
    /\ rpos' = [rpos EXCEPT ![e] = rpos[e] + Len(f.ct) + MacSizeIn(e)]
    /\ IF MacVerified(e, f)
         THEN Accept(e, f)
         ELSE /\ Fail(e, "mac")
              /\ UNCHANGED <<accepted, seqIn, recvBytes, recvPackets, delivered>>
    /\ UNCHANGED <<outKey, inKey, seqOut, sentBytes, sentPackets, wire,
                   calls, wpc, wframe>>

\* read_message, lines 218-233, after a header read on a frame boundary:
\* read_all(packet_size + mac_size - len(leftover)) takes the rest of the
\* frame, then the MAC over (sequence number, packet) is compared.
ReadBody(e) ==
    LET w == wire[Peer(e)]
        start == rpos[e] - BlockSize
        f == FrameAt(w, start)
    IN
    /\ rpc[e] = "body"
    /\ rpos' = [rpos EXCEPT ![e] = start + 4 + Len(f.ct) + MacSizeIn(e)]
    /\ IF MacVerified(e, f)
         THEN Accept(e, f)
         ELSE /\ Fail(e, "mac")
              /\ UNCHANGED <<accepted, seqIn, recvBytes, recvPackets, delivered>>
    /\ UNCHANGED <<outKey, inKey, seqOut, sentBytes, sentPackets, wire,
                   calls, wpc, wframe>>

\* Every bounded send_message call has been made and has returned.
Finished ==
    /\ \A w \in Writers : wpc[w] = "idle" /\ calls[WriterEnd[w]] = MaxSends
    /\ UNCHANGED vars

Next ==
    \/ \E e \in Ends : SetOutboundCipher(e) \/ SetInboundCipher(e)
    \/ \E w \in Writers, d \in Payloads : SendSeal(w, d)
    \/ \E w \in Writers : SendBumpSeq(w) \/ SendPut(w)
    \/ \E e \in Ends : ReadHeader(e) \/ ReadBody(e)
    \/ Finished

\* The reader is a dedicated thread looping on read_message, the key
\* exchange reacts to NEWKEYS, and a send_message call that has begun
\* runs to its end.
Fairness ==
    /\ \A e \in Ends : WF_vars(ReadHeader(e)) /\ WF_vars(ReadBody(e))
                       /\ WF_vars(SetInboundCipher(e))
    /\ \A w \in Writers : WF_vars(SendBumpSeq(w)) /\ WF_vars(SendPut(w))

Spec == Init /\ [][Next]_vars /\ Fairness

-----------------------------------------------------------------------------
(* Properties.                                                             *)

Frames == [ct : Seq(0..255), mac : [key : 1..255 \cup {NoKey},
                                    seq : Nat, ct : Seq(0..255)],
           data : Seq(0..255)]

TypeOK ==
    /\ outKey \in [Ends -> {NoKey, SessionKey}]
    /\ inKey \in [Ends -> {NoKey, SessionKey}]
    /\ seqOut \in [Ends -> 0..MaxSends] /\ seqIn \in [Ends -> 0..MaxSends]
    /\ sentPackets \in [Ends -> 0..MaxSends]
    /\ recvPackets \in [Ends -> 0..MaxSends]
    /\ sentBytes \in [Ends -> Nat] /\ recvBytes \in [Ends -> Nat]
    /\ wire \in [Ends -> Seq(Frames)]
    /\ calls \in [Ends -> 0..MaxSends]
    /\ wpc \in [Writers -> {"idle", "bump", "put"}]
    /\ rpc \in [Ends -> {"header", "body", "dead"}]
    /\ rerr \in [Ends -> {"none", "blocking", "mac"}]
    /\ accepted \in [Ends -> Seq(Frames)]
    /\ delivered \in [Ends -> Seq(Seq(0..255))]

\* MAC authentication of the stream (read_message's MAC check over the
\* sequence number): every frame the reader of e accepted is the frame the
\* peer wrote at that position of the stream, and was MACed with that
\* position as its sequence number -- even when writer threads race in
\* send_message and put frames on the wire out of sequence-number order.
AcceptedAuthentic ==
    \A e \in Ends :
        /\ IsPrefix(accepted[e], wire[Peer(e)])
        /\ \A i \in 1..Len(accepted[e]) : accepted[e][i].mac.seq = i - 1

\* Sends are mutually exclusive (spec section 5): writers on one end never
\* make the peer's reader fail its MAC check.
NoMacMismatch == \A e \in Ends : rerr[e] # "mac"

\* The rekey signal is a control-flow signal after which a retry is safe
\* (spec section 7): no frame the peer sent is lost or corrupted by it --
\* every frame consumed is returned, and the reader stays on the frame
\* boundaries of the stream.
NoFrameLost ==
    \A e \in Ends :
        /\ Len(delivered[e]) = Len(accepted[e])
        /\ rpc[e] = "header" => IsBoundary(wire[Peer(e)], rpos[e])

\* Framing: the reader of e consumes the peer's stream a whole frame at a
\* time (header, then packet_size + mac_size - len(leftover) more bytes),
\* so a live reader is off the frame boundaries only after a
\* NeedRekeyException threw a header away.
FramingKept ==
    \A e \in Ends :
        LET start == IF rpc[e] = "body" THEN rpos[e] - BlockSize ELSE rpos[e]
        IN  rpc[e] # "dead" /\ ~IsBoundary(wire[Peer(e)], start) => NeedRekey(e)

\* Frames the peer sends are eventually returned by read_message, unless
\* a fatal error ends the reader.
EventuallyDelivered ==
    \A e \in Ends : \A n \in 1..MaxSends :
        Len(wire[Peer(e)]) >= n ~> (Len(delivered[e]) >= n \/ rpc[e] = "dead")

====
