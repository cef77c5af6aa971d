--------------------------------- MODULE Ber ---------------------------------
(***************************************************************************)
(* src/paramiko/ber.py: BER tag-length-value items appended to a content   *)
(* buffer by encode_tlv, and read back one at a time by decode (decode_seq *)
(* calls decode until it returns None).  Long lengths are written with     *)
(* util.deflate_long (IntCodec).  The content handed to the decoder may be *)
(* a prefix of what was encoded, as when a token arrives short.  idx is    *)
(* 0-based, as in the code: content[idx] is content[idx + 1] here.         *)
(***************************************************************************)
EXTENDS IntCodec

CONSTANTS
    Idents,     \* tag numbers passed to encode_tlv
    Lengths,    \* value lengths passed to encode_tlv
    MaxItems    \* encode_tlv calls

VARIABLES
    content,    \* self.content
    idx,        \* self.idx
    encoded,    \* the (ident, value) pairs given to encode_tlv, in order
    decoded,    \* the items decode returned, in order
    phase,      \* "encode", "decode", "done" (decode returned None)
    short       \* the decoder got fewer bytes than were encoded

vars == <<content, idx, encoded, decoded, phase, short>>

None == [ident |-> -1, data |-> <<>>]

\* A value of length l; its bytes name its length.
Value(l) == [i \in 1..l |-> l % 256]

\* encode_tlv(ident, value), lines 69-76.
TLV(ident, value) ==
    LET l == Len(value)
        lenBytes == DeflateLong(IntBytes(l), TRUE)
    IN  <<ident>>
        \o (IF l > 127 THEN <<128 + Len(lenBytes)>> \o lenBytes ELSE <<l>>)
        \o value

\* decode, lines 34-39: a high tag number in base 128, ended by a byte
\* without its top bit or by the end of the content.
RECURSIVE HighTag(_, _, _)
HighTag(c, i, acc) ==
    IF i >= Len(c) THEN [val |-> acc, idx |-> i]
    ELSE LET t == c[i + 1]
             acc2 == acc * 128 + (t % 128)
         IN  IF t < 128 THEN [val |-> acc2, idx |-> i + 1]
             ELSE HighTag(c, i + 1, acc2)

\* Reading only nb - 1 of the length bytes.
LongLengthShort(c, i, nb) ==
    IF i + nb - 1 > Len(c) THEN [ok |-> FALSE, val |-> 0, idx |-> Len(c)]
    ELSE [ok |-> TRUE, idx |-> i + nb - 1,
          val |-> FoldLeft(LAMBDA a, b : a * 256 + b, 0, SubSeq(c, i + 1, i + nb - 1))]

\* idx advanced by all nb bytes when the content ends first.
LongLengthPastEnd(c, i, nb) ==
    IF i + nb > Len(c) THEN [ok |-> FALSE, val |-> 0, idx |-> i + nb]
    ELSE [ok |-> TRUE, idx |-> i + nb,
          val |-> FoldLeft(LAMBDA a, b : a * 256 + b, 0, SubSeq(c, i + 1, i + nb))]

\* decode, lines 46-52: nb length bytes, big-endian; None when the content
\* ends first, with idx left past the bytes read.
LongLength(c, i, nb) ==
    IF i + nb > Len(c) THEN [ok |-> FALSE, val |-> 0, idx |-> Len(c)]
    ELSE [ok |-> TRUE, idx |-> i + nb,
          val |-> FoldLeft(LAMBDA a, b : a * 256 + b, 0, SubSeq(c, i + 1, i + nb))]

\* decode(), lines 27-58: the item at idx and the new idx.  idx advances
\* as bytes are read, also on the paths that return None.
DecodeAt(c, i0) ==
    IF i0 >= Len(c) THEN [val |-> None, idx |-> i0]
    ELSE
    LET first == c[i0 + 1]
        tag == IF first % 32 = 31 THEN HighTag(c, i0 + 1, 0)
               ELSE [val |-> first, idx |-> i0 + 1]
        i1 == tag.idx
    IN
    IF i1 >= Len(c) THEN [val |-> None, idx |-> i1]
    ELSE
    LET size0 == c[i1 + 1]
        ln == IF size0 >= 128 THEN LongLength(c, i1 + 1, size0 % 128)
               ELSE [ok |-> TRUE, val |-> size0, idx |-> i1 + 1]
    IN
    IF ~ln.ok THEN [val |-> None, idx |-> ln.idx]
    ELSE IF ln.idx + ln.val > Len(c) THEN [val |-> None, idx |-> ln.idx]
    ELSE [val |-> [ident |-> tag.val,
                   data |-> SubSeq(c, ln.idx + 1, ln.idx + ln.val)],
          idx |-> ln.idx + ln.val]

Init ==
    /\ content = <<>>
    /\ idx = 0
    /\ encoded = <<>>
    /\ decoded = <<>>
    /\ phase = "encode"
    /\ short = FALSE

\* encode_tlv(ident, value) on the encoder's BER.
EncodeTLV(ident, l) ==
    /\ phase = "encode"
    /\ Len(encoded) < MaxItems
    /\ content' = content \o TLV(ident, Value(l))
    /\ encoded' = Append(encoded, [ident |-> ident, data |-> Value(l)])
    /\ UNCHANGED <<idx, decoded, phase, short>>

\* BER(content): the decoder is built on the first k bytes of what the
\* encoder produced (all of them, or a short read).
Receive(k) ==
    /\ phase = "encode"
    /\ content' = SubSeq(content, 1, k)
    /\ phase' = "decode"
    /\ short' = (k < Len(content))
    /\ UNCHANGED <<idx, encoded, decoded>>

\* One decode() call of decode_seq, lines 60-67.
Decode ==
    LET r == DecodeAt(content, idx) IN
    /\ phase = "decode"
    /\ idx' = r.idx
    /\ IF r.val = None
         THEN /\ phase' = "done"
              /\ UNCHANGED decoded
         ELSE /\ decoded' = Append(decoded, r.val)
              /\ UNCHANGED phase
    /\ UNCHANGED <<content, encoded, short>>

Done == phase = "done" /\ UNCHANGED vars

Next ==
    \/ \E i \in Idents, l \in Lengths : EncodeTLV(i, l)
    \/ \E k \in 0..Len(content) : Receive(k)
    \/ Decode
    \/ Done

Spec == Init /\ [][Next]_vars

-----------------------------------------------------------------------------

TypeOK ==
    /\ content \in Seq(Bytes)
    /\ idx \in 0..Len(content)
    /\ Len(encoded) \in 0..MaxItems
    /\ phase \in {"encode", "decode", "done"}

\* decode_seq reads back exactly what encode_seq wrote: from a short
\* content it returns a prefix of the items and never an item that was
\* not encoded (a length written by deflate_long is read back by the
\* long-form loop of decode); from the whole content it returns them all.
DecodeSeqRoundTrip ==
    /\ IsPrefix(decoded, encoded)
    /\ (phase = "done" /\ ~short) => decoded = encoded

====
