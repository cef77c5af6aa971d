-------------------------------- MODULE CStruct --------------------------------
(***************************************************************************)
(* src/paramiko/pkey.py PKey._uint32_cstruct_unpack: the reader of the     *)
(* structures of OpenSSH's private key format (PROTOCOL.key), a string of  *)
(* format letters applied one after the other to a byte string.  The      *)
(* structure is written by a reference packer in the layout PROTOCOL.key  *)
(* gives; the reader is handed all of it, or a prefix of it, as when a key *)
(* file is cut short.  A byte string is a sequence of 0..255.              *)
(***************************************************************************)
EXTENDS Integers, Sequences, SequencesExt

CONSTANTS
    Formats,    \* format strings, as sequences of "s", "i", "u", "r"
    Strings,    \* byte strings for "s" and "r"
    Longs,      \* non-negative integers for "i"
    Words       \* 32-bit unsigned integers for "u" (below 2^31 for TLC)

VARIABLES
    cfmt,       \* the format string
    cvals,      \* the values packed
    cdata,      \* data, as the loop leaves it
    cresult,    \* result, as the loop leaves it
    cpos,       \* the format letters consumed
    cstage,     \* "pack", "unpack", "done", "error" (struct.error)
    cshort      \* the reader got fewer bytes than were packed

vars == <<cfmt, cvals, cdata, cresult, cpos, cstage, cshort>>

-----------------------------------------------------------------------------
(* The reference packer: a uint32 is 4 bytes big-endian; a string and an   *)
(* integer are preceded by the uint32 length of their bytes; the integer's *)
(* bytes are its shortest big-endian form; "r" is the bytes as they are.   *)

U32Bytes(n) ==
    <<(n \div 16777216) % 256, (n \div 65536) % 256, (n \div 256) % 256, n % 256>>

RECURSIVE MinimalBytes(_)
MinimalBytes(n) == IF n = 0 THEN <<>> ELSE MinimalBytes(n \div 256) \o <<n % 256>>

PackField(f, v) ==
    CASE f = "s" -> U32Bytes(Len(v)) \o v
      [] f = "i" -> U32Bytes(Len(MinimalBytes(v))) \o MinimalBytes(v)
      [] f = "u" -> U32Bytes(v)
      [] f = "r" -> v

Pack(fs, vs) ==
    FoldLeft(LAMBDA acc, i : acc \o PackField(fs[i], vs[i]), <<>>,
             [i \in 1..Len(fs) |-> i])

Domain(f) == CASE f = "s" -> Strings [] f = "r" -> Strings
               [] f = "i" -> Longs [] f = "u" -> Words

\* The value tuples a format string packs.
RECURSIVE ValuesFor(_)
ValuesFor(fs) ==
    IF fs = <<>> THEN {<<>>}
    ELSE {<<v>> \o rest : v \in Domain(Head(fs)), rest \in ValuesFor(Tail(fs))}

-----------------------------------------------------------------------------
(* The reader.                                                             *)

\* Python's s[lo:hi] for 0 <= lo: clamped to the end of s.
PySlice(s, lo, hi) ==
    LET h == IF hi > Len(s) THEN Len(s) ELSE hi IN
    IF lo >= h THEN <<>> ELSE SubSeq(s, lo + 1, h)

\* struct.unpack('>I', b) and int.from_bytes(b, 'big').
BigEndian(bs) == FoldLeft(LAMBDA a, b : a * 256 + b, 0, bs)

\* The string of 's' advancing one byte too far.
UnpackFieldSkip(d, f) ==
    LET size == BigEndian(PySlice(d, 0, 4)) IN
    CASE f = "s" -> [val |-> PySlice(d, 4, 4 + size), rest |-> PySlice(d, 5 + size, Len(d))]
      [] f = "i" -> [val |-> BigEndian(PySlice(d, 4, 4 + size)),
                     rest |-> PySlice(d, 4 + size, Len(d))]
      [] f = "u" -> [val |-> size, rest |-> PySlice(d, 4, Len(d))]
      [] f = "r" -> [val |-> d, rest |-> <<>>]

\* One iteration of the loop, lines 427-441: the value of the letter f at
\* the head of data, and the data after it.  size is the leading uint32.
UnpackField(d, f) ==
    LET size == BigEndian(PySlice(d, 0, 4)) IN
    CASE f = "s" -> [val |-> PySlice(d, 4, 4 + size), rest |-> PySlice(d, 4 + size, Len(d))]
      [] f = "i" -> [val |-> BigEndian(PySlice(d, 4, 4 + size)),
                     rest |-> PySlice(d, 4 + size, Len(d))]
      [] f = "u" -> [val |-> size, rest |-> PySlice(d, 4, Len(d))]
      [] f = "r" -> [val |-> d, rest |-> <<>>]

Init ==
    /\ cfmt = <<>> /\ cvals = <<>> /\ cdata = <<>> /\ cresult = <<>>
    /\ cpos = 0 /\ cstage = "pack" /\ cshort = FALSE

\* A structure is packed and the first k of its bytes handed to the reader.
PackAndReceive ==
    /\ cstage = "pack"
    /\ \E fs \in Formats : \E vs \in ValuesFor(fs) :
          LET w == Pack(fs, vs) IN
          \E k \in 0..Len(w) :
              /\ cfmt' = fs /\ cvals' = vs
              /\ cdata' = SubSeq(w, 1, k)
              /\ cshort' = (k < Len(w))
    /\ cstage' = "unpack"
    /\ UNCHANGED <<cresult, cpos>>

\* One pass of the for loop of _uint32_cstruct_unpack, lines 426-442:
\* struct.unpack raises struct.error on fewer than 4 bytes; at the end of
\* the format the tuple is returned.
UnpackStep ==
    /\ cstage = "unpack"
    /\ IF cpos = Len(cfmt)
         THEN /\ cstage' = "done"
              /\ UNCHANGED <<cdata, cresult, cpos>>
         ELSE LET f == cfmt[cpos + 1] IN
              IF f # "r" /\ Len(cdata) < 4
                THEN /\ cstage' = "error"
                     /\ UNCHANGED <<cdata, cresult, cpos>>
                ELSE /\ cresult' = Append(cresult, UnpackField(cdata, f).val)
                     /\ cdata' = UnpackField(cdata, f).rest
                     /\ cpos' = cpos + 1
                     /\ UNCHANGED cstage
    /\ UNCHANGED <<cfmt, cvals, cshort>>

Done == cstage \in {"done", "error"} /\ UNCHANGED vars

Next ==
    \/ PackAndReceive
    \/ UnpackStep
    \/ Done

Spec == Init /\ [][Next]_vars

-----------------------------------------------------------------------------

TypeOK ==
    /\ cstage \in {"pack", "unpack", "done", "error"}
    /\ cpos \in 0..Len(cfmt)
    /\ cdata \in Seq(0..255)

\* What _read_private_key_openssh relies on: the reader, handed a whole
\* structure written in the PROTOCOL.key layout, returns exactly the values
\* written, field by field, and never raises; whatever it has returned so
\* far is the written values in order.
CstructRoundTrip ==
    /\ ~cshort => /\ cstage # "error"
                  /\ IsPrefix(cresult, cvals)
                  /\ cstage = "done" => cresult = cvals

====
