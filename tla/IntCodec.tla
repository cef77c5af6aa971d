------------------------------- MODULE IntCodec -------------------------------
(***************************************************************************)
(* src/paramiko/util.py deflate_long and inflate_long: integers to and     *)
(* from big-endian byte strings.  A byte string is a sequence of 0..255.   *)
(* A Python int has no width, and TLC's integers stop at 2^31, so an int   *)
(* is held here as its two's-complement bytes, most significant first, of  *)
(* any length ("a long"): <<0, 128, 0, 0, 0>> is 2^31, <<255>> and <<>>    *)
(* are -1 and 0.  n & 0xffffffff, n >> 32 and (1 << 8*len) - out are done *)
(* on those bytes, so every value the code can meet can be given.         *)
(***************************************************************************)
EXTENDS Integers, Sequences, SequencesExt

Bytes == 0..255

IsNeg(x) == x # <<>> /\ x[1] >= 128

SignByte(x) == IF IsNeg(x) THEN 255 ELSE 0

\* x with its sign byte repeated in front up to k bytes.
Widen(x, k) ==
    IF Len(x) >= k THEN x ELSE [j \in 1..(k - Len(x)) |-> SignByte(x)] \o x

\* Two longs are the same int.
SameValue(x, y) ==
    LET k == IF Len(x) >= Len(y) THEN Len(x) + 1 ELSE Len(y) + 1 IN
    Widen(x, k) = Widen(y, k)

\* A TLC integer as a long.
IntBytes(i) ==
    <<(i \div 16777216) % 256, (i \div 65536) % 256, (i \div 256) % 256, i % 256>>

\* The int of a long that TLC's integers can hold.
LongValue(x) == FoldLeft(LAMBDA acc, b : acc * 256 + b, IF IsNeg(x) THEN -1 ELSE 0, x)

\* n == 0 and n == -1.
IsZero(x) == \A i \in DOMAIN x : x[i] = 0
IsMinusOne(x) == x # <<>> /\ \A i \in DOMAIN x : x[i] = 255

\* struct.pack('>I', n & 0xffffffff): the low 32 bits, big-endian.
PackWord(x) ==
    LET w == Widen(x, 4) IN SubSeq(w, Len(w) - 3, Len(w))

\* n >> 32 on a Python int, an arithmetic shift: the low four bytes go.
Shift32(x) ==
    IF Len(x) > 4 THEN SubSeq(x, 1, Len(x) - 4)
    ELSE IF IsNeg(x) THEN <<255>> ELSE <<>>

\* deflate_long, lines 34-38: the words packed by the while loop, most
\* significant first; the loop leaves n at 0 or -1.
RECURSIVE Words(_)
Words(x) ==
    IF IsZero(x) \/ IsMinusOne(x) THEN <<>> ELSE Words(Shift32(x)) \o PackWord(x)

LoopEnd(x) == IF IsNeg(x) THEN -1 ELSE 0

\* Line 41: s[i] of a bytes object is an int, and an int never equals the
\* one-character strings '\000' and '\xff'.
IsStrZeroOrFF(b) == FALSE

\* Lines 40-42: the index the for loop breaks at, 0 when it never breaks.
FirstKeptIndex(s) ==
    LET keep == {i \in DOMAIN s : ~IsStrZeroOrFF(s[i])} IN
    IF keep = {} THEN 0 ELSE CHOOSE i \in keep : \A j \in keep : i <= j

\* deflate_long(n, add_sign_padding), lines 30-56, of a long.
DeflateLong(x, addSignPadding) ==
    LET s0 == Words(x)
        nf == LoopEnd(x)
        i  == FirstKeptIndex(s0)
        \* lines 43-48: the else branch of the for loop
        s1 == IF i # 0 THEN SubSeq(s0, i, Len(s0))
              ELSE IF nf = 0 THEN <<0>> ELSE <<>>
    IN  IF addSignPadding /\ nf = 0 /\ s1 # <<>> /\ s1[1] >= 128
          THEN <<0>> \o s1
        ELSE IF addSignPadding /\ nf < 0 /\ s1 # <<>> /\ s1[1] < 128
          THEN <<255>> \o s1
        ELSE s1

\* inflate_long, lines 18-20: zero bytes up to a multiple of four.
Filler(s) ==
    IF Len(s) % 4 # 0 THEN [j \in 1..(4 - (Len(s) % 4)) |-> 0] ELSE <<>>

\* Lines 21-22: out = (out << 32) + each big-endian word of s, from 0:
\* the bytes of s read as an unsigned number.
FoldWords(s) == <<0>> \o s

\* The unsigned bytes bs plus one: the last byte below 255 goes up by one
\* and the 255s after it become 0; all 255s carry out into a new byte.
PlusOne(bs) ==
    LET below == {i \in DOMAIN bs : bs[i] # 255} IN
    IF below = {} THEN <<1>> \o [i \in DOMAIN bs |-> 0]
    ELSE LET j == Max(below) IN
         [i \in DOMAIN bs |-> IF i < j THEN bs[i] ELSE IF i = j THEN bs[i] + 1 ELSE 0]

\* Line 24: (1 << 8*len(s)) - out, where out is the value of the bytes s:
\* the complement of every byte, plus one.
ComplementPlusOne(s) == <<0>> \o PlusOne([j \in DOMAIN s |-> 255 - s[j]])

\* An inflate that reads the words little-endian.
InflateLongLE(s, alwaysPositive) ==
    LET padded == Reverse(Filler(s) \o s) IN
    IF ~alwaysPositive /\ s # <<>> /\ s[1] >= 128
      THEN ComplementPlusOne(padded)
      ELSE FoldWords(padded)

\* inflate_long(s, always_positive), lines 12-28.  The filler of line 19 is
\* zero bytes whatever the sign, and a negative string gives
\* (1 << 8*len(s)) - out, which is never 0.
InflateLong(s, alwaysPositive) ==
    LET negative == ~alwaysPositive /\ s # <<>> /\ s[1] >= 128
        padded == Filler(s) \o s
        out == ComplementPlusOne(padded)
    IN  IF negative
          THEN IF IsZero(out) THEN <<255>> ELSE out
          ELSE FoldWords(padded)

====
