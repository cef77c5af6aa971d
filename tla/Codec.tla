-------------------------------- MODULE Codec --------------------------------
(***************************************************************************)
(* A caller of deflate_long and inflate_long (IntCodec): it encodes an     *)
(* integer and decodes the result again, as kex_gss and BER.encode_tlv     *)
(* use these functions.                                                    *)
(***************************************************************************)
EXTENDS IntCodec

CONSTANTS Values   \* integers given to deflate_long, as longs

VARIABLES
    n,          \* the integer encoded
    positive,   \* always_positive passed to inflate_long
    enc,        \* deflate_long(n) with add_sign_padding = True
    dec,        \* inflate_long(enc, positive)
    stage       \* "start", "encoded", "decoded"

vars == <<n, positive, enc, dec, stage>>

Init ==
    /\ n \in Values
    /\ positive \in BOOLEAN
    /\ enc = <<>>
    /\ dec = <<>>
    /\ stage = "start"

Deflate ==
    /\ stage = "start"
    /\ enc' = DeflateLong(n, TRUE)
    /\ stage' = "encoded"
    /\ UNCHANGED <<n, positive, dec>>

Inflate ==
    /\ stage = "encoded"
    /\ dec' = InflateLong(enc, positive)
    /\ stage' = "decoded"
    /\ UNCHANGED <<n, positive, enc>>

Done == stage = "decoded" /\ UNCHANGED vars

Next == Deflate \/ Inflate \/ Done

Spec == Init /\ [][Next]_vars

-----------------------------------------------------------------------------

TypeOK ==
    /\ n \in Values /\ positive \in BOOLEAN
    /\ enc \in Seq(Bytes)
    /\ stage \in {"start", "encoded", "decoded"}

\* What BER.encode_tlv and kex_gss rely on: a non-negative integer comes
\* back from deflate_long then inflate_long, with or without
\* always_positive.
UnsignedRoundTrip ==
    (stage = "decoded" /\ ~IsNeg(n)) => SameValue(dec, n)

====
