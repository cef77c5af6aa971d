-------------------------------- MODULE Moduli --------------------------------
(***************************************************************************)
(* src/paramiko/primes.py ModulusPack.read_file: the reader of the moduli  *)
(* file (/etc/ssh/moduli) into pack, a dict from modulus to the (generator,*)
(* size) pairs given for it, and discarded, the lines it could not use.   *)
(* One step is one pass of the for loop.  A line, after strip(), is blank, *)
(* a comment, or words: its fields, each an integer int() accepts or Junk. *)
(***************************************************************************)
EXTENDS Integers, Sequences, SequencesExt

CONSTANTS
    ModuliFiles,    \* the files read: sequences of lines
    Junk            \* a field int() rejects with ValueError

VARIABLES
    mlines,     \* the file
    mi,         \* the next line of the for loop
    pack,       \* self.pack
    discarded,  \* self.discarded
    mstage      \* "start", "read", "done"

vars == <<mlines, mi, pack, discarded, mstage>>

\* self.pack.setdefault(mod, []).append(entry).
AppendTo(pk, mod, entry) ==
    IF mod \in DOMAIN pk THEN [pk EXCEPT ![mod] = Append(@, entry)]
    ELSE (mod :> <<entry>>) @@ pk

\* ModulusPack.__init__, lines 19-21.
Init ==
    /\ mlines = <<>> /\ mi = 1
    /\ pack = [m \in {} |-> <<>>]
    /\ discarded = <<>>
    /\ mstage = "start"

\* read_file(filename) opens the file, line 27.
Open(f) ==
    /\ mstage = "start"
    /\ mlines' = f /\ mi' = 1
    /\ mstage' = "read"
    /\ UNCHANGED <<pack, discarded>>

\* A pass that appends the pair before converting the last field.
ReadLineEarlyAppend ==
    /\ mstage = "read"
    /\ mi <= Len(mlines)
    /\ LET l == mlines[mi]
           fs == l.fields
       IN  IF l.t # "words" THEN UNCHANGED <<pack, discarded>>
           ELSE IF Len(fs) # 4 \/ fs[2] = Junk \/ fs[3] = Junk
                THEN /\ discarded' = Append(discarded, l)
                     /\ UNCHANGED pack
           ELSE /\ pack' = AppendTo(pack, fs[2], <<fs[3], fs[4]>>)
                /\ discarded' = IF fs[4] = Junk THEN Append(discarded, l) ELSE discarded
    /\ mi' = mi + 1
    /\ UNCHANGED <<mlines, mstage>>

\* One pass of the for loop, lines 28-38: a blank or comment line is
\* skipped; the unpacking into four names and the three int() calls raise
\* ValueError, which puts the line in discarded; else the pair is
\* appended under the modulus.  The first field is never converted.
ReadLine ==
    /\ mstage = "read"
    /\ mi <= Len(mlines)
    /\ LET l == mlines[mi]
           fs == l.fields
       IN  IF l.t # "words" THEN UNCHANGED <<pack, discarded>>
           ELSE IF Len(fs) # 4 \/ fs[2] = Junk \/ fs[3] = Junk \/ fs[4] = Junk
                THEN /\ discarded' = Append(discarded, l)
                     /\ UNCHANGED pack
           ELSE /\ pack' = AppendTo(pack, fs[2], <<fs[3], fs[4]>>)
                /\ UNCHANGED discarded
    /\ mi' = mi + 1
    /\ UNCHANGED <<mlines, mstage>>

\* The with block ends at the end of the file.
Close ==
    /\ mstage = "read"
    /\ mi > Len(mlines)
    /\ mstage' = "done"
    /\ UNCHANGED <<mlines, mi, pack, discarded>>

Done == mstage = "done" /\ UNCHANGED vars

Next ==
    \/ \E f \in ModuliFiles : Open(f)
    \/ ReadLine
    \/ Close
    \/ Done

Spec == Init /\ [][Next]_vars

-----------------------------------------------------------------------------

\* A line of the moduli format: four fields, the last three integers.
WellFormed(l) ==
    /\ l.t = "words" /\ Len(l.fields) = 4
    /\ \A j \in 2..4 : l.fields[j] # Junk

TypeOK ==
    /\ mstage \in {"start", "read", "done"}
    /\ mi \in 1..(Len(mlines) + 1)

\* The docstring of ModulusPack (the contents of the moduli file): after
\* any number of lines, pack holds under each modulus the (generator,
\* size) pairs of exactly the well-formed lines giving it, in file order,
\* and discarded exactly the other lines that are not blank or comments,
\* in file order; no line is in both.
ModuliKept ==
    LET read == SubSeq(mlines, 1, mi - 1)
        good == SelectSeq(read, WellFormed)
    IN  /\ DOMAIN pack = {good[j].fields[2] : j \in DOMAIN good}
        /\ \A m \in DOMAIN pack :
              pack[m] = LET g == SelectSeq(good, LAMBDA l : l.fields[2] = m)
                        IN  [j \in DOMAIN g |-> <<g[j].fields[3], g[j].fields[4]>>]
        /\ discarded = SelectSeq(read, LAMBDA l : l.t = "words" /\ ~WellFormed(l))

====
