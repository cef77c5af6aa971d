------------------------------- MODULE HostKeys -------------------------------
(***************************************************************************)
(* src/paramiko/hostkeys.py HostKeys: the ordered list self._entries of    *)
(* HostKeyEntry records that add, load, __setitem__, __delitem__ and clear *)
(* change, and lookup and check read.  Every entry HostKeys builds has a   *)
(* single hostname ([hostname], lines 48, 74, 181, 190), so an entry is a  *)
(* record of one host form and one key.  A host form is a host name,       *)
(* written plain or hashed ("|1|salt|hmac", hash_host); _compare_hash      *)
(* matches a hashed form against the plain name it was made from, and no   *)
(* HMAC collisions are assumed.  A key is its type (get_name) and an       *)
(* identity.  A call that raises AttributeError on an entry whose key is   *)
(* None keeps the changes made before it, as Python does.                  *)
(***************************************************************************)
EXTENDS Naturals, Sequences, SequencesExt

CONSTANTS
    Hosts,      \* host names
    KeyTypes,   \* key type names, "ssh-rsa", "ssh-ed25519", ...
    KeyIds,     \* distinct keys of one type
    NoKey,      \* None as an entry's key
    MaxCalls    \* calls made on the object

Forms == [h : Hosts, hashed : BOOLEAN]
Keys == [type : KeyTypes, id : KeyIds]
Entries == [host : Forms, key : Keys \cup {NoKey}]
Plain(h) == [h |-> h, hashed |-> FALSE]

VARIABLES
    entries,    \* self._entries
    raised,     \* the last call raised: AttributeError on a key None, or
                \* TypeError out of load
    last,       \* the last call: its name, host form and keys
    calls,
    saved       \* the lines of the known_hosts file save last wrote

vars == <<entries, raised, last, calls, saved>>

\* _hostname_matches(hostname, entry), lines 112-125, for a plain name.
Matches(h, e) == e.host.h = h

\* The loop of add, lines 44-47: the first entry whose hostnames are
\* [hostname] and whose key is of the type; get_name() on a None key raises.
AddHit(es, x, k) ==
    {i \in DOMAIN es : es[i].host = x /\ (es[i].key = NoKey \/ es[i].key.type = k.type)}

FirstOf(S) == CHOOSE i \in S : \A j \in S : i <= j

\* An add that compares the key type and not the hostnames.
AddAnyHost(es, x, k) ==
    LET hit == {i \in DOMAIN es : es[i].key = NoKey \/ es[i].key.type = k.type} IN
    IF hit = {} THEN [es |-> Append(es, [host |-> x, key |-> k]), err |-> FALSE]
    ELSE LET i == FirstOf(hit) IN
         IF es[i].key = NoKey THEN [es |-> es, err |-> TRUE]
         ELSE [es |-> [es EXCEPT ![i].key = k], err |-> FALSE]

\* An add that keeps looking after it replaced a key and then appends.
AddNoReturn(es, x, k) ==
    LET hit == AddHit(es, x, k) IN
    IF hit = {} THEN [es |-> Append(es, [host |-> x, key |-> k]), err |-> FALSE]
    ELSE LET i == FirstOf(hit) IN
         IF es[i].key = NoKey THEN [es |-> es, err |-> TRUE]
         ELSE [es |-> Append([es EXCEPT ![i].key = k], [host |-> x, key |-> k]),
               err |-> FALSE]

\* add(hostname, keytype, key), lines 35-48, with keytype = key.get_name().
AddTo(es, x, k) ==
    LET hit == AddHit(es, x, k) IN
    IF hit = {} THEN [es |-> Append(es, [host |-> x, key |-> k]), err |-> FALSE]
    ELSE LET i == FirstOf(hit) IN
         IF es[i].key = NoKey THEN [es |-> es, err |-> TRUE]
         ELSE [es |-> [es EXCEPT ![i].key = k], err |-> FALSE]

\* One key type of __setitem__, lines 183-190: every entry with hostname
\* in its hostnames and a key of the type gets the new key, up to an entry
\* with key None, where get_name() raises; appended when none had it.
SetPass(es, x, k) ==
    LET bad == {i \in DOMAIN es : es[i].host = x /\ es[i].key = NoKey}
        stop == IF bad = {} THEN Len(es) + 1 ELSE FirstOf(bad)
        hit == {i \in 1..(stop - 1) : es[i].host = x /\ es[i].key # NoKey
                                       /\ es[i].key.type = k.type}
        es1 == [i \in DOMAIN es |-> IF i \in hit THEN [es[i] EXCEPT !.key = k] ELSE es[i]]
    IN  IF bad # {} THEN [es |-> es1, err |-> TRUE]
        ELSE IF hit # {} THEN [es |-> es1, err |-> FALSE]
        ELSE [es |-> Append(es, [host |-> x, key |-> k]), err |-> FALSE]

\* Apply one step per element of ks, stopping at the first that raises.
RECURSIVE Steps(_, _, _, _)
Steps(Op(_, _, _), es, xk, i) ==
    IF i > Len(xk) THEN [es |-> es, err |-> FALSE]
    ELSE LET r == Op(es, xk[i].x, xk[i].k) IN
         IF r.err THEN r ELSE Steps(Op, r.es, xk, i + 1)

Init ==
    /\ entries = <<>>
    /\ raised = FALSE
    /\ last = [op |-> "none", x |-> Plain(CHOOSE h \in Hosts : TRUE), ks |-> <<>>]
    /\ calls = 0
    /\ saved = <<>>

Call(op, x, ks, r) ==
    /\ calls < MaxCalls
    /\ calls' = calls + 1
    /\ entries' = r.es
    /\ raised' = r.err
    /\ last' = [op |-> op, x |-> x, ks |-> ks]
    /\ UNCHANGED saved

Add(x, k) == Call("add", x, <<k>>, AddTo(entries, x, k))

\* The lines of a known_hosts file, as load sees them after strip(): blank,
\* a comment, or any other text (an entry, well formed or not).
LineKinds == {"blank", "comment", "entry"}

\* HostKeyEntry.from_line, lines 249-262, on a line with text: fewer than
\* three fields raise InvalidHostKey (line 252); otherwise b() (util.py
\* 163-166) already returns bytes, whose .encode at line 259 raises
\* AttributeError, and the bare except raises InvalidHostKey (line 261).
\* That name is the class of lines 219-224, which shadows the import of
\* line 10 and takes two arguments, so each of these raises is a
\* TypeError.  from_type_string is never reached.
FromLineRaises(kind) == kind = "entry"

\* load(filename), lines 50-76: blank and comment lines are skipped; the
\* TypeError of from_line is not among the exceptions of line 75, so load
\* raises at the first other line, before any add.  A file is one line:
\* further lines after it are never read, and blank ones change nothing.
Load(kind) ==
    Call("load", last.x, <<>>, [es |-> entries, err |-> FromLineRaises(kind)])

\* __setitem__(hostname, entry), lines 179-190: an empty dict appends an
\* entry with key None; otherwise one pass per key type, in dict order.
SetItem(x, ks) ==
    Call("setitem", x, ks,
         IF ks = <<>> THEN [es |-> Append(entries, [host |-> x, key |-> NoKey]), err |-> FALSE]
         ELSE Steps(SetPass, entries, [i \in DOMAIN ks |-> [x |-> x, k |-> ks[i]]], 1))

\* __delitem__(key), lines 169-177: pop the first matching entry; KeyError,
\* and no change, when there is none.
DelItem(h) ==
    LET hit == {i \in DOMAIN entries : Matches(h, entries[i])} IN
    Call("delitem", Plain(h), <<>>,
         [es |-> IF hit = {} THEN entries ELSE RemoveAt(entries, FirstOf(hit)),
          err |-> FALSE])

\* clear(), lines 150-154.
Clear == Call("clear", Plain(CHOOSE h \in Hosts : TRUE), <<>>, [es |-> <<>>, err |-> FALSE])

\* save(filename), lines 78-94: open(filename, 'w') empties the file, then
\* one line "hostname keytype base64" per hostname of each entry, in order;
\* get_name() on an entry whose key is None raises AttributeError and the
\* file keeps the lines written before it.  A line is the entry's host form
\* and key.
Save ==
    LET bad == {i \in DOMAIN entries : entries[i].key = NoKey}
        n == IF bad = {} THEN Len(entries) ELSE FirstOf(bad) - 1
    IN  /\ calls < MaxCalls
        /\ calls' = calls + 1
        /\ saved' = SubSeq(entries, 1, n)
        /\ raised' = (bad # {})
        /\ last' = [op |-> "save", x |-> last.x, ks |-> <<>>]
        /\ UNCHANGED entries

Done == calls = MaxCalls /\ UNCHANGED vars

\* A dict of key type to key, in insertion order.
KeyDicts == {<<>>} \cup {<<k>> : k \in Keys}
            \cup {<<k, l>> \in Keys \X Keys : k.type # l.type}

Next ==
    \/ \E x \in Forms, k \in Keys : Add(x, k)
    \/ \E kind \in LineKinds : Load(kind)
    \/ \E h \in Hosts, ks \in KeyDicts : SetItem(Plain(h), ks)
    \/ \E h \in Hosts : DelItem(h)
    \/ Clear
    \/ Save
    \/ Done

Spec == Init /\ [][Next]_vars

-----------------------------------------------------------------------------

\* lookup(hostname), lines 96-110: key type to key over the matching
\* entries, a later entry overwriting an earlier one.  Defined only when no
\* matching entry has key None (get_name() would raise).
LookupRaises(h) == \E i \in DOMAIN entries : Matches(h, entries[i]) /\ entries[i].key = NoKey
Lookup(h, t) ==
    LET m == {i \in DOMAIN entries : Matches(h, entries[i]) /\ entries[i].key # NoKey
                                       /\ entries[i].key.type = t} IN
    IF m = {} THEN NoKey ELSE entries[CHOOSE i \in m : \A j \in m : j <= i].key

\* check(hostname, key), lines 134-148.
Check(h, k) == \E i \in DOMAIN entries : Matches(h, entries[i]) /\ entries[i].key = k

\* The table as a dict, seen through lookup: for each host name and key
\* type, the key lookup(h) gives for that type, or NoKey.
View == [h \in Hosts |-> [t \in KeyTypes |-> Lookup(h, t)]]

Dict == INSTANCE HostKeysDict WITH
    table <- View, call <- [op |-> last.op, h |-> last.x.h, ks |-> last.ks]

TypeOK ==
    /\ entries \in Seq(Entries)
    /\ raised \in BOOLEAN
    /\ calls \in 0..MaxCalls
    /\ saved \in Seq(Entries)

\* add and __setitem__ replace the key of an existing (hostname, keytype)
\* entry rather than adding a second one, so no host form ever has two
\* entries with keys of the same type, whatever mix of add, __setitem__,
\* __delitem__ and clear produced the list.
UniqueEntry ==
    \A i, j \in DOMAIN entries :
        (i < j /\ entries[i].host = entries[j].host
         /\ entries[i].key # NoKey /\ entries[j].key # NoKey)
          => entries[i].key.type # entries[j].key.type

\* The add docstring: after add(hostname, keytype, key) returns, the key is
\* the one check accepts and lookup returns for that hostname and type,
\* for a host whose entries are all written plain (hashed entries are the
\* exception, see the README).
LookupAfterAdd ==
    (last.op \in {"add", "setitem"} /\ ~raised /\ ~last.x.hashed
     /\ \A i \in DOMAIN entries : Matches(last.x.h, entries[i]) => ~entries[i].host.hashed)
      => \A n \in DOMAIN last.ks :
            /\ Check(last.x.h, last.ks[n])
            /\ ~LookupRaises(last.x.h) => Lookup(last.x.h, last.ks[n].type) = last.ks[n]


\* The class docstring: a HostKeys "can be treated like a dict", and any
\* dict lookup is equivalent to calling lookup.  Seen through lookup, every
\* add, load, __setitem__, __delitem__, clear and save call is a step of
\* the dict HostKeysDict describes: add replaces the (hostname, keytype)
\* key, del removes the host.
DictRefined == Dict!Spec

====
