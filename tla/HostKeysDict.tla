------------------------------ MODULE HostKeysDict ------------------------------
(***************************************************************************)
(* What the docstrings of src/paramiko/hostkeys.py promise of a HostKeys   *)
(* table, with no list of entries: it "can be treated like a dict", a      *)
(* mapping from a host name to a dict of key type to key, and "any dict    *)
(* lookup is equivalent to calling lookup".  add replaces the key of an    *)
(* existing (hostname, keytype) pair; load "will just call add" for every *)
(* host of every line; del removes the host; clear empties the table;     *)
(* save leaves it alone.  Where the docstrings say nothing the promise is  *)
(* read generously: __setitem__ puts each key type of its dict, and a     *)
(* call that raises may have made any part of its puts.                   *)
(***************************************************************************)
EXTENDS Naturals, Sequences

CONSTANTS Hosts, KeyTypes, KeyIds, NoKey

Keys == [type : KeyTypes, id : KeyIds]

VARIABLES
    table,      \* table[h][t]: the key lookup(h) gives for type t, or NoKey
    call,       \* the last call: [op, h, ks]
    raised      \* whether it raised

vars == <<table, call, raised>>

Empty == [h \in Hosts |-> [t \in KeyTypes |-> NoKey]]

\* table with key k put under each host of hs.
PutAt(tb, hs, k) == [h \in Hosts |-> IF h \in hs THEN [tb[h] EXCEPT ![k.type] = k] ELSE tb[h]]

\* table with every key of ks put under host h.
PutKeys(tb, h, ks) ==
    [tb EXCEPT ![h] = [t \in KeyTypes |->
        IF \E i \in DOMAIN ks : ks[i].type = t
        THEN ks[CHOOSE i \in DOMAIN ks : ks[i].type = t] ELSE tb[h][t]]]

\* The parts of a dict of at most two keys.
SubKeys(ks) == {ks, <<>>} \cup {<<ks[i]>> : i \in DOMAIN ks}

\* Dicts of key type to key, in insertion order.
KeyDicts == {<<>>} \cup {<<k>> : k \in Keys}
            \cup {<<k, l>> \in Keys \X Keys : k.type # l.type}

Init ==
    /\ table = Empty
    /\ call = [op |-> "none", h |-> CHOOSE h \in Hosts : TRUE, ks |-> <<>>]
    /\ raised = FALSE

Called(op, h, ks) == call' = [op |-> op, h |-> h, ks |-> ks]

\* add(hostname, keytype, key): the pair's key is replaced; raising, nothing.
Add(h, k) ==
    /\ Called("add", h, <<k>>)
    /\ \/ raised' = FALSE /\ table' = PutAt(table, {h}, k)
       \/ raised' = TRUE /\ UNCHANGED table

\* load(filename) of a line naming h among its hosts: add for each host of
\* the line; one that raises stops after any of them.  A line that is not
\* an entry changes nothing.
Load(h, ks) ==
    /\ Called("load", h, ks)
    /\ IF ks = <<>> THEN UNCHANGED table /\ raised' \in BOOLEAN
       ELSE \/ raised' = FALSE /\ \E hs \in SUBSET Hosts : h \in hs /\ table' = PutAt(table, hs, ks[1])
            \/ raised' = TRUE /\ \E hs \in SUBSET Hosts : table' = PutAt(table, hs, ks[1])

\* hk[hostname] = {keytype: key, ...}: each key type is put.
SetItem(h, ks) ==
    /\ Called("setitem", h, ks)
    /\ \/ raised' = FALSE /\ table' = PutKeys(table, h, ks)
       \/ raised' = TRUE /\ \E sub \in SubKeys(ks) : table' = PutKeys(table, h, sub)

\* del hk[hostname]: the host is no longer in the table.
DelItem(h) ==
    /\ Called("delitem", h, <<>>)
    /\ raised' = FALSE
    /\ table' = [table EXCEPT ![h] = [t \in KeyTypes |-> NoKey]]

Clear(h) == Called("clear", h, <<>>) /\ raised' = FALSE /\ table' = Empty

Save(h) == Called("save", h, <<>>) /\ raised' \in BOOLEAN /\ UNCHANGED table

Next ==
    \E h \in Hosts :
        \/ \E k \in Keys : Add(h, k)
        \/ \E ks \in {<<>>} \cup {<<k>> : k \in Keys} : Load(h, ks)
        \/ \E ks \in KeyDicts : SetItem(h, ks)
        \/ DelItem(h) \/ Clear(h) \/ Save(h)

Spec == Init /\ [][Next]_vars

====
