-------------------------------- MODULE KexGSS --------------------------------
(***************************************************************************)
(* src/paramiko/kex_gss.py: the GSS-API key exchange engines KexGSSGroup1  *)
(* (and KexGSSGroup14, the same code with another prime) and KexGSSGex,    *)
(* one engine on each end of a connection.  The transport calls start_kex *)
(* on both ends (KexGSSGex.start_kex tests server_mode, so it is called in *)
(* both) and then parse_next with each KEXGSS packet the peer sent, in     *)
(* order.  The transport methods the engines call are recorded:            *)
(* _send_message puts a packet in the peer's inbox, _expect_packet,        *)
(* _set_K_H, _set_remote_host_key and _activate_outbound set fields of the *)
(* end.  An exception raised by a handler ends the exchange of that end.   *)
(* Every GSS-API call succeeds: the model asks whether the exchange can    *)
(* complete when nothing goes wrong.  The groups are scaled to a small     *)
(* prime; arithmetic is exact.                                             *)
(***************************************************************************)
EXTENDS Integers, Sequences, IntCodec

CONSTANTS
    Ends,       \* one engine per end of each connection
    Class,      \* Class[e]: "group1" or "gex"
    Server,     \* Server[e]: transport.server_mode
    Peer,       \* Peer[e]: the end e is connected to
    P, G,       \* the group of KexGSSGroup1, scaled
    RandBytes,  \* os.urandom(127), scaled to short byte strings
    Tokens      \* GSS-API tokens

None == -1

\* Packet types, kex_gss.py lines 23-24.
INIT == 30
CONTINUE == 31
COMPLETE == 32
HOSTKEY == 33
ERROR == 34
GROUPREQ == 40
GROUP == 41

VARIABLES
    x, e, f, p, g,  \* the engine's fields (p, g: KexGSSGex only)
    inbox,      \* packets sent by the peer, not yet given to parse_next
    expected,   \* the types last passed to transport._expect_packet
    K,          \* the shared secret given to transport._set_K_H
    hostKey,    \* transport._set_remote_host_key was called
    activated,  \* transport._activate_outbound was called
    started,    \* start_kex has run
    raised      \* the exception that ended the exchange, or "none"

vars == <<x, e, f, p, g, inbox, expected, K, hostKey, activated, started,
          raised>>

\* Python's pow(b, n, m) for n >= 0: b^n = (b^2)^(n div 2) * b^(n mod 2).
RECURSIVE PowMod(_, _, _)
PowMod(b, n, m) ==
    IF n = 0 THEN 1 % m
    ELSE (PowMod((b * b) % m, n \div 2, m) * (IF n % 2 = 1 THEN b ELSE 1)) % m

Msg(t, tok, v, w) == [type |-> t, token |-> tok, v |-> v, w |-> w]

\* transport._send_message(m) from end d.
Send(d, m) == inbox' = [inbox EXCEPT ![Peer[d]] = Append(@, m)]

\* __init__ of either class (lines 39-45, 182-192): x, e, f are 0 for
\* KexGSSGroup1 and None for KexGSSGex, whose p and g are None too.
Init ==
    /\ x = [d \in Ends |-> IF Class[d] = "group1" THEN 0 ELSE None]
    /\ e = x /\ f = x
    /\ p = [d \in Ends |-> None] /\ g = p
    /\ inbox = [d \in Ends |-> <<>>]
    /\ expected = [d \in Ends |-> {}]
    /\ K = [d \in Ends |-> None]
    /\ hostKey = [d \in Ends |-> FALSE]
    /\ activated = [d \in Ends |-> FALSE]
    /\ started = [d \in Ends |-> FALSE]
    /\ raised = [d \in Ends |-> "none"]

\* KexGSSGroup1._generate_x, lines 77-86: x = inflate_long(b'\x7f' +
\* os.urandom(127), True).
GenerateX(r) == LongValue(InflateLong(<<127>> \o r, TRUE))


\* KexGSSGroup1.start_kex, lines 47-57, on either end: INIT with the
\* token of ssh_init_sec_context and e = G^x mod P.
Group1StartKex(d) ==
    \E r \in RandBytes, tok \in Tokens :
        LET xv == GenerateX(r) IN
        /\ x' = [x EXCEPT ![d] = xv]
        /\ e' = [e EXCEPT ![d] = PowMod(G, xv, P)]
        /\ Send(d, Msg(INIT, tok, PowMod(G, xv, P), 0))
        /\ UNCHANGED <<f, p, g, expected, K, hostKey, activated, raised>>

\* KexGSSGex.start_kex, lines 194-207: a server expects GROUPREQ; a client
\* sends GROUPREQ (min, preferred, max bits) and expects GROUP.
GexStartKex(d) ==
    /\ IF Server[d]
         THEN /\ expected' = [expected EXCEPT ![d] = {GROUPREQ}]
              /\ UNCHANGED inbox
         ELSE /\ Send(d, Msg(GROUPREQ, None, 1024, 8192))
              /\ expected' = [expected EXCEPT ![d] = {GROUP}]
    /\ UNCHANGED <<x, e, f, p, g, K, hostKey, activated, raised>>

StartKex(d) ==
    /\ ~started[d]
    /\ started' = [started EXCEPT ![d] = TRUE]
    /\ IF Class[d] = "group1" THEN Group1StartKex(d) ELSE GexStartKex(d)

-----------------------------------------------------------------------------
(* The handlers.  Each is called by parse_next with the packet at the head *)
(* of the inbox, which the transport has taken off; Reply(d, ms) removes   *)
(* it and sends the packets ms to the peer.                                *)

Reply(d, ms) ==
    inbox' = [inbox EXCEPT ![d] = Tail(@), ![Peer[d]] = @ \o ms]

\* _parse_kexgss_hostkey, lines 88-95 (KexGSSGex: 302-309).
ParseHostkey(d) ==
    /\ hostKey' = [hostKey EXCEPT ![d] = TRUE]
    /\ Reply(d, <<>>)
    /\ UNCHANGED <<x, e, f, p, g, expected, K, activated, raised>>

\* _parse_kexgss_continue, lines 97-109: answer with the next token of
\* ssh_init_sec_context.
Group1Continue(d) ==
    \E tok \in Tokens :
        /\ Reply(d, <<Msg(CONTINUE, tok, 0, 0)>>)
        /\ UNCHANGED <<x, e, f, p, g, expected, K, hostKey, activated, raised>>

\* _parse_kexgss_complete, lines 111-123: f and the MIC token; ssh_check_mic
\* succeeds; K = f^x mod P goes to _set_K_H, then _activate_outbound.
Group1Complete(d, m) ==
    /\ f' = [f EXCEPT ![d] = m.v]
    /\ K' = [K EXCEPT ![d] = PowMod(m.v, x[d], P)]
    /\ activated' = [activated EXCEPT ![d] = TRUE]
    /\ Reply(d, <<>>)
    /\ UNCHANGED <<x, e, p, g, expected, hostKey, raised>>

\* An exception ends the exchange; the packet was taken off.
Fail(d, why) ==
    /\ raised' = [raised EXCEPT ![d] = why]
    /\ Reply(d, <<>>)

\* _parse_kexgss_error, lines 145-162: raises SSHException.
ParseError(d) ==
    /\ Fail(d, "SSHException")
    /\ UNCHANGED <<x, e, f, p, g, expected, K, hostKey, activated>>

\* KexGSSGroup1.parse_next, lines 59-75: HOSTKEY, CONTINUE, COMPLETE and
\* ERROR; any other type -- INIT included, so _parse_kexgss_init (lines
\* 125-143) is never reached -- raises SSHException.
Group1ParseNext(d, m) ==
    CASE m.type = HOSTKEY -> ParseHostkey(d)
      [] m.type = CONTINUE -> Group1Continue(d)
      [] m.type = COMPLETE -> Group1Complete(d, m)
      [] m.type = ERROR -> ParseError(d)
      [] OTHER -> /\ Fail(d, "SSHException")
                  /\ UNCHANGED <<x, e, f, p, g, expected, K, hostKey, activated>>

\* KexGSSGex._parse_kexgss_groupreq, lines 233-254: the three ints are read,
\* then self.p = self.P raises AttributeError: KexGSSGex has no P.
GexGroupReq(d) ==
    /\ Fail(d, "AttributeError")
    /\ UNCHANGED <<x, e, f, p, g, expected, K, hostKey, activated>>

\* _parse_kexgss_group, lines 256-273: p and g are stored, then
\* util.generate_random_int raises AttributeError: util.py defines no such
\* function.
GexGroup(d, m) ==
    /\ p' = [p EXCEPT ![d] = m.v]
    /\ g' = [g EXCEPT ![d] = m.w]
    /\ Fail(d, "AttributeError")
    /\ UNCHANGED <<x, e, f, expected, K, hostKey, activated>>

\* _parse_kexgss_gex_init, lines 275-300: the client token and e are read,
\* then util.generate_random_int raises AttributeError.
GexInit(d, m) ==
    /\ e' = [e EXCEPT ![d] = m.v]
    /\ Fail(d, "AttributeError")
    /\ UNCHANGED <<x, f, p, g, expected, K, hostKey, activated>>

\* _parse_kexgss_continue, _complete and _error, lines 311-342: pass.
GexIgnore(d) ==
    /\ Reply(d, <<>>)
    /\ UNCHANGED <<x, e, f, p, g, expected, K, hostKey, activated, raised>>

\* KexGSSGex.parse_next, lines 209-231.
GexParseNext(d, m) ==
    CASE m.type = GROUPREQ -> GexGroupReq(d)
      [] m.type = GROUP -> GexGroup(d, m)
      [] m.type = INIT -> GexInit(d, m)
      [] m.type = HOSTKEY -> ParseHostkey(d)
      [] m.type \in {CONTINUE, COMPLETE, ERROR} -> GexIgnore(d)
      [] OTHER -> /\ Fail(d, "SSHException")
                  /\ UNCHANGED <<x, e, f, p, g, expected, K, hostKey, activated>>

\* The transport of end d, its kex engine started and its exchange not
\* ended, hands the next packet from the peer to parse_next.
ParseNext(d) ==
    /\ started[d] /\ raised[d] = "none" /\ inbox[d] # <<>>
    /\ IF Class[d] = "group1" THEN Group1ParseNext(d, Head(inbox[d]))
                              ELSE GexParseNext(d, Head(inbox[d]))
    /\ UNCHANGED started

Next == \E d \in Ends : StartKex(d) \/ ParseNext(d)

\* The transport starts the engine once key exchange was negotiated, and
\* its thread hands every packet that arrives to parse_next.
Fairness == \A d \in Ends : WF_vars(StartKex(d)) /\ WF_vars(ParseNext(d))

Spec == Init /\ [][Next]_vars /\ Fairness

-----------------------------------------------------------------------------

TypeOK ==
    /\ activated \in [Ends -> BOOLEAN] /\ started \in [Ends -> BOOLEAN]
    /\ raised \in [Ends -> {"none", "SSHException", "AttributeError"}]
    /\ \A d \in Ends : inbox[d] \in Seq([type : {INIT, CONTINUE, COMPLETE,
                          HOSTKEY, ERROR, GROUPREQ, GROUP}, token : Tokens \cup {None},
                          v : Int, w : Int])

\* The purpose of the engines (RFC 4462, the module docstring): the
\* exchange between a client and a server completes, both ends handing
\* their shared secret to the transport and activating the new keys.
KexCompletes ==
    \A d \in Ends : ~Server[d] => <>(activated[d] /\ activated[Peer[d]])

====
