---------------------------- MODULE PacketizerTimer ----------------------------
(***************************************************************************)
(* The timer bookkeeping of src/paramiko/packet.py's Packetizer: the       *)
(* handshake deadline (start_handshake, handshake_timed_out,               *)
(* complete_handshake) and the keepalive settings (set_keepalive).  Time   *)
(* is abstracted to one event: the deadline of the last start_handshake    *)
(* passes.  handshake_timed_out() is a pure query, so it is an operator,   *)
(* not an action.                                                          *)
(*                                                                         *)
(* start_handshake evaluates threading.Timer(timeout,                      *)
(* self.__handshake_timed_out) inside the class, where the name is mangled *)
(* to _Packetizer__handshake_timed_out; the class defines only the public  *)
(* handshake_timed_out, so the lookup raises AttributeError and no Timer   *)
(* is created.  The caller may catch the exception and go on.              *)
(***************************************************************************)
EXTENDS Naturals

CONSTANTS
    Intervals,  \* keepalive intervals passed to set_keepalive (0 disables)
    Callbacks,  \* keepalive callbacks
    NoCallback  \* None

VARIABLES
    handshakeComplete,  \* __handshake_complete
    timer,              \* __timer: "none", "running" or "cancelled"
    timerExpired,       \* __timer_expired
    keepaliveInterval,  \* __keepalive_interval
    keepaliveCallback,  \* __keepalive_callback
    deadline,           \* "unset", "pending" or "passed": the deadline of
                        \* the last start_handshake, in real time
    raised              \* the last start_handshake raised AttributeError

vars == <<handshakeComplete, timer, timerExpired, keepaliveInterval,
          keepaliveCallback, deadline, raised>>

\* __init__, lines 65-70.
Init ==
    /\ handshakeComplete = FALSE
    /\ timer = "none"
    /\ timerExpired = FALSE
    /\ keepaliveInterval = 0
    /\ keepaliveCallback = NoCallback
    /\ deadline = "unset"
    /\ raised = FALSE

\* set_keepalive, lines 115-123 (__keepalive_last is the clock, abstracted).
SetKeepalive(i, c) ==
    /\ keepaliveInterval' = i
    /\ keepaliveCallback' = c
    /\ UNCHANGED <<handshakeComplete, timer, timerExpired, deadline, raised>>

\* start_handshake, lines 125-135: the flag is cleared, then building the
\* Timer raises; __timer keeps its old value and nothing will set
\* __timer_expired.
StartHandshake ==
    /\ handshakeComplete' = FALSE
    /\ raised' = TRUE
    /\ deadline' = "pending"
    /\ UNCHANGED <<timer, timerExpired, keepaliveInterval, keepaliveCallback>>

\* complete_handshake, lines 149-155: the flag is set and a timer, if any,
\* cancelled.
CompleteHandshake ==
    /\ handshakeComplete' = TRUE
    /\ timer' = IF timer # "none" THEN "cancelled" ELSE timer
    /\ UNCHANGED <<timerExpired, keepaliveInterval, keepaliveCallback,
                   deadline, raised>>

\* Real time passes the deadline of the last start_handshake.
DeadlinePasses ==
    /\ deadline = "pending"
    /\ deadline' = "passed"
    /\ UNCHANGED <<handshakeComplete, timer, timerExpired, keepaliveInterval,
                   keepaliveCallback, raised>>

Next ==
    \/ \E i \in Intervals, c \in Callbacks \cup {NoCallback} : SetKeepalive(i, c)
    \/ StartHandshake
    \/ CompleteHandshake
    \/ DeadlinePasses

Spec == Init /\ [][Next]_vars

\* handshake_timed_out, lines 137-147.
HandshakeTimedOut == timerExpired /\ ~handshakeComplete

-----------------------------------------------------------------------------

\* The deadline state machine of the design (and its test: start_handshake
\* then sleeping past the deadline without complete_handshake gives
\* handshake_timed_out() == True): once the deadline of a started handshake
\* has passed and complete_handshake was not called, handshake_timed_out()
\* reports it.
TimeoutReported ==
    (deadline = "passed" /\ ~handshakeComplete) => HandshakeTimedOut

====
