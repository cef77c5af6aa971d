---------------------------- MODULE BufferedPipe ----------------------------
(***************************************************************************)
(* src/paramiko/buffered_pipe.py: a byte buffer fed by one thread (the     *)
(* transport feeding a channel), read with blocking reads and timeouts by  *)
(* reader threads, closed by the transport, emptied, and mirrored into a   *)
(* threading.Event that select-style waiters watch.                        *)
(*                                                                         *)
(* A section executed while holding self._lock is one action: no other    *)
(* section can interleave with it.  Condition.wait releases the lock, so   *)
(* waiting and resuming are separate actions; notify() moves one waiter    *)
(* to "woken", and a woken reader re-acquires the lock in ReadResume.      *)
(* The statements run outside the lock (event.set() after feed and close,  *)
(* and the whole of set_event) are actions of their own.  Fed bytes are    *)
(* numbered 1, 2, ... in feeding order.                                    *)
(***************************************************************************)
EXTENDS Naturals, Sequences, SequencesExt

CONSTANTS
    Readers,        \* threads calling read(nbytes, timeout)
    ReadSizes,      \* nbytes values the readers pass
    MaxReads,       \* read calls per reader
    MaxFed,         \* bytes fed in all
    ChunkSizes,     \* sizes of the data a single feed() passes
    EmptyCalls,     \* empty() calls (0 or 1)
    SetEventCalls,  \* set_event() calls made while the pipe is in use
    EventAtStart    \* an event was installed before any other call

VARIABLES
    buffer,     \* self._buffer
    closed,     \* self._closed
    hasEvent,   \* self._event is not None
    evset,      \* the event is set
    waiters,    \* readers inside self._cv.wait
    rpc,        \* reader: "idle", "waiting", "woken"
    rtimed,     \* the pending read of the reader has a timeout
    rsize,      \* nbytes of the pending read
    rres,       \* what the last read returned: "none", "data", "eof", "timeout"
    rclosedAt,  \* whether the pipe was closed when that read returned
    reads,      \* read calls made per reader
    fed,        \* every byte fed so far, in order
    out,        \* every byte removed by read or empty, in order of removal
    fpc,        \* feeder: "idle" or "set" (between unlock and event.set())
    cpc,        \* closer: "idle", "set", "done"
    sepc,       \* set_event caller: "idle", "decided", "done"
    seReady,    \* readiness set_event read before acting on the event
    setEvents,  \* set_event calls made
    empties     \* empty calls made

vars == <<buffer, closed, hasEvent, evset, waiters, rpc, rtimed, rsize, rres,
          rclosedAt, reads, fed, out, fpc, cpc, sepc, seReady, setEvents,
          empties>>

Min2(a, b) == IF a < b THEN a ELSE b

Init ==
    /\ buffer = <<>>
    /\ closed = FALSE
    /\ hasEvent = EventAtStart
    /\ evset = FALSE
    /\ waiters = {}
    /\ rpc = [r \in Readers |-> "idle"]
    /\ rtimed = [r \in Readers |-> FALSE]
    /\ rsize = [r \in Readers |-> 1]
    /\ rres = [r \in Readers |-> "none"]
    /\ rclosedAt = [r \in Readers |-> FALSE]
    /\ reads = [r \in Readers |-> 0]
    /\ fed = <<>>
    /\ out = <<>>
    /\ fpc = "idle"
    /\ cpc = "idle"
    /\ sepc = "idle"
    /\ seReady = FALSE
    /\ setEvents = 0
    /\ empties = 0

\* self._cv.notify(): wakes one waiting reader, if there is one.
Notify ==
    IF waiters = {}
      THEN UNCHANGED <<waiters, rpc>>
      ELSE \E x \in waiters :
             /\ waiters' = waiters \ {x}
             /\ rpc' = [rpc EXCEPT ![x] = "woken"]

\* feed(data), lines 52-54: under the lock, extend and notify.
FeedLocked ==
    /\ fpc = "idle"
    /\ \E k \in ChunkSizes :
         /\ Len(fed) + k <= MaxFed
         /\ LET chunk == [i \in 1..k |-> Len(fed) + i] IN
            /\ fed' = fed \o chunk
            /\ buffer' = buffer \o chunk
    /\ Notify
    /\ fpc' = "set"
    /\ UNCHANGED <<closed, hasEvent, evset, rtimed, rsize, rres, rclosedAt,
                   reads, out, cpc, sepc, seReady, setEvents, empties>>

\* A feed that forgets the event.
FeedSkipsSet ==
    /\ fpc = "set"
    /\ fpc' = "idle"
    /\ UNCHANGED <<buffer, closed, hasEvent, evset, waiters, rpc, rtimed, rsize,
                   rres, rclosedAt, reads, fed, out, cpc, sepc, seReady,
                   setEvents, empties>>

\* feed, lines 55-56: after releasing the lock, set the event.
FeedSetEvent ==
    /\ fpc = "set"
    /\ evset' = (evset \/ hasEvent)
    /\ fpc' = "idle"
    /\ UNCHANGED <<buffer, closed, hasEvent, waiters, rpc, rtimed, rsize,
                   rres, rclosedAt, reads, fed, out, cpc, sepc, seReady,
                   setEvents, empties>>

\* A close that does not notify the condition.
CloseNoNotify ==
    /\ cpc = "idle"
    /\ closed' = TRUE
    /\ cpc' = "set"
    /\ UNCHANGED <<buffer, hasEvent, evset, waiters, rpc, rtimed, rsize, rres,
                   rclosedAt, reads, fed, out, fpc, sepc, seReady, setEvents,
                   empties>>

\* close(), lines 136-138.
CloseLocked ==
    /\ cpc = "idle"
    /\ closed' = TRUE
    /\ Notify
    /\ cpc' = "set"
    /\ UNCHANGED <<buffer, hasEvent, evset, rtimed, rsize, rres, rclosedAt,
                   reads, fed, out, fpc, sepc, seReady, setEvents, empties>>

\* close, lines 139-140.
CloseSetEvent ==
    /\ cpc = "set"
    /\ evset' = (evset \/ hasEvent)
    /\ cpc' = "done"
    /\ UNCHANGED <<buffer, closed, hasEvent, waiters, rpc, rtimed, rsize,
                   rres, rclosedAt, reads, fed, out, fpc, sepc, seReady,
                   setEvents, empties>>

\* A slice that hands out one byte fewer than it deletes.
TakeNowShort(r, nbytes) ==
    LET n == Min2(nbytes, Len(buffer)) IN
    /\ rpc' = [rpc EXCEPT ![r] = "idle"]
    /\ rclosedAt' = [rclosedAt EXCEPT ![r] = closed]
    /\ IF buffer = <<>> /\ closed
         THEN /\ rres' = [rres EXCEPT ![r] = "eof"]
              /\ UNCHANGED <<buffer, out, evset>>
         ELSE /\ rres' = [rres EXCEPT ![r] = IF n = 0 THEN "eof" ELSE "data"]
              /\ buffer' = SubSeq(buffer, n + 1, Len(buffer))
              /\ out' = out \o SubSeq(buffer, 1, n - 1)
              /\ evset' = IF hasEvent /\ n = Len(buffer) /\ ~closed
                            THEN FALSE ELSE evset

\* read, lines 100-112, holding the lock: end of file when closed and
\* drained, otherwise take up to nbytes -- possibly none at all -- and clear
\* the event when that emptied an open pipe.
TakeNow(r, nbytes) ==
    LET n == Min2(nbytes, Len(buffer)) IN
    /\ rpc' = [rpc EXCEPT ![r] = "idle"]
    /\ rclosedAt' = [rclosedAt EXCEPT ![r] = closed]
    /\ IF buffer = <<>> /\ closed
         THEN /\ rres' = [rres EXCEPT ![r] = "eof"]
              /\ UNCHANGED <<buffer, out, evset>>
         ELSE /\ rres' = [rres EXCEPT ![r] = IF n = 0 THEN "eof" ELSE "data"]
              /\ buffer' = SubSeq(buffer, n + 1, Len(buffer))
              /\ out' = out \o SubSeq(buffer, 1, n)
              /\ evset' = IF hasEvent /\ n = Len(buffer) /\ ~closed
                            THEN FALSE ELSE evset

\* A bug of the kind the test of line 93 guards against: the wait is skipped
\* for an open, empty pipe.
ReadStartNoWait(r) ==
    /\ rpc[r] = "idle"
    /\ reads[r] < MaxReads
    /\ reads' = [reads EXCEPT ![r] = @ + 1]
    /\ \E size \in ReadSizes, timed \in BOOLEAN :
         /\ rsize' = [rsize EXCEPT ![r] = size]
         /\ rtimed' = [rtimed EXCEPT ![r] = timed]
         /\ IF buffer = <<>> /\ closed
              THEN /\ waiters' = waiters \cup {r}
                   /\ rpc' = [rpc EXCEPT ![r] = "waiting"]
                   /\ UNCHANGED <<buffer, out, evset, rres, rclosedAt>>
              ELSE /\ TakeNow(r, size)
                   /\ UNCHANGED waiters
    /\ UNCHANGED <<closed, hasEvent, fed, fpc, cpc, sepc, seReady, setEvents,
                   empties>>

\* read(nbytes, timeout), lines 92-99: take the lock; with nothing to
\* read on an open pipe, wait on the condition (releasing the lock).
ReadStart(r) ==
    /\ rpc[r] = "idle"
    /\ reads[r] < MaxReads
    /\ reads' = [reads EXCEPT ![r] = @ + 1]
    /\ \E size \in ReadSizes, timed \in BOOLEAN :
         /\ rsize' = [rsize EXCEPT ![r] = size]
         /\ rtimed' = [rtimed EXCEPT ![r] = timed]
         /\ IF buffer = <<>> /\ ~closed
              THEN /\ waiters' = waiters \cup {r}
                   /\ rpc' = [rpc EXCEPT ![r] = "waiting"]
                   /\ UNCHANGED <<buffer, out, evset, rres, rclosedAt>>
              ELSE /\ TakeNow(r, size)
                   /\ UNCHANGED waiters
    /\ UNCHANGED <<closed, hasEvent, fed, fpc, cpc, sepc, seReady, setEvents,
                   empties>>

Take(r) == TakeNow(r, rsize[r])

\* read, lines 95-97: cv.wait() returned True after a notify; the reader
\* holds the lock again and goes on with lines 100-112 without re-testing
\* the buffer: there is no loop around the wait.
ReadResume(r) ==
    /\ rpc[r] = "woken"
    /\ Take(r)
    /\ UNCHANGED <<closed, hasEvent, waiters, rtimed, rsize, reads, fed, fpc,
                   cpc, sepc, seReady, setEvents, empties>>

\* read, lines 97-98: cv.wait(timeout) returned False, PipeTimeout.
ReadTimeout(r) ==
    /\ r \in waiters
    /\ rtimed[r]
    /\ waiters' = waiters \ {r}
    /\ rpc' = [rpc EXCEPT ![r] = "idle"]
    /\ rres' = [rres EXCEPT ![r] = "timeout"]
    /\ rclosedAt' = [rclosedAt EXCEPT ![r] = closed]
    /\ UNCHANGED <<buffer, closed, hasEvent, evset, rtimed, rsize, reads, fed,
                   out, fpc, cpc, sepc, seReady, setEvents, empties>>

\* empty(), lines 124-128: drain the buffer and clear the event, whether or
\* not the pipe is closed.
Empty ==
    /\ empties < EmptyCalls
    /\ empties' = empties + 1
    /\ out' = out \o buffer
    /\ buffer' = <<>>
    /\ evset' = IF hasEvent THEN FALSE ELSE evset
    /\ UNCHANGED <<closed, hasEvent, waiters, rpc, rtimed, rsize, rres,
                   rclosedAt, reads, fed, fpc, cpc, sepc, seReady, setEvents>>

\* set_event(event), lines 39-40, without the lock: install the event and
\* read the readiness of the buffer.  (Line 39 and line 40 are one step: a
\* feed between them would both set the event and make line 40 see data.)
SetEventRead ==
    /\ sepc = "idle"
    /\ setEvents < SetEventCalls
    /\ setEvents' = setEvents + 1
    /\ hasEvent' = TRUE
    /\ seReady' = (buffer # <<>> \/ closed)
    /\ sepc' = "decided"
    /\ UNCHANGED <<buffer, closed, evset, waiters, rpc, rtimed, rsize, rres,
                   rclosedAt, reads, fed, out, fpc, cpc, empties>>

\* set_event, lines 41-43: set or clear by what line 40 read.
SetEventApply ==
    /\ sepc = "decided"
    /\ evset' = seReady
    /\ sepc' = "idle"
    /\ UNCHANGED <<buffer, closed, hasEvent, waiters, rpc, rtimed, rsize, rres,
                   rclosedAt, reads, fed, out, fpc, cpc, seReady, setEvents,
                   empties>>

\* Feeding, close and set_event are over and no reader holds the lock: the
\* readers that are still blocked in cv.wait stay blocked.
Finished ==
    /\ \A r \in Readers : rpc[r] # "woken"
    /\ \A r \in Readers : rpc[r] = "idle" => reads[r] = MaxReads
    /\ Len(fed) = MaxFed /\ fpc = "idle" /\ cpc = "done" /\ sepc = "idle"
    /\ UNCHANGED vars

Next ==
    \/ FeedLocked \/ FeedSetEvent \/ CloseLocked \/ CloseSetEvent
    \/ Empty \/ SetEventRead \/ SetEventApply
    \/ \E r \in Readers : ReadStart(r) \/ ReadResume(r) \/ ReadTimeout(r)
    \/ Finished

\* A woken thread gets the lock back: the releasing sections are short.  A
\* timed cv.wait(timeout) returns once its timeout has passed.
Fairness ==
    \A r \in Readers : WF_vars(ReadResume(r)) /\ WF_vars(ReadTimeout(r))

Spec == Init /\ [][Next]_vars /\ Fairness

-----------------------------------------------------------------------------

\* read_ready(), line 69.
ReadReady == buffer # <<>> \/ closed

TypeOK ==
    /\ closed \in BOOLEAN /\ hasEvent \in BOOLEAN /\ evset \in BOOLEAN
    /\ waiters \subseteq Readers
    /\ rpc \in [Readers -> {"idle", "waiting", "woken"}]
    /\ \A r \in Readers : (r \in waiters) <=> (rpc[r] = "waiting")
    /\ rres \in [Readers -> {"none", "data", "eof", "timeout"}]
    /\ reads \in [Readers -> 0..MaxReads]
    /\ Len(fed) \in 0..MaxFed
    /\ fpc \in {"idle", "set"} /\ cpc \in {"idle", "set", "done"}
    /\ sepc \in {"idle", "decided"}

\* feed, read and empty neither lose, duplicate nor reorder bytes: what
\* read and empty have handed out, followed by what is still buffered, is
\* exactly what feed was given.
Conservation == out \o buffer = fed

\* The read docstring: "If a string of length zero is returned, the pipe
\* has been closed."  An empty result of read is only returned once close()
\* has run.
NoFalseEOF ==
    \A r \in Readers : rres[r] = "eof" => rclosedAt[r]

\* The set_event docstring: when data is ready to be read, or the pipe is
\* closed, the event is set.  Checked whenever no feed, close or set_event
\* is between its unlock and its event update.
NoLostWakeup ==
    (hasEvent /\ ReadReady /\ fpc = "idle" /\ cpc # "set" /\ sepc = "idle")
        => evset

\* A reader blocked in read() returns once close() has run (the close
\* docstring: later reads return immediately).
ReaderReturns ==
    \A r \in Readers : (closed /\ rpc[r] # "idle") ~> (rpc[r] = "idle")

\* The pipe implements the abstract byte stream of ByteStream: under the
\* mapping buffer -> buf, out -> taken, closed -> shut, rres -> res,
\* every step of feed, read, empty, close and set_event is a ByteStream
\* step or leaves those unchanged.  So a read returns a non-empty prefix of
\* the buffer in order, b'' only once the pipe is closed and drained, and
\* close is never undone.
Stream == INSTANCE ByteStream WITH buf <- buffer, taken <- out, shut <- closed,
                                   res <- rres
StreamRefined == Stream!Spec

====
