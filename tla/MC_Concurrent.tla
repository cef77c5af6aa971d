---------------------------- MODULE MC_Concurrent ----------------------------
(***************************************************************************)
(* The multi-threaded components, checked in one run as a disjoint sum of *)
(* three parts: the Packetizer with two writer threads racing on one end   *)
(* (pkt), the BufferedPipe with one reader, empty, set_event installing    *)
(* the event late, and close (flow), and the BufferedPipe with its event   *)
(* installed first and no empty or set_event while in use (event).  A     *)
(* behaviour picks its part in the first state and runs only that part;   *)
(* the others keep their initial state.  Each part keeps the fairness of  *)
(* its own module, restricted to the behaviours of that part.             *)
(***************************************************************************)
EXTENDS Naturals, Sequences, TLC

CONSTANTS
    c, s, w1, w2,                                   \* Packetizer ends, writers
    Ends, Writers, WriterEnd, Payloads, SessionKey, NoKey, BlockSize,
    MacLen, RekeyBytes, RekeyPackets, MaxSends,
    r1,                                             \* the pipe's reader
    ReadSizes, ChunkSizes, MaxReads, MaxFed

VARIABLES
    part,
    outKey, inKey, seqOut, seqIn, sentBytes, sentPackets, recvBytes,
    recvPackets, wire, calls, wpc, wframe, rpc, rpos, rerr, accepted,
    delivered,
    fbuffer, fclosed, fhasEvent, fevset, fwaiters, frpc, frtimed, frsize,
    frres, frclosedAt, freads, ffed, fout, ffpc, fcpc, fsepc, fseReady,
    fsetEvents, fempties,
    ebuffer, eclosed, ehasEvent, eevset, ewaiters, erpc, ertimed, ersize,
    erres, erclosedAt, ereads, efed, eout, efpc, ecpc, esepc, eseReady,
    esetEvents, eempties

kvars == <<outKey, inKey, seqOut, seqIn, sentBytes, sentPackets, recvBytes,
           recvPackets, wire, calls, wpc, wframe, rpc, rpos, rerr, accepted,
           delivered>>
fvars == <<fbuffer, fclosed, fhasEvent, fevset, fwaiters, frpc, frtimed,
           frsize, frres, frclosedAt, freads, ffed, fout, ffpc, fcpc, fsepc,
           fseReady, fsetEvents, fempties>>
evars == <<ebuffer, eclosed, ehasEvent, eevset, ewaiters, erpc, ertimed,
           ersize, erres, erclosedAt, ereads, efed, eout, efpc, ecpc, esepc,
           eseReady, esetEvents, eempties>>
allvars == <<part, kvars, fvars, evars>>

\* Two writer threads on the client end.
TwoClientWriters == (w1 :> c) @@ (w2 :> c)

\* A 4-byte payload, one 8-byte block with its length, and a 5-byte one.
MixedPayloads == {<<2, 0, 0, 0>>, <<1, 5, 6, 7, 8>>}

K == INSTANCE Packetizer

Flow == INSTANCE BufferedPipe WITH
    Readers <- {r1}, EmptyCalls <- 1, SetEventCalls <- 1, EventAtStart <- FALSE,
    buffer <- fbuffer, closed <- fclosed, hasEvent <- fhasEvent,
    evset <- fevset, waiters <- fwaiters, rpc <- frpc, rtimed <- frtimed,
    rsize <- frsize, rres <- frres, rclosedAt <- frclosedAt, reads <- freads,
    fed <- ffed, out <- fout, fpc <- ffpc, cpc <- fcpc, sepc <- fsepc,
    seReady <- fseReady, setEvents <- fsetEvents, empties <- fempties

Event == INSTANCE BufferedPipe WITH
    Readers <- {r1}, EmptyCalls <- 0, SetEventCalls <- 0, EventAtStart <- TRUE,
    buffer <- ebuffer, closed <- eclosed, hasEvent <- ehasEvent,
    evset <- eevset, waiters <- ewaiters, rpc <- erpc, rtimed <- ertimed,
    rsize <- ersize, rres <- erres, rclosedAt <- erclosedAt, reads <- ereads,
    fed <- efed, out <- eout, fpc <- efpc, cpc <- ecpc, sepc <- esepc,
    seReady <- eseReady, setEvents <- esetEvents, empties <- eempties

Parts == {"pkt", "flow", "event"}

Init == part \in Parts /\ K!Init /\ Flow!Init /\ Event!Init

\* A step of one part; the other parts keep their state.
PktStep(A) == part = "pkt" /\ A /\ UNCHANGED <<part, fvars, evars>>
FlowStep(A) == part = "flow" /\ A /\ UNCHANGED <<part, kvars, evars>>
EventStep(A) == part = "event" /\ A /\ UNCHANGED <<part, kvars, fvars>>

Next == PktStep(K!Next) \/ FlowStep(Flow!Next) \/ EventStep(Event!Next)

\* Each module's fairness, for the behaviours of its part: the reader
\* thread of each end loops on read_message, the key exchange completes, a
\* begun send_message runs to its end, a notified pipe reader gets the
\* lock back, and a timed wait returns.
Fairness ==
    /\ \A e \in Ends : /\ WF_allvars(PktStep(K!ReadHeader(e)))
                       /\ WF_allvars(PktStep(K!ReadBody(e)))
                       /\ WF_allvars(PktStep(K!SetInboundCipher(e)))
    /\ \A w \in Writers : /\ WF_allvars(PktStep(K!SendBumpSeq(w)))
                          /\ WF_allvars(PktStep(K!SendPut(w)))
    /\ WF_allvars(FlowStep(Flow!ReadResume(r1)))
    /\ WF_allvars(FlowStep(Flow!ReadTimeout(r1)))
    /\ WF_allvars(EventStep(Event!ReadResume(r1)))
    /\ WF_allvars(EventStep(Event!ReadTimeout(r1)))

Spec == Init /\ [][Next]_allvars /\ Fairness

-----------------------------------------------------------------------------

TypeOK == K!TypeOK /\ Flow!TypeOK /\ Event!TypeOK

\* Packetizer, two writers racing in send_message: every frame the peer's
\* reader accepts is the frame written at that stream position, MACed with
\* that position's sequence number.
AcceptedAuthentic == K!AcceptedAuthentic

\* Packetizer: the reader consumes whole frames, never stopping inside one.
FramingKept == K!FramingKept

\* Packetizer, below the rekey threshold: every frame sent is eventually
\* returned by read_message, or a fatal error ends its reader (a MAC
\* mismatch, or "Invalid packet blocking" for the 5-byte payload, whose
\* frame is not block-aligned since send_message never pads).
EventuallyDelivered == K!EventuallyDelivered

\* BufferedPipe feed, read, empty and close: bytes handed out followed by
\* bytes buffered are exactly the bytes fed.
Conservation == Flow!Conservation

\* BufferedPipe close: a reader blocked in read() returns once close() ran.
ReaderReturns == Flow!ReaderReturns

\* BufferedPipe with its event installed first: whenever data is ready or
\* the pipe is closed, and no feed or close is between its unlock and its
\* event update, the event is set.
NoLostWakeup == Event!NoLostWakeup

\* BufferedPipe implements ByteStream under the refinement mapping.
StreamRefined == Event!StreamRefined

====
