----------------------------- MODULE BufferedFile -----------------------------
(***************************************************************************)
(* src/paramiko/file.py BufferedFile: Python-style buffering (read,        *)
(* readline, write, seek) over a stream supplied by a subclass through     *)
(* _read, _write and _get_size.  The stream read here is the subclass      *)
(* contract of lines 313-319: _read(n) returns up to n of the next bytes   *)
(* and an empty result at EOF.  Stream bytes are named by their position   *)
(* 1..Len(Stream), so data handed out is a sequence of positions.          *)
(* Every call runs in the caller's thread: one action per call, its loops  *)
(* evaluated by recursive operators.                                       *)
(***************************************************************************)
EXTENDS Naturals, Sequences, SequencesExt

CONSTANTS
    StreamLen,      \* bytes the subclass stream holds
    Newlines,       \* positions of the stream holding b'\n'
    Modes,          \* mode strings of _set_mode, as sets of characters
    BufSizes,       \* bufsize arguments of _set_mode
    DefaultBufSize, \* _DEFAULT_BUFSIZE (8192), scaled down
    ReadSizes,      \* size arguments of read and readline; -1 for None
    WriteData,      \* lengths of the data given to write
    WriteLists,     \* sequences of such lengths given to writelines
    SeekOffsets,    \* offsets given to seek
    MaxCalls        \* calls made on the file

None == -1

VARIABLES
    flags,      \* self._flags, as a set of flag names
    bufsize,    \* self._bufsize
    rbuffer,    \* self._rbuffer
    wbuffer,    \* self._wbuffer contents (their lengths)
    pos,        \* self._pos
    spos,       \* the subclass stream's position: bytes _read has returned
    written,    \* the lengths _write was given
    returned,   \* every byte read() and readline() returned since the
                \* last seek, in order
    lastLine,   \* the result of the last readline call
    lastSize,   \* the size argument of that call
    calls

vars == <<flags, bufsize, rbuffer, wbuffer, pos, spos, written, returned,
          lastLine, lastSize, calls>>

IsNewline(b) == b \in Newlines

Min2(a, b) == IF a < b THEN a ELSE b

\* _read(n): the next min(n, remaining) bytes of the stream.
StreamRead(sp, n) == [i \in 1..Min2(n, StreamLen - sp) |-> sp + i]

\* _set_mode(mode, bufsize), lines 339-366.  _get_size() is 0 (line 337).
ModeFlags(mode, bs) ==
    (IF "r" \in mode THEN {"READ"} ELSE {})
    \cup (IF "w" \in mode THEN {"WRITE"} ELSE {})
    \cup (IF "a" \in mode THEN {"WRITE", "APPEND"} ELSE {})
    \cup (IF "+" \in mode THEN {"READ", "WRITE"} ELSE {})
    \cup (IF "b" \in mode THEN {"BINARY"} ELSE {})
    \cup (IF bs = 0 THEN {"BUFFERED"}
          ELSE IF bs = 1 THEN {"BUFFERED", "LINE_BUFFERED"}
          ELSE IF bs > 1 THEN {"BUFFERED"} ELSE {})

Init ==
    /\ \E mode \in Modes, bs \in BufSizes :
         /\ flags = ModeFlags(mode, bs)
         /\ bufsize = IF bs > 1 THEN bs ELSE DefaultBufSize
    /\ rbuffer = <<>>
    /\ wbuffer = <<>>
    /\ pos = 0
    /\ spos = 0
    /\ written = <<>>
    /\ returned = <<>>
    /\ lastLine = <<>>
    /\ lastSize = None
    /\ calls = 0

\* A read(size) that copies rbuffer[:size] and leaves it in the buffer.
ReadKeepsBuffer(size) ==
    /\ calls < MaxCalls /\ "READ" \in flags
    /\ calls' = calls + 1
    /\ LET head == IF size = None THEN rbuffer ELSE SubSeq(rbuffer, 1, Min2(size, Len(rbuffer)))
           more == IF size = None THEN StreamRead(spos, StreamLen)
                   ELSE StreamRead(spos, size - Len(head))
       IN /\ returned' = returned \o head \o more
          /\ spos' = spos + Len(more)
    /\ UNCHANGED <<flags, bufsize, rbuffer, wbuffer, pos, written, lastLine,
                   lastSize>>

\* read(size), lines 120-157: the buffered bytes first, then _read until
\* size bytes are collected or _read returns nothing; with size None, the
\* buffer and everything up to EOF.  self._pos is not advanced.
Read(size) ==
    /\ calls < MaxCalls /\ "READ" \in flags
    /\ calls' = calls + 1
    /\ LET head == IF size = None THEN rbuffer ELSE SubSeq(rbuffer, 1, Min2(size, Len(rbuffer)))
           more == IF size = None THEN StreamRead(spos, StreamLen)
                   ELSE StreamRead(spos, size - Len(head))
       IN /\ returned' = returned \o head \o more
          /\ rbuffer' = SubSeq(rbuffer, Len(head) + 1, Len(rbuffer))
          /\ spos' = spos + Len(more)
    /\ UNCHANGED <<flags, bufsize, wbuffer, pos, written, lastLine, lastSize>>

\* The first newline of rb, 0 when there is none (bytes.find + 1).
NewlineIn(rb) ==
    LET nl == {i \in DOMAIN rb : IsNewline(rb[i])} IN
    IF nl = {} THEN 0 ELSE CHOOSE i \in nl : \A j \in nl : i <= j

\* A readline that stops before the newline and leaves it buffered.
LineStepNoNewline(line, rb, sp) ==
    LET k == NewlineIn(rb) IN
    IF rb # <<>> /\ k # 0
      THEN [line |-> line \o SubSeq(rb, 1, k - 1), rb |-> SubSeq(rb, k, Len(rb)),
            sp |-> sp, done |-> TRUE]
    ELSE LET line1 == line \o rb
             data == StreamRead(sp, bufsize)
         IN  [line |-> line1, rb |-> data, sp |-> sp + Len(data),
              done |-> data = <<>>]

\* One pass of the while loop of readline, lines 186-199: take the buffer
\* up to and including a newline and stop, or take all of it and refill it
\* with _read(self._bufsize), stopping at EOF.
LineStep(line, rb, sp) ==
    LET k == NewlineIn(rb) IN
    IF rb # <<>> /\ k # 0
      THEN [line |-> line \o SubSeq(rb, 1, k), rb |-> SubSeq(rb, k + 1, Len(rb)),
            sp |-> sp, done |-> TRUE]
    ELSE LET line1 == line \o rb
             data == StreamRead(sp, bufsize)
         IN  [line |-> line1, rb |-> data, sp |-> sp + Len(data),
              done |-> data = <<>>]

\* The while loop of readline, line 185, guarded by the size limit.
RECURSIVE ReadlineLoop(_, _, _, _)
ReadlineLoop(line, rb, sp, size) ==
    IF size # None /\ Len(line) >= size
      THEN [line |-> line, rb |-> rb, sp |-> sp]
      ELSE LET st == LineStep(line, rb, sp) IN
           IF st.done THEN [line |-> st.line, rb |-> st.rb, sp |-> st.sp]
           ELSE ReadlineLoop(st.line, st.rb, st.sp, size)

\* readline(size), lines 159-206: the loop, then line[:size], which drops
\* what the loop took beyond size.  u(line) (text mode) is a conversion of
\* the same bytes.
Readline(size) ==
    LET r == ReadlineLoop(<<>>, rbuffer, spos, size)
        line == IF size = None THEN r.line ELSE SubSeq(r.line, 1, Min2(size, Len(r.line)))
    IN
    /\ calls < MaxCalls /\ "READ" \in flags
    /\ calls' = calls + 1
    /\ rbuffer' = r.rb
    /\ spos' = r.sp
    /\ returned' = returned \o line
    /\ lastLine' = line
    /\ lastSize' = size
    /\ UNCHANGED <<flags, bufsize, wbuffer, pos, written>>

\* The while loop of readlines, lines 218-225: readline() until it returns
\* nothing or, with a sizehint, until the lines total sizehint bytes.
RECURSIVE ReadlinesLoop(_, _, _, _, _)
ReadlinesLoop(lines, rb, sp, total, hint) ==
    IF hint # None /\ total >= hint
      THEN [lines |-> lines, rb |-> rb, sp |-> sp]
      ELSE LET r == ReadlineLoop(<<>>, rb, sp, None) IN
           IF r.line = <<>> THEN [lines |-> lines, rb |-> r.rb, sp |-> r.sp]
           ELSE ReadlinesLoop(Append(lines, r.line), r.rb, r.sp,
                              total + Len(r.line), hint)

\* readlines(sizehint), lines 208-226.  lastLine is its last line.
Readlines(hint) ==
    LET r == ReadlinesLoop(<<>>, rbuffer, spos, 0, hint) IN
    /\ calls < MaxCalls /\ "READ" \in flags
    /\ calls' = calls + 1
    /\ rbuffer' = r.rb
    /\ spos' = r.sp
    /\ returned' = returned \o FlattenSeq(r.lines)
    /\ IF r.lines = <<>> THEN UNCHANGED <<lastLine, lastSize>>
       ELSE /\ lastLine' = r.lines[Len(r.lines)]
            /\ lastSize' = None
    /\ UNCHANGED <<flags, bufsize, wbuffer, pos, written>>

\* seek(offset, whence), lines 228-258: seekable() is True; SEEK_END is
\* relative to _get_size(), 0; an unknown whence raises ValueError before
\* anything changes.  The read buffer is discarded (and the record of the
\* bytes handed out starts again).
Seek(offset, whence) ==
    /\ calls < MaxCalls
    /\ calls' = calls + 1
    /\ pos' = CASE whence = 0 -> offset
                [] whence = 1 -> pos + offset
                [] whence = 2 -> 0 + offset
    /\ rbuffer' = <<>>
    /\ returned' = <<>>
    /\ UNCHANGED <<flags, bufsize, wbuffer, spos, written, lastLine, lastSize>>

\* write(data), lines 270-292: buffered data goes to the write buffer and
\* flush(), a no-op (line 59), is called once it reaches bufsize; otherwise
\* _write gets it at once.  _pos advances either way.
Write(n) ==
    /\ calls < MaxCalls /\ "WRITE" \in flags
    /\ calls' = calls + 1
    /\ IF "BUFFERED" \in flags
         THEN /\ wbuffer' = Append(wbuffer, n)
              /\ UNCHANGED written
         ELSE /\ written' = Append(written, n)
              /\ UNCHANGED wbuffer
    /\ pos' = pos + n
    /\ UNCHANGED <<flags, bufsize, rbuffer, spos, returned, lastLine, lastSize>>

\* __next__, lines 61-76: readline(); a StopIteration on an empty line
\* changes nothing more.
NextLine == Readline(None)

\* readinto(buff), lines 108-118: read(len(buff)), copied into buff.
Readinto(n) == Read(n)

\* writelines(sequence), lines 294-304: write(line) for each line in turn;
\* each write takes the same branch, so the lines go, in order, to the
\* write buffer or to _write.
Writelines(ns) ==
    /\ calls < MaxCalls /\ (ns = <<>> \/ "WRITE" \in flags)
    /\ calls' = calls + 1
    /\ IF "BUFFERED" \in flags
         THEN /\ wbuffer' = wbuffer \o ns
              /\ UNCHANGED written
         ELSE /\ written' = written \o ns
              /\ UNCHANGED wbuffer
    /\ pos' = pos + FoldLeft(LAMBDA a, b : a + b, 0, ns)
    /\ UNCHANGED <<flags, bufsize, rbuffer, spos, returned, lastLine, lastSize>>

Done == calls = MaxCalls /\ UNCHANGED vars

Next ==
    \/ \E s \in ReadSizes : Read(s) \/ Readline(s) \/ Readlines(s)
    \/ \E o \in SeekOffsets, w \in 0..2 : Seek(o, w)
    \/ \E n \in WriteData : Write(n)
    \/ \E ns \in WriteLists : Writelines(ns)
    \/ NextLine
    \/ \E n \in ReadSizes \ {None} : Readinto(n)
    \/ Done

Spec == Init /\ [][Next]_vars

-----------------------------------------------------------------------------

TypeOK ==
    /\ flags \subseteq {"READ", "WRITE", "APPEND", "BINARY", "BUFFERED",
                        "LINE_BUFFERED"}
    /\ rbuffer \in Seq(1..StreamLen)
    /\ spos \in 0..StreamLen
    /\ calls \in 0..MaxCalls

\* Between two seeks, read, readline, readlines, __next__ and readinto hand
\* out the stream's bytes in stream order and never the same byte twice,
\* however the calls and their sizes are mixed; and the read buffer always
\* holds the bytes just before the stream position.  (What a read after
\* seek returns is not stated here: see the README.)
ReadsInOrder ==
    /\ \A i \in 1..(Len(returned) - 1) : returned[i] < returned[i + 1]
    /\ rbuffer = [i \in 1..Len(rbuffer) |-> spos - Len(rbuffer) + i]

\* The readline docstring: a line keeps its trailing newline, which may be
\* absent only when the file ends with an incomplete line or the size
\* limit cut the line; a newline is never in the middle of a line.
ReadlineWhole ==
    /\ \A i \in 1..(Len(lastLine) - 1) : ~IsNewline(lastLine[i])
    /\ (lastLine # <<>> /\ ~IsNewline(lastLine[Len(lastLine)])
        /\ (lastSize = None \/ Len(lastLine) < lastSize))
         => spos = StreamLen

====
