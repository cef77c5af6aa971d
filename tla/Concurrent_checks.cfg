\* The Packetizer with two writer threads racing on the client end,
\* payloads of aligned and unaligned length, below the rekey threshold;
\* the BufferedPipe with one reader in two set-ups.
CONSTANTS
    c = c
    s = s
    w1 = w1
    w2 = w2
    r1 = r1
    Ends = {c, s}
    Writers = {w1, w2}
    WriterEnd <- TwoClientWriters
    Payloads <- MixedPayloads
    SessionKey = 1
    NoKey = NoKey
    BlockSize = 8
    MacLen = 20
    RekeyBytes = 1000
    RekeyPackets = 1000
    MaxSends = 3
    ReadSizes = {1, 2}
    ChunkSizes = {1, 2}
    MaxReads = 3
    MaxFed = 3
SPECIFICATION Spec
INVARIANT TypeOK
INVARIANT AcceptedAuthentic
INVARIANT FramingKept
INVARIANT Conservation
INVARIANT NoLostWakeup
PROPERTY EventuallyDelivered
PROPERTY ReaderReturns
PROPERTY StreamRefined
