CONSTANTS
    c = c
    s = s
    w1 = w1
    w2 = w2
    Ends = {c, s}
    Writers = {w1, w2}
    WriterEnd <- OneWriterEach
    Payloads <- FourBytePayloads
    SessionKey = 1
    NoKey = NoKey
    BlockSize = 8
    MacLen = 20
    RekeyBytes = 1000
    RekeyPackets = 2
    MaxSends = 3
SPECIFICATION Spec
INVARIANT NoFrameLost
