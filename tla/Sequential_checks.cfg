CONSTANTS
    Values <- SmallAndBoundaries
    Idents = {2, 48}
    Lengths <- ShortAndLong
    MaxItems = 2
    Formats <- KeyFormats
    Strings <- ShortStrings
    Longs = {0, 1, 255, 256}
    Words = {0, 1, 2147483647}
    Passphrases = {pw1, pw2}
    Salts <- SaltArgs
    NBytes = {0, 1, 3, 4, 7}
    DigestLen = 3
    NoValue = NoValue
    Junk = Junk
    Timeouts = {0, 2}
    NoTimeout = NoTimeout
    MaxTime = 3
    StreamLen = 6
    Newlines <- TwoLines
    Modes <- ReadModes
    BufSizes <- BufSizeArgs
    DefaultBufSize = 4
    ReadSizes <- ReadSizeArgs
    WriteData = {1, 2}
    WriteLists <- LineLengths
    SeekOffsets = {0, 2}
    FileCalls = 4
    Hosts = {h1, h2}
    KeyTypes = {rsa, ed25519}
    KeyIds = {1, 2}
    NoKey = NoKey
    HostKeyCalls = 3
    KeyObject = KeyObject
SPECIFICATION Spec
INVARIANT TypeOK
INVARIANT UnsignedRoundTrip
INVARIANT DecodeSeqRoundTrip
INVARIANT CstructRoundTrip
INVARIANT KeyBytesEVP
INVARIANT ParseSections
INVARIANT ModuliKept
INVARIANT ReadlineResult
INVARIANT ReadsInOrder
INVARIANT ReadlineWhole
INVARIANT UniqueEntry
INVARIANT LookupAfterAdd
INVARIANT PlainKeyLoaded
