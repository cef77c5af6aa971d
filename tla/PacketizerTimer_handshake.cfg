\* The handshake deadline and keepalive settings of one Packetizer.
CONSTANTS
    Intervals = {0, 30}
    Callbacks = {cb}
    NoCallback = NoCallback
SPECIFICATION Spec
INVARIANT TimeoutReported
