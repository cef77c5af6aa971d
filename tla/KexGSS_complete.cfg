CONSTANTS
    c1 = c1
    s1 = s1
    c2 = c2
    s2 = s2
    Ends <- Both
    Class <- Classes
    Server <- ServerMode
    Peer <- Peers
    P = 23
    G = 5
    RandBytes <- OneRandomByte
    Tokens = {tok}
SPECIFICATION Spec
PROPERTY KexCompletes
CHECK_DEADLOCK FALSE
