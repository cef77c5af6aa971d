\* Two hosts, two key types, two keys of each type, three calls.
CONSTANTS
    Hosts = {h1, h2}
    KeyTypes = {rsa, ed25519}
    KeyIds = {1, 2}
    NoKey = NoKey
    MaxCalls = 3
SPECIFICATION Spec
PROPERTY DictRefined
