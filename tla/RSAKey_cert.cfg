CONSTANTS
    Messages <- TestMessages
    KeyArgs = {KeyObject}
    CertArgs <- CertValues
    NoKey = NoKey
    KeyObject = KeyObject
SPECIFICATION Spec
INVARIANT CertKeyLoaded
