CONSTANTS
    Ciphers <- CipherNames
    PubKeys <- PubBlobs
    PrivKeys <- PrivSections
    Passwords = {pw}
    NoPassword = NoPassword
    Magic = Magic
    OtherMagic = OtherMagic
SPECIFICATION Spec
INVARIANT ReadsOpenSSHKey
