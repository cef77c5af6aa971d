----------------------------- MODULE MC_OpenSSHKey -----------------------------
EXTENDS OpenSSHKey

\* b'none' and a 3-byte cipher name standing for b'aes256-ctr'.
CipherNames == {CipherNone, <<97, 101, 115>>}

\* A 3-byte public key blob and a 2-byte private section.
PubBlobs == {<<7, 8, 9>>}
PrivSections == {<<4, 5>>}
====
