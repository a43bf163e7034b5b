-------------------------- MODULE MCCassetteStore --------------------------
(***************************************************************************)
(* Instances of CassetteStore for TLC: two AES-GCM keys and a ChaCha20     *)
(* one, whose names and nonces have the lengths they have in the code, a   *)
(* nonce generator made for another cipher, and ciphers of the user's own, *)
(* at and beyond what a header can say.                                    *)
(***************************************************************************)
EXTENDS CassetteStore, TLC

CONSTANTS key1, key2

AES(k) == [kind |-> "aesgcm", key |-> k, nonce |-> 12]
ChaCha == [kind |-> "chacha20poly1305", key |-> key1, nonce |-> 24]

BadNonce == [kind |-> "aesgcm", key |-> key1, nonce |-> 24]
Longest  == [kind |-> "longest", key |-> key1, nonce |-> 255]
LongName == [kind |-> "longName", key |-> key1, nonce |-> 12]

MCCrypters   == {AES(key1), AES(key2), BadNonce, Longest, LongName}
Two          == {AES(key1), ChaCha}
MCKindLength == [aesgcm |-> 6,  chacha20poly1305 |-> 16, longest |-> 255, longName |-> 256]
MCNonceSize  == [aesgcm |-> 12, chacha20poly1305 |-> 24, longest |-> 255, longName |-> 12]
=============================================================================
