------------------------------- MODULE ECDSA -------------------------------
(* Signatures, as the programs use OpenSSL's.  A pair of keys is one value, *)
(* which its halves stand for; a signature is of the digest.                *)

CONSTANTS
    EC_KEY,              \* pairs of keys EC_KEY_generate_key may give
    Data,                \* what is signed: the first 20 bytes, unhashed
    None                 \* no key, no signature

sign(privKey, digest) == [by |-> privKey, digest |-> digest]

verify(pubKey, digest, signature) ==
    signature.by = pubKey /\ signature.digest = digest

=============================================================================
