------------------------------- MODULE Tagdh -------------------------------
(***************************************************************************)
(* The program tagdh (tagdh.c): the group operations, Diffie-Hellman and   *)
(* Hughes key agreement and signatures tried out one after the other.      *)
(* Every action is a test of main, up to the line it prints.               *)
(***************************************************************************)
EXTENDS GkaECCrypto, ECDSA

VARIABLES
    test,                \* the test main has come to
    a, b, r0, r1, g1, g2, leader_secret, member_secret,
    cmp,                 \* the result of EC_POINT_cmp that is printed
    key, pubkey,         \* eckey and the copy of its public part
    aborted

tagdhVars == <<test, a, b, r0, r1, g1, g2, leader_secret, member_secret, cmp,
               key, pubkey, aborted>>

EC_POINT_cmp(p, q) == IF p = q THEN 0 ELSE 1

TagdhInit ==
    /\ test = "signature"
    /\ a = Zero /\ b = Zero /\ r0 = Zero /\ r1 = Zero
    /\ g1 = Zero /\ g2 = Zero
    /\ leader_secret = Zero /\ member_secret = Zero
    /\ cmp = 0
    /\ key = None /\ pubkey = None
    /\ aborted = FALSE

\* The public key is written, read back, and used to verify.
TrySignature ==
    /\ test = "signature"
    /\ key' \in EC_KEY
    /\ pubkey' = key'
    /\ \E digest \in Data :
         LET signature == sign(key', digest)
         IN  aborted' = ~(/\ verify(key', digest, signature)
                          /\ verify(pubkey', digest, signature))
    /\ test' = "multiplication"
    /\ UNCHANGED <<a, b, r0, r1, g1, g2, leader_secret, member_secret, cmp>>

TryMultiplication ==
    /\ test = "multiplication"
    /\ a' \in Scalar
    /\ g1' = EC_POINT_mul(g, a')
    /\ cmp' = EC_POINT_cmp(g, g1')
    /\ test' = "inverse"
    /\ UNCHANGED <<b, r0, r1, g2, leader_secret, member_secret, key, pubkey, aborted>>

TryInverse ==
    /\ test = "inverse"
    /\ g2' = EC_POINT_mul(g1, BN_mod_inverse(a))
    /\ cmp' = EC_POINT_cmp(g, g2')
    /\ test' = "Diffie-Hellmann"
    /\ UNCHANGED <<a, b, r0, r1, g1, leader_secret, member_secret, key, pubkey, aborted>>

TryDiffieHellmann ==
    /\ test = "Diffie-Hellmann"
    /\ a' \in Scalar
    /\ b' \in Scalar
    /\ g1' = EC_POINT_mul(g, a')
    /\ g2' = EC_POINT_mul(g1', b')
    /\ cmp' = EC_POINT_cmp(g2', EC_POINT_mul(EC_POINT_mul(g, b'), a'))
    /\ test' = "Hughes"
    /\ UNCHANGED <<r0, r1, leader_secret, member_secret, key, pubkey, aborted>>

\* Slip: the member undoes the leader's number instead of its own.
TryHughes_WrongInverse ==
    /\ test = "Hughes"
    /\ r1' \in Scalar
    /\ r0' \in Scalar
    /\ LET contrib == EC_POINT_mul(g, r1')
           response == EC_POINT_mul(contrib, r0')
       IN  member_secret' = EC_POINT_mul(response, BN_mod_inverse(r0'))
    /\ leader_secret' = EC_POINT_mul(g, r0')
    /\ cmp' = EC_POINT_cmp(leader_secret', member_secret')
    /\ test' = "points"
    /\ UNCHANGED <<a, b, g1, g2, key, pubkey, aborted>>

TryHughes ==
    /\ test = "Hughes"
    /\ r1' \in Scalar
    /\ r0' \in Scalar
    /\ LET contrib == EC_POINT_mul(g, r1')
           response == EC_POINT_mul(contrib, r0')
       IN  member_secret' = EC_POINT_mul(response, BN_mod_inverse(r1'))
    /\ leader_secret' = EC_POINT_mul(g, r0')
    /\ cmp' = EC_POINT_cmp(leader_secret', member_secret')
    /\ test' = "points"
    /\ UNCHANGED <<a, b, g1, g2, key, pubkey, aborted>>

TryPoints ==
    /\ test = "points"
    /\ a' \in Scalar
    /\ b' \in Scalar
    /\ g1' = EC_POINT_mul(g, a')
    /\ g2' = EC_POINT_mul(g, b')
    /\ cmp' = EC_POINT_cmp(g1', g2')
    /\ test' = "read"
    /\ UNCHANGED <<r0, r1, leader_secret, member_secret, key, pubkey, aborted>>

\* g2 is read from the string that g1 was written to.
TryReading ==
    /\ test = "read"
    /\ g2' = g1
    /\ cmp' = EC_POINT_cmp(g1, g2')
    /\ test' = "read arbitrary"
    /\ UNCHANGED <<a, b, r0, r1, g1, leader_secret, member_secret, key, pubkey, aborted>>

\* The arbitrary string has 21 bytes, a compressed point of the curve 22:
\* EC_POINT_hex2point fails, nobody looks at its result, and g2 is as it was.
TryArbitrary ==
    /\ test = "read arbitrary"
    /\ cmp' = EC_POINT_cmp(g1, g2)
    /\ test' = "done"
    /\ UNCHANGED <<a, b, r0, r1, g1, g2, leader_secret, member_secret, key, pubkey,
                   aborted>>

TagdhNext ==
    \/ TrySignature \/ TryMultiplication \/ TryInverse \/ TryDiffieHellmann
    \/ TryHughes \/ TryPoints \/ TryReading \/ TryArbitrary

TagdhSpec == TagdhInit /\ [][TagdhNext]_tagdhVars

-----------------------------------------------------------------------------
(* Properties.                                                             *)

\* What the program prints is what it says it should be, but for the numbers
\* that are exceptions: 1, the least, whose multiple is the generator, 0,
\* which has no inverse, and equal numbers; and but for the last comparison,
\* which gives 0, whatever was drawn, since g2 is still what was read before.
AsPrinted ==
    /\ test = "inverse" => (cmp # 0 <=> a # One)
    /\ test = "Diffie-Hellmann" => (cmp = 0 <=> a # Zero)
    /\ test = "Hughes" => cmp = 0
    /\ test = "points" => (cmp = 0 <=> r1 # Zero \/ r0 = Zero)
    /\ test = "read" => (cmp # 0 <=> a # b)
    /\ test = "read arbitrary" => cmp = 0
    /\ test = "done" => cmp = 0
    /\ ~aborted

\* What the program says of the last comparison: "should be !=0" (line 304).
ArbitraryDiffers == test = "done" => cmp # 0

=============================================================================
