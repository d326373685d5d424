---------------------------- MODULE GkaECCrypto ----------------------------
(***************************************************************************)
(* The group operations of GkaECCrypto (gka-crypto.h), with numbers: an    *)
(* element of the group, a multiple of the generator, is its factor; the   *)
(* factors, as the secrets, are numbers modulo the order of the curve,     *)
(* which is prime.                                                         *)
(***************************************************************************)
EXTENDS Naturals, Sequences

CONSTANTS
    Scalar,              \* numbers modulo the order
    Zero, One,
    Add(_, _), Mul(_, _)

ASSUME FieldAssumption ==
    /\ Zero \in Scalar
    /\ One \in Scalar \ {Zero}
    /\ \A a, b \in Scalar :
         /\ Add(a, b) \in Scalar /\ Add(a, b) = Add(b, a)
         /\ Mul(a, b) \in Scalar /\ Mul(a, b) = Mul(b, a)
    /\ \A a, b, c \in Scalar :
         /\ Add(Add(a, b), c) = Add(a, Add(b, c))
         /\ Mul(Mul(a, b), c) = Mul(a, Mul(b, c))
         /\ Add(a, c) = Add(b, c) => a = b
    /\ \A a \in Scalar : Mul(a, One) = a /\ Mul(a, Zero) = Zero
    /\ \A a \in Scalar \ {Zero} : \E b \in Scalar : Mul(a, b) = One

g == One

EC_POINT_mul(point, factor) == Mul(point, factor)

\* The result is a new BIGNUM, 0, and 0 has no inverse: the call fails, nobody
\* looks at what it returns, and the result stays 0.
BN_mod_inverse(a) ==
    IF a = Zero THEN Zero ELSE CHOOSE b \in Scalar : Mul(a, b) = One

computeBlindedSecret(secret) == EC_POINT_mul(g, secret)

computeBlindedResponse(contrib, secret) == EC_POINT_mul(contrib, secret)

\* EC_POINT_add of the responses one by one, from an element on.
AddAll(from, replies) ==
    LET sum[k \in 0..Len(replies)] ==
          IF k = 0 THEN from ELSE Add(sum[k-1], replies[k])
    IN  sum[Len(replies)]

\* Slip: the member multiplies by its secret again.
memberComputeKey_NoInverse(secret, reply, replies) ==
    AddAll(EC_POINT_mul(reply, secret), replies)

memberComputeKey(secret, reply, replies) ==
    AddAll(EC_POINT_mul(reply, BN_mod_inverse(secret)), replies)

leaderComputeKey(secret, replies) ==
    AddAll(EC_POINT_mul(g, secret), replies)

=============================================================================
