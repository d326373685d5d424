----------------------------- MODULE GKACrypto -----------------------------
(***************************************************************************)
(* The group operations of GkaECCrypto (gka-crypto.h), symbolically.       *)
(*                                                                         *)
(* A secret is a positive number that names it; an element of the group is *)
(* the generator raised to the secrets of `mul' and to the inverses of the *)
(* secrets of `div'.  Two elements are equal in the program exactly when   *)
(* their records are equal here, up to collisions of random secrets, which *)
(* the model leaves out.                                                   *)
(***************************************************************************)
EXTENDS Naturals, Sequences, FiniteSets

Elem == [mul : SUBSET Nat, div : SUBSET Nat]

\* A member variable of type CryptoElem nobody has assigned; 0 names no secret.
NoElem == [mul |-> {0}, div |-> {}]

\* g * secret (EC_POINT_mul of the generator).
computeBlindedSecret(secret) == [mul |-> {secret}, div |-> {}]

\* The member's contribution times the leader's secret.
computeBlindedResponse(contrib, secret) ==
    [contrib EXCEPT !.mul = @ \cup {secret}]

\* Multiplication by the inverse of a secret: it cancels the secret when the
\* element holds it, and stays in the element otherwise.
Unblind(elem, secret) ==
    IF secret \in elem.mul
    THEN [elem EXCEPT !.mul = @ \ {secret}]
    ELSE [elem EXCEPT !.div = @ \cup {secret}]

\* The sum of the responses: EC_POINT_add is commutative, so only how often
\* an element occurs matters.
SumOf(replies) ==
    LET at(e) == {i \in DOMAIN replies : replies[i] = e}
    IN  [e \in {replies[i] : i \in DOMAIN replies} |-> Cardinality(at(e))]

\* Slip: the member's own secret stays in the share.
memberComputeKey_Blinded(secret, reply, replies) ==
    [share |-> reply, sum |-> SumOf(replies)]

memberComputeKey(secret, reply, replies) ==
    [share |-> Unblind(reply, secret), sum |-> SumOf(replies)]

leaderComputeKey(secret, replies) ==
    [share |-> computeBlindedSecret(secret), sum |-> SumOf(replies)]

=============================================================================
