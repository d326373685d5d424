----------------------------- MODULE CryptoTest -----------------------------
(***************************************************************************)
(* The program crypto-test (test-gka-crypto.cc): a key agreement of two    *)
(* members and a leader, without messages, and the keys and signatures of  *)
(* ECDSAManager (ecdsa-crypto.h).  Every action is a paragraph of main.    *)
(***************************************************************************)
EXTENDS GkaECCrypto, ECDSA

VARIABLES
    step,                \* the paragraph main has come to
    memberSecret, leaderSecret, memberContrib, leaderReply, memberKey, leaderKey,
    eckey,               \* ECDSAManager's only pair of keys (CONST_KEY_HACK)
    pubKey, privKey, signature, verified

agreementVars == <<memberSecret, leaderSecret, memberContrib, leaderReply,
                   memberKey, leaderKey>>
signatureVars == <<eckey, pubKey, privKey, signature, verified>>
testVars == <<step, agreementVars, signatureVars>>

Two == 1..2

TestInit ==
    /\ step = "secrets"
    /\ memberSecret = [m \in Two |-> Zero]
    /\ leaderSecret = Zero
    /\ memberContrib = [m \in Two |-> Zero]
    /\ leaderReply = [m \in Two |-> Zero]
    /\ memberKey = [m \in Two |-> Zero]
    /\ leaderKey = Zero
    /\ eckey = None
    /\ pubKey = [k \in Two |-> None]
    /\ privKey = [k \in Two |-> None]
    /\ signature = None
    /\ verified = [k \in Two |-> FALSE]

\* generateRandomSecret: 0 is a number below the order.
DrawSecrets ==
    /\ step = "secrets"
    /\ memberSecret' \in [Two -> Scalar]
    /\ leaderSecret' \in Scalar
    /\ step' = "contributions"
    /\ UNCHANGED <<memberContrib, leaderReply, memberKey, leaderKey, signatureVars>>

Contribute ==
    /\ step = "contributions"
    /\ memberContrib' = [m \in Two |-> computeBlindedSecret(memberSecret[m])]
    /\ step' = "replies"
    /\ UNCHANGED <<memberSecret, leaderSecret, leaderReply, memberKey, leaderKey,
                   signatureVars>>

Respond ==
    /\ step = "replies"
    /\ leaderReply' = [m \in Two |->
         computeBlindedResponse(memberContrib[m], leaderSecret)]
    /\ step' = "keys"
    /\ UNCHANGED <<memberSecret, leaderSecret, memberContrib, memberKey, leaderKey,
                   signatureVars>>

ComputeKeys ==
    /\ step = "keys"
    /\ memberKey' = [m \in Two |->
         memberComputeKey(memberSecret[m], leaderReply[m], leaderReply)]
    /\ leaderKey' = leaderComputeKey(leaderSecret, leaderReply)
    /\ step' = "signature keys"
    /\ UNCHANGED <<memberSecret, leaderSecret, memberContrib, leaderReply, signatureVars>>

\* Slip: without the hack every call makes a new pair of keys.
generateKey_New(k) ==
    /\ privKey[k] = None
    /\ eckey' \in EC_KEY
    /\ privKey' = [privKey EXCEPT ![k] = eckey']
    /\ pubKey' = [pubKey EXCEPT ![k] = eckey']

\* The manager makes one pair and gives it to everybody.
generateKey(k) ==
    /\ privKey[k] = None
    /\ eckey' \in IF eckey = None THEN EC_KEY ELSE {eckey}
    /\ privKey' = [privKey EXCEPT ![k] = eckey']
    /\ pubKey' = [pubKey EXCEPT ![k] = eckey']

GenerateKeys ==
    /\ step = "signature keys"
    /\ \E k \in Two :
         /\ \A j \in Two : j < k => privKey[j] # None
         /\ generateKey(k)
    /\ step' = IF \A k \in Two : privKey'[k] # None THEN "sign" ELSE step
    /\ UNCHANGED <<agreementVars, signature, verified>>

Sign ==
    /\ step = "sign"
    /\ \E data \in Data : signature' = sign(privKey[1], data)
    /\ step' = "verify"
    /\ UNCHANGED <<agreementVars, eckey, pubKey, privKey, verified>>

Verify ==
    /\ step = "verify"
    /\ verified' = [k \in Two |-> verify(pubKey[k], signature.digest, signature)]
    /\ step' = "done"
    /\ UNCHANGED <<agreementVars, eckey, pubKey, privKey, signature>>

TestNext ==
    \/ DrawSecrets \/ Contribute \/ Respond \/ ComputeKeys
    \/ GenerateKeys \/ Sign \/ Verify

TestSpec == TestInit /\ [][TestNext]_testVars

-----------------------------------------------------------------------------
(* Properties.                                                             *)

KeysComputed == step \in {"signature keys", "sign", "verify", "done"}

\* A member computes the leader's key exactly when its secret can be undone:
\* with the secret 0 it answers for nothing, and only a leader's secret 0 is
\* then computed right.
KeysAgree ==
    KeysComputed =>
        \A m \in Two :
            memberKey[m] = leaderKey <=> memberSecret[m] # Zero \/ leaderSecret = Zero

\* The symbolic operations of GKACrypto, which GKAInstance uses, say of every
\* secret but 0 what these do, also when a member undoes a secret that is not
\* the one it contributed.  Names of secrets: the members' are 1 and 2, the
\* leader's 3, and the wrong one 4.
Symbolic == INSTANCE GKACrypto

ValueOf(elem, value) ==
    LET factors == [s \in elem.mul \cup elem.div |->
                      IF s \in elem.mul THEN value[s] ELSE BN_mod_inverse(value[s])]
        product[S \in SUBSET DOMAIN factors] ==
          IF S = {} THEN One
          ELSE LET s == CHOOSE s \in S : TRUE IN Mul(factors[s], product[S \ {s}])
    IN  product[DOMAIN factors]

ValueOfKey(k, value) ==
    LET total[S \in SUBSET DOMAIN k.sum] ==
          IF S = {} THEN ValueOf(k.share, value)
          ELSE LET e == CHOOSE e \in S : TRUE
                   times[j \in 0..k.sum[e]] ==
                     IF j = 0 THEN total[S \ {e}]
                     ELSE Add(times[j-1], ValueOf(e, value))
               IN  times[k.sum[e]]
    IN  total[DOMAIN k.sum]

SymbolsAreRight ==
    LET replies == [m \in Two |-> Symbolic!computeBlindedResponse(
                                    Symbolic!computeBlindedSecret(m), 3)]
    IN  KeysComputed /\ Zero \notin {memberSecret[1], memberSecret[2], leaderSecret} =>
          \A wrong \in Scalar \ {Zero} :
            LET value == <<memberSecret[1], memberSecret[2], leaderSecret, wrong>>
            IN  /\ ValueOfKey(Symbolic!leaderComputeKey(3, replies), value) = leaderKey
                /\ \A m \in Two :
                     /\ ValueOfKey(Symbolic!memberComputeKey(m, replies[m], replies), value)
                          = memberKey[m]
                     /\ ValueOfKey(Symbolic!memberComputeKey(4, replies[m], replies), value)
                          = memberComputeKey(wrong, leaderReply[m], leaderReply)

\* A signature is verified with every public key the manager has given out,
\* since there is one pair of keys.
EveryKeyVerifies == step = "done" => \A k \in Two : verified[k]

=============================================================================
