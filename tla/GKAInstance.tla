---------------------------- MODULE GKAInstance ----------------------------
(***************************************************************************)
(* The group key agreement protocol of gka-protocol.cc: the state of every *)
(* node's GKAInstance, its periodic update (updateState) and its handling  *)
(* of IGROUP and IREPLY messages (processIGROUP, processIREPLY), on an     *)
(* abstract network.                                                       *)
(*                                                                         *)
(* The program is single threaded.  A leader's IGROUP is flooded inside    *)
(* the leader's periodic update, and a node's IREPLY inside the handling   *)
(* of the IGROUP that caused it: at most one IGROUP and one IREPLY are in  *)
(* flight, and the clock stands still while they are.                      *)
(*                                                                         *)
(* What the flood does is left open: it hands the IGROUP to active nodes   *)
(* in any order and up to MaxCopies times each, or to nobody, and the      *)
(* IREPLY to the leader any number of times, or never.  GKASimul composes  *)
(* the protocol with the floods of the program.                            *)
(***************************************************************************)
EXTENDS Integers, Sequences, FiniteSets, GKACrypto, Sweep

CONSTANTS
    Node,                \* node identifiers: indices of GKASimul::nodeQueue
    PERIOD_INTERVAL,     \* between two periodic updates of a node
    LEADER_LAST_TIME,    \* silence after which a leader is given up
    IREPLY_EXPIRE_TIME,  \* silence after which a member is dropped
    SECRET_EXPIRE_TIME,  \* age at which a secret is renewed
    simulationTime,      \* no periodic update starts after this time
    StartTimes,          \* when a node may become active
    Backoffs,            \* rand() % 5 + 1, in periods
    LastSecretExpired,   \* values of `lastSecret > SECRET_EXPIRE_TIME', where
                         \* processIGROUP reads lastSecret uninitialised
    InitSessionIds,      \* values of the uninitialised sessionId, plus one
    MovementReseeds,     \* nodeMovementUpdate calls srand (scenarios 1 and 2)
    MaxCopies,           \* how often a flood may hand a node an IGROUP
    None                 \* no message, no value

ASSUME NodeAssumption == Node \subseteq Nat /\ None \notin Int

ASSUME TimeAssumption ==
    /\ PERIOD_INTERVAL \in Nat \ {0}
    /\ LEADER_LAST_TIME \in Nat
    /\ IREPLY_EXPIRE_TIME \in Nat \ {0}
    /\ SECRET_EXPIRE_TIME \in Nat
    /\ simulationTime \in Nat
    /\ StartTimes \subseteq Nat
    /\ Backoffs \subseteq Nat \ {0}

ASSUME ChoiceAssumption ==
    /\ LastSecretExpired \subseteq BOOLEAN
    /\ InitSessionIds \subseteq Int
    /\ MovementReseeds \in BOOLEAN
    /\ MaxCopies \in Nat

VARIABLES
    \* One GKAInstance per node (a node has a single session, number 0).
    nodeState, isbackoffExists, backoffTime, lastIGROUPMsgTime,
    leaderId, leaderLastNonce, sessionId, sessionCurrent, sessionNext,
    nodeSecret, nodeContrib, lastNonce, lastTimeSecret,
    memberList, pendingLeaderList, compGroupChange,
    \* The file's message counters, one for all the nodes.
    IGmessageCount, IRmessageCount,
    key,         \* history: the last key the node computed (a local variable
                 \* of the program, thrown away after it has been timed)
    \* GKANode and the clock.
    isActive, nextUpdate, now,
    \* Random values: how many secrets were drawn, the position in rand().
    secrets, rng,
    \* The messages in flight.
    igroup, ireply,
    heard        \* how often each node has got the IGROUP in flight

roleVars == <<nodeState, isbackoffExists, backoffTime>>
sessionVars == <<leaderLastNonce, sessionCurrent, sessionNext>>
secretVars == <<nodeSecret, nodeContrib, lastNonce, lastTimeSecret, key>>
groupVars == <<memberList, compGroupChange>>
countVars == <<IGmessageCount, IRmessageCount>>
randomVars == <<secrets, rng>>
timeVars == <<isActive, nextUpdate, now>>
netVars == <<igroup, ireply, heard>>
vars == <<roleVars, lastIGROUPMsgTime, leaderId, sessionId, sessionVars,
          secretVars, groupVars, pendingLeaderList, countVars, randomVars,
          timeVars, netVars>>

-----------------------------------------------------------------------------
(* Data.                                                                   *)

Role == {"Detached", "Member", "Leader"}

Member(id, contrib, nonce, time) ==
    [memberId |-> id, memberContrib |-> contrib, leaderReply |-> NoElem,
     memberLastNonce |-> nonce, memberLastIREPLYTime |-> time]

\* Slip: a nonce that is not known is -1.
Named_NoNonce(id) == Member(id, NoElem, -1, 0)

\* What a node that is not a leader keeps of a member: its identifier.
Named(id) == Member(id, NoElem, 0, 0)

pendingLeader(id, leaderNonce, session, nonce, secret, time) ==
    [pendingLeaderId |-> id, pendingLeaderNonce |-> leaderNonce,
     pendingSessionNext |-> session, lastNonce |-> nonce,
     nodeSecret |-> secret, pendingLeaderLastIGROUPTime |-> time]

\* A nonce or a session identifier is 21 calls of rand().  The position the
\* first call is made at stands for it; 0 is the empty string.
DrawLength == 21
DrawnAt(position) == position + 1

-----------------------------------------------------------------------------
(* makeInstance (Algorithm 2).                                             *)

Init ==
    /\ nodeState = [n \in Node |-> "Detached"]
    /\ isbackoffExists = [n \in Node |-> FALSE]
    /\ backoffTime = [n \in Node |-> 0]
    /\ lastIGROUPMsgTime = [n \in Node |-> 0]
    /\ lastTimeSecret = [n \in Node |-> 0]
    /\ leaderId = [n \in Node |-> None]
    /\ sessionId \in [Node -> InitSessionIds]
    /\ sessionCurrent = [n \in Node |-> 0]
    /\ sessionNext = [n \in Node |-> 0]
    /\ leaderLastNonce = [n \in Node |-> 0]
    /\ nodeSecret = [n \in Node |-> 0]
    /\ nodeContrib = [n \in Node |-> NoElem]
    /\ lastNonce = [n \in Node |-> 0]
    /\ key = [n \in Node |-> None]
    /\ memberList = [n \in Node |-> <<>>]
    /\ pendingLeaderList = [n \in Node |-> <<>>]
    /\ compGroupChange = [n \in Node |-> FALSE]
    /\ IGmessageCount = 1
    /\ IRmessageCount = 1
    /\ isActive = [n \in Node |-> FALSE]
    /\ nextUpdate \in [Node -> StartTimes]
    /\ now = 0
    /\ secrets = 0
    /\ rng = 0
    /\ igroup = None
    /\ ireply = None
    /\ heard = [n \in Node |-> 0]

-----------------------------------------------------------------------------
(* GKANode::nodePeriodicUpdate and GKAInstance::updateState.               *)

Quiet == igroup = None /\ ireply = None

\* Slip: the next update is scheduled without the current time, and the
\* scheduler moves it from the past to the present.
Due_SameTime(n) ==
    /\ Quiet
    /\ nextUpdate[n] = now
    /\ now <= simulationTime
    /\ isActive' = [isActive EXCEPT ![n] = TRUE]
    /\ nextUpdate' = [nextUpdate EXCEPT ![n] =
                         IF PERIOD_INTERVAL < now THEN now ELSE PERIOD_INTERVAL]
    /\ now' = now

\* The periodic update of n is the event the scheduler runs now.  Events of
\* the same time run in any order.
Due(n) ==
    /\ Quiet
    /\ nextUpdate[n] = now
    /\ now <= simulationTime
    /\ isActive' = [isActive EXCEPT ![n] = TRUE]
    /\ nextUpdate' = [nextUpdate EXCEPT ![n] = now + PERIOD_INTERVAL]
    /\ now' = now

\* Slip: the age of the secret is taken for the silence of the leader.
LeaderSilent_Secret(n) == now - lastTimeSecret[n] > LEADER_LAST_TIME

LeaderSilent(n) == now - lastIGROUPMsgTime[n] > LEADER_LAST_TIME

\* Slip: a backoff left over from before n joined makes a member leader.
BackoffOver_AnyRole(n) ==
    /\ nodeState[n] # "Leader"
    /\ isbackoffExists[n]
    /\ backoffTime[n] <= now

BackoffOver(n) ==
    /\ nodeState[n] = "Detached"
    /\ isbackoffExists[n]
    /\ backoffTime[n] <= now

\* Slip: a node does not note that it has drawn, and draws at every update.
DrawBackoff_Forgotten(n) ==
    /\ Due(n)
    /\ nodeState[n] # "Leader"
    /\ LeaderSilent(n)
    /\ ~isbackoffExists[n]
    /\ \E b \in Backoffs :
         backoffTime' = [backoffTime EXCEPT ![n] = b * PERIOD_INTERVAL + now]
    /\ nodeState' = [nodeState EXCEPT ![n] = "Detached"]
    /\ rng' = rng + 1
    /\ UNCHANGED <<isbackoffExists, lastIGROUPMsgTime, leaderId, sessionId,
                   sessionVars, secretVars, groupVars, pendingLeaderList,
                   countVars, secrets, netVars>>

\* Algorithm 3: a silent leader starts the backoff, whatever the node was.
DrawBackoff(n) ==
    /\ Due(n)
    /\ nodeState[n] # "Leader"
    /\ LeaderSilent(n)
    /\ ~isbackoffExists[n]
    /\ \E b \in Backoffs :
         backoffTime' = [backoffTime EXCEPT ![n] = b * PERIOD_INTERVAL + now]
    /\ nodeState' = [nodeState EXCEPT ![n] = "Detached"]
    /\ isbackoffExists' = [isbackoffExists EXCEPT ![n] = TRUE]
    /\ rng' = rng + 1
    /\ UNCHANGED <<lastIGROUPMsgTime, leaderId, sessionId, sessionVars,
                   secretVars, groupVars, pendingLeaderList, countVars,
                   secrets, netVars>>

\* Slip: a node that has a backoff leaves its leader whatever it heard.
DetachFromLeader_Heard(n) ==
    /\ Due(n)
    /\ nodeState[n] = "Member"
    /\ isbackoffExists[n]
    /\ nodeState' = [nodeState EXCEPT ![n] = "Detached"]
    /\ UNCHANGED <<isbackoffExists, backoffTime, lastIGROUPMsgTime, leaderId,
                   sessionId, sessionVars, secretVars, groupVars,
                   pendingLeaderList, countVars, randomVars, netVars>>

\* Algorithm 11, reached only with a backoff left over from before n joined.
DetachFromLeader(n) ==
    /\ Due(n)
    /\ nodeState[n] = "Member"
    /\ LeaderSilent(n)
    /\ isbackoffExists[n]
    /\ nodeState' = [nodeState EXCEPT ![n] = "Detached"]
    /\ UNCHANGED <<isbackoffExists, backoffTime, lastIGROUPMsgTime, leaderId,
                   sessionId, sessionVars, secretVars, groupVars,
                   pendingLeaderList, countVars, randomVars, netVars>>

\* An update that finds nothing to do.
IdleUpdate(n) ==
    /\ Due(n)
    /\ nodeState[n] # "Leader"
    /\ LeaderSilent(n) => nodeState[n] = "Detached" /\ isbackoffExists[n]
    /\ ~BackoffOver(n)
    /\ UNCHANGED <<roleVars, lastIGROUPMsgTime, leaderId, sessionId,
                   sessionVars, secretVars, groupVars, pendingLeaderList,
                   countVars, randomVars, netVars>>

\* The group changed, or the secret is too old: a new secret, a new nonce, the
\* announced session, and a response to every member.
Rekey(n, list, session, position) ==
    LET secret == secrets + 1
        Respond(m) == [m EXCEPT !.leaderReply =
                         computeBlindedResponse(m.memberContrib, secret)]
    IN  /\ secrets' = secret
        /\ nodeSecret' = [nodeSecret EXCEPT ![n] = secret]
        /\ nodeContrib' = [nodeContrib EXCEPT ![n] = computeBlindedSecret(secret)]
        /\ lastTimeSecret' = [lastTimeSecret EXCEPT ![n] = now]
        /\ lastNonce' = [lastNonce EXCEPT ![n] = DrawnAt(position)]
        /\ sessionCurrent' = [sessionCurrent EXCEPT ![n] = session]
        /\ sessionNext' = [sessionNext EXCEPT ![n] = DrawnAt(position + DrawLength)]
        /\ rng' = position + 2 * DrawLength
        /\ memberList' = [memberList EXCEPT ![n] =
                            [i \in DOMAIN list |-> Respond(list[i])]]
        /\ key' = [key EXCEPT ![n] = leaderComputeKey(secret,
                     [i \in DOMAIN list |-> Respond(list[i]).leaderReply])]
        /\ compGroupChange' = [compGroupChange EXCEPT ![n] = FALSE]

\* Slip: the nonce is put into the IGROUP before the update renews it.
SendIGROUP_OldNonce(n) ==
    /\ igroup' =
         [leaderId |-> n, sessionId |-> 0,
          leaderLastNonce |-> lastNonce[n],
          sessionCurrent |-> sessionCurrent'[n],
          sessionNext |-> sessionNext'[n],
          sequenceNumber |-> IGmessageCount,
          memberInfoList |-> [i \in DOMAIN memberList'[n] |->
            [memberId |-> memberList'[n][i].memberId,
             memberLastNonce |-> memberList'[n][i].memberLastNonce,
             memberContrib |-> memberList'[n][i].memberContrib,
             leaderReply |-> memberList'[n][i].leaderReply]]]
    /\ IGmessageCount' = IGmessageCount + 1
    /\ heard' = [m \in Node |-> 0]
    /\ UNCHANGED <<ireply, IRmessageCount>>

\* The IGROUP, built from what the update has made of the leader's state.
SendIGROUP(n) ==
    /\ igroup' =
         [leaderId |-> n, sessionId |-> 0,
          leaderLastNonce |-> lastNonce'[n],
          sessionCurrent |-> sessionCurrent'[n],
          sessionNext |-> sessionNext'[n],
          sequenceNumber |-> IGmessageCount,
          memberInfoList |-> [i \in DOMAIN memberList'[n] |->
            [memberId |-> memberList'[n][i].memberId,
             memberLastNonce |-> memberList'[n][i].memberLastNonce,
             memberContrib |-> memberList'[n][i].memberContrib,
             leaderReply |-> memberList'[n][i].leaderReply]]]
    /\ IGmessageCount' = IGmessageCount + 1
    /\ heard' = [m \in Node |-> 0]
    /\ UNCHANGED <<ireply, IRmessageCount>>

\* Slip: the new leader goes on with the session its old leader announced.
BecomeLeader_OldSession(n) ==
    /\ Due(n)
    /\ BackoffOver(n)
    /\ nodeState' = [nodeState EXCEPT ![n] = "Leader"]
    /\ isbackoffExists' = [isbackoffExists EXCEPT ![n] = FALSE]
    /\ Rekey(n, <<>>, sessionNext[n], rng)
    /\ SendIGROUP(n)
    /\ UNCHANGED <<backoffTime, lastIGROUPMsgTime, leaderId, leaderLastNonce,
                   sessionId, pendingLeaderList>>

\* Algorithm 3 once the backoff is over.
BecomeLeader(n) ==
    /\ Due(n)
    /\ BackoffOver(n)
    /\ nodeState' = [nodeState EXCEPT ![n] = "Leader"]
    /\ isbackoffExists' = [isbackoffExists EXCEPT ![n] = FALSE]
    /\ Rekey(n, <<>>, DrawnAt(rng), rng + DrawLength)
    /\ SendIGROUP(n)
    /\ UNCHANGED <<backoffTime, lastIGROUPMsgTime, leaderId, leaderLastNonce,
                   sessionId, pendingLeaderList>>

\* Slip: members that remember a list send it in IGROUPs of their own.
LeaderUpdate_Anybody(n) ==
    /\ Due(n)
    /\ nodeState[n] # "Detached"
    /\ Rekey(n, memberList[n], sessionNext[n], rng)
    /\ SendIGROUP(n)
    /\ UNCHANGED <<roleVars, lastIGROUPMsgTime, leaderId, leaderLastNonce,
                   sessionId, pendingLeaderList>>

\* Algorithm 10 and the periodic IGROUP of a leader.
LeaderUpdate(n) ==
    LET old == {i \in DOMAIN memberList[n] :
                  now - memberList[n][i].memberLastIREPLYTime >= IREPLY_EXPIRE_TIME}
    IN  /\ Due(n)
        /\ nodeState[n] = "Leader"
        /\ ~isbackoffExists[n]
        /\ \E list \in Swept(memberList[n], old) :
             IF \/ old # {}
                \/ compGroupChange[n]
                \/ now - lastTimeSecret[n] > SECRET_EXPIRE_TIME
             THEN Rekey(n, list, sessionNext[n], rng)
             ELSE /\ memberList' = [memberList EXCEPT ![n] = list]
                  /\ UNCHANGED <<secretVars, compGroupChange, sessionCurrent,
                                 sessionNext, randomVars>>
        /\ SendIGROUP(n)
        /\ UNCHANGED <<roleVars, lastIGROUPMsgTime, leaderId, leaderLastNonce,
                       sessionId, pendingLeaderList>>

nodePeriodicUpdate(n) ==
    \/ DrawBackoff(n)
    \/ DetachFromLeader(n)
    \/ IdleUpdate(n)
    \/ BecomeLeader(n)
    \/ LeaderUpdate(n)

-----------------------------------------------------------------------------
(* GKANode::processIGROUPMessage and GKAInstance::processIGROUP.           *)

\* n is handed the IGROUP in flight.  A call that returns without changing
\* anything matters only for who has heard the message (IgnoreIGROUP).
Receives(n) ==
    /\ igroup # None
    /\ ireply = None
    /\ isActive[n]
    /\ n # igroup.leaderId
    /\ heard[n] < MaxCopies
    /\ heard' = [heard EXCEPT ![n] = @ + 1]
    /\ igroup' = igroup

Listed(n) ==
    \E i \in DOMAIN igroup.memberInfoList : igroup.memberInfoList[i].memberId = n

\* The loop that looks n up has no break: the last entry of n is the one used.
InfoOf(n) ==
    LET mine == {i \in DOMAIN igroup.memberInfoList :
                   igroup.memberInfoList[i].memberId = n}
    IN  igroup.memberInfoList[CHOOSE i \in mine : \A j \in mine : j <= i]

FromMyLeader(n) == nodeState[n] = "Member" /\ igroup.leaderId = leaderId[n]

Reply(n, to, leaderNonce, session, nonce, contrib, id) ==
    /\ ireply' = [leaderId |-> to, leaderLastNonce |-> leaderNonce,
                  nodeId |-> n, sessionId |-> id, nodeNonce |-> nonce,
                  nodeContrib |-> contrib, sessionCurrent |-> session,
                  sequenceNumber |-> IRmessageCount]
    /\ IRmessageCount' = IRmessageCount + 1
    /\ UNCHANGED IGmessageCount

\* The list of members the node remembers is not empty and as long as the one
\* of the IGROUP; the identifiers are the same when as many pairs match.
SameLength(n) ==
    /\ memberList[n] # <<>>
    /\ Len(memberList[n]) = Len(igroup.memberInfoList)

SameMembers(n) ==
    /\ SameLength(n)
    /\ Len(memberList[n]) =
         Cardinality({p \in (DOMAIN memberList[n]) \X (DOMAIN igroup.memberInfoList) :
            memberList[n][p[1]].memberId = igroup.memberInfoList[p[2]].memberId})

\* The key is computed only when the list or the session has changed, and the
\* remembered list is replaced only when the lengths differ.
ComputeKey(n, secret, sessionChanged) ==
    LET info == igroup.memberInfoList
        replies == [i \in DOMAIN info |-> info[i].leaderReply]
    IN  /\ memberList' =
             [memberList EXCEPT ![n] =
                IF SameLength(n) THEN @
                ELSE [i \in DOMAIN info |-> Named(info[i].memberId)]]
        /\ key' =
             [key EXCEPT ![n] =
                IF SameMembers(n) /\ ~sessionChanged THEN @
                ELSE memberComputeKey(secret, InfoOf(n).leaderReply, replies)]
        /\ UNCHANGED compGroupChange

\* Algorithm 6: the leader has moved on to the session it announced.
SessionMoves(n) == igroup.sessionCurrent = sessionNext[n]

\* Slip: the leader's nonce of the new session is not kept.
AdoptSession_OldNonce(n) ==
    /\ IF SessionMoves(n)
       THEN /\ sessionNext' = [sessionNext EXCEPT ![n] = igroup.sessionNext]
            /\ sessionCurrent' = [sessionCurrent EXCEPT ![n] = igroup.sessionCurrent]
       ELSE UNCHANGED <<sessionNext, sessionCurrent>>
    /\ UNCHANGED leaderLastNonce

AdoptSession(n) ==
    IF SessionMoves(n)
    THEN /\ sessionNext' = [sessionNext EXCEPT ![n] = igroup.sessionNext]
         /\ sessionCurrent' = [sessionCurrent EXCEPT ![n] = igroup.sessionCurrent]
         /\ leaderLastNonce' = [leaderLastNonce EXCEPT ![n] = igroup.leaderLastNonce]
    ELSE UNCHANGED sessionVars

\* The checks of Algorithm 6, made after the session has been adopted.
ConfirmsMember(n) ==
    /\ \/ SessionMoves(n)
       \/ /\ igroup.sessionCurrent = sessionCurrent[n]
          /\ igroup.leaderLastNonce = leaderLastNonce[n]
    /\ Listed(n)
    /\ InfoOf(n).memberLastNonce = lastNonce[n]
    /\ InfoOf(n).memberContrib = nodeContrib[n]

\* Algorithms 5 and 6 on an IGROUP of my leader that confirms my last IREPLY.
\* `else if (isKeyChanged = true)' always holds, so that every IREPLY carries
\* a new nonce.  A renewed secret leaves nodeContrib as it was.
AcceptFromLeader(n) ==
    /\ Receives(n)
    /\ FromMyLeader(n)
    /\ ConfirmsMember(n)
    /\ AdoptSession(n)
    /\ ComputeKey(n, nodeSecret[n], SessionMoves(n))
    /\ lastIGROUPMsgTime' = [lastIGROUPMsgTime EXCEPT ![n] = now]
    /\ lastNonce' = [lastNonce EXCEPT ![n] = DrawnAt(rng)]
    /\ rng' = rng + DrawLength
    /\ \E expired \in LastSecretExpired :
         /\ IF expired
            THEN /\ secrets' = secrets + 1
                 /\ nodeSecret' = [nodeSecret EXCEPT ![n] = secrets + 1]
                 /\ lastTimeSecret' = [lastTimeSecret EXCEPT ![n] = now]
            ELSE UNCHANGED <<secrets, nodeSecret, lastTimeSecret>>
         /\ Reply(n, leaderId[n], leaderLastNonce'[n],
                  IF expired THEN sessionNext'[n] ELSE sessionCurrent'[n],
                  DrawnAt(rng), nodeContrib[n], igroup.sessionId)
    /\ UNCHANGED <<roleVars, leaderId, sessionId, nodeContrib,
                   pendingLeaderList, timeVars>>

\* The same when a check fails: the session has been adopted all the same.
RejectFromLeader(n) ==
    /\ Receives(n)
    /\ FromMyLeader(n)
    /\ ~ConfirmsMember(n)
    /\ SessionMoves(n)
    /\ AdoptSession(n)
    /\ UNCHANGED <<roleVars, lastIGROUPMsgTime, leaderId, sessionId,
                   secretVars, groupVars, pendingLeaderList, countVars,
                   randomVars, timeVars, ireply>>

\* A leader with a smaller identifier is preferred.
Prefers(n) ==
    \/ nodeState[n] = "Member" /\ igroup.leaderId < leaderId[n]
    \/ nodeState[n] = "Leader" /\ igroup.leaderId < n
    \/ nodeState[n] = "Detached"

\* Algorithms 9 and 7: forget the pending leaders that are too old, add this
\* one with a secret and a nonce of its own, and ask it for membership.
JoinLeader(n) ==
    LET old == {i \in DOMAIN pendingLeaderList[n] :
                  now - pendingLeaderList[n][i].pendingLeaderLastIGROUPTime
                    >= LEADER_LAST_TIME}
        new == pendingLeader(igroup.leaderId, igroup.leaderLastNonce,
                             igroup.sessionCurrent, DrawnAt(rng),
                             secrets + 1, now)
    IN  /\ Receives(n)
        /\ ~FromMyLeader(n)
        /\ ~Listed(n)
        /\ Prefers(n)
        /\ \E list \in Swept(pendingLeaderList[n], old) :
             pendingLeaderList' = [pendingLeaderList EXCEPT ![n] = Append(list, new)]
        /\ secrets' = secrets + 1
        /\ rng' = rng + DrawLength
        /\ Reply(n, igroup.leaderId, igroup.leaderLastNonce,
                 igroup.sessionCurrent, DrawnAt(rng),
                 computeBlindedSecret(secrets + 1), igroup.sessionId)
        /\ UNCHANGED <<roleVars, lastIGROUPMsgTime, leaderId, sessionId,
                       sessionVars, secretVars, groupVars, timeVars>>

PendingWith(n, leader) ==
    {i \in DOMAIN pendingLeaderList[n] :
       pendingLeaderList[n][i].pendingLeaderId = leader}

\* Algorithm 8 returns when a pending entry matches the IGROUP entirely.
AnswersPending(n) ==
    \E i \in DOMAIN pendingLeaderList[n] :
        LET p == pendingLeaderList[n][i]
        IN  /\ p.pendingLeaderNonce = igroup.leaderLastNonce
            /\ p.pendingSessionNext = igroup.sessionCurrent
            /\ p.lastNonce = InfoOf(n).memberLastNonce
            /\ computeBlindedSecret(p.nodeSecret) = InfoOf(n).memberContrib

\* Algorithm 8: the leader has listed n, which becomes its member with the
\* secret and nonce of its first pending entry for that leader.  The IREPLY
\* carries the node's own, uninitialised, sessionId.
BecomeMember(n) ==
    /\ Receives(n)
    /\ ~FromMyLeader(n)
    /\ Listed(n)
    /\ ~AnswersPending(n)
    /\ \E i \in PendingWith(n, igroup.leaderId) :
         LET p == pendingLeaderList[n][i]
         IN  /\ \A j \in PendingWith(n, igroup.leaderId) : i <= j
             /\ pendingLeaderList' =
                  [pendingLeaderList EXCEPT ![n] =
                     SubSeq(@, 1, i-1) \o SubSeq(@, i+1, Len(@))]
             /\ lastNonce' = [lastNonce EXCEPT ![n] = p.lastNonce]
             /\ nodeSecret' = [nodeSecret EXCEPT ![n] = p.nodeSecret]
             /\ nodeContrib' =
                  [nodeContrib EXCEPT ![n] = computeBlindedSecret(p.nodeSecret)]
             /\ lastTimeSecret' =
                  [lastTimeSecret EXCEPT ![n] = p.pendingLeaderLastIGROUPTime]
             /\ ComputeKey(n, p.nodeSecret, FALSE)
    /\ nodeState' = [nodeState EXCEPT ![n] = "Member"]
    /\ lastIGROUPMsgTime' = [lastIGROUPMsgTime EXCEPT ![n] = now]
    /\ leaderId' = [leaderId EXCEPT ![n] = igroup.leaderId]
    /\ leaderLastNonce' = [leaderLastNonce EXCEPT ![n] = igroup.leaderLastNonce]
    /\ sessionCurrent' = [sessionCurrent EXCEPT ![n] = igroup.sessionCurrent]
    /\ sessionNext' = [sessionNext EXCEPT ![n] = igroup.sessionNext]
    /\ Reply(n, igroup.leaderId, igroup.leaderLastNonce, igroup.sessionCurrent,
             lastNonce'[n], nodeContrib'[n], sessionId[n])
    /\ UNCHANGED <<isbackoffExists, backoffTime, sessionId, randomVars, timeVars>>

\* The calls that return early.
IgnoreIGROUP(n) ==
    /\ Receives(n)
    /\ \/ FromMyLeader(n) /\ ~ConfirmsMember(n) /\ ~SessionMoves(n)
       \/ ~FromMyLeader(n) /\ ~Listed(n) /\ ~Prefers(n)
       \/ ~FromMyLeader(n) /\ Listed(n) /\ AnswersPending(n)
       \/ ~FromMyLeader(n) /\ Listed(n) /\ PendingWith(n, igroup.leaderId) = {}
    /\ UNCHANGED <<roleVars, lastIGROUPMsgTime, leaderId, sessionId,
                   sessionVars, secretVars, groupVars, pendingLeaderList,
                   countVars, randomVars, timeVars, ireply>>

processIGROUP(n) ==
    \/ AcceptFromLeader(n)
    \/ RejectFromLeader(n)
    \/ JoinLeader(n)
    \/ BecomeMember(n)
    \/ IgnoreIGROUP(n)

-----------------------------------------------------------------------------
(* GKANode::processIREPLYMessage and GKAInstance::processIREPLY.           *)

\* The session number is compared with the number of sessions, 1, as unsigned.
Accepts(n) ==
    /\ ireply.sessionId = 0
    /\ nodeState[n] = "Leader"
    /\ ireply.leaderId = n
    /\ ireply.sessionCurrent \in {sessionCurrent[n], sessionNext[n]}
    /\ ireply.leaderLastNonce = lastNonce[n]

\* Slip: a member is looked up by what it contributes.
EntryOf_ByContrib(n, id) ==
    {i \in DOMAIN memberList[n] : memberList[n][i].memberContrib = ireply.nodeContrib}

EntryOf(n, id) == {i \in DOMAIN memberList[n] : memberList[n][i].memberId = id}

\* A new member, a new contribution, or a member already in the session to
\* come: the group changes at the leader's next update.  The contribution the
\* code compares is that of the first entry, and all entries are renewed.
processIREPLY(n) ==
    LET entries == EntryOf(n, ireply.nodeId)
        renewed(m) == [m EXCEPT !.memberLastNonce = ireply.nodeNonce,
                                !.memberContrib = ireply.nodeContrib,
                                !.memberLastIREPLYTime = now]
    IN  /\ igroup # None
        /\ ireply # None
        /\ Accepts(n)
        /\ memberList' =
             [memberList EXCEPT ![n] =
                IF entries = {}
                THEN Append(@, Member(ireply.nodeId, ireply.nodeContrib,
                                      ireply.nodeNonce, now))
                ELSE [i \in DOMAIN @ |->
                        IF i \in entries THEN renewed(@[i]) ELSE @[i]]]
        /\ compGroupChange' =
             [compGroupChange EXCEPT ![n] =
                \/ @
                \/ entries = {}
                \/ \E i \in entries :
                     /\ \A j \in entries : i <= j
                     /\ memberList[n][i].memberContrib # ireply.nodeContrib
                \/ ireply.sessionCurrent = sessionNext[n]]
        /\ UNCHANGED <<roleVars, lastIGROUPMsgTime, leaderId, sessionId,
                       sessionVars, secretVars, pendingLeaderList, countVars,
                       randomVars, timeVars, netVars>>

-----------------------------------------------------------------------------
(* The network, the movement of nodes and the scheduler, as far as the     *)
(* protocol depends on them.                                               *)

StateVars == <<roleVars, lastIGROUPMsgTime, leaderId, sessionId, sessionVars,
               secretVars, groupVars, pendingLeaderList, countVars>>

\* The flood of the IREPLY ends.
EndIREPLY ==
    /\ ireply # None
    /\ ireply' = None
    /\ UNCHANGED <<StateVars, randomVars, timeVars, igroup, heard>>

\* The flood of the IGROUP ends, and with it the leader's periodic update.
EndIGROUP ==
    /\ igroup # None
    /\ ireply = None
    /\ igroup' = None
    /\ heard' = [m \in Node |-> 0]
    /\ UNCHANGED <<StateVars, randomVars, timeVars, ireply>>

\* nodeMovementUpdate in scenarios 1 and 2 calls srand with the time of day in
\* seconds and draws three numbers: rand() repeats itself within a second.
\* It runs once per update of n, at the same instant; here it may, either
\* before or after the update.
MovementDraws == 3
nodeMovementUpdate(n) ==
    /\ MovementReseeds
    /\ Quiet
    /\ isActive[n]
    /\ nextUpdate[n] \in {now, now + PERIOD_INTERVAL}
    /\ rng' = MovementDraws
    /\ UNCHANGED <<StateVars, secrets, timeVars, netVars>>

\* The clock moves to the next update, once those of this instant have run.
\* The update scheduled after simulationTime does not run, but the movement
\* scheduled with it does.
PassTime ==
    /\ Quiet
    /\ \A n \in Node : nextUpdate[n] = now => now > simulationTime
    /\ \E n \in Node :
         /\ nextUpdate[n] > now
         /\ \A m \in Node : nextUpdate[m] > now => nextUpdate[n] <= nextUpdate[m]
         /\ now' = nextUpdate[n]
    /\ UNCHANGED <<StateVars, randomVars, isActive, nextUpdate, netVars>>

Next ==
    \/ \E n \in Node :
         \/ nodePeriodicUpdate(n)
         \/ processIGROUP(n)
         \/ processIREPLY(n)
         \/ nodeMovementUpdate(n)
    \/ EndIREPLY
    \/ EndIGROUP
    \/ PassTime

Spec == Init /\ [][Next]_vars

-----------------------------------------------------------------------------
(* Properties.                                                             *)

MemberRecord ==
    [memberId : Node, memberContrib : Elem, leaderReply : Elem,
     memberLastNonce : Nat, memberLastIREPLYTime : Nat]

MemberInfo ==
    [memberId : Node, memberLastNonce : Nat, memberContrib : Elem,
     leaderReply : Elem]

PendingLeader ==
    [pendingLeaderId : Node, pendingLeaderNonce : Nat,
     pendingSessionNext : Nat, lastNonce : Nat, nodeSecret : Nat,
     pendingLeaderLastIGROUPTime : Nat]

IGROUPMessage ==
    [leaderId : Node, sessionId : Nat, leaderLastNonce : Nat,
     sessionCurrent : Nat, sessionNext : Nat, sequenceNumber : Nat,
     memberInfoList : Seq(MemberInfo)]

IREPLYMessage ==
    [leaderId : Node, leaderLastNonce : Nat, nodeId : Node, sessionId : Int,
     nodeNonce : Nat, nodeContrib : Elem, sessionCurrent : Nat,
     sequenceNumber : Nat]

\* Every variable has the type of the program's member variable.
TypeOK ==
    /\ nodeState \in [Node -> Role]
    /\ isbackoffExists \in [Node -> BOOLEAN]
    /\ backoffTime \in [Node -> Nat]
    /\ lastIGROUPMsgTime \in [Node -> Nat]
    /\ leaderId \in [Node -> Node \cup {None}]
    /\ leaderLastNonce \in [Node -> Nat]
    /\ sessionId \in [Node -> Int]
    /\ sessionCurrent \in [Node -> Nat]
    /\ sessionNext \in [Node -> Nat]
    /\ nodeSecret \in [Node -> Nat]
    /\ nodeContrib \in [Node -> Elem]
    /\ lastNonce \in [Node -> Nat]
    /\ lastTimeSecret \in [Node -> Nat]
    /\ DOMAIN key = Node
    /\ memberList \in [Node -> Seq(MemberRecord)]
    /\ pendingLeaderList \in [Node -> Seq(PendingLeader)]
    /\ compGroupChange \in [Node -> BOOLEAN]
    /\ IGmessageCount \in Nat
    /\ IRmessageCount \in Nat
    /\ isActive \in [Node -> BOOLEAN]
    /\ nextUpdate \in [Node -> Nat]
    /\ now \in Nat
    /\ secrets \in Nat
    /\ rng \in Nat
    /\ igroup \in IGROUPMessage \cup {None}
    /\ ireply \in IREPLYMessage \cup {None}
    /\ heard \in [Node -> Nat]

Leaders == {n \in Node : nodeState[n] = "Leader"}
Members == {n \in Node : nodeState[n] = "Member"}

\* Following leaderId from member to member never returns to where it began:
\* every set of members has one whose leader is not in the set.  Nodes change
\* their leader while others still take them for theirs; a ring of members
\* that wait for each other's IGROUP is built as soon as an IGROUP is handled
\* after its sender has stopped being a leader.
MembershipAcyclic ==
    \A S \in SUBSET Members : S # {} => \E n \in S : leaderId[n] \notin S

\* Two leaders never use or announce the same session, even when one of them
\* was a member of the other and remembers the session it announced
\* (updateState draws a new sessionNext when a node becomes leader).
LeaderSessionsDistinct ==
    \A m, n \in Leaders :
        m # n => {sessionCurrent[m], sessionNext[m]}
                   \cap {sessionCurrent[n], sessionNext[n]} = {}

\* A member that is in the session of its leader knows the leader's nonce and
\* the session to come, whatever was lost, repeated or rejected on the way.
SessionAgreement ==
    \A n \in Members : \A l \in Leaders :
        (leaderId[n] = l /\ sessionCurrent[n] = sessionCurrent[l])
            => /\ sessionNext[n] = sessionNext[l]
               /\ leaderLastNonce[n] = lastNonce[l]

\* The list a leader keeps, and the one it sends, names every member once and
\* never the leader, whatever was erased and however often a node replied.
GroupIsASet ==
    /\ \A n \in Leaders : \A i, j \in DOMAIN memberList[n] :
         /\ memberList[n][i].memberId # n
         /\ memberList[n][i].memberId = memberList[n][j].memberId => i = j
    /\ igroup # None =>
         \A i, j \in DOMAIN igroup.memberInfoList :
            /\ igroup.memberInfoList[i].memberId # igroup.leaderId
            /\ igroup.memberInfoList[i].memberId = igroup.memberInfoList[j].memberId
                 => i = j

\* How long the i-th element of a leader's list may have been silent: the loop
\* of Algorithm 10 skips the element after an erased one, and an expired
\* element that is skipped moves up, so that it has been spared for at most as
\* many updates as there are positions after it.
Grace(i) == IREPLY_EXPIRE_TIME + (Cardinality(Node) - 1 - i) * PERIOD_INTERVAL

NobodyOverdue(list, time) ==
    \A i \in DOMAIN list : time - list[i].memberLastIREPLYTime < Grace(i)

\* A leader stops listing a member that no longer replies, although the loop
\* that drops the expired ones skips some of them (Algorithm 10).
SilentMembersLeave ==
    igroup # None => NobodyOverdue(memberList[igroup.leaderId], now)

\* A node makes itself leader only when it has not heard a leader that
\* confirmed it for LEADER_LAST_TIME, although the flag of an earlier backoff
\* survives joining a leader.
SilenceBeforeLeadership ==
    [][\A n \in Node :
         nodeState[n] # "Leader" /\ nodeState'[n] = "Leader"
           => now - lastIGROUPMsgTime[n] > LEADER_LAST_TIME]_vars

\* What the proofs add to the invariants above.

\* An IGROUP in flight says what its leader still is.
LeaderSends ==
    igroup # None =>
      LET l == igroup.leaderId
      IN  /\ l \in Leaders
          /\ igroup.sessionCurrent = sessionCurrent[l]
          /\ igroup.sessionNext = sessionNext[l]
          /\ igroup.leaderLastNonce = lastNonce[l]

\* Nobody replies to itself.
OthersReply == ireply # None => ireply.nodeId # ireply.leaderId

\* A leader has updated within the last period, and at that update had spared
\* nobody longer than SilentMembersLeave says.
SilenceBounded ==
    /\ igroup # None => nextUpdate[igroup.leaderId] = now + PERIOD_INTERVAL
    /\ \A l \in Leaders :
         /\ nextUpdate[l] <= now + PERIOD_INTERVAL
         /\ NobodyOverdue(memberList[l], nextUpdate[l] - PERIOD_INTERVAL)

\* A detached node that waits has not heard its leader for LEADER_LAST_TIME.
BackoffAfterSilence ==
    \A n \in Node : nodeState[n] = "Detached" /\ isbackoffExists[n] => LeaderSilent(n)

\* Sessions are positions of rand() that have been passed.
SessionsDrawn ==
    \A n \in Node : sessionCurrent[n] <= rng /\ sessionNext[n] <= rng

\* Nobody is already in the session a leader announces.
SessionsAhead ==
    \A l \in Leaders :
        /\ sessionCurrent[l] # sessionNext[l]
        /\ \A n \in Members : leaderId[n] = l => sessionCurrent[n] # sessionNext[l]

\* The inductive invariant for the roles and the member lists, and the one
\* for the sessions, which needs a rand() that does not repeat itself.
GroupInv ==
    /\ LeaderSends
    /\ OthersReply
    /\ BackoffAfterSilence
    /\ MembershipAcyclic
    /\ GroupIsASet

SessionInv ==
    /\ LeaderSends
    /\ SessionsDrawn
    /\ SessionsAhead
    /\ LeaderSessionsDistinct
    /\ SessionAgreement

=============================================================================
