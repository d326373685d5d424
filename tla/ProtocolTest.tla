---------------------------- MODULE ProtocolTest ----------------------------
(***************************************************************************)
(* The program protocol-test: the simulation of GKASimul with what it      *)
(* counts, until there is no event left, and then the report it prints     *)
(* (createReport, GKAFinish, displayResult).  Times taken are left out.    *)
(***************************************************************************)
EXTENDS GKASimul, Functions

CONSTANT TableSize       \* the rows, and the columns, of the report's tables

\* The indices of a table, and those the report fills and prints: the rows are
\* the nodes, the columns the numbers of members a list may have.
Table == 0..TableSize - 1
Columns == 0..Cardinality(Node) - 1

\* GKAInit numbers the nodes, and the tables have room for them: no index is
\* checked, and the report of more nodes writes and reads outside the tables.
ASSUME TableAssumption ==
    /\ TableSize \in Nat
    /\ Cardinality(Node) <= TableSize
    /\ Node = Columns

VARIABLES
    generateIGROUPTime,  \* for each key a leader computed, how many members
    processIGROUPTime,   \* the same for each key a member computed
    LeadersignCount, MembersignCount, IGROUPtotalVeriCount, IREPLYtotalVeriCount,
    leaderKeyCount, memberKeyCount,
    finished             \* main has returned

countedVars == <<generateIGROUPTime, processIGROUPTime, LeadersignCount,
                 MembersignCount, IGROUPtotalVeriCount, IREPLYtotalVeriCount>>
reportVars == <<leaderKeyCount, memberKeyCount, finished>>
mainVars == <<simVars, countedVars, reportVars>>

MainInit ==
    /\ SimInit
    /\ generateIGROUPTime = [n \in Node |-> <<>>]
    /\ processIGROUPTime = [n \in Node |-> <<>>]
    /\ LeadersignCount = 0
    /\ MembersignCount = 0
    /\ IGROUPtotalVeriCount = 0
    /\ IREPLYtotalVeriCount = 0
    /\ leaderKeyCount = [j \in Table |-> 0]
    /\ memberKeyCount = [j \in Table |-> 0]
    /\ finished = FALSE

-----------------------------------------------------------------------------
(* What is counted while the simulation runs.                              *)

\* Slip: the signature of a node that makes itself leader is not counted.
CountLeader_LaterUpdates(n) ==
    /\ LeaderSendsIGROUP(n)
    /\ LeadersignCount' = LeadersignCount + IF nodeState[n] = "Leader" THEN 1 ELSE 0
    /\ generateIGROUPTime' = [generateIGROUPTime EXCEPT ![n] =
         IF nodeSecret'[n] = nodeSecret[n] THEN @ ELSE Append(@, Len(memberList'[n]))]
    /\ UNCHANGED <<processIGROUPTime, MembersignCount, IGROUPtotalVeriCount,
                   IREPLYtotalVeriCount, reportVars>>

\* A leader signs its IGROUP; it computes a key when it renews its secret.
CountLeader(n) ==
    /\ LeaderSendsIGROUP(n)
    /\ LeadersignCount' = LeadersignCount + 1
    /\ generateIGROUPTime' = [generateIGROUPTime EXCEPT ![n] =
         IF nodeSecret'[n] = nodeSecret[n] THEN @ ELSE Append(@, Len(memberList'[n]))]
    /\ UNCHANGED <<processIGROUPTime, MembersignCount, IGROUPtotalVeriCount,
                   IREPLYtotalVeriCount, reportVars>>

\* When processIGROUP calls memberComputeKey.
ComputesKey(m) ==
    /\ Listed(m)
    /\ \/ FromMyLeader(m) /\ ConfirmsMember(m) /\ (SessionMoves(m) \/ ~SameMembers(m))
       \/ /\ ~FromMyLeader(m)
          /\ ~AnswersPending(m)
          /\ PendingWith(m, igroup.leaderId) # {}
          /\ ~SameMembers(m)

\* A node verifies the IGROUP it is handed, and signs a reply it may not send.
CountMember ==
    /\ HandIGROUP
    /\ IF heard' = heard
       THEN UNCHANGED <<MembersignCount, IGROUPtotalVeriCount, processIGROUPTime>>
       ELSE /\ MembersignCount' = MembersignCount + 1
            /\ IGROUPtotalVeriCount' = IGROUPtotalVeriCount + 1
            /\ processIGROUPTime' = [processIGROUPTime EXCEPT ![Head(IGtodo)] =
                 IF ComputesKey(Head(IGtodo))
                 THEN Append(@, Len(igroup.memberInfoList)) ELSE @]
    /\ UNCHANGED <<generateIGROUPTime, LeadersignCount, IREPLYtotalVeriCount, reportVars>>

\* A leader verifies the IREPLY for its session before it looks at the rest.
CountReply ==
    /\ HandIREPLY
    /\ IREPLYtotalVeriCount' = IREPLYtotalVeriCount +
         IF /\ Head(IRtodo) = ireply.leaderId
            /\ ireply.leaderId \in Leaders
            /\ ireply.sessionId = 0
         THEN 1 ELSE 0
    /\ UNCHANGED <<generateIGROUPTime, processIGROUPTime, LeadersignCount,
                   MembersignCount, IGROUPtotalVeriCount, reportVars>>

Uncounted ==
    /\ \/ \E n \in Node : SilentUpdate(n) \/ MoveNode(n)
       \/ SkipIGROUP
       \/ RelayIGROUP
       \/ RelayIREPLY
       \/ PassTimeTogether
    /\ UNCHANGED <<countedVars, reportVars>>

-----------------------------------------------------------------------------
(* The report.                                                             *)

\* Every update that is scheduled after simulationTime is not run, and no
\* flood goes on for ever: the simulation comes to its end.
NoEvent ==
    /\ Quiet
    /\ \A n \in Node : nextUpdate[n] <= now /\ nextUpdate[n] > simulationTime

\* How many of the keys timed were computed for j members.
Timed(times, j) ==
    SumFunction([i \in Columns |-> Cardinality({k \in DOMAIN times[i] : times[i][k] = j})])

\* Slip: the report starts with groups of one member.
KeyCount_FromOne(times) ==
    [j \in Table |-> IF j \in Columns \ {0} THEN Timed(times, j) ELSE 0]

KeyCount(times) == [j \in Table |-> IF j \in Columns THEN Timed(times, j) ELSE 0]

GKAFinish ==
    /\ NoEvent
    /\ ~finished
    /\ leaderKeyCount' = KeyCount(generateIGROUPTime)
    /\ memberKeyCount' = KeyCount(processIGROUPTime)
    /\ finished' = TRUE
    /\ UNCHANGED <<simVars, countedVars>>

\* The event that moves a node after its last update comes before the end.
MainNext ==
    \/ \E n \in Node : CountLeader(n)
    \/ CountMember
    \/ CountReply
    \/ Uncounted
    \/ /\ \A n \in Node : nextMovement[n] # now
       /\ GKAFinish

MainSpec == MainInit /\ [][MainNext]_mainVars

\* The scheduler runs events, and handlers run to their end, until there is
\* nothing left to run.
MainFairSpec == MainSpec /\ WF_mainVars(MainNext)

-----------------------------------------------------------------------------
(* Properties.                                                             *)

\* No key that was computed is left out of the report, whose columns end with
\* one member less than there are nodes: no list a leader keeps, or sends, is
\* ever longer.
EveryKeyReported ==
    finished =>
        /\ SumFunction(Restrict(leaderKeyCount, Columns))
             = SumFunction([n \in Node |-> Len(generateIGROUPTime[n])])
        /\ SumFunction(Restrict(memberKeyCount, Columns))
             = SumFunction([n \in Node |-> Len(processIGROUPTime[n])])

\* Of the two averages the report takes when another counter than the divisor
\* is not zero, none divides by zero: when a reply has been verified a leader
\* has signed, and when an IGROUP has been verified a member has.  (The other
\* divisions are guarded by their divisor, or, those of the times in the rows,
\* undone where the divisor is zero.)
AveragesDefined ==
    /\ IREPLYtotalVeriCount # 0 => LeadersignCount # 0
    /\ IGROUPtotalVeriCount # 0 => MembersignCount # 0

\* The program comes to its end.
Terminates == <>finished

=============================================================================
