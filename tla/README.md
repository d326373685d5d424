# Specification of AHGKA

TLA+ modules, TLC configurations and TLAPS proofs for AHGKA, a simulator of an
asymmetric group key agreement protocol (AGDH) among ad hoc nodes. Paths and
line numbers are those of the repository's root directory.

## 1. Inventory

The simulator is one process and one thread. `protocol-test.cc` builds a
scheduler, a configuration and a `GKASimul`, places the nodes, and calls
`runUntilNoEvent`. Everything else happens in events the scheduler runs; at the
end it prints a report. Two more programs, `crypto-test` and `tagdh`, try out the
group operations without messages.

| component | state | operations | modules |
|---|---|---|---|
| `GKAInstance` / `GKANode` (`gka-protocol.cc`) | role, backoff, leader, session, secrets, member list, pending leaders; two message counters for all nodes | `makeInstance`, `nodePeriodicUpdate` → `updateState`, `processIGROUP`, `processIREPLY` | `GKAInstance`, `GKAInstanceProofs` |
| sweeps: the loops that erase old list elements | a list and an index | erase, `i++` | `Sweep`, `EraseLoop`, `SweepProofs`, `StandaloneProofs` |
| flood of an IGROUP (`gka-simul-base.cc`) | relays of this and the next round, `isReTx`, `processed`, what each node remembers having relayed | `evIGROUP`, `ReTxIGROUPMessage` | `Radio`, `FloodIGROUP`, `Broadcast`, `FloodIGROUPProofs` |
| flood of an IREPLY | the same without `processed` | `evIREPLY`, `ReTxIREPLYMessage` | `Radio`, `FloodIREPLY`, `FloodIREPLYProofs` |
| simulation (`GKASimul`, `protocol-test.cc`) | all of the above, places of the nodes | set-up, calls between protocol and floods, end | `GKASimul`, `ProtocolTest`, `GKASimulProofs` |
| placement and movement | configuration, coordinates, scheduled movements | `GKAInit`, `nodeMovementUpdate` | `Places`, `Movement`, `MovementProofs` |
| report (`createReport`, `GKAFinish`, `displayResult`) | keys computed, signatures and verifications counted | counting, the tables printed | `ProtocolTest`, `GKASimulProofs` |
| scheduler (`scheduler-core.cc`, `api-scheduler.h`) | table of slots, clock, `lastEvent` | `addEvent`, `addEventAt`, `removeEvent`, `runUntil` | `EventQueue`, `Scheduler`, `SchedulerProofs` |
| group operations (`gka-crypto.h`) | none | blind, respond, compute key | `GKACrypto` (symbols), `GkaECCrypto` (numbers), `StandaloneProofs` |
| signatures (`ecdsa-crypto.h`) | one pair of keys for everybody | `generateKey`, `sign`, `verify` | `ECDSA`, `CryptoTest` |
| `crypto-test` (`test-gka-crypto.cc`), `tagdh` (`tagdh.c`) | secrets, elements, keys, signatures | the paragraphs of `main` | `CryptoTest`, `Tagdh`, `StandaloneProofs` |
| NS2 interface, `util-general.h` | | | not modelled (section 8) |

How they interact. A periodic update of a leader calls
`GKASimul::evIGROUP`, which hands the message to the nodes in range and then,
round by round, lets every node reached relay it. Handing it is a call of
`processIGROUP`, which may call `evIREPLY`, whose flood hands the reply to the
leader by a call of `processIREPLY`, all before the update returns. So an
IREPLY is handled inside an IGROUP, an IGROUP inside an update, and the clock
stands still meanwhile. Nothing runs concurrently; what is hard is

* the order of events of the same time and of receivers in a flood;
* nodes that miss messages because they are out of range, not yet active, or
  left out by the flood's own flags, and nodes that get a message several times;
* state left over from an earlier role: backoff flags, sessions, member lists,
  pending requests, records of relayed messages;
* reads of variables nobody has written, and loops that erase and skip;
* a `rand()` that movement reseeds with the time of day;
* places and numbers at the edge: sectors as far apart as a message gets, steps
  towards a band, coordinates below 0, a secret that is 0.

What makes each component correct:

* protocol: one leader, one key (`Converges`, `KeyAgreementOneHop`); groups without
  rings (`MembershipAcyclic`), lists without repetitions (`GroupIsASet`),
  sessions that belong to one leader (`LeaderSessionsDistinct`) and are agreed
  on (`SessionAgreement`); leadership only after silence; silent members leave;
* floods: nobody relays twice, everybody reachable relays, the leader is
  reached, the recursion ends, the IGROUP flood is a broadcast;
* sweeps: what they leave, and how much;
* movement: groups that are to merge are apart until half time
  (`GroupsApart`), one group is one (`OneSectorInRange`), nodes that merge come
  together (`Converging`, `Merges`) and stay in the grid (`InGrid`);
* report: no key is left out, no average of nothing (`AveragesDefined`);
* scheduler: it is a queue of events, time does not go back, the table grows
  only when it must;
* group operations: member and leader compute one key, and the programs that
  try them out print what they say.

`PROJECT.json` lists the hazards of this code line by line with the properties
that cover them.

## 2. Plan

1. `GKACrypto`, `Sweep`, `GKAInstance`: the protocol over an abstract network.
   *Done*; types and four inductive invariants (roles and lists, silence, sessions, keys) are proved.
2. `EraseLoop`: the sweep operator against the loop. *Done*, proved for lists of any length.
3. `Radio`, `FloodIGROUP`, `FloodIREPLY`, `Broadcast`: the network itself and
   what the protocol assumes of it. *Done*; types, `RelaysOnce`, who is reached, and the safety
   part of the refinement are proved.
4. `EventQueue`, `Scheduler`: abstract and detailed scheduler. *Done*, refinement
   proved.
5. `Places`, `Movement`: placement and the three scenarios. *Done*, safety proved.
6. `GKASimul`, `ProtocolTest`: protocol, floods, movement and report together,
   until the program ends. *Done*; that the composition refines the protocol and both floods, that
   keys agree where nobody moves or relays, and what the report prints, are proved.
7. `GkaECCrypto`, `ECDSA`, `CryptoTest`, `Tagdh`: the operations with numbers and the
   two programs that try them. *Done*, proved for every field, with the symbolic operations.

What could still be added: `KeyAgreementOneHop` while groups move towards each other, and for
nodes that update at the same time (section 7); and which keys agree over several hops, for which the code
would have to ask once for membership.

## 3. The modules

### GKAInstance

One instance of the protocol per node, as functions on `Node`. Variables have
the names of the member variables. Each action is one whole call:

| action | code (`gka-protocol.cc`) |
|---|---|
| `DrawBackoff`, `DetachFromLeader`, `IdleUpdate`, `BecomeLeader`, `LeaderUpdate` | the outcomes of `updateState` (287-491); exactly one is enabled for a due node |
| `AcceptFromLeader`, `RejectFromLeader`, `JoinLeader`, `BecomeMember`, `IgnoreIGROUP` | the outcomes of `processIGROUP` (500-954) |
| `processIREPLY` | `processIREPLYMessage` and `processIREPLY` (956-1065) |
| `EndIREPLY`, `EndIGROUP` | the floods return |
| `nodeMovementUpdate` | the `srand` of scenarios 1 and 2, and the draws after it |
| `PassTime` | the scheduler takes the next event |

Data.

* `rand()` is a position `rng`, and a nonce or a session is the position it was
  drawn at: two draws are equal exactly when they start at the same position.
  Reseeding sets the position back.
* Secrets come from OpenSSL and are numbered in the order they are drawn.
  `GKACrypto` represents a group element by the secrets it is multiplied and
  divided by, a key by a share and a bag of responses. Collisions of random
  secrets are left out.
* `key` is a history variable: the program throws the key away once it has
  measured how long it took. The model remembers the last one computed.
* Undefined behaviour is a choice: `lastSecret > SECRET_EXPIRE_TIME` at line 691
  reads an uninitialised variable (`LastSecretExpired`), and `sessionId++` at
  line 154 increments one (`InitSessionIds`).
* `isKeyChanged = true` at line 703 is an assignment, so its branch is always
  taken; the loop of Algorithms 9 and 10 erases and skips; both are modelled as
  they are.
* `IGmessageCount` and `IRmessageCount` (16-17) are one counter each for all nodes.

Network. The IGROUP in flight is handed to any active nodes other than the
leader, in any order, up to `MaxCopies` times each; the IREPLY to its leader,
any number of times, or to nobody. Both floods may end at any time. That is more
than the floods of the program do, and what is shown here holds whatever they do.

### Sweep, EraseLoop, SweepProofs

`Swept(list, old)` is the list the erasing loop leaves. Of every run of adjacent old
elements the first, third, ... go. `Swept` is a set of one element, so that an
action can choose the list and a proof can use what `Increasing` says about it
without reasoning about `CHOOSE`. `EraseLoop` runs the loop one iteration at a
time over every list of up to eight elements and every choice of old ones.

### Radio, FloodIGROUP, FloodIREPLY, Broadcast

`Radio` has what the four flood functions share: the square a node covers (cut at
0), the order of the receivers, the records of relayed messages and `isReTx`.
The floods model one iteration of the code's loops per action: handing to a
receiver, the body of the loop over relays, the recursive call. `forgot`, a
history variable, is TRUE once a sweep has emptied the records of a relay, the case in
which `isReTx` of the relay before is used. `Broadcast` is what `GKAInstance`
relies on, and `IsBroadcast` says that the flood of an IGROUP implements it.

### GKASimul and ProtocolTest

`GKASimul` extends `GKAInstance` and instantiates the two floods, with the messages
of the protocol as theirs and `heard` as `handed`. An action is one step of a flood
together with the call it makes: `HandIGROUP` is `HandDirect` or `HandRelayed` of
`FloodIGROUP` with `processIGROUP` of the receiver, and with `evIREPLY` when the
receiver replies; `HandIREPLY` the same with `processIREPLY`; `SkipIGROUP` is a
receiver that `processed` leaves out. While an IREPLY is in flight only its flood
moves, then the IGROUP's goes on. Every node has a place; `MoveNode` is the movement of scenario 3
and of scenarios that do not move. Scenarios that draw random steps are in `Movement`.
`oneHop`, a history variable, is TRUE while no message has ever needed a relay.

`ProtocolTest` joins each of these actions with what the program counts during it,
and ends with `GKAFinish`, the report. Its tables have a fixed size (100, gka-protocol.h:37-44) and no
index is checked; `TableSize` is a constant, and `TableAssumption`, that it is enough for the nodes, is what
the report is modelled under: of more nodes it would write and read outside of the tables.

### Places and Movement

`Places` has the placement of `GKAInit` and the steps of `nodeMovementUpdate` as
operators on the numbers `rand()` gives. `Movement` has the events: every update schedules
the next update and a movement. `rand()` is seeded with the time of day before every draw,
so all the nodes that move within the same second draw the same `dice`; `Tick` is the next
second. `GKAInit` reads the clock and seeds `rand()` once before a node's sector (gka-simul-base.cc:118) and
once before its place (122): `first` and `second` are equal unless the second ends between them, which
`ticked`, a history variable, remembers. With more than four groups a node may be in a sector no branch of `GKAInit` places,
and has whatever coordinates its memory held (`Uninitialised`).

### EventQueue and Scheduler

`EventQueue` is what `IScheduler` promises: a set of waiting events, and one with
the least time is run next. `Scheduler` is the table: the first free slot is
used, the slot of a running event is in use until its handler has returned, and
handlers may add events meanwhile. The table is uninitialised at first.
`runUntilNoEvent`, which `main` calls, is `runUntil` of the greatest time.
The refinement takes the waiting slots for the queue.

### GkaECCrypto, ECDSA, CryptoTest, Tagdh

`GkaECCrypto` has the operations of `gka-crypto.h` with numbers: an element is its
multiple of the generator, and factors are numbers modulo the order of the curve
(a field, `FieldAssumption`). `BN_mod_inverse` of 0 fails; the code does not look, and
its result is the 0 of a new number. `CryptoTest` and `Tagdh` have an action for every paragraph
of the two programs. `TryArbitrary` is `EC_POINT_hex2point` of a string that is too short for the curve:
it fails unnoticed, and the element compared is the one read before. `ECDSA` is OpenSSL as they use it: `generateKey` gives everybody the one
pair of keys the manager has. `SymbolsAreRight` relates the two views of the operations: what
`GKACrypto` says symbolically, and the protocol uses, has the value `GkaECCrypto` computes.

## 4. Runs

| run | question | distinct states |
|---|---|---|
| `GKALossyThree` | three nodes, lost messages, members that renew their secret for no reason: sessions, silent members leave, at most one update late for each member behind them | 435,049 |
| `GKAReseeding` | two nodes, lost and repeated messages, undefined `sessionId`, movement that reseeds `rand()`: types and structure of the groups | 626,914 |
| `ProtocolTest` | the whole program on three nodes, in range of each other, in a chain, or in two groups that merge at half time: keys, one group in the end, the report, termination | 174,378 |
| `Movement` | two nodes, eight configurations, places at the borders of the sectors, with and without a tick between the draws, longest and shortest steps | 926,930 |
| `Standalone` | what runs without the rest: `crypto-test` and `tagdh` with every choice of secrets modulo 7; the sweep of every list of up to 8 elements | 27,839 |
| `FloodIGROUP` | four nodes, three layouts, two floods: relays and broadcast | 173,897 |
| `FloodIREPLY` | the same for replies from either end | 54,326 |
| `Scheduler` | three slots, five events, three times: queue, order, growth | 12,832 |
| `GKASecretRenewal` | violated: `KeyAgreement` when members renew secrets | |
| `GKASessionRepeats` | violated: `LeaderSessionsDistinct` when `rand()` is reseeded | |
| `GKAUnserved` | violated: `Converges` in a triangle with a tail | 62,640 |
| `TagdhArbitrary` | violated: `ArbitraryDiffers`, which `tagdh` prints beside its last comparison | |

All of them have deadlock checking off: the program and a finished flood, queue or
loop really stop.

### Bounds and why they are enough

* Times are those of the code (period 5, expiry 20) in the runs of the whole program and
  of the floods. In those over the abstract network expiry comes after 10, or 5 for the leader in
  `GKALossyThree`, so that backoff, merging, expiry and a member that leaves its silent
  leader (`DetachFromLeader`) all happen before `simulationTime`. Only comparisons of times matter.
* `simulationTime` is 100 in `ProtocolTest`: twenty periods, enough for an election,
  a merger at 50 and the 20 of silence after it, and for the leader to renew
  its secret, `SECRET_EXPIRE_TIME` being 15, while it has members.
* `ProtocolTest` starts its nodes at the times 0, 2 and 4 in any order, all different, as the random
  times of `main` are in general; equal times are in the other runs.
* `TableSize` is the number of nodes: the tables are full to their last row and column.
* Backoffs are 1 and 2 periods: equal backoffs make two
  leaders, different ones make a leader and a member.
* Two nodes can be two leaders, a leader that joins the other, and a member that
  outlives its leader. Three add a member that follows a leader that has left, adjacent
  expired members, a relay between two nodes, and a group of two that meets a third node.
* `MaxRng` bounds the position in `rand()` in the runs over the abstract network; it cuts
  behaviours after five or more sessions. The whole program is not cut.
* The floods' layouts are a chain of three hops, a triangle with a tail (the case
  `processed` goes wrong in), and one with a node at a negative coordinate, out of
  everybody's range but with others in its own. Gaps of 5 and 25 put records before
  and after their expiry. `Times` bounds the clock of the floods and `Numbers` the messages sent.
* `MCDraws` has both parities, the least and the greatest coordinates of a sector, and
  numbers that leave sector 5 of 5 unplaced, in any combination for sector and place; `MCDice` steps of 10 and less in two directions;
  `MCUninitialised` a place far outside and one within the band around the centre.
* An order of 7 has every kind of secret: 0, 1, a number that is its own
  inverse, and others.
* Five events for three slots make the table overflow, be reused and be reused by a
  running handler.

### Mutants

Operators named `X_Something`, with a comment that begins with "Slip:", are forms of
`X` with a plausible mistake. They are not used by the specifications; for every
property a run checks, `PROJECT.json` names the one that violates it.

## 5. Fairness

The program is one thread that runs events until there are none: the next step
of the program is always taken. `MainFairSpec` is weak fairness of `MainNext`, and
`FairSpec` of `Movement` weak fairness of the events, not of the `Tick` of the clock on the wall.
`Scheduler` has weak fairness of its loop and its handlers but not of the
client, the floods of their own loops but not of what comes between two floods.
`GKAInstance` has none, because nothing in the code limits losses and a node that never hears its
leader becomes one: liveness is stated of the composition, where the floods say what is lost.

## 6. Proofs

All with TLAPS, for every value of the constants that satisfies the assumptions
named in the modules. `NodeAssumption`, `TimeAssumption`, `ChoiceAssumption`, `LengthAssumption`,
`ConfigAssumption`, `SetupAssumption` and `SchedulerAssumption` give constants their types, and the floods
finitely many nodes; `ConfigAssumption` also has the coverage of 300 of the code, since
the sectors are tied to it; `QueueAssumption` says that the simulation has finitely many nodes, as many as
`nodeQueue` has places, and that no message is the value that stands for none; `TableAssumption` that nodes are
numbered from 0 and the tables of the report have room for them;
`FieldAssumption` says that scalars are a field. Three results have hypotheses of their own: the number
of nodes is finite (`SilentMembersLeaveHolds`), `rand()` is not reseeded (the sessions), and those of
`KeyAgreementOneHopHolds`, listed below.

### The protocol

`GKAInstanceProofs` begins with `TypeOK`: one lemma per action; those about
sweeps use `SweptIsSubsequence`.

It then proves four inductive invariants.

* `GroupInv`, for lost and repeated messages and a reseeded `rand()`.
  `MembershipAcyclic` is not inductive alone: a node that becomes a member of
  the IGROUP's sender closes a ring if the sender is by then a member itself. `LeaderSends`
  rules that out: the sender of the IGROUP in flight is still a leader. So a set of
  members with the new one contains either a node that followed outside it before, or the new one, whose
  leader is not a member. `GroupIsASet` needs `OthersReply`, and that erasing
  keeps lists without repetitions. `SilenceBeforeLeadership` needs
  `BackoffAfterSilence`: a node that is detached with a backoff has been silent since,
  although the flag is not cleared when a node joins a leader.
* `SilenceBounded`, for `SilentMembersLeave`. The erasing loop skips the element after an erased one, so that
  no fixed delay bounds how long a silent member stays: it is the position that counts. An expired element that is
  spared moves up, since the element before it has gone (`SweptMovesUp`), so that nothing at the last position a list can
  have has been spared. So `Grace`, how long the element at a position may have been silent, shrinks by a period with every
  position (`GraceGrows`), and a list has no more positions than there are other nodes, because it names
  them once. A leader's next update is at most a period away, which carries the bound from one update to the next.
* `SessionInv`, when `rand()` is not reseeded. Sessions are positions below `rng`
  (`SessionsDrawn`), so that a new one differs from all there are; and nobody is
  in a session that is only announced (`SessionsAhead`), so that a leader that moves
  on to it finds no member there with an older nonce. `LeaderSessionsDistinct` and
  `SessionAgreement` follow. `GKASessionRepeats` shows that the condition is needed.
* `KeyInv`, for every network: unless its group is about to change (`compGroupChange`), a leader's key is the one made of the
  responses in its list, each made with its secret; and so are those in an IGROUP in flight. It needs
  `GroupIsASet`: a leader lists nobody twice, so that an IREPLY of a member it has already, with the contribution
  it has, changes no response. `IGROUPCarriesKey` is the theorem; `ComputesLeadersKey` draws the conclusion that a node listed in the IGROUP with what its
  secret contributes, and that has another secret than the leader, computes the leader's key.

### Lists, numbers and finite sets

`SweepProofs` has the lemmas the other proofs share.

* Of lists of any length: a sweep leaves a subsequence
  (`SweptIsSubsequence`), the last element stays when it is not old (`LastIsKept`),
  what is true of every element, or only of the last, stays so (`SweptKeeps`,
  `SweptOnlyLast`), after an element that is kept the next old one is erased (`ErasedAfterKept`), and what is old
  and stays moves up (`SweptMovesUp`).
* Induction and recursion on the natural numbers, which the prover has no schema for, come from least elements
  of sets of numbers: `InductionOnNat`, that iterating a function defines one (`IteratesExist`), and that a set
  that grows within a finite one stops growing (`GrowthEnds`). They stand for the inductions over hops.
* The same for finite sets: `InductionOnSubsets`, that folding functions over a set defines a value
  (`FoldsExist`), in any order when they commute (`FoldsInAnyOrder`), and sums of counters (`SumOfSums`, `SumOfCounts`).

### The floods

`FloodIGROUPProofs` proves the types, `RelaysOnce`, who is reached, and that every step of the flood is one of
`Broadcast`, for any number of nodes, layouts, and times.

* `RelaysOnce` is not inductive: a relay compares the last record it has only,
  and sweeps its records first. `RecordInv` says why that is enough: numbers are drawn from one counter that is
  beyond every record (`NumbersDrawn`), and a record of the message in flight is the last
  of its node, and of this instant (`SentIsLast`), because floods do not interleave and the
  clock stands still. So a sweep keeps it, by `LastIsKept`.
* `BroadcastSafety` needs a bound on copies that the code keeps nowhere. `CopiesBounded` counts: the copies a node has
  got, and the one it waits for in the inner loop, are no more than the other nodes that have sent so far.
  A new sender adds one for every node in range; by `RelaysOnce` nobody is a new sender twice.
* `EverybodyRelays` is about the end of a flood, and `ReachInv` says it of every step: a node in range of one that has
  sent the message has sent it or has its turn to come (`NoneIsLost`), unless a relay's records were swept away
  (`forgot`). When no turn is left, those who have sent are closed under being in range, and so contain
  everything the recursion over hops reaches (`GrowthStaysWithin`).
* `ChainsAreServed` needs to know that `processed` stays FALSE. In a network without odd cycles the nodes
  split into those an even and an odd number of hops away; for every such split `ChainInv` says that a round finds only nodes of the other side,
  so that it never meets one of its own relays.
* `OneHopIsServed`: where nobody is needed as a relay every active node in range is handed the message once, by the loop of
  `evIGROUP` itself. Everybody in range then relays, and is passed over by every other relay because of `processed`, which
  `ServedInv` says of each round.

`FloodIREPLYProofs` proves the types and `RelaysOnce` with the same invariant, the node
that replies being in the leader's place, and `LeaderSilent`: the leader is in no list of relays. Its `ReachInv` has
`NoneIsLost` and, for the converse in `LeaderIsReached`, `OnlyConnected`: whoever is reached is in every set the reply cannot leave.
`InRangeIsServed` says that a leader in range is handed the reply in the first loop, whatever is swept later.

### The composition and the report

`GKASimulProofs` proves that every action of `GKASimul` is an action of `GKAInstance`, or leaves its variables as they are
(`SimulationRunsProtocol`), and is at the same time one of each flood, or a stutter (`SimulationRunsFloods`), the
floods being instantiated with the messages of the protocol as theirs. So what is proved of the parts holds of the whole: the
groups, the silence before leadership, silent members, the sessions when nothing reseeds `rand()`, and, by instantiating the
proofs of the floods, who relays and who is reached (`SimulationFloods`), and who is served in range (`SimulationServesInRange`). `SimTypes`,
the types of all three, is the invariant these steps need.

`KeyAgreementOneHopHolds` is what the program is for: where no message needs a relay every member its leader lists, in
the leader's session, has the leader's key at every moment, for any number of nodes and any number of groups, while groups form,
merge and break up. `ProgramAgrees` says it of `main`. Its hypotheses are

* places: coordinates that are not negative, and no scenario that moves nodes. (`InRange`, like the code, cuts the area off
  at 0; below 0 being in range would not be mutual.)
* times: `LEADER_LAST_TIME >= PERIOD_INTERVAL` and `IREPLY_EXPIRE_TIME > 2 * PERIOD_INTERVAL`; the code has 20, 20 and 5
  (gka-protocol.h:31-33). With an `IREPLY_EXPIRE_TIME` of one period TLC finds a merger in which a member is dropped;
* `TRUE \notin LastSecretExpired`: the uninitialised variable does not make members renew their secrets. `GKASecretRenewal`
  shows that keys differ when it does;
* `Apart`: no two nodes ever update at the same time. Their first updates are at random times between 0 and 10
  (gka-protocol.cc:160), in double precision, and the later ones whole periods after that. The clock of the model counts in whole numbers,
  but no bound is put on the constants, so that a unit can be as small as one likes.

Where one hop is enough for everybody, being in range of each other splits the nodes into neighbourhoods. The invariant is
`Agree(H)`, for a set `H` of leaders that is not a variable of the program: one in each neighbourhood that has a leader, the one that was there first.

* Whoever hears one of `H` is in one of three situations (`InGroupOf`). `Fresh`: it has not asked, and hears the leader before its own
  backoff is over. `Asked`: its request is with the leader, or in the IREPLY in flight, with the secret and nonce it has kept, so that
  the next IGROUP lists it. `Confirmed`: it is a member, the leader lists its contribution and last nonce, or they are
  in the IREPLY in flight; and it has the leader's session and key, unless it is yet to be handed the IGROUP with which the
  leader moves on, which it has been announced.
* So there are leaders outside `H`: nodes whose backoff ends between their request and the next IGROUP of their leader, one period at most.
  They have no members, since `Sent` says that their IGROUP is empty, and everybody who hears it is in a group or asks them in vain; and
  they become members when they hear their leader, before their own next update (`HeadsFirst`). That is why updates have to be apart, and
  why leaders preferred by identifier (`Prefers`) do not matter here.
* `HeardSince` carries the expiry: a listed node was heard at the leader's last update or the one before, so a leader that
  sweeps its list finds nobody too old (`LeaderKeepsList`), and `LEADER_LAST_TIME` does not run out between two IGROUPs.
* `NumbersPreserved` says that nonces, sessions and secrets in use have been drawn before, so that new ones differ from them; by
  `KeyInv` a confirmed node computes the leader's key from the IGROUP.

There is one lemma for each kind of step (`StepKinds`), from `ElsewhereAgrees` to `HandAgrees`. `LeaderSendsAgrees` is the only one that may
change `H`: a node whose backoff ends where nobody leads joins it. A leader of `H` never gives way: it may ask a
leader of its neighbourhood with a smaller identifier for membership (`OtherIsAsked`), but that one is its member before it could list it.

`ProgramSimulates` says the same of `main`. `AveragesDefined` follows from `SignedInv`: a message in flight, or a verified reply, is that of a leader
that has counted a signature, and who verifies an IGROUP counts one of its own. `EveryKeyReported` follows from `CountedInv`: every key counted is that of a list
shorter than the report has columns, since `GroupIsASet` lets a list name every other node once; the columns are in the tables by
`TableAssumption`, and the sums over nodes and over columns are equal by `SumOfSums`. Of the other divisions of the report, those at
gka-simul-base.cc:331 and 414 may be by a counter that is 0: they are of doubles, and the result is replaced in the next line.

### Movement, scheduler

`MovementProofs` proves the types, and all the safety properties, from `PlaceInv`:
groups that merge are not moved until half time (`PlacesApart`), a single group is placed in the
first sector (`FirstSector`), and `EventsNear` bounds how far ahead movements are scheduled.
`GroupsApart` comes from numbers: without a tick the sector is drawn from the same number as `locX`. An even number gives
the first sector and a `locX` of at most 299, an odd one the second and at least 601. With a tick between the two draws
the borders, 300 and 600, are possible as well (`OnSide`), which are as far apart as a message gets; so the property excepts pairs of
nodes that both had one (`OffBorder` is enough of one of them).

`SchedulerProofs` proves the types, that time does not go back (`NoTimeTravel`, the
assertion at scheduler-core.cc:73), that the table does not grow beyond
the greatest number of events at once (`HighWater`), and that the table implements
`EventQueue` (initial states map to initial states; adding maps to `Add`, starting a
handler to `Run`, everything else stutters). `EventsInUse` is the strengthening:
events in use are different events. `LeastExists` says that a nonempty set of
slots has a least one by time and slot, from the well-foundedness of the natural numbers.

### What stands alone

`StandaloneProofs` proves of lists of any length that the erasing loop leaves what `Swept` says (`LeavesSwept`), and at least
half of what is old goes (`ErasesHalf`). `EraseInv` says where the loop is in the list it began with (`Position`), that
what comes before has been erased as `ErasedAt` says, and that what comes after is untouched. For `ErasesHalf` every spared
element is counted against the erased one before it (`CountedOneToOne`).

Of the group operations it proves, for every field, that a member computes its leader's key in groups of any size
(`MemberKeyIsLeaderKey`), when its secret has an inverse, and from it `KeysAgree`, `EveryKeyVerifies`
and `AsPrinted`.

`SymbolicKeysAreRight` is what the protocol's model rests on: for any elements in a leader's message, and any values but 0 of the
secrets, the key `GKACrypto` says symbolically has the value that `GkaECCrypto` computes, for the leader and
for a member, whether or not the member undoes a secret its reply holds. The value of an element is a product over the set
of secrets it names, and that of a key a sum over a set of elements, each as often as it occurs; both are recursive functions
of sets, which are folds (`ValueIsProduct`, `KeyIsSum`). Since factors and terms commute, the order does not
matter: undoing a secret takes one factor off (`UnblindingIsRight`), and summing the bag of replies is adding them in the
order of the list (`AddAllIsSum`). `SymbolsAreRight` is the case of `crypto-test`.

## 7. What is only model-checked

* Liveness: `Converges`, `Terminates`, `Merges`, `RunReturns`, `FloodEnds`, and that a broadcast
  ends, which is the liveness part of `IsBroadcast`.
* `KeyAgreementOneHop` in two cases the theorem leaves out: two groups that move towards each other
  (scenario 3), as long as no message has needed a relay, and nodes that update at the same time. The run `ProtocolTest` has both.

`KeyAgreement` is claimed while no message has needed a relay. A node that is handed the same
IGROUP by two relays asks twice for membership, and Algorithm 8 may then take the secret of the
wrong request; in a chain its key differs from the leader's for a while, until the next
key is made. So `Converges`, which speaks of the end, holds there too.

`ChainsAreServed` is stated for networks without odd cycles: in a triangle
`processed` leaves nodes unserved which only relay the message (`GKAUnserved`).

`Converges` and `Terminates` of the whole program are checked without movement that reseeds `rand()`, and
with members that do not renew their secret: the first two violations below are about those.

## 8. What is not modelled

* A report of more nodes than its tables have room for (100), which writes and reads outside of them.
* The NS2 build (`NS2_WITH_NS2`): its header is not in the repository, and the simulator's own
  radio replaces the floods.
* `util-general.h`: stream and debugging helpers. `Fatal`, which ends the program when the
  table is full, is in `Scheduler`.
* Argument parsing: configurations are constants. Times measured, which the report averages; what is
  counted is modelled. The layout of the report and of messages, the curve, and the
  text form of its elements.
* The result of `verify` in the protocol is not used by the code: every message counts as it comes.
* Scenarios 1 and 2 together with the protocol: their coordinates have too many values for the
  composition. `Movement` has them alone; `GKAInstance` has any loss and any reseeding they
  can cause.
* In scenario 1 no property keeps nodes within "the boundary level" (comment at
  gka-protocol.cc:221), since nothing in the code does; and in scenario 2 nodes of one sector
  may get out of each other's range on their way, so that `Merges` is stated of scenario 3.
* `runUntil` leaves the clock at the last event, not at the time asked for as api-scheduler.h:62-63
  has it; nothing in the program reads the clock then.

## 9. What the violations show

1. `GKASecretRenewal`: at gka-protocol.cc:691 a member decides by an uninitialised
   variable to renew its secret, and keeps the contribution of the old one. It then
   computes keys its leader does not have, with all nodes in range and nothing lost.
2. `GKASessionRepeats`: `srand(time(0))` in `nodeMovementUpdate` makes two leaders draw
   the same "new random number" (comment at line 337).
3. `GKAUnserved`: `processed` (gka-simul-base.cc:207) is never reset, so that in a triangle with a tail
   the node at the end relays every IGROUP but is never handed one; it stays a leader of its own.
4. `TagdhArbitrary`: the string at tagdh.c:296 has 21 bytes, a compressed point of the curve 22.
   `EC_POINT_hex2point` fails, its result is not looked at, and the program compares an element with itself
   where its text says "should be !=0" (304). `AsPrinted` has the other comparisons, and that this one gives 0.
