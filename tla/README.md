# EnsembleChat: TLA+ models and proofs

EnsembleChat is a chat system whose coordinator cluster runs three algorithms
side by side: a token ring for mutual exclusion, a Raft-style leader election
and a Raft-style replicated log (the routing table of rooms and chat servers).
Chat servers relay messages to each other and clients poll them. This directory
holds TLA+ models of that code, the TLC configurations that check them on small
instances, and TLAPS proofs of the main results for instances of any size. All
paths below are relative to the repository.

## 1. The system

| Part | Code | State | Operations |
|---|---|---|---|
| Token ring lock | `internal/lock/lock.go` | `hasToken`, `seqNum`, `inCS`, `csHolder`, `waitQueue`, `TokenCh` | request, release, token receipt, idle pass, stop |
| Leader election | `internal/election/election.go` | `CurrentTerm`, `VotedFor`, `State`, `voteCount`, `LeaderID`, three channels | timeout, vote request, vote response, heartbeat |
| Raft log | `internal/consensus/consensus.go` | `log`, `commitIndex`, `lastApplied`, `nextIndex`, `matchIndex`, `isLeader`, `currentTerm` | propose, append entries, response, commit, apply |
| Coordinator node | `internal/coordinator/coordinator.go` | `alive`, the three parts above, `rpcClients` | wiring (RPC or in-process), kill, lock, propose |
| Transport | `internal/transport/transport.go` | reachability flag | fire-and-forget calls |
| Chat server | `internal/chatserver/chatserver.go` | `Rooms`, each room's `messages`, connected clients | create, join, send, relay, get messages |
| Chat client | `internal/client/client.go` | `rpcClient` (the connection), `lastSeen` | connect, join, send, poll, disconnect |
| Command lines, demos, scripts | `cmd/`, `demo/`, `scripts/` | none of their own | drive the parts above |

How they interact. A coordinator node owns one `ElectionNode`, one
`TokenRingManager` and one `RaftLog`. Each of the first two has a loop goroutine
that takes messages from channels and ticks from a timer; every message is sent
by a goroutine of its own, so that messages overtake one another. The election
tells the Raft log who leads through callbacks, also run as goroutines
(`OnBecomeLeader`, `OnBecomeFollower`). The lock is used by callers in
goroutines of their own (the demos) or by the terminal (`cmd/coordinator`). With
the RPC wiring each message is one dial and one call, and a failed one is lost.
Chat servers know nothing of the coordinators. A server that stores a message
it was sent calls `OnMessageReceived`; `demo/demo_cross_server_chat` makes that
callback one goroutine for each other server, which calls `RelayMessage` there.
A client asks its server for what follows its cursor `lastSeen`.

What is hard in it:

* concurrency: ticks, arriving tokens, requests and releases race for one
  manager; callbacks of the election overtake each other;
* loss: nothing is retried - neither a token, nor a vote, nor a relayed message;
* cursors: a poll reads a room's messages and then their number, under two
  locks, and a client keeps its cursor when it connects to another server;
* crash and restart: nothing is persisted, and the lowest ID makes a token each
  time it starts;
* time: idle passes, election timeouts, a proposal that times out while its
  entry is still under way.

`PROJECT.json` lists each of these hazards at its line with the properties that
cover it, or with the reason why none does.

What makes each part correct:

* lock: one token, one caller in the critical section, no request left next to
  an idle token, the queue first come first served, a waiting caller served;
* election: one vote per node and term, one leader per term, whoever speaks as
  leader was elected, a leader deposed by a higher term only;
* Raft log: log matching, leader completeness, state machine safety, an entry
  reported committed is never lost;
* coordinator: election and Raft log do not disturb each other, and the log has
  no term that nobody was elected in;
* chat: each server stores a message once or a call that carried it has failed;
  a session is shown its server's messages in their order and skips none but
  those that race its own poll; an answer is stored after what it answers.

## 2. The modules

| Module | Models | Status |
|---|---|---|
| `Mutex` | the abstract lock: what `AcquireLock` and `ReleaseLock` promise | done |
| `DeployedMutex` | extends `Mutex`: callers at terminals, which end with them | done |
| `TokenRing` | `lock.go` and the in-process wiring and `Kill` of `coordinator.go` | done |
| `TokenRingRPC` | extends `TokenRing`: one process per node, launches, exits, lost calls | done |
| `TokenRing_proofs` | theorems about `TokenRing`, among them that it refines `Mutex` | done |
| `Election` | `election.go` at every node, and relaunched processes | done |
| `Election_proofs` | theorems about `Election` | done |
| `Leadership` | the abstract election: what the Raft log is told of it | done |
| `RaftLog` | `consensus.go` at every node, over `Leadership` | done |
| `RaftLog_proofs` | types and places in the log, whoever leads | done |
| `Journal` | the abstract log: what callers of `ProposeEntry` and readers of the routing tables see | done |
| `OneLeader_proofs` | extends `RaftLog_proofs`: what holds while one node wins all elections | done |
| `OneHistory_proofs` | extends `OneLeader_proofs`: `RaftLog` refines `Journal` while one node wins | done |
| `Coordinators` | `Election` and `RaftLog` joined as `NewCoordinatorNode` and `ProposeChange` join them | done |
| `Coordinators_proofs` | each behaves there as alone, so that all theorems about it hold | done |
| `TokenRingRPC_proofs` | theorems about `TokenRingRPC`, over those about `TokenRing` | done |
| `Feed` | the abstract chat: what a server promises its readers | done |
| `Chat` | `chatserver.go` and `client.go`, and the relay between servers | done |
| `Chat_proofs` | theorems about `Chat`, among them that it implements `Feed` | done |
| `MCTokenRing`, `MCTokenRingRPC`, `MCElection`, `MCRaftLog`, `MCCoordinators`, `MCChat` | symmetry sets for TLC | done |

How they are composed. `TokenRingRPC` extends `TokenRing`. `RaftLog` extends
`Leadership`, and `Election` implements it: the Raft log sees of the election
only the callbacks, so that whatever holds of the Raft log over `Leadership`
holds of it over the election, without the product of the two state spaces.
`Coordinators` is that product: it extends `Election`, instantiates `RaftLog`
with the election's own history of victories and callbacks, and adds only what
joins them.
`Chat` implements `Feed`. The lock, the log and the chat meet nowhere else in the
code: `ProposeChange` does not ask for the lock, and no chat server reads the
routing table.

### TokenRing

A node is its position in `ringOrder`. `hasToken`, `seqNum`, `inCS`,
`csHolder`, `waitQueue` and `TokenCh` are the fields of that name, one per node.
`passing[n]` holds the goroutines started by `passTokenLocked` that have not
delivered their tokens yet, in any order: each has the token's number and knows
whether it has `found` the successor alive. `alive`, `stopClosed` and `running`
are the three stages of a killed node: `Kill` clears `alive`, then closes
`stopCh`, and the loop returns some time after that - until then its `select`
may still take a token or a tick. `phase` and `at` describe the callers of
`AcquireLock` and `ReleaseLock`; they are what the properties are about.

| Action | Code |
|---|---|
| `GrantAtOnce`, `Enqueue` | `RequestAccess`: early return, or append and block |
| `Return` | the blocked caller reads its `responseCh` |
| `ReleaseToNext`, `ReleaseAndPass` | `ReleaseAccess`: next local caller, or pass the token |
| `handleTokenReceive`, `idlePass`, `LoopExit` | the three cases of `run` |
| `AskAlive`, `DropToken`, `DeliverToken` | the in-process `OnPassToken`: it finds the successor alive, or dead, and sends on its `TokenCh` |
| `Kill`, `Stop` | `CoordinatorNode.Kill` |

One mutex section is one action. `OnPassToken` is two: between its question and
its send the successor may be killed and its loop return, and the token then
lies in the channel of a node that nobody serves. A refused release changes nothing and is a
stutter. A caller may release at any node, also one it does not hold. Requester
names are taken to be distinct. Resource names are left out because the manager
never compares them: there is one lock whatever the resource. `seqNum` wraps at
`IntSpan`, the number of values of an `int`.

`TokenRingRPC` keeps the actions of `TokenRing` and replaces what is around
them: `Launch` (a process starts from `NewTokenRingManager`), `Exit` (Ctrl-C,
`quit` or a crash: the manager, its goroutines and the callers at its terminal
are gone), `SendToken` and `LoseToken` (`callAsync`). A node is not its own
peer, so that in a ring of one the first idle pass loses the token (`Dials`).

### Election

`CurrentTerm`, `VotedFor`, `State`, `voteCount` and `LeaderID` are the fields of
that name. Each handler runs in the node's loop and is one action with all it
changes. Vote requests and responses are sets of messages sent and not yet
handled: any order, and loss as a message that is never handled. Each is
handled at most once, because the transport never repeats a call. A heartbeat
stays in flight once sent: the leader sends the same one on every tick, and a
second copy does what the first did. `callbacks` collects the calls of
`OnBecomeLeader` and `OnBecomeFollower`. `ballots`, `tally` and `elected` are
history that no step reads. Timers are left out: a node that is not leader may
time out at any moment, which includes every schedule of the real timeouts.

`Relaunch` replaces a node's state by that of `NewElectionNode`; it is part of
`RelaunchSpec` only.

### Leadership

`won` is the set of victories and `calls` the set of callback calls made so far.
`Win` is `becomeLeader`, `Hear` is the end of `handleHeartbeat`. `Election`
implements it with `won` read from its history of winners and `calls` from
`callbacks` (`ImplementsLeadership`). The abstract election promises no more
than the code keeps: nothing about the log of a winner, about when a node hears
of it, or about the order of the calls.

### RaftLog

`isLeader`, `currentTerm`, `log`, `commitIndex`, `nextIndex`, `matchIndex` are the
fields of that name; indices are one higher than in the code. `applied[n]` is
the routing table, as the sequence of entries applied to it; `lastApplied` is
its length. `requests` and `responses` are bags of messages sent and not yet
handled: any order, and loss as a message that is never handled. `ran` is the
set of callbacks that have run: each runs once, at any time after it was made.
`phase`, `at` and `target` describe the callers of `ProposeEntry`; `Proposal` is
the set of calls, each made at most once.

| Action | Code |
|---|---|
| `Callback` (`BecomeLeader`, `BecomeFollower`) | the goroutines of `NewCoordinatorNode` |
| `AppendEntry` | `ProposeEntry`, its first mutex section |
| `sendAppendEntriesToAll` | the first and the last round of `ProposeEntry` |
| `handleAppendEntriesResponse` (`StepDown`, `Replicated`, `Retry`) | the function of that name, called by a waiting caller |
| `Committed`, `Panic`, `NotYet` | `waitForMajority`, the section after it |
| `Timeout` | its `deadline` and `stopCh` cases |
| `HandleAppendEntries` (`RejectStale`, `RejectShort`, `RejectMismatch`, `Accept`) | the function of that name |

Between two mutex sections of `ProposeEntry` and `waitForMajority` anything may
happen, so each is an action of its own. `applyCommitted` reads `r.log` at
`lastApplied`, which another leader may have truncated: `Panic` is that read
beyond the end, after which the process takes no more steps.
`ProposeChange` asks `Election.IsLeader` first; that step is in `Coordinators`.

`OneHistory` is the view of it as a `Journal`: the history is what the winner of
the elections has committed (`History`), the tables are what each node has
applied (`Tables`), and a call is pending, true or false (`Outcome`).

### Coordinators

All variables of `Election`, all of `RaftLog`, and `asked`: the node that has
answered a caller of `ProposeChange` with true. A step is one of a node's
election loop (`ElectionLoop`), one of its Raft log (`LogSteps`, which appends
only for callers that have asked there), `AskIsLeader`, or `Refuse`: between the
two calls of `ProposeChange` no lock is held, so the log may find that it does
not lead, any more or yet. A node whose log has panicked takes no more steps of
either kind. In `Log`, the instance of `RaftLog`, `won` and `calls` are not
variables but read off the election's `elected` and `callbacks`.

### Feed and Chat

`Feed` has one growing sequence of messages per server (`feed`) and, for each
client, the server it reads at, how far it has been answered and what it has
been shown. Its steps are `Publish`, `Turn` (a session begins or ends) and
`Poll`. It says nothing of calls, relays or cursors.

`Chat` is one room: rooms share no state. `hasRoom` and `messages` are the
servers' `Rooms` and the room's `messages`; `conn` and `lastSeen` are fields of
the client. A message is a sender and a content, sent once. `creating`, `sends`
and `relays` are the goroutines that may outlive the call or the connection they
serve; `joining`, `sending`, `reading` and `result` say which call a client is
in and, for a poll, what its first read returned. The other variables are
history: where a message was sent, which calls failed, what a session was
shown, what was stored between the two reads of a poll, and which messages
somebody had seen before writing which others.

| Action | Code |
|---|---|
| `ConnectToServer`, `Disconnect` | the functions of those names; `Disconnect` is also a connection that breaks |
| `JoinRoom`, `JoinMissingRoom`, `JoinCreatedRoom` | `JoinRoomRPC` and `ChatServer.JoinRoom`: the room is found; it is not; the rest of the call, after `CreateRoom` |
| `SendMessageRPC` | the client's call leaves |
| `SendMessage`, `RefuseMessage` | `ChatServer.SendMessage` with and without the room, with `AddMessage`, `OnMessageReceived` and the reply |
| `LoseMessage` | a call whose connection broke before the server read it |
| `RelayMessage`, `LoseRelay` | the relay goroutine: stored; or its dial, its call or the room fails it |
| `GetMessages`, `MessageCount`, `PollNoRoom` | `PollMessages` and the service's `GetMessages`: its two reads, or its early return |

A client makes one call at a time, as every caller in the repository does. A
connection may break at any moment; the call under way then returns an error
while the server handles it all the same. `SendMessageRPC` reads no `reply.OK`,
so that the sender does not learn of a refusal (`SendReply`). Members of a room
and connected clients are recorded by the code and read by none of it, and are
left out. A server whose listener is closed is one that every dial fails to
reach. `FeedOfServers` maps a client whose cursor counts the messages of the
server it is connected to (`inSession`) to a session of `Feed`, and any other
client to one that reads nowhere.

## 3. The runs

| Run | Bounds | Shows |
|---|---|---|
| `token_ring` | 3 nodes, 3 callers, 2 kills, `IntSpan` 6 | safety of the in-process lock; `TokenRing` implements `Mutex` |
| `token_ring_live` | 2 nodes, 3 callers, either or both nodes killed | waiting callers are served, unless kills have stranded the token |
| `token_ring_starve` | 2 nodes, 3 callers, no kills | starvation (violation) |
| `token_ring_rpc` | 3 processes, 2 callers, any may end, the two higher IDs may come back, any dial may fail | the lock stays safe over RPC; `TokenRingRPC` implements `DeployedMutex` |
| `token_ring_startup` | 3 processes, none ends, no dial to a process that is up fails | the token is lost at startup (violation) |
| `token_ring_relaunch` | 2 processes, the lowest ID's may come back | two tokens (violation) |
| `election` | 3 nodes, 2 terms | election safety and what it rests on; `Election` implements `Leadership` |
| `election_relaunch` | 3 nodes, 1 term, any process may be relaunched | two leaders in a term (violation) |
| `raft_log` | 3 nodes, 1 term, 2 proposals | commitment and application under one leader; `RaftLog` implements `Journal` |
| `raft_log_terms` | 2 nodes, 2 terms, 2 proposals | the same through terms; rivals; liveness |
| `coordinators_rival` | 2 nodes, 2 terms, 2 proposals, the election and the log joined | two nodes apply different entries (violation) |
| `chat` | 2 servers, each with or without the room at first, 2 clients, 2 messages | relay, cursors and answers; `Chat` implements `Feed` |

Why the bounds are enough. Three nodes make a ring with a node that is neither
predecessor nor successor, and a cluster in which a majority is neither one nor
all. Three callers let one hold the lock while two wait in one queue or in two.
Two kills leave a ring with one node alive. Six numbers are two laps, so that
`seqNum` wraps. Two terms let a stale vote, response or heartbeat meet a later
election; a third adds no new kind of message to be late. For the Raft log, three nodes make
majorities that differ, so that a response that counts for an entry its
follower has not got would show; two proposals run at the same time, wait for
each other's responses and are resent in one request; and in two nodes with two
terms the victories are either of one node, whose callbacks and rounds of both
terms mix, or of two, which makes conflicts, truncation and the panic.
For the coordinators, two nodes that win their elections one after the other,
with a proposal each, are enough for two logs to conflict.
For the chat, two servers make a message that is relayed and one that arrives
by itself at each end; two clients make a sender and a poll that race, two joins
that create one room, and a client that answers what it was shown; two messages
make an order, and a cursor of one server used at the other when a client moves.
A third server would add relays that are independent of each other, which the
proofs cover.
`MaxKills`, `IntSpan` and `MaxTerm` are the only bounds in the modules; the Raft
log and the chat are finite because the sets `Term`, `Proposal` and `Message`
are. `CHECK_DEADLOCK FALSE` is set
where the system can stop: all nodes killed with their callers blocked, no
process up, every node at `MaxTerm`, or every proposal made and answered. The
chat never stops, since a client may always disconnect and connect, and is
checked for deadlock.

### Properties of the lock

* `MutualExclusion`, over all callers at all nodes.
* `OneToken`: at most one token, counting managers, channels and goroutines.
* `CSOnlyWithToken`: no critical section without the token under it.
* `NoIdleWaiter`: no request waits where the token is idle (no lost wake-up).
* `HolderAgreement`: a node's section is in use exactly while some caller has
  it, and `csHolder` is that caller; a stray release cannot end it.
* `QueueAgreement`: a blocked caller is in one queue, once.
* `TokenKeptUntilKill`: until a node is killed the token is neither lost nor
  stranded, that is, at rest where no loop takes it up (`TokenStranded`).
* `OneLap`: between two visits of the token to a node its number grows by exactly
  one lap, so that no node is skipped or visited twice.
* `NoOvertaking`: callers of one node enter in the order of its queue.
* `ImplementsMutex`: the abstract lock, by a refinement mapping of the callers'
  phases.
* `LocalQueueServed` and `ServedUnlessStranded`: liveness, under `Fairness`. A
  caller queued where the token is gets the lock, even at a killed node. Once
  requests stop every blocked caller gets it, unless the token is stranded:
  `RequestAccess` has no timeout, so that such a caller hangs, and this is the
  only reason for which it does.
* `TokenBornWithLowest` (RPC): tokens are made by the launch of the lowest ID
  and by nothing else.
* `ImplementsDeployedMutex` (RPC): the abstract lock still, except that a process
  that ends takes the callers at its terminal with it, and no others.

### Properties of the election

* `OneVotePerTerm`: although three handlers clear `VotedFor`.
* `EveryVoteCountedOnce`: `voteCount` is the number of distinct voters of the
  present election.
* `ElectionSafety`: one leader per term.
* `AuthorityIsElected`: every node in state Leader, heartbeat, callback and
  `LeaderID` names a node that was elected, in the term it names.
* `DeposedOnlyByHigherTerm`: `handleHeartbeat` also steps down for an equal
  term; that never deposes a leader.
* `ImplementsLeadership`: all the Raft log relies on.

### Properties of the Raft log

`OneLeader` says that all elections so far were won by one node; it may have
won several. While that is so, and however its messages and callbacks overtake
each other:

* `SafeUnderOneLeader`: any two nodes have applied the same entries in the same
  order as far as both have come, and no process panics;
* `CommittedOnMajority`: an entry for which `ProposeEntry` returned true is on a
  majority of the nodes and applied by its leader. This is where a response is
  trusted that reports the whole log of the follower, or that was left in the
  channel by an earlier proposal;
* `NothingLost`: no log loses or changes an entry and no `commitIndex` falls (and
  no routing table loses one, whoever leads);
* `ImplementsJournal`: there is one history of decided proposals that only grows,
  each table is built from a beginning of it, a proposal is in it once, and a
  call that returns true has its proposal in it. Nothing is promised of a call
  that returns false: it may be decided later;
* `CommittedReachesAll` (liveness, one election): the one extra round that
  `ProposeEntry` sends brings every follower up to date if no request is lost.

Whoever leads, `OnePlacePerProposal` holds: an entry is found at one index only;
and `LogTermsWon`: although the log's term is moved by callbacks, requests and
responses in any order, and also downwards, no entry, request or response is
ever in a term that nobody won, and a log that leads has won a term no later
than its own. It may be an earlier one: see below.
A `commitIndex` may fall once two nodes have won: a log truncated by one
leader takes `min(leaderCommit, len(log))` from the other (`Accept`). With two
leaders the rest fails too, see `coordinators_rival` below, and the panic is
reached in `raft_log_terms`.

Of the joined coordinators, `ImplementsElection` and `ImplementsLog` say that
each part behaves as it was specified alone. They are proved (section 4);
`MCCoordinators.cfg` checks them, and the log's properties, on three nodes
(11275 states).

### Properties of the chat

* `ExactlyOnce`: at each server a message is due at, it is stored once, or on
  its way, or lost in a call that failed, and never two of these. No loop of
  relays, abandoned call or room created twice breaks that. So when
  nothing is on its way and nothing was lost, two servers have the same messages.
* `AnswersFollow`: a message whose sender had been shown another is stored after
  it, at the server either was sent to. At a third server it may come first.
* `NothingSkipped`: the cursor of a session counts messages of its own server,
  no more than there are, and what it has passed was shown, but for messages
  stored between the two reads of one of the session's polls.
* `ImplementsFeed`: no server forgets, repeats or reorders, and a session is
  shown its server's feed in order without repetition.

What the documents say of the chat holds in a narrower sense. "Only messages the
client hasn't seen" (`client.go:95-96`) is so within a session; joining again
shows all of the room again. A message stored between the two reads of
`GetMessages` (`chatserver.go:299-300`) is counted and never shown in that
session. A client that connects to another server without joining keeps its
cursor and belongs to no session until it joins. The "identical message history"
of two servers (`demo_cross_server_chat/main.go:255`) is the same set of
messages once no relay is under way and if none was lost; the order may differ.

### Fairness

`Fairness` asks that goroutines which can run do run: a manager's loop takes a
ready token and, when it may pass on an idle one, does so (weak fairness: Go's
`select` picks at random among the ready cases, and the ticker fires for ever);
a token's goroutine delivers it; a granted caller returns. Of the callers it
asks only that one that has the lock releases it. Nothing is asked of requests.
`FairSpec` of `RaftLog` asks that the goroutines that carry a request reach the
follower and that a caller who has seen its entry committed sends the last
round: the in-process wiring, with every node alive. Nothing is asked of
responses, proposals, callbacks or elections. The election has no liveness
property: two candidates may split the votes again and again, and only the
random timeouts make that unlikely. Nor has the chat: a relay is sent once and
may fail, and a client polls when its user asks for it.

### What the violations show

* `token_ring_starve`: `ReleaseAccess` serves its own node's queue before it
  passes the token on. Two callers that take turns at one node keep it there
  for ever; `lock.go:29` promises that every node eventually receives it.
* `token_ring_startup`: an idle token is passed on after 200 ms and
  `launch_cluster.sh` waits 0.5 s between launches. Passed to a process that is
  not up yet, the token is lost, and no step of any node makes a new one;
  `lock.go:30` promises that it always circulates. The same loss follows the
  crash of any node whose predecessor then passes on the token.
* `token_ring_relaunch`: the lowest ID's process makes a token whenever it is
  launched; `lock.go:28` promises one node in the critical section.
* `election_relaunch`: a relaunched process has forgotten its vote and votes
  again in the same term; `README.md:236` speaks of a single elected leader.
* `coordinators_rival`: `handleVoteRequest` compares no logs, and term and
  leadership of the election and of the log are separate fields. n1 leads in
  term 1 and has an entry in its log; n2 is elected in term 2 with n1's vote and
  an empty log, which n1's own log is not told; n2 takes a proposal, and its
  `OnBecomeFollower` of term 1, which was late, sets its log's term back to 1.
  Their requests cross, each log takes the other's entry in place of its own,
  each counts the other's success for its own, and each applies the other's
  entry at index 1. `consensus.go:33-34` promises that this never happens.
  `MCRaftLogRival.cfg` finds another way over the abstract election, with three
  nodes and no late callback: n2 is elected in term 2 without an entry that n1
  then commits on n1 and n3, because a node that has voted in term 2 still
  accepts entries of term 1.

Other steps of such runs a reader should know of: `HandleAppendEntries` raises
`currentTerm` and leaves `isLeader` (`consensus.go:379`), so that a deposed leader
proposes in a term it was not elected in (though somebody was: `LogTermsWon`); a truncated follower keeps its
`commitIndex`, so that a later proposal there is reported committed although
nobody has it (`consensus.go:231`), or the apply reads beyond the log.

## 4. The proofs

TLAPS checks them for every number of nodes, callers, servers, clients and
messages and every bound. The only assumptions are those named in the modules: a
ring has at least one node, an `int` has at least one value, no caller is called
`""` (`RingAssumption`, `IntAssumption`, `NameAssumption`); the processes that
may end or come back are nodes (`DeploymentAssumption`); the cluster is a finite
set and -1 is not a node (`NodeAssumption`, `TermAssumption`); terms are
positive (`TermsArePositive`); "no server" and "no message" are not a server
and a message (`ChatAssumption`).

`TokenRing_proofs`. `OneToken` is not inductive: that a handler makes no second
token needs that a critical section has the token under it, or `ReleaseAccess`
would pass on a token it has not got. The invariant is `TokenApart` (a node
that holds the token excludes every other token, each channel and goroutine
list has at most one, and not two of them have one) together with
`CSOnlyWithToken`. From it follow `NoIdleWaiter`, then `HolderAgreement` and
`QueueAgreement`, which relate the managers to the callers, then
`MutualExclusion`: two callers in the critical section hold it at nodes that
both have the token. `LockImplementsMutex` maps each action to a step of `Mutex`
or to a stutter; `MutualExclusion` and the agreements give the guard of `Enter`.
`NoOvertaking` is a property of one step: a caller is given the lock either at
the head of its queue or, by `NoIdleWaiter` and `QueueAgreement`, when nobody
else waits there. `TokenKeptUntilKillHolds` rests on `KeptInv`: until a kill
every loop runs and the token is at some manager, channel or goroutine. `OneLapHolds` rests on
`LapInv`: the number a node remembers is behind the token's by the
hops from that node to the token, modulo `IntSpan`; the lemmas about distances
on the ring and about sums modulo `IntSpan` are proved first and apart, so that
no step needs both moduli. The lemmas that the RPC wiring shares are about
`RingNext`, which also has the send without the question whether the peer is
alive (`PutToken`).

`TokenRingRPC_proofs` splits a step of the deployed ring into a step of
`TokenRing` (`RingStep`), for which the inductive lemmas above are used again,
and the launches, exits and lost calls. `DownIsBare` says that a process that is
not up has no token, queue or holder, `Unborn` that no token exists before the
lowest ID's first launch. `RPCSingleToken`, `RPCMutualExclusion` and
`RPCAgreement` assume that the lowest ID's process is launched once
(`0 \notin Relaunchable`): run `token_ring_relaunch` shows that mutual
exclusion fails without it. `DeployedLockImplementsMutex`, under the same proviso, maps the steps of the
ring as `LockImplementsMutex` does, an exit to `Quit` and launches and lost
calls to stutters. The types, `RPCNoLostWakeUp` and `TokenBornWithLowestHolds` need no such
proviso; the last compares `TokenPlaces`, a set with one element for each token,
with a condition on each node (`TokenFree`).

`Election_proofs`, in four steps. (1) `VoteInv`: a ballot is never ahead of its
voter or its candidate, and in the voter's present term it is what `VotedFor`
says; a request still open has not been voted on; a granting response is true.
Hence `OneVotePerTerm`. (2) `TallyInv`: a granting response in flight is not
yet in the tally of the election it belongs to. Hence `EveryVoteCountedOnce`.
(3) `WinInv`: a winner has the ballots of more than half the nodes. Two
majorities share a voter, who voted once: `ElectionSafety`. (4)
`AuthorityIsElected` is inductive by itself; with `ElectionSafety`, and since a
heartbeat is never sent to its sender, it gives `DeposedOnlyByHigherTerm`.
`ElectionImplementsLeadership` maps `becomeLeader` to `Win`, whose guard is
`ElectionSafety` of the next state, the first heartbeat of a leader to `Hear`,
whose guard is `AuthorityIsElected`, and every other step to a stutter.

`RaftLog_proofs`. First lemmas about what the operators return: bags of
messages, slices and concatenations of logs, and `Merge` (each entry of the
result is from the old log or from the request, in its place). From them
`TypeCorrect`, then `OnePlacePerProposalHolds`: the property is inductive with
the types. A call never changes its index (`CallsKept`), so what was in place
stays in place, and an action has only to account for what it adds: a request
is a slice of its sender's log, a merged log has its entries from the log or
the request, and what is applied comes from the log at that index.
`LogTermsWonHolds` adds to the property that callbacks carry won terms
(`CallsWon`) and that a caller's node has a term (`CallersHaveTerms`): it passed
the guard `isLeader` there, and no step sets a term to 0. Then every
step takes over a term from a callback, a request or a response that has been
won (`TermsTaken` and its like, gathered in `TermsFrame`).

`OneLeader_proofs`. For L the node that has won whatever was won so far, the
invariant `LeaderInv` is: only L was ever told that it leads, and only L is
asked to propose; every log is a prefix of L's; a `commitIndex` is at most the
length of its own log and at most L's; what a node has applied is a prefix of
its log up to its `commitIndex`; a request is a slice of L's log with a commit
index at most L's; a successful response, `matchIndex` and `nextIndex` report no
more than there is; a majority holds what L has committed; the entry of a call is
where it was put, and applied when it is reported; no process has panicked. It
is needed as a whole: that a follower's log stays a prefix rests on the
requests, that `waitForMajority` counts a real majority on the responses, and
both on L being alone. Each step only makes logs and commit indices grow
(`Grown`), which carries every part through the steps that do not concern it;
`Grown` itself gives `NothingLost`, with `AppliedGrows` for the routing tables.
`SafeUnderOneLeader` and `CommittedOnMajority` follow from the invariant.

`OneHistory_proofs`. `LogImplementsJournal` has the hypothesis `[]OneLeader`:
the history is that of one node. `HistoryInv` adds to the invariant above that
tables are beginnings of the history; `OnePlacePerProposal` makes
a decided proposal decided once. A step that raises the winner's `commitIndex`
is `Decide`, one that applies at a node is `Apply`, the last round of
`ProposeEntry` is `Confirm`. `JournalUntilRival` has no hypothesis: each step
up to the one in which a second node wins is one of the journal, so that
what holds under one leader does not depend on what is elected later.

`Coordinators_proofs`. A step of the joined system is one of the election with
the log unchanged, or the reverse, so it implements `Election` as it stands, and
all theorems about that hold (`CoordinatorsImplementElection`). A step of
the election is one of `Leadership` by `Election_proofs`, and so one of the
instance `Log`, whose `won` and `calls` are the election's own
(`CoordinatorsImplementLog`). The theorems about `RaftLog` are taken over by
instantiating their module with the same substitution (`LogFacts`); the lemmas
`Same...` say that the two instances of `RaftLog` are one specification.

`Chat_proofs`, in four steps. (1) `DeliveryInv`: `ExactlyOnce`, with the fact that
a call under way has a server and that no relay goes to the server the message
was sent to (`Addressed`, `RelaysElsewhere`), is inductive. (2) `SessionInv`: between the two
reads of a poll the result is the feed from the cursor to some place, and all
that follows that place is late. Hence `NothingSkipped`. (3) `AnswerInv`: what a
client was shown is stored at its server and, since a message is relayed only
once its own server has it, also there. Hence `AnswersFollow`. (4)
`ChatImplementsFeed` maps a stored message to `Publish`, the second read of a
poll to `Poll` and the beginning and end of a session to `Turn`; a room that is
created is empty, because a server without it has stored nothing
(`EmptyWithoutRoom`).

Only model-checked: liveness (`LocalQueueServed`, `ServedUnlessStranded`,
`CommittedReachesAll`), which is out of the prover's reach. Every other property
of a passing run is stated by a theorem.

## 5. What is not modelled

* The terminal of `cmd/coordinator`. It makes the calls of `TokenRing` and
  `RaftLog` one at a time, so that each of its behaviours is one of theirs. A
  reader should know that `AcquireLock` blocks the terminal it is called from:
  a second `lock` at the terminal that holds the lock waits for an `unlock` that
  only this terminal could make (`cmd/coordinator/main.go:117`), where
  `demo_commands.txt:63` expects it to be denied and `README.md:242-249` shows the
  terminal ready for more.
* `cmd/chatserver` and `cmd/client` make one object, print and wait for a signal:
  they open no listener and no connection.
* The demos as scripts: what they do to the parts (kills, concurrent requests,
  proposals, relays) is among the actions of the modules.
* Data races on Go maps (`rpcClients`, the routing table that `GetRoutingTable`
  returns): they may end the process, which `TokenRingRPC` models as `Exit`.
* Capacities of the election's channels: its messages are sets. A live loop
  empties its channels of 100, and a sender asks `IsAlive` of its peer before each
  message, so that about one of each sender can still reach a killed peer.
* Killing the node that leads the Raft log: nothing it does afterwards is read,
  and that its messages get lost is covered.
* The liveness of elections and of relays, for the reasons given under Fairness.
* Colours and wording of the output, dialling and encoding, room names: no
  property is about them.
