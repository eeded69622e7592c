# A verification of pushSystem in TLA+

pushSystem pushes a message to a large range of users. The *daemon server*
cuts a push into chunks of 4096 uids and hands them to *producers*, which look
up in Redis which of these users exist and send one RocketMQ message for each.
*userInfoUpdate* copies the lists of users from MySQL to Redis once a day.
A *daemonClient* in each process registers it with the daemon server and keeps
it registered. The modules here model these programs, TLC checks them on small
instances, and TLAPS proves their safety properties for every value of the
constants.

## 1. Inventory

| Component | State | Operations | Talks to |
|---|---|---|---|
| daemonServer, registry | `gSvrId2SvrInfo`, `gSvrId2ProducerState`, `gSetIdleProducer`, `gRank2SvrId` | `ClientRegister`, `HeartBeat`, `LoadBalance`, `CheckProcAlive` (10 s), `ReBalanceTimer` (10 s), `Rebalance` | every process, by RPC |
| daemonServer, dispatch | `sendingCount`, `curTaskCount`, `failCount`, the outstanding calls | `BeginPush`, `SelectProducerAndSend`, `OnGetResponse`, `OnResponseFail`, `DecreaseProducerTask` | startPush, producers |
| producer, ProduceMsg | `waitForSendCount` of each call, `taskCount`, `TMP_USER_INFO_KEY` (Redis) | `Proceed`, `ProduceMsg`, `NotifyOne`, `onSuccess`, `onException`, `RetrySending` | daemon server, Redis, RocketMQ |
| producer, load report | `tps_count_`, `avg_speed_`, `taskCount` | `TpsReport`, `SendLoadBalanceInfo` | daemon server |
| userInfoUpdate | TEMP, RELEASE and DIFF keys (Redis), `user_info_update_record` (MySQL) | `CheckAndUpdateUserInfo`, `UpdateUserInfo` | MySQL, Redis |
| daemonClient (in every process) | `clientStatus_`, `serverId_`, the calls under way | `ClientStatusHandler` (2 s), `ClientRegister`, `HeartBeat`, `AsyncCompleteRpc` with the two `OnGetResponse`, `SetServerId` | daemon server |
| Redis and MySQL handlers | one connection, one reply | `command`, with two retries | Redis, MySQL |
| startPush | none | one `BeginPush`, of uids 0 to 200000000 | daemon server |
| consumer | none that matters | prints and counts messages | RocketMQ |

Interaction. RPCs are asynchronous gRPC: the main thread takes an event from
the completion queue and starts a detached thread for it, so handlers of the
same process run concurrently and in any order. In the daemon server a single
mutex, `gSvrInfoMutex`, guards all state; in a producer `redisMtx` guards the
Redis connection, a mutex in each call guards `waitForSendCount`, and
`taskCount` is atomic. In a daemonClient the status thread and the completion
thread share `clientStatus_` under a mutex, and `serverId_` without it.
Producers and userInfoUpdate share nothing but Redis.

What is hard:

* *Daemon server*: answers arrive in any order and after the producer they came
  from was swept, disconnected, or replaced by another process with the same
  id. `OnResponseFail` has two critical sections. Four tables and two
  counters have to agree through all of it. What must hold: the counters are
  the numbers of calls in flight; the tables name the same processes; nobody is
  called who is not registered; the window is bounded and reopens; a chunk is
  tried until it is done.
* *Producer*: messages are sent by one thread, acknowledged on others, and
  re-sent by more, while a counter decides when the call is answered and its
  memory freed. What must hold: the count is exact, SUCCESS means that every
  message is stored, nothing but the unlock of the callback that answered a call
  may come after its deletion (the code does not prevent that one), the number
  of tasks reported is the number of tasks, the combined key expires, every
  call settles.
* *userInfoUpdate*: some twenty thousand commands for each list, any of which
  may fail, be executed although its answer was lost, or be the last one
  before a crash. What must hold: only complete lists are released, they only
  get newer, and a combined key built from an old list goes away.
* *daemonClient*: registrations take longer than the two seconds after which
  the next one is sent, so a process may be registered twice; answers that refer
  to an id given up arrive late; the daemon server restarts with an empty
  registry and hands out ids again. What must hold: no heartbeat carries an id
  that was never set, no two processes hold the same id as long as none is taken
  away, and in the end every process is registered and nothing else is.
* *uids*: a uid becomes a bit, counted from the upper end of a byte, and a bit a
  uid, across loops of 10240, chunks of 4096 and a list that ends in the middle
  of one. What must hold: a push reaches the users of its range, each once.

The hazards are listed one by one, at their lines, in `PROJECT.json`.

## 2. Modules

| Module | Models |
|---|---|
| `DaemonServer` | registry and dispatch of the daemon server |
| `PushDelivery` | abstract: what whoever begins a push is promised |
| `Producer` | the handling of ProduceMsg calls and the load report of one producer |
| `ProduceDelivery` | abstract: what a producer promises to whoever calls its ProduceMsg |
| `UserInfoUpdate` | the update of the lists together with the Redis commands of a producer |
| `UserLists` | abstract: what producers may rely on in Redis |
| `Membership` | the daemonClients of several processes, the registry of `DaemonServer`, and the calls between them |
| `UidRange` | from the rows of MySQL to the bits of the lists, the chunks of a push, and back to the uids of the messages |
| `MC...` | values of the constants for TLC |
| `SetLemmas` | facts about `Min`, `Max` and finite sets |
| `DaemonServerProofs` | types, order of the loops, the accounts, the circuit breaker |
| `DaemonServerRankProofs` | what `SumOfScores`, `RanksOf` and `LowerBound` compute |
| `DaemonServerDispatchProofs` | the window; the tables and the dispatch when only producers register; `DaemonServer` implements `PushDelivery` |
| `ProducerProofs`, `UserInfoUpdateProofs`, `MembershipProofs`, `UidRangeProofs` | the safety of the module they are named for; `Producer` implements `ProduceDelivery`, `UserInfoUpdate` implements `UserLists` |

`Membership` composes: it instantiates `DaemonServer` without pushes and uses its
registry actions. The other modules meet at the values they exchange: the calls
a `DaemonServer` makes are those a `Producer` receives, and the combined key
`Producer` reads is the one `UserInfoUpdate` deletes.

### DaemonServer

An action is one critical section of `gSvrInfoMutex`; nothing outside of one
reads the state, so the interleavings of actions are those of the threads.

| Action | Code in `daemonServer.cpp` |
|---|---|
| `ClientRegister` | `ClientRegisterCallData::Proceed`, with the `Rebalance` it ends in |
| `HeartBeat`, `Expire` | `HeartBeatCallData::Proceed`; more than 10 s since the last one |
| `LoadBalance` | `LoadBalanceCallData::Proceed` |
| `CheckProcAlive` | one sweep: the erasures, the `Rebalance` after each producer, the reset of the fail counts |
| `ReBalanceTimer` | one round of the timer |
| `BeginPush` | a push enters the loop of `SelectProducerAndSend` |
| `SelectIdle`, `SelectByRank` | the two branches that send a chunk |
| `SelectCrash` | a null stub is called, or the last entry of an empty map read |
| `OnGetSuccess`, `OnGetErrCode` | `OnGetResponse` |
| `OnResponseFail`, `FailDecrease` | the two critical sections of `OnResponseFail` |

Abstractions. A chunk is a pair of a push and an index instead of a range of
uids. `phase` and `target` are the control of the threads: where the handling
of each chunk stands and which id its call was made to. The timestamp of a
process is the Boolean `expired`. Scores are positive integers and a draw is
one of `0..RandomFactor`, so that the arithmetic of the ranks is exact; every
draw is possible. Counters of type `uint32_t` wrap at `UINT32`. `inherited`
and `called` are history variables: the calls outstanding to an id when an entry
for it is made, and whether the entry was ever sent a call. The two accesses to
`gSvrId2ProducerState` by `operator[]` are modelled as insertions: the one in
the log line of `Rebalance` gives each registered process an entry.

`PushDelivery` knows pushes and chunks only. A chunk is waiting, handed out or
done; chunks are handed out in order, and done once. Every other action of the
daemon server, re-sends included, is a stuttering step.

### Producer

| Action | Code in `producer.cpp` |
|---|---|
| `Receive` | `Proceed` in PROCESS, up to `redisMtx.lock()` |
| `Exists`, `BitOpAnd`, `SetExpiration`, `GetRange` | the Redis commands of `ProduceMsg`, with the branches on their answers |
| `RedisFails` | `RedisHandler::command` gives up; the command may have been executed |
| `TmpKeyGoes` | the key expires or is deleted by userInfoUpdate |
| `SendNext` | the next iteration of the send loop |
| `OnSuccess`, `OnException`, `RetrySending` | the callbacks, `NotifyOne` up to its `Finish`, the retry thread |
| `Unlock` | the unlock of `waitForSndCntMtx` that follows a `Finish` |
| `Delete` | `Proceed` in FINISH |
| `TpsAverage`, `TpsReset` | the two halves of `TpsReport` in `common/rocketmq.h` |
| `ReadAvgTime`, `ReportLoad` | `SendLoadBalanceInfo` |

A failed send may or may not have stored the message (`broker`). When the key
has gone before `GETRANGE` the code reads `len` bytes behind an empty string:
the model lets it find any set of users.

`Finish` and the unlock behind it are two steps (`unlocking` has the calls
between them), because the event of the answer may come in between and delete
the call with its mutex. `CallOutlivesItsMessages` is about everything else:
until its last message is acknowledged a call is neither answered nor deleted,
and afterwards only the callback that gave the answer still uses it. That this
callback may unlock a mutex of a deleted call is in the behaviours of the model
as it is in those of the code, and listed among the hazards.

`ProduceDelivery` knows, of each call, whether it was answered with SUCCESS, the
users found for it, and those for whom a message is stored. Users are found
once, messages are stored for them and no others while the call is open, and
the answer comes when each of them has one. Redis, the counters, retries and the
deletion of the call are stuttering steps; so is a message stored twice.

### UserInfoUpdate

One action for each command of `CheckAndUpdateUserInfo` and `UpdateUserInfo`;
`Stop` is a command that was given up, executed or not, and `Crash` the death of
the process at any point. Of the rows of a chunk their age is kept: the version
of the MySQL tables they were read from. `CutOff` is what a fetch leaves that
broke off, since `mysql_fetch_row` answers the loss of the connection with the
same NULL as the end of the rows. The query for `last_update_time` has the same
weakness: when its fetch breaks off, a list that was updated today is updated
again. Its record then stands through the whole update, so that a RENAME with no
DEL behind it leaves a combined key that nobody deletes before it expires; so does
an update that ends after its record was written. The history variable `lost`
marks both (`LosesDel`), and `StaleKeyGoes` makes the exception. The second process is a producer up to its
`GETRANGE`. Only `RENAME` and the commands on `TMP_USER_INFO_KEY` are visible to
it, so EXISTS, XOR, BITCOUNT and DEL of the DIFF key are one action.

`UserLists` knows the released lists and the lists the combined key was made of.
A release replaces a whole list by chunks read from tables no older than those of
any chunk of the list it replaces, a cut-off fetch excepted; combining takes all
lists as they are released at one moment. The TEMP and DIFF keys, the records,
failures, crashes and everything the producer reads are stuttering steps.

### Membership

| Action | Code |
|---|---|
| `ClientRegister`, `ReadClientStatus`, `HeartBeat` | one round of `ClientStatusHandler` in `daemonClient.cpp`; `serverId_` is read after the mutex was given up, so that is a step of its own |
| `OnRegistered`, `SetServerId` | a registration was confirmed: `serverId_` is stored, then, under the mutex, `clientStatus_` |
| `OnAlive`, `OnUnknown` | a heartbeat was answered SUCCESS or ERR |
| `ServeRegister`, `ServeHeartBeat`, `ServeUnknown` | `ClientRegisterCallData::Proceed` and `HeartBeatCallData::Proceed` of the daemon server |
| `Abandoned`, `HeartBeatsLate` | an entry has had no heartbeat for 10 s: nobody sends any, or they are late |
| `CheckProcAlive`, `CircuitBreaker` | the sweep; `OnResponseFail` of a push disconnects a producer |
| `CallFails` | `AsyncCompleteRpc` of a call whose status is an error: it is only logged |
| `StopDaemon`, `StartDaemon` | the daemon server stops, and begins again with an empty registry |
| `Restart` | a process dies and starts again; its requests may still arrive |

A call is the request until it was handled and its answer from then on. Calls
are handled in any order, so they overtake each other. When the caller of a
request has died, the event of the answer says so and `GPR_ASSERT(ok)` in
`HandleRpcs` may stop the daemon server (`Answer`). The time between two rounds
of the status thread appears as `WakesUp`: the thread finds earlier calls done,
unless one of them takes longer than two seconds, which counts as a fault.
`evicted` is a history variable: an id was taken from a process that had it.

### UidRange

| Action or operator | Code |
|---|---|
| `SetRange` | one round of the loop of `UpdateUserInfo`, from `GenSQL` to `SETRANGE` |
| `TmpUserInfo` | `BITOP AND` of the lists |
| `SelectProducerAndSend`, `ChunkEnd` | the loop that cuts a push into chunks |
| `ProduceMsg`, `UserInfoStr`, `UidsToSend` | `GETRANGE`, the string made of its answer, and the uids its bits stand for |

A byte is the set of the exponents of its bits, a string a function from
positions to bytes. Nothing fails here: the other modules are about that. A
string that is longer than the answer of `GETRANGE` ends in bytes of `Garbage`,
what happens to lie behind the answer in memory.

## 3. What is checked

Passing runs:

| Run | Instance | Shows |
|---|---|---|
| `core` | 2 pushes of 2 chunks, 3 ids, 3 registrations, a limit of 1 failure | `TypeOK`; the accounts `SendingCountExact`, `TaskCountExact`, `IdleExact`; `TablesAgree`, `NoCrash`, `DispatchToRegistered`; `BreakerHasCause`; `ImplementsDelivery` |
| `window` | 1 push of 3 chunks, 3 ids, 2 registrations of processes of two kinds, first failure disconnects, a window of 1 | `Backpressure`; the accounts without the assumption that only producers register; `BeginPushReturns`, `TriedUntilDone` |
| `calls` | 2 calls, 2 users | `WaitCountExact`, `SuccessMeansSent`, `CallOutlivesItsMessages`, `CallsCounted`, `KeyExpires`; `ImplementsDelivery` of `ProduceDelivery`; `CallsSettle` |
| `lists` | 2 lists of 2 chunks, 2 days, 2 versions, 1 crash or broken fetch | `ReleasedWhole`, `ReleaseMovesForward`, `StaleKeyGoes`; `ImplementsLists` |
| `settles` | 2 processes of 2 calls each, ids 0..5, 2 faults | `HeartBeatHasId`, `RegisteredIsKnown`, `OneProcessPerId`, `NotThrownOut`, `Settles` |
| `reached` | 2 tables, lists up to uid 38, loops and chunks of 16, 5 pushes | `UsersReached`, `ReachedOnce`, `NoStrangers` |

Runs that end in a violation, each a disagreement of the code with what it
says of itself (`findings` in `PROJECT.json` has the quotations):

| Run | Property | Disagreement |
|---|---|---|
| `foreign` | `DrawsProducers` | `Rebalance` ranks every process, whatever its kind, and its log line gives it a `ProducerState` without a stub, so that it may be drawn and called |
| `reuse` | `DisconnectsTheFailing` | failures of calls to an earlier owner of an id disconnect the new owner, which never got a call |
| `answer` | `CallsAnswered` | `ProduceMsg` returns ERR when Redis fails and nobody answers the call |
| `score` | `LowScoreMeansBusy` | a call without users is never taken off `taskCount`, and an idle producer reports that it cannot send |
| `rebuild` | `ProducerRebuilds` | the combined key goes between EXISTS and GETRANGE, and the producer reads behind the empty answer |
| `strangers` | `SentExist` | the push of startPush ends behind the lists, and what lies behind the short answer of GETRANGE is taken for users |

Bounds, and why they are enough:

* `MaxSvrId`, `MaxRegistrations`: two producers are the least with an order of
  ranks and a sweep of more than one; a third registration takes an id over
  that was given up. The theorems hold for any number.
* `Push`, `ChunksPerPush`: two pushes compete for the same producer; two chunks
  give a loop that goes on while the first chunk is re-sent. In `window` three
  chunks are more than a window of one admits (`WindowFactor` is 3 in the code,
  which would need five chunks), so the window closes.
* `FAIL_COUNT_LIMIT` 50 becomes 0 or 1: both branches of the circuit breaker
  are taken. `UINT32` is 8, above the number of chunks as 2^32 is, and wrapping
  below zero occurs in `core`. `RandomFactor` 2 or 4 reaches every rank.
* `core` uses one score: with equal scores a `LoadBalance` report changes
  nothing. `window` has two. The weights only decide how likely a draw is, and
  the model takes every draw.
* `core` uses symmetry of pushes, and no liveness property.
* `window` and `foreign` do not check for deadlock, since the process stops when
  it crashes, and `reached` and `strangers` do not, since a push ends. In the
  others the system never stops: sweeps, timers and reports go on for ever.
* `reuse` looks only at behaviours in which the first process stays
  (`FirstStays`), to keep ids from being drawn at random.
* `calls`: two calls share the key and the Redis mutex; with two users a call
  has a message in the loop while another is being acknowledged or re-sent.
* `lists`: two lists are combined; two chunks have a hole between them; on the
  second day a list is replaced. `MaxFaults` bounds crashes and broken fetches
  together, those of the record included; commands that fail are not bounded.
* `settles`: two processes may come to hold the same id; with two calls each, a
  heartbeat or a second registration overtakes the first. Two faults make a
  restart of the daemon server follow a late call, or an eviction a restart.
  Ids only grow while entries remain; with six of them no registration finds
  that none is left.
* `reached`: 38 is neither the end of a byte nor of a loop; three loops and
  three chunks have a first, a middle and a last. Rows are every subset of the
  uids at the edges, against a table that has all, two tables that overlap, and a table with rows on
  either side of the end of the lists.
  Pushes go from the first uid and from later ones, stay within a chunk, end
  within a byte, end past the lists, and start within a byte (`TypeOK` only).
  `ProduceMsg` reads the last byte whole, so `UsersReached` says of the users of a
  push and of the rest of its last byte that they are reached.

Fairness. Liveness properties are checked under `LiveSpec` of their module.

* Daemon server: a thread in `SelectProducerAndSend` tries every 10 ms, so a
  branch that opens again and again is taken (strong fairness of `Select`);
  every call is answered or fails in the end, and its thread runs on (weak
  fairness of `Answer` and `FailDecrease`). The code sets no deadline: this is
  an assumption on the producers, and the run `answer` shows that one whose
  Redis failed breaks it. No fairness of registrations or sweeps is assumed;
  `BeginPushReturns` and `TriedUntilDone` suppose that producers remain and that
  the server has not crashed.
* Producer: the threads run on, Redis answers or `command` gives up after its
  retries (weak fairness), and a message that is sent again and again is
  accepted at some time (strong fairness of `OnSuccess`): the code retries for
  ever and has no other exit.
* Membership: the two threads of each process run, the daemon server handles
  what it received, entries without heartbeats grow old and are swept, and
  somebody starts a daemon server that has stopped (weak fairness of each).
  Faults are bounded, so from some time on there are none: a late answer counts
  as one, because a process whose every registration takes longer than two
  seconds registers for ever. `Settles` does not demand ids of their own: after
  an id was taken from a process that has it, the next registration may get the
  same id, and the heartbeats of both keep the one entry alive.
* UserInfoUpdate, UidRange: no liveness property.

Each property is also run against a mutant of the code (the operators with
comments "Mutant of ...") that breaks it: a lost reset, a boundary off by one, a
step in the wrong order.

## 4. What is proved

For every value of the constants, from the assumptions each module states about
its constants and TLC evaluates in every run. Every safety property of a passing
run is a theorem.

### DaemonServer

Assumed: ids, chunks and registrations are natural numbers, scores are
positive, and there are fewer chunks than values of a `uint32_t`.

| Theorem | States |
|---|---|
| `TypeCorrect` | `[]TypeOK` |
| `SendingCountCorrect`, `TaskCountCorrect`, `IdleCorrect` | the three accounts, whatever kinds of processes register |
| `BackpressureCorrect` | `[]Backpressure` |
| `BreakerJustified` | `BreakerHasCause`: the circuit breaker opens for a process that was sent a call, or whose id came with calls of an earlier owner |
| `TablesAlwaysAgree`, `NeverCrashes`, `DispatchesToRegistered`, `OnlyProducersDrawn` | when only producers register |
| `DeliveryImplemented` | `Spec => Delivery!Spec` |

The inductive invariants:

* `TypeInv` is `TypeOK` and `LoopInOrder`. The second conjunct says that the
  chunk the loop takes up next has not been sent. Without it `Send` might
  overwrite the phase of an outstanding call, and even the type of `target`
  would not be preserved.
* `AccountInv` adds the three counts, which are proved together: that
  `sendingCount` does not wrap needs the number of outstanding calls, and that a
  producer with `curTaskCount` 0 has no calls needs both the count and the
  history `inherited`. `UncalledInherits` compares the same two for a process
  that was sent no call: all that is outstanding to its id was inherited, from
  which `BreakerJustified` follows. A step either sends one call (`SendAccounts`), ends one
  (`AnswerAccounts`), or neither (`NoCallAccounts`); registrations, sweeps and
  the circuit breaker keep an entry or make a fresh one (`Kept`, `Fresh`).
* `BackpressureInv` adds that no more ids are known than were registered. A send
  from the idle set takes a place there for the place in flight; a send by rank
  needs an open window.
* `ProducerInv` says that registry, producer states and ranks have the same
  ids, with channels and positive scores. Here the arithmetic of the ranks
  matters: sums of positive scores grow, so that no two processes share a rank
  (`RanksGrow`, `RanksOfAll`), and `lower_bound` of a draw exists
  (`DrawFindsRank`). In a sweep the ranks come from the `Rebalance` of the last
  producer erased (`SweepConsistent`).
* The refinement: every step is `Begin`, `HandOut`, `Complete` or a stutter of
  `PushDelivery` (`DeliveryStep`). That chunks are handed out in order again
  rests on `LoopInOrder`.

Two of the theorems delimit a finding. `OnlyProducersDrawn` is the property the
run `foreign` violates, under the assumption that only producers register: a
process of another kind is its one cause. `BreakerJustified` says how far the
property of run `reuse` fails: only for an id that was taken over with calls
still outstanding.

`SumOfScores` is a recursive function, not a RECURSIVE operator. `PartialSums`
shows that it exists, with the least-counterexample principle `SetInduction` of
`SetLemmas` in place of an induction theorem that takes an operator.

### Membership

Assumed: the number of processes, calls and faults is arbitrary; the random
generator gives ids that are ids.

`TypeCorrect`, `HeartBeatCorrect`, `OneProcessCorrect`, `RegisteredKnown` and
`NeverThrownOut` come from one invariant with two parts beside the properties:

* `HoldsId`: whoever is registered, in the middle of `SetServerId`, or about to
  send a heartbeat has an id. It needs `OnRegistered` to set the id before the
  status, which is what makes the unlocked read at `daemonClient.cpp:106`
  harmless.
* `ClaimInv`: until an id was taken away, every id a process claims, by its
  status or by a call of it, has an entry that is not expired, and no answer
  says ERR. So neither the sweep nor a registration touches it: the new id is
  the successor of the highest (`NewIdsAreNew`), and it is claimed by nobody.
  `OneProcessPerId` alone is not inductive: it does not say that an id in use
  has an entry, without which `ServeRegister` might give it to another process.
  `RegisteredIsKnown` is a case of it, and since no answer says ERR no step of
  `OnUnknown` takes the status away from a process (`NotThrownOut`).

### Producer

`TypeCorrect`, `WaitCountCorrect`, `SuccessCorrect`, `LifetimeCorrect`,
`CallsCountedCorrect`, `KeyExpiresCorrect` and `DeliveryImplemented`, for any
number of calls and users. By `MessageInv` a call is being sent for exactly as
long as it has messages that were not acknowledged, so `NotifyOne` meets 0 once,
at the last one, and no other callback or retry uses a call that was answered; the
one unlock left behind is that of a call without unacknowledged messages
(`UnlockingInv`), which is what `LifetimeCorrect` says of it. Since `NotifyOne`
is also the only place that decrements `taskCount`, the same fact makes
`CallsCounted` an equality: `taskCount` is the number of calls that are worked
on, that failed, or that were answered because their range had no users.

`DeliveryImplemented`: every step is `Find`, `Store` or a stutter of
`ProduceDelivery`. That the answer comes when every user found has a message, and
that nothing is stored for a call that was answered, are both `MessageInv`.

`LowScoreBusy` delimits the finding of run `score`: the property the run violates
holds of every behaviour in which no call is answered for want of users
(`UsersFound`), so the branch that skips the decrement is its only cause.

### UserInfoUpdate

`TypeCorrect`, `ReleasesWhole`, `ReleasesForward`, `StaleKeysGo` and
`ListsImplemented`, for any number of lists, chunks, days and faults. `CopyInv`
says that the chunks of the TEMP key before the position of the loop were read
from tables no older than any chunk of the list that is released, and that only a
copy that reached the end is at the RENAME. It compares each new chunk with
every old one, not only with the one at its place: a list copied while MySQL
changes is a mixture of ages. `StaleKeyGoes` is inductive as it stands: RENAME,
which makes the combined key older than its list, is followed by the DEL, and an
update that ends before it either leaves the list without a record of today or
sets `lost`. It cannot be argued from the record alone, because a list may be
recorded while it is updated. The
refinement follows: RENAME is `Release`, by `CopyInv`; BITOP, DEL and expiration
are `Combine`; every other command, fault and crash is a stutter.

### UidRange

`TypeCorrect`, `Reached`, `Once` and `OnlyUsers`, for every length of loops, chunks and lists
that are whole bytes, every content of the tables, and every garbage behind a
string. `ListInv` gives the bits of the part of a list that is written, and with
it the uids a byte of the combined key stands for; `StartInv` says that nothing
was sent before the lists were released; `CutInv` that the calls made so far are
the chunks of the range up to `curUid`, which follow each other without a common
byte because a chunk is a whole number of bytes. For `OnlyUsers`, `MessageShape`
says of every message up to the end of the last byte of the lists, which may lie
beyond `END_UID`, that every table has its uid. The theorem supposes a push that
starts on a byte and ends within the lists; the run `strangers` shows what the
second condition is for.

### Only model-checked

All liveness properties (`BeginPushReturns`, `TriedUntilDone`, `CallsSettle`,
`Settles`), since fairness and ENABLED are out of the prover's reach, and the six
violations.

## 5. What is not modelled

* In `DaemonServer`, a restart of the daemon server, which loses all of its
  state: `Membership` has it for the registry, not for pushes.
* Crash of a producer in `Producer`: to the daemon server it is failed calls and
  missing heartbeats, which are modelled.
* The NULL contexts the database handlers use after a reconnect that failed;
  for userInfoUpdate that is a crash, for a producer it is left out.
* Rounding of doubles in scores and ranks.
* Which uids a push that starts within a byte reaches: the code numbers the users
  from the start of the push although the string starts at the byte, so a
  property could only repeat the shift. The model contains such pushes.
* In daemonClient, the construction of stubs and calls, and the logging.
* consumer, which counts and prints; genUserInfo, whose `main` is empty; the
  printing of startPush; generated code.

## 6. Plan

Done: `DaemonServer`, `PushDelivery`, `Producer`, `ProduceDelivery`,
`UserInfoUpdate`, `UserLists`, `Membership` and `UidRange`, each with the theorems
about its safety and the refinements. What would come next:

1. `Push`: `DaemonServer` and `Producer` composed, so that the calls that are
   never answered are seen from the window of the daemon server.
2. A restart of the daemon server and of producers in that composition.
3. The completion queue of a producer: the call data that waits for the next
   call, and what a `Finish` whose answer nobody receives leaves behind.
