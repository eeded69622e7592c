------------------------------ MODULE DaemonServer ------------------------------
(***************************************************************************)
(* The daemon server (src/daemonServer): the registry of the processes     *)
(* that announced themselves, the load-balancing tables derived from it,   *)
(* and the dispatch of a push, cut into chunks of UID_COUNT_PER_TIME users,*)
(* to the registered producers.                                            *)
(*                                                                         *)
(* Every RPC and every answer of a producer is handled by a thread of its  *)
(* own; all the state below is guarded by gSvrInfoMutex.  An action is one *)
(* critical section of that mutex, so the interleavings of the model are   *)
(* the interleavings of the threads.                                       *)
(***************************************************************************)
EXTENDS Integers, FiniteSets, FiniteSetsExt

CONSTANTS
    MaxSvrId,          \* bound: ids are 0..MaxSvrId (uint64 in the code)
    FirstSvrId,        \* ids the random generator may give to the first process
    ProcName,          \* names the processes register under
    InitialScore,      \* calLoadBalanceScore(0), the score of a new producer
    Score,             \* scores a LoadBalance request may carry
    RandomFactor,      \* "factor" of the weighted choice (10000 in the code)
    FAIL_COUNT_LIMIT,
    UINT32,            \* number of values of a uint32_t
    WindowFactor,      \* calls the window admits for each producer (3 in the code)
    Push,              \* BeginPush requests
    ChunksPerPush,     \* iterations of the loop of SelectProducerAndSend
    MaxRegistrations   \* bound on the number of registrations

SvrId == 0..MaxSvrId
NoSvr == -1
Chunk == Push \X (1..ChunksPerPush)

ASSUME MaxSvrIdAssumption == MaxSvrId \in Nat
ASSUME FirstSvrIdAssumption == FirstSvrId \subseteq SvrId
ASSUME ScoreAssumption == Score \cup {InitialScore} \subseteq Nat \ {0}
ASSUME RandomFactorAssumption == RandomFactor \in Nat \ {0}
ASSUME LimitAssumption ==
    FAIL_COUNT_LIMIT \in Nat /\ WindowFactor \in Nat \ {0} /\ MaxRegistrations \in Nat
ASSUME ChunkAssumption ==
    /\ IsFiniteSet(Push)
    /\ ChunksPerPush \in Nat \ {0}
    /\ UINT32 \in Nat
    /\ Cardinality(Chunk) < UINT32

VARIABLES
    gSvrId2SvrInfo,        \* map: id -> the SvrInfo below
    gSvrId2ProducerState,  \* map: id -> the ProducerState below
    gSetIdleProducer,      \* set of ids
    gRank2SvrId,           \* map: rank -> id
    sendingCount,          \* uint32
    phase,                 \* where the handling of each chunk stands
    target,                \* the id each outstanding call was sent to
    crashed,               \* the process dereferenced a null stub or an empty table
    registrations          \* number of registrations so far (bound)

tables == <<gSvrId2SvrInfo, gSvrId2ProducerState, gSetIdleProducer, gRank2SvrId>>
calls == <<sendingCount, phase, target>>
vars == <<tables, calls, crashed, registrations>>

(***************************************************************************)
(* The state.                                                              *)
(*                                                                         *)
(* "expired" stands for the timestamp: more than ALIVE_DURATION went by    *)
(* since it was set.  "stub" says that the ProducerCaller holds a channel; *)
(* the default-constructed one of operator[] holds a null pointer.         *)
(* "inherited" and "called" are history: the number of calls to an earlier *)
(* owner of the id that were outstanding when this entry was made, and     *)
(* whether a call was ever started for this entry.                         *)
(*                                                                         *)
(* A chunk is "none" until the loop of its BeginPush reaches it ("begin"); *)
(* dispatched, it is "sent"; a failed call goes through "failed" between   *)
(* the two critical sections of OnResponseFail; "resend" is the loop of    *)
(* the thread that handled the answer; "done" is a SUCCESS answer.         *)
(***************************************************************************)
Phase == {"none", "begin", "resend", "sent", "failed", "done"}

SvrInfo == [procName : ProcName, score : Nat, expired : BOOLEAN]
ProducerState == [stub : BOOLEAN, curTaskCount : 0..(UINT32 - 1),
                  failCount : Nat, called : BOOLEAN, inherited : 0..(UINT32 - 1)]

EmptyMap == [x \in {} |-> x]
IsMap(f, S, T) == DOMAIN f \subseteq S /\ f \in [DOMAIN f -> T]
Without(f, S) == [x \in DOMAIN f \ S |-> f[x]]
WithEntry(f, k, v) == [x \in DOMAIN f \cup {k} |-> IF x = k THEN v ELSE f[x]]
Image(f) == {f[x] : x \in DOMAIN f}

Outstanding == {c \in Chunk : phase[c] \in {"sent", "failed"}}
OutstandingTo(id) == {c \in Outstanding : target[c] = id}

\* Mutants of Dec: a signed counter, and one that stops at zero
SignedDec(n) == n - 1
SaturatingDec(n) == IF n = 0 THEN 0 ELSE n - 1

Inc(n) == IF n = UINT32 - 1 THEN 0 ELSE n + 1
Dec(n) == IF n = 0 THEN UINT32 - 1 ELSE n - 1

\* ProducerState(caller, 0), or ProducerState() when stub is FALSE
NewProducerState(id, hasStub) ==
    [stub |-> hasStub, curTaskCount |-> 0, failCount |-> 0, called |-> FALSE,
     inherited |-> Cardinality(OutstandingTo(id))]

Init ==
    /\ gSvrId2SvrInfo = EmptyMap
    /\ gSvrId2ProducerState = EmptyMap
    /\ gSetIdleProducer = {}
    /\ gRank2SvrId = EmptyMap
    /\ sendingCount = 0
    /\ phase = [c \in Chunk |-> "none"]
    /\ target = [c \in Chunk |-> NoSvr]
    /\ crashed = FALSE
    /\ registrations = 0

(***************************************************************************)
(* Rebalance().  The rank of a process is the sum of the scores up to and  *)
(* including its own, in the order of the ids; of two processes with the   *)
(* same rank the later one stays in the map.  The operator[] of the log    *)
(* line gives every registered process without a ProducerState a default   *)
(* one.                                                                    *)
(***************************************************************************)
SumOfScores(info) ==
    LET sum[i \in SvrId] ==
          (IF i = 0 THEN 0 ELSE sum[i - 1])
            + (IF i \in DOMAIN info THEN info[i].score ELSE 0)
    IN sum

RanksOf(info) ==
    LET rank == SumOfScores(info)
    IN [r \in {rank[id] : id \in DOMAIN info} |->
          Max({id \in DOMAIN info : rank[id] = r})]

WithDefaults(states, ids) ==
    [id \in DOMAIN states \cup ids |->
        IF id \in DOMAIN states THEN states[id] ELSE NewProducerState(id, FALSE)]

\* Rebalance() called when the registry is info and the states are states
Rebalance(info, states) ==
    /\ gRank2SvrId' = RanksOf(info)
    /\ gSvrId2ProducerState' = WithDefaults(states, DOMAIN info)

\* Nothing happens any more once the process has crashed
Running == ~crashed /\ crashed' = FALSE

(***************************************************************************)
(* The registry: ClientRegister, HeartBeat, LoadBalance, the sweep of      *)
(* CheckProcAlive and the timer of ReBalanceTimer.                         *)
(***************************************************************************)

\* Mutant of NewIds: the number of processes is taken for the next id
NextBySize ==
    IF gSvrId2SvrInfo = EmptyMap
      THEN FirstSvrId
      ELSE {Cardinality(DOMAIN gSvrId2SvrInfo)} \cap SvrId

\* The id a ClientRegister is answered with: the highest id is reused once
\* its owner has left.
NewIds ==
    IF gSvrId2SvrInfo = EmptyMap
      THEN FirstSvrId
      ELSE {Max(DOMAIN gSvrId2SvrInfo) + 1} \cap SvrId

\* Mutant of NewSvrInfo: the time of the registration is not stored
WithoutTimestamp(procName) ==
    [procName |-> procName, expired |-> TRUE,
     score |-> IF procName = "producer" THEN InitialScore ELSE 0]

\* ServerInfo(...), with the score of a producer that has no load
NewSvrInfo(procName) ==
    [procName |-> procName, expired |-> FALSE,
     score |-> IF procName = "producer" THEN InitialScore ELSE 0]

\* The entries of a process that is given this id
AddEntry(id, procName) ==
    /\ gSvrId2SvrInfo' = WithEntry(gSvrId2SvrInfo, id, NewSvrInfo(procName))
    /\ IF procName = "producer"
         THEN /\ gSetIdleProducer' = gSetIdleProducer \cup {id}
              /\ Rebalance(gSvrId2SvrInfo',
                     WithEntry(gSvrId2ProducerState, id, NewProducerState(id, TRUE)))
         ELSE UNCHANGED <<gSvrId2ProducerState, gSetIdleProducer, gRank2SvrId>>

\* A registration under the given id
Register(id, procName) ==
    /\ Running
    /\ registrations < MaxRegistrations
    /\ registrations' = registrations + 1
    /\ AddEntry(id, procName)
    /\ UNCHANGED calls

\* ClientRegisterCallData::Proceed, of a process named procName
ClientRegister(procName) == \E id \in NewIds : Register(id, procName)

\* HeartBeatCallData::Proceed for a known id; an unknown one is only answered ERR
HeartBeat(id) ==
    /\ Running
    /\ gSvrId2SvrInfo[id].expired
    /\ gSvrId2SvrInfo' = [gSvrId2SvrInfo EXCEPT ![id].expired = FALSE]
    /\ UNCHANGED <<gSvrId2ProducerState, gSetIdleProducer, gRank2SvrId, calls, registrations>>

\* More than ALIVE_DURATION seconds have gone by since the last heartbeat of id
Expire(id) ==
    /\ Running
    /\ ~gSvrId2SvrInfo[id].expired
    /\ gSvrId2SvrInfo' = [gSvrId2SvrInfo EXCEPT ![id].expired = TRUE]
    /\ UNCHANGED <<gSvrId2ProducerState, gSetIdleProducer, gRank2SvrId, calls, registrations>>

\* LoadBalanceCallData::Proceed for a known id: the ranks wait for a Rebalance
LoadBalance(id, score) ==
    /\ Running
    /\ gSvrId2SvrInfo[id].score # score
    /\ gSvrId2SvrInfo' = [gSvrId2SvrInfo EXCEPT ![id].score = score]
    /\ UNCHANGED <<gSvrId2ProducerState, gSetIdleProducer, gRank2SvrId, calls, registrations>>

ResetFailCount(states) == [id \in DOMAIN states |-> [states[id] EXCEPT !.failCount = 0]]

Expired == {id \in DOMAIN gSvrId2SvrInfo : gSvrId2SvrInfo[id].expired}

\* Mutant of ExpiredProducers: the sweep erases producers from the registry only
NoProducers == {}

ExpiredProducers == {id \in Expired : gSvrId2SvrInfo[id].procName = "producer"}

\* Mutant of SweptUpto: Rebalance before the process is erased
SweptBelow(id) == Without(gSvrId2SvrInfo, {i \in Expired : i < id})

\* The registry when a sweep in the order of the ids has just erased id
SweptUpto(id) == Without(gSvrId2SvrInfo, {i \in Expired : i <= id})

\* The ProducerStates the Rebalance of the first producer erased leaves: it
\* sees every process the sweep has not reached yet.
StatesInSweep ==
    IF ExpiredProducers = {}
      THEN gSvrId2ProducerState
      ELSE WithDefaults(gSvrId2ProducerState, DOMAIN SweptUpto(Min(ExpiredProducers)))

\* One sweep of CheckProcAlive: each producer it erases is followed by a
\* Rebalance, a process of another kind leaves the tables as they are.
CheckProcAlive ==
    /\ Running
    /\ gSvrId2SvrInfo' = Without(gSvrId2SvrInfo, Expired)
    /\ gSvrId2ProducerState' = ResetFailCount(Without(StatesInSweep, ExpiredProducers))
    /\ gSetIdleProducer' = gSetIdleProducer \ ExpiredProducers
    /\ gRank2SvrId' = IF ExpiredProducers = {}
                        THEN gRank2SvrId
                        ELSE RanksOf(SweptUpto(Max(ExpiredProducers)))
    /\ UNCHANGED <<calls, registrations>>

\* One round of ReBalanceTimer
ReBalanceTimer ==
    /\ Running
    /\ Rebalance(gSvrId2SvrInfo, gSvrId2ProducerState)
    /\ UNCHANGED <<gSvrId2SvrInfo, gSetIdleProducer, calls, registrations>>

(***************************************************************************)
(* Dispatch: BeginPush and SelectProducerAndSend.                          *)
(***************************************************************************)

\* BeginPushCallData::Proceed enters the loop with the first chunk
BeginPush(p) ==
    /\ Running
    /\ phase[<<p, 1>>] = "none"
    /\ phase' = [phase EXCEPT ![<<p, 1>>] = "begin"]
    /\ UNCHANGED <<tables, sendingCount, target, registrations>>

\* A thread is in the loop of SelectProducerAndSend with this chunk
Selecting(c) == phase[c] \in {"begin", "resend"}

\* Mutant of Following: a chunk that is sent again carries its loop on
FollowingAnySend(c) == {<<c[1], c[2] + 1>>} \cap Chunk

\* The chunk the loop of the same BeginPush takes up next
Following(c) == IF phase[c] = "begin" THEN {<<c[1], c[2] + 1>>} \cap Chunk ELSE {}

\* Mutants of WindowOpen: without the last test, and a window of one call more
WindowOpenToNobody ==
    gSetIdleProducer = {} /\ sendingCount <= WindowFactor * Cardinality(DOMAIN gSvrId2ProducerState)
WindowOneWider ==
    LET producerSize == Cardinality(DOMAIN gSvrId2ProducerState)
    IN gSetIdleProducer = {} /\ sendingCount <= WindowFactor * producerSize + 1 /\ producerSize # 0

\* The second branch: no producer is idle, but the window is open
WindowOpen ==
    LET producerSize == Cardinality(DOMAIN gSvrId2ProducerState)
    IN /\ gSetIdleProducer = {}
       /\ sendingCount <= WindowFactor * producerSize
       /\ producerSize # 0

\* lower_bound(randomRank) for draw / RandomFactor of the highest rank
LowerBound(draw) ==
    Min({r \in DOMAIN gRank2SvrId :
            r * RandomFactor >= draw * Max(DOMAIN gRank2SvrId)})

\* ProducerCaller::ProduceMsg has a channel to call
HasStub(id) == id \in DOMAIN gSvrId2ProducerState /\ gSvrId2ProducerState[id].stub

\* Mutant of Send: the answer is booked on the process registered last
SendBooksLast(c, id) ==
    /\ HasStub(id)
    /\ sendingCount' = Inc(sendingCount)
    /\ gSvrId2ProducerState' =
         [gSvrId2ProducerState EXCEPT ![id].curTaskCount = Inc(@), ![id].called = TRUE]
    /\ phase' = [x \in Chunk |-> IF x = c THEN "sent"
                                 ELSE IF x \in Following(c) THEN "begin"
                                 ELSE phase[x]]
    /\ target' = [target EXCEPT ![c] = Max(DOMAIN gSvrId2SvrInfo)]

\* The common tail of both branches: count the call and start it
Send(c, id) ==
    /\ HasStub(id)
    /\ sendingCount' = Inc(sendingCount)
    /\ gSvrId2ProducerState' =
         [gSvrId2ProducerState EXCEPT ![id].curTaskCount = Inc(@), ![id].called = TRUE]
    /\ phase' = [x \in Chunk |-> IF x = c THEN "sent"
                                 ELSE IF x \in Following(c) THEN "begin"
                                 ELSE phase[x]]
    /\ target' = [target EXCEPT ![c] = id]

\* First branch: the idle producer with the smallest id
SelectIdle(c) ==
    /\ Running
    /\ Selecting(c)
    /\ gSetIdleProducer # {}
    /\ Send(c, Min(gSetIdleProducer))
    /\ gSetIdleProducer' = gSetIdleProducer \ {Min(gSetIdleProducer)}
    /\ UNCHANGED <<gSvrId2SvrInfo, gRank2SvrId, registrations>>

\* Second branch: a producer drawn with the weight of its score
SelectByRank(c, draw) ==
    /\ Running
    /\ Selecting(c)
    /\ WindowOpen
    /\ gRank2SvrId # EmptyMap
    /\ Send(c, gRank2SvrId[LowerBound(draw)])
    /\ UNCHANGED <<gSvrId2SvrInfo, gSetIdleProducer, gRank2SvrId, registrations>>

\* Either branch picks a process it has no channel to, or there is no rank to
\* draw from: rbegin() of an empty map, or a call through a null stub.
SelectCrash(c) ==
    /\ ~crashed
    /\ Selecting(c)
    /\ \/ gSetIdleProducer # {} /\ ~HasStub(Min(gSetIdleProducer))
       \/ WindowOpen /\ gRank2SvrId = EmptyMap
       \/ /\ WindowOpen
          /\ gRank2SvrId # EmptyMap
          /\ \E draw \in 0..RandomFactor : ~HasStub(gRank2SvrId[LowerBound(draw)])
    /\ crashed' = TRUE
    /\ UNCHANGED <<tables, calls, registrations>>

(***************************************************************************)
(* Answers: OnGetResponse and OnResponseFail.                              *)
(***************************************************************************)

\* Mutants of DecreaseProducerTask: sendingCount is only decremented for a
\* producer still known, and a producer with one call left is taken for idle
DecreaseIfKnown(id) ==
    IF id \in DOMAIN gSvrId2ProducerState
      THEN LET curTask == Dec(gSvrId2ProducerState[id].curTaskCount)
           IN /\ sendingCount' = Dec(sendingCount)
              /\ gSvrId2ProducerState' =
                   [gSvrId2ProducerState EXCEPT ![id].curTaskCount = curTask]
              /\ gSetIdleProducer' =
                   IF curTask = 0 THEN gSetIdleProducer \cup {id} ELSE gSetIdleProducer
      ELSE UNCHANGED <<sendingCount, gSvrId2ProducerState, gSetIdleProducer>>
DecreaseIdleAtOne(id) ==
    /\ sendingCount' = Dec(sendingCount)
    /\ IF id \in DOMAIN gSvrId2ProducerState
         THEN LET curTask == Dec(gSvrId2ProducerState[id].curTaskCount)
              IN /\ gSvrId2ProducerState' =
                      [gSvrId2ProducerState EXCEPT ![id].curTaskCount = curTask]
                 /\ gSetIdleProducer' =
                      IF curTask <= 1 THEN gSetIdleProducer \cup {id} ELSE gSetIdleProducer
         ELSE UNCHANGED <<gSvrId2ProducerState, gSetIdleProducer>>

\* DecreaseProducerTask(id)
DecreaseProducerTask(id) ==
    /\ sendingCount' = Dec(sendingCount)
    /\ IF id \in DOMAIN gSvrId2ProducerState
         THEN LET curTask == Dec(gSvrId2ProducerState[id].curTaskCount)
              IN /\ gSvrId2ProducerState' =
                      [gSvrId2ProducerState EXCEPT ![id].curTaskCount = curTask]
                 /\ gSetIdleProducer' =
                      IF curTask = 0 THEN gSetIdleProducer \cup {id} ELSE gSetIdleProducer
         ELSE UNCHANGED <<gSvrId2ProducerState, gSetIdleProducer>>

\* Mutant of OnGetSuccess: the call is not uncounted
SuccessKeepsCount(c) ==
    /\ Running
    /\ phase[c] = "sent"
    /\ phase' = [phase EXCEPT ![c] = "done"]
    /\ target' = [target EXCEPT ![c] = NoSvr]
    /\ UNCHANGED <<tables, sendingCount, registrations>>

\* OnGetResponse with SUCCESS: the chunk is done
OnGetSuccess(c) ==
    /\ Running
    /\ phase[c] = "sent"
    /\ DecreaseProducerTask(target[c])
    /\ phase' = [phase EXCEPT ![c] = "done"]
    /\ target' = [target EXCEPT ![c] = NoSvr]
    /\ UNCHANGED <<gSvrId2SvrInfo, gRank2SvrId, registrations>>

\* OnGetResponse with another errCode: the chunk is sent again
OnGetErrCode(c) ==
    /\ Running
    /\ phase[c] = "sent"
    /\ DecreaseProducerTask(target[c])
    /\ phase' = [phase EXCEPT ![c] = "resend"]
    /\ target' = [target EXCEPT ![c] = NoSvr]
    /\ UNCHANGED <<gSvrId2SvrInfo, gRank2SvrId, registrations>>

\* The circuit breaker: id is taken out of every table
Disconnect(id) ==
    /\ gSetIdleProducer' = gSetIdleProducer \ {id}
    /\ gSvrId2SvrInfo' = Without(gSvrId2SvrInfo, {id})
    /\ Rebalance(Without(gSvrId2SvrInfo, {id}), Without(gSvrId2ProducerState, {id}))

\* First critical section of OnResponseFail: it may open the circuit breaker
OnResponseFail(c) ==
    LET id == target[c]
        count == gSvrId2ProducerState[id].failCount + 1
    IN /\ Running
       /\ phase[c] = "sent"
       /\ phase' = [phase EXCEPT ![c] = "failed"]
       /\ IF id \notin DOMAIN gSvrId2ProducerState
            THEN UNCHANGED tables
            ELSE IF count <= FAIL_COUNT_LIMIT
              THEN /\ gSvrId2ProducerState' =
                        [gSvrId2ProducerState EXCEPT ![id].failCount = count]
                   /\ UNCHANGED <<gSvrId2SvrInfo, gSetIdleProducer, gRank2SvrId>>
              ELSE Disconnect(id)
       /\ UNCHANGED <<sendingCount, target, registrations>>

\* Mutant of FailDecrease: the chunk is not sent again
FailGivesUp(c) ==
    /\ Running
    /\ phase[c] = "failed"
    /\ DecreaseProducerTask(target[c])
    /\ phase' = [phase EXCEPT ![c] = "none"]
    /\ target' = [target EXCEPT ![c] = NoSvr]
    /\ UNCHANGED <<gSvrId2SvrInfo, gRank2SvrId, registrations>>

\* Second critical section of OnResponseFail, then back to the loop
FailDecrease(c) ==
    /\ Running
    /\ phase[c] = "failed"
    /\ DecreaseProducerTask(target[c])
    /\ phase' = [phase EXCEPT ![c] = "resend"]
    /\ target' = [target EXCEPT ![c] = NoSvr]
    /\ UNCHANGED <<gSvrId2SvrInfo, gRank2SvrId, registrations>>

Next ==
    \/ \E procName \in ProcName : ClientRegister(procName)
    \/ \E id \in DOMAIN gSvrId2SvrInfo :
         \/ HeartBeat(id)
         \/ Expire(id)
         \/ \E score \in Score : LoadBalance(id, score)
    \/ CheckProcAlive
    \/ ReBalanceTimer
    \/ \E p \in Push : BeginPush(p)
    \/ \E c \in Chunk :
         \/ SelectIdle(c)
         \/ \E draw \in 0..RandomFactor : SelectByRank(c, draw)
         \/ SelectCrash(c)
         \/ OnGetSuccess(c)
         \/ OnGetErrCode(c)
         \/ OnResponseFail(c)
         \/ FailDecrease(c)

Spec == Init /\ [][Next]_vars

(***************************************************************************)
(* Safety.                                                                 *)
(***************************************************************************)

\* Every table, counter and chunk has a value of its type.
TypeOK ==
    /\ IsMap(gSvrId2SvrInfo, SvrId, SvrInfo)
    /\ IsMap(gSvrId2ProducerState, SvrId, ProducerState)
    /\ gSetIdleProducer \subseteq DOMAIN gSvrId2ProducerState
    /\ Image(gRank2SvrId) \subseteq SvrId
    /\ sendingCount \in 0..(UINT32 - 1)
    /\ phase \in [Chunk -> Phase]
    /\ target \in [Chunk -> SvrId \cup {NoSvr}]
    /\ \A c \in Chunk : (target[c] # NoSvr) <=> (phase[c] \in {"sent", "failed"})
    /\ crashed \in BOOLEAN
    /\ registrations \in 0..MaxRegistrations

\* sendingCount, which opens and closes the window of SelectProducerAndSend,
\* is the number of calls in flight: no order of answers, failures, evictions
\* and re-sends leaks or forgets one.
SendingCountExact == sendingCount = Cardinality(Outstanding)

\* curTaskCount is the number of calls outstanding to the id, less the calls
\* an earlier owner of the id left behind: their answers decrement it although
\* this entry never counted them, below zero if need be.
TaskCountExact ==
    \A id \in DOMAIN gSvrId2ProducerState :
      LET state == gSvrId2ProducerState[id]
          own == Cardinality(OutstandingTo(id)) - state.inherited
      IN state.curTaskCount = IF own >= 0 THEN own ELSE UINT32 + own

\* A producer whose id had no calls left over from an earlier owner is in
\* gSetIdleProducer exactly when none of its calls is in flight: a working
\* producer is never taken for idle, an idle one never forgotten.
IdleExact ==
    \A id \in DOMAIN gSvrId2ProducerState :
      LET state == gSvrId2ProducerState[id]
      IN state.stub /\ state.inherited = 0
           => (id \in gSetIdleProducer <=> OutstandingTo(id) = {})

\* The idle set and the window together never let more than 3 calls per
\* registration, and one more, into flight: the window test is <=, and calls
\* to producers that left still count.
Backpressure ==
    sendingCount + Cardinality(gSetIdleProducer) <= WindowFactor * registrations + 1

\* The loop of a BeginPush is at most at one chunk, the chunks before it have
\* been sent, and those after it have not, whatever is re-sent meanwhile.
LoopInOrder ==
    \A p \in Push : \A i, j \in 1..ChunksPerPush :
      i < j /\ phase[<<p, i>>] \in {"none", "begin"} => phase[<<p, j>>] = "none"

(***************************************************************************)
(* When only producers register, as in this repository.                    *)
(***************************************************************************)
OnlyProducers == ProcName = {"producer"}

\* The registry, the producer states and the ranks name the same processes, so
\* whoever is drawn is registered and has a channel; through every order of
\* registration, eviction, circuit breaking and load-balance report.
TablesAgree ==
    /\ DOMAIN gSvrId2ProducerState = DOMAIN gSvrId2SvrInfo
    /\ Image(gRank2SvrId) = DOMAIN gSvrId2SvrInfo
    /\ \A id \in DOMAIN gSvrId2ProducerState : gSvrId2ProducerState[id].stub

\* No dispatch goes through a null stub or an empty rank table.
NoCrash == ~crashed

\* A step that starts a call starts it to a producer registered at that very
\* moment: one that was swept or disconnected is never sent to again.
DispatchToRegistered ==
    [][\A c \in Chunk :
         phase'[c] = "sent" /\ phase[c] # "sent"
           => /\ target'[c] \in DOMAIN gSvrId2SvrInfo
              /\ gSvrId2SvrInfo[target'[c]].procName = "producer"]_vars

(***************************************************************************)
(* Disagreement.                                                           *)
(***************************************************************************)

\* The failure of the call for chunk c makes the circuit breaker open
Disconnects(c) ==
    /\ phase[c] = "sent" /\ phase'[c] = "failed"
    /\ target[c] \in DOMAIN gSvrId2ProducerState
    /\ target[c] \notin DOMAIN gSvrId2ProducerState'

\* "Too many failures on this server" (daemonServer.cpp:357): the server the
\* circuit breaker disconnects has been sent a call since it registered.
DisconnectsTheFailing ==
    [][\A c \in Chunk :
         Disconnects(c) => gSvrId2ProducerState[target[c]].called]_vars

\* What the breaker does not do even so: the process it disconnects has been
\* sent a call since it registered, or its id came with calls that an earlier
\* owner of the id had left outstanding; no other failure is held against it.
BreakerHasCause ==
    [][\A c \in Chunk : Disconnects(c) =>
         \/ gSvrId2ProducerState[target[c]].called
         \/ gSvrId2ProducerState[target[c]].inherited > 0]_vars

\* "ProducerCaller acts as a grpc client which makes grpc requests and sends
\* them to producers" (daemonServer.h:42): whoever a waiting thread may draw
\* by rank is registered as a producer.
DrawsProducers ==
    \A c \in Chunk : Selecting(c) /\ WindowOpen =>
      \A draw \in 0..RandomFactor :
        /\ gRank2SvrId # EmptyMap
        /\ LET id == gRank2SvrId[LowerBound(draw)]
           IN /\ id \in DOMAIN gSvrId2SvrInfo
              /\ gSvrId2SvrInfo[id].procName = "producer"

(***************************************************************************)
(* The promise to whoever begins a push.                                   *)
(***************************************************************************)
Stage(c) == CASE phase[c] \in {"none", "begin"} -> "waiting"
              [] phase[c] = "done" -> "done"
              [] OTHER -> "handed"

Delivery == INSTANCE PushDelivery WITH
    requested <- {p \in Push : phase[<<p, 1>>] # "none"},
    stage <- [c \in Chunk |-> Stage(c)]

\* Through failures, evictions and re-sends the server implements PushDelivery:
\* chunks are first sent in order, and a chunk once done stays done.
ImplementsDelivery == Delivery!Spec

(***************************************************************************)
(* Liveness.                                                               *)
(*                                                                         *)
(* Every call is answered or fails, after which its detached thread runs   *)
(* on.  A thread in SelectProducerAndSend polls every 10 ms: it gets the   *)
(* mutex again and again, and sooner or later while one of the branches is *)
(* open, however often the others get there first.                         *)
(***************************************************************************)
Select(c) ==
    SelectIdle(c) \/ (\E draw \in 0..RandomFactor : SelectByRank(c, draw)) \/ SelectCrash(c)
Answer(c) == OnGetSuccess(c) \/ OnGetErrCode(c) \/ OnResponseFail(c)

Fairness ==
    \A c \in Chunk :
      /\ SF_vars(Select(c))
      /\ WF_vars(Answer(c))
      /\ WF_vars(FailDecrease(c))

LiveSpec == Spec /\ Fairness

ProducersRemain ==
    <>[](~crashed /\ \E id \in DOMAIN gSvrId2ProducerState : gSvrId2ProducerState[id].stub)

\* While producers remain, every BeginPush is answered: the window reopens
\* whatever mixture of answers, failures and evictions its calls met.
BeginPushReturns ==
    ProducersRemain =>
      \A p \in Push :
        phase[<<p, 1>>] = "begin"
          ~> phase[<<p, ChunksPerPush>>] \notin {"none", "begin"}

\* While producers remain, a chunk whose push was begun is tried again and
\* again until a producer confirms it: a failed call is never the last word.
TriedUntilDone ==
    ProducersRemain =>
      \A c \in Chunk :
        phase[<<c[1], 1>>] = "begin" ~> []<>(phase[c] \in {"sent", "done"})

=============================================================================
