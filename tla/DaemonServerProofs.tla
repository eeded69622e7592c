--------------------------- MODULE DaemonServerProofs ---------------------------
(* Theorems about DaemonServer, for every value of its constants. *)
EXTENDS DaemonServer, SetLemmas

(***************************************************************************)
(* Lemmas about the operators DaemonServer is built from.                  *)
(***************************************************************************)

\* There are fewer chunks than values of a uint32_t.
LEMMA ChunkFinite ==
  IsFiniteSet(Chunk) /\ Cardinality(Chunk) \in 0..(UINT32 - 1)
<1>1. IsFiniteSet(1..ChunksPerPush)
  BY FS_Interval, ChunkAssumption
<1>2. IsFiniteSet(Chunk)
  BY <1>1, FS_Product, ChunkAssumption DEF Chunk
<1>3. QED BY <1>2, FS_CardinalityType, ChunkAssumption

\* So a set of chunks never has as many members as there are uint32_t values.
LEMMA ChunkSetCardinality ==
  ASSUME NEW S \in SUBSET Chunk
  PROVE  IsFiniteSet(S) /\ Cardinality(S) \in 0..(UINT32 - 1)
BY ChunkFinite, SubsetCardinality, ChunkAssumption

\* The calls outstanding to an id fit a uint32_t.
LEMMA OutstandingFits ==
  /\ Cardinality(Outstanding) \in 0..(UINT32 - 1)
  /\ \A id : Cardinality(OutstandingTo(id)) \in 0..(UINT32 - 1)
BY ChunkSetCardinality DEF Outstanding, OutstandingTo

\* The constructor of a ProducerState makes a ProducerState.
LEMMA NewProducerStateType ==
  ASSUME NEW id, NEW hasStub \in BOOLEAN
  PROVE  NewProducerState(id, hasStub) \in ProducerState
BY OutstandingFits, ChunkAssumption DEF NewProducerState, ProducerState

\* operator[] adds entries and changes none.
LEMMA WithDefaultsType ==
  ASSUME NEW states, IsMap(states, SvrId, ProducerState), NEW ids \in SUBSET SvrId
  PROVE  /\ IsMap(WithDefaults(states, ids), SvrId, ProducerState)
         /\ DOMAIN WithDefaults(states, ids) = DOMAIN states \cup ids
         /\ \A id \in DOMAIN states : WithDefaults(states, ids)[id] = states[id]
         /\ \A id \in ids \ DOMAIN states :
              WithDefaults(states, ids)[id] = NewProducerState(id, FALSE)
BY NewProducerStateType DEF WithDefaults, IsMap

\* Removing keys keeps a map a map.
LEMMA WithoutType ==
  ASSUME NEW f, NEW S, NEW T, NEW D, IsMap(f, S, T)
  PROVE  /\ IsMap(Without(f, D), S, T)
         /\ DOMAIN Without(f, D) = DOMAIN f \ D
         /\ \A x \in DOMAIN f \ D : Without(f, D)[x] = f[x]
BY DEF Without, IsMap

\* Setting one entry keeps a map a map.
LEMMA WithEntryType ==
  ASSUME NEW f, NEW S, NEW T, IsMap(f, S, T), NEW k \in S, NEW v \in T
  PROVE  /\ IsMap(WithEntry(f, k, v), S, T)
         /\ DOMAIN WithEntry(f, k, v) = DOMAIN f \cup {k}
         /\ WithEntry(f, k, v)[k] = v
         /\ \A x \in DOMAIN f \ {k} : WithEntry(f, k, v)[x] = f[x]
BY DEF WithEntry, IsMap

\* Every rank belongs to a registered process.
LEMMA RanksOfRegistered ==
  ASSUME NEW info, DOMAIN info \subseteq SvrId
  PROVE  /\ Image(RanksOf(info)) \subseteq DOMAIN info
         /\ DOMAIN RanksOf(info) = {SumOfScores(info)[id] : id \in DOMAIN info}
<1> DEFINE rank == SumOfScores(info)
           Owners(r) == {id \in DOMAIN info : rank[id] = r}
<1>1. DOMAIN RanksOf(info) = {rank[id] : id \in DOMAIN info}
  BY DEF RanksOf
<1>2. \A r \in DOMAIN RanksOf(info) : Max(Owners(r)) \in DOMAIN info
  <2> SUFFICES ASSUME NEW id \in DOMAIN info PROVE Max(Owners(rank[id])) \in DOMAIN info
    BY <1>1
  <2>1. id \in Owners(rank[id]) /\ Owners(rank[id]) \in SUBSET (0..MaxSvrId)
    BY DEF SvrId
  <2> HIDE DEF Owners
  <2>2. Max(Owners(rank[id])) \in Owners(rank[id])
    BY <2>1, MaxIsGreatest, MaxSvrIdAssumption
  <2>3. QED BY <2>2 DEF Owners
<1>3. \A r \in DOMAIN RanksOf(info) : RanksOf(info)[r] = Max(Owners(r))
  BY DEF RanksOf
<1> HIDE DEF Owners, rank
<1>4. QED BY <1>1, <1>2, <1>3 DEF Image, rank

\* Rebalance keeps the types of the two tables it writes.
LEMMA RebalanceType ==
  ASSUME NEW info, DOMAIN info \subseteq SvrId,
         NEW states, IsMap(states, SvrId, ProducerState),
         Rebalance(info, states)
  PROVE  /\ IsMap(gSvrId2ProducerState, SvrId, ProducerState)'
         /\ DOMAIN gSvrId2ProducerState' = DOMAIN states \cup DOMAIN info
         /\ \A id \in DOMAIN states : gSvrId2ProducerState'[id] = states[id]
         /\ \A id \in DOMAIN info \ DOMAIN states :
              gSvrId2ProducerState'[id] = NewProducerState(id, FALSE)
         /\ Image(gRank2SvrId') \subseteq DOMAIN info
<1>1. /\ IsMap(WithDefaults(states, DOMAIN info), SvrId, ProducerState)
      /\ DOMAIN WithDefaults(states, DOMAIN info) = DOMAIN states \cup DOMAIN info
      /\ \A id \in DOMAIN states : WithDefaults(states, DOMAIN info)[id] = states[id]
      /\ \A id \in DOMAIN info \ DOMAIN states :
           WithDefaults(states, DOMAIN info)[id] = NewProducerState(id, FALSE)
  BY WithDefaultsType
<1>2. Image(RanksOf(info)) \subseteq DOMAIN info
  BY RanksOfRegistered
<1>3. /\ gRank2SvrId' = RanksOf(info)
      /\ gSvrId2ProducerState' = WithDefaults(states, DOMAIN info)
  BY DEF Rebalance
<1>4. QED BY <1>1, <1>2, <1>3 DEF IsMap, ProducerState

\* DecreaseProducerTask keeps the types of what it writes.
LEMMA DecreaseType ==
  ASSUME TypeOK, NEW id, DecreaseProducerTask(id)
  PROVE  /\ sendingCount' \in 0..(UINT32 - 1)
         /\ IsMap(gSvrId2ProducerState, SvrId, ProducerState)'
         /\ DOMAIN gSvrId2ProducerState' = DOMAIN gSvrId2ProducerState
         /\ gSetIdleProducer' \subseteq DOMAIN gSvrId2ProducerState'
<1>1. sendingCount' \in 0..(UINT32 - 1)
  BY ChunkAssumption, ChunkFinite DEF TypeOK, DecreaseProducerTask, Dec
<1>2. CASE id \notin DOMAIN gSvrId2ProducerState
  BY <1>1, <1>2 DEF TypeOK, DecreaseProducerTask, IsMap, ProducerState
<1>3. CASE id \in DOMAIN gSvrId2ProducerState
  <2>1. gSvrId2ProducerState[id] \in ProducerState
    BY <1>3 DEF TypeOK, IsMap
  <2> DEFINE curTask == Dec(gSvrId2ProducerState[id].curTaskCount)
  <2>2. curTask \in 0..(UINT32 - 1)
    BY <2>1, ChunkAssumption, ChunkFinite DEF ProducerState, Dec
  <2>3. gSvrId2ProducerState' = [gSvrId2ProducerState EXCEPT ![id].curTaskCount = curTask]
    BY <1>3 DEF DecreaseProducerTask
  <2>4. gSetIdleProducer' \subseteq gSetIdleProducer \cup {id}
    BY <1>3 DEF DecreaseProducerTask
  <2> HIDE DEF curTask
  <2>5. QED BY <1>1, <1>3, <2>1, <2>2, <2>3, <2>4 DEF TypeOK, IsMap, ProducerState
<1>4. QED BY <1>2, <1>3

\* The id handed to a new process is an id.
LEMMA NewIdsType ==
  NewIds \subseteq SvrId
BY FirstSvrIdAssumption DEF NewIds

\* The loop has not sent the chunk it takes up next.
LEMMA FollowingWaits ==
  ASSUME LoopInOrder, NEW c \in Chunk
  PROVE  \A x \in Following(c) :
           /\ x = <<c[1], c[2] + 1>> /\ x \in Chunk
           /\ phase[c] = "begin" /\ phase[x] = "none"
<1> SUFFICES ASSUME NEW x \in Following(c)
             PROVE  /\ x = <<c[1], c[2] + 1>> /\ x \in Chunk
                    /\ phase[c] = "begin" /\ phase[x] = "none"
  OBVIOUS
<1>1. phase[c] = "begin" /\ x = <<c[1], c[2] + 1>> /\ x \in Chunk
  BY DEF Following
<1>2. PICK p \in Push, i \in 1..ChunksPerPush : c = <<p, i>>
  BY DEF Chunk
<1>3. x = <<p, i + 1>> /\ i + 1 \in 1..ChunksPerPush
  BY <1>1, <1>2, ChunkAssumption DEF Chunk
<1>4. phase[<<p, i + 1>>] = "none"
  BY <1>1, <1>2, <1>3, ChunkAssumption DEF LoopInOrder
<1>5. QED BY <1>1, <1>3, <1>4

\* Starting a call keeps the loops in order.
LEMMA SendInOrder ==
  ASSUME TypeOK, LoopInOrder, NEW c \in Chunk, Selecting(c), NEW id, Send(c, id)
  PROVE  LoopInOrder'
<1> SUFFICES ASSUME NEW p \in Push, NEW i \in 1..ChunksPerPush, NEW j \in 1..ChunksPerPush,
                    i < j, phase'[<<p, i>>] \in {"none", "begin"}
             PROVE  phase'[<<p, j>>] = "none"
  BY DEF LoopInOrder
<1>1. PICK q \in Push, k \in 1..ChunksPerPush : c = <<q, k>>
  BY DEF Chunk
<1>2. <<p, i>> \in Chunk /\ <<p, j>> \in Chunk
  BY DEF Chunk
<1>3. \A x \in Chunk : phase'[x] = IF x = c THEN "sent"
                                   ELSE IF x \in Following(c) THEN "begin"
                                   ELSE phase[x]
  BY DEF Send
<1>4. <<p, i>> # c
  BY <1>2, <1>3
<1>5. phase[c] \in {"begin", "resend"}
  BY DEF Selecting
<1>6. CASE <<p, i>> \in Following(c)
  <2>1. phase[c] = "begin" /\ p = q /\ i = k + 1
    BY <1>1, <1>6, FollowingWaits
  <2>2. phase[<<p, j>>] = "none" /\ j # k /\ j # k + 1
    BY <1>1, <2>1, ChunkAssumption DEF LoopInOrder
  <2>3. <<p, j>> # c /\ <<p, j>> \notin Following(c)
    BY <1>1, <2>1, <2>2, FollowingWaits
  <2>4. QED BY <1>2, <1>3, <2>2, <2>3
<1>7. CASE <<p, i>> \notin Following(c)
  <2>1. phase[<<p, i>>] \in {"none", "begin"}
    BY <1>2, <1>3, <1>4, <1>7
  <2>2. phase[<<p, j>>] = "none"
    BY <2>1 DEF LoopInOrder
  <2>3. <<p, j>> # c
    BY <1>5, <2>2
  <2>4. <<p, j>> \notin Following(c)
    <3> SUFFICES ASSUME <<p, j>> \in Following(c) PROVE FALSE
      OBVIOUS
    <3>1. phase[c] = "begin" /\ p = q /\ j = k + 1
      BY <1>1, FollowingWaits
    <3>2. i < k
      BY <1>1, <1>4, <3>1, ChunkAssumption
    <3>3. phase[c] = "none"
      BY <1>1, <2>1, <3>1, <3>2 DEF LoopInOrder
    <3>4. QED BY <3>1, <3>3
  <2>5. QED BY <1>2, <1>3, <2>2, <2>3, <2>4
<1>8. QED BY <1>6, <1>7

\* Starting a call keeps the types, whoever is called.
LEMMA SendType ==
  ASSUME TypeOK, LoopInOrder, NEW c \in Chunk, Selecting(c), NEW id, Send(c, id)
  PROVE  /\ sendingCount' \in 0..(UINT32 - 1)
         /\ IsMap(gSvrId2ProducerState, SvrId, ProducerState)'
         /\ DOMAIN gSvrId2ProducerState' = DOMAIN gSvrId2ProducerState
         /\ phase' \in [Chunk -> Phase]
         /\ target' \in [Chunk -> SvrId \cup {NoSvr}]
         /\ \A x \in Chunk : (target'[x] # NoSvr) <=> (phase'[x] \in {"sent", "failed"})
<1>1. id \in DOMAIN gSvrId2ProducerState /\ gSvrId2ProducerState[id] \in ProducerState
      /\ id \in SvrId /\ id # NoSvr
  BY MaxSvrIdAssumption DEF TypeOK, Send, HasStub, IsMap, SvrId, NoSvr
<1>2. sendingCount' \in 0..(UINT32 - 1)
  BY ChunkAssumption, ChunkFinite DEF TypeOK, Send, Inc
<1>3. IsMap(gSvrId2ProducerState, SvrId, ProducerState)'
      /\ DOMAIN gSvrId2ProducerState' = DOMAIN gSvrId2ProducerState
  <2> DEFINE curTask == Inc(gSvrId2ProducerState[id].curTaskCount)
  <2>1. curTask \in 0..(UINT32 - 1)
    BY <1>1, ChunkAssumption, ChunkFinite DEF ProducerState, Inc
  <2>2. gSvrId2ProducerState' =
          [gSvrId2ProducerState EXCEPT ![id].curTaskCount = curTask, ![id].called = TRUE]
    BY DEF Send
  <2> HIDE DEF curTask
  <2>3. QED BY <1>1, <2>1, <2>2 DEF TypeOK, IsMap, ProducerState
<1>4. phase' \in [Chunk -> Phase]
  BY DEF TypeOK, Send, Phase
<1>5. target' = [target EXCEPT ![c] = id] /\ target' \in [Chunk -> SvrId \cup {NoSvr}]
  BY <1>1 DEF TypeOK, Send
<1>6. ASSUME NEW x \in Chunk
      PROVE  (target'[x] # NoSvr) <=> (phase'[x] \in {"sent", "failed"})
  <2>1. CASE x = c
    BY <1>1, <1>5, <2>1 DEF TypeOK, Send
  <2>2. CASE x # c /\ x \notin Following(c)
    BY <1>5, <2>2 DEF TypeOK, Send
  <2>3. CASE x # c /\ x \in Following(c)
    \* the chunk that follows the loop's has not been sent yet
    <3>1. phase'[x] = "begin" /\ target'[x] = target[x]
      BY <1>5, <2>3 DEF TypeOK, Send
    <3>2. phase[x] = "none"
      BY <2>3, FollowingWaits
    <3>3. QED BY <3>1, <3>2 DEF TypeOK
  <2>4. QED BY <2>1, <2>2, <2>3
<1>7. QED BY <1>2, <1>3, <1>4, <1>5, <1>6

(***************************************************************************)
(* Types and the order of the loops.                                       *)
(***************************************************************************)

\* Changing one chunk's phase, from a phase no loop is at and to another one,
\* keeps the loops in order.
LEMMA OneChunkInOrder ==
  ASSUME TypeOK, LoopInOrder, NEW c \in Chunk, NEW to \in {"sent", "failed", "resend", "done"},
         phase[c] \in {"sent", "failed"}, phase' = [phase EXCEPT ![c] = to]
  PROVE  LoopInOrder' /\ phase' \in [Chunk -> Phase]
<1>1. phase' \in [Chunk -> Phase]
  BY DEF TypeOK, Phase
<1>2. LoopInOrder'
  <2> SUFFICES ASSUME NEW p \in Push, NEW i \in 1..ChunksPerPush, NEW j \in 1..ChunksPerPush,
                      i < j, phase'[<<p, i>>] \in {"none", "begin"}
               PROVE  phase'[<<p, j>>] = "none"
    BY DEF LoopInOrder
  <2>1. <<p, i>> \in Chunk /\ <<p, j>> \in Chunk
    BY DEF Chunk
  <2>2. <<p, i>> # c /\ phase[<<p, i>>] \in {"none", "begin"}
    BY <2>1 DEF TypeOK
  <2>3. phase[<<p, j>>] = "none"
    BY <2>2 DEF LoopInOrder
  <2>4. QED BY <2>1, <2>3 DEF TypeOK
<1>3. QED BY <1>1, <1>2

\* TypeOK needs LoopInOrder: a chunk the loop reaches has no call outstanding.
TypeInv == TypeOK /\ LoopInOrder

\* The sweep leaves a map, without the producers it erased.
LEMMA SweepType ==
  ASSUME TypeOK, CheckProcAlive
  PROVE  /\ IsMap(gSvrId2ProducerState', SvrId, ProducerState)
         /\ DOMAIN gSvrId2ProducerState' = DOMAIN StatesInSweep \ ExpiredProducers
         /\ gSetIdleProducer' \subseteq DOMAIN gSvrId2ProducerState'
<1>1. IsMap(StatesInSweep, SvrId, ProducerState)
      /\ DOMAIN gSvrId2ProducerState \subseteq DOMAIN StatesInSweep
  <2>1. CASE ExpiredProducers = {}
    BY <2>1 DEF StatesInSweep, TypeOK
  <2>2. CASE ExpiredProducers # {}
    <3> DEFINE ids == DOMAIN SweptUpto(Min(ExpiredProducers))
    <3>1. ids \in SUBSET SvrId
      BY DEF SweptUpto, Without, TypeOK, IsMap
    <3>2. StatesInSweep = WithDefaults(gSvrId2ProducerState, ids)
      BY <2>2 DEF StatesInSweep
    <3> HIDE DEF ids
    <3>3. IsMap(gSvrId2ProducerState, SvrId, ProducerState)
      BY DEF TypeOK
    <3>4. QED BY <3>1, <3>2, <3>3, WithDefaultsType
  <2>3. QED BY <2>1, <2>2
<1> DEFINE states == Without(StatesInSweep, ExpiredProducers)
<1>2. IsMap(states, SvrId, ProducerState)
      /\ DOMAIN states = DOMAIN StatesInSweep \ ExpiredProducers
  BY <1>1 DEF Without, IsMap
<1>3. gSvrId2ProducerState' = ResetFailCount(states)
      /\ gSetIdleProducer' = gSetIdleProducer \ ExpiredProducers
  BY DEF CheckProcAlive
<1> HIDE DEF states
<1>4. IsMap(ResetFailCount(states), SvrId, ProducerState)
      /\ DOMAIN ResetFailCount(states) = DOMAIN states
  BY <1>2 DEF ResetFailCount, IsMap, ProducerState
<1>5. QED BY <1>1, <1>2, <1>3, <1>4 DEF TypeOK

\* The ranks after a sweep are ids.
LEMMA SweepRanks ==
  ASSUME TypeOK, CheckProcAlive
  PROVE  Image(gRank2SvrId') \subseteq SvrId
<1> DEFINE info == SweptUpto(Max(ExpiredProducers))
<1>1. DOMAIN info \subseteq SvrId
  BY DEF SweptUpto, Without, TypeOK, IsMap
<1>2. gRank2SvrId' = gRank2SvrId \/ gRank2SvrId' = RanksOf(info)
  BY DEF CheckProcAlive
<1> HIDE DEF info
<1>3. Image(RanksOf(info)) \subseteq SvrId
  BY <1>1, RanksOfRegistered
<1>4. QED BY <1>2, <1>3 DEF TypeOK

\* The circuit breaker keeps the types of the tables.
LEMMA BreakerType ==
  ASSUME TypeOK, NEW c \in Chunk, OnResponseFail(c)
  PROVE  /\ IsMap(gSvrId2SvrInfo', SvrId, SvrInfo)
         /\ IsMap(gSvrId2ProducerState', SvrId, ProducerState)
         /\ gSetIdleProducer' \subseteq DOMAIN gSvrId2ProducerState'
         /\ Image(gRank2SvrId') \subseteq SvrId
<1> DEFINE id == target[c]
           count == gSvrId2ProducerState[id].failCount + 1
           remaining == Without(gSvrId2SvrInfo, {id})
<1>1. CASE id \notin DOMAIN gSvrId2ProducerState
  BY <1>1 DEF OnResponseFail, Disconnect, tables, TypeOK, IsMap, Image
<1>2. CASE id \in DOMAIN gSvrId2ProducerState /\ count <= FAIL_COUNT_LIMIT
  <2>1. /\ gSvrId2ProducerState' = [gSvrId2ProducerState EXCEPT ![id].failCount = count]
        /\ UNCHANGED <<gSvrId2SvrInfo, gSetIdleProducer, gRank2SvrId>>
    BY <1>2 DEF OnResponseFail, Disconnect
  <2>2. gSvrId2ProducerState[id] \in ProducerState /\ count \in Nat
    BY <1>2 DEF TypeOK, IsMap, ProducerState
  <2> HIDE DEF count
  <2>3. QED BY <1>2, <2>1, <2>2 DEF TypeOK, IsMap, ProducerState
<1>3. CASE id \in DOMAIN gSvrId2ProducerState /\ ~ (count <= FAIL_COUNT_LIMIT)
  <2>1. /\ gSetIdleProducer' = gSetIdleProducer \ {id}
        /\ gSvrId2SvrInfo' = remaining
        /\ Rebalance(remaining, Without(gSvrId2ProducerState, {id}))
    BY <1>3 DEF OnResponseFail, Disconnect
  <2> HIDE DEF count, id
  <2>2. IsMap(remaining, SvrId, SvrInfo) /\ DOMAIN remaining \subseteq SvrId
    <3>1. IsMap(gSvrId2SvrInfo, SvrId, SvrInfo)
      BY DEF TypeOK
    <3>2. IsMap(remaining, SvrId, SvrInfo)
      BY <3>1, WithoutType
    <3>3. QED BY <3>2 DEF IsMap
  <2>3. /\ IsMap(Without(gSvrId2ProducerState, {id}), SvrId, ProducerState)
        /\ DOMAIN Without(gSvrId2ProducerState, {id}) = DOMAIN gSvrId2ProducerState \ {id}
    <3>1. IsMap(gSvrId2ProducerState, SvrId, ProducerState)
      BY DEF TypeOK
    <3>2. QED BY <3>1 DEF Without, IsMap
  <2> HIDE DEF remaining
  <2>4. /\ IsMap(gSvrId2ProducerState', SvrId, ProducerState)
        /\ DOMAIN gSvrId2ProducerState' = (DOMAIN gSvrId2ProducerState \ {id}) \cup DOMAIN remaining
        /\ Image(gRank2SvrId') \subseteq DOMAIN remaining
    BY <2>1, <2>2, <2>3, RebalanceType
  <2>5. QED BY <2>1, <2>2, <2>4 DEF TypeOK
<1>4. QED BY <1>1, <1>2, <1>3

\* TypeInv in the next state, in terms of the next values of the variables.
LEMMA TypePrimed ==
  ASSUME IsMap(gSvrId2SvrInfo', SvrId, SvrInfo),
         IsMap(gSvrId2ProducerState', SvrId, ProducerState),
         gSetIdleProducer' \subseteq DOMAIN gSvrId2ProducerState',
         Image(gRank2SvrId') \subseteq SvrId,
         crashed' \in BOOLEAN,
         registrations' \in 0..MaxRegistrations,
         sendingCount' \in 0..(UINT32 - 1),
         phase' \in [Chunk -> Phase],
         target' \in [Chunk -> SvrId \cup {NoSvr}],
         \A c \in Chunk : (target'[c] # NoSvr) <=> (phase'[c] \in {"sent", "failed"})
  PROVE  TypeOK'
BY DEF TypeOK, IsMap, ProducerState, Image

\* Every step of the server keeps the types and the order of its loops.
LEMMA TypeStep ==
  ASSUME TypeInv, [Next]_vars
  PROVE  TypeInv'
<1> USE DEF TypeInv
<1>1. ASSUME NEW procName \in ProcName, ClientRegister(procName)
      PROVE  TypeInv'
  <2>1. PICK id \in NewIds : Register(id, procName)
    BY <1>1 DEF ClientRegister
  <2> DEFINE states == WithEntry(gSvrId2ProducerState, id, NewProducerState(id, TRUE))
  <2>2. id \in SvrId
    BY NewIdsType
  <2>3. IsMap(gSvrId2SvrInfo', SvrId, SvrInfo)
    <3>1. NewSvrInfo(procName) \in SvrInfo
      BY ScoreAssumption DEF NewSvrInfo, SvrInfo
    <3>2. gSvrId2SvrInfo' = WithEntry(gSvrId2SvrInfo, id, NewSvrInfo(procName))
      BY <2>1 DEF Register, AddEntry
    <3>3. QED BY <2>2, <3>1, <3>2, WithEntryType DEF TypeOK
  <2>4. registrations' \in 0..MaxRegistrations /\ crashed' \in BOOLEAN /\ UNCHANGED calls
    <3>1. registrations \in 0..MaxRegistrations /\ MaxRegistrations \in Nat
      BY LimitAssumption DEF TypeOK
    <3>2. /\ registrations < MaxRegistrations /\ registrations' = registrations + 1
          /\ crashed' = FALSE /\ UNCHANGED calls
      BY <2>1 DEF Register, AddEntry, Running
    <3>3. registrations' \in 0..MaxRegistrations
      BY <3>1, <3>2
    <3>4. QED BY <3>2, <3>3
  <2>5. IsMap(states, SvrId, ProducerState) /\ DOMAIN states = DOMAIN gSvrId2ProducerState \cup {id}
    <3>1. IsMap(gSvrId2ProducerState, SvrId, ProducerState)
      BY DEF TypeOK
    <3>2. NewProducerState(id, TRUE) \in ProducerState
      BY NewProducerStateType
    <3>3. PICK new \in ProducerState : states = WithEntry(gSvrId2ProducerState, id, new)
      BY <3>2
    <3> HIDE DEF states
    <3>4. QED BY <2>2, <3>1, <3>3, WithEntryType
  <2> HIDE DEF states
  <2>6. CASE procName = "producer"
    <3>1. Rebalance(gSvrId2SvrInfo', states) /\ gSetIdleProducer' = gSetIdleProducer \cup {id}
      BY <2>1, <2>6 DEF Register, AddEntry, states
    <3>2. DOMAIN gSvrId2SvrInfo' \subseteq SvrId
      BY <2>3 DEF IsMap
    <3>3. /\ IsMap(gSvrId2ProducerState', SvrId, ProducerState)
          /\ DOMAIN gSvrId2ProducerState' = DOMAIN states \cup DOMAIN gSvrId2SvrInfo'
          /\ Image(gRank2SvrId') \subseteq DOMAIN gSvrId2SvrInfo'
      BY <2>5, <3>1, <3>2, RebalanceType
    <3>4. QED BY <2>3, <2>4, <2>5, <3>1, <3>2, <3>3, TypePrimed DEF TypeOK, LoopInOrder, calls
  <2>7. CASE procName # "producer"
    <3>1. UNCHANGED <<gSvrId2ProducerState, gSetIdleProducer, gRank2SvrId>>
      BY <2>1, <2>7 DEF Register, AddEntry
    <3>2. QED BY <2>3, <2>4, <3>1, TypePrimed DEF TypeOK, LoopInOrder, calls
  <2>8. QED BY <2>6, <2>7
<1>2. ASSUME NEW id \in DOMAIN gSvrId2SvrInfo,
             HeartBeat(id) \/ Expire(id) \/ \E score \in Score : LoadBalance(id, score)
      PROVE  TypeInv'
  <2>1. PICK info \in SvrInfo : gSvrId2SvrInfo' = [gSvrId2SvrInfo EXCEPT ![id] = info]
    <3>1. gSvrId2SvrInfo[id] \in SvrInfo
      BY DEF TypeOK, IsMap
    <3>2. CASE HeartBeat(id)
      BY <3>1, <3>2 DEF HeartBeat, TypeOK, IsMap, SvrInfo
    <3>3. CASE Expire(id)
      BY <3>1, <3>3 DEF Expire, TypeOK, IsMap, SvrInfo
    <3>4. CASE \E score \in Score : LoadBalance(id, score)
      BY <3>1, <3>4, ScoreAssumption DEF LoadBalance, TypeOK, IsMap, SvrInfo
    <3>5. QED BY <1>2, <3>2, <3>3, <3>4
  <2>2. IsMap(gSvrId2SvrInfo', SvrId, SvrInfo)
    BY <2>1 DEF TypeOK, IsMap
  <2>3. UNCHANGED <<gSvrId2ProducerState, gSetIdleProducer, gRank2SvrId, calls, registrations>>
        /\ crashed' \in BOOLEAN
    BY <1>2 DEF HeartBeat, Expire, LoadBalance, Running
  <2>4. QED BY <2>2, <2>3, TypePrimed DEF TypeOK, LoopInOrder, calls
<1>3. CASE CheckProcAlive
  <2>1. IsMap(gSvrId2SvrInfo', SvrId, SvrInfo)
    BY <1>3, WithoutType DEF TypeOK, CheckProcAlive
  <2>2. IsMap(gSvrId2ProducerState', SvrId, ProducerState)
        /\ gSetIdleProducer' \subseteq DOMAIN gSvrId2ProducerState'
    BY <1>3, SweepType DEF CheckProcAlive
  <2>3. Image(gRank2SvrId') \subseteq SvrId
    BY <1>3, SweepRanks DEF TypeOK, CheckProcAlive
  <2>4. UNCHANGED <<calls, registrations>> /\ crashed' \in BOOLEAN
    BY <1>3 DEF CheckProcAlive, Running
  <2>5. QED BY <2>1, <2>2, <2>3, <2>4, TypePrimed DEF TypeOK, LoopInOrder, calls
<1>4. CASE ReBalanceTimer
  <2>1. /\ IsMap(gSvrId2ProducerState', SvrId, ProducerState)
        /\ DOMAIN gSvrId2ProducerState' = DOMAIN gSvrId2ProducerState \cup DOMAIN gSvrId2SvrInfo
        /\ Image(gRank2SvrId') \subseteq SvrId
    BY <1>4, RebalanceType DEF ReBalanceTimer, TypeOK, IsMap
  <2>2. UNCHANGED <<gSvrId2SvrInfo, gSetIdleProducer, calls, registrations>> /\ crashed' \in BOOLEAN
    BY <1>4 DEF ReBalanceTimer, Running
  <2>3. QED BY <2>1, <2>2, TypePrimed DEF TypeOK, LoopInOrder, calls
<1>5. ASSUME NEW p \in Push, BeginPush(p)
      PROVE  TypeInv'
  <2>1. <<p, 1>> \in Chunk
    BY ChunkAssumption DEF Chunk
  <2>2. phase' = [phase EXCEPT ![<<p, 1>>] = "begin"] /\ phase[<<p, 1>>] = "none"
        /\ UNCHANGED <<tables, sendingCount, target, registrations>> /\ crashed' \in BOOLEAN
    BY <1>5 DEF BeginPush, Running
  <2>3. LoopInOrder'
    <3> SUFFICES ASSUME NEW q \in Push, NEW i \in 1..ChunksPerPush, NEW j \in 1..ChunksPerPush,
                        i < j, phase'[<<q, i>>] \in {"none", "begin"}
                 PROVE  phase'[<<q, j>>] = "none"
      BY DEF LoopInOrder
    <3>1. <<q, i>> \in Chunk /\ <<q, j>> \in Chunk /\ <<q, j>> # <<p, 1>>
      BY ChunkAssumption DEF Chunk
    <3>2. phase[<<q, i>>] \in {"none", "begin"}
      BY <2>1, <2>2, <3>1 DEF TypeOK
    <3>3. QED BY <2>2, <3>1, <3>2 DEF TypeOK, LoopInOrder
  <2>4. QED BY <2>1, <2>2, <2>3, TypePrimed DEF TypeOK, tables, Phase
<1>6. ASSUME NEW c \in Chunk, SelectIdle(c) \/ \E draw \in 0..RandomFactor : SelectByRank(c, draw)
      PROVE  TypeInv'
  <2>1. PICK id : Send(c, id)
    BY <1>6 DEF SelectIdle, SelectByRank
  <2>2. Selecting(c)
    BY <1>6 DEF SelectIdle, SelectByRank
  <2>3. LoopInOrder'
    BY <2>1, <2>2, SendInOrder
  <2>4. UNCHANGED <<gSvrId2SvrInfo, gRank2SvrId, registrations>> /\ crashed' \in BOOLEAN
        /\ gSetIdleProducer' \subseteq gSetIdleProducer
    BY <1>6 DEF SelectIdle, SelectByRank, Running
  <2>5. QED BY <2>1, <2>2, <2>3, <2>4, SendType, TypePrimed DEF TypeOK
<1>7. ASSUME NEW c \in Chunk, SelectCrash(c)
      PROVE  TypeInv'
  BY <1>7, TypePrimed DEF SelectCrash, TypeOK, tables, calls, LoopInOrder
<1>8. ASSUME NEW c \in Chunk, OnGetSuccess(c) \/ OnGetErrCode(c) \/ FailDecrease(c)
      PROVE  TypeInv'
  <2>1. DecreaseProducerTask(target[c])
    BY <1>8 DEF OnGetSuccess, OnGetErrCode, FailDecrease
  <2>2. PICK to \in {"done", "resend"} : phase' = [phase EXCEPT ![c] = to]
    BY <1>8 DEF OnGetSuccess, OnGetErrCode, FailDecrease
  <2>3. /\ phase[c] \in {"sent", "failed"} /\ target' = [target EXCEPT ![c] = NoSvr]
        /\ UNCHANGED <<gSvrId2SvrInfo, gRank2SvrId, registrations>> /\ crashed' \in BOOLEAN
    BY <1>8 DEF OnGetSuccess, OnGetErrCode, FailDecrease, Running
  <2>4. LoopInOrder' /\ phase' \in [Chunk -> Phase]
    BY <2>2, <2>3, OneChunkInOrder
  <2>5. /\ target' \in [Chunk -> SvrId \cup {NoSvr}]
        /\ \A x \in Chunk : (target'[x] # NoSvr) <=> (phase'[x] \in {"sent", "failed"})
    BY <2>2, <2>3 DEF TypeOK
  <2>6. QED BY <2>1, <2>3, <2>4, <2>5, DecreaseType, TypePrimed DEF TypeOK
<1>9. ASSUME NEW c \in Chunk, OnResponseFail(c)
      PROVE  TypeInv'
  <2>1. /\ phase[c] = "sent" /\ phase' = [phase EXCEPT ![c] = "failed"]
        /\ UNCHANGED <<sendingCount, target, registrations>> /\ crashed' \in BOOLEAN
    BY <1>9 DEF OnResponseFail, Disconnect, Running
  <2>2. LoopInOrder' /\ phase' \in [Chunk -> Phase]
    BY <2>1, OneChunkInOrder
  <2>3. \A x \in Chunk : (target'[x] # NoSvr) <=> (phase'[x] \in {"sent", "failed"})
    BY <2>1 DEF TypeOK
  <2>4. /\ IsMap(gSvrId2SvrInfo', SvrId, SvrInfo)
        /\ IsMap(gSvrId2ProducerState', SvrId, ProducerState)
        /\ gSetIdleProducer' \subseteq DOMAIN gSvrId2ProducerState'
        /\ Image(gRank2SvrId') \subseteq SvrId
    BY <1>9, BreakerType
  <2>5. QED BY <2>1, <2>2, <2>3, <2>4, TypePrimed DEF TypeOK
<1>10. CASE UNCHANGED vars
  BY <1>10, TypePrimed DEF vars, tables, calls, TypeOK, LoopInOrder
<1>11. QED
  BY <1>1, <1>2, <1>3, <1>4, <1>5, <1>6, <1>7, <1>8, <1>9, <1>10 DEF Next

\* The empty server has the types, and no loop runs.
LEMMA TypeInit ==
  Init => TypeInv
<1> SUFFICES ASSUME Init PROVE TypeInv
  OBVIOUS
<1>1. LoopInOrder
  BY DEF Init, LoopInOrder, Chunk
<1>2. IsMap(EmptyMap, SvrId, SvrInfo) /\ IsMap(EmptyMap, SvrId, ProducerState)
      /\ Image(EmptyMap) = {}
  BY DEF IsMap, EmptyMap, Image
<1>3. sendingCount \in 0..(UINT32 - 1) /\ registrations \in 0..MaxRegistrations
  BY ChunkAssumption, ChunkFinite, LimitAssumption DEF Init
<1>4. QED BY <1>1, <1>2, <1>3 DEF Init, TypeInv, TypeOK, Phase

\* The tables, the counters and the chunks always have values of their types.
THEOREM TypeCorrect == Spec => []TypeOK
<1>1. TypeInv => TypeOK
  BY DEF TypeInv
<1>2. QED BY <1>1, TypeInit, TypeStep, PTL DEF Spec

(***************************************************************************)
(* The accounts: sendingCount, curTaskCount and gSetIdleProducer.          *)
(***************************************************************************)

\* The calls outstanding to a process that was sent none since it registered
\* are among those an earlier owner of its id left behind.
UncalledInherits ==
    \A id \in DOMAIN gSvrId2ProducerState :
      ~gSvrId2ProducerState[id].called
        => Cardinality(OutstandingTo(id)) <= gSvrId2ProducerState[id].inherited

\* An entry the step leaves in the tables, and one that it makes.
Kept(id) ==
    /\ id \in DOMAIN gSvrId2ProducerState
    /\ gSvrId2ProducerState'[id].curTaskCount = gSvrId2ProducerState[id].curTaskCount
    /\ gSvrId2ProducerState'[id].inherited = gSvrId2ProducerState[id].inherited
    /\ gSvrId2ProducerState'[id].called = gSvrId2ProducerState[id].called
    /\ gSvrId2ProducerState'[id].stub = gSvrId2ProducerState[id].stub
    /\ id \in gSetIdleProducer' <=> id \in gSetIdleProducer

Fresh(id) ==
    /\ gSvrId2ProducerState'[id].curTaskCount = 0
    /\ gSvrId2ProducerState'[id].inherited = Cardinality(OutstandingTo(id))
    /\ gSvrId2ProducerState'[id].stub => id \in gSetIdleProducer'

\* A step that starts and answers no call, and whose entries are kept or fresh,
\* keeps the accounts of every entry.
LEMMA TablesStep ==
  ASSUME TypeOK, TaskCountExact, IdleExact, UncalledInherits,
         \A id : OutstandingTo(id)' = OutstandingTo(id),
         \A id \in DOMAIN gSvrId2ProducerState' : Kept(id) \/ Fresh(id)
  PROVE  TaskCountExact' /\ IdleExact' /\ UncalledInherits'
<1>1. \A id : OutstandingTo(id)' = OutstandingTo(id)
  OBVIOUS
<1>2. \A id : /\ Cardinality(OutstandingTo(id)) \in 0..(UINT32 - 1)
              /\ Cardinality(OutstandingTo(id)) = 0 <=> OutstandingTo(id) = {}
  BY OutstandingFits, ChunkSetCardinality, FS_EmptySet DEF OutstandingTo, Outstanding
<1>3. TaskCountExact'
  <2> SUFFICES ASSUME NEW id \in DOMAIN gSvrId2ProducerState'
               PROVE  LET state == gSvrId2ProducerState'[id]
                          own == Cardinality(OutstandingTo(id)) - state.inherited
                      IN state.curTaskCount = IF own >= 0 THEN own ELSE UINT32 + own
    BY <1>1 DEF TaskCountExact
  <2>1. CASE Kept(id)
    BY <2>1 DEF Kept, TaskCountExact
  <2>2. CASE Fresh(id)
    BY <2>2, <1>2 DEF Fresh
  <2>3. QED BY <2>1, <2>2
<1>4. IdleExact'
  <2> SUFFICES ASSUME NEW id \in DOMAIN gSvrId2ProducerState',
                      gSvrId2ProducerState'[id].stub, gSvrId2ProducerState'[id].inherited = 0
               PROVE  id \in gSetIdleProducer' <=> OutstandingTo(id) = {}
    BY <1>1 DEF IdleExact
  <2>1. CASE Kept(id)
    BY <2>1 DEF Kept, IdleExact
  <2>2. CASE Fresh(id)
    BY <2>2, <1>2 DEF Fresh
  <2>3. QED BY <2>1, <2>2
<1>5. UncalledInherits'
  <2> SUFFICES ASSUME NEW id \in DOMAIN gSvrId2ProducerState',
                      ~gSvrId2ProducerState'[id].called
               PROVE  Cardinality(OutstandingTo(id)) <= gSvrId2ProducerState'[id].inherited
    BY <1>1 DEF UncalledInherits
  <2>1. CASE Kept(id)
    BY <2>1 DEF Kept, UncalledInherits
  <2>2. CASE Fresh(id)
    BY <2>2, <1>2 DEF Fresh
  <2>3. QED BY <2>1, <2>2
<1>6. QED BY <1>3, <1>4, <1>5

\* A default entry is fresh.
LEMMA DefaultIsFresh ==
  ASSUME NEW id, gSvrId2ProducerState'[id] = NewProducerState(id, FALSE)
  PROVE  Fresh(id)
BY DEF Fresh, NewProducerState

\* A registration keeps every entry but its own, which is fresh.
LEMMA RegisterEntries ==
  ASSUME TypeOK, NEW new \in SvrId, NEW procName, Register(new, procName),
         IsMap(gSvrId2SvrInfo', SvrId, SvrInfo)
  PROVE  \A id \in DOMAIN gSvrId2ProducerState' : Kept(id) \/ Fresh(id)
<1> SUFFICES ASSUME NEW id \in DOMAIN gSvrId2ProducerState'
             PROVE  Kept(id) \/ Fresh(id)
  OBVIOUS
<1>1. CASE procName # "producer"
  BY <1>1 DEF Register, AddEntry, Kept
<1>2. CASE procName = "producer"
  <2> DEFINE states == WithEntry(gSvrId2ProducerState, new, NewProducerState(new, TRUE))
  <2>1. Rebalance(gSvrId2SvrInfo', states) /\ gSetIdleProducer' = gSetIdleProducer \cup {new}
    BY <1>2 DEF Register, AddEntry
  <2>2. IsMap(gSvrId2ProducerState, SvrId, ProducerState)
    BY DEF TypeOK
  <2>3. NewProducerState(new, TRUE) \in ProducerState
    BY NewProducerStateType
  <2>4. PICK entry \in ProducerState : entry = NewProducerState(new, TRUE)
    BY <2>3
  <2>5. states = WithEntry(gSvrId2ProducerState, new, entry)
    BY <2>4
  <2> HIDE DEF states
  <2>6. /\ IsMap(states, SvrId, ProducerState)
        /\ DOMAIN states = DOMAIN gSvrId2ProducerState \cup {new}
        /\ states[new] = entry
        /\ \A x \in DOMAIN gSvrId2ProducerState \ {new} : states[x] = gSvrId2ProducerState[x]
    <3>1. IsMap(states, SvrId, ProducerState)
      BY <2>2, <2>5, WithEntryType
    <3>2. QED BY <3>1, <2>5 DEF WithEntry
  <2>7. DOMAIN gSvrId2SvrInfo' \subseteq SvrId
    BY DEF IsMap
  <2>8. \/ id \in DOMAIN states /\ gSvrId2ProducerState'[id] = states[id]
        \/ gSvrId2ProducerState'[id] = NewProducerState(id, FALSE)
    <3>1. /\ DOMAIN gSvrId2ProducerState' = DOMAIN states \cup DOMAIN gSvrId2SvrInfo'
          /\ \A x \in DOMAIN states : gSvrId2ProducerState'[x] = states[x]
          /\ \A x \in DOMAIN gSvrId2SvrInfo' \ DOMAIN states :
               gSvrId2ProducerState'[x] = NewProducerState(x, FALSE)
      BY <2>1, <2>6, <2>7, RebalanceType
    <3>2. QED BY <3>1
  <2>9. CASE gSvrId2ProducerState'[id] = NewProducerState(id, FALSE)
    BY <2>9, DefaultIsFresh
  <2>10. CASE id = new /\ gSvrId2ProducerState'[id] = states[id]
    BY <2>1, <2>4, <2>6, <2>10 DEF Fresh, NewProducerState
  <2>11. CASE id # new /\ id \in DOMAIN states /\ gSvrId2ProducerState'[id] = states[id]
    BY <2>1, <2>6, <2>11 DEF Kept
  <2>12. QED BY <2>8, <2>9, <2>10, <2>11
<1>3. QED BY <1>1, <1>2

\* A sweep keeps the entries it leaves, and makes default ones.
LEMMA SweepEntries ==
  ASSUME TypeOK, CheckProcAlive
  PROVE  \A id \in DOMAIN gSvrId2ProducerState' : Kept(id) \/ Fresh(id)
<1> SUFFICES ASSUME NEW id \in DOMAIN gSvrId2ProducerState'
             PROVE  Kept(id) \/ Fresh(id)
  OBVIOUS
<1>1. id \in DOMAIN StatesInSweep /\ id \notin ExpiredProducers
  BY SweepType
<1>2. gSvrId2ProducerState'[id] = [StatesInSweep[id] EXCEPT !.failCount = 0]
  BY <1>1 DEF CheckProcAlive, ResetFailCount, Without
<1>3. id \in gSetIdleProducer' <=> id \in gSetIdleProducer
  BY <1>1 DEF CheckProcAlive
<1>4. CASE id \in DOMAIN gSvrId2ProducerState /\ StatesInSweep[id] = gSvrId2ProducerState[id]
  <2>1. gSvrId2ProducerState[id] \in ProducerState
    BY <1>4 DEF TypeOK, IsMap
  <2>2. QED BY <1>2, <1>3, <1>4, <2>1 DEF Kept, ProducerState
<1>5. CASE StatesInSweep[id] = NewProducerState(id, FALSE)
  BY <1>2, <1>5 DEF Fresh, NewProducerState
<1>6. \/ id \in DOMAIN gSvrId2ProducerState /\ StatesInSweep[id] = gSvrId2ProducerState[id]
      \/ StatesInSweep[id] = NewProducerState(id, FALSE)
  <2>1. CASE ExpiredProducers = {}
    BY <1>1, <2>1 DEF StatesInSweep
  <2>2. CASE ExpiredProducers # {}
    BY <1>1, <2>2 DEF StatesInSweep, WithDefaults
  <2>3. QED BY <2>1, <2>2
<1>7. QED BY <1>4, <1>5, <1>6

\* The circuit breaker keeps the entries it leaves, and makes default ones.
LEMMA BreakerEntries ==
  ASSUME TypeOK, NEW c \in Chunk, OnResponseFail(c)
  PROVE  \A id \in DOMAIN gSvrId2ProducerState' : Kept(id) \/ Fresh(id)
<1> SUFFICES ASSUME NEW id \in DOMAIN gSvrId2ProducerState'
             PROVE  Kept(id) \/ Fresh(id)
  OBVIOUS
<1> DEFINE to == target[c]
           count == gSvrId2ProducerState[to].failCount + 1
           remaining == Without(gSvrId2SvrInfo, {to})
           states == Without(gSvrId2ProducerState, {to})
<1>1. CASE to \notin DOMAIN gSvrId2ProducerState
  BY <1>1 DEF OnResponseFail, Disconnect, tables, Kept
<1>2. CASE to \in DOMAIN gSvrId2ProducerState /\ count <= FAIL_COUNT_LIMIT
  <2>1. /\ gSvrId2ProducerState' = [gSvrId2ProducerState EXCEPT ![to].failCount = count]
        /\ UNCHANGED gSetIdleProducer
    BY <1>2 DEF OnResponseFail, Disconnect
  <2> HIDE DEF count
  <2>2. gSvrId2ProducerState[id] \in ProducerState /\ id \in DOMAIN gSvrId2ProducerState
    BY <2>1 DEF TypeOK, IsMap
  <2>3. QED BY <2>1, <2>2 DEF Kept, ProducerState
<1>3. CASE to \in DOMAIN gSvrId2ProducerState /\ ~ (count <= FAIL_COUNT_LIMIT)
  <2>1. gSetIdleProducer' = gSetIdleProducer \ {to} /\ Rebalance(remaining, states)
    BY <1>3 DEF OnResponseFail, Disconnect
  <2> HIDE DEF count, to
  <2>2. DOMAIN remaining = DOMAIN gSvrId2SvrInfo \ {to} /\ DOMAIN gSvrId2SvrInfo \subseteq SvrId
    BY DEF Without, TypeOK, IsMap
  <2>3. /\ IsMap(states, SvrId, ProducerState)
        /\ DOMAIN states = DOMAIN gSvrId2ProducerState \ {to}
        /\ \A x \in DOMAIN states : states[x] = gSvrId2ProducerState[x]
    <3>1. IsMap(gSvrId2ProducerState, SvrId, ProducerState)
      BY DEF TypeOK
    <3>2. IsMap(states, SvrId, ProducerState)
      BY <3>1, WithoutType
    <3>3. QED BY <3>2 DEF Without
  <2> HIDE DEF remaining, states
  <2>4. \/ id \in DOMAIN states /\ gSvrId2ProducerState'[id] = states[id]
        \/ id \notin DOMAIN states /\ gSvrId2ProducerState'[id] = NewProducerState(id, FALSE)
    <3>1. DOMAIN remaining \subseteq SvrId
      BY <2>2
    <3>2. /\ DOMAIN gSvrId2ProducerState' = DOMAIN states \cup DOMAIN remaining
          /\ \A x \in DOMAIN states : gSvrId2ProducerState'[x] = states[x]
          /\ \A x \in DOMAIN remaining \ DOMAIN states :
               gSvrId2ProducerState'[x] = NewProducerState(x, FALSE)
      BY <2>1, <2>3, <3>1, RebalanceType
    <3>3. QED BY <3>2
  <2>5. CASE id \in DOMAIN states /\ gSvrId2ProducerState'[id] = states[id]
    BY <2>1, <2>3, <2>5 DEF Kept
  <2>6. QED BY <2>4, <2>5, DefaultIsFresh
<1>4. QED BY <1>1, <1>2, <1>3

\* Starting a call makes it outstanding to whom it was sent.
LEMMA SendOutstanding ==
  ASSUME TypeOK, LoopInOrder, NEW c \in Chunk, Selecting(c), NEW id, Send(c, id)
  PROVE  /\ c \notin Outstanding /\ Outstanding' = Outstanding \cup {c}
         /\ OutstandingTo(id)' = OutstandingTo(id) \cup {c}
         /\ \A j : j # id => OutstandingTo(j)' = OutstandingTo(j)
<1>1. c \notin Outstanding
  BY DEF Selecting, Outstanding
<1>2. \A x \in Chunk : x # c =>
        /\ target'[x] = target[x]
        /\ phase'[x] \in {"sent", "failed"} <=> phase[x] \in {"sent", "failed"}
  <2> SUFFICES ASSUME NEW x \in Chunk, x # c
               PROVE  /\ target'[x] = target[x]
                      /\ phase'[x] \in {"sent", "failed"} <=> phase[x] \in {"sent", "failed"}
    OBVIOUS
  <2>1. target'[x] = target[x] /\ phase'[x] = IF x \in Following(c) THEN "begin" ELSE phase[x]
    BY DEF Send, TypeOK
  <2>2. x \in Following(c) => phase[x] = "none"
    BY FollowingWaits
  <2>3. QED BY <2>1, <2>2
<1>3. phase'[c] = "sent" /\ target'[c] = id
  BY DEF Send, TypeOK
<1>4. Outstanding' = Outstanding \cup {c}
  BY <1>2, <1>3 DEF Outstanding
<1>5. QED BY <1>1, <1>2, <1>3, <1>4 DEF OutstandingTo, Outstanding

\* An answered call is outstanding no more.
LEMMA AnswerOutstanding ==
  ASSUME TypeOK, NEW c \in Chunk, phase[c] \in {"sent", "failed"},
         NEW to \in {"done", "resend"}, phase' = [phase EXCEPT ![c] = to],
         target' = [target EXCEPT ![c] = NoSvr],
         NEW id, id = target[c]
  PROVE  /\ c \in Outstanding /\ Outstanding' = Outstanding \ {c}
         /\ c \in OutstandingTo(id) /\ OutstandingTo(id)' = OutstandingTo(id) \ {c}
         /\ \A j \in SvrId : j # id => OutstandingTo(j)' = OutstandingTo(j)
<1>1. id # NoSvr /\ NoSvr \notin SvrId
  BY MaxSvrIdAssumption DEF TypeOK, SvrId, NoSvr
<1>2. \A x \in Chunk : x # c => target'[x] = target[x] /\ phase'[x] = phase[x]
  BY DEF TypeOK
<1>3. phase'[c] \notin {"sent", "failed"} /\ target'[c] = NoSvr
  BY DEF TypeOK
<1>4. c \in Outstanding /\ Outstanding' = Outstanding \ {c}
  BY <1>2, <1>3 DEF Outstanding
<1>5. c \in OutstandingTo(id) /\ OutstandingTo(id)' = OutstandingTo(id) \ {c}
  BY <1>1, <1>2, <1>3, <1>4 DEF OutstandingTo
<1>6. ASSUME NEW j \in SvrId, j # id
      PROVE  OutstandingTo(j)' = OutstandingTo(j)
  BY <1>1, <1>2, <1>3, <1>4, <1>6 DEF OutstandingTo
<1>7. QED BY <1>4, <1>5, <1>6

\* Adding a chunk to a set of chunks, and removing one, change its size by one.
LEMMA ChunkSetPlusMinus ==
  ASSUME NEW S \in SUBSET Chunk, NEW c \in Chunk
  PROVE  /\ c \notin S => Cardinality(S \cup {c}) = Cardinality(S) + 1
         /\ c \in S => Cardinality(S \ {c}) = Cardinality(S) - 1
BY ChunkSetCardinality, FS_AddElement, FS_RemoveElement

AccountInv == TypeInv /\ SendingCountExact /\ TaskCountExact /\ IdleExact /\ UncalledInherits

\* Starting a call keeps the accounts.
LEMMA SendAccounts ==
  ASSUME AccountInv, NEW c \in Chunk, Selecting(c), NEW id, Send(c, id),
         gSetIdleProducer' = gSetIdleProducer \ {id}
  PROVE  SendingCountExact' /\ TaskCountExact' /\ IdleExact' /\ UncalledInherits'
<1> USE DEF AccountInv, TypeInv
<1>1. /\ c \notin Outstanding /\ Outstanding' = Outstanding \cup {c}
      /\ OutstandingTo(id)' = OutstandingTo(id) \cup {c}
      /\ \A j : j # id => OutstandingTo(j)' = OutstandingTo(j)
  BY SendOutstanding
<1>2. c \notin OutstandingTo(id) /\ OutstandingTo(id) \in SUBSET Chunk /\ Outstanding \in SUBSET Chunk
  BY <1>1 DEF OutstandingTo, Outstanding
<1>3. /\ Cardinality(Outstanding') = Cardinality(Outstanding) + 1
      /\ Cardinality(OutstandingTo(id)') = Cardinality(OutstandingTo(id)) + 1
  BY <1>1, <1>2, ChunkSetPlusMinus
<1>4. /\ Cardinality(Outstanding') \in 0..(UINT32 - 1)
      /\ Cardinality(OutstandingTo(id)') \in 0..(UINT32 - 1)
      /\ Cardinality(Outstanding) \in 0..(UINT32 - 1)
      /\ Cardinality(OutstandingTo(id)) \in 0..(UINT32 - 1)
  <2>1. Outstanding' \in SUBSET Chunk /\ OutstandingTo(id)' \in SUBSET Chunk
    BY <1>1, <1>2
  <2>2. QED BY <1>2, <2>1, ChunkSetCardinality
<1>5. SendingCountExact'
  BY <1>3, <1>4, ChunkAssumption DEF SendingCountExact, Send, Inc
<1>6. /\ id \in DOMAIN gSvrId2ProducerState
      /\ gSvrId2ProducerState[id] \in ProducerState
      /\ DOMAIN gSvrId2ProducerState' = DOMAIN gSvrId2ProducerState
      /\ \A j \in DOMAIN gSvrId2ProducerState :
           j # id => gSvrId2ProducerState'[j] = gSvrId2ProducerState[j]
      /\ gSvrId2ProducerState'[id].curTaskCount = Inc(gSvrId2ProducerState[id].curTaskCount)
      /\ gSvrId2ProducerState'[id].inherited = gSvrId2ProducerState[id].inherited
  BY DEF Send, HasStub, TypeOK, IsMap, ProducerState
<1>7. TaskCountExact'
  <2> SUFFICES ASSUME NEW j \in DOMAIN gSvrId2ProducerState
               PROVE  LET state == gSvrId2ProducerState'[j]
                          own == Cardinality(OutstandingTo(j)') - state.inherited
                      IN state.curTaskCount = IF own >= 0 THEN own ELSE UINT32 + own
    BY <1>6 DEF TaskCountExact
  <2>1. CASE j # id
    <3>1. OutstandingTo(j)' = OutstandingTo(j) /\ gSvrId2ProducerState'[j] = gSvrId2ProducerState[j]
      BY <1>1, <1>6, <2>1
    <3>2. LET state == gSvrId2ProducerState[j]
              own == Cardinality(OutstandingTo(j)) - state.inherited
          IN state.curTaskCount = IF own >= 0 THEN own ELSE UINT32 + own
      BY DEF TaskCountExact
    <3>3. QED BY <3>1, <3>2
  <2>2. CASE j = id
    <3> DEFINE cur == gSvrId2ProducerState[id].curTaskCount
               inh == gSvrId2ProducerState[id].inherited
               out == Cardinality(OutstandingTo(id))
    <3>1. cur \in 0..(UINT32 - 1) /\ inh \in 0..(UINT32 - 1)
      BY <1>6 DEF ProducerState
    <3>2. cur = IF out - inh >= 0 THEN out - inh ELSE UINT32 + (out - inh)
      BY <1>6 DEF TaskCountExact
    <3>3. out \in 0..(UINT32 - 1) /\ out + 1 \in 0..(UINT32 - 1)
      BY <1>3, <1>4
    <3>4. gSvrId2ProducerState'[j].curTaskCount = Inc(cur)
          /\ gSvrId2ProducerState'[j].inherited = inh
          /\ Cardinality(OutstandingTo(j)') = out + 1
      BY <1>3, <1>6, <2>2
    <3> HIDE DEF cur, inh, out
    <3>5. Inc(cur) = IF out + 1 - inh >= 0 THEN out + 1 - inh ELSE UINT32 + (out + 1 - inh)
      BY <3>1, <3>2, <3>3, ChunkAssumption DEF Inc
    <3>6. QED BY <3>1, <3>3, <3>4, <3>5
  <2>3. QED BY <2>1, <2>2
<1>8. IdleExact'
  <2> SUFFICES ASSUME NEW j \in DOMAIN gSvrId2ProducerState,
                      gSvrId2ProducerState'[j].stub, gSvrId2ProducerState'[j].inherited = 0
               PROVE  j \in gSetIdleProducer' <=> OutstandingTo(j)' = {}
    BY <1>6 DEF IdleExact
  <2>1. CASE j # id
    BY <1>1, <1>6, <2>1 DEF IdleExact
  <2>2. CASE j = id
    BY <1>1, <2>2
  <2>3. QED BY <2>1, <2>2
<1>9. UncalledInherits'
  <2>1. gSvrId2ProducerState'[id].called
    BY <1>6 DEF Send, ProducerState
  <2>2. ASSUME NEW j \in DOMAIN gSvrId2ProducerState, j # id
        PROVE  OutstandingTo(j)' = OutstandingTo(j) /\ gSvrId2ProducerState'[j] = gSvrId2ProducerState[j]
    BY <1>1, <1>6, <2>2
  <2>3. QED BY <1>6, <2>1, <2>2 DEF UncalledInherits
<1>10. QED BY <1>5, <1>7, <1>8, <1>9

\* Answering a call keeps the accounts.
LEMMA AnswerAccounts ==
  ASSUME AccountInv, NEW c \in Chunk, phase[c] \in {"sent", "failed"},
         NEW to \in {"done", "resend"}, phase' = [phase EXCEPT ![c] = to],
         target' = [target EXCEPT ![c] = NoSvr],
         DecreaseProducerTask(target[c])
  PROVE  SendingCountExact' /\ TaskCountExact' /\ IdleExact' /\ UncalledInherits'
<1> USE DEF AccountInv, TypeInv
<1>1. PICK id \in SvrId : id = target[c]
  BY DEF TypeOK
<1>2. /\ c \in Outstanding /\ Outstanding' = Outstanding \ {c}
      /\ c \in OutstandingTo(id) /\ OutstandingTo(id)' = OutstandingTo(id) \ {c}
      /\ \A j \in SvrId : j # id => OutstandingTo(j)' = OutstandingTo(j)
  BY <1>1, AnswerOutstanding
<1>3. OutstandingTo(id) \in SUBSET Chunk /\ Outstanding \in SUBSET Chunk
  BY DEF OutstandingTo, Outstanding
<1>4. /\ Cardinality(Outstanding') = Cardinality(Outstanding) - 1
      /\ Cardinality(OutstandingTo(id)') = Cardinality(OutstandingTo(id)) - 1
  BY <1>2, <1>3, ChunkSetPlusMinus
<1>5. /\ Cardinality(Outstanding') \in 0..(UINT32 - 1)
      /\ Cardinality(OutstandingTo(id)') \in 0..(UINT32 - 1)
      /\ Cardinality(OutstandingTo(id)') = 0 <=> OutstandingTo(id)' = {}
      /\ Cardinality(Outstanding) \in 0..(UINT32 - 1)
      /\ Cardinality(OutstandingTo(id)) \in 0..(UINT32 - 1)
  <2>1. Outstanding' \in SUBSET Chunk /\ OutstandingTo(id)' \in SUBSET Chunk
    BY <1>2, <1>3
  <2>2. QED BY <1>3, <2>1, ChunkSetCardinality, FS_EmptySet
<1>6. SendingCountExact'
  BY <1>4, <1>5, ChunkAssumption DEF SendingCountExact, DecreaseProducerTask, Dec
<1>7. DOMAIN gSvrId2ProducerState' = DOMAIN gSvrId2ProducerState
      /\ DOMAIN gSvrId2ProducerState \subseteq SvrId
  BY DecreaseType DEF TypeOK, IsMap
<1>8. ASSUME NEW j \in DOMAIN gSvrId2ProducerState, j # id
      PROVE  /\ OutstandingTo(j)' = OutstandingTo(j)
             /\ gSvrId2ProducerState'[j] = gSvrId2ProducerState[j]
             /\ j \in gSetIdleProducer' <=> j \in gSetIdleProducer
  BY <1>1, <1>2, <1>7, <1>8 DEF DecreaseProducerTask
<1>9. ASSUME id \in DOMAIN gSvrId2ProducerState
      PROVE  LET cur == gSvrId2ProducerState[id].curTaskCount
                 inh == gSvrId2ProducerState[id].inherited
                 own == Cardinality(OutstandingTo(id)) - inh
             IN /\ cur \in 0..(UINT32 - 1) /\ inh \in 0..(UINT32 - 1)
                /\ cur = IF own >= 0 THEN own ELSE UINT32 + own
                /\ gSvrId2ProducerState'[id].curTaskCount = Dec(cur)
                /\ gSvrId2ProducerState'[id].inherited = inh
                /\ gSvrId2ProducerState'[id].called = gSvrId2ProducerState[id].called
                /\ gSvrId2ProducerState'[id].stub = gSvrId2ProducerState[id].stub
                /\ id \in gSetIdleProducer' <=> id \in gSetIdleProducer \/ Dec(cur) = 0
  <2>1. gSvrId2ProducerState[id] \in ProducerState
    BY <1>9 DEF TypeOK, IsMap
  <2>2. LET cur == gSvrId2ProducerState[id].curTaskCount
            inh == gSvrId2ProducerState[id].inherited
            own == Cardinality(OutstandingTo(id)) - inh
        IN cur = IF own >= 0 THEN own ELSE UINT32 + own
    BY <1>9 DEF TaskCountExact
  <2>3. /\ gSvrId2ProducerState' =
             [gSvrId2ProducerState EXCEPT
                ![id].curTaskCount = Dec(gSvrId2ProducerState[id].curTaskCount)]
        /\ gSetIdleProducer' =
             IF Dec(gSvrId2ProducerState[id].curTaskCount) = 0
               THEN gSetIdleProducer \cup {id} ELSE gSetIdleProducer
    BY <1>1, <1>9 DEF DecreaseProducerTask
  <2>4. /\ gSvrId2ProducerState'[id].curTaskCount = Dec(gSvrId2ProducerState[id].curTaskCount)
        /\ gSvrId2ProducerState'[id].inherited = gSvrId2ProducerState[id].inherited
        /\ gSvrId2ProducerState'[id].called = gSvrId2ProducerState[id].called
        /\ gSvrId2ProducerState'[id].stub = gSvrId2ProducerState[id].stub
    BY <1>9, <2>1, <2>3 DEF TypeOK, IsMap, ProducerState
  <2>5. id \in gSetIdleProducer' <=>
          id \in gSetIdleProducer \/ Dec(gSvrId2ProducerState[id].curTaskCount) = 0
    BY <2>3
  <2>6. QED BY <2>1, <2>2, <2>4, <2>5 DEF ProducerState
<1>10. TaskCountExact'
  <2> SUFFICES ASSUME NEW j \in DOMAIN gSvrId2ProducerState
               PROVE  LET state == gSvrId2ProducerState'[j]
                          own == Cardinality(OutstandingTo(j)') - state.inherited
                      IN state.curTaskCount = IF own >= 0 THEN own ELSE UINT32 + own
    BY <1>7 DEF TaskCountExact
  <2>1. CASE j # id
    <3>1. OutstandingTo(j)' = OutstandingTo(j) /\ gSvrId2ProducerState'[j] = gSvrId2ProducerState[j]
      BY <1>8, <2>1
    <3>2. LET state == gSvrId2ProducerState[j]
              own == Cardinality(OutstandingTo(j)) - state.inherited
          IN state.curTaskCount = IF own >= 0 THEN own ELSE UINT32 + own
      BY DEF TaskCountExact
    <3>3. QED BY <3>1, <3>2
  <2>2. CASE j = id
    <3> DEFINE cur == gSvrId2ProducerState[id].curTaskCount
               inh == gSvrId2ProducerState[id].inherited
               out == Cardinality(OutstandingTo(id))
    <3>1. /\ cur \in 0..(UINT32 - 1) /\ inh \in 0..(UINT32 - 1)
          /\ cur = IF out - inh >= 0 THEN out - inh ELSE UINT32 + (out - inh)
      BY <1>9, <2>2
    <3>2. out \in 0..(UINT32 - 1) /\ out - 1 \in 0..(UINT32 - 1)
      BY <1>4, <1>5
    <3>3. gSvrId2ProducerState'[j].curTaskCount = Dec(cur)
          /\ gSvrId2ProducerState'[j].inherited = inh
          /\ Cardinality(OutstandingTo(j)') = out - 1
      BY <1>4, <1>9, <2>2
    <3> HIDE DEF cur, inh, out
    <3>4. Dec(cur) = IF out - 1 - inh >= 0 THEN out - 1 - inh ELSE UINT32 + (out - 1 - inh)
      BY <3>1, <3>2, ChunkAssumption DEF Dec
    <3>5. QED BY <3>1, <3>2, <3>3, <3>4
  <2>3. QED BY <2>1, <2>2
<1>11. IdleExact'
  <2> SUFFICES ASSUME NEW j \in DOMAIN gSvrId2ProducerState,
                      gSvrId2ProducerState'[j].stub, gSvrId2ProducerState'[j].inherited = 0
               PROVE  j \in gSetIdleProducer' <=> OutstandingTo(j)' = {}
    BY <1>7 DEF IdleExact
  <2>1. CASE j # id
    BY <1>8, <2>1 DEF IdleExact
  <2>2. CASE j = id
    <3>1. gSvrId2ProducerState[id].stub /\ gSvrId2ProducerState[id].inherited = 0
      BY <1>9, <2>2
    <3>2. id \notin gSetIdleProducer
      BY <1>2, <2>2, <3>1 DEF IdleExact
    <3>3. gSvrId2ProducerState[id].curTaskCount = Cardinality(OutstandingTo(id))
      BY <1>5, <1>9, <2>2, <3>1
    <3>4. Dec(gSvrId2ProducerState[id].curTaskCount) = Cardinality(OutstandingTo(id)')
      BY <1>4, <1>5, <3>3 DEF Dec
    <3>5. QED BY <1>5, <1>9, <2>2, <3>2, <3>4
  <2>3. QED BY <2>1, <2>2
<1>12. UncalledInherits'
  <2> SUFFICES ASSUME NEW j \in DOMAIN gSvrId2ProducerState,
                      ~gSvrId2ProducerState'[j].called
               PROVE  Cardinality(OutstandingTo(j)') <= gSvrId2ProducerState'[j].inherited
    BY <1>7 DEF UncalledInherits
  <2>1. CASE j # id
    <3>1. OutstandingTo(j)' = OutstandingTo(j) /\ gSvrId2ProducerState'[j] = gSvrId2ProducerState[j]
      BY <1>8, <2>1
    <3>2. QED BY <3>1 DEF UncalledInherits
  <2>2. CASE j = id
    <3>1. ~gSvrId2ProducerState[id].called
      BY <1>9, <2>2
    <3>2. Cardinality(OutstandingTo(id)) <= gSvrId2ProducerState[id].inherited
      BY <2>2, <3>1 DEF UncalledInherits
    <3>3. QED BY <1>4, <1>5, <1>9, <2>2, <3>2
  <2>3. QED BY <2>1, <2>2
<1>13. QED BY <1>6, <1>10, <1>11, <1>12

\* A step that starts and answers no call keeps sendingCount exact.
LEMMA NoCallAccounts ==
  ASSUME AccountInv, sendingCount' = sendingCount, Outstanding' = Outstanding,
         \A id : OutstandingTo(id)' = OutstandingTo(id),
         \A id \in DOMAIN gSvrId2ProducerState' : Kept(id) \/ Fresh(id)
  PROVE  SendingCountExact' /\ TaskCountExact' /\ IdleExact' /\ UncalledInherits'
<1>1. SendingCountExact'
  BY DEF AccountInv, SendingCountExact
<1>2. TypeOK /\ TaskCountExact /\ IdleExact /\ UncalledInherits
  BY DEF AccountInv, TypeInv
<1>3. QED BY <1>1, <1>2, TablesStep

\* What a change of phase alone, of a chunk that is outstanding neither before
\* nor after or both before and after, leaves as it was.
LEMMA SameOutstanding ==
  ASSUME target' = target,
         \A x \in Chunk : phase'[x] \in {"sent", "failed"} <=> phase[x] \in {"sent", "failed"}
  PROVE  Outstanding' = Outstanding /\ \A id : OutstandingTo(id)' = OutstandingTo(id)
BY DEF Outstanding, OutstandingTo

\* Every step keeps the accounts.
LEMMA AccountStep ==
  ASSUME AccountInv, [Next]_vars
  PROVE  AccountInv'
<1>1. TypeInv' /\ TypeInv /\ TypeOK /\ LoopInOrder /\ TypeOK'
  BY TypeStep DEF AccountInv, TypeInv
<1> SUFFICES SendingCountExact' /\ TaskCountExact' /\ IdleExact' /\ UncalledInherits'
  BY <1>1 DEF AccountInv
<1>2. ASSUME UNCHANGED calls,
             \A id \in DOMAIN gSvrId2ProducerState' : Kept(id) \/ Fresh(id)
      PROVE  SendingCountExact' /\ TaskCountExact' /\ IdleExact' /\ UncalledInherits'
  <2>1. sendingCount' = sendingCount /\ phase' = phase /\ target' = target
    BY <1>2 DEF calls
  <2>2. Outstanding' = Outstanding /\ \A id : OutstandingTo(id)' = OutstandingTo(id)
    BY <2>1, SameOutstanding
  <2>3. QED BY <1>2, <2>1, <2>2, NoCallAccounts
<1>3. ASSUME NEW procName \in ProcName, ClientRegister(procName)
      PROVE  SendingCountExact' /\ TaskCountExact' /\ IdleExact' /\ UncalledInherits'
  <2>1. PICK id \in SvrId : Register(id, procName)
    BY <1>3, NewIdsType DEF ClientRegister
  <2>2. UNCHANGED calls /\ IsMap(gSvrId2SvrInfo', SvrId, SvrInfo)
    BY <1>1, <2>1 DEF Register, AddEntry, TypeOK, IsMap
  <2>3. QED BY <1>1, <1>2, <2>1, <2>2, RegisterEntries
<1>4. ASSUME NEW id \in DOMAIN gSvrId2SvrInfo,
             HeartBeat(id) \/ Expire(id) \/ \E score \in Score : LoadBalance(id, score)
      PROVE  SendingCountExact' /\ TaskCountExact' /\ IdleExact' /\ UncalledInherits'
  BY <1>2, <1>4 DEF HeartBeat, Expire, LoadBalance, Kept
<1>5. CASE CheckProcAlive
  BY <1>1, <1>2, <1>5, SweepEntries DEF CheckProcAlive
<1>6. CASE ReBalanceTimer
  <2>1. /\ Rebalance(gSvrId2SvrInfo, gSvrId2ProducerState)
        /\ UNCHANGED gSetIdleProducer /\ UNCHANGED calls
    BY <1>6 DEF ReBalanceTimer
  <2>2. \A id \in DOMAIN gSvrId2ProducerState' : Kept(id) \/ Fresh(id)
    <3> SUFFICES ASSUME NEW id \in DOMAIN gSvrId2ProducerState' PROVE Kept(id) \/ Fresh(id)
      OBVIOUS
    <3>1. \/ id \in DOMAIN gSvrId2ProducerState
             /\ gSvrId2ProducerState'[id] = gSvrId2ProducerState[id]
          \/ gSvrId2ProducerState'[id] = NewProducerState(id, FALSE)
      BY <2>1 DEF Rebalance, WithDefaults
    <3>2. QED BY <2>1, <3>1, DefaultIsFresh DEF Kept
  <2>3. QED BY <1>2, <2>1, <2>2
<1>7. ASSUME NEW p \in Push, BeginPush(p)
      PROVE  SendingCountExact' /\ TaskCountExact' /\ IdleExact' /\ UncalledInherits'
  <2>1. /\ phase' = [phase EXCEPT ![<<p, 1>>] = "begin"] /\ phase[<<p, 1>>] = "none"
        /\ UNCHANGED <<tables, sendingCount, target>>
    BY <1>7 DEF BeginPush
  <2>2. Outstanding' = Outstanding /\ \A id : OutstandingTo(id)' = OutstandingTo(id)
    BY <1>1, <2>1, SameOutstanding DEF TypeOK
  <2>3. \A id \in DOMAIN gSvrId2ProducerState' : Kept(id) \/ Fresh(id)
    BY <2>1 DEF tables, Kept
  <2>4. QED BY <2>1, <2>2, <2>3, NoCallAccounts
<1>8. ASSUME NEW c \in Chunk, SelectIdle(c) \/ \E draw \in 0..RandomFactor : SelectByRank(c, draw)
      PROVE  SendingCountExact' /\ TaskCountExact' /\ IdleExact' /\ UncalledInherits'
  <2>1. PICK id : Send(c, id) /\ gSetIdleProducer' = gSetIdleProducer \ {id}
    BY <1>8 DEF SelectIdle, SelectByRank, WindowOpen
  <2>2. Selecting(c)
    BY <1>8 DEF SelectIdle, SelectByRank
  <2>3. QED BY <2>1, <2>2, SendAccounts
<1>9. ASSUME NEW c \in Chunk, SelectCrash(c)
      PROVE  SendingCountExact' /\ TaskCountExact' /\ IdleExact' /\ UncalledInherits'
  BY <1>2, <1>9 DEF SelectCrash, tables, Kept
<1>10. ASSUME NEW c \in Chunk, OnGetSuccess(c) \/ OnGetErrCode(c) \/ FailDecrease(c)
      PROVE  SendingCountExact' /\ TaskCountExact' /\ IdleExact' /\ UncalledInherits'
  <2>1. PICK to \in {"done", "resend"} :
          /\ phase' = [phase EXCEPT ![c] = to] /\ target' = [target EXCEPT ![c] = NoSvr]
          /\ phase[c] \in {"sent", "failed"} /\ DecreaseProducerTask(target[c])
    BY <1>10 DEF OnGetSuccess, OnGetErrCode, FailDecrease
  <2>2. QED BY <2>1, AnswerAccounts
<1>11. ASSUME NEW c \in Chunk, OnResponseFail(c)
      PROVE  SendingCountExact' /\ TaskCountExact' /\ IdleExact' /\ UncalledInherits'
  <2>1. /\ phase[c] = "sent" /\ phase' = [phase EXCEPT ![c] = "failed"]
        /\ sendingCount' = sendingCount /\ target' = target
    BY <1>11 DEF OnResponseFail, Disconnect
  <2>2. Outstanding' = Outstanding /\ \A id : OutstandingTo(id)' = OutstandingTo(id)
    BY <1>1, <2>1, SameOutstanding DEF TypeOK
  <2>3. QED BY <1>1, <1>11, <2>1, <2>2, NoCallAccounts, BreakerEntries
<1>12. CASE UNCHANGED vars
  BY <1>2, <1>12 DEF vars, tables, Kept
<1>13. QED
  BY <1>3, <1>4, <1>5, <1>6, <1>7, <1>8, <1>9, <1>10, <1>11, <1>12 DEF Next

\* The accounts hold of the empty server.
LEMMA AccountInit ==
  Init => AccountInv
<1> SUFFICES ASSUME Init PROVE AccountInv
  OBVIOUS
<1>1. TypeInv
  BY TypeInit
<1>2. Outstanding = {}
  BY DEF Init, Outstanding
<1>3. SendingCountExact
  BY <1>2, FS_EmptySet DEF Init, SendingCountExact
<1>4. TaskCountExact /\ IdleExact /\ UncalledInherits
  BY DEF Init, EmptyMap, TaskCountExact, IdleExact, UncalledInherits
<1>5. QED BY <1>1, <1>3, <1>4 DEF AccountInv

\* The accounts are exact in every reachable state.
THEOREM AccountsCorrect == Spec => []AccountInv
BY AccountInit, AccountStep, PTL DEF Spec

\* sendingCount is the number of calls in flight, whatever was answered, lost,
\* evicted and sent again.
THEOREM SendingCountCorrect == Spec => []SendingCountExact
BY AccountsCorrect, PTL DEF AccountInv

\* curTaskCount is what the calls outstanding to the id make it.
THEOREM TaskCountCorrect == Spec => []TaskCountExact
BY AccountsCorrect, PTL DEF AccountInv

\* A producer with an id of its own is idle when, and only when, it has no call.
THEOREM IdleCorrect == Spec => []IdleExact
BY AccountsCorrect, PTL DEF AccountInv

\* The circuit breaker opens for a process only after calls to it, or after
\* calls its id came with.
THEOREM BreakerJustified == Spec => BreakerHasCause
<1> DEFINE Good == \A c \in Chunk : Disconnects(c) =>
                     \/ gSvrId2ProducerState[target[c]].called
                     \/ gSvrId2ProducerState[target[c]].inherited > 0
<1>1. ASSUME AccountInv PROVE Good
  <2> SUFFICES ASSUME NEW c \in Chunk, Disconnects(c),
                      ~gSvrId2ProducerState[target[c]].called
               PROVE  gSvrId2ProducerState[target[c]].inherited > 0
    OBVIOUS
  <2> DEFINE id == target[c]
  <2>1. id \in DOMAIN gSvrId2ProducerState /\ c \in OutstandingTo(id)
    BY DEF Disconnects, OutstandingTo, Outstanding
  <2>2. gSvrId2ProducerState[id].inherited \in Nat
    BY <1>1, <2>1 DEF AccountInv, TypeInv, TypeOK, IsMap, ProducerState
  <2>3. OutstandingTo(id) \in SUBSET Chunk
    BY DEF OutstandingTo, Outstanding
  <2>4. Cardinality(OutstandingTo(id)) \in Nat /\ Cardinality(OutstandingTo(id)) # 0
    BY <2>1, <2>3, ChunkSetCardinality, FS_EmptySet
  <2>5. Cardinality(OutstandingTo(id)) <= gSvrId2ProducerState[id].inherited
    BY <1>1, <2>1 DEF AccountInv, UncalledInherits
  <2>6. QED BY <2>2, <2>4, <2>5
<1>2. QED BY <1>1, AccountsCorrect, PTL DEF BreakerHasCause
=============================================================================
