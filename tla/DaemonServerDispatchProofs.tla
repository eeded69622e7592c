----------------------- MODULE DaemonServerDispatchProofs -----------------------
(***************************************************************************)
(* Theorems about the dispatch of DaemonServer: how many calls are in      *)
(* flight, to whom they go when only producers register, and that the      *)
(* server keeps the promise of PushDelivery.                               *)
(***************************************************************************)
EXTENDS DaemonServerRankProofs

(***************************************************************************)
(* Back-pressure.                                                          *)
(***************************************************************************)

\* The processes the server knows.
Known == DOMAIN gSvrId2ProducerState \cup DOMAIN gSvrId2SvrInfo

\* Nobody is known who did not register.
KnownBound == Cardinality(Known) <= registrations

\* What a step does to the number of calls and of idle producers: nothing, the
\* registration of id, a call to id, or the answer to the call for chunk c.
NoneRegistered == Known' \subseteq Known /\ registrations' = registrations
Quiet ==
    /\ NoneRegistered
    /\ gSetIdleProducer' \subseteq gSetIdleProducer
    /\ sendingCount' = sendingCount
Registers(id) ==
    /\ Known' \subseteq Known \cup {id}
    /\ registrations' = registrations + 1
    /\ gSetIdleProducer' \subseteq gSetIdleProducer \cup {id}
    /\ sendingCount' = sendingCount
Calls(c, id) ==
    /\ NoneRegistered
    /\ Selecting(c)
    /\ Send(c, id)
    /\ gSetIdleProducer' = gSetIdleProducer \ {id}
    /\ id \in gSetIdleProducer \/ WindowOpen
Answers(c) ==
    /\ NoneRegistered
    /\ phase[c] \in {"sent", "failed"}
    /\ DecreaseProducerTask(target[c])

\* Every step is one of them.
LEMMA KnownStep ==
  ASSUME TypeInv, [Next]_vars
  PROVE  \/ Quiet
         \/ \E id \in SvrId : Registers(id)
         \/ \E c \in Chunk : \E id : Calls(c, id)
         \/ \E c \in Chunk : Answers(c)
<1>0. TypeOK
  BY DEF TypeInv
<1>1. ASSUME NEW procName \in ProcName, ClientRegister(procName)
      PROVE  \E id \in SvrId : Registers(id)
  <2>1. PICK id \in SvrId : Register(id, procName)
    BY <1>1, NewIdsType DEF ClientRegister
  <2>2. DOMAIN gSvrId2SvrInfo' = DOMAIN gSvrId2SvrInfo \cup {id}
        /\ registrations' = registrations + 1 /\ UNCHANGED sendingCount
    BY <2>1 DEF Register, AddEntry, WithEntry, calls
  <2>3. DOMAIN gSvrId2ProducerState' \subseteq Known \cup {id}
        /\ gSetIdleProducer' \subseteq gSetIdleProducer \cup {id}
    <3>1. CASE procName = "producer"
      BY <2>1, <2>2, <3>1 DEF Register, AddEntry, Rebalance, WithDefaults, WithEntry, Known
    <3>2. CASE procName # "producer"
      BY <2>1, <3>2 DEF Register, AddEntry, Known
    <3>3. QED BY <3>1, <3>2
  <2>4. QED BY <2>2, <2>3 DEF Registers, Known
<1>2. ASSUME NEW id \in DOMAIN gSvrId2SvrInfo,
             HeartBeat(id) \/ Expire(id) \/ \E score \in Score : LoadBalance(id, score)
      PROVE  Quiet
  BY <1>2 DEF HeartBeat, Expire, LoadBalance, Quiet, NoneRegistered, Known, calls
<1>3. CASE CheckProcAlive
  <2>1. DOMAIN gSvrId2SvrInfo' \subseteq DOMAIN gSvrId2SvrInfo
        /\ gSetIdleProducer' \subseteq gSetIdleProducer
        /\ registrations' = registrations /\ UNCHANGED sendingCount
    BY <1>3 DEF CheckProcAlive, Without, calls
  <2>2. DOMAIN gSvrId2ProducerState' \subseteq DOMAIN StatesInSweep
    BY <1>0, <1>3, SweepType
  <2>3. DOMAIN StatesInSweep \subseteq Known
    BY DEF StatesInSweep, WithDefaults, SweptUpto, Without, Known
  <2>4. QED BY <2>1, <2>2, <2>3 DEF Quiet, NoneRegistered, Known
<1>4. CASE ReBalanceTimer
  BY <1>4 DEF ReBalanceTimer, Rebalance, WithDefaults, Quiet, NoneRegistered, Known, calls
<1>5. ASSUME NEW p \in Push, BeginPush(p)
      PROVE  Quiet
  BY <1>5 DEF BeginPush, Quiet, NoneRegistered, Known, tables
<1>6. ASSUME NEW c \in Chunk, SelectIdle(c) \/ \E draw \in 0..RandomFactor : SelectByRank(c, draw)
      PROVE  \E id : Calls(c, id)
  <2>1. CASE SelectIdle(c)
    <3>1. gSetIdleProducer \in SUBSET Nat /\ gSetIdleProducer # {}
      BY <1>0, <2>1, MaxSvrIdAssumption DEF SelectIdle, TypeOK, IsMap, SvrId
    <3>2. Min(gSetIdleProducer) \in gSetIdleProducer
      BY <3>1, MinIsLeast
    <3>3. QED BY <2>1, <3>2 DEF SelectIdle, Calls, NoneRegistered, Known, Send
  <2>2. CASE \E draw \in 0..RandomFactor : SelectByRank(c, draw)
    BY <2>2 DEF SelectByRank, Calls, NoneRegistered, Known, Send, WindowOpen
  <2>3. QED BY <1>6, <2>1, <2>2
<1>7. ASSUME NEW c \in Chunk, SelectCrash(c)
      PROVE  Quiet
  BY <1>7 DEF SelectCrash, Quiet, NoneRegistered, Known, tables, calls
<1>8. ASSUME NEW c \in Chunk, OnGetSuccess(c) \/ OnGetErrCode(c) \/ FailDecrease(c)
      PROVE  Answers(c)
  <2>1. /\ phase[c] \in {"sent", "failed"} /\ DecreaseProducerTask(target[c])
        /\ UNCHANGED <<gSvrId2SvrInfo, registrations>>
    BY <1>8 DEF OnGetSuccess, OnGetErrCode, FailDecrease
  <2>2. DOMAIN gSvrId2ProducerState' = DOMAIN gSvrId2ProducerState
    BY <1>0, <2>1, DecreaseType
  <2>3. QED BY <2>1, <2>2 DEF Answers, NoneRegistered, Known
<1>9. ASSUME NEW c \in Chunk, OnResponseFail(c)
      PROVE  Quiet
  <2> DEFINE id == target[c]
             remaining == Without(gSvrId2SvrInfo, {id})
             states == Without(gSvrId2ProducerState, {id})
  <2>1. registrations' = registrations /\ sendingCount' = sendingCount
    BY <1>9 DEF OnResponseFail, Disconnect
  <2>2. gSetIdleProducer' \subseteq gSetIdleProducer
        /\ DOMAIN gSvrId2SvrInfo' \subseteq DOMAIN gSvrId2SvrInfo
    BY <1>9 DEF OnResponseFail, Disconnect, tables, Without
  <2>3. \/ DOMAIN gSvrId2ProducerState' = DOMAIN gSvrId2ProducerState
        \/ Rebalance(remaining, states)
    BY <1>9 DEF OnResponseFail, Disconnect, tables
  <2>4. DOMAIN remaining \subseteq Known /\ DOMAIN states \subseteq Known
    BY DEF Without, Known
  <2> HIDE DEF remaining, states
  <2>5. DOMAIN gSvrId2ProducerState' \subseteq Known
    BY <2>3, <2>4 DEF Rebalance, WithDefaults, Known
  <2>6. QED BY <2>1, <2>2, <2>5 DEF Quiet, NoneRegistered, Known
<1>10. CASE UNCHANGED vars
  BY <1>10 DEF vars, tables, calls, Quiet, NoneRegistered, Known
<1>11. QED
  BY <1>1, <1>2, <1>3, <1>4, <1>5, <1>6, <1>7, <1>8, <1>9, <1>10 DEF Next

\* The cardinality of a finite set, of a subset and with one more member.
LEMMA OneMore ==
  ASSUME NEW S, IsFiniteSet(S), NEW x, NEW T \in SUBSET (S \cup {x})
  PROVE  /\ IsFiniteSet(T) /\ Cardinality(S) \in Nat /\ Cardinality(T) \in Nat
         /\ Cardinality(T) <= Cardinality(S) + 1
<1>1. IsFiniteSet(S \cup {x}) /\ Cardinality(S) \in Nat
      /\ Cardinality(S \cup {x}) <= Cardinality(S) + 1
  <2>1. IsFiniteSet(S \cup {x}) /\ Cardinality(S) \in Nat
    BY FS_AddElement, FS_CardinalityType
  <2>2. Cardinality(S \cup {x}) = IF x \in S THEN Cardinality(S) ELSE Cardinality(S) + 1
    BY FS_AddElement
  <2>3. QED BY <2>1, <2>2
<1>2. IsFiniteSet(T) /\ Cardinality(T) \in Nat /\ Cardinality(T) <= Cardinality(S \cup {x})
  BY <1>1, SubsetCardinality
<1>3. Cardinality(S \cup {x}) \in Nat
  BY <1>1, FS_CardinalityType
<1>4. QED BY <1>1, <1>2, <1>3

\* The ids are finitely many.
LEMMA KnownFinite ==
  ASSUME TypeOK
  PROVE  /\ IsFiniteSet(Known) /\ IsFiniteSet(gSetIdleProducer)
         /\ IsFiniteSet(DOMAIN gSvrId2ProducerState)
         /\ Cardinality(DOMAIN gSvrId2ProducerState) \in Nat
         /\ Cardinality(DOMAIN gSvrId2ProducerState) <= Cardinality(Known)
<1>1. IsFiniteSet(SvrId)
  BY FS_Interval, MaxSvrIdAssumption DEF SvrId
<1>2. Known \subseteq SvrId /\ gSetIdleProducer \subseteq SvrId
  BY DEF TypeOK, IsMap, Known
<1>3. IsFiniteSet(Known) /\ IsFiniteSet(gSetIdleProducer)
  BY <1>1, <1>2, FS_Subset
<1>4. DOMAIN gSvrId2ProducerState \subseteq Known
  BY DEF Known
<1>5. QED BY <1>3, <1>4, SubsetCardinality

\* Multiplication by a natural number is monotone.
LEMMA TimesMonotone ==
  ASSUME NEW k \in Nat, NEW m \in Nat, NEW n \in Nat, m <= n
  PROVE  k * m <= k * n
<1>1. n = m + (n - m) /\ n - m \in Nat
  OBVIOUS
<1>2. k * n = k * m + k * (n - m)
  BY <1>1
<1>3. k * (n - m) \in Nat /\ k * m \in Nat /\ k * n \in Nat
  BY <1>1
<1>4. QED BY <1>2, <1>3

\* The most calls Backpressure allows, but for one
Window == WindowFactor * registrations

\* Backpressure, with the product hidden in Window.
LEMMA BackpressureIsWindow ==
  /\ Backpressure <=> sendingCount + Cardinality(gSetIdleProducer) <= Window + 1
  /\ registrations \in Nat => Window \in Nat
  /\ registrations = 0 => Window = 0
BY LimitAssumption DEF Backpressure, Window

BackpressureInv == AccountInv /\ KnownBound /\ Backpressure

\* Only Send adds a call: an idle producer pays for it with its place in the
\* idle set, and otherwise the window was open.
LEMMA BackpressureStep ==
  ASSUME BackpressureInv, [Next]_vars
  PROVE  BackpressureInv'
<1>1. AccountInv' /\ AccountInv /\ TypeInv /\ TypeOK
  BY AccountStep DEF BackpressureInv, AccountInv, TypeInv
<1> DEFINE idle == Cardinality(gSetIdleProducer)
<1>2. /\ IsFiniteSet(Known) /\ Cardinality(Known) \in Nat
      /\ IsFiniteSet(gSetIdleProducer) /\ idle \in Nat
      /\ sendingCount \in Nat /\ registrations \in Nat
      /\ Cardinality(Known) <= registrations
      /\ sendingCount + idle <= Window + 1 /\ Window \in Nat
  BY <1>1, KnownFinite, FS_CardinalityType, LimitAssumption, BackpressureIsWindow
  DEF BackpressureInv, KnownBound, TypeOK
<1>w. Backpressure' <=> sendingCount' + idle' <= Window' + 1
  BY DEF Backpressure, Window
<1>n. NoneRegistered => Window' = Window
  BY DEF NoneRegistered, Window
<1>3. NoneRegistered => KnownBound'
  <2> SUFFICES ASSUME NoneRegistered PROVE KnownBound'
    OBVIOUS
  <2>1. Known' \in SUBSET Known
    BY DEF NoneRegistered
  <2>2. Cardinality(Known') \in Nat /\ Cardinality(Known') <= Cardinality(Known)
    BY <1>2, <2>1, SubsetCardinality
  <2>3. QED BY <1>2, <2>2 DEF NoneRegistered, KnownBound
<1> SUFFICES KnownBound' /\ Backpressure'
  BY <1>1 DEF BackpressureInv
<1>4. CASE Quiet
  <2>1. gSetIdleProducer' \in SUBSET gSetIdleProducer
    BY <1>4 DEF Quiet
  <2>2. idle' \in Nat /\ idle' <= idle
    BY <1>2, <2>1, SubsetCardinality
  <2>3. sendingCount' = sendingCount /\ registrations' = registrations
    BY <1>4 DEF Quiet, NoneRegistered
  <2>4. Backpressure'
    BY <1>2, <1>w, <1>n, <1>4, <2>2, <2>3 DEF Quiet
  <2>5. QED BY <1>3, <1>4, <2>4 DEF Quiet
<1>5. ASSUME NEW id \in SvrId, Registers(id)
      PROVE  KnownBound' /\ Backpressure'
  <2>1. Known' \in SUBSET (Known \cup {id})
        /\ gSetIdleProducer' \in SUBSET (gSetIdleProducer \cup {id})
        /\ sendingCount' = sendingCount /\ registrations' = registrations + 1
    BY <1>5 DEF Registers
  <2>2. Cardinality(Known') \in Nat /\ Cardinality(Known') <= Cardinality(Known) + 1
    BY <1>2, <2>1, OneMore
  <2>3. idle' \in Nat /\ idle' <= idle + 1
    BY <1>2, <2>1, OneMore
  <2>4. Window' \in Nat /\ Window' >= Window + 1
    <3>1. Window' = WindowFactor * registrations + WindowFactor
      BY <1>2, <2>1, LimitAssumption DEF Window
    <3>2. Window' = Window + WindowFactor
      BY <3>1 DEF Window
    <3>3. QED BY <1>2, <3>2, LimitAssumption
  <2>5. Backpressure'
    BY <1>2, <1>w, <2>1, <2>3, <2>4
  <2>6. QED BY <1>2, <2>1, <2>2, <2>5 DEF KnownBound
<1>6. ASSUME NEW c \in Chunk, NEW id, Calls(c, id)
      PROVE  KnownBound' /\ Backpressure'
  <2>1. sendingCount' \in Nat /\ sendingCount' <= sendingCount + 1
        /\ registrations' = registrations
    BY <1>2, <1>6, ChunkAssumption DEF Calls, Send, Inc, NoneRegistered
  <2>2. CASE id \in gSetIdleProducer
    <3>1. idle' = idle - 1
      BY <1>2, <1>6, <2>2, FS_RemoveElement DEF Calls
    <3>2. QED BY <1>2, <1>3, <1>w, <1>n, <1>6, <2>1, <3>1 DEF Calls
  <2>3. CASE WindowOpen
    <3>1. gSetIdleProducer' = {} /\ idle' = 0
      BY <1>6, <2>3, FS_EmptySet DEF Calls, WindowOpen
    <3>2. sendingCount <= WindowFactor * Cardinality(DOMAIN gSvrId2ProducerState)
      BY <2>3 DEF WindowOpen
    <3> DEFINE size == Cardinality(DOMAIN gSvrId2ProducerState)
    <3>3. sendingCount <= Window
      <4>1. size \in Nat /\ size <= registrations
        BY <1>1, <1>2, KnownFinite
      <4>2. WindowFactor * size <= Window
        BY <1>2, <4>1, TimesMonotone, LimitAssumption DEF Window
      <4>3. PICK w \in Nat : w = WindowFactor * size
        BY <4>1, LimitAssumption
      <4>4. sendingCount <= w /\ w <= Window
        BY <3>2, <4>2, <4>3
      <4>5. QED BY <1>2, <4>4
    <3>4. Backpressure'
      <4>1. Window' = Window
        BY <1>n, <1>6 DEF Calls
      <4>2. sendingCount' + idle' <= Window' + 1
        BY <1>2, <2>1, <3>1, <3>3, <4>1
      <4>3. QED BY <1>w, <4>2
    <3>5. QED BY <1>3, <1>6, <3>4 DEF Calls
  <2>4. QED BY <1>6, <2>2, <2>3 DEF Calls
<1>7. ASSUME NEW c \in Chunk, Answers(c)
      PROVE  KnownBound' /\ Backpressure'
  <2>1. sendingCount # 0
    <3>1. c \in Outstanding /\ Outstanding \in SUBSET Chunk
      BY <1>7 DEF Answers, Outstanding
    <3>2. Cardinality(Outstanding) # 0
      BY <3>1, ChunkSetCardinality, FS_EmptySet
    <3>3. QED BY <3>2 DEF BackpressureInv, AccountInv, SendingCountExact
  <2>2. sendingCount' = sendingCount - 1 /\ registrations' = registrations
    BY <1>7, <2>1 DEF Answers, DecreaseProducerTask, Dec, NoneRegistered
  <2>3. gSetIdleProducer' \in SUBSET (gSetIdleProducer \cup {target[c]})
    BY <1>7 DEF Answers, DecreaseProducerTask
  <2>4. idle' \in Nat /\ idle' <= idle + 1
    BY <1>2, <2>3, OneMore
  <2>5. Backpressure'
    BY <1>2, <1>w, <1>n, <1>7, <2>2, <2>4 DEF Answers
  <2>6. QED BY <1>3, <1>7, <2>5 DEF Answers
<1>8. QED BY <1>1, <1>4, <1>5, <1>6, <1>7, KnownStep DEF BackpressureInv

\* The empty server has no calls and knows no process.
LEMMA BackpressureInit ==
  Init => BackpressureInv
<1> SUFFICES ASSUME Init PROVE BackpressureInv
  OBVIOUS
<1>1. AccountInv
  BY AccountInit
<1>2. Known = {} /\ gSetIdleProducer = {} /\ sendingCount = 0 /\ registrations = 0
  BY DEF Init, EmptyMap, Known
<1>3. QED BY <1>1, <1>2, FS_EmptySet, BackpressureIsWindow DEF BackpressureInv, KnownBound

\* However calls are answered, lost and sent again, and however producers come
\* and go, the dispatch of BeginPush never has more than WindowFactor calls
\* for each registration, and one, in flight.
THEOREM BackpressureCorrect == Spec => []Backpressure
<1>1. BackpressureInv => Backpressure
  BY DEF BackpressureInv
<1>2. QED BY <1>1, BackpressureInit, BackpressureStep, PTL DEF Spec

(***************************************************************************)
(* When only producers register.                                           *)
(***************************************************************************)

\* The tables name the same processes, all of them producers with a channel
\* and a positive score.
Consistent(info, states, ranks) ==
    /\ DOMAIN states = DOMAIN info
    /\ \A id \in DOMAIN states : states[id].stub
    /\ \A id \in DOMAIN info : info[id].procName = "producer" /\ info[id].score > 0
    /\ Image(ranks) = DOMAIN info
    /\ \E b \in Nat : DOMAIN ranks \subseteq 0..b

ProducerInv ==
    /\ TypeInv
    /\ ~crashed
    /\ Consistent(gSvrId2SvrInfo, gSvrId2ProducerState, gRank2SvrId)

\* Rebalance makes the ranks consistent with the other two tables.
LEMMA RebalanceConsistent ==
  ASSUME NEW info, IsMap(info, SvrId, SvrInfo),
         NEW states, IsMap(states, SvrId, ProducerState),
         DOMAIN states = DOMAIN info,
         \A id \in DOMAIN states : states[id].stub,
         \A id \in DOMAIN info : info[id].procName = "producer" /\ info[id].score > 0,
         Rebalance(info, states)
  PROVE  Consistent(info, gSvrId2ProducerState', gRank2SvrId')
<1>1. gRank2SvrId' = RanksOf(info)
  BY DEF Rebalance
<1>2. DOMAIN gSvrId2ProducerState' = DOMAIN info
      /\ \A id \in DOMAIN info : gSvrId2ProducerState'[id] = states[id]
  BY DEF Rebalance, WithDefaults
<1>3. Image(RanksOf(info)) = DOMAIN info
      /\ \E b \in Nat : DOMAIN RanksOf(info) \subseteq 0..b
  BY RanksOfAll
<1>4. QED BY <1>1, <1>2, <1>3 DEF Consistent

\* While the tables are consistent, whoever is selected can be called.
LEMMA SelectableHasStub ==
  ASSUME ProducerInv
  PROVE  /\ gSetIdleProducer # {} =>
              /\ Min(gSetIdleProducer) \in DOMAIN gSvrId2SvrInfo
              /\ HasStub(Min(gSetIdleProducer))
         /\ WindowOpen => gRank2SvrId # EmptyMap
         /\ WindowOpen => \A draw \in 0..RandomFactor :
              /\ gRank2SvrId[LowerBound(draw)] \in DOMAIN gSvrId2SvrInfo
              /\ HasStub(gRank2SvrId[LowerBound(draw)])
<1> DEFINE states == gSvrId2ProducerState
<1>0. /\ DOMAIN states = DOMAIN gSvrId2SvrInfo
      /\ \A id \in DOMAIN states : HasStub(id)
      /\ Image(gRank2SvrId) = DOMAIN states
      /\ DOMAIN states \subseteq SvrId
      /\ gSetIdleProducer \subseteq DOMAIN states
  BY DEF ProducerInv, TypeInv, TypeOK, IsMap, Consistent, HasStub
<1>1. ASSUME gSetIdleProducer # {}
      PROVE  Min(gSetIdleProducer) \in DOMAIN states
  <2>1. gSetIdleProducer \in SUBSET Nat
    BY <1>0, MaxSvrIdAssumption DEF SvrId
  <2>2. QED BY <1>0, <1>1, <2>1, MinIsLeast
<1>2. ASSUME WindowOpen
      PROVE  gRank2SvrId # EmptyMap
  <2>1. DOMAIN states # {}
    BY <1>2, FS_EmptySet DEF WindowOpen
  <2>2. QED BY <1>0, <2>1 DEF EmptyMap, Image
<1>3. ASSUME WindowOpen, NEW draw \in 0..RandomFactor
      PROVE  gRank2SvrId[LowerBound(draw)] \in DOMAIN states
  <2>1. PICK b \in Nat : DOMAIN gRank2SvrId \subseteq 0..b
    BY DEF ProducerInv, Consistent
  <2>2. LowerBound(draw) \in DOMAIN gRank2SvrId
    BY <1>2, <1>3, <2>1, DrawFindsRank
  <2>3. QED BY <1>0, <2>2 DEF Image
<1>4. QED BY <1>0, <1>1, <1>2, <1>3

\* The sweep of CheckProcAlive takes the same processes out of every table.
LEMMA SweepConsistent ==
  ASSUME ProducerInv, CheckProcAlive
  PROVE  Consistent(gSvrId2SvrInfo', gSvrId2ProducerState', gRank2SvrId')
<1> DEFINE info == gSvrId2SvrInfo
           states == gSvrId2ProducerState
           left == Without(info, Expired)
<1>1. /\ TypeOK /\ IsMap(info, SvrId, SvrInfo) /\ IsMap(states, SvrId, ProducerState)
      /\ DOMAIN states = DOMAIN info /\ DOMAIN info \subseteq SvrId
      /\ \A id \in DOMAIN states : states[id].stub
      /\ \A id \in DOMAIN info : info[id].procName = "producer" /\ info[id].score > 0
  BY DEF ProducerInv, TypeInv, TypeOK, IsMap, Consistent
<1>2. ExpiredProducers = Expired /\ Expired \subseteq DOMAIN info
  BY <1>1 DEF ExpiredProducers, Expired
<1>3. /\ gSvrId2SvrInfo' = left /\ IsMap(left, SvrId, SvrInfo)
      /\ DOMAIN left = DOMAIN info \ Expired
      /\ \A id \in DOMAIN left : left[id].procName = "producer" /\ left[id].score > 0
  <2>1. gSvrId2SvrInfo' = left
    BY DEF CheckProcAlive
  <2>2. /\ IsMap(left, SvrId, SvrInfo) /\ DOMAIN left = DOMAIN info \ Expired
        /\ \A id \in DOMAIN info \ Expired : left[id] = info[id]
    <3>1. IsMap(info, SvrId, SvrInfo)
      BY <1>1
    <3> HIDE DEF info
    <3>2. QED BY <3>1 DEF Without, IsMap
  <2> HIDE DEF left
  <2>3. QED BY <1>1, <2>1, <2>2
<1>4. DOMAIN StatesInSweep = DOMAIN states
      /\ \A id \in DOMAIN states : StatesInSweep[id] = states[id]
  <2>1. \A i : DOMAIN SweptUpto(i) \subseteq DOMAIN states
    BY <1>1 DEF SweptUpto, Without
  <2>2. CASE ExpiredProducers = {}
    BY <2>2 DEF StatesInSweep
  <2>3. CASE ExpiredProducers # {}
    BY <2>1, <2>3 DEF StatesInSweep, WithDefaults
  <2>4. QED BY <2>2, <2>3
<1>5. DOMAIN gSvrId2ProducerState' = DOMAIN left
      /\ \A id \in DOMAIN left : gSvrId2ProducerState'[id].stub
  <2> DEFINE swept == Without(StatesInSweep, ExpiredProducers)
  <2>1. /\ DOMAIN swept = DOMAIN left
        /\ \A id \in DOMAIN swept : swept[id] = states[id] /\ swept[id] \in ProducerState
    BY <1>1, <1>2, <1>3, <1>4 DEF Without, IsMap
  <2>2. gSvrId2ProducerState' = ResetFailCount(swept)
    BY DEF CheckProcAlive
  <2> HIDE DEF swept
  <2>3. QED BY <1>1, <1>3, <2>1, <2>2 DEF ResetFailCount, ProducerState
<1>6. Image(gRank2SvrId') = DOMAIN left /\ \E b \in Nat : DOMAIN gRank2SvrId' \subseteq 0..b
  <2>1. CASE ExpiredProducers = {}
    BY <1>2, <1>3, <2>1 DEF CheckProcAlive, ProducerInv, Consistent
  <2>2. CASE ExpiredProducers # {}
    <3> DEFINE last == Max(ExpiredProducers)
    <3>1. Expired \in SUBSET (0..MaxSvrId) /\ Expired # {}
      BY <1>1, <1>2, <2>2 DEF SvrId
    <3>2. \A i \in Expired : i <= last
      BY <1>2, <3>1, MaxIsGreatest, MaxSvrIdAssumption
    <3>3. {i \in Expired : i <= last} = Expired
      BY <3>2
    <3>4. SweptUpto(last) = left
      BY <3>3 DEF SweptUpto
    <3>5. gRank2SvrId' = RanksOf(left)
      BY <2>2, <3>4 DEF CheckProcAlive
    <3> HIDE DEF left
    <3>6. QED BY <1>3, <3>5, RanksOfAll
  <2>3. QED BY <2>1, <2>2
<1>7. QED BY <1>3, <1>5, <1>6 DEF Consistent

\* So does the circuit breaker.
LEMMA BreakerConsistent ==
  ASSUME ProducerInv, NEW c \in Chunk, OnResponseFail(c)
  PROVE  Consistent(gSvrId2SvrInfo', gSvrId2ProducerState', gRank2SvrId')
<1> DEFINE id == target[c]
           count == gSvrId2ProducerState[id].failCount + 1
           remaining == Without(gSvrId2SvrInfo, {id})
           states == Without(gSvrId2ProducerState, {id})
<1>1. /\ IsMap(gSvrId2SvrInfo, SvrId, SvrInfo)
      /\ IsMap(gSvrId2ProducerState, SvrId, ProducerState)
      /\ Consistent(gSvrId2SvrInfo, gSvrId2ProducerState, gRank2SvrId)
  BY DEF ProducerInv, TypeInv, TypeOK
<1>2. CASE UNCHANGED tables
  BY <1>1, <1>2 DEF tables
<1>3. CASE /\ id \in DOMAIN gSvrId2ProducerState
           /\ gSvrId2ProducerState' = [gSvrId2ProducerState EXCEPT ![id].failCount = count]
           /\ UNCHANGED <<gSvrId2SvrInfo, gSetIdleProducer, gRank2SvrId>>
  <2> HIDE DEF count, id
  <2>1. DOMAIN gSvrId2ProducerState' = DOMAIN gSvrId2ProducerState
        /\ \A i \in DOMAIN gSvrId2ProducerState :
             gSvrId2ProducerState'[i].stub = gSvrId2ProducerState[i].stub
    BY <1>1, <1>3 DEF IsMap, ProducerState
  <2>2. QED BY <1>1, <1>3, <2>1 DEF Consistent
<1>4. CASE gSvrId2SvrInfo' = remaining /\ Rebalance(remaining, states)
  <2>1. /\ IsMap(remaining, SvrId, SvrInfo) /\ IsMap(states, SvrId, ProducerState)
        /\ DOMAIN states = DOMAIN remaining
        /\ \A i \in DOMAIN states : states[i].stub
        /\ \A i \in DOMAIN remaining :
             remaining[i].procName = "producer" /\ remaining[i].score > 0
    <3>1. IsMap(remaining, SvrId, SvrInfo) /\ IsMap(states, SvrId, ProducerState)
      BY <1>1, WithoutType
    <3>2. QED BY <1>1, <3>1 DEF Consistent, Without
  <2> HIDE DEF remaining, states
  <2>2. QED BY <1>4, <2>1, RebalanceConsistent
<1>5. QED BY <1>2, <1>3, <1>4 DEF OnResponseFail, Disconnect

\* Each operation that changes one of the tables changes them all, and what is
\* drawn from consistent tables has a channel.
LEMMA ProducerStep ==
  ASSUME OnlyProducers, ProducerInv, [Next]_vars
  PROVE  ProducerInv'
<1>1. TypeInv' /\ TypeInv /\ TypeOK /\ ~crashed
      /\ Consistent(gSvrId2SvrInfo, gSvrId2ProducerState, gRank2SvrId)
      /\ IsMap(gSvrId2SvrInfo, SvrId, SvrInfo)
      /\ IsMap(gSvrId2ProducerState, SvrId, ProducerState)
  BY TypeStep DEF ProducerInv, TypeInv, TypeOK
<1> DEFINE Goal == ~crashed' /\ Consistent(gSvrId2SvrInfo', gSvrId2ProducerState', gRank2SvrId')
<1> SUFFICES Goal
  BY <1>1 DEF ProducerInv
<1>2. ASSUME NEW procName \in ProcName, ClientRegister(procName)
      PROVE  Goal
  <2>1. PICK id \in SvrId : Register(id, procName)
    BY <1>2, NewIdsType DEF ClientRegister
  <2>2. procName = "producer"
    BY DEF OnlyProducers
  <2> DEFINE new == NewSvrInfo(procName)
             info == WithEntry(gSvrId2SvrInfo, id, new)
             fresh == NewProducerState(id, TRUE)
             states == WithEntry(gSvrId2ProducerState, id, fresh)
  <2>3. ~crashed' /\ gSvrId2SvrInfo' = info /\ Rebalance(info, states)
    BY <2>1, <2>2 DEF Register, AddEntry, Running
  <2>4. new \in SvrInfo /\ new.procName = "producer" /\ new.score > 0
    BY <2>2, ScoreAssumption DEF NewSvrInfo, SvrInfo
  <2>5. PICK yes \in BOOLEAN : yes = TRUE
    OBVIOUS
  <2>6. fresh = NewProducerState(id, yes) /\ fresh \in ProducerState /\ fresh.stub
    <3>1. fresh = NewProducerState(id, yes)
      BY <2>5
    <3>2. fresh \in ProducerState
      BY <3>1, NewProducerStateType
    <3>3. fresh.stub
      BY DEF NewProducerState
    <3>4. QED BY <3>1, <3>2, <3>3
  <2> HIDE DEF new, fresh
  <2>7. /\ IsMap(info, SvrId, SvrInfo) /\ IsMap(states, SvrId, ProducerState)
    BY <1>1, <2>4, <2>6, WithEntryType
  <2>8. /\ DOMAIN states = DOMAIN info
        /\ \A i \in DOMAIN states : states[i].stub
        /\ \A i \in DOMAIN info : info[i].procName = "producer" /\ info[i].score > 0
    BY <1>1, <2>4, <2>6 DEF Consistent, WithEntry
  <2> HIDE DEF info, states
  <2>9. QED BY <2>3, <2>7, <2>8, RebalanceConsistent
<1>3. ASSUME NEW id \in DOMAIN gSvrId2SvrInfo,
             HeartBeat(id) \/ Expire(id) \/ \E score \in Score : LoadBalance(id, score)
      PROVE  Goal
  <2>1. /\ UNCHANGED <<gSvrId2ProducerState, gRank2SvrId>> /\ ~crashed'
        /\ DOMAIN gSvrId2SvrInfo' = DOMAIN gSvrId2SvrInfo
    BY <1>3 DEF HeartBeat, Expire, LoadBalance, Running
  <2>2. ASSUME NEW i \in DOMAIN gSvrId2SvrInfo
        PROVE  gSvrId2SvrInfo'[i].procName = "producer" /\ gSvrId2SvrInfo'[i].score > 0
    <3>1. gSvrId2SvrInfo[i] \in SvrInfo /\ gSvrId2SvrInfo[id] \in SvrInfo
          /\ gSvrId2SvrInfo[i].procName = "producer" /\ gSvrId2SvrInfo[i].score > 0
      BY <1>1 DEF IsMap, Consistent
    <3>2. CASE HeartBeat(id) \/ Expire(id)
      BY <3>1, <3>2 DEF HeartBeat, Expire, SvrInfo
    <3>3. CASE \E score \in Score : LoadBalance(id, score)
      BY <3>1, <3>3, ScoreAssumption DEF LoadBalance, SvrInfo
    <3>4. QED BY <1>3, <3>2, <3>3
  <2>3. QED BY <1>1, <2>1, <2>2 DEF Consistent
<1>4. CASE CheckProcAlive
  BY <1>4, SweepConsistent DEF CheckProcAlive, Running
<1>5. CASE ReBalanceTimer
  <2>1. ~crashed' /\ gSvrId2SvrInfo' = gSvrId2SvrInfo
        /\ Rebalance(gSvrId2SvrInfo, gSvrId2ProducerState)
    BY <1>5 DEF ReBalanceTimer, Running
  <2>2. Consistent(gSvrId2SvrInfo, gSvrId2ProducerState', gRank2SvrId')
    BY <1>1, <2>1, RebalanceConsistent DEF Consistent
  <2>3. QED BY <2>1, <2>2
<1>6. ASSUME NEW p \in Push, BeginPush(p)
      PROVE  Goal
  BY <1>1, <1>6 DEF BeginPush, Running, tables
<1>7. ASSUME NEW c \in Chunk, SelectIdle(c) \/ \E draw \in 0..RandomFactor : SelectByRank(c, draw)
      PROVE  Goal
  <2>1. PICK id : HasStub(id) /\ Send(c, id)
    BY <1>7 DEF SelectIdle, SelectByRank, Send
  <2>2. UNCHANGED <<gSvrId2SvrInfo, gRank2SvrId>> /\ ~crashed'
    BY <1>7 DEF SelectIdle, SelectByRank, Running
  <2>3. DOMAIN gSvrId2ProducerState' = DOMAIN gSvrId2ProducerState
        /\ \A i \in DOMAIN gSvrId2ProducerState :
             gSvrId2ProducerState'[i].stub = gSvrId2ProducerState[i].stub
    BY <1>1, <2>1 DEF Send, IsMap, ProducerState
  <2>4. QED BY <1>1, <2>2, <2>3 DEF Consistent
<1>8. ASSUME NEW c \in Chunk, SelectCrash(c)
      PROVE  Goal
  BY <1>8, SelectableHasStub DEF SelectCrash
<1>9. ASSUME NEW c \in Chunk, OnGetSuccess(c) \/ OnGetErrCode(c) \/ FailDecrease(c)
      PROVE  Goal
  <2>1. PICK id : id = target[c] /\ DecreaseProducerTask(id)
    BY <1>9 DEF OnGetSuccess, OnGetErrCode, FailDecrease
  <2>2. UNCHANGED <<gSvrId2SvrInfo, gRank2SvrId>> /\ ~crashed'
    BY <1>9 DEF OnGetSuccess, OnGetErrCode, FailDecrease, Running
  <2>3. DOMAIN gSvrId2ProducerState' = DOMAIN gSvrId2ProducerState
        /\ \A i \in DOMAIN gSvrId2ProducerState :
             gSvrId2ProducerState'[i].stub = gSvrId2ProducerState[i].stub
    BY <1>1, <2>1 DEF DecreaseProducerTask, IsMap, ProducerState
  <2>4. QED BY <1>1, <2>2, <2>3 DEF Consistent
<1>10. ASSUME NEW c \in Chunk, OnResponseFail(c)
       PROVE  Goal
  BY <1>10, BreakerConsistent DEF OnResponseFail, Disconnect, Running
<1>11. CASE UNCHANGED vars
  BY <1>1, <1>11 DEF vars, tables
<1>12. QED
  BY <1>2, <1>3, <1>4, <1>5, <1>6, <1>7, <1>8, <1>9, <1>10, <1>11 DEF Next

\* The tables of the empty server agree.
LEMMA ProducerInit ==
  Init => ProducerInv
<1> SUFFICES ASSUME Init PROVE ProducerInv
  OBVIOUS
<1>1. TypeInv
  BY TypeInit
<1>2. Consistent(EmptyMap, EmptyMap, EmptyMap)
  <2>1. DOMAIN EmptyMap = {} /\ Image(EmptyMap) = {} /\ {} \subseteq 0..0
    BY DEF EmptyMap, Image
  <2>2. QED BY <2>1 DEF Consistent
<1>3. QED BY <1>1, <1>2 DEF Init, ProducerInv

\* The tables stay consistent, and the process does not crash, as long as only
\* producers register.
THEOREM ProducersConsistent ==
  ASSUME OnlyProducers
  PROVE  Spec => []ProducerInv
BY ProducerInit, ProducerStep, PTL DEF Spec

\* The registry, the producer states and the ranks always name the same
\* processes, and every one of them has a channel.
THEOREM TablesAlwaysAgree ==
  ASSUME OnlyProducers
  PROVE  Spec => []TablesAgree
<1>1. ProducerInv => TablesAgree
  BY DEF ProducerInv, Consistent, TablesAgree
<1>2. QED BY <1>1, ProducersConsistent, PTL

\* The dispatch never goes through a null stub or an empty rank table.
THEOREM NeverCrashes ==
  ASSUME OnlyProducers
  PROVE  Spec => []NoCrash
<1>1. ProducerInv => NoCrash
  BY DEF ProducerInv, NoCrash
<1>2. QED BY <1>1, ProducersConsistent, PTL

\* Whoever a waiting thread may draw by rank is registered as a producer.
THEOREM OnlyProducersDrawn ==
  ASSUME OnlyProducers
  PROVE  Spec => []DrawsProducers
<1>1. ProducerInv => DrawsProducers
  BY SelectableHasStub DEF DrawsProducers, ProducerInv, Consistent
<1>2. QED BY <1>1, ProducersConsistent, PTL

\* The only steps that start a call are those of SelectProducerAndSend.
LEMMA StartedBySelect ==
  ASSUME TypeInv, [Next]_vars, NEW c \in Chunk, phase'[c] = "sent", phase[c] # "sent"
  PROVE  Selecting(c) /\ (SelectIdle(c) \/ \E draw \in 0..RandomFactor : SelectByRank(c, draw))
<1>0. phase \in [Chunk -> Phase] /\ LoopInOrder
  BY DEF TypeInv, TypeOK
<1>1. ASSUME UNCHANGED phase PROVE FALSE
  BY <1>1
<1>2. ASSUME NEW procName \in ProcName, ClientRegister(procName) PROVE FALSE
  BY <1>1, <1>2 DEF ClientRegister, Register, AddEntry, calls
<1>3. ASSUME NEW id \in DOMAIN gSvrId2SvrInfo,
             HeartBeat(id) \/ Expire(id) \/ \E score \in Score : LoadBalance(id, score)
      PROVE  FALSE
  BY <1>1, <1>3 DEF HeartBeat, Expire, LoadBalance, calls
<1>4. ASSUME CheckProcAlive \/ ReBalanceTimer PROVE FALSE
  BY <1>1, <1>4 DEF CheckProcAlive, ReBalanceTimer, calls
<1>5. ASSUME NEW p \in Push, BeginPush(p) PROVE FALSE
  BY <1>0, <1>5 DEF BeginPush
<1>6. ASSUME NEW x \in Chunk, SelectIdle(x) \/ \E draw \in 0..RandomFactor : SelectByRank(x, draw)
      PROVE  x = c
  <2>1. PICK id : Send(x, id)
    BY <1>6 DEF SelectIdle, SelectByRank
  <2>2. phase'[c] = IF c = x THEN "sent" ELSE IF c \in Following(x) THEN "begin" ELSE phase[c]
    BY <2>1 DEF Send
  <2>3. QED BY <2>2
<1>7. ASSUME NEW x \in Chunk,
             SelectCrash(x) \/ OnGetSuccess(x) \/ OnGetErrCode(x) \/ OnResponseFail(x) \/ FailDecrease(x)
      PROVE  FALSE
  <2>1. \/ UNCHANGED phase
        \/ \E to \in {"done", "resend", "failed"} : phase' = [phase EXCEPT ![x] = to]
    BY <1>7 DEF SelectCrash, OnGetSuccess, OnGetErrCode, OnResponseFail, Disconnect, FailDecrease, calls
  <2>2. QED BY <1>0, <1>1, <2>1
<1>8. CASE UNCHANGED vars
  BY <1>1, <1>8 DEF vars, calls
<1>9. SelectIdle(c) \/ \E draw \in 0..RandomFactor : SelectByRank(c, draw)
  BY <1>2, <1>3, <1>4, <1>5, <1>6, <1>7, <1>8 DEF Next
<1>10. QED BY <1>9 DEF SelectIdle, SelectByRank

\* A chunk is only ever sent, or sent again, to a process that is registered
\* as a producer at that moment.
THEOREM DispatchesToRegistered ==
  ASSUME OnlyProducers
  PROVE  Spec => DispatchToRegistered
<1> DEFINE Good == \A c \in Chunk :
                     phase'[c] = "sent" /\ phase[c] # "sent"
                       => /\ target'[c] \in DOMAIN gSvrId2SvrInfo
                          /\ gSvrId2SvrInfo[target'[c]].procName = "producer"
<1>1. ASSUME ProducerInv, [Next]_vars PROVE Good
  <2> SUFFICES ASSUME NEW c \in Chunk, phase'[c] = "sent", phase[c] # "sent"
               PROVE  /\ target'[c] \in DOMAIN gSvrId2SvrInfo
                      /\ gSvrId2SvrInfo[target'[c]].procName = "producer"
    OBVIOUS
  <2>1. SelectIdle(c) \/ \E draw \in 0..RandomFactor : SelectByRank(c, draw)
    BY <1>1, StartedBySelect DEF ProducerInv
  <2>2. PICK id \in DOMAIN gSvrId2SvrInfo : Send(c, id)
    <3>1. CASE SelectIdle(c)
      BY <1>1, <3>1, SelectableHasStub DEF SelectIdle
    <3>2. CASE \E draw \in 0..RandomFactor : SelectByRank(c, draw)
      BY <1>1, <3>2, SelectableHasStub DEF SelectByRank
    <3>3. QED BY <2>1, <3>1, <3>2
  <2>3. target'[c] = id
    BY <1>1, <2>2 DEF Send, ProducerInv, TypeInv, TypeOK
  <2>4. QED BY <1>1, <2>2, <2>3 DEF ProducerInv, Consistent
<1>2. QED BY <1>1, ProducersConsistent, PTL DEF Spec, DispatchToRegistered

(***************************************************************************)
(* DaemonServer implements PushDelivery.                                   *)
(***************************************************************************)

\* What a step does to the phases, as far as PushDelivery can tell.
Started(p) ==
    /\ phase[<<p, 1>>] = "none"
    /\ phase' = [phase EXCEPT ![<<p, 1>>] = "begin"]
Dispatched(c) == Selecting(c) /\ \E id : Send(c, id)
Moved(c, to) ==
    /\ phase[c] \in {"sent", "failed"}
    /\ phase' = [phase EXCEPT ![c] = to]

\* Every step begins a push, dispatches a chunk, moves a chunk on, or leaves
\* the phases alone.
LEMMA PhaseStep ==
  ASSUME [Next]_vars
  PROVE  \/ UNCHANGED phase
         \/ \E p \in Push : Started(p)
         \/ \E c \in Chunk : Dispatched(c)
         \/ \E c \in Chunk : \E to \in {"done", "resend", "failed"} : Moved(c, to)
<1>1. ASSUME NEW procName \in ProcName, ClientRegister(procName) PROVE UNCHANGED phase
  BY <1>1 DEF ClientRegister, Register, AddEntry, calls
<1>2. ASSUME NEW id \in DOMAIN gSvrId2SvrInfo,
             HeartBeat(id) \/ Expire(id) \/ \E score \in Score : LoadBalance(id, score)
      PROVE  UNCHANGED phase
  BY <1>2 DEF HeartBeat, Expire, LoadBalance, calls
<1>3. ASSUME CheckProcAlive \/ ReBalanceTimer PROVE UNCHANGED phase
  BY <1>3 DEF CheckProcAlive, ReBalanceTimer, calls
<1>4. ASSUME NEW p \in Push, BeginPush(p) PROVE Started(p)
  BY <1>4 DEF BeginPush, Started
<1>5. ASSUME NEW c \in Chunk, SelectIdle(c) \/ \E draw \in 0..RandomFactor : SelectByRank(c, draw)
      PROVE  Dispatched(c)
  BY <1>5 DEF SelectIdle, SelectByRank, Dispatched
<1>6. ASSUME NEW c \in Chunk, SelectCrash(c) PROVE UNCHANGED phase
  BY <1>6 DEF SelectCrash, calls
<1>7. ASSUME NEW c \in Chunk,
             OnGetSuccess(c) \/ OnGetErrCode(c) \/ OnResponseFail(c) \/ FailDecrease(c)
      PROVE  \E to \in {"done", "resend", "failed"} : Moved(c, to)
  BY <1>7 DEF OnGetSuccess, OnGetErrCode, OnResponseFail, Disconnect, FailDecrease, Moved
<1>8. CASE UNCHANGED vars
  BY <1>8 DEF vars, calls
<1>9. QED BY <1>1, <1>2, <1>3, <1>4, <1>5, <1>6, <1>7, <1>8 DEF Next

\* What PushDelivery sees of the state.
Requested == {p \in Push : phase[<<p, 1>>] # "none"}
Stages == [c \in Chunk |-> Stage(c)]

\* The first chunk of a push has been begun when any other one has, and the
\* chunks before one that was begun have been sent.
LEMMA SentInOrder ==
  ASSUME LoopInOrder, NEW p \in Push, NEW k \in 1..ChunksPerPush, phase[<<p, k>>] = "begin"
  PROVE  /\ p \in Requested
         /\ \A i \in 1..(k - 1) : <<p, i>> \in Chunk /\ phase[<<p, i>>] \notin {"none", "begin"}
<1>1. ASSUME NEW i \in 1..(k - 1)
      PROVE  <<p, i>> \in Chunk /\ phase[<<p, i>>] \notin {"none", "begin"}
  <2>1. i \in 1..ChunksPerPush /\ i < k
    BY ChunkAssumption
  <2>2. phase[<<p, i>>] \in {"none", "begin"} => phase[<<p, k>>] = "none"
    BY <2>1 DEF LoopInOrder
  <2>3. QED BY <2>1, <2>2 DEF Chunk
<1>2. CASE k = 1
  BY <1>1, <1>2 DEF Requested
<1>3. CASE k # 1
  <2>1. 1 \in 1..(k - 1)
    BY <1>3
  <2>2. phase[<<p, 1>>] \notin {"none", "begin"}
    BY <1>1, <2>1
  <2>3. QED BY <1>1, <2>2 DEF Requested
<1>4. QED BY <1>2, <1>3

\* Sending a chunk for the first time hands it out.
LEMMA SendHandsOut ==
  ASSUME TypeInv, NEW c \in Chunk, phase[c] = "begin", NEW id, Send(c, id)
  PROVE  /\ c[1] \in Requested
         /\ Stages[c] = "waiting"
         /\ \A i \in 1..(c[2] - 1) : Stages[<<c[1], i>>] # "waiting"
         /\ Stages' = [Stages EXCEPT ![c] = "handed"]
         /\ Requested' = Requested
<1>1. PICK p \in Push, k \in 1..ChunksPerPush : c = <<p, k>>
  BY DEF Chunk
<1>2. c[1] = p /\ c[2] = k /\ LoopInOrder
  BY <1>1 DEF TypeInv
<1>3. /\ p \in Requested
      /\ \A i \in 1..(k - 1) : <<p, i>> \in Chunk /\ phase[<<p, i>>] \notin {"none", "begin"}
  BY <1>1, <1>2, SentInOrder
<1>4. \A i \in 1..(k - 1) : Stages[<<p, i>>] # "waiting"
  BY <1>3 DEF Stages, Stage
<1>5. /\ phase'[c] = "sent"
      /\ \A x \in Chunk : x # c =>
           \/ phase'[x] = phase[x]
           \/ phase[x] = "none" /\ phase'[x] = "begin" /\ x = <<p, k + 1>>
  BY <1>1, <1>2, FollowingWaits DEF Send
<1>6. Stages' = [Stages EXCEPT ![c] = "handed"]
  <2>1. ASSUME NEW x \in Chunk
        PROVE  Stage(x)' = IF x = c THEN "handed" ELSE Stage(x)
    <3>1. CASE x = c
      BY <1>5, <3>1 DEF Stage
    <3>2. CASE x # c
      BY <1>5, <3>2 DEF Stage
    <3>3. QED BY <3>1, <3>2
  <2>2. QED BY <2>1 DEF Stages
<1>7. Requested' = Requested
  <2>1. ASSUME NEW q \in Push
        PROVE  phase'[<<q, 1>>] # "none" <=> phase[<<q, 1>>] # "none"
    <3>1. <<q, 1>> \in Chunk /\ <<q, 1>> # <<p, k + 1>>
      BY ChunkAssumption DEF Chunk
    <3>2. QED BY <1>5, <3>1
  <2>2. QED BY <2>1 DEF Requested
<1>8. QED BY <1>2, <1>3, <1>4, <1>6, <1>7 DEF Stages, Stage

\* Every step of the server is a step of PushDelivery, or changes nothing that
\* PushDelivery speaks of.
LEMMA DeliveryStep ==
  ASSUME TypeInv, [Next]_vars
  PROVE  [Delivery!Next]_(Delivery!vars)
<1>1. TypeOK /\ LoopInOrder /\ phase \in [Chunk -> Phase]
  BY DEF TypeInv, TypeOK
<1>2. Delivery!vars = <<Requested, Stages>> /\ Delivery!vars' = <<Requested', Stages'>>
  BY DEF Delivery!vars, Requested, Stages
<1>3. ASSUME UNCHANGED phase PROVE UNCHANGED Delivery!vars
  BY <1>2, <1>3 DEF Requested, Stages, Stage
<1>4. ASSUME NEW p \in Push, Started(p) PROVE Delivery!Next
  <2>1. <<p, 1>> \in Chunk
    BY ChunkAssumption DEF Chunk
  <2>2. p \notin Requested /\ Requested' = Requested \cup {p}
    <3>1. \A q \in Push : <<q, 1>> \in Chunk
      BY ChunkAssumption DEF Chunk
    <3>2. QED BY <1>1, <1>4, <2>1, <3>1 DEF Started, Requested
  <2>3. Stages' = Stages
    BY <1>1, <1>4, <2>1 DEF Started, Stages, Stage
  <2>4. Delivery!Begin(p)
    BY <2>2, <2>3 DEF Delivery!Begin, Requested, Stages
  <2>5. QED BY <2>4 DEF Delivery!Next
<1>5. ASSUME NEW c \in Chunk, Dispatched(c) PROVE Delivery!Next \/ UNCHANGED Delivery!vars
  <2>1. PICK id : Send(c, id)
    BY <1>5 DEF Dispatched
  <2>2. CASE phase[c] = "begin"
    <3>1. /\ c[1] \in Requested /\ Stages[c] = "waiting"
          /\ \A i \in 1..(c[2] - 1) : Stages[<<c[1], i>>] # "waiting"
          /\ Stages' = [Stages EXCEPT ![c] = "handed"]
          /\ Requested' = Requested
      BY <2>1, <2>2, SendHandsOut
    <3>2. Delivery!HandOut(c)
      BY <3>1 DEF Delivery!HandOut, Requested, Stages
    <3>3. QED BY <3>2 DEF Delivery!Next, Delivery!Chunk, Chunk
  <2>3. CASE phase[c] = "resend"
    <3>1. \A x \in Chunk : phase'[x] = IF x = c THEN "sent" ELSE phase[x]
      BY <2>1, <2>3 DEF Send, Following
    <3>2. Stages' = Stages
      BY <2>3, <3>1 DEF Stages, Stage
    <3>3. Requested' = Requested
      <4>1. \A q \in Push : <<q, 1>> \in Chunk
        BY ChunkAssumption DEF Chunk
      <4>2. QED BY <2>3, <3>1, <4>1 DEF Requested
    <3>4. QED BY <1>2, <3>2, <3>3
  <2>4. QED BY <1>5, <2>2, <2>3 DEF Dispatched, Selecting
<1>6. ASSUME NEW c \in Chunk, NEW to \in {"done", "resend", "failed"}, Moved(c, to)
      PROVE  Delivery!Next \/ UNCHANGED Delivery!vars
  <2>1. phase[c] \in {"sent", "failed"} /\ phase' = [phase EXCEPT ![c] = to]
    BY <1>6 DEF Moved
  <2>2. Requested' = Requested
    BY <1>1, <2>1 DEF Requested
  <2>3. CASE to = "done"
    <3>1. Stages[c] = "handed" /\ Stages' = [Stages EXCEPT ![c] = "done"]
      BY <1>1, <2>1, <2>3 DEF Stages, Stage
    <3>2. Delivery!Complete(c)
      BY <2>2, <3>1 DEF Delivery!Complete, Requested, Stages
    <3>3. QED BY <3>2 DEF Delivery!Next, Delivery!Chunk, Chunk
  <2>4. CASE to # "done"
    <3>1. Stages' = Stages
      BY <1>1, <2>1, <2>4 DEF Stages, Stage
    <3>2. QED BY <1>2, <2>2, <3>1
  <2>5. QED BY <2>3, <2>4
<1>7. QED BY <1>3, <1>4, <1>5, <1>6, PhaseStep

\* No push is begun in the empty server.
LEMMA DeliveryInit ==
  Init => Delivery!Init
<1> SUFFICES ASSUME Init PROVE Delivery!Init
  OBVIOUS
<1>1. \A c \in Chunk : phase[c] = "none"
  BY DEF Init
<1>2. \A p \in Push : <<p, 1>> \in Chunk
  BY ChunkAssumption DEF Chunk
<1>3. {p \in Push : phase[<<p, 1>>] # "none"} = {}
  BY <1>1, <1>2
<1>4. [c \in Chunk |-> Stage(c)] = [c \in Chunk |-> "waiting"]
  BY <1>1 DEF Stage
<1>5. QED BY <1>3, <1>4 DEF Delivery!Init, Delivery!Chunk, Chunk

\* Whatever fails, is evicted and is sent again, a push is delivered as
\* PushDelivery promises: chunks first sent in order, each done at most once
\* and never before it was sent.
THEOREM DeliveryImplemented == Spec => ImplementsDelivery
BY TypeInit, TypeStep, DeliveryInit, DeliveryStep, PTL DEF Spec, ImplementsDelivery, Delivery!Spec
=============================================================================
