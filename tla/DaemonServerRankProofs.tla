------------------------- MODULE DaemonServerRankProofs -------------------------
(***************************************************************************)
(* What Rebalance and the weighted draw of SelectProducerAndSend compute:  *)
(* with positive scores every registered process has a rank of its own,    *)
(* and every draw finds a rank.                                            *)
(***************************************************************************)
EXTENDS DaemonServerProofs

\* One step of the sum over the ids.
Entry(info, i) == IF i \in DOMAIN info THEN info[i].score ELSE 0

\* The partial sums exist up to every id.
LEMMA PartialSums ==
  ASSUME NEW N \in Nat, NEW score \in [0..N -> Nat]
  PROVE  \E f \in [0..N -> Nat] :
           f = [i \in 0..N |-> (IF i = 0 THEN 0 ELSE f[i - 1]) + score[i]]
<1> DEFINE IsSum(f, n) == \A i \in 0..n : f[i] = (IF i = 0 THEN 0 ELSE f[i - 1]) + score[i]
           P == {n \in 0..N : \E f \in [0..n -> Nat] : IsSum(f, n)}
<1>1. 0 \in P
  <2> DEFINE f == [i \in 0..0 |-> score[i]]
  <2>1. f \in [0..0 -> Nat]
    OBVIOUS
  <2>2. f[0] = score[0] /\ score[0] \in Nat /\ 0..0 = {0}
    OBVIOUS
  <2> HIDE DEF f
  <2>3. IsSum(f, 0)
    BY <2>2
  <2>4. QED BY <2>1, <2>3
<1>2. ASSUME NEW n \in 0..N, n # N, n \in P
      PROVE  n + 1 \in P
  <2>1. PICK f \in [0..n -> Nat] : IsSum(f, n)
    BY <1>2
  <2> DEFINE g == [i \in 0..(n + 1) |-> IF i = n + 1 THEN f[n] + score[n + 1] ELSE f[i]]
  <2>2. n + 1 \in 0..N /\ g \in [0..(n + 1) -> Nat]
    BY <1>2
  <2>3. ASSUME NEW i \in 0..(n + 1)
        PROVE  g[i] = (IF i = 0 THEN 0 ELSE g[i - 1]) + score[i]
    <3>1. CASE i = n + 1
      BY <3>1
    <3>2. CASE i # n + 1
      <4>1. i \in 0..n /\ (i # 0 => i - 1 \in 0..n)
        BY <3>2
      <4>2. f[i] = (IF i = 0 THEN 0 ELSE f[i - 1]) + score[i]
        BY <2>1, <4>1
      <4>3. QED BY <4>1, <4>2
    <3>3. QED BY <3>1, <3>2
  <2>4. IsSum(g, n + 1)
    BY <2>3
  <2> HIDE DEF g
  <2>5. QED BY <2>2, <2>4
<1>3. N \in P
  <2> HIDE DEF P
  <2>1. 0..N \subseteq P
    BY <1>1, <1>2, SetInduction
  <2>2. QED BY <2>1
<1>4. PICK f \in [0..N -> Nat] : IsSum(f, N)
  BY <1>3
<1>5. f = [i \in 0..N |-> (IF i = 0 THEN 0 ELSE f[i - 1]) + score[i]]
  BY <1>4
<1>6. QED BY <1>5

\* SumOfScores is defined on all ids, by its recursive equation.
LEMMA SumOfScoresDef ==
  ASSUME NEW info, IsMap(info, SvrId, SvrInfo)
  PROVE  /\ SumOfScores(info) \in [SvrId -> Nat]
         /\ \A i \in SvrId : SumOfScores(info)[i]
              = (IF i = 0 THEN 0 ELSE SumOfScores(info)[i - 1]) + Entry(info, i)
<1> DEFINE score == [i \in SvrId |-> Entry(info, i)]
           Body(f) == [i \in SvrId |->
                         (IF i = 0 THEN 0 ELSE f[i - 1])
                           + (IF i \in DOMAIN info THEN info[i].score ELSE 0)]
<1>1. score \in [SvrId -> Nat]
  BY DEF IsMap, SvrInfo, Entry
<1>2. PICK f \in [SvrId -> Nat] :
        f = [i \in SvrId |-> (IF i = 0 THEN 0 ELSE f[i - 1]) + score[i]]
  <2> HIDE DEF score
  <2>1. QED BY <1>1, PartialSums, MaxSvrIdAssumption DEF SvrId
<1>3. f = Body(f)
  BY <1>2, Zenon DEF Entry
<1>4. SumOfScores(info) = CHOOSE sum : sum = Body(sum)
  BY DEF SumOfScores
<1>5. SumOfScores(info) = Body(SumOfScores(info))
  <2> HIDE DEF Body
  <2>1. QED BY <1>3, <1>4
<1> DEFINE sum == SumOfScores(info)
<1>6. /\ DOMAIN sum = SvrId
      /\ \A i \in SvrId : sum[i] = (IF i = 0 THEN 0 ELSE sum[i - 1]) + Entry(info, i)
      /\ sum = [i \in SvrId |-> sum[i]]
  BY <1>5, Zenon DEF Entry
<1>7. \A i \in SvrId : Entry(info, i) \in Nat
  BY DEF IsMap, SvrInfo, Entry
<1> DEFINE P == {i \in SvrId : sum[i] \in Nat}
<1> HIDE DEF sum
<1>8. 0 \in P /\ \A i \in 0..MaxSvrId : i # MaxSvrId /\ i \in P => i + 1 \in P
  <2>0. 0 \in SvrId
    BY MaxSvrIdAssumption DEF SvrId
  <2>1. sum[0] \in Nat
    <3>1. sum[0] = 0 + Entry(info, 0) /\ Entry(info, 0) \in Nat
      BY <1>6, <1>7, <2>0
    <3>2. QED BY <3>1
  <2>2. ASSUME NEW i \in 0..MaxSvrId, i # MaxSvrId, i \in P
        PROVE  i + 1 \in P
    <3>1. i + 1 \in SvrId /\ i + 1 # 0 /\ (i + 1) - 1 = i /\ sum[i] \in Nat
      BY <2>2, MaxSvrIdAssumption DEF SvrId
    <3>2. sum[i + 1] = sum[i] + Entry(info, i + 1)
      BY <1>6, <3>1
    <3>3. QED BY <1>7, <3>1, <3>2
  <2>3. QED BY <2>0, <2>1, <2>2
<1>9. SvrId \subseteq P
  <2> HIDE DEF P
  <2>1. QED BY <1>8, SetInduction, MaxSvrIdAssumption DEF SvrId
<1>10. QED BY <1>6, <1>9 DEF sum

\* The ranks of processes with positive scores grow with their ids.
LEMMA RanksGrow ==
  ASSUME NEW info, IsMap(info, SvrId, SvrInfo),
         \A id \in DOMAIN info : info[id].score > 0,
         NEW i \in SvrId, NEW j \in SvrId, i < j
  PROVE  /\ SumOfScores(info)[i] <= SumOfScores(info)[j]
         /\ j \in DOMAIN info => SumOfScores(info)[i] < SumOfScores(info)[j]
<1> DEFINE sum == SumOfScores(info)
           P == {k \in SvrId : k < i \/ (sum[k] >= sum[i]
                                        /\ (k > i /\ k \in DOMAIN info => sum[k] > sum[i]))}
<1>1. /\ sum \in [SvrId -> Nat]
      /\ \A k \in SvrId : sum[k] = (IF k = 0 THEN 0 ELSE sum[k - 1]) + Entry(info, k)
  BY SumOfScoresDef
<1>2. \A k \in SvrId : Entry(info, k) \in Nat /\ (k \in DOMAIN info => Entry(info, k) > 0)
  BY DEF IsMap, SvrInfo, Entry
<1> HIDE DEF sum
<1>4. 0 \in P
  BY <1>1, MaxSvrIdAssumption DEF SvrId
<1>5. ASSUME NEW k \in 0..MaxSvrId, k # MaxSvrId, k \in P
      PROVE  k + 1 \in P
  <2>1. k + 1 \in SvrId /\ k \in SvrId /\ sum[k + 1] = sum[k] + Entry(info, k + 1)
    BY <1>1, <1>5, MaxSvrIdAssumption DEF SvrId
  <2>2. Entry(info, k + 1) \in Nat /\ (k + 1 \in DOMAIN info => Entry(info, k + 1) > 0)
        /\ sum[k] \in Nat /\ sum[k + 1] \in Nat /\ sum[i] \in Nat
    BY <1>1, <1>2, <2>1
  <2>3. CASE k + 1 < i
    BY <2>1, <2>3
  <2>4. CASE k + 1 = i
    BY <2>1, <2>2, <2>4
  <2>5. CASE k + 1 > i
    BY <1>5, <2>1, <2>2, <2>5 DEF SvrId
  <2>6. QED BY <2>3, <2>4, <2>5, <2>1 DEF SvrId
<1>6. SvrId \subseteq P
  <2> HIDE DEF P
  <2>1. QED BY <1>4, <1>5, SetInduction, MaxSvrIdAssumption DEF SvrId
<1>7. QED BY <1>6, MaxSvrIdAssumption DEF sum, SvrId

\* So each of them is in the rank table.
LEMMA RanksOfAll ==
  ASSUME NEW info, IsMap(info, SvrId, SvrInfo),
         \A id \in DOMAIN info : info[id].score > 0
  PROVE  /\ Image(RanksOf(info)) = DOMAIN info
         /\ \E b \in Nat : DOMAIN RanksOf(info) \subseteq 0..b
<1> DEFINE sum == SumOfScores(info)
<1>1. /\ sum \in [SvrId -> Nat] /\ DOMAIN info \subseteq SvrId
      /\ DOMAIN RanksOf(info) = {sum[id] : id \in DOMAIN info}
      /\ Image(RanksOf(info)) \subseteq DOMAIN info
  BY SumOfScoresDef, RanksOfRegistered DEF IsMap
<1>2. ASSUME NEW id \in DOMAIN info
      PROVE  id \in Image(RanksOf(info))
  <2> DEFINE owners == {x \in DOMAIN info : sum[x] = sum[id]}
  <2>1. \A x \in DOMAIN info : sum[x] = sum[id] => x = id
    <3> SUFFICES ASSUME NEW x \in DOMAIN info, sum[x] = sum[id], x # id PROVE FALSE
      OBVIOUS
    <3>1. x \in SvrId /\ id \in SvrId /\ (x < id \/ id < x) /\ sum[x] \in Nat
      BY <1>1, MaxSvrIdAssumption DEF SvrId
    <3>2. CASE x < id
      BY <3>1, <3>2, RanksGrow
    <3>3. CASE id < x
      BY <3>1, <3>3, RanksGrow
    <3>4. QED BY <3>1, <3>2, <3>3
  <2>2. owners = {id}
    BY <2>1
  <2>3. sum[id] \in DOMAIN RanksOf(info) /\ RanksOf(info)[sum[id]] = Max(owners)
    BY DEF RanksOf
  <2>4. Max(owners) = id
    <3>1. owners \in SUBSET (0..MaxSvrId) /\ owners # {}
      BY <1>1, <2>2 DEF SvrId
    <3> HIDE DEF owners
    <3>2. Max(owners) \in owners
      BY <3>1, MaxIsGreatest, MaxSvrIdAssumption
    <3>3. QED BY <2>2, <3>2
  <2> HIDE DEF owners, sum
  <2>5. QED BY <2>3, <2>4 DEF Image
<1>3. \E b \in Nat : DOMAIN RanksOf(info) \subseteq 0..b
  <2>1. MaxSvrId \in SvrId /\ \A id \in SvrId : id # MaxSvrId => id < MaxSvrId
    BY MaxSvrIdAssumption DEF SvrId
  <2>2. \A id \in SvrId : sum[id] \in Nat /\ sum[id] <= sum[MaxSvrId]
    <3> SUFFICES ASSUME NEW id \in SvrId PROVE sum[id] \in Nat /\ sum[id] <= sum[MaxSvrId]
      OBVIOUS
    <3>1. CASE id = MaxSvrId
      BY <1>1, <3>1
    <3>2. CASE id # MaxSvrId
      BY <1>1, <2>1, <3>2, RanksGrow
    <3>3. QED BY <3>1, <3>2
  <2> HIDE DEF sum
  <2>3. sum[MaxSvrId] \in Nat /\ DOMAIN RanksOf(info) \subseteq 0..sum[MaxSvrId]
    BY <1>1, <2>1, <2>2
  <2>4. QED BY <2>3
<1>4. QED BY <1>1, <1>2, <1>3

\* The weighted draw never falls off the end of the rank table.
LEMMA DrawFindsRank ==
  ASSUME gRank2SvrId # EmptyMap,
         NEW b \in Nat, DOMAIN gRank2SvrId \subseteq 0..b,
         NEW draw \in 0..RandomFactor
  PROVE  LowerBound(draw) \in DOMAIN gRank2SvrId
<1> DEFINE last == Max(DOMAIN gRank2SvrId)
           found == {r \in DOMAIN gRank2SvrId : r * RandomFactor >= draw * last}
<1>1. DOMAIN gRank2SvrId # {}
  BY DEF EmptyMap
<1>2. last \in DOMAIN gRank2SvrId /\ last \in Nat
  <2>1. DOMAIN gRank2SvrId \in SUBSET (0..b)
    OBVIOUS
  <2>2. last \in DOMAIN gRank2SvrId
    BY <1>1, <2>1, MaxIsGreatest
  <2> HIDE DEF last
  <2>3. QED BY <2>2
<1>3. last * RandomFactor >= draw * last
  <2>1. \A m, x, y \in Nat : x <= y => m * y >= x * m
    <3> SUFFICES ASSUME NEW m \in Nat, NEW x \in Nat, NEW y \in Nat, x <= y
                 PROVE  m * y >= x * m
      OBVIOUS
    <3>1. PICK d \in Nat : y = x + d
      <4>1. y - x \in Nat /\ y = x + (y - x)
        OBVIOUS
      <4>2. QED BY <4>1
    <3>2. m * d \in Nat
      OBVIOUS
    <3>3. m * y = m * x + m * d
      BY <3>1
    <3>4. QED BY <3>2, <3>3
  <2> HIDE DEF last
  <2>2. QED BY <1>2, <2>1, RandomFactorAssumption
<1>4. found \in SUBSET Nat /\ found # {}
  BY <1>2, <1>3
<1>5. Min(found) \in found
  <2> HIDE DEF found
  <2>1. QED BY <1>4, MinIsLeast
<1>6. QED BY <1>5 DEF LowerBound
=============================================================================
