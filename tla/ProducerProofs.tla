----------------------------- MODULE ProducerProofs -----------------------------
(***************************************************************************)
(* The safety of a producer for any number of calls and users.             *)
(*                                                                         *)
(* The argument: a message is counted in waitForSendCount until it is      *)
(* acknowledged, and a call is being sent as long as it has such messages  *)
(* (MessageInv).  Hence NotifyOne meets 0 exactly once, at the last        *)
(* message, takes the call off taskCount while that still counts it        *)
(* (CallsCounted), and leaves one unlock() behind, that of a call without  *)
(* messages to wait for (UnlockingInv).                                    *)
(***************************************************************************)
EXTENDS Producer, SetLemmas

Answered == {"answered", "deleted"}

\* A call has messages that are not acknowledged while it is being sent for,
\* and only then; what is acknowledged the broker has; users are found by
\* GETRANGE and not before.
MessageInv ==
    \A c \in Call :
      /\ Unacked(c) # {} <=> step[c] = "sending"
      /\ \A u \in User : msg[c][u] = "acked" => u \in broker[c]
      /\ Listed(c) # {} => step[c] \in Answered \cup {"sending"}

\* The callback that has answered a call for its last message, and not unlocked
\* yet, finds it answered or deleted.
UnlockingInv ==
    \A c \in unlocking : step[c] \in Answered /\ Listed(c) # {}

\* What CallsCounted counts: the calls taskCount was incremented for, less
\* those NotifyOne has answered
Counted ==
    {c \in Call :
      \/ step[c] \notin {"none", "answered", "deleted"}
      \/ step[c] \in {"answered", "deleted"} /\ Listed(c) = {}}

Inv == TypeOK /\ WaitCountExact /\ MessageInv /\ UnlockingInv /\ CallsCounted /\ KeyExpires

(***************************************************************************)
(* Counting.                                                               *)
(***************************************************************************)

\* Sets of users and of calls are finite.
LEMMA UsersFinite ==
  ASSUME NEW S \in SUBSET User
  PROVE  /\ IsFiniteSet(S)
         /\ Cardinality(S) \in 0..MaxUser
         /\ Cardinality(S) = 0 <=> S = {}
<1>1. IsFiniteSet(User) /\ Cardinality(User) = MaxUser
  BY UserAssumption, FS_Interval DEF User
<1>2. QED BY <1>1, SubsetCardinality, UserAssumption

\* See UsersFinite.
LEMMA CallsFinite ==
  ASSUME NEW S \in SUBSET Call
  PROVE  /\ IsFiniteSet(S)
         /\ Cardinality(S) \in Nat
         /\ Cardinality(S) <= Cardinality(Call)
BY CallAssumption, SubsetCardinality

\* CallsCounted in terms of Counted, in this state and in the next one.
LEMMA CountedIsTaskCount ==
  /\ CallsCounted <=> taskCount = Cardinality(Counted)
  /\ CallsCounted' <=> taskCount' = Cardinality(Counted')
BY DEF CallsCounted, Counted

\* Counted has at most as many elements as there are calls.
LEMMA CountedInRange ==
  /\ Cardinality(Counted) \in 0..Cardinality(Call)
  /\ Cardinality(Counted') \in 0..Cardinality(Call)
<1>1. Counted \subseteq Call /\ Counted' \subseteq Call
  BY DEF Counted
<1>2. Cardinality(Call) \in Nat
  BY CallsFinite
<1>3. QED BY <1>1, <1>2, CallsFinite

\* Of the users of a call the unacknowledged ones are a part.
LEMMA UnackedUsers ==
  ASSUME NEW c \in Call
  PROVE  Unacked(c) \subseteq User
BY DEF Unacked

(***************************************************************************)
(* What the steps do to messages and counts.                               *)
(***************************************************************************)

\* A step of no callback, after which the calls that have been answered still are.
LEMMA UnlockingKept ==
  ASSUME Inv, UNCHANGED unlocking,
         \A d \in Call : step[d] \in Answered => step'[d] \in Answered /\ Listed(d)' = Listed(d)
  PROVE  UnlockingInv'
BY DEF Inv, TypeOK, UnlockingInv

\* A call that sends nothing goes on to another step that sends nothing.
LEMMA StepMoves ==
  ASSUME Inv, NEW c \in Call, NEW s \in Step \ {"none", "sending"},
         step[c] \notin {"none", "sending"},
         (step[c] \in Answered) <=> (s \in Answered),
         GoTo(c, s), UNCHANGED <<msg, waitForSendCount, taskCount, unlocking, broker>>
  PROVE  (WaitCountExact /\ MessageInv /\ UnlockingInv /\ CallsCounted)'
<1> USE DEF Inv, TypeOK, GoTo
<1>1. \A d \in Call : step'[d] = IF d = c THEN s ELSE step[d]
  OBVIOUS
<1>2. \A d \in Call : Unacked(d)' = Unacked(d) /\ Listed(d)' = Listed(d)
  BY DEF Unacked, Listed
<1>3. WaitCountExact'
  BY <1>2 DEF WaitCountExact
<1>4. MessageInv'
  BY <1>1, <1>2 DEF MessageInv, Answered
<1>5. CallsCounted'
  <2>1. Counted' = Counted
    BY <1>1, <1>2 DEF Counted, Answered
  <2>2. QED BY <2>1, CountedIsTaskCount
<1>6. UnlockingInv'
  BY <1>1, <1>2, UnlockingKept
<1>7. QED BY <1>3, <1>4, <1>5, <1>6

\* Nothing happens to the calls.
LEMMA WorkUnchanged ==
  ASSUME Inv, UNCHANGED work
  PROVE  (WaitCountExact /\ MessageInv /\ UnlockingInv /\ CallsCounted)'
<1> USE DEF Inv, work
<1>1. WaitCountExact'
  BY DEF WaitCountExact, Unacked
<1>2. MessageInv'
  BY DEF MessageInv, Unacked, Listed
<1>3. CallsCounted'
  BY DEF CallsCounted, Listed
<1>4. UnlockingInv'
  BY DEF UnlockingInv, Listed
<1>5. QED BY <1>1, <1>2, <1>3, <1>4

\* A call arrives.
LEMMA ReceiveCounts ==
  ASSUME Inv, NEW c \in Call, Receive(c)
  PROVE  (WaitCountExact /\ MessageInv /\ UnlockingInv /\ CallsCounted)' /\ taskCount' \in 0..Cardinality(Call)
<1> USE DEF Inv, TypeOK, Receive, GoTo
<1>1. \A d \in Call : step'[d] = IF d = c THEN "waiting" ELSE step[d]
  OBVIOUS
<1>2. \A d \in Call : Unacked(d)' = Unacked(d) /\ Listed(d)' = Listed(d)
  BY DEF Unacked, Listed
<1>3. WaitCountExact'
  BY <1>2 DEF WaitCountExact
<1>4. MessageInv'
  BY <1>1, <1>2 DEF MessageInv, Answered
<1>5. Counted' = Counted \cup {c} /\ c \notin Counted /\ IsFiniteSet(Counted)
  BY <1>1, <1>2, CallsFinite DEF Counted
<1>6. Cardinality(Counted') = Cardinality(Counted) + 1
  BY <1>5, FS_AddElement
<1>7. CallsCounted'
  BY <1>6, CountedIsTaskCount
<1>8. taskCount' \in 0..Cardinality(Call)
  BY <1>7, CountedInRange, CountedIsTaskCount
<1>9. UnlockingInv'
  BY <1>1, <1>2, UnlockingKept DEF Answered
<1>10. QED BY <1>3, <1>4, <1>7, <1>8, <1>9

\* The users of a call are read.
LEMMA GetRangeCounts ==
  ASSUME Inv, NEW c \in Call, GetRange(c)
  PROVE  /\ (WaitCountExact /\ MessageInv /\ UnlockingInv /\ CallsCounted)'
         /\ step' \in [Call -> Step]
         /\ msg' \in [Call -> [User -> Message]]
         /\ waitForSendCount' \in [Call -> 0..MaxUser]
<1> USE DEF Inv, TypeOK
<1>1. PICK users \in UsersRead :
         /\ msg' = [msg EXCEPT ![c] =
                      [u \in User |-> IF u \in users THEN "listed" ELSE "absent"]]
         /\ waitForSendCount' = [waitForSendCount EXCEPT ![c] = Cardinality(users)]
         /\ GoTo(c, IF users = NoUsers THEN "answered" ELSE "sending")
  BY DEF GetRange
<1>2. users \in SUBSET User
  BY <1>1 DEF UsersRead, Key
<1>3. Cardinality(users) \in 0..MaxUser
  BY <1>2, UsersFinite
<1>4. /\ step[c] = "getrange"
      /\ \A d \in Call : step'[d] = IF d = c THEN (IF users = {} THEN "answered" ELSE "sending")
                                   ELSE step[d]
      /\ step' \in [Call -> Step]
  BY <1>1 DEF GetRange, GoTo, NoUsers, Step
<1>5. /\ \A u \in User : msg'[c][u] = IF u \in users THEN "listed" ELSE "absent"
      /\ \A d \in Call : d # c => msg'[d] = msg[d]
      /\ msg' \in [Call -> [User -> Message]]
  BY <1>1 DEF Message
<1>6. \A d \in Call : Unacked(d)' = IF d = c THEN users ELSE Unacked(d)
  BY <1>2, <1>5 DEF Unacked
<1>7. /\ \A d \in Call : waitForSendCount'[d] =
            IF d = c THEN Cardinality(users) ELSE waitForSendCount[d]
      /\ waitForSendCount' \in [Call -> 0..MaxUser]
  BY <1>1, <1>3
<1>8. WaitCountExact'
  BY <1>6, <1>7 DEF WaitCountExact
<1>9. MessageInv'
  <2>1. broker' = broker
    BY DEF GetRange
  <2>2. \A d \in Call : Unacked(d)' # {} <=> step'[d] = "sending"
    BY <1>4, <1>6 DEF MessageInv
  <2>3. \A d \in Call : \A u \in User : msg'[d][u] = "acked" => u \in broker'[d]
    BY <1>5, <2>1 DEF MessageInv
  <2>4. \A d \in Call : d # c => Listed(d)' = Listed(d)
    BY <1>5 DEF Listed
  <2>5. \A d \in Call : Listed(d)' # {} => step'[d] \in Answered \cup {"sending"}
    BY <1>4, <2>4 DEF MessageInv, Answered
  <2>6. QED BY <2>2, <2>3, <2>5 DEF MessageInv
<1>10. CallsCounted'
  <2>1. \A d \in Call : Listed(d)' = IF d = c THEN users ELSE Listed(d)
    BY <1>2, <1>5 DEF Listed
  <2>2. Counted' = Counted
    BY <1>4, <2>1 DEF Counted
  <2>3. taskCount' = taskCount
    BY DEF GetRange
  <2>4. QED BY <2>2, <2>3, CountedIsTaskCount
<1>11. UnlockingInv'
  <2>1. \A d \in Call : step[d] \in Answered => d # c
    BY <1>4 DEF Answered
  <2>2. \A d \in Call : d # c => Listed(d)' = Listed(d) /\ step'[d] = step[d]
    BY <1>4, <1>5 DEF Listed
  <2>3. \A d \in Call : step[d] \in Answered => step'[d] \in Answered /\ Listed(d)' = Listed(d)
    BY <2>1, <2>2
  <2>4. QED BY <2>3, UnlockingKept DEF GetRange
<1>12. QED BY <1>4, <1>5, <1>7, <1>8, <1>9, <1>10, <1>11

\* A message goes from one state in which it is not acknowledged to another.
LEMMA MessageMoves ==
  ASSUME Inv, NEW c \in Call, NEW u \in User,
         NEW m \in {"inflight", "retrying"},
         u \in Unacked(c), Becomes(c, u, m),
         \A d \in Call : broker[d] \subseteq broker'[d],
         UNCHANGED <<step, waitForSendCount, taskCount, unlocking>>
  PROVE  (WaitCountExact /\ MessageInv /\ UnlockingInv /\ CallsCounted)' /\ msg' \in [Call -> [User -> Message]]
<1> USE DEF Inv, TypeOK
<1>1. /\ \A d \in Call : \A v \in User :
             msg'[d][v] = IF d = c /\ v = u THEN m ELSE msg[d][v]
      /\ msg' \in [Call -> [User -> Message]]
  BY DEF Becomes, Message
<1>2. \A d \in Call : Unacked(d)' = Unacked(d) /\ Listed(d)' = Listed(d)
  BY <1>1 DEF Unacked, Listed
<1>3. WaitCountExact'
  BY <1>2 DEF WaitCountExact
<1>4. MessageInv'
  <2>1. \A d \in Call : Unacked(d)' # {} <=> step'[d] = "sending"
    BY <1>2 DEF MessageInv
  <2>2. ASSUME NEW d \in Call, NEW v \in User, msg'[d][v] = "acked"
        PROVE  v \in broker'[d]
    <3>1. msg[d][v] = "acked"
      BY <1>1, <2>2
    <3>2. v \in broker[d]
      BY <3>1 DEF MessageInv
    <3>3. QED BY <3>2
  <2>3. \A d \in Call : Listed(d)' # {} => step'[d] \in Answered \cup {"sending"}
    BY <1>2 DEF MessageInv
  <2>4. QED BY <2>1, <2>2, <2>3 DEF MessageInv
<1>5. CallsCounted'
  <2>1. Counted' = Counted
    BY <1>2 DEF Counted
  <2>2. QED BY <2>1, CountedIsTaskCount
<1>6. UnlockingInv'
  BY <1>2, UnlockingKept
<1>7. QED BY <1>1, <1>3, <1>4, <1>5, <1>6

\* A message is acknowledged, and counted down.
LEMMA OnSuccessCounts ==
  ASSUME Inv, NEW c \in Call, NEW u \in User, OnSuccess(c, u)
  PROVE  /\ (WaitCountExact /\ MessageInv /\ UnlockingInv /\ CallsCounted)'
         /\ step[c] = "sending"
         /\ step' \in [Call -> Step]
         /\ \A d \in Call : step'[d] = step[d] \/ (d = c /\ step'[d] = "answered")
         /\ msg' \in [Call -> [User -> Message]]
         /\ waitForSendCount' \in [Call -> 0..MaxUser]
         /\ taskCount' \in 0..Cardinality(Call)
         /\ broker' \in [Call -> SUBSET User]
         /\ unlocking' \subseteq Call
<1> USE DEF Inv, TypeOK
<1>1. /\ \A d \in Call : \A v \in User :
             msg'[d][v] = IF d = c /\ v = u THEN "acked" ELSE msg[d][v]
      /\ msg' \in [Call -> [User -> Message]]
  BY DEF OnSuccess, Becomes, Message
<1>2. u \in Unacked(c) /\ step[c] = "sending"
  BY DEF OnSuccess, Unacked, MessageInv
<1>3. \A d \in Call : Unacked(d)' = IF d = c THEN Unacked(c) \ {u} ELSE Unacked(d)
  BY <1>1 DEF Unacked
<1>a. (\A d \in Call : Listed(d)' = Listed(d)) /\ u \in Listed(c)
  BY <1>1 DEF Listed, OnSuccess
<1>4. /\ IsFiniteSet(Unacked(c))
      /\ Cardinality(Unacked(c) \ {u}) = Cardinality(Unacked(c)) - 1
  BY <1>2, UnackedUsers, UsersFinite, FS_RemoveElement
<1>5. /\ Cardinality(Unacked(c) \ {u}) \in 0..MaxUser
      /\ Cardinality(Unacked(c) \ {u}) = 0 <=> Unacked(c) \ {u} = {}
  BY UnackedUsers, UsersFinite
<1>6. /\ waitForSendCount'[c] = Cardinality(Unacked(c) \ {u})
      /\ \A d \in Call : d # c => waitForSendCount'[d] = waitForSendCount[d]
      /\ waitForSendCount' \in [Call -> 0..MaxUser]
  <2>1. waitForSendCount' = [waitForSendCount EXCEPT ![c] = waitForSendCount[c] - 1]
    BY DEF OnSuccess, NotifyOne
  <2>2. waitForSendCount[c] = Cardinality(Unacked(c))
    BY DEF WaitCountExact
  <2>3. waitForSendCount[c] - 1 \in 0..MaxUser
    BY <1>4, <1>5, <2>2
  <2>4. QED BY <1>4, <2>1, <2>2, <2>3
<1>7. /\ \A d \in Call : \A v \in broker[d] : v \in broker'[d]
      /\ u \in broker'[c]
      /\ broker' \in [Call -> SUBSET User]
  BY DEF OnSuccess
<1>8. WaitCountExact'
  BY <1>3, <1>6 DEF WaitCountExact
<1>9. CASE Unacked(c) \ {u} = {}
  <2>1. taskCount' = taskCount - 1 /\ GoTo(c, "answered") /\ unlocking' = unlocking \cup {c}
    BY <1>5, <1>6, <1>9 DEF OnSuccess, NotifyOne
  <2>2. /\ \A d \in Call : step'[d] = IF d = c THEN "answered" ELSE step[d]
        /\ step' \in [Call -> Step]
    BY <2>1 DEF GoTo, Step
  <2>3. MessageInv'
    <3>1. \A d \in Call : Unacked(d)' # {} <=> step'[d] = "sending"
      BY <1>3, <1>9, <2>2 DEF MessageInv
    <3>2. \A d \in Call : \A v \in User : msg'[d][v] = "acked" => v \in broker'[d]
      BY <1>1, <1>7 DEF MessageInv
    <3>3. \A d \in Call : Listed(d)' # {} => step'[d] \in Answered \cup {"sending"}
      BY <1>a, <2>2 DEF MessageInv, Answered
    <3>4. QED BY <3>1, <3>2, <3>3 DEF MessageInv
  <2>4. CallsCounted' /\ taskCount' \in 0..Cardinality(Call)
    <3>1. Counted' = Counted \ {c} /\ c \in Counted /\ IsFiniteSet(Counted)
      BY <1>2, <1>a, <2>2, CallsFinite DEF Counted
    <3>2. Cardinality(Counted') = Cardinality(Counted) - 1
      BY <3>1, FS_RemoveElement
    <3>3. CallsCounted'
      BY <2>1, <3>2, CountedIsTaskCount
    <3>4. QED BY <3>3, CountedInRange, CountedIsTaskCount
  <2>5. UnlockingInv' /\ unlocking' \subseteq Call
    BY <1>a, <2>1, <2>2 DEF UnlockingInv, Answered
  <2>6. QED BY <1>1, <1>2, <1>6, <1>7, <1>8, <2>2, <2>3, <2>4, <2>5
<1>10. CASE Unacked(c) \ {u} # {}
  <2>1. UNCHANGED <<taskCount, step, unlocking>>
    BY <1>5, <1>6, <1>10 DEF OnSuccess, NotifyOne
  <2>2. MessageInv'
    <3>1. \A d \in Call : Unacked(d)' # {} <=> step'[d] = "sending"
      BY <1>2, <1>3, <1>10, <2>1 DEF MessageInv
    <3>2. \A d \in Call : \A v \in User : msg'[d][v] = "acked" => v \in broker'[d]
      BY <1>1, <1>7 DEF MessageInv
    <3>3. \A d \in Call : Listed(d)' # {} => step'[d] \in Answered \cup {"sending"}
      BY <1>a, <2>1 DEF MessageInv
    <3>4. QED BY <3>1, <3>2, <3>3 DEF MessageInv
  <2>3. CallsCounted'
    BY <1>a, <2>1 DEF CallsCounted
  <2>4. UnlockingInv'
    BY <1>a, <2>1, UnlockingKept
  <2>5. QED BY <1>1, <1>2, <1>6, <1>7, <1>8, <2>1, <2>2, <2>3, <2>4
<1>11. QED BY <1>9, <1>10

(***************************************************************************)
(* The invariant.                                                          *)
(***************************************************************************)

LEMMA InitInv == Init => Inv
<1> SUFFICES ASSUME Init PROVE Inv
  OBVIOUS
<1> USE DEF Init
<1>1. TypeOK
  <2>1. Cardinality(Call) \in Nat
    BY CallsFinite
  <2>2. tmpKey \in Key /\ step \in [Call -> Step] /\ msg \in [Call -> [User -> Message]]
    BY DEF NoKey, NoUsers, Key, Step, Message
  <2>3. waitForSendCount \in [Call -> 0..MaxUser] /\ broker \in [Call -> SUBSET User]
    BY UserAssumption DEF NoUsers
  <2>4. taskCount \in 0..Cardinality(Call)
    BY <2>1
  <2>5. /\ unlocking \subseteq Call
        /\ tpsCount \in BOOLEAN /\ avgSpeed \in BOOLEAN
        /\ tpsThread \in {"sleeping", "reporting"}
        /\ avgTime \in {"unread", "zero", "positive"}
        /\ score \in {"none", "low", "computed"}
    OBVIOUS
  <2>6. QED BY <2>2, <2>3, <2>4, <2>5 DEF TypeOK
<1>2. \A c \in Call : Unacked(c) = {} /\ Listed(c) = {}
  BY DEF Unacked, Listed
<1>3. WaitCountExact
  BY <1>2, FS_EmptySet DEF WaitCountExact
<1>4. MessageInv
  BY <1>2 DEF MessageInv
<1>5. CallsCounted
  <2>1. Counted = {}
    BY DEF Counted
  <2>2. QED BY <2>1, FS_EmptySet, CountedIsTaskCount
<1>6. KeyExpires
  BY DEF KeyExpires, NoKey
<1>7. UnlockingInv
  BY DEF UnlockingInv
<1>8. QED BY <1>1, <1>3, <1>4, <1>5, <1>6, <1>7 DEF Inv

\* One call's commands to Redis.
LEMMA RedisStepInv ==
  ASSUME Inv, NEW c \in Call, Exists(c) \/ BitOpAnd(c) \/ SetExpiration(c) \/ RedisFails(c)
  PROVE  Inv'
<1>1. PICK s \in {"bitop", "expire", "getrange", "failed"} : GoTo(c, s)
  BY DEF Exists, BitOpAnd, SetExpiration, RedisFails
<1>2. step[c] \in {"waiting", "bitop", "expire", "getrange"}
  BY DEF Exists, BitOpAnd, SetExpiration, RedisFails
<1>3. UNCHANGED <<msg, waitForSendCount, taskCount, unlocking, broker, load>>
  BY DEF Exists, BitOpAnd, SetExpiration, RedisFails
<1>4. (WaitCountExact /\ MessageInv /\ UnlockingInv /\ CallsCounted)'
  <2>1. s \in Step \ {"none", "sending"} /\ step[c] \notin {"none", "sending"}
        /\ s \notin Answered /\ step[c] \notin Answered
    BY <1>1, <1>2 DEF Step, Answered
  <2>2. QED BY <1>1, <1>3, <2>1, StepMoves
<1>5. \A d \in Call : step'[d] = IF d = c THEN s ELSE step[d]
  BY <1>1 DEF GoTo, Inv, TypeOK
<1>6. tmpKey' \in Key /\ (tmpKey'.exists /\ ~tmpKey'.expires => \E d \in Call : step'[d] \in {"expire", "failed"})
  <2> USE DEF Inv, TypeOK, Key
  <2>1. CASE Exists(c)
    <3>1. tmpKey' = tmpKey /\ step[c] = "waiting"
      BY <2>1 DEF Exists
    <3>2. QED BY <1>5, <3>1 DEF KeyExpires
  <2>2. CASE BitOpAnd(c)
    <3>1. CASE \E users \in Released : tmpKey' = NewKey(users) /\ GoTo(c, "expire")
      BY <1>1, <3>1, ReleasedAssumption DEF NewKey, GoTo
    <3>2. CASE tmpKey' = NoKey
      BY <3>2 DEF NoKey, NoUsers
    <3>3. QED BY <2>2, <3>1, <3>2 DEF BitOpAnd
  <2>3. CASE SetExpiration(c)
    <3>1. CASE tmpKey.exists
      BY <2>3, <3>1 DEF SetExpiration
    <3>2. CASE ~tmpKey.exists
      BY <2>3, <3>2 DEF SetExpiration
    <3>3. QED BY <3>1, <3>2
  <2>4. CASE RedisFails(c)
    <3>1. step'[c] = "failed"
      BY <2>4 DEF RedisFails, GoTo
    <3>2. \/ tmpKey' = tmpKey
          \/ \E users \in Released : tmpKey' = NewKey(users)
          \/ tmpKey' = [tmpKey EXCEPT !.expires = TRUE]
      BY <2>4 DEF RedisFails
    <3>3. \A users \in Released : NewKey(users) \in Key
      BY ReleasedAssumption DEF NewKey
    <3>4. [tmpKey EXCEPT !.expires = TRUE] \in Key
      OBVIOUS
    <3>5. tmpKey' \in Key
      BY <3>2, <3>3, <3>4
    <3>6. QED BY <3>1, <3>5
  <2>5. QED BY <2>1, <2>2, <2>3, <2>4
<1>7. step' \in [Call -> Step]
  BY <1>1 DEF GoTo, Step, Inv, TypeOK
<1>8. TypeOK'
  BY <1>3, <1>6, <1>7 DEF TypeOK, Inv, load
<1>9. QED BY <1>4, <1>6, <1>8 DEF Inv, KeyExpires

\* A step that leaves the key alone, and does not move a call away from
\* "expire" or "failed", keeps KeyExpires.
LEMMA KeyExpiresKept ==
  ASSUME Inv, UNCHANGED tmpKey,
         \A d \in Call : step[d] \in {"expire", "failed"} => step'[d] = step[d]
  PROVE  KeyExpires'
BY DEF Inv, KeyExpires

LEMMA NextInv ==
  ASSUME Inv, [Next]_vars
  PROVE  Inv'
<1>1. ASSUME NEW c \in Call, Receive(c) PROVE Inv'
  <2>1. (WaitCountExact /\ MessageInv /\ UnlockingInv /\ CallsCounted)' /\ taskCount' \in 0..Cardinality(Call)
    BY <1>1, ReceiveCounts
  <2>2. step' \in [Call -> Step] /\ \A d \in Call : step'[d] = IF d = c THEN "waiting" ELSE step[d]
    BY <1>1 DEF Receive, GoTo, Step, Inv, TypeOK
  <2>3. KeyExpires'
    BY <1>1, <2>2, KeyExpiresKept DEF Receive
  <2>4. TypeOK'
    BY <1>1, <2>1, <2>2 DEF Receive, load, Inv, TypeOK
  <2>5. QED BY <2>1, <2>3, <2>4 DEF Inv
<1>2. ASSUME NEW c \in Call, Exists(c) \/ BitOpAnd(c) \/ SetExpiration(c) \/ RedisFails(c)
      PROVE  Inv'
  BY <1>2, RedisStepInv
<1>3. ASSUME NEW c \in Call, GetRange(c) PROVE Inv'
  <2>1. /\ (WaitCountExact /\ MessageInv /\ UnlockingInv /\ CallsCounted)'
        /\ step' \in [Call -> Step]
        /\ msg' \in [Call -> [User -> Message]]
        /\ waitForSendCount' \in [Call -> 0..MaxUser]
    BY <1>3, GetRangeCounts
  <2>2. \A d \in Call : d # c => step'[d] = step[d]
    BY <1>3 DEF GetRange, GoTo, Inv, TypeOK
  <2>3. KeyExpires'
    BY <1>3, <2>2, KeyExpiresKept DEF GetRange
  <2>4. TypeOK'
    BY <1>3, <2>1 DEF GetRange, load, Inv, TypeOK
  <2>5. QED BY <2>1, <2>3, <2>4 DEF Inv
<1>4. ASSUME NEW c \in Call, NEW u \in User, NEW m \in {"inflight", "retrying"},
             u \in Unacked(c), Becomes(c, u, m),
             broker' \in [Call -> SUBSET User], \A d \in Call : broker[d] \subseteq broker'[d],
             UNCHANGED <<tmpKey, step, waitForSendCount, taskCount, unlocking, load>>
      PROVE  Inv'
  <2>1. (WaitCountExact /\ MessageInv /\ UnlockingInv /\ CallsCounted)' /\ msg' \in [Call -> [User -> Message]]
    BY <1>4, MessageMoves
  <2>2. KeyExpires'
    BY <1>4, KeyExpiresKept
  <2>3. TypeOK'
    BY <1>4, <2>1 DEF load, Inv, TypeOK
  <2>4. QED BY <2>1, <2>2, <2>3 DEF Inv
<1>5. ASSUME NEW c \in Call, SendNext(c) PROVE Inv'
  <2> DEFINE listed == {u \in User : msg[c][u] = "listed"}
  <2>1. listed \in SUBSET Nat /\ listed # {}
    BY <1>5 DEF SendNext, User
  <2>2. Min(listed) \in listed
    <3> HIDE DEF listed
    <3> QED BY <2>1, MinIsLeast
  <2>3. Min(listed) \in User /\ Min(listed) \in Unacked(c)
    BY <2>2 DEF Unacked
  <2>4. Becomes(c, Min(listed), "inflight") /\ UNCHANGED <<tmpKey, step, waitForSendCount, taskCount, unlocking, broker, load>>
    BY <1>5 DEF SendNext
  <2>5. QED
    <3> HIDE DEF listed
    <3> QED BY <1>4, <2>3, <2>4 DEF Inv, TypeOK
<1>6. ASSUME NEW c \in Call, NEW u \in User, OnSuccess(c, u) PROVE Inv'
  <2>1. /\ (WaitCountExact /\ MessageInv /\ UnlockingInv /\ CallsCounted)'
        /\ step[c] = "sending"
        /\ step' \in [Call -> Step]
        /\ \A d \in Call : step'[d] = step[d] \/ (d = c /\ step'[d] = "answered")
        /\ msg' \in [Call -> [User -> Message]]
        /\ waitForSendCount' \in [Call -> 0..MaxUser]
        /\ taskCount' \in 0..Cardinality(Call)
        /\ broker' \in [Call -> SUBSET User]
        /\ unlocking' \subseteq Call
    BY <1>6, OnSuccessCounts
  <2>2. \A d \in Call : step[d] \in {"expire", "failed"} => step'[d] = step[d]
    BY <2>1
  <2>3. KeyExpires'
    BY <1>6, <2>2, KeyExpiresKept DEF OnSuccess
  <2>4. TypeOK'
    BY <1>6, <2>1 DEF OnSuccess, Inv, TypeOK
  <2>5. QED BY <2>1, <2>3, <2>4 DEF Inv
<1>7. ASSUME NEW c \in Call, NEW u \in User, OnException(c, u) PROVE Inv'
  <2>1. u \in Unacked(c)
    BY <1>7 DEF OnException, Unacked
  <2>2. PICK stored \in {{}, {u}} : broker' = [broker EXCEPT ![c] = @ \cup stored]
    BY <1>7 DEF OnException
  <2>3. broker' \in [Call -> SUBSET User] /\ \A d \in Call : broker[d] \subseteq broker'[d]
    BY <2>2 DEF Inv, TypeOK
  <2>4. QED BY <1>4, <1>7, <2>1, <2>3 DEF OnException
<1>8. ASSUME NEW c \in Call, NEW u \in User, RetrySending(c, u) PROVE Inv'
  <2>1. u \in Unacked(c)
    BY <1>8 DEF RetrySending, Unacked
  <2>2. QED BY <1>4, <1>8, <2>1 DEF RetrySending, Inv, TypeOK
<1>9. ASSUME NEW c \in Call, Delete(c) PROVE Inv'
  <2>1. /\ step[c] = "answered" /\ GoTo(c, "deleted")
        /\ UNCHANGED <<tmpKey, msg, waitForSendCount, taskCount, unlocking, broker, load>>
    BY <1>9 DEF Delete
  <2>2. (WaitCountExact /\ MessageInv /\ UnlockingInv /\ CallsCounted)'
    BY <2>1, StepMoves DEF Step, Answered
  <2>3. step' \in [Call -> Step] /\ \A d \in Call : d # c => step'[d] = step[d]
    BY <2>1 DEF GoTo, Step, Inv, TypeOK
  <2>4. KeyExpires'
    BY <2>1, <2>3, KeyExpiresKept
  <2>5. TypeOK'
    BY <2>1, <2>3 DEF load, Inv, TypeOK
  <2>6. QED BY <2>2, <2>4, <2>5 DEF Inv
<1>10. CASE TmpKeyGoes
  <2>1. tmpKey' = NoKey /\ UNCHANGED <<work, load>>
    BY <1>10 DEF TmpKeyGoes
  <2>2. TypeOK' /\ KeyExpires'
    BY <2>1 DEF Inv, TypeOK, KeyExpires, work, load, NoKey, NoUsers, Key
  <2>3. QED BY <2>1, <2>2, WorkUnchanged DEF Inv
<1>11. CASE TpsAverage \/ TpsReset \/ ReadAvgTime \/ ReportLoad
  <2>1. UNCHANGED <<tmpKey, work>>
    BY <1>11 DEF TpsAverage, TpsReset, ReadAvgTime, ReportLoad
  <2>2. /\ tpsCount' \in BOOLEAN /\ avgSpeed' \in BOOLEAN
        /\ tpsThread' \in {"sleeping", "reporting"}
        /\ avgTime' \in {"unread", "zero", "positive"}
        /\ score' \in {"none", "low", "computed"}
    BY <1>11 DEF TpsAverage, TpsReset, ReadAvgTime, ReportLoad, Inv, TypeOK
  <2>3. TypeOK' /\ KeyExpires'
    BY <2>1, <2>2 DEF Inv, TypeOK, KeyExpires, work
  <2>4. QED BY <2>1, <2>3, WorkUnchanged DEF Inv
<1>12. CASE UNCHANGED vars
  <2>1. TypeOK' /\ KeyExpires'
    BY <1>12 DEF Inv, TypeOK, KeyExpires, vars, work, load
  <2>2. QED BY <1>12, <2>1, WorkUnchanged DEF Inv, vars
<1>13. ASSUME NEW c \in Call, Unlock(c) PROVE Inv'
  <2>1. /\ unlocking' = unlocking \ {c}
        /\ UNCHANGED <<tmpKey, step, msg, waitForSendCount, taskCount, broker, load>>
    BY <1>13 DEF Unlock
  <2>2. \A d \in Call : Unacked(d)' = Unacked(d) /\ Listed(d)' = Listed(d)
    BY <2>1 DEF Unacked, Listed
  <2>3. WaitCountExact' /\ MessageInv'
    BY <2>1, <2>2 DEF Inv, WaitCountExact, MessageInv
  <2>4. UnlockingInv'
    BY <2>1, <2>2 DEF Inv, TypeOK, UnlockingInv
  <2>5. CallsCounted' /\ KeyExpires'
    BY <2>1, <2>2 DEF Inv, CallsCounted, KeyExpires
  <2>6. TypeOK'
    BY <2>1 DEF load, Inv, TypeOK
  <2>7. QED BY <2>3, <2>4, <2>5, <2>6 DEF Inv
<1>14. QED
  BY <1>1, <1>2, <1>3, <1>5, <1>6, <1>7, <1>8, <1>9, <1>10, <1>11, <1>12, <1>13 DEF Next

(***************************************************************************)
(* Producer implements ProduceDelivery.                                    *)
(***************************************************************************)

\* What ProduceDelivery sees of the state.
Reply(c) == IF step[c] \in {"answered", "deleted"} THEN "success" ELSE "open"
Replies == [c \in Call |-> Reply(c)]
Founds == [c \in Call |-> Listed(c)]

\* What is answered is at the broker.
LEMMA InvSent == Inv => SuccessMeansSent
<1> SUFFICES ASSUME Inv, NEW c \in Call, step[c] \in {"answered", "deleted"},
                    NEW u \in Listed(c)
             PROVE  u \in broker[c]
  BY DEF SuccessMeansSent
<1>1. u \in User /\ u \notin Unacked(c) /\ msg[c][u] # "absent"
  BY DEF Inv, MessageInv, Listed
<1>2. msg[c][u] = "acked"
  BY <1>1 DEF Inv, TypeOK, Unacked, Message
<1>3. QED BY <1>1, <1>2 DEF Inv, MessageInv

\* The state of ProduceDelivery, written out.
LEMMA DeliveryState ==
  /\ Delivery!vars = <<Replies, Founds, broker>>
  /\ Delivery!vars' = <<Replies', Founds', broker'>>
BY DEF Delivery!vars, Replies, Founds, Reply

\* GETRANGE finds the users of a call.
LEMMA GetRangeFinds ==
  ASSUME Inv, NEW c \in Call, GetRange(c)
  PROVE  Delivery!Find(c)
<1>1. PICK users \in UsersRead :
         /\ msg' = [msg EXCEPT ![c] =
                      [u \in User |-> IF u \in users THEN "listed" ELSE "absent"]]
         /\ GoTo(c, IF users = NoUsers THEN "answered" ELSE "sending")
  BY DEF GetRange
<1>2. users \in SUBSET User
  BY <1>1 DEF UsersRead, Inv, TypeOK, Key
<1>3. step[c] = "getrange" /\ Listed(c) = {}
  BY DEF GetRange, Inv, MessageInv, Answered
<1>4. /\ \A d \in Call : d # c => Listed(d)' = Listed(d) /\ step'[d] = step[d]
      /\ Listed(c)' = users
      /\ step'[c] = IF users = {} THEN "answered" ELSE "sending"
  BY <1>1, <1>2 DEF Listed, GoTo, NoUsers, Inv, TypeOK
<1>5. Founds' = [Founds EXCEPT ![c] = users]
  BY <1>4 DEF Founds
<1>6. Replies' = IF users = {} THEN [Replies EXCEPT ![c] = "success"] ELSE Replies
  BY <1>3, <1>4 DEF Replies, Reply
<1>7. Replies[c] = "open" /\ Founds[c] = {} /\ Founds'[c] = users /\ broker' = broker
  BY <1>3, <1>4 DEF Replies, Reply, Founds, GetRange
<1>8. QED BY <1>2, <1>5, <1>6, <1>7 DEF Delivery!Find, Delivery!Answer, Replies, Founds, Reply

\* A message acknowledged by the broker is stored for a user who was found; the
\* answer that NotifyOne may give to the call leaves nobody out.
LEMMA OnSuccessStores ==
  ASSUME Inv, SuccessMeansSent', NEW c \in Call, NEW u \in User, OnSuccess(c, u)
  PROVE  Delivery!Store(c, u)
<1>1. u \in Unacked(c) /\ u \in Listed(c) /\ step[c] = "sending"
  BY DEF OnSuccess, Unacked, Listed, Inv, MessageInv
<1>2. \A d \in Call : Listed(d)' = Listed(d)
  BY DEF OnSuccess, Becomes, Listed, Inv, TypeOK
<1>3. Founds' = Founds /\ Founds[c] = Listed(c) /\ Replies[c] = "open"
  BY <1>1, <1>2 DEF Founds, Replies, Reply
<1>4. broker' = [broker EXCEPT ![c] = @ \cup {u}]
  BY DEF OnSuccess
<1>5. CASE UNCHANGED step
  <2>1. Replies' = Replies
    BY <1>5 DEF Replies, Reply
  <2>2. QED BY <1>1, <1>3, <1>4, <2>1 DEF Delivery!Store, Replies, Founds, Reply
<1>6. CASE GoTo(c, "answered")
  <2>1. \A d \in Call : step'[d] = IF d = c THEN "answered" ELSE step[d]
    BY <1>6 DEF GoTo, Inv, TypeOK
  <2>2. Replies' = [Replies EXCEPT ![c] = "success"]
    BY <2>1 DEF Replies, Reply
  <2>3. Founds'[c] \subseteq broker'[c]
    BY <2>1, <1>2 DEF SuccessMeansSent, Founds
  <2>4. QED BY <1>1, <1>3, <1>4, <2>2, <2>3 DEF Delivery!Store, Delivery!Answer, Replies, Founds, Reply
<1>7. QED BY <1>5, <1>6 DEF OnSuccess, NotifyOne

\* A message that failed may have been stored all the same.
LEMMA OnExceptionStores ==
  ASSUME Inv, NEW c \in Call, NEW u \in User, OnException(c, u)
  PROVE  Delivery!Store(c, u) \/ UNCHANGED Delivery!vars
<1>1. u \in Unacked(c) /\ u \in Listed(c) /\ step[c] = "sending"
  BY DEF OnException, Unacked, Listed, Inv, MessageInv
<1>2. \A d \in Call : Listed(d)' = Listed(d)
  BY DEF OnException, Becomes, Listed, Inv, TypeOK
<1>3. Founds' = Founds /\ Founds[c] = Listed(c) /\ Replies' = Replies /\ Replies[c] = "open"
  BY <1>1, <1>2 DEF Founds, Replies, Reply, OnException
<1>4. PICK stored \in {{}, {u}} : broker' = [broker EXCEPT ![c] = @ \cup stored]
  BY DEF OnException
<1>5. CASE stored = {u}
  BY <1>1, <1>3, <1>4, <1>5 DEF Delivery!Store, Replies, Founds, Reply
<1>6. CASE stored = {}
  <2>1. broker' = broker
    BY <1>4, <1>6 DEF Inv, TypeOK
  <2>2. QED BY <1>3, <2>1, DeliveryState
<1>7. QED BY <1>5, <1>6

\* A step that leaves the broker alone, answers nobody and keeps who is listed
\* means nothing to ProduceDelivery.
LEMMA DeliveryStutter ==
  ASSUME UNCHANGED broker,
         \A d \in Call : Listed(d)' = Listed(d) /\ Reply(d)' = Reply(d)
  PROVE  UNCHANGED Delivery!vars
<1>1. Replies' = Replies /\ Founds' = Founds
  BY DEF Replies, Founds
<1>2. QED BY <1>1, DeliveryState

\* A step from one state of a call in which it is not answered to another, or
\* from one in which it is.
LEMMA GoToStutters ==
  ASSUME Inv, NEW c \in Call, NEW s, GoTo(c, s), UNCHANGED <<broker, msg>>,
         s \in {"answered", "deleted"} <=> step[c] \in {"answered", "deleted"}
  PROVE  UNCHANGED Delivery!vars
<1>1. \A d \in Call : step'[d] = IF d = c THEN s ELSE step[d]
  BY DEF GoTo, Inv, TypeOK
<1>2. \A d \in Call : Listed(d)' = Listed(d) /\ Reply(d)' = Reply(d)
  BY <1>1 DEF Listed, Reply
<1>3. QED BY <1>2, DeliveryStutter

\* A message that was listed and still is.
LEMMA BecomesStutters ==
  ASSUME Inv, NEW c \in Call, NEW u \in User, NEW m \in Message \ {"absent"},
         msg[c][u] # "absent", Becomes(c, u, m), UNCHANGED <<broker, step>>
  PROVE  UNCHANGED Delivery!vars
<1>1. \A d \in Call : Listed(d)' = Listed(d)
  BY DEF Becomes, Listed, Inv, TypeOK
<1>2. \A d \in Call : Reply(d)' = Reply(d)
  BY DEF Reply
<1>3. QED BY <1>1, <1>2, DeliveryStutter

\* Every step of a producer is a step of ProduceDelivery, or changes nothing it
\* speaks of.
LEMMA DeliveryStep ==
  ASSUME Inv, SuccessMeansSent', [Next]_vars
  PROVE  [Delivery!Next]_(Delivery!vars)
<1>1. ASSUME NEW c \in Call, Receive(c) PROVE UNCHANGED Delivery!vars
  <2>1. GoTo(c, "waiting") /\ step[c] = "none" /\ UNCHANGED <<broker, msg>>
    BY <1>1 DEF Receive
  <2>2. QED BY <2>1, GoToStutters
<1>2. ASSUME NEW c \in Call, Exists(c) \/ BitOpAnd(c) \/ SetExpiration(c) \/ RedisFails(c)
      PROVE  UNCHANGED Delivery!vars
  <2>1. PICK s \in {"bitop", "expire", "getrange", "failed"} : GoTo(c, s)
    BY <1>2 DEF Exists, BitOpAnd, SetExpiration, RedisFails
  <2>2. step[c] \in {"waiting", "bitop", "expire", "getrange"} /\ UNCHANGED <<broker, msg>>
    BY <1>2 DEF Exists, BitOpAnd, SetExpiration, RedisFails
  <2>3. s \notin {"answered", "deleted"} /\ step[c] \notin {"answered", "deleted"}
    BY <2>1, <2>2
  <2>4. QED BY <2>1, <2>2, <2>3, GoToStutters
<1>3. ASSUME NEW c \in Call, GetRange(c) PROVE Delivery!Next
  BY <1>3, GetRangeFinds DEF Delivery!Next
<1>4. ASSUME NEW c \in Call, SendNext(c) PROVE UNCHANGED Delivery!vars
  <2> DEFINE listed == {u \in User : msg[c][u] = "listed"}
  <2>1. listed \in SUBSET Nat /\ listed # {}
    BY <1>4 DEF SendNext, User
  <2>2. Min(listed) \in listed
    <3> HIDE DEF listed
    <3> QED BY <2>1, MinIsLeast
  <2>3. Min(listed) \in User /\ msg[c][Min(listed)] # "absent"
    BY <2>2
  <2>4. Becomes(c, Min(listed), "inflight") /\ UNCHANGED <<broker, step>>
    BY <1>4 DEF SendNext
  <2>5. QED
    <3> HIDE DEF listed
    <3> QED BY <2>3, <2>4, BecomesStutters DEF Message
<1>5. ASSUME NEW c \in Call, NEW u \in User, OnSuccess(c, u) PROVE Delivery!Next
  BY <1>5, OnSuccessStores DEF Delivery!Next
<1>6. ASSUME NEW c \in Call, NEW u \in User, OnException(c, u)
      PROVE  Delivery!Next \/ UNCHANGED Delivery!vars
  BY <1>6, OnExceptionStores DEF Delivery!Next
<1>7. ASSUME NEW c \in Call, NEW u \in User, RetrySending(c, u) PROVE UNCHANGED Delivery!vars
  <2>1. msg[c][u] # "absent" /\ Becomes(c, u, "inflight") /\ UNCHANGED <<broker, step>>
    BY <1>7 DEF RetrySending
  <2>2. QED BY <2>1, BecomesStutters DEF Message
<1>8. ASSUME NEW c \in Call, Delete(c) PROVE UNCHANGED Delivery!vars
  <2>1. step[c] = "answered" /\ GoTo(c, "deleted") /\ UNCHANGED <<broker, msg>>
    BY <1>8 DEF Delete
  <2>2. QED BY <2>1, GoToStutters
<1>9. ASSUME UNCHANGED work PROVE UNCHANGED Delivery!vars
  BY <1>9, DeliveryStutter DEF work, Listed, Reply
<1>10. CASE TmpKeyGoes \/ TpsAverage \/ TpsReset \/ ReadAvgTime \/ ReportLoad \/ UNCHANGED vars
  BY <1>9, <1>10 DEF TmpKeyGoes, TpsAverage, TpsReset, ReadAvgTime, ReportLoad, vars
<1>11. ASSUME NEW c \in Call, Unlock(c) PROVE UNCHANGED Delivery!vars
  BY <1>11, DeliveryStutter DEF Unlock, Listed, Reply
<1>12. QED
  BY <1>1, <1>2, <1>3, <1>4, <1>5, <1>6, <1>7, <1>8, <1>10, <1>11 DEF Next

LEMMA DeliveryInit == Init => Delivery!Init
<1> SUFFICES ASSUME Init PROVE Delivery!Init
  OBVIOUS
<1>1. \A c \in Call : Reply(c) = "open" /\ Listed(c) = {}
  BY DEF Init, Reply, Listed
<1>2. Replies = [c \in Call |-> "open"] /\ Founds = [c \in Call |-> {}]
  BY <1>1 DEF Replies, Founds
<1>3. broker = [c \in Call |-> {}]
  BY DEF Init, NoUsers
<1>4. QED BY <1>2, <1>3 DEF Delivery!Init, Replies, Founds, Reply

(***************************************************************************)
(* The theorems.                                                           *)
(***************************************************************************)

\* Spec keeps the types of all variables (Producer!TypeOK): taskCount never
\* falls below 0, and waitForSendCount neither.
THEOREM TypeCorrect == Spec => []TypeOK
<1>1. Inv => TypeOK
  BY DEF Inv
<1>2. QED BY InitInv, NextInv, <1>1, PTL DEF Spec

\* NotifyOne counts every message exactly once, whatever sends it again.
THEOREM WaitCountCorrect == Spec => []WaitCountExact
<1>1. Inv => WaitCountExact
  BY DEF Inv
<1>2. QED BY InitInv, NextInv, <1>1, PTL DEF Spec

\* A call that NotifyOne answers has all of its messages at the broker.
THEOREM SuccessCorrect == Spec => []SuccessMeansSent
BY InitInv, NextInv, InvSent, PTL DEF Spec

\* A call is neither answered nor deleted while callbacks or threads have messages
\* of it to work on: what may come too late is the unlock of waitForSndCntMtx
\* after the Finish of the last callback, and nothing else.
THEOREM LifetimeCorrect == Spec => []CallOutlivesItsMessages
<1>1. ASSUME Inv, NEW c \in Call
      PROVE  /\ Unacked(c) # {} => step[c] = "sending"
             /\ c \in unlocking => Unacked(c) = {} /\ Listed(c) # {}
  BY <1>1 DEF Inv, MessageInv, UnlockingInv, Answered
<1>2. Inv => CallOutlivesItsMessages
  BY <1>1 DEF CallOutlivesItsMessages
<1>3. QED BY InitInv, NextInv, <1>2, PTL DEF Spec

\* taskCount, which SendLoadBalanceInfo reports, counts the calls that are worked
\* on, and beside them only those that failed or found no users.
THEOREM CallsCountedCorrect == Spec => []CallsCounted
<1>1. Inv => CallsCounted
  BY DEF Inv
<1>2. QED BY InitInv, NextInv, <1>1, PTL DEF Spec

\* ProduceMsg gives the key that BITOP makes an expiration, unless it fails.
THEOREM KeyExpiresCorrect == Spec => []KeyExpires
<1>1. Inv => KeyExpires
  BY DEF Inv
<1>2. QED BY InitInv, NextInv, <1>1, PTL DEF Spec

\* A producer keeps the promise of ProduceDelivery: users are found once, stored
\* for before the answer, and only they.
THEOREM DeliveryImplemented == Spec => ImplementsDelivery
BY InitInv, NextInv, InvSent, DeliveryInit, DeliveryStep, PTL
   DEF Spec, ImplementsDelivery, Delivery!Spec

\* No call is answered without users.
UsersFound == \A c \in Call : step[c] \in {"answered", "deleted"} => Listed(c) # {}

\* The lowest score is reported by a busy producer (Producer!LowScoreMeansBusy),
\* as long as every call finds users: calls without users, which taskCount keeps,
\* are the only reason for the property to fail.
THEOREM LowScoreBusy == Spec /\ []UsersFound => LowScoreMeansBusy
<1> DEFINE Busy == \E c \in Call : step[c] \notin {"none", "answered", "deleted"}
<1>1. ASSUME Inv, UsersFound, [Next]_vars
      PROVE  [score' = "low" /\ avgTime # "unread" /\ avgTime' = "unread" => Busy]_vars
  <2> SUFFICES ASSUME Next, score' = "low", avgTime # "unread", avgTime' = "unread" PROVE Busy
    BY <1>1
  <2>1. ReportLoad
    <3>1. ~UNCHANGED load
      BY DEF load
    <3>2. ~(TpsAverage \/ TpsReset \/ ReadAvgTime)
      BY DEF TpsAverage, TpsReset, ReadAvgTime
    <3>3. ~TmpKeyGoes
      BY <3>1 DEF TmpKeyGoes
    <3>4. ASSUME NEW c \in Call
          PROVE  ~(Receive(c) \/ Exists(c) \/ BitOpAnd(c) \/ SetExpiration(c) \/ GetRange(c)
                     \/ RedisFails(c) \/ SendNext(c) \/ Unlock(c) \/ Delete(c))
      BY <3>1 DEF Receive, Exists, BitOpAnd, SetExpiration, GetRange, RedisFails, SendNext,
                  Unlock, Delete, load
    <3>5. QED
      BY <3>1, <3>2, <3>3, <3>4 DEF Next, OnSuccess, OnException, RetrySending, load
  <2>2. taskCount # 0
    BY <2>1 DEF ReportLoad
  <2>3. Counted # {}
    BY <1>1, <2>2, CountedIsTaskCount, FS_EmptySet DEF Inv
  <2>4. QED BY <1>1, <2>3 DEF Counted, UsersFound
<1>2. QED BY InitInv, NextInv, <1>1, PTL DEF Spec, LowScoreMeansBusy
=============================================================================
