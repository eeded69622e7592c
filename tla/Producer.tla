-------------------------------- MODULE Producer --------------------------------
(***************************************************************************)
(* A producer process (src/producer): the handling of ProduceMsg calls and *)
(* the report of the process's load.                                       *)
(*                                                                         *)
(* A call is handled by a thread of its own.  Under redisMtx it makes sure *)
(* that the TMP_USER_INFO_KEY exists and reads its range of it; then it    *)
(* sends one message for each user found, through the asynchronous client  *)
(* of RocketMQ, whose callbacks count the messages down and answer the     *)
(* call.  A message that fails is sent again, by the same thread or by a   *)
(* thread of its own, for ever.                                            *)
(*                                                                         *)
(* The calls of the model ask for the same range, the users 1..MaxUser.    *)
(***************************************************************************)
EXTENDS Integers, FiniteSets, FiniteSetsExt

CONSTANTS
    Call,        \* ProduceMsg calls
    MaxUser,     \* bound: users of the range
    Released     \* what BITOP AND may find: sets of users

User == 1..MaxUser
NoUsers == {}

ASSUME CallAssumption == IsFiniteSet(Call)
ASSUME UserAssumption == MaxUser \in Nat
ASSUME ReleasedAssumption == Released \subseteq SUBSET User

VARIABLES
    tmpKey,      \* TMP_USER_INFO_KEY in Redis
    step,        \* where the handling of each call stands
    msg,         \* for each call, what became of the message to each user
    waitForSendCount,
    taskCount,
    unlocking,   \* calls whose answer is out, but whose waitForSndCntMtx is still held
    broker,      \* for each call, the users whose message the broker has
    tpsCount,    \* tps_count_ is not zero
    avgSpeed,    \* avg_speed_ is not zero
    tpsThread,   \* TpsReport is between its store of avg_speed_ and tps_count_
    avgTime,     \* what SendLoadBalanceInfo has read of avg_speed_
    score        \* the last score reported

load == <<tpsCount, avgSpeed, tpsThread, avgTime, score>>
work == <<step, msg, waitForSendCount, taskCount, unlocking, broker>>
vars == <<tmpKey, work, load>>

(***************************************************************************)
(* The state.                                                              *)
(*                                                                         *)
(* A call that has arrived waits for redisMtx; "bitop", "expire" and       *)
(* "getrange" name the Redis command its thread is about to give while it  *)
(* holds the mutex.  It is "sending" until NotifyOne counts its last       *)
(* message; "failed" when ProduceMsg returned ERR, which Proceed ignores.  *)
(*                                                                         *)
(* A message is "listed" until the loop of ProduceMsg has sent it, then    *)
(* "inflight", "retrying" in the thread of RetrySending, and "acked".      *)
(***************************************************************************)
Step == {"none", "waiting", "bitop", "expire", "getrange", "sending",
         "failed", "answered", "deleted"}
Message == {"absent", "listed", "inflight", "retrying", "acked"}

\* The key: the users of its range, and whether it will expire
Key == [exists : BOOLEAN, users : SUBSET User, expires : BOOLEAN]
NoKey == [exists |-> FALSE, users |-> NoUsers, expires |-> FALSE]
NewKey(users) == [exists |-> TRUE, users |-> users, expires |-> FALSE]

Listed(c) == {u \in User : msg[c][u] # "absent"}
Unacked(c) == {u \in User : msg[c][u] \in {"listed", "inflight", "retrying"}}
HoldsRedisMtx(c) == step[c] \in {"bitop", "expire", "getrange"}
RedisMtxFree == \A c \in Call : ~HoldsRedisMtx(c)

Init ==
    /\ tmpKey = NoKey
    /\ step = [c \in Call |-> "none"]
    /\ msg = [c \in Call |-> [u \in User |-> "absent"]]
    /\ waitForSendCount = [c \in Call |-> 0]
    /\ taskCount = 0
    /\ unlocking = {}
    /\ broker = [c \in Call |-> NoUsers]
    /\ tpsCount = FALSE
    /\ avgSpeed = FALSE
    /\ tpsThread = "sleeping"
    /\ avgTime = "unread"
    /\ score = "none"

(***************************************************************************)
(* ProduceMsgCallData::Proceed and ProduceMsg.                             *)
(***************************************************************************)
GoTo(c, s) == step' = [step EXCEPT ![c] = s]

\* Mutant of Receive: the call is not counted
ReceiveUncounted(c) ==
    /\ step[c] = "none"
    /\ GoTo(c, "waiting")
    /\ UNCHANGED <<tmpKey, msg, waitForSendCount, taskCount, unlocking, broker, load>>

\* A call arrives: Proceed in status PROCESS up to redisMtx.lock()
Receive(c) ==
    /\ step[c] = "none"
    /\ GoTo(c, "waiting")
    /\ taskCount' = taskCount + 1
    /\ UNCHANGED <<tmpKey, msg, waitForSendCount, unlocking, broker, load>>

\* EXISTS
Exists(c) ==
    /\ step[c] = "waiting"
    /\ RedisMtxFree
    /\ GoTo(c, IF tmpKey.exists THEN "getrange" ELSE "bitop")
    /\ UNCHANGED <<tmpKey, msg, waitForSendCount, taskCount, unlocking, broker, load>>

\* BITOP AND of the release keys; it leaves no key when there are none
BitOpAnd(c) ==
    /\ step[c] = "bitop"
    /\ \/ \E users \in Released :
            /\ tmpKey' = NewKey(users)
            /\ GoTo(c, "expire")
       \/ /\ tmpKey' = NoKey
          /\ GoTo(c, "failed")
    /\ UNCHANGED <<msg, waitForSendCount, taskCount, unlocking, broker, load>>

\* Mutant of SetExpiration: the command is not given
SetNoExpiration(c) ==
    /\ step[c] = "expire"
    /\ GoTo(c, "getrange")
    /\ UNCHANGED <<tmpKey, msg, waitForSendCount, taskCount, unlocking, broker, load>>

\* EXPIRE; it answers 0 when the key has gone
SetExpiration(c) ==
    /\ step[c] = "expire"
    /\ IF tmpKey.exists
         THEN GoTo(c, "getrange") /\ tmpKey' = [tmpKey EXCEPT !.expires = TRUE]
         ELSE GoTo(c, "failed") /\ UNCHANGED tmpKey
    /\ UNCHANGED <<msg, waitForSendCount, taskCount, unlocking, broker, load>>

\* What the bits of the answer to GETRANGE are read as.  When the key has gone
\* the answer is empty, and the bytes behind it are read: any users.
UsersRead == IF tmpKey.exists THEN {tmpKey.users} ELSE SUBSET User

\* Mutant of GetRange: the call is answered at once, not by the last callback
AnsweredAtOnce(c) ==
    /\ step[c] = "getrange"
    /\ \E users \in UsersRead :
         /\ msg' = [msg EXCEPT ![c] =
                      [u \in User |-> IF u \in users THEN "listed" ELSE "absent"]]
         /\ waitForSendCount' = [waitForSendCount EXCEPT ![c] = Cardinality(users)]
    /\ GoTo(c, "answered")
    /\ UNCHANGED <<tmpKey, taskCount, unlocking, broker, load>>

\* GETRANGE and the list of users; without users the call is answered at once
GetRange(c) ==
    /\ step[c] = "getrange"
    /\ \E users \in UsersRead :
         /\ msg' = [msg EXCEPT ![c] =
                      [u \in User |-> IF u \in users THEN "listed" ELSE "absent"]]
         /\ waitForSendCount' = [waitForSendCount EXCEPT ![c] = Cardinality(users)]
         /\ GoTo(c, IF users = NoUsers THEN "answered" ELSE "sending")
    /\ UNCHANGED <<tmpKey, taskCount, unlocking, broker, load>>

\* RedisHandler::command gives up and returns NULL.  The command may have been
\* executed all the same, its answers lost.
RedisFails(c) ==
    /\ \/ step[c] = "waiting" /\ RedisMtxFree /\ UNCHANGED tmpKey
       \/ step[c] = "getrange" /\ UNCHANGED tmpKey
       \/ /\ step[c] = "bitop"
          /\ \/ UNCHANGED tmpKey
             \/ \E users \in Released : tmpKey' = NewKey(users)
       \/ /\ step[c] = "expire"
          /\ \/ UNCHANGED tmpKey
             \/ tmpKey.exists /\ tmpKey' = [tmpKey EXCEPT !.expires = TRUE]
    /\ GoTo(c, "failed")
    /\ UNCHANGED <<msg, waitForSendCount, taskCount, unlocking, broker, load>>

\* The key expires, or the update of the user lists deletes it
TmpKeyGoes ==
    /\ tmpKey.exists
    /\ tmpKey' = NoKey
    /\ UNCHANGED <<work, load>>

(***************************************************************************)
(* The messages: AsyncProducerWorker, its callbacks and NotifyOne.         *)
(***************************************************************************)
Becomes(c, u, m) == msg' = [msg EXCEPT ![c][u] = m]

\* The next iteration of the loop of ProduceMsg.  A send that throws is tried
\* again a second later by the same thread: until then nothing happens.
SendNext(c) ==
    LET listed == {u \in User : msg[c][u] = "listed"}
    IN /\ listed # {}
       /\ Becomes(c, Min(listed), "inflight")
       /\ UNCHANGED <<tmpKey, step, waitForSendCount, taskCount, unlocking, broker, load>>

\* Mutants of NotifyOne: the call is answered one message early, and every
\* message takes its call off taskCount
NotifyEarly(c) ==
    /\ c \notin unlocking
    /\ waitForSendCount' = [waitForSendCount EXCEPT ![c] = @ - 1]
    /\ IF waitForSendCount'[c] = 1
         THEN taskCount' = taskCount - 1 /\ GoTo(c, "answered") /\ unlocking' = unlocking \cup {c}
         ELSE UNCHANGED <<taskCount, step, unlocking>>
NotifyUncounts(c) ==
    /\ c \notin unlocking
    /\ waitForSendCount' = [waitForSendCount EXCEPT ![c] = @ - 1]
    /\ taskCount' = taskCount - 1
    /\ IF waitForSendCount'[c] = 0
         THEN GoTo(c, "answered") /\ unlocking' = unlocking \cup {c}
         ELSE UNCHANGED <<step, unlocking>>

\* NotifyOne, from lock() to Finish: the last message answers the call.  The
\* unlock() that follows a Finish is a step of its own.
NotifyOne(c) ==
    /\ c \notin unlocking
    /\ waitForSendCount' = [waitForSendCount EXCEPT ![c] = @ - 1]
    /\ IF waitForSendCount'[c] = 0
         THEN taskCount' = taskCount - 1 /\ GoTo(c, "answered") /\ unlocking' = unlocking \cup {c}
         ELSE UNCHANGED <<taskCount, step, unlocking>>

\* waitForSndCntMtx.unlock() after Finish.  The event of the answer may have
\* deleted the call by now: the mutex is a member of it.
Unlock(c) ==
    /\ c \in unlocking
    /\ unlocking' = unlocking \ {c}
    /\ UNCHANGED <<tmpKey, step, msg, waitForSendCount, taskCount, broker, load>>

\* ProducerSendCallBack::onSuccess
OnSuccess(c, u) ==
    /\ msg[c][u] = "inflight"
    /\ Becomes(c, u, "acked")
    /\ broker' = [broker EXCEPT ![c] = @ \cup {u}]
    /\ tpsCount' = TRUE
    /\ NotifyOne(c)
    /\ UNCHANGED <<tmpKey, avgSpeed, tpsThread, avgTime, score>>

\* Mutants of OnException: the failure counts as a success, the message is
\* counted down and sent again, and it is dropped
FailureCounts(c, u) ==
    /\ msg[c][u] = "inflight"
    /\ Becomes(c, u, "acked")
    /\ NotifyOne(c)
    /\ UNCHANGED <<tmpKey, broker, load>>
FailureCountsAndRetries(c, u) ==
    /\ msg[c][u] = "inflight"
    /\ Becomes(c, u, "retrying")
    /\ NotifyOne(c)
    /\ UNCHANGED <<tmpKey, broker, load>>
FailureDrops(c, u) ==
    /\ msg[c][u] = "inflight"
    /\ Becomes(c, u, "absent")
    /\ UNCHANGED <<tmpKey, step, waitForSendCount, taskCount, unlocking, broker, load>>

\* ProducerSendCallBack::onException; the broker may have the message or not
OnException(c, u) ==
    /\ msg[c][u] = "inflight"
    /\ Becomes(c, u, "retrying")
    /\ \E stored \in {{}, {u}} : broker' = [broker EXCEPT ![c] = @ \cup stored]
    /\ UNCHANGED <<tmpKey, step, waitForSendCount, taskCount, unlocking, load>>

\* RetrySending
RetrySending(c, u) ==
    /\ msg[c][u] = "retrying"
    /\ Becomes(c, u, "inflight")
    /\ UNCHANGED <<tmpKey, step, waitForSendCount, taskCount, unlocking, broker, load>>

\* Proceed in status FINISH, on a thread of its own as soon as the answer is out
Delete(c) ==
    /\ step[c] = "answered"
    /\ GoTo(c, "deleted")
    /\ UNCHANGED <<tmpKey, msg, waitForSendCount, taskCount, unlocking, broker, load>>

(***************************************************************************)
(* The load report: TpsReportService and SendLoadBalanceInfo.  Of the      *)
(* number of messages acknowledged only whether it is zero matters.        *)
(***************************************************************************)

\* TpsReport reads tps_count_ and stores avg_speed_ ...
TpsAverage ==
    /\ tpsThread = "sleeping"
    /\ tpsThread' = "reporting"
    /\ avgSpeed' = tpsCount
    /\ UNCHANGED <<tmpKey, work, tpsCount, avgTime, score>>

\* ... and resets tps_count_, with whatever was counted in between
TpsReset ==
    /\ tpsThread = "reporting"
    /\ tpsThread' = "sleeping"
    /\ tpsCount' = FALSE
    /\ UNCHANGED <<tmpKey, work, avgSpeed, avgTime, score>>

\* SendLoadBalanceInfo reads the average ...
ReadAvgTime ==
    /\ avgTime = "unread"
    /\ avgTime' = IF avgSpeed THEN "positive" ELSE "zero"
    /\ UNCHANGED <<tmpKey, work, tpsCount, avgSpeed, tpsThread, score>>

\* ... then taskCount, and reports
ReportLoad ==
    /\ avgTime # "unread"
    /\ avgTime' = "unread"
    /\ score' = IF avgTime = "zero" /\ taskCount # 0 THEN "low" ELSE "computed"
    /\ UNCHANGED <<tmpKey, work, tpsCount, avgSpeed, tpsThread>>

Next ==
    \/ \E c \in Call :
         \/ Receive(c)
         \/ Exists(c)
         \/ BitOpAnd(c)
         \/ SetExpiration(c)
         \/ GetRange(c)
         \/ RedisFails(c)
         \/ SendNext(c)
         \/ \E u \in User : OnSuccess(c, u) \/ OnException(c, u) \/ RetrySending(c, u)
         \/ Unlock(c)
         \/ Delete(c)
    \/ TmpKeyGoes
    \/ TpsAverage
    \/ TpsReset
    \/ ReadAvgTime
    \/ ReportLoad

Spec == Init /\ [][Next]_vars

(***************************************************************************)
(* Safety.                                                                 *)
(***************************************************************************)

\* Every variable has a value of its type.
TypeOK ==
    /\ tmpKey \in Key
    /\ step \in [Call -> Step]
    /\ msg \in [Call -> [User -> Message]]
    /\ waitForSendCount \in [Call -> 0..MaxUser]
    /\ taskCount \in 0..Cardinality(Call)
    /\ unlocking \subseteq Call
    /\ broker \in [Call -> SUBSET User]
    /\ tpsCount \in BOOLEAN /\ avgSpeed \in BOOLEAN
    /\ tpsThread \in {"sleeping", "reporting"}
    /\ avgTime \in {"unread", "zero", "positive"}
    /\ score \in {"none", "low", "computed"}

\* waitForSendCount is the number of messages still to be acknowledged,
\* however often they are sent again: the callbacks count each one once, and
\* never answer a call the loop is still sending for.
WaitCountExact ==
    \A c \in Call : waitForSendCount[c] = Cardinality(Unacked(c))

\* SUCCESS is answered only when the broker has a message for every user the
\* call found.
SuccessMeansSent ==
    \A c \in Call : step[c] \in {"answered", "deleted"} => Listed(c) \subseteq broker[c]

\* The callbacks and threads of a call hold a pointer to it.  Until its last
\* message is acknowledged it is neither answered nor deleted; afterwards nobody
\* uses it but the callback that gave the answer.  That one still has the mutex
\* of the call to unlock, and the call may be deleted before it does.
CallOutlivesItsMessages ==
    \A c \in Call :
      /\ Unacked(c) # {} => step[c] = "sending"
      /\ c \in unlocking => Unacked(c) = {} /\ Listed(c) # {}

\* taskCount is the number of calls that are worked on, that failed, or that
\* found no users: NotifyOne, which counts down, is reached by no other end of
\* a call than its last message.
CallsCounted ==
    taskCount = Cardinality({c \in Call :
      \/ step[c] \notin {"none", "answered", "deleted"}
      \/ step[c] \in {"answered", "deleted"} /\ Listed(c) = {}})

\* A TMP_USER_INFO_KEY that never expires is about to be given its expiration,
\* or a call failed on the way.
KeyExpires ==
    tmpKey.exists /\ ~tmpKey.expires => \E c \in Call : step[c] \in {"expire", "failed"}

(***************************************************************************)
(* The abstract specification.                                             *)
(***************************************************************************)

Delivery == INSTANCE ProduceDelivery WITH
    reply <- [c \in Call |-> IF step[c] \in {"answered", "deleted"} THEN "success" ELSE "open"],
    found <- [c \in Call |-> Listed(c)],
    stored <- broker

\* The calls, their threads, callbacks and retries keep the promise of
\* ProduceDelivery: the users are found once, messages are stored for them only,
\* none after the answer, and the answer waits for the last.
ImplementsDelivery == Delivery!Spec

(***************************************************************************)
(* Liveness.  The threads run on; Redis answers or the command gives up;   *)
(* the broker accepts a message that is sent often enough.                 *)
(***************************************************************************)
RedisStep(c) ==
    Exists(c) \/ BitOpAnd(c) \/ SetExpiration(c) \/ GetRange(c) \/ RedisFails(c)

Fairness ==
    \A c \in Call :
      /\ WF_vars(RedisStep(c))
      /\ WF_vars(SendNext(c))
      /\ WF_vars(Delete(c))
      /\ \A u \in User :
           /\ SF_vars(OnSuccess(c, u))
           /\ WF_vars(RetrySending(c, u))

LiveSpec == Spec /\ Fairness

\* Every call is answered and its data deleted, whatever its messages met,
\* unless Redis gave it up.
CallsSettle ==
    \A c \in Call : step[c] = "waiting" ~> step[c] \in {"deleted", "failed"}

(***************************************************************************)
(* Disagreements.                                                          *)
(***************************************************************************)

\* "get errCode ... Re-send" (daemonServer.cpp:341): a call the producer cannot
\* serve is answered, so that the daemon server sends the chunk again.
CallsAnswered ==
    \A c \in Call : step[c] = "waiting" ~> step[c] \in {"answered", "deleted"}

\* "producer may not be able to produce msg" (producer.cpp:299): the lowest
\* score is reported by a producer that has a call it has not finished.
LowScoreMeansBusy ==
    [][score' = "low" /\ avgTime # "unread" /\ avgTime' = "unread"
         => \E c \in Call : step[c] \notin {"none", "answered", "deleted"}]_vars

=============================================================================
