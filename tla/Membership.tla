------------------------------- MODULE Membership -------------------------------
(***************************************************************************)
(* How processes come to be, and stay, registered: the DaemonClientImpl of *)
(* each process (src/common/daemonClient), the registry of the daemon      *)
(* server (module DaemonServer, here without pushes), and the calls        *)
(* between them, which may be late, overtake each other, or fail.          *)
(*                                                                         *)
(* In a process two threads work on clientStatus_ and serverId_: the       *)
(* status thread wakes up every two seconds and registers or sends a       *)
(* heartbeat; the completion thread handles the answers, one at a time.    *)
(***************************************************************************)
EXTENDS Integers, FiniteSets, FiniteSetsExt

CONSTANTS
    Proc,        \* the processes, all of them producers
    MaxSvrId,    \* bound: ids are 0..MaxSvrId
    FirstSvrId,  \* ids the random generator may give to the first process
    MaxCalls,    \* bound: for each process, its calls that are under way
    MaxFaults    \* bound on faults: failed calls, late heartbeats, deaths

ASSUME IdAssumption == MaxSvrId \in Nat /\ FirstSvrId \subseteq 0..MaxSvrId
ASSUME CallsAssumption == MaxCalls \in [Proc -> Nat \ {0}]
ASSUME FaultsAssumption == MaxFaults \in Nat

VARIABLES
    gSvrId2SvrInfo, gSvrId2ProducerState, gSetIdleProducer, gRank2SvrId,
    daemonServer,      \* "up", "down", or "aborted" by an assertion
    clientStatus,      \* for each process, NO_SERVER or REGISTERED
    serverId,          \* for each process, the id it holds; NoSvr while it has none
    statusThread,      \* for each process, what its status thread is about to do
    completionThread,  \* for each process, "next", or "set" in the middle of SetServerId
    call,              \* for each process, its calls that are under way
    faults,            \* number of faults so far (bound)
    evicted            \* history: an id was taken from a process that had it

Daemon == INSTANCE DaemonServer WITH
    ProcName <- {"producer"}, InitialScore <- 1, Score <- {}, RandomFactor <- 1,
    FAIL_COUNT_LIMIT <- 0, WindowFactor <- 1, UINT32 <- 1, MaxRegistrations <- 0,
    Push <- {}, ChunksPerPush <- 1, phase <- << >>, target <- << >>, sendingCount <- 0,
    crashed <- FALSE, registrations <- 0

SvrId == Daemon!SvrId
NoSvr == Daemon!NoSvr
Slot(p) == 1..MaxCalls[p]

registry == <<gSvrId2SvrInfo, gSvrId2ProducerState, gSetIdleProducer, gRank2SvrId>>
client == <<clientStatus, serverId, statusThread, completionThread>>
vars == <<registry, daemonServer, client, call, faults, evicted>>

(***************************************************************************)
(* The calls.  A call is the request, "register" or "heartbeat", until the *)
(* daemon server has handled it, then its answer.  The caller of a "stray" *)
(* request has died: nobody waits for the answer.                          *)
(***************************************************************************)
Request == {"register", "heartbeat"}
Reply == {"registered", "alive", "unknown"}
Call == [kind : Request \cup Reply, id : SvrId \cup {NoSvr}, stray : BOOLEAN]

Message(kind, id) == [kind |-> kind, id |-> id, stray |-> FALSE]
NoCall == Message("none", NoSvr)

FreeSlots(p) == {k \in Slot(p) : call[p][k] = NoCall}
Put(p, k, c) == call' = [call EXCEPT ![p][k] = c]
Start(p, c) == FreeSlots(p) # {} /\ Put(p, Min(FreeSlots(p)), c)

\* p believes to be registered under id, or a call of it says so
Claims(p, id) ==
    \/ clientStatus[p] = "REGISTERED" /\ serverId[p] = id
    \/ completionThread[p] = "set" /\ serverId[p] = id
    \/ \E k \in Slot(p) : call[p][k].id = id

Fault == faults < MaxFaults /\ faults' = faults + 1

Init ==
    /\ Daemon!Init
    /\ daemonServer = "up"
    /\ clientStatus = [p \in Proc |-> "NO_SERVER"]
    /\ serverId = [p \in Proc |-> NoSvr]
    /\ statusThread = [p \in Proc |-> "sleep"]
    /\ completionThread = [p \in Proc |-> "next"]
    /\ call = [p \in Proc |-> [k \in Slot(p) |-> NoCall]]
    /\ faults = 0
    /\ evicted = FALSE

(***************************************************************************)
(* The status thread: one round of ClientStatusHandler, every two seconds. *)
(* A call that takes longer, so that the thread finds it still under way   *)
(* when it wakes up, is a fault.                                           *)
(***************************************************************************)
Quiet(p) ==
    completionThread[p] = "next" /\ \A k \in Slot(p) : call[p][k] = NoCall \/ call[p][k].stray

WakesUp(p) ==
    /\ statusThread[p] = "sleep"
    /\ IF Quiet(p) THEN UNCHANGED faults ELSE Fault

\* It finds NO_SERVER and sends a registration.  That it may do so a moment
\* after it looked is the same as a registration that takes longer.
ClientRegister(p) ==
    /\ WakesUp(p)
    /\ clientStatus[p] = "NO_SERVER"
    /\ Start(p, Message("register", NoSvr))
    /\ UNCHANGED <<registry, daemonServer, client, evicted>>

\* It finds REGISTERED ...
ReadClientStatus(p) ==
    /\ WakesUp(p)
    /\ clientStatus[p] = "REGISTERED"
    /\ statusThread' = [statusThread EXCEPT ![p] = "heartbeat"]
    /\ UNCHANGED <<registry, daemonServer, clientStatus, serverId, completionThread, call, evicted>>

\* ... and, without the mutex, reads serverId_ and sends a heartbeat
HeartBeat(p) ==
    /\ statusThread[p] = "heartbeat"
    /\ Start(p, Message("heartbeat", serverId[p]))
    /\ statusThread' = [statusThread EXCEPT ![p] = "sleep"]
    /\ UNCHANGED <<registry, daemonServer, clientStatus, serverId, completionThread, faults, evicted>>

(***************************************************************************)
(* The completion thread: AsyncCompleteRpc and the two OnGetResponse.      *)
(***************************************************************************)
TakesReply(p, k, kind) ==
    /\ completionThread[p] = "next"
    /\ call[p][k].kind = kind
    /\ Put(p, k, NoCall)

\* Mutant of OnRegistered: the status is set, and the id is not stored
StatusWithoutId(p, k) ==
    /\ TakesReply(p, k, "registered")
    /\ clientStatus' = [clientStatus EXCEPT ![p] = "REGISTERED"]
    /\ UNCHANGED <<registry, daemonServer, serverId, statusThread, completionThread, faults, evicted>>

\* A registration was confirmed: SetServerId stores the id ...
OnRegistered(p, k) ==
    /\ TakesReply(p, k, "registered")
    /\ serverId' = [serverId EXCEPT ![p] = call[p][k].id]
    /\ completionThread' = [completionThread EXCEPT ![p] = "set"]
    /\ UNCHANGED <<registry, daemonServer, clientStatus, statusThread, faults, evicted>>

\* ... then takes the mutex and sets the status
SetServerId(p) ==
    /\ completionThread[p] = "set"
    /\ clientStatus' = [clientStatus EXCEPT ![p] = "REGISTERED"]
    /\ completionThread' = [completionThread EXCEPT ![p] = "next"]
    /\ UNCHANGED <<registry, daemonServer, serverId, statusThread, call, faults, evicted>>

\* A heartbeat was answered SUCCESS: nothing to do
OnAlive(p, k) ==
    /\ TakesReply(p, k, "alive")
    /\ UNCHANGED <<registry, daemonServer, client, faults, evicted>>

\* Mutant of OnUnknown: it is only logged
UnknownIgnored(p, k) ==
    /\ TakesReply(p, k, "unknown")
    /\ UNCHANGED <<registry, daemonServer, client, faults, evicted>>

\* A heartbeat was answered ERR, the id is unknown: register again
OnUnknown(p, k) ==
    /\ TakesReply(p, k, "unknown")
    /\ clientStatus' = [clientStatus EXCEPT ![p] = "NO_SERVER"]
    /\ UNCHANGED <<registry, daemonServer, serverId, statusThread, completionThread, faults, evicted>>

(***************************************************************************)
(* The daemon server.                                                      *)
(***************************************************************************)
Up == daemonServer = "up"

\* The answer to the request in slot k of p; the assertion on the event of an
\* answer that has nobody to go to stops the daemon server, unless the answer
\* was on the wire before the connection was found to be gone.
Answer(p, k, reply) ==
    IF call[p][k].stray
      THEN Put(p, k, NoCall) /\ daemonServer' \in {"up", "aborted"}
      ELSE Put(p, k, reply) /\ UNCHANGED daemonServer

\* ClientRegisterCallData::Proceed
ServeRegister(p, k) ==
    /\ Up
    /\ call[p][k].kind = "register"
    /\ \E id \in Daemon!NewIds :
         /\ Daemon!AddEntry(id, "producer")
         /\ Answer(p, k, Message("registered", id))
    /\ UNCHANGED <<client, faults, evicted>>

\* HeartBeatCallData::Proceed of a known id
ServeHeartBeat(p, k) ==
    LET id == call[p][k].id
    IN /\ Up
       /\ call[p][k].kind = "heartbeat"
       /\ id \in DOMAIN gSvrId2SvrInfo
       /\ IF gSvrId2SvrInfo[id].expired THEN Daemon!HeartBeat(id) ELSE UNCHANGED registry
       /\ Answer(p, k, Message("alive", NoSvr))
       /\ UNCHANGED <<client, faults, evicted>>

\* Mutant of ServeUnknown: operator[] makes an entry for the unknown id
EntryForUnknown(p, k) ==
    /\ Up
    /\ call[p][k].kind = "heartbeat"
    /\ call[p][k].id \notin DOMAIN gSvrId2SvrInfo
    /\ gSvrId2SvrInfo' = Daemon!WithEntry(gSvrId2SvrInfo, call[p][k].id,
                              [procName |-> "", score |-> 0, expired |-> FALSE])
    /\ Answer(p, k, Message("alive", NoSvr))
    /\ UNCHANGED <<gSvrId2ProducerState, gSetIdleProducer, gRank2SvrId, client, faults, evicted>>

\* HeartBeatCallData::Proceed of an unknown id
ServeUnknown(p, k) ==
    /\ Up
    /\ call[p][k].kind = "heartbeat"
    /\ call[p][k].id \notin DOMAIN gSvrId2SvrInfo
    /\ Answer(p, k, Message("unknown", NoSvr))
    /\ UNCHANGED <<registry, client, faults, evicted>>

\* An entry nobody sends heartbeats for grows old ...
Abandoned(id) ==
    /\ Up
    /\ \A p \in Proc : ~Claims(p, id)
    /\ Daemon!Expire(id)
    /\ UNCHANGED <<daemonServer, client, call, faults, evicted>>

\* ... and so does one whose heartbeats, or the answer that names it, are late
HeartBeatsLate(id) ==
    /\ Up
    /\ \E p \in Proc : Claims(p, id)
    /\ Fault
    /\ Daemon!Expire(id)
    /\ evicted' = TRUE
    /\ UNCHANGED <<daemonServer, client, call>>

\* One sweep of CheckProcAlive that finds something
CheckProcAlive ==
    /\ Up
    /\ Daemon!Expired # {}
    /\ Daemon!CheckProcAlive
    /\ UNCHANGED <<daemonServer, client, call, faults, evicted>>

\* Calls of a push failed once too often: the circuit breaker opens for id
CircuitBreaker(id) ==
    /\ Up
    /\ Fault
    /\ Daemon!Disconnect(id)
    /\ evicted' = (evicted \/ \E p \in Proc : Claims(p, id))
    /\ UNCHANGED <<daemonServer, client, call>>

(***************************************************************************)
(* Faults.                                                                 *)
(***************************************************************************)

\* A call fails, before or after the daemon server handled it: AsyncCompleteRpc
\* only says so.  While the daemon server is not up that is no fault.
CallFails(p, k) ==
    /\ call[p][k] # NoCall
    /\ IF Up THEN Fault ELSE UNCHANGED faults
    /\ Put(p, k, NoCall)
    /\ UNCHANGED <<registry, daemonServer, client, evicted>>

\* The daemon server is stopped
StopDaemon ==
    /\ Up
    /\ Fault
    /\ daemonServer' = "down"
    /\ UNCHANGED <<registry, client, call, evicted>>

\* It is started again: its tables are empty
StartDaemon ==
    /\ ~Up
    /\ daemonServer' = "up"
    /\ evicted' = TRUE
    /\ gSvrId2SvrInfo' = Daemon!EmptyMap
    /\ gSvrId2ProducerState' = Daemon!EmptyMap
    /\ gSetIdleProducer' = {}
    /\ gRank2SvrId' = Daemon!EmptyMap
    /\ UNCHANGED <<client, call, faults>>

\* A process dies and is started again, as in the constructor of
\* DaemonClientImpl; what it had sent may still arrive.
Restart(p) ==
    /\ Fault
    /\ clientStatus' = [clientStatus EXCEPT ![p] = "NO_SERVER"]
    /\ serverId' = [serverId EXCEPT ![p] = NoSvr]
    /\ statusThread' = [statusThread EXCEPT ![p] = "sleep"]
    /\ completionThread' = [completionThread EXCEPT ![p] = "next"]
    /\ call' = [call EXCEPT ![p] =
                  [k \in Slot(p) |-> IF call[p][k].kind \in Request
                                    THEN [call[p][k] EXCEPT !.stray = TRUE]
                                    ELSE NoCall]]
    /\ UNCHANGED <<registry, daemonServer, evicted>>

Next ==
    \/ \E p \in Proc :
         \/ ClientRegister(p)
         \/ ReadClientStatus(p)
         \/ HeartBeat(p)
         \/ SetServerId(p)
         \/ Restart(p)
         \/ \E k \in Slot(p) :
              \/ OnRegistered(p, k)
              \/ OnAlive(p, k)
              \/ OnUnknown(p, k)
              \/ ServeRegister(p, k)
              \/ ServeHeartBeat(p, k)
              \/ ServeUnknown(p, k)
              \/ CallFails(p, k)
    \/ \E id \in DOMAIN gSvrId2SvrInfo :
         Abandoned(id) \/ HeartBeatsLate(id) \/ CircuitBreaker(id)
    \/ CheckProcAlive
    \/ StopDaemon
    \/ StartDaemon

Spec == Init /\ [][Next]_vars

(***************************************************************************)
(* Safety.                                                                 *)
(***************************************************************************)

\* Every variable has a value of its type.
TypeOK ==
    /\ Daemon!IsMap(gSvrId2SvrInfo, SvrId, Daemon!SvrInfo)
    /\ daemonServer \in {"up", "down", "aborted"}
    /\ clientStatus \in [Proc -> {"NO_SERVER", "REGISTERED"}]
    /\ serverId \in [Proc -> SvrId \cup {NoSvr}]
    /\ statusThread \in [Proc -> {"sleep", "heartbeat"}]
    /\ completionThread \in [Proc -> {"next", "set"}]
    /\ DOMAIN call = Proc
    /\ \A p \in Proc : call[p] \in [Slot(p) -> Call \cup {NoCall}]
    /\ faults \in 0..MaxFaults
    /\ evicted \in BOOLEAN

\* serverId_ is written before the mutex is taken and read without it, and has
\* no value before the first registration: no heartbeat carries that.
HeartBeatHasId ==
    \A p \in Proc : \A k \in Slot(p) :
      call[p][k].kind = "heartbeat" => call[p][k].id # NoSvr

\* No two processes hold the same id, through lost and late answers, double
\* registrations and deaths, until an id is taken from a process that has it:
\* the highest one is handed out again before its owner asks.
OneProcessPerId ==
    ~evicted => \A p, q \in Proc, id \in SvrId : Claims(p, id) /\ Claims(q, id) => p = q

\* Both sides agree: whoever believes to be registered has an entry in the
\* tables of the daemon server, until a process that has an id loses it.
RegisteredIsKnown ==
    ~evicted =>
      \A p \in Proc : clientStatus[p] = "REGISTERED" => serverId[p] \in DOMAIN gSvrId2SvrInfo

\* A process that is registered stays so, whatever is late, lost or done twice,
\* until it restarts or an id is taken from a process that has it: no answer
\* says ERR to a heartbeat without such a cause.
NotThrownOut ==
    [][~evicted' =>
         \A p \in Proc :
           clientStatus[p] = "REGISTERED" /\ clientStatus'[p] = "NO_SERVER"
             => serverId'[p] = NoSvr]_vars

(***************************************************************************)
(* Liveness: the threads run, calls are handled and their answers arrive,  *)
(* time goes by, and somebody starts the daemon server again.              *)
(***************************************************************************)
Fairness ==
    /\ \A p \in Proc :
         /\ WF_vars(ClientRegister(p) \/ ReadClientStatus(p) \/ HeartBeat(p))
         /\ WF_vars(SetServerId(p))
         /\ \A k \in Slot(p) :
              /\ WF_vars(OnRegistered(p, k) \/ OnAlive(p, k) \/ OnUnknown(p, k))
              /\ WF_vars(ServeRegister(p, k) \/ ServeHeartBeat(p, k) \/ ServeUnknown(p, k))
    /\ \A id \in SvrId : WF_vars(id \in DOMAIN gSvrId2SvrInfo /\ Abandoned(id))
    /\ WF_vars(CheckProcAlive)
    /\ WF_vars(StartDaemon)

LiveSpec == Spec /\ Fairness

\* After the last fault everything settles: every process believes to be
\* registered, under an id the daemon server knows, and there is no other
\* entry.  Double registrations, answers of an earlier life of the daemon
\* server, and heartbeats for an id that was given up do not keep it busy.
\* When ids were taken from processes that had them, two may end up with one.
Settles ==
    <>[](/\ Up
         /\ clientStatus = [p \in Proc |-> "REGISTERED"]
         /\ DOMAIN gSvrId2SvrInfo = {serverId[p] : p \in Proc})

=============================================================================
