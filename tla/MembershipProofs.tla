---------------------------- MODULE MembershipProofs ----------------------------
(***************************************************************************)
(* The safety of Membership, for any number of processes, ids, calls and   *)
(* faults.                                                                 *)
(*                                                                         *)
(* The argument: until an id is taken from a process that has it, every id *)
(* a process claims has an entry that is not expired (ClaimInv); so no     *)
(* sweep takes it, it is not given out again, and no heartbeat is answered *)
(* ERR.                                                                    *)
(***************************************************************************)
EXTENDS Membership, SetLemmas

\* Whoever is registered, or about to be, or about to send a heartbeat, has an
\* id, and so have the calls that carry one.
HoldsId ==
    \A p \in Proc :
      /\ clientStatus[p] = "REGISTERED" => serverId[p] # NoSvr
      /\ completionThread[p] = "set" => serverId[p] # NoSvr
      /\ statusThread[p] = "heartbeat" => serverId[p] # NoSvr
      /\ \A k \in Slot(p) :
           call[p][k].kind \in {"registered", "heartbeat"} => call[p][k].id # NoSvr

\* An id that is claimed has an entry, and nobody is told that it has none.
ClaimInv ==
    ~evicted =>
      /\ \A p \in Proc, id \in SvrId :
           Claims(p, id) => id \in DOMAIN gSvrId2SvrInfo /\ ~gSvrId2SvrInfo[id].expired
      /\ \A p \in Proc :
           /\ statusThread[p] = "heartbeat" => clientStatus[p] = "REGISTERED"
           /\ \A k \in Slot(p) : call[p][k].kind # "unknown"

Inv == TypeOK /\ HoldsId /\ ClaimInv /\ OneProcessPerId

(***************************************************************************)
(* Ids and calls.                                                          *)
(***************************************************************************)

LEMMA Ids ==
  /\ SvrId = 0..MaxSvrId /\ SvrId \subseteq Nat
  /\ NoSvr = -1 /\ NoSvr \notin SvrId
BY IdAssumption DEF SvrId, NoSvr, Daemon!SvrId, Daemon!NoSvr

\* The successor of the highest id is not among them.
LEMMA AboveAll ==
  ASSUME NEW S \in SUBSET (0..MaxSvrId), S # {}
  PROVE  Daemon!Max(S) + 1 \notin S
<1>1. Daemon!Max(S) = Max(S)
  BY DEF Daemon!Max, Max
<1>2. Max(S) \in S /\ \A i \in S : i <= Max(S)
  BY IdAssumption, MaxIsGreatest
<1>3. Max(S) \in Nat
  <2>1. Max(S) \in 0..MaxSvrId
    BY <1>2
  <2>2. QED BY <2>1, IdAssumption
<1>4. ~(Max(S) + 1 <= Max(S))
  BY <1>3
<1>5. QED BY <1>1, <1>2, <1>4

\* The id a registration is answered with is one, and new.
LEMMA NewIdsAreNew ==
  ASSUME TypeOK, NEW id \in Daemon!NewIds
  PROVE  id \in SvrId /\ id \notin DOMAIN gSvrId2SvrInfo
<1>1. CASE gSvrId2SvrInfo = Daemon!EmptyMap
  BY <1>1, Ids, IdAssumption DEF Daemon!NewIds, Daemon!EmptyMap
<1>2. CASE gSvrId2SvrInfo # Daemon!EmptyMap
  <2>1. id = Daemon!Max(DOMAIN gSvrId2SvrInfo) + 1 /\ id \in SvrId
    BY <1>2, Ids DEF Daemon!NewIds, SvrId
  <2>2. DOMAIN gSvrId2SvrInfo \in SUBSET (0..MaxSvrId)
    BY Ids DEF TypeOK, Daemon!IsMap
  <2>3. DOMAIN gSvrId2SvrInfo # {}
    BY <1>2 DEF TypeOK, Daemon!IsMap, Daemon!EmptyMap
  <2>4. QED BY <2>1, <2>2, <2>3, AboveAll
<1>3. QED BY <1>1, <1>2

\* One slot of one process changes.
LEMMA PutCall ==
  ASSUME TypeOK, NEW p \in Proc, NEW k \in Slot(p), NEW c \in Call \cup {NoCall}, Put(p, k, c)
  PROVE  /\ DOMAIN call' = Proc
         /\ \A q \in Proc : call'[q] \in [Slot(q) -> Call \cup {NoCall}]
         /\ \A q \in Proc : \A j \in Slot(q) :
              call'[q][j] = IF q = p /\ j = k THEN c ELSE call[q][j]
BY DEF TypeOK, Put

LEMMA StartCall ==
  ASSUME TypeOK, NEW p \in Proc, NEW c, Start(p, c)
  PROVE  \E k \in Slot(p) : Put(p, k, c)
<1>1. FreeSlots(p) \in SUBSET Nat /\ FreeSlots(p) # {}
  BY DEF Start, FreeSlots, Slot
<1>2. Min(FreeSlots(p)) \in FreeSlots(p)
  BY <1>1, MinIsLeast
<1>3. QED BY <1>2 DEF Start, FreeSlots

\* Every call there is.
LEMMA CallTypes ==
  /\ NoCall \in Call \cup {NoCall}
  /\ NoCall.kind = "none" /\ NoCall.id = NoSvr
  /\ \A kind \in Request \cup Reply, id \in SvrId \cup {NoSvr} :
       /\ Message(kind, id) \in Call
       /\ Message(kind, id).kind = kind /\ Message(kind, id).id = id
BY DEF NoCall, Message, Call

(***************************************************************************)
(* The registry.                                                           *)
(***************************************************************************)

LEMMA AddedEntry ==
  ASSUME TypeOK, NEW id \in SvrId, Daemon!AddEntry(id, "producer")
  PROVE  /\ Daemon!IsMap(gSvrId2SvrInfo, SvrId, Daemon!SvrInfo)'
         /\ DOMAIN gSvrId2SvrInfo' = DOMAIN gSvrId2SvrInfo \cup {id}
         /\ ~gSvrId2SvrInfo'[id].expired
         /\ \A i \in DOMAIN gSvrId2SvrInfo : i # id => gSvrId2SvrInfo'[i] = gSvrId2SvrInfo[i]
<1> DEFINE new == Daemon!NewSvrInfo("producer")
<1>1. gSvrId2SvrInfo' = [x \in DOMAIN gSvrId2SvrInfo \cup {id} |->
                            IF x = id THEN new ELSE gSvrId2SvrInfo[x]]
  BY DEF Daemon!AddEntry, Daemon!WithEntry
<1>2. new \in Daemon!SvrInfo /\ ~new.expired
  BY DEF Daemon!NewSvrInfo, Daemon!SvrInfo
<1>3. QED
  <2> HIDE DEF new
  <2> QED BY <1>1, <1>2 DEF TypeOK, Daemon!IsMap

\* Erasing entries keeps the others.
LEMMA ErasedEntries ==
  ASSUME TypeOK, NEW S, gSvrId2SvrInfo' = Daemon!Without(gSvrId2SvrInfo, S)
  PROVE  /\ Daemon!IsMap(gSvrId2SvrInfo, SvrId, Daemon!SvrInfo)'
         /\ DOMAIN gSvrId2SvrInfo' = DOMAIN gSvrId2SvrInfo \ S
         /\ \A i \in DOMAIN gSvrId2SvrInfo' : gSvrId2SvrInfo'[i] = gSvrId2SvrInfo[i]
BY DEF TypeOK, Daemon!IsMap, Daemon!Without

\* One entry grows old or young.
LEMMA MarkedEntry ==
  ASSUME TypeOK, NEW id \in DOMAIN gSvrId2SvrInfo, NEW b \in BOOLEAN,
         gSvrId2SvrInfo' = [gSvrId2SvrInfo EXCEPT ![id].expired = b]
  PROVE  /\ Daemon!IsMap(gSvrId2SvrInfo, SvrId, Daemon!SvrInfo)'
         /\ DOMAIN gSvrId2SvrInfo' = DOMAIN gSvrId2SvrInfo
         /\ gSvrId2SvrInfo'[id].expired = b
         /\ \A i \in DOMAIN gSvrId2SvrInfo : i # id => gSvrId2SvrInfo'[i] = gSvrId2SvrInfo[i]
BY DEF TypeOK, Daemon!IsMap, Daemon!SvrInfo

(***************************************************************************)
(* Types.                                                                  *)
(***************************************************************************)

LEMMA TypeStep ==
  ASSUME TypeOK, [Next]_vars
  PROVE  TypeOK'
<1> USE DEF client, registry
<1>1. ASSUME NEW p \in Proc, ClientRegister(p) PROVE TypeOK'
  <2>1. PICK k \in Slot(p) : Put(p, k, Message("register", NoSvr))
    BY <1>1, StartCall DEF ClientRegister
  <2>2. Message("register", NoSvr) \in Call
    BY CallTypes DEF Request
  <2>3. faults' \in 0..MaxFaults
    BY <1>1, FaultsAssumption DEF ClientRegister, WakesUp, Fault, TypeOK
  <2>4. QED BY <1>1, <2>1, <2>2, <2>3, PutCall DEF ClientRegister, TypeOK
<1>2. ASSUME NEW p \in Proc, ReadClientStatus(p) PROVE TypeOK'
  <2>1. faults' \in 0..MaxFaults
    BY <1>2, FaultsAssumption DEF ReadClientStatus, WakesUp, Fault, TypeOK
  <2>2. QED BY <1>2, <2>1 DEF ReadClientStatus, TypeOK
<1>3. ASSUME NEW p \in Proc, HeartBeat(p) PROVE TypeOK'
  <2>1. PICK k \in Slot(p) : Put(p, k, Message("heartbeat", serverId[p]))
    BY <1>3, StartCall DEF HeartBeat
  <2>2. Message("heartbeat", serverId[p]) \in Call
    BY CallTypes DEF Request, TypeOK
  <2>3. QED BY <1>3, <2>1, <2>2, PutCall DEF HeartBeat, TypeOK
<1>4. ASSUME NEW p \in Proc, SetServerId(p) PROVE TypeOK'
  BY <1>4 DEF SetServerId, TypeOK
<1>5. ASSUME NEW p \in Proc, Restart(p) PROVE TypeOK'
  <2>1. faults' \in 0..MaxFaults
    BY <1>5, FaultsAssumption DEF Restart, Fault, TypeOK
  <2>2. \A q \in Proc : call'[q] \in [Slot(q) -> Call \cup {NoCall}]
    <3>1. \A c \in Call \cup {NoCall} :
            (IF c.kind \in Request THEN [c EXCEPT !.stray = TRUE] ELSE NoCall) \in Call \cup {NoCall}
      BY CallTypes DEF Request, Call
    <3>2. \A q \in Proc : q # p => call'[q] = call[q]
      BY <1>5 DEF Restart, TypeOK
    <3>3. call'[p] = [k \in Slot(p) |-> IF call[p][k].kind \in Request
                                        THEN [call[p][k] EXCEPT !.stray = TRUE]
                                        ELSE NoCall]
      BY <1>5 DEF Restart, TypeOK
    <3>4. \A k \in Slot(p) : call[p][k] \in Call \cup {NoCall}
      BY DEF TypeOK
    <3>5. call'[p] \in [Slot(p) -> Call \cup {NoCall}]
      BY <3>1, <3>3, <3>4
    <3>6. QED BY <3>2, <3>5 DEF TypeOK
  <2>3. DOMAIN call' = Proc
    BY <1>5 DEF Restart, TypeOK
  <2>4. QED BY <1>5, <2>1, <2>2, <2>3 DEF Restart, TypeOK
<1>6. ASSUME NEW p \in Proc, NEW k \in Slot(p), OnRegistered(p, k) PROVE TypeOK'
  <2>1. Put(p, k, NoCall) /\ call[p][k].kind = "registered"
    BY <1>6 DEF OnRegistered, TakesReply
  <2>2. call[p][k].id \in SvrId \cup {NoSvr}
    BY CallTypes DEF TypeOK, Call
  <2>3. QED BY <1>6, <2>1, <2>2, PutCall DEF OnRegistered, TypeOK
<1>7. ASSUME NEW p \in Proc, NEW k \in Slot(p), OnAlive(p, k) \/ OnUnknown(p, k) PROVE TypeOK'
  <2>1. Put(p, k, NoCall)
    BY <1>7 DEF OnAlive, OnUnknown, TakesReply
  <2>2. /\ DOMAIN call' = Proc
        /\ \A q \in Proc : call'[q] \in [Slot(q) -> Call \cup {NoCall}]
    BY <2>1, PutCall
  <2>3. clientStatus' \in [Proc -> {"NO_SERVER", "REGISTERED"}]
    BY <1>7 DEF OnAlive, OnUnknown, TypeOK
  <2>4. UNCHANGED <<gSvrId2SvrInfo, daemonServer, serverId, statusThread, completionThread,
                    faults, evicted>>
    BY <1>7 DEF OnAlive, OnUnknown
  <2>5. QED BY <2>2, <2>3, <2>4 DEF TypeOK
<1>8. ASSUME NEW p \in Proc, NEW k \in Slot(p), NEW reply \in Call, Answer(p, k, reply)
      PROVE  /\ DOMAIN call' = Proc
             /\ \A q \in Proc : call'[q] \in [Slot(q) -> Call \cup {NoCall}]
             /\ daemonServer' \in {"up", "down", "aborted"}
  BY <1>8, PutCall DEF Answer, TypeOK
<1>9. ASSUME NEW p \in Proc, NEW k \in Slot(p), ServeRegister(p, k) PROVE TypeOK'
  <2>1. PICK id \in Daemon!NewIds :
          Daemon!AddEntry(id, "producer") /\ Answer(p, k, Message("registered", id))
    BY <1>9 DEF ServeRegister
  <2>2. id \in SvrId /\ Message("registered", id) \in Call
    BY NewIdsAreNew, CallTypes DEF Reply
  <2>3. QED BY <1>8, <1>9, <2>1, <2>2, AddedEntry DEF ServeRegister, TypeOK
<1>10. ASSUME NEW p \in Proc, NEW k \in Slot(p), ServeHeartBeat(p, k) PROVE TypeOK'
  <2>1. Answer(p, k, Message("alive", NoSvr)) /\ Message("alive", NoSvr) \in Call
    BY <1>10, CallTypes DEF ServeHeartBeat, Reply
  <2>2. Daemon!IsMap(gSvrId2SvrInfo, SvrId, Daemon!SvrInfo)'
    BY <1>10, MarkedEntry DEF ServeHeartBeat, Daemon!HeartBeat, TypeOK
  <2>3. QED BY <1>8, <1>10, <2>1, <2>2 DEF ServeHeartBeat, TypeOK
<1>11. ASSUME NEW p \in Proc, NEW k \in Slot(p), ServeUnknown(p, k) PROVE TypeOK'
  <2>1. Answer(p, k, Message("unknown", NoSvr)) /\ Message("unknown", NoSvr) \in Call
    BY <1>11, CallTypes DEF ServeUnknown, Reply
  <2>2. QED BY <1>8, <1>11, <2>1 DEF ServeUnknown, TypeOK
<1>12. ASSUME NEW p \in Proc, NEW k \in Slot(p), CallFails(p, k) PROVE TypeOK'
  <2>1. faults' \in 0..MaxFaults
    BY <1>12, FaultsAssumption DEF CallFails, Fault, TypeOK
  <2>2. QED BY <1>12, <2>1, PutCall DEF CallFails, TypeOK
<1>13. ASSUME NEW id \in DOMAIN gSvrId2SvrInfo, Abandoned(id) \/ HeartBeatsLate(id)
       PROVE  TypeOK'
  <2>1. faults' \in 0..MaxFaults
    BY <1>13, FaultsAssumption DEF Abandoned, HeartBeatsLate, Fault, TypeOK
  <2>2. evicted' \in BOOLEAN
    BY <1>13 DEF Abandoned, HeartBeatsLate, TypeOK
  <2>3. gSvrId2SvrInfo' = [gSvrId2SvrInfo EXCEPT ![id].expired = TRUE]
    BY <1>13 DEF Abandoned, HeartBeatsLate, Daemon!Expire
  <2>4. UNCHANGED <<daemonServer, client, call>>
    BY <1>13 DEF Abandoned, HeartBeatsLate
  <2>5. QED BY <2>1, <2>2, <2>3, <2>4, MarkedEntry DEF TypeOK
<1>14. ASSUME NEW id \in DOMAIN gSvrId2SvrInfo, CircuitBreaker(id) PROVE TypeOK'
  <2>1. faults' \in 0..MaxFaults /\ evicted' \in BOOLEAN
    <3>1. faults' \in 0..MaxFaults
      BY <1>14, FaultsAssumption DEF CircuitBreaker, Fault, TypeOK
    <3>2. evicted' \in BOOLEAN
      BY <1>14 DEF CircuitBreaker
    <3>3. QED BY <3>1, <3>2
  <2>2. gSvrId2SvrInfo' = Daemon!Without(gSvrId2SvrInfo, {id})
    BY <1>14 DEF CircuitBreaker, Daemon!Disconnect
  <2>3. QED BY <1>14, <2>1, <2>2, ErasedEntries DEF CircuitBreaker, TypeOK
<1>15. CASE CheckProcAlive
  <2>1. gSvrId2SvrInfo' = Daemon!Without(gSvrId2SvrInfo, Daemon!Expired)
    BY <1>15 DEF CheckProcAlive, Daemon!CheckProcAlive
  <2>2. QED BY <1>15, <2>1, ErasedEntries DEF CheckProcAlive, TypeOK
<1>16. CASE StopDaemon
  <2>1. faults' \in 0..MaxFaults
    BY <1>16, FaultsAssumption DEF StopDaemon, Fault, TypeOK
  <2>2. QED BY <1>16, <2>1 DEF StopDaemon, TypeOK
<1>17. CASE StartDaemon
  <2>1. Daemon!IsMap(Daemon!EmptyMap, SvrId, Daemon!SvrInfo)
    BY DEF Daemon!IsMap, Daemon!EmptyMap
  <2>2. QED BY <1>17, <2>1 DEF StartDaemon, TypeOK
<1>18. CASE UNCHANGED vars
  BY <1>18 DEF vars, TypeOK
<1>19. QED
  BY <1>1, <1>2, <1>3, <1>4, <1>5, <1>6, <1>7, <1>9, <1>10, <1>11, <1>12, <1>13,
     <1>14, <1>15, <1>16, <1>17, <1>18 DEF Next

(***************************************************************************)
(* Who holds what.                                                         *)
(***************************************************************************)

\* An answer that carries no id, or none at all, replaces a call.
LEMMA PutsNothing ==
  ASSUME TypeOK, NEW p \in Proc, NEW k \in Slot(p), NEW c \in Call \cup {NoCall},
         c.id = NoSvr, c.kind \notin {"registered", "heartbeat"}, Put(p, k, c)
  PROVE  \A q \in Proc : \A j \in Slot(q) :
           /\ call'[q][j].id \in SvrId => call'[q][j].id = call[q][j].id
           /\ call'[q][j].kind \in {"registered", "heartbeat"} => call'[q][j] = call[q][j]
           /\ call'[q][j].kind = "unknown" => call'[q][j] = call[q][j] \/ c.kind = "unknown"
<1>1. \A q \in Proc : \A j \in Slot(q) :
        call'[q][j] = IF q = p /\ j = k THEN c ELSE call[q][j]
  BY PutCall
<1>2. NoSvr \notin SvrId
  BY Ids
<1>3. QED BY <1>1, <1>2

LEMMA AnswersNothing ==
  ASSUME TypeOK, NEW p \in Proc, NEW k \in Slot(p), NEW kind \in {"alive", "unknown"},
         Answer(p, k, Message(kind, NoSvr))
  PROVE  \E c \in Call \cup {NoCall} :
           /\ Put(p, k, c)
           /\ c.id = NoSvr /\ c.kind \in {kind, "none"}
BY CallTypes DEF Answer, Reply

LEMMA HoldsIdStep ==
  ASSUME TypeOK, HoldsId, [Next]_vars
  PROVE  HoldsId'
<1> USE DEF client, registry
<1>1. ASSUME NEW p \in Proc, ClientRegister(p) PROVE HoldsId'
  <2>1. PICK k \in Slot(p) : Put(p, k, Message("register", NoSvr))
    BY <1>1, StartCall DEF ClientRegister
  <2>2. Message("register", NoSvr) \in Call /\ Message("register", NoSvr).kind = "register"
    BY CallTypes DEF Request
  <2>3. \A q \in Proc : \A j \in Slot(q) : call'[q][j] = call[q][j] \/ call'[q][j].kind = "register"
    BY <2>1, <2>2, PutCall
  <2>4. QED BY <1>1, <2>3 DEF ClientRegister, HoldsId
<1>2. ASSUME NEW p \in Proc, ReadClientStatus(p) PROVE HoldsId'
  BY <1>2 DEF ReadClientStatus, HoldsId, TypeOK
<1>3. ASSUME NEW p \in Proc, HeartBeat(p) PROVE HoldsId'
  <2>1. PICK k \in Slot(p) : Put(p, k, Message("heartbeat", serverId[p]))
    BY <1>3, StartCall DEF HeartBeat
  <2>2. Message("heartbeat", serverId[p]) \in Call /\ Message("heartbeat", serverId[p]).id # NoSvr
    <3>1. serverId[p] # NoSvr
      BY <1>3 DEF HeartBeat, HoldsId
    <3>2. serverId[p] \in SvrId \cup {NoSvr} /\ "heartbeat" \in Request \cup Reply
      BY DEF TypeOK, Request
    <3>3. QED BY <3>1, <3>2, CallTypes
  <2>3. \A q \in Proc : \A j \in Slot(q) : call'[q][j] = call[q][j] \/ call'[q][j].id # NoSvr
    BY <2>1, <2>2, PutCall
  <2>4. QED BY <1>3, <2>3 DEF HeartBeat, HoldsId, TypeOK
<1>4. ASSUME NEW p \in Proc, SetServerId(p) PROVE HoldsId'
  BY <1>4 DEF SetServerId, HoldsId, TypeOK
<1>5. ASSUME NEW p \in Proc, Restart(p) PROVE HoldsId'
  <2>1. \A q \in Proc : q # p => call'[q] = call[q]
    BY <1>5 DEF Restart, TypeOK
  <2>2. \A k \in Slot(p) : call'[p][k] = IF call[p][k].kind \in Request
                                           THEN [call[p][k] EXCEPT !.stray = TRUE]
                                           ELSE NoCall
    BY <1>5 DEF Restart, TypeOK
  <2>3. \A c \in Call : [c EXCEPT !.stray = TRUE].kind = c.kind /\ [c EXCEPT !.stray = TRUE].id = c.id
    BY DEF Call
  <2>4. \A k \in Slot(p) : call[p][k].kind \in Request => call[p][k] \in Call
    BY CallTypes DEF TypeOK, Request
  <2>5. \A k \in Slot(p) : call'[p][k].kind \in {"registered", "heartbeat"} =>
          call'[p][k].kind = call[p][k].kind /\ call'[p][k].id = call[p][k].id
    <3> SUFFICES ASSUME NEW k \in Slot(p), call'[p][k].kind \in {"registered", "heartbeat"}
                 PROVE  call'[p][k].kind = call[p][k].kind /\ call'[p][k].id = call[p][k].id
      OBVIOUS
    <3>1. call[p][k].kind \in Request
      BY <2>2, CallTypes
    <3>2. call[p][k] \in Call /\ call'[p][k] = [call[p][k] EXCEPT !.stray = TRUE]
      BY <2>2, <2>4, <3>1
    <3>3. QED BY <2>3, <3>2
  <2>6. \A q \in Proc : \A k \in Slot(q) :
          call'[q][k].kind \in {"registered", "heartbeat"} => call'[q][k].id # NoSvr
    BY <2>1, <2>5 DEF HoldsId
  <2>7. QED BY <1>5, <2>6 DEF Restart, HoldsId, TypeOK
<1>6. ASSUME NEW p \in Proc, NEW k \in Slot(p), OnRegistered(p, k) PROVE HoldsId'
  <2>1. Put(p, k, NoCall) /\ call[p][k].kind = "registered"
    BY <1>6 DEF OnRegistered, TakesReply
  <2>2. call[p][k].id # NoSvr
    BY <2>1 DEF HoldsId
  <2>3. \A q \in Proc : \A j \in Slot(q) :
          call'[q][j].kind \in {"registered", "heartbeat"} => call'[q][j] = call[q][j]
    BY <2>1, CallTypes, PutsNothing
  <2>4. QED BY <1>6, <2>2, <2>3 DEF OnRegistered, HoldsId, TypeOK
<1>7. ASSUME NEW p \in Proc, NEW k \in Slot(p),
             OnAlive(p, k) \/ OnUnknown(p, k) \/ CallFails(p, k)
      PROVE  HoldsId'
  <2>1. Put(p, k, NoCall)
    BY <1>7 DEF OnAlive, OnUnknown, CallFails, TakesReply
  <2>2. \A q \in Proc : \A j \in Slot(q) :
          call'[q][j].kind \in {"registered", "heartbeat"} => call'[q][j] = call[q][j]
    BY <2>1, CallTypes, PutsNothing
  <2>3. /\ UNCHANGED <<serverId, statusThread, completionThread>>
        /\ \A q \in Proc : clientStatus'[q] = "REGISTERED" => clientStatus[q] = "REGISTERED"
    BY <1>7 DEF OnAlive, OnUnknown, CallFails, TypeOK
  <2>4. \A q \in Proc : \A j \in Slot(q) :
          call'[q][j].kind \in {"registered", "heartbeat"} => call'[q][j].id # NoSvr
    BY <2>2 DEF HoldsId
  <2>5. QED BY <2>3, <2>4 DEF HoldsId
<1>8. ASSUME NEW p \in Proc, NEW k \in Slot(p), ServeRegister(p, k) PROVE HoldsId'
  <2>1. PICK id \in Daemon!NewIds : Answer(p, k, Message("registered", id))
    BY <1>8 DEF ServeRegister
  <2>2. id \in SvrId /\ id # NoSvr
    BY NewIdsAreNew, Ids
  <2>3. PICK c \in {NoCall, Message("registered", id)} : Put(p, k, c)
    BY <2>1 DEF Answer
  <2>4. c \in Call \cup {NoCall} /\ (c.kind \in {"registered", "heartbeat"} => c.id # NoSvr)
    BY <2>2, <2>3, CallTypes DEF Reply
  <2>5. \A q \in Proc : \A j \in Slot(q) : call'[q][j] = call[q][j] \/ call'[q][j] = c
    BY <2>3, <2>4, PutCall
  <2>6. QED BY <1>8, <2>4, <2>5 DEF ServeRegister, HoldsId
<1>9. ASSUME NEW p \in Proc, NEW k \in Slot(p), ServeHeartBeat(p, k) \/ ServeUnknown(p, k)
      PROVE  HoldsId'
  <2>1. PICK kind \in {"alive", "unknown"} : Answer(p, k, Message(kind, NoSvr))
    BY <1>9 DEF ServeHeartBeat, ServeUnknown
  <2>2. PICK c \in Call \cup {NoCall} : Put(p, k, c) /\ c.id = NoSvr /\ c.kind \in {kind, "none"}
    BY <2>1, AnswersNothing
  <2>3. \A q \in Proc : \A j \in Slot(q) :
          call'[q][j].kind \in {"registered", "heartbeat"} => call'[q][j] = call[q][j]
    BY <2>2, PutsNothing
  <2>4. QED BY <1>9, <2>3 DEF ServeHeartBeat, ServeUnknown, HoldsId
<1>10. ASSUME UNCHANGED <<client, call>> PROVE HoldsId'
  BY <1>10 DEF HoldsId
<1>11. QED
  BY <1>1, <1>2, <1>3, <1>4, <1>5, <1>6, <1>7, <1>8, <1>9, <1>10
  DEF Next, Abandoned, HeartBeatsLate, CircuitBreaker, CheckProcAlive, StopDaemon, StartDaemon, vars

(***************************************************************************)
(* One process for each id.                                                *)
(***************************************************************************)

\* A process has a claim after a change of its calls only if it had it before,
\* or the change gave it the id.
LEMMA PutClaims ==
  ASSUME TypeOK, NEW p \in Proc, NEW k \in Slot(p), NEW c \in Call \cup {NoCall}, Put(p, k, c),
         UNCHANGED <<serverId, completionThread>>,
         \A q \in Proc : clientStatus'[q] = "REGISTERED" => clientStatus[q] = "REGISTERED"
  PROVE  \A q \in Proc, id \in SvrId :
           Claims(q, id)' => Claims(q, id) \/ (q = p /\ c.id = id)
<1>1. \A q \in Proc : \A j \in Slot(q) :
        call'[q][j] = IF q = p /\ j = k THEN c ELSE call[q][j]
  BY PutCall
<1>2. QED BY <1>1 DEF Claims

\* What no step takes away: the entries that are claimed, and the peace of
\* those who are registered.
Keeps ==
    /\ \A q \in Proc, id \in SvrId : Claims(q, id)' => Claims(q, id)
    /\ \A q \in Proc, id \in SvrId : Claims(q, id) =>
         id \in DOMAIN gSvrId2SvrInfo' /\ ~gSvrId2SvrInfo'[id].expired
    /\ \A q \in Proc :
         /\ statusThread'[q] = "heartbeat" => clientStatus'[q] = "REGISTERED"
         /\ \A j \in Slot(q) : call'[q][j].kind # "unknown"

LEMMA KeepsClaims ==
  ASSUME OneProcessPerId, ~evicted, Keeps
  PROVE  ClaimInv' /\ OneProcessPerId'
<1>1. ClaimInv'
  BY DEF Keeps, ClaimInv
<1>2. OneProcessPerId'
  BY DEF Keeps, OneProcessPerId
<1>3. QED BY <1>1, <1>2

\* What was taken away stays taken away.
LEMMA EvictedForever ==
  ASSUME [Next]_vars
  PROVE  evicted => evicted'
<1>1. ASSUME NEW p \in Proc,
             \/ ClientRegister(p) \/ ReadClientStatus(p) \/ HeartBeat(p)
             \/ SetServerId(p) \/ Restart(p)
      PROVE  UNCHANGED evicted
  BY <1>1 DEF ClientRegister, ReadClientStatus, HeartBeat, SetServerId, Restart
<1>2. ASSUME NEW p \in Proc, NEW k \in Slot(p),
             \/ OnRegistered(p, k) \/ OnAlive(p, k) \/ OnUnknown(p, k) \/ CallFails(p, k)
      PROVE  UNCHANGED evicted
  BY <1>2 DEF OnRegistered, OnAlive, OnUnknown, CallFails
<1>3. ASSUME NEW p \in Proc, NEW k \in Slot(p),
             ServeRegister(p, k) \/ ServeHeartBeat(p, k) \/ ServeUnknown(p, k)
      PROVE  UNCHANGED evicted
  BY <1>3 DEF ServeRegister, ServeHeartBeat, ServeUnknown
<1>4. ASSUME NEW id \in DOMAIN gSvrId2SvrInfo,
             Abandoned(id) \/ HeartBeatsLate(id) \/ CircuitBreaker(id)
      PROVE  evicted => evicted'
  BY <1>4 DEF Abandoned, HeartBeatsLate, CircuitBreaker
<1>5. ASSUME CheckProcAlive \/ StopDaemon \/ StartDaemon
      PROVE  evicted => evicted'
  BY <1>5 DEF CheckProcAlive, StopDaemon, StartDaemon
<1>6. CASE UNCHANGED vars
  BY <1>6 DEF vars
<1>7. QED BY <1>1, <1>2, <1>3, <1>4, <1>5, <1>6 DEF Next

LEMMA ClaimStep ==
  ASSUME Inv, [Next]_vars
  PROVE  ClaimInv' /\ OneProcessPerId'
<1> USE DEF client, registry
<1>a. TypeOK /\ HoldsId /\ ClaimInv /\ OneProcessPerId
  BY DEF Inv
<1>b. CASE evicted'
  BY <1>b DEF ClaimInv, OneProcessPerId
<1>c. CASE ~evicted'
  <2>a. evicted => evicted'
    BY EvictedForever
  <2>b. ~evicted
    BY <1>c, <2>a
  <2>c. /\ \A q \in Proc, id \in SvrId :
             Claims(q, id) => id \in DOMAIN gSvrId2SvrInfo /\ ~gSvrId2SvrInfo[id].expired
        /\ \A q \in Proc :
             /\ statusThread[q] = "heartbeat" => clientStatus[q] = "REGISTERED"
             /\ \A j \in Slot(q) : call[q][j].kind # "unknown"
    BY <1>a, <2>b DEF ClaimInv
  \* A call changes, and nothing else that matters here.
  <2>d. ASSUME NEW p \in Proc, NEW k \in Slot(p), NEW c \in Call \cup {NoCall}, Put(p, k, c),
               c.id \in SvrId => Claims(p, c.id), c.kind # "unknown",
               \A q \in Proc : statusThread'[q] = "heartbeat" => statusThread[q] = "heartbeat",
               UNCHANGED <<clientStatus, serverId, completionThread, gSvrId2SvrInfo>>
        PROVE  Keeps
    <3>1. \A q \in Proc : \A j \in Slot(q) :
            call'[q][j] = IF q = p /\ j = k THEN c ELSE call[q][j]
      BY <1>a, <2>d, PutCall
    <3>2. \A q \in Proc, id \in SvrId : Claims(q, id)' => Claims(q, id)
      BY <1>a, <2>d, PutClaims
    <3>3. \A q \in Proc : \A j \in Slot(q) : call'[q][j].kind # "unknown"
      BY <2>c, <2>d, <3>1
    <3>4. \A q \in Proc : statusThread'[q] = "heartbeat" => clientStatus'[q] = "REGISTERED"
      BY <2>c, <2>d
    <3>5. QED BY <2>c, <2>d, <3>2, <3>3, <3>4 DEF Keeps
  \* The registry changes, and no entry that is claimed is lost.
  <2>e. ASSUME UNCHANGED <<client, call>>,
               \A q \in Proc, id \in SvrId : Claims(q, id) =>
                 id \in DOMAIN gSvrId2SvrInfo' /\ ~gSvrId2SvrInfo'[id].expired
        PROVE  Keeps
    <3>1. \A q \in Proc, id \in SvrId : Claims(q, id)' => Claims(q, id)
      BY <2>e DEF Claims
    <3>2. QED BY <2>c, <2>e, <3>1 DEF Keeps
  <2>1. ASSUME NEW p \in Proc, ClientRegister(p) PROVE Keeps
    <3>1. PICK k \in Slot(p) : Put(p, k, Message("register", NoSvr))
      BY <1>a, <2>1, StartCall DEF ClientRegister
    <3>2. LET c == Message("register", NoSvr)
          IN  c \in Call /\ c.id \notin SvrId /\ c.kind # "unknown"
      BY CallTypes, Ids DEF Request
    <3>3. QED BY <2>1, <2>d, <3>1, <3>2 DEF ClientRegister
  <2>2. ASSUME NEW p \in Proc, ReadClientStatus(p) PROVE Keeps
    <3>1. \A q \in Proc, id \in SvrId : Claims(q, id)' => Claims(q, id)
      BY <2>2 DEF ReadClientStatus, Claims
    <3>2. \A q \in Proc : statusThread'[q] = "heartbeat" => clientStatus'[q] = "REGISTERED"
      BY <1>a, <2>2, <2>c DEF ReadClientStatus, TypeOK
    <3>3. QED BY <2>2, <2>c, <3>1, <3>2 DEF ReadClientStatus, Keeps
  <2>3. ASSUME NEW p \in Proc, HeartBeat(p) PROVE Keeps
    <3>1. PICK k \in Slot(p) : Put(p, k, Message("heartbeat", serverId[p]))
      BY <1>a, <2>3, StartCall DEF HeartBeat
    <3>2. LET c == Message("heartbeat", serverId[p])
          IN  c \in Call /\ c.id = serverId[p] /\ c.kind # "unknown"
      <4>1. serverId[p] \in SvrId \cup {NoSvr} /\ "heartbeat" \in Request \cup Reply
        BY <1>a DEF TypeOK, Request
      <4>2. QED BY <4>1, CallTypes
    <3>3. clientStatus[p] = "REGISTERED"
      BY <2>3, <2>c DEF HeartBeat
    <3>4. Claims(p, serverId[p])
      BY <3>3 DEF Claims
    <3>5. \A q \in Proc : statusThread'[q] = "heartbeat" => statusThread[q] = "heartbeat"
      BY <1>a, <2>3 DEF HeartBeat, TypeOK
    <3>6. UNCHANGED <<clientStatus, serverId, completionThread, gSvrId2SvrInfo>>
      BY <2>3 DEF HeartBeat
    <3>7. QED BY <2>d, <3>1, <3>2, <3>4, <3>5, <3>6
  <2>4. ASSUME NEW p \in Proc, SetServerId(p) PROVE Keeps
    <3>1. \A q \in Proc, id \in SvrId : Claims(q, id)' => Claims(q, id)
      BY <1>a, <2>4 DEF SetServerId, Claims, TypeOK
    <3>2. \A q \in Proc : statusThread'[q] = "heartbeat" => clientStatus'[q] = "REGISTERED"
      BY <1>a, <2>4, <2>c DEF SetServerId, TypeOK
    <3>3. QED BY <2>4, <2>c, <3>1, <3>2 DEF SetServerId, Keeps
  <2>5. ASSUME NEW p \in Proc, Restart(p) PROVE Keeps
    <3>1. \A q \in Proc : q # p => call'[q] = call[q]
      BY <1>a, <2>5 DEF Restart, TypeOK
    <3>2. \A k \in Slot(p) : call'[p][k] = IF call[p][k].kind \in Request
                                             THEN [call[p][k] EXCEPT !.stray = TRUE]
                                             ELSE NoCall
      BY <1>a, <2>5 DEF Restart, TypeOK
    <3>3. \A c \in Call : [c EXCEPT !.stray = TRUE].kind = c.kind /\ [c EXCEPT !.stray = TRUE].id = c.id
      BY DEF Call
    <3>4. \A k \in Slot(p) : call[p][k].kind \in Request => call[p][k] \in Call
      BY <1>a, CallTypes DEF TypeOK, Request
    <3>5. \A k \in Slot(p) : \/ call'[p][k].kind = call[p][k].kind /\ call'[p][k].id = call[p][k].id
                             \/ call'[p][k].kind = "none" /\ call'[p][k].id \notin SvrId
      <4> SUFFICES ASSUME NEW k \in Slot(p)
                   PROVE  \/ call'[p][k].kind = call[p][k].kind /\ call'[p][k].id = call[p][k].id
                          \/ call'[p][k].kind = "none" /\ call'[p][k].id \notin SvrId
        OBVIOUS
      <4>1. CASE call[p][k].kind \in Request
        BY <3>2, <3>3, <3>4, <4>1
      <4>2. CASE call[p][k].kind \notin Request
        <5>1. call'[p][k] = NoCall
          BY <3>2, <4>2
        <5>2. QED BY <5>1, CallTypes, Ids
      <4>3. QED BY <4>1, <4>2
    <3>6. \A q \in Proc : q # p => /\ clientStatus'[q] = clientStatus[q]
                                   /\ serverId'[q] = serverId[q]
                                   /\ statusThread'[q] = statusThread[q]
                                   /\ completionThread'[q] = completionThread[q]
      BY <1>a, <2>5 DEF Restart, TypeOK
    <3>7. /\ clientStatus'[p] = "NO_SERVER" /\ statusThread'[p] = "sleep"
          /\ completionThread'[p] = "next"
      BY <1>a, <2>5 DEF Restart, TypeOK
    <3>8. \A q \in Proc, id \in SvrId : Claims(q, id)' => Claims(q, id)
      BY <3>1, <3>5, <3>6, <3>7 DEF Claims
    <3>9. \A q \in Proc : \A j \in Slot(q) : call'[q][j].kind # "unknown"
      BY <2>c, <3>1, <3>5
    <3>10. \A q \in Proc : statusThread'[q] = "heartbeat" => clientStatus'[q] = "REGISTERED"
      BY <2>c, <3>6, <3>7
    <3>11. QED BY <2>5, <2>c, <3>8, <3>9, <3>10 DEF Restart, Keeps
  <2>6. ASSUME NEW p \in Proc, NEW k \in Slot(p), OnRegistered(p, k) PROVE Keeps
    <3>1. Put(p, k, NoCall)
      BY <2>6 DEF OnRegistered, TakesReply
    <3>2. \A q \in Proc : \A j \in Slot(q) :
            call'[q][j] = IF q = p /\ j = k THEN NoCall ELSE call[q][j]
      BY <1>a, <3>1, PutCall
    <3>3. NoCall.id \notin SvrId /\ NoCall.kind # "unknown"
      BY CallTypes, Ids
    <3>4. Claims(p, call[p][k].id)
      BY DEF Claims
    <3>5. /\ serverId'[p] = call[p][k].id
          /\ \A q \in Proc : q # p => /\ serverId'[q] = serverId[q]
                                      /\ completionThread'[q] = completionThread[q]
          /\ UNCHANGED <<clientStatus, statusThread, gSvrId2SvrInfo>>
      BY <1>a, <2>6 DEF OnRegistered, TypeOK
    <3>6. \A q \in Proc, id \in SvrId : Claims(q, id)' => Claims(q, id)
      BY <3>2, <3>3, <3>4, <3>5 DEF Claims
    <3>7. \A q \in Proc : \A j \in Slot(q) : call'[q][j].kind # "unknown"
      BY <2>c, <3>2, <3>3
    <3>8. QED BY <2>c, <3>5, <3>6, <3>7 DEF Keeps
  <2>7. ASSUME NEW p \in Proc, NEW k \in Slot(p), OnAlive(p, k) \/ CallFails(p, k) PROVE Keeps
    <3>1. Put(p, k, NoCall) /\ UNCHANGED <<client, gSvrId2SvrInfo>>
      BY <2>7 DEF OnAlive, CallFails, TakesReply
    <3>2. NoCall \in Call \cup {NoCall} /\ NoCall.id \notin SvrId /\ NoCall.kind # "unknown"
      BY CallTypes, Ids
    <3>3. QED BY <2>d, <3>1, <3>2
  <2>8. ASSUME NEW p \in Proc, NEW k \in Slot(p), OnUnknown(p, k) PROVE FALSE
    BY <2>8, <2>c DEF OnUnknown, TakesReply
  <2>9. ASSUME NEW p \in Proc, NEW k \in Slot(p), ServeHeartBeat(p, k) PROVE Keeps
    <3>1. Answer(p, k, Message("alive", NoSvr))
      BY <2>9 DEF ServeHeartBeat
    <3>2. PICK c \in Call \cup {NoCall} :
            Put(p, k, c) /\ c.id = NoSvr /\ c.kind \in {"alive", "none"}
      BY <1>a, <3>1, AnswersNothing
    <3>3. UNCHANGED client /\ c.id \notin SvrId /\ c.kind # "unknown"
      BY <2>9, <3>2, Ids DEF ServeHeartBeat
    <3>4. \A q \in Proc, id \in SvrId : Claims(q, id)' => Claims(q, id)
      BY <1>a, <3>2, <3>3, PutClaims
    <3>5. \A q \in Proc : \A j \in Slot(q) : call'[q][j].kind # "unknown"
      <4>1. \A q \in Proc : \A j \in Slot(q) :
              call'[q][j] = IF q = p /\ j = k THEN c ELSE call[q][j]
        BY <1>a, <3>2, PutCall
      <4>2. QED BY <2>c, <3>3, <4>1
    <3>6. \A i \in DOMAIN gSvrId2SvrInfo : ~gSvrId2SvrInfo[i].expired =>
            i \in DOMAIN gSvrId2SvrInfo' /\ ~gSvrId2SvrInfo'[i].expired
      <4>1. CASE gSvrId2SvrInfo[call[p][k].id].expired
        BY <1>a, <2>9, <4>1, MarkedEntry DEF ServeHeartBeat, Daemon!HeartBeat
      <4>2. CASE ~gSvrId2SvrInfo[call[p][k].id].expired
        BY <2>9, <4>2 DEF ServeHeartBeat
      <4>3. QED BY <4>1, <4>2
    <3>7. QED BY <2>c, <3>3, <3>4, <3>5, <3>6 DEF Keeps
  <2>10. ASSUME NEW p \in Proc, NEW k \in Slot(p), ServeUnknown(p, k) PROVE FALSE
    <3>1. call[p][k].kind = "heartbeat" /\ call[p][k].id \notin DOMAIN gSvrId2SvrInfo
      BY <2>10 DEF ServeUnknown
    <3>2. call[p][k].id \in SvrId
      <4>1. call[p][k].id # NoSvr
        BY <1>a, <3>1 DEF HoldsId
      <4>2. call[p][k] \in Call \cup {NoCall}
        BY <1>a DEF TypeOK
      <4>3. QED BY <3>1, <4>1, <4>2, CallTypes DEF Call
    <3>3. Claims(p, call[p][k].id)
      BY DEF Claims
    <3>4. QED BY <2>c, <3>1, <3>2, <3>3
  <2>11. ASSUME NEW id \in DOMAIN gSvrId2SvrInfo, Abandoned(id) PROVE Keeps
    <3>1. gSvrId2SvrInfo' = [gSvrId2SvrInfo EXCEPT ![id].expired = TRUE]
      BY <2>11 DEF Abandoned, Daemon!Expire
    <3>2. \A q \in Proc : ~Claims(q, id)
      BY <2>11 DEF Abandoned
    <3>3. \A q \in Proc, i \in SvrId : Claims(q, i) =>
            i \in DOMAIN gSvrId2SvrInfo' /\ ~gSvrId2SvrInfo'[i].expired
      BY <1>a, <2>c, <3>1, <3>2, MarkedEntry
    <3>4. QED BY <2>11, <2>e, <3>3 DEF Abandoned
  <2>12. ASSUME NEW id \in DOMAIN gSvrId2SvrInfo, CircuitBreaker(id) PROVE Keeps
    <3>1. gSvrId2SvrInfo' = Daemon!Without(gSvrId2SvrInfo, {id})
      BY <2>12 DEF CircuitBreaker, Daemon!Disconnect
    <3>2. \A q \in Proc : ~Claims(q, id)
      BY <1>c, <2>12 DEF CircuitBreaker
    <3>3. /\ DOMAIN gSvrId2SvrInfo' = DOMAIN gSvrId2SvrInfo \ {id}
          /\ \A i \in DOMAIN gSvrId2SvrInfo' : gSvrId2SvrInfo'[i] = gSvrId2SvrInfo[i]
      BY <1>a, <3>1, ErasedEntries
    <3>4. \A q \in Proc, i \in SvrId : Claims(q, i) =>
            i \in DOMAIN gSvrId2SvrInfo' /\ ~gSvrId2SvrInfo'[i].expired
      BY <2>c, <3>2, <3>3
    <3>5. QED BY <2>12, <2>e, <3>4 DEF CircuitBreaker
  <2>13. CASE CheckProcAlive
    <3>1. gSvrId2SvrInfo' = Daemon!Without(gSvrId2SvrInfo, Daemon!Expired)
      BY <2>13 DEF CheckProcAlive, Daemon!CheckProcAlive
    <3>2. \A i \in Daemon!Expired : gSvrId2SvrInfo[i].expired
      BY DEF Daemon!Expired
    <3>3. /\ DOMAIN gSvrId2SvrInfo' = DOMAIN gSvrId2SvrInfo \ Daemon!Expired
          /\ \A i \in DOMAIN gSvrId2SvrInfo' : gSvrId2SvrInfo'[i] = gSvrId2SvrInfo[i]
      BY <1>a, <3>1, ErasedEntries
    <3>4. \A q \in Proc, i \in SvrId : Claims(q, i) =>
            i \in DOMAIN gSvrId2SvrInfo' /\ ~gSvrId2SvrInfo'[i].expired
      BY <2>c, <3>2, <3>3
    <3>5. Keeps
      BY <2>13, <2>e, <3>4 DEF CheckProcAlive
    <3>6. QED BY <1>a, <2>b, <3>5, KeepsClaims
  <2>14. ASSUME UNCHANGED <<gSvrId2SvrInfo, client, call>> PROVE Keeps
    BY <2>14, <2>c, <2>e
  \* The only step that gives an id to a process gives it a new one.
  <2>15. ASSUME NEW p \in Proc, NEW k \in Slot(p), ServeRegister(p, k)
         PROVE  ClaimInv' /\ OneProcessPerId'
    <3>1. PICK id \in Daemon!NewIds :
            Daemon!AddEntry(id, "producer") /\ Answer(p, k, Message("registered", id))
      BY <2>15 DEF ServeRegister
    <3>2. id \in SvrId /\ id \notin DOMAIN gSvrId2SvrInfo
      BY <1>a, NewIdsAreNew
    <3>3. PICK c \in {NoCall, Message("registered", id)} : Put(p, k, c)
      BY <3>1 DEF Answer
    <3>4. c \in Call \cup {NoCall} /\ c.kind # "unknown" /\ (c.id \in SvrId => c.id = id)
      <4>1. CASE c = NoCall
        BY <4>1, CallTypes, Ids
      <4>2. CASE c = Message("registered", id)
        <5>1. "registered" \in Request \cup Reply
          BY DEF Reply
        <5>2. QED BY <3>2, <4>2, <5>1, CallTypes
      <4>3. QED BY <3>3, <4>1, <4>2
    <3>5. UNCHANGED client
      BY <2>15 DEF ServeRegister
    <3>6. \A q \in Proc, i \in SvrId : Claims(q, i)' => Claims(q, i) \/ (q = p /\ i = id)
      BY <1>a, <3>3, <3>4, <3>5, PutClaims
    <3>7. \A q \in Proc : ~Claims(q, id)
      BY <2>c, <3>2
    <3>8. \A q \in Proc : \A j \in Slot(q) : call'[q][j].kind # "unknown"
      <4>1. \A q \in Proc : \A j \in Slot(q) :
              call'[q][j] = IF q = p /\ j = k THEN c ELSE call[q][j]
        BY <1>a, <3>3, <3>4, PutCall
      <4>2. QED BY <2>c, <3>4, <4>1
    <3>9. \A i \in DOMAIN gSvrId2SvrInfo \cup {id} :
            /\ i \in DOMAIN gSvrId2SvrInfo'
            /\ i = id => ~gSvrId2SvrInfo'[i].expired
            /\ i # id => gSvrId2SvrInfo'[i] = gSvrId2SvrInfo[i]
      BY <1>a, <3>1, <3>2, AddedEntry
    <3>10. \A q \in Proc, i \in SvrId : Claims(q, i)' =>
             i \in DOMAIN gSvrId2SvrInfo' /\ ~gSvrId2SvrInfo'[i].expired
      BY <2>c, <3>6, <3>7, <3>9
    <3>11. ClaimInv'
      BY <2>c, <3>5, <3>8, <3>10 DEF ClaimInv
    <3>12. OneProcessPerId'
      BY <1>a, <2>b, <3>6, <3>7 DEF OneProcessPerId
    <3>13. QED BY <3>11, <3>12
  <2>16. CASE UNCHANGED vars
    BY <1>a, <2>b, <2>14, <2>16, KeepsClaims DEF vars
  <2>17. ASSUME NEW id \in DOMAIN gSvrId2SvrInfo, HeartBeatsLate(id) PROVE FALSE
    BY <1>c, <2>17 DEF HeartBeatsLate
  <2>18. CASE StopDaemon
    BY <1>a, <2>b, <2>14, <2>18, KeepsClaims DEF StopDaemon
  <2>19. CASE StartDaemon
    BY <1>c, <2>19 DEF StartDaemon
  <2>20. QED
    BY <1>a, <2>b, <2>1, <2>2, <2>3, <2>4, <2>5, <2>6, <2>7, <2>8, <2>9, <2>10, <2>11,
       <2>12, <2>13, <2>15, <2>16, <2>17, <2>18, <2>19, KeepsClaims DEF Next
<1>d. QED BY <1>b, <1>c

(***************************************************************************)
(* The theorems.                                                           *)
(***************************************************************************)

LEMMA InitInv ==
  ASSUME Init
  PROVE  Inv
<1>1. \A p \in Proc : \A k \in Slot(p) : call[p][k] = NoCall
  BY DEF Init
<1>2. TypeOK
  <2>1. Daemon!IsMap(gSvrId2SvrInfo, SvrId, Daemon!SvrInfo)
    BY DEF Init, Daemon!Init, Daemon!IsMap, Daemon!EmptyMap
  <2>2. DOMAIN call = Proc /\ \A p \in Proc : call[p] \in [Slot(p) -> Call \cup {NoCall}]
    BY DEF Init
  <2>3. faults \in 0..MaxFaults
    BY FaultsAssumption DEF Init
  <2>4. QED BY <2>1, <2>2, <2>3 DEF Init, TypeOK
<1>3. \A p \in Proc, id \in SvrId : ~Claims(p, id)
  BY <1>1, CallTypes, Ids DEF Init, Claims
<1>4. HoldsId
  BY <1>1, CallTypes DEF Init, HoldsId
<1>5. ClaimInv
  BY <1>1, <1>3, CallTypes DEF Init, ClaimInv
<1>6. OneProcessPerId
  BY <1>3 DEF OneProcessPerId
<1>7. QED BY <1>2, <1>4, <1>5, <1>6 DEF Inv

LEMMA InvHolds == Spec => []Inv
<1>1. ASSUME Inv, [Next]_vars PROVE Inv'
  BY <1>1, TypeStep, HoldsIdStep, ClaimStep DEF Inv
<1>2. QED BY <1>1, InitInv, PTL DEF Spec

\* Every variable keeps its type (all handlers of Membership).
THEOREM TypeCorrect == Spec => []TypeOK
<1>1. Inv => TypeOK
  BY DEF Inv
<1>2. QED BY <1>1, InvHolds, PTL

\* No heartbeat carries an id that was never set, although serverId_ is read
\* without the mutex (DaemonClientImpl::ClientStatusHandler, SetServerId).
THEOREM HeartBeatCorrect == Spec => []HeartBeatHasId
<1>1. Inv => HeartBeatHasId
  BY DEF Inv, HoldsId, HeartBeatHasId
<1>2. QED BY <1>1, InvHolds, PTL

\* No two processes hold the same id until one was taken from a process that
\* has it (ClientRegisterCallData::Proceed, CheckProcAlive).
THEOREM OneProcessCorrect == Spec => []OneProcessPerId
<1>1. Inv => OneProcessPerId
  BY DEF Inv
<1>2. QED BY <1>1, InvHolds, PTL


\* The client and the registry agree: SetServerId ends with an id that
\* ClientRegisterCallData gave out and no sweep took back.
THEOREM RegisteredKnown == Spec => []RegisteredIsKnown
<1>1. Inv => RegisteredIsKnown
  <2> SUFFICES ASSUME Inv, ~evicted, NEW p \in Proc, clientStatus[p] = "REGISTERED"
               PROVE  serverId[p] \in DOMAIN gSvrId2SvrInfo
    BY DEF RegisteredIsKnown
  <2>1. serverId[p] \in SvrId
    BY DEF Inv, TypeOK, HoldsId
  <2>2. QED BY <2>1 DEF Inv, ClaimInv, Claims
<1>2. QED BY <1>1, InvHolds, PTL

\* Which steps take a process from REGISTERED to NO_SERVER.
LEMMA StatusEnds ==
  ASSUME TypeOK, [Next]_vars, NEW p \in Proc,
         clientStatus[p] = "REGISTERED", clientStatus'[p] = "NO_SERVER"
  PROVE  \/ serverId'[p] = NoSvr
         \/ evicted' = evicted /\ \E k \in Slot(p) : call[p][k].kind = "unknown"
<1> USE DEF client
<1>1. ASSUME NEW q \in Proc, Restart(q) PROVE serverId'[p] = NoSvr
  <2>1. /\ clientStatus' = [clientStatus EXCEPT ![q] = "NO_SERVER"]
        /\ serverId' = [serverId EXCEPT ![q] = NoSvr]
    BY <1>1 DEF Restart
  <2>2. p = q
    BY <2>1 DEF TypeOK
  <2>3. QED BY <2>1, <2>2 DEF TypeOK
<1>2. ASSUME NEW q \in Proc, NEW k \in Slot(q), OnUnknown(q, k)
      PROVE  evicted' = evicted /\ \E j \in Slot(p) : call[p][j].kind = "unknown"
  <2>1. clientStatus' = [clientStatus EXCEPT ![q] = "NO_SERVER"] /\ evicted' = evicted
        /\ call[q][k].kind = "unknown"
    BY <1>2 DEF OnUnknown, TakesReply
  <2>2. p = q
    BY <2>1 DEF TypeOK
  <2>3. QED BY <2>1, <2>2
<1>3. ASSUME NEW q \in Proc, SetServerId(q) PROVE FALSE
  BY <1>3 DEF SetServerId, TypeOK
<1>4. ASSUME UNCHANGED clientStatus PROVE FALSE
  BY <1>4
<1>5. ASSUME NEW q \in Proc,
             \/ ClientRegister(q) \/ ReadClientStatus(q) \/ HeartBeat(q)
             \/ \E k \in Slot(q) :
                  \/ OnRegistered(q, k) \/ OnAlive(q, k) \/ ServeRegister(q, k)
                  \/ ServeHeartBeat(q, k) \/ ServeUnknown(q, k) \/ CallFails(q, k)
      PROVE  FALSE
  BY <1>4, <1>5 DEF ClientRegister, ReadClientStatus, HeartBeat, OnRegistered, OnAlive,
     ServeRegister, ServeHeartBeat, ServeUnknown, CallFails
<1>6. CASE \/ \E id \in DOMAIN gSvrId2SvrInfo :
                Abandoned(id) \/ HeartBeatsLate(id) \/ CircuitBreaker(id)
           \/ CheckProcAlive \/ StopDaemon \/ StartDaemon \/ UNCHANGED vars
  BY <1>4, <1>6 DEF Abandoned, HeartBeatsLate, CircuitBreaker, CheckProcAlive, StopDaemon,
     StartDaemon, vars
<1>7. QED BY <1>1, <1>2, <1>3, <1>5, <1>6 DEF Next

\* A registered process registers again only after a restart, or after an id was
\* taken from a process: OnGetResponse of HeartBeat has no other cause.
THEOREM NeverThrownOut == Spec => NotThrownOut
<1>1. ASSUME Inv, [Next]_vars
      PROVE  [~evicted' =>
                \A p \in Proc :
                  clientStatus[p] = "REGISTERED" /\ clientStatus'[p] = "NO_SERVER"
                    => serverId'[p] = NoSvr]_vars
  <2>1. \A p \in Proc :
          ~evicted' /\ clientStatus[p] = "REGISTERED" /\ clientStatus'[p] = "NO_SERVER"
            => serverId'[p] = NoSvr
    BY <1>1, StatusEnds DEF Inv, ClaimInv
  <2>2. QED BY <2>1
<1>2. QED BY <1>1, InvHolds, PTL DEF Spec, NotThrownOut
=============================================================================
