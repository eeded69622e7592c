----------------------------- MODULE UserInfoUpdate -----------------------------
(***************************************************************************)
(* The user lists: the process of src/userInfoUpdate, which copies the     *)
(* lists of users from MySQL to Redis once a day, and the thread of a      *)
(* producer (ProduceMsg of src/producer) that combines them in             *)
(* TMP_USER_INFO_KEY.  The two processes share nothing but Redis, whose    *)
(* commands are atomic.                                                    *)
(*                                                                         *)
(* A list is copied in chunks of COUNTS_PER_LOOP users.  Of the contents   *)
(* of a chunk only its age is kept: the version of the MySQL tables it was *)
(* read from.                                                              *)
(***************************************************************************)
EXTENDS Integers, FiniteSets

CONSTANTS
    LastTag,       \* the lists are 0..LastTag (2 in the code)
    LastChunk,     \* the chunks of a list are 0..LastChunk (END_UID / COUNTS_PER_LOOP)
    MaxVersion,    \* bound: changes of the MySQL tables
    MaxDays,       \* bound: days
    MaxFaults      \* bound: crashes of the process and fetches that break off

Tag == 0..LastTag
Chunk == 0..LastChunk
Version == 0..MaxVersion
NoRows == -1     \* nothing was written
CutOff == -2     \* what a fetch that broke off left

ASSUME TagAssumption == LastTag \in Nat /\ LastChunk \in Nat
ASSUME BoundAssumption == MaxVersion \in Nat /\ MaxDays \in Nat /\ MaxFaults \in Nat

VARIABLES
    tables,      \* the version of the MySQL tables
    recorded,    \* the tags whose last_update_time is today
    days, faults,
    temp,        \* the TEMP keys: for each tag, the rows of each chunk
    release,     \* the RELEASE keys
    tmpKey,      \* TMP_USER_INFO_KEY
    step, tag, chunk, rows,    \* the updating process
    keyStep, read,             \* the producer
    lost         \* history: an update of a recorded list ended between RENAME and DEL

mysql == <<tables, recorded, days>>
update == <<step, tag, chunk, rows>>
producer == <<keyStep, read>>
vars == <<mysql, faults, temp, release, tmpKey, update, producer, lost>>

\* A list in Redis: the rows of each chunk; one that does not exist has none
Rows == Version \cup {NoRows, CutOff}
List == [Chunk -> Rows]
NoList == [i \in Chunk |-> NoRows]
Key == [exists : BOOLEAN, lists : [Tag -> List], expires : BOOLEAN]
NoKey == [exists |-> FALSE, lists |-> [t \in Tag |-> NoList], expires |-> FALSE]

Step == {"check", "del_temp", "select", "setrange", "diff", "rename", "record", "del_tmp"}

Init ==
    /\ tables = 0
    /\ recorded = {}
    /\ days = 0
    /\ faults = 0
    /\ temp = [t \in Tag |-> NoList]
    /\ release = [t \in Tag |-> NoList]
    /\ tmpKey = NoKey
    /\ step = "check" /\ tag = 0 /\ chunk = 0 /\ rows = NoRows
    /\ keyStep = "idle" /\ read = "nothing"
    /\ lost = FALSE

(***************************************************************************)
(* CheckAndUpdateUserInfo and UpdateUserInfo.                              *)
(***************************************************************************)
GoTo(s) == step' = s /\ UNCHANGED <<tag, chunk, rows>>

\* The main loop turns to the next list
NextTag ==
    /\ step' = "check"
    /\ tag' = IF tag = LastTag THEN 0 ELSE tag + 1
    /\ chunk' = 0
    /\ rows' = NoRows

\* The query for last_update_time: a list updated today is left alone.  When the
\* fetch of its record breaks off, it is updated like one without a record.
CheckAndUpdateUserInfo ==
    /\ step = "check"
    /\ \/ tag \in recorded /\ NextTag /\ UNCHANGED faults
       \/ tag \in recorded /\ GoTo("del_temp") /\ faults < MaxFaults /\ faults' = faults + 1
       \/ tag \notin recorded /\ GoTo("del_temp") /\ UNCHANGED faults
    /\ UNCHANGED <<mysql, temp, release, tmpKey, producer, lost>>

DelTemp ==
    /\ step = "del_temp"
    /\ temp' = [temp EXCEPT ![tag] = NoList]
    /\ GoTo("select")
    /\ UNCHANGED <<mysql, faults, release, tmpKey, producer, lost>>

\* Mutant of Select: a query that failed counts as one without rows
SelectUnchecked ==
    /\ step = "select"
    /\ step' = "setrange"
    /\ rows' \in {NoRows, tables}
    /\ UNCHANGED <<mysql, faults, temp, release, tmpKey, tag, chunk, producer, lost>>

\* SELECT the users of the chunk: mysql_fetch_row answers the loss of the
\* connection like the end of the rows ...
Select ==
    /\ step = "select"
    /\ step' = "setrange"
    /\ \/ rows' = tables /\ UNCHANGED faults
       \/ rows' = CutOff /\ faults < MaxFaults /\ faults' = faults + 1
    /\ UNCHANGED <<mysql, temp, release, tmpKey, tag, chunk, producer, lost>>

\* Mutants of SetRange: a loop of one chunk more, and of one chunk less
OneChunkMore ==
    /\ step = "setrange"
    /\ temp' = [temp EXCEPT ![tag][chunk] = rows]
    /\ IF chunk <= LastChunk
         THEN step' = "select" /\ chunk' = chunk + 1
         ELSE step' = "diff" /\ chunk' = 0
    /\ rows' = NoRows
    /\ UNCHANGED <<mysql, faults, release, tmpKey, tag, producer, lost>>
OneChunkLess ==
    /\ step = "setrange"
    /\ temp' = [temp EXCEPT ![tag][chunk] = rows]
    /\ IF chunk + 1 < LastChunk
         THEN step' = "select" /\ chunk' = chunk + 1
         ELSE step' = "diff" /\ chunk' = 0
    /\ rows' = NoRows
    /\ UNCHANGED <<mysql, faults, release, tmpKey, tag, producer, lost>>

\* Mutant of SetRange: the RELEASE key is written in place
InPlace ==
    /\ step = "setrange"
    /\ release' = [release EXCEPT ![tag][chunk] = rows]
    /\ IF chunk < LastChunk
         THEN step' = "select" /\ chunk' = chunk + 1
         ELSE step' = "diff" /\ chunk' = 0
    /\ rows' = NoRows
    /\ UNCHANGED <<mysql, faults, temp, tmpKey, tag, producer, lost>>

\* ... and write them; the loop ends after the last chunk
SetRange ==
    /\ step = "setrange"
    /\ temp' = [temp EXCEPT ![tag][chunk] = rows]
    /\ IF chunk < LastChunk
         THEN step' = "select" /\ chunk' = chunk + 1
         ELSE step' = "diff" /\ chunk' = 0
    /\ rows' = NoRows
    /\ UNCHANGED <<mysql, faults, release, tmpKey, tag, producer, lost>>

\* EXISTS, XOR, BITCOUNT and DEL of the DIFF key, which nobody else uses: a
\* list that differs in as many bits as there are users is rejected, and that
\* takes a difference in every chunk.
CheckDiff ==
    /\ step = "diff"
    /\ \/ GoTo("rename")
       \/ /\ release[tag] # NoList
          /\ \A i \in Chunk : release[tag][i] # temp[tag][i] \/ temp[tag][i] = CutOff
          /\ NextTag
    /\ UNCHANGED <<mysql, faults, temp, release, tmpKey, producer, lost>>

Rename ==
    /\ step = "rename"
    /\ release' = [release EXCEPT ![tag] = temp[tag]]
    /\ temp' = [temp EXCEPT ![tag] = NoList]
    /\ GoTo("record")
    /\ UNCHANGED <<mysql, faults, tmpKey, producer, lost>>

\* Mutant of WriteRecord: the update ends with the record
RecordEnds ==
    /\ step = "record"
    /\ recorded' = recorded \cup {tag}
    /\ NextTag
    /\ UNCHANGED <<tables, days, faults, temp, release, tmpKey, producer, lost>>

\* UPDATE the record, or INSERT it when there is none
WriteRecord ==
    /\ step = "record"
    /\ recorded' = recorded \cup {tag}
    /\ GoTo("del_tmp")
    /\ UNCHANGED <<tables, days, faults, temp, release, tmpKey, producer, lost>>

\* The update ends here, with the RENAME done and the DEL not, although the list
\* counts as updated today
LosesDel ==
    /\ step \in {"record", "del_tmp"} \/ release' # release
    /\ tag \in recorded'

\* DEL of TMP_USER_INFO_KEY, whose answer is ignored
DelTmpKey ==
    /\ step = "del_tmp"
    /\ NextTag
    /\ UNCHANGED <<mysql, faults, temp, release, producer>>
    /\ \/ tmpKey' = NoKey /\ lost' = FALSE
       \/ lost' = (lost \/ LosesDel) /\ UNCHANGED tmpKey   \* the command failed

\* A command of MySQL or Redis that is given up ends the update of the list.
\* Redis may have executed it all the same.
Stop ==
    /\ step # "del_tmp"
    /\ \/ UNCHANGED <<temp, release, recorded>>
       \/ step = "del_temp" /\ temp' = [temp EXCEPT ![tag] = NoList]
            /\ UNCHANGED <<release, recorded>>
       \/ step = "setrange" /\ temp' = [temp EXCEPT ![tag][chunk] = rows]
            /\ UNCHANGED <<release, recorded>>
       \/ step = "rename" /\ release' = [release EXCEPT ![tag] = temp[tag]]
            /\ temp' = [temp EXCEPT ![tag] = NoList] /\ UNCHANGED recorded
       \/ step = "record" /\ recorded' = recorded \cup {tag}
            /\ UNCHANGED <<temp, release>>
    /\ lost' = (lost \/ LosesDel)
    /\ NextTag
    /\ UNCHANGED <<tables, days, faults, tmpKey, producer>>

\* The process dies, and is started again
Crash ==
    /\ faults < MaxFaults
    /\ faults' = faults + 1
    /\ step' = "check" /\ tag' = 0 /\ chunk' = 0 /\ rows' = NoRows
    /\ UNCHANGED <<mysql, temp, release, tmpKey, producer>>
    /\ lost' = (lost \/ LosesDel)

(***************************************************************************)
(* ProduceMsg, up to the GETRANGE.                                         *)
(***************************************************************************)
Exists ==
    /\ keyStep = "idle"
    /\ keyStep' = IF tmpKey.exists THEN "getrange" ELSE "bitop"
    /\ read' = "nothing"
    /\ UNCHANGED <<mysql, faults, temp, release, tmpKey, update, lost>>

\* BITOP AND makes a key when one of the lists exists
BitOpAnd ==
    /\ keyStep = "bitop"
    /\ IF \E t \in Tag : release[t] # NoList
         THEN /\ tmpKey' = [exists |-> TRUE, lists |-> release, expires |-> FALSE]
              /\ keyStep' = "expire"
              /\ lost' = FALSE
         ELSE /\ tmpKey' = NoKey
              /\ keyStep' = "idle"
              /\ lost' = FALSE
    /\ UNCHANGED <<mysql, faults, temp, release, update, read>>

\* EXPIRE, which answers 0 when the key has gone
SetExpiration ==
    /\ keyStep = "expire"
    /\ IF tmpKey.exists
         THEN tmpKey' = [tmpKey EXCEPT !.expires = TRUE] /\ keyStep' = "getrange"
         ELSE keyStep' = "idle" /\ UNCHANGED tmpKey
    /\ UNCHANGED <<mysql, faults, temp, release, update, read, lost>>

\* GETRANGE; the answer of a key that has gone is empty, and what lies behind
\* it in memory is taken for users
GetRange ==
    /\ keyStep = "getrange"
    /\ read' = IF tmpKey.exists THEN "lists" ELSE "garbage"
    /\ keyStep' = "idle"
    /\ UNCHANGED <<mysql, faults, temp, release, tmpKey, update, lost>>

\* The command the producer is at is given up: ProduceMsg returns.  (A command
\* that was executed although its answer was lost is the step after it.)
GiveUp ==
    /\ keyStep # "idle"
    /\ keyStep' = "idle"
    /\ UNCHANGED <<mysql, faults, temp, release, tmpKey, update, read, lost>>

(***************************************************************************)
(* The environment.                                                        *)
(***************************************************************************)

\* The 30 minutes of the key are over
KeyExpires ==
    /\ tmpKey.exists /\ tmpKey.expires
    /\ tmpKey' = NoKey
    /\ lost' = FALSE
    /\ UNCHANGED <<mysql, faults, temp, release, update, producer>>

\* Users come and go in MySQL
TablesChange ==
    /\ tables < MaxVersion
    /\ tables' = tables + 1
    /\ UNCHANGED <<recorded, days, faults, temp, release, tmpKey, update, producer, lost>>

NewDay ==
    /\ days < MaxDays
    /\ days' = days + 1
    /\ recorded' = {}
    /\ UNCHANGED <<tables, faults, temp, release, tmpKey, update, producer, lost>>

Next ==
    \/ CheckAndUpdateUserInfo \/ DelTemp \/ Select \/ SetRange
    \/ CheckDiff \/ Rename \/ WriteRecord \/ DelTmpKey
    \/ Stop \/ Crash
    \/ Exists \/ BitOpAnd \/ SetExpiration \/ GetRange \/ GiveUp
    \/ KeyExpires \/ TablesChange \/ NewDay

Spec == Init /\ [][Next]_vars

(***************************************************************************)
(* Safety.                                                                 *)
(***************************************************************************)

\* Every key, record and variable has a value of its type.
TypeOK ==
    /\ tables \in Version
    /\ recorded \subseteq Tag
    /\ days \in 0..MaxDays /\ faults \in 0..MaxFaults
    /\ temp \in [Tag -> List] /\ release \in [Tag -> List]
    /\ tmpKey \in Key
    /\ step \in Step /\ tag \in Tag /\ chunk \in Chunk
    /\ rows \in Rows
    /\ keyStep \in {"idle", "bitop", "expire", "getrange"}
    /\ read \in {"nothing", "lists", "garbage"}
    /\ lost \in BOOLEAN

\* A list is released when every chunk of it was written, or not at all:
\* neither a command that failed nor a crash, anywhere in the loop, lets a TEMP
\* key with holes become a RELEASE key.  What a chunk was cut off at, the code
\* does not notice.
ReleasedWhole ==
    \A t \in Tag : release[t] # NoList => \A i \in Chunk : release[t][i] # NoRows

\* What is released only gets newer: no chunk of a list that replaces another
\* was read from an older state of the tables than any chunk of the other, but
\* for a fetch that broke off.
ReleaseMovesForward ==
    [][\A t \in Tag, i, j \in Chunk :
         release'[t] # release[t]
           => release'[t][i] \in {CutOff} \cup release[t][j]..MaxVersion]_vars

\* A TMP_USER_INFO_KEY built from a list that has been replaced since does not
\* stay: it is about to be deleted, or the list is updated again today.  The
\* exception is an update that ends between RENAME and DEL while the list counts
\* as updated today: after the record is written, or anywhere between the two
\* when the fetch of an earlier record of the day had broken off.
StaleKeyGoes ==
    tmpKey.exists =>
      \A t \in Tag :
        \/ tmpKey.lists[t] = release[t]
        \/ t \notin recorded
        \/ tag = t /\ step \in {"record", "del_tmp"}
        \/ lost

(***************************************************************************)
(* The abstract specification.                                             *)
(***************************************************************************)

Lists == INSTANCE UserLists WITH released <- release, combined <- tmpKey.lists

\* The commands of both processes, crashes and lost answers keep what UserLists
\* promises to producers: whole lists, each newer than the one it replaces, and
\* a combined key of lists released together.
ImplementsLists == Lists!Spec

(***************************************************************************)
(* Disagreement.                                                           *)
(***************************************************************************)

\* "the TMP_USER_INFO_KEY should be rebuild by the producer process"
\* (userInfoUpdate.cpp:228): when the key has gone the producer makes it again
\* before it reads it.
ProducerRebuilds == read # "garbage"

=============================================================================
