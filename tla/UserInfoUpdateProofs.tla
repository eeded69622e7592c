-------------------------- MODULE UserInfoUpdateProofs --------------------------
(***************************************************************************)
(* The safety of the update of the user lists, for any number of lists,    *)
(* chunks, days, versions of the tables and faults.                        *)
(*                                                                         *)
(* The argument: while a list is copied, the chunks before the loop's      *)
(* position hold rows no older than any of those released (CopyInv), so    *)
(* that what RENAME releases is complete and not older.  StaleKeyGoes      *)
(* carries itself: RENAME makes the combined key stale at a step that is   *)
(* followed by the DEL, and an update that ends before it leaves the list  *)
(* without a record of today, or sets lost.                                *)
(***************************************************************************)
EXTENDS UserInfoUpdate, TLAPS

\* The chunks of the list at hand that its TEMP key has
Copied ==
    IF step \in {"select", "setrange"} THEN {i \in Chunk : i < chunk}
    ELSE IF step \in {"diff", "rename"} THEN Chunk
    ELSE {}

\* What a fetch left, or rows of the tables not older than old
NotOlder(new, old) == new = CutOff \/ (new \in 0..tables /\ old <= new)

\* Not older than any chunk that is released
Fresh(new, t) == \A j \in Chunk : NotOlder(new, release[t][j])

CopyInv ==
    /\ \A t \in Tag, i \in Chunk : release[t][i] <= tables
    /\ step \notin {"select", "setrange"} => chunk = 0
    /\ \A i \in Copied : Fresh(temp[tag][i], tag)
    /\ step = "setrange" => Fresh(rows, tag)

Inv == TypeOK /\ CopyInv /\ ReleasedWhole /\ StaleKeyGoes

(***************************************************************************)
(* Types.                                                                  *)
(***************************************************************************)

LEMMA Constants ==
  /\ 0 \in Tag /\ Tag \subseteq Nat
  /\ 0 \in Chunk /\ Chunk \subseteq Nat
  /\ Version \subseteq Rows /\ Rows \subseteq Int
  /\ NoRows \in Rows /\ CutOff \in Rows /\ NoRows # CutOff
  /\ NoRows \notin Nat /\ CutOff \notin Nat
  /\ NoList \in List
  /\ NoKey \in Key
BY TagAssumption, BoundAssumption
   DEF Tag, Chunk, Version, Rows, NoRows, CutOff, NoList, List, NoKey, Key

LEMMA NextTagType ==
  ASSUME TypeOK, NextTag
  PROVE  step' \in Step /\ tag' \in Tag /\ chunk' \in Chunk /\ rows' \in Rows
BY Constants, TagAssumption DEF NextTag, Step, Tag, TypeOK

\* What a command may do to the lists keeps their types.
LEMMA ListType ==
  ASSUME TypeOK, NEW t \in Tag, NEW l \in List, NEW i \in Chunk, NEW r \in Rows
  PROVE  /\ [temp EXCEPT ![t] = l] \in [Tag -> List]
         /\ [release EXCEPT ![t] = l] \in [Tag -> List]
         /\ [temp EXCEPT ![t][i] = r] \in [Tag -> List]
BY DEF TypeOK, List

LEMMA TypeStep ==
  ASSUME TypeOK, [Next]_vars
  PROVE  TypeOK'
<1> USE DEF mysql, update, producer
<1>1. CASE CheckAndUpdateUserInfo
  <2>1. faults' \in 0..MaxFaults /\ UNCHANGED <<mysql, temp, release, tmpKey, producer, lost>>
    BY <1>1, BoundAssumption DEF CheckAndUpdateUserInfo, TypeOK
  <2>2. NextTag \/ GoTo("del_temp")
    BY <1>1 DEF CheckAndUpdateUserInfo
  <2>3. step' \in Step /\ tag' \in Tag /\ chunk' \in Chunk /\ rows' \in Rows
    BY <2>2, NextTagType DEF GoTo, TypeOK, Step
  <2>4. QED BY <2>1, <2>3 DEF TypeOK
<1>2. CASE DelTemp
  <2>1. temp' \in [Tag -> List]
    BY <1>2, ListType, Constants DEF DelTemp, TypeOK
  <2>2. QED BY <1>2, <2>1 DEF DelTemp, GoTo, TypeOK, Step
<1>3. CASE Select
  <2>1. rows' \in Rows /\ faults' \in 0..MaxFaults
    BY <1>3, Constants, BoundAssumption DEF Select, TypeOK
  <2>2. QED BY <1>3, <2>1 DEF Select, TypeOK, Step
<1>4. CASE SetRange
  <2>1. temp' \in [Tag -> List]
    BY <1>4, ListType, Constants DEF SetRange, TypeOK
  <2>2. chunk' \in Chunk /\ rows' \in Rows /\ step' \in Step
    BY <1>4, Constants, TagAssumption DEF SetRange, TypeOK, Chunk, Step
  <2>3. QED BY <1>4, <2>1, <2>2 DEF SetRange, TypeOK
<1>5. CASE CheckDiff
  BY <1>5, NextTagType DEF CheckDiff, GoTo, TypeOK, Step
<1>6. CASE Rename
  <2>1. temp' \in [Tag -> List] /\ release' \in [Tag -> List]
    BY <1>6, ListType, Constants DEF Rename, TypeOK
  <2>2. QED BY <1>6, <2>1 DEF Rename, GoTo, TypeOK, Step
<1>7. CASE WriteRecord
  BY <1>7 DEF WriteRecord, GoTo, TypeOK, Step
<1>8. CASE DelTmpKey
  <2>1. tmpKey' \in Key /\ lost' \in BOOLEAN
    BY <1>8, Constants DEF DelTmpKey, TypeOK
  <2>2. QED BY <1>8, <2>1, NextTagType DEF DelTmpKey, TypeOK
<1>9. CASE Stop
  <2>1. temp' \in [Tag -> List] /\ release' \in [Tag -> List]
    <3>1. temp[tag] \in List
      BY DEF TypeOK
    <3>2. QED BY <1>9, <3>1, ListType, Constants DEF Stop, TypeOK
  <2>2. recorded' \subseteq Tag /\ lost' \in BOOLEAN
    BY <1>9 DEF Stop, TypeOK
  <2>3. NextTag /\ UNCHANGED <<tables, days, faults, tmpKey, producer>>
    BY <1>9 DEF Stop
  <2>4. QED BY <2>1, <2>2, <2>3, NextTagType DEF TypeOK
<1>10. CASE Crash
  <2>1. faults' \in 0..MaxFaults /\ lost' \in BOOLEAN
    BY <1>10, BoundAssumption DEF Crash, TypeOK
  <2>2. QED BY <1>10, <2>1, Constants DEF Crash, TypeOK, Step
<1>11. CASE Exists \/ GetRange \/ GiveUp
  BY <1>11 DEF Exists, GetRange, GiveUp, TypeOK
<1>12. CASE BitOpAnd
  <2>1. [exists |-> TRUE, lists |-> release, expires |-> FALSE] \in Key
    BY DEF TypeOK, Key
  <2>2. tmpKey' \in Key
    BY <1>12, <2>1, Constants DEF BitOpAnd
  <2>3. QED BY <1>12, <2>2 DEF BitOpAnd, TypeOK
<1>13. CASE SetExpiration
  <2>1. tmpKey' \in Key
    BY <1>13 DEF SetExpiration, TypeOK, Key
  <2>2. QED BY <1>13, <2>1 DEF SetExpiration, TypeOK
<1>14. CASE KeyExpires
  BY <1>14, Constants DEF KeyExpires, TypeOK
<1>15. CASE TablesChange
  <2>1. tables' \in Version
    BY <1>15, BoundAssumption DEF TablesChange, TypeOK, Version
  <2>2. QED BY <1>15, <2>1 DEF TablesChange, TypeOK
<1>16. CASE NewDay
  <2>1. days' \in 0..MaxDays
    BY <1>16, BoundAssumption DEF NewDay, TypeOK
  <2>2. QED BY <1>16, <2>1 DEF NewDay, TypeOK
<1>17. CASE UNCHANGED vars
  BY <1>17 DEF vars, TypeOK
<1>18. QED
  BY <1>1, <1>2, <1>3, <1>4, <1>5, <1>6, <1>7, <1>8, <1>9, <1>10, <1>11, <1>12,
     <1>13, <1>14, <1>15, <1>16, <1>17 DEF Next

(***************************************************************************)
(* The copy.                                                               *)
(***************************************************************************)

\* NotOlder is about numbers, none of which is NoRows.
LEMMA NotOlderFacts ==
  ASSUME TypeOK, NEW new, NEW old \in Rows, NotOlder(new, old)
  PROVE  /\ new # NoRows
         /\ new <= tables
         /\ new = CutOff \/ new \in old..MaxVersion
BY Constants, BoundAssumption DEF NotOlder, TypeOK, CutOff, NoRows, Version

\* See NotOlderFacts; a list has a chunk.
LEMMA FreshFacts ==
  ASSUME TypeOK, NEW t \in Tag, NEW new, Fresh(new, t)
  PROVE  /\ new # NoRows
         /\ new <= tables
         /\ \A j \in Chunk : new \in {CutOff} \cup release[t][j]..MaxVersion
<1>1. \A j \in Chunk : release[t][j] \in Rows /\ NotOlder(new, release[t][j])
  BY DEF TypeOK, List, Fresh
<1>2. 0 \in Chunk
  BY Constants
<1>3. QED BY <1>1, <1>2, NotOlderFacts

\* The next list starts with nothing copied.
LEMMA NextTagCopies ==
  ASSUME TypeOK, NextTag, \A t \in Tag, i \in Chunk : release'[t][i] <= tables'
  PROVE  CopyInv'
BY DEF NextTag, CopyInv, Copied

\* Steps of others: the tables may only become newer.
LEMMA OthersCopy ==
  ASSUME TypeOK, CopyInv, UNCHANGED <<temp, release, update>>,
         tables' \in Version, tables <= tables'
  PROVE  CopyInv'
<1> USE DEF update
<1>1. \A t \in Tag, i \in Chunk : release'[t][i] <= tables'
  <2>1. \A t \in Tag, i \in Chunk : release[t][i] \in Int /\ release[t][i] <= tables
    <3>1. \A t \in Tag, i \in Chunk : release[t][i] \in Rows
      BY DEF TypeOK, List
    <3>2. QED BY <3>1, Constants DEF CopyInv
  <2>2. tables \in Int /\ tables' \in Int /\ release' = release
    BY DEF TypeOK, Version
  <2>3. QED BY <2>1, <2>2
<1>2. \A new, old : NotOlder(new, old) => NotOlder(new, old)'
  BY DEF NotOlder, TypeOK, Version
<1>3. Copied' = Copied /\ Copied \subseteq Chunk
  BY DEF Copied
<1>4. \A new, t : Fresh(new, t) => Fresh(new, t)'
  BY <1>2 DEF Fresh
<1>5. QED BY <1>1, <1>3, <1>4 DEF CopyInv

LEMMA CopyStep ==
  ASSUME TypeOK, CopyInv, [Next]_vars
  PROVE  CopyInv'
<1> USE DEF mysql, update, producer
<1>0. \A t \in Tag, i \in Chunk : release[t][i] <= tables /\ release[t][i] \in Rows /\ temp[t][i] \in Rows
  BY DEF CopyInv, TypeOK, List
<1>1. CASE CheckAndUpdateUserInfo
  <2>1. CASE NextTag
    BY <1>0, <1>1, <2>1, NextTagCopies DEF CheckAndUpdateUserInfo
  <2>2. CASE GoTo("del_temp")
    BY <1>0, <1>1, <2>2 DEF CheckAndUpdateUserInfo, GoTo, CopyInv, Copied
  <2>3. QED BY <1>1, <2>1, <2>2 DEF CheckAndUpdateUserInfo
<1>b. ASSUME UNCHANGED <<tables, release>> PROVE \A new, t : Fresh(new, t) => Fresh(new, t)'
  BY <1>b DEF Fresh, NotOlder
<1>2. CASE DelTemp
  <2>1. chunk' = 0 /\ step' = "select"
    BY <1>2 DEF DelTemp, GoTo, CopyInv
  <2>2. Copied' = {}
    BY <2>1, TagAssumption DEF Copied, Chunk
  <2>3. QED BY <1>0, <1>2, <2>1, <2>2 DEF DelTemp, GoTo, CopyInv
<1>3. CASE Select
  <2>1. Copied' = Copied
    BY <1>3 DEF Select, Copied
  <2>2. Fresh(rows', tag)
    BY <1>0, <1>3, Constants DEF Select, Fresh, NotOlder, TypeOK, Version
  <2>3. UNCHANGED <<tables, temp, release, tag, chunk>> /\ step' = "setrange"
    BY <1>3 DEF Select
  <2>4. QED BY <1>b, <2>1, <2>2, <2>3 DEF CopyInv
<1>4. CASE SetRange
  <2>1. /\ step = "setrange" /\ UNCHANGED <<tables, release, tag>>
        /\ temp' = [temp EXCEPT ![tag][chunk] = rows]
        /\ IF chunk < LastChunk
             THEN step' = "select" /\ chunk' = chunk + 1
             ELSE step' = "diff" /\ chunk' = 0
    BY <1>4 DEF SetRange
  <2>2. \A i \in Chunk : temp'[tag][i] = IF i = chunk THEN rows ELSE temp[tag][i]
    BY <2>1 DEF TypeOK, List
  <2>3. Copied' \subseteq Copied \cup {chunk}
    BY <2>1, TagAssumption DEF Copied, Chunk, TypeOK
  <2>4. \A i \in Copied' : Fresh(temp'[tag][i], tag)
    BY <2>1, <2>2, <2>3 DEF CopyInv, Copied, TypeOK
  <2>5. QED BY <1>0, <1>b, <2>1, <2>4 DEF CopyInv
<1>5. CASE CheckDiff
  <2>1. CASE NextTag
    BY <1>0, <1>5, <2>1, NextTagCopies DEF CheckDiff
  <2>2. CASE GoTo("rename")
    <3>1. UNCHANGED <<tables, temp, release, tag, chunk>> /\ step = "diff" /\ step' = "rename"
      BY <1>5, <2>2 DEF CheckDiff, GoTo
    <3>2. Copied = Chunk /\ Copied' = Chunk
      BY <3>1 DEF Copied
    <3>3. QED BY <1>0, <1>b, <3>1, <3>2 DEF CopyInv
  <2>3. QED BY <1>5, <2>1, <2>2 DEF CheckDiff
<1>6. CASE Rename
  <2>1. \A t \in Tag, i \in Chunk : release'[t][i] = IF t = tag THEN temp[tag][i] ELSE release[t][i]
    BY <1>6 DEF Rename, TypeOK
  <2>2. \A i \in Chunk : temp[tag][i] <= tables
    BY <1>6, FreshFacts DEF Rename, CopyInv, Copied, TypeOK
  <2>3. \A t \in Tag, i \in Chunk : release'[t][i] <= tables
    BY <1>0, <2>1, <2>2
  <2>4. step' = "record" /\ chunk' = 0 /\ tables' = tables
    BY <1>6 DEF Rename, GoTo, CopyInv
  <2>5. QED BY <2>3, <2>4 DEF CopyInv, Copied
<1>7. CASE WriteRecord
  BY <1>0, <1>7 DEF WriteRecord, GoTo, CopyInv, Copied
<1>8. CASE DelTmpKey
  BY <1>0, <1>8, NextTagCopies DEF DelTmpKey
<1>9. CASE Stop
  <2>1. NextTag /\ tables' = tables
    BY <1>9 DEF Stop
  <2>2. \/ release' = release
        \/ step = "rename" /\ release' = [release EXCEPT ![tag] = temp[tag]]
    BY <1>9 DEF Stop
  <2>3. CASE step = "rename" /\ release' = [release EXCEPT ![tag] = temp[tag]]
    <3>1. \A t \in Tag, i \in Chunk : release'[t][i] = IF t = tag THEN temp[tag][i] ELSE release[t][i]
      BY <2>3 DEF TypeOK
    <3>2. \A i \in Chunk : temp[tag][i] <= tables
      BY <2>3, FreshFacts DEF CopyInv, Copied, TypeOK
    <3>3. QED BY <1>0, <2>1, <3>1, <3>2, NextTagCopies
  <2>4. QED BY <1>0, <2>1, <2>2, <2>3, NextTagCopies
<1>10. CASE Crash
  BY <1>0, <1>10 DEF Crash, CopyInv, Copied
<1>11. CASE Exists \/ GetRange \/ GiveUp \/ BitOpAnd \/ SetExpiration \/ KeyExpires \/ NewDay
  <2>1. UNCHANGED <<temp, release, update, tables>>
    BY <1>11 DEF Exists, GetRange, GiveUp, BitOpAnd, SetExpiration, KeyExpires, NewDay
  <2>2. tables' \in Version /\ tables <= tables'
    BY <2>1 DEF TypeOK, Version
  <2>3. QED BY <2>1, <2>2, OthersCopy
<1>12. CASE TablesChange
  <2>1. UNCHANGED <<temp, release, update>>
    BY <1>12 DEF TablesChange
  <2>2. tables' \in Version /\ tables <= tables'
    BY <1>12, BoundAssumption DEF TablesChange, TypeOK, Version
  <2>3. QED BY <2>1, <2>2, OthersCopy
<1>13. CASE UNCHANGED vars
  <2>1. tables' \in Version /\ tables <= tables' /\ UNCHANGED <<temp, release, update>>
    BY <1>13 DEF TypeOK, Version, vars
  <2>2. QED BY <2>1, OthersCopy
<1>14. QED
  BY <1>1, <1>2, <1>3, <1>4, <1>5, <1>6, <1>7, <1>8, <1>9, <1>10, <1>11, <1>12, <1>13 DEF Next

(***************************************************************************)
(* The release.                                                            *)
(***************************************************************************)

\* Only the renaming of a complete TEMP key changes what is released.
LEMMA ReleaseChanges ==
  ASSUME TypeOK, CopyInv, [Next]_vars
  PROVE  \/ release' = release
         \/ /\ step = "rename"
            /\ release' = [release EXCEPT ![tag] = temp[tag]]
            /\ \A i \in Chunk : Fresh(temp[tag][i], tag)
<1>1. \/ release' = release
      \/ step = "rename" /\ release' = [release EXCEPT ![tag] = temp[tag]]
  BY DEF Next, CheckAndUpdateUserInfo, DelTemp, Select, SetRange, CheckDiff, Rename,
     WriteRecord, DelTmpKey, Stop, Crash, Exists, BitOpAnd, SetExpiration, GetRange,
     GiveUp, KeyExpires, TablesChange, NewDay, vars
<1>2. step = "rename" => \A i \in Chunk : Fresh(temp[tag][i], tag)
  BY DEF CopyInv, Copied
<1>3. QED BY <1>1, <1>2

LEMMA WholeStep ==
  ASSUME TypeOK, CopyInv, ReleasedWhole, [Next]_vars
  PROVE  ReleasedWhole'
<1>1. CASE release' = release
  BY <1>1 DEF ReleasedWhole
<1>2. CASE /\ release' = [release EXCEPT ![tag] = temp[tag]]
           /\ \A i \in Chunk : Fresh(temp[tag][i], tag)
  <2>1. \A i \in Chunk : temp[tag][i] # NoRows
    BY <1>2, FreshFacts DEF TypeOK
  <2>2. \A t \in Tag : release'[t] = IF t = tag THEN temp[tag] ELSE release[t]
    BY <1>2 DEF TypeOK
  <2>3. QED BY <2>1, <2>2 DEF ReleasedWhole
<1>3. QED BY <1>1, <1>2, ReleaseChanges

LEMMA ForwardStep ==
  ASSUME TypeOK, CopyInv, [Next]_vars,
         NEW t \in Tag, NEW i \in Chunk, NEW j \in Chunk, release'[t] # release[t]
  PROVE  release'[t][i] \in {CutOff} \cup release[t][j]..MaxVersion
<1>1. t = tag /\ release'[t] = temp[t] /\ Fresh(temp[t][i], t)
  BY ReleaseChanges DEF TypeOK
<1>2. QED BY <1>1, FreshFacts

(***************************************************************************)
(* The combined key.                                                       *)
(***************************************************************************)

\* A key that stays the same stays as stale as it was when nothing is released or
\* recorded, and an update past its RENAME stays there, or loses its DEL.
LEMMA KeyStays ==
  ASSUME StaleKeyGoes,
         tmpKey'.exists => tmpKey.exists /\ tmpKey'.lists = tmpKey.lists,
         recorded' \subseteq recorded,
         release' = release,
         lost => lost',
         step \in {"record", "del_tmp"} =>
           lost' \/ tag \notin recorded' \/ (step' = step /\ tag' = tag)
  PROVE  StaleKeyGoes'
BY DEF StaleKeyGoes

\* See KeyStays: the steps that begin or copy a list, and those of the others.
LEMMA QuietStep ==
  ASSUME StaleKeyGoes,
         \/ CheckAndUpdateUserInfo \/ DelTemp \/ Select \/ SetRange \/ CheckDiff
         \/ Exists \/ GetRange \/ GiveUp \/ TablesChange \/ NewDay \/ UNCHANGED vars
  PROVE  StaleKeyGoes'
<1> USE DEF mysql, update, producer
<1>1. UNCHANGED <<tmpKey, release, lost>> /\ recorded' \subseteq recorded
  BY DEF CheckAndUpdateUserInfo, DelTemp, Select, SetRange, CheckDiff,
     Exists, GetRange, GiveUp, TablesChange, NewDay, vars
<1>2. step \in {"record", "del_tmp"} => step' = step /\ tag' = tag
  BY DEF CheckAndUpdateUserInfo, DelTemp, Select, SetRange, CheckDiff,
     Exists, GetRange, GiveUp, TablesChange, NewDay, vars
<1>3. QED BY <1>1, <1>2, KeyStays

LEMMA StaleStep ==
  ASSUME TypeOK, StaleKeyGoes, [Next]_vars
  PROVE  StaleKeyGoes'
<1> USE DEF mysql, update, producer
<1>1. CASE \/ CheckAndUpdateUserInfo \/ DelTemp \/ Select \/ SetRange \/ CheckDiff
           \/ Exists \/ GetRange \/ GiveUp \/ TablesChange \/ NewDay \/ UNCHANGED vars
  BY <1>1, QuietStep
<1>2. CASE Rename
  <2>1. /\ \A t \in Tag : t # tag => release'[t] = release[t]
        /\ UNCHANGED <<tmpKey, recorded, lost, tag>>
        /\ step = "rename" /\ step' = "record"
    BY <1>2 DEF Rename, GoTo, TypeOK
  <2>2. QED BY <2>1 DEF StaleKeyGoes
<1>3. CASE WriteRecord
  <2>1. /\ UNCHANGED <<tmpKey, release, lost, tag>> /\ recorded' = recorded \cup {tag}
        /\ step = "record" /\ step' = "del_tmp"
    BY <1>3 DEF WriteRecord, GoTo
  <2>2. QED BY <2>1 DEF StaleKeyGoes
<1>4. CASE DelTmpKey
  <2>1. CASE tmpKey' = NoKey
    BY <2>1 DEF StaleKeyGoes, NoKey
  <2>2. CASE lost' = (lost \/ LosesDel) /\ UNCHANGED tmpKey
    <3>1. UNCHANGED <<recorded, release>> /\ step = "del_tmp"
      BY <1>4 DEF DelTmpKey
    <3>2. lost' = (lost \/ tag \in recorded')
      BY <2>2, <3>1 DEF LosesDel
    <3>3. QED BY <2>2, <3>1, <3>2, KeyStays
  <2>3. QED BY <1>4, <2>1, <2>2 DEF DelTmpKey
<1>5. CASE Crash
  <2>1. UNCHANGED <<tmpKey, recorded, release>> /\ lost' = (lost \/ LosesDel)
    BY <1>5 DEF Crash
  <2>2. step \in {"record", "del_tmp"} => lost' \/ tag \notin recorded'
    BY <2>1 DEF LosesDel
  <2>3. QED BY <2>1, <2>2, KeyStays
<1>6. CASE Stop
  <2>1. tmpKey' = tmpKey /\ step # "del_tmp" /\ lost' = (lost \/ LosesDel)
    BY <1>6 DEF Stop
  <2>2. CASE UNCHANGED <<release, recorded>>
    <3>1. step \in {"record", "del_tmp"} => lost' \/ tag \notin recorded'
      BY <2>1 DEF LosesDel
    <3>2. QED BY <2>1, <2>2, <3>1, KeyStays
  <2>3. CASE step = "rename" /\ release' = [release EXCEPT ![tag] = temp[tag]] /\ UNCHANGED recorded
    <3>1. \A t \in Tag : t # tag => release'[t] = release[t]
      BY <2>3 DEF TypeOK
    <3>2. release' = release \/ lost' \/ tag \notin recorded'
      BY <2>1 DEF LosesDel
    <3>3. QED BY <2>1, <2>2, <2>3, <3>1, <3>2 DEF StaleKeyGoes
  <2>4. CASE step = "record" /\ recorded' = recorded \cup {tag}
    <3>1. lost'
      BY <2>1, <2>4 DEF LosesDel
    <3>2. QED BY <3>1 DEF StaleKeyGoes
  <2>5. QED BY <1>6, <2>2, <2>3, <2>4 DEF Stop
<1>7. CASE BitOpAnd
  BY <1>7 DEF BitOpAnd, StaleKeyGoes, NoKey
<1>8. CASE SetExpiration
  <2>1. tmpKey'.exists = tmpKey.exists /\ tmpKey'.lists = tmpKey.lists
    BY <1>8 DEF SetExpiration, TypeOK, Key
  <2>2. UNCHANGED <<recorded, release, lost, step, tag>>
    BY <1>8 DEF SetExpiration
  <2>3. QED BY <2>1, <2>2, KeyStays
<1>9. CASE KeyExpires
  BY <1>9 DEF KeyExpires, StaleKeyGoes, NoKey
<1>10. QED BY <1>1, <1>2, <1>3, <1>4, <1>5, <1>6, <1>7, <1>8, <1>9 DEF Next

(***************************************************************************)
(* UserInfoUpdate implements UserLists.                                    *)
(***************************************************************************)

\* What a step does to the three things UserLists speaks of.
LEMMA ListsChange ==
  ASSUME TypeOK, [Next]_vars
  PROVE  \/ /\ step = "rename"
            /\ release' = [release EXCEPT ![tag] = temp[tag]]
            /\ UNCHANGED <<tables, tmpKey>>
         \/ tables' = tables + 1 /\ UNCHANGED <<release, tmpKey>>
         \/ /\ tmpKey'.lists \in {tmpKey.lists, release, NoKey.lists}
            /\ UNCHANGED <<tables, release>>
<1> USE DEF mysql, update, producer
<1>1. CASE \/ CheckAndUpdateUserInfo \/ DelTemp \/ Select \/ SetRange \/ CheckDiff
           \/ WriteRecord \/ Crash \/ Exists \/ GetRange \/ GiveUp \/ NewDay \/ UNCHANGED vars
  BY <1>1 DEF CheckAndUpdateUserInfo, DelTemp, Select, SetRange, CheckDiff, WriteRecord,
     Crash, Exists, GetRange, GiveUp, NewDay, vars
<1>2. CASE Rename \/ Stop
  BY <1>2 DEF Rename, Stop
<1>3. CASE TablesChange
  BY <1>3 DEF TablesChange
<1>4. CASE BitOpAnd \/ KeyExpires \/ DelTmpKey
  BY <1>4 DEF BitOpAnd, KeyExpires, DelTmpKey
<1>5. CASE SetExpiration
  <2>1. tmpKey'.lists = tmpKey.lists
    BY <1>5 DEF SetExpiration, TypeOK, Key
  <2>2. QED BY <1>5, <2>1 DEF SetExpiration
<1>6. QED BY <1>1, <1>2, <1>3, <1>4, <1>5 DEF Next

\* The key that does not exist was made of no lists.
LEMMA NoKeyLists == NoKey.lists = Lists!NoLists
BY DEF NoKey, NoList, Lists!NoLists, Lists!NoList

\* RENAME releases a list that UserLists may release.
LEMMA RenameReleases ==
  ASSUME TypeOK, CopyInv, step = "rename",
         release' = [release EXCEPT ![tag] = temp[tag]], UNCHANGED <<tables, tmpKey>>
  PROVE  Lists!Release(tag)
<1>1. tag \in Tag /\ temp[tag] \in [Chunk -> Rows]
  BY DEF TypeOK, List
<1>2. \A i \in Chunk : Fresh(temp[tag][i], tag)
  BY DEF CopyInv, Copied
<1>3. 0 \in Chunk
  BY Constants
<1>4. \A i \in Chunk : temp[tag][i] \in Lists!Fresh(tag)
  BY <1>2, <1>3 DEF Fresh, NotOlder, Lists!Fresh
<1>5. temp[tag] \in [Chunk -> Lists!Fresh(tag)]
  BY <1>1, <1>4
<1>6. QED BY <1>5 DEF Lists!Release

LEMMA ListsStep ==
  ASSUME TypeOK, CopyInv, [Next]_vars
  PROVE  [Lists!Next]_(Lists!vars)
<1>1. CASE /\ step = "rename"
           /\ release' = [release EXCEPT ![tag] = temp[tag]]
           /\ UNCHANGED <<tables, tmpKey>>
  <2>1. tag \in Tag
    BY DEF TypeOK
  <2>2. QED BY <1>1, <2>1, RenameReleases DEF Lists!Next
<1>2. CASE tables' = tables + 1 /\ UNCHANGED <<release, tmpKey>>
  BY <1>2 DEF Lists!Next, Lists!TablesChange
<1>3. CASE /\ tmpKey'.lists \in {tmpKey.lists, release, NoKey.lists}
           /\ UNCHANGED <<tables, release>>
  BY <1>3, NoKeyLists DEF Lists!Next, Lists!Combine, Lists!vars
<1>4. QED BY <1>1, <1>2, <1>3, ListsChange

LEMMA ListsInit == Init => Lists!Init
BY NoKeyLists DEF Init, Lists!Init, Lists!NoLists, Lists!NoList, NoList

(***************************************************************************)
(* The invariant, and the theorems.                                        *)
(***************************************************************************)

LEMMA InitInv == Init => Inv
<1> SUFFICES ASSUME Init PROVE Inv
  OBVIOUS
<1> USE DEF Init
<1>1. TypeOK
  <2>1. 0 \in Version /\ 0 \in 0..MaxDays /\ 0 \in 0..MaxFaults
    BY BoundAssumption DEF Version
  <2>2. temp \in [Tag -> List] /\ release \in [Tag -> List]
    BY Constants
  <2>3. QED BY <2>1, <2>2, Constants DEF TypeOK, Step
<1>2. CopyInv
  <2>1. \A t \in Tag, i \in Chunk : release[t][i] = NoRows
    BY DEF NoList
  <2>2. QED BY <2>1 DEF CopyInv, Copied, NoRows
<1>3. ReleasedWhole
  BY DEF ReleasedWhole
<1>4. StaleKeyGoes
  BY DEF StaleKeyGoes, NoKey
<1>5. QED BY <1>1, <1>2, <1>3, <1>4 DEF Inv

LEMMA NextInv == Inv /\ [Next]_vars => Inv'
BY TypeStep, CopyStep, WholeStep, StaleStep DEF Inv

\* Spec keeps the types of all variables (UserInfoUpdate!TypeOK).
THEOREM TypeCorrect == Spec => []TypeOK
<1>1. Inv => TypeOK
  BY DEF Inv
<1>2. QED BY InitInv, NextInv, <1>1, PTL DEF Spec

\* UpdateUserInfo releases a list only when each of its chunks was written, for
\* any number of chunks, wherever earlier attempts stopped or died.
THEOREM ReleasesWhole == Spec => []ReleasedWhole
<1>1. Inv => ReleasedWhole
  BY DEF Inv
<1>2. QED BY InitInv, NextInv, <1>1, PTL DEF Spec

\* RENAME never replaces a list by one with an older chunk, but for what was cut off.
THEOREM ReleasesForward == Spec => ReleaseMovesForward
<1>1. Inv /\ [Next]_vars =>
        [\A t \in Tag, i, j \in Chunk :
           release'[t] # release[t]
             => release'[t][i] \in {CutOff} \cup release[t][j]..MaxVersion]_vars
  BY ForwardStep DEF Inv
<1>2. QED BY InitInv, NextInv, <1>1, PTL DEF Spec, ReleaseMovesForward

\* A combined key built from a list that was replaced is about to be deleted, or
\* the list is not yet recorded as updated, unless an update of a recorded list
\* ended between its RENAME and its DEL.
THEOREM StaleKeysGo == Spec => []StaleKeyGoes
<1>1. Inv => StaleKeyGoes
  BY DEF Inv
<1>2. QED BY InitInv, NextInv, <1>1, PTL DEF Spec

\* The two processes keep the promise of UserLists to producers: lists appear
\* whole, each newer than the one it replaces, and are combined as they were
\* released together.
THEOREM ListsImplemented == Spec => ImplementsLists
<1>1. Inv => TypeOK /\ CopyInv
  BY DEF Inv
<1>2. QED
  BY InitInv, NextInv, <1>1, ListsInit, ListsStep, PTL DEF Spec, ImplementsLists, Lists!Spec
=============================================================================
