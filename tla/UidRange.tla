-------------------------------- MODULE UidRange --------------------------------
(***************************************************************************)
(* Which users a push reaches: the way of a uid from the rows of MySQL to  *)
(* a bit of the lists in Redis (src/userInfoUpdate), and back from a bit   *)
(* to the uid of a message (src/producer), for the chunks into which the   *)
(* daemon server cuts the range of the push (src/daemonServer).            *)
(*                                                                         *)
(* Nothing fails here, and nothing is sent again: the other modules are    *)
(* about that.  What is left is arithmetic, with the bits in their order.  *)
(***************************************************************************)
EXTENDS Integers

CONSTANTS
    Table,               \* the tables of MySQL, one for each list
    MySQL,               \* what the tables may hold: for each table, a set of uids
    Push,                \* ranges of a BeginPush request
    END_UID,
    COUNTS_PER_LOOP,     \* uids copied by one SETRANGE (10240 in the code)
    UID_COUNT_PER_TIME,  \* uids of a chunk (4096 in the code)
    Garbage              \* bytes that may lie behind a string in memory

BITS_PER_BYTE == 8
Byte == SUBSET (0..7)    \* a byte is the set of the exponents of its bits
NoBytes == [i \in {} |-> {}]

Range == [start : Nat, end : Nat]
ChunkRange(start, end) == [start |-> start, end |-> end]

ASSUME TableAssumption == Table # {} /\ MySQL \subseteq [Table -> SUBSET Nat]
ASSUME PushAssumption == Push \subseteq Range
ASSUME CountAssumption ==
    /\ END_UID \in Nat
    /\ COUNTS_PER_LOOP \in Nat \ {0} /\ COUNTS_PER_LOOP % 8 = 0
    /\ UID_COUNT_PER_TIME \in Nat \ {0} /\ UID_COUNT_PER_TIME % 8 = 0
ASSUME GarbageAssumption == Garbage \subseteq Byte

VARIABLES
    rows,     \* for each table, its uids
    list,     \* for each table, the string of bytes that is its list
    uid,      \* for each table, where the loop of UpdateUserInfo stands
    push,     \* the request of the push
    curUid,   \* where the loop of SelectProducerAndSend stands
    calls,    \* ProduceMsg calls that are under way
    sent      \* messages to users, each with the call that sent it

vars == <<rows, list, uid, push, curUid, calls, sent>>

Init ==
    /\ rows \in MySQL
    /\ list = [t \in Table |-> NoBytes]
    /\ uid = [t \in Table |-> 0]
    /\ push \in Push
    /\ curUid = push.start
    /\ calls = {}
    /\ sent = {}

(***************************************************************************)
(* UpdateUserInfo: from rows to bits.                                      *)
(***************************************************************************)

\* GenSQL: the rows of one round of the loop
Selected(t) == {row \in rows[t] : uid[t] <= row /\ row < uid[t] + COUNTS_PER_LOOP}

\* Mutant of BitOf: the bits of a byte are counted from the other end
BitFromBelow(offset) == offset % 8

\* 1 << (7 - offset % 8)
BitOf(offset) == 7 - (offset % 8)

\* The bitmap of the round
Bitmap(t) ==
    [i \in 0 .. (COUNTS_PER_LOOP \div 8) - 1 |->
        {BitOf(row - uid[t]) : row \in {r \in Selected(t) : (r - uid[t]) \div 8 = i}}]

\* SETRANGE: the string str with the string new written to it at position at
Written(str, at, new) ==
    [i \in DOMAIN str \cup {at + k : k \in DOMAIN new} |->
        IF i - at \in DOMAIN new THEN new[i - at] ELSE str[i]]

\* Mutant of SetRange: the loop takes one round too many
SetRangeOnceMore(t) ==
    /\ uid[t] <= END_UID + COUNTS_PER_LOOP
    /\ list' = [list EXCEPT ![t] = Written(list[t], uid[t] \div 8, Bitmap(t))]
    /\ uid' = [uid EXCEPT ![t] = uid[t] + COUNTS_PER_LOOP]
    /\ UNCHANGED <<rows, push, curUid, calls, sent>>

\* One round of the loop
SetRange(t) ==
    /\ uid[t] <= END_UID
    /\ list' = [list EXCEPT ![t] = Written(list[t], uid[t] \div 8, Bitmap(t))]
    /\ uid' = [uid EXCEPT ![t] = uid[t] + COUNTS_PER_LOOP]
    /\ UNCHANGED <<rows, push, curUid, calls, sent>>

\* The lists are complete, and released
Released == \A t \in Table : uid[t] > END_UID

\* Mutant of TmpUserInfo: BITOP OR
BitOpOr ==
    [i \in UNION {DOMAIN list[t] : t \in Table} |->
        {b \in 0..7 : \E t \in Table : i \in DOMAIN list[t] /\ b \in list[t][i]}]

\* BITOP AND of the lists; a shorter one is as if filled up with zeros
TmpUserInfo ==
    [i \in UNION {DOMAIN list[t] : t \in Table} |->
        {b \in 0..7 : \A t \in Table : i \in DOMAIN list[t] /\ b \in list[t][i]}]

(***************************************************************************)
(* SelectProducerAndSend: the chunks of the push.                          *)
(***************************************************************************)

\* Mutant of ChunkEnd: the first uid of the next chunk belongs to this one
ChunkEndInclusive ==
    IF curUid + UID_COUNT_PER_TIME > push.end THEN push.end ELSE curUid + UID_COUNT_PER_TIME

\* The end of the chunk that starts at curUid
ChunkEnd ==
    IF curUid + UID_COUNT_PER_TIME - 1 > push.end
      THEN push.end
      ELSE curUid + UID_COUNT_PER_TIME - 1

\* One round of the loop, once a producer is free
SelectProducerAndSend ==
    /\ Released
    /\ curUid <= push.end
    /\ calls' = calls \cup {ChunkRange(curUid, ChunkEnd)}
    /\ curUid' = curUid + UID_COUNT_PER_TIME
    /\ UNCHANGED <<rows, list, uid, push, sent>>

(***************************************************************************)
(* ProduceMsg: from bits to messages.                                      *)
(***************************************************************************)

\* The length of the string that is made of the answer to GETRANGE
Len(c) == (c.end \div 8) - (c.start \div 8) + 1

\* The string: what GETRANGE answers, and behind that what lies in memory
UserInfoStr(c, behind) ==
    [i \in 0 .. Len(c) - 1 |->
        IF c.start \div 8 + i \in DOMAIN TmpUserInfo
          THEN TmpUserInfo[c.start \div 8 + i]
          ELSE behind[i]]

\* The uids the bits of the string stand for
UidsToSend(c, str) ==
    {c.start + BITS_PER_BYTE * ij[1] + ij[2] :
        ij \in {x \in (0 .. Len(c) - 1) \X (0 .. BITS_PER_BYTE - 1) : 7 - x[2] \in str[x[1]]}}

Message(u, c) == [uid |-> u, call |-> c]

\* A producer handles a call, up to the messages
ProduceMsg(c) ==
    /\ c \in calls
    /\ \E behind \in [0 .. Len(c) - 1 -> Garbage] :
         sent' = sent \cup {Message(u, c) : u \in UidsToSend(c, UserInfoStr(c, behind))}
    /\ calls' = calls \ {c}
    /\ UNCHANGED <<rows, list, uid, push, curUid>>

Next ==
    \/ \E t \in Table : SetRange(t)
    \/ SelectProducerAndSend
    \/ \E c \in calls : ProduceMsg(c)

Spec == Init /\ [][Next]_vars

(***************************************************************************)
(* Safety.                                                                 *)
(***************************************************************************)

\* Every variable has a value of its type.
TypeOK ==
    /\ rows \in MySQL
    /\ DOMAIN list = Table
    /\ \A t \in Table : list[t] \in [0 .. (uid[t] \div 8) - 1 -> Byte]
    /\ uid \in [Table -> 0 .. END_UID + COUNTS_PER_LOOP]
    /\ push \in Push
    /\ curUid \in Nat
    /\ calls \subseteq Range
    /\ sent \subseteq [uid : Nat, call : Range]

\* The users, and the last uid that has its bit in the byte of u
Users == {u \in 0..END_UID : \A t \in Table : u \in rows[t]}
LastOfByte(u) == u + 7 - (u % 8)
Aligned == push.start % 8 = 0

\* The push is over
Over == Released /\ curUid > push.end /\ calls = {}

\* Of the uids of the lists a push that starts on a byte reaches those, and
\* only those, that are in every table and in its range, the rest of its last
\* byte included: the encoding, the conjunction of the lists, the cutting into
\* chunks and the decoding fit together, in whatever order the chunks are
\* handled.  What lies behind the lists in memory stands for other uids.
UsersReached ==
    Over /\ Aligned =>
      \A u \in 0..END_UID :
        (\E m \in sent : m.uid = u) <=>
          (u \in Users /\ push.start <= u /\ u <= LastOfByte(push.end))

\* No uid gets two messages of a push that starts on a byte: chunks that follow
\* each other have no byte in common.
ReachedOnce ==
    Aligned => \A m, n \in sent : m.uid = n.uid => m = n

\* Nobody else gets one, as long as the push starts on a byte and ends within
\* the lists: not for the bits that fill up its last byte either.
NoStrangers ==
    Aligned /\ push.end <= END_UID =>
      \A m \in sent : \A t \in Table : m.uid \in rows[t]

(***************************************************************************)
(* Disagreement.                                                           *)
(***************************************************************************)

\* "bits[offset] = 1, means that there exists a record uid = offset in MySQL"
\* (userInfoUpdate.cpp:81-82): who gets a message has a record in every table.
SentExist == \A m \in sent : \A t \in Table : m.uid \in rows[t]

=============================================================================
