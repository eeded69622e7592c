----------------------------- MODULE UidRangeProofs -----------------------------
(***************************************************************************)
(* UsersReached and ReachedOnce for every range, every content of the      *)
(* tables and every size of loops and chunks that UidRange allows.         *)
(*                                                                         *)
(* The argument: a list is, byte by byte, what the rows of its table say   *)
(* (ListInv).  Hence the uids a call decodes are the users in its bytes    *)
(* (Decoded, Encoded).  The calls of a push that starts on a byte have no  *)
(* byte in common, and what lies behind curUid has been sent or is in a    *)
(* call (CutInv).                                                          *)
(***************************************************************************)
EXTENDS UidRange, TLAPS

(***************************************************************************)
(* Arithmetic of bytes.                                                    *)
(***************************************************************************)

\* A number is made of its byte and its place in the byte.
LEMMA DivMod ==
  ASSUME NEW n \in Nat
  PROVE  /\ n \div 8 \in Nat
         /\ n % 8 \in 0..7
         /\ n = 8 * (n \div 8) + (n % 8)
  OBVIOUS

\* It is made of nothing else.
LEMMA DivModUnique ==
  ASSUME NEW a \in Nat, NEW b \in 0..7
  PROVE  (8 * a + b) \div 8 = a /\ (8 * a + b) % 8 = b
  OBVIOUS

\* Sums of whole bytes are whole bytes.
LEMMA WholeBytes ==
  ASSUME NEW m \in Nat, NEW n \in Nat, m % 8 = 0, n % 8 = 0
  PROVE  /\ (m + n) % 8 = 0
         /\ (m + n) \div 8 = (m \div 8) + (n \div 8)
  OBVIOUS

\* Order of bytes is order of numbers.
LEMMA ByteOrder ==
  ASSUME NEW m \in Nat, NEW n \in Nat
  PROVE  /\ n % 8 = 0 => ((m < n) <=> (m \div 8 < n \div 8))
         /\ m <= n => m \div 8 <= n \div 8
  OBVIOUS

\* LastOfByte(u) is the last number with the byte of u.
LEMMA LastOfByteFacts ==
  ASSUME NEW u \in Nat
  PROVE  /\ LastOfByte(u) \in Nat
         /\ LastOfByte(u) = 8 * (u \div 8) + 7
         /\ u <= LastOfByte(u)
         /\ (u + 1) % 8 = 0 => LastOfByte(u) = u
  BY DEF LastOfByte

\* A byte that begins before the start of another one ends before it.
LEMMA LastOfByteOrder ==
  ASSUME NEW e \in Nat, NEW m \in Nat
  PROVE  /\ e < m /\ m % 8 = 0 => LastOfByte(e) < m
         /\ e <= m => LastOfByte(e) <= LastOfByte(m)
<1>1. ASSUME e < m, m % 8 = 0
      PROVE  LastOfByte(e) < m
  BY <1>1 DEF LastOfByte
<1>2. ASSUME e <= m
      PROVE  LastOfByte(e) <= LastOfByte(m)
  <2>1. e \div 8 <= m \div 8 /\ e \div 8 \in Nat /\ m \div 8 \in Nat
    BY <1>2, ByteOrder, DivMod
  <2> QED BY <2>1, LastOfByteFacts
<1> QED BY <1>1, <1>2

(***************************************************************************)
(* The invariants.                                                         *)
(***************************************************************************)

\* The bits of byte i for a set of uids
BitsOf(S, i) == {7 - (r % 8) : r \in {x \in S : x \div 8 = i}}

\* A list has every bit of the bytes copied so far, and the copy stands at the
\* start of a byte.
ListInv ==
  /\ \A t \in Table : uid[t] % 8 = 0
  /\ \A t \in Table : \A i \in 0 .. (uid[t] \div 8) - 1 : list[t][i] = BitsOf(rows[t], i)

\* The uids call c stands for
Covers(c, u) == c.start <= u /\ u <= LastOfByte(c.end)

\* Nothing is dispatched before the lists are released.
StartInv == ~Released => curUid = push.start /\ calls = {} /\ sent = {}

\* A call of an aligned push: whole bytes between its start and curUid.
CallShape(c) ==
  /\ c.start % 8 = 0
  /\ push.start <= c.start /\ c.start <= c.end
  /\ c.end <= push.end
  /\ LastOfByte(c.end) < curUid

\* In every table
InTables(u) == \A t \in Table : u \in rows[t]

\* A message: behind curUid, within the range, and to somebody in the tables
MessageShape(m) ==
  /\ push.start <= m.uid /\ m.uid < curUid /\ m.uid <= LastOfByte(push.end)
  /\ m.uid <= LastOfByte(END_UID) => InTables(m.uid)

\* How an aligned push is cut: calls and messages do not meet, and no user
\* behind curUid is left out.
CutInv ==
  Aligned =>
    /\ curUid % 8 = 0
    /\ push.start <= curUid
    /\ \A c \in calls : CallShape(c)
    /\ \A m \in sent : MessageShape(m)
    /\ \A c, d \in calls : c # d => \A u \in Nat : ~(Covers(c, u) /\ Covers(d, u))
    /\ \A c \in calls : \A m \in sent : ~Covers(c, m.uid)
    /\ \A m, n \in sent : m.uid = n.uid => m = n
    /\ \A u \in Users :
         push.start <= u /\ u < curUid /\ u <= LastOfByte(push.end) =>
           (\E c \in calls : Covers(c, u)) \/ (\E m \in sent : m.uid = u)

IInv == TypeOK /\ ListInv /\ StartInv /\ CutInv

(***************************************************************************)
(* Types.                                                                  *)
(***************************************************************************)

\* The bitmap of a round is a string of bytes.
LEMMA BitmapType ==
  ASSUME TypeOK, ListInv, NEW t \in Table
  PROVE  Bitmap(t) \in [0 .. (COUNTS_PER_LOOP \div 8) - 1 -> Byte]
<1>1. rows[t] \subseteq Nat /\ uid[t] \in Nat
  BY TableAssumption, CountAssumption DEF TypeOK
<1>2. ASSUME NEW row \in Selected(t)
      PROVE  BitOf(row - uid[t]) \in 0..7
  <2>1. row - uid[t] \in Nat
    BY <1>1 DEF Selected
  <2> QED BY <2>1, DivMod DEF BitOf
<1> QED BY <1>2 DEF Bitmap, Byte

\* A list that is written one round on is longer by that round.
LEMMA WrittenIs ==
  ASSUME TypeOK, ListInv, NEW t \in Table
  PROVE  LET w == Written(list[t], uid[t] \div 8, Bitmap(t))
             n == uid[t] \div 8
         IN /\ w \in [0 .. ((uid[t] + COUNTS_PER_LOOP) \div 8) - 1 -> Byte]
            /\ \A i \in 0 .. n - 1 : w[i] = list[t][i]
            /\ \A i \in n .. ((uid[t] + COUNTS_PER_LOOP) \div 8) - 1 : w[i] = Bitmap(t)[i - n]
<1> DEFINE w == Written(list[t], uid[t] \div 8, Bitmap(t))
           n == uid[t] \div 8
           k == COUNTS_PER_LOOP \div 8
<1>1. uid[t] \in Nat /\ uid[t] % 8 = 0 /\ COUNTS_PER_LOOP \in Nat /\ COUNTS_PER_LOOP % 8 = 0
  BY CountAssumption DEF TypeOK, ListInv
<1>2. n \in Nat /\ k \in Nat /\ (uid[t] + COUNTS_PER_LOOP) \div 8 = n + k
  BY <1>1, WholeBytes, DivMod
<1>3. list[t] \in [0 .. n - 1 -> Byte]
  BY DEF TypeOK
<1>4. Bitmap(t) \in [0 .. k - 1 -> Byte]
  BY BitmapType
<1> HIDE DEF n, k
<1>5. {n + i : i \in DOMAIN Bitmap(t)} = n .. n + k - 1
  <2>1. ASSUME NEW x \in n .. n + k - 1
        PROVE  x \in {n + i : i \in DOMAIN Bitmap(t)}
    <3>1. x - n \in DOMAIN Bitmap(t) /\ x = n + (x - n)
      BY <1>2, <1>4
    <3> QED BY <3>1
  <2> QED BY <1>2, <1>4, <2>1
<1>6. DOMAIN list[t] \cup {n + i : i \in DOMAIN Bitmap(t)} = 0 .. n + k - 1
  BY <1>2, <1>3, <1>5
<1>7. w = [i \in 0 .. n + k - 1 |->
             IF i - n \in DOMAIN Bitmap(t) THEN Bitmap(t)[i - n] ELSE list[t][i]]
  BY <1>6 DEF Written, n
<1> HIDE DEF w
<1>8. \A i \in 0 .. n - 1 : i \in 0 .. n + k - 1 /\ i - n \notin DOMAIN Bitmap(t)
  BY <1>2, <1>4
<1>9. \A i \in n .. n + k - 1 : i \in 0 .. n + k - 1 /\ i - n \in DOMAIN Bitmap(t)
  BY <1>2, <1>4
<1>10. \A i \in 0 .. n - 1 : w[i] = list[t][i]
  BY <1>7, <1>8
<1>11. \A i \in n .. n + k - 1 : w[i] = Bitmap(t)[i - n]
  BY <1>7, <1>9
<1>12. \A i \in 0 .. n + k - 1 : w[i] \in Byte
  <2> SUFFICES ASSUME NEW i \in 0 .. n + k - 1
               PROVE  w[i] \in Byte
    OBVIOUS
  <2>1. CASE i \in 0 .. n - 1
    BY <1>3, <1>10, <2>1
  <2>2. CASE i \in n .. n + k - 1
    BY <1>4, <1>9, <1>11, <2>2
  <2> QED BY <1>2, <2>1, <2>2
<1>13. w \in [0 .. n + k - 1 -> Byte]
  BY <1>7, <1>12
<1> QED BY <1>2, <1>10, <1>11, <1>13 DEF w, n


\* The uids a call decodes are natural numbers.
LEMMA UidsType ==
  ASSUME NEW c \in Range, NEW str
  PROVE  UidsToSend(c, str) \subseteq Nat
<1>1. \A i \in 0 .. Len(c) - 1 : i \in Nat
  BY DivMod DEF Len, Range
<1> QED BY <1>1 DEF UidsToSend, BITS_PER_BYTE, Range

\* The end of a chunk that is dispatched
LEMMA ChunkEndFacts ==
  ASSUME TypeOK, curUid <= push.end
  PROVE  /\ ChunkRange(curUid, ChunkEnd) \in Range
         /\ curUid <= ChunkEnd /\ ChunkEnd <= push.end
         /\ ChunkEnd < curUid + UID_COUNT_PER_TIME
         /\ ChunkEnd = push.end \/ ChunkEnd + 1 = curUid + UID_COUNT_PER_TIME
<1>1. push.end \in Nat /\ curUid \in Nat /\ UID_COUNT_PER_TIME \in Nat \ {0}
  BY PushAssumption, CountAssumption DEF TypeOK, Range
<1> QED BY <1>1 DEF ChunkEnd, ChunkRange, Range

\* Initially the variables have their types.
LEMMA InitType == Init => TypeOK
<1> SUFFICES ASSUME Init
             PROVE  TypeOK
  OBVIOUS
<1>1. \A t \in Table : list[t] \in [0 .. (uid[t] \div 8) - 1 -> Byte]
  <2> SUFFICES ASSUME NEW t \in Table
               PROVE  list[t] \in [0 .. (uid[t] \div 8) - 1 -> Byte]
    OBVIOUS
  <2>1. uid[t] \div 8 = 0 /\ 0 .. (0 - 1) = {}
    BY DEF Init
  <2>2. list[t] = NoBytes
    BY DEF Init
  <2> QED BY <2>1, <2>2 DEF NoBytes
<1>2. push.start \in Nat
  BY PushAssumption DEF Init, Range
<1> QED BY <1>1, <1>2, CountAssumption DEF Init, TypeOK

\* Every step preserves the types.
LEMMA NextType == TypeOK /\ ListInv /\ [Next]_vars => TypeOK'
<1> SUFFICES ASSUME TypeOK, ListInv, [Next]_vars
             PROVE  TypeOK'
  OBVIOUS
<1>1. ASSUME NEW t \in Table, SetRange(t)
      PROVE  TypeOK'
  <2> DEFINE w == Written(list[t], uid[t] \div 8, Bitmap(t))
  <2>1. uid[t] \in 0..END_UID /\ COUNTS_PER_LOOP \in Nat /\ END_UID \in Nat
    BY <1>1, CountAssumption DEF TypeOK, SetRange
  <2>2. uid' \in [Table -> 0 .. END_UID + COUNTS_PER_LOOP]
    BY <1>1, <2>1 DEF TypeOK, SetRange
  <2>3. w \in [0 .. ((uid[t] + COUNTS_PER_LOOP) \div 8) - 1 -> Byte]
    BY WrittenIs
  <2>4. DOMAIN list' = Table /\ list'[t] = w /\ uid'[t] = uid[t] + COUNTS_PER_LOOP
    BY <1>1 DEF TypeOK, SetRange
  <2>5. \A s \in Table : s # t => list'[s] = list[s] /\ uid'[s] = uid[s]
    BY <1>1 DEF TypeOK, SetRange
  <2> HIDE DEF w
  <2>6. \A s \in Table : list'[s] \in [0 .. (uid'[s] \div 8) - 1 -> Byte]
    BY <2>3, <2>4, <2>5 DEF TypeOK
  <2> QED BY <1>1, <2>2, <2>4, <2>6 DEF TypeOK, SetRange
<1>2. CASE SelectProducerAndSend
  <2>1. ChunkRange(curUid, ChunkEnd) \in Range
    BY <1>2, ChunkEndFacts DEF SelectProducerAndSend
  <2>2. curUid + UID_COUNT_PER_TIME \in Nat
    BY CountAssumption DEF TypeOK
  <2> QED BY <1>2, <2>1, <2>2 DEF SelectProducerAndSend, TypeOK
<1>3. ASSUME NEW c \in calls, ProduceMsg(c)
      PROVE  TypeOK'
  <2>1. c \in Range
    BY DEF TypeOK
  <2>2. sent' \subseteq [uid : Nat, call : Range]
    BY <1>3, <2>1, UidsType DEF ProduceMsg, Message, TypeOK
  <2>3. calls' \subseteq Range
    BY <1>3 DEF ProduceMsg, TypeOK
  <2> QED BY <1>3, <2>2, <2>3 DEF ProduceMsg, TypeOK
<1>4. CASE UNCHANGED vars
  BY <1>4 DEF vars, TypeOK
<1> QED BY <1>1, <1>2, <1>3, <1>4 DEF Next

(***************************************************************************)
(* The lists.                                                              *)
(***************************************************************************)

\* A round of the loop writes the bits its bytes should have.
LEMMA BitmapIs ==
  ASSUME TypeOK, ListInv, NEW t \in Table, NEW i \in 0 .. (COUNTS_PER_LOOP \div 8) - 1
  PROVE  Bitmap(t)[i] = BitsOf(rows[t], (uid[t] \div 8) + i)
<1> DEFINE n == uid[t] \div 8
<1>1. rows[t] \subseteq Nat /\ uid[t] \in Nat /\ uid[t] % 8 = 0
  BY TableAssumption, CountAssumption DEF TypeOK, ListInv
<1>2. COUNTS_PER_LOOP \in Nat /\ COUNTS_PER_LOOP % 8 = 0
  BY CountAssumption
<1>3. n \in Nat /\ uid[t] = 8 * n
  BY <1>1, DivMod
<1>4. i \in Nat /\ 8 * i + 7 < COUNTS_PER_LOOP
  BY <1>2, DivMod
<1>5. \A r \in Nat : uid[t] <= r =>
        (((r - uid[t]) \div 8 = i <=> r \div 8 = n + i) /\ BitOf(r - uid[t]) = 7 - (r % 8))
  BY <1>3, <1>4 DEF BitOf
<1>6. \A r \in Nat : r \div 8 = n + i => uid[t] <= r /\ r < uid[t] + COUNTS_PER_LOOP
  BY <1>2, <1>3, <1>4
<1>7. {r \in Selected(t) : (r - uid[t]) \div 8 = i} = {x \in rows[t] : x \div 8 = n + i}
  BY <1>1, <1>5, <1>6 DEF Selected
<1>8. \A r \in {r \in Selected(t) : (r - uid[t]) \div 8 = i} : BitOf(r - uid[t]) = 7 - (r % 8)
  BY <1>1, <1>5 DEF Selected
<1>9. Bitmap(t)[i] =
        {BitOf(r - uid[t]) : r \in {r \in Selected(t) : (r - uid[t]) \div 8 = i}}
  BY DEF Bitmap
<1> QED BY <1>7, <1>8, <1>9 DEF BitsOf

\* Initially and after every step the lists are what the tables say.
LEMMA InitList == Init => ListInv
BY DEF Init, ListInv

LEMMA NextList == TypeOK /\ ListInv /\ [Next]_vars => ListInv'
<1> SUFFICES ASSUME TypeOK, ListInv, [Next]_vars
             PROVE  ListInv'
  OBVIOUS
<1>1. ASSUME NEW t \in Table, SetRange(t)
      PROVE  ListInv'
  <2> DEFINE w == Written(list[t], uid[t] \div 8, Bitmap(t))
             n == uid[t] \div 8
             k == COUNTS_PER_LOOP \div 8
  <2>1. uid[t] \in Nat /\ uid[t] % 8 = 0 /\ COUNTS_PER_LOOP \in Nat /\ COUNTS_PER_LOOP % 8 = 0
    BY CountAssumption DEF TypeOK, ListInv
  <2>2. /\ n \in Nat /\ k \in Nat
        /\ (uid[t] + COUNTS_PER_LOOP) \div 8 = n + k
        /\ (uid[t] + COUNTS_PER_LOOP) % 8 = 0
    BY <2>1, WholeBytes, DivMod
  <2>3. list'[t] = w /\ uid'[t] = uid[t] + COUNTS_PER_LOOP /\ rows' = rows
    BY <1>1 DEF TypeOK, SetRange
  <2>4. \A s \in Table : s # t => list'[s] = list[s] /\ uid'[s] = uid[s]
    BY <1>1 DEF TypeOK, SetRange
  <2>5. /\ \A i \in 0 .. n - 1 : w[i] = list[t][i]
        /\ \A i \in n .. n + k - 1 : w[i] = Bitmap(t)[i - n]
    BY <2>2, WrittenIs
  <2> HIDE DEF w
  <2>6. \A i \in 0 .. n - 1 : w[i] = BitsOf(rows[t], i)
    BY <2>5 DEF ListInv
  <2>7. \A i \in n .. n + k - 1 : w[i] = BitsOf(rows[t], i)
    <3> SUFFICES ASSUME NEW i \in n .. n + k - 1
                 PROVE  w[i] = BitsOf(rows[t], i)
      OBVIOUS
    <3>1. i - n \in 0 .. k - 1 /\ n + (i - n) = i
      BY <2>2
    <3>2. Bitmap(t)[i - n] = BitsOf(rows[t], n + (i - n))
      BY <3>1, BitmapIs
    <3> QED BY <2>5, <3>1, <3>2
  <2> HIDE DEF n, k
  <2>8. \A i \in 0 .. n + k - 1 : w[i] = BitsOf(rows[t], i)
    <3> SUFFICES ASSUME NEW i \in 0 .. n + k - 1
                 PROVE  w[i] = BitsOf(rows[t], i)
      OBVIOUS
    <3>1. i \in 0 .. n - 1 \/ i \in n .. n + k - 1
      BY <2>2
    <3> QED BY <2>6, <2>7, <3>1
  <2> QED BY <2>2, <2>3, <2>4, <2>8 DEF ListInv
<1>2. CASE SelectProducerAndSend
  BY <1>2 DEF SelectProducerAndSend, ListInv
<1>3. ASSUME NEW c \in calls, ProduceMsg(c)
      PROVE  ListInv'
  BY <1>3 DEF ProduceMsg, ListInv
<1>4. CASE UNCHANGED vars
  BY <1>4 DEF vars, ListInv
<1> QED BY <1>1, <1>2, <1>3, <1>4 DEF Next

\* The push waits for the lists.
LEMMA InitStart == Init => StartInv
BY DEF Init, StartInv

LEMMA NextStart == TypeOK /\ StartInv /\ [Next]_vars => StartInv'
<1> SUFFICES ASSUME TypeOK, StartInv, [Next]_vars
             PROVE  StartInv'
  OBVIOUS
<1>1. ASSUME NEW t \in Table, SetRange(t)
      PROVE  StartInv'
  <2>1. ~Released
    BY <1>1, CountAssumption DEF SetRange, Released, TypeOK
  <2> QED BY <1>1, <2>1 DEF SetRange, StartInv
<1>2. CASE SelectProducerAndSend
  BY <1>2 DEF SelectProducerAndSend, StartInv, Released
<1>3. ASSUME NEW c \in calls, ProduceMsg(c)
      PROVE  StartInv'
  BY <1>3 DEF ProduceMsg, StartInv, Released
<1>4. CASE UNCHANGED vars
  BY <1>4 DEF vars, StartInv, Released
<1> QED BY <1>1, <1>2, <1>3, <1>4 DEF Next


(***************************************************************************)
(* Decoding.                                                               *)
(***************************************************************************)

\* The bit of u in its byte is set for the sets that have u.
LEMMA BitMeans ==
  ASSUME NEW u \in Nat, NEW S \in SUBSET Nat
  PROVE  7 - (u % 8) \in BitsOf(S, u \div 8) <=> u \in S
<1>1. ASSUME 7 - (u % 8) \in BitsOf(S, u \div 8)
      PROVE  u \in S
  <2>1. PICK r \in S : r \div 8 = u \div 8 /\ 7 - (r % 8) = 7 - (u % 8)
    BY <1>1 DEF BitsOf
  <2>2. r = u
    BY <2>1, DivMod
  <2> QED BY <2>2
<1>2. ASSUME u \in S
      PROVE  7 - (u % 8) \in BitsOf(S, u \div 8)
  BY <1>2 DEF BitsOf
<1> QED BY <1>1, <1>2

\* In the lists that are released, the bit of a uid says whether it is in every
\* table, up to the end of the byte of END_UID.
LEMMA TmpUserInfoMeans ==
  ASSUME TypeOK, ListInv, Released, NEW u \in 0..LastOfByte(END_UID)
  PROVE  /\ u \div 8 \in DOMAIN TmpUserInfo
         /\ 7 - (u % 8) \in TmpUserInfo[u \div 8] <=> InTables(u)
<1> DEFINE i == u \div 8
           b == 7 - (u % 8)
<1>1. u \in Nat /\ i \in Nat /\ b \in 0..7
  <2>1. u \in Nat
    BY CountAssumption, LastOfByteFacts
  <2> QED BY <2>1, DivMod
<1>2. ASSUME NEW t \in Table
      PROVE  i \in DOMAIN list[t] /\ (b \in list[t][i] <=> u \in rows[t])
  <2>1. uid[t] \in Nat /\ uid[t] % 8 = 0 /\ u < uid[t]
    <3>1. uid[t] \in Nat /\ uid[t] % 8 = 0 /\ END_UID \in Nat /\ END_UID < uid[t]
      BY CountAssumption DEF TypeOK, ListInv, Released
    <3>2. LastOfByte(END_UID) < uid[t] /\ LastOfByte(END_UID) \in Nat
      BY <3>1, LastOfByteOrder, LastOfByteFacts
    <3> QED BY <3>1, <3>2
  <2>2. i < uid[t] \div 8 /\ uid[t] \div 8 \in Nat
    BY <1>1, <2>1, ByteOrder, DivMod
  <2>3. DOMAIN list[t] = 0 .. (uid[t] \div 8) - 1
    BY DEF TypeOK
  <2>4. i \in 0 .. (uid[t] \div 8) - 1
    BY <1>1, <2>2
  <2>5. list[t][i] = BitsOf(rows[t], i)
    BY <2>4 DEF ListInv
  <2>6. rows[t] \in SUBSET Nat
    BY TableAssumption DEF TypeOK
  <2>7. b \in BitsOf(rows[t], i) <=> u \in rows[t]
    BY <1>1, <2>6, BitMeans
  <2> QED BY <2>3, <2>4, <2>5, <2>7
<1>3. i \in DOMAIN TmpUserInfo
  BY <1>2, TableAssumption DEF TmpUserInfo
<1> HIDE DEF i, b
<1>4. TmpUserInfo[i] = {x \in 0..7 : \A t \in Table : i \in DOMAIN list[t] /\ x \in list[t][i]}
  BY <1>3 DEF TmpUserInfo
<1>5. b \in TmpUserInfo[i] <=> InTables(u)
  BY <1>1, <1>2, <1>4 DEF InTables
<1> QED BY <1>3, <1>5 DEF i, b

\* What a call that starts on a byte decodes: uids of its bytes, which are in
\* the tables as far as the lists go.
LEMMA Decoded ==
  ASSUME TypeOK, ListInv, Released,
         NEW c \in Range, c.start % 8 = 0, c.start <= c.end,
         NEW behind, NEW u \in UidsToSend(c, UserInfoStr(c, behind))
  PROVE  u \in Nat /\ Covers(c, u) /\ (u <= LastOfByte(END_UID) => InTables(u))
<1> DEFINE str == UserInfoStr(c, behind)
           s == c.start \div 8
<1>1. c.start \in Nat /\ c.end \in Nat /\ s \in Nat /\ c.start = 8 * s
  BY DivMod DEF Range
<1>2. PICK i \in 0 .. Len(c) - 1, j \in 0..7 : u = c.start + 8 * i + j /\ 7 - j \in str[i]
  BY DEF UidsToSend, BITS_PER_BYTE
<1>3. i \in Nat /\ i <= (c.end \div 8) - s
  BY <1>1, <1>2, DivMod DEF Len
<1>4. u = 8 * (s + i) + j /\ u \in Nat
  BY <1>1, <1>2, <1>3
<1>5. u \div 8 = s + i /\ u % 8 = j
  BY <1>1, <1>3, <1>4, DivModUnique
<1>6. Covers(c, u)
  <2>1. LastOfByte(c.end) = 8 * (c.end \div 8) + 7 /\ c.end \div 8 \in Nat
    BY <1>1, LastOfByteFacts, DivMod
  <2> QED BY <1>1, <1>2, <1>3, <1>4, <2>1 DEF Covers
<1>7. ASSUME u <= LastOfByte(END_UID)
      PROVE  InTables(u)
  <2>1. u \in 0..LastOfByte(END_UID)
    BY <1>4, <1>7, CountAssumption, LastOfByteFacts
  <2>2. str[i] = TmpUserInfo[s + i]
    BY <1>2, <1>5, <2>1, TmpUserInfoMeans DEF UserInfoStr
  <2> QED BY <1>2, <1>5, <2>1, <2>2, TmpUserInfoMeans
<1> QED BY <1>4, <1>6, <1>7

\* It decodes every user in its bytes.
LEMMA Encoded ==
  ASSUME TypeOK, ListInv, Released,
         NEW c \in Range, c.start % 8 = 0, c.start <= c.end,
         NEW behind, NEW u \in Users, Covers(c, u)
  PROVE  u \in UidsToSend(c, UserInfoStr(c, behind))
<1> DEFINE str == UserInfoStr(c, behind)
           s == c.start \div 8
           i == (u \div 8) - s
           j == u % 8
<1>1. c.start \in Nat /\ c.end \in Nat /\ s \in Nat /\ c.start = 8 * s
  BY DivMod DEF Range
<1>2. u \in 0..LastOfByte(END_UID) /\ u \in Nat /\ InTables(u)
  <2>1. u \in 0..END_UID /\ InTables(u)
    BY DEF Users, InTables
  <2> QED BY <2>1, CountAssumption, LastOfByteFacts
<1>3. /\ u \div 8 \in Nat /\ j \in 0..7
      /\ u = 8 * (u \div 8) + j
  BY <1>2, DivMod
<1>4. c.end \div 8 \in Nat /\ LastOfByte(c.end) = 8 * (c.end \div 8) + 7
  BY <1>1, LastOfByteFacts, DivMod
<1>5. s <= u \div 8 /\ u \div 8 <= c.end \div 8
  <2>1. \A q, e, p \in Nat : \A x \in 0..7 :
          8 * p <= 8 * q + x /\ 8 * q + x <= 8 * e + 7 => p <= q /\ q <= e
    OBVIOUS
  <2>2. 8 * s <= 8 * (u \div 8) + j /\ 8 * (u \div 8) + j <= 8 * (c.end \div 8) + 7
    BY <1>1, <1>3, <1>4 DEF Covers
  <2> QED BY <1>1, <1>3, <1>4, <2>1, <2>2
<1>6. i \in 0 .. Len(c) - 1 /\ s + i = u \div 8
  <2>1. \A q, e, p \in Nat : p <= q /\ q <= e => q - p \in 0 .. (e - p + 1) - 1 /\ p + (q - p) = q
    OBVIOUS
  <2> QED BY <1>1, <1>3, <1>4, <1>5, <2>1 DEF Len
<1>7. str[i] = TmpUserInfo[u \div 8]
  BY <1>2, <1>6, TmpUserInfoMeans DEF UserInfoStr
<1>8. 7 - j \in str[i]
  BY <1>2, <1>7, TmpUserInfoMeans
<1>9. u = c.start + 8 * i + j
  BY <1>1, <1>3, <1>6
<1> HIDE DEF i, j, str
<1>10. <<i, j>> \in {x \in (0 .. Len(c) - 1) \X (0 .. 7) : 7 - x[2] \in str[x[1]]}
  BY <1>3, <1>6, <1>8
<1> QED BY <1>9, <1>10 DEF UidsToSend, BITS_PER_BYTE, str


(***************************************************************************)
(* The cutting.                                                            *)
(***************************************************************************)

LEMMA InitCut == Init => CutInv
<1> SUFFICES ASSUME Init, Aligned
             PROVE  CutInv
  BY DEF CutInv
<1>1. push.start \in Nat
  BY PushAssumption DEF Init, Range
<1>2. \A u \in Users : ~(push.start <= u /\ u < curUid)
  BY <1>1, CountAssumption DEF Init, Users
<1> QED BY <1>1, <1>2 DEF Init, CutInv, Aligned

LEMMA DispatchCut ==
  ASSUME TypeOK, CutInv, SelectProducerAndSend
  PROVE  CutInv'
<1> SUFFICES ASSUME Aligned
             PROVE  CutInv'
  BY DEF CutInv, Aligned, SelectProducerAndSend
<1> DEFINE c == ChunkRange(curUid, ChunkEnd)
           next == curUid + UID_COUNT_PER_TIME
<1>1. /\ push' = push /\ rows' = rows /\ sent' = sent
      /\ calls' = calls \cup {c} /\ curUid' = next
  BY DEF SelectProducerAndSend
<1>2. /\ push.start \in Nat /\ push.end \in Nat /\ curUid \in Nat /\ next \in Nat
      /\ curUid < next
  BY PushAssumption, CountAssumption DEF TypeOK, Range
<1>3. curUid % 8 = 0 /\ next % 8 = 0
  BY CountAssumption, WholeBytes DEF CutInv, TypeOK
<1>4. c.start = curUid /\ c.end = ChunkEnd
  BY DEF ChunkRange
<1>5. /\ c \in Range
      /\ curUid <= c.end /\ c.end <= push.end /\ c.end < next
      /\ c.end = push.end \/ c.end + 1 = next
  BY <1>4, ChunkEndFacts DEF SelectProducerAndSend
<1> HIDE DEF c, next
<1>6. c.end \in Nat
  BY <1>5 DEF Range
<1>7. LastOfByte(c.end) < next /\ c.end <= LastOfByte(c.end) /\ LastOfByte(c.end) \in Nat
  BY <1>2, <1>3, <1>5, <1>6, LastOfByteOrder, LastOfByteFacts
<1>8. \A d \in calls : CallShape(d) /\ LastOfByte(d.end) \in Nat
  <2> SUFFICES ASSUME NEW d \in calls
               PROVE  CallShape(d) /\ LastOfByte(d.end) \in Nat
    OBVIOUS
  <2>1. d.end \in Nat
    BY DEF TypeOK, Range
  <2> QED BY <2>1, LastOfByteFacts DEF CutInv
<1>9. \A d \in calls' : CallShape(d)'
  BY <1>1, <1>2, <1>3, <1>4, <1>5, <1>7, <1>8 DEF CallShape, LastOfByte, CutInv
<1>10. \A m \in sent : MessageShape(m) /\ m.uid \in Nat
  BY DEF CutInv, TypeOK
<1>11. \A m \in sent' : MessageShape(m)'
  BY <1>1, <1>2, <1>10 DEF MessageShape, LastOfByte, InTables
<1>12. \A d \in calls : \A u \in Nat : ~(Covers(c, u) /\ Covers(d, u))
  BY <1>2, <1>4, <1>8 DEF Covers, CallShape
<1>13. \A a, b \in calls' : a # b => \A u \in Nat : ~(Covers(a, u) /\ Covers(b, u))
  BY <1>1, <1>12 DEF CutInv
<1>14. \A d \in calls' : \A m \in sent' : ~Covers(d, m.uid)
  BY <1>1, <1>2, <1>4, <1>10 DEF CutInv, Covers, MessageShape
<1>15. \A u \in Users : push.start <= u /\ u < next /\ u <= LastOfByte(push.end) =>
          (\E d \in calls' : Covers(d, u)) \/ (\E m \in sent : m.uid = u)
  <2> SUFFICES ASSUME NEW u \in Users, push.start <= u, u < next, u <= LastOfByte(push.end)
               PROVE  (\E d \in calls' : Covers(d, u)) \/ (\E m \in sent : m.uid = u)
    OBVIOUS
  <2>1. u \in Nat
    BY CountAssumption DEF Users
  <2>2. CASE u < curUid
    BY <1>1, <2>2 DEF CutInv
  <2>3. CASE curUid <= u
    <3>1. u <= LastOfByte(c.end)
      BY <1>2, <1>5, <1>6, <1>7, <2>1
    <3> QED BY <1>1, <1>4, <2>3, <3>1 DEF Covers
  <2> QED BY <1>2, <2>1, <2>2, <2>3
<1>16. Users' = Users
  BY <1>1 DEF Users
<1>17. \A u \in Users' : push'.start <= u /\ u < curUid' /\ u <= LastOfByte(push'.end) =>
          (\E d \in calls' : Covers(d, u)) \/ (\E m \in sent' : m.uid = u)
  BY <1>1, <1>15, <1>16
<1>18. curUid' % 8 = 0 /\ push'.start <= curUid'
  BY <1>1, <1>2, <1>3 DEF CutInv
<1>19. \A m, n \in sent' : m.uid = n.uid => m = n
  BY <1>1 DEF CutInv
<1> QED BY <1>9, <1>11, <1>13, <1>14, <1>17, <1>18, <1>19 DEF CutInv, Covers, LastOfByte

LEMMA ProduceCut ==
  ASSUME TypeOK, ListInv, StartInv, CutInv, NEW c \in calls, ProduceMsg(c)
  PROVE  CutInv'
<1> SUFFICES ASSUME Aligned
             PROVE  CutInv'
  BY DEF CutInv, Aligned, ProduceMsg
<1>1. PICK behind : sent' = sent \cup
                      {Message(u, c) : u \in UidsToSend(c, UserInfoStr(c, behind))}
  BY DEF ProduceMsg
<1> DEFINE uids == UidsToSend(c, UserInfoStr(c, behind))
<1>2. /\ push' = push /\ rows' = rows /\ curUid' = curUid /\ calls' = calls \ {c}
      /\ sent' = sent \cup {Message(u, c) : u \in uids}
  BY <1>1 DEF ProduceMsg
<1>3. CallShape(c) /\ Released /\ c \in Range
  BY DEF CutInv, StartInv, TypeOK
<1>4. \A u \in uids : u \in Nat /\ Covers(c, u) /\ (u <= LastOfByte(END_UID) => InTables(u))
  BY <1>3, Decoded DEF CallShape
<1>5. \A u \in Users : Covers(c, u) => u \in uids
  BY <1>3, Encoded DEF CallShape
<1> HIDE DEF uids
<1>6. \A m \in sent' : m \in sent \/ \E u \in uids : m = Message(u, c) /\ m.uid = u
  BY <1>2 DEF Message
<1>7. \A m \in sent' : m.uid \in Nat
  BY <1>4, <1>6 DEF TypeOK
<1>8. /\ push.start \in Nat /\ push.end \in Nat /\ curUid \in Nat
      /\ c.start \in Nat /\ c.end \in Nat
      /\ LastOfByte(c.end) \in Nat /\ LastOfByte(push.end) \in Nat
      /\ LastOfByte(c.end) <= LastOfByte(push.end)
  <2>1. /\ push.start \in Nat /\ push.end \in Nat /\ curUid \in Nat
        /\ c.start \in Nat /\ c.end \in Nat
    BY <1>3, PushAssumption DEF TypeOK, Range
  <2> QED BY <1>3, <2>1, LastOfByteFacts, LastOfByteOrder DEF CallShape
<1>9. \A u \in uids : push.start <= u /\ u < curUid /\ u <= LastOfByte(push.end)
  BY <1>3, <1>4, <1>8 DEF Covers, CallShape
<1>10. \A m \in sent' : MessageShape(m)
  BY <1>4, <1>6, <1>9 DEF MessageShape, CutInv
<1>11. \A m \in sent' : MessageShape(m)'
  BY <1>2, <1>10 DEF MessageShape, LastOfByte, InTables
<1>12. \A d \in calls' : CallShape(d)'
  BY <1>2 DEF CutInv, CallShape, LastOfByte
<1>13. \A d \in calls' : \A m \in sent' : ~Covers(d, m.uid)
  BY <1>2, <1>4, <1>6 DEF CutInv
<1>14. \A m, n \in sent' : m.uid = n.uid => m = n
  BY <1>4, <1>6 DEF CutInv
<1>15. \A u \in Users : push.start <= u /\ u < curUid /\ u <= LastOfByte(push.end) =>
          (\E d \in calls' : Covers(d, u)) \/ (\E m \in sent' : m.uid = u)
  <2> SUFFICES ASSUME NEW u \in Users, push.start <= u, u < curUid, u <= LastOfByte(push.end)
               PROVE  (\E d \in calls' : Covers(d, u)) \/ (\E m \in sent' : m.uid = u)
    OBVIOUS
  <2>1. (\E d \in calls : Covers(d, u)) \/ (\E m \in sent : m.uid = u)
    BY DEF CutInv
  <2>2. CASE Covers(c, u)
    <3>1. Message(u, c) \in sent' /\ Message(u, c).uid = u
      BY <1>2, <1>5, <2>2 DEF Message
    <3> QED BY <3>1
  <2>3. CASE ~Covers(c, u)
    BY <1>2, <2>1, <2>3
  <2> QED BY <2>2, <2>3
<1>16. Users' = Users
  BY <1>2 DEF Users
<1>17. \A u \in Users' : push'.start <= u /\ u < curUid' /\ u <= LastOfByte(push'.end) =>
          (\E d \in calls' : Covers(d, u)) \/ (\E m \in sent' : m.uid = u)
  BY <1>2, <1>15, <1>16
<1>18. curUid' % 8 = 0 /\ push'.start <= curUid'
  BY <1>2 DEF CutInv
<1>19. \A a, b \in calls' : a # b => \A u \in Nat : ~(Covers(a, u) /\ Covers(b, u))
  BY <1>2 DEF CutInv
<1> QED BY <1>11, <1>12, <1>13, <1>14, <1>17, <1>18, <1>19 DEF CutInv, Covers, LastOfByte

LEMMA NextCut == TypeOK /\ ListInv /\ StartInv /\ CutInv /\ [Next]_vars => CutInv'
<1> SUFFICES ASSUME TypeOK, ListInv, StartInv, CutInv, [Next]_vars
             PROVE  CutInv'
  OBVIOUS
<1>1. CASE UNCHANGED <<rows, push, curUid, calls, sent>>
  BY <1>1 DEF CutInv, Aligned, CallShape, MessageShape, Covers, LastOfByte, Users, InTables
<1>2. ASSUME NEW t \in Table, SetRange(t)
      PROVE  CutInv'
  BY <1>1, <1>2 DEF SetRange
<1>3. CASE UNCHANGED vars
  BY <1>1, <1>3 DEF vars
<1> QED BY <1>2, <1>3, DispatchCut, ProduceCut DEF Next

(***************************************************************************)
(* The theorems.                                                           *)
(***************************************************************************)

\* The invariant is inductive.
LEMMA Invariant == Spec => []IInv
<1>1. Init => IInv
  BY InitType, InitList, InitStart, InitCut DEF IInv
<1>2. IInv /\ [Next]_vars => IInv'
  BY NextType, NextList, NextStart, NextCut DEF IInv
<1> QED BY <1>1, <1>2, PTL DEF Spec

\* Every variable keeps its type: a list is a string of as many bytes as the
\* loop of UpdateUserInfo has written.
THEOREM TypeCorrect == Spec => []TypeOK
<1>1. IInv => TypeOK
  BY DEF IInv
<1> QED BY <1>1, Invariant, PTL

\* A push that starts on a byte reaches exactly the users of its range, whatever
\* the sizes of its chunks, of the loops of the update, and of the lists.
THEOREM Reached == Spec => []UsersReached
<1>1. IInv => UsersReached
  <2> SUFFICES ASSUME IInv, Over, Aligned, NEW u \in 0..END_UID
               PROVE  (\E m \in sent : m.uid = u) <=>
                        (u \in Users /\ push.start <= u /\ u <= LastOfByte(push.end))
    BY DEF UsersReached
  <2>1. CutInv /\ TypeOK
    BY DEF IInv
  <2>2. ASSUME NEW m \in sent, m.uid = u
        PROVE  u \in Users /\ push.start <= u /\ u <= LastOfByte(push.end)
    <3>1. u <= LastOfByte(END_UID)
      BY CountAssumption, LastOfByteFacts
    <3> QED BY <2>1, <2>2, <3>1 DEF CutInv, MessageShape, InTables, Users
  <2>3. ASSUME u \in Users, push.start <= u, u <= LastOfByte(push.end)
        PROVE  \E m \in sent : m.uid = u
    <3>1. push.end \in Nat /\ curUid \in Nat /\ curUid % 8 = 0
      BY <2>1, PushAssumption DEF CutInv, TypeOK, Range
    <3>2. LastOfByte(push.end) < curUid /\ LastOfByte(push.end) \in Nat
      BY <3>1, LastOfByteOrder, LastOfByteFacts DEF Over
    <3>3. u < curUid
      BY <2>3, <3>1, <3>2, CountAssumption
    <3> QED BY <2>1, <2>3, <3>3 DEF CutInv, Over
  <2> QED BY <2>2, <2>3
<1> QED BY <1>1, Invariant, PTL

\* No message of a push that starts on a byte and ends within the lists goes to
\* a uid that is missing in a table, as long as the push runs and afterwards.
THEOREM OnlyUsers == Spec => []NoStrangers
<1>1. IInv => NoStrangers
  <2> SUFFICES ASSUME IInv, Aligned, push.end <= END_UID, NEW m \in sent
               PROVE  InTables(m.uid)
    BY DEF NoStrangers, InTables
  <2>1. MessageShape(m) /\ m.uid \in Nat
    BY DEF IInv, CutInv, TypeOK
  <2>2. push.end \in Nat /\ END_UID \in Nat
    BY PushAssumption, CountAssumption DEF IInv, TypeOK, Range
  <2>3. /\ LastOfByte(push.end) <= LastOfByte(END_UID)
        /\ LastOfByte(push.end) \in Nat /\ LastOfByte(END_UID) \in Nat
    BY <2>2, LastOfByteOrder, LastOfByteFacts
  <2> QED BY <2>1, <2>3 DEF MessageShape
<1> QED BY <1>1, Invariant, PTL

\* It sends nobody two messages.
THEOREM Once == Spec => []ReachedOnce
<1>1. IInv => ReachedOnce
  BY DEF IInv, CutInv, ReachedOnce
<1> QED BY <1>1, Invariant, PTL

=============================================================================
