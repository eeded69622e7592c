------------------------------- MODULE MCUidRange -------------------------------
(* Small instances of UidRange for TLC. *)
EXTENDS UidRange, TLC

\* Uids at the edges of bytes, loops, chunks and lists, in the tables in
\* several ways
Edges == {0, 7, 8, 15, 16, 31, 32, 38}
Tables ==
    {[t \in Table |-> IF t = 1 THEN 0..47 ELSE s] : s \in SUBSET Edges}
      \cup {[t \in Table |-> IF t = 1 THEN {0, 8, 15, 33} ELSE {8, 9, 15, 16, 33, 34}],
            [t \in Table |-> IF t = 1 THEN 0..47 ELSE {38, 39, 40}]}

\* From the start, from within the lists, within one chunk, to and past the
\* end of the lists, and one that does not start on a byte
Pushes == {ChunkRange(0, 38), ChunkRange(8, 34), ChunkRange(16, 22),
           ChunkRange(24, 60), ChunkRange(5, 27)}

\* The push of startPush: beyond the lists
PushPastTheEnd == {ChunkRange(0, 60)}

Zeros == {}
Bytes == {Zeros, {0, 7}}
=============================================================================
