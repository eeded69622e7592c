------------------------------- MODULE UserLists -------------------------------
(***************************************************************************)
(* What producers may rely on in Redis: a list of users appears as a whole *)
(* or not at all, no part of a list that replaces another was read from    *)
(* the tables before any part of the other, and the lists combined in one  *)
(* key are those that were released together at one moment.  Nothing is    *)
(* said of how a list is copied, nor of what interrupts that.              *)
(***************************************************************************)
EXTENDS Integers

CONSTANTS
    Tag, Chunk,
    NoRows,     \* a chunk of a list that does not exist
    CutOff      \* a chunk whose rows were lost on the way, without notice

VARIABLES
    tables,     \* how often the tables have changed
    released,   \* for each tag and chunk, the state of the tables it is from
    combined    \* the lists the combined key was made of

vars == <<tables, released, combined>>

NoList == [i \in Chunk |-> NoRows]
NoLists == [t \in Tag |-> NoList]

Init ==
    /\ tables = 0
    /\ released = NoLists
    /\ combined = NoLists

TablesChange ==
    /\ tables' = tables + 1
    /\ UNCHANGED <<released, combined>>

\* What may stand in a list that replaces the released one
Fresh(t) == {CutOff} \cup {v \in 0..tables : \A i \in Chunk : released[t][i] <= v}

Release(t) ==
    /\ \E list \in [Chunk -> Fresh(t)] : released' = [released EXCEPT ![t] = list]
    /\ UNCHANGED <<tables, combined>>

\* The lists are combined, or the combined key goes
Combine ==
    /\ combined' \in {released, NoLists}
    /\ UNCHANGED <<tables, released>>

Next == TablesChange \/ (\E t \in Tag : Release(t)) \/ Combine

Spec == Init /\ [][Next]_vars

=============================================================================
