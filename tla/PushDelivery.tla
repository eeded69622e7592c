------------------------------ MODULE PushDelivery ------------------------------
(***************************************************************************)
(* What the daemon server promises to whoever begins a push: the chunks of *)
(* an accepted push are handed to producers in order, and a chunk counts   *)
(* as done once, only after it was handed out.  Nothing is said of who     *)
(* produces it, how often it is sent or how the producers are balanced.    *)
(***************************************************************************)
EXTENDS Integers

CONSTANTS Push, ChunksPerPush

VARIABLES
    requested,   \* the pushes begun
    stage        \* of each chunk

Chunk == Push \X (1..ChunksPerPush)

Init ==
    /\ requested = {}
    /\ stage = [c \in Chunk |-> "waiting"]

\* A push is accepted
Begin(p) ==
    /\ p \notin requested
    /\ requested' = requested \cup {p}
    /\ UNCHANGED stage

\* A chunk is sent for the first time, after the chunks before it
HandOut(c) ==
    /\ c[1] \in requested
    /\ stage[c] = "waiting"
    /\ \A i \in 1..(c[2] - 1) : stage[<<c[1], i>>] # "waiting"
    /\ stage' = [stage EXCEPT ![c] = "handed"]
    /\ UNCHANGED requested

\* A producer answered that the chunk is produced
Complete(c) ==
    /\ stage[c] = "handed"
    /\ stage' = [stage EXCEPT ![c] = "done"]
    /\ UNCHANGED requested

Next ==
    \/ \E p \in Push : Begin(p)
    \/ \E c \in Chunk : HandOut(c) \/ Complete(c)

vars == <<requested, stage>>

Spec == Init /\ [][Next]_vars

=============================================================================
