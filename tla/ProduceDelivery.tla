---------------------------- MODULE ProduceDelivery ----------------------------
(***************************************************************************)
(* What a producer promises to whoever calls its ProduceMsg: it finds the  *)
(* users of a call once, stores messages for these users and no others,    *)
(* and answers SUCCESS when each of them has one and no earlier; nothing   *)
(* is stored for a call that was answered.  Nothing is said of Redis, nor  *)
(* of how often a message is sent.                                         *)
(***************************************************************************)
CONSTANTS Call, User

VARIABLES
    reply,   \* of each call: "open", or "success" when it was answered
    found,   \* the users found for each call
    stored   \* the users for whom a message of the call is stored

vars == <<reply, found, stored>>

Init ==
    /\ reply = [c \in Call |-> "open"]
    /\ found = [c \in Call |-> {}]
    /\ stored = [c \in Call |-> {}]

Answer(c) == found'[c] \subseteq stored'[c] /\ reply' = [reply EXCEPT ![c] = "success"]

\* The users of a call are found; when there are none it is answered
Find(c) ==
    /\ reply[c] = "open"
    /\ found[c] = {}
    /\ \E users \in SUBSET User : found' = [found EXCEPT ![c] = users]
    /\ UNCHANGED stored
    /\ IF found'[c] = {} THEN Answer(c) ELSE UNCHANGED reply

\* A message is stored, or one that is stored is known to be; it may be the
\* last one
Store(c, u) ==
    /\ reply[c] = "open"
    /\ u \in found[c]
    /\ stored' = [stored EXCEPT ![c] = @ \cup {u}]
    /\ UNCHANGED found
    /\ Answer(c) \/ UNCHANGED reply

Next == \E c \in Call : Find(c) \/ \E u \in User : Store(c, u)

Spec == Init /\ [][Next]_vars

=============================================================================
