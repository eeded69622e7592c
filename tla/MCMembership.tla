------------------------------ MODULE MCMembership ------------------------------
(* Small instances of Membership for TLC. *)
EXTENDS Membership, TLC

FirstOne == {0}
TwoCalls == [p \in Proc |-> 2]
=============================================================================
