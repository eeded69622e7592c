---------------------------- MODULE MCUserInfoUpdate ----------------------------
(* Small instances of UserInfoUpdate for TLC. *)
EXTENDS UserInfoUpdate, TLC
=============================================================================
