------------------------------- MODULE MCProducer -------------------------------
(* Small instances of Producer for TLC. *)
EXTENDS Producer, TLC

AllOrNone == {{}, User}
=============================================================================
