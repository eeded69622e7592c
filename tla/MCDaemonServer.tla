----------------------------- MODULE MCDaemonServer -----------------------------
(* Small instances of DaemonServer for TLC. *)
EXTENDS DaemonServer, TLC

OneScore == {2}
OtherScore == {3}
FirstTwo == {0, 1}
FirstOne == {0}
Producers == {"producer"}
Mixed == {"producer", "other"}
\* The first process never leaves, so that no second id is drawn at random
FirstStays == registrations > 0 => 0 \in DOMAIN gSvrId2SvrInfo
PushSymmetry == Permutations(Push)
=============================================================================
