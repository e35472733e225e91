---------------------------- MODULE MCLoginHistory ----------------------------
(* Instances of OfficialLogin with its history for TLC. *)
EXTENDS LoginHistory
=============================================================================
