----------------------------- MODULE MCCloudSync -----------------------------
(* An instance of CloudSync for TLC. *)
EXTENDS CloudSync

\* Settings that are half of each other when they are half written.
OnOrOff == {[type |-> "webdav", auto |-> TRUE], Off}
=============================================================================
