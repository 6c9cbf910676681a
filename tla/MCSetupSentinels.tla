--------------------------- MODULE MCSetupSentinels ---------------------------
(* A command under the lock, and eval-prepare, which takes no lock. *)
EXTENDS SetupSentinels

CONSTANTS eval, prepare

Two == {eval, prepare}
=============================================================================
