----------------------------- MODULE MCCaseCache -----------------------------
(* Two commands around one cached layer: eval-all, and eval or eval-prepare. *)
EXTENDS CaseCache

CONSTANTS evalAll, other

Two == {evalAll, other}

OneLock == {Two}

\* The other command takes the lock as well, or is eval-prepare.
LockOrNot == {Two, {evalAll}}
=============================================================================
