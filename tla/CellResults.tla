----------------------------- MODULE CellResults -----------------------------
(***************************************************************************)
(* What a campaign directory promises about its matrix of cells: a cell    *)
(* has no result or the complete result of one run.  A result appears in   *)
(* one step, belongs to a run started after every run whose result is      *)
(* already there, and stays until the operator asks to run the cell again. *)
(***************************************************************************)
EXTENDS Naturals

CONSTANTS Cells,       \* the framework x case matrix of the campaign
          Rerunnable   \* cells the operator may ask to run again

VARIABLE result        \* the run whose result each cell shows, 0 for none

Init == result = [c \in Cells |-> 0]

Commit(c) == /\ result[c] = 0
             /\ result'[c] > 0
             /\ \A d \in Cells : result[d] < result'[c]
             /\ result' = [result EXCEPT ![c] = result'[c]]

Withdraw(c) == /\ c \in Rerunnable
               /\ result[c] # 0
               /\ result' = [result EXCEPT ![c] = 0]

Next == \E c \in Cells : Commit(c) \/ Withdraw(c)

Spec == Init /\ [][Next]_result
=============================================================================
