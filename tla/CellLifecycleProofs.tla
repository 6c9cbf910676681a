------------------------- MODULE CellLifecycleProofs -------------------------
(***************************************************************************)
(* Proofs about CellLifecycle, for every matrix of cells, every choice of  *)
(* cases with a hidden test and of cells that eval is used on, and every   *)
(* number of interrupts and evals: what meta.json vouches for, that        *)
(* eval-all leaves done cells alone, and that the directory implements     *)
(* CellResults.                                                            *)
(***************************************************************************)
EXTENDS CellLifecycle, Integers, FiniteSetTheorems, WellFoundedInduction, TLAPS

(***************************************************************************)
(* The inductive invariant.                                                *)
(***************************************************************************)
CellSteps == {"remove", "mkdir"} \cup RunSteps
Written(a) == disk[cell][a] = runs

\* Which command is where, and on which cell.  eval-all does not get as far
\* as removing a done cell.
Control ==
    /\ command = "none" <=> step = "idle"
    /\ step = "pick" => command = "eval-all"
    /\ step \in CellSteps =>
          /\ cell \in Cells
          /\ command = "eval-all" \/ (command = "eval" /\ cell \in EvalCells)
    /\ step = "remove" /\ command = "eval-all" => ~ Done(cell)

\* A cell without a directory has no artifacts, and a run starts without any.
NothingOutside ==
    /\ \A c \in Cells \ dirs : Empty(c)
    /\ step = "mkdir" => Empty(cell)
    /\ step \in RunSteps => cell \in dirs

\* The number of a run under way is newer than everything in other cells;
\* in its own cell are its artifacts only, and not yet its meta.json.
RunIsNewest ==
    /\ \A c \in Cells, a \in Artifacts : disk[c][a] <= runs
    /\ step \in RunSteps =>
          /\ runs > 0
          /\ \A a \in Artifacts : disk[cell][a] \in {0, runs}
          /\ ~ Done(cell)
          /\ \A c \in Cells \ {cell}, a \in Artifacts : disk[c][a] < runs

\* The artifacts a run has written by the time it comes to each step.
RunHasWritten ==
    /\ step \in RunSteps \ {"clone"} => Written("repo")
    /\ step \in {"spawn", "collect", "respond"} => Written("request")
    /\ step \in RunSteps \ {"clone", "precheck", "spawn"} => Written("logs")
    /\ step \in {"diff", "visible", "hidden", "score", "commit"} /\ reason = "none"
          => Written("request") /\ Written("response")
    /\ step \in {"visible", "hidden", "score", "commit"} => Written("diff")
    /\ step \in {"hidden", "score", "commit"} => Written("visible")
    /\ step \in {"score", "commit"} /\ cell \in HiddenCells => Written("hidden")
    /\ step \in {"commit", "failCommit"} => Written("scoring")
    /\ step \in {"failScore", "failCommit"} => reason = "pipeline_failure"

CellInv == /\ TypeOK
           /\ Control
           /\ NothingOutside
           /\ RunIsNewest
           /\ RunHasWritten
           /\ DoneIsUnmixed

(***************************************************************************)
(* Lemmas.                                                                 *)
(***************************************************************************)
\* A set of natural numbers that is not empty has a least member.
LEMMA LeastExists ==
  ASSUME NEW S \in SUBSET Nat, S # {}
  PROVE  \E m \in S : \A n \in S : m <= n
<1> DEFINE Upto == {0..n : n \in S}
<1>1. Upto \subseteq FiniteSubsetsOf(Nat) /\ Upto # {}
  <2>1. \A n \in Nat : IsFiniteSet(0..n) /\ 0..n \in SUBSET Nat
    BY FS_Interval
  <2> QED
    BY <2>1 DEF FiniteSubsetsOf
<1>2. PICK x \in Upto : \A y \in Upto : ~ (<<y, x>> \in StrictSubsetOrdering(Nat))
  <2> HIDE DEF Upto
  <2> QED
    BY <1>1, WFMin, FS_StrictSubsetOrderingWellFounded
<1>3. PICK m \in S : x = 0..m
  OBVIOUS
<1>4. ASSUME NEW n \in S, n < m PROVE FALSE
  <2>1. 0..n \in SUBSET Nat /\ 0..m \in SUBSET Nat
    OBVIOUS
  <2>2. 0..n \subseteq 0..m /\ m \in 0..m /\ m \notin 0..n
    BY <1>4
  <2>3. <<0..n, 0..m>> \in StrictSubsetOrdering(Nat)
    BY <2>1, <2>2 DEF StrictSubsetOrdering
  <2> QED
    BY <1>2, <1>3, <2>3
<1> QED
  <2>1. \A n \in S : n \in Nat /\ m \in Nat
    OBVIOUS
  <2> QED
    BY <1>4, <2>1

\* eval-all takes up a cell that it has not come to yet.
LEMMA NextCellIsTodo ==
  ASSUME TypeOK, todo # {}
  PROVE  NextCell \in todo
<1>1. todo \in SUBSET Nat
  BY CellsAssumption DEF TypeOK
<1> QED
  BY <1>1, LeastExists DEF NextCell

\* Changing one artifact of the current cell leaves all others alone.
LEMMA OneArtifact ==
  ASSUME TypeOK, cell \in Cells, NEW a \in Artifacts, NEW n \in Nat,
         disk' = [disk EXCEPT ![cell][a] = n]
  PROVE  /\ disk' \in [Cells -> [Artifacts -> Nat]]
         /\ disk'[cell][a] = n
         /\ \A b \in Artifacts \ {a} : disk'[cell][b] = disk[cell][b]
         /\ \A c \in Cells \ {cell} : disk'[c] = disk[c]
  BY DEF TypeOK

\* A write gives one artifact of the current cell to the current run.
LEMMA WriteIsLocal ==
  ASSUME TypeOK, cell \in Cells, NEW a \in Artifacts, NEW s \in Steps,
         WriteThen(a, s)
  PROVE  /\ step' = s
         /\ disk' \in [Cells -> [Artifacts -> Nat]]
         /\ disk'[cell][a] = runs
         /\ \A b \in Artifacts \ {a} : disk'[cell][b] = disk[cell][b]
         /\ \A c \in Cells \ {cell} : disk'[c] = disk[c]
<1>1. runs \in Nat
  BY DEF TypeOK
<1> QED
  BY <1>1, OneArtifact DEF WriteThen

\* In the initial state nothing is there.
LEMMA InitInv == Init => CellInv
<1> SUFFICES ASSUME Init PROVE CellInv
  OBVIOUS
<1>1. TypeOK
  BY CellsAssumption DEF Init, TypeOK, Steps, Reasons
<1>2. \A c \in Cells : Empty(c) /\ ~ Done(c)
  BY DEF Init, Empty, Done, Artifacts
<1>3. Control /\ NothingOutside
  BY <1>2 DEF Init, Control, NothingOutside, CellSteps, RunSteps
<1>4. RunIsNewest /\ RunHasWritten
  BY DEF Init, RunIsNewest, RunHasWritten, RunSteps
<1> QED
  BY <1>1, <1>2, <1>3, <1>4 DEF CellInv, DoneIsUnmixed

\* Every step of every command keeps the types.
LEMMA NextTypeOK == TypeOK /\ Control /\ [Next]_vars => TypeOK'
<1> SUFFICES ASSUME TypeOK, Control, [Next]_vars PROVE TypeOK'
  OBVIOUS
<1> USE DEF TypeOK
<1>1. ASSUME NEW selection \in SUBSET Cells, EvalAll(selection) PROVE TypeOK'
  BY <1>1 DEF EvalAll, Begin, Steps
<1>2. ASSUME NEW c \in Cells, Eval(c) PROVE TypeOK'
  BY <1>2, CellsAssumption DEF Eval, Begin, RemovalOrRun, Steps
<1>3. CASE EvalReport
  BY <1>3 DEF EvalReport, Begin, Steps
<1>4. CASE PickSkip \/ PickRun \/ PickNone
  BY <1>4, NextCellIsTodo DEF PickSkip, PickRun, PickNone, RemovalOrRun, At, Steps
<1>5. CASE RemoveEntry
  <2>1. cell \in Cells
    BY <1>5 DEF RemoveEntry, At, Control, CellSteps
  <2>2. disk' \in [Cells -> [Artifacts -> Nat]]
    BY <1>5, <2>1 DEF RemoveEntry
  <2>3. verdict' \in [Cells -> Reasons]
    BY <1>5, <2>1 DEF RemoveEntry, Reasons
  <2> QED
    BY <1>5, <2>2, <2>3 DEF RemoveEntry, At
<1>6. CASE RemoveDir \/ MakeDir
  BY <1>6 DEF RemoveDir, MakeDir, At, Steps, RunSteps, Control, CellSteps
<1>7. CASE \/ CloneWorktree \/ Misconfigured \/ WriteRequest \/ SpawnAdapter
           \/ WriteResponse \/ DeriveDiff \/ RunVisibleTest \/ RunHiddenTest
           \/ WriteScoring \/ WriteFailureScoring
  <2>1. cell \in Cells
    BY <1>7 DEF CloneWorktree, Misconfigured, WriteRequest, SpawnAdapter,
         WriteResponse, DeriveDiff, RunVisibleTest, RunHiddenTest, WriteScoring,
         WriteFailureScoring, At, Control, CellSteps, RunSteps
  <2>2. \E a \in Artifacts, s \in Steps : WriteThen(a, s)
    BY <1>7 DEF CloneWorktree, Misconfigured, WriteRequest, SpawnAdapter,
         WriteResponse, DeriveDiff, RunVisibleTest, RunHiddenTest, WriteScoring,
         WriteFailureScoring, Artifacts, Steps, RunSteps
  <2>3. Keep /\ reason' \in Reasons /\ UNCHANGED <<interrupts, evals>>
    BY <1>7 DEF CloneWorktree, Misconfigured, WriteRequest, SpawnAdapter,
         WriteResponse, DeriveDiff, RunVisibleTest, RunHiddenTest, WriteScoring,
         WriteFailureScoring, At, Reasons
  <2> QED
    BY <2>1, <2>2, <2>3, WriteIsLocal DEF Keep
<1>8. CASE Collect \/ PipelineFails
  BY <1>8 DEF Collect, PipelineFails, Keep, At, Steps, RunSteps, Reasons
<1>9. CASE WriteMeta
  <2>1. WriteThen("meta", AfterCell) /\ AfterCell \in Steps /\ cell \in Cells
    BY <1>9 DEF WriteMeta, AfterCell, Steps, At, Control, CellSteps, RunSteps
  <2> QED
    BY <1>9, <2>1, WriteIsLocal DEF WriteMeta, At, Artifacts, Reasons
<1>10. CASE WriteReport
  BY <1>10 DEF WriteReport, Return, At, Steps, Reasons, Artifacts
<1>11. CASE Interrupt
  <2>1. interrupts + 1 \in 0..MaxInterrupts
    BY <1>11, CellsAssumption DEF Interrupt
  <2> QED
    BY <1>11, <2>1 DEF Interrupt, Return, Steps, Reasons
<1>12. CASE UNCHANGED vars
  BY <1>12 DEF vars
<1> QED
  BY <1>1, <1>2, <1>3, <1>4, <1>5, <1>6, <1>7, <1>8, <1>9, <1>10, <1>11, <1>12
     DEF Next, Work, RunCell, Pipeline

\* Steps that leave the artifacts and verdicts as they are.
LEMMA ControlInv ==
  ASSUME CellInv, TypeOK', UNCHANGED <<disk, verdict>>,
         \/ \E selection \in SUBSET Cells : EvalAll(selection)
         \/ \E c \in Cells : Eval(c)
         \/ EvalReport \/ PickSkip \/ PickRun \/ PickNone
         \/ RemoveDir \/ MakeDir
         \/ Collect \/ PipelineFails \/ WriteReport \/ Interrupt
  PROVE  CellInv'
<1> USE DEF CellInv
<1> USE DEF Steps, RunSteps, CellSteps, Done, Empty
<1>1. DoneIsUnmixed'
  BY DEF DoneIsUnmixed
<1>2. ASSUME \/ \E selection \in SUBSET Cells : EvalAll(selection)
             \/ \E c \in Cells : Eval(c)
             \/ EvalReport \/ WriteReport \/ Interrupt
      PROVE  CellInv'
  <2>1. Control'
    BY <1>2, CellsAssumption DEF EvalAll, Eval, EvalReport, Begin, RemovalOrRun,
             WriteReport, Interrupt, Return, Control, At, TypeOK
  <2>2. NothingOutside'
    BY <1>2 DEF EvalAll, Eval, EvalReport, Begin, RemovalOrRun,
             WriteReport, Interrupt, Return, NothingOutside, At
  <2>3. RunIsNewest' /\ RunHasWritten'
    BY <1>2 DEF EvalAll, Eval, EvalReport, Begin, RemovalOrRun,
             WriteReport, Interrupt, Return, RunIsNewest, RunHasWritten, At
  <2> QED
    BY <1>1, <2>1, <2>2, <2>3
<1>3. CASE PickSkip \/ PickRun \/ PickNone
  <2>1. Control'
    BY <1>3, NextCellIsTodo DEF PickSkip, PickRun, PickNone, RemovalOrRun, At,
             Control, TypeOK
  <2>2. NothingOutside'
    BY <1>3, NextCellIsTodo DEF PickSkip, PickRun, PickNone, RemovalOrRun, At,
             NothingOutside, TypeOK
  <2>3. RunIsNewest' /\ RunHasWritten'
    BY <1>3 DEF PickSkip, PickRun, PickNone, RemovalOrRun, At,
             RunIsNewest, RunHasWritten
  <2> QED
    BY <1>1, <2>1, <2>2, <2>3
<1>4. CASE RemoveDir
  BY <1>1, <1>4 DEF RemoveDir, At, Control, NothingOutside, RunIsNewest,
                    RunHasWritten, TypeOK
<1>5. CASE MakeDir
  <2>1. Control' /\ NothingOutside'
    BY <1>5 DEF MakeDir, At, Control, NothingOutside, TypeOK
  <2>2. cell \in Cells /\ Empty(cell)
    BY <1>5 DEF MakeDir, At, Control, NothingOutside
  <2>3. RunIsNewest'
    BY <1>5, <2>2 DEF MakeDir, At, RunIsNewest, TypeOK, Artifacts
  <2>4. RunHasWritten'
    BY <1>5 DEF MakeDir, At, RunHasWritten
  <2> QED
    BY <1>1, <2>1, <2>3, <2>4
<1>6. CASE Collect \/ PipelineFails
  <2>1. Control' /\ NothingOutside'
    BY <1>6 DEF Collect, PipelineFails, Keep, At, Control, NothingOutside
  <2>2. RunIsNewest'
    BY <1>6 DEF Collect, PipelineFails, Keep, At, RunIsNewest
  <2>3. RunHasWritten'
    BY <1>6 DEF Collect, PipelineFails, Keep, At, RunHasWritten, Written
  <2> QED
    BY <1>1, <2>1, <2>2, <2>3
<1> QED
  BY <1>2, <1>3, <1>4, <1>5, <1>6

\* Under eval-all only a cell that is not done loses entries.
LEMMA RemoveEntryInv ==
  ASSUME CellInv, TypeOK', RemoveEntry
  PROVE  CellInv'
<1> USE DEF CellInv
<1>1. cell \in Cells /\ step = "remove"
  BY DEF RemoveEntry, At, Control, CellSteps
<1>2. PICK a \in Artifacts :
         /\ disk' = [disk EXCEPT ![cell][a] = 0]
         /\ verdict' = IF a = "meta" THEN [verdict EXCEPT ![cell] = "none"]
                                     ELSE verdict
  BY DEF RemoveEntry
<1>3. /\ disk'[cell][a] = 0
      /\ \A b \in Artifacts \ {a} : disk'[cell][b] = disk[cell][b]
      /\ \A c \in Cells \ {cell} : disk'[c] = disk[c]
  <2>1. disk' = [disk EXCEPT ![cell][a] = 0]
    BY <1>2
  <2> QED
    BY <1>1, <2>1, OneArtifact
<1>4. UNCHANGED <<command, step, todo, cell, dirs, reason, runs>>
  BY DEF RemoveEntry
<1>5. \A c \in Cells, b \in Artifacts : disk'[c][b] \in {0, disk[c][b]}
  BY <1>1, <1>3
<1>6. Control' /\ NothingOutside' /\ RunHasWritten'
  BY <1>1, <1>4, <1>5 DEF Control, NothingOutside, RunHasWritten, Done, Empty,
       Artifacts, CellSteps, RunSteps
<1>7. RunIsNewest'
  BY <1>1, <1>4, <1>5 DEF RunIsNewest, RunSteps, TypeOK
<1>8. DoneIsUnmixed'
  BY <1>1, <1>5 DEF DoneIsUnmixed, Done, Artifacts
<1> QED
  BY <1>6, <1>7, <1>8

\* The writes of a run before meta.json: they give artifacts of a cell that
\* is not done to its run.
LEMMA RunWrites ==
  ASSUME CellInv,
         \/ CloneWorktree \/ Misconfigured \/ WriteRequest \/ SpawnAdapter
         \/ WriteResponse \/ DeriveDiff \/ RunVisibleTest \/ RunHiddenTest
         \/ WriteScoring \/ WriteFailureScoring
  PROVE  /\ cell \in Cells /\ step \in RunSteps /\ step' \in RunSteps
         /\ Keep
         /\ \A a \in Artifacts : disk'[cell][a] \in {disk[cell][a], runs}
         /\ disk'[cell]["meta"] = disk[cell]["meta"]
         /\ \A c \in Cells \ {cell} : disk'[c] = disk[c]
         /\ ~ Done(cell)
<1> USE DEF CellInv
<1>1. cell \in Cells /\ step \in RunSteps /\ step' \in RunSteps
  BY DEF CloneWorktree, Misconfigured, WriteRequest, SpawnAdapter, WriteResponse,
       DeriveDiff, RunVisibleTest, RunHiddenTest, WriteScoring,
       WriteFailureScoring, WriteThen, At, Control, CellSteps, RunSteps
<1>2. \E a \in Artifacts \ {"meta"} : WriteThen(a, step')
  BY DEF CloneWorktree, Misconfigured, WriteRequest, SpawnAdapter, WriteResponse,
       DeriveDiff, RunVisibleTest, RunHiddenTest, WriteScoring,
       WriteFailureScoring, WriteThen, Artifacts
<1>3. Keep
  BY DEF CloneWorktree, Misconfigured, WriteRequest, SpawnAdapter, WriteResponse,
       DeriveDiff, RunVisibleTest, RunHiddenTest, WriteScoring,
       WriteFailureScoring
<1>4. /\ \A a \in Artifacts : disk'[cell][a] \in {disk[cell][a], runs}
      /\ disk'[cell]["meta"] = disk[cell]["meta"]
      /\ \A c \in Cells \ {cell} : disk'[c] = disk[c]
  BY <1>1, <1>2, WriteIsLocal DEF Artifacts, Steps
<1> QED
  BY <1>1, <1>3, <1>4 DEF RunIsNewest

\* Those writes keep the invariant.
LEMMA WriteInv ==
  ASSUME CellInv, TypeOK',
         \/ CloneWorktree \/ Misconfigured \/ WriteRequest \/ SpawnAdapter
         \/ WriteResponse \/ DeriveDiff \/ RunVisibleTest \/ RunHiddenTest
         \/ WriteScoring \/ WriteFailureScoring
  PROVE  CellInv'
<1> USE DEF CellInv
<1>1. cell \in Cells /\ step \in RunSteps /\ step' \in RunSteps
  BY RunWrites
<1>2. Keep
  BY RunWrites
<1>3. /\ \A a \in Artifacts : disk'[cell][a] \in {disk[cell][a], runs}
      /\ disk'[cell]["meta"] = disk[cell]["meta"]
      /\ \A c \in Cells \ {cell} : disk'[c] = disk[c]
  BY RunWrites
<1>4. ~ Done(cell) /\ ~ Done(cell)'
  BY <1>2, <1>3, RunWrites DEF Done, Keep
<1>5. Control' /\ NothingOutside'
  BY <1>1, <1>2, <1>3 DEF Control, NothingOutside, Keep, Empty, CellSteps, RunSteps
<1>6. RunIsNewest'
  BY <1>1, <1>2, <1>3, <1>4 DEF RunIsNewest, Keep, TypeOK
<1>7. DoneIsUnmixed'
  BY <1>2, <1>3, <1>4 DEF DoneIsUnmixed, Done
<1>8. RunHasWritten'
  <2>1. \A a \in Artifacts, s \in Steps : WriteThen(a, s) => Written(a)'
    BY <1>1, <1>2, WriteIsLocal DEF Written, Keep
  <2>2. \A a \in Artifacts : Written(a) => Written(a)'
    BY <1>2, <1>3 DEF Written, Keep
  <2>3. CASE CloneWorktree \/ Misconfigured \/ WriteRequest
    BY <2>1, <2>2, <2>3 DEF CloneWorktree, Misconfigured, WriteRequest, At,
         RunHasWritten, WriteThen, Artifacts, Steps, RunSteps
  <2>4. CASE SpawnAdapter \/ WriteResponse
    BY <2>1, <2>2, <2>4 DEF SpawnAdapter, WriteResponse, At,
         RunHasWritten, WriteThen, Artifacts, Steps, RunSteps
  <2>5. CASE DeriveDiff \/ RunVisibleTest \/ RunHiddenTest
    BY <1>2, <2>1, <2>2, <2>5 DEF DeriveDiff, RunVisibleTest, RunHiddenTest, At,
         RunHasWritten, WriteThen, Artifacts, Steps, RunSteps, Keep
  <2>6. CASE WriteScoring \/ WriteFailureScoring
    BY <1>2, <2>1, <2>2, <2>6 DEF WriteScoring, WriteFailureScoring, At,
         RunHasWritten, WriteThen, Artifacts, Steps, RunSteps, Keep
  <2> QED
    BY <2>3, <2>4, <2>5, <2>6
<1> QED
  BY <1>5, <1>6, <1>7, <1>8

\* The cell that WriteMeta leaves is one that may be committed.
LEMMA WriteMetaCell ==
  ASSUME CellInv, WriteMeta
  PROVE  cell \in Cells /\ step \in {"commit", "failCommit"}
  BY DEF CellInv, WriteMeta, At, Control, CellSteps, RunSteps

\* What the write of meta.json does: the cell becomes done and intact.
LEMMA WriteMetaCommits ==
  ASSUME CellInv, TypeOK', WriteMeta, NEW c \in Cells, c = cell
  PROVE  /\ \A a \in Artifacts \ {"meta"} : disk'[c][a] = disk[c][a]
         /\ disk'[c]["meta"] = runs
         /\ \A d \in Cells \ {c} : disk'[d] = disk[d] /\ verdict'[d] = verdict[d]
         /\ Intact(c)'
<1> USE DEF CellInv
<1>1. step \in {"commit", "failCommit"} /\ step \in RunSteps
  BY WriteMetaCell DEF RunSteps
<1>2. WriteThen("meta", AfterCell) /\ AfterCell \in Steps /\ "meta" \in Artifacts
  BY DEF WriteMeta, AfterCell, Steps, Artifacts
<1>3. /\ \A a \in Artifacts \ {"meta"} : disk'[c][a] = disk[c][a]
      /\ disk'[c]["meta"] = runs
      /\ \A d \in Cells \ {c} : disk'[d] = disk[d]
  BY <1>2, WriteIsLocal
<1>4. /\ verdict'[c] = reason
      /\ \A d \in Cells \ {c} : verdict'[d] = verdict[d]
  BY DEF WriteMeta, TypeOK
<1>5. \A a \in Required(c)' : a = "meta" \/ Written(a)
  <2>1. CASE step = "commit"
    BY <1>4, <2>1 DEF Required, RunHasWritten, RunSteps
  <2>2. CASE step = "failCommit"
    BY <1>4, <2>2 DEF Required, RunHasWritten, RunSteps
  <2> QED
    BY <1>1, <2>1, <2>2
<1>6. Required(c)' \subseteq Artifacts
  BY DEF Required, Artifacts
<1>7. Intact(c)'
  BY <1>1, <1>3, <1>5, <1>6 DEF Written, Intact, Done, RunIsNewest
<1> QED
  BY <1>3, <1>4, <1>7

\* The commit point keeps the invariant.
LEMMA WriteMetaInv ==
  ASSUME CellInv, TypeOK', WriteMeta
  PROVE  CellInv'
<1> USE DEF CellInv
<1>1. /\ step' \in {"pick", "report"}
      /\ step' = "pick" => command = "eval-all"
      /\ UNCHANGED <<command, dirs, runs>>
  BY DEF WriteMeta, WriteThen, AfterCell
<1>2. PICK e \in Cells : e = cell
  BY WriteMetaCell
<1>3. Control' /\ RunHasWritten'
  BY <1>1, WriteMetaCell DEF Control, RunHasWritten, CellSteps, RunSteps
<1>4. NothingOutside'
  BY <1>1, <1>2, WriteMetaCell, WriteMetaCommits DEF NothingOutside, Empty, RunSteps
<1>5. RunIsNewest'
  <2>1. \A c \in Cells, a \in Artifacts : disk'[c][a] \in {disk[c][a], runs}
    BY <1>2, WriteMetaCommits
  <2>2. runs \in Nat
    BY DEF TypeOK
  <2> QED
    BY <1>1, <2>1, <2>2 DEF RunIsNewest, RunSteps
<1>6. \A a \in Artifacts : disk'[e][a] \in {0, runs}
  BY <1>2, WriteMetaCell, WriteMetaCommits DEF RunIsNewest, RunSteps
<1>7. DoneIsUnmixed'
  <2>1. ASSUME NEW c \in Cells, Done(c)', NEW a \in Artifacts
        PROVE  disk'[c][a] \in {0, disk'[c]["meta"]}
    <3>1. CASE c = e
      BY <1>2, <1>6, <3>1, WriteMetaCommits
    <3>2. CASE c # e
      BY <1>2, <2>1, <3>2, WriteMetaCommits DEF DoneIsUnmixed, Done
    <3> QED
      BY <3>1, <3>2
  <2> QED
    BY <2>1 DEF DoneIsUnmixed
<1> QED
  BY <1>3, <1>4, <1>5, <1>7

\* Every step keeps the invariant.
LEMMA NextInv == CellInv /\ [Next]_vars => CellInv'
<1> SUFFICES ASSUME CellInv, [Next]_vars PROVE CellInv'
  OBVIOUS
<1>1. TypeOK'
  BY NextTypeOK DEF CellInv
<1>2. CASE \/ \E selection \in SUBSET Cells : EvalAll(selection)
           \/ \E c \in Cells : Eval(c)
           \/ EvalReport \/ PickSkip \/ PickRun \/ PickNone
           \/ RemoveDir \/ MakeDir
           \/ Collect \/ PipelineFails \/ WriteReport \/ Interrupt
  <2>1. UNCHANGED <<disk, verdict>>
    BY <1>2 DEF EvalAll, Eval, EvalReport, Begin, PickSkip, PickRun, PickNone,
         RemoveDir, MakeDir, Collect, PipelineFails, Keep, WriteReport, Interrupt
  <2> QED
    BY <1>1, <1>2, <2>1, ControlInv
<1>3. CASE RemoveEntry
  BY <1>1, <1>3, RemoveEntryInv
<1>4. CASE \/ CloneWorktree \/ Misconfigured \/ WriteRequest \/ SpawnAdapter
           \/ WriteResponse \/ DeriveDiff \/ RunVisibleTest \/ RunHiddenTest
           \/ WriteScoring \/ WriteFailureScoring
  BY <1>1, <1>4, WriteInv
<1>5. CASE WriteMeta
  BY <1>1, <1>5, WriteMetaInv
<1>6. CASE UNCHANGED vars
  BY <1>1, <1>6 DEF vars, CellInv, Control, NothingOutside, RunIsNewest,
       RunHasWritten, DoneIsUnmixed, Done, Empty, Written
<1> QED
  BY <1>2, <1>3, <1>4, <1>5, <1>6 DEF Next, Work, RunCell, Pipeline

\* No step leaves a done cell torn: rmtree under eval-all takes only what is not
\* done, a run's writes go to a cell that is not done, and meta.json comes last.
LEMMA IntactInv == CellInv /\ DoneIsIntact /\ [Next]_vars => DoneIsIntact'
<1> SUFFICES ASSUME CellInv, DoneIsIntact, [Next]_vars,
                    NEW c \in Cells \ EvalCells, Done(c)'
             PROVE  Intact(c)'
  BY DEF DoneIsIntact
<1>1. TypeOK'
  BY NextTypeOK DEF CellInv
<1>2. ASSUME disk'[c] = disk[c], verdict'[c] = verdict[c]
      PROVE  Intact(c)'
  <2>1. Intact(c)
    BY <1>2 DEF DoneIsIntact, Done
  <2> QED
    BY <1>2, <2>1 DEF Intact, Done, Required
<1>3. CASE \/ \E selection \in SUBSET Cells : EvalAll(selection)
           \/ \E d \in Cells : Eval(d)
           \/ EvalReport \/ PickSkip \/ PickRun \/ PickNone
           \/ RemoveDir \/ MakeDir
           \/ Collect \/ PipelineFails \/ WriteReport \/ Interrupt
  BY <1>2, <1>3 DEF EvalAll, Eval, EvalReport, Begin, PickSkip, PickRun, PickNone,
     RemoveDir, MakeDir, Collect, PipelineFails, Keep, WriteReport, Interrupt
<1>4. CASE RemoveEntry
  <2>1. cell \in Cells /\ step = "remove"
    BY <1>4 DEF RemoveEntry, At, CellInv, Control, CellSteps
  <2>2. PICK a \in Artifacts :
           /\ disk' = [disk EXCEPT ![cell][a] = 0]
           /\ verdict' = IF a = "meta" THEN [verdict EXCEPT ![cell] = "none"]
                                       ELSE verdict
    BY <1>4 DEF RemoveEntry
  <2>3. /\ \A b \in Artifacts \ {a} : disk'[cell][b] = disk[cell][b]
        /\ disk'[cell][a] = 0
        /\ \A d \in Cells \ {cell} : disk'[d] = disk[d]
    <3>1. disk' = [disk EXCEPT ![cell][a] = 0]
      BY <2>2
    <3> QED
      BY <2>1, <3>1, OneArtifact DEF CellInv
  <2>4. c # cell
    <3>1. Done(c)' => Done(c)
      BY <2>3 DEF Done, Artifacts
    <3> QED
      BY <2>1, <3>1 DEF CellInv, Control, CellSteps
  <2> QED
    BY <1>2, <2>2, <2>3, <2>4 DEF CellInv, TypeOK
<1>5. CASE \/ CloneWorktree \/ Misconfigured \/ WriteRequest \/ SpawnAdapter
           \/ WriteResponse \/ DeriveDiff \/ RunVisibleTest \/ RunHiddenTest
           \/ WriteScoring \/ WriteFailureScoring
  <2>1. c # cell
    BY <1>5, RunWrites DEF Done
  <2> QED
    BY <1>2, <1>5, <2>1, RunWrites DEF Keep
<1>6. CASE WriteMeta
  <2>1. PICK e \in Cells : e = cell
    BY <1>6, WriteMetaCell
  <2>2. CASE c = e
    BY <1>1, <1>6, <2>1, <2>2, WriteMetaCommits
  <2>3. CASE c # e
    BY <1>1, <1>2, <1>6, <2>1, <2>3, WriteMetaCommits
  <2> QED
    BY <2>2, <2>3
<1>7. CASE UNCHANGED vars
  BY <1>2, <1>7 DEF vars
<1> QED
  BY <1>3, <1>4, <1>5, <1>6, <1>7 DEF Next, Work, RunCell, Pipeline

\* The invariant holds in every state the commands can reach.
LEMMA Invariance == Spec => []CellInv
  BY InitInv, NextInv, PTL DEF Spec

\* Artifacts change only when rmtree removes one or a run writes one.
LEMMA ArtifactsChange ==
  ASSUME [Next]_vars
  PROVE  \/ UNCHANGED disk
         \/ RemoveEntry
         \/ step \in RunSteps /\ \E a \in Artifacts, s \in Steps : WriteThen(a, s)
<1>1. CASE \/ CloneWorktree \/ Misconfigured \/ WriteRequest \/ SpawnAdapter
           \/ WriteResponse \/ DeriveDiff \/ RunVisibleTest \/ RunHiddenTest
           \/ WriteScoring \/ WriteFailureScoring \/ WriteMeta
  BY <1>1 DEF CloneWorktree, Misconfigured, WriteRequest, SpawnAdapter,
       WriteResponse, DeriveDiff, RunVisibleTest, RunHiddenTest, WriteScoring,
       WriteFailureScoring, WriteMeta, AfterCell, At, Artifacts, Steps, RunSteps
<1>2. CASE \/ \E selection \in SUBSET Cells : EvalAll(selection)
           \/ \E c \in Cells : Eval(c)
           \/ EvalReport \/ PickSkip \/ PickRun \/ PickNone
           \/ RemoveDir \/ MakeDir
           \/ Collect \/ PipelineFails \/ WriteReport \/ Interrupt
  BY <1>2 DEF EvalAll, Eval, EvalReport, Begin, PickSkip, PickRun, PickNone,
       RemoveDir, MakeDir, Collect, PipelineFails, Keep, WriteReport, Interrupt
<1>3. CASE UNCHANGED vars
  BY <1>3 DEF vars
<1> QED
  BY <1>1, <1>2, <1>3 DEF Next, Work, RunCell, Pipeline

(***************************************************************************)
(* The theorems.                                                           *)
(***************************************************************************)
\* Every variable keeps its type.
THEOREM TypeCorrect == Spec => []TypeOK
  BY Invariance, PTL DEF CellInv

\* meta.json is the commit point: a cell that counts as done has everything
\* its verdict calls for, from one run, however often commands were
\* interrupted and whatever the pipeline's failure path wrote.
THEOREM DoneMeansIntact == Spec => []DoneIsIntact
<1>1. Init => DoneIsIntact
  BY DEF Init, DoneIsIntact, Done, Artifacts
<1> QED
  BY <1>1, Invariance, IntactInv, PTL DEF Spec

\* No artifact of another attempt survives in a done cell, also where eval
\* replaces results.
THEOREM DoneMeansUnmixed == Spec => []DoneIsUnmixed
  BY Invariance, PTL DEF CellInv

\* Resuming: eval-all never changes the artifacts of a done cell.
THEOREM ResumeKeepsResults == Spec => DoneUntouchedByEvalAll
<1>1. ASSUME CellInv, [Next]_vars, NEW c \in Cells, command = "eval-all", Done(c)
      PROVE  disk'[c] = disk[c]
  <2> USE DEF CellInv
  <2>1. CASE UNCHANGED disk
    BY <2>1
  <2>2. CASE RemoveEntry
    <3>1. cell \in Cells /\ ~ Done(cell)
      BY <1>1, <2>2 DEF RemoveEntry, At, Control, CellSteps
    <3>2. PICK a \in Artifacts : disk' = [disk EXCEPT ![cell][a] = 0]
      BY <2>2 DEF RemoveEntry
    <3> QED
      BY <1>1, <3>1, <3>2, OneArtifact
  <2>3. ASSUME NEW a \in Artifacts, NEW s \in Steps, WriteThen(a, s),
               step \in RunSteps
        PROVE  disk'[c] = disk[c]
    <3>1. cell \in Cells /\ ~ Done(cell)
      BY <1>1, <2>3 DEF Control, CellSteps, RunIsNewest
    <3> QED
      BY <1>1, <2>3, <3>1, WriteIsLocal
  <2>4. \/ UNCHANGED disk
        \/ RemoveEntry
        \/ step \in RunSteps /\ \E a \in Artifacts, s \in Steps : WriteThen(a, s)
    BY <1>1, ArtifactsChange
  <2> QED
    BY <2>1, <2>2, <2>3, <2>4
<1>2. CellInv /\ [Next]_vars =>
        [\A c \in Cells : command = "eval-all" /\ Done(c) => disk'[c] = disk[c]]_vars
  BY <1>1
<1> QED
  BY <1>2, Invariance, PTL DEF Spec, DoneUntouchedByEvalAll

(***************************************************************************)
(* The refinement: a cell shows the run that its meta.json names, once it  *)
(* is intact.                                                              *)
(***************************************************************************)
Shown == [c \in Cells |-> IF Intact(c) THEN disk[c]["meta"] ELSE 0]

\* Writing meta.json is the step in which a result appears.
LEMMA CommitStep ==
  ASSUME CellInv, TypeOK', WriteMeta
  PROVE  \E c \in Cells : Results!Commit(c)
<1> USE DEF CellInv
<1>1. PICK c \in Cells : c = cell
  BY WriteMetaCell
<1>2. step \in RunSteps
  BY WriteMetaCell DEF RunSteps
<1>3. Shown[c] = 0 /\ Shown'[c] = runs /\ runs > 0
  BY <1>1, <1>2, WriteMetaCommits DEF Shown, Intact, RunIsNewest
<1>4. \A d \in Cells \ {c} : Shown'[d] = Shown[d]
  BY <1>1, WriteMetaCommits DEF Shown, Intact, Done, Required
<1>5. \A d \in Cells : Shown[d] < runs
  BY <1>1, <1>2, <1>3 DEF Shown, RunIsNewest, Artifacts, TypeOK
<1>6. Shown' = [Shown EXCEPT ![c] = Shown'[c]]
  BY <1>4 DEF Shown
<1>7. Results!Commit(c)
  BY <1>3, <1>5, <1>6 DEF Results!Commit, Shown
<1> QED
  BY <1>7

\* rmtree takes away at most the result of the cell that eval was asked for.
LEMMA WithdrawStep ==
  ASSUME CellInv, TypeOK', RemoveEntry
  PROVE  Shown' = Shown \/ \E c \in Cells : Results!Withdraw(c)
<1> USE DEF CellInv
<1>1. cell \in Cells /\ step = "remove"
  BY DEF RemoveEntry, At, Control, CellSteps
<1>2. PICK c \in Cells : c = cell
  BY <1>1
<1>3. PICK a \in Artifacts :
         /\ disk[cell][a] # 0
         /\ disk' = [disk EXCEPT ![cell][a] = 0]
         /\ verdict' = IF a = "meta" THEN [verdict EXCEPT ![cell] = "none"]
                                     ELSE verdict
  BY DEF RemoveEntry
<1>4. /\ disk'[c][a] = 0
      /\ \A b \in Artifacts \ {a} : disk'[c][b] = disk[c][b]
      /\ \A d \in Cells \ {c} : disk'[d] = disk[d] /\ verdict'[d] = verdict[d]
  <2>1. disk' = [disk EXCEPT ![cell][a] = 0]
    BY <1>3
  <2> QED
    BY <1>2, <1>3, <2>1, OneArtifact DEF TypeOK
<1>5. \A d \in Cells \ {c} : Shown'[d] = Shown[d]
  BY <1>4 DEF Shown, Intact, Done, Required
<1>6. Shown'[c] \in {0, Shown[c]}
  <2>1. CASE a = "meta"
    BY <1>4, <2>1 DEF Shown, Intact, Done
  <2>2. CASE a # "meta"
    <3>1. /\ disk'[c]["meta"] = disk[c]["meta"]
          /\ verdict' = verdict
          /\ Required(c)' = Required(c)
          /\ Required(c) \subseteq Artifacts
      BY <1>3, <1>4, <2>2 DEF Required, Artifacts
    <3>2. Intact(c)' => Intact(c)
      BY <1>4, <3>1 DEF Intact, Done
    <3> QED
      BY <3>1, <3>2 DEF Shown
  <2> QED
    BY <2>1, <2>2
<1>7. CASE Shown'[c] = Shown[c]
  BY <1>5, <1>7 DEF Shown
<1>8. CASE Shown'[c] # Shown[c]
  <2>1. Shown'[c] = 0 /\ Shown[c] # 0
    BY <1>6, <1>8
  <2>2. c \in EvalCells
    BY <1>1, <1>2, <2>1 DEF Shown, Intact, Control, CellSteps
  <2>3. Shown' = [Shown EXCEPT ![c] = 0]
    BY <1>5, <2>1 DEF Shown
  <2>4. Results!Withdraw(c)
    BY <2>1, <2>2, <2>3 DEF Results!Withdraw, Shown
  <2> QED
    BY <2>4
<1> QED
  BY <1>7, <1>8

\* No other step changes what a cell shows.
LEMMA OtherStep ==
  ASSUME CellInv, [Next]_vars, ~ WriteMeta, ~ RemoveEntry
  PROVE  Shown' = Shown
<1>1. CASE UNCHANGED <<disk, verdict>>
  BY <1>1 DEF Shown, Intact, Done, Required
<1>2. CASE \/ CloneWorktree \/ Misconfigured \/ WriteRequest \/ SpawnAdapter
           \/ WriteResponse \/ DeriveDiff \/ RunVisibleTest \/ RunHiddenTest
           \/ WriteScoring \/ WriteFailureScoring
  <2>1. PICK c \in Cells : c = cell
    BY <1>2, RunWrites
  <2>2. ~ Done(c) /\ ~ Done(c)'
    BY <1>2, <2>1, RunWrites DEF Done
  <2>3. \A d \in Cells \ {c} : disk'[d] = disk[d] /\ verdict'[d] = verdict[d]
    BY <1>2, <2>1, RunWrites DEF Keep
  <2>4. \A d \in Cells : Shown'[d] = Shown[d]
    BY <2>2, <2>3 DEF Shown, Intact, Done, Required
  <2> QED
    BY <2>4 DEF Shown
<1>3. CASE \/ \E selection \in SUBSET Cells : EvalAll(selection)
           \/ \E c \in Cells : Eval(c)
           \/ EvalReport \/ PickSkip \/ PickRun \/ PickNone
           \/ RemoveDir \/ MakeDir
           \/ Collect \/ PipelineFails \/ WriteReport \/ Interrupt
  BY <1>1, <1>3 DEF EvalAll, Eval, EvalReport, Begin, PickSkip, PickRun, PickNone,
     RemoveDir, MakeDir, Collect, PipelineFails, Keep, WriteReport, Interrupt
<1>4. CASE UNCHANGED vars
  BY <1>1, <1>4 DEF vars
<1> QED
  BY <1>2, <1>3, <1>4 DEF Next, Work, RunCell, Pipeline

\* A campaign directory behaves as CellResults says: results appear in one
\* step, complete and in the order of their runs, and only eval takes one
\* away - whatever interrupts, resumes and failures happen on the way.
THEOREM Refinement == Spec => ImplementsCellResults
<1>1. Init => Results!Init
  BY DEF Init, Results!Init, Intact, Done, Artifacts
<1>2. CellInv /\ CellInv' /\ [Next]_vars => [Results!Next]_Shown
  <2> SUFFICES ASSUME CellInv, CellInv', [Next]_vars
               PROVE  Results!Next \/ Shown' = Shown
    OBVIOUS
  <2>1. CASE WriteMeta
    BY <2>1, CommitStep DEF CellInv, Results!Next
  <2>2. CASE RemoveEntry
    BY <2>2, WithdrawStep DEF CellInv, Results!Next
  <2>3. CASE ~ WriteMeta /\ ~ RemoveEntry
    BY <2>3, OtherStep
  <2> QED
    BY <2>1, <2>2, <2>3
<1> QED
  BY <1>1, <1>2, Invariance, PTL
     DEF Spec, ImplementsCellResults, Results!Spec, Shown
=============================================================================
