------------------------- MODULE CellBystandersProofs -------------------------
(***************************************************************************)
(* Proofs about CellBystanders, for every matrix, every watched cell and   *)
(* every number of interrupts and evals: what eval-status shows was the    *)
(* case, and processes left behind spoil only the worktree of their own    *)
(* run and worktrees that were made while they lived.                      *)
(***************************************************************************)
EXTENDS CellBystanders, CellLifecycleProofs

(***************************************************************************)
(* The inductive invariant, beside that of CellLifecycleProofs.            *)
(***************************************************************************)
Has(a) == disk[Watched][a] # 0
OnWatched(steps) == step \in steps /\ cell = Watched

\* error_reason is read from meta.json.
VerdictHasMeta == verdict[Watched] # "none" => Done(Watched)

\* A run comes to the diff with no diff or test result in its directory.
BeforeResults == {"clone", "precheck", "spawn", "collect", "respond", "diff"}
ResultsToCome == /\ OnWatched({"clone"}) => Empty(Watched)
                 /\ OnWatched(BeforeResults) => \A a \in Derived : ~ Has(a)

\* What was left behind is of the run that made the worktree, or intrudes.
OrphansAreOver ==
    /\ Has("repo") => orphans \subseteq intruders \cup {disk[Watched]["repo"]}
    /\ Has("repo") /\ ~ strayed => orphans \subseteq intruders

\* Edits are of the run that made the worktree, or of intruders.
EditsAreKnown ==
    /\ Has("repo") => worktree \subseteq intruders \cup {disk[Watched]["repo"]}
    /\ \A a \in Derived : Has(a) => basis[a] \subseteq intruders \cup {disk[Watched][a]}

\* Without either the worktree rests from the first derived result on.
ResultsAgree ==
    intruders = {} /\ ~ strayed =>
       /\ Has("repo") => \A a \in Derived : Has(a) => basis[a] = worktree
       /\ \A a, b \in Derived : Has(a) /\ Has(b) => basis[a] = basis[b]

CleaningIsAlone == cleaning => command = "none"

\* What eval-status saw, and what can have changed since.
ReaderBusy == reader \notin {"away", "done", "failed"}
ReaderKnows ==
    /\ ReaderBusy => Class \in since
    /\ ReaderBusy /\ Removing => removerSince
    /\ reader \in {"read", "readAgain"} => Done(Watched) \/ removerSince
    /\ reader = "dir" /\ Watched \in dirs => "partial" \in since
    /\ reader = "readAgain" =>
          /\ shown = "done-error" /\ shown \in since
          /\ verdict[Watched] # "none" \/ removerSince

BystInv == /\ CellInv
           /\ BystandersTypeOK
           /\ VerdictHasMeta
           /\ ResultsToCome
           /\ OrphansAreOver
           /\ EditsAreKnown
           /\ ResultsAgree
           /\ CleaningIsAlone
           /\ ReaderKnows
           /\ StatusTellsTruth

(***************************************************************************)
(* What a step of the harness does to the watched cell.                    *)
(***************************************************************************)
\* The step makes a the work of run n and leaves the other artifacts alone.
Only(a, n) == /\ disk'[Watched][a] = n
              /\ \A b \in Artifacts \ {a} : disk'[Watched][b] = disk[Watched][b]
Rests == /\ \A a \in Artifacts : disk'[Watched][a] = disk[Watched][a]
         /\ verdict'[Watched] = verdict[Watched]
Removes(a) == /\ RemoveEntry /\ cell = Watched /\ Has(a) /\ Only(a, 0)
              /\ verdict'[Watched] = IF a = "meta" THEN "none" ELSE verdict[Watched]
              /\ UNCHANGED <<command, step, cell, dirs, runs>>
Writes(a) == /\ cell = Watched /\ step \in RunSteps /\ Only(a, runs)
             /\ UNCHANGED <<command, dirs, runs>>
             /\ a # "meta" => verdict'[Watched] = verdict[Watched] /\ cell' = cell
             /\ a = "repo" => step = "clone" /\ step' = "precheck"
             /\ a \in Derived => /\ step \in {"diff", "visible", "hidden"}
                                 /\ step' \in {"visible", "hidden", "score"}
             /\ a \notin Derived => step \notin {"visible", "hidden"}
             /\ step = "clone" => a = "repo"
             /\ step' # "clone"

LEMMA WriteOnWatched ==
  ASSUME TypeOK, cell \in Cells, NEW a \in Artifacts, NEW s \in Steps, WriteThen(a, s)
  PROVE  /\ cell = Watched => Only(a, runs)
         /\ cell # Watched => \A b \in Artifacts : disk'[Watched][b] = disk[Watched][b]
  BY WriteIsLocal, WatchedAssumption DEF Only

\* A run's writes, one by one.
LEMMA RunWritesOne ==
  ASSUME CellInv,
         \/ CloneWorktree \/ Misconfigured \/ WriteRequest \/ SpawnAdapter
         \/ WriteResponse \/ DeriveDiff \/ RunVisibleTest \/ RunHiddenTest
         \/ WriteScoring \/ WriteFailureScoring
  PROVE  Rests \/ \E a \in Artifacts : Writes(a)
<1>1. /\ TypeOK /\ cell \in Cells /\ step \in RunSteps
      /\ UNCHANGED <<command, cell, dirs, verdict, runs>>
  BY RunWrites DEF CellInv, Keep
<1>2. PICK a \in Artifacts \ {"meta"}, s \in Steps :
         /\ WriteThen(a, s)
         /\ a = "repo" => step = "clone" /\ s = "precheck"
         /\ a \in Derived => /\ step \in {"diff", "visible", "hidden"}
                             /\ s \in {"visible", "hidden", "score"}
         /\ a \notin Derived => step \notin {"visible", "hidden"}
         /\ step = "clone" => a = "repo"
         /\ s # "clone"
  <2> USE DEF At, Artifacts, Steps, RunSteps, Derived
  <2>1. CASE CloneWorktree
    BY <2>1 DEF CloneWorktree
  <2>2. CASE Misconfigured
    BY <2>2 DEF Misconfigured
  <2>3. CASE WriteRequest
    BY <2>3 DEF WriteRequest
  <2>4. CASE SpawnAdapter
    BY <2>4 DEF SpawnAdapter
  <2>5. CASE WriteResponse
    BY <2>5 DEF WriteResponse
  <2>6. CASE DeriveDiff
    BY <2>6 DEF DeriveDiff
  <2>7. CASE RunVisibleTest
    BY <2>7 DEF RunVisibleTest
  <2>8. CASE RunHiddenTest
    BY <2>8 DEF RunHiddenTest
  <2>9. CASE WriteScoring
    BY <2>9 DEF WriteScoring
  <2>10. CASE WriteFailureScoring
    BY <2>10 DEF WriteFailureScoring
  <2> QED
    BY <2>1, <2>2, <2>3, <2>4, <2>5, <2>6, <2>7, <2>8, <2>9, <2>10
<1>3. step' = s
  BY <1>2 DEF WriteThen
<1>4. CASE cell = Watched
  <2>1. Only(a, runs)
    BY <1>1, <1>2, <1>4, WriteOnWatched
  <2>2. Writes(a)
    BY <1>1, <1>2, <1>3, <1>4, <2>1 DEF Writes
  <2> QED
    BY <2>2
<1>5. CASE cell # Watched
  BY <1>1, <1>2, <1>5, WriteOnWatched DEF Rests
<1> QED
  BY <1>4, <1>5

\* Its last write is meta.json.
LEMMA MetaWrite ==
  ASSUME CellInv, WriteMeta
  PROVE  Rests \/ Writes("meta")
<1>1. /\ TypeOK /\ cell \in Cells /\ step \in {"commit", "failCommit"}
      /\ WriteThen("meta", AfterCell) /\ AfterCell \in {"pick", "report"}
      /\ UNCHANGED <<command, dirs, runs>>
      /\ verdict' = [verdict EXCEPT ![cell] = reason]
  BY WriteMetaCell DEF CellInv, WriteMeta, AfterCell
<1>2. step' \in {"pick", "report"}
  BY <1>1 DEF WriteThen
<1>3. "meta" \in Artifacts /\ AfterCell \in Steps /\ "meta" \notin Derived
  BY <1>1 DEF Artifacts, Steps, Derived
<1>4. CASE cell = Watched
  <2>1. Only("meta", runs)
    BY <1>1, <1>3, <1>4, WriteOnWatched
  <2> QED
    BY <1>1, <1>2, <1>3, <1>4, <2>1 DEF Writes, RunSteps
<1>5. CASE cell # Watched
  <2>1. verdict'[Watched] = verdict[Watched]
    BY <1>1, <1>5, WatchedAssumption DEF TypeOK
  <2> QED
    BY <1>1, <1>3, <1>5, <2>1, WriteOnWatched DEF Rests
<1> QED
  BY <1>4, <1>5

\* rmtree removes one artifact.
LEMMA EntryRemoval ==
  ASSUME CellInv, RemoveEntry
  PROVE  Rests \/ \E a \in Artifacts : Removes(a)
<1>1. TypeOK /\ cell \in Cells /\ UNCHANGED <<command, step, cell, dirs, runs>>
  BY DEF CellInv, RemoveEntry, At, Control, CellSteps
<1>2. PICK a \in Artifacts :
         /\ disk[cell][a] # 0
         /\ disk' = [disk EXCEPT ![cell][a] = 0]
         /\ verdict' = IF a = "meta" THEN [verdict EXCEPT ![cell] = "none"]
                                     ELSE verdict
  BY DEF RemoveEntry
<1>3. /\ disk'[cell][a] = 0
      /\ \A b \in Artifacts \ {a} : disk'[cell][b] = disk[cell][b]
      /\ \A c \in Cells \ {cell} : disk'[c] = disk[c]
  <2>1. disk' = [disk EXCEPT ![cell][a] = 0]
    BY <1>2
  <2> QED
    BY <1>1, <2>1, OneArtifact
<1>4. /\ verdict'[cell] = IF a = "meta" THEN "none" ELSE verdict[cell]
      /\ \A c \in Cells \ {cell} : verdict'[c] = verdict[c]
  BY <1>1, <1>2 DEF TypeOK
<1>5. CASE cell = Watched
  <2>1. Removes(a)
    BY <1>1, <1>2, <1>3, <1>4, <1>5 DEF Removes, Only, Has
  <2> QED
    BY <2>1
<1>6. CASE cell # Watched
  BY <1>3, <1>4, <1>6, WatchedAssumption DEF Rests
<1> QED
  BY <1>5, <1>6

LEMMA StepOnWatched ==
  ASSUME CellInv, Next
  PROVE  Rests \/ \E a \in Artifacts : Removes(a) \/ Writes(a)
<1>1. CASE \/ CloneWorktree \/ Misconfigured \/ WriteRequest \/ SpawnAdapter
           \/ WriteResponse \/ DeriveDiff \/ RunVisibleTest \/ RunHiddenTest
           \/ WriteScoring \/ WriteFailureScoring
  BY <1>1, RunWritesOne
<1>2. CASE WriteMeta
  BY <1>2, MetaWrite DEF Artifacts
<1>3. CASE RemoveEntry
  BY <1>3, EntryRemoval
<1>4. CASE \/ \E selection \in SUBSET Cells : EvalAll(selection)
           \/ \E c \in Cells : Eval(c)
           \/ EvalReport \/ PickSkip \/ PickRun \/ PickNone
           \/ RemoveDir \/ MakeDir
           \/ Collect \/ PipelineFails \/ WriteReport \/ Interrupt
  <2>1. UNCHANGED <<disk, verdict>>
    BY <1>4 DEF EvalAll, Eval, EvalReport, Begin, PickSkip, PickRun, PickNone,
       RemoveDir, MakeDir, Collect, PipelineFails, Keep, WriteReport, Interrupt
  <2> QED
    BY <2>1 DEF Rests
<1> QED
  BY <1>1, <1>2, <1>3, <1>4 DEF Next, Work, RunCell, Pipeline

\* How runs go on: a new one starts in an empty directory.
RunStarts == /\ step = "mkdir" /\ step' = "clone" /\ runs' = runs + 1 /\ cell' = cell
             /\ UNCHANGED <<command, disk, verdict>> /\ Empty(cell)
             /\ dirs' = dirs \cup {cell}
RunGoesOn == /\ step \in RunSteps /\ step' # "clone" /\ UNCHANGED <<command, cell, runs>>

LEMMA RunControl ==
  ASSUME CellInv, Next
  PROVE  /\ runs' \in {runs, runs + 1}
         /\ step' \in RunSteps => RunStarts \/ RunGoesOn
         /\ step' \in BeforeResults => RunStarts \/ (RunGoesOn /\ step \in BeforeResults)
         /\ dirs' \subseteq dirs \/ RunStarts
<1> USE DEF At, Steps, RunSteps, BeforeResults
<1>1. CASE \/ \E selection \in SUBSET Cells : EvalAll(selection)
           \/ \E c \in Cells : Eval(c)
           \/ EvalReport \/ PickSkip \/ PickRun \/ PickNone
           \/ RemoveDir \/ RemoveEntry \/ WriteMeta \/ WriteReport \/ Interrupt
  <2>1. step' \notin RunSteps /\ runs' = runs /\ dirs' \subseteq dirs
    BY <1>1 DEF EvalAll, Eval, EvalReport, Begin, PickSkip, PickRun, PickNone,
       RemovalOrRun, RemoveDir, RemoveEntry, WriteMeta, WriteThen, AfterCell, WriteReport,
       Interrupt, Return
  <2> QED
    BY <2>1
<1>2. CASE MakeDir
  <2>1. RunStarts
    BY <1>2 DEF MakeDir, RunStarts, CellInv, NothingOutside
  <2> QED
    BY <2>1 DEF RunStarts
<1>3. CASE \/ CloneWorktree \/ Misconfigured \/ WriteRequest \/ SpawnAdapter
           \/ Collect \/ WriteResponse \/ DeriveDiff \/ RunVisibleTest \/ RunHiddenTest
           \/ WriteScoring \/ PipelineFails \/ WriteFailureScoring
  <2>1. Keep /\ step \in RunSteps /\ step' # "clone"
    BY <1>3 DEF CloneWorktree, Misconfigured, WriteRequest, SpawnAdapter, Collect,
       WriteResponse, DeriveDiff, RunVisibleTest, RunHiddenTest, WriteScoring,
       PipelineFails, WriteFailureScoring, WriteThen
  <2>2. step' \in BeforeResults => step \in BeforeResults
    BY <1>3 DEF CloneWorktree, Misconfigured, WriteRequest, SpawnAdapter, Collect,
       WriteResponse, DeriveDiff, RunVisibleTest, RunHiddenTest, WriteScoring,
       PipelineFails, WriteFailureScoring, WriteThen
  <2> QED
    BY <2>1, <2>2 DEF Keep, RunGoesOn
<1> QED
  BY <1>1, <1>2, <1>3 DEF Next, Work, RunCell, Pipeline

LEMMA OneMore == \A n \in Nat : /\ 1..n \subseteq 1..(n + 1) /\ n + 1 \notin 1..n
                               /\ n > 0 => n \in 1..n
  OBVIOUS

\* A process is left behind only by a run that has its worktree.
LeavesBehind == /\ step \in {"collect", "visible", "hidden"} /\ strayed' = TRUE
                /\ orphans' = orphans \cup {runs}
                /\ disk[Watched]["repo"] = runs /\ runs \in 1..runs

LEMMA OrphansAfter ==
  ASSUME CellInv, HarnessStep
  PROVE  \/ orphans' = orphans /\ strayed' = (strayed /\ ~ NewWorktree)
         \/ LeavesBehind
<1>1. PICK left \in LeftBehind : /\ orphans' = orphans \cup left
                                 /\ strayed' = (left # {} \/ (strayed /\ ~ NewWorktree))
  BY DEF HarnessStep
<1>2. CASE left = {}
  <2>1. (left # {} \/ (strayed /\ ~ NewWorktree)) = (strayed /\ ~ NewWorktree)
    BY <1>2
  <2> QED
    BY <1>1, <1>2, <2>1
<1>3. CASE left # {}
  <2>1. cell = Watched /\ step \in {"collect", "visible", "hidden"} /\ left = {runs}
    BY <1>3 DEF LeftBehind
  <2>2. runs \in Nat /\ runs > 0 /\ disk[Watched]["repo"] = runs
    BY <2>1 DEF CellInv, TypeOK, RunIsNewest, RunHasWritten, Written, RunSteps
  <2>3. strayed' = TRUE
    BY <1>1, <1>3
  <2> QED
    BY <1>1, <2>1, <2>2, <2>3, OneMore DEF LeavesBehind
<1> QED
  BY <1>2, <1>3

\* The adapter of the watched cell edits its own worktree, before any result.
LEMMA AdapterAtWork ==
  ASSUME CellInv, ResultsToCome, AdapterRuns
  PROVE  /\ disk[Watched]["repo"] = runs /\ runs \in 1..runs
         /\ \A a \in Derived : ~ Has(a)
<1>1. step = "collect" /\ cell = Watched /\ runs \in Nat /\ runs > 0
  BY DEF AdapterRuns, CellInv, TypeOK, RunIsNewest, RunSteps
<1>2. disk[Watched]["repo"] = runs
  BY <1>1 DEF CellInv, RunHasWritten, Written, RunSteps
<1>3. \A a \in Derived : ~ Has(a)
  BY <1>1 DEF ResultsToCome, OnWatched, BeforeResults
<1> QED
  BY <1>1, <1>2, <1>3, OneMore

-----------------------------------------------------------------------------
(***************************************************************************)
(* The harness keeps the invariant.                                        *)
(***************************************************************************)
LEMMA FollowTypes ==
  ASSUME BystandersTypeOK, Follow, 1..runs \subseteq 1..runs',
         orphans' \subseteq 1..runs', strayed' \in BOOLEAN, cleaning' \in BOOLEAN
  PROVE  BystandersTypeOK'
<1>1. worktree' \subseteq 1..runs'
  BY DEF Follow, BystandersTypeOK
<1>2. intruders' \subseteq 1..runs'
  BY DEF Follow, BystandersTypeOK
<1>3. basis' \in [Derived -> SUBSET (1..runs')]
  BY DEF Follow, BystandersTypeOK
<1>4. since' \subseteq Classes
  BY DEF Follow, BystandersTypeOK, Class, Classes
<1>5. removerSince' \in BOOLEAN
  <2>1. (removerSince \/ Removing') \in BOOLEAN
    OBVIOUS
  <2>2. removerSince' = removerSince \/ removerSince' = (removerSince \/ Removing')
    BY Zenon DEF Follow
  <2> QED
    BY <2>1, <2>2, Zenon DEF BystandersTypeOK
<1>6. UNCHANGED <<reader, shown, shownReason>>
  BY DEF Follow
<1> QED
  BY <1>1, <1>2, <1>3, <1>4, <1>5, <1>6 DEF BystandersTypeOK

LEMMA HarnessTypes ==
  ASSUME BystInv, HarnessStep
  PROVE  BystandersTypeOK'
<1>1. CellInv /\ BystandersTypeOK /\ Next /\ ResultsToCome
  BY DEF BystInv, HarnessStep
<1>2. CellInv'
  BY <1>1, NextInv
<1>3. 1..runs \subseteq 1..runs'
  BY <1>1, RunControl, OneMore DEF CellInv, TypeOK
<1>4. orphans' \subseteq 1..runs'
  BY <1>1, <1>3, OrphansAfter DEF BystandersTypeOK, LeavesBehind
<1>5. strayed' \in BOOLEAN
  <2>1. (strayed /\ ~ NewWorktree) \in BOOLEAN
    OBVIOUS
  <2> QED
    BY <1>1, <2>1, OrphansAfter, Zenon DEF LeavesBehind
<1>6. Follow /\ cleaning' \in BOOLEAN
  BY <1>1 DEF HarnessStep, BystandersTypeOK
<1> QED
  BY <1>1, <1>3, <1>4, <1>5, <1>6, FollowTypes

LEMMA HarnessResults ==
  ASSUME BystInv, HarnessStep
  PROVE  VerdictHasMeta' /\ ResultsToCome'
<1>1. CellInv /\ VerdictHasMeta /\ Next /\ ResultsToCome
  BY DEF BystInv, HarnessStep
<1>2. "meta" \in Artifacts /\ "meta" \notin Derived /\ Derived \subseteq Artifacts
  BY DEF Artifacts, Derived
<1>3. VerdictHasMeta'
  <2>1. CASE Rests
    BY <1>1, <1>2, <2>1 DEF Rests, VerdictHasMeta, Done
  <2>2. ASSUME NEW a \in Artifacts, Removes(a)
        PROVE  VerdictHasMeta'
    BY <1>1, <1>2, <2>2 DEF Removes, Only, VerdictHasMeta, Done
  <2>3. ASSUME NEW a \in Artifacts, Writes(a)
        PROVE  VerdictHasMeta'
    <3>1. runs # 0
      BY <1>1, <2>3 DEF Writes, CellInv, RunIsNewest
    <3> QED
      BY <1>1, <1>2, <2>3, <3>1 DEF Writes, Only, VerdictHasMeta, Done
  <2> QED
    BY <1>1, <2>1, <2>2, <2>3, StepOnWatched
<1>4. ResultsToCome'
  <2>1. CASE RunStarts
    BY <2>1 DEF RunStarts, ResultsToCome, OnWatched, Empty, Has, Derived, Artifacts
  <2>2. CASE RunGoesOn /\ step \in BeforeResults /\ step' \in BeforeResults
    <3>1. step' # "clone" /\ cell' = cell
      BY <2>2 DEF RunGoesOn
    <3>2. SUFFICES ASSUME cell = Watched, NEW a \in Derived
                   PROVE  disk'[Watched][a] = 0
      BY <3>1 DEF ResultsToCome, OnWatched, Has
    <3>3. disk[Watched][a] = 0
      BY <1>1, <2>2, <3>2 DEF ResultsToCome, OnWatched, Has
    <3>4. ~ Writes(a)
      BY <2>2 DEF Writes, BeforeResults
    <3>5. Rests \/ Removes(a) \/ \E b \in Artifacts \ {a} : Removes(b) \/ Writes(b)
      BY <1>1, <3>4, StepOnWatched
    <3> QED
      BY <1>2, <3>3, <3>5 DEF Rests, Removes, Writes, Only, Has
  <2>3. CASE step' \notin BeforeResults
    BY <2>3 DEF ResultsToCome, OnWatched, BeforeResults
  <2> QED
    BY <1>1, <2>1, <2>2, <2>3, RunControl
<1> QED
  BY <1>3, <1>4

\* Writing a result, a run finds the worktree it cloned.
LEMMA ResultWriter ==
  ASSUME BystInv, NEW a \in Artifacts, Writes(a), a \in Derived \cup {"repo"}
  PROVE  /\ runs # 0
         /\ a \in Derived => disk[Watched]["repo"] = runs /\ disk'[Watched]["repo"] = runs
         /\ a = "repo" => Empty(Watched) /\ step = "clone"
<1>1. /\ CellInv /\ ResultsToCome
      /\ step \in RunSteps /\ cell = Watched
      /\ a \in Derived => step \in {"diff", "visible", "hidden"}
      /\ a = "repo" => step = "clone"
      /\ \A b \in Artifacts \ {a} : disk'[Watched][b] = disk[Watched][b]
  BY DEF BystInv, Writes, Only
<1>2. runs # 0
  BY <1>1 DEF CellInv, RunIsNewest
<1>3. a \in Derived => disk[Watched]["repo"] = runs
  BY <1>1 DEF CellInv, RunHasWritten, Written, RunSteps
<1>4. "repo" \in Artifacts /\ "repo" \notin Derived
  BY DEF Artifacts, Derived
<1> QED
  BY <1>1, <1>2, <1>3, <1>4 DEF ResultsToCome, OnWatched

\* Clearing up only removes, and ends nobody.
OnlyLess == /\ UNCHANGED <<orphans, strayed, intruders>>
            /\ \A b \in Artifacts : Has(b)' => Has(b) /\ disk'[Watched][b] = disk[Watched][b]
            /\ \A b \in Derived : Has(b)' => basis'[b] = basis[b]
            /\ Has("repo")' => worktree' = worktree

LEMMA LessIsFine ==
  ASSUME BystInv, OnlyLess
  PROVE  OrphansAreOver' /\ EditsAreKnown' /\ ResultsAgree'
<1>1. /\ OrphansAreOver /\ EditsAreKnown /\ ResultsAgree
      /\ "repo" \in Artifacts /\ Derived \subseteq Artifacts
  BY DEF BystInv, Artifacts, Derived
<1>2. OrphansAreOver'
  BY <1>1 DEF OnlyLess, OrphansAreOver
<1>3. EditsAreKnown'
  BY <1>1 DEF OnlyLess, EditsAreKnown
<1>4. ResultsAgree'
  BY <1>1 DEF OnlyLess, ResultsAgree
<1> QED
  BY <1>2, <1>3, <1>4

LEMMA FollowLess ==
  ASSUME BystInv, Follow, UNCHANGED <<orphans, strayed>>,
         \A b \in Artifacts : disk'[Watched][b] \in {0, disk[Watched][b]}
  PROVE  OnlyLess
<1>1. "repo" \in Artifacts /\ Derived \subseteq Artifacts
  BY DEF Artifacts, Derived
<1>2. \A b \in Artifacts : Has(b)' => Has(b) /\ disk'[Watched][b] = disk[Watched][b]
  BY DEF Has
<1>3. intruders' = intruders
  BY <1>1 DEF Follow, NewWorktree, Changed
<1>4. \A b \in Derived : Has(b)' => basis'[b] = basis[b]
  BY <1>1, <1>2 DEF Follow, Changed
<1>5. Has("repo")' => worktree' = worktree
  BY <1>1, <1>2 DEF Follow, Changed
<1> QED
  BY <1>2, <1>3, <1>4, <1>5 DEF OnlyLess

LEMMA RemovalOnly ==
  ASSUME BystInv, HarnessStep, NEW a \in Artifacts, Removes(a)
  PROVE  OnlyLess
<1>1. /\ step = "remove" /\ Only(a, 0) /\ Follow
      /\ "repo" \in Artifacts
  BY DEF Removes, RemoveEntry, At, Artifacts, HarnessStep
<1>2. \A b \in Artifacts : disk'[Watched][b] \in {0, disk[Watched][b]}
  BY <1>1 DEF Only
<1>3. ~ NewWorktree
  BY <1>1, <1>2 DEF NewWorktree, Changed
<1>4. orphans' = orphans /\ strayed' = strayed
  <2>1. orphans' = orphans /\ strayed' = (strayed /\ ~ NewWorktree)
    BY <1>1, OrphansAfter DEF LeavesBehind, BystInv
  <2>2. strayed \in BOOLEAN
    BY DEF BystInv, BystandersTypeOK
  <2>3. (strayed /\ ~ NewWorktree) = strayed
    BY <1>3, <2>2, Zenon
  <2> QED
    BY <2>1, <2>3
<1> QED
  BY <1>1, <1>2, <1>4, FollowLess

\* The clone is the work of the new run alone.
LEMMA CloneOnly ==
  ASSUME BystInv, HarnessStep, Writes("repo")
  PROVE  /\ orphans' = orphans /\ intruders' = orphans /\ worktree' = {}
         /\ \A b \in Derived : ~ Has(b)'
<1>1. "repo" \in Artifacts /\ "repo" \notin Derived /\ Derived \subseteq Artifacts
  BY DEF Artifacts, Derived
<1>2. /\ runs # 0 /\ Empty(Watched) /\ step = "clone"
      /\ disk'[Watched]["repo"] = runs
      /\ \A b \in Artifacts \ {"repo"} : disk'[Watched][b] = disk[Watched][b]
  BY <1>1, ResultWriter DEF Writes, Only
<1>3. \A b \in Derived : ~ Has(b)'
  BY <1>1, <1>2 DEF Empty, Has
<1>4. Changed("repo") /\ NewWorktree
  BY <1>1, <1>2 DEF Changed, NewWorktree, Empty
<1>5. orphans' = orphans
  BY <1>2, OrphansAfter DEF LeavesBehind, BystInv
<1> QED
  BY <1>3, <1>4, <1>5 DEF HarnessStep, Follow

\* A result rests on the worktree as it is.
LEMMA ResultOnly ==
  ASSUME BystInv, HarnessStep, NEW a \in Artifacts, Writes(a), a # "repo"
  PROVE  /\ intruders' = intruders /\ worktree' = worktree /\ ~ NewWorktree
         /\ disk'[Watched]["repo"] = disk[Watched]["repo"]
         /\ a \in Derived => /\ disk'[Watched][a] = runs
                             /\ basis'[a] = worktree \/ (basis'[a] = basis[a] /\ Has(a))
         /\ \A b \in Derived \ {a} : basis'[b] = basis[b]
         /\ \A b \in Derived \ {a} : disk'[Watched][b] = disk[Watched][b]
<1>1. /\ "repo" \in Artifacts /\ Derived \subseteq Artifacts
      /\ disk'[Watched][a] = runs
      /\ \A b \in Artifacts \ {a} : disk'[Watched][b] = disk[Watched][b]
  BY DEF Artifacts, Derived, Writes, Only
<1>2. Follow
  BY DEF HarnessStep
<1>3. ~ Changed("repo") /\ ~ NewWorktree /\ \A b \in Derived \ {a} : ~ Changed(b)
  BY <1>1 DEF Changed, NewWorktree
<1>4. intruders' = intruders /\ worktree' = worktree
  BY <1>2, <1>3 DEF Follow
<1>5. \A b \in Derived \ {a} : basis'[b] = basis[b]
  BY <1>2, <1>3 DEF Follow, BystInv, BystandersTypeOK
<1>6. ASSUME a \in Derived
      PROVE  basis'[a] = worktree \/ (basis'[a] = basis[a] /\ Has(a))
  <2>1. disk'[Watched][a] # 0
    BY <1>1, <1>6, ResultWriter
  <2> QED
    BY <1>2, <1>6, <2>1 DEF Follow, Changed, Has
<1> QED
  BY <1>1, <1>3, <1>4, <1>5, <1>6

\* Nothing happens to the watched cell, but its run may leave a process.
LEMMA RestOnly ==
  ASSUME BystInv, HarnessStep, Rests
  PROVE  /\ intruders' = intruders /\ worktree' = worktree /\ ~ NewWorktree
         /\ \A b \in Derived : basis'[b] = basis[b]
         /\ \A b \in Artifacts : disk'[Watched][b] = disk[Watched][b]
<1>1. \A b \in Artifacts : ~ Changed(b)
  BY DEF Rests, Changed
<1>2. "repo" \in Artifacts /\ Derived \subseteq Artifacts
  BY DEF Artifacts, Derived
<1> QED
  BY <1>1, <1>2 DEF HarnessStep, Follow, NewWorktree, Rests, BystInv, BystandersTypeOK

\* As long as the worktree stays, whoever is new among the left behind is of its
\* run.
LEMMA SameWorktree ==
  ASSUME BystInv, HarnessStep, ~ NewWorktree, intruders' = intruders,
         disk'[Watched]["repo"] = disk[Watched]["repo"]
  PROVE  OrphansAreOver' /\ (~ strayed' => ~ strayed)
<1>1. OrphansAreOver /\ strayed \in BOOLEAN
  BY DEF BystInv, BystandersTypeOK
<1>2. CASE orphans' = orphans /\ strayed' = (strayed /\ ~ NewWorktree)
  <2>1. strayed' = strayed
    <3>1. (strayed /\ ~ NewWorktree) = strayed
      BY <1>1, Zenon
    <3> QED
      BY <1>2, <3>1
  <2> QED
    BY <1>1, <1>2, <2>1 DEF OrphansAreOver, Has
<1>3. CASE LeavesBehind
  BY <1>1, <1>3 DEF LeavesBehind, OrphansAreOver, Has
<1> QED
  BY <1>2, <1>3, OrphansAfter DEF BystInv

LEMMA HarnessEdits ==
  ASSUME BystInv, HarnessStep
  PROVE  OrphansAreOver' /\ EditsAreKnown' /\ ResultsAgree'
<1>1. /\ CellInv /\ EditsAreKnown /\ ResultsAgree /\ Next
      /\ "repo" \in Artifacts /\ Derived \subseteq Artifacts
  BY DEF BystInv, HarnessStep, Artifacts, Derived
<1>2. CASE Rests
  <2>1. OrphansAreOver' /\ (~ strayed' => ~ strayed)
    BY <1>1, <1>2, RestOnly, SameWorktree
  <2>2. EditsAreKnown'
    BY <1>1, <1>2, RestOnly DEF EditsAreKnown, Has
  <2>3. ResultsAgree'
    BY <1>1, <1>2, <2>1, RestOnly DEF ResultsAgree, Has
  <2> QED
    BY <2>1, <2>2, <2>3
<1>3. ASSUME NEW a \in Artifacts, Removes(a)
      PROVE  OrphansAreOver' /\ EditsAreKnown' /\ ResultsAgree'
  BY <1>3, RemovalOnly, LessIsFine
<1>4. CASE Writes("repo")
  BY <1>4, CloneOnly DEF OrphansAreOver, EditsAreKnown, ResultsAgree
<1>5. ASSUME NEW a \in Artifacts, Writes(a), a # "repo"
      PROVE  OrphansAreOver' /\ EditsAreKnown' /\ ResultsAgree'
  <2>1. /\ intruders' = intruders /\ worktree' = worktree /\ ~ NewWorktree
        /\ disk'[Watched]["repo"] = disk[Watched]["repo"]
        /\ a \in Derived => /\ disk'[Watched][a] = runs
                            /\ basis'[a] = worktree \/ (basis'[a] = basis[a] /\ Has(a))
        /\ \A b \in Derived \ {a} : basis'[b] = basis[b]
        /\ \A b \in Derived \ {a} : disk'[Watched][b] = disk[Watched][b]
    BY <1>5, ResultOnly
  <2>2. a \in Derived => disk[Watched]["repo"] = runs /\ runs # 0
    BY <1>5, ResultWriter
  <2>3. Has("repo") => worktree \subseteq intruders \cup {disk[Watched]["repo"]}
    BY <1>1 DEF EditsAreKnown
  <2>4. \A b \in Derived : Has(b) => basis[b] \subseteq intruders \cup {disk[Watched][b]}
    BY <1>1 DEF EditsAreKnown
  <2>5. a \in Derived => Has("repo")
    BY <2>2 DEF Has
  <2>6. a \in Derived /\ Has(a) => disk[Watched][a] = runs
    BY <1>1, <1>5 DEF Has, Writes, CellInv, RunIsNewest
  <2>7. EditsAreKnown'
    <3>1. \A b \in Derived \ {a} : Has(b)' =>
             basis'[b] \subseteq intruders' \cup {disk'[Watched][b]}
      BY <2>1, <2>4 DEF Has
    <3>2. a \in Derived => basis'[a] \subseteq intruders' \cup {disk'[Watched][a]}
      BY <2>1, <2>2, <2>3, <2>4, <2>5, <2>6
    <3>3. Has("repo")' => worktree' \subseteq intruders' \cup {disk'[Watched]["repo"]}
      BY <2>1, <2>3 DEF Has
    <3> QED
      BY <3>1, <3>2, <3>3 DEF EditsAreKnown
  <2>8. OrphansAreOver' /\ (~ strayed' => ~ strayed)
    BY <2>1, SameWorktree
  <2>9. ResultsAgree'
    <3>1. SUFFICES ASSUME intruders = {}, ~ strayed
                   PROVE  /\ Has("repo")' =>
                               \A b \in Derived : Has(b)' => basis'[b] = worktree'
                          /\ \A b, c \in Derived :
                                Has(b)' /\ Has(c)' => basis'[b] = basis'[c]
      BY <2>1, <2>8 DEF ResultsAgree
    <3>2. /\ Has("repo") => \A b \in Derived : Has(b) => basis[b] = worktree
          /\ \A b, c \in Derived : Has(b) /\ Has(c) => basis[b] = basis[c]
      BY <1>1, <3>1 DEF ResultsAgree
    <3>3. \A b \in Derived \ {a} : Has(b)' => Has(b) /\ basis'[b] = basis[b]
      BY <2>1 DEF Has
    <3>4. Has("repo")' => Has("repo")
      BY <2>1 DEF Has
    <3>5. a \in Derived => basis'[a] = worktree
      BY <2>1, <2>5, <3>2
    <3> QED
      BY <2>1, <2>5, <3>2, <3>3, <3>4, <3>5
  <2> QED
    BY <2>7, <2>8, <2>9
<1> QED
  BY <1>1, <1>2, <1>3, <1>4, <1>5, StepOnWatched

\* A done cell loses its result, or gets another, only under eval.
LEMMA DoneLost ==
  ASSUME CellInv, Next, Done(Watched)
  PROVE  \/ Done(Watched)' /\ verdict'[Watched] = verdict[Watched]
         \/ command' = "eval"
<1>1. "meta" \in Artifacts
  BY DEF Artifacts
<1>2. CASE Rests
  BY <1>1, <1>2 DEF Rests, Done
<1>3. ASSUME NEW a \in Artifacts, Removes(a)
      PROVE  command' = "eval"
  <2>1. step = "remove" /\ cell = Watched /\ command' = command
    BY <1>3 DEF Removes, RemoveEntry, At
  <2> QED
    BY <2>1 DEF CellInv, Control, CellSteps
<1>4. ASSUME NEW a \in Artifacts, Writes(a)
      PROVE  FALSE
  BY <1>4 DEF Writes, CellInv, RunIsNewest
<1> QED
  BY <1>2, <1>3, <1>4, StepOnWatched

LEMMA ClassIsOne ==
  ASSUME CellInv, VerdictHasMeta
  PROVE  /\ Watched \notin dirs => Class = "missing"
         /\ ~ Done(Watched) /\ Watched \in dirs => Class = "partial"
         /\ Done(Watched) => Class = IF verdict[Watched] = "none" THEN "done-ok"
                                                                 ELSE "done-error"
<1>1. Watched \notin dirs => ~ Done(Watched)
  BY WatchedAssumption DEF CellInv, NothingOutside, Empty, Done, Artifacts
<1> QED
  BY <1>1 DEF Class, VerdictHasMeta

LEMMA HarnessReader ==
  ASSUME BystInv, HarnessStep
  PROVE  ReaderKnows' /\ StatusTellsTruth'
<1>1. /\ CellInv /\ VerdictHasMeta /\ ReaderKnows /\ StatusTellsTruth /\ Next
      /\ Follow /\ ~ cleaning' /\ UNCHANGED <<reader, shown, shownReason>>
  BY DEF BystInv, HarnessStep, Follow
<1>2. CellInv' /\ VerdictHasMeta'
  BY <1>1, NextInv, HarnessResults
<1>3. CASE ~ ReaderBusy
  <2>1. UNCHANGED <<since, removerSince>>
    BY <1>1, <1>3 DEF Follow, ReaderBusy
  <2> QED
    BY <1>1, <1>3, <2>1 DEF ReaderBusy, ReaderKnows, StatusTellsTruth
<1>4. CASE ReaderBusy
  <2>1. /\ since' = since \cup {Class'}
        /\ removerSince' = (removerSince \/ Removing')
    BY <1>1, <1>4 DEF Follow, ReaderBusy
  <2>2. (removerSince => removerSince') /\ (command' = "eval" => removerSince')
    BY <2>1, Zenon DEF Removing
  <2>8. Removing' => removerSince'
    BY <2>1, Zenon
  <2>3. \/ Done(Watched) /\ Done(Watched)' /\ verdict'[Watched] = verdict[Watched]
        \/ ~ Done(Watched)
        \/ removerSince'
    BY <1>1, <2>2, DoneLost
  <2>4. reader \in {"read", "readAgain"} => Done(Watched)' \/ removerSince'
    BY <1>1, <2>2, <2>3 DEF ReaderKnows
  <2>5. reader = "readAgain" =>
           /\ shown = "done-error" /\ shown \in since'
           /\ verdict'[Watched] # "none" \/ removerSince'
    BY <1>1, <2>1, <2>2, <2>3 DEF ReaderKnows
  <2>6. reader = "dir" /\ Watched \in dirs' => "partial" \in since'
    <3>1. CASE dirs' \subseteq dirs
      BY <1>1, <2>1, <3>1 DEF ReaderKnows
    <3>2. CASE RunStarts
      <4>1. Watched # cell => (Watched \in dirs' => Watched \in dirs)
        BY <3>2 DEF RunStarts
      <4>2. Watched = cell => ~ Done(Watched)'
        BY <3>2 DEF RunStarts, Empty, Done, Artifacts
      <4>3. ~ Done(Watched)' /\ Watched \in dirs' => Class' = "partial"
        BY <1>2, ClassIsOne DEF Class, VerdictHasMeta
      <4> QED
        BY <1>1, <2>1, <4>1, <4>2, <4>3 DEF ReaderKnows
    <3> QED
      BY <1>1, <3>1, <3>2, RunControl
  <2>7. ReaderKnows'
    BY <1>1, <2>1, <2>8, <2>4, <2>5, <2>6 DEF ReaderKnows
  <2> QED
    BY <1>1, <1>4, <2>7 DEF StatusTellsTruth, ReaderBusy
<1> QED
  BY <1>3, <1>4

LEMMA HarnessInv == BystInv /\ HarnessStep => BystInv'
<1> SUFFICES ASSUME BystInv, HarnessStep
             PROVE  BystInv'
  OBVIOUS
<1>1. CellInv' /\ CleaningIsAlone'
  BY NextInv DEF BystInv, HarnessStep, CleaningIsAlone
<1> QED
  BY <1>1, HarnessTypes, HarnessResults, HarnessEdits, HarnessReader DEF BystInv

-----------------------------------------------------------------------------
(***************************************************************************)
(* So does eval-clean-runs, which removes only, with no command at work.   *)
(***************************************************************************)
Cleans == EvalCleanRuns \/ CleanStep \/ CleanKilled

LEMMA CleanEffect ==
  ASSUME BystInv, Cleans
  PROVE  /\ command = "none" /\ step = "idle"
         /\ UNCHANGED <<command, step, cell, reason, runs, todo, evals, orphans, strayed>>
         /\ Follow /\ cleaning' \in BOOLEAN /\ dirs' \subseteq dirs
         /\ interrupts' \in 0..MaxInterrupts /\ report' \in [Cells -> Nat]
         /\ disk' \in [Cells -> [Artifacts -> Nat]] /\ verdict' \in [Cells -> Reasons]
         /\ \A c \in Cells, a \in Artifacts : disk'[c][a] \in {0, disk[c][a]}
         /\ \A c \in dirs \ dirs', a \in Artifacts : disk'[c][a] = 0
         /\ verdict'[Watched] \in {"none", verdict[Watched]}
         /\ ~ Done(Watched)' => verdict'[Watched] = "none"
<1>1. /\ command = "none" /\ step = "idle" /\ TypeOK /\ VerdictHasMeta
  BY DEF BystInv, CellInv, Control, CleaningIsAlone, Cleans, EvalCleanRuns, CleanStep,
         CleanKilled
<1>2. CASE EvalCleanRuns
  BY <1>1, <1>2, WatchedAssumption DEF EvalCleanRuns, vars, TypeOK, VerdictHasMeta, Done
<1>3. CASE CleanKilled
  <2>1. interrupts + 1 \in 0..MaxInterrupts
    BY <1>1, <1>3, CellsAssumption DEF CleanKilled, TypeOK
  <2> QED
    BY <1>1, <1>3, <2>1, WatchedAssumption DEF CleanKilled, TypeOK, VerdictHasMeta, Done
<1>4. CASE CleanStep
  <2>1. /\ UNCHANGED <<command, step, todo, cell, reason, runs, interrupts, evals,
                       orphans, strayed, cleaning>>
        /\ Follow /\ cleaning
    BY <1>4 DEF CleanStep
  <2>2. CASE CleanEntry
    <3>1. PICK c \in Cells, gone \in SUBSET Artifacts :
             /\ disk' = [disk EXCEPT ![c] =
                            [a \in Artifacts |-> IF a \in gone THEN 0 ELSE disk[c][a]]]
             /\ verdict' = [verdict EXCEPT ![c] = IF "meta" \in gone THEN "none" ELSE @]
             /\ UNCHANGED <<dirs, report>>
      <4>1. {{a} : a \in Artifacts \ Unseen} \cup {Unseen} \subseteq SUBSET Artifacts
        BY DEF Artifacts, Unseen
      <4> QED
        BY <2>2, <4>1 DEF CleanEntry
    <3>2. /\ disk' \in [Cells -> [Artifacts -> Nat]]
          /\ \A a \in Artifacts : disk'[c][a] = IF a \in gone THEN 0 ELSE disk[c][a]
          /\ \A d \in Cells \ {c} : disk'[d] = disk[d]
      BY <1>1, <3>1 DEF TypeOK
    <3>3. \A d \in Cells, a \in Artifacts : disk'[d][a] \in {0, disk[d][a]}
      BY <3>2
    <3>4. verdict' \in [Cells -> Reasons]
      BY <1>1, <3>1 DEF TypeOK, Reasons
    <3>5. /\ verdict'[c] = IF "meta" \in gone THEN "none" ELSE verdict[c]
          /\ \A d \in Cells \ {c} : verdict'[d] = verdict[d]
      BY <1>1, <3>1 DEF TypeOK
    <3>6. /\ verdict'[Watched] \in {"none", verdict[Watched]}
          /\ ~ Done(Watched)' => verdict'[Watched] = "none"
      <4>1. "meta" \in Artifacts
        BY DEF Artifacts
      <4> QED
        BY <1>1, <3>2, <3>5, <4>1, WatchedAssumption DEF VerdictHasMeta, Done
    <3> QED
      BY <1>1, <2>1, <3>1, <3>2, <3>3, <3>4, <3>6 DEF TypeOK
  <2>3. CASE CleanDir \/ CleanReport
    <3>1. /\ UNCHANGED <<disk, verdict>>
          /\ dirs' \subseteq dirs /\ report' \in [Cells -> Nat]
          /\ \A c \in dirs \ dirs' : Empty(c)
      BY <1>1, <2>3 DEF CleanDir, CleanReport, TypeOK
    <3> QED
      BY <1>1, <2>1, <3>1, WatchedAssumption DEF TypeOK, Empty, VerdictHasMeta, Done
  <2> QED
    BY <1>4, <2>2, <2>3 DEF CleanStep
<1> QED
  BY <1>2, <1>3, <1>4 DEF Cleans

LEMMA CleanCells ==
  ASSUME BystInv, Cleans
  PROVE  CellInv' /\ VerdictHasMeta' /\ ResultsToCome'
<1>1. CellInv
  BY DEF BystInv
<1>2. TypeOK'
  BY <1>1, CleanEffect DEF CellInv, TypeOK
<1>3. Control' /\ RunHasWritten'
  BY <1>1, CleanEffect DEF CellInv, Control, RunHasWritten, CellSteps, RunSteps
<1>4. NothingOutside'
  <2>1. ASSUME NEW c \in Cells \ dirs', NEW a \in Artifacts
        PROVE  disk'[c][a] = 0
    BY <1>1, <2>1, CleanEffect DEF CellInv, NothingOutside, Empty
  <2> QED
    BY <2>1, CleanEffect DEF NothingOutside, Empty, RunSteps
<1>5. RunIsNewest'
  BY <1>1, CleanEffect DEF CellInv, RunIsNewest, RunSteps, TypeOK
<1>6. DoneIsUnmixed'
  <2>1. "meta" \in Artifacts
    BY DEF Artifacts
  <2> QED
    BY <1>1, <2>1, CleanEffect DEF CellInv, DoneIsUnmixed, Done
<1>7. VerdictHasMeta' /\ ResultsToCome'
  BY CleanEffect DEF VerdictHasMeta, ResultsToCome, OnWatched, BeforeResults
<1> QED
  BY <1>2, <1>3, <1>4, <1>5, <1>6, <1>7 DEF CellInv

LEMMA CleanReader ==
  ASSUME BystInv, Cleans
  PROVE  ReaderKnows' /\ StatusTellsTruth' /\ CleaningIsAlone'
<1>1. /\ ReaderKnows /\ StatusTellsTruth /\ Follow
      /\ UNCHANGED <<command, reader, shown, shownReason>> /\ command = "none"
      /\ dirs' \subseteq dirs
  BY CleanEffect DEF BystInv, Follow
<1>2. CASE ~ ReaderBusy
  <2>1. UNCHANGED <<since, removerSince>>
    BY <1>1, <1>2 DEF Follow, ReaderBusy
  <2> QED
    BY <1>1, <1>2, <2>1 DEF ReaderBusy, ReaderKnows, StatusTellsTruth, CleaningIsAlone
<1>3. CASE ReaderBusy
  <2>1. /\ since' = since \cup {Class'}
        /\ removerSince' = (removerSince \/ Removing')
    BY <1>1, <1>3 DEF Follow, ReaderBusy
  <2>2. cleaning \/ cleaning'
    BY DEF Cleans, EvalCleanRuns, CleanStep, CleanKilled
  <2>3. removerSince'
    BY <1>1, <1>3, <2>1, <2>2, Zenon DEF ReaderKnows, Removing
  <2> QED
    BY <1>1, <1>3, <2>1, <2>3
       DEF ReaderBusy, ReaderKnows, StatusTellsTruth, CleaningIsAlone
<1> QED
  BY <1>2, <1>3

LEMMA CleansInv == BystInv /\ Cleans => BystInv'
<1> SUFFICES ASSUME BystInv, Cleans
             PROVE  BystInv'
  OBVIOUS
<1>1. BystandersTypeOK'
  BY CleanEffect, FollowTypes DEF BystInv, BystandersTypeOK
<1>2. OnlyLess
  BY CleanEffect, FollowLess, WatchedAssumption
<1> QED
  BY <1>1, <1>2, CleanCells, CleanReader, LessIsFine DEF BystInv

-----------------------------------------------------------------------------
(***************************************************************************)
(* So do the adapters and eval-status.                                     *)
(***************************************************************************)
\* Steps that leave the harness alone keep what is known of it.
LEMMA HarnessAlone ==
  ASSUME BystInv, UNCHANGED vars
  PROVE  /\ CellInv' /\ VerdictHasMeta' /\ ResultsToCome'
         /\ UNCHANGED cleaning => CleaningIsAlone'
<1>1. CellInv'
  BY NextInv DEF BystInv
<1> QED
  BY <1>1 DEF BystInv, vars, CleaningIsAlone, VerdictHasMeta, ResultsToCome, OnWatched, Done,
              Empty, Has

LEMMA EditInv == BystInv /\ Edit => BystInv'
<1> SUFFICES ASSUME BystInv, Edit
             PROVE  BystInv'
  OBVIOUS
<1>1. /\ CellInv /\ BystandersTypeOK /\ OrphansAreOver /\ EditsAreKnown /\ ResultsAgree
      /\ ReaderKnows /\ StatusTellsTruth /\ ResultsToCome
  BY DEF BystInv
<1>2. /\ UNCHANGED vars
      /\ UNCHANGED <<orphans, strayed, basis, intruders, cleaning, status>>
      /\ Has("repo")
  BY DEF Edit, Has
<1>3. PICK r \in orphans \cup (IF AdapterRuns THEN {runs} ELSE {}) :
         worktree' = worktree \cup {r}
  BY DEF Edit
<1>4. r \in orphans \/ (AdapterRuns /\ r = runs)
  BY <1>3
<1>5. /\ r \in 1..runs
      /\ r \in intruders \cup {disk[Watched]["repo"]}
      /\ ~ strayed => r \in intruders \/ \A a \in Derived : ~ Has(a)
  <2>1. CASE r \in orphans
    BY <1>1, <1>2, <2>1 DEF OrphansAreOver, BystandersTypeOK
  <2>2. CASE AdapterRuns /\ r = runs
    BY <1>1, <2>2, AdapterAtWork
  <2> QED
    BY <1>4, <2>1, <2>2
<1>6. CellInv' /\ VerdictHasMeta' /\ ResultsToCome' /\ CleaningIsAlone'
  BY <1>2, HarnessAlone
<1>7. BystandersTypeOK'
  BY <1>1, <1>2, <1>3, <1>5 DEF BystandersTypeOK, vars, status
<1>8. OrphansAreOver'
  BY <1>1, <1>2 DEF OrphansAreOver, vars, Has
<1>9. EditsAreKnown'
  BY <1>1, <1>2, <1>3, <1>5 DEF EditsAreKnown, vars, Has
<1>10. ResultsAgree'
  BY <1>1, <1>2, <1>3, <1>5 DEF ResultsAgree, vars, Has
<1>11. ReaderKnows' /\ StatusTellsTruth'
  BY <1>1, <1>2 DEF ReaderKnows, StatusTellsTruth, ReaderBusy, Class, Done, Removing,
                 vars, status
<1> QED
  BY <1>6, <1>7, <1>8, <1>9, <1>10, <1>11 DEF BystInv

LEMMA OrphanEndsInv == BystInv /\ OrphanEnds => BystInv'
<1> SUFFICES ASSUME BystInv, OrphanEnds
             PROVE  BystInv'
  OBVIOUS
<1>1. /\ UNCHANGED vars
      /\ UNCHANGED <<strayed, worktree, basis, intruders, cleaning, status>>
      /\ orphans' \subseteq orphans
  BY DEF OrphanEnds
<1>2. CellInv' /\ VerdictHasMeta' /\ ResultsToCome' /\ CleaningIsAlone'
  BY <1>1, HarnessAlone
<1>3. BystandersTypeOK'
  BY <1>1 DEF BystInv, BystandersTypeOK, vars, status
<1>4. OrphansAreOver'
  BY <1>1 DEF BystInv, OrphansAreOver, vars, Has
<1>5. EditsAreKnown' /\ ResultsAgree'
  BY <1>1 DEF BystInv, EditsAreKnown, ResultsAgree, vars, Has
<1>6. ReaderKnows' /\ StatusTellsTruth'
  BY <1>1 DEF BystInv, ReaderKnows, StatusTellsTruth, ReaderBusy, Class, Done, Removing, vars,
         status
<1> QED
  BY <1>2, <1>3, <1>4, <1>5, <1>6 DEF BystInv

\* eval-status only looks: each look adds to what it knows.
ReaderStep == StatusBegin \/ MetaExists \/ ReadMeta \/ DirExists \/ ReadReason

LEMMA ReaderInv == BystInv /\ ReaderStep => BystInv'
<1> SUFFICES ASSUME BystInv, ReaderStep
             PROVE  BystInv'
  OBVIOUS
<1>1. /\ CellInv /\ VerdictHasMeta /\ BystandersTypeOK /\ ReaderKnows /\ StatusTellsTruth
  BY DEF BystInv
<1>2. UNCHANGED vars /\ UNCHANGED <<adapters, cleaning>>
  BY DEF ReaderStep, StatusBegin, MetaExists, ReadMeta, DirExists, ReadReason, Show,
         ReaderGoes
<1>3. CellInv' /\ VerdictHasMeta' /\ ResultsToCome' /\ CleaningIsAlone'
  BY <1>2, HarnessAlone
<1>4. OrphansAreOver' /\ EditsAreKnown' /\ ResultsAgree'
  BY <1>2 DEF BystInv, OrphansAreOver, EditsAreKnown, ResultsAgree, Has, vars, adapters
<1>5. /\ UNCHANGED <<command, dirs, disk, verdict>>
      /\ Class' = Class /\ Removing' = Removing
      /\ Done(Watched)' = Done(Watched)
  BY <1>2 DEF vars, Class, Done, Removing
<1>6. BystandersTypeOK' /\ ReaderKnows' /\ StatusTellsTruth'
  <2> USE DEF ReaderBusy
  <2>1. verdict[Watched] \in Reasons /\ Class \in Classes
    BY <1>1, WatchedAssumption DEF CellInv, TypeOK, Class, Classes
  <2>2. UNCHANGED <<orphans, strayed, worktree, basis, intruders, cleaning, runs>>
    BY <1>2 DEF vars, adapters
  <2>3. CASE StatusBegin
    <3>1. /\ reader' = "exists" /\ shown' = None /\ shownReason' = None /\ since' = {Class}
          /\ removerSince' = Removing
      BY <2>3 DEF StatusBegin
    <3>2. removerSince' \in BOOLEAN /\ (Removing => removerSince')
      <4>1. Removing \in BOOLEAN
        BY <1>1 DEF Removing, BystandersTypeOK
      <4> QED
        BY <3>1, <4>1, Zenon
    <3> QED
      BY <1>1, <1>5, <2>1, <2>2, <3>1, <3>2
         DEF BystandersTypeOK, ReaderKnows, StatusTellsTruth, ReaderSteps, Reasons, None
  <2>4. CASE MetaExists
    <3>1. /\ reader = "exists" /\ UNCHANGED <<since, removerSince, shown, shownReason>>
          /\ reader' = IF Done(Watched) THEN "read" ELSE "dir"
      BY <2>4 DEF MetaExists, ReaderGoes
    <3>2. ~ Done(Watched) /\ Watched \in dirs => "partial" \in since
      BY <1>1, <3>1, ClassIsOne DEF ReaderKnows
    <3> QED
      BY <1>1, <1>5, <2>2, <3>1, <3>2
         DEF BystandersTypeOK, ReaderKnows, StatusTellsTruth, ReaderSteps
  <2>5. CASE ReadMeta
    <3>1. /\ reader = "read" /\ UNCHANGED <<removerSince, shownReason>>
          /\ Class \in since /\ (Removing => removerSince)
          /\ Done(Watched) \/ removerSince
      BY <1>1, <2>5 DEF ReadMeta, Show, ReaderGoes, ReaderKnows
    <3>2. CASE ~ Done(Watched)
      <4>1. reader' = "failed" /\ shown' = None /\ since' = since \cap {shown'}
        BY <2>5, <3>2 DEF ReadMeta, Show, ReaderGoes
      <4> QED
        BY <1>1, <1>5, <2>2, <3>1, <3>2, <4>1
           DEF BystandersTypeOK, ReaderKnows, StatusTellsTruth, ReaderSteps
    <3>3. CASE Done(Watched) /\ verdict[Watched] = "none"
      <4>1. reader' = "done" /\ shown' = "done-ok" /\ since' = since \cap {shown'}
        BY <2>5, <3>3 DEF ReadMeta, Show, ReaderGoes
      <4>2. Class = "done-ok"
        BY <1>1, <3>3, ClassIsOne
      <4> QED
        BY <1>1, <1>5, <2>2, <3>1, <4>1, <4>2
           DEF BystandersTypeOK, ReaderKnows, StatusTellsTruth, ReaderSteps, Classes
    <3>4. CASE Done(Watched) /\ verdict[Watched] # "none"
      <4>1. reader' = "readAgain" /\ shown' = "done-error" /\ since' = since
        BY <2>5, <3>4 DEF ReadMeta, Show, ReaderGoes
      <4>2. Class = "done-error"
        BY <1>1, <3>4, ClassIsOne
      <4> QED
        BY <1>1, <1>5, <2>2, <3>1, <3>4, <4>1, <4>2
           DEF BystandersTypeOK, ReaderKnows, StatusTellsTruth, ReaderSteps, Classes
    <3> QED
      BY <3>2, <3>3, <3>4
  <2>6. CASE DirExists
    <3>1. /\ reader = "dir" /\ reader' = "done" /\ UNCHANGED <<removerSince, shownReason>>
          /\ since' = since \cap {shown'}
          /\ shown' = IF Watched \in dirs THEN "partial" ELSE "missing"
      BY <2>6 DEF DirExists, Show, ReaderGoes
    <3>2. shown' \in since
      BY <1>1, <3>1, ClassIsOne DEF ReaderKnows
    <3> QED
      BY <1>1, <1>5, <2>2, <3>1, <3>2
         DEF BystandersTypeOK, ReaderKnows, StatusTellsTruth, ReaderSteps, Classes
  <2>7. CASE ReadReason
    <3>1. /\ reader = "readAgain" /\ UNCHANGED <<removerSince, shown>>
          /\ since' = since \cap {shown'}
          /\ reader' = IF Done(Watched) THEN "done" ELSE "failed"
          /\ shownReason' = verdict[Watched]
      BY <2>7 DEF ReadReason, ReaderGoes
    <3> QED
      BY <1>1, <1>5, <2>1, <2>2, <3>1
         DEF BystandersTypeOK, ReaderKnows, StatusTellsTruth, ReaderSteps
  <2> QED
    BY <2>3, <2>4, <2>5, <2>6, <2>7 DEF ReaderStep
<1> QED
  BY <1>3, <1>4, <1>6 DEF BystInv

-----------------------------------------------------------------------------
LEMMA BystandersInitInv == BystandersInit => BystInv
<1> SUFFICES ASSUME BystandersInit
             PROVE  BystInv
  OBVIOUS
<1>1. Init /\ CellInv
  BY InitInv DEF BystandersInit
<1>2. verdict[Watched] = "none" /\ step = "idle" /\ \A a \in Artifacts : ~ Has(a)
  BY <1>1, WatchedAssumption DEF Init, Has
<1>3. "repo" \in Artifacts /\ Derived \subseteq Artifacts
  BY DEF Artifacts, Derived
<1>4. BystandersTypeOK
  BY DEF BystandersInit, BystandersTypeOK, ReaderSteps, Reasons, None
<1>5. VerdictHasMeta /\ ResultsToCome
  BY <1>2 DEF VerdictHasMeta, ResultsToCome, OnWatched, BeforeResults
<1>6. OrphansAreOver /\ EditsAreKnown /\ ResultsAgree /\ CleaningIsAlone
  BY <1>2, <1>3 DEF BystandersInit, OrphansAreOver, EditsAreKnown, ResultsAgree,
                    CleaningIsAlone
<1>7. ReaderKnows /\ StatusTellsTruth
  BY DEF BystandersInit, ReaderKnows, ReaderBusy, StatusTellsTruth
<1> QED
  BY <1>1, <1>4, <1>5, <1>6, <1>7 DEF BystInv

LEMMA BystandersNextInv ==
  BystInv /\ [BystandersNext]_<<vars, bystanders>> => BystInv'
<1> SUFFICES ASSUME BystInv, [BystandersNext]_<<vars, bystanders>>
             PROVE  BystInv'
  OBVIOUS
<1>1. CASE UNCHANGED <<vars, bystanders>>
  <2>1. CellInv' /\ VerdictHasMeta' /\ ResultsToCome' /\ CleaningIsAlone'
    BY <1>1, HarnessAlone DEF bystanders
  <2> QED
    BY <1>1, <2>1 DEF BystInv, vars, bystanders, adapters, status, Removing,
       BystandersTypeOK, OrphansAreOver,
       EditsAreKnown, ResultsAgree, ReaderKnows, ReaderBusy, StatusTellsTruth, Class, Done,
       Has
<1>2. CASE BystandersNext
  BY <1>2, HarnessInv, CleansInv, EditInv, OrphanEndsInv, ReaderInv
     DEF BystandersNext, ReaderStep, Cleans
<1> QED
  BY <1>1, <1>2

LEMMA BystandersInvariance == BystandersSpec => []BystInv
  BY BystandersInitInv, BystandersNextInv, PTL DEF BystandersSpec

(***************************************************************************)
(* The theorems.                                                           *)
(***************************************************************************)
\* Every variable of the bystanders keeps its type.
THEOREM BystandersTypeCorrect == BystandersSpec => []BystandersTypeOK
  BY BystandersInvariance, PTL DEF BystInv

\* eval-status, which takes no lock, never shows what the cell was not at some
\* moment while it looked, and fails only where an eval or an eval-clean-runs
\* was at work.
THEOREM StatusIsTrue == BystandersSpec => []StatusTellsTruth
  BY BystandersInvariance, PTL DEF BystInv

\* A result rests on the edits of its own run and of processes left behind that
\* lived when its worktree was made.  Without such, and if its own run left
\* nothing behind, its diff and tests agree.
THEOREM WorkIsScored == BystandersSpec => []OwnWorkIsScored
<1>1. BystInv => OwnWorkIsScored
  <2> SUFFICES ASSUME BystInv, Done(Watched)
               PROVE  /\ \A a \in Derived : Has(a) =>
                            basis[a] \subseteq {disk[Watched]["meta"]} \cup intruders
                      /\ intruders = {} /\ ~ strayed => \A a, b \in Derived :
                            Has(a) /\ Has(b) => basis[a] = basis[b]
    BY DEF OwnWorkIsScored, Has
  <2>1. \A a \in Derived : Has(a) => disk[Watched][a] = disk[Watched]["meta"]
    BY WatchedAssumption DEF BystInv, CellInv, DoneIsUnmixed, Has, Derived, Artifacts
  <2> QED
    BY <2>1 DEF BystInv, EditsAreKnown, ResultsAgree
<1> QED
  BY <1>1, BystandersInvariance, PTL
=============================================================================
