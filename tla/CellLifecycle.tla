---------------------------- MODULE CellLifecycle ----------------------------
(***************************************************************************)
(* The life of a campaign's cells (cli.py, runner.py, pipeline.py).        *)
(*                                                                         *)
(* eval-all runs every cell of the matrix that has no meta.json, after     *)
(* removing what an earlier attempt left; eval removes one cell and runs   *)
(* it again; eval-report rewrites report.md.  These commands hold the      *)
(* campaign lock, so one runs at a time here (CampaignLock says when that  *)
(* holds).  A run writes its artifacts one by one and meta.json last; the  *)
(* process may die, or raise outside the pipeline's own handler, between   *)
(* any two of them.                                                        *)
(*                                                                         *)
(* A file's content is the number of the run that wrote it.                *)
(***************************************************************************)
EXTENDS Naturals, FiniteSets

CONSTANTS Cells,          \* the matrix of the manifest, numbered in loop order
          HiddenCells,    \* cells whose case has a hidden_test_command
          EvalCells,      \* cells the operator may re-run with eval
          MaxInterrupts,  \* bound: crashes and uncaught exceptions
          MaxEvals,       \* bound: eval commands
          MaxDisturbances \* bound: both together

ASSUME CellsAssumption == /\ Cells \subseteq Nat \ {0}
                          /\ HiddenCells \subseteq Cells
                          /\ EvalCells \subseteq Cells
                          /\ MaxInterrupts \in Nat
                          /\ MaxEvals \in Nat
                          /\ MaxDisturbances \in Nat

VARIABLES command,     \* the command holding the lock, or "none"
          step,        \* what it does next
          todo,        \* cells eval-all has not come to yet
          cell,        \* the cell being run
          dirs,        \* cells whose directory exists
          disk,        \* per cell and artifact, the run that wrote it or 0
          verdict,     \* error_reason in each cell's meta.json, if it is there
          reason,      \* error_reason of the run in progress
          report,      \* report.md: the run it shows for each cell
          runs,        \* number of runs started
          interrupts, evals

vars == <<command, step, todo, cell, dirs, disk, verdict, reason, report,
          runs, interrupts, evals>>

Artifacts == {"repo", "request", "logs", "response", "diff", "visible",
              "hidden", "scoring", "meta"}
Reasons == {"none", "agent_error", "misconfigured", "pipeline_failure"}
RunSteps == {"clone", "precheck", "spawn", "collect", "respond", "diff",
             "visible", "hidden", "score", "commit", "failScore", "failCommit"}
Steps == {"idle", "pick", "remove", "mkdir", "report"} \cup RunSteps

NoCell == 0

Done(c) == disk[c]["meta"] # 0
Empty(c) == \A a \in Artifacts : disk[c][a] = 0

Init == /\ command = "none"
        /\ step = "idle"
        /\ todo = {}
        /\ cell = NoCell
        /\ dirs = {}
        /\ disk = [c \in Cells |-> [a \in Artifacts |-> 0]]
        /\ verdict = [c \in Cells |-> "none"]
        /\ reason = "none"
        /\ report = [c \in Cells |-> 0]
        /\ runs = 0
        /\ interrupts = 0
        /\ evals = 0

Begin(name, first, cells, target) ==
    /\ command = "none"
    /\ command' = name
    /\ step' = first
    /\ todo' = cells
    /\ cell' = target
    /\ UNCHANGED <<dirs, disk, verdict, reason, report, runs, interrupts>>

\* --framework and --case restrict eval-all to part of the matrix.
EvalAll(selection) == /\ Begin("eval-all", "pick", selection, NoCell)
                      /\ UNCHANGED evals

\* Mutant: run into the directory as it is.
RunInPlace(c) == "mkdir"

RemovalOrRun(c) == IF c \in dirs THEN "remove" ELSE "mkdir"

\* eval removes the cell directory whether or not the cell is done.
Eval(c) == /\ c \in EvalCells
           /\ evals < MaxEvals
           /\ interrupts + evals < MaxDisturbances
           /\ evals' = evals + 1
           /\ Begin("eval", RemovalOrRun(c), {}, c)

EvalReport == Begin("eval-report", "report", {}, NoCell) /\ UNCHANGED evals

At(s) == step = s /\ UNCHANGED <<interrupts, evals>>

\* The loops go through frameworks and cases in discovery order.
NextCell == CHOOSE c \in todo : \A d \in todo : c <= d

\* Mutant: any existing directory counts as done.
SkipStarted == /\ At("pick")
               /\ todo # {} /\ NextCell \in dirs
               /\ todo' = todo \ {NextCell}
               /\ UNCHANGED <<command, step, cell, dirs, disk, verdict, reason,
                              report, runs>>

\* The resume rule of eval-all: a cell with a meta.json is passed over.
PickSkip == /\ At("pick")
            /\ todo # {} /\ Done(NextCell)
            /\ todo' = todo \ {NextCell}
            /\ UNCHANGED <<command, step, cell, dirs, disk, verdict, reason,
                           report, runs>>

\* Mutant: done cells are run again.
PickAny == /\ At("pick")
           /\ todo # {}
           /\ cell' = NextCell
           /\ todo' = todo \ {NextCell}
           /\ step' = RemovalOrRun(NextCell)
           /\ UNCHANGED <<command, dirs, disk, verdict, reason, report, runs>>

PickRun == /\ At("pick")
           /\ todo # {} /\ ~ Done(NextCell)
           /\ cell' = NextCell
           /\ todo' = todo \ {NextCell}
           /\ step' = RemovalOrRun(NextCell)
           /\ UNCHANGED <<command, dirs, disk, verdict, reason, report, runs>>

\* Mutant: eval-all leaves without rewriting the report.
PickNoneQuietly == /\ At("pick")
                   /\ todo = {}
                   /\ command' = "none"
                   /\ step' = "idle"
                   /\ UNCHANGED <<todo, cell, dirs, disk, verdict, reason,
                                  report, runs>>

PickNone == /\ At("pick")
            /\ todo = {}
            /\ step' = "report"
            /\ UNCHANGED <<command, todo, cell, dirs, disk, verdict, reason,
                           report, runs>>

\* shutil.rmtree: entries go one by one in directory order, then the directory.
RemoveEntry == /\ At("remove")
               /\ \E a \in Artifacts :
                     /\ disk[cell][a] # 0
                     /\ disk' = [disk EXCEPT ![cell][a] = 0]
                     /\ verdict' = IF a = "meta"
                                     THEN [verdict EXCEPT ![cell] = "none"]
                                     ELSE verdict
               /\ UNCHANGED <<command, step, todo, cell, dirs, reason, report,
                              runs>>

RemoveDir == /\ At("remove")
             /\ Empty(cell)
             /\ dirs' = dirs \ {cell}
             /\ step' = "mkdir"
             /\ UNCHANGED <<command, todo, cell, disk, verdict, reason, report,
                            runs>>

MakeDir == /\ At("mkdir")
           /\ dirs' = dirs \cup {cell}
           /\ runs' = runs + 1
           /\ step' = "clone"
           /\ UNCHANGED <<command, todo, cell, disk, verdict, reason, report>>

(***************************************************************************)
(* A run.  WriteThen(a, next) is the write of one artifact of the current  *)
(* run; failures outside run_pipeline are Interrupt.                       *)
(***************************************************************************)
WriteThen(a, next) == /\ disk' = [disk EXCEPT ![cell][a] = runs]
                      /\ step' = next

Keep == UNCHANGED <<command, todo, cell, dirs, verdict, report, runs>>

CloneWorktree == At("clone") /\ WriteThen("repo", "precheck")
                             /\ Keep /\ UNCHANGED reason

\* Invalid manifest, entry not runnable, or a failed setup.
Misconfigured == /\ At("precheck") \/ At("spawn")
                 /\ WriteThen("logs", "diff")
                 /\ reason' = "misconfigured"
                 /\ Keep

WriteRequest == At("precheck") /\ WriteThen("request", "spawn")
                               /\ Keep /\ UNCHANGED reason

\* The pump threads create stdout.log and stderr.log.
SpawnAdapter == At("spawn") /\ WriteThen("logs", "collect")
                            /\ Keep /\ UNCHANGED reason

\* The adapter is gone.  Its stdout is a valid envelope or not; it timed out
\* or exited nonzero or did neither.  A valid envelope is kept in all cases;
\* an exit with status 0 and no valid envelope is an error as well.
Collect == /\ At("collect")
           /\ \E valid \in BOOLEAN, clean \in BOOLEAN :
                 /\ reason' = IF valid /\ clean THEN "none" ELSE "agent_error"
                 /\ step' = IF valid THEN "respond" ELSE "diff"
           /\ UNCHANGED disk
           /\ Keep

WriteResponse == At("respond") /\ WriteThen("response", "diff")
                               /\ Keep /\ UNCHANGED reason

DeriveDiff == At("diff") /\ WriteThen("diff", "visible")
                         /\ Keep /\ UNCHANGED reason

RunVisibleTest == /\ At("visible")
                  /\ WriteThen("visible",
                               IF cell \in HiddenCells THEN "hidden" ELSE "score")
                  /\ Keep /\ UNCHANGED reason

RunHiddenTest == At("hidden") /\ WriteThen("hidden", "score")
                              /\ Keep /\ UNCHANGED reason

WriteScoring == /\ At("score") /\ WriteThen("scoring", "commit")
                /\ Keep /\ UNCHANGED reason

AfterCell == IF command = "eval-all" THEN "pick" ELSE "report"

\* Mutant: meta.json before scoring.json, and the cell is left.
MetaBeforeScoring == /\ At("score") \/ At("failCommit")
                     /\ WriteThen("meta", AfterCell)
                     /\ verdict' = [verdict EXCEPT ![cell] = reason]
                     /\ reason' = "none"
                     /\ cell' = NoCell
                     /\ UNCHANGED <<command, todo, dirs, report, runs>>

WriteMeta == /\ At("commit") \/ At("failCommit")
             /\ WriteThen("meta", AfterCell)
             /\ verdict' = [verdict EXCEPT ![cell] = reason]
             /\ reason' = "none"
             /\ cell' = NoCell
             /\ UNCHANGED <<command, todo, dirs, report, runs>>

\* run_pipeline catches what _run_pipeline_impl raises and writes artifacts
\* that say so; an exception while it writes those is not caught.
PipelineFails == /\ \E s \in {"diff", "visible", "hidden", "score", "commit"} : At(s)
                 /\ step' = "failScore"
                 /\ reason' = "pipeline_failure"
                 /\ UNCHANGED disk
                 /\ Keep

WriteFailureScoring == /\ At("failScore") /\ WriteThen("scoring", "failCommit")
                       /\ Keep /\ UNCHANGED reason

\* Mutant: the running command is not cleared properly.
ReturnIdle == /\ command' = "idle"
              /\ step' = "idle"
              /\ todo' = {}
              /\ cell' = NoCell
              /\ reason' = "none"

Return == /\ command' = "none"
          /\ step' = "idle"
          /\ todo' = {}
          /\ cell' = NoCell
          /\ reason' = "none"

WriteReport == /\ At("report")
               /\ report' = [c \in Cells |-> disk[c]["meta"]]
               /\ Return
               /\ UNCHANGED <<dirs, disk, verdict, runs>>

\* The process dies, or an exception leaves the command; the lock is freed
\* or goes stale and is taken over.
Interrupt == /\ command # "none"
             /\ interrupts < MaxInterrupts
             /\ interrupts + evals < MaxDisturbances
             /\ interrupts' = interrupts + 1
             /\ Return
             /\ UNCHANGED <<dirs, disk, verdict, report, runs, evals>>

RunCell == \/ MakeDir \/ CloneWorktree
           \/ Misconfigured \/ WriteRequest \/ SpawnAdapter
           \/ Collect \/ WriteResponse

Pipeline == \/ DeriveDiff \/ RunVisibleTest \/ RunHiddenTest
            \/ WriteScoring \/ WriteMeta
            \/ PipelineFails \/ WriteFailureScoring

Work == \/ PickSkip \/ PickRun \/ PickNone
        \/ RemoveEntry \/ RemoveDir
        \/ RunCell \/ Pipeline \/ WriteReport

Next == \/ \E selection \in SUBSET Cells : EvalAll(selection)
        \/ \E c \in Cells : Eval(c)
        \/ EvalReport
        \/ Work
        \/ Interrupt

Spec == Init /\ [][Next]_vars

\* A command that runs keeps running, and the operator repeats eval-all
\* over the whole matrix.
Fairness == WF_vars(Work) /\ SF_vars(EvalAll(Cells))

FairSpec == Spec /\ Fairness

-----------------------------------------------------------------------------
(***************************************************************************)
(* Properties.                                                             *)
(***************************************************************************)

TypeOK == /\ command \in {"none", "eval-all", "eval", "eval-report"}
          /\ step \in Steps
          /\ todo \subseteq Cells
          /\ cell \in Cells \cup {NoCell}
          /\ dirs \subseteq Cells
          /\ disk \in [Cells -> [Artifacts -> Nat]]
          /\ verdict \in [Cells -> Reasons]
          /\ reason \in Reasons
          /\ report \in [Cells -> Nat]
          /\ runs \in Nat
          /\ interrupts \in 0..MaxInterrupts
          /\ evals \in 0..MaxEvals

\* What readers of a finished cell rely on, by the verdict in its meta.json.
Required(c) ==
    {"repo", "logs", "scoring", "meta"}
      \cup (IF verdict[c] = "pipeline_failure" THEN {} ELSE {"diff", "visible"})
      \cup (IF verdict[c] # "pipeline_failure" /\ c \in HiddenCells
              THEN {"hidden"} ELSE {})
      \cup (IF verdict[c] = "none" THEN {"request", "response"} ELSE {})

Intact(c) == Done(c) /\ \A a \in Required(c) : disk[c][a] = disk[c]["meta"]

\* A cell that counts as done has everything its verdict calls for, from the
\* run that wrote meta.json, wherever commands were interrupted - unless the
\* operator ever re-runs it with eval.  meta.json is the commit point.
DoneIsIntact == \A c \in Cells \ EvalCells : Done(c) => Intact(c)

\* The same of every cell while no command runs ("atomic meta sentinel",
\* evals/README.md).  It does not hold: see the README.
SentinelMeansIntact ==
    command = "none" => \A c \in Cells : Done(c) => Intact(c)

\* A done cell never shows an artifact of another attempt: no response.json,
\* test result or diff survives from a run that was interrupted or replaced.
DoneIsUnmixed == \A c \in Cells : Done(c) =>
                    \A a \in Artifacts : disk[c][a] \in {0, disk[c]["meta"]}

\* eval-all never changes a done cell (test_resume_skips_cells_with_meta_json).
DoneUntouchedByEvalAll ==
    [][\A c \in Cells : command = "eval-all" /\ Done(c) => disk'[c] = disk[c]]_vars

\* Cells get their results as CellResults promises: in one step, complete,
\* and taken away only where eval was asked for.
Results == INSTANCE CellResults
             WITH Rerunnable <- EvalCells,
                  result <- [c \in Cells |-> IF Intact(c) THEN disk[c]["meta"]
                                                         ELSE 0]
ImplementsCellResults == Results!Spec

\* Repeating eval-all ends with an intact result in every cell that eval
\* does not touch.
EveryCellGetsItsResult == \A c \in Cells \ EvalCells : <>[]Intact(c)

\* report.md ends up showing the run that is on disk, also when a command
\* died between committing a cell and rewriting the report.
ReportCatchesUp == \A c \in Cells : <>[](report[c] = disk[c]["meta"])
=============================================================================
