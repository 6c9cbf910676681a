---------------------------- MODULE CellBystanders ----------------------------
(***************************************************************************)
(* Who else is around while a cell lives as in CellLifecycle: an           *)
(* eval-status, which takes no lock and reads the cell in several system   *)
(* calls (status.py); an eval-clean-runs, which takes the lock and removes *)
(* the campaign (cli.py); and processes that runs leave behind.  Adapters  *)
(* and tests lead process groups of their own, so nothing ends them when   *)
(* the command is interrupted, and what leaves its group outlives the      *)
(* group's end.  Such processes go on editing files below the path of the  *)
(* worktree, which is the path of the next attempt's worktree too          *)
(* (runner.py, pipeline.py, process_tree.py, workspace.py).                *)
(*                                                                         *)
(* Once eval-clean-runs has removed the lock with the rest, other commands *)
(* may run beside it.  That is the subject of Campaigns, not of this.      *)
(***************************************************************************)
EXTENDS CellLifecycle

CONSTANT Watched      \* the cell this is about

ASSUME WatchedAssumption == Watched \in Cells

VARIABLES orphans,     \* runs that left processes which live on
          strayed,     \* history: the run that made the worktree left some
          worktree,    \* runs whose edits are in the worktree
          basis,       \* per result, the edits it was derived from
          intruders,   \* history: orphans that lived when the worktree was made
          cleaning,    \* eval-clean-runs is at work, or through
          reader,      \* the next step of eval-status, or how it ended
          shown,       \* what it shows for the cell
          shownReason, \* and the error_reason it adds for a failed cell
          since,       \* history: what the cell has been since it began
          removerSince \* history: whether eval or eval-clean-runs was at work

adapters == <<orphans, strayed, worktree, basis, intruders>>
status == <<reader, shown, shownReason, since, removerSince>>
bystanders == <<adapters, cleaning, status>>

Derived == {"diff", "visible", "hidden"}
ReaderSteps == {"away", "exists", "read", "dir", "readAgain", "done", "failed"}
Classes == {"missing", "partial", "done-ok", "done-error"}
None == "none"

\* What the cell is, for somebody who sees everything at once.
Class == CASE verdict[Watched] # "none" -> "done-error"
           [] Done(Watched) /\ verdict[Watched] = "none" -> "done-ok"
           [] ~ Done(Watched) /\ Watched \in dirs -> "partial"
           [] OTHER -> "missing"

BystandersInit == /\ Init
                  /\ orphans = {}
                  /\ strayed = FALSE
                  /\ worktree = {}
                  /\ basis = [a \in Derived |-> {}]
                  /\ intruders = {}
                  /\ cleaning = FALSE
                  /\ reader = "away"
                  /\ shown = None
                  /\ shownReason = None
                  /\ since = {}
                  /\ removerSince = FALSE

(***************************************************************************)
(* The harness and eval-clean-runs, which exclude each other.              *)
(***************************************************************************)
Changed(a) == disk'[Watched][a] # disk[Watched][a]
NewWorktree == Changed("repo") /\ disk'[Watched]["repo"] # 0
Removing == command = "eval" \/ cleaning

\* What a step on the cell's directory means to the others.
Follow == /\ worktree' = IF Changed("repo") THEN {} ELSE worktree
          /\ intruders' = IF NewWorktree THEN orphans ELSE intruders
          /\ basis' = [a \in Derived |->
                          IF ~ Changed(a) THEN basis[a]
                          ELSE IF disk'[Watched][a] = 0 THEN {} ELSE worktree]
          /\ IF reader \in {"away", "done", "failed"}
               THEN UNCHANGED <<since, removerSince>>
               ELSE /\ since' = since \cup {Class'}
                    /\ removerSince' = (removerSince \/ Removing')
          /\ UNCHANGED <<reader, shown, shownReason>>

\* An adapter or a test runs until the harness has ended its group, or for as
\* long as it likes if the harness is interrupted or it has left the group.
LeftBehind ==
    IF cell = Watched /\ step \in {"collect", "visible", "hidden"} /\ step' # step
      THEN {{}, {runs}} ELSE {{}}

HarnessStep == /\ ~ cleaning
               /\ Next /\ UNCHANGED cleaning
               /\ Follow
               /\ \E left \in LeftBehind :
                     /\ orphans' = orphans \cup left
                     /\ strayed' = (left # {} \/ (strayed /\ ~ NewWorktree))

\* Nobody here looks at these, so eval-clean-runs may remove them in one step.
Unseen == {"request", "logs", "response", "scoring"}

\* rmtree(runs): what is below a directory goes before the directory does.
CleanEntry == \E c \in Cells, gone \in {{a} : a \in Artifacts \ Unseen} \cup {Unseen} :
                 /\ \E a \in gone : disk[c][a] # 0
                 /\ disk' = [disk EXCEPT ![c] =
                                [a \in Artifacts |-> IF a \in gone THEN 0 ELSE disk[c][a]]]
                 /\ verdict' = [verdict EXCEPT ![c] = IF "meta" \in gone THEN "none" ELSE @]
                 /\ UNCHANGED <<dirs, report>>

CleanDir == \E c \in dirs : /\ Empty(c)
                            /\ dirs' = dirs \ {c}
                            /\ UNCHANGED <<disk, verdict, report>>

CleanReport == /\ \E c \in Cells : report[c] # 0
               /\ report' = [c \in Cells |-> 0]
               /\ UNCHANGED <<dirs, disk, verdict>>

EvalCleanRuns == /\ command = "none" /\ ~ cleaning
                 /\ cleaning' = TRUE
                 /\ UNCHANGED <<vars, orphans, strayed>>
                 /\ Follow

CleanStep == /\ cleaning
             /\ CleanEntry \/ CleanDir \/ CleanReport
             /\ UNCHANGED <<command, step, todo, cell, reason, runs, interrupts, evals,
                            orphans, strayed, cleaning>>
             /\ Follow

\* It is killed, or rmtree raises; what it has left is there for others.
CleanKilled == /\ cleaning
               /\ interrupts < MaxInterrupts
               /\ interrupts + evals < MaxDisturbances
               /\ interrupts' = interrupts + 1
               /\ cleaning' = FALSE
               /\ UNCHANGED <<command, step, todo, cell, dirs, disk, verdict, reason, report,
                              runs, evals, orphans, strayed>>
               /\ Follow

(***************************************************************************)
(* The adapters, and what runs leave behind.                               *)
(***************************************************************************)
\* Mutant: the output is collected and the adapter runs on.
AdapterRunsOn == step \in {"collect", "diff", "visible"} /\ cell = Watched

AdapterRuns == step = "collect" /\ cell = Watched

\* Files can be edited only where a worktree is.
Edit == /\ disk[Watched]["repo"] # 0
        /\ \E r \in orphans \cup (IF AdapterRuns THEN {runs} ELSE {}) :
              worktree' = worktree \cup {r}
        /\ UNCHANGED <<vars, orphans, strayed, basis, intruders, cleaning, status>>

OrphanEnds == /\ \E r \in orphans : orphans' = orphans \ {r}
              /\ UNCHANGED <<vars, strayed, worktree, basis, intruders, cleaning, status>>

(***************************************************************************)
(* eval-status.                                                            *)
(***************************************************************************)
ReaderGoes(s) == /\ reader' = s
                 /\ since' = IF s \in {"done", "failed"} THEN since \cap {shown'}
                                                        ELSE since
                 /\ UNCHANGED <<vars, adapters, cleaning, removerSince>>

Show(class, s) == /\ shown' = class
                  /\ UNCHANGED shownReason
                  /\ ReaderGoes(s)

\* It has found the campaign and read its manifest; without these it ends here.
StatusBegin == /\ reader \in {"away", "done", "failed"}
               /\ reader' = "exists"
               /\ shown' = None
               /\ shownReason' = None
               /\ since' = {Class}
               /\ removerSince' = Removing
               /\ UNCHANGED <<vars, adapters, cleaning>>

MetaExists == /\ reader = "exists"
              /\ UNCHANGED <<shown, shownReason>>
              /\ ReaderGoes(IF Done(Watched) THEN "read" ELSE "dir")

\* Mutant: a meta.json that has gone meanwhile is taken for a missing cell.
ReadMetaOrMissing == /\ reader = "read"
                     /\ IF Done(Watched) THEN Show(Class, "done")
                                         ELSE Show("missing", "done")

\* A meta.json that has gone meanwhile ends the command with an exception.
ReadMeta == /\ reader = "read"
            /\ CASE ~ Done(Watched) -> Show(None, "failed")
                 [] Done(Watched) /\ verdict[Watched] = "none" ->
                      Show("done-ok", "done")
                 [] OTHER -> Show("done-error", "readAgain")

\* Mutant: a cell without meta.json is shown by the state of its run.
DirExistsStep == /\ reader = "dir"
                 /\ Show(IF Watched \in dirs THEN step ELSE "missing", "done")

DirExists == /\ reader = "dir"
             /\ Show(IF Watched \in dirs THEN "partial" ELSE "missing", "done")

\* The reasons of failed cells come from a second look at each.
ReadReason == /\ reader = "readAgain"
              /\ shownReason' = verdict[Watched]
              /\ UNCHANGED shown
              /\ ReaderGoes(IF Done(Watched) THEN "done" ELSE "failed")

BystandersNext == \/ HarnessStep
                  \/ EvalCleanRuns \/ CleanStep \/ CleanKilled
                  \/ Edit \/ OrphanEnds
                  \/ StatusBegin
                  \/ MetaExists \/ ReadMeta \/ DirExists \/ ReadReason

BystandersSpec == BystandersInit /\ [][BystandersNext]_<<vars, bystanders>>

-----------------------------------------------------------------------------
(***************************************************************************)
(* Properties.                                                             *)
(***************************************************************************)

BystandersTypeOK == /\ orphans \subseteq 1..runs
                    /\ strayed \in BOOLEAN
                    /\ worktree \subseteq 1..runs
                    /\ basis \in [Derived -> SUBSET (1..runs)]
                    /\ intruders \subseteq 1..runs
                    /\ cleaning \in BOOLEAN
                    /\ reader \in ReaderSteps
                    /\ shown \in Classes \cup {None}
                    /\ shownReason \in Reasons
                    /\ since \subseteq Classes
                    /\ removerSince \in BOOLEAN

\* What eval-status shows was the case at some moment while it ran, although
\* it looks several times and the cell may be written, removed and run again
\* meanwhile.  It fails, or shows a failed cell without its reason, only if an
\* eval or an eval-clean-runs was at work.
StatusTellsTruth == /\ reader = "done" => shown \in since
                    /\ reader = "failed" => removerSince
                    /\ reader = "done" /\ shown = "done-error"
                         => shownReason # "none" \/ removerSince

\* The diff and the tests of a result rest on the edits of its own run ("one
\* worktree per (framework, run) pair so concurrent runs cannot contaminate
\* each other", shared/task-spec.md), but for processes left behind that were
\* alive when its worktree was made.  Without such, and if the run itself left
\* nothing behind that escaped its group, the tests ran on what the diff shows.
\* What a test command itself writes there while it runs is not counted.
OwnWorkIsScored ==
    Done(Watched) =>
       LET results == {a \in Derived : disk[Watched][a] # 0} IN
       /\ \A a \in results : basis[a] \subseteq {disk[Watched]["meta"]} \cup intruders
       /\ intruders = {} /\ ~ strayed => \A a, b \in results : basis[a] = basis[b]
=============================================================================
