------------------------------- MODULE Campaigns -------------------------------
(***************************************************************************)
(* Campaigns and runs/CURRENT (campaign.py, cli.py).                       *)
(*                                                                         *)
(* eval-new makes runs/<timestamp>/, writes its manifest.json and swings   *)
(* the symbolic link CURRENT by way of CURRENT.tmp; eval-all does the same *)
(* when there is no campaign.  eval-all, eval and eval-report look CURRENT *)
(* up and then work in that campaign under its lock; eval-clean-runs looks *)
(* it up, takes its lock and removes the whole of runs/, the lock file     *)
(* included.  Each lookup comes before the lock, and the first eval-new    *)
(* has no lock to take.                                                    *)
(*                                                                         *)
(* Taking the lock of a campaign is one step here and releasing it another *)
(* (CampaignLock takes them apart); a dead owner's lock is taken over.     *)
(* Campaigns are numbered in the order in which they are made.             *)
(***************************************************************************)
EXTENDS Naturals, FiniteSets

CONSTANTS MaxCommands,   \* bound: commands started
          CURRENT, CURRENT_tmp,   \* the entries of runs/ that are links
          MaxCrashes,    \* bound: commands killed
          Scenarios      \* bound: the campaigns there are at first, and how
                         \* many commands, eval-clean-runs among them, follow

ASSUME CampaignsAssumption == /\ CURRENT # CURRENT_tmp
                              /\ MaxCommands \in Nat
                              /\ MaxCrashes \in Nat
                              /\ Scenarios \subseteq
                                    [campaigns : 0..1, commands : 0..MaxCommands,
                                     cleans : Nat]

VARIABLES runsDir,   \* runs/ exists
          current,   \* what runs/CURRENT points to
          tmp,       \* what runs/CURRENT.tmp points to
          dirs,      \* campaigns whose directory exists
          files,     \* per campaign, what is in the directory beside the lock
          lock,      \* per campaign, the command whose lock file is there
          made,      \* number of campaign directories made so far
          pc,        \* per command, its next step
          kind,      \* per command, what it is
          looked,    \* per command, the campaign its last lookup found
          camp,      \* per command, the campaign it makes or works in
          left,      \* per eval-clean-runs, entries of runs/ to be removed
          inside,    \* and of the campaign directory it is removing
          past,      \* history: campaigns that were current at some time
          wiped,     \* history: campaigns eval-clean-runs took something from
          witness,   \* history: commands disturbed while they made a campaign, by
                     \* a kill of another one or by eval-clean-runs
          crashes,
          cleans     \* eval-clean-runs commands that may still be started

links == <<current, tmp>>
tree == <<runsDir, dirs, files, made>>
memory == <<kind, looked, camp, left, inside>>
history == <<past, wiped, witness>>
bounds == <<crashes, cleans>>
vars == <<links, tree, lock, pc, memory, history, bounds>>

\* Commands are numbered in the order in which they are started.
Proc == 1..MaxCommands
Campaign == 1..(MaxCommands + 1)
None == 0

Kinds == {"eval-new", "eval-all", "eval", "eval-report", "eval-clean-runs"}
Entries == {"manifest.json", "results"}
Links == {CURRENT, CURRENT_tmp}
Steps == {"idle", "lookup", "readManifest", "lock", "work", "report",
          "scan", "remove", "removeCampaign", "release",
          "newLookup", "newLock", "makeRuns", "makeDir", "manifest",
          "checkTmp", "unlinkTmp", "symlink", "rename", "newRelease", "ended"}

Running(p) == pc[p] \notin {"idle", "ended"}

Whole(c) == c \in dirs /\ "manifest.json" \in files[c]

Init == /\ \E s \in Scenarios :
              /\ current = s.campaigns
              /\ pc = [p \in Proc |-> IF p <= s.commands THEN "idle" ELSE "ended"]
              /\ cleans = s.cleans
        /\ made = current
        /\ runsDir = (current # None)
        /\ tmp = None
        /\ dirs = {current} \ {None}
        /\ files = [c \in Campaign |-> IF c = current THEN {"manifest.json"}
                                                      ELSE {}]
        /\ lock = [c \in Campaign |-> None]
        /\ kind = [p \in Proc |-> "eval-new"]
        /\ looked = [p \in Proc |-> None]
        /\ camp = [p \in Proc |-> None]
        /\ left = [p \in Proc |-> {}]
        /\ inside = [p \in Proc |-> {}]
        /\ past = {current} \ {None}
        /\ wiped = {}
        /\ witness = {}
        /\ crashes = 0

Creating(p) == pc[p] \in {"makeDir", "manifest", "checkTmp", "unlinkTmp",
                          "symlink", "rename"}
DisturbCreation == /\ witness' = witness \cup {p \in Proc : Creating(p)}
                   /\ UNCHANGED <<past, wiped>>

At(p, s) == pc[p] = s
Goto(p, s) == pc' = [pc EXCEPT ![p] = s]

\* A command ends, and its memory with it.
End(p) == /\ Goto(p, "ended")
          /\ kind' = [kind EXCEPT ![p] = "eval-new"]
          /\ looked' = [looked EXCEPT ![p] = None]
          /\ camp' = [camp EXCEPT ![p] = None]
          /\ left' = [left EXCEPT ![p] = {}]
          /\ inside' = [inside EXCEPT ![p] = {}]

GotoOrEnd(p, s) == IF s = "ended" THEN End(p) ELSE Goto(p, s) /\ UNCHANGED memory

\* What fails leaves by way of the release.
Try(p, ok, next) == Goto(p, IF ok THEN next ELSE "release")

Start(p, k) == /\ At(p, "idle")
               /\ \A q \in Proc : q < p => pc[q] # "idle"
               /\ IF k = "eval-clean-runs"
                    THEN cleans > 0 /\ cleans' = cleans - 1
                    ELSE UNCHANGED cleans
               /\ kind' = [kind EXCEPT ![p] = k]
               /\ Goto(p, IF k = "eval-new" THEN "newLookup" ELSE "lookup")
               /\ UNCHANGED <<links, tree, lock, looked, camp, left, inside,
                              history, crashes>>

(***************************************************************************)
(* The lookup and the lock.                                                *)
(***************************************************************************)
\* Where a command goes that found a campaign, or none.  eval-all with
\* override flags refuses an existing campaign.
Found(k) == CASE k = "eval-all" -> {"readManifest", "ended"}
              [] k = "eval" -> {"readManifest"}
              [] OTHER -> {"lock"}

FoundNone(k) == CASE k = "eval-all" -> {"newLookup"}
                  [] k = "eval-clean-runs" -> {"scan"}
                  [] OTHER -> {"ended"}

CurrentCampaign(p, next) ==
    /\ IF next = "ended"
         THEN End(p)
         ELSE /\ Goto(p, next)
              /\ looked' = [looked EXCEPT ![p] = current]
              /\ camp' = [camp EXCEPT ![p] = current]
              /\ UNCHANGED <<kind, left, inside>>
    /\ UNCHANGED <<links, tree, lock, history, bounds>>

Lookup(p) == /\ At(p, "lookup")
             /\ \E s \in IF current = None THEN FoundNone(kind[p])
                                           ELSE Found(kind[p]) :
                   CurrentCampaign(p, s)

\* eval and eval-all read the manifest before they take the lock.
ReadManifest(p) == /\ At(p, "readManifest")
                   /\ GotoOrEnd(p, IF Whole(camp[p]) THEN "lock" ELSE "ended")
                   /\ UNCHANGED <<links, tree, lock, history, bounds>>

\* The lock file of a command that is gone does not count.
Owned(c) == lock[c] # None /\ Running(lock[c])

\* A lock file cannot be made in a directory that is gone.
Locking(p, c, next) == /\ IF c \in dirs /\ ~ Owned(c)
                            THEN /\ lock' = [lock EXCEPT ![c] = p]
                                 /\ GotoOrEnd(p, next)
                            ELSE End(p) /\ UNCHANGED lock
                       /\ UNCHANGED <<links, tree, history, bounds>>

FirstStep(k) == CASE k = "eval-report" -> "report"
                  [] k = "eval-clean-runs" -> "scan"
                  [] OTHER -> "work"

AcquireLock(p) == At(p, "lock") /\ Locking(p, camp[p], FirstStep(kind[p]))

\* Mutant: a command that is through stays around.
StayAfterRelease(p) == "ready"

AfterRelease(p) == IF At(p, "newRelease") /\ kind[p] = "eval-all"
                     THEN "readManifest" ELSE "ended"

\* A command holds one lock at a time and leaves another's lock file alone.
ReleaseLock(p) ==
    /\ pc[p] \in {"release", "newRelease"}
    /\ lock' = [c \in Campaign |-> IF lock[c] = p THEN None ELSE lock[c]]
    /\ GotoOrEnd(p, AfterRelease(p))
    /\ UNCHANGED <<links, tree, history, bounds>>

(***************************************************************************)
(* eval_new.                                                               *)
(***************************************************************************)
NewLookup(p) == /\ At(p, "newLookup")
                /\ CurrentCampaign(p, IF current = None THEN "makeRuns"
                                                        ELSE "newLock")

\* Mutant: eval-new does not ask for the lock of the campaign it replaces.
NewLockSkipped(p) == /\ At(p, "newLock")
                     /\ Goto(p, "makeRuns")
                     /\ UNCHANGED <<links, tree, lock, memory, history, bounds>>

NewLock(p) == At(p, "newLock") /\ Locking(p, looked[p], "makeRuns")

MakeRuns(p) == /\ At(p, "makeRuns")
               /\ runsDir' = TRUE
               /\ Goto(p, "makeDir")
               /\ UNCHANGED <<links, dirs, files, made, lock, memory, history,
                              bounds>>

\* Mutant: a directory of the same second is used again.
MakeDirAgain(p) == /\ At(p, "makeDir") /\ runsDir
                   /\ \E c \in dirs \cup {made + 1} :
                         /\ made' = IF c = made + 1 THEN c ELSE made
                         /\ dirs' = dirs \cup {c}
                         /\ camp' = [camp EXCEPT ![p] = c]
                   /\ Goto(p, "manifest")
                   /\ UNCHANGED <<links, runsDir, files, lock, kind, looked, left,
                                  inside, history, bounds>>

\* mkdir without exist_ok: the directory is new.
MakeDir(p) == /\ At(p, "makeDir")
              /\ Try(p, runsDir, "manifest")
              /\ made' = IF runsDir THEN made + 1 ELSE made
              /\ dirs' = IF runsDir THEN dirs \cup {made'} ELSE dirs
              /\ camp' = [camp EXCEPT ![p] = IF runsDir THEN made' ELSE @]
              /\ UNCHANGED <<links, runsDir, files, lock, kind, looked, left,
                             inside, history, bounds>>

PutFile(c, e) == files' = [files EXCEPT ![c] = @ \cup {e}]

\* Mutant: the link is swung before the manifest is there.
ManifestLater(p) == /\ At(p, "manifest")
                    /\ Goto(p, "checkTmp")
                    /\ UNCHANGED <<links, tree, lock, memory, history, bounds>>

WriteManifest(p) == /\ At(p, "manifest")
                    /\ Try(p, camp[p] \in dirs, "checkTmp")
                    /\ IF camp[p] \in dirs THEN PutFile(camp[p], "manifest.json")
                                           ELSE UNCHANGED files
                    /\ UNCHANGED <<links, runsDir, dirs, made, lock, memory,
                                   history, bounds>>

\* Mutant: a CURRENT.tmp that somebody left is not looked for.
CheckNothing(p) == /\ At(p, "checkTmp")
                   /\ Goto(p, "symlink")
                   /\ UNCHANGED <<links, tree, lock, memory, history, bounds>>

CheckTmp(p) == /\ At(p, "checkTmp")
               /\ Goto(p, IF tmp = None THEN "symlink" ELSE "unlinkTmp")
               /\ UNCHANGED <<links, tree, lock, memory, history, bounds>>

UnlinkTmp(p) == /\ At(p, "unlinkTmp")
                /\ Try(p, tmp # None, "symlink")
                /\ tmp' = None
                /\ UNCHANGED <<current, tree, lock, memory, history, bounds>>

Symlink(p) == /\ At(p, "symlink")
              /\ Try(p, runsDir /\ tmp = None, "rename")
              /\ tmp' = IF runsDir /\ tmp = None THEN camp[p] ELSE tmp
              /\ UNCHANGED <<current, tree, lock, memory, history, bounds>>

\* The rename moves whatever link is there, also one another command made.
Rename(p) == /\ At(p, "rename")
             /\ Try(p, tmp # None, "newRelease")
             /\ tmp' = None
             /\ current' = IF tmp # None THEN tmp ELSE current
             /\ past' = past \cup ({tmp} \ {None})
             /\ UNCHANGED <<tree, lock, memory, wiped, witness, bounds>>

(***************************************************************************)
(* The work of eval-all, eval and eval-report.                             *)
(***************************************************************************)
\* A cell's directory is made with its parents.  There may be no cell to run,
\* and the command gives up when a case cannot be prepared.
Work(p) == /\ At(p, "work")
           /\ \/ /\ runsDir' = TRUE
                 /\ dirs' = dirs \cup {camp[p]}
                 /\ PutFile(camp[p], "results")
                 /\ Goto(p, "report")
              \/ /\ Goto(p, "release")
                 /\ UNCHANGED <<runsDir, dirs, files>>
              \/ /\ kind[p] = "eval-all"
                 /\ Goto(p, "report")
                 /\ UNCHANGED <<runsDir, dirs, files>>
           /\ UNCHANGED <<links, made, lock, memory, history, bounds>>

\* The report is rendered from the manifest.
WriteReport(p) == /\ At(p, "report")
                  /\ Goto(p, "release")
                  /\ IF Whole(camp[p]) THEN PutFile(camp[p], "results")
                                       ELSE UNCHANGED files
                  /\ UNCHANGED <<links, runsDir, dirs, made, lock, memory,
                                 history, bounds>>

(***************************************************************************)
(* eval-clean-runs: shutil.rmtree lists a directory, removes what it       *)
(* listed and then the directory.  An entry that is gone meanwhile is      *)
(* passed over or raises, by the version of Python; one that is new makes  *)
(* the removal of the directory raise.                                     *)
(***************************************************************************)
LinkTarget(e) == IF e = CURRENT THEN current ELSE tmp

Scan(p) == /\ At(p, "scan")
           /\ left' = [left EXCEPT ![p] =
                 dirs \cup {e \in Links : LinkTarget(e) # None}]
           /\ Try(p, runsDir, "remove")
           /\ UNCHANGED <<links, tree, lock, kind, looked, camp, inside, history,
                          bounds>>

MayGoOn(p, there) == \/ UNCHANGED pc
                     \/ ~ there /\ Goto(p, "release")

RemoveLink(p) ==
    /\ At(p, "remove")
    /\ \E e \in left[p] \cap Links :
          /\ MayGoOn(p, LinkTarget(e) # None)
          /\ current' = IF e = CURRENT THEN None ELSE current
          /\ tmp' = IF e = CURRENT_tmp THEN None ELSE tmp
          /\ left' = [left EXCEPT ![p] = @ \ {e}]
    /\ DisturbCreation
    /\ UNCHANGED <<tree, lock, kind, looked, camp, inside, bounds>>

\* camp is the campaign whose directory is being removed.
OpenCampaign(p) ==
    /\ At(p, "remove")
    /\ \E c \in left[p] \ Links :
          /\ IF c \in dirs THEN Goto(p, "removeCampaign") ELSE MayGoOn(p, FALSE)
          /\ left' = [left EXCEPT ![p] = @ \ {c}]
          /\ camp' = [camp EXCEPT ![p] = c]
          /\ inside' = [inside EXCEPT ![p] = files[c] \cup
                (IF lock[c] = None THEN {} ELSE {".lock"})]
    /\ UNCHANGED <<links, tree, lock, kind, looked, history, bounds>>

RemoveFile(p) ==
    /\ At(p, "removeCampaign")
    /\ LET c == camp[p] IN \E e \in inside[p] :
          /\ MayGoOn(p, IF e = ".lock" THEN lock[c] # None ELSE e \in files[c])
          /\ files' = [files EXCEPT ![c] = @ \ {e}]
          /\ lock' = IF e = ".lock" THEN [lock EXCEPT ![c] = None] ELSE lock
          /\ inside' = [inside EXCEPT ![p] = @ \ {e}]
          /\ wiped' = wiped \cup {c}
    /\ UNCHANGED <<links, runsDir, dirs, made, kind, looked, camp, left, past,
                   witness, bounds>>

RemoveCampaign(p) ==
    /\ At(p, "removeCampaign") /\ inside[p] = {}
    /\ LET c == camp[p]
           empty == c \in dirs /\ files[c] = {} /\ lock[c] = None
       IN /\ Try(p, empty, "remove")
          /\ dirs' = IF empty THEN dirs \ {c} ELSE dirs
    /\ DisturbCreation
    /\ UNCHANGED <<links, runsDir, files, made, lock, memory, bounds>>

RemoveRuns(p) ==
    /\ At(p, "remove") /\ left[p] = {}
    /\ Goto(p, "release")
    /\ runsDir' = ~ (dirs = {} /\ current = None /\ tmp = None)
    /\ DisturbCreation
    /\ UNCHANGED <<links, dirs, files, made, lock, memory, bounds>>

Crash(p) == /\ Running(p)
            /\ crashes < MaxCrashes
            /\ crashes' = crashes + 1
            /\ End(p)
            /\ DisturbCreation
            /\ UNCHANGED <<links, tree, lock, cleans>>

EvalNew(p) == \/ NewLookup(p) \/ NewLock(p) \/ MakeRuns(p) \/ MakeDir(p)
              \/ WriteManifest(p) \/ CheckTmp(p) \/ UnlinkTmp(p)
              \/ Symlink(p) \/ Rename(p)

CleanRuns(p) == \/ Scan(p) \/ RemoveLink(p) \/ OpenCampaign(p)
                \/ RemoveFile(p) \/ RemoveCampaign(p) \/ RemoveRuns(p)

Step(p) == \/ Lookup(p) \/ ReadManifest(p) \/ AcquireLock(p) \/ ReleaseLock(p)
           \/ Work(p) \/ WriteReport(p)
           \/ EvalNew(p) \/ CleanRuns(p)

Next == \E p \in Proc : \/ \E k \in Kinds : Start(p, k)
                        \/ Step(p)
                        \/ Crash(p)

Spec == Init /\ [][Next]_vars

-----------------------------------------------------------------------------
(***************************************************************************)
(* Properties.                                                             *)
(***************************************************************************)

TypeOK == /\ runsDir \in BOOLEAN
          /\ current \in Campaign \cup {None}
          /\ tmp \in Campaign \cup {None}
          /\ dirs \subseteq Campaign
          /\ files \in [Campaign -> SUBSET Entries]
          /\ lock \in [Campaign -> Proc \cup {None}]
          /\ made \in Campaign \cup {None}
          /\ pc \in [Proc -> Steps]
          /\ kind \in [Proc -> Kinds]
          /\ looked \in [Proc -> Campaign \cup {None}]
          /\ camp \in [Proc -> Campaign \cup {None}]
          /\ left \in [Proc -> SUBSET (Campaign \cup Links)]
          /\ inside \in [Proc -> SUBSET (Entries \cup {".lock"})]
          /\ past \subseteq Campaign
          /\ wiped \subseteq Campaign
          /\ witness \subseteq Proc
          /\ crashes \in 0..MaxCrashes
          /\ cleans \in Nat

\* CURRENT points to a campaign that has its manifest, whichever commands race
\* and wherever they are killed; otherwise every later command would fail on
\* it.  The exception is a campaign that an eval-clean-runs took apart.
CurrentIsWhole == current = None \/ Whole(current) \/ current \in wiped

Working(p, c) == /\ kind[p] \in {"eval-all", "eval", "eval-report"}
                 /\ pc[p] \in {"work", "report"}
                 /\ camp[p] = c /\ lock[c] = p

Acts(q) == pc'[q] # pc[q] \/ left'[q] # left[q] \/ inside'[q] # inside[q]

\* While a command works in a campaign under its lock, nobody makes another
\* one current or takes anything out of it (test_eval_new_refuses_to_repoint_
\* when_current_campaign_is_locked) - except commands that looked CURRENT up
\* at another time and so never asked for this lock, and except once
\* eval-clean-runs has begun to take the campaign apart, its lock included.
LockedCampaignLeftAlone ==
    [][\A p \in Proc, c \in Campaign \ wiped :
          /\ Working(p, c)
          /\ \/ current = c /\ current' # c
             \/ ~ files[c] \subseteq files'[c]
             \/ lock'[c] # p
          => \E q \in Proc : Acts(q) /\ (q = p \/ looked[q] # c)]_vars

\* CURRENT never goes back to a campaign it has left, with commands that find
\* and move each other's CURRENT.tmp and with one that a killed command left.
Pointer == INSTANCE CampaignPointer WITH Campaigns <- Campaign,
                                         NoCampaign <- None,
                                         pointer <- current,
                                         seen <- past
ImplementsCampaignPointer == Pointer!Spec

\* Commands that make the first campaign at the same time get in each other's
\* way, but they never all fail: one that gives up leaves CURRENT, or another
\* that is on its way to it.  What a command killed earlier left does not stop
\* it, but a kill or an eval-clean-runs in the middle of its own attempt may.
CreatorGivesWayToAnother ==
    [][\A p \in Proc \ witness :
          Creating(p) /\ At(p, "release")' =>
             current # None \/ \E q \in Proc \ {p} : Creating(q)]_vars
=============================================================================
