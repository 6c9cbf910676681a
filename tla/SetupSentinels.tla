---------------------------- MODULE SetupSentinels ----------------------------
(***************************************************************************)
(* The setup of one framework (setup.py, cli.py): a command such as        *)
(* "uv sync" run in the framework's directory, and the two sentinel files  *)
(* in .runs-cache/setup that say how it went.  .ok and .fail each hold the *)
(* fingerprint of the setup's inputs.  eval and eval-all ask               *)
(* _prepare_needed whether anything is to be prepared and do so under the  *)
(* campaign lock; eval-prepare prepares at once and takes no lock.  A cell *)
(* is run unless .fail is there.                                           *)
(*                                                                         *)
(* The setup's process leads a group of its own, so it survives the death  *)
(* or the interruption of the command that started it.                     *)
(***************************************************************************)
EXTENDS Naturals, FiniteSets

CONSTANTS Commands,     \* commands that may run at the same time
          Preparers,    \* those that are eval-prepare; the others, eval and
                        \* eval-all, hold the campaign lock
          MaxVersions,  \* bound: different contents of the inputs
          MaxEdits,     \* bound: edits of the framework's directory
          MaxUpsets     \* bound: eval-clean-cache commands, and commands that
                        \* are killed or interrupted, together

ASSUME SetupAssumption == /\ Preparers \subseteq Commands
                          /\ MaxVersions \in Nat \ {0}
                          /\ MaxEdits \in Nat
                          /\ MaxUpsets \in Nat

VARIABLES inputs,     \* version of the manifest, scripts and lock files
          edits,
          seen,       \* history: the versions so far
          restored,   \* history: an earlier version was restored
          faulty,     \* the setup may fail (network, registry, disk)
          installed,  \* what the framework's directory was set up from
          dir,        \* the directory of the sentinels is there
          ok, fail,   \* the fingerprint in each sentinel, None without one
          step,       \* per command, its next step
          spec,       \* per command, the version it discovered the setup in
          key,        \* per command, current_fingerprint
          child,      \* per command, what its running setup is set up from
          orphans,    \* the same of setups whose command is gone
          disturbed,  \* history: see Spawn and Kill
          edited,     \* history: commands during whose setup there was an edit
          mixed,      \* history: there was one during the last that succeeded
          upsets

disk == <<inputs, edits, seen, restored, faulty, installed, dir, ok, fail>>
local == <<step, spec, key, child>>
vars == <<disk, local, orphans, disturbed, edited, mixed, upsets>>

Versions == 1..MaxVersions

\* The setup command comes from discovery; the files are read later.
Fingerprints == [setup : Versions, files : Versions]
None == [setup |-> 0, files |-> 0]
Torn == None
Current == [setup |-> inputs, files |-> inputs]

Steps == {"idle", "lock", "needed", "compare", "skip", "fingerprint", "fresh",
          "unlinkOk", "unlinkFail", "spawn", "wait", "writeOk", "writeFail",
          "use", "cleaning"}

\* A sentinel has been removed and the next one is not there yet.
Midway == {"unlinkFail", "spawn", "wait", "writeOk", "writeFail", "cleaning"}

\* A setup has been started and has not left its sentinel yet.
Under == {"wait", "writeOk", "writeFail"}

\* A setup has been fingerprinted and has not ended yet.
Setup == {"fresh", "unlinkOk", "unlinkFail", "spawn", "wait"}

Init == /\ inputs = 1
        /\ edits = 0
        /\ seen = {1}
        /\ restored = FALSE
        /\ faulty = TRUE
        /\ installed = Torn
        /\ dir = FALSE
        /\ ok = None
        /\ fail = None
        /\ step = [c \in Commands |-> "idle"]
        /\ spec = [c \in Commands |-> 1]
        /\ key = [c \in Commands |-> None]
        /\ child = [c \in Commands |-> None]
        /\ orphans = {}
        /\ disturbed = FALSE
        /\ edited = {}
        /\ mixed = FALSE
        /\ upsets = 0

\* The operator edits the framework's directory, to something new or back to
\* what it was; no command takes notice.
EditInputs == /\ edits < MaxEdits
              /\ edits' = edits + 1
              /\ inputs' \in Versions \ {inputs}
              /\ seen' = seen \cup {inputs'}
              /\ restored' = (restored \/ inputs' \in seen)
              /\ edited' = edited \cup {c \in Commands : step[c] \in Setup}
              /\ UNCHANGED <<faulty, installed, dir, ok, fail, local, orphans,
                             disturbed, mixed, upsets>>

\* What made the setup fail has been put right.
Repair == /\ faulty
          /\ faulty' = FALSE
          /\ UNCHANGED <<inputs, edits, seen, restored, installed, dir, ok, fail, local,
                         orphans, disturbed, edited, mixed, upsets>>

Goto(c, s) == step' = [step EXCEPT ![c] = s]
World == UNCHANGED <<inputs, edits, seen, restored, faulty, upsets>>

\* What a command discovered and computed goes with it.
Forget(c) == /\ spec' = [spec EXCEPT ![c] = 1]
             /\ key' = [key EXCEPT ![c] = None]
Quietly == World /\ UNCHANGED <<installed, child, orphans, disturbed, mixed>>
Files == UNCHANGED <<dir, ok, fail>>

\* Discovery reads the manifest before the lock is taken; eval-prepare goes
\* straight to run_framework_setup.
Start(c) == /\ step[c] = "idle"
            /\ spec' = [spec EXCEPT ![c] = inputs]
            /\ Goto(c, IF c \in Preparers THEN "fingerprint" ELSE "lock")
            /\ Quietly /\ Files /\ UNCHANGED <<key, edited>>

LockFree(c) ==
    \A d \in Commands \ (Preparers \cup {c}) : step[d] \in {"idle", "lock"}

\* A command that is refused the lock ends.
TakeLock(c) == /\ step[c] = "lock"
               /\ \/ LockFree(c) /\ Goto(c, "needed") /\ UNCHANGED <<spec, key>>
                  \/ ~ LockFree(c) /\ Goto(c, "idle") /\ Forget(c)
               /\ Quietly /\ Files /\ UNCHANGED edited

-----------------------------------------------------------------------------
(***************************************************************************)
(* _prepare_needed and _setup_fail_is_fresh.                               *)
(***************************************************************************)

\* Mutant: the command is left out of the fingerprint.
FilesOnly(c) == Current

\* setup_fingerprint: the discovered command and the files as they are.
SetupFingerprint(c) == [setup |-> spec[c], files |-> inputs]

TakeFingerprint(c, from, to) == /\ step[c] = from
                                /\ key' = [key EXCEPT ![c] = SetupFingerprint(c)]
                                /\ edited' = edited \ {c}
                                /\ Goto(c, to)
                                /\ Quietly /\ UNCHANGED <<ok, fail, spec>>

PrepareNeeded(c) == TakeFingerprint(c, "needed", "compare") /\ UNCHANGED dir

\* A fresh .fail counts as settled, and hides .ok.
Settled(c) == IF fail # None THEN fail = key[c] ELSE ok = key[c]

\* Other frameworks or cases may call for preparation as well.  eval-all then
\* looks for a fresh failure first (skip_fresh_failed_setups), eval does not.
Compare(c) == /\ step[c] = "compare"
              /\ \/ Settled(c) /\ Goto(c, "use")
                 \/ Goto(c, "skip")
                 \/ Goto(c, "fingerprint")
              /\ key' = [key EXCEPT ![c] = None]
              /\ Quietly /\ Files /\ UNCHANGED <<spec, edited>>

SkipFreshFailed(c) ==
    /\ step[c] = "skip"
    /\ Goto(c, IF fail = SetupFingerprint(c) THEN "use" ELSE "fingerprint")
    /\ Quietly /\ Files /\ UNCHANGED <<spec, key, edited>>

-----------------------------------------------------------------------------
(***************************************************************************)
(* run_framework_setup.                                                    *)
(***************************************************************************)

Prepared(c) == Forget(c) /\ Goto(c, IF c \in Preparers THEN "idle" ELSE "use")

Fingerprint(c) == TakeFingerprint(c, "fingerprint", "fresh") /\ dir' = TRUE

\* Mutant: a failure is settled here as well.
FreshEitherWay(c) == /\ step[c] = "fresh"
                     /\ \/ Settled(c) /\ Prepared(c)
                        \/ /\ ~ (Settled(c))
                           /\ Goto(c, "unlinkOk") /\ UNCHANGED <<spec, key>>
                     /\ Quietly /\ Files /\ UNCHANGED edited

Fresh(c) == /\ step[c] = "fresh"
            /\ \/ fail = None /\ ok = key[c] /\ Prepared(c)
               \/ /\ ~ (fail = None /\ ok = key[c])
                  /\ Goto(c, "unlinkOk") /\ UNCHANGED <<spec, key>>
            /\ Quietly /\ Files /\ UNCHANGED edited

UnlinkOk(c) == /\ step[c] = "unlinkOk"
               /\ ok' = None
               /\ Goto(c, "unlinkFail")
               /\ Quietly /\ UNCHANGED <<dir, fail, spec, key, edited>>

UnlinkFail(c) == /\ step[c] = "unlinkFail"
                 /\ fail' = None
                 /\ Goto(c, "spawn")
                 /\ Quietly /\ UNCHANGED <<dir, ok, spec, key, edited>>

\* shlex.split or Popen raises: the directory stays as it is.
PreExecFailure(c) == /\ step[c] = "spawn" /\ faulty
                     /\ Goto(c, "writeFail")
                     /\ Quietly /\ Files /\ UNCHANGED <<spec, key, edited>>

\* The setup runs the discovered command on the files that are there now and
\* starts to change the directory.  disturbed becomes TRUE if
\* another one is under way, and FALSE again with the next that is alone.
Spawn(c) == /\ step[c] = "spawn"
            /\ child' = [child EXCEPT ![c] = [setup |-> spec[c], files |-> inputs]]
            /\ installed' = Torn /\ mixed' = FALSE
            /\ disturbed' = (orphans # {} \/ \E d \in Commands \ {c} : step[d] \in Under)
            /\ Goto(c, "wait")
            /\ World /\ Files /\ UNCHANGED <<spec, key, orphans, edited>>

\* It ends, having read the files as they were when it started or as they
\* are now.  With a nonzero status, by the timeout or with its pipes still
\* held, it has failed and left the directory half done.
Wait(c) == /\ step[c] = "wait"
           /\ \/ /\ installed' \in {child[c], [child[c] EXCEPT !.files = inputs]}
                 /\ mixed' = (c \in edited)
                 /\ Goto(c, "writeOk")
              \/ /\ faulty
                 /\ installed' = Torn
                 /\ UNCHANGED mixed
                 /\ Goto(c, "writeFail")
           /\ child' = [child EXCEPT ![c] = None]
           /\ edited' = edited \ {c}
           /\ World /\ Files /\ UNCHANGED <<spec, key, orphans, disturbed>>

WriteOk(c) == /\ step[c] = "writeOk" /\ dir
              /\ ok' = key[c]
              /\ Prepared(c)
              /\ Quietly /\ UNCHANGED <<dir, fail, edited>>

\* Mutants: the sentinel says why only; a failure leaves no sentinel.
WriteReason(c) == /\ step[c] = "writeFail" /\ dir
                  /\ fail' = [reason |-> "nonzero_exit"]
                  /\ Prepared(c)
                  /\ Quietly /\ UNCHANGED <<dir, ok, edited>>

WriteNothing(c) == /\ step[c] = "writeFail" /\ dir
                   /\ Prepared(c)
                   /\ Quietly /\ Files /\ UNCHANGED edited

WriteFail(c) == /\ step[c] = "writeFail" /\ dir
                /\ fail' = key[c]
                /\ Prepared(c)
                /\ Quietly /\ UNCHANGED <<dir, ok, edited>>

\* The logs or the sentinel cannot be created: the command ends without one.
WriteRaises(c) == /\ step[c] \in {"writeOk", "writeFail"} /\ ~ dir
                  /\ Goto(c, "idle") /\ Forget(c)
                  /\ Quietly /\ Files /\ UNCHANGED edited

\* The framework's cells are run, or given up because of .fail.
FinishUse(c) == /\ step[c] = "use"
                /\ Goto(c, "idle") /\ Forget(c)
                /\ Quietly /\ Files /\ UNCHANGED edited

-----------------------------------------------------------------------------
(***************************************************************************)
(* eval-clean-cache, setups left behind, and killed commands.              *)
(***************************************************************************)

StartClean(c) == /\ step[c] = "lock" /\ LockFree(c)
                 /\ upsets < MaxUpsets
                 /\ upsets' = upsets + 1
                 /\ Goto(c, "cleaning") /\ Forget(c)
                 /\ UNCHANGED <<disk, child, orphans, disturbed, edited,
                                mixed>>

CleanFile(c) == /\ step[c] = "cleaning"
                /\ \/ ok' = None /\ UNCHANGED <<dir, fail>>
                   \/ fail' = None /\ UNCHANGED <<dir, ok>>
                   \/ /\ ok = None /\ fail = None /\ dir' = FALSE
                      /\ UNCHANGED <<ok, fail>>
                /\ Quietly /\ UNCHANGED <<step, spec, key, edited>>

\* rmtree is through, or raised because another command changed something.
CleanEnd(c) == /\ step[c] = "cleaning"
               /\ \/ ~ dir /\ UNCHANGED disturbed
                  \/ /\ \E d \in Commands \ {c} : step[d] # "idle"
                     /\ disturbed' = TRUE
               /\ Goto(c, "idle")
               /\ World /\ Files
               /\ UNCHANGED <<installed, spec, key, child, orphans, edited, mixed>>

OrphanEnds == \E o \in orphans :
                 /\ orphans' = orphans \ {o}
                 /\ installed' \in {o, Torn}
                 /\ UNCHANGED <<inputs, edits, seen, restored, faulty, dir, ok, fail, local,
                                disturbed, edited, mixed, upsets>>

\* SIGKILL, or a Ctrl-C that nothing in the command catches.
Kill(c) == /\ step[c] # "idle"
           /\ upsets < MaxUpsets
           /\ upsets' = upsets + 1
           /\ Goto(c, "idle") /\ Forget(c)
           /\ orphans' = (orphans \cup {child[c]}) \ {None}
           /\ child' = [child EXCEPT ![c] = None]
           /\ disturbed' = (disturbed \/ step[c] \in Midway)
           /\ edited' = edited \ {c}
           /\ UNCHANGED <<disk, mixed>>

RunFrameworkSetup(c) == \/ Fingerprint(c) \/ Fresh(c)
                        \/ UnlinkOk(c) \/ UnlinkFail(c)
                        \/ PreExecFailure(c) \/ Spawn(c) \/ Wait(c)
                        \/ WriteOk(c) \/ WriteFail(c) \/ WriteRaises(c)

Prepare(c) == \/ TakeLock(c) \/ PrepareNeeded(c) \/ Compare(c) \/ SkipFreshFailed(c)
              \/ RunFrameworkSetup(c)

Clean(c) == CleanFile(c) \/ CleanEnd(c)

Next == \/ EditInputs
        \/ Repair
        \/ OrphanEnds
        \/ \E c \in Commands : \/ Start(c) \/ Prepare(c) \/ FinishUse(c)
                              \/ StartClean(c) \/ Clean(c)
                              \/ Kill(c)

Spec == Init /\ [][Next]_vars

\* Commands go on, setups end, the cause of failures is put right some day,
\* and the operator repeats eval-prepare.
Fairness == /\ WF_vars(Repair)
            /\ \A c \in Preparers : WF_vars(Start(c))
            /\ \A c \in Commands : WF_vars(Prepare(c) \/ FinishUse(c))
            /\ \A c \in Commands \ Preparers :
                  WF_vars(CleanFile(c) /\ disk' # disk) /\ WF_vars(CleanEnd(c))

FairSpec == Spec /\ Fairness

-----------------------------------------------------------------------------
(***************************************************************************)
(* Properties.                                                             *)
(***************************************************************************)

TypeOK == /\ inputs \in Versions
          /\ edits \in 0..MaxEdits
          /\ seen \subseteq Versions
          /\ restored \in BOOLEAN
          /\ faulty \in BOOLEAN
          /\ installed \in Fingerprints \cup {Torn}
          /\ dir \in BOOLEAN
          /\ ok \in Fingerprints \cup {None}
          /\ fail \in Fingerprints \cup {None}
          /\ step \in [Commands -> Steps]
          /\ spec \in [Commands -> Versions]
          /\ key \in [Commands -> Fingerprints \cup {None}]
          /\ child \in [Commands -> Fingerprints \cup {None}]
          /\ orphans \subseteq Fingerprints
          /\ disturbed \in BOOLEAN
          /\ edited \subseteq Commands
          /\ mixed \in BOOLEAN
          /\ upsets \in 0..MaxUpsets

\* No setup is at work or between the removal of one sentinel and the next.
Quiet == orphans = {} /\ \A c \in Commands : step[c] \notin Midway

\* A framework whose .ok is fresh was set up by the command and from the
\* files that are there now (setup_fingerprint: a cached .ok "goes stale when
\* they change").  It holds with eval-prepare beside other commands, edits in
\* the middle of a setup and killed commands, unless two setups ran at once.
\* Only the files may differ, and in one case: they were edited between the
\* fingerprint and the end of the setup, and the edit was undone later.
FreshOkIsInstalled ==
    Quiet /\ ~ disturbed /\ fail = None /\ ok = Current =>
        /\ installed.setup = inputs
        /\ \/ installed.files = inputs
           \/ mixed /\ restored

\* Cells are run only on a framework whose last setup ran to its end.
UsedIsInstalled ==
    Quiet /\ ~ disturbed =>
        \A c \in Commands : step[c] = "use" /\ fail = None => installed # Torn

\* Once its cause is put right, a failure is tried again: no .fail stays, and
\* the present inputs are set up again and again, also by commands that keep
\* removing each other's sentinels.
FailureIsRetried == <>[](fail = None) /\ []<>(ok = Current)
=============================================================================
