------------------------------ MODULE CaseCache ------------------------------
(***************************************************************************)
(* One cached layer of one case in .runs-cache (workspace.py): the bare    *)
(* git repository built from the fixture, or the virtualenv built from the *)
(* fixture's lock file, beside a hash file that says what it was built     *)
(* from.  Both follow one protocol - compare, remove the layer, remove the *)
(* hash file, build, write the hash file - and differ in the build: the    *)
(* repository is built aside and moved into place, uv sync works in place. *)
(*                                                                         *)
(* eval and eval-all prepare and use the layer under the campaign lock and *)
(* eval-clean-cache removes it under that lock; eval-prepare takes no      *)
(* lock.  Fixture contents are numbered versions.                          *)
(***************************************************************************)
EXTENDS Naturals, FiniteSets

CONSTANTS Commands,      \* commands that may run at the same time
          LockUsers,     \* which of them may be those that take the lock
          MayRevert,     \* the operator may restore an earlier fixture
          MaxEdits,      \* bound: fixture edits
          MaxCleans,     \* bound: eval-clean-cache commands
          MaxCrashes     \* bound: commands killed

ASSUME CacheAssumption == /\ LockUsers \subseteq SUBSET Commands
                          /\ MayRevert \in BOOLEAN
                          /\ MaxEdits \in Nat
                          /\ MaxCleans \in Nat
                          /\ MaxCrashes \in Nat

VARIABLES kind,      \* which layer this is: "repo" or "venv"
          locked,    \* the commands that hold the campaign lock
          fixture,   \* version of the fixture's files now
          edits,
          layer,     \* the cached layer on disk
          hashFile,  \* version in the hash file; Missing or Truncated
          step,      \* per command, its next step
          key,       \* per command, the hash it computed
          built,     \* per command, the version its build read
          crossed,   \* commands amid the directory when another changed it
          failed,    \* history: a prepare ended with an error
          crashes, cleans

vars == <<kind, locked, fixture, edits, layer, hashFile, step, key, built, crossed,
          failed, crashes, cleans>>

Versions == 1..(MaxEdits + 1)
Missing == 0
Truncated == MaxEdits + 2

\* nested: a second repository was moved inside this one.  torn: some of its
\* entries are missing.  debris: torn, and the eval-clean-cache that was
\* removing it is dead.
Layers == [state : {"absent", "torn", "whole", "debris"},
           version : Versions \cup {Missing},
           nested : BOOLEAN]
Absent == [state |-> "absent", version |-> Missing, nested |-> FALSE]
Layer(s, v) == [state |-> s, version |-> v, nested |-> FALSE]

Steps == {"idle", "hash", "check", "remove", "removing", "unlinkHash",
          "build", "publish", "openHash", "writeHash", "use", "cleaning"}

Present == layer.state # "absent"

\* Mutant: the hash is not compared.
PresentIsEnough(v) == hashFile # Missing /\ Present

\* What _prepare_needed and ensure_case_bare_repo / ensure_case_venv trust.
UpToDate(v) == hashFile = v /\ Present

Init == /\ kind \in {"repo", "venv"}
        /\ locked \in LockUsers
        /\ fixture = 1
        /\ edits = 0
        /\ layer = Absent
        /\ hashFile = Missing
        /\ step = [c \in Commands |-> "idle"]
        /\ key = [c \in Commands |-> Missing]
        /\ built = [c \in Commands |-> Missing]
        /\ crossed = {}
        /\ failed = FALSE
        /\ crashes = 0
        /\ cleans = 0

\* The operator edits the fixture; no command takes notice.
EditFixture == /\ edits < MaxEdits
               /\ edits' = edits + 1
               /\ \/ fixture' = edits + 2
                  \/ MayRevert /\ fixture' \in 1..edits + 1 /\ fixture' # fixture
               /\ UNCHANGED <<kind, locked, layer, hashFile, step, key, built,
                              crossed, failed, crashes, cleans>>

Goto(c, s) == step' = [step EXCEPT ![c] = s]
World == UNCHANGED <<kind, locked, fixture, edits, crashes, cleans>>
Env == World /\ UNCHANGED <<crossed, failed>>

\* A command ends, and what it computed goes with it.
Leave(c) == /\ Goto(c, "idle")
            /\ key' = [key EXCEPT ![c] = Missing]
            /\ built' = [built EXCEPT ![c] = Missing]

\* The other commands at work, and those of them in the middle of the cached
\* directory: removing it, or syncing in it.
Others(c) == {d \in Commands \ {c} : step[d] # "idle"}
Amid(c) == {d \in Others(c) : \/ step[d] \in {"removing", "cleaning"}
                              \/ step[d] = "publish" /\ kind = "venv"}

\* Two commands amid one directory may upset each other: an entry that rmtree
\* listed is gone, one that it did not list is there when it calls rmdir.
Meet(c) == \E D \in SUBSET (Amid(c) \cup {c}) :
              crossed' = IF Amid(c) = {} THEN crossed ELSE crossed \cup D

\* A command takes the campaign lock, if it is one that does.
Free(c) == /\ step[c] = "idle"
           /\ c \in locked => \A d \in locked : step[d] = "idle"

Start(c) == /\ Free(c)
            /\ Goto(c, "hash")
            /\ Env /\ UNCHANGED <<layer, hashFile, key, built>>

ComputeHash(c) == /\ step[c] = "hash"
                  /\ key' = [key EXCEPT ![c] = fixture]
                  /\ Goto(c, "check")
                  /\ Env /\ UNCHANGED <<layer, hashFile, built>>

\* eval-prepare is finished once the layer is prepared; eval goes on to use it.
Prepared(c) == IF c \in locked THEN Goto(c, "use") /\ UNCHANGED <<key, built>>
                               ELSE Leave(c)

\* Mutant: a layer that is there is kept.
CheckPresence(c) == /\ step[c] = "check"
                    /\ \/ Present /\ Prepared(c)
                       \/ ~ Present /\ Goto(c, "remove") /\ UNCHANGED <<key, built>>
                    /\ Env /\ UNCHANGED <<layer, hashFile>>

Check(c) == /\ step[c] = "check"
            /\ \/ UpToDate(key[c]) /\ Prepared(c)
               \/ ~ UpToDate(key[c]) /\ Goto(c, "remove") /\ UNCHANGED <<key, built>>
            /\ Env /\ UNCHANGED <<layer, hashFile>>

\* rmtree takes several system calls: the layer is torn until the last one.
\* A nested repository that is there by now goes with the rest.
RemoveBegin(c) == /\ step[c] = "remove"
                  /\ \/ /\ Present
                        /\ layer' = [layer EXCEPT !.state = "torn"]
                        /\ \/ Meet(c)
                           \/ layer.nested /\ crossed' \in SUBSET crossed
                        /\ Goto(c, "removing")
                     \/ /\ ~ Present
                        /\ Goto(c, "unlinkHash")
                        /\ UNCHANGED <<layer, crossed>>
                  /\ World /\ UNCHANGED <<hashFile, key, built, failed>>

\* The last rmdir: for whoever else is amid the directory it is gone.
RemoveEnd(c) == /\ step[c] = "removing" /\ c \notin crossed
                /\ layer' = Absent
                /\ crossed' = crossed \cup Amid(c)
                /\ Goto(c, "unlinkHash")
                /\ World /\ UNCHANGED <<hashFile, key, built, failed>>

\* rmtree raises over an entry that another command took away or put in
\* (ENOENT, ENOTEMPTY) and leaves what is left; so do rmtree and unlink when
\* another command removed directory or file after exists() saw it.
RemoveFails(c) == /\ \/ step[c] = "removing" /\ c \in crossed
                     \/ step[c] = "remove" /\ ~ Present /\ Others(c) # {}
                     \/ step[c] = "unlinkHash" /\ hashFile = Missing /\ Others(c) # {}
                  /\ Leave(c)
                  /\ crossed' = crossed \ {c}
                  /\ failed' = TRUE
                  /\ World /\ UNCHANGED <<layer, hashFile>>

UnlinkHash(c) == /\ step[c] = "unlinkHash"
                 /\ hashFile' = Missing
                 /\ Goto(c, "build")
                 /\ Env /\ UNCHANGED <<layer, key, built>>

\* The build reads the fixture again; uv sync fills the directory meanwhile.
Build(c) == /\ step[c] = "build"
            /\ built' = [built EXCEPT ![c] = fixture]
            /\ \/ kind = "venv" /\ layer' = Layer("torn", fixture) /\ Meet(c)
               \/ kind = "repo" /\ UNCHANGED <<layer, crossed>>
            /\ Goto(c, "publish")
            /\ World /\ UNCHANGED <<hashFile, key, failed>>

\* git, uv or the move fails: the exception is recorded and the case given up.
BuildFails(c) == /\ step[c] = "publish"
                 /\ Leave(c)
                 /\ crossed' = crossed \ {c}
                 /\ failed' = TRUE
                 /\ World /\ UNCHANGED <<layer, hashFile>>

\* Mutant: the move replaces a directory that is there.
PublishOver(c) == /\ step[c] = "publish" /\ kind = "repo"
                  /\ layer' = Layer("whole", built[c])
                  /\ Goto(c, "openHash")
                  /\ Env /\ UNCHANGED <<hashFile, key, built>>

\* shutil.move renames onto a free path and moves into an existing directory,
\* whose removers then find it not empty; it raises (BuildFails) when that
\* directory already holds an entry of the same name.  A directory removed
\* after it looked is made anew by its fallback, with the repository inside.
PublishRepo(c) == /\ step[c] = "publish" /\ kind = "repo"
                  /\ \/ /\ ~ Present
                        /\ \/ layer' = Layer("whole", built[c])
                           \/ /\ Others(c) # {}
                              /\ layer' = [Layer("torn", built[c]) EXCEPT !.nested = TRUE]
                     \/ /\ Present
                        /\ layer.nested => layer.state # "whole"
                        /\ layer' = [layer EXCEPT !.nested = TRUE]
                  /\ crossed' = crossed \cup Amid(c)
                  /\ Goto(c, "openHash")
                  /\ World /\ UNCHANGED <<hashFile, key, built, failed>>

\* uv sync ends well only if nobody removed the directory under it; what
\* others removed inside it while it ran may be missing.
PublishVenv(c) == /\ step[c] = "publish" /\ kind = "venv"
                  /\ Present
                  /\ \/ layer' = Layer("whole", built[c])
                     \/ c \in crossed /\ layer' = Layer("torn", built[c])
                  /\ crossed' = crossed \ {c}
                  /\ Goto(c, "openHash")
                  /\ World /\ UNCHANGED <<hashFile, key, built, failed>>

\* Path.write_text truncates the file and then writes it.
OpenHash(c) == /\ step[c] = "openHash"
               /\ hashFile' = Truncated
               /\ Goto(c, "writeHash")
               /\ Env /\ UNCHANGED <<layer, key, built>>

\* Mutant: the hash is computed after the build instead of before.
HashAfterBuild(c) == /\ step[c] = "writeHash"
                     /\ hashFile' = fixture
                     /\ Prepared(c)
                     /\ Env /\ UNCHANGED layer

WriteHash(c) == /\ step[c] = "writeHash"
                /\ hashFile' = key[c]
                /\ Prepared(c)
                /\ Env /\ UNCHANGED layer

\* Mutant: the command stops in a step of its own.
FinishUseStops(c) == /\ step[c] = "use"
                     /\ Goto(c, "finished")
                     /\ Env /\ UNCHANGED <<layer, hashFile, key, built>>

\* The cells of the case clone the repository and run in the virtualenv.
FinishUse(c) == /\ step[c] = "use"
                /\ Leave(c)
                /\ Env /\ UNCHANGED <<layer, hashFile>>

(***************************************************************************)
(* eval-clean-cache: rmtree of the whole cache takes the layer and its     *)
(* hash file in directory order, and raises over what others change.       *)
(***************************************************************************)
StartClean(c) == /\ Free(c)
                 /\ cleans < MaxCleans
                 /\ cleans' = cleans + 1
                 /\ Goto(c, "cleaning")
                 /\ UNCHANGED <<kind, locked, fixture, edits, layer, hashFile,
                                key, built, crossed, failed, crashes>>

CleanLayer(c) == /\ step[c] = "cleaning" /\ Present
                 /\ \/ layer' = [layer EXCEPT !.state = "torn"] /\ Meet(c)
                    \/ layer' = Absent /\ crossed' = crossed \cup Amid(c)
                 /\ World /\ UNCHANGED <<hashFile, step, key, built, failed>>

CleanHash(c) == /\ step[c] = "cleaning"
                /\ hashFile' = Missing
                /\ Env /\ UNCHANGED <<layer, step, key, built>>

CleanEnd(c) == /\ step[c] = "cleaning"
               /\ \/ ~ Present /\ hashFile = Missing
                  \/ Others(c) # {}
                  \/ c \in crossed
               /\ Leave(c)
               /\ crossed' = crossed \ {c}
               /\ World /\ UNCHANGED <<layer, hashFile, failed>>

Crash(c) == /\ step[c] # "idle"
            /\ crashes < MaxCrashes
            /\ crashes' = crashes + 1
            /\ Leave(c)
            /\ crossed' = crossed \ {c}
            /\ layer' = IF step[c] = "cleaning" /\ layer.state = "torn"
                          THEN [layer EXCEPT !.state = "debris"] ELSE layer
            /\ UNCHANGED <<kind, locked, fixture, edits, hashFile, failed, cleans>>

Prepare(c) == \/ ComputeHash(c) \/ Check(c)
              \/ RemoveBegin(c) \/ RemoveEnd(c) \/ RemoveFails(c)
              \/ UnlinkHash(c)
              \/ Build(c) \/ BuildFails(c) \/ PublishRepo(c) \/ PublishVenv(c)
              \/ OpenHash(c) \/ WriteHash(c)

Clean(c) == CleanLayer(c) \/ CleanHash(c) \/ CleanEnd(c)

Next == \/ EditFixture
        \/ \E c \in Commands : \/ Start(c) \/ Prepare(c) \/ FinishUse(c)
                              \/ StartClean(c) \/ Clean(c)
                              \/ Crash(c)

Spec == Init /\ [][Next]_vars

\* Commands make progress, the operator prepares again and again, and a
\* build that is tried again and again succeeds again and again.
Fairness == /\ WF_vars(\E c \in Commands : Start(c))
            /\ \A c \in Commands : /\ WF_vars(Prepare(c))
                                   /\ WF_vars(FinishUse(c))
                                   /\ WF_vars(CleanLayer(c) /\ layer' = Absent)
                                   /\ WF_vars(CleanHash(c))
                                   /\ WF_vars(CleanEnd(c))
            /\ SF_vars(\E c \in Commands : PublishRepo(c) \/ PublishVenv(c))

FairSpec == Spec /\ Fairness

-----------------------------------------------------------------------------
(***************************************************************************)
(* Properties.                                                             *)
(***************************************************************************)

TypeOK == /\ kind \in {"repo", "venv"}
          /\ locked \in LockUsers
          /\ fixture \in Versions
          /\ edits \in 0..MaxEdits
          /\ layer \in Layers
          /\ hashFile \in Versions \cup {Missing, Truncated}
          /\ step \in [Commands -> Steps]
          /\ key \in [Commands -> Versions \cup {Missing}]
          /\ built \in [Commands -> Versions \cup {Missing}]
          /\ crossed \subseteq Commands
          /\ failed \in BOOLEAN
          /\ crashes \in 0..MaxCrashes
          /\ cleans \in 0..MaxCleans

Whole(v) == layer.state = "whole" /\ layer.version = v
Debris == layer.state = "debris"

\* A layer that _prepare_needed accepts is complete and was built from the
\* fixture as it is now (its comment: a mutated fixture must be detected, or
\* eval-all "would otherwise reuse outdated cache contents").  It holds for
\* commands under one lock and fixtures that never go back, with edits in the
\* middle of a build and commands killed anywhere - but for one layer: that
\* which an eval-clean-cache was removing when it was killed.
TrustedIsCurrent ==
    locked = Commands /\ (\A c \in Commands : step[c] # "cleaning") =>
        (UpToDate(fixture) => Whole(fixture) \/ Debris)

\* The cells of a case start from a complete layer that is no older than the
\* fixture was when the command looked, with the same exception.
UsedIsWhole == locked = Commands =>
                  \A c \in Commands : step[c] = "use" =>
                     /\ layer.state \in {"whole", "debris"}
                     /\ layer.version >= key[c]

\* Between commands of any number, with the lock or without, a repository that
\* is accepted is whole and current once nobody replaces it: moving into place
\* puts no older repository over a newer one.  Two exceptions are the code's:
\* a newer repository moved inside an older one is vouched for with no error
\* (nested), and once a prepare failed over another nothing is promised (a
\* torn repository stays, and who moved into it may still vouch for it).
UnlockedRepoIsCurrent ==
    /\ kind = "repo" /\ crashes = 0 /\ cleans = 0 /\ ~ failed
    /\ \A c \in Commands :
          step[c] \notin {"removing", "unlinkHash", "build", "publish"}
    => (UpToDate(fixture) => Whole(fixture) \/ layer.nested)

\* Once edits and crashes are over, preparing leads to a layer that is
\* accepted from then on, and complete but for what a killed clean left.
CacheSettles == locked = Commands =>
                   <>[](UpToDate(fixture) /\ (Whole(fixture) \/ Debris))
=============================================================================
