# A verification project for the agent harness evals

The repository runs a matrix of agent frameworks against a set of bug-fixing
cases and scores the results.  The harness (`src/evals/evals`) is a set of short
commands (`eval-new`, `eval-all`, `eval`, `eval-prepare`, ...) that share one
thing, the file system: a campaign directory, a cache directory, a lock file, and
sentinel files that say how far something got.  Every command may be killed at
any moment, may run beside another one, and starts child processes that do as
they please.  What makes the program correct is therefore the order of its file
operations and of its signals, and that is what the modules here are about.

Contents: [the system](#1-the-system), [the plan](#2-the-plan),
[the modules](#3-the-modules), [the runs](#4-the-runs),
[what does not hold](#5-what-does-not-hold), [fairness](#6-fairness),
[proofs](#7-proofs), [abstractions](#8-abstractions-and-assumptions),
[what is not modelled](#9-what-is-not-modelled).

To check: `tlc -config lock_takeover.cfg MCCampaignLock.tla` and so on (section 4
names the module of each configuration), and `tlapm CampaignLockProofs.tla`, likewise for
the other seven `...Proofs` modules (each takes between ten seconds and two minutes).

## 1. The system

Paths are relative to `src/evals/evals` unless they start with `src/`.

### Campaign lock (`campaign.py`)

*State*: `<campaign>/.lock`, a JSON record of pid, host and a random owner token;
`_OWNED_LOCK_TOKENS` in the memory of each process.
*Operations*: `acquire_lock` (create; if the file exists read it, judge its owner,
refuse or take over), `_take_over_lock`, `release_lock` (read, compare the token,
unlink), `lock()` which brackets the work of `eval-all`, `eval`, `eval-report`,
`eval-new` and the two clean commands.
*Hard*: creation is one atomic system call, the link of a private file; everything
else is a read, a decision and an unlink in separate system calls, with other
commands, deaths and pid reuse in between.
*Correct when*: two commands never work on one campaign; a dead owner does not
block the campaign; release does not remove somebody else's file.

### Campaign creation and `CURRENT` (`campaign.py`, `cli.py`)

*State*: `runs/<timestamp>/manifest.json`, the symbolic link `runs/CURRENT`.
*Operations*: `eval_new` (takes the lock of the *previous* campaign, makes a unique
directory, writes the manifest, swings the link by way of `CURRENT.tmp`),
`current_campaign`, `eval-clean-runs`.
*Hard*: the campaign is looked up, and its manifest read, before its lock is taken;
the first `eval-new` has no lock to take, so two of them share `CURRENT.tmp`;
`eval-clean-runs` removes the directory its own lock file is in, entry by entry.
*Correct when*: `CURRENT` names a campaign with a manifest and never goes back to an
old one; a campaign in which somebody works is left alone; one of several creators
always succeeds.

### Cell life cycle (`cli.py`, `runner.py`, `pipeline.py`, `report.py`)

*State*: per (framework, case) cell a directory with the worktree, `request.json`,
the logs, `response.json`, `diff.patch`, the test results, `scoring.json` and
`meta.json`; `report.md` for the campaign.
*Operations*: `eval-all` (skip cells with `meta.json`, remove and run the others),
`eval` (remove and run one), `eval-report`; `run_cell` and `run_pipeline` write the
artifacts one after another.
*Hard*: a death between any two writes, and the pipeline's own failure path, which
writes scoring and meta over whatever is there.
*Correct when*: `meta.json` means a complete result of one run, a later `eval-all`
neither loses nor mixes results, and the report catches up.

### Case cache (`workspace.py`, `cli.py`)

*State*: in `.runs-cache` per case a bare repository, a virtualenv and a hash file
for each.
*Operations*: `_prepare_needed`, `ensure_case_bare_repo`, `ensure_case_venv`,
`clone_cell_worktree`, `eval-clean-cache`; `eval-prepare` does the same as
`eval-all`'s preparation without taking the lock.
*Hard*: hash and build read the fixture at different times; removal and building
take many system calls, and those of two commands upset each other; the lock is per
campaign, the cache is not.
*Correct when*: a layer that the hash file vouches for is complete and was built
from the fixture as it is.

### Child process supervision (`runner.py`, `pipeline.py`, `setup.py`, `process_tree.py`)

*State*: the child, its process group, its pipes, and the threads that serve them.
*Operations*: `Popen`, `wait` with a deadline, `terminate_process_tree`, bounded
joins, `close_popen_pipes`, `_classify_error`.
*Hard*: descendants that ignore SIGTERM, outlive the leader, leave the group or keep
a pipe open; an exit at the deadline; output that is parsed while a thread may
still write it.
*Correct when*: supervision always ends, nothing of the group runs on, and the verdict
is the one the child earned.

### Framework setup sentinels (`setup.py`, `cli.py`)

*State*: `.runs-cache/setup/<framework>.ok` and `.fail`, each with a fingerprint of
the setup's inputs.
*Operations*: `run_framework_setup`, `_setup_fail_is_fresh`, `_prepare_needed`.
*Hard*: two setups at once (from `eval-prepare`), a death between the two unlinks and
the write, inputs edited while the setup runs and put back later, a `.fail` of old
inputs.
*Correct when*: cells run only on a framework whose setup succeeded on its present
inputs, and a failure that has been repaired is tried again.

### The adapters (`src/frameworks/deepagents`, `src/frameworks/pydantic-ai`)

*State*: one agent run in the main thread; a timer, which is a thread that sends
SIGINT (pydantic-ai) or a SIGALRM (deepagents); the report of `submit_report`
(deepagents); `_CHANGED_FILES` (pydantic-ai); stdout.
*Operations*: `main` (read the request, arm the timer, run the agent, disarm, print
an envelope, or try to print an error envelope from the handler of everything); `write_file`
and `edit_file`, which check the edit constraints, write and count the file.
*Hard*: the timer against the end of the run; a signal inside `finally`, in the
handler or while the envelope is printed; a small budget; tool calls in threads, which
check before the others have counted; a write that fails after it truncated.
*Correct when*: exactly one envelope is printed, before the harness's deadline where the
budget allows it, and the tools keep to the constraints.

### Status (`status.py`)

*State*: none of its own.  `eval-status` takes no lock and looks at each cell with two
to four system calls while commands write and remove it.
*Hard*: `eval` and `eval-clean-runs` remove what was there at the call before.
*Correct when*: what it shows was so at some moment while it looked.

### The rest

`report.py` renders the matrix; `runner.py`'s `resolve_effective_config` merges three
layers of settings; `check_edit_constraints` (pipeline) judges the finished diff;
`discovery.py`, `schemas.py` and `env.py` are stateless parsing, checking and
dictionary building.  `src/cases` and `src/fixtures` are data.

### How the parts interact

    operator --> command --lock--> campaign directory (cells, report.md)
                    |                    ^
                    |prepare             | artifacts
                    v                    |
               .runs-cache  --clone--> run_cell --supervises--> adapter
               (layers, setup sentinels)  run_pipeline --supervises--> tests

Everything goes through files.  The lock decides which commands overlap, so
`CellLifecycle` takes from `CampaignLock` that commands under the lock run one at a
time, and section 5 says where that is not so; `CaseCache` has both, commands that
share the lock and one that does not take it.  `Campaigns` is where the lookup of the
campaign and the lock meet; what happens under the lock is one step there and all of
`CellLifecycle` in itself.  A run of a cell (`Collect` in `CellLifecycle`) is a whole
behaviour of `ProcessSupervisor`: its verdict and whether `response.json` is written
are what the former chooses freely and the latter derives.  `AdapterRun` is one of the
children `ProcessSupervisor` has in mind, seen from inside.

## 2. The plan

Done, in this order (most important behaviour first):

1. `CampaignLock`, `CampaignLockProofs`: mutual exclusion, the root of everything.
2. `CellResults` (abstract) and `CellLifecycle` (implements it): crash and resume.
3. `CaseCache`: the layers under edits, deaths and commands without the lock.
4. `ProcessSupervisor`: child processes, deadlines, verdicts.
5. `SetupSentinels`: `.ok` and `.fail`.
6. `CampaignPointer` (abstract) and `Campaigns` (implements it): `eval-new`, `CURRENT`,
   `eval-clean-runs`, the lookup before the lock.
7. `CellBystanders` over `CellLifecycle`: `eval-status`, `eval-clean-runs`, and processes
   that runs leave behind.
8. `AdapterDeadline` and `EditTools`, composed in `AdapterRun`.
9. Proofs for each of them: `CellLifecycleProofs`, `CaseCacheProofs`, `AdapterRunProofs`,
   `ProcessSupervisorProofs`, `SetupSentinelsProofs`, `CampaignsProofs`,
   `CellBystandersProofs`.

Next:

10. Numbers of descriptors and process groups in `ProcessSupervisor`, so that the reuse
    of a number that `close_popen_pipes` or a reap set free can be seen, and the second
    parse of `stdout.log` by `run_pipeline` beside a late pump thread.

Every invariant, every action property and both refinements that a passing run checks
are stated by a theorem (section 7).  What remains for TLC alone is liveness.

## 3. The modules

| module | models | kind |
|---|---|---|
| `CampaignLock` | `acquire_lock`, `_take_over_lock`, `release_lock`, `lock` | one action per system call on `.lock` |
| `CampaignLockProofs` | | proofs about `CampaignLock` |
| `CellResults` | what a campaign directory promises | abstract specification |
| `CellLifecycle` | `eval-all`, `eval`, `eval-report`, `run_cell`, `run_pipeline` | one action per artifact written or removed; implements `CellResults` |
| `CaseCache` | `_prepare_needed` (cases), `ensure_case_bare_repo`, `ensure_case_venv`, `eval-prepare`, `eval-clean-cache` | one layer of one case, several commands |
| `ProcessSupervisor` | the wait, the signals, the pump threads and the joins of `run_cell`, `run_test_command`, `run_framework_setup` | harness thread, pipe threads, child and descendants |
| `SetupSentinels` | `run_framework_setup`, `_setup_fail_is_fresh`, `_prepare_needed` (frameworks) | one framework, several commands |
| `CampaignPointer` | what `runs/CURRENT` promises | abstract specification |
| `Campaigns` | `eval_new`, `current_campaign`, `eval-clean-runs`, and how the other commands look up and lock | one action per system call on `runs/`; implements `CampaignPointer` |
| `CellBystanders` | `eval-status`; `eval-clean-runs` beside a cell; what interrupted commands and ended process groups leave running | extends `CellLifecycle` with readers and writers that hold no lock |
| `AdapterDeadline` | `main` of both adapters, their timers, the harness's deadline | main thread, timer, signal, clock |
| `EditTools` | `_check_edit_constraints`, `write_file`, `edit_file` of pydantic-ai | one action per step of a tool call, several threads |
| `AdapterRun` | one adapter process | composes `AdapterDeadline` and `EditTools` |
| `CellLifecycleProofs`, `CaseCacheProofs`, `ProcessSupervisorProofs`, `SetupSentinelsProofs`, `CampaignsProofs` | | proofs about the module of that name |
| `CellBystandersProofs` | | proofs about `CellBystanders`, on top of `CellLifecycleProofs` |
| `AdapterRunProofs` | | proofs about `AdapterRun` and the two modules it composes |
| `MC...` | | values for the constants |

Operators named in a comment "Mutant" are wrong variants of the definition after
them.  No specification uses them.  Each is a way the code could plausibly have
been written, and putting it in place of its original makes the property listed
with it in `PROJECT.json` fail: this is how we know that the property speaks about
that piece of code.

**CampaignLock.** A member of `Proc` is a process id on a host.  `pc` is the next
system call of the command that runs under it, `lock` the record in the file,
`seen` the record the command read, `token` its entry in `_OWNED_LOCK_TOKENS`.
Ids become free again when a command ends, so a second start under the same id
is pid reuse, and `Alive` is what `os.kill(pid, 0)` answers.  `created` numbers the
lock files, which stands for their uuid tokens.  `lost` is history: the tokens of
commands that were still at work when somebody else unlinked their file.

**CellLifecycle.** `disk[c][a]` is the number of the run that wrote artifact `a` of
cell `c`; `verdict` is the `error_reason` inside `meta.json`.  `step` walks through
`_run_one_cell`.  `RemoveEntry` is one step of `shutil.rmtree`, in any order.
`PipelineFails` is the handler in `run_pipeline`; `Interrupt` is everything that
leaves the command without a handler.  `Results` maps the directory to
`CellResults`: a cell shows run `r` when `meta.json` is there and everything its
verdict calls for was written by `r`.

**CaseCache.** `fixture` numbers the contents the fixture has had.  `layer` and
`hashFile` are on disk; `key` and `built` are the versions a command hashed and
built from, which differ if the fixture was edited in between.  `kind` chooses
between the two layers, which differ only in `Build` and the publishing step.
`LockUsers` gives the sets of commands that share the lock, and `locked` is the one
that holds in this behaviour: with all commands in it nothing overlaps, with
`eval-all` alone the other command is `eval-prepare`.  A layer is `torn` while somebody
removes or builds it, or has failed to, and `debris` when an `eval-clean-cache` was
killed over it; it is `nested` when a second repository was moved inside it.  `crossed`
are the commands in the middle of removing or syncing the directory at a moment when
another one changed it: their `rmtree` may raise (`RemoveFails`), which `failed` records,
and their sync may come out incomplete.

**ProcessSupervisor.** `life` follows the leader, one process `kin` for its
descendants in the group, and one `detached` for descendants with a session of
their own.  `holders` says who has the child's end of each pipe open: a pump thread
meets the end of the file when nobody has.  `step` is the harness thread; its names
follow the code (`term`, `grace`, `kill`, `reap`, `settle` are
`terminate_process_tree`).  Output comes in four sizes: nothing, part of an
envelope, one envelope, more.

**SetupSentinels.** `inputs` numbers the contents of the framework's directory.  A
fingerprint is a pair, because the setup command comes from discovery, before the
lock, and the files are hashed later.  `installed` is what the directory was really
set up from.  `orphans` are setups whose command was killed: they lead their own
process group, so nothing ends them.  `dir` is `.runs-cache/setup` itself, without which
no sentinel can be written (`WriteRaises`).  `seen` and `restored` remember whether an
edit was ever undone, `edited` and `mixed` whether there was one between a setup's
fingerprint and its end: together they are the one exception in `FreshOkIsInstalled`.

**Campaigns.** Campaigns are numbered in the order in which their directories are made.
`current` and `tmp` are the two links, `files[c]` what is in campaign `c` (`results`
stands for the cells and the report), `lock[c]` the command whose lock file is there;
the file of a dead command counts for nothing, as `acquire_lock` treats it.  `looked`
is what a command's last lookup found and `camp` where it makes or works in.  `Scan`,
`RemoveLink`, `OpenCampaign`, `RemoveFile`, `RemoveCampaign` and `RemoveRuns` are
`shutil.rmtree` of `runs/`: `left` and `inside` are its two directory listings.  `past`,
`wiped` and `witness` are history.  `Pointer` maps `current` and `past` to
`CampaignPointer`.

**CellBystanders.** `orphans` are runs of which a process lives on: an adapter or a test
whose command was interrupted, or a descendant in a session of its own, which
`terminate_process_tree` does not reach (`LeftBehind`; it is `detached` in
`ProcessSupervisor`).  `strayed` says that the run that made the worktree left one,
`intruders` are those that lived when it was made.  `worktree` holds the runs whose edits
are in the worktree, and `basis` the edits that were there when the diff was taken
and when each test ran.  `cleaning` is an `eval-clean-runs` that has the lock; it removes
the campaign entry by entry and may be killed.  `reader` is the next system call of
`eval-status`; `since` collects everything the cell has been while it looked, which is
what its answer is compared with, and `removerSince` whether an `eval` or an
`eval-clean-runs` was at work.  `HarnessStep` is a step of `CellLifecycle`.

**AdapterDeadline.** `step` follows `main`, which is the same in both adapters up to
names; `framework` chooses the formula of the soft deadline, what a due timer does, and
what the agent's library may do with the exception (deepagents' is an `Exception`, which
a library that retries may catch; `KeyboardInterrupt` is not).  `clock` counts seconds
since the adapter was spawned, which is where the harness counts from.  `late` and `held`
are history: the two ways in which the code loses its grip on the timer.  So is `mute`: the
handler's own envelope failed (`HandleFails`), which both adapters swallow.

**EditTools.** `changed` is `_CHANGED_FILES`, `touched` what the tools really changed,
`spoiled` what a failed write truncated.  `Past` are the calls between their check and
their count; `width` remembers the most there were at one time.

## 4. The runs

All runs take less than three minutes with two workers.  "States" are distinct ones.

| run | module | states | shows |
|---|---|---|---|
| `lock_takeover` | `MCCampaignLock` | 23,610 | safety and liveness of the lock, with force, kills, pid reuse |
| `lock_one_winner` | `MCCampaignLock` | violation | section 5 |
| `lock_release_race` | `MCCampaignLock` | violation | section 5 |
| `cells` | `CellLifecycle` | 1,051,151 | two cells, interrupted at any two steps; refinement; liveness |
| `cells_torn` | `CellLifecycle` | violation | section 5 |
| `cache` | `MCCaseCache` | 768,365 | commands under one lock or beside `eval-prepare`; edits, kills, a clean |
| `cache_outdated` | `MCCaseCache` | violation | section 5 |
| `supervise` | `ProcessSupervisor` | 104,888 | one supervised child |
| `setup_overlap` | `MCSetupSentinels` | 1,120,046 | a command under the lock beside `eval-prepare`; an edit and its undoing |
| `campaigns` | `MCCampaigns` | 2,110,563 | three commands of any kind around `CURRENT`; refinement |
| `bystanders` | `CellBystanders` | 3,553,022 | one cell, `eval-status`, `eval-clean-runs`, processes left behind |
| `adapter` | `MCAdapterRun` | 5,056,436 | one run of either adapter with two tool threads |

**`lock_takeover`.** Three ids on two hosts, four starts: an owner, a claimant that is
slow between two of its steps, and a third command that changes the file under it;
the fourth start is the reuse of a dead owner's id.  `p1` and `p3` may be killed and
`p2` uses `--force-unlock`, so forced takeovers happen across hosts and plain ones
on one host.  `ExclusionUnlessLost`: creation, retries and deaths never make a
second owner, only an unlink under a live owner does.
`OwnerLosesOnlyByForceOrStaleRead`: such an unlink is a forced one or one decided on
an earlier read.  `JudgedStaleIsStale`: the record such a decision was made on was
that of a dead owner, even if its pid was reused.  `AcquireEnds`,
`StaleLockReclaimed`: nobody waits for ever, and a dead owner's file goes with the
next attempt on its host.

**`cells`.** Two cells, one with a hidden test: every path through the pipeline, and a
cell that is done beside one that is not.  `MaxDisturbances` bounds interrupts and uses
of `eval` together: two let the second one hit the removal of what the first one left,
and let an interrupt hit the replacement of a done cell.  `runs` is bounded by these.
`DoneIsIntact` and `DoneIsUnmixed`: `meta.json` is the commit point, for all verdicts
including `pipeline_failure`.  `ImplementsCellResults`: results appear in one step and in
order.  `DoneUntouchedByEvalAll`, `EveryCellGetsItsResult`, `ReportCatchesUp`: resuming
neither harms results nor stops short of them.

**`cache`.** Two edits (the fixture changes once while a command hashes or builds and
once later), two kills, one clean; the lock is either everybody's or `eval-all`'s alone.
With the lock held by all, `TrustedIsCurrent` compares what is accepted with what it was
built from, `UsedIsWhole` what a cell gets, `CacheSettles` that preparing comes to an end;
all three except what a killed `eval-clean-cache` left.  Without it
`UnlockedRepoIsCurrent` keeps what is left when `eval-prepare` overlaps: between the two,
an accepted repository is whole and current, as long as no `rmtree` or move failed over
the other command and nothing was moved inside it.  Two commands are enough for one to
remove while the other moves into place.

**`supervise`.** One child and up to two descendants; `Cap` is one envelope, so that
output of every size on either side of the cap occurs.  With and without stdin
(adapter, test command).  More descendants behave like one of the two.

**`setup_overlap`.** Two edits among two versions, so that the second may undo the first,
and one kill or one clean: two versions are enough to tell stale from fresh.  `MaxUpsets`
bounds kills and cleans together; an `eval-clean-cache` that is killed is therefore not in
the run, but it is in the theorems, whose bounds are arbitrary.  The command under the lock is `eval` or `eval-all` at each start;
commands under the lock exclude each other, so one stands for all of them.

**`campaigns`.** Three situations: three commands that may all create the first campaign,
three around an existing one of which one may be `eval-clean-runs`, and `eval-clean-runs`
beside one that creates the first campaign.  One kill.  Three commands are enough for a
creator, one that gets in its way and one that holds on to an old lookup.
`CurrentIsWhole`: the link is swung last.  `ImplementsCampaignPointer`: no interleaving of
unlink, symlink and rename, with a leftover `CURRENT.tmp` or without, takes `CURRENT` back.
`LockedCampaignLeftAlone`: whoever disturbs a campaign in work had looked up another state
of `CURRENT` and so never asked for that campaign's lock.  `CreatorGivesWayToAnother`: a
creator fails only if `CURRENT` is there or somebody else is on the way to it; a
`CURRENT.tmp` that a killed command left stops nobody.

**`bystanders`.** One cell, one interrupt or one `eval` (`MaxDisturbances` is 1), so that
two adapters can meet in one worktree and a done cell can vanish under the reader's eyes;
`eval-clean-runs` comes as often as it likes, and the interrupt may be its own.  More of
them is left to the theorems.  Cells are independent for both questions.
`StatusTellsTruth` compares the answer of `eval-status` with the moments it lived through,
and asks for a remover when it fails; `OwnWorkIsScored` compares the edits that went into
the diff and the tests with the run they are said to be of.

**`adapter`.** For pydantic-ai a `timeout_s` of 1 (below every margin) and 7 (the full
margin of five seconds), for deepagents 3 (below its floor of five) and 12; one second for
winding up; two threads, three calls and three files, one of them disallowed, with
`max_changed_files` one: two calls that overlap at the cap and one that comes after them.
`SilenceHasCause` says when the promise of an answer before the harness's deadline holds:
whenever the agent was started and was given `Headroom`, the distance of the two
deadlines, of more than start-up and winding up take, its library lets the exception
through, and its error can be written.  `OneEnvelope` says of stdout that an adapter which
ends by itself has printed one envelope, but for `late` and `mute`.  `ToolsKeepConstraints` bounds by how much
overlapping and failing calls can overrun the cap.

## 5. What does not hold

Four runs are there because the code does something other than it, its tests or its
documentation say.

* **`lock_one_winner`** (`MutualExclusion`).  `A` owns the lock.  `B` reads the file and
  stops.  `A` releases and exits.  `C` creates a new file and works.  `B` asks for `A`'s
  pid, finds nobody, unlinks *the path*, which now is `C`'s file, and creates its own:
  `B` and `C` both work, on one host, nobody killed, no `--force-unlock`.  The
  docstring of `_take_over_lock` says that a lost race raises `LockBusyError` "rather
  than silently clobber a fresh, valid lock"; the code at `campaign.py:191-195`
  does clobber it.  `OwnerLosesOnlyByForceOrStaleRead` says that this, its forced
  variant and the next item are all there is.
* **`lock_release_race`** (`ReleaseKeepsNewOwner`).  `release_lock` reads its own token;
  before it unlinks, another host takes the lock over by force; the unlink removes
  the new owner's file.  The test
  `test_release_lock_does_not_remove_new_owner_after_takeover` covers a takeover that
  comes before the read.
* **`cells_torn`** (`SentinelMeansIntact`).  `eval` removes a done cell with `rmtree`.
  If it dies after some entry and before `meta.json`, the cell keeps its sentinel
  without its artifacts, and `eval-all` passes it over from then on.  `DoneIsIntact`
  is the same statement for the cells that `eval` was never used on, where it holds.
* **`cache_outdated`** (`TrustedIsCurrent`).  The fixture is edited after it was hashed
  and before it was copied, and restored later: a layer of the edited contents is
  accepted for the restored ones.  Without the restoration the next hash differs and
  the layer is rebuilt, which is what `cache` shows.

More facts came out of looking for what does hold.  They have no run of their own: but for
the last two no text of the repository clearly promises the opposite, and each is an
exception that a property of a passing run names, so that the property says how far it goes.

* With `eval-prepare` beside `eval-all`, `UsedIsWhole` fails for both layers: the cells
  of a running `eval-all` can find their layer removed.  Hence only
  `UnlockedRepoIsCurrent` is asked for without the common lock, and it has two exceptions:
  * *Nested.*  Both commands find no repository, one finishes an older build first, and the
    `shutil.move` of the other (`workspace.py:169`) puts its newer repository *inside* the
    older one and raises nothing.  The hash file it writes next vouches for the older one.
  * *Failed.*  A move into a repository that is being removed makes the `rmtree` of line 107
    raise `ENOTEMPTY`.  That command gives the case up, the torn repository stays with
    nobody removing it, and the command that moved into it writes the hash that vouches
    for it.
* `eval-clean-cache`, killed half way, can leave a partly removed layer beside a hash
  file that still matches, and the next `eval-all` uses it.  `Debris` is this exception in
  `TrustedIsCurrent`, `UsedIsWhole` and `CacheSettles`; without it TLC finds each violated.
* `eval-prepare` removes a framework's `.fail` before it retries the setup.  An
  `eval-all` that is giving up that framework's cells one by one then runs the later
  ones.  `UsedIsInstalled` leaves out moments at which a setup is under way, and
  `disturbed` remembers setups that overlapped or were broken off: without either
  exception TLC finds it violated.
* `run_framework_setup` keeps the fingerprint it took at `setup.py:270` for the `.ok` it
  writes at the end.  If a file is edited after the fingerprint, read by `uv sync`, and the
  edit is undone later, the `.ok` is fresh over an installation from other files, with
  one command and nobody killed.  `mixed /\ restored` is this exception in
  `FreshOkIsInstalled`; it is the same defect as that of `cache_outdated`.
* An `eval-clean-cache` beside a setup of `eval-prepare` removes the directory of the
  sentinels: the command then ends with an exception and leaves neither of them
  (`WriteRaises`).
* Two first `eval-new` commands: the rename of one may install the campaign of the other,
  whose own rename then fails.  The first reports a campaign that is not current
  (`ImplementsCampaignPointer` and `CreatorGivesWayToAnother` are what remains).
* An `eval-all` that looked `CURRENT` up before an `eval-new` finished fills the *old*
  campaign, under the old campaign's lock.  `LockedCampaignLeftAlone` therefore speaks
  of commands that looked up the campaign they disturb.
* `eval-clean-runs` removes its own lock file with the rest, so another command may begin
  to work in what is being removed; and if it is killed or fails, `CURRENT` may be left
  pointing to a campaign without a manifest, on which every later command fails until
  somebody removes the link.  This is `wiped`, the exception in `CurrentIsWhole`.
* An adapter whose command was interrupted can change what the next attempt of the cell
  is scored for (`intruders` in `OwnWorkIsScored`).  So can a descendant of an adapter or
  of a test that has a session of its own, without any interrupt: only the process group
  is ended.  It also edits on while its own run's diff and tests are taken, so that these
  need not be of one state of the worktree (`strayed`).
* `eval-status` ends with a traceback when `eval` removes the cell or `eval-clean-runs` the
  campaign between its `exists` and its `read_text`, and may show an error without its
  reason (`StatusTellsTruth` allows both beside these two commands only).
* An `eval-clean-runs` that is killed half way leaves done cells torn, as `eval` does in
  `cells_torn`.  `DoneIsIntact` is a statement about `eval-all`, `eval` and `eval-report`,
  and `CellLifecycle` has no other command.
* An adapter whose error message cannot be written (a character that UTF-8 cannot encode)
  exits with 1 and an empty stdout: `_emit_envelope` raises in the handler and the exception
  is swallowed (`deepagents/adapter.py:423-427`, `pydantic-ai/adapter.py:671-675`).  `mute`
  is this exception in `OneEnvelope` and `SilenceHasCause`.
* pydantic-ai's `Timer.cancel()` does not stop a timer thread that has passed its last
  check.  Its SIGINT then comes after the agent returned: a finished answer is replaced by
  an error envelope, or followed by a second one, or the error envelope is lost (`late`).
* deepagents with a `timeout_s` below five seconds is always ended by the harness before
  its soft deadline, although its README says that the envelope comes before the hard
  kill; so is one whose start-up took the five seconds' margin (`Headroom`).
* `src/frameworks/pydantic-ai/README.md:64` says that a call which violates
  `max_changed_files` returns an error "rather than mutating the worktree".  The cap is
  overrun by tool calls that overlap (each is checked before the others have counted) and by
  writes that fail after they truncated the file; `ToolsKeepConstraints` says by how much.

## 6. Fairness

Liveness is checked under the weakest fairness we could justify.

* `CampaignLock`: the scheduler runs commands that are in `acquire_lock`, in
  `release_lock` or exiting.  Nothing is assumed about how long the work takes, about
  new commands or about kills.
* `CellLifecycle`: a running command runs on (every step of it is bounded: children have
  timeouts, which `RunEnds` of `ProcessSupervisor` shows to be kept), and the operator
  repeats `eval-all`.  The latter is strong fairness since other commands hold the lock
  now and then.
* `CaseCache`: commands run on, somebody prepares again and again, and a build that is
  repeated for ever succeeds infinitely often (strong fairness of publishing; git and
  uv are external).
* `ProcessSupervisor`: the harness thread and those pipe threads that are not blocked
  run, the clock passes the deadline, the kernel ends what was sent SIGKILL.  The child
  is assumed to do nothing at all.
* `Campaigns`, `CellBystanders` and `AdapterRun` state no liveness and need no fairness.
  That a timer fires and a signal is delivered is urgency of the clock in
  `AdapterDeadline`: `Tick` waits for them.
* `SetupSentinels`: commands run on, setups end (they have a timeout), the cause of
  failures is removed some day, `eval-prepare` is repeated.  `eval-all` alone would not
  do: it passes a fresh failure over, as
  `test_eval_all_skips_fresh_framework_setup_fail_when_case_prepare_needed` wants.

## 7. Proofs

Eight modules hold theorems, 33 in all.  Each proof follows one pattern: an inductive
invariant that is stronger than what the runs check, written as named parts; a lemma
that the initial states satisfy it; one lemma or step per action that it is kept; and
theorems that draw the properties from it.  Every invariant here was checked by TLC
on the instance of its run before it was proved.

| module | theorems (property) | inductive invariant |
|---|---|---|
| `CampaignLockProofs` | `TypeCorrect`, `Exclusion` (`ExclusionUnlessLost`), `JudgedStale` (`JudgedStaleIsStale`), `OwnerLoses` (`OwnerLosesOnlyByForceOrStaleRead`) | `LockInv` |
| `CellLifecycleProofs` | `TypeCorrect`, `DoneMeansIntact` (`DoneIsIntact`), `DoneMeansUnmixed` (`DoneIsUnmixed`), `ResumeKeepsResults` (`DoneUntouchedByEvalAll`), `Refinement` (`ImplementsCellResults`) | `CellInv` |
| `CaseCacheProofs` | `TypeCorrect`, `AcceptedRepoIsCurrent` (`UnlockedRepoIsCurrent`), `AcceptedIsCurrent` (`TrustedIsCurrent`), `CellsGetWholeLayers` (`UsedIsWhole`) | `AnyInv`, `UnlockedInv`, `OneLockInv` |
| `ProcessSupervisorProofs` | `TypeCorrect`, `GroupIsEnded` (`NoMemberLeftRunning`), `TimeoutsAreExplained` (`TimeoutHasCause`), `VerdictsRestOnOutput` (`VerdictOnWholeOutput`), `HonestRunsSucceed` (`HonestRunSucceeds`) | `SupInv` |
| `SetupSentinelsProofs` | `TypeCorrect`, `FreshMeansInstalled` (`FreshOkIsInstalled`), `UsedMeansInstalled` (`UsedIsInstalled`) | `SetupInv` |
| `CampaignsProofs` | `TypeCorrect`, `CurrentCampaignIsWhole` (`CurrentIsWhole`), `PointerRefinement` (`ImplementsCampaignPointer`), `LockProtectsCampaign` (`LockedCampaignLeftAlone`), `SomeCreatorGetsThrough` (`CreatorGivesWayToAnother`) | `CampInv` |
| `CellBystandersProofs` | `BystandersTypeCorrect` (`BystandersTypeOK`), `StatusIsTrue` (`StatusTellsTruth`), `WorkIsScored` (`OwnWorkIsScored`) | `BystInv` |
| `AdapterRunProofs` | `TypeCorrect`, `ConstraintsAreKept` (`ToolsKeepConstraints`), `AnswersOnce` (`OneEnvelope`), `SilenceIsExplained` (`SilenceHasCause`) | `ToolsInv`, `DeadlineInv` |

**What is assumed.**  Only the `ASSUME` that each module makes about its own constants:
bounds are natural numbers, sets of special commands or cells are subsets of all of
them, cells are positive numbers (0 stands for "no run"), a cap is one of the sizes and not
zero, threads and files are finite sets, a scenario begins with one campaign at most.
The bounds on edits, kills, interrupts, cleanings and starts are arbitrary in the
theorems, so nothing rests on the small values of the runs.  The one hypothesis beside
them is `MayRevert = FALSE` in `AcceptedIsCurrent` and `CellsGetWholeLayers`: that a
fixture is not edited and then restored.  It is needed, as `cache_outdated` shows.

### The lock

None of the properties is inductive alone.  Exclusion needs that an owner's token is in
the file unless the file was lost (`OwnerOnFileOrLost`) and that no two owners share a
token (`OwnersHaveTheirTokens`); both need that a new token was never drawn before
(`TokensDrawn`), in particular that it is in no record some command still remembers.
That a judged record is stale needs that a record with a live owner's token names that
owner's pid, also when it is an old one (`RecordsNameTheirOwner`): then "the pid is not
alive" excludes every owner, and pid reuse cannot bring one back because a new command
draws a new token.  The proof goes over the actions one by one (`NextTypeOK`,
`NextInv`), with creation in a lemma of its own (`CreateInv`) because three actions
share it.  `OwnerLosesStep` then shows for one step that only two actions remove a file.

### The cell life cycle

That a done cell is intact is a statement about the moment of the commit, and what makes
it true was done many steps earlier.  `RunHasWritten` therefore says at each step of a
run what the run has written by then, including the way through `PipelineFails`, and
`RunIsNewest` that nothing else is in the cell and that every other cell holds older
runs.  The latter rests on `NothingOutside`: a run starts in an empty directory, because
a removal goes on until nothing is left.  `Control` contributes that `eval-all` never gets
to the removal of a done cell, from which `ResumeKeepsResults` follows step by step.
`DoneIsIntact` is not a part of `CellInv` but kept beside it (`IntactInv`), because
`CellBystanders` builds on `CellInv` and its `eval-clean-runs` keeps the one and not the
other.

For the refinement a cell *shows* a run when it is intact.  A commit is the step
`Commit` of `CellResults`, in order since the run is newer than anything shown; the
removal by `eval` is a `Withdraw` at its first entry that matters; everything else
leaves what is shown alone, which is where intactness of the other cells and the empty
directory are used.  `eval-all` takes the least cell of what is left: `LeastExists` gives
it from well-foundedness of the natural numbers, by the library's theorem that every
non-empty set has a minimal element.

### The case cache

`AnyInv` holds with any lock or none.  `UnlockedInv` is about the repository whoever takes
the lock, as long as nothing failed, was killed or cleaned: if a hash vouches for the
present fixture, or some command is about to write one (`Published`), then the repository
is whole and current, or has one nested inside, or somebody is still in the middle of
replacing it (`Replacing`).  The last is an existential over all commands, and each of
their steps either keeps it or hands it on.  `OneLockInv` begins with
`locked = Commands`: it is about behaviours in which all commands share the lock, as are
the two properties drawn from it, and the rest of the cases is not excluded but promised
less.  Its heart is an order of versions: what is vouched for is no newer than the
layer that is there, and the layer no newer than the fixture (`NothingIsNewer`), since
each command hashes before it builds.  So a layer whose hash equals the present
fixture's is of the present fixture.  `TornIsStale` covers commands killed over a layer, and
`Knows` what the command under the lock has established at each of its steps.

### Supervision

The parts of `SupInv` follow the harness thread.  `MembersEnd`: from the reap on, leader
and group are over or have been sent SIGKILL.  `OutputIsWhole`: as long as no join gave up,
a pump that has ended saw the end of the file, and then nobody holds the pipe and the log
is what was sent, up to the cap.  `KillsHaveCause` and `TimeoutsHaveCause` follow each
signal and each give-up back to the deadline, a kill or a descendant with its own
session.  `VerdictFits` ties the verdict to what it was computed from, so that
`HonestRunsSucceed` is a matter of `_classify_error`.

### Setup sentinels

`Knows` says, per command, that its fingerprint is of the setup it discovered and of
files that were there some time (`seen`), and that its setup runs on the same files if
there was no edit since, or if the fingerprint is not out of date and no edit was ever
undone.  With one setup at a time, unbroken (`~ disturbed => Undisturbed`), what is
installed `Matches` the setup whose success is about to be written (`SuccessIsInstalled`)
and the `.ok` without `.fail` unless somebody is between two of his steps
(`OkTellsTruth`): its setup command always, its files if nothing was `mixed`, or if they
are those of now and nothing was `restored`.  The first of the two is what an undone edit
leaves, the second what an edit after the setup leaves.  `DirIsThere` says that who uses
the framework's sentinels under the lock has their directory.

### Campaigns

*Numbers.*  A command makes one campaign at most.  `NumbersSuffice` counts: campaigns made
plus commands that may still make one never exceed the numbers there are.  The type
invariant needs this: the next number is one of them.
*Whole.*  `LinksAreWhole` is about both links and about those on their way to becoming
one: a campaign is named in a link only after its manifest was written, and what is taken
from it later was taken by `eval-clean-runs`.
*Never back.*  `LinkedOnce` makes the refinement: a campaign that is in `CURRENT.tmp`, or
whose maker has not linked it yet, was never in `CURRENT`, and no two makers have the same
one.  A rename is then the step `Swing` of `CampaignPointer` however the unlinks, symlinks
and renames of several makers are mixed.
*Locks.*  `HasLock`: who replaces or removes the campaign it looked up holds that
campaign's lock, until `eval-clean-runs` takes the file itself; two who looked up the
same campaign therefore do not meet.
*Creators.*  `Undisturbed`: while there is no `CURRENT`, one who finds `CURRENT.tmp` gone owes
that to another who is about to make it, and one who finds it there to another who is
about to rename it.  So somebody is always on the way, which is
`CreatorGivesWayToAnother`.

### Bystanders

`BystInv` adds to `CellInv`, which `eval-clean-runs` keeps because it works alone under the
lock (`CleaningIsAlone`) and only takes away.  `OrphansAreOver`: what was left behind is of
the run that made the present worktree, and then that run has `strayed`, or an intruder.
`EditsAreKnown` and `ResultsAgree` carry this to the diff and the tests: no other edits,
and the same ones for all as long as there is neither, because then the worktree rests
from the first derived result on.  `ReaderKnows` keeps what `eval-status` has seen and what
can have happened since: between two of its reads a done cell stays done, or a command
that removes has been at work.

### Adapters

`ToolsInv` is the counting argument that TLC can make for two threads only.  The files
counted and those that may yet be counted stay within the cap plus the largest number of
calls that were ever past the check at once, less one (`CommittedIsBounded`): the last
of them to be checked saw at most the cap.  `TouchedIsKnown` says that every file changed
is counted, spoiled or still being written.  `DeadlineInv` has `InTime`, a relation between
the clock and the timer that says that the adapter is never further than its soft deadline and the
winding up account for; and `Written` and `TimerIsOff`, which say what is on stdout at each
step as long as the timer was not cancelled too late: from `giveUp` on an error envelope, or
nothing, status 1 and `mute` (`GaveUp`).

### What stays with TLC

Liveness under fairness and `ENABLED` are beyond the prover: `AcquireEnds`,
`StaleLockReclaimed`, `EveryCellGetsItsResult`, `ReportCatchesUp`, `CacheSettles`,
`RunEnds` and `FailureIsRetried` are model-checked only.  So would be facts about
recursive definitions for all inputs, which need induction with an operator as a
parameter; no module here declares a recursive operator.  The four violations of section 5
are counterexamples, and need no proof.

## 8. Abstractions and assumptions

* *System calls are atomic, and their effects survive a kill.*  Power loss with
  unwritten buffers is not considered.  `os.link`, `rename` and `unlink` are atomic as
  POSIX says.
* *`CampaignLock`*: a lock file that is no JSON object, and one without pid or host, do
  not occur: the file is written in full before it is linked.
* *`CellLifecycle`* takes commands one at a time (section 5 says when the lock does not
  give that).  `clone`, `mkdir` and the writes of several small files that always go
  together are one artifact each (`logs` is stdout.log and stderr.log).  The matrix is
  walked in one order, as discovery sorts it.  Adapters that survive the interruption of
  their command are in `CellBystanders`.
* *`CaseCache`*: git and uv die with the command that runs them (they share its process
  group, so a Ctrl-C reaches them).  A build fails or succeeds as a whole, but for a `uv
  sync` under which others removed files.  What two commands amid one directory do to each
  other is any subset of them raising; whether `rmtree` passes over an entry that is gone
  differs with the version of Python, and both are in the model.
* *`ProcessSupervisor`*: stderr is left out, it is pumped like stdout and never read.
  Malformed JSON and a violated schema are one verdict.  A thread that can finish does so
  within every grace period, which makes `TimeoutHasCause` a statement about causes and
  not about machine speed.  `PumpLate` allows every amount that a blocked read may still
  return after the descriptor was closed, which is more than some kernels do.  `kin`
  being gone means that the whole group is gone.  Numbers of descriptors and groups are
  not reused.
* *`SetupSentinels`*: two setups that were left behind and use the same inputs count as
  one.  After the cause of failures is removed, setups succeed.  A setup that is cut off
  by its timeout is ended by its group; descendants outside it are
  `ProcessSupervisor`'s subject.  A setup reads the files as they were when it started or
  when it ended, not half of each.
* *`Campaigns`*: a lookup is one step, though it is an `exists` and a `readlink`; the lock
  is taken in one step, without `--force-unlock`; names are not reused after a removal;
  `rmtree` passes an entry that is gone over or raises, as the versions of Python differ;
  `eval-clean-cache` does not touch `runs/` and is left out.
* *`CellBystanders`*: a process left behind does not end and come back, and edits only
  files below the worktree's path; edits are told apart by whose they are.  What a test
  command does to the worktree while it runs (its caches) is not counted as an edit.  After
  `eval-clean-runs` has removed the lock with the rest other commands may run beside it:
  that is `Campaigns`' subject, and here it stays alone.  `eval-status` is followed from
  where it has read the manifest; without `CURRENT` or a manifest it ends before any cell.
* *`AdapterDeadline`*: from the end of the agent to the envelope it takes at most `Windup`
  seconds; a due timer fires, and a signal is delivered, within the second.  A
  signal that comes while the envelope is being written comes before or after it: either
  way the buffered text is printed.  An envelope that cannot be encoded fails before its
  first byte.  The trace is not modelled.
* *`EditTools`*: the file system does what it is told, or fails; a path is resolved once.
  `run_shell` changes what it likes and is outside the promise.
* *Bounds*: `MaxStarts`, `MaxInterrupts`, `MaxEvals`, `MaxDisturbances`,
  `MaxEdits`, `MaxCrashes`, `MaxCleans`, `MaxUpsets`, `MaxCommands` and `MaxCalls` appear
  as guards of the actions they bound, and nowhere else.  `Scenarios` (what there is at
  first and which commands may start) and `LockUsers` are chosen from in `Init`;
  `MaxVersions` is the number of different contents; `Windup` is an assumption about time.

## 9. What is not modelled

* The reuse of descriptor and process group numbers: planned, section 2.
* The merging of settings (`resolve_effective_config`) and the harness's
  `check_edit_constraints`: sequential functions without state, covered by unit tests.
* The stub frameworks print a message and exit with 2: there is nothing to check.
* Discovery, schemas and environments: stateless, without ordering, and covered by unit
  tests.  Their one effect here is that a cell may be misconfigured.
* What reports and scores say: formatting and counting.
* Prompts and model calls: external.  The adapters' reading tools, shells and traces: no
  state that anything depends on.
* `src/cases` and `src/fixtures`: data and other people's code.
