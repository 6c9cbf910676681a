---------------------------- MODULE CampaignLock ----------------------------
(***************************************************************************)
(* The per-campaign lock file of the eval harness (campaign.py).           *)
(*                                                                         *)
(* Every state-changing command brackets its work with acquire_lock and    *)
(* release_lock on <campaign>/.lock.  The file is created by linking a     *)
(* private, fully written temporary file, so creation is atomic.  Nothing  *)
(* else is: a claimant reads the file, asks the kernel whether the pid in  *)
(* it is alive, and unlinks the path, in three separate system calls; the  *)
(* releasing owner reads the file and unlinks the path in two.  Each step  *)
(* below is one such system call.                                          *)
(*                                                                         *)
(* A member of Proc is a process id on a host.  The id is free until a     *)
(* command starts under it and becomes free again when the command exits   *)
(* or dies, so starting a command twice under one id is pid reuse.         *)
(***************************************************************************)
EXTENDS Naturals, FiniteSets

CONSTANTS Proc,        \* process ids, each on one host
          Host,        \* the host of each process id
          ForceUsers,  \* ids whose command is given --force-unlock
          CrashProne,  \* ids whose command may die without running finally
          MaxStarts    \* bound: commands started in a behaviour

ASSUME ConstantsAssumption == /\ MaxStarts \in Nat
                              /\ ForceUsers \subseteq Proc
                              /\ CrashProne \subseteq Proc

VARIABLES pc,      \* the next system call of the command running under an id
          lock,    \* the lock file: NoLock or the record in it
          seen,    \* lock_data: the record a command has read
          token,   \* _OWNED_LOCK_TOKENS of the process, 0 when it has no entry
          created, \* number of lock files created so far; names their tokens
          started, \* number of commands started so far
          lost     \* history: tokens of live owners whose file others unlinked

vars == <<pc, lock, seen, token, created, started, lost>>

\* Owner tokens are uuid4 values: the k-th file created carries token k.
Token == Nat \ {0}
NoLock == [pid |-> "none", token |-> 0]
LockData == [pid : Proc, token : Token]

AcquireSteps == {"create", "read", "recreate", "reread", "judge",
                 "unlink", "claim"}
OwnerSteps == {"work", "releaseRead", "releaseUnlink"}
Steps == {"free", "exit"} \cup AcquireSteps \cup OwnerSteps

\* The process id answers to kill(pid, 0) on its host.
Alive(p) == pc[p] # "free"

\* The command believes it owns the campaign.
Owner(p) == pc[p] \in OwnerSteps

\* The command is between acquire_lock's return and release_lock's call.
Working(p) == pc[p] = "work"

Init == /\ pc = [p \in Proc |-> "free"]
        /\ lock = NoLock
        /\ seen = [p \in Proc |-> NoLock]
        /\ token = [p \in Proc |-> 0]
        /\ created = 0
        /\ started = 0
        /\ lost = {}

Goto(p, step) == pc' = [pc EXCEPT ![p] = step]

\* A command starts under a free id and calls acquire_lock.
Start(p) == /\ pc[p] = "free"
            /\ started < MaxStarts
            /\ started' = started + 1
            /\ Goto(p, "create")
            /\ UNCHANGED <<lock, seen, token, created, lost>>

\* Mutants: a lock record without the pid; an exists-check-free overwrite.
CreateWithoutPid(p, success, failure) ==
    \/ /\ lock = NoLock
       /\ created' = created + 1
       /\ lock' = [token |-> created']
       /\ token' = [token EXCEPT ![p] = created']
       /\ Goto(p, success)
       /\ UNCHANGED <<seen, started, lost>>
    \/ /\ lock # NoLock
       /\ Goto(p, failure)
       /\ UNCHANGED <<lock, seen, token, created, started, lost>>

CreateByRename(p, success, failure) ==
    /\ created' = created + 1
    /\ lock' = [pid |-> p, token |-> created']
    /\ token' = [token EXCEPT ![p] = created']
    /\ Goto(p, success)
    /\ UNCHANGED <<seen, started, lost>>

(***************************************************************************)
(* os.link of the private file: the lock becomes p's, or the call fails    *)
(* because the path exists.                                                *)
(***************************************************************************)
TryCreateLockExcl(p, success, failure) ==
    \/ /\ lock = NoLock
       /\ created' = created + 1
       /\ lock' = [pid |-> p, token |-> created']
       /\ token' = [token EXCEPT ![p] = created']
       /\ Goto(p, success)
       /\ UNCHANGED <<seen, started, lost>>
    \/ /\ lock # NoLock
       /\ Goto(p, failure)
       /\ UNCHANGED <<lock, seen, token, created, started, lost>>

AcquireFast(p) == /\ pc[p] = "create"
                  /\ TryCreateLockExcl(p, "work", "read")

\* The owner may have released in between: then creation is tried once more.
AcquireRead(p) == /\ pc[p] = "read"
                  /\ seen' = [seen EXCEPT ![p] = lock]
                  /\ Goto(p, IF lock = NoLock THEN "recreate" ELSE "judge")
                  /\ UNCHANGED <<lock, token, created, started, lost>>

AcquireRetry(p) == /\ pc[p] = "recreate"
                   /\ TryCreateLockExcl(p, "work", "reread")

\* A second FileNotFoundError is not caught: the command ends with it.
AcquireReread(p) == /\ pc[p] = "reread"
                    /\ seen' = [seen EXCEPT ![p] = lock]
                    /\ Goto(p, IF lock = NoLock THEN "exit" ELSE "judge")
                    /\ UNCHANGED <<lock, token, created, started, lost>>

SameHost(p) == Host[seen[p].pid] = Host[p]

\* Mutants: the pid is not asked for; a dead owner is never taken over.
TakeOverAnyPid(p) == SameHost(p) \/ p \in ForceUsers
TakeOverForcedOnly(p) == ~ SameHost(p) /\ p \in ForceUsers

\* What acquire_lock decides from the record it read, at the moment it asks.
MayTakeOver(p) == IF SameHost(p) THEN ~ Alive(seen[p].pid)
                                 ELSE p \in ForceUsers

\* Mutant: wait for the owner instead of refusing.
WaitForOwner(p) == /\ pc[p] = "judge"
                   /\ Goto(p, IF MayTakeOver(p) THEN "unlink" ELSE "judge")
                   /\ UNCHANGED <<lock, seen, token, created, started, lost>>

\* Refusal raises LockBusyError, which ends the command.
AcquireJudge(p) == /\ pc[p] = "judge"
                   /\ Goto(p, IF MayTakeOver(p) THEN "unlink" ELSE "exit")
                   /\ UNCHANGED <<lock, seen, token, created, started, lost>>

\* Unlinking the path removes whatever file is there now.
UnlinkLock(p) ==
    /\ lock' = NoLock
    /\ lost' = lost \cup {token[q] : q \in {r \in Proc \ {p} :
                                              Owner(r) /\ token[r] = lock.token}}

TakeOverUnlink(p) == /\ pc[p] = "unlink"
                     /\ UnlinkLock(p)
                     /\ Goto(p, "claim")
                     /\ UNCHANGED <<seen, token, created, started>>

TakeOverClaim(p) == /\ pc[p] = "claim"
                    /\ TryCreateLockExcl(p, "work", "exit")

\* The body of the command returns or raises; finally calls release_lock.
FinishWork(p) == /\ pc[p] = "work"
                 /\ Goto(p, "releaseRead")
                 /\ UNCHANGED <<lock, seen, token, created, started, lost>>

ForgetToken(p) == token' = [token EXCEPT ![p] = 0]

ReleaseRead(p) ==
    /\ pc[p] = "releaseRead"
    /\ \/ /\ lock.token = token[p]
          /\ Goto(p, "releaseUnlink")
          /\ UNCHANGED token
       \/ /\ lock.token # token[p]
          /\ Goto(p, "exit")
          /\ ForgetToken(p)
    /\ UNCHANGED <<lock, seen, created, started, lost>>

ReleaseUnlink(p) == /\ pc[p] = "releaseUnlink"
                    /\ UnlinkLock(p)
                    /\ Goto(p, "exit")
                    /\ ForgetToken(p)
                    /\ UNCHANGED <<seen, created, started>>

\* The process is gone and its memory with it; its id is free again.
Vanish(p) == /\ Goto(p, "free")
             /\ seen' = [seen EXCEPT ![p] = NoLock]
             /\ ForgetToken(p)
             /\ UNCHANGED <<lock, created, started, lost>>

Exit(p) == pc[p] = "exit" /\ Vanish(p)

\* SIGKILL or power loss at any point: the lock file stays as it is.
Crash(p) == p \in CrashProne /\ pc[p] \notin {"free", "exit"} /\ Vanish(p)

Acquire(p) == \/ AcquireFast(p)
              \/ AcquireRead(p)
              \/ AcquireRetry(p)
              \/ AcquireReread(p)
              \/ AcquireJudge(p)
              \/ TakeOverUnlink(p)
              \/ TakeOverClaim(p)

Release(p) == ReleaseRead(p) \/ ReleaseUnlink(p)

Next == \E p \in Proc : \/ Start(p)
                        \/ Acquire(p)
                        \/ FinishWork(p)
                        \/ Release(p)
                        \/ Exit(p)
                        \/ Crash(p)

Spec == Init /\ [][Next]_vars

\* The scheduler keeps running a started command that is in acquire_lock,
\* release_lock or on its way out.  How long the work takes is not assumed.
Fairness == \A p \in Proc : /\ WF_vars(Acquire(p))
                            /\ WF_vars(Release(p))
                            /\ WF_vars(Exit(p))

FairSpec == Spec /\ Fairness

-----------------------------------------------------------------------------
(***************************************************************************)
(* Properties.                                                             *)
(***************************************************************************)

TypeOK == /\ pc \in [Proc -> Steps]
          /\ lock \in LockData \cup {NoLock}
          /\ seen \in [Proc -> LockData \cup {NoLock}]
          /\ token \in [Proc -> Nat]
          /\ created \in Nat
          /\ started \in 0..MaxStarts
          /\ lost \subseteq Nat

\* At most one command at a time is between acquire_lock and release_lock
\* (what the atomic creation is for).  It does not hold: see the README.
MutualExclusion == \A p, q \in Proc : Working(p) /\ Working(q) => p = q

\* Two commands own the campaign at once only after some other command
\* unlinked the file of one of them while it was still at work: creation
\* itself, retries and crashes never produce a second owner.
ExclusionUnlessLost ==
    \A p, q \in Proc : Owner(p) /\ Owner(q) /\ p # q
                          => token[p] \in lost \/ token[q] \in lost

\* A command that is about to unlink a file it judged stale, on its own
\* host, judged a file that no live command owns - even when the dead
\* owner's pid has been reused since.
JudgedStaleIsStale ==
    \A p, q \in Proc : pc[p] = "unlink" /\ SameHost(p) /\ Owner(q)
                          => token[q] # seen[p].token

\* A live owner's file is removed by someone else only in three ways: a
\* forced takeover across hosts, a takeover whose file changed after it was
\* read, or a release whose own file had been taken over after it was read.
OwnerLosesOnlyByForceOrStaleRead ==
    [][\A p, q \in Proc :
          /\ p # q
          /\ Owner(q) /\ lock # NoLock /\ lock.token = token[q]
          /\ lock' = NoLock
          /\ pc'[p] # pc[p]
          => \/ pc[p] = "unlink" /\ (seen[p] # lock \/ ~ SameHost(p))
             \/ pc[p] = "releaseUnlink" /\ token[p] \in lost]_vars

\* The strengthening that makes the three safety properties inductive.
\* Tokens never exceed the number of files created, so a new one is fresh.
TokensDrawn == /\ lock.token <= created
               /\ \A p \in Proc : /\ seen[p].token <= created
                                  /\ token[p] <= created

\* A token belongs to one command, and a command at work has one.
OwnersHaveTheirTokens ==
    \A p \in Proc : Owner(p) =>
        /\ token[p] # 0
        /\ \A q \in Proc : Owner(q) /\ token[q] = token[p] => q = p

\* A live owner's token is in the file, unless the file was removed.
OwnerOnFileOrLost ==
    \A p \in Proc : Owner(p) => lock.token = token[p] \/ token[p] \in lost

\* A record with a live owner's token names that owner's pid, also when it
\* is an old record that some command read earlier.
RecordsNameTheirOwner ==
    \A q \in Proc : Owner(q) =>
        /\ lock.token = token[q] => lock.pid = q
        /\ \A p \in Proc : seen[p].token = token[q] => seen[p].pid = q

\* Only a record that was there is judged.
JudgedRecordWasRead ==
    \A p \in Proc : pc[p] \in {"judge", "unlink"} => seen[p] \in LockData

LockInv == /\ TypeOK
           /\ TokensDrawn
           /\ OwnersHaveTheirTokens
           /\ OwnerOnFileOrLost
           /\ RecordsNameTheirOwner
           /\ JudgedRecordWasRead
           /\ JudgedStaleIsStale

\* release_lock never removes the file of another owner (the test
\* test_release_lock_does_not_remove_new_owner_after_takeover).
ReleaseKeepsNewOwner ==
    [][\A p \in Proc : pc[p] = "releaseUnlink" /\ pc'[p] = "exit"
                          => lock.token \in {0, token[p]}]_vars

\* Every acquire_lock call returns or raises, whatever the others do.
AcquireEnds ==
    \A p \in Proc : pc[p] = "create" ~> pc[p] \notin AcquireSteps

\* The owner of the lock file has died and its pid is not in use.
StaleLock == lock # NoLock /\ ~ Alive(lock.pid)

\* A stale file on a host does not outlive the next attempt on that host by
\* a command that is not killed itself, unless the dead owner's pid comes into
\* use again.
StaleLockReclaimed ==
    \A p \in Proc \ CrashProne : \A t \in 1..MaxStarts :
        pc[p] = "create" /\ StaleLock /\ lock.token = t
                         /\ Host[lock.pid] = Host[p]
          ~> lock.token # t \/ Alive(lock.pid)
=============================================================================
