------------------------- MODULE CampaignLockProofs -------------------------
(***************************************************************************)
(* Proofs about CampaignLock, for every set of process ids, placement on   *)
(* hosts, use of --force-unlock, pattern of crashes and number of starts.  *)
(***************************************************************************)
EXTENDS CampaignLock, TLAPS

\* No command has started and there is no lock file: the invariant holds.
LEMMA InitInv == Init => LockInv
<1> SUFFICES ASSUME Init PROVE LockInv
  OBVIOUS
<1>1. TypeOK
  BY ConstantsAssumption DEF Init, TypeOK, Steps
<1>2. \A p \in Proc : ~ Owner(p) /\ pc[p] \notin {"judge", "unlink"}
  BY DEF Init, Owner, OwnerSteps
<1>3. TokensDrawn
  BY DEF Init, TokensDrawn, NoLock
<1> QED
  BY <1>1, <1>2, <1>3
     DEF LockInv, OwnersHaveTheirTokens, OwnerOnFileOrLost,
         RecordsNameTheirOwner, JudgedRecordWasRead, JudgedStaleIsStale

\* _try_create_lock_excl writes a well-formed record or changes no file.
LEMMA CreateTypeOK ==
  ASSUME TypeOK, NEW p \in Proc, NEW s \in Steps, NEW f \in Steps,
         TryCreateLockExcl(p, s, f)
  PROVE  TypeOK'
<1>1. CASE lock = NoLock /\ lock' = [pid |-> p, token |-> created']
  <2>1. created' = created + 1 /\ created' \in Token
    BY <1>1 DEF TryCreateLockExcl, TypeOK, Token
  <2>2. lock' \in LockData
    BY <1>1, <2>1 DEF LockData
  <2> QED
    BY <1>1, <2>1, <2>2 DEF TryCreateLockExcl, TypeOK, Goto, Token
<1>2. CASE UNCHANGED <<lock, seen, token, created, started, lost>> /\ Goto(p, f)
  BY <1>2 DEF TypeOK, Goto
<1> QED
  BY <1>1, <1>2 DEF TryCreateLockExcl

\* Unlinking leaves no record, and history keeps collecting tokens only.
LEMMA UnlinkTypeOK ==
  ASSUME TypeOK, NEW p \in Proc, UnlinkLock(p)
  PROVE  lock' \in LockData \cup {NoLock} /\ lost' \subseteq Nat
  BY DEF UnlinkLock, TypeOK

\* Every system call of acquire_lock and release_lock keeps the types.
LEMMA NextTypeOK == TypeOK /\ [Next]_vars => TypeOK'
<1> SUFFICES ASSUME TypeOK, [Next]_vars PROVE TypeOK'
  OBVIOUS
<1> USE DEF Goto, ForgetToken
<1>1. ASSUME NEW p \in Proc, Start(p) PROVE TypeOK'
  BY <1>1, ConstantsAssumption DEF TypeOK, Start, Steps, AcquireSteps
<1>2. ASSUME NEW p \in Proc, AcquireFast(p) \/ AcquireRetry(p) \/ TakeOverClaim(p)
      PROVE TypeOK'
  BY <1>2, CreateTypeOK DEF AcquireFast, AcquireRetry, TakeOverClaim,
                            Steps, AcquireSteps, OwnerSteps
<1>3. ASSUME NEW p \in Proc, AcquireRead(p) \/ AcquireReread(p) PROVE TypeOK'
  BY <1>3 DEF TypeOK, AcquireRead, AcquireReread, Steps, AcquireSteps
<1>4. ASSUME NEW p \in Proc, AcquireJudge(p) \/ FinishWork(p) PROVE TypeOK'
  BY <1>4 DEF TypeOK, AcquireJudge, FinishWork, Steps, AcquireSteps, OwnerSteps
<1>5. ASSUME NEW p \in Proc, TakeOverUnlink(p) PROVE TypeOK'
  BY <1>5, UnlinkTypeOK DEF TypeOK, TakeOverUnlink, Steps, AcquireSteps
<1>6. ASSUME NEW p \in Proc, ReleaseRead(p) PROVE TypeOK'
  BY <1>6 DEF TypeOK, ReleaseRead, Steps, OwnerSteps
<1>7. ASSUME NEW p \in Proc, ReleaseUnlink(p) PROVE TypeOK'
  BY <1>7, UnlinkTypeOK DEF TypeOK, ReleaseUnlink, Steps
<1>8. ASSUME NEW p \in Proc, Exit(p) \/ Crash(p) PROVE TypeOK'
  <2>1. Goto(p, "free") /\ ForgetToken(p)
        /\ seen' = [seen EXCEPT ![p] = NoLock]
        /\ UNCHANGED <<lock, created, started, lost>>
    BY <1>8 DEF Exit, Crash, Vanish
  <2>2. pc' \in [Proc -> Steps] /\ token' \in [Proc -> Nat]
    BY <2>1 DEF TypeOK, Goto, ForgetToken, Steps
  <2>3. seen' \in [Proc -> LockData \cup {NoLock}]
    BY <2>1 DEF TypeOK
  <2> QED
    BY <2>1, <2>2, <2>3 DEF TypeOK
<1>9. CASE UNCHANGED vars
  BY <1>9 DEF TypeOK, vars
<1> QED
  BY <1>1, <1>2, <1>3, <1>4, <1>5, <1>6, <1>7, <1>8, <1>9
     DEF Next, Acquire, Release

\* Creating the file keeps the invariant: its token is a new one, so it is
\* in no other command's memory and in no record read before.
LEMMA CreateInv ==
  ASSUME LockInv, NEW p \in Proc, pc[p] \in AcquireSteps,
         NEW f \in {"read", "reread", "exit"}, TryCreateLockExcl(p, "work", f)
  PROVE  LockInv'
<1> USE DEF LockInv
<1>1. TypeOK'
  BY CreateTypeOK DEF Steps, AcquireSteps, OwnerSteps
<1>2. CASE lock = NoLock
  <2>1. /\ created' = created + 1
        /\ lock' = [pid |-> p, token |-> created']
        /\ token' = [token EXCEPT ![p] = created']
        /\ pc' = [pc EXCEPT ![p] = "work"]
        /\ UNCHANGED <<seen, lost>>
    BY <1>2 DEF TryCreateLockExcl, Goto
  <2>2. /\ token'[p] = created + 1
        /\ \A q \in Proc : q # p => token'[q] = token[q] /\ pc'[q] = pc[q]
    BY <2>1 DEF TypeOK
  <2>3. TokensDrawn'
    <3>1. \A q \in Proc : seen[q].token \in Nat /\ token[q] \in Nat
      BY DEF TypeOK, LockData, Token, NoLock
    <3> QED
      BY <2>1, <2>2, <3>1 DEF TokensDrawn, TypeOK
  <2>4. OwnersHaveTheirTokens'
    BY <2>1, <2>2 DEF OwnersHaveTheirTokens, TokensDrawn, TypeOK, Owner
  <2>5. OwnerOnFileOrLost'
    BY <1>2, <2>1, <2>2 DEF OwnerOnFileOrLost, OwnersHaveTheirTokens, TypeOK,
                            NoLock, Owner
  <2>6. RecordsNameTheirOwner'
    BY <2>1, <2>2 DEF RecordsNameTheirOwner, TokensDrawn, TypeOK, Owner
  <2>7. JudgedRecordWasRead' /\ JudgedStaleIsStale'
    BY <2>1, <2>2 DEF JudgedRecordWasRead, JudgedStaleIsStale, TokensDrawn,
                      TypeOK, SameHost, Owner
  <2> QED
    BY <1>1, <2>3, <2>4, <2>5, <2>6, <2>7
<1>3. CASE lock # NoLock
  BY <1>1, <1>3 DEF TryCreateLockExcl, Goto, TypeOK, TokensDrawn,
      OwnersHaveTheirTokens, OwnerOnFileOrLost, RecordsNameTheirOwner,
      JudgedRecordWasRead, JudgedStaleIsStale, Owner, OwnerSteps, SameHost
<1> QED
  BY <1>2, <1>3

\* Every step keeps the invariant, one case for each kind of system call.
LEMMA NextInv == LockInv /\ [Next]_vars => LockInv'
<1> SUFFICES ASSUME LockInv, [Next]_vars PROVE LockInv'
  OBVIOUS
<1> USE DEF LockInv
<1>0. TypeOK'
  BY NextTypeOK
<1>1. ASSUME NEW p \in Proc, Start(p) PROVE LockInv'
  BY <1>0, <1>1 DEF Start, Goto, TypeOK, TokensDrawn, OwnersHaveTheirTokens,
      OwnerOnFileOrLost, RecordsNameTheirOwner, JudgedRecordWasRead,
      JudgedStaleIsStale, Owner, OwnerSteps, SameHost
<1>2. ASSUME NEW p \in Proc, AcquireFast(p) \/ AcquireRetry(p) \/ TakeOverClaim(p)
      PROVE LockInv'
  BY <1>2, CreateInv DEF AcquireFast, AcquireRetry, TakeOverClaim, AcquireSteps
<1>3. ASSUME NEW p \in Proc, AcquireRead(p) \/ AcquireReread(p) PROVE LockInv'
  BY <1>0, <1>3 DEF AcquireRead, AcquireReread, Goto, TypeOK, TokensDrawn,
      OwnersHaveTheirTokens, OwnerOnFileOrLost, RecordsNameTheirOwner,
      JudgedRecordWasRead, JudgedStaleIsStale, Owner, OwnerSteps, SameHost
<1>4. ASSUME NEW p \in Proc, AcquireJudge(p) PROVE LockInv'
  BY <1>0, <1>4 DEF AcquireJudge, MayTakeOver, Alive, Goto, TypeOK, TokensDrawn,
      OwnersHaveTheirTokens, OwnerOnFileOrLost, RecordsNameTheirOwner,
      JudgedRecordWasRead, JudgedStaleIsStale, Owner, OwnerSteps, SameHost
<1>5. ASSUME NEW p \in Proc, FinishWork(p) PROVE LockInv'
  BY <1>0, <1>5 DEF FinishWork, Goto, TypeOK, TokensDrawn,
      OwnersHaveTheirTokens, OwnerOnFileOrLost, RecordsNameTheirOwner,
      JudgedRecordWasRead, JudgedStaleIsStale, Owner, OwnerSteps, SameHost
<1>6. ASSUME NEW p \in Proc, TakeOverUnlink(p) PROVE LockInv'
  BY <1>0, <1>6 DEF TakeOverUnlink, UnlinkLock, Goto, TypeOK, TokensDrawn,
      OwnersHaveTheirTokens, OwnerOnFileOrLost, RecordsNameTheirOwner, NoLock,
      JudgedRecordWasRead, JudgedStaleIsStale, Owner, OwnerSteps, SameHost
<1>7. ASSUME NEW p \in Proc, ReleaseRead(p) PROVE LockInv'
  BY <1>0, <1>7 DEF ReleaseRead, ForgetToken, Goto, TypeOK, TokensDrawn,
      OwnersHaveTheirTokens, OwnerOnFileOrLost, RecordsNameTheirOwner,
      JudgedRecordWasRead, JudgedStaleIsStale, Owner, OwnerSteps, SameHost
<1>8. ASSUME NEW p \in Proc, ReleaseUnlink(p) PROVE LockInv'
  BY <1>0, <1>8 DEF ReleaseUnlink, UnlinkLock, ForgetToken, Goto, TypeOK, TokensDrawn,
      OwnersHaveTheirTokens, OwnerOnFileOrLost, RecordsNameTheirOwner, NoLock,
      JudgedRecordWasRead, JudgedStaleIsStale, Owner, OwnerSteps, SameHost
<1>9. ASSUME NEW p \in Proc, Exit(p) \/ Crash(p) PROVE LockInv'
  BY <1>0, <1>9 DEF Exit, Crash, Vanish, ForgetToken, Goto, TypeOK, TokensDrawn,
      OwnersHaveTheirTokens, OwnerOnFileOrLost, RecordsNameTheirOwner, NoLock,
      JudgedRecordWasRead, JudgedStaleIsStale, Owner, OwnerSteps, SameHost
<1>10. CASE UNCHANGED vars
  BY <1>10 DEF vars, TypeOK, TokensDrawn,
      OwnersHaveTheirTokens, OwnerOnFileOrLost, RecordsNameTheirOwner,
      JudgedRecordWasRead, JudgedStaleIsStale, Owner, SameHost
<1> QED
  BY <1>1, <1>2, <1>3, <1>4, <1>5, <1>6, <1>7, <1>8, <1>9, <1>10
     DEF Next, Acquire, Release

\* The invariant holds in every state the commands can reach.
LEMMA Invariance == Spec => []LockInv
  BY InitInv, NextInv, PTL DEF Spec

\* Every variable of the lock protocol keeps its type.
THEOREM TypeCorrect == Spec => []TypeOK
  BY Invariance, PTL DEF LockInv

\* Two commands own a campaign at once only if somebody unlinked the lock
\* file of one of them while it owned it.
THEOREM Exclusion == Spec => []ExclusionUnlessLost
<1>1. LockInv => ExclusionUnlessLost
  BY DEF LockInv, ExclusionUnlessLost, OwnersHaveTheirTokens, OwnerOnFileOrLost
<1> QED
  BY <1>1, Invariance, PTL

\* A same-host takeover was decided on a record no live command owns.
THEOREM JudgedStale == Spec => []JudgedStaleIsStale
  BY Invariance, PTL DEF LockInv

\* In one step a live owner's file is unlinked only on a stale read, by
\* force across hosts, or by a release whose own file was taken over.
LEMMA OwnerLosesStep ==
  ASSUME LockInv, [Next]_vars,
         NEW p \in Proc, NEW q \in Proc, p # q, pc'[p] # pc[p],
         Owner(q), lock # NoLock, lock.token = token[q], lock' = NoLock
  PROVE  \/ pc[p] = "unlink" /\ (seen[p] # lock \/ ~ SameHost(p))
         \/ pc[p] = "releaseUnlink" /\ token[p] \in lost
<1> USE DEF LockInv
<1>1. UNCHANGED vars => FALSE
  BY DEF vars
<1>2. PICK r \in Proc : \/ Start(r) \/ Acquire(r) \/ FinishWork(r)
                       \/ Release(r) \/ Exit(r) \/ Crash(r)
  BY <1>1 DEF Next
<1>3. \A s, f \in Steps : ~ TryCreateLockExcl(r, s, f)
  BY DEF TryCreateLockExcl, NoLock
<1>4. TakeOverUnlink(r) \/ ReleaseUnlink(r)
  BY <1>2, <1>3 DEF Start, Acquire, FinishWork, Release, Exit, Crash, Vanish,
       AcquireFast, AcquireRead, AcquireRetry, AcquireReread, AcquireJudge,
       TakeOverClaim, ReleaseRead, Steps, AcquireSteps, OwnerSteps
<1>5. r = p
  BY <1>4 DEF TakeOverUnlink, ReleaseUnlink, Goto, TypeOK
<1>6. CASE TakeOverUnlink(p)
  BY <1>6 DEF TakeOverUnlink, JudgedStaleIsStale
<1>7. CASE ReleaseUnlink(p)
  BY <1>7 DEF ReleaseUnlink, OwnersHaveTheirTokens, OwnerOnFileOrLost,
              Owner, OwnerSteps
<1> QED
  BY <1>4, <1>5, <1>6, <1>7

\* A live owner loses its lock file only to a forced takeover across hosts,
\* or to an unlink whose decision was made on an earlier read.
THEOREM OwnerLoses == Spec => OwnerLosesOnlyByForceOrStaleRead
<1>1. LockInv /\ [Next]_vars =>
        [\A p, q \in Proc :
          /\ p # q
          /\ Owner(q) /\ lock # NoLock /\ lock.token = token[q]
          /\ lock' = NoLock
          /\ pc'[p] # pc[p]
          => \/ pc[p] = "unlink" /\ (seen[p] # lock \/ ~ SameHost(p))
             \/ pc[p] = "releaseUnlink" /\ token[p] \in lost]_vars
  BY OwnerLosesStep
<1> QED
  BY <1>1, Invariance, PTL DEF Spec, OwnerLosesOnlyByForceOrStaleRead
=============================================================================
