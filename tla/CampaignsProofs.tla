---------------------------- MODULE CampaignsProofs ----------------------------
(***************************************************************************)
(* Proofs about Campaigns, for every number of commands, crashes and       *)
(* cleanings and every situation they start in.                            *)
(***************************************************************************)
EXTENDS Campaigns, Integers, FiniteSetTheorems, TLAPS

-----------------------------------------------------------------------------
\* A command makes one campaign at most: there are numbers enough.
MayStillMake == {p \in Proc : pc[p] \in {"idle", "lookup", "newLookup", "newLock",
                                         "makeRuns", "makeDir"}}
NumbersSuffice == made + Cardinality(MayStillMake) <= MaxCommands + 1

\* What a command works on is there to be named.
HasCampaign(p) ==
    /\ pc[p] \in {"work", "report", "removeCampaign"} => camp[p] # None
    /\ pc[p] \in {"readManifest", "lock"} /\ kind[p] = "eval-clean-runs"
         => camp[p] = looked[p]

\* A command that replaces or removes the campaign it looked up has its lock,
\* unless eval-clean-runs took the campaign apart.
Replacing == {"makeRuns", "makeDir", "manifest", "checkTmp", "unlinkTmp", "symlink",
              "rename", "scan", "remove", "removeCampaign"}
HasLock(p) == pc[p] \in Replacing /\ looked[p] # None /\ looked[p] \notin wiped
                => lock[looked[p]] = p

\* A campaign once whole stays so until eval-clean-runs takes from it.
WasWhole(c) == Whole(c) \/ c \in wiped

\* What a link points to, or will point to, is whole.
Unlinked == {"manifest", "checkTmp", "unlinkTmp", "symlink"}
LinksAreWhole ==
    /\ current # None => WasWhole(current)
    /\ tmp # None => WasWhole(tmp)
    /\ \A p \in Proc : pc[p] \in Unlinked \ {"manifest"} => WasWhole(camp[p])

\* Every campaign is linked once: by whom made it.
LinkedOnce ==
    /\ \A c \in past : c <= made
    /\ tmp # None => tmp \notin past /\ tmp <= made
    /\ \A p \in Proc : pc[p] \in Unlinked =>
          /\ camp[p] # None /\ camp[p] <= made
          /\ camp[p] \notin past /\ camp[p] # tmp
          /\ \A q \in Proc \ {p} : pc[q] \in Unlinked => camp[q] # camp[p]

\* Creators that nobody killed or cleaned around have only each other to fear:
\* while there is no campaign, one who finds CURRENT.tmp gone has it to thank to
\* one who is about to make it, and one who finds it there to one who made it.
Undisturbed(p) ==
    Creating(p) /\ p \notin witness =>
        /\ runsDir
        /\ pc[p] # "makeDir" => camp[p] \in dirs
        /\ current = None =>
             /\ pc[p] \in {"unlinkTmp", "rename"} /\ tmp = None
                  => \E q \in Proc : pc[q] = "symlink"
             /\ pc[p] = "symlink" /\ tmp # None
                  => \E q \in Proc : pc[q] = "rename"

CampInv == /\ TypeOK
           /\ NumbersSuffice
           /\ \A p \in Proc : HasCampaign(p)
           /\ \A p \in Proc : HasLock(p)
           /\ LinksAreWhole
           /\ LinkedOnce
           /\ \A p \in Proc : Undisturbed(p)

-----------------------------------------------------------------------------
(***************************************************************************)
(* What a step does to the memory of its command and of the others.        *)
(***************************************************************************)
MemoryTypes == /\ pc \in [Proc -> Steps]
               /\ kind \in [Proc -> Kinds]
               /\ looked \in [Proc -> Campaign \cup {None}]
               /\ camp \in [Proc -> Campaign \cup {None}]
               /\ left \in [Proc -> SUBSET (Campaign \cup Links)]
               /\ inside \in [Proc -> SUBSET (Entries \cup {".lock"})]

\* The step of p leaves what q remembers alone.
Remembers(q) == /\ pc'[q] = pc[q] /\ kind'[q] = kind[q]
                /\ looked'[q] = looked[q] /\ camp'[q] = camp[q]
                /\ left'[q] = left[q] /\ inside'[q] = inside[q]

Local(p) == MemoryTypes' /\ \A q \in Proc \ {p} : Remembers(q)

LEMMA GotoEffect ==
  ASSUME MemoryTypes, NEW p \in Proc, NEW s \in Steps, Goto(p, s)
  PROVE  /\ pc' \in [Proc -> Steps] /\ pc'[p] = s
         /\ \A q \in Proc \ {p} : pc'[q] = pc[q]
  BY DEF MemoryTypes, Goto

LEMMA OnlyGoto ==
  ASSUME MemoryTypes, NEW p \in Proc, NEW s \in Steps, Goto(p, s), UNCHANGED memory
  PROVE  Local(p) /\ pc'[p] = s
  BY GotoEffect DEF MemoryTypes, Local, Remembers, memory

LEMMA EndEffect ==
  ASSUME MemoryTypes, NEW p \in Proc, End(p)
  PROVE  Local(p) /\ pc'[p] = "ended" /\ looked'[p] = None /\ camp'[p] = None
<1>1. pc' \in [Proc -> Steps] /\ pc'[p] = "ended" /\ \A q \in Proc \ {p} : pc'[q] = pc[q]
  BY GotoEffect DEF End, Steps
<1> QED
  BY <1>1 DEF End, MemoryTypes, Local, Remembers, Kinds

LEMMA GotoOrEndEffect ==
  ASSUME MemoryTypes, NEW p \in Proc, NEW s \in Steps, GotoOrEnd(p, s)
  PROVE  /\ Local(p) /\ pc'[p] = s
         /\ s # "ended" => UNCHANGED memory
<1>1. CASE s = "ended"
  BY <1>1, EndEffect DEF GotoOrEnd
<1>2. CASE s # "ended"
  BY <1>2, OnlyGoto DEF GotoOrEnd
<1> QED
  BY <1>1, <1>2

LEMMA CurrentCampaignEffect ==
  ASSUME TypeOK, MemoryTypes, NEW p \in Proc, NEW s \in Steps, CurrentCampaign(p, s)
  PROVE  /\ Local(p) /\ pc'[p] = s
         /\ s # "ended" => /\ looked'[p] = current /\ camp'[p] = current
                           /\ kind'[p] = kind[p]
<1>1. CASE s = "ended"
  BY <1>1, EndEffect DEF CurrentCampaign
<1>2. CASE s # "ended"
  <2>1. /\ Goto(p, s) /\ UNCHANGED <<kind, left, inside>>
        /\ looked' = [looked EXCEPT ![p] = current]
        /\ camp' = [camp EXCEPT ![p] = current]
    BY <1>2 DEF CurrentCampaign
  <2>2. pc' \in [Proc -> Steps] /\ pc'[p] = s /\ \A q \in Proc \ {p} : pc'[q] = pc[q]
    BY <2>1, GotoEffect
  <2> QED
    BY <2>1, <2>2 DEF Local, Remembers, MemoryTypes, TypeOK
<1> QED
  BY <1>1, <1>2

\* Where the lookup leads.
LEMMA LookupEffect ==
  ASSUME TypeOK, MemoryTypes, NEW p \in Proc, Lookup(p)
  PROVE  /\ Local(p) /\ pc[p] = "lookup"
         /\ pc'[p] \in {"readManifest", "lock", "newLookup", "scan", "ended"}
         /\ pc'[p] # "ended" => looked'[p] = current /\ camp'[p] = current
         /\ pc'[p] = "scan" => current = None
         /\ UNCHANGED <<links, tree, lock, history, bounds>>
<1>1. PICK s \in IF current = None THEN FoundNone(kind[p]) ELSE Found(kind[p]) :
         CurrentCampaign(p, s)
  BY DEF Lookup
<1>2. /\ s \in {"readManifest", "lock", "newLookup", "scan", "ended"}
      /\ s = "scan" => current = None
  BY <1>1 DEF FoundNone, Found
<1>3. s \in Steps
  BY <1>2 DEF Steps
<1>4. /\ Local(p) /\ pc'[p] = s
      /\ s # "ended" => looked'[p] = current /\ camp'[p] = current
  BY <1>1, <1>3, CurrentCampaignEffect
<1>5. pc[p] = "lookup" /\ UNCHANGED <<links, tree, lock, history, bounds>>
  BY <1>1 DEF Lookup, At, CurrentCampaign
<1> QED
  BY <1>2, <1>4, <1>5

\* Taking the lock of campaign c, or ending.
LEMMA LockingEffect ==
  ASSUME TypeOK, MemoryTypes, NEW p \in Proc, NEW c, NEW s \in Steps \ {"ended"},
         Locking(p, c, s)
  PROVE  /\ Local(p)
         /\ UNCHANGED <<links, tree, history, bounds>>
         /\ \/ /\ c \in dirs /\ ~ Owned(c) /\ pc'[p] = s /\ UNCHANGED memory
               /\ lock' = [lock EXCEPT ![c] = p]
            \/ pc'[p] = "ended" /\ looked'[p] = None /\ camp'[p] = None /\ lock' = lock
<1>1. CASE c \in dirs /\ ~ Owned(c)
  BY <1>1, GotoOrEndEffect DEF Locking
<1>2. CASE ~ (c \in dirs /\ ~ Owned(c))
  BY <1>2, EndEffect DEF Locking
<1> QED
  BY <1>1, <1>2

LEMMA MayGoOnEffect ==
  ASSUME MemoryTypes, NEW p \in Proc, NEW there, MayGoOn(p, there)
  PROVE  /\ pc' \in [Proc -> Steps] /\ pc'[p] \in {pc[p], "release"}
         /\ \A q \in Proc \ {p} : pc'[q] = pc[q]
  BY GotoEffect DEF MayGoOn, MemoryTypes, Steps

\* The steps that only move on.
Moves(p) == \/ MakeRuns(p) \/ WriteManifest(p) \/ CheckTmp(p) \/ UnlinkTmp(p)
            \/ Symlink(p) \/ Rename(p) \/ Work(p) \/ WriteReport(p)
            \/ RemoveCampaign(p) \/ RemoveRuns(p)

LEMMA MovesEffect ==
  ASSUME MemoryTypes, NEW p \in Proc, Moves(p)
  PROVE  Local(p) /\ UNCHANGED memory
<1>1. UNCHANGED memory
  BY DEF Moves, MakeRuns, WriteManifest, CheckTmp, UnlinkTmp, Symlink, Rename, Work,
         WriteReport, RemoveCampaign, RemoveRuns
<1>2. \E s \in Steps : Goto(p, s)
  BY DEF Moves, MakeRuns, WriteManifest, CheckTmp, UnlinkTmp, Symlink, Rename, Work,
         WriteReport, RemoveCampaign, RemoveRuns, Try, Steps
<1> QED
  BY <1>1, <1>2, OnlyGoto

LEMMA StartEffect ==
  ASSUME MemoryTypes, NEW p \in Proc, NEW k \in Kinds, Start(p, k)
  PROVE  /\ Local(p) /\ pc[p] = "idle" /\ pc'[p] \in {"newLookup", "lookup"}
         /\ UNCHANGED <<links, tree, lock, history, crashes>>
<1>1. pc' \in [Proc -> Steps] /\ pc'[p] \in {"newLookup", "lookup"}
      /\ \A q \in Proc \ {p} : pc'[q] = pc[q]
  BY GotoEffect DEF Start, Steps
<1> QED
  BY <1>1 DEF Start, At, MemoryTypes, Local, Remembers

LEMMA MakeDirEffect ==
  ASSUME MemoryTypes, NEW p \in Proc, MakeDir(p), made + 1 \in Campaign
  PROVE  /\ Local(p) /\ pc[p] = "makeDir" /\ UNCHANGED <<kind, looked>>
         /\ \/ /\ runsDir /\ pc'[p] = "manifest" /\ camp'[p] = made + 1
               /\ made' = made + 1 /\ dirs' = dirs \cup {made + 1}
            \/ ~ runsDir /\ pc'[p] = "release" /\ made' = made /\ dirs' = dirs
<1>1. pc[p] = "makeDir" /\ UNCHANGED <<kind, looked, left, inside>>
      /\ pc' \in [Proc -> Steps] /\ \A q \in Proc \ {p} : pc'[q] = pc[q]
      /\ pc'[p] = IF runsDir THEN "manifest" ELSE "release"
  BY GotoEffect DEF MakeDir, At, Try, Steps
<1>2. CASE runsDir
  <2>1. made' = made + 1 /\ camp' = [camp EXCEPT ![p] = made + 1]
        /\ dirs' = dirs \cup {made + 1}
    BY <1>2 DEF MakeDir
  <2>2. /\ camp' \in [Proc -> Campaign \cup {None}] /\ camp'[p] = made + 1
        /\ \A q \in Proc \ {p} : camp'[q] = camp[q]
    BY <2>1 DEF MemoryTypes
  <2>3. Local(p)
    BY <1>1, <2>2 DEF MemoryTypes, Local, Remembers
  <2>4. pc'[p] = "manifest"
    <3>1. Goto(p, "manifest")
      BY <1>2, Zenon DEF MakeDir, Try
    <3> QED
      BY <3>1, GotoEffect DEF Steps
  <2> QED
    BY <1>1, <1>2, <2>1, <2>2, <2>3, <2>4
<1>3. CASE ~ runsDir
  <2>1. made' = made /\ camp' = camp /\ dirs' = dirs
    BY <1>3 DEF MakeDir, MemoryTypes
  <2>2. Local(p)
    BY <1>1, <2>1 DEF MemoryTypes, Local, Remembers
  <2>3. pc'[p] = "release"
    <3>1. Goto(p, "release")
      BY <1>3, Zenon DEF MakeDir, Try
    <3> QED
      BY <3>1, GotoEffect DEF Steps
  <2> QED
    BY <1>1, <1>3, <2>1, <2>2, <2>3
<1> QED
  BY <1>2, <1>3

\* eval-clean-runs moves on, and remembers what it has yet to remove.
LEMMA ScanEffect ==
  ASSUME TypeOK, MemoryTypes, NEW p \in Proc, Scan(p)
  PROVE  /\ Local(p) /\ pc[p] = "scan" /\ pc'[p] \in {"remove", "release"}
         /\ UNCHANGED <<links, tree, lock, kind, looked, camp, history, bounds>>
<1>1. /\ pc' \in [Proc -> Steps] /\ pc'[p] \in {"remove", "release"}
      /\ \A q \in Proc \ {p} : pc'[q] = pc[q]
  BY GotoEffect DEF Scan, Try, Steps
<1>2. dirs \cup {e \in Links : LinkTarget(e) # None} \in SUBSET (Campaign \cup Links)
  BY DEF TypeOK
<1> QED
  BY <1>1, <1>2 DEF Scan, At, MemoryTypes, Local, Remembers

LEMMA RemoveLinkEffect ==
  ASSUME MemoryTypes, NEW p \in Proc, RemoveLink(p)
  PROVE  /\ Local(p) /\ pc[p] = "remove" /\ pc'[p] \in {"remove", "release"}
         /\ UNCHANGED <<tree, lock, kind, looked, camp, past, wiped, bounds>>
         /\ witness' = witness \cup {q \in Proc : Creating(q)}
         /\ current' \in {current, None} /\ tmp' \in {tmp, None}
         /\ left'[p] # left[p]
<1>1. PICK e \in left[p] \cap Links :
         /\ MayGoOn(p, LinkTarget(e) # None)
         /\ current' = IF e = CURRENT THEN None ELSE current
         /\ tmp' = IF e = CURRENT_tmp THEN None ELSE tmp
         /\ left' = [left EXCEPT ![p] = @ \ {e}]
  BY DEF RemoveLink
<1>2. /\ pc' \in [Proc -> Steps] /\ pc'[p] \in {pc[p], "release"}
      /\ \A q \in Proc \ {p} : pc'[q] = pc[q]
  BY <1>1, MayGoOnEffect
<1>3. /\ left' \in [Proc -> SUBSET (Campaign \cup Links)] /\ left'[p] = left[p] \ {e}
      /\ \A q \in Proc \ {p} : left'[q] = left[q]
  BY <1>1 DEF MemoryTypes
<1>4. left'[p] # left[p]
  BY <1>1, <1>3
<1> QED
  BY <1>1, <1>2, <1>3, <1>4
     DEF RemoveLink, At, DisturbCreation, MemoryTypes, Local, Remembers

LEMMA OpenCampaignEffect ==
  ASSUME TypeOK, MemoryTypes, NEW p \in Proc, OpenCampaign(p)
  PROVE  /\ Local(p) /\ pc[p] = "remove"
         /\ pc'[p] \in {"removeCampaign", "remove", "release"}
         /\ camp'[p] # None
         /\ UNCHANGED <<links, tree, lock, kind, looked, history, bounds>>
<1>1. PICK c \in left[p] \ Links :
         /\ IF c \in dirs THEN Goto(p, "removeCampaign") ELSE MayGoOn(p, FALSE)
         /\ left' = [left EXCEPT ![p] = @ \ {c}]
         /\ camp' = [camp EXCEPT ![p] = c]
         /\ inside' = [inside EXCEPT ![p] = files[c] \cup
               (IF lock[c] = None THEN {} ELSE {".lock"})]
  BY DEF OpenCampaign
<1>2. pc[p] = "remove" /\ UNCHANGED <<links, tree, lock, kind, looked, history, bounds>>
  BY DEF OpenCampaign, At
<1>3. /\ pc' \in [Proc -> Steps] /\ pc'[p] \in {"removeCampaign", "remove", "release"}
      /\ \A q \in Proc \ {p} : pc'[q] = pc[q]
  BY <1>1, <1>2, MayGoOnEffect, GotoEffect DEF Steps
<1>4. c \in Campaign
  BY <1>1 DEF MemoryTypes
<1>5. files[c] \cup (IF lock[c] = None THEN {} ELSE {".lock"})
        \in SUBSET (Entries \cup {".lock"})
  BY <1>4 DEF TypeOK
<1>6. c # None
  BY <1>4 DEF Campaign, None
<1> QED
  BY <1>1, <1>2, <1>3, <1>4, <1>5, <1>6 DEF MemoryTypes, Local, Remembers

LEMMA RemoveFileEffect ==
  ASSUME TypeOK, MemoryTypes, NEW p \in Proc, RemoveFile(p)
  PROVE  /\ Local(p) /\ pc[p] = "removeCampaign" /\ pc'[p] \in {"removeCampaign", "release"}
         /\ UNCHANGED <<links, runsDir, dirs, made, kind, looked, camp, past, witness,
                        bounds>>
         /\ wiped' = wiped \cup {camp[p]}
         /\ \A c \in Campaign \ {camp[p]} : files'[c] = files[c] /\ lock'[c] = lock[c]
         /\ files' \in [Campaign -> SUBSET Entries]
         /\ lock' \in [Campaign -> Proc \cup {None}]
         /\ inside'[p] # inside[p]
<1>1. PICK e \in inside[p] :
         /\ UNCHANGED pc \/ Goto(p, "release")
         /\ files' = [files EXCEPT ![camp[p]] = @ \ {e}]
         /\ lock' = IF e = ".lock" THEN [lock EXCEPT ![camp[p]] = None] ELSE lock
         /\ inside' = [inside EXCEPT ![p] = @ \ {e}]
         /\ wiped' = wiped \cup {camp[p]}
  BY DEF RemoveFile, MayGoOn
<1>2. /\ pc[p] = "removeCampaign"
      /\ UNCHANGED <<links, runsDir, dirs, made, kind, looked, camp, left, past, witness,
                     bounds>>
  BY DEF RemoveFile, At
<1>3. /\ pc' \in [Proc -> Steps] /\ pc'[p] \in {pc[p], "release"}
      /\ \A q \in Proc \ {p} : pc'[q] = pc[q]
  BY <1>1, GotoEffect DEF MemoryTypes, Steps
<1>4. /\ inside' \in [Proc -> SUBSET (Entries \cup {".lock"})]
      /\ inside'[p] # inside[p]
      /\ \A q \in Proc \ {p} : inside'[q] = inside[q]
  BY <1>1 DEF MemoryTypes
<1>5. /\ files' \in [Campaign -> SUBSET Entries]
      /\ lock' \in [Campaign -> Proc \cup {None}]
      /\ \A c \in Campaign \ {camp[p]} : files'[c] = files[c] /\ lock'[c] = lock[c]
  BY <1>1 DEF TypeOK
<1> QED
  BY <1>1, <1>2, <1>3, <1>4, <1>5 DEF MemoryTypes, Local, Remembers

\* Where the steps that only move on lead.
LEMMA MovesLead ==
  ASSUME MemoryTypes, NEW p \in Proc
  PROVE  /\ MakeRuns(p) => pc[p] = "makeRuns" /\ pc'[p] = "makeDir"
         /\ WriteManifest(p) => /\ pc[p] = "manifest"
                                /\ pc'[p] = IF camp[p] \in dirs THEN "checkTmp" ELSE "release"
         /\ CheckTmp(p) => /\ pc[p] = "checkTmp"
                           /\ pc'[p] = IF tmp = None THEN "symlink" ELSE "unlinkTmp"
         /\ UnlinkTmp(p) => /\ pc[p] = "unlinkTmp"
                            /\ pc'[p] = IF tmp # None THEN "symlink" ELSE "release"
         /\ Symlink(p) => /\ pc[p] = "symlink"
                          /\ runsDir /\ tmp = None => pc'[p] = "rename" /\ tmp' = camp[p]
                          /\ ~ (runsDir /\ tmp = None) => pc'[p] = "release" /\ tmp' = tmp
         /\ Rename(p) => /\ pc[p] = "rename"
                         /\ pc'[p] = IF tmp # None THEN "newRelease" ELSE "release"
         /\ Work(p) => pc[p] = "work" /\ pc'[p] \in {"report", "release"}
         /\ WriteReport(p) => pc[p] = "report" /\ pc'[p] = "release"
         /\ RemoveCampaign(p) => pc[p] = "removeCampaign" /\ pc'[p] \in {"remove", "release"}
         /\ RemoveRuns(p) => pc[p] = "remove" /\ pc'[p] = "release"
<1>1. \A s \in Steps : Goto(p, s) => pc'[p] = s
  BY GotoEffect
<1> USE <1>1 DEF At, Try, Steps
<1>2. MakeRuns(p) => pc[p] = "makeRuns" /\ pc'[p] = "makeDir"
  BY DEF MakeRuns
<1>3. WriteManifest(p) => /\ pc[p] = "manifest"
                          /\ pc'[p] = IF camp[p] \in dirs THEN "checkTmp" ELSE "release"
  BY DEF WriteManifest
<1>4. CheckTmp(p) => /\ pc[p] = "checkTmp"
                     /\ pc'[p] = IF tmp = None THEN "symlink" ELSE "unlinkTmp"
  BY DEF CheckTmp
<1>5. UnlinkTmp(p) => /\ pc[p] = "unlinkTmp"
                      /\ pc'[p] = IF tmp # None THEN "symlink" ELSE "release"
  BY DEF UnlinkTmp
<1>6. Symlink(p) => /\ pc[p] = "symlink"
                    /\ runsDir /\ tmp = None => pc'[p] = "rename" /\ tmp' = camp[p]
                    /\ ~ (runsDir /\ tmp = None) => pc'[p] = "release" /\ tmp' = tmp
  <2>1. CASE runsDir /\ tmp = None
    <3>1. Symlink(p) => pc[p] = "symlink" /\ Goto(p, "rename") /\ tmp' = camp[p]
      BY <2>1, Zenon DEF Symlink
    <3> QED BY <2>1, <3>1
  <2>2. CASE ~ (runsDir /\ tmp = None)
    <3>1. Symlink(p) => pc[p] = "symlink" /\ Goto(p, "release") /\ tmp' = tmp
      BY <2>2, Zenon DEF Symlink
    <3> QED BY <2>2, <3>1
  <2> QED BY <2>1, <2>2
<1>7. Rename(p) => /\ pc[p] = "rename"
                   /\ pc'[p] = IF tmp # None THEN "newRelease" ELSE "release"
  BY DEF Rename
<1>8. Work(p) => pc[p] = "work" /\ pc'[p] \in {"report", "release"}
  BY DEF Work
<1>9. WriteReport(p) => pc[p] = "report" /\ pc'[p] = "release"
  BY DEF WriteReport
<1>10. RemoveCampaign(p) => pc[p] = "removeCampaign" /\ pc'[p] \in {"remove", "release"}
  BY DEF RemoveCampaign
<1>11. RemoveRuns(p) => pc[p] = "remove" /\ pc'[p] = "release"
  BY DEF RemoveRuns
<1> QED
  BY <1>2, <1>3, <1>4, <1>5, <1>6, <1>7, <1>8, <1>9, <1>10, <1>11

\* Steps that only read, take or release the lock.
LEMMA ReadManifestEffect ==
  ASSUME MemoryTypes, NEW p \in Proc, ReadManifest(p)
  PROVE  /\ Local(p) /\ pc[p] = "readManifest" /\ pc'[p] \in {"lock", "ended"}
         /\ pc'[p] = "lock" => UNCHANGED memory
         /\ UNCHANGED <<links, tree, lock, history, bounds>>
<1>1. CASE Whole(camp[p])
  BY <1>1, GotoOrEndEffect DEF ReadManifest, At, Steps
<1>2. CASE ~ Whole(camp[p])
  BY <1>2, GotoOrEndEffect DEF ReadManifest, At, Steps
<1> QED
  BY <1>1, <1>2

LEMMA AcquireLockEffect ==
  ASSUME TypeOK, MemoryTypes, NEW p \in Proc, AcquireLock(p)
  PROVE  /\ Local(p) /\ pc[p] = "lock"
         /\ UNCHANGED <<links, tree, history, bounds>>
         /\ \/ /\ camp[p] \in dirs /\ ~ Owned(camp[p]) /\ UNCHANGED memory
               /\ pc'[p] = FirstStep(kind[p])
               /\ lock' = [lock EXCEPT ![camp[p]] = p]
            \/ pc'[p] = "ended" /\ looked'[p] = None /\ camp'[p] = None /\ lock' = lock
<1>1. FirstStep(kind[p]) \in Steps \ {"ended"}
  BY DEF FirstStep, Steps
<1>2. pc[p] = "lock" /\ Locking(p, camp[p], FirstStep(kind[p]))
  BY DEF AcquireLock, At
<1> QED
  BY <1>1, <1>2, LockingEffect

LEMMA NewLockEffect ==
  ASSUME TypeOK, MemoryTypes, NEW p \in Proc, NewLock(p)
  PROVE  /\ Local(p) /\ pc[p] = "newLock"
         /\ UNCHANGED <<links, tree, history, bounds>>
         /\ \/ /\ looked[p] \in dirs /\ ~ Owned(looked[p]) /\ UNCHANGED memory
               /\ pc'[p] = "makeRuns"
               /\ lock' = [lock EXCEPT ![looked[p]] = p]
            \/ pc'[p] = "ended" /\ looked'[p] = None /\ camp'[p] = None /\ lock' = lock
<1>1. pc[p] = "newLock" /\ Locking(p, looked[p], "makeRuns")
  BY DEF NewLock, At
<1> QED
  BY <1>1, LockingEffect DEF Steps

LEMMA ReleaseLockEffect ==
  ASSUME MemoryTypes, NEW p \in Proc, ReleaseLock(p)
  PROVE  /\ Local(p) /\ pc[p] \in {"release", "newRelease"}
         /\ pc'[p] \in {"readManifest", "ended"}
         /\ pc'[p] = "readManifest" => kind'[p] = "eval-all"
         /\ lock' = [c \in Campaign |-> IF lock[c] = p THEN None ELSE lock[c]]
         /\ UNCHANGED <<links, tree, history, bounds>>
<1>1. AfterRelease(p) \in {"readManifest", "ended"}
  BY DEF AfterRelease
<1>2. GotoOrEnd(p, AfterRelease(p))
  BY DEF ReleaseLock
<1>3. Local(p) /\ pc'[p] = AfterRelease(p)
  BY <1>1, <1>2, GotoOrEndEffect DEF Steps
<1>4. pc'[p] = "readManifest" => kind[p] = "eval-all" /\ kind' = kind
  BY <1>1, <1>2, <1>3 DEF AfterRelease, GotoOrEnd, memory
<1> QED
  BY <1>1, <1>3, <1>4 DEF ReleaseLock

LEMMA NewLookupEffect ==
  ASSUME TypeOK, MemoryTypes, NEW p \in Proc, NewLookup(p)
  PROVE  /\ Local(p) /\ pc[p] = "newLookup" /\ looked'[p] = current
         /\ pc'[p] = IF current = None THEN "makeRuns" ELSE "newLock"
         /\ UNCHANGED <<links, tree, lock, history, bounds>>
<1>1. CASE current = None
  <2>1. CurrentCampaign(p, "makeRuns")
    BY <1>1 DEF NewLookup
  <2> QED
    BY <1>1, <2>1, CurrentCampaignEffect DEF NewLookup, At, CurrentCampaign, Steps
<1>2. CASE current # None
  <2>1. CurrentCampaign(p, "newLock")
    BY <1>2 DEF NewLookup
  <2> QED
    BY <1>2, <2>1, CurrentCampaignEffect DEF NewLookup, At, CurrentCampaign, Steps
<1> QED
  BY <1>1, <1>2

LEMMA CrashEffect ==
  ASSUME MemoryTypes, NEW p \in Proc, Crash(p)
  PROVE  /\ Local(p) /\ Running(p) /\ pc'[p] = "ended"
         /\ looked'[p] = None /\ camp'[p] = None
         /\ UNCHANGED <<links, tree, lock, past, wiped, cleans>>
         /\ witness' = witness \cup {q \in Proc : Creating(q)}
         /\ crashes < MaxCrashes /\ crashes' = crashes + 1
  BY EndEffect DEF Crash, DisturbCreation

-----------------------------------------------------------------------------
(***************************************************************************)
(* Types, and the number of campaigns.                                     *)
(***************************************************************************)
Act(p) == (\E k \in Kinds : Start(p, k)) \/ Step(p) \/ Crash(p)

LEMMA ActCases ==
  ASSUME NEW p \in Proc, Act(p)
  PROVE  \/ \E k \in Kinds : Start(p, k)
         \/ Lookup(p) \/ ReadManifest(p) \/ AcquireLock(p) \/ ReleaseLock(p)
         \/ NewLookup(p) \/ NewLock(p) \/ MakeDir(p) \/ Moves(p)
         \/ Scan(p) \/ RemoveLink(p) \/ OpenCampaign(p) \/ RemoveFile(p)
         \/ Crash(p)
  BY Zenon DEF Act, Step, EvalNew, CleanRuns, Moves

LEMMA NextIsAct == Next <=> \E p \in Proc : Act(p)
  BY Zenon DEF Next, Act

LEMMA TypesSplit == TypeOK => MemoryTypes
  BY DEF TypeOK, MemoryTypes

WorldTypes == /\ runsDir \in BOOLEAN
              /\ current \in Campaign \cup {None}
              /\ tmp \in Campaign \cup {None}
              /\ dirs \subseteq Campaign
              /\ files \in [Campaign -> SUBSET Entries]
              /\ lock \in [Campaign -> Proc \cup {None}]
              /\ made \in Campaign \cup {None}
              /\ past \subseteq Campaign
              /\ wiped \subseteq Campaign
              /\ witness \subseteq Proc
              /\ crashes \in 0..MaxCrashes
              /\ cleans \in Nat

LEMMA TypesJoin == MemoryTypes /\ WorldTypes <=> TypeOK
  BY DEF TypeOK, MemoryTypes, WorldTypes

LEMMA Counting == \A n, m \in Nat : n < m => n + 1 \in 0..m
  OBVIOUS

LEMMA CountingDown == \A n \in Nat : n > 0 => n - 1 \in Nat
  OBVIOUS

LEMMA ProcIsFinite == IsFiniteSet(Proc) /\ Cardinality(Proc) = MaxCommands
  BY FS_Interval, CampaignsAssumption DEF Proc

LEMMA MakersAreFinite ==
  /\ IsFiniteSet(MayStillMake) /\ Cardinality(MayStillMake) \in Nat
  /\ Cardinality(MayStillMake) <= MaxCommands
  BY ProcIsFinite, FS_Subset, FS_CardinalityType DEF MayStillMake

\* Who is about to make a campaign has a number for it.
LEMMA RoomForOne ==
  ASSUME TypeOK, NumbersSuffice, NEW p \in Proc, pc[p] = "makeDir"
  PROVE  made \in Nat /\ made + 1 \in Campaign
<1>1. p \in MayStillMake
  BY DEF MayStillMake
<1>2. Cardinality(MayStillMake) # 0
  BY <1>1, MakersAreFinite, FS_EmptySet
<1>3. made \in Nat
  BY CampaignsAssumption DEF TypeOK, Campaign, None
<1> QED
  BY <1>2, <1>3, MakersAreFinite, CampaignsAssumption DEF NumbersSuffice, Campaign

LEMMA MovesTypes ==
  ASSUME TypeOK, NEW p \in Proc, HasCampaign(p), Moves(p)
  PROVE  WorldTypes'
<1>1. camp[p] \in Campaign \cup {None} /\ Entries = {"manifest.json", "results"}
  BY DEF TypeOK, Entries
<1>2. CASE MakeRuns(p)
  BY <1>2 DEF TypeOK, WorldTypes, MakeRuns, links, history, bounds
<1>3. CASE WriteManifest(p)
  BY <1>3, <1>1 DEF TypeOK, WorldTypes, WriteManifest, PutFile, links, history, bounds
<1>4. CASE CheckTmp(p)
  BY <1>4 DEF TypeOK, WorldTypes, CheckTmp, links, tree, history, bounds
<1>5. CASE UnlinkTmp(p)
  BY <1>5 DEF TypeOK, WorldTypes, UnlinkTmp, tree, history, bounds
<1>6. CASE Symlink(p)
  <2>1. tmp' \in {camp[p], tmp}
    BY <1>6 DEF Symlink
  <2> QED
    BY <1>6, <1>1, <2>1 DEF TypeOK, WorldTypes, Symlink, tree, history, bounds
<1>7. CASE Rename(p)
  BY <1>7 DEF TypeOK, WorldTypes, Rename, tree, bounds
<1>8. CASE Work(p)
  <2>1. camp[p] \in Campaign
    BY <1>8, <1>1 DEF Work, At, HasCampaign
  <2>2. /\ runsDir' \in BOOLEAN
        /\ dirs' \subseteq Campaign /\ files' \in [Campaign -> SUBSET Entries]
    <3>1. \/ UNCHANGED <<runsDir, dirs, files>>
          \/ runsDir' = TRUE /\ dirs' = dirs \cup {camp[p]} /\ PutFile(camp[p], "results")
      BY <1>8 DEF Work
    <3>2. runsDir' \in BOOLEAN
      BY <3>1 DEF TypeOK
    <3>3. dirs' \subseteq Campaign
      BY <3>1, <2>1 DEF TypeOK
    <3>4. files' \in [Campaign -> SUBSET Entries]
      BY <3>1, <1>1, <2>1 DEF TypeOK, PutFile
    <3> QED
      BY <3>2, <3>3, <3>4
  <2> QED
    BY <1>8, <2>2 DEF TypeOK, WorldTypes, Work, links, history, bounds
<1>9. CASE WriteReport(p)
  BY <1>9, <1>1 DEF TypeOK, WorldTypes, WriteReport, PutFile, links, history, bounds
<1>10. CASE RemoveCampaign(p)
  BY <1>10 DEF TypeOK, WorldTypes, RemoveCampaign, DisturbCreation, links, bounds
<1>11. CASE RemoveRuns(p)
  <2>1. runsDir' \in BOOLEAN
    <3>1. (~ (dirs = {} /\ current = None /\ tmp = None)) \in BOOLEAN
      OBVIOUS
    <3> QED
      BY <1>11, <3>1, Zenon DEF RemoveRuns
  <2> QED
    BY <1>11, <2>1 DEF TypeOK, WorldTypes, RemoveRuns, DisturbCreation, links, bounds
<1> QED
  BY <1>2, <1>3, <1>4, <1>5, <1>6, <1>7, <1>8, <1>9, <1>10, <1>11 DEF Moves

\* The step of a command gives it a memory of the right type and leaves that of
\* the others alone.
LEMMA ActIsLocal ==
  ASSUME TypeOK, NumbersSuffice, NEW p \in Proc, Act(p)
  PROVE  Local(p)
<1>1. MemoryTypes
  BY TypesSplit
<1>2. CASE MakeDir(p)
  BY <1>1, <1>2, RoomForOne, MakeDirEffect DEF MakeDir, At
<1> QED
  BY <1>1, <1>2, ActCases, StartEffect, LookupEffect, ReadManifestEffect,
     AcquireLockEffect, ReleaseLockEffect, NewLookupEffect, NewLockEffect, MovesEffect,
     ScanEffect, RemoveLinkEffect, OpenCampaignEffect, RemoveFileEffect, CrashEffect

LEMMA ActTypes ==
  ASSUME TypeOK, NumbersSuffice, NEW p \in Proc, HasCampaign(p), Act(p)
  PROVE  TypeOK'
<1>1. MemoryTypes /\ WorldTypes
  BY TypesJoin
<1>2. WorldTypes'
  <2>1. CASE \E k \in Kinds : Start(p, k)
    <3>1. PICK k \in Kinds : Start(p, k)
      BY <2>1
    <3>2. \/ cleans' = cleans
          \/ cleans > 0 /\ cleans' = cleans - 1
      BY <3>1 DEF Start
    <3>3. cleans' \in Nat
      BY <3>2, CountingDown DEF TypeOK
    <3> QED
      BY <3>1, <3>3, <1>1, StartEffect DEF WorldTypes, links, tree, history
  <2>2. CASE Lookup(p) \/ ReadManifest(p) \/ NewLookup(p) \/ Scan(p) \/ OpenCampaign(p)
    <3>1. UNCHANGED <<links, tree, lock, history, bounds>>
      BY <2>2, <1>1, LookupEffect, ReadManifestEffect, NewLookupEffect, ScanEffect,
         OpenCampaignEffect
    <3> QED
      BY <3>1, <1>1 DEF WorldTypes, links, tree, history, bounds
  <2>3. CASE AcquireLock(p) \/ NewLock(p)
    <3>1. UNCHANGED <<links, tree, history, bounds>>
      BY <2>3, <1>1, AcquireLockEffect, NewLockEffect
    <3>2. lock' = lock \/ \E c : lock' = [lock EXCEPT ![c] = p]
      BY <2>3, <1>1, AcquireLockEffect, NewLockEffect
    <3>3. lock' \in [Campaign -> Proc \cup {None}]
      BY <3>2 DEF TypeOK
    <3> QED
      BY <3>1, <3>3, <1>1 DEF WorldTypes, links, tree, history, bounds
  <2>4. CASE ReleaseLock(p)
    <3>1. lock' \in [Campaign -> Proc \cup {None}]
      BY <2>4, <1>1, ReleaseLockEffect DEF TypeOK
    <3> QED
      BY <2>4, <3>1, <1>1, ReleaseLockEffect DEF WorldTypes, links, tree, history, bounds
  <2>5. CASE MakeDir(p)
    <3>1. made + 1 \in Campaign
      BY <2>5, RoomForOne DEF MakeDir, At
    <3>2. /\ made' \in Campaign \cup {None} /\ dirs' \subseteq Campaign
      BY <2>5, <3>1, <1>1, MakeDirEffect DEF TypeOK
    <3> QED
      BY <2>5, <3>2, <1>1 DEF WorldTypes, MakeDir, links, history, bounds
  <2>6. CASE Moves(p)
    BY <2>6, MovesTypes
  <2>7. CASE RemoveLink(p)
    BY <2>7, <1>1, RemoveLinkEffect DEF WorldTypes, tree, bounds
  <2>8. CASE RemoveFile(p)
    <3>1. camp[p] \in Campaign
      BY <2>8, <1>1, RemoveFileEffect DEF HasCampaign, TypeOK
    <3> QED
      BY <2>8, <3>1, <1>1, RemoveFileEffect DEF WorldTypes, links, bounds
  <2>9. CASE Crash(p)
    <3>1. crashes' \in 0..MaxCrashes
      <4>1. crashes < MaxCrashes /\ crashes' = crashes + 1
        BY <2>9, <1>1, CrashEffect
      <4> QED
        BY <4>1, Counting, CampaignsAssumption DEF TypeOK
    <3> QED
      BY <2>9, <3>1, <1>1, CrashEffect DEF WorldTypes, links, tree
  <2> QED
    BY <2>1, <2>2, <2>3, <2>4, <2>5, <2>6, <2>7, <2>8, <2>9, ActCases
<1>3. MemoryTypes'
  BY ActIsLocal DEF Local
<1> QED
  BY <1>2, <1>3, TypesJoin, PTL

\* Nobody comes back to where a campaign may still be made, and who makes one
\* goes on from there.
LEMMA ActCounts ==
  ASSUME TypeOK, NumbersSuffice, NEW p \in Proc, Act(p)
  PROVE  /\ MayStillMake' \subseteq MayStillMake
         /\ \/ made' = made
            \/ made' = made + 1 /\ p \in MayStillMake /\ p \notin MayStillMake'
<1>1. MemoryTypes /\ Local(p)
  BY TypesSplit, ActIsLocal
<1> DEFINE Making == {"idle", "lookup", "newLookup", "newLock", "makeRuns", "makeDir"}
<1>2. /\ pc'[p] \in Making => pc[p] \in Making
      /\ \/ made' = made
         \/ made' = made + 1 /\ pc[p] \in Making /\ pc'[p] \notin Making
  <2>1. CASE \E k \in Kinds : Start(p, k)
    BY <2>1, <1>1, StartEffect DEF tree
  <2>2. CASE Lookup(p) \/ ReadManifest(p) \/ NewLookup(p) \/ ReleaseLock(p)
    BY <2>2, <1>1, LookupEffect, ReadManifestEffect, NewLookupEffect,
       ReleaseLockEffect DEF tree
  <2>3. CASE AcquireLock(p)
    BY <2>3, <1>1, AcquireLockEffect DEF tree, FirstStep
  <2>4. CASE NewLock(p)
    BY <2>4, <1>1, NewLockEffect DEF tree
  <2>5. CASE MakeDir(p)
    BY <2>5, <1>1, RoomForOne, MakeDirEffect DEF MakeDir, At
  <2>6. CASE Moves(p)
    <3>1. pc'[p] \in Making => pc[p] \in Making
      BY <2>6, <1>1, MovesLead DEF Moves
    <3>2. made' = made
      BY <2>6 DEF Moves, MakeRuns, WriteManifest, CheckTmp, UnlinkTmp, Symlink, Rename,
                  Work, WriteReport, RemoveCampaign, RemoveRuns, tree
    <3> QED
      BY <3>1, <3>2
  <2>7. CASE Scan(p) \/ RemoveLink(p) \/ OpenCampaign(p) \/ RemoveFile(p)
    BY <2>7, <1>1, ScanEffect, RemoveLinkEffect, OpenCampaignEffect,
       RemoveFileEffect DEF tree
  <2>8. CASE Crash(p)
    BY <2>8, <1>1, CrashEffect DEF tree
  <2> QED
    BY <2>1, <2>2, <2>3, <2>4, <2>5, <2>6, <2>7, <2>8, ActCases
<1> QED
  BY <1>1, <1>2 DEF MayStillMake, Local, Remembers

LEMMA Fewer ==
  ASSUME NEW S, NEW T, IsFiniteSet(S), T \subseteq S
  PROVE  /\ Cardinality(T) \in Nat /\ Cardinality(S) \in Nat
         /\ Cardinality(T) <= Cardinality(S)
         /\ \A p \in S \ T : Cardinality(T) + 1 <= Cardinality(S)
<1>1. /\ IsFiniteSet(T) /\ Cardinality(T) \in Nat /\ Cardinality(S) \in Nat
      /\ Cardinality(T) <= Cardinality(S)
  BY FS_Subset, FS_CardinalityType
<1>2. ASSUME NEW p \in S \ T
      PROVE  Cardinality(T) + 1 <= Cardinality(S)
  <2>1. T \subseteq S \ {p}
    BY <1>2
  <2>2. IsFiniteSet(S \ {p}) /\ Cardinality(S \ {p}) = Cardinality(S) - 1
    BY <1>2, FS_RemoveElement
  <2>3. Cardinality(T) <= Cardinality(S) - 1
    BY <2>1, <2>2, FS_Subset
  <2> QED
    BY <1>1, <2>3
<1> QED
  BY <1>1, <1>2

LEMMA NumbersKept ==
  ASSUME TypeOK, NumbersSuffice, NEW p \in Proc, Act(p)
  PROVE  NumbersSuffice'
<1>1. /\ MayStillMake' \subseteq MayStillMake
      /\ \/ made' = made
         \/ made' = made + 1 /\ p \in MayStillMake \ MayStillMake'
  BY ActCounts
<1>2. /\ Cardinality(MayStillMake') \in Nat /\ Cardinality(MayStillMake) \in Nat
      /\ Cardinality(MayStillMake') <= Cardinality(MayStillMake)
      /\ \A q \in MayStillMake \ MayStillMake' :
            Cardinality(MayStillMake') + 1 <= Cardinality(MayStillMake)
  BY <1>1, MakersAreFinite, Fewer
<1>3. made \in Nat /\ MaxCommands \in Nat
  BY CampaignsAssumption DEF TypeOK, Campaign, None
<1>4. CASE made' = made
  BY <1>2, <1>3, <1>4 DEF NumbersSuffice
<1>5. CASE made' = made + 1 /\ p \in MayStillMake \ MayStillMake'
  BY <1>2, <1>3, <1>5 DEF NumbersSuffice
<1> QED
  BY <1>1, <1>4, <1>5

-----------------------------------------------------------------------------
(***************************************************************************)
(* Locks, and campaigns that stay whole.                                   *)
(***************************************************************************)
LEMMA HistoryGrows ==
  ASSUME TypeOK, NumbersSuffice, NEW p \in Proc, Act(p)
  PROVE  wiped \subseteq wiped' /\ witness \subseteq witness' /\ past \subseteq past'
<1>1. MemoryTypes
  BY TypesSplit
<1>2. CASE \/ \E k \in Kinds : Start(p, k)
           \/ Lookup(p) \/ ReadManifest(p) \/ AcquireLock(p) \/ ReleaseLock(p)
           \/ NewLookup(p) \/ NewLock(p) \/ Scan(p) \/ OpenCampaign(p)
  BY <1>1, <1>2, StartEffect, LookupEffect, ReadManifestEffect, AcquireLockEffect,
     ReleaseLockEffect, NewLookupEffect, NewLockEffect, ScanEffect, OpenCampaignEffect
     DEF history
<1>3. CASE RemoveLink(p) \/ RemoveFile(p) \/ Crash(p)
  BY <1>1, <1>3, RemoveLinkEffect, RemoveFileEffect, CrashEffect
<1>4. CASE MakeDir(p)
  BY <1>4 DEF MakeDir, history
<1>5. CASE Moves(p)
  BY <1>5 DEF Moves, MakeRuns, WriteManifest, CheckTmp, UnlinkTmp, Symlink, Rename, Work,
              WriteReport, RemoveCampaign, RemoveRuns, DisturbCreation, history
<1> QED
  BY <1>2, <1>3, <1>4, <1>5, ActCases

\* Nobody takes the lock of a command that runs, but eval-clean-runs wipes it.
LEMMA LockStays ==
  ASSUME TypeOK, NumbersSuffice, NEW p \in Proc, Act(p), NEW q \in Proc \ {p},
         NEW c \in Campaign, lock[c] = q, Running(q), c \notin wiped'
  PROVE  lock'[c] = q
<1>1. MemoryTypes /\ Owned(c)
  BY TypesSplit DEF Owned, Proc, None
<1>2. CASE \/ \E k \in Kinds : Start(p, k)
           \/ Lookup(p) \/ ReadManifest(p) \/ NewLookup(p)
           \/ Scan(p) \/ RemoveLink(p) \/ OpenCampaign(p) \/ Crash(p)
  BY <1>1, <1>2, StartEffect, LookupEffect, ReadManifestEffect, NewLookupEffect,
     ScanEffect, RemoveLinkEffect, OpenCampaignEffect, CrashEffect
<1>3. CASE AcquireLock(p) \/ NewLock(p)
  <2>1. \/ lock' = lock
        \/ \E d : ~ Owned(d) /\ lock' = [lock EXCEPT ![d] = p]
    BY <1>1, <1>3, AcquireLockEffect, NewLockEffect
  <2>2. ASSUME NEW d, ~ Owned(d), lock' = [lock EXCEPT ![d] = p]
        PROVE  lock'[c] = q
    <3>1. d # c
      BY <1>1, <2>2
    <3> QED
      BY <2>2, <3>1 DEF TypeOK
  <2> QED
    BY <2>1, <2>2
<1>4. CASE ReleaseLock(p)
  BY <1>1, <1>4, ReleaseLockEffect
<1>5. CASE RemoveFile(p)
  <2>1. c # camp[p]
    BY <1>1, <1>5, RemoveFileEffect
  <2> QED
    BY <1>1, <1>5, <2>1, RemoveFileEffect
<1>6. CASE MakeDir(p) \/ Moves(p)
  BY <1>6 DEF MakeDir, Moves, MakeRuns, WriteManifest, CheckTmp, UnlinkTmp, Symlink,
              Rename, Work, WriteReport, RemoveCampaign, RemoveRuns
<1> QED
  BY <1>2, <1>3, <1>4, <1>5, <1>6, ActCases

\* A campaign that is whole stays so, but for what eval-clean-runs takes.
LEMMA StaysWhole ==
  ASSUME TypeOK, NumbersSuffice, NEW p \in Proc, Act(p), NEW c \in Campaign, WasWhole(c)
  PROVE  WasWhole(c)'
<1>1. MemoryTypes
  BY TypesSplit
<1>2. SUFFICES ASSUME Whole(c), c \notin wiped'
               PROVE  Whole(c)'
  BY HistoryGrows DEF WasWhole
<1>3. c \in dirs /\ "manifest.json" \in files[c]
  BY <1>2 DEF Whole
<1>4. c \in dirs' /\ "manifest.json" \in files'[c]
  <2>1. CASE \/ \E k \in Kinds : Start(p, k)
             \/ Lookup(p) \/ ReadManifest(p) \/ AcquireLock(p) \/ ReleaseLock(p)
             \/ NewLookup(p) \/ NewLock(p) \/ Scan(p) \/ RemoveLink(p)
             \/ OpenCampaign(p) \/ Crash(p)
    <3>1. UNCHANGED tree
      BY <1>1, <2>1, StartEffect, LookupEffect, ReadManifestEffect, AcquireLockEffect,
         ReleaseLockEffect, NewLookupEffect, NewLockEffect, ScanEffect, RemoveLinkEffect,
         OpenCampaignEffect, CrashEffect
    <3> QED
      BY <1>3, <3>1 DEF tree
  <2>2. CASE MakeDir(p)
    BY <1>3, <2>2 DEF MakeDir
  <2>3. CASE RemoveFile(p)
    BY <1>1, <1>2, <1>3, <2>3, RemoveFileEffect
  <2>4. CASE RemoveCampaign(p)
    BY <1>3, <2>4 DEF RemoveCampaign
  <2>5. CASE WriteManifest(p) \/ Work(p) \/ WriteReport(p)
    <3>1. dirs \subseteq dirs'
      BY <2>5 DEF WriteManifest, Work, WriteReport
    <3>2. files' = files \/ \E d, e : PutFile(d, e)
      BY <2>5 DEF WriteManifest, Work, WriteReport
    <3>3. ASSUME NEW d, NEW e, PutFile(d, e)
          PROVE  files[c] \subseteq files'[c]
      BY <3>3 DEF PutFile, TypeOK
    <3> QED
      BY <1>3, <3>1, <3>2, <3>3
  <2>6. CASE MakeRuns(p) \/ CheckTmp(p) \/ UnlinkTmp(p) \/ Symlink(p) \/ Rename(p)
             \/ RemoveRuns(p)
    BY <1>3, <2>6 DEF MakeRuns, CheckTmp, UnlinkTmp, Symlink, Rename, RemoveRuns, tree
  <2> QED
    BY <2>1, <2>2, <2>3, <2>4, <2>5, <2>6, ActCases DEF Moves
<1> QED
  BY <1>4 DEF Whole

LEMMA HasCampaignKept ==
  ASSUME TypeOK, NumbersSuffice, \A q \in Proc : HasCampaign(q), NEW p \in Proc, Act(p)
  PROVE  \A q \in Proc : HasCampaign(q)'
<1>1. MemoryTypes /\ Local(p)
  BY TypesSplit, ActIsLocal
<1>2. HasCampaign(p)
  OBVIOUS
<1>3. HasCampaign(p)'
  <2>1. CASE \/ \E k \in Kinds : Start(p, k)
             \/ NewLookup(p) \/ NewLock(p) \/ MakeDir(p)
             \/ Scan(p) \/ RemoveLink(p) \/ Crash(p)
    <3>1. pc'[p] \notin {"work", "report", "removeCampaign", "readManifest", "lock"}
      BY <1>1, <2>1, StartEffect, NewLookupEffect, NewLockEffect, MakeDirEffect,
         RoomForOne, ScanEffect, RemoveLinkEffect, CrashEffect DEF MakeDir, At
    <3> QED
      BY <3>1 DEF HasCampaign
  <2>2. CASE Lookup(p)
    BY <1>1, <2>2, LookupEffect DEF HasCampaign
  <2>3. CASE ReadManifest(p)
    BY <1>1, <1>2, <2>3, ReadManifestEffect DEF HasCampaign, memory
  <2>4. CASE ReleaseLock(p)
    BY <1>1, <2>4, ReleaseLockEffect DEF HasCampaign
  <2>5. CASE AcquireLock(p)
    <3>1. CASE pc'[p] = "ended"
      BY <3>1 DEF HasCampaign
    <3>2. CASE pc'[p] # "ended"
      <4>1. camp[p] \in Campaign /\ UNCHANGED memory /\ pc'[p] = FirstStep(kind[p])
        BY <1>1, <2>5, <3>2, AcquireLockEffect DEF TypeOK
      <4>2. camp'[p] # None
        BY <4>1 DEF memory, Campaign, None
      <4>3. pc'[p] \notin {"readManifest", "lock"}
        BY <4>1 DEF FirstStep
      <4> QED
        BY <4>2, <4>3 DEF HasCampaign
    <3> QED
      BY <3>1, <3>2
  <2>6. CASE Moves(p)
    <3>1. UNCHANGED memory
      BY <1>1, <2>6, MovesEffect
    <3>2. /\ pc'[p] \notin {"removeCampaign", "readManifest", "lock", "work"}
          /\ pc'[p] = "report" => pc[p] = "work"
      BY <1>1, <2>6, MovesLead DEF Moves
    <3> QED
      BY <1>2, <3>1, <3>2 DEF HasCampaign, memory
  <2>7. CASE OpenCampaign(p)
    BY <1>1, <2>7, OpenCampaignEffect DEF HasCampaign
  <2>8. CASE RemoveFile(p)
    BY <1>1, <1>2, <2>8, RemoveFileEffect DEF HasCampaign
  <2> QED
    BY <2>1, <2>2, <2>3, <2>4, <2>5, <2>6, <2>7, <2>8, ActCases
<1>4. \A q \in Proc \ {p} : HasCampaign(q)'
  BY <1>1 DEF HasCampaign, Local, Remembers
<1> QED
  BY <1>3, <1>4

\* Who is about to replace a campaign came by its lock.
LEMMA HasLockKept ==
  ASSUME TypeOK, NumbersSuffice, NEW p \in Proc, Act(p), HasCampaign(p),
         \A q \in Proc : HasLock(q)
  PROVE  \A q \in Proc : HasLock(q)'
<1>1. MemoryTypes /\ Local(p) /\ wiped \subseteq wiped'
  BY TypesSplit, ActIsLocal, HistoryGrows
<1>2. HasLock(p)
  OBVIOUS
<1>3. HasLock(p)'
  <2>1. CASE (\E k \in Kinds : Start(p, k)) \/ ReadManifest(p) \/ ReleaseLock(p)
             \/ Crash(p)
    <3>1. pc'[p] \notin Replacing
      BY <1>1, <2>1, StartEffect, ReadManifestEffect, ReleaseLockEffect, CrashEffect
         DEF Replacing
    <3> QED
      BY <3>1 DEF HasLock
  <2>2. CASE Lookup(p) \/ NewLookup(p)
    <3>1. pc'[p] \in Replacing => looked'[p] = None
      BY <1>1, <2>2, LookupEffect, NewLookupEffect DEF Replacing
    <3> QED
      BY <3>1 DEF HasLock
  <2>3. CASE AcquireLock(p)
    <3>1. SUFFICES ASSUME pc'[p] \in Replacing
                   PROVE  lock'[looked'[p]] = p
      BY DEF HasLock
    <3>2. /\ camp[p] \in dirs /\ pc[p] = "lock" /\ pc'[p] = FirstStep(kind[p])
          /\ UNCHANGED memory /\ lock' = [lock EXCEPT ![camp[p]] = p]
      BY <1>1, <2>3, <3>1, AcquireLockEffect DEF Replacing
    <3>3. kind[p] = "eval-clean-runs"
      BY <3>1, <3>2 DEF FirstStep, Replacing
    <3>4. looked'[p] = camp[p] /\ camp[p] \in Campaign
      BY <3>2, <3>3 DEF HasCampaign, memory, TypeOK
    <3> QED
      BY <3>2, <3>4 DEF TypeOK
  <2>4. CASE NewLock(p)
    <3>1. SUFFICES ASSUME pc'[p] \in Replacing
                   PROVE  lock'[looked'[p]] = p
      BY DEF HasLock
    <3>2. /\ looked[p] \in dirs /\ UNCHANGED memory
          /\ lock' = [lock EXCEPT ![looked[p]] = p]
      BY <1>1, <2>4, <3>1, NewLockEffect DEF Replacing
    <3> QED
      BY <3>2 DEF TypeOK, memory
  <2>5. CASE Moves(p)
    <3>1. UNCHANGED <<memory, lock>>
      BY <1>1, <2>5, MovesEffect DEF Moves, MakeRuns, WriteManifest, CheckTmp, UnlinkTmp,
         Symlink, Rename, Work, WriteReport, RemoveCampaign, RemoveRuns
    <3>2. pc'[p] \in Replacing => pc[p] \in Replacing
      BY <1>1, <2>5, MovesLead DEF Moves, Replacing
    <3> QED
      BY <1>1, <1>2, <3>1, <3>2 DEF HasLock, memory
  <2>6. CASE MakeDir(p) \/ Scan(p) \/ RemoveLink(p) \/ OpenCampaign(p)
    <3>1. UNCHANGED <<looked, lock>> /\ pc[p] \in Replacing
      BY <1>1, <2>6, ScanEffect, RemoveLinkEffect, OpenCampaignEffect
         DEF MakeDir, At, Replacing
    <3> QED
      BY <1>1, <1>2, <3>1 DEF HasLock
  <2>7. CASE RemoveFile(p)
    <3>1. /\ looked' = looked /\ pc[p] \in Replacing /\ camp[p] \in wiped'
          /\ \A c \in Campaign \ {camp[p]} : lock'[c] = lock[c]
      BY <1>1, <2>7, RemoveFileEffect DEF Replacing
    <3> QED
      BY <1>1, <1>2, <3>1 DEF HasLock, MemoryTypes
  <2> QED
    BY <2>1, <2>2, <2>3, <2>4, <2>5, <2>6, <2>7, ActCases
<1>4. ASSUME NEW q \in Proc \ {p}
      PROVE  HasLock(q)'
  <2>1. SUFFICES ASSUME pc'[q] \in Replacing, looked'[q] # None, looked'[q] \notin wiped'
                 PROVE  lock'[looked'[q]] = q
    BY DEF HasLock
  <2>2. pc[q] \in Replacing /\ looked'[q] = looked[q]
    BY <1>1, <2>1 DEF Local, Remembers
  <2>3. /\ Running(q) /\ looked[q] \in Campaign /\ looked[q] \notin wiped'
        /\ lock[looked[q]] = q
    BY <1>1, <2>1, <2>2 DEF Running, Replacing, HasLock, MemoryTypes
  <2> QED
    BY <2>2, <2>3, LockStays
<1> QED
  BY <1>3, <1>4

-----------------------------------------------------------------------------
(***************************************************************************)
(* The links.                                                              *)
(***************************************************************************)
\* Four steps touch the links.
LEMMA LinksEffect ==
  ASSUME TypeOK, NumbersSuffice, NEW p \in Proc, Act(p)
  PROVE  \/ UNCHANGED <<links, past>>
         \/ UnlinkTmp(p) \/ Symlink(p) \/ Rename(p) \/ RemoveLink(p)
<1>1. MemoryTypes
  BY TypesSplit
<1>2. CASE \/ \E k \in Kinds : Start(p, k)
           \/ Lookup(p) \/ ReadManifest(p) \/ AcquireLock(p) \/ ReleaseLock(p)
           \/ NewLookup(p) \/ NewLock(p) \/ Scan(p) \/ OpenCampaign(p)
  BY <1>1, <1>2, StartEffect, LookupEffect, ReadManifestEffect, AcquireLockEffect,
     ReleaseLockEffect, NewLookupEffect, NewLockEffect, ScanEffect, OpenCampaignEffect
     DEF history
<1>3. CASE RemoveFile(p) \/ Crash(p)
  BY <1>1, <1>3, RemoveFileEffect, CrashEffect
<1>4. CASE MakeDir(p) \/ MakeRuns(p) \/ WriteManifest(p) \/ CheckTmp(p) \/ Work(p)
           \/ WriteReport(p) \/ RemoveCampaign(p) \/ RemoveRuns(p)
  BY <1>4 DEF MakeDir, MakeRuns, WriteManifest, CheckTmp, Work, WriteReport,
              RemoveCampaign, RemoveRuns, DisturbCreation, history
<1> QED
  BY <1>2, <1>3, <1>4, ActCases DEF Moves

\* Who has a campaign to link made it, or has it still.
LEMMA UnlinkedEffect ==
  ASSUME TypeOK, NumbersSuffice, NEW p \in Proc, Act(p), pc'[p] \in Unlinked
  PROVE  \/ MakeDir(p) /\ pc'[p] = "manifest"
         \/ /\ WriteManifest(p) \/ CheckTmp(p) \/ UnlinkTmp(p)
            /\ pc[p] \in Unlinked /\ pc'[p] # "manifest" /\ UNCHANGED memory
            /\ pc[p] = "manifest" => WriteManifest(p) /\ camp[p] \in dirs
<1>1. MemoryTypes
  BY TypesSplit
<1>2. CASE \/ \E k \in Kinds : Start(p, k)
           \/ Lookup(p) \/ ReadManifest(p) \/ ReleaseLock(p)
           \/ NewLookup(p) \/ NewLock(p) \/ Scan(p) \/ RemoveLink(p) \/ OpenCampaign(p)
           \/ RemoveFile(p) \/ Crash(p)
  <2>1. pc'[p] \notin Unlinked
    BY <1>1, <1>2, StartEffect, LookupEffect, ReadManifestEffect, ReleaseLockEffect,
       NewLookupEffect, NewLockEffect, ScanEffect, RemoveLinkEffect, OpenCampaignEffect,
       RemoveFileEffect, CrashEffect DEF Unlinked
  <2> QED
    BY <2>1
<1>3. CASE AcquireLock(p)
  BY <1>1, <1>3, AcquireLockEffect DEF FirstStep, Unlinked
<1>4. CASE MakeDir(p)
  BY <1>1, <1>4, RoomForOne, MakeDirEffect DEF MakeDir, At, Unlinked
<1>5. CASE Moves(p)
  <2>1. WriteManifest(p) \/ CheckTmp(p) \/ UnlinkTmp(p)
    BY <1>1, <1>5, MovesLead DEF Moves, Unlinked
  <2>2. /\ pc[p] \in Unlinked /\ pc'[p] # "manifest"
        /\ pc[p] = "manifest" => WriteManifest(p) /\ camp[p] \in dirs
    BY <1>1, <2>1, MovesLead DEF Unlinked
  <2> QED
    BY <1>1, <1>5, <2>1, <2>2, MovesEffect
<1> QED
  BY <1>2, <1>3, <1>4, <1>5, ActCases

\* WasWhole after the step.
StillWhole(c) == \/ c \in dirs' /\ "manifest.json" \in files'[c]
                 \/ c \in wiped'

LEMMA LinksWholeKept ==
  ASSUME TypeOK, NumbersSuffice, NEW p \in Proc, Act(p), LinksAreWhole
  PROVE  LinksAreWhole'
<1>1. MemoryTypes /\ Local(p)
  BY TypesSplit, ActIsLocal
<1>2. \A c \in Campaign : WasWhole(c) => StillWhole(c)
  BY StaysWhole DEF StillWhole, WasWhole, Whole
<1>3. \A c : WasWhole(c) => c \in Campaign
  BY DEF WasWhole, Whole, TypeOK
<1>4. \A c : WasWhole(c) => StillWhole(c)
  BY <1>2, <1>3
<1>5. current' # None => StillWhole(current')
  <2>1. current' \in {current, None, tmp}
    BY <1>1, LinksEffect, RemoveLinkEffect DEF links, UnlinkTmp, Symlink, Rename
  <2> QED
    BY <1>4, <2>1 DEF LinksAreWhole
<1>6. tmp' # None => StillWhole(tmp')
  <2>1. \/ tmp' \in {tmp, None}
        \/ pc[p] = "symlink" /\ tmp' = camp[p]
    BY <1>1, LinksEffect, RemoveLinkEffect, MovesLead DEF links, UnlinkTmp, Rename
  <2> QED
    BY <1>4, <2>1 DEF LinksAreWhole, Unlinked
<1>7. pc'[p] \in Unlinked \ {"manifest"} => StillWhole(camp'[p])
  <2>1. SUFFICES ASSUME pc'[p] \in Unlinked \ {"manifest"}
                 PROVE  StillWhole(camp'[p])
    OBVIOUS
  <2>2. /\ pc[p] \in Unlinked /\ camp'[p] = camp[p]
        /\ pc[p] = "manifest" => WriteManifest(p) /\ camp[p] \in dirs
    BY <2>1, UnlinkedEffect DEF memory
  <2>3. CASE pc[p] = "manifest"
    <3>1. /\ camp[p] \in Campaign /\ camp[p] \in dirs
          /\ PutFile(camp[p], "manifest.json") /\ dirs' = dirs
      BY <2>2, <2>3 DEF WriteManifest, TypeOK
    <3>2. camp'[p] \in dirs' /\ "manifest.json" \in files'[camp'[p]]
      BY <2>2, <3>1 DEF PutFile, TypeOK
    <3> QED
      BY <3>2 DEF StillWhole
  <2>4. CASE pc[p] # "manifest"
    BY <1>4, <2>2, <2>4 DEF LinksAreWhole
  <2> QED
    BY <2>3, <2>4
<1>8. \A q \in Proc \ {p} : pc'[q] \in Unlinked \ {"manifest"} => StillWhole(camp'[q])
  BY <1>1, <1>4 DEF LinksAreWhole, Local, Remembers
<1> QED
  BY <1>5, <1>6, <1>7, <1>8 DEF LinksAreWhole, StillWhole, WasWhole, Whole

LEMMA NumberAhead == \A n \in Nat, c \in Nat : c <= n => c <= n + 1 /\ c # n + 1
  OBVIOUS

\* A link is made by the command that made the campaign, and once.
LEMMA LinkedOnceKept ==
  ASSUME TypeOK, NumbersSuffice, NEW p \in Proc, Act(p), LinkedOnce
  PROVE  LinkedOnce'
<1>1. /\ MemoryTypes /\ Local(p)
      /\ made \in Nat /\ past \subseteq Nat /\ tmp \in Nat /\ camp \in [Proc -> Nat]
  <2>1. Campaign \subseteq Nat /\ None \in Nat
    BY CampaignsAssumption DEF Campaign, None
  <2> QED
    BY <2>1, TypesSplit, ActIsLocal DEF TypeOK
<1>2. made' \in Nat /\ \A c \in Nat : c <= made => c <= made'
  BY <1>1, ActCounts, NumberAhead
<1>3. \A q \in Proc \ {p} : pc'[q] = pc[q] /\ camp'[q] = camp[q]
  BY <1>1 DEF Local, Remembers
<1>4. \A q \in Proc : pc[q] \in Unlinked =>
         /\ camp[q] # None /\ camp[q] <= made /\ camp[q] \notin past /\ camp[q] # tmp
         /\ \A r \in Proc \ {q} : pc[r] \in Unlinked => camp[r] # camp[q]
  BY DEF LinkedOnce
<1>5. /\ \/ past' = past
         \/ Rename(p) /\ past' = past \cup ({tmp} \ {None})
      /\ \/ tmp' \in {tmp, None}
         \/ Symlink(p) /\ pc[p] = "symlink" /\ tmp' = camp[p]
      /\ Rename(p) => tmp' = None /\ pc'[p] \notin Unlinked
      /\ Symlink(p) => pc'[p] \notin Unlinked /\ past' = past
  <2>1. CASE UNCHANGED <<links, past>>
    <3>1. Rename(p) => tmp' = None /\ pc'[p] \notin Unlinked
      BY <1>1, MovesLead DEF Rename, Unlinked
    <3>2. Symlink(p) => pc'[p] \notin Unlinked
      BY <1>1, MovesLead DEF Unlinked
    <3> QED
      BY <2>1, <3>1, <3>2 DEF links
  <2>2. CASE UnlinkTmp(p)
    BY <1>1, <2>2, MovesLead DEF UnlinkTmp, history
  <2>3. CASE Symlink(p)
    BY <1>1, <2>3, MovesLead DEF Symlink, history, Unlinked
  <2>4. CASE Rename(p)
    BY <1>1, <2>4, MovesLead DEF Rename, Unlinked
  <2>5. CASE RemoveLink(p)
    BY <1>1, <2>5, RemoveLinkEffect, MovesLead DEF Unlinked
  <2> QED
    BY <2>1, <2>2, <2>3, <2>4, <2>5, LinksEffect
<1>6. \A c \in past' : c <= made'
  BY <1>1, <1>2, <1>5 DEF LinkedOnce
<1>7. tmp' # None => tmp' \notin past' /\ tmp' <= made'
  <2>1. CASE tmp' = tmp /\ past' = past
    BY <1>1, <1>2, <2>1 DEF LinkedOnce
  <2>2. CASE Symlink(p) /\ pc[p] = "symlink" /\ tmp' = camp[p]
    BY <1>1, <1>2, <1>4, <1>5, <2>2 DEF Unlinked
  <2> QED
    BY <1>5, <2>1, <2>2
<1>8. ASSUME NEW q \in Proc, pc[q] \in Unlinked, pc'[q] \in Unlinked, camp'[q] = camp[q]
      PROVE  /\ camp[q] # None /\ camp[q] <= made'
             /\ camp[q] \notin past' /\ camp[q] # tmp'
  <2>1. /\ camp[q] # None /\ camp[q] <= made /\ camp[q] \notin past /\ camp[q] # tmp
        /\ \A r \in Proc \ {q} : pc[r] \in Unlinked => camp[r] # camp[q]
    BY <1>4, <1>8
  <2>2. camp[q] <= made' /\ camp[q] \notin past'
    BY <1>1, <1>2, <1>5, <2>1
  <2>3. camp[q] # tmp'
    BY <1>5, <1>8, <2>1 DEF Unlinked
  <2> QED
    BY <2>1, <2>2, <2>3
<1>9. CASE pc'[p] \in Unlinked => pc[p] \in Unlinked /\ camp'[p] = camp[p]
  <2>1. \A q \in Proc : pc'[q] \in Unlinked => pc[q] \in Unlinked /\ camp'[q] = camp[q]
    BY <1>3, <1>9
  <2>2. \A q \in Proc : pc'[q] \in Unlinked =>
           \A r \in Proc \ {q} : pc'[r] \in Unlinked => camp'[r] # camp'[q]
    BY <1>4, <2>1
  <2> QED
    BY <1>6, <1>7, <1>8, <2>1, <2>2 DEF LinkedOnce
<1>10. CASE MakeDir(p) /\ pc'[p] = "manifest"
  <2>1. camp'[p] = made + 1 /\ made' = made + 1
    BY <1>1, <1>10, RoomForOne, MakeDirEffect DEF MakeDir, At
  <2>2. UNCHANGED <<tmp, past>>
    BY <1>10 DEF MakeDir, links, history
  <2>3. /\ camp'[p] # None /\ camp'[p] <= made' /\ camp'[p] \notin past'
        /\ camp'[p] # tmp'
    <3>1. camp'[p] # None /\ camp'[p] <= made'
      BY <1>1, <2>1 DEF None
    <3>2. camp'[p] \notin past'
      BY <1>1, <2>1, <2>2, NumberAhead DEF LinkedOnce
    <3>3. camp'[p] # tmp'
      BY <1>1, <2>1, <2>2, NumberAhead DEF LinkedOnce, None
    <3> QED
      BY <3>1, <3>2, <3>3
  <2>4. \A q \in Proc \ {p} : pc'[q] \in Unlinked => camp'[q] # camp'[p]
    BY <1>1, <1>3, <1>4, <2>1, NumberAhead
  <2>5. \A q \in Proc \ {p} : pc'[q] \in Unlinked =>
           \A r \in Proc \ {q} : pc'[r] \in Unlinked => camp'[r] # camp'[q]
    BY <1>3, <1>4, <2>4
  <2> QED
    BY <1>3, <1>6, <1>7, <1>8, <2>3, <2>4, <2>5 DEF LinkedOnce
<1> QED
  BY <1>9, <1>10, UnlinkedEffect DEF memory

-----------------------------------------------------------------------------
(***************************************************************************)
(* Creators.                                                               *)
(***************************************************************************)
\* Where a creator comes from and where it goes.
LEMMA CreatingEffect ==
  ASSUME TypeOK, NumbersSuffice, NEW p \in Proc, Act(p), Creating(p) \/ Creating(p)'
  PROVE  \/ MakeRuns(p) \/ MakeDir(p) \/ WriteManifest(p) \/ CheckTmp(p)
         \/ UnlinkTmp(p) \/ Symlink(p) \/ Rename(p) \/ Crash(p)
<1>1. MemoryTypes
  BY TypesSplit
<1>2. CASE \/ \E k \in Kinds : Start(p, k)
           \/ Lookup(p) \/ ReadManifest(p) \/ ReleaseLock(p) \/ NewLookup(p)
           \/ NewLock(p) \/ Scan(p) \/ RemoveLink(p) \/ OpenCampaign(p) \/ RemoveFile(p)
  <2>1. ~ Creating(p) /\ ~ Creating(p)'
    BY <1>1, <1>2, StartEffect, LookupEffect, ReadManifestEffect, ReleaseLockEffect,
       NewLookupEffect, NewLockEffect, ScanEffect, RemoveLinkEffect, OpenCampaignEffect,
       RemoveFileEffect DEF Creating
  <2> QED
    BY <2>1
<1>3. CASE AcquireLock(p)
  <2>1. ~ Creating(p) /\ ~ Creating(p)'
    BY <1>1, <1>3, AcquireLockEffect DEF FirstStep, Creating
  <2> QED
    BY <2>1
<1>4. CASE Work(p) \/ WriteReport(p) \/ RemoveCampaign(p) \/ RemoveRuns(p)
  <2>1. ~ Creating(p) /\ ~ Creating(p)'
    BY <1>1, <1>4, MovesLead DEF Creating
  <2> QED
    BY <2>1
<1> QED
  BY <1>2, <1>3, <1>4, ActCases DEF Moves

\* The steps that disturb creators.
Disturbs(p) == RemoveLink(p) \/ RemoveCampaign(p) \/ RemoveRuns(p) \/ Crash(p)

LEMMA DisturbsEffect ==
  ASSUME TypeOK, NumbersSuffice, NEW p \in Proc, Act(p), Disturbs(p)
  PROVE  \A q \in Proc : Creating(q)' => q \in witness'
<1>1. MemoryTypes /\ Local(p)
  BY TypesSplit, ActIsLocal
<1>2. witness' = witness \cup {q \in Proc : Creating(q)}
  BY <1>1, RemoveLinkEffect, CrashEffect
     DEF Disturbs, RemoveCampaign, RemoveRuns, DisturbCreation
<1>3. ~ Creating(p)'
  BY <1>1, RemoveLinkEffect, CrashEffect, MovesLead DEF Disturbs, Creating
<1>4. \A q \in Proc \ {p} : Creating(q)' => Creating(q)
  BY <1>1 DEF Creating, Local, Remembers
<1> QED
  BY <1>2, <1>3, <1>4

LEMMA TreeGrows ==
  ASSUME TypeOK, NumbersSuffice, NEW p \in Proc, Act(p), ~ Disturbs(p)
  PROVE  (runsDir => runsDir') /\ dirs \subseteq dirs'
<1>1. MemoryTypes
  BY TypesSplit
<1>2. CASE \/ \E k \in Kinds : Start(p, k)
           \/ Lookup(p) \/ ReadManifest(p) \/ AcquireLock(p) \/ ReleaseLock(p)
           \/ NewLookup(p) \/ NewLock(p) \/ Scan(p) \/ OpenCampaign(p)
  <2>1. UNCHANGED tree
    BY <1>1, <1>2, StartEffect, LookupEffect, ReadManifestEffect, AcquireLockEffect,
       ReleaseLockEffect, NewLookupEffect, NewLockEffect, ScanEffect, OpenCampaignEffect
  <2> QED
    BY <2>1 DEF tree
<1>3. CASE RemoveFile(p)
  BY <1>1, <1>3, RemoveFileEffect
<1>4. CASE MakeDir(p)
  BY <1>4 DEF MakeDir
<1>5. CASE Moves(p)
  <2>1. CASE Work(p)
    <3>1. \/ UNCHANGED <<runsDir, dirs>>
          \/ runsDir' = TRUE /\ dirs' = dirs \cup {camp[p]}
      BY <2>1 DEF Work
    <3> QED
      BY <3>1
  <2>2. CASE MakeRuns(p) \/ WriteManifest(p) \/ CheckTmp(p) \/ UnlinkTmp(p) \/ Symlink(p)
             \/ Rename(p) \/ WriteReport(p)
    BY <2>2 DEF MakeRuns, WriteManifest, CheckTmp, UnlinkTmp, Symlink, Rename, WriteReport,
                tree
  <2> QED
    BY <1>5, <2>1, <2>2 DEF Moves, Disturbs
<1> QED
  BY <1>2, <1>3, <1>4, <1>5, ActCases DEF Disturbs

\* What a creator stands on stays.
LEMMA GroundKept ==
  ASSUME TypeOK, NumbersSuffice, NEW p \in Proc, Act(p), ~ Disturbs(p),
         NEW q \in Proc, Undisturbed(q), Creating(q)', q \notin witness'
  PROVE  runsDir' /\ (pc'[q] # "makeDir" => camp'[q] \in dirs')
<1>1. /\ MemoryTypes /\ Local(p) /\ witness \subseteq witness'
      /\ runsDir => runsDir'
      /\ dirs \subseteq dirs'
  BY TypesSplit, ActIsLocal, HistoryGrows, TreeGrows
<1>2. CASE Creating(q) /\ camp'[q] = camp[q] /\ (pc'[q] # "makeDir" => pc[q] # "makeDir")
  <2>1. runsDir /\ (pc[q] # "makeDir" => camp[q] \in dirs)
    BY <1>1, <1>2 DEF Undisturbed
  <2> QED
    BY <1>1, <1>2, <2>1
<1>3. CASE q # p
  BY <1>1, <1>2, <1>3 DEF Local, Remembers, Creating
<1>4. CASE q = p /\ MakeRuns(p)
  BY <1>1, <1>4, MovesLead DEF MakeRuns
<1>5. CASE q = p /\ MakeDir(p)
  <2>1. runsDir
    BY <1>1, <1>5, RoomForOne, MakeDirEffect DEF MakeDir, At, Creating
  <2>2. camp'[p] = made + 1 /\ dirs' = dirs \cup {made + 1}
    BY <1>1, <1>5, <2>1, RoomForOne, MakeDirEffect DEF MakeDir, At
  <2> QED
    BY <1>1, <1>5, <2>1, <2>2
<1>6. CASE /\ q = p
           /\ WriteManifest(p) \/ CheckTmp(p) \/ UnlinkTmp(p) \/ Symlink(p) \/ Rename(p)
  <2>1. UNCHANGED memory
    BY <1>1, <1>6, MovesEffect DEF Moves
  <2>2. Creating(p) /\ pc[p] # "makeDir"
    BY <1>1, <1>6, MovesLead DEF Creating
  <2> QED
    BY <1>2, <1>6, <2>1, <2>2 DEF memory
<1> QED
  BY <1>3, <1>4, <1>5, <1>6, CreatingEffect DEF Disturbs

LEMMA UndisturbedKept ==
  ASSUME TypeOK, NumbersSuffice, LinkedOnce, NEW p \in Proc, Act(p),
         \A q \in Proc : Undisturbed(q)
  PROVE  \A q \in Proc : Undisturbed(q)'
<1>1. /\ MemoryTypes /\ Local(p) /\ witness \subseteq witness'
  BY TypesSplit, ActIsLocal, HistoryGrows
<1>2. CASE Disturbs(p)
  BY <1>2, DisturbsEffect DEF Undisturbed
<1>3. CASE ~ Disturbs(p)
  <2>1. SUFFICES ASSUME NEW q \in Proc, Creating(q)', q \notin witness'
                 PROVE  Undisturbed(q)'
    BY DEF Undisturbed
  <2>2. runsDir' /\ (pc'[q] # "makeDir" => camp'[q] \in dirs')
    BY <1>3, <2>1, GroundKept
  <2>3. \/ UNCHANGED <<current, tmp>>
        \/ UnlinkTmp(p) \/ Symlink(p) \/ Rename(p)
    BY <1>3, LinksEffect DEF links, Disturbs
  <2>4. \A r \in Proc \ {p} : pc'[r] = pc[r]
    BY <1>1 DEF Local, Remembers
  <2>5. Symlink(p) /\ runsDir /\ tmp = None => tmp' # None /\ pc'[p] = "rename"
    BY <1>1, MovesLead DEF LinkedOnce, Unlinked
  <2>6. pc'[p] = "unlinkTmp" => tmp # None /\ tmp' = tmp
    <3>1. pc'[p] = "unlinkTmp" => CheckTmp(p)
      BY <1>1, <1>3, CreatingEffect, MovesLead, RoomForOne, MakeDirEffect
         DEF Creating, MakeDir, At, Disturbs
    <3> QED
      BY <1>1, <3>1, MovesLead DEF CheckTmp, links
  <2>7. pc'[p] = "rename" => tmp' # None
    <3>1. pc'[p] = "rename" => Symlink(p) /\ runsDir /\ tmp = None
      BY <1>1, <1>3, CreatingEffect, MovesLead, RoomForOne, MakeDirEffect
         DEF Creating, MakeDir, At, Disturbs
    <3> QED
      BY <2>5, <3>1
  <2>8. pc'[p] = "symlink" => tmp' = None
    <3>1. pc'[p] = "symlink" => (CheckTmp(p) /\ tmp = None) \/ UnlinkTmp(p)
      BY <1>1, <1>3, CreatingEffect, MovesLead, RoomForOne, MakeDirEffect
         DEF Creating, MakeDir, At, Disturbs
    <3> QED
      BY <3>1 DEF CheckTmp, UnlinkTmp, links
  <2>9. ASSUME current' = None, pc'[q] \in {"unlinkTmp", "rename"}, tmp' = None
        PROVE  \E r \in Proc : pc'[r] = "symlink"
    <3>1. q # p /\ pc'[q] = pc[q]
      BY <2>4, <2>6, <2>7, <2>9
    <3>2. current = None
      BY <2>3, <2>9 DEF UnlinkTmp, Symlink, Rename
    <3>3. CASE tmp = None
      <4>1. runsDir /\ \E r \in Proc : pc[r] = "symlink"
        BY <1>1, <2>1, <2>9, <3>1, <3>2, <3>3 DEF Undisturbed, Creating
      <4>2. PICK r \in Proc : pc[r] = "symlink"
        BY <4>1
      <4>3. CASE r = p
        <5>1. Symlink(p)
          BY <1>1, <1>3, <4>2, <4>3, CreatingEffect, MovesLead
             DEF Creating, MakeDir, At, Disturbs
        <5> QED
          BY <2>5, <2>9, <3>3, <4>1, <5>1
      <4> QED
        BY <2>4, <4>2, <4>3
    <3>4. CASE tmp # None
      <4>1. UnlinkTmp(p)
        BY <2>3, <2>9, <3>2, <3>4 DEF Symlink, Rename
      <4> QED
        BY <1>1, <3>4, <4>1, MovesLead
    <3> QED
      BY <3>3, <3>4
  <2>10. ASSUME current' = None, pc'[q] = "symlink", tmp' # None
         PROVE  \E r \in Proc : pc'[r] = "rename"
    <3>1. q # p /\ pc'[q] = pc[q]
      BY <2>4, <2>8, <2>10
    <3>2. current = None
      BY <2>3, <2>10 DEF UnlinkTmp, Symlink, Rename
    <3>3. CASE tmp # None
      <4>1. PICK r \in Proc : pc[r] = "rename"
        BY <1>1, <2>1, <2>10, <3>1, <3>2, <3>3 DEF Undisturbed, Creating
      <4>2. CASE r = p
        <5>1. Rename(p)
          BY <1>1, <1>3, <4>1, <4>2, CreatingEffect, MovesLead
             DEF Creating, MakeDir, At, Disturbs
        <5> QED
          BY <2>10, <5>1 DEF Rename
      <4> QED
        BY <2>4, <4>1, <4>2
    <3>4. CASE tmp = None
      <4>1. Symlink(p)
        BY <2>3, <2>10, <3>4 DEF UnlinkTmp, Rename
      <4>2. runsDir
        BY <2>10, <3>4, <4>1 DEF Symlink
      <4> QED
        BY <2>5, <3>4, <4>1, <4>2
    <3> QED
      BY <3>3, <3>4
  <2> QED
    BY <2>2, <2>9, <2>10 DEF Undisturbed
<1> QED
  BY <1>2, <1>3

-----------------------------------------------------------------------------
(***************************************************************************)
(* The invariant.                                                          *)
(***************************************************************************)
LEMMA InitInv == Init => CampInv
<1> SUFFICES ASSUME Init
             PROVE  CampInv
  OBVIOUS
<1>1. PICK s \in Scenarios : /\ current = s.campaigns
                             /\ pc = [p \in Proc |-> IF p <= s.commands THEN "idle"
                                                                       ELSE "ended"]
                             /\ cleans = s.cleans
  BY DEF Init
<1>2. /\ MaxCommands \in Nat /\ MaxCrashes \in Nat
      /\ s \in [campaigns : 0..1, commands : 0..MaxCommands, cleans : Nat]
  BY <1>1, CampaignsAssumption
<1>3. current \in 0..1 /\ cleans \in Nat /\ made = current /\ 1 \in Campaign
  BY <1>1, <1>2 DEF Init, Campaign
<1>4. current \in Campaign \cup {None} /\ made \in Campaign \cup {None}
  BY <1>3 DEF None
<1>5. pc \in [Proc -> Steps] /\ \A p \in Proc : pc[p] \in {"idle", "ended"}
  BY <1>1 DEF Steps
<1>6. TypeOK
  <2>1. WorldTypes
    <3>1. runsDir \in BOOLEAN
      <4>1. (current # None) \in BOOLEAN
        OBVIOUS
      <4> QED
        BY <4>1, Zenon DEF Init
    <3>2. crashes \in 0..MaxCrashes
      BY <1>2 DEF Init
    <3>3. files \in [Campaign -> SUBSET Entries]
      BY DEF Init, Entries
    <3> QED
      BY <1>3, <1>4, <3>1, <3>2, <3>3 DEF Init, WorldTypes
  <2>2. MemoryTypes
    BY <1>5 DEF Init, MemoryTypes, Kinds
  <2> QED
    BY <2>1, <2>2, TypesJoin
<1>7. NumbersSuffice
  BY <1>2, <1>3, MakersAreFinite DEF NumbersSuffice
<1>8. ASSUME NEW p \in Proc
      PROVE  HasCampaign(p) /\ HasLock(p) /\ Undisturbed(p)
  <2>1. pc[p] \in {"idle", "ended"}
    BY <1>5
  <2> QED
    BY <2>1 DEF HasCampaign, HasLock, Undisturbed, Replacing, Creating
<1>9. LinksAreWhole
  <2>1. current # None => WasWhole(current)
    BY <1>4 DEF Init, WasWhole, Whole
  <2> QED
    BY <1>5, <2>1 DEF Init, LinksAreWhole, Unlinked
<1>10. LinkedOnce
  BY <1>3, <1>5 DEF Init, LinkedOnce, Unlinked
<1> QED
  BY <1>6, <1>7, <1>8, <1>9, <1>10 DEF CampInv

LEMMA ActInv ==
  ASSUME CampInv, NEW p \in Proc, Act(p)
  PROVE  CampInv'
<1>1. /\ TypeOK /\ NumbersSuffice /\ LinksAreWhole /\ LinkedOnce
      /\ \A q \in Proc : HasCampaign(q)
      /\ \A q \in Proc : HasLock(q)
      /\ \A q \in Proc : Undisturbed(q)
  BY DEF CampInv
<1>2. TypeOK' /\ NumbersSuffice' /\ LinksAreWhole' /\ LinkedOnce'
  BY <1>1, ActTypes, NumbersKept, LinksWholeKept, LinkedOnceKept
<1>3. /\ \A q \in Proc : HasCampaign(q)'
      /\ \A q \in Proc : HasLock(q)'
      /\ \A q \in Proc : Undisturbed(q)'
  BY <1>1, HasCampaignKept, HasLockKept, UndisturbedKept
<1> QED
  BY <1>2, <1>3 DEF CampInv

LEMMA StutterInv == CampInv /\ UNCHANGED vars => CampInv'
  BY DEF CampInv, vars, links, tree, memory, history, bounds, TypeOK, NumbersSuffice,
         MayStillMake, HasCampaign, HasLock, LinksAreWhole, WasWhole, Whole, LinkedOnce,
         Undisturbed, Creating

LEMMA StepInv == CampInv /\ [Next]_vars => CampInv'
  BY ActInv, StutterInv, NextIsAct

LEMMA Invariant == Spec => []CampInv
  BY InitInv, StepInv, PTL DEF Spec

\* Every variable stays in its type.
THEOREM TypeCorrect == Spec => []TypeOK
<1>1. CampInv => TypeOK
  BY DEF CampInv
<1> QED
  BY <1>1, Invariant, PTL

\* CURRENT never points to a campaign without its manifest, unless
\* eval-clean-runs took it apart.
THEOREM CurrentCampaignIsWhole == Spec => []CurrentIsWhole
<1>1. CampInv => CurrentIsWhole
  BY DEF CampInv, LinksAreWhole, WasWhole, CurrentIsWhole
<1> QED
  BY <1>1, Invariant, PTL

-----------------------------------------------------------------------------
(***************************************************************************)
(* What a step never does.                                                 *)
(***************************************************************************)
LEMMA RefineInit == Init => Pointer!Init
<1> SUFFICES ASSUME Init
             PROVE  current \in Campaign \cup {None} /\ past = {current} \ {None}
  BY DEF Pointer!Init
<1> QED
  BY InitInv DEF Init, CampInv, TypeOK

LEMMA RefineStep == CampInv /\ [Next]_vars => [Pointer!Next]_(Pointer!vars)
<1> SUFFICES ASSUME CampInv, [Next]_vars
             PROVE  Pointer!Next \/ UNCHANGED <<current, past>>
  BY DEF Pointer!vars
<1>1. TypeOK /\ NumbersSuffice /\ LinkedOnce /\ MemoryTypes
  BY TypesSplit DEF CampInv
<1>2. CASE UNCHANGED vars
  BY <1>2 DEF vars, links, history
<1>3. ASSUME NEW p \in Proc, Act(p)
      PROVE  Pointer!Next \/ UNCHANGED <<current, past>>
  <2>1. CASE UNCHANGED <<links, past>>
    BY <2>1 DEF links
  <2>2. CASE UnlinkTmp(p)
    BY <2>2 DEF UnlinkTmp, history
  <2>3. CASE Symlink(p)
    BY <2>3 DEF Symlink, history
  <2>4. CASE Rename(p)
    <3>1. CASE tmp = None
      BY <2>4, <3>1 DEF Rename
    <3>2. CASE tmp # None
      <4>1. tmp \in Campaign /\ tmp \notin past /\ current' = tmp /\ past' = past \cup {tmp}
        BY <1>1, <2>4, <3>2 DEF Rename, TypeOK, LinkedOnce
      <4>2. Pointer!Swing(tmp)
        BY <4>1 DEF Pointer!Swing
      <4> QED
        BY <4>1, <4>2 DEF Pointer!Next
    <3> QED
      BY <3>1, <3>2
  <2>5. CASE RemoveLink(p)
    BY <1>1, <2>5, RemoveLinkEffect DEF Pointer!Next, Pointer!Drop
  <2> QED
    BY <1>1, <1>3, <2>1, <2>2, <2>3, <2>4, <2>5, LinksEffect
<1> QED
  BY <1>2, <1>3, NextIsAct

\* CURRENT moves as CampaignPointer says: to a campaign that was never current,
\* or away altogether, whatever commands find in CURRENT.tmp.
THEOREM PointerRefinement == Spec => ImplementsCampaignPointer
  BY Invariant, RefineInit, RefineStep, PTL DEF Spec, ImplementsCampaignPointer, Pointer!Spec

\* A command that takes from a campaign others work in never looked it up: it
\* would have the lock.
LEMMA LeftAloneStep ==
  ASSUME CampInv, [Next]_vars, NEW p \in Proc, NEW c \in Campaign \ wiped, Working(p, c),
         \/ current = c /\ current' # c
         \/ ~ files[c] \subseteq files'[c]
         \/ lock'[c] # p
  PROVE  \E q \in Proc : Acts(q) /\ (q = p \/ looked[q] # c)
<1>1. /\ TypeOK /\ NumbersSuffice /\ MemoryTypes
      /\ \A q \in Proc : HasLock(q)
  BY TypesSplit DEF CampInv
<1>2. lock[c] = p /\ pc[p] \in {"work", "report"} /\ c # None
  BY DEF Working, Campaign, None
<1>3. ~ UNCHANGED vars
  BY <1>2 DEF vars, links, tree
<1>4. PICK a \in Proc : Act(a)
  BY <1>3, NextIsAct
<1>5. CASE a = p
  <2>1. pc'[p] # pc[p]
    BY <1>1, <1>2, <1>4, <1>5, ActCases, StartEffect, LookupEffect, ReadManifestEffect,
       AcquireLockEffect, ReleaseLockEffect, NewLookupEffect, NewLockEffect, MovesLead,
       ScanEffect, RemoveLinkEffect, OpenCampaignEffect, RemoveFileEffect, CrashEffect
       DEF MakeDir, At, Moves
  <2> QED
    BY <2>1 DEF Acts
<1>6. CASE a # p
  <2>1. ASSUME looked[a] = c
        PROVE  pc[a] \notin Replacing
    BY <1>1, <1>2, <1>6, <2>1 DEF HasLock
  <2>2. CASE current = c /\ current' # c
    <3>1. Rename(a) \/ RemoveLink(a)
      BY <1>1, <1>4, <2>2, LinksEffect DEF links, UnlinkTmp, Symlink
    <3>2. Acts(a) /\ pc[a] \in Replacing
      BY <1>1, <3>1, MovesLead, RemoveLinkEffect DEF Acts, Replacing
    <3> QED
      BY <2>1, <3>2
  <2>3. CASE RemoveFile(a)
    <3>1. Acts(a) /\ pc[a] \in Replacing
      BY <1>1, <2>3, RemoveFileEffect DEF Acts, Replacing
    <3> QED
      BY <2>1, <3>1
  <2>4. CASE ~ RemoveFile(a) /\ ~ files[c] \subseteq files'[c]
    <3>1. files' = files \/ \E d, e : PutFile(d, e)
      BY <1>1, <1>4, <2>4, ActCases, StartEffect, LookupEffect, ReadManifestEffect,
         AcquireLockEffect, ReleaseLockEffect, NewLookupEffect, NewLockEffect, ScanEffect,
         RemoveLinkEffect, OpenCampaignEffect, CrashEffect
         DEF Moves, MakeRuns, MakeDir, WriteManifest, CheckTmp, UnlinkTmp, Symlink, Rename,
             Work, WriteReport, RemoveCampaign, RemoveRuns, tree
    <3>2. ASSUME NEW d, NEW e, PutFile(d, e)
          PROVE  files[c] \subseteq files'[c]
      BY <1>1, <3>2 DEF PutFile, TypeOK
    <3> QED
      BY <2>4, <3>1, <3>2
  <2>5. CASE ~ RemoveFile(a) /\ lock'[c] # p
    <3>1. wiped' = wiped
      BY <1>1, <1>4, <2>5, ActCases, StartEffect, LookupEffect, ReadManifestEffect,
         AcquireLockEffect, ReleaseLockEffect, NewLookupEffect, NewLockEffect, ScanEffect,
         RemoveLinkEffect, OpenCampaignEffect, CrashEffect
         DEF Moves, MakeRuns, MakeDir, WriteManifest, CheckTmp, UnlinkTmp, Symlink, Rename,
             Work, WriteReport, RemoveCampaign, RemoveRuns, DisturbCreation, history
    <3>2. Running(p)
      BY <1>2 DEF Running
    <3> QED
      BY <1>1, <1>2, <1>4, <1>6, <2>5, <3>1, <3>2, LockStays
  <2> QED
    BY <2>2, <2>3, <2>4, <2>5
<1> QED
  BY <1>5, <1>6

\* Who works in a campaign under its lock is left alone by everybody who looked
\* CURRENT up at the same campaign.
THEOREM LockProtectsCampaign == Spec => LockedCampaignLeftAlone
<1>1. CampInv /\ [Next]_vars =>
         [\A p \in Proc, c \in Campaign \ wiped :
             /\ Working(p, c)
             /\ \/ current = c /\ current' # c
                \/ ~ files[c] \subseteq files'[c]
                \/ lock'[c] # p
             => \E q \in Proc : Acts(q) /\ (q = p \/ looked[q] # c)]_vars
  BY LeftAloneStep
<1> QED
  BY <1>1, Invariant, PTL DEF Spec, LockedCampaignLeftAlone

LEMMA GivesWayStep ==
  ASSUME CampInv, [Next]_vars, NEW p \in Proc \ witness, Creating(p), At(p, "release")'
  PROVE  current # None \/ \E q \in Proc \ {p} : Creating(q)
<1>1. TypeOK /\ NumbersSuffice /\ MemoryTypes /\ Undisturbed(p)
  BY TypesSplit DEF CampInv
<1>2. pc'[p] = "release" /\ pc[p] # "release"
  BY DEF At, Creating
<1>3. PICK a \in Proc : Act(a)
  BY <1>2, NextIsAct DEF vars
<1>4. a = p
  BY <1>1, <1>2, <1>3, ActIsLocal DEF Local, Remembers
<1>5. SUFFICES ASSUME current = None
               PROVE  \E q \in Proc : Creating(q) /\ pc[q] # pc[p]
  OBVIOUS
<1>6. /\ runsDir /\ (pc[p] # "makeDir" => camp[p] \in dirs)
      /\ pc[p] \in {"unlinkTmp", "rename"} /\ tmp = None => \E q \in Proc : pc[q] = "symlink"
      /\ pc[p] = "symlink" /\ tmp # None => \E q \in Proc : pc[q] = "rename"
  BY <1>1, <1>5 DEF Undisturbed
<1>7. UnlinkTmp(p) \/ Symlink(p) \/ Rename(p)
  BY <1>1, <1>2, <1>3, <1>4, <1>6, CreatingEffect, MovesLead, RoomForOne, MakeDirEffect,
     CrashEffect DEF MakeDir, At
<1>8. \/ pc[p] \in {"unlinkTmp", "rename"} /\ tmp = None
      \/ pc[p] = "symlink" /\ tmp # None
  BY <1>1, <1>2, <1>6, <1>7, MovesLead
<1> QED
  BY <1>6, <1>8 DEF Creating

\* A command that fails to make the first campaign leaves CURRENT behind, or
\* another command on its way to it.
THEOREM SomeCreatorGetsThrough == Spec => CreatorGivesWayToAnother
<1>1. CampInv /\ [Next]_vars =>
         [\A p \in Proc \ witness :
             Creating(p) /\ At(p, "release")' =>
                current # None \/ \E q \in Proc \ {p} : Creating(q)]_vars
  BY GivesWayStep
<1> QED
  BY <1>1, Invariant, PTL DEF Spec, CreatorGivesWayToAnother
=============================================================================
