---------------------------- MODULE CaseCacheProofs ----------------------------
(***************************************************************************)
(* Proofs about CaseCache, for every set of commands, every choice of      *)
(* those that take the lock, and every number of edits, cleans and kills:  *)
(* under one lock an accepted layer is current and a used one is whole,    *)
(* and without it an accepted repository is current between commands.      *)
(***************************************************************************)
EXTENDS CaseCache, Integers, TLAPS

(***************************************************************************)
(* The inductive invariants.                                               *)
(***************************************************************************)
\* What holds whoever takes the lock.
AnyInv == /\ TypeOK
          /\ \A c \in Commands : step[c] = "cleaning" => cleans > 0

\* A hash vouches for version v, or is about to.
Published(v) == \/ hashFile = v
                \/ \E c \in Commands : /\ step[c] \in {"openHash", "writeHash"}
                                       /\ key[c] = v

\* A command that is in the middle of replacing the repository by the current
\* one, or by one that it can only move inside the one that is there.
Replacing(c) == \/ step[c] \in {"removing", "unlinkHash", "build"}
                \/ step[c] = "publish" /\ (built[c] = fixture \/ Present)

\* What holds of the repository whoever takes the lock, as long as nothing
\* fails, is killed or cleans the cache.
Undisturbed == kind = "repo" /\ crashes = 0 /\ cleans = 0 /\ ~ failed
UnlockedInv == Undisturbed =>
    /\ fixture = edits + 1
    /\ ~ Present => ~ layer.nested
    /\ hashFile # Truncated => hashFile <= fixture
    /\ \A c \in Commands : /\ key[c] <= fixture /\ built[c] <= fixture
                           /\ step[c] = "publish" => key[c] <= built[c]
    /\ Published(fixture) => \/ Whole(fixture) \/ layer.nested
                             \/ \E c \in Commands : Replacing(c)

Working(c) == step[c] # "idle"
Vouched == hashFile \in Versions

\* Versions only grow, and nothing is newer than the fixture.
NothingIsNewer == /\ fixture = edits + 1
                  /\ layer.version <= fixture
                  /\ Vouched => hashFile <= fixture
                  /\ Vouched /\ Present => hashFile <= layer.version

\* A torn layer that somebody may meet later has an outdated hash, if any.
TornIsStale == layer.state = "torn" /\ Vouched =>
                  hashFile < fixture \/ \E c \in Commands : step[c] = "cleaning"

\* What a command knows at each of its steps.
Knows(c) ==
    /\ step[c] \notin {"idle", "hash", "cleaning"} => key[c] \in 1..fixture
    /\ step[c] = "check" => /\ Vouched => hashFile <= key[c]
                            /\ layer.state = "torn" => hashFile # key[c]
    /\ step[c] = "remove" /\ Present /\ Vouched => hashFile < key[c]
    /\ step[c] = "removing" => /\ Present
                               /\ Vouched => hashFile < key[c]
    /\ step[c] \in {"unlinkHash", "build"} => ~ Present
    /\ step[c] \in {"build", "publish", "openHash"} => hashFile = Missing
    /\ step[c] = "writeHash" => hashFile = Truncated
    /\ step[c] = "publish" => /\ built[c] \in key[c]..fixture
                              /\ kind = "repo" => ~ Present
    /\ step[c] \in {"openHash", "writeHash"} =>
          layer.state = "whole" /\ layer.version >= key[c]
    /\ step[c] = "use" =>
          layer.state \in {"whole", "debris"} /\ layer.version >= key[c]

OneLockInv == locked = Commands =>
                 /\ \A c, d \in Commands : Working(c) /\ Working(d) => c = d
                 /\ crossed = {}
                 /\ NothingIsNewer
                 /\ TornIsStale
                 /\ \A c \in Commands : Knows(c)

(***************************************************************************)
(* Types, and the bare repository without a common lock.                   *)
(***************************************************************************)
\* At first there is no layer.
LEMMA InitAny == Init => AnyInv
<1> SUFFICES ASSUME Init PROVE AnyInv
  OBVIOUS
<1>1. layer \in Layers
  BY DEF Init, Layers, Absent
<1>2. /\ step \in [Commands -> Steps]
      /\ key \in [Commands -> Versions \cup {Missing}]
      /\ built \in [Commands -> Versions \cup {Missing}]
  BY DEF Init, Steps
<1>3. fixture \in Versions /\ edits \in 0..MaxEdits
      /\ crashes \in 0..MaxCrashes /\ cleans \in 0..MaxCleans
  BY CacheAssumption DEF Init, Versions
<1>4. TypeOK
  BY <1>1, <1>2, <1>3 DEF Init, TypeOK
<1> QED
  BY <1>4 DEF Init, AnyInv

\* The values that system calls give the layer are layers.
LEMMA LayerValues ==
  ASSUME TypeOK
  PROVE  /\ Absent \in Layers
         /\ \A s \in {"torn", "debris"} : [layer EXCEPT !.state = s] \in Layers
         /\ [layer EXCEPT !.nested = TRUE] \in Layers
         /\ \A s \in {"torn", "whole"}, v \in Versions \cup {Missing} :
               /\ Layer(s, v) \in Layers
               /\ [Layer(s, v) EXCEPT !.nested = TRUE] \in Layers
<1>1. \A s \in {"torn", "debris"} : [layer EXCEPT !.state = s] \in Layers
  BY DEF TypeOK, Layers
<1>2. [layer EXCEPT !.nested = TRUE] \in Layers
  BY DEF TypeOK, Layers
<1>3. Absent \in Layers
  BY DEF Absent, Layers
<1>4. \A s \in {"torn", "whole"}, v \in Versions \cup {Missing} :
         Layer(s, v) \in Layers /\ [Layer(s, v) EXCEPT !.nested = TRUE] \in Layers
  BY DEF Layer, Layers
<1> QED
  BY <1>1, <1>2, <1>3, <1>4

\* Every system call keeps the types.
LEMMA NextTypeOK == TypeOK /\ [Next]_vars => TypeOK'
<1> SUFFICES ASSUME TypeOK, [Next]_vars PROVE TypeOK'
  OBVIOUS
<1> USE DEF TypeOK, Goto, Leave, Env, World, Versions, Missing
<1>1. CASE EditFixture
  BY <1>1, CacheAssumption DEF EditFixture
<1>2. ASSUME NEW c \in Commands, Start(c) \/ FinishUse(c) PROVE TypeOK'
  BY <1>2 DEF Start, FinishUse, Steps
<1>3. ASSUME NEW c \in Commands, ComputeHash(c) \/ Check(c) PROVE TypeOK'
  BY <1>3 DEF ComputeHash, Check, Prepared, Steps
<1>4. ASSUME NEW c \in Commands, RemoveBegin(c) \/ RemoveEnd(c) PROVE TypeOK'
  BY <1>4, LayerValues DEF RemoveBegin, RemoveEnd, Meet, Amid, Others, Steps
<1>5. ASSUME NEW c \in Commands, RemoveFails(c) \/ UnlinkHash(c) \/ BuildFails(c)
      PROVE  TypeOK'
  BY <1>5 DEF RemoveFails, UnlinkHash, BuildFails, Steps
<1>6. ASSUME NEW c \in Commands, Build(c) PROVE TypeOK'
  <2>1. layer' \in Layers
    BY <1>6, LayerValues DEF Build
  <2>2. crossed' \subseteq Commands
    BY <1>6 DEF Build, Meet, Amid, Others
  <2> QED
    BY <1>6, <2>1, <2>2 DEF Build, Steps
<1>7. ASSUME NEW c \in Commands, PublishRepo(c) \/ PublishVenv(c) PROVE TypeOK'
  <2> built[c] \in Versions \cup {Missing}
    OBVIOUS
  <2>1. layer' \in Layers
    <3>1. CASE PublishRepo(c)
      BY <3>1, LayerValues DEF PublishRepo
    <3>2. CASE PublishVenv(c)
      BY <3>2, LayerValues DEF PublishVenv
    <3> QED
      BY <1>7, <3>1, <3>2
  <2>2. crossed' \subseteq Commands
    BY <1>7 DEF PublishRepo, PublishVenv, Amid, Others
  <2> QED
    BY <1>7, <2>1, <2>2 DEF PublishRepo, PublishVenv, Steps
<1>8. ASSUME NEW c \in Commands, OpenHash(c) \/ WriteHash(c) PROVE TypeOK'
  BY <1>8 DEF OpenHash, WriteHash, Prepared, Steps
<1>9. ASSUME NEW c \in Commands, StartClean(c) PROVE TypeOK'
  BY <1>9, CacheAssumption DEF StartClean, Steps
<1>10. ASSUME NEW c \in Commands, CleanLayer(c) \/ CleanHash(c) \/ CleanEnd(c)
       PROVE  TypeOK'
  BY <1>10, LayerValues DEF CleanLayer, CleanHash, CleanEnd, Meet, Amid, Others, Steps
<1>11. ASSUME NEW c \in Commands, Crash(c) PROVE TypeOK'
  BY <1>11, LayerValues, CacheAssumption DEF Crash, Steps
<1>12. CASE UNCHANGED vars
  BY <1>12 DEF vars
<1> QED
  BY <1>1, <1>2, <1>3, <1>4, <1>5, <1>6, <1>7, <1>8, <1>9, <1>10, <1>11, <1>12
     DEF Next, Prepare, Clean

\* Only an eval-clean-cache is ever at its step.
LEMMA NextAny == AnyInv /\ [Next]_vars => AnyInv'
<1> SUFFICES ASSUME AnyInv, [Next]_vars PROVE AnyInv'
  OBVIOUS
<1> USE DEF AnyInv
<1>1. TypeOK'
  BY NextTypeOK
<1>2. \/ cleans' = cleans + 1
      \/ cleans' = cleans /\ \A c \in Commands : step'[c] = "cleaning" => step[c] = "cleaning"
  BY DEF TypeOK, Next, EditFixture, Start, Prepare, ComputeHash, Check, RemoveBegin,
         RemoveEnd, RemoveFails, UnlinkHash, Build, BuildFails, PublishRepo,
         PublishVenv, OpenHash, WriteHash, FinishUse, StartClean, Clean, CleanLayer,
         CleanHash, CleanEnd, Crash, Prepared, Leave, Goto, Env, World, vars
<1> QED
  BY <1>1, <1>2 DEF TypeOK

LEMMA Any == Spec => []AnyInv
  BY InitAny, NextAny, PTL DEF Spec

\* Every variable keeps its type.
THEOREM TypeCorrect == Spec => []TypeOK
  BY Any, PTL DEF AnyInv

(***************************************************************************)
(* The bare repository without a common lock.                              *)
(***************************************************************************)
LEMMA InitUnlocked == Init => UnlockedInv
<1> SUFFICES ASSUME Init PROVE UnlockedInv
  OBVIOUS
<1> QED
  BY DEF Init, UnlockedInv, Published, Absent, Present, Missing

\* An edit makes a version that nothing vouches for yet.
LEMMA EditUnlocked ==
  ASSUME AnyInv, UnlockedInv, Undisturbed, MayRevert = FALSE, EditFixture
  PROVE  UnlockedInv'
<1> USE DEF AnyInv, TypeOK, Versions, Missing, UnlockedInv
<1>1. /\ fixture' = fixture + 1 /\ edits' = edits + 1
      /\ fixture \in Nat /\ edits \in Nat
      /\ UNCHANGED <<layer, hashFile, step, key, built>>
  BY DEF EditFixture
<1>2. ~ Published(fixture')
  <2>1. hashFile # fixture'
    BY <1>1, CacheAssumption DEF EditFixture, Truncated
  <2>2. \A c \in Commands : key[c] \in Nat /\ key[c] <= fixture
    OBVIOUS
  <2> QED
    BY <1>1, <2>1, <2>2 DEF Published
<1>3. ~ Published(fixture)'
  BY <1>1, <1>2 DEF Published
<1>4. \A c \in Commands : key[c] \in Nat /\ built[c] \in Nat
  OBVIOUS
<1>5. hashFile \in Nat
  BY CacheAssumption DEF Truncated
<1> QED
  BY <1>1, <1>3, <1>4, <1>5 DEF Present, Truncated

\* A step of command c that moves no layer: what is vouched for was vouched
\* for before, and who was replacing the repository still is.
LEMMA QuietUnlocked ==
  ASSUME AnyInv, UnlockedInv, Undisturbed, NEW c \in Commands,
         \/ Start(c) \/ ComputeHash(c) \/ Check(c) \/ UnlinkHash(c)
         \/ OpenHash(c) \/ WriteHash(c) \/ FinishUse(c)
  PROVE  UnlockedInv'
<1> USE DEF AnyInv, TypeOK, UnlockedInv
<1>1. /\ UNCHANGED <<fixture, edits, layer>>
      /\ \A d \in Commands \ {c} : /\ step'[d] = step[d] /\ key'[d] = key[d]
                                   /\ built'[d] = built[d]
      /\ built'[c] \in {built[c], Missing}
      /\ step'[c] # "publish"
  BY DEF Start, ComputeHash, Check, UnlinkHash, OpenHash, WriteHash, FinishUse,
         Prepared, Leave, Goto, Env, World
<1>2. /\ key'[c] \in {key[c], Missing, fixture}
      /\ hashFile' \in {hashFile, Missing, Truncated, key[c]}
  BY DEF Start, ComputeHash, Check, UnlinkHash, OpenHash, WriteHash, FinishUse,
         Prepared, Leave, Goto, Env, World
<1>3. fixture \in Nat /\ fixture > 0 /\ fixture # Truncated
      /\ \A d \in Commands : key[d] \in Nat /\ built[d] \in Nat
  BY CacheAssumption DEF Versions, Missing, Truncated
<1>4. Published(fixture)' => Published(fixture)
  <2>1. ASSUME NEW d \in Commands, step'[d] \in {"openHash", "writeHash"},
               key'[d] = fixture
        PROVE  Published(fixture)
    <3>1. CASE d # c
      BY <1>1, <2>1, <3>1 DEF Published
    <3>2. CASE d = c
      BY <1>3, <2>1, <3>2 DEF Published, Start, ComputeHash, Check, UnlinkHash, OpenHash,
             WriteHash, FinishUse, Prepared, Leave, Goto, Env, World
    <3> QED
      BY <3>1, <3>2
  <2>2. ASSUME hashFile' = fixture PROVE Published(fixture)
    <3>1. CASE UnlinkHash(c) \/ OpenHash(c)
      BY <1>3, <2>2, <3>1 DEF UnlinkHash, OpenHash, Missing
    <3>2. CASE WriteHash(c)
      BY <2>2, <3>2 DEF WriteHash, Published
    <3>3. CASE Start(c) \/ ComputeHash(c) \/ Check(c) \/ FinishUse(c)
      BY <2>2, <3>3 DEF Start, ComputeHash, Check, FinishUse, Published
    <3> QED
      BY <3>1, <3>2, <3>3
  <2> QED
    BY <1>1, <2>1, <2>2 DEF Published
<1>5. ASSUME NEW d \in Commands, Replacing(d) PROVE Replacing(d)'
  <2>1. CASE d # c
    BY <1>1, <1>5, <2>1 DEF Replacing, Present
  <2>2. CASE d = c
    BY <1>5, <2>2 DEF Replacing, Start, Free, ComputeHash, Check, UnlinkHash, OpenHash,
           WriteHash, FinishUse, Goto, Env, World
  <2> QED
    BY <2>1, <2>2
<1>6. /\ \A d \in Commands : /\ key'[d] <= fixture /\ built'[d] <= fixture
                             /\ step'[d] = "publish" => key'[d] <= built'[d]
      /\ hashFile' # Truncated => hashFile' <= fixture
  BY <1>1, <1>2, <1>3 DEF Missing
<1> QED
  BY <1>1, <1>4, <1>5, <1>6 DEF Present, Whole, Truncated

\* Removing and building: command c itself is replacing the repository.
LEMMA ReplaceUnlocked ==
  ASSUME AnyInv, UnlockedInv, Undisturbed, NEW c \in Commands,
         RemoveBegin(c) \/ RemoveEnd(c) \/ Build(c)
  PROVE  UnlockedInv'
<1> USE DEF AnyInv, TypeOK, UnlockedInv
<1>1. /\ UNCHANGED <<fixture, edits, hashFile, key>>
      /\ \A d \in Commands \ {c} : step'[d] = step[d] /\ built'[d] = built[d]
      /\ built'[c] \in {built[c], fixture}
      /\ step'[c] = "publish" => built'[c] = fixture
  BY DEF RemoveBegin, RemoveEnd, Build, Goto, World
<1>2. fixture \in Nat /\ \A d \in Commands : key[d] \in Nat
  BY DEF Versions, Missing
<1>3. Replacing(c)'
  BY <1>1 DEF Replacing, RemoveBegin, RemoveEnd, Build, Goto
<1>4. ~ Present' => ~ layer'.nested
  BY DEF RemoveBegin, RemoveEnd, Build, Present, Absent, Undisturbed, Layers
<1> QED
  BY <1>1, <1>2, <1>3, <1>4 DEF Truncated

\* Moving into place: inside what is there, or onto a free path - and then an
\* older repository is followed by whoever replaces it by the current one.
LEMMA PublishUnlocked ==
  ASSUME AnyInv, UnlockedInv, Undisturbed, NEW c \in Commands, PublishRepo(c)
  PROVE  UnlockedInv'
<1> USE DEF AnyInv, TypeOK, UnlockedInv
<1>1. /\ UNCHANGED <<fixture, edits, hashFile, key, built>>
      /\ step[c] = "publish" /\ step'[c] = "openHash"
      /\ \A d \in Commands \ {c} : step'[d] = step[d]
      /\ Present'
  BY DEF PublishRepo, Goto, World, Present, Layer, Layers
<1>2. \A d \in Commands : step'[d] = "publish" => step[d] = "publish"
  BY <1>1
<1>3. CASE layer'.nested
  BY <1>1, <1>2, <1>3 DEF Truncated
<1>4. CASE ~ layer'.nested
  <2>1. ~ Present /\ layer' = Layer("whole", built[c])
    BY <1>4 DEF PublishRepo, Layer, Layers
  <2>2. ASSUME Published(fixture)', built[c] # fixture
        PROVE  \E d \in Commands : Replacing(d)'
    <3>1. key[c] # fixture
      BY <1>1, <2>2 DEF Versions, Missing
    <3>2. Published(fixture)
      BY <1>1, <2>2, <3>1 DEF Published
    <3>3. PICK d \in Commands : Replacing(d)
      BY <2>1, <3>2 DEF Whole, Present
    <3>4. d # c /\ Replacing(d)'
      BY <1>1, <2>1, <2>2, <3>3 DEF Replacing
    <3> QED
      BY <3>4
  <2>3. built[c] = fixture => Whole(fixture)'
    BY <1>1, <2>1 DEF Whole, Layer
  <2> QED
    BY <1>1, <1>2, <1>4, <2>2, <2>3 DEF Truncated
<1> QED
  BY <1>3, <1>4

LEMMA NextUnlocked ==
  ASSUME MayRevert = FALSE
  PROVE  AnyInv /\ UnlockedInv /\ [Next]_vars => UnlockedInv'
<1> SUFFICES ASSUME AnyInv, UnlockedInv, [Next]_vars, Undisturbed'
             PROVE  UnlockedInv'
  BY DEF UnlockedInv
<1>1. Undisturbed
  BY DEF AnyInv, TypeOK, Undisturbed, Next, EditFixture, Start, Prepare, ComputeHash,
         Check, RemoveBegin, RemoveEnd, RemoveFails, UnlinkHash, Build, BuildFails,
         PublishRepo, PublishVenv, OpenHash, WriteHash, FinishUse, StartClean, Clean,
         CleanLayer, CleanHash, CleanEnd, Crash, Env, World, vars
<1>2. CASE UNCHANGED vars
  BY <1>1, <1>2 DEF vars, UnlockedInv, Undisturbed, Published, Replacing, Whole, Present
<1>3. ASSUME NEW c \in Commands, \/ RemoveFails(c) \/ BuildFails(c) \/ PublishVenv(c)
                                \/ StartClean(c) \/ Clean(c) \/ Crash(c)
      PROVE  FALSE
  <2>1. step[c] # "cleaning" /\ kind = "repo"
    BY <1>1 DEF AnyInv, Undisturbed
  <2>2. crashes \in Nat /\ cleans \in Nat
    BY CacheAssumption DEF AnyInv, TypeOK
  <2> QED
    BY <1>1, <1>3, <2>1, <2>2 DEF Undisturbed, RemoveFails, BuildFails, PublishVenv,
       StartClean, Clean, CleanLayer, CleanHash, CleanEnd, Crash
<1> QED
  BY <1>1, <1>2, <1>3, EditUnlocked, QuietUnlocked, ReplaceUnlocked, PublishUnlocked
     DEF Next, Prepare

LEMMA Unlocked == MayRevert = FALSE => (Spec => []UnlockedInv)
<1> SUFFICES ASSUME MayRevert = FALSE PROVE Spec => []UnlockedInv
  OBVIOUS
<1>1. AnyInv /\ UnlockedInv /\ [Next]_vars => UnlockedInv'
  BY NextUnlocked
<1> QED
  BY <1>1, InitUnlocked, Any, PTL DEF Spec

\* By any number of commands, with the lock or without, an accepted repository
\* is current once nobody replaces it, or holds the newer one inside - unless a
\* prepare failed, a command was killed, or an old fixture was restored.
THEOREM AcceptedRepoIsCurrent == MayRevert = FALSE => (Spec => []UnlockedRepoIsCurrent)
<1> SUFFICES ASSUME MayRevert = FALSE PROVE Spec => []UnlockedRepoIsCurrent
  OBVIOUS
<1>1. UnlockedInv => UnlockedRepoIsCurrent
  BY DEF UnlockedInv, Undisturbed, UnlockedRepoIsCurrent, UpToDate, Published, Replacing
<1> QED
  BY <1>1, Unlocked, PTL

(***************************************************************************)
(* Commands under one lock.                                                *)
(***************************************************************************)
\* At first no hash vouches for anything.
LEMMA InitOneLock == Init => OneLockInv
<1> SUFFICES ASSUME Init PROVE OneLockInv
  OBVIOUS
<1>1. ~ Vouched /\ ~ Present
  BY DEF Init, Vouched, Versions, Missing, Present, Absent
<1>2. NothingIsNewer /\ TornIsStale
  BY <1>1 DEF Init, NothingIsNewer, TornIsStale, Absent, Missing
<1>3. \A c \in Commands : ~ Working(c) /\ Knows(c)
  BY DEF Init, Working, Knows
<1> QED
  BY <1>2, <1>3 DEF OneLockInv, Init

\* The operator edits the fixture: what was current is outdated from now on.
LEMMA EditOneLock ==
  ASSUME AnyInv, OneLockInv, crossed' = {}, MayRevert = FALSE, EditFixture
  PROVE  OneLockInv'
<1> SUFFICES ASSUME locked = Commands PROVE OneLockInv'
  BY DEF OneLockInv, EditFixture
<1> USE DEF OneLockInv, AnyInv
<1>1. /\ fixture' = fixture + 1 /\ edits' = edits + 1
      /\ UNCHANGED <<kind, locked, layer, hashFile, step, key, built>>
      /\ fixture \in Nat
  BY DEF EditFixture, NothingIsNewer, TypeOK
<1>2. \A c, d \in Commands : (Working(c) /\ Working(d))' => c = d
  BY <1>1 DEF Working
<1>3. NothingIsNewer' /\ TornIsStale'
  BY <1>1 DEF NothingIsNewer, TornIsStale, TypeOK, Layers, Versions, Missing,
              Vouched, Present
<1>4. ASSUME NEW c \in Commands PROVE Knows(c)'
  <2>1. Knows(c) /\ key[c] \in Nat /\ built[c] \in Nat
    BY DEF TypeOK, Versions, Missing
  <2> QED
    BY <1>1, <2>1 DEF Knows, Vouched, Present
<1> QED
  BY <1>2, <1>3, <1>4

\* A step of one command under the lock: the others are idle, so only what
\* that command knows has to be looked at.
LEMMA OneWorks ==
  ASSUME OneLockInv, locked = Commands, UNCHANGED locked,
         NEW c \in Commands, NEW s \in Steps, TypeOK,
         Working(c) \/ Free(c), Goto(c, s),
         crossed' = {}, NothingIsNewer', TornIsStale', Knows(c)'
  PROVE  OneLockInv'
<1>1. \A d \in Commands \ {c} : step[d] = "idle" /\ step'[d] = "idle"
  BY DEF OneLockInv, Working, Free, Goto, Leave, TypeOK
<1>2. \A d \in Commands \ {c} : Knows(d)'
  BY <1>1 DEF Knows
<1> QED
  BY <1>1, <1>2 DEF OneLockInv, Working

\* Whoever works under the lock works alone, so nobody is upset.
LEMMA AloneOneLock ==
  ASSUME AnyInv, OneLockInv, locked = Commands, [Next]_vars
  PROVE  crossed' = {}
<1>1. ASSUME NEW c \in Commands, Working(c) PROVE Others(c) = {} /\ Amid(c) = {}
  <2>1. Others(c) = {}
    BY <1>1 DEF OneLockInv, Working, Others
  <2> QED
    BY <2>1 DEF Amid
<1>2. crossed = {}
  BY DEF OneLockInv
<1>3. ASSUME NEW c \in Commands, \/ RemoveBegin(c) \/ RemoveEnd(c) \/ Build(c)
                                \/ PublishRepo(c) \/ CleanLayer(c)
      PROVE  crossed' = {}
  <2>1. Amid(c) = {}
    BY <1>1, <1>3 DEF Working, RemoveBegin, RemoveEnd, Build, PublishRepo, CleanLayer
  <2> QED
    BY <1>2, <1>3, <2>1 DEF RemoveBegin, RemoveEnd, Build, PublishRepo, CleanLayer, Meet
<1>4. ASSUME NEW c \in Commands, \/ RemoveFails(c) \/ BuildFails(c) \/ PublishVenv(c)
                                \/ CleanEnd(c) \/ Crash(c)
      PROVE  crossed' = {}
  BY <1>2, <1>4 DEF RemoveFails, BuildFails, PublishVenv, CleanEnd, Crash
<1> QED
  BY <1>2, <1>3, <1>4 DEF Next, EditFixture, Start, Prepare, ComputeHash, Check,
     UnlinkHash, OpenHash, WriteHash, FinishUse, StartClean, Clean, CleanHash, Env, vars

\* Taking the lock, hashing, comparing.
LEMMA LookOneLock ==
  ASSUME AnyInv, OneLockInv, crossed' = {}, locked = Commands, NEW c \in Commands,
         Start(c) \/ ComputeHash(c) \/ Check(c)
  PROVE  OneLockInv'
<1> USE DEF AnyInv, OneLockInv
<1>0. Knows(c) /\ fixture \in Versions /\ key[c] \in Versions \cup {Missing}
  BY DEF TypeOK
<1>1. NothingIsNewer' /\ UNCHANGED locked
  BY DEF Start, ComputeHash, Check, Env, World, NothingIsNewer, Vouched, Present
<1>2. TornIsStale'
  BY DEF Start, Free, ComputeHash, Check, Prepared, Leave, Env, World, Goto, TornIsStale,
         Vouched, TypeOK
<1>3. CASE Start(c)
  <2>1. Goto(c, "hash") /\ "hash" \in Steps /\ Free(c)
    BY <1>3 DEF Start, Steps
  <2>2. Knows(c)'
    BY <2>1 DEF Goto, Knows, TypeOK
  <2> QED
    BY <1>1, <1>2, <2>1, <2>2, OneWorks
<1>4. CASE ComputeHash(c)
  <2>1. Goto(c, "check") /\ "check" \in Steps /\ Working(c)
    BY <1>4 DEF ComputeHash, Steps, Working
  <2>2. step[c] = "hash" /\ step'[c] = "check" /\ key'[c] = fixture
        /\ UNCHANGED <<layer, hashFile, fixture>>
    BY <1>4, <2>1 DEF ComputeHash, Goto, Leave, Env, World, TypeOK
  <2>3. layer.state = "torn" /\ Vouched => hashFile < fixture
    BY <2>2 DEF TornIsStale, Working
  <2>4. Knows(c)'
    BY <1>0, <2>2, <2>3 DEF Knows, NothingIsNewer, Vouched, Versions
  <2> QED
    BY <1>1, <1>2, <2>1, <2>4, OneWorks
<1>5. CASE Check(c)
  <2>1. PICK s \in Steps : /\ Goto(c, s)
                           /\ s = IF UpToDate(key[c]) THEN "use" ELSE "remove"
    BY <1>5 DEF Check, Prepared, Steps
  <2>2. Working(c) /\ step[c] = "check" /\ step'[c] = s
        /\ UNCHANGED <<layer, hashFile, fixture, key>>
    BY <1>5, <2>1 DEF Check, Prepared, Working, Goto, Leave, Env, World, TypeOK
  <2>3. CASE UpToDate(key[c])
    <3>1. Vouched /\ hashFile = key[c] /\ Present
      BY <1>0, <2>2, <2>3 DEF UpToDate, Knows, Vouched, NothingIsNewer, Versions, Missing
    <3>2. layer.state \in {"whole", "debris"} /\ layer.version >= key[c]
      BY <2>2, <3>1, <1>0 DEF Knows, NothingIsNewer, Present, TypeOK, Layers,
                        Versions, Missing
    <3> QED
      BY <1>0, <1>1, <1>2, <2>1, <2>2, <2>3, <3>2, OneWorks DEF Knows
  <2>4. CASE ~ UpToDate(key[c])
    <3>1. Present /\ Vouched => hashFile < key[c]
      BY <1>0, <2>2, <2>4 DEF UpToDate, Knows, Vouched, Versions, Missing
    <3> QED
      BY <1>0, <1>1, <1>2, <2>1, <2>2, <2>4, <3>1, OneWorks
         DEF Knows, Vouched, Present
  <2> QED
    BY <2>3, <2>4
<1> QED
  BY <1>3, <1>4, <1>5

\* Removing an outdated layer and its hash file.
LEMMA RemoveOneLock ==
  ASSUME AnyInv, OneLockInv, crossed' = {}, locked = Commands, NEW c \in Commands,
         \/ RemoveBegin(c) \/ RemoveEnd(c) \/ RemoveFails(c) \/ UnlinkHash(c)
  PROVE  OneLockInv'
<1> USE DEF AnyInv, OneLockInv
<1>0. /\ Knows(c) /\ fixture \in Nat /\ key[c] \in Nat
      /\ layer.version \in Nat /\ hashFile \in Nat
  BY CacheAssumption DEF TypeOK, Layers, Versions, Missing, Truncated
<1>1. CASE RemoveBegin(c) /\ Present
  <2>1. Goto(c, "removing") /\ "removing" \in Steps /\ Working(c)
    BY <1>1 DEF RemoveBegin, Steps, Working
  <2>2. /\ step[c] = "remove" /\ step'[c] = "removing"
        /\ layer'.state = "torn" /\ layer'.version = layer.version
        /\ UNCHANGED <<locked, hashFile, fixture, edits, key, built, kind>>
    BY <1>1, <2>1 DEF RemoveBegin, Goto, Leave, Env, World, TypeOK, Layers
  <2>3. Vouched => hashFile < key[c] /\ key[c] <= fixture
    BY <1>0, <1>1, <2>2 DEF Knows
  <2>4. NothingIsNewer' /\ TornIsStale'
    BY <1>0, <1>1, <2>2, <2>3 DEF NothingIsNewer, TornIsStale, Vouched, Present
  <2>5. Knows(c)'
    BY <1>0, <2>2, <2>3 DEF Knows, Vouched, Present
  <2> QED
    BY <2>1, <2>2, <2>4, <2>5, OneWorks
<1>2. CASE RemoveBegin(c) /\ ~ Present
  <2>1. Goto(c, "unlinkHash") /\ "unlinkHash" \in Steps /\ Working(c)
    BY <1>2 DEF RemoveBegin, Steps, Working
  <2>2. /\ step[c] = "remove" /\ step'[c] = "unlinkHash"
        /\ UNCHANGED <<layer, locked, hashFile, fixture, edits, key, built, kind>>
    BY <1>2, <2>1 DEF RemoveBegin, Goto, Leave, Env, World, TypeOK
  <2>3. NothingIsNewer' /\ TornIsStale' /\ Knows(c)'
    BY <1>0, <1>2, <2>2 DEF NothingIsNewer, TornIsStale, Vouched, Present, Knows
  <2> QED
    BY <2>1, <2>2, <2>3, OneWorks
<1>3. CASE RemoveEnd(c)
  <2>1. Goto(c, "unlinkHash") /\ "unlinkHash" \in Steps /\ Working(c)
    BY <1>0, <1>3 DEF RemoveEnd, Steps, Working, Knows
  <2>2. /\ step[c] = "removing" /\ step'[c] = "unlinkHash"
        /\ layer' = Absent
        /\ UNCHANGED <<locked, hashFile, fixture, edits, key, built, kind>>
    BY <1>3, <2>1 DEF RemoveEnd, Goto, Leave, Env, World, TypeOK
  <2>3. NothingIsNewer' /\ TornIsStale' /\ Knows(c)'
    BY <1>0, <2>2 DEF NothingIsNewer, TornIsStale, Vouched, Present, Knows, Absent,
                      Missing
  <2> QED
    BY <2>1, <2>2, <2>3, OneWorks
<1>4. CASE UnlinkHash(c)
  <2>1. Goto(c, "build") /\ "build" \in Steps /\ Working(c)
    BY <1>4 DEF UnlinkHash, Steps, Working
  <2>2. /\ step[c] = "unlinkHash" /\ step'[c] = "build"
        /\ hashFile' = Missing
        /\ UNCHANGED <<locked, layer, fixture, edits, key, built, kind>>
    BY <1>4, <2>1 DEF UnlinkHash, Goto, Leave, Env, World, TypeOK
  <2>3. NothingIsNewer' /\ TornIsStale' /\ Knows(c)'
    BY <1>0, <2>2 DEF NothingIsNewer, TornIsStale, Vouched, Present, Knows, Versions,
                      Missing
  <2> QED
    BY <2>1, <2>2, <2>3, OneWorks
<1>5. CASE RemoveFails(c)
  <2>1. Working(c)
    BY <1>5 DEF RemoveFails, Working
  <2>2. Others(c) = {}
    BY <2>1 DEF Working, Others
  <2> QED
    BY <1>5, <2>2 DEF RemoveFails
<1> QED
  BY <1>1, <1>2, <1>3, <1>4, <1>5

\* Building reads the fixture after it was hashed: what is built is at least
\* as new as the hash that will vouch for it.
LEMMA BuildOneLock ==
  ASSUME AnyInv, OneLockInv, crossed' = {}, locked = Commands, NEW c \in Commands,
         Build(c) \/ BuildFails(c) \/ PublishRepo(c) \/ PublishVenv(c)
  PROVE  OneLockInv'
<1> USE DEF AnyInv, OneLockInv
<1>0. /\ Knows(c) /\ fixture \in Nat /\ key[c] \in Nat /\ built[c] \in Nat
      /\ layer.version \in Nat
  BY DEF TypeOK, Layers, Versions, Missing, Truncated
<1>1. CASE Build(c)
  <2>1. Goto(c, "publish") /\ "publish" \in Steps /\ Working(c)
    BY <1>1 DEF Build, Steps, Working
  <2>2. /\ step[c] = "build" /\ step'[c] = "publish" /\ built'[c] = fixture
        /\ layer' = IF kind = "venv" THEN Layer("torn", fixture) ELSE layer
        /\ UNCHANGED <<locked, hashFile, fixture, edits, key, kind>>
    BY <1>1, <2>1 DEF Build, Goto, Leave, Env, World, TypeOK
  <2>3. hashFile = Missing /\ ~ Vouched /\ ~ Present
    BY <1>0, <2>2 DEF Knows, Vouched, Versions, Missing
  <2>4. NothingIsNewer' /\ TornIsStale'
    BY <1>0, <2>2, <2>3 DEF NothingIsNewer, TornIsStale, Vouched, Layer
  <2>5. Knows(c)'
    BY <1>0, <2>2, <2>3 DEF Knows, Present
  <2> QED
    BY <2>1, <2>2, <2>4, <2>5, OneWorks
<1>2. CASE BuildFails(c)
  <2>1. Goto(c, "idle") /\ "idle" \in Steps /\ Working(c)
    BY <1>2 DEF BuildFails, Leave, Steps, Working
  <2>2. /\ step[c] = "publish" /\ step'[c] = "idle"
        /\ UNCHANGED <<locked, layer, hashFile, fixture, edits, kind>>
    BY <1>2, <2>1 DEF BuildFails, Goto, Leave, Env, World, TypeOK
  <2>3. ~ Vouched
    BY <1>0, <2>2 DEF Knows, Vouched, Versions, Missing
  <2>4. NothingIsNewer' /\ TornIsStale' /\ Knows(c)'
    BY <2>2, <2>3 DEF NothingIsNewer, TornIsStale, Vouched, Present, Knows
  <2> QED
    BY <2>1, <2>2, <2>4, OneWorks
<1>3. CASE PublishRepo(c) \/ PublishVenv(c)
  <2>1. PICK s \in {"idle", "openHash"} : Goto(c, s)
    BY <1>3 DEF PublishRepo, PublishVenv
  <2>2. /\ step[c] = "publish" /\ step'[c] = s
        /\ UNCHANGED <<locked, hashFile, fixture, edits, key, built, kind>>
    BY <1>3, <2>1 DEF PublishRepo, PublishVenv, Goto, Leave, Env, World, TypeOK
  <2>3. layer' = Layer("whole", built[c])
    <3>1. Others(c) = {}
      BY <2>2 DEF Working, Others
    <3> QED
      BY <1>0, <1>3, <2>2, <3>1 DEF PublishRepo, PublishVenv, Knows
  <2>4. hashFile = Missing /\ ~ Vouched /\ built[c] >= key[c] /\ built[c] <= fixture
    BY <1>0, <2>2 DEF Knows, Vouched, Versions, Missing
  <2>5. NothingIsNewer' /\ TornIsStale'
    BY <1>0, <2>2, <2>3, <2>4 DEF NothingIsNewer, TornIsStale, Vouched, Layer
  <2>6. Knows(c)'
    BY <1>0, <2>2, <2>3, <2>4 DEF Knows, Layer
  <2>7. Working(c) /\ s \in Steps
    BY <2>2 DEF Working, Steps
  <2> QED
    BY <2>1, <2>2, <2>5, <2>6, <2>7, OneWorks
<1> QED
  BY <1>1, <1>2, <1>3

\* Vouching for what was built, and using it.
LEMMA VouchOneLock ==
  ASSUME AnyInv, OneLockInv, crossed' = {}, locked = Commands, NEW c \in Commands,
         OpenHash(c) \/ WriteHash(c) \/ FinishUse(c)
  PROVE  OneLockInv'
<1> USE DEF AnyInv, OneLockInv
<1>0. /\ Knows(c) /\ fixture \in Nat /\ key[c] \in Nat
      /\ layer.version \in Nat
  BY DEF TypeOK, Layers, Versions, Missing, Truncated
<1>1. CASE OpenHash(c)
  <2>1. Goto(c, "writeHash") /\ "writeHash" \in Steps /\ Working(c)
    BY <1>1 DEF OpenHash, Steps, Working
  <2>2. /\ step[c] = "openHash" /\ step'[c] = "writeHash"
        /\ hashFile' = Truncated
        /\ UNCHANGED <<locked, layer, fixture, edits, key, built, kind>>
    BY <1>1, <2>1 DEF OpenHash, Goto, Leave, Env, World, TypeOK
  <2>3. ~ Vouched'
    BY <2>2, CacheAssumption DEF Vouched, Versions, Truncated
  <2>4. NothingIsNewer' /\ TornIsStale' /\ Knows(c)'
    BY <1>0, <2>2, <2>3 DEF NothingIsNewer, TornIsStale, Vouched, Knows
  <2> QED
    BY <2>1, <2>2, <2>4, OneWorks
<1>2. CASE WriteHash(c)
  <2>1. Goto(c, "use") /\ "use" \in Steps /\ Working(c)
    BY <1>2 DEF WriteHash, Prepared, Steps, Working
  <2>2. /\ step[c] = "writeHash" /\ step'[c] = "use"
        /\ hashFile' = key[c]
        /\ UNCHANGED <<locked, layer, fixture, edits, key, built, kind>>
    BY <1>2, <2>1 DEF WriteHash, Prepared, Goto, Leave, Env, World, TypeOK
  <2>3. NothingIsNewer' /\ TornIsStale' /\ Knows(c)'
    BY <1>0, <2>2 DEF NothingIsNewer, TornIsStale, Vouched, Present, Knows
  <2> QED
    BY <2>1, <2>2, <2>3, OneWorks
<1>3. CASE FinishUse(c)
  <2>1. Goto(c, "idle") /\ "idle" \in Steps /\ Working(c)
    BY <1>3 DEF FinishUse, Leave, Steps, Working
  <2>2. /\ step[c] = "use" /\ step'[c] = "idle"
        /\ UNCHANGED <<locked, layer, hashFile, fixture, edits, kind>>
    BY <1>3, <2>1 DEF FinishUse, Goto, Leave, Env, World, TypeOK
  <2>3. layer.state # "torn"
    BY <1>0, <2>2 DEF Knows
  <2>4. NothingIsNewer' /\ TornIsStale' /\ Knows(c)'
    BY <2>2, <2>3 DEF NothingIsNewer, TornIsStale, Vouched, Present, Knows
  <2> QED
    BY <2>1, <2>2, <2>4, OneWorks
<1> QED
  BY <1>1, <1>2, <1>3

\* eval-clean-cache, and commands that are killed.
LEMMA CleanOneLock ==
  ASSUME AnyInv, OneLockInv, crossed' = {}, locked = Commands, NEW c \in Commands,
         StartClean(c) \/ Clean(c) \/ Crash(c)
  PROVE  OneLockInv'
<1> USE DEF AnyInv, OneLockInv
<1>0. /\ Knows(c) /\ fixture \in Nat /\ key[c] \in Nat
      /\ layer.version \in Nat /\ hashFile \in Nat
  BY CacheAssumption DEF TypeOK, Layers, Versions, Missing, Truncated
<1>1. CASE StartClean(c)
  <2>1. Goto(c, "cleaning") /\ "cleaning" \in Steps /\ Free(c)
    BY <1>1 DEF StartClean, Steps
  <2>2. /\ step'[c] = "cleaning"
        /\ UNCHANGED <<locked, layer, hashFile, fixture, edits, key, built, kind>>
    BY <1>1, <2>1 DEF StartClean, Goto, Leave, TypeOK
  <2>3. NothingIsNewer' /\ TornIsStale' /\ Knows(c)'
    BY <2>2 DEF NothingIsNewer, TornIsStale, Vouched, Present, Knows
  <2> QED
    BY <2>1, <2>2, <2>3, OneWorks
<1>2. CASE CleanLayer(c) \/ CleanHash(c)
  <2>1. Goto(c, "cleaning") /\ "cleaning" \in Steps /\ Working(c)
    BY <1>2 DEF CleanLayer, CleanHash, Goto, Steps, Working, TypeOK
  <2>2. /\ step[c] = "cleaning" /\ step'[c] = "cleaning"
        /\ UNCHANGED <<locked, fixture, edits, key, built, kind>>
        /\ hashFile' \in {hashFile, Missing}
    BY <1>2 DEF CleanLayer, CleanHash, Env, World
  <2>3. /\ layer'.version \in {layer.version, Missing}
        /\ Present' => (Present /\ layer'.version = layer.version)
    BY <1>2 DEF CleanLayer, CleanHash, TypeOK, Layers, Absent, Present
  <2>4. NothingIsNewer'
    BY <1>0, <2>2, <2>3 DEF NothingIsNewer, Vouched, Versions, Missing
  <2>5. TornIsStale'
    BY <1>2, <2>1, <2>2 DEF TornIsStale, CleanLayer, CleanHash
  <2>6. Knows(c)'
    BY <2>2 DEF Knows
  <2> QED
    BY <2>1, <2>2, <2>4, <2>5, <2>6, OneWorks
<1>3. CASE CleanEnd(c)
  <2>1. Goto(c, "idle") /\ "idle" \in Steps /\ Working(c)
    BY <1>3 DEF CleanEnd, Leave, Steps, Working
  <2>2. /\ step[c] = "cleaning" /\ step'[c] = "idle"
        /\ UNCHANGED <<locked, layer, hashFile, fixture, edits, kind>>
    BY <1>3, <2>1 DEF CleanEnd, Goto, Leave, Env, World, TypeOK
  <2>3. ~ Present
    BY <1>3, <2>1 DEF CleanEnd, Working, Others
  <2>4. NothingIsNewer' /\ TornIsStale' /\ Knows(c)'
    BY <2>2, <2>3 DEF NothingIsNewer, TornIsStale, Vouched, Present, Knows
  <2> QED
    BY <2>1, <2>2, <2>4, OneWorks
<1>4. CASE Crash(c)
  <2>1. Goto(c, "idle") /\ "idle" \in Steps /\ Working(c)
    BY <1>4 DEF Crash, Leave, Steps, Working
  <2>2. /\ step'[c] = "idle"
        /\ UNCHANGED <<locked, hashFile, fixture, edits, kind>>
    BY <1>4, <2>1 DEF Crash, Goto, Leave, TypeOK
  <2>3. /\ layer'.version = layer.version
        /\ Present' <=> Present
        /\ layer'.state = "torn" => layer.state = "torn" /\ step[c] # "cleaning"
    BY <1>4 DEF Crash, TypeOK, Layers, Present
  <2>4. TornIsStale'
    <3>1. layer'.state = "torn" => \A d \in Commands : step[d] # "cleaning"
      BY <2>1, <2>3 DEF Working
    <3> QED
      BY <2>2, <2>3, <3>1 DEF TornIsStale, Vouched
  <2>5. NothingIsNewer' /\ Knows(c)'
    BY <2>2, <2>3 DEF NothingIsNewer, Vouched, Knows
  <2> QED
    BY <2>1, <2>2, <2>4, <2>5, OneWorks
<1> QED
  BY <1>1, <1>2, <1>3, <1>4 DEF Clean

\* Every step keeps the invariant, if the operator restores no old fixture.
LEMMA NextOneLock ==
  ASSUME MayRevert = FALSE
  PROVE  AnyInv /\ OneLockInv /\ [Next]_vars => OneLockInv'
<1> SUFFICES ASSUME AnyInv, OneLockInv, [Next]_vars, (locked = Commands)'
             PROVE  OneLockInv'
  BY DEF OneLockInv
<1>1. UNCHANGED locked
  BY DEF Next, EditFixture, Start, Prepare, ComputeHash, Check, RemoveBegin, RemoveEnd,
         UnlinkHash, RemoveFails, Build, BuildFails, PublishRepo, PublishVenv, OpenHash,
         WriteHash, Prepared, Leave, Goto, FinishUse, StartClean, Clean, CleanLayer,
         CleanHash, CleanEnd, Crash, Env, World, vars
<1>2. locked = Commands
  BY <1>1
<1>3. CASE UNCHANGED vars
  BY <1>3 DEF vars, OneLockInv, Working, NothingIsNewer, TornIsStale, Knows, Vouched,
              Present
<1> QED
  BY <1>2, <1>3, AloneOneLock, EditOneLock, LookOneLock, RemoveOneLock, BuildOneLock,
     VouchOneLock, CleanOneLock DEF Next, Prepare

\* An accepted layer is whole and current, and a used one whole and recent.
LEMMA OneLockSafe ==
  ASSUME AnyInv, OneLockInv
  PROVE  TrustedIsCurrent /\ UsedIsWhole
<1> USE DEF AnyInv, OneLockInv
<1>1. TrustedIsCurrent
  BY DEF TrustedIsCurrent, UpToDate, Whole, Debris, NothingIsNewer, TornIsStale,
         Vouched, Present, TypeOK, Layers, Versions, Missing
<1>2. UsedIsWhole
  BY DEF UsedIsWhole, Knows
<1> QED
  BY <1>1, <1>2

LEMMA OneLock == MayRevert = FALSE => (Spec => []OneLockInv)
<1> SUFFICES ASSUME MayRevert = FALSE PROVE Spec => []OneLockInv
  OBVIOUS
<1>1. AnyInv /\ OneLockInv /\ [Next]_vars => OneLockInv'
  BY NextOneLock
<1> QED
  BY <1>1, InitOneLock, Any, PTL DEF Spec

\* Under one lock, with edits in the middle of builds and commands killed
\* anywhere, a layer that is accepted was built from the fixture as it is,
\* unless a killed eval-clean-cache left it or an old fixture was restored.
THEOREM AcceptedIsCurrent == MayRevert = FALSE => (Spec => []TrustedIsCurrent)
<1> SUFFICES ASSUME MayRevert = FALSE PROVE Spec => []TrustedIsCurrent
  OBVIOUS
<1> QED
  BY OneLock, Any, OneLockSafe, PTL

\* Under the same conditions cells start from a complete layer that is no
\* older than the fixture was when their command looked.
THEOREM CellsGetWholeLayers == MayRevert = FALSE => (Spec => []UsedIsWhole)
<1> SUFFICES ASSUME MayRevert = FALSE PROVE Spec => []UsedIsWhole
  OBVIOUS
<1> QED
  BY OneLock, Any, OneLockSafe, PTL
=============================================================================
