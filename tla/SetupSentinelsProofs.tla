-------------------------- MODULE SetupSentinelsProofs --------------------------
(***************************************************************************)
(* Proofs about SetupSentinels, for every set of commands, any of them     *)
(* eval-prepare, and any number of edits, kills and cleanings.  That a     *)
(* failure is retried rests on fairness and is left to TLC.                *)
(***************************************************************************)
EXTENDS SetupSentinels, Integers, TLAPS

-----------------------------------------------------------------------------
\* eval-prepare takes no lock and runs no cells.
PreparersPrepare ==
    \A c \in Preparers :
        step[c] \notin {"lock", "needed", "compare", "skip", "use", "cleaning"}

Holds(c) == step[c] \notin {"idle", "lock"}

\* The other commands exclude each other.
OneHolder == \A c, d \in Commands \ Preparers : Holds(c) /\ Holds(d) => c = d

\* What a command knows: its fingerprint is of the setup it discovered and of
\* files that may be out of date by now.  If they are not, and no old version
\* was restored or no edit came in between, its setup runs on the same files.
Fingerprinted == {"compare", "fresh", "unlinkOk", "unlinkFail", "spawn", "wait",
                  "writeOk", "writeFail"}

Knows(c) == /\ step[c] \in Fingerprinted => /\ key[c] \in Fingerprints
                                            /\ key[c].setup = spec[c]
                                            /\ key[c].files \in seen
            /\ step[c] \in Setup /\ c \notin edited => key[c].files = inputs
            /\ step[c] = "wait" =>
                  /\ child[c] \in Fingerprints
                  /\ child[c].setup = spec[c]
                  /\ ~ restored /\ key[c].files = inputs => child[c].files = inputs
                  /\ c \notin edited => child[c].files = inputs
            /\ step[c] # "wait" => child[c] = None

\* The directory was set up by the command of fingerprint k, and from the
\* files of k if they are there now or were all the time.
Matches(k) == /\ installed # Torn
              /\ installed.setup = k.setup
              /\ k.files \in seen
              /\ ~ restored /\ k.files = inputs => installed.files = inputs
              /\ ~ mixed => installed.files = k.files

SomeoneMidway == \E c \in Commands : step[c] \in Midway

\* With one setup at a time, its success is what is installed, and a sentinel
\* that is there tells the truth unless somebody is about to replace it.
OneSetup == /\ orphans = {}
            /\ \A c, d \in Commands : /\ step[c] \in {"wait", "writeOk"}
                                      /\ step[d] \in {"wait", "writeOk"}
                                      => c = d

SuccessIsInstalled == \A c \in Commands : step[c] = "writeOk" => Matches(key[c])

OkTellsTruth == fail = None /\ ok # None => Matches(ok) \/ SomeoneMidway

UseHasSentinel == \A c \in Commands :
    step[c] = "use" => ok # None \/ fail # None \/ SomeoneMidway

\* The directory of the sentinels is there with them, and as long as a command
\* that holds the lock uses the framework.
DirIsThere == /\ ok # None \/ fail # None => dir
              /\ \A c \in Commands : step[c] = "use" => dir

Undisturbed == OneSetup /\ SuccessIsInstalled /\ OkTellsTruth /\ UseHasSentinel

SetupInv == /\ TypeOK
            /\ inputs \in seen
            /\ PreparersPrepare
            /\ OneHolder
            /\ \A c \in Commands : Knows(c)
            /\ DirIsThere
            /\ ~ disturbed => Undisturbed

-----------------------------------------------------------------------------
LEMMA FingerprintValues ==
  ASSUME NEW k \in Fingerprints
  PROVE  k # None /\ k # Torn /\ k.setup \in Int /\ k.files \in Int
  BY SetupAssumption DEF Fingerprints, None, Torn, Versions

LEMMA GotoEffect ==
  ASSUME TypeOK, NEW c \in Commands, NEW s \in Steps, Goto(c, s)
  PROVE  /\ step' \in [Commands -> Steps]
         /\ step'[c] = s
         /\ \A d \in Commands \ {c} : step'[d] = step[d]
  BY DEF TypeOK, Goto

\* Who holds the lock changes only by those who find it free.
LEMMA Exclusion ==
  ASSUME SetupInv, NEW c \in Commands, NEW s \in Steps, Goto(c, s),
         c \in Preparers =>
            s \notin {"lock", "needed", "compare", "skip", "use", "cleaning"},
         c \notin Preparers => s \in {"idle", "lock"} \/ Holds(c) \/ LockFree(c)
  PROVE  PreparersPrepare' /\ OneHolder'
<1>1. step'[c] = s /\ \A d \in Commands \ {c} : step'[d] = step[d]
  BY GotoEffect DEF SetupInv
<1>2. PreparersPrepare'
  BY <1>1, SetupAssumption DEF SetupInv, PreparersPrepare
<1>3. ASSUME NEW d \in Commands \ Preparers, d # c, Holds(d), c \notin Preparers
      PROVE  s \in {"idle", "lock"}
  BY <1>3 DEF SetupInv, OneHolder, LockFree, Holds
<1>4. OneHolder'
  BY <1>1, <1>3 DEF SetupInv, OneHolder, Holds
<1> QED
  BY <1>2, <1>4

\* What the other commands know is not disturbed.
LEMMA OthersKnow ==
  ASSUME SetupInv, NEW c \in Commands, UNCHANGED <<inputs, seen, restored>>,
         edited' \cup {c} = edited \cup {c},
         \A d \in Commands \ {c} : /\ step'[d] = step[d] /\ spec'[d] = spec[d]
                                   /\ key'[d] = key[d] /\ child'[d] = child[d],
         Knows(c)'
  PROVE  \A d \in Commands : Knows(d)'
<1>1. ASSUME NEW d \in Commands \ {c} PROVE Knows(d)'
  <2>1. d \in edited' <=> d \in edited
    BY <1>1
  <2> QED
    BY <1>1, <2>1 DEF SetupInv, Knows
<1> QED
  BY <1>1

LEMMA InitInv == Init => SetupInv
<1> SUFFICES ASSUME Init PROVE SetupInv
  OBVIOUS
<1> USE DEF Init
<1>1. TypeOK
  <2>1. 1 \in Versions /\ 0 \in 0..MaxEdits /\ 0 \in 0..MaxUpsets
    BY SetupAssumption DEF Versions
  <2> QED
    BY <2>1 DEF TypeOK, Steps
<1>2. inputs \in seen /\ PreparersPrepare /\ OneHolder /\ DirIsThere
  BY SetupAssumption DEF PreparersPrepare, OneHolder, Holds, DirIsThere
<1>3. \A c \in Commands : Knows(c)
  BY DEF Knows, Fingerprinted, Setup
<1>4. Undisturbed
  BY DEF Undisturbed, OneSetup, SuccessIsInstalled, OkTellsTruth, UseHasSentinel
<1> QED
  BY <1>1, <1>2, <1>3, <1>4 DEF SetupInv

-----------------------------------------------------------------------------
\* An edit makes the inputs new, or restores what was seen before.
LEMMA EditInv == SetupInv /\ (EditInputs \/ Repair) => SetupInv'
<1> SUFFICES ASSUME SetupInv, EditInputs \/ Repair PROVE SetupInv'
  OBVIOUS
<1> USE DEF local
<1>1. /\ UNCHANGED <<installed, dir, ok, fail, step, spec, key, child, orphans,
                     disturbed, mixed, upsets>>
      /\ seen \subseteq seen' /\ inputs' \in seen'
      /\ restored => restored'
      /\ edited \subseteq edited'
      /\ \/ inputs' = inputs /\ edited' = edited
         \/ /\ ~ restored' => inputs' \notin seen
            /\ \A c \in Commands : step[c] \in Setup => c \in edited'
  <2>1. CASE Repair
    BY <2>1 DEF Repair, SetupInv
  <2>2. CASE EditInputs
    <3>1. ~ restored' => inputs' \notin seen
      BY <2>2 DEF EditInputs
    <3>2. edited' = edited \cup {c \in Commands : step[c] \in Setup}
      BY <2>2 DEF EditInputs
    <3>3. restored => restored'
      BY <2>2 DEF EditInputs
    <3>4. /\ UNCHANGED <<installed, dir, ok, fail, step, spec, key, child, orphans,
                         disturbed, mixed, upsets>>
          /\ seen \subseteq seen' /\ inputs' \in seen'
      BY <2>2 DEF EditInputs
    <3> QED
      BY <3>1, <3>2, <3>3, <3>4
  <2> QED
    BY <2>1, <2>2
<1>2. TypeOK'
  <2>1. inputs' \in Versions /\ edits' \in 0..MaxEdits /\ seen' \subseteq Versions
    BY SetupAssumption DEF SetupInv, TypeOK, EditInputs, Repair
  <2>2. faulty' \in BOOLEAN /\ edited' \subseteq Commands
    BY DEF EditInputs, Repair, SetupInv, TypeOK
  <2>3. restored' \in BOOLEAN
    <3>1. (restored \/ inputs' \in seen) \in BOOLEAN
      OBVIOUS
    <3> QED
      BY <3>1 DEF EditInputs, Repair, SetupInv, TypeOK
  <2> QED
    BY <1>1, <2>1, <2>2, <2>3 DEF SetupInv, TypeOK
<1>3. PreparersPrepare' /\ OneHolder' /\ DirIsThere'
  BY <1>1 DEF SetupInv, PreparersPrepare, OneHolder, Holds, DirIsThere
<1>4. ASSUME NEW c \in Commands PROVE Knows(c)'
  <2>1. Knows(c)
    BY <1>4 DEF SetupInv
  <2>2. step[c] = "wait" => step[c] \in Fingerprinted /\ step[c] \in Setup
    BY DEF Fingerprinted, Setup
  <2> QED
    BY <1>1, <2>1, <2>2 DEF Knows
<1>5. ASSUME NEW k, Matches(k) PROVE Matches(k)'
  BY <1>1, <1>5 DEF Matches
<1>6. ASSUME Undisturbed PROVE Undisturbed'
  <2>1. OneSetup' /\ UseHasSentinel'
    BY <1>1, <1>6 DEF Undisturbed, OneSetup, UseHasSentinel, SomeoneMidway
  <2>2. OkTellsTruth'
    <3>1. Matches(ok) => Matches(ok)'
      BY <1>1, <1>5 DEF Matches
    <3> QED
      BY <1>1, <1>6, <3>1 DEF Undisturbed, OkTellsTruth, SomeoneMidway
  <2>3. SuccessIsInstalled'
    <3>1. \A c \in Commands : Matches(key[c]) => Matches(key[c])'
      BY <1>1, <1>5 DEF Matches
    <3> QED
      BY <1>1, <1>6, <3>1 DEF Undisturbed, SuccessIsInstalled
  <2> QED
    BY <2>1, <2>2, <2>3 DEF Undisturbed
<1> QED
  BY <1>1, <1>2, <1>3, <1>4, <1>6 DEF SetupInv

\* The steps that only look: they start no setup and leave the sentinels.
Looks(c) == \/ Start(c) \/ TakeLock(c) \/ PrepareNeeded(c) \/ Compare(c)
            \/ SkipFreshFailed(c) \/ Fingerprint(c) \/ Fresh(c) \/ PreExecFailure(c)
            \/ FinishUse(c)

LEMMA LooksInv == SetupInv /\ (\E c \in Commands : Looks(c)) => SetupInv'
<1> SUFFICES ASSUME SetupInv, NEW c \in Commands, Looks(c) PROVE SetupInv'
  OBVIOUS
<1> USE DEF Quietly, World, Files, Looks, Forget
<1>0. Knows(c) /\ TypeOK
  BY DEF SetupInv
<1>1. /\ UNCHANGED <<inputs, edits, seen, restored, faulty, upsets, installed, child,
                     orphans, disturbed, mixed, ok, fail>>
      /\ dir' \in {dir, TRUE} /\ edited' \in {edited, edited \ {c}}
  <2>1. CASE Start(c) \/ TakeLock(c) \/ Compare(c) \/ SkipFreshFailed(c)
    BY <2>1 DEF Start, TakeLock, Compare, SkipFreshFailed
  <2>2. CASE PrepareNeeded(c) \/ Fingerprint(c)
    BY <2>2 DEF PrepareNeeded, Fingerprint, TakeFingerprint
  <2>3. CASE Fresh(c) \/ PreExecFailure(c) \/ FinishUse(c)
    BY <2>3 DEF Fresh, PreExecFailure, FinishUse
  <2> QED
    BY <2>1, <2>2, <2>3
<1>15. dir => dir'
  BY <1>1
<1>2. PICK s \in Steps \ {"wait", "writeOk", "cleaning"} : Goto(c, s)
  BY DEF Start, TakeLock, PrepareNeeded, Compare, SkipFreshFailed, Fingerprint, Fresh,
         PreExecFailure, FinishUse, TakeFingerprint, Prepared, Steps
<1>3. /\ step' \in [Commands -> Steps] /\ step'[c] = s
      /\ \A d \in Commands \ {c} : step'[d] = step[d]
  BY <1>0, <1>2, GotoEffect
<1>4. c \in Preparers =>
        s \notin {"lock", "needed", "compare", "skip", "use", "cleaning"}
  <2> SUFFICES ASSUME c \in Preparers
               PROVE  step'[c] \notin {"lock", "needed", "compare", "skip", "use"}
    BY <1>2, <1>3
  <2>1. ~ TakeLock(c) /\ ~ PrepareNeeded(c) /\ ~ Compare(c) /\ ~ SkipFreshFailed(c)
    BY DEF SetupInv, PreparersPrepare, TakeLock, PrepareNeeded, Compare, SkipFreshFailed,
           TakeFingerprint
  <2> QED
    BY <1>0, <2>1, GotoEffect DEF Start, Fingerprint, Fresh, PreExecFailure, FinishUse,
       TakeFingerprint, Prepared, Steps
<1>13. c \notin Preparers => s \in {"idle", "lock"} \/ Holds(c) \/ LockFree(c)
  <2> SUFFICES ASSUME c \notin Preparers, ~ Holds(c)
               PROVE  step'[c] \in {"idle", "lock"} \/ LockFree(c)
    BY <1>3
  <2>1. Start(c) \/ TakeLock(c)
    BY DEF Holds, PrepareNeeded, Compare, SkipFreshFailed, Fingerprint, Fresh,
           PreExecFailure, FinishUse, TakeFingerprint
  <2> QED
    BY <1>0, <2>1, GotoEffect DEF Start, TakeLock, Steps
<1>5. PreparersPrepare' /\ OneHolder'
  BY <1>2, <1>4, <1>13, Exclusion
<1>6. /\ key' \in [Commands -> Fingerprints \cup {None}]
      /\ spec' \in [Commands -> Versions]
      /\ \A d \in Commands \ {c} : key'[d] = key[d] /\ spec'[d] = spec[d]
  <2>1. SetupFingerprint(c) \in Fingerprints /\ 1 \in Versions
    BY <1>0, SetupAssumption DEF SetupFingerprint, Fingerprints, TypeOK, Versions
  <2>2. \E k \in Fingerprints \cup {None} : key' = [key EXCEPT ![c] = k] \/ key' = key
    BY <2>1 DEF Start, TakeLock, PrepareNeeded, Compare, SkipFreshFailed, Fingerprint, Fresh,
           PreExecFailure, FinishUse, TakeFingerprint, Prepared
  <2>3. \E v \in Versions : spec' = [spec EXCEPT ![c] = v] \/ spec' = spec
    BY <1>0, <2>1 DEF Start, TakeLock, PrepareNeeded, Compare, SkipFreshFailed, Fingerprint,
           Fresh, PreExecFailure, FinishUse, TakeFingerprint, Prepared, TypeOK
  <2> QED
    BY <1>0, <2>2, <2>3 DEF TypeOK
<1>7. TypeOK'
  BY <1>0, <1>1, <1>3, <1>6 DEF TypeOK
<1>8. Knows(c)'
  <2>1. CASE PrepareNeeded(c) \/ Fingerprint(c)
    <3>1. /\ key'[c] = SetupFingerprint(c) /\ spec' = spec /\ step[c] # "wait"
          /\ step'[c] # "wait"
      BY <1>0, <1>2, <1>3, <2>1 DEF PrepareNeeded, Fingerprint, TakeFingerprint, TypeOK
    <3>2. SetupFingerprint(c) \in Fingerprints
          /\ SetupFingerprint(c).setup = spec[c] /\ SetupFingerprint(c).files = inputs
      BY <1>0 DEF SetupFingerprint, Fingerprints, TypeOK
    <3>3. inputs \in seen
      BY DEF SetupInv
    <3> QED
      BY <1>0, <1>1, <3>1, <3>2, <3>3 DEF Knows
  <2>2. CASE \/ Start(c) \/ TakeLock(c) \/ Compare(c) \/ SkipFreshFailed(c) \/ FinishUse(c)
    <3>1. /\ step[c] # "wait" /\ step'[c] # "wait"
          /\ step'[c] \notin Fingerprinted /\ step'[c] \notin Setup
      BY <1>0, <2>2, GotoEffect
         DEF Start, TakeLock, Compare, SkipFreshFailed, FinishUse, Fingerprinted, Setup,
             Steps
    <3> QED
      BY <1>0, <1>1, <3>1 DEF Knows
  <2>3. CASE Fresh(c) \/ PreExecFailure(c)
    <3>1. CASE UNCHANGED <<key, spec>>
      <4>1. /\ step[c] \in Fingerprinted /\ step[c] \in Setup
            /\ step[c] # "wait" /\ step'[c] # "wait" /\ edited' = edited
        BY <1>2, <1>3, <2>3 DEF Fresh, PreExecFailure, Fingerprinted, Setup
      <4> QED
        BY <1>0, <1>1, <3>1, <4>1 DEF Knows
    <3>2. CASE Fresh(c) /\ Prepared(c)
      <4>1. /\ step[c] # "wait" /\ step'[c] # "wait"
            /\ step'[c] \notin Fingerprinted /\ step'[c] \notin Setup
        BY <1>0, <3>2, GotoEffect DEF Fresh, Prepared, Fingerprinted, Setup, Steps
      <4> QED
        BY <1>0, <1>1, <4>1 DEF Knows
    <3> QED
      BY <2>3, <3>1, <3>2 DEF Fresh, PreExecFailure
  <2> QED
    BY <2>1, <2>2, <2>3
<1>9. \A d \in Commands : Knows(d)'
  BY <1>1, <1>3, <1>6, <1>8, OthersKnow
<1>14. DirIsThere'
  <2>1. step'[c] = "use" => dir
    <3> SUFFICES ASSUME step'[c] = "use", ~ dir PROVE FALSE
      OBVIOUS
    <3>1. ok = None /\ fail = None
      BY DEF SetupInv, DirIsThere
    <3>2. ~ Fresh(c) /\ ~ (Compare(c) /\ Settled(c))
      <4>1. step[c] \in {"compare", "fresh"} => key[c] # None
        BY <1>0, FingerprintValues DEF Knows, Fingerprinted
      <4> QED
        BY <1>0, <3>1, <4>1, GotoEffect DEF Compare, Fresh, Settled, Steps
    <3>3. ~ SkipFreshFailed(c)
      <4>1. SetupFingerprint(c) \in Fingerprints
        BY <1>0 DEF SetupFingerprint, Fingerprints, TypeOK
      <4>2. SetupFingerprint(c) # None
        BY <4>1, FingerprintValues
      <4> QED
        BY <1>0, <3>1, <4>2, GotoEffect DEF SkipFreshFailed, Steps
    <3> QED
      BY <1>0, <3>2, <3>3, GotoEffect DEF Start, TakeLock, PrepareNeeded, Compare,
         Fingerprint, PreExecFailure, FinishUse, TakeFingerprint, Steps
  <2> QED
    BY <1>1, <1>3, <1>15, <2>1 DEF SetupInv, DirIsThere
<1>10. ASSUME SomeoneMidway PROVE SomeoneMidway'
  <2>1. step[c] \in Midway => step'[c] \in Midway
    BY <1>0, GotoEffect DEF Start, TakeLock, PrepareNeeded, Compare, SkipFreshFailed,
       Fingerprint, Fresh, PreExecFailure, FinishUse, TakeFingerprint, Midway, Steps
  <2> QED
    BY <1>3, <1>10, <2>1 DEF SomeoneMidway
<1>11. s = "use" => ok # None \/ fail # None
  <2> SUFFICES ASSUME s = "use" PROVE ok # None \/ fail # None
    OBVIOUS
  <2>1. step'[c] = "use"
    BY <1>3
  <2>2. CASE Compare(c) \/ Fresh(c)
    <3>1. key[c] # None
      BY <1>0, <2>2, FingerprintValues DEF Knows, Fingerprinted, Compare, Fresh
    <3> QED
      BY <1>0, <2>1, <2>2, <3>1, GotoEffect DEF Compare, Fresh, Settled, Prepared, Steps
  <2>3. CASE SkipFreshFailed(c)
    <3>1. SetupFingerprint(c) \in Fingerprints
      BY <1>0 DEF SetupFingerprint, Fingerprints, TypeOK
    <3>2. SetupFingerprint(c) # None
      BY <3>1, FingerprintValues
    <3> QED
      BY <1>0, <2>1, <2>3, <3>2, GotoEffect DEF SkipFreshFailed, Steps
  <2> QED
    BY <1>0, <2>1, <2>2, <2>3, GotoEffect DEF Start, TakeLock, PrepareNeeded,
       Fingerprint, PreExecFailure, FinishUse, TakeFingerprint, Steps
<1>12. ASSUME Undisturbed PROVE Undisturbed'
  <2>1. OneSetup'
    BY <1>1, <1>2, <1>3, <1>12 DEF Undisturbed, OneSetup
  <2>2. SuccessIsInstalled'
    BY <1>1, <1>2, <1>3, <1>6, <1>12 DEF Undisturbed, SuccessIsInstalled, Matches
  <2>3. OkTellsTruth'
    BY <1>1, <1>10, <1>12 DEF Undisturbed, OkTellsTruth, Matches
  <2>4. UseHasSentinel'
    BY <1>1, <1>3, <1>10, <1>11, <1>12 DEF Undisturbed, UseHasSentinel
  <2> QED
    BY <2>1, <2>2, <2>3, <2>4 DEF Undisturbed
<1> QED
  BY <1>1, <1>5, <1>7, <1>9, <1>12, <1>14 DEF SetupInv

\* A sentinel is removed by somebody who is midway from then on.
LEMMA UnlinkInv ==
  SetupInv /\ (\E c \in Commands : UnlinkOk(c) \/ UnlinkFail(c) \/ CleanFile(c))
    => SetupInv'
<1> SUFFICES ASSUME SetupInv, NEW c \in Commands,
                    UnlinkOk(c) \/ UnlinkFail(c) \/ CleanFile(c)
             PROVE  SetupInv'
  OBVIOUS
<1> USE DEF Quietly, World
<1>0. Knows(c) /\ TypeOK
  BY DEF SetupInv
<1>1. /\ UNCHANGED <<inputs, edits, seen, restored, faulty, upsets, installed, child,
                     orphans, disturbed, edited, mixed, spec, key>>
      /\ ok' \in {ok, None} /\ fail' \in {fail, None}
      /\ \/ dir' = dir
         \/ step[c] = "cleaning" /\ dir' = FALSE /\ ok' = None /\ fail' = None
  BY DEF UnlinkOk, UnlinkFail, CleanFile
<1>2. /\ step' \in [Commands -> Steps]
      /\ \A d \in Commands \ {c} : step'[d] = step[d]
      /\ \/ step[c] = "unlinkOk" /\ step'[c] = "unlinkFail"
         \/ step[c] = "unlinkFail" /\ step'[c] = "spawn"
         \/ step[c] = "cleaning" /\ step'[c] = "cleaning"
  BY <1>0, GotoEffect DEF UnlinkOk, UnlinkFail, CleanFile, Steps, TypeOK
<1>3. TypeOK'
  BY <1>0, <1>1, <1>2 DEF TypeOK
<1>4. PreparersPrepare'
  BY <1>2, SetupAssumption DEF SetupInv, PreparersPrepare
<1>5. OneHolder'
  BY <1>2 DEF SetupInv, OneHolder, Holds
<1>6. Knows(c)'
  BY <1>0, <1>1, <1>2 DEF Knows, Fingerprinted, Setup
<1>7. \A d \in Commands : Knows(d)'
  BY <1>1, <1>2, <1>6, OthersKnow
<1>10. DirIsThere'
  <2>1. ASSUME NEW d \in Commands, step[c] = "cleaning", step'[d] = "use" PROVE FALSE
    <3>1. step[d] = "use" /\ c # d
      BY <1>2, <2>1
    <3>2. c \notin Preparers /\ d \notin Preparers
      BY <2>1, <3>1 DEF SetupInv, PreparersPrepare
    <3> QED
      BY <2>1, <3>1, <3>2 DEF SetupInv, OneHolder, Holds
  <2>2. \A d \in Commands : step'[d] = "use" => step[d] = "use"
    BY <1>2
  <2> QED
    BY <1>1, <2>1, <2>2 DEF SetupInv, DirIsThere
<1>8. SomeoneMidway'
  BY <1>2 DEF SomeoneMidway, Midway
<1>9. ASSUME Undisturbed PROVE Undisturbed'
  <2>1. OneSetup'
    BY <1>1, <1>2, <1>9 DEF Undisturbed, OneSetup
  <2>2. SuccessIsInstalled'
    BY <1>1, <1>2, <1>9 DEF Undisturbed, SuccessIsInstalled, Matches
  <2> QED
    BY <1>8, <2>1, <2>2 DEF Undisturbed, OkTellsTruth, UseHasSentinel
<1> QED
  BY <1>1, <1>3, <1>4, <1>5, <1>7, <1>9, <1>10 DEF SetupInv

\* A setup starts: if it is alone, all is well from now on.
LEMMA SpawnInv == SetupInv /\ (\E c \in Commands : Spawn(c)) => SetupInv'
<1> SUFFICES ASSUME SetupInv, NEW c \in Commands, Spawn(c) PROVE SetupInv'
  OBVIOUS
<1> USE DEF World, Files
<1>0. Knows(c) /\ TypeOK /\ step[c] = "spawn"
  BY DEF SetupInv, Spawn
<1>1. UNCHANGED <<inputs, edits, seen, restored, faulty, upsets, orphans, edited, dir, ok,
                  fail, spec, key>>
  BY DEF Spawn
<1>2. /\ step' \in [Commands -> Steps] /\ step'[c] = "wait"
      /\ \A d \in Commands \ {c} : step'[d] = step[d]
  BY <1>0, GotoEffect DEF Spawn, Steps
<1>3. [setup |-> spec[c], files |-> inputs] \in Fingerprints /\ inputs \in Int
  BY <1>0, SetupAssumption DEF Fingerprints, TypeOK, Versions
<1>4. /\ child' \in [Commands -> Fingerprints \cup {None}]
      /\ child'[c] = [setup |-> spec[c], files |-> inputs]
      /\ \A d \in Commands \ {c} : child'[d] = child[d]
  BY <1>0, <1>3 DEF Spawn, TypeOK
<1>5. disturbed' \in BOOLEAN /\ installed' = Torn /\ mixed' = FALSE
  <2>1. (orphans # {} \/ \E d \in Commands \ {c} : step[d] \in Under) \in BOOLEAN
    OBVIOUS
  <2> QED
    BY <2>1 DEF Spawn
<1>6. TypeOK'
  BY <1>0, <1>1, <1>2, <1>4, <1>5 DEF TypeOK
<1>7. PreparersPrepare' /\ OneHolder'
  BY <1>0, <1>2, Exclusion DEF Spawn, Holds, Steps
<1>8. Knows(c)'
  BY <1>0, <1>1, <1>2, <1>3, <1>4 DEF Knows, Fingerprinted, Setup, SetupInv
<1>9. \A d \in Commands : Knows(d)'
  BY <1>1, <1>2, <1>4, <1>8, OthersKnow
<1>12. DirIsThere'
  BY <1>1, <1>2 DEF SetupInv, DirIsThere
<1>10. SomeoneMidway'
  BY <1>2 DEF SomeoneMidway, Midway
<1>11. ASSUME ~ disturbed' PROVE Undisturbed'
  <2>1. orphans = {} /\ \A d \in Commands \ {c} : step[d] \notin Under
    BY <1>11 DEF Spawn
  <2>2. OneSetup' /\ SuccessIsInstalled'
    BY <1>1, <1>2, <2>1 DEF OneSetup, SuccessIsInstalled, Under
  <2> QED
    BY <1>10, <2>2 DEF Undisturbed, OkTellsTruth, UseHasSentinel
<1> QED
  BY <1>1, <1>6, <1>7, <1>9, <1>11, <1>12 DEF SetupInv

\* A setup ends: what it leaves is what it was started for, or nothing whole.
LEMMA WaitInv == SetupInv /\ (\E c \in Commands : Wait(c)) => SetupInv'
<1> SUFFICES ASSUME SetupInv, NEW c \in Commands, Wait(c) PROVE SetupInv'
  OBVIOUS
<1> USE DEF World, Files
<1>0. Knows(c) /\ TypeOK /\ step[c] = "wait"
  BY DEF SetupInv, Wait
<1>1. /\ UNCHANGED <<inputs, edits, seen, restored, faulty, upsets, orphans, dir, ok, fail,
                     spec, key, disturbed>>
      /\ edited' = edited \ {c}
  BY DEF Wait
<1>2. /\ step' \in [Commands -> Steps]
      /\ \A d \in Commands \ {c} : step'[d] = step[d]
      /\ \/ /\ step'[c] = "writeOk"
            /\ installed' \in {child[c], [child[c] EXCEPT !.files = inputs]}
            /\ mixed' = (c \in edited)
         \/ step'[c] = "writeFail" /\ installed' = Torn /\ mixed' = mixed
  BY <1>0, GotoEffect DEF Wait, Steps
<1>3. /\ child' \in [Commands -> Fingerprints \cup {None}] /\ child'[c] = None
      /\ \A d \in Commands \ {c} : child'[d] = child[d]
  BY <1>0 DEF Wait, TypeOK
<1>4. /\ child[c] \in Fingerprints
      /\ [child[c] EXCEPT !.files = inputs] \in Fingerprints
      /\ [child[c] EXCEPT !.files = inputs].setup = child[c].setup
      /\ [child[c] EXCEPT !.files = inputs].files = inputs
  BY <1>0 DEF Knows, Fingerprints, TypeOK
<1>5. TypeOK'
  <2>1. mixed' \in BOOLEAN
    <3>1. (c \in edited) \in BOOLEAN
      OBVIOUS
    <3> QED
      BY <1>0, <1>2, <3>1 DEF TypeOK
  <2>2. installed' \in Fingerprints \cup {Torn}
    BY <1>2, <1>4
  <2> QED
    BY <1>0, <1>1, <1>2, <1>3, <2>1, <2>2 DEF TypeOK
<1>6. PreparersPrepare'
  BY <1>2, SetupAssumption DEF SetupInv, PreparersPrepare
<1>7. OneHolder'
  BY <1>0, <1>2 DEF SetupInv, OneHolder, Holds
<1>8. Knows(c)'
  BY <1>0, <1>1, <1>2, <1>3 DEF Knows, Fingerprinted, Setup
<1>9. \A d \in Commands : Knows(d)'
  BY <1>1, <1>2, <1>3, <1>8, OthersKnow
<1>12. DirIsThere'
  BY <1>1, <1>2 DEF SetupInv, DirIsThere
<1>10. SomeoneMidway'
  BY <1>2 DEF SomeoneMidway, Midway
<1>11. ASSUME Undisturbed PROVE Undisturbed'
  <2>1. OneSetup'
    BY <1>0, <1>1, <1>2, <1>11 DEF Undisturbed, OneSetup
  <2>2. step'[c] = "writeOk" => Matches(key[c])'
    <3> SUFFICES ASSUME step'[c] = "writeOk" PROVE Matches(key[c])'
      OBVIOUS
    <3>1. installed' # Torn /\ installed'.setup = child[c].setup
          /\ installed'.files \in {child[c].files, inputs}
      BY <1>2, <1>4, FingerprintValues
    <3>2. /\ child[c].setup = key[c].setup /\ key[c].files \in seen
          /\ ~ restored /\ key[c].files = inputs => child[c].files = inputs
          /\ c \notin edited => key[c].files = inputs /\ child[c].files = inputs
      BY <1>0 DEF Knows, Fingerprinted, Setup
    <3>3. mixed' <=> c \in edited
      BY <1>2
    <3> QED
      BY <1>1, <3>1, <3>2, <3>3 DEF Matches
  <2>3. \A d \in Commands \ {c} : step'[d] # "writeOk"
    BY <1>0, <1>2, <1>11 DEF Undisturbed, OneSetup
  <2>4. SuccessIsInstalled'
    BY <1>1, <2>2, <2>3 DEF SuccessIsInstalled
  <2> QED
    BY <1>10, <2>1, <2>4 DEF Undisturbed, OkTellsTruth, UseHasSentinel
<1> QED
  BY <1>1, <1>5, <1>6, <1>7, <1>9, <1>11, <1>12 DEF SetupInv

\* The sentinel is written, or the command ends without one.
LEMMA WriteInv ==
  SetupInv /\ (\E c \in Commands : WriteOk(c) \/ WriteFail(c) \/ WriteRaises(c))
    => SetupInv'
<1> SUFFICES ASSUME SetupInv, NEW c \in Commands,
                    WriteOk(c) \/ WriteFail(c) \/ WriteRaises(c)
             PROVE  SetupInv'
  OBVIOUS
<1> USE DEF Quietly, World, Files
<1>0. Knows(c) /\ TypeOK /\ step[c] \in {"writeOk", "writeFail"}
  BY DEF SetupInv, WriteOk, WriteFail, WriteRaises
<1>1. /\ UNCHANGED <<inputs, edits, seen, restored, faulty, upsets, installed, dir, child,
                     orphans, disturbed, edited, mixed>>
      /\ Forget(c)
  BY DEF WriteOk, WriteFail, WriteRaises, Prepared
<1>2. PICK s \in {"idle", "use"} : Goto(c, s) /\ (s = "use" => c \notin Preparers)
  BY DEF WriteOk, WriteFail, WriteRaises, Prepared
<1>3. /\ step' \in [Commands -> Steps] /\ step'[c] = s /\ s \in Steps
      /\ \A d \in Commands \ {c} : step'[d] = step[d]
  <2>1. s \in Steps
    BY DEF Steps
  <2> QED
    BY <1>0, <1>2, <2>1, GotoEffect
<1>4. key[c] \in Fingerprints /\ key[c] # None
  BY <1>0, FingerprintValues DEF Knows, Fingerprinted
<1>5. \/ step[c] = "writeOk" /\ dir /\ ok' = key[c] /\ fail' = fail
      \/ step[c] = "writeFail" /\ dir /\ fail' = key[c] /\ ok' = ok
      \/ ~ dir /\ fail' = fail /\ ok' = ok /\ s = "idle"
  <2>1. CASE WriteOk(c)
    BY <2>1 DEF WriteOk
  <2>2. CASE WriteFail(c)
    BY <2>2 DEF WriteFail
  <2>3. CASE WriteRaises(c)
    <3>1. "idle" \in Steps /\ Goto(c, "idle")
      BY <2>3 DEF WriteRaises, Steps
    <3>2. s = "idle"
      BY <1>0, <1>3, <3>1, GotoEffect
    <3> QED
      BY <2>3, <3>2 DEF WriteRaises
  <2> QED
    BY <2>1, <2>2, <2>3
<1>6. /\ key' \in [Commands -> Fingerprints \cup {None}] /\ spec' \in [Commands -> Versions]
      /\ \A d \in Commands \ {c} : key'[d] = key[d] /\ spec'[d] = spec[d]
  BY <1>0, <1>1, SetupAssumption DEF Forget, TypeOK, Versions
<1>13. s = "use" => dir
  <2> SUFFICES ASSUME s = "use" PROVE dir
    OBVIOUS
  <2>1. ~ WriteRaises(c)
    <3>1. "idle" \in Steps
      BY DEF Steps
    <3> QED
      BY <1>0, <1>3, <3>1, GotoEffect DEF WriteRaises
  <2> QED
    BY <2>1 DEF WriteOk, WriteFail
<1>7. TypeOK'
  BY <1>0, <1>1, <1>3, <1>4, <1>5, <1>6 DEF TypeOK
<1>8. PreparersPrepare' /\ OneHolder'
  <2>1. Holds(c)
    BY <1>0 DEF Holds
  <2>2. c \in Preparers =>
           s \notin {"lock", "needed", "compare", "skip", "use", "cleaning"}
    BY <1>2
  <2> QED
    BY <1>2, <1>3, <2>1, <2>2, Exclusion
<1>9. Knows(c)'
  <2>1. step'[c] \notin Fingerprinted /\ step'[c] \notin Setup /\ step'[c] # "wait"
    BY <1>2, <1>3 DEF Fingerprinted, Setup
  <2> QED
    BY <1>0, <1>1, <2>1 DEF Knows
<1>10. \A d \in Commands : Knows(d)'
  BY <1>1, <1>3, <1>6, <1>9, OthersKnow
<1>11. DirIsThere'
  BY <1>1, <1>3, <1>13, <1>5 DEF SetupInv, DirIsThere
<1>12. ASSUME Undisturbed PROVE Undisturbed'
  <2>1. OneSetup' /\ SuccessIsInstalled'
    BY <1>1, <1>2, <1>3, <1>6, <1>12 DEF Undisturbed, OneSetup, SuccessIsInstalled, Matches
  <2>2. CASE step[c] = "writeOk" /\ dir
    <3>1. Matches(key[c])
      BY <1>12, <2>2 DEF Undisturbed, SuccessIsInstalled
    <3>2. ok' = key[c] /\ ok' # None
      BY <1>4, <1>5, <2>2
    <3>3. Matches(ok)'
      BY <1>1, <3>1, <3>2 DEF Matches
    <3> QED
      BY <2>1, <3>2, <3>3 DEF Undisturbed, OkTellsTruth, UseHasSentinel
  <2>3. CASE step[c] = "writeFail" /\ dir
    <3>1. fail' # None
      BY <1>4, <1>5, <2>3
    <3> QED
      BY <2>1, <3>1 DEF Undisturbed, OkTellsTruth, UseHasSentinel
  <2>4. CASE ~ dir
    <3>1. ok' = None /\ fail' = None
      BY <1>5, <2>4 DEF SetupInv, DirIsThere
    <3>2. \A d \in Commands : step'[d] # "use"
      BY <1>1, <1>11, <2>4 DEF DirIsThere
    <3> QED
      BY <2>1, <3>1, <3>2 DEF Undisturbed, OkTellsTruth, UseHasSentinel
  <2> QED
    BY <1>0, <2>2, <2>3, <2>4
<1> QED
  BY <1>1, <1>7, <1>8, <1>10, <1>11, <1>12 DEF SetupInv

\* eval-clean-cache starts under the lock, and ends with nothing left to
\* remove or with another command to blame.
LEMMA CleanInv ==
  SetupInv /\ (\E c \in Commands : StartClean(c) \/ CleanEnd(c)) => SetupInv'
<1> SUFFICES ASSUME SetupInv, NEW c \in Commands, StartClean(c) \/ CleanEnd(c)
             PROVE  SetupInv'
  OBVIOUS
<1> USE DEF World, Files, disk
<1>0. Knows(c) /\ TypeOK /\ c \notin Preparers
  BY DEF SetupInv, StartClean, CleanEnd, PreparersPrepare
<1>1. UNCHANGED <<inputs, edits, seen, restored, faulty, installed, child, orphans, edited,
                  mixed, dir, ok, fail>>
  BY DEF StartClean, CleanEnd
<1>13. /\ key' \in [Commands -> Fingerprints \cup {None}] /\ spec' \in [Commands -> Versions]
       /\ \A d \in Commands \ {c} : key'[d] = key[d] /\ spec'[d] = spec[d]
  BY <1>0, SetupAssumption DEF StartClean, CleanEnd, Forget, TypeOK, Versions
<1>2. PICK s \in {"cleaning", "idle"} : Goto(c, s)
  BY DEF StartClean, CleanEnd
<1>3. /\ step' \in [Commands -> Steps] /\ step'[c] = s
      /\ \A d \in Commands \ {c} : step'[d] = step[d]
      /\ s \in Steps
  BY <1>0, <1>2, GotoEffect DEF Steps
<1>4. upsets' \in 0..MaxUpsets /\ disturbed' \in BOOLEAN
  <2>1. \/ upsets' = upsets
        \/ upsets < MaxUpsets /\ upsets' = upsets + 1
    BY DEF StartClean, CleanEnd
  <2>2. disturbed' = disturbed \/ disturbed' = TRUE
    BY DEF StartClean, CleanEnd
  <2>3. upsets \in 0..MaxUpsets /\ MaxUpsets \in Nat /\ disturbed \in BOOLEAN
    BY <1>0, SetupAssumption DEF TypeOK
  <2>4. upsets' \in 0..MaxUpsets
    BY <2>1, <2>3
  <2> QED
    BY <2>2, <2>3, <2>4
<1>5. TypeOK'
  BY <1>0, <1>1, <1>3, <1>4, <1>13 DEF TypeOK
<1>6. s = "cleaning" => LockFree(c)
  BY <1>0, <1>3, GotoEffect DEF StartClean, CleanEnd, Steps
<1>7. PreparersPrepare' /\ OneHolder'
  BY <1>0, <1>2, <1>3, <1>6, Exclusion
<1>8. Knows(c)'
  BY <1>0, <1>1, <1>3 DEF Knows, Fingerprinted, Setup, StartClean, CleanEnd
<1>9. \A d \in Commands : Knows(d)'
  BY <1>1, <1>3, <1>8, <1>13, OthersKnow
<1>12. DirIsThere'
  BY <1>1, <1>2, <1>3 DEF SetupInv, DirIsThere
<1>10. ASSUME ~ disturbed' PROVE Undisturbed'
  <2>1. Undisturbed
    BY <1>10 DEF StartClean, CleanEnd, SetupInv
  <2>2. OneSetup' /\ SuccessIsInstalled'
    BY <1>1, <1>3, <1>13, <2>1 DEF Undisturbed, OneSetup, SuccessIsInstalled, Matches
  <2>3. CASE StartClean(c)
    <3>1. SomeoneMidway'
      BY <1>0, <2>3, GotoEffect DEF StartClean, SomeoneMidway, Midway, Steps
    <3> QED
      BY <2>2, <3>1 DEF Undisturbed, OkTellsTruth, UseHasSentinel
  <2>4. CASE CleanEnd(c)
    <3>1. ok = None /\ fail = None /\ step[c] = "cleaning" /\ step'[c] = "idle"
      BY <1>0, <1>10, <2>4, GotoEffect DEF CleanEnd, Steps, SetupInv, DirIsThere
    <3>2. \A d \in Commands \ {c} : step[d] # "use"
      BY <1>0, <3>1 DEF SetupInv, OneHolder, Holds, PreparersPrepare
    <3> QED
      BY <1>1, <1>3, <2>2, <3>1, <3>2 DEF Undisturbed, OkTellsTruth, UseHasSentinel
  <2> QED
    BY <2>3, <2>4
<1> QED
  BY <1>1, <1>5, <1>7, <1>9, <1>10, <1>12 DEF SetupInv

\* A setup that was left behind ends; there is none unless one was disturbed.
LEMMA OrphanInv == SetupInv /\ OrphanEnds => SetupInv'
<1> SUFFICES ASSUME SetupInv, OrphanEnds PROVE SetupInv'
  OBVIOUS
<1> USE DEF local
<1>1. PICK o \in orphans : /\ orphans' = orphans \ {o}
                           /\ installed' \in {o, Torn}
                           /\ UNCHANGED <<inputs, edits, seen, restored, faulty, dir, ok,
                                          fail, step, spec, key, child, disturbed,
                                          edited, mixed, upsets>>
  BY DEF OrphanEnds
<1>2. TypeOK'
  BY <1>1 DEF SetupInv, TypeOK
<1>3. disturbed
  BY <1>1 DEF SetupInv, Undisturbed, OneSetup
<1>4. PreparersPrepare' /\ OneHolder' /\ DirIsThere'
  BY <1>1 DEF SetupInv, PreparersPrepare, OneHolder, Holds, DirIsThere
<1>5. \A c \in Commands : Knows(c)'
  BY <1>1 DEF SetupInv, Knows
<1> QED
  BY <1>1, <1>2, <1>3, <1>4, <1>5 DEF SetupInv

\* A command is killed; in the middle of its setup that is a disturbance.
LEMMA KillInv == SetupInv /\ (\E c \in Commands : Kill(c)) => SetupInv'
<1> SUFFICES ASSUME SetupInv, NEW c \in Commands, Kill(c) PROVE SetupInv'
  OBVIOUS
<1> USE DEF disk
<1>0. Knows(c) /\ TypeOK
  BY DEF SetupInv
<1>1. /\ UNCHANGED <<inputs, edits, seen, restored, faulty, installed, dir, ok, fail, mixed>>
      /\ edited' = edited \ {c}
  BY DEF Kill
<1>11. /\ key' \in [Commands -> Fingerprints \cup {None}] /\ spec' \in [Commands -> Versions]
       /\ \A d \in Commands \ {c} : key'[d] = key[d] /\ spec'[d] = spec[d]
  BY <1>0, SetupAssumption DEF Kill, Forget, TypeOK, Versions
<1>2. /\ step' \in [Commands -> Steps] /\ step'[c] = "idle"
      /\ \A d \in Commands \ {c} : step'[d] = step[d]
  BY <1>0, GotoEffect DEF Kill, Steps
<1>3. /\ child' \in [Commands -> Fingerprints \cup {None}] /\ child'[c] = None
      /\ \A d \in Commands \ {c} : child'[d] = child[d]
  BY <1>0 DEF Kill, TypeOK
<1>4. orphans' \subseteq Fingerprints /\ upsets' \in 0..MaxUpsets
  BY <1>0, SetupAssumption DEF Kill, TypeOK
<1>5. disturbed' \in BOOLEAN /\ (~ disturbed' => ~ disturbed /\ step[c] \notin Midway)
  <2>1. (disturbed \/ step[c] \in Midway) \in BOOLEAN
    OBVIOUS
  <2> QED
    BY <2>1 DEF Kill
<1>6. TypeOK'
  BY <1>0, <1>1, <1>2, <1>3, <1>4, <1>5, <1>11 DEF TypeOK
<1>7. PreparersPrepare' /\ OneHolder'
  BY <1>2, SetupAssumption DEF SetupInv, PreparersPrepare, OneHolder, Holds
<1>8. Knows(c)'
  BY <1>1, <1>2, <1>3 DEF Knows, Fingerprinted, Setup
<1>9. \A d \in Commands : Knows(d)'
  BY <1>1, <1>2, <1>3, <1>8, <1>11, OthersKnow
<1>12. DirIsThere'
  BY <1>1, <1>2 DEF SetupInv, DirIsThere
<1>10. ASSUME ~ disturbed' PROVE Undisturbed'
  <2>1. Undisturbed /\ step[c] \notin Midway
    BY <1>5, <1>10 DEF SetupInv
  <2>2. child[c] = None
    BY <1>0, <2>1 DEF Knows, Midway
  <2>3. orphans' = {}
    BY <2>1, <2>2 DEF Kill, Undisturbed, OneSetup
  <2>4. OneSetup' /\ SuccessIsInstalled'
    BY <1>1, <1>2, <1>11, <2>1, <2>3 DEF Undisturbed, OneSetup, SuccessIsInstalled, Matches
  <2>5. SomeoneMidway => SomeoneMidway'
    BY <1>2, <2>1 DEF SomeoneMidway
  <2> QED
    BY <1>1, <1>2, <2>1, <2>4, <2>5 DEF Undisturbed, OkTellsTruth, UseHasSentinel, Matches
<1> QED
  BY <1>1, <1>6, <1>7, <1>9, <1>10, <1>12 DEF SetupInv

-----------------------------------------------------------------------------
LEMMA StepInv == SetupInv /\ [Next]_vars => SetupInv'
<1> SUFFICES ASSUME SetupInv, [Next]_vars PROVE SetupInv'
  OBVIOUS
<1>1. CASE Next
  BY <1>1, EditInv, LooksInv, UnlinkInv, SpawnInv, WaitInv, WriteInv, CleanInv, OrphanInv,
     KillInv DEF Next, Prepare, RunFrameworkSetup, Clean, Looks
<1>2. CASE UNCHANGED vars
  BY <1>2 DEF vars, disk, local, SetupInv, TypeOK, PreparersPrepare, OneHolder, Holds,
     Knows, Undisturbed, OneSetup, SuccessIsInstalled, OkTellsTruth, UseHasSentinel,
     Matches, SomeoneMidway, DirIsThere
<1> QED
  BY <1>1, <1>2

LEMMA InvHolds == Spec => []SetupInv
  BY InitInv, StepInv, PTL DEF Spec

\* The sentinels and what the commands remember of them keep their types.
THEOREM TypeCorrect == Spec => []TypeOK
<1>1. SetupInv => TypeOK
  BY DEF SetupInv
<1> QED
  BY <1>1, InvHolds, PTL

\* A fresh .ok tells the truth about the framework's directory, with
\* eval-prepare beside other commands, edits in the middle of a setup and kills,
\* unless a setup is under way, or setups overlapped or were broken off
\* (run_framework_setup, setup_fingerprint).
THEOREM FreshMeansInstalled == Spec => []FreshOkIsInstalled
<1>1. SetupInv => FreshOkIsInstalled
  <2> SUFFICES ASSUME SetupInv, Quiet, ~ disturbed, fail = None, ok = Current
               PROVE  /\ installed.setup = inputs
                      /\ installed.files = inputs \/ (mixed /\ restored)
    BY DEF FreshOkIsInstalled
  <2>1. inputs \in Int /\ inputs >= 1
    BY SetupAssumption DEF SetupInv, TypeOK, Versions
  <2>2. ok # None /\ ok.setup = inputs /\ ok.files = inputs
    BY <2>1 DEF Current, None
  <2>3. Matches(ok)
    BY <2>2 DEF SetupInv, Undisturbed, OkTellsTruth, SomeoneMidway, Quiet
  <2> QED
    BY <2>2, <2>3 DEF Matches
<1> QED
  BY <1>1, InvHolds, PTL

\* Under the same conditions cells are run only on a framework whose last setup
\* ran to its end (_prepare_needed, run_cell).
THEOREM UsedMeansInstalled == Spec => []UsedIsInstalled
<1>1. SetupInv => UsedIsInstalled
  <2> SUFFICES ASSUME SetupInv, Quiet, ~ disturbed, NEW c \in Commands,
                      step[c] = "use", fail = None
               PROVE  installed # Torn
    BY DEF UsedIsInstalled
  <2>1. ok # None /\ ~ SomeoneMidway
    BY DEF SetupInv, Undisturbed, UseHasSentinel, SomeoneMidway, Quiet
  <2> QED
    BY <2>1 DEF SetupInv, Undisturbed, OkTellsTruth, Matches
<1> QED
  BY <1>1, InvHolds, PTL
=============================================================================
