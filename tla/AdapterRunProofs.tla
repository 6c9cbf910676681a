---------------------------- MODULE AdapterRunProofs ----------------------------
(***************************************************************************)
(* Proofs about AdapterRun.  Its two halves are independent: the tool      *)
(* calls keep ToolsInv, the main thread and its timer keep DeadlineInv.    *)
(***************************************************************************)
EXTENDS AdapterRun, FiniteSetTheorems, SequenceTheorems, TLAPS

-----------------------------------------------------------------------------
\* The files of the calls that are past the check, and of those that write.
PastFiles == {call[t].file : t \in Past(call)}
Writing == {call[t].file : t \in {u \in Threads : call[u].step \in {"write", "count"}}}

\* max_changed_files and what calls that overlap may add to it.
Bound == MaxChanged + (IF width = 0 THEN 0 ELSE width - 1)

\* A file gets past the check only if the lists let it.
PastIsListed == \A t \in Past(call) : call[t].file \in Allowed \ Disallowed

\* Every changed file is counted, spoiled or still being written.
TouchedIsKnown == /\ Writing \subseteq touched
                  /\ touched \subseteq changed \cup spoiled \cup Writing
                  /\ touched \subseteq Allowed \ Disallowed

\* The files counted and those that may yet be counted stay within the bound.
CommittedIsBounded == Cardinality(changed \cup PastFiles) <= Bound

ToolsInv == ToolsTypeOK /\ PastIsListed /\ TouchedIsKnown /\ CommittedIsBounded

-----------------------------------------------------------------------------
\* What is on stdout at each step, unless the timer was cancelled too late.
Unanswered == out = <<>>
Answer == out = <<"answer">> /\ status = 0
Error == out = <<"error">> /\ status = 1
GaveUp == Unanswered /\ status = 1 /\ mute

Written == /\ step \in {"start", "agent", "unwind", "finally", "build", "emit",
                        "handler"} => Unanswered
           /\ step = "return" => Answer \/ Error
           /\ step = "giveUp" => Error \/ GaveUp
           /\ step = "exit" => Answer \/ Error \/ GaveUp

\* After the finally clause the timer is off, unless it was cancelled too late.
TimerIsOff == step \notin {"start", "agent", "unwind", "finally"} => timer = "off"

\* Before the agent there is no timer, and while the agent runs there is one
\* unless the library has swallowed its exception.
TimerIsArmed == /\ step = "start" => timer = "off" /\ armedAt = Never
                /\ step = "agent" => armedAt # Never /\ (timer # "off" \/ held)
                /\ step = "unwind" => held

\* The clock is never further than the timer and the winding up account for.
InTime == armedAt # Never /\ step # "exit" /\ ~ held => clock <= Due + windup

DeadlineInv == /\ DeadlineTypeOK
               /\ TimerIsArmed
               /\ InTime
               /\ ~ late => Written /\ TimerIsOff
               /\ life = "exited" => step = "exit"
               /\ life = "killed" => clock = timeout_s

-----------------------------------------------------------------------------
\* Calls have no more files than there are calls.
LEMMA FilesOfCalls ==
  ASSUME NEW S, IsFiniteSet(S), NEW c
  PROVE  /\ IsFiniteSet({c[t].file : t \in S})
         /\ Cardinality({c[t].file : t \in S}) <= Cardinality(S)
<1> DEFINE T == {c[t].file : t \in S}
           g == [t \in S |-> c[t].file]
<1>1. g \in Surjection(S, T)
  BY DEF Surjection
<1> QED
  BY <1>1, FS_Surjection

\* What a step of thread t does to the calls.
LEMMA GoToEffect ==
  ASSUME ToolsTypeOK, NEW t \in Threads, NEW s \in CallSteps,
         call[t].step # "idle", GoTo(t, s)
  PROVE  /\ call' \in [Threads -> Calls \cup {Idle}]
         /\ call'[t].step = s /\ call'[t].file = call[t].file
         /\ call[t].file \in Files
         /\ \A u \in Threads \ {t} : call'[u] = call[u]
<1>1. call[t] \in Calls
  BY DEF ToolsTypeOK, Idle
<1>2. call' = [call EXCEPT ![t] = [call[t] EXCEPT !.step = s]]
  BY DEF GoTo
<1>3. [call[t] EXCEPT !.step = s] \in Calls
      /\ [call[t] EXCEPT !.step = s].step = s
      /\ [call[t] EXCEPT !.step = s].file = call[t].file
      /\ call[t].file \in Files
  BY <1>1 DEF Calls
<1> QED
  BY <1>2, <1>3 DEF ToolsTypeOK

LEMMA EndCallEffect ==
  ASSUME ToolsTypeOK, NEW t \in Threads, EndCall(t)
  PROVE  /\ call' \in [Threads -> Calls \cup {Idle}]
         /\ call'[t].step = "idle"
         /\ \A u \in Threads \ {t} : call'[u] = call[u]
  BY DEF ToolsTypeOK, EndCall, Idle

\* The sets of files whose sizes the bound is about are finite.
LEMMA FiniteFiles ==
  ASSUME ToolsTypeOK
  PROVE  /\ IsFiniteSet(changed) /\ IsFiniteSet(spoiled) /\ IsFiniteSet(touched)
         /\ IsFiniteSet(PastFiles) /\ IsFiniteSet(changed \cup PastFiles)
         /\ IsFiniteSet(Past(call)) /\ IsFiniteSet(Past(call'))
         /\ Cardinality(Past(call')) \in 0..Cardinality(Threads)
<1>1. Past(call) \subseteq Threads /\ Past(call') \subseteq Threads
  BY DEF Past
<1>2. IsFiniteSet(Past(call)) /\ IsFiniteSet(Past(call'))
      /\ Cardinality(Past(call')) <= Cardinality(Threads)
  BY <1>1, FS_Subset, ToolsAssumption
<1>3. IsFiniteSet(changed) /\ IsFiniteSet(spoiled) /\ IsFiniteSet(touched)
  BY FS_Subset, ToolsAssumption DEF ToolsTypeOK
<1>4. IsFiniteSet(PastFiles)
  BY <1>2, FilesOfCalls DEF PastFiles
<1>5. Cardinality(Past(call')) \in Nat /\ Cardinality(Threads) \in Nat
  BY <1>2, FS_CardinalityType, ToolsAssumption
<1>6. IsFiniteSet(changed \cup PastFiles)
  BY <1>3, <1>4, FS_Union
<1> QED
  BY <1>2, <1>3, <1>4, <1>5, <1>6

LEMMA ToolsInitInv == ToolsInit => ToolsInv
<1> SUFFICES ASSUME ToolsInit PROVE ToolsInv
  OBVIOUS
<1> USE DEF ToolsInit
<1>1. Past(call) = {} /\ PastFiles = {} /\ Writing = {}
  BY DEF Past, PastFiles, Writing, Idle
<1>2. ToolsTypeOK
  BY ToolsAssumption, FS_CardinalityType DEF ToolsTypeOK
<1>3. CommittedIsBounded
  BY <1>1, FS_EmptySet, ToolsAssumption DEF CommittedIsBounded, Bound
<1> QED
  BY <1>1, <1>2, <1>3 DEF ToolsInv, PastIsListed, TouchedIsKnown

\* A step that lets no file past the check keeps the bound.
LEMMA NoMoreCommitted ==
  ASSUME ToolsInv, ToolsTypeOK', width' = width,
         changed' \cup PastFiles' \subseteq changed \cup PastFiles
  PROVE  CommittedIsBounded'
<1>1. IsFiniteSet(changed \cup PastFiles)
  BY FiniteFiles DEF ToolsInv
<1>2. Cardinality(changed' \cup PastFiles') <= Cardinality(changed \cup PastFiles)
      /\ IsFiniteSet(changed' \cup PastFiles')
  BY <1>1, FS_Subset
<1>3. Cardinality(changed' \cup PastFiles') \in Nat
      /\ Cardinality(changed \cup PastFiles) \in Nat /\ Bound \in Int
  BY <1>1, <1>2, FS_CardinalityType, ToolsAssumption DEF Bound, ToolsInv, ToolsTypeOK
<1> QED
  BY <1>2, <1>3 DEF CommittedIsBounded, Bound, ToolsInv

\* Calls that overlap more may add more.
LEMMA BoundGrows ==
  ASSUME NEW v \in Nat, NEW w \in Nat, v <= w
  PROVE  MaxChanged + (IF v = 0 THEN 0 ELSE v - 1)
           <= MaxChanged + (IF w = 0 THEN 0 ELSE w - 1)
<1>1. (IF v = 0 THEN 0 ELSE v - 1) <= (IF w = 0 THEN 0 ELSE w - 1)
  OBVIOUS
<1> QED
  BY <1>1, ToolsAssumption

\* _check_edit_constraints: a new file is let in when there is room for it,
\* and then every call past the check accounts for one file at most.
LEMMA CheckInv ==
  ASSUME ToolsInv, NEW t \in Threads, Check(t)
  PROVE  ToolsInv'
<1> DEFINE n == Cardinality(Past(call'))
<1>0. call[t].step = "check" /\ ToolsTypeOK
  BY DEF Check, At, ToolsInv
<1>1. /\ UNCHANGED <<changed, touched, spoiled, calls>>
      /\ width' = IF n > width THEN n ELSE width
  BY DEF Check
<1>2. /\ n \in 0..Cardinality(Threads) /\ Cardinality(Threads) \in Nat
      /\ width \in Nat /\ width' \in 0..Cardinality(Threads)
      /\ width' >= width /\ width' >= n
  BY <1>0, <1>1, FiniteFiles, FS_CardinalityType, ToolsAssumption DEF ToolsTypeOK
<1>3. CASE Permitted(call[t].file)
  <2>1. PICK s \in {"read", "open"} : GoTo(t, s)
    BY <1>3 DEF Check
  <2>2. /\ call' \in [Threads -> Calls \cup {Idle}]
        /\ call'[t].step = s /\ call'[t].file = call[t].file
        /\ \A u \in Threads \ {t} : call'[u] = call[u]
        /\ call[t].file \in Files
    BY <1>0, <2>1, GoToEffect DEF CallSteps
  <2>3. ToolsTypeOK'
    BY <1>0, <1>1, <1>2, <2>2 DEF ToolsTypeOK
  <2>4. /\ Past(call') = Past(call) \cup {t}
        /\ PastFiles' = PastFiles \cup {call[t].file}
        /\ Writing' = Writing
    BY <1>0, <2>2 DEF Past, PastFiles, Writing
  <2>5. PastIsListed'
    BY <1>3, <2>2, <2>4 DEF PastIsListed, Past, ToolsInv, Permitted
  <2>6. TouchedIsKnown'
    BY <1>1, <2>4 DEF TouchedIsKnown, ToolsInv
  <2>7. CASE call[t].file \in changed
    <3>1. changed' \cup PastFiles' = changed \cup PastFiles
      BY <1>1, <2>4, <2>7
    <3>2. Cardinality(changed \cup PastFiles) \in Nat
      BY <1>0, FiniteFiles, FS_CardinalityType
    <3>3. Bound <= Bound'
      <4>1. width \in Nat /\ width' \in Nat /\ width <= width' /\ MaxChanged \in Nat
        BY <1>2, ToolsAssumption
      <4> QED
        BY <4>1, BoundGrows DEF Bound
    <3>4. Bound \in Int /\ Bound' \in Int
      BY <1>2, ToolsAssumption DEF Bound
    <3>5. CommittedIsBounded'
      BY <3>1, <3>2, <3>3, <3>4 DEF ToolsInv, CommittedIsBounded
    <3> QED
      BY <2>3, <2>5, <2>6, <3>5 DEF ToolsInv
  <2>8. CASE Cardinality(changed) + 1 <= MaxChanged
    <3>1. IsFiniteSet(PastFiles') /\ Cardinality(PastFiles') <= n
      BY <1>0, FiniteFiles, FilesOfCalls DEF PastFiles
    <3>2. IsFiniteSet(changed) /\ IsFiniteSet(changed \cap PastFiles')
      BY <1>0, <3>1, FiniteFiles, FS_Subset
    <3>3. /\ Cardinality(changed \cup PastFiles') =
               Cardinality(changed) + Cardinality(PastFiles')
               - Cardinality(changed \cap PastFiles')
          /\ IsFiniteSet(changed \cup PastFiles')
      BY <3>1, <3>2, FS_Union
    <3>4. /\ Cardinality(changed) \in Nat /\ Cardinality(PastFiles') \in Nat
          /\ Cardinality(changed \cap PastFiles') \in Nat
      BY <3>1, <3>2, FS_CardinalityType
    <3>5. n >= 1
      <4>1. IsFiniteSet(Past(call')) /\ t \in Past(call')
        BY <1>0, <2>4, FiniteFiles
      <4>2. n # 0
        BY <4>1, FS_EmptySet
      <4> QED
        BY <4>2, <1>2
    <3>6. CommittedIsBounded'
      BY <1>1, <1>2, <2>8, <3>1, <3>3, <3>4, <3>5, ToolsAssumption
         DEF CommittedIsBounded, Bound
    <3> QED
      BY <2>3, <2>5, <2>6, <3>6 DEF ToolsInv
  <2> QED
    BY <1>3, <2>7, <2>8 DEF Permitted
<1>4. CASE ~ Permitted(call[t].file)
  <2>1. /\ call' \in [Threads -> Calls \cup {Idle}]
        /\ call'[t].step = "idle"
        /\ \A u \in Threads \ {t} : call'[u] = call[u]
    BY <1>0, <1>4, EndCallEffect DEF Check
  <2>2. ToolsTypeOK'
    BY <1>0, <1>1, <1>2, <2>1 DEF ToolsTypeOK
  <2>3. Past(call') = Past(call) /\ PastFiles' = PastFiles /\ Writing' = Writing
    BY <1>0, <2>1 DEF Past, PastFiles, Writing
  <2>4. PastIsListed' /\ TouchedIsKnown'
    BY <1>1, <2>1, <2>3 DEF PastIsListed, TouchedIsKnown, ToolsInv, Past
  <2>5. Cardinality(changed \cup PastFiles) \in Nat
    BY <1>0, FiniteFiles, FS_CardinalityType
  <2> QED
    BY <1>1, <1>2, <2>2, <2>3, <2>4, <2>5, ToolsAssumption
       DEF ToolsInv, CommittedIsBounded, Bound
<1> QED
  BY <1>3, <1>4

\* A call starts, or edit_file gives up or goes on to open its file.
LEMMA StartOrReadInv ==
  ASSUME ToolsInv, NEW t \in Threads, StartCall(t) \/ Read(t)
  PROVE  ToolsInv'
<1>0. ToolsTypeOK /\ UNCHANGED <<changed, touched, spoiled, width>>
  BY DEF ToolsInv, StartCall, Read
<1>1. CASE StartCall(t)
  <2>1. PICK tool \in Tools, f \in Files :
           call' = [call EXCEPT ![t] = [tool |-> tool, step |-> "check", file |-> f]]
    BY <1>1 DEF StartCall
  <2>2. [tool |-> tool, step |-> "check", file |-> f] \in Calls
    BY DEF Calls, CallSteps
  <2>3. /\ call' \in [Threads -> Calls \cup {Idle}]
        /\ call'[t].step = "check" /\ call[t].step = "idle"
        /\ \A u \in Threads \ {t} : call'[u] = call[u]
    BY <1>0, <1>1, <2>1, <2>2 DEF ToolsTypeOK, StartCall, Idle
  <2>4. calls' \in 0..MaxCalls
    BY <1>0, <1>1, ToolsAssumption DEF ToolsTypeOK, StartCall
  <2>5. Past(call') = Past(call) /\ PastFiles' = PastFiles /\ Writing' = Writing
    BY <2>3 DEF Past, PastFiles, Writing
  <2>6. PastIsListed' /\ TouchedIsKnown' /\ CommittedIsBounded'
    BY <1>0, <2>3, <2>5 DEF PastIsListed, TouchedIsKnown, CommittedIsBounded, Bound,
                            ToolsInv, Past
  <2> QED
    BY <1>0, <2>3, <2>4, <2>6 DEF ToolsInv, ToolsTypeOK
<1>2. CASE Read(t)
  <2>1. call[t].step = "read"
    BY <1>2 DEF Read, At
  <2>2. /\ call' \in [Threads -> Calls \cup {Idle}]
        /\ call'[t].step \in {"open", "idle"}
        /\ call'[t].step = "open" => call'[t].file = call[t].file
        /\ \A u \in Threads \ {t} : call'[u] = call[u]
    BY <1>0, <1>2, <2>1, GoToEffect, EndCallEffect DEF Read, CallSteps
  <2>3. ToolsTypeOK'
    BY <1>0, <1>2, <2>2 DEF ToolsTypeOK, Read
  <2>4. PastFiles' \subseteq PastFiles /\ Writing' = Writing
        /\ Past(call') \subseteq Past(call)
    BY <2>1, <2>2 DEF Past, PastFiles, Writing
  <2>5. PastIsListed'
    BY <2>2, <2>4 DEF PastIsListed, ToolsInv, Past
  <2>6. TouchedIsKnown'
    BY <1>0, <2>4 DEF TouchedIsKnown, ToolsInv
  <2>7. CommittedIsBounded'
    BY <1>0, <2>3, <2>4, NoMoreCommitted
  <2> QED
    BY <2>3, <2>5, <2>6, <2>7 DEF ToolsInv
<1> QED
  BY <1>1, <1>2

\* Opening the file truncates it: it is touched, by a call that now writes.
LEMMA OpenInv ==
  ASSUME ToolsInv, NEW t \in Threads, Open(t)
  PROVE  ToolsInv'
<1>0. ToolsTypeOK /\ UNCHANGED <<changed, spoiled, calls, width>>
      /\ call[t].step = "open"
  BY DEF ToolsInv, Open, At
<1>1. CASE GoTo(t, "write") /\ touched' = touched \cup {call[t].file}
  <2>1. /\ call' \in [Threads -> Calls \cup {Idle}]
        /\ call'[t].step = "write" /\ call'[t].file = call[t].file
        /\ \A u \in Threads \ {t} : call'[u] = call[u]
        /\ call[t].file \in Files
    BY <1>0, <1>1, GoToEffect DEF CallSteps
  <2>2. ToolsTypeOK'
    BY <1>0, <1>1, <2>1 DEF ToolsTypeOK
  <2>3. /\ Past(call') = Past(call) /\ PastFiles' = PastFiles
        /\ Writing' = Writing \cup {call[t].file}
    BY <1>0, <2>1 DEF Past, PastFiles, Writing
  <2>4. PastIsListed'
    BY <2>1, <2>3 DEF PastIsListed, ToolsInv, Past
  <2>5. call[t].file \in Allowed \ Disallowed
    BY <1>0 DEF PastIsListed, ToolsInv, Past
  <2>6. TouchedIsKnown'
    BY <1>0, <1>1, <2>3, <2>5 DEF TouchedIsKnown, ToolsInv
  <2> QED
    BY <1>0, <2>2, <2>3, <2>4, <2>6, NoMoreCommitted DEF ToolsInv
<1>2. CASE EndCall(t) /\ UNCHANGED touched
  <2>1. /\ call' \in [Threads -> Calls \cup {Idle}]
        /\ call'[t].step = "idle"
        /\ \A u \in Threads \ {t} : call'[u] = call[u]
    BY <1>0, <1>2, EndCallEffect
  <2>2. ToolsTypeOK'
    BY <1>0, <1>2, <2>1 DEF ToolsTypeOK
  <2>3. /\ Past(call') \subseteq Past(call) /\ PastFiles' \subseteq PastFiles
        /\ Writing' = Writing
    BY <1>0, <2>1 DEF Past, PastFiles, Writing
  <2>4. PastIsListed'
    BY <2>1, <2>3 DEF PastIsListed, ToolsInv, Past
  <2>5. TouchedIsKnown'
    BY <1>0, <1>2, <2>3 DEF TouchedIsKnown, ToolsInv
  <2> QED
    BY <1>0, <2>2, <2>3, <2>4, <2>5, NoMoreCommitted DEF ToolsInv
<1> QED
  BY <1>1, <1>2 DEF Open

\* The write succeeds, or leaves the file truncated and spoiled.
LEMMA WriteInv ==
  ASSUME ToolsInv, NEW t \in Threads, Write(t)
  PROVE  ToolsInv'
<1>0. ToolsTypeOK /\ UNCHANGED <<changed, touched, calls, width>>
      /\ call[t].step = "write"
  BY DEF ToolsInv, Write, At
<1>1. call[t].file \in touched
  BY <1>0 DEF ToolsInv, TouchedIsKnown, Writing
<1>2. CASE GoTo(t, "count") /\ UNCHANGED spoiled
  <2>1. /\ call' \in [Threads -> Calls \cup {Idle}]
        /\ call'[t].step = "count" /\ call'[t].file = call[t].file
        /\ \A u \in Threads \ {t} : call'[u] = call[u]
    BY <1>0, <1>2, GoToEffect DEF CallSteps
  <2>2. ToolsTypeOK'
    BY <1>0, <1>2, <2>1 DEF ToolsTypeOK
  <2>3. /\ Past(call') = Past(call) /\ PastFiles' = PastFiles /\ Writing' = Writing
    BY <1>0, <2>1 DEF Past, PastFiles, Writing
  <2>4. PastIsListed' /\ TouchedIsKnown'
    BY <1>0, <1>2, <2>1, <2>3 DEF PastIsListed, TouchedIsKnown, ToolsInv, Past
  <2> QED
    BY <1>0, <2>2, <2>3, <2>4, NoMoreCommitted DEF ToolsInv
<1>3. CASE EndCall(t) /\ spoiled' = spoiled \cup {call[t].file}
  <2>1. /\ call' \in [Threads -> Calls \cup {Idle}]
        /\ call'[t].step = "idle"
        /\ \A u \in Threads \ {t} : call'[u] = call[u]
    BY <1>0, <1>3, EndCallEffect
  <2>2. ToolsTypeOK'
    BY <1>0, <1>1, <1>3, <2>1 DEF ToolsTypeOK
  <2>3. /\ Past(call') \subseteq Past(call) /\ PastFiles' \subseteq PastFiles
        /\ Writing' \subseteq Writing /\ Writing \subseteq Writing' \cup {call[t].file}
    BY <1>0, <2>1 DEF Past, PastFiles, Writing
  <2>4. PastIsListed'
    BY <2>1, <2>3 DEF PastIsListed, ToolsInv, Past
  <2>5. TouchedIsKnown'
    BY <1>0, <1>3, <2>3 DEF TouchedIsKnown, ToolsInv
  <2> QED
    BY <1>0, <2>2, <2>3, <2>4, <2>5, NoMoreCommitted DEF ToolsInv
<1> QED
  BY <1>2, <1>3 DEF Write

\* The file moves from the calls past the check to the counted ones.
LEMMA CountInv ==
  ASSUME ToolsInv, NEW t \in Threads, Count(t)
  PROVE  ToolsInv'
<1>0. ToolsTypeOK /\ UNCHANGED <<touched, spoiled, calls, width>>
      /\ call[t].step = "count" /\ changed' = changed \cup {call[t].file}
  BY DEF ToolsInv, Count, At
<1>1. call[t].file \in touched /\ call[t].file \in PastFiles
  BY <1>0 DEF ToolsInv, TouchedIsKnown, Writing, PastFiles, Past
<1>2. /\ call' \in [Threads -> Calls \cup {Idle}]
      /\ call'[t].step = "idle"
      /\ \A u \in Threads \ {t} : call'[u] = call[u]
  BY <1>0, EndCallEffect DEF Count
<1>3. ToolsTypeOK'
  BY <1>0, <1>1, <1>2 DEF ToolsTypeOK
<1>4. /\ Past(call') \subseteq Past(call) /\ PastFiles' \subseteq PastFiles
      /\ Writing' \subseteq Writing /\ Writing \subseteq Writing' \cup {call[t].file}
  BY <1>0, <1>2 DEF Past, PastFiles, Writing
<1>5. PastIsListed'
  BY <1>2, <1>4 DEF PastIsListed, ToolsInv, Past
<1>6. TouchedIsKnown'
  BY <1>0, <1>4 DEF TouchedIsKnown, ToolsInv
<1> QED
  BY <1>0, <1>1, <1>3, <1>4, <1>5, <1>6, NoMoreCommitted DEF ToolsInv

\* A step that does not touch the tools keeps their invariant.
LEMMA ToolsIdleInv == ToolsInv /\ UNCHANGED tools => ToolsInv'
  BY DEF ToolsInv, ToolsTypeOK, PastIsListed, TouchedIsKnown, CommittedIsBounded,
         Bound, PastFiles, Writing, Past, tools

LEMMA ToolsStepInv == ToolsInv /\ [Next]_vars => ToolsInv'
<1> SUFFICES ASSUME ToolsInv, [Next]_vars PROVE ToolsInv'
  OBVIOUS
<1>1. ASSUME NEW t \in Threads, StartCall(t) \/ ToolStep(t) PROVE ToolsInv'
  BY <1>1, CheckInv, StartOrReadInv, OpenInv, WriteInv, CountInv DEF ToolStep
<1>2. CASE UNCHANGED tools
  BY <1>2, ToolsIdleInv
<1> QED
  BY <1>1, <1>2 DEF Next, ToolsGo, vars

\* What the bound says of the committed files it says of the touched ones.
LEMMA ToolsInvKeepsConstraints == ToolsInv => ToolsKeepConstraints
<1> SUFFICES ASSUME ToolsInv PROVE ToolsKeepConstraints
  OBVIOUS
<1> DEFINE U == changed \cup PastFiles
<1>1. touched \subseteq U \cup spoiled
  BY DEF ToolsInv, TouchedIsKnown, Writing, PastFiles, Past
<1>2. IsFiniteSet(U) /\ IsFiniteSet(spoiled) /\ IsFiniteSet(touched)
  BY FiniteFiles DEF ToolsInv
<1>3. IsFiniteSet(U \cap spoiled)
  BY <1>2, FS_Subset
<1>4. /\ IsFiniteSet(U \cup spoiled)
      /\ Cardinality(U \cup spoiled) =
           Cardinality(U) + Cardinality(spoiled) - Cardinality(U \cap spoiled)
  BY <1>2, FS_Union
<1>5. Cardinality(touched) <= Cardinality(U \cup spoiled)
  BY <1>1, <1>4, FS_Subset
<1>6. /\ Cardinality(U) \in Nat /\ Cardinality(spoiled) \in Nat
      /\ Cardinality(U \cap spoiled) \in Nat /\ Cardinality(touched) \in Nat
      /\ Bound \in Int
  BY <1>2, <1>3, FS_CardinalityType, ToolsAssumption DEF Bound, ToolsInv, ToolsTypeOK
<1>7. Cardinality(touched) <= Bound + Cardinality(spoiled)
  BY <1>4, <1>5, <1>6 DEF ToolsInv, CommittedIsBounded
<1> QED
  BY <1>7 DEF ToolsKeepConstraints, ToolsInv, TouchedIsKnown, Bound

-----------------------------------------------------------------------------
\* The numbers of the deadline, and what the headroom is.
LEMMA Times ==
  ASSUME DeadlineTypeOK
  PROVE  /\ framework \in Frameworks /\ timeout_s \in Nat /\ timeout_s >= 1
         /\ clock \in Nat /\ clock <= timeout_s
         /\ armedAt \in Int /\ windup \in Nat /\ Windup \in Nat /\ windup <= Windup
         /\ SoftDeadline \in Nat /\ Due \in Int
<1>1. framework \in Frameworks /\ timeout_s \in Nat \ {0}
  BY DeadlineAssumption DEF DeadlineTypeOK
<1>2. armedAt \in Int /\ clock \in Nat /\ clock <= timeout_s
      /\ windup \in Nat /\ Windup \in Nat /\ windup <= Windup
  BY <1>1, DeadlineAssumption DEF DeadlineTypeOK, Never
<1>3. SoftDeadline \in Nat
  BY <1>1 DEF SoftDeadline, Larger
<1> QED
  BY <1>1, <1>2, <1>3 DEF Due

\* The timer's length is what timeout_s leaves besides the headroom.
LEMMA HeadroomIsTheRest == DeadlineTypeOK => timeout_s - SoftDeadline = Headroom
<1> SUFFICES ASSUME DeadlineTypeOK PROVE timeout_s - SoftDeadline = Headroom
  OBVIOUS
<1>1. framework \in Frameworks /\ timeout_s \in Nat
  BY Times
<1>2. CASE framework = "pydantic-ai"
  BY <1>1, <1>2 DEF SoftDeadline, Larger, Headroom
<1>3. CASE framework = "deepagents"
  BY <1>1, <1>3 DEF SoftDeadline, Larger, Headroom
<1> QED
  BY <1>1, <1>2, <1>3 DEF Frameworks

LEMMA DueStays ==
  ASSUME UNCHANGED setting, armedAt' = armedAt
  PROVE  framework' = framework /\ timeout_s' = timeout_s /\ Due' = Due
  BY DEF setting, Due, SoftDeadline

LEMMA DeadlineInitInv == DeadlineInit => DeadlineInv
<1> SUFFICES ASSUME DeadlineInit PROVE DeadlineInv
  OBVIOUS
<1>1. PICK s \in Settings : framework = s[1] /\ timeout_s = s[2]
  BY DEF DeadlineInit
<1>2. <<framework, timeout_s>> = s
  BY <1>1, DeadlineAssumption
<1>3. s[1] \in Frameworks /\ s[2] \in Nat /\ s[2] >= 1
  BY <1>1, DeadlineAssumption
<1>4. out \in Seq({"answer", "error"})
  BY EmptySeq DEF DeadlineInit
<1>5. DeadlineTypeOK
  <2>1. <<framework, timeout_s>> \in Settings /\ timeout_s \in Nat /\ Windup \in Nat
    BY <1>1, <1>2, <1>3, DeadlineAssumption
  <2>2. clock \in 0..timeout_s /\ windup \in 0..Windup
    BY <2>1 DEF DeadlineInit
  <2>3. armedAt \in 0..timeout_s \cup {Never}
    BY DEF DeadlineInit
  <2>4. step \in Steps /\ timer \in {"off", "armed", "firing", "signal"}
        /\ life \in {"running", "exited", "killed"} /\ status \in {0, 1}
    BY DEF DeadlineInit, Steps
  <2>5. exc \in BOOLEAN /\ captured \in BOOLEAN /\ late \in BOOLEAN /\ held \in BOOLEAN
        /\ mute \in BOOLEAN
    BY DEF DeadlineInit
  <2> QED
    BY <1>4, <2>1, <2>2, <2>3, <2>4, <2>5 DEF DeadlineTypeOK
<1> QED
  BY <1>5 DEF DeadlineInv, DeadlineInit, TimerIsArmed, InTime, Written, TimerIsOff,
              Unanswered

\* The timer is armed: what is left of it is all that is left of the clock.
LEMMA ArmInv == DeadlineInv /\ life = "running" /\ Arm => DeadlineInv'
<1> SUFFICES ASSUME DeadlineInv, life = "running", Arm PROVE DeadlineInv'
  OBVIOUS
<1> USE DEF Goes, setting, process, history
<1>1. DeadlineTypeOK /\ step = "start" /\ (Unanswered \/ late)
  BY DEF DeadlineInv, Arm, Written
<1>2. DeadlineTypeOK'
  BY DEF DeadlineInv, DeadlineTypeOK, Arm, Steps
<1>3. InTime'
  <2>1. framework' = framework /\ timeout_s' = timeout_s /\ windup' = windup
        /\ clock' = clock /\ armedAt' = clock
    BY DEF Arm
  <2>2. Due' = clock + SoftDeadline
    BY <2>1 DEF Due, SoftDeadline
  <2> QED
    BY <2>1, <2>2, Times DEF InTime, DeadlineInv
<1>4. TimerIsArmed'
  BY Times DEF TimerIsArmed, Arm, DeadlineInv, Never
<1> QED
  BY <1>2, <1>3, <1>4 DEF DeadlineInv, Arm, Written, TimerIsOff, Unanswered

\* The other steps of the main thread.
LEMMA MainInv ==
  ASSUME DeadlineInv, life = "running",
         \/ BadRequest \/ SubmitReport \/ AgentEnds \/ Unwound \/ Disarm \/ Build
         \/ Emit \/ AnswerFails \/ Handle \/ HandleFails \/ Return \/ Exit
  PROVE  DeadlineInv'
<1> USE DEF Goes, setting, process, main, history
<1>0. UNCHANGED <<framework, timeout_s, clock, armedAt, windup, held>>
  BY DEF BadRequest, SubmitReport, AgentEnds, Unwound, Disarm, Build, Emit, AnswerFails,
         Handle, HandleFails, Return, Exit
<1>1. Due' = Due
  BY <1>0, DueStays
<1>2. DeadlineTypeOK'
  <2>1. step' \in Steps /\ exc' \in BOOLEAN /\ captured' \in BOOLEAN
    BY DEF DeadlineInv, DeadlineTypeOK, Steps, AfterFinally, BadRequest, SubmitReport,
           AgentEnds, Unwound, Disarm, Build, Emit, AnswerFails, Handle, HandleFails,
           Return, Exit
  <2>2. timer' \in {"off", "armed", "firing", "signal"} /\ late' \in BOOLEAN
       /\ mute' \in BOOLEAN
    BY DEF DeadlineInv, DeadlineTypeOK, BadRequest, SubmitReport,
           AgentEnds, Unwound, Disarm, Build, Emit, AnswerFails, Handle, HandleFails,
           Return, Exit
  <2>3. status' \in {0, 1} /\ life' \in {"running", "exited", "killed"}
    BY DEF DeadlineInv, DeadlineTypeOK, BadRequest, SubmitReport,
           AgentEnds, Unwound, Disarm, Build, Emit, AnswerFails, Handle, HandleFails,
           Return, Exit
  <2>4. out' = out \/ \E e \in {"answer", "error"} : out' = Append(out, e)
    BY DEF BadRequest, SubmitReport, AgentEnds, Unwound, Disarm, Build, Emit, AnswerFails,
           Handle, HandleFails, Return, Exit
  <2>5. out \in Seq({"answer", "error"})
    BY DEF DeadlineInv, DeadlineTypeOK
  <2>6. \A e \in {"answer", "error"} : Append(out, e) \in Seq({"answer", "error"})
    BY <2>5, AppendProperties
  <2>7. out' \in Seq({"answer", "error"})
    BY <2>4, <2>5, <2>6
  <2> QED
    BY <1>0, <2>1, <2>2, <2>3, <2>7 DEF DeadlineInv, DeadlineTypeOK
<1>3. TimerIsArmed'
  BY <1>0 DEF DeadlineInv, TimerIsArmed, AfterFinally, BadRequest, SubmitReport,
           AgentEnds, Unwound, Disarm, Build, Emit, AnswerFails, Handle, HandleFails,
           Return, Exit
<1>4. InTime'
  BY <1>0, <1>1 DEF DeadlineInv, InTime, TimerIsArmed, BadRequest, SubmitReport,
           AgentEnds, Unwound, Disarm, Build, Emit, AnswerFails, Handle, HandleFails,
           Return, Exit
<1>5. ~ late' => ~ late
  BY DEF BadRequest, SubmitReport, AgentEnds, Unwound, Disarm, Build, Emit, AnswerFails,
         Handle, HandleFails, Return, Exit
<1>6. ASSUME ~ late' PROVE Written'
  <2>1. Written
    BY <1>5, <1>6 DEF DeadlineInv
  <2>2. CASE \/ BadRequest \/ SubmitReport \/ AgentEnds \/ Unwound \/ Disarm \/ Build
             \/ AnswerFails \/ Exit
    BY <2>1, <2>2 DEF Written, Unanswered, Answer, Error, GaveUp, AfterFinally, BadRequest,
           SubmitReport, AgentEnds, Unwound, Disarm, Build, AnswerFails, Exit
  <2>3. CASE Emit
    BY <2>1, <2>3 DEF Written, Unanswered, Answer, Error, Emit
  <2>4. CASE Handle
    BY <2>1, <2>4 DEF Written, Unanswered, Answer, Error, Handle
  <2>5. CASE HandleFails
    BY <2>1, <2>5 DEF Written, Unanswered, Answer, Error, GaveUp, HandleFails
  <2>6. CASE Return
    BY <2>1, <2>6 DEF Written, Unanswered, Answer, Error, GaveUp, Return
  <2> QED
    BY <2>2, <2>3, <2>4, <2>5, <2>6
<1>7. ASSUME ~ late' PROVE TimerIsOff'
  <2>1. TimerIsOff
    BY <1>5, <1>7 DEF DeadlineInv
  <2>2. timer \in {"off", "armed", "firing", "signal"}
    BY DEF DeadlineInv, DeadlineTypeOK
  <2> QED
    BY <1>7, <2>1, <2>2 DEF DeadlineInv, TimerIsArmed, TimerIsOff, AfterFinally, BadRequest,
           SubmitReport, AgentEnds, Unwound, Disarm, Build, Emit, AnswerFails, Handle,
           HandleFails, Return, Exit
<1>8. (life' = "exited" => step' = "exit") /\ life' # "killed"
  BY DEF BadRequest, SubmitReport, AgentEnds, Unwound, Disarm, Build, Emit, AnswerFails,
         Handle, HandleFails, Return, Exit
<1> QED
  BY <1>2, <1>3, <1>4, <1>6, <1>7, <1>8 DEF DeadlineInv

\* The timer fires, the signal is sent, and the harness ends the adapter.
LEMMA TimerInv ==
  ASSUME DeadlineInv, life = "running", TimerFires \/ SendSignal \/ HarnessKills
  PROVE  DeadlineInv'
<1> USE DEF setting, process, main, history
<1>0. UNCHANGED <<framework, timeout_s, clock, step, exc, captured, armedAt, windup, out,
                  status, late, held, mute>>
  BY DEF TimerFires, SendSignal, HarnessKills
<1>1. Due' = Due
  BY <1>0, DueStays
<1>2. DeadlineTypeOK'
  BY <1>0 DEF DeadlineInv, DeadlineTypeOK, TimerFires, SendSignal, HarnessKills
<1>3. TimerIsArmed' /\ InTime'
  BY <1>0, <1>1 DEF DeadlineInv, TimerIsArmed, InTime, TimerFires, SendSignal, HarnessKills
<1>4. ~ late => Written' /\ TimerIsOff'
  BY <1>0 DEF DeadlineInv, Written, Unanswered, Answer, Error, GaveUp, TimerIsOff, TimerFires,
              SendSignal, HarnessKills
<1>5. life' # "exited" /\ (life' = "killed" => clock' = timeout_s')
  BY <1>0 DEF TimerFires, SendSignal, HarnessKills
<1> QED
  BY <1>0, <1>2, <1>3, <1>4, <1>5 DEF DeadlineInv

\* A signal interrupts the main thread.
LEMMA InterruptInv ==
  ASSUME DeadlineInv, life = "running", InterruptAgent \/ InterruptRest
  PROVE  DeadlineInv'
<1> USE DEF Goes, setting, process, main, history
<1>0. /\ UNCHANGED <<framework, timeout_s, clock, armedAt, windup, out, life, late>>
      /\ timer = "signal" /\ timer' = "off" /\ step # "start"
  BY DEF InterruptAgent, InterruptRest
<1>1. Due' = Due
  BY <1>0, DueStays
<1>2. DeadlineTypeOK'
  BY <1>0 DEF DeadlineInv, DeadlineTypeOK, Steps, InterruptAgent, InterruptRest
<1>3. TimerIsArmed'
  BY <1>0 DEF DeadlineInv, TimerIsArmed, InterruptAgent, InterruptRest
<1>4. InTime'
  BY <1>0, <1>1 DEF DeadlineInv, InTime, TimerIsArmed, InterruptAgent, InterruptRest
<1>5. ~ late => step \in {"agent", "unwind", "finally"}
  BY <1>0 DEF DeadlineInv, TimerIsOff
<1>6. ~ late => Written' /\ TimerIsOff'
  BY <1>0, <1>5 DEF DeadlineInv, Written, Unanswered, TimerIsOff, InterruptAgent,
                    InterruptRest
<1> QED
  BY <1>0, <1>2, <1>3, <1>4, <1>6 DEF DeadlineInv

\* A second passes: before the timer is due, or while the adapter winds up.
LEMMA TickInv == DeadlineInv /\ life = "running" /\ Tick => DeadlineInv'
<1> SUFFICES ASSUME DeadlineInv, life = "running", Tick PROVE DeadlineInv'
  OBVIOUS
<1> USE DEF setting, process, main, history
<1>0. /\ UNCHANGED <<framework, timeout_s, step, exc, captured, timer, armedAt, out, life,
                     status, late, held, mute>>
      /\ clock' = clock + 1 /\ clock < timeout_s
      /\ windup' = IF step \in Quick THEN windup + 1 ELSE windup
      /\ step \in Quick => windup < Windup
  BY DEF Tick
<1>1. Due' = Due
  BY <1>0, DueStays
<1>2. /\ clock \in Nat /\ timeout_s \in Nat /\ windup \in Nat /\ Windup \in Nat
      /\ windup <= Windup /\ Due \in Int
  BY Times DEF DeadlineInv
<1>3. clock' \in 0..timeout_s' /\ windup' \in 0..Windup
  BY <1>0, <1>2
<1>4. DeadlineTypeOK'
  BY <1>0, <1>3 DEF DeadlineInv, DeadlineTypeOK
<1>5. InTime'
  <2>1. CASE step = "agent"
    <3>1. ~ held => clock < Due
      BY <1>2, <2>1 DEF Tick, DeadlineInv, TimerIsArmed, DeadlineTypeOK
    <3> QED
      BY <1>0, <1>1, <1>2, <2>1, <3>1 DEF InTime, Quick
  <2>2. CASE step \in Quick
    BY <1>0, <1>1, <1>2, <2>2 DEF InTime, DeadlineInv
  <2>3. CASE step \in {"start", "unwind", "exit"}
    BY <1>0, <2>3 DEF InTime, DeadlineInv, TimerIsArmed
  <2> QED
    BY <2>1, <2>2, <2>3 DEF DeadlineInv, DeadlineTypeOK, Steps, Quick
<1> QED
  BY <1>0, <1>4, <1>5 DEF DeadlineInv, TimerIsArmed, Written, Unanswered, Answer, Error,
                          GaveUp, TimerIsOff

LEMMA DeadlineStepInv == DeadlineInv /\ [Next]_vars => DeadlineInv'
<1> SUFFICES ASSUME DeadlineInv, [Next]_vars PROVE DeadlineInv'
  OBVIOUS
<1>1. CASE UNCHANGED deadline
  BY <1>1 DEF deadline, DeadlineInv, DeadlineTypeOK, TimerIsArmed, InTime, Due,
     SoftDeadline, Written, Unanswered, Answer, Error, GaveUp, TimerIsOff
<1>2. CASE life = "running" /\ (AgentGoes \/ TimeGoes)
  BY <1>2, ArmInv, MainInv, TimerInv, InterruptInv, TickInv DEF AgentGoes, TimeGoes
<1> QED
  BY <1>1, <1>2 DEF Next, ToolsGo, vars

\* The adapter that was killed was within the time of its timer and its winding up.
LEMMA KilledInTime == DeadlineInv => SilenceHasCause
<1> SUFFICES ASSUME DeadlineInv, life = "killed", out = <<>>, armedAt # Never,
                    ~ held, ~ late, ~ mute
             PROVE  armedAt + Windup >= Headroom
  BY DEF SilenceHasCause
<1>1. clock = timeout_s /\ step # "exit"
  BY DEF DeadlineInv, Written, Answer, Error, GaveUp
<1>2. timeout_s <= (armedAt + SoftDeadline) + windup
  BY <1>1 DEF DeadlineInv, InTime, Due
<1> QED
  BY <1>2, Times, HeadroomIsTheRest DEF DeadlineInv

LEMMA OneAnswer == DeadlineInv => OneEnvelope
<1> SUFFICES ASSUME DeadlineInv, ~ late
             PROVE  /\ Len(out) <= 1
                    /\ life = "exited" => Answer \/ Error \/ GaveUp
  BY DEF OneEnvelope, Unanswered, Answer, Error, GaveUp
<1>1. Written /\ step \in Steps
  BY DEF DeadlineInv, DeadlineTypeOK
<1>2. Unanswered \/ Answer \/ Error
  BY <1>1 DEF Written, Steps, GaveUp
<1>3. Len(out) <= 1
  BY <1>2 DEF Unanswered, Answer, Error
<1> QED
  BY <1>1, <1>3 DEF Written, DeadlineInv

-----------------------------------------------------------------------------
Inv == ToolsInv /\ DeadlineInv

LEMMA InvHolds == Spec => []Inv
<1>1. Init => Inv
  BY ToolsInitInv, DeadlineInitInv DEF Init, Inv
<1>2. Inv /\ [Next]_vars => Inv'
  BY ToolsStepInv, DeadlineStepInv DEF Inv
<1> QED
  BY <1>1, <1>2, PTL DEF Spec

\* The variables of the main thread, of its timer and of the tool calls keep
\* their types (pydantic-ai/adapter.py, deepagents/adapter.py).
THEOREM TypeCorrect == Spec => []TypeOK
<1>1. Inv => TypeOK
  BY DEF Inv, ToolsInv, DeadlineInv, TypeOK
<1> QED
  BY <1>1, InvHolds, PTL

\* The tools change no excluded file, and overrun max_changed_files only by
\* calls that were checked at the same time and by writes that failed
\* (_check_edit_constraints, write_file, edit_file).
THEOREM ConstraintsAreKept == Spec => []ToolsKeepConstraints
<1>1. Inv => ToolsKeepConstraints
  BY ToolsInvKeepsConstraints DEF Inv
<1> QED
  BY <1>1, InvHolds, PTL

\* Unless its timer was cancelled too late, an adapter writes one envelope at
\* most, and one when it ends by itself, with the exit status that fits; none
\* only if the error could not be written, with exit status 1 (main() of both
\* adapters).
THEOREM AnswersOnce == Spec => []OneEnvelope
<1>1. Inv => OneEnvelope
  BY OneAnswer DEF Inv
<1> QED
  BY <1>1, InvHolds, PTL

\* An adapter that the harness had to end without an answer never started its
\* agent, was given no time to wind up in, or lost its grip on the timer: the
\* agent's library caught the exception or the cancellation came too late; or it
\* had ended but for a thread, without being able to write its error.
THEOREM SilenceIsExplained == Spec => []SilenceHasCause
<1>1. Inv => SilenceHasCause
  BY KilledInTime DEF Inv
<1> QED
  BY <1>1, InvHolds, PTL
=============================================================================
