------------------------ MODULE ProcessSupervisorProofs ------------------------
(***************************************************************************)
(* Proofs about ProcessSupervisor, for every cap on the output.  They are  *)
(* about what the harness concludes when it ends; that it ends (RunEnds)   *)
(* rests on fairness and is left to TLC.                                   *)
(***************************************************************************)
EXTENDS ProcessSupervisor, TLAPS

-----------------------------------------------------------------------------
\* Who may be in which state: only the leader is waited for, and only the
\* group is killed.
Lives == /\ life["leader"] # "unborn"
         /\ life["kin"] # "zombie"
         /\ life["detached"] \notin {"dying", "zombie"}
         /\ \A p \in Processes : life[p] = "dying" => killed

HoldersLive == \A q \in Pipes : \A p \in holders[q] : life[p] \in {"running", "dying"}

\* The group is over, save for members the kernel has still to end.
GroupEnded == /\ life["leader"] = "gone"
              /\ life["kin"] \in {"unborn", "dying", "gone"}

MembersEnd ==
    /\ step = "reap" => /\ life["leader"] \in {"dying", "zombie", "gone"}
                        /\ life["kin"] \in {"unborn", "dying", "gone"}
    /\ step \in {"settle", "joinStdin", "drain", "close", "lastJoin", "collect", "done"}
         => GroupEnded

\* Why the harness signals, kills and gives up.
KillsHaveCause ==
    /\ step = "term" => expired \/ life["leader"] = "gone"
    /\ killed \/ step \in {"grace", "kill"} => expired \/ life["kin"] # "unborn"

TimeoutsHaveCause ==
    /\ timedOut => expired \/ killed \/ life["detached"] # "unborn"
    /\ step \in {"close", "lastJoin"} => timedOut

\* Until a join has given up, a pump that has ended has seen the end of file.
OutputIsWhole ==
    ~ timedOut => /\ Collected => pump["stdout"] = "done"
                  /\ pump["stdout"] = "done" => /\ holders["stdout"] = {}
                                                /\ log = Kept
                                                /\ truncated = (sent > Cap)

VerdictFits ==
    step = "done" => /\ timedOut => verdict = "timeout"
                     /\ ~ timedOut => /\ verdict = Classify
                                      /\ response = (log = Whole /\ ~ truncated)

SupInv == /\ TypeOK
          /\ Lives
          /\ HoldersLive
          /\ MembersEnd
          /\ KillsHaveCause
          /\ TimeoutsHaveCause
          /\ OutputIsWhole
          /\ VerdictFits

-----------------------------------------------------------------------------
LEMMA KeptIsSize ==
  ASSUME TypeOK
  PROVE  /\ Kept \in Sizes
         /\ \A n : n \in log..Kept => n \in Sizes
<1>1. sent \in 0..3 /\ Cap \in 0..3 /\ log \in 0..3
  BY SupervisorAssumption DEF TypeOK, Sizes
<1>2. Kept \in 0..3
  BY <1>1 DEF Kept, Least
<1> QED
  BY <1>1, <1>2 DEF Sizes

LEMMA InitInv == Init => SupInv
<1> SUFFICES ASSUME Init PROVE SupInv
  OBVIOUS
<1> USE DEF Init
<1>1. TypeOK
  <2>1. life \in [Processes -> {"unborn", "running", "dying", "zombie", "gone"}]
    OBVIOUS
  <2>2. holders \in [Pipes -> SUBSET Processes] /\ pump \in [Pipes -> {"running", "done"}]
    BY DEF Processes, Group
  <2>3. step \in Steps /\ verdict \in Verdicts /\ sent \in Sizes /\ log \in Sizes
    BY DEF Steps, Sizes, Verdicts
  <2>4. /\ timedOut \in BOOLEAN /\ expired \in BOOLEAN /\ killed \in BOOLEAN
        /\ truncated \in BOOLEAN /\ response \in BOOLEAN /\ hasStdin \in BOOLEAN
    OBVIOUS
  <2> QED
    BY <2>1, <2>2, <2>3, <2>4 DEF TypeOK
<1>2. Lives /\ HoldersLive /\ MembersEnd /\ KillsHaveCause /\ TimeoutsHaveCause
  BY DEF Lives, HoldersLive, MembersEnd, KillsHaveCause, TimeoutsHaveCause, Processes,
         Group, Pipes
<1>3. OutputIsWhole /\ VerdictFits
  BY DEF OutputIsWhole, VerdictFits, Collected, Pipes
<1> QED
  BY <1>1, <1>2, <1>3 DEF SupInv

-----------------------------------------------------------------------------
\* A new process inherits what its parent has open.  Nobody forks a member
\* once the leader is gone, and nobody gains a pipe that everybody has closed.
LEMMA ForkInv ==
  ASSUME SupInv, NEW parent \in Group, NEW p \in {"kin", "detached"},
         p = "kin" => parent = "leader", Fork(parent, p)
  PROVE  SupInv'
<1> USE DEF SupInv, Child, main, pumps, result
<1>1. /\ life[parent] = "running" /\ life[p] = "unborn"
      /\ parent \in Processes /\ p \in Processes
      /\ life' = [life EXCEPT ![p] = "running"]
      /\ UNCHANGED <<hasStdin, step, timedOut, killed, expired, log, pump, truncated,
                     verdict, response, status, sent>>
  BY DEF Fork, Processes, Group
<1>2. /\ life' \in [Processes -> {"unborn", "running", "dying", "zombie", "gone"}]
      /\ life'[p] = "running"
      /\ \A o \in Processes \ {p} : life'[o] = life[o]
  BY <1>1 DEF TypeOK
<1>3. /\ holders' \in [Pipes -> SUBSET Processes]
      /\ \A q \in Pipes : holders'[q] \subseteq holders[q] \cup {p}
      /\ \A q \in Pipes : holders[q] = {} => holders'[q] = {}
  BY <1>1 DEF Fork, TypeOK
<1>4. TypeOK'
  BY <1>1, <1>2, <1>3 DEF TypeOK
<1>5. Lives' /\ HoldersLive'
  BY <1>1, <1>2, <1>3 DEF Lives, HoldersLive, Processes, Group
<1>6. MembersEnd'
  BY <1>1, <1>2 DEF MembersEnd, GroupEnded, Processes, Group
<1>7. KillsHaveCause' /\ TimeoutsHaveCause'
  BY <1>1, <1>2 DEF KillsHaveCause, TimeoutsHaveCause, Processes, Group
<1>8. OutputIsWhole' /\ VerdictFits'
  BY <1>1, <1>3 DEF OutputIsWhole, VerdictFits, Collected, Kept, Least, Classify, Pipes
<1> QED
  BY <1>4, <1>5, <1>6, <1>7, <1>8

\* A process closes a pipe or writes to it, and the deadline passes.
LEMMA CloseOrWriteInv ==
  ASSUME SupInv,
         \/ \E p \in Processes, q \in Pipes : ClosePipe(p, q)
         \/ \E p \in Processes : WriteOut(p)
         \/ Deadline
  PROVE  SupInv'
<1> USE DEF SupInv, Child, main, pumps, result, child
<1>1. /\ UNCHANGED <<hasStdin, step, timedOut, killed, log, pump, truncated, verdict,
                     response, status, life>>
      /\ expired => expired'
      /\ expired' \in BOOLEAN
  BY DEF ClosePipe, WriteOut, Deadline, TypeOK
<1>2. /\ holders' \in [Pipes -> SUBSET Processes]
      /\ \A q \in Pipes : holders'[q] \subseteq holders[q]
  BY DEF ClosePipe, WriteOut, Deadline, TypeOK
<1>3. sent' \in Sizes /\ (sent' = sent \/ holders["stdout"] # {})
  BY DEF ClosePipe, WriteOut, Deadline, TypeOK
<1>4. TypeOK' /\ Lives' /\ HoldersLive'
  BY <1>1, <1>2, <1>3 DEF TypeOK, Lives, HoldersLive
<1>5. MembersEnd' /\ KillsHaveCause' /\ TimeoutsHaveCause'
  BY <1>1 DEF MembersEnd, GroupEnded, KillsHaveCause, TimeoutsHaveCause
<1>6. OutputIsWhole'
  BY <1>1, <1>2, <1>3 DEF OutputIsWhole, Collected, Kept, Least, Pipes
<1>7. VerdictFits'
  BY <1>1 DEF VerdictFits, Classify
<1> QED
  BY <1>4, <1>5, <1>6, <1>7

\* A process ends by itself or because it was killed: it lets go of the pipes.
LEMMA EndInv ==
  ASSUME SupInv, NEW p \in Processes, NEW code \in {"zero", "nonzero"},
         life[p] \in {"running", "dying"}, End(p, code)
  PROVE  SupInv'
<1> USE DEF SupInv, Child, main, pumps, result
<1>1. UNCHANGED <<hasStdin, step, timedOut, killed, expired, log, pump, truncated,
                  verdict, response, sent>>
  BY DEF End
<1>2. /\ life' \in [Processes -> {"unborn", "running", "dying", "zombie", "gone"}]
      /\ life'[p] = IF p = "leader" THEN "zombie" ELSE "gone"
      /\ \A o \in Processes \ {p} : life'[o] = life[o]
  BY DEF End, TypeOK
<1>3. /\ holders' \in [Pipes -> SUBSET Processes]
      /\ \A q \in Pipes : holders'[q] = holders[q] \ {p}
  BY DEF End, TypeOK
<1>4. status' \in {"none", "zero", "nonzero"} /\ (p # "leader" => status' = status)
  BY DEF End, TypeOK
<1>5. TypeOK'
  BY <1>1, <1>2, <1>3, <1>4 DEF TypeOK
<1>6. Lives' /\ HoldersLive'
  BY <1>1, <1>2, <1>3 DEF Lives, HoldersLive, Processes, Group, TypeOK
<1>7. MembersEnd'
  BY <1>1, <1>2 DEF MembersEnd, GroupEnded, Processes, Group
<1>8. KillsHaveCause' /\ TimeoutsHaveCause'
  BY <1>1, <1>2 DEF KillsHaveCause, TimeoutsHaveCause, MembersEnd, GroupEnded, Processes,
                    Group
<1>9. OutputIsWhole'
  BY <1>1, <1>3 DEF OutputIsWhole, Collected, Kept, Least, Pipes
<1>10. VerdictFits'
  BY <1>1, <1>4 DEF VerdictFits, Classify, MembersEnd, GroupEnded
<1> QED
  BY <1>5, <1>6, <1>7, <1>8, <1>9, <1>10

LEMMA ChildInv == SupInv /\ ChildStep => SupInv'
<1> SUFFICES ASSUME SupInv, ChildStep PROVE SupInv'
  OBVIOUS
<1>1. ASSUME NEW p \in Processes, NEW code \in {"zero", "nonzero"}, Exit(p, code)
      PROVE  SupInv'
  BY <1>1, EndInv DEF Exit
<1>2. ASSUME NEW p \in Group, DieKilled(p) PROVE SupInv'
  BY <1>2, EndInv DEF DieKilled, Processes
<1>3. ASSUME NEW parent \in Group, Fork(parent, "detached") PROVE SupInv'
  BY <1>3, ForkInv
<1>4. ASSUME Fork("leader", "kin") PROVE SupInv'
  BY <1>4, ForkInv DEF Group
<1> QED
  BY <1>1, <1>2, <1>3, <1>4, CloseOrWriteInv DEF ChildStep

-----------------------------------------------------------------------------
\* The threads: the one that reads stdout ends at the end of file, or late,
\* when the harness has given it up.
LEMMA ThreadsInv == SupInv /\ Threads => SupInv'
<1> SUFFICES ASSUME SupInv, Threads PROVE SupInv'
  OBVIOUS
<1> USE DEF SupInv, Pump, EndPump, main, child, result
<1>1. UNCHANGED <<hasStdin, step, timedOut, killed, expired, life, status, holders, sent,
                  verdict, response>>
  BY DEF Threads, WriteStdin, BreakStdin, PumpChunk, PumpEnd, PumpLate
<1>2. Kept' = Kept
  BY <1>1 DEF Kept, Least
<1>3. pump' \in [Pipes -> {"running", "done"}] /\ truncated' \in BOOLEAN
  <2>1. pump' = pump \/ \E q \in Pipes : pump' = [pump EXCEPT ![q] = "done"]
    BY DEF Threads, WriteStdin, BreakStdin, PumpChunk, PumpEnd, PumpLate, Pipes
  <2>2. truncated' = truncated \/ truncated' = (sent > Cap)
    BY DEF Threads, WriteStdin, BreakStdin, PumpChunk, PumpEnd, PumpLate
  <2>3. (sent > Cap) \in BOOLEAN
    OBVIOUS
  <2> QED
    BY <2>1, <2>2, <2>3 DEF TypeOK
<1>4. log' \in Sizes
  BY KeptIsSize DEF Threads, WriteStdin, BreakStdin, PumpChunk, PumpEnd, PumpLate, TypeOK
<1>5. TypeOK' /\ Lives' /\ HoldersLive'
  BY <1>1, <1>3, <1>4 DEF TypeOK, Lives, HoldersLive
<1>6. MembersEnd' /\ KillsHaveCause' /\ TimeoutsHaveCause'
  BY <1>1 DEF MembersEnd, GroupEnded, KillsHaveCause, TimeoutsHaveCause
<1>7. CASE WriteStdin \/ BreakStdin
  <2>1. UNCHANGED <<log, truncated>> /\ pump'["stdout"] = pump["stdout"]
    BY <1>7 DEF WriteStdin, BreakStdin, TypeOK, Pipes
  <2> QED
    BY <1>1, <1>2, <1>5, <1>6, <2>1 DEF OutputIsWhole, VerdictFits, Classify, Collected
<1>8. CASE PumpChunk
  <2>1. /\ pump["stdout"] = "running" /\ ~ Collected
        /\ pump' = pump
    BY <1>8 DEF PumpChunk, Collected
  <2> QED
    BY <1>1, <1>5, <1>6, <2>1 DEF OutputIsWhole, VerdictFits, Collected
<1>9. CASE PumpEnd
  <2>1. /\ pump["stdout"] = "running" /\ holders["stdout"] = {}
        /\ log' = Kept /\ truncated' = (sent > Cap) /\ pump'["stdout"] = "done"
    BY <1>9 DEF PumpEnd, TypeOK, Pipes
  <2> QED
    BY <1>1, <1>2, <1>5, <1>6, <2>1 DEF OutputIsWhole, VerdictFits, Collected
<1>10. CASE PumpLate
  <2>1. pump["stdout"] = "running" /\ step \in {"lastJoin", "collect", "done"}
    BY <1>10 DEF PumpLate
  <2>2. timedOut
    BY <2>1 DEF OutputIsWhole, TimeoutsHaveCause, Collected
  <2> QED
    BY <1>1, <1>5, <1>6, <2>2 DEF OutputIsWhole, VerdictFits, TypeOK
<1> QED
  BY <1>7, <1>8, <1>9, <1>10 DEF Threads

-----------------------------------------------------------------------------
\* Waiting for the leader takes it out of the group once it has ended.
LEMMA ReapEffect ==
  ASSUME TypeOK, Reap
  PROVE  /\ life' \in [Processes -> {"unborn", "running", "dying", "zombie", "gone"}]
         /\ life'["leader"] = IF life["leader"] = "zombie" THEN "gone" ELSE life["leader"]
         /\ life'["kin"] = life["kin"] /\ life'["detached"] = life["detached"]
  BY DEF Reap, TypeOK, Processes, Group

LEMMA AtMostReaped ==
  ASSUME TypeOK, Reap \/ life' = life
  PROVE  /\ \/ life'["leader"] = life["leader"]
            \/ life["leader"] = "zombie" /\ life'["leader"] = "gone"
         /\ life'["kin"] = life["kin"] /\ life'["detached"] = life["detached"]
<1>1. CASE Reap
  BY <1>1, ReapEffect
<1>2. CASE life' = life
  BY <1>2
<1> QED
  BY <1>1, <1>2

\* A step that only reaps keeps what is said about single processes.
LEMMA ReapLives ==
  ASSUME SupInv, Main, killed => killed', Reap \/ life' = life
  PROVE  Lives' /\ HoldersLive'
<1>1. /\ \/ life'["leader"] = life["leader"]
         \/ life["leader"] = "zombie" /\ life'["leader"] = "gone"
      /\ life'["kin"] = life["kin"] /\ life'["detached"] = life["detached"]
  BY AtMostReaped DEF SupInv
<1>2. Lives /\ HoldersLive /\ holders' = holders /\ holders \in [Pipes -> SUBSET Processes]
  BY DEF SupInv, Main, TypeOK
<1>3. Lives'
  BY <1>1, <1>2 DEF Lives, Processes, Group
<1>4. HoldersLive'
  BY <1>1, <1>2 DEF HoldersLive, Processes, Group
<1> QED
  BY <1>3, <1>4

\* The types, for every step of the harness thread.
LEMMA HarnessTypeOK == SupInv /\ Harness => TypeOK'
<1> SUFFICES ASSUME SupInv, Harness PROVE TypeOK'
  OBVIOUS
<1> USE DEF Main, pumps, result
<1>1. UNCHANGED <<hasStdin, expired, sent, status, holders, log, pump, truncated>>
  BY DEF Harness, WaitExit, WaitExpires, Terminate, GraceEnds, GraceExpires, Kill,
         ReapLeader, SettleExpires, JoinStdin, JoinStdinExpires, Drain, DrainExpires,
         ClosePipes, LastJoin, Collect
<1>2. step' \in Steps /\ timedOut' \in BOOLEAN /\ killed' \in BOOLEAN
  BY DEF Harness, WaitExit, WaitExpires, Terminate, GraceEnds, GraceExpires, Kill,
         ReapLeader, SettleExpires, JoinStdin, JoinStdinExpires, Drain, DrainExpires,
         ClosePipes, LastJoin, Collect, After, Steps, SupInv, TypeOK
<1>3. life' \in [Processes -> {"unborn", "running", "dying", "zombie", "gone"}]
  <2>1. CASE Kill
    BY <2>1 DEF Kill, SupInv, TypeOK
  <2>2. CASE Reap \/ life' = life
    BY <2>2, ReapEffect DEF SupInv, TypeOK
  <2> QED
    BY <2>1, <2>2 DEF Harness, WaitExit, WaitExpires, Terminate, GraceEnds, GraceExpires,
         ReapLeader, SettleExpires, JoinStdin, JoinStdinExpires, Drain, DrainExpires,
         ClosePipes, LastJoin, Collect
<1>4. verdict' \in Verdicts /\ response' \in BOOLEAN
  <2>1. CASE Collect
    <3>1. Classify \in Verdicts
      BY DEF Classify, Verdicts
    <3>2. (log = Whole /\ ~ truncated) \in BOOLEAN
      OBVIOUS
    <3> QED
      BY <2>1, <3>1, <3>2 DEF Collect
  <2>2. CASE UNCHANGED <<verdict, response>>
    BY <2>2 DEF SupInv, TypeOK
  <2> QED
    BY <2>1, <2>2 DEF Harness, WaitExit, WaitExpires, Terminate, GraceEnds, GraceExpires,
         Kill, ReapLeader, SettleExpires, JoinStdin, JoinStdinExpires, Drain, DrainExpires,
         ClosePipes, LastJoin
<1> QED
  BY <1>1, <1>2, <1>3, <1>4 DEF SupInv, TypeOK

\* proc.wait returns or times out: the group is signalled in either case.
LEMMA WaitInv == SupInv /\ (WaitExit \/ WaitExpires) => SupInv'
<1> SUFFICES ASSUME SupInv, WaitExit \/ WaitExpires PROVE SupInv'
  OBVIOUS
<1>1. TypeOK'
  BY HarnessTypeOK DEF Harness
<1>2. Main /\ step' = "term" /\ killed' = killed /\ (Reap \/ life' = life)
  BY DEF WaitExit, WaitExpires
<1>3. UNCHANGED <<expired, sent, status, holders, log, pump, truncated>>
  BY <1>2 DEF Main, pumps
<1>4. Lives' /\ HoldersLive'
  BY <1>2, ReapLives
<1>5. MembersEnd' /\ VerdictFits'
  BY <1>2 DEF MembersEnd, VerdictFits
<1>6. life'["leader"] = "gone" \/ expired
  BY ReapEffect DEF WaitExit, WaitExpires, SupInv
<1>7. life'["kin"] = life["kin"] /\ life'["detached"] = life["detached"]
  BY <1>2, ReapEffect DEF SupInv
<1>8. KillsHaveCause' /\ TimeoutsHaveCause'
  BY <1>2, <1>3, <1>6, <1>7 DEF KillsHaveCause, TimeoutsHaveCause, SupInv, WaitExit,
                                WaitExpires
<1>9. OutputIsWhole'
  BY <1>2, <1>3 DEF OutputIsWhole, Collected, SupInv, WaitExit, WaitExpires, Kept, Least
<1> QED
  BY <1>1, <1>4, <1>5, <1>8, <1>9 DEF SupInv

\* SIGTERM and the grace period: either the group is gone, or it will be killed.
LEMMA GraceInv == SupInv /\ (Terminate \/ GraceEnds \/ GraceExpires) => SupInv'
<1> SUFFICES ASSUME SupInv, Terminate \/ GraceEnds \/ GraceExpires PROVE SupInv'
  OBVIOUS
<1>1. TypeOK'
  BY HarnessTypeOK DEF Harness
<1>2. Main /\ UNCHANGED <<timedOut, killed>> /\ (Reap \/ life' = life)
  BY DEF Terminate, GraceEnds, GraceExpires
<1>3. UNCHANGED <<expired, sent, status, holders, log, pump, truncated>>
  BY <1>2 DEF Main, pumps
<1>4. /\ \/ life'["leader"] = life["leader"]
         \/ life["leader"] = "zombie" /\ life'["leader"] = "gone"
      /\ life'["kin"] = life["kin"] /\ life'["detached"] = life["detached"]
  BY <1>2, AtMostReaped DEF SupInv
<1>5. Lives' /\ HoldersLive'
  BY <1>2, ReapLives
<1>6. \/ step' \in {"grace", "kill"}
      \/ /\ step' \in {"joinStdin", "drain"}
         /\ life'["leader"] \in {"unborn", "gone"} /\ life'["kin"] \in {"unborn", "gone"}
  BY DEF Terminate, GraceEnds, GraceExpires, GroupGone, Group, After
<1>7. MembersEnd'
  BY <1>5, <1>6 DEF MembersEnd, GroupEnded, Lives
<1>8. step' \in {"grace", "kill"} => expired \/ life["kin"] # "unborn"
  <2>1. CASE Terminate
    BY <2>1 DEF Terminate, GroupGone, Group, KillsHaveCause, SupInv, After
  <2>2. CASE GraceEnds
    BY <2>2 DEF GraceEnds, After
  <2>3. CASE GraceExpires
    BY <2>3 DEF GraceExpires, KillsHaveCause, SupInv
  <2> QED
    BY <2>1, <2>2, <2>3
<1>9. KillsHaveCause' /\ TimeoutsHaveCause'
  BY <1>2, <1>3, <1>4, <1>6, <1>8 DEF KillsHaveCause, TimeoutsHaveCause, SupInv
<1>10. OutputIsWhole' /\ VerdictFits'
  BY <1>2, <1>3, <1>6 DEF OutputIsWhole, VerdictFits, Collected, SupInv, Kept, Least
<1> QED
  BY <1>1, <1>5, <1>7, <1>9, <1>10 DEF SupInv

\* SIGKILL and what follows it: the leader is waited for, the others need not be.
LEMMA KillInv == SupInv /\ (Kill \/ ReapLeader \/ SettleExpires) => SupInv'
<1> SUFFICES ASSUME SupInv, Kill \/ ReapLeader \/ SettleExpires PROVE SupInv'
  OBVIOUS
<1>1. TypeOK'
  BY HarnessTypeOK DEF Harness
<1>2. Main /\ timedOut' = timedOut /\ step' \in {"reap", "settle", "joinStdin", "drain"}
  BY DEF Kill, ReapLeader, SettleExpires, After
<1>3. UNCHANGED <<expired, sent, status, holders, log, pump, truncated>>
  BY <1>2 DEF Main, pumps
<1>4. CASE Kill
  <2>1. /\ \A p \in Group : life'[p] = IF life[p] = "running" THEN "dying" ELSE life[p]
        /\ life'["detached"] = life["detached"]
        /\ killed' = TRUE /\ step' = "reap" /\ step = "kill"
    BY <1>4 DEF Kill, Processes, Group
  <2>2. Lives' /\ HoldersLive'
    BY <1>3, <2>1 DEF Lives, HoldersLive, Processes, Group, SupInv, TypeOK
  <2>3. MembersEnd'
    BY <2>1 DEF MembersEnd, Group, Processes, SupInv, TypeOK, Lives
  <2>4. KillsHaveCause' /\ TimeoutsHaveCause'
    BY <1>2, <1>3, <2>1 DEF KillsHaveCause, TimeoutsHaveCause, Group, SupInv
  <2>5. OutputIsWhole' /\ VerdictFits'
    BY <1>2, <1>3, <2>1 DEF OutputIsWhole, VerdictFits, Collected, SupInv, Kept, Least
  <2> QED
    BY <1>1, <2>2, <2>3, <2>4, <2>5 DEF SupInv
<1>5. CASE ReapLeader \/ SettleExpires
  <2>1. /\ killed' = killed /\ (Reap \/ life' = life)
        /\ step \in {"reap", "settle"} /\ step' \in {"settle", "joinStdin", "drain"}
    BY <1>5 DEF ReapLeader, SettleExpires, After
  <2>2. Lives' /\ HoldersLive'
    BY <1>2, <2>1, ReapLives
  <2>3. life'["leader"] = "gone" /\ life'["kin"] = life["kin"]
        /\ life'["detached"] = life["detached"]
    BY <1>5, ReapEffect DEF ReapLeader, SettleExpires, SupInv, MembersEnd, GroupEnded
  <2>4. MembersEnd'
    BY <2>1, <2>3 DEF MembersEnd, GroupEnded, SupInv
  <2>5. KillsHaveCause' /\ TimeoutsHaveCause'
    BY <1>2, <1>3, <2>1, <2>3 DEF KillsHaveCause, TimeoutsHaveCause, SupInv
  <2>6. OutputIsWhole' /\ VerdictFits'
    BY <1>2, <1>3, <2>1 DEF OutputIsWhole, VerdictFits, Collected, SupInv, Kept, Least
  <2> QED
    BY <1>1, <2>2, <2>4, <2>5, <2>6 DEF SupInv
<1> QED
  BY <1>4, <1>5

\* The joins: one that gives up has a holder to blame, and once the group is
\* over that is a killed member or somebody outside the group.
LEMMA JoinInv ==
  SupInv /\ (JoinStdin \/ JoinStdinExpires \/ Drain \/ DrainExpires) => SupInv'
<1> SUFFICES ASSUME SupInv, JoinStdin \/ JoinStdinExpires \/ Drain \/ DrainExpires
             PROVE  SupInv'
  OBVIOUS
<1>1. TypeOK'
  BY HarnessTypeOK DEF Harness
<1>2. /\ Main /\ UNCHANGED <<killed, life>>
      /\ step \in {"joinStdin", "drain"} /\ step' \in {"term", "drain", "close", "collect"}
      /\ timedOut => timedOut'
  BY DEF JoinStdin, JoinStdinExpires, Drain, DrainExpires, SupInv, TypeOK
<1>3. UNCHANGED <<expired, sent, status, holders, log, pump, truncated>>
  BY <1>2 DEF Main, pumps
<1>4. GroupEnded
  BY <1>2 DEF SupInv, MembersEnd
<1>5. Lives' /\ HoldersLive' /\ MembersEnd'
  BY <1>2, <1>3, <1>4 DEF Lives, HoldersLive, MembersEnd, GroupEnded, SupInv
<1>6. KillsHaveCause'
  BY <1>2, <1>3, <1>4 DEF KillsHaveCause, GroupEnded, SupInv
<1>7. ASSUME NEW q \in Pipes, Blocked(q) PROVE killed \/ life["detached"] # "unborn"
  <2>1. PICK p \in holders[q] : life[p] \in {"running", "dying"}
    BY <1>7 DEF Blocked, SupInv, HoldersLive
  <2>2. p \in Processes
    BY <2>1 DEF SupInv, TypeOK
  <2> QED
    BY <1>4, <2>1, <2>2 DEF GroupEnded, Lives, SupInv, Processes, Group
<1>8. timedOut' => expired \/ killed \/ life["detached"] # "unborn"
  BY <1>7 DEF JoinStdin, JoinStdinExpires, Drain, DrainExpires, TimeoutsHaveCause, SupInv,
              Pipes
<1>9. TimeoutsHaveCause'
  BY <1>2, <1>3, <1>8 DEF TimeoutsHaveCause, JoinStdin, JoinStdinExpires, Drain,
                          DrainExpires
<1>10. OutputIsWhole' /\ VerdictFits'
  BY <1>2, <1>3 DEF OutputIsWhole, VerdictFits, Collected, SupInv, Kept, Least, JoinStdin,
                    JoinStdinExpires, Drain, DrainExpires, Pipes
<1> QED
  BY <1>1, <1>5, <1>6, <1>9, <1>10 DEF SupInv

\* The pipes are closed, and the verdict is passed.
LEMMA CollectInv == SupInv /\ (ClosePipes \/ LastJoin \/ Collect) => SupInv'
<1> SUFFICES ASSUME SupInv, ClosePipes \/ LastJoin \/ Collect PROVE SupInv'
  OBVIOUS
<1>1. TypeOK'
  BY HarnessTypeOK DEF Harness
<1>2. /\ Main /\ UNCHANGED <<timedOut, killed, life>>
      /\ step \in {"close", "lastJoin", "collect"}
      /\ step' \in {"lastJoin", "collect", "done"}
      /\ step = "collect" => step' = "done"
  BY DEF ClosePipes, LastJoin, Collect
<1>3. UNCHANGED <<expired, sent, status, holders, log, pump, truncated>>
  BY <1>2 DEF Main, pumps
<1>4. Lives' /\ HoldersLive' /\ MembersEnd' /\ KillsHaveCause' /\ TimeoutsHaveCause'
  BY <1>2, <1>3 DEF Lives, HoldersLive, MembersEnd, GroupEnded, KillsHaveCause,
                    TimeoutsHaveCause, SupInv
<1>5. OutputIsWhole'
  BY <1>2, <1>3 DEF OutputIsWhole, Collected, SupInv, TimeoutsHaveCause, Kept, Least
<1>6. VerdictFits'
  <2>1. CASE Collect
    <3>1. Classify' = Classify
      BY <1>2, <1>3 DEF Classify
    <3>2. timedOut => Classify = "timeout"
      BY DEF Classify
    <3> QED
      BY <1>2, <1>3, <2>1, <3>1, <3>2 DEF VerdictFits, Collect
  <2>2. CASE ClosePipes \/ LastJoin
    BY <2>2 DEF VerdictFits, ClosePipes, LastJoin
  <2> QED
    BY <2>1, <2>2
<1> QED
  BY <1>1, <1>4, <1>5, <1>6 DEF SupInv

-----------------------------------------------------------------------------
LEMMA StepInv == SupInv /\ [Next]_vars => SupInv'
<1> SUFFICES ASSUME SupInv, [Next]_vars PROVE SupInv'
  OBVIOUS
<1>1. CASE Harness
  BY <1>1, WaitInv, GraceInv, KillInv, JoinInv, CollectInv DEF Harness
<1>2. CASE Threads
  BY <1>2, ThreadsInv
<1>3. CASE ChildStep \/ Deadline
  BY <1>3, ChildInv, CloseOrWriteInv
<1>4. CASE UNCHANGED vars
  BY <1>4 DEF vars, main, child, pumps, result, SupInv, TypeOK, Lives, HoldersLive,
     MembersEnd, GroupEnded, KillsHaveCause, TimeoutsHaveCause, OutputIsWhole, Collected,
     Kept, Least, VerdictFits, Classify
<1> QED
  BY <1>1, <1>2, <1>3, <1>4 DEF Next

LEMMA InvHolds == Spec => []SupInv
  BY InitInv, StepInv, PTL DEF Spec

\* The harness thread, the pumps and the child keep their types, and the
\* verdict is one of the harness's own (_classify_error).
THEOREM TypeCorrect == Spec => []TypeOK
<1>1. SupInv => TypeOK
  BY DEF SupInv
<1> QED
  BY <1>1, InvHolds, PTL

\* When artifacts are collected, the leader has been waited for and no member
\* of its group runs (terminate_process_tree), whatever the group does.
THEOREM GroupIsEnded == Spec => []NoMemberLeftRunning
<1>1. SupInv => NoMemberLeftRunning
  BY DEF SupInv, MembersEnd, GroupEnded, NoMemberLeftRunning, Collected
<1> QED
  BY <1>1, InvHolds, PTL

\* A "timeout" is never the fault of the harness's own threads alone
\* (run_cell, join_threads_bounded).
THEOREM TimeoutsAreExplained == Spec => []TimeoutHasCause
<1>1. SupInv => TimeoutHasCause
  <2> SUFFICES ASSUME SupInv, step = "done", verdict = "timeout" PROVE timedOut
    BY DEF TimeoutHasCause, SupInv, TimeoutsHaveCause
  <2> QED
    BY DEF SupInv, VerdictFits, Classify
<1> QED
  BY <1>1, InvHolds, PTL

\* Any other verdict rests on the whole output, up to the cap (capture_pipe).
THEOREM VerdictsRestOnOutput == Spec => []VerdictOnWholeOutput
<1>1. SupInv => VerdictOnWholeOutput
  BY DEF SupInv, VerdictFits, OutputIsWhole, Collected, VerdictOnWholeOutput
<1> QED
  BY <1>1, InvHolds, PTL

\* An adapter that answers properly, in time and alone, is reported a success.
THEOREM HonestRunsSucceed == Spec => []HonestRunSucceeds
<1>1. SupInv => HonestRunSucceeds
  <2> SUFFICES ASSUME SupInv, step = "done", status = "zero", sent = Whole, Cap >= Whole,
                      ~ expired, \A p \in Processes \ {"leader"} : life[p] = "unborn"
               PROVE  verdict = "none" /\ response
    BY DEF HonestRunSucceeds
  <2>1. life["kin"] = "unborn" /\ life["detached"] = "unborn"
    BY DEF Processes, Group
  <2>2. ~ killed /\ ~ timedOut
    BY <2>1 DEF SupInv, KillsHaveCause, TimeoutsHaveCause
  <2>3. Kept = Whole /\ ~ (sent > Cap)
    BY SupervisorAssumption DEF Kept, Least, Whole, Sizes
  <2>4. log = Whole /\ ~ truncated
    BY <2>2, <2>3 DEF SupInv, OutputIsWhole, Collected
  <2>5. verdict = "none"
    BY <2>2, <2>4 DEF SupInv, VerdictFits, Classify, Whole
  <2>6. response = (log = Whole /\ ~ truncated)
    BY <2>2 DEF SupInv, VerdictFits
  <2> QED
    BY <2>4, <2>5, <2>6
<1> QED
  BY <1>1, InvHolds, PTL
=============================================================================
