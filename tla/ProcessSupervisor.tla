-------------------------- MODULE ProcessSupervisor --------------------------
(***************************************************************************)
(* How the harness supervises one child: an adapter (run_cell), a test     *)
(* command (run_test_command) or a framework's setup.  The child leads a   *)
(* process group of its own.  The harness waits for it until a deadline,   *)
(* then ends whatever is left of the group (terminate_process_tree) and    *)
(* gives the threads that pump its pipes a bounded time to finish.  The    *)
(* child and its descendants do as they please: they ignore SIGTERM, leave *)
(* the group, keep a pipe open, never read their input, write too much.    *)
(*                                                                         *)
(* The state starts when Popen has returned and the threads run.  stderr   *)
(* is pumped like stdout but never read back, and is left out.             *)
(***************************************************************************)
EXTENDS Integers, FiniteSets

CONSTANT Cap   \* size beyond which output is cut, see Sizes

\* Output is measured in four sizes: nothing, part of an envelope, exactly
\* one envelope, and more than that.
Whole == 2
Sizes == 0..3

ASSUME SupervisorAssumption == Cap \in Sizes \ {0}

VARIABLES hasStdin,   \* the child is sent a request (run_cell only)
          step,       \* the harness thread
          timedOut,   \* its timed_out
          expired,    \* the deadline t0 + timeout_s has passed
          killed,     \* SIGKILL was sent to the group
          life,       \* what became of each process
          status,     \* the leader's exit status
          holders,    \* per pipe, the processes that have the child's end open
          sent,       \* how much was written to stdout
          log,        \* how much of it is in stdout.log
          pump,       \* per pipe, the harness thread that serves it
          truncated,  \* stdout_truncated, set when the stdout thread ends
          verdict,    \* error_reason
          response    \* response.json was written

main == <<step, timedOut, killed>>
child == <<life, status, holders, sent>>
pumps == <<log, pump, truncated>>
result == <<verdict, response>>
vars == <<hasStdin, main, expired, child, pumps, result>>

\* kin stands for the leader's descendants in its group, detached for those
\* that started a session of their own.
Group == {"leader", "kin"}
Processes == Group \cup {"detached"}
Pipes == {"stdin", "stdout"}
Steps == {"wait", "term", "grace", "kill", "reap", "settle", "joinStdin",
          "drain", "close", "lastJoin", "collect", "done"}
Verdicts == {"none", "timeout", "nonzero_exit", "missing_response",
             "malformed_response"}

Init == /\ hasStdin \in BOOLEAN
        /\ step = "wait"
        /\ timedOut = FALSE /\ expired = FALSE /\ killed = FALSE
        /\ life = [p \in Processes |-> IF p = "leader" THEN "running" ELSE "unborn"]
        /\ status = "none"
        /\ holders = [q \in Pipes |-> IF q = "stdin" /\ ~ hasStdin
                                        THEN {} ELSE {"leader"}]
        /\ sent = 0 /\ log = 0
        /\ pump = [q \in Pipes |-> IF q = "stdin" /\ ~ hasStdin
                                     THEN "done" ELSE "running"]
        /\ truncated = FALSE
        /\ verdict = "none" /\ response = FALSE

-----------------------------------------------------------------------------
(***************************************************************************)
(* The child and its descendants.                                          *)
(***************************************************************************)

Child == UNCHANGED <<hasStdin, main, expired, pumps, result>>

\* A new process inherits its parent's ends of the pipes.
Fork(parent, p) ==
    /\ life[parent] = "running" /\ life[p] = "unborn"
    /\ life' = [life EXCEPT ![p] = "running"]
    /\ holders' = [q \in Pipes |-> IF parent \in holders[q]
                                     THEN holders[q] \cup {p} ELSE holders[q]]
    /\ UNCHANGED <<status, sent>>
    /\ Child

ClosePipe(p, q) == /\ life[p] = "running" /\ p \in holders[q]
                   /\ holders' = [holders EXCEPT ![q] = @ \ {p}]
                   /\ UNCHANGED <<life, status, sent>>
                   /\ Child

WriteOut(p) == /\ life[p] = "running" /\ p \in holders["stdout"]
               /\ sent + 1 \in Sizes
               /\ sent' = sent + 1
               /\ UNCHANGED <<life, status, holders>>
               /\ Child

\* A process that ends closes its pipes; the leader stays a zombie until the
\* harness waits for it.
End(p, code) ==
    /\ life' = [life EXCEPT ![p] = IF p = "leader" THEN "zombie" ELSE "gone"]
    /\ status' = IF p = "leader" THEN code ELSE status
    /\ holders' = [q \in Pipes |-> holders[q] \ {p}]
    /\ UNCHANGED sent
    /\ Child

\* Of its own accord, by a crash, or because of a SIGTERM it does not ignore.
Exit(p, code) == life[p] = "running" /\ End(p, code)

DieKilled(p) == life[p] = "dying" /\ End(p, "nonzero")

Deadline == /\ ~ expired
            /\ expired' = TRUE
            /\ UNCHANGED <<hasStdin, main, child, pumps, result>>

ChildStep == \/ \E parent \in Group : Fork(parent, "detached")
             \/ Fork("leader", "kin")
             \/ \E p \in Processes, q \in Pipes : ClosePipe(p, q)
             \/ \E p \in Processes : WriteOut(p)
             \/ \E p \in Processes, code \in {"zero", "nonzero"} : Exit(p, code)
             \/ \E p \in Group : DieKilled(p)

-----------------------------------------------------------------------------
(***************************************************************************)
(* The threads that serve the pipes.                                       *)
(***************************************************************************)

Least(m, n) == IF m < n THEN m ELSE n
Kept == Least(sent, Cap)

Pump == UNCHANGED <<hasStdin, main, expired, child, result>>

EndPump(q) == pump' = [pump EXCEPT ![q] = "done"]

\* The request fits into the pipe, or somebody reads it.
WriteStdin == /\ pump["stdin"] = "running" /\ holders["stdin"] # {}
              /\ EndPump("stdin")
              /\ UNCHANGED <<log, truncated>>
              /\ Pump

\* BrokenPipeError: nobody is left to read.
BreakStdin == /\ pump["stdin"] = "running" /\ holders["stdin"] = {}
              /\ EndPump("stdin")
              /\ UNCHANGED <<log, truncated>>
              /\ Pump

\* reader.read returns when its 64 KiB are complete.
PumpChunk == /\ pump["stdout"] = "running" /\ step \notin {"lastJoin", "collect", "done"}
             /\ \E n \in Sizes : log < n /\ n <= Kept /\ log' = n
             /\ UNCHANGED <<pump, truncated>>
             /\ Pump

\* Mutant: what reader.read had not yet returned is not written.
PumpDropsTail == /\ pump["stdout"] = "running" /\ holders["stdout"] = {}
                 /\ truncated' = (sent > Cap)
                 /\ EndPump("stdout")
                 /\ UNCHANGED log
                 /\ Pump

\* End of file: nobody has the pipe open for writing any more.
PumpEnd == /\ pump["stdout"] = "running" /\ holders["stdout"] = {}
           /\ log' = Kept
           /\ truncated' = (sent > Cap)
           /\ EndPump("stdout")
           /\ Pump

\* close_popen_pipes has closed the descriptor under a blocked read.  That
\* read still returns what arrives for it; the next one raises OSError.
PumpLate == /\ pump["stdout"] = "running" /\ step \in {"lastJoin", "collect", "done"}
            /\ log' \in log..Kept
            /\ truncated' = (sent > Cap)
            /\ EndPump("stdout")
            /\ Pump

\* Mutant: a thread gets no time at all to finish.
NotYetDone(q) == pump[q] = "running"

\* A thread that outlasts every grace period.  A thread that can finish does
\* so within one: the grace periods are taken to be long enough for that.
Blocked(q) == pump[q] = "running" /\ holders[q] # {}

-----------------------------------------------------------------------------
(***************************************************************************)
(* The harness thread.                                                     *)
(***************************************************************************)

Main == UNCHANGED <<hasStdin, expired, sent, status, holders, pumps>>

Reap == life' = [life EXCEPT !["leader"] = IF @ = "zombie" THEN "gone" ELSE @]

\* kill(-pgid, 0): a zombie is still a member.
GroupGone(l) == \A p \in Group : l[p] \in {"unborn", "gone"}

\* Where terminate_process_tree returns to.
After(late) == IF hasStdin /\ ~ late THEN "joinStdin" ELSE "drain"

\* Mutant: a child that exits by itself leaves nothing behind.
WaitOnly == /\ step = "wait" /\ life["leader"] = "zombie"
            /\ Reap
            /\ step' = After(FALSE)
            /\ UNCHANGED <<timedOut, killed, result>>
            /\ Main

\* proc.wait(timeout) sees the exit ...
WaitExit == /\ step = "wait" /\ life["leader"] = "zombie"
            /\ Reap
            /\ step' = "term"
            /\ UNCHANGED <<timedOut, killed, result>>
            /\ Main

\* ... or raises TimeoutExpired; the child may exit at that very moment.
WaitExpires == /\ step = "wait" /\ expired
               /\ timedOut' = TRUE
               /\ step' = "term"
               /\ UNCHANGED <<killed, life, result>>
               /\ Main

\* SIGTERM to the group, unless it is empty.
Terminate == /\ step = "term"
             /\ step' = IF GroupGone(life) THEN After(timedOut) ELSE "grace"
             /\ UNCHANGED <<timedOut, killed, life, result>>
             /\ Main

\* Each round of _wait_for_process_group_exit reaps the leader first.
GraceEnds == /\ step \in {"grace", "settle"}
             /\ Reap
             /\ GroupGone(life')
             /\ step' = After(timedOut)
             /\ UNCHANGED <<timedOut, killed, result>>
             /\ Main

GraceExpires == /\ step = "grace"
                /\ Reap
                /\ ~ GroupGone(life')
                /\ step' = "kill"
                /\ UNCHANGED <<timedOut, killed, result>>
                /\ Main

\* SIGKILL to every member that is still there.
Kill == /\ step = "kill"
        /\ life' = [p \in Processes |-> IF p \in Group /\ life[p] = "running"
                                          THEN "dying" ELSE life[p]]
        /\ killed' = TRUE
        /\ step' = "reap"
        /\ UNCHANGED <<timedOut, result>>
        /\ Main

\* proc.wait() without a timeout.
ReapLeader == /\ step = "reap" /\ life["leader"] \in {"zombie", "gone"}
              /\ Reap
              /\ step' = "settle"
              /\ UNCHANGED <<timedOut, killed, result>>
              /\ Main

\* One second for the others; a member may take longer to die.
SettleExpires == /\ step = "settle"
                 /\ ~ GroupGone(life)
                 /\ step' = After(timedOut)
                 /\ UNCHANGED <<timedOut, killed, life, result>>
                 /\ Main

JoinStdin == /\ step = "joinStdin" /\ pump["stdin"] = "done"
             /\ step' = "drain"
             /\ UNCHANGED <<timedOut, killed, life, result>>
             /\ Main

\* The join takes no longer than what is left until the deadline.
JoinStdinExpires == /\ step = "joinStdin" /\ pump["stdin"] = "running"
                    /\ Blocked("stdin") \/ expired
                    /\ timedOut' = TRUE
                    /\ step' = "term"
                    /\ UNCHANGED <<killed, life, result>>
                    /\ Main

Drain == /\ step = "drain" /\ \A q \in Pipes : pump[q] = "done"
         /\ step' = "collect"
         /\ UNCHANGED <<timedOut, killed, life, result>>
         /\ Main

\* Mutant: incomplete output is taken as it is.
DrainGivesUp == /\ step = "drain" /\ \E q \in Pipes : Blocked(q)
                /\ step' = "close"
                /\ UNCHANGED <<timedOut, killed, life, result>>
                /\ Main

\* join_threads_bounded fails: somebody outside the group holds a pipe.
DrainExpires == /\ step = "drain" /\ \E q \in Pipes : Blocked(q)
                /\ timedOut' = TRUE
                /\ step' = "close"
                /\ UNCHANGED <<killed, life, result>>
                /\ Main

ClosePipes == /\ step = "close"
              /\ step' = "lastJoin"
              /\ UNCHANGED <<timedOut, killed, life, result>>
              /\ Main

\* Mutant: the last join has no timeout.
JoinForever == /\ step = "lastJoin" /\ \A q \in Pipes : pump[q] = "done"
               /\ step' = "collect"
               /\ UNCHANGED <<timedOut, killed, life, result>>
               /\ Main

\* 0.2 seconds, whatever comes of it.
LastJoin == /\ step = "lastJoin"
            /\ step' = "collect"
            /\ UNCHANGED <<timedOut, killed, life, result>>
            /\ Main

\* _classify_error; malformed JSON and a violated schema are one here.
Classify == IF timedOut THEN "timeout"
            ELSE IF status = "nonzero" THEN "nonzero_exit"
            ELSE IF log = 0 THEN "missing_response"
            ELSE IF truncated \/ log # Whole THEN "malformed_response"
            ELSE "none"

\* Mutant: a verdict of another vocabulary.
CollectOk == /\ step = "collect"
             /\ verdict' = IF timedOut THEN "timeout" ELSE "ok"
             /\ response' = (log = Whole)
             /\ step' = "done"
             /\ UNCHANGED <<timedOut, killed, life>>
             /\ Main

\* stdout.log is parsed in every case; a valid envelope becomes response.json.
Collect == /\ step = "collect"
           /\ verdict' = Classify
           /\ response' = (log = Whole /\ ~ truncated)
           /\ step' = "done"
           /\ UNCHANGED <<timedOut, killed, life>>
           /\ Main

Harness == \/ WaitExit \/ WaitExpires
           \/ Terminate \/ GraceEnds \/ GraceExpires \/ Kill
           \/ ReapLeader \/ SettleExpires
           \/ JoinStdin \/ JoinStdinExpires
           \/ Drain \/ DrainExpires \/ ClosePipes \/ LastJoin
           \/ Collect

Threads == WriteStdin \/ BreakStdin \/ PumpChunk \/ PumpEnd \/ PumpLate

Next == Harness \/ Threads \/ ChildStep \/ Deadline

Spec == Init /\ [][Next]_vars

\* The harness and its unblocked threads run, time passes, and the kernel
\* ends what was killed.  The child is not assumed to do anything.
Fairness == /\ WF_vars(Harness)
            /\ WF_vars(BreakStdin) /\ WF_vars(PumpEnd)
            /\ WF_vars(Deadline)
            /\ \A p \in Group : WF_vars(DieKilled(p))

FairSpec == Spec /\ Fairness

-----------------------------------------------------------------------------
(***************************************************************************)
(* Properties.                                                             *)
(***************************************************************************)

TypeOK == /\ hasStdin \in BOOLEAN
          /\ step \in Steps
          /\ timedOut \in BOOLEAN /\ expired \in BOOLEAN /\ killed \in BOOLEAN
          /\ life \in [Processes -> {"unborn", "running", "dying", "zombie", "gone"}]
          /\ status \in {"none", "zero", "nonzero"}
          /\ holders \in [Pipes -> SUBSET Processes]
          /\ sent \in Sizes /\ log \in Sizes
          /\ pump \in [Pipes -> {"running", "done"}]
          /\ truncated \in BOOLEAN
          /\ verdict \in Verdicts
          /\ response \in BOOLEAN

Collected == step \in {"collect", "done"}

\* When the harness goes on to the artifacts, the leader has been waited for
\* and no member of its group runs: each has ended or has been killed, also
\* members that ignore SIGTERM and members that outlive the leader.
NoMemberLeftRunning ==
    Collected => life["leader"] = "gone" /\ life["kin"] \notin {"running", "zombie"}

\* "timeout" is reported only if the deadline passed, a descendant left the
\* group, or the group had to be killed: never because of a slow thread.
TimeoutHasCause ==
    step = "done" /\ verdict = "timeout"
      => expired \/ killed \/ life["detached"] # "unborn"

\* Every other verdict is passed on the whole output, cut at the cap and
\* marked so, and from then on nobody writes to stdout.log.
VerdictOnWholeOutput ==
    step = "done" /\ verdict # "timeout"
      => /\ log = Kept
         /\ truncated = (sent > Cap)
         /\ pump["stdout"] = "done" /\ holders["stdout"] = {}

\* An adapter that printed exactly one envelope, exited with 0 before the
\* deadline and started nothing else is reported as a success.
HonestRunSucceeds ==
    (/\ step = "done"
     /\ status = "zero" /\ sent = Whole /\ Cap >= Whole
     /\ ~ expired
     /\ \A p \in Processes \ {"leader"} : life[p] = "unborn")
      => verdict = "none" /\ response

\* The supervision ends, whatever the child does (run_cell's comment:
\* "artifact collection stays bounded by the harness").
RunEnds == <>(step = "done")
=============================================================================
