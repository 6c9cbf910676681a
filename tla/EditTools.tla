------------------------------- MODULE EditTools -------------------------------
(***************************************************************************)
(* The tools with which the pydantic-ai adapter lets its agent change      *)
(* files: write_file and edit_file.  Both look the path up in the edit     *)
(* constraints, write, and count the file in _CHANGED_FILES afterwards;    *)
(* the agent library runs the tool calls of one model response at the same *)
(* time, each in a thread.  run_shell changes files without looking at the *)
(* constraints and is not part of what they promise.                       *)
(*                                                                         *)
(* A path is one of Files.  Paths outside the repository, which the tools  *)
(* refuse (_resolve_within), never get as far as the constraints.          *)
(***************************************************************************)
EXTENDS Integers, FiniteSets

CONSTANTS Files,        \* repo-relative paths
          Disallowed,   \* those that disallowed_paths matches
          Allowed,      \* those that allowed_paths matches; Files without a list
          MaxChanged,   \* max_changed_files
          Threads,      \* tool calls that can run at the same time
          MaxCalls      \* bound on tool calls

ASSUME ToolsAssumption == /\ Disallowed \subseteq Files /\ Allowed \subseteq Files
                          /\ IsFiniteSet(Files) /\ IsFiniteSet(Threads)
                          /\ MaxChanged \in Nat /\ MaxCalls \in Nat

VARIABLES changed,   \* _CHANGED_FILES
          touched,   \* the files the tools really have changed
          spoiled,   \* those a write cut off and then failed to fill
          call,      \* per thread, the call it runs: its next step and its file
          calls,     \* number of calls so far
          width      \* history: most calls past the check at the same time

tools == <<changed, touched, spoiled, call, calls, width>>

Tools == {"write_file", "edit_file"}
CallSteps == {"check", "read", "open", "write", "count"}
Calls == [tool : Tools, step : CallSteps, file : Files]
Idle == [step |-> "idle"]

ToolsInit == /\ changed = {} /\ touched = {} /\ spoiled = {}
             /\ call = [t \in Threads |-> Idle]
             /\ calls = 0
             /\ width = 0

At(t, s) == call[t].step = s
GoTo(t, s) == call' = [call EXCEPT ![t].step = s]
EndCall(t) == call' = [call EXCEPT ![t] = Idle]

\* The calls that have passed the check and not yet counted their file.
Past(c) == {t \in Threads : c[t].step \in {"read", "open", "write", "count"}}

-----------------------------------------------------------------------------
\* _check_edit_constraints
Permitted(f) == /\ f \notin Disallowed
                /\ f \in Allowed
                /\ f \in changed \/ Cardinality(changed) + 1 <= MaxChanged

StartCall(t) == /\ call[t] = Idle
                /\ calls < MaxCalls
                /\ \E tool \in Tools, f \in Files :
                      call' = [call EXCEPT ![t] =
                                 [tool |-> tool, step |-> "check", file |-> f]]
                /\ calls' = calls + 1
                /\ UNCHANGED <<changed, touched, spoiled, width>>

Check(t) == /\ At(t, "check")
            /\ IF Permitted(call[t].file)
                 THEN GoTo(t, IF call[t].tool = "edit_file" THEN "read" ELSE "open")
                 ELSE EndCall(t)
            /\ width' = LET n == Cardinality(Past(call'))
                        IN  IF n > width THEN n ELSE width
            /\ UNCHANGED <<changed, touched, spoiled, calls>>

\* edit_file gives up when the file is missing, unreadable or has no match.
Read(t) == /\ At(t, "read")
           /\ GoTo(t, "open") \/ EndCall(t)
           /\ UNCHANGED <<changed, touched, spoiled, calls, width>>

\* Mutant: the file is not truncated when it is opened.
OpenOnly(t) == /\ At(t, "open")
               /\ GoTo(t, "write") \/ EndCall(t)
               /\ UNCHANGED <<changed, touched, spoiled, calls, width>>

\* Opening the file for writing truncates it; an OSError ends the call.
Open(t) == /\ At(t, "open")
           /\ \/ GoTo(t, "write") /\ touched' = touched \cup {call[t].file}
              \/ EndCall(t) /\ UNCHANGED touched
           /\ UNCHANGED <<changed, spoiled, calls, width>>

\* A write that fails leaves the file truncated, and nobody counts it.
Write(t) == /\ At(t, "write")
            /\ \/ GoTo(t, "count") /\ UNCHANGED spoiled
               \/ EndCall(t) /\ spoiled' = spoiled \cup {call[t].file}
            /\ UNCHANGED <<changed, touched, calls, width>>

\* Mutant: only write_file counts its file.
CountWritten(t) == /\ At(t, "count")
                   /\ changed' = IF call[t].tool = "write_file"
                                   THEN changed \cup {call[t].file} ELSE changed
                   /\ EndCall(t)
                   /\ UNCHANGED <<touched, spoiled, calls, width>>

Count(t) == /\ At(t, "count")
            /\ changed' = changed \cup {call[t].file}
            /\ EndCall(t)
            /\ UNCHANGED <<touched, spoiled, calls, width>>

ToolStep(t) == Check(t) \/ Read(t) \/ Open(t) \/ Write(t) \/ Count(t)

-----------------------------------------------------------------------------
ToolsTypeOK == /\ changed \subseteq Files /\ touched \subseteq Files
               /\ spoiled \subseteq touched
               /\ call \in [Threads -> Calls \cup {Idle}]
               /\ calls \in 0..MaxCalls
               /\ width \in 0..Cardinality(Threads)

\* The tools change no file the constraints exclude, and they overrun
\* max_changed_files by no more than the calls that checked it at the same
\* time before either counted, plus the files a failed write truncated without
\* counting: calls made one after the other, none of which fails half way, stay
\* within it (pydantic-ai/adapter.py:123-143, 212-272; "a violating call
\* returns an error: string ... rather than mutating the worktree",
\* frameworks/pydantic-ai/README.md:64).
ToolsKeepConstraints ==
    /\ touched \cap Disallowed = {}
    /\ touched \subseteq Allowed
    /\ Cardinality(touched) <=
          MaxChanged + (IF width = 0 THEN 0 ELSE width - 1) + Cardinality(spoiled)
=============================================================================
