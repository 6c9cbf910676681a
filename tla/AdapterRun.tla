------------------------------- MODULE AdapterRun -------------------------------
(***************************************************************************)
(* One run of an adapter: its main thread and deadline, and the tool calls *)
(* of its agent, which run in threads.  A call that is under way when the  *)
(* agent is interrupted goes on until the process ends.                    *)
(***************************************************************************)
EXTENDS AdapterDeadline, EditTools

vars == <<deadline, tools>>

Init == DeadlineInit /\ ToolsInit

\* Only the pydantic-ai adapter looks at the edit constraints itself.
ToolsGo == /\ framework = "pydantic-ai"
           /\ \E t \in Threads : \/ step = "agent" /\ StartCall(t)
                                 \/ ToolStep(t)
           /\ UNCHANGED deadline

NoCalls == \A t \in Threads : call[t] = Idle

\* The agent returns when its calls have; an exception does not wait.
AgentGoes == \/ Arm \/ BadRequest \/ SubmitReport
             \/ AgentEnds /\ (exc' \/ NoCalls)
             \/ Unwound \/ Disarm \/ Build \/ Emit \/ AnswerFails \/ Handle
             \/ HandleFails \/ Return \/ Exit

TimeGoes == TimerFires \/ SendSignal \/ InterruptAgent \/ InterruptRest \/ Tick
            \/ HarnessKills

Next == /\ life = "running"
        /\ ToolsGo \/ ((AgentGoes \/ TimeGoes) /\ UNCHANGED tools)

Spec == Init /\ [][Next]_vars

TypeOK == DeadlineTypeOK /\ ToolsTypeOK
=============================================================================
