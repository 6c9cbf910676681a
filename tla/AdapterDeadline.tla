---------------------------- MODULE AdapterDeadline ----------------------------
(***************************************************************************)
(* The main thread of an adapter and its soft deadline.  The harness ends  *)
(* the adapter config.timeout_s after it was spawned; the adapter wants to *)
(* have answered by then, and arms a timer a few seconds shorter around    *)
(* the agent.  pydantic-ai's timer is a thread that sends SIGINT to the    *)
(* process, deepagents' is SIGALRM with a handler that raises.  Signals    *)
(* interrupt the main thread between two of its steps.                     *)
(*                                                                         *)
(* The agent, its library and the model behind it are external.            *)
(***************************************************************************)
EXTENDS Integers, Sequences

CONSTANTS Settings,    \* pairs of a framework and a timeout_s
          Windup       \* bound on the seconds from agent or exception to answer

Frameworks == {"pydantic-ai", "deepagents"}

ASSUME DeadlineAssumption == /\ Settings \subseteq Frameworks \X (Nat \ {0})
                             /\ Windup \in Nat

VARIABLES framework, timeout_s,
          clock,       \* seconds since the adapter was spawned
          step,        \* the next step of main()
          exc,         \* the finally clause was entered by an exception
          captured,    \* submit_report was called (deepagents)
          timer,       \* the soft deadline's timer
          armedAt,     \* when it was armed, or Never
          windup,      \* seconds spent since the agent ended
          out,         \* the envelopes on stdout
          life, status,
          late,        \* history: the timer was cancelled after its last check
          held,        \* history: the agent's library held up the exception
          mute         \* history: the handler could not write its envelope

deadline == <<framework, timeout_s, clock, step, exc, captured, timer, armedAt, windup,
              out, life, status, late, held, mute>>
main == <<step, exc, captured>>
setting == <<framework, timeout_s>>
process == <<life, status>>
history == <<late, held, mute>>

Steps == {"start", "agent", "unwind", "finally", "build", "emit", "return",
          "handler", "giveUp", "exit"}
Quick == {"finally", "build", "emit", "return", "handler", "giveUp"}

Never == -1

Larger(m, n) == IF m > n THEN m ELSE n

\* Mutant: the timer runs for all of timeout_s.
NoMargin == timeout_s

\* _start_watchdog and main() of deepagents, seconds from arming to firing.
SoftDeadline == IF framework = "pydantic-ai" THEN Larger(1, timeout_s - 5)
                                             ELSE Larger(5, timeout_s - 5)

\* When the timer fires.
Due == armedAt + SoftDeadline

DeadlineInit == /\ \E s \in Settings : framework = s[1] /\ timeout_s = s[2]
                /\ clock = 0
                /\ step = "start" /\ exc = FALSE /\ captured = FALSE
                /\ timer = "off" /\ armedAt = Never
                /\ windup = 0
                /\ out = <<>>
                /\ life = "running" /\ status = 0
                /\ late = FALSE /\ held = FALSE /\ mute = FALSE

Goes(s) == step' = s /\ UNCHANGED <<exc, captured>>
-----------------------------------------------------------------------------
\* The interpreter starts, imports, reads the request and builds the agent.
Arm == /\ step = "start"
       /\ Goes("agent")
       /\ timer' = "armed"
       /\ armedAt' = clock
       /\ UNCHANGED <<setting, clock, windup, out, process, history>>

BadRequest == /\ step = "start"
              /\ Goes("handler")
              /\ UNCHANGED <<setting, clock, timer, armedAt, windup, out, process, history>>

SubmitReport == /\ step = "agent" /\ framework = "deepagents"
                /\ captured' = TRUE
                /\ UNCHANGED <<step, exc, setting, clock, timer, armedAt, windup, out, process,
                               history>>

AgentEnds == /\ step = "agent"
             /\ step' = "finally"
             /\ exc' \in BOOLEAN
             /\ UNCHANGED <<captured, setting, clock, timer, armedAt, windup, out, process,
                            history>>

\* The library lets the exception through after all.
Unwound == /\ step = "unwind"
           /\ step' = "finally" /\ exc' = TRUE
           /\ UNCHANGED <<captured, setting, clock, timer, armedAt, windup, out, process,
                          history>>

AfterFinally == IF exc THEN "handler" ELSE "build"

\* Mutant: setitimer is not called when the agent has ended.
NotDisarmed == /\ step = "finally"
               /\ Goes(AfterFinally)
               /\ UNCHANGED <<setting, clock, timer, armedAt, windup, out, process, history>>

\* The finally clause: Timer.cancel() stops a timer that has not passed its
\* check; a SIGALRM that arrives before setitimer returns is raised here.
Disarm == /\ step = "finally"
          /\ framework = "deepagents" => timer # "signal"
          /\ Goes(AfterFinally)
          /\ timer' = IF timer = "armed" THEN "off" ELSE timer
          /\ late' = (late \/ timer \in {"firing", "signal"})
          /\ UNCHANGED <<setting, clock, armedAt, windup, out, process, held, mute>>

Build == /\ step = "build"
         /\ Goes("emit")
         /\ UNCHANGED <<setting, clock, timer, armedAt, windup, out, process, history>>

\* Without a report the deepagents adapter answers with an error.
Answered == framework = "pydantic-ai" \/ captured

Emit == /\ step = "emit"
        /\ Goes("return")
        /\ out' = Append(out, IF Answered THEN "answer" ELSE "error")
        /\ status' = IF Answered THEN 0 ELSE 1
        /\ UNCHANGED <<setting, clock, timer, armedAt, windup, life, history>>

\* The trace or the output cannot be put together or encoded.
AnswerFails == /\ step \in {"build", "emit"}
               /\ Goes("handler")
               /\ UNCHANGED <<setting, clock, timer, armedAt, windup, out, process, history>>

\* except BaseException
Handle == /\ step = "handler"
          /\ Goes("giveUp")
          /\ timer' = IF timer = "armed" THEN "off" ELSE timer
          /\ out' = Append(out, "error")
          /\ status' = 1
          /\ UNCHANGED <<setting, clock, armedAt, windup, life, history>>

\* Its own envelope cannot be put together or encoded: _emit_envelope fails
\* within a try, before the first byte, and main() returns 1 all the same.
HandleFails == /\ step = "handler"
               /\ Goes("giveUp")
               /\ timer' = IF timer = "armed" THEN "off" ELSE timer
               /\ status' = 1
               /\ mute' = TRUE
               /\ UNCHANGED <<setting, clock, armedAt, windup, out, life, late, held>>

Return == /\ step \in {"return", "giveUp"}
          /\ Goes("exit")
          /\ UNCHANGED <<setting, clock, timer, armedAt, windup, out, process, history>>

\* Threads that still run a tool keep the process, for as long as they like.
Exit == /\ step = "exit"
        /\ life' = "exited"
        /\ UNCHANGED <<main, setting, clock, timer, armedAt, windup, out, status, history>>
-----------------------------------------------------------------------------
\* The timer: a thread that checks whether it was cancelled and then sends
\* SIGINT, or the kernel.
TimerFires == /\ timer = "armed" /\ clock >= Due
              /\ timer' = IF framework = "pydantic-ai" THEN "firing" ELSE "signal"
              /\ UNCHANGED <<main, setting, clock, armedAt, windup, out, process, history>>

SendSignal == /\ timer = "firing"
              /\ timer' = "signal"
              /\ UNCHANGED <<main, setting, clock, armedAt, windup, out, process, history>>

\* In the agent the exception goes through its library, which may catch
\* deepagents' _AdapterTimeout and go on, or wait for its threads first.
InterruptAgent ==
    /\ timer = "signal" /\ step = "agent"
    /\ timer' = "off"
    /\ \/ step' = "finally" /\ exc' = TRUE /\ UNCHANGED held
       \/ /\ framework = "deepagents"
          /\ step' \in {"agent", "unwind"} /\ held' = TRUE
          /\ UNCHANGED exc
    /\ UNCHANGED <<captured, setting, clock, armedAt, windup, out, process, late, mute>>

\* Elsewhere inside the try it ends up in the handler, and in the handler it
\* leaves main(), with or without the envelope.
InterruptRest ==
    /\ timer = "signal" /\ step \notin {"start", "agent"}
    /\ timer' = "off"
    /\ Goes(IF step \in {"unwind", "finally", "build", "emit", "return"} THEN "handler"
                                                                       ELSE "exit")
    /\ status' = 1
    /\ UNCHANGED <<setting, clock, armedAt, windup, out, life, history>>

-----------------------------------------------------------------------------
\* Time passes; a timer that is due and a signal do not wait for a second.
Tick == /\ clock < timeout_s
        /\ ~ (timer = "armed" /\ clock >= Due)
        /\ timer \notin {"firing", "signal"}
        /\ step \in Quick => windup < Windup
        /\ clock' = clock + 1
        /\ windup' = IF step \in Quick THEN windup + 1 ELSE windup
        /\ UNCHANGED <<main, setting, timer, armedAt, out, process, history>>

\* run_cell: proc.wait(timeout) has expired, terminate_process_tree.
HarnessKills == /\ clock = timeout_s
                /\ life' = "killed"
                /\ UNCHANGED <<main, setting, clock, timer, armedAt, windup, out, status,
                               history>>

-----------------------------------------------------------------------------
DeadlineTypeOK == /\ <<framework, timeout_s>> \in Settings
                  /\ clock \in 0..timeout_s
                  /\ step \in Steps
                  /\ exc \in BOOLEAN /\ captured \in BOOLEAN
                  /\ timer \in {"off", "armed", "firing", "signal"}
                  /\ armedAt \in 0..timeout_s \cup {Never}
                  /\ windup \in 0..Windup
                  /\ out \in Seq({"answer", "error"})
                  /\ life \in {"running", "exited", "killed"}
                  /\ status \in {0, 1}
                  /\ late \in BOOLEAN /\ held \in BOOLEAN /\ mute \in BOOLEAN

\* An adapter that ends by itself leaves exactly one envelope on stdout, and
\* its exit status says which kind it is.  It never writes a second one, and it
\* writes none only with exit status 1 and because the error itself could not be
\* written.  Excepted is a timer thread that passed its check just before it was
\* cancelled (deepagents/adapter.py:360-427, pydantic-ai/adapter.py:579-675).
OneEnvelope == ~ late => /\ Len(out) <= 1
                         /\ life = "exited" =>
                               \/ out = <<"answer">> /\ status = 0
                               \/ out = <<"error">> /\ status = 1
                               \/ out = <<>> /\ status = 1 /\ mute

\* The seconds between the two deadlines, if the timer was armed at once.
Headroom == LET room == timeout_s - (IF framework = "pydantic-ai" THEN 1 ELSE 5)
            IN  IF room < 5 THEN room ELSE 5

\* If the harness has to end an adapter that has answered nothing, then the
\* agent was not even started, or was started so late, or given so short a
\* timeout_s, that nothing is left of the five seconds' headroom to wind up in,
\* or the agent's library held up the exception, or the error could not be
\* written and a thread held the process ("emits a contract-valid
\* envelope ... before the harness's outer hard-kill fires",
\* frameworks/deepagents/README.md:26; pydantic-ai/adapter.py:563-577).
SilenceHasCause == life = "killed" /\ out = <<>> =>
                       \/ armedAt = Never
                       \/ armedAt + Windup >= Headroom
                       \/ held \/ late \/ mute
=============================================================================
