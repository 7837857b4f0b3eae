----------------------------- MODULE TurnEngine -----------------------------
(* The agent engine of one session: the turn loop of novel-core (turn/loop)   *)
(* behind the command queue of novel-server (engine_loop.rs).  One task takes *)
(* the commands one by one and runs each to its end; the UI raises the abort  *)
(* flag from another thread at any moment.  pc is where the running command   *)
(* is, "idle" between two commands.  A command on the queue changes nothing   *)
(* before it is taken, so taking any command when idle covers the queue.      *)
(*                                                                            *)
(* Left out: compaction (module SessionStore), the hook jobs of the sub-agent   *)
(* queue (they add no message), the executor inside a batch.                  *)
EXTENDS Messages, FiniteSets

CONSTANTS
    MaxTurns,    \* bound: messages the author sends
    MaxCalls,    \* bound: tool calls the model makes
    MaxBatch,    \* bound: tool calls of one LLM response
    MaxFaults,   \* bound: failed writes to the database
    MaxReact,    \* settings.agent.max_react_loops, 0 = no limit
    FailLimit,   \* TOOL_FAILURE_CIRCUIT_THRESHOLD
    MaxNudges    \* MAX_TODO_NUDGES

ASSUME BoundsAssumption ==
    /\ MaxTurns \in Nat /\ MaxCalls \in Nat /\ MaxBatch \in Nat /\ MaxFaults \in Nat
ASSUME SettingsAssumption ==
    /\ MaxReact \in Nat /\ FailLimit \in Nat \ {0} /\ MaxNudges \in Nat

Calls == 1 .. MaxCalls

\* What becomes of a call of a batch: the permission check denies it or asks
\* the author, or it runs: to success, to an error, to a question for the
\* author (AskUserQuestion), or to a queued sub-agent job (ForkSubAgent).
Fates == {"ok", "fail", "question", "fork", "ask", "deny"}

VARIABLES
    \* the running command
    pc,          \* where it is
    entry,       \* "message": a new turn; "continue": a paused turn goes on
    reply,       \* the LLM response at hand: "tools", "text" or "thought"
    batch,       \* its tool calls
    due,         \* those whose result is still to be added to the transcript
    fate,        \* what became of each call
    aborting,    \* finish_live_stream_tool_batch saw the abort flag
    spent,       \* TurnContext::inner_spent
    nudges,      \* TurnContext::todo_nudge_count
    requests,    \* LLM requests since the loop was entered
    reason,      \* TerminalReason of the last command ("error": it failed)
    \* AgentEngine and EngineShared
    turn, messages, pendingTools, question, failures, subQueue, prefetch,
    interrupted, \* AbortController
    turnOpen,    \* TurnStart was emitted and no TurnComplete since
    \* the environment
    nextCall, faults

loopVars == <<entry, spent, nudges, requests>>
replyVars == <<reply, batch, due, fate, aborting>>
engineVars == <<turn, messages, pendingTools, question, failures, subQueue, prefetch>>
envVars == <<nextCall, faults>>
vars == <<pc, loopVars, replyVars, reason, engineVars, interrupted, turnOpen, envVars>>

Paused == question # NoCall \/ pendingTools # {}

\* engine_loop.rs, sync_turn_in_progress_flag: what blocks a change of the
\* permission mode.
TurnInProgress == pc # "idle" \/ Paused

NoFate == [c \in Calls |-> "ok"]

Init ==
    /\ pc = "idle" /\ entry = "message" /\ reason = "none"
    /\ spent = 0 /\ nudges = 0 /\ requests = 0
    /\ reply = "text" /\ batch = {} /\ due = {} /\ fate = NoFate /\ aborting = FALSE
    /\ turn = 0 /\ messages = <<>> /\ pendingTools = {} /\ question = NoCall
    /\ failures = 0 /\ subQueue = 0 /\ prefetch = FALSE
    /\ interrupted = FALSE /\ turnOpen = FALSE
    /\ nextCall = 1 /\ faults = 0

-----------------------------------------------------------------------------
Add(m) == messages' = Append(messages, m)

\* The locals of the loop and of the response go out of scope.
LoopEnds == entry' = "message" /\ spent' = 0 /\ nudges' = 0 /\ requests' = 0
ReplyEnds ==
    reply' = "text" /\ batch' = {} /\ due' = {} /\ fate' = NoFate /\ aborting' = FALSE

\* The command returns an error.  engine_loop clears the abort flag after
\* SendMessage only.
Fails ==
    /\ pc' = "idle" /\ reason' = "error"
    /\ interrupted' = (interrupted /\ entry = "continue")
    /\ LoopEnds /\ ReplyEnds
    /\ UNCHANGED <<turn, prefetch, turnOpen>>

\* A write to the database fails.
Fault == faults < MaxFaults /\ faults' = faults + 1

Leave(why) == reason' = why /\ pc' = "finish"

\* The failure circuit: an error of the same tool with the same text counts on,
\* any other error starts a count, a result that is no error ends it.
CountFailure == failures' \in {1} \cup (IF failures > 0 THEN {failures + 1} ELSE {})

-----------------------------------------------------------------------------
(* SendMessage *)

\* Mutants of NewTurn: a message is taken while a question waits; the approvals
\* of the last turn stay.
NewTurn_WhileAsking ==
    /\ pc = "idle" /\ turn < MaxTurns
    /\ turn' = turn + 1
    /\ interrupted' = FALSE
    /\ pendingTools' = {}

NewTurn_ApprovalsKept ==
    /\ pc = "idle" /\ question = NoCall /\ turn < MaxTurns
    /\ turn' = turn + 1
    /\ interrupted' = FALSE
    /\ UNCHANGED pendingTools

NewTurn ==
    /\ pc = "idle" /\ question = NoCall /\ turn < MaxTurns
    /\ turn' = turn + 1
    /\ interrupted' = FALSE
    /\ pendingTools' = {}

\* handle_message_with_events up to the inner loop.  An approval still pending
\* is dropped.
SendMessage ==
    /\ NewTurn
    /\ Add(User("prompt"))
    /\ turnOpen' = TRUE
    /\ prefetch' \in BOOLEAN
    /\ failures' = 0
    /\ entry' = "message" /\ spent' = 0 /\ nudges' = 0 /\ requests' = 0
    /\ pc' = "loop" /\ reason' = "none"
    /\ UNCHANGED <<replyVars, question, subQueue, envVars>>

\* The prompt is in memory before its row is written.
SendMessageFails ==
    /\ NewTurn /\ Fault
    /\ Add(Unsaved(User("prompt")))
    /\ reason' = "error"
    /\ UNCHANGED <<pc, loopVars, replyVars, question, failures, subQueue, prefetch,
                   turnOpen, nextCall>>

\* validate_turn_start refuses a message while a question waits.
SendMessageRefused ==
    /\ pc = "idle" /\ question # NoCall
    /\ interrupted' = FALSE
    /\ reason' = "error"
    /\ UNCHANGED <<pc, loopVars, replyVars, engineVars, turnOpen, envVars>>

-----------------------------------------------------------------------------
(* run_inner_turn_loop *)

\* inner_turn_loop_exit_reason; "none" to go on.
ExitReason ==
    IF interrupted THEN "aborted_streaming"
    ELSE IF failures >= FailLimit THEN "repeated_failures"
    ELSE IF pendingTools # {} THEN "completed"
    ELSE IF MaxReact > 0 /\ spent >= MaxReact THEN "max_react"
    ELSE "none"

LoopExit ==
    /\ pc = "loop" /\ ExitReason # "none"
    /\ Leave(ExitReason)
    /\ failures' = IF ExitReason = "repeated_failures" THEN 0 ELSE failures
    /\ UNCHANGED <<loopVars, replyVars, turn, messages, pendingTools, question, subQueue,
                   prefetch, interrupted, turnOpen, envVars>>

RequestLLM ==
    /\ pc = "loop" /\ ExitReason = "none"
    /\ requests' = requests + 1
    /\ pc' = "stream"
    /\ UNCHANGED <<entry, spent, nudges, replyVars, reason, engineVars, interrupted,
                   turnOpen, envVars>>

-----------------------------------------------------------------------------
(* run_live_llm_stream_turn: the response, and its tools *)

NewCalls(n) == nextCall .. (nextCall + n - 1)

\* The partial response, and an "interrupted" result for every call it had begun.
CutBlock(n) ==
    <<Assistant(NewCalls(n))>>
        \o [i \in 1 .. n |-> ToolResult(nextCall + i - 1, "interrupted")]

\* The abort flag was seen while streaming, or right after.  Nothing is recorded
\* when nothing had arrived.  The calls that had been started run on: a
\* ForkSubAgent among them may queue its job after the queue was cleared.
StreamCancelled(n) ==
    /\ pc = "stream" /\ interrupted
    /\ nextCall + n - 1 <= MaxCalls
    /\ \/ messages' = messages \o CutBlock(n)
       \/ n = 0 /\ UNCHANGED messages
    /\ nextCall' = nextCall + n
    /\ subQueue' \in 0 .. n
    /\ Leave("aborted_streaming")
    /\ UNCHANGED <<loopVars, replyVars, turn, pendingTools, question, failures, prefetch,
                   interrupted, turnOpen, faults>>

\* finalize_stream_cancel writes and adds the messages of the block one by one;
\* the write after the first k fails, and the queue is not cleared.
StreamCancelFails(n, k) ==
    /\ pc = "stream" /\ interrupted /\ Fault
    /\ nextCall + n - 1 <= MaxCalls
    /\ k \in 0 .. n
    /\ messages' = messages \o SubSeq(CutBlock(n), 1, k)
    /\ nextCall' = nextCall + n
    /\ subQueue' \in subQueue .. (subQueue + n)
    /\ Fails
    /\ UNCHANGED <<pendingTools, question, failures>>

\* The request fails.  Nothing of it is recorded, but a sub-agent job that a
\* streamed ForkSubAgent had queued stays queued.
StreamFails(forked) ==
    /\ pc = "stream"
    /\ nextCall + forked - 1 <= MaxCalls
    /\ subQueue' = subQueue + forked
    /\ nextCall' = nextCall + forked
    /\ Fails
    /\ UNCHANGED <<messages, pendingTools, question, failures, faults>>

\* A response without tool calls: some text, or nothing but reasoning.
StreamText(kind) ==
    /\ pc = "stream" /\ ~interrupted
    /\ reply' = kind
    /\ pc' = "drain"
    /\ UNCHANGED <<loopVars, batch, due, fate, aborting, reason, engineVars, interrupted,
                   turnOpen, envVars>>

\* A response with tool calls: the approvals are put up, the others run.
StreamTools(n, f) ==
    /\ pc = "stream" /\ ~interrupted
    /\ nextCall + n - 1 <= MaxCalls
    /\ nextCall' = nextCall + n
    /\ reply' = "tools"
    /\ batch' = NewCalls(n)
    /\ fate' = [c \in Calls |-> IF c \in NewCalls(n) THEN f[c] ELSE "ok"]
    /\ due' = { c \in NewCalls(n) : f[c] # "ask" }
    /\ pendingTools' = pendingTools \cup { c \in NewCalls(n) : f[c] = "ask" }
    /\ subQueue' = subQueue + Cardinality({ c \in NewCalls(n) : f[c] = "fork" })
    /\ pc' = "tools"
    /\ UNCHANGED <<loopVars, aborting, reason, turn, messages, question, failures, prefetch,
                   interrupted, turnOpen, faults>>

\* The executor has every result: the assistant message is recorded, then the
\* abort flag is read, once, for the whole batch.
ToolsDone ==
    /\ pc = "tools"
    /\ Add(Assistant(batch))
    /\ aborting' = interrupted
    /\ pc' = "apply"
    /\ UNCHANGED <<loopVars, reply, batch, due, fate, reason, turn, pendingTools, question,
                   failures, subQueue, prefetch, interrupted, turnOpen, envVars>>

ToolsDoneFails ==
    /\ pc = "tools" /\ Fault /\ Fails
    /\ UNCHANGED <<messages, pendingTools, question, failures, subQueue, nextCall>>

Result(c) ==
    ToolResult(c, CASE fate[c] = "fail" -> "error"
                    [] fate[c] = "deny" -> "denied"
                    [] fate[c] = "question" -> "question"
                    [] OTHER -> "ok")

IsNextDue(c) == c \in due /\ \A d \in due : c <= d

\* Mutant of CountResult: a success does not end a count.
CountResult_Kept(c) == IF fate[c] = "fail" THEN CountFailure ELSE UNCHANGED failures

\* A denial of the permission check has no executed spec, so it does not count
\* for the failure circuit.
CountResult(c) ==
    CASE fate[c] = "fail" -> CountFailure
      [] fate[c] = "deny" -> UNCHANGED failures
      [] OTHER -> failures' = 0

\* execute_stream_results, one call: the results are added in the order of the
\* calls.
ApplyResult(c) ==
    /\ pc = "apply" /\ IsNextDue(c)
    /\ Add(Result(c))
    /\ due' = due \ {c}
    /\ question' = IF fate[c] = "question" THEN c ELSE question
    /\ CountResult(c)
    /\ UNCHANGED <<pc, loopVars, reply, batch, fate, aborting, reason, turn, pendingTools,
                   subQueue, prefetch, interrupted, turnOpen, envVars>>

\* Mutant of ApplyResultFails: the approvals are gone with the batch.
ApplyResultFails_ApprovalsGone(c) ==
    /\ pc = "apply" /\ IsNextDue(c) /\ Fault /\ Fails
    /\ question' = IF fate[c] = "question" THEN c ELSE question
    /\ pendingTools' = {}
    /\ UNCHANGED <<messages, failures, subQueue, nextCall>>

\* A question is pending before its stub is written.
ApplyResultFails(c) ==
    /\ pc = "apply" /\ IsNextDue(c) /\ Fault /\ Fails
    /\ question' = IF fate[c] = "question" THEN c ELSE question
    /\ UNCHANGED <<messages, pendingTools, failures, subQueue, nextCall>>

\* Mutant of BatchAborted: the approvals go with the batch.
BatchAborted_ApprovalsGone ==
    /\ pc = "apply" /\ due = {} /\ aborting
    /\ subQueue' = 0 /\ pendingTools' = {}
    /\ Leave("aborted_tools")
    /\ ReplyEnds
    /\ UNCHANGED <<loopVars, turn, messages, question, failures, prefetch, interrupted,
                   turnOpen, envVars>>

\* All results are in: abort, pause for the question, or go on to the drain.
BatchAborted ==
    /\ pc = "apply" /\ due = {} /\ aborting
    /\ subQueue' = 0
    /\ Leave("aborted_tools")
    /\ ReplyEnds
    /\ UNCHANGED <<loopVars, turn, messages, pendingTools, question, failures,
                   prefetch, interrupted, turnOpen, envVars>>

BatchAsks ==
    /\ pc = "apply" /\ due = {} /\ ~aborting /\ question # NoCall
    /\ Leave("completed")
    /\ ReplyEnds
    /\ UNCHANGED <<loopVars, engineVars, interrupted, turnOpen, envVars>>

BatchApplied ==
    /\ pc = "apply" /\ due = {} /\ ~aborting /\ question = NoCall
    /\ pc' = "drain"
    /\ batch' = {} /\ fate' = NoFate
    /\ UNCHANGED <<loopVars, reply, due, aborting, reason, engineVars, interrupted, turnOpen, envVars>>

-----------------------------------------------------------------------------
(* drain_subagent_jobs: the queue is taken, its jobs run side by side and are *)
(* joined one by one; subQueue counts those still to be joined.               *)

JobReports ==
    /\ pc = "drain" /\ subQueue > 0
    /\ subQueue' = subQueue - 1
    /\ Add(User("report"))
    /\ UNCHANGED <<pc, loopVars, replyVars, reason, turn, pendingTools, question, failures,
                   prefetch, interrupted, turnOpen, envVars>>

\* A job that fails is logged and joined.
JobFails ==
    /\ pc = "drain" /\ subQueue > 0
    /\ subQueue' = subQueue - 1
    /\ UNCHANGED <<pc, loopVars, replyVars, reason, turn, messages, pendingTools, question,
                   failures, prefetch, interrupted, turnOpen, envVars>>

\* create_fork_run, the row of a report or finish_fork_run fails, the last one
\* with the report already added: the other jobs taken are not joined any more.
DrainFails(reported) ==
    /\ pc = "drain" /\ subQueue > 0 /\ Fault /\ Fails
    /\ subQueue' = 0
    /\ messages' = messages \o (IF reported THEN <<User("report")>> ELSE <<>>)
    /\ UNCHANGED <<pendingTools, question, failures, nextCall>>

Drained ==
    /\ pc = "drain" /\ subQueue = 0
    /\ pc' = "settle"
    /\ UNCHANGED <<loopVars, replyVars, reason, engineVars, interrupted, turnOpen, envVars>>

-----------------------------------------------------------------------------
(* process_inner_turn_llm_result *)

\* Mutant of IncrementInner: the iteration is not counted.
IncrementInner_Free == pc' = "loop" /\ UNCHANGED <<spent, reason>>

\* TurnContext::increment_inner, then the next iteration or the exit.
IncrementInner ==
    /\ spent' = spent + 1
    /\ IF MaxReact > 0 /\ spent + 1 >= MaxReact
       THEN Leave("max_react")
       ELSE pc' = "loop" /\ UNCHANGED reason

SettleTools ==
    /\ pc = "settle" /\ reply = "tools"
    /\ IncrementInner
    /\ ReplyEnds
    /\ UNCHANGED <<entry, nudges, requests, engineVars, interrupted, turnOpen,
                   envVars>>

SettleFrame ==
    /\ pc = "settle" /\ reply # "tools"
    /\ ReplyEnds
    /\ UNCHANGED <<entry, requests, turn, pendingTools, question, failures, subQueue,
                   prefetch, interrupted, turnOpen, envVars>>

\* complete_inner_turn_without_tools.  The assistant message, then: leave,
SettleExit ==
    /\ SettleFrame
    /\ interrupted \/ pendingTools # {}
    /\ Add(Assistant({}))
    /\ Leave(IF interrupted THEN "aborted_streaming" ELSE "completed")
    /\ UNCHANGED <<spent, nudges>>

\* ask for more than reasoning,
SettleThought ==
    /\ SettleFrame
    /\ ~interrupted /\ pendingTools = {} /\ reply = "thought"
    /\ messages' = messages \o <<Assistant({}), User("nudge")>>
    /\ IncrementInner
    /\ UNCHANGED nudges

\* ask for the unfinished todos,
SettleTodos ==
    /\ SettleFrame
    /\ ~interrupted /\ pendingTools = {} /\ reply = "text" /\ nudges < MaxNudges
    /\ messages' = messages \o <<Assistant({}), User("nudge")>>
    /\ nudges' = nudges + 1
    /\ pc' = "loop"
    /\ UNCHANGED <<spent, reason>>

\* or complete: no todo is unfinished, or MaxNudges prompts did not help.
SettleComplete ==
    /\ SettleFrame
    /\ ~interrupted /\ pendingTools = {} /\ reply = "text"
    /\ Add(Assistant({}))
    /\ Leave("completed")
    /\ UNCHANGED <<spent, nudges>>

\* The row of the assistant message or of the nudge cannot be written.
SettleFails(first) ==
    /\ pc = "settle" /\ reply # "tools" /\ Fault /\ Fails
    /\ messages' = messages \o (IF first THEN <<Assistant({})>> ELSE <<>>)
    /\ UNCHANGED <<pendingTools, question, failures, subQueue, nextCall>>

-----------------------------------------------------------------------------
(* The end of handle_message_with_events and of continue_turn_loop *)

\* emit_turn_finished: TurnComplete unless the turn is paused.
EmitTurnFinished == turnOpen' = (turnOpen /\ Paused)

FinishMessage ==
    /\ pc = "finish" /\ entry = "message"
    /\ messages' = messages \o (IF prefetch THEN <<Unsaved(User("memory"))>> ELSE <<>>)
    /\ prefetch' = FALSE
    /\ EmitTurnFinished
    /\ interrupted' = FALSE
    /\ pc' = "idle" /\ LoopEnds
    /\ UNCHANGED <<replyVars, reason, turn, pendingTools, question, failures,
                   subQueue, envVars>>

\* Mutant of FinishContinue: the continuation stays until nothing is pending.
FinishContinue_Stays ==
    /\ pc = "finish" /\ entry = "continue"
    /\ EmitTurnFinished
    /\ IF Paused THEN pc' = "loop" /\ UNCHANGED loopVars ELSE pc' = "idle" /\ LoopEnds
    /\ UNCHANGED <<replyVars, reason, engineVars, interrupted, envVars>>

FinishContinue ==
    /\ pc = "finish" /\ entry = "continue"
    /\ EmitTurnFinished
    /\ pc' = "idle" /\ LoopEnds
    /\ UNCHANGED <<replyVars, reason, engineVars, interrupted, envVars>>

-----------------------------------------------------------------------------
(* ApproveTool, DenyTool, AnswerQuestion, the interrupt *)

\* continue_turn_loop: a fresh TurnContext; the failure circuit is kept.
ContinueTurn ==
    /\ entry' = "continue" /\ spent' = 0 /\ nudges' = 0 /\ requests' = 0
    /\ pc' = "loop" /\ reason' = "none"

\* Mutants of ContinueUnlessPaused: a raised abort flag keeps the turn from going
\* on; the question is forgotten.
ContinueUnlessPaused_NotInterrupted ==
    IF pendingTools' = {} /\ question' = NoCall /\ ~interrupted
    THEN ContinueTurn
    ELSE UNCHANGED <<pc, loopVars, reason>>

ContinueUnlessPaused_Asking ==
    IF pendingTools' = {} THEN ContinueTurn ELSE UNCHANGED <<pc, loopVars, reason>>

ContinueUnlessPaused ==
    IF pendingTools' = {} /\ question' = NoCall
    THEN ContinueTurn
    ELSE UNCHANGED <<pc, loopVars, reason>>

\* An approved call runs; a denied one is an error of its tool.
ApproveTool(c, f) ==
    /\ pc = "idle" /\ c \in pendingTools
    /\ pendingTools' = pendingTools \ {c}
    /\ Add(ToolResult(c, IF f = "fail" THEN "error" ELSE "ok"))
    /\ subQueue' = subQueue + (IF f = "fork" THEN 1 ELSE 0)
    /\ IF f = "fail" THEN CountFailure ELSE failures' = 0
    /\ UNCHANGED <<question, turn, prefetch>>
    /\ ContinueUnlessPaused
    /\ UNCHANGED <<replyVars, interrupted, turnOpen, envVars>>

DenyTool(c) ==
    /\ pc = "idle" /\ c \in pendingTools
    /\ pendingTools' = pendingTools \ {c}
    /\ Add(ToolResult(c, "denied"))
    /\ CountFailure
    /\ UNCHANGED <<question, turn, prefetch, subQueue>>
    /\ ContinueUnlessPaused
    /\ UNCHANGED <<replyVars, interrupted, turnOpen, envVars>>

\* The result cannot be written: the approval is gone, its result is not there.
\* An approved call has run by then, and a ForkSubAgent has queued its job.
ResolveFails(c) ==
    /\ pc = "idle" /\ c \in pendingTools /\ Fault
    /\ pendingTools' = pendingTools \ {c}
    /\ subQueue' \in {subQueue, subQueue + 1}
    /\ reason' = "error"
    /\ UNCHANGED <<pc, loopVars, replyVars, turn, messages, question, failures,
                   prefetch, interrupted, turnOpen, nextCall>>

\* init_turn_message_seq_from_db fails: the continuation ends before it began.
ContinueFails ==
    /\ pc = "loop" /\ entry = "continue" /\ requests = 0 /\ Fault /\ Fails
    /\ UNCHANGED <<messages, pendingTools, question, failures, subQueue, nextCall>>

\* The stub of the question, rewritten; any other message as it is.
Answered(i) ==
    IF messages[i].role = "tool" /\ messages[i].call = question
    THEN [messages[i] EXCEPT !.body = "answer"] ELSE messages[i]

\* Mutants of AnswerQuestion: the answer never replaces the stub; it replaces
\* every stub; the question stays pending when there is no stub.
AnswerQuestion_Appends ==
    /\ pc = "idle" /\ question # NoCall
    /\ Add(ToolResult(question, "answer"))
    /\ question' = NoCall
    /\ ContinueTurn
    /\ UNCHANGED <<replyVars, turn, pendingTools, failures, subQueue, prefetch, interrupted,
                   turnOpen, envVars>>

\* The answer takes the place of the stub, in memory; it gets a row only when
\* there is no stub.
AnswerQuestion ==
    /\ pc = "idle" /\ question # NoCall
    /\ messages' = IF HasResult(messages, question)
                   THEN [i \in DOMAIN messages |-> Answered(i)]
                   ELSE Append(messages, ToolResult(question, "answer"))
    /\ question' = NoCall
    /\ ContinueTurn
    /\ UNCHANGED <<replyVars, turn, pendingTools, failures, subQueue, prefetch, interrupted,
                   turnOpen, envVars>>

\* Without a stub the answer needs a row; when that cannot be written, neither
\* the question nor its answer is left.
AnswerQuestionFails ==
    /\ pc = "idle" /\ question # NoCall /\ ~HasResult(messages, question) /\ Fault
    /\ question' = NoCall
    /\ reason' = "error"
    /\ UNCHANGED <<pc, loopVars, replyVars, turn, messages, pendingTools, failures, subQueue,
                   prefetch, interrupted, turnOpen, nextCall>>

\* commands/turn.rs, interrupt: past the queue, at any moment.
Interrupt ==
    /\ ~interrupted
    /\ interrupted' = TRUE
    /\ UNCHANGED <<pc, loopVars, replyVars, reason, engineVars, turnOpen, envVars>>

-----------------------------------------------------------------------------
Stream ==
    \/ \E n \in 0 .. MaxBatch : StreamCancelled(n)
    \/ \E n \in 0 .. MaxBatch, k \in 0 .. MaxBatch : StreamCancelFails(n, k)
    \/ \E forked \in 0 .. 1 : StreamFails(forked)
    \/ \E kind \in {"text", "thought"} : StreamText(kind)
    \/ \E n \in 1 .. MaxBatch : \E f \in [NewCalls(n) -> Fates] : StreamTools(n, f)

\* What the engine does by itself while it runs a command.
EngineStep ==
    \/ ContinueFails \/ LoopExit \/ RequestLLM \/ Stream
    \/ ToolsDone \/ ToolsDoneFails
    \/ \E c \in Calls : ApplyResult(c) \/ ApplyResultFails(c)
    \/ BatchAborted \/ BatchAsks \/ BatchApplied
    \/ JobReports \/ JobFails \/ Drained
    \/ \E reported \in BOOLEAN : DrainFails(reported)
    \/ SettleTools \/ SettleExit \/ SettleThought \/ SettleTodos \/ SettleComplete
    \/ \E first \in BOOLEAN : SettleFails(first)
    \/ FinishMessage \/ FinishContinue

\* What the author does.
Command ==
    \/ SendMessage \/ SendMessageFails \/ SendMessageRefused
    \/ \E c \in Calls, f \in {"ok", "fail", "fork"} : ApproveTool(c, f)
    \/ \E c \in Calls : DenyTool(c) \/ ResolveFails(c)
    \/ AnswerQuestion \/ AnswerQuestionFails

Next == EngineStep \/ Command \/ Interrupt

Spec == Init /\ [][Next]_vars

\* The command waits for what may never answer: an LLM (the HTTP client of a
\* request has no time limit, client.rs:216), be it the session's, a sub-agent's
\* or the one that selects memories (prefetch.rs:59); or a tool (a shell command
\* has no limit either).
WaitsForOthers ==
    \/ pc = "stream"
    \/ pc = "tools" /\ \E c \in due : fate[c] # "deny"
    \/ pc = "drain" /\ subQueue > 0
    \/ pc = "finish" /\ entry = "message" /\ prefetch

\* The engine task goes on unless it waits for others.  Nothing is expected of
\* them, nor of the author.
FairSpec == Spec /\ WF_vars(~WaitsForOthers /\ EngineStep)

-----------------------------------------------------------------------------
Bodies == {"prompt", "nudge", "report", "memory", "reply", "ok", "error", "denied",
           "question", "answer", "interrupted", "none"}

MessageType == [role : {"user", "assistant", "tool"}, call : 0 .. MaxCalls,
                calls : SUBSET Calls, body : Bodies, saved : Bodies]

CommandType ==
    /\ pc \in {"idle", "loop", "stream", "tools", "apply", "drain", "settle", "finish"}
    /\ reason \in {"none", "completed", "max_react", "repeated_failures",
                   "aborted_streaming", "aborted_tools", "error"}

LoopType ==
    /\ entry \in {"message", "continue"}
    /\ spent \in Nat /\ nudges \in Nat /\ requests \in Nat

ReplyType ==
    /\ reply \in {"tools", "text", "thought"}
    /\ batch \in SUBSET Calls /\ due \in SUBSET batch /\ fate \in [Calls -> Fates]

EngineType ==
    /\ turn \in Nat /\ messages \in Seq(MessageType)
    /\ pendingTools \in SUBSET Calls /\ question \in 0 .. MaxCalls
    /\ failures \in Nat /\ subQueue \in Nat

EnvType == nextCall \in 1 .. (MaxCalls + 1) /\ faults \in Nat

FlagType ==
    /\ aborting \in BOOLEAN /\ prefetch \in BOOLEAN
    /\ interrupted \in BOOLEAN /\ turnOpen \in BOOLEAN

TypeOK == CommandType /\ LoopType /\ ReplyType /\ EngineType /\ EnvType /\ FlagType

\* The index of the last message the author sent.
LastPrompt == CHOOSE p \in 0 .. Len(messages) :
    /\ p = 0 \/ messages[p].body = "prompt"
    /\ \A i \in (p + 1) .. Len(messages) : messages[i].body # "prompt"

(* A call gets one result: the executor, the approval, the denial, the answer *)
(* and the stubs of an interrupt never answer a call twice.                   *)
OneResultPerCall ==
    \A i, j \in DOMAIN messages :
        (messages[i].role = "tool" /\ messages[j].role = "tool"
            /\ messages[i].call = messages[j].call) => i = j

(* When a command has ended, the approvals the author is asked for are the    *)
(* calls of the current turn that have no result: none is forgotten and none  *)
(* is offered that has already run.  (With the types of the state.)           *)
ApprovalsMatchOpenCalls ==
    /\ TypeOK
    /\ (pc = "idle" /\ faults = 0) =>
          pendingTools = { c \in Calls :
              /\ ~HasResult(messages, c)
              /\ \E i \in (LastPrompt + 1) .. Len(messages) : c \in messages[i].calls }

(* A turn that is not paused does not hang: unless a command failed, an idle  *)
(* engine with nothing to approve or to answer has emitted TurnComplete.      *)
IdleTurnClosedUnlessPaused ==
    (pc = "idle" /\ turnOpen /\ reason # "error") => Paused

(* max_react_loops bounds the LLM requests of one command, with the todo      *)
(* prompts, which do not count for it, on top.                                *)
RequestBudget == MaxReact > 0 => requests <= MaxReact + MaxNudges

(* No request to the LLM goes out while a question waits for the author,      *)
(* whatever approvals are resolved meanwhile.                                 *)
NoRequestWhileAsking ==
    pc \in {"loop", "stream", "tools", "drain", "settle"} => question = NoCall

(* The failure circuit counts errors of this turn only, with no success among *)
(* them: it never stops a turn for failures of an earlier one.                *)
FailureCountIsEarned ==
    LET Bad(i) == messages[i].role = "tool" /\ messages[i].body \in {"error", "denied"}
        Good(i) == messages[i].body \in {"ok", "question", "answer"}
    IN  (pc # "idle" /\ faults = 0) =>
            failures <= Cardinality({ i \in (LastPrompt + 1) .. Len(messages) :
                            Bad(i) /\ \A j \in i .. Len(messages) : ~Good(j) })

(* An approval goes away with a result, with the author's next message, or    *)
(* with a command that fails: never silently.                                 *)
ApprovalsAreResolved ==
    [][\A c \in pendingTools \ pendingTools' :
          HasResult(messages', c) \/ turn' # turn \/ reason' = "error"]_vars

(* A command that does not end is one that waits for others for good: nothing *)
(* else keeps the next command in the queue.  The loop does not run on nudges,*)
(* failures, pauses or sub-agents for ever, and no step waits for the author. *)
CommandEnds == <>[]WaitsForOthers \/ (pc # "idle" ~> pc = "idle")

-----------------------------------------------------------------------------
(* What the documentation says and the code does not do. *)

(* FRAMEWORK.md:105: a paused turn goes on after the approval.  The LLM then  *)
(* gets the result: it stands where the repair of the request keeps it.       *)
ResultsReachTheLLM ==
    pc = "stream" =>
        \A i \in DOMAIN messages : messages[i].role = "tool" => ValidToolAt(messages, i)
=============================================================================
