----------------------------- MODULE ToolExecutor -----------------------------
(* One response of the LLM and the tool calls in it: the SSE stream            *)
(* (novel-deepseek client.rs), the dispatch of calls as they become complete   *)
(* (novel-core turn/tool_dispatch.rs, llm_stream.rs) and the executor that runs *)
(* them meanwhile (novel-tools executor/streaming.rs).  The stream, the tasks, *)
(* the poll for the UI, the bridge that carries the abort flag and the author  *)
(* are interleaved.                                                            *)
(*                                                                             *)
(* TurnEngine takes all of this as the fates of a batch; this module is what   *)
(* lies behind them.  Left out: texts and their deltas, token usage, the       *)
(* question of a call (a result like others here), failed writes.  The abort   *)
(* branches of try_execute_queued that answer a queued call and the circuit    *)
(* breaker cannot be reached: see BridgeIsDown, and NothingStalls.             *)
EXTENDS Integers, Sequences, FiniteSets, SequencesExt, FiniteSetsExt, Subsequences

CONSTANTS
    NCalls,         \* the calls of the response are 1 .. NCalls
    Kinds,          \* what a call may be: [tool, verdict, args, bare]
    MaxConcurrency  \* max_tool_concurrency

CallIds == 1 .. NCalls

ASSUME ExecutorAssumption ==
    /\ NCalls \in Nat /\ MaxConcurrency \in Nat \ {0}
    /\ Kinds \subseteq [tool : {"safe", "exclusive"},        \* is_concurrency_safe
                        verdict : {"allow", "ask", "deny"},  \* check_permissions
                        args : {"object", "none", "invalid"},
                        bare : BOOLEAN]      \* the tool accepts {}

VARIABLES
    kind,           \* the calls the LLM makes
    got,            \* pending: what has come of each, "nothing", "name" (no piece of its
                    \* arguments yet), "part" or "all"
    phase,          \* "stream", "closing", "collect", "record"; "done", "aborted", "failed"
    cancelled,      \* the stream ended with StreamOutcome::Cancelled
    order,          \* completion.tool_calls
    abort,          \* the abort flag
    watch,          \* the abort signal the executor sees
    handled, executed, pendingSpecs, denied,    \* StreamingToolDispatch
    pendingTools,   \* AgentEngine::pending_tools
    queue,          \* queue: calls queued or, if safe, executing
    task,           \* per call: "none", "spawned", "running", "ok", "error"
    completed,      \* completed: calls whose task has pushed its result
    shown,          \* ui_result_emitted: the results the UI has
    recorded        \* the tool messages written: [call, result]

streamVars == <<kind, got, cancelled, order>>
dispatchVars == <<handled, executed, pendingSpecs, denied>>
executorVars == <<queue, task, completed>>
vars == <<streamVars, phase, abort, watch, dispatchVars, pendingTools, executorVars, shown, recorded>>

Init ==
    /\ kind \in [CallIds -> Kinds]
    /\ got = [c \in CallIds |-> "nothing"]
    /\ phase = "stream" /\ cancelled = FALSE /\ order = <<>>
    /\ abort = FALSE /\ watch = FALSE
    /\ handled = {} /\ executed = {} /\ pendingSpecs = {} /\ denied = {}
    /\ pendingTools = {}
    /\ queue = <<>> /\ task = [c \in CallIds |-> "none"] /\ completed = <<>>
    /\ shown = {} /\ recorded = <<>>

Ended(c) == task[c] \in {"ok", "error"}

\* The calls of the response that have a name (drain_pending).
Named == { c \in CallIds : got[c] # "nothing" }

-----------------------------------------------------------------------------
(* The executor *)

\* try_execute_queued: an exclusive call leaves the queue, a safe one stays there
\* while it runs.  An abort that has come through stops both.
Waiting(q) == Kept(q, { c \in CallIds : task[c] = "none" })

Started(q) == IF watch THEN {} ELSE Range(Waiting(q))

Left(q) ==
    IF watch THEN q ELSE Kept(q, { c \in CallIds : kind[c].tool = "safe" })

AddTools(cs) ==
    LET q == queue \o cs
    IN  /\ task' = [c \in CallIds |-> IF c \in Started(q) THEN "spawned" ELSE task[c]]
        /\ queue' = Left(q)
        /\ UNCHANGED completed

Running(tool) == { c \in CallIds : task[c] = "running" /\ kind[c].tool = tool }

\* Mutant of MayStart: every call waits for all the others that are not over.
MayStart_Alone(c) == \A d \in CallIds \ {c} : task[d] \notin {"spawned", "running"}

\* The semaphore for safe calls, the lock for exclusive ones: each is spawned
\* as a task of its own, whatever becomes of the stream.
MayStart(c) ==
    IF kind[c].tool = "safe" THEN Cardinality(Running("safe")) < MaxConcurrency
    ELSE Running("exclusive") = {}

TaskStarts ==
    \E c \in CallIds :
        /\ task[c] = "spawned" /\ MayStart(c)
        /\ task' = [task EXCEPT ![c] = "running"]
        /\ UNCHANGED <<streamVars, phase, abort, watch, dispatchVars, pendingTools, queue,
                       completed, shown, recorded>>

\* execute_one, and the result pushed to completed.
TaskEnds ==
    \E c \in CallIds, result \in {"ok", "error"} :
        /\ task[c] = "running"
        /\ task' = [task EXCEPT ![c] = result]
        /\ completed' = Append(completed, c)
        /\ UNCHANGED <<streamVars, phase, abort, watch, dispatchVars, pendingTools, queue,
                       shown, recorded>>

-----------------------------------------------------------------------------
(* The dispatch *)

\* tool_validation_failure and an unknown tool: arguments cut off in the middle,
\* or that the tool refuses.  No arguments at all are read as {}.
Refused ==
    { c \in CallIds :
        CASE got[c] = "name" -> ~kind[c].bare
          [] got[c] = "all" -> kind[c].args = "invalid"
          [] OTHER -> TRUE }

Verdict(c, refused) == IF c \in refused THEN "deny" ELSE kind[c].verdict

\* Mutant of HandleReady: a call that asks is run meanwhile.
HandleReady_Asking(cs, refused) ==
    LET With(v) == { c \in Range(cs) : Verdict(c, refused) = v }
    IN  /\ handled' = handled \cup Range(cs)
        /\ executed' = executed \cup With("allow")
        /\ pendingSpecs' = pendingSpecs \cup With("ask")
        /\ denied' = denied \cup With("deny")
        /\ AddTools(Kept(cs, With("allow") \cup With("ask")))

\* handle_ready and apply_permission for these calls, one after the other.
HandleReady(cs, refused) ==
    LET With(v) == { c \in Range(cs) : Verdict(c, refused) = v }
    IN  /\ handled' = handled \cup Range(cs)
        /\ executed' = executed \cup With("allow")
        /\ pendingSpecs' = pendingSpecs \cup With("ask")
        /\ denied' = denied \cup With("deny")
        /\ AddTools(Kept(cs, With("allow")))

\* poll_ui_results: results are peeked at, not taken.
Polled == shown \cup Range(completed)

Poll ==
    /\ phase \in {"stream", "closing"}
    /\ Polled # shown
    /\ shown' = Polled
    /\ UNCHANGED <<streamVars, phase, abort, watch, dispatchVars, pendingTools, executorVars,
                   recorded>>

-----------------------------------------------------------------------------
(* The stream *)

\* apply_chunk: the id and the name of a call ...
Name ==
    /\ phase = "stream"
    /\ \E c \in CallIds :
          /\ got[c] = "nothing"
          /\ got' = [got EXCEPT ![c] = "name"]
    /\ UNCHANGED <<kind, cancelled, order, phase, abort, watch, dispatchVars, pendingTools,
                   executorVars, shown, recorded>>

\* ... some of its arguments ...
Piece ==
    /\ phase = "stream"
    /\ \E c \in CallIds :
          /\ got[c] = "name" /\ kind[c].args # "none"
          /\ got' = [got EXCEPT ![c] = "part"]
    /\ UNCHANGED <<kind, cancelled, order, phase, abort, watch, dispatchVars, pendingTools,
                   executorVars, shown, recorded>>

\* ... and the last of them, which are a complete JSON object by then
\* (try_emit_ready_tool).  What the tool refuses is put off (handle_ready).
Arguments ==
    /\ phase = "stream"
    /\ \E c \in CallIds :
          /\ got[c] \in {"name", "part"} /\ kind[c].args # "none"
          /\ got' = [got EXCEPT ![c] = "all"]
          /\ IF kind[c].args = "object" /\ c \notin handled
             THEN HandleReady(<<c>>, {})
             ELSE UNCHANGED <<dispatchVars, executorVars>>
    /\ UNCHANGED <<kind, cancelled, order, phase, abort, watch, pendingTools, shown, recorded>>

\* The pending calls are a HashMap: they come out of it in any order.
CloseStream(isCancelled) ==
    /\ phase = "stream"
    /\ cancelled' = isCancelled
    /\ order' \in SetToSeqs(Named)
    /\ phase' = "closing"
    /\ UNCHANGED <<kind, got, abort, watch, dispatchVars, pendingTools, executorVars, shown,
                   recorded>>

StreamEnds == CloseStream(FALSE)

StreamCancelled == abort /\ CloseStream(TRUE)

\* The request fails in mid-stream: what runs is left to itself.
StreamFails ==
    /\ phase = "stream"
    /\ phase' = "failed"
    /\ UNCHANGED <<streamVars, abort, watch, dispatchVars, pendingTools, executorVars, shown,
                   recorded>>

Interrupt ==
    /\ ~abort /\ phase \notin {"done", "aborted", "failed"}
    /\ abort' = TRUE
    /\ UNCHANGED <<streamVars, phase, watch, dispatchVars, pendingTools, executorVars, shown,
                   recorded>>

\* The bridge is stopped before the results are awaited.
BridgeRuns == phase \in {"stream", "closing"}

\* run_abort_bridge.
Bridge ==
    /\ BridgeRuns /\ abort /\ ~watch
    /\ watch' = TRUE
    /\ UNCHANGED <<streamVars, phase, abort, dispatchVars, pendingTools, executorVars, shown,
                   recorded>>

-----------------------------------------------------------------------------
(* After the stream *)

\* stream_aborted || interrupt_requested().
IsAborted == cancelled \/ abort

\* discard and finalize_stream_cancel: discard changes nothing, since nothing asks
\* the executor any more; every call gets a stub saying it was not finished.
AbortStream ==
    /\ phase = "closing" /\ IsAborted
    /\ recorded' = [i \in DOMAIN order |-> [call |-> order[i], result |-> "interrupted"]]
    /\ phase' = "aborted"
    /\ UNCHANGED <<streamVars, abort, watch, dispatchVars, pendingTools, executorVars, shown>>

\* drain_live_stream_dispatch: what is not handled yet is handled now.
DrainDispatch ==
    /\ phase = "closing" /\ ~IsAborted
    /\ HandleReady(Kept(order, CallIds \ handled), Refused)
    /\ pendingTools' = pendingTools \cup pendingSpecs'
    /\ shown' = Polled
    /\ phase' = IF order = <<>> THEN "done" ELSE "collect"
    /\ UNCHANGED <<streamVars, abort, watch, recorded>>

\* Mutant of InFlight: only the exclusive calls are waited for.
InFlight_Exclusive == { c \in CallIds : task[c] \in {"spawned", "running"} /\ kind[c].tool = "exclusive" }

\* join_handles.
InFlight == { c \in CallIds : task[c] \in {"spawned", "running"} }

\* get_remaining_results: all tasks are awaited, finished calls leave the queue
\* (prune_finished_executing), and the results are taken out.
Collect ==
    /\ phase = "collect"
    /\ InFlight = {}
    /\ queue' = Kept(queue, { c \in CallIds : ~Ended(c) })
    /\ pendingTools' = pendingTools \ executed
    /\ phase' = "record"
    /\ UNCHANGED <<streamVars, abort, watch, dispatchVars, task, completed, shown, recorded>>

\* Mutant of ToRecord: calls that wait for the author are recorded, too.
ToRecord_Asking == Kept(order, Range(completed) \cup denied \cup pendingTools)

\* merge_denied_stream_results: the calls that have a result, in the order of the
\* calls (ordered_tool_result_ids).
ToRecord == Kept(order, Range(completed) \cup denied)

\* execute_stream_results, one result after the other, whether the author has
\* interrupted or not.
Record ==
    /\ phase = "record"
    /\ IF Len(recorded) < Len(ToRecord)
       THEN LET c == ToRecord[Len(recorded) + 1]
            IN  /\ recorded' = Append(recorded,
                        [call |-> c, result |-> IF c \in denied THEN "denied" ELSE task[c]])
                /\ shown' = IF c \in denied THEN shown ELSE shown \cup {c}
                /\ UNCHANGED phase
       ELSE phase' = "done" /\ UNCHANGED <<recorded, shown>>
    /\ UNCHANGED <<streamVars, abort, watch, dispatchVars, pendingTools, executorVars>>

EngineStep == AbortStream \/ DrainDispatch \/ Collect \/ Record

Next ==
    \/ TaskStarts \/ TaskEnds
    \/ Poll \/ Name \/ Piece \/ Arguments
    \/ StreamEnds \/ StreamCancelled \/ StreamFails
    \/ Interrupt \/ Bridge
    \/ AbortStream \/ DrainDispatch \/ Collect \/ Record

Spec == Init /\ [][Next]_vars

\* The engine goes on, and a task gets the permit or the lock when it is free.
\* Nothing is expected of the LLM, whose request has no time limit (client.rs:216),
\* of a tool that runs (a shell command has none either), nor of the poll, the
\* bridge and the author.
FairSpec == Spec /\ WF_vars(EngineStep) /\ WF_vars(TaskStarts)

-----------------------------------------------------------------------------
IsOver == phase \in {"done", "aborted", "failed"}

TypeOK ==
    /\ kind \in [CallIds -> Kinds]
    /\ got \in [CallIds -> {"nothing", "name", "part", "all"}]
    /\ phase \in {"stream", "closing", "collect", "record", "done", "aborted", "failed"}
    /\ cancelled \in BOOLEAN /\ abort \in BOOLEAN /\ watch \in BOOLEAN
    /\ order \in Seq(CallIds)
    /\ handled \subseteq CallIds /\ executed \subseteq CallIds
    /\ pendingSpecs \subseteq CallIds /\ denied \subseteq CallIds /\ pendingTools \subseteq CallIds
    /\ handled = executed \cup pendingSpecs \cup denied
    /\ queue \in Seq(CallIds) /\ completed \in Seq(CallIds)
    /\ task \in [CallIds -> {"none", "spawned", "running", "ok", "error"}]
    /\ shown \subseteq CallIds
    /\ recorded \in Seq([call : CallIds, result : {"ok", "error", "denied", "interrupted"}])

(* llm_stream.rs:332, the bridge is stopped before the results are awaited: an *)
(* interrupt during the wait reaches no tool, so the abort branches of         *)
(* get_remaining_results, which drop results of calls that have run, are never *)
(* taken.                                                                      *)
BridgeIsDown == phase \in {"collect", "record"} => ~watch

(* get_remaining_results: with every call ended, none is left in the queue for *)
(* the circuit breaker to report as stalled, and no tool works on.             *)
NothingStalls ==
    phase \in {"record", "done"} => queue = <<>> /\ InFlight = {}

(* What TurnEngine takes for granted of a batch (collect, then record): when   *)
(* it is over, each call of the response either waits for the author or has    *)
(* exactly one result, the one its own run or its refusal gave, in the order   *)
(* of the calls, however calls were started, shown and awaited meanwhile; none *)
(* is dropped by an interrupt or reported as stalled.  (With the types.)       *)
EveryCallHasOneResult ==
    /\ TypeOK /\ BridgeIsDown /\ NothingStalls
    /\ phase = "done" =>
          /\ [i \in DOMAIN recorded |-> recorded[i].call]
                = Kept(order, CallIds \ pendingTools)
          /\ \A r \in Range(recorded) :
                IF r.result = "denied" THEN task[r.call] = "none"
                ELSE r.result \in {"ok", "error"} /\ task[r.call] = r.result

(* What is run was allowed for the arguments it is run with: all of them, an   *)
(* object the tool takes, or none at all where the tool accepts {}; never a    *)
(* part.  A call that waits for the author or is denied is not run.            *)
OnlyAllowedCallsRun ==
    \A c \in CallIds : task[c] # "none" =>
        /\ c \in executed \ (pendingSpecs \cup denied)
        /\ kind[c].verdict = "allow"
        /\ \/ got[c] = "all" /\ kind[c].args = "object"
           \/ got[c] = "name" /\ kind[c].bare

(* CallLifecycle is what TurnEngine assumes of a batch: the calls of a response *)
(* are issued together, run or wait for the author, and get their results one  *)
(* by one; those of a cut response are answered at once.                       *)
Status ==
    [c \in CallIds |->
        IF c \notin Range(order) \/ phase \in {"stream", "closing"} THEN "unissued"
        ELSE IF \E r \in Range(recorded) : r.call = c THEN "answered"
        ELSE IF c \in pendingTools THEN "awaiting" ELSE "running"]

Lifecycle == INSTANCE CallLifecycle WITH Calls <- CallIds, status <- Status

BatchKeepsTheLifecycle == Lifecycle!Spec

\* What may never come: the end of the response, or of a tool.
WaitsForOthers ==
    \/ phase = "stream"
    \/ phase = "collect" /\ \E c \in CallIds : task[c] = "running"

(* A batch comes to its end, with or without an interrupt, unless it waits for *)
(* the LLM or a running tool for good: never for a permit, the lock, a task    *)
(* that was not started or a call left in the queue.                           *)
BatchEnds == <>IsOver \/ <>[]WaitsForOthers
===============================================================================
