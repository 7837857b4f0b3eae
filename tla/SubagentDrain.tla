---------------------------- MODULE SubagentDrain ----------------------------
(* Sub-agents of a session (novel-core subagent/): the calls of ForkSubAgent   *)
(* and the hooks of tool results queue jobs; between two requests of the main   *)
(* session the queue is drained: every job gets a row in fork_runs and a task   *)
(* of its own, and the tasks are joined in order.  An extraction of memories    *)
(* runs through the same loop, in the background and in no queue.  All share    *)
(* the count of running sub-agents, the abort flag and the permission mode.     *)
(*                                                                              *)
(* Left out: what an agent writes, its tools (the batches of ToolExecutor, with *)
(* an abort channel nobody sends on), the compaction after a report, the events *)
(* of the overlay.  The parse of a queued job cannot fail: enqueue_fork_subagent*)
(* has checked the type and a hook uses a constant one.                         *)
EXTENDS Integers, Sequences, FiniteSets, SequencesExt, FiniteSetsExt

CONSTANTS
    NJobs,      \* jobs of all turns, a bound
    MaxLoops,   \* max_react_loops of an agent
    Modes,      \* permission modes
    AutoMode,   \* the mode of a batch with a hook job
    MaxTurns,   \* a bound
    Troubles    \* a bound on failed writes and tasks that panic

JobIds == 1 .. NJobs

ASSUME DrainAssumption ==
    /\ NJobs \in Nat /\ MaxTurns \in Nat /\ Troubles \in Nat
    /\ MaxLoops \in 1 .. 80     \* ConversationFork::validate
    /\ AutoMode \in Modes

REPORT_GRACE_LOOPS == 1

VARIABLES
    kind,       \* of a job: "none" before it exists, "fork", "hook" or "memory"
    at,         \* "none", "queued", "begin", "head", "call", "done", "failed", "panicked", "dropped"
    loops,      \* turn_ctx.inner_turn
    grace,      \* SubagentLoopPhase: -1 while Reacting, else grace_left
    row,        \* fork_runs.status: "none", "running" or "complete"
    queue,      \* subagent_queue
    drain,      \* [on, todo, handles]: jobs to spawn and handles to join
    count,      \* sub_agent_count
    mode,       \* permission_mode_override
    prior,      \* PermissionOverrideGuard: the mode to restore, or {} when it is not active
    chosen,     \* the mode the author has set
    aborted,    \* the abort flag
    turn,       \* "idle", "stream", "drain" or "after"
    turns,      \* turns so far
    allowFork,  \* ToolContext::allow_fork of the stream
    reports,    \* jobs whose report is in the messages, in order
    troubles    \* troubles so far

jobVars == <<kind, at, loops, grace>>
modeVars == <<mode, prior, chosen>>
turnVars == <<turn, turns, allowFork>>
vars == <<jobVars, row, queue, drain, count, modeVars, aborted, turnVars, reports, troubles>>

NoDrain == [on |-> FALSE, todo |-> <<>>, handles |-> <<>>]

Init ==
    /\ kind = [i \in JobIds |-> "none"] /\ at = [i \in JobIds |-> "none"]
    /\ loops = [i \in JobIds |-> 0] /\ grace = [i \in JobIds |-> -1]
    /\ row = [i \in JobIds |-> "none"]
    /\ queue = <<>> /\ drain = NoDrain /\ count = 0
    /\ mode \in Modes /\ chosen = mode /\ prior = {}
    /\ aborted = FALSE
    /\ turn = "idle" /\ turns = 0 /\ allowFork = FALSE
    /\ reports = <<>> /\ troubles = 0

Running == { i \in JobIds : at[i] \in {"begin", "head", "call"} }
Unused == { i \in JobIds : kind[i] = "none" }
NextJob == { i \in Unused : \A j \in Unused : i <= j }

\* A write that fails or a task that panics.
Trouble == troubles < Troubles /\ troubles' = troubles + 1

-----------------------------------------------------------------------------
(* The main session *)

\* handle_message_with_events: the abort flag is cleared; the context of the
\* stream says whether the main session may fork.
StartTurn ==
    /\ turn = "idle" /\ turns < MaxTurns
    /\ aborted' = FALSE
    /\ turn' = "stream" /\ turns' = turns + 1 /\ allowFork' = (count = 0)
    /\ UNCHANGED <<jobVars, row, queue, drain, count, modeVars, reports, troubles>>

\* The same turn goes on with another request.
NextRequest ==
    /\ turn = "after"
    /\ turn' = "stream" /\ allowFork' = (count = 0)
    /\ UNCHANGED <<jobVars, row, queue, drain, count, modeVars, aborted, turns, reports, troubles>>

Enqueue(k) ==
    /\ turn = "stream"
    /\ \E i \in NextJob :
        /\ kind' = [kind EXCEPT ![i] = k]
        /\ at' = [at EXCEPT ![i] = "queued"]
        /\ queue' = Append(queue, i)
    /\ UNCHANGED <<loops, grace, row, drain, count, modeVars, aborted, turnVars, reports, troubles>>

\* enqueue_fork_subagent: refused while any sub-agent counts as running.
Fork == allowFork /\ Enqueue("fork")

\* A recorded result matches a PostToolUse hook.
Hook == Enqueue("hook")

\* LlmCallOutcome::Aborted: clear_subagent_queue.
StreamAborts ==
    /\ turn = "stream" /\ aborted
    /\ queue' = <<>>
    /\ at' = [i \in JobIds |-> IF at[i] = "queued" THEN "dropped" ELSE at[i]]
    /\ turn' = "idle"
    /\ UNCHANGED <<kind, loops, grace, row, drain, count, modeVars, aborted, turns, allowFork,
                   reports, troubles>>

\* The stream fails, or the turn pauses for an AskUserQuestion: nothing is
\* drained and the queue stays.
StreamLeaves ==
    /\ turn = "stream"
    /\ turn' = "idle"
    /\ UNCHANGED <<jobVars, row, queue, drain, count, modeVars, aborted, turns, allowFork, reports,
                   troubles>>

FinishTurn ==
    /\ turn = "after"
    /\ turn' = "idle"
    /\ UNCHANGED <<jobVars, row, queue, drain, count, modeVars, aborted, turns, allowFork, reports,
                   troubles>>

\* apply_permission_mode_change, between two turns.
SetMode ==
    /\ turn = "idle"
    /\ \E m \in Modes \ {mode} : mode' = m /\ chosen' = m
    /\ UNCHANGED <<jobVars, row, queue, drain, count, prior, aborted, turnVars, reports, troubles>>

Interrupt ==
    /\ ~aborted /\ turn # "idle"
    /\ aborted' = TRUE
    /\ UNCHANGED <<jobVars, row, queue, drain, count, modeVars, turnVars, reports, troubles>>

\* spawn_memory_extraction, one at a time: its task adds to the count when it
\* begins, which may be in the next turn.
SpawnMemory ==
    /\ turns > 0
    /\ \A i \in Running : kind[i] # "memory"
    /\ \E i \in NextJob :
        /\ kind' = [kind EXCEPT ![i] = "memory"]
        /\ at' = [at EXCEPT ![i] = "begin"]
    /\ count' = count + 1
    /\ UNCHANGED <<loops, grace, row, queue, drain, modeVars, aborted, turnVars, reports, troubles>>

-----------------------------------------------------------------------------
(* The drain *)

IsHookBatch(q) == \E i \in Range(q) : kind[i] = "hook"

\* take_queued_jobs, PermissionOverrideGuard::new, DrainInProgressGuard.
StartDrain ==
    /\ turn = "stream"
    /\ IF queue = <<>>
       THEN turn' = "after" /\ UNCHANGED <<queue, drain, mode, prior>>
       ELSE /\ turn' = "drain"
            /\ drain' = [on |-> TRUE, todo |-> queue, handles |-> <<>>]
            /\ queue' = <<>>
            /\ IF IsHookBatch(queue) THEN mode' = AutoMode /\ prior' = {mode}
                                     ELSE UNCHANGED <<mode, prior>>
    /\ UNCHANGED <<jobVars, row, count, chosen, aborted, turns, allowFork, reports, troubles>>

\* Drop of PermissionOverrideGuard.
Restored == IF prior = {} THEN mode ELSE CHOOSE m \in prior : TRUE

\* Mutant of LeaveDrain: only the way out without an error restores the mode.
LeaveDrain_Late(to) ==
    /\ drain' = NoDrain
    /\ mode' = (IF to = "after" THEN Restored ELSE mode) /\ prior' = {}
    /\ turn' = to

\* drain_subagent_jobs returns, with an error or without: both guards are
\* dropped, jobs not spawned yet are lost, tasks not joined yet are detached.
LeaveDrain(to) ==
    /\ drain' = NoDrain
    /\ mode' = Restored /\ prior' = {}
    /\ turn' = to

\* create_fork_run, sub_agent_inc, tokio::spawn.
SpawnJob ==
    /\ drain.on /\ drain.todo # <<>>
    /\ LET i == Head(drain.todo) IN
        /\ drain' = [drain EXCEPT !.todo = Tail(@), !.handles = Append(@, i)]
        /\ row' = [row EXCEPT ![i] = "running"]
        /\ at' = [at EXCEPT ![i] = "begin"]
        /\ count' = count + 1
    /\ UNCHANGED <<kind, loops, grace, queue, modeVars, aborted, turnVars, reports, troubles>>

SpawnFails ==
    /\ drain.on /\ drain.todo # <<>> /\ Trouble
    /\ at' = [i \in JobIds |-> IF i \in Range(drain.todo) THEN "dropped" ELSE at[i]]
    /\ LeaveDrain("idle")
    /\ UNCHANGED <<kind, loops, grace, row, queue, count, chosen, aborted, turns, allowFork,
                   reports>>

\* Mutant of Joined: whichever task ends first is taken for the head.
Joined_Any(hs) == { i \in Range(hs) : i \notin Running }

\* join_subagent_handles awaits the handles in the order of the jobs.
Joined(hs) == IF hs = <<>> THEN {} ELSE {Head(hs)} \ Running

\* inject_sub_agent_report persists the report, then finish_fork_run; a hook
\* job has its row finished only.
Report(i) ==
    \/ /\ kind[i] = "fork"
       /\ reports' = Append(reports, i)
       /\ row' = [row EXCEPT ![i] = "complete"]
    \/ /\ kind[i] = "hook"
       /\ row' = [row EXCEPT ![i] = "complete"]
       /\ UNCHANGED reports

\* A failed job is logged, and its row stays "running".
Join ==
    /\ drain.on /\ drain.todo = <<>>
    /\ \E i \in Joined(drain.handles) :
        /\ drain' = [drain EXCEPT !.handles = Tail(@)]
        /\ \/ at[i] = "done" /\ Report(i)
           \/ at[i] = "failed" /\ UNCHANGED <<reports, row>>
    /\ UNCHANGED <<jobVars, queue, count, modeVars, aborted, turnVars, troubles>>

\* The report cannot be saved, or its row cannot be finished; for a hook job
\* the latter is logged only.
JoinFails ==
    /\ drain.on /\ drain.todo = <<>> /\ Trouble
    /\ \E i \in Joined(drain.handles) :
        /\ at[i] = "done"
        /\ \/ kind[i] = "fork" /\ reports' \in {reports, Append(reports, i)} /\ LeaveDrain("idle")
           \/ /\ kind[i] = "hook"
              /\ drain' = [drain EXCEPT !.handles = Tail(@)]
              /\ UNCHANGED <<reports, mode, prior, turn>>
    /\ UNCHANGED <<jobVars, row, queue, count, chosen, aborted, turns, allowFork>>

\* JoinError: the drain returns and leaves the other tasks to themselves.
JoinPanics ==
    /\ drain.on /\ drain.todo = <<>>
    /\ \E i \in Joined(drain.handles) : at[i] = "panicked"
    /\ LeaveDrain("idle")
    /\ UNCHANGED <<jobVars, row, queue, count, chosen, aborted, turns, allowFork, reports, troubles>>

EndDrain ==
    /\ drain.on /\ drain.todo = <<>> /\ drain.handles = <<>>
    /\ LeaveDrain("after")
    /\ UNCHANGED <<jobVars, row, queue, count, chosen, aborted, turns, allowFork, reports, troubles>>

-----------------------------------------------------------------------------
(* An agent *)

agentRest == <<kind, row, queue, drain, modeVars, aborted, turnVars, reports>>

Move(i, to) == at' = [at EXCEPT ![i] = to]

\* The task is over, and the locals of its loop are gone with it.
Over(i, to) ==
    /\ Move(i, to)
    /\ loops' = [loops EXCEPT ![i] = 0] /\ grace' = [grace EXCEPT ![i] = -1]

\* The first message is saved; an extraction has no run to save it under.
Begin(i) ==
    /\ at[i] = "begin"
    /\ Move(i, "head")
    /\ UNCHANGED <<agentRest, loops, grace, count, troubles>>

\* The head of the loop: the abort flag, or the next request.
Ask(i) ==
    /\ at[i] = "head" /\ ~aborted
    /\ Move(i, "call")
    /\ UNCHANGED <<agentRest, loops, grace, count, troubles>>

\* subagent_run_react_loop ends with sub_agent_dec.
Ends(i) ==
    /\ Over(i, "done")
    /\ count' = count - 1
    /\ UNCHANGED <<agentRest, troubles>>

SeesAbort(i) == at[i] = "head" /\ aborted /\ Ends(i)

\* finalize_stream_cancel, then LoopBreak.
Cancelled(i) == at[i] = "call" /\ aborted /\ Ends(i)

\* The LLM answers with text, or fails for good (LoopBreak).
Answers(i) == at[i] = "call" /\ Ends(i)

\* Mutant of Truncated: its report is taken for an end of the loop.
Truncated_Twice(i) ==
    /\ at[i] = "call"
    /\ Over(i, "done")
    /\ count' = count - 2
    /\ UNCHANGED <<agentRest, troubles>>

\* The output is cut off at its limit: subagent_after_completion counts the agent
\* out and returns a report of its own, past the end of the loop.
Truncated(i) ==
    /\ at[i] = "call"
    /\ Over(i, "done")
    /\ count' = count - 1
    /\ UNCHANGED <<agentRest, troubles>>

GraceAfter_Kept(g, n) == IF g < 0 /\ n < MaxLoops THEN -1 ELSE REPORT_GRACE_LOOPS

\* increment_inner and enter_report_only, or consume_grace.
GraceAfter(g, n) ==
    IF g < 0 THEN IF n >= MaxLoops THEN REPORT_GRACE_LOOPS ELSE -1
    ELSE g - 1

\* The request exceeds the context of the model: the same, before any answer.
Overflows(i) == Truncated(i)

\* A response with tool calls: they run, their results are saved.
UsesTools(i) ==
    /\ at[i] = "call" /\ grace[i] < 0
    /\ loops' = [loops EXCEPT ![i] = @ + 1]
    /\ grace' = [grace EXCEPT ![i] = GraceAfter(@, loops'[i])]
    /\ Move(i, "head")
    /\ UNCHANGED <<agentRest, count, troubles>>

\* Tool calls in the report phase are rejected, once.
RejectsTools(i) ==
    /\ at[i] = "call" /\ grace[i] > 0
    /\ grace' = [grace EXCEPT ![i] = GraceAfter(@, loops[i])]
    /\ Move(i, "head")
    /\ UNCHANGED <<agentRest, loops, count, troubles>>

\* Tool calls once more, with no grace left.
Overruns(i) == at[i] = "call" /\ grace[i] = 0 /\ Ends(i)

\* A message of the agent cannot be saved, and `?` leaves the loop without
\* counting the agent out.  The messages of an extraction are not saved.
Fails(i) ==
    /\ i \in Running /\ kind[i] # "memory" /\ Trouble
    /\ Over(i, "failed")
    /\ UNCHANGED <<agentRest, count>>

Panics(i) ==
    /\ i \in Running /\ Trouble
    /\ Over(i, "panicked")
    /\ UNCHANGED <<agentRest, count>>

Agent(i) ==
    \/ Begin(i) \/ Ask(i) \/ SeesAbort(i)
    \/ Cancelled(i) \/ Answers(i) \/ Truncated(i) \/ Overflows(i)
    \/ UsesTools(i) \/ RejectsTools(i) \/ Overruns(i)

Engine ==
    \/ StartDrain \/ SpawnJob \/ Join \/ JoinPanics \/ EndDrain

Next ==
    \/ StartTurn \/ NextRequest \/ Fork \/ Hook \/ StreamAborts \/ StreamLeaves \/ FinishTurn
    \/ SetMode \/ Interrupt \/ SpawnMemory
    \/ Engine \/ SpawnFails \/ JoinFails
    \/ \E i \in JobIds : Agent(i) \/ Fails(i) \/ Panics(i)

Spec == Init /\ [][Next]_vars

\* A task that can go on does.  Nothing is expected of a call: neither the request,
\* which has no time limit (client.rs:216), nor the tools of its answer need end,
\* and the abort flag is looked at in it only once the answer has begun.
FairSpec ==
    /\ Spec
    /\ WF_vars(SpawnJob) /\ WF_vars(Join) /\ WF_vars(JoinPanics) /\ WF_vars(EndDrain)
    /\ \A i \in JobIds : WF_vars(at[i] # "call" /\ Agent(i))

-----------------------------------------------------------------------------
(* Properties *)

TypeOK ==
    /\ kind \in [JobIds -> {"none", "fork", "hook", "memory"}]
    /\ at \in [JobIds -> {"none", "queued", "begin", "head", "call", "done", "failed", "panicked",
                          "dropped"}]
    /\ loops \in [JobIds -> 0 .. MaxLoops]
    /\ grace \in [JobIds -> -1 .. REPORT_GRACE_LOOPS]
    /\ row \in [JobIds -> {"none", "running", "complete"}]
    /\ queue \in Seq(JobIds)
    /\ drain \in [on : BOOLEAN, todo : Seq(JobIds), handles : Seq(JobIds)]
    /\ count \in Nat
    /\ mode \in Modes /\ chosen \in Modes /\ prior \in SUBSET Modes
    /\ aborted \in BOOLEAN /\ allowFork \in BOOLEAN
    /\ turn \in {"idle", "stream", "drain", "after"} /\ turns \in 0 .. MaxTurns
    /\ reports \in Seq(JobIds)
    /\ troubles \in 0 .. Troubles

\* No sub-agent runs uncounted, whichever way others have ended: fork() and
\* ForkSubAgent rely on the count to refuse a second batch (run_loop.rs:33, :57).
\* (With the types of the state.)
CountCoversRunning == TypeOK /\ count >= Cardinality(Running)

\* Whatever ends a drain, the permission mode is the author's again
\* (PermissionOverrideGuard, "including error paths").
AuthorsModeIsBack == ~drain.on => mode = chosen

\* Reports of forks are in the messages in the order the forks were called, each
\* once, each of an agent that came to its end; a fork's run is complete only
\* with its report (drain_subagent_jobs_injects_multiple_reports_in_order).
ReportsAreInOrder ==
    /\ \A m, n \in DOMAIN reports : m < n => reports[m] < reports[n]
    /\ \A i \in Range(reports) : kind[i] = "fork" /\ at[i] = "done"
    /\ \A i \in JobIds : kind[i] = "fork" /\ row[i] = "complete" => i \in Range(reports)

\* A drain comes to its end, unless a call to the LLM or a tool of its answer
\* never does: an agent goes round its loop for as long as its budget and its one
\* round of grace allow, and no join, guard or failed agent keeps the main session.
DrainEnds == (drain.on ~> ~drain.on) \/ <>[](\E i \in JobIds : at[i] = "call")
===============================================================================
