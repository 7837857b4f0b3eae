------------------------------ MODULE ToolGate ------------------------------
(***************************************************************************)
(* Who may call which tool when: the permission check of a call when the   *)
(* model makes it, the same check and the gate of the sub-agents when it   *)
(* is run (novel-tools permission.rs, subagent_gate.rs, context.rs,        *)
(* executor/mod.rs), and what these depend on: the permission mode, which  *)
(* a drain with a hook job overrides, approvals that wait, and the count   *)
(* of running agents.                                                      *)
(*                                                                         *)
(* SubagentDrain, ToolExecutor and TurnBoundary have the steps of a drain, *)
(* of an executor and of a change of mode one by one; here each is a step. *)
(* A path is the set of the areas it lies in, {} for any other file of the *)
(* story, and the tools that read only are told apart where a rule does.   *)
(***************************************************************************)
EXTENDS Naturals, FiniteSets

CONSTANTS
  GateCalls,     \* the calls models make: a tool and the areas of its path
  GateSettings,  \* settings.json: deny_rules, always_allow, post_tool_use, max_react_loops
  Forked,        \* the types of sub-agents that ForkSubAgent is called with
  MaxOpen        \* bound on the calls of a batch and those left by others

Areas == {"plan", "chapters", "memory", "protected", "outside"}
PermissionModes == {"normal", "plan", "auto", "unattended"}

(* FORK_AGENT_CATALOG: the tools suggested to each type of sub-agent.      *)
SuggestedTools ==
  LET searches == {"Read", "Grep", "CharacterSearch", "Tail"}
      queries == {"TrackingQuery", "RelationQuery"}
  IN  [PlanAuditor |-> searches \cup queries
                         \cup {"PlotGraph", "ForeshadowTracker", "Corkboard", "Stats"},
       KnowledgeAuditor |-> searches \cup queries \cup {"PlotGraph", "ForeshadowTracker"},
       ChapterCraftAnalyzer |-> searches \cup queries \cup {"Stats"},
       GeneralPurpose |-> searches \cup {"Write", "Edit", "Glob", "PlotGraph", "Stats", "InvokeSkill",
                                         "ImpactAnalysis", "TodoWrite", "WebSearch"}]
AgentTypes == DOMAIN SuggestedTools
Roles == AgentTypes \cup {"main", "MemoryExtractor"}

UnionForkTools == UNION {SuggestedTools[a] : a \in AgentTypes}

(* The predicates of trait Tool.                                           *)
PathWriters == {"Write", "Edit"}                  \* can_write_outside_plan_dir
AllowedInPlanMode == {"ForkSubAgent", "WebSearch", "InvokeSkill", "AskUserQuestion", "TodoWrite"}
IsReadOnly(tool) ==
  tool \in (UnionForkTools \ {"Write", "Edit", "TodoWrite", "WebSearch"})
             \cup {"AskUserQuestion", "PlotGrid", "CharacterRotate", "AuditStatusQuery"}

ASSUME GateConstants ==
  /\ \A c \in GateCalls : c.place \subseteq Areas
  /\ Forked \subseteq AgentTypes
  /\ MaxOpen \in Nat

VARIABLES
  settings,   \* settings of the session, fixed when it starts
  mode,       \* permission_mode_override
  prior,      \* PermissionOverrideGuard: the mode to restore, or {} when it is not active
  chosen,     \* the mode the author has set
  turn,       \* "idle" (also when paused), "stream", "batch" (results recorded) or "drain"
  allowFork,  \* allow_fork of the context that the stream was given
  ready,      \* calls of the stream whose tasks have not run yet
  done,       \* calls of the stream that have run
  late,       \* calls left by streams that were cut off, with their allow_fork
  waiting,    \* pending_tools: calls that wait for an approval
  question,   \* pending_user_question is some
  jobs,       \* subagent_queue
  agents,     \* agents that run, joined by the drain or not
  leaked,     \* sub_agent_count stays up, since an agent ended in an error
  ran         \* history: the call that this step has run, or NoRun

gateModes == <<settings, mode, prior, chosen>>
callVars == <<ready, done, late, waiting, question>>
agentVars == <<agents, leaked>>
gateVars == <<gateModes, turn, allowFork, callVars, jobs, agentVars, ran>>

NoRun == [by |-> "none"]

GateInit ==
  /\ settings \in GateSettings
  /\ mode \in PermissionModes /\ prior = {} /\ chosen = mode
  /\ turn = "idle" /\ allowFork = FALSE
  /\ ready = {} /\ done = {} /\ late = {} /\ waiting = {} /\ question = FALSE
  /\ jobs = {} /\ agents = {} /\ leaked = FALSE /\ ran = NoRun

-----------------------------------------------------------------------------
(* The permission check *)

(* merge_tool_always_allow: the tools of every sub-agent are added to those *)
(* of the settings, also in the context of the main session.               *)
AlwaysAllow == settings.allow \cup UnionForkTools

DenyRuleBlocks(c) ==
  \/ settings.deny \cap {"*", c.tool} # {}
  \/ "Write(chapters/**)" \in settings.deny /\ c.tool \in PathWriters /\ "chapters" \in c.place

(* evaluate_plan_mode and evaluate_standard_mode: whether they allow; if   *)
(* not, Plan mode denies and Normal mode asks.                             *)
PlanAllows(c) ==
  \/ IsReadOnly(c.tool)
  \/ c.tool \in PathWriters /\ "plan" \in c.place
  \/ c.tool \in AllowedInPlanMode \ PathWriters
ModeAllows(c) ==
  CASE mode = "plan" -> PlanAllows(c)
    [] mode = "normal" -> IsReadOnly(c.tool) \/ c.tool = "ForkSubAgent"
    [] OTHER -> TRUE

(* evaluate_tool_permissions.                                              *)
Verdict(c, fork) ==
  IF DenyRuleBlocks(c) \/ (c.tool = "ForkSubAgent" /\ ~fork) THEN "deny"
  ELSE IF c.tool \in AlwaysAllow \cup {"TodoWrite"} \/ ModeAllows(c) THEN "allow"
  ELSE IF mode = "plan" THEN "deny" ELSE "ask"

(* memory_fork_can_use_tool, subagent_mutator_gate.                        *)
MemoryForkMayUse(c) ==
  \/ c.tool \in {"Read", "Grep", "Glob"}
  \/ c.tool \in PathWriters /\ "memory" \in c.place
GatePasses(by, c) ==
  CASE by = "main" -> TRUE
    [] by = "MemoryExtractor" -> MemoryForkMayUse(c)
    [] OTHER -> c.tool \notin {"Write", "Edit", "TodoWrite"}

(* Mutant of MayRun: what was allowed or approved is run without a check.  *)
MayRun_Unchecked(by, c, fork, approved) == GatePasses(by, c)

(* execute_one_with_approval.                                              *)
MayRun(by, c, fork, approved) ==
  /\ GatePasses(by, c)
  /\ Verdict(c, fork) = "allow" \/ (approved /\ Verdict(c, fork) = "ask")

(* validate_write_root and, unless a list lets the tool skip the policies  *)
(* of the modes, validate_plan_mode_write_path; whether the file was read  *)
(* is the concern of ReadCache.                                            *)
WithinRoot(c) == c.place \cap {"outside", "protected"} = {}
PlanPathHolds(c) == c.tool \in AlwaysAllow \/ mode # "plan" \/ "plan" \in c.place
MayTouch(c) ==
  c.tool \in PathWriters \cup {"KnowledgeDerive"} => WithinRoot(c) /\ PlanPathHolds(c)

(* What becomes of a call: it runs, or it fails by a check or on its own.  *)
Runs(by, c, fork, approved, isLate) ==
  /\ MayRun(by, c, fork, approved)
  /\ MayTouch(c)
  /\ ran' = [by |-> by, tool |-> c.tool, place |-> c.place, approved |-> approved, late |-> isLate]

(* AskUserQuestion asks the author, unless nobody attends.                 *)
Asks(c) == c.tool = "AskUserQuestion" /\ mode # "unattended"

(* knowledge_auditor_hook_task: the hooks that match a recorded result,    *)
(* which a question is not yet.                                            *)
HookMatches(matcher, c) ==
  \/ matcher \in {"*", c.tool}
  \/ c.tool \in PathWriters /\ \/ matcher = "Write|Edit"
                               \/ matcher = "Write(chapters/**)" /\ "chapters" \in c.place
HookJobs(c) ==
  IF ~Asks(c) /\ \E m \in settings.hooks : HookMatches(m, c)
  THEN {[type |-> "KnowledgeAuditor", hook |-> TRUE]} ELSE {}
JobsOfResults(recorded) == UNION {HookJobs(c) : c \in recorded}

(* enqueue_fork_subagent, which looks at allow_fork again.                 *)
ForkJobs(c) ==
  IF c.tool = "ForkSubAgent" THEN {{[type |-> t, hook |-> FALSE]} : t \in Forked} ELSE {{}}

-----------------------------------------------------------------------------
(* The main session *)

CountIsZero == agents = {} /\ ~leaked

(* tool_context: the context of a stream is made when it begins.           *)
Stream == turn' = "stream" /\ allowFork' = CountIsZero
Settle == turn' = "idle" /\ UNCHANGED allowFork
Open == Cardinality(ready \cup done \cup waiting) + Cardinality(late)

(* handle_message_with_events refuses while a question waits, drops the    *)
(* approvals that wait, and may fail before the stream.                    *)
StartTurn ==
  /\ turn = "idle" /\ ~question
  /\ waiting' = {} /\ (Stream \/ Settle) /\ ran' = NoRun
  /\ UNCHANGED <<gateModes, ready, done, late, question, jobs, agentVars>>

(* handle_ready, apply_permission; a call that is denied leaves no trace   *)
(* but its result.                                                         *)
CallTool(c) ==
  /\ turn = "stream" /\ Open < MaxOpen
  /\ \/ Verdict(c, allowFork) = "allow" /\ ready' = ready \cup {c} /\ UNCHANGED waiting
     \/ Verdict(c, allowFork) = "ask" /\ waiting' = waiting \cup {c} /\ UNCHANGED ready
  /\ ran' = NoRun
  /\ UNCHANGED <<gateModes, turn, allowFork, done, late, question, jobs, agentVars>>

(* A task of the stream ends; its result is recorded with the batch.       *)
RunCall(c) ==
  /\ turn = "stream" /\ c \in ready
  /\ ready' = ready \ {c}
  /\ \/ /\ Runs("main", c, allowFork, FALSE, FALSE)
        /\ done' = done \cup {c}
        /\ \E fork \in ForkJobs(c) : jobs' = jobs \cup fork
     \/ ran' = NoRun /\ UNCHANGED <<done, jobs>>
  /\ UNCHANGED <<gateModes, turn, allowFork, late, waiting, question, agentVars>>

(* A task of a stream that was cut off ends: nobody takes its result.      *)
RunLateCall(l) ==
  /\ l \in late
  /\ late' = late \ {l}
  /\ \/ /\ Runs("main", l.call, l.fork, FALSE, TRUE)
        /\ \E fork \in ForkJobs(l.call) : jobs' = jobs \cup fork
     \/ ran' = NoRun /\ UNCHANGED jobs
  /\ UNCHANGED <<gateModes, turn, allowFork, ready, done, waiting, question, agentVars>>

(* The stream is cancelled (clear_subagent_queue) or fails: its tasks go   *)
(* on by themselves; the calls that ask are forgotten with the dispatch.   *)
StreamIsCut ==
  /\ turn = "stream" /\ Settle
  /\ late' = late \cup {[call |-> c, fork |-> allowFork] : c \in ready}
  /\ ready' = {} /\ done' = {} /\ waiting' = {} /\ jobs' \in {{}, jobs} /\ ran' = NoRun
  /\ UNCHANGED <<gateModes, question, agentVars>>

(* execute_stream_results: the results are recorded, with their hooks and  *)
(* questions; a write that fails ends the turn with some of them.          *)
RecordResults ==
  \E recorded \in SUBSET done :
    /\ turn = "stream" /\ ready = {}
    /\ (recorded = done /\ turn' = "batch" /\ UNCHANGED allowFork) \/ Settle
    /\ done' = {} /\ question' = \E c \in recorded : Asks(c)
    /\ jobs' = jobs \cup JobsOfResults(recorded) /\ ran' = NoRun
    /\ UNCHANGED <<gateModes, ready, late, waiting, agentVars>>

(* The turn pauses for a question, with the queue as it is, or an interrupt *)
(* ends it and clears the queue.                                           *)
BatchStops ==
  /\ turn = "batch" /\ Settle
  /\ (question /\ jobs' = jobs) \/ jobs' = {}
  /\ ran' = NoRun /\ UNCHANGED <<gateModes, callVars, agentVars>>

(* After a batch and its drain: the turn pauses for approvals, ends, or    *)
(* goes on with another stream.                                            *)
GoOn == Settle \/ (waiting = {} /\ Stream)

NothingQueued ==
  /\ turn = "batch" /\ ~question /\ jobs = {}
  /\ GoOn /\ ran' = NoRun /\ UNCHANGED <<gateModes, callVars, jobs, agentVars>>

(* approve_tool and deny_tool, with a context of now; the last of them     *)
(* goes on with the turn.                                                  *)
Resolved(c) ==
  /\ turn = "idle" /\ c \in waiting /\ waiting' = waiting \ {c}
  /\ Settle \/ (waiting = {c} /\ ~question /\ Stream)
Approve(c) ==
  /\ Resolved(c)
  /\ \/ /\ Runs("main", c, CountIsZero, TRUE, FALSE)
        /\ \E fork \in ForkJobs(c) : jobs' = jobs \cup fork \cup HookJobs(c)
     \/ ran' = NoRun /\ UNCHANGED jobs
  /\ UNCHANGED <<gateModes, ready, done, late, question, agentVars>>
Reject(c) ==
  /\ Resolved(c) /\ ran' = NoRun
  /\ UNCHANGED <<gateModes, ready, done, late, question, jobs, agentVars>>

(* answer_question.                                                        *)
Answer ==
  /\ turn = "idle" /\ question /\ question' = FALSE
  /\ GoOn /\ ran' = NoRun
  /\ UNCHANGED <<gateModes, ready, done, late, waiting, jobs, agentVars>>

(* is_turn_in_progress.                                                    *)
IsTurnInProgress == question \/ waiting # {}

(* apply_permission_mode_change, by the look that the engine takes; the    *)
(* one before the command is queued is left out.                           *)
SetPermissionMode(m) ==
  /\ turn = "idle" /\ ~IsTurnInProgress
  /\ mode' = m /\ chosen' = m /\ ran' = NoRun
  /\ UNCHANGED <<settings, prior, turn, allowFork, callVars, jobs, agentVars>>

-----------------------------------------------------------------------------
(* The sub-agents *)

(* ConversationFork::validate, max_react_loops_for.                        *)
HasBudget(type) == type = "KnowledgeAuditor" => settings.loops \in 1..80

(* drain_subagent_jobs: a batch with a hook job runs under Auto.  An agent *)
(* without a budget ends in an error at once, and the count stays up.      *)
Drain ==
  /\ turn = "batch" /\ ~question /\ jobs # {}
  /\ turn' = "drain" /\ jobs' = {}
  /\ IF \E j \in jobs : j.hook THEN mode' = "auto" /\ prior' = {mode} ELSE UNCHANGED <<mode, prior>>
  /\ agents' = agents \cup {[type |-> j.type, joined |-> TRUE] : j \in {k \in jobs : HasBudget(k.type)}}
  /\ leaked' = (leaked \/ \E j \in jobs : ~HasBudget(j.type))
  /\ ran' = NoRun
  /\ UNCHANGED <<settings, chosen, allowFork, callVars>>

(* spawn_memory_extraction, one at a time: the task adds to the count when *)
(* it begins, which may be during the next turn.                           *)
SpawnMemory ==
  LET extractor == [type |-> "MemoryExtractor", joined |-> FALSE]
  IN  /\ extractor \notin agents
      /\ agents' = agents \cup {extractor} /\ ran' = NoRun
      /\ UNCHANGED <<gateModes, turn, allowFork, callVars, jobs, leaked>>

(* The context of an agent lets it neither fork nor ask: a call that would *)
(* ask is refused when it is run.                                          *)
RunsForAgent(a, c) == Runs(a.type, c, FALSE, FALSE, FALSE)
AgentCalls(a, c) ==
  /\ a \in agents /\ RunsForAgent(a, c)
  /\ UNCHANGED <<gateModes, turn, allowFork, callVars, jobs, agentVars>>

(* sub_agent_dec, which a sub-agent that ends in an error does not reach.  *)
AgentEnds(a) ==
  /\ a \in agents /\ agents' = agents \ {a} /\ ran' = NoRun
  /\ leaked' \in {leaked, leaked \/ a.type # "MemoryExtractor"}
  /\ UNCHANGED <<gateModes, turn, allowFork, callVars, jobs>>

(* Drop of PermissionOverrideGuard.                                        *)
Restore ==
  /\ mode' = IF prior = {} THEN mode ELSE CHOOSE m \in prior : TRUE
  /\ prior' = {} /\ UNCHANGED <<settings, chosen>>

DrainEnds ==
  /\ turn = "drain" /\ \A a \in agents : ~a.joined
  /\ Restore /\ GoOn /\ ran' = NoRun
  /\ UNCHANGED <<callVars, jobs, agentVars>>

(* The drain ends in an error: the agents go on by themselves.             *)
DrainFails ==
  /\ turn = "drain"
  /\ agents' = {[a EXCEPT !.joined = FALSE] : a \in agents}
  /\ Restore /\ Settle /\ ran' = NoRun
  /\ UNCHANGED <<callVars, jobs, leaked>>

-----------------------------------------------------------------------------
GateNext ==
  \/ StartTurn \/ StreamIsCut \/ RecordResults \/ BatchStops \/ NothingQueued \/ Answer
  \/ Drain \/ SpawnMemory \/ DrainEnds \/ DrainFails
  \/ \E c \in GateCalls : CallTool(c) \/ RunCall(c) \/ Approve(c) \/ Reject(c)
  \/ \E l \in late : RunLateCall(l)
  \/ \E m \in PermissionModes : SetPermissionMode(m)
  \/ \E a \in agents : AgentEnds(a) \/ \E c \in GateCalls : AgentCalls(a, c)

GateSpec == GateInit /\ [][GateNext]_gateVars

-----------------------------------------------------------------------------
(* Types of the variables.                                                 *)
GateTypeOK ==
  /\ settings \in GateSettings
  /\ mode \in PermissionModes /\ chosen \in PermissionModes /\ prior \subseteq PermissionModes
  /\ turn \in {"idle", "stream", "batch", "drain"} /\ {allowFork, question, leaked} \subseteq BOOLEAN
  /\ ready \cup done \cup waiting \subseteq GateCalls
  /\ late \subseteq [call : GateCalls, fork : BOOLEAN]
  /\ jobs \subseteq [type : AgentTypes, hook : BOOLEAN]
  /\ agents \subseteq [type : AgentTypes \cup {"MemoryExtractor"}, joined : BOOLEAN]
  /\ ran = NoRun \/ ran \in [by : Roles, tool : {c.tool : c \in GateCalls}, place : SUBSET Areas,
                            approved : BOOLEAN, late : BOOLEAN]

(* What the author's mode allows the main session: in Plan mode tools that *)
(* read only and the draft of a plan, in Normal mode nothing else that the *)
(* author has not approved.                                                *)
ChosenModeAllows ==
  /\ chosen = "plan" =>
       \/ IsReadOnly(ran.tool) \/ ran.tool \in AllowedInPlanMode
       \/ ran.tool \in PathWriters /\ "plan" \in ran.place
  /\ chosen = "normal" => IsReadOnly(ran.tool) \/ ran.tool = "ForkSubAgent" \/ ran.approved

(* A call of the main session that no list always allows keeps to the mode *)
(* that the author has chosen by the time it runs, however long ago it was *)
(* allowed; one left by a stream that was cut off may meet the Auto of a   *)
(* later batch of hooks.                                                   *)
ModeIsObeyed ==
  ran.by = "main" /\ ran.tool \notin AlwaysAllow \cup {"TodoWrite"} =>
    ChosenModeAllows \/ (ran.late /\ mode # chosen)

(* The author is asked for approvals in Normal mode only and never in      *)
(* unattended mode, and what was approved in it runs in it.                *)
NobodyIsAskedInVain ==
  /\ waiting # {} => chosen = "normal"
  /\ question => chosen # "unattended"
  /\ ran.by = "main" => (ran.approved => chosen = "normal")

(* No sub-agent is queued while another runs or the count stays up, but by *)
(* a call of a stream that was cut off; an extraction may have begun since *)
(* the stream looked at the count.                                         *)
OnlyExtracting == ~leaked /\ \A a \in agents : a.type = "MemoryExtractor"
ForksDoNotNest ==
  ran.by # "none" => (ran.tool = "ForkSubAgent" => ran.by = "main" /\ (OnlyExtracting \/ ran.late))

(* Agents do not write the story by Write and Edit nor change the todos:   *)
(* the extractor writes memories, and a sub-agent nothing.                 *)
RolesAreKept ==
  ran.by \notin {"none", "main"} =>
    /\ ran.tool # "TodoWrite"
    /\ ran.tool \in PathWriters => ran.by = "MemoryExtractor" /\ "memory" \in ran.place

(* No call runs past the gate: it keeps to the chosen mode, asks nobody in *)
(* vain, nests no forks and keeps to the role of its agent.                *)
TheGateHolds == ModeIsObeyed /\ NobodyIsAskedInVain /\ ForksDoNotNest /\ RolesAreKept
=============================================================================
