# Verification of the novel agent

TLA+ modules, TLC configurations and TLAPS proofs for the program of this
repository: a desktop agent (Rust, Tauri, React) that writes novels with an LLM,
tools and sub-agents. Every definition is translated from the code under `src/`.
Where a document or a comment and the code disagree, the model follows the code;
the disagreements met on the way are in section 5, and two of them are runs of their
own whose counterexample shows them.

## 1. The system

    React UI ──IPC──▶ commands ──mpsc queue──▶ engine_loop (one task)
       ▲                 │ interrupt (past the queue)     │ runs a command to its end
       │                 ▼                                ▼
       │            abort flag ◀─── read by ───────  AgentEngine: turn loop
       └──── events (TurnStart … TurnComplete) ◀───  │ LLM stream + tool executor
                                                     │ sub-agent drain, memory tasks
                                                     │ compaction
                                                     ▼
                      SQLite (messages, archive, metadata, read cache, todos)
                      files (chapters, knowledge base)

One task owns the `AgentEngine`. It takes the commands of the UI one by one and
runs each to its end: a message of the author starts a *turn*, which alternates
requests to the LLM with batches of tool calls until there is nothing more to do
or the author must be asked (an approval, a question). Only the interrupt does not
queue: it raises a flag from the UI's thread at any moment. Beside that task run the
tasks of the tools, of the sub-agents and of the extraction of memories, and, in the
window, the callbacks of the UI with the requests they wait for.

### Inventory

| Component (code) | State | Operations | Interacts with | What is hard | What makes it correct |
|---|---|---|---|---|---|
| Command queue (`novel-server/src/tauri/engine_loop.rs`, `commands/`) | the mpsc queue, `turn_in_progress` | SendMessage, ApproveTool, DenyTool, AnswerQuestion, Interrupt, mode/session/project switches | calls the engine; interrupt overtakes the queue | an interrupt between any two steps; commands in any order while a turn is paused; a command checked before it is queued | a command ends; the mode stays in a turn |
| Turn loop (`novel-core/src/turn/loop`) | transcript, turn number, pending approvals, pending question, failure circuit, iteration counters | `handle_message_with_events`, `run_inner_turn_loop`, `approve_tool`, `deny_tool`, `answer_question`, `continue_turn_loop` | LLM client, executor, drain, compaction, database | pause and resumption in any order, write errors at every step, interrupts | one result per call, no approval lost, a turn that is not paused is closed, bounded requests |
| LLM stream (`novel-deepseek/src/client.rs`, `turn/llm_stream.rs`, `tool_dispatch.rs`) | the response being assembled, its calls, which are handled | `create_stream`, dispatch of calls as they become complete, drain, recording | executor, permission check, abort bridge | interrupt, cancel or error in mid-stream with tools already running; arguments cut off | every recorded call gets its own result, in order |
| Interrupt (`interrupt/`) | abort flag, bridge to the tools | raise, clear, `finalize_stream_cancel` | loop, executor, agents | where the flag is read, and where it is not | an interrupted turn ends and leaves no call open |
| Tool executor (`novel-tools/src/executor`) | queue, tasks, semaphore, serial lock | add, start, peek, collect, discard | stream | concurrent and exclusive calls, calls that outlive a discard | every collected call has one result; a batch does not wait for itself |
| Permissions (`permission/`, `engine/prompt_permission.rs`) | mode, its stored copy, the notice for the next message, the override of a drain | verdict on a call, change of mode | loop, sub-agents, system prompt | a verdict given when a call is made and again when it runs, with the mode, the lists and the count of agents as they are by then; two gates on a change, notices that wait, an override shared by a batch | no call runs past the gate, the mode stays in a turn, the model is told of it, a drain gives it back |
| Sub-agents (`subagent/`, `fork_runs`) | job queue, running count, override guard, rows | queue, drain, run, report | loop, database, LLM | side by side runs joined in order, errors in the middle | each job reports once, in order; no agent runs uncounted; a drain ends |
| Transcript repair (`message/repair.rs`) | none (a function of the transcript) | remove orphans, fill gaps | before every request, and on load | in-place removal, late results, repeated application | the API's well-formedness, nothing valid lost |
| Rows and resume (`turn/loop/persistence.rs`, `message/turn_rows.rs`, `engine/lifecycle.rs`, `novel-state/src/db`) | tables `messages`, `message_archive`, `metadata`; `turn_number`, `turn_message_seq` | insert, replace a session, read, resume | every step of the loop; compaction | unique keys counted two ways, failed writes, the end of the process | memory and rows tell the same story, rows stay in order |
| Compaction (`turn/loop/compaction.rs`, `novel-compaction`) | failure count, epoch, archive | partition, summarise, rebuild, archive, commit | rows, LLM, read cache | four database steps, each of which may fail or be the last | nothing leaves the database unarchived, no epoch twice |
| Read cache and file locks (`read_cache*.rs`, `read_cache/`) | per file: mtime, window, text, committed spans; dirty paths; saved rows and anchor | read, edit, promote, save, rebuild after a compaction, restore | tools, recording of results, compaction, resume | a file written between read and edit, spans moved by edits, an anchor that is stale | Edit opens only lines the conversation shows; a stub refers to something that was read |
| Memory extraction and prefetch (`novel-memory`) | cursor, in-progress flag, waiting context, the prefetch of a turn | start, coalesce, finish, trailing run; prefetch per turn | end of a turn, transcript | an extraction that runs across turns; a selection consumed after a compaction | the flag never stays up; a file is attached once |
| Transcript of the UI (`ui/src/transcript`, `useAgent*.ts`, `useTranscriptLoader.ts`) | machine, open segment, turn slots, loads in flight, generation | events of a turn, load, evict, reload, reset, send, interrupt, answer | IPC | answers out of order, after an eviction or a switch, in the middle of a turn | text shown once, slots that tell the truth, at rest what is stored |
| Knowledge base (`novel-knowledge`, `novel-tools/src/novel`) | Markdown files: ledger, logs, cards, outline, INDEX | append, mark, derive, query, impact | tools, reports of sub-agents, the author's own edits | files read, changed in memory and written while others write; tables parsed leniently | what a tool reports is what the rows say |
| Todos (`novel-state/src/todo.rs`, `todo_write.rs`, status bar) | rows per session | TodoWrite, cycle by the author, events, status refresh | loop (nudge), UI | read, judge, write without a transaction | one in progress, nothing mixed, the bar shows the list |
| Session tables, token counters (`novel-state/src/db`, `session_llm`) | rows | single statements | loop | little | - |
| Event coalescing (`novel-server/stream_coalesce.rs`) | buffered deltas | merge, flush | events to the UI | flush before other events | the UI sees the text in order |
| Skills, configuration, logging, shell, UI components | files, settings | read, write, render | tools, loop | little concurrent state of their own | - |

The hazards of this code, each at its line and with the properties that would catch
it, are the `hazards` of `PROJECT.json`.

## 2. The modules

| Module | What it models | Its state | Its actions |
|---|---|---|---|
| `Messages` | `ChatMessage` as the engine tells messages apart | - | - |
| `ToolChainRepair` | `message/repair.rs`, both passes as recursive functions over the list | a transcript grown message by message, and reloaded | `AddUser`, `AddAssistant`, `AddResult`, `Load` |
| `Subsequences` | lists filtered in place (`retain`, `filter`): `Kept(s, K)` | - | - |
| `TurnEngine` | the turn loop behind the command queue | the `AgentEngine` fields, the locals of the running command, the abort flag | one per step of the loop between two awaits that matter, one per command of the UI, `Interrupt` |
| `CallLifecycle` | the abstract promise: what may happen to a tool call | one status per call | `Issue`, `Cut`, `Finish`, `Lose`, `Resolve`, `Answer`, `Abandon` |
| `ToolExecutor` | one response: SSE stream, dispatch, executor, recording | calls received, the sets of the dispatch, queue, tasks, results shown and recorded | `Name`, `Piece`, `Arguments`, the three ends of a stream, `TaskStarts`, `TaskEnds`, `Poll`, `Bridge`, `DrainDispatch`, `Collect`, `Record`, `AbortStream`, `Interrupt` |
| `SubagentDrain` | queue, drain and loops of the sub-agents | jobs with their place, loops and grace, rows, queue, handles, count, mode and guard | the main session between two requests, `StartDrain` … `EndDrain`, `Agent(i)`, `SpawnFails`, `JoinFails`, `Fails`, `Panics`, `SetMode`, `Interrupt` |
| `TurnBoundary` | what is carried from turn to turn: mode and notice, prefetch, extraction | modes, notice, messages, cursor, flag, waiting context, tasks | `AskMode`, `ApplyMode`, the turn's start, ends and pauses, `Compact`, the gate of the extractor in four steps, the task in four, `Reopen` |
| `ToolGate` | who may call which tool when: `permission.rs`, `subagent_gate.rs`, the rules and lists of `context.rs` and `settings.json`, hooks | mode, override and the author's mode; the calls of a stream, of those cut off, and those that wait; jobs, agents, the call that runs | a turn and its stream, `CallTool`, `RunCall`, `RunLateCall`, `StreamIsCut`, `RecordResults`, `Approve`, `Reject`, `Answer`, `SetPermissionMode`, `Drain` and its two ends, `AgentCalls`, `AgentEnds`, `SpawnMemory` |
| `SessionStore` | rows, compaction, crash and resume | the transcript and counters in memory, the three tables, the compaction at work | recording, pausing, compaction step by step, `Crash`, `Resume` |
| `ReadCache` | the cache entry of one file and its copy in the database | the file, entry, batch, transcript, saved entry and anchor, epoch | `Read`, `Tail_`, `Edit`, `Write`, `Refused`, `Record`, `Interrupt`, flush in steps, `Compact`, `Rebuild`, `Crash`, `Resume`, `ChangeOutside` |
| `Transcript` | the functions of `machine.ts`, `merge.ts`, `liveTail.ts`, `selectors.ts` | - | - |
| `Desk` | the UI, its requests, and the engine as the UI sees it | transcript machine, slots, generation, tasks awaited, command queue, events, engine, stored turns | the author's clicks, each listener, each answer of a request, the engine's events |
| `KnowledgeTables`, `AuditLedger`, `PlotThreads`, `CharacterCards`, `Outline`, `KnowledgeBase` | the knowledge files as sequences of rows, and the tools that answer from them | the rows of each file, derived files, and what was said of them | appending, marking in two steps, deriving; the queries are operators |
| `TodoList` | TodoWrite, the author's cycling and the status bar on the same rows | rows, writers at their statement, events, the bar | statements of a write one by one, failure, events and refreshes |
| `MC*` | instances for TLC | - | - |
| `*_proofs` | theorems (section 4) | - | - |

**How `TurnEngine` reads the code.** `pc` is where the command being run stands.
`"idle"` is the engine task waiting on its queue (`engine_loop.rs`). `SendMessage`
takes it to `"loop"`, the head of `run_inner_turn_loop`, where
`inner_turn_loop_exit_reason` is evaluated; then `"stream"` (`llm_stream.rs`),
`"tools"` (the executor has the batch), `"apply"` (`execute_stream_results`, one
result at a time), `"drain"` (`drain_subagent_jobs`), `"settle"`
(`process_inner_turn_llm_result`), and `"finish"` (`emit_turn_finished` and what
follows it). A paused turn is `"idle"` with `pendingTools` or `question` set;
`ApproveTool`, `DenyTool` and `AnswerQuestion` resolve it and, with the last one,
enter the loop through `continue_turn_loop`. The abort flag is a variable of its
own, raised by `Interrupt` in any state and read by the steps that read it in the
code, at the point where they read it. Each database write has a failing variant,
with the memory already changed or not as the order of the statements has it.
The queue itself is not a variable: a queued command has no effect before it is
taken, so taking any command when idle covers every content of the queue.

**How `ToolExecutor` reads the code.** `TurnEngine` takes a batch as the fate of each of
its calls; this module is what lies behind. A call comes in pieces, its name, some
of its arguments, the last of them (`apply_chunk`, `try_emit_ready_tool`), in any order among
the calls, and the stream may end between any two; a call without any arguments is judged
as one with `{}` (`Refused`, `tool_validation_failure`), so that a tool which accepts that runs. `HandleReady` is `handle_ready` with its verdict and `apply_permission`;
`AddTools` starts what may start (`try_execute_queued`); a task is spawned, gets its
permit or the lock of its executor (`MayStart`), runs, and pushes its result. When the stream ends the
calls come out of a `HashMap` in any order. Then `AbortStream`, or `DrainDispatch`,
`Collect` and `Record`. Tasks of a stream that failed or was aborted go on by
themselves, as they do in the code.

**How `SubagentDrain` reads the code.** `at[i]` is where job `i` stands: queued, spawned,
at the head of its loop (where abort flag and budget are tested), in a request, or
ended in one of four ways. `StartDrain` takes the queue, installs the guard of the
mode and begins to spawn; each `SpawnJob` writes a row, counts the agent in and starts
it; each `Join` waits for the next handle in order and injects a report. Every error
leaves through `LeaveDrain`, the drops of the two guards. An extraction of memories is
a job that no queue and no drain knows; its task adds to the count when it begins, which
may be in the middle of the next turn.

**How `ToolGate` reads the code.** `Verdict` is `evaluate_tool_permissions` with its
order of the rules: the deny rules, the leave to fork, the lists (into which
`merge_tool_always_allow` puts the tools of every sub-agent), the mode. It is asked when
the model names a call, with the leave to fork that the context was given as the stream
began, and again by `MayRun` when the call is run, then after the gate of the agents. A
call is its tool and the areas its path lies in; the catalog of the sub-agents is copied
tool by tool, since it decides what needs no approval. A drain, a stream and a change of
mode are single steps here, as their interleavings are the matter of `SubagentDrain`,
`ToolExecutor` and `TurnBoundary`; what is interleaved is when a call is made and when it
runs: a stream that was cut off leaves `late` calls, which run under whatever mode holds
by then, a failed drain leaves agents that nobody joins, a write that fails leaves some of
a batch's hooks in the queue, and an error of an agent leaves the count up (`leaked`).

**How `TurnBoundary` reads the code.** A turn is its author's message and its replies.
`AskMode` is the command with its test of the shared flag, `ApplyMode` the engine's
own test and `apply_permission_mode_change` with its notice, `StartTurn` takes the
notice as a prefix and starts a prefetch. The extractor is read at the grain of its
atomics: the cursor is read, the flag is tested, the context is put aside or the flag
is swapped; a task runs, takes the waiting context and moves the cursor, and releases
the flag, or goes on with a trailing run.

**How `SessionStore` reads the code.** A message has an identity and a kind; a row is
a key (turn number, sequence) and a message. The running engine counts the keys up
(`persist_message_alloc`), a compaction numbers the rebuilt session from scratch
(`build_message_rows_from`); both countings are modelled, as is the UNIQUE
constraint. A compaction is the steps of `compact_and_sync`: rebuild, increment the
epoch, archive, record the bounds, replace the rows and then the transcript. A write
may fail in each, and the process may end between any two of them; `Resume` reads
the rows back in the order of the query.

**How `ReadCache` reads the code.** A line of the file is a number that no other line
has, so a shown line is known by its number. Calls run under the file's lock, one at a
time (`with_file_lock`), and wait in `batch`; `Record` promotes the window cached *by then*
(`promote_read_cache_for_tool_result`). `committed_spans` is the set of lines they
cover. Edit and Write are always allowed in every session, so that they need no entry
(`require_read_before_write` lets them pass) and only check one if there is one (`MayEdit`).
An mtime counts whole seconds: `Written` moves it on or leaves it. The code has six ways to lose track
of what was shown; each leaves its name (`slips`) on the entry that met it, which nothing but the
properties reads. After a batch the dirty entry and then the anchor are saved; `Resume` restores
the entry if `AnchorMatches`, and otherwise replays the calls of the transcript over
today's file (`read_cache_replay.rs`), as `Rebuild` does after a compaction.

**How `Desk` reads the code.** JavaScript runs one callback up to its next `await`: each
such stretch is an action, what it waits for is a record in `tasks`, and the answers
come in any order. The engine side sends its events in order and stores its turn. A turn streams several pieces of
text, told apart by their numbers (`Piece`), in one or two segments. The abort flag is cleared when a
command ends, also at a pause (`EndResponse`); an interrupt stores what had come of the response (`Finalized`). A
stale answer is dropped by generation or session exactly where the code compares them.

**How the knowledge modules read the code.** A file is its rows with what their readers
tell apart; appending is what agents do with Edit, marking is the engine's read and
write of the whole ledger with edits of others between the two: the write takes what was said
since the read with it. A cell of a plan has a text, nothing, or a dash, since the merge of
PlotGrid tests each column for its own filler. The queries
(`AuditStatusQuery`, `ForeshadowTracker`, `PlotGraph`, `CharacterSearch`, `RelationQuery`,
`CharacterRotate`, `PlotGrid`, `Corkboard`, `ImpactAnalysis`, `Stats`) are operators that
follow the code's loops, and the properties compare them with what the rows say.

**Composition.** `MCTurnEngine` maps the state of `TurnEngine` to the status of each
call and checks `CallLifecycle!Spec`; `ToolExecutor` does the same for one batch, so the
two agree on what a batch is. `TurnEngine` and `ToolChainRepair` share `Messages`:
`ResultsReachTheLLM` is stated with `ValidToolAt`, what the repair keeps. `Desk` is built on
`Transcript`, `KnowledgeBase` on the modules of the single files. `MCKnowledge` puts the
tools of a novel and the gate before them into one instance, a topic at a time.

## 3. The runs

| Run | Bounds | States | What it shows |
|---|---|---|---|
| `repair` | 3 calls, 6 messages | 4 465 | the request is well formed, the repair loses nothing valid and changes nothing on a second pass, requests only grow |
| `turn` | 2 turns, 2 calls, 1 failed write, 1 iteration, circuit of 2, 1 nudge | 2 726 238 | approvals, questions, pauses, interrupts: approvals match the open calls, idle turns are closed or paused, no request while a question waits, budget, failure circuit, refinement of `CallLifecycle` |
| `faults` | 1 turn, 2 calls, 2 failed writes, 2 iterations | 413 183 | no call is answered twice, each keeps to `CallLifecycle`, every command ends unless it waits for others for good |
| `store` | 4 messages, 2 compactions, 1 fault, 1 crash, 1 turn kept | 1 696 057 | memory and rows agree, rows in order under free keys, nothing lost, fresh epochs |
| `cache` | a file of 3 lines, 3 windows, Tail of 1 line, 3 edits, batches of 2; 4 events, which are calls and troubles | 2 639 207 | Edit opens only what was shown as it is; stubs refer to something that was read |
| `tools` | 3 calls of 5 kinds, 2 permits | 1 053 881 | one result per call in order, what runs was allowed for what it runs with, a batch does not wait for itself and implements `CallLifecycle` |
| `agents` | 3 jobs, 2 turns, budget of 1 loop, 2 modes, 1 trouble | 494 858 | no agent runs uncounted, the author's mode comes back, reports in order, a drain ends unless a call in it never does |
| `boundary` | 3 turns, 3 messages, 3 changes of mode, 1 trouble, 4 of these together, 1 memory file | 1 290 104 | the model is told its mode, the extractor is never locked out, a file is attached once |
| `desk` | 2 sessions with a stored turn each, 2 messages (interchangeable), 2 pieces of text a turn, 2 events on their way when another is told, 2 requests awaited, 2 bootstraps, 1 trouble | 5 788 777 | streamed text is shown once and in order, slots tell the truth, at rest the UI shows what is stored |
| `knowledge` | 2 chapters, up to 3 rows per log, 2 cards, 2 todos, 2 tools and the author; 5 calls, 2 open at once, 2 settings | 629 292 | what the tools report is what the rows say; todos are kept; no call runs past the gate |
| `orphans` | 1 turn, 2 calls, 2 iterations | - | violated: a result approved after the pause is dropped from the request |
| `heard` | as `desk` with 1 message, sent while a bootstrap is under way | - | violated: the transcript is reset in a running turn |

A trouble is a failed write, a failed request, a panic, a compaction, a change from
outside or an end of the process, as each module says at its bound.

**Why the bounds are enough.** Two calls give every relation that two calls can have:
one batch or two, one asking while the other runs, approvals resolved in both
orders, two questions, a fork and an approval. Two turns give everything that one
turn can leave for the next (approvals, circuit, abort flag, queued jobs). One
iteration in `turn` and two in `faults` reach the loop head again after tools, with
and without the limit met, and one nudge shows that nudges are not counted with the
iterations. One failed write, as in `turn`, reaches every failing variant but one, and a command after it, in
the second turn too. The last, an answer to a question that cannot be written
(`AnswerQuestionFails`), needs a first failure that kept the stub of the question out of the
transcript; `faults` has two, and checks the lifecycle of the calls with them. The repair works on one block at a time, with orphans judged by what was kept
before them; six messages hold two blocks with a message between them and an orphan
behind them. In `store` four messages and two compactions reach a compaction
of a session that already starts with a summary, and one crash and one fault fall
between any two steps of either. In `cache` a window of one line, one of the whole file by number, a full one and a Tail give
every way two windows merge, with and without a gap; an edit puts more lines than it takes, none, or
replaces everywhere. A change from outside touches the last line, below what a window of the
first lines shows, or puts a line before the first, which moves them all. Four events are, say, a read, an edit that moves its lines, an interrupt and a look at
the result, or two reads, a compaction and an edit; a call and its trouble come in any
order. In `tools`
three calls with two permits make a call wait for a permit and for the lock; the
numbers of the calls are interchangeable, since calls arrive and leave the stream in any
order, so `Sorted` keeps one numbering. Calls refused by a rule take the same path as
those refused for their arguments, so `MCToolExecutor` has the latter only; its kinds have arguments
that are an object, missing, or refused, on tools that accept `{}` and on others. In `agents`
three jobs are two of a batch that are joined out of order and one of the next batch or
of the background; the budget of one loop reaches the grace round. In `boundary` one
turn begins an extraction or a notice, the second meets it and waits behind it, and the
third ends while the trailing run takes over the flag; a behaviour has four turns,
changes and troubles in all (`MaxTogether`), so that two changes fall before, into or
after a turn that a trouble cuts; its three invariants are also proved without these
bounds. `desk` has a
stored turn to load, a live one, a second message behind it and a second session to
switch to; two pieces of text make a segment that grows, or two segments with a call
between them; `Habits` names what the author does. Rows of `knowledge` interact in pairs
(one row decides, a later one overrides it) and cycles of causes need three; the files
share only chapters, so a behaviour keeps to one topic, and the topic *impact* has rows
in all files at once. The topic *gate* has a call that Normal mode asks for (Bash), one
that a list lets pass and a rule may deny (Write of a chapter), a fork, and one that only
agents make (Edit of a memory), under the settings as installed and, with a question, under
settings with a list, a hook on Bash and no budget for the auditor; two calls open at
once are one that ran before a stream was cut and one that is late, or one that waits while
another asks.

Where the code goes wrong, the models go with it, and what the property leaves out is named in
its comment: the slips of `ReadCache`, turns that ran on `unheard` in `Desk`, `torn` rows of the ledger,
fillers that hide a plan in `Outline`. One constant keeps cases out on purpose, because a run that
had them would show nothing else (section 5 lists what happens): in `MCDesk.cfg` the author lacks the habit `"hurry"`. He
changes the session, scrolls and presses Escape only while the UI is not already
waiting for an answer that such a step would cross, and after a trouble he only sends
and answers (`Calm`). `MCDeskHurry.cfg` has the habit.

`CHECK_DEADLOCK FALSE` is set everywhere, because the bounded system may stop: the
author has sent all messages the bound allows and nothing waits.

**Fairness.** Three liveness properties are checked. Nothing in the code limits the time of an LLM
request (`client.rs:216` builds a client without a time-out, and nobody wraps
`create_stream`) or of a shell command, and an abort is looked at between the chunks of a
stream, not while none come. So no property assumes that these end: each says that the
program ends what it has begun *unless* it waits for one of them for good.

* `CommandEnds` (`faults`), every command ends or waits for others (`WaitsForOthers`: a response, a tool
  that runs, agents, the selection of memories), under weak fairness of the engine's
  steps outside such a wait: the engine task runs a command without waiting for the
  UI, and a database call comes back with a result or an error. No fairness is assumed of the author
  (`Command`) or of `Interrupt`. What it shows is that nudges, failures, pauses and sub-agents
  do not send the loop round for ever.
* `BatchEnds` (`tools`), under weak fairness of the engine and of `TaskStarts`: the runtime
  schedules a task once the permit or the lock is free. None of the stream, of a running tool, of
  the poll, the bridge, the author. It shows that no call waits for a permit, the lock or its place in
  the queue for ever.
* `DrainEnds` (`agents`), under weak fairness of the steps of a drain and of each agent outside its
  calls. None of the author or of a call: agents end by their answers, errors and budget.

**What the violated runs mean.** Each is a disagreement with a sentence of the
repository, quoted in `findings` of `PROJECT.json`:

* `orphans` — a result that is approved after the turn paused lands behind the report
  of a sub-agent or a memory attachment that the pause added. The repair takes it for
  an orphan and sends the LLM a stub instead of the result of a tool that ran.
* `heard` — the loader looks whether a turn runs, fetches the layout, and then resets
  the transcript, although a message was sent in between: the turn runs and the UI
  applies none of its events until it ends.

## 4. The proofs

The theorems hold for every value of the constants that satisfies the named
assumptions of the modules: bounds are naturals, thresholds positive, modes and kinds
sets as declared. Of the 37 theorems listed in `PROJECT.json`, 31 state
a property of a run each, of the 39 that the passing runs check; the others are three of types, `NoRowIsLost`,
`NoChangeOfModeInATurn` and `TheKnowledgeIsTold`.

Facts that several modules need are in `Subsequences_proofs`: the least of some natural
numbers, and `Kept(s, K)`, the subsequence of the elements of a set, which the models use
where the code filters a list. Induction over lists is done there without the library's
induction theorems (which take an operator as a parameter): a set of naturals that has
0 and is closed under successor is all of them, because its complement has no least
member (`SetInduction`), and from it the same for a set of sequences that has the empty
one and is closed under `Append` (`SeqInduction`). What is to be proved of every list is
then the set of the lists of which it is true. `KeptAppend`, `KeptConcat`, `KeptAgree`,
`KeptTwice` and `KeptPlaces` (an increasing map from the places of the subsequence to
those of the list) are what the other modules cite.

In `TurnEngine_proofs`, from `BoundsAssumption` and `SettingsAssumption`:

* `TypeCorrect` — `Spec => []TypeOK`. `TypeOK` is inductive. The lemmas before it
  say that the messages the engine adds are messages: the block of an interrupted
  response, a prefix of it, a result, the rewritten stub. One step per action, and
  the flags apart from the rest, since they are Boolean and the rest is arithmetic.
* `TurnsAreClosed` — `IdleTurnClosedUnlessPaused`. Inductive by itself over the
  types: the only steps that reach `"idle"` without an error are `FinishMessage` and
  `FinishContinue`, which close the turn unless it is paused; the commands that stay
  idle keep or shrink what is pending only by going on with the loop.
* `RequestsAreBounded` — `RequestBudget`. Not inductive: the strengthening
  `BudgetInv` relates the requests to iterations and nudges spent, at each `pc`. An
  iteration in flight is a request that is not yet counted, and the loop head is
  reached only below the limit.
* `NothingRunsWhileAsking` — `NoRequestWhileAsking`. A question arises in `"apply"`
  only, and both ways out of `"apply"` to the loop require that there is none;
  a paused turn goes on only when nothing is pending.
* `ApprovalsNeverVanish` — the action property `ApprovalsAreResolved`, for every
  step: an approval disappears with its result, with a new turn, or with an error.

and, on the transcript and the results:

* `NoCallIsAnsweredTwice` — `OneResultPerCall`. Not inductive: nothing in it says why
  a call that is about to get a result has none. `ResultInv` adds that results are of
  calls that were issued, that the calls due and the calls waiting for an approval
  were issued, have no result and are not the same, and that the pending question is
  neither. The proof looks at the transcript through two questions only, which calls
  have a result and whether one has two; `ResultsOfConcat` answers both for a
  transcript that is extended by a block. The steps then fall into five kinds, a
  lemma each: those that add no message, those that add messages without a result,
  the result of an open call, the stubs of an interrupted response (whose calls are
  new), and the answer.
* `ApprovalsAreTheOpenCalls` — `ApprovalsMatchOpenCalls`, and `FailuresAreEarned` —
  `FailureCountIsEarned`, by one invariant, `ApprovalInv`, that holds as long as no
  write has failed. `OpenAreUnanswered`: the calls due or waiting are exactly those
  issued in this turn without a result, where the calls of a batch at work count as
  issued before their message is recorded. A pending question has its stub, so that the
  answer replaces a success and adds none; hence the failures since the last success
  (`BadRun`) grow by at most one with each result and are none after a success.
* `EngineImplementsLifecycle` — `Spec => Lifecycle!Spec` under the mapping `Status`
  of `MCTurnEngine`. The mapping is read off `nextCall`, `question`, the results, `due`
  and `pendingTools` in that order; `ResultInv` makes the cases exclusive, so that the
  running calls are `due` and the waiting ones `pendingTools` (`StatusSets`).
  `PhaseInv` gives the abstract guards: calls are due only while a batch is at
  work, a response comes when nothing is open, and while results are recorded a
  question that was raised has its stub (so a second question leaves the first
  answered, not lost). Then one lemma for each abstract action, and `QuietActions`
  for the steps that are a stutter. A failed answer loses its call only if it had no stub, which is a
  step the lifecycle has (`Answer`: the question is answered, or its answer is lost).

In `ToolChainRepair_proofs`, from `RepairAssumption`; the invariant of the session is
only its types and that none but assistant messages have calls (`RepairInv`), and the work is in
what the two passes compute for a list of any length:

* `EveryRequestIsWellFormed` — `RequestWellFormed`. Both passes go once over the list, so what they make of
  `Append(s, m)` is a step from what they make of `s` (`PassOfAppend`). A list is
  taken with its last, open block apart: `Offered` are the calls a result may still
  answer, `OpenCalls` those that still need one, and `OpenCalls` of an appended list
  follows from that of the list. The pass that removes leaves only valid results, the
  pass that fills closes each block when the next message comes and the last one at the end.
* `NothingValidIsLost` — `RepairKeepsWhatIsValid`. `RemoveOrphansKeeps`: judging a result against
  what was kept before it, as the removal in place does, is judging it against the
  original list, so that the pass keeps exactly the messages that were valid;
  `FilledKeeps`: without its stubs the filled list is what was to be filled;
  `NothingToFill`: a well-formed list is left as it is.
* `TheRequestOnlyGrows` — the action property `RequestsGrow`, by one step for each action: with the
  last block complete a message is appended to the repaired list, or, a late result,
  removed from it.

In `SubagentDrain_proofs`, from `DrainAssumption`:

* `NobodyRunsUncounted` — `CountCoversRunning`. The inequality alone is not kept by an
  agent's end, which lowers the count: `CountInv` adds the types, that an agent in its
  loop is within its budget (`WithinBudget`, so that ends are the ones the code counts),
  and the relation of count and running agents. The steps are of three kinds, a
  lemma each: of an agent (`AgentKeepsCount`), of the main session (`MainKeepsCount`)
  and of a drain (`DrainKeepsCount`), over lemmas on the cardinality of a set that
  grows or loses one member.
* `ModeComesBack` — `AuthorsModeIsBack`. `ModeInv`: the guard of a drain holds the mode
  the author has set and nothing else, and there is one exactly while the session is in a
  drain. Every way out goes through `LeaveDrain` (`GuardRestores`).
* `ReportsComeInOrder` — `ReportsAreInOrder`. `OrderInv`: reports, handles still to be
  joined, jobs still to be spawned and the queue are, in this order, one rising line of
  jobs (`Line`), all of which exist, and a fork whose row is complete has reported. A
  job moves along the line and a new one is behind all others.

In `TurnBoundary_proofs`:

* `NoChangeOfModeInATurn` — the action property `ModeIsFixedInATurn`. It needs no invariant: the test of
  `apply_permission_mode_change` itself refuses, the flag of the frontend is not enough
  and not needed.
* `FlagIsNeverStuck` — `FlagIsHeld`, which is inductive: the flag is raised together with
  a task, and the step that ends the last task lowers it.
* `TypeCorrect` — `TypeOK`, which is inductive.
* `FilesAreSurfacedOnce` — `SurfacedInOneTurn`. `PrefetchInv` adds that the prefetch of a running turn finds
  nothing that the messages already show, and that there is none once a turn is
  paused: what a compaction drops may come again, what it keeps may not.
* `TheModelIsToldTheMode` — `ToldOnlyWhenUnattended`. `ToldInv`: what the model was told
  last, or what waits to be told with the author's next message, is that unattended
  mode holds only if it does, unless an end of the engine lost it. `ToldOfRebuilt`: after
  a compaction the last notice is the one of before or the system message's, which is
  made of the mode there is.

In `ToolExecutor_proofs`, from `ExecutorAssumption`:

* `OnlyAllowedCallsAreRun` — `OnlyAllowedCallsRun`. `CallsInv`: every handled call is
  executed, pending or denied and only one of these, tasks and queue are of executed
  calls. `StreamInv`: the order is one of all calls that have a name, none twice, and `InputsAllowed`
  what a call has when it is executed: whole arguments while the stream goes on, at its end
  perhaps none, if its tool accepts `{}`.
* `EachCallHasOneResult` — `EveryCallHasOneResult`. `BatchInv` says what holds of a batch at each
  phase: once the stream is over every call is handled, once collected the queue is empty and no
  task is left, and what is recorded so far is the outcome of the calls that have one, in
  their order (`Kept` of the order).
* `ABatchKeepsTheLifecycle` — `BatchKeepsTheLifecycle`, the second implementation of `CallLifecycle`: the
  end of the collection issues the calls, each record finishes one, an aborted stream
  maps to its initial states.

In `SessionStore_proofs`:

* `EachEpochIsArchivedOnce` — `EpochsAreFresh`, by `EpochInv`: archived epochs are at most
  the counter, and less than it in the step that is about to archive.
* `NoRowIsLost` — the half of `NoMessageIsLost` that speaks of the tables: a row
  leaves `messages` only with a copy in the archive. `CopyInv` says that from the
  archive of a compaction to its commit every row has one.
* `MemoryAndRowsAgree` — `RowsMatchMemory`. `StoryInv` adds that the rows are finitely many, never none,
  each with a key of its own (`KeysInv`), so that what is read back has every row's
  message and no other (`AllIsReadBack`, by counting the rows before each), and that a compaction at work has a
  draft whose second message is its summary (`DraftInv`). The rebuilt list is numbered
  into rows one to one (`EachHasItsRow`), or the write is refused.
* `EveryMessageIsKept` — `NoMessageIsLost`, from `NoRowIsLost` and `DraftInv`.
* `PlainRowsKeepTheirOrder` — `PlainRowsAreInOrder`. The keys of the running engine and
  those a compaction gives are not the same, so `OrderInv` says what both share. It holds
  as long as no row has been of a hidden prompt or an attachment (`Clean`, which looks
  at rows and archive, and which no step makes true again). `KeysCover`: the key of a
  message is at least the number of prompts and replies before it, which is what
  `build_message_rows_from` would count, so a compaction in mid-turn gives keys below
  the one the engine goes on with (`FreshOK`, `TurnsOK`, `ActiveOK`). `InOrder`: rows
  precede each other as their messages do. `RowsOK`: between two prompts all rows have
  the same author. `RebuiltOK`: the draft of a compaction at work is the head, the
  summary and a tail of the transcript (`ReplacedInOrder` numbers it). `ReadBackInOrder`
  is the restart.

In `NovelTools_proofs`, on the knowledge files, the todos and the gate. The assumptions
are `LastChapterIsNat`, `LedgerBounds` (the statuses agents write are statuses of the code),
`ThreadBounds`, `CardBounds` (names and words are finitely many numbers, and a card has each
table once), `OutlineBounds` and `TodoBounds` (ids are numbers in their order, and the author
is no tool). There is no bound on chapters, rows, names, scenes, calls or threads but
the constant of its name:

* `TheLedgerTellsTheLast` — `LedgerTellsTheLast`. The property looks at the file only, and a
  mark that was read before an edit writes an old text over it. `LedgerInv` therefore says of
  two texts what `Tells` says of one: of the file with what has been said, and of the text a
  mark on its way will write with what had been said when it was read and the mark itself
  (`AfterWrite`). So the edits that a mark loses are exactly those made meanwhile. The texts have one
  whole row of a chapter at most (`Texts`). What `Upserted` and `Noted` do to the row of one
  chapter is proved through `Of`, the rows of a chapter; then, over the recursive
  function of `Marked`, what is left of a row after the marks of all chapters.
* `ThePlotIsTold` — `PlotIsTold`, from the types of the logs alone: it says what functions
  of a log compute, for any log. `OpenThreads` is followed row by row
  against `IsOpen`. For the graph, `GraphOk` holds after each row: edges join nodes, no
  event is reached from its successors, and an edge that is missing would have closed a
  circle. For a walk, `WalkOk` holds after each pop: a visited event has been told or is on the
  stack, each once and each within its distance, and a neighbour is left out only when
  more events are visited than the depth says. With a depth of at least the number of
  nodes less one none is, so that at the end the visited events are closed under the edges. Every pop tells one more event, and there are no
  more than the nodes, hence the stack is empty after as many pops.
* `TheCardsAreTold` — `CardsAreTold`. `CardInv` adds the types, that the index has for a
  character whose card has not changed since exactly `RelationRow` of each pair, and that
  a snapshot shows tables its card has. That the rows of one pair in the derived
  index are that one row is `DerivedIs`: of the parts of two nested concatenations (`Joined`)
  all but one keep nothing of the pair. The rest are facts about `Kept`, `Joined` and `Greatest`.
* `ThePlansAreKept` — `PlansAreKept`, from types (`OutlineTypes`): `RowsAreRead` and `GridSays`
  say what a grid has of a chapter, `LastRowIs` which row of the outline that is, `CardsOfScenes` and `ScenesFound` what
  Corkboard makes of a scene; `PlansAreKept` follows clause by clause (`PlansOfTypes`).
* `TheImpactMissesNothing` — `ImpactMissesNothing`, and `TheKnowledgeIsTold`, of all the files
  together. `EachFile`: a behaviour of `BaseSpec` is one of the specification of each of its
  files, because a step of one leaves the variables of the others alone. So what holds
  of a file holds beside the others, and `ImpactMissesNothing`, which compares an
  answer with those of four other tools, needs the types and `CardInv` only. `EffectsAreTold`: asked of
  the cause of an edge with a depth that is enough, a walk of PlotGraph comes to its effect.
* `TheTodosAreKept` — `TodosAreKept`. `TodoInv`: while writes neither overlap nor fail there is
  one writer, and `Stands` says what its statements so far have made of the rows: nothing
  yet, the first todos of its list in the place of the deleted ones (`Replaced`), or the
  old list with the first todos of the batch changed (`Updated`). That a list is read back
  in the order of its positions needs that each row has a place of its own
  (`EveryPlaceIsTaken`, by counting the rows before each). `NewsInv`: the last news under way
  to the status bar, or the bar itself, is the list there is.
* `GateTypeCorrect` — `GateTypeOK`, which is inductive, by its parts (`TypesInParts`): one
  lemma for the steps of a stream and of the author, one for agents, drains and modes.
* `NoCallPassesTheGate` — `TheGateHolds`. What it says of a call that runs follows from the
  check of the moment only if the mode of that moment is the author's, so `GateInv` adds
  three things. `ModesAgree`: outside a drain nothing is to be restored and the mode is the
  chosen one, in a drain of hooks the guard holds the chosen one. `StreamMayFork`: a stream
  whose context lets it fork runs beside extractions at most and with no count left up.
  `QuestionsFit`: approvals wait in Normal mode only, and no question in unattended mode.
  `MainCallsHold` and `AgentCallsHold` read the record of a call off the check it has passed;
  every other step runs none (`QuietStepsHold`). What the theorem leaves to a late call is
  what the code leaves to it: a fork with the leave of an earlier stream, and a run under
  the Auto of a drain.

The models were brought into a form that can be reasoned about, without changing what
they say of the code: recursive functions, `Kept` and ranks where they had folds,
`SelectSeq`, sorted sequences and RECURSIVE operators (`ToolChainRepair`, `SessionStore`,
`ToolExecutor`, `TurnBoundary`, `PlotThreads`, `AuditLedger`, `CharacterCards`, `Outline`,
`TodoList`); the run of the knowledge files has the same states and
verdicts with both forms. Two things came out as wrong when they were to be proved: `Verdict` was a CASE whose guards
overlap, where the code has an order, and an extraction was counted from the end of its
turn, where the code counts it once its task begins. One property changed: `IsPlain`, the condition of
`PlainRowsAreInOrder`, also looks at the archive: with larger bounds than the run's, a
hidden prompt that a compaction removed has already shifted the numbers of the turns
after it, so that the old condition was too weak to be kept for every value of the
constants. A second one, `RelationsAreTold`, got the premise that the card names the other
character in no other table: the derivation reads the rows of every table of a card
(`derive.rs`), the last one wins, and so a later row of another table can take the place of
the last row of the relations. The premise is what makes the promise true, and the run had
met no counterexample because its instance gives the other tables words that are no names.

Only model-checked:

* liveness (`CommandEnds`, `BatchEnds`, `DrainEnds`), and in general what needs
  `ENABLED`: out of the prover's reach;
* `ReadCache` (`SpansWereShown`, `StubsRefer`): the inductive invariant would have to follow the windows of an entry
  through every merge, edit and replay, beside the slips that excuse them; it has not been written;
* `Desk`, whose properties hold under the habits and the patience that its instance gives the author.

## 5. Observed divergences

Beside the two that are runs, the following came up while translating the code. Each was
read off the source; the models have the behaviour where they have the state for it,
and no property claims the opposite: what a property leaves out for one of these, its comment names.

*Turn loop.*

* FRAMEWORK.md:266 says that an interrupt ends with `TurnComplete(was_interrupted)`.
  An interrupt in a batch with approvals emits none and leaves the approvals
  (`turn/loop/mod.rs:549`).
* The answer to a question replaces its stub in memory only (`mod.rs:457`); after a
  restart the LLM sees the stub. When the stub could not be written and then the
  answer cannot either (`mod.rs:470`), neither the question nor a result of its call is left.
* An LLM request has no time limit (`client.rs:216`), nor has a shell command: a stream that
  falls silent keeps the command queue until chunks come again, since the abort flag is read between them.
* Of two questions in one batch the first is overwritten (`tool_apply.rs:206`) and its
  stub stays as its result.
* `Bash` declares `errors_abort_siblings`, which never acts: nothing reads it on the way
  of a batch.

*Rows and compaction.*

* A compaction numbers the messages behind a hidden prompt or an attachment as a new
  turn (`turn_rows.rs:24`), the running engine does not; even without these a
  compaction in mid-turn splits a prompt and its replies into two turn numbers.
* Retained turns dropped for the budget, and an earlier summary when the fallback is
  used, are told in no summary (`session_rebuild.rs:110`).
* Display texts are laid over the rebuilt list by offsets taken before the trim
  (`compaction_helpers.rs:84`). After three failures the breaker never closes
  (`compaction.rs:108`).

*Read cache.*

* A stub may refer to a Read whose result was replaced by an interrupt
  (`context.rs:382`), or to the unread gap between two windows that were united; that stub's own result
  then commits the gap (slips `lost`, `gap`).
* After an edit the open-ended window of a Read shrinks to one line (`read_cache.rs:517`),
  so a change from outside below it passes the check of freshness. An edit that puts fewer lines than it takes
  moves the start of the spans up and opens a line that was not shown (an edit of lines 2-3
  into one opens line 1); one that puts none counts as one that puts a line (slip `drift`).
* A Read after which the file changed before its result was recorded commits lines of the old text
  (`late`); a change within the second of an entry's mtime goes unnoticed (`second`, `read_cache.rs:597`).
* Since Edit and Write are always allowed (see *Modes* below), a file that was never read may be
  edited and overwritten; `require_read_before_write` (`context.rs:361`) acts on neither.
* The rebuild replays against today's file and takes refused edits for done; an Edit or a Write with no entry
  before it makes the whole file known (slip `replay`). The default of a
  Tail is 100 lines when it is ingested and 80 when it runs; mtimes count seconds.

*Tools and sub-agents.*

* docs/crates/novel-tools.md:80 and :82 say that a discard drops calls that have not run.
  `discard` sets a flag that nothing reads: a call that waits for the lock starts after
  its stub was recorded (`streaming.rs:68`). The lock is one per executor (`streaming.rs:57`), so
  it may run beside an exclusive call of the next stream.
* A call whose arguments had not begun when its stream ended is judged as one with `{}`
  (`tool_dispatch.rs:207`) and run by a tool that asks for no argument; it is denied with arguments cut off in the middle.
* `fork_sub_agent.rs:117` promises that the session waits for its forks; a turn that also
  asks a question goes on first (`inner_turn.rs:188`).
* The count of sub-agents stays up after a failed write, a running extraction makes
  ForkSubAgent refuse, a failed sub-agent's row stays `running`, and truncated or
  overflowed ones send no `SubAgentComplete`.

* `ForkSubAgent` of a stream that was cut off still enqueues, with the leave to fork of
  that stream and after `clear_subagent_queue` (`fork_sub_agent.rs:68`); an extraction that
  begins after a stream has looked at the count is not seen by its forks.
* With `knowledge_auditor_max_react_loops` 0 or above 80 every KnowledgeAuditor fails before
  it is counted out (`fork_setup.rs:35`, reported as a nested fork), so that after the first one
  ForkSubAgent is refused for the rest of the session.
* subagent_gate.rs:1 says that mutating tools are rejected for sub-agents; the gate names
  Write, Edit and TodoWrite, and under Auto a fork may run Bash or KnowledgeDerive. A
  fork's AskUserQuestion gets no answer.

*Modes, memory.*

* `merge_tool_always_allow` (`agent/mod.rs:91`) puts the tools of all sub-agents, Write,
  Edit and WebSearch of GeneralPurpose among them, on the list of the main session too
  (`run_loop.rs:48`). So Write and Edit run anywhere in Plan mode, and in Normal mode they
  neither ask nor need a Read, whereas docs/crates/novel-tools.md:45-46 has Normal mode ask
  for writes and, like prompt/system.md:91, Plan mode write under `plan/` only. `ModeIsObeyed` leaves out the tools of that list.
* A hook job puts all forks of its drain, and late calls of a cut-off stream, under Auto
  (`subagent/mod.rs:103`). The `permission_mode: Auto` of the extractor's context
  (`helpers.rs:50`) has no effect, since the shared override comes first.
* A turn that ends while an extraction runs is counted as processed by a trailing run
  that gets none of its messages (`memory_extractor.rs:28`). A failed extraction moves
  the cursor too; the cursor can go back after a compaction, and
  `self.messages[cursor..]` can be out of range.
* Unattended, normal, unattended again between two messages gives no notice of
  entering; a compaction while hook jobs run drops the rules of autonomous writing; a
  failed save leaves the mode in memory and in the metadata different.

*UI.*

* An interrupt with a quick next message leaves the transcript deaf, or shows the
  interrupted turn's text in the next turn; a late load may merge turns of another
  session; layouts that arrive out of order shrink the slots; a layout that fails in
  the reload before a message loses the message; Escape while an approval waits, then
  approving, leaves `isStreaming` up; so does Escape before the pause, whose flag is cleared there
  (`mod.rs:244`, `engine_loop.rs:151`), and then approving or answering, and the turn runs on
  while the transcript is deaf; an interrupted turn that was loaded while it ran stays partial at rest; `messageQueueRef` is never filled; the overlay of
  a fork may drop or double deltas. Where several sessions have deltas waiting, the
  coalescer flushes them in the order of a `HashMap`.

*Knowledge base and todos.*

* Two TodoWrite calls at once may leave two todos in progress or mix two replacements;
  the status bar is stale until its next refresh when the author's event overtakes the
  engine's.
* A mark loses what an agent writes into the ledger between its read and its write
  (`audit_status.rs:255`). A task text of several lines, or with `---` in it, breaks its ledger row
  (`audit_status.rs:249`, `:127`), which the next rebuild drops; the progress hint tells what is pending for the
  plan's audit only (`:352-362`); a rebuild drops text after the table; a report puts a passed
  chapter back to audited; `max_passed` skips gaps.
* The template of 因果链 has four columns where the parser wants five, so PlotGraph finds
  nothing in it; the header `Ch` of the outline's template is unknown to PlotGrid; the
  states 已埋设 and 已推进 count as *other*; edges that would close a cycle are dropped
  without a word, and a search with a depth limit marks events when it pushes them, so
  it may miss some (six events, depth three).
* A dash as title or event of the outline, or an empty point of view, is no filler for the merge of
  PlotGrid, and hides what the detailed outline says (`plot_grid.rs:200-213`). A scene that names no point of view gets the
  first that its file names, even another scene's (`corkboard.rs:160`). ImpactAnalysis searches a card without
  a log of appearances up to its first heading only (`impact_analysis.rs:37-41`), and of an edge
  names only the cause (`impact_analysis.rs:88`). A thread that was resolved stays
  also in the list of the pending when an earlier row had it there (`derive.rs:57-78`).
* The snapshot's last row is searched for from the heading to the end of the file
  (`evolution_log.rs:15`); the index of relations is derived from the rows of every table of a
  card (`derive.rs:98`), so that a row of another table whose second cell is a name stands
  for a relation; hand-added rows of the relation index are lost when it is
  derived; the suggested next chapter is the count plus one and collides after a chapter
  in the middle was deleted; `stale_memory_check` is offered by the schema of KnowledgeDerive (`knowledge_derive.rs:146`)
  and refused by its `validate_write_targets` (`:189`).

## 6. What is left out

* The text of messages, prompts, tool arguments and files; events except those that
  change the state of the UI; logging; wording; token counts, which are a choice.
* Inside the turn loop a batch is the fate of its calls; its concurrency is
  `ToolExecutor`. The tools of a sub-agent run in the same executor and are not
  composed with `SubagentDrain`.
* In `ReadCache` empty and oversized files, text that occurs twice, and the interaction of
  files, of which there is none.
* In `Desk` archive slots, the memory window beyond the tail, the overlay of a fork.
* Glob, Grep, Bash, web search, exports, project initialisation: I/O without shared
  state. HTTP, token usage, connection tests: I/O.
* Event coalescing changes how many deltas carry a text, which no module tells apart.
* Skills, configuration, logging, the desktop shell and rendering: data and I/O.

The status of each part, with its sources, is in `components` of `PROJECT.json`.

## 7. Plan

Done: the modules of section 2, the runs of section 3, the theorems of section 4. What
would add most next:

1. Proofs: the invariants of `ReadCache`, which need one that follows the windows of an entry
   through merges, edits and replays.
2. Two streams with one set of tasks: what a cut stream leaves running beside the next executor.
3. `ReadCache` for two files under one anchor, with a save that stops between them.
4. Archive slots and the memory window in `Desk`.
5. The display texts of a compaction beside `Retains`.
