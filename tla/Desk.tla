-------------------------------- MODULE Desk --------------------------------
(***************************************************************************)
(* The desktop UI beside the engine: the author's clicks and keys, the     *)
(* events of the turns, and the requests by which the UI reads the stored  *)
(* turns (ui/src/hooks/useAgent.ts, useAgentTauriListeners.ts,             *)
(* useTranscriptLoader.ts; novel-server commands/turn.rs, session.rs,      *)
(* engine_loop.rs).                                                        *)
(*                                                                         *)
(* The UI runs one callback at a time, up to its next await.  What it      *)
(* awaits is in tasks and may be answered in any order.  The engine takes  *)
(* one command at a time; its events reach the UI in order.  The engine's  *)
(* turn is cut down to what the UI is told of it (TurnEngine has the rest) *)
(* and the archives of compacted turns are left out (see Timeline).        *)
(***************************************************************************)
EXTENDS Transcript

CONSTANTS
    Sessions,          \* the sessions of the work
    Home,              \* the session open at the start
    Before,            \* Before[s]: the messages of the turns s starts with
    Messages,          \* the messages the author may send
    TailTurns,         \* TAIL_LOADED_TURNS
    Habits,            \* what the author does: "escape", "interrupt",
                       \* "switch", "hurry"
    MaxText,           \* pieces of text of a turn
    MaxEvents,         \* events on their way when the engine tells more
    MaxTasks,          \* answers awaited when the author acts
    MaxBoots,          \* bootstraps of the loader
    MaxTroubles        \* requests and turns that fail, turns cut short by a message

ASSUME DeskAssumption ==
    /\ Home \in Sessions /\ Messages # {} /\ TailTurns \in Nat \ {0}
    /\ \A s \in Sessions : Len(Before[s]) \in Nat
    /\ Habits \subseteq {"escape", "interrupt", "switch", "hurry"}

VARIABLES
    transcript,        \* transcriptMachine
    streaming,         \* isStreaming
    question,          \* pendingQuestion: the message whose turn asks
    session,           \* status.sessionId, the session of the loader
    slots,             \* turnSlots: status by turn number
    generation,        \* bootstrapGenRef
    loading,           \* loadingKeysRef
    tasks,             \* what is awaited
    commands,          \* queue of the engine loop
    events,            \* events on their way to the UI
    engine,            \* the turn that runs, and the abort flag
    stored,            \* the turns of each session in the database
    unsent,            \* messages the author has not submitted yet
    troubles           \* troubles so far

uiVars == <<transcript, streaming, question, session, slots, generation, loading>>
engineVars == <<commands, engine, stored>>
vars == <<uiVars, tasks, engineVars, events, unsent, troubles>>

\* A piece of the text of a message's turn: the n-th.
Piece(message, n) == [of |-> message, n |-> n]

\* A stored turn; its fate (for the properties) is "cut" when it was
\* interrupted, "unheard" when it ran on although the transcript did not
\* listen to it.
StoredTurn(message, text) ==
    [message |-> message, text |-> text, call |-> None, fate |-> "plain"]

\* The answer of get_session_message_turns for a set of turn numbers.
Bundles(s, numbers) ==
    LET there == SetToSortSeq(numbers \cap DOMAIN stored[s], <)
    IN  [n \in 1..Len(there) |->
           [session |-> s, message |-> stored[s][there[n]].message,
            number |-> there[n], segments |-> TRUE,
            text |-> stored[s][there[n]].text,
            call |-> stored[s][there[n]].call]]

NoEngine(s) == [session |-> s, turn |-> None, at |-> "idle", said |-> <<>>,
                call |-> None, abort |-> FALSE, compacted |-> FALSE]

\* What the UI awaits: why it asked, for which turns, in which session and
\* bootstrap, the message to begin a turn with afterwards, and the answer
\* once the database has given it.
Task(kind, why, numbers, then) ==
    [kind |-> kind, why |-> why, session |-> session, numbers |-> numbers,
     generation |-> generation, then |-> then, answer |-> None]

Init ==
    /\ transcript = NoTranscript
    /\ streaming = FALSE /\ question = None
    /\ slots = <<>> /\ loading = {} /\ generation = 1
    /\ session = Home
    /\ tasks = {Task("layout", "boot", {}, None)}
    /\ commands = <<>> /\ events = <<>> /\ unsent = Messages
    /\ engine = NoEngine(session)
    /\ stored = [s \in Sessions |-> [n \in 1..Len(Before[s]) |->
                    StoredTurn(Before[s][n], <<Piece(Before[s][n], 1)>>)]]
    /\ troubles = 0

Trouble == troubles < MaxTroubles /\ troubles' = troubles + 1

\* A bound: after a trouble the patient author only sends and answers.
Calm == troubles = 0

-----------------------------------------------------------------------------
(* The engine: what send_message, approve_tool and answer_question make    *)
(* the UI hear.                                                            *)

\* A bound: the engine tells more only when the UI has heard most of it.
Emit(list) == Len(events) < MaxEvents /\ events' = events \o list

Event(type) == [type |-> type, message |-> engine.turn, n |-> 0]

\* SendMessage: the row of the message is stored first, the flag is cleared.
StartTurn ==
    /\ engine.at \in {"idle", "waits"} /\ commands # <<>> /\ Head(commands).kind = "send"
    /\ commands' = Tail(commands)
    /\ engine' = [NoEngine(engine.session) EXCEPT !.turn = Head(commands).message,
                                                  !.at = "streams"]
    /\ stored' = [stored EXCEPT ![engine.session] =
                    Append(@, StoredTurn(Head(commands).message, <<>>))]
    /\ UNCHANGED <<uiVars, tasks, events, unsent, troubles>>

StreamText ==
    /\ engine.at = "streams" /\ Len(engine.said) < MaxText
    /\ engine' = [engine EXCEPT !.said = Append(@, Piece(engine.turn, Len(@) + 1))]
    /\ Emit(<<[Event("chunk") EXCEPT !.n = Len(engine.said) + 1]>>)
    /\ UNCHANGED <<uiVars, tasks, commands, stored, unsent, troubles>>

\* A compaction before the response tells the UI that it is done.
Compact ==
    /\ engine.at = "streams" /\ engine.said = <<>> /\ engine.call = None
    /\ ~engine.compacted /\ generation < MaxBoots /\ Calm
    /\ engine' = [engine EXCEPT !.compacted = TRUE]
    /\ Emit(<<Event("compacted")>>)
    /\ UNCHANGED <<uiVars, tasks, commands, stored, unsent, troubles>>

\* A call of the response: plain, asking for approval, or a question.
StreamCall(kind) ==
    /\ engine.at = "streams" /\ engine.call = None
    /\ engine' = [engine EXCEPT !.call = kind]
    /\ Emit(<<Event("toolStart"), Event(IF kind = "approval" THEN "toolAsks" ELSE "toolRuns")>>)
    /\ UNCHANGED <<uiVars, tasks, commands, stored, unsent, troubles>>

LastTurn(s) == Len(stored[s])

Waits == engine.call \in {"approval", "question"}

\* The response is recorded.  A call that waits for the author ends the
\* command without a TurnComplete, and SendMessage clears the flag.
EndResponse ==
    /\ engine.at = "streams"
    /\ engine' = [engine EXCEPT !.at = IF Waits THEN "waits"
                                       ELSE IF engine.call = "plain" THEN "runs" ELSE "ends",
                                !.abort = @ /\ ~Waits]
    /\ stored' = [stored EXCEPT ![engine.session][LastTurn(engine.session)].text = engine.said]
    /\ Emit(<<Event("segment")>> \o IF engine.call = "question" THEN <<Event("ask")>> ELSE <<>>)
    /\ UNCHANGED <<uiVars, tasks, commands, unsent, troubles>>

\* ApproveTool, DenyTool and AnswerQuestion resume the turn.
ResumeTurn ==
    /\ engine.at = "waits" /\ commands # <<>> /\ Head(commands).kind = "resolve"
    /\ commands' = Tail(commands)
    /\ engine' = [engine EXCEPT !.at = "runs"]
    /\ stored' = [stored EXCEPT ![engine.session][LastTurn(engine.session)].fate =
                    IF ~engine.abort /\ transcript.phase = "idle"
                    THEN "unheard" ELSE @]
    /\ UNCHANGED <<uiVars, tasks, events, unsent, troubles>>

\* There is no call to resolve: the invoke of the UI is rejected.
RefuseResolve ==
    /\ engine.at = "idle" /\ commands # <<>> /\ Head(commands).kind = "resolve"
    /\ commands' = Tail(commands)
    /\ tasks' = tasks \union {Task("refused", "resolve", {}, Head(commands).message)}
    /\ UNCHANGED <<uiVars, events, engine, stored, unsent, troubles>>

\* The result of the call; another response may follow it.
RecordResult ==
    /\ engine.at = "runs"
    /\ \E next \in {"ends"} \union IF Len(engine.said) < MaxText THEN {"streams"} ELSE {} :
          engine' = [engine EXCEPT !.at = next, !.call = "done"]
    /\ stored' = [stored EXCEPT ![engine.session][LastTurn(engine.session)].call =
                    [of |-> engine.turn, is |-> "done"]]
    /\ Emit(<<Event("toolResult")>>)
    /\ UNCHANGED <<uiVars, tasks, commands, unsent, troubles>>

\* finalize_stream_cancel: what had come of the response is recorded, and a
\* stub for its call.
Finalized(turn) ==
    [turn EXCEPT !.fate = "cut", !.text = engine.said,
                 !.call = IF engine.call = None THEN @ ELSE [of |-> engine.turn, is |-> "done"]]

\* The end of a turn: complete, interrupted or failed.
FinishTurn ==
    /\ engine' = NoEngine(engine.session)
    /\ \/ engine.at = "ends" /\ ~engine.abort /\ Emit(<<Event("complete")>>)
          /\ UNCHANGED <<stored, troubles>>
       \/ engine.at \in {"streams", "runs", "ends"} /\ engine.abort
          /\ Emit(<<Event("interrupted")>>)
          /\ stored' = [stored EXCEPT ![engine.session][LastTurn(engine.session)] = Finalized(@)]
          /\ UNCHANGED troubles
       \/ engine.at = "streams" /\ Emit(<<Event("failed")>>) /\ Trouble
          /\ UNCHANGED stored
    /\ UNCHANGED <<uiVars, tasks, commands, unsent>>

\* get_app_status waits in the queue like any other command.
AnswerStatus ==
    /\ engine.at \in {"idle", "waits"} /\ commands # <<>> /\ Head(commands).kind = "status"
    /\ commands' = Tail(commands)
    /\ tasks' = {IF task.kind = "status" THEN [task EXCEPT !.kind = "answered"] ELSE task :
                   task \in tasks}
    /\ UNCHANGED <<uiVars, events, engine, stored, unsent, troubles>>

\* ResumeSession: a new engine, then session-resumed.
ResumeSession ==
    /\ engine.at \in {"idle", "waits"} /\ commands # <<>> /\ Head(commands).kind = "session"
    /\ commands' = Tail(commands)
    /\ engine' = NoEngine(Head(commands).session)
    /\ Emit(<<[type |-> "resumed", message |-> None, n |-> 0]>>)
    /\ tasks' = tasks \union {Task("switched", "switch", {}, None)}
    /\ UNCHANGED <<uiVars, stored, unsent, troubles>>

\* The database answers a request for the layout or for turns.
Answer(task) ==
    /\ task \in tasks /\ task.kind \in {"layout", "load"} /\ task.answer = None
    /\ tasks' = (tasks \ {task}) \union
         {[task EXCEPT !.answer = IF task.kind = "layout" THEN LastTurn(task.session)
                                  ELSE Bundles(task.session, task.numbers)]}
    /\ UNCHANGED <<uiVars, commands, events, engine, stored, unsent, troubles>>

-----------------------------------------------------------------------------
(* Turns begin at the author's wish or when a reload of the tail is over.  *)

Begins(t, message, left) ==
    /\ transcript' = BeginTurn(t, session, message)
    /\ streaming' = TRUE
    /\ commands' = Append(commands, [kind |-> "send", message |-> message])
    /\ tasks' = left

\* beginUserTurn: a live turn is replaced by its stored copy first.
BeginUserTurn(t, message, left) ==
    IF LiveTurnShown(t)
    THEN /\ tasks' = left \union {Task("layout", "tail", {}, message)}
         /\ transcript' = t
         /\ UNCHANGED <<streaming, commands>>
    ELSE Begins(t, message, left)

\* What follows a load: nothing, the turn of sendMessage, or beginUserTurn
\* of submitInterrupt.
Continue(t, task, left) ==
    IF task.then = None
    THEN transcript' = t /\ tasks' = left /\ UNCHANGED <<streaming, commands>>
    ELSE IF task.why = "tail" THEN Begins(t, task.then, left)
    ELSE BeginUserTurn(t, task.then, left)

-----------------------------------------------------------------------------
(* The loader.                                                             *)

Marked(list, numbers, status) ==
    [n \in DOMAIN list |-> IF n \in numbers THEN status ELSE list[n]]

Idle(last) == [n \in 1..last |-> "idle"]

\* Mutant: the slots of the first layout are kept.
Appended_None(last) == slots

\* appendMissingTurnSlots
Appended(last) == [n \in 1..last |-> IF n \in DOMAIN slots THEN slots[n] ELSE "idle"]

\* resetAndBootstrap up to its first await.
Bootstrap(s) ==
    /\ generation' = generation + 1
    /\ slots' = <<>> /\ loading' = {}
    /\ tasks' = tasks \union {[Task("layout", "boot", {}, None) EXCEPT
                                 !.session = s, !.generation = generation']}

TailOf(last) == {n \in 1..last : n > last - TailTurns}

ReceiveBootLayout(task) ==
    /\ task \in tasks /\ task.kind = "layout" /\ task.why = "boot" /\ task.answer # None
    /\ IF task.generation # generation
       THEN tasks' = tasks \ {task} /\ UNCHANGED <<transcript, slots, loading>>
       ELSE LET tail == TailOf(task.answer)
                asks == tail # {} /\ tail \cap loading = {}
            IN  /\ transcript' = NoTranscript
                /\ slots' = IF asks THEN Marked(Idle(task.answer), tail, "loading")
                            ELSE Idle(task.answer)
                /\ loading' = IF asks THEN loading \union tail ELSE loading
                /\ tasks' = (tasks \ {task}) \union
                     IF asks THEN {Task("load", "boot", tail, None)} ELSE {}
    /\ UNCHANGED <<streaming, question, session, generation, engineVars, events,
                   unsent, troubles>>

\* reloadActiveTail after its await: the session of the layout is not
\* compared with the session the turn is then asked for.
ReceiveTailLayout(task) ==
    /\ task \in tasks /\ task.kind = "layout" /\ task.why # "boot" /\ task.answer # None
    /\ LET last == task.answer
           left == tasks \ {task}
       IN  IF last = 0 \/ last \in loading
           THEN /\ slots' = Appended(last)
                /\ Continue(transcript, task, left)
                /\ UNCHANGED loading
           ELSE /\ slots' = Marked(Appended(last), {last}, "loading")
                /\ loading' = loading \union {last}
                /\ tasks' = left \union {Task("load", task.why, {last}, task.then)}
                /\ UNCHANGED <<transcript, streaming, commands>>
    /\ UNCHANGED <<question, session, generation, events, engine, stored, unsent, troubles>>

\* loadTurnRange after its await: neither the session nor the generation is
\* looked at.
ReceiveTurns(task) ==
    /\ task \in tasks /\ task.kind = "load" /\ task.answer # None
    /\ slots' = Marked(slots, task.numbers, "loaded")
    /\ loading' = loading \ task.numbers
    /\ Continue(MergeTurns(transcript, task.answer), task, tasks \ {task})
    /\ UNCHANGED <<question, session, generation, events, engine, stored, unsent, troubles>>

\* Mutant: a failed load leaves its slots as they are.
ReceiveError_Silent(task) ==
    /\ task \in tasks /\ task.kind \in {"layout", "load"} /\ Trouble
    /\ tasks' = tasks \ {task}
    /\ UNCHANGED <<uiVars, commands, events, engine, stored, unsent>>

\* A failed load marks its slots, a failed layout ends what waits for it.
ReceiveError(task) ==
    /\ task \in tasks /\ task.kind \in {"layout", "load"} /\ Trouble
    /\ IF task.kind = "load"
       THEN /\ slots' = Marked(slots, task.numbers, "error")
            /\ loading' = loading \ task.numbers
            /\ Continue(transcript, task, tasks \ {task})
       ELSE /\ slots' = IF task.why = "boot" /\ task.generation = generation
                        THEN <<>> ELSE slots
            /\ tasks' = tasks \ {task}
            /\ UNCHANGED <<loading, transcript, streaming, commands>>
    /\ UNCHANGED <<question, session, generation, events, engine, stored, unsent>>

SwitchUnderWay ==
    \/ \E n \in DOMAIN commands : commands[n].kind = "session"
    \/ \E task \in tasks : task.kind = "switched"

\* The author scrolls to a turn that is not loaded; a patient one not to a
\* turn that still runs, and not while the session changes.
ScrollTo(n) ==
    /\ n \in DOMAIN slots /\ slots[n] = "idle" /\ n \notin loading
    /\ "hurry" \in Habits \/ (Calm /\ ~SwitchUnderWay /\ (engine.at = "idle" \/ n < LastTurn(session)))
    /\ Cardinality(tasks) < MaxTasks
    /\ slots' = Marked(slots, {n}, "loading")
    /\ loading' = loading \union {n}
    /\ tasks' = tasks \union {Task("load", "scroll", {n}, None)}
    /\ UNCHANGED <<transcript, streaming, question, session, generation, engineVars,
                   events, unsent, troubles>>

TurnInProgress ==
    question # None \/ transcript.phase # "idle" \/ HasPendingApproval(transcript)

\* reconcileMemoryWindow at the bottom: the turns before the tail go.
Compacted == {n \in DOMAIN slots : slots[n] = "loaded"} \ TailOf(Len(slots))

Reconcile ==
    /\ ~streaming /\ ~TurnInProgress /\ Compacted # {}
    /\ transcript' = EvictTurns(transcript, Compacted)
    /\ slots' = Marked(slots, Compacted, "idle")
    /\ UNCHANGED <<streaming, question, session, generation, loading, tasks, engineVars,
                   events, unsent, troubles>>

-----------------------------------------------------------------------------
(* The author.                                                             *)

Submit(message) ==
    /\ message \in unsent /\ unsent' = unsent \ {message}
    /\ Cardinality(tasks) < MaxTasks

\* A patient author sends when the transcript is there and the last turn
\* is over; nothing in the UI asks for that patience.
Patient ==
    /\ engine.at = "idle" /\ events = <<>> /\ commands = <<>> /\ tasks = {}

\* sendMessage
Send(message) ==
    /\ ~streaming /\ question = None /\ Submit(message)
    /\ "hurry" \in Habits \/ Patient
    /\ BeginUserTurn(transcript, message, tasks)
    /\ UNCHANGED <<question, session, slots, generation, loading, events, engine, stored,
                   troubles>>

Aborted == engine' = [engine EXCEPT !.abort = TRUE]

\* submitInterrupt: the flag is set, the tail is reloaded, then the turn
\* begins; nothing waits for the end of the interrupted turn.
SubmitInterrupt(message) ==
    /\ "interrupt" \in Habits /\ streaming /\ question = None /\ engine.at = "runs"
    /\ Submit(message) /\ Trouble
    /\ transcript' = EndTurn(transcript)
    /\ Aborted
    /\ tasks' = tasks \union {Task("layout", "interrupt", {}, message)}
    /\ UNCHANGED <<streaming, question, session, slots, generation, loading, commands,
                   events, stored>>

\* Escape, and the button that stops the turn.
Escape ==
    /\ "escape" \in Habits /\ streaming /\ question = None
    /\ "hurry" \in Habits \/ (Calm /\ engine.at # "idle")
    /\ transcript' = EndTurn(transcript)
    /\ streaming' = FALSE
    /\ Aborted
    /\ UNCHANGED <<question, session, slots, generation, loading, tasks, commands, events,
                   stored, unsent, troubles>>

\* The decision on a call, or the answer to the question of a message.
Resolves(asked) == commands' = Append(commands, [kind |-> "resolve", message |-> asked])

\* approveTool and denyTool; after an Escape the call still asks, so we let
\* the author decide again only when the last decision was taken up.
Decide(message, state) ==
    /\ \A n \in DOMAIN commands : commands[n].kind # "resolve"
    /\ CallPlace(transcript, message) # -1
    /\ CallAt(transcript, CallPlace(transcript, message)).is = "pending"
    /\ transcript' = PatchTool(transcript, message, state)
    /\ streaming' = TRUE
    /\ Resolves(None)
    /\ UNCHANGED <<question, session, slots, generation, loading, tasks, events, engine,
                   stored, unsent, troubles>>

\* submitAnswer: the transcript listens again before the engine is told.
SubmitAnswer ==
    /\ question # None
    /\ transcript' = AnswerQuestion(transcript)
    /\ question' = None /\ streaming' = TRUE
    /\ Resolves(question)
    /\ UNCHANGED <<session, slots, generation, loading, tasks, events, engine, stored,
                   unsent, troubles>>

\* The rejected invoke of a decision; a question is asked again.
ReceiveRefusal(task) ==
    /\ task \in tasks /\ task.kind = "refused"
    /\ tasks' = tasks \ {task} /\ streaming' = FALSE
    /\ IF task.then = None THEN UNCHANGED <<transcript, question>>
       ELSE transcript' = AskUserQuestion(transcript) /\ question' = task.then
    /\ UNCHANGED <<session, slots, generation, loading, engineVars, events, unsent, troubles>>

\* Another session is chosen: not while a turn streams, one at a time.
ChooseSession(s) ==
    /\ "switch" \in Habits /\ ~streaming /\ s # session
    /\ "hurry" \in Habits \/ (Calm /\ Patient)
    /\ ~SwitchUnderWay
    /\ generation < MaxBoots
    /\ commands' = Append(commands, [kind |-> "session", session |-> s])
    /\ UNCHANGED <<uiVars, tasks, events, engine, stored, unsent, troubles>>

\* The status after resumeSession names the session: the loader starts over.
ReceiveSession(task) ==
    /\ task \in tasks /\ task.kind = "switched"
    /\ session' = engine.session
    /\ generation' = generation + 1
    /\ slots' = <<>> /\ loading' = {}
    /\ tasks' = (tasks \ {task}) \union
         {[Task("layout", "boot", {}, None) EXCEPT
             !.session = engine.session, !.generation = generation']}
    /\ UNCHANGED <<transcript, streaming, question, engineVars, events, unsent, troubles>>

-----------------------------------------------------------------------------
(* The listeners.                                                          *)

\* The events that only the transcript hears.
Applied(event) ==
    CASE event.type = "chunk"      -> StreamChunk(transcript, Piece(event.message, event.n))
      [] event.type = "segment"    -> SegmentComplete(transcript)
      [] event.type = "toolStart"  -> ToolStart(transcript, event.message)
      [] event.type = "toolAsks"   -> ToolInputComplete(transcript, event.message, TRUE)
      [] event.type = "toolRuns"   -> ToolInputComplete(transcript, event.message, FALSE)
      [] event.type = "toolResult" -> ToolResult(transcript, event.message)

Hear(type) == events # <<>> /\ Head(events).type = type /\ events' = Tail(events)

HearPart ==
    /\ events # <<>> /\ events' = Tail(events)
    /\ Head(events).type \in {"chunk", "segment", "toolStart", "toolAsks", "toolRuns", "toolResult"}
    /\ transcript' = Applied(Head(events))
    /\ UNCHANGED <<streaming, question, session, slots, generation, loading, tasks,
                   engineVars, unsent, troubles>>

HearQuestion ==
    /\ Hear("ask")
    /\ transcript' = AskUserQuestion(transcript)
    /\ question' = Head(events).message /\ streaming' = FALSE
    /\ UNCHANGED <<session, slots, generation, loading, tasks, engineVars, unsent, troubles>>

\* turn-complete without a phase: ignored while a call asks for approval.
HearComplete ==
    /\ Hear("complete")
    /\ IF HasPendingApproval(transcript)
       THEN UNCHANGED <<transcript, streaming, tasks, commands>>
       ELSE /\ transcript' = EndTurn(transcript)
            /\ streaming' = FALSE
            /\ IF question # None THEN UNCHANGED <<tasks, commands>>
               ELSE /\ tasks' = tasks \union {Task("status", "end", {}, None)}
                    /\ commands' = Append(commands, [kind |-> "status"])
    /\ UNCHANGED <<question, session, slots, generation, loading, engine, stored, unsent,
                   troubles>>

\* The status has come: the tail is reloaded.
ReceiveStatus(task) ==
    /\ task \in tasks /\ task.kind = "answered"
    /\ tasks' = (tasks \ {task}) \union {Task("layout", "tail", {}, None)}
    /\ UNCHANGED <<uiVars, engineVars, events, unsent, troubles>>

\* turn-complete of an interrupted turn, whichever turn the UI shows by now.
HearInterrupted ==
    /\ Hear("interrupted")
    /\ transcript' = EndTurn(transcript) /\ streaming' = FALSE
    /\ tasks' = tasks \union {Task("layout", "tail", {}, None)}
    /\ UNCHANGED <<question, session, slots, generation, loading, engineVars, unsent,
                   troubles>>

HearFailed ==
    /\ Hear("failed")
    /\ transcript' = EndTurn(transcript) /\ streaming' = FALSE
    /\ UNCHANGED <<question, session, slots, generation, loading, tasks, engineVars, unsent,
                   troubles>>

\* session-resumed: the transcript stays as it is until the loader resets it.
HearResumed ==
    /\ Hear("resumed")
    /\ streaming' = FALSE /\ question' = None
    /\ UNCHANGED <<transcript, session, slots, generation, loading, tasks, engineVars,
                   unsent, troubles>>

\* compaction-progress: the loader starts over unless a turn is in progress
\* or was when the UI last had the status of the engine.
MayReset == ~streaming /\ ~TurnInProgress

HearCompacted ==
    /\ Hear("compacted")
    /\ \/ MayReset /\ Bootstrap(session)
       \/ UNCHANGED <<generation, slots, loading, tasks>>
    /\ UNCHANGED <<transcript, streaming, question, session, engineVars, unsent, troubles>>

-----------------------------------------------------------------------------
Engine ==
    \/ StartTurn \/ StreamText \/ Compact \/ EndResponse
    \/ \E kind \in {"plain", "approval", "question"} : StreamCall(kind)
    \/ ResumeTurn \/ RefuseResolve \/ RecordResult \/ FinishTurn
    \/ AnswerStatus \/ ResumeSession

Loader ==
    \E task \in tasks :
        \/ Answer(task) \/ ReceiveBootLayout(task) \/ ReceiveTailLayout(task)
        \/ ReceiveTurns(task) \/ ReceiveError(task) \/ ReceiveRefusal(task)
        \/ ReceiveSession(task) \/ ReceiveStatus(task)

Author ==
    \/ \E message \in Messages :
          \/ Send(message) \/ SubmitInterrupt(message)
          \/ Decide(message, "running") \/ Decide(message, "denied")
    \/ Escape \/ SubmitAnswer
    \/ \E s \in Sessions : ChooseSession(s)
    \/ \E n \in DOMAIN slots : ScrollTo(n)

Listeners ==
    \/ HearPart \/ HearQuestion \/ HearComplete \/ HearInterrupted \/ HearFailed
    \/ HearResumed \/ HearCompacted

Next == Engine \/ Loader \/ Author \/ Listeners \/ Reconcile

Spec == Init /\ [][Next]_vars

-----------------------------------------------------------------------------
AtRest ==
    /\ tasks = {} /\ commands = <<>> /\ events = <<>> /\ engine.at = "idle"

\* A copy that shows all that is stored of its turn.
IsWhole(turn) ==
    /\ turn.text = stored[session][turn.number].text
    /\ turn.call = stored[session][turn.number].call

\* What is shown and what is on its way of the text of a message's turn.
Shown(message) ==
    LET own(text) == SelectSeq(text, LAMBDA piece : piece.of = message)
    IN  FoldSeq(LAMBDA turn, all : all \o own(turn.text), <<>>, Live(transcript.turns))
          \o own(IF transcript.open = None THEN <<>> ELSE transcript.open.text)

Coming(message) ==
    LET chunks == SelectSeq(events, LAMBDA event :
                      event.type = "chunk" /\ event.message = message)
    IN  [k \in 1..Len(chunks) |-> Piece(message, chunks[k].n)]

\* Types.  While a question is shown nothing streams; the turns shown are ordered, the live one last, and none twice.
TypeOK ==
    /\ transcript.phase \in Listening \union {"idle", "pausedForQuestion"}
    /\ \A n \in DOMAIN transcript.turns :
          LET turn == transcript.turns[n]
          IN  /\ turn.session \in Sessions /\ turn.number \in Nat
              /\ turn.segments \in BOOLEAN
              /\ n < Len(transcript.turns) /\ turn.number > 0 =>
                    transcript.turns[n + 1].number \notin 1..turn.number
    /\ streaming \in BOOLEAN /\ session \in Sessions
    /\ question # None => ~streaming
    /\ \A n \in DOMAIN slots : slots[n] \in {"idle", "loading", "loaded", "error"}
    /\ engine.at \in {"idle", "streams", "runs", "waits", "ends"}
    /\ generation \in 1..MaxBoots /\ troubles \in 0..MaxTroubles

\* While the transcript listens to the turn of the engine, every piece of
\* text the engine has streamed is shown once, in its order, or on its way:
\* several segments committed, a question paused for and answered, an
\* approval, the loads of other turns and the ends of other requests lose,
\* double and reorder nothing (machine.ts, mergeDbTurnsIntoMachine).
HeardWhileListening ==
    engine.at # "idle" /\ transcript.phase \in Listening /\ LiveTurnShown(transcript)
    /\ Live(transcript.turns)[1].message = engine.turn =>
        Shown(engine.turn) \o Coming(engine.turn) = engine.said

\* When nothing is under way any more and nothing has failed, the UI shows
\* only copies of what is stored in its session: whole ones, except of a
\* turn that was interrupted, which may have been loaded while it ran; the
\* slots are those of the stored turns, and nothing streams
\* (reloadActiveTail after each end of a turn).  Not so when the author
\* approves or answers after an Escape that came before the pause and was
\* forgotten there: the turn runs on unheard, and isStreaming may stay up.
RestShowsWhatIsStored ==
    AtRest /\ troubles = 0 /\ (\A n \in DOMAIN stored[session] : stored[session][n].fate # "unheard") =>
        /\ ~streaming /\ transcript.phase = "idle"
        /\ \A n \in DOMAIN transcript.turns :
              LET turn == transcript.turns[n]
              IN  /\ turn.number \in DOMAIN stored[session]
                  /\ IsPrefix(turn.text, stored[session][turn.number].text)
                  /\ stored[session][turn.number].fate = "cut" \/ IsWhole(turn)
        /\ Len(slots) = Len(stored[session])

\* The status of a slot tells what there is: a loading slot has a request
\* under way that will end it, a loaded one has its turn in the transcript,
\* also when loads fail, the window is reconciled or the loader starts over
\* (markSlots, loadingKeysRef, EVICT_TURNS).  (With the types of the state.)
SlotsTellTheTruth ==
    /\ TypeOK
    /\ \A n \in DOMAIN slots :
          /\ slots[n] = "loading" =>
                \E task \in tasks : task.kind = "load" /\ n \in task.numbers
          /\ slots[n] = "loaded" =>
                \E k \in DOMAIN transcript.turns : transcript.turns[k].number = n

\* Violated: while the engine runs a turn that nobody has interrupted, the
\* transcript listens (the comment of onCompactionDone in
\* useTranscriptLoader.ts on what a reset in a turn would do).
RunningTurnIsHeard ==
    engine.at # "idle" /\ ~engine.abort => transcript.phase # "idle"
=============================================================================
