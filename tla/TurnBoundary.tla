---------------------------- MODULE TurnBoundary ----------------------------
(***************************************************************************)
(* What a session carries from one turn to the next beside its messages:   *)
(* the permission mode and the notice that tells the model of a change     *)
(* (engine/prompt_permission.rs, permission/), the memory files surfaced   *)
(* by a prefetch (novel-memory prefetch.rs), and the extraction of         *)
(* memories, which runs in tasks of its own (novel-memory                  *)
(* memory_extract.rs, subagent/memory_extractor.rs).                       *)
(*                                                                         *)
(* A turn is its author message and its replies; TurnEngine has the rest.  *)
(* Failed message rows are SessionStore's.  The messages an extraction is  *)
(* given are left out: its task has their count, which moves the cursor.   *)
(***************************************************************************)
EXTENDS FiniteSets, SequencesExt, Subsequences

CONSTANTS
  Files,           \* the memory files
  MaxTurns,        \* bound on turns
  MaxMessages,     \* bound on messages once a turn has begun
  MaxChanges,      \* bound on changes of the permission mode
  MaxTroubles,     \* bound on compactions, errors, failed writes and ends of the engine
  MaxTogether      \* bound on turns, changes and troubles together

ASSUME BoundaryBounds ==
  {MaxTurns, MaxMessages, MaxChanges, MaxTroubles, MaxTogether} \subseteq Nat
ASSUME FilesAreNamed == "none" \notin Files

VARIABLES
  phase,     \* what the engine is at
  mode,      \* permission_mode_override
  saved,     \* metadata_json.permission_mode
  asked,     \* the mode of a SetPermissionMode in the command queue
  notice,    \* pending_permission_user_prefix
  messages,  \* the messages of the engine
  prefetch,  \* memory_prefetch: the files it may select from, none without one
  cursor,    \* last_processed_message_count
  busy,      \* in_progress of the extractor
  waiting,   \* pending_context: its message count, or 0
  from,      \* the cursor that maybe_spawn_memory_extraction has read
  tasks,     \* the extraction tasks in flight
  lost,      \* history: an end of the engine took a notice or a mode along
  made, turn, changes, troubles, spawned   \* counts of what the bounds bound

session == <<mode, saved, asked, notice, lost, changes>>
extraction == <<cursor, busy, waiting, from, tasks, spawned>>
vars == <<phase, session, messages, prefetch, extraction, made, turn, troubles>>

Modes == {"normal", "unattended"}   \* a change between normal, plan and auto gives no notice
MessageType ==
  [kind : {"system", "author", "reply", "memory", "summary"}, says : {"none", "enter", "exit"},
   file : Files \cup {"none"}, does : SUBSET {"wrote", "asked"}, turn : Nat]
Message(k, says, file, does) ==
  [kind |-> k, says |-> says, file |-> file, does |-> does, turn |-> turn']

(* The system prompt embeds the rules of autonomous writing, or does not.  *)
System(m) == [kind |-> "system", says |-> IF m = "unattended" THEN "enter" ELSE "none",
              file |-> "none", does |-> {}, turn |-> 0]
Room == turn + changes + troubles < MaxTogether
Trouble == Room /\ troubles < MaxTroubles /\ troubles' = troubles + 1
HasAutonomous == messages[1].says = "enter"

(* What the messages last told the model about unattended mode.            *)
Heard == {m \in MessageType : m.says # "none"}
ToldBy(s) == LET heard == Kept(s, Heard) IN IF heard = <<>> THEN "none" ELSE Last(heard).says
Told == ToldBy(messages)

(***************************************************************************)
(* The permission mode.                                                    *)
(***************************************************************************)
(* set_permission_mode: refused while the flag turn_in_progress is up, and *)
(* then queued for the engine.                                             *)
AskMode(m) ==
  /\ phase = "idle" /\ asked = "none" /\ Room /\ changes < MaxChanges
  /\ asked' = m /\ changes' = changes + 1
  /\ UNCHANGED <<phase, mode, saved, notice, lost, messages, prefetch, extraction, made, turn, troubles>>

(* plan_mode_transition and permission_prefix_action.                      *)
Entering(m) == m = "unattended" /\ mode # "unattended"
Leaving(m) == mode = "unattended" /\ m # "unattended"
Cleared(m) == Entering(m) /\ HasAutonomous /\ notice = "exit"
NoticeAfter_Quiet(m) ==
  CASE Entering(m) /\ ~HasAutonomous -> "enter"
    [] Leaving(m) /\ HasAutonomous -> "exit"
    [] Cleared(m) -> "none"
    [] OTHER -> notice
NoticeAfter(m) ==
  CASE Entering(m) /\ ~HasAutonomous -> "enter"
    [] Leaving(m) -> "exit"
    [] Cleared(m) -> "none"
    [] OTHER -> notice

(* is_turn_in_progress of the engine: it waits for an answer or approval.  *)
TurnInProgress == phase \in {"approval", "question"}

(* SetPermissionMode and apply_permission_mode_change: the engine takes    *)
(* the command between two others, and refuses it while a turn is paused.  *)
(* The write to the database may fail after the mode has changed.          *)
ApplyMode ==
  /\ phase \in {"idle", "approval", "question"} /\ asked # "none"
  /\ asked' = "none"
  /\ IF asked = mode \/ TurnInProgress
     THEN UNCHANGED <<mode, saved, notice, troubles>>
     ELSE /\ notice' = NoticeAfter(asked)
          /\ mode' = asked
          /\ \/ saved' = asked /\ UNCHANGED troubles
             \/ Trouble /\ UNCHANGED saved
  /\ UNCHANGED <<phase, lost, changes, messages, prefetch, extraction, made, turn>>

(***************************************************************************)
(* A turn.                                                                 *)
(***************************************************************************)
Surfaced_None == {}
Surfaced == {messages[i].file : i \in 1..Len(messages)} \ {"none"}

(* The gate skips a short prompt, or one that comes when enough is shown.  *)
PrefetchChoices == {{}, Files \ Surfaced}

(* handle_message_with_events: the notice goes out with the author's       *)
(* message, and a prefetch starts unless the gate skips it; the files that *)
(* messages already show are left out of its choice.  Approvals that wait  *)
(* are dropped, a question that waits refuses the message.                 *)
StartTurn ==
  /\ phase \in {"idle", "approval"} /\ Room /\ turn < MaxTurns
  /\ turn' = turn + 1 /\ made' = made + 1
  /\ messages' = Append(messages, Message("author", notice, "none", {}))
  /\ notice' = "none"
  /\ prefetch' \in PrefetchChoices
  /\ phase' = "turn"
  /\ UNCHANGED <<mode, saved, asked, lost, changes, extraction, troubles>>

Rebuilt(first) ==
  <<System(mode), Message("summary", "none", "none", {})>> \o SubSeq(messages, first, Len(messages))

Compact ==
  /\ phase = "turn" /\ Trouble /\ made' = made + 1
  /\ UNCHANGED turn
  /\ \E first \in {i \in 2..Len(messages) : messages[i].kind \in {"author", "memory"}} \cup {Len(messages) + 1} :
       messages' = Rebuilt(first)
  /\ UNCHANGED <<phase, session, prefetch, extraction>>

(* MemoryPrefetch::consume: the files selected are read and attached one   *)
(* by one; nothing stops the selector from naming one twice.               *)
Selections(found) == {<<>>} \cup {<<f>> : f \in found} \cup {<<f, g>> : f \in found, g \in found}
Attached(found) ==
  {[i \in 1..Len(s) |-> Message("memory", "none", s[i], {})] : s \in Selections(found)}

(* run_inner_turn_loop returns with the turn paused, finished, or ended by *)
(* an interrupt or its budget: its replies are in, the prefetch of this    *)
(* command is consumed.                                                    *)
LoopReturns(next, calls) ==
  /\ phase = "turn" /\ UNCHANGED turn
  /\ \E does \in calls, found \in Attached(prefetch) :
       /\ messages' = messages \o <<Message("reply", "none", "none", does)>> \o found
       /\ made' = made + 1 + Len(found)
  /\ prefetch' = {}
  /\ phase' = next
  /\ UNCHANGED <<session, extraction, troubles>>

Calls == {{}, {"wrote"}}
TurnAsksApproval == LoopReturns("approval", Calls)
TurnAsksAuthor == LoopReturns("question", {c \cup {"asked"} : c \in Calls})
TurnCompletes == LoopReturns("finished", Calls)
TurnIsCut == LoopReturns("idle", Calls)

(* An approval or an answer lets the loop go on, without a prefetch.       *)
TurnGoesOn ==
  /\ TurnInProgress /\ made < MaxMessages /\ phase' = "turn"
  /\ UNCHANGED <<session, messages, prefetch, extraction, made, turn, troubles>>

(* The loop leaves with an error: the prefetch stays where it is.          *)
TurnFails ==
  /\ phase = "turn" /\ Trouble /\ phase' = "idle"
  /\ UNCHANGED <<session, messages, prefetch, extraction, made, turn>>

(***************************************************************************)
(* The extraction of memories: maybe_spawn_memory_extraction and           *)
(* try_prepare_extraction on the side of the engine.                       *)
(***************************************************************************)
Extracting == UNCHANGED <<session, messages, prefetch, made, turn, troubles>>

ReadCursor ==
  /\ phase = "finished" /\ phase' = "gate" /\ from' = cursor
  /\ Extracting /\ UNCHANGED <<cursor, busy, waiting, tasks, spawned>>

DoneSince(what) == \E i \in from + 1..Len(messages) : what \in messages[i].does

(* The model has written memories itself and the author decided nothing:   *)
(* all messages count as processed.                                        *)
SkipExtraction ==
  /\ phase = "gate" /\ DoneSince("wrote") /\ ~DoneSince("asked")
  /\ cursor' = Len(messages) /\ phase' = "idle"
  /\ Extracting /\ UNCHANGED <<busy, waiting, from, tasks, spawned>>

LoadFlag ==
  /\ phase = "gate" /\ (DoneSince("wrote") => DoneSince("asked"))
  /\ phase' = IF busy THEN "coalesce" ELSE IF Len(messages) > cursor THEN "swap" ELSE "idle"
  /\ Extracting /\ UNCHANGED extraction

Coalesce ==
  /\ phase = "coalesce" /\ phase' = "idle"
  /\ waiting' = IF Len(messages) > cursor THEN Len(messages) ELSE waiting
  /\ Extracting /\ UNCHANGED <<cursor, busy, from, tasks, spawned>>

Task(count) == [id |-> spawned + 1, step |-> "run", count |-> count]
(* The flag is swapped and the extraction spawned over messages[from..].   *)
(* The slice panics, and the task of the engine with it, when the cursor   *)
(* read before lies behind the end: a compaction came after that cursor.   *)
Spawn ==
  /\ phase = "swap" /\ ~busy
  /\ busy' = TRUE
  /\ IF from > Len(messages)
     THEN phase' = "dead" /\ UNCHANGED <<tasks, spawned>>
     ELSE /\ phase' = "idle"
          /\ tasks' = tasks \cup {Task(Len(messages))}
          /\ spawned' = spawned + 1
  /\ Extracting /\ UNCHANGED <<cursor, waiting, from>>

SwapLost ==
  /\ phase = "swap" /\ busy /\ phase' = "coalesce"
  /\ Extracting /\ UNCHANGED extraction

EngineExtraction == ReadCursor \/ SkipExtraction \/ LoadFlag \/ Coalesce \/ Spawn \/ SwapLost

(***************************************************************************)
(* The tasks: spawn_memory_extraction and complete_extraction.             *)
(***************************************************************************)
InTask == UNCHANGED <<phase, from>> /\ Extracting
At(t, step) == tasks' = (tasks \ {t}) \cup {[t EXCEPT !.step = step]}

(* The sub-agent is done, or has failed: the cursor moves either way.      *)
ExtractionRuns(t) ==
  /\ t.step = "run" /\ At(t, "take") /\ cursor' = t.count
  /\ InTask /\ UNCHANGED <<busy, waiting, spawned>>

(* The trailing context, if there is one, is kept in the count of the task.*)
TakePending(t) ==
  /\ t.step = "take" /\ waiting' = 0
  /\ tasks' = (tasks \ {t}) \cup {[t EXCEPT !.step = "release", !.count = waiting]}
  /\ InTask /\ UNCHANGED <<cursor, busy, spawned>>

(* The flag after store(false).                                            *)
Released_IfFollowed(t) == t.count = 0
Released(t) == FALSE

ReleaseFlag(t) ==
  /\ t.step = "release" /\ busy' = Released(t)
  /\ IF t.count = 0 THEN tasks' = tasks \ {t} ELSE At(t, "again")
  /\ InTask /\ UNCHANGED <<cursor, waiting, spawned>>

(* A trailing extraction takes the flag again without a look at it.        *)
RunTrailing(t) ==
  /\ t.step = "again" /\ busy' = TRUE
  /\ tasks' = (tasks \ {t}) \cup {Task(t.count)}
  /\ spawned' = spawned + 1
  /\ InTask /\ UNCHANGED <<cursor, waiting>>

TaskStep(t) == ExtractionRuns(t) \/ TakePending(t) \/ ReleaseFlag(t) \/ RunTrailing(t)

(***************************************************************************)
(* The engine ends and the session is resumed: the mode comes from the     *)
(* metadata, the messages from their rows, which attachments have none of; *)
(* the extractor is a new one, whose tasks are none of the old one's.      *)
(***************************************************************************)
ModeOnResume == saved
Reopen ==
  /\ Trouble
  /\ phase' = "idle" /\ mode' = ModeOnResume /\ asked' = "none" /\ notice' = "none"
  /\ lost' = (lost \/ notice # "none" \/ ModeOnResume # mode)
  /\ messages' = Kept(messages, {m \in MessageType : m.kind # "memory"})
  /\ prefetch' = {}
  /\ cursor' = 0 /\ busy' = FALSE /\ waiting' = 0 /\ from' = 0 /\ tasks' = {}
  /\ UNCHANGED <<saved, changes, made, turn, spawned>>

Init ==
  /\ phase = "idle"
  /\ mode \in Modes /\ saved = mode
  /\ asked = "none" /\ notice = "none" /\ lost = FALSE /\ changes = 0
  /\ messages = <<System(mode)>>
  /\ prefetch = {}
  /\ cursor = 0 /\ busy = FALSE /\ waiting = 0 /\ from = 0 /\ tasks = {} /\ spawned = 0
  /\ made = 0 /\ turn = 0 /\ troubles = 0

Next ==
  \/ \E m \in Modes : AskMode(m)
  \/ ApplyMode
  \/ StartTurn \/ Compact \/ TurnGoesOn \/ TurnFails
  \/ TurnAsksApproval \/ TurnAsksAuthor \/ TurnCompletes \/ TurnIsCut
  \/ EngineExtraction
  \/ \E t \in tasks : TaskStep(t)
  \/ Reopen

Spec == Init /\ [][Next]_vars

(***************************************************************************)
(* Properties.                                                             *)
(***************************************************************************)
Phases == {"idle", "turn", "approval", "question", "finished", "gate", "coalesce", "swap", "dead"}
TaskType == [id : Nat, step : {"run", "take", "release", "again"}, count : Nat]

(* Every variable has its type, and the messages begin with their one      *)
(* system message, which apply_permission_mode_change looks at.            *)
TypeOK ==
  /\ phase \in Phases /\ {mode, saved} \subseteq Modes /\ asked \in Modes \cup {"none"}
  /\ notice \in {"none", "enter", "exit"} /\ lost \in BOOLEAN
  /\ messages \in Seq(MessageType)
  /\ prefetch \subseteq Files
  /\ {cursor, waiting, from, spawned, made, turn, changes, troubles} \subseteq Nat
  /\ busy \in BOOLEAN /\ tasks \subseteq TaskType
  /\ messages # <<>> /\ \A i \in 1..Len(messages) : messages[i].kind = "system" <=> i = 1

(* While a turn runs, the model is not under the rules of unattended mode  *)
(* when the mode is another: whatever the changes, compactions and notices *)
(* before, unless an end of the engine took a notice or a mode along.      *)
ToldOnlyWhenUnattended == phase = "turn" /\ Told = "enter" => mode = "unattended" \/ lost

(* The mode does not change in the middle of a turn, also when the command *)
(* passed the check of the flag before the turn began and waits in the     *)
(* queue until the turn is paused.                                         *)
ModeIsFixedInATurn ==
  [][(phase \in {"turn", "approval", "question"} /\ phase' # "idle") => mode' = mode]_vars

(* The flag of the extractor is up only while an extraction is in flight:  *)
(* it cannot stay up and keep every later turn from being extracted.       *)
FlagIsHeld == busy /\ phase # "dead" => tasks # {}

(* A memory file is not attached in two turns while the first attachment   *)
(* is still in the messages.  (With the types of the state.)               *)
SurfacedInOneTurn ==
  /\ TypeOK
  /\ \A i, j \in 1..Len(messages) :
       messages[i].kind = "memory" /\ messages[j].kind = "memory" /\ messages[i].file = messages[j].file
         => messages[i].turn = messages[j].turn
=============================================================================
