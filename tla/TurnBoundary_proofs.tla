------------------------- MODULE TurnBoundary_proofs -------------------------
(* What holds between turns for any memory files and any number of turns,     *)
(* changes of the mode, extractions and ends of the engine.                   *)
EXTENDS TurnBoundary, Subsequences_proofs

(* A paused turn refuses the command that waited in the queue: the engine's   *)
(* own test of is_turn_in_progress, behind the flag of the frontend, is what  *)
(* keeps the mode.                                                            *)
THEOREM NoChangeOfModeInATurn == Spec => ModeIsFixedInATurn
<1> DEFINE Fixed == phase \in {"turn", "approval", "question"} /\ phase' # "idle" => mode' = mode
<1>1. ASSUME [Next]_vars PROVE [Fixed]_vars
  <2>1. CASE \E m \in Modes : AskMode(m)
    BY <2>1 DEF AskMode
  <2>2. CASE ApplyMode
    BY <2>2 DEF ApplyMode, TurnInProgress
  <2>3. CASE StartTurn \/ Compact \/ TurnGoesOn \/ TurnFails
    BY <2>3 DEF StartTurn, Compact, TurnGoesOn, TurnFails, session
  <2>4. CASE TurnAsksApproval \/ TurnAsksAuthor \/ TurnCompletes \/ TurnIsCut
    BY <2>4 DEF TurnAsksApproval, TurnAsksAuthor, TurnCompletes, TurnIsCut, LoopReturns, session
  <2>5. CASE EngineExtraction \/ \E t \in tasks : TaskStep(t)
    <3>1. Extracting
      BY <2>5 DEF EngineExtraction, ReadCursor, SkipExtraction, LoadFlag, Coalesce, Spawn, SwapLost,
                  TaskStep, ExtractionRuns, TakePending, ReleaseFlag, RunTrailing, InTask
    <3> QED BY <3>1 DEF Extracting, session
  <2>6. CASE Reopen
    BY <2>6 DEF Reopen
  <2>7. CASE UNCHANGED vars
    BY <2>7
  <2> QED BY <1>1, <2>1, <2>2, <2>3, <2>4, <2>5, <2>6, <2>7 DEF Next
<1> QED BY <1>1, PTL DEF Spec, ModeIsFixedInATurn

(* A step of the session leaves the flag and the tasks alone.                 *)
LEMMA SessionLeavesTheTasks ==
    ASSUME \/ \E m \in Modes : AskMode(m)
           \/ ApplyMode \/ StartTurn \/ Compact \/ TurnGoesOn \/ TurnFails
           \/ TurnAsksApproval \/ TurnAsksAuthor \/ TurnCompletes \/ TurnIsCut
           \/ ReadCursor \/ SkipExtraction \/ LoadFlag \/ Coalesce \/ SwapLost
    PROVE  UNCHANGED <<busy, tasks>> /\ phase # "dead"
<1>1. CASE \E m \in Modes : AskMode(m)
  BY <1>1 DEF AskMode, extraction
<1>2. CASE ApplyMode
  BY <1>2 DEF ApplyMode, extraction
<1>3. CASE StartTurn \/ Compact \/ TurnFails
  BY <1>3 DEF StartTurn, Compact, TurnFails, extraction
<1>4. CASE TurnGoesOn
  BY <1>4 DEF TurnGoesOn, TurnInProgress, extraction
<1>5. CASE TurnAsksApproval \/ TurnAsksAuthor \/ TurnCompletes \/ TurnIsCut
  BY <1>5 DEF TurnAsksApproval, TurnAsksAuthor, TurnCompletes, TurnIsCut, LoopReturns, extraction
<1>6. CASE ReadCursor \/ SkipExtraction \/ LoadFlag \/ Coalesce \/ SwapLost
  BY <1>6 DEF ReadCursor, SkipExtraction, LoadFlag, Coalesce, SwapLost, extraction
<1> QED BY <1>1, <1>2, <1>3, <1>4, <1>5, <1>6

(* The flag is raised with a task and lowered by one: no turn finds it up     *)
(* with nobody left to lower it, so the extractor is never locked out         *)
(* (try_prepare_extraction, complete_extraction).                             *)
THEOREM FlagIsNeverStuck == Spec => []FlagIsHeld
<1>1. Init => FlagIsHeld
  BY DEF Init, FlagIsHeld
<1>2. FlagIsHeld /\ [Next]_vars => FlagIsHeld'
  <2> SUFFICES ASSUME FlagIsHeld, [Next]_vars PROVE FlagIsHeld'
    OBVIOUS
  <2> USE DEF FlagIsHeld
  <2>1. CASE \/ \E m \in Modes : AskMode(m)
             \/ ApplyMode \/ StartTurn \/ Compact \/ TurnGoesOn \/ TurnFails
             \/ TurnAsksApproval \/ TurnAsksAuthor \/ TurnCompletes \/ TurnIsCut
             \/ ReadCursor \/ SkipExtraction \/ LoadFlag \/ Coalesce \/ SwapLost
    BY <2>1, SessionLeavesTheTasks
  <2>2. CASE Spawn
    BY <2>2 DEF Spawn
  <2>3. CASE \E t \in tasks : TaskStep(t)
    <3>1. PICK t \in tasks : TaskStep(t)
      BY <2>3
    <3>2. CASE ExtractionRuns(t) \/ TakePending(t)
      BY <3>1, <3>2 DEF ExtractionRuns, TakePending, At, InTask
    <3>3. CASE ReleaseFlag(t)
      BY <3>3 DEF ReleaseFlag, Released
    <3>4. CASE RunTrailing(t)
      BY <3>4 DEF RunTrailing
    <3> QED BY <3>1, <3>2, <3>3, <3>4 DEF TaskStep
  <2>4. CASE Reopen
    BY <2>4 DEF Reopen
  <2>5. CASE UNCHANGED vars
    BY <2>5 DEF vars, extraction
  <2> QED BY <2>1, <2>2, <2>3, <2>4, <2>5 DEF Next, EngineExtraction
<1> QED BY <1>1, <1>2, PTL DEF Spec

(* A list of messages of the engine.                                          *)
MessagesOK(s) ==
    /\ s \in Seq(MessageType) /\ s # <<>>
    /\ \A i \in 1 .. Len(s) : s[i].kind = "system" <=> i = 1

LEMMA MessageIsTyped ==
    ASSUME turn' \in Nat, NEW k \in {"author", "reply", "memory", "summary"},
           NEW says \in {"none", "enter", "exit"}, NEW file \in Files \cup {"none"},
           NEW does \in SUBSET {"wrote", "asked"}
    PROVE  /\ Message(k, says, file, does) \in MessageType
           /\ Message(k, says, file, does).kind = k /\ Message(k, says, file, does).says = says
           /\ Message(k, says, file, does).file = file /\ Message(k, says, file, does).turn = turn'
BY DEF Message, MessageType

LEMMA ExtensionIsTyped ==
    ASSUME NEW s, MessagesOK(s), NEW t \in Seq(MessageType),
           \A i \in 1 .. Len(t) : t[i].kind # "system"
    PROVE  MessagesOK(s \o t)
<1>1. s \in Seq(MessageType)
  BY DEF MessagesOK
<1>2. s \o t \in Seq(MessageType) /\ Len(s \o t) = Len(s) + Len(t) /\ Len(s) >= 1
  BY <1>1 DEF MessagesOK
<1>3. ASSUME NEW i \in 1 .. Len(s \o t) PROVE (s \o t)[i].kind = "system" <=> i = 1
  <2>1. CASE i <= Len(s)
    <3>1. i \in 1 .. Len(s) /\ (s \o t)[i] = s[i]
      BY <1>1, <1>2, <2>1
    <3> QED BY <3>1 DEF MessagesOK
  <2>2. CASE i > Len(s)
    <3>1. i - Len(s) \in 1 .. Len(t) /\ (s \o t)[i] = t[i - Len(s)] /\ i # 1
      BY <1>1, <1>2, <2>2
    <3> QED BY <3>1
  <2> QED BY <1>1, <1>2, <2>1, <2>2
<1>4. s \o t # <<>>
  BY <1>2
<1> QED BY <1>2, <1>3, <1>4 DEF MessagesOK

LEMMA RebuiltIsTyped ==
    ASSUME turn' \in Nat, mode \in Modes, MessagesOK(messages), NEW first \in 2 .. Len(messages) + 1
    PROVE  MessagesOK(Rebuilt(first))
<1> DEFINE head == <<System(mode), Message("summary", "none", "none", {})>>
           tail == SubSeq(messages, first, Len(messages))
<1>1. messages \in Seq(MessageType)
  BY DEF MessagesOK
<1>2. tail \in Seq(MessageType) /\ Len(tail) = Len(messages) + 1 - first
      /\ \A i \in 1 .. Len(tail) : tail[i] = messages[first + i - 1]
  BY <1>1
<1>3. \A i \in 1 .. Len(tail) : tail[i].kind # "system"
  <2> SUFFICES ASSUME NEW i \in 1 .. Len(tail) PROVE messages[first + i - 1].kind # "system"
    BY <1>2
  <2>1. first + i - 1 \in 1 .. Len(messages) /\ first + i - 1 # 1
    BY <1>1, <1>2
  <2> QED BY <2>1 DEF MessagesOK
<1>4. MessagesOK(head)
  <2>1. System(mode) \in MessageType /\ System(mode).kind = "system"
    BY DEF System, MessageType, Modes
  <2>2. /\ Message("summary", "none", "none", {}) \in MessageType
        /\ Message("summary", "none", "none", {}).kind = "summary"
    BY MessageIsTyped
  <2> QED BY <2>1, <2>2 DEF MessagesOK
<1> HIDE DEF head, tail
<1>5. MessagesOK(head \o tail)
  BY <1>2, <1>3, <1>4, ExtensionIsTyped
<1> QED BY <1>5 DEF Rebuilt, head, tail

Rows == {m \in MessageType : m.kind # "memory"}

LEMMA KeptIsTyped ==
    ASSUME NEW s, MessagesOK(s)
    PROVE  MessagesOK(Kept(s, Rows))
<1>1. s \in Seq(MessageType) /\ s # <<>>
  BY DEF MessagesOK
<1> DEFINE k == Kept(s, Rows)
<1>2. k \in Seq(MessageType)
  BY <1>1, KeptType
<1>3. PICK e : Places(s, Rows, e)
  BY <1>1, KeptPlaces
<1>4. Len(s) \in Nat /\ Len(k) \in Nat /\ 1 \in 1 .. Len(s)
  BY <1>1, <1>2
<1> HIDE DEF k
<1>5. /\ e \in [1 .. Len(k) -> 1 .. Len(s)]
      /\ \A i \in 1 .. Len(k) : k[i] = s[e[i]]
      /\ \A i, j \in 1 .. Len(k) : i < j => e[i] < e[j]
      /\ \A n \in 1 .. Len(s) : s[n] \in Rows => \E i \in 1 .. Len(k) : e[i] = n
  BY <1>3 DEF Places, k
<1>6. s[1] \in Rows
  <2>1. s[1] \in MessageType /\ s[1].kind = "system"
    BY <1>1, <1>4 DEF MessagesOK
  <2> QED BY <2>1 DEF Rows
<1>7. PICK one \in 1 .. Len(k) : e[one] = 1
  BY <1>4, <1>5, <1>6
<1>8. one = 1
  <2> SUFFICES ASSUME one # 1 PROVE FALSE
    OBVIOUS
  <2>1. 1 \in 1 .. Len(k) /\ 1 < one
    BY <1>4
  <2>2. e[1] < e[one] /\ e[1] \in 1 .. Len(s)
    BY <1>5, <2>1
  <2> QED BY <1>4, <1>7, <2>2
<1>9. ASSUME NEW i \in 1 .. Len(k) PROVE k[i].kind = "system" <=> i = 1
  <2>1. e[i] \in 1 .. Len(s) /\ k[i] = s[e[i]]
    BY <1>5
  <2>2. s[e[i]].kind = "system" <=> e[i] = 1
    BY <2>1 DEF MessagesOK
  <2>3. e[i] = 1 <=> i = 1
    <3>1. ASSUME e[i] = 1, i # 1 PROVE FALSE
      <4>1. 1 \in 1 .. Len(k) /\ 1 < i
        BY <1>4, <3>1
      <4>2. e[1] < e[i]
        BY <1>5, <4>1
      <4> QED BY <1>4, <1>7, <1>8, <3>1, <4>2
    <3> QED BY <1>7, <1>8, <3>1
  <2> QED BY <2>1, <2>2, <2>3
<1>10. k # <<>>
  BY <1>4, <1>7
<1> QED BY <1>2, <1>9, <1>10 DEF MessagesOK, k

(* An extraction leaves the session and its messages alone.                   *)
LEMMA TasksLeaveTheSession ==
    /\ EngineExtraction => Extracting
    /\ \A t : TaskStep(t) => Extracting /\ UNCHANGED phase
BY DEF EngineExtraction, ReadCursor, SkipExtraction, LoadFlag, Coalesce, Spawn, SwapLost,
       TaskStep, ExtractionRuns, TakePending, ReleaseFlag, RunTrailing, InTask

LEMMA LoopReturnsWith ==
    ASSUME TurnAsksApproval \/ TurnAsksAuthor \/ TurnCompletes \/ TurnIsCut
    PROVE  \E calls, next : calls \subseteq SUBSET {"wrote", "asked"} /\ LoopReturns(next, calls)
<1>1. Calls \subseteq SUBSET {"wrote", "asked"}
  BY DEF Calls
<1>2. {c \cup {"asked"} : c \in Calls} \subseteq SUBSET {"wrote", "asked"}
  BY <1>1
<1> QED BY <1>1, <1>2 DEF TurnAsksApproval, TurnAsksAuthor, TurnCompletes, TurnIsCut

(* The attachments of a prefetch are files it found, in messages of the turn. *)
LEMMA AttachedIsTyped ==
    ASSUME turn' \in Nat, NEW found, found \subseteq Files, NEW a \in Attached(found)
    PROVE  /\ a \in Seq(MessageType)
           /\ \A i \in 1 .. Len(a) : /\ a[i].kind = "memory" /\ a[i].says = "none"
                                     /\ a[i].file \in found /\ a[i].turn = turn'
<1>1. PICK s \in Selections(found) : a = [i \in 1 .. Len(s) |-> Message("memory", "none", s[i], {})]
  BY DEF Attached
<1>2. s \in Seq(found) /\ Len(s) \in Nat
  <2>1. CASE s = <<>>
    BY <2>1
  <2>2. CASE \E f \in found : s = <<f>>
    BY <2>2
  <2>3. CASE \E f, g \in found : s = <<f, g>>
    BY <2>3
  <2>4. s = <<>> \/ (\E f \in found : s = <<f>>) \/ (\E f, g \in found : s = <<f, g>>)
    BY DEF Selections
  <2>5. s \in Seq(found)
    BY <2>1, <2>2, <2>3, <2>4
  <2> QED BY <2>5
<1>3. ASSUME NEW i \in 1 .. Len(s)
      PROVE  LET m == Message("memory", "none", s[i], {})
             IN m \in MessageType /\ m.kind = "memory" /\ m.says = "none" /\ m.file \in found /\ m.turn = turn'
  <2>1. s[i] \in found /\ s[i] \in Files \cup {"none"}
    BY <1>2
  <2> QED BY <2>1, MessageIsTyped
<1>4. a \in Seq(MessageType) /\ Len(a) = Len(s)
  BY <1>1, <1>2, <1>3, IsASeq
<1> QED BY <1>1, <1>3, <1>4

LEMMA CountsStayTyped ==
    ASSUME TypeOK, [Next]_vars
    PROVE  {made, turn, changes, troubles}' \subseteq Nat
<1> USE DEF TypeOK
<1>1. CASE (\E m \in Modes : AskMode(m)) \/ ApplyMode
  BY <1>1 DEF AskMode, ApplyMode, Trouble
<1>2. CASE StartTurn \/ Compact \/ TurnGoesOn \/ TurnFails
  BY <1>2 DEF StartTurn, Compact, TurnGoesOn, TurnFails, Trouble, session
<1>3. CASE TurnAsksApproval \/ TurnAsksAuthor \/ TurnCompletes \/ TurnIsCut
  <2>1. PICK calls, next : calls \subseteq SUBSET {"wrote", "asked"} /\ LoopReturns(next, calls)
    BY <1>3, LoopReturnsWith
  <2>2. PICK found \in Attached(prefetch) : made' = made + 1 + Len(found)
    BY <2>1 DEF LoopReturns
  <2>3. UNCHANGED <<turn, changes, troubles>>
    BY <2>1 DEF LoopReturns, session
  <2>4. Len(found) \in Nat
    BY <2>3, AttachedIsTyped, turn' \in Nat
  <2> QED BY <2>2, <2>3, <2>4
<1>4. CASE EngineExtraction \/ \E t \in tasks : TaskStep(t)
  BY <1>4, TasksLeaveTheSession DEF Extracting, session
<1>5. CASE Reopen
  BY <1>5 DEF Reopen, Trouble
<1>6. CASE UNCHANGED vars
  BY <1>6 DEF vars, session
<1> QED BY <1>1, <1>2, <1>3, <1>4, <1>5, <1>6 DEF Next

LEMMA SessionStaysTyped ==
    ASSUME TypeOK, [Next]_vars
    PROVE  /\ phase' \in Phases /\ {mode, saved}' \subseteq Modes /\ asked' \in Modes \cup {"none"}
           /\ notice' \in {"none", "enter", "exit"} /\ lost' \in BOOLEAN /\ prefetch' \subseteq Files
<1> USE DEF TypeOK, Phases
<1>1. CASE \E m \in Modes : AskMode(m)
  BY <1>1 DEF AskMode
<1>2. CASE ApplyMode
  BY <1>2 DEF ApplyMode, NoticeAfter
<1>3. CASE StartTurn \/ Compact \/ TurnGoesOn \/ TurnFails
  BY <1>3 DEF StartTurn, Compact, TurnGoesOn, TurnFails, session, PrefetchChoices
<1>4. CASE TurnAsksApproval \/ TurnAsksAuthor \/ TurnCompletes \/ TurnIsCut
  BY <1>4 DEF TurnAsksApproval, TurnAsksAuthor, TurnCompletes, TurnIsCut, LoopReturns, session
<1>5. CASE EngineExtraction \/ \E t \in tasks : TaskStep(t)
  <2>1. CASE EngineExtraction
    BY <2>1 DEF EngineExtraction, ReadCursor, SkipExtraction, LoadFlag, Coalesce, Spawn, SwapLost,
                Extracting, session
  <2>2. CASE \E t \in tasks : TaskStep(t)
    <3>1. Extracting /\ UNCHANGED phase
      BY <2>2, TasksLeaveTheSession
    <3> QED BY <3>1 DEF Extracting, session
  <2> QED BY <1>5, <2>1, <2>2
<1>6. CASE Reopen
  BY <1>6 DEF Reopen, ModeOnResume
<1>7. CASE UNCHANGED vars
  BY <1>7 DEF vars, session
<1> QED BY <1>1, <1>2, <1>3, <1>4, <1>5, <1>6, <1>7 DEF Next

LEMMA ExtractionStaysTyped ==
    ASSUME TypeOK, [Next]_vars
    PROVE  /\ {cursor, waiting, from, spawned}' \subseteq Nat
           /\ busy' \in BOOLEAN /\ tasks' \subseteq TaskType
<1> USE DEF TypeOK
<1>1. Len(messages) \in Nat
  OBVIOUS
<1>2. CASE \/ \E m \in Modes : AskMode(m)
           \/ ApplyMode \/ StartTurn \/ Compact \/ TurnGoesOn \/ TurnFails
           \/ TurnAsksApproval \/ TurnAsksAuthor \/ TurnCompletes \/ TurnIsCut
  BY <1>2 DEF AskMode, ApplyMode, StartTurn, Compact, TurnGoesOn, TurnFails, TurnAsksApproval,
              TurnAsksAuthor, TurnCompletes, TurnIsCut, LoopReturns, extraction
<1>3. CASE ReadCursor \/ SkipExtraction \/ LoadFlag \/ Coalesce \/ SwapLost
  BY <1>1, <1>3 DEF ReadCursor, SkipExtraction, LoadFlag, Coalesce, SwapLost, extraction
<1>4. CASE Spawn
  <2>1. Task(Len(messages)) \in TaskType
    BY <1>1 DEF Task, TaskType
  <2> QED BY <1>4, <2>1 DEF Spawn
<1>5. CASE \E t \in tasks : TaskStep(t)
  <2>1. PICK t \in tasks : TaskStep(t)
    BY <1>5
  <2>2. t \in TaskType
    OBVIOUS
  <2>3. ASSUME NEW step \in {"run", "take", "release", "again"}, NEW count \in Nat
        PROVE  [t EXCEPT !.step = step] \in TaskType /\ [t EXCEPT !.step = step, !.count = count] \in TaskType
               /\ Task(count) \in TaskType /\ t.count \in Nat
    <3>1. [t EXCEPT !.step = step] \in TaskType
      BY <2>2 DEF TaskType
    <3>2. [t EXCEPT !.step = step, !.count = count] \in TaskType
      BY <2>2 DEF TaskType
    <3>3. Task(count) \in TaskType /\ t.count \in Nat
      BY <2>2 DEF TaskType, Task
    <3> QED BY <3>1, <3>2, <3>3
  <2>4. CASE ExtractionRuns(t)
    BY <2>3, <2>4 DEF ExtractionRuns, At, InTask
  <2>5. CASE TakePending(t)
    <3>1. [t EXCEPT !.step = "release", !.count = waiting] \in TaskType
      BY <2>3
    <3> HIDE DEF TaskType
    <3> QED BY <2>5, <3>1 DEF TakePending, InTask
  <2>6. CASE ReleaseFlag(t)
    BY <2>3, <2>6 DEF ReleaseFlag, Released, At, InTask
  <2>7. CASE RunTrailing(t)
    <3>1. tasks' = (tasks \ {t}) \cup {Task(t.count)} /\ busy' /\ spawned' = spawned + 1
          /\ UNCHANGED <<cursor, waiting, from>>
      BY <2>7 DEF RunTrailing, InTask
    <3>2. Task(t.count) \in TaskType
      BY <2>3
    <3> QED BY <2>7, <3>1, <3>2 DEF RunTrailing
  <2> QED BY <2>1, <2>4, <2>5, <2>6, <2>7 DEF TaskStep
<1>6. CASE Reopen
  <2>1. cursor' = 0 /\ busy' = FALSE /\ waiting' = 0 /\ from' = 0 /\ tasks' = {} /\ spawned' = spawned
    BY <1>6 DEF Reopen
  <2>2. cursor' \in Nat /\ waiting' \in Nat /\ from' \in Nat /\ spawned' \in Nat
    BY <2>1
  <2>3. busy' \in BOOLEAN /\ tasks' \subseteq TaskType
    BY <2>1
  <2> QED BY <2>2, <2>3
<1>7. CASE UNCHANGED vars
  BY <1>7 DEF vars, extraction
<1> QED BY <1>2, <1>3, <1>4, <1>5, <1>6, <1>7 DEF Next, EngineExtraction

(* Every step gives a list of messages, from steps of three kinds.            *)
LEMMA MessagesStayTyped ==
    ASSUME TypeOK, [Next]_vars, turn' \in Nat
    PROVE  MessagesOK(messages')
<1>1. MessagesOK(messages) /\ mode \in Modes /\ prefetch \subseteq Files
  BY DEF TypeOK, MessagesOK
<1>2. CASE StartTurn
  <2> DEFINE t == <<Message("author", notice, "none", {})>>
  <2>1. t \in Seq(MessageType) /\ Len(t) = 1 /\ t[1].kind = "author"
    <3>1. notice \in {"none", "enter", "exit"}
      BY DEF TypeOK
    <3> QED BY <3>1, MessageIsTyped
  <2>2. messages' = messages \o t
    BY <1>1, <1>2, <2>1 DEF StartTurn, MessagesOK
  <2> HIDE DEF t
  <2> QED BY <1>1, <2>1, <2>2, ExtensionIsTyped
<1>3. CASE Compact
  <2>1. PICK first \in {i \in 2 .. Len(messages) : messages[i].kind \in {"author", "memory"}} \cup {Len(messages) + 1} :
           messages' = Rebuilt(first)
    BY <1>3 DEF Compact
  <2>2. Len(messages) \in Nat /\ Len(messages) >= 1
    BY <1>1 DEF MessagesOK
  <2>3. first \in 2 .. Len(messages) + 1
    BY <2>2
  <2> QED BY <1>1, <2>1, <2>3, RebuiltIsTyped
<1>4. CASE TurnAsksApproval \/ TurnAsksAuthor \/ TurnCompletes \/ TurnIsCut
  <2>1. PICK calls, next : calls \subseteq SUBSET {"wrote", "asked"} /\ LoopReturns(next, calls)
    BY <1>4, LoopReturnsWith
  <2>2. PICK does \in calls, found \in Attached(prefetch) :
           messages' = messages \o <<Message("reply", "none", "none", does)>> \o found
    BY <2>1 DEF LoopReturns
  <2> DEFINE r == <<Message("reply", "none", "none", does)>>
  <2>3. does \in SUBSET {"wrote", "asked"}
    BY <2>1, <2>2
  <2>4. r \in Seq(MessageType) /\ Len(r) = 1 /\ r[1].kind = "reply"
    BY <2>3, MessageIsTyped
  <2>5. found \in Seq(MessageType) /\ \A i \in 1 .. Len(found) : found[i].kind = "memory"
    BY <1>1, AttachedIsTyped
  <2> HIDE DEF r
  <2>6. MessagesOK(messages \o r)
    BY <1>1, <2>4, ExtensionIsTyped
  <2>7. MessagesOK((messages \o r) \o found)
    BY <2>5, <2>6, ExtensionIsTyped
  <2> QED BY <2>2, <2>7 DEF r
<1>5. CASE Reopen
  <2>1. messages' = Kept(messages, Rows)
    BY <1>5 DEF Reopen, Rows
  <2> QED BY <1>1, <2>1, KeptIsTyped
<1>6. CASE ~(StartTurn \/ Compact \/ TurnAsksApproval \/ TurnAsksAuthor \/ TurnCompletes \/ TurnIsCut \/ Reopen)
  <2>1. messages' = messages
    BY <1>6, TasksLeaveTheSession DEF Next, vars, AskMode, ApplyMode, TurnGoesOn, TurnFails, Extracting
  <2> QED BY <1>1, <2>1
<1> QED BY <1>2, <1>3, <1>4, <1>5, <1>6

LEMMA TypeStep == TypeOK /\ [Next]_vars => TypeOK'
<1> SUFFICES ASSUME TypeOK, [Next]_vars PROVE TypeOK'
  OBVIOUS
<1>1. turn' \in Nat
  BY CountsStayTyped
<1>2. MessagesOK(messages')
  BY <1>1, MessagesStayTyped
<1>3. /\ phase' \in Phases /\ {mode, saved}' \subseteq Modes /\ asked' \in Modes \cup {"none"}
      /\ notice' \in {"none", "enter", "exit"} /\ lost' \in BOOLEAN /\ prefetch' \subseteq Files
  BY SessionStaysTyped
<1>4. /\ {cursor, waiting, from, spawned}' \subseteq Nat
      /\ busy' \in BOOLEAN /\ tasks' \subseteq TaskType
  BY ExtractionStaysTyped
<1> QED BY <1>2, <1>3, <1>4, CountsStayTyped DEF TypeOK, MessagesOK

LEMMA InitIsTyped == Init => TypeOK
<1> SUFFICES ASSUME Init PROVE TypeOK
  OBVIOUS
<1>1. System(mode) \in MessageType /\ System(mode).kind = "system" /\ mode \in Modes
  BY DEF Init, System, MessageType, Modes
<1>2. MessagesOK(messages)
  BY <1>1 DEF Init, MessagesOK
<1>3. /\ phase \in Phases /\ {mode, saved} \subseteq Modes /\ asked \in Modes \cup {"none"}
      /\ notice \in {"none", "enter", "exit"} /\ lost \in BOOLEAN /\ prefetch \subseteq Files
  BY DEF Init, Phases
<1>4. /\ {cursor, waiting, from, spawned, made, turn, changes, troubles} \subseteq Nat
      /\ busy \in BOOLEAN /\ tasks \subseteq TaskType
  <2>1. cursor = 0 /\ waiting = 0 /\ from = 0 /\ spawned = 0 /\ made = 0 /\ turn = 0 /\ changes = 0 /\ troubles = 0
    BY DEF Init
  <2>2. busy = FALSE /\ tasks = {}
    BY DEF Init
  <2>3. {cursor, waiting, from, spawned, made, turn, changes, troubles} \subseteq Nat
    BY <2>1
  <2>4. busy \in BOOLEAN /\ tasks \subseteq TaskType
    BY <2>2
  <2> QED BY <2>3, <2>4
<1> QED BY <1>2, <1>3, <1>4 DEF TypeOK, MessagesOK

(* Every variable keeps its type, and the one system message stays in front.  *)
THEOREM TypeCorrect == Spec => []TypeOK
  BY InitIsTyped, TypeStep, PTL DEF Spec

(* What a step does to the messages, as far as files and notices go: those it *)
(* does not keep are plain, or attachments of the prefetch.                   *)
Elements(s) == {s[i] : i \in 1 .. Len(s)}
Plain(x) == x.kind # "memory" /\ x.file = "none"

FilesIn(s) == {s[i].file : i \in 1 .. Len(s)} \ {"none"}
OneTurn(s) == \A i, j \in 1 .. Len(s) :
    s[i].kind = "memory" /\ s[j].kind = "memory" /\ s[i].file = s[j].file => s[i].turn = s[j].turn

LEMMA PlainStepKeepsFiles ==
    ASSUME NEW s, NEW t, \A x \in Elements(t) : x \in Elements(s) \/ Plain(x)
    PROVE  FilesIn(t) \subseteq FilesIn(s) /\ (OneTurn(s) => OneTurn(t))
<1>1. ASSUME NEW i \in 1 .. Len(t) PROVE Plain(t[i]) \/ \E k \in 1 .. Len(s) : t[i] = s[k]
  BY DEF Elements
<1>2. FilesIn(t) \subseteq FilesIn(s)
  BY <1>1 DEF FilesIn, Plain
<1>3. ASSUME OneTurn(s) PROVE OneTurn(t)
  BY <1>1, <1>3 DEF OneTurn, Plain
<1> QED BY <1>2, <1>3

(* The elements of t are those of s, plain ones and files found in the turn.  *)
Adds(s, t, found, now) ==
    \A x \in Elements(t) : x \in Elements(s) \/ Plain(x) \/ (x.file \in found /\ x.turn = now)
Unseen(s, found) == "none" \notin found /\ \A f \in found : f \notin FilesIn(s)

LEMMA AttachmentIsOfOneTurn ==
    ASSUME NEW s, NEW t, NEW found, NEW now, OneTurn(s),
           Unseen(s, found), Adds(s, t, found, now)
    PROVE  OneTurn(t)
<1>1. ASSUME NEW i \in 1 .. Len(t)
      PROVE  \/ Plain(t[i])
             \/ t[i].file \in found /\ t[i].turn = now
             \/ \E k \in 1 .. Len(s) : t[i] = s[k]
  BY DEF Adds, Elements
<1>2. \A k \in 1 .. Len(s) : s[k].file \notin found
  BY DEF FilesIn, Unseen
<1> SUFFICES ASSUME NEW i \in 1 .. Len(t), NEW j \in 1 .. Len(t),
                    t[i].kind = "memory", t[j].kind = "memory", t[i].file = t[j].file
             PROVE  t[i].turn = t[j].turn
  BY DEF OneTurn
<1>3. CASE t[i].file \in found
  BY <1>1, <1>2, <1>3 DEF Plain
<1>4. CASE t[i].file \notin found
  <2>1. PICK k \in 1 .. Len(s) : t[i] = s[k]
    BY <1>1, <1>4 DEF Plain
  <2>2. PICK l \in 1 .. Len(s) : t[j] = s[l]
    BY <1>1, <1>4 DEF Plain
  <2> QED BY <2>1, <2>2 DEF OneTurn
<1> QED BY <1>3, <1>4

(* The prefetch of a turn never finds what the messages already show.         *)
PrefetchInv ==
    /\ TypeOK /\ OneTurn(messages)
    /\ phase = "turn" => prefetch \cap Surfaced = {}
    /\ phase \in {"approval", "question"} => prefetch = {}

LEMMA ElementsOfConcat ==
    ASSUME NEW s \in Seq(MessageType), NEW t \in Seq(MessageType)
    PROVE  Elements(s \o t) = Elements(s) \cup Elements(t)
<1>1. ASSUME NEW i \in 1 .. Len(s \o t) PROVE (s \o t)[i] \in Elements(s) \cup Elements(t)
  <2>1. CASE i <= Len(s)
    <3>1. i \in 1 .. Len(s) /\ (s \o t)[i] = s[i]
      BY <2>1
    <3> QED BY <3>1 DEF Elements
  <2>2. CASE i > Len(s)
    <3>1. i - Len(s) \in 1 .. Len(t) /\ (s \o t)[i] = t[i - Len(s)]
      BY <2>2
    <3> QED BY <3>1 DEF Elements
  <2> QED BY <2>1, <2>2
<1>2. ASSUME NEW i \in 1 .. Len(s) PROVE s[i] \in Elements(s \o t)
  <2>1. i \in 1 .. Len(s \o t) /\ (s \o t)[i] = s[i]
    OBVIOUS
  <2> QED BY <2>1 DEF Elements
<1>3. ASSUME NEW i \in 1 .. Len(t) PROVE t[i] \in Elements(s \o t)
  <2>1. i + Len(s) \in 1 .. Len(s \o t) /\ (s \o t)[i + Len(s)] = t[i]
    OBVIOUS
  <2> QED BY <2>1 DEF Elements
<1> QED BY <1>1, <1>2, <1>3 DEF Elements

LEMMA ElementsOfStep ==
    ASSUME TypeOK, [Next]_vars
    PROVE  \A x \in Elements(messages') :
              \/ x \in Elements(messages) \/ Plain(x)
              \/ phase = "turn" /\ phase' # "turn" /\ x.file \in prefetch /\ x.turn = turn' /\ x.says = "none"
<1>0. turn' \in Nat
  BY CountsStayTyped
<1>1. messages \in Seq(MessageType) /\ Len(messages) \in Nat /\ mode \in Modes /\ prefetch \subseteq Files
      /\ notice \in {"none", "enter", "exit"}
  BY DEF TypeOK
<1>2. CASE StartTurn
  <2> DEFINE t == <<Message("author", notice, "none", {})>>
  <2>1. t \in Seq(MessageType) /\ Len(t) = 1 /\ Plain(t[1])
    BY <1>0, <1>1, MessageIsTyped DEF Plain
  <2>2. messages' = messages \o t
    BY <1>1, <1>2, <2>1 DEF StartTurn
  <2> HIDE DEF t
  <2>3. \A x \in Elements(t) : Plain(x)
    BY <2>1 DEF Elements
  <2> QED BY <1>1, <2>1, <2>2, <2>3, ElementsOfConcat
<1>3. CASE Compact
  <2>1. PICK first \in {i \in 2 .. Len(messages) : messages[i].kind \in {"author", "memory"}} \cup {Len(messages) + 1} :
           messages' = Rebuilt(first)
    BY <1>3 DEF Compact
  <2>2. first \in 1 .. Len(messages) + 1
    BY <1>1, <2>1
  <2> DEFINE head == <<System(mode), Message("summary", "none", "none", {})>>
             tail == SubSeq(messages, first, Len(messages))
  <2>3. head \in Seq(MessageType) /\ \A x \in Elements(head) : Plain(x)
    <3>1. System(mode) \in MessageType /\ Plain(System(mode))
      BY <1>1 DEF System, MessageType, Modes, Plain
    <3>2. LET m == Message("summary", "none", "none", {}) IN m \in MessageType /\ Plain(m)
      BY <1>0, MessageIsTyped DEF Plain
    <3>3. \A i \in 1 .. Len(head) : Plain(head[i])
      BY <3>1, <3>2
    <3> QED BY <3>1, <3>2, <3>3 DEF Elements
  <2>4. tail \in Seq(MessageType) /\ \A i \in 1 .. Len(tail) : tail[i] = messages[first + i - 1] /\ first + i - 1 \in 1 .. Len(messages)
    BY <1>1, <2>2
  <2>5. messages' = head \o tail
    BY <2>1 DEF Rebuilt
  <2> HIDE DEF head, tail
  <2>6. Elements(tail) \subseteq Elements(messages)
    BY <2>4 DEF Elements
  <2> QED BY <2>3, <2>4, <2>5, <2>6, ElementsOfConcat
<1>4. CASE TurnAsksApproval \/ TurnAsksAuthor \/ TurnCompletes \/ TurnIsCut
  <2>1. PICK calls, next : calls \subseteq SUBSET {"wrote", "asked"} /\ LoopReturns(next, calls)
    BY <1>4, LoopReturnsWith
  <2>2. PICK does \in calls, found \in Attached(prefetch) :
           messages' = messages \o <<Message("reply", "none", "none", does)>> \o found
    BY <2>1 DEF LoopReturns
  <2> DEFINE r == <<Message("reply", "none", "none", does)>>
  <2>3. does \in SUBSET {"wrote", "asked"} /\ phase = "turn"
    BY <2>1, <2>2 DEF LoopReturns
  <2>9. phase' # "turn"
    BY <1>4 DEF TurnAsksApproval, TurnAsksAuthor, TurnCompletes, TurnIsCut, LoopReturns
  <2>4. r \in Seq(MessageType) /\ \A x \in Elements(r) : Plain(x)
    <3>1. LET m == Message("reply", "none", "none", does) IN m \in MessageType /\ Plain(m)
      BY <1>0, <2>3, MessageIsTyped DEF Plain
    <3>2. \A i \in 1 .. Len(r) : Plain(r[i])
      BY <3>1
    <3> QED BY <3>1, <3>2 DEF Elements
  <2>5. found \in Seq(MessageType) /\ \A x \in Elements(found) : x.file \in prefetch /\ x.turn = turn' /\ x.says = "none"
    BY <1>0, <1>1, AttachedIsTyped DEF Elements
  <2> HIDE DEF r
  <2>6. messages \o r \in Seq(MessageType) /\ Elements(messages \o r) = Elements(messages) \cup Elements(r)
    BY <1>1, <2>4, ElementsOfConcat
  <2>7. Elements((messages \o r) \o found) = Elements(messages \o r) \cup Elements(found)
    BY <2>5, <2>6, ElementsOfConcat
  <2>8. messages' = (messages \o r) \o found
    BY <2>2 DEF r
  <2> QED BY <2>3, <2>4, <2>5, <2>6, <2>7, <2>8, <2>9
<1>5. CASE Reopen
  <2>1. messages' = Kept(messages, Rows)
    BY <1>5 DEF Reopen, Rows
  <2>2. PICK e : Places(messages, Rows, e)
    BY <1>1, KeptPlaces
  <2>3. \A i \in 1 .. Len(messages') : messages'[i] = messages[e[i]] /\ e[i] \in 1 .. Len(messages)
    BY <2>1, <2>2 DEF Places
  <2> QED BY <2>3 DEF Elements
<1>6. CASE ~(StartTurn \/ Compact \/ TurnAsksApproval \/ TurnAsksAuthor \/ TurnCompletes \/ TurnIsCut \/ Reopen)
  <2>1. messages' = messages
    BY <1>6, TasksLeaveTheSession DEF Next, vars, AskMode, ApplyMode, TurnGoesOn, TurnFails, Extracting
  <2> QED BY <2>1
<1> QED BY <1>2, <1>3, <1>4, <1>5, <1>6

LEMMA PrefetchStep == PrefetchInv /\ [Next]_vars => PrefetchInv'
<1> SUFFICES ASSUME PrefetchInv, [Next]_vars PROVE PrefetchInv'
  OBVIOUS
<1>1. TypeOK /\ TypeOK'
  BY TypeStep DEF PrefetchInv
<1>2. FilesIn(messages) = Surfaced /\ FilesIn(messages)' = Surfaced'
  BY DEF FilesIn, Surfaced
<1>3. prefetch \subseteq Files /\ "none" \notin prefetch
  BY <1>1, FilesAreNamed DEF TypeOK
<1>4. OneTurn(messages')
  <2>1. CASE phase = "turn"
    <3>1. Unseen(messages, prefetch) /\ OneTurn(messages)
      BY <1>2, <1>3, <2>1 DEF PrefetchInv, Unseen
    <3>2. Adds(messages, messages', prefetch, turn')
      BY <1>1, ElementsOfStep DEF Adds
    <3> QED BY <3>1, <3>2, AttachmentIsOfOneTurn
  <2>2. CASE phase # "turn"
    BY <1>1, <2>2, ElementsOfStep, PlainStepKeepsFiles DEF PrefetchInv
  <2> QED BY <2>1, <2>2
<1>5. /\ phase' = "turn" => prefetch' \cap Surfaced' = {}
      /\ phase' \in {"approval", "question"} => prefetch' = {}
  <2>1. CASE StartTurn
    <3>1. FilesIn(messages') \subseteq FilesIn(messages)
      <4>1. \A x \in Elements(messages') : x \in Elements(messages) \/ Plain(x)
        <5>1. prefetch = {} \/ phase # "turn"
          BY <2>1 DEF StartTurn
        <5> QED BY <1>1, <5>1, ElementsOfStep
      <4> QED BY <4>1, PlainStepKeepsFiles
    <3> QED BY <1>2, <2>1, <3>1 DEF StartTurn, PrefetchChoices
  <2>2. CASE Compact
    <3>1. phase = "turn" /\ phase' = "turn" /\ prefetch' = prefetch
      BY <2>2 DEF Compact
    <3>2. FilesIn(messages') \subseteq FilesIn(messages)
      BY <1>1, <3>1, ElementsOfStep, PlainStepKeepsFiles
    <3> QED BY <1>2, <3>1, <3>2 DEF PrefetchInv
  <2>3. CASE TurnAsksApproval \/ TurnAsksAuthor \/ TurnCompletes \/ TurnIsCut
    BY <2>3 DEF TurnAsksApproval, TurnAsksAuthor, TurnCompletes, TurnIsCut, LoopReturns
  <2>4. CASE TurnGoesOn \/ TurnFails
    BY <2>4 DEF TurnGoesOn, TurnFails, TurnInProgress, PrefetchInv
  <2>5. CASE Reopen
    BY <2>5 DEF Reopen
  <2>6. CASE (\E m \in Modes : AskMode(m)) \/ ApplyMode \/ UNCHANGED vars
    BY <2>6 DEF AskMode, ApplyMode, vars, PrefetchInv, Surfaced
  <2>7. CASE EngineExtraction
    BY <2>7 DEF EngineExtraction, ReadCursor, SkipExtraction, LoadFlag, Coalesce, Spawn, SwapLost
  <2>8. CASE \E t \in tasks : TaskStep(t)
    BY <2>8, TasksLeaveTheSession DEF Extracting, PrefetchInv, Surfaced
  <2> QED BY <2>1, <2>2, <2>3, <2>4, <2>5, <2>6, <2>7, <2>8 DEF Next
<1> QED BY <1>1, <1>4, <1>5 DEF PrefetchInv

(* A memory file is not attached in two turns while the first attachment is  *)
(* still in the messages, whatever the prefetch selects and however turns,   *)
(* compactions and resumes alternate (MemoryPrefetch, collect_surfaced).     *)
THEOREM FilesAreSurfacedOnce == Spec => []SurfacedInOneTurn
<1>1. Init => PrefetchInv
  <2> SUFFICES ASSUME Init PROVE PrefetchInv
    OBVIOUS
  <2>1. TypeOK
    BY InitIsTyped
  <2>2. Len(messages) = 1 /\ phase = "idle"
    BY DEF Init
  <2> QED BY <2>1, <2>2 DEF PrefetchInv, OneTurn
<1>2. PrefetchInv => SurfacedInOneTurn
  BY DEF PrefetchInv, OneTurn, SurfacedInOneTurn
<1> QED BY <1>1, <1>2, PrefetchStep, PTL DEF Spec

(* What messages tell: the last notice among them, if there is one.           *)
LEMMA ToldIsHeard ==
    ASSUME NEW s \in Seq(MessageType)
    PROVE  /\ Kept(s, Heard) \in Seq(MessageType)
           /\ ToldBy(s) = "none" <=> Kept(s, Heard) = <<>>
           /\ ToldBy(s) # "none" => ToldBy(s) = Kept(s, Heard)[Len(Kept(s, Heard))].says
<1> DEFINE h == Kept(s, Heard)
<1>1. h \in Seq(MessageType \cap Heard) /\ h \in Seq(MessageType)
  BY KeptType
<1>2. ToldBy(s) = IF h = <<>> THEN "none" ELSE h[Len(h)].says
  BY DEF ToldBy, Last
<1> HIDE DEF h
<1>3. ASSUME h # <<>> PROVE h[Len(h)].says # "none"
  <2>1. Len(h) \in 1 .. Len(h)
    BY <1>1, <1>3
  <2>2. h[Len(h)] \in Heard
    BY <1>1, <2>1
  <2> QED BY <2>2 DEF Heard
<1> QED BY <1>1, <1>2, <1>3 DEF h

LEMMA ToldOfConcat ==
    ASSUME NEW s \in Seq(MessageType), NEW t \in Seq(MessageType)
    PROVE  ToldBy(s \o t) = IF ToldBy(t) = "none" THEN ToldBy(s) ELSE ToldBy(t)
<1> DEFINE hs == Kept(s, Heard)
           ht == Kept(t, Heard)
<1>1. hs \in Seq(MessageType) /\ ht \in Seq(MessageType) /\ Kept(s \o t, Heard) = hs \o ht
  <2>1. hs \in Seq(MessageType) /\ ht \in Seq(MessageType)
    BY ToldIsHeard
  <2>2. Kept(s \o t, Heard) = Kept(s, Heard) \o Kept(t, Heard)
    BY KeptConcat
  <2> QED BY <2>1, <2>2
<1>2. ToldBy(s \o t) = IF hs \o ht = <<>> THEN "none" ELSE (hs \o ht)[Len(hs \o ht)].says
  BY <1>1 DEF ToldBy, Last
<1>3. /\ ToldBy(s) = IF hs = <<>> THEN "none" ELSE hs[Len(hs)].says
      /\ ToldBy(t) = IF ht = <<>> THEN "none" ELSE ht[Len(ht)].says
      /\ ToldBy(t) = "none" <=> ht = <<>>
  BY ToldIsHeard DEF ToldBy, Last
<1> HIDE DEF hs, ht
<1>4. CASE ht = <<>>
  <2>1. hs \o ht = hs
    BY <1>1, <1>4
  <2> QED BY <1>2, <1>3, <1>4, <2>1
<1>5. CASE ht # <<>>
  <2>1. hs \o ht # <<>> /\ (hs \o ht)[Len(hs \o ht)] = ht[Len(ht)]
    BY <1>1, <1>5
  <2> QED BY <1>2, <1>3, <1>5, <2>1
<1> QED BY <1>4, <1>5

LEMMA ToldOfOne ==
    ASSUME NEW m \in MessageType
    PROVE  ToldBy(<<m>>) = m.says
<1>1. Kept(<<m>>, Heard) = IF m \in Heard THEN <<m>> ELSE <<>>
  <2>1. <<m>> = Append(<<>>, m) /\ <<>> \in Seq(MessageType)
    OBVIOUS
  <2>2. Kept(Append(<<>>, m), Heard) = IF m \in Heard THEN Append(Kept(<<>>, Heard), m) ELSE Kept(<<>>, Heard)
    BY <2>1, KeptAppend
  <2> QED BY <2>1, <2>2, KeptEmpty
<1> QED BY <1>1 DEF ToldBy, Last, Heard

LEMMA ToldByNone ==
    ASSUME NEW s \in Seq(MessageType), \A i \in 1 .. Len(s) : s[i].says = "none"
    PROVE  ToldBy(s) = "none"
<1>1. \A i \in 1 .. Len(s) : s[i] \notin Heard
  BY DEF Heard
<1>2. Kept(s, Heard) = <<>>
  BY <1>1, KeptNone
<1> QED BY <1>2, ToldIsHeard

(* An attachment says nothing, so a resume, which drops the attachments,      *)
(* forgets nothing that the model was told.                                   *)
Quiet(s) == \A i \in 1 .. Len(s) : s[i].kind = "memory" => s[i].says = "none"

LEMMA ToldByRows ==
    ASSUME NEW s \in Seq(MessageType), Quiet(s)
    PROVE  ToldBy(Kept(s, Rows)) = ToldBy(s)
<1>1. Kept(Kept(s, Rows), Heard) = Kept(s, Rows \cap Heard)
  BY KeptTwice
<1>2. ASSUME NEW i \in 1 .. Len(s) PROVE s[i] \in Rows \cap Heard <=> s[i] \in Heard
  BY DEF Rows, Heard, Quiet
<1>3. Kept(s, Rows \cap Heard) = Kept(s, Heard)
  BY <1>2, KeptAgree
<1> QED BY <1>1, <1>3 DEF ToldBy

LEMMA QuietElements ==
    ASSUME NEW s, NEW t, Quiet(s), \A x \in Elements(t) : x \in Elements(s) \/ x.kind # "memory" \/ x.says = "none"
    PROVE  Quiet(t)
BY DEF Quiet, Elements

(* What is told, or waits to be told with the author's next message, is that  *)
(* unattended mode holds only if it does.                                     *)
Pending == IF notice = "none" THEN Told ELSE notice
ToldInv ==
    /\ TypeOK /\ Quiet(messages)
    /\ phase \in {"turn", "approval", "question"} => notice = "none"
    /\ lost \/ (Pending = "enter" => mode = "unattended")

(* A compaction tells what the mode is, unless later messages said it.        *)
LEMMA ToldOfRebuilt ==
    ASSUME TypeOK, turn' \in Nat, NEW first \in 2 .. Len(messages) + 1
    PROVE  ToldBy(Rebuilt(first)) \in {Told, System(mode).says}
<1> DEFINE head == <<System(mode), Message("summary", "none", "none", {})>>
           tail == SubSeq(messages, first, Len(messages))
           old == SubSeq(messages, 1, first - 1)
<1>1. messages \in Seq(MessageType) /\ Len(messages) \in Nat /\ mode \in Modes
  BY DEF TypeOK
<1>2. tail \in Seq(MessageType) /\ old \in Seq(MessageType)
      /\ Len(old) = first - 1 /\ Len(tail) = Len(messages) + 1 - first
      /\ (\A i \in 1 .. Len(tail) : tail[i] = messages[first + i - 1])
      /\ (\A i \in 1 .. Len(old) : old[i] = messages[i])
  BY <1>1
<1>3. System(mode) \in MessageType /\ Message("summary", "none", "none", {}) \in MessageType
      /\ Message("summary", "none", "none", {}).says = "none"
  <2>1. System(mode) \in MessageType
    BY <1>1 DEF System, MessageType, Modes
  <2>2. Message("summary", "none", "none", {}) \in MessageType
        /\ Message("summary", "none", "none", {}).says = "none"
    BY MessageIsTyped
  <2> QED BY <2>1, <2>2
<1>4. head \in Seq(MessageType) /\ ToldBy(head) = System(mode).says
  <2> DEFINE one == <<System(mode)>>
             two == <<Message("summary", "none", "none", {})>>
  <2>1. one \in Seq(MessageType) /\ two \in Seq(MessageType) /\ head = one \o two
    BY <1>3
  <2>2. ToldBy(one) = System(mode).says /\ ToldBy(two) = "none"
    BY <1>3, ToldOfOne
  <2> HIDE DEF one, two
  <2>3. ToldBy(one \o two) = ToldBy(one)
    BY <2>1, <2>2, ToldOfConcat
  <2>4. ToldBy(head) = ToldBy(one \o two)
    BY <2>1
  <2>5. head \in Seq(MessageType)
    BY <1>3
  <2> HIDE DEF head
  <2> QED BY <2>2, <2>3, <2>4, <2>5
<1>5. messages = old \o tail
  <2> HIDE DEF old, tail
  <2>1. old \o tail \in Seq(MessageType) /\ Len(old \o tail) = Len(messages)
    BY <1>1, <1>2
  <2>2. ASSUME NEW i \in 1 .. Len(messages) PROVE (old \o tail)[i] = messages[i]
    <3>1. CASE i <= first - 1
      <4>1. i \in 1 .. Len(old)
        BY <1>2, <3>1
      <4> QED BY <1>2, <4>1
    <3>2. CASE i > first - 1
      <4>1. i - Len(old) \in 1 .. Len(tail) /\ i - Len(old) = i - first + 1
        BY <1>1, <1>2, <3>2
      <4>2. (old \o tail)[i] = tail[i - Len(old)]
        BY <1>2, <2>1, <3>2
      <4>3. tail[i - Len(old)] = messages[first + (i - first + 1) - 1]
        BY <1>2, <4>1
      <4> QED BY <1>1, <4>2, <4>3
    <3> QED
      <4>1. i \in Nat /\ first \in Nat
        BY <1>1
      <4>2. i <= first - 1 \/ i > first - 1
        BY <4>1
      <4> QED BY <3>1, <3>2, <4>2
  <2> QED BY <1>1, <2>1, <2>2, SeqEqual
<1> HIDE DEF head, tail, old
<1>6. ToldBy(head \o tail) = IF ToldBy(tail) = "none" THEN System(mode).says ELSE ToldBy(tail)
  BY <1>2, <1>4, ToldOfConcat
<1>7. Told = IF ToldBy(tail) = "none" THEN ToldBy(old) ELSE ToldBy(tail)
  BY <1>2, <1>5, ToldOfConcat DEF Told
<1>8. Rebuilt(first) = head \o tail
  BY DEF Rebuilt, head, tail
<1> QED BY <1>6, <1>7, <1>8

LEMMA QuietStep ==
    ASSUME ToldInv, [Next]_vars
    PROVE  Quiet(messages')
<1>1. \A x \in Elements(messages') : x \in Elements(messages) \/ x.kind # "memory" \/ x.says = "none"
  BY ElementsOfStep DEF ToldInv, Plain
<1> QED BY <1>1, QuietElements DEF ToldInv

LEMMA ToldStep == ToldInv /\ [Next]_vars => ToldInv'
<1> SUFFICES ASSUME ToldInv, [Next]_vars PROVE ToldInv'
  OBVIOUS
<1>1. TypeOK /\ TypeOK' /\ Quiet(messages)
  BY TypeStep DEF ToldInv
<1>2. Quiet(messages)'
  BY QuietStep
<1>3. turn' \in Nat
  BY <1>1, CountsStayTyped
<1>4. messages \in Seq(MessageType) /\ Len(messages) \in Nat /\ notice \in {"none", "enter", "exit"}
      /\ mode \in Modes
  BY <1>1 DEF TypeOK
<1> DEFINE InTurn == phase \in {"turn", "approval", "question"} => notice = "none"
           Known == lost \/ (Pending = "enter" => mode = "unattended")
<1>5. InTurn /\ Known
  BY DEF ToldInv
<1>6. InTurn' /\ Known'
  <2>1. CASE StartTurn
    <3> DEFINE m == Message("author", notice, "none", {})
    <3>1. m \in MessageType /\ m.says = notice
      BY <1>3, <1>4, MessageIsTyped
    <3>2. messages' = messages \o <<m>> /\ <<m>> \in Seq(MessageType)
      BY <1>4, <2>1, <3>1 DEF StartTurn
    <3>3. ToldBy(<<m>>) = notice
      BY <3>1, ToldOfOne
    <3> HIDE DEF m
    <3>4. ToldBy(messages') = IF notice = "none" THEN Told ELSE notice
      BY <1>4, <3>2, <3>3, ToldOfConcat DEF Told
    <3>5. Told' = Pending
      BY <3>4 DEF Told, Pending
    <3>6. mode' = mode /\ lost' = lost /\ notice' = "none"
      BY <2>1 DEF StartTurn
    <3> QED BY <1>5, <3>5, <3>6 DEF Pending
  <2>2. CASE Compact
    <3>1. PICK first \in {i \in 2 .. Len(messages) : messages[i].kind \in {"author", "memory"}} \cup {Len(messages) + 1} :
             messages' = Rebuilt(first)
      BY <2>2 DEF Compact
    <3>2. Len(messages) >= 1
      BY <1>1, <1>4 DEF TypeOK
    <3>3. first \in 2 .. Len(messages) + 1
      BY <1>4, <3>1, <3>2
    <3>4. Told' \in {Told, System(mode).says}
      BY <1>1, <1>3, <3>1, <3>3, ToldOfRebuilt DEF Told
    <3>5. System(mode).says = "enter" => mode = "unattended"
      BY DEF System
    <3>6. phase = "turn" /\ UNCHANGED <<phase, mode, notice, lost>>
      BY <2>2 DEF Compact, session
    <3> QED BY <1>5, <3>4, <3>5, <3>6 DEF Pending
  <2>3. CASE TurnAsksApproval \/ TurnAsksAuthor \/ TurnCompletes \/ TurnIsCut
    <3>1. PICK calls, next : calls \subseteq SUBSET {"wrote", "asked"} /\ LoopReturns(next, calls)
      BY <2>3, LoopReturnsWith
    <3>2. PICK does \in calls, found \in Attached(prefetch) :
             messages' = messages \o <<Message("reply", "none", "none", does)>> \o found
      BY <3>1 DEF LoopReturns
    <3> DEFINE m == Message("reply", "none", "none", does)
    <3>3. m \in MessageType /\ m.says = "none"
      BY <1>3, <3>1, <3>2, MessageIsTyped
    <3>4. found \in Seq(MessageType) /\ \A i \in 1 .. Len(found) : found[i].says = "none"
      <4>1. prefetch \subseteq Files
        BY <1>1 DEF TypeOK
      <4> QED BY <1>3, <3>2, <4>1, AttachedIsTyped
    <3>5. ToldBy(found) = "none" /\ ToldBy(<<m>>) = "none"
      BY <3>3, <3>4, ToldByNone, ToldOfOne
    <3> HIDE DEF m
    <3>6. <<m>> \in Seq(MessageType) /\ messages \o <<m>> \in Seq(MessageType)
      BY <1>4, <3>3
    <3>7. ToldBy(messages \o <<m>>) = Told /\ ToldBy((messages \o <<m>>) \o found) = ToldBy(messages \o <<m>>)
      BY <1>4, <3>4, <3>5, <3>6, ToldOfConcat DEF Told
    <3>8. Told' = Told
      BY <3>2, <3>7 DEF Told, m
    <3>9. phase = "turn" /\ UNCHANGED <<mode, notice, lost>>
      BY <3>1 DEF LoopReturns, session
    <3> QED BY <1>5, <3>8, <3>9 DEF Pending
  <2>4. CASE Reopen
    <3>1. ToldBy(messages') = ToldBy(messages)
      BY <1>1, <1>4, <2>4, ToldByRows DEF Reopen, Rows
    <3>2. /\ notice' = "none" /\ phase' = "idle" /\ mode' = ModeOnResume
          /\ lost' = (lost \/ notice # "none" \/ ModeOnResume # mode)
      BY <2>4 DEF Reopen
    <3>3. Told' = Told
      BY <3>1 DEF Told
    <3> QED BY <1>5, <3>2, <3>3 DEF Pending
  <2>5. CASE ApplyMode
    <3>1. Told' = Told /\ UNCHANGED <<phase, lost>> /\ asked \in Modes
      BY <1>1, <2>5 DEF ApplyMode, Told, TypeOK
    <3>2. CASE asked = mode \/ TurnInProgress
      BY <1>5, <2>5, <3>1, <3>2 DEF ApplyMode, Pending
    <3>3. CASE ~(asked = mode \/ TurnInProgress)
      <4>1. notice' = NoticeAfter(asked) /\ mode' = asked /\ phase = "idle"
        BY <2>5, <3>3 DEF ApplyMode, TurnInProgress
      <4>2. CASE asked = "unattended"
        BY <3>1, <4>1, <4>2
      <4>3. CASE asked # "unattended"
        <5>1. mode = "unattended"
          BY <1>4, <3>1, <3>3, <4>3 DEF Modes
        <5>2. NoticeAfter(asked) = "exit"
          <6>1. ~Entering(asked) /\ Leaving(asked)
            BY <4>3, <5>1 DEF Leaving, Entering
          <6> QED BY <6>1 DEF NoticeAfter, Cleared
        <5> QED BY <3>1, <4>1, <5>2 DEF Pending
      <4> QED BY <4>2, <4>3
    <3> QED BY <3>2, <3>3
  <2>6. CASE (\E m \in Modes : AskMode(m)) \/ TurnGoesOn \/ TurnFails \/ UNCHANGED vars
    <3>1. messages' = messages /\ UNCHANGED <<mode, notice, lost>> /\ InTurn'
      BY <1>5, <2>6 DEF AskMode, TurnGoesOn, TurnFails, TurnInProgress, vars, session
    <3>2. Told' = Told
      BY <3>1 DEF Told
    <3> QED BY <1>5, <3>1, <3>2 DEF Pending
  <2>7. CASE EngineExtraction \/ \E t \in tasks : TaskStep(t)
    <3>1. Extracting
      BY <2>7, TasksLeaveTheSession
    <3>2. messages' = messages /\ UNCHANGED <<mode, notice, lost>>
      BY <3>1 DEF Extracting, session
    <3>3. phase' = phase \/ phase' \notin {"turn", "approval", "question"}
      BY <2>7, TasksLeaveTheSession DEF EngineExtraction, ReadCursor, SkipExtraction, LoadFlag, Coalesce, Spawn, SwapLost
    <3>4. Told' = Told
      BY <3>2 DEF Told
    <3> QED BY <1>5, <3>2, <3>3, <3>4 DEF Pending
  <2> QED BY <2>1, <2>2, <2>3, <2>4, <2>5, <2>6, <2>7 DEF Next
<1> QED BY <1>1, <1>2, <1>6 DEF ToldInv

(* While a turn runs, what the messages last told the model about unattended  *)
(* mode is not that it holds when it does not: through every change of the    *)
(* mode, compaction and resume, unless an end of the engine took a notice or  *)
(* an unsaved mode along (plan_mode_transition, permission_prefix_action).    *)
THEOREM TheModelIsToldTheMode == Spec => []ToldOnlyWhenUnattended
<1>1. Init => ToldInv
  <2> SUFFICES ASSUME Init PROVE ToldInv
    OBVIOUS
  <2>1. TypeOK
    BY InitIsTyped
  <2>2. Len(messages) = 1 /\ messages[1] = System(mode) /\ phase = "idle" /\ notice = "none"
        /\ messages = <<System(mode)>> /\ mode \in Modes
    BY DEF Init
  <2>3. Quiet(messages)
    BY <2>2 DEF Quiet, System
  <2>4. System(mode) \in MessageType
    BY <2>2 DEF System, MessageType, Modes
  <2>5. Told = System(mode).says
    BY <2>2, <2>4, ToldOfOne DEF Told
  <2> QED BY <2>1, <2>2, <2>3, <2>5 DEF ToldInv, Pending, System
<1>2. ToldInv => ToldOnlyWhenUnattended
  BY DEF ToldInv, ToldOnlyWhenUnattended, Pending
<1> QED BY <1>1, <1>2, ToldStep, PTL DEF Spec
==============================================================================
