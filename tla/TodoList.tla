------------------------------ MODULE TodoList ------------------------------
(***************************************************************************)
(* The todos of a session (novel-state todo.rs): calls of TodoWrite, which *)
(* run side by side in a batch, and the author, who cycles the status of a *)
(* todo in the status bar (update_session_todo), write the same rows; the  *)
(* status bar shows what events and answers of get_app_status bring.       *)
(*                                                                         *)
(* A writer reads the list and checks its change, then deletes and inserts *)
(* in statements of their own: there is no transaction.  A todo is its id  *)
(* and status, the wording is left out.                                    *)
(***************************************************************************)
EXTENDS Integers, Sequences, FiniteSets, SequencesExt, FiniteSetsExt, Subsequences

CONSTANTS
  TodoIds,    \* numbers, in the order of the ids
  Tools,      \* calls of TodoWrite that may run at once
  Author,
  TodoBatches,          \* lists that a call may bring
  MaxCalls, MaxCycles   \* bounds on what tools and author do

(* What a click in the status bar makes of a status.                       *)
Cycled == [pending |-> "in_progress", in_progress |-> "completed",
           completed |-> "pending", cancelled |-> "pending"]
Todo == [id : TodoIds, status : DOMAIN Cycled]

ASSUME TodoBounds ==
  /\ TodoIds \subseteq Nat /\ Author \notin Tools /\ TodoBatches \subseteq Seq(Todo)
  /\ MaxCalls \in Nat /\ MaxCycles \in Nat

VARIABLES
  todoRows,   \* by id: position and status of its row
  writer,     \* by writer: where it is
  events,     \* lists on the engine's channel to the UI
  answer,     \* the list in an answer of get_app_status on its way
  bar,        \* the list that the status bar shows
  meant,      \* history: the list if each write took effect at once
  troubled,   \* history: whether writes overlapped or one failed
  overtaken,  \* history: whether news for the status bar came out of order
  calls, cycles

todoVars == <<todoRows, writer, events, answer, bar, meant, troubled, overtaken, calls, cycles>>

Writers == Tools \cup {Author}
Idle == [phase |-> "idle"]
Done == [phase |-> "done"]
NoAnswer == [on |-> FALSE]
InWrite(w) == writer[w].phase \in {"delete", "find", "put"}

(* list_todos: by position, then by id.                                    *)
Before(rows, id) ==
  {other \in DOMAIN rows : \/ rows[other].position < rows[id].position
                           \/ rows[other].position = rows[id].position /\ other < id}
IdAt(rows, i) == CHOOSE id \in DOMAIN rows : Cardinality(Before(rows, id)) = i - 1
TodosIn(rows) == [i \in 1 .. Cardinality(DOMAIN rows) |->
                    [id |-> IdAt(rows, i), status |-> rows[IdAt(rows, i)].status]]
IdsIn(list) == {list[i].id : i \in DOMAIN list}
LastIn(list, id) == list[Max({i \in DOMAIN list : list[i].id = id})]

(* What a write without replace applies, the list it leads to, the check.  *)
Applicable(existing, incoming, replace) ==
  IF replace THEN incoming
  ELSE Kept(incoming, {t \in ToSet(incoming) : t.id \in IdsIn(existing)})
Projected(existing, incoming, replace) ==
  IF replace THEN incoming
  ELSE [i \in DOMAIN existing |-> IF existing[i].id \in IdsIn(incoming)
                                  THEN LastIn(incoming, existing[i].id) ELSE existing[i]]
InProgress(list) == Cardinality({i \in DOMAIN list : list[i].status = "in_progress"})
IsValid_Incoming(existing, incoming, replace) == InProgress(incoming) <= 1
IsValid(existing, incoming, replace) == InProgress(Projected(existing, incoming, replace)) <= 1

(* An id that a batch names twice keeps the first place and the last word. *)
Once(list) ==
  LET firsts == Kept([i \in DOMAIN list |-> i],
                     {i \in DOMAIN list : \A j \in 1 .. i - 1 : list[j].id # list[i].id})
  IN [i \in DOMAIN firsts |-> LastIn(list, list[firsts[i]].id)]

TodosInit ==
  /\ todoRows = <<>> /\ writer = [w \in Writers |-> Idle]
  /\ events = <<>> /\ answer = NoAnswer /\ bar = <<>>
  /\ meant = <<>> /\ troubled = FALSE /\ overtaken = FALSE /\ calls = 0 /\ cycles = 0

---------------------------------------------------------------------------
Begins(w, todos, replace) ==
  /\ writer' = [writer EXCEPT ![w] =
       [phase |-> IF replace THEN "delete" ELSE "find", todos |-> todos, replace |-> replace, at |-> 1]]
  /\ troubled' = (troubled \/ \E v \in Writers \ {w} : InWrite(v))

(* TodoWrite: read, partition, check; nothing to apply or a list that is   *)
(* not valid is a result at once.                                          *)
CallTodoWrite(w, todos, replace) ==
  LET existing == TodosIn(todoRows)
      apply == Applicable(existing, todos, replace)
  IN /\ w \in Tools /\ writer[w] = Idle /\ calls < MaxCalls /\ calls' = calls + 1
     /\ IF apply = <<>> \/ ~IsValid(existing, apply, replace)
        THEN writer' = [writer EXCEPT ![w] = Done] /\ UNCHANGED troubled
        ELSE Begins(w, apply, replace)
     /\ UNCHANGED <<todoRows, events, answer, bar, meant, overtaken, cycles>>

(* The author cycles a todo as the status bar shows it; one that is gone   *)
(* or would be a second in progress is refused.                            *)
Cycle(id) ==
  /\ writer[Author] = Idle /\ cycles < MaxCycles /\ id \in IdsIn(bar)
  /\ cycles' = cycles + 1
  /\ LET update == <<[id |-> id, status |-> Cycled[LastIn(bar, id).status]]>>
     IN IF id \in DOMAIN todoRows /\ IsValid(TodosIn(todoRows), update, FALSE)
        THEN Begins(Author, update, FALSE)
        ELSE UNCHANGED <<writer, troubled>>
  /\ UNCHANGED <<todoRows, events, answer, bar, meant, overtaken, calls>>

(* upsert_todos, a statement at a time.                                    *)
Delete(w) ==
  /\ writer[w].phase = "delete"
  /\ todoRows' = <<>>
  /\ writer' = [writer EXCEPT ![w].phase = "find"]
  /\ UNCHANGED <<events, answer, bar, meant, troubled, overtaken, calls, cycles>>
FindPosition(w) ==
  LET me == writer[w] IN
  /\ me.phase = "find" /\ me.at <= Len(me.todos)
  /\ LET id == me.todos[me.at].id
         next(p) == [phase |-> "put", todos |-> me.todos, replace |-> me.replace, at |-> me.at, position |-> p]
     IN writer' = [writer EXCEPT ![w] =
          CASE me.replace -> next(me.at - 1)
            [] ~me.replace /\ id \in DOMAIN todoRows -> next(todoRows[id].position)
            [] OTHER -> [me EXCEPT !.at = me.at + 1]]
  /\ UNCHANGED <<todoRows, events, answer, bar, meant, troubled, overtaken, calls, cycles>>
Insert(w) ==
  LET me == writer[w]
      todo == me.todos[me.at]
      position == IF todo.id \in DOMAIN todoRows THEN todoRows[todo.id].position ELSE me.position
  IN /\ me.phase = "put"
     /\ todoRows' = [i \in DOMAIN todoRows \cup {todo.id} |->
          IF i = todo.id THEN [position |-> position, status |-> todo.status] ELSE todoRows[i]]
     /\ writer' = [writer EXCEPT ![w] =
          [phase |-> "find", todos |-> me.todos, replace |-> me.replace, at |-> me.at + 1]]
     /\ UNCHANGED <<events, answer, bar, meant, troubled, overtaken, calls, cycles>>
EndWrite(w) ==
  LET me == writer[w] IN
  /\ me.phase = "find" /\ me.at > Len(me.todos)
  /\ meant' = Once(Projected(meant, me.todos, me.replace))
  /\ writer' = [writer EXCEPT ![w] = Done]
  /\ UNCHANGED <<todoRows, events, answer, bar, troubled, overtaken, calls, cycles>>

(* A statement fails; the author is told of the error, not of the list.    *)
FailWrite(w) ==
  /\ InWrite(w)
  /\ writer' = [writer EXCEPT ![w] = IF w = Author THEN Idle ELSE Done]
  /\ troubled' = TRUE
  /\ overtaken' = (overtaken \/ w = Author)
  /\ UNCHANGED <<todoRows, events, answer, bar, meant, calls, cycles>>

---------------------------------------------------------------------------
(* The list is read anew for the event: on the engine's channel after the  *)
(* result of a call, straight to the UI after the author's update.         *)
TellTool(w) ==
  /\ w \in Tools /\ writer[w] = Done
  /\ events' = Append(events, TodosIn(todoRows))
  /\ writer' = [writer EXCEPT ![w] = Idle]
  /\ UNCHANGED <<todoRows, answer, bar, meant, troubled, overtaken, calls, cycles>>
TellAuthor ==
  /\ writer[Author] = Done
  /\ bar' = TodosIn(todoRows)
  /\ overtaken' = (overtaken \/ events # <<>> \/ answer # NoAnswer)
  /\ writer' = [writer EXCEPT ![Author] = Idle]
  /\ UNCHANGED <<todoRows, events, answer, meant, troubled, calls, cycles>>
HearTodos ==
  /\ events # <<>>
  /\ bar' = Head(events) /\ events' = Tail(events)
  /\ overtaken' = (overtaken \/ answer # NoAnswer)
  /\ UNCHANGED <<todoRows, writer, answer, meant, troubled, calls, cycles>>

(* get_app_status waits for the engine, which is idle then.                *)
ReadStatus ==
  /\ answer = NoAnswer /\ \A w \in Tools : writer[w] = Idle
  /\ answer' = [on |-> TRUE, list |-> TodosIn(todoRows)]
  /\ UNCHANGED <<todoRows, writer, events, bar, meant, troubled, overtaken, calls, cycles>>
Refresh ==
  /\ answer # NoAnswer
  /\ bar' = answer.list /\ answer' = NoAnswer
  /\ UNCHANGED <<todoRows, writer, events, meant, troubled, overtaken, calls, cycles>>

WriterStep(w) ==
  Delete(w) \/ FindPosition(w) \/ Insert(w) \/ EndWrite(w) \/ FailWrite(w)
TodoNext ==
  \/ \E w \in Tools, todos \in TodoBatches, replace \in BOOLEAN : CallTodoWrite(w, todos, replace)
  \/ \E id \in TodoIds : Cycle(id)
  \/ \E w \in Writers : WriterStep(w) \/ TellTool(w)
  \/ TellAuthor \/ HearTodos \/ ReadStatus \/ Refresh
TodoSpec == TodosInit /\ [][TodoNext]_todoVars

---------------------------------------------------------------------------
(* While writes neither overlap nor fail, the statements of upsert_todos   *)
(* leave the list that validate_todo_upsert has checked, in the order of   *)
(* its batch and with at most one todo in progress.  Once nothing is under *)
(* way, the status bar shows the rows, unless news overtook other news,    *)
(* however the writes overlapped.                                          *)
TodosAreKept ==
  /\ ~troubled /\ (\A w \in Writers : ~InWrite(w)) =>
       TodosIn(todoRows) = meant /\ InProgress(meant) <= 1
  /\ (\A w \in Writers : writer[w] = Idle) /\ events = <<>> /\ answer = NoAnswer /\ ~overtaken =>
       bar = TodosIn(todoRows)
=============================================================================
