---------------------------- MODULE SessionStore ----------------------------
(* One session in the database of novel-state and in the memory of the agent  *)
(* engine: how messages get their rows, how a compaction archives and         *)
(* rewrites them (novel-core turn/loop/compaction.rs, novel-compaction), and  *)
(* what a restart brings back.  A message is written under the key (turn      *)
(* number, sequence), which is unique; while a turn runs the engine counts    *)
(* the keys up, a compaction counts them anew over the whole transcript.      *)
(*                                                                            *)
(* Left out: the text of messages and the count of tokens (a response may or  *)
(* may not exceed the threshold, a rebuilt session may or may not fit), the   *)
(* skills and the read cache carried over a compaction.                       *)
EXTENDS Integers, Sequences, FiniteSets, SequencesExt, FiniteSetsExt, Subsequences

CONSTANTS
    KeepTurns,     \* RetainPolicy::recent_react_turns
    MaxFailures,   \* MAX_CONSECUTIVE_COMPACTION_FAILURES
    MaxMessages,   \* bound: messages added to the session
    MaxEpochs,     \* bound: compactions begun
    MaxFaults,     \* bound: failed writes to the database
    MaxCrashes     \* bound: ends of the process

ASSUME StoreAssumption ==
    /\ KeepTurns \in Nat \ {0} /\ MaxFailures \in Nat \ {0}
    /\ MaxMessages \in Nat /\ MaxEpochs \in Nat /\ MaxFaults \in Nat /\ MaxCrashes \in Nat

VARIABLES
    \* AgentEngine
    messages, turn,
    seqNo,         \* turn_message_seq
    paused,        \* an approval or a question is pending
    attachable,    \* the command that runs is SendMessage
    over,          \* last_context_tokens is at the threshold
    failCount,     \* compaction_fail_count
    \* where the engine is
    pc,            \* "down", "idle", "run", or a step of a compaction
    draft,         \* the compaction at work: the rebuilt session
    \* the database
    rows,          \* table messages
    archive,       \* table message_archive: rows, with the epoch of their copy
    epoch,         \* metadata: compaction_count
    retained,      \* metadata: compaction_epochs, the turns kept by each
    \* the environment
    nextId, author, faults, crashes

engine == <<messages, turn, seqNo, paused, attachable, over, failCount>>
database == <<rows, archive, epoch, retained>>
env == <<nextId, author, faults, crashes>>
vars == <<engine, pc, draft, database, env>>

\* A message: its kind, its identity, the prompt of the author that led to it,
\* and, for a "[context refresh]" message, the messages its summary is made of.
Message(kind, id, owner, covers) ==
    [kind |-> kind, id |-> id, owner |-> owner, covers |-> covers]

System == Message("system", 0, 0, {})
Refresh(covers) == Message("refresh", 0, 0, covers)

Row(t, s, m) == [turn |-> t, seq |-> s, msg |-> m]

Init ==
    /\ messages = <<System>> /\ turn = 0 /\ seqNo = 0
    /\ paused = FALSE /\ attachable = FALSE
    /\ over = FALSE /\ failCount = 0
    /\ pc = "idle" /\ draft = <<>>
    /\ rows = {Row(0, 0, System)} /\ archive = {} /\ epoch = 0 /\ retained = {}
    /\ nextId = 1 /\ author = 0 /\ faults = 0 /\ crashes = 0

-----------------------------------------------------------------------------
(* The messages of a turn *)

IsFree(t, s) == ~\E r \in rows : r.turn = t /\ r.seq = s

\* Database::insert_message: the key is UNIQUE, and any write may fail.
Insert(t, s, m) == IsFree(t, s) /\ rows' = rows \cup {Row(t, s, m)} /\ UNCHANGED faults

InsertFails(t, s) ==
    /\ IF IsFree(t, s) THEN faults < MaxFaults /\ faults' = faults + 1 ELSE UNCHANGED faults
    /\ UNCHANGED rows

\* The next message of this kind, of the turn that runs.
Fresh(kind) == Message(kind, nextId, author', {})

CanAdd == nextId <= MaxMessages /\ nextId' = nextId + 1

\* handle_message_with_events: the prompt is in memory before it has its row.
Prompt ==
    /\ pc = "idle" /\ CanAdd
    /\ author' = author + 1
    /\ turn' = turn + 1
    /\ messages' = Append(messages, Fresh("prompt"))
    /\ seqNo' = 0 /\ paused' = FALSE
    /\ \/ Insert(turn', 0, Fresh("prompt")) /\ pc' = "run"
       \/ InsertFails(turn', 0) /\ UNCHANGED pc
    /\ attachable' = (pc' = "run")
    /\ UNCHANGED <<over, failCount, draft, archive, epoch, retained, crashes>>

\* persist_message_alloc, then the push: a "reply" is an assistant message, a tool
\* result or the report of a sub-agent, none of which starts a turn; a "nudge" is
\* a hidden prompt.  A failure ends the command, with or without approvals that
\* the response had put up.
Record(kind) ==
    /\ pc = "run" /\ CanAdd
    /\ UNCHANGED author
    /\ seqNo' = seqNo + 1
    /\ \/ /\ Insert(turn, seqNo', Fresh(kind))
          /\ messages' = Append(messages, Fresh(kind))
          /\ UNCHANGED <<pc, paused, attachable>>
       \/ /\ InsertFails(turn, seqNo')
          /\ pc' = "idle"
          /\ paused' \in BOOLEAN /\ attachable' = FALSE
          /\ UNCHANGED messages
    /\ UNCHANGED <<turn, over, failCount, draft, archive, epoch, retained,
                   crashes>>

\* A response has come: its tokens are compared with the threshold.
Measure(tokens) ==
    /\ pc = "run"
    /\ over' = tokens
    /\ pc' = IF tokens THEN "check" ELSE "run"
    /\ UNCHANGED <<messages, turn, seqNo, paused, attachable, failCount, draft, database, env>>

\* The report of a sub-agent was recorded: the last response is looked at again.
MeasureAgain ==
    /\ pc = "run" /\ over /\ Last(messages).kind = "reply"
    /\ pc' = "check"
    /\ UNCHANGED <<engine, draft, database, env>>

\* The command ends: the turn is over or paused for the author.  After
\* SendMessage a memory attachment may join the transcript; it gets no row.
EndCommand(attach) ==
    /\ pc = "run"
    /\ pc' = "idle"
    /\ paused' \in BOOLEAN /\ attachable' = FALSE
    /\ attach => attachable
    /\ IF attach
       THEN CanAdd /\ messages' = Append(messages, Message("memory", nextId, author, {}))
       ELSE UNCHANGED <<messages, nextId>>
    /\ UNCHANGED <<turn, seqNo, over, failCount, draft, database, author, faults, crashes>>

\* init_turn_message_seq_from_db.
LastSeq(rs) == Max({0} \cup { r.seq : r \in { q \in rs : q.turn = turn } })

\* approve_tool or deny_tool: the result is recorded; the turn goes on when it
\* was the last one the author was asked for.
Approve ==
    /\ pc = "idle" /\ paused /\ CanAdd
    /\ UNCHANGED author
    /\ \/ /\ Insert(turn, seqNo + 1, Fresh("reply"))
          /\ messages' = Append(messages, Fresh("reply"))
          /\ \/ seqNo' = seqNo + 1 /\ UNCHANGED <<pc, paused>>
             \/ seqNo' = LastSeq(rows') /\ pc' = "run" /\ paused' = FALSE
       \/ /\ InsertFails(turn, seqNo + 1)
          /\ seqNo' = seqNo + 1
          /\ paused' \in BOOLEAN
          /\ UNCHANGED <<messages, pc>>
    /\ UNCHANGED <<turn, attachable, over, failCount, draft, archive, epoch, retained,
                   crashes>>

\* answer_question: the answer replaces the stub in memory, the turn goes on.
Answer ==
    /\ pc = "idle" /\ paused
    /\ seqNo' = LastSeq(rows)
    /\ pc' = "run" /\ paused' = FALSE
    /\ UNCHANGED <<messages, turn, attachable, over, failCount, draft, database, env>>

-----------------------------------------------------------------------------
(* The two ways to count turns *)

\* Mutant of StartsTurn: the summary starts a turn.
StartsTurn_Refresh(m) == m.kind \in {"prompt", "nudge", "memory", "refresh"}

\* assign_message_turn_seq: what starts a turn for the numbering of rows.
StartsTurn(m) == m.kind \in {"prompt", "nudge", "memory"}

\* is_user_turn_start: what starts a turn for the partition.
StartsUserTurn(m) == m.kind \in {"prompt", "nudge"}

\* build_message_rows_from.
NumberedTurn(ms, i) == Cardinality({ j \in 1 .. i : StartsTurn(ms[j]) })

NumberedSeq(ms, i) ==
    LET from == Max({1} \cup { j \in 1 .. i : StartsTurn(ms[j]) })
    IN  Cardinality({ j \in (from + 1) .. i : ms[j].kind # "refresh" })

Numbered(ms) ==
    { IF ms[i].kind = "refresh" THEN Row(0, 1, ms[i])
      ELSE Row(NumberedTurn(ms, i), NumberedSeq(ms, i), ms[i]) : i \in DOMAIN ms }

HasUniqueKeys(rs) ==
    \A r, q \in rs : r.turn = q.turn /\ r.seq = q.seq => r = q

-----------------------------------------------------------------------------
(* compact_and_sync *)

\* The starts of the user turns of a list.
UserTurns(ms) == { i \in DOMAIN ms : StartsUserTurn(ms[i]) }

\* Where the last t user turns of a list begin; past its end when there are none.
TurnsFrom(ms, t) ==
    Min({Len(ms) + 1} \cup
        { i \in UserTurns(ms) : Cardinality({ j \in UserTurns(ms) : i <= j }) <= t })

BodyStart == IF Len(messages) >= 2 /\ messages[2].kind = "refresh" THEN 3 ELSE 2

\* partition_messages: what is kept starts KeepTurns user turns from the end;
\* with no more turns than that, nothing is summarised.
RetainFrom ==
    IF Cardinality(UserTurns(messages)) <= KeepTurns THEN BodyStart
    ELSE TurnsFrom(messages, KeepTurns)

\* shrink_retain_tail: the last t user turns of a list.
LastTurns(ms, t) == SubSeq(ms, TurnsFrom(ms, t), Len(ms))

\* rebuild_session_under_budget: turns are dropped, oldest first, until the
\* session fits.
Retains ==
    LET all == SubSeq(messages, RetainFrom, Len(messages))
    IN  {all} \cup { LastTurns(all, t) : t \in 0 .. (KeepTurns - 1) }

\* What a message stands for: itself, or what its summary was made of.
Told(m) == {m.id} \cup m.covers
Ids(S) == { m.id : m \in S }
IdsOf(ms) == Ids(Range(ms))

\* generate_summary_text: the LLM reads the session up to RetainFrom; the
\* fallback, taken after an abort or an error too, the part to be summarised.
Summaries ==
    LET read == SubSeq(messages, 1, RetainFrom - 1)
        part == SubSeq(messages, BodyStart, RetainFrom - 1)
    IN  {IdsOf(part)} \cup
        (IF Len(read) >= 2 THEN {UNION { Told(m) : m \in Range(read) }} ELSE {})

\* An open breaker or an abort skips the compaction; else the session is
\* rebuilt with one of the summaries, to one of the sizes.  (The code rebuilds
\* after the archive; nothing that it reads changes in between.)
Skip ==
    /\ pc = "check"
    /\ pc' = "run"
    /\ UNCHANGED <<engine, draft, database, env>>

Rebuild ==
    /\ pc = "check" /\ failCount < MaxFailures
    /\ epoch < MaxEpochs
    /\ \E covers \in Summaries, kept \in Retains :
          draft' = <<System, Refresh(covers)>> \o kept
    /\ pc' = "epoch"
    /\ UNCHANGED <<engine, database, env>>

\* Mutant of Abandon: the transcript in memory is replaced before the rows.
Abandon_MemoryFirst ==
    /\ messages' = IF pc = "commit" THEN draft ELSE messages
    /\ failCount' = failCount + 1
    /\ draft' = <<>>
    /\ pc' = "run"
    /\ UNCHANGED <<turn, seqNo, paused, attachable, over, database, nextId, author, crashes>>

\* A write fails: compact_with_events counts it, the turn goes on.
Abandon ==
    /\ failCount' = failCount + 1
    /\ draft' = <<>>
    /\ pc' = "run"
    /\ UNCHANGED <<messages, turn, seqNo, paused, attachable, over, database, nextId, author, crashes>>

\* The database refuses, what is kept is too large even so (after the archive),
\* or two rows of the rebuilt session have one key.
CompactionFails ==
    /\ pc \in {"epoch", "archive", "bounds", "commit"}
    /\ \/ faults < MaxFaults /\ faults' = faults + 1
       \/ pc = "bounds" /\ UNCHANGED faults
       \/ pc = "commit" /\ ~HasUniqueKeys(Numbered(draft)) /\ UNCHANGED faults
    /\ Abandon

\* Mutant of IncrementEpoch: the counter is not written.
IncrementEpoch_NotWritten ==
    /\ pc = "epoch"
    /\ pc' = "archive"
    /\ UNCHANGED <<engine, draft, rows, archive, epoch, retained, env>>

IncrementEpoch ==
    /\ pc = "epoch"
    /\ epoch' = epoch + 1
    /\ pc' = "archive"
    /\ UNCHANGED <<engine, draft, rows, archive, retained, env>>

\* Mutant of Archive: the turn that runs is not copied.
Archive_OlderTurns ==
    /\ pc = "archive"
    /\ archive' = archive \cup { [epoch |-> epoch, row |-> r] : r \in { q \in rows : q.turn < turn } }
    /\ pc' = "bounds"
    /\ UNCHANGED <<engine, draft, rows, epoch, retained, env>>

\* archive_session_messages: one transaction.
Archive ==
    /\ pc = "archive"
    /\ archive' = archive \cup { [epoch |-> epoch, row |-> r] : r \in rows }
    /\ pc' = "bounds"
    /\ UNCHANGED <<engine, draft, rows, epoch, retained, env>>

\* compaction_retained_turn_bounds: the turns of what is kept, in the numbering
\* of the transcript before.
KeptTurns ==
    LET kept == Cardinality(UserTurns(SubSeq(draft, 3, Len(draft))))
    IN  { NumberedTurn(messages, i) : i \in TurnsFrom(messages, kept) .. Len(messages) }

RecordBounds ==
    /\ pc = "bounds"
    /\ retained' = retained \cup
          (IF KeptTurns = {} THEN {}
           ELSE {[epoch |-> epoch, min |-> Min(KeptTurns), max |-> Max(KeptTurns)]})
    /\ pc' = "commit"
    /\ UNCHANGED <<engine, draft, rows, archive, epoch, env>>

\* commit_message_slice: all rows are replaced in one transaction, then the
\* transcript in memory.  The turn number of the engine stays.
CommitSlice ==
    /\ pc = "commit" /\ HasUniqueKeys(Numbered(draft))
    /\ rows' = Numbered(draft)
    /\ messages' = draft
    /\ draft' = <<>>
    /\ pc' = "run"
    /\ UNCHANGED <<turn, seqNo, paused, attachable, archive, epoch, retained, nextId,
                   author, crashes>>

Commit ==
    /\ CommitSlice
    /\ over' = FALSE /\ failCount' = 0
    /\ UNCHANGED faults

\* The rows cannot be read back for the read cache: a failure is counted though
\* the session is replaced, and the threshold stays exceeded.
CommitUnread ==
    /\ CommitSlice
    /\ faults < MaxFaults /\ faults' = faults + 1
    /\ failCount' = failCount + 1
    /\ UNCHANGED over

-----------------------------------------------------------------------------
(* The process ends, at any step, and the session is resumed *)

Crash ==
    /\ pc # "down" /\ crashes < MaxCrashes
    /\ crashes' = crashes + 1
    /\ pc' = "down"
    /\ messages' = <<>> /\ turn' = 0 /\ seqNo' = 0
    /\ paused' = FALSE /\ attachable' = FALSE
    /\ over' = FALSE /\ failCount' = 0 /\ draft' = <<>>
    /\ UNCHANGED <<database, nextId, author, faults>>

\* get_session_messages: ORDER BY turn_number, sequence.
Precedes(r, q) == r.turn < q.turn \/ (r.turn = q.turn /\ r.seq < q.seq)
Before(r) == Cardinality({ q \in rows : Precedes(q, r) })

Stored == [i \in 1 .. Cardinality(rows) |-> (CHOOSE r \in rows : Before(r) = i - 1).msg]

\* resume_with_abort.
Resume ==
    /\ pc = "down"
    /\ messages' = Stored
    /\ turn' = Max({ r.turn : r \in rows })
    /\ pc' = "idle"
    /\ UNCHANGED <<seqNo, paused, attachable, over, failCount, draft, database, env>>

-----------------------------------------------------------------------------
RecordMessage == \E kind \in {"reply", "nudge"} : Record(kind)

Next ==
    \/ Prompt \/ RecordMessage \/ Approve \/ Answer
    \/ \E tokens \in BOOLEAN : Measure(tokens)
    \/ MeasureAgain
    \/ \E attach \in BOOLEAN : EndCommand(attach)
    \/ Skip \/ Rebuild \/ CompactionFails
    \/ IncrementEpoch \/ Archive \/ RecordBounds \/ Commit \/ CommitUnread
    \/ Crash \/ Resume

Spec == Init /\ [][Next]_vars

-----------------------------------------------------------------------------
Kinds == {"system", "refresh", "prompt", "nudge", "memory", "reply"}

MessageType == [kind : Kinds, id : 0 .. MaxMessages, owner : Nat, covers : SUBSET (0 .. MaxMessages)]
RowType == [turn : Nat, seq : Nat, msg : MessageType]

TypeOK ==
    /\ messages \in Seq(MessageType) /\ draft \in Seq(MessageType)
    /\ turn \in Nat /\ seqNo \in Nat /\ failCount \in 0 .. MaxFailures
    /\ paused \in BOOLEAN /\ attachable \in BOOLEAN /\ over \in BOOLEAN
    /\ pc \in {"down", "idle", "run", "check", "epoch", "archive", "bounds", "commit"}
    /\ rows \subseteq RowType
    /\ \A a \in archive : a.epoch \in 1 .. epoch /\ a.row \in RowType
    /\ \A k \in retained : k.epoch \in 1 .. epoch /\ k.min \in Nat /\ k.max \in Nat
    /\ nextId \in 1 .. (MaxMessages + 1) /\ author \in Nat

StoredMessages == { r.msg : r \in rows }

(* Memory and database tell the same story: a restart brings back nothing the *)
(* engine has not, and what the engine has and the database has not is at     *)
(* most a memory attachment, or a prompt whose command was refused.  This     *)
(* must hold while a compaction fails or is cut at any of its steps.  (With   *)
(* the types of the state.)                                                   *)
RowsMatchMemory ==
    /\ TypeOK
    /\ pc # "down" =>
          /\ StoredMessages \subseteq Range(messages)
          /\ \A m \in Range(messages) : m.kind \notin {"memory", "prompt"} => m \in StoredMessages

\* No hidden prompt and no memory attachment is in the transcript, or was when
\* it was archived: both are user messages that no author sent.
IsPlain ==
    \A m \in Range(messages) \cup { a.row.msg : a \in archive } : m.kind \notin {"nudge", "memory"}

(* Two ways of counting, one order: as long as only the author starts turns,  *)
(* the keys the engine counts up and the keys a compaction counts anew, in    *)
(* the middle of a turn even, keep the rows in the order of the transcript,   *)
(* every key the engine is about to use is free, and no turn number is shared *)
(* by what two prompts led to.                                                *)
PlainRowsAreInOrder ==
    (pc # "down" /\ IsPlain) =>
        /\ Stored = Kept(messages, StoredMessages)
        /\ pc = "idle" => IsFree(turn + 1, 0)
        /\ pc = "run" \/ (pc = "idle" /\ paused) => IsFree(turn, seqNo + 1)
        /\ \A r, q \in rows : (r.turn = q.turn /\ r.turn > 0) => r.msg.owner = q.msg.owner

(* FRAMEWORK.md:201: before a compaction every row goes to the archive.  So   *)
(* no message ever leaves the database, whatever fails in between; and what a *)
(* compaction was to summarise is told by its summary in the context.         *)
NoMessageIsLost ==
    [][/\ \A m \in StoredMessages :
             m.kind # "refresh" =>
               \/ m \in { r.msg : r \in rows' }
               \/ \E a \in archive' : a.row.msg = m
       /\ (pc = "commit" /\ pc' = "run" /\ messages' # messages) =>
             { messages[i].id : i \in BodyStart .. (RetainFrom - 1) }
                 \subseteq UNION { Told(m) : m \in Range(messages') }]_vars

(* An epoch is archived once: the attempt after one that failed, or that the  *)
(* end of the process cut, never adds to the copy of another.                 *)
EpochsAreFresh ==
    [][\A a \in archive' \ archive : \A b \in archive : a.epoch # b.epoch]_vars
=============================================================================
