--------------------------- MODULE ToolChainRepair ---------------------------
(* message/repair.rs: what every transcript goes through before it is sent to *)
(* the LLM, and when a stored session is loaded.  Tool messages that answer   *)
(* no call of the assistant message right before their block are removed,     *)
(* and every call left without a result gets a stub at the end of its block.  *)
(* The state machine feeds it every transcript a session can hold.            *)
EXTENDS Messages, FiniteSets, SequencesExt, Subsequences

CONSTANTS MaxCalls,     \* tool calls the model makes in the session
          MaxMessages   \* messages appended to it

ASSUME RepairAssumption == MaxCalls \in Nat /\ MaxMessages \in Nat

VARIABLES transcript,   \* AgentEngine::messages
          nextCall      \* the first call the model has not made yet

vars == <<transcript, nextCall>>

-----------------------------------------------------------------------------
\* Mutants of KeepOrDrop: a result that answers any earlier call is kept; only
\* the first result of a block is kept.
KeepOrDrop_AnyCall(kept, m) ==
    IF m.role = "tool" /\ \A i \in DOMAIN kept : m.call \notin kept[i].calls
    THEN kept ELSE Append(kept, m)

KeepOrDrop_FirstOnly(kept, m) ==
    IF m.role = "tool" /\ (kept = <<>> \/ m.call \notin kept[Len(kept)].calls)
    THEN kept ELSE Append(kept, m)

\* A message judged against what the pass has kept before it.
KeepOrDrop(kept, m) ==
    IF m.role = "tool" /\ ~ValidToolAt(Append(kept, m), Len(kept) + 1)
    THEN kept ELSE Append(kept, m)

\* remove_orphan_tool_messages: one pass over the list, removing in place.
RemoveOrphans(ms) ==
    LET pass[i \in 0 .. Len(ms)] ==
            IF i = 0 THEN <<>> ELSE KeepOrDrop(pass[i - 1], ms[i])
    IN  pass[Len(ms)]

\* The calls of the assistant message that the last block of ms belongs to and
\* that have no result in it.
OpenCalls(ms) ==
    UNION { ms[a].calls \ { ms[j].call : j \in (a + 1) .. Len(ms) } :
            a \in { i \in DOMAIN ms : /\ ms[i].role = "assistant"
                                      /\ \A j \in (i + 1) .. Len(ms) : ms[j].role = "tool" } }

\* The members of a set of numbers, in order.
Ascending(S) ==
    [i \in 1 .. Cardinality(S) |-> CHOOSE n \in S : Cardinality({ k \in S : k <= n }) = i]

\* fill_missing_tool_results on the last block: one stub per open call, in the
\* order of the calls.
CloseBlock(ms) ==
    LET open == Ascending(OpenCalls(ms))
    IN  ms \o [i \in DOMAIN open |-> ToolResult(open[i], "repaired")]

\* A block ends where another message than a tool result follows.
FillStep(out, m) == Append(IF m.role = "tool" THEN out ELSE CloseBlock(out), m)

Filled(ms) ==
    LET pass[i \in 0 .. Len(ms)] ==
            IF i = 0 THEN <<>> ELSE FillStep(pass[i - 1], ms[i])
    IN  pass[Len(ms)]

FillMissing(ms) == CloseBlock(Filled(ms))

\* Mutant of Repair: no stub for a call that has a result anywhere.
Repair_LateCounts(ms) ==
    LET sent == FillMissing(RemoveOrphans(ms))
    IN  Kept(sent, { m \in Range(sent) : m.body = "repaired" =>
                        \A i \in DOMAIN ms : ms[i].call = m.call => ms[i].body = "repaired" })

\* repair_tool_use_chain_traced.
Repair(ms) == FillMissing(RemoveOrphans(ms))

-----------------------------------------------------------------------------
Init == transcript = <<User("prompt")>> /\ nextCall = 1

Extend(m) == Len(transcript) < MaxMessages /\ transcript' = Append(transcript, m)

\* A prompt, a nudge, a sub-agent report, a memory attachment.
AddUser == Extend(User("prompt")) /\ UNCHANGED nextCall

AddAssistant(n) ==
    /\ nextCall + n - 1 <= MaxCalls
    /\ Extend(Assistant(nextCall .. (nextCall + n - 1)))
    /\ nextCall' = nextCall + n

\* The result of a call that has none, in its block or late: an approved tool
\* runs after the messages that the turn added when it paused.
AddResult(c) ==
    /\ c < nextCall
    /\ ~HasResult(transcript, c)
    /\ Extend(ToolResult(c, "ok"))
    /\ UNCHANGED nextCall

\* AgentEngine::load_stored_messages: the session is loaded from its rows and
\* repaired in memory.
Load ==
    /\ transcript' = Repair(transcript)
    /\ UNCHANGED nextCall

Next ==
    \/ AddUser
    \/ \E n \in 0 .. MaxCalls : AddAssistant(n)
    \/ \E c \in 1 .. MaxCalls : AddResult(c)
    \/ Load

Spec == Init /\ [][Next]_vars

-----------------------------------------------------------------------------
MessageType ==
    [role : {"user", "assistant", "tool"}, call : 0 .. MaxCalls, calls : SUBSET (1 .. MaxCalls),
     body : {"prompt", "reply", "ok", "repaired"}, saved : {"prompt", "reply", "ok", "repaired"}]

TypeOK == nextCall \in 1 .. (MaxCalls + 1) /\ transcript \in Seq(MessageType)

Sent == Repair(transcript)

(* repair.rs:60 "Ensure tool messages match a preceding assistant tool_calls  *)
(* block (API requirement)", both ways: in the request every tool message     *)
(* answers its block's assistant message, and every call of an assistant      *)
(* message is answered inside its block.  (With the types of the state.)      *)
RequestWellFormed ==
    /\ TypeOK
    /\ \A i \in DOMAIN Sent :
          /\ Sent[i].role = "tool" => ValidToolAt(Sent, i)
          /\ \A c \in Sent[i].calls :
                \E j \in (i + 1) .. Len(Sent) :
                    /\ Sent[j].call = c
                    /\ \A k \in (i + 1) .. j : Sent[k].role = "tool"

(* The pass that removes in place neither loses a result that was valid where *)
(* it stood nor keeps one because of what it removed before it: it keeps the  *)
(* messages that are valid in the transcript it was given, and the repaired   *)
(* list without its stubs is exactly them.  And it leaves a repaired list as  *)
(* it is: a session that is loaded and goes on sends the LLM what the session *)
(* that never stopped would have sent.                                        *)
RepairKeepsWhatIsValid ==
    LET keep == { i \in DOMAIN transcript :
                    transcript[i].role = "tool" => ValidToolAt(transcript, i) }
        kept == [i \in 1 .. Cardinality(keep) |-> transcript[Ascending(keep)[i]]]
        real == { m \in Range(Sent) \cup Range(transcript) : m.body # "repaired" }
    IN  /\ Kept(Sent, real) = Kept(kept, real)
        /\ Repair(Sent) = Sent

(* Once the last block is complete, what the session appends later extends    *)
(* the request and rewrites nothing of it: the prompt cache of the API keeps  *)
(* its prefix, whatever late results and repairs come after.                  *)
RequestsGrow ==
    [][OpenCalls(RemoveOrphans(transcript)) = {}
       => IsPrefix(Repair(transcript), Repair(transcript'))]_vars
=============================================================================
