------------------------------ MODULE Messages ------------------------------
(* The chat transcript of a session: ChatMessage of novel-core, as the turn   *)
(* loop and the tool-chain repair tell messages apart.  A tool call is a      *)
(* positive number, in the order the model issued it; text is abstracted to   *)
(* the kind of text it is.                                                    *)
EXTENDS Naturals, Sequences

NoCall == 0

(* body is what the engine holds in memory, saved what the message's row in   *)
(* the messages table holds ("none": there is no row).                        *)
Message(role, call, calls, body, saved) ==
    [role |-> role, call |-> call, calls |-> calls, body |-> body, saved |-> saved]

\* A user-role message: "prompt" (the author), "nudge" (hidden), "report" (of a
\* sub-agent) or "memory" (an attachment of the prefetch).
User(kind) == Message("user", NoCall, {}, kind, kind)

Assistant(calls) == Message("assistant", NoCall, calls, "reply", "reply")

\* The result of a call: "ok", "error", "denied", "question" (the stub of
\* AskUserQuestion), "answer", "interrupted", or "repaired".
ToolResult(call, body) == Message("tool", call, {}, body, body)

\* A message that is in memory and in no row.
Unsaved(m) == [m EXCEPT !.saved = "none"]

HasResult(ms, call) == \E i \in DOMAIN ms : ms[i].role = "tool" /\ ms[i].call = call

\* The message at i answers a call of the assistant message that the block of
\* tool messages around i follows: the API accepts it there.
ValidToolAt(ms, i) ==
    \E a \in 1 .. (i - 1) :
        /\ ms[a].role = "assistant"
        /\ ms[i].call \in ms[a].calls
        /\ \A j \in (a + 1) .. i : ms[j].role = "tool"
=============================================================================
