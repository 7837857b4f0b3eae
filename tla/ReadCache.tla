------------------------------ MODULE ReadCache ------------------------------
(* The read cache of novel-tools for one file (read_cache.rs, context.rs, the  *)
(* tools Read, Tail, Edit and Write) and its copy in the database of           *)
(* novel-core (read_cache/sync.rs).  The cache remembers which slice of the    *)
(* file was read at which mtime, so that a repeated Read is answered by a      *)
(* stub, and which lines the transcript shows, so that Edit touches only       *)
(* those.  A call runs under the lock of its file; its result is recorded      *)
(* when the whole batch has run, and only then are its lines "committed".      *)
(*                                                                             *)
(* Edit and Write are on the list of every session (merge_tool_always_allow),  *)
(* so that require_read_before_write lets them pass: an entry is checked if    *)
(* there is one, and a file that was never read may be edited.                 *)
(*                                                                             *)
(* A line of the file is a number that no other line has.  Left out: empty     *)
(* files, files above 10 MB, the limits on the size of a result, text that     *)
(* occurs twice.                                                               *)
(*                                                                             *)
(* The code has ways to lose track of what was shown.  An entry, and a stub,   *)
(* carries the names of those it has met (slips); nothing reads them but the   *)
(* properties:                                                                 *)
(*   "second"  the file changed in the second its mtime names                  *)
(*   "late"    it changed between a Read and the recording of its result       *)
(*   "lost"    what a call has read, or a stub refers to, is in no result      *)
(*   "gap"     two windows were united with unread lines between them: a stub  *)
(*             may refer to these                                              *)
(*   "drift"   an Edit took more lines than it put, or narrowed an open window *)
(*   "replay"  the rebuild met a call that does not show what stands there now *)
EXTENDS Integers, Sequences, FiniteSets, SequencesExt, FiniteSetsExt

CONSTANTS
    FileLines,      \* lines of the file at first
    Windows,        \* what Read is asked for: [from, len], Full, len = 0 up to the end
    TailLines,      \* what Tail is asked for
    Edits,          \* what Edit is asked for: [from, taken, put, all]: lines taken and
                    \* put, replace_all
    MaxBatch,       \* bound: calls of a batch
    MaxEvents       \* bound: calls, and troubles, which are interrupts, failed writes,
                    \* compactions, changes from outside and ends of the process

Full == [from |-> 0, len |-> 0]

ASSUME CacheAssumption ==
    /\ FileLines \in Nat \ {0}
    /\ Full \in Windows /\ TailLines \subseteq Nat \ {0}
    /\ Edits \subseteq [from : Nat \ {0}, taken : Nat \ {0}, put : Nat, all : BOOLEAN]

VARIABLES
    lines, mtime,   \* the file
    entry,          \* read_file_cache: the entry of the file, or NoEntry
    dirty,          \* read_cache_dirty_paths
    batch,          \* calls that have run and whose results are not recorded
    transcript,     \* calls and their results, in the order of the messages
    saved, anchor,  \* session_read_cache and the anchor in sessions
    epoch,          \* metadata: compaction_count
    pc,             \* "run", "record", "flush", "anchor", "rebuild", "down"
    granted,        \* lines that replace_all has opened to Edit unread
    nextLine, calls, troubles

file == <<lines, mtime>>
database == <<saved, anchor, epoch>>
bounds == <<nextLine, calls, troubles>>
vars == <<file, entry, dirty, batch, transcript, database, pc, granted, bounds>>

NoEntry == [source |-> "none"]
NoAnchor == <<-1, -1>>

-----------------------------------------------------------------------------
(* Windows and spans.  committed_spans is the set of the lines they cover: the *)
(* spans of the code are its maximal intervals.                                *)

MaxOf(a, b) == IF a > b THEN a ELSE b
MinOf(a, b) == IF a < b THEN a ELSE b

\* line_span_from: the last line of a window of a file of so many lines.
LastLine(w, total) ==
    IF w.len = 0 THEN MaxOf(total, w.from)
    ELSE MinOf(w.from + w.len - 1, MaxOf(total, w.from))

Span(w, total) == w.from .. LastLine(w, total)

\* extract_lines_1_indexed; the whole file for a full window.
Slice(ls, w) ==
    IF w = Full THEN ls
    ELSE SubSeq(ls, w.from, MinOf(LastLine(w, Len(ls)), Len(ls)))

\* tail_window.
TailWindow(n, total) == [from |-> total - MinOf(n, total) + 1, len |-> MinOf(n, total)]

Intervals(S) ==
    { i \in { <<a, b>> : a, b \in S } :
        /\ i[1] .. i[2] \subseteq S
        /\ (i[1] - 1) \notin S /\ (i[2] + 1) \notin S /\ i[1] <= i[2] }

\* shift_committed_spans_for_edit.
Shifted(S, first, delta) ==
    UNION { IF delta = 0 \/ i[2] < first THEN i[1] .. i[2]
            ELSE LET a == IF i[1] >= first THEN MaxOf(i[1] + delta, 1) ELSE i[1]
                 IN  a .. MaxOf(i[2] + delta, a) : i \in Intervals(S) }

-----------------------------------------------------------------------------
(* Entries of the cache *)

Entry(source, w, time, ls) ==
    [source |-> source, win |-> w, mtime |-> time, raw |-> Slice(ls, w), total |-> Len(ls),
     committed |-> FALSE, spans |-> {}, slips |-> {}]

Slipped(e, slips) == IF e = NoEntry THEN e ELSE [e EXCEPT !.slips = @ \cup slips]

IsEligible(e) == e.source \in {"Read", "Tail"}

\* merge_read_cache_on_store: two partial windows of one mtime become their
\* union, which keeps what was committed; anything else replaces the entry.
Merge(e, new, ls) ==
    IF e # NoEntry /\ IsEligible(e) /\ e.mtime = new.mtime /\ e.win # Full /\ new.win # Full
    THEN LET read == Span(e.win, e.total) \cup Span(new.win, new.total)
             union == [from |-> Min(read), len |-> Max(read) - Min(read) + 1]
         IN  [new EXCEPT !.win = union, !.raw = Slice(ls, union),
                         !.committed = e.committed, !.spans = e.spans,
                         !.slips = e.slips \cup IF Cardinality(read) < union.len
                                                THEN {"gap"} ELSE {}]
    ELSE new

\* check_fresh_for_disk, with cached_window_matches_disk.
IsFresh(e) ==
    \/ mtime <= e.mtime
    \/ IF e.win = Full THEN e.raw = lines
       ELSE e.raw = SubSeq(lines, e.win.from, MinOf(LastLine(e.win, e.total), Len(lines)))

\* read_dedup_hit and tail_dedup_hit.
IsRepeated(e, c) ==
    /\ e # NoEntry /\ IsEligible(e)
    /\ e.mtime = mtime /\ e.win = c.win
    /\ c.tool = "Tail" => e.total = Len(lines)

\* refresh_cache_after_write: the whole file, as the LLM has just written it.
Refreshed(ls, time) ==
    [Entry("Write", Full, time, ls) EXCEPT !.committed = TRUE]

\* The line where patch_read_cache_after_edit takes the edit to begin: the first
\* with the text put there, line 1 for an empty text, else the start of the window.
FirstEdited(e, c, ls) ==
    LET found == { i \in DOMAIN ls : c.put # <<>> /\ ls[i] = c.put[1] }
    IN  IF c.put = <<>> THEN 1
        ELSE IF found # {} THEN Min(found) ELSE e.win.from

\* patch_read_cache_after_edit: a text of no lines counts for one.
Patched(e, c, ls, time) ==
    IF e.source = "Write" \/ c.all \/ e.win = Full
    THEN [e EXCEPT !.mtime = time, !.raw = ls, !.win = Full, !.total = Len(ls),
                   !.source = IF @ = "Write" THEN "Write" ELSE "Edit"]
    ELSE LET delta == MaxOf(Len(c.put), 1) - c.taken
             win == [from |-> e.win.from,
                     len |-> IF e.win.len = 0 THEN 1 ELSE MaxOf(e.win.len + delta, 1)]
         IN  [e EXCEPT !.mtime = time, !.total = MaxOf(@ + delta, 0), !.win = win,
                       !.raw = Slice(ls, win), !.source = "Edit",
                       !.spans = IF e.committed
                                 THEN Shifted(@, FirstEdited(e, c, ls), delta) ELSE @,
                       !.slips = @ \cup IF Len(c.put) < c.taken \/ e.win.len = 0
                                        THEN {"drift"} ELSE {}]

\* Mutant of Promoted: the whole cached window is committed.
Promoted_Window(e, c) ==
    IF e = NoEntry THEN e
    ELSE IF e.win = Full THEN [e EXCEPT !.committed = TRUE, !.spans = {}]
    ELSE [e EXCEPT !.committed = TRUE, !.spans = @ \cup Span(e.win, e.total)]

\* promote_read_cache_committed: the lines the call asked for, not the cached
\* window; a full Read says nothing of a partial entry.
Promoted(e, c) ==
    IF e = NoEntry THEN e
    ELSE IF e.win = Full THEN [e EXCEPT !.committed = TRUE, !.spans = {}]
    ELSE IF c.tool = "Read" /\ c.win # Full
    THEN [e EXCEPT !.committed = TRUE, !.spans = @ \cup Span(c.win, e.total)]
    ELSE IF c.tool = "Tail"
    THEN [e EXCEPT !.committed = TRUE,
                   !.spans = @ \cup Span(TailWindow(c.taken, e.total), e.total)]
    ELSE e

\* The lines a single Edit may touch (spans_within_committed_span).
Committed(e) ==
    IF e = NoEntry THEN {}
    ELSE IF e.win = Full THEN (IF e.committed THEN DOMAIN lines ELSE {})
    ELSE e.spans

-----------------------------------------------------------------------------
(* Calls *)

\* A call: its tool and input (taken: lines an Edit replaces, or Tail asks for;
\* put: the new lines; all: replace_all) and its result (shown: the lines that
\* result and input show; found: the file as a Read or a Tail found it; slips:
\* those of the entry that gave a stub).
Call(tool, w, taken, put, all) ==
    [tool |-> tool, win |-> w, taken |-> taken, put |-> put, all |-> all,
     result |-> "error", shown |-> {}, found |-> <<>>, slips |-> {}]

Answered(c, result, shown) == [c EXCEPT !.result = result, !.shown = shown]

Assistant == Call("assistant", Full, 0, <<>>, FALSE)

\* Lines not used before.
FreshLines(n) == [i \in 1 .. n |-> nextLine + i - 1]

ShownBy(cs) == UNION { c.shown : c \in Range(cs) }

IsLook(c) == c.tool \in {"Read", "Tail"}

\* The lines a Read or a Tail has read; for a stub, those it says are shown elsewhere.
LinesRead(c) == IF IsLook(c) THEN Range(Slice(c.found, c.win)) ELSE {}

\* The result of the call tells what stands in the file now.
StillTrue(c) ==
    \/ c = Assistant \/ c.result = "stub"
    \/ /\ c.result = "text"
       /\ IF IsLook(c) THEN c.found = lines ELSE c.tool = "Write" /\ c.put = lines

Init ==
    /\ lines = [i \in 1 .. FileLines |-> i] /\ mtime = 1
    /\ entry = NoEntry /\ dirty = FALSE
    /\ batch = <<>> /\ transcript = <<>>
    /\ saved = NoEntry /\ anchor = NoAnchor /\ epoch = 0
    /\ pc = "run" /\ granted = {}
    /\ nextLine = FileLines + 1 /\ calls = 0 /\ troubles = 0

\* What goes wrong or comes from outside is bounded as a whole.
Trouble == calls + troubles < MaxEvents /\ troubles' = troubles + 1

Runs(c) ==
    /\ pc = "run" /\ Len(batch) < MaxBatch /\ calls + troubles < MaxEvents
    /\ calls' = calls + 1
    /\ batch' = Append(batch, c)
    /\ UNCHANGED <<transcript, anchor, epoch, pc, troubles>>

\* ReadTool::call and TailTool::call: a window that lies behind the end is read
\* but not cached.
Look(c) ==
    /\ IF IsRepeated(entry, c)
       THEN /\ Runs([Answered(c, "stub", {}) EXCEPT !.slips = entry.slips])
            /\ UNCHANGED <<entry, dirty>>
       ELSE IF c.win.from > Len(lines)
       THEN Runs(Answered(c, "text", {})) /\ UNCHANGED <<entry, dirty>>
       ELSE /\ Runs(Answered(c, "text", LinesRead(c)))
            /\ entry' = Merge(entry, Entry(c.tool, c.win, mtime, lines), lines)
            /\ dirty' = TRUE
    /\ UNCHANGED <<file, saved, granted, nextLine>>

Read ==
    \E w \in Windows : Look([Call("Read", w, 0, <<>>, FALSE) EXCEPT !.found = lines])

Tail_ ==
    \E n \in TailLines :
        Look([Call("Tail", TailWindow(n, Len(lines)), n, <<>>, FALSE) EXCEPT !.found = lines])

\* verify_edit_against_read_cache, then check_fresh_for_disk.
MayEdit(from, taken, all) ==
    entry # NoEntry =>
        /\ IsFresh(entry)
        /\ all \/ from .. (from + taken - 1) \subseteq Committed(entry)

\* What holds of an entry taken in the second in which the file changes again.
Overtaken(e) == IF e # NoEntry /\ e.mtime = mtime' THEN Slipped(e, {"second"}) ELSE e

\* The file is written.  file_mtime_secs: its mtime counts whole seconds.
Written(ls) ==
    /\ lines' = ls
    /\ mtime' \in {mtime, mtime + 1}
    /\ saved' = Overtaken(saved)

\* EditTool::call.  replace_all makes the whole file editable (rule R2); without
\* an entry nothing is cached.
Edit ==
    \E ed \in Edits :
        LET c == Call("Edit", Full, ed.taken, FreshLines(ed.put), ed.all)
            updated == SubSeq(lines, 1, ed.from - 1) \o c.put
                         \o SubSeq(lines, ed.from + ed.taken, Len(lines))
            cached == entry # NoEntry
        IN  /\ ed.from + ed.taken - 1 <= Len(lines) /\ updated # <<>>
            /\ MayEdit(ed.from, ed.taken, ed.all)
            /\ Written(updated)
            /\ entry' = IF cached THEN Patched(entry, c, updated, mtime') ELSE entry
            /\ dirty' = (dirty \/ cached)
            /\ granted' = IF ed.all /\ cached THEN granted \cup Range(updated) ELSE granted
            /\ nextLine' = nextLine + ed.put
            /\ Runs(Answered(c, "text", Range(c.put)))

\* WriteTool::call.
Write ==
    LET c == Call("Write", Full, 0, FreshLines(FileLines), FALSE)
    IN  /\ entry # NoEntry => IsFresh(entry)
        /\ Written(c.put)
        /\ entry' = Refreshed(c.put, mtime')
        /\ dirty' = TRUE
        /\ nextLine' = nextLine + FileLines
        /\ Runs(Answered(c, "text", Range(c.put)))
        /\ UNCHANGED granted

\* An Edit or a Write that one of the checks, or the author, refuses.
Refused ==
    /\ \E tool \in {"Edit", "Write"} : Runs(Call(tool, Full, 1, FreshLines(2), FALSE))
    /\ nextLine' = nextLine + 2
    /\ UNCHANGED <<file, saved, entry, dirty, granted>>

-----------------------------------------------------------------------------
(* The results of a batch are recorded, then the cache is saved *)

\* finish_live_stream_tool_batch: all calls have run.
StartRecording ==
    /\ pc = "run" /\ batch # <<>>
    /\ transcript' = Append(transcript, Assistant)
    /\ pc' = "record"
    /\ UNCHANGED <<file, entry, dirty, batch, database, granted, bounds>>

\* execute_stream_results: the cache is saved when no result is left.
AfterRecord(left) == IF left = 0 THEN "flush" ELSE "record"

\* The file changed since the call has read it; the stub refers to unread lines.
RecordSlips(c) ==
    { s \in {"late", "lost"} :
        \/ s = "late" /\ IsLook(c) /\ c.found # lines
        \/ s = "lost" /\ "gap" \in c.slips }

\* apply_ok_stream_result, apply_err_stream_result: calls of one batch have run
\* in any order.
Record ==
    /\ pc = "record"
    /\ \E i \in DOMAIN batch :
          /\ transcript' = Append(transcript, batch[i])
          /\ batch' = RemoveAt(batch, i)
          /\ IF batch[i].result \in {"text", "stub"} /\ entry # NoEntry
             THEN /\ entry' = Slipped(Promoted(entry, batch[i]), RecordSlips(batch[i]))
                  /\ dirty' = TRUE
             ELSE UNCHANGED <<entry, dirty>>
    /\ pc' = AfterRecord(Len(batch) - 1)
    /\ UNCHANGED <<file, database, granted, bounds>>

\* What stays in the transcript of calls whose results are not recorded.
Unrecorded(result) ==
    [i \in DOMAIN batch |-> Answered(batch[i], result, Range(batch[i].put))]

\* finalize_stream_cancel: the calls that have run get a text saying they have
\* not.  Or a result cannot be written, and the rest is dropped.
Interrupt ==
    /\ pc \in {"run", "record"} /\ batch # <<>> /\ Trouble
    /\ entry' = IF \E c \in Range(batch) : IsLook(c) THEN Slipped(entry, {"lost"}) ELSE entry
    /\ transcript' = IF pc = "run"
                     THEN Append(transcript, Assistant) \o Unrecorded("interrupted")
                     ELSE transcript \o Unrecorded("none")
    /\ batch' = <<>>
    /\ pc' = "run"
    /\ UNCHANGED <<file, dirty, database, granted, nextLine, calls>>

\* flush_dirty_read_cache_paths: the row, then the anchor; a failure leaves the
\* entry dirty.
FlushRow ==
    /\ pc = "flush"
    /\ IF dirty THEN saved' = entry /\ pc' = "anchor"
       ELSE pc' = "run" /\ UNCHANGED saved
    /\ UNCHANGED <<file, entry, dirty, batch, transcript, anchor, epoch, granted, bounds>>

FlushAnchor ==
    /\ pc = "anchor"
    /\ anchor' = <<epoch, Len(transcript)>>
    /\ dirty' = FALSE
    /\ pc' = "run"
    /\ UNCHANGED <<file, entry, batch, transcript, saved, epoch, granted, bounds>>

FlushFails ==
    /\ pc \in {"flush", "anchor"} /\ dirty /\ Trouble
    /\ pc' = "run"
    /\ UNCHANGED <<file, entry, dirty, batch, transcript, database, granted, nextLine, calls>>

-----------------------------------------------------------------------------
(* Rebuilding the cache from the transcript *)

\* rebuild_read_cache_from_pairs: one pair, against the file as it is now.
\* Only Read and Tail look at the result.
Replayed(c, e) ==
    CASE c.tool \in {"Read", "Tail"} /\ c.result \in {"text", "interrupted"} ->
            LET w == IF c.tool = "Tail" THEN TailWindow(c.taken, Len(lines)) ELSE c.win
            IN  Promoted(Merge(e, Entry(c.tool, w, mtime, lines), lines), c)
      [] c.tool = "Edit" /\ (c.all \/ e # NoEntry) ->
            IF e = NoEntry THEN e ELSE Patched(e, c, lines, mtime)
      [] c.tool = "Write" \/ (c.tool = "Edit" /\ ~c.all /\ e = NoEntry) ->
            Refreshed(lines, mtime)
      [] OTHER -> e

Rebuilt(cs) ==
    Slipped(FoldSeq(Replayed, NoEntry, cs),
            IF \A c \in Range(cs) : StillTrue(c) THEN {} ELSE {"replay"})

\* rebuild_and_reconcile_read_cache.
RebuildFrom(cs) ==
    /\ entry' = Rebuilt(cs)
    /\ saved' = Rebuilt(cs)
    /\ anchor' = <<epoch, Len(transcript)>>
    /\ dirty' = FALSE

\* A compaction keeps the last turns of the transcript ...
Compact ==
    /\ pc = "run" /\ batch = <<>> /\ Trouble
    /\ epoch' = epoch + 1
    /\ \E i \in { j \in DOMAIN transcript : transcript[j] = Assistant } \cup {Len(transcript) + 1} :
          transcript' = SubSeq(transcript, i, Len(transcript))
    /\ granted' = {}
    /\ pc' = "rebuild"
    /\ UNCHANGED <<file, entry, dirty, batch, saved, anchor, nextLine, calls>>

\* ... and rebuilds the cache from them.
Rebuild ==
    /\ pc = "rebuild"
    /\ RebuildFrom(SelectSeq(transcript, LAMBDA c : c.result # "none"))
    /\ pc' = "run"
    /\ UNCHANGED <<file, batch, transcript, epoch, granted, bounds>>

Crash ==
    /\ pc # "down" /\ Trouble
    /\ entry' = NoEntry /\ dirty' = FALSE /\ batch' = <<>>
    /\ transcript' = IF pc = "record" THEN transcript \o Unrecorded("none") ELSE transcript
    /\ pc' = "down"
    /\ UNCHANGED <<file, database, granted, nextLine, calls>>

\* Mutant of AnchorMatches: what is saved is always good.
AnchorMatches_Always == TRUE

\* anchor_matches: nothing was recorded since the cache was saved.
AnchorMatches == anchor = <<epoch, Len(transcript)>>

\* try_restore_read_cache_on_resume.
Resume ==
    /\ pc = "down"
    /\ pc' = "run"
    /\ IF AnchorMatches /\ saved # NoEntry
       THEN entry' = saved /\ UNCHANGED <<dirty, saved, anchor>>
       ELSE RebuildFrom(transcript)
    /\ UNCHANGED <<file, batch, transcript, epoch, granted, bounds>>

\* Another program changes the last line or puts one before the first (while
\* results are recorded and saved, nobody looks at the file).
ChangeOutside ==
    /\ pc \in {"run", "rebuild", "down"} /\ Trouble
    /\ nextLine' = nextLine + 1
    /\ \/ Written([lines EXCEPT ![Len(lines)] = nextLine])
       \/ Written(<<nextLine>> \o lines)
    /\ entry' = Overtaken(entry)
    /\ UNCHANGED <<dirty, batch, transcript, anchor, epoch, pc, granted, calls>>

Next ==
    \/ Read \/ Tail_ \/ Edit \/ Write \/ Refused
    \/ StartRecording \/ Record \/ Interrupt
    \/ FlushRow \/ FlushAnchor \/ FlushFails
    \/ Compact \/ Rebuild \/ Crash \/ Resume
    \/ ChangeOutside

Spec == Init /\ [][Next]_vars

-----------------------------------------------------------------------------
Slips == {"second", "late", "lost", "gap", "drift", "replay"}

WindowOK(w) == w = Full \/ (w.from \in Nat \ {0} /\ w.len \in Nat)

EntryOK(e) ==
    e # NoEntry =>
        /\ e.source \in {"Read", "Tail", "Write", "Edit"}
        /\ WindowOK(e.win) /\ e.mtime \in 1 .. mtime /\ e.total \in Nat
        /\ e.raw \in Seq(Nat) /\ e.committed \in BOOLEAN /\ e.spans \subseteq Nat \ {0}
        /\ e.slips \subseteq Slips

CallOK(c) ==
    /\ c.tool \in {"assistant", "Read", "Tail", "Edit", "Write"}
    /\ c.result \in {"text", "stub", "error", "interrupted", "none"}
    /\ WindowOK(c.win) /\ c.put \in Seq(Nat) /\ c.taken \in Nat /\ c.slips \subseteq Slips

TypeOK ==
    /\ lines \in Seq(Nat) /\ lines # <<>> /\ mtime \in Nat /\ dirty \in BOOLEAN
    /\ EntryOK(entry) /\ EntryOK(saved)
    /\ \A c \in Range(batch) : CallOK(c)
    /\ anchor = NoAnchor \/ (anchor[1] <= epoch /\ anchor[2] \in Nat)
    /\ pc \in {"run", "record", "flush", "anchor", "rebuild", "down"}
    /\ pc \in {"flush", "anchor", "rebuild", "down"} => batch = <<>>
    /\ granted \subseteq Nat

\* The lines that calls have read, told or not.
ReadBy(cs) == UNION { LinesRead(c) : c \in { d \in Range(cs) : d.result # "stub" } }

\* The lines the conversation shows, with the inputs of calls under way.
Known ==
    ShownBy(transcript) \cup granted
      \cup ShownBy(SelectSeq(batch, LAMBDA c : c.tool \in {"Edit", "Write"}))

(* read_cache.rs:45, "span the model has seen via a persisted Read/Tail       *)
(* tool_result": as long as the entry passes the check of freshness, every    *)
(* line that Edit may touch for it was shown as it stands in the file now,    *)
(* though edits move lines, other programs change the file, and the cache     *)
(* comes back from the database or is rebuilt.  Nothing is claimed of an      *)
(* entry that met one of the slips above but a gap; a Write, or a Read that   *)
(* replaces it, ends them.  (With the types of the state.)                    *)
SpansWereShown ==
    TypeOK /\
    (/\ pc \in {"run", "flush", "anchor"}
     /\ entry # NoEntry /\ entry.slips \subseteq {"gap"} /\ IsFresh(entry)
     => \A i \in Committed(entry) \cap DOMAIN lines : lines[i] \in Known)

(* FILE_UNCHANGED_STUB, "refer to the earlier Read/Tail tool_result in this   *)
(* conversation": a Read is answered by the stub only if its lines, as they   *)
(* are, were read by calls of this conversation, and unless the result of one *)
(* of these was lost to an interrupt or a failed write, they are shown in it  *)
(* or in the results recorded with the stub.  It is not claimed after a       *)
(* change within a second, across a gap between windows, or of an entry       *)
(* rebuilt from calls that no longer tell what stands in the file.            *)
StubsRefer ==
    \A c \in Range(batch) :
        c.result = "stub" /\ c.slips \cap {"second", "gap", "replay"} = {} =>
            /\ LinesRead(c) \subseteq Known \cup ReadBy(batch \o transcript)
            /\ "lost" \notin c.slips => LinesRead(c) \subseteq Known \cup ShownBy(batch)
=============================================================================
