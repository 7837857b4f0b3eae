----------------------------- MODULE AuditLedger -----------------------------
(***************************************************************************)
(* knowledge/meta/audit-status.md, the ledger of which chapter passed      *)
(* which audit (novel-knowledge audit_status.rs).  The engine marks the    *)
(* chapters of a sub-agent's task when its report comes in, agents edit    *)
(* the file with Edit, AuditStatusQuery and the progress hint read it.     *)
(*                                                                         *)
(* The file is its list of table rows and the remarks after the table.  A  *)
(* mark reads the file, works on the text and writes it: agents that still *)
(* run edit between the two.                                               *)
(***************************************************************************)
EXTENDS KnowledgeTables

CONSTANTS
  Kinds,      \* the audits: AuditKind; "pa" is that of the plan
  Edited,     \* the statuses agents write into a cell
  MaxMarks,   \* bound on reports
  MaxEdits    \* bound on edits of the file by agents

Statuses == {"unreviewed", "audited", "passed", "again", "not needed"}

ASSUME LedgerBounds ==
  MaxMarks \in Nat /\ MaxEdits \in Nat /\ Edited \subseteq Statuses /\ "pa" \in Kinds

VARIABLES
  there,    \* whether the file exists
  rows,     \* the rows of its table
  remarks,  \* whether there is text after the table
  marking,  \* the mark between its read and its write, or NoMark
  told,     \* history: the last that was said of a chapter and an audit, and that
            \* no mark has written over
  torn,     \* history: chapters whose note broke their row
  marks, edits

ledgerVars == <<there, rows, remarks, marking, told, torn, marks, edits>>

NoMark == [on |-> FALSE]

(* A row is its chapter, its cells, whether it has a note, and whether it  *)
(* can be parsed: a line break in the note cuts off its last cell, and a   *)
(* line with --- is taken for the rule under the heading.  The template's  *)
(* example names no chapter.                                               *)
Row == [chapter : Chapter, cells : [Kinds -> Statuses], noted : BOOLEAN, whole : BOOLEAN]
Notes == {"plain", "breaking"}
Unreviewed == [k \in Kinds |-> "unreviewed"]
Example == [chapter |-> 0, cells |-> Unreviewed, noted |-> TRUE, whole |-> TRUE]

StatusRows(text) == Kept(text, {r \in ToSet(text) : r.whole /\ r.chapter # 0})
ChaptersOf(text) == {text[i].chapter : i \in DOMAIN text}
FirstOf(text, c) == SelectInSeq(text, LAMBDA r : r.chapter = c)
SortedByChapter(text) ==
  Joined([i \in 1 .. LastChapter + 1 |-> Kept(text, {r \in ToSet(text) : r.chapter = i - 1})])

(* upsert_status_cell: every row of the table is parsed and formatted.     *)
Upserted_Fresh(text, kind, c) ==
  LET parsed == StatusRows(text)
      others == SelectSeq(parsed, LAMBDA r : r.chapter # c)
  IN SortedByChapter(Append(others,
       [chapter |-> c, cells |-> [Unreviewed EXCEPT ![kind] = "audited"],
        noted |-> FALSE, whole |-> TRUE]))
Upserted(text, kind, c) ==
  LET parsed == StatusRows(text)
      i == FirstOf(parsed, c)
  IN SortedByChapter(
       IF i # 0 THEN [parsed EXCEPT ![i].cells[kind] = "audited"]
       ELSE Append(parsed, [chapter |-> c, cells |-> [Unreviewed EXCEPT ![kind] = "audited"],
                            noted |-> FALSE, whole |-> TRUE]))

(* The beginning of the task is the note of a row that has none.           *)
Noted(text, c, note) ==
  LET i == FirstOf(text, c)
  IN IF text[i].noted THEN text
     ELSE [text EXCEPT ![i].noted = TRUE, ![i].whole = (note = "plain")]

MarkedOne(text, kind, c, note) == Noted(Upserted(text, kind, c), c, note)
Marked(text, kind, chapters, note) ==
  LET upTo[c \in Chapter] ==
        IF c = 0 THEN text
        ELSE IF c \in chapters THEN MarkedOne(upTo[c - 1], kind, c, note) ELSE upTo[c - 1]
  IN upTo[LastChapter]

Torn(text, kind, chapters, note) ==
  {c \in chapters : note = "breaking" /\
     (FirstOf(StatusRows(text), c) = 0 \/ ~StatusRows(text)[FirstOf(StatusRows(text), c)].noted)}

---------------------------------------------------------------------------
Ensured == IF there THEN rows ELSE <<Example>>

LedgerInit ==
  /\ there \in BOOLEAN
  /\ rows = IF there THEN <<Example>> ELSE <<>>
  /\ remarks = FALSE /\ marking = NoMark
  /\ told = [c \in Chapters |-> [k \in Kinds |-> "nothing"]]
  /\ torn = {} /\ marks = 0 /\ edits = 0

(* record_subagent_audit, mark_audited up to the write.  A task without a  *)
(* chapter marks nothing.                                                  *)
ReadForMark(kind, chapters, note) ==
  /\ marking = NoMark /\ marks < MaxMarks /\ chapters # {}
  /\ marks' = marks + 1
  /\ there' = TRUE
  /\ rows' = Ensured
  /\ remarks' = (there /\ remarks)
  /\ marking' = [on |-> TRUE, kind |-> kind, chapters |-> chapters,
                 text |-> Marked(Ensured, kind, chapters, note),
                 torn |-> Torn(Ensured, kind, chapters, note), told |-> told]
  /\ UNCHANGED <<told, torn, edits>>

(* The write replaces the file; remarks after the table are not kept, and  *)
(* what was said since the read is lost.                                   *)
WriteMark ==
  /\ marking.on
  /\ rows' = marking.text
  /\ remarks' = FALSE
  /\ told' = [c \in Chapters |-> [k \in Kinds |->
                IF c \in marking.chapters /\ k = marking.kind THEN "audited"
                ELSE marking.told[c][k]]]
  /\ torn' = torn \cup marking.torn
  /\ marking' = NoMark
  /\ UNCHANGED <<there, marks, edits>>

(* The read or the write fails: a warning, and no mark.                     *)
FailMark == marking.on /\ marking' = NoMark
            /\ UNCHANGED <<there, rows, remarks, told, torn, marks, edits>>

(* An agent edits a cell of the row it sees for a chapter.                 *)
EditCell(c, k, status) ==
  LET i == SelectInSeq(rows, LAMBDA r : r.whole /\ r.chapter = c)
  IN /\ there /\ edits < MaxEdits /\ i # 0 /\ rows[i].cells[k] # status
     /\ edits' = edits + 1
     /\ rows' = [rows EXCEPT ![i].cells[k] = status]
     /\ told' = [told EXCEPT ![c][k] = status]
     /\ UNCHANGED <<there, remarks, marking, torn, marks>>

(* An agent adds a row for a chapter that has none, after the last row.    *)
AddRow(c, k, status) ==
  /\ there /\ edits < MaxEdits /\ c \notin ChaptersOf(StatusRows(rows))
  /\ edits' = edits + 1
  /\ rows' = Append(rows, [chapter |-> c, cells |-> [Unreviewed EXCEPT ![k] = status],
                           noted |-> FALSE, whole |-> TRUE])
  /\ told' = [told EXCEPT ![c] = [Unreviewed EXCEPT ![k] = status]]
  /\ UNCHANGED <<there, remarks, marking, torn, marks>>

AddRemarks ==
  /\ there /\ ~remarks /\ edits < MaxEdits
  /\ remarks' = TRUE /\ edits' = edits + 1
  /\ UNCHANGED <<there, rows, marking, told, torn, marks>>

(* A query or the progress hint creates a missing file.                    *)
Query ==
  /\ ~there
  /\ there' = TRUE /\ rows' = <<Example>>
  /\ UNCHANGED <<remarks, marking, told, torn, marks, edits>>

LedgerNext ==
  \/ \E kind \in Kinds, chapters \in SUBSET Chapters, note \in Notes :
       ReadForMark(kind, chapters, note)
  \/ WriteMark \/ FailMark
  \/ \E c \in Chapters, k \in Kinds, s \in Edited : EditCell(c, k, s) \/ AddRow(c, k, s)
  \/ AddRemarks \/ Query
LedgerSpec == LedgerInit /\ [][LedgerNext]_ledgerVars

---------------------------------------------------------------------------
(* What the readers answer.                                                *)
QueryChapter(c) == LET r == StatusRows(rows) IN
  IF FirstOf(r, c) = 0 THEN <<>> ELSE <<r[FirstOf(r, c)].cells>>
PassedThrough(k) ==
  LET passed == {c \in Chapters : \E i \in DOMAIN StatusRows(rows) :
                   StatusRows(rows)[i].chapter = c /\ StatusRows(rows)[i].cells[k] = "passed"}
  IN IF passed = {} THEN 0 ELSE Max(passed)
Pending(k) ==
  {c \in Chapters : \E i \in DOMAIN StatusRows(rows) :
     /\ StatusRows(rows)[i].chapter = c
     /\ StatusRows(rows)[i].cells[k] \notin {"passed", "not needed"}}
ListPending(filter) == IF filter = "any" THEN UNION {Pending(k) : k \in Kinds} ELSE Pending(filter)
(* What is pending is told for the audit of the plan only.                 *)
ProgressHint == [passed |-> [k \in Kinds |-> PassedThrough(k)], pending |-> Pending("pa")]

(* The ledger answers with the last that was said of a chapter, by a       *)
(* report or by an agent (mark_audited, query_chapter, query_summary):     *)
(* rebuilding the table for one chapter loses no verdict on another and    *)
(* none of another audit, and a chapter that was judged by every audit is  *)
(* no longer pending.  A mark that meets the edits of an agent loses those *)
(* made between its read and its write and no other: the ledger is back at *)
(* what was said before.  Not claimed of a row that a note has broken,     *)
(* which no reader finds.                                                  *)
LedgerTellsTheLast ==
  \A c \in Chapters \ torn, k \in Kinds :
     told[c][k] # "nothing"
     => /\ QueryChapter(c) # <<>> /\ QueryChapter(c)[1][k] = told[c][k]
        /\ (c \in Pending(k)) = (told[c][k] \notin {"passed", "not needed"})
        /\ c \in Pending(k) => c \in ListPending("any")
        /\ c \in Pending("pa") => c \in ProgressHint.pending
        /\ told[c][k] = "passed" => ProgressHint.passed[k] >= c
=============================================================================
