--------------------------- MODULE KnowledgeTables ---------------------------
(***************************************************************************)
(* What the tools on a novel's knowledge files share (novel-tools          *)
(* novel/common.rs): chapters, and ranges of them.                         *)
(***************************************************************************)
EXTENDS Integers, Sequences, FiniteSets, SequencesExt, FiniteSetsExt, Subsequences

CONSTANT LastChapter   \* chapters are 1 .. LastChapter; 0 when a text names none
ASSUME LastChapterIsNat == LastChapter \in Nat

Chapters == 1 .. LastChapter
Chapter == 0 .. LastChapter
Greatest(S) == IF S = {} THEN 0 ELSE Max(S)

(* Sequences one after the other.                                          *)
Joined(parts) ==
  LET upTo[k \in 0 .. Len(parts)] == IF k = 0 THEN <<>> ELSE upTo[k - 1] \o parts[k]
  IN upTo[Len(parts)]

(* A range is a pair, or empty for every chapter.                          *)
InRange(c, range) == range = <<>> \/ (c >= range[1] /\ c <= range[2])
=============================================================================
