---------------------------- MODULE CharacterCards ----------------------------
(***************************************************************************)
(* The cards of a novel's characters and what is derived from them:        *)
(* KnowledgeDerive character_snapshot and relation_index (novel-knowledge  *)
(* derive.rs, evolution_log.rs), RelationQuery on the index of relations,  *)
(* CharacterSearch, CharacterRotate.                                       *)
(*                                                                         *)
(* A card is its tables in the order of the file; agents append rows to    *)
(* them.  A row has its chapter and its second cell: the other character   *)
(* in the table of relations, some word in the others.                     *)
(***************************************************************************)
EXTENDS KnowledgeTables

CONSTANTS
  Names,     \* characters, as numbers in the order of their names
  Words,     \* second cells of the tables that are not about relations, numbers as well
  Layouts,   \* orders of the tables in a card
  MaxRows,   \* bound on rows of all cards
  MaxHand    \* bound on rows that agents add to the index of relations

Tables == {"identity", "cultivation", "personality", "appearances", "relations"}

(* A card has a table once.                                                *)
ASSUME CardBounds ==
  /\ Names \subseteq Nat \ {0} /\ Words \subseteq Nat \ {0} /\ IsFiniteSet(Names) /\ IsFiniteSet(Words)
  /\ \A l \in Layouts : l \in Seq(Tables) /\ \A i, j \in DOMAIN l : l[i] = l[j] => i = j
  /\ MaxRows \in Nat /\ MaxHand \in Nat

VARIABLES
  cards,      \* by name: the tables of the card, none without a card
  pov,        \* the names whose card says povCharacter
  snapshots,  \* by name: what the section of the snapshot shows, by table
  relations,  \* rows of the index of relations
  fresh,      \* history: the names whose card the index was derived from as it is
  hand        \* history: rows that agents added to the index

cardVars == <<cards, pov, snapshots, relations, fresh, hand>>

Cells == Names \cup Words
CardRow == [line : {"row"}, chapter : Chapter, cell : Cells]
Relation == [chapter : Chapter, speaker : Names, object : Cells]
Data(c, w) == [line |-> "row", chapter |-> c, cell |-> w]
Header == [line |-> "header"]
Rule == [line |-> "rule"]
NoCard == <<>>
NoSnapshot == <<>>
HasTable(n, t) == \E i \in DOMAIN cards[n] : cards[n][i].name = t
At(n, t) == CHOOSE i \in DOMAIN cards[n] : cards[n][i].name = t
RowsOf(n, t) == IF HasTable(n, t) THEN cards[n][At(n, t)].rows ELSE <<>>
With(rows, w) == Kept(rows, {r \in ToSet(rows) : r.cell = w})
AllRows(n) == Joined([i \in DOMAIN cards[n] |-> cards[n][i].rows])
RowCount == SumFunction([n \in Names |-> Len(AllRows(n))])

CardsInit ==
  /\ cards = [n \in Names |-> NoCard] /\ pov = {}
  /\ snapshots = [n \in Names |-> NoSnapshot]
  /\ relations = <<>> /\ fresh = {} /\ hand = 0

CreateCard(n, layout, isPov) ==
  /\ cards[n] = NoCard
  /\ cards' = [cards EXCEPT ![n] = [i \in DOMAIN layout |-> [name |-> layout[i], rows |-> <<>>]]]
  /\ pov' = IF isPov THEN pov \cup {n} ELSE pov
  /\ fresh' = fresh \ {n}
  /\ UNCHANGED <<snapshots, relations, hand>>

AppendRow(n, t, row) ==
  /\ HasTable(n, t) /\ RowCount < MaxRows
  /\ cards' = [cards EXCEPT ![n][At(n, t)].rows = Append(@, row)]
  /\ fresh' = fresh \ {n}
  /\ UNCHANGED <<pov, snapshots, relations, hand>>

---------------------------------------------------------------------------
(* find_table_last_row looks at every table line from the heading to the   *)
(* end of the file; two lines or fewer are a header and its rule.          *)
LinesFrom(n, t) ==
  LET after == SubSeq(cards[n], At(n, t), Len(cards[n]))
  IN Joined([i \in DOMAIN after |-> <<Header, Rule>> \o after[i].rows])
LastRow(n, t) == LET lines == LinesFrom(n, t) IN
  IF Len(lines) <= 2 THEN lines[1] ELSE Last(lines)

(* character_snapshot replaces the section of the snapshot, or adds it.    *)
DeriveSnapshot(n) ==
  /\ cards[n] # NoCard
  /\ snapshots' = [snapshots EXCEPT ![n] =
       [t \in {u \in Tables \ {"relations"} : HasTable(n, u)} |-> LastRow(n, t)]]
  /\ UNCHANGED <<cards, pov, relations, fresh, hand>>

(* relation_index reads the rows of every table of every card; the last    *)
(* with a speaker and a second cell stays, ordered by the two.             *)
LastWith_First(n, w) == SelectInSeq(AllRows(n), LAMBDA r : r.cell = w)
LastWith(n, w) == SelectLastInSeq(AllRows(n), LAMBDA r : r.cell = w)
RelationRow(n, w) ==
  IF n \in Names /\ w \in Cells /\ LastWith(n, w) # 0
  THEN <<[chapter |-> AllRows(n)[LastWith(n, w)].chapter, speaker |-> n, object |-> w]>> ELSE <<>>
Derived == Joined([n \in 1 .. Greatest(Names) |-> Joined([w \in 1 .. Greatest(Cells) |-> RelationRow(n, w)])])
DeriveRelations ==
  /\ relations' = Derived
  /\ fresh' = {n \in Names : cards[n] # NoCard}
  /\ UNCHANGED <<cards, pov, snapshots, hand>>

(* Agents add rows to the index as well, as the checklist of a chapter     *)
(* tells them to.                                                          *)
AppendRelation(row) ==
  /\ hand < MaxHand /\ hand' = hand + 1
  /\ relations' = Append(relations, row)
  /\ fresh' = {}
  /\ UNCHANGED <<cards, pov, snapshots>>

CardsNext ==
  \/ \E n \in Names : \/ \E layout \in Layouts, isPov \in BOOLEAN : CreateCard(n, layout, isPov)
                     \/ \E t \in Tables, row \in CardRow : AppendRow(n, t, row)
                     \/ DeriveSnapshot(n)
  \/ DeriveRelations
  \/ \E row \in Relation : AppendRelation(row)
CardsSpec == CardsInit /\ [][CardsNext]_cardVars

---------------------------------------------------------------------------
(* RelationQuery: the rows of a character, or of two; the last is current. *)
Matched(a, target) == Kept(relations, {r \in ToSet(relations) :
  /\ r.chapter # 0 /\ a \in {r.speaker, r.object}
  /\ target # 0 => target \in {r.speaker, r.object}})
Current(a, target) == IF Matched(a, target) = <<>> THEN <<>> ELSE <<Last(Matched(a, target))>>
History(a, target) == IF Len(Matched(a, target)) > 1 THEN Front(Matched(a, target)) ELSE <<>>

(* CharacterSearch: the two headings of most fields find the same section, *)
(* which is then searched twice; a field without a section searches all.   *)
Headings == [identity |-> <<"identity", "identity">>, personality |-> <<"personality", "personality">>,
             relations |-> <<"relations", "relations">>, appearances |-> <<"appearances">>,
             secrets |-> <<>>]
SearchIn(n, field) ==
  LET found == Joined([i \in DOMAIN Headings[field] |-> RowsOf(n, Headings[field][i])])
      there == \E i \in DOMAIN Headings[field] : HasTable(n, Headings[field][i])
  IN IF there THEN found ELSE AllRows(n)
Hits(n, field, w) == With(SearchIn(n, field), w)

(* CharacterRotate, with the chapters that are written; a name is asked    *)
(* for, or 0 for all the characters with a point of view.                  *)
Appearances(n) == {RowsOf(n, "appearances")[i].chapter : i \in DOMAIN RowsOf(n, "appearances")} \ {0}
LastAppearance(n) == Greatest(Appearances(n))
Rotated(name) == {n \in Names : cards[n] # NoCard /\ IF name = 0 THEN n \in pov ELSE n = name}
SinceLast(n, name, written) ==
  Greatest({LastAppearance(m) : m \in Rotated(name)} \cup written) - LastAppearance(n)
IsMissing(n, name, written, threshold) ==
  n \in Rotated(name) /\ SinceLast(n, name, written) >= threshold
CountIn(c, name) == Cardinality({n \in Rotated(name) : c \in Appearances(n)})

---------------------------------------------------------------------------
(* The index of relations, derived from the cards as they are, has for a   *)
(* pair one row, the last of the speaker's card, and RelationQuery tells   *)
(* it (derive_relation_cross_index, find_character_relations), as long as  *)
(* the card has the name in the second cell of no other table.             *)
RelationsAreTold == \A n \in fresh, w \in Names :
  LET mine == With(RowsOf(n, "relations"), w)
      rows == Kept(relations, {r \in ToSet(relations) : r.speaker = n /\ r.object = w})
  IN mine # <<>> /\ (\A t \in Tables \ {"relations"} : With(RowsOf(n, t), w) = <<>>) =>
       /\ Len(rows) = 1 /\ rows[1].chapter = Last(mine).chapter
       /\ rows[1].chapter # 0 => /\ rows[1] \in ToSet(Matched(n, w)) \cap ToSet(Matched(w, 0))
                                 /\ Len(History(n, w)) + 1 = Len(Matched(n, w))
                                 /\ Len(Matched(n, w)) = 1 => Current(n, w) = rows

(* CharacterSearch in a field finds every row of its table, and in a field *)
(* whose table the card has not whatever the card has (extract_sections).  *)
SearchFinds == \A n \in Names, w \in Names \cup Words, field \in DOMAIN Headings :
  LET table == IF Headings[field] = <<>> THEN "none" ELSE Headings[field][1]
      rows == IF HasTable(n, table) THEN RowsOf(n, table) ELSE AllRows(n)
  IN {r \in ToSet(rows) : r.cell = w} = ToSet(Hits(n, field, w))

(* CharacterRotate calls nobody missing who appears in the last chapter,   *)
(* and one who is missing for the characters together is so on a question  *)
(* of its own while a newer chapter has a file (finalize_rotations).       *)
RotationIsFair == \A n \in Names, written \in SUBSET Chapters :
  /\ LastAppearance(n) = LastChapter => ~IsMissing(n, 0, written, 1) /\ ~IsMissing(n, n, written, 1)
  /\ IsMissing(n, 0, written, 1) /\ LastChapter \in written => IsMissing(n, n, written, 1)
  /\ n \in Rotated(0) => \A c \in Appearances(n) : CountIn(c, 0) >= CountIn(c, n) /\ CountIn(c, n) = 1

(* find_table_last_row takes the last row of a table from the file's end   *)
(* on: it is right for the last table of a card, and a snapshot shows the  *)
(* tables that its card has and no other.                                  *)
SnapshotIsTold == \A n \in Names :
  /\ \A t \in DOMAIN snapshots[n] : HasTable(n, t)
  /\ \A t \in Tables : HasTable(n, t) /\ At(n, t) = Len(cards[n]) /\ RowsOf(n, t) # <<>>
       => LastRow(n, t) = Last(RowsOf(n, t))

(* What the tools tell of characters is what the cards say.                *)
CardsAreTold == RelationsAreTold /\ SearchFinds /\ RotationIsFair /\ SnapshotIsTold
=============================================================================
