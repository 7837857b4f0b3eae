---------------------------- MODULE KnowledgeBase ----------------------------
(***************************************************************************)
(* The knowledge files of a novel together: cards, logs, plan and ledger,  *)
(* the table of contents INDEX.md (novel-knowledge index.rs), and          *)
(* ImpactAnalysis, which reads all of them before a chapter is deleted or  *)
(* revised.  The tracking log of PlotThreads is the timeline here.         *)
(***************************************************************************)
EXTENDS AuditLedger, PlotThreads, CharacterCards, Outline

VARIABLE toc   \* INDEX.md: what it lists and counts, or NoToc

baseVars == <<ledgerVars, threadVars, cardVars, outlineVars, toc>>
NoToc == [there |-> FALSE]

BaseInit == LedgerInit /\ ThreadsInit /\ CardsInit /\ OutlineInit /\ toc = NoToc

(* KnowledgeDerive rebuild_index, and ensure_index when there is no file.  *)
(* Links to the files of the plot and the section of worlds are left out.  *)
TocCharacters == {n \in Names : cards[n] # NoCard}
TocProgress == [done |-> Cardinality(DOMAIN written), latest |-> Greatest(DOMAIN written)]
RebuildToc ==
  /\ toc' = [there |-> TRUE, cards |-> TocCharacters, progress |-> TocProgress]
  /\ UNCHANGED <<ledgerVars, threadVars, cardVars, outlineVars>>

BaseNext ==
  \/ LedgerNext /\ UNCHANGED <<threadVars, cardVars, outlineVars, toc>>
  \/ ThreadsNext /\ UNCHANGED <<ledgerVars, cardVars, outlineVars, toc>>
  \/ CardsNext /\ UNCHANGED <<ledgerVars, threadVars, outlineVars, toc>>
  \/ OutlineNext /\ UNCHANGED <<ledgerVars, threadVars, cardVars, toc>>
  \/ RebuildToc
BaseSpec == BaseInit /\ [][BaseNext]_baseVars

(* ImpactAnalysis.  A card without a log of appearances is searched up to  *)
(* its first heading, where there are no rows; of an edge only the cause   *)
(* is named.                                                               *)
ImpactedCards_Header(c) ==
  {n \in Names : HasTable(n, "appearances") /\ RowsOf(n, "appearances") # <<>>
     /\ RowsOf(n, "appearances")[1].chapter >= c}
ImpactedCards(c) ==
  {n \in Names : \E r \in ToSet(RowsOf(n, "appearances")) : r.chapter >= c}
Impact(c) ==
  [cards    |-> ImpactedCards(c),
   threads  |-> ImpactedThreads(c),
   events   |-> ImpactedEvents(c),
   timeline |-> TimelineImpacted(c),
   detail   |-> c \in DOMAIN details,
   chapter  |-> c \in DOMAIN written,
   toc      |-> toc.there]

(* ImpactAnalysis, whose answer the cascade of a deletion starts from,     *)
(* misses nothing that other tools still tell of the chapter or of a later *)
(* one: a character that CharacterRotate saw there, a thread that the      *)
(* tracker holds open since then, an event that PlotGraph tells with that  *)
(* chapter, where an effect is not named itself but PlotGraph tells it     *)
(* when asked of the cause that is; and of an earlier chapter it names no  *)
(* less.  The timeline is told by its last row, which speaks for all while *)
(* the log is in order and ends the file.                                  *)
TimelineInOrder == \A i \in DOMAIN tracks :
  tracks[i].section = 1 /\ \A j \in i + 1 .. Len(tracks) : tracks[i].chapter <= tracks[j].chapter
ImpactMissesNothing == \A c \in Chapters :
  /\ \A n \in Names : LastAppearance(n) >= c => n \in Impact(c).cards
  /\ \A i \in DOMAIN OpenThreads :
       (\E j \in DOMAIN threads : threads[j].id = i /\ Decides(threads[j]) /\ threads[j].chapter >= c)
         => i \in Impact(c).threads
  /\ \A i \in DOMAIN Graph.edges : Graph.edges[i].chapter >= c =>
       \E e \in Impact(c).events :
          /\ e = Graph.edges[i].from
          /\ Graph.edges[i].to \in ToSet(Traverse(e, Cardinality(Graph.nodes), TRUE))
  /\ TimelineInOrder /\ TrackedIn(c, LastChapter) # <<>> => Impact(c).timeline
  /\ \A d \in 1 .. c : /\ Impact(c).cards \subseteq Impact(d).cards
                       /\ Impact(c).threads \subseteq Impact(d).threads
                       /\ Impact(c).events \subseteq Impact(d).events
=============================================================================
