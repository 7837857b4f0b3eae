------------------------------- MODULE Outline -------------------------------
(***************************************************************************)
(* The plan of a novel and how far it is written: the table of the outline *)
(* 大纲.md, one detailed outline per chapter, the chapter files.  PlotGrid   *)
(* merges the plans into one table, Corkboard lists the scenes, the hint   *)
(* of progress in the system prompt counts (dynamic_context/progress.rs),  *)
(* Stats counts words.                                                     *)
(***************************************************************************)
EXTENDS KnowledgeTables

CONSTANTS
  Plans,       \* rows that an agent may add to the outline
  PlanDetails, \* detailed outlines that an agent may write
  MaxPlanned,  \* bound on rows of the outline
  MaxScenes    \* bound on scenes of a detailed outline

VARIABLES
  known,    \* whether the header of the outline names its columns as the tools do
  outline,  \* rows of the outline
  details,  \* the detailed outlines, by chapter
  written   \* the chapters with a file: whether the file has the plain name

outlineVars == <<known, outline, details, written>>

(* A row of the outline is [chapter, bare, cells, tension]: its chapter is *)
(* written as a bare number or as Ch3, 0 when the row has none, a tension  *)
(* without a digit is 3, a cell has a text, nothing, or a dash.  A         *)
(* detailed outline says something for the columns in has; its head and    *)
(* each of its scenes name a point of view and a world, 0 when they do     *)
(* not.                                                                    *)
Fields == {"scene", "event", "foreshadowing", "pov", "time"}
Filling == {"text", "blank", "dash"}
Plan == [chapter : Chapter, bare : BOOLEAN, cells : [Fields -> Filling], tension : Int]
Scene == [pov : Nat, world : Nat]
Detail == [scenes : Seq(Scene), has : SUBSET (Fields \ {"time"}), pov : Nat, world : Nat]

ASSUME OutlineBounds ==
  /\ MaxPlanned \in Nat /\ MaxScenes \in Nat
  /\ Plans \subseteq Plan /\ PlanDetails \subseteq Detail

OutlineInit ==
  /\ known \in BOOLEAN /\ outline = <<>> /\ details = <<>> /\ written = <<>>

PlanChapter(row) ==
  /\ Len(outline) < MaxPlanned
  /\ outline' = Append(outline, row)
  /\ UNCHANGED <<known, details, written>>
WriteDetail(c, detail) ==
  /\ c # 0 /\ Len(detail.scenes) <= MaxScenes
  /\ details' = [d \in DOMAIN details \cup {c} |-> IF d = c THEN detail ELSE details[d]]
  /\ UNCHANGED <<known, outline, written>>
WriteChapter(c, plain) ==
  /\ c # 0 /\ c \notin DOMAIN written
  /\ written' = [d \in DOMAIN written \cup {c} |-> IF d = c THEN plain ELSE written[d]]
  /\ UNCHANGED <<known, outline, details>>
DeleteChapter(c) ==
  /\ c \in DOMAIN written
  /\ written' = [d \in DOMAIN written \ {c} |-> written[d]]
  /\ UNCHANGED <<known, outline, details>>

OutlineNext ==
  \/ \E row \in Plans : PlanChapter(row)
  \/ \E c \in Chapters :
       \/ \E detail \in PlanDetails : WriteDetail(c, detail)
       \/ \E plain \in BOOLEAN : WriteChapter(c, plain)
       \/ DeleteChapter(c)
OutlineSpec == OutlineInit /\ [][OutlineNext]_outlineVars

---------------------------------------------------------------------------
(* PlotGrid: under an unknown header the chapter is looked for in the      *)
(* title and no row is read; the last row of a chapter stays.  A grid says *)
(* from where a column has its text, or which filler it has; dashes among  *)
(* the foreshadowings are dropped.                                         *)
Clamped(t) == Max({1, Min({5, t})})
Filler(f) == IF f \in {"pov", "time"} THEN "dash" ELSE "blank"
Read(f, entry) == IF entry = "text" THEN "outline"
                  ELSE IF f = "foreshadowing" THEN "blank" ELSE entry
OutlineRow(r) == [from |-> [f \in Fields |-> Read(f, r.cells[f])], tension |-> Clamped(r.tension)]
DetailRow(d) == [from |-> [f \in Fields |-> IF f \in d.has THEN "detail" ELSE Filler(f)], tension |-> 3]
FromOutline(range) ==
  LET read == IF known THEN {i \in DOMAIN outline : outline[i].chapter # 0 /\ InRange(outline[i].chapter, range)}
              ELSE {}
  IN [c \in {outline[i].chapter : i \in read} |->
        OutlineRow(outline[Max({i \in read : outline[i].chapter = c})])]
(* A column takes the text of the detailed outline when it has its own     *)
(* filler, the time never.                                                 *)
Merged_Over(row, detail) ==
  [from |-> [f \in Fields |-> IF f = "time" \/ detail.from[f] = Filler(f) THEN row.from[f] ELSE detail.from[f]],
   tension |-> Max({row.tension, detail.tension})]
Merged(row, detail) ==
  [from |-> [f \in Fields |-> IF f # "time" /\ row.from[f] = Filler(f) THEN detail.from[f] ELSE row.from[f]],
   tension |-> Max({row.tension, detail.tension})]
Hidden(f) == IF f = "foreshadowing" THEN "blank" ELSE "dash"
Masked(row, shown) ==
  [from |-> [f \in Fields |-> IF f \in shown THEN row.from[f] ELSE Hidden(f)],
   tension |-> IF "tension" \in shown THEN row.tension ELSE 0]
Grid(range, shown) ==
  LET rows == FromOutline(range)
      detailed == {c \in DOMAIN details : InRange(c, range)}
      all == [c \in DOMAIN rows \cup detailed |->
                CASE c \notin detailed -> rows[c]
                  [] c \notin DOMAIN rows -> DetailRow(details[c])
                  [] OTHER -> Merged(rows[c], DetailRow(details[c]))]
  IN [c \in DOMAIN all |-> Masked(all[c], shown)]

(* Corkboard: a card for each scene, or one for a plan without scenes.  A  *)
(* scene that names no point of view has the first that the file names, be *)
(* it another scene's, and so with the world.                              *)
FirstNamed(named) ==
  LET i == SelectInSeq(named, LAMBDA name : name # 0) IN IF i = 0 THEN 0 ELSE named[i]
FilePov(d) == FirstNamed(<<d.pov>> \o [i \in DOMAIN d.scenes |-> d.scenes[i].pov])
FileWorld(d) == FirstNamed(<<d.world>> \o [i \in DOMAIN d.scenes |-> d.scenes[i].world])
Cards(c) == LET d == details[c] IN
  IF d.scenes = <<>> THEN <<[chapter |-> c, scene |-> 1, pov |-> d.pov, world |-> d.world]>>
  ELSE [i \in DOMAIN d.scenes |->
          [chapter |-> c, scene |-> i,
           pov |-> FirstNamed(<<d.scenes[i].pov, FilePov(d)>>),
           world |-> FirstNamed(<<d.scenes[i].world, FileWorld(d)>>)]]
IsWanted(card, pov, world) == pov \in {0, card.pov} /\ world \in {0, card.world}
Corkboard(range, pov, world) ==
  {card \in UNION {ToSet(Cards(c)) : c \in {d \in DOMAIN details : InRange(d, range)}} :
     IsWanted(card, pov, world)}

(* The hint of progress: bare numbers are read under either header.        *)
Completed == Cardinality(DOMAIN written)
NextChapter == Completed + 1
PlannedChapters == Greatest({outline[i].chapter : i \in {j \in DOMAIN outline : outline[j].bare}})

(* Stats of one chapter needs the plain name, of all it does not.          *)
StatsFinds(c) == c \in DOMAIN written /\ written[c]
StatsCounts == {c \in DOMAIN written : c # 0}

---------------------------------------------------------------------------
(* PlotGrid and Corkboard lose no plan (build_plot_grid, merge_detail_into *)
(* _row, parse_scene_sections): a chapter with a row of a known outline or *)
(* with a detailed outline is in the grid, each cell has the text of its   *)
(* last row and else that of the detailed outline, a mask or a range       *)
(* changes nothing else, and the hint of progress counts no fewer chapters *)
(* than the grid has rows for.  A filler that the merge does not know, a   *)
(* dash as a title or an event or nothing as a point of view, hides the    *)
(* text of the detailed outline.  A scene that names its point of view is  *)
(* found by that name and no other.  The next chapter that the hint        *)
(* suggests has no file yet, as long as none was deleted before the last   *)
(* (load_progress).                                                        *)
Shown == {Fields \cup {"tension"}, {"tension"}, Fields}
Ranges == {<<>>} \cup {<<a, b>> : a, b \in Chapters}
IsLastRow(i) == /\ known /\ outline[i].chapter # 0
                /\ \A j \in i + 1 .. Len(outline) : outline[j].chapter # outline[i].chapter
Hides(f, entry) == \/ entry = "text"
                   \/ f \in {"scene", "event"} /\ entry = "dash"
                   \/ f = "pov" /\ entry = "blank"
PovsNamed == {s.pov : s \in UNION {ToSet(details[c].scenes) : c \in DOMAIN details}} \ {0}
ScenesAreFound == \A c \in DOMAIN details : \A i \in DOMAIN details[c].scenes, p \in PovsNamed :
  details[c].scenes[i].pov # 0 =>
    ((\E card \in Corkboard(<<>>, p, 0) : card.chapter = c /\ card.scene = i) <=> p = details[c].scenes[i].pov)
PlansAreKept ==
  LET whole == Grid(<<>>, Fields \cup {"tension"}) IN
  /\ DOMAIN details \subseteq DOMAIN whole
  /\ \A i \in DOMAIN outline :
       LET r == outline[i] IN
       (known /\ r.chapter # 0) =>
         /\ r.chapter \in DOMAIN whole
         /\ r.bare => r.chapter <= PlannedChapters
         /\ IsLastRow(i) => \A f \in Fields : r.cells[f] = "text" => whole[r.chapter].from[f] = "outline"
  /\ \A c \in DOMAIN details : \A f \in details[c].has :
       \/ whole[c].from[f] = "detail"
       \/ \E i \in DOMAIN outline : IsLastRow(i) /\ outline[i].chapter = c /\ Hides(f, outline[i].cells[f])
  /\ \A range \in Ranges, shown \in Shown :
       LET g == Grid(range, shown) IN
       /\ DOMAIN g = {c \in DOMAIN whole : InRange(c, range)}
       /\ \A c \in DOMAIN g : \A f \in shown \cap Fields : g[c].from[f] = whole[c].from[f]
  /\ {c \in Chapters : StatsFinds(c)} \subseteq StatsCounts /\ Cardinality(StatsCounts) = Completed
  /\ DOMAIN written = 1 .. Completed => NextChapter \notin DOMAIN written
  /\ \A range \in Ranges : {x.chapter : x \in Corkboard(range, 0, 0)} = DOMAIN details \cap DOMAIN Grid(range, {})
  /\ ScenesAreFound
=============================================================================
