----------------------------- MODULE PlotThreads -----------------------------
(***************************************************************************)
(* The logs a novel's plot is tracked in and the tools that answer from    *)
(* them: foreshadowings (ForeshadowTracker, KnowledgeDerive), the chain of *)
(* causes (PlotGraph on novel-knowledge causality.rs) and a tracking log   *)
(* (TrackingQuery), and what ImpactAnalysis says of deleting a chapter.    *)
(*                                                                         *)
(* Agents append rows and never change one.  A row keeps what its readers  *)
(* tell apart: the chapter (0 when the cell has none), how many cells it   *)
(* has and in which section of the file it is.                             *)
(***************************************************************************)
EXTENDS KnowledgeTables

CONSTANTS
  Ids,           \* foreshadowings
  Events,        \* events of the chain of causes
  MaxThreads, MaxCauses, MaxTracks   \* bounds on the rows of the three logs

ASSUME ThreadBounds ==
  MaxThreads \in Nat /\ MaxCauses \in Nat /\ MaxTracks \in Nat

VARIABLES
  threads,   \* rows of 伏笔追踪.md
  causes,    \* rows of 因果链.md
  tracks     \* rows of a tracking log, and of a table that follows it in the file

threadVars == <<threads, causes, tracks>>

States == {"pending", "resolved", "abandoned", "other"}
(* A split row counts its two ends: the seven columns make nine cells.     *)
Thread == [chapter : Chapter, id : Ids, state : States, expected : Chapter,
           cells : {7, 9}, section : {1, 2}]
Cause == [chapter : Chapter, from : Events, to : Events, columns : {4, 5}]
Track == [chapter : Chapter, section : {1, 2}]

ThreadsInit == threads = <<>> /\ causes = <<>> /\ tracks = <<>>

(* A section is never written again once the next one has begun.           *)
Follows(log, row) == \A i \in DOMAIN log : log[i].section <= row.section
AppendThread(row) ==
  /\ Len(threads) < MaxThreads /\ Follows(threads, row)
  /\ threads' = Append(threads, row)
  /\ UNCHANGED <<causes, tracks>>
AppendCause(row) ==
  /\ Len(causes) < MaxCauses
  /\ causes' = Append(causes, row)
  /\ UNCHANGED <<threads, tracks>>
AppendTrack(row) ==
  /\ Len(tracks) < MaxTracks /\ Follows(tracks, row)
  /\ tracks' = Append(tracks, row)
  /\ UNCHANGED <<threads, causes>>

ThreadsNext ==
  \/ \E row \in Thread : AppendThread(row)
  \/ \E row \in Cause : AppendCause(row)
  \/ \E row \in Track : AppendTrack(row)
ThreadsSpec == ThreadsInit /\ [][ThreadsNext]_threadVars

---------------------------------------------------------------------------
(* ForeshadowTracker: the first table, an id at a time, the last row wins. *)
Tracked(r) == r.section = 1 /\ r.cells >= 8
Step_KeepsAbandoned(open, r) ==
  CASE r.state = "pending" -> [i \in DOMAIN open \cup {r.id} |-> IF i = r.id THEN r.expected ELSE open[i]]
    [] r.state = "resolved" -> [i \in DOMAIN open \ {r.id} |-> open[i]]
    [] OTHER -> open
StepThread(open, r) ==
  CASE r.state = "pending" -> [i \in DOMAIN open \cup {r.id} |-> IF i = r.id THEN r.expected ELSE open[i]]
    [] r.state \in {"resolved", "abandoned"} -> [i \in DOMAIN open \ {r.id} |-> open[i]]
    [] OTHER -> open
OpenThreads ==
  LET upTo[k \in 0 .. Len(threads)] ==
        IF k = 0 THEN <<>>
        ELSE IF Tracked(threads[k]) THEN StepThread(upTo[k - 1], threads[k]) ELSE upTo[k - 1]
  IN upTo[Len(threads)]

(* Without an expected chapter a thread is upcoming, whatever the distance. *)
Bucket(expected, current, threshold) ==
  CASE expected = 0 -> "upcoming"
    [] expected # 0 /\ expected < current -> "overdue"
    [] expected # 0 /\ expected >= current /\ expected - current <= threshold -> "urgent"
    [] OTHER -> "upcoming"
Buckets(current, threshold) ==
  [b \in {"overdue", "urgent", "upcoming"} |->
     {i \in DOMAIN OpenThreads : Bucket(OpenThreads[i], current, threshold) = b}]

(* KnowledgeDerive foreshadow_categories: every row of the file.           *)
Categories ==
  [s \in States |-> {threads[i].id : i \in {j \in DOMAIN threads : threads[j].state = s}}]

---------------------------------------------------------------------------
(* The chain of causes.  A row with an empty cell has a column less and is *)
(* not read; an edge that would close a circle is dropped, its events stay. *)
Neighbours(edges, e) == {edges[i].to : i \in {j \in DOMAIN edges : edges[j].from = e}}
Closed(edges, S) == \A i \in DOMAIN edges : edges[i].from \in S => edges[i].to \in S
Reached(edges, S) ==
  {e \in Events : \A C \in SUBSET Events : S \subseteq C /\ Closed(edges, C) => e \in C}
WouldCreateCycle_Direct(edges, from, to) == from = to \/ from \in Neighbours(edges, to)
WouldCreateCycle(edges, from, to) == from = to \/ from \in Reached(edges, {to})

NoEdges == [nodes |-> {}, edges |-> <<>>]
AddEdge(g, r) ==
  LET nodes == g.nodes \cup {r.from, r.to} IN
  IF r.columns < 5 THEN g
  ELSE IF WouldCreateCycle(g.edges, r.from, r.to) THEN [g EXCEPT !.nodes = nodes]
  ELSE [nodes |-> nodes, edges |-> Append(g.edges, r)]
Graph ==
  LET upTo[k \in 0 .. Len(causes)] == IF k = 0 THEN NoEdges ELSE AddEdge(upTo[k - 1], causes[k])
  IN upTo[Len(causes)]
Turned(edges) == [i \in DOMAIN edges |-> [edges[i] EXCEPT !.from = edges[i].to, !.to = edges[i].from]]

(* petgraph lists the newest edge of a node first; an event is pushed when *)
(* it is visited the first time, and the stack is popped from its end.     *)
NewFrom(edges, e, visited) ==
  LET newest == [i \in DOMAIN edges |-> Len(edges) + 1 - i]
      places == Kept(newest, {i \in DOMAIN edges :
                  /\ edges[i].from = e /\ edges[i].to \notin visited
                  /\ \A j \in i + 1 .. Len(edges) : edges[j].from = e => edges[j].to # edges[i].to})
  IN [i \in DOMAIN places |-> edges[places[i]].to]
Pop(edges, depth, walk) ==
  LET top == Last(walk.stack)
      new == IF top.at >= depth THEN <<>> ELSE NewFrom(edges, top.event, walk.visited)
  IN [stack   |-> Front(walk.stack) \o [i \in DOMAIN new |-> [event |-> new[i], at |-> top.at + 1]],
      visited |-> walk.visited \cup ToSet(new),
      out     |-> IF top.at > 0 THEN Append(walk.out, top.event) ELSE walk.out]
(* Each event of the graph is popped once at most.                         *)
Walk(edges, pops, depth, start) ==
  LET after[k \in 0 .. pops] ==
        IF k = 0 THEN [stack |-> <<[event |-> start, at |-> 0]>>, visited |-> {start}, out |-> <<>>]
        ELSE IF after[k - 1].stack = <<>> THEN after[k - 1] ELSE Pop(edges, depth, after[k - 1])
  IN after[pops]
Traverse(event, depth, forward) ==
  IF event \notin Graph.nodes THEN <<>>
  ELSE Walk(IF forward THEN Graph.edges ELSE Turned(Graph.edges),
            Cardinality(Graph.nodes), depth, event).out

---------------------------------------------------------------------------
(* TrackingQuery reads from the heading to the end of the file.            *)
LastTracked == IF tracks = <<>> THEN 0 ELSE Last(tracks).chapter
TrackedIn(from, to) == Kept(tracks, {r \in ToSet(tracks) : r.chapter >= from /\ r.chapter <= to})

(* ImpactAnalysis on these files: rows of the chapter and of later ones.   *)
ImpactedThreads(c) == {threads[i].id : i \in {j \in DOMAIN threads :
                          threads[j].cells >= 7 /\ threads[j].chapter >= c}}
ImpactedEvents(c) == {causes[i].from : i \in {j \in DOMAIN causes : causes[j].chapter >= c}}
TimelineImpacted(c) == tracks # <<>> /\ LastTracked >= c

---------------------------------------------------------------------------
(* Every reader of the foreshadowings tells the same of one (parse_pending *)
(* _foreshadows, build_output, derive_foreshadow_categories): a thread is  *)
(* open for the tracker when the last row that decides is pending, it is   *)
(* then in one bucket and among the pending of KnowledgeDerive, a closed   *)
(* one is in no bucket, and an overdue one stays so as the novel goes on.  *)
(* KnowledgeDerive goes row by row, so it keeps a closed thread among the  *)
(* pending as well, and of that nothing is claimed.                        *)
Decides(r) == Tracked(r) /\ r.state # "other"
IsOpen(i) == \E j \in DOMAIN threads :
  /\ threads[j].id = i /\ Decides(threads[j]) /\ threads[j].state = "pending"
  /\ \A k \in j + 1 .. Len(threads) : threads[k].id = i => ~Decides(threads[k]) \/ threads[k].state = "pending"
ThreadsAgree == \A i \in Ids, current \in Chapter, threshold \in 0 .. 1 :
  LET here == {b \in DOMAIN Buckets(current, threshold) : i \in Buckets(current, threshold)[b]}
  IN /\ Cardinality(here) = (IF IsOpen(i) THEN 1 ELSE 0)
     /\ IsOpen(i) => i \in Categories["pending"]
     /\ "overdue" \in here => \A later \in current .. LastChapter :
                                   i \in Buckets(later, threshold)["overdue"]

(* PlotGraph tells of causes (CausalityGraph): the graph has no circle,    *)
(* an edge is missing only when the rows before it lead back, an answer    *)
(* names events that the graph reaches within the depth, each once, and    *)
(* with a depth that no path exceeds it names them all.                    *)
Further(edges, S) == S \cup UNION {Neighbours(edges, e) : e \in S}
Within(edges, S, d) ==
  LET upTo[k \in 0 .. d] == IF k = 0 THEN S ELSE Further(edges, upTo[k - 1]) IN upTo[d]
CausesAreTold ==
  LET g == Graph
      answer == [e \in Events |-> [d \in 0 .. 4 |-> [f \in BOOLEAN |-> Traverse(e, d, f)]]]
      along(f) == IF f THEN g.edges ELSE Turned(g.edges)
  IN /\ \A e \in g.nodes : e \notin Reached(g.edges, Neighbours(g.edges, e))
     /\ \A i \in DOMAIN causes : causes[i].columns = 5 =>
          \/ causes[i].to \in Neighbours(g.edges, causes[i].from)
          \/ causes[i].from \in Reached(g.edges, {causes[i].to})
     /\ \A e \in g.nodes, f \in BOOLEAN : \A d \in 0 .. 4 :
          LET told == answer[e][d][f] IN
          /\ ToSet(told) \subseteq Within(along(f), {e}, d) \ {e}
          /\ Cardinality(ToSet(told)) = Len(told)
          /\ d >= Cardinality(g.nodes) - 1 => ToSet(told) = Reached(along(f), {e}) \ {e}

(* What the tools tell of threads and causes is what the logs say.         *)
PlotIsTold == ThreadsAgree /\ CausesAreTold
=============================================================================
