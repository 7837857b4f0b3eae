---------------------------- MODULE MCKnowledge ----------------------------
(***************************************************************************)
(* Instances of KnowledgeBase, TodoList and ToolGate for TLC: the tools of *)
(* a novel and the gate before them.  The files share no state but the     *)
(* chapters, and nothing with the todos and the gate, so a behaviour keeps *)
(* to one topic, and the bounds of a topic do not multiply with those of   *)
(* another; the topic impact has rows in all the files that ImpactAnalysis *)
(* reads.                                                                  *)
(***************************************************************************)
EXTENDS KnowledgeBase, TodoList, ToolGate
CONSTANTS MaxImpactRows, Topics
VARIABLE topic

MCLayouts == {<<"identity", "appearances", "relations">>, <<"relations", "identity">>}
Filled(entry) == [f \in Fields |-> entry]
MCCells == {Filled("blank"), Filled("dash"), [Filled("blank") EXCEPT !["event"] = "text"]}
MCPlans == {r \in [chapter : Chapter, bare : BOOLEAN, cells : MCCells, tension : {6}] :
              r.chapter = 0 => r.cells = Filled("blank") /\ r.bare}
MCScenes == {<<>>, <<[pov |-> 1, world |-> 0], [pov |-> 2, world |-> 1]>>,
             <<[pov |-> 0, world |-> 0], [pov |-> 1, world |-> 0]>>}
MCDetails == [scenes : MCScenes, has : {{}, {"scene", "event", "pov"}}, pov : {0}, world : {0}]
               \cup [scenes : {<<>>}, has : {{}}, pov : {2}, world : {0}]
ThreadRows == {r \in Thread : /\ r.chapter = 0
                              /\ r.cells = 7 => r.section = 1
                              /\ r.state # "pending" => r.expected = 0}

About(t) == topic = t /\ topic' = topic
Rest(t) == About(t) /\ UNCHANGED <<todoVars, gateVars>>
OnLedger == Rest("ledger") /\ LedgerNext /\ UNCHANGED <<threadVars, cardVars, outlineVars, toc>>
Others == UNCHANGED <<ledgerVars, cardVars, outlineVars, toc>>
OnThreads == Rest("threads") /\ (\E r \in ThreadRows : AppendThread(r)) /\ Others
OnCauses == Rest("causes") /\ (\E r \in [chapter : {1}, from : Events, to : Events, columns : {4, 5}] :
                                 (r.columns = 4 => r.from # r.to) /\ AppendCause(r)) /\ Others
OnCards ==
  /\ Rest("cards")
  /\ \/ \E n \in Names : \/ \E l \in Layouts : CreateCard(n, l, TRUE)
                         \/ \E w \in Words, t \in {"identity", "appearances"} :
                              AppendRow(n, t, Data(1, w))
                         \/ \E c \in Chapter, w \in Names \ {n} : AppendRow(n, "relations", Data(c, w))
     \/ DeriveRelations
     \/ \E n, o \in Names : n # o /\ AppendRelation([chapter |-> 1, speaker |-> n, object |-> o])
  /\ UNCHANGED <<ledgerVars, threadVars, outlineVars, toc>>
OnSnapshot ==
  /\ Rest("snapshot")
  /\ \E n \in Names :
       \/ \E l \in Layouts, b \in BOOLEAN : CreateCard(n, l, b)
       \/ \E c \in Chapters, w \in Words, t \in {"identity", "appearances"} : AppendRow(n, t, Data(c, w))
       \/ DeriveSnapshot(n)
  /\ UNCHANGED <<ledgerVars, threadVars, outlineVars, toc>>
OnOutline ==
  /\ Rest("outline") /\ OutlineNext
  /\ written' # written => outline = <<>> /\ details = <<>>
  /\ UNCHANGED <<ledgerVars, threadVars, cardVars, toc>>

Written == Len(threads) + Len(causes) + Len(tracks) + RowCount
OnImpact ==
  /\ Rest("impact")
  /\ \/ /\ Written < MaxImpactRows
        /\ \/ \E c \in Chapter, i \in {"F1"}, n \in {7, 9} :
                AppendThread([chapter |-> c, id |-> i, state |-> "pending", expected |-> 0, cells |-> n, section |-> 1])
           \/ \E c \in Chapter :
                AppendCause([chapter |-> c, from |-> "E1", to |-> "E2", columns |-> 5])
           \/ \E r \in Track : AppendTrack(r)
        /\ UNCHANGED <<ledgerVars, cardVars, outlineVars, toc>>
     \/ /\ Written < MaxImpactRows
        /\ \/ \E l \in Layouts : CreateCard(1, l, TRUE)
           \/ \E c \in Chapter, w \in Words, t \in {"identity", "appearances"} :
                AppendRow(1, t, Data(c, w))
        /\ UNCHANGED <<ledgerVars, threadVars, outlineVars, toc>>
     \/ Written = MaxImpactRows /\ toc = NoToc /\ RebuildToc

Now(i) == [id |-> i, status |-> "in_progress"]
Over(i) == [id |-> i, status |-> "completed"]
MCTodoBatches == {<<Now(1)>>, <<Now(2), Over(1)>>, <<Now(1), Now(2)>>, <<Now(1), Over(1)>>}
OnTodos == About("todos") /\ UNCHANGED <<baseVars, gateVars>> /\ TodoNext

Calling(tool, place) == [tool |-> tool, place |-> place]
MCGateCalls == {Calling("Bash", {}), Calling("Write", {"chapters"}), Calling("ForkSubAgent", {}),
                Calling("AskUserQuestion", {}), Calling("Edit", {"memory"})}
AsInstalled == [deny |-> {}, allow |-> {}, hooks |-> {"Write(chapters/**)"}, loops |-> 15]
ByHand == [deny |-> {"Write(chapters/**)"}, allow |-> {"KnowledgeDerive"}, hooks |-> {"Bash"}, loops |-> 0]
MCGateSettings == {AsInstalled, ByHand}
MainCalls(c) == c.tool # "Edit" /\ (c.tool = "AskUserQuestion" => settings = ByHand)
OnGate ==
  /\ About("gate") /\ UNCHANGED <<baseVars, todoVars>> /\ GateNext
  /\ \A c \in ready' \cup waiting' : MainCalls(c)

Init ==
  /\ BaseInit /\ TodosInit /\ GateInit /\ topic \in Topics
  /\ topic # "gate" => settings = AsInstalled /\ mode = "normal"
  /\ topic # "ledger" => there
  /\ topic # "outline" => known
Next == OnLedger \/ OnThreads \/ OnCauses \/ OnCards \/ OnSnapshot \/ OnOutline \/ OnImpact
        \/ OnTodos \/ OnGate
Spec == Init /\ [][Next]_<<baseVars, todoVars, gateVars, topic>>
=============================================================================
