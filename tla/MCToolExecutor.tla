--------------------------- MODULE MCToolExecutor ---------------------------
(* Three calls of a response: safe and exclusive ones that run, one that      *)
(* waits for the author, one that is refused, and arguments of every sort.    *)
EXTENDS ToolExecutor

Kind(tool, verdict, args, bare) ==
    [tool |-> tool, verdict |-> verdict, args |-> args, bare |-> bare]

KindList == <<Kind("safe", "allow", "object", FALSE), Kind("exclusive", "allow", "object", TRUE),
              Kind("safe", "allow", "none", TRUE), Kind("exclusive", "ask", "object", TRUE),
              Kind("safe", "allow", "invalid", FALSE)>>

SomeKinds == Range(KindList)

\* No action tells the numbers of the calls apart, so one numbering is enough.
Sorted ==
    \A c, d \in CallIds, i, j \in DOMAIN KindList :
        c < d /\ kind[c] = KindList[i] /\ kind[d] = KindList[j] => i <= j

SortedInit == Init /\ Sorted
SortedSpec == SortedInit /\ [][Next]_vars
              /\ WF_vars(EngineStep) /\ WF_vars(TaskStarts)
==============================================================================
