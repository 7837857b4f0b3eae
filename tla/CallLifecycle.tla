---------------------------- MODULE CallLifecycle ----------------------------
(* What the engine promises of a tool call, without the turn loop: a call is  *)
(* issued once; it runs, or waits for an approval; a run may end in a         *)
(* question, at most one of which is asked at a time; a call that is answered *)
(* or dropped stays so.  Approvals are resolved one by one, in any order;     *)
(* they are dropped one by one by a failed command, and all together by the   *)
(* author's next message, which cannot come while a question is asked.        *)
EXTENDS Naturals

CONSTANT Calls

Statuses == {"unissued", "running", "awaiting", "asked", "answered", "dropped"}

VARIABLE status

Having(s) == { c \in Calls : status[c] = s }

\* The calls of S move to s.
Move(S, s) == status' = [c \in Calls |-> IF c \in S THEN s ELSE status[c]]

Init == status = [c \in Calls |-> "unissued"]

\* A response: some of its calls wait for an approval, the others run.  Only
\* when nothing runs, waits or is asked.
Issue ==
    /\ Having("running") \cup Having("awaiting") \cup Having("asked") = {}
    /\ \E S \in SUBSET Having("unissued") : \E A \in SUBSET S :
          status' = [c \in Calls |-> IF c \in A THEN "awaiting"
                                     ELSE IF c \in S THEN "running" ELSE status[c]]

\* A response that is cut: its calls are answered at once, or lost.
Cut ==
    /\ Having("running") \cup Having("awaiting") \cup Having("asked") = {}
    /\ \E S \in SUBSET Having("unissued") : \E A \in SUBSET S :
          status' = [c \in Calls |-> IF c \in A THEN "answered"
                                     ELSE IF c \in S THEN "dropped" ELSE status[c]]

\* One running call ends.  A second question takes the place of the first,
\* whose stub stays as its answer.
Finish(c) ==
    /\ status[c] = "running"
    /\ \/ Move({c}, "answered")
       \/ status' = [d \in Calls |-> IF d = c THEN "asked"
                                     ELSE IF status[d] = "asked" THEN "answered" ELSE status[d]]

\* The batch fails: the calls that have no result yet are lost, but for a
\* question, which is asked even if its stub cannot be recorded.
Lose ==
    \/ Move(Having("running"), "dropped")
    \/ \E c \in Having("running") :
          status' = [d \in Calls |-> IF d = c THEN "asked"
                                     ELSE IF status[d] = "running" THEN "dropped"
                                     ELSE IF status[d] = "asked" THEN "answered" ELSE status[d]]

\* An approval is granted or denied, or its result is lost.
Resolve(c) ==
    /\ status[c] = "awaiting" /\ Having("running") = {}
    /\ \E s \in {"answered", "dropped"} : Move({c}, s)

\* The question is answered, or its answer is lost.
Answer ==
    /\ Having("asked") # {} /\ Having("running") = {}
    /\ \E s \in {"answered", "dropped"} : Move(Having("asked"), s)

\* The author's next message.
Abandon == Having("asked") \cup Having("running") = {} /\ Move(Having("awaiting"), "dropped")

Next ==
    \/ Issue \/ Cut \/ Lose \/ Answer \/ Abandon
    \/ \E c \in Calls : Finish(c) \/ Resolve(c)

Spec == Init /\ [][Next]_status
=============================================================================
