------------------------- MODULE ToolExecutor_proofs -------------------------
(* What holds of the calls of a response and their tasks, for any number and  *)
(* any kinds of calls and any limit of concurrency.                           *)
EXTENDS ToolExecutor, FiniteSetTheorems, Subsequences_proofs

(* The elements of sequences                                                  *)

LEMMA ElementsOfSeq ==
    ASSUME NEW T, NEW s \in Seq(T)
    PROVE  /\ Range(s) \subseteq T
           /\ \A i \in 1 .. Len(s) : s[i] \in Range(s)
           /\ \A x \in Range(s) : \E i \in 1 .. Len(s) : x = s[i]
<1>1. DOMAIN s = 1 .. Len(s)
  BY LenProperties
<1>2. Range(s) = {s[i] : i \in 1 .. Len(s)}
  BY <1>1 DEF Range
<1> QED BY <1>2, ElementOfSeq

LEMMA ElementsOfKept ==
    ASSUME NEW T, NEW s \in Seq(T), NEW K
    PROVE  Kept(s, K) \in Seq(T) /\ Range(Kept(s, K)) = Range(s) \cap K
<1> DEFINE k == Kept(s, K)
<1>1. k \in Seq(T) /\ k \in Seq(T \cap K)
  BY KeptType
<1>2. PICK e : Places(s, K, e)
  BY KeptPlaces
<1>3. /\ \A i \in 1 .. Len(k) : k[i] = s[e[i]] /\ e[i] \in 1 .. Len(s)
      /\ \A n \in 1 .. Len(s) : s[n] \in K => \E i \in 1 .. Len(k) : e[i] = n
  BY <1>2 DEF Places
<1> HIDE DEF k
<1>4. /\ \A x \in Range(s) : \E i \in 1 .. Len(s) : x = s[i]
      /\ \A x \in Range(k) : \E i \in 1 .. Len(k) : x = k[i]
      /\ \A i \in 1 .. Len(s) : s[i] \in Range(s)
      /\ \A i \in 1 .. Len(k) : k[i] \in Range(k)
      /\ Range(k) \subseteq T \cap K
  BY <1>1, ElementsOfSeq
<1>5. Range(k) \subseteq Range(s)
  BY <1>3, <1>4
<1>6. ASSUME NEW x \in Range(s), x \in K PROVE x \in Range(k)
  <2>1. PICK n \in 1 .. Len(s) : x = s[n]
    BY <1>4
  <2>2. PICK i \in 1 .. Len(k) : e[i] = n
    BY <1>3, <1>6, <2>1
  <2>3. k[i] = x
    BY <1>3, <2>1, <2>2
  <2> QED BY <1>4, <2>3
<1> QED BY <1>1, <1>4, <1>5, <1>6 DEF k

LEMMA ElementsOfConcat ==
    ASSUME NEW T, NEW s \in Seq(T), NEW t \in Seq(T)
    PROVE  s \o t \in Seq(T) /\ Range(s \o t) = Range(s) \cup Range(t)
<1> DEFINE st == s \o t
<1>0. st \in Seq(T)
  OBVIOUS
<1>1. /\ \A x \in Range(s) : \E i \in 1 .. Len(s) : x = s[i]
      /\ \A x \in Range(t) : \E i \in 1 .. Len(t) : x = t[i]
      /\ \A x \in Range(st) : \E i \in 1 .. Len(st) : x = st[i]
      /\ \A i \in 1 .. Len(s) : s[i] \in Range(s)
      /\ \A i \in 1 .. Len(t) : t[i] \in Range(t)
      /\ \A i \in 1 .. Len(st) : st[i] \in Range(st)
  <2> HIDE DEF st
  <2> QED BY <1>0, ElementsOfSeq
<1>2. ASSUME NEW i \in 1 .. Len(s \o t) PROVE (s \o t)[i] \in Range(s) \cup Range(t)
  <2>1. CASE i <= Len(s)
    <3>1. i \in 1 .. Len(s) /\ (s \o t)[i] = s[i]
      BY <2>1
    <3> QED BY <1>1, <3>1
  <2>2. CASE i > Len(s)
    <3>1. i - Len(s) \in 1 .. Len(t) /\ (s \o t)[i] = t[i - Len(s)]
      BY <2>2
    <3> QED BY <1>1, <3>1
  <2> QED BY <2>1, <2>2
<1>3. ASSUME NEW i \in 1 .. Len(s) PROVE s[i] \in Range(s \o t)
  <2>1. i \in 1 .. Len(s \o t) /\ (s \o t)[i] = s[i]
    OBVIOUS
  <2> QED BY <1>1, <2>1
<1>4. ASSUME NEW i \in 1 .. Len(t) PROVE t[i] \in Range(s \o t)
  <2>1. i + Len(s) \in 1 .. Len(s \o t) /\ (s \o t)[i + Len(s)] = t[i]
    OBVIOUS
  <2> QED BY <1>1, <2>1
<1> HIDE DEF st
<1> QED BY <1>0, <1>1, <1>2, <1>3, <1>4 DEF st

LEMMA ElementsOfAppend ==
    ASSUME NEW T, NEW s \in Seq(T), NEW x \in T
    PROVE  Append(s, x) \in Seq(T) /\ Range(Append(s, x)) = Range(s) \cup {x}
<1>1. <<x>> \in Seq(T) /\ Append(s, x) = s \o <<x>>
  OBVIOUS
<1>2. Range(<<x>>) = {x}
  BY DEF Range
<1>3. s \o <<x>> \in Seq(T) /\ Range(s \o <<x>>) = Range(s) \cup Range(<<x>>)
  BY <1>1, ElementsOfConcat
<1> QED BY <1>1, <1>2, <1>3

LEMMA NothingInEmpty ==
    ASSUME NEW T, NEW s \in Seq(T)
    PROVE  Range(s) = {} <=> s = <<>>
<1>1. /\ \A i \in 1 .. Len(s) : s[i] \in Range(s)
      /\ \A x \in Range(s) : \E i \in 1 .. Len(s) : x = s[i]
  BY ElementsOfSeq
<1>2. ASSUME s # <<>> PROVE 1 \in 1 .. Len(s)
  BY <1>2
<1> QED BY <1>1, <1>2

-----------------------------------------------------------------------------
(* What holds of the calls: each is handled once, with one verdict; those     *)
(* that are allowed are queued or have a task; a task that is over has        *)
(* pushed its result.                                                         *)
TaskStates == {"none", "spawned", "running", "ok", "error"}
DispatchType ==
    /\ kind \in [CallIds -> Kinds]
    /\ handled \subseteq CallIds /\ executed \subseteq CallIds
    /\ pendingSpecs \subseteq CallIds /\ denied \subseteq CallIds
    /\ handled = executed \cup pendingSpecs \cup denied
    /\ queue \in Seq(CallIds) /\ completed \in Seq(CallIds)
    /\ task \in [CallIds -> TaskStates]
OneVerdict ==
    executed \cap pendingSpecs = {} /\ executed \cap denied = {} /\ pendingSpecs \cap denied = {}
OnlyExecuted ==
    /\ Range(queue) \subseteq executed
    /\ \A c \in CallIds : task[c] # "none" => c \in executed
AllExecuted == \A c \in executed : task[c] # "none" \/ c \in Range(queue)
ResultsPushed == \A c \in CallIds : Ended(c) <=> c \in Range(completed)
QueueIsStarted == ~watch => \A c \in Range(queue) : task[c] # "none"
CallsInv ==
    /\ DispatchType /\ OneVerdict /\ OnlyExecuted /\ AllExecuted /\ ResultsPushed /\ QueueIsStarted

(* add_tool_spec and try_execute_queued: what is queued is started, unless an *)
(* abort has come through, and stays queued if it is not exclusive.           *)
LEMMA AddedTools ==
    ASSUME DispatchType, NEW cs \in Seq(CallIds), AddTools(cs)
    PROVE  /\ queue' \in Seq(CallIds) /\ task' \in [CallIds -> TaskStates] /\ completed' = completed
           /\ Range(queue') \subseteq Range(queue) \cup Range(cs)
           /\ \A c \in CallIds : task[c] # "none" => task'[c] = task[c]
           /\ \A c \in CallIds : task[c] = "none" => task'[c] \in {"none", "spawned"}
           /\ \A c \in CallIds : task'[c] # "none" => task[c] # "none" \/ c \in Range(queue) \cup Range(cs)
           /\ \A c \in Range(queue) \cup Range(cs) : task'[c] # "none" \/ c \in Range(queue')
           /\ ~watch => \A c \in Range(queue) \cup Range(cs) : task'[c] # "none"
<1> DEFINE q == queue \o cs
<1>1. q \in Seq(CallIds) /\ Range(q) = Range(queue) \cup Range(cs) /\ Range(q) \subseteq CallIds
  BY ElementsOfConcat, ElementsOfSeq DEF DispatchType
<1>2. /\ task' = [c \in CallIds |-> IF c \in Started(q) THEN "spawned" ELSE task[c]]
      /\ queue' = Left(q) /\ completed' = completed
  BY DEF AddTools
<1> HIDE DEF q
<1>3. Range(Waiting(q)) = {c \in Range(q) : task[c] = "none"}
  BY <1>1, ElementsOfKept DEF Waiting
<1>4. Started(q) = IF watch THEN {} ELSE {c \in Range(q) : task[c] = "none"}
  BY <1>3 DEF Started
<1>5. queue' \in Seq(CallIds) /\ Range(queue') \subseteq Range(q) /\ (watch => Range(queue') = Range(q))
  BY <1>1, <1>2, ElementsOfKept DEF Left
<1>6. task' \in [CallIds -> TaskStates]
  BY <1>2 DEF DispatchType, TaskStates
<1>7. \A c \in CallIds : task'[c] = IF c \in Started(q) THEN "spawned" ELSE task[c]
  BY <1>2
<1> QED BY <1>1, <1>2, <1>4, <1>5, <1>6, <1>7

(* The calls that are handled together get their verdicts, once.              *)
LEMMA HandledReady ==
    ASSUME CallsInv, NEW cs \in Seq(CallIds), NEW refused, Range(cs) \cap handled = {},
           HandleReady(cs, refused), watch' = watch, kind' = kind
    PROVE  /\ CallsInv' /\ handled' = handled \cup Range(cs)
           /\ executed' = executed \cup { c \in Range(cs) : Verdict(c, refused) = "allow" }
<1> DEFINE With(v) == { c \in Range(cs) : Verdict(c, refused) = v }
           allowed == Kept(cs, With("allow"))
<1>0. DispatchType /\ OneVerdict /\ OnlyExecuted /\ AllExecuted /\ ResultsPushed /\ QueueIsStarted
  BY DEF CallsInv
<1>1. Range(cs) \subseteq CallIds
  BY ElementsOfSeq
<1>2. allowed \in Seq(CallIds) /\ Range(allowed) = With("allow")
  BY ElementsOfKept
<1>3. /\ handled' = handled \cup Range(cs)
      /\ executed' = executed \cup With("allow")
      /\ pendingSpecs' = pendingSpecs \cup With("ask")
      /\ denied' = denied \cup With("deny")
      /\ AddTools(allowed)
  BY DEF HandleReady
<1>4. \A c \in Range(cs) : Verdict(c, refused) \in {"allow", "ask", "deny"}
  BY <1>0, <1>1, ExecutorAssumption DEF Verdict, DispatchType
<1>5. Range(cs) = With("allow") \cup With("ask") \cup With("deny")
  BY <1>4
<1> HIDE DEF allowed
<1>6. /\ queue' \in Seq(CallIds) /\ task' \in [CallIds -> TaskStates] /\ completed' = completed
      /\ Range(queue') \subseteq Range(queue) \cup With("allow")
      /\ \A c \in CallIds : task[c] # "none" => task'[c] = task[c]
      /\ \A c \in CallIds : task[c] = "none" => task'[c] \in {"none", "spawned"}
      /\ \A c \in CallIds : task'[c] # "none" => task[c] # "none" \/ c \in Range(queue) \cup With("allow")
      /\ \A c \in Range(queue) \cup With("allow") : task'[c] # "none" \/ c \in Range(queue')
      /\ ~watch => \A c \in Range(queue) \cup With("allow") : task'[c] # "none"
  BY <1>0, <1>2, <1>3, AddedTools
<1>7. DispatchType'
  BY <1>0, <1>1, <1>3, <1>5, <1>6 DEF DispatchType
<1>8. OneVerdict'
  <2>1. \A v : With(v) \cap (executed \cup pendingSpecs \cup denied) = {}
    BY <1>0 DEF DispatchType
  <2>2. With("allow") \cap With("ask") = {} /\ With("allow") \cap With("deny") = {} /\ With("ask") \cap With("deny") = {}
    OBVIOUS
  <2> HIDE DEF With
  <2> QED BY <1>0, <1>3, <2>1, <2>2 DEF OneVerdict
<1>13. executed' = executed \cup { c \in Range(cs) : Verdict(c, refused) = "allow" }
  BY <1>3
<1> HIDE DEF With
<1>9. OnlyExecuted'
  BY <1>0, <1>3, <1>6 DEF OnlyExecuted
<1>10. AllExecuted'
  <2> SUFFICES ASSUME NEW c \in executed' PROVE task'[c] # "none" \/ c \in Range(queue')
    BY DEF AllExecuted
  <2>1. CASE c \in With("allow")
    BY <1>6, <2>1
  <2>2. CASE c \in executed
    <3>1. c \in CallIds
      BY <1>0, <2>2 DEF DispatchType
    <3> QED BY <1>0, <1>6, <2>2, <3>1 DEF AllExecuted
  <2> QED BY <1>3, <2>1, <2>2
<1>11. ResultsPushed'
  BY <1>0, <1>6 DEF ResultsPushed, Ended
<1>12. QueueIsStarted'
  BY <1>6 DEF QueueIsStarted
<1> QED BY <1>3, <1>7, <1>8, <1>9, <1>10, <1>11, <1>12, <1>13 DEF CallsInv

(* The stream: what a call is known by when it is handled, and the order in   *)
(* which the calls come out of the HashMap once the stream has closed.        *)
Allowed(c) ==
    /\ kind[c].verdict = "allow"
    /\ \/ got[c] = "all" /\ kind[c].args = "object"
       \/ got[c] = "name" /\ kind[c].bare
InputsAllowed ==
    /\ \A c \in CallIds : got[c] = "all" => kind[c].args # "none"
    /\ \A c \in executed : Allowed(c)
    /\ phase = "stream" => \A c \in handled : got[c] = "all"
NoneTwice(s) == \A i, j \in 1 .. Len(s) : s[i] = s[j] => i = j
StreamInv ==
    /\ got \in [CallIds -> {"nothing", "name", "part", "all"}]
    /\ phase \in {"stream", "closing", "collect", "record", "done", "aborted", "failed"}
    /\ order \in Seq(CallIds)
    /\ NoneTwice(order)
    /\ handled \subseteq Named /\ InputsAllowed
    /\ IF phase \in {"stream", "failed"} THEN order = <<>> ELSE Range(order) = Named

LEMMA OrderIsOfNamed ==
    ASSUME NEW o \in SetToSeqs(Named)
    PROVE  /\ o \in Seq(CallIds) /\ Range(o) = Named /\ NoneTwice(o)
<1> DEFINE n == Cardinality(Named)
<1>1. IsFiniteSet(CallIds) /\ IsFiniteSet(Named) /\ n \in Nat /\ Cardinality(1 .. n) = n
  <2>1. IsFiniteSet(CallIds)
    BY FS_Interval, ExecutorAssumption DEF CallIds
  <2>2. IsFiniteSet(Named)
    BY <2>1, FS_Subset DEF Named
  <2>3. n \in Nat
    BY <2>2, FS_CardinalityType
  <2> HIDE DEF n
  <2>4. Cardinality(1 .. n) = n
    BY <2>3, FS_Interval
  <2> QED BY <2>1, <2>2, <2>3, <2>4
<1>2. o \in [1 .. n -> Named] /\ \A i, j \in 1 .. n : i # j => o[i] # o[j]
  BY DEF SetToSeqs
<1> HIDE DEF n
<1>3. o \in Seq(CallIds) /\ Len(o) = n
  BY <1>1, <1>2 DEF Named
<1>4. o \in Injection(1 .. n, Named)
  BY <1>2 DEF Injection, IsInjective
<1>5. o \in Surjection(1 .. n, Named)
  BY <1>1, <1>4, FS_Injection DEF n
<1>6. Range(o) = Named
  BY <1>5, <1>2 DEF Surjection, Range
<1> QED BY <1>2, <1>3, <1>6 DEF NoneTwice

LEMMA CallsStep ==
    ASSUME CallsInv, StreamInv, [Next]_vars
    PROVE  CallsInv' /\ StreamInv'
<1>1. CASE TaskStarts
  <2>1. PICK c \in CallIds : task[c] = "spawned" /\ task' = [task EXCEPT ![c] = "running"]
    BY <1>1 DEF TaskStarts
  <2>2. UNCHANGED <<kind, got, order, phase, watch, handled, executed, pendingSpecs, denied, queue, completed>>
    BY <1>1 DEF TaskStarts, streamVars, dispatchVars
  <2>3. task' \in [CallIds -> TaskStates] /\ \A d \in CallIds : d # c => task'[d] = task[d]
    BY <2>1 DEF CallsInv, DispatchType, TaskStates
  <2>4. task'[c] = "running"
    BY <2>1 DEF CallsInv, DispatchType
  <2>5. DispatchType' /\ OneVerdict'
    BY <2>2, <2>3 DEF CallsInv, DispatchType, OneVerdict
  <2>6. OnlyExecuted' /\ AllExecuted' /\ QueueIsStarted'
    BY <2>1, <2>2, <2>3, <2>4 DEF CallsInv, OnlyExecuted, AllExecuted, QueueIsStarted, DispatchType
  <2>7. ResultsPushed'
    BY <2>1, <2>2, <2>3, <2>4 DEF CallsInv, ResultsPushed, Ended
  <2>8. StreamInv'
    BY <2>2 DEF StreamInv, Named, InputsAllowed, Allowed
  <2> QED BY <2>5, <2>6, <2>7, <2>8 DEF CallsInv
<1>2. CASE TaskEnds
  <2>1. PICK c \in CallIds, result \in {"ok", "error"} :
           /\ task[c] = "running" /\ task' = [task EXCEPT ![c] = result]
           /\ completed' = Append(completed, c)
    BY <1>2 DEF TaskEnds
  <2>2. UNCHANGED <<kind, got, order, phase, watch, handled, executed, pendingSpecs, denied, queue>>
    BY <1>2 DEF TaskEnds, streamVars, dispatchVars
  <2>3. task' \in [CallIds -> TaskStates] /\ \A d \in CallIds : d # c => task'[d] = task[d]
    BY <2>1 DEF CallsInv, DispatchType, TaskStates
  <2>4. task'[c] \in {"ok", "error"}
    BY <2>1 DEF CallsInv, DispatchType
  <2>9. completed' \in Seq(CallIds) /\ Range(completed') = Range(completed) \cup {c}
    BY <2>1, ElementsOfAppend DEF CallsInv, DispatchType
  <2>5. DispatchType' /\ OneVerdict'
    BY <2>2, <2>3, <2>9 DEF CallsInv, DispatchType, OneVerdict
  <2>6. OnlyExecuted' /\ AllExecuted' /\ QueueIsStarted'
    BY <2>1, <2>2, <2>3, <2>4 DEF CallsInv, OnlyExecuted, AllExecuted, QueueIsStarted, DispatchType
  <2>7. ResultsPushed'
    BY <2>1, <2>2, <2>3, <2>4, <2>9 DEF CallsInv, ResultsPushed, Ended
  <2>8. StreamInv'
    BY <2>2 DEF StreamInv, Named, InputsAllowed, Allowed
  <2> QED BY <2>5, <2>6, <2>7, <2>8 DEF CallsInv
<1>3. CASE Arguments
  <2>1. PICK c \in CallIds :
           /\ got[c] \in {"name", "part"} /\ kind[c].args # "none" /\ got' = [got EXCEPT ![c] = "all"]
           /\ IF kind[c].args = "object" /\ c \notin handled
              THEN HandleReady(<<c>>, {})
              ELSE UNCHANGED <<dispatchVars, executorVars>>
    BY <1>3 DEF Arguments
  <2>2. UNCHANGED <<kind, order, phase, watch>> /\ phase = "stream"
    BY <1>3 DEF Arguments
  <2>3. /\ got' \in [CallIds -> {"nothing", "name", "part", "all"}] /\ Named' = Named
        /\ got'[c] = "all" /\ kind[c].args # "none" /\ \A d \in CallIds \ {c} : got'[d] = got[d]
    BY <2>1 DEF StreamInv, Named
  <2>6. c \notin handled /\ executed \subseteq handled /\ handled \subseteq CallIds
    BY <2>1, <2>2 DEF StreamInv, InputsAllowed, CallsInv, DispatchType
  <2>4. CASE HandleReady(<<c>>, {}) /\ kind[c].args = "object"
    <3>1. <<c>> \in Seq(CallIds) /\ Range(<<c>>) = {c}
      BY DEF Range
    <3>5. Range(<<c>>) \cap handled = {}
      BY <2>6, <3>1
    <3>6. /\ CallsInv' /\ handled' = handled \cup Range(<<c>>)
          /\ executed' = executed \cup { d \in Range(<<c>>) : Verdict(d, {}) = "allow" }
      BY <2>2, <2>4, <3>1, <3>5, HandledReady
    <3>2. /\ CallsInv' /\ handled' = handled \cup {c}
          /\ executed' \subseteq executed \cup {c} /\ (c \in executed' => c \in executed \/ Verdict(c, {}) = "allow")
      BY <3>1, <3>6
    <3>3. c \in Named
      BY <2>1 DEF Named
    <3>4. InputsAllowed'
      BY <2>2, <2>3, <2>4, <2>6, <3>2 DEF StreamInv, InputsAllowed, Allowed, Verdict
    <3> QED BY <2>2, <2>3, <3>2, <3>3, <3>4 DEF StreamInv
  <2>5. CASE UNCHANGED <<dispatchVars, executorVars>>
    <3>1. UNCHANGED <<handled, executed, pendingSpecs, denied, queue, task, completed>>
      BY <2>5 DEF dispatchVars, executorVars
    <3>2. CallsInv'
      BY <2>2, <3>1 DEF CallsInv, DispatchType, OneVerdict, OnlyExecuted, AllExecuted, QueueIsStarted, ResultsPushed, Ended
    <3>3. InputsAllowed'
      BY <2>2, <2>3, <2>6, <3>1 DEF StreamInv, InputsAllowed, Allowed
    <3> QED BY <2>2, <2>3, <3>1, <3>2, <3>3 DEF StreamInv
  <2> QED BY <2>1, <2>4, <2>5
<1>4. CASE DrainDispatch
  <2> DEFINE cs == Kept(order, CallIds \ handled)
  <2>1. order \in Seq(CallIds) /\ phase = "closing" /\ Range(order) = Named /\ handled \subseteq Named
    BY <1>4 DEF DrainDispatch, StreamInv
  <2>2. cs \in Seq(CallIds) /\ Range(cs) = Named \ handled
    <3>1. Range(order) \subseteq CallIds
      BY <2>1, ElementsOfSeq
    <3> QED BY <2>1, <3>1, ElementsOfKept
  <2>3. HandleReady(cs, Refused) /\ UNCHANGED <<kind, got, order, watch>> /\ phase' \in {"done", "collect"}
    BY <1>4 DEF DrainDispatch, streamVars
  <2> HIDE DEF cs
  <2>4. /\ CallsInv' /\ handled' = handled \cup (Named \ handled)
        /\ executed' = executed \cup { c \in Named \ handled : Verdict(c, Refused) = "allow" }
    BY <2>2, <2>3, HandledReady
  <2>5. Named' = Named
    BY <2>3 DEF Named
  <2>6. ASSUME NEW c \in Named, Verdict(c, Refused) = "allow" PROVE Allowed(c)
    <3>1. c \in CallIds /\ kind[c].args \in {"object", "none", "invalid"} /\ got[c] \in {"name", "part", "all"}
          /\ (got[c] = "all" => kind[c].args # "none")
      BY <2>6, ExecutorAssumption DEF Named, StreamInv, InputsAllowed, CallsInv, DispatchType
    <3> QED BY <2>6, <3>1 DEF Verdict, Refused, Allowed
  <2>7. InputsAllowed'
    BY <2>3, <2>4, <2>6 DEF StreamInv, InputsAllowed, Allowed
  <2> QED BY <2>1, <2>3, <2>4, <2>5, <2>7 DEF StreamInv
<1>5. CASE Collect
  <2> DEFINE q == Kept(queue, { c \in CallIds : ~Ended(c) })
  <2>1. queue' = q /\ phase = "collect" /\ phase' = "record"
        /\ UNCHANGED <<kind, got, order, watch, handled, executed, pendingSpecs, denied, task, completed>>
    BY <1>5 DEF Collect, streamVars, dispatchVars
  <2>2. q \in Seq(CallIds) /\ Range(q) = Range(queue) \cap { c \in CallIds : ~Ended(c) }
    BY ElementsOfKept DEF CallsInv, DispatchType
  <2> HIDE DEF q
  <2>3. DispatchType' /\ OneVerdict'
    BY <2>1, <2>2 DEF CallsInv, DispatchType, OneVerdict
  <2>4. OnlyExecuted' /\ QueueIsStarted' /\ ResultsPushed'
    BY <2>1, <2>2 DEF CallsInv, OnlyExecuted, QueueIsStarted, ResultsPushed, Ended
  <2>5. AllExecuted'
    <3> SUFFICES ASSUME NEW c \in executed, task[c] = "none" PROVE c \in Range(q)
      BY <2>1 DEF AllExecuted
    <3>1. c \in Range(queue) /\ c \in CallIds
      BY DEF CallsInv, AllExecuted, DispatchType
    <3> QED BY <2>2, <3>1 DEF Ended
  <2>6. StreamInv'
    BY <2>1 DEF StreamInv, Named, InputsAllowed, Allowed
  <2> QED BY <2>3, <2>4, <2>5, <2>6 DEF CallsInv
<1>6. CASE \/ Poll \/ Name \/ Piece \/ StreamEnds \/ StreamCancelled \/ StreamFails \/ Interrupt \/ Bridge
           \/ AbortStream \/ Record \/ UNCHANGED vars
  <2>1. UNCHANGED <<kind, handled, executed, pendingSpecs, denied, queue, task, completed>>
        /\ (watch' = watch \/ watch')
    BY <1>6 DEF Poll, Name, Piece, StreamEnds, StreamCancelled, CloseStream, StreamFails, Interrupt, Bridge,
                AbortStream, Record, vars, streamVars, dispatchVars, executorVars
  <2>2. CallsInv'
    BY <2>1 DEF CallsInv, DispatchType, OneVerdict, OnlyExecuted, AllExecuted, QueueIsStarted, ResultsPushed, Ended
  <2>6. handled' = handled
    BY <2>1
  <2>3. CASE Name \/ Piece
    <3>1. PICK c \in CallIds : got[c] \in {"nothing", "name"} /\ got' \in {[got EXCEPT ![c] = "name"], [got EXCEPT ![c] = "part"]}
      BY <2>3 DEF Name, Piece
    <3>2. /\ got' \in [CallIds -> {"nothing", "name", "part", "all"}] /\ Named \subseteq Named'
          /\ got'[c] # "all" /\ \A d \in CallIds \ {c} : got'[d] = got[d]
      BY <3>1 DEF StreamInv, Named
    <3>3. UNCHANGED <<order, phase>> /\ phase = "stream"
      BY <2>3 DEF Name, Piece
    <3>4. order = <<>>
      BY <3>3 DEF StreamInv
    <3>5. c \notin handled /\ executed \subseteq handled /\ handled \subseteq CallIds
      BY <3>1, <3>3 DEF StreamInv, InputsAllowed, CallsInv, DispatchType
    <3>6. InputsAllowed'
      BY <2>1, <3>2, <3>3, <3>5 DEF StreamInv, InputsAllowed, Allowed
    <3> QED BY <2>2, <2>6, <3>2, <3>3, <3>4, <3>6 DEF StreamInv
  <2>4. CASE StreamEnds \/ StreamCancelled
    <3>1. order' \in SetToSeqs(Named) /\ phase' = "closing" /\ got' = got
      BY <2>4 DEF StreamEnds, StreamCancelled, CloseStream
    <3>2. Named' = Named
      BY <3>1 DEF Named
    <3>3. order' \in Seq(CallIds) /\ Range(order') = Named /\ NoneTwice(order')
      BY <3>1, OrderIsOfNamed
    <3>4. InputsAllowed'
      BY <2>1, <3>1 DEF StreamInv, InputsAllowed, Allowed
    <3> QED BY <2>2, <2>6, <3>1, <3>2, <3>3, <3>4 DEF StreamInv
  <2>5. CASE Poll \/ StreamFails \/ Interrupt \/ Bridge \/ AbortStream \/ Record \/ UNCHANGED vars
    <3>1. UNCHANGED <<got, order>>
      BY <2>5 DEF Poll, StreamFails, Interrupt, Bridge, AbortStream, Record, vars, streamVars
    <3>2. \/ phase' = phase
          \/ phase = "stream" /\ phase' = "failed"
          \/ phase \in {"closing", "record"} /\ phase' \in {"aborted", "done"}
      BY <2>5 DEF Poll, StreamFails, Interrupt, Bridge, AbortStream, Record, vars
    <3>3. InputsAllowed'
      BY <2>1, <3>1, <3>2 DEF StreamInv, InputsAllowed, Allowed
    <3> QED BY <2>2, <2>6, <3>1, <3>2, <3>3 DEF StreamInv, Named
  <2> QED BY <1>6, <2>2, <2>3, <2>4, <2>5
<1> QED BY <1>1, <1>2, <1>3, <1>4, <1>5, <1>6 DEF Next

LEMMA CallsInit == Init => CallsInv /\ StreamInv
<1> SUFFICES ASSUME Init PROVE CallsInv /\ StreamInv
  OBVIOUS
<1>1. /\ kind \in [CallIds -> Kinds] /\ got = [c \in CallIds |-> "nothing"] /\ phase = "stream"
      /\ handled = {} /\ executed = {} /\ pendingSpecs = {} /\ denied = {}
      /\ queue = <<>> /\ completed = <<>> /\ order = <<>> /\ task = [c \in CallIds |-> "none"]
  BY DEF Init
<1>2. Range(queue) = {} /\ Range(completed) = {}
  BY <1>1 DEF Range
<1>3. CallsInv
  BY <1>1, <1>2 DEF CallsInv, DispatchType, TaskStates, OneVerdict, OnlyExecuted, AllExecuted, QueueIsStarted,
                    ResultsPushed, Ended
<1>4. StreamInv
  BY <1>1 DEF StreamInv, NoneTwice, InputsAllowed
<1> QED BY <1>3, <1>4

(* What is run was allowed for the arguments it is run with, and those were    *)
(* whole or none; what waits for the author or is refused never has a task    *)
(* (tool_validation_failure, handle_ready, apply_permission).                 *)
THEOREM OnlyAllowedCallsAreRun == Spec => []OnlyAllowedCallsRun
<1>1. CallsInv /\ StreamInv => OnlyAllowedCallsRun
  BY DEF CallsInv, OnlyExecuted, OneVerdict, OnlyAllowedCallsRun, StreamInv, InputsAllowed, Allowed
<1> QED BY <1>1, CallsInit, CallsStep, PTL DEF Spec

(* The batch: what is recorded is, one by one, the results of the calls that  *)
(* have one; when all are awaited, only calls that wait for the author have   *)
(* none.                                                                      *)
RecordType == [call : CallIds, result : {"ok", "error", "denied", "interrupted"}]
Outcome(c) == [call |-> c, result |-> IF c \in denied THEN "denied" ELSE task[c]]
FlagsOK ==
    /\ cancelled \in BOOLEAN /\ abort \in BOOLEAN /\ watch \in BOOLEAN /\ watch = (watch /\ abort)
    /\ pendingTools \subseteq CallIds /\ shown \subseteq CallIds /\ recorded \in Seq(RecordType)
Unrecorded ==
    /\ phase \in {"stream", "closing", "failed"} => pendingTools = {}
    /\ phase \in {"stream", "closing", "failed", "collect"} => recorded = <<>>
AllHandled ==
    phase \in {"collect", "record", "done"} => handled = Named /\ pendingTools = pendingSpecs /\ ~watch
RecordedSoFar ==
    phase \in {"record", "done"} =>
        /\ queue = <<>> /\ InFlight = {} /\ Len(recorded) <= Len(ToRecord)
        /\ \A i \in 1 .. Len(recorded) : recorded[i] = Outcome(ToRecord[i])
AllRecorded == phase = "done" => Len(recorded) = Len(ToRecord)
BatchInv == FlagsOK /\ Unrecorded /\ AllHandled /\ RecordedSoFar /\ AllRecorded

LEMMA ToRecordType ==
    ASSUME CallsInv, StreamInv
    PROVE  /\ ToRecord \in Seq(CallIds)
           /\ \A i \in 1 .. Len(ToRecord) : Outcome(ToRecord[i]) \in RecordType
<1> DEFINE r == ToRecord
<1>1. r \in Seq(CallIds) /\ Range(r) = Range(order) \cap (Range(completed) \cup denied)
  BY ElementsOfKept DEF StreamInv, ToRecord
<1> HIDE DEF r
<1>2. ASSUME NEW i \in 1 .. Len(r) PROVE Outcome(r[i]) \in RecordType
  <2>1. r[i] \in CallIds /\ r[i] \in Range(completed) \cup denied
    BY <1>1, ElementsOfSeq
  <2>2. r[i] \notin denied => task[r[i]] \in {"ok", "error"}
    BY <2>1 DEF CallsInv, ResultsPushed, Ended
  <2> QED BY <2>1, <2>2 DEF Outcome, RecordType
<1> QED BY <1>1, <1>2 DEF r

LEMMA BatchStep ==
    ASSUME CallsInv, StreamInv, BatchInv, [Next]_vars
    PROVE  BatchInv'
<1>0. CallsInv' /\ StreamInv'
  BY CallsStep
<1>1. CASE TaskStarts \/ TaskEnds
  <2>1. InFlight # {}
    BY <1>1 DEF TaskStarts, TaskEnds, InFlight
  <2>2. phase \notin {"record", "done"}
    BY <2>1 DEF BatchInv, RecordedSoFar
  <2>3. UNCHANGED <<phase, got, cancelled, abort, watch, handled, pendingSpecs, pendingTools, shown, recorded>>
    BY <1>1 DEF TaskStarts, TaskEnds, streamVars, dispatchVars
  <2>4. FlagsOK' /\ Unrecorded' /\ AllHandled'
    BY <2>3 DEF BatchInv, FlagsOK, Unrecorded, AllHandled, Named
  <2>5. RecordedSoFar' /\ AllRecorded'
    BY <2>2, <2>3 DEF RecordedSoFar, AllRecorded
  <2> QED BY <2>4, <2>5 DEF BatchInv
<1>2. CASE Poll \/ Name \/ Piece \/ Arguments \/ StreamEnds \/ StreamCancelled \/ StreamFails
  <2>1. phase \in {"stream", "closing"} /\ phase' \in {"stream", "closing", "failed"}
    BY <1>2 DEF Poll, Name, Piece, Arguments, StreamEnds, StreamCancelled, CloseStream, StreamFails
  <2>2. UNCHANGED <<abort, watch, pendingTools, recorded>>
    BY <1>2 DEF Poll, Name, Piece, Arguments, StreamEnds, StreamCancelled, CloseStream, StreamFails
  <2>3. cancelled' \in BOOLEAN
    BY <1>2 DEF Poll, Name, Piece, Arguments, StreamEnds, StreamCancelled, CloseStream, StreamFails, streamVars, BatchInv, FlagsOK
  <2>4. shown' \subseteq CallIds
    <3>1. Polled \subseteq CallIds
      BY ElementsOfSeq DEF Polled, BatchInv, FlagsOK, CallsInv, DispatchType
    <3>2. shown' \in {shown, Polled}
      BY <1>2 DEF Poll, Name, Piece, Arguments, StreamEnds, StreamCancelled, CloseStream, StreamFails
    <3> QED BY <3>1, <3>2 DEF BatchInv, FlagsOK
  <2>5. FlagsOK' /\ Unrecorded'
    BY <2>1, <2>2, <2>3, <2>4 DEF BatchInv, FlagsOK, Unrecorded
  <2>6. AllHandled' /\ RecordedSoFar' /\ AllRecorded'
    BY <2>1 DEF AllHandled, RecordedSoFar, AllRecorded
  <2> QED BY <2>5, <2>6 DEF BatchInv
<1>3. CASE Interrupt \/ Bridge \/ UNCHANGED vars
  <2>1. UNCHANGED <<phase, got, cancelled, order, handled, pendingSpecs, denied, pendingTools, shown, recorded,
                    queue, task, completed>>
    BY <1>3 DEF Interrupt, Bridge, vars, streamVars, dispatchVars, executorVars
  <2>2. /\ abort' \in BOOLEAN /\ watch' \in BOOLEAN /\ watch' = (watch' /\ abort')
        /\ phase \notin {"stream", "closing"} => watch' = watch
    BY <1>3 DEF Interrupt, Bridge, BridgeRuns, vars, BatchInv, FlagsOK
  <2>3. FlagsOK' /\ Unrecorded'
    BY <2>1, <2>2 DEF BatchInv, FlagsOK, Unrecorded
  <2>4. AllHandled'
    BY <2>1, <2>2 DEF BatchInv, AllHandled, Named
  <2>5. ToRecord' = ToRecord /\ InFlight' = InFlight /\ \A c : Outcome(c)' = Outcome(c)
    BY <2>1 DEF ToRecord, InFlight, Outcome
  <2>6. RecordedSoFar' /\ AllRecorded'
    BY <2>1, <2>5 DEF BatchInv, RecordedSoFar, AllRecorded, Outcome
  <2> QED BY <2>3, <2>4, <2>6 DEF BatchInv
<1>4. CASE AbortStream
  <2>1. /\ recorded' = [i \in DOMAIN order |-> [call |-> order[i], result |-> "interrupted"]]
        /\ phase' = "aborted" /\ UNCHANGED <<cancelled, abort, watch, pendingTools, shown>>
    BY <1>4 DEF AbortStream, streamVars
  <2>2. order \in Seq(CallIds) /\ DOMAIN order = 1 .. Len(order) /\ Len(order) \in Nat
    BY LenProperties DEF StreamInv
  <2>3. \A i \in 1 .. Len(order) : [call |-> order[i], result |-> "interrupted"] \in RecordType
    BY <2>2, ElementOfSeq DEF RecordType
  <2>4. recorded' \in Seq(RecordType)
    BY <2>1, <2>2, <2>3
  <2>5. FlagsOK'
    BY <2>1, <2>4 DEF BatchInv, FlagsOK
  <2> QED BY <2>1, <2>5 DEF BatchInv, Unrecorded, AllHandled, RecordedSoFar, AllRecorded
<1>5. CASE DrainDispatch
  <2> DEFINE cs == Kept(order, CallIds \ handled)
  <2>1. /\ phase = "closing" /\ ~IsAborted /\ HandleReady(cs, Refused)
        /\ pendingTools' = pendingTools \cup pendingSpecs' /\ shown' = Polled
        /\ phase' = (IF order = <<>> THEN "done" ELSE "collect")
        /\ UNCHANGED <<kind, got, cancelled, order, abort, watch, recorded>>
    BY <1>5 DEF DrainDispatch, streamVars
  <2>2. order \in Seq(CallIds) /\ Range(order) = Named /\ handled \subseteq Named
    BY <2>1 DEF StreamInv
  <2>3. cs \in Seq(CallIds) /\ Range(cs) = Named \ handled
    <3>1. Range(order) \subseteq CallIds
      BY <2>2, ElementsOfSeq
    <3> QED BY <2>2, <3>1, ElementsOfKept
  <2>4. handled' = Named /\ Named' = Named
    <3> HIDE DEF cs
    <3>1. handled' = handled \cup (Named \ handled)
      BY <2>1, <2>3 DEF HandleReady
    <3> QED BY <2>1, <2>2, <3>1 DEF Named
  <2> HIDE DEF cs
  <2>5. pendingTools' = pendingSpecs' /\ ~watch' /\ recorded' = <<>>
    BY <2>1 DEF BatchInv, Unrecorded, FlagsOK, IsAborted
  <2>6. pendingSpecs' \subseteq CallIds
    BY <1>0 DEF CallsInv, DispatchType
  <2>7. Polled \subseteq CallIds
    BY ElementsOfSeq DEF Polled, BatchInv, FlagsOK, CallsInv, DispatchType
  <2>8. FlagsOK'
    BY <2>1, <2>5, <2>6, <2>7 DEF BatchInv, FlagsOK
  <2>9. Unrecorded' /\ AllHandled'
    BY <2>1, <2>4, <2>5 DEF Unrecorded, AllHandled
  <2>10. CASE order # <<>>
    BY <2>1, <2>8, <2>9, <2>10 DEF BatchInv, RecordedSoFar, AllRecorded
  <2>11. CASE order = <<>>
    <3>1. Range(order) = {}
      BY <2>2, <2>11, NothingInEmpty
    <3>2. executed' = {}
      BY <1>0, <2>2, <2>4, <3>1 DEF CallsInv, DispatchType
    <3>3. Range(queue') = {} /\ queue' \in Seq(CallIds) /\ \A c \in CallIds : task'[c] = "none"
      BY <1>0, <3>2 DEF CallsInv, OnlyExecuted, DispatchType
    <3>4. queue' = <<>> /\ InFlight' = {}
      BY <3>3, NothingInEmpty DEF InFlight
    <3>5. ToRecord' = <<>>
      BY <2>1, <2>11, KeptEmpty DEF ToRecord
    <3>6. Len(recorded') = 0 /\ Len(ToRecord') = 0
      BY <2>5, <3>5
    <3> HIDE DEF ToRecord
    <3>7. RecordedSoFar' /\ AllRecorded'
      BY <3>4, <3>6 DEF RecordedSoFar, AllRecorded
    <3> QED BY <2>8, <2>9, <3>7 DEF BatchInv
  <2> QED BY <2>10, <2>11
<1>6. CASE Collect
  <2>1. /\ phase = "collect" /\ phase' = "record" /\ InFlight = {}
        /\ queue' = Kept(queue, { c \in CallIds : ~Ended(c) })
        /\ pendingTools' = pendingTools \ executed
        /\ UNCHANGED <<kind, got, cancelled, order, abort, watch, handled, executed, pendingSpecs, denied, task,
                       completed, shown, recorded>>
    BY <1>6 DEF Collect, streamVars, dispatchVars
  <2>2. ~watch /\ handled = Named /\ pendingTools = pendingSpecs /\ recorded = <<>>
    BY <2>1 DEF BatchInv, AllHandled, Unrecorded
  <2>3. pendingTools' = pendingSpecs'
    BY <2>1, <2>2 DEF CallsInv, OneVerdict
  <2>4. InFlight' = {}
    BY <2>1 DEF InFlight
  <2>5. queue' = <<>>
    <3>1. queue \in Seq(CallIds) /\ Range(queue) \subseteq CallIds
      BY ElementsOfSeq DEF CallsInv, DispatchType
    <3>2. \A c \in Range(queue) : task[c] # "none" /\ task[c] \in TaskStates
      BY <2>2, <3>1 DEF CallsInv, QueueIsStarted, DispatchType
    <3>3. \A c \in Range(queue) : Ended(c)
      BY <2>1, <3>1, <3>2 DEF InFlight, Ended, TaskStates
    <3>4. queue' \in Seq(CallIds) /\ Range(queue') = Range(queue) \cap { c \in CallIds : ~Ended(c) }
      BY <2>1, <3>1, ElementsOfKept
    <3>5. Range(queue') = {}
      BY <3>3, <3>4
    <3> QED BY <3>4, <3>5, NothingInEmpty
  <2>6. FlagsOK' /\ Unrecorded' /\ AllHandled' /\ AllRecorded'
    BY <2>1, <2>2, <2>3 DEF BatchInv, FlagsOK, Unrecorded, AllHandled, AllRecorded, Named
  <2>7. ToRecord' \in Seq(CallIds)
    <3>1. ToRecord' = ToRecord
      BY <2>1 DEF ToRecord
    <3> QED BY <3>1, ToRecordType
  <2>8. Len(recorded') = 0 /\ Len(ToRecord') \in Nat
    BY <2>1, <2>2, <2>7
  <2>9. RecordedSoFar'
    BY <2>4, <2>5, <2>8 DEF RecordedSoFar
  <2> QED BY <2>6, <2>9 DEF BatchInv
<1>7. CASE Record
  <2>1. /\ phase = "record"
        /\ UNCHANGED <<kind, got, cancelled, order, abort, watch, handled, executed, pendingSpecs, denied,
                       pendingTools, queue, task, completed>>
    BY <1>7 DEF Record, streamVars, dispatchVars, executorVars
  <2>2. /\ queue = <<>> /\ InFlight = {} /\ Len(recorded) <= Len(ToRecord)
        /\ \A i \in 1 .. Len(recorded) : recorded[i] = Outcome(ToRecord[i])
        /\ handled = Named /\ pendingTools = pendingSpecs /\ ~watch
    BY <2>1 DEF BatchInv, RecordedSoFar, AllHandled
  <2>3. ToRecord' = ToRecord /\ InFlight' = InFlight
    BY <2>1 DEF ToRecord, InFlight
  <2>4. /\ ToRecord \in Seq(CallIds) /\ Len(ToRecord) \in Nat
        /\ \A i \in 1 .. Len(ToRecord) : Outcome(ToRecord[i]) \in RecordType
    BY ToRecordType
  <2>5. recorded \in Seq(RecordType) /\ Len(recorded) \in Nat
    BY DEF BatchInv, FlagsOK
  <2>6. \A c : Outcome(c)' = Outcome(c)
    BY <2>1 DEF Outcome
  <2>7. CASE Len(recorded) < Len(ToRecord)
    <3> DEFINE n == Len(recorded) + 1
               c == ToRecord[n]
    <3>1. n \in 1 .. Len(ToRecord)
      BY <2>4, <2>5, <2>7
    <3>2. /\ recorded' = Append(recorded, Outcome(c)) /\ phase' = phase
          /\ shown' \subseteq shown \cup {c}
      BY <1>7, <2>7 DEF Record, Outcome
    <3>3. c \in CallIds /\ Outcome(c) \in RecordType
      BY <2>4, <3>1, ElementOfSeq
    <3> HIDE DEF c
    <3>4. recorded' \in Seq(RecordType) /\ Len(recorded') = n
          /\ \A i \in 1 .. n : recorded'[i] = IF i <= Len(recorded) THEN recorded[i] ELSE Outcome(c)
      BY <2>5, <3>2, <3>3
    <3>5. \A i \in 1 .. n : recorded'[i] = Outcome(ToRecord[i])
      BY <2>2, <2>5, <3>4 DEF c
    <3>6. FlagsOK'
      BY <2>1, <3>2, <3>3, <3>4 DEF BatchInv, FlagsOK
    <3>7. Unrecorded' /\ AllHandled' /\ AllRecorded'
      BY <2>1, <2>2, <3>2 DEF Unrecorded, AllHandled, AllRecorded, Named
    <3>8. RecordedSoFar'
      BY <2>1, <2>2, <2>3, <2>6, <3>1, <3>4, <3>5 DEF RecordedSoFar
    <3> QED BY <3>6, <3>7, <3>8 DEF BatchInv
  <2>8. CASE ~(Len(recorded) < Len(ToRecord))
    <3>1. phase' = "done" /\ UNCHANGED <<recorded, shown>>
      BY <1>7, <2>8 DEF Record
    <3>2. Len(recorded) = Len(ToRecord)
      BY <2>2, <2>4, <2>5, <2>8
    <3>3. FlagsOK' /\ Unrecorded' /\ AllHandled'
      BY <2>1, <2>2, <3>1 DEF BatchInv, FlagsOK, Unrecorded, AllHandled, Named
    <3>4. RecordedSoFar' /\ AllRecorded'
      BY <2>1, <2>2, <2>3, <2>6, <3>1, <3>2 DEF RecordedSoFar, AllRecorded
    <3> QED BY <3>3, <3>4 DEF BatchInv
  <2> QED BY <2>7, <2>8
<1> QED BY <1>1, <1>2, <1>3, <1>4, <1>5, <1>6, <1>7 DEF Next

LEMMA BatchInit == Init => CallsInv /\ StreamInv /\ BatchInv
<1> SUFFICES ASSUME Init PROVE BatchInv
  BY CallsInit
<1>1. /\ phase = "stream" /\ cancelled = FALSE /\ abort = FALSE /\ watch = FALSE /\ pendingTools = {}
      /\ shown = {} /\ recorded = <<>>
  BY DEF Init
<1>2. recorded \in Seq(RecordType)
  BY <1>1
<1> QED BY <1>1, <1>2 DEF BatchInv, FlagsOK, Unrecorded, AllHandled, RecordedSoFar, AllRecorded

(* When a batch is over, each call either waits for the author or has exactly *)
(* one result, that of its own run or its refusal, in the order of the calls: *)
(* the bridge is down, no call is left in the queue to be reported stalled,   *)
(* and no interrupt has dropped a result (get_remaining_results,              *)
(* merge_denied_stream_results).  With the type invariant.                    *)
THEOREM EachCallHasOneResult == Spec => []EveryCallHasOneResult
<1>1. Init => CallsInv /\ StreamInv /\ BatchInv
  BY BatchInit
<1>2. ASSUME CallsInv, StreamInv, BatchInv PROVE EveryCallHasOneResult
  <2>1. TypeOK
    BY <1>2 DEF CallsInv, DispatchType, TaskStates, StreamInv, BatchInv, FlagsOK, RecordType, TypeOK
  <2>2. BridgeIsDown /\ NothingStalls
    BY <1>2 DEF BatchInv, AllHandled, RecordedSoFar, BridgeIsDown, NothingStalls
  <2>3. ASSUME phase = "done"
        PROVE  /\ [i \in DOMAIN recorded |-> recorded[i].call] = Kept(order, CallIds \ pendingTools)
               /\ \A r \in Range(recorded) :
                     IF r.result = "denied" THEN task[r.call] = "none"
                     ELSE r.result \in {"ok", "error"} /\ task[r.call] = r.result
    <3>1. /\ InFlight = {} /\ Len(recorded) = Len(ToRecord)
          /\ \A i \in 1 .. Len(recorded) : recorded[i] = Outcome(ToRecord[i])
          /\ handled = Named /\ pendingTools = pendingSpecs /\ ~watch
          /\ queue = <<>> /\ recorded \in Seq(RecordType)
      BY <1>2, <2>3 DEF BatchInv, RecordedSoFar, AllRecorded, AllHandled, FlagsOK
    <3>2. order \in Seq(CallIds) /\ Range(order) = Named
      BY <1>2, <2>3 DEF StreamInv
    <3>3. ToRecord \in Seq(CallIds) /\ Range(ToRecord) = Range(order) \cap (Range(completed) \cup denied)
      BY <3>2, ElementsOfKept DEF ToRecord
    <3>4. ASSUME NEW c \in CallIds, c \in Range(order)
          PROVE  c \in Range(completed) \cup denied <=> c \in CallIds \ pendingTools
      <4>1. c \in executed \cup pendingSpecs \cup denied
        BY <1>2, <3>1, <3>2, <3>4 DEF CallsInv, DispatchType
      <4>2. c \in executed => Ended(c)
        <5>1. Range(queue) = {}
          BY <1>2, <3>1, NothingInEmpty DEF CallsInv, DispatchType
        <5>2. c \in executed => task[c] # "none"
          BY <1>2, <5>1 DEF CallsInv, AllExecuted
        <5> QED BY <1>2, <3>1, <5>2 DEF CallsInv, DispatchType, TaskStates, InFlight, Ended
      <4>3. c \in Range(completed) <=> c \in executed
        BY <1>2, <4>2 DEF CallsInv, ResultsPushed, OnlyExecuted, Ended
      <4> QED BY <1>2, <3>1, <4>1, <4>3 DEF CallsInv, OneVerdict
    <3>5. ToRecord = Kept(order, CallIds \ pendingTools)
      <4>1. \A i \in 1 .. Len(order) :
               order[i] \in Range(completed) \cup denied <=> order[i] \in CallIds \ pendingTools
        BY <3>2, <3>4, ElementsOfSeq
      <4> QED BY <3>2, <4>1, KeptAgree DEF ToRecord
    <3>6. [i \in DOMAIN recorded |-> recorded[i].call] = ToRecord
      <4>1. DOMAIN recorded = 1 .. Len(recorded)
        BY <3>1, LenProperties
      <4>2. ToRecord = [i \in 1 .. Len(ToRecord) |-> ToRecord[i]]
        BY <3>3, LenProperties
      <4>3. ASSUME NEW i \in 1 .. Len(recorded) PROVE recorded[i].call = ToRecord[i]
        <5>1. recorded[i] = Outcome(ToRecord[i])
          BY <3>1
        <5> HIDE DEF ToRecord
        <5> QED BY <5>1 DEF Outcome
      <4> QED BY <3>1, <4>1, <4>2, <4>3
    <3>7. ASSUME NEW r \in Range(recorded)
          PROVE  IF r.result = "denied" THEN task[r.call] = "none"
                 ELSE r.result \in {"ok", "error"} /\ task[r.call] = r.result
      <4>1. PICK i \in 1 .. Len(recorded) : r = recorded[i]
        BY <3>1, ElementsOfSeq
      <4> DEFINE c == ToRecord[i]
      <4>2. c \in CallIds /\ c \in Range(completed) \cup denied /\ r = Outcome(c)
        BY <3>1, <3>3, <4>1, ElementsOfSeq
      <4> HIDE DEF c
      <4>3. r.call = c /\ r.result = (IF c \in denied THEN "denied" ELSE task[c])
        BY <4>2 DEF Outcome
      <4>4. CASE c \in denied
        BY <1>2, <4>2, <4>3, <4>4 DEF CallsInv, OnlyExecuted, OneVerdict
      <4>5. CASE c \notin denied
        <5>1. task[c] \in {"ok", "error"}
          BY <1>2, <4>2, <4>5 DEF CallsInv, ResultsPushed, Ended
        <5> QED BY <4>3, <4>5, <5>1
      <4> QED BY <4>4, <4>5
    <3> QED BY <3>5, <3>6, <3>7
  <2> QED BY <2>1, <2>2, <2>3 DEF EveryCallHasOneResult
<1> QED BY <1>1, <1>2, CallsStep, BatchStep, PTL DEF Spec

(* A batch as the turn loop sees it.                                          *)
Answered(c) == \E r \in Range(recorded) : r.call = c

LEMMA StatusBeforeTheBatch ==
    ASSUME phase \in {"stream", "closing"} \/ order = <<>>
    PROVE  Status = [c \in CallIds |-> "unissued"]
<1>1. ASSUME order = <<>> PROVE Range(order) = {}
  BY <1>1 DEF Range
<1> QED BY <1>1 DEF Status

LEMMA StatusStays ==
    ASSUME UNCHANGED <<order, pendingTools, recorded>>,
           phase \in {"stream", "closing"} <=> phase' \in {"stream", "closing"}
    PROVE  Status' = Status
BY DEF Status

LEMMA NextIsNotRecorded ==
    ASSUME CallsInv, StreamInv, BatchInv, phase = "record", Len(recorded) < Len(ToRecord)
    PROVE  LET c == ToRecord[Len(recorded) + 1]
           IN  c \in CallIds /\ c \in Range(order) /\ c \notin pendingTools /\ ~Answered(c)
<1> DEFINE n == Len(recorded) + 1
           c == ToRecord[n]
<1>1. recorded \in Seq(RecordType) /\ Len(recorded) \in Nat
  BY DEF BatchInv, FlagsOK
<1>2. order \in Seq(CallIds) /\ NoneTwice(order)
  BY DEF StreamInv
<1>3. ToRecord \in Seq(CallIds) /\ Range(ToRecord) = Range(order) \cap (Range(completed) \cup denied)
  BY <1>2, ElementsOfKept DEF ToRecord
<1>4. Len(ToRecord) \in Nat /\ n \in 1 .. Len(ToRecord)
  BY <1>1, <1>3
<1>5. c \in CallIds /\ c \in Range(order) /\ c \in Range(completed) \cup denied
  <2>1. Range(ToRecord) \subseteq CallIds /\ ToRecord[n] \in Range(ToRecord)
    BY <1>3, <1>4, ElementsOfSeq
  <2> QED BY <1>3, <2>1
<1>6. c \notin pendingTools
  <2>1. pendingTools = pendingSpecs
    BY DEF BatchInv, AllHandled
  <2>2. c \in executed \cup denied
    BY <1>5 DEF CallsInv, ResultsPushed, OnlyExecuted, Ended
  <2> QED BY <2>1, <2>2 DEF CallsInv, OneVerdict
<1>7. ~Answered(c)
  <2> SUFFICES ASSUME Answered(c) PROVE FALSE
    OBVIOUS
  <2>1. PICK r \in Range(recorded) : r.call = c
    BY DEF Answered
  <2>2. PICK i \in 1 .. Len(recorded) : r = recorded[i]
    BY <1>1, ElementsOfSeq
  <2>3. r = Outcome(ToRecord[i])
    BY <2>2 DEF BatchInv, RecordedSoFar
  <2>4. ToRecord[i] = ToRecord[n]
    <3> HIDE DEF ToRecord
    <3> QED BY <2>1, <2>3 DEF Outcome
  <2>5. PICK e : Places(order, Range(completed) \cup denied, e)
    BY <1>2, KeptPlaces
  <2>6. /\ \A k \in 1 .. Len(ToRecord) : ToRecord[k] = order[e[k]] /\ e[k] \in 1 .. Len(order)
        /\ \A k, l \in 1 .. Len(ToRecord) : k < l => e[k] < e[l]
    BY <2>5 DEF Places, ToRecord
  <2>7. i \in 1 .. Len(ToRecord) /\ i < n /\ Len(order) \in Nat
    BY <1>1, <1>2, <1>4
  <2>8. e[i] < e[n] /\ e[i] \in 1 .. Len(order) /\ e[n] \in 1 .. Len(order) /\ order[e[i]] = order[e[n]]
    BY <1>4, <2>4, <2>6, <2>7
  <2>9. e[i] = e[n]
    BY <1>2, <2>8 DEF NoneTwice
  <2> QED BY <2>7, <2>8, <2>9
<1> QED BY <1>5, <1>6, <1>7

(* What a batch does with its calls is what the turn loop takes for granted:  *)
(* they are issued together, run or wait for the author, and get their        *)
(* results one by one; those of a cut response are answered at once           *)
(* (drain_live_stream_dispatch, execute_stream_results,                       *)
(* finalize_stream_cancel).                                                   *)
THEOREM ABatchKeepsTheLifecycle == Spec => BatchKeepsTheLifecycle
<1>1. Init => CallsInv /\ StreamInv /\ BatchInv
  BY BatchInit
<1>2. Init => Lifecycle!Init
  <2> SUFFICES ASSUME Init PROVE Lifecycle!Init
    OBVIOUS
  <2>1. phase = "stream"
    BY DEF Init
  <2> QED BY <2>1, StatusBeforeTheBatch DEF Lifecycle!Init
<1>3. ASSUME CallsInv, StreamInv, BatchInv, [Next]_vars
      PROVE  [Lifecycle!Next]_Status
  <2>1. CASE phase \in {"stream", "closing"} /\ (phase' \in {"stream", "closing"} \/ order' = <<>>)
    <3>1. Status = [c \in CallIds |-> "unissued"]
      BY <2>1, StatusBeforeTheBatch
    <3>2. Status' = [c \in CallIds |-> "unissued"]
      <4>1. ASSUME order' = <<>> PROVE Range(order') = {}
        BY <4>1 DEF Range
      <4> QED BY <2>1, <4>1 DEF Status
    <3> QED BY <3>1, <3>2
  <2>2. CASE AbortStream
    <3> DEFINE S == Range(order)
    <3>1. /\ phase = "closing" /\ phase' = "aborted" /\ order' = order
          /\ recorded' = [i \in DOMAIN order |-> [call |-> order[i], result |-> "interrupted"]]
      BY <2>2 DEF AbortStream, streamVars
    <3>2. Status = [c \in CallIds |-> "unissued"]
      BY <3>1, StatusBeforeTheBatch
    <3>3. S \subseteq CallIds /\ S = {order[i] : i \in DOMAIN order}
      BY <1>3, ElementsOfSeq DEF StreamInv, Range
    <3>4. Range(recorded') = {[call |-> order[i], result |-> "interrupted"] : i \in DOMAIN order}
      BY <3>1 DEF Range
    <3>5. ASSUME NEW c \in S PROVE \E r \in Range(recorded') : r.call = c
      <4>1. PICK i \in DOMAIN order : c = order[i]
        BY <3>3
      <4>2. [call |-> order[i], result |-> "interrupted"] \in Range(recorded')
        BY <3>4
      <4> HIDE DEF S
      <4> QED BY <4>1, <4>2
    <3> HIDE DEF S
    <3>6. Status' = [c \in CallIds |-> IF c \in S THEN "answered" ELSE "unissued"]
      BY <3>1, <3>5 DEF Status, S
    <3>7. Lifecycle!Having("unissued") = CallIds
          /\ Lifecycle!Having("running") = {} /\ Lifecycle!Having("awaiting") = {} /\ Lifecycle!Having("asked") = {}
      BY <3>2 DEF Lifecycle!Having
    <3>8. Lifecycle!Cut
      <4>1. Status' = [c \in CallIds |-> IF c \in S THEN "answered" ELSE IF c \in S THEN "dropped" ELSE Status[c]]
        BY <3>2, <3>6
      <4>2. S \in SUBSET Lifecycle!Having("unissued") /\ S \in SUBSET S
        BY <3>3, <3>7
      <4> QED BY <3>7, <4>1, <4>2 DEF Lifecycle!Cut
    <3> QED BY <3>8 DEF Lifecycle!Next
  <2>3. CASE DrainDispatch
    <3> DEFINE S == Range(order)
               A == S \cap pendingSpecs'
    <3>1. /\ phase = "closing" /\ phase' \notin {"stream", "closing"} /\ order' = order
          /\ recorded' = recorded /\ pendingTools' = pendingTools \cup pendingSpecs'
      BY <2>3 DEF DrainDispatch, streamVars
    <3>2. Status = [c \in CallIds |-> "unissued"]
      BY <3>1, StatusBeforeTheBatch
    <3>3. recorded = <<>> /\ pendingTools = {}
      BY <1>3, <3>1 DEF BatchInv, Unrecorded
    <3>4. Range(recorded') = {}
      BY <3>1, <3>3 DEF Range
    <3>5. S \subseteq CallIds
      BY <1>3, ElementsOfSeq DEF StreamInv
    <3>6. Status' = [c \in CallIds |-> IF c \notin S THEN "unissued"
                                       ELSE IF c \in pendingSpecs' THEN "awaiting" ELSE "running"]
      BY <3>1, <3>3, <3>4 DEF Status
    <3> HIDE DEF S
    <3>7. Lifecycle!Having("unissued") = CallIds
          /\ Lifecycle!Having("running") = {} /\ Lifecycle!Having("awaiting") = {} /\ Lifecycle!Having("asked") = {}
      BY <3>2 DEF Lifecycle!Having
    <3>8. Lifecycle!Issue
      <4>1. Status' = [c \in CallIds |-> IF c \in A THEN "awaiting" ELSE IF c \in S THEN "running" ELSE Status[c]]
        BY <3>2, <3>6
      <4>2. S \in SUBSET Lifecycle!Having("unissued") /\ A \in SUBSET S
        BY <3>5, <3>7
      <4> QED BY <3>7, <4>1, <4>2 DEF Lifecycle!Issue
    <3> QED BY <3>8 DEF Lifecycle!Next
  <2>4. CASE Record /\ Len(recorded) < Len(ToRecord)
    <3> DEFINE c == ToRecord[Len(recorded) + 1]
    <3>1. /\ phase = "record" /\ phase' = "record" /\ UNCHANGED <<order, pendingTools>>
          /\ recorded' = Append(recorded, Outcome(c))
      BY <2>4 DEF Record, streamVars, Outcome
    <3>2. c \in CallIds /\ c \in Range(order) /\ c \notin pendingTools /\ ~Answered(c)
      BY <1>3, <2>4, <3>1, NextIsNotRecorded
    <3>3. Outcome(c) \in RecordType
      <4>1. recorded \in Seq(RecordType) /\ Len(recorded) \in Nat
        BY <1>3 DEF BatchInv, FlagsOK
      <4>2. /\ ToRecord \in Seq(CallIds)
            /\ \A i \in 1 .. Len(ToRecord) : Outcome(ToRecord[i]) \in RecordType
        BY <1>3, ToRecordType
      <4>3. Len(recorded) + 1 \in 1 .. Len(ToRecord)
        BY <2>4, <4>1, <4>2
      <4> QED BY <4>2, <4>3
    <3> HIDE DEF c
    <3>4. Range(recorded') = Range(recorded) \cup {Outcome(c)}
      BY <1>3, <3>1, <3>3, ElementsOfAppend DEF BatchInv, FlagsOK
    <3>5. Outcome(c).call = c
      BY DEF Outcome
    <3>6. \A d : (\E r \in Range(recorded') : r.call = d) <=> Answered(d) \/ d = c
      BY <3>4, <3>5 DEF Answered
    <3>7. Status[c] = "running"
      BY <3>1, <3>2 DEF Status, Answered
    <3>8. Status' = [d \in CallIds |-> IF d \in {c} THEN "answered" ELSE Status[d]]
      BY <3>1, <3>2, <3>6 DEF Status, Answered
    <3>9. Lifecycle!Finish(c)
      BY <3>7, <3>8 DEF Lifecycle!Finish, Lifecycle!Move
    <3> QED BY <3>2, <3>9 DEF Lifecycle!Next
  <2>5. CASE Record /\ ~(Len(recorded) < Len(ToRecord))
    <3>1. UNCHANGED <<order, pendingTools, recorded>> /\ phase = "record" /\ phase' = "done"
      BY <2>5 DEF Record, streamVars
    <3> QED BY <3>1, StatusStays
  <2>6. CASE Collect
    <3>1. UNCHANGED <<order, pendingSpecs, recorded>> /\ phase = "collect" /\ phase' = "record"
          /\ pendingTools' = pendingTools \ executed
      BY <2>6 DEF Collect, streamVars, dispatchVars
    <3>2. pendingTools' = pendingTools
      BY <1>3, <3>1 DEF BatchInv, AllHandled, CallsInv, OneVerdict
    <3> QED BY <3>1, <3>2, StatusStays
  <2>7. CASE TaskStarts \/ TaskEnds \/ Interrupt \/ Bridge \/ UNCHANGED vars
    <3>1. UNCHANGED <<order, pendingTools, recorded, phase>>
      BY <2>7 DEF TaskStarts, TaskEnds, Interrupt, Bridge, vars, streamVars
    <3> QED BY <3>1, StatusStays
  <2>8. CASE Poll \/ Name \/ Piece \/ Arguments \/ StreamEnds \/ StreamCancelled \/ StreamFails
    <3>1. phase \in {"stream", "closing"} /\ phase' \in {"stream", "closing", "failed"}
      BY <2>8 DEF Poll, Name, Piece, Arguments, StreamEnds, StreamCancelled, CloseStream, StreamFails
    <3>2. phase' = "failed" => order' = <<>>
      BY <1>3, CallsStep DEF StreamInv
    <3> QED BY <2>1, <3>1, <3>2
  <2> QED BY <1>3, <2>2, <2>3, <2>4, <2>5, <2>6, <2>7, <2>8 DEF Next
<1> QED BY <1>1, <1>2, <1>3, CallsStep, BatchStep, PTL DEF Spec, BatchKeepsTheLifecycle, Lifecycle!Spec
==============================================================================
