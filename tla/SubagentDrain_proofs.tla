------------------------ MODULE SubagentDrain_proofs ------------------------
(* What holds of the sub-agents for any number of jobs, turns and troubles,   *)
(* and any budget of their loops.                                             *)
EXTENDS SubagentDrain, FiniteSetTheorems, SequenceTheorems, TLAPS

-----------------------------------------------------------------------------
(* Types, the budget of the loops, and the count.                             *)

(* An agent that has not entered its report phase is within its budget.       *)
WithinBudget == \A i \in JobIds : grace[i] < 0 => loops[i] < MaxLoops

(* No agent runs uncounted.                                                   *)
Counted == count >= Cardinality(Running)

CountInv == TypeOK /\ WithinBudget /\ Counted

LEMMA JobsAreFinite ==
    ASSUME NEW S \in SUBSET JobIds
    PROVE  IsFiniteSet(S) /\ Cardinality(S) \in Nat
<1>1. IsFiniteSet(JobIds)
  BY FS_Interval, DrainAssumption DEF JobIds
<1> QED BY <1>1, FS_Subset, FS_CardinalityType

LEMMA CountStays ==
    ASSUME count \in Nat, Counted, Running' \subseteq Running, count' = count
    PROVE  count' \in Nat /\ Counted'
<1>1. Running \in SUBSET JobIds /\ Running' \in SUBSET JobIds
  BY DEF Running
<1>2. Cardinality(Running') <= Cardinality(Running)
  BY <1>1, JobsAreFinite, FS_Subset
<1>3. Cardinality(Running) \in Nat /\ Cardinality(Running') \in Nat
  BY <1>1, JobsAreFinite
<1> QED BY <1>2, <1>3 DEF Counted

LEMMA CountGrows ==
    ASSUME count \in Nat, Counted, NEW i, Running' \subseteq Running \cup {i}, count' = count + 1
    PROVE  count' \in Nat /\ Counted'
<1>1. Running \in SUBSET JobIds /\ Running' \in SUBSET JobIds
  BY DEF Running
<1>2. IsFiniteSet(Running \cup {i}) /\ Cardinality(Running \cup {i}) <= Cardinality(Running) + 1
  BY <1>1, JobsAreFinite, FS_AddElement
<1>3. Cardinality(Running') <= Cardinality(Running \cup {i})
  BY <1>2, FS_Subset
<1>4. /\ Cardinality(Running) \in Nat /\ Cardinality(Running') \in Nat
      /\ Cardinality(Running \cup {i}) \in Nat
  BY <1>1, <1>2, JobsAreFinite, FS_CardinalityType
<1> QED BY <1>2, <1>3, <1>4 DEF Counted

LEMMA CountFalls ==
    ASSUME count \in Nat, Counted, NEW i \in Running, Running' \subseteq Running \ {i},
           count' = count - 1
    PROVE  count' \in Nat /\ Counted'
<1>1. Running \in SUBSET JobIds /\ Running' \in SUBSET JobIds
  BY DEF Running
<1>2. IsFiniteSet(Running \ {i}) /\ Cardinality(Running \ {i}) = Cardinality(Running) - 1
  BY <1>1, JobsAreFinite, FS_RemoveElement
<1>3. Cardinality(Running') <= Cardinality(Running \ {i})
  BY <1>2, FS_Subset
<1>4. Cardinality(Running) \in Nat /\ Cardinality(Running') \in Nat
  BY <1>1, JobsAreFinite
<1> QED BY <1>2, <1>3, <1>4 DEF Counted

(* The job that is handled is one of the jobs.                                *)
LEMMA HeadsAreJobs ==
    ASSUME NEW q \in Seq(JobIds), q # <<>>
    PROVE  Head(q) \in JobIds /\ Tail(q) \in Seq(JobIds)
BY HeadTailProperties

LEMMA JoinedAreJobs ==
    ASSUME NEW q \in Seq(JobIds), NEW i \in Joined(q)
    PROVE  i \in JobIds /\ q # <<>> /\ Tail(q) \in Seq(JobIds)
<1>1. q # <<>> /\ i = Head(q)
  BY DEF Joined
<1> QED BY <1>1, HeadsAreJobs

(* What agents do is no business of the mode.                                 *)
LEMMA AgentsLeaveTheMode ==
    ASSUME NEW i \in JobIds, Agent(i) \/ Fails(i) \/ Panics(i)
    PROVE  agentRest' = agentRest
BY DEF Agent, Fails, Panics, Begin, Ask, SeesAbort, Cancelled, Answers, Truncated, Overflows,
       UsesTools, RejectsTools, Overruns, Ends

(* An agent's step keeps the types, moves one agent at most, and counts out   *)
(* only the agent that ends.                                                  *)
LEMMA AgentKeepsCount ==
    ASSUME CountInv, NEW i \in JobIds, Agent(i) \/ Fails(i) \/ Panics(i)
    PROVE  CountInv'
<1> USE DrainAssumption DEF CountInv, WithinBudget, TypeOK
<1>1. agentRest' = agentRest
  BY AgentsLeaveTheMode
<1>2. troubles' \in 0 .. Troubles
  BY DEF Agent, Fails, Panics, Begin, Ask, SeesAbort, Cancelled, Answers, Truncated, Overflows,
         UsesTools, RejectsTools, Overruns, Ends, Trouble
<1>3. SUFFICES /\ at' \in [JobIds -> {"none", "queued", "begin", "head", "call", "done", "failed",
                                      "panicked", "dropped"}]
               /\ loops' \in [JobIds -> 0 .. MaxLoops]
               /\ grace' \in [JobIds -> -1 .. REPORT_GRACE_LOOPS]
               /\ WithinBudget'
               /\ count' \in Nat /\ Counted'
  BY <1>1, <1>2 DEF agentRest, modeVars, turnVars
<1>4. CASE Begin(i) \/ Ask(i)
  <2>1. Running' \subseteq Running
    BY <1>4 DEF Begin, Ask, Move, Running
  <2>2. count' = count /\ UNCHANGED <<loops, grace>>
    BY <1>4 DEF Begin, Ask
  <2>3. count' \in Nat /\ Counted'
    BY <2>1, <2>2, CountStays
  <2> QED BY <1>4, <2>2, <2>3 DEF Begin, Ask, Move
<1>5. CASE Over(i, "done") /\ at[i] \in {"head", "call"} /\ count' = count - 1
  <2>1. i \in Running /\ Running' \subseteq Running \ {i}
    BY <1>5 DEF Over, Move, Running
  <2>2. count' \in Nat /\ Counted'
    BY <1>5, <2>1, CountFalls
  <2> QED BY <1>5, <2>2 DEF Over, Move, REPORT_GRACE_LOOPS
<1>6. CASE UsesTools(i)
  <2>1. Running' \subseteq Running /\ count' = count
    BY <1>6 DEF UsesTools, Move, Running
  <2>2. count' \in Nat /\ Counted'
    BY <2>1, CountStays
  <2>3. loops' \in [JobIds -> 0 .. MaxLoops] /\ grace' \in [JobIds -> -1 .. REPORT_GRACE_LOOPS]
    BY <1>6 DEF UsesTools, GraceAfter, REPORT_GRACE_LOOPS
  <2>4. WithinBudget'
    BY <1>6 DEF UsesTools, GraceAfter, REPORT_GRACE_LOOPS
  <2> QED BY <1>6, <2>2, <2>3, <2>4 DEF UsesTools, Move
<1>7. CASE RejectsTools(i)
  <2>1. Running' \subseteq Running /\ count' = count
    BY <1>7 DEF RejectsTools, Move, Running
  <2>2. count' \in Nat /\ Counted'
    BY <2>1, CountStays
  <2>3. grace' \in [JobIds -> -1 .. REPORT_GRACE_LOOPS] /\ WithinBudget'
    BY <1>7 DEF RejectsTools, GraceAfter, REPORT_GRACE_LOOPS
  <2> QED BY <1>7, <2>2, <2>3 DEF RejectsTools, Move
<1>8. CASE Fails(i) \/ Panics(i)
  <2>1. Running' \subseteq Running /\ count' = count
    BY <1>8 DEF Fails, Panics, Over, Move, Running
  <2>2. count' \in Nat /\ Counted'
    BY <2>1, CountStays
  <2>3. PICK to \in {"failed", "panicked"} : Over(i, to)
    BY <1>8 DEF Fails, Panics
  <2>4. loops' = [loops EXCEPT ![i] = 0] /\ grace' = [grace EXCEPT ![i] = -1]
    BY <2>3 DEF Over
  <2>5. at' \in [JobIds -> {"none", "queued", "begin", "head", "call", "done", "failed",
                           "panicked", "dropped"}]
    BY <2>3 DEF Over, Move
  <2>6. loops' \in [JobIds -> 0 .. MaxLoops] /\ grace' \in [JobIds -> -1 .. REPORT_GRACE_LOOPS]
    BY <2>4 DEF REPORT_GRACE_LOOPS
  <2>7. WithinBudget'
    BY <2>4
  <2> QED BY <2>2, <2>5, <2>6, <2>7
<1> QED BY <1>4, <1>5, <1>6, <1>7, <1>8
        DEF Agent, SeesAbort, Cancelled, Answers, Truncated, Overflows, Overruns, Ends

(* A step of the main session or of a drain counts an agent in before it      *)
(* starts, and lets jobs go only while they wait.                             *)
LEMMA MainKeepsCount ==
    ASSUME CountInv,
           \/ StartTurn \/ NextRequest \/ Fork \/ Hook \/ StreamAborts \/ StreamLeaves
           \/ FinishTurn \/ SetMode \/ Interrupt \/ SpawnMemory
    PROVE  CountInv'
<1> USE DrainAssumption DEF CountInv, WithinBudget, TypeOK, jobVars, modeVars, turnVars
<1>1. CASE StartTurn \/ NextRequest \/ StreamLeaves \/ FinishTurn \/ SetMode \/ Interrupt
  <2>1. /\ UNCHANGED <<kind, at, loops, grace, row, queue, drain, count, prior, reports, troubles>>
        /\ Running' = Running
    BY <1>1 DEF StartTurn, NextRequest, StreamLeaves, FinishTurn, SetMode, Interrupt, Running
  <2>2. Counted'
    BY <2>1, CountStays
  <2>3. aborted' \in BOOLEAN /\ allowFork' \in BOOLEAN
    BY <1>1, Zenon DEF StartTurn, NextRequest, StreamLeaves, FinishTurn, SetMode, Interrupt
  <2>4. mode' \in Modes /\ chosen' \in Modes
    BY <1>1 DEF StartTurn, NextRequest, StreamLeaves, FinishTurn, SetMode, Interrupt
  <2>5. turn' \in {"idle", "stream", "drain", "after"} /\ turns' \in 0 .. MaxTurns
    BY <1>1 DEF StartTurn, NextRequest, StreamLeaves, FinishTurn, SetMode, Interrupt
  <2> QED BY <2>1, <2>2, <2>3, <2>4, <2>5
<1>2. CASE Fork \/ Hook
  <2>1. PICK i \in NextJob, k \in {"fork", "hook"} :
           /\ kind' = [kind EXCEPT ![i] = k] /\ at' = [at EXCEPT ![i] = "queued"]
           /\ queue' = Append(queue, i)
    BY <1>2 DEF Fork, Hook, Enqueue
  <2>2. i \in JobIds
    BY DEF NextJob, Unused
  <2>3. Running' \subseteq Running /\ count' = count
    BY <1>2, <2>1, <2>2 DEF Fork, Hook, Enqueue, Running
  <2>4. Counted'
    BY <2>3, CountStays
  <2> QED BY <1>2, <2>1, <2>2, <2>4 DEF Fork, Hook, Enqueue
<1>3. CASE StreamAborts
  <2>1. Running' \subseteq Running /\ count' = count
    BY <1>3 DEF StreamAborts, Running
  <2>2. Counted'
    BY <2>1, CountStays
  <2> QED BY <1>3, <2>2 DEF StreamAborts
<1>4. CASE SpawnMemory
  <2>1. PICK i \in NextJob :
           kind' = [kind EXCEPT ![i] = "memory"] /\ at' = [at EXCEPT ![i] = "begin"]
    BY <1>4 DEF SpawnMemory
  <2>2. i \in JobIds
    BY DEF NextJob, Unused
  <2>3. count' = count + 1
    BY <1>4 DEF SpawnMemory
  <2>4. Running' \subseteq Running \cup {i}
    BY <2>1, <2>2 DEF Running
  <2>5. count' \in Nat /\ Counted'
    BY <2>3, <2>4, CountGrows
  <2>6. UNCHANGED <<loops, grace, row, queue, drain, mode, prior, chosen, aborted, turn, turns,
                    allowFork, reports, troubles>>
    BY <1>4 DEF SpawnMemory
  <2> QED BY <2>1, <2>2, <2>5, <2>6
<1> QED BY <1>1, <1>2, <1>3, <1>4

-----------------------------------------------------------------------------
(* The permission mode.                                                       *)

(* The guard of a drain holds the mode of the author and nothing else, and    *)
(* there is one as long as the engine is in a drain.                          *)
ModeInv ==
    /\ drain.on = (turn = "drain")
    /\ drain.on => (prior = {} /\ mode = chosen) \/ prior = {chosen}
    /\ ~drain.on => prior = {} /\ mode = chosen

(* Dropping the guard gives the author's mode back, wherever it is dropped.   *)
LEMMA GuardRestores ==
    ASSUME ModeInv, NEW to, to # "drain", LeaveDrain(to), chosen' = chosen
    PROVE  ModeInv'
<1>1. Restored = chosen
  BY DEF ModeInv, Restored
<1> QED BY <1>1 DEF ModeInv, LeaveDrain, NoDrain

(* Every step keeps the mode in the guard, and the last of a drain gives it  *)
(* back however it ends: PermissionOverrideGuard.                             *)
LEMMA ModeStep == TypeOK /\ ModeInv /\ [Next]_vars => ModeInv'
<1> SUFFICES ASSUME TypeOK, ModeInv, [Next]_vars PROVE ModeInv'
  OBVIOUS
<1> USE DEF ModeInv
<1>0. drain \in [on : BOOLEAN, todo : Seq(JobIds), handles : Seq(JobIds)]
  BY DEF TypeOK
<1>1. CASE StartTurn \/ NextRequest \/ FinishTurn \/ StreamAborts \/ StreamLeaves
  BY <1>1 DEF StartTurn, NextRequest, FinishTurn, StreamAborts, StreamLeaves, modeVars
<1>2. CASE Fork \/ Hook
  BY <1>2 DEF Fork, Hook, Enqueue, modeVars, turnVars
<1>3. CASE SetMode
  BY <1>3 DEF SetMode, turnVars
<1>4. CASE Interrupt \/ SpawnMemory
  BY <1>4 DEF Interrupt, SpawnMemory, modeVars, turnVars
<1>5. CASE StartDrain
  <2>1. CASE queue = <<>>
    BY <1>5, <2>1 DEF StartDrain
  <2>2. CASE queue # <<>>
    <3>1. ~drain.on /\ prior = {} /\ mode = chosen
      BY <1>5 DEF StartDrain
    <3>2. turn' = "drain" /\ drain'.on = TRUE /\ chosen' = chosen
      BY <1>5, <2>2 DEF StartDrain
    <3>3. prior' = {mode} \/ (prior' = prior /\ mode' = mode)
      BY <1>5, <2>2 DEF StartDrain
    <3> QED BY <3>1, <3>2, <3>3
  <2> QED BY <2>1, <2>2
<1>6. CASE SpawnJob
  <2>1. drain'.on = drain.on
    BY <1>0, <1>6 DEF SpawnJob
  <2> QED BY <1>6, <2>1 DEF SpawnJob, modeVars, turnVars
<1>7. CASE Join
  <2>1. drain'.on = drain.on
    BY <1>0, <1>7 DEF Join
  <2> QED BY <1>7, <2>1 DEF Join, modeVars, turnVars
<1>8. CASE SpawnFails \/ JoinPanics
  BY <1>8, GuardRestores DEF SpawnFails, JoinPanics
<1>9. CASE EndDrain
  BY <1>9, GuardRestores DEF EndDrain
<1>10. CASE JoinFails
  <2>1. chosen' = chosen
    BY <1>10 DEF JoinFails
  <2>2. CASE LeaveDrain("idle")
    BY <2>1, <2>2, GuardRestores
  <2>3. CASE drain' = [drain EXCEPT !.handles = Tail(@)] /\ UNCHANGED <<mode, prior, turn>>
    <3>1. drain'.on = drain.on
      BY <1>0, <2>3
    <3> QED BY <2>1, <2>3, <3>1
  <2> QED BY <1>10, <2>2, <2>3 DEF JoinFails
<1>11. CASE \E i \in JobIds : Agent(i) \/ Fails(i) \/ Panics(i)
  BY <1>11, AgentsLeaveTheMode DEF agentRest, modeVars, turnVars
<1>12. CASE UNCHANGED vars
  BY <1>12 DEF vars, modeVars, turnVars
<1> QED BY <1>1, <1>2, <1>3, <1>4, <1>5, <1>6, <1>7, <1>8, <1>9, <1>10, <1>11, <1>12
        DEF Next, Engine

(* A step of a drain counts an agent in as it is spawned, and lets jobs go     *)
(* without ever counting one out.                                             *)
LEMMA DrainKeepsCount ==
    ASSUME CountInv, ModeInv, Engine \/ SpawnFails \/ JoinFails
    PROVE  CountInv'
<1> USE DrainAssumption DEF CountInv, WithinBudget, TypeOK, jobVars, modeVars, turnVars
<1>0. \A to : LeaveDrain(to) => drain' = NoDrain /\ mode' \in Modes /\ prior' \in SUBSET Modes
                                /\ turn' = to
  BY DEF LeaveDrain, Restored, ModeInv
<1>1. /\ NoDrain \in [on : BOOLEAN, todo : Seq(JobIds), handles : Seq(JobIds)]
      /\ <<>> \in Seq(JobIds)
  BY DEF NoDrain
<1>2. CASE StartDrain
  <2>1. /\ UNCHANGED <<kind, at, loops, grace, row, count, chosen, aborted, turns, allowFork, reports,
                      troubles>>
        /\ Running' = Running
    BY <1>2 DEF StartDrain, Running
  <2>2. Counted'
    BY <2>1, CountStays
  <2>3. \/ queue' = queue /\ drain' = drain /\ turn' = "after"
        \/ queue' = <<>> /\ turn' = "drain"
           /\ drain' = [on |-> TRUE, todo |-> queue, handles |-> <<>>]
    BY <1>2, Zenon DEF StartDrain
  <2>4. /\ queue' \in Seq(JobIds) /\ turn' \in {"idle", "stream", "drain", "after"}
        /\ drain' \in [on : BOOLEAN, todo : Seq(JobIds), handles : Seq(JobIds)]
    <3>1. CASE queue' = queue /\ drain' = drain /\ turn' = "after"
      BY <3>1
    <3>2. CASE /\ queue' = <<>> /\ turn' = "drain"
               /\ drain' = [on |-> TRUE, todo |-> queue, handles |-> <<>>]
      <4>1. [on |-> TRUE, todo |-> queue, handles |-> <<>>]
              \in [on : BOOLEAN, todo : Seq(JobIds), handles : Seq(JobIds)]
        BY <1>1
      <4> QED BY <1>1, <3>2, <4>1
    <3> QED BY <2>3, <3>1, <3>2
  <2>5. mode' \in Modes /\ prior' \in SUBSET Modes
    BY <1>2 DEF StartDrain
  <2> QED BY <2>1, <2>2, <2>4, <2>5
<1>3. CASE SpawnJob
  <2> DEFINE i == Head(drain.todo)
  <2>1. i \in JobIds /\ Tail(drain.todo) \in Seq(JobIds)
    BY <1>3, HeadsAreJobs DEF SpawnJob
  <2>2. /\ drain' = [drain EXCEPT !.todo = Tail(@), !.handles = Append(@, i)]
        /\ row' = [row EXCEPT ![i] = "running"] /\ at' = [at EXCEPT ![i] = "begin"]
        /\ count' = count + 1
    BY <1>3 DEF SpawnJob
  <2>3. UNCHANGED <<kind, loops, grace, queue, mode, prior, chosen, aborted, turn, turns, allowFork,
                    reports, troubles>>
    BY <1>3 DEF SpawnJob
  <2> HIDE DEF i
  <2>4. Running' \subseteq Running \cup {i}
    BY <2>1, <2>2 DEF Running
  <2>5. count' \in Nat /\ Counted'
    BY <2>2, <2>4, CountGrows
  <2>6. Append(drain.handles, i) \in Seq(JobIds)
    BY <2>1
  <2>7. drain' \in [on : BOOLEAN, todo : Seq(JobIds), handles : Seq(JobIds)]
    BY <2>1, <2>2, <2>6
  <2> QED BY <2>1, <2>2, <2>3, <2>5, <2>7
<1>4. CASE SpawnFails
  <2>1. /\ UNCHANGED <<kind, loops, grace, row, queue, count, chosen, aborted, turns, allowFork, reports>>
        /\ at' = [i \in JobIds |-> IF i \in Range(drain.todo) THEN "dropped" ELSE at[i]]
        /\ troubles' \in 0 .. Troubles /\ LeaveDrain("idle")
    BY <1>4 DEF SpawnFails, Trouble
  <2>2. Running' \subseteq Running
    BY <2>1 DEF Running
  <2>3. Counted'
    BY <2>1, <2>2, CountStays
  <2> QED BY <1>0, <1>1, <2>1, <2>3
<1>5. CASE Join
  <2>1. PICK i \in Joined(drain.handles) :
          /\ drain' = [drain EXCEPT !.handles = Tail(@)]
          /\ \/ at[i] = "done" /\ Report(i)
             \/ at[i] = "failed" /\ UNCHANGED <<reports, row>>
    BY <1>5 DEF Join
  <2>2. i \in JobIds /\ Tail(drain.handles) \in Seq(JobIds)
    BY JoinedAreJobs
  <2>3. /\ UNCHANGED <<kind, at, loops, grace, queue, count, mode, prior, chosen, aborted, turn, turns,
                      allowFork, troubles>>
        /\ Running' = Running
    BY <1>5 DEF Join, Running
  <2>4. Counted'
    BY <2>3, CountStays
  <2>5. reports' = reports \/ reports' = Append(reports, i)
    BY <2>1, Zenon DEF Report
  <2>6. reports' \in Seq(JobIds)
    <3>1. Append(reports, i) \in Seq(JobIds)
      BY <2>2, AppendProperties
    <3> QED BY <2>5, <3>1
  <2>7. row' \in [JobIds -> {"none", "running", "complete"}]
    BY <2>1, <2>2 DEF Report
  <2>8. drain' \in [on : BOOLEAN, todo : Seq(JobIds), handles : Seq(JobIds)]
    BY <2>1, <2>2
  <2> QED BY <2>3, <2>4, <2>6, <2>8, <2>7
<1>6. CASE JoinFails
  <2>1. PICK i \in Joined(drain.handles) :
          \/ reports' \in {reports, Append(reports, i)} /\ LeaveDrain("idle")
          \/ drain' = [drain EXCEPT !.handles = Tail(@)] /\ UNCHANGED <<reports, mode, prior, turn>>
    BY <1>6 DEF JoinFails
  <2>2. i \in JobIds /\ Tail(drain.handles) \in Seq(JobIds)
    BY JoinedAreJobs
  <2>3. /\ UNCHANGED <<kind, at, loops, grace, row, queue, count, chosen, aborted, turns, allowFork>>
        /\ troubles' = troubles + 1 /\ troubles < Troubles
    BY <1>6, Zenon DEF JoinFails, Trouble
  <2>4. Running' = Running
    BY <2>3 DEF Running
  <2>5. Counted'
    BY <2>3, <2>4, CountStays
  <2>6. reports' = reports \/ reports' = Append(reports, i)
    BY <2>1
  <2>7. reports' \in Seq(JobIds)
    <3>1. Append(reports, i) \in Seq(JobIds)
      BY <2>2, AppendProperties
    <3> QED BY <2>6, <3>1
  <2>8. CASE LeaveDrain("idle")
    BY <1>0, <1>1, <2>3, <2>5, <2>7, <2>8
  <2>9. CASE drain' = [drain EXCEPT !.handles = Tail(@)] /\ UNCHANGED <<reports, mode, prior, turn>>
    <3>1. drain' \in [on : BOOLEAN, todo : Seq(JobIds), handles : Seq(JobIds)]
      BY <2>2, <2>9
    <3> QED BY <2>3, <2>5, <2>7, <2>9, <3>1
  <2> QED BY <2>1, <2>8, <2>9
<1>7. CASE JoinPanics \/ EndDrain
  <2>1. /\ UNCHANGED <<kind, at, loops, grace, row, queue, count, chosen, aborted, turns, allowFork,
                      reports, troubles>>
        /\ Running' = Running
    BY <1>7 DEF JoinPanics, EndDrain, Running
  <2>2. Counted'
    BY <2>1, CountStays
  <2>3. LeaveDrain("idle") \/ LeaveDrain("after")
    BY <1>7 DEF JoinPanics, EndDrain
  <2>4. /\ drain' = NoDrain /\ mode' \in Modes /\ prior' \in SUBSET Modes
        /\ turn' \in {"idle", "stream", "drain", "after"}
    BY <1>0, <2>3
  <2> QED BY <1>1, <2>1, <2>2, <2>4
<1> QED BY <1>2, <1>3, <1>4, <1>5, <1>6, <1>7 DEF Engine

-----------------------------------------------------------------------------
(* Both together.                                                             *)

DrainInv == CountInv /\ ModeInv

(* The initial states satisfy the invariant.                                  *)
LEMMA DrainStarts == Init => DrainInv
<1> SUFFICES ASSUME Init PROVE DrainInv
  OBVIOUS
<1> USE DrainAssumption DEF Init
<1>1. Running = {}
  BY DEF Running
<1>2. Counted
  BY <1>1, FS_EmptySet DEF Counted
<1>3. drain \in [on : BOOLEAN, todo : Seq(JobIds), handles : Seq(JobIds)] /\ drain.on = FALSE
  BY DEF NoDrain
<1>4. aborted \in BOOLEAN /\ allowFork \in BOOLEAN
  BY Zenon
<1>5. grace \in [JobIds -> -1 .. REPORT_GRACE_LOOPS]
  BY DEF REPORT_GRACE_LOOPS
<1>6. TypeOK
  BY <1>3, <1>4, <1>5 DEF TypeOK
<1>7. WithinBudget
  BY DEF WithinBudget
<1>8. ModeInv
  BY <1>3 DEF ModeInv
<1> QED BY <1>2, <1>6, <1>7, <1>8 DEF DrainInv, CountInv

(* Every step keeps it.                                                       *)
LEMMA DrainSteps == DrainInv /\ [Next]_vars => DrainInv'
<1> SUFFICES ASSUME DrainInv, [Next]_vars PROVE DrainInv'
  OBVIOUS
<1> USE DEF DrainInv
<1>1. ModeInv'
  BY ModeStep DEF CountInv
<1>2. CASE \E i \in JobIds : Agent(i) \/ Fails(i) \/ Panics(i)
  BY <1>1, <1>2, AgentKeepsCount
<1>3. CASE UNCHANGED vars
  <2>1. CountInv'
    BY <1>3 DEF vars, CountInv, jobVars, modeVars, turnVars, TypeOK, WithinBudget, Counted, Running
  <2> QED BY <1>1, <2>1
<1>4. CASE \/ StartTurn \/ NextRequest \/ Fork \/ Hook \/ StreamAborts \/ StreamLeaves
           \/ FinishTurn \/ SetMode \/ Interrupt \/ SpawnMemory
  BY <1>1, <1>4, MainKeepsCount
<1>5. CASE Engine \/ SpawnFails \/ JoinFails
  BY <1>1, <1>5, DrainKeepsCount
<1> QED BY <1>2, <1>3, <1>4, <1>5 DEF Next

(* No sub-agent runs uncounted, so a second batch is refused while one of the *)
(* first still runs: the test of sub_agent_count in fork() and ForkSubAgent.  *)
THEOREM NobodyRunsUncounted == Spec => []CountCoversRunning
<1>1. DrainInv => CountCoversRunning
  BY DEF DrainInv, CountInv, Counted, CountCoversRunning
<1> QED BY DrainStarts, DrainSteps, <1>1, PTL DEF Spec

(* The permission mode is the author's whenever no drain is going on, however *)
(* the last one ended: PermissionOverrideGuard.                               *)
THEOREM ModeComesBack == Spec => []AuthorsModeIsBack
<1>1. DrainInv => AuthorsModeIsBack
  BY DEF DrainInv, ModeInv, AuthorsModeIsBack
<1> QED BY DrainStarts, DrainSteps, <1>1, PTL DEF Spec

-----------------------------------------------------------------------------
(* The order of the reports.  Jobs are numbered as they come, and a job moves *)
(* from the queue to the jobs of a drain, to its handles and to the reports,  *)
(* always from the front of the one to the end of the other.                  *)

Rising(s) == \A m, n \in 1 .. Len(s) : m < n => s[m] < s[n]
Below(s, x) == \A m \in 1 .. Len(s) : s[m] < x
Above(s, x) == \A m \in 1 .. Len(s) : x < s[m]
Before(s, t) == \A m \in 1 .. Len(s), n \in 1 .. Len(t) : s[m] < t[n]

Line(r, h, t, q) ==
    /\ r \in Seq(JobIds) /\ h \in Seq(JobIds) /\ t \in Seq(JobIds) /\ q \in Seq(JobIds)
    /\ Rising(r) /\ Rising(h) /\ Rising(t) /\ Rising(q)
    /\ Before(r, h) /\ Before(r, t) /\ Before(r, q)
    /\ Before(h, t) /\ Before(h, q) /\ Before(t, q)

LEMMA AppendRises ==
    ASSUME NEW s \in Seq(JobIds), NEW x \in JobIds, Below(s, x)
    PROVE  /\ Append(s, x) \in Seq(JobIds)
           /\ Rising(s) => Rising(Append(s, x))
           /\ \A t \in Seq(JobIds) : Before(s, t) /\ Above(t, x) => Before(Append(s, x), t)
           /\ \A t \in Seq(JobIds) : Before(t, s) /\ Below(t, x) => Before(t, Append(s, x))
<1>1. /\ Append(s, x) \in Seq(JobIds) /\ Len(Append(s, x)) = Len(s) + 1 /\ Len(s) \in Nat
      /\ \A i \in 1 .. Len(s) + 1 : Append(s, x)[i] = IF i <= Len(s) THEN s[i] ELSE x
  OBVIOUS
<1> DEFINE a == Append(s, x)
<1> HIDE DEF a
<1>2. Rising(s) => Rising(a)
  BY <1>1 DEF Rising, Below, a
<1>3. \A t \in Seq(JobIds) : Before(s, t) /\ Above(t, x) => Before(a, t)
  BY <1>1 DEF Before, Above, a
<1>4. \A t \in Seq(JobIds) : Before(t, s) /\ Below(t, x) => Before(t, a)
  BY <1>1 DEF Before, Below, a
<1> QED BY <1>1, <1>2, <1>3, <1>4 DEF a

LEMMA HeadLeads ==
    ASSUME NEW s \in Seq(JobIds), s # <<>>
    PROVE  /\ Head(s) \in JobIds /\ Tail(s) \in Seq(JobIds)
           /\ Rising(s) => Rising(Tail(s)) /\ Above(Tail(s), Head(s))
           /\ \A t \in Seq(JobIds) : Before(s, t) => Before(Tail(s), t) /\ Above(t, Head(s))
           /\ \A t \in Seq(JobIds) : Before(t, s) => Before(t, Tail(s)) /\ Below(t, Head(s))
<1>1. /\ Len(s) \in Nat \ {0} /\ Len(Tail(s)) = Len(s) - 1 /\ Head(s) = s[1] /\ s[1] \in JobIds
      /\ Tail(s) \in Seq(JobIds) /\ \A i \in 1 .. Len(s) - 1 : Tail(s)[i] = s[i + 1]
  OBVIOUS
<1> DEFINE t == Tail(s)
           x == Head(s)
<1> HIDE DEF t, x
<1>2. Rising(s) => Rising(t) /\ Above(t, x)
  BY <1>1 DEF Rising, Above, t, x
<1>3. \A r \in Seq(JobIds) : Before(s, r) => Before(t, r) /\ Above(r, x)
  BY <1>1 DEF Before, Above, t, x
<1>4. \A r \in Seq(JobIds) : Before(r, s) => Before(r, t) /\ Below(r, x)
  BY <1>1 DEF Before, Below, t, x
<1> QED BY <1>1, <1>2, <1>3, <1>4 DEF t, x

LEMMA EmptyIsInOrder ==
    /\ <<>> \in Seq(JobIds) /\ Rising(<<>>)
    /\ \A s : Before(<<>>, s) /\ Before(s, <<>>)
BY DEF Rising, Before

LEMMA LineMoves ==
    ASSUME NEW r, NEW h, NEW t, NEW q, Line(r, h, t, q)
    PROVE  /\ h # <<>> => Line(Append(r, Head(h)), Tail(h), t, q) /\ Line(r, Tail(h), t, q)
                          /\ Below(r, Head(h))
           /\ t # <<>> => Line(r, Append(h, Head(t)), Tail(t), q) /\ Below(r, Head(t))
           /\ Line(r, <<>>, <<>>, q) /\ Line(r, <<>>, <<>>, <<>>)
           /\ h = <<>> /\ t = <<>> => Line(r, <<>>, q, <<>>)
           /\ \A x \in JobIds : Below(r, x) /\ Below(h, x) /\ Below(t, x) /\ Below(q, x)
                                   => Line(r, h, t, Append(q, x))
<1> USE DEF Line
<1>1. ASSUME h # <<>>
      PROVE  Line(Append(r, Head(h)), Tail(h), t, q) /\ Line(r, Tail(h), t, q) /\ Below(r, Head(h))
  <2> DEFINE x == Head(h)
             u == Tail(h)
  <2>1. /\ x \in JobIds /\ u \in Seq(JobIds) /\ Rising(u) /\ Above(u, x)
        /\ Before(u, t) /\ Above(t, x) /\ Before(u, q) /\ Above(q, x)
        /\ Before(r, u) /\ Below(r, x)
    BY <1>1, HeadLeads
  <2> HIDE DEF x, u
  <2>2. /\ Append(r, x) \in Seq(JobIds) /\ Rising(Append(r, x))
        /\ Before(Append(r, x), u) /\ Before(Append(r, x), t) /\ Before(Append(r, x), q)
    BY <2>1, AppendRises
  <2> QED BY <2>1, <2>2 DEF x, u
<1>2. ASSUME t # <<>>
      PROVE  Line(r, Append(h, Head(t)), Tail(t), q) /\ Below(r, Head(t))
  <2> DEFINE x == Head(t)
             u == Tail(t)
  <2>1. /\ x \in JobIds /\ u \in Seq(JobIds) /\ Rising(u) /\ Above(u, x)
        /\ Before(u, q) /\ Above(q, x)
        /\ Before(r, u) /\ Below(r, x) /\ Before(h, u) /\ Below(h, x)
    BY <1>2, HeadLeads
  <2> HIDE DEF x, u
  <2>2. /\ Append(h, x) \in Seq(JobIds) /\ Rising(Append(h, x))
        /\ Before(Append(h, x), u) /\ Before(Append(h, x), q) /\ Before(r, Append(h, x))
    BY <2>1, AppendRises
  <2> QED BY <2>1, <2>2 DEF x, u
<1>3. Line(r, <<>>, <<>>, q) /\ Line(r, <<>>, <<>>, <<>>) /\ (h = <<>> /\ t = <<>> => Line(r, <<>>, q, <<>>))
  BY EmptyIsInOrder
<1>4. ASSUME NEW x \in JobIds, Below(r, x), Below(h, x), Below(t, x), Below(q, x)
      PROVE  Line(r, h, t, Append(q, x))
  BY <1>4, AppendRises
<1> HIDE DEF Line
<1> QED BY <1>1, <1>2, <1>3, <1>4

(* Which jobs there are, and what is known of those that have reported.       *)
Exist(s) == \A m \in 1 .. Len(s) : kind[s[m]] # "none"
JobsInTurn ==
    /\ \A i, j \in JobIds : i < j /\ kind[i] = "none" => kind[j] = "none"
    /\ \A i \in JobIds : kind[i] = "none" => row[i] = "none"
    /\ Exist(reports) /\ Exist(drain.handles) /\ Exist(drain.todo) /\ Exist(queue)
DrainIsOver == ~drain.on => drain = NoDrain
Reported == \A m \in 1 .. Len(reports) : kind[reports[m]] = "fork" /\ at[reports[m]] = "done"
RowsReported ==
    \A i \in JobIds : kind[i] = "fork" /\ row[i] = "complete" => \E m \in 1 .. Len(reports) : reports[m] = i
OrderInv ==
    /\ Line(reports, drain.handles, drain.todo, queue)
    /\ JobsInTurn /\ DrainIsOver /\ Reported /\ RowsReported

LEMMA NewJobIsLast ==
    ASSUME OrderInv, TypeOK, NEW i \in NextJob, NEW k \in {"fork", "hook", "memory"}, NEW to,
           kind' = [kind EXCEPT ![i] = k], at' = [at EXCEPT ![i] = to],
           UNCHANGED <<row, drain, reports>>, queue' = queue \/ queue' = Append(queue, i)
    PROVE  OrderInv'
<1>1. i \in JobIds /\ kind[i] = "none" /\ \A j \in JobIds : kind[j] = "none" => i <= j
  BY DEF NextJob, Unused
<1>2. /\ Line(reports, drain.handles, drain.todo, queue) /\ JobsInTurn /\ DrainIsOver /\ Reported /\ RowsReported
      /\ kind \in [JobIds -> {"none", "fork", "hook", "memory"}] /\ DOMAIN at = JobIds
      /\ reports \in Seq(JobIds) /\ drain.handles \in Seq(JobIds) /\ drain.todo \in Seq(JobIds)
      /\ queue \in Seq(JobIds)
  BY DEF OrderInv, TypeOK
<1>3. \A s \in Seq(JobIds) : Exist(s) => Below(s, i)
  <2> SUFFICES ASSUME NEW s \in Seq(JobIds), Exist(s), NEW m \in 1 .. Len(s)
               PROVE  s[m] < i
    BY DEF Below
  <2>1. s[m] \in JobIds /\ kind[s[m]] # "none"
    BY DEF Exist
  <2> QED BY <1>1, <1>2, <2>1 DEF JobsInTurn, JobIds
<1>4. /\ Line(reports, drain.handles, drain.todo, Append(queue, i))
      /\ Append(queue, i) \in Seq(JobIds) /\ Len(Append(queue, i)) = Len(queue) + 1
      /\ \A m \in 1 .. Len(queue) + 1 : Append(queue, i)[m] = IF m <= Len(queue) THEN queue[m] ELSE i
  <2>1. Below(reports, i) /\ Below(drain.handles, i) /\ Below(drain.todo, i) /\ Below(queue, i)
    BY <1>2, <1>3 DEF JobsInTurn
  <2>2. Line(reports, drain.handles, drain.todo, Append(queue, i))
    BY <1>1, <1>2, <2>1, LineMoves
  <2>3. /\ Append(queue, i) \in Seq(JobIds) /\ Len(Append(queue, i)) = Len(queue) + 1
        /\ \A m \in 1 .. Len(queue) + 1 : Append(queue, i)[m] = IF m <= Len(queue) THEN queue[m] ELSE i
    <3> DEFINE w == queue
    <3>1. w \in Seq(JobIds)
      BY <1>2
    <3> HIDE DEF w
    <3>2. /\ Append(w, i) \in Seq(JobIds) /\ Len(Append(w, i)) = Len(w) + 1
          /\ \A m \in 1 .. Len(w) + 1 : Append(w, i)[m] = IF m <= Len(w) THEN w[m] ELSE i
      BY <1>1, <3>1
    <3> QED BY <3>2 DEF w
  <2> QED BY <2>2, <2>3
<1>5. Line(reports, drain.handles, drain.todo, queue)'
  BY <1>2, <1>4
<1>6. \A j \in JobIds : kind'[j] = (IF j = i THEN k ELSE kind[j])
  BY <1>2
<1>7. \A s \in Seq(JobIds) : Exist(s) => \A m \in 1 .. Len(s) : kind'[s[m]] # "none"
  BY <1>6 DEF Exist
<1>8. Exist(reports)' /\ Exist(drain.handles)' /\ Exist(drain.todo)'
  BY <1>2, <1>7 DEF Exist, JobsInTurn
<1>9. Exist(queue)'
  <2>1. CASE queue' = queue
    BY <1>2, <1>7, <2>1 DEF Exist, JobsInTurn
  <2>2. CASE queue' = Append(queue, i)
    <3> SUFFICES ASSUME NEW m \in 1 .. Len(queue) + 1 PROVE kind'[Append(queue, i)[m]] # "none"
      BY <1>4, <2>2 DEF Exist
    <3>1. CASE m <= Len(queue)
      <4>1. m \in 1 .. Len(queue) /\ Append(queue, i)[m] = queue[m]
        BY <1>2, <1>4, <3>1
      <4> QED BY <1>2, <1>7, <4>1 DEF JobsInTurn
    <3>2. CASE ~(m <= Len(queue))
      BY <1>1, <1>4, <1>6, <3>2
    <3> QED BY <3>1, <3>2
  <2> QED BY <2>1, <2>2
<1>10. \A a, b \in JobIds : a < b /\ kind'[a] = "none" => kind'[b] = "none"
  <2> SUFFICES ASSUME NEW a \in JobIds, NEW b \in JobIds, a < b, kind'[a] = "none"
               PROVE  kind'[b] = "none"
    OBVIOUS
  <2>1. a # i /\ kind[a] = "none" /\ i <= a
    BY <1>1, <1>6
  <2>2. b # i
    BY <1>1, <2>1 DEF JobIds
  <2> QED BY <1>2, <1>6, <2>1, <2>2 DEF JobsInTurn
<1>11. \A j \in JobIds : kind'[j] = "none" => row'[j] = "none"
  BY <1>2, <1>6 DEF JobsInTurn
<1>12. JobsInTurn'
  BY <1>8, <1>9, <1>10, <1>11 DEF JobsInTurn
<1>13. Reported'
  <2>1. \A m \in 1 .. Len(reports) : reports[m] \in JobIds /\ reports[m] # i
    BY <1>1, <1>2 DEF JobsInTurn, Exist
  <2> QED BY <1>2, <1>6, <2>1 DEF Reported
<1>14. RowsReported'
  BY <1>1, <1>2, <1>6 DEF RowsReported, JobsInTurn
<1>15. DrainIsOver'
  BY <1>2 DEF DrainIsOver
<1> QED BY <1>5, <1>12, <1>13, <1>14, <1>15 DEF OrderInv

(* A job that has reported is done for good, so a step that leaves alone what *)
(* is done, and takes jobs out of the drain or the queue, keeps the order.    *)
LEMMA JobsLeave ==
    ASSUME OrderInv, UNCHANGED <<kind, row, reports>>,
           \A j \in JobIds : at[j] = "done" /\ Below(reports, j) = FALSE => at'[j] = "done",
           \/ UNCHANGED <<drain, queue>>
           \/ drain' = drain /\ drain = NoDrain /\ queue' = <<>>
           \/ drain' = NoDrain /\ queue' = queue
    PROVE  OrderInv'
<1>1. /\ Line(reports, drain.handles, drain.todo, queue) /\ JobsInTurn /\ DrainIsOver /\ Reported /\ RowsReported
      /\ reports \in Seq(JobIds)
  BY DEF OrderInv, Line
<1>2. NoDrain.handles = <<>> /\ NoDrain.todo = <<>> /\ NoDrain.on = FALSE /\ Exist(<<>>)
  BY DEF NoDrain, Exist
<1>3. Line(reports, drain.handles, drain.todo, queue)'
  BY <1>1, <1>2, LineMoves
<1>4. Exist(drain.handles)' /\ Exist(drain.todo)' /\ Exist(queue)' /\ Exist(reports)'
  BY <1>1, <1>2 DEF Exist, JobsInTurn
<1>5. JobsInTurn'
  BY <1>1, <1>4 DEF JobsInTurn
<1>6. Reported'
  <2> SUFFICES ASSUME NEW m \in 1 .. Len(reports)
               PROVE  kind[reports[m]] = "fork" /\ at'[reports[m]] = "done"
    BY DEF Reported
  <2>1. reports[m] \in JobIds /\ kind[reports[m]] = "fork" /\ at[reports[m]] = "done"
    BY <1>1 DEF Reported
  <2>2. Below(reports, reports[m]) = FALSE
    BY <2>1 DEF Below, JobIds
  <2> QED BY <2>1, <2>2
<1>7. RowsReported' /\ DrainIsOver'
  BY <1>1, <1>2 DEF RowsReported, DrainIsOver
<1> QED BY <1>3, <1>5, <1>6, <1>7 DEF OrderInv

(* The steps of a drain.                                                      *)
LEMMA ReportsAreAppended ==
    ASSUME OrderInv, TypeOK, drain.on, NEW i \in Joined(drain.handles),
           drain' = [drain EXCEPT !.handles = Tail(@)] \/ drain' = NoDrain,
           UNCHANGED <<kind, at, queue>>,
           \/ UNCHANGED <<reports, row>>
           \/ kind[i] = "hook" /\ row' \in {row, [row EXCEPT ![i] = "complete"]} /\ UNCHANGED reports
           \/ /\ at[i] = "done" /\ kind[i] = "fork" /\ reports' = Append(reports, i)
              /\ row' \in {row, [row EXCEPT ![i] = "complete"]}
    PROVE  OrderInv'
<1> DEFINE h == drain.handles
           t == drain.todo
<1>1. /\ Line(reports, h, t, queue) /\ JobsInTurn /\ DrainIsOver /\ Reported /\ RowsReported
      /\ reports \in Seq(JobIds) /\ h \in Seq(JobIds) /\ t \in Seq(JobIds) /\ queue \in Seq(JobIds)
  BY DEF OrderInv, Line
<1>2. h # <<>> /\ i = Head(h) /\ i \in JobIds /\ Tail(h) \in Seq(JobIds)
      /\ i = h[1] /\ 1 \in 1 .. Len(h) /\ \A m \in 1 .. Len(Tail(h)) : Tail(h)[m] = h[m + 1] /\ m + 1 \in 1 .. Len(h)
  <2>1. h # <<>> /\ i = Head(h)
    BY DEF Joined
  <2> HIDE DEF h
  <2> QED BY <1>1, <2>1
<1>3. drain' = NoDrain \/ (drain'.handles = Tail(h) /\ drain'.todo = t /\ drain'.on = TRUE)
  BY DEF TypeOK
<1>4. NoDrain.handles = <<>> /\ NoDrain.todo = <<>> /\ NoDrain.on = FALSE /\ Exist(<<>>)
  BY DEF NoDrain, Exist
<1>5. row \in [JobIds -> {"none", "running", "complete"}]
  BY DEF TypeOK
<1> HIDE DEF h, t
<1>6. /\ Line(Append(reports, i), Tail(h), t, queue) /\ Line(reports, Tail(h), t, queue)
      /\ Line(Append(reports, i), <<>>, <<>>, queue) /\ Line(reports, <<>>, <<>>, queue)
  <2>1. Line(Append(reports, i), Tail(h), t, queue) /\ Line(reports, Tail(h), t, queue)
    BY <1>1, <1>2, LineMoves
  <2> QED BY <1>1, <2>1, LineMoves
<1>7. reports' = reports \/ reports' = Append(reports, i)
  OBVIOUS
<1>8. Line(reports, drain.handles, drain.todo, queue)'
  BY <1>3, <1>4, <1>6, <1>7
<1>9. kind[i] # "none" /\ Exist(h) /\ Exist(t) /\ Exist(queue) /\ Exist(reports)
  BY <1>1, <1>2 DEF JobsInTurn, Exist, h, t
<1>10. Exist(Tail(h)) /\ Exist(Append(reports, i))
  <2>1. Exist(Tail(h))
    BY <1>2, <1>9 DEF Exist
  <2>2. Exist(Append(reports, i))
    BY <1>1, <1>2, <1>9 DEF Exist
  <2> QED BY <2>1, <2>2
<1>11. Exist(reports)' /\ Exist(drain.handles)' /\ Exist(drain.todo)' /\ Exist(queue)'
  <2>1. Exist(reports)' /\ Exist(queue)'
    BY <1>7, <1>9, <1>10 DEF Exist
  <2>2. CASE drain' = NoDrain
    BY <1>4, <2>1, <2>2 DEF Exist
  <2>3. CASE drain'.handles = Tail(h) /\ drain'.todo = t
    <3>1. Exist(drain.handles)'
      BY <1>10, <2>3 DEF Exist
    <3>2. Exist(drain.todo)'
      BY <1>9, <2>3 DEF Exist
    <3> QED BY <2>1, <3>1, <3>2
  <2> QED BY <1>3, <2>2, <2>3
<1>12. \A j \in JobIds : row'[j] = row[j] \/ (j = i /\ row'[j] = "complete")
  BY <1>5
<1>13. JobsInTurn'
  BY <1>1, <1>9, <1>11, <1>12 DEF JobsInTurn
<1>14. DrainIsOver'
  BY <1>3 DEF DrainIsOver
<1>15. CASE UNCHANGED reports
  <2>1. Reported'
    BY <1>1, <1>15 DEF Reported
  <2>2. RowsReported'
    BY <1>1, <1>12, <1>15 DEF RowsReported
  <2> QED BY <1>8, <1>13, <1>14, <2>1, <2>2 DEF OrderInv
<1>16. CASE at[i] = "done" /\ kind[i] = "fork" /\ reports' = Append(reports, i)
  <2>1. /\ Len(reports') = Len(reports) + 1 /\ Len(reports) \in Nat
        /\ \A m \in 1 .. Len(reports) + 1 : reports'[m] = IF m <= Len(reports) THEN reports[m] ELSE i
    BY <1>1, <1>2, <1>16
  <2>2. Reported'
    BY <1>1, <1>16, <2>1 DEF Reported
  <2>3. RowsReported'
    <3> SUFFICES ASSUME NEW j \in JobIds, kind[j] = "fork", row'[j] = "complete"
                 PROVE  \E m \in 1 .. Len(reports') : reports'[m] = j
      BY DEF RowsReported
    <3>1. CASE j = i
      <4>1. Len(reports) + 1 \in 1 .. Len(reports') /\ reports'[Len(reports) + 1] = i
        BY <2>1
      <4> QED BY <3>1, <4>1
    <3>2. CASE j # i
      <4>1. PICK m \in 1 .. Len(reports) : reports[m] = j
        BY <1>1, <1>12, <3>2 DEF RowsReported
      <4>2. m \in 1 .. Len(reports') /\ reports'[m] = j
        BY <2>1, <4>1
      <4> QED BY <4>2
    <3> QED BY <3>1, <3>2
  <2> QED BY <1>8, <1>13, <1>14, <2>2, <2>3 DEF OrderInv
<1> QED BY <1>15, <1>16

LEMMA JobIsSpawned ==
    ASSUME OrderInv, TypeOK, SpawnJob
    PROVE  OrderInv'
<1> DEFINE h == drain.handles
           t == drain.todo
           i == Head(t)
<1>1. /\ Line(reports, h, t, queue) /\ JobsInTurn /\ DrainIsOver /\ Reported /\ RowsReported
      /\ reports \in Seq(JobIds) /\ h \in Seq(JobIds) /\ t \in Seq(JobIds) /\ queue \in Seq(JobIds)
  BY DEF OrderInv, Line
<1>2. /\ drain.on /\ t # <<>> /\ drain' = [drain EXCEPT !.todo = Tail(@), !.handles = Append(@, i)]
      /\ row' = [row EXCEPT ![i] = "running"] /\ at' = [at EXCEPT ![i] = "begin"]
      /\ UNCHANGED <<kind, queue, reports>>
  BY DEF SpawnJob
<1>3. drain'.handles = Append(h, i) /\ drain'.todo = Tail(t) /\ drain'.on = TRUE
  BY <1>2 DEF TypeOK
<1>4. row \in [JobIds -> {"none", "running", "complete"}] /\ DOMAIN at = JobIds
  BY DEF TypeOK
<1> HIDE DEF h, t, i
<1>5. /\ i \in JobIds /\ Tail(t) \in Seq(JobIds)
      /\ i = t[1] /\ 1 \in 1 .. Len(t) /\ \A m \in 1 .. Len(Tail(t)) : Tail(t)[m] = t[m + 1] /\ m + 1 \in 1 .. Len(t)
  BY <1>1, <1>2 DEF i
<1>6. Line(reports, Append(h, i), Tail(t), queue) /\ Below(reports, i)
  BY <1>1, <1>2, LineMoves DEF i
<1>7. Line(reports, drain.handles, drain.todo, queue)'
  BY <1>2, <1>3, <1>6
<1>8. kind[i] # "none" /\ Exist(h) /\ Exist(t) /\ Exist(queue) /\ Exist(reports)
  BY <1>1, <1>5 DEF JobsInTurn, Exist, h, t
<1>9. Exist(Tail(t)) /\ Exist(Append(h, i))
  <2>1. Exist(Tail(t))
    BY <1>5, <1>8 DEF Exist
  <2>2. Exist(Append(h, i))
    BY <1>1, <1>5, <1>8 DEF Exist
  <2> QED BY <2>1, <2>2
<1>10. Exist(reports)' /\ Exist(drain.handles)' /\ Exist(drain.todo)' /\ Exist(queue)'
  BY <1>2, <1>3, <1>8, <1>9 DEF Exist
<1>11. \A j \in JobIds : row'[j] = IF j = i THEN "running" ELSE row[j]
  BY <1>2, <1>4
<1>12. JobsInTurn'
  BY <1>1, <1>2, <1>8, <1>10, <1>11 DEF JobsInTurn
<1>13. Reported'
  <2>1. \A m \in 1 .. Len(reports) : reports[m] \in JobIds /\ reports[m] # i
    <3> SUFFICES ASSUME NEW m \in 1 .. Len(reports) PROVE reports[m] \in JobIds /\ reports[m] # i
      OBVIOUS
    <3>1. reports[m] \in JobIds
      BY <1>1
    <3>2. reports[m] < i
      BY <1>6 DEF Below
    <3> QED BY <1>5, <3>1, <3>2 DEF JobIds
  <2> QED BY <1>1, <1>2, <1>4, <2>1 DEF Reported
<1>14. RowsReported'
  BY <1>1, <1>2, <1>11 DEF RowsReported
<1>15. DrainIsOver'
  BY <1>3 DEF DrainIsOver
<1> QED BY <1>7, <1>12, <1>13, <1>14, <1>15 DEF OrderInv

(* The initial states are in order.                                           *)
LEMMA OrderStarts == Init => OrderInv
<1> SUFFICES ASSUME Init PROVE OrderInv
  OBVIOUS
<1>1. /\ reports = <<>> /\ queue = <<>> /\ drain = NoDrain
      /\ NoDrain.handles = <<>> /\ NoDrain.todo = <<>>
      /\ \A i \in JobIds : kind[i] = "none" /\ row[i] = "none"
  BY DEF Init, NoDrain
<1>2. Line(<<>>, <<>>, <<>>, <<>>)
  BY EmptyIsInOrder DEF Line
<1>3. Line(reports, drain.handles, drain.todo, queue)
  BY <1>1, <1>2
<1>4. Exist(<<>>)
  BY DEF Exist
<1>5. JobsInTurn
  BY <1>1, <1>4 DEF JobsInTurn
<1>6. DrainIsOver /\ RowsReported
  BY <1>1 DEF DrainIsOver, RowsReported
<1>7. Reported
  BY <1>1 DEF Reported
<1> QED BY <1>3, <1>5, <1>6, <1>7 DEF OrderInv

(* Every step keeps the order: a new job is the last of the queue, a drain    *)
(* takes the whole queue, spawns its jobs and joins them from the front, and  *)
(* whatever ends a drain drops the rest.                                      *)
LEMMA OrderSteps == DrainInv /\ OrderInv /\ [Next]_vars => OrderInv'
<1> SUFFICES ASSUME TypeOK, ModeInv, OrderInv, [Next]_vars PROVE OrderInv'
  BY DEF DrainInv, CountInv
<1>0. \A j \in JobIds : j \in Running \/ at[j] = "queued" => at[j] # "done"
  BY DEF Running
<1>1. CASE \/ StartTurn \/ NextRequest \/ StreamLeaves \/ FinishTurn \/ SetMode \/ Interrupt
           \/ UNCHANGED vars
  <2>1. UNCHANGED <<kind, at, row, queue, drain, reports>>
    BY <1>1 DEF StartTurn, NextRequest, StreamLeaves, FinishTurn, SetMode, Interrupt, vars, jobVars
  <2> QED BY <2>1, JobsLeave
<1>2. CASE Fork \/ Hook
  <2>1. PICK i \in NextJob, k \in {"fork", "hook"} :
           /\ kind' = [kind EXCEPT ![i] = k] /\ at' = [at EXCEPT ![i] = "queued"]
           /\ queue' = Append(queue, i)
    BY <1>2 DEF Fork, Hook, Enqueue
  <2>2. UNCHANGED <<row, drain, reports>>
    BY <1>2 DEF Fork, Hook, Enqueue
  <2> QED BY <2>1, <2>2, NewJobIsLast
<1>3. CASE SpawnMemory
  <2>1. PICK i \in NextJob :
           kind' = [kind EXCEPT ![i] = "memory"] /\ at' = [at EXCEPT ![i] = "begin"]
    BY <1>3 DEF SpawnMemory
  <2>2. UNCHANGED <<row, drain, queue, reports>>
    BY <1>3 DEF SpawnMemory
  <2> QED BY <2>1, <2>2, NewJobIsLast
<1>4. CASE StreamAborts
  <2>1. UNCHANGED <<kind, row, reports, drain>> /\ queue' = <<>>
    BY <1>4 DEF StreamAborts
  <2>2. drain = NoDrain
    BY <1>4 DEF StreamAborts, ModeInv, OrderInv, DrainIsOver
  <2>3. \A j \in JobIds : at[j] = "done" => at'[j] = "done"
    BY <1>4 DEF StreamAborts
  <2> QED BY <2>1, <2>2, <2>3, JobsLeave
<1>5. CASE StartDrain
  <2>1. CASE queue = <<>>
    <3>1. UNCHANGED <<kind, at, row, queue, drain, reports>>
      BY <1>5, <2>1 DEF StartDrain, jobVars
    <3> QED BY <3>1, JobsLeave
  <2>2. CASE queue # <<>>
    <3>1. /\ UNCHANGED <<kind, at, row, reports>> /\ queue' = <<>>
          /\ drain' = [on |-> TRUE, todo |-> queue, handles |-> <<>>]
      BY <1>5, <2>2 DEF StartDrain, jobVars
    <3>2. drain'.on = TRUE /\ drain'.todo = queue /\ drain'.handles = <<>>
      BY <3>1
    <3>3. drain.handles = <<>> /\ drain.todo = <<>>
      <4>1. drain = NoDrain
        BY <1>5 DEF StartDrain, ModeInv, OrderInv, DrainIsOver
      <4> QED BY <4>1 DEF NoDrain
    <3>4. Line(reports, <<>>, queue, <<>>)
      BY <3>3, LineMoves DEF OrderInv
    <3>5. Line(reports, drain.handles, drain.todo, queue)'
      BY <3>1, <3>2, <3>4
    <3>6. Exist(<<>>)
      BY DEF Exist
    <3>7. Exist(reports)' /\ Exist(drain.handles)' /\ Exist(drain.todo)' /\ Exist(queue)'
      <4>1. Exist(reports)' /\ Exist(queue)'
        BY <3>1, <3>6 DEF Exist, OrderInv, JobsInTurn
      <4>2. Exist(drain.handles)' /\ Exist(drain.todo)'
        BY <3>1, <3>2, <3>6 DEF Exist, OrderInv, JobsInTurn
      <4> QED BY <4>1, <4>2
    <3>8. JobsInTurn'
      BY <3>1, <3>7 DEF OrderInv, JobsInTurn
    <3>9. Reported' /\ RowsReported' /\ DrainIsOver'
      BY <3>1, <3>2 DEF OrderInv, Reported, RowsReported, DrainIsOver
    <3> QED BY <3>5, <3>8, <3>9 DEF OrderInv
  <2> QED BY <2>1, <2>2
<1>6. CASE SpawnJob
  BY <1>6, JobIsSpawned
<1>7. CASE SpawnFails
  <2>1. /\ UNCHANGED <<kind, row, queue, reports>> /\ drain' = NoDrain
        /\ at' = [i \in JobIds |-> IF i \in Range(drain.todo) THEN "dropped" ELSE at[i]]
    BY <1>7 DEF SpawnFails, LeaveDrain
  <2>2. \A j \in Range(drain.todo) : Below(reports, j)
    <3> SUFFICES ASSUME NEW m \in 1 .. Len(drain.todo) PROVE Below(reports, drain.todo[m])
      BY DEF OrderInv, Line, Range
    <3> QED BY DEF OrderInv, Line, Before, Below
  <2>3. \A j \in JobIds : at[j] = "done" /\ Below(reports, j) = FALSE => at'[j] = "done"
    BY <2>1, <2>2
  <2> QED BY <2>1, <2>3, JobsLeave
<1>8. CASE Join
  <2>1. PICK i \in Joined(drain.handles) :
          /\ drain' = [drain EXCEPT !.handles = Tail(@)]
          /\ \/ at[i] = "done" /\ Report(i)
             \/ at[i] = "failed" /\ UNCHANGED <<reports, row>>
    BY <1>8 DEF Join
  <2>2. UNCHANGED <<kind, at, queue>> /\ drain.on
    BY <1>8 DEF Join, jobVars
  <2>3. \/ UNCHANGED <<reports, row>>
        \/ kind[i] = "hook" /\ row' \in {row, [row EXCEPT ![i] = "complete"]} /\ UNCHANGED reports
        \/ /\ at[i] = "done" /\ kind[i] = "fork" /\ reports' = Append(reports, i)
           /\ row' \in {row, [row EXCEPT ![i] = "complete"]}
    BY <2>1 DEF Report
  <2> QED BY <2>1, <2>2, <2>3, ReportsAreAppended
<1>9. CASE JoinFails
  <2>1. PICK i \in Joined(drain.handles) :
          /\ at[i] = "done"
          /\ \/ kind[i] = "fork" /\ reports' \in {reports, Append(reports, i)} /\ LeaveDrain("idle")
             \/ /\ kind[i] = "hook"
                /\ drain' = [drain EXCEPT !.handles = Tail(@)]
                /\ UNCHANGED <<reports, mode, prior, turn>>
    BY <1>9 DEF JoinFails
  <2>2. UNCHANGED <<kind, at, queue, row>> /\ drain.on
    BY <1>9 DEF JoinFails, jobVars
  <2>3. drain' = [drain EXCEPT !.handles = Tail(@)] \/ drain' = NoDrain
    BY <2>1 DEF LeaveDrain
  <2>4. \/ UNCHANGED <<reports, row>>
        \/ kind[i] = "hook" /\ row' \in {row, [row EXCEPT ![i] = "complete"]} /\ UNCHANGED reports
        \/ /\ at[i] = "done" /\ kind[i] = "fork" /\ reports' = Append(reports, i)
           /\ row' \in {row, [row EXCEPT ![i] = "complete"]}
    BY <2>1, <2>2
  <2> QED BY <2>2, <2>3, <2>4, ReportsAreAppended
<1>10. CASE JoinPanics \/ EndDrain
  <2>1. UNCHANGED <<kind, at, row, queue, reports>> /\ drain' = NoDrain
    BY <1>10 DEF JoinPanics, EndDrain, LeaveDrain, jobVars
  <2> QED BY <2>1, JobsLeave
<1>11. CASE \E i \in JobIds : Agent(i) \/ Fails(i) \/ Panics(i)
  <2>1. PICK i \in JobIds : Agent(i) \/ Fails(i) \/ Panics(i)
    BY <1>11
  <2>2. UNCHANGED <<kind, row, queue, drain, reports>>
    BY <2>1, AgentsLeaveTheMode DEF agentRest
  <2>3. at[i] # "done" /\ \E to : at' = [at EXCEPT ![i] = to]
    BY <1>0, <2>1
       DEF Agent, Fails, Panics, Begin, Ask, SeesAbort, Cancelled, Answers, Truncated, Overflows,
           UsesTools, RejectsTools, Overruns, Ends, Over, Move
  <2>4. \A j \in JobIds : at[j] = "done" => at'[j] = "done"
    BY <2>3 DEF TypeOK
  <2> QED BY <2>2, <2>4, JobsLeave
<1> QED BY <1>1, <1>2, <1>3, <1>4, <1>5, <1>6, <1>7, <1>8, <1>9, <1>10, <1>11 DEF Next, Engine

(* Reports come in the order in which the forks were called, each once and of *)
(* an agent that has ended, and no run of a fork is complete without its      *)
(* report: drain_subagent_jobs joins the handles in the order of the jobs.    *)
THEOREM ReportsComeInOrder == Spec => []ReportsAreInOrder
<1>1. OrderInv => ReportsAreInOrder
  <2> SUFFICES ASSUME OrderInv PROVE ReportsAreInOrder
    OBVIOUS
  <2>1. reports \in Seq(JobIds) /\ Rising(reports) /\ Reported /\ RowsReported
    BY DEF OrderInv, Line
  <2>2. DOMAIN reports = 1 .. Len(reports) /\ Range(reports) = {reports[m] : m \in 1 .. Len(reports)}
    BY <2>1 DEF Range
  <2>3. \A m, n \in DOMAIN reports : m < n => reports[m] < reports[n]
    BY <2>1, <2>2 DEF Rising
  <2>4. \A i \in Range(reports) : kind[i] = "fork" /\ at[i] = "done"
    BY <2>1, <2>2 DEF Reported
  <2>5. \A i \in JobIds : kind[i] = "fork" /\ row[i] = "complete" => i \in Range(reports)
    BY <2>1, <2>2 DEF RowsReported
  <2> QED BY <2>3, <2>4, <2>5 DEF ReportsAreInOrder
<1> QED BY DrainStarts, DrainSteps, OrderStarts, OrderSteps, <1>1, PTL DEF Spec
==============================================================================
