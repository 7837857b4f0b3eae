-------------------------- MODULE TurnEngine_proofs --------------------------
(* What holds of the turn engine for every value of its constants.            *)
EXTENDS MCTurnEngine, FiniteSetTheorems, SequenceTheorems, TLAPS

-----------------------------------------------------------------------------
(* The transcript: which sequences of messages the actions build.             *)

(* The messages that the code makes have the type of a message.               *)
LEMMA MessageTypes ==
    /\ \A k \in {"prompt", "nudge", "report", "memory"} :
          User(k) \in MessageType /\ Unsaved(User(k)) \in MessageType
    /\ \A S \in SUBSET Calls : Assistant(S) \in MessageType
    /\ \A c \in Calls : \A b \in {"ok", "error", "denied", "question", "answer", "interrupted"} :
          ToolResult(c, b) \in MessageType
BY BoundsAssumption DEF MessageType, User, Assistant, ToolResult, Unsaved, Message, Bodies,
        NoCall, Calls

(* The calls of a response that the bound admits are calls.                   *)
LEMMA NewCallsAreCalls ==
    ASSUME nextCall \in 1 .. (MaxCalls + 1), NEW n \in Nat, nextCall + n - 1 <= MaxCalls
    PROVE  /\ NewCalls(n) \in SUBSET Calls
           /\ nextCall + n \in 1 .. (MaxCalls + 1)
           /\ IsFiniteSet(NewCalls(n))
<1>1. NewCalls(n) \in SUBSET Calls /\ nextCall + n \in 1 .. (MaxCalls + 1)
  BY BoundsAssumption DEF NewCalls, Calls
<1>2. IsFiniteSet(NewCalls(n))
  BY FS_Interval, BoundsAssumption DEF NewCalls
<1> QED BY <1>1, <1>2

(* The block that a cancelled stream leaves is a sequence of messages.        *)
LEMMA CutBlockType ==
    ASSUME nextCall \in 1 .. (MaxCalls + 1), NEW n \in Nat, nextCall + n - 1 <= MaxCalls
    PROVE  CutBlock(n) \in Seq(MessageType) /\ Len(CutBlock(n)) = n + 1
<1> DEFINE stubs == [i \in 1 .. n |-> ToolResult(nextCall + i - 1, "interrupted")]
<1>1. <<Assistant(NewCalls(n))>> \in Seq(MessageType)
  BY NewCallsAreCalls, MessageTypes
<1>2. \A i \in 1 .. n : ToolResult(nextCall + i - 1, "interrupted") \in MessageType
  <2>1. \A i \in 1 .. n : nextCall + i - 1 \in Calls
    BY BoundsAssumption DEF Calls
  <2> QED BY <2>1, MessageTypes
<1>3. stubs \in Seq(MessageType) /\ Len(stubs) = n
  BY <1>2
<1>4. Len(<<Assistant(NewCalls(n))>>) = 1
  OBVIOUS
<1>5. CutBlock(n) = <<Assistant(NewCalls(n))>> \o stubs
  BY DEF CutBlock
<1> HIDE DEF stubs
<1> QED BY <1>1, <1>3, <1>4, <1>5, ConcatProperties

(* A prefix of a sequence over S is one.                                      *)
LEMMA PrefixType ==
    ASSUME NEW S, NEW s \in Seq(S), NEW k \in Nat, k <= Len(s)
    PROVE  SubSeq(s, 1, k) \in Seq(S)
<1>1. \A i \in 1 .. k : s[i] \in S
  OBVIOUS
<1> QED BY <1>1, SubSeqProperties

(* So is what is left of it when one of its writes fails.                     *)
LEMMA CutPrefixType ==
    ASSUME nextCall \in 1 .. (MaxCalls + 1), NEW n \in Nat, nextCall + n - 1 <= MaxCalls,
           NEW k \in 0 .. n
    PROVE  SubSeq(CutBlock(n), 1, k) \in Seq(MessageType)
<1>1. k \in Nat /\ k <= Len(CutBlock(n))
  BY CutBlockType
<1> QED BY <1>1, CutBlockType, PrefixType

(* Adding a message keeps the type of the transcript.                         *)
LEMMA AddType ==
    ASSUME messages \in Seq(MessageType), NEW m \in MessageType, Add(m)
    PROVE  messages' \in Seq(MessageType)
BY DEF Add

-----------------------------------------------------------------------------
(* Type correctness. *)

(* An answer keeps the type of the transcript.                                *)
LEMMA AnswerKeepsTranscript ==
    ASSUME TypeOK, AnswerQuestion PROVE messages' \in Seq(MessageType)
<1>1. messages \in Seq(MessageType) /\ question \in Calls
  BY BoundsAssumption DEF TypeOK, EngineType, AnswerQuestion, NoCall, Calls
<1>2. \A i \in DOMAIN messages : messages[i] \in MessageType
  BY <1>1
<1>3. \A m \in MessageType : [m EXCEPT !.body = "answer"] \in MessageType
  BY DEF MessageType, Bodies
<1>4. Append(messages, ToolResult(question, "answer")) \in Seq(MessageType)
  BY <1>1, MessageTypes
<1>5. [i \in DOMAIN messages |-> Answered(i)] \in Seq(MessageType)
  <2>1. \A i \in DOMAIN messages : Answered(i) \in MessageType
    BY <1>2, <1>3 DEF Answered
  <2> QED BY <1>1, <2>1
<1> QED BY <1>4, <1>5 DEF AnswerQuestion

(* The result of a call is a message.                                         *)
LEMMA ResultType == ASSUME NEW c \in Calls PROVE Result(c) \in MessageType
BY MessageTypes DEF Result

(* The jobs that a response queues can be counted.                            *)
LEMMA ForkCountType ==
    ASSUME nextCall \in 1 .. (MaxCalls + 1), NEW n \in Nat, nextCall + n - 1 <= MaxCalls,
           NEW f
    PROVE  Cardinality({ c \in NewCalls(n) : f[c] = "fork" }) \in Nat
<1>1. { c \in NewCalls(n) : f[c] = "fork" } \subseteq NewCalls(n)
  OBVIOUS
<1>2. IsFiniteSet(NewCalls(n))
  BY NewCallsAreCalls
<1> QED BY <1>1, <1>2, FS_Subset, FS_CardinalityType

(* The types but those of the flags, which are for another prover.            *)
DataType == CommandType /\ LoopType /\ ReplyType /\ EngineType /\ EnvType

(* Commands keep the types.                                                   *)
LEMMA CommandKeepsType == TypeOK /\ Command => TypeOK'
<1> SUFFICES ASSUME TypeOK, Command PROVE DataType' /\ FlagType'
  BY DEF TypeOK, DataType
<1> USE BoundsAssumption DEF TypeOK, DataType, CommandType, LoopType, ReplyType, EngineType,
        EnvType, loopVars, replyVars, engineVars, envVars
<1>0. messages \in Seq(MessageType)
  OBVIOUS
<1>1. CASE SendMessage
  <2>1. messages' \in Seq(MessageType)
    BY <1>0, <1>1, AddType, MessageTypes DEF SendMessage
  <2>2. DataType'
    BY <1>1, <2>1 DEF SendMessage, NewTurn
  <2>3. FlagType'
    BY <1>1, Zenon DEF SendMessage, NewTurn, FlagType
  <2> QED BY <2>2, <2>3
<1>2. CASE SendMessageFails
  <2>1. messages' \in Seq(MessageType)
    BY <1>0, <1>2, AddType, MessageTypes DEF SendMessageFails
  <2>2. DataType'
    BY <1>2, <2>1 DEF SendMessageFails, NewTurn, Fault
  <2>3. FlagType'
    BY <1>2, Zenon DEF SendMessageFails, NewTurn, FlagType
  <2> QED BY <2>2, <2>3
<1>3. ASSUME NEW c \in Calls, NEW f \in {"ok", "fail", "fork"}, ApproveTool(c, f)
      PROVE  DataType' /\ FlagType'
  <2>1. messages' \in Seq(MessageType)
    BY <1>0, <1>3, AddType, MessageTypes DEF ApproveTool
  <2>2. DataType'
    BY <1>3, <2>1 DEF ApproveTool, ContinueUnlessPaused, ContinueTurn, CountFailure
  <2>3. FlagType'
    BY <1>3, Zenon DEF ApproveTool, FlagType
  <2> QED BY <2>2, <2>3
<1>4. ASSUME NEW c \in Calls, DenyTool(c)
      PROVE  DataType' /\ FlagType'
  <2>1. messages' \in Seq(MessageType)
    BY <1>0, <1>4, AddType, MessageTypes DEF DenyTool
  <2>2. DataType'
    BY <1>4, <2>1 DEF DenyTool, ContinueUnlessPaused, ContinueTurn, CountFailure
  <2>3. FlagType'
    BY <1>4, Zenon DEF DenyTool, FlagType
  <2> QED BY <2>2, <2>3
<1>5. ASSUME NEW c \in Calls, ResolveFails(c)
      PROVE  DataType' /\ FlagType'
  <2>2. DataType'
    BY <1>5 DEF ResolveFails, Fault
  <2>3. FlagType'
    BY <1>5, Zenon DEF ResolveFails, FlagType
  <2> QED BY <2>2, <2>3
<1>6. CASE AnswerQuestion
  <2>1. messages' \in Seq(MessageType)
    BY <1>6, AnswerKeepsTranscript DEF AnswerQuestion
  <2>2. DataType'
    BY <1>6, <2>1 DEF AnswerQuestion, ContinueTurn, NoCall
  <2>3. FlagType'
    BY <1>6, Zenon DEF AnswerQuestion, FlagType
  <2> QED BY <2>2, <2>3
<1>7. CASE SendMessageRefused
  <2>2. DataType'
    BY <1>7 DEF SendMessageRefused
  <2>3. FlagType'
    BY <1>7, Zenon DEF SendMessageRefused, FlagType
  <2> QED BY <2>2, <2>3
<1>8. CASE AnswerQuestionFails
  <2>2. DataType'
    BY <1>8, BoundsAssumption DEF AnswerQuestionFails, NoCall, Fault
  <2>3. FlagType'
    BY <1>8, Zenon DEF AnswerQuestionFails, FlagType
  <2> QED BY <2>2, <2>3
<1> QED BY <1>1, <1>2, <1>3, <1>4, <1>5, <1>6, <1>7, <1>8 DEF Command

(* So do the steps of the engine.                                             *)
LEMMA EngineStepKeepsType == TypeOK /\ EngineStep => TypeOK'
<1> SUFFICES ASSUME TypeOK, EngineStep PROVE DataType' /\ FlagType'
  BY DEF TypeOK, DataType
<1> USE BoundsAssumption, SettingsAssumption
    DEF TypeOK, DataType, CommandType, LoopType, ReplyType, EngineType, EnvType, loopVars,
        replyVars, engineVars, envVars, LoopEnds, ReplyEnds, Fault, Fails, Leave
<1>0. messages \in Seq(MessageType)
  OBVIOUS
<1>f. NoFate \in [Calls -> Fates]
  BY DEF NoFate, Fates
<1>a. ASSUME NEW m \in MessageType, Add(m) PROVE messages' \in Seq(MessageType)
  BY <1>0, <1>a, AddType
<1>1. CASE ContinueFails
  <2>2. DataType'
    BY <1>1, <1>f DEF ContinueFails
  <2>3. FlagType'
    BY <1>1, Zenon DEF ContinueFails, FlagType
  <2> QED BY <2>2, <2>3
<1>2. CASE LoopExit
  <2>2. DataType'
    BY <1>2, <1>f DEF LoopExit, ExitReason
  <2>3. FlagType'
    BY <1>2, Zenon DEF LoopExit, FlagType
  <2> QED BY <2>2, <2>3
<1>3. CASE RequestLLM
  <2>2. DataType'
    BY <1>3, <1>f DEF RequestLLM
  <2>3. FlagType'
    BY <1>3, Zenon DEF RequestLLM, FlagType
  <2> QED BY <2>2, <2>3
<1>4. ASSUME NEW n \in 0 .. MaxBatch, StreamCancelled(n)
      PROVE  DataType' /\ FlagType'
  <2>1. messages' \in Seq(MessageType)
    <3>1. n \in Nat /\ nextCall \in 1 .. (MaxCalls + 1) /\ nextCall + n - 1 <= MaxCalls
      BY <1>4 DEF StreamCancelled
    <3>2. CutBlock(n) \in Seq(MessageType)
      BY <3>1, CutBlockType
    <3>3. messages' = messages \o CutBlock(n) \/ messages' = messages
      BY <1>4 DEF StreamCancelled
    <3>4. messages \o CutBlock(n) \in Seq(MessageType)
      BY <1>0, <3>2
    <3> QED BY <1>0, <3>3, <3>4, Zenon
  <2>2. DataType'
    BY <1>4, <1>f, <2>1, NewCallsAreCalls DEF StreamCancelled
  <2>3. FlagType'
    BY <1>4, Zenon DEF StreamCancelled, FlagType
  <2> QED BY <2>2, <2>3
<1>5. ASSUME NEW n \in 0 .. MaxBatch, NEW k \in 0 .. MaxBatch, StreamCancelFails(n, k)
      PROVE  DataType' /\ FlagType'
  <2>1. messages' \in Seq(MessageType)
    <3>1. /\ n \in Nat /\ nextCall \in 1 .. (MaxCalls + 1) /\ nextCall + n - 1 <= MaxCalls
          /\ k \in 0 .. n
      BY <1>5 DEF StreamCancelFails
    <3>2. SubSeq(CutBlock(n), 1, k) \in Seq(MessageType)
      BY <3>1, CutPrefixType
    <3>3. messages' = messages \o SubSeq(CutBlock(n), 1, k)
      BY <1>5 DEF StreamCancelFails
    <3> QED BY <1>0, <3>2, <3>3
  <2>2. DataType'
    BY <1>5, <1>f, <2>1, NewCallsAreCalls DEF StreamCancelFails
  <2>3. FlagType'
    BY <1>5, Zenon DEF StreamCancelFails, FlagType
  <2> QED BY <2>2, <2>3
<1>6. ASSUME NEW forked \in 0 .. 1, StreamFails(forked)
      PROVE  DataType' /\ FlagType'
  <2>2. DataType'
    BY <1>6, <1>f DEF StreamFails
  <2>3. FlagType'
    BY <1>6, Zenon DEF StreamFails, FlagType
  <2> QED BY <2>2, <2>3
<1>7. ASSUME NEW kind \in {"text", "thought"}, StreamText(kind)
      PROVE  DataType' /\ FlagType'
  <2>2. DataType'
    BY <1>7, <1>f DEF StreamText
  <2>3. FlagType'
    BY <1>7, Zenon DEF StreamText, FlagType
  <2> QED BY <2>2, <2>3
<1>8. ASSUME NEW n \in 1 .. MaxBatch, NEW f \in [NewCalls(n) -> Fates], StreamTools(n, f)
      PROVE  DataType' /\ FlagType'
  <2>2. DataType'
    BY <1>8, <1>f, NewCallsAreCalls, ForkCountType DEF StreamTools, Fates
  <2>3. FlagType'
    BY <1>8, Zenon DEF StreamTools, FlagType
  <2> QED BY <2>2, <2>3
<1>9. CASE ToolsDone
  <2>1. messages' \in Seq(MessageType)
    BY <1>9, <1>a, MessageTypes DEF ToolsDone
  <2>2. DataType'
    BY <1>9, <1>f, <2>1 DEF ToolsDone
  <2>3. FlagType'
    BY <1>9, Zenon DEF ToolsDone, FlagType
  <2> QED BY <2>2, <2>3
<1>10. CASE ToolsDoneFails
  <2>2. DataType'
    BY <1>10, <1>f DEF ToolsDoneFails
  <2>3. FlagType'
    BY <1>10, Zenon DEF ToolsDoneFails, FlagType
  <2> QED BY <2>2, <2>3
<1>11. ASSUME NEW c \in Calls, ApplyResult(c)
      PROVE  DataType' /\ FlagType'
  <2>1. messages' \in Seq(MessageType)
    BY <1>11, <1>a, ResultType DEF ApplyResult
  <2>4. failures' \in Nat
    BY <1>11 DEF ApplyResult, CountResult, CountFailure
  <2>5. question' \in 0 .. MaxCalls /\ due' \in SUBSET batch'
    BY <1>11 DEF ApplyResult, Calls
  <2>2. DataType'
    BY <1>11, <2>1, <2>4, <2>5 DEF ApplyResult
  <2>3. FlagType'
    BY <1>11, Zenon DEF ApplyResult, FlagType
  <2> QED BY <2>2, <2>3
<1>12. ASSUME NEW c \in Calls, ApplyResultFails(c)
      PROVE  DataType' /\ FlagType'
  <2>2. DataType'
    BY <1>12, <1>f DEF ApplyResultFails, Calls
  <2>3. FlagType'
    BY <1>12, Zenon DEF ApplyResultFails, FlagType
  <2> QED BY <2>2, <2>3
<1>13. CASE BatchAborted
  <2>2. DataType'
    BY <1>13, <1>f DEF BatchAborted
  <2>3. FlagType'
    BY <1>13, Zenon DEF BatchAborted, FlagType
  <2> QED BY <2>2, <2>3
<1>14. CASE BatchAsks
  <2>2. DataType'
    BY <1>14, <1>f DEF BatchAsks
  <2>3. FlagType'
    BY <1>14, Zenon DEF BatchAsks, FlagType
  <2> QED BY <2>2, <2>3
<1>15. CASE BatchApplied
  <2>2. DataType'
    BY <1>15, <1>f DEF BatchApplied
  <2>3. FlagType'
    BY <1>15, Zenon DEF BatchApplied, FlagType
  <2> QED BY <2>2, <2>3
<1>16. CASE JobReports
  <2>1. messages' \in Seq(MessageType)
    BY <1>16, <1>a, MessageTypes DEF JobReports
  <2>2. DataType'
    BY <1>16, <1>f, <2>1 DEF JobReports
  <2>3. FlagType'
    BY <1>16, Zenon DEF JobReports, FlagType
  <2> QED BY <2>2, <2>3
<1>17. CASE JobFails
  <2>2. DataType'
    BY <1>17, <1>f DEF JobFails
  <2>3. FlagType'
    BY <1>17, Zenon DEF JobFails, FlagType
  <2> QED BY <2>2, <2>3
<1>18. CASE Drained
  <2>2. DataType'
    BY <1>18, <1>f DEF Drained
  <2>3. FlagType'
    BY <1>18, Zenon DEF Drained, FlagType
  <2> QED BY <2>2, <2>3
<1>19. ASSUME NEW reported \in BOOLEAN, DrainFails(reported)
      PROVE  DataType' /\ FlagType'
  <2>1. messages' \in Seq(MessageType)
    BY <1>19, <1>0, MessageTypes DEF DrainFails
  <2>2. DataType'
    BY <1>19, <1>f, <2>1 DEF DrainFails
  <2>3. FlagType'
    BY <1>19, Zenon DEF DrainFails, FlagType
  <2> QED BY <2>2, <2>3
<1>20. CASE SettleTools
  <2>2. DataType'
    BY <1>20, <1>f DEF SettleTools, IncrementInner
  <2>3. FlagType'
    BY <1>20, Zenon DEF SettleTools, FlagType
  <2> QED BY <2>2, <2>3
<1>21. CASE SettleExit
  <2>1. messages' \in Seq(MessageType)
    BY <1>21, <1>a, MessageTypes DEF SettleExit
  <2>2. DataType'
    BY <1>21, <1>f, <2>1 DEF SettleExit, SettleFrame
  <2>3. FlagType'
    BY <1>21, Zenon DEF SettleExit, FlagType, SettleFrame
  <2> QED BY <2>2, <2>3
<1>22. CASE SettleThought
  <2>1. messages' \in Seq(MessageType)
    BY <1>22, <1>0, MessageTypes DEF SettleThought
  <2>2. DataType'
    BY <1>22, <1>f, <2>1 DEF SettleThought, SettleFrame, IncrementInner
  <2>3. FlagType'
    BY <1>22, Zenon DEF SettleThought, FlagType, SettleFrame
  <2> QED BY <2>2, <2>3
<1>23. CASE SettleTodos
  <2>1. messages' \in Seq(MessageType)
    BY <1>23, <1>0, MessageTypes DEF SettleTodos
  <2>2. DataType'
    BY <1>23, <1>f, <2>1 DEF SettleTodos, SettleFrame
  <2>3. FlagType'
    BY <1>23, Zenon DEF SettleTodos, FlagType, SettleFrame
  <2> QED BY <2>2, <2>3
<1>24. CASE SettleComplete
  <2>1. messages' \in Seq(MessageType)
    BY <1>24, <1>a, MessageTypes DEF SettleComplete
  <2>2. DataType'
    BY <1>24, <1>f, <2>1 DEF SettleComplete, SettleFrame
  <2>3. FlagType'
    BY <1>24, Zenon DEF SettleComplete, FlagType, SettleFrame
  <2> QED BY <2>2, <2>3
<1>25. ASSUME NEW first \in BOOLEAN, SettleFails(first)
      PROVE  DataType' /\ FlagType'
  <2>1. messages' \in Seq(MessageType)
    BY <1>25, <1>0, MessageTypes DEF SettleFails
  <2>2. DataType'
    BY <1>25, <1>f, <2>1 DEF SettleFails
  <2>3. FlagType'
    BY <1>25, Zenon DEF SettleFails, FlagType
  <2> QED BY <2>2, <2>3
<1>26. CASE FinishMessage
  <2>1. messages' \in Seq(MessageType)
    BY <1>26, <1>0, MessageTypes DEF FinishMessage
  <2>2. DataType'
    BY <1>26, <1>f, <2>1 DEF FinishMessage
  <2>3. FlagType'
    BY <1>26, Zenon DEF FinishMessage, FlagType, EmitTurnFinished, Paused
  <2> QED BY <2>2, <2>3
<1>27. CASE FinishContinue
  <2>2. DataType'
    BY <1>27, <1>f DEF FinishContinue
  <2>3. FlagType'
    BY <1>27, Zenon DEF FinishContinue, FlagType, EmitTurnFinished, Paused
  <2> QED BY <2>2, <2>3
<1> QED BY <1>1, <1>2, <1>3, <1>4, <1>5, <1>6, <1>7, <1>8, <1>9, <1>10, <1>11, <1>12,
        <1>13, <1>14, <1>15, <1>16, <1>17, <1>18, <1>19, <1>20, <1>21, <1>22, <1>23,
        <1>24, <1>25, <1>26, <1>27 DEF EngineStep, Stream

(* Type correctness of the engine.                                            *)
THEOREM TypeCorrect == Spec => []TypeOK
<1>1. Init => TypeOK
  <2> SUFFICES ASSUME Init PROVE DataType /\ FlagType
    BY DEF TypeOK, DataType
  <2>1. DataType
    BY BoundsAssumption DEF Init, DataType, CommandType, LoopType, ReplyType, EngineType, EnvType,
       NoFate, Fates, NoCall
  <2>2. FlagType
    BY Zenon DEF Init, FlagType
  <2> QED BY <2>1, <2>2
<1>2. TypeOK /\ [Next]_vars => TypeOK'
  <2> SUFFICES ASSUME TypeOK, [Next]_vars PROVE TypeOK'
    OBVIOUS
  <2>1. CASE Interrupt
    BY <2>1 DEF Interrupt, TypeOK, CommandType, LoopType, ReplyType, EngineType, EnvType,
       FlagType, loopVars, replyVars, engineVars, envVars
  <2>2. CASE UNCHANGED vars
    BY <2>2 DEF TypeOK, CommandType, LoopType, ReplyType, EngineType, EnvType, FlagType, vars,
       loopVars, replyVars, engineVars, envVars
  <2> QED BY <2>1, <2>2, CommandKeepsType, EngineStepKeepsType DEF Next
<1> QED BY <1>1, <1>2, PTL DEF Spec
-----------------------------------------------------------------------------
(* An idle turn is closed unless it is paused. *)

(* A step of the engine goes on, fails, or is the end of the command.         *)
LEMMA EngineStepEnds ==
    ASSUME EngineStep
    PROVE  pc' # "idle" \/ reason' = "error" \/ FinishMessage \/ FinishContinue
<1>1. Stream => pc' # "idle" \/ reason' = "error"
  BY DEF Stream, StreamCancelled, StreamCancelFails, StreamFails, StreamText, StreamTools, Fails,
     Leave
<1>2. ASSUME NEW c \in Calls, ApplyResult(c) PROVE pc' # "idle"
  BY <1>2 DEF ApplyResult
<1> QED
  BY <1>1, <1>2 DEF EngineStep, ContinueFails, LoopExit, RequestLLM, ToolsDone, ToolsDoneFails,
     ApplyResultFails, BatchAborted, BatchAsks, BatchApplied, JobReports, JobFails, Drained,
     DrainFails, SettleTools, SettleExit, SettleThought, SettleTodos, SettleComplete,
     SettleFails, SettleFrame, IncrementInner, Fails, Leave

(* Unless a command failed, an idle engine that waits for nobody has emitted  *)
(* TurnComplete, whatever the settings.                                       *)
THEOREM TurnsAreClosed == Spec => []IdleTurnClosedUnlessPaused
<1>1. Init => IdleTurnClosedUnlessPaused
  BY DEF Init, IdleTurnClosedUnlessPaused
<1>2. IdleTurnClosedUnlessPaused /\ [Next]_vars => IdleTurnClosedUnlessPaused'
  <2> SUFFICES ASSUME IdleTurnClosedUnlessPaused, [Next]_vars,
                      pc' = "idle", turnOpen', reason' # "error"
               PROVE  question' # NoCall \/ pendingTools' # {}
    BY DEF IdleTurnClosedUnlessPaused, Paused
  <2>1. CASE EngineStep
    <3>1. FinishMessage \/ FinishContinue
      BY <2>1, EngineStepEnds
    <3> QED BY <3>1 DEF FinishMessage, FinishContinue, EmitTurnFinished, Paused, engineVars
  <2>2. CASE Command
    <3>1. \E c \in Calls : DenyTool(c) \/ \E f \in {"ok", "fail", "fork"} : ApproveTool(c, f)
      BY <2>2 DEF Command, SendMessage, SendMessageFails, SendMessageRefused, ResolveFails,
         AnswerQuestion, AnswerQuestionFails, ContinueTurn
    <3> QED BY <3>1 DEF DenyTool, ApproveTool, ContinueUnlessPaused, ContinueTurn
  <2>3. CASE Interrupt \/ UNCHANGED vars
    BY <2>3 DEF Interrupt, vars, engineVars, IdleTurnClosedUnlessPaused, Paused
  <2> QED BY <2>1, <2>2, <2>3 DEF Next
<1> QED BY <1>1, <1>2, PTL DEF Spec

-----------------------------------------------------------------------------
(* The budget of requests. *)

BudgetInv ==
    /\ MaxReact > 0 => requests <= MaxReact + MaxNudges
    /\ nudges <= MaxNudges
    /\ pc = "loop" => requests <= spent + nudges
    /\ pc \in {"stream", "tools", "apply", "drain", "settle"} => requests <= spent + nudges + 1

(* Every request is paid for, before the next one, with a unit of spent or    *)
(* with a nudge; the loop stops when both are used up.                        *)
THEOREM RequestsAreBounded == Spec => []RequestBudget
<1>1. Init => BudgetInv
  BY SettingsAssumption DEF Init, BudgetInv
<1>2. TypeOK /\ BudgetInv /\ [Next]_vars => BudgetInv'
  <2> SUFFICES ASSUME TypeOK, BudgetInv, [Next]_vars PROVE BudgetInv'
    OBVIOUS
  <2> USE SettingsAssumption DEF BudgetInv, loopVars
  <2>t. spent \in Nat /\ nudges \in Nat /\ requests \in Nat
    BY DEF TypeOK, LoopType
  <2>1. CASE RequestLLM
    BY <2>1, <2>t DEF RequestLLM, ExitReason
  <2>2. CASE SettleTools \/ SettleThought
    BY <2>2, <2>t DEF SettleTools, SettleThought, SettleFrame, IncrementInner, Leave
  <2>3. CASE SettleTodos
    BY <2>3, <2>t DEF SettleTodos, SettleFrame
  <2>4. CASE SettleExit \/ SettleComplete
    BY <2>4, <2>t DEF SettleExit, SettleComplete, SettleFrame, Leave
  <2>5. CASE Stream
    <3>1. CASE \E n \in 0 .. MaxBatch : StreamCancelled(n)
      BY <3>1, <2>t DEF StreamCancelled, Leave
    <3>2. CASE \/ \E n \in 0 .. MaxBatch, k \in 0 .. MaxBatch : StreamCancelFails(n, k)
               \/ \E forked \in 0 .. 1 : StreamFails(forked)
      BY <3>2, <2>t DEF StreamCancelFails, StreamFails, Fails, LoopEnds
    <3>3. CASE \E kind \in {"text", "thought"} : StreamText(kind)
      BY <3>3, <2>t DEF StreamText
    <3>4. CASE \E n \in 1 .. MaxBatch : \E f \in [NewCalls(n) -> Fates] : StreamTools(n, f)
      <4>1. /\ pc = "stream" /\ pc' = "tools"
            /\ UNCHANGED <<requests, spent, nudges>>
        BY <3>4 DEF StreamTools
      <4> QED BY <4>1, <2>t
    <3> QED BY <2>5, <3>1, <3>2, <3>3, <3>4 DEF Stream
  <2>6. CASE ContinueFails \/ ToolsDoneFails \/ (\E c \in Calls : ApplyResultFails(c))
             \/ (\E r \in BOOLEAN : DrainFails(r) \/ SettleFails(r))
    BY <2>6, <2>t DEF ContinueFails, ToolsDoneFails, ApplyResultFails, DrainFails, SettleFails,
       Fails, LoopEnds
  <2>7. CASE LoopExit \/ ToolsDone \/ (\E c \in Calls : ApplyResult(c)) \/ BatchAborted
             \/ BatchAsks \/ BatchApplied \/ JobReports \/ JobFails \/ Drained
    BY <2>7, <2>t DEF LoopExit, ToolsDone, ApplyResult, BatchAborted, BatchAsks, BatchApplied,
       JobReports, JobFails, Drained, Leave
  <2>8. CASE FinishMessage \/ FinishContinue
    BY <2>8, <2>t DEF FinishMessage, FinishContinue, LoopEnds
  <2>9. CASE Command
    BY <2>9, <2>t DEF Command, SendMessage, SendMessageFails, SendMessageRefused, ApproveTool,
       DenyTool, ResolveFails, AnswerQuestion, AnswerQuestionFails, ContinueUnlessPaused,
       ContinueTurn, NewTurn
  <2>10. CASE Interrupt \/ UNCHANGED vars
    BY <2>10, <2>t DEF Interrupt, vars
  <2> QED BY <2>1, <2>2, <2>3, <2>4, <2>5, <2>6, <2>7, <2>8, <2>9, <2>10 DEF Next, EngineStep
<1>3. BudgetInv => RequestBudget
  BY DEF BudgetInv, RequestBudget
<1> QED BY <1>1, <1>2, <1>3, TypeCorrect, PTL DEF Spec

-----------------------------------------------------------------------------
(* Questions and approvals. *)

(* No request to the LLM goes out while a question waits for the author: the  *)
(* loop is entered with no question pending, and what raises a question goes  *)
(* straight to the end of the command.                                        *)
THEOREM NothingRunsWhileAsking == Spec => []NoRequestWhileAsking
<1>1. Init => NoRequestWhileAsking
  BY DEF Init, NoRequestWhileAsking
<1>2. NoRequestWhileAsking /\ [Next]_vars => NoRequestWhileAsking'
  <2> SUFFICES ASSUME NoRequestWhileAsking, [Next]_vars PROVE NoRequestWhileAsking'
    OBVIOUS
  <2> USE DEF NoRequestWhileAsking, engineVars
  <2>1. CASE ContinueFails \/ ToolsDoneFails \/ (\E c \in Calls : ApplyResultFails(c))
             \/ (\E r \in BOOLEAN : DrainFails(r) \/ SettleFails(r))
    BY <2>1 DEF ContinueFails, ToolsDoneFails, ApplyResultFails, DrainFails, SettleFails, Fails
  <2>2. CASE LoopExit \/ RequestLLM \/ ToolsDone \/ (\E c \in Calls : ApplyResult(c))
             \/ BatchAborted \/ BatchAsks \/ BatchApplied \/ JobReports \/ JobFails \/ Drained
    BY <2>2 DEF LoopExit, RequestLLM, ToolsDone, ApplyResult, BatchAborted, BatchAsks,
       BatchApplied, JobReports, JobFails, Drained, Leave
  <2>3. CASE Stream
    BY <2>3 DEF Stream, StreamCancelled, StreamCancelFails, StreamFails, StreamText,
       StreamTools, Fails, Leave
  <2>4. CASE SettleTools \/ SettleExit \/ SettleThought \/ SettleTodos \/ SettleComplete
    BY <2>4 DEF SettleTools, SettleExit, SettleThought, SettleTodos, SettleComplete,
       SettleFrame, IncrementInner, Leave
  <2>5. CASE FinishMessage \/ FinishContinue
    BY <2>5 DEF FinishMessage, FinishContinue
  <2>6. CASE Command
    BY <2>6 DEF Command, SendMessage, SendMessageFails, SendMessageRefused, NewTurn,
       ApproveTool, DenyTool, ResolveFails, AnswerQuestion, AnswerQuestionFails,
       ContinueUnlessPaused, ContinueTurn
  <2>7. CASE Interrupt \/ UNCHANGED vars
    BY <2>7 DEF Interrupt, vars
  <2> QED BY <2>1, <2>2, <2>3, <2>4, <2>5, <2>6, <2>7 DEF Next, EngineStep
<1> QED BY <1>1, <1>2, PTL DEF Spec

(* The result that Add appends is a result of its call.                       *)
LEMMA AddedResultIsThere ==
    ASSUME messages \in Seq(MessageType), NEW c, NEW body, Add(ToolResult(c, body))
    PROVE  HasResult(messages', c)
<1>1. /\ Len(messages) + 1 \in DOMAIN messages'
      /\ messages'[Len(messages) + 1] = ToolResult(c, body)
  BY DEF Add
<1> QED BY <1>1 DEF HasResult, ToolResult, Message

\* What ApprovalsAreResolved says of a step.
ResolvedStep ==
    \A c \in pendingTools \ pendingTools' :
        HasResult(messages', c) \/ turn' # turn \/ reason' = "error"

(* An approval goes away with a result, with the author's next message or     *)
(* with a command that fails: the engine's own steps remove none.             *)
THEOREM ApprovalsNeverVanish == Spec => ApprovalsAreResolved
<1>1. TypeOK /\ [Next]_vars => ResolvedStep
  <2> SUFFICES ASSUME TypeOK, [Next]_vars PROVE ResolvedStep
    OBVIOUS
  <2>t. turn \in Nat /\ messages \in Seq(MessageType)
    BY DEF TypeOK, EngineType
  <2>1. CASE EngineStep
    <3>1. pendingTools \subseteq pendingTools'
      BY <2>1 DEF EngineStep, Stream, ContinueFails, LoopExit, RequestLLM, StreamCancelled,
         StreamCancelFails, StreamFails, StreamText, StreamTools, ToolsDone, ToolsDoneFails,
         ApplyResult, ApplyResultFails, BatchAborted, BatchAsks, BatchApplied, JobReports,
         JobFails, Drained, DrainFails, SettleTools, SettleExit, SettleThought, SettleTodos,
         SettleComplete, SettleFails, SettleFrame, FinishMessage, FinishContinue, engineVars
    <3> QED BY <3>1 DEF ResolvedStep
  <2>2. CASE SendMessage \/ SendMessageFails
    BY <2>2, <2>t DEF SendMessage, SendMessageFails, NewTurn, ResolvedStep
  <2>3. ASSUME NEW c \in Calls, NEW f \in {"ok", "fail", "fork"}, ApproveTool(c, f)
        PROVE  ResolvedStep
    <3>1. HasResult(messages', c)
      BY <2>3, <2>t, AddedResultIsThere DEF ApproveTool
    <3> QED BY <2>3, <3>1 DEF ApproveTool, ResolvedStep
  <2>4. ASSUME NEW c \in Calls, DenyTool(c) PROVE ResolvedStep
    <3>1. HasResult(messages', c)
      BY <2>4, <2>t, AddedResultIsThere DEF DenyTool
    <3> QED BY <2>4, <3>1 DEF DenyTool, ResolvedStep
  <2>5. ASSUME NEW c \in Calls, ResolveFails(c) PROVE ResolvedStep
    BY <2>5 DEF ResolveFails, ResolvedStep
  <2>6. CASE AnswerQuestion \/ AnswerQuestionFails \/ SendMessageRefused \/ Interrupt \/ UNCHANGED vars
    BY <2>6 DEF AnswerQuestion, AnswerQuestionFails, SendMessageRefused, Interrupt, vars, engineVars, ResolvedStep
  <2> QED BY <2>1, <2>2, <2>3, <2>4, <2>5, <2>6 DEF Next, Command
<1>2. [][TypeOK /\ [Next]_vars]_vars => ApprovalsAreResolved
  BY <1>1, PTL DEF ApprovalsAreResolved, ResolvedStep
<1> QED BY <1>1, <1>2, TypeCorrect, PTL DEF Spec, ApprovalsAreResolved, ResolvedStep

-----------------------------------------------------------------------------
(* What becomes of the calls of a turn, for every value of the constants: a   *)
(* call gets one result, the approvals are the calls without one, the failure *)
(* circuit counts no success, and the engine implements CallLifecycle.  For   *)
(* the first the transcript is looked at through two questions only: which    *)
(* calls have a result, and whether one has two.                              *)

OneResult(ms) ==
    \A i, j \in DOMAIN ms :
        (ms[i].role = "tool" /\ ms[j].role = "tool" /\ ms[i].call = ms[j].call) => i = j

\* The calls whose result is still to come from the executor or the author.
OpenCalls == due \cup pendingTools

(* Beside OneResultPerCall: a result is of a call that was issued, an open    *)
(* call was issued and has no result, is due or waits for an approval but not *)
(* both, and is not the call of the pending question, which may get its       *)
(* result as an answer.                                                       *)
ResultInv ==
    /\ OneResult(messages)
    /\ \A c \in 0 .. MaxCalls : HasResult(messages, c) => c < nextCall
    /\ \A c \in OpenCalls : c < nextCall /\ ~HasResult(messages, c)
    /\ due \cap pendingTools = {}
    /\ question < nextCall /\ question \notin OpenCalls

-----------------------------------------------------------------------------
(* The results of a transcript that is extended. *)

(* A block behind a transcript adds its results, and no call has two if none  *)
(* has one on either side.                                                    *)
LEMMA ResultsOfConcat ==
    ASSUME NEW ms \in Seq(MessageType), NEW block \in Seq(MessageType)
    PROVE  /\ \A c : HasResult(ms \o block, c) <=> HasResult(ms, c) \/ HasResult(block, c)
           /\ (/\ OneResult(ms) /\ OneResult(block)
               /\ \A c \in 0 .. MaxCalls : ~(HasResult(ms, c) /\ HasResult(block, c)))
              => OneResult(ms \o block)
<1> DEFINE all == ms \o block
<1>0. /\ all \in Seq(MessageType)
      /\ Len(all) = Len(ms) + Len(block)
      /\ \A i \in 1 .. Len(ms) + Len(block) :
            all[i] = IF i <= Len(ms) THEN ms[i] ELSE block[i - Len(ms)]
  BY ConcatProperties
<1> HIDE DEF all
<1>1. /\ Len(ms) \in Nat /\ DOMAIN ms = 1 .. Len(ms)
      /\ Len(block) \in Nat /\ DOMAIN block = 1 .. Len(block)
      /\ DOMAIN all = 1 .. (Len(ms) + Len(block))
  BY <1>0
<1>2. \A i \in DOMAIN all :
         \/ i \in DOMAIN ms /\ all[i] = ms[i]
         \/ i > Len(ms) /\ i - Len(ms) \in DOMAIN block /\ all[i] = block[i - Len(ms)]
  BY <1>0, <1>1
<1>3. \A i \in DOMAIN ms : i \in DOMAIN all /\ all[i] = ms[i]
  BY <1>0, <1>1
<1>4. \A i \in DOMAIN block : Len(ms) + i \in DOMAIN all /\ all[Len(ms) + i] = block[i]
  <2> SUFFICES ASSUME NEW i \in DOMAIN block
               PROVE  Len(ms) + i \in DOMAIN all /\ all[Len(ms) + i] = block[i]
    OBVIOUS
  <2>1. i \in Nat /\ i > 0 /\ Len(ms) + i \in 1 .. (Len(ms) + Len(block))
    BY <1>1
  <2>2. ~(Len(ms) + i <= Len(ms)) /\ (Len(ms) + i) - Len(ms) = i
    BY <2>1, <1>1
  <2> QED BY <1>0, <1>1, <2>1, <2>2
<1>5. \A i \in DOMAIN block : block[i].call \in 0 .. MaxCalls
  <2>1. \A m \in MessageType : m.call \in 0 .. MaxCalls
    BY DEF MessageType
  <2>2. \A i \in DOMAIN block : block[i] \in MessageType
    OBVIOUS
  <2> QED BY <2>1, <2>2
<1>6. \A c : HasResult(all, c) <=> HasResult(ms, c) \/ HasResult(block, c)
  BY <1>2, <1>3, <1>4 DEF HasResult
<1>7. ASSUME OneResult(ms), OneResult(block),
             \A c \in 0 .. MaxCalls : ~(HasResult(ms, c) /\ HasResult(block, c))
      PROVE  OneResult(all)
  <2> SUFFICES ASSUME NEW i \in DOMAIN all, NEW j \in DOMAIN all,
                      all[i].role = "tool", all[j].role = "tool", all[i].call = all[j].call
               PROVE  i = j
    BY DEF OneResult
  <2>1. CASE i \in DOMAIN ms /\ j \in DOMAIN ms
    BY <2>1, <1>3, <1>7 DEF OneResult
  <2>2. CASE i \notin DOMAIN ms /\ j \notin DOMAIN ms
    <3>1. i - Len(ms) = j - Len(ms)
      BY <2>2, <1>2, <1>7 DEF OneResult
    <3> QED BY <3>1, <1>1
  <2>3. CASE i \in DOMAIN ms /\ j \notin DOMAIN ms
    BY <2>3, <1>2, <1>5, <1>7 DEF HasResult
  <2>4. CASE i \notin DOMAIN ms /\ j \in DOMAIN ms
    BY <2>4, <1>2, <1>5, <1>7 DEF HasResult
  <2> QED BY <2>1, <2>2, <2>3, <2>4
<1> QED BY <1>6, <1>7 DEF all

(* One message is a block with one result, or with none.                      *)
LEMMA ResultsOfOne ==
    ASSUME NEW m \in MessageType
    PROVE  /\ OneResult(<<m>>)
           /\ \A c : HasResult(<<m>>, c) <=> m.role = "tool" /\ m.call = c
<1>1. DOMAIN <<m>> = {1} /\ <<m>>[1] = m
  OBVIOUS
<1> QED BY <1>1 DEF OneResult, HasResult

(* A result is of a call.                                                     *)
LEMMA ResultsAreOfCalls ==
    ASSUME NEW ms \in Seq(MessageType), NEW c, HasResult(ms, c) PROVE c \in 0 .. MaxCalls
<1>1. \A m \in MessageType : m.call \in 0 .. MaxCalls
  BY DEF MessageType
<1>2. \A i \in DOMAIN ms : ms[i] \in MessageType
  OBVIOUS
<1> QED BY <1>1, <1>2 DEF HasResult

(* Adding a message is to add the block of that message.                      *)
LEMMA AddIsConcat ==
    ASSUME messages \in Seq(MessageType), NEW m, Add(m)
    PROVE  messages' = messages \o <<m>>
BY DEF Add

(* The results of an interrupted response are those of its own calls.         *)
LEMMA ResultsOfCutBlock ==
    ASSUME nextCall \in 1 .. (MaxCalls + 1), NEW n \in Nat, nextCall + n - 1 <= MaxCalls,
           NEW k \in 0 .. (n + 1)
    PROVE  LET block == SubSeq(CutBlock(n), 1, k)
           IN  /\ block \in Seq(MessageType)
               /\ OneResult(block)
               /\ \A c : HasResult(block, c) => nextCall <= c /\ c < nextCall + n
<1> DEFINE stubs == [i \in 1 .. n |-> ToolResult(nextCall + i - 1, "interrupted")]
           block == SubSeq(CutBlock(n), 1, k)
<1>1. CutBlock(n) = <<Assistant(NewCalls(n))>> \o stubs
  BY DEF CutBlock
<1>2. CutBlock(n) \in Seq(MessageType) /\ Len(CutBlock(n)) = n + 1
  BY CutBlockType
<1>3. block \in Seq(MessageType)
  BY <1>2, PrefixType
<1>4. CutBlock(n)[1] = Assistant(NewCalls(n))
  BY <1>1
<1>5. \A i \in 2 .. (n + 1) : CutBlock(n)[i] = ToolResult(nextCall + i - 2, "interrupted")
  <2> SUFFICES ASSUME NEW i \in 2 .. (n + 1)
               PROVE  CutBlock(n)[i] = ToolResult(nextCall + i - 2, "interrupted")
    OBVIOUS
  <2>1. Len(stubs) = n /\ Len(<<Assistant(NewCalls(n))>>) = 1
    OBVIOUS
  <2>2. CutBlock(n)[i] = stubs[i - 1]
    BY <1>1, <2>1
  <2> QED BY <2>2
<1>6. DOMAIN block = 1 .. k /\ \A i \in 1 .. k : block[i] = CutBlock(n)[i]
  <2>1. \A i \in 1 .. k : CutBlock(n)[i] \in MessageType
    BY <1>2
  <2> QED BY <1>3, <2>1, SubSeqProperties
<1> HIDE DEF stubs, block
<1>7. \A i \in DOMAIN block : block[i].role = "tool" =>
          i \in 2 .. (n + 1) /\ block[i].call = nextCall + i - 2
  <2>1. Assistant(NewCalls(n)).role # "tool"
    BY DEF Assistant, Message
  <2>2. \A c : ToolResult(c, "interrupted").call = c
    BY DEF ToolResult, Message
  <2>3. \A i \in 1 .. k : i = 1 \/ i \in 2 .. (n + 1)
    OBVIOUS
  <2> QED BY <1>4, <1>5, <1>6, <2>1, <2>2, <2>3
<1>8. OneResult(block)
  BY <1>7, <1>6 DEF OneResult
<1>9. \A c : HasResult(block, c) => nextCall <= c /\ c < nextCall + n
  BY <1>7 DEF HasResult
<1> QED BY <1>3, <1>8, <1>9 DEF block

-----------------------------------------------------------------------------
(* Steps. *)

(* What a step must respect beside the results it adds: no call is opened,    *)
(* none is forgotten to have been issued, and a question is of an issued call *)
(* that is not open.                                                          *)
OpensNothing ==
    /\ due' \subseteq due /\ pendingTools' \subseteq pendingTools
    /\ nextCall <= nextCall' /\ nextCall' \in Nat
    /\ question' < nextCall' /\ question' \notin due' \cup pendingTools'

(* A step that leaves the results alone and opens nothing.                    *)
LEMMA QuietStep ==
    ASSUME TypeOK, ResultInv, OpensNothing, OneResult(messages'),
           \A c : HasResult(messages', c) <=> HasResult(messages, c)
    PROVE  ResultInv'
<1>1. nextCall \in Nat /\ due \subseteq Calls /\ pendingTools \subseteq Calls /\ Calls \subseteq Nat
  BY BoundsAssumption DEF TypeOK, EnvType, ReplyType, EngineType, Calls
<1>2. \A c \in 0 .. MaxCalls : HasResult(messages', c) => c < nextCall'
  BY <1>1 DEF ResultInv, OpensNothing
<1>3. \A c \in due' \cup pendingTools' : c < nextCall' /\ ~HasResult(messages', c)
  BY <1>1 DEF ResultInv, OpensNothing, OpenCalls
<1> QED BY <1>2, <1>3 DEF ResultInv, OpensNothing, OpenCalls

(* A step that adds results of calls that have none and are open no more.     *)
LEMMA ResultStep ==
    ASSUME TypeOK, ResultInv, OpensNothing,
           NEW block \in Seq(MessageType), OneResult(block), messages' = messages \o block,
           \A c \in 0 .. MaxCalls : HasResult(block, c) =>
               ~HasResult(messages, c) /\ c < nextCall' /\ c \notin due' \cup pendingTools'
    PROVE  /\ ResultInv'
           /\ \A c : HasResult(messages', c) <=> HasResult(messages, c) \/ HasResult(block, c)
<1>0. messages \in Seq(MessageType) /\ nextCall \in Nat
  BY BoundsAssumption DEF TypeOK, EngineType, EnvType
<1>1. /\ due \subseteq 0 .. MaxCalls /\ pendingTools \subseteq 0 .. MaxCalls
      /\ 0 .. MaxCalls \subseteq Nat
  BY BoundsAssumption DEF TypeOK, ReplyType, EngineType, Calls
<1>2. \A c : HasResult(messages', c) <=> HasResult(messages, c) \/ HasResult(block, c)
  BY <1>0, ResultsOfConcat
<1>3. OneResult(messages')
  BY <1>0, ResultsOfConcat DEF ResultInv
<1>4. \A c \in 0 .. MaxCalls : HasResult(messages', c) => c < nextCall'
  BY <1>0, <1>1, <1>2 DEF ResultInv, OpensNothing
<1>5. \A c \in due' \cup pendingTools' : c < nextCall' /\ ~HasResult(messages', c)
  BY <1>0, <1>1, <1>2 DEF ResultInv, OpensNothing, OpenCalls
<1> QED BY <1>2, <1>3, <1>4, <1>5 DEF ResultInv, OpensNothing, OpenCalls

(* A step that adds messages none of which is a result.                       *)
LEMMA PlainStep ==
    ASSUME TypeOK, ResultInv, OpensNothing,
           NEW block \in Seq(MessageType), messages' = messages \o block,
           \A i \in DOMAIN block : block[i].role # "tool"
    PROVE  ResultInv' /\ \A c : HasResult(messages', c) <=> HasResult(messages, c)
<1>1. OneResult(block) /\ \A c : ~HasResult(block, c)
  BY DEF OneResult, HasResult
<1> QED BY <1>1, ResultStep

(* A step that does not touch the transcript.                                 *)
LEMMA SilentStep ==
    ASSUME TypeOK, ResultInv, OpensNothing, UNCHANGED messages
    PROVE  ResultInv'
BY QuietStep DEF ResultInv

(* The messages that are no results.                                          *)
LEMMA NoResults ==
    /\ \A k : User(k).role = "user" /\ Unsaved(User(k)).role = "user"
    /\ \A S : Assistant(S).role = "assistant"
BY DEF User, Unsaved, Assistant, Message

(* The steps of the engine that add no message.                               *)
LEMMA SilentActions ==
    ASSUME TypeOK, ResultInv,
           \/ ContinueFails \/ LoopExit \/ RequestLLM \/ ToolsDoneFails \/ BatchAborted
           \/ BatchAsks \/ BatchApplied \/ JobFails \/ Drained \/ SettleTools \/ FinishContinue
           \/ \E forked \in 0 .. 1 : StreamFails(forked)
           \/ \E kind \in {"text", "thought"} : StreamText(kind)
           \/ \E c \in Calls : ApplyResultFails(c) \/ ResolveFails(c)
           \/ SendMessageRefused \/ AnswerQuestionFails \/ Interrupt \/ UNCHANGED vars
    PROVE  ResultInv'
<1>1. /\ nextCall \in Nat /\ question \in Nat
      /\ due \subseteq Calls /\ pendingTools \subseteq Calls /\ Calls \subseteq Nat
  BY BoundsAssumption DEF TypeOK, EnvType, ReplyType, EngineType, Calls
<1>2. question < nextCall /\ question \notin due \cup pendingTools
  BY DEF ResultInv, OpenCalls
<1>3. UNCHANGED messages
  BY DEF ContinueFails, LoopExit, RequestLLM, ToolsDoneFails, BatchAborted, BatchAsks,
     BatchApplied, JobFails, Drained, SettleTools, FinishContinue, StreamFails, StreamText,
     ApplyResultFails, ResolveFails, SendMessageRefused, AnswerQuestionFails, Interrupt, vars,
     engineVars
<1>4. CASE \E c \in Calls : ApplyResultFails(c)
  <2>1. PICK c \in Calls : ApplyResultFails(c)
    BY <1>4
  <2>2. c < nextCall /\ c \notin pendingTools
    BY <2>1 DEF ApplyResultFails, IsNextDue, ResultInv, OpenCalls
  <2>3. OpensNothing
    BY <1>1, <1>2, <2>1, <2>2 DEF ApplyResultFails, Fails, ReplyEnds, OpensNothing
  <2> QED BY <1>3, <2>3, SilentStep
<1>5. CASE \E forked \in 0 .. 1 : StreamFails(forked)
  <2>1. PICK forked \in 0 .. 1 : StreamFails(forked)
    BY <1>5
  <2>2. OpensNothing
    BY <1>1, <1>2, <2>1 DEF StreamFails, Fails, ReplyEnds, OpensNothing
  <2> QED BY <1>3, <2>2, SilentStep
<1>6. CASE AnswerQuestionFails
  <2>1. 0 < nextCall /\ 0 \notin Calls
    BY BoundsAssumption DEF TypeOK, EnvType, Calls
  <2>2. question' = 0 /\ UNCHANGED <<due, pendingTools, nextCall>>
    BY <1>6 DEF AnswerQuestionFails, replyVars, NoCall
  <2>3. OpensNothing
    BY <1>1, <2>1, <2>2 DEF OpensNothing
  <2> QED BY <1>3, <2>3, SilentStep
<1>7. CASE /\ ~(\E c \in Calls : ApplyResultFails(c)) /\ ~AnswerQuestionFails
           /\ ~(\E forked \in 0 .. 1 : StreamFails(forked))
  <2>1. /\ due' \subseteq due /\ pendingTools' \subseteq pendingTools
        /\ nextCall' = nextCall /\ question' = question
    BY <1>7 DEF ContinueFails, LoopExit, RequestLLM, ToolsDoneFails, BatchAborted, BatchAsks,
       BatchApplied, JobFails, Drained, SettleTools, FinishContinue, StreamText, ResolveFails,
       SendMessageRefused, Interrupt, vars, engineVars, envVars, replyVars, ReplyEnds, Fails, Fault
  <2>2. OpensNothing
    BY <1>1, <1>2, <2>1 DEF OpensNothing
  <2> QED BY <1>3, <2>2, SilentStep
<1> QED BY <1>4, <1>5, <1>6, <1>7

(* The steps that add messages of the author, of the engine or of the LLM.    *)
LEMMA PlainActions ==
    ASSUME TypeOK, ResultInv,
           \/ SendMessage \/ SendMessageFails \/ ToolsDone \/ JobReports
           \/ SettleExit \/ SettleThought \/ SettleTodos \/ SettleComplete \/ FinishMessage
           \/ \E b \in BOOLEAN : DrainFails(b) \/ SettleFails(b)
    PROVE  ResultInv' /\ \A c : HasResult(messages', c) <=> HasResult(messages, c)
<1> DEFINE Plain(block) == block \in Seq(MessageType)
                           /\ \A i \in DOMAIN block : block[i].role # "tool"
<1>1. /\ nextCall \in Nat /\ question \in Nat /\ messages \in Seq(MessageType)
      /\ batch \in SUBSET Calls
  BY BoundsAssumption DEF TypeOK, EnvType, ReplyType, EngineType, Calls
<1>2. question < nextCall /\ question \notin due \cup pendingTools
  BY DEF ResultInv, OpenCalls
<1>3. OpensNothing
  <2>1. /\ due' \subseteq due /\ pendingTools' \subseteq pendingTools
        /\ nextCall' = nextCall /\ question' = question
    BY DEF SendMessage, SendMessageFails, NewTurn, ToolsDone, JobReports, SettleExit,
       SettleThought, SettleTodos, SettleComplete, SettleFrame, FinishMessage, DrainFails,
       SettleFails, envVars, replyVars, ReplyEnds, Fails, Fault
  <2> QED BY <1>1, <1>2, <2>1 DEF OpensNothing
<1>4. \A m \in MessageType : m.role # "tool" => Plain(<<m>>)
  OBVIOUS
<1>5. Plain(<<>>)
  OBVIOUS
<1>6. Plain(<<Assistant({}), User("nudge")>>)
  <2>1. Assistant({}) \in MessageType /\ User("nudge") \in MessageType
    BY MessageTypes
  <2> QED BY <2>1, NoResults
<1>7. /\ Plain(<<Assistant({})>>) /\ Plain(<<Assistant(batch)>>)
      /\ \A k \in {"prompt", "nudge", "report", "memory"} :
            Plain(<<User(k)>>) /\ Plain(<<Unsaved(User(k))>>)
  <2> HIDE DEF Plain
  <2>1. {} \in SUBSET Calls
    OBVIOUS
  <2> QED BY <1>1, <1>4, <2>1, MessageTypes, NoResults
<1> HIDE DEF Plain
<1>8. \E block : Plain(block) /\ messages' = messages \o block
  <2>1. CASE SendMessage \/ SendMessageFails
    BY <2>1, <1>1, <1>7, AddIsConcat DEF SendMessage, SendMessageFails
  <2>2. CASE ToolsDone
    BY <2>2, <1>1, <1>7, AddIsConcat DEF ToolsDone
  <2>3. CASE JobReports
    BY <2>3, <1>1, <1>7, AddIsConcat DEF JobReports
  <2>4. CASE SettleExit \/ SettleComplete
    BY <2>4, <1>1, <1>7, AddIsConcat DEF SettleExit, SettleComplete
  <2>5. CASE SettleThought \/ SettleTodos
    BY <2>5, <1>6 DEF SettleThought, SettleTodos
  <2>6. CASE FinishMessage
    BY <2>6, <1>5, <1>7 DEF FinishMessage
  <2>7. CASE \E b \in BOOLEAN : DrainFails(b) \/ SettleFails(b)
    BY <2>7, <1>5, <1>7 DEF DrainFails, SettleFails
  <2> QED BY <2>1, <2>2, <2>3, <2>4, <2>5, <2>6, <2>7
<1> QED BY <1>3, <1>8, PlainStep DEF Plain

(* The steps that add the result of one call: it was open and is open no more. *)
LEMMA ResolvingActions ==
    ASSUME TypeOK, ResultInv, NEW c \in Calls,
           \/ ApplyResult(c) \/ DenyTool(c)
           \/ \E f \in {"ok", "fail", "fork"} : ApproveTool(c, f)
    PROVE  ResultInv' /\ \A d : HasResult(messages', d) <=> HasResult(messages, d) \/ d = c
<1>1. /\ nextCall \in Nat /\ question \in Nat /\ messages \in Seq(MessageType)
      /\ due \subseteq Calls /\ pendingTools \subseteq Calls /\ Calls \subseteq Nat
  BY BoundsAssumption DEF TypeOK, EnvType, ReplyType, EngineType, Calls
<1>2. c \in OpenCalls
  BY DEF ApplyResult, IsNextDue, DenyTool, ApproveTool, OpenCalls
<1>3. c < nextCall /\ ~HasResult(messages, c)
  BY <1>2 DEF ResultInv
<1>4. /\ due' \subseteq due /\ pendingTools' \subseteq pendingTools
      /\ nextCall' = nextCall /\ question' \in {question, c} /\ c \notin due' \cup pendingTools'
  BY DEF ApplyResult, IsNextDue, DenyTool, ApproveTool, envVars, replyVars, ResultInv
<1>5. OpensNothing
  BY <1>1, <1>3, <1>4 DEF OpensNothing, ResultInv, OpenCalls
<1>6. \E body \in {"ok", "error", "denied", "question"} : Add(ToolResult(c, body))
  <2>1. CASE ApplyResult(c)
    BY <2>1 DEF ApplyResult, Result
  <2>2. CASE DenyTool(c) \/ \E f \in {"ok", "fail", "fork"} : ApproveTool(c, f)
    BY <2>2 DEF DenyTool, ApproveTool
  <2> QED BY <2>1, <2>2
<1>7. PICK body \in {"ok", "error", "denied", "question"} : Add(ToolResult(c, body))
  BY <1>6
<1>8. /\ ToolResult(c, body) \in MessageType
      /\ ToolResult(c, body).call = c /\ ToolResult(c, body).role = "tool"
  BY MessageTypes DEF ToolResult, Message
<1>9. <<ToolResult(c, body)>> \in Seq(MessageType)
  BY <1>8
<1>10. messages' = messages \o <<ToolResult(c, body)>>
  BY <1>1, <1>7, AddIsConcat
<1>11. OneResult(<<ToolResult(c, body)>>) /\ \A d : HasResult(<<ToolResult(c, body)>>, d) <=> d = c
  BY <1>8, ResultsOfOne
<1> QED BY <1>1, <1>3, <1>4, <1>5, <1>9, <1>10, <1>11, ResultStep

(* An interrupted response: its calls are new, and answered at once.          *)
LEMMA CutActions ==
    ASSUME TypeOK, ResultInv, NEW n \in 0 .. MaxBatch,
           \/ StreamCancelled(n)
           \/ \E k \in 0 .. MaxBatch : StreamCancelFails(n, k)
    PROVE  /\ ResultInv'
           /\ \A c : c < nextCall => (HasResult(messages', c) <=> HasResult(messages, c))
<1>1. /\ nextCall \in 1 .. (MaxCalls + 1) /\ nextCall \in Nat /\ question \in Nat
      /\ messages \in Seq(MessageType) /\ n \in Nat
      /\ due \subseteq Calls /\ pendingTools \subseteq Calls /\ Calls \subseteq Nat
  BY BoundsAssumption DEF TypeOK, EnvType, ReplyType, EngineType, Calls
<1>2. nextCall + n - 1 <= MaxCalls /\ nextCall' = nextCall + n
  BY DEF StreamCancelled, StreamCancelFails
<1>3. due' \subseteq due /\ pendingTools' \subseteq pendingTools /\ question' = question
  BY DEF StreamCancelled, StreamCancelFails, replyVars, Fails, ReplyEnds
<1>4. OpensNothing
  BY <1>1, <1>2, <1>3 DEF OpensNothing, ResultInv, OpenCalls
<1>5. CutBlock(n) \in Seq(MessageType) /\ Len(CutBlock(n)) = n + 1
  BY <1>1, <1>2, CutBlockType
<1>6. SubSeq(CutBlock(n), 1, n + 1) = CutBlock(n)
  BY <1>1, <1>5
<1>7. UNCHANGED messages \/ \E k \in 0 .. (n + 1) : messages' = messages \o SubSeq(CutBlock(n), 1, k)
  <2>1. CASE StreamCancelled(n)
    <3>1. messages' = messages \o CutBlock(n) \/ UNCHANGED messages
      BY <2>1, Zenon DEF StreamCancelled
    <3>2. n + 1 \in 0 .. (n + 1)
      BY <1>1
    <3> QED BY <3>1, <3>2, <1>6, Zenon
  <2>2. CASE \E k \in 0 .. MaxBatch : StreamCancelFails(n, k)
    BY <2>2, <1>1 DEF StreamCancelFails
  <2> QED BY <2>1, <2>2
<1>8. ASSUME NEW k \in 0 .. (n + 1), messages' = messages \o SubSeq(CutBlock(n), 1, k)
      PROVE  /\ ResultInv'
             /\ \A c : c < nextCall => (HasResult(messages', c) <=> HasResult(messages, c))
  <2> DEFINE block == SubSeq(CutBlock(n), 1, k)
  <2>1. /\ block \in Seq(MessageType) /\ OneResult(block)
        /\ \A c : HasResult(block, c) => nextCall <= c /\ c < nextCall + n
    BY <1>1, <1>2, ResultsOfCutBlock
  <2> HIDE DEF block
  <2>2. \A c \in 0 .. MaxCalls : HasResult(block, c) =>
            ~HasResult(messages, c) /\ c < nextCall' /\ c \notin due' \cup pendingTools'
    <3>1. \A c \in 0 .. MaxCalls : nextCall <= c =>
              ~HasResult(messages, c) /\ c \notin due \cup pendingTools
      BY <1>1 DEF ResultInv, OpenCalls
    <3> QED BY <1>1, <1>2, <1>3, <2>1, <3>1
  <2>3. messages' = messages \o block
    BY <1>8 DEF block
  <2>4. \A c : HasResult(messages', c) <=> HasResult(messages, c) \/ HasResult(block, c)
    BY <1>4, <2>1, <2>2, <2>3, ResultStep
  <2>5. ResultInv'
    BY <1>4, <2>1, <2>2, <2>3, ResultStep
  <2>6. \A c : c < nextCall => ~HasResult(block, c)
    <3> SUFFICES ASSUME NEW c, c < nextCall, HasResult(block, c) PROVE FALSE
      OBVIOUS
    <3>1. c \in 0 .. MaxCalls
      BY <2>1, ResultsAreOfCalls
    <3> QED BY <1>1, <2>1, <3>1
  <2> QED BY <2>4, <2>5, <2>6
<1> QED BY <1>4, <1>7, <1>8, SilentStep

(* A response with tool calls: they are new, and due or up for approval.      *)
LEMMA IssuingActions ==
    ASSUME TypeOK, ResultInv, NEW n \in 1 .. MaxBatch, NEW f \in [NewCalls(n) -> Fates],
           StreamTools(n, f)
    PROVE  ResultInv'
<1>1. /\ nextCall \in Nat /\ question \in Nat /\ n \in Nat
      /\ due \subseteq Calls /\ pendingTools \subseteq Calls /\ Calls \subseteq 0 .. MaxCalls
      /\ MaxCalls \in Nat
  BY BoundsAssumption DEF TypeOK, EnvType, ReplyType, EngineType, Calls
<1> DEFINE asked == { c \in NewCalls(n) : f[c] = "ask" }
           run == { c \in NewCalls(n) : f[c] # "ask" }
<1>2. /\ nextCall + n - 1 <= MaxCalls /\ nextCall' = nextCall + n
      /\ due' = run /\ pendingTools' = pendingTools \cup asked
      /\ question' = question /\ messages' = messages
  BY DEF StreamTools
<1>3. \A c \in NewCalls(n) : c \in 0 .. MaxCalls /\ nextCall <= c /\ c < nextCall + n
  BY <1>1, <1>2 DEF NewCalls
<1>4. \A c \in NewCalls(n) : ~HasResult(messages, c) /\ c \notin pendingTools /\ c # question
  BY <1>1, <1>3 DEF ResultInv, OpenCalls
<1>5. asked \subseteq NewCalls(n) /\ run \subseteq NewCalls(n) /\ asked \cap run = {}
  OBVIOUS
<1> HIDE DEF asked, run
<1>6. \A c \in due' \cup pendingTools' : c < nextCall' /\ ~HasResult(messages', c)
  <2>1. \A c \in pendingTools : c < nextCall /\ ~HasResult(messages, c) /\ c \in 0 .. MaxCalls
    BY <1>1 DEF ResultInv, OpenCalls
  <2>2. \A c \in pendingTools : c < nextCall'
    BY <1>1, <1>2, <2>1
  <2>3. \A c \in NewCalls(n) : c < nextCall'
    BY <1>2, <1>3
  <2>4. \A c : HasResult(messages', c) <=> HasResult(messages, c)
    BY <1>2
  <2>5. \A c \in due' \cup pendingTools' : c \in NewCalls(n) \/ c \in pendingTools
    BY <1>2, <1>5
  <2> QED BY <1>4, <2>1, <2>2, <2>3, <2>4, <2>5, Zenon
<1>7. due' \cap pendingTools' = {} /\ question' \notin due' \cup pendingTools'
  <2>1. question \notin pendingTools
    BY DEF ResultInv, OpenCalls
  <2> QED BY <1>2, <1>4, <1>5, <2>1
<1>8. question' < nextCall'
  BY <1>1, <1>2 DEF ResultInv
<1>9. OneResult(messages') /\ \A c \in 0 .. MaxCalls : HasResult(messages', c) => c < nextCall'
  BY <1>1, <1>2 DEF ResultInv
<1> QED BY <1>6, <1>7, <1>8, <1>9 DEF ResultInv, OpenCalls

(* The answer takes the place of the stub, or is the first result of its call. *)
LEMMA AnsweringAction ==
    ASSUME TypeOK, ResultInv, AnswerQuestion
    PROVE  ResultInv' /\ \A c : HasResult(messages', c) <=> HasResult(messages, c) \/ c = question
<1>1. /\ nextCall \in Nat /\ question \in Calls /\ messages \in Seq(MessageType)
      /\ due \subseteq Calls /\ pendingTools \subseteq Calls /\ Calls \subseteq Nat \ {0}
      /\ nextCall > 0
  BY BoundsAssumption DEF TypeOK, EnvType, ReplyType, EngineType, Calls, AnswerQuestion, NoCall
<1>2. /\ due' = due /\ pendingTools' = pendingTools /\ nextCall' = nextCall /\ question' = 0
  BY DEF AnswerQuestion, replyVars, envVars, NoCall
<1>3. OpensNothing
  BY <1>1, <1>2 DEF OpensNothing
<1>4. CASE HasResult(messages, question)
  <2>1. messages' = [i \in DOMAIN messages |-> Answered(i)]
    BY <1>4 DEF AnswerQuestion
  <2>2. \A m \in MessageType : LET a == [m EXCEPT !.body = "answer"]
                               IN  a.role = m.role /\ a.call = m.call
    BY DEF MessageType
  <2>3. \A i \in DOMAIN messages : messages[i] \in MessageType
    BY <1>1
  <2>4. \A i \in DOMAIN messages :
            Answered(i).role = messages[i].role /\ Answered(i).call = messages[i].call
    BY <2>2, <2>3 DEF Answered
  <2>5. /\ DOMAIN messages' = DOMAIN messages
        /\ \A i \in DOMAIN messages : messages'[i].role = messages[i].role
                                      /\ messages'[i].call = messages[i].call
    BY <2>1, <2>4
  <2>6. OneResult(messages') /\ \A c : HasResult(messages', c) <=> HasResult(messages, c)
    BY <2>5 DEF OneResult, HasResult, ResultInv
  <2>7. ResultInv'
    BY <1>3, <2>6, QuietStep
  <2> QED BY <1>4, <2>6, <2>7, Zenon
<1>5. CASE ~HasResult(messages, question)
  <2> DEFINE answer == ToolResult(question, "answer")
  <2>1. answer \in MessageType /\ answer.call = question /\ answer.role = "tool"
    BY <1>1, MessageTypes DEF ToolResult, Message
  <2>2. messages' = messages \o <<answer>>
    BY <1>1, <1>5 DEF AnswerQuestion
  <2> HIDE DEF answer
  <2>3. <<answer>> \in Seq(MessageType)
    BY <2>1
  <2>4. OneResult(<<answer>>) /\ \A c : HasResult(<<answer>>, c) <=> c = question
    BY <2>1, ResultsOfOne
  <2>5. question < nextCall' /\ question \notin due' \cup pendingTools'
    BY <1>2 DEF ResultInv, OpenCalls
  <2> QED BY <1>3, <1>5, <2>2, <2>3, <2>4, <2>5, ResultStep
<1> QED BY <1>4, <1>5

-----------------------------------------------------------------------------
(* Every step keeps the results.                                              *)
LEMMA ResultsKept == Spec => []ResultInv
<1>1. Init => ResultInv
  BY DEF Init, ResultInv, OneResult, OpenCalls, HasResult, NoCall
<1>2. TypeOK /\ ResultInv /\ [Next]_vars => ResultInv'
  <2> SUFFICES ASSUME TypeOK, ResultInv, [Next]_vars PROVE ResultInv'
    OBVIOUS
  <2>1. CASE EngineStep
    <3>1. CASE Stream
      BY <3>1, SilentActions, CutActions, IssuingActions DEF Stream
    <3>2. CASE ~Stream
      BY <2>1, <3>2, SilentActions, PlainActions, ResolvingActions DEF EngineStep
    <3> QED BY <3>1, <3>2
  <2>2. CASE Command
    BY <2>2, SilentActions, PlainActions, ResolvingActions, AnsweringAction DEF Command
  <2>3. CASE Interrupt \/ UNCHANGED vars
    BY <2>3, SilentActions
  <2> QED BY <2>1, <2>2, <2>3 DEF Next
<1> QED BY <1>1, <1>2, TypeCorrect, PTL DEF Spec

(* No call is answered twice, whatever is interrupted, refused, asked or      *)
(* fails: the executor, an approval, a denial, an answer and the stubs of an  *)
(* interrupt each find the call without a result.                             *)
THEOREM NoCallIsAnsweredTwice == Spec => []OneResultPerCall
<1>1. ResultInv => OneResultPerCall
  BY DEF ResultInv, OneResult, OneResultPerCall
<1> QED BY <1>1, ResultsKept, PTL
-----------------------------------------------------------------------------
(* The phases of a command.                                                   *)

(* Where the abstract guards come from: calls are due only while a batch is   *)
(* at work; a response comes when nothing is open and nothing is asked; a     *)
(* question that a batch has raised has its stub, unless the stub failed and  *)
(* the command with it.                                                       *)
PhaseInv ==
    /\ due # {} => pc \in {"tools", "apply"}
    /\ pc = "stream" => pendingTools = {}
    /\ pc \in {"loop", "stream", "tools", "drain", "settle"} => question = NoCall
    /\ pc = "apply" /\ question # NoCall => HasResult(messages, question)

(* The phases are kept.                                                       *)
LEMMA PhaseStep ==
    ASSUME TypeOK, PhaseInv, [Next]_vars PROVE PhaseInv'
<1>0. messages \in Seq(MessageType)
  BY DEF TypeOK, EngineType
<1> USE DEF PhaseInv, engineVars, replyVars
<1>1. CASE Stream
  BY <1>1 DEF Stream, StreamCancelled, StreamCancelFails, StreamFails, StreamText, StreamTools,
     Fails, ReplyEnds, Leave
<1>2. CASE ContinueFails \/ ToolsDoneFails \/ (\E c \in Calls : ApplyResultFails(c))
           \/ (\E b \in BOOLEAN : DrainFails(b) \/ SettleFails(b))
  BY <1>2 DEF ContinueFails, ToolsDoneFails, ApplyResultFails, DrainFails, SettleFails, Fails,
     ReplyEnds
<1>3. CASE LoopExit \/ RequestLLM \/ ToolsDone
  BY <1>3 DEF LoopExit, RequestLLM, ToolsDone, ExitReason, Leave
<1>4. ASSUME NEW c \in Calls, ApplyResult(c) PROVE PhaseInv'
  <2>1. HasResult(messages', c)
    BY <1>0, <1>4, AddedResultIsThere DEF ApplyResult, Result
  <2>2. \A d : HasResult(messages, d) => HasResult(messages', d)
    BY <1>0, <1>4 DEF ApplyResult, Add, HasResult
  <2> QED BY <1>4, <2>1, <2>2 DEF ApplyResult
<1>5. CASE BatchAborted \/ BatchAsks \/ BatchApplied
  BY <1>5 DEF BatchAborted, BatchAsks, BatchApplied, Leave, ReplyEnds
<1>6. CASE JobReports \/ JobFails \/ Drained
  BY <1>6 DEF JobReports, JobFails, Drained
<1>7. CASE SettleTools \/ SettleExit \/ SettleThought \/ SettleTodos \/ SettleComplete
  BY <1>7 DEF SettleTools, SettleExit, SettleThought, SettleTodos, SettleComplete, SettleFrame,
     IncrementInner, Leave, ReplyEnds
<1>8. CASE FinishMessage \/ FinishContinue
  BY <1>8 DEF FinishMessage, FinishContinue
<1>9. CASE Command
  BY <1>9 DEF Command, SendMessage, SendMessageFails, SendMessageRefused, NewTurn, ApproveTool,
     DenyTool, ResolveFails, AnswerQuestion, AnswerQuestionFails, ContinueUnlessPaused,
     ContinueTurn
<1>10. CASE Interrupt \/ UNCHANGED vars
  BY <1>10 DEF Interrupt, vars
<1> QED BY <1>1, <1>2, <1>3, <1>4, <1>5, <1>6, <1>7, <1>8, <1>9, <1>10 DEF Next, EngineStep

-----------------------------------------------------------------------------
(* The current turn, without the index of its prompt: what a transcript tells *)
(* that is extended, message by message.                                      *)

NoPrompt(ms) == \A i \in DOMAIN ms : ms[i].body # "prompt"
NoCalls(ms) == \A i \in DOMAIN ms : ms[i].calls = {}

\* The call was issued in this turn.
Issued(ms, c) ==
    \E i \in DOMAIN ms : c \in ms[i].calls /\ \A j \in i .. Len(ms) : ms[j].body # "prompt"

Bad(m) == m.role = "tool" /\ m.body \in {"error", "denied"}
Good(m) == m.body \in {"ok", "question", "answer"}
NoneGood(ms) == \A i \in DOMAIN ms : ~Good(ms[i])

\* The errors of this turn since its last success.
BadRun(ms) ==
    { i \in DOMAIN ms : Bad(ms[i]) /\ \A j \in i .. Len(ms) : ~Good(ms[j]) /\ ms[j].body # "prompt" }

\* There is a last prompt, or none at all.
IsLastPrompt(ms, p) ==
    /\ p \in 0 .. Len(ms)
    /\ p = 0 \/ ms[p].body = "prompt"
    /\ \A i \in (p + 1) .. Len(ms) : ms[i].body # "prompt"

\* A result and a prompt make no calls.
Shape(ms) ==
    /\ \E p \in 0 .. Len(ms) : IsLastPrompt(ms, p)
    /\ \A i \in DOMAIN ms : ms[i].role = "tool" \/ ms[i].body = "prompt" => ms[i].calls = {}
    /\ \A i \in DOMAIN ms : ms[i].role = "tool" => ms[i].body # "prompt"

\* The question of the author has the stub that its answer will replace.
HasStub(ms, c) == \E i \in DOMAIN ms : ms[i].role = "tool" /\ ms[i].call = c /\ ms[i].body = "question"

\* The indices of a transcript with a block behind it.
Joins(all, ms, block) ==
    /\ all = ms \o block /\ all \in Seq(MessageType) /\ Len(all) = Len(ms) + Len(block)
    /\ Len(ms) \in Nat /\ DOMAIN ms = 1 .. Len(ms)
    /\ Len(block) \in Nat /\ DOMAIN block = 1 .. Len(block)
    /\ DOMAIN all = 1 .. (Len(ms) + Len(block))
    /\ \A i \in DOMAIN ms : i \in DOMAIN all /\ all[i] = ms[i]
    /\ \A i \in DOMAIN block : Len(ms) + i \in DOMAIN all /\ all[Len(ms) + i] = block[i]
    /\ \A i \in DOMAIN all :
          \/ i \in DOMAIN ms /\ all[i] = ms[i]
          \/ i > Len(ms) /\ i - Len(ms) \in DOMAIN block /\ all[i] = block[i - Len(ms)]

LEMMA ConcatJoins ==
    ASSUME NEW ms \in Seq(MessageType), NEW block \in Seq(MessageType)
    PROVE  Joins(ms \o block, ms, block)
<1> DEFINE all == ms \o block
<1>0. /\ all \in Seq(MessageType)
      /\ Len(all) = Len(ms) + Len(block)
      /\ \A i \in 1 .. Len(ms) + Len(block) :
            all[i] = IF i <= Len(ms) THEN ms[i] ELSE block[i - Len(ms)]
  BY ConcatProperties
<1> HIDE DEF all
<1>1. /\ Len(ms) \in Nat /\ DOMAIN ms = 1 .. Len(ms)
      /\ Len(block) \in Nat /\ DOMAIN block = 1 .. Len(block)
      /\ DOMAIN all = 1 .. (Len(ms) + Len(block))
  BY <1>0
<1>2. \A i \in DOMAIN all :
         \/ i \in DOMAIN ms /\ all[i] = ms[i]
         \/ i > Len(ms) /\ i - Len(ms) \in DOMAIN block /\ all[i] = block[i - Len(ms)]
  BY <1>0, <1>1
<1>3. \A i \in DOMAIN ms : i \in DOMAIN all /\ all[i] = ms[i]
  BY <1>0, <1>1
<1>4. \A i \in DOMAIN block : Len(ms) + i \in DOMAIN all /\ all[Len(ms) + i] = block[i]
  <2> SUFFICES ASSUME NEW i \in DOMAIN block
               PROVE  Len(ms) + i \in DOMAIN all /\ all[Len(ms) + i] = block[i]
    OBVIOUS
  <2>1. i \in Nat /\ i > 0 /\ Len(ms) + i \in 1 .. (Len(ms) + Len(block))
    BY <1>1
  <2>2. ~(Len(ms) + i <= Len(ms)) /\ (Len(ms) + i) - Len(ms) = i
    BY <2>1, <1>1
  <2> QED BY <1>0, <1>1, <2>1, <2>2
<1> QED BY <1>0, <1>1, <1>2, <1>3, <1>4 DEF all, Joins

(* A block without a prompt leaves the turn what it was, and issues its calls. *)
LEMMA IssuedOfConcat ==
    ASSUME NEW ms, NEW block, NEW all, Joins(all, ms, block), NoPrompt(block)
    PROVE  \A c : Issued(all, c) <=> Issued(ms, c) \/ \E i \in DOMAIN block : c \in block[i].calls
<1> USE DEF Joins
<1> TAKE c
<1>1. ASSUME NEW i \in DOMAIN ms, c \in ms[i].calls, \A j \in i .. Len(ms) : ms[j].body # "prompt"
      PROVE  Issued(all, c)
  <2>1. \A j \in i .. Len(all) : all[j].body # "prompt"
    BY <1>1 DEF NoPrompt
  <2> QED BY <1>1, <2>1 DEF Issued
<1>2. ASSUME NEW i \in DOMAIN block, c \in block[i].calls
      PROVE  Issued(all, c)
  <2>1. Len(ms) + i \in DOMAIN all /\ all[Len(ms) + i] = block[i]
    OBVIOUS
  <2>2. \A j \in (Len(ms) + i) .. Len(all) : all[j].body # "prompt"
    BY DEF NoPrompt
  <2> QED BY <1>2, <2>1, <2>2 DEF Issued
<1>3. ASSUME NEW i \in DOMAIN all, c \in all[i].calls, \A j \in i .. Len(all) : all[j].body # "prompt"
      PROVE  Issued(ms, c) \/ \E k \in DOMAIN block : c \in block[k].calls
  <2>1. CASE i \in DOMAIN ms
    <3>1. \A j \in i .. Len(ms) : ms[j].body # "prompt"
      BY <1>3, <2>1
    <3> QED BY <1>3, <2>1, <3>1 DEF Issued
  <2>2. CASE i \notin DOMAIN ms
    BY <1>3, <2>2
  <2> QED BY <2>1, <2>2
<1> QED BY <1>1, <1>2, <1>3 DEF Issued

(* It keeps the errors that count when there is no success in it.             *)
LEMMA BadRunOfConcat ==
    ASSUME NEW ms, NEW block, NEW all, Joins(all, ms, block), NoPrompt(block), NoneGood(block)
    PROVE  BadRun(ms) \subseteq BadRun(all)
<1> SUFFICES ASSUME NEW i \in BadRun(ms) PROVE i \in BadRun(all)
  OBVIOUS
<1>1. /\ i \in DOMAIN ms /\ Bad(ms[i])
      /\ \A j \in i .. Len(ms) : ~Good(ms[j]) /\ ms[j].body # "prompt"
  BY DEF BadRun
<1>2. i \in DOMAIN all /\ Bad(all[i])
  BY <1>1 DEF Joins
<1>3. \A j \in i .. Len(all) : ~Good(all[j]) /\ all[j].body # "prompt"
  BY <1>1 DEF Joins, NoPrompt, NoneGood
<1> QED BY <1>2, <1>3 DEF BadRun

(* The errors can be counted.                                                 *)
LEMMA BadRunIsFinite ==
    ASSUME NEW ms \in Seq(MessageType)
    PROVE  IsFiniteSet(BadRun(ms)) /\ Cardinality(BadRun(ms)) \in Nat
<1>1. DOMAIN ms = 1 .. Len(ms) /\ Len(ms) \in Nat
  OBVIOUS
<1>2. IsFiniteSet(1 .. Len(ms))
  BY <1>1, FS_Interval
<1>3. BadRun(ms) \subseteq 1 .. Len(ms)
  BY <1>1 DEF BadRun
<1> QED BY <1>2, <1>3, FS_Subset, FS_CardinalityType

LEMMA BadRunGrows ==
    ASSUME NEW ms \in Seq(MessageType), NEW block \in Seq(MessageType), NEW all,
           Joins(all, ms, block), NoPrompt(block), NoneGood(block)
    PROVE  /\ Cardinality(BadRun(all)) >= Cardinality(BadRun(ms))
           /\ \A i \in DOMAIN block : Bad(block[i]) => Cardinality(BadRun(all)) >= Cardinality(BadRun(ms)) + 1
<1>1. /\ BadRun(ms) \subseteq BadRun(all)
      /\ IsFiniteSet(BadRun(ms)) /\ Cardinality(BadRun(ms)) \in Nat
      /\ IsFiniteSet(BadRun(all)) /\ Cardinality(BadRun(all)) \in Nat
  BY BadRunOfConcat, BadRunIsFinite DEF Joins
<1>2. Cardinality(BadRun(ms)) <= Cardinality(BadRun(all))
  BY <1>1, FS_Subset
<1>3. ASSUME NEW i \in DOMAIN block, Bad(block[i])
      PROVE  Cardinality(BadRun(all)) >= Cardinality(BadRun(ms)) + 1
  <2> DEFINE k == Len(ms) + i
  <2>1. k \in DOMAIN all /\ all[k] = block[i] /\ k \notin DOMAIN ms
    BY DEF Joins
  <2>2. \A j \in k .. Len(all) : ~Good(all[j]) /\ all[j].body # "prompt"
    <3> SUFFICES ASSUME NEW j \in k .. Len(all) PROVE ~Good(all[j]) /\ all[j].body # "prompt"
      OBVIOUS
    <3>1. j \in DOMAIN all /\ j > Len(ms)
      BY DEF Joins
    <3>2. j - Len(ms) \in DOMAIN block /\ all[j] = block[j - Len(ms)]
      BY <3>1 DEF Joins
    <3> QED BY <3>2 DEF NoPrompt, NoneGood
  <2>3. k \in BadRun(all) /\ k \notin BadRun(ms)
    BY <1>3, <2>1, <2>2 DEF BadRun
  <2> HIDE DEF k
  <2>4. BadRun(ms) \cup {k} \subseteq BadRun(all)
    BY <1>1, <2>3
  <2>5. Cardinality(BadRun(ms) \cup {k}) = Cardinality(BadRun(ms)) + 1
    BY <1>1, <2>3, FS_AddElement
  <2>6. Cardinality(BadRun(ms) \cup {k}) <= Cardinality(BadRun(all))
    BY <1>1, <2>4, FS_Subset
  <2> QED BY <1>1, <2>5, <2>6
<1> QED BY <1>1, <1>2, <1>3

(* The last prompt is still the last one.                                     *)
LEMMA ShapeOfConcat ==
    ASSUME NEW ms, NEW block, NEW all, Joins(all, ms, block), NoPrompt(block), Shape(ms),
           \A i \in DOMAIN block : block[i].role = "tool" => block[i].calls = {}
    PROVE  Shape(all)
<1> USE DEF Joins
<1>1. PICK p \in 0 .. Len(ms) : IsLastPrompt(ms, p)
  BY DEF Shape
<1>2. p \in 0 .. Len(all) /\ (p = 0 \/ all[p].body = "prompt")
  BY <1>1 DEF IsLastPrompt
<1>3. \A i \in (p + 1) .. Len(all) : all[i].body # "prompt"
  BY <1>1 DEF IsLastPrompt, NoPrompt
<1>4. IsLastPrompt(all, p)
  BY <1>2, <1>3 DEF IsLastPrompt
<1>5. \A i \in DOMAIN all : all[i].role = "tool" \/ all[i].body = "prompt" => all[i].calls = {}
  BY DEF Shape, NoPrompt
<1>6. \A i \in DOMAIN all : all[i].role = "tool" => all[i].body # "prompt"
  BY DEF Shape, NoPrompt
<1> QED BY <1>2, <1>4, <1>5, <1>6 DEF Shape

(* A prompt begins a turn: no call of it is issued, and it is the last one.   *)
LEMMA PromptBegins ==
    ASSUME NEW ms, NEW m, NEW all, Joins(all, ms, <<m>>), Shape(ms),
           m.body = "prompt", m.calls = {}, m.role # "tool"
    PROVE  Shape(all) /\ \A c : ~Issued(all, c)
<1> USE DEF Joins
<1>0. Len(<<m>>) = 1 /\ <<m>>[1] = m
  OBVIOUS
<1>1. Len(all) = Len(ms) + 1 /\ all[Len(all)] = m /\ Len(all) \in DOMAIN all
  BY <1>0
<1>2. IsLastPrompt(all, Len(all)) /\ Len(all) \in 0 .. Len(all)
  BY <1>1 DEF IsLastPrompt
<1>3. \A i \in DOMAIN all : (i \in DOMAIN ms /\ all[i] = ms[i]) \/ all[i] = m
  BY <1>0
<1>4. Shape(all)
  BY <1>2, <1>3 DEF Shape
<1>5. \A c : ~Issued(all, c)
  <2> SUFFICES ASSUME NEW c, NEW i \in DOMAIN all, c \in all[i].calls,
                      \A j \in i .. Len(all) : all[j].body # "prompt"
               PROVE  FALSE
    BY DEF Issued
  <2>1. Len(all) \in i .. Len(all)
    BY <1>1
  <2> QED BY <1>1, <2>1
<1> QED BY <1>4, <1>5
-----------------------------------------------------------------------------
(* Approvals and failures, as long as the database writes what it is given.   *)

(* The calls that are open are those of this turn that have no result; those  *)
(* of a batch at work count as issued before their message is recorded.       *)
OpenAreUnanswered ==
    \A c \in Calls : c \in due \cup pendingTools <=>
        ~HasResult(messages, c) /\ (Issued(messages, c) \/ (pc = "tools" /\ c \in batch))

(* Beside what the two properties say: a question that waits has its stub,    *)
(* which the answer replaces, so an answer is never a success that is added.  *)
ApprovalInv ==
    faults = 0 =>
        /\ Shape(messages)
        /\ OpenAreUnanswered
        /\ question # NoCall => HasStub(messages, question)
        /\ failures <= Cardinality(BadRun(messages))

(* Steps that add nothing.                                                    *)
LEMMA StillStep ==
    ASSUME TypeOK, ApprovalInv,
           UNCHANGED <<messages, question, pendingTools, due, faults>>, failures' \in {failures, 0},
           pc = "tools" <=> pc' = "tools", pc = "tools" => batch' = batch
    PROVE  ApprovalInv'
<1>1. messages \in Seq(MessageType) /\ failures \in Nat
  BY DEF TypeOK, EngineType
<1>2. Cardinality(BadRun(messages)) \in Nat
  BY <1>1, BadRunIsFinite
<1>3. SUFFICES ASSUME faults = 0 PROVE ApprovalInv'
  BY DEF ApprovalInv
<1>4. OpenAreUnanswered'
  BY <1>3 DEF ApprovalInv, OpenAreUnanswered
<1>5. failures' <= Cardinality(BadRun(messages'))
  BY <1>1, <1>2, <1>3 DEF ApprovalInv
<1> QED BY <1>3, <1>4, <1>5 DEF ApprovalInv

(* Steps that add messages which are no results, issue nothing and begin no   *)
(* turn.                                                                      *)
LEMMA PlainExtends ==
    ASSUME TypeOK, ApprovalInv, NEW block \in Seq(MessageType), messages' = messages \o block,
           NoPrompt(block), NoneGood(block), NoCalls(block),
           \A i \in DOMAIN block : block[i].role # "tool",
           UNCHANGED <<question, pendingTools, due, faults, failures>>, pc # "tools", pc' # "tools"
    PROVE  ApprovalInv'
<1>1. messages \in Seq(MessageType) /\ failures \in Nat
  BY DEF TypeOK, EngineType
<1>2. Joins(messages', messages, block)
  BY <1>1, ConcatJoins
<1>3. SUFFICES ASSUME faults = 0 PROVE ApprovalInv'
  BY DEF ApprovalInv
<1>4. Shape(messages')
  BY <1>2, <1>3, ShapeOfConcat DEF ApprovalInv
<1>5. \A c : HasResult(messages', c) <=> HasResult(messages, c)
  BY <1>1, ResultsOfConcat DEF HasResult
<1>6. \A c : Issued(messages', c) <=> Issued(messages, c)
  BY <1>2, IssuedOfConcat DEF NoCalls
<1>7. OpenAreUnanswered'
  BY <1>3, <1>5, <1>6 DEF ApprovalInv, OpenAreUnanswered
<1>8. question' # NoCall => HasStub(messages', question')
  BY <1>2, <1>3 DEF ApprovalInv, HasStub, Joins
<1>9. failures' <= Cardinality(BadRun(messages'))
  <2>1. Cardinality(BadRun(messages')) >= Cardinality(BadRun(messages))
    BY <1>1, <1>2, BadRunGrows
  <2>2. Cardinality(BadRun(messages)) \in Nat /\ Cardinality(BadRun(messages')) \in Nat
    BY <1>1, <1>2, BadRunIsFinite DEF Joins
  <2> QED BY <1>1, <1>3, <2>1, <2>2 DEF ApprovalInv
<1> QED BY <1>4, <1>7, <1>8, <1>9 DEF ApprovalInv

(* The messages that the engine adds beside results.                          *)
LEMMA PlainBlocks ==
    /\ \A k \in {"nudge", "report", "memory"} : \A m \in {User(k), Unsaved(User(k)), Assistant({})} :
          /\ m \in MessageType /\ m.body # "prompt" /\ ~Good(m) /\ m.calls = {} /\ m.role # "tool"
    /\ \A S \in SUBSET Calls :
          LET m == Assistant(S)
          IN  m \in MessageType /\ m.body # "prompt" /\ ~Good(m) /\ m.calls = S /\ m.role # "tool"
    /\ LET m == User("prompt")
       IN  m \in MessageType /\ m.body = "prompt" /\ m.calls = {} /\ m.role # "tool"
    /\ \A c \in Calls : \A b \in {"ok", "error", "denied", "question", "answer", "interrupted"} :
          LET m == ToolResult(c, b)
          IN  /\ m \in MessageType /\ m.body = b /\ m.body # "prompt" /\ m.calls = {} /\ m.role = "tool"
              /\ m.call = c
<1>1. \A k : /\ User(k).body = k /\ User(k).calls = {} /\ User(k).role = "user"
            /\ Unsaved(User(k)).body = k /\ Unsaved(User(k)).calls = {} /\ Unsaved(User(k)).role = "user"
  BY DEF User, Message, Unsaved
<1>2. \A S : Assistant(S).body = "reply" /\ Assistant(S).calls = S /\ Assistant(S).role = "assistant"
  BY DEF Assistant, Message
<1>3. \A c, b : /\ ToolResult(c, b).body = b /\ ToolResult(c, b).calls = {}
               /\ ToolResult(c, b).role = "tool" /\ ToolResult(c, b).call = c
  BY DEF ToolResult, Message
<1>4. Assistant({}) \in MessageType
  BY MessageTypes
<1> QED BY <1>1, <1>2, <1>3, <1>4, MessageTypes DEF Good

(* The steps of the engine and of the author that add nothing.                *)
LEMMA StillActions ==
    ASSUME TypeOK, PhaseInv, ApprovalInv,
           \/ LoopExit \/ RequestLLM \/ BatchAborted
           \/ BatchAsks \/ BatchApplied \/ JobFails \/ Drained \/ SettleTools \/ FinishContinue
           \/ \E forked \in 0 .. 1 : StreamFails(forked)
           \/ \E kind \in {"text", "thought"} : StreamText(kind)
           \/ SendMessageRefused \/ Interrupt \/ UNCHANGED vars
    PROVE  ApprovalInv'
<1>1. UNCHANGED <<messages, question, pendingTools, faults>>
  BY DEF LoopExit, RequestLLM, BatchAborted, BatchAsks, BatchApplied, JobFails, Drained,
     SettleTools, FinishContinue, StreamFails, StreamText, SendMessageRefused, Interrupt, vars,
     engineVars, envVars
<1>2. failures' \in {failures, 0}
  BY DEF LoopExit, RequestLLM, BatchAborted, BatchAsks, BatchApplied, JobFails, Drained,
     SettleTools, FinishContinue, StreamFails, StreamText, SendMessageRefused, Interrupt, vars,
     engineVars
<1>3. due' = due
  BY DEF LoopExit, RequestLLM, BatchAborted, BatchAsks, BatchApplied, JobFails, Drained,
     SettleTools, FinishContinue, StreamFails, StreamText, SendMessageRefused, Interrupt, vars,
     replyVars, ReplyEnds, Fails, PhaseInv
<1>4. (pc = "tools" <=> pc' = "tools") /\ (pc = "tools" => batch' = batch)
  BY DEF LoopExit, RequestLLM, BatchAborted, BatchAsks, BatchApplied, JobFails, Drained,
     SettleTools, IncrementInner, FinishContinue, StreamFails, StreamText, SendMessageRefused,
     Interrupt, vars, replyVars, Fails, Leave
<1> QED BY <1>1, <1>2, <1>3, <1>4, StillStep

(* Those that add a reply without calls, a nudge, a report or a memory.       *)
LEMMA TalkingActions ==
    ASSUME TypeOK, PhaseInv, ApprovalInv,
           \/ JobReports \/ SettleExit \/ SettleThought \/ SettleTodos \/ SettleComplete
           \/ FinishMessage
    PROVE  ApprovalInv'
<1> DEFINE Plain(block) == /\ block \in Seq(MessageType)
                           /\ \A i \in DOMAIN block : block[i].body # "prompt" /\ ~Good(block[i])
                                 /\ block[i].calls = {} /\ block[i].role # "tool"
<1>1. messages \in Seq(MessageType)
  BY DEF TypeOK, EngineType
<1>2. \A m \in MessageType : m.body # "prompt" /\ ~Good(m) /\ m.calls = {} /\ m.role # "tool" => Plain(<<m>>)
  OBVIOUS
<1>3. Plain(<<>>)
  OBVIOUS
<1>4. Plain(<<Assistant({}), User("nudge")>>)
  <2>1. \A m \in {Assistant({}), User("nudge")} :
          m \in MessageType /\ m.body # "prompt" /\ ~Good(m) /\ m.calls = {} /\ m.role # "tool"
    BY PlainBlocks
  <2> QED BY <2>1
<1> HIDE DEF Plain
<1>5. Plain(<<Assistant({})>>) /\ Plain(<<User("report")>>) /\ Plain(<<Unsaved(User("memory"))>>)
  BY <1>2, PlainBlocks
<1>6. PICK block : Plain(block) /\ messages' = messages \o block
  <2>1. CASE JobReports
    BY <2>1, <1>1, <1>5, AddIsConcat DEF JobReports
  <2>2. CASE SettleExit \/ SettleComplete
    BY <2>2, <1>1, <1>5, AddIsConcat DEF SettleExit, SettleComplete
  <2>3. CASE SettleThought \/ SettleTodos
    BY <2>3, <1>4 DEF SettleThought, SettleTodos
  <2>4. CASE FinishMessage
    BY <2>4, <1>3, <1>5 DEF FinishMessage
  <2> QED BY <2>1, <2>2, <2>3, <2>4
<1>7. UNCHANGED <<question, pendingTools, faults, failures>>
  BY DEF JobReports, SettleExit, SettleThought, SettleTodos, SettleComplete, SettleFrame,
     FinishMessage, envVars
<1>8. due' = due
  BY DEF JobReports, SettleExit, SettleThought, SettleTodos, SettleComplete, SettleFrame,
     FinishMessage, replyVars, ReplyEnds, PhaseInv
<1>9. pc # "tools" /\ pc' # "tools"
  BY DEF JobReports, SettleExit, SettleThought, SettleTodos, SettleComplete, SettleFrame,
     FinishMessage, IncrementInner, Leave
<1>10. /\ block \in Seq(MessageType) /\ NoPrompt(block) /\ NoneGood(block) /\ NoCalls(block)
       /\ \A i \in DOMAIN block : block[i].role # "tool"
  BY <1>6 DEF Plain, NoPrompt, NoneGood, NoCalls
<1> QED BY <1>6, <1>7, <1>8, <1>9, <1>10, PlainExtends
(* The message of the author begins a turn: nothing is open, nothing counts.  *)
LEMMA BeginningAction ==
    ASSUME TypeOK, ResultInv, PhaseInv, ApprovalInv, SendMessage
    PROVE  ApprovalInv'
<1> DEFINE m == User("prompt")
<1>1. messages \in Seq(MessageType) /\ m \in MessageType
  BY PlainBlocks DEF TypeOK, EngineType
<1>2. m.body = "prompt" /\ m.calls = {} /\ m.role # "tool"
  BY PlainBlocks
<1>3. messages' = messages \o <<m>>
  BY <1>1, AddIsConcat DEF SendMessage
<1>4. /\ question = NoCall /\ question' = NoCall /\ pendingTools' = {} /\ due' = {} /\ failures' = 0
      /\ faults' = faults /\ pc' # "tools"
  BY DEF SendMessage, NewTurn, PhaseInv, replyVars, envVars
<1> HIDE DEF m
<1>0. <<m>> \in Seq(MessageType)
  BY <1>1
<1>5. Joins(messages', messages, <<m>>)
  BY <1>0, <1>1, <1>3, ConcatJoins
<1>6. SUFFICES ASSUME faults = 0 PROVE ApprovalInv'
  BY <1>4 DEF ApprovalInv
<1>7. Shape(messages') /\ \A c : ~Issued(messages', c)
  BY <1>2, <1>5, <1>6, PromptBegins DEF ApprovalInv
<1>8. OpenAreUnanswered'
  BY <1>4, <1>7 DEF OpenAreUnanswered
<1>9. Cardinality(BadRun(messages')) \in Nat
  BY <1>5, BadRunIsFinite DEF Joins
<1> QED BY <1>4, <1>7, <1>8, <1>9 DEF ApprovalInv

(* The message of a batch is recorded: its calls are issued for good.         *)
LEMMA RecordingAction ==
    ASSUME TypeOK, ResultInv, PhaseInv, ApprovalInv, ToolsDone
    PROVE  ApprovalInv'
<1> DEFINE m == Assistant(batch)
<1>1. messages \in Seq(MessageType) /\ batch \in SUBSET Calls /\ failures \in Nat
  BY DEF TypeOK, EngineType, ReplyType
<1>2. m \in MessageType /\ m.body # "prompt" /\ ~Good(m) /\ m.calls = batch /\ m.role # "tool"
  BY <1>1, PlainBlocks
<1>3. messages' = messages \o <<m>>
  BY <1>1, AddIsConcat DEF ToolsDone
<1>4. /\ UNCHANGED <<question, pendingTools, due, faults, failures>> /\ pc = "tools" /\ pc' = "apply"
  BY DEF ToolsDone, envVars
<1> HIDE DEF m
<1>0. DOMAIN <<m>> = {1} /\ <<m>>[1] = m /\ <<m>> \in Seq(MessageType)
  BY <1>2
<1>5. Joins(messages', messages, <<m>>) /\ NoPrompt(<<m>>) /\ NoneGood(<<m>>)
  BY <1>0, <1>1, <1>2, <1>3, ConcatJoins DEF NoPrompt, NoneGood
<1>6. SUFFICES ASSUME faults = 0 PROVE ApprovalInv'
  BY <1>4 DEF ApprovalInv
<1>7. Shape(messages')
  BY <1>0, <1>2, <1>5, <1>6, ShapeOfConcat DEF ApprovalInv
<1>8. \A c : HasResult(messages', c) <=> HasResult(messages, c)
  BY <1>0, <1>1, <1>2, <1>3, ResultsOfConcat DEF HasResult
<1>9. \A c : Issued(messages', c) <=> Issued(messages, c) \/ c \in batch
  BY <1>0, <1>2, <1>5, IssuedOfConcat
<1>10. OpenAreUnanswered'
  BY <1>4, <1>6, <1>8, <1>9 DEF ApprovalInv, OpenAreUnanswered
<1>11. question' # NoCall => HasStub(messages', question')
  BY <1>4, <1>5, <1>6 DEF ApprovalInv, HasStub, Joins
<1>12. failures' <= Cardinality(BadRun(messages'))
  <2>1. Cardinality(BadRun(messages')) >= Cardinality(BadRun(messages))
    BY <1>0, <1>1, <1>5, BadRunGrows
  <2>2. Cardinality(BadRun(messages)) \in Nat /\ Cardinality(BadRun(messages')) \in Nat
    BY <1>1, <1>5, BadRunIsFinite DEF Joins
  <2> QED BY <1>1, <1>4, <1>6, <2>1, <2>2 DEF ApprovalInv
<1> QED BY <1>7, <1>10, <1>11, <1>12 DEF ApprovalInv

(* What the result of a call does to the count of failures.                   *)
Counts(body) ==
    \/ body \in {"error", "denied"} /\ (failures' = failures \/ failures' = 1 \/ failures' = failures + 1)
    \/ failures' = 0

(* A result closes its call and no other; an error adds one to the errors     *)
(* that count, anything else begins anew.                                     *)
LEMMA ClosingActions ==
    ASSUME TypeOK, ResultInv, PhaseInv, ApprovalInv, NEW c \in Calls,
           \/ ApplyResult(c) \/ DenyTool(c)
           \/ \E f \in {"ok", "fail", "fork"} : ApproveTool(c, f)
    PROVE  ApprovalInv'
<1>1. messages \in Seq(MessageType) /\ failures \in Nat /\ fate \in [Calls -> Fates]
  BY DEF TypeOK, EngineType, ReplyType
<1>2. /\ c \in due \cup pendingTools
      /\ \A d : d \in due' \cup pendingTools' <=> d \in due \cup pendingTools /\ d # c
  BY DEF ApplyResult, IsNextDue, DenyTool, ApproveTool, replyVars, ResultInv
<1>3. faults' = faults /\ (pc = "tools" <=> pc' = "tools") /\ pc # "tools"
  BY DEF ApplyResult, DenyTool, ApproveTool, ContinueUnlessPaused, ContinueTurn, envVars
<1>4. \E body \in {"ok", "error", "denied", "question"} :
         /\ Add(ToolResult(c, body)) /\ Counts(body)
         /\ question' = question \/ (question' = c /\ body = "question")
  <2>1. CASE ApplyResult(c)
    <3>1. Add(Result(c)) /\ CountResult(c) /\ question' = (IF fate[c] = "question" THEN c ELSE question)
      BY <2>1 DEF ApplyResult
    <3>2. CASE fate[c] = "fail"
      <4>1. Result(c) = ToolResult(c, "error") /\ Counts("error")
        BY <1>1, <3>1, <3>2 DEF Result, CountResult, CountFailure, Counts
      <4> QED BY <3>1, <3>2, <4>1
    <3>3. CASE fate[c] = "deny"
      <4>1. Result(c) = ToolResult(c, "denied") /\ Counts("denied")
        BY <1>1, <3>1, <3>3 DEF Result, CountResult, Counts
      <4> QED BY <3>1, <3>3, <4>1
    <3>4. CASE fate[c] = "question"
      <4>1. Result(c) = ToolResult(c, "question") /\ Counts("question")
        BY <1>1, <3>1, <3>4 DEF Result, CountResult, Counts
      <4> QED BY <3>1, <3>4, <4>1
    <3>5. CASE fate[c] \notin {"fail", "deny", "question"}
      <4>1. Result(c) = ToolResult(c, "ok") /\ Counts("ok")
        BY <1>1, <3>1, <3>5 DEF Result, CountResult, Counts
      <4> QED BY <3>1, <3>5, <4>1
    <3> QED BY <3>2, <3>3, <3>4, <3>5
  <2>2. CASE DenyTool(c)
    <3>1. Add(ToolResult(c, "denied")) /\ Counts("denied") /\ question' = question
      BY <1>1, <2>2 DEF DenyTool, CountFailure, Counts
    <3> QED BY <3>1
  <2>3. ASSUME NEW f \in {"ok", "fail", "fork"}, ApproveTool(c, f)
        PROVE  \E body \in {"ok", "error", "denied", "question"} :
                  /\ Add(ToolResult(c, body)) /\ Counts(body)
                  /\ question' = question \/ (question' = c /\ body = "question")
    <3>1. question' = question
      BY <2>3 DEF ApproveTool
    <3>2. CASE f = "fail"
      <4>1. Add(ToolResult(c, "error")) /\ Counts("error")
        BY <1>1, <2>3, <3>2 DEF ApproveTool, CountFailure, Counts
      <4> QED BY <3>1, <4>1
    <3>3. CASE f # "fail"
      <4>1. Add(ToolResult(c, "ok")) /\ Counts("ok")
        BY <2>3, <3>3 DEF ApproveTool, Counts
      <4> QED BY <3>1, <4>1
    <3> QED BY <3>2, <3>3
  <2> QED BY <2>1, <2>2, <2>3
<1>5. PICK body \in {"ok", "error", "denied", "question"} :
         /\ Add(ToolResult(c, body)) /\ Counts(body)
         /\ question' = question \/ (question' = c /\ body = "question")
  BY <1>4
<1> DEFINE m == ToolResult(c, body)
<1>6. /\ m \in MessageType /\ m.body = body /\ m.body # "prompt" /\ m.calls = {} /\ m.role = "tool"
      /\ m.call = c
  BY PlainBlocks
<1>7. messages' = messages \o <<m>>
  BY <1>1, <1>5, AddIsConcat
<1> HIDE DEF m
<1>8. DOMAIN <<m>> = {1} /\ <<m>>[1] = m /\ <<m>> \in Seq(MessageType)
  BY <1>6
<1>9. Joins(messages', messages, <<m>>) /\ NoPrompt(<<m>>)
  BY <1>1, <1>6, <1>7, <1>8, ConcatJoins DEF NoPrompt
<1>10. SUFFICES ASSUME faults = 0 PROVE ApprovalInv'
  BY <1>3 DEF ApprovalInv
<1>11. Shape(messages')
  BY <1>6, <1>8, <1>9, <1>10, ShapeOfConcat DEF ApprovalInv
<1>12. \A d : HasResult(messages', d) <=> HasResult(messages, d) \/ d = c
  BY ResolvingActions
<1>13. \A d : Issued(messages', d) <=> Issued(messages, d)
  BY <1>6, <1>8, <1>9, IssuedOfConcat
<1>14. OpenAreUnanswered'
  BY <1>2, <1>3, <1>10, <1>12, <1>13 DEF ApprovalInv, OpenAreUnanswered
<1>15. question' # NoCall => HasStub(messages', question')
  <2>1. CASE question' = question
    BY <1>9, <1>10, <2>1 DEF ApprovalInv, HasStub, Joins
  <2>2. CASE question' = c /\ body = "question"
    <3>1. Len(messages) + 1 \in DOMAIN messages' /\ messages'[Len(messages) + 1] = m
      BY <1>8, <1>9 DEF Joins
    <3> QED BY <1>6, <2>2, <3>1 DEF HasStub
  <2> QED BY <1>5, <2>1, <2>2
<1>16. failures' <= Cardinality(BadRun(messages'))
  <2>1. Cardinality(BadRun(messages)) \in Nat /\ Cardinality(BadRun(messages')) \in Nat
    BY <1>1, <1>9, BadRunIsFinite DEF Joins
  <2>2. CASE failures' = 0
    BY <2>1, <2>2
  <2>3. CASE /\ body \in {"error", "denied"}
             /\ failures' = failures \/ failures' = 1 \/ failures' = failures + 1
    <3>1. NoneGood(<<m>>) /\ Bad(<<m>>[1])
      BY <1>6, <1>8, <2>3 DEF NoneGood, Good, Bad
    <3>2. Cardinality(BadRun(messages')) >= Cardinality(BadRun(messages)) + 1
      BY <1>1, <1>8, <1>9, <3>1, BadRunGrows
    <3> QED BY <1>1, <1>10, <2>1, <2>3, <3>2 DEF ApprovalInv
  <2> QED BY <1>5, <2>2, <2>3 DEF Counts
<1> QED BY <1>11, <1>14, <1>15, <1>16 DEF ApprovalInv
(* What an interrupted response leaves: its calls, each with a result.        *)
LEMMA CutBlockMessages ==
    ASSUME nextCall \in 1 .. (MaxCalls + 1), NEW n \in Nat, nextCall + n - 1 <= MaxCalls
    PROVE  LET block == CutBlock(n)
           IN  /\ block \in Seq(MessageType) /\ NoPrompt(block) /\ NoneGood(block)
               /\ \A i \in DOMAIN block : block[i].role = "tool" => block[i].calls = {}
               /\ \A i \in DOMAIN block : block[i].calls \subseteq NewCalls(n)
               /\ \A c \in NewCalls(n) : HasResult(block, c)
<1> DEFINE stubs == [i \in 1 .. n |-> ToolResult(nextCall + i - 1, "interrupted")]
           block == CutBlock(n)
<1>1. block \in Seq(MessageType) /\ Len(block) = n + 1 /\ DOMAIN block = 1 .. (n + 1)
  BY CutBlockType
<1>2. block[1] = Assistant(NewCalls(n)) /\ NewCalls(n) \in SUBSET Calls
  BY NewCallsAreCalls DEF CutBlock
<1>3. \A i \in 2 .. (n + 1) : block[i] = ToolResult(nextCall + i - 2, "interrupted")
  <2> SUFFICES ASSUME NEW i \in 2 .. (n + 1)
               PROVE  block[i] = ToolResult(nextCall + i - 2, "interrupted")
    OBVIOUS
  <2>1. Len(stubs) = n /\ Len(<<Assistant(NewCalls(n))>>) = 1
    OBVIOUS
  <2>2. block[i] = stubs[i - 1]
    BY <2>1 DEF CutBlock
  <2> QED BY <2>2
<1>4. \A i \in 2 .. (n + 1) : nextCall + i - 2 \in Calls
  BY BoundsAssumption DEF Calls
<1> HIDE DEF block
<1>5. \A i \in DOMAIN block :
         \/ /\ block[i].body # "prompt" /\ ~Good(block[i]) /\ block[i].role # "tool"
            /\ block[i].calls = NewCalls(n)
         \/ /\ block[i].body # "prompt" /\ ~Good(block[i]) /\ block[i].role = "tool"
            /\ block[i].calls = {}
  <2> SUFFICES ASSUME NEW i \in DOMAIN block
               PROVE  \/ /\ block[i].body # "prompt" /\ ~Good(block[i]) /\ block[i].role # "tool"
                         /\ block[i].calls = NewCalls(n)
                      \/ /\ block[i].body # "prompt" /\ ~Good(block[i]) /\ block[i].role = "tool"
                         /\ block[i].calls = {}
    OBVIOUS
  <2>1. CASE i = 1
    BY <1>2, <2>1, PlainBlocks
  <2>2. CASE i # 1
    <3>1. i \in 2 .. (n + 1)
      BY <1>1, <2>2
    <3>2. block[i] = ToolResult(nextCall + i - 2, "interrupted") /\ nextCall + i - 2 \in Calls
      BY <1>3, <1>4, <3>1
    <3> QED BY <3>2, PlainBlocks DEF Good
  <2> QED BY <2>1, <2>2
<1>6. \A c \in NewCalls(n) : HasResult(block, c)
  <2> SUFFICES ASSUME NEW c \in NewCalls(n) PROVE HasResult(block, c)
    OBVIOUS
  <2>1. c - nextCall + 2 \in 2 .. (n + 1) /\ nextCall + (c - nextCall + 2) - 2 = c
        /\ c - nextCall + 2 \in 1 .. (n + 1)
    BY DEF NewCalls
  <2>2. block[c - nextCall + 2] = ToolResult(c, "interrupted")
    BY <1>3, <2>1
  <2>3. ToolResult(c, "interrupted").role = "tool" /\ ToolResult(c, "interrupted").call = c
    BY DEF ToolResult, Message
  <2> QED BY <1>1, <2>1, <2>2, <2>3 DEF HasResult
<1> QED BY <1>1, <1>5, <1>6 DEF block, NoPrompt, NoneGood

(* An interrupt opens nothing and closes nothing of before.                   *)
LEMMA CuttingAction ==
    ASSUME TypeOK, ResultInv, PhaseInv, ApprovalInv, NEW n \in 0 .. MaxBatch, StreamCancelled(n)
    PROVE  ApprovalInv'
<1>1. /\ messages \in Seq(MessageType) /\ failures \in Nat /\ n \in Nat
      /\ nextCall \in 1 .. (MaxCalls + 1) /\ nextCall + n - 1 <= MaxCalls
  BY BoundsAssumption DEF TypeOK, EngineType, EnvType, StreamCancelled
<1>2. /\ UNCHANGED <<question, pendingTools, due, faults, failures>> /\ pc = "stream" /\ pc' = "finish"
      /\ due = {} /\ pendingTools = {}
  BY DEF StreamCancelled, Leave, replyVars, PhaseInv
<1>3. messages' = messages \o CutBlock(n) \/ UNCHANGED messages
  BY DEF StreamCancelled
<1>4. CASE UNCHANGED messages
  BY <1>2, <1>4, StillStep
<1>5. CASE messages' = messages \o CutBlock(n)
  <2> DEFINE block == CutBlock(n)
  <2>1. /\ block \in Seq(MessageType) /\ NoPrompt(block) /\ NoneGood(block)
        /\ \A i \in DOMAIN block : block[i].role = "tool" => block[i].calls = {}
        /\ \A i \in DOMAIN block : block[i].calls \subseteq NewCalls(n)
        /\ \A c \in NewCalls(n) : HasResult(block, c)
    BY <1>1, CutBlockMessages
  <2>2. messages' = messages \o block
    BY <1>5
  <2> HIDE DEF block
  <2>3. Joins(messages', messages, block)
    BY <1>1, <2>1, <2>2, ConcatJoins
  <2>4. SUFFICES ASSUME faults = 0 PROVE ApprovalInv'
    BY <1>2 DEF ApprovalInv
  <2>5. Shape(messages')
    BY <2>1, <2>3, <2>4, ShapeOfConcat DEF ApprovalInv
  <2>6. \A c : HasResult(messages', c) <=> HasResult(messages, c) \/ HasResult(block, c)
    BY <1>1, <2>1, <2>2, ResultsOfConcat
  <2>7. \A c : Issued(messages', c) <=> Issued(messages, c) \/ \E i \in DOMAIN block : c \in block[i].calls
    BY <2>1, <2>3, IssuedOfConcat
  <2>8. \A c \in Calls : Issued(messages', c) => HasResult(messages', c)
    <3> SUFFICES ASSUME NEW c \in Calls, Issued(messages', c) PROVE HasResult(messages', c)
      OBVIOUS
    <3>1. CASE Issued(messages, c)
      BY <1>2, <2>4, <2>6, <3>1 DEF ApprovalInv, OpenAreUnanswered
    <3>2. CASE \E i \in DOMAIN block : c \in block[i].calls
      BY <2>1, <2>6, <3>2
    <3> QED BY <2>7, <3>1, <3>2
  <2>9. OpenAreUnanswered'
    BY <1>2, <2>8 DEF OpenAreUnanswered
  <2>10. question' # NoCall => HasStub(messages', question')
    BY <1>2, <2>3, <2>4 DEF ApprovalInv, HasStub, Joins
  <2>11. failures' <= Cardinality(BadRun(messages'))
    <3>1. Cardinality(BadRun(messages')) >= Cardinality(BadRun(messages))
      BY <1>1, <2>1, <2>3, BadRunGrows
    <3>2. Cardinality(BadRun(messages)) \in Nat /\ Cardinality(BadRun(messages')) \in Nat
      BY <1>1, <2>3, BadRunIsFinite DEF Joins
    <3> QED BY <1>1, <1>2, <2>4, <3>1, <3>2 DEF ApprovalInv
  <2> QED BY <2>5, <2>9, <2>10, <2>11 DEF ApprovalInv
<1> QED BY <1>3, <1>4, <1>5

(* The calls of a response are open from the start: due, or up for approval.  *)
LEMMA OpeningAction ==
    ASSUME TypeOK, ResultInv, PhaseInv, ApprovalInv, NEW n \in 1 .. MaxBatch,
           NEW f \in [NewCalls(n) -> Fates], StreamTools(n, f)
    PROVE  ApprovalInv'
<1>1. /\ due = {} /\ pendingTools = {} /\ pc = "stream"
      /\ UNCHANGED <<messages, question, failures, faults>> /\ batch' = NewCalls(n) /\ pc' = "tools"
      /\ due' = { c \in NewCalls(n) : f[c] # "ask" }
      /\ pendingTools' = pendingTools \cup { c \in NewCalls(n) : f[c] = "ask" }
  BY DEF StreamTools, PhaseInv
<1>2. nextCall \in Nat /\ \A c \in NewCalls(n) : c \in 0 .. MaxCalls /\ nextCall <= c
  <2>1. nextCall \in 1 .. (MaxCalls + 1) /\ nextCall + n - 1 <= MaxCalls /\ MaxCalls \in Nat
    BY BoundsAssumption DEF TypeOK, EnvType, StreamTools
  <2> QED BY <2>1 DEF NewCalls
<1>3. \A c \in NewCalls(n) : ~HasResult(messages, c)
  BY <1>2 DEF ResultInv
<1>4. \A c : c \in due' \cup pendingTools' <=> c \in NewCalls(n)
  BY <1>1
<1>5. SUFFICES ASSUME faults = 0 PROVE ApprovalInv'
  BY <1>1 DEF ApprovalInv
<1>6. \A c \in Calls : Issued(messages, c) => HasResult(messages, c)
  BY <1>1, <1>5 DEF ApprovalInv, OpenAreUnanswered
<1>7. OpenAreUnanswered'
  BY <1>1, <1>3, <1>4, <1>6 DEF OpenAreUnanswered
<1> QED BY <1>1, <1>5, <1>7 DEF ApprovalInv

(* The answer replaces the stub, which was no error before and is none after. *)
LEMMA AnsweringKeeps ==
    ASSUME TypeOK, ResultInv, PhaseInv, ApprovalInv, AnswerQuestion
    PROVE  ApprovalInv'
<1>1. messages \in Seq(MessageType) /\ question # NoCall
  BY DEF TypeOK, EngineType, AnswerQuestion
<1>2. /\ UNCHANGED <<pendingTools, due, faults, failures>> /\ pc = "idle" /\ pc' = "loop"
      /\ question' = NoCall
  BY DEF AnswerQuestion, ContinueTurn, replyVars, envVars
<1>3. SUFFICES ASSUME faults = 0 PROVE ApprovalInv'
  BY <1>2 DEF ApprovalInv
<1>4. PICK s \in DOMAIN messages :
         messages[s].role = "tool" /\ messages[s].call = question /\ messages[s].body = "question"
  BY <1>1, <1>3 DEF ApprovalInv, HasStub
<1>5. messages' = [i \in DOMAIN messages |-> Answered(i)]
  BY <1>4 DEF AnswerQuestion, HasResult
<1>6. \A i \in DOMAIN messages : messages[i].role = "tool" /\ messages[i].call = question => i = s
  BY <1>4 DEF ResultInv, OneResult
<1>7. /\ DOMAIN messages' = DOMAIN messages /\ Len(messages') = Len(messages)
      /\ \A i \in DOMAIN messages : i # s => messages'[i] = messages[i]
  BY <1>1, <1>5, <1>6 DEF Answered
<1>8. messages'[s].role = "tool" /\ messages'[s].calls = messages[s].calls /\ messages'[s].body = "answer"
  <2>1. messages[s] \in MessageType
    BY <1>1
  <2> QED BY <1>4, <1>5, <2>1 DEF Answered, MessageType
<1>9. \A i \in DOMAIN messages :
         /\ messages'[i].role = messages[i].role /\ messages'[i].calls = messages[i].calls
         /\ messages'[i].body = "prompt" <=> messages[i].body = "prompt"
         /\ Good(messages'[i]) <=> Good(messages[i])
         /\ Bad(messages'[i]) <=> Bad(messages[i])
  BY <1>4, <1>7, <1>8 DEF Good, Bad
<1>10. DOMAIN messages = 1 .. Len(messages) /\ Len(messages) \in Nat
  BY <1>1
<1>11. Shape(messages')
  <2>1. PICK p \in 0 .. Len(messages) : IsLastPrompt(messages, p)
    BY <1>3 DEF ApprovalInv, Shape
  <2>2. IsLastPrompt(messages', p)
    BY <1>7, <1>9, <1>10, <2>1 DEF IsLastPrompt
  <2> QED BY <1>3, <1>7, <1>9, <2>2 DEF ApprovalInv, Shape
<1>12. \A c : Issued(messages', c) <=> Issued(messages, c)
  BY <1>7, <1>9, <1>10 DEF Issued
<1>13. BadRun(messages') = BadRun(messages)
  BY <1>7, <1>9, <1>10 DEF BadRun
<1>14. \A c : HasResult(messages', c) <=> HasResult(messages, c)
  BY <1>4, AnsweringAction DEF HasResult
<1>15. OpenAreUnanswered'
  BY <1>2, <1>3, <1>12, <1>14 DEF ApprovalInv, OpenAreUnanswered
<1> QED BY <1>2, <1>3, <1>11, <1>13, <1>15 DEF ApprovalInv
(* Every step keeps it; one that has failed to write is excused.              *)
LEMMA ApprovalStep ==
    ASSUME TypeOK, ResultInv, PhaseInv, ApprovalInv, [Next]_vars PROVE ApprovalInv'
<1>1. CASE \/ ContinueFails \/ ToolsDoneFails \/ (\E c \in Calls : ApplyResultFails(c) \/ ResolveFails(c))
           \/ (\E b \in BOOLEAN : DrainFails(b) \/ SettleFails(b)) \/ SendMessageFails
           \/ AnswerQuestionFails \/ (\E n \in 0 .. MaxBatch, k \in 0 .. MaxBatch : StreamCancelFails(n, k))
  <2>1. Fault
    BY <1>1 DEF ContinueFails, ToolsDoneFails, ApplyResultFails, ResolveFails, DrainFails,
       SettleFails, SendMessageFails, StreamCancelFails, AnswerQuestionFails
  <2>2. faults' # 0
    BY <2>1 DEF Fault, TypeOK, EnvType
  <2> QED BY <2>2 DEF ApprovalInv
<1>2. CASE Stream
  BY <1>1, <1>2, StillActions, CuttingAction, OpeningAction DEF Stream
<1>3. CASE EngineStep /\ ~Stream
  BY <1>1, <1>3, StillActions, TalkingActions, RecordingAction, ClosingActions DEF EngineStep
<1>4. CASE Command
  BY <1>1, <1>4, StillActions, BeginningAction, ClosingActions, AnsweringKeeps DEF Command
<1>5. CASE Interrupt \/ UNCHANGED vars
  BY <1>5, StillActions
<1> QED BY <1>2, <1>3, <1>4, <1>5 DEF Next

LEMMA ApprovalsKept == Spec => [](TypeOK /\ PhaseInv /\ ApprovalInv)
<1>1. Init => PhaseInv
  BY DEF Init, PhaseInv
<1>2. Init => ApprovalInv
  <2> SUFFICES ASSUME Init PROVE ApprovalInv
    OBVIOUS
  <2>1. messages = <<>> /\ due = {} /\ pendingTools = {} /\ question = NoCall /\ failures = 0 /\ pc = "idle"
    BY DEF Init
  <2>2. IsLastPrompt(<<>>, 0) /\ 0 \in 0 .. Len(<<>>) /\ DOMAIN <<>> = {}
    BY DEF IsLastPrompt
  <2>3. Shape(<<>>) /\ BadRun(<<>>) = {} /\ \A c : ~Issued(<<>>, c)
    BY <2>2 DEF Shape, BadRun, Issued
  <2>4. Cardinality({}) = 0
    BY FS_EmptySet
  <2>5. OpenAreUnanswered
    BY <2>1, <2>3 DEF OpenAreUnanswered
  <2> QED BY <2>1, <2>3, <2>4, <2>5 DEF ApprovalInv
<1>3. /\ TypeOK /\ ResultInv /\ PhaseInv /\ [Next]_vars => PhaseInv'
      /\ TypeOK /\ ResultInv /\ PhaseInv /\ ApprovalInv /\ [Next]_vars => ApprovalInv'
  BY PhaseStep, ApprovalStep
<1> QED BY <1>1, <1>2, <1>3, TypeCorrect, ResultsKept, PTL DEF Spec

(* The last prompt is found, and the turn is what comes behind it.            *)
LEMMA TurnIsBehindPrompt ==
    ASSUME messages \in Seq(MessageType), Shape(messages)
    PROVE  \A i : i \in (LastPrompt + 1) .. Len(messages) <=>
               i \in DOMAIN messages /\ \A j \in i .. Len(messages) : messages[j].body # "prompt"
<1>1. \E p \in 0 .. Len(messages) : /\ p = 0 \/ messages[p].body = "prompt"
                                  /\ \A i \in (p + 1) .. Len(messages) : messages[i].body # "prompt"
  BY DEF Shape, IsLastPrompt
<1>2. /\ LastPrompt \in 0 .. Len(messages)
      /\ LastPrompt = 0 \/ messages[LastPrompt].body = "prompt"
      /\ \A i \in (LastPrompt + 1) .. Len(messages) : messages[i].body # "prompt"
  BY <1>1 DEF LastPrompt
<1>3. DOMAIN messages = 1 .. Len(messages) /\ Len(messages) \in Nat
  OBVIOUS
<1> DEFINE p == LastPrompt
<1>4. /\ p \in 0 .. Len(messages)
      /\ p = 0 \/ messages[p].body = "prompt"
      /\ \A i \in (p + 1) .. Len(messages) : messages[i].body # "prompt"
  BY <1>2
<1> HIDE DEF p
<1>5. \A i : i \in (p + 1) .. Len(messages) =>
         i \in DOMAIN messages /\ \A j \in i .. Len(messages) : messages[j].body # "prompt"
  BY <1>3, <1>4
<1>6. ASSUME NEW i \in DOMAIN messages, \A j \in i .. Len(messages) : messages[j].body # "prompt"
      PROVE  i \in (p + 1) .. Len(messages)
  <2>1. p \notin i .. Len(messages) \/ p = 0
    BY <1>4, <1>6
  <2> QED BY <1>3, <1>4, <2>1
<1> QED BY <1>5, <1>6 DEF p

(* The approvals that the author is asked for, once a command has ended, are  *)
(* the calls of the turn that have no result, whatever was interrupted,       *)
(* denied or answered before: none is forgotten, none has already run.        *)
THEOREM ApprovalsAreTheOpenCalls == Spec => []ApprovalsMatchOpenCalls
<1>1. TypeOK /\ PhaseInv /\ ApprovalInv => ApprovalsMatchOpenCalls
  <2> SUFFICES ASSUME TypeOK, PhaseInv, ApprovalInv, pc = "idle", faults = 0
               PROVE  pendingTools = { c \in Calls :
                          /\ ~HasResult(messages, c)
                          /\ \E i \in (LastPrompt + 1) .. Len(messages) : c \in messages[i].calls }
    BY DEF ApprovalsMatchOpenCalls
  <2>1. messages \in Seq(MessageType) /\ pendingTools \in SUBSET Calls /\ due = {}
    BY DEF TypeOK, EngineType, PhaseInv
  <2>2. Shape(messages) /\ OpenAreUnanswered
    BY DEF ApprovalInv
  <2>3. \A c : Issued(messages, c) <=> \E i \in (LastPrompt + 1) .. Len(messages) : c \in messages[i].calls
    BY <2>1, <2>2, TurnIsBehindPrompt DEF Issued
  <2>4. \A c \in Calls : c \in pendingTools <=> ~HasResult(messages, c) /\ Issued(messages, c)
    BY <2>1, <2>2 DEF OpenAreUnanswered
  <2> QED BY <2>1, <2>3, <2>4
<1> QED BY <1>1, ApprovalsKept, PTL

(* The failure circuit counts at most the errors of this turn since its last  *)
(* success, so it stops no turn for what failed before.                       *)
THEOREM FailuresAreEarned == Spec => []FailureCountIsEarned
<1>1. TypeOK /\ PhaseInv /\ ApprovalInv => FailureCountIsEarned
  <2> SUFFICES ASSUME TypeOK, PhaseInv, ApprovalInv, faults = 0 PROVE FailureCountIsEarned
    BY DEF FailureCountIsEarned
  <2>1. messages \in Seq(MessageType)
    BY DEF TypeOK, EngineType
  <2>2. Shape(messages) /\ failures <= Cardinality(BadRun(messages))
    BY DEF ApprovalInv
  <2> DEFINE run == { i \in (LastPrompt + 1) .. Len(messages) :
                        /\ messages[i].role = "tool" /\ messages[i].body \in {"error", "denied"}
                        /\ \A j \in i .. Len(messages) : ~(messages[j].body \in {"ok", "question", "answer"}) }
  <2>3. run = BadRun(messages)
    BY <2>1, <2>2, TurnIsBehindPrompt DEF BadRun, Bad, Good
  <2>4. failures <= Cardinality(run)
    BY <2>2, <2>3
  <2> QED BY <2>4 DEF FailureCountIsEarned
<1> QED BY <1>1, ApprovalsKept, PTL

-----------------------------------------------------------------------------
(* The turn engine implements CallLifecycle: the initial states map to its   *)
(* initial state, every step to one of its steps or to none.                  *)

LifeInv == TypeOK /\ ResultInv /\ PhaseInv

(* The calls that run, wait and are asked are those the engine says.          *)
LEMMA StatusSets ==
    ASSUME LifeInv
    PROVE  /\ Lifecycle!Having("running") = due
           /\ Lifecycle!Having("awaiting") = pendingTools
           /\ Lifecycle!Having("asked") = {question} \ {NoCall}
           /\ Lifecycle!Having("unissued") = { c \in Calls : nextCall <= c }
<1>1. /\ nextCall \in Nat /\ question \in 0 .. MaxCalls /\ MaxCalls \in Nat
      /\ due \subseteq Calls /\ pendingTools \subseteq Calls /\ Calls = 1 .. MaxCalls
  BY BoundsAssumption DEF LifeInv, TypeOK, EnvType, ReplyType, EngineType, Calls
<1>2. /\ \A c \in due \cup pendingTools : c < nextCall /\ ~HasResult(messages, c) /\ c # question
      /\ due \cap pendingTools = {} /\ question < nextCall
  BY DEF LifeInv, ResultInv, OpenCalls
<1>3. \A c \in Calls : Status[c] = IF c >= nextCall THEN "unissued"
        ELSE IF c = question THEN "asked"
        ELSE IF HasResult(messages, c) THEN "answered"
        ELSE IF c \in due THEN "running"
        ELSE IF c \in pendingTools THEN "awaiting"
        ELSE "dropped"
  BY DEF Status
<1>4. \A c \in Calls : Status[c] = "running" <=> c \in due
  BY <1>1, <1>2, <1>3
<1>5. \A c \in Calls : Status[c] = "awaiting" <=> c \in pendingTools
  BY <1>1, <1>2, <1>3
<1>6. \A c \in Calls : Status[c] = "asked" <=> c = question
  BY <1>1, <1>2, <1>3
<1>7. \A c \in Calls : Status[c] = "unissued" <=> nextCall <= c
  BY <1>1, <1>3
<1>8. Lifecycle!Having("running") = due
  BY <1>1, <1>4 DEF Lifecycle!Having
<1>9. Lifecycle!Having("awaiting") = pendingTools
  BY <1>1, <1>5 DEF Lifecycle!Having
<1>10. Lifecycle!Having("asked") = {question} \ {NoCall}
  BY <1>1, <1>6 DEF Lifecycle!Having, NoCall
<1>11. Lifecycle!Having("unissued") = { c \in Calls : nextCall <= c }
  BY <1>7 DEF Lifecycle!Having
<1> QED BY <1>8, <1>9, <1>10, <1>11

(* What a call's status is made of.                                           *)
LEMMA StatusOf ==
    /\ \A c \in Calls : Status[c] =
          IF c >= nextCall THEN "unissued"
          ELSE IF c = question THEN "asked"
          ELSE IF HasResult(messages, c) THEN "answered"
          ELSE IF c \in due THEN "running"
          ELSE IF c \in pendingTools THEN "awaiting"
          ELSE "dropped"
    /\ \A c \in Calls : Status'[c] =
          IF c >= nextCall' THEN "unissued"
          ELSE IF c = question' THEN "asked"
          ELSE IF HasResult(messages', c) THEN "answered"
          ELSE IF c \in due' THEN "running"
          ELSE IF c \in pendingTools' THEN "awaiting"
          ELSE "dropped"
BY DEF Status

(* Calls are moved when each call is where it was or where it is moved to.    *)
LEMMA MovesCalls ==
    ASSUME NEW S, NEW s, \A c \in Calls : Status'[c] = IF c \in S THEN s ELSE Status[c]
    PROVE  Lifecycle!Move(S, s)
<1>1. Status' = [c \in Calls |-> Status'[c]]
  BY DEF Status
<1> QED BY <1>1 DEF Lifecycle!Move

(* What the invariants say of numbers and sets.                               *)
LEMMA LifeFacts ==
    ASSUME LifeInv
    PROVE  /\ nextCall \in Nat /\ question \in Nat /\ nextCall > 0
           /\ due \subseteq Calls /\ pendingTools \subseteq Calls
           /\ MaxCalls \in Nat /\ Calls = 1 .. MaxCalls /\ Calls \subseteq 0 .. MaxCalls
           /\ \A c \in due \cup pendingTools :
                 c < nextCall /\ ~HasResult(messages, c) /\ c # question
           /\ due \cap pendingTools = {} /\ question < nextCall
           /\ \A c \in Calls : HasResult(messages, c) => c < nextCall
<1>1. /\ nextCall \in Nat /\ question \in Nat /\ nextCall > 0
      /\ due \subseteq Calls /\ pendingTools \subseteq Calls
      /\ MaxCalls \in Nat /\ Calls = 1 .. MaxCalls /\ Calls \subseteq 0 .. MaxCalls
  BY BoundsAssumption DEF LifeInv, TypeOK, EnvType, ReplyType, EngineType, Calls
<1>2. /\ \A c \in due \cup pendingTools : c < nextCall /\ ~HasResult(messages, c) /\ c # question
      /\ due \cap pendingTools = {} /\ question < nextCall
      /\ \A c \in 0 .. MaxCalls : HasResult(messages, c) => c < nextCall
  BY DEF LifeInv, ResultInv, OpenCalls
<1> QED BY <1>1, <1>2

(* A step that opens, answers and asks nothing is no step of the lifecycle.   *)
LEMMA Stutters ==
    ASSUME LifeInv, UNCHANGED <<nextCall, question, due, pendingTools>>,
           \A c : HasResult(messages', c) <=> HasResult(messages, c)
    PROVE  Status' = Status
BY DEF Status

-----------------------------------------------------------------------------
(* Steps of the engine as steps of the lifecycle. *)

(* A cut or failed response.                                                  *)
LEMMA CutIsCut ==
    ASSUME LifeInv, pc = "stream", NEW n \in Nat, nextCall' = nextCall + n, due' = {},
           UNCHANGED <<question, pendingTools>>,
           \A c : c < nextCall => (HasResult(messages', c) <=> HasResult(messages, c))
    PROVE  Lifecycle!Cut
<1> DEFINE S == { c \in Calls : nextCall <= c /\ c < nextCall' }
           A == { c \in S : HasResult(messages', c) }
<1>1. due = {} /\ pendingTools = {} /\ question = NoCall
  BY DEF LifeInv, PhaseInv
<1>2. /\ Lifecycle!Having("running") \cup Lifecycle!Having("awaiting")
             \cup Lifecycle!Having("asked") = {}
      /\ S \in SUBSET Lifecycle!Having("unissued") /\ A \in SUBSET S
  BY <1>1, StatusSets
<1>3. \A c \in Calls : Status'[c] = IF c \in A THEN "answered"
                                    ELSE IF c \in S THEN "dropped" ELSE Status[c]
  <2> SUFFICES ASSUME NEW c \in Calls
               PROVE  Status'[c] = IF c \in A THEN "answered"
                                   ELSE IF c \in S THEN "dropped" ELSE Status[c]
    OBVIOUS
  <2>0. c \in Nat /\ c > 0 /\ nextCall \in Nat /\ nextCall' \in Nat /\ question' = 0 /\ question = 0
    BY <1>1, LifeFacts DEF NoCall
  <2>1. CASE c < nextCall
    BY <2>0, <2>1, <1>1, StatusOf
  <2>2. CASE nextCall <= c /\ c < nextCall'
    BY <2>0, <2>2, <1>1, StatusOf
  <2>3. CASE nextCall' <= c
    BY <2>0, <2>3, StatusOf
  <2> QED BY <2>0, <2>1, <2>2, <2>3
<1> HIDE DEF S, A
<1>4. Status' = [c \in Calls |-> IF c \in A THEN "answered"
                                 ELSE IF c \in S THEN "dropped" ELSE Status[c]]
  <2>1. Status' = [c \in Calls |-> Status'[c]]
    BY DEF Status
  <2> QED BY <2>1, <1>3
<1> QED BY <1>2, <1>4 DEF Lifecycle!Cut

(* A response with tool calls.                                                *)
LEMMA ToolsAreIssued ==
    ASSUME LifeInv, NEW n \in 1 .. MaxBatch, NEW f \in [NewCalls(n) -> Fates], StreamTools(n, f)
    PROVE  Lifecycle!Issue
<1> DEFINE S == NewCalls(n)
           A == { c \in NewCalls(n) : f[c] = "ask" }
<1>1. due = {} /\ pendingTools = {} /\ question = NoCall
  BY DEF LifeInv, PhaseInv, StreamTools
<1>2. /\ nextCall + n - 1 <= MaxCalls /\ nextCall' = nextCall + n
      /\ due' = { c \in NewCalls(n) : f[c] # "ask" }
      /\ pendingTools' = pendingTools \cup A
      /\ question' = question /\ messages' = messages
  BY DEF StreamTools
<1>3. \A c \in Calls : c \in S <=> nextCall <= c /\ c < nextCall'
  BY <1>2, LifeFacts DEF NewCalls
<1>4. S \subseteq Calls
  BY <1>2, LifeFacts DEF NewCalls
<1>5. /\ Lifecycle!Having("running") \cup Lifecycle!Having("awaiting")
             \cup Lifecycle!Having("asked") = {}
      /\ S \in SUBSET Lifecycle!Having("unissued") /\ A \in SUBSET S
  BY <1>1, <1>3, <1>4, StatusSets
<1>6. \A c \in Calls : Status'[c] = IF c \in A THEN "awaiting"
                                    ELSE IF c \in S THEN "running" ELSE Status[c]
  <2> SUFFICES ASSUME NEW c \in Calls
               PROVE  Status'[c] = IF c \in A THEN "awaiting"
                                   ELSE IF c \in S THEN "running" ELSE Status[c]
    OBVIOUS
  <2>0. /\ c \in Nat /\ c > 0 /\ nextCall \in Nat /\ nextCall' \in Nat
        /\ question' = 0 /\ question = 0
    BY <1>1, <1>2, LifeFacts DEF NoCall
  <2>1. CASE c < nextCall
    BY <2>0, <2>1, <1>1, <1>2, <1>3, StatusOf
  <2>2. CASE c \in S
    <3>1. ~HasResult(messages', c) /\ c < nextCall'
      BY <2>0, <2>2, <1>2, <1>3, LifeFacts
    <3> QED BY <2>0, <2>2, <3>1, <1>1, <1>2, StatusOf
  <2>3. CASE nextCall' <= c
    BY <2>0, <2>3, <1>2, <1>3, StatusOf
  <2> QED BY <2>0, <2>1, <2>2, <2>3, <1>3
<1> HIDE DEF S, A
<1>7. Status' = [c \in Calls |-> IF c \in A THEN "awaiting"
                                 ELSE IF c \in S THEN "running" ELSE Status[c]]
  <2>1. Status' = [c \in Calls |-> Status'[c]]
    BY DEF Status
  <2> QED BY <2>1, <1>6
<1> QED BY <1>5, <1>7 DEF Lifecycle!Issue

(* A result of the batch is recorded.                                         *)
LEMMA ApplyFinishes ==
    ASSUME LifeInv, NEW c \in Calls, ApplyResult(c)
    PROVE  Lifecycle!Finish(c)
<1>1. /\ c \in due /\ due' = due \ {c} /\ UNCHANGED <<pendingTools, nextCall>>
      /\ question' = IF fate[c] = "question" THEN c ELSE question
      /\ pc = "apply"
  BY DEF ApplyResult, IsNextDue, envVars
<1>2. \A d : HasResult(messages', d) <=> HasResult(messages, d) \/ d = c
  BY ResolvingActions DEF LifeInv
<1>3. Status[c] = "running"
  BY <1>1, StatusSets DEF Lifecycle!Having
<1>4. question # NoCall => HasResult(messages, question)
  BY <1>1 DEF LifeInv, PhaseInv
<1>5. CASE fate[c] # "question"
  <2>1. \A d \in Calls : Status'[d] = IF d \in {c} THEN "answered" ELSE Status[d]
    BY <1>1, <1>2, <1>5, LifeFacts, StatusOf
  <2> QED BY <1>3, <2>1, MovesCalls DEF Lifecycle!Finish
<1>6. CASE fate[c] = "question"
  <2>1. \A d \in Calls : Status'[d] = IF d = c THEN "asked"
                                      ELSE IF Status[d] = "asked" THEN "answered" ELSE Status[d]
    <3> SUFFICES ASSUME NEW d \in Calls
                 PROVE  Status'[d] = IF d = c THEN "asked"
                                     ELSE IF Status[d] = "asked" THEN "answered" ELSE Status[d]
      OBVIOUS
    <3>1. CASE d = c
      BY <3>1, <1>1, <1>6, LifeFacts, StatusOf
    <3>2. CASE d # c /\ d = question
      <4>1. HasResult(messages, d)
        BY <3>2, <1>4, LifeFacts DEF NoCall
      <4> QED BY <3>2, <4>1, <1>1, <1>2, <1>6, LifeFacts, StatusOf
    <3>3. CASE d # c /\ d # question
      BY <3>3, <1>1, <1>2, <1>6, LifeFacts, StatusOf
    <3> QED BY <3>1, <3>2, <3>3
  <2>2. Status' = [d \in Calls |-> Status'[d]]
    BY DEF Status
  <2> QED BY <1>3, <2>1, <2>2 DEF Lifecycle!Finish
<1> QED BY <1>5, <1>6

(* A batch ends with a write that fails.                                      *)
LEMMA FailureLoses ==
    ASSUME LifeInv, ToolsDoneFails \/ \E c \in Calls : ApplyResultFails(c)
    PROVE  Lifecycle!Lose
<1>1. /\ due' = {} /\ UNCHANGED <<pendingTools, nextCall, messages>>
  BY DEF ToolsDoneFails, ApplyResultFails, Fails, ReplyEnds
<1>2. Lifecycle!Having("running") = due
  BY StatusSets
<1>3. CASE question' = question
  <2>1. \A d \in Calls : Status'[d] = IF d \in due THEN "dropped" ELSE Status[d]
    BY <1>1, <1>3, LifeFacts, StatusOf
  <2> QED BY <1>2, <2>1, MovesCalls DEF Lifecycle!Lose
<1>4. CASE question' # question
  <2>1. PICK c \in Calls : ApplyResultFails(c)
    BY <1>4 DEF ToolsDoneFails
  <2>2. question' = c /\ c \in due /\ pc = "apply"
    BY <1>4, <2>1 DEF ApplyResultFails, IsNextDue
  <2>3. question # NoCall => HasResult(messages, question)
    BY <2>2 DEF LifeInv, PhaseInv
  <2>4. \A d \in Calls : Status'[d] = IF d = c THEN "asked"
                                      ELSE IF Status[d] = "running" THEN "dropped"
                                      ELSE IF Status[d] = "asked" THEN "answered" ELSE Status[d]
    <3> SUFFICES ASSUME NEW d \in Calls
                 PROVE  Status'[d] = IF d = c THEN "asked"
                                     ELSE IF Status[d] = "running" THEN "dropped"
                                     ELSE IF Status[d] = "asked" THEN "answered" ELSE Status[d]
      OBVIOUS
    <3>1. CASE d = c
      BY <3>1, <1>1, <2>2, LifeFacts, StatusOf
    <3>2. CASE d # c /\ d = question
      <4>1. HasResult(messages, d)
        BY <3>2, <2>3, LifeFacts DEF NoCall
      <4> QED BY <3>2, <4>1, <1>1, <2>2, LifeFacts, StatusOf
    <3>3. CASE d # c /\ d # question
      BY <3>3, <1>1, <2>2, LifeFacts, StatusOf
    <3> QED BY <3>1, <3>2, <3>3
  <2>5. Status' = [d \in Calls |-> Status'[d]]
    BY DEF Status
  <2> QED BY <1>2, <2>2, <2>4, <2>5 DEF Lifecycle!Lose
<1> QED BY <1>3, <1>4

(* Nothing runs while the engine is idle.                                     *)
LEMMA IdleRunsNothing ==
    ASSUME LifeInv, pc = "idle" PROVE due = {} /\ Lifecycle!Having("running") = {}
BY StatusSets DEF LifeInv, PhaseInv

(* An approval is resolved.                                                   *)
LEMMA ApprovalIsResolved ==
    ASSUME LifeInv, NEW c \in Calls,
           \/ DenyTool(c) \/ ResolveFails(c)
           \/ \E f \in {"ok", "fail", "fork"} : ApproveTool(c, f)
    PROVE  Lifecycle!Resolve(c)
<1>1. /\ c \in pendingTools /\ pendingTools' = pendingTools \ {c} /\ pc = "idle"
      /\ UNCHANGED <<due, nextCall, question>>
  BY DEF DenyTool, ResolveFails, ApproveTool, replyVars, envVars
<1>2. due = {} /\ Lifecycle!Having("running") = {}
  BY <1>1, IdleRunsNothing
<1>3. Status[c] = "awaiting"
  BY <1>1, StatusSets DEF Lifecycle!Having
<1>4. \E s \in {"answered", "dropped"} : Lifecycle!Move({c}, s)
  <2>1. CASE ResolveFails(c)
    <3>1. UNCHANGED messages
      BY <2>1 DEF ResolveFails
    <3>2. \A d \in Calls : Status'[d] = IF d \in {c} THEN "dropped" ELSE Status[d]
      BY <1>1, <1>2, <3>1, LifeFacts, StatusOf
    <3> QED BY <3>2, MovesCalls
  <2>2. CASE ~ResolveFails(c)
    <3>1. \A d : HasResult(messages', d) <=> HasResult(messages, d) \/ d = c
      BY <2>2, ResolvingActions DEF LifeInv
    <3>2. \A d \in Calls : Status'[d] = IF d \in {c} THEN "answered" ELSE Status[d]
      BY <1>1, <1>2, <3>1, LifeFacts, StatusOf
    <3> QED BY <3>2, MovesCalls
  <2> QED BY <2>1, <2>2
<1> QED BY <1>2, <1>3, <1>4 DEF Lifecycle!Resolve

(* The question is answered, or its answer is lost.                            *)
LEMMA AnswerAnswers ==
    ASSUME LifeInv, AnswerQuestion \/ AnswerQuestionFails PROVE Lifecycle!Answer
<1>1. /\ pc = "idle" /\ question # 0 /\ question' = 0
      /\ UNCHANGED <<due, nextCall, pendingTools>>
  BY DEF AnswerQuestion, AnswerQuestionFails, replyVars, envVars, NoCall
<1>2. due = {} /\ Lifecycle!Having("running") = {}
  BY <1>1, IdleRunsNothing
<1>3. Lifecycle!Having("asked") = {question}
  BY <1>1, StatusSets DEF NoCall
<1>4. \E s \in {"answered", "dropped"} : Lifecycle!Move({question}, s)
  <2>1. CASE AnswerQuestion
    <3>1. \A d : HasResult(messages', d) <=> HasResult(messages, d) \/ d = question
      BY <2>1, AnsweringAction DEF LifeInv
    <3>2. \A d \in Calls : Status'[d] = IF d \in {question} THEN "answered" ELSE Status[d]
      BY <1>1, <1>2, <3>1, LifeFacts, StatusOf
    <3> QED BY <3>2, MovesCalls
  <2>2. CASE AnswerQuestionFails
    <3>1. UNCHANGED messages /\ ~HasResult(messages, question)
      BY <2>2 DEF AnswerQuestionFails
    <3>2. question \notin pendingTools
      BY LifeFacts
    <3>3. \A d \in Calls : Status'[d] = IF d \in {question} THEN "dropped" ELSE Status[d]
      BY <1>1, <1>2, <3>1, <3>2, LifeFacts, StatusOf
    <3> QED BY <3>3, MovesCalls
  <2> QED BY <2>1, <2>2
<1> QED BY <1>2, <1>3, <1>4 DEF Lifecycle!Answer

(* The author goes on: what was not approved is dropped.                      *)
LEMMA MessageAbandons ==
    ASSUME LifeInv, SendMessage \/ SendMessageFails PROVE Lifecycle!Abandon
<1>1. /\ pc = "idle" /\ question = NoCall /\ pendingTools' = {}
      /\ UNCHANGED <<due, nextCall, question>>
  BY DEF SendMessage, SendMessageFails, NewTurn, replyVars, envVars
<1>2. due = {} /\ Lifecycle!Having("running") = {}
  BY <1>1, IdleRunsNothing
<1>3. Lifecycle!Having("asked") = {} /\ Lifecycle!Having("awaiting") = pendingTools
  BY <1>1, StatusSets
<1>4. \A d : HasResult(messages', d) <=> HasResult(messages, d)
  BY PlainActions DEF LifeInv
<1>5. \A d \in Calls : Status'[d] = IF d \in pendingTools THEN "dropped" ELSE Status[d]
  BY <1>1, <1>2, <1>4, LifeFacts, StatusOf
<1> QED BY <1>2, <1>3, <1>5, MovesCalls DEF Lifecycle!Abandon

(* The steps that are none of the lifecycle's.                                *)
LEMMA QuietActions ==
    ASSUME LifeInv,
           \/ ContinueFails \/ LoopExit \/ RequestLLM \/ BatchAborted \/ BatchAsks \/ BatchApplied
           \/ JobFails \/ Drained \/ SettleTools \/ FinishContinue
           \/ \E kind \in {"text", "thought"} : StreamText(kind)
           \/ SendMessageRefused \/ Interrupt \/ UNCHANGED vars
           \/ ToolsDone \/ JobReports \/ SettleExit \/ SettleThought \/ SettleTodos
           \/ SettleComplete \/ FinishMessage
           \/ \E b \in BOOLEAN : DrainFails(b) \/ SettleFails(b)
    PROVE  Status' = Status
<1>1. UNCHANGED <<nextCall, question, pendingTools>>
  BY DEF ContinueFails, LoopExit, RequestLLM, BatchAborted, BatchAsks, BatchApplied, JobFails,
     Drained, SettleTools, FinishContinue, StreamText, SendMessageRefused, Interrupt, vars,
     ToolsDone, JobReports, SettleExit, SettleThought, SettleTodos, SettleComplete, SettleFrame,
     FinishMessage, DrainFails, SettleFails, envVars, engineVars
<1>2. due' = due
  <2>1. CASE due' = {} /\ (pc \in {"loop", "drain", "settle"} \/ due = {})
    BY <2>1 DEF LifeInv, PhaseInv
  <2>2. due' = due \/ (due' = {} /\ (pc \in {"loop", "drain", "settle"} \/ due = {}))
    BY DEF ContinueFails, LoopExit, RequestLLM, BatchAborted, BatchAsks, BatchApplied, JobFails,
       Drained, SettleTools, FinishContinue, StreamText, SendMessageRefused, Interrupt, vars,
       ToolsDone, JobReports, SettleExit, SettleThought, SettleTodos, SettleComplete, SettleFrame,
       FinishMessage, DrainFails, SettleFails, replyVars, Fails, ReplyEnds
  <2> QED BY <2>1, <2>2
<1>3. \A c : HasResult(messages', c) <=> HasResult(messages, c)
  <2>1. CASE UNCHANGED messages
    BY <2>1
  <2>2. CASE \/ ToolsDone \/ JobReports \/ SettleExit \/ SettleThought \/ SettleTodos
             \/ SettleComplete \/ FinishMessage
             \/ \E b \in BOOLEAN : DrainFails(b) \/ SettleFails(b)
    BY <2>2, PlainActions DEF LifeInv
  <2>3. CASE \/ ContinueFails \/ LoopExit \/ RequestLLM \/ BatchAborted \/ BatchAsks
             \/ BatchApplied \/ JobFails \/ Drained \/ SettleTools \/ FinishContinue
             \/ \E kind \in {"text", "thought"} : StreamText(kind)
             \/ SendMessageRefused \/ Interrupt \/ UNCHANGED vars
    BY <2>1, <2>3 DEF ContinueFails, LoopExit, RequestLLM, BatchAborted, BatchAsks, BatchApplied,
       JobFails, Drained, SettleTools, FinishContinue, StreamText, SendMessageRefused, Interrupt,
       vars, engineVars
  <2> QED BY <2>2, <2>3
<1> QED BY <1>1, <1>2, <1>3, Stutters

(* A response that is cut or fails.                                           *)
LEMMA CutActionsCut ==
    ASSUME LifeInv,
           \/ \E n \in 0 .. MaxBatch : StreamCancelled(n)
           \/ \E n \in 0 .. MaxBatch, k \in 0 .. MaxBatch : StreamCancelFails(n, k)
           \/ \E forked \in 0 .. 1 : StreamFails(forked)
    PROVE  Lifecycle!Cut
<1>1. pc = "stream" /\ due = {}
  BY DEF StreamCancelled, StreamCancelFails, StreamFails, LifeInv, PhaseInv
<1>2. CASE \E n \in 0 .. MaxBatch :
              StreamCancelled(n) \/ \E k \in 0 .. MaxBatch : StreamCancelFails(n, k)
  <2>1. PICK n \in 0 .. MaxBatch :
              StreamCancelled(n) \/ \E k \in 0 .. MaxBatch : StreamCancelFails(n, k)
    BY <1>2
  <2>2. \A c : c < nextCall => (HasResult(messages', c) <=> HasResult(messages, c))
    BY <2>1, CutActions DEF LifeInv
  <2>3. /\ nextCall' = nextCall + n /\ due' = {} /\ n \in Nat
        /\ UNCHANGED <<question, pendingTools>>
    BY <1>1, <2>1, BoundsAssumption DEF StreamCancelled, StreamCancelFails, Fails, ReplyEnds, replyVars
  <2> QED BY <1>1, <2>2, <2>3, CutIsCut
<1>3. CASE \E forked \in 0 .. 1 : StreamFails(forked)
  <2>1. PICK forked \in 0 .. 1 : StreamFails(forked)
    BY <1>3
  <2>2. /\ nextCall' = nextCall + forked /\ due' = {} /\ forked \in Nat
        /\ UNCHANGED <<question, pendingTools>>
        /\ \A c : HasResult(messages', c) <=> HasResult(messages, c)
    BY <2>1 DEF StreamFails, Fails, ReplyEnds
  <2> QED BY <1>1, <2>2, CutIsCut
<1> QED BY <1>2, <1>3

-----------------------------------------------------------------------------
(* Each tool call goes the way CallLifecycle allows, whatever the author does *)
(* and whatever fails: issued once, run or put up for approval, answered or   *)
(* dropped, and then left alone.                                              *)
THEOREM EngineImplementsLifecycle == Spec => CallsKeepTheirLifecycle
<1>1. Init => Lifecycle!Init
  <2> SUFFICES ASSUME Init PROVE Lifecycle!Init
    OBVIOUS
  <2>1. \A c \in Calls : c >= nextCall
    BY DEF Init, Calls
  <2> QED BY <2>1 DEF Status, Lifecycle!Init
<1>2. Init => PhaseInv
  BY DEF Init, PhaseInv, NoCall
<1>3. TypeOK /\ PhaseInv /\ [Next]_vars => PhaseInv'
  BY PhaseStep
<1>4. LifeInv /\ [Next]_vars => [Lifecycle!Next]_Status
  <2> SUFFICES ASSUME LifeInv, [Next]_vars PROVE Lifecycle!Next \/ Status' = Status
    OBVIOUS
  <2>1. CASE Stream
    <3>1. (\E n \in 1 .. MaxBatch : \E f \in [NewCalls(n) -> Fates] : StreamTools(n, f))
             => Lifecycle!Issue
      BY ToolsAreIssued
    <3>2. (\E kind \in {"text", "thought"} : StreamText(kind)) => Status' = Status
      BY QuietActions
    <3> QED BY <2>1, <3>1, <3>2, CutActionsCut DEF Stream, Lifecycle!Next
  <2>2. CASE \E c \in Calls : ApplyResult(c)
    BY <2>2, ApplyFinishes DEF Lifecycle!Next
  <2>3. CASE ToolsDoneFails \/ \E c \in Calls : ApplyResultFails(c)
    BY <2>3, FailureLoses DEF Lifecycle!Next
  <2>4. CASE EngineStep /\ ~Stream /\ ~(\E c \in Calls : ApplyResult(c))
             /\ ~(ToolsDoneFails \/ \E c \in Calls : ApplyResultFails(c))
    BY <2>4, QuietActions DEF EngineStep
  <2>5. CASE Command
    <3>1. CASE SendMessage \/ SendMessageFails
      BY <3>1, MessageAbandons DEF Lifecycle!Next
    <3>2. CASE SendMessageRefused
      BY <3>2, QuietActions
    <3>3. CASE \E c \in Calls : \/ DenyTool(c) \/ ResolveFails(c)
                              \/ \E f \in {"ok", "fail", "fork"} : ApproveTool(c, f)
      BY <3>3, ApprovalIsResolved DEF Lifecycle!Next
    <3>4. CASE AnswerQuestion \/ AnswerQuestionFails
      BY <3>4, AnswerAnswers DEF Lifecycle!Next
    <3> QED BY <2>5, <3>1, <3>2, <3>3, <3>4 DEF Command
  <2>6. CASE Interrupt \/ UNCHANGED vars
    BY <2>6, QuietActions
  <2> QED BY <2>1, <2>2, <2>3, <2>4, <2>5, <2>6 DEF Next
<1> QED BY <1>1, <1>2, <1>3, <1>4, TypeCorrect, ResultsKept, PTL
    DEF Spec, LifeInv, CallsKeepTheirLifecycle, Lifecycle!Spec
=============================================================================
