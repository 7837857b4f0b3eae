----------------------------- MODULE Transcript -----------------------------
(***************************************************************************)
(* The transcript of the desktop UI: the events that change it, each a     *)
(* function from transcript to transcript (ui/src/transcript/machine.ts,   *)
(* merge.ts, liveTail.ts, selectors.ts).                                   *)
(*                                                                         *)
(* A transcript is a record: its phase, the turns it shows and the open    *)
(* segment.  A turn is either live (number 0: pushed by BEGIN_TURN, filled *)
(* by events) or a copy of a stored turn.  Of a turn we keep the message   *)
(* it answers, the pieces of text committed to it and the state of its     *)
(* call; a turn makes at most one call.  Segments, thinking blocks, the    *)
(* arguments of a call and the archive epochs are left out.                *)
(***************************************************************************)
EXTENDS Integers, Sequences, FiniteSets, SequencesExt

CONSTANT None                    \* no message, no open segment, no call

\* The phases in which events of a turn are applied at all.
Listening == {"segmentStreaming", "segmentCommitted"}

NoTranscript == [phase |-> "idle", turns |-> <<>>, open |-> None]

EmptySegment == [text |-> <<>>, call |-> None]

LiveTurn(session, message) ==
    [session |-> session, message |-> message, number |-> 0,
     segments |-> FALSE, text |-> <<>>, call |-> None]

IsLive(turn) == turn.number = 0

Live(turns) == SelectSeq(turns, IsLive)
WithoutLive(turns) == SelectSeq(turns, LAMBDA turn : turn.number # 0)

Numbered(turns) == {n \in 1..Len(turns) : turns[n].number > 0}

\* The turn that events are applied to: the last live one, else the last.
Current(turns) ==
    LET live == {n \in 1..Len(turns) : IsLive(turns[n])}
    IN  IF live # {} THEN CHOOSE n \in live : \A o \in live : o <= n
        ELSE Len(turns)

\* Mutant: the open segment takes the place of the text of the segments
\* before it.
Committed_Over(t) ==
    IF t.open = None \/ t.turns = <<>> THEN t
    ELSE [t EXCEPT
            !.turns[Current(t.turns)].segments = TRUE,
            !.turns[Current(t.turns)].text = t.open.text,
            !.turns[Current(t.turns)].call =
                IF t.open.call = None THEN @ ELSE t.open.call,
            !.open = None]

\* The open segment joins the current turn; without a turn it stays open.
Committed(t) ==
    IF t.open = None \/ t.turns = <<>> THEN t
    ELSE [t EXCEPT
            !.turns[Current(t.turns)].segments = TRUE,
            !.turns[Current(t.turns)].text = @ \o t.open.text,
            !.turns[Current(t.turns)].call =
                IF t.open.call = None THEN @ ELSE t.open.call,
            !.open = None]

Opened(t) == IF t.open = None THEN [t EXCEPT !.open = EmptySegment] ELSE t

BeginTurn(t, session, message) ==
    LET kept == IF Numbered(t.turns) # {} THEN WithoutLive(t.turns) ELSE t.turns
    IN  [phase |-> "segmentStreaming",
         turns |-> Append(kept, LiveTurn(session, message)),
         open |-> EmptySegment]

StreamChunk(t, piece) ==
    IF t.phase \notin Listening THEN t
    ELSE [Opened(t) EXCEPT !.phase = "segmentStreaming",
                           !.open.text = Append(@, piece)]

SegmentComplete(t) ==
    IF t.phase \notin Listening THEN t
    ELSE [Committed(t) EXCEPT !.phase = "segmentCommitted"]

AskUserQuestion(t) ==
    IF t.phase \notin Listening THEN t
    ELSE [Committed(t) EXCEPT !.phase = "pausedForQuestion"]

AnswerQuestion(t) ==
    IF t.phase # "pausedForQuestion" THEN t
    ELSE [t EXCEPT !.phase = "segmentCommitted"]

\* TURN_COMPLETE and INTERRUPT do the same.
EndTurn(t) == [Committed(t) EXCEPT !.phase = "idle", !.open = None]

-----------------------------------------------------------------------------
(* Calls.  A call is a record of the message whose turn makes it and its   *)
(* state: args, pending, running, done or denied.                          *)

HoldsCall(place, message) == place.call # None /\ place.call.of = message

\* Where the call is: 0 for the open segment, -1 for nowhere.
CallPlace(t, message) ==
    LET at == {n \in 1..Len(t.turns) : HoldsCall(t.turns[n], message)}
    IN  IF t.open # None /\ HoldsCall(t.open, message) THEN 0
        ELSE IF at = {} THEN -1
        ELSE CHOOSE n \in at : \A o \in at : o <= n

PutCall(t, place, message, state) ==
    IF place = 0 THEN [t EXCEPT !.open.call = [of |-> message, is |-> state]]
    ELSE [t EXCEPT !.turns[place].call = [of |-> message, is |-> state]]

CallAt(t, place) == IF place = 0 THEN t.open.call ELSE t.turns[place].call

ToolStart(t, message) ==
    IF t.phase \notin Listening \/ CallPlace(t, message) # -1 THEN t
    ELSE PutCall([Opened(t) EXCEPT !.phase = "segmentStreaming"], 0, message, "args")

\* A call that has its result, or was refused, keeps that state.
ToolInputComplete(t, message, approval) ==
    LET found  == CallPlace(t, message)
        opened == IF found = -1 THEN [Opened(t) EXCEPT !.phase = "segmentStreaming"] ELSE t
        place  == IF found = -1 THEN 0 ELSE found
        old    == CallAt(opened, place)
    IN  IF t.phase \notin Listening THEN t
        ELSE IF old # None /\ old.is \in {"done", "denied"} THEN opened
        ELSE PutCall(opened, place, message, IF approval THEN "pending" ELSE "running")

\* A result without a call joins the current turn when no segment is open.
ToolResult(t, message) ==
    LET found == CallPlace(t, message)
        place == IF found = -1 /\ t.open = None /\ t.turns # <<>>
                    /\ t.turns[Current(t.turns)].segments
                 THEN Current(t.turns) ELSE found
    IN  IF t.phase \notin Listening \/ place = -1 THEN t
        ELSE PutCall(t, place, message, "done")

PatchTool(t, message, state) ==
    IF t.phase = "idle" \/ CallPlace(t, message) = -1 THEN t
    ELSE PutCall(t, CallPlace(t, message), message, state)

HasPendingApproval(t) ==
    LET Pending(place) == place.call # None /\ place.call.is = "pending"
    IN  \/ t.open # None /\ Pending(t.open)
        \/ \E n \in 1..Len(t.turns) : Pending(t.turns[n])

-----------------------------------------------------------------------------
(* Stored turns.                                                           *)

\* Live turns that a stored copy supersedes: all of them at rest, all but
\* the last while a turn runs.
ReconcileLive(turns, phase) ==
    LET live == Live(turns)
        last == Len(live)
    IN  IF live = <<>> THEN turns
        ELSE IF phase = "idle" /\ Numbered(turns) # {} THEN WithoutLive(turns)
        ELSE SelectSeq(turns, LAMBDA turn : ~IsLive(turn) \/ turn = live[last])

\* A turn of the same number is replaced, live turns are last.
MergeTurns(t, bundles) ==
    LET numbers == {bundles[n].number : n \in 1..Len(bundles)}
        old     == SelectSeq(WithoutLive(t.turns), LAMBDA turn : turn.number \notin numbers)
        sorted  == SortSeq(old \o bundles, LAMBDA a, b : a.number < b.number)
    IN  IF bundles = <<>> THEN [t EXCEPT !.turns = ReconcileLive(@, t.phase)]
        ELSE [t EXCEPT !.turns = ReconcileLive(sorted \o Live(t.turns), t.phase)]

EvictTurns(t, numbers) ==
    [t EXCEPT !.turns = SelectSeq(@, LAMBDA turn : turn.number \notin numbers)]

LiveTurnShown(t) == Live(t.turns) # <<>>
=============================================================================
