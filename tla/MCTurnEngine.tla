---------------------------- MODULE MCTurnEngine ----------------------------
(* The turn engine by itself, and against CallLifecycle: where a call stands  *)
(* is read off the engine's state.  The settings are cut to the smallest with *)
(* every behaviour: one or two LLM responses per command, a failure circuit   *)
(* of two, one todo prompt; two calls are one batch, or two of one.           *)
EXTENDS TurnEngine

Status ==
    [c \in Calls |->
        IF c >= nextCall THEN "unissued"
        ELSE IF c = question THEN "asked"
        ELSE IF HasResult(messages, c) THEN "answered"
        ELSE IF c \in due THEN "running"
        ELSE IF c \in pendingTools THEN "awaiting"
        ELSE "dropped"]

Lifecycle == INSTANCE CallLifecycle WITH status <- Status

(* Every step of the engine is, for its tool calls, a step of CallLifecycle   *)
(* or none: a call is issued once, answered once and, once answered or        *)
(* dropped, left alone, whatever interrupts and failed writes come between.   *)
CallsKeepTheirLifecycle == Lifecycle!Spec
=============================================================================
