--------------------------- MODULE AssembleContext ---------------------------
(***************************************************************************)
(* assemble_context: one tool call that makes many requests, one after the *)
(* other: the threads, the frames of each, their scopes, the variables of  *)
(* each scope and the children of each variable.  Every request passes the *)
(* gate on its own, and one that fails is left out of the result.          *)
(* Meanwhile another client may resume the program, which may stop again:  *)
(* the parts before and after are then of different stops.                 *)
(*                                                                         *)
(* A request is named by its path: <<>> asks for the threads, <<t>> for    *)
(* the frames of thread t, <<t, f>> for its scopes, <<t, f, s>> for their  *)
(* variables, <<t, f, s, v>> for the children of one.                      *)
(***************************************************************************)
EXTENDS Naturals, Sequences, FiniteSetsExt

CONSTANTS
  Width,         \* how many threads, frames per thread, scopes per frame, variables per
                 \* scope the program has
  Expandable,    \* the scopes and variables with a reference, by position
  FrameLimits,   \* values of max_frames
  Depths,        \* values of max_depth
  MaxFailures,   \* bound: requests the adapter refuses
  MaxStops       \* bound: stops of the program

VARIABLES
  ctxLimits,     \* the parameters thread_id (0 for none), max_frames, max_depth
  ctxState,      \* the session's state: "Halted" or "Running"
  ctxStops,      \* how often the program has stopped
  ctxTodo,       \* the requests still to be made, in the order of the nested loops
  ctxStep,       \* the first of them: "gate", "wait" for the answer, or "cache" it
  ctxAsOf,       \* the stop the answer to be cached is of
  ctxCached,     \* the variable cache: scopes, and the stop their variables are of
  ctxGot,        \* the requests answered: the parts of the result
  ctxFailed,     \* history: requests that failed
  ctxOutcome     \* "running", "done" or "error"

ctxVars == <<ctxLimits, ctxState, ctxStops, ctxTodo, ctxStep, ctxAsOf, ctxCached, ctxGot, ctxFailed,
             ctxOutcome>>

Limits == [thread : 0..Width[1], frames : FrameLimits, depth : Depths]

Init ==
  /\ ctxLimits \in Limits
  /\ ctxState = "Halted" /\ ctxStops = 1
  /\ ctxTodo = << <<>> >> /\ ctxStep = "gate" /\ ctxAsOf = 0 /\ ctxCached = {}
  /\ ctxGot = {} /\ ctxFailed = {} /\ ctxOutcome = "running"

\* Whether the i-th thing in the answer to a request is asked for in turn: the threads
\* wanted, the frames within the limit (the adapter sends no more), the scopes with a
\* reference, the variables with one when the depth allows it.
Follows(request, i) ==
  CASE Len(request) = 0 -> ctxLimits.thread \in {0, i}
    [] Len(request) = 1 -> i <= ctxLimits.frames
    [] Len(request) = 2 -> i \in Expandable
    [] Len(request) = 3 -> i \in Expandable /\ ctxLimits.depth > 1

FollowUps(request) ==
  LET width == IF Len(request) = 4 THEN 0 ELSE Width[Len(request) + 1]
      next[i \in 0..width] ==
        IF i = 0 THEN <<>>
        ELSE IF Follows(request, i) THEN Append(next[i - 1], Append(request, i)) ELSE next[i - 1]
  IN next[width]

\* Mutant: a failure ends the loop it happens in.
Fail_Break(request) ==
  /\ ctxFailed' = ctxFailed \cup {request}
  /\ ctxTodo' = SelectSeq(Tail(ctxTodo), LAMBDA r : Len(r) < Len(request))
  /\ ctxOutcome' = IF request = <<>> THEN "error" ELSE IF ctxTodo' = <<>> THEN "done" ELSE "running"

\* A failure: the first request's ends the call, any other is skipped over.
Fail(request) ==
  /\ ctxFailed' = ctxFailed \cup {request}
  /\ ctxTodo' = Tail(ctxTodo)
  /\ ctxOutcome' = IF request = <<>> THEN "error" ELSE IF ctxTodo' = <<>> THEN "done" ELSE "running"

\* The gate of the next request.
Gate ==
  /\ ctxOutcome = "running" /\ ctxStep = "gate"
  /\ IF ctxState = "Halted"
       THEN ctxStep' = "wait" /\ UNCHANGED <<ctxTodo, ctxFailed, ctxOutcome>>
       ELSE Fail(Head(ctxTodo)) /\ UNCHANGED ctxStep
  /\ UNCHANGED <<ctxLimits, ctxState, ctxStops, ctxAsOf, ctxCached, ctxGot>>

\* The follow-ups of the first request come next.
Advance ==
  /\ ctxStep' = "gate" /\ ctxAsOf' = 0
  /\ ctxGot' = ctxGot \cup {Head(ctxTodo)}
  /\ ctxTodo' = FollowUps(Head(ctxTodo)) \o Tail(ctxTodo)
  /\ ctxOutcome' = IF ctxTodo' = <<>> THEN "done" ELSE "running"

\* The adapter answers while the program is stopped.
Succeed ==
  /\ ctxStep = "wait" /\ ctxState = "Halted"
  /\ IF Len(Head(ctxTodo)) = 3
       THEN ctxStep' = "cache" /\ ctxAsOf' = ctxStops /\ UNCHANGED <<ctxGot, ctxTodo, ctxOutcome>>
       ELSE Advance
  /\ UNCHANGED <<ctxLimits, ctxState, ctxStops, ctxCached, ctxFailed>>

\* cache_variables: the variables of a scope replace those cached for it before.
Cache ==
  /\ ctxStep = "cache"
  /\ ctxCached' = {e \in ctxCached : e.scope # Head(ctxTodo)}
                    \cup {[scope |-> Head(ctxTodo), stop |-> ctxAsOf]}
  /\ Advance
  /\ UNCHANGED <<ctxLimits, ctxState, ctxStops, ctxFailed>>

\* It refuses: the program runs, or it knows nothing of this frame or reference.
Refuse ==
  /\ ctxStep = "wait" /\ ctxStep' = "gate"
  /\ ctxState = "Halted" => Cardinality(ctxFailed) < MaxFailures
  /\ Fail(Head(ctxTodo))
  /\ UNCHANGED <<ctxLimits, ctxState, ctxStops, ctxAsOf, ctxCached, ctxGot>>

\* Another client's continue, which empties the cache, and the next stop.
Resume ==
  /\ ctxState = "Halted" /\ ctxStops < MaxStops /\ ctxOutcome = "running"
  /\ ctxState' = "Running" /\ ctxCached' = {}
  /\ UNCHANGED <<ctxLimits, ctxStops, ctxTodo, ctxStep, ctxAsOf, ctxGot, ctxFailed, ctxOutcome>>
Stop ==
  /\ ctxState = "Running"
  /\ ctxState' = "Halted" /\ ctxStops' = ctxStops + 1
  /\ UNCHANGED <<ctxLimits, ctxTodo, ctxStep, ctxAsOf, ctxCached, ctxGot, ctxFailed, ctxOutcome>>

Next == Gate \/ Succeed \/ Cache \/ Refuse \/ Resume \/ Stop

-----------------------------------------------------------------------------
Paths == UNION {[1..n -> 1..Max({Width[i] : i \in 1..4})] : n \in 0..4}

\* The call's progress keeps to the requests there are.
TypeOK ==
  /\ ctxTodo \in Seq(Paths) /\ ctxGot \subseteq Paths /\ ctxFailed \subseteq Paths
  /\ \A e \in ctxCached : e.scope \in ctxGot /\ e.stop \in 1..ctxStops
  /\ ctxState \in {"Halted", "Running"} /\ ctxStep \in {"gate", "wait", "cache"}
  /\ ctxOutcome \in {"running", "done", "error"}
  /\ ctxOutcome = "running" <=> ctxTodo # <<>> /\ <<>> \notin ctxFailed

\* Whether the limits ask for a request, told from its path alone.
Wanted(request) ==
  /\ \A i \in DOMAIN request : request[i] <= Width[i]
  /\ Len(request) >= 1 => ctxLimits.thread \in {0, request[1]}
  /\ Len(request) >= 2 => request[2] <= ctxLimits.frames
  /\ \A i \in DOMAIN request \cap {3, 4} : request[i] \in Expandable
  /\ Len(request) = 4 => ctxLimits.depth >= 2

\* inspect.rs: the whole chain threads, frames, scopes, variables.  A finished result
\* holds everything the limits ask for, except what failed and what hangs below it.
LosesOnlyWhatFailed ==
  ctxOutcome = "done" =>
    ctxGot = {r \in Paths : Wanted(r) /\ \A n \in 0..Len(r) : SubSeq(r, 1, n) \notin ctxFailed}

=============================================================================
