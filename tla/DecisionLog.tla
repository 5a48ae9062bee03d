----------------------------- MODULE DecisionLog -----------------------------
(***************************************************************************)
(* What the progress protocol of a parallel evaluation promises.  Every    *)
(* lane has a log of the decisions its worker was given, which only ever   *)
(* grows.  What a decision may be depends on all that was decided before,  *)
(* on any lane and under any coordinator, and on the tokens spent by then: *)
(* a worker is told to go on only below the ceiling, and after the first   *)
(* stop nobody is told to go on, after the first abort nothing is decided. *)
(***************************************************************************)
EXTENDS Naturals, Sequences

CONSTANTS Lanes, MaxTokens, Usages

VARIABLES log, spent
vars == <<log, spent>>

Decisions == {"continue", "retry", "stop-launches", "abort"}
Said(d) == \E l \in Lanes : \E i \in 1 .. Len(log[l]) : log[l][i] = d

Init == log = [l \in Lanes |-> << >>] /\ spent = 0

(* A lane is told d after it has spent t more tokens.                      *)
Decide(l, d, t) ==
  /\ ~Said("abort")
  /\ d \in {"continue", "retry"} =>
       ~Said("stop-launches") /\ spent + t < MaxTokens
  /\ d = "stop-launches" => Said("stop-launches") \/ spent + t >= MaxTokens
  /\ d = "retry" => t = 0
  /\ log' = [log EXCEPT ![l] = Append(@, d)]
  /\ spent' = spent + t

Next == \E l \in Lanes, d \in Decisions, t \in Usages \cup {0} :
          Decide(l, d, t)
Spec == Init /\ [][Next]_vars
=============================================================================
