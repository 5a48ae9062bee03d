----------------------------- MODULE RunLedger -----------------------------
(***************************************************************************)
(* What the observation store promises its callers, with the files, locks, *)
(* temporaries and roll-backs of ObservationStore left out: a run is       *)
(* started once, finished once and invalidated once, in this order, each   *)
(* by one call, nothing is ever taken back, and what a call reports is     *)
(* what it did.                                                            *)
(***************************************************************************)
EXTENDS Naturals

CONSTANTS Starters, Finishers, Invalidators, Runs, None

Calls == Starters \cup Finishers \cup Invalidators

VARIABLES
  started,      (* started[r]: the call that started r, or None            *)
  finished,     (* finished[r]: the call that finished r, or None          *)
  invalidated,  (* invalidated[r]: the call that invalidated r, or None    *)
  out           (* what each call reported                                 *)

ledger == <<started, finished, invalidated, out>>

Init ==
  /\ started = [r \in Runs |-> None]
  /\ finished = [r \in Runs |-> None]
  /\ invalidated = [r \in Runs |-> None]
  /\ out = [c \in Calls |-> "none"]

HasEffect(c) ==
  \E r \in Runs : c \in {started[r], finished[r], invalidated[r]}

(* A call may die, or be unable to say what became of it, at the very      *)
(* moment its effect shows.                                                *)
Vague(c) ==
  \/ UNCHANGED out
  \/ /\ out[c] = "none"
     /\ out' \in {[out EXCEPT ![c] = o] : o \in {"uncertain", "killed"}}

Start(c, r) ==
  /\ out[c] = "none" /\ ~HasEffect(c)
  /\ started[r] = None
  /\ started' = [started EXCEPT ![r] = c]
  /\ Vague(c)
  /\ UNCHANGED <<finished, invalidated>>

Finish(c, r) ==
  /\ out[c] = "none" /\ ~HasEffect(c)
  /\ started[r] # None /\ finished[r] = None
  /\ finished' = [finished EXCEPT ![r] = c]
  /\ Vague(c)
  /\ UNCHANGED <<started, invalidated>>

Invalidate(c, r) ==
  /\ out[c] = "none" /\ ~HasEffect(c)
  /\ finished[r] # None /\ invalidated[r] = None
  /\ invalidated' = [invalidated EXCEPT ![r] = c]
  /\ Vague(c)
  /\ UNCHANGED <<started, finished>>

Report(c) ==
  /\ out[c] = "none"
  /\ \/ HasEffect(c) /\ out' = [out EXCEPT ![c] = "ok"]
     \/ ~HasEffect(c) /\ out' = [out EXCEPT ![c] = "rejected"]
     \/ out' \in {[out EXCEPT ![c] = o] : o \in {"uncertain", "killed"}}
  /\ UNCHANGED <<started, finished, invalidated>>

Next ==
  \/ \E r \in Runs :
       \/ \E c \in Starters : Start(c, r)
       \/ \E c \in Finishers : Finish(c, r)
       \/ \E c \in Invalidators : Invalidate(c, r)
  \/ \E c \in Calls : Report(c)

Spec == Init /\ [][Next]_ledger
=============================================================================
