--------------------------- MODULE LaunchContract ---------------------------
(***************************************************************************)
(* What a launch operation promises its owner, whatever processes take    *)
(* part, die or fail (docs/decisions/0017): one durable outcome, reached  *)
(* once and final; a command that runs only after the transfer was        *)
(* committed, and at most once; and `settle` answering that no further    *)
(* effect can happen only when the outcome says so.                       *)
(***************************************************************************)
EXTENDS Naturals

VARIABLES
  outcome,  \* what the record says became of the launch
  runs,     \* how many times the command was started
  closed    \* the owner was told: no further effects

vars == <<outcome, runs, closed>>

Outcomes == {"undecided", "never", "launched", "retired", "transferred"}

Init ==
  /\ outcome = "undecided"
  /\ runs = 0
  /\ closed = FALSE

Decide ==
  /\ outcome = "undecided"
  /\ outcome' \in {"never", "launched"}
  /\ UNCHANGED <<runs, closed>>

(* A launch nobody has taken over is retired, or transferred. *)
Conclude ==
  /\ outcome = "launched"
  /\ outcome' \in {"retired", "transferred"}
  /\ UNCHANGED <<runs, closed>>

Run ==
  /\ outcome = "transferred" /\ runs = 0
  /\ runs' = 1
  /\ UNCHANGED <<outcome, closed>>

Close ==
  /\ outcome \in {"never", "retired"}
  /\ closed' = TRUE
  /\ UNCHANGED <<outcome, runs>>

Next == Decide \/ Conclude \/ Run \/ Close

Spec == Init /\ [][Next]_vars
============================================================================
