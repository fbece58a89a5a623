----------------------------- MODULE TargetView -----------------------------
(***************************************************************************)
(* What the master promises about the state it shows for a process: the    *)
(* display goes through the very sequence of states the target went        *)
(* through, in order, skipping and inventing none, and as long as the      *)
(* connection lives it catches up.                                         *)
(***************************************************************************)
EXTENDS Integers, Sequences

CONSTANT Ranks

VARIABLES
  actual,    \* what the target does
  pending,   \* the changes not shown yet, oldest first
  shown      \* what the master shows

vars == <<actual, pending, shown>>

Init ==
  /\ actual = [r \in Ranks |-> "running"]
  /\ pending = [r \in Ranks |-> << >>]
  /\ shown = [r \in Ranks |-> "unknown"]

\* A running target stops or exits; one that does not run can be set running.
Change(r, s) ==
  /\ (actual[r] = "running") <=> (s \in {"stopped", "exited"})
  /\ actual' = [actual EXCEPT ![r] = s]
  /\ pending' = [pending EXCEPT ![r] = Append(@, s)]
  /\ UNCHANGED shown

Observe(r) ==
  /\ pending[r] # << >>
  /\ shown' = [shown EXCEPT ![r] = Head(pending[r])]
  /\ pending' = [pending EXCEPT ![r] = Tail(@)]
  /\ UNCHANGED actual

\* The connection breaks: the newest changes are never shown.
Lose(r) ==
  /\ \E k \in 0 .. Len(pending[r]) : pending' = [pending EXCEPT ![r] = SubSeq(@, 1, k)]
  /\ UNCHANGED <<actual, shown>>

Next == \E r \in Ranks :
          \/ \E s \in {"running", "stopped", "exited"} : Change(r, s)
          \/ Observe(r)
          \/ Lose(r)

Spec == Init /\ [][Next]_vars /\ \A r \in Ranks : WF_vars(Observe(r))
=============================================================================
