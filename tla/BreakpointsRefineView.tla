----------------------- MODULE BreakpointsRefineView -----------------------
(* Breakpoints implements TargetView: the batches on their way that carry a *)
(* state change are the changes not shown yet.                              *)
EXTENDS Breakpoints

\* at lists the places of the state changes among some batches, in order.
IsPlaces(at, batches) ==
  LET changes == {i \in 1 .. Len(batches) : StateChange(batches[i])} IN
  /\ \A i, j \in DOMAIN at : i < j => at[i] < at[j]
  /\ changes = {at[i] : i \in DOMAIN at}

Places(batches) ==
  CHOOSE at \in UNION {[1 .. n -> 1 .. Len(batches)] : n \in 0 .. Len(batches)} :
    IsPlaces(at, batches)

Changes(batches) ==
  LET at == Places(batches) IN [i \in DOMAIN at |-> batches[at[i]].kind]

Shows == [STOPPED |-> "stopped", RUNNING |-> "running", EXITED |-> "exited",
          UNKNOWN |-> "unknown"]

View == INSTANCE TargetView WITH
  actual  <- gdb,
  pending <- [r \in Ranks |-> Changes(out[r])],
  shown   <- [r \in Ranks |-> Shows[target_state[r]]]

\* The state shown for a process follows the target's states in order and
\* catches up (parse_target_state, the FIFO of the idle sources).
ViewImplemented == View!Spec
=============================================================================
