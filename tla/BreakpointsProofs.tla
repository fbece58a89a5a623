------------------------- MODULE BreakpointsProofs -------------------------
(***************************************************************************)
(* Theorems about Breakpoints, for any ranks, objects, bounds and kind of  *)
(* user: type correctness, the accuracy of the state shown, the stop       *)
(* latch, and every step of the view of the targets.                       *)
(***************************************************************************)
EXTENDS BreakpointsRefineView, SequenceTheorems, WellFoundedInduction, TLAPS

-----------------------------------------------------------------------------
(* Types *)

LEMMA RecordType ==
  /\ \A kind \in {"running", "exited", "reply"} : Rec(kind, 0) \in Records
  /\ \A n \in Numbers \cup {0} : Rec("stopped", n) \in Records
  /\ \A n \in Numbers : Rec("bkpt", n) \in Records
BY DEF Rec, Records

LEMMA SayType ==
  ASSUME out \in [Ranks -> Seq(Records)], NEW r \in Ranks, NEW rec \in Records,
         Say(r, rec)
  PROVE  out' \in [Ranks -> Seq(Records)]
BY DEF Say

LEMMA SendCommandsType ==
  ASSUME cmds \in [Ranks -> Seq(Commands)], alive \in [Ranks -> BOOLEAN],
         NEW sendTo \in [Ranks -> Seq(Commands)], SendCommands(sendTo)
  PROVE  cmds' \in [Ranks -> Seq(Commands)]
<1>1. \A r \in Ranks : cmds[r] \o sendTo[r] \in Seq(Commands)
  OBVIOUS
<1> QED BY <1>1 DEF SendCommands

LEMMA SendInterruptsType ==
  ASSUME sigints \in [Ranks -> 0 .. MaxSigints], NEW S, SendInterrupts(S)
  PROVE  sigints' \in [Ranks -> 0 .. MaxSigints]
<1>1. \A r \in Ranks : sigints[r] < MaxSigints => sigints[r] + 1 \in 0 .. MaxSigints
  BY SessionAssumption
<1> QED BY <1>1 DEF SendInterrupts

\* What every step of GDB, of a target or of a slave leaves typed.
LEMMA GdbStepType ==
  ASSUME TypeOK, NEW r \in Ranks, GdbStep(r)
  PROVE  SessionTypeOK'
<1> USE DEF TypeOK, SessionTypeOK
<1>1. \A k, n : Rec(k, n) \in Records /\ Say(r, Rec(k, n))
                => out' \in [Ranks -> Seq(Records)]
  BY SayType
<1>2. ASSUME NEW op, GdbReads(r, op)
      PROVE  cmds' \in [Ranks -> Seq(Commands)]
  BY <1>2 DEF GdbReads
<1>3. CASE GdbResume(r)
  BY <1>3, RecordType, <1>1, <1>2 DEF GdbResume, GdbReads
<1>4. CASE GdbRun(r)
  BY <1>4, RecordType, <1>1, <1>2 DEF GdbRun, GdbReads
<1>5. CASE GdbInsert(r)
  <2>1. Head(cmds[r]).bp \in Bkpts \cup {NoBkpt}
    <3>1. cmds[r] # << >> /\ cmds[r] \in Seq(Commands)
      BY <1>5 DEF GdbInsert, GdbReads
    <3>2. Head(cmds[r]) \in Commands
      BY <3>1
    <3> QED BY <3>2 DEF Commands
  <2>2. out' \in [Ranks -> Seq(Records)]
    BY <1>5, RecordType, <1>1 DEF GdbInsert
  <2>3. table' \in [Ranks -> [Numbers -> Bkpts \cup {NoBkpt}]]
    <3> DEFINE b == Head(cmds[r]).bp
    <3>1. \/ table' = table
          \/ next[r] \in Numbers /\ table' = [table EXCEPT ![r][next[r]] = b]
      BY <1>5 DEF GdbInsert
    <3>2. [table[r] EXCEPT ![next[r]] = b] \in [Numbers -> Bkpts \cup {NoBkpt}]
      BY <2>1
    <3> HIDE DEF b
    <3> QED BY <3>1, <3>2
  <2>4. next' \in [Ranks -> Nat \ {0, 1}]
    BY <1>5 DEF GdbInsert
  <2> QED BY <1>5, <1>2, <2>2, <2>3, <2>4 DEF GdbInsert, GdbReads
<1>6. CASE GdbDelete(r)
  <2>1. table' \in [Ranks -> [Numbers -> Bkpts \cup {NoBkpt}]]
    BY <1>6 DEF GdbDelete
  <2> QED BY <1>6, RecordType, <1>1, <1>2, <2>1 DEF GdbDelete, GdbReads
<1>7. ASSUME NEW n \in Numbers \cup {0}, GdbStop(r, n) PROVE SessionTypeOK'
  BY <1>7, RecordType, <1>1 DEF GdbStop, TargetRuns
<1>8. CASE GdbExit(r)
  BY <1>8, RecordType, <1>1 DEF GdbExit, TargetRuns
<1>9. CASE GdbInterrupt(r)
  <2>1. sigints' \in [Ranks -> 0 .. MaxSigints]
    BY <1>9 DEF GdbInterrupt
  <2> QED BY <1>9, RecordType, <1>1, <2>1 DEF GdbInterrupt, TargetRuns
<1>10. CASE InterruptLost(r)
  <2>1. sigints' \in [Ranks -> 0 .. MaxSigints]
    BY <1>10 DEF InterruptLost
  <2> QED BY <1>10, <2>1 DEF InterruptLost
<1>11. CASE SlaveDies(r)
  <2>1. PICK k \in 0 .. MaxRecords :
          k <= Len(out[r]) /\ out' = [out EXCEPT ![r] = SubSeq(@, 1, k)]
    BY <1>11 DEF SlaveDies
  <2>2. SubSeq(out[r], 1, k) \in Seq(Records)
    BY <2>1, SessionAssumption
  <2>3. sigints' \in [Ranks -> 0 .. MaxSigints]
    BY <1>11, SessionAssumption DEF SlaveDies
  <2>4. cmds' \in [Ranks -> Seq(Commands)]
    BY <1>11 DEF SlaveDies
  <2> QED BY <1>11, <2>1, <2>2, <2>3, <2>4 DEF SlaveDies
<1>12. CASE GdbEof(r)
  BY <1>12 DEF GdbEof
<1>13. CASE TrgtEof(r)
  BY <1>13 DEF TrgtEof
<1> QED
  BY <1>3, <1>4, <1>5, <1>6, <1>7, <1>8, <1>9, <1>10, <1>11, <1>12, <1>13
     DEF GdbStep

LEMMA HeadOutType ==
  ASSUME TypeOK, NEW r \in Ranks, out[r] # << >>
  PROVE  Head(out[r]) \in Records /\ Tail(out[r]) \in Seq(Records)
BY DEF TypeOK, SessionTypeOK

LEMMA HandleBatchType ==
  ASSUME TypeOK, NEW r \in Ranks, HandleBatch(r)
  PROVE  TypeOK'
<1> DEFINE rec == Head(out[r])
<1>1. rec \in Records /\ Tail(out[r]) \in Seq(Records)
  BY HeadOutType DEF HandleBatch
<1>2. out' \in [Ranks -> Seq(Records)]
  BY <1>1 DEF HandleBatch, TypeOK, SessionTypeOK
<1>3. target_state' \in [Ranks -> TargetState]
  <2>1. target_state' = NewTargetState(r, rec)
    BY DEF HandleBatch
  <2>2. StateChange(rec) => Shown(rec.kind) \in TargetState
    BY DEF StateChange, Shown, TargetState
  <2> HIDE DEF rec
  <2> QED BY <2>1, <2>2 DEF NewTargetState, TypeOK
<1>4. sent_stop' \in [Ranks -> BOOLEAN] /\ sigints' \in [Ranks -> 0 .. MaxSigints]
  <2>1. PICK S : StopAll(S, NewTargetState(r, rec), Latched(r, rec))
    BY DEF HandleBatch
  <2>2. Latched(r, rec) \in [Ranks -> BOOLEAN]
    BY DEF Latched, TypeOK
  <2> HIDE DEF rec
  <2>3. sent_stop' \in [Ranks -> BOOLEAN]
    BY <2>1, <2>2 DEF StopAll
  <2>4. sigints' \in [Ranks -> 0 .. MaxSigints]
    BY <2>1, SendInterruptsType DEF StopAll, TypeOK, SessionTypeOK
  <2> QED BY <2>3, <2>4
<1>5. /\ number' \in [Bkpts -> [Ranks -> Numbers \cup {-1}]]
      /\ bkptno_2_bkpt' \in [Ranks -> [Numbers -> Pointers]]
      /\ slot' \in [Ranks -> Pointers]
  <2>1. ParseBreakpoint(r, rec)
    BY DEF HandleBatch
  <2>2. CASE ~(rec.kind = "bkpt" /\ slot[r] # NoBkpt)
    BY <2>1, <2>2 DEF ParseBreakpoint, TypeOK
  <2>3. CASE rec.kind = "bkpt" /\ slot[r] # NoBkpt
    <3>1. rec.no \in Numbers
      BY <1>1, <2>3 DEF Records
    <3> HIDE DEF rec
    <3>2. number' \in [Bkpts -> [Ranks -> Numbers \cup {-1}]]
      <4>1. \A b \in Bkpts : [number[b] EXCEPT ![r] = rec.no] \in [Ranks -> Numbers \cup {-1}]
        BY <3>1 DEF TypeOK
      <4>2. \A b \in Bkpts : number[b] \in [Ranks -> Numbers \cup {-1}]
        BY DEF TypeOK
      <4>3. number' = [b \in Bkpts |->
                        IF b = slot[r] /\ life[b] # "freed"
                        THEN [number[b] EXCEPT ![r] = rec.no] ELSE number[b]]
        BY <2>1, <2>3 DEF ParseBreakpoint
      <4> QED BY <4>1, <4>2, <4>3
    <3>3. bkptno_2_bkpt' \in [Ranks -> [Numbers -> Pointers]]
      <4>1. [bkptno_2_bkpt[r] EXCEPT ![rec.no] = slot[r]] \in [Numbers -> Pointers]
        BY DEF TypeOK
      <4>2. bkptno_2_bkpt' = [bkptno_2_bkpt EXCEPT ![r][rec.no] = slot[r]]
        BY <2>1, <2>3 DEF ParseBreakpoint
      <4> QED BY <4>1, <4>2 DEF TypeOK
    <3>4. slot' \in [Ranks -> Pointers]
      BY <2>1, <2>3 DEF ParseBreakpoint, TypeOK, Pointers
    <3> QED BY <3>2, <3>3, <3>4
  <2> QED BY <2>2, <2>3
<1> QED BY <1>2, <1>3, <1>4, <1>5 DEF HandleBatch, TypeOK, SessionTypeOK

\* The commands a step of the user writes are commands.
LEMMA CommandTypes ==
  ASSUME TypeOK
  PROVE  /\ \A op \in {"resume", "run"} :
              <<[op |-> op, bp |-> NoBkpt, no |-> 0]>> \in Seq(Commands)
         /\ \A b \in Bkpts : InsertCommand(b) \in Seq(Commands)
         /\ \A b \in Bkpts, r \in Ranks : DeleteCommand(b, r) \in Seq(Commands)
         /\ << >> \in Seq(Commands)
<1>1. \A op \in {"resume", "run"} : [op |-> op, bp |-> NoBkpt, no |-> 0] \in Commands
  BY DEF Commands
<1>2. \A b \in Bkpts : [op |-> "insert", bp |-> b, no |-> 0] \in Commands
  BY DEF Commands
<1>3. \A b \in Bkpts, r \in Ranks :
        [op |-> "delete", bp |-> NoBkpt, no |-> number[b][r]] \in Commands
  BY DEF Commands, TypeOK
<1>4. \A c \in Commands : <<c>> \in Seq(Commands)
  OBVIOUS
<1> QED BY <1>1, <1>2, <1>3, <1>4 DEF InsertCommand, DeleteCommand

LEMMA UpdateStatesType ==
  ASSUME NEW states \in [Ranks -> BreakpointState]
  PROVE  UpdateStates(states) \in [Ranks -> BreakpointState]
BY DEF UpdateStates, BreakpointState

LEMMA SendToActiveType ==
  ASSUME TypeOK, NEW S \in SUBSET Ranks, NEW op \in {"resume", "run"},
         SendToActive(S, op)
  PROVE  TypeOK'
<1> DEFINE sendTo == [r \in Ranks |->
             IF r \in S /\ target_state[r] # "RUNNING" /\ conn_gdb[r]
             THEN <<[op |-> op, bp |-> NoBkpt, no |-> 0]>> ELSE << >>]
<1>1. sendTo \in [Ranks -> Seq(Commands)]
  BY CommandTypes
<1>2. SendCommands(sendTo)
  BY DEF SendToActive
<1> HIDE DEF sendTo
<1>3. cmds' \in [Ranks -> Seq(Commands)]
  BY <1>1, <1>2, SendCommandsType DEF TypeOK, SessionTypeOK
<1> QED BY <1>3 DEF SendToActive, TypeOK, SessionTypeOK, masterVars

LEMMA SendInputType ==
  ASSUME TypeOK, NEW S \in SUBSET Ranks, SendInput(S)
  PROVE  TypeOK'
<1> DEFINE sendTo == [r \in Ranks |->
             IF r \in S /\ conn_gdb[r]
             THEN <<[op |-> "resume", bp |-> NoBkpt, no |-> 0]>> ELSE << >>]
<1>1. sendTo \in [Ranks -> Seq(Commands)]
  BY CommandTypes
<1>2. SendCommands(sendTo)
  BY DEF SendInput
<1> HIDE DEF sendTo
<1>3. cmds' \in [Ranks -> Seq(Commands)]
  BY <1>1, <1>2, SendCommandsType DEF TypeOK, SessionTypeOK
<1> QED BY <1>3 DEF SendInput, TypeOK, SessionTypeOK, masterVars

LEMMA InterruptType ==
  ASSUME TypeOK, NEW S \in SUBSET Ranks, Interrupt(S)
  PROVE  TypeOK'
<1>1. sigints' \in [Ranks -> 0 .. MaxSigints]
  BY SendInterruptsType DEF Interrupt, TypeOK, SessionTypeOK
<1> QED BY <1>1 DEF Interrupt, TypeOK, SessionTypeOK, masterVars

LEMMA UpdateMarkType ==
  ASSUME TypeOK, NEW b \in Bkpts, NEW buttons \in SUBSET Ranks,
         NEW flag \in BOOLEAN, UpdateMark(b, buttons, flag)
  PROVE  TypeOK'
<1> DEFINE drop == {r \in Ranks : r \notin buttons /\ is_created(b, r)}
           add  == {r \in buttons : ~is_created(b, r)}
           states == [r \in Ranks |-> IF r \in drop THEN AfterDelete(r)
                                      ELSE IF r \in add THEN AfterCreate(r)
                                      ELSE bstate[b][r]]
           sendTo == [r \in Ranks |->
             IF r \in drop /\ Accepts(r) THEN DeleteCommand(b, r)
             ELSE IF r \in add /\ Accepts(r) THEN InsertCommand(b)
             ELSE << >>]
<1>1. states \in [Ranks -> BreakpointState]
  BY DEF AfterDelete, AfterCreate, BreakpointState, TypeOK
<1>2. sendTo \in [Ranks -> Seq(Commands)]
  BY CommandTypes
<1>3. SendCommands(sendTo)
  BY DEF UpdateMark
<1>4. bstate' = [bstate EXCEPT ![b] = UpdateStates(states)]
  BY DEF UpdateMark
<1>5. slot' \in [Ranks -> Pointers]
  BY DEF UpdateMark, TypeOK, Pointers
<1>6. /\ life' \in [Bkpts -> {"unborn", "open", "marked", "freed"}]
      /\ dialog' \in [kind : {"none", "info", "not_deleted"}, bp : Pointers]
  <2>1. \/ /\ dialog' = [kind |-> "info", bp |-> b]
           /\ life' = [life EXCEPT ![b] = IF @ = "unborn" THEN "open" ELSE @]
        \/ /\ dialog' = dialog
           /\ life' = [life EXCEPT ![b] = Settled(UpdateStates(states))]
    BY DEF UpdateMark
  <2>2. Settled(UpdateStates(states)) \in {"marked", "freed"}
    BY DEF Settled
  <2> HIDE DEF states
  <2>3. life' \in [Bkpts -> {"unborn", "open", "marked", "freed"}]
    BY <2>1, <2>2 DEF TypeOK
  <2>4. dialog' \in [kind : {"none", "info", "not_deleted"}, bp : Pointers]
    BY <2>1 DEF TypeOK, Pointers
  <2> QED BY <2>3, <2>4
<1> HIDE DEF states, sendTo
<1>7. cmds' \in [Ranks -> Seq(Commands)]
  BY <1>2, <1>3, SendCommandsType DEF TypeOK, SessionTypeOK
<1>8. bstate' \in [Bkpts -> [Ranks -> BreakpointState]]
  BY <1>1, <1>4, UpdateStatesType DEF TypeOK
<1>9. stop_all_flag' \in [Bkpts -> BOOLEAN]
  BY DEF UpdateMark, TypeOK
<1> QED BY <1>5, <1>6, <1>7, <1>8, <1>9 DEF UpdateMark, TypeOK, SessionTypeOK

LEMMA DeleteMarkType ==
  ASSUME TypeOK, NEW b \in Bkpts, DeleteMark(b)
  PROVE  TypeOK'
<1> DEFINE targets == {r \in Ranks : is_created(b, r)}
           states == [r \in Ranks |-> IF r \in targets THEN AfterDelete(r)
                                                       ELSE bstate[b][r]]
           sendTo == [r \in Ranks |->
             IF r \in targets /\ Accepts(r) THEN DeleteCommand(b, r) ELSE << >>]
<1>1. states \in [Ranks -> BreakpointState]
  BY DEF AfterDelete, BreakpointState, TypeOK
<1>2. sendTo \in [Ranks -> Seq(Commands)]
  BY CommandTypes
<1>3. SendCommands(sendTo)
  BY DEF DeleteMark
<1>4. \/ bstate' = [bstate EXCEPT ![b] = UpdateStates(states)]
      \/ bstate' = [bstate EXCEPT ![b] = states]
  BY DEF DeleteMark
<1>5. /\ life' \in [Bkpts -> {"unborn", "open", "marked", "freed"}]
      /\ dialog' \in [kind : {"none", "info", "not_deleted"}, bp : Pointers]
  <2>1. \/ dialog' = dialog /\ life' = [life EXCEPT ![b] = "freed"]
        \/ dialog' = [kind |-> "not_deleted", bp |-> b] /\ life' = life
    BY DEF DeleteMark
  <2> QED BY <2>1 DEF TypeOK, Pointers
<1> HIDE DEF states, sendTo
<1>6. cmds' \in [Ranks -> Seq(Commands)]
  BY <1>2, <1>3, SendCommandsType DEF TypeOK, SessionTypeOK
<1>7. bstate' \in [Bkpts -> [Ranks -> BreakpointState]]
  BY <1>1, <1>4, UpdateStatesType DEF TypeOK
<1> QED BY <1>5, <1>6, <1>7 DEF DeleteMark, TypeOK, SessionTypeOK

LEMMA CloseDialogType ==
  ASSUME TypeOK, CloseDialog
  PROVE  TypeOK'
<1>1. bstate' \in [Bkpts -> [Ranks -> BreakpointState]]
  BY UpdateStatesType DEF CloseDialog, TypeOK
<1>2. /\ life' \in [Bkpts -> {"unborn", "open", "marked", "freed"}]
      /\ dialog' \in [kind : {"none", "info", "not_deleted"}, bp : Pointers]
  BY DEF CloseDialog, TypeOK, Settled, NoDialog, Pointers
<1> QED BY <1>1, <1>2 DEF CloseDialog, TypeOK, SessionTypeOK, sessionVars

\* Type correctness: in every reachable state each variable has its type.
THEOREM TypeCorrect == Spec => []TypeOK
<1>1. Init => TypeOK
  BY SessionAssumption
     DEF Init, SessionInit, TypeOK, SessionTypeOK, TargetState, BreakpointState,
         Pointers, NoDialog
<1>2. TypeOK /\ [Next]_vars => TypeOK'
  <2> SUFFICES ASSUME TypeOK, [Next]_vars PROVE TypeOK'
    OBVIOUS
  <2>1. CASE UserStep
    BY <2>1, SendToActiveType, InterruptType, SendInputType, UpdateMarkType,
       DeleteMarkType, CloseDialogType DEF UserStep
  <2>2. CASE FarStep
    BY <2>2, GdbStepType DEF FarStep, TypeOK, masterVars
  <2>3. ASSUME NEW r \in Ranks, HandleBatch(r) PROVE TypeOK'
    BY <2>3, HandleBatchType
  <2>4. CASE UNCHANGED vars
    BY <2>4 DEF vars, TypeOK, SessionTypeOK
  <2> QED BY <2>1, <2>2, <2>3, <2>4 DEF Next
<1> QED BY <1>1, <1>2, PTL DEF Spec

-----------------------------------------------------------------------------
(* The state shown *)

\* A batch joins the queue: the target now does what its state change says.
LEMMA ConsistentChange ==
  ASSUME NEW s \in Seq(Records), NEW v, NEW g, NEW rec \in Records,
         Consistent(s, v, g), StateChange(rec)
  PROVE  Consistent(Append(s, rec), v, rec.kind)
<1>1. Len(Append(s, rec)) = Len(s) + 1 /\ Append(s, rec)[Len(s) + 1] = rec
  OBVIOUS
<1>2. Len(s) + 1 \in 1 .. Len(Append(s, rec))
  BY <1>1
<1> QED BY <1>1, <1>2 DEF Consistent

\* A batch without a state change joins the queue.
LEMMA ConsistentReply ==
  ASSUME NEW s \in Seq(Records), NEW v, NEW g, NEW rec \in Records,
         Consistent(s, v, g), ~StateChange(rec)
  PROVE  Consistent(Append(s, rec), v, g)
<1>1. /\ Len(Append(s, rec)) = Len(s) + 1 /\ Append(s, rec)[Len(s) + 1] = rec
      /\ \A i \in 1 .. Len(s) : Append(s, rec)[i] = s[i]
  OBVIOUS
<1>2. \A i \in 1 .. Len(Append(s, rec)) : i \in 1 .. Len(s) \/ i = Len(s) + 1
  BY <1>1
<1>3. \A i \in 1 .. Len(s) : i \in 1 .. Len(Append(s, rec))
  BY <1>1
<1> QED BY <1>1, <1>2, <1>3 DEF Consistent

\* The oldest batch is handled: its state change, if any, is what is shown.
LEMMA ConsistentHandled ==
  ASSUME NEW s \in Seq(Records), s # << >>, NEW v,
         NEW g \in {"running", "stopped", "exited"}, Consistent(s, v, g)
  PROVE  Consistent(Tail(s), IF StateChange(Head(s)) THEN Shown(Head(s).kind) ELSE v, g)
<1>1. /\ Len(Tail(s)) = Len(s) - 1 /\ Len(s) \in Nat \ {0}
      /\ \A i \in 1 .. Len(s) - 1 : Tail(s)[i] = s[i + 1]
      /\ Head(s) = s[1]
  OBVIOUS
<1>2. CASE \A i \in 1 .. Len(s) : ~StateChange(s[i])
  <2>1. v = Shown(g) \/ (v = "UNKNOWN" /\ g = "running")
    BY <1>2 DEF Consistent, StateChange
  <2>2. \A i \in 1 .. Len(Tail(s)) : ~StateChange(Tail(s)[i])
    BY <1>1, <1>2
  <2>3. ~StateChange(Head(s))
    BY <1>1, <1>2
  <2> QED BY <2>1, <2>2, <2>3 DEF Consistent
<1>3. ASSUME NEW i \in 1 .. Len(s), s[i].kind = g,
             \A j \in 1 .. Len(s) : j > i => ~StateChange(s[j])
      PROVE  Consistent(Tail(s),
                        IF StateChange(Head(s)) THEN Shown(Head(s).kind) ELSE v, g)
  <2>1. CASE i = 1
    <3>1. StateChange(Head(s)) /\ Head(s).kind = g
      BY <1>1, <1>3, <2>1 DEF StateChange
    <3>2. \A j \in 1 .. Len(Tail(s)) : ~StateChange(Tail(s)[j])
      BY <1>1, <1>3, <2>1
    <3> QED BY <3>1, <3>2 DEF Consistent
  <2>2. CASE i # 1
    <3>1. i - 1 \in 1 .. Len(Tail(s)) /\ Tail(s)[i - 1].kind = g
      BY <1>1, <1>3, <2>2
    <3>2. \A j \in 1 .. Len(Tail(s)) : j > i - 1 => ~StateChange(Tail(s)[j])
      BY <1>1, <1>3, <2>2
    <3> QED BY <3>1, <3>2 DEF Consistent
  <2> QED BY <2>1, <2>2
<1> QED BY <1>2, <1>3 DEF Consistent

\* A step at the far end, by what it does to the target and the queue: a change of
\* state is announced, another answer is given, nothing of it moves, or the slave
\* ends.
LEMMA GdbStepEffect ==
  ASSUME TypeOK, NEW r \in Ranks, GdbStep(r)
  PROVE  \/ /\ alive' = alive
            /\ \E rec \in Records :
                 /\ StateChange(rec)
                 /\ rec.kind = "running" <=> gdb[r] # "running"
                 /\ gdb' = [gdb EXCEPT ![r] = rec.kind]
                 /\ out' = [out EXCEPT ![r] = Append(@, rec)]
         \/ /\ alive' = alive /\ gdb' = gdb
            /\ \E rec \in Records :
                 ~StateChange(rec) /\ out' = [out EXCEPT ![r] = Append(@, rec)]
         \/ alive' = alive /\ gdb' = gdb /\ out' = out
         \/ /\ alive' = [alive EXCEPT ![r] = FALSE] /\ gdb' = gdb
            /\ \E k \in 0 .. Len(out[r]) : out' = [out EXCEPT ![r] = SubSeq(@, 1, k)]
            /\ \A q \in Ranks \ {r} : out'[q] = out[q]
<1> USE DEF Rec, StateChange, Say
<1>1. CASE GdbResume(r)
  BY <1>1, RecordType DEF GdbResume, GdbReads
<1>2. CASE GdbRun(r)
  BY <1>2, RecordType DEF GdbRun, GdbReads
<1>3. CASE GdbInsert(r)
  BY <1>3, RecordType DEF GdbInsert, GdbReads
<1>4. CASE GdbDelete(r)
  BY <1>4, RecordType DEF GdbDelete, GdbReads
<1>5. ASSUME NEW n \in Numbers \cup {0}, GdbStop(r, n)
      PROVE  /\ alive' = alive
             /\ \E rec \in Records :
                  /\ StateChange(rec) /\ rec.kind # "running" /\ gdb[r] = "running"
                  /\ gdb' = [gdb EXCEPT ![r] = rec.kind]
                  /\ out' = [out EXCEPT ![r] = Append(@, rec)]
  BY <1>5, RecordType DEF GdbStop, TargetRuns
<1>6. CASE GdbExit(r)
  BY <1>6, RecordType DEF GdbExit, TargetRuns
<1>7. CASE GdbInterrupt(r)
  BY <1>7, RecordType DEF GdbInterrupt, TargetRuns
<1>8. CASE InterruptLost(r) \/ GdbEof(r) \/ TrgtEof(r)
  BY <1>8 DEF InterruptLost, GdbEof, TrgtEof
<1>9. CASE SlaveDies(r)
  <2>1. PICK k \in 0 .. MaxRecords : /\ k <= Len(out[r])
                                     /\ out' = [out EXCEPT ![r] = SubSeq(@, 1, k)]
    BY <1>9 DEF SlaveDies
  <2>2. k \in 0 .. Len(out[r]) /\ out \in [Ranks -> Seq(Records)]
    BY <2>1, SessionAssumption DEF TypeOK, SessionTypeOK
  <2>3. \A q \in Ranks \ {r} : out'[q] = out[q]
    BY <2>1, <2>2
  <2>4. alive' = [alive EXCEPT ![r] = FALSE] /\ gdb' = gdb
    BY <1>9 DEF SlaveDies
  <2> QED BY <2>1, <2>2, <2>3, <2>4
<1> QED
  BY <1>1, <1>2, <1>3, <1>4, <1>5, <1>6, <1>7, <1>8, <1>9 DEF GdbStep

LEMMA GdbStepView ==
  ASSUME TypeOK, ViewAccurate, NEW r \in Ranks, GdbStep(r), UNCHANGED masterVars
  PROVE  ViewAccurate'
<1> SUFFICES ASSUME NEW q \in Ranks, alive'[q]
             PROVE  Consistent(out'[q], target_state'[q], gdb'[q])
  BY DEF ViewAccurate
<1>1. target_state' = target_state
  BY DEF masterVars
<1>2. out[q] \in Seq(Records) /\ out \in [Ranks -> Seq(Records)]
      /\ gdb \in [Ranks -> {"running", "stopped", "exited"}]
      /\ alive \in [Ranks -> BOOLEAN]
  BY DEF TypeOK, SessionTypeOK
<1>3. ASSUME NEW rec \in Records, alive' = alive, StateChange(rec),
             gdb' = [gdb EXCEPT ![r] = rec.kind],
             out' = [out EXCEPT ![r] = Append(@, rec)]
      PROVE  Consistent(out'[q], target_state'[q], gdb'[q])
  <2>1. Consistent(out[q], target_state[q], gdb[q])
    BY <1>3 DEF ViewAccurate
  <2>2. CASE q = r
    BY <1>1, <1>2, <1>3, <2>1, <2>2, ConsistentChange
  <2>3. CASE q # r
    BY <1>1, <1>2, <1>3, <2>1, <2>3
  <2> QED BY <2>2, <2>3
<1>4. ASSUME NEW rec \in Records, alive' = alive, ~StateChange(rec), gdb' = gdb,
             out' = [out EXCEPT ![r] = Append(@, rec)]
      PROVE  Consistent(out'[q], target_state'[q], gdb'[q])
  <2>1. Consistent(out[q], target_state[q], gdb[q])
    BY <1>4 DEF ViewAccurate
  <2>2. CASE q = r
    BY <1>1, <1>2, <1>4, <2>1, <2>2, ConsistentReply
  <2>3. CASE q # r
    BY <1>1, <1>2, <1>4, <2>1, <2>3
  <2> QED BY <2>2, <2>3
<1>5. CASE alive' = alive /\ gdb' = gdb /\ out' = out
  BY <1>1, <1>5 DEF ViewAccurate
<1>6. CASE /\ alive' = [alive EXCEPT ![r] = FALSE] /\ gdb' = gdb
           /\ \A p \in Ranks \ {r} : out'[p] = out[p]
  <2>1. q # r /\ alive[q]
    BY <1>2, <1>6
  <2> QED BY <1>1, <1>6, <2>1 DEF ViewAccurate
<1> QED BY <1>3, <1>4, <1>5, <1>6, GdbStepEffect

LEMMA HandleBatchView ==
  ASSUME TypeOK, ViewAccurate, NEW r \in Ranks, HandleBatch(r)
  PROVE  ViewAccurate'
<1> SUFFICES ASSUME NEW q \in Ranks, alive'[q]
             PROVE  Consistent(out'[q], target_state'[q], gdb'[q])
  BY DEF ViewAccurate
<1> DEFINE rec == Head(out[r])
<1>1. /\ alive' = alive /\ gdb' = gdb /\ out[r] # << >>
      /\ out' = [out EXCEPT ![r] = Tail(@)]
      /\ target_state' = NewTargetState(r, rec)
  BY DEF HandleBatch
<1>2. /\ out \in [Ranks -> Seq(Records)]
      /\ target_state \in [Ranks -> TargetState]
      /\ gdb[q] \in {"running", "stopped", "exited"}
  BY DEF TypeOK, SessionTypeOK
<1>3. Consistent(out[q], target_state[q], gdb[q])
  BY <1>1 DEF ViewAccurate
<1>4. CASE q = r
  <2>1. out'[q] = Tail(out[q])
    BY <1>1, <1>2, <1>4
  <2>2. target_state'[q] = IF StateChange(Head(out[q])) THEN Shown(Head(out[q]).kind)
                                                        ELSE target_state[q]
    BY <1>1, <1>2, <1>4 DEF NewTargetState
  <2> QED BY <1>1, <1>2, <1>3, <1>4, <2>1, <2>2, ConsistentHandled
<1>5. CASE q # r
  BY <1>1, <1>2, <1>3, <1>5 DEF NewTargetState
<1> QED BY <1>4, <1>5

\* No step of the user touches what is shown, what the targets do, or the queues of
\* batches.
LEMMA UserStepFrame ==
  ASSUME UserStep
  PROVE  UNCHANGED <<alive, gdb, out, target_state, sent_stop, conn_trgt>>
BY ZenonT(30) DEF UserStep, SendToActive, Interrupt, SendInput, UpdateMark, DeleteMark,
       CloseDialog, masterVars, sessionVars

\* The state shown for a process is the true one as soon as every batch on its way is
\* handled, whatever the interleaving of the user, GDB, dying slaves and the GUI thread.
THEOREM ViewAccuracy == Spec => []ViewAccurate
<1>1. Init => ViewAccurate
  BY DEF Init, SessionInit, ViewAccurate, Consistent
<1>2. TypeOK /\ ViewAccurate /\ [Next]_vars => ViewAccurate'
  <2> SUFFICES ASSUME TypeOK, ViewAccurate, [Next]_vars PROVE ViewAccurate'
    OBVIOUS
  <2>1. CASE UserStep
    BY <2>1, UserStepFrame DEF ViewAccurate
  <2>2. CASE FarStep
    BY <2>2, GdbStepView DEF FarStep
  <2>3. ASSUME NEW r \in Ranks, HandleBatch(r) PROVE ViewAccurate'
    BY <2>3, HandleBatchView
  <2>4. CASE UNCHANGED vars
    BY <2>4 DEF vars, ViewAccurate
  <2> QED BY <2>1, <2>2, <2>3, <2>4 DEF Next
<1> QED BY <1>1, <1>2, TypeCorrect, PTL DEF Spec

-----------------------------------------------------------------------------
(* The stop latch *)

LEMMA StopInAppend ==
  ASSUME NEW s \in Seq(Records), NEW rec \in Records,
         StopIn(s) \/ rec.kind \in {"stopped", "exited"}
  PROVE  StopIn(Append(s, rec))
<1>1. /\ Len(Append(s, rec)) = Len(s) + 1 /\ Append(s, rec)[Len(s) + 1] = rec
      /\ \A i \in 1 .. Len(s) : Append(s, rec)[i] = s[i]
  OBVIOUS
<1>2. /\ Len(s) + 1 \in 1 .. Len(Append(s, rec))
      /\ \A i \in 1 .. Len(s) : i \in 1 .. Len(Append(s, rec))
  BY <1>1
<1> QED BY <1>1, <1>2 DEF StopIn

LEMMA StopInTail ==
  ASSUME NEW s \in Seq(Records), s # << >>, StopIn(s),
         Head(s).kind \notin {"stopped", "exited"}
  PROVE  StopIn(Tail(s))
<1>1. /\ Len(Tail(s)) = Len(s) - 1 /\ Len(s) \in Nat \ {0}
      /\ \A i \in 1 .. Len(s) - 1 : Tail(s)[i] = s[i + 1]
      /\ Head(s) = s[1]
  OBVIOUS
<1>2. PICK i \in 1 .. Len(s) : s[i].kind \in {"stopped", "exited"}
  BY DEF StopIn
<1>3. i # 1
  BY <1>1, <1>2
<1>4. i - 1 \in 1 .. Len(Tail(s)) /\ Tail(s)[i - 1] = s[i]
  BY <1>1, <1>2, <1>3
<1> QED BY <1>2, <1>4 DEF StopIn

\* A target shown as running really runs, or its stop is on the way.
LEMMA RunningShown ==
  ASSUME NEW s \in Seq(Records), NEW g \in {"running", "stopped", "exited"},
         Consistent(s, "RUNNING", g)
  PROVE  StopIn(s) \/ g = "running"
BY DEF Consistent, StopIn, Shown

\* ^C never becomes less by being sent.
LEMMA InterruptsGrow ==
  ASSUME TypeOK, NEW S, SendInterrupts(S), NEW q \in Ranks
  PROVE  /\ sigints[q] > 0 => sigints'[q] > 0
         /\ q \in S /\ alive[q] => sigints'[q] > 0
BY SessionAssumption DEF SendInterrupts, TypeOK, SessionTypeOK

\* Only a SIGINT that is taken, and an exit or the end of the slave, use up a ^C.
LEMMA GdbStepInterrupts ==
  ASSUME TypeOK, NEW r \in Ranks, GdbStep(r), NEW q \in Ranks, alive'[q],
         gdb[q] = "running", gdb'[q] = "running", sigints[q] > 0
  PROVE  sigints'[q] > 0
<1> USE DEF TypeOK, SessionTypeOK
<1>1. CASE GdbResume(r) \/ GdbRun(r) \/ GdbInsert(r) \/ GdbDelete(r)
  BY <1>1 DEF GdbResume, GdbRun, GdbInsert, GdbDelete, GdbReads
<1>2. ASSUME NEW n \in Numbers \cup {0}, GdbStop(r, n) PROVE sigints' = sigints
  BY <1>2 DEF GdbStop
<1>3. CASE GdbExit(r) \/ GdbEof(r) \/ TrgtEof(r)
  BY <1>3 DEF GdbExit, GdbEof, TrgtEof
<1>4. CASE GdbInterrupt(r)
  BY <1>4 DEF GdbInterrupt
<1>5. CASE InterruptLost(r)
  BY <1>5 DEF InterruptLost
<1>6. CASE SlaveDies(r)
  BY <1>6 DEF SlaveDies
<1> QED BY <1>1, <1>2, <1>3, <1>4, <1>5, <1>6 DEF GdbStep

LEMMA GdbStepLatch ==
  ASSUME TypeOK, LatchArmed, NEW r \in Ranks, GdbStep(r), UNCHANGED masterVars
  PROVE  LatchArmed'
<1> SUFFICES ASSUME NEW q \in Ranks, alive'[q], sent_stop'[q]
             PROVE  /\ target_state'[q] = "RUNNING"
                    /\ StopIn(out'[q]) \/ (gdb'[q] = "running" /\ sigints'[q] > 0)
  BY DEF LatchArmed
<1>1. target_state' = target_state /\ sent_stop' = sent_stop
  BY DEF masterVars
<1>2. /\ out \in [Ranks -> Seq(Records)]
      /\ gdb \in [Ranks -> {"running", "stopped", "exited"}]
      /\ alive \in [Ranks -> BOOLEAN]
  BY DEF TypeOK, SessionTypeOK
<1>3. ASSUME NEW rec \in Records, alive' = alive, StateChange(rec),
             rec.kind = "running" => gdb[r] # "running",
             gdb' = [gdb EXCEPT ![r] = rec.kind],
             out' = [out EXCEPT ![r] = Append(@, rec)]
      PROVE  /\ alive[q]
             /\ StopIn(out'[q]) \/ (gdb'[q] = "running" /\ sigints'[q] > 0)
  <2>1. StopIn(out[q]) \/ (gdb[q] = "running" /\ sigints[q] > 0)
    BY <1>1, <1>3 DEF LatchArmed
  <2>2. CASE q = r
    <3>1. StopIn(out[q]) \/ rec.kind \in {"stopped", "exited"}
      BY <1>3, <2>1, <2>2 DEF StateChange
    <3>2. out'[q] = Append(out[q], rec)
      BY <1>2, <1>3, <2>2
    <3> QED BY <1>2, <1>3, <3>1, <3>2, StopInAppend
  <2>3. CASE q # r
    BY <1>2, <1>3, <2>1, <2>3, GdbStepInterrupts
  <2> QED BY <2>2, <2>3
<1>4. ASSUME NEW rec \in Records, alive' = alive, gdb' = gdb,
             out' = [out EXCEPT ![r] = Append(@, rec)]
      PROVE  /\ alive[q]
             /\ StopIn(out'[q]) \/ (gdb'[q] = "running" /\ sigints'[q] > 0)
  <2>1. StopIn(out[q]) \/ (gdb[q] = "running" /\ sigints[q] > 0)
    BY <1>1, <1>4 DEF LatchArmed
  <2>2. StopIn(out[q]) => StopIn(out'[q])
    BY <1>2, <1>4, StopInAppend
  <2> QED BY <1>4, <2>1, <2>2, GdbStepInterrupts
<1>5. CASE alive' = alive /\ gdb' = gdb /\ out' = out
  BY <1>1, <1>5, GdbStepInterrupts DEF LatchArmed
<1>6. CASE /\ alive' = [alive EXCEPT ![r] = FALSE] /\ gdb' = gdb
           /\ \A p \in Ranks \ {r} : out'[p] = out[p]
  <2>1. q # r /\ alive[q]
    BY <1>2, <1>6
  <2> QED BY <1>1, <1>6, <2>1, GdbStepInterrupts DEF LatchArmed
<1>7. alive[q] => target_state'[q] = "RUNNING"
  BY <1>1 DEF LatchArmed
<1> QED BY <1>2, <1>3, <1>4, <1>5, <1>6, <1>7, GdbStepEffect

LEMMA HandleBatchLatch ==
  ASSUME TypeOK, ViewAccurate, LatchArmed, NEW r \in Ranks, HandleBatch(r)
  PROVE  LatchArmed'
<1> DEFINE rec == Head(out[r])
<1> SUFFICES ASSUME NEW q \in Ranks, alive'[q], sent_stop'[q]
             PROVE  /\ target_state'[q] = "RUNNING"
                    /\ StopIn(out'[q]) \/ (gdb'[q] = "running" /\ sigints'[q] > 0)
  BY DEF LatchArmed
<1>1. /\ alive' = alive /\ gdb' = gdb /\ out[r] # << >>
      /\ out' = [out EXCEPT ![r] = Tail(@)]
      /\ target_state' = NewTargetState(r, rec)
  BY DEF HandleBatch
<1>2. PICK S : StopAll(S, NewTargetState(r, rec), Latched(r, rec))
  BY DEF HandleBatch
<1>3. /\ out \in [Ranks -> Seq(Records)] /\ out' \in [Ranks -> Seq(Records)]
      /\ gdb[q] \in {"running", "stopped", "exited"}
      /\ target_state \in [Ranks -> TargetState]
      /\ sent_stop \in [Ranks -> BOOLEAN]
  BY HandleBatchType DEF TypeOK, SessionTypeOK
<1> DEFINE sent == {p \in S : NewTargetState(r, rec)[p] = "RUNNING"
                              /\ ~Latched(r, rec)[p] /\ conn_trgt[p]}
<1>4. /\ sent_stop' = [p \in Ranks |-> Latched(r, rec)[p] \/ p \in sent]
      /\ SendInterrupts(sent)
  BY <1>2 DEF StopAll
<1>5. CASE q \in sent
  <2>1. target_state'[q] = "RUNNING"
    BY <1>1, <1>5
  <2>2. StopIn(out'[q]) \/ gdb'[q] = "running"
    <3>1. Consistent(out'[q], "RUNNING", gdb'[q])
      BY <2>1, HandleBatchView DEF ViewAccurate
    <3> QED BY <1>1, <1>3, <3>1, RunningShown
  <2>3. sigints'[q] > 0
    BY <1>1, <1>4, <1>5, InterruptsGrow
  <2> QED BY <2>1, <2>2, <2>3
<1>6. CASE q \notin sent
  <2>1. Latched(r, rec)[q]
    BY <1>4, <1>6
  <2>2. sent_stop[q] /\ (q = r => rec.kind \notin {"stopped", "exited"})
    BY <1>3, <2>1 DEF Latched
  <2>3. /\ target_state[q] = "RUNNING"
        /\ StopIn(out[q]) \/ (gdb[q] = "running" /\ sigints[q] > 0)
    BY <1>1, <2>2 DEF LatchArmed
  <2>4. target_state'[q] = "RUNNING"
    BY <1>1, <1>3, <2>2, <2>3 DEF NewTargetState, StateChange, Shown
  <2>5. StopIn(out[q]) => StopIn(out'[q])
    <3>1. CASE q = r
      BY <1>1, <1>3, <2>2, <3>1, StopInTail
    <3>2. CASE q # r
      BY <1>1, <1>3, <3>2
    <3> QED BY <3>1, <3>2
  <2>6. sigints[q] > 0 => sigints'[q] > 0
    BY <1>4, InterruptsGrow
  <2> QED BY <1>1, <2>3, <2>4, <2>5, <2>6
<1> QED BY <1>5, <1>6

\* The user never takes a ^C back.
LEMMA UserStepInterrupts ==
  ASSUME TypeOK, UserStep, NEW q \in Ranks, sigints[q] > 0
  PROVE  sigints'[q] > 0
<1>1. ASSUME NEW S \in SUBSET Ranks, Interrupt(S) PROVE sigints'[q] > 0
  BY <1>1, InterruptsGrow DEF Interrupt
<1>2. ASSUME ~(\E S \in SUBSET Ranks : Interrupt(S)) PROVE sigints' = sigints
  BY <1>2, ZenonT(30) DEF UserStep, SendToActive, SendInput, UpdateMark, DeleteMark,
              CloseDialog, sessionVars
<1> QED BY <1>1, <1>2

\* A rank that stop_all has interrupted and that is still shown as running either runs
\* with its ^C to come, or has a stop on its way that clears the latch: no order of
\* hits, restarts, exits and ^C leaves m_sent_stop set for good.
THEOREM LatchSafety == Spec => []LatchArmed
<1>1. Init => LatchArmed
  BY DEF Init, SessionInit, LatchArmed
<1>2. TypeOK /\ ViewAccurate /\ LatchArmed /\ [Next]_vars => LatchArmed'
  <2> SUFFICES ASSUME TypeOK, ViewAccurate, LatchArmed, [Next]_vars
               PROVE  LatchArmed'
    OBVIOUS
  <2>1. CASE UserStep
    BY <2>1, UserStepFrame, UserStepInterrupts DEF LatchArmed
  <2>2. CASE FarStep
    BY <2>2, GdbStepLatch DEF FarStep
  <2>3. ASSUME NEW r \in Ranks, HandleBatch(r) PROVE LatchArmed'
    BY <2>3, HandleBatchLatch
  <2>4. CASE UNCHANGED vars
    BY <2>4 DEF vars, LatchArmed
  <2> QED BY <2>1, <2>2, <2>3, <2>4 DEF Next
<1> QED BY <1>1, <1>2, TypeCorrect, ViewAccuracy, PTL DEF Spec

-----------------------------------------------------------------------------
(* The state shown implements TargetView *)

StateKinds == {"running", "stopped", "exited"}

LEMMA LeastNumber ==
  ASSUME NEW T, T \subseteq Nat, T # {}
  PROVE  \E n \in T : \A m \in T : n <= m
<1>1. PICK n \in T : \A m \in T : ~(<<m, n>> \in OpToRel(<, Nat))
  BY NatLessThanWellFounded, WFMin
<1>2. \A m \in T : ~(m < n)
  BY <1>1 DEF OpToRel
<1> QED BY <1>2

\* The j-th of an ascending list of numbers from 1 on is at least j.
LEMMA AtLeast ==
  ASSUME NEW n \in Nat, NEW f,
         \A i \in 1 .. n : f[i] \in Nat /\ 1 <= f[i],
         \A i, j \in 1 .. n : i < j => f[i] < f[j]
  PROVE  \A j \in 1 .. n : j <= f[j]
<1> DEFINE Low == {j \in 1 .. n : f[j] < j}
<1> SUFFICES ASSUME Low # {} PROVE FALSE
  OBVIOUS
<1>1. Low \subseteq Nat
  OBVIOUS
<1> HIDE DEF Low
<1>2. PICK j \in Low : \A k \in Low : j <= k
  BY <1>1, LeastNumber
<1>3. j \in 1 .. n /\ f[j] < j /\ j \in Nat
  BY <1>2 DEF Low
<1>4. j # 1 /\ j - 1 \in 1 .. n /\ j - 1 < j
  BY <1>3
<1>5. f[j - 1] < f[j]
  BY <1>3, <1>4
<1>6. j - 1 \in Low
  BY <1>3, <1>4, <1>5 DEF Low
<1> QED BY <1>2, <1>3, <1>4, <1>6

\* n places of batches s that hold state changes are all of them, in order.
ListedBy(s, n, at) ==
  /\ n \in 0 .. Len(s) /\ at \in [1 .. n -> 1 .. Len(s)]
  /\ IsPlaces(at, s)

Listed(s) == \E n, at : ListedBy(s, n, at)

Meaning(s, n, at) ==
  /\ n \in Nat /\ Len(s) \in Nat /\ n <= Len(s)
  /\ \A i \in 1 .. n : at[i] \in 1 .. Len(s) /\ at[i] \in Nat /\ StateChange(s[at[i]])
  /\ \A i, j \in 1 .. n : i < j => at[i] < at[j]
  /\ \A p \in 1 .. Len(s) : StateChange(s[p]) => \E i \in 1 .. n : at[i] = p

LEMMA PlacesMeaning ==
  ASSUME NEW s \in Seq(Records), NEW n, NEW at
  PROVE  ListedBy(s, n, at) <=> Meaning(s, n, at) /\ at \in [1 .. n -> 1 .. Len(s)]
<1> DEFINE changes == {i \in 1 .. Len(s) : StateChange(s[i])}
<1>1. ASSUME ListedBy(s, n, at) PROVE Meaning(s, n, at) /\ at \in [1 .. n -> 1 .. Len(s)]
  <2>1. n \in Nat /\ Len(s) \in Nat /\ n <= Len(s) /\ at \in [1 .. n -> 1 .. Len(s)]
    BY <1>1 DEF ListedBy
  <2>2. DOMAIN at = 1 .. n
    BY <2>1
  <2>3. /\ \A i, j \in DOMAIN at : i < j => at[i] < at[j]
        /\ changes = {at[i] : i \in DOMAIN at}
    BY <1>1 DEF ListedBy, IsPlaces
  <2>4. \A i \in 1 .. n : at[i] \in changes
    BY <2>2, <2>3
  <2> QED BY <2>1, <2>2, <2>3, <2>4 DEF Meaning
<1>2. ASSUME Meaning(s, n, at), at \in [1 .. n -> 1 .. Len(s)] PROVE ListedBy(s, n, at)
  <2>1. DOMAIN at = 1 .. n /\ n \in 0 .. Len(s)
    BY <1>2 DEF Meaning
  <2>2. changes = {at[i] : i \in DOMAIN at}
    BY <1>2, <2>1 DEF Meaning
  <2> QED BY <1>2, <2>1, <2>2 DEF ListedBy, IsPlaces, Meaning
<1> QED BY <1>1, <1>2

\* Two lists agree as far as both go, by the first place where they would not.
LEMMA PlacesAgree ==
  ASSUME NEW s \in Seq(Records), NEW m, NEW a, ListedBy(s, m, a),
         NEW n, NEW b, ListedBy(s, n, b)
  PROVE  \A k \in 1 .. m : k \in 1 .. n => a[k] = b[k]
<1>0. Meaning(s, m, a) /\ Meaning(s, n, b)
  BY PlacesMeaning
<1> DEFINE Differ == {k \in 1 .. m : k \in 1 .. n /\ a[k] # b[k]}
<1> SUFFICES ASSUME Differ # {} PROVE FALSE
  OBVIOUS
<1>1. PICK k \in Differ : \A j \in Differ : k <= j
  <2>1. Differ \subseteq Nat
    BY <1>0 DEF Meaning
  <2> HIDE DEF Differ
  <2> QED BY <2>1, LeastNumber
<1>2. k \in 1 .. m /\ k \in 1 .. n /\ a[k] # b[k] /\ k \in Nat
      /\ a[k] \in Nat /\ b[k] \in Nat
  BY <1>0 DEF Meaning
<1>3. ASSUME NEW j \in Nat, j < k, 1 <= j PROVE a[j] = b[j] /\ j \in 1 .. m /\ j \in 1 .. n
  BY <1>1, <1>2, <1>3, <1>0 DEF Meaning
<1> HIDE DEF Differ
<1>4. PICK i \in 1 .. n : b[i] = a[k]
  BY <1>2, <1>0 DEF Meaning
<1>5. PICK j \in 1 .. m : a[j] = b[k]
  BY <1>2, <1>0 DEF Meaning
<1>6. i \in Nat /\ j \in Nat /\ 1 <= i /\ 1 <= j /\ m \in Nat /\ n \in Nat
  BY <1>0 DEF Meaning
<1>7. ~(i < k)
  <2> SUFFICES ASSUME i < k PROVE FALSE
    OBVIOUS
  <2>1. a[i] = b[i] /\ i \in 1 .. m
    BY <1>3, <1>6
  <2>2. a[i] < a[k]
    BY <1>2, <2>1, <1>0 DEF Meaning
  <2> QED BY <1>2, <1>4, <2>1, <2>2
<1>8. ~(j < k)
  <2> SUFFICES ASSUME j < k PROVE FALSE
    OBVIOUS
  <2>1. a[j] = b[j] /\ j \in 1 .. n
    BY <1>3, <1>6
  <2>2. b[j] < b[k]
    BY <1>2, <2>1, <1>0 DEF Meaning
  <2> QED BY <1>2, <1>5, <2>1, <2>2
<1>9. k < i /\ k < j
  BY <1>2, <1>4, <1>5, <1>6, <1>7, <1>8
<1>10. b[k] < a[k] /\ a[k] < b[k]
  BY <1>2, <1>4, <1>5, <1>9, <1>0 DEF Meaning
<1> QED BY <1>2, <1>10

LEMMA PlacesNoLonger ==
  ASSUME NEW s \in Seq(Records), NEW m, NEW a, ListedBy(s, m, a),
         NEW n, NEW b, ListedBy(s, n, b)
  PROVE  ~(m < n)
<1> SUFFICES ASSUME m < n PROVE FALSE
  OBVIOUS
<1>0. Meaning(s, m, a) /\ Meaning(s, n, b)
  BY PlacesMeaning
<1>1. m \in Nat /\ n \in Nat /\ m + 1 \in 1 .. n
  BY <1>0 DEF Meaning
<1>2. PICK i \in 1 .. m : a[i] = b[m + 1]
  BY <1>1, <1>0 DEF Meaning
<1>3. i \in 1 .. n /\ i < m + 1
  BY <1>1
<1>4. b[i] = a[i]
  BY <1>3, PlacesAgree
<1>5. b[i] < b[m + 1] /\ b[i] \in Nat
  BY <1>1, <1>3, <1>0 DEF Meaning
<1> QED BY <1>2, <1>4, <1>5

LEMMA PlacesAre ==
  ASSUME NEW s \in Seq(Records), NEW n, NEW at, ListedBy(s, n, at)
  PROVE  Places(s) = at
<1> DEFINE All == UNION {[1 .. k -> 1 .. Len(s)] : k \in 0 .. Len(s)}
<1>1. at \in All /\ IsPlaces(at, s)
  BY DEF ListedBy
<1>2. Places(s) \in All /\ IsPlaces(Places(s), s)
  BY <1>1 DEF Places
<1>3. PICK k \in 0 .. Len(s) : Places(s) \in [1 .. k -> 1 .. Len(s)]
  BY <1>2
<1>4. ListedBy(s, k, Places(s))
  BY <1>2, <1>3 DEF ListedBy
<1>5. k = n
  BY <1>4, PlacesNoLonger, PlacesMeaning DEF Meaning
<1>6. \A i \in 1 .. n : at[i] = Places(s)[i]
  BY <1>4, <1>5, PlacesAgree
<1> QED BY <1>3, <1>5, <1>6 DEF ListedBy

\* The changes, given a list of their places.
LEMMA ChangesAre ==
  ASSUME NEW s \in Seq(Records), NEW n, NEW at, ListedBy(s, n, at)
  PROVE  /\ Changes(s) \in Seq(StateKinds)
         /\ Len(Changes(s)) = n
         /\ \A i \in 1 .. n : Changes(s)[i] = s[at[i]].kind
<1>1. Changes(s) = [i \in 1 .. n |-> s[at[i]].kind]
  BY PlacesAre DEF Changes, ListedBy
<1>2. \A i \in 1 .. n : s[at[i]].kind \in StateKinds
  BY PlacesMeaning DEF Meaning, StateChange, StateKinds
<1>3. n \in Nat
  BY PlacesMeaning DEF Meaning
<1>4. Changes(s) \in [1 .. n -> StateKinds]
  BY <1>1, <1>2
<1> QED BY <1>1, <1>3, <1>4, SeqDef

\* A batch joins the queue.
LEMMA ChangesAppend ==
  ASSUME NEW s \in Seq(Records), Listed(s), NEW rec \in Records
  PROVE  /\ Listed(Append(s, rec))
         /\ StateChange(rec) => Changes(Append(s, rec)) = Append(Changes(s), rec.kind)
         /\ ~StateChange(rec) => Changes(Append(s, rec)) = Changes(s)
<1> DEFINE t == Append(s, rec)
<1>1. PICK n, at : ListedBy(s, n, at)
  BY DEF Listed
<1>2. Meaning(s, n, at) /\ at \in [1 .. n -> 1 .. Len(s)]
  BY <1>1, PlacesMeaning
<1>3. /\ t \in Seq(Records) /\ Len(t) = Len(s) + 1 /\ t[Len(s) + 1] = rec
      /\ \A i \in 1 .. Len(s) : t[i] = s[i]
      /\ n \in Nat /\ Len(s) \in Nat
  BY <1>2 DEF Meaning
<1> HIDE DEF t
<1>4. /\ Changes(s) \in Seq(StateKinds) /\ Len(Changes(s)) = n
      /\ \A i \in 1 .. n : Changes(s)[i] = s[at[i]].kind
  BY <1>1, ChangesAre
<1>5. ASSUME StateChange(rec)
      PROVE  Listed(t) /\ Changes(t) = Append(Changes(s), rec.kind)
  <2> DEFINE more == [i \in 1 .. n + 1 |-> IF i = n + 1 THEN Len(s) + 1 ELSE at[i]]
  <2>0. \A i \in 1 .. n + 1 : i = n + 1 \/ i \in 1 .. n
    BY <1>3
  <2>1. more \in [1 .. n + 1 -> 1 .. Len(t)]
    BY <1>2, <1>3, <2>0 DEF Meaning
  <2>2. /\ more[n + 1] = Len(s) + 1 /\ n + 1 \in 1 .. n + 1
        /\ \A i \in 1 .. n : i \in 1 .. n + 1 /\ more[i] = at[i]
    BY <1>3
  <2> HIDE DEF more
  <2>3. ListedBy(t, n + 1, more)
    <3>1. \A i \in 1 .. n + 1 : more[i] \in Nat /\ StateChange(t[more[i]])
      <4>1. more[n + 1] \in Nat /\ StateChange(t[more[n + 1]])
        BY <1>3, <1>5, <2>2
      <4>2. \A i \in 1 .. n : more[i] \in Nat /\ t[more[i]] = s[at[i]]
        BY <1>2, <1>3, <2>2 DEF Meaning
      <4>3. \A i \in 1 .. n : StateChange(t[more[i]])
        BY <1>2, <4>2 DEF Meaning
      <4> QED BY <4>1, <4>2, <4>3, <2>0
    <3>2. \A i, j \in 1 .. n + 1 : i < j => more[i] < more[j]
      <4> SUFFICES ASSUME NEW i \in 1 .. n + 1, NEW j \in 1 .. n + 1, i < j
                   PROVE  more[i] < more[j]
        OBVIOUS
      <4>1. i \in 1 .. n
        BY <1>3
      <4>2. CASE j = n + 1
        <5>1. more[i] = at[i] /\ at[i] \in 1 .. Len(s)
          BY <4>1, <1>2, <2>2
        <5>2. more[j] = Len(s) + 1
          BY <4>2, <2>2
        <5> QED BY <5>1, <5>2, <1>3
      <4>3. CASE j \in 1 .. n
        BY <4>1, <4>3, <1>2, <2>2 DEF Meaning
      <4> QED BY <4>2, <4>3, <2>0
    <3>3. \A p \in 1 .. Len(t) : StateChange(t[p]) => \E i \in 1 .. n + 1 : more[i] = p
      <4> SUFFICES ASSUME NEW p \in 1 .. Len(t), StateChange(t[p])
                   PROVE  \E i \in 1 .. n + 1 : more[i] = p
        OBVIOUS
      <4>1. CASE p = Len(s) + 1
        BY <4>1, <2>2
      <4>2. CASE p \in 1 .. Len(s)
        BY <4>2, <1>2, <1>3, <2>2 DEF Meaning
      <4> QED BY <4>1, <4>2, <1>3
    <3>4. Meaning(t, n + 1, more)
      BY <3>1, <3>2, <3>3, <2>1, <1>2, <1>3 DEF Meaning
    <3> QED BY <3>4, <2>1, <1>3, PlacesMeaning
  <2>4. /\ Changes(t) \in Seq(StateKinds) /\ Len(Changes(t)) = n + 1
        /\ \A i \in 1 .. n + 1 : Changes(t)[i] = t[more[i]].kind
    BY <2>3, <1>3, ChangesAre
  <2>5. rec.kind \in StateKinds
    BY <1>5 DEF StateChange, StateKinds
  <2>6. /\ Append(Changes(s), rec.kind) \in Seq(StateKinds)
        /\ Len(Append(Changes(s), rec.kind)) = n + 1
        /\ Append(Changes(s), rec.kind)[n + 1] = rec.kind
        /\ \A i \in 1 .. n : Append(Changes(s), rec.kind)[i] = s[at[i]].kind
    BY <1>4, <2>5
  <2>7. \A i \in 1 .. n + 1 : Changes(t)[i] = Append(Changes(s), rec.kind)[i]
    <3>1. Changes(t)[n + 1] = rec.kind
      BY <1>3, <2>2, <2>4
    <3>2. \A i \in 1 .. n : t[more[i]] = s[at[i]]
      BY <1>2, <1>3, <2>2
    <3>3. \A i \in 1 .. n : Changes(t)[i] = s[at[i]].kind
      BY <3>2, <2>2, <2>4
    <3> QED BY <3>1, <3>3, <2>0, <2>6
  <2>8. Changes(t) = Append(Changes(s), rec.kind)
    BY <2>4, <2>6, <2>7, SeqEqual
  <2> QED BY <2>3, <2>8 DEF Listed
<1>6. ASSUME ~StateChange(rec)
      PROVE  Listed(t) /\ Changes(t) = Changes(s)
  <2>1. at \in [1 .. n -> 1 .. Len(t)]
    BY <1>2, <1>3
  <2>2. Meaning(t, n, at)
    <3>1. \A p \in 1 .. Len(t) : StateChange(t[p]) => p \in 1 .. Len(s)
      BY <1>3, <1>6
    <3>2. \A i \in 1 .. n : t[at[i]] = s[at[i]]
      BY <1>2, <1>3
    <3>3. \A i \in 1 .. n : at[i] \in 1 .. Len(t) /\ at[i] \in Nat /\ StateChange(t[at[i]])
      BY <3>2, <1>2, <2>1 DEF Meaning
    <3>4. n <= Len(t) /\ Len(t) \in Nat
      BY <1>2, <1>3 DEF Meaning
    <3>5. \A p \in 1 .. Len(s) : t[p] = s[p]
      BY <1>3
    <3>6. \A p \in 1 .. Len(t) : StateChange(t[p]) => \E i \in 1 .. n : at[i] = p
      BY <3>1, <3>5, <1>2 DEF Meaning
    <3> QED BY <3>3, <3>4, <3>6, <1>2 DEF Meaning
  <2>3. ListedBy(t, n, at)
    BY <2>1, <2>2, <1>3, PlacesMeaning
  <2>4. /\ Changes(t) \in Seq(StateKinds) /\ Len(Changes(t)) = n
        /\ \A i \in 1 .. n : Changes(t)[i] = t[at[i]].kind
    BY <2>3, <1>3, ChangesAre
  <2>5. \A i \in 1 .. n : Changes(t)[i] = Changes(s)[i]
    BY <1>2, <1>3, <1>4, <2>4 DEF Meaning
  <2>6. Changes(t) = Changes(s)
    BY <1>4, <2>4, <2>5, SeqEqual
  <2> QED BY <2>3, <2>6 DEF Listed
<1> QED BY <1>5, <1>6 DEF t

\* The oldest batch is taken.
LEMMA ChangesTail ==
  ASSUME NEW s \in Seq(Records), s # << >>, Listed(s)
  PROVE  /\ Listed(Tail(s))
         /\ StateChange(Head(s)) => /\ Changes(s) # << >>
                                    /\ Head(Changes(s)) = Head(s).kind
                                    /\ Changes(Tail(s)) = Tail(Changes(s))
         /\ ~StateChange(Head(s)) => Changes(Tail(s)) = Changes(s)
<1> DEFINE t == Tail(s)
<1>1. PICK n, at : ListedBy(s, n, at)
  BY DEF Listed
<1>2. Meaning(s, n, at) /\ at \in [1 .. n -> 1 .. Len(s)]
  BY <1>1, PlacesMeaning
<1>3. /\ t \in Seq(Records) /\ Len(t) = Len(s) - 1 /\ Head(s) = s[1]
      /\ \A i \in 1 .. Len(t) : t[i] = s[i + 1]
      /\ n \in Nat /\ Len(s) \in Nat \ {0}
  BY <1>2 DEF Meaning
<1> HIDE DEF t
<1>4. /\ Changes(s) \in Seq(StateKinds) /\ Len(Changes(s)) = n
      /\ \A i \in 1 .. n : Changes(s)[i] = s[at[i]].kind
  BY <1>1, ChangesAre
<1>5. ASSUME StateChange(Head(s))
      PROVE  /\ Listed(t)
             /\ Changes(s) # << >> /\ Head(Changes(s)) = Head(s).kind
             /\ Changes(t) = Tail(Changes(s))
  <2>1. PICK i \in 1 .. n : at[i] = 1
    BY <1>2, <1>3, <1>5 DEF Meaning
  <2>2. 1 \in 1 .. n /\ at[1] = 1 /\ n \in Nat \ {0} /\ n - 1 \in Nat
    <3>1. 1 \in 1 .. n
      BY <1>3, <2>1
    <3>2. ~(1 < i)
      BY <3>1, <2>1, <1>2 DEF Meaning
    <3> QED BY <3>1, <3>2, <2>1, <1>3
  <2>3. \A j \in 1 .. n : j # 1 => at[j] > 1
    BY <2>2, <1>2, <1>3 DEF Meaning
  <2> DEFINE less == [j \in 1 .. n - 1 |-> at[j + 1] - 1]
  <2>4. \A j \in 1 .. n - 1 : /\ j + 1 \in 1 .. n /\ at[j + 1] > 1 /\ at[j + 1] \in Nat
                              /\ at[j + 1] - 1 \in 1 .. Len(t)
                              /\ less[j] = at[j + 1] - 1
    BY <1>2, <1>3, <2>2, <2>3 DEF Meaning
  <2>5. less \in [1 .. n - 1 -> 1 .. Len(t)]
    BY <2>4
  <2> HIDE DEF less
  <2>6. \A j \in 1 .. n - 1 : t[less[j]] = s[at[j + 1]]
    BY <1>3, <2>4
  <2>7. ListedBy(t, n - 1, less)
    <3>1. \A j \in 1 .. n - 1 : less[j] \in Nat /\ StateChange(t[less[j]])
      <4>1. \A j \in 1 .. n - 1 : StateChange(s[at[j + 1]])
        BY <2>4, <1>2 DEF Meaning
      <4> QED BY <4>1, <2>4, <2>6
    <3>2. \A j, k \in 1 .. n - 1 : j < k => less[j] < less[k]
      <4> SUFFICES ASSUME NEW j \in 1 .. n - 1, NEW k \in 1 .. n - 1, j < k
                   PROVE  less[j] < less[k]
        OBVIOUS
      <4>1. at[j + 1] < at[k + 1]
        BY <2>4, <1>2 DEF Meaning
      <4> QED BY <4>1, <2>4
    <3>3. \A p \in 1 .. Len(t) : StateChange(t[p]) => \E j \in 1 .. n - 1 : less[j] = p
      <4> SUFFICES ASSUME NEW p \in 1 .. Len(t), StateChange(t[p])
                   PROVE  \E j \in 1 .. n - 1 : less[j] = p
        OBVIOUS
      <4>1. p + 1 \in 1 .. Len(s) /\ StateChange(s[p + 1])
        BY <1>3
      <4>2. PICK k \in 1 .. n : at[k] = p + 1
        BY <4>1, <1>2 DEF Meaning
      <4>3. k # 1
        BY <4>2, <2>2
      <4>4. k - 1 \in 1 .. n - 1 /\ (k - 1) + 1 = k
        BY <4>3, <2>2
      <4>5. less[k - 1] = p
        BY <4>2, <4>4, <2>4
      <4> QED BY <4>4, <4>5
    <3>4. Meaning(t, n - 1, less)
      BY <3>1, <3>2, <3>3, <2>2, <2>5, <1>2, <1>3 DEF Meaning
    <3> QED BY <3>4, <2>5, <1>3, PlacesMeaning
  <2>8. /\ Changes(t) \in Seq(StateKinds) /\ Len(Changes(t)) = n - 1
        /\ \A j \in 1 .. n - 1 : Changes(t)[j] = t[less[j]].kind
    <3>1. ASSUME NEW m, ListedBy(t, m, less)
          PROVE  /\ Changes(t) \in Seq(StateKinds) /\ Len(Changes(t)) = m
                 /\ \A j \in 1 .. m : Changes(t)[j] = t[less[j]].kind
      BY <3>1, <1>3, ChangesAre
    <3> QED BY <2>7, <3>1
  <2>9. Changes(s) # << >> /\ Head(Changes(s)) = Head(s).kind
    BY <1>3, <1>4, <2>2
  <2>10. /\ Tail(Changes(s)) \in Seq(StateKinds) /\ Len(Tail(Changes(s))) = n - 1
         /\ \A j \in 1 .. n - 1 : Tail(Changes(s))[j] = Changes(s)[j + 1]
    BY <1>4, <2>2, <2>9
  <2>11. \A j \in 1 .. n - 1 : Changes(t)[j] = Tail(Changes(s))[j]
    BY <1>4, <2>4, <2>6, <2>8, <2>10, ZenonT(30)
  <2>12. Changes(t) = Tail(Changes(s))
    BY <2>8, <2>10, <2>11, SeqEqual
  <2> QED BY <2>7, <2>9, <2>12 DEF Listed
<1>6. ASSUME ~StateChange(Head(s))
      PROVE  Listed(t) /\ Changes(t) = Changes(s)
  <2> DEFINE less == [j \in 1 .. n |-> at[j] - 1]
  <2>1. \A j \in 1 .. n : at[j] \in Nat /\ at[j] > 1 /\ at[j] - 1 \in 1 .. Len(t)
                          /\ less[j] = at[j] - 1
    BY <1>2, <1>3, <1>6 DEF Meaning
  <2>2. less \in [1 .. n -> 1 .. Len(t)]
    BY <2>1
  <2> HIDE DEF less
  <2>3. \A j \in 1 .. n : t[less[j]] = s[at[j]]
    BY <1>3, <2>1
  <2>4. n <= Len(t)
    <3>1. CASE n = 0
      BY <3>1, <1>3
    <3>2. CASE n # 0
      <4>1. \A j, i \in 1 .. n : j < i => less[j] < less[i]
        BY <2>1, <1>2 DEF Meaning
      <4>2. \A j \in 1 .. n : less[j] \in Nat /\ 1 <= less[j]
        BY <2>1
      <4>3. \A j \in 1 .. n : j <= less[j]
        BY <4>1, <4>2, <1>3, AtLeast
      <4> QED BY <3>2, <4>3, <1>3, <2>1
    <3> QED BY <3>1, <3>2
  <2>5. ListedBy(t, n, less)
    <3>1. \A j \in 1 .. n : less[j] \in Nat /\ StateChange(t[less[j]])
      BY <2>1, <2>3, <1>2 DEF Meaning
    <3>2. \A j, k \in 1 .. n : j < k => less[j] < less[k]
      BY <2>1, <1>2 DEF Meaning
    <3>3. \A p \in 1 .. Len(t) : StateChange(t[p]) => \E j \in 1 .. n : less[j] = p
      <4> SUFFICES ASSUME NEW p \in 1 .. Len(t), StateChange(t[p])
                   PROVE  \E j \in 1 .. n : less[j] = p
        OBVIOUS
      <4>1. p + 1 \in 1 .. Len(s) /\ StateChange(s[p + 1])
        BY <1>3
      <4>2. PICK k \in 1 .. n : at[k] = p + 1
        BY <4>1, <1>2 DEF Meaning
      <4> QED BY <4>2, <2>1
    <3>4. Meaning(t, n, less)
      BY <3>1, <3>2, <3>3, <2>2, <2>4, <1>2, <1>3 DEF Meaning
    <3> QED BY <3>4, <2>2, <1>3, PlacesMeaning
  <2>6. /\ Changes(t) \in Seq(StateKinds) /\ Len(Changes(t)) = n
        /\ \A j \in 1 .. n : Changes(t)[j] = t[less[j]].kind
    BY <2>5, <1>3, ChangesAre
  <2>7. \A j \in 1 .. n : Changes(t)[j] = Changes(s)[j]
    BY <1>4, <2>3, <2>6
  <2>8. Changes(t) = Changes(s)
    BY <1>4, <2>6, <2>7, SeqEqual
  <2> QED BY <2>5, <2>8 DEF Listed
<1> QED BY <1>5, <1>6 DEF t

\* The newest batches are lost.
LEMMA ChangesPrefix ==
  ASSUME NEW s \in Seq(Records), Listed(s), NEW k \in 0 .. Len(s)
  PROVE  /\ Listed(SubSeq(s, 1, k))
         /\ \E j \in 0 .. Len(Changes(s)) :
              Changes(SubSeq(s, 1, k)) = SubSeq(Changes(s), 1, j)
<1> DEFINE t == SubSeq(s, 1, k)
<1>1. PICK n, at : ListedBy(s, n, at)
  BY DEF Listed
<1>2. Meaning(s, n, at) /\ at \in [1 .. n -> 1 .. Len(s)]
  BY <1>1, PlacesMeaning
<1>3. /\ t \in Seq(Records) /\ Len(t) = k
      /\ \A i \in 1 .. k : t[i] = s[i]
      /\ n \in Nat /\ Len(s) \in Nat /\ k \in Nat /\ k <= Len(s)
  BY <1>2 DEF Meaning
<1> HIDE DEF t
<1>4. /\ Changes(s) \in Seq(StateKinds) /\ Len(Changes(s)) = n
      /\ \A i \in 1 .. n : Changes(s)[i] = s[at[i]].kind
  BY <1>1, ChangesAre
<1>5. PICK m \in 0 .. n : /\ \A i \in 1 .. m : at[i] <= k
                         /\ \A i \in 1 .. n : i > m => at[i] > k
  <2> DEFINE Beyond == {i \in 1 .. n : at[i] > k}
  <2>1. CASE Beyond = {}
    <3>1. \A i \in 1 .. n : at[i] <= k /\ ~(i > n)
      BY <2>1, <1>2, <1>3 DEF Meaning
    <3> QED BY <3>1, <1>3
  <2>2. CASE Beyond # {}
    <3>1. Beyond \subseteq Nat
      OBVIOUS
    <3> HIDE DEF Beyond
    <3>2. PICK i \in Beyond : \A j \in Beyond : i <= j
      BY <3>1, <2>2, LeastNumber
    <3>3. i \in 1 .. n /\ at[i] > k /\ i - 1 \in 0 .. n
      BY <3>2, <1>3 DEF Beyond
    <3>4. ASSUME NEW j \in 1 .. i - 1 PROVE at[j] <= k
      <4>1. j \in 1 .. n /\ j < i
        <5>1. i \in Nat /\ n \in Nat /\ i <= n
          BY <3>3, <1>3
        <5> QED BY <5>1
      <4>2. j \notin Beyond
        BY <3>2, <3>3, <4>1
      <4> QED BY <4>1, <4>2, <1>2, <1>3 DEF Beyond, Meaning
    <3>5. ASSUME NEW j \in 1 .. n, j > i - 1 PROVE at[j] > k
      <4>1. CASE j = i
        BY <4>1, <3>3
      <4>2. CASE i < j
        <5>1. at[i] < at[j] /\ at[i] \in Nat /\ at[j] \in Nat
          BY <3>3, <4>2, <1>2 DEF Meaning
        <5> QED BY <5>1, <3>3, <1>3
      <4> QED BY <4>1, <4>2, <3>3, <3>5
    <3> QED BY <3>3, <3>4, <3>5
  <2> QED BY <2>1, <2>2
<1>6. m \in Nat /\ m <= n /\ \A i \in 1 .. m : i \in 1 .. n
  BY <1>3
<1> DEFINE less == [i \in 1 .. m |-> at[i]]
<1>7. \A i \in 1 .. m : less[i] = at[i] /\ at[i] \in 1 .. k /\ at[i] \in Nat
  BY <1>2, <1>3, <1>5, <1>6 DEF Meaning
<1>8. less \in [1 .. m -> 1 .. Len(t)]
  BY <1>3, <1>7
<1> HIDE DEF less
<1>9. \A i \in 1 .. m : t[less[i]] = s[at[i]]
  BY <1>3, <1>7
<1>10. ListedBy(t, m, less)
  <2>1. \A i \in 1 .. m : less[i] \in Nat /\ 1 <= less[i] /\ StateChange(t[less[i]])
    <3>1. \A i \in 1 .. m : StateChange(s[at[i]])
      BY <1>2, <1>6 DEF Meaning
    <3> QED BY <3>1, <1>7, <1>9
  <2>2. \A i, j \in 1 .. m : i < j => less[i] < less[j]
    BY <1>2, <1>6, <1>7 DEF Meaning
  <2>3. m <= Len(t)
    <3>1. \A i \in 1 .. m : i <= less[i]
      BY <1>6, <2>1, <2>2, AtLeast
    <3> QED BY <3>1, <1>3, <1>6, <1>7
  <2>4. \A p \in 1 .. Len(t) : StateChange(t[p]) => \E i \in 1 .. m : less[i] = p
    <3> SUFFICES ASSUME NEW p \in 1 .. Len(t), StateChange(t[p])
                 PROVE  \E i \in 1 .. m : less[i] = p
      OBVIOUS
    <3>1. p \in 1 .. Len(s) /\ StateChange(s[p]) /\ p <= k
      BY <1>3
    <3>2. PICK i \in 1 .. n : at[i] = p
      BY <3>1, <1>2 DEF Meaning
    <3>3. ~(i > m)
      BY <3>1, <3>2, <1>3, <1>5
    <3>4. i \in 1 .. m
      BY <3>3, <1>6
    <3> QED BY <3>2, <3>4, <1>7
  <2>5. Meaning(t, m, less)
    BY <2>1, <2>2, <2>3, <2>4, <1>3, <1>6, <1>8 DEF Meaning
  <2> QED BY <2>5, <1>3, <1>8, PlacesMeaning
<1>11. /\ Changes(t) \in Seq(StateKinds) /\ Len(Changes(t)) = m
       /\ \A i \in 1 .. m : Changes(t)[i] = t[less[i]].kind
  BY <1>3, <1>10, ChangesAre
<1>12. /\ SubSeq(Changes(s), 1, m) \in Seq(StateKinds)
       /\ Len(SubSeq(Changes(s), 1, m)) = m
       /\ \A i \in 1 .. m : SubSeq(Changes(s), 1, m)[i] = Changes(s)[i]
  BY <1>4, <1>6
<1>13. \A i \in 1 .. m : Changes(t)[i] = SubSeq(Changes(s), 1, m)[i]
  BY <1>4, <1>6, <1>9, <1>11, <1>12
<1>14. Changes(t) = SubSeq(Changes(s), 1, m)
  BY <1>11, <1>12, <1>13, SeqEqual
<1>15. Listed(t)
  BY <1>10 DEF Listed
<1>16. \E j \in 0 .. Len(Changes(s)) : Changes(t) = SubSeq(Changes(s), 1, j)
  BY <1>4, <1>14
<1> QED BY <1>15, <1>16 DEF t

\* Before the first batch.
LEMMA ChangesNone ==
  Listed(<< >>) /\ Changes(<< >>) = << >>
<1>1. << >> \in Seq(Records) /\ Len(<< >>) = 0
  OBVIOUS
<1>2. Meaning(<< >>, 0, << >>) /\ << >> \in [1 .. 0 -> 1 .. Len(<< >>)]
  BY <1>1 DEF Meaning
<1>3. ListedBy(<< >>, 0, << >>)
  BY <1>1, <1>2, PlacesMeaning
<1>4. Changes(<< >>) \in Seq(StateKinds) /\ Len(Changes(<< >>)) = 0
  BY <1>1, <1>3, ChangesAre
<1> QED BY <1>3, <1>4 DEF Listed

\* Every queue has a list of its state changes.
QueuesListed == \A r \in Ranks : Listed(out[r])

\* What a step does to one queue of batches and to its state changes.
LEMMA QueueStep ==
  ASSUME TypeOK, QueuesListed, NEW r \in Ranks, NEW s, out' = [out EXCEPT ![r] = s],
         Listed(s)
  PROVE  /\ QueuesListed'
         /\ [q \in Ranks |-> Changes(out[q])]' =
              [[q \in Ranks |-> Changes(out[q])] EXCEPT ![r] = Changes(s)]
<1>1. out \in [Ranks -> Seq(Records)]
  BY DEF TypeOK, SessionTypeOK
<1>2. out'[r] = s /\ \A q \in Ranks \ {r} : out'[q] = out[q]
  BY <1>1
<1>3. QueuesListed'
  BY <1>2 DEF QueuesListed
<1>4. \A q \in Ranks : Changes(out'[q]) = IF q = r THEN Changes(s) ELSE Changes(out[q])
  BY <1>2
<1>5. [q \in Ranks |-> Changes(out[q])]' = [q \in Ranks |-> Changes(out'[q])]
  OBVIOUS
<1> QED BY <1>3, <1>4, <1>5

\* GDB, its target and its slave change the state, answer, or lose batches.
LEMMA GdbStepRefines ==
  ASSUME TypeOK, QueuesListed, NEW r \in Ranks, GdbStep(r), UNCHANGED masterVars
  PROVE  QueuesListed' /\ [View!Next]_(View!vars)
<1> DEFINE pending == [q \in Ranks |-> Changes(out[q])]
<1>0. /\ target_state' = target_state
      /\ [q \in Ranks |-> Shows[target_state[q]]]' = [q \in Ranks |-> Shows[target_state[q]]]
  BY DEF masterVars
<1>1. /\ out[r] \in Seq(Records) /\ Listed(out[r]) /\ pending[r] = Changes(out[r])
      /\ gdb \in [Ranks -> {"running", "stopped", "exited"}]
  BY DEF TypeOK, SessionTypeOK, QueuesListed
<1>2. ASSUME NEW rec \in Records, StateChange(rec),
             rec.kind = "running" <=> gdb[r] # "running",
             gdb' = [gdb EXCEPT ![r] = rec.kind],
             out' = [out EXCEPT ![r] = Append(@, rec)]
      PROVE  QueuesListed' /\ [View!Next]_(View!vars)
  <2>1. Listed(Append(out[r], rec))
        /\ Changes(Append(out[r], rec)) = Append(Changes(out[r]), rec.kind)
    BY <1>1, <1>2, ChangesAppend
  <2>2. out' = [out EXCEPT ![r] = Append(out[r], rec)]
    BY <1>2
  <2>3. QueuesListed'
        /\ pending' = [pending EXCEPT ![r] = Changes(Append(out[r], rec))]
    BY <2>1, <2>2, QueueStep
  <2>4. pending' = [pending EXCEPT ![r] = Append(@, rec.kind)]
    BY <1>1, <2>1, <2>3
  <2>5. rec.kind \in {"running", "stopped", "exited"}
        /\ (gdb[r] = "running" <=> rec.kind \in {"stopped", "exited"})
    BY <1>2 DEF StateChange
  <2>6. View!Change(r, rec.kind)
    BY <1>0, <1>2, <2>4, <2>5 DEF View!Change
  <2> QED BY <2>3, <2>5, <2>6 DEF View!Next
<1>3. ASSUME NEW rec \in Records, ~StateChange(rec), gdb' = gdb,
             out' = [out EXCEPT ![r] = Append(@, rec)]
      PROVE  QueuesListed' /\ [View!Next]_(View!vars)
  <2>1. Listed(Append(out[r], rec)) /\ Changes(Append(out[r], rec)) = Changes(out[r])
    BY <1>1, <1>3, ChangesAppend
  <2>2. out' = [out EXCEPT ![r] = Append(out[r], rec)]
    BY <1>3
  <2>3. QueuesListed'
        /\ pending' = [pending EXCEPT ![r] = Changes(Append(out[r], rec))]
    BY <2>1, <2>2, QueueStep
  <2>4. pending' = pending
    BY <1>1, <2>1, <2>3
  <2> QED BY <1>0, <1>3, <2>3, <2>4 DEF View!vars
<1>4. CASE gdb' = gdb /\ out' = out
  BY <1>0, <1>4 DEF QueuesListed, View!vars
<1>5. ASSUME gdb' = gdb, NEW k \in 0 .. Len(out[r]),
             out' = [out EXCEPT ![r] = SubSeq(@, 1, k)]
      PROVE  QueuesListed' /\ [View!Next]_(View!vars)
  <2>1. /\ Listed(SubSeq(out[r], 1, k))
        /\ \E j \in 0 .. Len(Changes(out[r])) :
             Changes(SubSeq(out[r], 1, k)) = SubSeq(Changes(out[r]), 1, j)
    BY <1>1, ChangesPrefix
  <2>2. out' = [out EXCEPT ![r] = SubSeq(out[r], 1, k)]
    BY <1>5
  <2>3. QueuesListed'
        /\ pending' = [pending EXCEPT ![r] = Changes(SubSeq(out[r], 1, k))]
    BY <2>1, <2>2, QueueStep
  <2>4. \E j \in 0 .. Len(pending[r]) : pending' = [pending EXCEPT ![r] = SubSeq(@, 1, j)]
    BY <1>1, <2>1, <2>3
  <2>5. View!Lose(r)
    BY <1>0, <1>5, <2>4 DEF View!Lose
  <2> QED BY <2>3, <2>5 DEF View!Next
<1> QED BY <1>2, <1>3, <1>4, <1>5, GdbStepEffect

\* The master shows the oldest change, or handles an answer and shows what it showed.
LEMMA HandleBatchRefines ==
  ASSUME TypeOK, QueuesListed, NEW r \in Ranks, HandleBatch(r)
  PROVE  QueuesListed' /\ [View!Next]_(View!vars)
<1> DEFINE pending == [q \in Ranks |-> Changes(out[q])]
           shown == [q \in Ranks |-> Shows[target_state[q]]]
           rec == Head(out[r])
<1>1. /\ out[r] \in Seq(Records) /\ Listed(out[r]) /\ pending[r] = Changes(out[r])
      /\ target_state \in [Ranks -> TargetState]
  BY DEF TypeOK, SessionTypeOK, QueuesListed
<1>2. /\ out[r] # << >> /\ gdb' = gdb
      /\ out' = [out EXCEPT ![r] = Tail(out[r])]
      /\ target_state' = NewTargetState(r, rec)
  BY DEF HandleBatch
<1>3. /\ Listed(Tail(out[r]))
      /\ StateChange(rec) => /\ Changes(out[r]) # << >>
                             /\ Head(Changes(out[r])) = rec.kind
                             /\ Changes(Tail(out[r])) = Tail(Changes(out[r]))
      /\ ~StateChange(rec) => Changes(Tail(out[r])) = Changes(out[r])
  BY <1>1, <1>2, ChangesTail
<1>4. QueuesListed' /\ pending' = [pending EXCEPT ![r] = Changes(Tail(out[r]))]
  BY <1>2, <1>3, QueueStep
<1>5. CASE StateChange(rec)
  <2>1. pending' = [pending EXCEPT ![r] = Tail(@)]
    BY <1>1, <1>3, <1>4, <1>5
  <2>2. Shows[Shown(rec.kind)] = rec.kind
    BY <1>5 DEF StateChange, Shown, Shows
  <2>3. shown' = [shown EXCEPT ![r] = rec.kind]
    BY <1>1, <1>2, <1>5, <2>2 DEF NewTargetState
  <2>4. pending[r] # << >> /\ Head(pending[r]) = rec.kind
    BY <1>1, <1>3, <1>5
  <2>5. View!Observe(r)
    BY <1>2, <2>1, <2>3, <2>4 DEF View!Observe
  <2> QED BY <1>4, <2>5 DEF View!Next
<1>6. CASE ~StateChange(rec)
  <2>1. pending' = pending
    BY <1>1, <1>3, <1>4, <1>6
  <2>2. shown' = shown
    BY <1>2, <1>6 DEF NewTargetState
  <2> QED BY <1>2, <1>4, <2>1, <2>2 DEF View!vars
<1> QED BY <1>5, <1>6

\* The state shown for a process goes through the states its target goes through, in
\* their order, none skipped and none invented, but for those a dying slave loses: each
\* step of the user, GDB, a slave or the GUI thread is one of TargetView or leaves the
\* view alone.  (That the view catches up is the fairness TLC checks.)
THEOREM ViewStepwise == Spec => View!Init /\ [][View!Next]_(View!vars)
<1>1. Init => View!Init /\ QueuesListed
  BY ChangesNone DEF Init, SessionInit, View!Init, Shows, QueuesListed
<1>2. TypeOK /\ QueuesListed /\ [Next]_vars => QueuesListed' /\ [View!Next]_(View!vars)
  <2> SUFFICES ASSUME TypeOK, QueuesListed, [Next]_vars
               PROVE  QueuesListed' /\ [View!Next]_(View!vars)
    OBVIOUS
  <2>1. CASE UserStep
    <3>1. gdb' = gdb /\ out' = out /\ target_state' = target_state
      BY <2>1, UserStepFrame
    <3> QED BY <3>1 DEF QueuesListed, View!vars
  <2>2. CASE FarStep
    BY <2>2, GdbStepRefines DEF FarStep
  <2>3. ASSUME NEW r \in Ranks, HandleBatch(r)
        PROVE  QueuesListed' /\ [View!Next]_(View!vars)
    BY <2>3, HandleBatchRefines
  <2>4. CASE UNCHANGED vars
    BY <2>4 DEF vars, QueuesListed, View!vars
  <2> QED BY <2>1, <2>2, <2>3, <2>4 DEF Next
<1> QED BY <1>1, <1>2, TypeCorrect, PTL DEF Spec
=============================================================================
