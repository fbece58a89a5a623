----------------------- MODULE BreakpointsMarkProofs -----------------------
(***************************************************************************)
(* Theorems about the marks and the numbers of Breakpoints, for any ranks, *)
(* objects and bounds: what holds whatever the user does, and what holds   *)
(* for a user who edits a mark only when nothing is in flight.             *)
(***************************************************************************)
EXTENDS BreakpointsProofs

-----------------------------------------------------------------------------
(* The marks *)

Settable(states) == \A r \in Ranks : states[r] \in {"NOT_EXISTING", "CREATED"}

\* A message box of the kind is open about b.
BoxAbout(kind, b) == dialog.kind = kind /\ dialog.bp = b

\* An object no box is about: its mark shows whether a rank has the breakpoint.
Settles(b) ==
  /\ Settable(bstate[b])
  /\ (life[b] = "marked") <=> OneCreated(bstate[b])
  /\ life[b] # "open"

\* What a box leaves for CloseDialog to put right.
Pending(b) ==
  /\ BoxAbout("info", b) => Settable(bstate[b]) /\ life[b] \in {"open", "marked"}
  /\ BoxAbout("not_deleted", b) =>
       /\ life[b] = "marked"
       /\ \A r \in Ranks : bstate[b][r] \in {"NOT_EXISTING", "CREATED", "ERROR_DELETING"}
       /\ \E r \in Ranks : bstate[b][r] = "ERROR_DELETING"

MarksInv ==
  /\ (dialog.kind = "none") <=> GuiIdle
  /\ ~GuiIdle => dialog.bp \in Bkpts
  /\ \A b \in Bkpts : (GuiIdle \/ dialog.bp # b => Settles(b)) /\ Pending(b)

LEMMA UpdateStatesSettable ==
  ASSUME NEW states \in [Ranks -> BreakpointState]
  PROVE  /\ Settable(UpdateStates(states))
         /\ \A r \in Ranks : UpdateStates(states)[r] = "CREATED"
                             <=> states[r] \in {"CREATED", "ERROR_DELETING"}
BY DEF UpdateStates, BreakpointState, Settable

LEMMA UpdateMarkMarks ==
  ASSUME TypeOK, MarksInv, NEW b \in Bkpts, NEW buttons \in SUBSET Ranks,
         NEW flag \in BOOLEAN, UpdateMark(b, buttons, flag)
  PROVE  MarksInv'
<1> DEFINE drop == {r \in Ranks : r \notin buttons /\ is_created(b, r)}
           add  == {r \in buttons : ~is_created(b, r)}
           states == [r \in Ranks |-> IF r \in drop THEN AfterDelete(r)
                                      ELSE IF r \in add THEN AfterCreate(r)
                                      ELSE bstate[b][r]]
<1>1. GuiIdle /\ \A c \in Bkpts : Settles(c)
  BY DEF UpdateMark, MayEdit, MarksInv
<1>2. states \in [Ranks -> BreakpointState]
  BY DEF AfterDelete, AfterCreate, BreakpointState, TypeOK
<1>3. bstate' = [bstate EXCEPT ![b] = UpdateStates(states)]
  BY DEF UpdateMark
<1>4. \/ /\ dialog' = [kind |-> "info", bp |-> b]
         /\ life' = [life EXCEPT ![b] = IF @ = "unborn" THEN "open" ELSE @]
      \/ /\ dialog' = dialog
         /\ life' = [life EXCEPT ![b] = Settled(UpdateStates(states))]
  BY DEF UpdateMark
<1> HIDE DEF states
<1>5. Settable(UpdateStates(states)) /\ bstate'[b] = UpdateStates(states)
  BY <1>2, <1>3, UpdateStatesSettable DEF TypeOK
<1>6. life[b] \in {"unborn", "marked"}
  BY DEF UpdateMark
<1>7. ASSUME NEW c \in Bkpts, c # b PROVE Settles(c)'
  BY <1>1, <1>3, <1>4, <1>7 DEF Settles, TypeOK
<1>8. CASE dialog' = dialog
  <2>1. life'[b] = Settled(bstate'[b])
    BY <1>4, <1>5, <1>8, <1>1 DEF TypeOK, GuiIdle, NoDialog
  <2>2. Settles(b)'
    BY <1>5, <2>1 DEF Settles, Settled
  <2> QED BY <1>1, <1>7, <1>8, <2>2 DEF MarksInv, Pending, BoxAbout, GuiIdle, NoDialog
<1>9. CASE /\ dialog' = [kind |-> "info", bp |-> b]
           /\ life' = [life EXCEPT ![b] = IF @ = "unborn" THEN "open" ELSE @]
  <2>1. life'[b] \in {"open", "marked"}
    BY <1>6, <1>9 DEF TypeOK
  <2>2. dialog'.kind = "info" /\ dialog'.bp = b /\ ~GuiIdle'
    BY <1>9 DEF GuiIdle, NoDialog
  <2>3. Pending(b)' /\ \A c \in Bkpts : c # b => Pending(c)'
    BY <1>5, <2>1, <2>2 DEF Pending, BoxAbout
  <2> QED BY <1>7, <2>2, <2>3 DEF MarksInv
<1> QED BY <1>4, <1>8, <1>9

LEMMA DeleteMarkMarks ==
  ASSUME TypeOK, MarksInv, NEW b \in Bkpts, DeleteMark(b)
  PROVE  MarksInv'
<1> DEFINE targets == {r \in Ranks : is_created(b, r)}
           states == [r \in Ranks |-> IF r \in targets THEN AfterDelete(r)
                                                       ELSE bstate[b][r]]
<1>1. GuiIdle /\ \A c \in Bkpts : Settles(c)
  BY DEF DeleteMark, MayEdit, MarksInv
<1>2. states \in [Ranks -> BreakpointState]
  BY DEF AfterDelete, BreakpointState, TypeOK
<1>3. \A r \in Ranks : states[r] = IF r \in targets /\ ~Accepts(r)
                                   THEN "ERROR_DELETING" ELSE "NOT_EXISTING"
  BY <1>1 DEF Settles, Settable, is_created, AfterDelete
<1>4. life[b] = "marked"
  BY DEF DeleteMark
<1>5. \/ /\ \A r \in targets : Accepts(r)
         /\ bstate' = [bstate EXCEPT ![b] = UpdateStates(states)]
         /\ life' = [life EXCEPT ![b] = "freed"]
         /\ dialog' = dialog
      \/ /\ \E r \in targets : ~Accepts(r)
         /\ bstate' = [bstate EXCEPT ![b] = states]
         /\ dialog' = [kind |-> "not_deleted", bp |-> b]
         /\ life' = life
  BY DEF DeleteMark
<1>6. targets \subseteq Ranks
  OBVIOUS
<1> HIDE DEF targets, states
<1>7. ASSUME NEW c \in Bkpts, c # b PROVE Settles(c)'
  BY <1>1, <1>5, <1>7 DEF Settles, TypeOK
<1>8. CASE /\ \A r \in targets : Accepts(r)
           /\ bstate' = [bstate EXCEPT ![b] = UpdateStates(states)]
           /\ life' = [life EXCEPT ![b] = "freed"]
           /\ dialog' = dialog
  <2>1. bstate'[b] = UpdateStates(states) /\ life'[b] = "freed"
    BY <1>8 DEF TypeOK
  <2>2. ~OneCreated(bstate'[b]) /\ Settable(bstate'[b])
    BY <1>2, <1>3, <1>6, <1>8, <2>1, UpdateStatesSettable DEF OneCreated
  <2>3. Settles(b)'
    BY <2>1, <2>2 DEF Settles
  <2> QED BY <1>1, <1>7, <1>8, <2>3 DEF MarksInv, Pending, BoxAbout, GuiIdle, NoDialog
<1>9. CASE /\ \E r \in targets : ~Accepts(r)
           /\ bstate' = [bstate EXCEPT ![b] = states]
           /\ dialog' = [kind |-> "not_deleted", bp |-> b]
           /\ life' = life
  <2>1. bstate'[b] = states /\ life'[b] = "marked"
    BY <1>4, <1>9 DEF TypeOK
  <2>2. dialog'.kind = "not_deleted" /\ dialog'.bp = b /\ ~GuiIdle'
    BY <1>9 DEF GuiIdle, NoDialog
  <2>3. Pending(b)' /\ \A c \in Bkpts : c # b => Pending(c)'
    BY <1>3, <1>6, <1>9, <2>1, <2>2 DEF Pending, BoxAbout
  <2> QED BY <1>7, <2>2, <2>3 DEF MarksInv
<1> QED BY <1>5, <1>8, <1>9

LEMMA CloseDialogMarks ==
  ASSUME TypeOK, MarksInv, CloseDialog
  PROVE  MarksInv'
<1>1. PICK b \in Bkpts : b = dialog.bp /\ ~GuiIdle /\ Pending(b)
  BY DEF CloseDialog, MarksInv
<1>2. \/ /\ dialog.kind = "info"
         /\ life' = [life EXCEPT ![b] = Settled(bstate[b])]
         /\ bstate' = bstate
      \/ /\ dialog.kind = "not_deleted"
         /\ bstate' = [bstate EXCEPT ![b] = UpdateStates(@)]
         /\ life' = life
  BY <1>1 DEF CloseDialog
<1>3. dialog' = NoDialog
  BY DEF CloseDialog
<1>4. Settles(b)'
  <2>1. CASE dialog.kind = "info" /\ life' = [life EXCEPT ![b] = Settled(bstate[b])]
             /\ bstate' = bstate
    <3>1. life'[b] = Settled(bstate'[b])
      BY <1>1, <2>1 DEF TypeOK
    <3> QED BY <1>1, <2>1, <3>1 DEF Pending, BoxAbout, Settles, Settled
  <2>2. CASE /\ dialog.kind = "not_deleted"
             /\ bstate' = [bstate EXCEPT ![b] = UpdateStates(@)]
             /\ life' = life
    <3>1. bstate'[b] = UpdateStates(bstate[b]) /\ bstate[b] \in [Ranks -> BreakpointState]
      BY <1>1, <2>2 DEF TypeOK
    <3>2. Settable(bstate'[b]) /\ OneCreated(bstate'[b])
      BY <1>1, <2>2, <3>1, UpdateStatesSettable DEF Pending, BoxAbout, OneCreated
    <3>3. life'[b] = "marked"
      BY <1>1, <2>2 DEF Pending, BoxAbout
    <3> QED BY <3>2, <3>3 DEF Settles
  <2> QED BY <1>2, <2>1, <2>2
<1>5. ASSUME NEW c \in Bkpts, c # b PROVE Settles(c)'
  <2>1. Settles(c)
    BY <1>1, <1>5 DEF MarksInv
  <2> QED BY <1>2, <1>5, <2>1 DEF Settles, TypeOK
<1> QED BY <1>3, <1>4, <1>5 DEF MarksInv, Pending, BoxAbout, GuiIdle, NoDialog

\* An invariant of every run: the mark of an object is what its states say, up to
\* what an open box has still to put right.
LEMMA MarksInvariant == Spec => []MarksInv
<1>1. Init => MarksInv
  BY DEF Init, MarksInv, Settles, Settable, Pending, BoxAbout, GuiIdle, NoDialog,
         OneCreated
<1>2. TypeOK /\ MarksInv /\ [Next]_vars => MarksInv'
  <2> SUFFICES ASSUME TypeOK, MarksInv, [Next]_vars PROVE MarksInv'
    OBVIOUS
  <2>1. CASE UNCHANGED <<bstate, life, dialog>>
    BY <2>1 DEF MarksInv, Settles, Settable, Pending, BoxAbout, GuiIdle, OneCreated
  <2>2. CASE UserStep
    <3>1. CASE \/ \E b \in Bkpts : DeleteMark(b)
               \/ CloseDialog
               \/ \E S \in SUBSET Ranks, b \in Bkpts, flag \in BOOLEAN :
                    UpdateMark(b, S, flag)
      BY <3>1, UpdateMarkMarks, DeleteMarkMarks, CloseDialogMarks
    <3>2. CASE \E S \in SUBSET Ranks :
                 \/ \E op \in {"resume", "run"} : SendToActive(S, op)
                 \/ Interrupt(S)
                 \/ SendInput(S)
      BY <2>1, <3>2 DEF SendToActive, Interrupt, SendInput, masterVars
    <3> QED BY <2>2, <3>1, <3>2 DEF UserStep
  <2>3. CASE FarStep \/ (\E r \in Ranks : HandleBatch(r)) \/ UNCHANGED vars
    BY <2>1, <2>3 DEF FarStep, HandleBatch, masterVars, vars
  <2> QED BY <2>2, <2>3 DEF Next
<1> QED BY <1>1, <1>2, TypeCorrect, PTL DEF Spec

\* Between message boxes a mark is in the margin exactly where some rank has the
\* breakpoint and no rank is left in an error state (create_mark, edit_mark,
\* delete_mark with update_states), whichever part of an edit or deletion failed.
THEOREM MarksTrue == Spec => []MarkShowsCreated
<1>1. MarksInv => MarkShowsCreated
  BY DEF MarksInv, MarkShowsCreated, Settles, Settable
<1> QED BY <1>1, MarksInvariant, PTL

-----------------------------------------------------------------------------
(* The numbers *)

\* The numbers on their way in the batches s grow, and are newer than any number
\* mapped so far; nx, the next one GDB gives out, is newer still.
Fresh(s, nx, map) ==
  /\ \A n \in Numbers : map[n] # NoBkpt => n < nx
  /\ \A i \in 1 .. Len(s) : s[i].kind = "bkpt" =>
       /\ s[i].no < nx
       /\ \A n \in Numbers : map[n] # NoBkpt => n < s[i].no
       /\ \A j \in 1 .. Len(s) : j > i /\ s[j].kind = "bkpt" => s[i].no < s[j].no

NumbersInv == NumbersAgree /\ \A r \in Ranks : Fresh(out[r], next[r], bkptno_2_bkpt[r])

LEMMA AppendFacts ==
  ASSUME NEW S, NEW s \in Seq(S), NEW e \in S
  PROVE  /\ Append(s, e) \in Seq(S)
         /\ Len(Append(s, e)) = Len(s) + 1 /\ Len(s) \in Nat
         /\ Append(s, e)[Len(s) + 1] = e
         /\ \A i \in 1 .. Len(s) : Append(s, e)[i] = s[i]
OBVIOUS

LEMMA TailFacts ==
  ASSUME NEW S, NEW s \in Seq(S), s # << >>
  PROVE  /\ Tail(s) \in Seq(S) /\ Head(s) = s[1] /\ Head(s) \in S
         /\ Len(Tail(s)) = Len(s) - 1 /\ Len(s) \in Nat \ {0}
         /\ \A i \in 1 .. Len(Tail(s)) : i + 1 \in 1 .. Len(s) /\ Tail(s)[i] = s[i + 1]
OBVIOUS

LEMMA PrefixFacts ==
  ASSUME NEW S, NEW s \in Seq(S), NEW k \in Nat, k <= Len(s)
  PROVE  /\ SubSeq(s, 1, k) \in Seq(S) /\ Len(SubSeq(s, 1, k)) = k
         /\ \A i \in 1 .. k : i \in 1 .. Len(s) /\ SubSeq(s, 1, k)[i] = s[i]
OBVIOUS

LEMMA RecordNumber ==
  ASSUME NEW rec \in Records, rec.kind = "bkpt"
  PROVE  rec.no \in Numbers /\ rec.no \in Int
BY SessionAssumption DEF Records, Numbers

LEMMA FreshOther ==
  ASSUME NEW s \in Seq(Records), NEW nx, NEW map, Fresh(s, nx, map),
         NEW rec \in Records, rec.kind # "bkpt"
  PROVE  Fresh(Append(s, rec), nx, map)
<1>1. \A i \in 1 .. Len(Append(s, rec)) :
        Append(s, rec)[i].kind = "bkpt" => i \in 1 .. Len(s) /\ Append(s, rec)[i] = s[i]
  BY AppendFacts
<1> QED BY <1>1 DEF Fresh

LEMMA FreshNumber ==
  ASSUME NEW s \in Seq(Records), NEW nx \in Numbers, NEW map, Fresh(s, nx, map)
  PROVE  Fresh(Append(s, Rec("bkpt", nx)), nx + 1, map)
<1> DEFINE rec == Rec("bkpt", nx)
           t == Append(s, rec)
<1>1. rec \in Records /\ rec.kind = "bkpt" /\ rec.no = nx
  BY RecordType DEF Rec
<1> HIDE DEF rec
<1>2. /\ Len(t) = Len(s) + 1 /\ Len(s) \in Nat /\ t[Len(s) + 1] = rec
      /\ \A i \in 1 .. Len(s) : t[i] = s[i] /\ s[i] \in Records
  BY <1>1, AppendFacts
<1> HIDE DEF t
<1>3. nx \in Int /\ nx < nx + 1
  BY SessionAssumption DEF Numbers
<1>4. \A n \in Numbers : map[n] # NoBkpt => n < nx /\ n < nx + 1
  BY <1>3, SessionAssumption DEF Fresh, Numbers
<1>5. ASSUME NEW i \in 1 .. Len(s), s[i].kind = "bkpt"
      PROVE  s[i].no < nx /\ s[i].no < nx + 1
  BY <1>2, <1>3, <1>5, RecordNumber DEF Fresh
<1>6. ASSUME NEW i \in 1 .. Len(t), t[i].kind = "bkpt"
      PROVE  /\ t[i].no < nx + 1
             /\ \A n \in Numbers : map[n] # NoBkpt => n < t[i].no
             /\ \A j \in 1 .. Len(t) : j > i /\ t[j].kind = "bkpt" => t[i].no < t[j].no
  <2>1. CASE i = Len(s) + 1
    BY <1>1, <1>2, <1>3, <1>4, <2>1
  <2>2. CASE i \in 1 .. Len(s)
    <3>1. t[i] = s[i] /\ s[i].kind = "bkpt"
      BY <1>2, <1>6, <2>2
    <3>2. \A n \in Numbers : map[n] # NoBkpt => n < t[i].no
      BY <2>2, <3>1 DEF Fresh
    <3>3. \A j \in 1 .. Len(s) : j > i /\ t[j].kind = "bkpt" => t[i].no < t[j].no
      BY <1>2, <2>2, <3>1 DEF Fresh
    <3>4. t[i].no < nx /\ t[i].no < nx + 1
      BY <1>5, <2>2, <3>1
    <3> QED BY <1>1, <1>2, <3>2, <3>3, <3>4
  <2> QED BY <1>2, <2>1, <2>2
<1> QED BY <1>4, <1>6 DEF Fresh, t, rec

LEMMA FreshPrefix ==
  ASSUME NEW s \in Seq(Records), NEW nx, NEW map, Fresh(s, nx, map),
         NEW k \in Nat, k <= Len(s)
  PROVE  Fresh(SubSeq(s, 1, k), nx, map)
BY PrefixFacts DEF Fresh

LEMMA FreshTail ==
  ASSUME NEW s \in Seq(Records), NEW nx, NEW map, Fresh(s, nx, map), s # << >>
  PROVE  Fresh(Tail(s), nx, map)
<1>1. \A i, j \in 1 .. Len(Tail(s)) : j > i => j + 1 > i + 1
  OBVIOUS
<1> QED BY TailFacts, <1>1 DEF Fresh

\* Handling the announcement of a number maps it.
LEMMA FreshMapped ==
  ASSUME NEW s \in Seq(Records), NEW nx, NEW map \in [Numbers -> Pointers],
         Fresh(s, nx, map), s # << >>, Head(s).kind = "bkpt", NEW b
  PROVE  Fresh(Tail(s), nx, [map EXCEPT ![Head(s).no] = b])
<1> DEFINE n == Head(s).no
           new == [map EXCEPT ![n] = b]
<1>1. /\ Head(s) = s[1] /\ 1 \in 1 .. Len(s) /\ n \in Numbers
      /\ Len(Tail(s)) \in Nat
      /\ \A i \in 1 .. Len(Tail(s)) :
           i + 1 \in 1 .. Len(s) /\ i + 1 > 1 /\ Tail(s)[i] = s[i + 1]
  BY TailFacts, RecordNumber
<1>2. n < nx /\ \A i \in 1 .. Len(Tail(s)) : Tail(s)[i].kind = "bkpt" => n < Tail(s)[i].no
  BY <1>1 DEF Fresh
<1>3. Fresh(Tail(s), nx, map)
  BY FreshTail
<1>4. \A m \in Numbers : new[m] # NoBkpt => m = n \/ map[m] # NoBkpt
  BY <1>1
<1> HIDE DEF n, new
<1>5. Fresh(Tail(s), nx, new)
  BY <1>2, <1>3, <1>4 DEF Fresh
<1> QED BY <1>5 DEF n, new

\* A step at the far end, by what it does to the batches and the numbers.
LEMMA GdbStepNumbers ==
  ASSUME TypeOK, NEW r \in Ranks, GdbStep(r)
  PROVE  \/ next' = next /\ out' = out
         \/ /\ next' = next
            /\ \E rec \in Records :
                 rec.kind # "bkpt" /\ out' = [out EXCEPT ![r] = Append(@, rec)]
         \/ /\ next[r] \in Numbers /\ next' = [next EXCEPT ![r] = @ + 1]
            /\ out' = [out EXCEPT ![r] = Append(@, Rec("bkpt", next[r]))]
         \/ /\ next' = next
            /\ \E k \in Nat :
                 k <= Len(out[r]) /\ out' = [out EXCEPT ![r] = SubSeq(@, 1, k)]
<1> USE DEF Rec, Say
<1>1. CASE GdbResume(r) \/ GdbRun(r) \/ GdbDelete(r)
  BY <1>1, RecordType DEF GdbResume, GdbRun, GdbDelete, GdbReads
<1>2. CASE GdbInsert(r)
  BY <1>2, RecordType DEF GdbInsert, GdbReads
<1>3. ASSUME NEW n \in Numbers \cup {0}, GdbStop(r, n)
      PROVE  /\ next' = next
             /\ \E rec \in Records :
                  rec.kind # "bkpt" /\ out' = [out EXCEPT ![r] = Append(@, rec)]
  BY <1>3, RecordType DEF GdbStop, TargetRuns
<1>4. CASE GdbExit(r) \/ GdbInterrupt(r)
  BY <1>4, RecordType DEF GdbExit, GdbInterrupt, TargetRuns
<1>5. CASE InterruptLost(r) \/ GdbEof(r) \/ TrgtEof(r)
  BY <1>5 DEF InterruptLost, GdbEof, TrgtEof
<1>6. CASE SlaveDies(r)
  <2>1. 0 .. MaxRecords \subseteq Nat
    BY SessionAssumption
  <2> QED BY <1>6, <2>1 DEF SlaveDies
<1> QED BY <1>1, <1>2, <1>3, <1>4, <1>5, <1>6 DEF GdbStep

LEMMA GdbStepFresh ==
  ASSUME TypeOK, NumbersInv, NEW r \in Ranks, GdbStep(r), UNCHANGED masterVars
  PROVE  NumbersInv'
<1>1. /\ out \in [Ranks -> Seq(Records)] /\ next \in [Ranks -> Nat \ {0, 1}]
      /\ bkptno_2_bkpt' = bkptno_2_bkpt
  BY DEF TypeOK, SessionTypeOK, masterVars
<1>2. NumbersAgree'
  BY DEF NumbersInv, NumbersAgree, masterVars
<1>3. ASSUME NEW q \in Ranks PROVE Fresh(out'[q], next'[q], bkptno_2_bkpt'[q])
  <2>1. Fresh(out[q], next[q], bkptno_2_bkpt[q]) /\ out[q] \in Seq(Records)
    BY <1>1 DEF NumbersInv
  <2>2. CASE q # r
    BY <1>1, <2>1, <2>2, GdbStepNumbers
  <2>3. CASE q = r
    <3>1. CASE next' = next /\ out' = out
      BY <1>1, <2>1, <3>1
    <3>2. ASSUME next' = next, NEW rec \in Records, rec.kind # "bkpt",
                 out' = [out EXCEPT ![r] = Append(@, rec)]
          PROVE  Fresh(out'[q], next'[q], bkptno_2_bkpt'[q])
      <4>1. out'[q] = Append(out[q], rec) /\ next'[q] = next[q]
        BY <1>1, <2>3, <3>2
      <4> QED BY <1>1, <2>1, <3>2, <4>1, FreshOther
    <3>3. CASE /\ next[r] \in Numbers /\ next' = [next EXCEPT ![r] = @ + 1]
               /\ out' = [out EXCEPT ![r] = Append(@, Rec("bkpt", next[r]))]
      <4>1. out'[q] = Append(out[q], Rec("bkpt", next[q])) /\ next'[q] = next[q] + 1
        BY <1>1, <2>3, <3>3
      <4> QED BY <1>1, <2>1, <2>3, <3>3, <4>1, FreshNumber
    <3>4. ASSUME next' = next, NEW k \in Nat, k <= Len(out[r]),
                 out' = [out EXCEPT ![r] = SubSeq(@, 1, k)]
          PROVE  Fresh(out'[q], next'[q], bkptno_2_bkpt'[q])
      <4>1. out'[q] = SubSeq(out[q], 1, k) /\ next'[q] = next[q]
        BY <1>1, <2>3, <3>4
      <4> QED BY <1>1, <2>1, <2>3, <3>4, <4>1, FreshPrefix
    <3> QED BY <3>1, <3>2, <3>3, <3>4, GdbStepNumbers
  <2> QED BY <2>2, <2>3
<1> QED BY <1>2, <1>3 DEF NumbersInv

\* What a batch does to the numbers of a rank: nothing, or the number announced is
\* mapped to the object that awaits it, which learns it while it is allocated.
LEMMA HandleBatchFresh ==
  ASSUME TypeOK, NumbersInv, NEW r \in Ranks, HandleBatch(r)
  PROVE  NumbersInv'
<1> DEFINE rec == Head(out[r])
           n == rec.no
<1>1. /\ out[r] # << >> /\ out \in [Ranks -> Seq(Records)]
      /\ out' = [out EXCEPT ![r] = Tail(@)] /\ next' = next /\ life' = life
  BY DEF HandleBatch, TypeOK, SessionTypeOK
<1>2. /\ bkptno_2_bkpt \in [Ranks -> [Numbers -> Pointers]]
      /\ number \in [Bkpts -> [Ranks -> Numbers \cup {-1}]]
  BY DEF TypeOK
<1>3. \A q \in Ranks : Fresh(out[q], next[q], bkptno_2_bkpt[q]) /\ out[q] \in Seq(Records)
  BY <1>1 DEF NumbersInv
<1>4. /\ out'[r] = Tail(out[r])
      /\ \A q \in Ranks : q # r => out'[q] = out[q]
  BY <1>1
<1>5. CASE /\ ~(rec.kind = "bkpt" /\ slot[r] # NoBkpt)
           /\ number' = number /\ bkptno_2_bkpt' = bkptno_2_bkpt
  <2>1. \A q \in Ranks : Fresh(out'[q], next'[q], bkptno_2_bkpt'[q])
    BY <1>1, <1>3, <1>4, <1>5, FreshTail
  <2> QED BY <1>1, <1>5, <2>1 DEF NumbersInv, NumbersAgree
<1>6. CASE /\ rec.kind = "bkpt" /\ slot[r] # NoBkpt
           /\ number' = [b \in Bkpts |->
                           IF b = slot[r] /\ life[b] # "freed"
                           THEN [number[b] EXCEPT ![r] = rec.no] ELSE number[b]]
           /\ bkptno_2_bkpt' = [bkptno_2_bkpt EXCEPT ![r][rec.no] = slot[r]]
  <2>1. n \in Numbers /\ n \in Int
    BY <1>1, <1>6, HeadOutType, RecordNumber
  <2>2. \A m \in Numbers : bkptno_2_bkpt[r][m] # NoBkpt => m < n
    <3>1. out[r][1] = rec /\ 1 \in 1 .. Len(out[r])
      BY <1>1, <1>3, TailFacts
    <3> QED BY <1>3, <1>6, <3>1 DEF Fresh
  <2>3. \A q \in Ranks : Fresh(out'[q], next'[q], bkptno_2_bkpt'[q])
    <3>1. Fresh(out'[r], next'[r], bkptno_2_bkpt'[r])
      <4>1. bkptno_2_bkpt'[r] = [bkptno_2_bkpt[r] EXCEPT ![Head(out[r]).no] = slot[r]]
        BY <1>2, <1>6
      <4> QED BY <1>1, <1>2, <1>3, <1>4, <1>6, <4>1, FreshMapped
    <3>2. ASSUME NEW q \in Ranks, q # r PROVE bkptno_2_bkpt'[q] = bkptno_2_bkpt[q]
      BY <1>2, <1>6, <3>2
    <3> QED BY <1>1, <1>3, <1>4, <3>1, <3>2
  <2> HIDE DEF n, rec
  <2>4. \A m \in Numbers : bkptno_2_bkpt'[r][m] = IF m = n THEN slot[r] ELSE bkptno_2_bkpt[r][m]
    BY <1>2, <1>6, <2>1 DEF n
  <2>5. \A q \in Ranks : q # r => bkptno_2_bkpt'[q] = bkptno_2_bkpt[q]
    BY <1>2, <1>6
  <2>6. ASSUME NEW b \in Bkpts, NEW q \in Ranks, life[b] # "freed"
        PROVE  /\ number'[b][q] # -1 => bkptno_2_bkpt'[q][number'[b][q]] = b
               /\ \A m \in Numbers : bkptno_2_bkpt'[q][m] = b => m <= number'[b][q]
    <3>1. /\ number[b][q] # -1 => bkptno_2_bkpt[q][number[b][q]] = b
          /\ \A m \in Numbers : bkptno_2_bkpt[q][m] = b => m <= number[b][q]
      BY <2>6 DEF NumbersInv, NumbersAgree
    <3>2. b # NoBkpt
      BY SessionAssumption
    <3>3. CASE q # r
      <4>1. number'[b][q] = number[b][q]
        BY <1>2, <1>6, <3>3
      <4> QED BY <2>5, <3>1, <3>3, <4>1
    <3>4. CASE q = r /\ b = slot[r]
      <4>1. number'[b][q] = n
        BY <1>2, <1>6, <2>6, <3>4 DEF n
      <4>2. \A m \in Numbers : bkptno_2_bkpt[r][m] = b => m <= n
        BY <2>1, <2>2, <3>2, SessionAssumption DEF Numbers
      <4> QED BY <2>1, <2>4, <3>4, <4>1, <4>2
    <3>5. CASE q = r /\ b # slot[r]
      <4>1. number'[b][q] = number[b][q]
        BY <1>2, <1>6, <3>5
      <4>2. number[b][q] \in Numbers \/ number[b][q] = -1
        BY <1>2
      <4>3. number[b][q] # -1 => number[b][q] < n
        BY <2>2, <3>1, <3>2, <3>5, <4>2
      <4> QED BY <2>1, <2>4, <3>1, <3>5, <4>1, <4>2, <4>3
    <3> QED BY <3>3, <3>4, <3>5
  <2> QED BY <1>1, <2>3, <2>6 DEF NumbersInv, NumbersAgree
<1> QED BY <1>5, <1>6 DEF HandleBatch, ParseBreakpoint

\* No step of the user touches the numbers, and an object that is freed stays so.
LEMMA UserStepNumbers ==
  ASSUME TypeOK, MarksInv, UserStep
  PROVE  /\ UNCHANGED <<out, next, number, bkptno_2_bkpt, table>>
         /\ \A b \in Bkpts : life[b] = "freed" => life'[b] = "freed"
<1>1. UNCHANGED <<out, next, number, bkptno_2_bkpt, table>>
  BY ZenonT(30) DEF UserStep, SendToActive, Interrupt, SendInput, UpdateMark, DeleteMark,
         CloseDialog, masterVars, sessionVars
<1>2. ASSUME NEW b \in Bkpts, life[b] = "freed" PROVE life'[b] = "freed"
  <2>1. CASE life' = life
    BY <1>2, <2>1
  <2>2. ASSUME NEW c \in Bkpts, NEW S \in SUBSET Ranks, NEW flag \in BOOLEAN,
               UpdateMark(c, S, flag)
        PROVE  life'[b] = "freed"
    BY <1>2, <2>2 DEF UpdateMark, TypeOK
  <2>3. ASSUME NEW c \in Bkpts, DeleteMark(c) PROVE life'[b] = "freed"
    BY <1>2, <2>3 DEF DeleteMark, TypeOK
  <2>4. CASE CloseDialog
    <3>1. PICK c \in Bkpts : c = dialog.bp /\ ~GuiIdle /\ Pending(c)
      BY <2>4 DEF CloseDialog, MarksInv
    <3>2. \/ life' = life
          \/ life' = [life EXCEPT ![c] = Settled(bstate[c])] /\ life[c] # "freed"
      BY <2>4, <3>1 DEF CloseDialog, Pending, BoxAbout
    <3> QED BY <1>2, <3>2 DEF TypeOK
  <2>5. CASE \E S \in SUBSET Ranks :
               \/ \E op \in {"resume", "run"} : SendToActive(S, op)
               \/ Interrupt(S)
               \/ SendInput(S)
    BY <2>1, <2>5 DEF SendToActive, Interrupt, SendInput, masterVars
  <2> QED BY <2>2, <2>3, <2>4, <2>5 DEF UserStep
<1> QED BY <1>1, <1>2

LEMMA NumbersInvariant == Spec => []NumbersInv
<1>1. Init => NumbersInv
  <2> SUFFICES ASSUME Init PROVE NumbersInv
    OBVIOUS
  <2>1. bkptno_2_bkpt = [r \in Ranks |-> [n \in Numbers |-> NoBkpt]]
        /\ number = [b \in Bkpts |-> [r \in Ranks |-> -1]]
    BY DEF Init
  <2>2. \A r \in Ranks : out[r] = << >>
    BY DEF Init, SessionInit
  <2>3. NumbersAgree
    BY <2>1, SessionAssumption DEF NumbersAgree
  <2>4. ASSUME NEW r \in Ranks PROVE Fresh(out[r], next[r], bkptno_2_bkpt[r])
    <3>1. /\ \A n \in Numbers : bkptno_2_bkpt[r][n] = NoBkpt
          /\ \A i \in 1 .. Len(out[r]) : FALSE
      BY <2>1, <2>2
    <3> QED BY <3>1 DEF Fresh
  <2> QED BY <2>3, <2>4 DEF NumbersInv
<1>2. TypeOK /\ MarksInv /\ NumbersInv /\ [Next]_vars => NumbersInv'
  <2> SUFFICES ASSUME TypeOK, MarksInv, NumbersInv, [Next]_vars PROVE NumbersInv'
    OBVIOUS
  <2>1. CASE UserStep
    BY <2>1, UserStepNumbers DEF NumbersInv, NumbersAgree
  <2>2. CASE FarStep
    BY <2>2, GdbStepFresh DEF FarStep
  <2>3. ASSUME NEW r \in Ranks, HandleBatch(r) PROVE NumbersInv'
    BY <2>3, HandleBatchFresh
  <2>4. CASE UNCHANGED vars
    BY <2>4 DEF vars, NumbersInv, NumbersAgree
  <2> QED BY <2>1, <2>2, <2>3, <2>4 DEF Next
<1> QED BY <1>1, <1>2, TypeCorrect, MarksInvariant, PTL DEF Spec

\* The number an allocated object holds for a rank and the master's map of numbers
\* to objects agree, and the number is the newest one mapped to the object
\* (parse_breakpoint, set_number), whatever the user and GDB do.
THEOREM NumbersAgreement == Spec => []NumbersAgree
<1>1. NumbersInv => NumbersAgree
  BY DEF NumbersInv
<1> QED BY <1>1, NumbersInvariant, PTL

-----------------------------------------------------------------------------
(* The patient user *)

\* A user who edits a mark only when nothing is in flight keeps GDB's table and the
\* master's bookkeeping of a rank together.  Held: the master believes that GDB has
\* the breakpoint.  The next three read the oldest batch or command of a queue.
Held(b, r) == bstate[b][r] \in {"CREATED", "ERROR_DELETING"}
Announces(s, n) == s # << >> /\ s[1].kind = "bkpt" /\ s[1].no = n
Inserts(s, b) == s # << >> /\ s[1].op = "insert" /\ s[1].bp = b
Deletes(s, n) == s # << >> /\ s[1].op = "delete" /\ s[1].no = n
Edit(c) == c.op \in {"insert", "delete"}

\* An edit is the oldest command of a stopped GDB, with nothing on its way back.
EditFirst(r) ==
  \A i \in 1 .. Len(cmds[r]) :
    Edit(cmds[r][i]) => i = 1 /\ gdb[r] = "stopped" /\ out[r] = << >>

\* A new number is the oldest batch.
BkptFirst(r) == \A i \in 1 .. Len(out[r]) : out[r][i].kind = "bkpt" => i = 1

\* Each of GDB's breakpoints is held under its number, or about to be learnt, or
\* about to be deleted.
TableKnown(r) ==
  alive[r] => \A n \in Numbers, b \in Bkpts : table[r][n] = b =>
    /\ number[b][r] = n \/ (Announces(out[r], n) /\ slot[r] = b)
    /\ Held(b, r) \/ Deletes(cmds[r], n)
    /\ Deletes(cmds[r], n) => bstate[b][r] = "NOT_EXISTING"

\* GDB has at most one breakpoint of an object.
OneEntry(r) ==
  alive[r] => \A n, m \in Numbers :
    table[r][n] = table[r][m] /\ table[r][n] # NoBkpt => n = m

\* A command to insert, or the number GDB answers it with, is awaited by its object.
InsertAwaited(r) ==
  \A b \in Bkpts \cup {NoBkpt} : Inserts(cmds[r], b) =>
    /\ b \in Bkpts /\ slot[r] = b /\ bstate[b][r] = "CREATED"
    /\ \A n \in Numbers : table[r][n] # b
AnnounceAwaited(r) ==
  \A n \in Numbers : Announces(out[r], n) =>
    slot[r] \in Bkpts /\ bstate[slot[r]][r] = "CREATED" /\ table[r][n] = slot[r]

\* A hit on its way is one of an object the master holds by then.
HitsHeld(r) ==
  \A i \in 1 .. Len(out[r]) : out[r][i].kind = "stopped" /\ out[r][i].no # 0 =>
    \E b \in Bkpts : /\ Held(b, r)
                     /\ \/ bkptno_2_bkpt[r][out[r][i].no] = b
                        \/ Announces(out[r], out[r][i].no) /\ slot[r] = b

\* What is held GDB has or is about to insert, unless it rejects the line.
HeldIsSet(r) ==
  alive[r] => \A b \in Bkpts \ BadLines : Held(b, r) =>
    Inserts(cmds[r], b) \/ \E n \in Numbers : table[r][n] = b

OwnNumber(r) ==
  \A b \in Bkpts : life[b] # "freed" /\ number[b][r] # -1 =>
    table[r][number[b][r]] \in {b, NoBkpt}

Tidy(r) ==
  /\ EditFirst(r) /\ BkptFirst(r)
  /\ TableKnown(r) /\ OneEntry(r) /\ OwnNumber(r)
  /\ InsertAwaited(r) /\ AnnounceAwaited(r)
  /\ HitsHeld(r) /\ HeldIsSet(r)

PatientInv == \A r \in Ranks : Tidy(r)

\* What the steps of the proof may assume besides.
Facts == TypeOK /\ ViewAccurate /\ MarksInv /\ NumbersInv

\* A freed object is held nowhere.
LEMMA HeldAllocated ==
  ASSUME TypeOK, MarksInv, NEW b \in Bkpts, NEW r \in Ranks, Held(b, r)
  PROVE  life[b] # "freed"
<1>1. dialog.kind \in {"none", "info", "not_deleted"}
  BY DEF TypeOK
<1>2. CASE GuiIdle \/ dialog.bp # b
  BY <1>2 DEF MarksInv, Settles, Settable, Held, OneCreated
<1>3. CASE ~GuiIdle /\ dialog.bp = b
  BY <1>1, <1>3 DEF MarksInv, Pending, BoxAbout
<1> QED BY <1>2, <1>3

\* The number of an allocated object is mapped to it and older than the next one.
LEMMA KnownNumber ==
  ASSUME Facts, NEW b \in Bkpts, NEW r \in Ranks, life[b] # "freed",
         number[b][r] # -1
  PROVE  /\ number[b][r] \in Numbers /\ number[b][r] < next[r]
         /\ bkptno_2_bkpt[r][number[b][r]] = b
<1>1. number[b][r] \in Numbers
  BY DEF Facts, TypeOK
<1>2. b # NoBkpt
  BY SessionAssumption
<1> QED BY <1>1, <1>2 DEF Facts, NumbersInv, NumbersAgree, Fresh

\* An edit waits only while the target is shown as stopped.
LEMMA EditShown ==
  ASSUME Facts, NEW r \in Ranks, EditFirst(r), alive[r],
         NEW i \in 1 .. Len(cmds[r]), Edit(cmds[r][i])
  PROVE  target_state[r] # "RUNNING"
<1>1. Consistent(out[r], target_state[r], gdb[r]) /\ out[r] = << >> /\ gdb[r] = "stopped"
  BY DEF Facts, ViewAccurate, EditFirst
<1> QED BY <1>1 DEF Consistent, Shown

\* A rank shown as stopped with nothing in flight is stopped.
LEMMA AcceptsStopped ==
  ASSUME Facts, NEW r \in Ranks, alive[r], out[r] = << >>, Accepts(r)
  PROVE  gdb[r] = "stopped"
<1>1. Consistent(out[r], "STOPPED", gdb[r]) /\ gdb[r] \in {"running", "stopped", "exited"}
  BY DEF Facts, ViewAccurate, Accepts, TypeOK, SessionTypeOK
<1> QED BY <1>1 DEF Consistent, Shown

\* The oldest element of a queue after it grows or shrinks.
LEMMA CommandAppended ==
  ASSUME NEW s \in Seq(Commands), NEW t \in Seq(Commands),
         \A i \in 1 .. Len(t) : ~Edit(t[i])
  PROVE  /\ \A b : Inserts(s \o t, b) <=> Inserts(s, b)
         /\ \A n : Deletes(s \o t, n) <=> Deletes(s, n)
         /\ \A i \in 1 .. Len(s \o t) :
              Edit((s \o t)[i]) => i \in 1 .. Len(s) /\ (s \o t)[i] = s[i]
<1>1. /\ Len(s \o t) = Len(s) + Len(t) /\ Len(s) \in Nat /\ Len(t) \in Nat
      /\ \A i \in 1 .. Len(s) : (s \o t)[i] = s[i]
      /\ \A i \in 1 .. Len(s \o t) : i \in 1 .. Len(s) \/
           (i - Len(s) \in 1 .. Len(t) /\ (s \o t)[i] = t[i - Len(s)])
      /\ s = << >> <=> Len(s) = 0
      /\ s \o t = << >> <=> Len(s \o t) = 0
  OBVIOUS
<1> DEFINE u == s \o t
<1>2. \A i \in 1 .. Len(u) : Edit(u[i]) => i \in 1 .. Len(s) /\ u[i] = s[i]
  BY <1>1
<1>3. u # << >> /\ Edit(u[1]) => s # << >> /\ u[1] = s[1]
  <2>1. u # << >> => 1 \in 1 .. Len(u)
    BY <1>1
  <2> QED BY <1>1, <1>2, <2>1
<1>4. s # << >> => u # << >> /\ u[1] = s[1]
  BY <1>1
<1> HIDE DEF u
<1>5. \A b : Inserts(u, b) <=> Inserts(s, b)
  BY <1>3, <1>4 DEF Inserts, Edit
<1>6. \A n : Deletes(u, n) <=> Deletes(s, n)
  BY <1>3, <1>4 DEF Deletes, Edit
<1> QED BY <1>2, <1>5, <1>6 DEF u

LEMMA CommandRead ==
  ASSUME NEW s \in Seq(Commands), s # << >>,
         \A i \in 1 .. Len(s) : Edit(s[i]) => i = 1
  PROVE  \A i \in 1 .. Len(Tail(s)) : ~Edit(Tail(s)[i])
<1>1. \A i \in 1 .. Len(Tail(s)) : i + 1 \in 1 .. Len(s) /\ i + 1 # 1 /\ Tail(s)[i] = s[i + 1]
  BY TailFacts
<1> QED BY <1>1

\* Without an edit among the commands none is the oldest.
LEMMA NoEdit ==
  ASSUME NEW s \in Seq(Commands), \A i \in 1 .. Len(s) : ~Edit(s[i])
  PROVE  /\ \A b : ~Inserts(s, b)
         /\ \A n : ~Deletes(s, n)
<1>1. s # << >> => 1 \in 1 .. Len(s)
  OBVIOUS
<1> QED BY <1>1 DEF Inserts, Deletes, Edit

LEMMA RecordAppended ==
  ASSUME NEW s \in Seq(Records), NEW rec \in Records, rec.kind # "bkpt"
  PROVE  \A n : Announces(Append(s, rec), n) <=> Announces(s, n)
<1>1. /\ s # << >> => Append(s, rec)[1] = s[1]
      /\ s = << >> => Append(s, rec)[1] = rec
      /\ Append(s, rec) # << >>
  OBVIOUS
<1> QED BY <1>1 DEF Announces

\* A queue that a dying slave leaves.
LEMMA RecordsLost ==
  ASSUME NEW s \in Seq(Records), NEW k \in Nat, k <= Len(s)
  PROVE  /\ \A n : Announces(SubSeq(s, 1, k), n) => Announces(s, n)
         /\ \A n : k # 0 /\ Announces(s, n) => Announces(SubSeq(s, 1, k), n)
<1> DEFINE t == SubSeq(s, 1, k)
<1>1. /\ Len(t) = k
      /\ \A i \in 1 .. k : i \in 1 .. Len(s) /\ t[i] = s[i]
      /\ t \in Seq(Records)
  BY PrefixFacts
<1> HIDE DEF t
<1>2. t # << >> <=> k # 0
  BY <1>1
<1>3. k # 0 => t[1] = s[1] /\ s # << >>
  BY <1>1
<1> QED BY <1>2, <1>3 DEF Announces, t

\* A step that moves nothing of rank r but its commands that edit nothing, and swaps
\* CREATED and ERROR_DELETING at most where nothing is in flight.
LEMMA QuietRank ==
  ASSUME TypeOK, NEW r \in Ranks, Tidy(r),
         gdb'[r] = gdb[r], alive'[r] = alive[r], table'[r] = table[r],
         out'[r] = out[r], slot'[r] = slot[r],
         bkptno_2_bkpt'[r] = bkptno_2_bkpt[r],
         \A b \in Bkpts : number'[b][r] = number[b][r],
         \A b \in Bkpts : life[b] = "freed" => life'[b] = "freed",
         \A b \in Bkpts : /\ Held(b, r)' <=> Held(b, r)
                          /\ bstate[b][r] = "NOT_EXISTING" => bstate'[b][r] = "NOT_EXISTING"
                          /\ \/ bstate[b][r] = "CREATED" => bstate'[b][r] = "CREATED"
                             \/ cmds[r] = << >> /\ out[r] = << >>,
         NEW t \in Seq(Commands), cmds'[r] = cmds[r] \o t,
         \A i \in 1 .. Len(t) : ~Edit(t[i])
  PROVE  Tidy(r)'
<1>1. cmds[r] \in Seq(Commands)
  BY DEF TypeOK, SessionTypeOK
<1>2. /\ \A b : Inserts(cmds'[r], b) <=> Inserts(cmds[r], b)
      /\ \A n : Deletes(cmds'[r], n) <=> Deletes(cmds[r], n)
      /\ \A i \in 1 .. Len(cmds'[r]) :
           Edit(cmds'[r][i]) => i \in 1 .. Len(cmds[r]) /\ cmds'[r][i] = cmds[r][i]
  BY <1>1, CommandAppended
<1>3. EditFirst(r)' /\ BkptFirst(r)'
  BY <1>2 DEF Tidy, EditFirst, BkptFirst
<1>4. TableKnown(r)' /\ OneEntry(r)' /\ OwnNumber(r)'
  BY <1>2 DEF Tidy, TableKnown, OneEntry, OwnNumber
<1>5. InsertAwaited(r)'
  <2>1. ASSUME NEW b \in Bkpts \cup {NoBkpt}, Inserts(cmds'[r], b)
        PROVE  /\ b \in Bkpts /\ slot'[r] = b /\ bstate'[b][r] = "CREATED"
               /\ \A n \in Numbers : table'[r][n] # b
    <3>1. /\ b \in Bkpts /\ slot[r] = b /\ bstate[b][r] = "CREATED"
          /\ \A n \in Numbers : table[r][n] # b
      BY <1>2, <2>1 DEF Tidy, InsertAwaited
    <3>2. cmds[r] # << >>
      BY <1>2, <2>1 DEF Inserts
    <3> QED BY <3>1, <3>2
  <2> QED BY <2>1 DEF InsertAwaited
<1>6. AnnounceAwaited(r)'
  BY DEF Tidy, AnnounceAwaited, Announces
<1>7. HitsHeld(r)'
  BY DEF Tidy, HitsHeld
<1>8. HeldIsSet(r)'
  BY <1>2 DEF Tidy, HeldIsSet
<1> QED BY <1>3, <1>4, <1>5, <1>6, <1>7, <1>8 DEF Tidy

\* Deleting an object's own breakpoint, and inserting one of an object that has none:
\* what happens at a rank where nothing was in flight.
LEMMA DeletedTidy ==
  ASSUME Facts, NEW r \in Ranks, Tidy(r), NEW b \in Bkpts, life[b] # "freed",
         Held(b, r), Accepts(r), cmds[r] = << >>, out[r] = << >>,
         gdb'[r] = gdb[r], alive'[r] = alive[r], table'[r] = table[r],
         out'[r] = out[r], slot'[r] = slot[r],
         \A c \in Bkpts : number'[c][r] = number[c][r],
         \A c \in Bkpts : life[c] = "freed" => life'[c] = "freed",
         bstate'[b][r] = "NOT_EXISTING",
         \A c \in Bkpts : c # b => bstate'[c][r] = bstate[c][r],
         cmds'[r] = IF alive[r] THEN DeleteCommand(b, r) ELSE << >>
  PROVE  Tidy(r)'
<1>1. \A c : ~Inserts(cmds[r], c) /\ ~Deletes(cmds[r], c) /\ ~Announces(out[r], c)
  BY DEF Inserts, Deletes, Announces
<1>2. \A c : ~Inserts(cmds'[r], c)
  BY DEF Inserts, DeleteCommand
<1>3. \A n : Deletes(cmds'[r], n) <=> alive[r] /\ n = number[b][r]
  BY DEF Deletes, DeleteCommand
<1>4. EditFirst(r)'
  <2>1. \A i \in 1 .. Len(cmds'[r]) : i = 1 /\ alive[r]
    BY DEF DeleteCommand
  <2> QED BY <2>1, AcceptsStopped DEF EditFirst
<1>5. BkptFirst(r)' /\ HitsHeld(r)' /\ AnnounceAwaited(r)'
  BY DEF BkptFirst, HitsHeld, AnnounceAwaited, Announces
<1>6. InsertAwaited(r)'
  BY <1>2 DEF InsertAwaited
<1>7. OneEntry(r)' /\ OwnNumber(r)'
  BY DEF Tidy, OneEntry, OwnNumber
<1>8. TableKnown(r)'
  <2> SUFFICES ASSUME alive[r], NEW n \in Numbers, NEW c \in Bkpts, table[r][n] = c
               PROVE  /\ number[c][r] = n
                      /\ Held(c, r)' \/ Deletes(cmds'[r], n)
                      /\ Deletes(cmds'[r], n) => bstate'[c][r] = "NOT_EXISTING"
    BY DEF TableKnown
  <2>1. number[c][r] = n /\ Held(c, r)
    BY <1>1 DEF Tidy, TableKnown
  <2>2. CASE c = b
    BY <1>3, <2>1, <2>2
  <2>3. CASE c # b
    <3>1. Held(c, r)'
      BY <2>1, <2>3 DEF Held
    <3>2. n # number[b][r]
      <4>1. n # -1 /\ c # NoBkpt
        BY SessionAssumption DEF Numbers
      <4> QED BY <2>3, <4>1 DEF Tidy, OwnNumber
    <3> QED BY <1>3, <2>1, <3>1, <3>2
  <2> QED BY <2>2, <2>3
<1>9. HeldIsSet(r)'
  <2>1. \A c \in Bkpts : Held(c, r)' => c # b /\ Held(c, r)
    BY DEF Held
  <2> QED BY <1>1, <2>1 DEF Tidy, HeldIsSet
<1> QED BY <1>4, <1>5, <1>6, <1>7, <1>8, <1>9 DEF Tidy

LEMMA InsertedTidy ==
  ASSUME Facts, NEW r \in Ranks, Tidy(r), NEW b \in Bkpts,
         ~Held(b, r), Accepts(r), cmds[r] = << >>, out[r] = << >>,
         gdb'[r] = gdb[r], alive'[r] = alive[r], table'[r] = table[r],
         out'[r] = out[r], slot'[r] = b,
         \A c \in Bkpts : number'[c][r] = number[c][r],
         \A c \in Bkpts : life[c] = "freed" => life'[c] = "freed",
         bstate'[b][r] = "CREATED",
         \A c \in Bkpts : c # b => bstate'[c][r] = bstate[c][r],
         cmds'[r] = IF alive[r] THEN InsertCommand(b) ELSE << >>
  PROVE  Tidy(r)'
<1>1. \A c : ~Inserts(cmds[r], c) /\ ~Deletes(cmds[r], c) /\ ~Announces(out[r], c)
  BY DEF Inserts, Deletes, Announces
<1>2. \A c : Inserts(cmds'[r], c) <=> alive[r] /\ c = b
  BY DEF Inserts, InsertCommand
<1>3. \A n : ~Deletes(cmds'[r], n)
  BY DEF Deletes, InsertCommand
<1>4. EditFirst(r)'
  <2>1. \A i \in 1 .. Len(cmds'[r]) : i = 1 /\ alive[r]
    BY DEF InsertCommand
  <2> QED BY <2>1, AcceptsStopped DEF EditFirst
<1>5. BkptFirst(r)' /\ HitsHeld(r)' /\ AnnounceAwaited(r)'
  BY DEF BkptFirst, HitsHeld, AnnounceAwaited, Announces
<1>6. alive[r] => \A n \in Numbers : table[r][n] # b
  BY <1>1 DEF Tidy, TableKnown
<1>7. InsertAwaited(r)'
  BY <1>2, <1>6 DEF InsertAwaited
<1>8. OneEntry(r)' /\ OwnNumber(r)'
  BY DEF Tidy, OneEntry, OwnNumber
<1>9. TableKnown(r)'
  <2> SUFFICES ASSUME alive[r], NEW n \in Numbers, NEW c \in Bkpts, table[r][n] = c
               PROVE  number[c][r] = n /\ Held(c, r)'
    BY <1>3 DEF TableKnown
  <2>1. number[c][r] = n /\ Held(c, r)
    BY <1>1 DEF Tidy, TableKnown
  <2> QED BY <2>1 DEF Held
<1>10. HeldIsSet(r)'
  <2>1. \A c \in Bkpts : Held(c, r)' => c = b \/ Held(c, r)
    BY DEF Held
  <2> QED BY <1>1, <1>2, <2>1 DEF Tidy, HeldIsSet
<1> QED BY <1>4, <1>5, <1>7, <1>8, <1>9, <1>10 DEF Tidy

\* Commands that edit nothing, from the buttons or the entry, and ^C.
LEMMA OtherInputTidy ==
  ASSUME Facts, PatientInv, NEW S \in SUBSET Ranks,
         \/ \E op \in {"resume", "run"} : SendToActive(S, op)
         \/ Interrupt(S)
         \/ SendInput(S)
  PROVE  PatientInv'
<1> SUFFICES ASSUME NEW r \in Ranks PROVE Tidy(r)'
  BY DEF PatientInv
<1>1. TypeOK /\ Tidy(r) /\ cmds[r] \in Seq(Commands)
  BY DEF Facts, PatientInv, TypeOK, SessionTypeOK
<1>2. /\ gdb' = gdb /\ alive' = alive /\ table' = table /\ out' = out
      /\ slot' = slot /\ bkptno_2_bkpt' = bkptno_2_bkpt /\ number' = number
      /\ life' = life /\ bstate' = bstate
  BY DEF SendToActive, Interrupt, SendInput, masterVars
<1>3. \E t \in Seq(Commands) :
        cmds'[r] = cmds[r] \o t /\ \A i \in 1 .. Len(t) : ~Edit(t[i])
  <2> DEFINE Plain(op) == [op |-> op, bp |-> NoBkpt, no |-> 0]
  <2>1. /\ << >> \in Seq(Commands) /\ cmds[r] = cmds[r] \o << >>
        /\ \A i \in 1 .. Len(<< >>) : FALSE
    BY <1>1
  <2>2. ASSUME NEW op \in {"resume", "run"}
        PROVE  /\ <<Plain(op)>> \in Seq(Commands)
               /\ \A i \in 1 .. Len(<<Plain(op)>>) : ~Edit(<<Plain(op)>>[i])
    <3>1. Plain(op) \in Commands /\ ~Edit(Plain(op))
      BY DEF Commands, Edit
    <3> HIDE DEF Plain
    <3> QED BY <3>1
  <2> HIDE DEF Plain
  <2>3. \/ cmds'[r] = cmds[r] \/ cmds'[r] = cmds[r] \o << >>
        \/ \E op \in {"resume", "run"} : cmds'[r] = cmds[r] \o <<Plain(op)>>
    <3>1. CASE Interrupt(S)
      BY <3>1 DEF Interrupt
    <3>2. CASE SendInput(S)
      BY <3>2 DEF SendInput, SendCommands, Plain
    <3>3. CASE \E op \in {"resume", "run"} : SendToActive(S, op)
      BY <3>3 DEF SendToActive, SendCommands, Plain
    <3> QED BY <3>1, <3>2, <3>3
  <2> QED BY <2>1, <2>2, <2>3
<1> QED BY <1>1, <1>2, <1>3, QuietRank DEF Held

LEMMA CloseDialogTidy ==
  ASSUME Facts, PatientInv, CloseDialog
  PROVE  PatientInv'
<1> SUFFICES ASSUME NEW r \in Ranks PROVE Tidy(r)'
  BY DEF PatientInv
<1>1. /\ TypeOK /\ MarksInv /\ Tidy(r)
      /\ << >> \in Seq(Commands) /\ cmds[r] = cmds[r] \o << >>
      /\ \A i \in 1 .. Len(<< >>) : ~Edit(<< >>[i])
  BY DEF Facts, PatientInv, TypeOK, SessionTypeOK
<1>2. /\ gdb' = gdb /\ alive' = alive /\ table' = table /\ out' = out /\ cmds' = cmds
      /\ slot' = slot /\ bkptno_2_bkpt' = bkptno_2_bkpt /\ number' = number
  BY DEF CloseDialog, sessionVars
<1>3. \A b \in Bkpts : life[b] = "freed" => life'[b] = "freed"
  BY <1>1, UserStepNumbers DEF UserStep
<1>4. PICK b \in Bkpts : b = dialog.bp /\ ~GuiIdle /\ Pending(b)
  BY <1>1 DEF CloseDialog, MarksInv
<1>5. \/ bstate' = bstate
      \/ bstate' = [bstate EXCEPT ![b] = UpdateStates(@)]
  BY <1>4 DEF CloseDialog
<1>6. ASSUME NEW c \in Bkpts
      PROVE  /\ Held(c, r)' <=> Held(c, r)
             /\ bstate[c][r] = "NOT_EXISTING" => bstate'[c][r] = "NOT_EXISTING"
             /\ bstate[c][r] = "CREATED" => bstate'[c][r] = "CREATED"
  <2>1. \/ bstate'[c][r] = bstate[c][r]
        \/ bstate'[c][r] = UpdateStates(bstate[c])[r]
    BY <1>1, <1>5 DEF TypeOK
  <2>2. bstate[c][r] \in BreakpointState
    BY <1>1 DEF TypeOK
  <2> QED BY <2>1, <2>2 DEF UpdateStates, Held, BreakpointState
<1> QED BY <1>1, <1>2, <1>3, <1>6, QuietRank

LEMMA UpdateMarkTidy ==
  ASSUME Facts, PatientInv, PatientUser, NEW b \in Bkpts, NEW buttons \in SUBSET Ranks,
         NEW flag \in BOOLEAN, UpdateMark(b, buttons, flag)
  PROVE  PatientInv'
<1> DEFINE drop == {q \in Ranks : q \notin buttons /\ is_created(b, q)}
           add  == {q \in buttons : ~is_created(b, q)}
           states == [q \in Ranks |-> IF q \in drop THEN AfterDelete(q)
                                      ELSE IF q \in add THEN AfterCreate(q)
                                      ELSE bstate[b][q]]
           sendTo == [q \in Ranks |->
             IF q \in drop /\ Accepts(q) THEN DeleteCommand(b, q)
             ELSE IF q \in add /\ Accepts(q) THEN InsertCommand(b)
             ELSE << >>]
<1> SUFFICES ASSUME NEW r \in Ranks PROVE Tidy(r)'
  BY DEF PatientInv
<1>1. TypeOK /\ MarksInv /\ Tidy(r)
  BY DEF Facts, PatientInv
<1>2. cmds[r] = << >> /\ out[r] = << >> /\ life[b] # "freed" /\ Settles(b)
  BY <1>1 DEF UpdateMark, MayEdit, InFlight, MarksInv
<1>3. /\ gdb' = gdb /\ alive' = alive /\ table' = table /\ out' = out
      /\ bkptno_2_bkpt' = bkptno_2_bkpt /\ number' = number
      /\ slot' = [q \in Ranks |-> IF q \in add /\ Accepts(q) THEN b ELSE slot[q]]
      /\ bstate' = [bstate EXCEPT ![b] = UpdateStates(states)]
      /\ SendCommands(sendTo)
  BY DEF UpdateMark
<1>4. \A c \in Bkpts : life[c] = "freed" => life'[c] = "freed"
  BY <1>1, UserStepNumbers DEF UserStep
<1>5. /\ \A c \in Bkpts : c # b => bstate'[c][r] = bstate[c][r]
      /\ bstate'[b][r] = UpdateStates(states)[r]
      /\ cmds'[r] = IF alive[r] THEN << >> \o sendTo[r] ELSE << >>
  BY <1>1, <1>2, <1>3 DEF TypeOK, SendCommands
<1>6. bstate[b][r] \in {"NOT_EXISTING", "CREATED"}
  BY <1>2 DEF Settles, Settable
<1>7. CASE r \in drop /\ Accepts(r)
  <2>1. /\ sendTo[r] = DeleteCommand(b, r) /\ Held(b, r)
        /\ bstate'[b][r] = "NOT_EXISTING" /\ slot'[r] = slot[r]
    BY <1>3, <1>5, <1>7 DEF is_created, Held, UpdateStates, AfterDelete
  <2>2. cmds'[r] = IF alive[r] THEN DeleteCommand(b, r) ELSE << >>
    BY <1>5, <2>1 DEF DeleteCommand
  <2> HIDE DEF drop, add, states, sendTo
  <2> QED BY <1>1, <1>2, <1>3, <1>4, <1>5, <1>7, <2>1, <2>2, DeletedTidy
<1>8. CASE r \in add /\ Accepts(r)
  <2>1. /\ sendTo[r] = InsertCommand(b) /\ ~Held(b, r)
        /\ bstate'[b][r] = "CREATED" /\ slot'[r] = b
    BY <1>3, <1>5, <1>6, <1>8 DEF is_created, Held, UpdateStates, AfterCreate
  <2>2. cmds'[r] = IF alive[r] THEN InsertCommand(b) ELSE << >>
    BY <1>5, <2>1 DEF InsertCommand
  <2> HIDE DEF drop, add, states, sendTo
  <2> QED BY <1>1, <1>2, <1>3, <1>4, <1>5, <1>8, <2>1, <2>2, InsertedTidy
<1>9. CASE ~(r \in drop /\ Accepts(r)) /\ ~(r \in add /\ Accepts(r))
  <2>1. bstate'[b][r] = bstate[b][r] /\ slot'[r] = slot[r] /\ sendTo[r] = << >>
    BY <1>3, <1>5, <1>6, <1>9 DEF is_created, UpdateStates, AfterDelete, AfterCreate
  <2>2. /\ << >> \in Seq(Commands) /\ cmds'[r] = cmds[r] \o << >>
        /\ \A i \in 1 .. Len(<< >>) : ~Edit(<< >>[i])
    BY <1>2, <1>5, <2>1
  <2>3. \A c \in Bkpts : bstate'[c][r] = bstate[c][r]
    BY <1>5, <2>1
  <2> HIDE DEF drop, add, states, sendTo
  <2> QED BY <1>1, <1>3, <1>4, <2>1, <2>2, <2>3, QuietRank DEF Held
<1> QED BY <1>7, <1>8, <1>9

LEMMA DeleteMarkTidy ==
  ASSUME Facts, PatientInv, PatientUser, NEW b \in Bkpts, DeleteMark(b)
  PROVE  PatientInv'
<1> DEFINE targets == {q \in Ranks : is_created(b, q)}
           states == [q \in Ranks |-> IF q \in targets THEN AfterDelete(q)
                                                       ELSE bstate[b][q]]
           sendTo == [q \in Ranks |->
             IF q \in targets /\ Accepts(q) THEN DeleteCommand(b, q) ELSE << >>]
<1> SUFFICES ASSUME NEW r \in Ranks PROVE Tidy(r)'
  BY DEF PatientInv
<1>1. TypeOK /\ MarksInv /\ Tidy(r)
  BY DEF Facts, PatientInv
<1>2. cmds[r] = << >> /\ out[r] = << >> /\ life[b] # "freed" /\ Settles(b)
  BY <1>1 DEF DeleteMark, MayEdit, InFlight, MarksInv
<1>3. /\ gdb' = gdb /\ alive' = alive /\ table' = table /\ out' = out
      /\ slot' = slot /\ bkptno_2_bkpt' = bkptno_2_bkpt /\ number' = number
      /\ SendCommands(sendTo)
  BY DEF DeleteMark
<1>4. \/ /\ \A q \in targets : Accepts(q)
         /\ bstate' = [bstate EXCEPT ![b] = UpdateStates(states)]
      \/ bstate' = [bstate EXCEPT ![b] = states]
  BY DEF DeleteMark
<1>5. \A c \in Bkpts : life[c] = "freed" => life'[c] = "freed"
  BY <1>1, UserStepNumbers DEF UserStep
<1>6. /\ \A c \in Bkpts : c # b => bstate'[c][r] = bstate[c][r]
      /\ \/ (\A q \in targets : Accepts(q)) /\ bstate'[b][r] = UpdateStates(states)[r]
         \/ bstate'[b][r] = states[r]
      /\ cmds'[r] = IF alive[r] THEN << >> \o sendTo[r] ELSE << >>
  BY <1>1, <1>2, <1>3, <1>4 DEF TypeOK, SendCommands
<1>7. bstate[b][r] \in {"NOT_EXISTING", "CREATED"}
  BY <1>2 DEF Settles, Settable
<1>8. CASE r \in targets /\ Accepts(r)
  <2>1. sendTo[r] = DeleteCommand(b, r) /\ Held(b, r) /\ bstate'[b][r] = "NOT_EXISTING"
    BY <1>6, <1>8 DEF is_created, Held, UpdateStates, AfterDelete
  <2>2. cmds'[r] = IF alive[r] THEN DeleteCommand(b, r) ELSE << >>
    BY <1>6, <2>1 DEF DeleteCommand
  <2> HIDE DEF targets, states, sendTo
  <2> QED BY <1>1, <1>2, <1>3, <1>5, <1>6, <1>8, <2>1, <2>2, DeletedTidy
<1>9. CASE ~(r \in targets /\ Accepts(r))
  <2>1. sendTo[r] = << >>
    BY <1>9
  <2>2. /\ Held(b, r)' <=> Held(b, r)
        /\ bstate[b][r] = "NOT_EXISTING" => bstate'[b][r] = "NOT_EXISTING"
    BY <1>6, <1>7, <1>9 DEF is_created, Held, UpdateStates, AfterDelete
  <2>3. /\ << >> \in Seq(Commands) /\ cmds'[r] = cmds[r] \o << >>
        /\ \A i \in 1 .. Len(<< >>) : ~Edit(<< >>[i])
    BY <1>2, <1>6, <2>1
  <2>4. \A c \in Bkpts : /\ Held(c, r)' <=> Held(c, r)
                         /\ bstate[c][r] = "NOT_EXISTING" => bstate'[c][r] = "NOT_EXISTING"
    BY <1>6, <2>2 DEF Held
  <2> HIDE DEF targets, states, sendTo
  <2> QED BY <1>1, <1>2, <1>3, <1>5, <2>3, <2>4, QuietRank
<1> QED BY <1>8, <1>9

\* A batch is handled: the number it announces, if any, reaches the object that waits.
LEMMA HandleBatchTidy ==
  ASSUME Facts, PatientInv, NEW r \in Ranks, HandleBatch(r)
  PROVE  PatientInv'
<1> DEFINE rec == Head(out[r])
           n == rec.no
<1>1. /\ TypeOK /\ MarksInv /\ Tidy(r) /\ out[r] # << >>
      /\ out[r] \in Seq(Records) /\ cmds[r] \in Seq(Commands)
  BY DEF Facts, PatientInv, HandleBatch, TypeOK, SessionTypeOK
<1>2. /\ gdb' = gdb /\ alive' = alive /\ table' = table /\ cmds' = cmds
      /\ bstate' = bstate /\ life' = life /\ out' = [out EXCEPT ![r] = Tail(@)]
  BY DEF HandleBatch
<1>3. /\ \A q \in Ranks : q # r =>
           /\ slot'[q] = slot[q] /\ out'[q] = out[q]
           /\ bkptno_2_bkpt'[q] = bkptno_2_bkpt[q]
           /\ \A b \in Bkpts : number'[b][q] = number[b][q]
      /\ out'[r] = Tail(out[r])
  <2>1. ParseBreakpoint(r, rec)
    BY DEF HandleBatch
  <2>2. out \in [Ranks -> Seq(Records)] /\ slot \in [Ranks -> Pointers]
        /\ bkptno_2_bkpt \in [Ranks -> [Numbers -> Pointers]]
        /\ number \in [Bkpts -> [Ranks -> Numbers \cup {-1}]]
    BY <1>1 DEF TypeOK, SessionTypeOK
  <2> HIDE DEF n, rec
  <2>3. \A q \in Ranks : q # r =>
          /\ slot'[q] = slot[q] /\ bkptno_2_bkpt'[q] = bkptno_2_bkpt[q]
          /\ \A b \in Bkpts : number'[b][q] = number[b][q]
    <3>1. CASE number' = number /\ bkptno_2_bkpt' = bkptno_2_bkpt /\ slot' = slot
      BY <3>1
    <3>2. CASE /\ number' = [b \in Bkpts |->
                               IF b = slot[r] /\ life[b] # "freed"
                               THEN [number[b] EXCEPT ![r] = rec.no] ELSE number[b]]
               /\ bkptno_2_bkpt' = [bkptno_2_bkpt EXCEPT ![r][rec.no] = slot[r]]
               /\ slot' = [slot EXCEPT ![r] = NoBkpt]
      BY <2>2, <3>2
    <3> QED BY <2>1, <3>1, <3>2 DEF ParseBreakpoint
  <2> QED BY <1>2, <2>2, <2>3
<1>4. ASSUME NEW q \in Ranks, q # r PROVE Tidy(q)'
  <2>1. /\ TypeOK /\ Tidy(q)
        /\ << >> \in Seq(Commands) /\ cmds[q] = cmds[q] \o << >>
        /\ \A i \in 1 .. Len(<< >>) : ~Edit(<< >>[i])
    BY DEF Facts, PatientInv, TypeOK, SessionTypeOK
  <2> HIDE DEF n, rec
  <2> QED BY <1>2, <1>3, <1>4, <2>1, QuietRank DEF Held
<1>5. /\ rec = out[r][1] /\ rec \in Records /\ 1 \in 1 .. Len(out[r])
      /\ \A i \in 1 .. Len(out'[r]) :
           i + 1 \in 1 .. Len(out[r]) /\ i + 1 # 1 /\ out'[r][i] = out[r][i + 1]
  BY <1>1, <1>3, TailFacts
<1>6. \A i \in 1 .. Len(cmds[r]) : ~Edit(cmds[r][i])
  BY <1>1 DEF Tidy, EditFirst
<1>7. \A b : ~Inserts(cmds[r], b) /\ ~Deletes(cmds[r], b)
  BY <1>1, <1>6, NoEdit
<1>8. \A i \in 1 .. Len(out'[r]) : out'[r][i].kind # "bkpt"
  BY <1>1, <1>5 DEF Tidy, BkptFirst
<1>9. \A m : ~Announces(out'[r], m)
  <2>1. out'[r] # << >> => 1 \in 1 .. Len(out'[r])
    BY <1>1, <1>3, TailFacts
  <2> QED BY <1>8, <2>1 DEF Announces
<1>10. EditFirst(r)' /\ BkptFirst(r)' /\ OneEntry(r)' /\ InsertAwaited(r)'
       /\ AnnounceAwaited(r)' /\ HeldIsSet(r)'
  BY <1>1, <1>2, <1>6, <1>7, <1>8, <1>9
     DEF Tidy, EditFirst, BkptFirst, OneEntry, InsertAwaited, AnnounceAwaited,
         HeldIsSet, Held
<1>11. CASE rec.kind # "bkpt"
  <2>1. number' = number /\ bkptno_2_bkpt' = bkptno_2_bkpt /\ slot' = slot
    BY <1>11 DEF HandleBatch, ParseBreakpoint
  <2>2. \A m : ~Announces(out[r], m)
    BY <1>5, <1>11 DEF Announces
  <2>3. TableKnown(r)' /\ OwnNumber(r)'
    BY <1>1, <1>2, <1>7, <2>1, <2>2 DEF Tidy, TableKnown, OwnNumber, Held
  <2>4. HitsHeld(r)'
    <3> SUFFICES ASSUME NEW i \in 1 .. Len(out'[r]), out'[r][i].kind = "stopped",
                        out'[r][i].no # 0
                 PROVE  \E c \in Bkpts : Held(c, r) /\ bkptno_2_bkpt[r][out'[r][i].no] = c
      BY <1>2, <2>1 DEF HitsHeld, Held
    <3> QED BY <1>1, <1>5, <2>2 DEF Tidy, HitsHeld
  <2> QED BY <1>4, <1>10, <2>3, <2>4 DEF Tidy, PatientInv
<1>12. CASE rec.kind = "bkpt"
  <2>1. n \in Numbers /\ n \in Int /\ Announces(out[r], n)
    BY <1>1, <1>5, <1>12, RecordNumber DEF Announces
  <2>2. PICK b \in Bkpts : slot[r] = b /\ bstate[b][r] = "CREATED" /\ table[r][n] = b
    BY <1>1, <2>1 DEF Tidy, AnnounceAwaited
  <2>3. b # NoBkpt /\ life[b] # "freed"
    BY <1>1, <2>2, SessionAssumption, HeldAllocated DEF Held
  <2>4. /\ number'[b][r] = n
        /\ \A c \in Bkpts : c # b => number'[c][r] = number[c][r]
        /\ bkptno_2_bkpt'[r][n] = b
        /\ \A m \in Numbers : m # n => bkptno_2_bkpt'[r][m] = bkptno_2_bkpt[r][m]
        /\ slot'[r] = NoBkpt
    BY <1>1, <1>12, <2>1, <2>2, <2>3 DEF HandleBatch, ParseBreakpoint, TypeOK
  <2>5. \A m : Announces(out[r], m) => m = n
    BY <1>5 DEF Announces
  <2>6. \A m \in Numbers : bkptno_2_bkpt[r][m] # NoBkpt => m # n
    <3>1. Fresh(out[r], next[r], bkptno_2_bkpt[r])
      BY DEF Facts, NumbersInv
    <3>2. \A m \in Numbers : bkptno_2_bkpt[r][m] # NoBkpt => m < n
      BY <1>5, <1>12, <3>1 DEF Fresh
    <3> QED BY <2>1, <3>2
  <2> HIDE DEF n
  <2>7. TableKnown(r)'
    <3> SUFFICES ASSUME alive[r], NEW m \in Numbers, NEW c \in Bkpts, table[r][m] = c
                 PROVE  number'[c][r] = m /\ Held(c, r)
      BY <1>2, <1>7 DEF TableKnown, Held
    <3>1. Held(c, r) /\ (number[c][r] = m \/ (m = n /\ c = b))
      BY <1>1, <1>7, <2>2, <2>5 DEF Tidy, TableKnown
    <3>2. c = b => m = n
      BY <1>1, <2>1, <2>2, <2>3 DEF Tidy, OneEntry
    <3> QED BY <2>4, <3>1, <3>2
  <2>8. OwnNumber(r)'
    <3>1. \A c \in Bkpts : c # b /\ life[c] # "freed" /\ number[c][r] # -1 =>
            table[r][number[c][r]] \in {c, NoBkpt}
      BY <1>1 DEF Tidy, OwnNumber
    <3> QED BY <1>2, <2>2, <2>4, <3>1 DEF OwnNumber
  <2>9. HitsHeld(r)'
    <3> SUFFICES ASSUME NEW i \in 1 .. Len(out'[r]), out'[r][i].kind = "stopped",
                        out'[r][i].no # 0
                 PROVE  \E c \in Bkpts : Held(c, r) /\ bkptno_2_bkpt'[r][out'[r][i].no] = c
      BY <1>2 DEF HitsHeld, Held
    <3>1. /\ i + 1 \in 1 .. Len(out[r]) /\ out'[r][i] = out[r][i + 1]
          /\ out[r][i + 1] \in Records
      BY <1>1, <1>5
    <3>2. out'[r][i].no \in Numbers
      BY <3>1 DEF Records
    <3>3. PICK c \in Bkpts :
            /\ Held(c, r)
            /\ \/ bkptno_2_bkpt[r][out'[r][i].no] = c
               \/ Announces(out[r], out'[r][i].no) /\ slot[r] = c
      BY <1>1, <3>1 DEF Tidy, HitsHeld
    <3>4. c # NoBkpt
      BY SessionAssumption
    <3> QED BY <2>2, <2>4, <2>5, <2>6, <3>2, <3>3, <3>4
  <2> QED BY <1>4, <1>10, <2>7, <2>8, <2>9 DEF Tidy, PatientInv
<1> QED BY <1>11, <1>12

\* A step at the far end of a rank moves nothing of another.
LEMMA GdbStepOthers ==
  ASSUME TypeOK, NEW r \in Ranks, GdbStep(r), NEW q \in Ranks, q # r
  PROVE  /\ gdb'[q] = gdb[q] /\ alive'[q] = alive[q] /\ table'[q] = table[q]
         /\ out'[q] = out[q] /\ cmds'[q] = cmds[q]
<1> USE DEF TypeOK, SessionTypeOK, Say
<1>1. CASE GdbResume(r) \/ GdbRun(r)
  BY <1>1 DEF GdbResume, GdbRun, GdbReads
<1>2. CASE GdbInsert(r)
  BY <1>2 DEF GdbInsert, GdbReads
<1>3. CASE GdbDelete(r)
  BY <1>3 DEF GdbDelete, GdbReads
<1>4. ASSUME NEW n \in Numbers \cup {0}, GdbStop(r, n)
      PROVE  /\ gdb'[q] = gdb[q] /\ alive' = alive /\ table' = table
             /\ out'[q] = out[q] /\ cmds' = cmds
  BY <1>4 DEF GdbStop, TargetRuns
<1>5. CASE GdbExit(r) \/ GdbInterrupt(r)
  BY <1>5 DEF GdbExit, GdbInterrupt, TargetRuns
<1>6. CASE InterruptLost(r) \/ GdbEof(r) \/ TrgtEof(r)
  BY <1>6 DEF InterruptLost, GdbEof, TrgtEof
<1>7. CASE SlaveDies(r)
  BY <1>7 DEF SlaveDies
<1> QED BY <1>1, <1>2, <1>3, <1>4, <1>5, <1>6, <1>7 DEF GdbStep

\* GDB answers a command that edits nothing, or its target stops or exits: the batch
\* joins the queue.  A hit is one of GDB's breakpoints.
LEMMA SpokenTidy ==
  ASSUME Facts, NEW r \in Ranks, Tidy(r), UNCHANGED masterVars,
         alive[r], alive' = alive, table' = table,
         \A i \in 1 .. Len(cmds[r]) : ~Edit(cmds[r][i]),
         \A i \in 1 .. Len(cmds'[r]) : ~Edit(cmds'[r][i]),
         cmds'[r] \in Seq(Commands),
         NEW rec \in Records, rec.kind # "bkpt",
         rec.kind = "stopped" /\ rec.no # 0 => table[r][rec.no] # NoBkpt,
         out'[r] = Append(out[r], rec)
  PROVE  Tidy(r)'
<1>1. /\ TypeOK /\ MarksInv /\ out[r] \in Seq(Records) /\ cmds[r] \in Seq(Commands)
      /\ slot' = slot /\ bkptno_2_bkpt' = bkptno_2_bkpt /\ number' = number
      /\ life' = life /\ bstate' = bstate
  BY DEF Facts, masterVars, TypeOK, SessionTypeOK
<1>2. /\ \A b : ~Inserts(cmds[r], b) /\ ~Deletes(cmds[r], b)
      /\ \A b : ~Inserts(cmds'[r], b) /\ ~Deletes(cmds'[r], b)
  BY <1>1, NoEdit
<1>3. /\ \A n : Announces(out'[r], n) <=> Announces(out[r], n)
      /\ \A i \in 1 .. Len(out'[r]) :
           \/ i \in 1 .. Len(out[r]) /\ out'[r][i] = out[r][i]
           \/ out'[r][i] = rec
  BY <1>1, RecordAppended, AppendFacts
<1>4. EditFirst(r)' /\ InsertAwaited(r)'
  BY <1>2 DEF EditFirst, InsertAwaited
<1>5. BkptFirst(r)'
  BY <1>3 DEF Tidy, BkptFirst
<1>6. TableKnown(r)' /\ OneEntry(r)' /\ OwnNumber(r)'
  BY <1>1, <1>2, <1>3 DEF Tidy, TableKnown, OneEntry, OwnNumber, Held
<1>7. AnnounceAwaited(r)'
  BY <1>1, <1>3 DEF Tidy, AnnounceAwaited
<1>8. HeldIsSet(r)'
  BY <1>1, <1>2 DEF Tidy, HeldIsSet, Held
<1>9. HitsHeld(r)'
  <2> SUFFICES ASSUME NEW i \in 1 .. Len(out'[r]), out'[r][i].kind = "stopped",
                      out'[r][i].no # 0
               PROVE  \E b \in Bkpts :
                        /\ Held(b, r)
                        /\ \/ bkptno_2_bkpt[r][out'[r][i].no] = b
                           \/ Announces(out[r], out'[r][i].no) /\ slot[r] = b
    BY <1>1, <1>3 DEF HitsHeld, Held
  <2>1. CASE i \in 1 .. Len(out[r]) /\ out'[r][i] = out[r][i]
    BY <2>1 DEF Tidy, HitsHeld
  <2>2. CASE out'[r][i] = rec
    <3> DEFINE n == rec.no
    <3>1. n \in Numbers /\ table[r][n] # NoBkpt
      BY <2>2 DEF Records
    <3>2. PICK b \in Bkpts : table[r][n] = b
      BY <1>1, <3>1 DEF TypeOK, SessionTypeOK
    <3>3. Held(b, r) /\ (number[b][r] = n \/ (Announces(out[r], n) /\ slot[r] = b))
      BY <1>2, <3>1, <3>2 DEF Tidy, TableKnown
    <3>4. number[b][r] = n => bkptno_2_bkpt[r][n] = b
      <4>1. n # -1
        BY <3>1, SessionAssumption DEF Numbers
      <4> QED BY <1>1, <3>3, <4>1, HeldAllocated, KnownNumber
    <3> QED BY <2>2, <3>3, <3>4
  <2> QED BY <1>3, <2>1, <2>2
<1> QED BY <1>4, <1>5, <1>6, <1>7, <1>8, <1>9 DEF Tidy

LEMMA GdbInsertTidy ==
  ASSUME Facts, NEW r \in Ranks, Tidy(r), UNCHANGED masterVars, GdbInsert(r)
  PROVE  Tidy(r)'
<1> DEFINE n == next[r]
<1>1. /\ TypeOK /\ MarksInv /\ out[r] \in Seq(Records) /\ cmds[r] \in Seq(Commands)
      /\ slot' = slot /\ bkptno_2_bkpt' = bkptno_2_bkpt /\ number' = number
      /\ life' = life /\ bstate' = bstate /\ alive[r] /\ alive' = alive
  BY DEF Facts, masterVars, TypeOK, SessionTypeOK, GdbInsert, GdbReads
<1>2. /\ cmds[r] # << >> /\ 1 \in 1 .. Len(cmds[r]) /\ Head(cmds[r]) = cmds[r][1]
      /\ cmds[r][1] \in Commands /\ cmds[r][1].op = "insert"
      /\ cmds'[r] = Tail(cmds[r]) /\ Tail(cmds[r]) \in Seq(Commands)
  BY <1>1, TailFacts DEF GdbInsert, GdbReads, TypeOK, SessionTypeOK
<1>3. out[r] = << >> /\ \A i \in 1 .. Len(cmds[r]) : Edit(cmds[r][i]) => i = 1
  BY <1>2 DEF Tidy, EditFirst, Edit
<1>4. /\ \A i \in 1 .. Len(cmds'[r]) : ~Edit(cmds'[r][i])
      /\ \A c : ~Inserts(cmds'[r], c) /\ ~Deletes(cmds'[r], c)
  BY <1>1, <1>2, <1>3, CommandRead, NoEdit
<1>5. PICK b \in Bkpts : /\ cmds[r][1].bp = b /\ slot[r] = b
                         /\ bstate[b][r] = "CREATED"
                         /\ \A m \in Numbers : table[r][m] # b
  <2>1. cmds[r][1].bp \in Bkpts \cup {NoBkpt}
    BY <1>2 DEF Commands
  <2> QED BY <1>2, <2>1 DEF Tidy, InsertAwaited, Inserts
<1>6. \A c : /\ Inserts(cmds[r], c) <=> c = b
             /\ ~Deletes(cmds[r], c) /\ ~Announces(out[r], c)
  BY <1>2, <1>3, <1>5 DEF Inserts, Deletes, Announces
<1>7. EditFirst(r)' /\ InsertAwaited(r)'
  BY <1>4 DEF EditFirst, InsertAwaited
<1>8. CASE b \in BadLines /\ Say(r, Rec("reply", 0)) /\ table' = table
  <2>1. out'[r] = <<Rec("reply", 0)>>
    BY <1>1, <1>3, <1>8 DEF Say, TypeOK, SessionTypeOK
  <2>2. \A i \in 1 .. Len(out'[r]) : out'[r][i].kind = "reply"
    BY <2>1 DEF Rec
  <2>3. \A c : ~Announces(out'[r], c)
    BY <2>1 DEF Rec, Announces
  <2>4. BkptFirst(r)' /\ HitsHeld(r)' /\ AnnounceAwaited(r)'
    BY <2>2, <2>3 DEF BkptFirst, HitsHeld, AnnounceAwaited
  <2>5. TableKnown(r)' /\ OneEntry(r)' /\ OwnNumber(r)'
    BY <1>1, <1>4, <1>6, <1>8 DEF Tidy, TableKnown, OneEntry, OwnNumber, Held
  <2>6. HeldIsSet(r)'
    BY <1>1, <1>6, <1>8 DEF Tidy, HeldIsSet, Held
  <2> QED BY <1>7, <2>4, <2>5, <2>6 DEF Tidy
<1>9. CASE /\ n \in Numbers /\ table' = [table EXCEPT ![r][n] = b]
           /\ Say(r, Rec("bkpt", n))
  <2>1. out'[r] = <<Rec("bkpt", n)>> /\ \A m \in Numbers :
          table'[r][m] = IF m = n THEN b ELSE table[r][m]
    BY <1>1, <1>3, <1>9 DEF Say, TypeOK, SessionTypeOK
  <2>2. \A i \in 1 .. Len(out'[r]) : i = 1 /\ out'[r][i].kind = "bkpt"
    BY <2>1 DEF Rec
  <2>3. \A m : Announces(out'[r], m) <=> m = n
    BY <2>1 DEF Rec, Announces
  <2>4. BkptFirst(r)' /\ HitsHeld(r)'
    BY <2>2 DEF BkptFirst, HitsHeld
  <2>5. AnnounceAwaited(r)'
    BY <1>1, <1>5, <1>9, <2>1, <2>3 DEF AnnounceAwaited
  <2>6. \A c \in Bkpts : number[c][r] # -1 /\ life[c] # "freed" => number[c][r] # n
    <3>1. n \in Int
      BY <1>9, SessionAssumption DEF Numbers
    <3> QED BY <3>1, KnownNumber, SessionAssumption DEF Numbers
  <2> HIDE DEF n
  <2>7. TableKnown(r)'
    <3> SUFFICES ASSUME NEW m \in Numbers, NEW c \in Bkpts, table'[r][m] = c
                 PROVE  (number[c][r] = m \/ (m = n /\ slot[r] = c)) /\ Held(c, r)
      BY <1>1, <1>4, <2>3 DEF TableKnown, Held
    <3>1. CASE m = n
      BY <1>5, <2>1, <3>1 DEF Held
    <3>2. CASE m # n
      BY <1>1, <1>6, <2>1, <3>2 DEF Tidy, TableKnown
    <3> QED BY <3>1, <3>2
  <2>8. OneEntry(r)'
    BY <1>1, <1>5, <2>1 DEF Tidy, OneEntry
  <2>9. OwnNumber(r)'
    <3> SUFFICES ASSUME NEW c \in Bkpts, life[c] # "freed", number[c][r] # -1
                 PROVE  table'[r][number[c][r]] \in {c, NoBkpt}
      BY <1>1 DEF OwnNumber
    <3> QED BY <2>1, <2>6, KnownNumber DEF Tidy, OwnNumber
  <2>10. table[r][n] = NoBkpt
    <3> SUFFICES ASSUME NEW c \in Bkpts, table[r][n] = c PROVE FALSE
      BY <1>1, <1>9 DEF TypeOK, SessionTypeOK
    <3>1. number[c][r] = n /\ Held(c, r)
      BY <1>1, <1>6, <1>9 DEF Tidy, TableKnown
    <3>2. n # -1
      BY <1>9, SessionAssumption DEF Numbers
    <3> QED BY <1>1, <2>6, <3>1, <3>2, HeldAllocated
  <2>11. HeldIsSet(r)'
    <3> SUFFICES ASSUME NEW c \in Bkpts \ BadLines, Held(c, r)
                 PROVE  \E m \in Numbers : table'[r][m] = c
      BY <1>1 DEF HeldIsSet, Held
    <3>1. c # NoBkpt
      BY SessionAssumption
    <3>2. CASE c = b
      BY <1>9, <2>1, <3>2
    <3>3. CASE c # b
      <4>1. PICK m \in Numbers : table[r][m] = c
        BY <1>1, <1>6, <3>3 DEF Tidy, HeldIsSet
      <4> QED BY <2>1, <2>10, <3>1, <4>1
    <3> QED BY <3>2, <3>3
  <2> QED BY <1>7, <2>4, <2>5, <2>7, <2>8, <2>9, <2>11 DEF Tidy
<1> QED BY <1>2, <1>5, <1>8, <1>9 DEF GdbInsert

LEMMA GdbDeleteTidy ==
  ASSUME Facts, NEW r \in Ranks, Tidy(r), UNCHANGED masterVars, GdbDelete(r)
  PROVE  Tidy(r)'
<1> DEFINE n == Head(cmds[r]).no
<1>1. /\ TypeOK /\ out[r] \in Seq(Records) /\ cmds[r] \in Seq(Commands)
      /\ slot' = slot /\ bkptno_2_bkpt' = bkptno_2_bkpt /\ number' = number
      /\ life' = life /\ bstate' = bstate /\ alive[r] /\ alive' = alive
  BY DEF Facts, masterVars, TypeOK, SessionTypeOK, GdbDelete, GdbReads
<1>2. /\ cmds[r] # << >> /\ 1 \in 1 .. Len(cmds[r]) /\ Head(cmds[r]) = cmds[r][1]
      /\ cmds[r][1].op = "delete" /\ cmds'[r] = Tail(cmds[r])
  BY <1>1, TailFacts DEF GdbDelete, GdbReads, TypeOK, SessionTypeOK
<1>3. out[r] = << >> /\ \A i \in 1 .. Len(cmds[r]) : Edit(cmds[r][i]) => i = 1
  BY <1>2 DEF Tidy, EditFirst, Edit
<1>4. /\ \A i \in 1 .. Len(cmds'[r]) : ~Edit(cmds'[r][i])
      /\ \A c : ~Inserts(cmds'[r], c) /\ ~Deletes(cmds'[r], c)
  <2>1. cmds'[r] \in Seq(Commands)
    BY <1>1, <1>2, TailFacts
  <2> QED BY <1>1, <1>2, <1>3, <2>1, CommandRead, NoEdit
<1>5. \A c : /\ ~Inserts(cmds[r], c) /\ ~Announces(out[r], c)
             /\ Deletes(cmds[r], c) <=> c = n
  BY <1>2, <1>3 DEF Inserts, Deletes, Announces
<1>6. \A m \in Numbers : table'[r][m] = IF m = n THEN NoBkpt ELSE table[r][m]
  BY <1>1 DEF GdbDelete, TypeOK, SessionTypeOK
<1>7. out'[r] = <<Rec("reply", 0)>>
  BY <1>1, <1>3 DEF GdbDelete, Say, TypeOK, SessionTypeOK
<1> HIDE DEF n
<1>8. EditFirst(r)' /\ InsertAwaited(r)'
  BY <1>4 DEF EditFirst, InsertAwaited
<1>9. BkptFirst(r)' /\ HitsHeld(r)' /\ AnnounceAwaited(r)'
  <2>1. \A i \in 1 .. Len(out'[r]) : out'[r][i].kind = "reply"
    BY <1>7 DEF Rec
  <2>2. \A c : ~Announces(out'[r], c)
    BY <1>7 DEF Rec, Announces
  <2> QED BY <2>1, <2>2 DEF BkptFirst, HitsHeld, AnnounceAwaited
<1>10. \A c \in Bkpts : c # NoBkpt
  BY SessionAssumption
<1>11. OneEntry(r)'
  BY <1>1, <1>6 DEF Tidy, OneEntry
<1>12. OwnNumber(r)'
  <2> SUFFICES ASSUME NEW c \in Bkpts, life[c] # "freed", number[c][r] # -1
               PROVE  table'[r][number[c][r]] \in {c, NoBkpt}
    BY <1>1 DEF OwnNumber
  <2> QED BY <1>6, KnownNumber DEF Tidy, OwnNumber
<1>13. TableKnown(r)'
  <2> SUFFICES ASSUME NEW m \in Numbers, NEW c \in Bkpts, table'[r][m] = c
               PROVE  number[c][r] = m /\ Held(c, r)
    BY <1>1, <1>4 DEF TableKnown, Held
  <2>1. m # n /\ table[r][m] = c
    BY <1>6, <1>10
  <2> QED BY <1>1, <1>5, <2>1 DEF Tidy, TableKnown
<1>14. HeldIsSet(r)'
  <2> SUFFICES ASSUME NEW c \in Bkpts \ BadLines, Held(c, r)
               PROVE  \E m \in Numbers : table'[r][m] = c
    BY <1>1 DEF HeldIsSet, Held
  <2>1. PICK m \in Numbers : table[r][m] = c
    BY <1>1, <1>5 DEF Tidy, HeldIsSet
  <2>2. m # n
    BY <1>1, <1>5, <2>1 DEF Tidy, TableKnown, Held
  <2> QED BY <1>6, <2>1, <2>2
<1> QED BY <1>8, <1>9, <1>11, <1>12, <1>13, <1>14 DEF Tidy

LEMMA SlaveDiesTidy ==
  ASSUME Facts, NEW r \in Ranks, Tidy(r), UNCHANGED masterVars, SlaveDies(r)
  PROVE  Tidy(r)'
<1>1. /\ TypeOK /\ out[r] \in Seq(Records)
      /\ slot' = slot /\ bkptno_2_bkpt' = bkptno_2_bkpt /\ number' = number
      /\ life' = life /\ bstate' = bstate /\ table' = table
      /\ ~alive'[r] /\ cmds'[r] = << >>
  BY DEF Facts, masterVars, TypeOK, SessionTypeOK, SlaveDies
<1>2. PICK k \in Nat : k <= Len(out[r]) /\ out'[r] = SubSeq(out[r], 1, k)
  <2>1. 0 .. MaxRecords \subseteq Nat
    BY SessionAssumption
  <2> QED BY <1>1, <2>1 DEF SlaveDies, TypeOK, SessionTypeOK
<1>3. /\ Len(out'[r]) = k
      /\ \A i \in 1 .. Len(out'[r]) : i \in 1 .. Len(out[r]) /\ out'[r][i] = out[r][i]
  BY <1>1, <1>2, PrefixFacts
<1>4. /\ \A n : Announces(out'[r], n) => Announces(out[r], n)
      /\ \A n : k # 0 /\ Announces(out[r], n) => Announces(out'[r], n)
  BY <1>1, <1>2, RecordsLost
<1>5. EditFirst(r)' /\ InsertAwaited(r)'
  BY <1>1 DEF EditFirst, InsertAwaited, Inserts
<1>6. BkptFirst(r)'
  BY <1>3 DEF Tidy, BkptFirst
<1>7. TableKnown(r)' /\ OneEntry(r)' /\ HeldIsSet(r)'
  BY <1>1 DEF TableKnown, OneEntry, HeldIsSet
<1>8. OwnNumber(r)'
  BY <1>1 DEF Tidy, OwnNumber
<1>9. AnnounceAwaited(r)'
  BY <1>1, <1>4 DEF Tidy, AnnounceAwaited
<1>10. HitsHeld(r)'
  <2> SUFFICES ASSUME NEW i \in 1 .. Len(out'[r]), out'[r][i].kind = "stopped",
                      out'[r][i].no # 0
               PROVE  \E b \in Bkpts :
                        /\ Held(b, r)
                        /\ \/ bkptno_2_bkpt[r][out'[r][i].no] = b
                           \/ Announces(out'[r], out'[r][i].no) /\ slot[r] = b
    BY <1>1 DEF HitsHeld, Held
  <2>1. i \in 1 .. Len(out[r]) /\ out'[r][i] = out[r][i] /\ k # 0
    BY <1>2, <1>3
  <2> QED BY <1>4, <2>1 DEF Tidy, HitsHeld
<1> QED BY <1>5, <1>6, <1>7, <1>8, <1>9, <1>10 DEF Tidy

LEMMA GdbStepTidy ==
  ASSUME Facts, PatientInv, NEW r \in Ranks, GdbStep(r), UNCHANGED masterVars
  PROVE  PatientInv'
<1>1. /\ TypeOK /\ Tidy(r) /\ cmds[r] \in Seq(Commands) /\ out[r] \in Seq(Records)
      /\ alive \in [Ranks -> BOOLEAN]
  BY DEF Facts, PatientInv, TypeOK, SessionTypeOK
<1>2. UNCHANGED <<slot, bkptno_2_bkpt, number, life, bstate>>
  BY DEF masterVars
<1>3. \A q \in Ranks : /\ << >> \in Seq(Commands) /\ cmds[q] = cmds[q] \o << >>
                       /\ \A i \in 1 .. Len(<< >>) : ~Edit(<< >>[i])
  BY <1>1 DEF TypeOK, SessionTypeOK
<1>4. ASSUME NEW q \in Ranks, q # r PROVE Tidy(q)'
  BY <1>1, <1>2, <1>3, <1>4, GdbStepOthers, QuietRank DEF PatientInv, Held
<1>5. ASSUME NEW op \in {"resume", "run"}, GdbReads(r, op),
             NEW rec \in Records, rec.kind \in {"running", "reply"}, Say(r, rec),
             table' = table
      PROVE  Tidy(r)'
  <2>1. /\ cmds[r] # << >> /\ cmds[r][1].op = op /\ alive' = alive /\ alive[r]
        /\ cmds'[r] = Tail(cmds[r]) /\ Tail(cmds[r]) \in Seq(Commands)
        /\ out'[r] = Append(out[r], rec)
    BY <1>1, <1>5, TailFacts DEF GdbReads, Say, TypeOK, SessionTypeOK
  <2>2. \A i \in 1 .. Len(cmds[r]) : ~Edit(cmds[r][i])
    BY <1>1, <2>1 DEF Tidy, EditFirst, Edit
  <2>3. \A i \in 1 .. Len(cmds'[r]) : ~Edit(cmds'[r][i])
    BY <1>1, <2>1, <2>2, CommandRead
  <2> QED BY <1>1, <1>5, <2>1, <2>2, <2>3, SpokenTidy
<1>6. ASSUME TargetRuns(r), NEW rec \in Records, rec.kind \in {"stopped", "exited"},
             Say(r, rec),
             rec.kind = "stopped" /\ rec.no # 0 => table[r][rec.no] # NoBkpt
      PROVE  Tidy(r)'
  <2>1. /\ gdb[r] = "running" /\ alive[r] /\ UNCHANGED <<alive, table, cmds>>
        /\ out'[r] = Append(out[r], rec)
    BY <1>1, <1>6 DEF TargetRuns, Say, TypeOK, SessionTypeOK
  <2>2. \A i \in 1 .. Len(cmds[r]) : ~Edit(cmds[r][i])
    BY <1>1, <2>1 DEF Tidy, EditFirst
  <2> QED BY <1>1, <1>6, <2>1, <2>2, SpokenTidy
<1>7. Tidy(r)'
  <2>1. CASE GdbResume(r)
    BY <1>5, <2>1, RecordType DEF GdbResume, Rec
  <2>2. CASE GdbRun(r)
    BY <1>5, <2>2, RecordType DEF GdbRun, Rec
  <2>3. CASE GdbInsert(r)
    BY <1>1, <2>3, GdbInsertTidy
  <2>4. CASE GdbDelete(r)
    BY <1>1, <2>4, GdbDeleteTidy
  <2>5. ASSUME NEW n \in Numbers \cup {0}, GdbStop(r, n) PROVE Tidy(r)'
    BY <1>6, <2>5, RecordType DEF GdbStop, Rec
  <2>6. CASE GdbExit(r) \/ GdbInterrupt(r)
    BY <1>6, <2>6, RecordType DEF GdbExit, GdbInterrupt, Rec
  <2>7. CASE InterruptLost(r) \/ GdbEof(r) \/ TrgtEof(r)
    <3>1. UNCHANGED <<alive, gdb, table, cmds, out>>
      BY <2>7 DEF InterruptLost, GdbEof, TrgtEof
    <3> QED BY <1>1, <1>2, <1>3, <3>1, QuietRank DEF Held
  <2>8. CASE SlaveDies(r)
    BY <1>1, <2>8, SlaveDiesTidy
  <2> QED BY <2>1, <2>2, <2>3, <2>4, <2>5, <2>6, <2>7, <2>8 DEF GdbStep
<1> QED BY <1>4, <1>7 DEF PatientInv

LEMMA FactsInvariant == Spec => []Facts
<1>1. TypeOK /\ ViewAccurate /\ MarksInv /\ NumbersInv => Facts
  BY DEF Facts
<1> QED BY <1>1, TypeCorrect, ViewAccuracy, MarksInvariant, NumbersInvariant, PTL

LEMMA PatientInvariant ==
  ASSUME PatientUser
  PROVE  Spec => []PatientInv
<1>1. Init => PatientInv
  <2> SUFFICES ASSUME Init, NEW r \in Ranks PROVE Tidy(r)
    BY DEF PatientInv
  <2>1. /\ table = [q \in Ranks |-> [n \in Numbers |-> NoBkpt]]
        /\ cmds[r] = << >> /\ out[r] = << >>
        /\ number = [b \in Bkpts |-> [q \in Ranks |-> -1]]
        /\ bstate = [b \in Bkpts |-> [q \in Ranks |-> "NOT_EXISTING"]]
    BY DEF Init, SessionInit
  <2>2. \A n \in Numbers, b \in Bkpts : table[r][n] # b
    BY <2>1, SessionAssumption
  <2>3. \A b \in Bkpts : ~Held(b, r) /\ number[b][r] = -1
    BY <2>1 DEF Held
  <2>4. \A n, m \in Numbers : table[r][n] = NoBkpt
    BY <2>1
  <2>5. EditFirst(r) /\ BkptFirst(r) /\ InsertAwaited(r) /\ AnnounceAwaited(r)
    BY <2>1 DEF EditFirst, BkptFirst, InsertAwaited, AnnounceAwaited, Inserts, Announces
  <2>6. TableKnown(r) /\ OneEntry(r) /\ OwnNumber(r)
    BY <2>2, <2>3, <2>4 DEF TableKnown, OneEntry, OwnNumber
  <2>7. HitsHeld(r) /\ HeldIsSet(r)
    BY <2>1, <2>3 DEF HitsHeld, HeldIsSet
  <2> QED BY <2>5, <2>6, <2>7 DEF Tidy
<1>2. Facts /\ PatientInv /\ [Next]_vars => PatientInv'
  <2> SUFFICES ASSUME Facts, PatientInv, [Next]_vars PROVE PatientInv'
    OBVIOUS
  <2>1. CASE UserStep
    BY <2>1, OtherInputTidy, UpdateMarkTidy, DeleteMarkTidy, CloseDialogTidy DEF UserStep
  <2>2. CASE FarStep
    BY <2>2, GdbStepTidy DEF FarStep
  <2>3. ASSUME NEW r \in Ranks, HandleBatch(r) PROVE PatientInv'
    BY <2>3, HandleBatchTidy
  <2>4. CASE UNCHANGED vars
    <3>1. UNCHANGED <<alive, gdb, table, cmds, out, slot, bkptno_2_bkpt, bstate,
                      number, life>>
      BY <2>4 DEF vars
    <3> QED BY <3>1 DEF PatientInv, Tidy, EditFirst, BkptFirst, TableKnown, OneEntry,
              OwnNumber, InsertAwaited, AnnounceAwaited, HitsHeld, HeldIsSet, Held
  <2> QED BY <2>1, <2>2, <2>3, <2>4 DEF Next
<1> QED BY <1>1, <1>2, FactsInvariant, PTL DEF Spec

\* When a patient user's mark is removed and its object deleted, no process has, or
\* will get, a breakpoint of it that is not about to be deleted (clear_mark).
THEOREM NothingSurvives ==
  ASSUME PatientUser
  PROVE  Spec => []FreedMeansDeleted
<1>1. Facts /\ PatientInv => FreedMeansDeleted
  <2> SUFFICES ASSUME Facts, PatientInv, NEW b \in Bkpts, NEW r \in Ranks,
                      life[b] = "freed", alive[r]
               PROVE  /\ \A n \in Numbers : table[r][n] = b =>
                           \E i \in 1 .. Len(cmds[r]) :
                             cmds[r][i].op = "delete" /\ cmds[r][i].no = n
                      /\ \A i \in 1 .. Len(cmds[r]) :
                           ~(cmds[r][i].op = "insert" /\ cmds[r][i].bp = b)
    BY DEF FreedMeansDeleted
  <2>1. Tidy(r) /\ ~Held(b, r) /\ cmds[r] \in Seq(Commands)
    BY HeldAllocated DEF Facts, PatientInv, TypeOK, SessionTypeOK
  <2>2. ASSUME NEW n \in Numbers, table[r][n] = b
        PROVE  \E i \in 1 .. Len(cmds[r]) :
                 cmds[r][i].op = "delete" /\ cmds[r][i].no = n
    <3>1. Deletes(cmds[r], n)
      BY <2>1, <2>2 DEF Tidy, TableKnown
    <3>2. cmds[r] # << >> => 1 \in 1 .. Len(cmds[r])
      BY <2>1
    <3> QED BY <3>1, <3>2 DEF Deletes
  <2>3. ASSUME NEW i \in 1 .. Len(cmds[r]), cmds[r][i].op = "insert", cmds[r][i].bp = b
        PROVE  FALSE
    <3>1. i = 1 /\ cmds[r] # << >>
      BY <2>1, <2>3 DEF Tidy, EditFirst, Edit
    <3> QED BY <2>1, <2>3, <3>1 DEF Tidy, InsertAwaited, Inserts, Held
  <2> QED BY <2>2, <2>3
<1> QED BY <1>1, FactsInvariant, PatientInvariant, PTL

\* For a patient user the number an object sends with "-break-delete" never names
\* the breakpoint of another object (delete_breakpoint, set_number).
THEOREM DeletesItsOwn ==
  ASSUME PatientUser
  PROVE  Spec => []NumberIsOwn
<1>1. PatientInv => NumberIsOwn
  BY DEF PatientInv, Tidy, OwnNumber, NumberIsOwn
<1> QED BY <1>1, PatientInvariant, PTL

\* For a patient user neither a hit nor a new number makes handle_data_gdb follow a
\* pointer to a deleted Breakpoint (parse_stop_record, parse_breakpoint).
THEOREM PointersLive ==
  ASSUME PatientUser
  PROVE  Spec => []NoDanglingPointer
<1>1. Facts /\ PatientInv => NoDanglingPointer
  <2> SUFFICES ASSUME Facts, PatientInv, NEW r \in Ranks, out[r] # << >>
               PROVE  LET b == HitObject(r, Head(out[r])) IN
                      /\ b # NoBkpt => life[b] # "freed"
                      /\ Head(out[r]).kind = "bkpt" /\ slot[r] # NoBkpt
                           => life[slot[r]] # "freed"
    BY DEF NoDanglingPointer
  <2> DEFINE rec == Head(out[r])
             b == HitObject(r, rec)
  <2>1. /\ TypeOK /\ MarksInv /\ Tidy(r) /\ rec = out[r][1] /\ rec \in Records
        /\ 1 \in 1 .. Len(out[r])
    BY TailFacts DEF Facts, PatientInv, TypeOK, SessionTypeOK
  <2> HIDE DEF rec
  <2>2. ASSUME b # NoBkpt PROVE life[b] # "freed"
    <3>1. rec.kind = "stopped" /\ rec.no \in Numbers /\ b = bkptno_2_bkpt[r][rec.no]
      BY <2>2 DEF HitObject
    <3>2. rec.no # 0
      BY <3>1, SessionAssumption DEF Numbers
    <3>3. \E c \in Bkpts : Held(c, r) /\ bkptno_2_bkpt[r][rec.no] = c
      BY <2>1, <3>1, <3>2 DEF Tidy, HitsHeld, Announces
    <3> QED BY <2>1, <3>1, <3>3, HeldAllocated
  <2>3. ASSUME rec.kind = "bkpt" PROVE life[slot[r]] # "freed"
    <3>1. rec.no \in Numbers /\ Announces(out[r], rec.no)
      BY <2>1, <2>3, RecordNumber DEF Announces
    <3>2. slot[r] \in Bkpts /\ Held(slot[r], r)
      BY <2>1, <3>1 DEF Tidy, AnnounceAwaited, Held
    <3> QED BY <2>1, <3>2, HeldAllocated
  <2> QED BY <2>2, <2>3 DEF rec
<1> QED BY <1>1, FactsInvariant, PatientInvariant, PTL

\* For a patient user and lines GDB accepts, whenever nothing is in flight CREATED
\* means that GDB has the breakpoint under the number held, NOT_EXISTING that it has
\* none (create_breakpoint, delete_breakpoint, update_states).
THEOREM StatesTrue ==
  ASSUME PatientUser, BadLines = {}
  PROVE  Spec => []StateMatchesGdb
<1>1. Facts /\ PatientInv => StateMatchesGdb
  <2> SUFFICES ASSUME Facts, PatientInv, NEW b \in Bkpts, NEW r \in Ranks, alive[r],
                      cmds[r] = << >>, out[r] = << >>
               PROVE  /\ is_created(b, r) => IsSet(b, r)
                      /\ bstate[b][r] = "NOT_EXISTING" => \A n \in Numbers : table[r][n] # b
    BY DEF StateMatchesGdb
  <2>1. Tidy(r) /\ \A c : /\ ~Inserts(cmds[r], c) /\ ~Deletes(cmds[r], c)
                          /\ ~Announces(out[r], c)
    BY DEF PatientInv, Inserts, Deletes, Announces
  <2>2. \A n \in Numbers : table[r][n] = b => number[b][r] = n /\ Held(b, r)
    BY <2>1 DEF Tidy, TableKnown
  <2>3. Held(b, r) => \E n \in Numbers : table[r][n] = b
    BY <2>1 DEF Tidy, HeldIsSet
  <2>4. \A n \in Numbers : n # -1
    BY SessionAssumption DEF Numbers
  <2> QED BY <2>2, <2>3, <2>4 DEF is_created, IsSet, Held
<1> QED BY <1>1, FactsInvariant, PatientInvariant, PTL

\* With no box of a failed deletion open, a patient user's stop-all hit sends its ^C
\* to every rank shown as running whose GDB has the breakpoint (stop_all).
THEOREM StopAllReaches ==
  ASSUME PatientUser
  PROVE  Spec => StopAllReachesShownIdle
<1>1. ASSUME Facts, PatientInv, NEW r \in Ranks, NEW b \in Bkpts, GuiIdle,
             StopAllHit(r, b), HandleBatch(r), NEW q \in Ranks \ {r}, alive[q],
             conn_trgt[q], target_state[q] = "RUNNING", IsSet(b, q)
      PROVE  sent_stop'[q]
  <2> DEFINE rec == Head(out[r])
  <2>1. TypeOK /\ Tidy(q) /\ b \in Bkpts /\ cmds[q] \in Seq(Commands)
    BY <1>1 DEF Facts, PatientInv, TypeOK, SessionTypeOK
  <2>2. number[b][q] \in Numbers /\ table[q][number[b][q]] = b
    BY <1>1, <2>1 DEF IsSet, TypeOK
  <2>3. ~Deletes(cmds[q], number[b][q])
    <3>1. cmds[q] # << >> => 1 \in 1 .. Len(cmds[q])
      BY <2>1
    <3> QED BY <1>1, <2>1, <3>1, EditShown DEF Deletes, Edit, Tidy
  <2>4. Held(b, q)
    BY <1>1, <2>1, <2>2, <2>3 DEF Tidy, TableKnown
  <2>5. is_created(b, q)
    BY <1>1, <2>4 DEF Facts, MarksInv, Settles, Settable, Held, is_created
  <2>6. StopAllRequests(HitObject(r, rec)) = {{p \in Ranks : is_created(b, p)}}
    BY <1>1 DEF StopAllHit, StopAllRequests
  <2>7. StopAll({p \in Ranks : is_created(b, p)}, NewTargetState(r, rec), Latched(r, rec))
    BY <1>1, <2>6 DEF HandleBatch
  <2> HIDE DEF rec
  <2>8. NewTargetState(r, rec)[q] = "RUNNING"
    BY <1>1, <2>1 DEF NewTargetState, TypeOK
  <2> QED BY <1>1, <2>5, <2>7, <2>8 DEF StopAll
<1>2. Facts /\ PatientInv /\ [Next]_vars =>
        [\A r \in Ranks, b \in Bkpts :
           GuiIdle /\ StopAllHit(r, b) /\ HandleBatch(r) => ShownStopped(r, b)]_vars
  BY <1>1 DEF ShownStopped
<1> QED BY <1>2, FactsInvariant, PatientInvariant, PTL DEF Spec, StopAllReachesShownIdle
=============================================================================
