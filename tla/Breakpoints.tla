---------------------------- MODULE Breakpoints ----------------------------
(***************************************************************************)
(* The master's view of the debugged processes, and the breakpoints it     *)
(* keeps on all of them: UIWindow (src/src/master/window.cpp) and          *)
(* Breakpoint (src/src/master/breakpoint.cpp).  All of it runs on the GUI  *)
(* thread: a handler is one step, except where it opens a message box,     *)
(* whose nested main loop goes on handling the batches of GDB.             *)
(* GdbSession models the other end of the connections.                     *)
(***************************************************************************)
EXTENDS GdbSession

CONSTANT PatientUser   \* the user edits a mark only when nothing is in flight

VARIABLES
  target_state,     \* m_target_state[rank]
  sent_stop,        \* m_sent_stop[rank]
  slot,             \* m_breakpoints[rank]: whose number is awaited
  bkptno_2_bkpt,    \* m_bkptno_2_bkpt[rank]
  bstate,           \* m_breakpoint_state[rank] of every Breakpoint
  number,           \* m_numbers[rank] of every Breakpoint
  stop_all_flag,    \* m_stop_all of every Breakpoint
  life,             \* "unborn", "open" (allocated, no mark yet), "marked", "freed"
  dialog            \* the message box that is open, and the object it is about

masterVars == <<target_state, sent_stop, slot, bkptno_2_bkpt, bstate, number,
                stop_all_flag, life, dialog>>
vars == <<alive, gdb, table, next, cmds, out, sigints, conn_gdb, conn_trgt,
          target_state, sent_stop, slot, bkptno_2_bkpt, bstate, number,
          stop_all_flag, life, dialog>>

Pointers == Bkpts \cup {NoBkpt}
TargetState == {"UNKNOWN", "STOPPED", "RUNNING", "EXITED"}
BreakpointState == {"NOT_EXISTING", "CREATED", "ERROR_CREATING", "ERROR_DELETING"}
NoDialog == [kind |-> "none", bp |-> NoBkpt]

\* Every variable keeps to the type its declaration gives it.
TypeOK ==
  /\ SessionTypeOK
  /\ target_state \in [Ranks -> TargetState]
  /\ sent_stop \in [Ranks -> BOOLEAN]
  /\ slot \in [Ranks -> Pointers]
  /\ bkptno_2_bkpt \in [Ranks -> [Numbers -> Pointers]]
  /\ bstate \in [Bkpts -> [Ranks -> BreakpointState]]
  /\ number \in [Bkpts -> [Ranks -> Numbers \cup {-1}]]
  /\ stop_all_flag \in [Bkpts -> BOOLEAN]
  /\ life \in [Bkpts -> {"unborn", "open", "marked", "freed"}]
  /\ dialog \in [kind : {"none", "info", "not_deleted"}, bp : Pointers]

Init ==
  /\ SessionInit
  /\ target_state = [r \in Ranks |-> "UNKNOWN"]
  /\ sent_stop = [r \in Ranks |-> FALSE]
  /\ slot = [r \in Ranks |-> NoBkpt]
  /\ bkptno_2_bkpt = [r \in Ranks |-> [n \in Numbers |-> NoBkpt]]
  /\ bstate = [b \in Bkpts |-> [r \in Ranks |-> "NOT_EXISTING"]]
  /\ number = [b \in Bkpts |-> [r \in Ranks |-> -1]]
  /\ stop_all_flag = [b \in Bkpts |-> FALSE]
  /\ life = [b \in Bkpts |-> "unborn"]
  /\ dialog = NoDialog

-----------------------------------------------------------------------------
(* Handling a batch of GDB: handle_data_gdb *)

is_created(b, r) == bstate[b][r] = "CREATED"

Shown(kind) == CASE kind = "running" -> "RUNNING"
                 [] kind = "stopped" -> "STOPPED"
                 [] kind = "exited"  -> "EXITED"

StateChange(rec) == rec.kind \in {"running", "stopped", "exited"}

\* Mutant: the EXITED state of parse_stop_record is forgotten.
NewTargetStateNoExit(r, rec) ==
  IF StateChange(rec)
  THEN [target_state EXCEPT ![r] = IF rec.kind = "running" THEN "RUNNING" ELSE "STOPPED"]
  ELSE target_state

\* parse_target_state (for an exit, with the end of parse_stop_record)
NewTargetState(r, rec) ==
  IF StateChange(rec) THEN [target_state EXCEPT ![r] = Shown(rec.kind)]
                      ELSE target_state

\* Mutant: a stop does not clear m_sent_stop.
LatchedForever(r, rec) == sent_stop

Latched(r, rec) ==
  [sent_stop EXCEPT ![r] = @ /\ rec.kind \notin {"stopped", "exited"}]

\* The object whose get_stop_all() parse_stop_record calls.
HitObject(r, rec) ==
  IF rec.kind = "stopped" /\ rec.no \in Numbers THEN bkptno_2_bkpt[r][rec.no]
                                                ELSE NoBkpt

\* The ranks a hit of b asks to stop.  Reading a freed object is undefined: any
\* flag and any states may be found there.
StopAllRequests(b) ==
  IF b = NoBkpt THEN {{}}
  ELSE IF life[b] = "freed" THEN SUBSET Ranks
  ELSE IF stop_all_flag[b] THEN {{q \in Ranks : is_created(b, q)}}
  ELSE {{}}

\* Mutant: the loop ends at a rank that does not run, the one that was hit.
StopAllEnds(S, states, latched) ==
  LET sent == {q \in S : \A p \in S : states[p] = "RUNNING" /\ ~latched[q] /\ conn_trgt[q]} IN
  /\ sent_stop' = [q \in Ranks |-> latched[q] \/ q \in sent]
  /\ SendInterrupts(sent)

\* stop_all, called with the states the batch has just set.
StopAll(S, states, latched) ==
  LET sent == {q \in S : states[q] = "RUNNING" /\ ~latched[q] /\ conn_trgt[q]} IN
  /\ sent_stop' = [q \in Ranks |-> latched[q] \/ q \in sent]
  /\ SendInterrupts(sent)

\* Mutant: any reply is taken for the awaited breakpoint.
ParseAnyReply(r, rec) ==
  IF ~StateChange(rec) /\ slot[r] # NoBkpt
  THEN /\ number' = [number EXCEPT ![slot[r]][r] = rec.no]
       /\ slot' = [slot EXCEPT ![r] = NoBkpt]
       /\ UNCHANGED bkptno_2_bkpt
  ELSE UNCHANGED <<number, bkptno_2_bkpt, slot>>

\* Mutant: the number is mapped to the object, which does not learn it.
ParseNoSetNumber(r, rec) ==
  IF rec.kind = "bkpt" /\ slot[r] # NoBkpt
  THEN /\ bkptno_2_bkpt' = [bkptno_2_bkpt EXCEPT ![r][rec.no] = slot[r]]
       /\ slot' = [slot EXCEPT ![r] = NoBkpt]
       /\ UNCHANGED number
  ELSE UNCHANGED <<number, bkptno_2_bkpt, slot>>

\* Mutant: the number of one process is taken for all.
ParseForEveryRank(r, rec) ==
  IF rec.kind = "bkpt" /\ slot[r] # NoBkpt
  THEN /\ number' = [number EXCEPT ![slot[r]] = [q \in Ranks |-> rec.no]]
       /\ bkptno_2_bkpt' = [bkptno_2_bkpt EXCEPT ![r][rec.no] = slot[r]]
       /\ slot' = [slot EXCEPT ![r] = NoBkpt]
  ELSE UNCHANGED <<number, bkptno_2_bkpt, slot>>

\* The number of a new breakpoint goes to whatever object the slot points to; a
\* write through a dangling slot leaves no trace in any object of the model.
ParseBreakpoint(r, rec) ==
  IF rec.kind = "bkpt" /\ slot[r] # NoBkpt
  THEN /\ number' = [b \in Bkpts |->
                       IF b = slot[r] /\ life[b] # "freed"
                       THEN [number[b] EXCEPT ![r] = rec.no] ELSE number[b]]
       /\ bkptno_2_bkpt' = [bkptno_2_bkpt EXCEPT ![r][rec.no] = slot[r]]
       /\ slot' = [slot EXCEPT ![r] = NoBkpt]
  ELSE UNCHANGED <<number, bkptno_2_bkpt, slot>>

HandleBatch(r) ==
  /\ out[r] # << >>
  /\ LET rec == Head(out[r]) IN
     /\ target_state' = NewTargetState(r, rec)
     /\ \E S \in StopAllRequests(HitObject(r, rec)) :
          StopAll(S, NewTargetState(r, rec), Latched(r, rec))
     /\ ParseBreakpoint(r, rec)
  /\ out' = [out EXCEPT ![r] = Tail(@)]
  /\ UNCHANGED <<alive, gdb, table, next, cmds, conn_gdb, conn_trgt,
                 bstate, stop_all_flag, life, dialog>>

-----------------------------------------------------------------------------
(* The user: interaction buttons, GDB entry, line marks *)

GuiIdle == dialog = NoDialog

Room == \A r \in Ranks : Len(cmds[r]) < MaxCmds

\* send_data reports success: the master still holds a socket of GDB.
Accepts(r) == target_state[r] = "STOPPED" /\ conn_gdb[r]

\* F5..F8 and F12 for the checked ranks: interact_with_gdb, send_data_to_active.
SendToActive(S, op) ==
  /\ GuiIdle /\ Room
  /\ SendCommands([r \in Ranks |->
       IF r \in S /\ target_state[r] # "RUNNING" /\ conn_gdb[r]
       THEN <<[op |-> op, bp |-> NoBkpt, no |-> 0]>> ELSE << >>])
  /\ UNCHANGED <<alive, gdb, table, next, out, sigints, conn_gdb, conn_trgt,
                 masterVars>>

\* F9: the ^C goes to the target whatever the state shown.
Interrupt(S) ==
  /\ GuiIdle
  /\ SendInterrupts({r \in S : conn_trgt[r]})
  /\ UNCHANGED <<alive, gdb, table, next, cmds, out, conn_gdb, conn_trgt,
                 masterVars>>

\* A "continue" typed in the entry is sent whatever the state shown (send_input).  Other
\* commands that are typed, such as to set or delete breakpoints by hand, are left out.
SendInput(S) ==
  /\ GuiIdle /\ Room
  /\ SendCommands([r \in Ranks |->
       IF r \in S /\ conn_gdb[r]
       THEN <<[op |-> "resume", bp |-> NoBkpt, no |-> 0]>> ELSE << >>])
  /\ UNCHANGED <<alive, gdb, table, next, out, sigints, conn_gdb, conn_trgt,
                 masterVars>>

InFlight == \E r \in Ranks : cmds[r] # << >> \/ out[r] # << >>
MayEdit == GuiIdle /\ Room /\ (PatientUser => ~InFlight)

OneCreated(states) == \E r \in Ranks : states[r] = "CREATED"

\* create_breakpoint, delete_breakpoint: what rank r's state becomes.
AfterCreate(r) == IF Accepts(r) THEN "CREATED" ELSE "ERROR_CREATING"
AfterDelete(r) == IF Accepts(r) THEN "NOT_EXISTING" ELSE "ERROR_DELETING"

InsertCommand(b) == <<[op |-> "insert", bp |-> b, no |-> 0]>>
DeleteCommand(b, r) == <<[op |-> "delete", bp |-> NoBkpt, no |-> number[b][r]]>>

\* Mutant: the errors stay.
KeepErrors(states) == states

\* Mutant: a breakpoint that could not be deleted counts as deleted.
ForgetUndeleted(states) ==
  [r \in Ranks |-> IF states[r] \in {"ERROR_DELETING", "ERROR_CREATING"}
                   THEN "NOT_EXISTING" ELSE states[r]]

\* update_states: errors fall back to the state they left.
UpdateStates(states) ==
  [r \in Ranks |-> CASE states[r] = "ERROR_DELETING" -> "CREATED"
                     [] states[r] = "ERROR_CREATING" -> "NOT_EXISTING"
                     [] OTHER -> states[r]]

\* Mutant: the mark stays only when every rank has the breakpoint.
SettledIfAll(states) ==
  IF \A r \in Ranks : states[r] = "CREATED" THEN "marked" ELSE "freed"

\* create_mark and edit_mark after their dialog: the mark stays, or is set,
\* when a rank has the breakpoint; else the object is deleted.
Settled(states) == IF OneCreated(states) THEN "marked" ELSE "freed"

\* create_mark (unborn) and edit_mark (marked) up to the answer of the dialog,
\* with update_breakpoints; a message box about errors defers the rest.
UpdateMark(b, buttons, flag) ==
  /\ MayEdit
  /\ life[b] \in {"unborn", "marked"}
  /\ LET drop == {r \in Ranks : r \notin buttons /\ is_created(b, r)}
         add  == {r \in buttons : ~is_created(b, r)}
         states == [r \in Ranks |-> IF r \in drop THEN AfterDelete(r)
                                    ELSE IF r \in add THEN AfterCreate(r)
                                    ELSE bstate[b][r]]
         errors == \E r \in Ranks : states[r] \in {"ERROR_CREATING", "ERROR_DELETING"}
     IN /\ SendCommands([r \in Ranks |->
             IF r \in drop /\ Accepts(r) THEN DeleteCommand(b, r)
             ELSE IF r \in add /\ Accepts(r) THEN InsertCommand(b)
             ELSE << >>])
        /\ slot' = [r \in Ranks |-> IF r \in add /\ Accepts(r) THEN b ELSE slot[r]]
        /\ bstate' = [bstate EXCEPT ![b] = UpdateStates(states)]
        /\ \/ /\ errors
              /\ dialog' = [kind |-> "info", bp |-> b]
              /\ life' = [life EXCEPT ![b] = IF @ = "unborn" THEN "open" ELSE @]
           \/ /\ ~errors
              /\ life' = [life EXCEPT ![b] = Settled(UpdateStates(states))]
              /\ UNCHANGED dialog
  /\ stop_all_flag' = [stop_all_flag EXCEPT ![b] = flag]
  /\ UNCHANGED <<alive, gdb, table, next, out, sigints, conn_gdb, conn_trgt,
                 target_state, sent_stop, bkptno_2_bkpt, number>>

\* delete_mark with delete_breakpoints; the states are put back only after the
\* message box is closed.
DeleteMark(b) ==
  /\ MayEdit
  /\ life[b] = "marked"
  /\ LET targets == {r \in Ranks : is_created(b, r)}
         states == [r \in Ranks |-> IF r \in targets THEN AfterDelete(r)
                                                     ELSE bstate[b][r]]
     IN /\ SendCommands([r \in Ranks |->
             IF r \in targets /\ Accepts(r) THEN DeleteCommand(b, r) ELSE << >>])
        /\ \/ /\ \A r \in targets : Accepts(r)
              /\ bstate' = [bstate EXCEPT ![b] = UpdateStates(states)]
              /\ life' = [life EXCEPT ![b] = "freed"]
              /\ UNCHANGED dialog
           \/ /\ \E r \in targets : ~Accepts(r)
              /\ bstate' = [bstate EXCEPT ![b] = states]
              /\ dialog' = [kind |-> "not_deleted", bp |-> b]
              /\ UNCHANGED life
  /\ UNCHANGED <<alive, gdb, table, next, out, sigints, conn_gdb, conn_trgt,
                 target_state, sent_stop, slot, bkptno_2_bkpt, number,
                 stop_all_flag>>

\* The message box is answered: the rest of create_mark, edit_mark or
\* delete_breakpoints runs.
CloseDialog ==
  /\ ~GuiIdle
  /\ LET b == dialog.bp IN
     \/ /\ dialog.kind = "info"
        /\ life' = [life EXCEPT ![b] = Settled(bstate[b])]
        /\ UNCHANGED bstate
     \/ /\ dialog.kind = "not_deleted"
        /\ bstate' = [bstate EXCEPT ![b] = UpdateStates(@)]
        /\ UNCHANGED life
  /\ dialog' = NoDialog
  /\ UNCHANGED <<sessionVars, target_state, sent_stop, slot, bkptno_2_bkpt,
                 number, stop_all_flag>>

-----------------------------------------------------------------------------
UserStep ==
  \/ \E S \in SUBSET Ranks :
       \/ \E op \in {"resume", "run"} : SendToActive(S, op)
       \/ Interrupt(S)
       \/ SendInput(S)
       \/ \E b \in Bkpts, flag \in BOOLEAN : UpdateMark(b, S, flag)
  \/ \E b \in Bkpts : DeleteMark(b)
  \/ CloseDialog

FarStep == \E r \in Ranks : GdbStep(r) /\ UNCHANGED masterVars

Next == UserStep \/ FarStep \/ \E r \in Ranks : HandleBatch(r)

Spec == Init /\ [][Next]_vars

\* The Glib main loop runs every idle source it is given, and the kernel
\* delivers a SIGINT to a running target.  Nothing else must happen: the user
\* may do nothing, and the target may run for ever.
Fairness ==
  \A r \in Ranks : /\ WF_vars(HandleBatch(r))
                   /\ WF_vars(GdbInterrupt(r) /\ UNCHANGED masterVars)

FairSpec == Spec /\ Fairness

-----------------------------------------------------------------------------
(* What the code gets right whatever the user does *)

\* The display v and the batches s on their way agree with what the target does,
\* g: the last state change among them is g or, if there is none, v shows g; before
\* the first stop, at main, the master knows nothing.
Consistent(s, v, g) ==
  \/ \E i \in 1 .. Len(s) :
       /\ s[i].kind = g
       /\ \A j \in 1 .. Len(s) : j > i => ~StateChange(s[j])
  \/ /\ \A i \in 1 .. Len(s) : ~StateChange(s[i])
     /\ v = Shown(g) \/ (v = "UNKNOWN" /\ g = "running")

\* The state shown lags behind GDB but is never wrong: once all that is on its way
\* is handled, it is the true one (parse_target_state, parse_stop_record; every
\* guard of create_breakpoint, delete_breakpoint and stop_all reads it).
ViewAccurate ==
  \A r \in Ranks : alive[r] => Consistent(out[r], target_state[r], gdb[r])

\* A stop is among the batches s.
StopIn(s) == \E i \in 1 .. Len(s) : s[i].kind \in {"stopped", "exited"}

\* stop_all sends at most one ^C per run of a target and counts on the next stop
\* to clear m_sent_stop.  The latch is never left set with nothing to clear it:
\* its ^C is still to be taken by a running target, or a stop is coming.
LatchArmed ==
  \A r \in Ranks : alive[r] /\ sent_stop[r] =>
    /\ target_state[r] = "RUNNING"
    /\ \/ StopIn(out[r])
       \/ gdb[r] = "running" /\ sigints[r] > 0

\* m_numbers and m_bkptno_2_bkpt agree for every object still allocated: its
\* number is the newest one mapped to it (set_number in parse_breakpoint).
NumbersAgree ==
  \A b \in Bkpts, r \in Ranks : life[b] # "freed" =>
    /\ number[b][r] # -1 => bkptno_2_bkpt[r][number[b][r]] = b
    /\ \A n \in Numbers : bkptno_2_bkpt[r][n] = b => n <= number[b][r]

\* Between message boxes a mark stands in the margin exactly for the objects
\* that have a breakpoint on some rank, and no rank is left in an error state,
\* whichever part of an edit or a deletion failed (update_states, clear_mark).
MarkShowsCreated ==
  GuiIdle => \A b \in Bkpts :
    /\ (life[b] = "marked") <=> (life[b] # "freed" /\ OneCreated(bstate[b]))
    /\ \A r \in Ranks : bstate[b][r] \in {"NOT_EXISTING", "CREATED"}

\* A rank stop_all has interrupted becomes interruptible again: m_sent_stop does
\* not stay set for ever while the slave lives.
LatchClears == \A r \in Ranks : sent_stop[r] ~> (~sent_stop[r] \/ ~alive[r])

-----------------------------------------------------------------------------
(* What the code promises and keeps only for a patient user *)

\* clear_mark, window.cpp:768: when an object is deleted no process has, or will
\* get, a breakpoint of it, except one whose deletion GDB has still to read.
FreedMeansDeleted ==
  \A b \in Bkpts, r \in Ranks : life[b] = "freed" /\ alive[r] =>
    /\ \A n \in Numbers : table[r][n] = b =>
         \E i \in 1 .. Len(cmds[r]) : cmds[r][i].op = "delete" /\ cmds[r][i].no = n
    /\ \A i \in 1 .. Len(cmds[r]) :
         ~(cmds[r][i].op = "insert" /\ cmds[r][i].bp = b)

\* breakpoint.cpp:86: the number an object holds for a rank is the number GDB gave
\* to that object's own breakpoint, so "-break-delete" hits no other.
NumberIsOwn ==
  \A b \in Bkpts, r \in Ranks : life[b] # "freed" /\ number[b][r] # -1 =>
    table[r][number[b][r]] \in {b, NoBkpt}

\* GDB has the breakpoint of b under the number b holds for the rank.
IsSet(b, r) == number[b][r] # -1 /\ table[r][number[b][r]] = b

\* breakpoint.hpp:39-42: with nothing in flight, CREATED means that GDB has the
\* breakpoint under the number held, NOT_EXISTING that it has none.
StateMatchesGdb ==
  \A b \in Bkpts, r \in Ranks :
    alive[r] /\ cmds[r] = << >> /\ out[r] = << >> /\ life[b] # "freed" =>
      /\ is_created(b, r) => IsSet(b, r)
      /\ bstate[b][r] = "NOT_EXISTING" => \A n \in Numbers : table[r][n] # b

\* window.cpp:1573 and 1549: no batch that waits at the head of the queue makes
\* its handler follow a pointer to a deleted object.
NoDanglingPointer ==
  \A r \in Ranks : out[r] # << >> =>
    LET b == HitObject(r, Head(out[r])) IN
    /\ b # NoBkpt => life[b] # "freed"
    /\ Head(out[r]).kind = "bkpt" /\ slot[r] # NoBkpt => life[slot[r]] # "freed"

-----------------------------------------------------------------------------
(* What stop_all promises *)

\* The batch rank r is about to handle reports a hit of b, which is to stop all.
StopAllHit(r, b) ==
  /\ out[r] # << >>
  /\ b # NoBkpt /\ b = HitObject(r, Head(out[r]))
  /\ life[b] # "freed" /\ stop_all_flag[b]

\* Every rank the master shows as running, and whose GDB has b, has its ^C sent.
ShownStopped(r, b) ==
  \A q \in Ranks \ {r} :
    alive[q] /\ conn_trgt[q] /\ target_state[q] = "RUNNING" /\ IsSet(b, q)
      => sent_stop'[q]

\* window.cpp:701, "stops all processes for which the breakpoint is created": with no
\* box of a failed deletion open, a patient user's stop-all hit reaches every rank
\* shown as running whose GDB has the breakpoint (stop_all, update_states).
StopAllReachesShownIdle ==
  [][\A r \in Ranks, b \in Bkpts :
       GuiIdle /\ StopAllHit(r, b) /\ HandleBatch(r) => ShownStopped(r, b)]_vars
=============================================================================
