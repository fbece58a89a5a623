---------------------------- MODULE SlaveProofs ----------------------------
(***************************************************************************)
(* The slave's start and its cleanup: what it has started at each step,    *)
(* and what the poll for the links tells it when some may be those of an   *)
(* earlier session.                                                        *)
(***************************************************************************)
EXTENDS Slave, TLAPS

None(c) == proc[c] = "none"

\* What has been started, by the step the slave is at.
Started ==
  /\ pc \in Reading \cup {"fork_socat_gdb"} => \A c \in Children : None(c)
  /\ pc = "fork_socat_trgt" => None("socat_trgt") /\ None("gdb")
  /\ pc \in Polling \cup {"fork_gdb"} => None("gdb") /\ \A s \in Socats : ~None(s)
  /\ pc \in Monitoring => \A c \in Children : ~None(c)

\* A child the slave is done with has ended or has been signalled.
Handled(c) == proc[c] = "running" => c \in signalled

Cleaned ==
  /\ pc \in {"kill_socat_gdb", "kill_socat_trgt", "done"} => Handled("gdb")
  /\ pc \in {"kill_socat_trgt", "done"} => Handled("socat_gdb")
  /\ pc = "done" => Handled("socat_trgt")

SlaveInv == TypeOK /\ Started /\ Cleaned

LEMMA SlaveInvInit == Init => SlaveInv
BY DEF Init, SlaveInv, TypeOK, Started, Cleaned, None, Handled, Reading, Polling,
       Monitoring, Forking, Killing, Children, Socats

\* A step of the slave itself, one action at a time.
LEMMA SlaveStepInv ==
  ASSUME SlaveInv, SlaveStep
  PROVE  SlaveInv'
<1> USE DEF SlaveInv, TypeOK, Started, Cleaned, None, Handled, Reading, Polling,
            Monitoring, Forking, Killing, Children, Socats
<1>1. CASE Configure
  BY <1>1 DEF Configure, GoOnIf
<1>2. CASE ForkSocatGdb
  BY <1>2 DEF ForkSocatGdb, Fork
<1>3. CASE ForkSocatTrgt
  BY <1>3 DEF ForkSocatTrgt, Fork, MayStartGdb, Fails
<1>4. CASE WaitSocat
  BY <1>4, ZenonT(30) DEF WaitSocat, WaitPid, Gone
<1>5. CASE FindLinks
  BY <1>5 DEF FindLinks, Find
<1>6. CASE Poll
  BY <1>6 DEF Poll, Fails
<1>7. CASE ForkGdb
  BY <1>7 DEF ForkGdb, Fork, Fails
<1>8. CASE Sleep
  BY <1>8 DEF Sleep
<1>9. CASE Monitor
  BY <1>9, ZenonT(30) DEF Monitor, WaitPid, Gone
<1>10. CASE KillChildren
  BY <1>10 DEF KillChildren, Kill, Killable
<1> QED BY <1>1, <1>2, <1>3, <1>4, <1>5, <1>6, <1>7, <1>8, <1>9, <1>10 DEF SlaveStep

LEMMA SlaveInvStep ==
  ASSUME SlaveInv, [Next]_vars
  PROVE  SlaveInv'
<1> USE DEF SlaveInv, TypeOK, Started, Cleaned, None, Handled, Reading, Polling,
            Monitoring, Forking, Killing, Children, Socats
<1>1. CASE SlaveStep
  BY <1>1, SlaveStepInv
<1>2. ASSUME NEW s \in Socats, SocatConnects(s)
      PROVE  SlaveInv'
  BY <1>2 DEF SocatConnects
<1>3. ASSUME NEW c \in Children, ChildEnds(c)
      PROVE  SlaveInv'
  BY <1>3 DEF ChildEnds
<1>4. CASE UNCHANGED vars
  BY <1>4 DEF vars
<1> QED BY <1>1, <1>2, <1>3, <1>4 DEF Next

\* Whatever fork fails, whatever child ends and whatever links were left: when the
\* slave returns nothing it started is left without a signal, and no waitpid is ever
\* called with the PID -1 (start_processes, kill_children).
THEOREM SlaveCleansUp == Spec => [](TypeOK /\ NoOrphan /\ WaitsForItsOwn)
<1>1. Init => SlaveInv
  BY SlaveInvInit
<1>2. SlaveInv /\ [Next]_vars => SlaveInv'
  BY SlaveInvStep
<1>3. SlaveInv => TypeOK /\ NoOrphan /\ WaitsForItsOwn
  BY DEF SlaveInv, Started, Cleaned, None, Handled, NoOrphan, WaitsForItsOwn,
         Polling, Monitoring, Children, Socats
<1> QED BY <1>1, <1>2, <1>3, PTL DEF Spec

-----------------------------------------------------------------------------
\* A link of its own means a live socat; a link found is its own or an old one.
Linked(s) == link[s] = "own" => s \in connected /\ proc[s] = "running"
Known(s) == s \in connected \/ link[s] = "old"

\* What the poll has learnt about the links and the socats.
Polled ==
  /\ \A s \in Socats : Linked(s)
  /\ \A s \in found : Known(s)
  /\ pc \in {"wait_socat_gdb", "wait_socat_trgt", "find_socat_gdb"} => found = {}
  /\ pc \in Reading \cup {"fork_socat_gdb", "fork_socat_trgt"} => found = {} /\ ~exited
  /\ pc = "wait_socat_gdb" => ~exited
  /\ pc \in Polling /\ exited =>
       \E s \in Socats : proc[s] # "running" /\ (s \notin found \/ link[s] = "old")
  /\ pc = "fork_gdb" => \A s \in Socats : Known(s)

PollInv == SlaveInv /\ Polled /\ GdbStartsLinked

LEMMA PollInvInit == Init => PollInv
<1> SUFFICES ASSUME Init PROVE PollInv
  OBVIOUS
<1>1. \A s \in Socats : link[s] # "own"
  BY DEF Init
<1> QED BY <1>1, SlaveInvInit
  DEF Init, PollInv, Polled, Linked, Known, GdbStartsLinked, Polling, Reading, Children,
      Socats

LEMMA PollInvStep ==
  ASSUME PollInv, [Next]_vars
  PROVE  PollInv'
<1> USE DEF PollInv, Polled, Linked, Known, GdbStartsLinked, Children, Socats, Polling,
            Reading
<1>0. SlaveInv /\ SlaveInv'
  BY SlaveInvStep
<1>1. /\ proc \in [Children -> {"none", "running", "zombie", "reaped"}]
      /\ link \in [Socats -> {"absent", "own", "old"}]
      /\ connected \subseteq Socats /\ found \subseteq Socats
      /\ exited \in BOOLEAN
  BY <1>0 DEF SlaveInv, TypeOK
<1>2. CASE Configure
  BY <1>0, <1>1, <1>2 DEF Configure, GoOnIf
<1>3. CASE ForkSocatGdb \/ ForkSocatTrgt
  <2>1. /\ UNCHANGED <<link, connected, exited, found>>
        /\ proc["gdb"] = "none" /\ found = {} /\ ~exited
        /\ pc \in {"fork_socat_gdb", "fork_socat_trgt"}
        /\ pc' \in {"fork_socat_trgt", "wait_socat_gdb", "kill_gdb"}
    BY <1>0, <1>3 DEF ForkSocatGdb, ForkSocatTrgt, Fork, Fails, SlaveInv, Started, None
  <2>2. proc'["gdb"] = "none" /\ \A s \in Socats : proc[s] = "running" => proc'[s] = "running"
    BY <1>1, <1>3, <2>1 DEF ForkSocatGdb, ForkSocatTrgt, Fork
  <2> QED BY <1>0, <1>1, <2>1, <2>2
<1>4. CASE WaitSocat
  BY <1>0, <1>1, <1>4 DEF WaitSocat, WaitPid, Gone
<1>5. CASE FindLinks
  <2>1. \A s \in Socats : Find(s) => found' = found \/ (Known(s) /\ found' = found \cup {s} /\
                                      (proc[s] = "running" \/ link[s] = "old"))
    BY <1>1 DEF Find
  <2>2. UNCHANGED <<proc, link, connected, exited>>
    BY <1>5 DEF FindLinks, Find
  <2>3. CASE pc = "find_socat_gdb" /\ Find("socat_gdb") /\ pc' = "find_socat_trgt"
    BY <1>0, <1>1, <2>1, <2>2, <2>3
  <2>4. CASE pc = "find_socat_trgt" /\ Find("socat_trgt") /\ pc' = "poll"
    BY <1>0, <1>1, <2>1, <2>2, <2>4
  <2> QED BY <1>5, <2>3, <2>4 DEF FindLinks
<1>6. CASE Poll
  BY <1>0, <1>1, <1>6 DEF Poll, Ready, Fails
<1>7. CASE ForkGdb
  BY <1>0, <1>1, <1>7 DEF ForkGdb, Fork, Fails
<1>8. CASE Sleep \/ KillChildren
  BY <1>0, <1>1, <1>8 DEF Sleep, KillChildren, Kill
<1>9. CASE Monitor
  BY <1>0, <1>1, <1>9 DEF Monitor, WaitPid, Gone
<1>10. ASSUME NEW s \in Socats, SocatConnects(s)
       PROVE  PollInv'
  BY <1>0, <1>1, <1>10 DEF SocatConnects
<1>11. ASSUME NEW c \in Children, ChildEnds(c)
       PROVE  PollInv'
  BY <1>0, <1>1, <1>11 DEF ChildEnds
<1>12. CASE UNCHANGED vars
  BY <1>0, <1>12 DEF vars
<1> QED BY <1>2, <1>3, <1>4, <1>5, <1>6, <1>7, <1>8, <1>9, <1>10, <1>11, <1>12
        DEF Next, SlaveStep

\* wait_for_socat keeps the two promises of its comment except towards a link of an
\* earlier session: GDB is started with both connections made, and never after a round
\* that found a socat dead.
THEOREM StartsConnected == Spec => []GdbStartsLinked /\ DeadSocatFails
<1>1. Init => PollInv
  BY PollInvInit
<1>2. PollInv /\ [Next]_vars => PollInv'
  BY PollInvStep
<1>3. PollInv => GdbStartsLinked
  BY DEF PollInv
<1>4. PollInv /\ [Next]_vars =>
        [pc = "poll" /\ exited /\ pc' = "fork_gdb" =>
           \E s \in Socats : proc[s] # "running" /\ link[s] = "old"]_vars
  <2> SUFFICES ASSUME PollInv, Next, pc = "poll", exited, pc' = "fork_gdb"
               PROVE  \E s \in Socats : proc[s] # "running" /\ link[s] = "old"
    OBVIOUS
  <2>1. Poll
    BY DEF Next, SlaveStep, Configure, Reading, ForkSocatGdb, ForkSocatTrgt, WaitSocat,
           FindLinks, ForkGdb, Sleep, Monitor, KillChildren, SocatConnects, ChildEnds
  <2>2. found = Socats
    BY <2>1 DEF Poll, Ready, Fails
  <2> QED BY <2>2 DEF PollInv, Polled, Polling
<1> QED BY <1>1, <1>2, <1>3, <1>4, PTL DEF Spec, DeadSocatFails
=============================================================================
