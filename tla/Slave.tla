------------------------------- MODULE Slave -------------------------------
(***************************************************************************)
(* One slave (src/src/slave/slave.cpp): it reads its configuration, starts *)
(* two socats and then GDB, and ends all three when one of them ends.  The *)
(* slave is sequential: "pc" is the system call it makes next.  Its        *)
(* children run beside it; socat, GDB and the kernel are external.         *)
(***************************************************************************)
EXTENDS Naturals, Sequences

Socats == {"socat_gdb", "socat_trgt"}
Children == Socats \cup {"gdb"}

VARIABLES
  pc,         \* the step the slave is about to make
  proc,       \* "none" (the PID is -1), "running", "zombie", "reaped"
  link,       \* the PTY link of each socat: "absent", "own", "old"
  connected,  \* the socats that have had their TCP connection and their PTY
  exited,     \* the local variable of both loops: not 0
  found,      \* found_gdb, found_trgt: the links seen in this round
  signalled,  \* the children a signal was sent to
  status      \* the exit status of the slave

vars == <<pc, proc, link, connected, exited, found, signalled, status>>

Reading == {"parse_cl_args", "set_base_port", "set_rank", "set_size"}
Polling == {"wait_socat_gdb", "wait_socat_trgt", "find_socat_gdb",
            "find_socat_trgt", "poll"}
Monitoring == {"monitor_gdb", "monitor_socat_gdb", "monitor_socat_trgt", "sleep"}
Forking == {"fork_socat_gdb", "fork_socat_trgt", "fork_gdb"}
Killing == {"kill_gdb", "kill_socat_gdb", "kill_socat_trgt"}

\* Every variable keeps to its type.
TypeOK ==
  /\ pc \in Reading \cup Polling \cup Monitoring \cup Forking \cup Killing \cup {"done"}
  /\ proc \in [Children -> {"none", "running", "zombie", "reaped"}]
  /\ link \in [Socats -> {"absent", "own", "old"}]
  /\ connected \subseteq Socats
  /\ exited \in BOOLEAN
  /\ found \subseteq Socats
  /\ signalled \subseteq Children
  /\ status \in {"none", "success", "failure"}

Init ==
  /\ pc = "parse_cl_args"
  /\ proc = [c \in Children |-> "none"]
  /\ link \in [Socats -> {"absent", "old"}]   \* an earlier session may have left one
  /\ connected = {}
  /\ exited = FALSE
  /\ found = {}
  /\ signalled = {}
  /\ status = "none"

-----------------------------------------------------------------------------
(* Configuration: main, parse_cl_args, set_base_port, set_rank, set_size *)

\* A setting is missing, or its text is or is not a number.
Texts == {"missing", "not_a_number", "number"}

\* The first of the sources that is there decides, whether it is a number or not.
FirstGiven(texts) ==
  LET given == SelectSeq(texts, LAMBDA t : t # "missing") IN
  IF given = << >> THEN "missing" ELSE Head(given)

\* main goes on, or returns EXIT_FAILURE.
GoOnIf(ok, then) ==
  IF ok THEN pc' = then /\ UNCHANGED status
        ELSE pc' = "done" /\ status' = "failure"

\* An unknown option, no target, no address or no port; the help option, which ends the
\* slave as well; the port itself is not looked at before set_base_port.
Configure ==
  /\ \/ /\ pc = "parse_cl_args"
        /\ \/ \E ok \in BOOLEAN : GoOnIf(ok, "set_base_port")
           \/ pc' = "done" /\ status' = "success"
     \/ /\ pc = "set_base_port"
        /\ \E text \in Texts \ {"missing"} : GoOnIf(text = "number", "set_rank")
     \/ /\ pc \in {"set_rank", "set_size"}
        /\ \E option, custom, ompi, pmi \in Texts :
             GoOnIf(FirstGiven(<<option, custom, ompi, pmi>>) = "number",
                    IF pc = "set_rank" THEN "set_size" ELSE "fork_socat_gdb")
  /\ UNCHANGED <<proc, link, connected, exited, found, signalled>>

-----------------------------------------------------------------------------
(* start_processes *)

\* fork may fail: the PID is -1 then.
Fork(c) ==
  /\ \/ proc' = [proc EXCEPT ![c] = "running"]
     \/ UNCHANGED proc
  /\ UNCHANGED <<link, connected, exited, found, signalled>>

ForkSocatGdb ==
  /\ pc = "fork_socat_gdb"
  /\ Fork("socat_gdb")
  /\ pc' = "fork_socat_trgt"
  /\ UNCHANGED status

\* Mutant: one socat is enough to go on.
MayStartGdbAny(procs) == \E s \in Socats : procs[s] # "none"

MayStartGdb(procs) == \A s \in Socats : procs[s] # "none"

\* start_processes returns false: main kills what was started.
Fails == pc' = "kill_gdb" /\ status' = "failure"

ForkSocatTrgt ==
  /\ pc = "fork_socat_trgt"
  /\ Fork("socat_trgt")
  /\ IF MayStartGdb(proc') THEN pc' = "wait_socat_gdb" /\ UNCHANGED status ELSE Fails

\* Mutant: only a PID counts, the -1 for a child that was reaped before does not.
GoneIfZombie(c) == proc[c] = "zombie"

\* waitpid with WNOHANG is not 0: it is the PID of a zombie, and -1 for a child that
\* was reaped before.
Gone(c) == proc[c] # "running"

WaitPid(c) ==
  /\ exited' = (exited \/ Gone(c))
  /\ proc' = [proc EXCEPT ![c] = IF @ = "zombie" THEN "reaped" ELSE @]

\* wait_for_socat, one round: two waitpid, two exists, then the decision.
WaitSocat ==
  /\ \/ pc = "wait_socat_gdb" /\ WaitPid("socat_gdb") /\ pc' = "wait_socat_trgt"
     \/ pc = "wait_socat_trgt" /\ WaitPid("socat_trgt") /\ pc' = "find_socat_gdb"
  /\ UNCHANGED <<link, connected, found, signalled, status>>

\* filesystem::exists follows the link: a link that was left may lead to a PTY
\* that is another's by now, or to nothing.
Find(s) ==
  /\ \/ link[s] \in {"own", "old"} /\ found' = found \cup {s}
     \/ link[s] \in {"absent", "old"} /\ UNCHANGED found
  /\ UNCHANGED <<proc, link, connected, exited, signalled, status>>

FindLinks ==
  \/ pc = "find_socat_gdb" /\ Find("socat_gdb") /\ pc' = "find_socat_trgt"
  \/ pc = "find_socat_trgt" /\ Find("socat_trgt") /\ pc' = "poll"

\* Mutant: one link is enough.
ReadyAny == found # {}

Ready == found = Socats

\* Links found: true, even if a socat was found dead in this round.
Poll ==
  /\ pc = "poll"
  /\ \/ Ready /\ pc' = "fork_gdb" /\ UNCHANGED status
     \/ ~Ready /\ exited /\ Fails
     \/ ~Ready /\ ~exited /\ pc' = "wait_socat_gdb" /\ UNCHANGED status
  /\ exited' = FALSE
  /\ found' = {}
  /\ UNCHANGED <<proc, link, connected, signalled>>

ForkGdb ==
  /\ pc = "fork_gdb"
  /\ Fork("gdb")
  /\ IF proc'["gdb"] # "none" THEN pc' = "sleep" /\ UNCHANGED status ELSE Fails

-----------------------------------------------------------------------------
(* monitor_processes, kill_children *)

Sleep ==
  /\ pc = "sleep"
  /\ pc' = "monitor_gdb"
  /\ exited' = FALSE
  /\ UNCHANGED <<proc, link, connected, found, signalled, status>>

Monitor ==
  /\ \/ pc = "monitor_gdb" /\ WaitPid("gdb") /\ pc' = "monitor_socat_gdb"
     \/ pc = "monitor_socat_gdb" /\ WaitPid("socat_gdb") /\ pc' = "monitor_socat_trgt"
     \/ /\ pc = "monitor_socat_trgt" /\ WaitPid("socat_trgt")
        /\ IF exited' THEN pc' = "kill_gdb" ELSE pc' = "sleep"
  /\ status' = IF pc' = "kill_gdb" THEN "success" ELSE status
  /\ UNCHANGED <<link, connected, found, signalled>>

\* Mutant: children are killed only once GDB was started.
KillableWithGdb(c) == proc[c] # "none" /\ proc["gdb"] # "none"

\* Its PID is positive; the child may have been reaped already.
Killable(c) == proc[c] # "none"

Kill(c, then) ==
  /\ signalled' = IF Killable(c) THEN signalled \cup {c} ELSE signalled
  /\ pc' = then
  /\ UNCHANGED <<proc, link, connected, exited, found, status>>

KillChildren ==
  \/ pc = "kill_gdb" /\ Kill("gdb", "kill_socat_gdb")
  \/ pc = "kill_socat_gdb" /\ Kill("socat_gdb", "kill_socat_trgt")
  \/ pc = "kill_socat_trgt" /\ Kill("socat_trgt", "done")

-----------------------------------------------------------------------------
(* External: the children *)

\* socat connects to the master first, then makes its PTY and the link to it.
SocatConnects(s) ==
  /\ proc[s] = "running" /\ s \notin connected
  /\ connected' = connected \cup {s}
  /\ link' = [link EXCEPT ![s] = "own"]
  /\ UNCHANGED <<pc, proc, exited, found, signalled, status>>

\* A child ends: the master refuses or closes the connection, GDB quits, a
\* program cannot be executed, somebody kills it.  socat removes its link.
ChildEnds(c) ==
  /\ proc[c] = "running"
  /\ proc' = [proc EXCEPT ![c] = "zombie"]
  /\ link' = [s \in Socats |-> IF s = c /\ link[s] = "own" THEN "absent" ELSE link[s]]
  /\ UNCHANGED <<pc, connected, exited, found, signalled, status>>

-----------------------------------------------------------------------------
SlaveStep ==
  \/ Configure \/ ForkSocatGdb \/ ForkSocatTrgt \/ WaitSocat \/ FindLinks \/ Poll
  \/ ForkGdb \/ Sleep \/ Monitor \/ KillChildren

SignalTaken(c) == c \in signalled /\ ChildEnds(c)

Next ==
  \/ SlaveStep
  \/ \E s \in Socats : SocatConnects(s)
  \/ \E c \in Children : ChildEnds(c)

Spec == Init /\ [][Next]_vars

\* The kernel runs the slave and delivers its signals.  socat need not connect.
Fairness == WF_vars(SlaveStep) /\ \A c \in Children : WF_vars(SignalTaken(c))

FairSpec == Spec /\ Fairness

-----------------------------------------------------------------------------
Ended(c) == proc[c] \in {"zombie", "reaped"}

\* When one child ends, at whatever step of the slave - while it polls, between the
\* poll and the monitor, after a waitpid has taken its status - every child that was
\* started ends and so does the slave (wait_for_socat, monitor_processes).
OneEndsAllEnd ==
  \A c \in Children :
    Ended(c) ~> (pc = "done" /\ \A d \in Children : proc[d] = "none" \/ Ended(d))

\* The slave leaves nothing behind: when it returns, each child it started has
\* ended or has a signal on its way, whichever fork failed (start_processes, main).
NoOrphan ==
  pc = "done" => \A c \in Children : proc[c] = "running" => c \in signalled

\* waitpid is never called with a PID of -1, which would take the status of any
\* child (start_processes guards start_gdb and the monitor).
WaitsForItsOwn ==
  /\ pc \in {"wait_socat_gdb", "monitor_socat_gdb"} => proc["socat_gdb"] # "none"
  /\ pc \in {"wait_socat_trgt", "monitor_socat_trgt"} => proc["socat_trgt"] # "none"
  /\ pc = "monitor_gdb" => proc["gdb"] # "none"

\* slave.cpp:87, "when the TCP connection is established, so everything is
\* ready for GDB to start": both socats have had their connection and their PTY
\* before GDB is started.
GdbStartsConnected ==
  proc["gdb"] # "none" => connected = Socats

\* Only a link that an earlier session left can make the slave start GDB before a
\* socat has had its connection (wait_for_socat).
GdbStartsLinked ==
  proc["gdb"] # "none" => \A s \in Socats : s \in connected \/ link[s] = "old"

\* slave.cpp:90, "false when either of the socat instances dies": wait_for_socat
\* fails in the round in which waitpid finds a socat dead, unless the dead socat's name
\* is that of a link an earlier session left.
DeadSocatFails ==
  [][pc = "poll" /\ exited /\ pc' = "fork_gdb" =>
       \E s \in Socats : proc[s] # "running" /\ link[s] = "old"]_vars
=============================================================================
