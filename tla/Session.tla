------------------------------ MODULE Session ------------------------------
(***************************************************************************)
(* A whole session with one process: the slave (Slave), the master with    *)
(* its threads and sockets (Connections) and the TCP connections between   *)
(* them.  In Connections a socat may do what it likes; here it is a child  *)
(* of the slave, connects when the master accepts, is refused when nobody  *)
(* does, and ends with its connection or by the signal of the slave.       *)
(***************************************************************************)
EXTENDS Slave

CONSTANTS BasePort, PortLimit, Busy   \* as in Ports and Connections

ASSUME SessionAssumption ==
  PortLimit \in Nat \ {0} /\ BasePort \in 0 .. PortLimit - 1   \* StartupDialog::read_values

VARIABLES main, offset, thread, peer, socat, conns, received, idle, handled,
          shut, using, unread, fault

masterVars == <<main, offset, thread, peer, conns, received, idle, handled,
                shut, using, unread, fault>>

sessionVars == <<vars, masterVars, socat>>

C == INSTANCE Connections
       WITH NumProcs <- 1, SlaveSize <- 1, Mortal <- {0}, Talkers <- {}, MaxChunks <- 0

Kinds == {"gdb", "trgt"}

\* The children of the slave that are the socats of Connections.
ChildOf == [k \in Kinds |-> IF k = "gdb" THEN "socat_gdb" ELSE "socat_trgt"]

\* The fork of this child has failed, or the slave has returned before.
NeverStarted(k) ==
  /\ proc[ChildOf[k]] = "none"
  /\ pc \notin Reading \cup {"fork_socat_gdb"}
  /\ k = "trgt" => pc # "fork_socat_trgt"

EndOf(k) ==
  CASE Ended(ChildOf[k]) \/ NeverStarted(k) -> "closed"
    [] proc[ChildOf[k]] = "running" /\ ChildOf[k] \in connected -> "open"
    [] OTHER -> "new"

\* What the network shows of the socats follows from the state of the slave.
SocatsFollowSlave ==
  /\ socat' = [s \in C!Socats |-> EndOf(s[2])']
  /\ UNCHANGED masterVars

SessionInit == Init /\ C!Init

MasterStep == C!MasterNext /\ UNCHANGED vars

SlaveGoesOn == SlaveStep /\ SocatsFollowSlave

\* A child ends for whatever reason.
ChildGoes(c) == ChildEnds(c) /\ SocatsFollowSlave

\* The connection is completed on both sides.
ConnectBoth(k) ==
  /\ SocatConnects(ChildOf[k])
  /\ \E o \in C!Offsets : C!Connect(<<0, k>>, o)

Accepting(k) ==
  C!Runs /\ \E o \in C!Offsets :
              /\ thread[o] = "accepting"
              /\ C!MasterPort(o) = C!SlavePort(0, k) /\ C!MasterPort(o) # 0

\* The connection is refused: nobody accepts on that port, or not yet.
SocatRefused(k) ==
  /\ ChildOf[k] \notin connected /\ ~Accepting(k)
  /\ ChildGoes(ChildOf[k])

\* The master has shut the connection down, or has exited.
SocatSeesEnd(k) ==
  /\ ChildOf[k] \in connected
  /\ ~C!Runs \/ \E o \in shut : peer[o] = <<0, k>>
  /\ ChildGoes(ChildOf[k])

SocatStep(k) == ConnectBoth(k) \/ SocatRefused(k) \/ SocatSeesEnd(k)

SessionNext ==
  \/ MasterStep \/ SlaveGoesOn
  \/ \E k \in Kinds : SocatStep(k)
  \/ \E c \in Children : ChildGoes(c)

\* Every process and thread is scheduled, a signal is taken, and socat gets an answer
\* from the network.  Nothing is assumed of the user, or of how long GDB runs.
SessionFairness ==
  /\ WF_sessionVars(C!MainStep /\ UNCHANGED vars)
  /\ \A o \in C!Offsets : WF_sessionVars(C!ThreadStep(o) /\ UNCHANGED vars)
  /\ WF_sessionVars(SlaveGoesOn)
  /\ \A k \in Kinds : WF_sessionVars(SocatStep(k))
  /\ \A c \in Children : WF_sessionVars(c \in signalled /\ ChildGoes(c))

SessionSpec == SessionInit /\ [][SessionNext]_sessionVars /\ SessionFairness

-----------------------------------------------------------------------------
NoChildRuns == \A c \in Children : proc[c] # "running"

\* The slave is what Connections assumes of it: it starts its socats or fails to, they
\* connect unless they end, and the second ends after the first, after its connection
\* and after the master (slave.cpp, main).
ConnectionsImplemented == C!FairSpec

\* However the master comes to its end - quit, cancelled, interrupted, terminated by an
\* exception, before or after the slave has connected - it ends, and so do the slave
\* and its children (on_delete, sigint_handler, main; monitor_processes).
MasterEndsSlave ==
  main \in {"close", "deleted", "exited"} ~>
    main = "exited" /\ pc = "done" /\ NoChildRuns

\* Once a slave has ended, the master soon has no pointer to its sockets, and never
\* again: its threads are over (read_data).
SlaveEndForgotten ==
  pc = "done" /\ NoChildRuns ~>
    [](main = "exited" \/ \A k \in Kinds : conns[k][0] = C!Null)

\* GDB is started only after the master has accepted both connections, unless a link
\* of an earlier session misled the slave (wait_for_socat).
GdbIsServed ==
  proc["gdb"] # "none" =>
    \A k \in Kinds : \/ \E o \in C!Offsets : peer[o] = <<0, k>>
                     \/ link[ChildOf[k]] = "old"
=============================================================================
