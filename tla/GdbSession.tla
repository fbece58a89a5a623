---------------------------- MODULE GdbSession ----------------------------
(***************************************************************************)
(* The far end of the wire: for every rank the GDB that the slave of that  *)
(* rank runs (src/src/slave/slave.cpp), its target program, and the two    *)
(* connections that socat keeps to the master.  GDB is external: only what *)
(* the master relies on is modelled.                                       *)
(*   - GDB runs in all-stop mode: it reads the next command only while its *)
(*     target is not running, so commands wait in the PTY until it stops.  *)
(*   - Everything GDB prints up to a "(gdb)" prompt is one batch; a batch  *)
(*     carries at most one record the master reacts to.                    *)
(*   - Breakpoint numbers grow and are never reused; number 1 is the       *)
(*     breakpoint on main that the slave's "-ex" options set.              *)
(***************************************************************************)
EXTENDS Integers, Sequences

CONSTANTS
  Ranks,        \* the ranks of the debugged parallel program
  Bkpts,        \* the Breakpoint objects the master may ever create
  BadLines,     \* the objects whose line GDB rejects ("No line N in file")
  NoBkpt,       \* the null Breakpoint pointer
  Mortal,       \* the ranks whose slave may end while the master runs
  MaxNumber,    \* bound: the largest breakpoint number GDB gives out
  MaxCmds,      \* bound: commands waiting in one PTY
  MaxRecords,   \* bound: batches on their way to the GUI thread, per rank
  MaxSigints    \* bound: ^C characters on their way to one target

ASSUME SessionAssumption ==
  /\ NoBkpt \notin Bkpts
  /\ BadLines \subseteq Bkpts
  /\ Mortal \subseteq Ranks
  /\ MaxNumber \in Nat /\ MaxCmds \in Nat
  /\ MaxRecords \in Nat /\ MaxSigints \in Nat \ {0}

\* The numbers GDB gives to the breakpoints of the user.
Numbers == 2 .. MaxNumber

\* A command: "insert" names the object whose path and line it carries,
\* "delete" the number (-1 while the master has not learnt one).
Commands == [op : {"resume", "run", "insert", "delete"},
             bp : Bkpts \cup {NoBkpt},
             no : Numbers \cup {-1, 0}]

\* A batch, by the one record in it that matters: "no" is the number of the
\* breakpoint inserted, or hit (0: stopped for another reason).  "reply" is any
\* ^done or ^error without a breakpoint tuple.
Records == [kind : {"running", "exited", "reply"}, no : {0}]
           \cup [kind : {"stopped"}, no : Numbers \cup {0}]
           \cup [kind : {"bkpt"}, no : Numbers]

Rec(kind, n) == [kind |-> kind, no |-> n]

VARIABLES
  alive,      \* the slave of the rank, and so its GDB, is there
  gdb,        \* what the target really does: "running", "stopped", "exited"
  table,      \* GDB's breakpoints: number -> the object it was inserted for
  next,       \* the next number GDB gives out
  cmds,       \* commands sent and not yet read by GDB, oldest first
  out,        \* batches printed by GDB and not yet handled by the GUI thread
  sigints,    \* ^C sent to the target's terminal and not yet taken
  conn_gdb,   \* m_conns_gdb[rank] is not null
  conn_trgt   \* m_conns_trgt[rank] is not null

sessionVars == <<alive, gdb, table, next, cmds, out, sigints,
                 conn_gdb, conn_trgt>>

SessionTypeOK ==
  /\ alive \in [Ranks -> BOOLEAN]
  /\ gdb \in [Ranks -> {"running", "stopped", "exited"}]
  /\ table \in [Ranks -> [Numbers -> Bkpts \cup {NoBkpt}]]
  /\ next \in [Ranks -> Nat \ {0, 1}]
  /\ cmds \in [Ranks -> Seq(Commands)]
  /\ out \in [Ranks -> Seq(Records)]
  /\ sigints \in [Ranks -> 0 .. MaxSigints]
  /\ conn_gdb \in [Ranks -> BOOLEAN]
  /\ conn_trgt \in [Ranks -> BOOLEAN]

\* GDB is started with "-ex run": the target runs to main, and both socats
\* are connected (wait_slaves returned).
SessionInit ==
  /\ alive = [r \in Ranks |-> TRUE]
  /\ gdb = [r \in Ranks |-> "running"]
  /\ table = [r \in Ranks |-> [n \in Numbers |-> NoBkpt]]
  /\ next = [r \in Ranks |-> 2]
  /\ cmds = [r \in Ranks |-> << >>]
  /\ out = [r \in Ranks |-> << >>]
  /\ sigints = [r \in Ranks |-> 0]
  /\ conn_gdb = [r \in Ranks |-> TRUE]
  /\ conn_trgt = [r \in Ranks |-> TRUE]

-----------------------------------------------------------------------------
(* Channels *)

Say(r, rec) == out' = [out EXCEPT ![r] = Append(@, rec)]

\* sendTo[r] is the sequence of commands the master writes to rank r in one
\* step; what is written to the terminal of a dead slave is lost.
SendCommands(sendTo) ==
  cmds' = [r \in Ranks |-> IF alive[r] THEN cmds[r] \o sendTo[r] ELSE cmds[r]]

\* ^C to the targets of the ranks in S.  SIGINTs that are pending at the same
\* time merge, so the count may saturate.
SendInterrupts(S) ==
  sigints' = [r \in Ranks |->
                IF r \in S /\ alive[r] /\ sigints[r] < MaxSigints
                THEN sigints[r] + 1 ELSE sigints[r]]

-----------------------------------------------------------------------------
(* GDB and its target *)

GdbReads(r, op) ==
  /\ alive[r]
  /\ gdb[r] # "running"
  /\ cmds[r] # << >>
  /\ Head(cmds[r]).op = op
  /\ Len(out[r]) < MaxRecords
  /\ cmds' = [cmds EXCEPT ![r] = Tail(@)]
  /\ UNCHANGED <<alive, sigints, conn_gdb, conn_trgt>>

\* next, step, finish, continue: an error once the program has exited.
GdbResume(r) ==
  /\ GdbReads(r, "resume")
  /\ \/ gdb[r] = "stopped" /\ gdb' = [gdb EXCEPT ![r] = "running"]
        /\ Say(r, Rec("running", 0))
     \/ gdb[r] = "exited" /\ UNCHANGED gdb /\ Say(r, Rec("reply", 0))
  /\ UNCHANGED <<table, next>>

GdbRun(r) ==
  /\ GdbReads(r, "run")
  /\ gdb' = [gdb EXCEPT ![r] = "running"]
  /\ Say(r, Rec("running", 0))
  /\ UNCHANGED <<table, next>>

GdbInsert(r) ==
  /\ GdbReads(r, "insert")
  /\ LET b == Head(cmds[r]).bp IN
     \/ /\ b \in BadLines
        /\ Say(r, Rec("reply", 0))
        /\ UNCHANGED <<table, next>>
     \/ /\ b \notin BadLines
        /\ next[r] \in Numbers
        /\ table' = [table EXCEPT ![r][next[r]] = b]
        /\ next' = [next EXCEPT ![r] = @ + 1]
        /\ Say(r, Rec("bkpt", next[r]))
  /\ UNCHANGED gdb

\* "No breakpoint number -1." is a reply too: nothing is deleted then.
GdbDelete(r) ==
  /\ GdbReads(r, "delete")
  /\ LET n == Head(cmds[r]).no IN
     table' = [table EXCEPT ![r] =
                [m \in Numbers |-> IF m = n THEN NoBkpt ELSE @[m]]]
  /\ Say(r, Rec("reply", 0))
  /\ UNCHANGED <<gdb, next>>

TargetRuns(r) ==
  /\ alive[r]
  /\ gdb[r] = "running"
  /\ Len(out[r]) < MaxRecords
  /\ UNCHANGED <<alive, table, next, cmds, conn_gdb, conn_trgt>>

\* The target reaches breakpoint n, or (0) the end of a step, main, a signal.
GdbStop(r, n) ==
  /\ TargetRuns(r)
  /\ n # 0 => table[r][n] # NoBkpt
  /\ gdb' = [gdb EXCEPT ![r] = "stopped"]
  /\ Say(r, Rec("stopped", n))
  /\ UNCHANGED sigints

GdbExit(r) ==
  /\ TargetRuns(r)
  /\ gdb' = [gdb EXCEPT ![r] = "exited"]
  /\ Say(r, Rec("exited", 0))
  /\ UNCHANGED sigints

\* SIGINT stops a running target; others pending with it may merge into it.  A
\* ^C that finds the target stopped stays pending until the target runs again.
GdbInterrupt(r) ==
  /\ TargetRuns(r)
  /\ sigints[r] > 0
  /\ \E k \in 0 .. MaxSigints :
       k < sigints[r] /\ sigints' = [sigints EXCEPT ![r] = k]
  /\ gdb' = [gdb EXCEPT ![r] = "stopped"]
  /\ Say(r, Rec("stopped", 0))

\* A ^C typed to a terminal no process listens to is lost.
InterruptLost(r) ==
  /\ alive[r] /\ gdb[r] = "exited" /\ sigints[r] > 0
  /\ \E k \in 0 .. MaxSigints :
       k < sigints[r] /\ sigints' = [sigints EXCEPT ![r] = k]
  /\ UNCHANGED <<alive, gdb, table, next, cmds, out, conn_gdb, conn_trgt>>

\* One child of the slave ends, monitor_processes kills the rest: what socat
\* had not yet forwarded is lost, from the newest batch backwards.
SlaveDies(r) ==
  /\ r \in Mortal /\ alive[r]
  /\ alive' = [alive EXCEPT ![r] = FALSE]
  /\ \E k \in 0 .. MaxRecords :
       /\ k <= Len(out[r])
       /\ out' = [out EXCEPT ![r] = SubSeq(@, 1, k)]
  /\ cmds' = [cmds EXCEPT ![r] = << >>]
  /\ sigints' = [sigints EXCEPT ![r] = 0]
  /\ UNCHANGED <<gdb, table, next, conn_gdb, conn_trgt>>

\* The reader thread of either connection sees eof (Master::read_data): all it
\* read before is already queued for the GUI thread.
GdbEof(r) ==
  /\ ~alive[r] /\ conn_gdb[r]
  /\ conn_gdb' = [conn_gdb EXCEPT ![r] = FALSE]
  /\ UNCHANGED <<alive, gdb, table, next, cmds, out, sigints, conn_trgt>>

TrgtEof(r) ==
  /\ ~alive[r] /\ conn_trgt[r]
  /\ conn_trgt' = [conn_trgt EXCEPT ![r] = FALSE]
  /\ UNCHANGED <<alive, gdb, table, next, cmds, out, sigints, conn_gdb>>

GdbStep(r) ==
  \/ GdbResume(r) \/ GdbRun(r) \/ GdbInsert(r) \/ GdbDelete(r)
  \/ \E n \in Numbers \cup {0} : GdbStop(r, n)
  \/ GdbExit(r) \/ GdbInterrupt(r) \/ InterruptLost(r)
  \/ SlaveDies(r) \/ GdbEof(r) \/ TrgtEof(r)
=============================================================================
