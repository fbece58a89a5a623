---------------------------- MODULE Connections ----------------------------
(***************************************************************************)
(* The master's threads and sockets: the main thread (Master::main, which  *)
(* becomes the GUI thread), one detached thread per port that accepts one  *)
(* connection and reads it (start_acceptor, read_data), the queue of Glib  *)
(* idle sources between them, and the pointers m_conns_gdb, m_conns_trgt   *)
(* to sockets that live on the stacks of the reader threads.               *)
(* The slaves are external here: a socat connects, and it may end at any   *)
(* time; the slave then ends the other one.  Session composes this module  *)
(* with the slave itself.                                                  *)
(***************************************************************************)
EXTENDS Ports, Sequences

CONSTANTS
  Busy,       \* ports another program may listen on
  Mortal,     \* the slaves that may end by themselves
  Talkers,    \* bound: the connections on which data is read
  MaxChunks   \* bound: reads that return data, per connection

ASSUME ConnectionsAssumption == MaxChunks \in Nat

Null == -1
Socats == Ranks \X Kinds
NoSocat == <<Null, "none">>

VARIABLES
  main,      \* where the main thread is
  offset,    \* the loop variable of start_servers and of on_delete
  thread,    \* where the thread of each port is
  peer,      \* the socat connected to each thread
  socat,     \* the socats' end: "new", "open", "closed"
  conns,     \* m_conns_gdb / m_conns_trgt: whose socket is pointed to
  received,  \* number of chunks each thread has read
  idle,      \* the idle sources of handle_data, oldest first
  handled,   \* number of the last chunk handled, per thread
  shut,      \* the threads whose socket on_delete has shut down
  using,     \* the pointer the GUI thread has just loaded
  unread,    \* the socats that may hold input they have not read
  fault      \* what went wrong, if anything did

vars == <<main, offset, thread, peer, socat, conns, received, idle, handled,
          shut, using, unread, fault>>

Faults == {"none", "thrown", "destroyed", "null", "read_error"}

\* Every variable keeps to its type.
TypeOK ==
  /\ main \in {"servers", "wait", "run", "close", "deleted", "exited"}
  /\ offset \in 0 .. 2 * NumProcs
  /\ thread \in [Offsets -> {"none", "accepting", "accepted", "reading", "eof", "ended"}]
  /\ peer \in [Offsets -> Socats \cup {NoSocat}]
  /\ socat \in [Socats -> {"new", "open", "closed"}]
  /\ conns \in [Kinds -> [Ranks -> Offsets \cup {Null}]]
  /\ received \in [Offsets -> 0 .. MaxChunks]
  /\ idle \in Seq(Offsets \X (1 .. MaxChunks))
  /\ handled \in [Offsets -> 0 .. MaxChunks]
  /\ shut \subseteq Offsets
  /\ using \in Offsets \cup {Null}
  /\ unread \subseteq Socats
  /\ fault \in Faults

Init ==
  /\ main = "servers"
  /\ offset = 0
  /\ thread = [o \in Offsets |-> "none"]
  /\ peer = [o \in Offsets |-> NoSocat]
  /\ socat = [s \in Socats |-> "new"]
  /\ conns = [k \in Kinds |-> [r \in Ranks |-> Null]]
  /\ received = [o \in Offsets |-> 0]
  /\ idle = << >>
  /\ handled = [o \in Offsets |-> 0]
  /\ shut = {}
  /\ using = Null
  /\ unread = {}
  /\ fault = "none"

Runs == main # "exited"

-----------------------------------------------------------------------------
(* Master: start_servers, then start_slaves and start_GUI *)

\* Mutant: one round too many.
MorePortsPast == offset <= 2 * NumProcs

\* The condition of the loop of start_servers, and of the loop of on_delete.
MorePorts == offset < 2 * NumProcs

\* One round of the loop of start_servers.  A second acceptor cannot be bound to a
\* port: false is returned, main returns and ~Master deletes the window.
StartServer ==
  /\ main = "servers" /\ MorePorts
  /\ \/ /\ MasterPort(offset) \in Busy
        /\ main' = "deleted"
        /\ UNCHANGED <<offset, thread>>
     \/ /\ thread' = [thread EXCEPT ![offset] = "accepting"]
        /\ offset' = offset + 1
        /\ UNCHANGED main
  /\ UNCHANGED <<peer, socat, conns, received, idle, handled, shut, using,
                 unread, fault>>

StartGui ==
  /\ main = "servers" /\ offset = 2 * NumProcs
  /\ main' = "wait"
  /\ UNCHANGED <<offset, thread, peer, socat, conns, received, idle, handled,
                 shut, using, unread, fault>>

-----------------------------------------------------------------------------
(* External: the slaves *)

\* A socat connects: the kernel completes the connection for the acceptor bound
\* to that port.  Port 0 asks for any free port, so nobody finds it.
Connect(s, o) ==
  /\ Runs /\ socat[s] = "new"
  /\ thread[o] = "accepting"
  /\ MasterPort(o) = SlavePort(s[1], s[2]) /\ MasterPort(o) # 0
  /\ socat' = [socat EXCEPT ![s] = "open"]
  /\ peer' = [peer EXCEPT ![o] = s]
  /\ thread' = [thread EXCEPT ![o] = "accepted"]
  /\ UNCHANGED <<main, offset, conns, received, idle, handled, shut, using,
                 unread, fault>>

CloseSocats(ended) ==
  /\ socat' = [s \in Socats |-> IF s \in ended THEN "closed" ELSE socat[s]]
  /\ UNCHANGED <<main, offset, thread, peer, conns, received, idle, handled,
                 shut, using, unread, fault>>

\* A slave returns before it has started its socats.
SlaveFails(r) ==
  /\ r \in Mortal
  /\ \A k \in Kinds : socat[<<r, k>>] = "new"
  /\ CloseSocats({r} \X Kinds)

\* A socat ends, or could not be started.
SocatCloses(s) ==
  /\ s[1] \in Mortal /\ socat[s] # "closed"
  /\ CloseSocats({s})

\* The other socat of the slave has ended, the master has shut the connection down, or
\* there is no master: the socat ends as well.
SocatFollows(s) ==
  /\ socat[s] # "closed"
  /\ \/ \E k \in Kinds : socat[<<s[1], k>>] = "closed"
     \/ \E o \in shut : peer[o] = s
     \/ ~Runs
  /\ CloseSocats({s})

-----------------------------------------------------------------------------
(* A reader thread: start_acceptor, read_data *)

\* Mutant: the pointer stays when the connection ends.
SetConnsKeep(o, pointer) ==
  LET port == MasterPort(o) IN
  conns' = IF pointer = Null THEN conns
           ELSE [conns EXCEPT ![KindOf(port)][get_rank(port)] = pointer]

SetConns(o, pointer) ==
  LET port == MasterPort(o) IN
  conns' = [conns EXCEPT ![KindOf(port)][get_rank(port)] = pointer]

\* The acceptor is closed, the socket moved into read_data and made known.
Publish(o) ==
  /\ Runs /\ thread[o] = "accepted"
  /\ SetConns(o, o)
  /\ thread' = [thread EXCEPT ![o] = "reading"]
  /\ UNCHANGED <<main, offset, peer, socat, received, idle, handled, shut,
                 using, unread, fault>>

\* Mutant: a new chunk is handled before the older ones.
EnqueueFirst(queue, chunk) == <<chunk>> \o queue

\* Glib runs idle sources of one priority in the order they were added.
Enqueue(queue, chunk) == Append(queue, chunk)

\* read_some returns data; a copy goes to the GUI thread.
ReadChunk(o) ==
  /\ Runs /\ thread[o] = "reading" /\ o \notin shut
  /\ socat[peer[o]] = "open"
  /\ o \in Talkers /\ received[o] < MaxChunks
  /\ received' = [received EXCEPT ![o] = @ + 1]
  /\ idle' = Enqueue(idle, <<o, received[o] + 1>>)
  /\ UNCHANGED <<main, offset, thread, peer, socat, conns, handled, shut,
                 using, unread, fault>>

\* read_some returns eof: the pointer is taken back ...
ReadEof(o) ==
  /\ Runs /\ thread[o] = "reading"
  /\ socat[peer[o]] = "closed" \/ o \in shut
  /\ SetConns(o, Null)
  /\ thread' = [thread EXCEPT ![o] = "eof"]
  /\ UNCHANGED <<main, offset, peer, socat, received, idle, handled, shut,
                 using, unread, fault>>

\* ... and on return the socket is destroyed.
DestroySocket(o) ==
  /\ Runs /\ thread[o] = "eof"
  /\ thread' = [thread EXCEPT ![o] = "ended"]
  /\ UNCHANGED <<main, offset, peer, socat, conns, received, idle, handled,
                 shut, using, unread, fault>>

\* A socat that ends with input it has not read resets the connection: the
\* exception leaves the thread, the master terminates.
ReadError(o) ==
  /\ Runs /\ thread[o] = "reading"
  /\ socat[peer[o]] = "closed" /\ peer[o] \in unread
  /\ main' = "exited"
  /\ fault' = "read_error"
  /\ UNCHANGED <<offset, thread, peer, socat, conns, received, idle, handled,
                 shut, using, unread>>

-----------------------------------------------------------------------------
(* The GUI thread *)

HandleData ==
  /\ main \in {"wait", "run"} /\ using = Null
  /\ idle # << >>
  /\ handled' = [handled EXCEPT ![Head(idle)[1]] = Head(idle)[2]]
  /\ idle' = Tail(idle)
  /\ UNCHANGED <<main, offset, thread, peer, socat, conns, received, shut,
                 using, unread, fault>>

Connected == {r \in Ranks : \A k \in Kinds : conns[k][r] # Null}

\* wait_slaves_timeout: the dialog goes away when every slave is connected.
SlavesConnected ==
  /\ main = "wait" /\ Connected = Ranks
  /\ main' = "run"
  /\ UNCHANGED <<offset, thread, peer, socat, conns, received, idle, handled,
                 shut, using, unread, fault>>

CancelWait ==
  /\ main = "wait"
  /\ main' = "deleted"
  /\ UNCHANGED <<offset, thread, peer, socat, conns, received, idle, handled,
                 shut, using, unread, fault>>

\* send_data in two steps: the caller loads the pointer and it is tested ...
SendLoad(k, r) ==
  /\ main = "run" /\ using = Null
  /\ conns[k][r] # Null
  /\ using' = conns[k][r]
  /\ UNCHANGED <<main, offset, thread, peer, socat, conns, received, idle,
                 handled, shut, unread, fault>>

\* ... and asio::write uses the socket, which may have been destroyed, or whose
\* peer may be gone: writing then may succeed or throw.
SendWrite ==
  /\ main = "run" /\ using # Null
  /\ \/ /\ thread[using] = "ended"
        /\ fault' = "destroyed" /\ main' = "exited"
        /\ UNCHANGED unread
     \/ /\ thread[using] # "ended" /\ socat[peer[using]] = "closed"
        /\ fault' = "thrown" /\ main' = "exited"
        /\ UNCHANGED unread
     \/ /\ thread[using] # "ended"
        /\ unread' = unread \cup {peer[using]}
        /\ UNCHANGED <<fault, main>>
  /\ using' = Null
  /\ UNCHANGED <<offset, thread, peer, socat, conns, received, idle, handled,
                 shut>>

\* Quit button or window closed: on_delete visits every pointer, then quits.
Quit ==
  /\ main = "run" /\ using = Null
  /\ main' = "close" /\ offset' = 0
  /\ UNCHANGED <<thread, peer, socat, conns, received, idle, handled, shut,
                 using, unread, fault>>

\* Mutant: only the sockets of GDB are visited.
VisitedGdbOnly == conns["gdb"][offset \div 2]

\* The order of on_delete: GDB and target of rank 0, of rank 1, ...
Visited == conns[IF offset % 2 = 0 THEN "gdb" ELSE "trgt"][offset \div 2]

\* "if (m_conns[rank])"
CloseTest ==
  /\ main = "close" /\ MorePorts /\ using = Null
  /\ IF Visited = Null THEN offset' = offset + 1 /\ UNCHANGED using
                       ELSE using' = Visited /\ UNCHANGED offset
  /\ UNCHANGED <<main, thread, peer, socat, conns, received, idle, handled,
                 shut, unread, fault>>

\* "m_conns[rank]->shutdown": the pointer is loaded a second time.  That the socket is
\* destroyed between this load and the call, or that shutdown throws, is left out.
CloseUse ==
  /\ main = "close" /\ using # Null
  /\ \/ /\ Visited = Null
        /\ fault' = "null" /\ main' = "exited"
        /\ UNCHANGED <<offset, shut>>
     \/ /\ Visited # Null
        /\ shut' = shut \cup {Visited}
        /\ offset' = offset + 1
        /\ UNCHANGED <<fault, main>>
  /\ using' = Null
  /\ UNCHANGED <<thread, peer, socat, conns, received, idle, handled, unread>>

\* sigint_handler quits the application without on_delete.
Sigint ==
  /\ main = "run" /\ using = Null
  /\ main' = "deleted"
  /\ UNCHANGED <<offset, thread, peer, socat, conns, received, idle, handled,
                 shut, using, unread, fault>>

AppQuits ==
  /\ main = "close" /\ offset = 2 * NumProcs
  /\ main' = "deleted"
  /\ UNCHANGED <<offset, thread, peer, socat, conns, received, idle, handled,
                 shut, using, unread, fault>>

\* ~Master has deleted the window, main returns, the kernel closes every socket.
Exit ==
  /\ main = "deleted"
  /\ main' = "exited"
  /\ UNCHANGED <<offset, thread, peer, socat, conns, received, idle, handled,
                 shut, using, unread, fault>>

-----------------------------------------------------------------------------
MainStep ==
  \/ StartServer \/ StartGui \/ SlavesConnected \/ HandleData \/ SendWrite
  \/ CloseTest \/ CloseUse \/ AppQuits \/ Exit

ThreadStep(o) ==
  Publish(o) \/ ReadChunk(o) \/ ReadEof(o) \/ DestroySocket(o)

MasterNext ==
  \/ MainStep
  \/ CancelWait \/ Quit \/ Sigint \/ \E k \in Kinds, r \in Ranks : SendLoad(k, r)
  \/ \E o \in Offsets : ThreadStep(o) \/ ReadError(o)

Next ==
  \/ MasterNext
  \/ \E s \in Socats, o \in Offsets : Connect(s, o)
  \/ \E r \in Ranks : SlaveFails(r)
  \/ \E s \in Socats : SocatCloses(s) \/ SocatFollows(s)

Spec == Init /\ [][Next]_vars

\* The scheduler runs every thread, the slaves are started and connect, and a socat
\* ends after the other one or its connection (Session).  The user need do nothing.
Fairness ==
  /\ WF_vars(MainStep)
  /\ \A o \in Offsets : WF_vars(ThreadStep(o))
  /\ \A s \in Socats : WF_vars(\E o \in Offsets : Connect(s, o))
  /\ \A s \in Socats : WF_vars(SocatFollows(s))

FairSpec == Spec /\ Fairness

-----------------------------------------------------------------------------
\* With the size the master was given, a pointer kept for a rank and a kind is to the
\* socket of that very socat: the port arithmetic of the slave and of the master agree
\* (start_processes, get_rank, src_is_gdb).
OwnSocket ==
  \A k \in Kinds, r \in Ranks : conns[k][r] # Null => peer[conns[k][r]] = <<r, k>>

\* A pointer that is not null points to a socket whose thread is still reading: it is
\* taken back before the socket is destroyed (read_data).
PointerValid ==
  \A k \in Kinds, r \in Ranks : conns[k][r] # Null => thread[conns[k][r]] = "reading"

\* The chunks of a connection are handled in the order they were read, none twice and
\* none left out: those that wait are exactly the ones read and not handled, the older
\* before the newer (read_data, handle_data).
InOrder ==
  /\ \A i \in 1 .. Len(idle) :
       LET o == idle[i][1] IN
       /\ idle[i][2] \in handled[o] + 1 .. received[o]
       /\ \A j \in 1 .. Len(idle) : i < j /\ idle[j][1] = o => idle[i][2] < idle[j][2]
  /\ \A o \in Offsets : \A n \in handled[o] + 1 .. received[o] :
       \E i \in 1 .. Len(idle) : idle[i] = <<o, n>>

\* The master stops waiting: unless a slave ends first, every connection is made, is
\* filed, and the waiting dialog goes away (start_servers, wait_slaves_timeout).
StartupCompletes ==
  <>(main \notin {"servers", "wait"} \/ \E s \in Socats : socat[s] = "closed")

\* Quitting shuts down every connection still read, of GDB and of the target: a slave
\* sees the end on whichever socat it watches (on_delete).
QuitShutsAll ==
  [][AppQuits => \A o \in Offsets : thread[o] = "reading" => o \in shut]_vars

\* window.cpp:510, "false otherwise": send_data answers; it never writes to a socket
\* that its thread has destroyed.
SendUsesLiveSocket == fault # "destroyed"
=============================================================================
