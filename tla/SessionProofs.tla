--------------------------- MODULE SessionProofs ---------------------------
(***************************************************************************)
(* The slave and the master together, for any base port, any width of a    *)
(* port and any ports in use: each of the two does in the session what its *)
(* own module says, so what is proved of it there holds here, and what the *)
(* slave takes for a connection is one the master has accepted.            *)
(***************************************************************************)
EXTENDS Session, SlaveProofs

LEMMA KindFacts ==
  /\ C!Kinds = Kinds /\ C!Socats = {0} \X Kinds /\ C!Ranks = {0}
  /\ \A k \in Kinds : ChildOf[k] \in Socats
  /\ \A s \in Socats : \E k \in Kinds : ChildOf[k] = s
  /\ \A j, k \in Kinds : ChildOf[j] = ChildOf[k] => j = k
BY DEF C!Kinds, C!Socats, C!Ranks, Kinds, ChildOf, Socats

\* What each step of the session is for the slave, and what it leaves of the master.
LEMMA StepOfSlave ==
  ASSUME [SessionNext]_sessionVars
  PROVE  [Next]_vars
<1>1. CASE \E k \in Kinds : SocatStep(k)
  <2> PICK k \in Kinds : SocatStep(k)
    BY <1>1
  <2> QED BY KindFacts DEF SocatStep, ConnectBoth, SocatRefused, SocatSeesEnd, ChildGoes,
                           Next, Children
<1>2. CASE MasterStep \/ SlaveGoesOn \/ \E c \in Children : ChildGoes(c)
  BY <1>2 DEF MasterStep, SlaveGoesOn, ChildGoes, Next
<1> QED BY <1>1, <1>2 DEF SessionNext, sessionVars

\* In the session the slave does what Slave says: what is proved of it holds here.
LEMMA SessionSlave == SessionSpec => Spec
<1>1. SessionInit => Init
  BY DEF SessionInit
<1>2. [SessionNext]_sessionVars => [Next]_vars
  BY StepOfSlave
<1> QED BY <1>1, <1>2, PTL DEF SessionSpec, Spec

-----------------------------------------------------------------------------
(* The session implements Connections *)

\* The master's side of the network shows what the slave's side is.
EndsShown == \A k \in Kinds : socat[<<0, k>>] = EndOf(k)

Shown == socat \in [C!Socats -> {"new", "open", "closed"}] /\ EndsShown

LEMMA FollowsShown ==
  ASSUME SocatsFollowSlave
  PROVE  /\ Shown'
         /\ \A k \in Kinds : socat'[<<0, k>>] = EndOf(k)'
         /\ UNCHANGED masterVars
<1>1. socat' = [s \in C!Socats |-> EndOf(s[2])']
  BY DEF SocatsFollowSlave
<1>2. \A k \in Kinds : EndOf(k)' \in {"new", "open", "closed"}
  BY DEF EndOf
<1>3. \A k \in Kinds : <<0, k>> \in C!Socats
  BY KindFacts
<1>4. \A s \in C!Socats : s[2] \in Kinds
  BY KindFacts
<1> QED BY <1>1, <1>2, <1>3, <1>4 DEF Shown, EndsShown, SocatsFollowSlave

\* Only a child that was started has had its connection.
ConnectedRan == \A s \in connected : proc[s] # "none"

LEMMA ConnectedStep ==
  ASSUME SlaveInv, ConnectedRan, [Next]_vars
  PROVE  ConnectedRan'
<1> USE DEF SlaveInv, TypeOK, ConnectedRan, Socats, Children
<1>1. CASE \E s \in Socats : SocatConnects(s)
  BY <1>1 DEF SocatConnects
<1>2. CASE SlaveStep \/ (\E c \in Children : ChildEnds(c)) \/ UNCHANGED vars
  <2>1. connected' = connected /\ \A s \in Socats : proc[s] # "none" => proc'[s] # "none"
    BY <1>2 DEF SlaveStep, Configure, ForkSocatGdb, ForkSocatTrgt, Fork, WaitSocat, WaitPid,
                FindLinks, Find, Poll, ForkGdb, Sleep, Monitor, KillChildren, Kill,
                ChildEnds, vars
  <2> QED BY <2>1
<1> QED BY <1>1, <1>2 DEF Next

\* What has ended has ended: a step of the slave or of a child closes one socat's
\* connection, or those of a slave that returns before it started them, or none.
LEMMA EndsOnlyClose ==
  ASSUME SlaveInv, ConnectedRan, SlaveStep \/ \E c \in Children : ChildEnds(c)
  PROVE  \/ \A k \in Kinds : EndOf(k)' = EndOf(k)
         \/ /\ \A k \in Kinds : EndOf(k) = "new" /\ EndOf(k)' = "closed"
         \/ \E k \in Kinds : /\ EndOf(k) # "closed" /\ EndOf(k)' = "closed"
                             /\ \A j \in Kinds : j # k => EndOf(j)' = EndOf(j)
<1> USE DEF SlaveInv, TypeOK, Started, None, ConnectedRan, EndOf, NeverStarted, Ended, ChildOf, Kinds,
            Children, Socats, Reading, Polling, Monitoring, Forking, Killing
<1>1. CASE Configure
  BY <1>1 DEF Configure, GoOnIf
<1>2. CASE ForkSocatGdb
  BY <1>2 DEF ForkSocatGdb, Fork
<1>3. CASE ForkSocatTrgt
  BY <1>3 DEF ForkSocatTrgt, Fork, MayStartGdb, Fails
<1>4. CASE WaitSocat
  BY <1>4 DEF WaitSocat, WaitPid, Gone
<1>5. CASE FindLinks
  BY <1>5 DEF FindLinks, Find
<1>6. CASE Poll
  BY <1>6 DEF Poll, Fails
<1>7. CASE ForkGdb
  BY <1>7 DEF ForkGdb, Fork, Fails
<1>8. CASE Sleep
  BY <1>8 DEF Sleep
<1>9. CASE Monitor
  BY <1>9 DEF Monitor, WaitPid, Gone
<1>10. CASE KillChildren
  BY <1>10 DEF KillChildren, Kill, Killable
<1>11. CASE \E c \in Children : ChildEnds(c)
  BY <1>11 DEF ChildEnds
<1> QED BY <1>1, <1>2, <1>3, <1>4, <1>5, <1>6, <1>7, <1>8, <1>9, <1>10, <1>11 DEF SlaveStep

\* A step that leaves the master alone is one of the steps Connections allows a slave
\* that may end, or none.
LEMMA ClosesImplement ==
  ASSUME SlaveInv, ConnectedRan, Shown, SocatsFollowSlave,
         SlaveStep \/ \E c \in Children : ChildEnds(c)
  PROVE  [C!Next]_(C!vars)
<1>1. /\ \A k \in Kinds : socat[<<0, k>>] = EndOf(k) /\ socat'[<<0, k>>] = EndOf(k)'
      /\ UNCHANGED masterVars
      /\ socat \in [C!Socats -> {"new", "open", "closed"}]
      /\ socat' \in [C!Socats -> {"new", "open", "closed"}]
  BY FollowsShown DEF Shown, EndsShown
<1>2. ASSUME NEW ended \in SUBSET C!Socats,
             \A k \in Kinds : EndOf(k)' = IF <<0, k>> \in ended THEN "closed" ELSE EndOf(k)
      PROVE  C!CloseSocats(ended)
  <2>1. socat' = [s \in C!Socats |-> IF s \in ended THEN "closed" ELSE socat[s]]
    BY <1>1, <1>2, KindFacts
  <2> QED BY <1>1, <2>1 DEF C!CloseSocats, masterVars
<1>3. CASE \A k \in Kinds : EndOf(k)' = EndOf(k)
  <2>1. socat' = socat
    BY <1>1, <1>3, KindFacts
  <2> QED BY <1>1, <2>1 DEF C!vars, masterVars
<1>4. CASE \A k \in Kinds : EndOf(k) = "new" /\ EndOf(k)' = "closed"
  <2>1. C!CloseSocats({0} \X C!Kinds)
    BY <1>2, <1>4, KindFacts
  <2>2. C!SlaveFails(0) /\ 0 \in C!Ranks
    BY <1>1, <1>4, <2>1, KindFacts DEF C!SlaveFails
  <2> QED BY <2>2 DEF C!Next
<1>5. CASE \E k \in Kinds : /\ EndOf(k) # "closed" /\ EndOf(k)' = "closed"
                            /\ \A j \in Kinds : j # k => EndOf(j)' = EndOf(j)
  <2> PICK k \in Kinds : /\ EndOf(k) # "closed" /\ EndOf(k)' = "closed"
                         /\ \A j \in Kinds : j # k => EndOf(j)' = EndOf(j)
    BY <1>5
  <2>1. <<0, k>> \in C!Socats
    BY KindFacts
  <2>2. C!CloseSocats({<<0, k>>})
    BY <1>2, <2>1
  <2>3. C!SocatCloses(<<0, k>>)
    BY <1>1, <2>2 DEF C!SocatCloses
  <2> QED BY <2>1, <2>3 DEF C!Next
<1> QED BY <1>3, <1>4, <1>5, EndsOnlyClose

\* What holds all the time, for the steps to be those of Connections.
ShownInv == SlaveInv /\ ConnectedRan /\ Shown

LEMMA ShownInit == SessionInit => ShownInv
<1> SUFFICES ASSUME SessionInit PROVE ShownInv
  OBVIOUS
<1>1. SlaveInv /\ ConnectedRan
  BY SlaveInvInit DEF SessionInit, Init, ConnectedRan
<1>2. \A k \in Kinds : EndOf(k) = "new"
  BY DEF SessionInit, Init, EndOf, NeverStarted, Ended, ChildOf, Kinds, Children, Socats,
         Reading
<1>3. socat = [s \in C!Socats |-> "new"]
  BY DEF SessionInit, C!Init
<1> QED BY <1>1, <1>2, <1>3, KindFacts DEF ShownInv, Shown, EndsShown

\* A connection that both sides complete is the open end the slave's side shows.
LEMMA ConnectShown ==
  ASSUME ShownInv, NEW k \in Kinds, ConnectBoth(k)
  PROVE  /\ Shown'
         /\ \E o \in C!Offsets : C!Connect(<<0, k>>, o)
<1>1. PICK o \in C!Offsets : C!Connect(<<0, k>>, o)
  BY DEF ConnectBoth
<1>2. socat' = [socat EXCEPT ![<<0, k>>] = "open"]
  BY <1>1 DEF C!Connect
<1>3. SocatConnects(ChildOf[k])
  BY DEF ConnectBoth
<1>4. EndOf(k)' = "open" /\ \A j \in Kinds : j # k => EndOf(j)' = EndOf(j)
  BY <1>3 DEF SocatConnects, EndOf, NeverStarted, Ended, ChildOf, Kinds, Children, Socats,
              ShownInv, SlaveInv, TypeOK
<1> QED BY <1>1, <1>2, <1>4, KindFacts DEF ShownInv, Shown, EndsShown

LEMMA MasterLeavesSocats ==
  ASSUME C!MasterNext
  PROVE  UNCHANGED socat
BY DEF C!MasterNext, C!MainStep, C!StartServer, C!StartGui, C!SlavesConnected, C!HandleData,
       C!SendWrite, C!CloseTest, C!CloseUse, C!AppQuits, C!Exit, C!CancelWait, C!Quit,
       C!Sigint, C!SendLoad, C!ThreadStep, C!Publish, C!ReadChunk, C!ReadEof,
       C!DestroySocket, C!ReadError

LEMMA ShownStep ==
  ASSUME ShownInv, [SessionNext]_sessionVars
  PROVE  ShownInv' /\ [C!Next]_(C!vars)
<1>0. SlaveInv' /\ ConnectedRan' /\ SlaveInv /\ ConnectedRan /\ Shown
  BY StepOfSlave, SlaveInvStep, ConnectedStep DEF ShownInv
<1>1. ASSUME UNCHANGED vars, UNCHANGED socat
      PROVE  ShownInv'
  <2>1. \A k \in Kinds : EndOf(k)' = EndOf(k)
    BY <1>1 DEF EndOf, NeverStarted, Ended, ChildOf, Reading, vars
  <2>2. EndsShown'
    BY <1>0, <1>1, <2>1 DEF Shown, EndsShown
  <2>3. socat' \in [C!Socats -> {"new", "open", "closed"}]
    BY <1>0, <1>1 DEF Shown
  <2> QED BY <1>0, <2>2, <2>3 DEF ShownInv, Shown
<1>2. ASSUME SocatsFollowSlave, SlaveStep \/ \E c \in Children : ChildEnds(c)
      PROVE  ShownInv' /\ [C!Next]_(C!vars)
  BY <1>0, <1>2, FollowsShown, ClosesImplement DEF ShownInv
<1>3. CASE MasterStep
  <2>1. C!MasterNext /\ UNCHANGED vars
    BY <1>3 DEF MasterStep
  <2>2. UNCHANGED socat
    BY <2>1, MasterLeavesSocats
  <2> QED BY <1>1, <2>1, <2>2 DEF C!Next
<1>4. CASE \E k \in Kinds : SocatStep(k)
  <2> PICK k \in Kinds : SocatStep(k)
    BY <1>4
  <2>1. CASE ConnectBoth(k)
    BY <1>0, <2>1, ConnectShown, KindFacts DEF ShownInv, C!Next
  <2>2. CASE SocatRefused(k) \/ SocatSeesEnd(k)
    BY <1>2, <2>2, KindFacts DEF SocatRefused, SocatSeesEnd, ChildGoes, Children
  <2> QED BY <2>1, <2>2 DEF SocatStep
<1>5. CASE SlaveGoesOn \/ \E c \in Children : ChildGoes(c)
  BY <1>2, <1>5 DEF SlaveGoesOn, ChildGoes
<1>6. CASE UNCHANGED sessionVars
  BY <1>1, <1>6 DEF sessionVars, masterVars, C!vars
<1> QED BY <1>3, <1>4, <1>5, <1>6 DEF SessionNext

\* In the session the slave does what Slave says: whatever the master does to the
\* connections, it leaves no child behind, waits for no child but its own, and starts
\* GDB late enough.
THEOREM SlaveServesSession ==
  SessionSpec => [](NoOrphan /\ WaitsForItsOwn) /\ DeadSocatFails
BY SessionSlave, SlaveCleansUp, StartsConnected, PTL

\* Every behaviour of the session is one of Connections: the socats there, free to do
\* what they like, stand for the children of a slave that starts, connects, polls,
\* monitors and kills them (slave.cpp, main; master.cpp, start_servers).
THEOREM SessionImplements ==
  SessionSpec => C!Init /\ [][C!Next]_(C!vars)
<1>1. SessionInit => ShownInv /\ C!Init
  BY ShownInit DEF SessionInit
<1>2. ShownInv /\ [SessionNext]_sessionVars => ShownInv' /\ [C!Next]_(C!vars)
  BY ShownStep
<1> QED BY <1>1, <1>2, PTL DEF SessionSpec

-----------------------------------------------------------------------------
(* GDB is served *)

\* A thread takes one connection: one that has none is still without a peer, and the
\* loop of start_servers starts no thread again.
Peers ==
  /\ offset \in Nat
  /\ thread \in [C!Offsets -> {"none", "accepting", "accepted", "reading", "eof", "ended"}]
  /\ peer \in [C!Offsets -> C!Socats \cup {C!NoSocat}]
  /\ \A o \in C!Offsets : thread[o] \in {"none", "accepting"} => peer[o] = C!NoSocat
  /\ main = "servers" => \A o \in C!Offsets : o >= offset => thread[o] = "none"

\* A socat that has had its connection is the peer of a thread.
ConnectedPeers ==
  \A k \in Kinds : ChildOf[k] \in connected => \E o \in C!Offsets : peer[o] = <<0, k>>

LEMMA PeersStep ==
  ASSUME Peers, [C!Next]_(C!vars)
  PROVE  /\ Peers'
         /\ \A o \in C!Offsets : peer[o] # C!NoSocat => peer'[o] = peer[o]
<1> USE DEF Peers
<1>1. CASE C!StartServer
  <2>1. offset \in C!Offsets /\ offset + 1 \in Nat
    BY <1>1 DEF C!StartServer, C!MorePorts, C!Offsets
  <2> QED BY <1>1, <2>1 DEF C!StartServer, C!Offsets
<1>2. ASSUME NEW s \in C!Socats, NEW o \in C!Offsets, C!Connect(s, o)
      PROVE  /\ Peers'
             /\ \A p \in C!Offsets : peer[p] # C!NoSocat => peer'[p] = peer[p]
  BY <1>2 DEF C!Connect
<1>3. ASSUME NEW o \in C!Offsets, C!ThreadStep(o) PROVE Peers' /\ peer' = peer
  BY <1>3 DEF C!ThreadStep, C!Publish, C!ReadChunk, C!ReadEof, C!DestroySocket
<1>4. CASE /\ UNCHANGED <<thread, peer>> /\ offset' \in Nat
           /\ main' = "servers" => UNCHANGED <<main, offset>>
  BY <1>4
<1>5. CASE \/ C!StartGui \/ C!SlavesConnected \/ C!HandleData \/ C!SendWrite \/ C!CancelWait
           \/ C!Quit \/ C!Sigint \/ C!AppQuits \/ C!Exit \/ C!CloseTest \/ C!CloseUse
           \/ \E k \in C!Kinds, r \in C!Ranks : C!SendLoad(k, r)
           \/ \E o \in C!Offsets : C!ReadError(o)
           \/ \E r \in C!Ranks : C!SlaveFails(r)
           \/ \E s \in C!Socats : C!SocatCloses(s) \/ C!SocatFollows(s)
           \/ UNCHANGED C!vars
  BY <1>4, <1>5
  DEF C!StartGui, C!SlavesConnected, C!HandleData, C!SendWrite, C!CancelWait, C!Quit,
      C!Sigint, C!AppQuits, C!Exit, C!CloseTest, C!CloseUse, C!SendLoad, C!ReadError,
      C!SlaveFails, C!SocatCloses, C!SocatFollows, C!CloseSocats, C!vars
<1> QED BY <1>1, <1>2, <1>3, <1>5 DEF C!Next, C!MasterNext, C!MainStep

ServedInv == ShownInv /\ Peers /\ ConnectedPeers

LEMMA ServedStep ==
  ASSUME ServedInv, [SessionNext]_sessionVars
  PROVE  ServedInv'
<1>1. /\ ShownInv' /\ Peers'
      /\ \A o \in C!Offsets : peer[o] # C!NoSocat => peer'[o] = peer[o]
  BY ShownStep, PeersStep DEF ServedInv
<1>2. \A k \in Kinds : <<0, k>> # C!NoSocat
  BY DEF C!NoSocat, C!Null
<1>3. ASSUME UNCHANGED connected PROVE ConnectedPeers'
  BY <1>1, <1>2, <1>3 DEF ServedInv, ConnectedPeers
<1>4. CASE \E k \in Kinds : ConnectBoth(k)
  <2> PICK k \in Kinds : ConnectBoth(k)
    BY <1>4
  <2>1. PICK o \in C!Offsets : C!Connect(<<0, k>>, o)
    BY DEF ConnectBoth
  <2>2. peer'[o] = <<0, k>>
    BY <2>1 DEF C!Connect, ServedInv, Peers
  <2>3. connected' = connected \cup {ChildOf[k]}
    BY DEF ConnectBoth, SocatConnects
  <2> QED BY <1>1, <1>2, <2>2, <2>3, KindFacts DEF ServedInv, ConnectedPeers
<1>5. CASE ~\E k \in Kinds : ConnectBoth(k)
  <2>1. UNCHANGED connected
    BY <1>5 DEF SessionNext, SocatStep, SocatRefused, SocatSeesEnd, ChildGoes, ChildEnds,
                MasterStep, SlaveGoesOn, SlaveStep, Configure, ForkSocatGdb, ForkSocatTrgt,
                Fork, WaitSocat, FindLinks, Find, Poll, ForkGdb, Sleep, Monitor,
                KillChildren, Kill, sessionVars, vars
  <2> QED BY <1>1, <1>3, <2>1 DEF ServedInv
<1> QED BY <1>1, <1>4, <1>5 DEF ServedInv

\* GDB is started only with both connections accepted by the master, whatever ports are
\* taken and whenever the user cancels - but for a link left by an earlier session,
\* which wait_for_socat takes for a connection (slave.cpp, wait_for_socat).
THEOREM GdbServed == SessionSpec => []GdbIsServed
<1>1. SessionInit => ServedInv
  <2> SUFFICES ASSUME SessionInit PROVE ServedInv
    OBVIOUS
  <2>1. Peers
    BY DEF SessionInit, C!Init, Peers
  <2>2. ConnectedPeers
    BY DEF SessionInit, Init, ConnectedPeers
  <2> QED BY <2>1, <2>2, ShownInit DEF ServedInv
<1>2. ServedInv /\ [SessionNext]_sessionVars => ServedInv'
  BY ServedStep
<1>3. ServedInv /\ GdbStartsLinked => GdbIsServed
  BY KindFacts DEF ServedInv, ConnectedPeers, GdbStartsLinked, GdbIsServed
<1> QED BY <1>1, <1>2, <1>3, SessionSlave, StartsConnected, PTL DEF SessionSpec

-----------------------------------------------------------------------------
(* What Connections promises, in a session *)

P == INSTANCE ConnectionsProofs
       WITH NumProcs <- 1, SlaveSize <- 1, Mortal <- {0}, Talkers <- {}, MaxChunks <- 0

\* The two instances of Connections are one.
LEMMA SameSets ==
  /\ C!Offsets = P!Offsets /\ C!Kinds = P!Kinds /\ C!Ranks = P!Ranks /\ C!Socats = P!Socats
  /\ C!vars = P!vars /\ C!Null = P!Null
BY DEF C!Offsets, C!Kinds, C!Ranks, C!Socats, C!Null, C!vars, P!Offsets, P!Kinds, P!Ranks,
       P!Socats, P!Null, P!vars

LEMMA SameInit == C!Init => P!Init
BY Zenon DEF C!Init, C!Offsets, C!Kinds, C!Ranks, C!Socats, C!NoSocat, C!Null, P!Init,
             P!Offsets, P!Kinds, P!Ranks, P!Socats, P!NoSocat, P!Null

LEMMA SameThreads ==
  ASSUME NEW o
  PROVE  C!ThreadStep(o) \/ C!ReadError(o) => P!ThreadStep(o) \/ P!ReadError(o)
<1>1. \A pointer : C!SetConns(o, pointer) => P!SetConns(o, pointer)
  BY Zenon DEF C!SetConns, C!MasterPort, C!KindOf, C!get_rank, C!src_is_gdb, P!SetConns,
               P!MasterPort, P!KindOf, P!get_rank, P!src_is_gdb
<1>2. C!Publish(o) => P!Publish(o)
  BY Zenon, <1>1 DEF C!Publish, C!Runs, P!Publish, P!Runs
<1>3. C!ReadChunk(o) => P!ReadChunk(o)
  BY Zenon DEF C!ReadChunk, C!Runs, C!Enqueue, P!ReadChunk, P!Runs, P!Enqueue
<1>4. C!ReadEof(o) => P!ReadEof(o)
  BY Zenon, <1>1 DEF C!ReadEof, C!Runs, C!Null, P!ReadEof, P!Runs, P!Null
<1>5. C!DestroySocket(o) => P!DestroySocket(o)
  BY Zenon DEF C!DestroySocket, C!Runs, P!DestroySocket, P!Runs
<1>6. C!ReadError(o) => P!ReadError(o)
  BY Zenon DEF C!ReadError, C!Runs, P!ReadError, P!Runs
<1> QED BY <1>2, <1>3, <1>4, <1>5, <1>6 DEF C!ThreadStep, P!ThreadStep

LEMMA SameSocats ==
  /\ \A s, o : C!Connect(s, o) => P!Connect(s, o)
  /\ \A r : C!SlaveFails(r) => P!SlaveFails(r)
  /\ \A s : C!SocatCloses(s) \/ C!SocatFollows(s) => P!SocatCloses(s) \/ P!SocatFollows(s)
<1>1. \A s, o : C!Connect(s, o) => P!Connect(s, o)
  BY Zenon DEF C!Connect, C!MasterPort, C!SlavePort, C!Runs, P!Connect, P!MasterPort,
               P!SlavePort, P!Runs
<1>2. \A r : C!SlaveFails(r) => P!SlaveFails(r)
  BY Zenon DEF C!SlaveFails, C!CloseSocats, C!Socats, C!Ranks, C!Kinds, P!SlaveFails,
               P!CloseSocats, P!Socats, P!Ranks, P!Kinds
<1>3. \A s : C!SocatCloses(s) => P!SocatCloses(s)
  BY Zenon DEF C!SocatCloses, C!CloseSocats, C!Socats, C!Ranks, C!Kinds, P!SocatCloses,
               P!CloseSocats, P!Socats, P!Ranks, P!Kinds
<1>4. \A s : C!SocatFollows(s) => P!SocatFollows(s)
  BY Zenon DEF C!SocatFollows, C!CloseSocats, C!Socats, C!Ranks, C!Kinds, C!Runs,
               P!SocatFollows, P!CloseSocats, P!Socats, P!Ranks, P!Kinds, P!Runs
<1> QED BY <1>1, <1>2, <1>3, <1>4

LEMMA SameMaster ==
  /\ C!MainStep => P!MainStep
  /\ C!CancelWait \/ C!Quit \/ C!Sigint => P!CancelWait \/ P!Quit \/ P!Sigint
  /\ \A k, r : C!SendLoad(k, r) => P!SendLoad(k, r)
<1>1. C!StartServer \/ C!StartGui => P!StartServer \/ P!StartGui
  BY Zenon DEF C!StartServer, C!StartGui, C!MorePorts, C!MasterPort, P!StartServer,
               P!StartGui, P!MorePorts, P!MasterPort
<1>2. C!SlavesConnected \/ C!HandleData => P!SlavesConnected \/ P!HandleData
  BY Zenon DEF C!SlavesConnected, C!HandleData, C!Connected, C!Ranks, C!Kinds, C!Null,
               P!SlavesConnected, P!HandleData, P!Connected, P!Ranks, P!Kinds, P!Null
<1>3. C!SendWrite => P!SendWrite
  BY Zenon DEF C!SendWrite, C!Null, P!SendWrite, P!Null
<1>4. C!CloseTest => P!CloseTest
  BY Zenon DEF C!CloseTest, C!MorePorts, C!Visited, C!Null, P!CloseTest, P!MorePorts,
               P!Visited, P!Null
<1>5. C!CloseUse => P!CloseUse
  BY Zenon DEF C!CloseUse, C!Visited, C!Null, P!CloseUse, P!Visited, P!Null
<1>6. C!AppQuits \/ C!Exit => P!AppQuits \/ P!Exit
  BY Zenon DEF C!AppQuits, C!Exit, P!AppQuits, P!Exit
<1>7. C!CancelWait \/ C!Quit \/ C!Sigint => P!CancelWait \/ P!Quit \/ P!Sigint
  BY Zenon DEF C!CancelWait, C!Quit, C!Sigint, C!Null, P!CancelWait, P!Quit, P!Sigint,
               P!Null
<1>8. \A k, r : C!SendLoad(k, r) => P!SendLoad(k, r)
  BY Zenon DEF C!SendLoad, C!Null, P!SendLoad, P!Null
<1> QED BY <1>1, <1>2, <1>3, <1>4, <1>5, <1>6, <1>7, <1>8 DEF C!MainStep, P!MainStep

LEMMA SessionConnections == SessionSpec => P!Spec
<1>1. C!MasterNext => P!MasterNext
  BY Zenon, SameSets, SameThreads, SameMaster DEF C!MasterNext, P!MasterNext
<1>2. C!Next => P!Next
  BY Zenon, <1>1, SameSets, SameSocats DEF C!Next, P!Next
<1>3. UNCHANGED C!vars => UNCHANGED P!vars
  BY DEF C!vars, P!vars
<1>4. [C!Next]_(C!vars) => [P!Next]_(P!vars)
  BY Zenon, <1>2, <1>3
<1> QED BY <1>4, SameInit, SessionImplements, PTL DEF P!Spec

\* In a session a pointer the master finds is to a socket whose thread still reads, and
\* to that of the process and the kind it is kept for, whatever becomes of the slave and
\* its children, and whether or not the range of ports wraps (send_data, on_delete).
THEOREM SessionPointers == SessionSpec => [](C!PointerValid /\ C!OwnSocket)
<1>1. P!Spec => []P!PointerValid
  BY P!PointersToReaders, SessionAssumption
<1>2. P!Spec => []P!OwnSocket
  BY P!SocketSafety, SessionAssumption
<1>3. P!PointerValid /\ P!OwnSocket => C!PointerValid /\ C!OwnSocket
  BY SameSets DEF C!PointerValid, C!OwnSocket, P!PointerValid, P!OwnSocket
<1> QED BY <1>1, <1>2, <1>3, SessionConnections, PTL

\* In a session that is quit every connection still read has been shut down, so that the
\* socats of the slave see its end, and with them the slave (on_delete, read_data).
THEOREM SessionQuits == SessionSpec => C!QuitShutsAll
<1>1. P!Spec => P!QuitShutsAll
  BY P!QuitShutsConnections, SessionAssumption
<1>2. [P!AppQuits => \A o \in P!Offsets : thread[o] = "reading" => o \in shut]_(P!vars)
        => [C!AppQuits => \A o \in C!Offsets : thread[o] = "reading" => o \in shut]_(C!vars)
  BY SameSets DEF C!AppQuits, P!AppQuits, C!vars, P!vars
<1> QED BY <1>1, <1>2, SessionConnections, PTL DEF C!QuitShutsAll, P!QuitShutsAll
=============================================================================
