------------------------- MODULE ConnectionsProofs -------------------------
(***************************************************************************)
(* The threads, the pointers to their sockets and the queue between them,  *)
(* for any number of ranks, any base port and any width of a port: types,  *)
(* the order of the data, pointers only to sockets that are read and to    *)
(* the right socat, and the end of every connection when the master quits. *)
(***************************************************************************)
EXTENDS Connections, TLAPS

Served(o) == thread[o] \in {"accepted", "reading", "eof", "ended"}

\* The ports the loop of start_servers has not reached have no thread yet.
Pending == main = "servers" => \A o \in Offsets : o >= offset => thread[o] = "none"

\* A thread sets the pointer that belongs to its port, whichever socat chose it.
Pointer(o, k, r) == KindOf(MasterPort(o)) = k /\ get_rank(MasterPort(o)) = r

\* A pointer was set by the thread it points to, which still reads.
PointersFiled ==
  \A k \in Kinds, r \in Ranks : conns[k][r] # Null =>
    thread[conns[k][r]] = "reading" /\ Pointer(conns[k][r], k, r)

\* The strengthening: only threads that have a peer are served, and the peer chose
\* the thread's port; a pointer in use is to such a thread.
ThreadInv ==
  /\ TypeOK
  /\ \A o \in Offsets : Served(o) =>
       peer[o] \in Socats /\ MasterPort(o) = SlavePort(peer[o][1], peer[o][2])
  /\ using # Null => Served(using)
  /\ main = "close" /\ using # Null => MorePorts
  /\ Pending
  /\ PointersFiled

LEMMA NullIsNoOffset == Null \notin Offsets
BY DEF Null, Offsets

LEMMA AppendFacts ==
  ASSUME NEW S, NEW s \in Seq(S), NEW e \in S
  PROVE  /\ Append(s, e) \in Seq(S)
         /\ Len(Append(s, e)) = Len(s) + 1 /\ Len(s) \in Nat
         /\ Append(s, e)[Len(s) + 1] = e
         /\ \A i \in 1 .. Len(s) : Append(s, e)[i] = s[i]
OBVIOUS

LEMMA TailFacts ==
  ASSUME NEW S, NEW s \in Seq(S), s # << >>
  PROVE  /\ Tail(s) \in Seq(S) /\ Head(s) = s[1] /\ Head(s) \in S
         /\ Len(Tail(s)) = Len(s) - 1 /\ Len(s) \in Nat \ {0}
         /\ \A i \in 1 .. Len(Tail(s)) : i + 1 \in 1 .. Len(s) /\ Tail(s)[i] = s[i + 1]
         /\ \A i \in 1 .. Len(s) : i # 1 => i - 1 \in 1 .. Len(Tail(s))
OBVIOUS

-----------------------------------------------------------------------------
(* Types *)

LEMMA SetConnsType ==
  ASSUME TypeOK, NEW o \in Offsets, NEW pointer \in Offsets \cup {Null},
         SetConns(o, pointer)
  PROVE  /\ conns' \in [Kinds -> [Ranks -> Offsets \cup {Null}]]
         /\ \A k \in Kinds, r \in Ranks :
              conns'[k][r] = IF Pointer(o, k, r) THEN pointer ELSE conns[k][r]
<1> DEFINE k == KindOf(MasterPort(o))
           r == get_rank(MasterPort(o))
<1>1. conns' = [conns EXCEPT ![k][r] = pointer] /\ k \in Kinds
  BY DEF SetConns, KindOf, Kinds
<1> HIDE DEF k, r
<1>2. [conns[k] EXCEPT ![r] = pointer] \in [Ranks -> Offsets \cup {Null}]
  BY <1>1 DEF TypeOK
<1>3. \A j \in Kinds, q \in Ranks :
        conns'[j][q] = IF k = j /\ r = q THEN pointer ELSE conns[j][q]
  BY <1>1 DEF TypeOK
<1> QED BY <1>1, <1>2, <1>3 DEF TypeOK, Pointer, k, r

\* The pointer on_delete looks at is one of the two of some rank.
LEMMA VisitedType ==
  ASSUME TypeOK, MorePorts
  PROVE  \E k \in Kinds, r \in Ranks : Visited = conns[k][r]
<1>1. offset \in 0 .. 2 * NumProcs - 1 /\ offset \div 2 \in Ranks
  BY PortsAssumption DEF TypeOK, MorePorts, Ranks
<1>2. (IF offset % 2 = 0 THEN "gdb" ELSE "trgt") \in Kinds
  BY DEF Kinds
<1> QED BY <1>1, <1>2 DEF Visited

\* A step of a thread that is there already.
LEMMA ThreadType ==
  ASSUME ThreadInv, NEW o \in Offsets,
         NEW w \in {"accepted", "reading", "eof", "ended"},
         thread' = [thread EXCEPT ![o] = w], thread[o] # "none",
         conns' \in [Kinds -> [Ranks -> Offsets \cup {Null}]],
         peer' \in [Offsets -> Socats \cup {NoSocat}],
         socat' \in [Socats -> {"new", "open", "closed"}],
         \A p \in Offsets : p # o => peer'[p] = peer[p],
         peer'[o] \in Socats, MasterPort(o) = SlavePort(peer'[o][1], peer'[o][2]),
         PointersFiled',
         UNCHANGED <<main, offset, received, idle, handled, shut, using, unread, fault>>
  PROVE  ThreadInv'
<1>1. TypeOK'
  BY DEF ThreadInv, TypeOK
<1>2. \A p \in Offsets : (Served(p)' <=> p = o \/ Served(p)) /\ (p = o => Served(p)')
  BY DEF ThreadInv, TypeOK, Served
<1>3. Pending'
  BY DEF ThreadInv, TypeOK, Pending
<1> QED BY <1>1, <1>2, <1>3 DEF ThreadInv, TypeOK, MorePorts

LEMMA ThreadStepType ==
  ASSUME ThreadInv, NEW o \in Offsets, Publish(o) \/ ReadEof(o) \/ DestroySocket(o)
  PROVE  ThreadInv'
<1>1. /\ thread[o] \in {"accepted", "reading", "eof"}
      /\ \E w \in {"accepted", "reading", "eof", "ended"} :
           thread' = [thread EXCEPT ![o] = w]
      /\ UNCHANGED <<main, offset, peer, socat, received, idle, handled, shut, using,
                     unread, fault>>
      /\ conns' = conns \/ SetConns(o, o) \/ SetConns(o, Null)
  BY DEF Publish, ReadEof, DestroySocket
<1>2. conns' \in [Kinds -> [Ranks -> Offsets \cup {Null}]]
  BY <1>1, SetConnsType DEF ThreadInv, TypeOK
<1>3. peer[o] \in Socats /\ MasterPort(o) = SlavePort(peer[o][1], peer[o][2])
  BY <1>1 DEF ThreadInv, Served
<1>4. PointersFiled'
  <2>1. PointersFiled /\ TypeOK
    BY DEF ThreadInv
  <2>2. CASE Publish(o)
    <3>1. SetConns(o, o) /\ thread' = [thread EXCEPT ![o] = "reading"]
      BY <2>2 DEF Publish
    <3>2. \A k \in Kinds, r \in Ranks :
            conns'[k][r] = IF Pointer(o, k, r) THEN o ELSE conns[k][r]
      BY <2>1, <3>1, SetConnsType
    <3> QED BY <2>1, <3>1, <3>2 DEF PointersFiled, TypeOK
  <2>3. CASE ReadEof(o)
    <3>1. SetConns(o, Null) /\ thread' = [thread EXCEPT ![o] = "eof"]
      BY <2>3 DEF ReadEof
    <3>2. \A k \in Kinds, r \in Ranks :
            conns'[k][r] = IF Pointer(o, k, r) THEN Null ELSE conns[k][r]
      BY <2>1, <3>1, SetConnsType
    <3> QED BY <2>1, <3>1, <3>2 DEF PointersFiled, TypeOK
  <2>4. CASE DestroySocket(o)
    BY <2>1, <2>4 DEF DestroySocket, PointersFiled, TypeOK
  <2> QED BY <2>2, <2>3, <2>4
<1> QED BY <1>1, <1>2, <1>3, <1>4, ThreadType DEF ThreadInv, TypeOK

LEMMA ConnectType ==
  ASSUME ThreadInv, NEW s \in Socats, NEW o \in Offsets, Connect(s, o)
  PROVE  ThreadInv'
<1>1. PointersFiled'
  BY DEF Connect, ThreadInv, PointersFiled, TypeOK
<1> QED BY <1>1, ThreadType DEF Connect, ThreadInv, TypeOK

LEMMA StartServerType ==
  ASSUME ThreadInv, StartServer
  PROVE  ThreadInv'
<1>1. offset \in Offsets /\ offset + 1 \in 0 .. 2 * NumProcs
  BY PortsAssumption DEF StartServer, MorePorts, ThreadInv, TypeOK, Offsets
<1>2. main = "servers" /\ thread[offset] = "none"
  BY <1>1 DEF StartServer, ThreadInv, Pending, Offsets
<1>3. UNCHANGED <<peer, socat, conns, received, idle, handled, shut, using, unread, fault>>
  BY DEF StartServer
<1>4. CASE main' = "deleted" /\ UNCHANGED <<offset, thread>>
  BY <1>3, <1>4 DEF ThreadInv, TypeOK, Pending, Served, MorePorts, PointersFiled
<1>5. CASE /\ thread' = [thread EXCEPT ![offset] = "accepting"]
           /\ offset' = offset + 1 /\ main' = main
  <2>1. TypeOK'
    BY <1>1, <1>3, <1>5 DEF ThreadInv, TypeOK
  <2>2. \A o \in Offsets : Served(o)' <=> Served(o)
    BY <1>1, <1>2, <1>5 DEF ThreadInv, TypeOK, Served
  <2>3. Pending'
    BY <1>1, <1>5 DEF ThreadInv, TypeOK, Pending, Offsets
  <2>4. PointersFiled'
    BY <1>1, <1>2, <1>3, <1>5 DEF ThreadInv, TypeOK, PointersFiled
  <2> QED BY <1>2, <1>3, <1>5, <2>1, <2>2, <2>3, <2>4 DEF ThreadInv, TypeOK
<1> QED BY <1>4, <1>5 DEF StartServer

LEMMA ReadChunkType ==
  ASSUME ThreadInv, NEW o \in Offsets, ReadChunk(o)
  PROVE  ThreadInv'
<1>1. /\ received' = [received EXCEPT ![o] = @ + 1]
      /\ idle' = Append(idle, <<o, received[o] + 1>>) /\ received[o] < MaxChunks
      /\ UNCHANGED <<main, offset, thread, peer, socat, conns, handled, shut, using,
                     unread, fault>>
  BY DEF ReadChunk, Enqueue
<1>2. received[o] + 1 \in 0 .. MaxChunks /\ received[o] + 1 \in 1 .. MaxChunks
  BY <1>1, ConnectionsAssumption DEF ThreadInv, TypeOK
<1>3. received' \in [Offsets -> 0 .. MaxChunks]
  BY <1>1, <1>2 DEF ThreadInv, TypeOK
<1>4. idle' \in Seq(Offsets \X (1 .. MaxChunks))
  BY <1>1, <1>2 DEF ThreadInv, TypeOK
<1> QED BY <1>1, <1>3, <1>4 DEF ThreadInv, TypeOK, Served, Pending, MorePorts, PointersFiled

LEMMA HandleDataType ==
  ASSUME ThreadInv, HandleData
  PROVE  ThreadInv'
<1>1. /\ handled' = [handled EXCEPT ![Head(idle)[1]] = Head(idle)[2]]
      /\ idle' = Tail(idle) /\ idle # << >>
      /\ UNCHANGED <<main, offset, thread, peer, socat, conns, received, shut, using,
                     unread, fault>>
  BY DEF HandleData
<1>2. /\ idle' \in Seq(Offsets \X (1 .. MaxChunks))
      /\ Head(idle) \in Offsets \X (1 .. MaxChunks)
  BY <1>1, TailFacts DEF ThreadInv, TypeOK
<1>3. Head(idle)[2] \in 0 .. MaxChunks
  BY <1>2, ConnectionsAssumption
<1>4. handled' \in [Offsets -> 0 .. MaxChunks]
  BY <1>1, <1>3 DEF ThreadInv, TypeOK
<1> QED BY <1>1, <1>2, <1>4, SMTT(20) DEF ThreadInv, TypeOK, Served, Pending, MorePorts, PointersFiled

LEMMA SendWriteType ==
  ASSUME ThreadInv, SendWrite
  PROVE  ThreadInv'
<1>1. peer[using] \in Socats
  BY DEF SendWrite, ThreadInv, TypeOK
<1>2. /\ unread' \subseteq Socats /\ fault' \in Faults /\ main' \in {"run", "exited"}
      /\ using' = Null
      /\ UNCHANGED <<offset, thread, peer, socat, conns, received, idle, handled, shut>>
  BY <1>1 DEF SendWrite, ThreadInv, TypeOK, Faults
<1> QED BY <1>2 DEF ThreadInv, TypeOK, Served, Pending, PointersFiled

LEMMA CloseStepType ==
  ASSUME ThreadInv, CloseTest \/ CloseUse
  PROVE  ThreadInv'
<1>1. /\ MorePorts /\ offset + 1 \in 0 .. 2 * NumProcs
      /\ Visited \in Offsets \cup {Null} /\ (Visited # Null => Served(Visited))
  <2>1. MorePorts /\ TypeOK /\ PointersFiled
    BY DEF CloseTest, CloseUse, ThreadInv
  <2>2. offset + 1 \in 0 .. 2 * NumProcs
    BY <2>1, PortsAssumption DEF TypeOK, MorePorts
  <2>3. PICK k \in Kinds, r \in Ranks : Visited = conns[k][r]
    BY <2>1, VisitedType
  <2> QED BY <2>1, <2>2, <2>3 DEF TypeOK, PointersFiled, Served
<1>2. CASE CloseUse
  BY <1>1, <1>2 DEF CloseUse, ThreadInv, TypeOK, Served, Pending, PointersFiled, Faults
<1>3. CASE CloseTest
  <2>1. \/ offset' = offset + 1 /\ using' = using /\ using = Null
        \/ using' = Visited /\ Visited # Null /\ offset' = offset
    BY <1>3 DEF CloseTest
  <2>2. UNCHANGED <<main, thread, peer, socat, conns, received, idle, handled, shut,
                    unread, fault>> /\ main = "close"
    BY <1>3 DEF CloseTest
  <2>3. PointersFiled' /\ Pending' /\ \A o \in Offsets : Served(o)' <=> Served(o)
    BY <2>2 DEF ThreadInv, PointersFiled, Pending, Served
  <2> QED BY <1>1, <2>1, <2>2, <2>3 DEF ThreadInv, TypeOK, MorePorts
<1> QED BY <1>2, <1>3

LEMMA SendLoadType ==
  ASSUME ThreadInv, NEW k \in Kinds, NEW r \in Ranks, SendLoad(k, r)
  PROVE  ThreadInv'
<1>1. /\ conns[k][r] \in Offsets /\ Served(conns[k][r]) /\ using' = conns[k][r]
      /\ main = "run"
      /\ UNCHANGED <<main, offset, thread, peer, socat, conns, received, idle,
                     handled, shut, unread, fault>>
  BY DEF SendLoad, ThreadInv, TypeOK, PointersFiled, Served
<1> QED BY <1>1 DEF ThreadInv, TypeOK, Served, Pending, PointersFiled

\* The steps of the main thread that move only it, and those of the slaves.
LEMMA OtherType ==
  ASSUME ThreadInv,
         main' \in {"servers", "wait", "run", "close", "deleted", "exited"},
         offset' \in 0 .. 2 * NumProcs, using' = using,
         main' = "servers" => UNCHANGED <<main, offset>>,
         main' = "close" => using = Null \/ UNCHANGED <<main, offset>>,
         socat' \in [Socats -> {"new", "open", "closed"}], fault' \in Faults,
         UNCHANGED <<thread, peer, conns, received, idle, handled, shut, unread>>
  PROVE  ThreadInv'
BY DEF ThreadInv, TypeOK, Served, Pending, PointersFiled, MorePorts

LEMMA ThreadInvStep ==
  ASSUME ThreadInv, [Next]_vars
  PROVE  ThreadInv'
<1>1. CASE StartServer
  BY <1>1, StartServerType
<1>2. CASE CloseTest \/ CloseUse
  BY <1>2, CloseStepType
<1>3. CASE HandleData
  BY <1>3, HandleDataType
<1>4. CASE SendWrite
  BY <1>4, SendWriteType
<1>5. CASE StartGui \/ SlavesConnected \/ CancelWait \/ Quit \/ Sigint \/ AppQuits \/ Exit
  <2>1. 0 \in 0 .. 2 * NumProcs
    BY PortsAssumption
  <2> QED BY <1>5, <2>1, OtherType DEF StartGui, SlavesConnected, CancelWait, Quit, Sigint,
                                     AppQuits, Exit, ThreadInv, TypeOK
<1>6. ASSUME NEW o \in Offsets, ReadError(o) PROVE ThreadInv'
  BY <1>6, OtherType DEF ReadError, ThreadInv, TypeOK, Faults
<1>7. CASE \/ \E r \in Ranks : SlaveFails(r)
           \/ \E s \in Socats : SocatCloses(s) \/ SocatFollows(s)
  BY <1>7, OtherType DEF SlaveFails, SocatCloses, SocatFollows, CloseSocats,
                         ThreadInv, TypeOK
<1>8. ASSUME NEW o \in Offsets, ThreadStep(o) PROVE ThreadInv'
  BY <1>8, ThreadStepType, ReadChunkType DEF ThreadStep
<1>9. ASSUME NEW k \in Kinds, NEW r \in Ranks, SendLoad(k, r) PROVE ThreadInv'
  BY <1>9, SendLoadType
<1>10. ASSUME NEW s \in Socats, NEW o \in Offsets, Connect(s, o) PROVE ThreadInv'
  BY <1>10, ConnectType
<1>11. CASE UNCHANGED vars
  BY <1>11, OtherType DEF vars, ThreadInv, TypeOK
<1> QED BY <1>1, <1>2, <1>3, <1>4, <1>5, <1>6, <1>7, <1>8, <1>9, <1>10, <1>11
        DEF Next, MasterNext, MainStep

LEMMA ThreadInvInit == Init => ThreadInv
<1> SUFFICES ASSUME Init PROVE ThreadInv
  OBVIOUS
<1>1. TypeOK
  BY PortsAssumption, ConnectionsAssumption DEF Init, TypeOK, Null, NoSocat, Faults
<1>2. PointersFiled /\ Pending /\ \A o \in Offsets : ~Served(o)
  BY DEF Init, PointersFiled, Pending, Served
<1> QED BY <1>1, <1>2 DEF Init, ThreadInv

LEMMA ThreadInvariant == Spec => []ThreadInv
BY ThreadInvInit, ThreadInvStep, PTL DEF Spec

\* Type correctness: in every reachable state each variable has its type, the loop of
\* on_delete never looks past the last rank, and no chunk comes from an unknown thread.
THEOREM TypeCorrect == Spec => []TypeOK
<1>1. ThreadInv => TypeOK
  BY DEF ThreadInv
<1> QED BY <1>1, ThreadInvariant, PTL

\* A pointer send_data or on_delete finds is to a socket whose thread is still in
\* read_data: set before the first read, taken back before the socket is destroyed,
\* by no other thread, whatever the ports and the slaves' number of processes.
THEOREM PointersToReaders == Spec => []PointerValid
<1>1. ThreadInv => PointerValid
  BY DEF ThreadInv, PointersFiled, PointerValid
<1> QED BY <1>1, ThreadInvariant, PTL

-----------------------------------------------------------------------------
(* The right socat *)

\* The master gets back the rank and the kind the slave computed the port from.
LEMMA RankOfPort ==
  ASSUME SlaveSize = NumProcs, NEW r \in Ranks, NEW k \in Kinds
  PROVE  KindOf(SlavePort(r, k)) = k /\ get_rank(SlavePort(r, k)) = r
BY PortsAssumption DEF KindOf, get_rank, src_is_gdb, SlavePort, Ranks, Kinds

\* Whatever the number of ranks, the base port and the ports that wrap around, every
\* pointer send_data and on_delete find is to the socket of the rank and the kind it
\* is kept for - for slaves started with the number of processes the master has
\* (start_slaves, set_size).
THEOREM SocketSafety ==
  ASSUME SlaveSize = NumProcs
  PROVE  Spec => []OwnSocket
<1>1. ThreadInv => OwnSocket
  <2> SUFFICES ASSUME ThreadInv, NEW k \in Kinds, NEW r \in Ranks, conns[k][r] # Null
               PROVE  peer[conns[k][r]] = <<r, k>>
    BY DEF OwnSocket
  <2> DEFINE o == conns[k][r]
  <2>1. /\ o \in Offsets /\ Pointer(o, k, r)
        /\ peer[o] \in Socats /\ MasterPort(o) = SlavePort(peer[o][1], peer[o][2])
    BY DEF ThreadInv, TypeOK, PointersFiled, Served
  <2>2. PICK q \in Ranks, j \in Kinds : peer[o] = <<q, j>>
    BY <2>1 DEF Socats
  <2>3. KindOf(MasterPort(o)) = j /\ get_rank(MasterPort(o)) = q
    BY <2>1, <2>2, RankOfPort
  <2> QED BY <2>1, <2>2, <2>3 DEF Pointer
<1> QED BY <1>1, ThreadInvariant, PTL

-----------------------------------------------------------------------------
(* The order of the data *)

\* Nothing is handled that was not read: without it a chunk could be read anew.
OrderInv ==
  /\ TypeOK
  /\ InOrder
  /\ \A o \in Offsets : handled[o] <= received[o]

LEMMA ChunkTypes ==
  ASSUME TypeOK
  PROVE  /\ idle \in Seq(Offsets \X (1 .. MaxChunks)) /\ MaxChunks \in Nat
         /\ received \in [Offsets -> 0 .. MaxChunks]
         /\ handled \in [Offsets -> 0 .. MaxChunks]
         /\ Len(idle) \in Nat
         /\ \A i \in 1 .. Len(idle) :
              idle[i] = <<idle[i][1], idle[i][2]>> /\ idle[i][1] \in Offsets /\ idle[i][2] \in Nat
BY ConnectionsAssumption, SMTT(20) DEF TypeOK

\* A new chunk is later than all that wait.
LEMMA ReadKeepsOrder ==
  ASSUME OrderInv, NEW o \in Offsets, ReadChunk(o), TypeOK'
  PROVE  OrderInv'
<1> DEFINE n == received[o] + 1
<1>1. /\ idle' = Append(idle, <<o, n>>) /\ handled' = handled
      /\ received' = [received EXCEPT ![o] = n] /\ n \in 1 .. MaxChunks
  BY ChunkTypes DEF OrderInv, ReadChunk, Enqueue
<1>2. /\ Len(idle') = Len(idle) + 1
      /\ idle'[Len(idle) + 1] = <<o, n>>
      /\ \A i \in 1 .. Len(idle) : idle'[i] = idle[i]
  BY <1>1, ChunkTypes, AppendFacts DEF OrderInv
<1>3. /\ n = received[o] + 1 /\ handled[o] <= received[o]
      /\ \A p \in Offsets : /\ received'[p] = IF p = o THEN n ELSE received[p]
                            /\ received[p] \in Nat /\ handled[p] \in Nat
  BY <1>1, ChunkTypes DEF OrderInv
<1> HIDE DEF n
<1>4. ASSUME NEW i \in 1 .. Len(idle')
      PROVE  /\ idle'[i][2] \in handled[idle'[i][1]] + 1 .. received'[idle'[i][1]]
             /\ \A j \in 1 .. Len(idle') :
                  i < j /\ idle'[j][1] = idle'[i][1] => idle'[i][2] < idle'[j][2]
  <2>1. CASE i = Len(idle) + 1
    BY <1>2, <1>3, <2>1, ChunkTypes DEF OrderInv
  <2>2. CASE i \in 1 .. Len(idle)
    <3>1. idle[i][1] \in Offsets /\ idle[i][2] \in handled[idle[i][1]] + 1 .. received[idle[i][1]]
      BY <2>2, ChunkTypes DEF OrderInv, InOrder
    <3>2. idle'[i] = idle[i]
      BY <1>2, <2>2
    <3>3. idle'[i][2] \in handled[idle'[i][1]] + 1 .. received'[idle'[i][1]]
      <4> DEFINE p == idle[i][1]
      <4>1. /\ p \in Offsets /\ idle[i][2] \in handled[p] + 1 .. received[p]
            /\ received'[p] \in Nat /\ received[p] <= received'[p]
        BY <1>3, <3>1
      <4> QED BY <1>3, <3>2, <4>1
    <3>4. ASSUME NEW j \in 1 .. Len(idle'), i < j, idle'[j][1] = idle'[i][1]
          PROVE  idle'[i][2] < idle'[j][2]
      <4>1. CASE j = Len(idle) + 1
        BY <1>2, <1>3, <3>1, <3>2, <3>4, <4>1
      <4>2. CASE j \in 1 .. Len(idle)
        BY <1>2, <2>2, <3>2, <3>4, <4>2 DEF OrderInv, InOrder
      <4> QED BY <1>2, <4>1, <4>2, ChunkTypes DEF OrderInv
    <3> QED BY <3>3, <3>4
  <2> QED BY <1>2, <2>1, <2>2, ChunkTypes DEF OrderInv
<1>5. ASSUME NEW p \in Offsets, NEW m \in handled[p] + 1 .. received'[p]
      PROVE  \E i \in 1 .. Len(idle') : idle'[i] = <<p, m>>
  <2>0. Len(idle) \in Nat /\ Len(idle) + 1 \in 1 .. Len(idle')
    BY <1>2, ChunkTypes DEF OrderInv
  <2>1. CASE p = o /\ m = n
    BY <1>2, <2>0, <2>1
  <2>2. CASE m \in handled[p] + 1 .. received[p]
    <3>1. PICK i \in 1 .. Len(idle) : idle[i] = <<p, m>>
      BY <2>2 DEF OrderInv, InOrder
    <3>2. i \in 1 .. Len(idle')
      BY <1>2, <2>0
    <3> QED BY <1>2, <3>1, <3>2
  <2>3. (p = o /\ m = n) \/ m \in handled[p] + 1 .. received[p]
    BY <1>3
  <2> QED BY <2>1, <2>2, <2>3
<1>6. InOrder'
  BY <1>1, <1>4, <1>5 DEF InOrder
<1> QED BY <1>1, <1>3, <1>6, ChunkTypes DEF OrderInv

\* The chunk handled is the oldest of its connection, whichever connection that is.
LEMMA HandleKeepsOrder ==
  ASSUME OrderInv, HandleData, TypeOK'
  PROVE  OrderInv'
<1> DEFINE h == idle[1][1]
           n == idle[1][2]
<1>0. idle # << >> /\ idle' = Tail(idle) /\ received' = received
  BY DEF HandleData
<1>1. /\ handled' = [handled EXCEPT ![h] = n]
      /\ 1 \in 1 .. Len(idle) /\ Len(idle') = Len(idle) - 1
      /\ \A i \in 1 .. Len(idle') : i + 1 \in 1 .. Len(idle) /\ idle'[i] = idle[i + 1]
      /\ \A i \in 1 .. Len(idle) : i # 1 => i - 1 \in 1 .. Len(idle')
  <2>1. idle \in Seq(Offsets \X (1 .. MaxChunks))
    BY ChunkTypes DEF OrderInv
  <2>2. Head(idle) = idle[1] /\ Len(idle) \in Nat \ {0}
    BY <1>0, <2>1, TailFacts
  <2>3. handled' = [handled EXCEPT ![h] = n]
    BY <2>2 DEF HandleData
  <2> QED BY <1>0, <2>1, <2>2, <2>3, TailFacts
<1>2. h \in Offsets /\ n \in handled[h] + 1 .. received[h] /\ idle[1] = <<h, n>>
  BY <1>1, ChunkTypes DEF OrderInv, InOrder
<1>3. \A p \in Offsets : /\ handled'[p] = IF p = h THEN n ELSE handled[p]
                         /\ received[p] \in Nat /\ handled[p] \in Nat
  BY <1>1, <1>2, ChunkTypes DEF OrderInv
<1>4. ASSUME NEW i \in 1 .. Len(idle')
      PROVE  /\ idle'[i][2] \in handled'[idle'[i][1]] + 1 .. received[idle'[i][1]]
             /\ \A j \in 1 .. Len(idle') :
                  i < j /\ idle'[j][1] = idle'[i][1] => idle'[i][2] < idle'[j][2]
  <2>1. i + 1 \in 1 .. Len(idle) /\ idle'[i] = idle[i + 1] /\ i \in Nat /\ 1 < i + 1
    BY <1>1, ChunkTypes DEF OrderInv
  <2>2. /\ idle[i + 1][1] \in Offsets
        /\ idle[i + 1][2] \in handled[idle[i + 1][1]] + 1 .. received[idle[i + 1][1]]
        /\ idle[i + 1][1] = h => n < idle[i + 1][2]
    BY <1>1, <2>1, ChunkTypes DEF OrderInv, InOrder
  <2>3. idle'[i][2] \in handled'[idle'[i][1]] + 1 .. received[idle'[i][1]]
    <3> DEFINE p == idle[i + 1][1]
    <3>1. p \in Offsets /\ idle[i + 1][2] \in handled[p] + 1 .. received[p]
      BY <2>2
    <3>2. p = h => n < idle[i + 1][2] /\ n \in Nat
      BY <1>2, <1>3, <2>2
    <3> HIDE DEF p, h, n
    <3>3. idle[i + 1][2] \in handled'[p] + 1 .. received[p]
      BY <1>3, <3>1, <3>2
    <3> QED BY <2>1, <3>3 DEF p
  <2>4. ASSUME NEW j \in 1 .. Len(idle'), i < j, idle'[j][1] = idle'[i][1]
        PROVE  idle'[i][2] < idle'[j][2]
    <3>1. j + 1 \in 1 .. Len(idle) /\ idle'[j] = idle[j + 1] /\ i + 1 < j + 1
      BY <1>1, <2>1, <2>4, ChunkTypes DEF OrderInv
    <3> QED BY <2>1, <2>4, <3>1 DEF OrderInv, InOrder
  <2> QED BY <2>3, <2>4
<1>5. ASSUME NEW p \in Offsets, NEW m \in handled'[p] + 1 .. received[p]
      PROVE  \E i \in 1 .. Len(idle') : idle'[i] = <<p, m>>
  <2>1. m \in handled[p] + 1 .. received[p] /\ (p = h => m # n)
    BY <1>2, <1>3, ChunkTypes DEF OrderInv
  <2>2. PICK i \in 1 .. Len(idle) : idle[i] = <<p, m>>
    BY <2>1 DEF OrderInv, InOrder
  <2>3. i # 1
    BY <1>2, <2>1, <2>2
  <2>4. i - 1 \in 1 .. Len(idle') /\ idle'[i - 1] = idle[i - 1 + 1] /\ i - 1 + 1 = i
    BY <1>1, <2>2, <2>3
  <2> QED BY <2>2, <2>4
<1>6. InOrder'
  BY <1>0, <1>4, <1>5 DEF InOrder
<1>7. \A p \in Offsets : handled'[p] <= received'[p]
  BY <1>0, <1>2, <1>3 DEF OrderInv
<1> QED BY <1>6, <1>7 DEF OrderInv

LEMMA OtherStepsKeepOrder ==
  ASSUME OrderInv, [Next]_vars, TypeOK'
  PROVE  OrderInv'
<1>1. CASE UNCHANGED <<idle, received, handled>>
  BY <1>1 DEF OrderInv, InOrder
<1>2. CASE HandleData
  BY <1>2, HandleKeepsOrder
<1>3. ASSUME NEW o \in Offsets, ReadChunk(o) PROVE OrderInv'
  BY <1>3, ReadKeepsOrder
<1>4. \/ HandleData \/ \E o \in Offsets : ReadChunk(o)
      \/ UNCHANGED <<idle, received, handled>>
  <2>1. CASE MainStep
    BY <2>1 DEF MainStep, StartServer, StartGui, SlavesConnected, SendWrite, CloseTest,
                CloseUse, AppQuits, Exit
  <2>2. CASE MasterNext /\ ~MainStep
    BY <2>2 DEF MasterNext, CancelWait, Quit, Sigint, SendLoad, ThreadStep, Publish,
                ReadEof, DestroySocket, ReadError
  <2>3. CASE ~MasterNext
    BY <2>3 DEF Next, Connect, SlaveFails, SocatCloses, SocatFollows, CloseSocats, vars
  <2> QED BY <2>1, <2>2, <2>3
<1> QED BY <1>1, <1>2, <1>3, <1>4

\* Whatever the threads do between each other and however long the GUI thread takes,
\* the data of a connection is handled as it was read: nothing lost, doubled or moved
\* (read_data, handle_data), while other connections' data may overtake it.
THEOREM DataInOrder == Spec => []InOrder
<1>1. Init => OrderInv
  <2> SUFFICES ASSUME Init PROVE OrderInv
    OBVIOUS
  <2>1. TypeOK
    BY ThreadInvInit DEF ThreadInv
  <2>2. idle = << >> /\ \A o \in Offsets : handled[o] = 0 /\ received[o] = 0
    BY DEF Init
  <2> QED BY <2>1, <2>2 DEF OrderInv, InOrder
<1>2. TypeOK' /\ OrderInv /\ [Next]_vars => OrderInv'
  BY OtherStepsKeepOrder
<1>3. OrderInv => InOrder
  BY DEF OrderInv
<1> QED BY <1>1, <1>2, <1>3, TypeCorrect, PTL DEF Spec

-----------------------------------------------------------------------------
(* Quitting *)

\* Which thread belongs to a rank and a kind when no port wraps around, and when
\* on_delete visits its pointer.
OffsetOf(k, r) == IF k = "gdb" THEN r ELSE NumProcs + r
VisitOf(k, r) == 2 * r + (IF k = "gdb" THEN 0 ELSE 1)

\* The thread is there, and is past its acceptor.
Started(o) == thread[o] \in {"reading", "eof", "ended"}

\* A socket that is read is the one its pointer points to.
Filed ==
  \A k \in Kinds, r \in Ranks : LET o == OffsetOf(k, r) IN
    thread[o] = "reading" => conns[k][r] = o

\* The sockets that are read and that the loop of on_delete has passed are shut down.
ShutSoFar ==
  \A k \in Kinds, r \in Ranks : LET o == OffsetOf(k, r) IN
    VisitOf(k, r) < offset /\ thread[o] = "reading" => o \in shut

\* Once the master runs the ports are known not to wrap around, and no thread is
\* still to publish its socket.
QuitInv ==
  /\ ThreadInv
  /\ PortsFit => Filed
  /\ main \in {"run", "close"} => PortsFit /\ \A o \in Offsets : Started(o)
  /\ main = "close" => ShutSoFar

\* A port that fits is not changed by the 16 bits.
LEMMA SmallModulo ==
  ASSUME NEW m \in Nat \ {0}, NEW x \in 0 .. m - 1
  PROVE  x % m = x
OBVIOUS

LEMMA OffsetFacts ==
  ASSUME NEW k \in Kinds, NEW r \in Ranks
  PROVE  /\ OffsetOf(k, r) \in Offsets /\ VisitOf(k, r) \in 0 .. 2 * NumProcs - 1
         /\ \A j \in Kinds, q \in Ranks :
              OffsetOf(j, q) = OffsetOf(k, r) \/ VisitOf(j, q) = VisitOf(k, r) => j = k /\ q = r
BY PortsAssumption DEF OffsetOf, VisitOf, Kinds, Ranks, Offsets

LEMMA EveryOffset ==
  ASSUME NEW o \in Offsets
  PROVE  \E k \in Kinds, r \in Ranks : o = OffsetOf(k, r)
<1>1. CASE o < NumProcs
  BY <1>1, PortsAssumption DEF OffsetOf, Kinds, Ranks, Offsets
<1>2. CASE o >= NumProcs
  <2>1. o - NumProcs \in Ranks /\ "trgt" \in Kinds /\ o = OffsetOf("trgt", o - NumProcs)
    BY <1>2, PortsAssumption DEF OffsetOf, Kinds, Ranks, Offsets
  <2> QED BY <2>1
<1> QED BY <1>1, <1>2, PortsAssumption DEF Offsets

LEMMA PointerOffset ==
  ASSUME PortsFit, NEW o \in Offsets, NEW k \in Kinds, NEW r \in Ranks
  PROVE  Pointer(o, k, r) <=> o = OffsetOf(k, r)
<1>1. BasePort + o \in 0 .. PortLimit - 1 /\ PortLimit \in Nat \ {0}
  BY PortsAssumption DEF PortsFit, Offsets
<1>2. MasterPort(o) = BasePort + o
  BY <1>1, SmallModulo DEF MasterPort
<1> QED BY <1>2, PortsAssumption DEF Pointer, KindOf, get_rank, src_is_gdb, OffsetOf, Offsets,
                                  Ranks, Kinds

\* The pointer of the last rank's target can only be set when the ports fit.
LEMMA LastPointer ==
  ASSUME NEW o \in Offsets, Pointer(o, "trgt", NumProcs - 1)
  PROVE  PortsFit
<1>1. MasterPort(o) \in 0 .. PortLimit - 1
  BY PortsAssumption DEF MasterPort, Offsets
<1> QED BY <1>1, PortsAssumption DEF Pointer, KindOf, get_rank, src_is_gdb, PortsFit

\* The pointer the loop of on_delete looks at is the one it is said to visit then.
LEMMA VisitedOffset ==
  ASSUME TypeOK, MorePorts, NEW k \in Kinds, NEW r \in Ranks
  PROVE  VisitOf(k, r) = offset <=>
           k = (IF offset % 2 = 0 THEN "gdb" ELSE "trgt") /\ r = offset \div 2
<1>1. offset \in 0 .. 2 * NumProcs - 1
  BY PortsAssumption DEF TypeOK, MorePorts
<1> QED BY <1>1, PortsAssumption DEF VisitOf, Kinds, Ranks

LEMMA ThreadKeepsQuit ==
  ASSUME QuitInv, ThreadInv', NEW o \in Offsets, ThreadStep(o)
  PROVE  QuitInv'
<1>1. /\ TypeOK /\ UNCHANGED <<main, offset, shut>>
      /\ \A p \in Offsets : p # o => thread'[p] = thread[p]
      /\ Started(o) => thread'[o] # "reading" \/ thread'[o] = thread[o]
      /\ Started(o) => Started(o)'
      /\ thread[o] # "none" /\ thread[o] # "accepting"
  BY DEF QuitInv, ThreadInv, TypeOK, ThreadStep, Publish, ReadChunk, ReadEof,
         DestroySocket, Started
<1>2. ASSUME PortsFit PROVE Filed'
  <2> SUFFICES ASSUME NEW k \in Kinds, NEW r \in Ranks,
                      thread'[OffsetOf(k, r)] = "reading"
               PROVE  conns'[k][r] = OffsetOf(k, r)
    BY DEF Filed
  <2>1. Filed /\ OffsetOf(k, r) \in Offsets
    BY <1>2, OffsetFacts DEF QuitInv
  <2>2. ASSUME NEW pointer \in Offsets \cup {Null}, SetConns(o, pointer)
        PROVE  conns'[k][r] = IF o = OffsetOf(k, r) THEN pointer ELSE conns[k][r]
    BY <1>1, <1>2, <2>2, SetConnsType, PointerOffset
  <2>3. CASE Publish(o)
    BY <1>1, <2>1, <2>2, <2>3 DEF Publish, Filed
  <2>4. CASE ReadEof(o)
    BY <1>1, <2>1, <2>2, <2>4 DEF ReadEof, Filed, TypeOK
  <2>5. CASE ReadChunk(o) \/ DestroySocket(o)
    BY <1>1, <2>1, <2>5 DEF ReadChunk, DestroySocket, Filed, TypeOK
  <2> QED BY <2>3, <2>4, <2>5 DEF ThreadStep
<1>3. main \in {"run", "close"} => PortsFit /\ \A p \in Offsets : Started(p)'
  BY <1>1 DEF QuitInv, Started
<1>4. main = "close" => ShutSoFar'
  <2> SUFFICES ASSUME main = "close", NEW k \in Kinds, NEW r \in Ranks,
                      VisitOf(k, r) < offset, thread'[OffsetOf(k, r)] = "reading"
               PROVE  OffsetOf(k, r) \in shut
    BY <1>1 DEF ShutSoFar
  <2>1. ShutSoFar /\ Started(o)
    BY DEF QuitInv
  <2>2. thread[OffsetOf(k, r)] = "reading"
    BY <1>1, <2>1, OffsetFacts
  <2> QED BY <2>1, <2>2 DEF ShutSoFar
<1> QED BY <1>1, <1>2, <1>3, <1>4 DEF QuitInv

\* wait_slaves_timeout saw every pointer: every thread is reading.
LEMMA ConnectedStarts ==
  ASSUME ThreadInv, Connected = Ranks
  PROVE  PortsFit /\ \A o \in Offsets : Started(o)
<1>1. \A k \in Kinds, r \in Ranks :
        conns[k][r] \in Offsets /\ thread[conns[k][r]] = "reading" /\ Pointer(conns[k][r], k, r)
  BY DEF Connected, ThreadInv, TypeOK, PointersFiled
<1>2. NumProcs - 1 \in Ranks /\ "trgt" \in Kinds
  BY PortsAssumption DEF Ranks, Kinds
<1>3. PortsFit
  BY <1>1, <1>2, LastPointer
<1>4. ASSUME NEW o \in Offsets PROVE Started(o)
  <2>1. PICK k \in Kinds, r \in Ranks : o = OffsetOf(k, r)
    BY EveryOffset
  <2> QED BY <1>1, <1>3, <2>1, PointerOffset DEF Started
<1> QED BY <1>3, <1>4

\* A round of on_delete: a pointer that is null is that of a thread that has ended.
LEMMA CloseKeepsQuit ==
  ASSUME QuitInv, ThreadInv', CloseTest \/ CloseUse
  PROVE  QuitInv'
<1>1. /\ TypeOK /\ MorePorts /\ main = "close" /\ PortsFit /\ Filed /\ ShutSoFar
      /\ UNCHANGED <<thread, conns>> /\ PointersFiled
      /\ \A o \in Offsets : Started(o)
      /\ offset \in Nat /\ shut \subseteq shut'
  BY DEF QuitInv, ThreadInv, CloseTest, CloseUse, TypeOK
<1>2. Filed' /\ \A o \in Offsets : Started(o)'
  BY <1>1 DEF Filed, Started
<1>3. main' = "close" => ShutSoFar'
  <2> SUFFICES ASSUME main' = "close", NEW k \in Kinds, NEW r \in Ranks,
                      VisitOf(k, r) < offset', thread[OffsetOf(k, r)] = "reading"
               PROVE  OffsetOf(k, r) \in shut'
    BY <1>1 DEF ShutSoFar
  <2>1. VisitOf(k, r) \in Nat /\ conns[k][r] = OffsetOf(k, r) /\ OffsetOf(k, r) \in Offsets
    BY <1>1, OffsetFacts DEF Filed
  <2>2. CASE VisitOf(k, r) < offset
    BY <1>1, <2>2 DEF ShutSoFar
  <2>3. CASE ~(VisitOf(k, r) < offset)
    <3>1. offset' = offset + 1 /\ VisitOf(k, r) = offset
      BY <1>1, <2>1, <2>3 DEF CloseTest, CloseUse
    <3>2. Visited = conns[k][r]
      BY <1>1, <3>1, VisitedOffset DEF Visited
    <3>3. Visited # Null
      BY <2>1, <3>2, NullIsNoOffset
    <3> QED BY <1>1, <2>1, <3>1, <3>2, <3>3 DEF CloseTest, CloseUse
  <2> QED BY <2>2, <2>3
<1> QED BY <1>1, <1>2, <1>3 DEF QuitInv

\* The other steps leave the threads and what is shut down alone, and the main thread
\* where it is, or take it to the loop of on_delete, or out of it.
LEMMA OtherKeepsQuit ==
  ASSUME QuitInv, ThreadInv',
         UNCHANGED <<thread, conns, shut>>,
         \/ main' \notin {"run", "close"}
         \/ main' = "run" /\ (main = "run" \/ Connected = Ranks)
         \/ /\ main' = "close"
            /\ \/ main = "close" /\ UNCHANGED offset
               \/ main = "run" /\ offset' = 0
  PROVE  QuitInv'
<1>1. PortsFit => Filed'
  BY OffsetFacts DEF QuitInv, Filed
<1>2. Connected = Ranks => PortsFit /\ \A o \in Offsets : Started(o)
  BY ConnectedStarts DEF QuitInv
<1>3. main' \in {"run", "close"} => PortsFit /\ \A o \in Offsets : Started(o)
  BY <1>2 DEF QuitInv
<1>4. main' \in {"run", "close"} => \A o \in Offsets : Started(o)'
  BY <1>3 DEF Started
<1>5. main' = "close" => ShutSoFar'
  BY OffsetFacts DEF QuitInv, ShutSoFar
<1> QED BY <1>1, <1>3, <1>4, <1>5 DEF QuitInv

LEMMA QuitStep ==
  ASSUME QuitInv, [Next]_vars, ThreadInv'
  PROVE  QuitInv'
<1>0. ThreadInv /\ TypeOK
  BY DEF QuitInv, ThreadInv
<1>1. CASE StartServer
  <2>1. offset \in Offsets /\ thread[offset] = "none" /\ UNCHANGED <<conns, shut>>
    BY <1>0, <1>1, PortsAssumption
    DEF StartServer, MorePorts, ThreadInv, TypeOK, Pending, Offsets
  <2>2. main \notin {"run", "close"} /\ main' \notin {"run", "close"}
    BY <1>1 DEF StartServer
  <2>3. \A o \in Offsets : thread'[o] = "reading" => thread[o] = "reading"
    BY <1>0, <1>1, <2>1 DEF StartServer, TypeOK
  <2>4. PortsFit => Filed'
    BY <2>1, <2>3, OffsetFacts DEF QuitInv, Filed
  <2> QED BY <2>2, <2>4 DEF QuitInv
<1>2. CASE CloseTest \/ CloseUse
  BY <1>2, CloseKeepsQuit
<1>3. CASE \/ StartGui \/ SlavesConnected \/ HandleData \/ SendWrite \/ CancelWait \/ Quit
           \/ Sigint \/ AppQuits \/ Exit
           \/ \E k \in Kinds, r \in Ranks : SendLoad(k, r)
           \/ \E o \in Offsets : ReadError(o)
  BY <1>3, OtherKeepsQuit
  DEF StartGui, SlavesConnected, HandleData, SendWrite, CancelWait, Quit, Sigint, AppQuits,
      Exit, SendLoad, ReadError
<1>4. ASSUME NEW s \in Socats, NEW o \in Offsets, Connect(s, o)
      PROVE  QuitInv'
  <2>1. thread[o] = "accepting" /\ thread' = [thread EXCEPT ![o] = "accepted"]
        /\ UNCHANGED <<conns, main, offset, shut>>
    BY <1>4 DEF Connect
  <2>2. PortsFit => Filed'
    BY <1>0, <2>1, OffsetFacts DEF QuitInv, Filed, TypeOK
  <2>3. main \notin {"run", "close"}
    BY <2>1 DEF QuitInv, Started
  <2> QED BY <2>1, <2>2, <2>3 DEF QuitInv
<1>5. CASE \/ \E r \in Ranks : SlaveFails(r)
           \/ \E s \in Socats : SocatCloses(s) \/ SocatFollows(s)
           \/ UNCHANGED vars
  <2>1. UNCHANGED <<main, offset, thread, conns, shut>>
    BY <1>5 DEF SlaveFails, SocatCloses, SocatFollows, CloseSocats, vars
  <2> QED BY <2>1 DEF QuitInv, Filed, ShutSoFar, Started
<1>6. ASSUME NEW o \in Offsets, ThreadStep(o) PROVE QuitInv'
  BY <1>6, ThreadKeepsQuit
<1> QED BY <1>1, <1>2, <1>3, <1>4, <1>5, <1>6 DEF Next, MasterNext, MainStep

\* When on_delete lets the application quit, every connection that is still read has
\* been shut down - although the threads take their pointers back while the loop runs,
\* and although the ports may wrap around: then the waiting dialog never closes, and
\* no session can be quit.
THEOREM QuitShutsConnections == Spec => QuitShutsAll
<1>1. Init => QuitInv
  <2> SUFFICES ASSUME Init PROVE QuitInv
    OBVIOUS
  <2>1. ThreadInv
    BY ThreadInvInit
  <2>2. main = "servers" /\ \A o \in Offsets : thread[o] = "none"
    BY DEF Init
  <2> QED BY <2>1, <2>2, OffsetFacts DEF QuitInv, Filed
<1>2. ThreadInv' /\ QuitInv /\ [Next]_vars => QuitInv'
  BY QuitStep
<1>3. QuitInv => [AppQuits => \A o \in Offsets : thread[o] = "reading" => o \in shut]_vars
  <2> SUFFICES ASSUME QuitInv, AppQuits, NEW o \in Offsets, thread[o] = "reading"
               PROVE  o \in shut
    OBVIOUS
  <2>1. PICK k \in Kinds, r \in Ranks : o = OffsetOf(k, r)
    BY EveryOffset
  <2>2. VisitOf(k, r) < offset
    BY OffsetFacts, PortsAssumption DEF AppQuits
  <2> QED BY <2>1, <2>2 DEF AppQuits, QuitInv, ShutSoFar
<1> QED BY <1>1, <1>2, <1>3, ThreadInvariant, PTL DEF Spec, QuitShutsAll
=============================================================================
