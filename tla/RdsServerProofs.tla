-------------------------- MODULE RdsServerProofs --------------------------
(***************************************************************************)
(* Proofs about RdsServer: type correctness, that the descriptors, the     *)
(* list of clients and what select() watches stay consistent, that the     *)
(* main loop never blocks on input, and that it implements RdsService -    *)
(* for any set of clients, any number of sources, and any bounds.          *)
(***************************************************************************)
EXTENDS RdsServer, ProofFacts

ListenFds == {unix_sock_fd, tcpip_sock_fd}
Places    == 1..Len(clientlist)

\* While the daemon runs no connection is reset.
Connected ==
    /\ pc # "down"
    /\ conn \in [Conns -> {"none", "pending", "open", "closed"}]

\* A connection waits on its own socket, once, until it is accepted: it is
\* never both in a backlog and in clientlist.
Queued ==
    \A f \in ListenFds :
        /\ \A m, n \in 1..Len(backlog[f]) : backlog[f][m] = backlog[f][n] => m = n
        /\ \A n \in 1..Len(backlog[f]) :
              /\ ListenFd(backlog[f][n]) = f
              /\ conn[backlog[f][n]] \in {"pending", "closed"}
              /\ \A m \in Places : clientlist[m] # backlog[f][n]

\* A client has a connection, and a descriptor of its own.
Listed ==
    \A n \in Places :
        /\ conn[clientlist[n]] \in {"open", "closed"}
        /\ fd[clientlist[n]] \in Nat \ FixedFds

\* What select() reported is still there when the loop gets to it.  The list
\* that it reported of is of descriptors that were open then, so that a client
\* accepted since is not taken for ready.
Readable(n) == fd[clientlist[n]] \in tmp_fds => ClientReadable(clientlist[n])

Ready ==
    /\ pc \in {"accept_unix", "accept_inet"} =>
          tmp_fds \subseteq all_fds /\ \A n \in Places : Readable(n)
    /\ pc = "requests" =>
          /\ i \in Places
          /\ requests \in 1..Len(c2s[clientlist[i]])
          /\ \A n \in Places : n > i => Readable(n)

\* The round: clients from the index on have not had their turn; of those before
\* it as many are passed over as were deleted.
Passed == {clientlist[n] : n \in {m \in Places : m < i}}

Round ==
    /\ pc \in {"accept_unix", "accept_inet"} => served = {} /\ deleted = 0
    /\ pc = "clients" => \A n \in Places : n >= i => clientlist[n] \notin served
    /\ pc = "requests" => /\ \A n \in Places : n > i => clientlist[n] \notin served
                          /\ clientlist[i] \in served
    /\ pc \in {"clients", "requests"} => Cardinality(Passed \ served) <= deleted
    /\ pc = "select" => Cardinality(Clients \ served) <= deleted

\* The inductive invariant.
IInv ==
    /\ TypeOK
    /\ Connected
    /\ Queued
    /\ Listed
    /\ DescriptorsConsistent
    /\ NothingBlocksOnInput
    /\ Ready
    /\ Round

-----------------------------------------------------------------------------
(* What the operators of the model return *)

\* The source numbers.
LEMMA SourceFacts ==
    /\ NumSources \in Nat \ {0}
    /\ \A n \in 1..NumSources : n - 1 \in Sources
    /\ Sources \subseteq Nat /\ IsFiniteSet(Sources)
    /\ NoSource \notin Sources
  <1>1. NumSources \in Nat \ {0}
    BY NumSourcesAssumption
  <1>2. IsFiniteSet(0..(NumSources - 1))
    BY <1>1, FS_Interval
  <1> QED BY <1>1, <1>2 DEF Sources, NoSource

\* CheckEvents() writes event messages.
EventMessage == [kind : {"event"}, src : Sources, evts : SUBSET Items]

LEMMA EventMsgsType ==
    ASSUME NEW evts \in [Sources -> SUBSET Items], NEW mask \in [Sources -> SUBSET Items]
    PROVE  /\ EventMsgs(evts, mask) \in Seq(EventMessage)
           /\ EventMsgs(evts, mask) \in Seq(Message)
           /\ Len(EventMsgs(evts, mask)) \in Nat
  <1> DEFINE Told(s) == evts[s] \cap mask[s]
             Part(n) == IF Told(n - 1) = {} THEN <<>> ELSE <<EventMsg(n - 1, Told(n - 1))>>
             parts == [n \in 1..NumSources |-> Part(n)]
             msgs == EventMsgs(evts, mask)
  <1>1. ASSUME NEW n \in 1..NumSources PROVE Part(n) \in Seq(EventMessage)
    <2>1. n - 1 \in Sources /\ Told(n - 1) \in SUBSET Items
      BY SourceFacts
    <2>2. EventMsg(n - 1, Told(n - 1)) \in EventMessage
      BY <2>1 DEF EventMsg, EventMessage
    <2> HIDE DEF Told
    <2> QED BY <2>2
  <1>2. parts \in Seq(Seq(EventMessage))
    <2> HIDE DEF Part
    <2> QED BY <1>1, SourceFacts
  <1>3. msgs = FlattenSeq(parts)
    BY DEF EventMsgs
  <1>4. msgs \in Seq(EventMessage)
    <2> HIDE DEF parts, msgs
    <2> QED BY <1>2, <1>3, FlattenSeqType
  <1>5. EventMessage \subseteq Message
    BY DEF EventMessage, Message
  <1> HIDE DEF msgs
  <1>6. msgs \in Seq(Message) /\ Len(msgs) \in Nat
    BY <1>4, <1>5
  <1> QED BY <1>4, <1>6 DEF msgs

\* A set of events travels as a number.
LEMMA CodeType ==
    ASSUME NEW evts PROVE Code(evts) \in Nat
  <1> DEFINE Bit(it) == IF it \in evts THEN EventBit[it] ELSE 0
  <1>1. /\ Bit("rflags") \in Nat /\ Bit("picode") \in Nat /\ Bit("ptype") \in Nat
        /\ Bit("pname") \in Nat /\ Bit("utcdt") \in Nat /\ Bit("locdt") \in Nat
        /\ Bit("rtxt") \in Nat /\ Bit("lrtxt") \in Nat /\ Bit("tmc") \in Nat
        /\ Bit("gstat") \in Nat /\ Bit("aflist") \in Nat /\ Bit("rxfre") \in Nat
        /\ Bit("rxsig") \in Nat
    BY DEF EventBit
  <1>2. Code(evts) = Bit("rflags") + Bit("picode") + Bit("ptype") + Bit("pname")
                     + Bit("utcdt") + Bit("locdt") + Bit("rtxt") + Bit("lrtxt")
                     + Bit("tmc") + Bit("gstat") + Bit("aflist") + Bit("rxfre")
                     + Bit("rxsig")
    BY DEF Code
  <1> HIDE DEF Bit
  <1>3. /\ Bit("rflags") + Bit("picode") + Bit("ptype") + Bit("pname") \in Nat
        /\ \A n \in Nat : /\ n + Bit("utcdt") + Bit("locdt") + Bit("rtxt") + Bit("lrtxt") \in Nat
                          /\ n + Bit("tmc") + Bit("gstat") + Bit("aflist") \in Nat
                          /\ n + Bit("rxfre") + Bit("rxsig") \in Nat
    BY <1>1
  <1> QED BY <1>2, <1>3, Zenon

\* A request is for a source, or is "esrc".
LEMMA RequestKinds ==
    ASSUME NEW req \in Request
    PROVE  /\ req.cmd \in Commands
           /\ req.src \in Sources \cup {NoSource}
           /\ req.mask \in SUBSET Items
           /\ req.cmd # ESRC => req.src \in Sources /\ req.cmd \in Items \cup {SEVNT, GEVNT}
           /\ req.cmd = ESRC => req.src = NoSource
           /\ ESRC \notin Items /\ ESRC # SEVNT /\ ESRC # GEVNT
           /\ SEVNT \notin Items /\ GEVNT \notin Items
  BY DEF Request, Commands, Items, EventBit, ESRC, SEVNT, GEVNT

\* The reply to a request carries a number.
LEMMA ReplyType ==
    ASSUME TypeOK, NEW c \in Conns, NEW req \in Request
    PROVE  ReplyMsg(req, ReplyData(c, req)) \in Message
  <1>1. ReplyData(c, req) \in Nat
    <2>1. CASE req.cmd \in Items
      <3>1. req.src \in Sources
        BY <2>1, RequestKinds
      <3>2. val[req.src][req.cmd] \in Nat
        BY <2>1, <3>1 DEF TypeOK
      <3> QED BY <2>1, <3>2, RequestKinds DEF ReplyData
    <2>2. CASE req.cmd \notin Items /\ req.cmd = GEVNT
      BY <2>2, CodeType DEF ReplyData
    <2>3. CASE req.cmd \notin Items /\ req.cmd # GEVNT
      BY <2>3 DEF ReplyData, OK
    <2> QED BY <2>1, <2>2, <2>3
  <1> QED BY <1>1, RequestKinds DEF ReplyMsg, Message

\* The descriptors that are open throughout.
LEMMA FixedFdsFacts ==
    /\ FixedFds \subseteq Nat /\ FixedFds # {} /\ IsFiniteSet(FixedFds)
    /\ ListenFds \subseteq FixedFds
    /\ Max(FixedFds) \in FixedFds /\ \A f \in FixedFds : f <= Max(FixedFds)
  <1>1. /\ FixedFds \subseteq 0..(NumSources + 1) /\ FixedFds # {}
        /\ ListenFds \subseteq FixedFds
    BY SourceFacts DEF FixedFds, Sources, SourceFd, ListenFds, unix_sock_fd, tcpip_sock_fd
  <1>2. IsFiniteSet(FixedFds) /\ FixedFds \subseteq Nat
    <2>1. IsFiniteSet(0..(NumSources + 1))
      BY SourceFacts, FS_Interval
    <2>2. IsFiniteSet(FixedFds)
      BY <1>1, <2>1, FS_Subset
    <2> QED BY <1>1, <2>2
  <1> QED BY <1>1, <1>2, GreatestMember

\* The descriptors in use, those of any part of the clients included.
LEMMA UsedFds ==
    ASSUME TypeOK, Listed, NEW D \in SUBSET Clients
    PROVE  LET used == FixedFds \cup {fd[c] : c \in D}
           IN  /\ used \subseteq Nat
               /\ Max(used) \in used
               /\ \A f \in used : f <= Max(used)
  <1> DEFINE used == FixedFds \cup {fd[c] : c \in D}
             all  == {fd[c] : c \in Clients}
  <1>1. IsFiniteSet(used)
    <2>1. IsFiniteSet(all)
      <3>1. clientlist \in Seq(Conns)
        BY DEF TypeOK
      <3> QED BY <3>1, FiniteImage, Zenon DEF Clients
    <2>2. {fd[c] : c \in D} \subseteq all
      OBVIOUS
    <2>3. IsFiniteSet({fd[c] : c \in D})
      <3> HIDE DEF all
      <3> QED BY <2>1, <2>2, FS_Subset
    <2> QED BY <2>3, FixedFdsFacts, FS_Union
  <1>2. used \subseteq Nat
    <2>1. \A c \in D : \E n \in Places : clientlist[n] = c
      BY ToSetElements DEF TypeOK, Clients, Places
    <2>2. \A c \in D : fd[c] \in Nat
      BY <2>1 DEF Listed
    <2> QED BY <2>2, FixedFdsFacts
  <1>3. used # {}
    BY FixedFdsFacts
  <1> HIDE DEF used
  <1>4. Max(used) \in used /\ \A f \in used : f <= Max(used)
    BY <1>1, <1>2, <1>3, GreatestMember
  <1> QED BY <1>2, <1>4 DEF used

\* The descriptor that accept() returns is free.
LEMMA FreeDescriptor ==
    ASSUME TypeOK, Listed
    PROVE  /\ LowestFreeFd \in Nat \ FixedFds
           /\ \A n \in Places : fd[clientlist[n]] # LowestFreeFd
  <1> DEFINE used == FixedFds \cup {fd[c] : c \in Clients}
             free == (0..(Max(used) + 1)) \ used
  <1>1. /\ used \subseteq Nat
        /\ Max(used) \in used
        /\ \A f \in used : f <= Max(used)
    BY UsedFds
  <1>2. LowestFreeFd = Min(free)
    BY DEF LowestFreeFd
  <1>3. \A n \in Places : fd[clientlist[n]] \in used
    BY ToSetElements DEF TypeOK, Clients, Places
  <1>4. FixedFds \subseteq used
    OBVIOUS
  <1> HIDE DEF used
  <1>5. free \subseteq Nat /\ free # {}
    <2>1. Max(used) \in Nat
      BY <1>1
    <2>2. Max(used) + 1 \notin used
      <3> SUFFICES ASSUME Max(used) + 1 \in used PROVE FALSE
        OBVIOUS
      <3>1. Max(used) + 1 <= Max(used)
        BY <1>1
      <3> QED BY <2>1, <3>1
    <2> QED BY <2>1, <2>2
  <1>6. Min(free) \in free
    <2> HIDE DEF free
    <2> QED BY <1>5, LeastMember
  <1> QED BY <1>2, <1>3, <1>4, <1>6

-----------------------------------------------------------------------------
(* The steps of a client preserve the invariant *)

\* What is written and read changes the queues; requests that have arrived stay,
\* so that a connection that is readable stays so.
LEMMA ExchangeStep ==
    ASSUME IInv,
           c2s' \in [Conns -> Seq(Request)],
           \A d \in Conns : Len(c2s'[d]) >= Len(c2s[d]) /\ (c2s[d] # <<>> => c2s'[d] # <<>>),
           s2c' \in [Conns -> Seq(Message)],
           UNCHANGED <<conn, srvvars>>
    PROVE  IInv'
  <1> USE DEF srvvars, IInv, Places
  <1>1. \A d \in Conns : Len(c2s'[d]) \in Nat
    OBVIOUS
  <1>2. TypeOK'
    BY DEF TypeOK, ChannelTypeOK
  <1>3. Connected'
    BY DEF Connected
  <1>4. Queued'
    BY DEF Queued
  <1>5. Listed'
    BY DEF Listed
  <1>6. DescriptorsConsistent'
    BY DEF DescriptorsConsistent, Clients
  <1>7. \A d \in Conns : ClientReadable(d) => ClientReadable(d)'
    BY DEF ClientReadable
  <1>8. \A n \in Places : clientlist[n] \in Conns
    BY DEF TypeOK
  <1>9. NothingBlocksOnInput'
    BY <1>7, <1>8 DEF NothingBlocksOnInput, TypeOK
  <1>10. Ready'
    <2>1. \A n \in Places : Readable(n) => Readable(n)'
      BY <1>7, <1>8 DEF Readable
    <2>2. ASSUME pc = "requests" PROVE requests \in 1..Len(c2s'[clientlist[i]])
      <3>1. i \in Places /\ requests \in 1..Len(c2s[clientlist[i]])
        BY <2>2 DEF Ready
      <3> PICK d \in Conns : d = clientlist[i]
        BY <1>8, <3>1
      <3>2. Len(c2s[d]) \in Nat /\ Len(c2s'[d]) \in Nat /\ Len(c2s'[d]) >= Len(c2s[d])
        BY <1>1 DEF TypeOK, ChannelTypeOK
      <3>3. requests \in 1..Len(c2s[d])
        BY <3>1
      <3>4. requests \in 1..Len(c2s'[d])
        BY <3>2, <3>3
      <3> QED BY <3>4
    <2> QED BY <2>1, <2>2 DEF Ready
  <1>11. Round'
    BY DEF Round, Passed, Clients
  <1> QED BY <1>2, <1>3, <1>4, <1>5, <1>6, <1>9, <1>10, <1>11

\* A client writes a request, ...
LEMMA SendStep ==
    ASSUME IInv, NEW c \in Conns, NEW req \in Requests, Send(c, req)
    PROVE  IInv'
  <1>1. /\ req \in Request
        /\ c2s \in [Conns -> Seq(Request)] /\ s2c \in [Conns -> Seq(Message)]
        /\ c2s' = [c2s EXCEPT ![c] = Append(c2s[c], req)]
        /\ UNCHANGED <<conn, s2c, srvvars>>
    BY RequestsAssumption DEF Send, IInv, TypeOK, ChannelTypeOK
  <1>2. /\ Append(c2s[c], req) \in Seq(Request)
        /\ Len(Append(c2s[c], req)) = Len(c2s[c]) + 1
        /\ Append(c2s[c], req) # <<>>
    BY <1>1, AppendProperties
  <1>3. c2s' \in [Conns -> Seq(Request)]
    BY <1>1, <1>2
  <1>4. ASSUME NEW d \in Conns
        PROVE  Len(c2s'[d]) >= Len(c2s[d]) /\ (c2s[d] # <<>> => c2s'[d] # <<>>)
    <2>1. Len(c2s[d]) \in Nat
      BY <1>1
    <2> QED BY <1>1, <1>2, <2>1
  <1> QED BY <1>1, <1>3, <1>4, ExchangeStep

\* ... or reads a message.
LEMMA ReceiveStep ==
    ASSUME IInv, NEW c \in Conns, Receive(c)
    PROVE  IInv'
  <1>1. /\ c2s \in [Conns -> Seq(Request)] /\ s2c \in [Conns -> Seq(Message)]
        /\ s2c[c] # <<>>
        /\ s2c' = [s2c EXCEPT ![c] = Tail(s2c[c])]
        /\ UNCHANGED <<conn, c2s, srvvars>>
    BY DEF Receive, IInv, TypeOK, ChannelTypeOK
  <1>2. Tail(s2c[c]) \in Seq(Message)
    BY <1>1, HeadTailProperties
  <1>3. s2c' \in [Conns -> Seq(Message)]
    BY <1>1, <1>2
  <1>4. \A d \in Conns : Len(c2s[d]) \in Nat
    BY <1>1
  <1> QED BY <1>1, <1>3, <1>4, ExchangeStep

\* A connection that is closed is readable: there is its end of file.
LEMMA DisconnectStep ==
    ASSUME IInv, NEW c \in Conns, Disconnect(c)
    PROVE  IInv'
  <1> USE DEF Disconnect, srvvars, IInv, Places
  <1>1. /\ conn[c] \in {"pending", "open"}
        /\ conn' = [conn EXCEPT ![c] = "closed"]
        /\ conn \in [Conns -> {"none", "pending", "open", "closed"}]
    BY DEF Connected
  <1>2. TypeOK'
    <2>1. s2c' \in [Conns -> Seq(Message)]
      BY DEF TypeOK, ChannelTypeOK
    <2>2. conn' \in [Conns -> ConnState]
      BY <1>1 DEF TypeOK, ChannelTypeOK, ConnState
    <2> QED BY <2>1, <2>2 DEF TypeOK, ChannelTypeOK
  <1>3. Connected'
    BY <1>1 DEF Connected
  <1>4. Queued'
    BY <1>1 DEF Queued, TypeOK
  <1>5. Listed'
    BY <1>1 DEF Listed, TypeOK
  <1>6. DescriptorsConsistent'
    BY DEF DescriptorsConsistent, Clients
  <1>7. \A d \in Conns : ClientReadable(d) => ClientReadable(d)'
    BY <1>1 DEF ClientReadable
  <1>8. \A n \in Places : clientlist[n] \in Conns
    BY DEF TypeOK
  <1>9. NothingBlocksOnInput'
    BY <1>7, <1>8 DEF NothingBlocksOnInput, TypeOK
  <1>10. Ready'
    <2>1. \A n \in Places : Readable(n) => Readable(n)'
      BY <1>7, <1>8 DEF Readable
    <2> QED BY <2>1 DEF Ready
  <1>11. Round'
    BY DEF Round, Passed, Clients
  <1> QED BY <1>2, <1>3, <1>4, <1>5, <1>6, <1>9, <1>10, <1>11

\* A connection joins the backlog of its socket; it was in none, and no client.
LEMMA ConnectStep ==
    ASSUME IInv, NEW c \in Conns, Connect(c)
    PROVE  IInv'
  <1> USE DEF Connect, IInv, Places
  <1> DEFINE l == ListenFd(c)
  <1>1. /\ conn[c] = "none"
        /\ conn' = [conn EXCEPT ![c] = "pending"]
        /\ conn \in [Conns -> {"none", "pending", "open", "closed"}]
    BY DEF Connected
  <1>2. /\ l \in ListenFds
        /\ backlog \in [ListenFds -> Seq(Conns)]
        /\ backlog' = [backlog EXCEPT ![l] = Append(backlog[l], c)]
    BY DEF ListenFd, ListenFds, TypeOK
  <1>3. /\ Append(backlog[l], c) \in Seq(Conns)
        /\ Len(Append(backlog[l], c)) = Len(backlog[l]) + 1
        /\ \A n \in 1..Len(backlog[l]) : Append(backlog[l], c)[n] = backlog[l][n]
        /\ Append(backlog[l], c)[Len(backlog[l]) + 1] = c
    BY <1>2, AppendProperties
  <1>4. TypeOK'
    <2>1. backlog' \in [ListenFds -> Seq(Conns)]
      BY <1>2, <1>3
    <2>2. conn' \in [Conns -> ConnState]
      BY <1>1 DEF TypeOK, ChannelTypeOK, ConnState
    <2> QED BY <2>1, <2>2 DEF TypeOK, ChannelTypeOK, ListenFds
  <1>5. Connected'
    BY <1>1 DEF Connected
  <1>6. Queued'
    <2>1. ASSUME NEW f \in ListenFds, f # l
          PROVE  backlog'[f] = backlog[f] /\ backlog'[f] \in Seq(Conns)
      BY <1>2, <2>1
    <2>2. \A n \in 1..Len(backlog[l]) : backlog[l][n] # c
      BY <1>1, <1>2 DEF Queued
    <2>3. \A n \in Places : clientlist[n] # c
      BY <1>1 DEF Listed
    <2>4. ASSUME NEW f \in ListenFds
          PROVE  \A m, n \in 1..Len(backlog'[f]) : backlog'[f][m] = backlog'[f][n] => m = n
      <3>1. CASE f # l
        BY <2>1, <3>1 DEF Queued
      <3>2. CASE f = l
        BY <1>2, <1>3, <2>2, <3>2 DEF Queued
      <3> QED BY <3>1, <3>2
    <2>5. ASSUME NEW f \in ListenFds, NEW n \in 1..Len(backlog'[f])
          PROVE  /\ ListenFd(backlog'[f][n]) = f
                 /\ conn'[backlog'[f][n]] \in {"pending", "closed"}
                 /\ \A m \in Places : clientlist[m] # backlog'[f][n]
      <3>1. CASE f # l \/ n \in 1..Len(backlog[l])
        <4>1. n \in 1..Len(backlog[f]) /\ backlog'[f][n] = backlog[f][n]
          BY <1>2, <1>3, <2>1, <3>1
        <4> QED BY <1>1, <1>2, <4>1 DEF Queued
      <3>2. CASE f = l /\ n = Len(backlog[l]) + 1
        BY <1>1, <1>2, <1>3, <2>3, <3>2
      <3> QED BY <1>2, <1>3, <3>1, <3>2
    <2> QED BY <2>4, <2>5 DEF Queued
  <1>7. Listed'
    BY <1>1 DEF Listed, TypeOK
  <1>8. DescriptorsConsistent'
    BY DEF DescriptorsConsistent, Clients
  <1>9. \A n \in Places : clientlist[n] \in Conns /\ clientlist[n] # c
    BY <1>1 DEF TypeOK, Listed
  <1>10. \A n \in Places : ClientReadable(clientlist[n]) => ClientReadable(clientlist[n])'
    BY <1>1, <1>9 DEF ClientReadable
  <1>11. NothingBlocksOnInput'
    <2>1. \A f \in ListenFds : backlog[f] # <<>> => backlog'[f] # <<>>
      BY <1>2, AppendProperties
    <2> QED BY <1>9, <1>10, <2>1 DEF NothingBlocksOnInput, TypeOK, ListenFds
  <1>12. Ready'
    <2>1. \A n \in Places : Readable(n) => Readable(n)'
      BY <1>10 DEF Readable
    <2> QED BY <2>1 DEF Ready
  <1>13. Round'
    BY DEF Round, Passed, Clients
  <1> QED BY <1>4, <1>5, <1>6, <1>7, <1>8, <1>11, <1>12, <1>13

-----------------------------------------------------------------------------
(* The steps of the main loop preserve the invariant *)

\* What select() reports ready is ready: a descriptor belongs to one of a
\* source, a listening socket and a client, and to one client only.
LEMMA ReadyFdsFacts ==
    ASSUME IInv, NEW sources \in SUBSET Sources
    PROVE  /\ \A f \in ListenFds : f \in ReadyFds(sources) => backlog[f] # <<>>
           /\ \A n \in Places : fd[clientlist[n]] \in ReadyFds(sources)
                                  => ClientReadable(clientlist[n])
  <1> DEFINE S == {SourceFd(s) : s \in sources}
             L == {f \in ListenFds : backlog[f] # <<>>}
             R == {c \in Clients : ClientReadable(c)}
             C == {fd[c] : c \in R}
  <1>1. ReadyFds(sources) = S \cup L \cup C
    BY DEF ReadyFds, ListenFds
  <1>2. S \subseteq FixedFds /\ L \subseteq FixedFds /\ ListenFds \subseteq FixedFds
    BY FixedFdsFacts DEF FixedFds
  <1>3. S \cap ListenFds = {}
    <2>1. \A s \in Sources : s \in Nat
      BY SourceFacts
    <2>2. \A s \in Sources : SourceFd(s) \notin ListenFds
      BY <2>1 DEF ListenFds, SourceFd, unix_sock_fd, tcpip_sock_fd
    <2> QED BY <2>2
  <1>4. \A c \in Clients : \E n \in Places : clientlist[n] = c
    BY ToSetElements DEF IInv, TypeOK, Clients, Places
  <1>5. C \cap FixedFds = {}
    BY <1>4 DEF IInv, Listed
  <1>6. ASSUME NEW n \in Places, fd[clientlist[n]] \in C
        PROVE  ClientReadable(clientlist[n])
    <2>1. PICK c \in R : fd[clientlist[n]] = fd[c]
      BY <1>6
    <2>2. PICK m \in Places : clientlist[m] = c
      BY <1>4
    <2>3. m = n
      BY <2>1, <2>2 DEF IInv, DescriptorsConsistent, Places
    <2> QED BY <2>2, <2>3
  <1>7. \A n \in Places : fd[clientlist[n]] \notin FixedFds
    BY DEF IInv, Listed
  <1>8. \A f \in ListenFds : f \in L => backlog[f] # <<>>
    OBVIOUS
  <1> HIDE DEF S, L, C
  <1>9. ASSUME NEW f \in ListenFds, f \in ReadyFds(sources) PROVE backlog[f] # <<>>
    BY <1>1, <1>2, <1>3, <1>5, <1>8, <1>9
  <1>10. ASSUME NEW n \in Places, fd[clientlist[n]] \in ReadyFds(sources)
         PROVE  ClientReadable(clientlist[n])
    BY <1>1, <1>2, <1>6, <1>7, <1>10
  <1> QED BY <1>9, <1>10

LEMMA SelectStep ==
    ASSUME IInv, Select
    PROVE  IInv'
  <1> USE DEF Select, chanvars, IInv, Places
  <1>1. PICK sources \in SUBSET Sources :
          /\ updates + Cardinality(sources) <= MaxUpdates
          /\ updates' = updates + Cardinality(sources)
          /\ tmp_fds' = {f \in all_fds : f <= maxfd /\ f \in ReadyFds(sources)}
          /\ ProcessSources({s \in sources : SourceFd(s) \in tmp_fds'})
    OBVIOUS
  <1>2. TypeOK'
    <2>1. updates' \in 0..MaxUpdates
      <3>1. Cardinality(sources) \in Nat
        BY SourceFacts, FS_Subset, FS_CardinalityType
      <3> QED BY <1>1, <3>1, MaxUpdatesAssumption DEF TypeOK
    <2> DEFINE read == {s \in sources : SourceFd(s) \in tmp_fds'}
    <2>2. PICK evts \in [read -> SUBSET ActiveItems] :
            \E changed \in [read -> SUBSET ActiveItems] :
            /\ \A s \in read : changed[s] \subseteq evts[s]
            /\ events' = [s \in Sources |-> IF s \in read THEN evts[s] ELSE {}]
            /\ val' = [s \in Sources |->
                         IF s \in read
                         THEN [it \in Items |->
                                 IF it \in changed[s] THEN val[s][it] + 1 ELSE val[s][it]]
                         ELSE val[s]]
      <3>1. ProcessSources(read)
        BY <1>1
      <3> HIDE DEF read
      <3> QED BY <3>1, Zenon DEF ProcessSources
    <2> HIDE DEF read
    <2>3. events' \in [Sources -> SUBSET Items]
      BY <2>2, ActiveItemsAssumption
    <2>4. val' \in [Sources -> [Items -> Nat]]
      <3>1. val \in [Sources -> [Items -> Nat]]
        BY DEF TypeOK
      <3> QED BY <2>2, <3>1
    <2>5. tmp_fds' \subseteq Nat
      BY <1>1 DEF TypeOK
    <2> QED BY <2>1, <2>3, <2>4, <2>5 DEF TypeOK, ChannelTypeOK
  <1>3. Connected'
    BY DEF Connected
  <1>4. Queued'
    BY DEF Queued
  <1>5. Listed'
    BY DEF Listed
  <1>6. DescriptorsConsistent'
    BY DEF DescriptorsConsistent, Clients
  <1>7. NothingBlocksOnInput'
    <2>1. \A f \in ListenFds : f \in tmp_fds' => backlog[f] # <<>>
      BY <1>1, ReadyFdsFacts
    <2> QED BY <2>1 DEF NothingBlocksOnInput, ListenFds
  <1>8. Ready'
    <2>1. tmp_fds' \subseteq all_fds
      BY <1>1
    <2>2. \A n \in Places : fd[clientlist[n]] \in tmp_fds' => ClientReadable(clientlist[n])
      BY <1>1, ReadyFdsFacts
    <2> QED BY <2>1, <2>2 DEF Ready, Readable, ClientReadable
  <1>9. Round'
    BY DEF Round
  <1> QED BY <1>2, <1>3, <1>4, <1>5, <1>6, <1>7, <1>8, <1>9

\* Accepting a connection: it leaves its backlog and becomes the last client,
\* with a descriptor that select() cannot have reported.
LEMMA AcceptClientStep ==
    ASSUME IInv, NEW l \in ListenFds, NEW from, NEW to, Accept(l, from, to),
           \/ from = "accept_unix" /\ to = "accept_inet" /\ l = unix_sock_fd
           \/ from = "accept_inet" /\ to = "clients" /\ l = tcpip_sock_fd,
           l \in tmp_fds
    PROVE  IInv'
  <1> USE DEF Accept, AcceptClient, IInv, Places
  <1> DEFINE c == Head(backlog[l])
             new == LowestFreeFd
             last == Len(clientlist) + 1
  <1>1. /\ backlog[l] # <<>> /\ backlog[l] \in Seq(Conns)
        /\ backlog \in [ListenFds -> Seq(Conns)]
        /\ backlog' = [backlog EXCEPT ![l] = Tail(backlog[l])]
    BY DEF TypeOK, ListenFds
  <1>2. /\ c \in Conns /\ c = backlog[l][1] /\ 1 \in 1..Len(backlog[l])
        /\ Tail(backlog[l]) \in Seq(Conns)
        /\ Len(Tail(backlog[l])) = Len(backlog[l]) - 1
        /\ \A n \in 1..(Len(backlog[l]) - 1) : Tail(backlog[l])[n] = backlog[l][n + 1]
    BY <1>1, HeadTailProperties
  <1>3. /\ conn[c] \in {"pending", "closed"}
        /\ \A n \in Places : clientlist[n] # c
    BY <1>2 DEF Queued
  <1>4. /\ new \in Nat \ FixedFds
        /\ \A n \in Places : fd[clientlist[n]] # new
        /\ new \notin all_fds
    <2>1. \A d \in Clients : \E n \in Places : clientlist[n] = d
      BY ToSetElements DEF TypeOK, Clients
    <2> HIDE DEF Places
    <2> QED BY <2>1, FreeDescriptor DEF DescriptorsConsistent
  <1> HIDE DEF c, new
  <1>5. /\ clientlist' \in Seq(Conns)
        /\ Len(clientlist') = last
        /\ \A n \in Places : clientlist'[n] = clientlist[n] /\ n # last
        /\ clientlist'[last] = c
        /\ Clients' = Clients \cup {c}
        /\ Places' = Places \cup {last} /\ last \in Nat
    <2>1. clientlist' = Append(clientlist, c) /\ clientlist \in Seq(Conns)
      BY DEF c, TypeOK
    <2> QED BY <1>2, <2>1, AppendElements DEF Clients
  <1>6. /\ fd' = [fd EXCEPT ![c] = new]
        /\ conn' = [conn EXCEPT ![c] = IF @ = "pending" THEN "open" ELSE @]
        /\ all_fds' = all_fds \cup {new}
        /\ maxfd' = Raised(new)
        /\ event_masks' = [event_masks EXCEPT ![c] = NoMask]
    BY DEF c, new
  <1>7. TypeOK'
    <2>1. conn' \in [Conns -> ConnState]
      BY <1>6 DEF TypeOK, ChannelTypeOK, ConnState
    <2>2. fd' \in [Conns -> Nat \cup {NoFd}] /\ all_fds' \subseteq Nat /\ maxfd' \in Nat
      BY <1>4, <1>6 DEF TypeOK, Raised
    <2>3. event_masks' \in [Conns -> [Sources -> SUBSET Items]]
      BY <1>6 DEF TypeOK, NoMask
    <2>4. backlog' \in [ListenFds -> Seq(Conns)]
      BY <1>1, <1>2
    <2>5. i' \in 1..(Len(clientlist') + 2)
      BY <1>5
    <2> QED BY <1>5, <2>1, <2>2, <2>3, <2>4, <2>5 DEF TypeOK, ChannelTypeOK, ListenFds
  <1>8. Connected'
    BY <1>6 DEF Connected
  <1>9. ASSUME NEW f \in ListenFds, NEW n \in 1..Len(backlog'[f])
        PROVE  \E k \in 1..Len(backlog[f]) : /\ backlog'[f][n] = backlog[f][k]
                                             /\ k = IF f = l THEN n + 1 ELSE n
                                             /\ f = l => k # 1
    <2>1. CASE f # l
      BY <1>1, <2>1
    <2>2. CASE f = l
      BY <1>1, <1>2, <2>2
    <2> QED BY <2>1, <2>2
  <1>10. Queued'
    <2>1. ASSUME NEW f \in ListenFds, NEW m \in 1..Len(backlog'[f]), NEW n \in 1..Len(backlog'[f]),
                 backlog'[f][m] = backlog'[f][n]
          PROVE  m = n
      BY <1>9, <2>1 DEF Queued
    <2>2. ASSUME NEW f \in ListenFds, NEW n \in 1..Len(backlog'[f])
          PROVE  /\ ListenFd(backlog'[f][n]) = f
                 /\ conn'[backlog'[f][n]] \in {"pending", "closed"}
                 /\ \A m \in Places' : clientlist'[m] # backlog'[f][n]
      <3>1. PICK k \in 1..Len(backlog[f]) : /\ backlog'[f][n] = backlog[f][k]
                                            /\ f = l => k # 1
        BY <1>9
      <3>2. /\ ListenFd(backlog[f][k]) = f
            /\ conn[backlog[f][k]] \in {"pending", "closed"}
            /\ \A m \in Places : clientlist[m] # backlog[f][k]
        BY DEF Queued
      <3>3. backlog[f][k] # c
        BY <1>2, <3>1, <3>2 DEF Queued
      <3>4. conn'[backlog[f][k]] \in {"pending", "closed"}
        <4>1. backlog[f][k] \in Conns
          BY <1>1
        <4> QED BY <1>6, <3>2, <3>3, <4>1 DEF TypeOK, ChannelTypeOK
      <3>5. \A m \in Places' : clientlist'[m] # backlog[f][k]
        BY <1>5, <3>2, <3>3
      <3> QED BY <3>1, <3>2, <3>4, <3>5
    <2> QED BY <2>1, <2>2 DEF Queued
  <1>11. /\ \A n \in Places : clientlist[n] \in Conns /\ clientlist[n] # c
         /\ \A n \in Places : fd'[clientlist'[n]] = fd[clientlist[n]]
         /\ fd'[clientlist'[last]] = new
         /\ \A d \in Conns : ClientReadable(d) => ClientReadable(d)'
    <2>1. /\ fd \in [Conns -> Nat \cup {NoFd}] /\ clientlist \in Seq(Conns)
          /\ conn \in [Conns -> ConnState]
      BY DEF TypeOK, ChannelTypeOK
    <2>2. \A n \in Places : clientlist[n] \in Conns /\ clientlist[n] # c
      BY <1>3, <2>1
    <2>3. \A n \in Places : fd'[clientlist'[n]] = fd[clientlist[n]]
      BY <1>5, <1>6, <2>1, <2>2
    <2>4. fd'[clientlist'[last]] = new
      BY <1>2, <1>5, <1>6, <2>1
    <2>5. ASSUME NEW d \in Conns, ClientReadable(d) PROVE ClientReadable(d)'
      BY <1>6, <2>1, <2>5 DEF ClientReadable
    <2> QED BY <2>2, <2>3, <2>4, <2>5
  <1>12. Listed'
    <2>1. ASSUME NEW n \in Places PROVE conn'[clientlist'[n]] \in {"open", "closed"}
      BY <1>5, <1>6, <1>11 DEF Listed
    <2>2. conn'[clientlist'[last]] \in {"open", "closed"}
      <3>1. conn \in [Conns -> ConnState] /\ clientlist'[last] = c
        BY <1>5 DEF TypeOK, ChannelTypeOK
      <3>2. conn'[c] \in {"open", "closed"}
        BY <1>2, <1>3, <1>6, <3>1
      <3> QED BY <3>1, <3>2
    <2> QED BY <1>4, <1>5, <1>11, <2>1, <2>2 DEF Listed
  <1>13. DescriptorsConsistent'
    <2>1. \A m, n \in Places' : fd'[clientlist'[m]] = fd'[clientlist'[n]] => m = n
      BY <1>4, <1>5, <1>11 DEF DescriptorsConsistent
    <2>2. all_fds' = FixedFds \cup {fd'[d] : d \in Clients'}
      <3>1. c \notin Clients
        <4>1. clientlist \in Seq(Conns)
          BY DEF TypeOK
        <4>2. \A d \in Clients : \E n \in Places : clientlist[n] = d
          BY <4>1, ToSetElements DEF Clients
        <4> QED BY <1>3, <4>2
      <3>2. Clients \subseteq Conns /\ fd \in [Conns -> Nat \cup {NoFd}]
        BY ToSetElements DEF TypeOK, Clients
      <3>3. \A d \in Clients : fd'[d] = fd[d]
        BY <1>6, <3>1, <3>2
      <3>4. fd'[c] = new
        BY <1>2, <1>6, <3>2
      <3>5. {fd'[d] : d \in Clients'} = {fd[d] : d \in Clients} \cup {new}
        <4>1. {fd'[d] : d \in Clients} = {fd[d] : d \in Clients}
          BY <3>3
        <4>2. {fd'[d] : d \in Clients \cup {c}} = {fd'[d] : d \in Clients} \cup {fd'[c]}
          OBVIOUS
        <4>3. Clients' = Clients \cup {c}
          BY <1>5
        <4> QED BY <3>4, <4>1, <4>2, <4>3
      <3> QED BY <1>6, <3>5 DEF DescriptorsConsistent
    <2>3. \A f \in all_fds' : f <= maxfd'
      <3>1. /\ all_fds \subseteq Nat /\ maxfd \in Nat
            /\ \A f \in all_fds : f <= maxfd
        BY DEF TypeOK, DescriptorsConsistent
      <3>2. maxfd' \in Nat /\ maxfd <= maxfd' /\ new <= maxfd'
        BY <1>4, <1>6, <3>1 DEF Raised
      <3>3. ASSUME NEW f \in all_fds PROVE f <= maxfd'
        BY <3>1, <3>2, <3>3
      <3> QED BY <1>6, <3>2, <3>3
    <2> QED BY <2>1, <2>2, <2>3 DEF DescriptorsConsistent
  <1>14. tmp_fds \subseteq all_fds /\ \A n \in Places : Readable(n)
    BY DEF Ready
  <1>15. \A n \in Places' : Readable(n)'
    <2> SUFFICES ASSUME NEW n \in Places' PROVE Readable(n)'
      OBVIOUS
    <2>1. CASE n \in Places
      <3>1. clientlist'[n] = clientlist[n]
        BY <1>5, <2>1
      <3> QED BY <1>11, <1>14, <2>1, <3>1 DEF Readable
    <2>2. CASE n = last
      <3>1. fd'[clientlist'[n]] \notin tmp_fds
        BY <1>4, <1>11, <1>14, <2>2
      <3> QED BY <3>1 DEF Readable
    <2> QED BY <1>5, <2>1, <2>2
  <1>16. NothingBlocksOnInput'
    <2>1. \A f \in ListenFds : f # l => backlog'[f] = backlog[f]
      BY <1>1
    <2> QED BY <1>15, <2>1
            DEF NothingBlocksOnInput, Readable, ListenFds, unix_sock_fd, tcpip_sock_fd, TypeOK
  <1>17. Ready'
    BY <1>6, <1>14, <1>15 DEF Ready
  <1>18. Round'
    <2>1. served' = {} /\ deleted' = 0 /\ i' = 1 /\ pc' = to
      BY DEF Round
    <2>2. Passed' = {}
      BY <2>1 DEF Passed
    <2> QED BY <2>1, <2>2, FS_EmptySet DEF Round
  <1> QED BY <1>7, <1>8, <1>10, <1>12, <1>13, <1>16, <1>17, <1>18

\* Without a connection on the socket accept() is not called.
LEMMA AcceptNoneStep ==
    ASSUME IInv, NEW l \in ListenFds, NEW from, NEW to, Accept(l, from, to),
           \/ from = "accept_unix" /\ to = "accept_inet" /\ l = unix_sock_fd
           \/ from = "accept_inet" /\ to = "clients" /\ l = tcpip_sock_fd,
           l \notin tmp_fds
    PROVE  IInv'
  <1> USE DEF Accept, IInv, Places
  <1>1. TypeOK'
    <2>1. UNCHANGED <<backlog, clientlist, fd, event_masks, all_fds, maxfd, conn, c2s, s2c,
                      tmp_fds, requests, events, val, updates, served, deleted>>
      OBVIOUS
    <2>2. i' = 1 /\ pc' \in {"accept_inet", "clients"}
      OBVIOUS
    <2>3. i' \in 1..(Len(clientlist) + 2)
      BY <2>2 DEF TypeOK
    <2> QED BY <2>1, <2>2, <2>3 DEF TypeOK, ChannelTypeOK
  <1>2. Connected'
    BY DEF Connected
  <1>3. Queued'
    BY DEF Queued
  <1>4. Listed'
    BY DEF Listed
  <1>5. DescriptorsConsistent'
    BY DEF DescriptorsConsistent, Clients
  <1>6. tmp_fds \subseteq all_fds /\ \A n \in Places : Readable(n)
    BY DEF Ready
  <1>7. NothingBlocksOnInput'
    BY <1>6 DEF NothingBlocksOnInput, Readable, ClientReadable
  <1>8. Ready'
    BY <1>6 DEF Ready, Readable, ClientReadable
  <1>9. Round'
    <2>1. served' = {} /\ deleted' = 0 /\ i' = 1 /\ pc' = to
      BY DEF Round
    <2>2. Passed' = {}
      BY <2>1 DEF Passed
    <2> QED BY <2>1, <2>2, FS_EmptySet DEF Round
  <1> QED BY <1>1, <1>2, <1>3, <1>4, <1>5, <1>7, <1>8, <1>9

LEMMA AcceptStep ==
    ASSUME IInv, AcceptUnix \/ AcceptInet
    PROVE  IInv'
  <1>1. CASE AcceptUnix
    BY <1>1, AcceptClientStep, AcceptNoneStep DEF AcceptUnix, ListenFds
  <1>2. CASE AcceptInet
    BY <1>2, AcceptClientStep, AcceptNoneStep DEF AcceptInet, ListenFds
  <1> QED BY <1>1, <1>2

\* At the end of a round all clients have been passed.
LEMMA EndOfRoundStep ==
    ASSUME IInv, EndOfRound
    PROVE  IInv'
  <1> USE DEF EndOfRound, chanvars, IInv, Places
  <1>1. TypeOK'
    BY DEF TypeOK, ChannelTypeOK
  <1>2. Connected'
    BY DEF Connected
  <1>3. Queued'
    BY DEF Queued
  <1>4. Listed'
    BY DEF Listed
  <1>5. DescriptorsConsistent'
    BY DEF DescriptorsConsistent, Clients
  <1>6. NothingBlocksOnInput'
    BY DEF NothingBlocksOnInput
  <1>7. Ready'
    BY DEF Ready
  <1>8. Round'
    <2>1. \A n \in Places : n < i
      BY DEF AllServed, TypeOK
    <2>2. Passed = Clients
      BY <2>1, ToSetElements DEF Passed, Clients, TypeOK
    <2>3. Cardinality(Clients \ served) <= deleted
      BY <2>2 DEF Round
    <2> QED BY <2>3 DEF Round, Clients
  <1> QED BY <1>1, <1>2, <1>3, <1>4, <1>5, <1>6, <1>7, <1>8

\* The clients before the index are finitely many, and the more have had their
\* turn, the fewer are left out.
LEMMA PassedFacts ==
    ASSUME TypeOK
    PROVE  /\ Passed \subseteq Clients /\ IsFiniteSet(Passed)
           /\ \A S : Cardinality(Passed \ S) \in Nat
           /\ \A S, T : S \subseteq T => Cardinality(Passed \ T) <= Cardinality(Passed \ S)
  <1>1. Passed \subseteq Clients
    BY ToSetElements DEF Passed, Places, Clients, TypeOK
  <1>2. IsFiniteSet(Clients)
    BY FiniteImage DEF Clients, TypeOK
  <1>3. IsFiniteSet(Passed)
    BY <1>1, <1>2, FS_Subset
  <1> HIDE DEF Passed
  <1>4. \A S : IsFiniteSet(Passed \ S)
    BY <1>3, FS_Difference
  <1>5. \A S : Cardinality(Passed \ S) \in Nat
    BY <1>4, FS_CardinalityType
  <1>6. ASSUME NEW S, NEW T, S \subseteq T
        PROVE  Cardinality(Passed \ T) <= Cardinality(Passed \ S)
    BY <1>4, <1>6, FS_Subset
  <1> QED BY <1>1, <1>3, <1>5, <1>6

\* The loop goes on to the next client, the list as it is: the client at the
\* index has had its turn.
LEMMA RoundGoesOn ==
    ASSUME TypeOK, Round, i \in Places, pc \in {"clients", "requests"},
           UNCHANGED <<clientlist, deleted>>, pc' = "clients", i' = i + 1,
           served' = served \cup {clientlist[i]},
           \A m, n \in Places : clientlist[m] = clientlist[n] => m = n
    PROVE  Round'
  <1>1. \A n \in Places' : n >= i' => clientlist'[n] \notin served'
    BY DEF Round, Places, TypeOK
  <1>2. Passed' \ served' = Passed \ served'
    BY DEF Passed, Places, TypeOK
  <1>3. Cardinality(Passed \ served') <= Cardinality(Passed \ served)
    BY PassedFacts
  <1>4. Cardinality(Passed \ served) \in Nat /\ Cardinality(Passed \ served') \in Nat
    BY PassedFacts
  <1>5. Cardinality(Passed \ served) <= deleted /\ deleted \in Nat
    BY DEF Round, TypeOK
  <1>6. Cardinality(Passed' \ served') <= deleted'
    BY <1>2, <1>3, <1>4, <1>5
  <1> QED BY <1>1, <1>6 DEF Round

\* Deleting a client: those behind it move forward, and the one that takes its
\* place is passed over.
LEMMA DeleteStep ==
    ASSUME IInv, pc = "clients", i \in Places,
           DeleteClient(clientlist[i]),
           served' = served \cup {clientlist[i]},
           UNCHANGED <<tmp_fds, event_masks, events, val, backlog, updates, requests>>
    PROVE  /\ IInv'
           /\ Clients' = Clients \ {clientlist[i]}
  <1> USE DEF IInv
  <1> DEFINE c == clientlist[i]
             old(n) == IF n < i THEN n ELSE n + 1
  <1>1. /\ clientlist \in Seq(Conns) /\ c \in Conns /\ i \in 1..Len(clientlist)
        /\ fd \in [Conns -> Nat \cup {NoFd}] /\ conn \in [Conns -> ConnState]
        /\ \A n \in Places : clientlist[n] \in Conns
        /\ Places = 1..Len(clientlist)
    BY DEF TypeOK, ChannelTypeOK, Places
  <1>2. /\ clientlist' \in Seq(Conns)
        /\ Len(clientlist') = Len(clientlist) - 1
        /\ Places' = 1..(Len(clientlist) - 1)
        /\ \A n \in Places' : clientlist'[n] = clientlist[old(n)]
    <2>1. clientlist' = RemoveAt(clientlist, i)
      BY DEF DeleteClient
    <2> QED BY <1>1, <2>1, RemoveAtElements DEF Places
  <1>3. \A m, n \in Places : clientlist[m] = clientlist[n] => m = n
    BY DEF DescriptorsConsistent, Places
  <1>4. /\ \A n \in Places' : old(n) \in Places /\ old(n) # i
        /\ \A m, n \in Places' : old(m) = old(n) => m = n
        /\ \A m \in Places : m # i => \E n \in Places' : old(n) = m
    <2>1. \A n \in Places' : old(n) \in Places /\ old(n) # i
      BY <1>1, <1>2
    <2>2. \A m, n \in Places' : old(m) = old(n) => m = n
      BY <1>1, <1>2
    <2>3. ASSUME NEW m \in Places, m # i PROVE \E n \in Places' : old(n) = m
      <3>1. CASE m < i
        BY <1>1, <1>2, <3>1
      <3>2. CASE m > i
        <4>1. m - 1 \in Places' /\ old(m - 1) = m
          BY <1>1, <1>2, <3>2
        <4> QED BY <4>1
      <3> QED BY <1>1, <2>3, <3>1, <3>2
    <2> QED BY <2>1, <2>2, <2>3
  <1>5. /\ all_fds' = all_fds \ {fd[c]}
        /\ fd' = [fd EXCEPT ![c] = NoFd]
        /\ maxfd' = calc_maxfd(Clients \ {c})
        /\ conn' = [conn EXCEPT ![c] = "none"]
        /\ c2s' = [c2s EXCEPT ![c] = <<>>]
        /\ s2c' = [s2c EXCEPT ![c] = <<>>]
        /\ deleted' = deleted + 1
        /\ i' = i + 1
        /\ pc' = "clients"
    BY DEF DeleteClient, AfterDeletion
  <1>6. Clients' = Clients \ {c}
    <2>1. \A d : d \in Clients <=> \E n \in Places : clientlist[n] = d
      BY <1>1, ToSetElements DEF Clients
    <2>2. \A d : d \in Clients' <=> \E n \in Places' : clientlist'[n] = d
      <3> DEFINE l == clientlist'
      <3>1. l \in Seq(Conns) /\ Places' = 1..Len(l)
        BY <1>2
      <3> HIDE DEF l
      <3>2. \A d : d \in ToSet(l) <=> \E n \in 1..Len(l) : l[n] = d
        BY <3>1, ToSetElements
      <3> QED BY <3>1, <3>2 DEF Clients, l
    <2> HIDE DEF old
    <2>3. ASSUME NEW d \in Clients' PROVE d \in Clients \ {c}
      <3>1. PICK n \in Places' : clientlist'[n] = d
        BY <2>2
      <3>2. old(n) \in Places /\ old(n) # i /\ clientlist[old(n)] = d
        BY <1>2, <1>4, <3>1
      <3> QED BY <1>3, <2>1, <3>2
    <2>4. ASSUME NEW d \in Clients, d # c PROVE d \in Clients'
      <3>1. PICK m \in Places : clientlist[m] = d
        BY <2>1
      <3>2. PICK n \in Places' : old(n) = m
        BY <1>4, <2>4, <3>1
      <3> QED BY <1>2, <2>2, <3>1, <3>2
    <2> QED BY <2>3, <2>4
  <1> HIDE DEF c
  <1>7. \A n \in Places' : /\ clientlist'[n] \in Conns
                           /\ clientlist'[n] # c
                           /\ clientlist'[n] = clientlist[old(n)]
    <2> HIDE DEF old
    <2> QED BY <1>1, <1>2, <1>3, <1>4 DEF c
  <1>8. \A n \in Places' : /\ fd'[clientlist'[n]] = fd[clientlist[old(n)]]
                           /\ conn'[clientlist'[n]] = conn[clientlist[old(n)]]
                           /\ c2s'[clientlist'[n]] = c2s[clientlist[old(n)]]
    <2>1. c2s \in [Conns -> Seq(Request)]
      BY DEF TypeOK, ChannelTypeOK
    <2> HIDE DEF old
    <2> QED BY <1>1, <1>5, <1>7, <2>1
  <1>9. maxfd' \in Nat /\ \A f \in FixedFds \cup {fd[d] : d \in Clients \ {c}} : f <= maxfd'
    <2>1. maxfd' = Max(FixedFds \cup {fd[d] : d \in Clients \ {c}})
      BY <1>5 DEF calc_maxfd
    <2> QED BY <2>1, UsedFds
  <1>10. TypeOK'
    <2>1. conn' \in [Conns -> ConnState] /\ c2s' \in [Conns -> Seq(Request)]
          /\ s2c' \in [Conns -> Seq(Message)]
      <3>1. c2s \in [Conns -> Seq(Request)] /\ s2c \in [Conns -> Seq(Message)]
        BY DEF TypeOK, ChannelTypeOK
      <3>2. conn' \in [Conns -> ConnState]
        BY <1>1, <1>5 DEF ConnState
      <3>3. c2s' \in [Conns -> Seq(Request)]
        <4>1. <<>> \in Seq(Request)
          OBVIOUS
        <4> QED BY <1>5, <3>1, <4>1
      <3>4. s2c' \in [Conns -> Seq(Message)]
        <4>1. <<>> \in Seq(Message)
          OBVIOUS
        <4> QED BY <1>5, <3>1, <4>1
      <3> QED BY <3>2, <3>3, <3>4
    <2>2. fd' \in [Conns -> Nat \cup {NoFd}] /\ all_fds' \subseteq Nat
      BY <1>5 DEF TypeOK
    <2>3. i' \in 1..(Len(clientlist') + 2)
      BY <1>1, <1>2, <1>5
    <2>4. deleted' \in Nat /\ served' \subseteq Conns
      BY <1>1, <1>5 DEF TypeOK, c
    <2> QED BY <1>2, <1>5, <1>9, <2>1, <2>2, <2>3, <2>4 DEF TypeOK, ChannelTypeOK
  <1>11. Connected'
    BY <1>1, <1>5 DEF Connected
  <1>12. Queued'
    <2>1. ASSUME NEW f \in ListenFds, NEW n \in 1..Len(backlog[f])
          PROVE  /\ ListenFd(backlog[f][n]) = f
                 /\ conn'[backlog[f][n]] \in {"pending", "closed"}
                 /\ \A m \in Places' : clientlist'[m] # backlog[f][n]
      <3>1. /\ ListenFd(backlog[f][n]) = f
            /\ conn[backlog[f][n]] \in {"pending", "closed"}
            /\ \A m \in Places : clientlist[m] # backlog[f][n]
        BY DEF Queued
      <3>2. backlog[f][n] # c
        BY <3>1 DEF c
      <3>3. conn'[backlog[f][n]] \in {"pending", "closed"}
        BY <1>1, <1>5, <3>1, <3>2
      <3>4. \A m \in Places' : clientlist'[m] # backlog[f][n]
        <4> HIDE DEF old
        <4> QED BY <1>4, <1>7, <3>1
      <3> QED BY <3>1, <3>3, <3>4
    <2> QED BY <2>1 DEF Queued
  <1>13. Listed'
    <2> HIDE DEF old
    <2> QED BY <1>4, <1>8 DEF Listed
  <1>14. DescriptorsConsistent'
    <2>1. \A m, n \in Places' : fd'[clientlist'[m]] = fd'[clientlist'[n]] => m = n
      <3>1. \A m, n \in Places : fd[clientlist[m]] = fd[clientlist[n]] => m = n
        BY DEF DescriptorsConsistent, Places
      <3> HIDE DEF old
      <3> QED BY <1>4, <1>8, <3>1
    <2>2. all_fds' = FixedFds \cup {fd'[d] : d \in Clients'}
      <3>1. \A d \in Clients : \E n \in Places : clientlist[n] = d
        BY <1>1, ToSetElements DEF Clients
      <3>2. \A d \in Clients \ {c} : fd[d] # fd[c] /\ fd'[d] = fd[d]
        <4>1. \A d \in Clients : d \in Conns
          BY <1>1, <3>1
        <4>2. \A d \in Clients \ {c} : fd'[d] = fd[d]
          BY <1>1, <1>5, <4>1
        <4>3. \A d \in Clients \ {c} : fd[d] # fd[c]
          BY <1>1, <3>1 DEF DescriptorsConsistent, c
        <4> QED BY <4>2, <4>3
      <3>3. fd[c] \notin FixedFds
        BY DEF Listed, c
      <3>4. all_fds = FixedFds \cup {fd[d] : d \in Clients}
        BY DEF DescriptorsConsistent
      <3>5. {fd'[d] : d \in Clients'} = {fd[d] : d \in Clients} \ {fd[c]}
        BY <1>6, <3>2
      <3> QED BY <1>5, <3>3, <3>4, <3>5
    <2>3. all_fds' \subseteq FixedFds \cup {fd[d] : d \in Clients \ {c}}
      BY <1>5 DEF DescriptorsConsistent
    <2> QED BY <1>9, <2>1, <2>2, <2>3 DEF DescriptorsConsistent, Places
  <1>16. NothingBlocksOnInput'
    <2> SUFFICES ASSUME NEW n \in Places', n >= i + 1, fd'[clientlist'[n]] \in tmp_fds
                 PROVE  c2s'[clientlist'[n]] # <<>> \/ conn'[clientlist'[n]] = "closed"
      BY <1>1, <1>5 DEF NothingBlocksOnInput, ClientReadable, Places
    <2>1. old(n) \in i..Len(clientlist)
      BY <1>1, <1>2
    <2>2. fd[clientlist[old(n)]] \in tmp_fds
      BY <1>8
    <2> HIDE DEF old
    <2>3. ClientReadable(clientlist[old(n)])
      BY <2>1, <2>2 DEF NothingBlocksOnInput
    <2> QED BY <1>8, <2>3 DEF ClientReadable
  <1>17. Ready'
    BY <1>5 DEF Ready
  <1>18. Round'
    <2>1. ASSUME NEW n \in Places', n >= i + 1 PROVE clientlist'[n] \notin served'
      <3>1. old(n) \in Places /\ old(n) >= i
        BY <1>1, <1>2, <2>1
      <3> HIDE DEF old
      <3> QED BY <1>7, <3>1 DEF Round, c
    <2> DEFINE x == clientlist'[i]
               P == Passed \ served
               P1 == Passed' \ served'
    <2>2. Passed' \subseteq Passed \cup {x}
      <3>1. ASSUME NEW n \in Places', n < i + 1 PROVE clientlist'[n] \in Passed \cup {x}
        <4>1. CASE n = i
          BY <4>1
        <4>2. CASE n # i
          <5>1. n \in Places /\ n < i
            BY <1>1, <1>2, <3>1, <4>2
          <5>2. clientlist'[n] = clientlist[n]
            BY <1>7, <3>1, <5>1
          <5> QED BY <5>1, <5>2 DEF Passed
        <4> QED BY <4>1, <4>2
      <3> QED BY <1>5, <3>1 DEF Passed
    <2>3. IsFiniteSet(P) /\ Cardinality(P) \in Nat /\ Cardinality(P) <= deleted
      BY PassedFacts, FS_Difference DEF Round
    <2>4. P1 \subseteq P \cup {x}
      BY <2>2
    <2> HIDE DEF x, P
    <2>5. IsFiniteSet(P \cup {x}) /\ Cardinality(P \cup {x}) <= Cardinality(P) + 1
      <3>1. /\ IsFiniteSet(P \cup {x})
            /\ Cardinality(P \cup {x}) = IF x \in P THEN Cardinality(P) ELSE Cardinality(P) + 1
        BY <2>3, FS_AddElement, Zenon
      <3> QED BY <2>3, <3>1
    <2>6. IsFiniteSet(P1) /\ Cardinality(P1) <= Cardinality(P \cup {x})
      <3> HIDE DEF P1
      <3> QED BY <2>4, <2>5, FS_Subset
    <2>7. Cardinality(P1) \in Nat /\ Cardinality(P \cup {x}) \in Nat
      BY <2>5, <2>6, FS_CardinalityType
    <2>8. Cardinality(P1) <= deleted + 1
      <3> HIDE DEF P1
      <3> QED BY <2>3, <2>5, <2>6, <2>7 DEF TypeOK
    <2> QED BY <1>5, <2>1, <2>8 DEF Round
  <1> QED BY <1>6, <1>10, <1>11, <1>12, <1>13, <1>14, <1>16, <1>17, <1>18 DEF c

\* Writing messages leaves queues of messages.
LEMMA WriteType ==
    ASSUME TypeOK, NEW c \in Conns, NEW msgs \in Seq(Message)
    PROVE  Write(s2c, c, msgs) \in [Conns -> Seq(Message)]
  <1>1. s2c \in [Conns -> Seq(Message)]
    BY DEF TypeOK, ChannelTypeOK
  <1>2. s2c[c] \o msgs \in Seq(Message)
    BY <1>1, ConcatProperties
  <1> QED BY <1>1, <1>2 DEF Write

\* The client is told of the events and passed; if it has closed its end, what it
\* sent may be lost.
LEMMA PassStep ==
    ASSUME IInv, pc = "clients", i \in Places, pc' = "clients", i' = i + 1,
           s2c' \in [Conns -> Seq(Message)],
           served' = served \cup {clientlist[i]},
           \/ UNCHANGED c2s
           \/ c2s' = [c2s EXCEPT ![clientlist[i]] = <<>>],
           UNCHANGED <<conn, requests, clientlist, fd, all_fds, maxfd, deleted,
                       tmp_fds, event_masks, events, val, backlog, updates>>
    PROVE  IInv'
  <1> USE DEF IInv
  <1>1. /\ \A n \in Places : clientlist[n] \in Conns
        /\ c2s \in [Conns -> Seq(Request)]
        /\ \A m, n \in Places : clientlist[m] = clientlist[n] => m = n
        /\ Places' = Places
    <2>1. \A m, n \in Places : clientlist[m] = clientlist[n] => m = n
      BY DEF DescriptorsConsistent, Places
    <2>2. \A n \in Places : clientlist[n] \in Conns
      BY DEF TypeOK, Places
    <2>3. c2s \in [Conns -> Seq(Request)] /\ Places' = Places
      BY DEF TypeOK, ChannelTypeOK, Places
    <2> QED BY <2>1, <2>2, <2>3
  <1>2. TypeOK'
    <2>1. c2s' \in [Conns -> Seq(Request)]
      <3>1. <<>> \in Seq(Request)
        OBVIOUS
      <3> QED BY <1>1, <3>1
    <2>2. i' \in 1..(Len(clientlist') + 2)
      BY DEF Places, TypeOK
    <2>3. served' \subseteq Conns
      BY <1>1 DEF TypeOK
    <2> QED BY <2>1, <2>2, <2>3 DEF TypeOK, ChannelTypeOK
  <1>3. Connected'
    BY DEF Connected
  <1>4. Queued'
    BY DEF Queued, Places
  <1>5. Listed'
    BY DEF Listed, Places
  <1>6. DescriptorsConsistent'
    BY DEF DescriptorsConsistent, Clients
  <1>7. NothingBlocksOnInput'
    <2> SUFFICES ASSUME NEW n \in Places, n >= i + 1, fd[clientlist[n]] \in tmp_fds
                 PROVE  ClientReadable(clientlist[n])'
      BY DEF NothingBlocksOnInput, Places, TypeOK
    <2>1. ClientReadable(clientlist[n])
      BY DEF NothingBlocksOnInput, Places, TypeOK
    <2>2. n # i
      BY DEF Places, TypeOK
    <2>3. clientlist[n] # clientlist[i]
      BY <1>1, <2>2
    <2> QED BY <1>1, <2>1, <2>3 DEF ClientReadable
  <1>8. Ready'
    BY DEF Ready
  <1>9. Round'
    BY <1>1, RoundGoesOn
  <1> QED BY <1>2, <1>3, <1>4, <1>5, <1>6, <1>7, <1>8, <1>9

\* The client's requests are read.
LEMMA ReadStep ==
    ASSUME IInv, pc = "clients", i \in Places, pc' = "requests",
           requests' \in 1..Len(c2s[clientlist[i]]),
           s2c' \in [Conns -> Seq(Message)],
           served' = served \cup {clientlist[i]},
           UNCHANGED <<conn, c2s, i, clientlist, fd, all_fds, maxfd, deleted,
                       tmp_fds, event_masks, events, val, backlog, updates>>
    PROVE  IInv'
  <1> USE DEF IInv
  <1>1. /\ \A n \in Places : clientlist[n] \in Conns
        /\ \A m, n \in Places : clientlist[m] = clientlist[n] => m = n
        /\ Places' = Places
    <2>1. \A m, n \in Places : clientlist[m] = clientlist[n] => m = n
      BY DEF DescriptorsConsistent, Places
    <2> QED BY <2>1 DEF TypeOK, ChannelTypeOK, Places
  <1>2. TypeOK'
    <2>1. requests' \in Nat
      <3>1. Len(c2s[clientlist[i]]) \in Nat
        BY <1>1 DEF TypeOK, ChannelTypeOK
      <3> QED BY <3>1
    <2>2. served' \subseteq Conns
      BY <1>1 DEF TypeOK
    <2> QED BY <2>1, <2>2 DEF TypeOK, ChannelTypeOK
  <1>3. Connected'
    BY DEF Connected
  <1>4. Queued'
    BY DEF Queued, Places
  <1>5. Listed'
    BY DEF Listed, Places
  <1>6. DescriptorsConsistent'
    BY DEF DescriptorsConsistent, Clients
  <1>7. NothingBlocksOnInput'
    BY DEF NothingBlocksOnInput
  <1>8. Ready'
    <2>1. ASSUME NEW n \in Places, n > i PROVE Readable(n)'
      <3>1. Readable(n)
        BY <2>1 DEF NothingBlocksOnInput, Readable, Places, TypeOK
      <3> QED BY <3>1 DEF Readable, ClientReadable
    <2> QED BY <1>1, <2>1 DEF Ready
  <1>9. Round'
    <2>1. \A n \in Places' : n > i' => clientlist'[n] \notin served'
      BY <1>1 DEF Round, Places, TypeOK
    <2>2. Passed' = Passed
      BY DEF Passed, Places
    <2>3. Cardinality(Passed \ served') <= Cardinality(Passed \ served)
      BY PassedFacts
    <2>4. Cardinality(Passed \ served) \in Nat /\ Cardinality(Passed \ served') \in Nat
      BY PassedFacts
    <2>5. Cardinality(Passed \ served) <= deleted /\ deleted \in Nat
      BY DEF Round, TypeOK
    <2>6. Cardinality(Passed' \ served') <= deleted'
      BY <2>2, <2>3, <2>4, <2>5
    <2> QED BY <2>1, <2>6 DEF Round
  <1> QED BY <1>2, <1>3, <1>4, <1>5, <1>6, <1>7, <1>8, <1>9

LEMMA ServeClientStep ==
    ASSUME IInv, ServeClient
    PROVE  IInv'
  <1> DEFINE c    == clientlist[i]
             msgs == EventMsgs(events, event_masks[c])
  <1>1. i \in Places /\ c \in Conns /\ TypeOK
    BY DEF IInv, ServeClient, AllServed, TypeOK, Places
  <1>2. Write(s2c, c, msgs) \in [Conns -> Seq(Message)]
    <2>1. msgs \in Seq(Message)
      BY <1>1, EventMsgsType DEF TypeOK
    <2> HIDE DEF c, msgs
    <2> QED BY <1>1, <2>1, WriteType
  <1>3. /\ pc = "clients"
        /\ served' = served \cup {c}
        /\ UNCHANGED <<tmp_fds, event_masks, events, val, backlog, updates>>
        /\ \/ DeleteClient(c) /\ UNCHANGED requests
           \/ /\ s2c' = Write(s2c, c, msgs)
              /\ i' = i + 1
              /\ UNCHANGED <<conn, c2s, pc, requests, clientlist, fd, all_fds, maxfd, deleted>>
           \/ Process(c)
    BY DEF ServeClient
  <1>4. CASE DeleteClient(c) /\ UNCHANGED requests
    BY <1>1, <1>3, <1>4, DeleteStep
  <1>5. CASE /\ s2c' = Write(s2c, c, msgs)
             /\ i' = i + 1
             /\ UNCHANGED <<conn, c2s, pc, requests, clientlist, fd, all_fds, maxfd, deleted>>
    BY <1>1, <1>2, <1>3, <1>5, PassStep
  <1>6. CASE Process(c)
    <2>1. CASE DeleteClient(c) /\ UNCHANGED requests
      BY <1>4, <2>1
    <2>2. CASE /\ s2c' = Write(s2c, c, msgs)
               /\ requests' \in 1..Len(c2s[c])
               /\ pc' = "requests"
               /\ UNCHANGED <<conn, c2s, i, clientlist, fd, all_fds, maxfd, deleted>>
      BY <1>1, <1>2, <1>3, <2>2, ReadStep
    <2>3. CASE /\ c2s' = [c2s EXCEPT ![c] = <<>>]
               /\ i' = i + 1
               /\ UNCHANGED <<conn, s2c, pc, requests, clientlist, fd, all_fds, maxfd, deleted>>
      <3>1. s2c' \in [Conns -> Seq(Message)]
        BY <1>1, <2>3 DEF TypeOK, ChannelTypeOK
      <3> QED BY <1>1, <1>3, <2>3, <3>1, PassStep
    <2> QED BY <1>6, <2>1, <2>2, <2>3 DEF Process
  <1> QED BY <1>3, <1>4, <1>5, <1>6

\* The request is answered and taken from the queue; after the last of those that
\* were read the loop goes on.
LEMMA ExecCmdStep ==
    ASSUME IInv, ExecCmd
    PROVE  IInv'
  <1> USE DEF IInv
  <1> DEFINE c     == clientlist[i]
             req   == Head(c2s[c])
             masks == IF req.cmd = SEVNT
                      THEN [event_masks EXCEPT ![c][req.src] = req.mask]
                      ELSE event_masks
             out   == <<ReplyMsg(req, ReplyData(c, req))>>
                        \o IF req.cmd = SEVNT THEN EventMsgs(events, masks[c]) ELSE <<>>
  <1>1. /\ i \in Places /\ c \in Conns /\ requests \in 1..Len(c2s[c])
        /\ \A n \in Places : clientlist[n] \in Conns
        /\ c2s \in [Conns -> Seq(Request)] /\ c2s[c] # <<>> /\ Len(c2s[c]) \in Nat
    <2>1. i \in Places /\ requests \in 1..Len(c2s[c])
      BY DEF ExecCmd, Ready
    <2>2. c \in Conns /\ \A n \in Places : clientlist[n] \in Conns
      BY <2>1 DEF TypeOK, Places
    <2>3. c2s \in [Conns -> Seq(Request)]
      BY DEF TypeOK, ChannelTypeOK
    <2> HIDE DEF c
    <2>4. c2s[c] \in Seq(Request) /\ Len(c2s[c]) \in Nat
      BY <2>2, <2>3
    <2>5. c2s[c] # <<>>
      BY <2>1, <2>4
    <2> QED BY <2>1, <2>2, <2>3, <2>4, <2>5 DEF c
  <1>2. \A m, n \in Places : clientlist[m] = clientlist[n] => m = n
    BY DEF DescriptorsConsistent, Places
  <1>3. /\ req \in Request
        /\ Tail(c2s[c]) \in Seq(Request)
        /\ Len(Tail(c2s[c])) = Len(c2s[c]) - 1
    BY <1>1, HeadTailProperties
  <1>4. /\ c2s' = [c2s EXCEPT ![c] = Tail(c2s[c])]
        /\ event_masks' = masks
        /\ s2c' = Write(s2c, c, out)
        /\ requests' = requests - 1
        /\ IF requests = 1 THEN pc' = "clients" /\ i' = i + 1 ELSE UNCHANGED <<pc, i>>
        /\ pc = "requests"
        /\ UNCHANGED <<conn, clientlist, fd, all_fds, maxfd, tmp_fds, events, val,
                       backlog, updates, served, deleted>>
    BY DEF ExecCmd
  <1>5. masks \in [Conns -> [Sources -> SUBSET Items]]
    <2>1. event_masks \in [Conns -> [Sources -> SUBSET Items]]
      BY DEF TypeOK
    <2>2. req.cmd = SEVNT => req.src \in Sources /\ req.mask \in SUBSET Items
      BY <1>3, RequestKinds
    <2> HIDE DEF c, req
    <2> QED BY <1>1, <2>1, <2>2
  <1>6. Write(s2c, c, out) \in [Conns -> Seq(Message)]
    <2>1. ReplyMsg(req, ReplyData(c, req)) \in Message
      BY <1>1, <1>3, ReplyType
    <2>2. EventMsgs(events, masks[c]) \in Seq(Message)
      <3> HIDE DEF masks, c
      <3> QED BY <1>1, <1>5, EventMsgsType DEF TypeOK
    <2> HIDE DEF masks, req, c
    <2>3. out \in Seq(Message)
      BY <2>1, <2>2, ConcatProperties
    <2> HIDE DEF out
    <2> QED BY <1>1, <2>3, WriteType
  <1> HIDE DEF c, req, masks, out
  <1>7. TypeOK'
    <2>1. c2s' \in [Conns -> Seq(Request)]
      BY <1>1, <1>3, <1>4
    <2>2. i' \in 1..(Len(clientlist') + 2) /\ pc' \in {"clients", "requests"}
      BY <1>1, <1>4 DEF Places, TypeOK
    <2>3. requests' \in Nat
      BY <1>1, <1>4
    <2>4. /\ event_masks' \in [Conns -> [Sources -> SUBSET Items]]
          /\ s2c' \in [Conns -> Seq(Message)]
      BY <1>4, <1>5, <1>6
    <2> QED BY <1>4, <2>1, <2>2, <2>3, <2>4 DEF TypeOK, ChannelTypeOK
  <1>8. Connected'
    BY <1>4 DEF Connected
  <1>9. Queued'
    BY <1>4 DEF Queued, Places
  <1>10. Listed'
    BY <1>4 DEF Listed, Places
  <1>11. DescriptorsConsistent'
    BY <1>4 DEF DescriptorsConsistent, Clients
  <1>12. \A n \in Places : n > i => Readable(n)'
    <2> SUFFICES ASSUME NEW n \in Places, n > i PROVE Readable(n)'
      OBVIOUS
    <2>1. clientlist[n] # c /\ clientlist[n] \in Conns
      BY <1>1, <1>2 DEF c, Places
    <2>2. c2s'[clientlist[n]] = c2s[clientlist[n]]
      BY <1>1, <1>4, <2>1
    <2>3. Readable(n)
      BY <1>4 DEF Ready
    <2> QED BY <1>4, <2>2, <2>3 DEF Readable, ClientReadable
  <1>13. CASE requests = 1
    <2>1. NothingBlocksOnInput'
      BY <1>1, <1>4, <1>12, <1>13 DEF NothingBlocksOnInput, Readable, Places
    <2>2. Ready'
      BY <1>4, <1>13 DEF Ready
    <2>3. Round'
      <3>1. served' = served \cup {clientlist[i]}
        BY <1>4 DEF Round
      <3> QED BY <1>1, <1>2, <1>4, <1>13, <3>1, RoundGoesOn
    <2> QED BY <1>7, <1>8, <1>9, <1>10, <1>11, <2>1, <2>2, <2>3
  <1>14. CASE requests # 1
    <2>1. NothingBlocksOnInput'
      BY <1>4, <1>14 DEF NothingBlocksOnInput
    <2>2. Ready'
      <3>1. requests' \in 1..Len(c2s'[clientlist'[i']])
        <4>1. c2s'[c] = Tail(c2s[c])
          BY <1>1, <1>4
        <4>2. clientlist'[i'] = c
          BY <1>4, <1>14 DEF c
        <4> QED BY <1>1, <1>3, <1>4, <1>14, <4>1, <4>2
      <3> QED BY <1>1, <1>4, <1>12, <1>14, <3>1 DEF Ready, Places
    <2>3. Round'
      BY <1>4, <1>14 DEF Round, Passed, Places
    <2> QED BY <1>7, <1>8, <1>9, <1>10, <1>11, <2>1, <2>2, <2>3
  <1> QED BY <1>13, <1>14

-----------------------------------------------------------------------------
(* The theorems *)

\* The invariant holds of an empty daemon.
LEMMA InitInv == Init => IInv
  <1> SUFFICES ASSUME Init PROVE IInv
    OBVIOUS
  <1>1. /\ Max(FixedFds) \in Nat
        /\ \A f \in FixedFds : f <= Max(FixedFds)
        /\ FixedFds \subseteq Nat
    BY FixedFdsFacts
  <1>2. Places = {} /\ Clients = {}
    BY DEF Init, Places, Clients, ToSet
  <1>3. TypeOK
    <2>1. /\ conn \in [Conns -> ConnState] /\ c2s \in [Conns -> Seq(Request)]
          /\ s2c \in [Conns -> Seq(Message)]
      BY DEF Init, ConnState
    <2>2. /\ clientlist \in Seq(Conns) /\ i \in 1..(Len(clientlist) + 2)
          /\ fd \in [Conns -> Nat \cup {NoFd}]
      BY DEF Init
    <2>3. /\ event_masks \in [Conns -> [Sources -> SUBSET Items]]
          /\ events \in [Sources -> SUBSET Items]
          /\ val \in [Sources -> [Items -> Nat]]
      BY DEF Init, NoMask
    <2>4. backlog \in [{unix_sock_fd, tcpip_sock_fd} -> Seq(Conns)]
      BY DEF Init, NoBacklog
    <2>5. updates \in 0..MaxUpdates
      BY MaxUpdatesAssumption DEF Init
    <2> QED BY <1>1, <2>1, <2>2, <2>3, <2>4, <2>5 DEF Init, TypeOK, ChannelTypeOK
  <1>4. Connected
    BY DEF Init, Connected
  <1>5. Queued
    BY DEF Init, Queued, NoBacklog, ListenFds
  <1>6. Listed
    BY <1>2 DEF Listed
  <1>7. DescriptorsConsistent
    BY <1>1, <1>2 DEF Init, DescriptorsConsistent
  <1>8. NothingBlocksOnInput
    BY DEF Init, NothingBlocksOnInput
  <1>9. Ready
    BY DEF Init, Ready
  <1>10. Round
    <2>1. Clients \ served = {}
      BY <1>2
    <2>2. Cardinality(Clients \ served) = 0
      BY <2>1, FS_EmptySet, Zenon
    <2>3. pc = "select" /\ deleted = 0
      BY DEF Init
    <2> QED BY <2>2, <2>3 DEF Round
  <1> QED BY <1>3, <1>4, <1>5, <1>6, <1>7, <1>8, <1>9, <1>10 DEF IInv

\* Every step of the daemon and of a client preserves the invariant.
LEMMA NextInv == IInv /\ [Next]_vars => IInv'
  <1> SUFFICES ASSUME IInv, [Next]_vars PROVE IInv'
    OBVIOUS
  <1>1. CASE Select
    BY <1>1, SelectStep
  <1>2. CASE AcceptUnix \/ AcceptInet
    BY <1>2, AcceptStep
  <1>3. CASE ServeClient
    BY <1>3, ServeClientStep
  <1>4. CASE ExecCmd
    BY <1>4, ExecCmdStep
  <1>5. CASE EndOfRound
    BY <1>5, EndOfRoundStep
  <1>6. ASSUME NEW c \in Conns, ClientStep(c) PROVE IInv'
    BY <1>6, ConnectStep, SendStep, ReceiveStep, DisconnectStep DEF ClientStep
  <1>7. CASE UNCHANGED vars
    <2>1. UNCHANGED <<conn, c2s, s2c, srvvars>>
      BY <1>7 DEF vars, chanvars
    <2>2. c2s \in [Conns -> Seq(Request)] /\ s2c \in [Conns -> Seq(Message)]
      BY DEF IInv, TypeOK, ChannelTypeOK
    <2>3. \A d \in Conns : Len(c2s[d]) \in Nat
      BY <2>2
    <2> QED BY <2>1, <2>2, <2>3, ExchangeStep
  <1> QED BY <1>1, <1>2, <1>3, <1>4, <1>5, <1>6, <1>7 DEF Next, WorkLoop

\* The inductive invariant holds in every state.
THEOREM Invariance == Spec => []IInv
  BY InitInv, NextInv, PTL DEF Spec

\* Every variable keeps its type: no index leaves the list, no descriptor is the
\* -1 of a failed call.
THEOREM TypeCorrect == Spec => []TypeOK
  <1>1. IInv => TypeOK
    BY DEF IInv
  <1> QED BY <1>1, Invariance, PTL

\* The bookkeeping of descriptors is consistent, whichever clients come and go in
\* whichever order.
THEOREM Descriptors == Spec => []DescriptorsConsistent
  <1>1. IInv => DescriptorsConsistent
    BY DEF IInv
  <1> QED BY <1>1, Invariance, PTL

\* No accept() and no read() of the main loop finds nothing and stops the daemon.
THEOREM NeverBlocks == Spec => []NothingBlocksOnInput
  <1>1. IInv => NothingBlocksOnInput
    BY DEF IInv
  <1> QED BY <1>1, Invariance, PTL

-----------------------------------------------------------------------------
(* That it implements RdsService: the index of a list that shrinks, descriptors that are
   reused and the two stages of reading a client are not visible to the clients, but for
   the turns that deletions cost the others. *)

\* The operators of the protocol mean the same in both modules.
LEMMA SameEventMsgs ==
    ASSUME NEW evts, NEW mask
    PROVE  Service!EventMsgs(evts, mask) = EventMsgs(evts, mask)
  BY Zenon DEF EventMsgs, Service!EventMsgs, EventMsg, Service!EventMsg, FlattenSeq, Service!FlattenSeq

LEMMA SameWrite ==
    ASSUME NEW q, NEW c, NEW msgs
    PROVE  Service!Write(q, c, msgs) = Write(q, c, msgs)
  BY DEF Write, Service!Write

LEMMA SameConstants ==
    /\ Service!Sources = Sources
    /\ Service!NoMask = NoMask
    /\ Service!Items = Items
    /\ Service!SEVNT = SEVNT /\ Service!GEVNT = GEVNT /\ Service!OK = OK
  BY DEF Service!Sources, Sources, Service!NoMask, NoMask, Service!Items, Items,
         Service!EventBit, EventBit, Service!SEVNT, SEVNT, Service!GEVNT, GEVNT,
         Service!OK, OK

LEMMA SameCardinality ==
    ASSUME NEW S PROVE Service!Cardinality(S) = Cardinality(S)
  BY Zenon DEF Service!Cardinality, Cardinality, Service!IsFiniteSet, IsFiniteSet

LEMMA SameReply ==
    ASSUME NEW req, NEW d, NEW evts
    PROVE  /\ Service!ReplyMsg(req, d) = ReplyMsg(req, d)
           /\ Service!Code(evts) = Code(evts)
  BY DEF Service!ReplyMsg, ReplyMsg, Service!Code, Code, Service!EventBit, EventBit

\* The masks that the abstract daemon sees, and its state function.
seen_masks == [c \in Conns |-> IF c \in Clients THEN event_masks[c] ELSE NoMask]
svc   == <<conn, c2s, s2c, Clients, seen_masks, events, val, served, deleted>>

LEMMA SameVars == UNCHANGED svc <=> UNCHANGED Service!vars
  BY DEF svc, seen_masks, Service!vars, Service!chanvars

-----------------------------------------------------------------------------
(* Every step is a step of the service, or none that it sees *)

LEMMA InitRefines == Init => Service!Init
  <1> SUFFICES ASSUME Init PROVE Service!Init
    OBVIOUS
  <1>1. Clients = {}
    BY DEF Init, Clients, ToSet
  <1>2. seen_masks = [c \in Conns |-> NoMask]
    BY <1>1 DEF seen_masks
  <1> QED BY <1>1, <1>2, SameConstants DEF Init, Service!Init, seen_masks

\* What a client does is what it may do to the service.
LEMMA ClientRefines ==
    ASSUME IInv, NEW c \in Conns, ClientStep(c)
    PROVE  Service!Client(c)
  <1>1. UNCHANGED <<Clients, event_masks, events, val, served, deleted>>
    BY DEF ClientStep, Connect, Send, Receive, Disconnect, srvvars, Clients
  <1>2. conn[c] # "reset" /\ pc # "down"
    BY DEF IInv, Connected
  <1>3. CASE Connect(c)
    <2>1. Service!Connect(c)
      BY <1>3 DEF Connect, Service!Connect
    <2> QED BY <1>1, <2>1 DEF Service!Client
  <1>4. ASSUME NEW req \in Requests, Send(c, req) PROVE Service!Client(c)
    <2>1. Service!Send(c, req)
      BY <1>4 DEF Send, Service!Send
    <2> QED BY <1>1, <2>1 DEF Service!Client
  <1>5. CASE Receive(c)
    <2>1. Service!Receive(c)
      BY <1>2, <1>5 DEF Receive, Service!Receive
    <2> QED BY <1>1, <2>1 DEF Service!Client
  <1>6. CASE Disconnect(c)
    <2>1. Service!Disconnect(c)
      BY <1>2, <1>6 DEF Disconnect, Service!Disconnect
    <2> QED BY <1>1, <2>1 DEF Service!Client
  <1> QED BY <1>3, <1>4, <1>5, <1>6 DEF ClientStep

\* A new round begins when no more clients were left out than had been removed.
LEMMA SelectRefines ==
    ASSUME IInv, Select
    PROVE  Service!Update
  <1>1. PICK sources \in SUBSET Sources :
          ProcessSources({s \in sources : SourceFd(s) \in tmp_fds'})
    BY DEF Select
  <1> DEFINE read == {s \in sources : SourceFd(s) \in tmp_fds'}
  <1>2. PICK evts \in [read -> SUBSET ActiveItems] :
          \E changed \in [read -> SUBSET ActiveItems] :
            /\ \A s \in read : changed[s] \subseteq evts[s]
            /\ events' = [s \in Sources |-> IF s \in read THEN evts[s] ELSE {}]
            /\ val' = [s \in Sources |->
                         IF s \in read
                         THEN [it \in Items |->
                                 IF it \in changed[s] THEN val[s][it] + 1 ELSE val[s][it]]
                         ELSE val[s]]
    <2>1. ProcessSources(read)
      BY <1>1
    <2> HIDE DEF read
    <2> QED BY <2>1, Zenon DEF ProcessSources
  <1>3. PICK changed \in [read -> SUBSET ActiveItems] :
            /\ \A s \in read : changed[s] \subseteq evts[s]
            /\ events' = [s \in Sources |-> IF s \in read THEN evts[s] ELSE {}]
            /\ val' = [s \in Sources |->
                         IF s \in read
                         THEN [it \in Items |->
                                 IF it \in changed[s] THEN val[s][it] + 1 ELSE val[s][it]]
                         ELSE val[s]]
    <2> HIDE DEF read
    <2> QED BY <1>2
  <1> HIDE DEF read
  <1>4. events' \in [Sources -> SUBSET Items]
    BY <1>3, ActiveItemsAssumption
  <1>5. val \in [Sources -> [Items -> Nat]]
    BY DEF IInv, TypeOK
  <1>6. DOMAIN val' = Sources
    BY <1>3
  <1>7. ASSUME NEW s \in Sources
        PROVE  /\ DOMAIN val'[s] = Items
               /\ \A it \in Items :
                    val'[s][it] # val[s][it] =>
                      it \in events'[s] /\ val'[s][it] = val[s][it] + 1
    <2>1. CASE s \in read
      BY <1>3, <2>1
    <2>2. CASE s \notin read
      BY <1>3, <1>5, <2>2
    <2> QED BY <2>1, <2>2
  <1>8. Cardinality(Clients \ served) <= deleted
    BY DEF IInv, Round, Select
  <1>9. /\ served' = {} /\ deleted' = 0
        /\ UNCHANGED <<conn, c2s, s2c, Clients, event_masks>>
    BY DEF Select, chanvars, Clients
  <1>10. seen_masks' = seen_masks
    BY <1>9 DEF seen_masks
  <1>11. Service!Sources = Sources /\ Service!Items = Items
    BY SameConstants
  <1>12. UNCHANGED <<Service!chanvars, Clients, seen_masks>>
    BY <1>9, <1>10 DEF Service!chanvars
  <1> QED BY <1>4, <1>6, <1>7, <1>8, <1>9, <1>11, <1>12, SameCardinality DEF Service!Update, seen_masks

\* Accepting a connection, or none.
LEMMA AcceptRefines ==
    ASSUME IInv, NEW l \in ListenFds, NEW from, NEW to, Accept(l, from, to)
    PROVE  UNCHANGED svc \/ \E c \in Conns : Service!Accept(c)
  <1>1. CASE l \notin tmp_fds
    BY <1>1 DEF Accept, svc, seen_masks, Clients
  <1>2. CASE l \in tmp_fds
    <2> DEFINE c == Head(backlog[l])
    <2>1. /\ backlog[l] # <<>> /\ backlog[l] \in Seq(Conns)
          /\ clientlist' = Append(clientlist, c) /\ clientlist \in Seq(Conns)
          /\ event_masks' = [event_masks EXCEPT ![c] = NoMask]
          /\ event_masks \in [Conns -> [Sources -> SUBSET Items]]
          /\ conn' = [conn EXCEPT ![c] = IF @ = "pending" THEN "open" ELSE @]
          /\ UNCHANGED <<c2s, s2c, events, val, served, deleted>>
      BY <1>2 DEF Accept, AcceptClient, IInv, TypeOK, ListenFds
    <2>2. c \in Conns /\ c = backlog[l][1] /\ 1 \in 1..Len(backlog[l])
      BY <2>1, HeadTailProperties
    <2>3. /\ conn[c] \in {"pending", "closed"}
          /\ \A n \in Places : clientlist[n] # c
      BY <2>2 DEF IInv, Queued
    <2> HIDE DEF c
    <2>4. Clients' = Clients \cup {c}
      BY <2>1, <2>2, AppendElements DEF Clients
    <2>5. c \notin Clients
      BY <2>1, <2>3, ToSetElements DEF Clients, Places
    <2>6. seen_masks' = seen_masks
      BY <2>1, <2>2, <2>4, <2>5 DEF seen_masks
    <2>7. Service!Accept(c)
      BY <2>1, <2>3, <2>4, <2>5, <2>6 DEF Service!Accept, seen_masks
    <2> QED BY <2>2, <2>7
  <1> QED BY <1>1, <1>2

\* The turn of a client: it is told of its events, or removed.
LEMMA DeleteRefines ==
    ASSUME IInv, pc = "clients", i \in Places,
           NEW c \in Conns, c = clientlist[i], conn[c] = "closed",
           DeleteClient(c), served' = served \cup {c},
           UNCHANGED <<tmp_fds, event_masks, events, val, backlog, updates, requests>>
    PROVE  Service!Forget(c)
  <1>1. c \in Clients /\ c \notin served
    BY ToSetElements DEF IInv, TypeOK, Clients, Places, Round
  <1>2. Clients' = Clients \ {c}
    <2>1. DeleteClient(clientlist[i])
      BY DEF DeleteClient
    <2> QED BY <2>1, DeleteStep
  <1>3. /\ conn' = [conn EXCEPT ![c] = "none"]
        /\ c2s' = [c2s EXCEPT ![c] = <<>>]
        /\ s2c' = [s2c EXCEPT ![c] = <<>>]
        /\ deleted' = deleted + 1
    BY DEF DeleteClient
  <1>4. seen_masks' = [seen_masks EXCEPT ![c] = NoMask]
    BY <1>1, <1>2 DEF seen_masks
  <1> QED BY <1>1, <1>2, <1>3, <1>4, SameConstants DEF Service!Forget, seen_masks

LEMMA ServeClientRefines ==
    ASSUME IInv, ServeClient
    PROVE  \E c \in Conns : Service!Tell(c) \/ Service!Forget(c)
  <1>1. i \in Places /\ clientlist[i] \in Conns /\ pc = "clients"
    BY DEF IInv, ServeClient, AllServed, TypeOK, Places
  <1> PICK c \in Conns : c = clientlist[i]
    BY <1>1
  <1> DEFINE msgs == EventMsgs(events, event_masks[c])
  <1>2. c \in Clients /\ c \notin served
    BY <1>1, ToSetElements DEF IInv, TypeOK, Clients, Places, Round
  <1>3. seen_masks[c] = event_masks[c]
    BY <1>1, <1>2 DEF seen_masks
  <1>4. /\ served' = served \cup {c}
        /\ UNCHANGED <<tmp_fds, event_masks, events, val, backlog, updates>>
        /\ \/ msgs # <<>> /\ conn[c] = "closed" /\ DeleteClient(c) /\ UNCHANGED requests
           \/ /\ s2c' = Write(s2c, c, msgs)
              /\ i' = i + 1
              /\ UNCHANGED <<conn, c2s, pc, requests, clientlist, fd, all_fds, maxfd, deleted>>
           \/ Process(c)
    BY DEF ServeClient
  <1>5. ASSUME conn[c] = "closed" /\ DeleteClient(c) /\ UNCHANGED requests
        PROVE  Service!Forget(c)
    BY <1>1, <1>4, <1>5, DeleteRefines
  <1>6. /\ s2c' = Write(s2c, c, msgs)
        /\ (c2s' = c2s \/ (conn[c] = "closed" /\ c2s' = [c2s EXCEPT ![c] = <<>>]))
        /\ conn' = conn /\ clientlist' = clientlist /\ deleted' = deleted
        => Service!Tell(c)
    <2> SUFFICES ASSUME /\ s2c' = Write(s2c, c, msgs)
                        /\ (c2s' = c2s \/ (conn[c] = "closed" /\ c2s' = [c2s EXCEPT ![c] = <<>>]))
                        /\ conn' = conn /\ clientlist' = clientlist /\ deleted' = deleted
                 PROVE  Service!Tell(c)
      OBVIOUS
    <2>1. Clients' = Clients /\ seen_masks' = seen_masks
      BY <1>4 DEF Clients, seen_masks
    <2>2. s2c' = Service!Write(s2c, c, Service!EventMsgs(events, seen_masks[c]))
      BY <1>3, SameWrite, SameEventMsgs
    <2> HIDE DEF msgs
    <2> QED BY <1>2, <1>4, <2>1, <2>2 DEF Service!Tell, seen_masks
  <1>7. ASSUME /\ s2c' = Write(s2c, c, msgs)
               /\ UNCHANGED <<conn, c2s, clientlist, deleted>>
        PROVE  Service!Tell(c)
    <2>1. c2s' = c2s /\ conn' = conn /\ clientlist' = clientlist /\ deleted' = deleted
      BY <1>7
    <2>2. s2c' = Write(s2c, c, msgs)
      BY <1>7
    <2> HIDE DEF msgs
    <2> QED BY <1>6, <2>1, <2>2
  <1>8. ASSUME Process(c) PROVE Service!Tell(c) \/ Service!Forget(c)
    <2>1. CASE conn[c] = "closed" /\ DeleteClient(c) /\ UNCHANGED requests
      BY <1>5, <2>1
    <2>2. CASE /\ s2c' = Write(s2c, c, msgs)
               /\ UNCHANGED <<conn, c2s, i, clientlist, fd, all_fds, maxfd, deleted>>
      BY <1>7, <2>2
    <2>3. CASE /\ conn[c] = "closed"
               /\ c2s' = [c2s EXCEPT ![c] = <<>>]
               /\ UNCHANGED <<conn, s2c, pc, requests, clientlist, fd, all_fds, maxfd, deleted>>
      <3>1. Write(s2c, c, msgs) = s2c
        <4>1. s2c \in [Conns -> Seq(Message)]
          BY DEF IInv, TypeOK, ChannelTypeOK
        <4> HIDE DEF msgs
        <4> QED BY <1>1, <2>3, <4>1 DEF Write
      <3> QED BY <1>6, <2>3, <3>1
    <2> QED BY <1>8, <2>1, <2>2, <2>3 DEF Process
  <1>9. Service!Tell(c) \/ Service!Forget(c)
    BY <1>4, <1>5, <1>7, <1>8
  <1> QED BY <1>9

\* A request is answered, in the turn of its client.
LEMMA ExecCmdRefines ==
    ASSUME IInv, ExecCmd
    PROVE  \E c \in Conns : Service!Answer(c)
  <1>0. i \in Places /\ clientlist[i] \in Conns
    BY DEF IInv, ExecCmd, Ready, TypeOK, Places
  <1> PICK c \in Conns : c = clientlist[i]
    BY <1>0
  <1> DEFINE req == Head(c2s[c])
             new == IF req.cmd = SEVNT
                    THEN [event_masks EXCEPT ![c][req.src] = req.mask]
                    ELSE event_masks
  <1>1. i \in Places /\ c \in served /\ requests \in 1..Len(c2s[c])
    BY DEF IInv, ExecCmd, Ready, Round
  <1>2. c \in Conns /\ c \in Clients
    BY <1>1, ToSetElements DEF IInv, TypeOK, Clients, Places
  <1>3. c2s \in [Conns -> Seq(Request)] /\ c2s[c] # <<>> /\ req \in Request
    <2>1. c2s \in [Conns -> Seq(Request)]
      BY DEF IInv, TypeOK, ChannelTypeOK
    <2>2. c2s[c] \in Seq(Request)
      BY <1>2, <2>1
    <2>3. c2s[c] # <<>>
      BY <1>1, <2>2
    <2> QED BY <2>1, <2>2, <2>3, HeadTailProperties
  <1>4. /\ c2s' = [c2s EXCEPT ![c] = Tail(@)]
        /\ event_masks' = new
        /\ s2c' = Write(s2c, c, <<ReplyMsg(req, ReplyData(c, req))>>
                                  \o IF req.cmd = SEVNT THEN EventMsgs(events, new[c]) ELSE <<>>)
        /\ UNCHANGED <<conn, clientlist, events, val, served, deleted>>
    BY DEF ExecCmd
  <1>5. event_masks \in [Conns -> [Sources -> SUBSET Items]]
    BY DEF IInv, TypeOK
  <1> HIDE DEF req
  <1>6. Clients' = Clients
    BY <1>4 DEF Clients
  <1>7. seen_masks[c] = event_masks[c] /\ seen_masks'[c] = new[c]
    BY <1>2, <1>4, <1>6 DEF seen_masks
  <1>8. seen_masks' = IF req.cmd = SEVNT THEN [seen_masks EXCEPT ![c][req.src] = req.mask] ELSE seen_masks
    BY <1>2, <1>4, <1>5, <1>6 DEF seen_masks
  <1>9. ReplyData(c, req) = CASE req.cmd \in Items -> val[req.src][req.cmd]
                              [] req.cmd = GEVNT   -> Code(seen_masks[c][req.src])
                              [] OTHER             -> OK
    BY <1>7 DEF ReplyData
  <1> DEFINE d   == ReplyData(c, req)
             out == <<ReplyMsg(req, d)>>
                      \o IF req.cmd = SEVNT THEN EventMsgs(events, seen_masks'[c]) ELSE <<>>
  <1>10. s2c' = Service!Write(s2c, c, out)
    BY <1>4, <1>7, SameWrite
  <1>11. out = <<Service!ReplyMsg(req, d)>>
                 \o IF req.cmd = Service!SEVNT THEN Service!EventMsgs(events, seen_masks'[c])
                                              ELSE <<>>
    BY SameReply, SameEventMsgs, SameConstants
  <1>12. d = CASE req.cmd \in Service!Items -> val[req.src][req.cmd]
               [] req.cmd = Service!GEVNT   -> Service!Code(seen_masks[c][req.src])
               [] OTHER                     -> Service!OK
    BY <1>9, SameReply, SameConstants
  <1> HIDE DEF d, out, new
  <1>13. Service!Answer(c)
    BY <1>1, <1>2, <1>3, <1>4, <1>6, <1>8, <1>10, <1>11, <1>12, SameConstants
       DEF Service!Answer, seen_masks, req
  <1> QED BY <1>13

-----------------------------------------------------------------------------
(* The theorem *)

LEMMA NextRefines == IInv /\ [Next]_vars => [Service!Next]_(Service!vars)
  <1> SUFFICES ASSUME IInv, [Next]_vars PROVE Service!Next \/ UNCHANGED svc
    BY SameVars
  <1>1. CASE Select
    BY <1>1, SelectRefines DEF Service!Next
  <1>2. CASE AcceptUnix \/ AcceptInet
    <2>1. UNCHANGED svc \/ \E c \in Conns : Service!Accept(c)
      BY <1>2, AcceptRefines DEF AcceptUnix, AcceptInet, ListenFds
    <2> QED BY <2>1 DEF Service!Next
  <1>3. CASE ServeClient
    BY <1>3, ServeClientRefines DEF Service!Next
  <1>4. CASE ExecCmd
    BY <1>4, ExecCmdRefines DEF Service!Next
  <1>5. CASE EndOfRound
    BY <1>5 DEF EndOfRound, svc, seen_masks, Clients, chanvars
  <1>6. ASSUME NEW c \in Conns, ClientStep(c) PROVE Service!Next
    BY <1>6, ClientRefines DEF Service!Next
  <1>7. CASE UNCHANGED vars
    BY <1>7 DEF vars, chanvars, srvvars, svc, seen_masks, Clients
  <1> QED BY <1>1, <1>2, <1>3, <1>4, <1>5, <1>6, <1>7 DEF Next, WorkLoop

\* The daemon implements the service: no client is told twice of the events of a
\* round, requests are answered in order under the mask of the moment, and in a
\* round as many clients may be passed over as were removed, no more.
THEOREM Refinement == Spec => ImplementsService
  BY InitRefines, NextRefines, Invariance, PTL DEF Spec, ImplementsService, Service!Spec

=============================================================================
