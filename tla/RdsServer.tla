------------------------------ MODULE RdsServer ------------------------------
(***************************************************************************)
(* The daemon's main loop: RDShandler::WorkLoop() with the client          *)
(* connections (rdshandler.cpp, rdsclient.cpp) and the sources it reads    *)
(* (rdssource.cpp).                                                        *)
(*                                                                         *)
(* rdsd is single threaded.  One turn of the loop is: select(); clear the  *)
(* events of every source and read those with data; accept at most one     *)
(* client per listening socket; then, for each client by its index, send   *)
(* the events it asked for and answer the requests it sent.  The clients   *)
(* run concurrently and connect, write, read and close between any two of  *)
(* these steps.                                                            *)
(***************************************************************************)
EXTENDS RdsProtocol, SequencesExt, FiniteSetsExt

CONSTANTS
    UnixConns,      \* the connections that use the unix domain socket
    ActiveItems,    \* the items that change in this model
    Requests,       \* the requests that clients send
    MaxPending,     \* bound: requests a client has written and rdsd has not read
    BufSize,        \* bound: messages a client's socket holds before write() blocks
    MaxUpdates      \* bound: how often a source delivers data

ASSUME UnixConnsAssumption  == UnixConns \subseteq Conns
ASSUME ActiveItemsAssumption == ActiveItems \subseteq Items
ASSUME RequestsAssumption   == Requests \subseteq Request
ASSUME MaxPendingAssumption == MaxPending \in Nat
ASSUME BufSizeAssumption    == BufSize > NumSources      \* a reply and its events fit
ASSUME MaxUpdatesAssumption == MaxUpdates \in Nat

\* File descriptors: the two listening sockets and the sources are open
\* throughout, clients get the lowest one that is free.
unix_sock_fd  == 0
tcpip_sock_fd == 1
SourceFd(s)   == 2 + s
FixedFds      == {unix_sock_fd, tcpip_sock_fd} \cup {SourceFd(s) : s \in Sources}
NoFd          == -1

ListenFd(c) == IF c \in UnixConns THEN unix_sock_fd ELSE tcpip_sock_fd

VARIABLES
    pc,             \* where WorkLoop() is; "down": the daemon is gone
    clientlist,     \* connections of RDShandler::clientlist
    fd,             \* RDSclient::fd of each connection
    all_fds, maxfd, \* what select() watches
    tmp_fds,        \* what select() reported ready
    i,              \* index of the client loop (from 1)
    requests,       \* commands in the read buffer of Process() still to execute
    event_masks,    \* RDSclient::event_masks
    events,         \* RDSdecoder::events of each source
    val,            \* version of each data item
    backlog,        \* connections waiting on the listening sockets
    updates,        \* bound: data deliveries so far
    served,         \* history: clients whose turn came in this round
    deleted         \* history: clients deleted in this round

srvvars == <<pc, clientlist, fd, all_fds, maxfd, tmp_fds, i, requests,
             event_masks, events, val, backlog, updates, served, deleted>>
vars    == <<chanvars, srvvars>>

Clients == ToSet(clientlist)
NoMask  == [s \in Sources |-> {}]

NoBacklog == [f \in {unix_sock_fd, tcpip_sock_fd} |-> <<>>]

Init ==
    /\ conn = [c \in Conns |-> "none"]
    /\ c2s = [c \in Conns |-> <<>>]
    /\ s2c = [c \in Conns |-> <<>>]
    /\ pc = "select"
    /\ clientlist = <<>>
    /\ fd = [c \in Conns |-> NoFd]
    /\ all_fds = FixedFds
    /\ maxfd = Max(FixedFds)
    /\ tmp_fds = {}
    /\ i = 1
    /\ requests = 0
    /\ event_masks = [c \in Conns |-> NoMask]
    /\ events = [s \in Sources |-> {}]
    /\ val = [s \in Sources |-> [it \in Items |-> 0]]
    /\ backlog = NoBacklog
    /\ updates = 0
    /\ served = {}
    /\ deleted = 0

-----------------------------------------------------------------------------
(* select() and the sources *)

\* A client socket is readable when it holds requests or its end of file.
ClientReadable(c) == c2s[c] # <<>> \/ conn[c] = "closed"

\* Fault: every client is read in every round.
ReadyFdsFault(sources) ==
    {SourceFd(s) : s \in sources}
      \cup {f \in {unix_sock_fd, tcpip_sock_fd} : backlog[f] # <<>>}
      \cup {fd[c] : c \in Clients}

ReadyFds(sources) ==
    {SourceFd(s) : s \in sources}
      \cup {f \in {unix_sock_fd, tcpip_sock_fd} : backlog[f] # <<>>}
      \cup {fd[c] : c \in {c \in Clients : ClientReadable(c)}}

\* RDSsource::Process(): decoding the data raises events; an item changes only
\* with its event, but an event may be raised without a change.
ProcessSources(sources) ==
    \E evts \in [sources -> SUBSET ActiveItems] :
    \E changed \in [sources -> SUBSET ActiveItems] :
        /\ \A s \in sources : changed[s] \subseteq evts[s]
        /\ events' = [s \in Sources |-> IF s \in sources THEN evts[s] ELSE {}]
        /\ val' = [s \in Sources |->
                     IF s \in sources
                     THEN [it \in Items |->
                             IF it \in changed[s] THEN val[s][it] + 1 ELSE val[s][it]]
                     ELSE val[s]]

Select ==
    /\ pc = "select"
    /\ \E sources \in SUBSET Sources :
          /\ updates + Cardinality(sources) <= MaxUpdates
          /\ updates' = updates + Cardinality(sources)
          /\ tmp_fds' = {f \in all_fds : f <= maxfd /\ f \in ReadyFds(sources)}
          /\ tmp_fds' # {}
          /\ ProcessSources({s \in sources : SourceFd(s) \in tmp_fds'})
    /\ pc' = "accept_unix"
    /\ served' = {}
    /\ deleted' = 0
    /\ UNCHANGED <<chanvars, clientlist, fd, all_fds, maxfd, i, requests,
                   event_masks, backlog>>

-----------------------------------------------------------------------------
(* accept_unix_client(), accept_inet_client() *)

\* Fault: accept() failed, and its -1 is taken for a descriptor.
LowestFreeFdFault == NoFd

LowestFreeFd ==
    LET used == FixedFds \cup {fd[c] : c \in Clients}
    IN  Min((0..(Max(used) + 1)) \ used)

\* FD_SET() and maxfd: the fault leaves maxfd as it is.
RaisedFault(f) == maxfd
Raised(f) == IF f > maxfd THEN f ELSE maxfd

AcceptClient(listen) ==
    LET c == Head(backlog[listen])
    IN  /\ backlog' = [backlog EXCEPT ![listen] = Tail(@)]
        /\ clientlist' = Append(clientlist, c)
        /\ fd' = [fd EXCEPT ![c] = LowestFreeFd]
        /\ event_masks' = [event_masks EXCEPT ![c] = NoMask]
        /\ all_fds' = all_fds \cup {LowestFreeFd}
        /\ maxfd' = Raised(LowestFreeFd)
        /\ conn' = [conn EXCEPT ![c] = IF @ = "pending" THEN "open" ELSE @]

Accept(listen, from, to) ==
    /\ pc = from
    /\ IF listen \in tmp_fds
       THEN backlog[listen] # <<>> /\ AcceptClient(listen)
       ELSE UNCHANGED <<backlog, clientlist, fd, event_masks, all_fds, maxfd, conn>>
    /\ pc' = to
    /\ i' = 1
    /\ UNCHANGED <<c2s, s2c, tmp_fds, requests, events, val, updates, served, deleted>>

AcceptUnix == Accept(unix_sock_fd, "accept_unix", "accept_inet")
AcceptInet == Accept(tcpip_sock_fd, "accept_inet", "clients")

-----------------------------------------------------------------------------
(* The client loop *)

\* The end of the loop: the fault stops before the last client.
AllServedFault == i >= Len(clientlist)
AllServed == i > Len(clientlist)

\* write() blocks while the socket of a client that does not read is full.
Room(c, n) == conn[c] = "closed" \/ Len(s2c[c]) + n <= BufSize

\* The ++i of the loop: the fault starts over after a deletion.
AfterDeletionFault == 1
AfterDeletion == i + 1

calc_maxfd(clients) == Max(FixedFds \cup {fd[d] : d \in clients})

\* delete_client(): erasing an element moves those behind it forward, and the
\* loop's ++i then steps over the next one.
DeleteClient(c) ==
    /\ all_fds' = all_fds \ {fd[c]}
    /\ fd' = [fd EXCEPT ![c] = NoFd]
    /\ clientlist' = RemoveAt(clientlist, i)
    /\ maxfd' = calc_maxfd(Clients \ {c})
    /\ conn' = [conn EXCEPT ![c] = "none"]
    /\ c2s' = [c2s EXCEPT ![c] = <<>>]
    /\ s2c' = [s2c EXCEPT ![c] = <<>>]
    /\ deleted' = deleted + 1
    /\ i' = AfterDeletion
    /\ pc' = "clients"

\* RDSclient::Process(): read() returns the requests that have arrived, the end
\* of file, or - the client has closed its end - an error, which passes for no
\* data and loses the requests.
Process(c) ==
    \/ /\ conn[c] = "closed" /\ c2s[c] = <<>>
       /\ DeleteClient(c)
       /\ UNCHANGED requests
    \/ /\ c2s[c] # <<>>
       /\ s2c' = Write(s2c, c, EventMsgs(events, event_masks[c]))
       /\ requests' \in 1..Len(c2s[c])
       /\ pc' = "requests"
       /\ UNCHANGED <<conn, c2s, i, clientlist, fd, all_fds, maxfd, deleted>>
    \/ /\ conn[c] = "closed" /\ c2s[c] # <<>>
       /\ c2s' = [c2s EXCEPT ![c] = <<>>]
       /\ i' = i + 1
       /\ UNCHANGED <<conn, s2c, pc, requests, clientlist, fd, all_fds, maxfd, deleted>>

\* The client's turn: CheckEvents(), then, if select() reported its socket,
\* Process().  Writing events to a client that has closed its end fails, or
\* goes through unnoticed.
ServeClient ==
    /\ pc = "clients"
    /\ ~AllServed
    /\ LET c    == clientlist[i]
           msgs == EventMsgs(events, event_masks[c])
       IN  /\ Room(c, Len(msgs))
           /\ served' = served \cup {c}
           /\ \/ /\ msgs # <<>> /\ conn[c] = "closed"
                 /\ DeleteClient(c)
                 /\ UNCHANGED requests
              \/ /\ fd[c] \notin tmp_fds
                 /\ s2c' = Write(s2c, c, msgs)
                 /\ i' = i + 1
                 /\ UNCHANGED <<conn, c2s, pc, requests, clientlist, fd, all_fds, maxfd,
                                deleted>>
              \/ /\ fd[c] \in tmp_fds
                 /\ Process(c)
    /\ UNCHANGED <<tmp_fds, event_masks, events, val, backlog, updates>>

\* ExecCmd(): the reply, then - after a new mask - the events that are raised.
ReplyData(c, req) ==
    CASE req.cmd \in Items -> val[req.src][req.cmd]
      [] req.cmd = GEVNT   -> Code(event_masks[c][req.src])
      [] OTHER             -> OK

ExecCmd ==
    /\ pc = "requests"
    /\ LET c     == clientlist[i]
           req   == Head(c2s[c])
           masks == IF req.cmd = SEVNT
                    THEN [event_masks EXCEPT ![c][req.src] = req.mask]
                    ELSE event_masks
           out   == <<ReplyMsg(req, ReplyData(c, req))>>
                      \o IF req.cmd = SEVNT THEN EventMsgs(events, masks[c]) ELSE <<>>
       IN  /\ Room(c, Len(out))
           /\ c2s' = [c2s EXCEPT ![c] = Tail(@)]
           /\ event_masks' = masks
           /\ s2c' = Write(s2c, c, out)
    /\ requests' = requests - 1
    /\ IF requests = 1 THEN pc' = "clients" /\ i' = i + 1
                       ELSE UNCHANGED <<pc, i>>
    /\ UNCHANGED <<conn, clientlist, fd, all_fds, maxfd, tmp_fds, events, val,
                   backlog, updates, served, deleted>>

EndOfRound ==
    /\ pc = "clients"
    /\ AllServed
    /\ pc' = "select"
    /\ i' = 1
    /\ tmp_fds' = {}
    /\ UNCHANGED <<chanvars, clientlist, fd, all_fds, maxfd, requests, event_masks,
                   events, val, backlog, updates, served, deleted>>

\* The end of the daemon, by a signal at the test of the loop, or by a crash at
\* any step.  The kernel closes its sockets; what it had sent may be lost.
Crash ==
    /\ pc # "down"
    /\ pc' = "down"
    /\ conn' = [c \in Conns |-> IF conn[c] \in {"pending", "open"} THEN "reset" ELSE "none"]
    /\ c2s' = [c \in Conns |-> <<>>]
    /\ \E saved \in SUBSET Conns :
          s2c' = [c \in Conns |-> IF c \in saved THEN s2c[c] ELSE <<>>]
    /\ clientlist' = <<>>
    /\ fd' = [c \in Conns |-> NoFd]
    /\ all_fds' = FixedFds
    /\ maxfd' = Max(FixedFds)
    /\ tmp_fds' = {} /\ i' = 1 /\ requests' = 0
    /\ event_masks' = [c \in Conns |-> NoMask]
    /\ events' = [s \in Sources |-> {}]
    /\ backlog' = NoBacklog
    /\ served' = {} /\ deleted' = 0
    /\ UNCHANGED <<val, updates>>

WorkLoop == Select \/ AcceptUnix \/ AcceptInet \/ ServeClient \/ ExecCmd \/ EndOfRound

-----------------------------------------------------------------------------
(* What a client does to its connection *)

Connect(c) ==
    /\ pc # "down"
    /\ conn[c] = "none"
    /\ conn' = [conn EXCEPT ![c] = "pending"]
    /\ backlog' = [backlog EXCEPT ![ListenFd(c)] = Append(@, c)]
    /\ UNCHANGED <<c2s, s2c, pc, clientlist, fd, all_fds, maxfd, tmp_fds, i, requests,
                   event_masks, events, val, updates, served, deleted>>

Send(c, req) ==
    /\ conn[c] \in {"pending", "open"}
    /\ c2s' = [c2s EXCEPT ![c] = Append(@, req)]
    /\ UNCHANGED <<conn, s2c, srvvars>>

Receive(c) ==
    /\ conn[c] \in {"open", "reset"}
    /\ s2c[c] # <<>>
    /\ s2c' = [s2c EXCEPT ![c] = Tail(@)]
    /\ UNCHANGED <<conn, c2s, srvvars>>

Disconnect(c) ==
    /\ conn[c] \in {"pending", "open", "reset"}
    /\ conn' = [conn EXCEPT ![c] = IF @ = "reset" THEN "none" ELSE "closed"]
    /\ s2c' = [s2c EXCEPT ![c] = <<>>]
    /\ UNCHANGED <<c2s, srvvars>>

\* A client program that may do anything at any time.
ClientStep(c) ==
    \/ Connect(c)
    \/ \E req \in Requests : Len(c2s[c]) < MaxPending /\ Send(c, req)
    \/ Receive(c)
    \/ Disconnect(c)

Next == WorkLoop \/ \E c \in Conns : ClientStep(c)

Spec == Init /\ [][Next]_vars

\* The daemon keeps running, and every client reads what is sent to it.
FairSpec == Spec /\ WF_vars(WorkLoop) /\ \A c \in Conns : WF_vars(Receive(c))

-----------------------------------------------------------------------------
(* Properties of the main loop *)

\* The types of the variables.
TypeOK ==
    /\ ChannelTypeOK
    /\ pc \in {"select", "accept_unix", "accept_inet", "clients", "requests",
              "down"}
    /\ clientlist \in Seq(Conns)
    /\ fd \in [Conns -> Nat \cup {NoFd}]
    /\ all_fds \subseteq Nat
    /\ maxfd \in Nat
    /\ tmp_fds \subseteq Nat
    /\ i \in 1..(Len(clientlist) + 2)
    /\ requests \in Nat
    /\ event_masks \in [Conns -> [Sources -> SUBSET Items]]
    /\ events \in [Sources -> SUBSET Items]
    /\ val \in [Sources -> [Items -> Nat]]
    /\ backlog \in [{unix_sock_fd, tcpip_sock_fd} -> Seq(Conns)]
    /\ updates \in 0..MaxUpdates
    /\ served \subseteq Conns
    /\ deleted \in Nat

\* all_fds, maxfd and clientlist stay consistent while descriptors are closed
\* and reused: the clients have distinct descriptors, select() watches exactly
\* the listening sockets, the sources and the clients, and none is above maxfd.
DescriptorsConsistent ==
    /\ \A m, n \in 1..Len(clientlist) :
          fd[clientlist[m]] = fd[clientlist[n]] => m = n
    /\ all_fds = FixedFds \cup {fd[c] : c \in Clients}
    /\ \A f \in all_fds : f <= maxfd

\* The sockets are blocking (the code sets O_NONBLOCK with F_SETFD), so one
\* accept() or read() that finds nothing would stop the daemon: what select()
\* reported is still there when the loop gets to it, although connections
\* were accepted and deleted, and descriptors may have been reused, since.
NothingBlocksOnInput ==
    /\ pc = "accept_unix" /\ unix_sock_fd \in tmp_fds => backlog[unix_sock_fd] # <<>>
    /\ pc \in {"accept_unix", "accept_inet"} /\ tcpip_sock_fd \in tmp_fds
          => backlog[tcpip_sock_fd] # <<>>
    /\ pc = "clients" =>
          \A n \in i..Len(clientlist) :
             fd[clientlist[n]] \in tmp_fds => ClientReadable(clientlist[n])

\* The daemon implements RdsService: what it does with the index of a list that
\* shrinks, with descriptors that are reused, and with what select() reported, no
\* client sees but for being passed over.  None has two turns in a round, and
\* would get every event twice; as many are passed over as have been removed.
Service == INSTANCE RdsService WITH
    accepted <- Clients,
    masks    <- [c \in Conns |-> IF c \in Clients THEN event_masks[c] ELSE NoMask],
    told     <- served,
    gone     <- deleted

ImplementsService == Service!Spec

\* The comment in WorkLoop(): every client is checked for "events the client
\* is waiting for", which the next round clears.
EveryClientGetsItsEvents ==
    pc = "select" => \A c \in Clients \ served : EventMsgs(events, event_masks[c]) = <<>>

\* A request is answered, and a connection that its client has closed is noticed
\* and its descriptor freed, although deletions make the loop pass over clients
\* and other clients connect and close all the time: only deletions of clients
\* that are older can delay a client, and new ones are younger.
EveryClientIsServed ==
    \A c \in Conns :
        /\ c2s[c] # <<>> ~> (c2s[c] = <<>> \/ conn[c] = "closed")
        /\ conn[c] = "closed" ~> conn[c] = "none"

=============================================================================
