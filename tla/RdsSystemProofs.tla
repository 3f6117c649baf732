-------------------------- MODULE RdsSystemProofs ---------------------------
(***************************************************************************)
(* Proofs about RdsSystem, for a daemon with one source and any number of  *)
(* clients: the library's table of commands knows what is outstanding,     *)
(* whatever the calls, the events, the timeouts and the other clients.     *)
(***************************************************************************)
EXTENDS RdsSystem, RdsServerProofs

-----------------------------------------------------------------------------
(* Where a command is on its way: in A, the requests to the daemon, in B,   *)
(* the messages of the daemon, or in C, those that have been read.          *)

Somewhere(A, B, C, k) ==
    \/ \E n \in 1..Len(A) : Asks(A[n], k)
    \/ \E n \in 1..Len(B) : Answers(B[n], k)
    \/ \E n \in 1..Len(C) : Answers(C[n], k)

\* At one place at most.
Once(A, B, C, k) ==
    /\ \A m, n \in 1..Len(A) : Asks(A[m], k) /\ Asks(A[n], k) => m = n
    /\ \A m, n \in 1..Len(B) : Answers(B[m], k) /\ Answers(B[n], k) => m = n
    /\ \A m, n \in 1..Len(C) : Answers(C[m], k) /\ Answers(C[n], k) => m = n
    /\ \A m \in 1..Len(A), n \in 1..Len(B) : ~ (Asks(A[m], k) /\ Answers(B[n], k))
    /\ \A m \in 1..Len(A), n \in 1..Len(C) : ~ (Asks(A[m], k) /\ Answers(C[n], k))
    /\ \A m \in 1..Len(B), n \in 1..Len(C) : ~ (Answers(B[m], k) /\ Answers(C[n], k))

\* A sequence and one behind it.
LEMMA ConcatElements ==
    ASSUME NEW S, NEW s \in Seq(S), NEW t \in Seq(S)
    PROVE  /\ s \o t \in Seq(S)
           /\ Len(s) \in Nat /\ Len(t) \in Nat /\ Len(s \o t) = Len(s) + Len(t)
           /\ \A n \in 1..Len(s) : (s \o t)[n] = s[n]
           /\ \A n \in (Len(s) + 1)..(Len(s) + Len(t)) :
                 (s \o t)[n] = t[n - Len(s)] /\ n - Len(s) \in 1..Len(t)
           /\ \A n \in 1..Len(t) : (s \o t)[Len(s) + n] = t[n]
  BY ConcatProperties

\* A reply and events behind other messages.
LEMMA ReplyThenEvents ==
    ASSUME NEW y \in Seq(Message), NEW x \in Message, NEW z \in Seq(Message)
    PROVE  y \o (<<x>> \o z) = Append(y, x) \o z
  <1> DEFINE o == <<x>>
  <1>1. o \in Seq(Message) /\ Append(y, x) = y \o o
    OBVIOUS
  <1> HIDE DEF o
  <1>2. (y \o o) \o z = y \o (o \o z)
    BY <1>1, ConcatAssociative
  <1> QED BY <1>1, <1>2 DEF o

\* A sequence is not its own tail.
LEMMA TailDiffers ==
    ASSUME NEW S, NEW s \in Seq(S), Len(s) # 0
    PROVE  Tail(s) # s
  <1>1. Len(s) \in Nat /\ Len(Tail(s)) = Len(s) - 1
    OBVIOUS
  <1>2. ASSUME Tail(s) = s PROVE FALSE
    <2>1. Len(s) = Len(s) - 1
      BY <1>1, <1>2
    <2> QED BY <1>1, <2>1
  <1> QED BY <1>2

\* Requests for other commands, and events, change nothing.
LEMMA OthersOnTheWay ==
    ASSUME NEW A \in Seq(Request), NEW B \in Seq(Message), NEW C \in Seq(Message), NEW k,
           NEW R \in Seq(Request), \A n \in 1..Len(R) : ~ Asks(R[n], k),
           NEW E \in Seq(Message), \A n \in 1..Len(E) : ~ Answers(E[n], k)
    PROVE  /\ Somewhere(A \o R, B \o E, C, k) <=> Somewhere(A, B, C, k)
           /\ Once(A, B, C, k) => Once(A \o R, B \o E, C, k)
  <1>1. \A n \in 1..Len(A \o R) : Asks((A \o R)[n], k) => n \in 1..Len(A) /\ Asks(A[n], k)
    BY ConcatElements
  <1>2. \A n \in 1..Len(B \o E) : Answers((B \o E)[n], k) => n \in 1..Len(B) /\ Answers(B[n], k)
    BY ConcatElements
  <1>3. \A n \in 1..Len(A) : n \in 1..Len(A \o R) /\ (A \o R)[n] = A[n]
    BY ConcatElements
  <1>4. \A n \in 1..Len(B) : n \in 1..Len(B \o E) /\ (B \o E)[n] = B[n]
    BY ConcatElements
  <1>5. Somewhere(A \o R, B \o E, C, k) <=> Somewhere(A, B, C, k)
    BY <1>1, <1>2, <1>3, <1>4 DEF Somewhere
  <1>6. Once(A, B, C, k) => Once(A \o R, B \o E, C, k)
    BY <1>1, <1>2 DEF Once
  <1> QED BY <1>5, <1>6

\* A request is sent for a command that is not on its way.
LEMMA RequestSent ==
    ASSUME NEW A \in Seq(Request), NEW B \in Seq(Message), NEW C \in Seq(Message), NEW k,
           ~ Somewhere(A, B, C, k),
           NEW R \in Seq(Request), NEW j \in 1..Len(R),
           \A n \in 1..Len(R) : Asks(R[n], k) <=> n = j
    PROVE  Somewhere(A \o R, B, C, k) /\ Once(A \o R, B, C, k)
  <1>1. \A n \in 1..Len(A \o R) : Asks((A \o R)[n], k) => n = Len(A) + j
    BY ConcatElements DEF Somewhere
  <1>2. Len(A) + j \in 1..Len(A \o R) /\ Asks((A \o R)[Len(A) + j], k)
    BY ConcatElements
  <1>3. Somewhere(A \o R, B, C, k)
    BY <1>2 DEF Somewhere
  <1>4. Once(A \o R, B, C, k)
    BY <1>1 DEF Once, Somewhere
  <1> QED BY <1>3, <1>4

\* The daemon answers the request that has been waiting longest.
LEMMA RequestAnswered ==
    ASSUME NEW A \in Seq(Request), NEW B \in Seq(Message), NEW C \in Seq(Message), NEW k,
           A # <<>>,
           NEW r \in Message, Answers(r, k) <=> Asks(Head(A), k)
    PROVE  /\ Somewhere(Tail(A), Append(B, r), C, k) <=> Somewhere(A, B, C, k)
           /\ Once(A, B, C, k) => Once(Tail(A), Append(B, r), C, k)
  <1> DEFINE A2 == Tail(A)
             B2 == Append(B, r)
  <1>1. /\ Len(A) \in Nat /\ Len(A) # 0 /\ Head(A) = A[1] /\ Len(A2) = Len(A) - 1
        /\ 1 \in 1..Len(A)
        /\ \A n \in 1..Len(A2) : n + 1 \in 1..Len(A) /\ A2[n] = A[n + 1]
        /\ \A n \in 1..Len(A) : n # 1 => n - 1 \in 1..Len(A2) /\ A2[n - 1] = A[n]
    OBVIOUS
  <1>2. /\ Len(B) \in Nat /\ Len(B2) = Len(B) + 1 /\ B2[Len(B) + 1] = r
        /\ \A n \in 1..Len(B) : B2[n] = B[n] /\ n \in 1..Len(B2)
        /\ Len(B) + 1 \in 1..Len(B2)
        /\ \A n \in 1..Len(B2) : n # Len(B) + 1 => n \in 1..Len(B)
    BY AppendProperties
  <1> HIDE DEF A2, B2
  <1>3. Somewhere(A2, B2, C, k) => Somewhere(A, B, C, k)
    BY <1>1, <1>2 DEF Somewhere
  <1>4. Somewhere(A, B, C, k) => Somewhere(A2, B2, C, k)
    BY <1>1, <1>2 DEF Somewhere
  <1>5. ASSUME Once(A, B, C, k) PROVE Once(A2, B2, C, k)
    <2>1. ASSUME NEW m \in 1..Len(A2), NEW n \in 1..Len(A2), Asks(A2[m], k), Asks(A2[n], k)
          PROVE  m = n
      <3>1. /\ m + 1 \in 1..Len(A) /\ n + 1 \in 1..Len(A)
            /\ Asks(A[m + 1], k) /\ Asks(A[n + 1], k)
        BY <1>1, <2>1
      <3>2. m + 1 = n + 1
        BY <1>5, <3>1 DEF Once
      <3> QED BY <3>2
    <2>2. ASSUME NEW m \in 1..Len(B2), NEW n \in 1..Len(B2), Answers(B2[m], k), Answers(B2[n], k)
          PROVE  m = n
      BY <1>1, <1>2, <1>5, <2>2 DEF Once
    <2>3. ASSUME NEW m \in 1..Len(A2), NEW n \in 1..Len(B2), Asks(A2[m], k), Answers(B2[n], k)
          PROVE  FALSE
      <3>1. m + 1 \in 1..Len(A) /\ Asks(A[m + 1], k) /\ m + 1 # 1
        BY <1>1, <2>3
      <3>2. CASE n = Len(B) + 1
        <4>1. Asks(A[1], k)
          BY <1>1, <1>2, <2>3, <3>2
        <4> QED BY <1>1, <1>5, <3>1, <4>1 DEF Once
      <3>3. CASE n # Len(B) + 1
        <4>1. n \in 1..Len(B) /\ Answers(B[n], k)
          BY <1>2, <2>3, <3>3
        <4> QED BY <1>5, <3>1, <4>1 DEF Once
      <3> QED BY <3>2, <3>3
    <2>4. ASSUME NEW m \in 1..Len(B2), NEW n \in 1..Len(C), Answers(B2[m], k), Answers(C[n], k)
          PROVE  FALSE
      <3>1. CASE m = Len(B) + 1
        <4>1. Asks(A[1], k) /\ 1 \in 1..Len(A)
          BY <1>1, <1>2, <2>4, <3>1
        <4> QED BY <1>5, <2>4, <4>1 DEF Once
      <3>2. CASE m # Len(B) + 1
        <4>1. Answers(B[m], k) /\ m \in 1..Len(B)
          BY <1>2, <2>4, <3>2
        <4> QED BY <1>5, <2>4, <4>1 DEF Once
      <3> QED BY <3>1, <3>2
    <2>5. \A m \in 1..Len(A2), n \in 1..Len(C) : ~ (Asks(A2[m], k) /\ Answers(C[n], k))
      BY <1>1, <1>5 DEF Once
    <2> QED BY <1>5, <2>1, <2>2, <2>3, <2>4, <2>5 DEF Once
  <1> QED BY <1>3, <1>4, <1>5 DEF A2, B2

\* Messages are read: nothing has been left from before.
LEMMA MessagesRead ==
    ASSUME NEW A \in Seq(Request), NEW B \in Seq(Message), NEW k, NEW j \in 0..Len(B)
    PROVE  /\ Somewhere(A, SubSeq(B, j + 1, Len(B)), SubSeq(B, 1, j), k) <=> Somewhere(A, B, <<>>, k)
           /\ Once(A, B, <<>>, k) => Once(A, SubSeq(B, j + 1, Len(B)), SubSeq(B, 1, j), k)
  <1> DEFINE B2 == SubSeq(B, j + 1, Len(B))
             C2 == SubSeq(B, 1, j)
  <1>1. /\ Len(B) \in Nat /\ Len(B2) = Len(B) - j /\ Len(C2) = j /\ Len(<<>>) = 0
        /\ \A n \in 1..Len(B2) : B2[n] = B[n + j] /\ n + j \in 1..Len(B)
        /\ \A n \in 1..Len(C2) : C2[n] = B[n] /\ n \in 1..Len(B)
        /\ \A n \in 1..Len(B) : n > j => n - j \in 1..Len(B2) /\ B2[n - j] = B[n]
        /\ \A n \in 1..Len(B) : n <= j => n \in 1..Len(C2) /\ C2[n] = B[n]
    BY SubSeqProperties
  <1> HIDE DEF B2, C2
  <1>2. Somewhere(A, B2, C2, k) => Somewhere(A, B, <<>>, k)
    BY <1>1 DEF Somewhere
  <1>3. Somewhere(A, B, <<>>, k) => Somewhere(A, B2, C2, k)
    BY <1>1 DEF Somewhere
  <1>4. Once(A, B, <<>>, k) => Once(A, B2, C2, k)
    BY <1>1 DEF Once
  <1> QED BY <1>2, <1>3, <1>4 DEF B2, C2

\* A message is scanned: its reply has arrived.
LEMMA MessageScanned ==
    ASSUME NEW A \in Seq(Request), NEW B \in Seq(Message), NEW C \in Seq(Message), NEW k,
           C # <<>>, Once(A, B, C, k)
    PROVE  /\ Once(A, B, Tail(C), k)
           /\ Answers(Head(C), k) => Somewhere(A, B, C, k) /\ ~ Somewhere(A, B, Tail(C), k)
           /\ ~ Answers(Head(C), k) => (Somewhere(A, B, Tail(C), k) <=> Somewhere(A, B, C, k))
  <1> DEFINE C2 == Tail(C)
  <1>1. /\ Len(C) \in Nat /\ Len(C) # 0 /\ Head(C) = C[1] /\ Len(C2) = Len(C) - 1
        /\ 1 \in 1..Len(C)
        /\ \A n \in 1..Len(C2) : n + 1 \in 1..Len(C) /\ n + 1 # 1 /\ C2[n] = C[n + 1]
        /\ \A n \in 1..Len(C) : n # 1 => n - 1 \in 1..Len(C2) /\ C2[n - 1] = C[n]
    OBVIOUS
  <1> HIDE DEF C2
  <1>2. Once(A, B, C2, k)
    <2>1. \A n \in 1..Len(C2) : Answers(C2[n], k) => n + 1 \in 1..Len(C) /\ Answers(C[n + 1], k)
      BY <1>1
    <2>2. \A m, n \in 1..Len(C2) : m + 1 = n + 1 => m = n
      BY <1>1
    <2>3. \A m, n \in 1..Len(C2) : Answers(C2[m], k) /\ Answers(C2[n], k) => m = n
      BY <2>1, <2>2 DEF Once
    <2> QED BY <2>1, <2>3 DEF Once
  <1>3. ASSUME Answers(Head(C), k) PROVE Somewhere(A, B, C, k) /\ ~ Somewhere(A, B, C2, k)
    BY <1>1, <1>3 DEF Somewhere, Once
  <1>4. ASSUME ~ Answers(Head(C), k) PROVE Somewhere(A, B, C2, k) <=> Somewhere(A, B, C, k)
    BY <1>1, <1>4 DEF Somewhere
  <1> QED BY <1>2, <1>3, <1>4 DEF C2

-----------------------------------------------------------------------------
(* What the daemon does to a connection whose client has not closed it *)

\* It sends events, to a client that it has accepted.
ToldEvents(c) ==
    /\ c2s'[c] = c2s[c]
    /\ conn[c] # "open" => s2c'[c] = s2c[c]
    /\ \E E \in Seq(EventMessage) : s2c'[c] = s2c[c] \o E

\* It answers a request, and sends the events of a new mask.
AnsweredRequest(c) ==
    /\ conn[c] = "open"
    /\ c2s[c] # <<>>
    /\ c2s'[c] = Tail(c2s[c])
    /\ \E r \in Message, E \in Seq(EventMessage) :
          /\ r.kind = "reply" /\ r.src = Head(c2s[c]).src /\ r.cmd = Head(c2s[c]).cmd
          /\ s2c'[c] = Append(s2c[c], r) \o E

\* The mask changes with the request for it; a new client has none.
MaskAfter(c) ==
    LET req == Head(c2s[c])
    IN  event_masks'[c] = IF c2s'[c] # c2s[c] /\ req.cmd = SEVNT
                          THEN [event_masks[c] EXCEPT ![req.src] = req.mask]
                          ELSE event_masks[c]

\* The steps that do not write.
LEMMA NothingTold ==
    ASSUME IInv, NEW c \in Conns, UNCHANGED <<c2s, s2c>>
    PROVE  ToldEvents(c)
  <1>1. <<>> \in Seq(EventMessage)
    OBVIOUS
  <1>2. s2c[c] \in Seq(Message)
    BY DEF IInv, TypeOK, ChannelTypeOK
  <1>3. s2c[c] \o <<>> = s2c[c]
    BY <1>2
  <1> QED BY <1>1, <1>3 DEF ToldEvents

\* accept(): the connection that is accepted is open then.
LEMMA AcceptOnMe ==
    ASSUME IInv, AcceptUnix \/ AcceptInet,
           NEW c \in Conns, conn[c] \in {"none", "pending", "open"}
    PROVE  /\ ToldEvents(c)
           /\ conn'[c] = conn[c] \/ (conn[c] = "pending" /\ conn'[c] = "open")
           /\ conn[c] = "open" => MaskAfter(c)
  <1> USE DEF IInv
  <1>1. PICK l \in ListenFds : \E from, to : Accept(l, from, to)
    BY DEF AcceptUnix, AcceptInet, ListenFds
  <1>2. UNCHANGED <<c2s, s2c>>
    BY <1>1 DEF Accept
  <1>3. ToldEvents(c)
    BY <1>2, NothingTold
  <1>4. CASE l \in tmp_fds
    <2> PICK d \in Conns : d = Head(backlog[l])
      BY <1>1, <1>4 DEF Accept, TypeOK, ListenFds
    <2>1. /\ conn' = [conn EXCEPT ![d] = IF conn[d] = "pending" THEN "open" ELSE conn[d]]
          /\ event_masks' = [event_masks EXCEPT ![d] = NoMask]
      BY <1>1, <1>4 DEF Accept, AcceptClient
    <2>2. conn[d] \in {"pending", "closed"}
      <3>1. backlog[l] \in Seq(Conns) /\ backlog[l] # <<>>
        BY <1>1, <1>4 DEF Accept, TypeOK, ListenFds
      <3>2. 1 \in 1..Len(backlog[l]) /\ backlog[l][1] = d
        BY <3>1
      <3> QED BY <3>2 DEF Queued
    <2>3. conn'[c] = conn[c] \/ (conn[c] = "pending" /\ conn'[c] = "open")
      BY <2>1 DEF TypeOK, ChannelTypeOK
    <2>4. conn[c] = "open" => event_masks'[c] = event_masks[c]
      BY <2>1, <2>2 DEF TypeOK
    <2> QED BY <1>2, <1>3, <2>3, <2>4 DEF MaskAfter
  <1>5. CASE l \notin tmp_fds
    BY <1>1, <1>2, <1>3, <1>5 DEF Accept, MaskAfter
  <1> QED BY <1>4, <1>5

\* The turn of a client: its own connection gets the events.
LEMMA ServeOnMe ==
    ASSUME IInv, ServeClient,
           NEW c \in Conns, conn[c] \in {"none", "pending", "open"}
    PROVE  /\ ToldEvents(c)
           /\ conn'[c] = conn[c]
           /\ MaskAfter(c)
  <1> USE DEF IInv
  <1>1. i \in Places /\ clientlist[i] \in Conns /\ conn[clientlist[i]] \in {"open", "closed"}
    BY DEF ServeClient, AllServed, TypeOK, Places, Listed
  <1> PICK d \in Conns : d = clientlist[i]
    BY <1>1
  <1> DEFINE msgs == EventMsgs(events, event_masks[d])
  <1>2. conn \in [Conns -> ConnState] /\ s2c \in [Conns -> Seq(Message)] /\ c2s \in [Conns -> Seq(Request)]
    BY DEF TypeOK, ChannelTypeOK
  <1>3. event_masks' = event_masks
    BY DEF ServeClient
  <1>4. \/ /\ DeleteClient(d) /\ conn[d] = "closed"
        \/ /\ s2c' = Write(s2c, d, msgs)
           /\ UNCHANGED <<conn, c2s>>
        \/ /\ conn[d] = "closed"
           /\ c2s' = [c2s EXCEPT ![d] = <<>>]
           /\ UNCHANGED <<conn, s2c>>
    BY DEF ServeClient, Process
  <1>5. CASE conn[d] = "closed"
    <2>1. c # d
      BY <1>5
    <2>2. conn'[c] = conn[c] /\ c2s'[c] = c2s[c] /\ s2c'[c] = s2c[c]
      BY <1>2, <1>4, <2>1 DEF DeleteClient, Write
    <2>3. <<>> \in Seq(EventMessage) /\ s2c[c] \o <<>> = s2c[c]
      BY <1>2
    <2> QED BY <1>3, <2>2, <2>3 DEF ToldEvents, MaskAfter
  <1>6. CASE conn[d] # "closed"
    <2>1. s2c' = [s2c EXCEPT ![d] = s2c[d] \o msgs] /\ UNCHANGED <<conn, c2s>>
      BY <1>4, <1>6 DEF Write
    <2>2. msgs \in Seq(EventMessage)
      BY EventMsgsType DEF TypeOK
    <2>3. \E E \in Seq(EventMessage) : s2c'[c] = s2c[c] \o E
      <3>1. CASE c = d
        <4> HIDE DEF msgs
        <4> QED BY <1>2, <2>1, <2>2, <3>1
      <3>2. CASE c # d
        <4>1. <<>> \in Seq(EventMessage) /\ s2c[c] \o <<>> = s2c[c]
          BY <1>2
        <4>2. s2c'[c] = s2c[c]
          BY <1>2, <2>1, <3>2
        <4> QED BY <4>1, <4>2
      <3> QED BY <3>1, <3>2
    <2>4. conn[c] # "open" => s2c'[c] = s2c[c]
      BY <1>1, <1>2, <1>6, <2>1
    <2> QED BY <1>3, <2>1, <2>3, <2>4 DEF ToldEvents, MaskAfter
  <1> QED BY <1>5, <1>6

\* A request is executed: one of this connection, or of another.
LEMMA ExecOnMe ==
    ASSUME IInv, ExecCmd,
           NEW c \in Conns, conn[c] \in {"none", "pending", "open"}
    PROVE  /\ ToldEvents(c) \/ AnsweredRequest(c)
           /\ conn'[c] = conn[c]
           /\ MaskAfter(c)
  <1> USE DEF IInv
  <1>1. i \in Places /\ clientlist[i] \in Conns /\ conn[clientlist[i]] \in {"open", "closed"}
        /\ requests \in 1..Len(c2s[clientlist[i]])
    <2>1. i \in Places /\ requests \in 1..Len(c2s[clientlist[i]])
      BY DEF ExecCmd, Ready
    <2>2. \A n \in Places : clientlist[n] \in Conns
      BY DEF TypeOK, Places
    <2>3. \A n \in Places : conn[clientlist[n]] \in {"open", "closed"}
      BY DEF Listed
    <2> QED BY <2>1, <2>2, <2>3
  <1> PICK d \in Conns : d = clientlist[i]
    BY <1>1
  <1>2. conn \in [Conns -> ConnState] /\ s2c \in [Conns -> Seq(Message)] /\ c2s \in [Conns -> Seq(Request)]
    BY DEF TypeOK, ChannelTypeOK
  <1> DEFINE req   == Head(c2s[d])
             masks == IF req.cmd = SEVNT
                      THEN [event_masks EXCEPT ![d][req.src] = req.mask]
                      ELSE event_masks
             r     == ReplyMsg(req, ReplyData(d, req))
             E     == IF req.cmd = SEVNT THEN EventMsgs(events, masks[d]) ELSE <<>>
  <1>3. /\ c2s' = [c2s EXCEPT ![d] = Tail(c2s[d])]
        /\ event_masks' = masks
        /\ s2c' = Write(s2c, d, <<r>> \o E)
        /\ conn' = conn
    BY DEF ExecCmd
  <1>4. CASE c # d
    <2>1. c2s'[c] = c2s[c] /\ s2c'[c] = s2c[c]
      BY <1>2, <1>3, <1>4 DEF Write
    <2>2. <<>> \in Seq(EventMessage) /\ s2c[c] \o <<>> = s2c[c]
      BY <1>2
    <2>3. event_masks'[c] = event_masks[c]
      BY <1>3, <1>4 DEF TypeOK
    <2> QED BY <1>3, <2>1, <2>2, <2>3 DEF ToldEvents, MaskAfter
  <1>5. CASE c = d
    <2>1. conn[c] = "open"
      BY <1>1, <1>5
    <2>2. c2s[c] # <<>> /\ req \in Request /\ Tail(c2s[c]) # c2s[c]
      <3>1. Len(c2s[c]) \in Nat \ {0} /\ c2s[c] \in Seq(Request)
        BY <1>1, <1>2, <1>5
      <3>2. Len(Tail(c2s[c])) = Len(c2s[c]) - 1
        BY <3>1
      <3>3. Head(c2s[c]) \in Request
        BY <3>1
      <3>4. Tail(c2s[c]) # c2s[c]
        BY <3>1, TailDiffers
      <3> QED BY <1>5, <3>1, <3>3, <3>4
    <2>3. r \in Message /\ r.kind = "reply" /\ r.src = req.src /\ r.cmd = req.cmd
      BY <2>2, ReplyType DEF ReplyMsg
    <2>4. /\ masks[d] \in [Sources -> SUBSET Items]
          /\ masks[d] = IF req.cmd = SEVNT
                        THEN [event_masks[d] EXCEPT ![req.src] = req.mask] ELSE event_masks[d]
      BY <2>2, RequestKinds DEF TypeOK
    <2>5. E \in Seq(EventMessage)
      <3>1. events \in [Sources -> SUBSET Items]
        BY DEF TypeOK
      <3>2. EventMsgs(events, masks[d]) \in Seq(EventMessage)
        <4> HIDE DEF masks
        <4> QED BY <2>4, <3>1, EventMsgsType
      <3>3. <<>> \in Seq(EventMessage)
        OBVIOUS
      <3> HIDE DEF masks
      <3> QED BY <3>2, <3>3
    <2>6. s2c'[c] = Append(s2c[c], r) \o E
      <3>1. s2c' = [s2c EXCEPT ![d] = s2c[d] \o (<<r>> \o E)]
        <4> HIDE DEF r, E
        <4> QED BY <1>3, <1>5, <2>1 DEF Write
      <3>2. EventMessage \subseteq Message
        BY DEF EventMessage, Message
      <3> HIDE DEF req, masks, r, E
      <3>3. E \in Seq(Message) /\ s2c[d] \in Seq(Message)
        BY <1>2, <2>5, <3>2
      <3>4. s2c[d] \o (<<r>> \o E) = Append(s2c[d], r) \o E
        BY <2>3, <3>3, ReplyThenEvents
      <3> QED BY <1>2, <1>5, <3>1, <3>4
    <2>7. AnsweredRequest(c)
      <3> HIDE DEF r, E, masks
      <3> QED BY <1>2, <1>3, <1>5, <2>1, <2>2, <2>3, <2>5, <2>6 DEF AnsweredRequest, req
    <2>8. MaskAfter(c)
      <3>1. c2s'[c] # c2s[c]
        BY <1>2, <1>3, <1>5, <2>2
      <3>2. event_masks'[c] = masks[d]
        BY <1>3, <1>5
      <3> QED BY <1>5, <2>4, <3>1, <3>2 DEF MaskAfter
    <2> QED BY <1>3, <2>7, <2>8
  <1> QED BY <1>4, <1>5

\* The daemon.
LEMMA DaemonOnMe ==
    ASSUME IInv, WorkLoop,
           NEW c \in Conns, conn[c] \in {"none", "pending", "open"}
    PROVE  /\ ToldEvents(c) \/ AnsweredRequest(c)
           /\ conn'[c] = conn[c] \/ (conn[c] = "pending" /\ conn'[c] = "open")
           /\ conn[c] = "open" => MaskAfter(c)
  <1>1. CASE Select \/ EndOfRound
    <2>1. UNCHANGED <<conn, c2s, s2c, event_masks>>
      BY <1>1 DEF Select, EndOfRound, chanvars
    <2>2. ToldEvents(c)
      BY <2>1, NothingTold
    <2> QED BY <2>1, <2>2 DEF MaskAfter
  <1>2. CASE AcceptUnix \/ AcceptInet
    BY <1>2, AcceptOnMe
  <1>3. CASE ServeClient
    BY <1>3, ServeOnMe
  <1>4. CASE ExecCmd
    BY <1>4, ExecOnMe
  <1> QED BY <1>1, <1>2, <1>3, <1>4 DEF WorkLoop

-----------------------------------------------------------------------------
(* The inductive invariant *)

\* The library's own state.
TableTypeOK ==
    /\ sock_fd \in {"none", "open", "stale"}
    /\ status \in [Keys -> {"REQUEST_NEEDED", "WAITING", "VALID"}]
    /\ todo \in Seq(Message)
    /\ read_str = Empty \/ read_str.num \in Sources
    /\ cpc \in {"idle", "wait", "scan"}
    /\ cpc # "idle" => call \in Call /\ (call.fn = "set" => call.src \in Sources /\ call.cmd = SEVNT)

\* Messages are held while they are scanned, and a call goes with a connection.
\* Before Open() nothing has been asked for.
CallsInOrder ==
    /\ cpc # "scan" => todo = <<>>
    /\ sock_fd # "open" => cpc = "idle"
    /\ sock_fd = "none" => /\ conn[me] = "none" /\ c2s[me] = <<>> /\ s2c[me] = <<>>
                           /\ \A k \in Keys : status[k] # "WAITING"
    /\ sock_fd = "open" => conn[me] \in {"pending", "open"}

\* The table knows what is on its way, and nothing is there twice.
Tracked ==
    sock_fd = "open" =>
        \A k \in Keys : k[2] # ESRC =>
            /\ Once(c2s[me], s2c[me], todo, k)
            /\ Somewhere(c2s[me], s2c[me], todo, k) <=> status[k] = "WAITING"

\* While no call gives up, an event mask is on its way only during the call that
\* sets it; and when it no longer is, the daemon has it.
MaskSent(s) == \E n \in 1..Len(c2s[me]) : Asks(c2s[me][n], <<s, SEVNT>>)

MaskUnderWay ==
    ~ delayed =>
        /\ \A s \in Sources : status[<<s, SEVNT>>] = "WAITING" =>
              cpc # "idle" /\ call.fn = "set" /\ call.src = s
        /\ cpc # "idle" /\ call.fn = "set" =>
              /\ \A n \in 1..Len(c2s[me]) :
                    Asks(c2s[me][n], <<call.src, SEVNT>>) => c2s[me][n].mask = call.mask
              /\ ~ MaskSent(call.src) =>
                    conn[me] = "open" /\ event_masks[me][call.src] = call.mask
        /\ result.fn = "set" /\ result.ret = "RDS_OK" =>
              /\ cpc = "idle" /\ sock_fd = "open" /\ conn[me] = "open"
              /\ result.src \in Sources
              /\ event_masks[me][result.src] = result.mask

SysInv ==
    /\ IInv
    /\ TableTypeOK
    /\ CallsInOrder
    /\ Tracked
    /\ MaskUnderWay

-----------------------------------------------------------------------------
(* The steps of the daemon and of other clients *)

\* Events are no replies.
LEMMA EventsSent ==
    ASSUME NEW A \in Seq(Request), NEW B \in Seq(Message), NEW C \in Seq(Message), NEW k,
           NEW E \in Seq(EventMessage)
    PROVE  /\ E \in Seq(Message) /\ B \o E \in Seq(Message)
           /\ Somewhere(A, B \o E, C, k) <=> Somewhere(A, B, C, k)
           /\ Once(A, B, C, k) => Once(A, B \o E, C, k)
  <1>1. EventMessage \subseteq Message
    BY DEF EventMessage, Message
  <1>2. E \in Seq(Message)
    BY <1>1
  <1>3. \A n \in 1..Len(E) : ~ Answers(E[n], k)
    <2>1. ASSUME NEW n \in 1..Len(E) PROVE E[n].kind = "event"
      <3>1. E[n] \in EventMessage
        OBVIOUS
      <3> QED BY <3>1 DEF EventMessage
    <2> QED BY <2>1 DEF Answers
  <1>0. <<>> \in Seq(Request)
    OBVIOUS
  <1> PICK R \in Seq(Request) : R = <<>>
    BY <1>0
  <1>4. A \o R = A /\ \A n \in 1..Len(R) : ~ Asks(R[n], k)
    OBVIOUS
  <1>5. B \o E \in Seq(Message)
    BY <1>2
  <1>6. /\ Somewhere(A \o R, B \o E, C, k) <=> Somewhere(A, B, C, k)
        /\ Once(A, B, C, k) => Once(A \o R, B \o E, C, k)
    BY <1>2, <1>3, <1>4, OthersOnTheWay
  <1> QED BY <1>2, <1>4, <1>5, <1>6

\* A reply answers what the request asked.
LEMMA AnswerSent ==
    ASSUME NEW A \in Seq(Request), NEW B \in Seq(Message), NEW C \in Seq(Message), NEW k,
           A # <<>>, NEW E \in Seq(EventMessage),
           NEW r \in Message, r.kind = "reply", r.src = Head(A).src, r.cmd = Head(A).cmd
    PROVE  /\ Somewhere(Tail(A), Append(B, r) \o E, C, k) <=> Somewhere(A, B, C, k)
           /\ Once(A, B, C, k) => Once(Tail(A), Append(B, r) \o E, C, k)
  <1>1. Answers(r, k) <=> Asks(Head(A), k)
    BY DEF Answers, Asks
  <1>0. Tail(A) \in Seq(Request) /\ Append(B, r) \in Seq(Message)
    OBVIOUS
  <1> PICK A2 \in Seq(Request) : A2 = Tail(A)
    BY <1>0
  <1> PICK B2 \in Seq(Message) : B2 = Append(B, r)
    BY <1>0
  <1>2. /\ Somewhere(A2, B2, C, k) <=> Somewhere(A, B, C, k)
        /\ Once(A, B, C, k) => Once(A2, B2, C, k)
    BY <1>1, RequestAnswered
  <1>3. /\ Somewhere(A2, B2 \o E, C, k) <=> Somewhere(A2, B2, C, k)
        /\ Once(A2, B2, C, k) => Once(A2, B2 \o E, C, k)
    BY EventsSent
  <1> QED BY <1>2, <1>3

\* The queues of the connection, as sequences.
LEMMA MyQueues ==
    ASSUME IInv
    PROVE  /\ conn[me] \in ConnState
           /\ c2s[me] \in Seq(Request) /\ s2c[me] \in Seq(Message)
           /\ event_masks[me] \in [Sources -> SUBSET Items]
  <1>1. me \in Conns
    BY MeAssumption
  <1> QED BY <1>1 DEF IInv, TypeOK, ChannelTypeOK

\* What happens elsewhere, and accept(), leave the connection as it is.
LEMMA QuietStep ==
    ASSUME SysInv, IInv', UNCHANGED cnnvars,
           c2s'[me] = c2s[me], s2c'[me] = s2c[me],
           conn'[me] = conn[me] \/ (conn[me] = "pending" /\ conn'[me] = "open"),
           conn[me] = "open" => event_masks'[me] = event_masks[me]
    PROVE  SysInv'
  <1> USE DEF SysInv, cnnvars
  <1>1. TableTypeOK'
    BY DEF TableTypeOK
  <1>2. CallsInOrder'
    BY DEF CallsInOrder
  <1>3. Tracked'
    BY DEF Tracked
  <1>4. MaskUnderWay'
    BY DEF MaskUnderWay, MaskSent
  <1> QED BY <1>1, <1>2, <1>3, <1>4

\* The daemon sends events: they answer nothing, and the mask stays.
LEMMA ToldStep ==
    ASSUME SysInv, IInv', UNCHANGED cnnvars,
           ToldEvents(me), conn[me] = "open", conn'[me] = "open", MaskAfter(me)
    PROVE  SysInv'
  <1> USE DEF SysInv, cnnvars
  <1>1. TableTypeOK'
    BY DEF TableTypeOK
  <1>2. CallsInOrder'
    BY DEF CallsInOrder
  <1>3. Tracked'
    <2> SUFFICES ASSUME sock_fd = "open", NEW k \in Keys, k[2] # ESRC
                 PROVE  /\ Once(c2s[me], s2c[me], todo, k)'
                        /\ Somewhere(c2s[me], s2c[me], todo, k)' <=> status[k] = "WAITING"
      BY DEF Tracked
    <2> PICK E \in Seq(EventMessage) : s2c'[me] = s2c[me] \o E
      BY DEF ToldEvents
    <2>1. todo \in Seq(Message)
      BY DEF TableTypeOK
    <2>2. /\ Somewhere(c2s[me], s2c[me] \o E, todo, k) <=> Somewhere(c2s[me], s2c[me], todo, k)
          /\ Once(c2s[me], s2c[me], todo, k) => Once(c2s[me], s2c[me] \o E, todo, k)
      BY <2>1, MyQueues, EventsSent
    <2> QED BY <2>2 DEF Tracked, ToldEvents
  <1>4. MaskUnderWay'
    BY DEF MaskUnderWay, MaskSent, ToldEvents, MaskAfter
  <1> QED BY <1>1, <1>2, <1>3, <1>4

\* What is asked in a queue is asked at its head or behind it.
LEMMA TailElements ==
    ASSUME NEW A \in Seq(Request), A # <<>>
    PROVE  /\ Head(A) \in Request
           /\ Tail(A) \in Seq(Request) /\ Tail(A) # A
           /\ Head(A) = A[1] /\ 1 \in 1..Len(A)
           /\ \A n \in 1..Len(Tail(A)) : n + 1 \in 1..Len(A) /\ Tail(A)[n] = A[n + 1]
           /\ \A n \in 1..Len(A) : n # 1 => n - 1 \in 1..Len(Tail(A)) /\ Tail(A)[n - 1] = A[n]
  <1>1. Len(A) \in Nat /\ Len(A) # 0
    OBVIOUS
  <1>2. Tail(A) # A
    BY <1>1, TailDiffers
  <1> QED BY <1>1, <1>2

\* The daemon answers the oldest request; if it sets the mask, the mask is set.
LEMMA AnsweredStep ==
    ASSUME SysInv, IInv', UNCHANGED cnnvars,
           AnsweredRequest(me), conn'[me] = "open", MaskAfter(me)
    PROVE  SysInv'
  <1> USE DEF SysInv, cnnvars
  <1> PICK A \in Seq(Request) : A = c2s[me]
    BY MyQueues
  <1>0. /\ conn[me] = "open" /\ A # <<>>
        /\ c2s'[me] = Tail(A)
    BY DEF AnsweredRequest
  <1>1. TableTypeOK'
    BY DEF TableTypeOK
  <1>2. CallsInOrder'
    BY <1>0 DEF CallsInOrder
  <1>3. Tracked'
    <2> SUFFICES ASSUME sock_fd = "open", NEW k \in Keys, k[2] # ESRC
                 PROVE  /\ Once(c2s[me], s2c[me], todo, k)'
                        /\ Somewhere(c2s[me], s2c[me], todo, k)' <=> status[k] = "WAITING"
      BY DEF Tracked
    <2> PICK r \in Message, E \in Seq(EventMessage) :
               /\ r.kind = "reply" /\ r.src = Head(A).src /\ r.cmd = Head(A).cmd
               /\ s2c'[me] = Append(s2c[me], r) \o E
      BY DEF AnsweredRequest
    <2>1. todo \in Seq(Message)
      BY DEF TableTypeOK
    <2>2. /\ Somewhere(Tail(A), Append(s2c[me], r) \o E, todo, k) <=> Somewhere(A, s2c[me], todo, k)
          /\ Once(A, s2c[me], todo, k) => Once(Tail(A), Append(s2c[me], r) \o E, todo, k)
      BY <1>0, <2>1, MyQueues, AnswerSent
    <2> QED BY <1>0, <2>2 DEF Tracked
  <1>4. MaskUnderWay'
    <2> DEFINE req == A[1]
               B   == Tail(A)
    <2> SUFFICES ASSUME ~ delayed PROVE MaskUnderWay'
      BY DEF MaskUnderWay
    <2>1. /\ req \in Request /\ req = Head(A) /\ B \in Seq(Request) /\ B # A /\ 1 \in 1..Len(A)
          /\ \A n \in 1..Len(B) : n + 1 \in 1..Len(A) /\ B[n] = A[n + 1]
          /\ \A n \in 1..Len(A) : n # 1 => n - 1 \in 1..Len(B) /\ B[n - 1] = A[n]
      BY <1>0, TailElements
    <2>2. c2s'[me] = B
      BY <1>0
    <2>3. event_masks'[me] = IF req.cmd = SEVNT
                             THEN [event_masks[me] EXCEPT ![req.src] = req.mask]
                             ELSE event_masks[me]
      BY <2>1, <2>2 DEF MaskAfter
    <2>4. event_masks[me] \in [Sources -> SUBSET Items]
      BY MyQueues
    <2> HIDE DEF req, B
    <2>5. ASSUME NEW s \in Sources, ~ Asks(req, <<s, SEVNT>>)
          PROVE  event_masks'[me][s] = event_masks[me][s]
      BY <2>3, <2>4, <2>5 DEF Asks
    <2>6. ASSUME NEW s \in Sources, Asks(req, <<s, SEVNT>>)
          PROVE  event_masks'[me][s] = req.mask
      BY <2>3, <2>4, <2>6 DEF Asks
    <2>7. ASSUME cpc # "idle", call.fn = "set"
          PROVE  /\ \A n \in 1..Len(B) : Asks(B[n], <<call.src, SEVNT>>) => B[n].mask = call.mask
                 /\ ~ MaskSent(call.src)' => event_masks'[me][call.src] = call.mask
      <3>1. call.src \in Sources
        BY <2>7 DEF TableTypeOK
      <3>2. \A n \in 1..Len(A) : Asks(A[n], <<call.src, SEVNT>>) => A[n].mask = call.mask
        BY <2>7 DEF MaskUnderWay
      <3>3. ~ MaskSent(call.src)' => \A n \in 1..Len(A) : n # 1 => ~ Asks(A[n], <<call.src, SEVNT>>)
        BY <2>1, <2>2 DEF MaskSent
      <3>6. \A n \in 1..Len(B) : Asks(B[n], <<call.src, SEVNT>>) => B[n].mask = call.mask
        BY <2>1, <3>2
      <3>4. CASE Asks(req, <<call.src, SEVNT>>)
        <4>1. req.mask = call.mask
          BY <2>1, <3>2, <3>4 DEF req
        <4> QED BY <2>6, <3>1, <3>4, <3>6, <4>1
      <3>5. CASE ~ Asks(req, <<call.src, SEVNT>>)
        <4>1. ~ MaskSent(call.src)' => ~ MaskSent(call.src)
          BY <3>3, <3>5 DEF MaskSent, req
        <4>2. ~ MaskSent(call.src) => event_masks[me][call.src] = call.mask
          BY <2>7 DEF MaskUnderWay
        <4>3. event_masks'[me][call.src] = event_masks[me][call.src]
          BY <2>5, <3>1, <3>5
        <4> QED BY <3>6, <4>1, <4>2, <4>3
      <3> QED BY <3>4, <3>5
    <2>8. ASSUME result.fn = "set", result.ret = "RDS_OK"
          PROVE  /\ cpc = "idle" /\ sock_fd = "open" /\ result.src \in Sources
                 /\ event_masks'[me][result.src] = result.mask
      <3>1. /\ cpc = "idle" /\ sock_fd = "open" /\ result.src \in Sources
            /\ event_masks[me][result.src] = result.mask
        BY <2>8 DEF MaskUnderWay
      <3> DEFINE k == <<result.src, SEVNT>>
      <3>2. k \in Keys /\ k[2] # ESRC
        BY <3>1 DEF Keys, Commands, SEVNT, ESRC
      <3>3. status[k] # "WAITING"
        BY <3>1 DEF MaskUnderWay
      <3> HIDE DEF k
      <3>4. ~ Somewhere(A, s2c[me], todo, k)
        BY <3>1, <3>2, <3>3 DEF Tracked
      <3>5. ~ Asks(req, k)
        BY <2>1, <3>4 DEF Somewhere, req
      <3> QED BY <2>5, <3>1, <3>5 DEF k
    <2> QED BY <1>0, <2>2, <2>7, <2>8 DEF MaskUnderWay
  <1> QED BY <1>1, <1>2, <1>3, <1>4

\* The daemon's step.
LEMMA DaemonStep ==
    ASSUME SysInv, Daemon
    PROVE  SysInv'
  <1>1. IInv'
    BY NextInv DEF SysInv, Daemon, Next
  <1>2. me \in Conns /\ conn[me] \in ConnState
    BY MeAssumption, MyQueues DEF SysInv
  <1>3. CASE sock_fd = "stale"
    <2>1. UNCHANGED cnnvars
      BY DEF Daemon
    <2> USE DEF SysInv, cnnvars
    <2>2. TableTypeOK'
      BY <2>1 DEF TableTypeOK
    <2>3. CallsInOrder'
      BY <1>3, <2>1 DEF CallsInOrder
    <2>4. Tracked'
      BY <1>3, <2>1 DEF Tracked
    <2>5. MaskUnderWay'
      BY <1>3, <2>1 DEF MaskUnderWay, CallsInOrder
    <2> QED BY <1>1, <2>2, <2>3, <2>4, <2>5
  <1>4. CASE sock_fd # "stale"
    <2>1. conn[me] \in {"none", "pending", "open"}
      BY <1>4 DEF SysInv, TableTypeOK, CallsInOrder
    <2>2. /\ ToldEvents(me) \/ AnsweredRequest(me)
          /\ conn'[me] = conn[me] \/ (conn[me] = "pending" /\ conn'[me] = "open")
          /\ conn[me] = "open" => MaskAfter(me)
          /\ UNCHANGED cnnvars
      BY <1>2, <2>1, DaemonOnMe DEF SysInv, Daemon
    <2>3. CASE conn[me] = "open" /\ ToldEvents(me)
      BY <1>1, <2>2, <2>3, ToldStep
    <2>4. CASE AnsweredRequest(me)
      <3>1. conn[me] = "open"
        BY <2>4 DEF AnsweredRequest
      <3> QED BY <1>1, <2>2, <2>4, <3>1, AnsweredStep
    <2>5. CASE conn[me] # "open" /\ ToldEvents(me)
      <3>1. c2s'[me] = c2s[me] /\ s2c'[me] = s2c[me]
        BY <2>5 DEF ToldEvents
      <3> QED BY <1>1, <2>2, <2>5, <3>1, QuietStep
    <2> QED BY <2>2, <2>3, <2>4, <2>5
  <1> QED BY <1>3, <1>4

\* Another client's step.
LEMMA OthersStep ==
    ASSUME SysInv, Others
    PROVE  SysInv'
  <1>1. IInv'
    BY NextInv DEF SysInv, Others, Next
  <1> PICK c \in Conns \ {me} : ClientStep(c)
    BY DEF Others
  <1>2. /\ UNCHANGED cnnvars /\ me \in Conns /\ c # me
        /\ conn \in [Conns -> ConnState]
        /\ c2s \in [Conns -> Seq(Request)] /\ s2c \in [Conns -> Seq(Message)]
    BY MeAssumption DEF Others, SysInv, IInv, TypeOK, ChannelTypeOK
  <1>3. /\ c2s'[me] = c2s[me] /\ s2c'[me] = s2c[me] /\ conn'[me] = conn[me]
        /\ event_masks' = event_masks
    BY <1>2 DEF ClientStep, Connect, Send, Receive, Disconnect, srvvars
  <1> QED BY <1>1, <1>2, <1>3, QuietStep

-----------------------------------------------------------------------------
(* The steps of a call *)

\* The daemon does not see what the library does with what it has, ...
LEMMA UnseenStep ==
    ASSUME IInv, UNCHANGED chanvars, UNCHANGED srvvars
    PROVE  IInv'
  <1>1. UNCHANGED vars
    BY DEF vars
  <1> QED BY <1>1, NextInv

\* ... and gets what the library asks for.
LEMMA AskedStep ==
    ASSUME IInv, UNCHANGED <<conn, s2c>>, UNCHANGED srvvars,
           NEW R \in Seq(Request), c2s' = [c2s EXCEPT ![me] = c2s[me] \o R]
    PROVE  IInv'
  <1>1. me \in Conns /\ c2s \in [Conns -> Seq(Request)] /\ s2c \in [Conns -> Seq(Message)]
    BY MeAssumption DEF IInv, TypeOK, ChannelTypeOK
  <1> PICK A \in Seq(Request) : A = c2s[me]
    BY <1>1
  <1>2. A \o R \in Seq(Request) /\ Len(A \o R) = Len(A) + Len(R) /\ Len(A) \in Nat /\ Len(R) \in Nat
    BY ConcatElements
  <1>3. A # <<>> => Len(A) # 0
    OBVIOUS
  <1> PICK AR \in Seq(Request) : AR = A \o R
    BY <1>2
  <1>4. Len(AR) >= Len(A) /\ (A # <<>> => AR # <<>>)
    BY <1>2, <1>3
  <1>5. c2s' = [c2s EXCEPT ![me] = AR]
    OBVIOUS
  <1>6. c2s' \in [Conns -> Seq(Request)]
    BY <1>1, <1>5
  <1>7. ASSUME NEW d \in Conns
        PROVE  Len(c2s'[d]) >= Len(c2s[d]) /\ (c2s[d] # <<>> => c2s'[d] # <<>>)
    <2>1. CASE d = me
      BY <1>1, <1>4, <1>5, <2>1
    <2>2. CASE d # me
      <3>1. c2s'[d] = c2s[d] /\ Len(c2s[d]) \in Nat
        BY <1>1, <1>5, <2>2
      <3> QED BY <3>1
    <2> QED BY <2>1, <2>2
  <1>8. s2c' \in [Conns -> Seq(Message)] /\ conn' = conn
    BY <1>1
  <1> QED BY <1>6, <1>7, <1>8, ExchangeStep

\* A call goes on.
LEMMA GoOnStep ==
    ASSUME SysInv, GoOn, UNCHANGED srvvars
    PROVE  SysInv'
  <1> USE DEF SysInv, GoOn, Scanned
  <1>1. IInv'
    BY UnseenStep
  <1>2. UNCHANGED <<conn, c2s, s2c, event_masks>>
    BY DEF chanvars, srvvars
  <1>3. TableTypeOK'
    BY DEF TableTypeOK
  <1>4. CallsInOrder'
    BY <1>2 DEF CallsInOrder
  <1>5. Tracked'
    BY <1>2 DEF Tracked
  <1>6. MaskUnderWay'
    BY <1>2 DEF MaskUnderWay, MaskSent
  <1> QED BY <1>1, <1>3, <1>4, <1>5, <1>6

\* A call returns; unless it gives up, a mask that it has set is acknowledged.
LEMMA ReturnStep ==
    ASSUME SysInv, cpc # "idle", todo = <<>>,
           UNCHANGED chanvars, UNCHANGED srvvars,
           UNCHANGED <<sock_fd, status, read_str, todo, delayed>>,
           NEW ret, NEW d, NEW evts, Return(ret, d, evts),
           ~ delayed /\ call.fn = "set" => status[<<call.src, SEVNT>>] = "VALID"
    PROVE  SysInv'
  <1> USE DEF SysInv, Return
  <1>1. IInv'
    BY UnseenStep
  <1>2. UNCHANGED <<conn, c2s, s2c, event_masks>>
    BY DEF chanvars, srvvars
  <1>3. TableTypeOK'
    BY DEF TableTypeOK
  <1>4. CallsInOrder'
    BY <1>2 DEF CallsInOrder
  <1>5. Tracked'
    BY <1>2 DEF Tracked
  <1>6. MaskUnderWay'
    <2> SUFFICES ASSUME ~ delayed PROVE MaskUnderWay'
      BY DEF MaskUnderWay
    <2>1. \A s \in Sources : status[<<s, SEVNT>>] # "WAITING"
      BY DEF MaskUnderWay
    <2>2. ASSUME call.fn = "set"
          PROVE  /\ call.src \in Sources /\ sock_fd = "open" /\ conn[me] = "open"
                 /\ event_masks[me][call.src] = call.mask
      <3>1. call.src \in Sources /\ sock_fd = "open"
        BY <2>2 DEF TableTypeOK, CallsInOrder
      <3> DEFINE k == <<call.src, SEVNT>>
      <3>2. k \in Keys /\ k[2] # ESRC
        BY <3>1 DEF Keys, Commands, SEVNT, ESRC
      <3>3. status[k] # "WAITING"
        BY <2>1, <3>1
      <3> HIDE DEF k
      <3>4. ~ Somewhere(c2s[me], s2c[me], todo, k)
        BY <3>1, <3>2, <3>3 DEF Tracked
      <3>5. ~ MaskSent(call.src)
        BY <3>4 DEF Somewhere, MaskSent, k
      <3> QED BY <2>2, <3>1, <3>5 DEF MaskUnderWay
    <2>3. cpc' = "idle" /\ result'.fn = call.fn /\ result'.src = call.src /\ result'.mask = call.mask
      OBVIOUS
    <2> QED BY <1>2, <2>1, <2>2, <2>3 DEF MaskUnderWay
  <1> QED BY <1>1, <1>3, <1>4, <1>5, <1>6

\* The ways in which a call returns.
LEMMA ReturnsStep ==
    ASSUME SysInv, Answered \/ ReadFails \/ TimeOut \/ EventsReturned \/ UnknownSource,
           UNCHANGED srvvars
    PROVE  SysInv'
  <1> USE DEF SysInv
  <1>1. CASE Answered
    <2>1. call.fn = "set" => status[<<call.src, SEVNT>>] = "VALID"
      BY <1>1 DEF Answered, Key, TableTypeOK
    <2>2. todo = <<>>
      BY <1>1 DEF Answered, CallsInOrder
    <2> QED BY <1>1, <2>1, <2>2, ReturnStep DEF Answered
  <1>2. CASE ReadFails
    <2>1. conn[me] # "reset"
      BY MeAssumption DEF IInv, Connected
    <2> QED BY <1>2, <2>1 DEF ReadFails
  <1>3. CASE TimeOut
    BY <1>3, ReturnStep DEF TimeOut, Scanned
  <1>4. CASE EventsReturned
    BY <1>4, ReturnStep DEF EventsReturned, Scanned
  <1>5. CASE UnknownSource
    BY <1>5, ReturnStep DEF UnknownSource, Scanned
  <1> QED BY <1>1, <1>2, <1>3, <1>4, <1>5

\* process() reads some of the messages, and holds them until they are scanned.
LEMMA MessagesReadStep ==
    ASSUME SysInv, Read, UNCHANGED srvvars
    PROVE  SysInv'
  <1> USE DEF SysInv
  <1> PICK B \in Seq(Message) : B = s2c[me]
    BY MyQueues
  <1> PICK j \in 0..Len(B) : /\ todo' = SubSeq(B, 1, j)
                             /\ s2c' = [s2c EXCEPT ![me] = SubSeq(B, j + 1, Len(B))]
    BY DEF Read
  <1>1. /\ me \in Conns /\ s2c \in [Conns -> Seq(Message)]
        /\ UNCHANGED <<conn, c2s, event_masks, sock_fd, status, read_str, call, result, delayed>>
        /\ cpc = "wait" /\ cpc' = "scan"
    BY MeAssumption DEF Read, srvvars, IInv, TypeOK, ChannelTypeOK
  <1>2. SubSeq(B, 1, j) \in Seq(Message) /\ SubSeq(B, j + 1, Len(B)) \in Seq(Message)
    BY SubSeqProperties
  <1>3. s2c' \in [Conns -> Seq(Message)] /\ s2c'[me] = SubSeq(B, j + 1, Len(B))
    BY <1>1, <1>2
  <1>4. IInv'
    <2>1. c2s \in [Conns -> Seq(Request)]
      BY DEF IInv, TypeOK, ChannelTypeOK
    <2>2. \A d \in Conns : Len(c2s[d]) \in Nat
      BY <2>1
    <2> QED BY <1>1, <1>3, <2>1, <2>2, ExchangeStep
  <1>5. TableTypeOK'
    BY <1>1, <1>2 DEF TableTypeOK
  <1>6. CallsInOrder'
    BY <1>1 DEF CallsInOrder
  <1>7. Tracked'
    <2> SUFFICES ASSUME sock_fd = "open", NEW k \in Keys, k[2] # ESRC
                 PROVE  /\ Once(c2s[me], s2c'[me], todo', k)
                        /\ Somewhere(c2s[me], s2c'[me], todo', k) <=> status[k] = "WAITING"
      BY <1>1 DEF Tracked
    <2>1. todo = <<>>
      BY <1>1 DEF CallsInOrder
    <2>2. /\ Once(c2s[me], B, <<>>, k)
          /\ Somewhere(c2s[me], B, <<>>, k) <=> status[k] = "WAITING"
      BY <2>1 DEF Tracked
    <2> QED BY <1>3, <2>2, MyQueues, MessagesRead
  <1>8. MaskUnderWay'
    BY <1>1 DEF MaskUnderWay, MaskSent
  <1> QED BY <1>4, <1>5, <1>6, <1>7, <1>8

\* With one source, a command is named by what it asks.
LEMMA OneSource ==
    ASSUME NumSources = 1
    PROVE  /\ Sources = {0}
           /\ \A k \in Keys : k[2] # ESRC => k = <<0, k[2]>> /\ k[2] \in Items \cup {SEVNT, GEVNT}
           /\ \A cmd \in Items \cup {SEVNT, GEVNT} : <<0, cmd>> \in Keys /\ cmd # ESRC
           /\ <<0, ESRC>> \in Keys /\ <<NoSource, ESRC>> \in Keys
  <1>1. Sources = {0}
    BY DEF Sources
  <1>2. ESRC \notin Items /\ ESRC # SEVNT /\ ESRC # GEVNT
    BY DEF Items, EventBit, ESRC, SEVNT, GEVNT
  <1>3. Commands \ {ESRC} = Items \cup {SEVNT, GEVNT}
    BY <1>2 DEF Commands
  <1> QED BY <1>1, <1>2, <1>3 DEF Keys

\* Where the library books a reply: with one source, under the command that it answers.
LEMMA ReplyKeyFacts ==
    ASSUME NumSources = 1, TableTypeOK, NEW m \in Message, m.kind = "reply"
    PROVE  /\ ReplyKey(m) \in Keys
           /\ \A k \in Keys : k[2] # ESRC => (Answers(m, k) <=> ReplyKey(m) = k)
  <1>1. Sources = {0}
    BY OneSource
  <1>2. \/ m.src = 0 /\ m.cmd \in Items \cup {SEVNT, GEVNT}
        \/ m.src = NoSource /\ m.cmd = ESRC
    BY <1>1 DEF Message
  <1>3. read_str = Empty \/ read_str.num = 0
    BY <1>1 DEF TableTypeOK
  <1>4. CASE m.src = 0 /\ m.cmd \in Items \cup {SEVNT, GEVNT}
    <2>1. ReplyKey(m) = <<0, m.cmd>>
      BY <1>3, <1>4 DEF ReplyKey
    <2> QED BY <1>4, <2>1, OneSource DEF Answers
  <1>5. CASE m.src = NoSource /\ m.cmd = ESRC
    <2>1. ReplyKey(m) \in {<<0, ESRC>>, <<NoSource, ESRC>>}
      BY <1>3, <1>5 DEF ReplyKey
    <2> QED BY <1>5, <2>1, OneSource DEF Answers
  <1> QED BY <1>2, <1>4, <1>5

\* A reply is scanned: it is the one that its command was waiting for.
LEMMA ScanReplyStep ==
    ASSUME NumSources = 1, SysInv, ScanReply, UNCHANGED srvvars
    PROVE  SysInv'
  <1> USE DEF SysInv, ScanReply
  <1>1. IInv'
    BY UnseenStep
  <1>2. UNCHANGED <<conn, c2s, s2c, event_masks, sock_fd, cpc, call, result, delayed>>
    BY DEF chanvars, srvvars
  <1> PICK C \in Seq(Message) : C = todo
    BY DEF TableTypeOK
  <1> PICK m \in Message : m = Head(C)
    <2>1. C # <<>>
      OBVIOUS
    <2>2. Head(C) \in Message
      BY <2>1
    <2> QED BY <2>2
  <1>3. /\ C # <<>> /\ m.kind = "reply"
        /\ status' = [status EXCEPT ![ReplyKey(m)] = "VALID"]
        /\ todo' = Tail(C) /\ read_str' = Empty
    OBVIOUS
  <1>4. /\ ReplyKey(m) \in Keys
        /\ \A k \in Keys : k[2] # ESRC => (Answers(m, k) <=> ReplyKey(m) = k)
    BY <1>3, ReplyKeyFacts
  <1>5. TableTypeOK'
    <2>1. status' \in [Keys -> {"REQUEST_NEEDED", "WAITING", "VALID"}]
      BY <1>3, <1>4 DEF TableTypeOK
    <2>2. todo' \in Seq(Message)
      BY <1>3
    <2> QED BY <1>2, <1>3, <2>1, <2>2 DEF TableTypeOK
  <1>6. CallsInOrder'
    BY <1>2 DEF CallsInOrder
  <1>7. Tracked'
    <2> SUFFICES ASSUME sock_fd = "open", NEW k \in Keys, k[2] # ESRC
                 PROVE  /\ Once(c2s[me], s2c[me], Tail(C), k)
                        /\ Somewhere(c2s[me], s2c[me], Tail(C), k) <=> status'[k] = "WAITING"
      BY <1>2, <1>3 DEF Tracked
    <2>1. /\ Once(c2s[me], s2c[me], C, k)
          /\ Somewhere(c2s[me], s2c[me], C, k) <=> status[k] = "WAITING"
      BY DEF Tracked
    <2>2. /\ Once(c2s[me], s2c[me], Tail(C), k)
          /\ Answers(m, k) => ~ Somewhere(c2s[me], s2c[me], Tail(C), k)
          /\ ~ Answers(m, k) => (Somewhere(c2s[me], s2c[me], Tail(C), k)
                                   <=> Somewhere(c2s[me], s2c[me], C, k))
      BY <1>3, <2>1, MyQueues, MessageScanned
    <2>3. status'[k] = IF Answers(m, k) THEN "VALID" ELSE status[k]
      BY <1>3, <1>4 DEF TableTypeOK
    <2> QED BY <2>1, <2>2, <2>3
  <1>8. MaskUnderWay'
    <2>1. \A k \in Keys : status'[k] = "WAITING" => status[k] = "WAITING"
      BY <1>3, <1>4 DEF TableTypeOK
    <2>2. \A s \in Sources : <<s, SEVNT>> \in Keys
      BY OneSource
    <2>3. \A s \in Sources : status'[<<s, SEVNT>>] = "WAITING" => status[<<s, SEVNT>>] = "WAITING"
      BY <2>1, <2>2
    <2> HIDE DEF ScanReply, SysInv
    <2>4. MaskUnderWay
      BY DEF SysInv
    <2> QED BY <1>2, <2>3, <2>4 DEF MaskUnderWay, MaskSent
  <1> QED BY <1>1, <1>5, <1>6, <1>7, <1>8

-----------------------------------------------------------------------------
(* The requests that an event makes the library send *)

\* R asks source s for the items among D that are in items, each once.
RequestsFor(R, s, D, items) ==
    /\ R \in Seq(Request)
    /\ \A n \in 1..Len(R) : R[n].src = s /\ R[n].cmd \in D \cap items
    /\ \A m, n \in 1..Len(R) : R[m].cmd = R[n].cmd => m = n
    /\ \A it \in D \cap items : \E n \in 1..Len(R) : R[n].cmd = it

\* The request for one more item, if it is needed.
If(s, items, it) == IF it \in items THEN <<Request1(s, it, {})>> ELSE <<>>

LEMMA OneMoreItem ==
    ASSUME NEW s \in Sources, NEW items \in SUBSET Items, NEW D, NEW it \in Items, it \notin D,
           NEW R, RequestsFor(R, s, D, items)
    PROVE  RequestsFor(R \o If(s, items, it), s, D \cup {it}, items)
  <1> DEFINE req == Request1(s, it, {})
  <1>1. R \in Seq(Request) /\ Len(R) \in Nat
    BY DEF RequestsFor
  <1>2. CASE it \notin items
    <2>1. R \o <<>> = R
      BY <1>1
    <2>2. (D \cup {it}) \cap items = D \cap items
      BY <1>2
    <2>3. If(s, items, it) = <<>>
      BY <1>2 DEF If
    <2> QED BY <2>1, <2>2, <2>3 DEF RequestsFor
  <1>3. CASE it \in items
    <2>1. req \in Request /\ req.src = s /\ req.cmd = it
      BY DEF Request1, Request
    <2>2. R \o If(s, items, it) = Append(R, req)
      <3>1. If(s, items, it) = <<req>>
        BY <1>3 DEF If
      <3> HIDE DEF req
      <3> QED BY <1>1, <2>1, <3>1
    <2> DEFINE R2 == Append(R, req)
    <2>3. /\ R2 \in Seq(Request) /\ Len(R2) = Len(R) + 1 /\ R2[Len(R) + 1] = req
          /\ \A n \in 1..Len(R) : R2[n] = R[n] /\ n \in 1..Len(R2)
          /\ \A n \in 1..Len(R2) : n = Len(R) + 1 \/ n \in 1..Len(R)
      <3> HIDE DEF req
      <3> QED BY <1>1, <2>1, AppendProperties
    <2> HIDE DEF R2, req
    <2>4. \A n \in 1..Len(R2) : R2[n].src = s /\ R2[n].cmd \in (D \cup {it}) \cap items
      BY <1>3, <2>1, <2>3 DEF RequestsFor
    <2>5. ASSUME NEW m \in 1..Len(R2), NEW n \in 1..Len(R2), R2[m].cmd = R2[n].cmd PROVE m = n
      <3>1. \A l \in 1..Len(R) : R[l].cmd # it
        BY DEF RequestsFor
      <3> QED BY <2>1, <2>3, <2>5, <3>1 DEF RequestsFor
    <2>6. ASSUME NEW j \in (D \cup {it}) \cap items PROVE \E n \in 1..Len(R2) : R2[n].cmd = j
      <3>1. CASE j = it
        <4>1. Len(R) + 1 \in 1..Len(R2)
          BY <1>1, <2>3
        <4> QED BY <2>1, <2>3, <3>1, <4>1
      <3>2. CASE j # it
        <4> PICK n \in 1..Len(R) : R[n].cmd = j
          BY <3>2 DEF RequestsFor
        <4> QED BY <2>3
      <3> QED BY <3>1, <3>2
    <2>7. RequestsFor(R2, s, D \cup {it}, items)
      BY <2>3, <2>4, <2>5, <2>6 DEF RequestsFor
    <2> QED BY <2>2, <2>7 DEF R2
  <1> QED BY <1>2, <1>3

\* All of them, one after the other.
LEMMA RequestAllFacts ==
    ASSUME NEW s \in Sources, NEW items \in SUBSET Items
    PROVE  RequestsFor(RequestAll(s, items), s, Items, items)
  <1> DEFINE R0  == <<>>
             R1  == R0 \o If(s, items, "rflags")
             R2  == R1 \o If(s, items, "picode")
             R3  == R2 \o If(s, items, "ptype")
             R4  == R3 \o If(s, items, "pname")
             R5  == R4 \o If(s, items, "utcdt")
             R6  == R5 \o If(s, items, "locdt")
             R7  == R6 \o If(s, items, "rtxt")
             R8  == R7 \o If(s, items, "lrtxt")
             R9  == R8 \o If(s, items, "tmc")
             R10 == R9 \o If(s, items, "gstat")
             R11 == R10 \o If(s, items, "aflist")
             R12 == R11 \o If(s, items, "rxfre")
             R13 == R12 \o If(s, items, "rxsig")
  <1> DEFINE D0  == {}
             D1  == D0 \cup {"rflags"}
             D2  == D1 \cup {"picode"}
             D3  == D2 \cup {"ptype"}
             D4  == D3 \cup {"pname"}
             D5  == D4 \cup {"utcdt"}
             D6  == D5 \cup {"locdt"}
             D7  == D6 \cup {"rtxt"}
             D8  == D7 \cup {"lrtxt"}
             D9  == D8 \cup {"tmc"}
             D10 == D9 \cup {"gstat"}
             D11 == D10 \cup {"aflist"}
             D12 == D11 \cup {"rxfre"}
             D13 == D12 \cup {"rxsig"}
  <1>0. RequestsFor(R0, s, D0, items)
    BY DEF RequestsFor
  <1>14. Items = D13
    BY DEF Items, EventBit
  <1>15. RequestAll(s, items) = R13
    <2>1. <<>> \o If(s, items, "rflags") = If(s, items, "rflags")
      BY DEF If
    <2> QED BY <2>1 DEF RequestAll, If
  <1>1. RequestsFor(R1, s, D1, items)
    <2>1. "rflags" \in Items /\ "rflags" \notin D0
      BY DEF Items, EventBit
    <2> HIDE DEF R0, D0
    <2> QED BY <1>0, <2>1, OneMoreItem
  <1>2. RequestsFor(R2, s, D2, items)
    <2>1. "picode" \in Items /\ "picode" \notin D1
      BY DEF Items, EventBit
    <2> HIDE DEF R1, D1
    <2> QED BY <1>1, <2>1, OneMoreItem
  <1>3. RequestsFor(R3, s, D3, items)
    <2>1. "ptype" \in Items /\ "ptype" \notin D2
      BY DEF Items, EventBit
    <2> HIDE DEF R2, D2
    <2> QED BY <1>2, <2>1, OneMoreItem
  <1>4. RequestsFor(R4, s, D4, items)
    <2>1. "pname" \in Items /\ "pname" \notin D3
      BY DEF Items, EventBit
    <2> HIDE DEF R3, D3
    <2> QED BY <1>3, <2>1, OneMoreItem
  <1>5. RequestsFor(R5, s, D5, items)
    <2>1. "utcdt" \in Items /\ "utcdt" \notin D4
      BY DEF Items, EventBit
    <2> HIDE DEF R4, D4
    <2> QED BY <1>4, <2>1, OneMoreItem
  <1>6. RequestsFor(R6, s, D6, items)
    <2>1. "locdt" \in Items /\ "locdt" \notin D5
      BY DEF Items, EventBit
    <2> HIDE DEF R5, D5
    <2> QED BY <1>5, <2>1, OneMoreItem
  <1>7. RequestsFor(R7, s, D7, items)
    <2>1. "rtxt" \in Items /\ "rtxt" \notin D6
      BY DEF Items, EventBit
    <2> HIDE DEF R6, D6
    <2> QED BY <1>6, <2>1, OneMoreItem
  <1>8. RequestsFor(R8, s, D8, items)
    <2>1. "lrtxt" \in Items /\ "lrtxt" \notin D7
      BY DEF Items, EventBit
    <2> HIDE DEF R7, D7
    <2> QED BY <1>7, <2>1, OneMoreItem
  <1>9. RequestsFor(R9, s, D9, items)
    <2>1. "tmc" \in Items /\ "tmc" \notin D8
      BY DEF Items, EventBit
    <2> HIDE DEF R8, D8
    <2> QED BY <1>8, <2>1, OneMoreItem
  <1>10. RequestsFor(R10, s, D10, items)
    <2>1. "gstat" \in Items /\ "gstat" \notin D9
      BY DEF Items, EventBit
    <2> HIDE DEF R9, D9
    <2> QED BY <1>9, <2>1, OneMoreItem
  <1>11. RequestsFor(R11, s, D11, items)
    <2>1. "aflist" \in Items /\ "aflist" \notin D10
      BY DEF Items, EventBit
    <2> HIDE DEF R10, D10
    <2> QED BY <1>10, <2>1, OneMoreItem
  <1>12. RequestsFor(R12, s, D12, items)
    <2>1. "rxfre" \in Items /\ "rxfre" \notin D11
      BY DEF Items, EventBit
    <2> HIDE DEF R11, D11
    <2> QED BY <1>11, <2>1, OneMoreItem
  <1>13. RequestsFor(R13, s, D13, items)
    <2>1. "rxsig" \in Items /\ "rxsig" \notin D12
      BY DEF Items, EventBit
    <2> HIDE DEF R12, D12
    <2> QED BY <1>12, <2>1, OneMoreItem
  <1> QED BY <1>13, <1>14, <1>15

\* Requests for items: those needed are on their way, of the others nothing is new.
LEMMA RequestsOnTheWay ==
    ASSUME NEW A \in Seq(Request), NEW B \in Seq(Message), NEW C \in Seq(Message),
           NEW s \in Sources, NEW needed \in SUBSET Items,
           NEW R, RequestsFor(R, s, Items, needed),
           NEW k, k = <<s, k[2]>>
    PROVE  /\ k[2] \in needed /\ ~ Somewhere(A, B, C, k)
                 => Somewhere(A \o R, B, C, k) /\ Once(A \o R, B, C, k)
           /\ k[2] \notin needed
                 => /\ Somewhere(A \o R, B, C, k) <=> Somewhere(A, B, C, k)
                    /\ Once(A, B, C, k) => Once(A \o R, B, C, k)
  <1>1. R \in Seq(Request) /\ \A n \in 1..Len(R) : Asks(R[n], k) <=> R[n].cmd = k[2]
    BY DEF RequestsFor, Asks
  <1>2. ASSUME k[2] \in needed, ~ Somewhere(A, B, C, k)
        PROVE  Somewhere(A \o R, B, C, k) /\ Once(A \o R, B, C, k)
    <2> PICK j \in 1..Len(R) : R[j].cmd = k[2]
      BY <1>2 DEF RequestsFor
    <2>1. \A n \in 1..Len(R) : Asks(R[n], k) <=> n = j
      BY <1>1 DEF RequestsFor
    <2> QED BY <1>1, <1>2, <2>1, RequestSent
  <1>3. k[2] \notin needed => \A n \in 1..Len(R) : ~ Asks(R[n], k)
    BY <1>1 DEF RequestsFor
  <1>4. ASSUME k[2] \notin needed
        PROVE  /\ Somewhere(A \o R, B, C, k) <=> Somewhere(A, B, C, k)
               /\ Once(A, B, C, k) => Once(A \o R, B, C, k)
    <2>0. <<>> \in Seq(EventMessage)
      OBVIOUS
    <2> PICK E \in Seq(EventMessage) : E = <<>>
      BY <2>0
    <2>1. B \o E = B /\ \A n \in 1..Len(E) : ~ Answers(E[n], k)
      OBVIOUS
    <2>2. E \in Seq(Message)
      BY EventsSent
    <2>3. /\ Somewhere(A \o R, B \o E, C, k) <=> Somewhere(A, B, C, k)
          /\ Once(A, B, C, k) => Once(A \o R, B \o E, C, k)
      BY <1>1, <1>3, <1>4, <2>1, <2>2, OthersOnTheWay
    <2> QED BY <2>1, <2>3
  <1> QED BY <1>2, <1>4

\* What is asked for of one source, once it is written.
LEMMA AskedFor ==
    ASSUME NumSources = 1, SysInv, sock_fd = "open",
           NEW needed \in SUBSET Items, \A it \in needed : status[<<0, it>>] # "WAITING",
           NEW R, RequestsFor(R, 0, Items, needed), c2s' = Written(R),
           UNCHANGED <<conn, s2c>>, UNCHANGED srvvars
    PROVE  /\ IInv'
           /\ c2s'[me] = c2s[me] \o R
           /\ UNCHANGED <<conn, s2c, event_masks>>
           /\ \A k \in Keys : k[2] # ESRC =>
                 /\ Once(c2s'[me], s2c[me], todo, k)
                 /\ Somewhere(c2s'[me], s2c[me], todo, k) <=> status[k] = "WAITING" \/ k[2] \in needed
           /\ \A s \in Sources : MaskSent(s)' <=> MaskSent(s)
           /\ \A s \in Sources : \A n \in 1..Len(c2s'[me]) : Asks(c2s'[me][n], <<s, SEVNT>>) =>
                 n \in 1..Len(c2s[me]) /\ c2s'[me][n] = c2s[me][n]
  <1> USE DEF SysInv
  <1>1. R \in Seq(Request)
    BY DEF RequestsFor
  <1>2. me \in Conns /\ c2s \in [Conns -> Seq(Request)] /\ conn[me] # "reset"
    BY MeAssumption DEF CallsInOrder, IInv, TypeOK, ChannelTypeOK
  <1>3. c2s' = [c2s EXCEPT ![me] = c2s[me] \o R]
    BY <1>2 DEF Written
  <1>4. IInv'
    BY <1>1, <1>3, AskedStep
  <1>5. c2s'[me] = c2s[me] \o R
    BY <1>2, <1>3
  <1>6. UNCHANGED <<conn, s2c, event_masks>>
    BY DEF srvvars
  <1> PICK A \in Seq(Request) : A = c2s[me]
    BY <1>2
  <1> PICK B \in Seq(Message) : B = s2c[me]
    BY MyQueues
  <1> PICK C \in Seq(Message) : C = todo
    BY DEF TableTypeOK
  <1>7. 0 \in Sources /\ Sources = {0}
    BY OneSource
  <1>8. ASSUME NEW k \in Keys, k[2] # ESRC
        PROVE  /\ Once(A \o R, B, C, k)
               /\ Somewhere(A \o R, B, C, k) <=> status[k] = "WAITING" \/ k[2] \in needed
    <2>1. k = <<0, k[2]>>
      BY <1>8, OneSource
    <2>2. Once(A, B, C, k) /\ (Somewhere(A, B, C, k) <=> status[k] = "WAITING")
      BY <1>8 DEF Tracked
    <2>3. k[2] \in needed => status[k] # "WAITING"
      BY <2>1
    <2>4. /\ k[2] \in needed /\ ~ Somewhere(A, B, C, k)
                => Somewhere(A \o R, B, C, k) /\ Once(A \o R, B, C, k)
          /\ k[2] \notin needed
                => /\ Somewhere(A \o R, B, C, k) <=> Somewhere(A, B, C, k)
                   /\ Once(A, B, C, k) => Once(A \o R, B, C, k)
      BY <1>7, <2>1, RequestsOnTheWay
    <2> QED BY <2>2, <2>3, <2>4
  <1>9. ASSUME NEW s \in Sources
        PROVE  /\ \A n \in 1..Len(A \o R) : Asks((A \o R)[n], <<s, SEVNT>>) =>
                     n \in 1..Len(A) /\ (A \o R)[n] = A[n]
               /\ \A n \in 1..Len(A) : n \in 1..Len(A \o R) /\ (A \o R)[n] = A[n]
    <2>1. SEVNT \notin Items
      BY DEF SEVNT, Items, EventBit
    <2>2. \A n \in 1..Len(R) : ~ Asks(R[n], <<s, SEVNT>>)
      BY <2>1 DEF RequestsFor, Asks
    <2>3. \A n \in 1..Len(A \o R) :
             n \in 1..Len(A) \/ (n - Len(A) \in 1..Len(R) /\ (A \o R)[n] = R[n - Len(A)])
      BY <1>1, ConcatElements
    <2>4. \A n \in 1..Len(A) : n \in 1..Len(A \o R) /\ (A \o R)[n] = A[n]
      BY <1>1, ConcatElements
    <2> QED BY <2>2, <2>3, <2>4
  <1>10. ASSUME NEW s \in Sources PROVE MaskSent(s)' <=> MaskSent(s)
    BY <1>5, <1>9 DEF MaskSent
  <1> QED BY <1>4, <1>5, <1>6, <1>8, <1>9, <1>10

\* An event message is scanned: nothing is asked for that is on its way already.
LEMMA ScanEventStep ==
    ASSUME NumSources = 1, SysInv, ScanEvent, UNCHANGED srvvars
    PROVE  SysInv'
  <1> PICK C \in Seq(Message) : C = todo
    BY DEF SysInv, TableTypeOK
  <1> PICK str, needed :
         /\ str = Appended(Head(todo))
         /\ needed = Refresh(str.num, EventsIn(str.code))
         /\ read_str' = str
         /\ c2s' = Written(RequestAll(str.num, needed))
         /\ status' = [k \in Keys |-> IF k[1] = str.num /\ k[2] \in needed
                                      THEN "WAITING" ELSE status[k]]
    BY DEF ScanEvent
  <1>1. /\ UNCHANGED <<conn, s2c, event_masks, sock_fd, cpc, call, result, delayed>>
        /\ C # <<>> /\ Head(C).kind = "event" /\ todo' = Tail(C) /\ cpc = "scan"
    BY DEF ScanEvent, srvvars
  <1>2. Head(C) \in Message /\ Tail(C) \in Seq(Message)
    BY <1>1
  <1>3. str.num = 0
    <2>1. Sources = {0} /\ Head(C).src \in Sources
      BY <1>1, <1>2, OneSource DEF Message
    <2>2. read_str = Empty \/ read_str.num \in Sources
      BY DEF SysInv, TableTypeOK
    <2> QED BY <2>1, <2>2 DEF Appended
  <1>4. needed \in SUBSET Items /\ \A it \in needed : status[<<0, it>>] # "WAITING"
    BY <1>3 DEF Refresh, EventsIn, Decode
  <1>5. 0 \in Sources
    BY OneSource
  <1> PICK R : R = RequestAll(0, needed)
    OBVIOUS
  <1>6. RequestsFor(R, 0, Items, needed)
    BY <1>4, <1>5, RequestAllFacts
  <1>7. sock_fd = "open"
    BY <1>1 DEF SysInv, CallsInOrder
  <1>8. /\ IInv'
        /\ \A k \in Keys : k[2] # ESRC =>
              /\ Once(c2s'[me], s2c[me], C, k)
              /\ Somewhere(c2s'[me], s2c[me], C, k) <=> status[k] = "WAITING" \/ k[2] \in needed
        /\ \A s \in Sources : MaskSent(s)' <=> MaskSent(s)
        /\ \A s \in Sources : \A n \in 1..Len(c2s'[me]) : Asks(c2s'[me][n], <<s, SEVNT>>) =>
              n \in 1..Len(c2s[me]) /\ c2s'[me][n] = c2s[me][n]
    <2>1. UNCHANGED <<conn, s2c>> /\ c2s' = Written(R)
      BY <1>1, <1>3
    <2> QED BY <1>4, <1>6, <1>7, <2>1, AskedFor
  <1>9. \A k \in Keys : k[2] # ESRC =>
           status'[k] = IF k[2] \in needed THEN "WAITING" ELSE status[k]
    BY <1>3, OneSource
  <1>10. TableTypeOK'
    <2>1. status' \in [Keys -> {"REQUEST_NEEDED", "WAITING", "VALID"}]
      BY DEF SysInv, TableTypeOK
    <2> QED BY <1>1, <1>2, <1>3, <1>5, <2>1 DEF SysInv, TableTypeOK
  <1>11. CallsInOrder'
    BY <1>1, <1>7 DEF SysInv, CallsInOrder
  <1>12. Tracked'
    <2> SUFFICES ASSUME NEW k \in Keys, k[2] # ESRC
                 PROVE  /\ Once(c2s'[me], s2c[me], Tail(C), k)
                        /\ Somewhere(c2s'[me], s2c[me], Tail(C), k) <=> status'[k] = "WAITING"
      BY <1>1 DEF Tracked
    <2>1. c2s'[me] \in Seq(Request) /\ s2c[me] \in Seq(Message)
      BY <1>8, MeAssumption, MyQueues DEF SysInv, IInv, TypeOK, ChannelTypeOK
    <2>2. ~ Answers(Head(C), k)
      BY <1>1 DEF Answers
    <2>3. /\ Once(c2s'[me], s2c[me], Tail(C), k)
          /\ Somewhere(c2s'[me], s2c[me], Tail(C), k) <=> Somewhere(c2s'[me], s2c[me], C, k)
      BY <1>1, <1>8, <2>1, <2>2, MessageScanned
    <2> QED BY <1>8, <1>9, <2>3
  <1>13. MaskUnderWay'
    <2>1. \A s \in Sources : status'[<<s, SEVNT>>] = status[<<s, SEVNT>>]
      <3>1. SEVNT \notin needed
        BY <1>4 DEF SEVNT, Items, EventBit
      <3> QED BY <1>9, <3>1, OneSource
    <2>2. cpc # "idle" /\ call.fn = "set" => call.src \in Sources
      BY DEF SysInv, TableTypeOK
    <2>3. MaskUnderWay
      BY DEF SysInv
    <2>4. ASSUME ~ delayed, cpc # "idle", call.fn = "set", NEW n \in 1..Len(c2s'[me]),
                 Asks(c2s'[me][n], <<call.src, SEVNT>>)
          PROVE  c2s'[me][n].mask = call.mask
      <3>1. n \in 1..Len(c2s[me]) /\ c2s'[me][n] = c2s[me][n]
        BY <1>8, <2>2, <2>4
      <3>2. Asks(c2s[me][n], <<call.src, SEVNT>>)
        BY <2>4, <3>1
      <3>3. c2s[me][n].mask = call.mask
        BY <2>3, <2>4, <3>1, <3>2 DEF MaskUnderWay
      <3> QED BY <3>1, <3>3
    <2>5. ASSUME ~ delayed, cpc # "idle", call.fn = "set", ~ MaskSent(call.src)'
          PROVE  conn[me] = "open" /\ event_masks[me][call.src] = call.mask
      BY <1>1, <1>8, <2>2, <2>3, <2>5 DEF MaskUnderWay
    <2> QED BY <1>1, <2>1, <2>3, <2>4, <2>5 DEF MaskUnderWay
  <1> QED BY <1>8, <1>10, <1>11, <1>12, <1>13 DEF SysInv

\* The library's step.
LEMMA LibraryStep ==
    ASSUME NumSources = 1, SysInv, Library
    PROVE  SysInv'
  BY GoOnStep, ReturnsStep, MessagesReadStep, ScanReplyStep, ScanEventStep DEF Library, CallStep

-----------------------------------------------------------------------------
(* The calls of the application *)

\* One more in a queue.
LEMMA OneBehind ==
    ASSUME NEW A \in Seq(Request), NEW R \in Seq(Request), Len(R) = 1
    PROVE  /\ Len(A \o R) = Len(A) + 1 /\ Len(A \o R) \in 1..Len(A \o R)
           /\ (A \o R)[Len(A \o R)] = R[1]
           /\ \A n \in 1..Len(A \o R) : n # Len(A \o R) => n \in 1..Len(A) /\ (A \o R)[n] = A[n]
  <1>1. Len(A) \in Nat /\ 1 \in 1..Len(R)
    OBVIOUS
  <1>2. Len(A \o R) = Len(A) + 1
    BY <1>1, ConcatElements
  <1>3. (A \o R)[Len(A) + 1] = R[1]
    <2>1. \A n \in 1..Len(R) : (A \o R)[Len(A) + n] = R[n]
      BY ConcatElements
    <2> QED BY <1>1, <2>1, Zenon
  <1>4. \A n \in 1..Len(A) : (A \o R)[n] = A[n]
    BY ConcatElements
  <1> QED BY <1>1, <1>2, <1>3, <1>4

\* One request is sent, for a command that is not on its way.
LEMMA OneAsked ==
    ASSUME SysInv, sock_fd = "open",
           NEW req \in Request, NEW l \in Keys, l = <<req.src, req.cmd>>, status[l] # "WAITING",
           c2s' = Written(<<req>>), UNCHANGED <<conn, s2c>>, UNCHANGED srvvars
    PROVE  /\ IInv'
           /\ UNCHANGED event_masks
           /\ \A k \in Keys : k[2] # ESRC =>
                 /\ Once(c2s'[me], s2c[me], todo, k)
                 /\ Somewhere(c2s'[me], s2c[me], todo, k) <=> status[k] = "WAITING" \/ k = l
           /\ Len(c2s'[me]) = Len(c2s[me]) + 1 /\ Len(c2s'[me]) \in 1..Len(c2s'[me])
           /\ c2s'[me][Len(c2s'[me])] = req
           /\ \A n \in 1..Len(c2s'[me]) : n # Len(c2s'[me]) =>
                 n \in 1..Len(c2s[me]) /\ c2s'[me][n] = c2s[me][n]
  <1> USE DEF SysInv
  <1> DEFINE one == <<req>>
  <1>0. one \in Seq(Request) /\ Len(one) = 1 /\ one[1] = req
    OBVIOUS
  <1> HIDE DEF one
  <1> PICK R \in Seq(Request) : R = one
    BY <1>0
  <1>1. /\ Len(R) = 1 /\ R[1] = req
        /\ c2s' = Written(R)
    BY <1>0 DEF one
  <1>2. me \in Conns /\ c2s \in [Conns -> Seq(Request)] /\ conn[me] # "reset"
    BY MeAssumption DEF CallsInOrder, IInv, TypeOK, ChannelTypeOK
  <1>3. c2s' = [c2s EXCEPT ![me] = c2s[me] \o R]
    BY <1>1, <1>2 DEF Written
  <1>4. IInv'
    BY <1>3, AskedStep
  <1>5. c2s'[me] = c2s[me] \o R
    BY <1>2, <1>3
  <1> PICK A \in Seq(Request) : A = c2s[me]
    BY <1>2
  <1> PICK B \in Seq(Message) : B = s2c[me]
    BY MyQueues
  <1> PICK C \in Seq(Message) : C = todo
    BY DEF TableTypeOK
  <1>6. ASSUME NEW k \in Keys, k[2] # ESRC
        PROVE  /\ Once(A \o R, B, C, k)
               /\ Somewhere(A \o R, B, C, k) <=> status[k] = "WAITING" \/ k = l
    <2>1. Once(A, B, C, k) /\ (Somewhere(A, B, C, k) <=> status[k] = "WAITING")
      BY <1>6 DEF Tracked
    <2>2. \A n \in 1..Len(R) : n = 1 /\ (Asks(R[n], k) <=> k = l)
      BY <1>1 DEF Asks
    <2>3. CASE k = l
      <3>1. 1 \in 1..Len(R) /\ \A n \in 1..Len(R) : Asks(R[n], k) <=> n = 1
        BY <1>1, <2>2, <2>3
      <3>2. ~ Somewhere(A, B, C, k)
        BY <2>1, <2>3
      <3> QED BY <2>3, <3>1, <3>2, RequestSent
    <2>4. CASE k # l
      <3>1. \A n \in 1..Len(R) : ~ Asks(R[n], k)
        BY <2>2, <2>4
      <3>2. <<>> \in Seq(EventMessage)
        OBVIOUS
      <3> PICK E \in Seq(EventMessage) : E = <<>>
        BY <3>2
      <3>3. B \o E = B /\ \A n \in 1..Len(E) : ~ Answers(E[n], k)
        OBVIOUS
      <3>4. E \in Seq(Message)
        BY EventsSent
      <3>5. /\ Somewhere(A \o R, B \o E, C, k) <=> Somewhere(A, B, C, k)
            /\ Once(A, B, C, k) => Once(A \o R, B \o E, C, k)
        BY <3>1, <3>3, <3>4, OthersOnTheWay
      <3> QED BY <2>1, <2>4, <3>3, <3>5
    <2> QED BY <2>3, <2>4
  <1>7. /\ Len(A \o R) = Len(A) + 1 /\ Len(A \o R) \in 1..Len(A \o R)
        /\ (A \o R)[Len(A \o R)] = R[1]
        /\ \A n \in 1..Len(A \o R) : n # Len(A \o R) => n \in 1..Len(A) /\ (A \o R)[n] = A[n]
    BY <1>1, OneBehind
  <1>8. UNCHANGED event_masks
    BY DEF srvvars
  <1> PICK AR : AR = A \o R
    OBVIOUS
  <1>9. /\ \A k \in Keys : k[2] # ESRC =>
              /\ Once(AR, B, C, k)
              /\ Somewhere(AR, B, C, k) <=> status[k] = "WAITING" \/ k = l
        /\ Len(AR) = Len(A) + 1 /\ Len(AR) \in 1..Len(AR) /\ AR[Len(AR)] = req
        /\ \A n \in 1..Len(AR) : n # Len(AR) => n \in 1..Len(A) /\ AR[n] = A[n]
    BY <1>1, <1>6, <1>7
  <1> HIDE DEF SysInv
  <1>10. c2s'[me] = AR /\ c2s[me] = A /\ s2c[me] = B /\ todo = C
    BY <1>5
  <1>11. \A k \in Keys : k[2] # ESRC =>
                 /\ Once(c2s'[me], s2c[me], todo, k)
                 /\ Somewhere(c2s'[me], s2c[me], todo, k) <=> status[k] = "WAITING" \/ k = l
    <2> TAKE k \in Keys
    <2> HAVE k[2] # ESRC
    <2>1. /\ Once(AR, B, C, k)
          /\ Somewhere(AR, B, C, k) <=> status[k] = "WAITING" \/ k = l
      BY <1>9
    <2> QED BY <1>10, <2>1, Zenon
  <1>12. Len(c2s'[me]) = Len(c2s[me]) + 1 /\ Len(c2s'[me]) \in 1..Len(c2s'[me])
    <2>1. Len(AR) = Len(A) + 1 /\ Len(AR) \in 1..Len(AR)
      BY <1>9
    <2>2. c2s'[me] = AR /\ c2s[me] = A
      BY <1>10
    <2> QED BY <2>1, <2>2, Zenon
  <1>13. c2s'[me][Len(c2s'[me])] = req
    BY <1>9, <1>10, Zenon
  <1>14. \A n \in 1..Len(c2s'[me]) : n # Len(c2s'[me]) =>
                 n \in 1..Len(c2s[me]) /\ c2s'[me][n] = c2s[me][n]
    <2>1. \A n \in 1..Len(AR) : n # Len(AR) => n \in 1..Len(A) /\ AR[n] = A[n]
      BY <1>9
    <2>2. ASSUME NEW n \in 1..Len(c2s'[me]), n # Len(c2s'[me])
          PROVE  n \in 1..Len(c2s[me]) /\ c2s'[me][n] = c2s[me][n]
      <3>1. n \in 1..Len(AR) /\ n # Len(AR)
        BY <1>10, <2>2
      <3> QED BY <1>10, <2>1, <3>1
    <2> QED BY <2>2
  <1> QED BY <1>4, <1>8, <1>11, <1>12, <1>13, <1>14

\* A call is entered: its command is sent now, or is on its way, or not needed.
LEMMA EnterStep ==
    ASSUME SysInv, UNCHANGED srvvars,
           NEW fn \in {"get", "set", "event", "size", "text"},
           NEW s \in Sources \cup {NoSource}, NEW cmd \in Commands, NEW mask \in SUBSET Items,
           Enter(fn, s, cmd, mask),
           <<s, cmd>> \in Keys,
           cmd = ESRC => s = NoSource /\ mask = {}, cmd # ESRC => s \in Sources,
           fn \in {"set", "event"} <=> cmd = SEVNT,
           \/ UNCHANGED <<c2s, status>> /\ (fn = "set" => status[<<s, cmd>>] = "WAITING")
           \/ fn # "event" /\ SendCommand(s, cmd, mask)
    PROVE  SysInv'
  <1> USE DEF SysInv
  <1> DEFINE req == Request1(s, cmd, mask)
             l   == <<s, cmd>>
             sent == c2s' # c2s
  <1>0. /\ cpc = "idle" /\ cpc' = "wait" /\ sock_fd = "open" /\ todo = <<>>
        /\ UNCHANGED <<conn, s2c, sock_fd, read_str, todo, delayed, event_masks>>
        /\ call' = [fn |-> fn, src |-> s, cmd |-> cmd, mask |-> mask]
        /\ result'.fn = "none"
    BY DEF Enter, srvvars, CallsInOrder, NoResult
  <1>1. req \in Request /\ l = <<req.src, req.cmd>> /\ req.mask = mask
    BY DEF Request1, Request, Commands
  <1>2. call' \in Call
    BY <1>0 DEF Call
  <1>3. ~ delayed => \A t \in Sources : status[<<t, SEVNT>>] # "WAITING"
    BY <1>0 DEF MaskUnderWay
  <1>4. CASE UNCHANGED <<c2s, status>> /\ (fn = "set" => status[<<s, cmd>>] = "WAITING")
    <2>1. IInv'
      BY <1>0, <1>4, UnseenStep DEF chanvars
    <2>2. TableTypeOK'
      BY <1>0, <1>2, <1>4 DEF TableTypeOK, ESRC, SEVNT
    <2>3. CallsInOrder'
      BY <1>0 DEF CallsInOrder
    <2>4. Tracked'
      BY <1>0, <1>4 DEF Tracked
    <2>5. MaskUnderWay'
      <3>1. ~ delayed => fn # "set"
        BY <1>3, <1>4 DEF ESRC, SEVNT
      <3> QED BY <1>0, <1>3, <1>4, <3>1 DEF MaskUnderWay
    <2> QED BY <2>1, <2>2, <2>3, <2>4, <2>5
  <1>5. CASE /\ c2s' = Written(<<req>>) /\ status' = [status EXCEPT ![l] = "WAITING"]
             /\ status[l] # "WAITING" /\ fn # "event"
    <2> HIDE DEF req, l
    <2>0. l \in Keys
      BY DEF l
    <2>1. /\ IInv'
          /\ \A k \in Keys : k[2] # ESRC =>
                /\ Once(c2s'[me], s2c[me], todo, k)
                /\ Somewhere(c2s'[me], s2c[me], todo, k) <=> status[k] = "WAITING" \/ k = l
          /\ Len(c2s'[me]) \in 1..Len(c2s'[me])
          /\ c2s'[me][Len(c2s'[me])] = req
          /\ \A n \in 1..Len(c2s'[me]) : n # Len(c2s'[me]) =>
                n \in 1..Len(c2s[me]) /\ c2s'[me][n] = c2s[me][n]
      <3>1. UNCHANGED <<conn, s2c>>
        BY <1>0
      <3> QED BY <1>0, <1>1, <1>5, <2>0, <3>1, OneAsked
    <2>2. \A k \in Keys : status'[k] = IF k = l THEN "WAITING" ELSE status[k]
      BY <1>5 DEF TableTypeOK
    <2>3. TableTypeOK'
      <3>1. status' \in [Keys -> {"REQUEST_NEEDED", "WAITING", "VALID"}]
        BY <1>5 DEF TableTypeOK
      <3> QED BY <1>0, <1>2, <3>1 DEF TableTypeOK, ESRC, SEVNT
    <2>4. CallsInOrder'
      BY <1>0 DEF CallsInOrder
    <2>5. Tracked'
      BY <1>0, <2>1, <2>2 DEF Tracked
    <2>6. MaskUnderWay'
      <3> SUFFICES ASSUME ~ delayed PROVE MaskUnderWay'
        BY <1>0 DEF MaskUnderWay
      <3>0. \A t \in Sources : <<t, SEVNT>> \in Keys /\ <<t, SEVNT>>[2] # ESRC
        BY DEF Keys, Commands, SEVNT, ESRC
      <3>1. \A t \in Sources : status'[<<t, SEVNT>>] = "WAITING" => l = <<t, SEVNT>>
        BY <1>3, <2>2, <3>0
      <3>2. \A t \in Sources : l = <<t, SEVNT>> => fn = "set" /\ s = t
        BY <1>5 DEF l
      <3>3. ASSUME fn = "set"
            PROVE  /\ l = <<s, SEVNT>> /\ s \in Sources
                   /\ \A n \in 1..Len(c2s'[me]) : Asks(c2s'[me][n], l) => c2s'[me][n].mask = mask
                   /\ MaskSent(s)'
        <4>1. l = <<s, SEVNT>> /\ s \in Sources
          BY <3>3 DEF l, SEVNT, ESRC
        <4>2. l \in Keys /\ l[2] # ESRC
          BY <3>0, <4>1
        <4>3. ~ Somewhere(c2s[me], s2c[me], todo, l)
          BY <1>0, <1>5, <4>2 DEF Tracked
        <4>4. \A n \in 1..Len(c2s[me]) : ~ Asks(c2s[me][n], l)
          BY <4>3 DEF Somewhere
        <4>5. \A n \in 1..Len(c2s'[me]) : Asks(c2s'[me][n], l) => n = Len(c2s'[me])
          BY <2>1, <4>4
        <4>6. Asks(req, l)
          BY <1>1 DEF Asks
        <4>7. MaskSent(s)'
          BY <2>1, <4>1, <4>6 DEF MaskSent
        <4> QED BY <1>1, <2>1, <4>1, <4>5, <4>7
      <3> QED BY <1>0, <3>1, <3>2, <3>3 DEF MaskUnderWay
    <2> QED BY <2>1, <2>3, <2>4, <2>5, <2>6
  <1> QED BY <1>4, <1>5 DEF SendCommand

\* Open() finds nothing asked for; after Close() nothing is expected.
LEMMA OpenStep ==
    ASSUME SysInv, Open
    PROVE  SysInv'
  <1> USE DEF SysInv
  <1>1. CASE OpenSucceeds /\ Connect(me)
    <2> USE <1>1 DEF OpenSucceeds, Connect
    <2>1. IInv'
      BY MeAssumption, ConnectStep
    <2>2. /\ me \in Conns /\ conn \in [Conns -> ConnState]
          /\ c2s[me] = <<>> /\ s2c[me] = <<>> /\ todo = <<>>
          /\ \A k \in Keys : status[k] # "WAITING"
      BY MeAssumption DEF CallsInOrder, IInv, TypeOK, ChannelTypeOK
    <2>3. conn'[me] = "pending"
      BY <2>2
    <2>4. TableTypeOK'
      BY DEF TableTypeOK
    <2>5. CallsInOrder'
      BY <2>2, <2>3 DEF CallsInOrder
    <2>6. Tracked'
      <3>1. Len(<<>>) = 0
        OBVIOUS
      <3>2. \A k \in Keys : Once(<<>>, <<>>, <<>>, k) /\ ~ Somewhere(<<>>, <<>>, <<>>, k)
        BY <3>1 DEF Once, Somewhere
      <3> QED BY <2>2, <3>2 DEF Tracked
    <2>7. MaskUnderWay'
      <3>1. \A s \in Sources : <<s, SEVNT>> \in Keys
        BY DEF Keys, Commands, SEVNT, ESRC
      <3> QED BY <2>2, <3>1 DEF MaskUnderWay
    <2> QED BY <2>1, <2>4, <2>5, <2>6, <2>7
  <1>2. CASE OpenFails /\ UNCHANGED vars
    <2> USE <1>2 DEF OpenFails, vars, chanvars
    <2>1. IInv'
      BY UnseenStep
    <2>2. UNCHANGED <<conn, c2s, s2c, event_masks>>
      BY DEF srvvars
    <2>3. TableTypeOK'
      BY DEF TableTypeOK
    <2>4. CallsInOrder'
      BY <2>2 DEF CallsInOrder
    <2>5. Tracked'
      BY <2>2 DEF Tracked
    <2>6. MaskUnderWay'
      BY <2>2 DEF MaskUnderWay, MaskSent
    <2> QED BY <2>1, <2>3, <2>4, <2>5, <2>6
  <1> QED BY <1>1, <1>2 DEF Open

LEMMA CloseStep ==
    ASSUME SysInv, Close
    PROVE  SysInv'
  <1> USE DEF SysInv
  <1>1. CASE CloseSucceeds /\ Disconnect(me)
    <2> USE <1>1 DEF CloseSucceeds, NoResult
    <2>1. IInv'
      BY MeAssumption, DisconnectStep
    <2>2. TableTypeOK'
      BY DEF TableTypeOK
    <2>3. CallsInOrder'
      BY DEF CallsInOrder
    <2>4. Tracked'
      BY DEF Tracked
    <2>5. MaskUnderWay'
      BY DEF MaskUnderWay
    <2> QED BY <2>1, <2>2, <2>3, <2>4, <2>5
  <1>2. CASE CloseFails /\ UNCHANGED vars
    <2> USE <1>2 DEF CloseFails, NoResult, vars, chanvars
    <2>1. IInv'
      BY UnseenStep
    <2>2. UNCHANGED <<conn, c2s, s2c, event_masks>>
      BY DEF srvvars
    <2>3. TableTypeOK'
      BY DEF TableTypeOK
    <2>4. CallsInOrder'
      BY <2>2 DEF CallsInOrder
    <2>5. Tracked'
      BY <2>2 DEF Tracked
    <2>6. MaskUnderWay'
      BY <2>2 DEF MaskUnderWay, MaskSent
    <2> QED BY <2>1, <2>3, <2>4, <2>5, <2>6
  <1> QED BY <1>1, <1>2 DEF Close

\* The buffer is filled from what is kept: nothing is asked for.
LEMMA KeptStep ==
    ASSUME SysInv, NEW s \in Sources, NEW it \in BufferItems, CallTextKept(s, it), UNCHANGED srvvars
    PROVE  SysInv'
  <1> USE DEF SysInv, CallTextKept, chanvars
  <1>1. IInv'
    BY UnseenStep
  <1>2. UNCHANGED <<conn, c2s, s2c, event_masks>>
    BY DEF srvvars
  <1>3. TableTypeOK'
    BY DEF TableTypeOK
  <1>4. CallsInOrder'
    BY <1>2 DEF CallsInOrder
  <1>5. Tracked'
    BY <1>2 DEF Tracked
  <1>6. MaskUnderWay'
    BY <1>2 DEF MaskUnderWay, MaskSent
  <1> QED BY <1>1, <1>3, <1>4, <1>5, <1>6

\* Any call.
LEMMA ApplicationStep ==
    ASSUME SysInv, Application
    PROVE  SysInv'
  <1>1. /\ \A s \in Sources, cmd \in Commands \ {ESRC} : <<s, cmd>> \in Keys
        /\ <<NoSource, ESRC>> \in Keys
    BY DEF Keys
  <1>2. /\ Items \subseteq Commands /\ SEVNT \in Commands /\ GEVNT \in Commands /\ ESRC \in Commands
        /\ SEVNT \notin Items /\ ESRC \notin Items
        /\ ESRC # SEVNT /\ ESRC # GEVNT /\ GEVNT # SEVNT
        /\ {} \in SUBSET Items
    BY DEF Commands, Items, EventBit, ESRC, SEVNT, GEVNT
  <1>3. BufferItems \subseteq Items
    BY DEF BufferItems, Items, EventBit
  <1>4. ASSUME NEW s \in Sources, NEW cmd \in GetCommands,
               CallGet(IF cmd = ESRC THEN NoSource ELSE s, cmd), UNCHANGED srvvars
        PROVE  SysInv'
    <2> PICK t \in Sources \cup {NoSource} : t = IF cmd = ESRC THEN NoSource ELSE s
      OBVIOUS
    <2>1. cmd \in Commands /\ cmd # SEVNT
      BY <1>2, GetCommandsAssumption
    <2>2. <<t, cmd>> \in Keys
      BY <1>1, <2>1
    <2>3. Enter("get", t, cmd, {}) /\ SendIfNeeded(t, cmd)
      BY <1>4 DEF CallGet
    <2> QED BY <1>2, <1>4, <2>1, <2>2, <2>3, EnterStep DEF SendIfNeeded
  <1>5. ASSUME NEW s \in Sources, NEW mask \in Masks, CallSetEventMask(s, mask), UNCHANGED srvvars
        PROVE  SysInv'
    <2>1. mask \in SUBSET Items
      BY MasksAssumption
    <2>2. <<s, SEVNT>> \in Keys
      BY <1>1, <1>2
    <2>3. Enter("set", s, SEVNT, mask) /\ SendCommand(s, SEVNT, mask)
      BY <1>5 DEF CallSetEventMask
    <2> QED BY <1>2, <1>5, <2>1, <2>2, <2>3, EnterStep
  <1>6. ASSUME NEW s \in Sources, CallGetEvent(s), UNCHANGED srvvars
        PROVE  SysInv'
    <2>1. <<s, SEVNT>> \in Keys
      BY <1>1, <1>2
    <2>2. Enter("event", s, SEVNT, {}) /\ UNCHANGED <<c2s, status>>
      BY <1>6 DEF CallGetEvent
    <2> QED BY <1>2, <1>6, <2>1, <2>2, EnterStep
  <1>7. ASSUME NEW s \in Sources, NEW it \in BufferCommands, UNCHANGED srvvars,
               CallSize(s, it) \/ CallTextKept(s, it) \/ CallText(s, it)
        PROVE  SysInv'
    <2>1. it \in BufferItems /\ it \in Items /\ it # SEVNT /\ it # ESRC /\ it \in Commands
      BY <1>2, <1>3, BufferAssumption
    <2>2. <<s, it>> \in Keys
      BY <1>1, <2>1
    <2>3. CASE CallTextKept(s, it)
      BY <1>7, <2>1, <2>3, KeptStep
    <2>4. CASE CallSize(s, it)
      <3>1. Enter("size", s, it, {}) /\ SendIfNeeded(s, it)
        BY <2>4 DEF CallSize
      <3> QED BY <1>2, <1>7, <2>1, <2>2, <3>1, EnterStep DEF SendIfNeeded
    <2>5. CASE CallText(s, it)
      <3>1. Enter("text", s, it, {}) /\ SendIfNeeded(s, it)
        BY <2>5 DEF CallText
      <3> QED BY <1>2, <1>7, <2>1, <2>2, <3>1, EnterStep DEF SendIfNeeded
    <2> QED BY <1>7, <2>3, <2>4, <2>5
  <1> QED BY <1>4, <1>5, <1>6, <1>7, OpenStep, CloseStep DEF Application

-----------------------------------------------------------------------------
(* The theorems *)

LEMMA SysInitInv == SysInit => SysInv
  <1> SUFFICES ASSUME SysInit PROVE SysInv
    OBVIOUS
  <1> USE DEF SysInit, InitConnection
  <1>1. IInv
    BY InitInv
  <1>2. TableTypeOK
    <2>1. <<>> \in Seq(Message)
      OBVIOUS
    <2> QED BY <2>1 DEF TableTypeOK
  <1>3. CallsInOrder
    BY MeAssumption DEF CallsInOrder, Init
  <1>4. Tracked
    BY DEF Tracked
  <1>5. MaskUnderWay
    <2>1. \A s \in Sources : <<s, SEVNT>> \in Keys
      BY DEF Keys, Commands, SEVNT, ESRC
    <2> QED BY <2>1 DEF MaskUnderWay, NoResult
  <1> QED BY <1>1, <1>2, <1>3, <1>4, <1>5 DEF SysInv

LEMMA SysNextInv ==
    ASSUME NumSources = 1
    PROVE  SysInv /\ [SysNext]_sysvars => SysInv'
  <1> SUFFICES ASSUME SysInv, [SysNext]_sysvars PROVE SysInv'
    OBVIOUS
  <1>1. CASE UNCHANGED sysvars
    <2>1. UNCHANGED cnnvars /\ UNCHANGED chanvars /\ UNCHANGED srvvars
      BY <1>1 DEF sysvars, vars
    <2>2. IInv'
      BY <2>1, UnseenStep DEF SysInv
    <2> QED BY <2>1, <2>2, QuietStep DEF chanvars, srvvars
  <1> QED BY <1>1, ApplicationStep, LibraryStep, DaemonStep, OthersStep DEF SysNext

\* What the library's own state and its queues are in every state, with one source.
THEOREM SysInvariance ==
    ASSUME NumSources = 1
    PROVE  SysSpec => []SysInv
  <1>1. SysInv /\ [SysNext]_sysvars => SysInv'
    BY SysNextInv
  <1> QED BY <1>1, SysInitInv, PTL DEF SysSpec

\* What is on its way, as places and as sequences.
LEMMA InFlightFacts ==
    ASSUME SysInv, NEW k
    PROVE  /\ InFlight(k) # {} <=> Somewhere(c2s[me], s2c[me], todo, k)
           /\ Once(c2s[me], s2c[me], todo, k)
                 => \A o, p \in InFlight(k) : o = p
  <1>1. /\ DOMAIN c2s[me] = 1..Len(c2s[me]) /\ DOMAIN s2c[me] = 1..Len(s2c[me])
        /\ DOMAIN todo = 1..Len(todo)
    BY MyQueues DEF SysInv, TableTypeOK
  <1>2. InFlight(k) # {} <=> Somewhere(c2s[me], s2c[me], todo, k)
    BY <1>1 DEF InFlight, Somewhere
  <1>3. ASSUME Once(c2s[me], s2c[me], todo, k), NEW o \in InFlight(k), NEW p \in InFlight(k)
        PROVE  o = p
    BY <1>1, <1>3 DEF InFlight, Once
  <1> QED BY <1>2, <1>3

\* The library's table of commands knows what is outstanding, and nothing is asked
\* for twice, whatever the calls, the timeouts, the events and the other clients.
THEOREM Outstanding ==
    ASSUME NumSources = 1
    PROVE  SysSpec => []OneOutstanding
  <1>1. SysInv => OneOutstanding
    <2> SUFFICES ASSUME SysInv, sock_fd = "open", NEW k \in Keys, k[2] # ESRC
                 PROVE  IF status[k] = "WAITING"
                        THEN \E o \in InFlight(k) : InFlight(k) = {o}
                        ELSE InFlight(k) = {}
      BY DEF OneOutstanding
    <2>1. /\ Once(c2s[me], s2c[me], todo, k)
          /\ Somewhere(c2s[me], s2c[me], todo, k) <=> status[k] = "WAITING"
      BY DEF SysInv, Tracked
    <2> QED BY <2>1, InFlightFacts
  <1> QED BY <1>1, SysInvariance, PTL

\* When rds_set_event_mask() says that it has set the mask, the daemon has it.
THEOREM MaskSet ==
    ASSUME NumSources = 1
    PROVE  SysSpec => []MaskTakesEffect
  <1>1. SysInv => MaskTakesEffect
    BY DEF SysInv, MaskUnderWay, MaskTakesEffect
  <1> QED BY <1>1, SysInvariance, PTL

-----------------------------------------------------------------------------
(* Sizes and data, with any number of sources *)

\* What is kept for the next call is what the last one told the size of.
SizeInv ==
    /\ cpc # "idle" => call.fn \in {"get", "set", "event", "size", "text"}
    /\ cpc # "idle" /\ call.fn = "size" => call.cmd \in BufferItems
    /\ kept = [it \in BufferItems |-> kept[it]]
    /\ sized = [it \in BufferItems |-> sized[it]]
    /\ \A it \in BufferItems : kept[it] # Nothing => sized[it].data = kept[it]
    /\ result.fn = "kept" => result.data = result.sized.data

LEMMA SizeInitInv == SysInit => SizeInv
  BY DEF SysInit, InitConnection, SizeInv, NoResult

\* The steps that keep what is kept.
LEMMA SizeUnchanged ==
    ASSUME SizeInv, UNCHANGED <<kept, sized>>,
           \/ UNCHANGED <<cpc, call>>
           \/ cpc' = "idle"
           \/ cpc # "idle" /\ call' = call
           \/ call'.fn \in {"get", "set", "event", "text"},
           UNCHANGED result \/ result'.fn # "kept"
    PROVE  SizeInv'
  BY DEF SizeInv

LEMMA SizeNextInv == SizeInv /\ [SysNext]_sysvars => SizeInv'
  <1> SUFFICES ASSUME SizeInv, [SysNext]_sysvars PROVE SizeInv'
    OBVIOUS
  <1>1. CASE UNCHANGED cnnvars
    BY <1>1, SizeUnchanged DEF cnnvars
  <1>2. CASE Open \/ Close
    BY <1>2, SizeUnchanged
       DEF Open, Close, OpenSucceeds, OpenFails, CloseSucceeds, CloseFails, NoResult
  <1>3. ASSUME NEW s, NEW cmd, CallGet(s, cmd) PROVE SizeInv'
    BY <1>3, SizeUnchanged DEF CallGet, Enter, NoResult
  <1>4. ASSUME NEW s, NEW mask, CallSetEventMask(s, mask) PROVE SizeInv'
    BY <1>4, SizeUnchanged DEF CallSetEventMask, Enter, NoResult
  <1>5. ASSUME NEW s, CallGetEvent(s) PROVE SizeInv'
    BY <1>5, SizeUnchanged DEF CallGetEvent, Enter, NoResult
  <1>6. ASSUME NEW s, NEW it \in BufferItems, CallText(s, it) PROVE SizeInv'
    BY <1>6, SizeUnchanged DEF CallText, Enter, NoResult
  <1>7. ASSUME NEW s, NEW it \in BufferItems, CallSize(s, it) PROVE SizeInv'
    BY <1>7 DEF CallSize, Enter, NoResult, SizeInv
  <1>8. ASSUME NEW s, NEW it \in BufferItems, CallTextKept(s, it) PROVE SizeInv'
    BY <1>8 DEF CallTextKept, KeptData, SizeInv
  <1>9. CASE Answered
    <2>1. CASE call.fn = "size"
      BY <1>9, <2>1 DEF Answered, Return, SizeInv
    <2>2. CASE call.fn # "size"
      <3>1. call.fn # "kept"
        BY <1>9 DEF Answered, SizeInv
      <3> QED BY <1>9, <2>2, <3>1, SizeUnchanged DEF Answered, Return
    <2> QED BY <2>1, <2>2
  <1>10. CASE ReadFails \/ TimeOut \/ EventsReturned \/ UnknownSource
    <2>1. call.fn # "kept"
      BY <1>10 DEF ReadFails, TimeOut, EventsReturned, UnknownSource, Scanned, SizeInv
    <2> QED BY <1>10, <2>1, SizeUnchanged
            DEF ReadFails, TimeOut, EventsReturned, UnknownSource, Return
  <1>11. CASE Read \/ GoOn \/ ScanReply \/ ScanEvent
    BY <1>11, SizeUnchanged DEF Read, GoOn, Scanned, ScanReply, ScanEvent
  <1>12. CASE Library
    BY <1>9, <1>10, <1>11, <1>12 DEF Library, CallStep
  <1>13. CASE Application
    BY <1>2, <1>3, <1>4, <1>5, <1>6, <1>7, <1>8, <1>13, BufferAssumption DEF Application
  <1>14. CASE Daemon \/ Others \/ UNCHANGED sysvars
    BY <1>1, <1>14 DEF Daemon, Others, sysvars
  <1> QED BY <1>12, <1>13, <1>14 DEF SysNext

\* What a call copies is what the call before it told the size of.
THEOREM SizesAreRight == SysSpec => []TextAsSized
  <1>1. SizeInv => TextAsSized
    BY DEF SizeInv, TextAsSized
  <1> QED BY <1>1, SizeInitInv, SizeNextInv, PTL DEF SysSpec

=============================================================================
