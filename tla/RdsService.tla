----------------------------- MODULE RdsService -----------------------------
(***************************************************************************)
(* What rdsd promises its clients, without sockets, descriptors and loops: *)
(* every client has a mask, is told of the events under its mask once for  *)
(* each time the data are read, and has its requests answered one by one,  *)
(* in order.  RdsServer implements this.                                   *)
(*                                                                         *)
(* The promise has a gap, and its size is part of it: of the clients, as   *)
(* many may be left out in a round as have been removed in it.             *)
(***************************************************************************)
EXTENDS RdsProtocol, FiniteSets

CONSTANT Requests       \* the requests that clients send

VARIABLES
    accepted,   \* the clients that the daemon knows
    masks,      \* the event mask of each
    events,     \* the events of each source in this round
    val,        \* the version of each data item
    told,       \* the clients that have been told of them
    gone        \* how many clients have been removed in this round

vars == <<chanvars, accepted, masks, events, val, told, gone>>

NoMask == [s \in Sources |-> {}]

Init ==
    /\ conn = [c \in Conns |-> "none"]
    /\ c2s = [c \in Conns |-> <<>>]
    /\ s2c = [c \in Conns |-> <<>>]
    /\ accepted = {}
    /\ masks = [c \in Conns |-> NoMask]
    /\ events = [s \in Sources |-> {}]
    /\ val = [s \in Sources |-> [it \in Items |-> 0]]
    /\ told = {}
    /\ gone = 0

-----------------------------------------------------------------------------
(* The daemon *)

\* A new round: the sources may have new data, and no data are new without an
\* event.
Update ==
    /\ Cardinality(accepted \ told) <= gone
    /\ events' \in [Sources -> SUBSET Items]
    /\ DOMAIN val' = Sources
    /\ \A s \in Sources :
          /\ DOMAIN val'[s] = Items
          /\ \A it \in Items :
                val'[s][it] # val[s][it] =>
                    it \in events'[s] /\ val'[s][it] = val[s][it] + 1
    /\ told' = {}
    /\ gone' = 0
    /\ UNCHANGED <<chanvars, accepted, masks>>

\* A client that closes its end while it waits is accepted, and removed later.
Accept(c) ==
    /\ c \notin accepted
    /\ conn[c] \in {"pending", "closed"}
    /\ conn' = [conn EXCEPT ![c] = IF @ = "pending" THEN "open" ELSE @]
    /\ accepted' = accepted \cup {c}
    /\ UNCHANGED <<c2s, s2c, masks, events, val, told, gone>>

\* Requests that a client sent before it closed its end may be lost.
Tell(c) ==
    /\ c \in accepted \ told
    /\ told' = told \cup {c}
    /\ s2c' = Write(s2c, c, EventMsgs(events, masks[c]))
    /\ \/ UNCHANGED c2s
       \/ conn[c] = "closed" /\ c2s' = [c2s EXCEPT ![c] = <<>>]
    /\ UNCHANGED <<conn, accepted, masks, events, val, gone>>

\* The value of the moment; a new mask holds at once, for the events of this
\* round too.
Answer(c) ==
    /\ c \in accepted \cap told
    /\ c2s[c] # <<>>
    /\ LET req  == Head(c2s[c])
           sets == req.cmd = SEVNT
           d    == CASE req.cmd \in Items -> val[req.src][req.cmd]
                     [] req.cmd = GEVNT   -> Code(masks[c][req.src])
                     [] OTHER             -> OK
       IN  /\ masks' = IF sets THEN [masks EXCEPT ![c][req.src] = req.mask] ELSE masks
           /\ s2c' = Write(s2c, c, <<ReplyMsg(req, d)>>
                                     \o IF sets THEN EventMsgs(events, masks'[c]) ELSE <<>>)
    /\ c2s' = [c2s EXCEPT ![c] = Tail(@)]
    /\ UNCHANGED <<conn, accepted, events, val, told, gone>>

\* Only a client that has closed its end is removed, in its turn.
Forget(c) ==
    /\ c \in accepted \ told
    /\ conn[c] = "closed"
    /\ conn' = [conn EXCEPT ![c] = "none"]
    /\ c2s' = [c2s EXCEPT ![c] = <<>>]
    /\ s2c' = [s2c EXCEPT ![c] = <<>>]
    /\ accepted' = accepted \ {c}
    /\ masks' = [masks EXCEPT ![c] = NoMask]
    /\ told' = told \cup {c}
    /\ gone' = gone + 1
    /\ UNCHANGED <<events, val>>

-----------------------------------------------------------------------------
(* The clients *)

Connect(c) ==
    /\ conn[c] = "none"
    /\ conn' = [conn EXCEPT ![c] = "pending"]
    /\ UNCHANGED <<c2s, s2c>>

Send(c, req) ==
    /\ conn[c] \in {"pending", "open"}
    /\ c2s' = [c2s EXCEPT ![c] = Append(@, req)]
    /\ UNCHANGED <<conn, s2c>>

Receive(c) ==
    /\ conn[c] = "open" /\ s2c[c] # <<>>
    /\ s2c' = [s2c EXCEPT ![c] = Tail(@)]
    /\ UNCHANGED <<conn, c2s>>

Disconnect(c) ==
    /\ conn[c] \in {"pending", "open"}
    /\ conn' = [conn EXCEPT ![c] = "closed"]
    /\ s2c' = [s2c EXCEPT ![c] = <<>>]
    /\ UNCHANGED c2s

Client(c) ==
    /\ Connect(c) \/ (\E req \in Requests : Send(c, req)) \/ Receive(c) \/ Disconnect(c)
    /\ UNCHANGED <<accepted, masks, events, val, told, gone>>

Next ==
    \/ Update
    \/ \E c \in Conns : Accept(c) \/ Tell(c) \/ Answer(c) \/ Forget(c) \/ Client(c)

Spec == Init /\ [][Next]_vars

=============================================================================
