----------------------------- MODULE RdsProtocol -----------------------------
(***************************************************************************)
(* What rdsd and librds share: the data items of a source with their event *)
(* bits, the messages of the text protocol, and the socket connections     *)
(* between the clients and the daemon.                                     *)
(*                                                                         *)
(* A connection is a pair of byte streams that neither lose nor reorder    *)
(* anything; the model keeps them as queues of whole messages.             *)
(***************************************************************************)
EXTENDS Integers, SequencesExt

CONSTANTS
    Conns,          \* client connections
    NumSources      \* RDS sources of the daemon

ASSUME NumSourcesAssumption == NumSources \in Nat \ {0}

Sources == 0..(NumSources - 1)

\* The commands that query a data item, and the event bit that reports a
\* change of the item (RDS_EVENT_*).
EventBit ==
    [rflags |-> 1,    picode |-> 2,    ptype |-> 4,     pname |-> 8,
     utcdt  |-> 16,   locdt  |-> 32,   rtxt  |-> 64,    lrtxt |-> 128,
     tmc    |-> 256,  gstat  |-> 512,  aflist |-> 1024, rxfre |-> 2048,
     rxsig  |-> 4096]

Items == DOMAIN EventBit

\* rds_events_t: a set of bits travels as one decimal number.  Bits that stand
\* for no event are dropped by Decode.
Code(evts) ==
    LET Bit(it) == IF it \in evts THEN EventBit[it] ELSE 0
    IN  Bit("rflags") + Bit("picode") + Bit("ptype") + Bit("pname") + Bit("utcdt")
        + Bit("locdt") + Bit("rtxt") + Bit("lrtxt") + Bit("tmc") + Bit("gstat")
        + Bit("aflist") + Bit("rxfre") + Bit("rxsig")
Decode(code) == {i \in Items : (code \div EventBit[i]) % 2 = 1}

\* Requests: a command for a source; "sevnt" carries the new event mask.
ESRC  == "esrc"
SEVNT == "sevnt"
GEVNT == "gevnt"
Commands == Items \cup {SEVNT, GEVNT, ESRC}
NoSource == -1                              \* esrc names no source

Request ==
    [src : Sources, cmd : Items \cup {SEVNT, GEVNT}, mask : SUBSET Items]
      \cup [src : {NoSource}, cmd : {ESRC}, mask : {{}}]

\* Messages of the daemon: "!src:events", or the reply to a request, whose
\* data is a number: the version of the item, the code of a mask, or OK.
OK == 0
EventMsg(s, evts) == [kind |-> "event", src |-> s, evts |-> evts]
ReplyMsg(req, d)  == [kind |-> "reply", src |-> req.src, cmd |-> req.cmd, data |-> d]

Message ==
    [kind : {"event"}, src : Sources, evts : SUBSET Items]
      \cup [kind : {"reply"}, src : Sources, cmd : Items \cup {SEVNT, GEVNT}, data : Nat]
      \cup [kind : {"reply"}, src : {NoSource}, cmd : {ESRC}, data : Nat]

\* What CheckEvents() writes to a client, source by source: the events that are
\* raised and in its mask.
EventMsgs(evts, mask) ==
    LET Told(s) == evts[s] \cap mask[s]
    IN  FlattenSeq([n \in 1..NumSources |->
            IF Told(n - 1) = {} THEN <<>> ELSE <<EventMsg(n - 1, Told(n - 1))>>])

VARIABLES
    conn,   \* state of each connection, seen by both ends
    c2s,    \* requests written by the client, not yet read by the daemon
    s2c     \* messages written by the daemon, not yet read by the client

chanvars == <<conn, c2s, s2c>>

\* "none":    not connected (yet, or any more)
\* "pending": connected by the client, waiting in the daemon's backlog
\* "open":    accepted
\* "closed":  closed by the client, the daemon has not noticed
\* "reset":   the daemon is gone, the client has not noticed
ConnState == {"none", "pending", "open", "closed", "reset"}

ChannelTypeOK ==
    /\ conn \in [Conns -> ConnState]
    /\ c2s \in [Conns -> Seq(Request)]
    /\ s2c \in [Conns -> Seq(Message)]

\* What is written to a connection whose reader is gone is lost.
Write(queues, c, msgs) ==
    [queues EXCEPT ![c] = IF conn[c] = "closed" THEN @ ELSE @ \o msgs]

=============================================================================
