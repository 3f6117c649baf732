----------------------------- MODULE RdsSystem -----------------------------
(***************************************************************************)
(* The daemon (RdsServer) with an application that uses librds on one      *)
(* connection (RdsConnection), next to clients that may do anything.       *)
(***************************************************************************)
EXTENDS RdsServer, RdsConnection

CONSTANTS
    GetCommands,    \* commands behind the Get functions and EnumSources() it calls
    BufferCommands, \* the commands of the functions with a buffer that it calls
    Masks,          \* event masks it sets
    Closes          \* whether it closes the connection

ASSUME GetCommandsAssumption == GetCommands \subseteq Items \cup {GEVNT, ESRC}
ASSUME BufferAssumption      == BufferCommands \subseteq BufferItems
ASSUME MasksAssumption       == Masks \subseteq SUBSET Items
ASSUME ClosesAssumption      == Closes \in BOOLEAN

sysvars == <<vars, cnnvars>>

SysInit == Init /\ InitConnection

Open  == \/ OpenSucceeds /\ Connect(me)
         \/ OpenFails /\ UNCHANGED vars
Close == \/ CloseSucceeds /\ Disconnect(me)
         \/ CloseFails /\ UNCHANGED vars

\* Any call, at any time.
Application ==
    \/ Open
    \/ Closes /\ Close
    \/ /\ \/ \E s \in Sources, cmd \in GetCommands :
                CallGet(IF cmd = ESRC THEN NoSource ELSE s, cmd)
          \/ \E s \in Sources, mask \in Masks : CallSetEventMask(s, mask)
          \/ \E s \in Sources : CallGetEvent(s)
          \/ \E s \in Sources, it \in BufferCommands :
                CallSize(s, it) \/ CallTextKept(s, it) \/ CallText(s, it)
       /\ UNCHANGED srvvars

Library == CallStep /\ UNCHANGED srvvars
Daemon  == WorkLoop /\ UNCHANGED cnnvars
Others  == UNCHANGED cnnvars /\ \E c \in Conns \ {me} : ClientStep(c)

SysNext == Application \/ Library \/ Daemon \/ Others

SysSpec == SysInit /\ [][SysNext]_sysvars

\* The daemon keeps running, and a call goes on as long as it can: messages
\* are finite, so read() cannot stop inside one for ever.
SysFairSpec ==
    /\ SysSpec
    /\ WF_sysvars(Daemon)
    /\ WF_sysvars(Library)
    /\ SF_sysvars(Library /\ Read /\ todo' # <<>>)

-----------------------------------------------------------------------------
(* Properties *)

\* A request, or a message, that is about a command.
Asks(req, k)  == <<req.src, req.cmd>> = k
Answers(m, k) == m.kind = "reply" /\ <<m.src, m.cmd>> = k

\* Where a command is on its way: as a request to the daemon, as a reply in the
\* socket, or as one that has been read and is to be scanned.
InFlight(k) ==
    {<<"c2s", n>> : n \in {m \in DOMAIN c2s[me] : Asks(c2s[me][m], k)}}
      \cup {<<"s2c", n>> : n \in {m \in DOMAIN s2c[me] : Answers(s2c[me][m], k)}}
      \cup {<<"todo", n>> : n \in {m \in DOMAIN todo : Answers(todo[m], k)}}

\* The table of commands knows what is outstanding: a command whose status is
\* RCS_WAITING has exactly one request or reply on the way, any other has none.
\* So a timed-out call neither leaves an answer that a later request could
\* mistake for its own nor keeps the later call waiting for nothing, and the
\* client's socket never holds more requests than there are commands, so that
\* the daemon and a client cannot both block in write().  Not so for esrc: its
\* reply names no source and goes to the source read_str begins with.  Nor with
\* two sources: then the reply of one may go to the other in the same way.
OneOutstanding ==
    sock_fd = "open" =>
        \A k \in Keys : k[2] # ESRC =>
            IF status[k] = "WAITING"
            THEN \E o \in InFlight(k) : InFlight(k) = {o}
            ELSE InFlight(k) = {}

\* rdsconnection.cpp, GetEvent(): it "will return all event flags that were
\* set since the last call".
AllEventsReturned ==
    \A s \in Sources : s < Len(rcvd_events) => heard[s] \subseteq rcvd_events[s + 1]

\* The events that GetEvent() will return for a source.
Recorded(s) == IF s < Len(rcvd_events) THEN rcvd_events[s + 1] ELSE {}

\* No event is forgotten on the way from the message to GetEvent(), but for those
\* whose message was read as part of another number: neither by events of other
\* sources, nor by calls that time out, nor by GetEvent() for another source.
EventsRecorded == \A s \in Sources : heard[s] \subseteq Recorded(s) \cup lost[s]

\* librds.cpp, rds_set_event_mask(): it returns RDS_OK on success, and the
\* daemon uses the mask then: as long as no call has to give up waiting.
MaskTakesEffect ==
    ~delayed /\ result.fn = "set" /\ result.ret = "RDS_OK"
        => event_masks[me][result.src] = result.mask

\* The size that a call has told is the size of what the next call copies, and
\* the source is the same, whatever has been received and asked for in between:
\* as long as an application asks for size and data of one source in turn.
TextAsSized ==
    result.fn = "kept" /\ result.sized.src = result.src =>
        result.data = result.sized.data

\* librds.h, RDS_REQUEST_TIMEOUT: "There was no response from rdsd within the time
\* limit": a call that waits for an answer returns, with it or without.  librds.cpp,
\* rds_get_event(): "It will return if one or more of the events set with
\* rds_set_event_mask() are signaled": it does not wait with events in its hands.
CallsReturn ==
    /\ cpc # "idle"
    /\ call.fn = "event" =>
          /\ call.src < Len(rcvd_events)
          /\ rcvd_events[call.src + 1] # {}
    ~> cpc = "idle"

=============================================================================
