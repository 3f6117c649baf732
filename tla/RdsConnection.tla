--------------------------- MODULE RdsConnection ---------------------------
(***************************************************************************)
(* librds: one RDSconnection object (rdsconnection.cpp) with its table of  *)
(* commands (rdsdcommandlist.cpp), used by one thread of an application.   *)
(*                                                                         *)
(* The library caches the last reply to every command.  A call that needs  *)
(* an answer sends the command once and runs process() until the answer is *)
(* there; process() reads whatever has arrived and sends a new request for *)
(* every item an event message names.                                      *)
(***************************************************************************)
EXTENDS RdsProtocol, SequencesExt

CONSTANTS
    me,             \* the connection of this object
    Delays,         \* whether timeout_time_msec may pass during a call: TRUE, FALSE
    ULONG_MAX       \* the largest number that StringToEvnt() can read

ASSUME MeAssumption         == me \in Conns
ASSUME DelaysAssumption     == Delays \subseteq BOOLEAN
ASSUME OneDigitSources      == NumSources <= 10
ASSUME UlongAssumption      == ULONG_MAX \in Nat

\* Commands by which the library knows requests and replies: "src:cmd".
Keys == (Sources \X (Commands \ {ESRC})) \cup ((Sources \cup {NoSource}) \X {ESRC})

VARIABLES
    sock_fd,    \* "none" (-1), "open", or "stale": closed, but still >= 0
    status,     \* RdsdCommand::status of each command
    data,       \* RdsdCommand::data of each command
    read_str,   \* the event messages that read_str still holds
    todo,       \* complete messages in read_buf that process() has to scan
    rcvd_events,\* rcvd_events, by source from 1
    cpc,        \* where the thread is: "idle", "wait", "scan"
    call,       \* the call it is in
    result,     \* what the last call returned
    kept,       \* have_tmc_data, tmc_data and the like: what a call was told the size of
    heard,      \* history: events named in the messages since GetEvent()
    lost,       \* history: events whose message was not read for what it said
    sized,      \* history: the source and the data of the last such call
    delayed     \* environment: whether answers may be late; never changes

cnnvars == <<sock_fd, status, data, read_str, todo, rcvd_events, cpc, call, result,
             heard, lost, delayed, kept, sized>>

\* Event messages are not removed from read_str: what it holds reads as the
\* number before the first colon, and all digits after it as one number.
ReadStr == [num : Sources, code : Nat]
Empty   == [num |-> NoSource, code |-> 0]

\* The items that come in a buffer of the caller's: one call for the size, then
\* one for the data.
BufferItems == {"tmc", "aflist", "gstat"}
Nothing     == -1

Call     == [fn : {"get", "set", "event", "size", "text"}, src : Sources \cup {NoSource},
             cmd : Commands, mask : SUBSET Items]
NoResult == [fn |-> "none"]

InitConnection ==
    /\ sock_fd = "none"
    /\ status = [k \in Keys |-> "REQUEST_NEEDED"]
    /\ data = [k \in Keys |-> OK]
    /\ read_str = Empty
    /\ todo = <<>>
    /\ rcvd_events = <<>>
    /\ cpc = "idle"
    /\ call = NoResult
    /\ result = NoResult
    /\ kept = [it \in BufferItems |-> Nothing]
    /\ heard = [s \in Sources |-> {}]
    /\ lost = [s \in Sources |-> {}]
    /\ sized = [it \in BufferItems |-> NoResult]
    /\ delayed \in Delays

-----------------------------------------------------------------------------
(* Open() and Close() *)

\* Open() succeeds if the object has no descriptor ...
OpenSucceeds ==
    /\ cpc = "idle" /\ sock_fd = "none"
    /\ sock_fd' = "open"
    /\ result' = [fn |-> "open", ret |-> "RDS_OK"]
    /\ UNCHANGED <<status, data, read_str, todo, rcvd_events, cpc, call, heard, lost,
                   delayed, kept, sized>>

\* ... and is refused while it has one.
OpenFails ==
    /\ cpc = "idle" /\ sock_fd # "none"
    /\ result' = [fn |-> "open", ret |-> "RDS_SOCKET_ALREADY_OPEN"]
    /\ UNCHANGED <<sock_fd, status, data, read_str, todo, rcvd_events, cpc, call, heard, lost,
                   delayed, kept, sized>>

\* connect() fails when the daemon is gone; sock_fd keeps its value then, too.
OpenRefused ==
    /\ cpc = "idle" /\ sock_fd = "none"
    /\ sock_fd' = "stale"
    /\ result' = [fn |-> "open", ret |-> "RDS_CONNECT_ERROR"]
    /\ UNCHANGED <<status, data, read_str, todo, rcvd_events, cpc, call, heard, lost,
                   delayed, kept, sized>>

\* close(sock_fd); sock_fd keeps its value.
CloseSucceeds ==
    /\ cpc = "idle" /\ sock_fd = "open"
    /\ sock_fd' = "stale"
    /\ result' = NoResult
    /\ UNCHANGED <<status, data, read_str, todo, rcvd_events, cpc, call, heard, lost,
                   delayed, kept, sized>>

\* There is nothing to close, or no longer: an error that nobody looks at.
CloseFails ==
    /\ cpc = "idle" /\ sock_fd # "open"
    /\ result' = NoResult
    /\ UNCHANGED <<sock_fd, status, data, read_str, todo, rcvd_events, cpc, call, heard, lost,
                   delayed, kept, sized>>

-----------------------------------------------------------------------------
(* The calls of the application *)

\* send_command(): one request per command is outstanding at most.
Request1(s, cmd, mask) == [src |-> s, cmd |-> cmd, mask |-> mask]

\* What the application writes to a daemon that is gone is lost.
Written(reqs) == [c2s EXCEPT ![me] = IF conn[me] = "reset" THEN @ ELSE @ \o reqs]

\* Faults: a request is sent although one is outstanding; an old answer counts.
SendCommandAgain(s, cmd, mask) ==
    /\ c2s' = Written(<<Request1(s, cmd, mask)>>)
    /\ status' = [status EXCEPT ![<<s, cmd>>] = "WAITING"]

SendCommandStale(s, cmd, mask) ==
    IF status[<<s, cmd>>] = "WAITING"
    THEN UNCHANGED <<c2s, status>>
    ELSE /\ c2s' = Written(<<Request1(s, cmd, mask)>>)
         /\ status' = [status EXCEPT ![<<s, cmd>>] =
                          IF @ = "VALID" THEN @ ELSE "WAITING"]

SendCommand(s, cmd, mask) ==
    IF status[<<s, cmd>>] = "WAITING"
    THEN UNCHANGED <<c2s, status>>
    ELSE /\ c2s' = Written(<<Request1(s, cmd, mask)>>)
         /\ status' = [status EXCEPT ![<<s, cmd>>] = "WAITING"]

Enter(fn, s, cmd, mask) ==
    /\ cpc = "idle" /\ sock_fd = "open"
    /\ call' = [fn |-> fn, src |-> s, cmd |-> cmd, mask |-> mask]
    /\ result' = NoResult
    /\ cpc' = "wait"
    /\ UNCHANGED <<conn, s2c, sock_fd, data, read_str, todo, rcvd_events, heard, lost,
                   delayed>>

SendIfNeeded(s, cmd) ==
    IF status[<<s, cmd>>] = "REQUEST_NEEDED"
    THEN SendCommand(s, cmd, {})
    ELSE UNCHANGED <<c2s, status>>

\* GetFlags() and the like, EnumSources(), GetEventMask(): only the first call
\* sends the command.
CallGet(s, cmd) ==
    /\ Enter("get", s, cmd, {})
    /\ SendIfNeeded(s, cmd)
    /\ UNCHANGED <<kept, sized>>

CallSetEventMask(s, mask) ==
    /\ Enter("set", s, SEVNT, mask)
    /\ SendCommand(s, SEVNT, mask)
    /\ UNCHANGED <<kept, sized>>

CallGetEvent(s) ==
    /\ Enter("event", s, SEVNT, {})
    /\ UNCHANGED <<c2s, status, kept, sized>>

\* GetTMCBuffer(), GetAltFreqBuffer(), GetGroupStatisticsBuffer() without a
\* buffer: forget what is kept, and wait for the data to tell their size.
CallSize(s, it) ==
    /\ Enter("size", s, it, {})
    /\ SendIfNeeded(s, it)
    /\ kept' = [kept EXCEPT ![it] = Nothing]
    /\ sized' = [sized EXCEPT ![it] = NoResult]

\* Fault: the buffer is filled from the last reply.
KeptFault(s, it) == IF kept[it] = Nothing THEN Nothing ELSE data[<<s, it>>]

\* The data that go into the buffer without waiting.
KeptData(s, it) == kept[it]

\* With a buffer: the data that are kept, of whatever source, ...
CallTextKept(s, it) ==
    /\ cpc = "idle" /\ sock_fd = "open"
    /\ kept[it] # Nothing
    /\ result' = [fn |-> "kept", src |-> s, cmd |-> it, ret |-> "RDS_OK",
                  data |-> KeptData(s, it), sized |-> sized[it]]
    /\ kept' = [kept EXCEPT ![it] = Nothing]
    /\ sized' = [sized EXCEPT ![it] = NoResult]
    /\ UNCHANGED <<chanvars, sock_fd, status, data, read_str, todo, rcvd_events, cpc, call,
                   heard, lost, delayed>>

\* ... or those of the last reply, cut to the buffer.
CallText(s, it) ==
    /\ Enter("text", s, it, {})
    /\ kept[it] = Nothing
    /\ SendIfNeeded(s, it)
    /\ UNCHANGED <<kept, sized>>

Key == <<call.src, call.cmd>>

Return(ret, d, evts) ==
    /\ cpc' = "idle"
    /\ call' = NoResult
    /\ result' = [fn |-> call.fn, src |-> call.src, cmd |-> call.cmd,
                  mask |-> call.mask, ret |-> ret, data |-> d, evts |-> evts]

\* wait_for_data() finds the answer.
Answered ==
    /\ cpc = "wait" /\ call.fn # "event"
    /\ status[Key] = "VALID"
    /\ Return("RDS_OK", data[Key], {})
    /\ IF call.fn = "size"
       THEN /\ kept' = [kept EXCEPT ![call.cmd] = data[Key]]
            /\ sized' = [sized EXCEPT ![call.cmd] = [src |-> call.src, data |-> data[Key]]]
       ELSE UNCHANGED <<kept, sized>>
    /\ UNCHANGED <<chanvars, sock_fd, status, data, read_str, todo, rcvd_events, heard, lost,
                   delayed>>

-----------------------------------------------------------------------------
(* process() *)

\* read() blocks until there is something, and may end inside a message.
Read ==
    /\ cpc = "wait"
    /\ call.fn # "event" => status[Key] # "VALID"
    /\ s2c[me] # <<>>
    /\ \E k \in 0..Len(s2c[me]) :
          /\ todo' = SubSeq(s2c[me], 1, k)
          /\ s2c' = [s2c EXCEPT ![me] = SubSeq(@, k + 1, Len(@))]
    /\ cpc' = "scan"
    /\ UNCHANGED <<conn, c2s, sock_fd, status, data, read_str, rcvd_events,
                   call, result, heard, lost,
                   delayed, kept, sized>>

\* Fault: the end of file passes for no data.
ReadFailsFault ==
    /\ cpc = "wait"
    /\ call.fn # "event" => status[Key] # "VALID"
    /\ conn[me] = "reset" /\ s2c[me] = <<>>
    /\ cpc' = "scan"
    /\ UNCHANGED <<chanvars, sock_fd, status, data, read_str, todo, rcvd_events, heard,
                   call, result, lost, delayed, kept, sized>>

\* The end of file, or an error, once the daemon is gone.
ReadFails ==
    /\ cpc = "wait"
    /\ call.fn # "event" => status[Key] # "VALID"
    /\ conn[me] = "reset" /\ s2c[me] = <<>>
    /\ Return("RDS_READ_ERROR", OK, {})
    /\ UNCHANGED <<chanvars, sock_fd, status, data, read_str, todo, rcvd_events, heard, lost,
                   delayed, kept, sized>>

\* process_msg(): the source is the number that read_str begins with.
ReplyKey(m) ==
    <<IF read_str = Empty THEN m.src ELSE read_str.num, m.cmd>>

ScanReply ==
    /\ cpc = "scan" /\ todo # <<>>
    /\ LET m == Head(todo)
       IN  /\ m.kind = "reply"
           /\ data' = [data EXCEPT ![ReplyKey(m)] = m.data]
           /\ status' = [status EXCEPT ![ReplyKey(m)] = "VALID"]
    /\ read_str' = Empty
    /\ todo' = Tail(todo)
    /\ UNCHANGED <<chanvars, sock_fd, rcvd_events, cpc, call, result, heard, lost,
                   delayed, kept, sized>>

\* The power of ten that makes room for the digits of a code.
Shift(n) == CASE n < 10 -> 10 [] n < 100 -> 100 [] n < 1000 -> 1000 [] OTHER -> 10000

\* A number that cannot be read is one for all: with more digits it stays unreadable.
UpTo(code) == IF code <= ULONG_MAX THEN code ELSE ULONG_MAX + 1

\* What read_str holds after the message "src:events" has been appended to it.
Appended(m) ==
    LET code == Code(m.evts)
    IN  IF read_str = Empty
        THEN [num |-> m.src, code |-> code]
        ELSE [num |-> read_str.num,
              code |-> UpTo((read_str.code * 10 + m.src) * Shift(code) + code)]

\* StringToEvnt(): the events that a number stands for; no number, no events.
EventsIn(code) == IF code <= ULONG_MAX THEN Decode(code) ELSE {}

\* What is lost once m has been read as items of a source.
LostNow(m, source, items) ==
    [s \in Sources |-> (IF s = m.src THEN lost[s] \cup m.evts ELSE lost[s])
                         \ (IF s = source THEN items ELSE {})]

\* rcvd_events grows to hold the source: the fault forgets what it held.
GrownFault(s) ==
    [n \in 1..(IF Len(rcvd_events) > s THEN Len(rcvd_events) ELSE s + 1) |-> {}]
Grown(s) ==
    [n \in 1..(IF Len(rcvd_events) > s THEN Len(rcvd_events) ELSE s + 1) |->
        IF n <= Len(rcvd_events) THEN rcvd_events[n] ELSE {}]

\* The requests for some items, in the order in which the code looks at the bits.
RequestAll(s, items) ==
    LET If(it) == IF it \in items THEN <<Request1(s, it, {})>> ELSE <<>>
    IN  If("rflags") \o If("picode") \o If("ptype") \o If("pname") \o If("utcdt")
        \o If("locdt") \o If("rtxt") \o If("lrtxt") \o If("tmc") \o If("gstat")
        \o If("aflist") \o If("rxfre") \o If("rxsig")

\* Faults: an event only fetches items that were never fetched; or none.
RefreshMissing(s, items) == {it \in items : status[<<s, it>>] = "REQUEST_NEEDED"}
RefreshNone(s, items) == {}

\* The items an event requests anew: those no answer is outstanding for.
Refresh(s, items) == {it \in items : status[<<s, it>>] # "WAITING"}

\* process_event_msg(): record the events, and request the items anew, or do
\* neither if the number cannot be read.  (Each \E binds one value: TLC evaluates it
\* once, a LET at every use in ENABLED.)
ScanEvent ==
    /\ cpc = "scan" /\ todo # <<>>
    /\ Head(todo).kind = "event"
    /\ \E str \in {Appended(Head(todo))} :
       \E items \in {EventsIn(str.code)} :
       \E needed \in {Refresh(str.num, items)} :
           /\ read_str' = str
           /\ rcvd_events' = IF str.code <= ULONG_MAX
                             THEN [Grown(str.num) EXCEPT ![str.num + 1] = @ \cup items]
                             ELSE rcvd_events
           /\ c2s' = Written(RequestAll(str.num, needed))
           /\ status' = [k \in Keys |-> IF k[1] = str.num /\ k[2] \in needed
                                        THEN "WAITING" ELSE status[k]]
           /\ lost' = LostNow(Head(todo), str.num, items)
    /\ heard' = [heard EXCEPT ![Head(todo).src] = @ \cup Head(todo).evts]
    /\ todo' = Tail(todo)
    /\ UNCHANGED <<conn, s2c, sock_fd, data, cpc, call, result, delayed,
                   kept, sized>>

Scanned == cpc = "scan" /\ todo = <<>>

\* wait_for_data() looks at the clock before it looks at the status again.
GoOn ==
    /\ Scanned /\ call.fn # "event"
    /\ cpc' = "wait"
    /\ UNCHANGED <<chanvars, sock_fd, status, data, read_str, todo, rcvd_events,
                   call, result, heard, lost,
                   delayed, kept, sized>>

TimeOut ==
    /\ delayed
    /\ Scanned /\ call.fn # "event"
    /\ Return("RDS_REQUEST_TIMEOUT", OK, {})
    /\ UNCHANGED <<chanvars, sock_fd, status, data, read_str, todo, rcvd_events, heard, lost,
                   delayed, kept, sized>>

\* GetEvent() returns the events of the source, and forgets them.
EventsReturned ==
    /\ Scanned /\ call.fn = "event"
    /\ call.src < Len(rcvd_events)
    /\ Return("RDS_OK", OK, rcvd_events[call.src + 1])
    /\ rcvd_events' = [rcvd_events EXCEPT ![call.src + 1] = {}]
    /\ heard' = [heard EXCEPT ![call.src] = {}]
    /\ UNCHANGED <<chanvars, sock_fd, status, data, read_str, todo, lost, delayed, kept,
                   sized>>

\* rcvd_events has no entry for a source that has never had an event.
UnknownSource ==
    /\ Scanned /\ call.fn = "event"
    /\ call.src >= Len(rcvd_events)
    /\ Return("RDS_ILL_SRC_NUM", OK, {})
    /\ UNCHANGED <<chanvars, sock_fd, status, data, read_str, todo, rcvd_events, heard, lost,
                   delayed, kept, sized>>

\* The steps of a call that has been entered.
CallStep ==
    \/ Answered \/ Read \/ ReadFails \/ ScanReply \/ ScanEvent
    \/ GoOn \/ TimeOut \/ EventsReturned \/ UnknownSource

ConnectionTypeOK ==
    /\ sock_fd \in {"none", "open", "stale"}
    /\ status \in [Keys -> {"REQUEST_NEEDED", "WAITING", "VALID"}]
    /\ data \in [Keys -> Nat]
    /\ read_str \in ReadStr \cup {Empty}
    /\ todo \in Seq(Message)
    /\ rcvd_events \in Seq(SUBSET Items)
    /\ cpc \in {"idle", "wait", "scan"}
    /\ cpc # "idle" => call \in Call
    /\ heard \in [Sources -> SUBSET Items]
    /\ lost \in [Sources -> SUBSET Items]
    /\ kept \in [BufferItems -> Nat \cup {Nothing}]
    /\ sized \in [BufferItems -> [src : Sources, data : Nat] \cup {NoResult}]
    /\ delayed \in Delays

=============================================================================
