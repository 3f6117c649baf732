--------------------------- MODULE RdsQueryProofs ---------------------------
(***************************************************************************)
(* Proofs about librds and about rdsquery next to the daemon: the types of *)
(* the library and that it forgets no event, for any application; and that *)
(* rdsquery counts its records right, and shows nothing from the cache     *)
(* that the daemon has not called off.                                     *)
(***************************************************************************)
EXTENDS RdsQuery, RdsSystemProofs

-----------------------------------------------------------------------------
(* The inductive invariant of the library, for any number of sources *)

\* What a call is about, a command of the table; and of which it returns what.
CallKnown ==
    cpc # "idle" =>
        /\ Key \in Keys
        /\ call.fn \in {"event", "size"} => call.src \in Sources
        /\ call.fn = "size" => call.cmd \in BufferItems

LibInv ==
    /\ ChannelTypeOK
    /\ pc # "down" => IInv
    /\ ConnectionTypeOK
    /\ CallKnown
    /\ EventsRecorded

-----------------------------------------------------------------------------
(* The inductive invariant of rdsquery *)

\* The library works only for the call that main() is in, and what it returns is of
\* the kind that main() expects.
CallsOfMain ==
    /\ qpc \in {"open", "mask", "event", "show", "exit", "counted"} => cpc = "idle"
    /\ qpc # "done" /\ cpc # "idle" =>
          /\ call.src = src_num
          /\ qpc = "mask_set" => call.fn = "set"
          /\ qpc = "event_got" => call.fn = "event"
          /\ qpc = "shown" => call.fn = "get"
    /\ cpc = "idle" /\ qpc = "event_got" /\ result.ret = "RDS_OK" => result.evts \subseteq Items
    /\ cpc = "idle" /\ qpc = "shown" =>
          /\ result.ret = "RDS_OK" => result.data \in Nat
          /\ ~ delayed /\ pc # "down" => result.ret = "RDS_OK"

\* What has been shown of an item, and what is still to be shown, is enough.
Enough(it, n) == times[it] >= RecordCount \/ times[it] + event_counts[it] >= n

Records ==
    ~ delayed /\ pc # "down" =>
        \A it \in EventMask :
            /\ qpc \in {"event", "event_got"} => Enough(it, RecordCount)
            /\ qpc \in {"show", "shown"} /\ ~ DirectWanted =>
                  Enough(it, IF it \in qevents \ toshow THEN RecordCount + 1 ELSE RecordCount)
            /\ qpc = "counted" => times[it] >= RecordCount

QueryInv ==
    /\ LibInv
    /\ QTypeOK
    /\ CallsOfMain
    /\ Records

-----------------------------------------------------------------------------
(* The inductive invariant of the cache: one source, and rdsquery alone *)

\* An event for an item is among some messages.
HasEvent(Q, it) == \E n \in 1..Len(Q) : Q[n].kind = "event" /\ it \in Q[n].evts

\* Each reply for an item among some messages has the value v, or an event for the
\* item follows, or u holds.
Current(Q, it, v, u) ==
    \A n \in 1..Len(Q) :
        Answers(Q[n], <<src_num, it>>) /\ Q[n].data # v =>
            u \/ \E m \in 1..Len(Q) : m > n /\ Q[m].kind = "event" /\ it \in Q[m].evts

\* What is said of an item in B, the messages of the daemon, and in C, those that have
\* been read, brings its value v to a cache whose value is stale: the last reply has
\* it, or an event behind it, or one that the daemon is going to send.
Flow(B, C, it, v, stale, untold) ==
    /\ Current(B, it, v, untold)
    /\ Current(C, it, v, HasEvent(B, it) \/ untold)
    /\ stale => HasEvent(C, it) \/ HasEvent(B, it) \/ untold

\* The daemon has raised an event in this round, and is going to send it.
Untold(it) == pc # "select" /\ me \notin served /\ it \in events[src_num]

\* The cache has a value that the daemon has changed.
Stale(it) ==
    /\ status[<<src_num, it>>] = "VALID"
    /\ data[<<src_num, it>>] # val[src_num][it]
    /\ it \notin lost[src_num]

Coherent ==
    conn[me] = "open" =>
        \A it \in event_masks[me][src_num] :
            Flow(s2c[me], todo, it, val[src_num][it], Stale(it), Untold(it))

\* Nothing is shown before the mask is set.
MaskKnown ==
    /\ qpc \in {"open", "mask"} => status[<<src_num, SEVNT>>] = "REQUEST_NEEDED"
    /\ qpc = "mask_set" /\ cpc = "idle" /\ result.ret = "RDS_OK" =>
          status[<<src_num, SEVNT>>] = "VALID"
    /\ qpc \in {"event", "event_got", "show", "shown"} => status[<<src_num, SEVNT>>] = "VALID"

\* Until the daemon has the mask there are no events, and nothing is asked for.
MaskFirst ==
    qpc \in {"open", "mask"} \/ MaskSent(src_num) =>
        /\ \A it \in Items : status[<<src_num, it>>] = "REQUEST_NEEDED"
        /\ \A n \in 1..Len(s2c[me]) : s2c[me][n].kind # "event"
        /\ \A n \in 1..Len(todo) : todo[n].kind # "event"
        /\ conn[me] = "open" => event_masks[me][src_num] = {}

\* In every round rdsquery has its turn.
TurnTaken ==
    conn[me] = "open" =>
        /\ me \in Clients
        /\ pc = "clients" => me \in served \/ i = 1
        /\ pc = "requests" => me \in served

\* Once the connection has gone it does not come back.
Gone ==
    \/ pc = "down" /\ conn[me] \in {"reset", "none"}
    \/ pc # "down" /\ qpc = "done" /\ conn[me] \in {"closed", "none"}

Live ==
    /\ SysInv
    /\ qpc # "done"
    /\ sock_fd = IF qpc = "open" THEN "none" ELSE "open"
    /\ MaskKnown
    /\ MaskFirst
    /\ Coherent
    /\ TurnTaken

CacheInv == Gone \/ Live

-----------------------------------------------------------------------------
(* Facts about the operators of the library *)

\* What read_str holds is a number of events of a source.
LEMMA AppendedType ==
    ASSUME NEW m \in EventMessage, read_str \in ReadStr \cup {Empty}
    PROVE  Appended(m) \in ReadStr
  <1>1. m.src \in Sources /\ m.src \in Nat /\ Code(m.evts) \in Nat
    BY CodeType, SourceFacts DEF EventMessage
  <1>2. CASE read_str = Empty
    BY <1>1, <1>2 DEF Appended, ReadStr
  <1>3. CASE read_str # Empty
    <2> PICK code \in Nat : code = Code(m.evts)
      BY <1>1
    <2>1. read_str.num \in Sources /\ read_str.code \in Nat
      BY <1>3 DEF ReadStr
    <2> PICK a \in Nat : a = read_str.code * 10 + m.src
      BY <1>1, <2>1
    <2>2. /\ a * 10 + code \in Nat /\ a * 100 + code \in Nat
          /\ a * 1000 + code \in Nat /\ a * 10000 + code \in Nat
      OBVIOUS
    <2>3. Shift(code) \in {10, 100, 1000, 10000}
      BY DEF Shift
    <2>4. a * Shift(code) + code \in Nat
      BY <2>2, <2>3
    <2>5. UpTo(a * Shift(code) + code) \in Nat
      <3>1. \A n \in Nat : UpTo(n) \in Nat
        BY UlongAssumption DEF UpTo
      <3> QED BY <2>4, <3>1
    <2>6. Appended(m) = [num |-> read_str.num, code |-> UpTo(a * Shift(code) + code)]
      BY <1>3 DEF Appended
    <2> QED BY <2>1, <2>5, <2>6 DEF ReadStr
  <1> QED BY <1>2, <1>3

LEMMA EventsInType ==
    ASSUME NEW code \in Nat PROVE EventsIn(code) \in SUBSET Items
  BY DEF EventsIn, Decode

\* rcvd_events grows, and keeps what it holds.
LEMMA GrownFacts ==
    ASSUME rcvd_events \in Seq(SUBSET Items), NEW s \in Sources
    PROVE  /\ Grown(s) \in Seq(SUBSET Items)
           /\ Len(Grown(s)) >= Len(rcvd_events) /\ Len(Grown(s)) > s
           /\ Len(Grown(s)) \in Nat /\ Len(rcvd_events) \in Nat
           /\ \A n \in 1..Len(rcvd_events) : Grown(s)[n] = rcvd_events[n]
           /\ \A n \in 1..Len(Grown(s)) : Grown(s)[n] \in SUBSET Items
  <1>1. s \in Nat
    BY SourceFacts
  <1> PICK k \in Nat : k = IF Len(rcvd_events) > s THEN Len(rcvd_events) ELSE s + 1
    BY <1>1
  <1> DEFINE g == [n \in 1..k |-> IF n <= Len(rcvd_events) THEN rcvd_events[n] ELSE {}]
  <1>2. Grown(s) = g
    BY DEF Grown
  <1>3. Len(rcvd_events) \in Nat /\ \A n \in 1..Len(rcvd_events) : rcvd_events[n] \in SUBSET Items
    OBVIOUS
  <1>4. \A n \in 1..k : (IF n <= Len(rcvd_events) THEN rcvd_events[n] ELSE {}) \in SUBSET Items
    BY <1>3
  <1>5. g \in [1..k -> SUBSET Items]
    BY <1>4
  <1>6. g \in Seq(SUBSET Items) /\ Len(g) = k
    <2> HIDE DEF g
    <2> QED BY <1>5
  <1>7. k >= Len(rcvd_events) /\ k > s
    BY <1>1, <1>3
  <1>8. \A n \in 1..Len(rcvd_events) : g[n] = rcvd_events[n]
    BY <1>3, <1>7
  <1> HIDE DEF g
  <1> QED BY <1>2, <1>3, <1>5, <1>6, <1>7, <1>8

-----------------------------------------------------------------------------
(* What the library does to its connection *)

\* The connection, whether the daemon is there or not.
ConnectionOK == ChannelTypeOK /\ (pc # "down" => IInv)

LEMMA MyChannel ==
    ASSUME ChannelTypeOK
    PROVE  /\ me \in Conns /\ conn[me] \in ConnState
           /\ c2s[me] \in Seq(Request) /\ s2c[me] \in Seq(Message)
  BY MeAssumption DEF ChannelTypeOK

LEMMA NothingWritten ==
    ASSUME ConnectionOK, UNCHANGED chanvars, UNCHANGED srvvars
    PROVE  ConnectionOK'
  <1>1. UNCHANGED pc /\ ChannelTypeOK'
    BY DEF ConnectionOK, ChannelTypeOK, chanvars, srvvars
  <1> QED BY <1>1, UnseenStep DEF ConnectionOK

LEMMA RequestsWritten ==
    ASSUME ConnectionOK, UNCHANGED <<conn, s2c>>, UNCHANGED srvvars,
           NEW R \in Seq(Request), c2s' = Written(R)
    PROVE  ConnectionOK'
  <1>0. ChannelTypeOK /\ UNCHANGED pc
    BY DEF ConnectionOK, srvvars
  <1>1. CASE conn[me] = "reset"
    <2>1. c2s' = [c2s EXCEPT ![me] = c2s[me]]
      BY <1>1 DEF Written
    <2>2. c2s' = c2s
      BY <1>0, <2>1 DEF ChannelTypeOK
    <2> QED BY <2>2, NothingWritten DEF chanvars
  <1>2. CASE conn[me] # "reset"
    <2>1. c2s' = [c2s EXCEPT ![me] = c2s[me] \o R]
      BY <1>2 DEF Written
    <2>2. c2s[me] \o R \in Seq(Request)
      BY <1>0, MyChannel, ConcatElements
    <2>3. ChannelTypeOK'
      BY <1>0, <2>1, <2>2 DEF ChannelTypeOK
    <2>4. pc # "down" => IInv'
      BY <2>1, AskedStep DEF ConnectionOK
    <2> QED BY <1>0, <2>3, <2>4 DEF ConnectionOK
  <1> QED BY <1>1, <1>2

\* read() takes some of the messages.
LEMMA MessagesTaken ==
    ASSUME ConnectionOK, Read, UNCHANGED srvvars
    PROVE  ConnectionOK' /\ todo' \in Seq(Message)
  <1>0. ChannelTypeOK /\ UNCHANGED pc /\ UNCHANGED <<conn, c2s>>
    BY DEF ConnectionOK, srvvars, Read
  <1> PICK B \in Seq(Message) : B = s2c[me]
    BY <1>0, MyChannel
  <1> PICK j \in 0..Len(B) : /\ todo' = SubSeq(B, 1, j)
                             /\ s2c' = [s2c EXCEPT ![me] = SubSeq(B, j + 1, Len(B))]
    BY DEF Read
  <1>1. SubSeq(B, 1, j) \in Seq(Message) /\ SubSeq(B, j + 1, Len(B)) \in Seq(Message)
    BY SubSeqProperties
  <1>2. s2c' \in [Conns -> Seq(Message)]
    BY <1>0, <1>1 DEF ChannelTypeOK
  <1>3. ChannelTypeOK'
    BY <1>0, <1>2 DEF ChannelTypeOK
  <1>4. c2s \in [Conns -> Seq(Request)] /\ \A d \in Conns : Len(c2s[d]) \in Nat
    BY <1>0 DEF ChannelTypeOK
  <1>5. pc # "down" => IInv'
    <2>1. \A d \in Conns : Len(c2s'[d]) >= Len(c2s[d]) /\ (c2s[d] # <<>> => c2s'[d] # <<>>)
      BY <1>0, <1>4
    <2> QED BY <1>0, <1>2, <1>4, <2>1, ExchangeStep DEF ConnectionOK
  <1> QED BY <1>0, <1>1, <1>3, <1>5 DEF ConnectionOK

\* One request is a request.
LEMMA RequestType ==
    ASSUME NEW s \in Sources \cup {NoSource}, NEW cmd \in Commands, <<s, cmd>> \in Keys,
           NEW mask \in SUBSET Items, cmd = ESRC => s = NoSource /\ mask = {}
    PROVE  <<Request1(s, cmd, mask)>> \in Seq(Request)
  <1>1. cmd # ESRC => s \in Sources /\ cmd \in Items \cup {SEVNT, GEVNT}
    BY DEF Keys, Commands
  <1>2. Request1(s, cmd, mask) \in Request
    BY <1>1 DEF Request1, Request
  <1> QED BY <1>2

-----------------------------------------------------------------------------
(* The steps of a call *)

LEMMA ScanEventTypes ==
    ASSUME LibInv, ScanEvent, UNCHANGED srvvars
    PROVE  LibInv'
  <1> USE DEF LibInv
  <1>0. ConnectionOK
    BY DEF ConnectionOK
  <1> PICK C \in Seq(Message) : C = todo
    BY DEF ConnectionTypeOK
  <1>1. C # <<>> /\ Head(C).kind = "event" /\ todo' = Tail(C)
    BY DEF ScanEvent
  <1>2. Tail(C) \in Seq(Message) /\ Head(C) \in Message
    BY <1>1
  <1> PICK m \in EventMessage : m = Head(C)
    BY <1>1, <1>2 DEF Message, EventMessage
  <1>3. m.src \in Sources /\ m.evts \in SUBSET Items
    BY DEF EventMessage
  <1> PICK str \in ReadStr : str = Appended(m)
    BY AppendedType DEF ConnectionTypeOK
  <1>4. str.num \in Sources /\ str.code \in Nat
    BY DEF ReadStr
  <1> PICK s \in Sources : s = str.num
    BY <1>4
  <1> PICK items \in SUBSET Items : items = EventsIn(str.code)
    BY <1>4, EventsInType
  <1> PICK needed \in SUBSET items : needed = Refresh(s, items)
    BY DEF Refresh
  <1>5. /\ read_str' = str
        /\ rcvd_events' = IF str.code <= ULONG_MAX
                          THEN [Grown(s) EXCEPT ![s + 1] = Grown(s)[s + 1] \cup items]
                          ELSE rcvd_events
        /\ c2s' = Written(RequestAll(s, needed))
        /\ status' = [k \in Keys |-> IF k[1] = s /\ k[2] \in needed THEN "WAITING" ELSE status[k]]
        /\ lost' = LostNow(m, s, items)
        /\ heard' = [heard EXCEPT ![m.src] = heard[m.src] \cup m.evts]
        /\ UNCHANGED <<conn, s2c, sock_fd, data, cpc, call, result, delayed, kept, sized>>
    BY DEF ScanEvent
  <1>6. ConnectionOK'
    <2>1. RequestAll(s, needed) \in Seq(Request)
      BY RequestAllFacts DEF RequestsFor
    <2> QED BY <1>0, <1>5, <2>1, RequestsWritten
  <1>7. /\ heard' \in [Sources -> SUBSET Items] /\ lost' \in [Sources -> SUBSET Items]
        /\ \A t \in Sources : heard'[t] \subseteq heard[t] \cup (IF t = m.src THEN m.evts ELSE {})
        /\ \A t \in Sources :
              lost[t] \cup (IF t = m.src THEN m.evts ELSE {})
                \subseteq lost'[t] \cup (IF t = s THEN items ELSE {})
    BY <1>3, <1>5 DEF ConnectionTypeOK, LostNow
  <1>8. /\ rcvd_events' \in Seq(SUBSET Items)
        /\ \A t \in Sources : Recorded(t) \subseteq Recorded(t)'
        /\ items \subseteq Recorded(s)'
    <2>1. s \in Nat /\ \A t \in Sources : t \in Nat
      BY SourceFacts
    <2>2. rcvd_events \in Seq(SUBSET Items)
      BY DEF ConnectionTypeOK
    <2>3. CASE str.code <= ULONG_MAX
      <3> PICK g \in Seq(SUBSET Items) : g = Grown(s)
        BY <2>2, GrownFacts
      <3>1. /\ Len(g) >= Len(rcvd_events) /\ Len(g) > s /\ Len(g) \in Nat
            /\ Len(rcvd_events) \in Nat
            /\ \A n \in 1..Len(rcvd_events) : g[n] = rcvd_events[n]
            /\ \A n \in 1..Len(g) : g[n] \in SUBSET Items
        BY <2>2, GrownFacts
      <3>2. rcvd_events' = [g EXCEPT ![s + 1] = g[s + 1] \cup items]
        BY <1>5, <2>3
      <3>3. s + 1 \in 1..Len(g) /\ g[s + 1] \cup items \in SUBSET Items
        BY <2>1, <3>1
      <3>4. /\ rcvd_events' \in Seq(SUBSET Items) /\ Len(rcvd_events') = Len(g)
            /\ \A n \in 1..Len(g) : rcvd_events'[n] = IF n = s + 1 THEN g[s + 1] \cup items ELSE g[n]
        BY <3>2, <3>3, ExceptSeq
      <3>5. ASSUME NEW t \in Sources PROVE Recorded(t) \subseteq Recorded(t)'
        <4>1. CASE t < Len(rcvd_events)
          <5>1. t + 1 \in 1..Len(rcvd_events) /\ t + 1 \in 1..Len(g) /\ t < Len(g)
            BY <2>1, <3>1, <4>1
          <5>2. rcvd_events[t + 1] \subseteq rcvd_events'[t + 1]
            BY <3>1, <3>4, <5>1
          <5> QED BY <3>4, <4>1, <5>1, <5>2 DEF Recorded
        <4>2. CASE ~ (t < Len(rcvd_events))
          BY <4>2 DEF Recorded
        <4> QED BY <4>1, <4>2
      <3>6. items \subseteq Recorded(s)'
        BY <3>1, <3>3, <3>4 DEF Recorded
      <3> QED BY <3>4, <3>5, <3>6
    <2>4. CASE ~ (str.code <= ULONG_MAX)
      <3>1. items = {} /\ rcvd_events' = rcvd_events
        BY <1>5, <2>4 DEF EventsIn
      <3> QED BY <2>2, <3>1 DEF Recorded
    <2> QED BY <2>3, <2>4
  <1>9. EventsRecorded'
    <2> SUFFICES ASSUME NEW t \in Sources PROVE heard'[t] \subseteq Recorded(t)' \cup lost'[t]
      BY DEF EventsRecorded
    <2>1. heard[t] \subseteq Recorded(t) \cup lost[t]
      BY DEF EventsRecorded
    <2>2. Recorded(t) \subseteq Recorded(t)'
      BY <1>8
    <2>3. t = s => items \subseteq Recorded(t)'
      BY <1>8
    <2>4. heard'[t] \subseteq heard[t] \cup (IF t = m.src THEN m.evts ELSE {})
      BY <1>7
    <2>5. lost[t] \cup (IF t = m.src THEN m.evts ELSE {})
            \subseteq lost'[t] \cup (IF t = s THEN items ELSE {})
      BY <1>7
    <2> QED BY <2>1, <2>2, <2>3, <2>4, <2>5
  <1>10. ConnectionTypeOK'
    <2>1. status' \in [Keys -> {"REQUEST_NEEDED", "WAITING", "VALID"}]
      BY <1>5 DEF ConnectionTypeOK
    <2>2. todo' \in Seq(Message)
      BY <1>1, <1>2
    <2> QED BY <1>5, <1>7, <1>8, <2>1, <2>2 DEF ConnectionTypeOK
  <1>11. CallKnown'
    BY <1>5 DEF CallKnown, Key
  <1> QED BY <1>6, <1>9, <1>10, <1>11 DEF ConnectionOK

\* A reply is scanned.
LEMMA ScanReplyTypes ==
    ASSUME LibInv, ScanReply, UNCHANGED srvvars
    PROVE  LibInv'
  <1> USE DEF LibInv
  <1>1. ConnectionOK'
    BY NothingWritten DEF ConnectionOK, ScanReply
  <1> PICK C \in Seq(Message) : C = todo
    BY DEF ConnectionTypeOK
  <1>2. C # <<>> /\ Head(C).kind = "reply" /\ todo' = Tail(C)
    BY DEF ScanReply
  <1>3. Tail(C) \in Seq(Message) /\ Head(C) \in Message
    BY <1>2
  <1>4. Head(C).data \in Nat
    BY <1>2, <1>3 DEF Message
  <1>5. /\ data' = [data EXCEPT ![ReplyKey(Head(C))] = Head(C).data]
        /\ status' = [status EXCEPT ![ReplyKey(Head(C))] = "VALID"]
        /\ read_str' = Empty
        /\ UNCHANGED <<sock_fd, rcvd_events, cpc, call, result, heard, lost, delayed, kept, sized>>
    BY DEF ScanReply
  <1>6. ConnectionTypeOK'
    <2>1. data' \in [Keys -> Nat]
      BY <1>4, <1>5 DEF ConnectionTypeOK
    <2>2. status' \in [Keys -> {"REQUEST_NEEDED", "WAITING", "VALID"}]
      BY <1>5 DEF ConnectionTypeOK
    <2>3. todo' \in Seq(Message)
      BY <1>2, <1>3
    <2> QED BY <1>5, <2>1, <2>2, <2>3 DEF ConnectionTypeOK
  <1>7. CallKnown' /\ EventsRecorded'
    BY <1>5 DEF CallKnown, Key, EventsRecorded, Recorded
  <1> QED BY <1>1, <1>6, <1>7 DEF ConnectionOK

\* GetEvent() returns the events of one source, and forgets no other.
LEMMA EventsReturnedTypes ==
    ASSUME LibInv, EventsReturned, UNCHANGED srvvars
    PROVE  LibInv'
  <1> USE DEF LibInv
  <1>1. ConnectionOK'
    BY NothingWritten DEF ConnectionOK, EventsReturned
  <1> PICK g \in Seq(SUBSET Items) : g = rcvd_events
    BY DEF ConnectionTypeOK
  <1>2. cpc # "idle" /\ call.fn = "event" /\ call.src < Len(g)
    BY DEF EventsReturned, Scanned
  <1> PICK s \in Sources : s = call.src
    BY <1>2 DEF CallKnown
  <1>3. /\ rcvd_events' = [g EXCEPT ![s + 1] = {}]
        /\ heard' = [heard EXCEPT ![s] = {}]
        /\ cpc' = "idle"
        /\ UNCHANGED <<sock_fd, status, data, read_str, todo, lost, delayed, kept, sized>>
    BY DEF EventsReturned, Return
  <1>4. \A t \in Sources : t \in Nat
    BY SourceFacts
  <1>5. s + 1 \in 1..Len(g) /\ Len(g) \in Nat /\ {} \in SUBSET Items
    BY <1>2, <1>4
  <1>6. /\ rcvd_events' \in Seq(SUBSET Items) /\ Len(rcvd_events') = Len(g)
        /\ \A n \in 1..Len(g) : rcvd_events'[n] = IF n = s + 1 THEN {} ELSE g[n]
    BY <1>3, <1>5, ExceptSeq
  <1>7. ConnectionTypeOK'
    BY <1>3, <1>6 DEF ConnectionTypeOK
  <1>8. EventsRecorded'
    <2> SUFFICES ASSUME NEW t \in Sources PROVE heard'[t] \subseteq Recorded(t)' \cup lost'[t]
      BY DEF EventsRecorded
    <2>1. heard[t] \subseteq Recorded(t) \cup lost[t] /\ heard \in [Sources -> SUBSET Items]
      BY DEF EventsRecorded, ConnectionTypeOK
    <2>2. CASE t = s
      BY <1>3, <2>1, <2>2
    <2>3. CASE t # s
      <3>1. heard'[t] = heard[t] /\ lost' = lost
        BY <1>3, <2>1, <2>3
      <3>2. Recorded(t)' = Recorded(t)
        <4>1. CASE t < Len(g)
          <5>1. t + 1 \in 1..Len(g) /\ t + 1 # s + 1
            BY <1>4, <1>5, <2>3, <4>1
          <5>2. rcvd_events'[t + 1] = g[t + 1]
            BY <1>6, <5>1
          <5> QED BY <1>6, <4>1, <5>2 DEF Recorded
        <4>2. CASE ~ (t < Len(g))
          BY <1>6, <4>2 DEF Recorded
        <4> QED BY <4>1, <4>2
      <3> QED BY <2>1, <3>1, <3>2
    <2> QED BY <2>2, <2>3
  <1>9. CallKnown'
    BY <1>3 DEF CallKnown
  <1> QED BY <1>1, <1>7, <1>8, <1>9 DEF ConnectionOK

\* The steps that neither scan a message nor return events.
LEMMA OtherCallTypes ==
    ASSUME LibInv, UNCHANGED srvvars,
           Answered \/ Read \/ ReadFails \/ GoOn \/ TimeOut \/ UnknownSource
    PROVE  LibInv'
  <1> USE DEF LibInv
  <1>1. ConnectionOK' /\ todo' \in Seq(Message)
    <2>1. CASE Read
      BY <2>1, MessagesTaken DEF ConnectionOK
    <2>2. CASE ~ Read
      <3>1. UNCHANGED chanvars /\ UNCHANGED todo
        BY <2>2 DEF Answered, ReadFails, GoOn, TimeOut, UnknownSource
      <3> QED BY <3>1, NothingWritten DEF ConnectionOK, ConnectionTypeOK
    <2> QED BY <2>1, <2>2
  <1>2. /\ UNCHANGED <<sock_fd, status, data, read_str, rcvd_events, heard, lost, delayed>>
        /\ cpc' = "idle" \/ (cpc # "idle" /\ cpc' \in {"wait", "scan"} /\ call' = call)
    BY DEF Answered, Read, ReadFails, GoOn, TimeOut, UnknownSource, Return, Scanned
  <1>3. /\ kept' \in [BufferItems -> Nat \cup {Nothing}]
        /\ sized' \in [BufferItems -> [src : Sources, data : Nat] \cup {NoResult}]
    <2>1. CASE UNCHANGED <<kept, sized>>
      BY <2>1 DEF ConnectionTypeOK
    <2>2. CASE /\ Answered /\ call.fn = "size"
               /\ kept' = [kept EXCEPT ![call.cmd] = data[Key]]
               /\ sized' = [sized EXCEPT ![call.cmd] = [src |-> call.src, data |-> data[Key]]]
      <3>1. cpc # "idle"
        BY <2>2 DEF Answered
      <3>2. call.src \in Sources /\ call.cmd \in BufferItems /\ data[Key] \in Nat
        BY <2>2, <3>1 DEF CallKnown, ConnectionTypeOK
      <3>3. kept' \in [BufferItems -> Nat \cup {Nothing}]
        BY <2>2, <3>2 DEF ConnectionTypeOK
      <3>4. [src |-> call.src, data |-> data[Key]] \in [src : Sources, data : Nat] \cup {NoResult}
        BY <3>2
      <3>5. sized' \in [BufferItems -> [src : Sources, data : Nat] \cup {NoResult}]
        BY <2>2, <3>2, <3>4 DEF ConnectionTypeOK
      <3> QED BY <3>3, <3>5
    <2> QED BY <2>1, <2>2 DEF Answered, Read, ReadFails, GoOn, TimeOut, UnknownSource
  <1>4. ConnectionTypeOK'
    BY <1>1, <1>2, <1>3 DEF ConnectionTypeOK
  <1>5. CallKnown'
    BY <1>2 DEF CallKnown, Key
  <1>6. EventsRecorded'
    BY <1>2 DEF EventsRecorded, Recorded
  <1> QED BY <1>1, <1>4, <1>5, <1>6 DEF ConnectionOK

LEMMA LibraryTypes ==
    ASSUME LibInv, Library
    PROVE  LibInv'
  BY ScanEventTypes, ScanReplyTypes, EventsReturnedTypes, OtherCallTypes DEF Library, CallStep

-----------------------------------------------------------------------------
(* The calls, and what goes on outside of the library *)

\* The commands that the library sends are in its table.
LEMMA CommandFacts ==
    /\ \A s \in Sources, cmd \in Items \cup {SEVNT, GEVNT} : <<s, cmd>> \in Keys
    /\ <<NoSource, ESRC>> \in Keys
    /\ Items \cup {SEVNT, GEVNT, ESRC} = Commands
    /\ SEVNT \notin Items /\ ESRC \notin Items /\ ESRC # SEVNT /\ ESRC # GEVNT
    /\ BufferItems \subseteq Items /\ {} \in SUBSET Items
  BY DEF Keys, Commands, Items, EventBit, ESRC, SEVNT, GEVNT, BufferItems

\* A call is entered, and sends its command or does not.
LEMMA EnterTypes ==
    ASSUME LibInv, UNCHANGED srvvars,
           NEW fn \in {"get", "set", "event", "size", "text"},
           NEW s \in Sources \cup {NoSource}, NEW cmd \in Commands, NEW mask \in SUBSET Items,
           Enter(fn, s, cmd, mask), <<s, cmd>> \in Keys,
           cmd = ESRC => s = NoSource /\ mask = {},
           fn \in {"event", "size"} => s \in Sources, fn = "size" => cmd \in BufferItems,
           UNCHANGED <<c2s, status>> \/ SendCommand(s, cmd, mask),
           kept' \in [BufferItems -> Nat \cup {Nothing}],
           sized' \in [BufferItems -> [src : Sources, data : Nat] \cup {NoResult}]
    PROVE  LibInv'
  <1> USE DEF LibInv
  <1>1. /\ UNCHANGED <<conn, s2c, sock_fd, data, read_str, todo, rcvd_events, heard, lost, delayed>>
        /\ cpc' = "wait"
        /\ call' = [fn |-> fn, src |-> s, cmd |-> cmd, mask |-> mask]
    BY DEF Enter
  <1>2. \/ UNCHANGED <<c2s, status>>
        \/ /\ c2s' = Written(<<Request1(s, cmd, mask)>>)
           /\ status' = [status EXCEPT ![<<s, cmd>>] = "WAITING"]
    BY DEF SendCommand
  <1>3. ConnectionOK'
    <2>1. CASE UNCHANGED <<c2s, status>>
      BY <1>1, <2>1, NothingWritten DEF ConnectionOK, chanvars
    <2>2. CASE c2s' = Written(<<Request1(s, cmd, mask)>>)
      <3>1. <<Request1(s, cmd, mask)>> \in Seq(Request)
        BY RequestType
      <3> PICK R \in Seq(Request) : R = <<Request1(s, cmd, mask)>>
        BY <3>1
      <3>2. c2s' = Written(R) /\ UNCHANGED <<conn, s2c>>
        BY <1>1, <2>2
      <3> QED BY <3>2, RequestsWritten DEF ConnectionOK
    <2> QED BY <1>2, <2>1, <2>2
  <1>4. ConnectionTypeOK'
    <2>1. call' \in Call
      BY <1>1 DEF Call
    <2>2. status' \in [Keys -> {"REQUEST_NEEDED", "WAITING", "VALID"}]
      BY <1>2 DEF ConnectionTypeOK
    <2> QED BY <1>1, <2>1, <2>2 DEF ConnectionTypeOK
  <1>5. CallKnown'
    BY <1>1 DEF CallKnown, Key
  <1>6. EventsRecorded'
    BY <1>1 DEF EventsRecorded, Recorded
  <1> QED BY <1>3, <1>4, <1>5, <1>6 DEF ConnectionOK

\* Open() and Close() do not touch the table.
LEMMA OpenCloseTypes ==
    ASSUME LibInv, ConnectionOK',
           OpenSucceeds \/ OpenFails \/ OpenRefused \/ CloseSucceeds \/ CloseFails
    PROVE  LibInv'
  <1> USE DEF LibInv
  <1>1. /\ UNCHANGED <<status, data, read_str, todo, rcvd_events, cpc, heard, lost, delayed, kept, sized>>
        /\ cpc' = "idle" /\ sock_fd' \in {"none", "open", "stale"}
    BY DEF OpenSucceeds, OpenFails, OpenRefused, CloseSucceeds, CloseFails, ConnectionTypeOK
  <1>2. ConnectionTypeOK'
    BY <1>1 DEF ConnectionTypeOK
  <1>3. CallKnown' /\ EventsRecorded'
    BY <1>1 DEF CallKnown, EventsRecorded, Recorded
  <1> QED BY <1>2, <1>3 DEF ConnectionOK

\* The daemon and other clients do not touch the library.
LEMMA ElsewhereTypes ==
    ASSUME LibInv, ConnectionOK', UNCHANGED cnnvars
    PROVE  LibInv'
  BY DEF LibInv, ConnectionOK, cnnvars, ConnectionTypeOK, CallKnown, Key, EventsRecorded, Recorded

\* What a client does to its connection, whether the daemon is there or not.
LEMMA ClientConnection ==
    ASSUME ConnectionOK, NEW c \in Conns, ClientStep(c)
    PROVE  ConnectionOK'
  <1>1. CASE pc # "down"
    <2>1. IInv'
      BY <1>1, NextInv DEF ConnectionOK, Next
    <2> QED BY <2>1 DEF ConnectionOK, IInv, TypeOK
  <1>2. CASE pc = "down"
    <2> USE DEF ConnectionOK, ChannelTypeOK
    <2>1. UNCHANGED pc /\ ~ Connect(c)
      BY <1>2 DEF ClientStep, Connect, Send, Receive, Disconnect, srvvars
    <2>2. ASSUME NEW req \in Requests, Send(c, req) PROVE ChannelTypeOK'
      <3>1. Append(c2s[c], req) \in Seq(Request)
        BY RequestsAssumption
      <3> QED BY <2>2, <3>1 DEF Send
    <2>3. ASSUME Receive(c) PROVE ChannelTypeOK'
      <3>1. Tail(s2c[c]) \in Seq(Message)
        BY <2>3, HeadTailProperties DEF Receive
      <3> QED BY <2>3, <3>1 DEF Receive
    <2>4. ASSUME Disconnect(c) PROVE ChannelTypeOK'
      <3>1. <<>> \in Seq(Message)
        OBVIOUS
      <3>2. s2c' \in [Conns -> Seq(Message)]
        BY <2>4, <3>1 DEF Disconnect
      <3>3. conn' \in [Conns -> ConnState]
        BY <2>4 DEF Disconnect, ConnState
      <3> QED BY <2>4, <3>2, <3>3 DEF Disconnect
    <2> QED BY <1>2, <2>1, <2>2, <2>3, <2>4 DEF ClientStep
  <1> QED BY <1>1, <1>2

\* The daemon.
LEMMA DaemonConnection ==
    ASSUME ConnectionOK, WorkLoop
    PROVE  ConnectionOK'
  <1>1. pc # "down"
    BY DEF WorkLoop, Select, AcceptUnix, AcceptInet, Accept, ServeClient, ExecCmd, EndOfRound
  <1>2. IInv'
    BY <1>1, NextInv DEF ConnectionOK, Next
  <1> QED BY <1>2 DEF ConnectionOK, IInv, TypeOK

\* It goes, at any step, and what it has sent may be lost.
LEMMA CrashConnection ==
    ASSUME ConnectionOK, Crash
    PROVE  ConnectionOK'
  <1>1. \A c \in Conns : (IF conn[c] \in {"pending", "open"} THEN "reset" ELSE "none") \in ConnState
    BY DEF ConnState
  <1>2. <<>> \in Seq(Request) /\ <<>> \in Seq(Message)
    OBVIOUS
  <1>3. conn' \in [Conns -> ConnState]
    BY <1>1 DEF Crash
  <1>4. c2s' \in [Conns -> Seq(Request)]
    BY <1>2 DEF Crash
  <1>5. s2c' \in [Conns -> Seq(Message)]
    BY <1>2 DEF Crash, ConnectionOK, ChannelTypeOK
  <1>6. pc' = "down"
    BY DEF Crash
  <1> QED BY <1>3, <1>4, <1>5, <1>6 DEF ConnectionOK, ChannelTypeOK

\* The calls of any application.
LEMMA GetTypes ==
    ASSUME LibInv, UNCHANGED srvvars, NEW s \in Sources, NEW cmd \in Items \cup {GEVNT, ESRC},
           CallGet(IF cmd = ESRC THEN NoSource ELSE s, cmd)
    PROVE  LibInv'
  <1> PICK t \in Sources \cup {NoSource} : t = IF cmd = ESRC THEN NoSource ELSE s
    OBVIOUS
  <1>1. <<t, cmd>> \in Keys /\ cmd \in Commands /\ (cmd = ESRC => t = NoSource)
    BY CommandFacts
  <1>2. Enter("get", t, cmd, {}) /\ SendIfNeeded(t, cmd) /\ UNCHANGED <<kept, sized>>
    BY DEF CallGet
  <1>3. UNCHANGED <<c2s, status>> \/ SendCommand(t, cmd, {})
    BY <1>2 DEF SendIfNeeded
  <1>4. /\ kept' \in [BufferItems -> Nat \cup {Nothing}]
        /\ sized' \in [BufferItems -> [src : Sources, data : Nat] \cup {NoResult}]
    BY <1>2 DEF LibInv, ConnectionTypeOK
  <1> QED BY <1>1, <1>2, <1>3, <1>4, EnterTypes

LEMMA SetMaskTypes ==
    ASSUME LibInv, UNCHANGED srvvars, NEW s \in Sources, NEW mask \in SUBSET Items,
           CallSetEventMask(s, mask)
    PROVE  LibInv'
  <1>1. <<s, SEVNT>> \in Keys /\ SEVNT \in Commands /\ SEVNT # ESRC
    BY CommandFacts
  <1>2. /\ Enter("set", s, SEVNT, mask) /\ SendCommand(s, SEVNT, mask)
        /\ kept' \in [BufferItems -> Nat \cup {Nothing}]
        /\ sized' \in [BufferItems -> [src : Sources, data : Nat] \cup {NoResult}]
    BY DEF CallSetEventMask, LibInv, ConnectionTypeOK
  <1> QED BY <1>1, <1>2, EnterTypes

LEMMA GetEventTypes ==
    ASSUME LibInv, UNCHANGED srvvars, NEW s \in Sources, CallGetEvent(s)
    PROVE  LibInv'
  <1>1. <<s, SEVNT>> \in Keys /\ SEVNT \in Commands /\ SEVNT # ESRC /\ {} \in SUBSET Items
    BY CommandFacts
  <1>2. /\ Enter("event", s, SEVNT, {}) /\ UNCHANGED <<c2s, status>>
        /\ kept' \in [BufferItems -> Nat \cup {Nothing}]
        /\ sized' \in [BufferItems -> [src : Sources, data : Nat] \cup {NoResult}]
    BY DEF CallGetEvent, LibInv, ConnectionTypeOK
  <1> QED BY <1>1, <1>2, EnterTypes

LEMMA BufferTypes ==
    ASSUME LibInv, UNCHANGED srvvars, NEW s \in Sources, NEW it \in BufferItems,
           CallSize(s, it) \/ CallTextKept(s, it) \/ CallText(s, it)
    PROVE  LibInv'
  <1>1. <<s, it>> \in Keys /\ it \in Commands /\ it # ESRC /\ {} \in SUBSET Items
    BY CommandFacts
  <1>2. /\ kept' \in [BufferItems -> Nat \cup {Nothing}]
        /\ sized' \in [BufferItems -> [src : Sources, data : Nat] \cup {NoResult}]
    <2>1. \/ UNCHANGED <<kept, sized>>
          \/ kept' = [kept EXCEPT ![it] = Nothing] /\ sized' = [sized EXCEPT ![it] = NoResult]
      BY DEF CallSize, CallTextKept, CallText
    <2> QED BY <2>1 DEF LibInv, ConnectionTypeOK
  <1>3. CASE CallTextKept(s, it)
    <2>1. /\ UNCHANGED <<chanvars, sock_fd, status, data, read_str, todo, rcvd_events, cpc, call,
                         heard, lost, delayed>>
          /\ cpc = "idle"
      BY <1>3 DEF CallTextKept
    <2>2. ConnectionOK'
      BY <2>1, NothingWritten DEF LibInv, ConnectionOK
    <2>3. ConnectionTypeOK'
      BY <1>2, <2>1 DEF LibInv, ConnectionTypeOK
    <2>4. CallKnown' /\ EventsRecorded'
      BY <2>1 DEF LibInv, CallKnown, EventsRecorded, Recorded
    <2> QED BY <2>2, <2>3, <2>4 DEF LibInv, ConnectionOK
  <1>4. CASE CallSize(s, it)
    <2>1. Enter("size", s, it, {}) /\ (UNCHANGED <<c2s, status>> \/ SendCommand(s, it, {}))
      BY <1>4 DEF CallSize, SendIfNeeded
    <2> QED BY <1>1, <1>2, <2>1, EnterTypes
  <1>5. CASE CallText(s, it)
    <2>1. Enter("text", s, it, {}) /\ (UNCHANGED <<c2s, status>> \/ SendCommand(s, it, {}))
      BY <1>5 DEF CallText, SendIfNeeded
    <2> QED BY <1>1, <1>2, <2>1, EnterTypes
  <1> QED BY <1>3, <1>4, <1>5

LEMMA OpenTypes ==
    ASSUME LibInv, Open \/ (OpenRefused /\ UNCHANGED vars) PROVE LibInv'
  <1>1. ConnectionOK'
    <2>1. CASE UNCHANGED vars
      BY <2>1, NothingWritten DEF LibInv, ConnectionOK, vars
    <2>2. CASE Connect(me)
      BY <2>2, ClientConnection, MeAssumption DEF LibInv, ConnectionOK, ClientStep
    <2> QED BY <2>1, <2>2 DEF Open
  <1>2. OpenSucceeds \/ OpenFails \/ OpenRefused
    BY DEF Open
  <1> QED BY <1>1, <1>2, OpenCloseTypes

LEMMA CloseTypes ==
    ASSUME LibInv, Close PROVE LibInv'
  <1>1. ConnectionOK'
    <2>1. CASE UNCHANGED vars
      BY <2>1, NothingWritten DEF LibInv, ConnectionOK, vars
    <2>2. CASE Disconnect(me)
      BY <2>2, ClientConnection, MeAssumption DEF LibInv, ConnectionOK, ClientStep
    <2> QED BY <2>1, <2>2 DEF Close
  <1>2. CloseSucceeds \/ CloseFails
    BY DEF Close
  <1> QED BY <1>1, <1>2, OpenCloseTypes

LEMMA ElsewhereStep ==
    ASSUME LibInv, Daemon \/ Others PROVE LibInv'
  <1>1. ConnectionOK'
    <2>1. CASE Daemon
      BY <2>1, DaemonConnection DEF LibInv, ConnectionOK, Daemon
    <2>2. CASE Others
      BY <2>2, ClientConnection DEF LibInv, ConnectionOK, Others
    <2> QED BY <2>1, <2>2
  <1> QED BY <1>1, ElsewhereTypes DEF Daemon, Others

\* At first there is nothing.
LEMMA LibInitInv == SysInit => LibInv
  <1> SUFFICES ASSUME SysInit PROVE LibInv
    OBVIOUS
  <1>1. IInv
    BY InitInv DEF SysInit
  <1>2. ConnectionTypeOK
    <2>1. <<>> \in Seq(Message) /\ <<>> \in Seq(SUBSET Items)
      OBVIOUS
    <2>2. /\ data \in [Keys -> Nat] /\ status \in [Keys -> {"REQUEST_NEEDED", "WAITING", "VALID"}]
          /\ heard \in [Sources -> SUBSET Items] /\ lost \in [Sources -> SUBSET Items]
          /\ kept \in [BufferItems -> Nat \cup {Nothing}]
          /\ sized \in [BufferItems -> [src : Sources, data : Nat] \cup {NoResult}]
      BY DEF SysInit, InitConnection, OK
    <2> QED BY <2>1, <2>2 DEF SysInit, InitConnection, ConnectionTypeOK
  <1>3. CallKnown /\ EventsRecorded
    BY DEF SysInit, InitConnection, CallKnown, EventsRecorded
  <1> QED BY <1>1, <1>2, <1>3 DEF LibInv, IInv, TypeOK

LEMMA LibNextInv == LibInv /\ [SysNext]_sysvars => LibInv'
  <1> SUFFICES ASSUME LibInv, [SysNext]_sysvars PROVE LibInv'
    OBVIOUS
  <1>1. CASE UNCHANGED sysvars
    <2>1. UNCHANGED cnnvars /\ UNCHANGED chanvars /\ UNCHANGED srvvars
      BY <1>1 DEF sysvars, vars
    <2> QED BY <2>1, NothingWritten, ElsewhereTypes DEF LibInv, ConnectionOK
  <1>2. CASE Application
    <2>1. CASE UNCHANGED srvvars /\ \E s \in Sources, cmd \in GetCommands :
                  CallGet(IF cmd = ESRC THEN NoSource ELSE s, cmd)
      BY <2>1, GetTypes, GetCommandsAssumption
    <2>2. CASE UNCHANGED srvvars /\ \E s \in Sources, mask \in Masks : CallSetEventMask(s, mask)
      BY <2>2, SetMaskTypes, MasksAssumption
    <2>3. CASE UNCHANGED srvvars /\ \E s \in Sources : CallGetEvent(s)
      BY <2>3, GetEventTypes
    <2>4. CASE UNCHANGED srvvars /\ \E s \in Sources, it \in BufferCommands :
                  CallSize(s, it) \/ CallTextKept(s, it) \/ CallText(s, it)
      BY <2>4, BufferTypes, BufferAssumption
    <2> QED BY <1>2, <2>1, <2>2, <2>3, <2>4, OpenTypes, CloseTypes DEF Application
  <1>3. CASE Library
    BY <1>3, LibraryTypes
  <1>4. CASE Daemon \/ Others
    BY <1>4, ElsewhereStep
  <1> QED BY <1>1, <1>2, <1>3, <1>4 DEF SysNext

\* The invariant holds for any application of librds.
THEOREM LibraryInvariance == SysSpec => []LibInv
  BY LibInitInv, LibNextInv, PTL DEF SysSpec

\* rdsconnection.cpp: no number of a source or an event that is read from read_str
\* leaves the tables of commands and of events, whatever arrives and in which parts.
THEOREM LibraryTypeCorrect == SysSpec => []ConnectionTypeOK
  <1>1. LibInv => ConnectionTypeOK
    BY DEF LibInv
  <1> QED BY <1>1, LibraryInvariance, PTL

\* process_event_msg() and GetEvent(): every event that has arrived since the last
\* call is recorded, unless its number was read as another.
THEOREM NoEventForgotten == SysSpec => []EventsRecorded
  <1>1. LibInv => EventsRecorded
    BY DEF LibInv
  <1> QED BY <1>1, LibraryInvariance, PTL

-----------------------------------------------------------------------------
(* rdsquery: its calls, and its count of the records *)

\* The Show functions are for the items of the mask, the lowest event bit first.
LEMMA Next1Facts ==
    ASSUME NEW its \in SUBSET Items, its # {}
    PROVE  Next1(its) \in its
  <1> DEFINE T == {EventBit[it] : it \in its}
  <1>1. T \subseteq Nat /\ T # {}
    BY DEF Items, EventBit
  <1>2. PICK b \in T : \A y \in T : b <= y
    BY <1>1, LeastMember
  <1>3. PICK it \in its : b = EventBit[it]
    BY <1>2
  <1>4. \A other_it \in its : EventBit[it] <= EventBit[other_it]
    BY <1>2, <1>3
  <1> QED BY <1>4 DEF Next1

\* The options do not change.
LEMMA ScenarioFacts ==
    ASSUME QTypeOK
    PROVE  /\ src_num \in Sources /\ EventMask \in SUBSET Items /\ EventMask # {}
           /\ RecordCount \in Nat
           /\ opts' = opts => EventMask' = EventMask /\ RecordCount' = RecordCount /\ DirectWanted' = DirectWanted
  <1>1. src_num \in Sources /\ opts \in Scenario
    BY QueryAssumption DEF QTypeOK
  <1>2. EventMask \in SUBSET Items /\ EventMask # {} /\ RecordCount \in Nat
    BY <1>1 DEF Scenario, EventMask, RecordCount
  <1>3. opts' = opts => EventMask' = EventMask /\ RecordCount' = RecordCount /\ DirectWanted' = DirectWanted
    BY DEF EventMask, RecordCount, DirectWanted
  <1> QED BY <1>1, <1>2, <1>3

\* Steps of the others: neither the library nor main() moves.
LEMMA AsideQuery ==
    ASSUME QueryInv, LibInv', UNCHANGED <<cnnvars, qvars>>, pc' # "down" => pc # "down"
    PROVE  QueryInv'
  <1> USE DEF QueryInv
  <1>1. QTypeOK'
    BY DEF LibInv, QTypeOK, qvars, RecordCount
  <1>2. CallsOfMain'
    BY DEF CallsOfMain, cnnvars, qvars
  <1>3. Records'
    BY DEF Records, Enough, EventMask, RecordCount, DirectWanted, cnnvars, qvars
  <1> QED BY <1>1, <1>2, <1>3

LEMMA OpenQuery ==
    ASSUME QueryInv, QOpen PROVE QueryInv'
  <1> USE DEF QueryInv
  <1>1. LibInv'
    BY OpenTypes DEF QOpen
  <1>2. /\ qpc' \in {"mask", "exit"} /\ qpc = "open"
        /\ UNCHANGED <<opts, toshow, qevents, event_counts, shown, times>>
        /\ UNCHANGED cpc
    BY DEF QOpen, Open, OpenSucceeds, OpenFails, OpenRefused
  <1>3. QTypeOK'
    BY <1>1, <1>2 DEF LibInv, QTypeOK, RecordCount
  <1>4. CallsOfMain' /\ Records'
    BY <1>2 DEF CallsOfMain, Records
  <1> QED BY <1>1, <1>3, <1>4

LEMMA SetMaskQuery ==
    ASSUME QueryInv, QSetEventMask PROVE QueryInv'
  <1> USE DEF QueryInv
  <1>1. LibInv'
    BY SetMaskTypes, ScenarioFacts DEF QSetEventMask
  <1>2. /\ qpc' = "mask_set"
        /\ UNCHANGED <<opts, toshow, qevents, event_counts, shown, times>>
        /\ cpc' = "wait" /\ call' = [fn |-> "set", src |-> src_num, cmd |-> SEVNT, mask |-> EventMask]
    BY DEF QSetEventMask, CallSetEventMask, Enter
  <1>3. QTypeOK'
    BY <1>1, <1>2 DEF LibInv, QTypeOK, RecordCount
  <1>4. CallsOfMain' /\ Records'
    BY <1>2 DEF CallsOfMain, Records
  <1> QED BY <1>1, <1>3, <1>4

\* Between two calls nothing else changes.
LEMMA BetweenCalls ==
    ASSUME QueryInv, UNCHANGED sysvars
    PROVE  LibInv' /\ UNCHANGED <<cnnvars, pc>>
  BY LibNextInv DEF QueryInv, sysvars, vars, srvvars

LEMMA MaskSetQuery ==
    ASSUME QueryInv, QMaskSet PROVE QueryInv'
  <1> USE DEF QueryInv
  <1>1. LibInv' /\ UNCHANGED <<cnnvars, pc>>
    BY BetweenCalls DEF QMaskSet
  <1>2. cpc' = "idle" /\ UNCHANGED <<opts, qevents, shown, times>>
    BY <1>1 DEF QMaskSet, cnnvars
  <1>3. QTypeOK'
    <2>1. event_counts' \in [Items -> 0..RecordCount] /\ toshow' \subseteq Items
      BY ScenarioFacts DEF QMaskSet, InitRecordCounters, QTypeOK
    <2>2. qpc' \in {"exit", "show", "event"}
      BY DEF QMaskSet
    <2> QED BY <1>1, <1>2, <2>1, <2>2, ScenarioFacts DEF LibInv, QTypeOK
  <1>4. CallsOfMain'
    BY <1>2 DEF CallsOfMain, QMaskSet
  <1>5. Records'
    <2>1. CASE qpc' = "event"
      <3>1. event_counts' = InitRecordCounters(EventMask)
        BY <2>1 DEF QMaskSet
      <3>2. ASSUME NEW it \in EventMask PROVE times[it] + event_counts'[it] >= RecordCount
        <4>1. event_counts'[it] = RecordCount /\ times[it] \in 0..RecordCount /\ RecordCount \in Nat
          BY <3>1, ScenarioFacts DEF InitRecordCounters, QTypeOK
        <4> QED BY <4>1
      <3> QED BY <1>2, <2>1, <3>2, ScenarioFacts DEF Records, Enough
    <2>2. CASE qpc' # "event"
      BY <1>2, <2>2, ScenarioFacts DEF Records, QMaskSet
    <2> QED BY <2>1, <2>2
  <1> QED BY <1>1, <1>3, <1>4, <1>5

LEMMA GetEventQuery ==
    ASSUME QueryInv, QGetEvent PROVE QueryInv'
  <1> USE DEF QueryInv
  <1>1. LibInv'
    BY GetEventTypes, ScenarioFacts DEF QGetEvent
  <1>2. /\ qpc' = "event_got" /\ qpc = "event"
        /\ UNCHANGED <<opts, toshow, qevents, event_counts, shown, times, pc, delayed>>
        /\ cpc' = "wait" /\ call' = [fn |-> "event", src |-> src_num, cmd |-> SEVNT, mask |-> {}]
    BY DEF QGetEvent, CallGetEvent, Enter, srvvars
  <1>3. QTypeOK'
    BY <1>1, <1>2 DEF LibInv, QTypeOK, RecordCount
  <1>4. CallsOfMain'
    BY <1>2 DEF CallsOfMain
  <1>5. Records'
    BY <1>2 DEF Records, Enough, EventMask, RecordCount
  <1> QED BY <1>1, <1>3, <1>4, <1>5

LEMMA EventGotQuery ==
    ASSUME QueryInv, QEventGot PROVE QueryInv'
  <1> USE DEF QueryInv
  <1>1. LibInv' /\ UNCHANGED <<cnnvars, pc>>
    BY BetweenCalls DEF QEventGot
  <1>2. cpc' = "idle" /\ UNCHANGED <<opts, event_counts, shown, times, delayed, pc>> /\ qpc = "event_got"
    BY <1>1 DEF QEventGot, cnnvars
  <1>3. \/ /\ qpc' = "show" /\ toshow' = qevents' /\ qevents' \subseteq Items
        \/ qpc' = "exit" /\ UNCHANGED <<toshow, qevents>>
    BY DEF QEventGot, CallsOfMain
  <1>4. QTypeOK'
    BY <1>1, <1>2, <1>3 DEF LibInv, QTypeOK, RecordCount
  <1>5. CallsOfMain'
    BY <1>2, <1>3 DEF CallsOfMain
  <1>6. Records'
    BY <1>2, <1>3 DEF Records, Enough, EventMask, RecordCount
  <1> QED BY <1>1, <1>4, <1>5, <1>6

LEMMA ShowQuery ==
    ASSUME QueryInv, QShow PROVE QueryInv'
  <1> USE DEF QueryInv
  <1> PICK it \in Items : it = Next1(toshow)
    BY Next1Facts DEF QTypeOK, QShow
  <1>1. CallGet(src_num, it) /\ UNCHANGED srvvars /\ it # ESRC
    BY CommandFacts DEF QShow
  <1>2. LibInv'
    BY <1>1, GetTypes, ScenarioFacts
  <1>3. /\ qpc' = "shown" /\ qpc = "show"
        /\ UNCHANGED <<opts, toshow, qevents, event_counts, shown, times, pc, delayed>>
        /\ cpc' = "wait" /\ call' = [fn |-> "get", src |-> src_num, cmd |-> it, mask |-> {}]
    BY <1>1 DEF QShow, CallGet, Enter, srvvars
  <1>4. QTypeOK'
    BY <1>2, <1>3 DEF LibInv, QTypeOK, RecordCount
  <1>5. CallsOfMain'
    BY <1>3 DEF CallsOfMain
  <1>6. Records'
    BY <1>3 DEF Records, Enough, EventMask, RecordCount, DirectWanted
  <1> QED BY <1>2, <1>4, <1>5, <1>6

LEMMA ShownQuery ==
    ASSUME QueryInv, QShown PROVE QueryInv'
  <1> USE DEF QueryInv
  <1>1. LibInv' /\ UNCHANGED <<cnnvars, pc>>
    BY BetweenCalls DEF QShown
  <1>2. /\ cpc' = "idle" /\ cpc = "idle" /\ qpc = "shown" /\ qpc' = "show"
        /\ UNCHANGED <<opts, event_counts, qevents, delayed, pc>>
    BY <1>1 DEF QShown, cnnvars
  <1> DEFINE next == Next1(toshow)
  <1>3. /\ toshow' = toshow \ {next}
        /\ \/ /\ result.ret = "RDS_OK"
              /\ shown' = [shown EXCEPT ![next] = result.data]
              /\ times' = [times EXCEPT ![next] =
                             IF times[next] < RecordCount THEN times[next] + 1 ELSE times[next]]
           \/ result.ret # "RDS_OK" /\ UNCHANGED <<shown, times>>
    BY DEF QShown
  <1> HIDE DEF next
  <1>4. result.ret = "RDS_OK" => result.data \in Nat
    BY <1>2 DEF CallsOfMain
  <1>5. QTypeOK'
    <2>1. toshow' \subseteq Items
      BY <1>3 DEF QTypeOK
    <2>2. shown' \in [Items -> Nat \cup {Never}]
      BY <1>3, <1>4 DEF QTypeOK
    <2>3. times' \in [Items -> 0..RecordCount]
      <3>1. times \in [Items -> 0..RecordCount] /\ RecordCount \in Nat
        BY ScenarioFacts DEF QTypeOK
      <3>2. next \in Items =>
               (IF times[next] < RecordCount THEN times[next] + 1 ELSE times[next]) \in 0..RecordCount
        BY <3>1
      <3> QED BY <1>3, <3>1, <3>2
    <2> QED BY <1>1, <1>2, <2>1, <2>2, <2>3, ScenarioFacts DEF LibInv, QTypeOK
  <1>6. CallsOfMain'
    BY <1>2 DEF CallsOfMain
  <1>7. Records'
    <2> SUFFICES ASSUME ~ delayed, pc # "down", ~ DirectWanted, NEW it \in EventMask
                 PROVE  \/ times'[it] >= RecordCount
                        \/ times'[it] + event_counts[it]
                              >= IF it \in qevents \ toshow' THEN RecordCount + 1 ELSE RecordCount
      BY <1>2, ScenarioFacts DEF Records, Enough
    <2>1. /\ times[it] \in Nat /\ event_counts[it] \in Nat /\ RecordCount \in Nat /\ it \in Items
          /\ times \in [Items -> 0..RecordCount]
      BY ScenarioFacts DEF QTypeOK
    <2>2. Enough(it, IF it \in qevents \ toshow THEN RecordCount + 1 ELSE RecordCount)
      BY <1>2 DEF Records
    <2>3. result.ret = "RDS_OK"
      BY <1>2 DEF CallsOfMain
    <2>4. times'[it] = IF it = next /\ times[it] < RecordCount THEN times[it] + 1 ELSE times[it]
      BY <1>3, <2>1, <2>3
    <2>5. it \in qevents \ toshow' => it \in qevents \ toshow \/ it = next
      BY <1>3
    <2>6. it \in qevents \ toshow => it \in qevents \ toshow'
      BY <1>3
    <2> QED BY <2>1, <2>2, <2>4, <2>5, <2>6 DEF Enough
  <1> QED BY <1>1, <1>5, <1>6, <1>7

LEMMA TurnDoneQuery ==
    ASSUME QueryInv, QTurnDone PROVE QueryInv'
  <1> USE DEF QueryInv
  <1>1. LibInv' /\ UNCHANGED <<cnnvars, pc>>
    BY BetweenCalls DEF QTurnDone
  <1>2. /\ cpc' = "idle" /\ qpc = "show" /\ toshow = {} /\ qevents' = {}
        /\ qpc' \in {"exit", "event", "counted"}
        /\ UNCHANGED <<opts, toshow, shown, times, delayed, pc>>
    BY <1>1 DEF QTurnDone, cnnvars, CallsOfMain
  <1>3. /\ RecordCount \in Nat
        /\ \A it \in Items : times[it] \in 0..RecordCount /\ event_counts[it] \in 0..RecordCount
    BY ScenarioFacts DEF QTypeOK
  <1>4. QTypeOK'
    <2>1. Decremented(qevents) \in [Items -> 0..RecordCount]
      <3>1. \A n \in 0..RecordCount : n > 0 => n - 1 \in 0..RecordCount
        BY <1>3
      <3> QED BY <1>3, <3>1 DEF Decremented
    <2>2. event_counts' \in [Items -> 0..RecordCount]
      BY <2>1 DEF QTurnDone, QTypeOK
    <2> QED BY <1>1, <1>2, <2>2, ScenarioFacts DEF LibInv, QTypeOK
  <1>5. CallsOfMain'
    BY <1>2 DEF CallsOfMain
  <1>6. Records'
    <2> SUFFICES ASSUME ~ delayed, pc # "down", NEW it \in EventMask, qpc' # "exit"
                 PROVE  IF qpc' = "event" THEN Enough(it, RecordCount)' ELSE times[it] >= RecordCount
      BY <1>2, ScenarioFacts DEF Records
    <2>1. ~ DirectWanted
      BY DEF QTurnDone
    <2>2. Enough(it, IF it \in qevents THEN RecordCount + 1 ELSE RecordCount)
      BY <1>2, <2>1 DEF Records
    <2>3. it \in Items /\ times[it] \in Nat /\ event_counts[it] \in Nat
      BY <1>3, ScenarioFacts
    <2>4. RecordCount' = RecordCount
      BY <1>2, ScenarioFacts
    <2>5. CASE RecordCount = 0
      BY <1>2, <2>3, <2>4, <2>5 DEF QTurnDone, Enough
    <2>6. CASE RecordCount > 0 /\ event_counts' = Decremented(qevents)
      <3>1. event_counts'[it] = IF it \in qevents /\ event_counts[it] > 0
                                THEN event_counts[it] - 1 ELSE event_counts[it]
        BY <2>3, <2>6 DEF Decremented
      <3>2. times[it] >= RecordCount \/ times[it] + event_counts'[it] >= RecordCount
        BY <1>3, <2>2, <2>3, <3>1 DEF Enough
      <3>3. qpc' = "counted" => ~ (event_counts'[it] > 0)
        BY <1>3, <2>1, <2>3, <2>6 DEF QTurnDone
      <3>4. event_counts'[it] \in Nat
        BY <2>3, <3>1
      <3>5. qpc' = "counted" => times[it] >= RecordCount
        BY <2>3, <3>2, <3>3, <3>4, <1>3
      <3> QED BY <1>2, <2>4, <3>2, <3>5 DEF Enough
    <2> QED BY <1>3, <2>1, <2>5, <2>6 DEF QTurnDone
  <1> QED BY <1>1, <1>4, <1>5, <1>6

\* The end of rdsquery.
LEMMA EndQuery ==
    ASSUME QueryInv, QExit \/ Interrupt PROVE QueryInv'
  <1> USE DEF QueryInv
  <1>1. LibInv'
    <2>1. CASE QExit
      BY <2>1, CloseTypes DEF QExit
    <2>2. CASE Interrupt
      <3>1. ConnectionOK' /\ UNCHANGED cnnvars
        BY <2>2, ClientConnection, MeAssumption DEF LibInv, ConnectionOK, ClientStep, Interrupt
      <3> QED BY <3>1, ElsewhereTypes
    <2> QED BY <2>1, <2>2
  <1>2. qpc' = "done" /\ UNCHANGED <<opts, toshow, qevents, event_counts, shown, times>>
    BY DEF QExit, Interrupt
  <1>3. QTypeOK'
    BY <1>1, <1>2 DEF LibInv, QTypeOK, RecordCount
  <1>4. CallsOfMain' /\ Records'
    BY <1>2 DEF CallsOfMain, Records
  <1> QED BY <1>1, <1>3, <1>4

\* The library returns what main() expects.
LEMMA LibraryQuery ==
    ASSUME QueryInv, QLibrary PROVE QueryInv'
  <1> USE DEF QueryInv
  <1>1. LibInv' /\ CallStep /\ qpc # "done" /\ UNCHANGED qvars /\ UNCHANGED pc
    BY LibraryTypes DEF QLibrary, Library, srvvars
  <1>2. cpc # "idle" /\ UNCHANGED delayed
    BY <1>1 DEF CallStep, Answered, Read, ReadFails, ScanReply, ScanEvent, GoOn, TimeOut,
                EventsReturned, UnknownSource, Scanned
  <1>3. /\ qpc \in {"mask_set", "event_got", "shown"} /\ call.src = src_num
        /\ qpc = "event_got" => call.fn = "event"
        /\ qpc = "shown" => call.fn = "get"
        /\ qpc = "mask_set" => call.fn = "set"
    BY <1>1, <1>2 DEF CallsOfMain, QTypeOK
  <1>4. QTypeOK'
    BY <1>1 DEF LibInv, QTypeOK, qvars, RecordCount
  <1>5. Records'
    BY <1>1, <1>2 DEF Records, Enough, EventMask, RecordCount, DirectWanted, qvars
  <1>6. CallsOfMain'
    <2>1. CASE cpc' # "idle" /\ call' = call
      BY <1>1, <1>3, <2>1 DEF CallsOfMain, qvars
    <2>2. CASE Answered
      <3>1. cpc' = "idle" /\ result'.ret = "RDS_OK" /\ result'.data = data[Key] /\ call.fn # "event"
        BY <2>2 DEF Answered, Return
      <3>2. data[Key] \in Nat
        BY <1>2 DEF LibInv, CallKnown, ConnectionTypeOK
      <3> QED BY <1>1, <1>3, <3>1, <3>2 DEF CallsOfMain, qvars
    <2>3. CASE ReadFails
      <3>1. cpc' = "idle" /\ result'.ret = "RDS_READ_ERROR" /\ conn[me] = "reset"
        BY <2>3 DEF ReadFails, Return
      <3>2. pc = "down"
        BY <3>1, MeAssumption DEF LibInv, IInv, Connected
      <3> QED BY <1>1, <1>3, <3>1, <3>2 DEF CallsOfMain, qvars
    <2>4. CASE TimeOut
      <3>1. cpc' = "idle" /\ result'.ret = "RDS_REQUEST_TIMEOUT" /\ delayed
        BY <2>4 DEF TimeOut, Return
      <3> QED BY <1>1, <1>2, <1>3, <3>1 DEF CallsOfMain, qvars
    <2>5. CASE EventsReturned
      <3>1. /\ cpc' = "idle" /\ result'.evts = rcvd_events[call.src + 1]
            /\ call.fn = "event" /\ call.src < Len(rcvd_events)
        BY <2>5 DEF EventsReturned, Return, Scanned
      <3>2. rcvd_events[call.src + 1] \subseteq Items
        <4> PICK g \in Seq(SUBSET Items) : g = rcvd_events
          BY DEF LibInv, ConnectionTypeOK
        <4>1. call.src \in Nat
          BY <1>3, ScenarioFacts, SourceFacts
        <4>2. call.src + 1 \in 1..Len(g)
          BY <3>1, <4>1
        <4> QED BY <4>2
      <3> QED BY <1>1, <1>3, <3>1, <3>2 DEF CallsOfMain, qvars
    <2>6. CASE UnknownSource
      <3>1. cpc' = "idle" /\ result'.ret = "RDS_ILL_SRC_NUM" /\ call.fn = "event"
        BY <2>6 DEF UnknownSource, Return, Scanned
      <3> QED BY <1>1, <1>3, <3>1 DEF CallsOfMain, qvars
    <2>7. CASE Read \/ ScanReply \/ ScanEvent \/ GoOn
      <3>1. cpc' # "idle" /\ call' = call
        BY <2>7 DEF Read, ScanReply, ScanEvent, GoOn
      <3> QED BY <2>1, <3>1
    <2> QED BY <1>1, <2>2, <2>3, <2>4, <2>5, <2>6, <2>7 DEF CallStep
  <1> QED BY <1>1, <1>4, <1>5, <1>6

LEMMA QueryInitInv == QInit => QueryInv
  <1> SUFFICES ASSUME QInit PROVE QueryInv
    OBVIOUS
  <1>1. LibInv
    BY LibInitInv DEF QInit
  <1>2. opts \in Scenario
    BY QueryAssumption DEF QInit
  <1>3. QTypeOK
    <2>1. RecordCount \in Nat /\ 0 \in 0..RecordCount
      BY <1>2 DEF RecordCount, Scenario
    <2> QED BY <1>1, <2>1 DEF LibInv, QInit, QTypeOK
  <1>4. CallsOfMain /\ Records
    BY DEF QInit, SysInit, InitConnection, CallsOfMain, Records
  <1> QED BY <1>1, <1>3, <1>4 DEF QueryInv

LEMMA QueryNextInv == QueryInv /\ [QNext]_queryvars => QueryInv'
  <1> SUFFICES ASSUME QueryInv, [QNext]_queryvars PROVE QueryInv'
    OBVIOUS
  <1>1. CASE UNCHANGED queryvars
    <2>1. UNCHANGED sysvars /\ UNCHANGED qvars
      BY <1>1 DEF queryvars
    <2> QED BY <2>1, BetweenCalls, AsideQuery
  <1>2. CASE Main
    BY <1>2, OpenQuery, SetMaskQuery, MaskSetQuery, GetEventQuery, EventGotQuery, ShowQuery,
       ShownQuery, TurnDoneQuery, EndQuery DEF Main
  <1>3. CASE (Daemon \/ Others) /\ UNCHANGED qvars
    <2>1. LibInv' /\ UNCHANGED cnnvars
      BY <1>3, ElsewhereStep DEF QueryInv, Daemon, Others
    <2>2. pc' # "down" => pc # "down"
      <3>1. CASE Daemon
        BY <3>1 DEF Daemon, WorkLoop, Select, AcceptUnix, AcceptInet, Accept, ServeClient, ExecCmd,
                    EndOfRound
      <3>2. CASE Others
        BY <3>2 DEF Others, ClientStep, Connect, Send, Receive, Disconnect, srvvars
      <3> QED BY <1>3, <3>1, <3>2
    <2> QED BY <1>3, <2>1, <2>2, AsideQuery
  <1>4. CASE opts.crash /\ Crash /\ UNCHANGED <<cnnvars, qvars>>
    <2>1. ConnectionOK' /\ UNCHANGED cnnvars
      BY <1>4, CrashConnection DEF QueryInv, LibInv, ConnectionOK
    <2>2. LibInv' /\ pc' = "down"
      BY <1>4, <2>1, ElsewhereTypes DEF QueryInv, Crash
    <2> QED BY <1>4, <2>2, AsideQuery
  <1> QED BY <1>1, <1>2, <1>3, <1>4, LibraryQuery, EndQuery DEF QNext

THEOREM QueryInvariance == QSpec => []QueryInv
  BY QueryInitInv, QueryNextInv, PTL DEF QSpec

\* rdsqueryhandler.cpp: no counter falls below zero or above the number asked for,
\* and what a call of rdsquery returns is of the type that it shows.
THEOREM QueryTypeCorrect == QSpec => []QTypeOK
  <1>1. QueryInv => QTypeOK
    BY DEF QueryInv
  <1> QED BY <1>1, QueryInvariance, PTL

\* DecRecordCounters(): when the counters end rdsquery, every item asked for has been
\* shown as often as it was asked to, unless an answer was late or the daemon is gone.
THEOREM RecordsShown == QSpec => []EnoughRecords
  <1>1. QueryInv => EnoughRecords
    BY DEF QueryInv, Records, EnoughRecords
  <1> QED BY <1>1, QueryInvariance, PTL

\* What the library promises any application it keeps for rdsquery, which may be
\* interrupted and whose daemon may go: no event is forgotten.
THEOREM QueryEventsRecorded == QSpec => []EventsRecorded
  <1>1. QueryInv => EventsRecorded
    BY DEF QueryInv, LibInv
  <1> QED BY <1>1, QueryInvariance, PTL

-----------------------------------------------------------------------------
(* What is on its way, and the cache *)

\* The daemon changes an item, and raises its event; or nothing becomes stale.
LEMMA FlowChanged ==
    ASSUME NEW B, NEW C, NEW it, NEW v, NEW w, NEW stale \in BOOLEAN, NEW late \in BOOLEAN,
           NEW told \in BOOLEAN, NEW untold \in BOOLEAN, Flow(B, C, it, v, stale, told),
           told => untold, ~ untold => w = v /\ (late => stale)
    PROVE  Flow(B, C, it, w, late, untold)
  BY DEF Flow, Current

\* Nothing becomes stale.
LEMMA FlowKept ==
    ASSUME NEW B, NEW C, NEW it, NEW v, NEW stale \in BOOLEAN, NEW late \in BOOLEAN,
           NEW untold \in BOOLEAN, Flow(B, C, it, v, stale, FALSE), late => stale
    PROVE  Flow(B, C, it, v, late, untold)
  BY DEF Flow, Current

\* It sends the event.
LEMMA FlowSent ==
    ASSUME NEW B \in Seq(Message), NEW C \in Seq(Message), NEW it, NEW v, NEW stale \in BOOLEAN,
           NEW untold \in BOOLEAN, NEW E \in Seq(EventMessage),
           Flow(B, C, it, v, stale, untold), untold => HasEvent(E, it),
           NEW late \in BOOLEAN, late => stale, NEW told \in BOOLEAN
    PROVE  Flow(B \o E, C, it, v, late, told)
  <1>1. \A n \in 1..Len(E) : E[n].kind = "event" /\ E \in Seq(Message)
    <2>1. EventMessage \subseteq Message
      BY DEF EventMessage, Message
    <2>2. ASSUME NEW n \in 1..Len(E) PROVE E[n].kind = "event"
      <3>1. E[n] \in EventMessage
        OBVIOUS
      <3> QED BY <3>1 DEF EventMessage
    <2> QED BY <2>1, <2>2
  <1>2. /\ Len(B) \in Nat /\ Len(E) \in Nat /\ Len(B \o E) = Len(B) + Len(E)
        /\ \A n \in 1..Len(B) : (B \o E)[n] = B[n] /\ n \in 1..Len(B \o E)
        /\ \A n \in 1..Len(E) : (B \o E)[Len(B) + n] = E[n] /\ Len(B) + n \in 1..Len(B \o E)
        /\ \A n \in 1..Len(B \o E) : n \in 1..Len(B) \/
              (n - Len(B) \in 1..Len(E) /\ (B \o E)[n] = E[n - Len(B)])
    <2>1. E \in Seq(Message)
      <3>1. EventMessage \subseteq Message
        BY DEF EventMessage, Message
      <3> QED BY <3>1
    <2> QED BY <2>1, ConcatElements
  <1>3. HasEvent(B, it) => HasEvent(B \o E, it)
    BY <1>2 DEF HasEvent
  <1>4. HasEvent(E, it) => HasEvent(B \o E, it)
    BY <1>2 DEF HasEvent
  <1>5. Current(B \o E, it, v, FALSE)
    <2> SUFFICES ASSUME NEW n \in 1..Len(B \o E), Answers((B \o E)[n], <<src_num, it>>),
                        (B \o E)[n].data # v
                 PROVE  \E m \in 1..Len(B \o E) :
                           m > n /\ (B \o E)[m].kind = "event" /\ it \in (B \o E)[m].evts
      BY DEF Current
    <2>1. n \in 1..Len(B) /\ (B \o E)[n] = B[n]
      BY <1>1, <1>2 DEF Answers
    <2>2. CASE untold
      <3> PICK m \in 1..Len(E) : E[m].kind = "event" /\ it \in E[m].evts
        BY <2>2 DEF HasEvent
      <3>1. Len(B) + m > n
        BY <1>2, <2>1
      <3> QED BY <1>2, <3>1
    <2>3. CASE ~ untold
      <3> PICK m \in 1..Len(B) : m > n /\ B[m].kind = "event" /\ it \in B[m].evts
        BY <2>1, <2>3 DEF Flow, Current
      <3> QED BY <1>2
    <2> QED BY <2>2, <2>3
  <1>6. Current(C, it, v, HasEvent(B \o E, it) \/ FALSE)
    BY <1>3, <1>4 DEF Flow, Current
  <1>7. stale => HasEvent(C, it) \/ HasEvent(B \o E, it)
    BY <1>3, <1>4 DEF Flow
  <1>8. Flow(B \o E, C, it, v, stale, FALSE)
    BY <1>5, <1>6, <1>7 DEF Flow
  <1> QED BY <1>8, FlowKept

\* It sends a reply, with the value that the item has now.
LEMMA FlowAnswered ==
    ASSUME NEW B \in Seq(Message), NEW C \in Seq(Message), NEW it, NEW v, NEW stale \in BOOLEAN,
           NEW r \in Message, Answers(r, <<src_num, it>>) => r.data = v,
           NEW untold \in BOOLEAN, Flow(B, C, it, v, stale, untold), ~ untold,
           NEW late \in BOOLEAN, late => stale, NEW told \in BOOLEAN
    PROVE  Flow(Append(B, r), C, it, v, late, told)
  <1>1. /\ Len(B) \in Nat /\ Len(Append(B, r)) = Len(B) + 1 /\ Append(B, r)[Len(B) + 1] = r
        /\ \A n \in 1..Len(B) : Append(B, r)[n] = B[n] /\ n \in 1..Len(Append(B, r))
        /\ \A n \in 1..Len(Append(B, r)) : n = Len(B) + 1 \/ n \in 1..Len(B)
    BY AppendProperties
  <1>2. HasEvent(B, it) => HasEvent(Append(B, r), it)
    BY <1>1 DEF HasEvent
  <1>3. Current(Append(B, r), it, v, FALSE)
    BY <1>1 DEF Flow, Current
  <1>4. Current(C, it, v, HasEvent(Append(B, r), it) \/ FALSE)
    BY <1>2 DEF Flow, Current
  <1>5. stale => HasEvent(C, it) \/ HasEvent(Append(B, r), it)
    BY <1>2 DEF Flow
  <1>6. Flow(Append(B, r), C, it, v, stale, FALSE)
    BY <1>3, <1>4, <1>5 DEF Flow
  <1> QED BY <1>6, FlowKept

\* The library reads some of what has been sent.
LEMMA FlowRead ==
    ASSUME NEW B \in Seq(Message), NEW j \in 0..Len(B), NEW it, NEW v, NEW stale \in BOOLEAN,
           NEW untold \in BOOLEAN, Flow(B, <<>>, it, v, stale, untold)
    PROVE  Flow(SubSeq(B, j + 1, Len(B)), SubSeq(B, 1, j), it, v, stale, untold)
  <1> DEFINE B2 == SubSeq(B, j + 1, Len(B))
             C2 == SubSeq(B, 1, j)
  <1>1. /\ Len(B) \in Nat /\ Len(B2) = Len(B) - j /\ Len(C2) = j /\ Len(<<>>) = 0
        /\ \A n \in 1..Len(B2) : B2[n] = B[n + j] /\ n + j \in 1..Len(B)
        /\ \A n \in 1..Len(C2) : C2[n] = B[n] /\ n \in 1..Len(B)
        /\ \A n \in 1..Len(B) : n > j => n - j \in 1..Len(B2) /\ B2[n - j] = B[n]
        /\ \A n \in 1..Len(B) : n <= j => n \in 1..Len(C2) /\ C2[n] = B[n]
    BY SubSeqProperties
  <1> HIDE DEF B2, C2
  <1>2. HasEvent(B, it) => HasEvent(C2, it) \/ HasEvent(B2, it)
    <2> SUFFICES ASSUME NEW n \in 1..Len(B), B[n].kind = "event", it \in B[n].evts
                 PROVE  HasEvent(C2, it) \/ HasEvent(B2, it)
      BY DEF HasEvent
    <2>1. CASE n <= j
      BY <1>1, <2>1 DEF HasEvent
    <2>2. CASE n > j
      BY <1>1, <2>2 DEF HasEvent
    <2> QED BY <2>1, <2>2
  <1>3. ~ HasEvent(<<>>, it)
    BY <1>1 DEF HasEvent
  <1>4. Current(B2, it, v, untold)
    <2> SUFFICES ASSUME NEW n \in 1..Len(B2), Answers(B2[n], <<src_num, it>>), B2[n].data # v, ~ untold
                 PROVE  \E m \in 1..Len(B2) : m > n /\ B2[m].kind = "event" /\ it \in B2[m].evts
      BY DEF Current
    <2>1. n + j \in 1..Len(B) /\ Answers(B[n + j], <<src_num, it>>) /\ B[n + j].data # v
      BY <1>1
    <2> PICK m \in 1..Len(B) : m > n + j /\ B[m].kind = "event" /\ it \in B[m].evts
      BY <2>1 DEF Flow, Current
    <2>2. m - j \in 1..Len(B2) /\ B2[m - j] = B[m] /\ m - j > n
      BY <1>1
    <2> QED BY <2>2
  <1>5. Current(C2, it, v, HasEvent(B2, it) \/ untold)
    <2> SUFFICES ASSUME NEW n \in 1..Len(C2), Answers(C2[n], <<src_num, it>>), C2[n].data # v, ~ untold
                 PROVE  \/ HasEvent(B2, it)
                        \/ \E m \in 1..Len(C2) : m > n /\ C2[m].kind = "event" /\ it \in C2[m].evts
      BY DEF Current
    <2>1. n \in 1..Len(B) /\ Answers(B[n], <<src_num, it>>) /\ B[n].data # v
      BY <1>1
    <2> PICK m \in 1..Len(B) : m > n /\ B[m].kind = "event" /\ it \in B[m].evts
      BY <2>1 DEF Flow, Current
    <2>2. CASE m <= j
      BY <1>1, <2>2
    <2>3. CASE m > j
      BY <1>1, <2>3 DEF HasEvent
    <2> QED BY <2>2, <2>3
  <1>6. stale => HasEvent(C2, it) \/ HasEvent(B2, it) \/ untold
    BY <1>2, <1>3 DEF Flow
  <1>7. Flow(B2, C2, it, v, stale, untold)
    BY <1>4, <1>5, <1>6 DEF Flow
  <1> QED BY <1>7 DEF B2, C2

\* It scans a message: the cache has the value of a reply then, and an event of the
\* item makes it fetch the item anew.
LEMMA FlowScanned ==
    ASSUME NEW B \in Seq(Message), NEW C \in Seq(Message), C # <<>>, NEW it, NEW v,
           NEW stale \in BOOLEAN, NEW late \in BOOLEAN, NEW untold \in BOOLEAN,
           Flow(B, C, it, v, stale, untold),
           late => \/ stale /\ ~ (Head(C).kind = "event" /\ it \in Head(C).evts)
                   \/ Answers(Head(C), <<src_num, it>>) /\ Head(C).data # v
    PROVE  Flow(B, Tail(C), it, v, late, untold)
  <1> DEFINE C2 == Tail(C)
  <1>1. /\ Len(C) \in Nat /\ Len(C) # 0 /\ Head(C) = C[1] /\ Len(C2) = Len(C) - 1
        /\ 1 \in 1..Len(C)
        /\ \A n \in 1..Len(C2) : n + 1 \in 1..Len(C) /\ n + 1 # 1 /\ C2[n] = C[n + 1]
        /\ \A n \in 1..Len(C) : n # 1 => n - 1 \in 1..Len(C2) /\ C2[n - 1] = C[n]
    OBVIOUS
  <1> HIDE DEF C2
  <1>2. HasEvent(C, it) => HasEvent(C2, it) \/ (C[1].kind = "event" /\ it \in C[1].evts)
    BY <1>1 DEF HasEvent
  <1>3. Current(C2, it, v, HasEvent(B, it) \/ untold)
    <2> SUFFICES ASSUME NEW n \in 1..Len(C2), Answers(C2[n], <<src_num, it>>), C2[n].data # v,
                        ~ (HasEvent(B, it) \/ untold)
                 PROVE  \E m \in 1..Len(C2) : m > n /\ C2[m].kind = "event" /\ it \in C2[m].evts
      BY DEF Current
    <2>1. n + 1 \in 1..Len(C) /\ Answers(C[n + 1], <<src_num, it>>) /\ C[n + 1].data # v
      BY <1>1
    <2> PICK m \in 1..Len(C) : m > n + 1 /\ C[m].kind = "event" /\ it \in C[m].evts
      BY <2>1 DEF Flow, Current
    <2>2. m - 1 \in 1..Len(C2) /\ C2[m - 1] = C[m] /\ m - 1 > n
      BY <1>1
    <2> QED BY <2>2
  <1>4. late => HasEvent(C2, it) \/ HasEvent(B, it) \/ untold
    <2>1. CASE stale /\ ~ (Head(C).kind = "event" /\ it \in Head(C).evts)
      BY <1>1, <1>2, <2>1 DEF Flow
    <2>2. CASE Answers(Head(C), <<src_num, it>>) /\ Head(C).data # v
      <3>1. \/ HasEvent(B, it) \/ untold
            \/ \E m \in 1..Len(C) : m > 1 /\ C[m].kind = "event" /\ it \in C[m].evts
        BY <1>1, <2>2 DEF Flow, Current
      <3>2. (\E m \in 1..Len(C) : m > 1 /\ C[m].kind = "event" /\ it \in C[m].evts) => HasEvent(C2, it)
        <4> SUFFICES ASSUME NEW m \in 1..Len(C), m > 1, C[m].kind = "event", it \in C[m].evts
                     PROVE  HasEvent(C2, it)
          OBVIOUS
        <4>1. m - 1 \in 1..Len(C2) /\ C2[m - 1] = C[m]
          BY <1>1
        <4> QED BY <4>1 DEF HasEvent
      <3> QED BY <3>1, <3>2
    <2> QED BY <2>1, <2>2
  <1>5. Flow(B, C2, it, v, late, untold)
    BY <1>3, <1>4 DEF Flow
  <1> QED BY <1>5 DEF C2

\* An event for the item takes the value from the cache.
LEMMA FlowFetched ==
    ASSUME NEW B \in Seq(Message), NEW C \in Seq(Message), C # <<>>, NEW it, NEW v,
           NEW stale \in BOOLEAN, NEW late \in BOOLEAN, NEW untold \in BOOLEAN,
           Flow(B, C, it, v, stale, untold),
           late => stale /\ ~ (Head(C).kind = "event" /\ it \in Head(C).evts)
    PROVE  Flow(B, Tail(C), it, v, late, untold)
  BY FlowScanned

\* No reply for an item, and no value of it in the cache.
LEMMA FlowUnknown ==
    ASSUME NEW B, NEW C, NEW it, NEW v, NEW untold \in BOOLEAN,
           \A n \in 1..Len(B) : ~ Answers(B[n], <<src_num, it>>),
           \A n \in 1..Len(C) : ~ Answers(C[n], <<src_num, it>>)
    PROVE  Flow(B, C, it, v, FALSE, untold)
  BY DEF Flow, Current

\* With one source there is one message at most, with all events that are asked for.
LEMMA OneSourceMsgs ==
    ASSUME NumSources = 1, NEW evts \in [Sources -> SUBSET Items], NEW mask \in [Sources -> SUBSET Items]
    PROVE  EventMsgs(evts, mask) = IF evts[0] \cap mask[0] = {} THEN <<>>
                                   ELSE <<EventMsg(0, evts[0] \cap mask[0])>>
  <1> DEFINE Told(s) == evts[s] \cap mask[s]
             Part(n) == IF Told(n - 1) = {} THEN <<>> ELSE <<EventMsg(n - 1, Told(n - 1))>>
  <1>1. EventMsgs(evts, mask) = FlattenSeq([n \in 1..1 |-> Part(n)])
    BY DEF EventMsgs
  <1>2. [n \in 1..1 |-> Part(n)] = [n \in 1..1 |-> Part(1)]
    <2> HIDE DEF Part
    <2> QED OBVIOUS
  <1>3. EventMsgs(evts, mask) = Part(1)
    <2> HIDE DEF Part
    <2> QED BY <1>1, <1>2, FlattenOne
  <1> QED BY <1>3

LEMMA OneSourceEvents ==
    ASSUME NumSources = 1, NEW evts \in [Sources -> SUBSET Items], NEW mask \in [Sources -> SUBSET Items]
    PROVE  /\ \A it \in mask[0] : it \in evts[0] => HasEvent(EventMsgs(evts, mask), it)
           /\ mask[0] = {} => EventMsgs(evts, mask) = <<>>
  <1>1. ASSUME NEW it \in mask[0], it \in evts[0] PROVE HasEvent(EventMsgs(evts, mask), it)
    <2> PICK T : T = evts[0] \cap mask[0]
      OBVIOUS
    <2> PICK m : m = EventMsg(0, T)
      OBVIOUS
    <2>1. EventMsgs(evts, mask) = <<m>> /\ m.kind = "event" /\ it \in m.evts
      BY <1>1, OneSourceMsgs DEF EventMsg
    <2>2. Len(<<m>>) = 1 /\ <<m>>[1] = m /\ 1 \in 1..1
      OBVIOUS
    <2> QED BY <2>1, <2>2 DEF HasEvent
  <1> QED BY <1>1, OneSourceMsgs

-----------------------------------------------------------------------------
(* The steps of the daemon, for the one client that it has *)

\* With one source, that is the one that rdsquery asks.
LEMMA OneSourceAsked ==
    ASSUME NumSources = 1
    PROVE  src_num = 0 /\ src_num \in Sources /\ Sources = {0}
  BY OneSource, QueryAssumption

\* Where the connection is while rdsquery runs.
LEMMA LiveFacts ==
    ASSUME Live
    PROVE  /\ IInv /\ me \in Conns /\ conn[me] \in {"none", "pending", "open"}
           /\ c2s[me] \in Seq(Request) /\ s2c[me] \in Seq(Message) /\ todo \in Seq(Message)
           /\ event_masks[me] \in [Sources -> SUBSET Items]
           /\ events \in [Sources -> SUBSET Items] /\ val \in [Sources -> [Items -> Nat]]
  <1>1. IInv /\ me \in Conns /\ todo \in Seq(Message)
    BY MeAssumption DEF Live, SysInv, TableTypeOK
  <1>2. conn[me] \in {"none", "pending", "open"}
    BY DEF Live, SysInv, CallsInOrder
  <1> QED BY <1>1, <1>2, MyQueues DEF IInv, TypeOK

LEMMA TruthValues ==
    ASSUME NEW it
    PROVE  /\ Stale(it) \in BOOLEAN /\ Untold(it) \in BOOLEAN
           /\ Stale(it)' \in BOOLEAN /\ Untold(it)' \in BOOLEAN
  BY DEF Stale, Untold

\* Nothing is sent or received, and nothing becomes stale.
LEMMA CoherentKept ==
    ASSUME Coherent, conn'[me] = "open" => conn[me] = "open",
           event_masks'[me] = event_masks[me], s2c'[me] = s2c[me], todo' = todo, val' = val,
           \A it \in event_masks[me][src_num] : (Stale(it)' => Stale(it)) /\ (Untold(it) => Untold(it)')
    PROVE  Coherent'
  <1> SUFFICES ASSUME conn'[me] = "open", NEW it \in event_masks[me][src_num]
               PROVE  Flow(s2c[me], todo, it, val[src_num][it], Stale(it)', Untold(it)')
    BY DEF Coherent
  <1>1. Flow(s2c[me], todo, it, val[src_num][it], Stale(it), Untold(it))
    BY DEF Coherent
  <1> QED BY <1>1, TruthValues, FlowChanged

\* select(): the data change with their events.
LEMMA SelectLive ==
    ASSUME NumSources = 1, Live, Select, UNCHANGED <<cnnvars, qvars>>
    PROVE  MaskFirst' /\ Coherent' /\ TurnTaken'
  <1>1. /\ pc = "select" /\ pc' = "accept_unix" /\ served' = {}
        /\ UNCHANGED <<conn, c2s, s2c, clientlist, event_masks, todo, status, data, lost, qpc>>
    BY DEF Select, chanvars, cnnvars, qvars
  <1>2. MaskFirst'
    BY <1>1 DEF Live, MaskFirst, MaskSent
  <1>3. TurnTaken'
    BY <1>1 DEF Live, TurnTaken, Clients
  <1>4. \A it \in Items : val'[src_num][it] = val[src_num][it] \/ it \in events'[src_num]
    <2>1. src_num \in Sources /\ val \in [Sources -> [Items -> Nat]]
      BY OneSourceAsked, LiveFacts
    <2> PICK sources \in SUBSET Sources : ProcessSources({s \in sources : SourceFd(s) \in tmp_fds'})
      BY DEF Select
    <2> DEFINE read == {s \in sources : SourceFd(s) \in tmp_fds'}
    <2> PICK evts \in [read -> SUBSET ActiveItems], changed \in [read -> SUBSET ActiveItems] :
           /\ \A s \in read : changed[s] \subseteq evts[s]
           /\ events' = [s \in Sources |-> IF s \in read THEN evts[s] ELSE {}]
           /\ val' = [s \in Sources |->
                     IF s \in read
                     THEN [it \in Items |->
                             IF it \in changed[s] THEN val[s][it] + 1 ELSE val[s][it]]
                     ELSE val[s]]
      BY DEF ProcessSources
    <2> HIDE DEF read
    <2>2. CASE src_num \in read
      <3>1. /\ events'[src_num] = evts[src_num] /\ changed[src_num] \subseteq evts[src_num]
            /\ val'[src_num] = [it \in Items |-> IF it \in changed[src_num]
                                                 THEN val[src_num][it] + 1 ELSE val[src_num][it]]
        BY <2>1, <2>2
      <3> QED BY <3>1
    <2>3. CASE src_num \notin read
      <3>1. val'[src_num] = val[src_num]
        BY <2>1, <2>3
      <3> QED BY <3>1
    <2> QED BY <2>2, <2>3
  <1>5. Coherent'
    <2> SUFFICES ASSUME conn'[me] = "open", NEW it \in event_masks[me][src_num]
                 PROVE  Flow(s2c[me], todo, it, val'[src_num][it], Stale(it)', Untold(it)')
      BY <1>1 DEF Coherent
    <2>1. Flow(s2c[me], todo, it, val[src_num][it], Stale(it), Untold(it))
      BY <1>1 DEF Live, Coherent
    <2>2. it \in Items
      BY OneSourceAsked, LiveFacts
    <2>3. Untold(it) => Untold(it)'
      BY <1>1 DEF Untold
    <2>4. ~ Untold(it)' => val'[src_num][it] = val[src_num][it]
      BY <1>1, <1>4, <2>2 DEF Untold
    <2>5. val'[src_num][it] = val[src_num][it] => (Stale(it)' => Stale(it))
      BY <1>1 DEF Stale
    <2> QED BY <2>1, <2>3, <2>4, <2>5, TruthValues, FlowChanged
  <1> QED BY <1>2, <1>3, <1>5

\* accept(): the connection of rdsquery, or none.
LEMMA AcceptLive ==
    ASSUME NumSources = 1, Conns = {me}, Live, AcceptUnix \/ AcceptInet, UNCHANGED <<cnnvars, qvars>>
    PROVE  MaskFirst' /\ Coherent' /\ TurnTaken'
  <1>1. /\ pc # "select" /\ pc' \in {"accept_inet", "clients"} /\ i' = 1
        /\ UNCHANGED <<c2s, s2c, events, val, served, todo, status, data, lost, qpc>>
    BY DEF AcceptUnix, AcceptInet, Accept, cnnvars, qvars
  <1>2. \/ UNCHANGED <<conn, clientlist, event_masks>>
        \/ /\ conn'[me] = "open" /\ conn[me] # "open"
           /\ event_masks'[me] = NoMask
           /\ me \in Clients'
    <2> PICK l \in ListenFds : \E from, to : Accept(l, from, to)
      BY DEF AcceptUnix, AcceptInet, ListenFds
    <2>1. CASE l \notin tmp_fds
      BY <2>1 DEF Accept
    <2>2. CASE l \in tmp_fds
      <3>1. /\ backlog[l] \in Seq(Conns) /\ backlog[l] # <<>> /\ clientlist \in Seq(Conns)
            /\ conn \in [Conns -> ConnState]
            /\ event_masks \in [Conns -> [Sources -> SUBSET Items]]
        BY <2>2, LiveFacts DEF Accept, IInv, TypeOK, ChannelTypeOK, ListenFds
      <3>2. Head(backlog[l]) = me /\ 1 \in 1..Len(backlog[l]) /\ backlog[l][1] = me
        BY <3>1
      <3>3. conn[me] = "pending"
        BY <3>2, LiveFacts DEF IInv, Queued
      <3>4. /\ clientlist' = Append(clientlist, me)
            /\ event_masks' = [event_masks EXCEPT ![me] = NoMask]
            /\ conn' = [conn EXCEPT ![me] = "open"]
        BY <2>2, <3>2, <3>3 DEF Accept, AcceptClient
      <3>5. me \in Clients'
        <4>1. ToSet(Append(clientlist, me)) = ToSet(clientlist) \cup {me}
          BY <3>1, LiveFacts, AppendElements
        <4> QED BY <3>4, <4>1 DEF Clients
      <3> QED BY <3>1, <3>3, <3>4, <3>5, LiveFacts
    <2> QED BY <2>1, <2>2
  <1>3. CASE UNCHANGED <<conn, clientlist, event_masks>>
    <2>1. MaskFirst'
      BY <1>1, <1>3 DEF Live, MaskFirst, MaskSent
    <2>2. TurnTaken'
      BY <1>1, <1>3 DEF Live, TurnTaken, Clients
    <2>3. Coherent'
      <3>1. \A it : (Stale(it)' => Stale(it)) /\ (Untold(it) => Untold(it)')
        BY <1>1 DEF Stale, Untold
      <3> QED BY <1>1, <1>3, <3>1, CoherentKept DEF Live
    <2> QED BY <2>1, <2>2, <2>3
  <1>4. CASE /\ conn'[me] = "open" /\ event_masks'[me] = NoMask /\ me \in Clients'
    <2>1. event_masks'[me][src_num] = {}
      BY <1>4, OneSourceAsked DEF NoMask
    <2>2. MaskFirst'
      BY <1>1, <2>1 DEF Live, MaskFirst, MaskSent
    <2>3. TurnTaken'
      BY <1>1, <1>4 DEF TurnTaken
    <2>4. Coherent'
      BY <2>1 DEF Coherent
    <2> QED BY <2>2, <2>3, <2>4
  <1> QED BY <1>2, <1>3, <1>4

\* The end of a round: rdsquery has had its turn.
LEMMA EndOfRoundLive ==
    ASSUME Live, EndOfRound, UNCHANGED <<cnnvars, qvars>>
    PROVE  MaskFirst' /\ Coherent' /\ TurnTaken'
  <1>1. /\ pc = "clients" /\ i > Len(clientlist) /\ pc' = "select"
        /\ UNCHANGED <<conn, c2s, s2c, clientlist, events, event_masks, val, served, todo, status,
                       data, lost, qpc>>
    BY DEF EndOfRound, AllServed, chanvars, cnnvars, qvars
  <1>2. MaskFirst'
    BY <1>1 DEF Live, MaskFirst, MaskSent
  <1>3. TurnTaken'
    BY <1>1 DEF Live, TurnTaken, Clients
  <1>4. conn[me] = "open" => me \in served
    <2> SUFFICES ASSUME conn[me] = "open" PROVE i # 1
      BY <1>1 DEF Live, TurnTaken
    <2>1. me \in Clients /\ clientlist \in Seq(Conns)
      BY LiveFacts DEF Live, TurnTaken, IInv, TypeOK
    <2> PICK n \in 1..Len(clientlist) : clientlist[n] = me
      BY <2>1, ToSetElements DEF Clients
    <2> QED BY <1>1, <2>1
  <1>5. Coherent'
    <2>1. CASE conn[me] = "open"
      <3>1. \A it : (Stale(it)' => Stale(it)) /\ (Untold(it) => Untold(it)')
        BY <1>1, <1>4, <2>1 DEF Stale, Untold
      <3> QED BY <1>1, <3>1, CoherentKept DEF Live
    <2>2. CASE conn[me] # "open"
      BY <1>1, <2>2 DEF Coherent
    <2> QED BY <2>1, <2>2
  <1> QED BY <1>2, <1>3, <1>5

\* CheckEvents(): the events of the round are sent, with the mask that rdsquery has.
LEMMA ServeLive ==
    ASSUME NumSources = 1, Conns = {me}, Live, ServeClient, UNCHANGED <<cnnvars, qvars>>
    PROVE  MaskFirst' /\ Coherent' /\ TurnTaken'
  <1>1. clientlist[i] = me /\ conn[me] = "open"
    <2>1. i \in Places /\ clientlist \in Seq(Conns)
      BY LiveFacts DEF IInv, ServeClient, AllServed, TypeOK, Places
    <2>2. clientlist[i] \in Conns
      BY <2>1 DEF Places
    <2>3. conn[clientlist[i]] \in {"open", "closed"}
      BY <2>1, LiveFacts DEF IInv, Listed
    <2> QED BY <2>2, <2>3, LiveFacts
  <1> PICK E : E = EventMsgs(events, event_masks[me])
    OBVIOUS
  <1>2. /\ E \in Seq(EventMessage)
        /\ \A it \in event_masks[me][0] : it \in events[0] => HasEvent(E, it)
        /\ event_masks[me][0] = {} => E = <<>>
    BY LiveFacts, EventMsgsType, OneSourceEvents
  <1>3. s2c' = [s2c EXCEPT ![me] = s2c[me] \o E]
    <2>1. s2c' = Write(s2c, me, E)
      BY <1>1 DEF ServeClient, Process
    <2> QED BY <1>1, <2>1 DEF Write
  <1>4. s2c'[me] = s2c[me] \o E
    BY <1>3, LiveFacts DEF IInv, TypeOK, ChannelTypeOK
  <1>5. /\ UNCHANGED <<conn, c2s, clientlist, events, event_masks, val, todo, status, data, lost, qpc>>
        /\ me \in served'
    BY <1>1 DEF ServeClient, Process, cnnvars, qvars
  <1>6. MaskFirst'
    <2> SUFFICES ASSUME qpc \in {"open", "mask"} \/ MaskSent(src_num) PROVE s2c'[me] = s2c[me]
      BY <1>5 DEF Live, MaskFirst, MaskSent
    <2>1. E = <<>>
      BY <1>1, <1>2, OneSourceAsked DEF Live, MaskFirst
    <2> QED BY <1>4, <2>1, LiveFacts
  <1>7. TurnTaken'
    BY <1>1, <1>5 DEF Live, TurnTaken, Clients
  <1>8. Coherent'
    <2> SUFFICES ASSUME NEW it \in event_masks[me][src_num]
                 PROVE  Flow(s2c[me] \o E, todo, it, val[src_num][it], Stale(it)', Untold(it)')
      BY <1>4, <1>5 DEF Coherent
    <2>0. s2c[me] \in Seq(Message) /\ todo \in Seq(Message)
      BY LiveFacts
    <2> PICK B \in Seq(Message) : B = s2c[me]
      BY <2>0
    <2> PICK C \in Seq(Message) : C = todo
      BY <2>0
    <2> PICK v : v = val[src_num][it]
      OBVIOUS
    <2> PICK stale \in BOOLEAN : stale = Stale(it)
      BY TruthValues
    <2> PICK late \in BOOLEAN : late = Stale(it)'
      BY TruthValues
    <2> PICK untold \in BOOLEAN : untold = Untold(it)
      BY TruthValues
    <2> PICK told \in BOOLEAN : told = Untold(it)'
      BY TruthValues
    <2>1. Flow(B, C, it, v, stale, untold)
      BY <1>1 DEF Live, Coherent
    <2>2. untold => HasEvent(E, it)
      BY <1>2, OneSourceAsked DEF Untold
    <2>3. E \in Seq(EventMessage)
      BY <1>2
    <2>4. late => stale
      BY <1>5 DEF Stale
    <2>5. Flow(B \o E, C, it, v, late, told)
      BY <2>1, <2>2, <2>3, <2>4, FlowSent
    <2> QED BY <2>5
  <1> QED BY <1>6, <1>7, <1>8

\* No reply for an item is on its way that the table does not wait for.
LEMMA NotAsked ==
    ASSUME SysInv, sock_fd = "open", src_num \in Sources, NEW it \in Items,
           status[<<src_num, it>>] # "WAITING"
    PROVE  /\ \A n \in 1..Len(s2c[me]) : ~ Answers(s2c[me][n], <<src_num, it>>)
           /\ \A n \in 1..Len(todo) : ~ Answers(todo[n], <<src_num, it>>)
  <1> PICK k \in Keys : k = <<src_num, it>> /\ k[2] # ESRC
    BY CommandFacts
  <1>1. ~ Somewhere(c2s[me], s2c[me], todo, k)
    BY DEF SysInv, Tracked
  <1> QED BY <1>1 DEF Somewhere

\* ExecCmd(): a reply has the value that the item has now; a mask that is set is the
\* first.
LEMMA ExecLive ==
    ASSUME NumSources = 1, Conns = {me}, Live, SysInv', ExecCmd, UNCHANGED <<cnnvars, qvars>>
    PROVE  MaskFirst' /\ Coherent' /\ TurnTaken'
  <1>0. src_num = 0 /\ src_num \in Sources /\ Sources = {0}
    BY OneSourceAsked
  <1>1. clientlist[i] = me /\ conn[me] = "open" /\ pc = "requests"
    <2>1. i \in Places /\ clientlist \in Seq(Conns) /\ pc = "requests"
      BY LiveFacts DEF IInv, ExecCmd, Ready, TypeOK
    <2>2. clientlist[i] \in Conns
      BY <2>1 DEF Places
    <2>3. conn[clientlist[i]] \in {"open", "closed"}
      BY <2>1, LiveFacts DEF IInv, Listed
    <2> QED BY <2>1, <2>2, <2>3, LiveFacts
  <1> PICK A \in Seq(Request) : A = c2s[me]
    BY LiveFacts
  <1>2. A # <<>>
    BY <1>1, LiveFacts DEF IInv, Ready
  <1>3. /\ Head(A) \in Request /\ Tail(A) \in Seq(Request) /\ Head(A) = A[1] /\ 1 \in 1..Len(A)
        /\ \A n \in 1..Len(Tail(A)) : n + 1 \in 1..Len(A) /\ n + 1 # 1 /\ Tail(A)[n] = A[n + 1]
    BY <1>2, TailElements
  <1> PICK req \in Request : req = Head(A)
    BY <1>3
  <1> DEFINE masks == IF req.cmd = SEVNT
                      THEN [event_masks EXCEPT ![me][req.src] = req.mask]
                      ELSE event_masks
             E     == IF req.cmd = SEVNT THEN EventMsgs(events, masks[me]) ELSE <<>>
  <1> PICK r \in Message : r = ReplyMsg(req, ReplyData(me, req))
    BY LiveFacts, ReplyType DEF IInv
  <1>4. /\ c2s' = [c2s EXCEPT ![me] = Tail(A)]
        /\ event_masks' = masks
        /\ s2c' = Write(s2c, me, <<r>> \o E)
        /\ UNCHANGED <<conn, clientlist, events, val, served, todo, status, data, lost, qpc, sock_fd>>
        /\ pc' \in {"clients", "requests"}
    BY <1>1 DEF ExecCmd, cnnvars, qvars
  <1>5. c2s'[me] = Tail(A)
    BY <1>4, LiveFacts DEF IInv, TypeOK, ChannelTypeOK
  <1>6. me \in served
    BY <1>1 DEF Live, TurnTaken
  <1>7. TurnTaken'
    BY <1>1, <1>4, <1>6 DEF Live, TurnTaken, Clients
  <1>8. sock_fd = "open"
    BY <1>1 DEF Live, SysInv, TableTypeOK, CallsInOrder, IInv, Connected
  <1>9. CASE req.cmd # SEVNT
    <2>1. s2c'[me] = Append(s2c[me], r) /\ event_masks' = event_masks
      <3>1. E = <<>> /\ masks = event_masks
        BY <1>9
      <3>2. s2c' = [s2c EXCEPT ![me] = s2c[me] \o (<<r>> \o <<>>)]
        BY <1>1, <1>4, <3>1 DEF Write
      <3>3. s2c'[me] = s2c[me] \o (<<r>> \o <<>>)
        BY <3>2, LiveFacts DEF IInv, TypeOK, ChannelTypeOK
      <3>4. s2c[me] \in Seq(Message)
        BY LiveFacts
      <3> PICK B \in Seq(Message) : B = s2c[me]
        BY <3>4
      <3>5. B \o (<<r>> \o <<>>) = Append(B, r)
        <4>1. <<r>> \o <<>> = <<r>> /\ B \o <<r>> = Append(B, r)
          OBVIOUS
        <4> QED BY <4>1
      <3> QED BY <1>4, <3>1, <3>3, <3>5
    <2>2. MaskFirst'
      <3> SUFFICES ASSUME qpc \in {"open", "mask"} \/ MaskSent(src_num)'
                   PROVE  /\ \A it \in Items : status[<<src_num, it>>] = "REQUEST_NEEDED"
                          /\ \A n \in 1..Len(s2c'[me]) : s2c'[me][n].kind # "event"
                          /\ \A n \in 1..Len(todo) : todo[n].kind # "event"
                          /\ conn[me] = "open" => event_masks[me][src_num] = {}
        BY <1>4, <2>1 DEF MaskFirst
      <3>1. MaskSent(src_num)' => MaskSent(src_num)
        BY <1>3, <1>5 DEF MaskSent
      <3>2. r.kind = "reply"
        BY DEF ReplyMsg
      <3>3. \A n \in 1..Len(Append(s2c[me], r)) :
              \/ n \in 1..Len(s2c[me]) /\ Append(s2c[me], r)[n] = s2c[me][n]
              \/ Append(s2c[me], r)[n] = r
        BY LiveFacts, AppendProperties
      <3> QED BY <2>1, <3>1, <3>2, <3>3 DEF Live, MaskFirst
    <2>3. Coherent'
      <3> SUFFICES ASSUME NEW it \in event_masks[me][src_num]
                   PROVE  Flow(Append(s2c[me], r), todo, it, val[src_num][it], Stale(it)', Untold(it)')
        BY <1>4, <2>1 DEF Coherent
      <3>0. s2c[me] \in Seq(Message) /\ todo \in Seq(Message) /\ it \in Items
        BY <1>0, LiveFacts
      <3> PICK B \in Seq(Message) : B = s2c[me]
        BY <3>0
      <3> PICK C \in Seq(Message) : C = todo
        BY <3>0
      <3> PICK v : v = val[src_num][it]
        OBVIOUS
      <3> PICK stale \in BOOLEAN : stale = Stale(it)
        BY TruthValues
      <3> PICK late \in BOOLEAN : late = Stale(it)'
        BY TruthValues
      <3> PICK told \in BOOLEAN : told = Untold(it)'
        BY TruthValues
      <3> PICK untold \in BOOLEAN : untold = Untold(it)
        BY TruthValues
      <3>1. Flow(B, C, it, v, stale, untold) /\ ~ untold
        BY <1>1, <1>6 DEF Live, Coherent, Untold
      <3>2. Answers(r, <<src_num, it>>) => r.data = v
        <4> SUFFICES ASSUME Answers(r, <<src_num, it>>) PROVE r.data = v
          OBVIOUS
        <4>1. r.src = req.src /\ r.cmd = req.cmd /\ r.data = ReplyData(me, req)
          BY DEF ReplyMsg
        <4>2. req.src = src_num /\ req.cmd = it
          BY <4>1 DEF Answers
        <4>3. ReplyData(me, req) = val[req.src][req.cmd]
          <5>1. GEVNT \notin Items
            BY DEF GEVNT, Items, EventBit
          <5> QED BY <3>0, <4>2, <5>1 DEF ReplyData
        <4> QED BY <4>1, <4>2, <4>3
      <3>3. late => stale
        BY <1>4 DEF Stale
      <3>4. Flow(Append(B, r), C, it, v, late, told)
        BY <3>1, <3>2, <3>3, FlowAnswered
      <3> QED BY <3>4
    <2> QED BY <1>7, <2>2, <2>3
  <1>10. CASE req.cmd = SEVNT
    <2>1. Asks(A[1], <<src_num, SEVNT>>) /\ MaskSent(src_num)
      <3>1. req.src = src_num
        BY <1>0, <1>10, RequestKinds DEF SEVNT, ESRC
      <3> QED BY <1>3, <1>10, <3>1 DEF Asks, MaskSent
    <2>0. <<src_num, SEVNT>> \in Keys /\ SEVNT # ESRC
      BY <1>0, CommandFacts
    <2> PICK k \in Keys : k = <<src_num, SEVNT>> /\ k[2] # ESRC
      BY <2>0
    <2>2. Once(A, s2c[me], todo, k) /\ Somewhere(A, s2c[me], todo, k)
      BY <1>3, <1>8, <2>1 DEF Live, SysInv, Tracked, Somewhere
    <2>3. ~ MaskSent(src_num)'
      <3> SUFFICES ASSUME NEW n \in 1..Len(Tail(A)), Asks(Tail(A)[n], k) PROVE FALSE
        BY <1>5 DEF MaskSent
      <3>1. n + 1 \in 1..Len(A) /\ n + 1 # 1 /\ Asks(A[n + 1], k) /\ Asks(A[1], k) /\ 1 \in 1..Len(A)
        BY <1>3, <2>1
      <3> QED BY <2>2, <3>1 DEF Once
    <2>4. status[k] = "WAITING"
      BY <1>8, <2>2 DEF Live, SysInv, Tracked
    <2>5. qpc \notin {"open", "mask"}
      BY <2>4 DEF Live, MaskKnown
    <2>6. MaskFirst'
      BY <1>4, <2>3, <2>5 DEF MaskFirst
    <2>7. Coherent'
      <3> SUFFICES ASSUME NEW it \in event_masks'[me][src_num]
                   PROVE  Flow(s2c'[me], todo, it, val[src_num][it], Stale(it)', Untold(it)')
        BY <1>4 DEF Coherent
      <3>1. it \in Items
        <4>1. IInv' /\ me \in Conns
          BY LiveFacts DEF SysInv
        <4>2. event_masks' \in [Conns -> [Sources -> SUBSET Items]]
          BY <4>1 DEF IInv, TypeOK
        <4> QED BY <1>0, <4>1, <4>2
      <3>2. status[<<src_num, it>>] = "REQUEST_NEEDED"
        BY <2>1, <3>1 DEF Live, MaskFirst
      <3>3. /\ \A n \in 1..Len(s2c'[me]) : ~ Answers(s2c'[me][n], <<src_num, it>>)
            /\ \A n \in 1..Len(todo) : ~ Answers(todo[n], <<src_num, it>>)
        <4>0. <<src_num, it>> \in Keys /\ it # ESRC
          BY <1>0, <3>1, CommandFacts
        <4> PICK l \in Keys : l = <<src_num, it>> /\ l[2] # ESRC
          BY <4>0
        <4>1. ~ Somewhere(c2s'[me], s2c'[me], todo, l)
          BY <1>4, <1>8, <3>2 DEF SysInv, Tracked
        <4> QED BY <4>1 DEF Somewhere
      <3>4. Flow(s2c'[me], todo, it, val[src_num][it], FALSE, Untold(it)')
        BY <3>3, TruthValues, FlowUnknown
      <3>5. ~ Stale(it)'
        BY <1>4, <3>2 DEF Stale
      <3> QED BY <3>4, <3>5, TruthValues, FlowChanged
    <2> QED BY <1>7, <2>6, <2>7
  <1> QED BY <1>9, <1>10

\* The steps of the daemon.
LEMMA DaemonLive ==
    ASSUME NumSources = 1, Conns = {me}, Live, Daemon, UNCHANGED qvars
    PROVE  Live'
  <1>1. SysInv' /\ UNCHANGED cnnvars /\ WorkLoop
    BY DaemonStep DEF Live, Daemon
  <1>2. MaskFirst' /\ Coherent' /\ TurnTaken'
    BY <1>1, SelectLive, AcceptLive, ServeLive, ExecLive, EndOfRoundLive DEF WorkLoop
  <1>3. MaskKnown'
    BY <1>1 DEF Live, MaskKnown, cnnvars, qvars
  <1> QED BY <1>1, <1>2, <1>3 DEF Live, cnnvars, qvars

-----------------------------------------------------------------------------
(* The steps of the library *)

\* The library is at work only when main() waits for it, after the mask has been set.
LEMMA AtWork ==
    ASSUME QueryInv, Live, CallStep
    PROVE  /\ cpc # "idle" /\ qpc \in {"mask_set", "event_got", "shown"}
           /\ call.src = src_num /\ (qpc = "mask_set" => call.fn = "set")
           /\ sock_fd = "open" /\ sock_fd' = "open" /\ event_masks[me] \in [Sources -> SUBSET Items]
  <1>1. cpc # "idle" /\ sock_fd' = sock_fd
    BY DEF CallStep, Answered, Read, ReadFails, ScanReply, ScanEvent, GoOn, TimeOut,
           EventsReturned, UnknownSource, Scanned
  <1>2. qpc \in {"mask_set", "event_got", "shown"}
    BY <1>1 DEF QueryInv, CallsOfMain, QTypeOK, Live
  <1>3. sock_fd = "open"
    BY <1>2 DEF Live
  <1> QED BY <1>1, <1>2, <1>3, LiveFacts DEF QueryInv, CallsOfMain

\* process() reads what has arrived.
LEMMA ReadLive ==
    ASSUME QueryInv, Live, Read, UNCHANGED srvvars, UNCHANGED qvars
    PROVE  MaskKnown' /\ MaskFirst' /\ Coherent'
  <1>0. /\ cpc = "wait" /\ cpc' = "scan"
        /\ UNCHANGED <<conn, c2s, status, data, lost, event_masks, val, events, pc, served, qpc>>
    BY DEF Read, srvvars, qvars
  <1>1. /\ s2c[me] \in Seq(Message) /\ s2c \in [Conns -> Seq(Message)] /\ me \in Conns
        /\ todo = <<>>
    BY <1>0, LiveFacts DEF IInv, TypeOK, ChannelTypeOK, Live, SysInv, CallsInOrder
  <1> PICK B \in Seq(Message) : B = s2c[me]
    BY <1>1
  <1> PICK j \in 0..Len(B) : /\ todo' = SubSeq(B, 1, j)
                             /\ s2c' = [s2c EXCEPT ![me] = SubSeq(B, j + 1, Len(B))]
    BY DEF Read
  <1>2. s2c'[me] = SubSeq(B, j + 1, Len(B))
    BY <1>1
  <1>3. MaskKnown'
    BY <1>0 DEF Live, MaskKnown
  <1>4. MaskFirst'
    <2> SUFFICES ASSUME qpc \in {"open", "mask"} \/ MaskSent(src_num)
                 PROVE  /\ \A n \in 1..Len(s2c'[me]) : s2c'[me][n].kind # "event"
                        /\ \A n \in 1..Len(todo') : todo'[n].kind # "event"
      BY <1>0 DEF Live, MaskFirst, MaskSent
    <2>1. \A n \in 1..Len(B) : B[n].kind # "event"
      BY DEF Live, MaskFirst
    <2> DEFINE B2 == SubSeq(B, j + 1, Len(B))
               C2 == SubSeq(B, 1, j)
    <2>2. /\ \A n \in 1..Len(B2) : n + j \in 1..Len(B) /\ B2[n] = B[n + j]
          /\ \A n \in 1..Len(C2) : n \in 1..Len(B) /\ C2[n] = B[n]
      BY SubSeqProperties
    <2>3. s2c'[me] = B2 /\ todo' = C2
      BY <1>2
    <2> HIDE DEF B2, C2
    <2>4. /\ \A n \in 1..Len(B2) : B2[n].kind # "event"
          /\ \A n \in 1..Len(C2) : C2[n].kind # "event"
      BY <2>1, <2>2
    <2> QED BY <2>3, <2>4
  <1>5. Coherent'
    <2> SUFFICES ASSUME conn[me] = "open", NEW it \in event_masks[me][src_num]
                 PROVE  Flow(s2c'[me], todo', it, val[src_num][it], Stale(it)', Untold(it)')
      BY <1>0 DEF Coherent
    <2> PICK v : v = val[src_num][it]
      OBVIOUS
    <2> PICK stale \in BOOLEAN : stale = Stale(it)
      BY TruthValues
    <2> PICK untold \in BOOLEAN : untold = Untold(it)
      BY TruthValues
    <2>1. Flow(B, <<>>, it, v, stale, untold)
      BY <1>1 DEF Live, Coherent
    <2>2. Flow(SubSeq(B, j + 1, Len(B)), SubSeq(B, 1, j), it, v, stale, untold)
      BY <2>1, FlowRead
    <2>3. (Stale(it)' <=> Stale(it)) /\ (Untold(it)' <=> Untold(it))
      BY <1>0 DEF Stale, Untold
    <2>4. Stale(it)' = stale /\ Untold(it)' = untold
      BY <2>3, TruthValues
    <2> QED BY <1>2, <2>2, <2>4
  <1> QED BY <1>3, <1>4, <1>5

\* A reply: what is in the cache is what it says.
LEMMA ScanReplyLive ==
    ASSUME NumSources = 1, QueryInv, Live, ScanReply, UNCHANGED srvvars, UNCHANGED qvars
    PROVE  MaskKnown' /\ MaskFirst' /\ Coherent'
  <1>0. /\ cpc = "scan" /\ cpc' = "scan"
        /\ UNCHANGED <<conn, c2s, s2c, lost, event_masks, val, events, pc, served, qpc>>
    BY DEF ScanReply, chanvars, srvvars, qvars
  <1>1. CallStep
    BY DEF CallStep
  <1>2. /\ qpc \in {"mask_set", "event_got", "shown"} /\ sock_fd = "open"
        /\ src_num = 0 /\ src_num \in Sources
        /\ event_masks[me][src_num] \in SUBSET Items
        /\ s2c[me] \in Seq(Message) /\ todo \in Seq(Message)
    BY <1>1, AtWork, OneSourceAsked, LiveFacts
  <1> PICK B \in Seq(Message) : B = s2c[me]
    BY <1>2
  <1> PICK C \in Seq(Message) : C = todo
    BY <1>2
  <1>3. C # <<>>
    BY DEF ScanReply
  <1>4. Head(C) \in Message
    BY <1>3
  <1> PICK m \in Message : m = Head(C)
    BY <1>4
  <1>5. m.kind = "reply" /\ todo' = Tail(C)
    BY DEF ScanReply
  <1>6. /\ ReplyKey(m) \in Keys
        /\ \A k \in Keys : k[2] # ESRC => (Answers(m, k) <=> ReplyKey(m) = k)
    BY <1>5, ReplyKeyFacts DEF Live, SysInv
  <1> PICK l \in Keys : l = ReplyKey(m)
    BY <1>6
  <1>7. /\ status' = [status EXCEPT ![l] = "VALID"] /\ data' = [data EXCEPT ![l] = m.data]
        /\ status \in [Keys -> {"REQUEST_NEEDED", "WAITING", "VALID"}] /\ data \in [Keys -> Nat]
    BY DEF ScanReply, QueryInv, LibInv, ConnectionTypeOK
  <1>8. /\ \A it \in Items : <<src_num, it>> \in Keys /\ it # ESRC
        /\ <<src_num, SEVNT>> \in Keys
    BY <1>2, CommandFacts
  <1>9. MaskKnown'
    <2>1. status[<<src_num, SEVNT>>] = "VALID" => status'[<<src_num, SEVNT>>] = "VALID"
      BY <1>7, <1>8
    <2> QED BY <1>0, <1>2, <2>1 DEF Live, MaskKnown
  <1>10. MaskFirst'
    <2> SUFFICES ASSUME MaskSent(src_num)
                 PROVE  /\ \A it \in Items : status'[<<src_num, it>>] = "REQUEST_NEEDED"
                        /\ \A n \in 1..Len(todo') : todo'[n].kind # "event"
      BY <1>0, <1>2 DEF Live, MaskFirst, MaskSent
    <2>1. ASSUME NEW it \in Items PROVE status'[<<src_num, it>>] = "REQUEST_NEEDED"
      <3>1. status[<<src_num, it>>] = "REQUEST_NEEDED"
        BY DEF Live, MaskFirst
      <3>2. ~ Answers(m, <<src_num, it>>)
        <4>1. \A n \in 1..Len(C) : ~ Answers(C[n], <<src_num, it>>)
          BY <1>2, <3>1, NotAsked DEF Live
        <4>2. Head(C) = C[1] /\ 1 \in 1..Len(C)
          BY <1>3
        <4> QED BY <4>1, <4>2
      <3>3. l # <<src_num, it>>
        BY <1>6, <1>8, <3>2
      <3> QED BY <1>7, <1>8, <3>1, <3>3
    <2>2. \A n \in 1..Len(Tail(C)) : n + 1 \in 1..Len(C) /\ Tail(C)[n] = C[n + 1]
      BY <1>3
    <2> QED BY <1>5, <2>1, <2>2 DEF Live, MaskFirst
  <1>11. Coherent'
    <2> SUFFICES ASSUME conn[me] = "open", NEW it \in event_masks[me][src_num]
                 PROVE  Flow(s2c[me], todo', it, val[src_num][it], Stale(it)', Untold(it)')
      BY <1>0 DEF Coherent
    <2> PICK v : v = val[src_num][it]
      OBVIOUS
    <2> PICK stale \in BOOLEAN : stale = Stale(it)
      BY TruthValues
    <2> PICK late \in BOOLEAN : late = Stale(it)'
      BY TruthValues
    <2> PICK untold \in BOOLEAN : untold = Untold(it)
      BY TruthValues
    <2>1. Flow(B, C, it, v, stale, untold)
      BY DEF Live, Coherent
    <2>2. <<src_num, it>> \in Keys /\ it # ESRC
      BY <1>2, <1>8
    <2> PICK k \in Keys : k = <<src_num, it>> /\ k[2] # ESRC
      BY <2>2
    <2>3. Answers(m, k) <=> l = k
      BY <1>6
    <2>4. /\ l = k => data'[k] = m.data
          /\ l # k => data'[k] = data[k] /\ status'[k] = status[k]
      BY <1>7
    <2>5. late => stale \/ (Answers(m, k) /\ m.data # v)
      BY <1>0, <2>3, <2>4 DEF Stale
    <2>6. Flow(B, Tail(C), it, v, late, untold)
      BY <1>3, <1>5, <2>1, <2>5, FlowScanned
    <2>7. Untold(it)' = untold
      <3>1. Untold(it)' <=> Untold(it)
        BY <1>0 DEF Untold
      <3> QED BY <3>1, TruthValues
    <2> QED BY <1>5, <2>6, <2>7
  <1> QED BY <1>9, <1>10, <1>11

\* An event: the items that it names are fetched anew, or it has been read for others.
LEMMA ScanEventLive ==
    ASSUME NumSources = 1, QueryInv, Live, ScanEvent, UNCHANGED srvvars, UNCHANGED qvars
    PROVE  MaskKnown' /\ MaskFirst' /\ Coherent'
  <1>0. /\ cpc = "scan" /\ cpc' = "scan" /\ CallStep
        /\ UNCHANGED <<conn, s2c, data, event_masks, val, events, pc, served, qpc>>
    BY DEF ScanEvent, srvvars, qvars, CallStep
  <1>1. /\ qpc \in {"mask_set", "event_got", "shown"} /\ sock_fd = "open"
        /\ src_num = 0 /\ src_num \in Sources /\ Sources = {0}
        /\ event_masks[me][src_num] \in SUBSET Items
        /\ s2c[me] \in Seq(Message) /\ todo \in Seq(Message)
    BY <1>0, AtWork, OneSourceAsked, LiveFacts
  <1> PICK B \in Seq(Message) : B = s2c[me]
    BY <1>1
  <1> PICK C \in Seq(Message) : C = todo
    BY <1>1
  <1>2. C # <<>> /\ Head(C).kind = "event" /\ todo' = Tail(C)
    BY DEF ScanEvent
  <1>3. Head(C) \in Message /\ Head(C) = C[1] /\ 1 \in 1..Len(C)
    BY <1>2
  <1> PICK m \in Message : m = Head(C)
    BY <1>3
  <1>4. m.kind = "event" /\ m.src = 0
    BY <1>1, <1>2 DEF Message
  <1> PICK str, items, needed :
         /\ str = Appended(m)
         /\ items = EventsIn(str.code)
         /\ needed = Refresh(str.num, items)
         /\ c2s' = Written(RequestAll(str.num, needed))
         /\ status' = [k \in Keys |-> IF k[1] = str.num /\ k[2] \in needed
                                      THEN "WAITING" ELSE status[k]]
         /\ lost' = LostNow(m, str.num, items)
    BY DEF ScanEvent
  <1>5. str.num = 0
    BY <1>1, <1>4 DEF Appended, Live, SysInv, TableTypeOK
  <1>6. /\ needed \in SUBSET Items /\ \A it \in needed : status[<<0, it>>] # "WAITING"
        /\ \A it \in items \ needed : status[<<0, it>>] = "WAITING"
    BY <1>5 DEF Refresh, EventsIn, Decode
  <1>7. \A cmd \in Items \cup {SEVNT} :
           status'[<<0, cmd>>] = IF cmd \in needed THEN "WAITING" ELSE status[<<0, cmd>>]
    BY <1>1, <1>5, CommandFacts
  <1>8. ~ MaskSent(src_num)
    BY <1>2, <1>3 DEF Live, MaskFirst
  <1>9. ~ MaskSent(src_num)'
    <2> PICK R : R = RequestAll(0, needed)
      OBVIOUS
    <2>1. RequestsFor(R, 0, Items, needed)
      BY <1>1, <1>6, RequestAllFacts
    <2>2. UNCHANGED <<conn, s2c>> /\ c2s' = Written(R)
      BY <1>0, <1>5
    <2>3. \A s \in Sources : MaskSent(s)' <=> MaskSent(s)
      BY <1>1, <1>6, <2>1, <2>2, AskedFor DEF Live
    <2> QED BY <1>1, <1>8, <2>3
  <1>10. MaskKnown'
    <2>1. SEVNT \notin needed
      BY <1>6, CommandFacts
    <2> QED BY <1>0, <1>1, <1>7, <2>1 DEF Live, MaskKnown
  <1>11. MaskFirst'
    BY <1>0, <1>1, <1>9 DEF MaskFirst
  <1>12. Coherent'
    <2> SUFFICES ASSUME conn[me] = "open", NEW it \in event_masks[me][src_num]
                 PROVE  Flow(s2c[me], todo', it, val[src_num][it], Stale(it)', Untold(it)')
      BY <1>0 DEF Coherent
    <2> PICK v : v = val[src_num][it]
      OBVIOUS
    <2> PICK stale \in BOOLEAN : stale = Stale(it)
      BY TruthValues
    <2> PICK late \in BOOLEAN : late = Stale(it)'
      BY TruthValues
    <2> PICK untold \in BOOLEAN : untold = Untold(it)
      BY TruthValues
    <2>1. Flow(B, C, it, v, stale, untold)
      BY DEF Live, Coherent
    <2>2. it \in Items
      BY <1>1
    <2>3. lost'[0] = (lost[0] \cup m.evts) \ items
      BY <1>1, <1>4, <1>5 DEF LostNow
    <2>4. late => stale /\ it \notin m.evts
      <3> SUFFICES ASSUME late PROVE stale /\ it \notin m.evts
        OBVIOUS
      <3>1. status'[<<0, it>>] = "VALID" /\ data[<<0, it>>] # val[0][it] /\ it \notin lost'[0]
        BY <1>0, <1>1 DEF Stale
      <3>2. it \notin needed /\ status[<<0, it>>] = "VALID"
        <4>1. status'[<<0, it>>] = IF it \in needed THEN "WAITING" ELSE status[<<0, it>>]
          BY <1>7, <2>2
        <4> QED BY <3>1, <4>1
      <3>3. it \notin items
        BY <1>6, <3>2
      <3>4. it \notin lost[0] /\ it \notin m.evts
        BY <2>3, <3>1, <3>3
      <3> QED BY <1>1, <3>1, <3>2, <3>4 DEF Stale
    <2>5. Flow(B, Tail(C), it, v, late, untold)
      <3>1. late => stale /\ ~ (Head(C).kind = "event" /\ it \in Head(C).evts)
        BY <2>4
      <3>2. C # <<>>
        BY <1>2
      <3> QED BY <2>1, <3>1, <3>2, FlowFetched
    <2>6. Untold(it)' = untold
      <3>1. Untold(it)' <=> Untold(it)
        BY <1>0 DEF Untold
      <3> QED BY <3>1, TruthValues
    <2> QED BY <1>2, <2>5, <2>6
  <1> QED BY <1>10, <1>11, <1>12

\* The other steps of a call leave the cache and the connection alone; the mask has
\* been set when the call for it returns.
LEMMA OtherCallsLive ==
    ASSUME NumSources = 1, QueryInv, Live, UNCHANGED srvvars, UNCHANGED qvars,
           Answered \/ ReadFails \/ GoOn \/ TimeOut \/ EventsReturned \/ UnknownSource
    PROVE  MaskKnown' /\ MaskFirst' /\ Coherent'
  <1>1. /\ CallStep
        /\ UNCHANGED <<conn, c2s, s2c, status, data, lost, todo, event_masks, val, events, pc, served, qpc>>
    BY DEF Answered, ReadFails, GoOn, TimeOut, EventsReturned, UnknownSource, chanvars,
           srvvars, qvars, CallStep
  <1>2. /\ cpc # "idle" /\ qpc \in {"mask_set", "event_got", "shown"}
        /\ call.src = src_num /\ (qpc = "mask_set" => call.fn = "set")
    BY <1>1, AtWork
  <1>3. MaskKnown'
    <2> SUFFICES ASSUME qpc = "mask_set", cpc' = "idle", result'.ret = "RDS_OK"
                 PROVE  status[<<src_num, SEVNT>>] = "VALID"
      BY <1>1, <1>2 DEF Live, MaskKnown
    <2>1. call.fn = "set" /\ call.cmd = SEVNT
      BY <1>2 DEF Live, SysInv, TableTypeOK
    <2>2. Answered
      BY <1>2, <2>1 DEF ReadFails, GoOn, TimeOut, EventsReturned, UnknownSource, Return, Scanned
    <2>3. status[Key] = "VALID"
      BY <2>2 DEF Answered
    <2> QED BY <1>2, <2>1, <2>3 DEF Key
  <1>4. MaskFirst'
    BY <1>1 DEF Live, MaskFirst, MaskSent
  <1>5. Coherent'
    <2>1. \A it : (Stale(it)' => Stale(it)) /\ (Untold(it) => Untold(it)')
      BY <1>1 DEF Stale, Untold
    <2> QED BY <1>1, <2>1, CoherentKept DEF Live
  <1> QED BY <1>3, <1>4, <1>5

LEMMA LibraryLive ==
    ASSUME NumSources = 1, QueryInv, Live, QLibrary
    PROVE  Live'
  <1>1. /\ SysInv' /\ CallStep /\ UNCHANGED srvvars /\ UNCHANGED qvars
    BY LibraryStep DEF Live, QLibrary, Library
  <1>2. MaskKnown' /\ MaskFirst' /\ Coherent'
    BY <1>1, ReadLive, ScanReplyLive, ScanEventLive, OtherCallsLive DEF CallStep
  <1>3. conn' = conn
    BY <1>1 DEF CallStep, Answered, Read, ReadFails, ScanReply, ScanEvent, GoOn, TimeOut,
                EventsReturned, UnknownSource, chanvars
  <1>4. TurnTaken'
    BY <1>1, <1>3 DEF Live, TurnTaken, Clients, srvvars
  <1>5. qpc' = qpc /\ qpc \in {"mask_set", "event_got", "shown"} /\ sock_fd' = "open"
    BY <1>1, AtWork DEF qvars
  <1> QED BY <1>1, <1>2, <1>4, <1>5 DEF Live

-----------------------------------------------------------------------------
(* The steps of main() *)

\* rds_open_connection(): nothing has been asked for yet.
LEMMA OpenLive ==
    ASSUME Live, QOpen
    PROVE  Live'
  <1>1. qpc = "open" /\ sock_fd = "none" /\ pc # "down"
    BY LiveFacts DEF QOpen, Live, IInv, Connected
  <1>2. OpenSucceeds /\ Connect(me)
    BY <1>1 DEF QOpen, Open, OpenFails
  <1>3. SysInv'
    BY <1>2, OpenStep DEF Live, Open
  <1>4. /\ qpc' = "mask" /\ sock_fd' = "open" /\ conn' = [conn EXCEPT ![me] = "pending"]
        /\ UNCHANGED <<c2s, s2c, status, todo>>
    BY <1>2 DEF QOpen, OpenSucceeds, Connect
  <1>5. conn'[me] = "pending"
    BY <1>4, LiveFacts DEF IInv, TypeOK, ChannelTypeOK
  <1>6. MaskKnown' /\ MaskFirst'
    BY <1>1, <1>4, <1>5 DEF Live, MaskKnown, MaskFirst
  <1>7. Coherent' /\ TurnTaken'
    BY <1>5 DEF Coherent, TurnTaken
  <1> QED BY <1>3, <1>4, <1>6, <1>7 DEF Live

\* A call is entered: the cache is as coherent as before.
LEMMA EnterLive ==
    ASSUME Live, UNCHANGED srvvars, NEW fn, NEW s, NEW cmd, NEW mask, Enter(fn, s, cmd, mask),
           \A it \in Items : status'[<<src_num, it>>] = "VALID" => status[<<src_num, it>>] = "VALID"
    PROVE  Coherent' /\ TurnTaken'
  <1>1. UNCHANGED <<conn, s2c, data, lost, todo, event_masks, val, events, pc, served, clientlist, i>>
    BY DEF Enter, srvvars, Live, SysInv, CallsInOrder
  <1>2. event_masks[me][src_num] \subseteq Items
    BY LiveFacts, QueryAssumption
  <1>3. \A it \in event_masks[me][src_num] : (Stale(it)' => Stale(it)) /\ (Untold(it) => Untold(it)')
    BY <1>1, <1>2 DEF Stale, Untold
  <1>4. Coherent'
    BY <1>1, <1>3, CoherentKept DEF Live
  <1> QED BY <1>1, <1>4 DEF Live, TurnTaken, Clients

\* rds_set_event_mask().
LEMMA SetMaskLive ==
    ASSUME QueryInv, Live, QSetEventMask
    PROVE  Live'
  <1>1. src_num \in Sources /\ EventMask \in SUBSET Items /\ <<src_num, SEVNT>> \in Keys
    BY ScenarioFacts, CommandFacts DEF QueryInv
  <1> PICK mask \in SUBSET Items : mask = EventMask
    BY <1>1
  <1>2. /\ Enter("set", src_num, SEVNT, mask) /\ SendCommand(src_num, SEVNT, mask)
        /\ UNCHANGED srvvars /\ qpc = "mask" /\ qpc' = "mask_set"
    BY DEF QSetEventMask, CallSetEventMask
  <1>3. SEVNT \in Commands /\ SEVNT # ESRC
    BY CommandFacts
  <1>4. SysInv'
    BY <1>1, <1>2, <1>3, EnterStep DEF Live
  <1>5. \A it \in Items : status'[<<src_num, it>>] = status[<<src_num, it>>]
    <2>1. status \in [Keys -> {"REQUEST_NEEDED", "WAITING", "VALID"}]
      BY DEF Live, SysInv, TableTypeOK
    <2>2. \A it \in Items : <<src_num, it>> \in Keys /\ <<src_num, it>> # <<src_num, SEVNT>>
      BY <1>1, CommandFacts
    <2>3. status' = status \/ status' = [status EXCEPT ![<<src_num, SEVNT>>] = "WAITING"]
      BY <1>2 DEF SendCommand
    <2> QED BY <2>1, <2>2, <2>3
  <1>6. cpc' = "wait" /\ sock_fd = "open" /\ UNCHANGED <<sock_fd, s2c, todo, conn, event_masks>>
    BY <1>2 DEF Enter, srvvars, Live, SysInv, CallsInOrder
  <1>7. MaskKnown' /\ MaskFirst'
    BY <1>2, <1>5, <1>6 DEF Live, MaskKnown, MaskFirst
  <1>8. Coherent' /\ TurnTaken'
    BY <1>2, <1>5, EnterLive
  <1> QED BY <1>2, <1>4, <1>6, <1>7, <1>8 DEF Live

\* rds_get_event().
LEMMA GetEventLive ==
    ASSUME QueryInv, Live, QGetEvent
    PROVE  Live'
  <1>1. src_num \in Sources /\ <<src_num, SEVNT>> \in Keys /\ {} \in SUBSET Items
    BY QueryAssumption, CommandFacts
  <1>2. /\ Enter("event", src_num, SEVNT, {}) /\ UNCHANGED <<c2s, status>>
        /\ UNCHANGED srvvars /\ qpc = "event" /\ qpc' = "event_got"
    BY DEF QGetEvent, CallGetEvent
  <1>3. SEVNT \in Commands /\ SEVNT # ESRC
    BY CommandFacts
  <1>4. SysInv'
    BY <1>1, <1>2, <1>3, EnterStep DEF Live
  <1>5. sock_fd = "open" /\ UNCHANGED <<sock_fd, s2c, todo, conn, event_masks>>
    BY <1>2 DEF Enter, srvvars, Live, SysInv, CallsInOrder
  <1>6. MaskKnown' /\ MaskFirst'
    BY <1>2, <1>5 DEF Live, MaskKnown, MaskFirst, MaskSent
  <1>7. Coherent' /\ TurnTaken'
    BY <1>2, EnterLive
  <1> QED BY <1>2, <1>4, <1>5, <1>6, <1>7 DEF Live

\* rds_get_flags() and the like: the daemon has the mask by then.
LEMMA ShowLive ==
    ASSUME QueryInv, Live, QShow
    PROVE  Live'
  <1> PICK it \in Items : it = Next1(toshow)
    BY Next1Facts DEF QueryInv, QTypeOK, QShow
  <1>1. src_num \in Sources /\ <<src_num, it>> \in Keys /\ {} \in SUBSET Items
    BY QueryAssumption, CommandFacts
  <1>2. /\ Enter("get", src_num, it, {}) /\ SendIfNeeded(src_num, it)
        /\ UNCHANGED srvvars /\ qpc = "show" /\ qpc' = "shown"
    BY DEF QShow, CallGet
  <1>3. it \in Commands /\ it # ESRC /\ it # SEVNT /\ <<src_num, SEVNT>> \in Keys /\ SEVNT # ESRC
    BY <1>1, CommandFacts
  <1>4. SysInv'
    BY <1>1, <1>2, <1>3, EnterStep DEF Live, SendIfNeeded
  <1>5. sock_fd = "open" /\ UNCHANGED <<sock_fd, s2c, todo, conn, event_masks>>
    BY <1>2 DEF Enter, srvvars, Live, SysInv, CallsInOrder
  <1>6. \A k \in Keys : status'[k] = status[k] \/ (k = <<src_num, it>> /\ status'[k] = "WAITING")
    <2>1. status \in [Keys -> {"REQUEST_NEEDED", "WAITING", "VALID"}]
      BY DEF Live, SysInv, TableTypeOK
    <2>2. status' = status \/ status' = [status EXCEPT ![<<src_num, it>>] = "WAITING"]
      BY <1>2 DEF SendIfNeeded, SendCommand
    <2> QED BY <2>1, <2>2
  <1>7. status[<<src_num, SEVNT>>] = "VALID" /\ status'[<<src_num, SEVNT>>] = "VALID"
    <2>1. status[<<src_num, SEVNT>>] = "VALID"
      BY <1>2 DEF Live, MaskKnown
    <2> QED BY <1>3, <1>6, <2>1
  <1>8. ~ MaskSent(src_num)'
    <2> PICK k \in Keys : k = <<src_num, SEVNT>> /\ k[2] # ESRC
      BY <1>3
    <2>1. ~ Somewhere(c2s'[me], s2c'[me], todo', k)
      BY <1>5, <1>7, <1>4 DEF SysInv, Tracked
    <2> QED BY <2>1 DEF Somewhere, MaskSent
  <1>9. MaskKnown' /\ MaskFirst'
    BY <1>2, <1>7, <1>8 DEF MaskKnown, MaskFirst
  <1>10. Coherent' /\ TurnTaken'
    <2>1. \A other \in Items :
             status'[<<src_num, other>>] = "VALID" => status[<<src_num, other>>] = "VALID"
      BY <1>1, <1>6, CommandFacts
    <2> QED BY <1>2, <2>1, EnterLive
  <1> QED BY <1>2, <1>4, <1>5, <1>9, <1>10 DEF Live

\* Between two calls.
LEMMA BetweenLive ==
    ASSUME NumSources = 1, Live, UNCHANGED sysvars, QMaskSet \/ QEventGot \/ QShown \/ QTurnDone \/ qpc' = qpc
    PROVE  Live'
  <1>1. SysInv'
    BY SysNextInv DEF Live
  <1>2. UNCHANGED <<conn, c2s, s2c, event_masks, val, events, pc, served, clientlist, i>>
    BY DEF sysvars, vars, chanvars, srvvars
  <1>3. UNCHANGED <<sock_fd, status, data, lost, todo, cpc, result>>
    BY DEF sysvars, cnnvars
  <1>4. qpc' = qpc \/ (qpc \notin {"open", "mask"} /\ qpc' \notin {"open", "mask", "mask_set", "done"})
    BY DEF QMaskSet, QEventGot, QShown, QTurnDone
  <1>5. MaskKnown'
    BY <1>3, <1>4 DEF QMaskSet, QEventGot, QShown, QTurnDone, Live, MaskKnown
  <1>6. MaskFirst'
    BY <1>2, <1>3, <1>4 DEF Live, MaskFirst, MaskSent
  <1>7. Coherent'
    <2>1. \A it : (Stale(it)' => Stale(it)) /\ (Untold(it) => Untold(it)')
      BY <1>2, <1>3 DEF Stale, Untold
    <2> QED BY <1>2, <1>3, <2>1, CoherentKept DEF Live
  <1>8. TurnTaken'
    BY <1>2 DEF Live, TurnTaken, Clients
  <1> QED BY <1>1, <1>3, <1>4, <1>5, <1>6, <1>7, <1>8 DEF Live

\* The end of rdsquery, and of the daemon.
LEMMA EndLive ==
    ASSUME Live, QExit \/ Interrupt \/ Crash
    PROVE  Gone'
  <1>1. /\ pc # "down" /\ conn[me] \in {"none", "pending", "open"} /\ conn \in [Conns -> ConnState]
        /\ me \in Conns
    BY LiveFacts DEF IInv, Connected, TypeOK, ChannelTypeOK
  <1>2. CASE QExit
    <2>1. sock_fd = "open"
      BY <1>2 DEF QExit, Live
    <2>2. Disconnect(me) /\ qpc' = "done"
      BY <1>2, <2>1 DEF QExit, Close, CloseFails
    <2> QED BY <1>1, <2>2 DEF Disconnect, srvvars, Gone
  <1>3. CASE Interrupt
    <2>1. Disconnect(me) /\ qpc' = "done"
      BY <1>3 DEF Interrupt
    <2> QED BY <1>1, <2>1 DEF Disconnect, srvvars, Gone
  <1>4. CASE Crash
    BY <1>1, <1>4 DEF Crash, Gone
  <1> QED BY <1>2, <1>3, <1>4

\* A connection that has gone: the daemon closes its end, or rdsquery does.
LEMMA GoneStep ==
    ASSUME Conns = {me}, QueryInv, Gone, [QNext]_queryvars
    PROVE  Gone'
  <1>1. conn \in [Conns -> ConnState] /\ me \in Conns /\ (pc # "down" => IInv)
    BY MeAssumption DEF QueryInv, LibInv, ChannelTypeOK
  <1>2. CASE UNCHANGED <<conn, pc, qpc>>
    BY <1>2 DEF Gone
  <1>3. ASSUME ~ UNCHANGED <<conn, pc, qpc>>, pc = "down"
        PROVE  Gone'
    <2>1. CASE Main
      <3>1. UNCHANGED <<conn, pc>> \/ (Disconnect(me) /\ UNCHANGED pc)
        BY <1>3, <2>1 DEF Main, QOpen, QSetEventMask, QMaskSet, QGetEvent, QEventGot, QShow, QShown,
              QTurnDone, QExit, Open, Close, Connect, Disconnect, CallSetEventMask, CallGetEvent, CallGet,
              Enter, sysvars, vars, chanvars, srvvars
      <3> QED BY <1>1, <1>3, <3>1 DEF Disconnect, Gone
    <2>2. CASE Interrupt
      BY <1>1, <1>3, <2>2 DEF Interrupt, Disconnect, srvvars, Gone
    <2>3. CASE QLibrary
      BY <1>3, <2>3 DEF QLibrary, Library, CallStep, Answered, Read, ReadFails, ScanReply, ScanEvent,
            GoOn, TimeOut, EventsReturned, UnknownSource, chanvars, srvvars, qvars
    <2>4. CASE Daemon
      BY <1>3, <2>4 DEF Daemon, WorkLoop, Select, AcceptUnix, AcceptInet, Accept, ServeClient, ExecCmd,
            EndOfRound
    <2>5. ~ Others
      BY DEF Others
    <2>6. ~ Crash
      BY <1>3 DEF Crash
    <2> QED BY <1>3, <2>1, <2>2, <2>3, <2>4, <2>5, <2>6 DEF QNext, queryvars, qvars, sysvars, vars,
            chanvars, srvvars
  <1>4. ASSUME ~ UNCHANGED <<conn, pc, qpc>>, pc # "down"
        PROVE  Gone'
    <2>1. qpc = "done" /\ conn[me] \in {"closed", "none"} /\ IInv
      BY <1>1, <1>4 DEF Gone
    <2>2. ~ Main /\ ~ Interrupt /\ ~ QLibrary
      BY <2>1 DEF Main, QOpen, QSetEventMask, QMaskSet, QGetEvent, QEventGot, QShow, QShown, QTurnDone,
            QExit, Interrupt, QLibrary
    <2>3. ~ Others
      BY DEF Others
    <2>4. CASE Daemon /\ UNCHANGED qvars
      <3>1. pc' # "down" /\ qpc' = "done"
        BY <2>1, <2>4 DEF Daemon, WorkLoop, Select, AcceptUnix, AcceptInet, Accept, ServeClient, ExecCmd,
              EndOfRound, Process, DeleteClient, qvars, IInv, Connected
      <3>2. conn'[me] = conn[me] \/ conn'[me] = "none"
        <4>1. CASE Select \/ ExecCmd \/ EndOfRound
          BY <4>1 DEF Select, ExecCmd, EndOfRound, chanvars
        <4>2. CASE AcceptUnix \/ AcceptInet
          BY <1>1, <2>1, <4>2 DEF AcceptUnix, AcceptInet, Accept, AcceptClient
        <4>3. CASE ServeClient
          BY <1>1, <4>3 DEF ServeClient, Process, DeleteClient
        <4> QED BY <2>4, <4>1, <4>2, <4>3 DEF Daemon, WorkLoop
      <3> QED BY <2>1, <3>1, <3>2 DEF Gone
    <2>5. CASE Crash
      BY <1>1, <2>1, <2>5 DEF Crash, Gone
    <2> QED BY <1>4, <2>2, <2>3, <2>4, <2>5 DEF QNext, queryvars, qvars, sysvars, vars, chanvars,
            srvvars
  <1> QED BY <1>2, <1>3, <1>4

LEMMA CacheInitInv == QInit => CacheInv
  <1> SUFFICES ASSUME QInit PROVE Live
    BY DEF CacheInv
  <1>1. SysInv
    BY SysInitInv DEF QInit
  <1>2. /\ qpc = "open" /\ sock_fd = "none" /\ conn[me] = "none" /\ todo = <<>> /\ s2c[me] = <<>>
        /\ \A k \in Keys : status[k] = "REQUEST_NEEDED"
    BY MeAssumption DEF QInit, SysInit, Init, InitConnection
  <1>3. MaskKnown /\ MaskFirst
    <2>1. Len(<<>>) = 0
      OBVIOUS
    <2>2. \A cmd \in Items \cup {SEVNT} : <<src_num, cmd>> \in Keys
      BY QueryAssumption, CommandFacts
    <2> QED BY <1>2, <2>1, <2>2 DEF MaskKnown, MaskFirst
  <1>4. Coherent /\ TurnTaken
    BY <1>2 DEF Coherent, TurnTaken
  <1> QED BY <1>1, <1>2, <1>3, <1>4 DEF Live

LEMMA CacheNextInv ==
    ASSUME NumSources = 1, Conns = {me}
    PROVE  QueryInv /\ CacheInv /\ [QNext]_queryvars => CacheInv'
  <1> SUFFICES ASSUME QueryInv, CacheInv, [QNext]_queryvars PROVE CacheInv'
    OBVIOUS
  <1>1. CASE Gone
    BY <1>1, GoneStep DEF CacheInv
  <1>2. CASE Live
    <2> USE <1>2
    <2>1. CASE UNCHANGED queryvars
      <3>1. UNCHANGED sysvars /\ qpc' = qpc
        BY <2>1 DEF queryvars, qvars
      <3> QED BY <3>1, BetweenLive DEF CacheInv
    <2>2. CASE Main
      <3>1. CASE QMaskSet \/ QEventGot \/ QShown \/ QTurnDone
        <4>1. UNCHANGED sysvars
          BY <3>1 DEF QMaskSet, QEventGot, QShown, QTurnDone
        <4> QED BY <3>1, <4>1, BetweenLive DEF CacheInv
      <3> QED BY <2>2, <3>1, OpenLive, SetMaskLive, GetEventLive, ShowLive, EndLive DEF Main, CacheInv
    <2>3. CASE QLibrary
      BY <2>3, LibraryLive DEF CacheInv
    <2>4. CASE Daemon /\ UNCHANGED qvars
      BY <2>4, DaemonLive DEF CacheInv
    <2>5. CASE Interrupt \/ Crash
      BY <2>5, EndLive DEF CacheInv
    <2>6. ~ Others
      BY DEF Others
    <2> QED BY <2>1, <2>2, <2>3, <2>4, <2>5, <2>6 DEF QNext
  <1> QED BY <1>1, <1>2 DEF CacheInv

\* What has been called off.
LEMMA CoherentCache ==
    ASSUME NumSources = 1, Live
    PROVE  CacheCoherent
  <1> SUFFICES ASSUME NEW it \in event_masks[me][src_num] \ lost[src_num],
                      conn[me] = "open", status[<<src_num, it>>] = "VALID",
                      data[<<src_num, it>>] # val[src_num][it]
               PROVE  EventPending(it)
    BY DEF CacheCoherent
  <1>1. s2c[me] \in Seq(Message) /\ todo \in Seq(Message) /\ Sources = {src_num}
    BY LiveFacts, OneSourceAsked
  <1> PICK B \in Seq(Message) : B = s2c[me]
    BY <1>1
  <1> PICK C \in Seq(Message) : C = todo
    BY <1>1
  <1>2. HasEvent(C, it) \/ HasEvent(B, it) \/ Untold(it)
    BY DEF Live, Coherent, Flow, Stale
  <1> DEFINE Pending(Q) == \E n \in 1..Len(Q) : Q[n].kind = "event" /\ Q[n].src = src_num /\ it \in Q[n].evts
  <1>3. ASSUME NEW Q \in Seq(Message), HasEvent(Q, it) PROVE Pending(Q)
    <2> PICK n \in 1..Len(Q) : Q[n].kind = "event" /\ it \in Q[n].evts
      BY <1>3 DEF HasEvent
    <2>1. Q[n] \in Message
      OBVIOUS
    <2>2. Q[n].src = src_num
      BY <1>1, <2>1 DEF Message
    <2> QED BY <2>2
  <1>4. Pending(B) \/ Pending(C) => Pending(B \o C)
    <2>1. /\ Len(B) \in Nat /\ Len(C) \in Nat /\ Len(B \o C) = Len(B) + Len(C)
          /\ \A n \in 1..Len(B) : (B \o C)[n] = B[n] /\ n \in 1..Len(B \o C)
          /\ \A n \in 1..Len(C) : (B \o C)[Len(B) + n] = C[n] /\ Len(B) + n \in 1..Len(B \o C)
      BY ConcatElements
    <2>2. ASSUME Pending(B) PROVE Pending(B \o C)
      <3> PICK n \in 1..Len(B) : B[n].kind = "event" /\ B[n].src = src_num /\ it \in B[n].evts
        BY <2>2
      <3> WITNESS n \in 1..Len(B \o C)
      <3> QED BY <2>1
    <2>3. ASSUME Pending(C) PROVE Pending(B \o C)
      <3> PICK n \in 1..Len(C) : C[n].kind = "event" /\ C[n].src = src_num /\ it \in C[n].evts
        BY <2>3
      <3> WITNESS Len(B) + n \in 1..Len(B \o C)
      <3> QED BY <2>1
    <2> QED BY <2>2, <2>3
  <1>5. Pending(B \o C) => EventPending(it)
    BY DEF EventPending
  <1>6. Untold(it) => EventPending(it)
    BY DEF Untold, EventPending
  <1> HIDE DEF Pending
  <1> QED BY <1>2, <1>3, <1>4, <1>5, <1>6

THEOREM CacheInvariance ==
    ASSUME NumSources = 1, Conns = {me}
    PROVE  QSpec => [](QueryInv /\ CacheInv)
  <1>1. QInit => QueryInv /\ CacheInv
    BY QueryInitInv, CacheInitInv
  <1>2. QueryInv /\ CacheInv /\ [QNext]_queryvars => (QueryInv /\ CacheInv)'
    BY QueryNextInv, CacheNextInv
  <1> QED BY <1>1, <1>2, PTL DEF QSpec

\* process_event_msg(): with one source, and one client of the daemon, rdsquery never
\* has a value in its cache that the daemon has changed without an event on its way
\* to it, but for what has been read as events of other items.
THEOREM CacheIsCoherent ==
    ASSUME NumSources = 1, Conns = {me}
    PROVE  QSpec => []CacheCoherent
  <1>1. CacheInv => CacheCoherent
    <2>1. Gone => conn[me] # "open"
      BY DEF Gone
    <2> QED BY <2>1, CoherentCache DEF CacheInv, CacheCoherent
  <1> QED BY <1>1, CacheInvariance, PTL

=============================================================================
