------------------------------ MODULE RdsQuery ------------------------------
(***************************************************************************)
(* rdsquery: the command line client, as an application of librds next to  *)
(* the daemon.  It sets an event mask, and shows the items of every event  *)
(* that rds_get_event() returns until it has seen enough of them           *)
(* (rdsquery.cpp, rdsqueryhandler.cpp).                                    *)
(***************************************************************************)
EXTENDS RdsSystem

CONSTANTS
    src_num,        \* GetSourceNum()
    Scenarios,      \* the ways rdsquery is run
    Watched         \* the items whose events EventsAreShown follows

\* The options of the command line (RecordCount 0: no end), and what may happen
\* in the meantime: late answers, SIGINT, the end of the daemon.
Scenario ==
    [EventMask : (SUBSET Items) \ {{}}, RecordCount : Nat, DirectWanted : BOOLEAN,
     late : BOOLEAN, signal : BOOLEAN, crash : BOOLEAN]

ASSUME QueryAssumption ==
    src_num \in Sources /\ Scenarios \subseteq Scenario /\ Watched \subseteq Items

VARIABLES
    opts,           \* the scenario, chosen at the start
    qpc,            \* where main() is
    toshow,         \* the Show functions it still has to call in this turn
    qevents,        \* the events of this turn
    event_counts,   \* RdsQueryHandler::event_counts
    shown,          \* the last version shown of each item
    times           \* history: how often each item was shown

qvars    == <<opts, qpc, toshow, qevents, event_counts, shown, times>>
queryvars == <<sysvars, qvars>>

Never == -1

EventMask    == opts.EventMask
RecordCount  == opts.RecordCount
DirectWanted == opts.DirectWanted

QInit ==
    /\ SysInit
    /\ opts \in Scenarios
    /\ delayed = opts.late
    /\ qpc = "open"
    /\ toshow = {}
    /\ qevents = {}
    /\ event_counts = [it \in Items |-> 0]
    /\ shown = [it \in Items |-> Never]
    /\ times = [it \in Items |-> 0]

QOpen ==
    /\ qpc = "open"
    /\ Open \/ (pc = "down" /\ OpenRefused /\ UNCHANGED vars)
    /\ qpc' = IF result'.ret = "RDS_OK" THEN "mask" ELSE "exit"
    /\ UNCHANGED <<opts, toshow, qevents, event_counts, shown, times>>

QSetEventMask ==
    /\ qpc = "mask"
    /\ CallSetEventMask(src_num, EventMask)
    /\ qpc' = "mask_set"
    /\ UNCHANGED <<opts, srvvars, toshow, qevents, event_counts, shown, times>>

\* RdsQueryHandler::InitRecordCounters()
InitRecordCounters(evts) ==
    [it \in Items |-> IF it \in evts THEN RecordCount ELSE 0]

QMaskSet ==
    /\ qpc = "mask_set" /\ cpc = "idle"
    /\ \/ /\ result.ret = "RDS_OK"
          /\ event_counts' = InitRecordCounters(EventMask)
          /\ toshow' = IF DirectWanted THEN EventMask ELSE {}
          /\ qpc' = IF DirectWanted THEN "show" ELSE "event"
       \/ /\ result.ret # "RDS_OK"
          /\ qpc' = "exit"
          /\ UNCHANGED <<event_counts, toshow>>
    /\ UNCHANGED <<opts, sysvars, qevents, shown, times>>

QGetEvent ==
    /\ qpc = "event"
    /\ CallGetEvent(src_num)
    /\ qpc' = "event_got"
    /\ UNCHANGED <<opts, srvvars, toshow, qevents, event_counts, shown, times>>

QEventGot ==
    /\ qpc = "event_got" /\ cpc = "idle"
    /\ \/ /\ result.ret = "RDS_OK"
          /\ qevents' = result.evts
          /\ toshow' = result.evts
          /\ qpc' = "show"
       \/ /\ result.ret # "RDS_OK"
          /\ qpc' = "exit"
          /\ UNCHANGED <<qevents, toshow>>
    /\ UNCHANGED <<opts, sysvars, event_counts, shown, times>>

Next1(its) == CHOOSE it \in its : \A other_it \in its : EventBit[it] <= EventBit[other_it]

\* ShowFlags() and the like, in the order of the event bits.
QShow ==
    /\ qpc = "show" /\ toshow # {}
    /\ CallGet(src_num, Next1(toshow))
    /\ qpc' = "shown"
    /\ UNCHANGED <<opts, srvvars, toshow, qevents, event_counts, shown, times>>

QShown ==
    /\ qpc = "shown" /\ cpc = "idle"
    /\ LET it == Next1(toshow)
       IN  /\ toshow' = toshow \ {it}
           /\ IF result.ret = "RDS_OK"
              THEN /\ shown' = [shown EXCEPT ![it] = result.data]
                   /\ times' = [times EXCEPT ![it] =
                                  IF @ < RecordCount THEN @ + 1 ELSE @]
              ELSE UNCHANGED <<shown, times>>
    /\ qpc' = "show"
    /\ UNCHANGED <<opts, sysvars, qevents, event_counts>>

\* Faults: every item is counted down; or below zero.
DecrementedFault(evts) ==
    [it \in Items |-> IF event_counts[it] > 0
                      THEN event_counts[it] - 1 ELSE event_counts[it]]
DecrementedBelowZero(evts) ==
    [it \in Items |-> IF it \in evts THEN event_counts[it] - 1 ELSE event_counts[it]]

\* RdsQueryHandler::DecRecordCounters()
Decremented(evts) ==
    [it \in Items |-> IF it \in evts /\ event_counts[it] > 0
                      THEN event_counts[it] - 1 ELSE event_counts[it]]

QTurnDone ==
    /\ qpc = "show" /\ toshow = {}
    /\ \/ /\ DirectWanted
          /\ qpc' = "exit"
          /\ UNCHANGED event_counts
       \/ /\ ~DirectWanted /\ RecordCount = 0
          /\ qpc' = "event"
          /\ UNCHANGED event_counts
       \/ /\ ~DirectWanted /\ RecordCount > 0
          /\ event_counts' = Decremented(qevents)
          /\ qpc' = IF \E it \in Items : event_counts'[it] > 0
                    THEN "event" ELSE "counted"
    /\ qevents' = {}
    /\ UNCHANGED <<opts, sysvars, toshow, shown, times>>

\* clean_exit()
QExit ==
    /\ qpc \in {"exit", "counted"}
    /\ Close
    /\ qpc' = "done"
    /\ UNCHANGED <<opts, toshow, qevents, event_counts, shown, times>>

\* sig_proc(): SIGINT ends the program wherever it is, and so does SIGPIPE, when it
\* writes to a daemon that is gone.
Interrupt ==
    /\ opts.signal \/ conn[me] = "reset"
    /\ qpc \notin {"open", "done"}
    /\ Disconnect(me)
    /\ qpc' = "done"
    /\ UNCHANGED <<opts, cnnvars, toshow, qevents, event_counts, shown, times>>

Main ==
    \/ QOpen \/ QSetEventMask \/ QMaskSet \/ QGetEvent \/ QEventGot
    \/ QShow \/ QShown \/ QTurnDone \/ QExit

QLibrary == qpc # "done" /\ Library /\ UNCHANGED qvars

QNext ==
    \/ Main
    \/ Interrupt
    \/ QLibrary
    \/ (Daemon \/ Others) /\ UNCHANGED qvars
    \/ opts.crash /\ Crash /\ UNCHANGED <<cnnvars, qvars>>

QSpec == QInit /\ [][QNext]_queryvars

QFairSpec ==
    /\ QSpec
    /\ WF_queryvars(Main)
    /\ WF_queryvars(Daemon /\ UNCHANGED qvars)
    /\ WF_queryvars(QLibrary)
    /\ SF_queryvars(QLibrary /\ Read /\ todo' # <<>>)

-----------------------------------------------------------------------------
(* Properties *)

\* The types of the variables of rdsquery and librds.
QTypeOK ==
    /\ ConnectionTypeOK
    /\ opts \in Scenarios
    /\ qpc \in {"open", "mask", "mask_set", "event", "event_got", "show", "shown",
                "exit", "counted", "done"}
    /\ toshow \subseteq Items
    /\ qevents \subseteq Items
    /\ event_counts \in [Items -> 0..RecordCount]
    /\ shown \in [Items -> Nat \cup {Never}]
    /\ times \in [Items -> 0..RecordCount]

\* An event for an item that has been raised and has not reached the library.
EventPending(it) ==
    \/ \E n \in 1..Len(s2c[me] \o todo) :
          LET m == (s2c[me] \o todo)[n]
          IN  m.kind = "event" /\ m.src = src_num /\ it \in m.evts
    \/ pc # "select" /\ me \notin served /\ it \in events[src_num]

\* The cache is coherent for the items rdsquery has subscribed to: a value that
\* counts as valid although the daemon has a newer one has been called off by an
\* event that is on its way, unless the library has read that event for another.
CacheCoherent ==
    \A it \in event_masks[me][src_num] \ lost[src_num] :
        /\ conn[me] = "open"
        /\ status[<<src_num, it>>] = "VALID"
        /\ data[<<src_num, it>>] # val[src_num][it]
        => EventPending(it)

\* "-c <count>: Number of data records that rdsquery should wait for" (rdsquery
\* options): when the counters end the program, every item asked for has been
\* shown that often, unless a call has failed, by the timeout or for want of a
\* daemon: that is counted too.
EnoughRecords ==
    ~delayed /\ pc # "down" /\ qpc = "counted" => \A it \in EventMask : times[it] >= RecordCount

Ended == qpc \in {"exit", "counted", "done"}

\* Once the data no longer change, the cache catches up with them: every event
\* fetches its item again, or finds a request under way that is answered later; but
\* an event that was read for another fetches nothing.
CacheBecomesCurrent ==
    <>[](\A it \in EventMask :
            \/ Ended
            \/ it \in lost[src_num]
            \/ status[<<src_num, it>>] = "REQUEST_NEEDED"
            \/ /\ status[<<src_num, it>>] = "VALID"
               /\ data[<<src_num, it>>] = val[src_num][it])

\* The library has recorded the event, in a call for something else, and GetEvent()
\* waits for another message to return it with.
Overlooked(it) ==
    /\ cpc = "wait" /\ call.fn = "event"
    /\ src_num < Len(rcvd_events) /\ it \in rcvd_events[src_num + 1]

\* Every event that the daemon sends puts an end to what the screen is behind the
\* data, sooner or later, unless rdsquery ends, or the library overlooks the event or
\* reads it for another.
EventsAreShown ==
    \A it \in Watched :
        /\ ~delayed
        /\ \E n \in 1..Len(s2c[me]) : s2c[me][n].kind = "event" /\ it \in s2c[me][n].evts
        ~> \/ shown[it] = val[src_num][it]
           \/ Ended
           \/ Overlooked(it)
           \/ it \in lost[src_num]

\* rdsquery ends when the daemon is gone, wherever that finds it: with values in
\* the cache, and answers outstanding that will never come.
EndsWithDaemon == pc = "down" ~> qpc = "done"

=============================================================================
