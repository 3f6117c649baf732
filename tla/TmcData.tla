------------------------------ MODULE TmcData ------------------------------
(***************************************************************************)
(* tmcimport: the events of the traffic messages (tmcimport/tmcdata.cpp).  *)
(* A location lies in a cell of a grid, or is not known; a cell has the    *)
(* numbers of its events by start time; the hour index has, for each cell  *)
(* and hour of the day, the runs of positions in the cell, as <<position,  *)
(* further events>>.  The data are a record of the object's members.       *)
(***************************************************************************)
EXTENDS Integers, Sequences, SequencesExt

CONSTANTS
    Cells,          \* of the grid
    grid_ids,       \* the cell of each location, NoCell if it is not known
    NoCell,
    HoursOfDay,     \* 24
    StepsPerHour    \* the unit of time

NoEvent == -1
Open    == -1   \* event_end of an event that has not ended
NoDate  == -1   \* before the first time

Hours == 0..(HoursOfDay - 1)
getHour(time) == (time \div StepsPerHour) % HoursOfDay

\* init(); additional_event_info is as long as its last use made it.
NewData ==
    [events |-> <<>>, info |-> <<>>, grid |-> [c \in Cells |-> <<>>],
     hour_index |-> [c \in Cells |-> [h \in Hours |-> <<>>]],
     min_date |-> NoDate, max_date |-> NoDate]

\* updateMinMaxDate(): a time that becomes the first one is not taken for the
\* last one.
UpdateMinMaxDate(d, time) ==
    IF d.min_date = NoDate \/ time < d.min_date THEN [d EXCEPT !.min_date = time]
    ELSE IF time > d.max_date                   THEN [d EXCEPT !.max_date = time]
    ELSE d

\* The binary search of events_lower_bound() and events_upper_bound(): how many
\* events come before a place, where before tells it of each event of a cell.
Bound(before) ==
    LET search[count \in 0..Len(before)] ==
            [first \in 0..(Len(before) - count) |->
                LET step == count \div 2
                    it   == first + step
                IN  IF count = 0 THEN first
                    ELSE IF before[it + 1] THEN search[count - (step + 1)][it + 1]
                    ELSE search[step][first]]
    IN  search[Len(before)][0]

events_lower_bound(d, cell, val) ==
    Bound([n \in 1..Len(cell) |-> d.events[cell[n]].start < val])
events_upper_bound(d, cell, val) ==
    Bound([n \in 1..Len(cell) |-> ~(val < d.events[cell[n]].start)])

\* isEventExistent(): type is the event code with extension and direction.
isEventExistent(d, cell, first, last, loc, type) ==
    \E n \in (first + 1)..last :
        d.events[cell[n]].lcd = loc /\ d.events[cell[n]].type = type

\* cell.insert(): the fault appends.
InsertedFault(cell, at, number) == Append(cell, number)
Inserted(cell, at, number) == InsertAt(cell, at + 1, number)

\* startSingleEvent(): the data, and the number of the event or NoEvent.
startSingleEvent(d, add_duplicate_events, time, loc, type) ==
    LET id     == grid_ids[loc]
        cell   == d.grid[id]
        first  == events_lower_bound(d, cell, time)
        last   == events_upper_bound(d, cell, time)
        number == Len(d.events) + 1
    IN  IF id = NoCell
           \/ (isEventExistent(d, cell, first, last, loc, type) /\ ~add_duplicate_events)
        THEN [data |-> d, id |-> NoEvent]
        ELSE [data |-> UpdateMinMaxDate(
                [d EXCEPT !.events = Append(@, [start |-> time, end |-> Open,
                                                lcd |-> loc, type |-> type]),
                          !.grid[id] = Inserted(@, last, number)], time),
              id |-> number]

\* startGroupEvent(): additional_event_info ends with the new event.
startGroupEvent(d, add_duplicate_events, time, loc, type) ==
    LET started == startSingleEvent(d, add_duplicate_events, time, loc, type)
    IN  IF started.id = NoEvent THEN started
        ELSE [started EXCEPT !.data.info =
                [n \in 1..started.id |-> IF n < started.id /\ n <= Len(@) THEN @[n] ELSE <<>>]]

\* endSingleEvent() and endGroupEvent()
endSingleEvent(d, id, time) ==
    IF id # NoEvent /\ d.events[id].end = Open
    THEN UpdateMinMaxDate([d EXCEPT !.events[id].end = time], time)
    ELSE d

\* addGroupEventInfo() of an event that additional_event_info has: .at()
\* throws for any other.
HasInfo(d, id) == id = NoEvent \/ id <= Len(d.info)
addGroupEventInfo(d, id, what) ==
    IF id = NoEvent THEN d ELSE [d EXCEPT !.info[id] = Append(@, what)]

-----------------------------------------------------------------------------
(* The hour index.  Positions are counted from 0. *)

\* Fault: a run does not end where the next event is of another hour.
ExtendsFault(runs, position) == runs # <<>>

Extends(runs, position) == runs # <<>> /\ Last(runs)[1] + Last(runs)[2] + 1 = position

AddToHour(runs, position) ==
    IF Extends(runs, position)
    THEN [runs EXCEPT ![Len(runs)] = <<@[1], @[2] + 1>>]
    ELSE Append(runs, <<position, 0>>)

\* The loop over the events of a cell: the runs of each hour after each of them.
Indexed(events, cell) ==
    LET indexed[n \in 0..Len(cell)] ==
            IF n = 0 THEN [h \in Hours |-> <<>>]
            ELSE [indexed[n - 1] EXCEPT ![getHour(events[cell[n]].start)] =
                     AddToHour(@, n - 1)]
    IN  indexed

\* The index of the events that the cells have now.
RunsOfHours(d) == [c \in Cells |-> Indexed(d.events, d.grid[c])[Len(d.grid[c])]]

generateHourIndex(d) == [d EXCEPT !.hour_index = RunsOfHours(d)]

-----------------------------------------------------------------------------
(* The same data in tmcwebserver (tmcwebserver/tmcdata.cpp) *)

\* Fault: an event that starts with the day after the last is shown.
EndBoundFault(d, cell, end_date) == events_upper_bound(d, cell, end_date)

EndBound(d, cell, end_date) == events_lower_bound(d, cell, end_date)

\* The hours from start_time to end_time, around midnight.
HoursBetween(start_time, end_time) ==
    [n \in 1..((end_time - start_time) % HoursOfDay) |-> (start_time + n - 1) % HoursOfDay]

\* getEventsOfIndex(): every event between the dates, or, for each hour, the
\* runs that the two searches with l.first <= r.first enclose.
getEventsOfIndex(d, start_date, end_date, start_time, end_time, c) ==
    LET cell  == d.grid[c]
        begin == events_upper_bound(d, cell, start_date)
        end   == EndBound(d, cell, end_date)
        Runs(h) == SelectSeq(d.hour_index[c][h], LAMBDA r : begin <= r[1] /\ r[1] <= end)
        Positions(r) == SubSeq(cell, r[1] + 1, r[1] + r[2])
    IN  IF start_time = end_time
        THEN SubSeq(cell, begin + 1, end)
        ELSE FlattenSeq([n \in DOMAIN HoursBetween(start_time, end_time) |->
                FlattenSeq([k \in DOMAIN Runs(HoursBetween(start_time, end_time)[n]) |->
                    Positions(Runs(HoursBetween(start_time, end_time)[n])[k])])])

=============================================================================
