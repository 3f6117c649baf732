------------------------------ MODULE TmcImport -----------------------------
(***************************************************************************)
(* tmcimport: reads a log, finds out from the lists which events began and *)
(* ended (TmcFilter), keeps them with those of earlier imports (TmcData),  *)
(* and saves them for tmcwebserver.  The logs are those of TmcLog.         *)
(*                                                                         *)
(* A line is a record of its kind - "S" a single message, "GF" the first   *)
(* group of a longer one, "GS" a further group, "Y" anything else - with   *)
(* the event, the location and the continuity index, where the kind has    *)
(* them.                                                                   *)
(***************************************************************************)
EXTENDS TmcLog, TmcGrid

CONSTANTS
    HoursOfDay, StepsPerHour,
    cancel_set,             \* events that are the end of an event
    add_duplicate_events, dropGFData,   \* options
    NoFile,
    Views,                  \* of the map
    MaxImports              \* bound

CIs == 1..6

TD == INSTANCE TmcData
NoEvent == TD!NoEvent

\* Lines of a group have an index of CIs, and rdsd lists no others (tmclist.cpp:57).
ASSUME LinesAssumption == \A line \in Lines : line.kind \in {"GF", "GS"} => line.ci \in CIs
ASSUME OptionsAssumption == {add_duplicate_events, dropGFData} \subseteq BOOLEAN
ASSUME HourAssumption == {HoursOfDay, StepsPerHour} \subseteq Nat \ {0}
ASSUME ViewsAssumption == Views \subseteq View
ASSUME MarginAssumption ==
    /\ Margin * grid_size_x >= Range1(lcd_x)
    /\ Margin * grid_size_y >= Range1(lcd_y)
ASSUME ImportsAssumption == MaxImports \in Nat /\ NoFile \notin Files

VARIABLES
    source,         \* the log that is read, if any
    rest,           \* the records of it that are not read yet
    header,         \* the time in chunk
    filter,         \* TmcFilter and the TmcData it fills
    data_file,      \* what the last import saved
    imports         \* bound, and history: number of imports so far

impvars == <<source, rest, header, filter, data_file, imports>>
vars    == <<logvars, impvars>>

\* TmcFilter(); the event numbers of ci_index are 0 at first, which is the
\* first event of the data.
NewFilter(data) ==
    [old_strings |-> <<>>, indexes |-> <<>>, ci_index |-> [ci \in CIs |-> 1],
     data |-> data, throws |-> FALSE]

Init ==
    /\ LogInit
    /\ source = NoFile
    /\ rest = <<>>
    /\ header = 0
    /\ data_file = TD!NewData
    /\ filter = NewFilter(TD!NewData)
    /\ imports = 0

-----------------------------------------------------------------------------
(* TmcFilter *)

IsEvent(line) == line.kind \in {"S", "GF"} /\ line.evt \notin cancel_set

\* processLine() of a line that has gone, with the event it began.
EndLine(fl, line, id, time) ==
    IF IsEvent(line) THEN [fl EXCEPT !.data = TD!endSingleEvent(@, id, time)] ELSE fl

\* Every line, of whatever kind, has its place in indexes: the fault has none
\* for a line that ends an event.
IndexFault(fl, line, id) == IF IsEvent(line) THEN Append(fl.indexes, id) ELSE fl.indexes
Index(fl, line, id) == Append(fl.indexes, id)

\* grid.at() throws when a location that has a place has no cell.
NotInGrid(loc) == grid_ids[loc] \notin Cells \cup {NoCell}

\* processLine() of a new line.  One that ends an event is to refer to the
\* event, but has no number, and nothing is ended.
NewLine(fl, line, time) ==
    LET started == IF line.kind = "S"
                   THEN TD!startSingleEvent(fl.data, add_duplicate_events, time, line.loc, line.evt)
                   ELSE TD!startGroupEvent(fl.data, add_duplicate_events, time, line.loc, line.evt)
        known   == [fl EXCEPT !.old_strings = Append(@, line)]
        group   == fl.ci_index[line.ci]
    IN  CASE IsEvent(line) /\ NotInGrid(line.loc) -> [fl EXCEPT !.throws = TRUE]
          [] IsEvent(line) /\ ~NotInGrid(line.loc) ->
                [known EXCEPT !.data = started.data, !.indexes = Index(fl, line, started.id),
                              !.ci_index = IF line.kind = "GF"
                                           THEN [@ EXCEPT ![line.ci] = started.id] ELSE @]
          [] line.kind = "GS" /\ ~dropGFData ->
                IF TD!HasInfo(fl.data, group)
                THEN [known EXCEPT !.data = TD!addGroupEventInfo(@, group, line.what),
                                   !.indexes = Index(fl, line, NoEvent)]
                ELSE [fl EXCEPT !.throws = TRUE]
          [] OTHER -> [known EXCEPT !.indexes = Index(fl, line, NoEvent)]

\* Fault: the comparison does not go on in the new list.
GoneFault(line, lines, next) == ~(lines # <<>> /\ line = lines[1])

\* An old line has gone if it is not the next one of the new list.
Gone(line, lines, next) == ~(next < Len(lines) /\ line = lines[next + 1])

\* Fault: the line and its index are erased, and its event does not end.
CompareFault(fl, line, id, time, lines) ==
    IF Gone(line, lines, Len(fl.old_strings)) THEN fl
    ELSE [fl EXCEPT !.old_strings = Append(@, line), !.indexes = Append(@, id)]

\* An old line stays, or is erased with its place in indexes.  As many lines of
\* the new list are behind tok_iter as have stayed.
CompareLine(fl, line, id, time, lines) ==
    IF Gone(line, lines, Len(fl.old_strings)) THEN EndLine(fl, line, id, time)
    ELSE [fl EXCEPT !.old_strings = Append(@, line), !.indexes = Append(@, id)]

\* The loop over the old lines: the filter after each of them.
Compared(fl, time, lines) ==
    LET old == fl.old_strings
        compared[n \in 0..Len(old)] ==
            IF n = 0 THEN [fl EXCEPT !.old_strings = <<>>, !.indexes = <<>>]
            ELSE CompareLine(compared[n - 1], old[n], fl.indexes[n], time, lines)
    IN  compared

\* An old line is compared with the end of a list that has lines: an iterator
\* that must not be dereferenced.  Boost asserts that, or the last line is
\* still there and differs.
ReadsBeyond(fl, time, lines) ==
    LET compared == Compared(fl, time, lines)
    IN  /\ lines # <<>>
        /\ \E n \in DOMAIN fl.old_strings : Len(compared[n - 1].old_strings) = Len(lines)

\* The loop over the lines from tok_iter on: the filter after each of them.
Added(fl, time, lines) ==
    LET added[n \in Len(fl.old_strings)..Len(lines)] ==
            IF n = Len(fl.old_strings) THEN fl
            ELSE LET before == added[n - 1]
                 IN  IF before.throws THEN before ELSE NewLine(before, lines[n], time)
    IN  added

addChunk(fl, time, lines) ==
    Added(Compared(fl, time, lines)[Len(fl.old_strings)], time, lines)[Len(lines)]

-----------------------------------------------------------------------------
(* main() *)

OpenLog(f) ==
    /\ source = NoFile /\ imports < MaxImports /\ f \notin logging
    /\ source' = f
    /\ rest' = log[f]
    /\ header' = 0
    /\ filter' = NewFilter(data_file)
    /\ imports' = imports + 1
    /\ UNCHANGED <<logvars, data_file>>

Quit == source' = NoFile /\ rest' = <<>> /\ header' = 0

\* An exception or an assertion ends the program; nothing is saved.
Abort ==
    /\ Quit
    /\ filter' = NewFilter(data_file)
    /\ UNCHANGED <<logvars, data_file, imports>>

\* The loop: a chunk with lines.
ReadChunk ==
    /\ source # NoFile
    /\ LET chunk == getChunk(rest)
           added == addChunk(filter, rest[1].time, rest[1].lines)
       IN  /\ chunk.status
           /\ \/ /\ ~added.throws
                 /\ filter' = added
                 /\ rest' = chunk.rest
                 /\ header' = rest[1].time
                 /\ UNCHANGED <<logvars, source, data_file, imports>>
              \/ /\ added.throws \/ ReadsBeyond(filter, rest[1].time, rest[1].lines)
                 /\ Abort

\* The end of the loop: the last header once more, without lines, ends what is
\* left; then the index is made and everything saved.
EndImport ==
    /\ source # NoFile
    /\ ~getChunk(rest).status
    /\ LET time  == IF rest = <<>> THEN header ELSE rest[1].time
           ended == addChunk(filter, time, <<>>)
       IN  data_file' = TD!generateHourIndex(ended.data)
    /\ filter' = NewFilter(data_file')
    /\ Quit
    /\ UNCHANGED <<logvars, imports>>

\* A log that has no record has no header either.
EmptyLogAborts == source # NoFile /\ log[source] = <<>> /\ Abort

ImportNext == (\E f \in Files : OpenLog(f)) \/ ReadChunk \/ EndImport \/ EmptyLogAborts

\* One program at a time works on a log.
Next == (source = NoFile /\ LogNext /\ UNCHANGED impvars) \/ ImportNext

Spec == Init /\ [][Next]_vars

-----------------------------------------------------------------------------
(* Properties *)

Numbers(d) == DOMAIN d.events

\* The types of the importer's data; indexes goes with old_strings.
ImportTypeOK ==
    /\ source \in Files \cup {NoFile}
    /\ Len(filter.indexes) = Len(filter.old_strings)
    /\ \A n \in DOMAIN filter.indexes : filter.indexes[n] \in Numbers(filter.data) \cup {NoEvent}
    /\ \A ci \in CIs : filter.ci_index[ci] \in {1, NoEvent} \cup Numbers(filter.data)
    /\ Len(filter.data.info) <= Len(filter.data.events)

\* The binary searches need cells that are sorted by the start of the events,
\* also when a log is imported after a later one.  A located event is in its
\* cell, once, and in no other (TmcData::startSingleEvent()), and no two events
\* agree in time, place and type, though a log is imported again, or two logs are
\* of the same time: "warning event already imported. skipping" (tmcdata.cpp:91),
\* unless tmcimport has the option --add-duplicate-events.
CellsSorted ==
    LET d == filter.data
        Event(c, n) == d.events[d.grid[c][n]]
        Key(e) == <<e.start, e.lcd, e.type>>
    IN  \A c \in Cells :
          /\ \A m, n \in DOMAIN d.grid[c] :
                m < n => /\ Event(c, m).start <= Event(c, n).start
                         /\ d.grid[c][m] # d.grid[c][n]
                         /\ Key(Event(c, m)) = Key(Event(c, n)) => add_duplicate_events
          /\ ToSet(d.grid[c]) = {n \in Numbers(d) : grid_ids[d.events[n].lcd] = c}

\* tmcimport.cpp:124, "if there are events unfinished, this will end them": an
\* event is open as long as the filter has its line, and what is saved has no
\* open event, wherever the log stops.  An event does not end before it starts.
EndedWhenGone ==
    LET d == filter.data
    IN  /\ \A n \in Numbers(d) :
              /\ d.events[n].end = TD!Open <=> n \in ToSet(filter.indexes)
              /\ d.events[n].end # TD!Open => d.events[n].end >= d.events[n].start
        /\ \A n \in Numbers(data_file) : data_file.events[n].end # TD!Open

\* The sessions of a log begin with a list that has lines.
SessionsBeginWithLines(f) ==
    \A n \in DOMAIN shown[f] : shown[f][n].first => shown[f][n].lines # <<>>

Read == Len(log[source]) - Len(rest)

\* While a log is read the filter has the list that tmclog saw at that point,
\* although repetitions are neither written nor read; and a log is read to its
\* end, or to the record that a signal has left without lines.  The exception: a
\* session that begins with an empty list writes that it repeats the list before.
FilterFollowsLists ==
    source # NoFile /\ SessionsBeginWithLines(source) =>
        /\ Read > 0 => filter.old_strings = shown[source][Read].lines
        /\ ~getChunk(rest).status => rest = <<>> \/ shown[source][Read + 1].cut

\* Lines of the list s have expired, and new ones were added behind it.
Follows(s, t) == IsPrefix(SelectSeq(s, LAMBDA x : x \in ToSet(t)), t)

\* The events that the lists of a log tell of: each from the list that has it
\* first to the list, or the end of the log, that has it no more.
EventsOf(lists) ==
    LET Has(n, line) == n \in DOMAIN lists /\ line \in ToSet(lists[n].lines)
        GoneAt(n, line) ==
            {k \in (n + 1)..Len(lists) : ~Has(k, line) /\ \A j \in n..(k - 1) : Has(j, line)}
        LastHeader == Max({n \in DOMAIN lists : log[source][n].kind # "dup"})
    IN  {[start |-> lists[p[1]].time, lcd |-> p[2].loc, type |-> p[2].evt,
          end |-> lists[IF GoneAt(p[1], p[2]) = {} THEN LastHeader ELSE Max(GoneAt(p[1], p[2]))].time] :
            p \in {q \in (DOMAIN lists) \X {line \in Lines : IsEvent(line)} :
                      /\ Has(q[1], q[2]) /\ ~Has(q[1] - 1, q[2])
                      /\ grid_ids[q[2].loc] # NoCell}}

\* The lists that are imported: no more behind a record without lines.
ListsRead(lists) ==
    LET cuts == {n \in DOMAIN lists : lists[n].cut}
    IN  IF cuts = {} THEN lists ELSE SubSeq(lists, 1, Min(cuts))

\* From the receiver to the map: what the first import saves are the events
\* that the lists of the log tell of, up to the first that a signal has cut, with
\* their beginnings and ends, if no two records are of the same time and a list
\* follows from the one before as those of TMClist do.
ImportStep ==
    LET lists == ListsRead(shown[source])
    IN  /\ imports = 1 /\ source' = NoFile /\ EndImport
        /\ SessionsBeginWithLines(source)
        /\ \A n \in 2..Len(lists) : /\ lists[n - 1].time < lists[n].time
                                    /\ Follows(lists[n - 1].lines, lists[n].lines)
        => ToSet(data_file'.events) = EventsOf(lists)
ImportIsExact == [][ImportStep]_vars

\* tmcdata.h, "cell_id, hour, (vector, offset)": the runs of an hour are in order,
\* lie in the cell, do not touch, and have the positions of the events of that hour
\* and no others, also after an import that puts events between those of an earlier
\* one.
HourIndex ==
    \A c \in Cells, h \in TD!Hours :
        LET cell     == data_file.grid[c]
            runs     == data_file.hour_index[c][h]
            first(k) == runs[k][1] + 1
            last(k)  == runs[k][1] + runs[k][2] + 1
        IN  /\ \A k \in DOMAIN runs : last(k) <= Len(cell)
            /\ \A j, k \in DOMAIN runs : j < k => last(j) + 1 < first(k)
            /\ \A n \in DOMAIN cell :
                  TD!getHour(data_file.events[cell[n]].start) = h
                    <=> \E k \in DOMAIN runs : first(k) <= n /\ n <= last(k)
HourIndexExact == [][data_file' # data_file => HourIndex']_vars

\* The cells in which there is something to find.
Filled == {c \in Cells : data_file.grid[c] # <<>>}

\* tmcwebserver: without hours a query finds the events of a cell that start between
\* its dates, and they are in a row.
DateQuery ==
    \A c \in Filled, from, to \in Times \cup {Max(Times) + 1} :
        from < to =>
          LET cell  == data_file.grid[c]
              found == TD!getEventsOfIndex(data_file, from, to, 0, 0, c)
          IN  \E a, b \in 0..Len(cell) :
                 /\ found = SubSeq(cell, a + 1, b)
                 /\ \A k \in DOMAIN cell :
                       LET start == data_file.events[cell[k]].start
                       IN  from < start /\ start < to <=> a < k /\ k <= b
DateQueryExact == [][data_file' # data_file => DateQuery']_vars

ViewCells == [view \in Views |-> getGridIndexes(Widened(view))]

\* The places that a view is to show.
Due == [view \in Views |->
           {loc \in Locations : /\ PlacesOf(loc) # {} /\ grid_ids[loc] \in Cells
                               /\ Inside(Place(loc)) /\ InView(Place(loc), view)}]

\* TmcData::query() between two dates, for the cells of a view.
query(view, found) == UNION {found[c] : c \in ViewCells[view] \cap DOMAIN found}

\* After every import, a view of the map shows all events that are in it and at
\* least a cell away from the edge of the grid in the south and west: the margin,
\* a cell or more, makes up for the row and the column that getGridIndexes()
\* leaves out.
ViewShown ==
    LET found == [c \in Filled |->
                    ToSet(TD!getEventsOfIndex(data_file, -1, Max(Times) + 1, 0, 0, c))]
    IN  \A view \in Views :
            {n \in Numbers(data_file) : data_file.events[n].lcd \in Due[view]}
              \subseteq query(view, found)
ViewShowsItsEvents == [][data_file' # data_file => ViewShown']_vars

\* The events of a cell that start between two times and in some hours.
Matching(c, from, to, hours) ==
    SelectSeq(data_file.grid[c],
        LAMBDA n : LET t == data_file.events[n].start
                   IN  from < t /\ t < to /\ TD!getHour(t) \in hours)

\* tmcwebserver/tmcdata.cpp:136, "append all events based on the hour index":
\* a query for hours finds the events that start in them.
HourQueryExact == source = NoFile =>
    \A c \in Filled, h1, h2 \in TD!Hours :
        h1 # h2 =>
          ToSet(TD!getEventsOfIndex(data_file, -1, Max(Times) + 1, h1, h2, c))
            = ToSet(Matching(c, -1, Max(Times) + 1, ToSet(TD!HoursBetween(h1, h2))))

=============================================================================
