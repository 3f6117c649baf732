--------------------------- MODULE TmcImportProofs --------------------------
(***************************************************************************)
(* Proofs about the way of the traffic messages from the list that rdsd    *)
(* shows, by way of tmclog and its logs, to the events that tmcimport saves*)
(* and tmcwebserver finds (TmcLog, TmcImport, TmcData, TmcGrid): the logs  *)
(* tell of the lists, the filter follows them, the cells stay sorted, every*)
(* event ends, and dates, hours and views find what they should.           *)
(*                                                                         *)
(* The binary search, the loops over the lines and the hour index are      *)
(* recursive functions; what they compute is proved by induction.          *)
(***************************************************************************)
EXTENDS TmcImport, ProofFacts

\* The times of the records.
LEMMA TimesNatural == Times \subseteq Nat /\ \A t \in Times : t \in Nat
  BY LogBoundsAssumption

\* The front of a sequence, an element, and the rest.
IsInserted(t, s, k, e) ==
    /\ Len(t) = Len(s) + 1
    /\ t[k + 1] = e
    /\ \A n \in 1..k : t[n] = s[n]
    /\ \A n \in (k + 2)..(Len(s) + 1) : t[n] = s[n - 1]

\* What InsertAt() makes of a sequence.
LEMMA InsertedElements ==
    ASSUME NEW S, NEW s \in Seq(S), NEW e \in S, NEW k \in 0..Len(s)
    PROVE  /\ InsertAt(s, k + 1, e) \in Seq(S)
           /\ IsInserted(InsertAt(s, k + 1, e), s, k, e)
  <1> DEFINE a == SubSeq(s, 1, k)
             b == SubSeq(s, k + 1, Len(s))
             t == InsertAt(s, k + 1, e)
  <1>1. /\ a \in Seq(S) /\ Len(a) = k
        /\ \A n \in 1..k : a[n] = s[n]
    <2>1. CASE k = 0
      BY <2>1
    <2>2. CASE k # 0
      BY <2>2
    <2> QED BY <2>1, <2>2
  <1>2. /\ b \in Seq(S) /\ Len(b) = Len(s) - k
        /\ \A n \in 1..(Len(s) - k) : b[n] = s[k + n]
    <2>1. CASE k = Len(s)
      BY <2>1
    <2>2. CASE k # Len(s)
      BY <2>2
    <2> QED BY <2>1, <2>2
  <1>3. t = a \o <<e>> \o b
    <2>1. (k + 1) - 1 = k
      OBVIOUS
    <2> QED BY <2>1 DEF InsertAt
  <1> HIDE DEF a, b, t
  <1>4. /\ (a \o <<e>>) \in Seq(S) /\ Len(a \o <<e>>) = k + 1
        /\ \A n \in 1..k : (a \o <<e>>)[n] = a[n]
        /\ (a \o <<e>>)[k + 1] = e
    BY <1>1
  <1>5. PICK c \in Seq(S) : c = a \o <<e>>
    BY <1>4
  <1>6. t = c \o b /\ Len(c) = k + 1
    BY <1>3, <1>4, <1>5
  <1>7. t \in Seq(S) /\ Len(t) = (k + 1) + (Len(s) - k)
    <2>1. c \o b \in Seq(S) /\ Len(c \o b) = Len(c) + Len(b)
      <3>1. b \in Seq(S) /\ c \in Seq(S)
        BY <1>2, <1>5
      <3> QED BY <3>1, ConcatProperties, Zenon
    <2> QED BY <1>2, <1>6, <2>1
  <1>8. \A n \in 1..(k + 1) : t[n] = c[n]
    BY <1>2, <1>6
  <1>9. ASSUME NEW n \in (k + 2)..(Len(s) + 1) PROVE t[n] = s[n - 1]
    <2>1. t[n] = b[n - (k + 1)]
      BY <1>2, <1>6
    <2>2. n - (k + 1) \in 1..(Len(s) - k) /\ k + (n - (k + 1)) = n - 1
      OBVIOUS
    <2> QED BY <1>2, <2>1, <2>2
  <1>10. t[k + 1] = e /\ \A n \in 1..k : t[n] = s[n]
    BY <1>1, <1>4, <1>5, <1>8
  <1>11. Len(t) = Len(s) + 1
    BY <1>7
  <1> QED BY <1>7, <1>9, <1>10, <1>11 DEF t, IsInserted

-----------------------------------------------------------------------------
(* The binary search *)

\* The answer of a search among count places from first on: where the places that
\* come before end, if that is among them.
Clip(b, first, count) == IF b < first THEN first
                         ELSE IF b > first + count THEN first + count
                         ELSE b

SearchFacts(L, b, count, first, step) ==
    /\ step \in 0..L /\ step < count
    /\ first + step + 1 \in 1..L
    /\ count - (step + 1) \in 0..L /\ count - (step + 1) < count
    /\ first + step + 1 \in 0..(L - (count - (step + 1)))
    /\ first \in 0..(L - step)
    /\ first + step + 1 <= b =>
          Clip(b, first, count) = Clip(b, first + step + 1, count - (step + 1))
    /\ ~(first + step + 1 <= b) => Clip(b, first, count) = Clip(b, first, step)

\* A step of the search keeps its answer.
LEMMA SearchStep ==
    ASSUME NEW L \in Nat, NEW b \in 0..L, NEW count \in 1..L, NEW first \in 0..(L - count),
           NEW step, step = count \div 2
    PROVE  SearchFacts(L, b, count, first, step)
  <1>1. step \in Int /\ 0 <= step /\ step <= count - 1
    BY SMT
  <1> QED BY <1>1, SMT DEF SearchFacts, Clip

\* events_lower_bound() and events_upper_bound(): how many come before, if
\* these are the first ones.
Precede(before, L, b) ==
    /\ L \in Nat /\ b \in 0..L
    /\ before = [n \in 1..L |-> before[n]] /\ Len(before) = L
    /\ \A n \in 1..L : before[n] <=> n <= b

\* The search finds where the events end that come before, by induction over the events
\* that are left.
LEMMA BoundCounts ==
    ASSUME NEW before, NEW L, NEW b, Precede(before, L, b)
    PROVE  TD!Bound(before) = b
  <1>0. /\ L \in Nat /\ b \in 0..L
        /\ before = [n \in 1..L |-> before[n]] /\ Len(before) = L
        /\ \A n \in 1..L : before[n] <=> n <= b
    BY DEF Precede
  <1> USE <1>0
  <1> DEFINE Step(s, f, c) == LET step == c \div 2
                                  it   == f + step
                              IN  IF c = 0 THEN f
                                  ELSE IF before[it + 1] THEN s[c - (step + 1)][it + 1]
                                  ELSE s[step][f]
             Search(s) == [count \in 0..L |-> [first \in 0..(L - count) |-> Step(s, first, count)]]
             search == CHOOSE s : s = Search(s)
             answer == [count \in 0..L |-> [first \in 0..(L - count) |-> Clip(b, first, count)]]
  <1>1. TD!Bound(before) = search[L][0]
    BY DEF TD!Bound
  <1>2. ASSUME NEW count \in 0..L, NEW first \in 0..(L - count)
        PROVE  Clip(b, first, count) = Step(answer, first, count)
    <2>1. CASE count = 0
      BY <2>1 DEF Clip
    <2>2. CASE count # 0
      <3>5. PICK step : step = count \div 2
        OBVIOUS
      <3>0. count \in 1..L
        BY <2>2
      <3>1. SearchFacts(L, b, count, first, step)
        BY <3>0, <3>5, SearchStep, Zenon
      <3>4. Step(answer, first, count) =
              IF before[first + step + 1] THEN answer[count - (step + 1)][first + step + 1]
              ELSE answer[step][first]
        BY <2>2, <3>5
      <3>2. CASE first + step + 1 <= b
        <4> HIDE DEF Step
        <4> QED BY <3>1, <3>2, <3>4 DEF SearchFacts
      <3>3. CASE ~(first + step + 1 <= b)
        <4> HIDE DEF Step
        <4> QED BY <3>1, <3>3, <3>4 DEF SearchFacts
      <3> QED BY <3>2, <3>3
    <2> QED BY <2>1, <2>2
  <1>3. answer = Search(answer)
    <2> HIDE DEF Step
    <2>1. answer = [count \in 0..L |-> [first \in 0..(L - count) |-> Step(answer, first, count)]]
      <3>1. PICK a : a = answer
        OBVIOUS
      <3>2. \A count \in 0..L : \A first \in 0..(L - count) : Clip(b, first, count) = Step(a, first, count)
        BY <1>2, <3>1
      <3> QED BY <3>1, <3>2
    <2> QED BY <2>1
  <1>4. search = Search(search)
    <2> HIDE DEF Search, answer
    <2> QED BY <1>3
  <1> DEFINE Right == {n \in Nat : \A count \in 0..L : count <= n =>
                           \A first \in 0..(L - count) : search[count][first] = Clip(b, first, count)}
  <1>5. ASSUME NEW count \in 0..L, NEW first \in 0..(L - count)
        PROVE  search[count][first] = Step(search, first, count)
    <2>1. PICK s : s = search
      OBVIOUS
    <2>2. s = Search(s)
      <3> HIDE DEF Search, search
      <3> QED BY <1>4, <2>1
    <2>3. s[count][first] = Step(s, first, count)
      <3> HIDE DEF Step
      <3>1. s = [c \in 0..L |-> [f \in 0..(L - c) |-> Step(s, f, c)]]
        BY <2>2
      <3>2. s[count] = [f \in 0..(L - count) |-> Step(s, f, count)]
        BY <3>1
      <3> QED BY <3>2
    <2> HIDE DEF Step, search
    <2> QED BY <2>1, <2>3
  <1>6. 0 \in Right
    <2>1. ASSUME NEW first \in 0..(L - 0) PROVE search[0][first] = Clip(b, first, 0)
      <3>1. search[0][first] = Step(search, first, 0)
        <4>1. 0 \in 0..L
          OBVIOUS
        <4> HIDE DEF search, Step
        <4> QED BY <1>5, <4>1
      <3>2. Step(search, first, 0) = first
        OBVIOUS
      <3>3. b >= 0 /\ first >= 0 /\ Clip(b, first, 0) = first
        BY DEF Clip
      <3> QED BY <3>1, <3>2, <3>3
    <2> HIDE DEF search
    <2> QED BY <2>1
  <1>7. ASSUME NEW n \in Nat, n \in Right PROVE n + 1 \in Right
    <2> HIDE DEF search
    <2>1. ASSUME NEW count \in 0..L, count <= n + 1, NEW first \in 0..(L - count)
          PROVE  search[count][first] = Clip(b, first, count)
      <3>1. CASE count <= n
        BY <1>7, <3>1
      <3>2. CASE count = 0
        BY <1>7, <3>2
      <3>3. CASE count = n + 1
        <4>6. PICK step : step = count \div 2
          OBVIOUS
        <4>0. count \in 1..L
          BY <1>7, <2>1, <3>3
        <4>1. SearchFacts(L, b, count, first, step)
          BY <2>1, <4>0, <4>6, SearchStep, Zenon
        <4>2. search[count][first] =
                IF before[first + step + 1] THEN search[count - (step + 1)][first + step + 1]
                ELSE search[step][first]
          <5>1. search[count][first] = Step(search, first, count)
            <6> HIDE DEF Step
            <6> QED BY <1>5, <2>1
          <5>2. Step(search, first, count) =
                  IF before[first + step + 1] THEN search[count - (step + 1)][first + step + 1]
                  ELSE search[step][first]
            BY <4>0, <4>6
          <5> QED BY <5>1, <5>2
        <4>3. step <= n /\ count - (step + 1) <= n
          <5>1. n \in Nat
            BY <1>7
          <5>2. step \in Int /\ step < count /\ count - (step + 1) < count
            BY <4>1 DEF SearchFacts
          <5> QED BY <3>3, <5>1, <5>2
        <4>4. CASE first + step + 1 <= b
          <5> QED BY <1>7, <2>1, <4>1, <4>2, <4>3, <4>4 DEF SearchFacts
        <4>5. CASE ~(first + step + 1 <= b)
          <5> QED BY <1>7, <2>1, <4>1, <4>2, <4>3, <4>5 DEF SearchFacts
        <4> QED BY <4>4, <4>5
      <3> QED BY <2>1, <3>1, <3>2, <3>3
    <2> QED BY <2>1
  <1>8. Nat \subseteq Right
    <2> HIDE DEF Right
    <2> QED BY <1>6, <1>7, SetInduction
  <1>9. search[L][0] = Clip(b, 0, L)
    <2>1. L \in Right
      <3> HIDE DEF Right
      <3> QED BY <1>8
    <2>2. L \in 0..L /\ 0 \in 0..(L - L)
      OBVIOUS
    <2> HIDE DEF search
    <2> QED BY <2>1, <2>2
  <1>10. Clip(b, 0, L) = b
    BY DEF Clip
  <1> QED BY <1>1, <1>9, <1>10

\* What an event is made of, and what is told further of it.
Event == [start : Times, end : Nat \cup {TD!Open}, lcd : {line.loc : line \in Lines},
          type : {line.evt : line \in Lines}]
What == {line.what : line \in Lines}

\* The data, whatever the index and the dates.
IsData(d) ==
    /\ d = [events |-> d.events, info |-> d.info, grid |-> d.grid,
            hour_index |-> d.hour_index, min_date |-> d.min_date, max_date |-> d.max_date]
    /\ d.events \in Seq(Event)
    /\ d.info \in Seq(Seq(What)) /\ Len(d.info) <= Len(d.events)
    /\ d.grid \in [Cells -> Seq(Nat)]

\* A cell has its events, each once, in the order of their start.
SameKey(e, f) == e.start = f.start /\ e.lcd = f.lcd /\ e.type = f.type

CellRight(events, cell, c) ==
    /\ \A k \in 1..Len(cell) : cell[k] \in 1..Len(events) /\ grid_ids[events[cell[k]].lcd] = c
    /\ \A n \in 1..Len(events) :
          grid_ids[events[n].lcd] = c => \E k \in 1..Len(cell) : cell[k] = n
    /\ \A j, k \in 1..Len(cell) :
          j < k => /\ events[cell[j]].start <= events[cell[k]].start
                   /\ cell[j] # cell[k]
                   /\ SameKey(events[cell[j]], events[cell[k]]) => add_duplicate_events

CellsRight(d) == \A c \in Cells : CellRight(d.events, d.grid[c], c)

\* The first and the last date are of no consequence.
LEMMA DatesKept ==
    ASSUME NEW d, NEW time, IsData(d)
    PROVE  LET e == TD!UpdateMinMaxDate(d, time)
           IN  /\ IsData(e)
               /\ e.events = d.events /\ e.info = d.info /\ e.grid = d.grid
  <1> PICK e : e = TD!UpdateMinMaxDate(d, time)
    OBVIOUS
  <1>1. \/ e = d
        \/ e = [d EXCEPT !.min_date = time]
        \/ e = [d EXCEPT !.max_date = time]
    BY DEF TD!UpdateMinMaxDate
  <1>2. /\ e = [events |-> e.events, info |-> e.info, grid |-> e.grid,
                hour_index |-> e.hour_index, min_date |-> e.min_date, max_date |-> e.max_date]
        /\ e.events = d.events /\ e.info = d.info /\ e.grid = d.grid
    BY <1>1 DEF IsData
  <1>3. IsData(e)
    BY <1>2 DEF IsData
  <1> QED BY <1>2, <1>3

\* Starting an event at a place of a cell that is behind all that start before.
HasPlace(events, cell, c, e, at) ==
    /\ events \in Seq(Event) /\ cell \in Seq(Nat) /\ CellRight(events, cell, c)
    /\ e \in Event /\ grid_ids[e.lcd] = c
    /\ at \in 0..Len(cell)
    /\ \A k \in 1..Len(cell) : events[cell[k]].start <= e.start <=> k <= at
    /\ ~add_duplicate_events => \A k \in 1..Len(cell) : ~SameKey(events[cell[k]], e)

\* The cell stays right with the number of the new event at that place.
LEMMA CellInserted ==
    ASSUME NEW events, NEW cell, NEW c, NEW e, NEW at, HasPlace(events, cell, c, e, at)
    PROVE  /\ TD!Inserted(cell, at, Len(events) + 1) \in Seq(Nat)
           /\ CellRight(Append(events, e), TD!Inserted(cell, at, Len(events) + 1), c)
  <1>0. /\ events \in Seq(Event) /\ cell \in Seq(Nat) /\ CellRight(events, cell, c)
        /\ e \in Event /\ grid_ids[e.lcd] = c
        /\ at \in 0..Len(cell)
        /\ \A k \in 1..Len(cell) : events[cell[k]].start <= e.start <=> k <= at
        /\ ~add_duplicate_events => \A k \in 1..Len(cell) : ~SameKey(events[cell[k]], e)
    BY DEF HasPlace
  <1> USE <1>0
  <1> DEFINE number == Len(events) + 1
  <1>1. number \in Nat
    OBVIOUS
  <1> PICK new : new = InsertAt(cell, at + 1, number)
    OBVIOUS
  <1>2. /\ new \in Seq(Nat) /\ Len(new) = Len(cell) + 1
        /\ new[at + 1] = number
        /\ \A n \in 1..at : new[n] = cell[n]
        /\ \A n \in (at + 2)..(Len(cell) + 1) : new[n] = cell[n - 1]
    <2> HIDE DEF number
    <2>1. new \in Seq(Nat) /\ IsInserted(new, cell, at, number)
      BY <1>1, InsertedElements, Zenon
    <2> QED BY <2>1 DEF IsInserted
  <1> PICK all : all = Append(events, e)
    OBVIOUS
  <1>3. /\ all \in Seq(Event) /\ Len(all) = number /\ all[number] = e
        /\ \A n \in 1..Len(events) : all[n] = events[n]
    BY AppendElements
  <1> HIDE DEF number
  <1>4. number = Len(events) + 1 /\ Len(events) \in Nat /\ Len(cell) \in Nat
    BY DEF number
  <1> DEFINE Old(k) == IF k <= at THEN k ELSE k - 1
  <1>5. ASSUME NEW k \in 1..Len(new), k # at + 1
        PROVE  /\ Old(k) \in 1..Len(cell) /\ new[k] = cell[Old(k)]
               /\ new[k] \in 1..Len(events) /\ all[new[k]] = events[cell[Old(k)]]
    <2>1. Old(k) \in 1..Len(cell) /\ new[k] = cell[Old(k)]
      <3>1. CASE k <= at
        <4>1. k \in 1..at /\ Old(k) = k
          BY <1>5, <3>1
        <4>2. k \in 1..Len(cell)
          BY <1>4, <4>1
        <4> HIDE DEF Old
        <4> QED BY <1>2, <4>1, <4>2
      <3>2. CASE ~(k <= at)
        <4>1. k \in (at + 2)..(Len(cell) + 1) /\ Old(k) = k - 1
          BY <1>2, <1>4, <1>5, <3>2
        <4>2. k - 1 \in 1..Len(cell)
          BY <1>4, <4>1
        <4> HIDE DEF Old
        <4> QED BY <1>2, <4>1, <4>2
      <3> QED BY <3>1, <3>2
    <2>2. cell[Old(k)] \in 1..Len(events)
      <3> HIDE DEF Old
      <3> QED BY <2>1 DEF CellRight
    <2> HIDE DEF Old
    <2> QED BY <1>3, <2>1, <2>2
  <1>6. ASSUME NEW k \in 1..Len(new)
        PROVE  new[k] \in 1..Len(all) /\ grid_ids[all[new[k]].lcd] = c
    <2>1. CASE k = at + 1
      BY <1>2, <1>3, <1>4, <2>1
    <2>2. CASE k # at + 1
      <3>1. grid_ids[events[cell[Old(k)]].lcd] = c
        <4> HIDE DEF Old
        <4> QED BY <1>5, <2>2 DEF CellRight
      <3> HIDE DEF Old
      <3> QED BY <1>3, <1>4, <1>5, <2>2, <3>1
    <2> QED BY <2>1, <2>2
  <1>7. ASSUME NEW n \in 1..Len(all), grid_ids[all[n].lcd] = c
        PROVE  \E k \in 1..Len(new) : new[k] = n
    <2>1. CASE n = number
      BY <1>2, <2>1
    <2>2. CASE n # number
      <3>1. n \in 1..Len(events) /\ all[n] = events[n]
        BY <1>3, <1>4, <1>7, <2>2
      <3>2. PICK j \in 1..Len(cell) : cell[j] = n
        BY <1>7, <3>1 DEF CellRight
      <3>3. CASE j <= at
        <4>1. j \in 1..at /\ j \in 1..Len(new)
          BY <1>2, <1>4, <3>3
        <4> QED BY <1>2, <3>2, <4>1
      <3>4. CASE ~(j <= at)
        <4>1. j + 1 \in (at + 2)..(Len(cell) + 1) /\ (j + 1) - 1 = j
          BY <1>4, <3>4
        <4>2. new[j + 1] = cell[j]
          BY <1>2, <4>1
        <4>3. j + 1 \in 1..Len(new)
          BY <1>2, <1>4, <4>1
        <4> QED BY <3>2, <4>2, <4>3
      <3> QED BY <3>3, <3>4
    <2> QED BY <2>1, <2>2
  <1>8. ASSUME NEW j \in 1..Len(new), NEW k \in 1..Len(new), j < k
        PROVE  /\ all[new[j]].start <= all[new[k]].start
               /\ new[j] # new[k]
               /\ SameKey(all[new[j]], all[new[k]]) => add_duplicate_events
    <2>1. CASE j = at + 1
      <3>1. k # at + 1 /\ all[new[j]] = e /\ new[j] = number
        <4>1. k # at + 1
          BY <1>2, <1>8, <2>1
        <4> QED BY <1>2, <1>3, <2>1, <4>1
      <3>2. Old(k) \in 1..Len(cell) /\ ~(Old(k) <= at)
        BY <1>2, <1>4, <1>8, <2>1
      <3>3. ~(events[cell[Old(k)]].start <= e.start)
        <4> HIDE DEF Old
        <4> QED BY <3>2
      <3>4. events[cell[Old(k)]] \in Event
        <4> HIDE DEF Old
        <4>1. cell[Old(k)] \in 1..Len(events)
          BY <3>2 DEF CellRight
        <4> QED BY <4>1
      <3>5. e.start <= events[cell[Old(k)]].start
        <4> HIDE DEF Old
        <4>1. e.start \in Times /\ events[cell[Old(k)]].start \in Times
          BY <3>4 DEF Event
        <4>2. e.start \in Nat /\ events[cell[Old(k)]].start \in Nat
          BY <4>1, TimesNatural, Zenon
        <4> QED BY <3>3, <4>2
      <3>6. SameKey(e, events[cell[Old(k)]]) => SameKey(events[cell[Old(k)]], e)
        BY DEF SameKey
      <3> HIDE DEF Old
      <3>7. new[k] = cell[Old(k)] /\ new[k] \in 1..Len(events) /\ all[new[k]] = events[cell[Old(k)]]
        BY <1>5, <1>8, <3>1
      <3>8. number # new[k]
        BY <1>4, <3>7
      <3> QED BY <3>1, <3>2, <3>5, <3>6, <3>7, <3>8
    <2>2. CASE k = at + 1
      <3>3. j # at + 1
        BY <1>2, <1>8, <2>2
      <3>1. j # at + 1 /\ all[new[k]] = e /\ new[k] = number
        BY <1>2, <1>3, <2>2, <3>3
      <3>2. Old(j) \in 1..Len(cell) /\ Old(j) <= at
        BY <1>2, <1>4, <1>8, <2>2
      <3> HIDE DEF Old
      <3>7. new[j] = cell[Old(j)] /\ new[j] \in 1..Len(events) /\ all[new[j]] = events[cell[Old(j)]]
        BY <1>5, <1>8, <3>1
      <3>8. new[j] # number
        BY <1>4, <3>7
      <3> QED BY <3>1, <3>2, <3>7, <3>8
    <2>3. CASE j # at + 1 /\ k # at + 1
      <3>1. Old(j) < Old(k)
        BY <1>4, <1>8, <2>3
      <3> HIDE DEF Old
      <3>2. /\ Old(j) \in 1..Len(cell) /\ new[j] = cell[Old(j)] /\ all[new[j]] = events[cell[Old(j)]]
            /\ Old(k) \in 1..Len(cell) /\ new[k] = cell[Old(k)] /\ all[new[k]] = events[cell[Old(k)]]
        BY <1>5, <1>8, <2>3
      <3>3. ASSUME NEW m \in 1..Len(cell), NEW o \in 1..Len(cell), m < o
            PROVE  /\ events[cell[m]].start <= events[cell[o]].start
                   /\ cell[m] # cell[o]
                   /\ SameKey(events[cell[m]], events[cell[o]]) => add_duplicate_events
        BY <3>3 DEF CellRight
      <3>4. /\ events[cell[Old(j)]].start <= events[cell[Old(k)]].start
            /\ cell[Old(j)] # cell[Old(k)]
            /\ SameKey(events[cell[Old(j)]], events[cell[Old(k)]]) => add_duplicate_events
        BY <3>1, <3>2, <3>3, Zenon
      <3> QED BY <3>2, <3>4
    <2> QED BY <2>1, <2>2, <2>3
  <1>9. CellRight(all, new, c)
    BY <1>6, <1>7, <1>8 DEF CellRight
  <1>10. TD!Inserted(cell, at, Len(events) + 1) = new
    BY DEF TD!Inserted, TD!InsertAt, InsertAt, number
  <1> QED BY <1>2, <1>9, <1>10

\* An event elsewhere, and the end of an event, are of no consequence to a cell.
LEMMA CellElsewhere ==
    ASSUME NEW events \in Seq(Event), NEW cell \in Seq(Nat), NEW c,
           CellRight(events, cell, c), NEW e \in Event, grid_ids[e.lcd] # c
    PROVE  CellRight(Append(events, e), cell, c)
  <1> PICK all : all = Append(events, e)
    OBVIOUS
  <1>1. /\ all \in Seq(Event) /\ Len(all) = Len(events) + 1 /\ all[Len(events) + 1] = e
        /\ \A n \in 1..Len(events) : all[n] = events[n]
    BY AppendElements
  <1>2. \A k \in 1..Len(cell) : /\ cell[k] \in 1..Len(events) /\ cell[k] \in 1..Len(all)
                                /\ all[cell[k]] = events[cell[k]]
    BY <1>1 DEF CellRight
  <1>3. ASSUME NEW n \in 1..Len(all), grid_ids[all[n].lcd] = c
        PROVE  \E k \in 1..Len(cell) : cell[k] = n
    <2>1. n \in 1..Len(events) /\ all[n] = events[n]
      BY <1>1, <1>3
    <2> QED BY <1>3, <2>1 DEF CellRight
  <1>4. CellRight(all, cell, c)
    BY <1>2, <1>3 DEF CellRight
  <1> QED BY <1>4

\* The end of an event.
LEMMA CellEnded ==
    ASSUME NEW events \in Seq(Event), NEW cell \in Seq(Nat), NEW c,
           CellRight(events, cell, c), NEW id \in 1..Len(events), NEW time,
           NEW new, new = [events EXCEPT ![id].end = time]
    PROVE  CellRight(new, cell, c)
  <1>1. /\ Len(new) = Len(events)
        /\ \A n \in 1..Len(events) : /\ new[n].start = events[n].start
                                     /\ new[n].lcd = events[n].lcd
                                     /\ new[n].type = events[n].type
    BY DEF Event
  <1>2. \A m, n \in 1..Len(events) : SameKey(new[m], new[n]) <=> SameKey(events[m], events[n])
    BY <1>1 DEF SameKey
  <1>3. /\ \A k \in 1..Len(cell) : cell[k] \in 1..Len(events) /\ grid_ids[events[cell[k]].lcd] = c
        /\ \A n \in 1..Len(events) :
              grid_ids[events[n].lcd] = c => \E k \in 1..Len(cell) : cell[k] = n
        /\ \A j, k \in 1..Len(cell) :
              j < k => /\ events[cell[j]].start <= events[cell[k]].start
                       /\ cell[j] # cell[k]
                       /\ SameKey(events[cell[j]], events[cell[k]]) => add_duplicate_events
    BY DEF CellRight
  <1>4. \A k \in 1..Len(cell) : cell[k] \in 1..Len(new) /\ grid_ids[new[cell[k]].lcd] = c
    BY <1>1, <1>3
  <1>5. \A n \in 1..Len(new) : grid_ids[new[n].lcd] = c => \E k \in 1..Len(cell) : cell[k] = n
    BY <1>1, <1>3
  <1>6. \A j, k \in 1..Len(cell) :
           j < k => /\ new[cell[j]].start <= new[cell[k]].start
                    /\ cell[j] # cell[k]
                    /\ SameKey(new[cell[j]], new[cell[k]]) => add_duplicate_events
    BY <1>1, <1>2, <1>3
  <1> QED BY <1>4, <1>5, <1>6 DEF CellRight

\* What holds of an element and of all before it ends somewhere.
LEMMA Beginning ==
    ASSUME NEW L \in Nat, NEW before, \A m, n \in 1..L : m < n /\ before[n] => before[m]
    PROVE  \E b \in 0..L : \A n \in 1..L : before[n] <=> n <= b
  <1> DEFINE T == {n \in 1..(L + 1) : n = L + 1 \/ ~before[n]}
  <1>1. T \subseteq Nat /\ L + 1 \in T
    OBVIOUS
  <1>2. PICK m : m \in T /\ \A n \in T : m <= n
    <2> HIDE DEF T
    <2> QED BY <1>1, LeastMember
  <1>3. m - 1 \in 0..L
    BY <1>2
  <1>4. ASSUME NEW n \in 1..L PROVE before[n] <=> n <= m - 1
    <2>1. CASE n < m
      BY <1>2, <2>1
    <2>2. CASE n = m
      BY <1>2, <2>2
    <2>3. CASE n > m
      BY <1>2, <2>3
    <2> QED BY <1>2, <2>1, <2>2, <2>3
  <1> QED BY <1>3, <1>4

\* The two searches in a cell whose events are sorted.
LEMMA EventsBounds ==
    ASSUME NEW d, IsData(d), NEW c \in Cells, CellRight(d.events, d.grid[c], c), NEW time \in Int
    PROVE  LET cell  == d.grid[c]
               first == TD!events_lower_bound(d, cell, time)
               last  == TD!events_upper_bound(d, cell, time)
           IN  /\ first \in 0..Len(cell) /\ last \in 0..Len(cell)
               /\ \A k \in 1..Len(cell) : /\ d.events[cell[k]].start < time  <=> k <= first
                                          /\ d.events[cell[k]].start <= time <=> k <= last
  <1> PICK cell : cell = d.grid[c]
    OBVIOUS
  <1> PICK L : L = Len(cell)
    OBVIOUS
  <1>1. cell \in Seq(Nat) /\ L \in Nat
    BY DEF IsData
  <1>2. ASSUME NEW k \in 1..L PROVE d.events[cell[k]].start \in Nat
    <2>1. cell[k] \in 1..Len(d.events) /\ d.events \in Seq(Event)
      BY <1>2 DEF CellRight, IsData
    <2>2. d.events[cell[k]] \in Event
      BY <2>1
    <2> QED BY <2>2, TimesNatural DEF Event
  <1>3. \A j, k \in 1..L : j < k => d.events[cell[j]].start <= d.events[cell[k]].start
    BY DEF CellRight
  <1> PICK lower : lower = [k \in 1..L |-> d.events[cell[k]].start < time]
    OBVIOUS
  <1> PICK upper : upper = [k \in 1..L |-> ~(time < d.events[cell[k]].start)]
    OBVIOUS
  <1>11. \A k \in 1..L : /\ lower[k] <=> d.events[cell[k]].start < time
                         /\ upper[k] <=> ~(time < d.events[cell[k]].start)
    BY Zenon
  <1>4. /\ \A j, k \in 1..L : j < k /\ lower[k] => lower[j]
        /\ \A j, k \in 1..L : j < k /\ upper[k] => upper[j]
    <2>1. \A j, k \in 1..L : j < k =>
            /\ d.events[cell[k]].start < time => d.events[cell[j]].start < time
            /\ ~(time < d.events[cell[k]].start) => ~(time < d.events[cell[j]].start)
      <3>1. PICK start : start = [k \in 1..L |-> d.events[cell[k]].start]
        OBVIOUS
      <3>2. \A k \in 1..L : start[k] = d.events[cell[k]].start /\ start[k] \in Nat
        BY <1>2, <3>1
      <3>3. \A j, k \in 1..L : j < k => start[j] <= start[k]
        BY <1>3, <3>2
      <3>4. \A j, k \in 1..L : j < k =>
              (start[k] < time => start[j] < time) /\ (~(time < start[k]) => ~(time < start[j]))
        <4> USE <3>2, <3>3
        <4> HIDE <3>1
        <4> QED OBVIOUS
      <3> HIDE <3>1
      <3>5. ASSUME NEW j \in 1..L, NEW k \in 1..L, j < k
            PROVE  /\ d.events[cell[k]].start < time => d.events[cell[j]].start < time
                   /\ ~(time < d.events[cell[k]].start) => ~(time < d.events[cell[j]].start)
        <4>1. start[k] = d.events[cell[k]].start /\ start[j] = d.events[cell[j]].start
          BY <3>2
        <4> QED BY <3>4, <3>5, <4>1
      <3> QED BY <3>5
    <2> QED BY <1>11, <2>1, Zenon
  <1>5. PICK first \in 0..L : \A k \in 1..L : lower[k] <=> k <= first
    BY <1>1, <1>4, Beginning, Zenon
  <1>6. PICK last \in 0..L : \A k \in 1..L : upper[k] <=> k <= last
    BY <1>1, <1>4, Beginning, Zenon
  <1>7. /\ lower = [k \in 1..L |-> lower[k]] /\ Len(lower) = L
        /\ upper = [k \in 1..L |-> upper[k]] /\ Len(upper) = L
    BY <1>1
  <1>8. TD!Bound(lower) = first /\ TD!Bound(upper) = last
    <2>1. Precede(lower, L, first) /\ Precede(upper, L, last)
      BY <1>1, <1>5, <1>6, <1>7 DEF Precede
    <2> QED BY <2>1, BoundCounts, Zenon
  <1>9. TD!events_lower_bound(d, cell, time) = first /\ TD!events_upper_bound(d, cell, time) = last
    BY <1>8 DEF TD!events_lower_bound, TD!events_upper_bound
  <1>10. \A k \in 1..L : /\ d.events[cell[k]].start < time  <=> k <= first
                         /\ d.events[cell[k]].start <= time <=> k <= last
    <2>1. \A k \in 1..L : /\ d.events[cell[k]].start < time <=> k <= first
                          /\ ~(time < d.events[cell[k]].start) <=> k <= last
      BY <1>5, <1>6, <1>11, Zenon
    <2>2. \A k \in 1..L : ~(time < d.events[cell[k]].start) <=> d.events[cell[k]].start <= time
      BY <1>2
    <2> QED BY <2>1, <2>2, Zenon
  <1> QED BY <1>5, <1>6, <1>9, <1>10

\* The data after the start of an event: as before, or with the event.
StartedRight(d, r, e) ==
    /\ r = [data |-> r.data, id |-> r.id]
    /\ IsData(r.data) /\ CellsRight(r.data)
    /\ \/ r.id = NoEvent /\ r.data = d
       \/ r.id = Len(d.events) + 1 /\ r.data.events = Append(d.events, e)

Locs == {line.loc : line \in Lines}
Evts == {line.evt : line \in Lines}
NewEvent(time, loc, type) == [start |-> time, end |-> TD!Open, lcd |-> loc, type |-> type]

\* startSingleEvent(): nothing happens, or the event is the last of the data.
LEMMA SingleStarted ==
    ASSUME NEW d, IsData(d), CellsRight(d), NEW time \in Times, NEW loc \in Locs, NEW type \in Evts,
           grid_ids[loc] \in Cells \cup {NoCell}
    PROVE  StartedRight(d, TD!startSingleEvent(d, add_duplicate_events, time, loc, type),
                        NewEvent(time, loc, type))
  <1> PICK r : r = TD!startSingleEvent(d, add_duplicate_events, time, loc, type)
    OBVIOUS
  <1> PICK e : e = NewEvent(time, loc, type)
    OBVIOUS
  <1> PICK c : c = grid_ids[loc]
    OBVIOUS
  <1> PICK cell : cell = d.grid[c]
    OBVIOUS
  <1> PICK first : first = TD!events_lower_bound(d, cell, time)
    OBVIOUS
  <1> PICK last : last = TD!events_upper_bound(d, cell, time)
    OBVIOUS
  <1> DEFINE there == TD!isEventExistent(d, cell, first, last, loc, type) /\ ~add_duplicate_events
             number == Len(d.events) + 1
             stored == [d EXCEPT !.events = Append(@, e), !.grid[c] = TD!Inserted(@, last, number)]
  <1>0. r = IF c = NoCell \/ there THEN [data |-> d, id |-> TD!NoEvent]
            ELSE [data |-> TD!UpdateMinMaxDate(stored, time), id |-> number]
    BY DEF TD!startSingleEvent, NewEvent
  <1> HIDE DEF there, number, stored
  <1>1. CASE c = NoCell \/ there
    BY <1>0, <1>1 DEF StartedRight, NoEvent
  <1>2. CASE ~(c = NoCell \/ there)
    <2>1. c \in Cells /\ CellRight(d.events, cell, c) /\ cell \in Seq(Nat) /\ d.events \in Seq(Event)
      BY <1>2 DEF CellsRight, IsData
    <2>2. e \in Event /\ grid_ids[e.lcd] = c /\ e.start = time /\ e.lcd = loc /\ e.type = type
      BY DEF NewEvent, Event, Locs, Evts
    <2>3. /\ first \in 0..Len(cell) /\ last \in 0..Len(cell)
          /\ \A k \in 1..Len(cell) : /\ d.events[cell[k]].start < time  <=> k <= first
                                     /\ d.events[cell[k]].start <= time <=> k <= last
      <3>1. time \in Int
        BY TimesNatural
      <3> QED BY <2>1, <3>1, EventsBounds, Zenon
    <2>4. ASSUME ~add_duplicate_events, NEW k \in 1..Len(cell) PROVE ~SameKey(d.events[cell[k]], e)
      <3>1. ~TD!isEventExistent(d, cell, first, last, loc, type)
        BY <1>2, <2>4 DEF there
      <3>2. k \in (first + 1)..last => ~(d.events[cell[k]].lcd = loc /\ d.events[cell[k]].type = type)
        BY <3>1 DEF TD!isEventExistent
      <3>3. d.events[cell[k]].start = time => k \in (first + 1)..last
        <4>1. d.events[cell[k]].start = time => ~(k <= first) /\ k <= last
          BY <2>3, TimesNatural
        <4> QED BY <2>3, <4>1
      <3> QED BY <2>2, <3>2, <3>3 DEF SameKey
    <2>5. PICK new : new = TD!Inserted(cell, last, number)
      OBVIOUS
    <2>6. PICK all : all = Append(d.events, e)
      OBVIOUS
    <2>7. new \in Seq(Nat) /\ CellRight(all, new, c)
      <3>1. HasPlace(d.events, cell, c, e, last)
        BY <2>1, <2>2, <2>3, <2>4 DEF HasPlace
      <3> QED BY <2>5, <2>6, <3>1, CellInserted DEF number
    <2>8. all \in Seq(Event) /\ Len(all) = number
      BY <2>1, <2>2, <2>6 DEF number
    <2>9. PICK s : s = stored
      OBVIOUS
    <2>10. /\ s = [events |-> s.events, info |-> s.info, grid |-> s.grid,
                   hour_index |-> s.hour_index, min_date |-> s.min_date, max_date |-> s.max_date]
           /\ s.events = all /\ s.info = d.info /\ s.grid = [d.grid EXCEPT ![c] = new]
      BY <2>5, <2>6, <2>9 DEF stored, IsData
    <2>11. IsData(s)
      <3>1. Len(s.info) <= Len(s.events)
        BY <2>1, <2>8, <2>10 DEF IsData, number
      <3>2. s.grid \in [Cells -> Seq(Nat)]
        BY <2>1, <2>7, <2>10 DEF IsData
      <3>3. s.info \in Seq(Seq(What))
        BY <2>10 DEF IsData
      <3> QED BY <2>8, <2>10, <3>1, <3>2, <3>3 DEF IsData
    <2>12. ASSUME NEW x \in Cells PROVE CellRight(s.events, s.grid[x], x)
      <3>1. CASE x = c
        BY <2>7, <2>10, <2>12, <3>1 DEF IsData
      <3>2. CASE x # c
        <4>1. s.grid[x] = d.grid[x] /\ d.grid[x] \in Seq(Nat) /\ CellRight(d.events, d.grid[x], x)
          BY <2>10, <2>12, <3>2 DEF IsData, CellsRight
        <4>2. CellRight(Append(d.events, e), d.grid[x], x)
          BY <2>1, <2>2, <3>2, <4>1, CellElsewhere
        <4> QED BY <2>6, <2>10, <4>1, <4>2
      <3> QED BY <3>1, <3>2
    <2>13. PICK u : u = TD!UpdateMinMaxDate(s, time)
      OBVIOUS
    <2>14. IsData(u) /\ u.events = s.events /\ u.info = s.info /\ u.grid = s.grid
      BY <2>11, <2>13, DatesKept
    <2>15. CellsRight(u)
      BY <2>12, <2>14 DEF CellsRight
    <2>16. r = [data |-> u, id |-> number]
      BY <1>0, <1>2, <2>9, <2>13
    <2>17. r = [data |-> r.data, id |-> r.id] /\ r.data = u /\ r.id = number
      BY <2>16
    <2>18. r.id = Len(d.events) + 1 /\ r.data.events = Append(d.events, e)
      BY <2>6, <2>10, <2>14, <2>17 DEF number
    <2> QED BY <2>14, <2>15, <2>17, <2>18 DEF StartedRight
  <1> QED BY <1>1, <1>2

\* startGroupEvent() does the same, and lengthens additional_event_info.
LEMMA GroupStarted ==
    ASSUME NEW d, IsData(d), CellsRight(d), NEW time \in Times, NEW loc \in Locs, NEW type \in Evts,
           grid_ids[loc] \in Cells \cup {NoCell}
    PROVE  StartedRight(d, TD!startGroupEvent(d, add_duplicate_events, time, loc, type),
                        NewEvent(time, loc, type))
  <1> PICK s : s = TD!startSingleEvent(d, add_duplicate_events, time, loc, type)
    OBVIOUS
  <1> PICK r : r = TD!startGroupEvent(d, add_duplicate_events, time, loc, type)
    OBVIOUS
  <1> PICK e : e = NewEvent(time, loc, type)
    OBVIOUS
  <1>1. StartedRight(d, s, e)
    BY SingleStarted
  <1>2. CASE s.id = NoEvent
    <2>1. r = s
      BY <1>2 DEF TD!startGroupEvent, NoEvent
    <2> QED BY <1>1, <2>1
  <1>3. CASE s.id # NoEvent
    <2>1. /\ s.id = Len(d.events) + 1 /\ s.data.events = Append(d.events, e)
          /\ s = [data |-> s.data, id |-> s.id]
          /\ IsData(s.data) /\ CellsRight(s.data)
      BY <1>1, <1>3 DEF StartedRight
    <2> DEFINE i == s.data.info
    <2>2. PICK info : info = [n \in 1..s.id |-> IF n < s.id /\ n <= Len(i) THEN i[n] ELSE <<>>]
      OBVIOUS
    <2>3. r = [s EXCEPT !.data.info = info]
      BY <1>3, <2>2 DEF TD!startGroupEvent, NoEvent
    <2>4. s.id \in Nat /\ d.events \in Seq(Event) /\ Len(s.data.events) = s.id
      BY <2>1 DEF IsData
    <2>5. info \in Seq(Seq(What)) /\ Len(info) = s.id
      <3>1. i \in Seq(Seq(What))
        BY <2>1 DEF IsData
      <3>2. ASSUME NEW n \in 1..s.id
            PROVE  (IF n < s.id /\ n <= Len(i) THEN i[n] ELSE <<>>) \in Seq(What)
        <4>1. CASE n < s.id /\ n <= Len(i)
          <5> HIDE DEF i
          <5> QED BY <2>4, <3>1, <3>2, <4>1
        <4>2. CASE ~(n < s.id /\ n <= Len(i))
          <5>1. <<>> \in Seq(What)
            OBVIOUS
          <5> HIDE DEF i
          <5> QED BY <4>2, <5>1
        <4> QED BY <4>1, <4>2
      <3> HIDE DEF i
      <3>3. info \in [1..s.id -> Seq(What)]
        BY <2>2, <3>2
      <3> QED BY <2>4, <3>3
    <2>6. PICK t : t = s.data
      OBVIOUS
    <2>7. PICK u : u = r.data
      OBVIOUS
    <2>8. r = [data |-> u, id |-> s.id] /\ u = [t EXCEPT !.info = info]
      BY <2>1, <2>3, <2>6, <2>7
    <2>9. /\ u = [events |-> u.events, info |-> u.info, grid |-> u.grid,
                  hour_index |-> u.hour_index, min_date |-> u.min_date, max_date |-> u.max_date]
          /\ u.events = t.events /\ u.info = info /\ u.grid = t.grid
      BY <2>1, <2>6, <2>8 DEF IsData
    <2>10. IsData(u)
      <3>1. Len(u.info) <= Len(u.events)
        BY <2>4, <2>5, <2>6, <2>9
      <3>2. t.events \in Seq(Event) /\ t.grid \in [Cells -> Seq(Nat)]
        BY <2>1, <2>6 DEF IsData
      <3> QED BY <2>5, <2>9, <3>1, <3>2 DEF IsData
    <2>11. CellsRight(u)
      BY <2>1, <2>6, <2>9 DEF CellsRight
    <2> QED BY <2>1, <2>6, <2>8, <2>9, <2>10, <2>11 DEF StartedRight
  <1> QED BY <1>2, <1>3

\* The end of an event.
LEMMA EventEnded ==
    ASSUME NEW d, IsData(d), CellsRight(d), NEW time \in Nat,
           NEW id, id \in 1..Len(d.events) \cup {NoEvent}
    PROVE  LET e == TD!endSingleEvent(d, id, time)
           IN  /\ IsData(e) /\ CellsRight(e)
               /\ \/ e = d /\ (id # NoEvent => d.events[id].end # TD!Open)
                  \/ /\ id \in 1..Len(d.events) /\ d.events[id].end = TD!Open
                     /\ e.events = [d.events EXCEPT ![id].end = time]
  <1> PICK e : e = TD!endSingleEvent(d, id, time)
    OBVIOUS
  <1>1. CASE id # NoEvent /\ d.events[id].end = TD!Open
    <2>1. PICK s : s = [d EXCEPT !.events[id].end = time]
      OBVIOUS
    <2>2. PICK all : all = [d.events EXCEPT ![id].end = time]
      OBVIOUS
    <2>3. /\ s = [events |-> s.events, info |-> s.info, grid |-> s.grid,
                  hour_index |-> s.hour_index, min_date |-> s.min_date, max_date |-> s.max_date]
          /\ s.events = all /\ s.info = d.info /\ s.grid = d.grid
      BY <2>1, <2>2 DEF IsData
    <2>4. all \in Seq(Event) /\ Len(all) = Len(d.events)
      <3>1. d.events \in Seq(Event) /\ id \in 1..Len(d.events)
        BY <1>1 DEF IsData
      <3>3. PICK ev \in Event : ev = d.events[id]
        BY <3>1
      <3>4. [ev EXCEPT !.end = time] \in Event
        BY DEF Event
      <3>2. [d.events[id] EXCEPT !.end = time] \in Event
        BY <3>3, <3>4
      <3> QED BY <2>2, <3>1, <3>2
    <2>5. IsData(s)
      BY <2>3, <2>4 DEF IsData
    <2>6. ASSUME NEW c \in Cells PROVE CellRight(s.events, s.grid[c], c)
      <3>1. d.events \in Seq(Event) /\ id \in 1..Len(d.events) /\ d.grid[c] \in Seq(Nat)
            /\ CellRight(d.events, d.grid[c], c)
        BY <1>1, <2>6 DEF IsData, CellsRight
      <3>2. CellRight(all, d.grid[c], c)
        BY <2>2, <3>1, CellEnded
      <3> QED BY <2>3, <3>2
    <2>7. e = TD!UpdateMinMaxDate(s, time)
      BY <1>1, <2>1 DEF TD!endSingleEvent, NoEvent
    <2>8. IsData(e) /\ e.events = s.events /\ e.grid = s.grid
      BY <2>5, <2>7, DatesKept
    <2>9. CellsRight(e)
      BY <2>6, <2>8 DEF CellsRight
    <2> QED BY <1>1, <2>2, <2>3, <2>8, <2>9
  <1>2. CASE ~(id # NoEvent /\ d.events[id].end = TD!Open)
    <2>1. e = d
      BY <1>2 DEF TD!endSingleEvent, NoEvent
    <2> QED BY <1>2, <2>1
  <1> QED BY <1>1, <1>2

\* What is told further of an event that has information.
LEMMA InfoAdded ==
    ASSUME NEW d, IsData(d), CellsRight(d), NEW id \in (Nat \ {0}) \cup {NoEvent},
           TD!HasInfo(d, id), NEW what \in What
    PROVE  LET e == TD!addGroupEventInfo(d, id, what)
           IN  IsData(e) /\ CellsRight(e) /\ e.events = d.events
  <1> PICK e : e = TD!addGroupEventInfo(d, id, what)
    OBVIOUS
  <1>1. CASE id = NoEvent
    BY <1>1 DEF TD!addGroupEventInfo, NoEvent
  <1>2. CASE id # NoEvent
    <2>1. e = [d EXCEPT !.info[id] = Append(@, what)]
      BY <1>2 DEF TD!addGroupEventInfo, NoEvent
    <2>2. id \in 1..Len(d.info) /\ d.info \in Seq(Seq(What))
      BY <1>2 DEF TD!HasInfo, NoEvent, IsData
    <2>3. PICK more : more = Append(d.info[id], what)
      OBVIOUS
    <2>4. more \in Seq(What)
      BY <2>2, <2>3
    <2>5. PICK info : info = [d.info EXCEPT ![id] = more]
      OBVIOUS
    <2>6. info \in Seq(Seq(What)) /\ Len(info) = Len(d.info)
      BY <2>2, <2>4, <2>5
    <2>7. /\ e = [events |-> e.events, info |-> e.info, grid |-> e.grid,
                  hour_index |-> e.hour_index, min_date |-> e.min_date, max_date |-> e.max_date]
          /\ e.events = d.events /\ e.info = info /\ e.grid = d.grid
      BY <2>1, <2>3, <2>5 DEF IsData
    <2>8. IsData(e)
      BY <2>6, <2>7 DEF IsData
    <2>9. CellsRight(e)
      BY <2>7 DEF CellsRight
    <2> QED BY <2>7, <2>8, <2>9
  <1> QED BY <1>1, <1>2

\* The filter: its lines, each with the event it began, if any.
IsFilter(fl) ==
    /\ fl = [old_strings |-> fl.old_strings, indexes |-> fl.indexes, ci_index |-> fl.ci_index,
             data |-> fl.data, throws |-> fl.throws]
    /\ fl.old_strings \in Seq(Lines)
    /\ fl.indexes \in Seq(Nat \cup {NoEvent}) /\ Len(fl.indexes) = Len(fl.old_strings)
    /\ fl.ci_index \in [CIs -> (Nat \ {0}) \cup {NoEvent}]
    /\ IsData(fl.data) /\ CellsRight(fl.data)

Numbered(fl) ==
    /\ \A n \in 1..Len(fl.indexes) : fl.indexes[n] # NoEvent =>
          fl.indexes[n] \in 1..Len(fl.data.events) /\ IsEvent(fl.old_strings[n])
    /\ \A m, n \in 1..Len(fl.indexes) :
          fl.indexes[m] = fl.indexes[n] /\ fl.indexes[n] # NoEvent => m = n
    /\ \A ci \in CIs : fl.ci_index[ci] \in {1, NoEvent} \/ fl.ci_index[ci] <= Len(fl.data.events)

\* An event is open as long as the filter has its line, or while it is one of some
\* more; open events have begun by now.
OpenRight(events, indexes, more, time) ==
    \A n \in 1..Len(events) :
        /\ events[n].end = TD!Open <=> n \in more \/ \E k \in 1..Len(indexes) : indexes[k] = n
        /\ events[n].end = TD!Open => events[n].start <= time
        /\ events[n].end # TD!Open => events[n].start <= events[n].end

FilterRight(fl, more, time) ==
    IsFilter(fl) /\ Numbered(fl) /\ OpenRight(fl.data.events, fl.indexes, more, time)

-----------------------------------------------------------------------------
(* The loop over the old lines *)

\* The line of an event that some other lines are not of.
IsLine(fl, more, line, id) ==
    /\ line \in Lines /\ id \in 1..Len(fl.data.events) \cup {NoEvent}
    /\ id # NoEvent => /\ IsEvent(line) /\ id \notin more
                       /\ \A k \in 1..Len(fl.indexes) : fl.indexes[k] # id

\* A line stays, with its event.
Staying(fl, line, id) == [fl EXCEPT !.old_strings = Append(@, line), !.indexes = Append(@, id)]

\* An old line that stays is as it was.
LEMMA LineStays ==
    ASSUME NEW a, NEW more, NEW line, NEW id, NEW time \in Nat,
           FilterRight(a, more \cup {id}, time), IsLine(a, more, line, id),
           NEW b, b = Staying(a, line, id)
    PROVE  FilterRight(b, more, time) /\ b.throws = a.throws /\ b.data = a.data
  <1> PICK old : old = Append(a.old_strings, line)
    OBVIOUS
  <1> PICK indexes : indexes = Append(a.indexes, id)
    OBVIOUS
  <1>1. /\ a.old_strings \in Seq(Lines) /\ a.indexes \in Seq(Nat \cup {NoEvent})
        /\ Len(a.indexes) = Len(a.old_strings) /\ Len(a.old_strings) \in Nat
        /\ line \in Lines /\ id \in Nat \cup {NoEvent}
    BY DEF FilterRight, IsFilter, IsLine
  <1>2. /\ b = [old_strings |-> b.old_strings, indexes |-> b.indexes, ci_index |-> b.ci_index,
                data |-> b.data, throws |-> b.throws]
        /\ b.old_strings = old /\ b.indexes = indexes
        /\ b.ci_index = a.ci_index /\ b.data = a.data /\ b.throws = a.throws
    BY DEF FilterRight, IsFilter, Staying
  <1>3. /\ old \in Seq(Lines) /\ Len(old) = Len(a.old_strings) + 1
        /\ old[Len(a.old_strings) + 1] = line
        /\ \A n \in 1..Len(a.old_strings) : old[n] = a.old_strings[n]
    BY <1>1, AppendElements
  <1>4. /\ indexes \in Seq(Nat \cup {NoEvent}) /\ Len(indexes) = Len(a.indexes) + 1
        /\ indexes[Len(a.indexes) + 1] = id
        /\ \A n \in 1..Len(a.indexes) : indexes[n] = a.indexes[n]
    BY <1>1, AppendElements
  <1>5. IsFilter(b)
    <2>1. IsData(b.data) /\ CellsRight(b.data) /\ b.ci_index \in [CIs -> (Nat \ {0}) \cup {NoEvent}]
      BY <1>2 DEF FilterRight, IsFilter
    <2> QED BY <1>1, <1>2, <1>3, <1>4, <2>1 DEF IsFilter
  <1> PICK L : L = Len(a.indexes)
    OBVIOUS
  <1>6. \A n \in 1..(L + 1) : n \in 1..L \/ n = L + 1
    BY <1>1
  <1>7. Numbered(b)
    <2>1. ASSUME NEW n \in 1..(L + 1), indexes[n] # NoEvent
          PROVE  indexes[n] \in 1..Len(a.data.events) /\ IsEvent(old[n])
      <3>1. CASE n \in 1..L
        BY <1>1, <1>3, <1>4, <2>1, <3>1 DEF FilterRight, Numbered
      <3>2. CASE n = L + 1
        BY <1>1, <1>3, <1>4, <2>1, <3>2 DEF IsLine
      <3> QED BY <1>6, <3>1, <3>2
    <2>2. ASSUME NEW m \in 1..(L + 1), NEW n \in 1..(L + 1),
                 indexes[m] = indexes[n], indexes[n] # NoEvent
          PROVE  m = n
      <3>1. CASE m \in 1..L /\ n \in 1..L
        BY <1>4, <2>2, <3>1 DEF FilterRight, Numbered
      <3>2. CASE m \in 1..L /\ n = L + 1
        BY <1>4, <2>2, <3>2 DEF IsLine
      <3>3. CASE m = L + 1 /\ n \in 1..L
        BY <1>4, <2>2, <3>3 DEF IsLine
      <3>4. CASE m = L + 1 /\ n = L + 1
        BY <3>4
      <3> QED BY <1>6, <3>1, <3>2, <3>3, <3>4
    <2>3. \A ci \in CIs : b.ci_index[ci] \in {1, NoEvent} \/ b.ci_index[ci] <= Len(b.data.events)
      BY <1>2 DEF FilterRight, Numbered
    <2>4. \A n \in 1..Len(b.indexes) : b.indexes[n] # NoEvent =>
             b.indexes[n] \in 1..Len(b.data.events) /\ IsEvent(b.old_strings[n])
      BY <1>2, <1>4, <2>1
    <2>5. \A m, n \in 1..Len(b.indexes) :
             b.indexes[m] = b.indexes[n] /\ b.indexes[n] # NoEvent => m = n
      BY <1>2, <1>4, <2>2
    <2> QED BY <2>3, <2>4, <2>5 DEF Numbered
  <1>8. OpenRight(b.data.events, b.indexes, more, time)
    <2>1. ASSUME NEW n \in 1..Len(a.data.events)
          PROVE  n \in more \cup {id} \/ (\E k \in 1..L : a.indexes[k] = n)
                   <=> n \in more \/ \E k \in 1..(L + 1) : indexes[k] = n
      <3>1. CASE n = id
        <4>1. L + 1 \in 1..(L + 1)
          BY <1>1
        <4> QED BY <1>4, <3>1, <4>1
      <3>2. CASE n # id
        <4>1. (\E k \in 1..L : a.indexes[k] = n) <=> \E k \in 1..(L + 1) : indexes[k] = n
          <5>1. 1..L \subseteq 1..(L + 1)
            BY <1>1
          <5> QED BY <1>4, <1>6, <3>2, <5>1
        <4> QED BY <3>2, <4>1
      <3> QED BY <3>1, <3>2
    <2>2. OpenRight(a.data.events, a.indexes, more \cup {id}, time)
      BY DEF FilterRight
    <2>3. \A n \in 1..Len(a.data.events) :
            /\ a.data.events[n].end = TD!Open <=>
                  n \in more \/ \E k \in 1..(L + 1) : indexes[k] = n
            /\ a.data.events[n].end = TD!Open => a.data.events[n].start <= time
            /\ a.data.events[n].end # TD!Open => a.data.events[n].start <= a.data.events[n].end
      BY <2>1, <2>2 DEF OpenRight
    <2> QED BY <1>2, <1>4, <2>3 DEF OpenRight
  <1> QED BY <1>2, <1>5, <1>7, <1>8 DEF FilterRight

\* A filter in which only the data has changed, and has as many events.
LEMMA DataReplaced ==
    ASSUME NEW a, IsFilter(a), Numbered(a), NEW e, IsData(e), CellsRight(e),
           Len(e.events) = Len(a.data.events),
           NEW b, b = [a EXCEPT !.data = e]
    PROVE  /\ IsFilter(b) /\ Numbered(b) /\ b.data = e
           /\ b.old_strings = a.old_strings /\ b.indexes = a.indexes /\ b.throws = a.throws
  <1>1. /\ b = [old_strings |-> b.old_strings, indexes |-> b.indexes, ci_index |-> b.ci_index,
                data |-> b.data, throws |-> b.throws]
        /\ b.old_strings = a.old_strings /\ b.indexes = a.indexes
        /\ b.ci_index = a.ci_index /\ b.data = e /\ b.throws = a.throws
    BY DEF IsFilter
  <1>2. IsFilter(b)
    BY <1>1 DEF IsFilter
  <1>3. Numbered(b)
    BY <1>1 DEF Numbered
  <1> QED BY <1>1, <1>2, <1>3

\* An old line that has gone ends its event.
LEMMA LineEnds ==
    ASSUME NEW a, NEW more, NEW line, NEW id, NEW time \in Nat,
           FilterRight(a, more \cup {id}, time), IsLine(a, more, line, id),
           NEW b, b = EndLine(a, line, id, time)
    PROVE  /\ FilterRight(b, more, time) /\ b.throws = a.throws
           /\ Len(b.data.events) = Len(a.data.events)
           /\ b.old_strings = a.old_strings /\ b.indexes = a.indexes
  <1>0. ASSUME id = NoEvent PROVE OpenRight(a.data.events, a.indexes, more, time)
    <2>1. \A n \in 1..Len(a.data.events) : n # id
      BY <1>0 DEF NoEvent, TD!NoEvent
    <2> QED BY <2>1 DEF FilterRight, OpenRight
  <1>1. CASE ~IsEvent(line)
    <2>1. id = NoEvent /\ b = a
      BY <1>1 DEF IsLine, EndLine
    <2> QED BY <1>0, <2>1 DEF FilterRight
  <1>2. CASE IsEvent(line)
    <2> PICK d : d = a.data
      OBVIOUS
    <2> PICK e : e = TD!endSingleEvent(d, id, time)
      OBVIOUS
    <2>1. b = [a EXCEPT !.data = e]
      BY <1>2 DEF EndLine
    <2>2. IsFilter(a) /\ Numbered(a) /\ IsData(d) /\ CellsRight(d)
      BY DEF FilterRight, IsFilter
    <2>3. id \in 1..Len(d.events) \cup {NoEvent}
      BY DEF IsLine
    <2>4. /\ IsData(e) /\ CellsRight(e)
          /\ \/ e = d /\ (id # NoEvent => d.events[id].end # TD!Open)
             \/ /\ id \in 1..Len(d.events) /\ d.events[id].end = TD!Open
                /\ e.events = [d.events EXCEPT ![id].end = time]
      BY <2>2, <2>3, EventEnded
    <2>5. CASE e = d /\ (id # NoEvent => d.events[id].end # TD!Open)
      <3>1. id = NoEvent
        <4>1. id # NoEvent => d.events[id].end = TD!Open
          BY <2>3 DEF FilterRight, OpenRight
        <4> QED BY <2>5, <4>1
      <3>2. IsFilter(b) /\ Numbered(b) /\ b.data = d
            /\ b.old_strings = a.old_strings /\ b.indexes = a.indexes /\ b.throws = a.throws
        BY <2>1, <2>2, <2>5, DataReplaced
      <3> QED BY <1>0, <3>1, <3>2 DEF FilterRight
    <2>6. CASE /\ id \in 1..Len(d.events) /\ d.events[id].end = TD!Open
               /\ e.events = [d.events EXCEPT ![id].end = time]
      <3>1. d.events \in Seq(Event)
        BY <2>2 DEF IsData
      <3>2. /\ Len(e.events) = Len(d.events)
            /\ \A n \in 1..Len(d.events) : e.events[n].start = d.events[n].start
            /\ \A n \in 1..Len(d.events) : n # id => e.events[n].end = d.events[n].end
            /\ e.events[id].end = time
        BY <2>6, <3>1 DEF Event
      <3>3. IsFilter(b) /\ Numbered(b) /\ b.data = e
            /\ b.old_strings = a.old_strings /\ b.indexes = a.indexes /\ b.throws = a.throws
        BY <2>1, <2>2, <2>4, <3>2, DataReplaced
      <3>4. OpenRight(d.events, a.indexes, more \cup {id}, time)
        BY DEF FilterRight
      <3>5. OpenRight(e.events, a.indexes, more, time)
        <4>1. ASSUME NEW n \in 1..Len(d.events), n # id
              PROVE  /\ e.events[n].end = TD!Open <=>
                           n \in more \/ \E k \in 1..Len(a.indexes) : a.indexes[k] = n
                     /\ e.events[n].end = TD!Open => e.events[n].start <= time
                     /\ e.events[n].end # TD!Open => e.events[n].start <= e.events[n].end
          BY <3>2, <3>4, <4>1 DEF OpenRight
        <4>2. id \notin more /\ \A k \in 1..Len(a.indexes) : a.indexes[k] # id
          BY <2>3, <2>6 DEF IsLine, NoEvent, TD!NoEvent
        <4>3. e.events[id].end # TD!Open /\ e.events[id].start <= e.events[id].end
          BY <2>6, <3>2, <3>4 DEF OpenRight, TD!Open
        <4> QED BY <3>2, <4>1, <4>2, <4>3 DEF OpenRight
      <3> QED BY <3>2, <3>3, <3>5 DEF FilterRight
    <2> QED BY <2>4, <2>5, <2>6
  <1> QED BY <1>1, <1>2

\* A line stays behind those that have, as the next one of the new list, or not.
StaysOrNot(a, b, line, id, lines) ==
    \/ b.old_strings = a.old_strings /\ b.indexes = a.indexes
    \/ /\ b.old_strings = Append(a.old_strings, line)
       /\ b.indexes = Append(a.indexes, id)
       /\ Len(a.old_strings) < Len(lines)
       /\ line = lines[Len(a.old_strings) + 1]

AsMany(a, b) == a.throws = b.throws /\ Len(a.data.events) = Len(b.data.events)

\* An old line is kept, as the next one of the new list, or has gone.
LEMMA LineCompared ==
    ASSUME NEW a, NEW more, NEW line, NEW id, NEW time \in Nat, NEW lines,
           FilterRight(a, more \cup {id}, time), IsLine(a, more, line, id),
           NEW b, b = CompareLine(a, line, id, time, lines)
    PROVE  /\ FilterRight(b, more, time) /\ AsMany(b, a)
           /\ StaysOrNot(a, b, line, id, lines)
  <1>1. CASE Gone(line, lines, Len(a.old_strings))
    <2>1. b = EndLine(a, line, id, time)
      BY <1>1 DEF CompareLine
    <2>2. /\ FilterRight(b, more, time) /\ b.throws = a.throws
          /\ Len(b.data.events) = Len(a.data.events)
          /\ b.old_strings = a.old_strings /\ b.indexes = a.indexes
      BY <2>1, LineEnds
    <2> QED BY <2>2 DEF StaysOrNot, AsMany
  <1>2. CASE ~Gone(line, lines, Len(a.old_strings))
    <2>1. b = Staying(a, line, id)
      BY <1>2 DEF CompareLine, Staying
    <2>2. FilterRight(b, more, time) /\ b.throws = a.throws /\ b.data = a.data
      BY <2>1, LineStays
    <2>4. b.old_strings = Append(a.old_strings, line) /\ b.indexes = Append(a.indexes, id)
      BY <2>1 DEF Staying, FilterRight, IsFilter
    <2>3. Len(a.old_strings) < Len(lines) /\ line = lines[Len(a.old_strings) + 1]
      BY <1>2 DEF Gone
    <2> QED BY <2>2, <2>3, <2>4 DEF StaysOrNot, AsMany
  <1> QED BY <1>1, <1>2

\* Time goes on.
LEMMA LaterRight ==
    ASSUME NEW fl, NEW more, NEW t \in Nat, NEW u \in Nat, t <= u, FilterRight(fl, more, t)
    PROVE  FilterRight(fl, more, u)
  <1> PICK events : events = fl.data.events
    OBVIOUS
  <1>1. OpenRight(events, fl.indexes, more, t) /\ events \in Seq(Event)
    BY DEF FilterRight, IsFilter, IsData
  <1>2. ASSUME NEW n \in 1..Len(events) PROVE events[n].start \in Nat
    <2>1. events[n] \in Event
      BY <1>1
    <2> QED BY <2>1, TimesNatural DEF Event
  <1>3. OpenRight(events, fl.indexes, more, u)
    <2>1. ASSUME NEW n \in 1..Len(events), events[n].end = TD!Open PROVE events[n].start <= u
      <3>1. events[n].start <= t
        BY <1>1, <2>1 DEF OpenRight
      <3> QED BY <1>2, <3>1
    <2> QED BY <1>1, <2>1 DEF OpenRight
  <1> QED BY <1>3 DEF FilterRight

-----------------------------------------------------------------------------
(* Compared is a recursive function. *)

Cleared(fl) == [fl EXCEPT !.old_strings = <<>>, !.indexes = <<>>]

IsComparison(c, fl, time, lines) ==
    /\ c[0] = Cleared(fl)
    /\ \A n \in 1..Len(fl.old_strings) :
          c[n] = CompareLine(c[n - 1], fl.old_strings[n], fl.indexes[n], time, lines)

\* The filter after each of the old lines follows from that after the one before.
LEMMA ComparedRecursion ==
    ASSUME NEW fl, NEW time, NEW lines, Len(fl.old_strings) \in Nat
    PROVE  IsComparison(Compared(fl, time, lines), fl, time, lines)
  <1> PICK old : old = fl.old_strings
    OBVIOUS
  <1> PICK ids : ids = fl.indexes
    OBVIOUS
  <1> PICK first : first = Cleared(fl)
    OBVIOUS
  <1> DEFINE Step(g, n) == [k \in 0..n |->
                 IF k = 0 THEN first ELSE CompareLine(g[k - 1], old[k], ids[k], time, lines)]
             Good == {n \in Nat : \E g : g = Step(g, n)}
             compared == Compared(fl, time, lines)
  <1>1. 0 \in Good
    <2> DEFINE e == [k \in 0..0 |-> first]
    <2>1. e = Step(e, 0)
      OBVIOUS
    <2> HIDE DEF e, Step
    <2> QED BY <2>1
  <1>2. ASSUME NEW n \in Nat, n \in Good PROVE n + 1 \in Good
    <2>1. PICK g : g = Step(g, n)
      <3> HIDE DEF Step
      <3> QED BY <1>2
    <2>2. PICK new : new = CompareLine(g[n], old[n + 1], ids[n + 1], time, lines)
      OBVIOUS
    <2> DEFINE h == [k \in 0..(n + 1) |-> IF k = n + 1 THEN new ELSE g[k]]
    <2>3. ASSUME NEW k \in 0..(n + 1)
          PROVE  h[k] = IF k = 0 THEN first
                        ELSE CompareLine(h[k - 1], old[k], ids[k], time, lines)
      <3>1. CASE k = n + 1
        <4>1. h[k] = new /\ k - 1 = n /\ h[k - 1] = g[n] /\ k # 0
          BY <3>1
        <4> QED BY <2>2, <3>1, <4>1
      <3>2. CASE k # n + 1
        <4>1. k \in 0..n /\ h[k] = g[k] /\ (k # 0 => h[k - 1] = g[k - 1])
          BY <3>2
        <4>2. g[k] = IF k = 0 THEN first ELSE CompareLine(g[k - 1], old[k], ids[k], time, lines)
          BY <2>1, <4>1
        <4> HIDE DEF h
        <4> QED BY <4>1, <4>2
      <3> QED BY <3>1, <3>2
    <2>4. h = [k \in 0..(n + 1) |-> h[k]]
      OBVIOUS
    <2>5. h = Step(h, n + 1)
      <3> HIDE DEF h
      <3> QED BY <2>3, <2>4
    <2> HIDE DEF h, Step
    <2> QED BY <2>5
  <1>3. Nat \subseteq Good
    <2> HIDE DEF Good
    <2> QED BY <1>1, <1>2, SetInduction
  <1>4. Len(old) \in Good
    <2> HIDE DEF Good
    <2> QED BY <1>3
  <1>5. compared = CHOOSE g : g = Step(g, Len(old))
    BY DEF Compared, Cleared
  <1>6. compared = Step(compared, Len(old))
    <2>1. \E g : g = Step(g, Len(old))
      <3> HIDE DEF Step
      <3> QED BY <1>4
    <2> HIDE DEF Step, compared
    <2> QED BY <1>5, <2>1
  <1> PICK c : c = compared
    OBVIOUS
  <1>7. \A k \in 0..Len(old) :
           c[k] = IF k = 0 THEN first ELSE CompareLine(c[k - 1], old[k], ids[k], time, lines)
    <2> HIDE DEF compared
    <2> QED BY <1>6
  <1>8. c[0] = first
    BY <1>7
  <1>9. ASSUME NEW n \in 1..Len(old) PROVE c[n] = CompareLine(c[n - 1], old[n], ids[n], time, lines)
    <2>1. n \in 0..Len(old) /\ n # 0
      BY <1>9
    <2> QED BY <1>7, <2>1
  <1> QED BY <1>8, <1>9 DEF IsComparison

\* The events of the old lines from one on.
Left(fl, n) == {fl.indexes[k] : k \in n..Len(fl.indexes)}

\* The filter when n old lines have been compared with the new ones.
ComparedRight(fl, x, n, time, lines) ==
    /\ FilterRight(x, Left(fl, n + 1), time)
    /\ x.throws = fl.throws
    /\ Len(x.data.events) = Len(fl.data.events)
    /\ \A k \in 1..Len(x.indexes) : \E j \in 1..n : x.indexes[k] = fl.indexes[j]
    /\ Len(x.old_strings) <= Len(lines)
    /\ \A k \in 1..Len(x.old_strings) : x.old_strings[k] = lines[k]

\* An index of a sequence that is one longer.
LEMMA UpToOneMore ==
    ASSUME NEW a \in Nat
    PROVE  \A k \in 1..(a + 1) : k \in 1..a \/ k = a + 1
  OBVIOUS

\* Before the first of the old lines.
LEMMA ComparedFirst ==
    ASSUME NEW fl, NEW time \in Nat, NEW lines \in Seq(Lines), FilterRight(fl, {}, time),
           NEW x, x = Cleared(fl)
    PROVE  ComparedRight(fl, x, 0, time, lines)
  <1>1. /\ x = [old_strings |-> x.old_strings, indexes |-> x.indexes, ci_index |-> x.ci_index,
                data |-> x.data, throws |-> x.throws]
        /\ x.old_strings = <<>> /\ x.indexes = <<>>
        /\ x.ci_index = fl.ci_index /\ x.data = fl.data /\ x.throws = fl.throws
    BY DEF Cleared, FilterRight, IsFilter
  <1>2. IsFilter(x)
    <2>1. <<>> \in Seq(Lines) /\ <<>> \in Seq(Nat \cup {NoEvent}) /\ Len(<<>>) = 0
      OBVIOUS
    <2>2. IsData(fl.data) /\ CellsRight(fl.data) /\ fl.ci_index \in [CIs -> (Nat \ {0}) \cup {NoEvent}]
      BY DEF FilterRight, IsFilter
    <2> QED BY <1>1, <2>1, <2>2 DEF IsFilter
  <1>3. Len(x.indexes) = 0 /\ Len(x.old_strings) = 0
    BY <1>1
  <1>4. Numbered(x)
    <2>1. \A ci \in CIs : x.ci_index[ci] \in {1, NoEvent} \/ x.ci_index[ci] <= Len(x.data.events)
      BY <1>1 DEF FilterRight, Numbered
    <2>2. \A n \in 1..Len(x.indexes) : FALSE
      BY <1>3
    <2> QED BY <2>1, <2>2 DEF Numbered
  <1>5. OpenRight(x.data.events, x.indexes, Left(fl, 0 + 1), time)
    <2>1. OpenRight(fl.data.events, fl.indexes, {}, time)
      BY DEF FilterRight
    <2>2. ASSUME NEW n
          PROVE  n \in Left(fl, 0 + 1) <=> \E k \in 1..Len(fl.indexes) : fl.indexes[k] = n
      BY DEF Left
    <2>3. \A k \in 1..Len(x.indexes) : FALSE
      BY <1>3
    <2> QED BY <1>1, <2>1, <2>2, <2>3 DEF OpenRight
  <1>6. \A k \in 1..0 : FALSE
    OBVIOUS
  <1> QED BY <1>1, <1>2, <1>3, <1>4, <1>5, <1>6 DEF ComparedRight, FilterRight

\* After one line more.
LEMMA ComparedNext ==
    ASSUME NEW fl, NEW time \in Nat, NEW lines \in Seq(Lines), FilterRight(fl, {}, time),
           NEW n \in Nat, n < Len(fl.old_strings),
           NEW x, ComparedRight(fl, x, n, time, lines),
           NEW y, y = CompareLine(x, fl.old_strings[n + 1], fl.indexes[n + 1], time, lines)
    PROVE  ComparedRight(fl, y, n + 1, time, lines)
  <1> PICK line : line = fl.old_strings[n + 1]
    OBVIOUS
  <1> PICK id : id = fl.indexes[n + 1]
    OBVIOUS
  <1> PICK L : L = Len(fl.indexes)
    OBVIOUS
  <1> PICK more : more = Left(fl, (n + 1) + 1)
    OBVIOUS
  <1>1. /\ fl.old_strings \in Seq(Lines) /\ fl.indexes \in Seq(Nat \cup {NoEvent})
        /\ L = Len(fl.old_strings) /\ L \in Nat /\ n + 1 \in 1..L
        /\ line \in Lines /\ id \in Nat \cup {NoEvent}
    BY DEF FilterRight, IsFilter
  <1>2. Left(fl, n + 1) = more \cup {id}
    <2>1. \A k \in (n + 1)..L : k = n + 1 \/ k \in ((n + 1) + 1)..L
      BY <1>1
    <2>2. ((n + 1) + 1)..L \subseteq (n + 1)..L /\ n + 1 \in (n + 1)..L
      BY <1>1
    <2> QED BY <2>1, <2>2 DEF Left
  <1>3. IsLine(x, more, line, id)
    <2>1. id # NoEvent => id \in 1..Len(fl.data.events) /\ IsEvent(line)
      BY <1>1 DEF FilterRight, Numbered
    <2>2. ASSUME id # NoEvent PROVE id \notin more
      <3>1. ASSUME NEW k \in ((n + 1) + 1)..L, fl.indexes[k] = id PROVE FALSE
        <4>1. k \in 1..L /\ k # n + 1
          BY <1>1, <3>1
        <4>2. fl.indexes[k] = fl.indexes[n + 1] /\ fl.indexes[k] # NoEvent
          BY <2>2, <3>1
        <4> QED BY <1>1, <4>1, <4>2 DEF FilterRight, Numbered
      <3> QED BY <3>1 DEF Left
    <2>3. ASSUME id # NoEvent, NEW k \in 1..Len(x.indexes) PROVE x.indexes[k] # id
      <3>1. PICK j \in 1..n : x.indexes[k] = fl.indexes[j]
        BY <2>3 DEF ComparedRight
      <3>2. j \in 1..L /\ j # n + 1
        BY <1>1, <3>1
      <3>3. fl.indexes[j] = id => fl.indexes[j] = fl.indexes[n + 1] /\ fl.indexes[j] # NoEvent
        BY <2>3
      <3> QED BY <1>1, <3>1, <3>2, <3>3 DEF FilterRight, Numbered
    <2>4. Len(x.data.events) = Len(fl.data.events)
      BY DEF ComparedRight
    <2> QED BY <1>1, <2>1, <2>2, <2>3, <2>4 DEF IsLine
  <1>4. FilterRight(x, more \cup {id}, time)
    BY <1>2 DEF ComparedRight
  <1>5. y = CompareLine(x, line, id, time, lines)
    OBVIOUS
  <1>6. FilterRight(y, more, time) /\ AsMany(y, x) /\ StaysOrNot(x, y, line, id, lines)
    BY <1>3, <1>4, <1>5, LineCompared
  <1>7. /\ \A k \in 1..Len(y.indexes) : \E j \in 1..(n + 1) : y.indexes[k] = fl.indexes[j]
        /\ Len(y.old_strings) <= Len(lines)
        /\ \A k \in 1..Len(y.old_strings) : y.old_strings[k] = lines[k]
    <2>1. /\ \A k \in 1..Len(x.indexes) : \E j \in 1..n : x.indexes[k] = fl.indexes[j]
          /\ Len(x.old_strings) <= Len(lines)
          /\ \A k \in 1..Len(x.old_strings) : x.old_strings[k] = lines[k]
      BY DEF ComparedRight
    <2>2. 1..n \subseteq 1..(n + 1) /\ n + 1 \in 1..(n + 1)
      OBVIOUS
    <2>3. CASE y.old_strings = x.old_strings /\ y.indexes = x.indexes
      BY <2>1, <2>2, <2>3
    <2>4. CASE /\ y.old_strings = Append(x.old_strings, line)
               /\ y.indexes = Append(x.indexes, id)
               /\ Len(x.old_strings) < Len(lines)
               /\ line = lines[Len(x.old_strings) + 1]
      <3>1. x.old_strings \in Seq(Lines) /\ x.indexes \in Seq(Nat \cup {NoEvent})
        BY DEF ComparedRight, FilterRight, IsFilter
      <3>2. /\ Len(y.old_strings) = Len(x.old_strings) + 1
            /\ \A k \in 1..Len(x.old_strings) : y.old_strings[k] = x.old_strings[k]
            /\ y.old_strings[Len(x.old_strings) + 1] = line
        BY <1>1, <2>4, <3>1, AppendElements
      <3>3. /\ Len(y.indexes) = Len(x.indexes) + 1
            /\ \A k \in 1..Len(x.indexes) : y.indexes[k] = x.indexes[k]
            /\ y.indexes[Len(x.indexes) + 1] = id
        <4>1. id \in Nat \cup {NoEvent}
          BY <1>1
        <4> PICK grown : grown = Append(x.indexes, id)
          OBVIOUS
        <4>2. /\ Len(grown) = Len(x.indexes) + 1
              /\ \A k \in 1..Len(x.indexes) : grown[k] = x.indexes[k]
              /\ grown[Len(x.indexes) + 1] = id
          BY <3>1, <4>1, AppendElements
        <4> QED BY <2>4, <4>2
      <3>4. /\ \A k \in 1..(Len(x.indexes) + 1) : k \in 1..Len(x.indexes) \/ k = Len(x.indexes) + 1
            /\ \A k \in 1..(Len(x.old_strings) + 1) :
                  k \in 1..Len(x.old_strings) \/ k = Len(x.old_strings) + 1
            /\ Len(x.old_strings) + 1 <= Len(lines)
        <4>1. Len(x.indexes) \in Nat /\ Len(x.old_strings) \in Nat
          BY <3>1
        <4>2. Len(lines) \in Nat
          OBVIOUS
        <4>3. Len(x.old_strings) + 1 <= Len(lines)
          BY <2>4, <4>1, <4>2
        <4> QED BY <4>1, <4>3, UpToOneMore, Zenon
      <3>5. \A k \in 1..Len(y.old_strings) : y.old_strings[k] = lines[k]
        BY <2>1, <2>4, <3>2, <3>4
      <3>6. \A k \in 1..Len(y.indexes) : \E j \in 1..(n + 1) : y.indexes[k] = fl.indexes[j]
        BY <2>1, <2>2, <3>3, <3>4
      <3> QED BY <3>2, <3>4, <3>5, <3>6
    <2> QED BY <1>6, <2>3, <2>4 DEF StaysOrNot
  <1> QED BY <1>6, <1>7 DEF ComparedRight, AsMany

\* The lines of the filter are the first of some.
IsBeginning(x, lines) ==
    /\ Len(x.old_strings) <= Len(lines)
    /\ \A k \in 1..Len(x.old_strings) : x.old_strings[k] = lines[k]

AllCompared(fl, x, time, lines) ==
    FilterRight(x, {}, time) /\ x.throws = fl.throws /\ IsBeginning(x, lines)

\* When all old lines have been compared, those that are left are the first of the
\* new ones.
LEMMA LinesCompared ==
    ASSUME NEW fl, NEW time \in Nat, NEW lines \in Seq(Lines), FilterRight(fl, {}, time),
           NEW x, x = Compared(fl, time, lines)[Len(fl.old_strings)]
    PROVE  AllCompared(fl, x, time, lines)
  <1> PICK c : c = Compared(fl, time, lines)
    OBVIOUS
  <1> PICK L : L = Len(fl.old_strings)
    OBVIOUS
  <1>1. L \in Nat /\ Len(fl.indexes) = L
    BY DEF FilterRight, IsFilter
  <1>2. /\ c[0] = Cleared(fl)
        /\ \A n \in 1..L : c[n] = CompareLine(c[n - 1], fl.old_strings[n], fl.indexes[n], time, lines)
    <2>1. IsComparison(c, fl, time, lines)
      BY <1>1, ComparedRecursion
    <2> QED BY <2>1 DEF IsComparison
  <1> DEFINE Good == {n \in Nat : n <= L => ComparedRight(fl, c[n], n, time, lines)}
  <1>3. 0 \in Good
    BY <1>2, ComparedFirst
  <1>4. ASSUME NEW n \in Nat, n \in Good PROVE n + 1 \in Good
    <2> SUFFICES ASSUME n + 1 <= L PROVE ComparedRight(fl, c[n + 1], n + 1, time, lines)
      OBVIOUS
    <2>1. n + 1 \in 1..L /\ (n + 1) - 1 = n /\ n < L
      BY <1>1
    <2>2. ComparedRight(fl, c[n], n, time, lines)
      BY <1>1, <1>4, <2>1
    <2>3. c[n + 1] = CompareLine(c[n], fl.old_strings[n + 1], fl.indexes[n + 1], time, lines)
      BY <1>2, <2>1
    <2> QED BY <2>1, <2>2, <2>3, ComparedNext
  <1>5. Nat \subseteq Good
    <2> HIDE DEF Good
    <2> QED BY <1>3, <1>4, SetInduction
  <1>6. ComparedRight(fl, x, L, time, lines)
    BY <1>1, <1>5
  <1>7. Left(fl, L + 1) = {}
    <2>1. \A k \in (L + 1)..Len(fl.indexes) : FALSE
      BY <1>1
    <2> QED BY <2>1 DEF Left
  <1> QED BY <1>6, <1>7 DEF ComparedRight, IsBeginning, AllCompared

-----------------------------------------------------------------------------
(* The loop over the new lines *)

\* A filter to which a line has been added, with the data and the event that it
\* has after that, and what ci_index is then.
LineAdded(a, line, id, e, ci) ==
    [old_strings |-> Append(a.old_strings, line), indexes |-> Append(a.indexes, id),
     ci_index |-> ci, data |-> e, throws |-> a.throws]

\* The event is a new one, or there is none.
Started(a, line, id, e, ci, time) ==
    /\ line \in Lines /\ IsData(e) /\ CellsRight(e)
    /\ \/ id = NoEvent /\ e.events = a.data.events
       \/ /\ id = Len(a.data.events) + 1 /\ IsEvent(line)
          /\ e.events = Append(a.data.events, NewEvent(time, line.loc, line.evt))
    /\ ci \in [CIs -> (Nat \ {0}) \cup {NoEvent}]
    /\ \A c \in CIs : ci[c] = a.ci_index[c] \/ ci[c] = id

\* A line is added to old_strings and indexes, with the event that it has begun.
LEMMA AddedRight ==
    ASSUME NEW a, NEW time \in Times, FilterRight(a, {}, time),
           NEW line, NEW id, NEW e, NEW ci, Started(a, line, id, e, ci, time),
           NEW b, b = LineAdded(a, line, id, e, ci)
    PROVE  FilterRight(b, {}, time)
  <1> PICK old : old = Append(a.old_strings, line)
    OBVIOUS
  <1> PICK indexes : indexes = Append(a.indexes, id)
    OBVIOUS
  <1> PICK L : L = Len(a.indexes)
    OBVIOUS
  <1> PICK N : N = Len(a.data.events)
    OBVIOUS
  <1> PICK events : events = a.data.events
    OBVIOUS
  <1> PICK all : all = e.events
    OBVIOUS
  <1>1. /\ a.old_strings \in Seq(Lines) /\ a.indexes \in Seq(Nat \cup {NoEvent})
        /\ L = Len(a.old_strings) /\ L \in Nat
        /\ events \in Seq(Event) /\ N \in Nat /\ N = Len(events)
        /\ IsData(e) /\ CellsRight(e) /\ line \in Lines
    BY DEF FilterRight, IsFilter, Started, IsData
  <1>2. /\ b = [old_strings |-> b.old_strings, indexes |-> b.indexes, ci_index |-> b.ci_index,
                data |-> b.data, throws |-> b.throws]
        /\ b.old_strings = old /\ b.indexes = indexes
        /\ b.ci_index = ci /\ b.data = e /\ b.throws = a.throws
    BY DEF LineAdded
  <1>3. /\ id \in Nat \cup {NoEvent}
        /\ \A k \in 1..L : a.indexes[k] = id => id = NoEvent
        /\ Len(all) \in Nat /\ N <= Len(all)
        /\ id # NoEvent => /\ id = N + 1 /\ IsEvent(line) /\ Len(all) = N + 1
                           /\ all[N + 1] = NewEvent(time, line.loc, line.evt)
        /\ id = NoEvent => Len(all) = N
        /\ \A n \in 1..N : all[n] = events[n]
    <2>1. CASE id = NoEvent /\ all = events
      BY <1>1, <2>1
    <2>2. CASE id = N + 1 /\ IsEvent(line) /\ all = Append(events, NewEvent(time, line.loc, line.evt))
      <3>1. /\ Len(all) = N + 1 /\ all[N + 1] = NewEvent(time, line.loc, line.evt)
            /\ \A n \in 1..N : all[n] = events[n]
        <4>1. NewEvent(time, line.loc, line.evt) \in Event
          BY <1>1 DEF NewEvent, Event
        <4> QED BY <1>1, <2>2, <4>1, AppendElements
      <3>2. ASSUME NEW k \in 1..L, a.indexes[k] = id PROVE id = NoEvent
        <4>1. a.indexes[k] # NoEvent => a.indexes[k] <= N
          BY <3>2 DEF FilterRight, Numbered
        <4> QED BY <1>1, <2>2, <3>2, <4>1
      <3>3. id # NoEvent
        BY <1>1, <2>2 DEF NoEvent, TD!NoEvent
      <3> QED BY <1>1, <2>2, <3>1, <3>2, <3>3
    <2> QED BY <2>1, <2>2 DEF Started
  <1>4. /\ old \in Seq(Lines) /\ Len(old) = L + 1 /\ old[L + 1] = line
        /\ \A n \in 1..L : old[n] = a.old_strings[n]
    BY <1>1, AppendElements
  <1>5. /\ indexes \in Seq(Nat \cup {NoEvent}) /\ Len(indexes) = L + 1
        /\ indexes[L + 1] = id
        /\ \A n \in 1..L : indexes[n] = a.indexes[n]
    <2>1. id \in Nat \cup {NoEvent} /\ a.indexes \in Seq(Nat \cup {NoEvent}) /\ L = Len(a.indexes)
      BY <1>1, <1>3
    <2> QED BY <2>1, AppendElements
  <1>6. IsFilter(b)
    <2>1. ci \in [CIs -> (Nat \ {0}) \cup {NoEvent}]
      BY DEF Started
    <2> QED BY <1>1, <1>2, <1>4, <1>5, <2>1 DEF IsFilter
  <1>7. \A n \in 1..(L + 1) : n \in 1..L \/ n = L + 1
    BY <1>1
  <1>8. Numbered(b)
    <2>1. ASSUME NEW n \in 1..(L + 1), indexes[n] # NoEvent
          PROVE  indexes[n] \in 1..Len(all) /\ IsEvent(old[n])
      <3>1. CASE n \in 1..L
        <4>1. a.indexes[n] \in 1..N /\ IsEvent(a.old_strings[n])
          BY <1>5, <2>1, <3>1 DEF FilterRight, Numbered
        <4>2. 1..N \subseteq 1..Len(all)
          BY <1>1, <1>3
        <4>3. indexes[n] = a.indexes[n] /\ old[n] = a.old_strings[n]
          BY <1>4, <1>5, <3>1
        <4> QED BY <4>1, <4>2, <4>3
      <3>2. CASE n = L + 1
        BY <1>1, <1>3, <1>4, <1>5, <2>1, <3>2
      <3> QED BY <1>7, <3>1, <3>2
    <2>2. ASSUME NEW m \in 1..(L + 1), NEW n \in 1..(L + 1),
                 indexes[m] = indexes[n], indexes[n] # NoEvent
          PROVE  m = n
      <3>1. CASE m \in 1..L /\ n \in 1..L
        BY <1>5, <2>2, <3>1 DEF FilterRight, Numbered
      <3>2. CASE m \in 1..L /\ n = L + 1
        BY <1>3, <1>5, <2>2, <3>2
      <3>3. CASE m = L + 1 /\ n \in 1..L
        BY <1>3, <1>5, <2>2, <3>3
      <3>4. CASE m = L + 1 /\ n = L + 1
        BY <3>4
      <3> QED BY <1>7, <3>1, <3>2, <3>3, <3>4
    <2>3. ASSUME NEW c \in CIs PROVE ci[c] \in {1, NoEvent} \/ ci[c] <= Len(all)
      <3>1. CASE ci[c] = a.ci_index[c]
        <4>1. a.ci_index[c] \in {1, NoEvent} \/ a.ci_index[c] <= N
          BY DEF FilterRight, Numbered
        <4>2. a.ci_index[c] \in (Nat \ {0}) \cup {NoEvent}
          BY DEF FilterRight, IsFilter
        <4> QED BY <1>1, <1>3, <3>1, <4>1, <4>2 DEF NoEvent, TD!NoEvent
      <3>2. CASE ci[c] = id
        BY <1>1, <1>3, <3>2
      <3> QED BY <3>1, <3>2 DEF Started
    <2>4. \A n \in 1..Len(b.indexes) : b.indexes[n] # NoEvent =>
             b.indexes[n] \in 1..Len(b.data.events) /\ IsEvent(b.old_strings[n])
      BY <1>2, <1>5, <2>1
    <2>5. \A m, n \in 1..Len(b.indexes) :
             b.indexes[m] = b.indexes[n] /\ b.indexes[n] # NoEvent => m = n
      BY <1>2, <1>5, <2>2
    <2> QED BY <1>2, <2>3, <2>4, <2>5 DEF Numbered
  <1>9. OpenRight(all, indexes, {}, time)
    <2>1. OpenRight(events, a.indexes, {}, time)
      BY DEF FilterRight
    <2>2. ASSUME NEW n \in 1..N
          PROVE  /\ all[n].end = TD!Open <=> \E k \in 1..(L + 1) : indexes[k] = n
                 /\ all[n].end = TD!Open => all[n].start <= time
                 /\ all[n].end # TD!Open => all[n].start <= all[n].end
      <3>1. all[n] = events[n] /\ n # id
        BY <1>1, <1>3 DEF NoEvent, TD!NoEvent
      <3>2. (\E k \in 1..L : a.indexes[k] = n) <=> \E k \in 1..(L + 1) : indexes[k] = n
        <4>1. 1..L \subseteq 1..(L + 1)
          BY <1>1
        <4> QED BY <1>5, <1>7, <3>1, <4>1
      <3> QED BY <2>1, <3>1, <3>2 DEF OpenRight
    <2>3. ASSUME id # NoEvent
          PROVE  /\ all[N + 1].end = TD!Open /\ all[N + 1].start <= time
                 /\ \E k \in 1..(L + 1) : indexes[k] = N + 1
      <3>1. all[N + 1].end = TD!Open /\ all[N + 1].start = time
        BY <1>3, <2>3 DEF NewEvent
      <3>2. L + 1 \in 1..(L + 1) /\ indexes[L + 1] = N + 1
        BY <1>1, <1>3, <1>5, <2>3
      <3> QED BY <3>1, <3>2, TimesNatural
    <2>4. ASSUME NEW n \in 1..Len(all) PROVE n \in 1..N \/ (id # NoEvent /\ n = N + 1)
      BY <1>1, <1>3
    <2> QED BY <1>5, <2>2, <2>3, <2>4 DEF OpenRight
  <1> QED BY <1>2, <1>6, <1>8, <1>9 DEF FilterRight

\* A new line is added, or the program ends.
LineTaken(a, b, line, time) ==
    \/ b.throws
    \/ /\ FilterRight(b, {}, time) /\ ~b.throws
       /\ b.old_strings = Append(a.old_strings, line)

\* processLine() of a new line keeps the filter right, or throws.
LEMMA NewLineRight ==
    ASSUME NEW a, NEW time \in Times, FilterRight(a, {}, time), ~a.throws,
           NEW line \in Lines, NEW b, b = NewLine(a, line, time)
    PROVE  LineTaken(a, b, line, time)
  <1> PICK d : d = a.data
    OBVIOUS
  <1>1. /\ a = [old_strings |-> a.old_strings, indexes |-> a.indexes, ci_index |-> a.ci_index,
                data |-> a.data, throws |-> a.throws]
        /\ IsData(d) /\ CellsRight(d)
        /\ a.ci_index \in [CIs -> (Nat \ {0}) \cup {NoEvent}]
    BY DEF FilterRight, IsFilter
  <1> PICK started : started = IF line.kind = "S"
          THEN TD!startSingleEvent(d, add_duplicate_events, time, line.loc, line.evt)
          ELSE TD!startGroupEvent(d, add_duplicate_events, time, line.loc, line.evt)
    OBVIOUS
  <1> PICK group : group = a.ci_index[line.ci]
    OBVIOUS
  <1>2. ASSUME NEW id, NEW e, NEW ci, Started(a, line, id, e, ci, time),
               b = LineAdded(a, line, id, e, ci)
        PROVE  LineTaken(a, b, line, time)
    <2>1. FilterRight(b, {}, time)
      BY <1>2, AddedRight
    <2>2. b.throws = a.throws /\ b.old_strings = Append(a.old_strings, line)
      BY <1>2 DEF LineAdded
    <2> QED BY <2>1, <2>2 DEF LineTaken
  <1>3. CASE IsEvent(line) /\ NotInGrid(line.loc)
    <2>1. b = [a EXCEPT !.throws = TRUE]
      <3>1. line.kind # "GS"
        BY <1>3 DEF IsEvent
      <3> QED BY <1>3, <3>1 DEF NewLine
    <2>2. b.throws
      BY <1>1, <2>1
    <2> QED BY <2>2 DEF LineTaken
  <1>4. CASE IsEvent(line) /\ ~NotInGrid(line.loc)
    <2> PICK ci : ci = IF line.kind = "GF" THEN [a.ci_index EXCEPT ![line.ci] = started.id]
                       ELSE a.ci_index
      OBVIOUS
    <2>1. b = LineAdded(a, line, started.id, started.data, ci)
      <3>1. b = [a EXCEPT !.old_strings = Append(@, line), !.data = started.data,
                          !.indexes = Index(a, line, started.id), !.ci_index = ci]
        <4>1. line.kind # "GS"
          BY <1>4 DEF IsEvent
        <4> QED BY <1>4, <4>1 DEF NewLine
      <3> QED BY <1>1, <3>1 DEF LineAdded, Index
    <2>2. grid_ids[line.loc] \in Cells \cup {NoCell} /\ line.loc \in Locs /\ line.evt \in Evts
      BY <1>4 DEF NotInGrid, Locs, Evts
    <2>3. StartedRight(d, started, NewEvent(time, line.loc, line.evt))
      <3>1. CASE line.kind = "S"
        <4>1. started = TD!startSingleEvent(d, add_duplicate_events, time, line.loc, line.evt)
          BY <3>1
        <4> QED BY <1>1, <2>2, <4>1, SingleStarted
      <3>2. CASE line.kind # "S"
        <4>1. started = TD!startGroupEvent(d, add_duplicate_events, time, line.loc, line.evt)
          BY <3>2
        <4> QED BY <1>1, <2>2, <4>1, GroupStarted
      <3> QED BY <3>1, <3>2
    <2>4. Started(a, line, started.id, started.data, ci, time)
      <3>1. /\ IsData(started.data) /\ CellsRight(started.data)
            /\ \/ started.id = NoEvent /\ started.data = d
               \/ /\ started.id = Len(d.events) + 1
                  /\ started.data.events = Append(d.events, NewEvent(time, line.loc, line.evt))
        BY <2>3 DEF StartedRight
      <3>2. started.id \in (Nat \ {0}) \cup {NoEvent}
        <4>1. Len(d.events) \in Nat
          BY <1>1 DEF IsData
        <4> QED BY <3>1, <4>1
      <3>3. /\ ci \in [CIs -> (Nat \ {0}) \cup {NoEvent}]
            /\ \A c \in CIs : ci[c] = a.ci_index[c] \/ ci[c] = started.id
        BY <1>1, <3>2
      <3> QED BY <1>4, <3>1, <3>3 DEF Started
    <2> QED BY <1>2, <2>1, <2>4
  <1>5. CASE ~IsEvent(line) /\ line.kind = "GS" /\ ~dropGFData
    <2>1. group \in (Nat \ {0}) \cup {NoEvent}
      BY <1>1, <1>5, LinesAssumption
    <2>2. CASE TD!HasInfo(d, group)
      <3> PICK e : e = TD!addGroupEventInfo(d, group, line.what)
        OBVIOUS
      <3>1. b = LineAdded(a, line, NoEvent, e, a.ci_index)
        <4>1. b = [a EXCEPT !.old_strings = Append(@, line), !.data = e,
                            !.indexes = Index(a, line, NoEvent)]
          BY <1>5, <2>2 DEF NewLine
        <4> QED BY <1>1, <4>1 DEF LineAdded, Index
      <3>2. IsData(e) /\ CellsRight(e) /\ e.events = d.events
        <4>1. line.what \in What
          BY DEF What
        <4> QED BY <1>1, <2>1, <2>2, <4>1, InfoAdded
      <3>3. Started(a, line, NoEvent, e, a.ci_index, time)
        BY <1>1, <3>2 DEF Started
      <3> QED BY <1>2, <3>1, <3>3
    <2>3. CASE ~TD!HasInfo(d, group)
      <3>1. b = [a EXCEPT !.throws = TRUE]
        BY <1>5, <2>3 DEF NewLine
      <3>2. b.throws
        BY <1>1, <3>1
      <3> QED BY <3>2 DEF LineTaken
    <2> QED BY <2>2, <2>3
  <1>6. CASE ~IsEvent(line) /\ ~(line.kind = "GS" /\ ~dropGFData)
    <2>1. b = LineAdded(a, line, NoEvent, d, a.ci_index)
      <3>1. b = [a EXCEPT !.old_strings = Append(@, line), !.indexes = Index(a, line, NoEvent)]
        BY <1>6 DEF NewLine
      <3> QED BY <1>1, <3>1 DEF LineAdded, Index
    <2>2. Started(a, line, NoEvent, d, a.ci_index, time)
      BY <1>1 DEF Started
    <2> QED BY <1>2, <2>1, <2>2
  <1> QED BY <1>3, <1>4, <1>5, <1>6

\* Sums of naturals.
LEMMA OneFurther ==
    ASSUME NEW m \in Nat, NEW n \in Nat
    PROVE  m + n \in Nat /\ m <= m + n /\ m + (n + 1) = (m + n) + 1
  OBVIOUS

\* Added is a recursive function.
IsAddition(added, fl, time, lines) ==
    /\ added[Len(fl.old_strings)] = fl
    /\ \A n \in (Len(fl.old_strings) + 1)..Len(lines) :
          added[n] = IF added[n - 1].throws THEN added[n - 1]
                     ELSE NewLine(added[n - 1], lines[n], time)

\* The filter after each of the new lines follows from that after the one before.
LEMMA AddedRecursion ==
    ASSUME NEW fl, NEW time, NEW lines, Len(fl.old_strings) \in Nat, Len(lines) \in Nat,
           Len(fl.old_strings) <= Len(lines)
    PROVE  IsAddition(Added(fl, time, lines), fl, time, lines)
  <1> PICK m : m = Len(fl.old_strings)
    OBVIOUS
  <1> DEFINE Step(g, u) == [k \in m..u |->
                 IF k = m THEN fl
                 ELSE IF g[k - 1].throws THEN g[k - 1] ELSE NewLine(g[k - 1], lines[k], time)]
             Good == {n \in Nat : \E g : g = Step(g, m + n)}
             added == Added(fl, time, lines)
  <1>0. m \in Nat /\ m <= Len(lines)
    OBVIOUS
  <1>1. 0 \in Good
    <2> DEFINE e == [k \in m..(m + 0) |-> fl]
    <2>1. e = Step(e, m + 0)
      <3>1. \A k \in m..(m + 0) : k = m
        BY <1>0
      <3> QED BY <3>1
    <2> HIDE DEF e, Step
    <2> QED BY <2>1
  <1>2. ASSUME NEW n \in Nat, n \in Good PROVE n + 1 \in Good
    <2> PICK u : u = m + n
      OBVIOUS
    <2>0. u \in Nat /\ m <= u /\ m + (n + 1) = u + 1
      <3>1. n \in Nat /\ m \in Nat
        BY <1>0, <1>2
      <3> QED BY <3>1, OneFurther
    <2>1. PICK g : g = Step(g, u)
      <3> HIDE DEF Step
      <3> QED BY <1>2
    <2>2. PICK new : new = IF g[u].throws THEN g[u] ELSE NewLine(g[u], lines[u + 1], time)
      OBVIOUS
    <2> DEFINE h == [k \in m..(u + 1) |-> IF k = u + 1 THEN new ELSE g[k]]
    <2>3. ASSUME NEW k \in m..(u + 1)
          PROVE  h[k] = IF k = m THEN fl
                        ELSE IF h[k - 1].throws THEN h[k - 1]
                             ELSE NewLine(h[k - 1], lines[k], time)
      <3>1. CASE k = u + 1
        <4>1. k - 1 = u /\ k # m /\ u \in m..(u + 1) /\ u # u + 1
          BY <1>0, <2>0, <3>1
        <4>2. h[k] = new /\ h[k - 1] = g[u]
          BY <3>1, <4>1
        <4> HIDE DEF h
        <4> QED BY <2>2, <3>1, <4>1, <4>2
      <3>2. CASE k # u + 1
        <4>1. k \in m..u /\ (k # m => k - 1 \in m..(u + 1) /\ k - 1 # u + 1)
          BY <1>0, <2>0, <3>2
        <4>2. h[k] = g[k] /\ (k # m => h[k - 1] = g[k - 1])
          BY <3>2, <4>1
        <4>3. g[k] = IF k = m THEN fl
                     ELSE IF g[k - 1].throws THEN g[k - 1]
                          ELSE NewLine(g[k - 1], lines[k], time)
          BY <2>1, <4>1
        <4> HIDE DEF h
        <4> QED BY <4>2, <4>3
      <3> QED BY <3>1, <3>2
    <2>4. h = [k \in m..(u + 1) |-> h[k]]
      OBVIOUS
    <2>5. h = Step(h, u + 1)
      <3> HIDE DEF h
      <3> QED BY <2>3, <2>4
    <2> HIDE DEF h, Step
    <2> QED BY <2>0, <2>5
  <1>3. Nat \subseteq Good
    <2> HIDE DEF Good
    <2> QED BY <1>1, <1>2, SetInduction
  <1> PICK K : K = Len(lines) - m
    OBVIOUS
  <1>4. K \in Good /\ m + K = Len(lines)
    <2>1. K \in Nat /\ m + K = Len(lines)
      BY <1>0
    <2> HIDE DEF Good
    <2> QED BY <1>3, <2>1
  <1>5. added = CHOOSE g : g = Step(g, Len(lines))
    BY DEF Added
  <1>6. added = Step(added, Len(lines))
    <2>1. \E g : g = Step(g, Len(lines))
      <3> HIDE DEF Step
      <3> QED BY <1>4
    <2> HIDE DEF Step, added
    <2> QED BY <1>5, <2>1
  <1> PICK c : c = added
    OBVIOUS
  <1>7. \A k \in m..Len(lines) :
           c[k] = IF k = m THEN fl
                  ELSE IF c[k - 1].throws THEN c[k - 1] ELSE NewLine(c[k - 1], lines[k], time)
    <2> HIDE DEF added
    <2> QED BY <1>6
  <1>8. c[m] = fl
    <2>1. m \in m..Len(lines)
      BY <1>0
    <2> QED BY <1>7, <2>1
  <1>9. ASSUME NEW n \in (m + 1)..Len(lines)
        PROVE  c[n] = IF c[n - 1].throws THEN c[n - 1] ELSE NewLine(c[n - 1], lines[n], time)
    <2>1. n \in m..Len(lines) /\ n # m
      BY <1>0, <1>9
    <2> QED BY <1>7, <2>1
  <1> QED BY <1>8, <1>9 DEF IsAddition

\* The filter when the lines up to one have been added.
UpTo(x, n, time, lines) ==
    \/ x.throws
    \/ /\ FilterRight(x, {}, time) /\ ~x.throws
       /\ Len(x.old_strings) = n
       /\ \A k \in 1..n : x.old_strings[k] = lines[k]

\* After one new line more.
LEMMA UpToNext ==
    ASSUME NEW time \in Times, NEW lines \in Seq(Lines), NEW n \in 0..Len(lines), n < Len(lines),
           NEW x, UpTo(x, n, time, lines), ~x.throws,
           NEW y, y = NewLine(x, lines[n + 1], time)
    PROVE  UpTo(y, n + 1, time, lines)
  <1> PICK line : line = lines[n + 1]
    OBVIOUS
  <1>1. line \in Lines
    OBVIOUS
  <1>2. FilterRight(x, {}, time)
    BY DEF UpTo
  <1>3. LineTaken(x, y, line, time)
    BY <1>1, <1>2, NewLineRight
  <1>4. CASE y.throws
    BY <1>4 DEF UpTo
  <1>5. CASE ~y.throws
    <2>1. FilterRight(y, {}, time) /\ y.old_strings = Append(x.old_strings, line)
      BY <1>3, <1>5 DEF LineTaken
    <2>2. /\ x.old_strings \in Seq(Lines) /\ Len(x.old_strings) = n
          /\ \A k \in 1..n : x.old_strings[k] = lines[k]
      BY DEF UpTo, FilterRight, IsFilter
    <2>3. /\ Len(y.old_strings) = n + 1 /\ y.old_strings[n + 1] = line
          /\ \A k \in 1..n : y.old_strings[k] = x.old_strings[k]
      BY <1>1, <2>1, <2>2, AppendElements
    <2>4. \A k \in 1..(n + 1) : y.old_strings[k] = lines[k]
      <3>1. \A k \in 1..(n + 1) : k \in 1..n \/ k = n + 1
        OBVIOUS
      <3> QED BY <2>2, <2>3, <3>1
    <2> QED BY <1>5, <2>1, <2>3, <2>4 DEF UpTo
  <1> QED BY <1>4, <1>5

\* TmcFilter::addChunk(): after a chunk the filter has its lines, or the program has
\* ended.
ChunkTaken(x, time, lines) ==
    \/ x.throws
    \/ FilterRight(x, {}, time) /\ ~x.throws /\ x.old_strings = lines

\* addChunk(): the filter is right and has the lines of the list, or throws.
LEMMA ChunkRight ==
    ASSUME NEW t \in Nat, NEW time \in Times, t <= time, NEW lines \in Seq(Lines),
           NEW fl, FilterRight(fl, {}, t), ~fl.throws
    PROVE  ChunkTaken(addChunk(fl, time, lines), time, lines)
  <1> time \in Nat
    BY TimesNatural
  <1> PICK x : x = Compared(fl, time, lines)[Len(fl.old_strings)]
    OBVIOUS
  <1> PICK m : m = Len(x.old_strings)
    OBVIOUS
  <1> PICK K : K = Len(lines)
    OBVIOUS
  <1>1. /\ FilterRight(x, {}, time) /\ x.throws = fl.throws
        /\ m <= K /\ \A k \in 1..m : x.old_strings[k] = lines[k]
    <2>1. FilterRight(fl, {}, time)
      BY LaterRight
    <2>2. AllCompared(fl, x, time, lines)
      BY <2>1, LinesCompared
    <2> QED BY <2>2 DEF AllCompared, IsBeginning
  <1>2. m \in Nat /\ K \in Nat /\ ~x.throws
    BY <1>1 DEF FilterRight, IsFilter
  <1> PICK c : c = Added(x, time, lines)
    OBVIOUS
  <1>3. IsAddition(c, x, time, lines)
    BY <1>1, <1>2, AddedRecursion
  <1>4. /\ c[m] = x
        /\ \A n \in (m + 1)..K :
              c[n] = IF c[n - 1].throws THEN c[n - 1] ELSE NewLine(c[n - 1], lines[n], time)
    BY <1>3 DEF IsAddition
  <1> DEFINE Good == {n \in Nat : m + n <= K => UpTo(c[m + n], m + n, time, lines)}
  <1>5. 0 \in Good
    <2>1. m + 0 = m
      BY <1>2
    <2> QED BY <1>1, <1>2, <1>4, <2>1 DEF UpTo
  <1>6. ASSUME NEW n \in Nat, n \in Good PROVE n + 1 \in Good
    <2> PICK i : i = m + n
      OBVIOUS
    <2>7. n \in Nat /\ m \in Nat
      BY <1>2, <1>6
    <2>6. m + (n + 1) = i + 1 /\ i \in Nat /\ m <= i
      BY <2>7, OneFurther
    <2> SUFFICES ASSUME i + 1 <= K PROVE UpTo(c[i + 1], i + 1, time, lines)
      BY <2>6
    <2>1. i + 1 \in (m + 1)..K /\ (i + 1) - 1 = i /\ i < K /\ i \in 0..K
      BY <1>2, <2>6
    <2>2. UpTo(c[i], i, time, lines)
      BY <1>6, <1>2, <2>1, <2>6
    <2>3. c[i + 1] = IF c[i].throws THEN c[i] ELSE NewLine(c[i], lines[i + 1], time)
      BY <1>4, <2>1
    <2>4. CASE c[i].throws
      BY <2>1, <2>3, <2>4 DEF UpTo
    <2>5. CASE ~c[i].throws
      <3>1. c[i + 1] = NewLine(c[i], lines[i + 1], time)
        BY <2>3, <2>5
      <3>2. UpTo(c[i + 1], i + 1, time, lines)
        BY <2>1, <2>2, <2>5, <3>1, UpToNext
      <3> QED BY <3>2
    <2> QED BY <2>4, <2>5
  <1>7. Nat \subseteq Good
    <2> HIDE DEF Good
    <2> QED BY <1>5, <1>6, SetInduction
  <1>8. UpTo(c[K], K, time, lines)
    <2>1. K - m \in Nat /\ m + (K - m) = K /\ m + (K - m) <= K
      BY <1>1, <1>2
    <2>2. K - m \in Good
      <3> HIDE DEF Good
      <3> QED BY <1>7, <2>1
    <2> QED BY <2>1, <2>2
  <1>9. addChunk(fl, time, lines) = c[K]
    BY DEF addChunk
  <1>10. c[K].throws \/ c[K].old_strings = lines
    <2>1. ASSUME ~c[K].throws PROVE c[K].old_strings = lines
      <3>1. /\ c[K].old_strings \in Seq(Lines) /\ Len(c[K].old_strings) = K
            /\ \A k \in 1..K : c[K].old_strings[k] = lines[k]
        BY <1>8, <2>1 DEF UpTo, FilterRight, IsFilter
      <3> QED BY <3>1
    <2> QED BY <2>1
  <1> QED BY <1>8, <1>9, <1>10 DEF ChunkTaken, UpTo

\* No line is left, and no event is open.
Ended(x, time) == FilterRight(x, {}, time) /\ ~x.throws /\ x.indexes = <<>>

\* The data is as that of an import that begins.
IsSaved(d) == FilterRight(NewFilter(d), {}, 0) /\ ~NewFilter(d).throws

\* The end of a log: all lines have gone.
LEMMA EndRight ==
    ASSUME NEW t \in Nat, NEW time \in Nat, t <= time,
           NEW fl, FilterRight(fl, {}, t), ~fl.throws,
           NEW none \in Seq(Lines), Len(none) = 0, NEW x, x = addChunk(fl, time, none)
    PROVE  Ended(x, time)
  <1> PICK y : y = Compared(fl, time, none)[Len(fl.old_strings)]
    OBVIOUS
  <1>2. FilterRight(y, {}, time) /\ y.throws = fl.throws /\ Len(y.old_strings) <= 0
    <2>1. FilterRight(fl, {}, time)
      BY LaterRight
    <2>2. AllCompared(fl, y, time, none)
      BY <2>1, LinesCompared
    <2> QED BY <2>2 DEF AllCompared, IsBeginning
  <1>3. Len(y.old_strings) = 0 /\ y.indexes \in Seq(Nat \cup {NoEvent}) /\ Len(y.indexes) = 0
    BY <1>2 DEF FilterRight, IsFilter
  <1>4. y.indexes = <<>>
    BY <1>3
  <1> PICK c : c = Added(y, time, none)
    OBVIOUS
  <1>5. IsAddition(c, y, time, none)
    BY <1>3, AddedRecursion
  <1>6. x = c[0] /\ c[0] = y
    BY <1>3, <1>5 DEF addChunk, IsAddition
  <1> QED BY <1>2, <1>4, <1>6 DEF Ended

\* What is saved.
LEMMA SavedRight ==
    ASSUME NEW x, NEW time, Ended(x, time), NEW d, d = TD!generateHourIndex(x.data)
    PROVE  IsSaved(d)
  <1>1. d = [x.data EXCEPT !.hour_index = TD!RunsOfHours(x.data)]
    BY DEF TD!generateHourIndex
  <1>2. /\ d = [events |-> d.events, info |-> d.info, grid |-> d.grid,
                hour_index |-> d.hour_index, min_date |-> d.min_date, max_date |-> d.max_date]
        /\ d.events = x.data.events /\ d.info = x.data.info /\ d.grid = x.data.grid
    BY <1>1 DEF Ended, FilterRight, IsFilter, IsData
  <1>3. IsData(d) /\ CellsRight(d)
    BY <1>2 DEF Ended, FilterRight, IsFilter, IsData, CellsRight
  <1> PICK fl : fl = NewFilter(d)
    OBVIOUS
  <1>4. /\ fl = [old_strings |-> fl.old_strings, indexes |-> fl.indexes, ci_index |-> fl.ci_index,
                 data |-> fl.data, throws |-> fl.throws]
        /\ fl.old_strings = <<>> /\ fl.indexes = <<>> /\ fl.ci_index = [ci \in CIs |-> 1]
        /\ fl.data = d /\ fl.throws = FALSE
    BY DEF NewFilter
  <1>5. /\ <<>> \in Seq(Lines) /\ <<>> \in Seq(Nat \cup {NoEvent}) /\ Len(<<>>) = 0
        /\ [ci \in CIs |-> 1] \in [CIs -> (Nat \ {0}) \cup {NoEvent}]
    OBVIOUS
  <1>6. IsFilter(fl)
    BY <1>3, <1>4, <1>5 DEF IsFilter
  <1>7. Numbered(fl)
    <2>1. \A n \in 1..Len(fl.indexes) : FALSE
      BY <1>4
    <2>2. \A ci \in CIs : fl.ci_index[ci] = 1
      BY <1>4
    <2> QED BY <2>1, <2>2 DEF Numbered
  <1>8. OpenRight(d.events, <<>>, {}, 0)
    <2>1. OpenRight(x.data.events, <<>>, {}, time)
      BY DEF Ended, FilterRight
    <2>2. \A k \in 1..Len(<<>>) : FALSE
      OBVIOUS
    <2> QED BY <1>2, <2>1, <2>2 DEF OpenRight
  <1>9. FilterRight(fl, {}, 0) /\ ~fl.throws
    BY <1>4, <1>6, <1>7, <1>8 DEF FilterRight
  <1> QED BY <1>9 DEF IsSaved

\* At first there are no events.
LEMMA NoDataRight == IsSaved(TD!NewData)
  <1> PICK d : d = TD!NewData
    OBVIOUS
  <1>1. /\ d = [events |-> d.events, info |-> d.info, grid |-> d.grid,
                hour_index |-> d.hour_index, min_date |-> d.min_date, max_date |-> d.max_date]
        /\ d.events = <<>> /\ d.info = <<>> /\ d.grid = [c \in Cells |-> <<>>]
    BY DEF TD!NewData
  <1>2. /\ <<>> \in Seq(Event) /\ <<>> \in Seq(Seq(What)) /\ <<>> \in Seq(Nat) /\ Len(<<>>) = 0
        /\ <<>> \in Seq(Lines) /\ <<>> \in Seq(Nat \cup {NoEvent})
        /\ \A k \in 1..Len(<<>>) : FALSE
    OBVIOUS
  <1>3. IsData(d)
    BY <1>1, <1>2 DEF IsData
  <1>4. CellsRight(d)
    <2>1. ASSUME NEW c \in Cells PROVE CellRight(d.events, d.grid[c], c)
      <3>1. d.grid[c] = <<>>
        BY <1>1, <2>1
      <3> QED BY <1>1, <1>2, <3>1 DEF CellRight
    <2> QED BY <2>1 DEF CellsRight
  <1> PICK fl : fl = NewFilter(d)
    OBVIOUS
  <1>5. /\ fl = [old_strings |-> fl.old_strings, indexes |-> fl.indexes, ci_index |-> fl.ci_index,
                 data |-> fl.data, throws |-> fl.throws]
        /\ fl.old_strings = <<>> /\ fl.indexes = <<>> /\ fl.ci_index = [ci \in CIs |-> 1]
        /\ fl.data = d /\ fl.throws = FALSE
    BY DEF NewFilter
  <1>6. IsFilter(fl)
    <2>1. [ci \in CIs |-> 1] \in [CIs -> (Nat \ {0}) \cup {NoEvent}]
      OBVIOUS
    <2> QED BY <1>2, <1>3, <1>4, <1>5, <2>1 DEF IsFilter
  <1>7. Numbered(fl)
    <2>1. \A n \in 1..Len(fl.indexes) : FALSE
      BY <1>5
    <2>2. \A ci \in CIs : fl.ci_index[ci] = 1
      BY <1>5
    <2> QED BY <2>1, <2>2 DEF Numbered
  <1>8. OpenRight(fl.data.events, fl.indexes, {}, 0)
    <2>1. \A n \in 1..Len(fl.data.events) : FALSE
      BY <1>1, <1>5
    <2> QED BY <2>1 DEF OpenRight
  <1> QED BY <1>5, <1>6, <1>7, <1>8 DEF FilterRight, IsSaved

-----------------------------------------------------------------------------
(* Logs *)

Record == [kind : {"tmc", "dup", "cut"}, time : Times, lines : Seq(Lines)]

\* The records of a log, or the rest of them, in the order of their times, which lie
\* between two others.
InOrder(records, from, to) ==
    /\ records \in Seq(Record)
    /\ \A n \in 1..Len(records) : from <= records[n].time /\ records[n].time <= to
    /\ \A m, n \in 1..Len(records) : m < n => records[m].time <= records[n].time

\* A record behind the others.
LEMMA RecordAppended ==
    ASSUME NEW from \in Nat, NEW to \in Nat, NEW records, InOrder(records, from, to),
           NEW r \in Record, from <= to, to <= r.time
    PROVE  InOrder(Append(records, r), from, r.time)
  <1> PICK s : s = Append(records, r)
    OBVIOUS
  <1> PICK L : L = Len(records)
    OBVIOUS
  <1>1. records \in Seq(Record) /\ L \in Nat /\ r.time \in Nat
    <2>1. r.time \in Times
      BY DEF Record
    <2>2. r.time \in Nat
      BY <2>1, TimesNatural, Zenon
    <2> QED BY <2>2 DEF InOrder
  <1>2. /\ s \in Seq(Record) /\ Len(s) = L + 1 /\ s[L + 1] = r
        /\ \A n \in 1..L : s[n] = records[n]
    BY <1>1, AppendElements
  <1>3. \A n \in 1..L : records[n].time \in Nat
    <2>1. ASSUME NEW n \in 1..L PROVE records[n].time \in Nat
      <3>1. records[n] \in Record
        BY <1>1, <2>1
      <3> QED BY <3>1, TimesNatural DEF Record
    <2> QED BY <2>1
  <1>4. \A n \in 1..(L + 1) : n \in 1..L \/ n = L + 1
    BY <1>1
  <1>5. ASSUME NEW n \in 1..(L + 1) PROVE from <= s[n].time /\ s[n].time <= r.time
    <2>1. CASE n \in 1..L
      <3>1. from <= records[n].time /\ records[n].time <= to /\ records[n].time \in Nat
        BY <1>3, <2>1 DEF InOrder
      <3>2. s[n].time = records[n].time
        BY <1>2, <2>1
      <3> QED BY <1>1, <3>1, <3>2
    <2>2. CASE n = L + 1
      BY <1>1, <1>2, <2>2
    <2> QED BY <1>4, <2>1, <2>2
  <1>6. ASSUME NEW m \in 1..(L + 1), NEW n \in 1..(L + 1), m < n PROVE s[m].time <= s[n].time
    <2>1. m \in 1..L
      BY <1>1, <1>6
    <2>2. CASE n \in 1..L
      <3>1. records[m].time <= records[n].time
        BY <1>6, <2>1, <2>2 DEF InOrder
      <3> QED BY <1>2, <2>1, <2>2, <3>1
    <2>3. CASE n = L + 1
      BY <1>2, <1>5, <2>3
    <2> QED BY <1>4, <2>2, <2>3
  <1> QED BY <1>2, <1>5, <1>6 DEF InOrder

\* What getChunk() skips.
LEMMA SkippedRange ==
    ASSUME NEW records \in Seq(Record), records # <<>>
    PROVE  /\ Skipped(records) \in 1..Len(records)
           /\ \A n \in 2..Skipped(records) : records[n].kind = "dup"
           /\ Skipped(records) < Len(records) => records[Skipped(records) + 1].kind # "dup"
  <1> PICK L : L = Len(records)
    OBVIOUS
  <1>1. L \in Nat \ {0}
    OBVIOUS
  <1> PICK later : later = {n \in 2..L : records[n].kind # "dup"}
    OBVIOUS
  <1>2. CASE later = {}
    <2>1. Skipped(records) = L
      BY <1>2 DEF Skipped
    <2>2. ASSUME NEW n \in 2..L PROVE records[n].kind = "dup"
      BY <1>2, <2>2
    <2> QED BY <1>1, <2>1, <2>2
  <1>3. CASE later # {}
    <2> PICK m : m = Min(later)
      OBVIOUS
    <2>1. m \in later /\ \A n \in later : m <= n
      <3>1. later \subseteq Nat
        OBVIOUS
      <3> QED BY <1>3, <3>1, LeastMember
    <2>2. Skipped(records) = m - 1
      BY <1>3 DEF Skipped
    <2>3. m \in 2..L /\ records[m].kind # "dup"
      BY <2>1
    <2>4. ASSUME NEW n \in 2..(m - 1) PROVE records[n].kind = "dup"
      <3>1. n \in 2..L /\ ~(m <= n)
        BY <2>3, <2>4
      <3> QED BY <2>1, <3>1
    <2>5. m - 1 \in 1..L /\ (m - 1) + 1 = m
      BY <2>3
    <2> QED BY <2>2, <2>3, <2>4, <2>5
  <1> QED BY <1>2, <1>3

\* The rest of a log behind some records.
IsRest(s, records, k) ==
    /\ Len(s) = Len(records) - k
    /\ \A n \in 1..(Len(records) - k) : s[n] = records[n + k]

\* The records behind a chunk.
LEMMA RestInOrder ==
    ASSUME NEW from \in Nat, NEW to \in Nat, NEW records, InOrder(records, from, to),
           NEW k \in 1..Len(records),
           NEW s, s = SubSeq(records, k + 1, Len(records))
    PROVE  InOrder(s, records[1].time, to) /\ IsRest(s, records, k)
  <1> PICK L : L = Len(records)
    OBVIOUS
  <1>1. records \in Seq(Record) /\ L \in Nat
    BY DEF InOrder
  <1>2. /\ s \in Seq(Record) /\ Len(s) = L - k
        /\ \A n \in 1..(L - k) : s[n] = records[n + k]
    <2>1. CASE k = L
      BY <1>1, <2>1
    <2>2. CASE k # L
      BY <1>1, <2>2
    <2> QED BY <2>1, <2>2
  <1>3. ASSUME NEW n \in 1..(L - k)
        PROVE  records[1].time <= s[n].time /\ s[n].time <= to
    <2>1. n + k \in 1..L /\ 1 \in 1..L /\ 1 < n + k
      BY <1>1, <1>3
    <2>2. records[1].time <= records[n + k].time /\ records[n + k].time <= to
      BY <2>1 DEF InOrder
    <2> QED BY <1>2, <2>2
  <1>4. ASSUME NEW m \in 1..(L - k), NEW n \in 1..(L - k), m < n PROVE s[m].time <= s[n].time
    <2>1. m + k \in 1..L /\ n + k \in 1..L /\ m + k < n + k
      BY <1>1, <1>4
    <2>2. records[m + k].time <= records[n + k].time
      BY <2>1 DEF InOrder
    <2> QED BY <1>2, <2>2
  <1> QED BY <1>2, <1>3, <1>4 DEF InOrder, IsRest

-----------------------------------------------------------------------------
(* The invariant *)

LogsRight ==
    /\ now \in Nat
    /\ log \in [Files -> Seq(Record)]
    /\ \A f \in Files : InOrder(log[f], 0, now)

\* The filter has been led up to the time of the last header, and the records that
\* are left are not before it.
ImportRight ==
    /\ source \in Files \cup {NoFile}
    /\ header \in Nat
    /\ FilterRight(filter, {}, header) /\ ~filter.throws
    /\ \E to \in Nat : InOrder(rest, header, to)
    /\ IsSaved(data_file)

ImpInv == LogsRight /\ ImportRight

\* At first there is nothing.
LEMMA ImpInvInit == Init => ImpInv
  <1> SUFFICES ASSUME Init PROVE ImpInv
    OBVIOUS
  <1>1. \A from, to : InOrder(<<>>, from, to)
    <2>1. <<>> \in Seq(Record) /\ \A n \in 1..Len(<<>>) : FALSE
      OBVIOUS
    <2> QED BY <2>1 DEF InOrder
  <1>2. LogsRight
    <2>1. now = 0 /\ log = [f \in Files |-> <<>>]
      BY DEF Init, LogInit
    <2>2. log \in [Files -> Seq(Record)] /\ \A f \in Files : log[f] = <<>>
      BY <2>1
    <2> QED BY <1>1, <2>1, <2>2 DEF LogsRight
  <1>3. IsSaved(data_file) /\ filter = NewFilter(data_file) /\ source = NoFile /\ header = 0
        /\ rest = <<>>
    BY NoDataRight DEF Init
  <1>4. 0 \in Nat
    OBVIOUS
  <1> QED BY <1>1, <1>2, <1>3, <1>4 DEF ImpInv, ImportRight, IsSaved

\* A record is written behind the others.
LEMMA WrittenRight ==
    ASSUME LogsRight, NEW f \in Files, NEW r \in Record, now <= r.time, now' = r.time,
           log' = [log EXCEPT ![f] = Append(@, r)]
    PROVE  LogsRight'
  <1>1. /\ now \in Nat /\ log \in [Files -> Seq(Record)] /\ r.time \in Nat
        /\ \A g \in Files : InOrder(log[g], 0, now)
    BY TimesNatural DEF LogsRight, Record
  <1> PICK s : s = Append(log[f], r)
    OBVIOUS
  <1>2. log' = [log EXCEPT ![f] = s]
    OBVIOUS
  <1>3. InOrder(s, 0, r.time)
    <2>1. 0 \in Nat /\ 0 <= now
      BY <1>1
    <2> QED BY <1>1, <2>1, RecordAppended
  <1>4. ASSUME NEW g \in Files, g # f PROVE InOrder(log[g], 0, r.time)
    <2> PICK t : t = log[g]
      OBVIOUS
    <2>1. InOrder(t, 0, now) /\ t \in Seq(Record)
      BY <1>1, <1>4 DEF InOrder
    <2>2. ASSUME NEW n \in 1..Len(t) PROVE t[n].time <= r.time
      <3>1. t[n] \in Record
        BY <2>1, <2>2
      <3>2. t[n].time \in Nat /\ t[n].time <= now
        BY <2>1, <2>2, <3>1, TimesNatural DEF InOrder, Record
      <3> QED BY <1>1, <3>2
    <2> QED BY <2>1, <2>2 DEF InOrder
  <1>5. log' \in [Files -> Seq(Record)]
    <2>1. s \in Seq(Record)
      BY <1>3 DEF InOrder
    <2> QED BY <1>1, <1>2, <2>1
  <1>6. \A g \in Files : InOrder(log'[g], 0, r.time)
    <2>1. log'[f] = s /\ \A g \in Files : g # f => log'[g] = log[g]
      BY <1>1, <1>2
    <2> QED BY <1>3, <1>4, <2>1
  <1> QED BY <1>1, <1>5, <1>6 DEF LogsRight

\* tmclog writes its records in the order of their time.
LEMMA LogStepRight ==
    ASSUME LogsRight, LogNext PROVE LogsRight'
  <1>1. ASSUME NEW f \in Files, NEW append_mode \in BOOLEAN, Start(f, append_mode)
        PROVE  LogsRight'
    <2>1. CASE append_mode
      <3>1. log' = log /\ now' = now
        BY <1>1, <2>1 DEF Start
      <3> QED BY <3>1 DEF LogsRight
    <2>2. CASE ~append_mode
      <3>1. log' = [log EXCEPT ![f] = <<>>] /\ now' = now
        BY <1>1, <2>2 DEF Start
      <3>2. <<>> \in Seq(Record) /\ \A n \in 1..Len(<<>>) : FALSE
        OBVIOUS
      <3>3. InOrder(<<>>, 0, now)
        BY <3>2 DEF InOrder
      <3>4. log' \in [Files -> Seq(Record)]
        BY <3>1, <3>2 DEF LogsRight
      <3>5. log'[f] = <<>> /\ \A g \in Files : g # f => log'[g] = log[g]
        BY <3>1 DEF LogsRight
      <3> QED BY <3>1, <3>3, <3>4, <3>5 DEF LogsRight
    <2> QED BY <2>1, <2>2
  <1>2. ASSUME NEW f \in Files, NEW s \in Lists, NEW time \in Times, now <= time,
               Write(f, s, time)
        PROVE  LogsRight'
    <2> PICK r : r = IF Repeated(s) THEN [kind |-> "dup", time |-> time, lines |-> <<>>]
                                    ELSE [kind |-> "tmc", time |-> time, lines |-> s]
      OBVIOUS
    <2>1. s \in Seq(Lines) /\ <<>> \in Seq(Lines) /\ time \in Nat
      BY ListsAssumption, LogBoundsAssumption
    <2>2. r \in Record /\ r.time = time
      BY <2>1 DEF Record
    <2>3. log' = [log EXCEPT ![f] = Append(@, r)] /\ now' = time
      BY <1>2 DEF Write
    <2> QED BY <1>2, <2>2, <2>3, WrittenRight
  <1>3. ASSUME NEW f \in Files, NEW s \in Lists, NEW time \in Times, now <= time,
               NEW n \in LinesLeft, WriteInterrupted(f, s, time, n)
        PROVE  LogsRight'
    <2> PICK r : r = [kind |-> IF n = 0 THEN "cut" ELSE "tmc", time |-> time,
                      lines |-> SubSeq(s, 1, n)]
      OBVIOUS
    <2>1. s \in Seq(Lines) /\ time \in Nat /\ n \in Nat /\ n < Len(s)
      BY <1>3, ListsAssumption, LogBoundsAssumption DEF WriteInterrupted
    <2>2. SubSeq(s, 1, n) \in Seq(Lines)
      <3>1. CASE n = 0
        BY <3>1
      <3>2. CASE n # 0
        BY <2>1, <3>2
      <3> QED BY <3>1, <3>2
    <2>3. r \in Record /\ r.time = time
      BY <2>1, <2>2 DEF Record
    <2>4. log' = [log EXCEPT ![f] = Append(@, r)] /\ now' = time
      BY <1>3 DEF WriteInterrupted
    <2> QED BY <1>3, <2>3, <2>4, WrittenRight
  <1>4. CASE Stop
    BY <1>4 DEF Stop, LogsRight
  <1> QED BY <1>1, <1>2, <1>3, <1>4 DEF LogNext

\* The first record of those that are left.
LEMMA FirstRecord ==
    ASSUME NEW from, NEW to, InOrder(rest, from, to), rest # <<>>
    PROVE  /\ rest \in Seq(Record) /\ 1 \in 1..Len(rest)
           /\ rest[1].time \in Times /\ rest[1].time \in Nat /\ from <= rest[1].time
           /\ rest[1].lines \in Seq(Lines)
  <1>1. rest \in Seq(Record) /\ 1 \in 1..Len(rest)
    BY DEF InOrder
  <1>2. rest[1] \in Record
    BY <1>1
  <1>3. from <= rest[1].time
    BY <1>1 DEF InOrder
  <1> QED BY <1>1, <1>2, <1>3, TimesNatural DEF Record

\* Without a log there is an import that begins.
NoImport ==
    header' = 0 /\ rest' = <<>> /\ filter' = NewFilter(data_file') /\ source' = NoFile

\* That is right when nothing is imported.
LEMMA NoImportRight ==
    ASSUME IsSaved(data_file'), NoImport PROVE ImportRight'
  <1>1. InOrder(<<>>, 0, 0)
    <2>1. <<>> \in Seq(Record) /\ \A n \in 1..Len(<<>>) : FALSE
      OBVIOUS
    <2> QED BY <2>1 DEF InOrder
  <1>2. 0 \in Nat
    OBVIOUS
  <1> QED BY <1>1, <1>2 DEF ImportRight, IsSaved, NoImport

\* OpenLog
LEMMA OpenRightStep ==
    ASSUME ImpInv, NEW f \in Files, OpenLog(f) PROVE ImportRight'
  <1>1. /\ source' = f /\ rest' = log[f] /\ header' = 0 /\ filter' = NewFilter(data_file)
        /\ data_file' = data_file
    BY DEF OpenLog
  <1>2. InOrder(log[f], 0, now) /\ now \in Nat /\ 0 \in Nat /\ IsSaved(data_file)
    BY DEF ImpInv, LogsRight, ImportRight
  <1> QED BY <1>1, <1>2 DEF ImportRight, IsSaved

\* ReadChunk
LEMMA ReadRightStep ==
    ASSUME ImpInv, ReadChunk PROVE ImportRight'
  <1>1. rest # <<>> /\ rest[1].kind = "tmc"
    BY DEF ReadChunk, getChunk
  <1>2. PICK to \in Nat : InOrder(rest, header, to)
    BY DEF ImpInv, ImportRight
  <1> PICK time : time = rest[1].time
    OBVIOUS
  <1> PICK lines : lines = rest[1].lines
    OBVIOUS
  <1> PICK x : x = addChunk(filter, time, lines)
    OBVIOUS
  <1>3. /\ rest \in Seq(Record) /\ time \in Times /\ time \in Nat /\ header <= time /\ lines \in Seq(Lines)
    BY <1>1, <1>2, FirstRecord
  <1>4. header \in Nat /\ FilterRight(filter, {}, header) /\ ~filter.throws /\ IsSaved(data_file)
    BY DEF ImpInv, ImportRight
  <1>5. ChunkTaken(x, time, lines)
    BY <1>3, <1>4, ChunkRight
  <1>6. CASE /\ ~x.throws /\ filter' = x /\ header' = time
             /\ rest' = getChunk(rest).rest /\ UNCHANGED <<source, data_file>>
    <2> PICK k : k = Skipped(rest)
      OBVIOUS
    <2>1. rest' = SubSeq(rest, k + 1, Len(rest))
      BY <1>6 DEF getChunk
    <2>2. k \in 1..Len(rest)
      BY <1>1, <1>3, SkippedRange
    <2>3. InOrder(rest', time, to)
      BY <1>2, <1>4, <2>1, <2>2, RestInOrder
    <2>4. FilterRight(x, {}, time)
      BY <1>5, <1>6 DEF ChunkTaken
    <2>5. source \in Files \cup {NoFile}
      BY DEF ImpInv, ImportRight
    <2> QED BY <1>3, <1>4, <1>6, <2>3, <2>4, <2>5 DEF ImportRight
  <1>7. CASE Abort
    <2>1. data_file' = data_file /\ NoImport
      BY <1>7 DEF Abort, Quit, NoImport
    <2> QED BY <1>4, <2>1, NoImportRight
  <1> QED BY <1>6, <1>7 DEF ReadChunk

\* EndImport
LEMMA EndRightStep ==
    ASSUME ImpInv, EndImport PROVE ImportRight'
  <1> PICK time : time = IF rest = <<>> THEN header ELSE rest[1].time
    OBVIOUS
  <1> PICK none : none = <<>>
    OBVIOUS
  <1> PICK x : x = addChunk(filter, time, none)
    OBVIOUS
  <1>1. PICK to \in Nat : InOrder(rest, header, to)
    BY DEF ImpInv, ImportRight
  <1>2. header \in Nat /\ FilterRight(filter, {}, header) /\ ~filter.throws
    BY DEF ImpInv, ImportRight
  <1>3. time \in Nat /\ header <= time
    BY <1>1, <1>2, FirstRecord
  <1>4. none \in Seq(Lines) /\ Len(none) = 0
    OBVIOUS
  <1>5. Ended(x, time)
    BY <1>2, <1>3, <1>4, EndRight
  <1>6. data_file' = TD!generateHourIndex(x.data) /\ NoImport
    BY DEF EndImport, Quit, NoImport
  <1>7. IsSaved(data_file')
    BY <1>5, <1>6, SavedRight
  <1> QED BY <1>6, <1>7, NoImportRight

\* Every step keeps the invariant.
LEMMA ImpInvStep ==
    ASSUME ImpInv, [Next]_vars PROVE ImpInv'
  <1>1. CASE source = NoFile /\ LogNext /\ UNCHANGED impvars
    <2>1. LogsRight'
      BY <1>1, LogStepRight DEF ImpInv
    <2>2. UNCHANGED <<source, rest, header, filter, data_file>>
      BY <1>1 DEF impvars
    <2>3. ImportRight'
      BY <2>2 DEF ImpInv, ImportRight
    <2> QED BY <2>1, <2>3 DEF ImpInv
  <1>2. CASE ImportNext
    <2>1. UNCHANGED <<log, now>>
      BY <1>2 DEF ImportNext, OpenLog, ReadChunk, EndImport, EmptyLogAborts, Abort, logvars
    <2>2. LogsRight'
      BY <2>1 DEF ImpInv, LogsRight
    <2>3. CASE EmptyLogAborts
      <3>1. IsSaved(data_file') /\ NoImport
        BY <2>3 DEF EmptyLogAborts, Abort, Quit, NoImport, ImpInv, ImportRight
      <3> QED BY <2>2, <3>1, NoImportRight DEF ImpInv
    <2> QED BY <1>2, <2>2, <2>3, OpenRightStep, ReadRightStep, EndRightStep DEF ImportNext, ImpInv
  <1>3. CASE UNCHANGED vars
    <2>1. UNCHANGED <<log, now, source, rest, header, filter, data_file>>
      BY <1>3 DEF vars, logvars, impvars
    <2> QED BY <2>1 DEF ImpInv, LogsRight, ImportRight
  <1> QED BY <1>1, <1>2, <1>3 DEF Next

-----------------------------------------------------------------------------
(* What follows from the invariant *)

\* The invariant has the type invariant,
LEMMA TypesFollow == ImpInv => ImportTypeOK
  <1> SUFFICES ASSUME ImpInv PROVE ImportTypeOK
    OBVIOUS
  <1>1. IsFilter(filter) /\ Numbered(filter) /\ IsData(filter.data) /\ source \in Files \cup {NoFile}
    BY DEF ImpInv, ImportRight, FilterRight, IsFilter
  <1> PICK ids : ids = filter.indexes
    OBVIOUS
  <1> PICK events : events = filter.data.events
    OBVIOUS
  <1>2. DOMAIN ids = 1..Len(ids) /\ DOMAIN events = 1..Len(events) /\ Len(events) \in Nat
    BY <1>1 DEF IsFilter, IsData
  <1>3. Len(ids) = Len(filter.old_strings)
    BY <1>1 DEF IsFilter
  <1>4. \A n \in DOMAIN ids : ids[n] \in Numbers(filter.data) \cup {NoEvent}
    BY <1>1, <1>2 DEF Numbered, Numbers
  <1>5. ASSUME NEW ci \in CIs PROVE filter.ci_index[ci] \in {1, NoEvent} \cup Numbers(filter.data)
    <2>1. filter.ci_index[ci] \in (Nat \ {0}) \cup {NoEvent}
      BY <1>1 DEF IsFilter
    <2>2. filter.ci_index[ci] \in {1, NoEvent} \/ filter.ci_index[ci] <= Len(events)
      BY <1>1 DEF Numbered
    <2> QED BY <1>2, <2>1, <2>2 DEF Numbers
  <1>6. Len(filter.data.info) <= Len(filter.data.events)
    BY <1>1 DEF IsData
  <1> QED BY <1>1, <1>3, <1>4, <1>5, <1>6 DEF ImportTypeOK

\* What CellRight() says of a cell, as CellsSorted has it.
LEMMA CellIsSorted ==
    ASSUME NEW d, IsData(d), CellsRight(d), NEW c \in Cells
    PROVE  /\ \A m, n \in DOMAIN d.grid[c] :
                 m < n => LET e == d.events[d.grid[c][m]]
                              f == d.events[d.grid[c][n]]
                          IN  /\ e.start <= f.start
                              /\ d.grid[c][m] # d.grid[c][n]
                              /\ <<e.start, e.lcd, e.type>> = <<f.start, f.lcd, f.type>>
                                    => add_duplicate_events
           /\ ToSet(d.grid[c]) = {n \in Numbers(d) : grid_ids[d.events[n].lcd] = c}
  <1> PICK cell : cell = d.grid[c]
    OBVIOUS
  <1>1. CellRight(d.events, cell, c) /\ cell \in Seq(Nat) /\ d.events \in Seq(Event)
    BY DEF CellsRight, IsData
  <1>2. DOMAIN cell = 1..Len(cell) /\ Numbers(d) = 1..Len(d.events)
    BY <1>1 DEF Numbers
  <1>3. \A x : x \in ToSet(cell) <=> \E k \in 1..Len(cell) : cell[k] = x
    BY <1>1, ToSetElements
  <1>4. ToSet(cell) = {n \in Numbers(d) : grid_ids[d.events[n].lcd] = c}
    <2>1. \A k \in 1..Len(cell) : cell[k] \in 1..Len(d.events) /\ grid_ids[d.events[cell[k]].lcd] = c
      BY <1>1 DEF CellRight
    <2>2. \A n \in 1..Len(d.events) :
             grid_ids[d.events[n].lcd] = c => \E k \in 1..Len(cell) : cell[k] = n
      BY <1>1 DEF CellRight
    <2>3. ASSUME NEW x \in ToSet(cell) PROVE x \in Numbers(d) /\ grid_ids[d.events[x].lcd] = c
      <3> PICK k \in 1..Len(cell) : cell[k] = x
        BY <1>3, <2>3
      <3> QED BY <1>2, <2>1
    <2>4. ASSUME NEW n \in Numbers(d), grid_ids[d.events[n].lcd] = c PROVE n \in ToSet(cell)
      BY <1>2, <1>3, <2>2, <2>4
    <2> QED BY <2>3, <2>4
  <1>5. \A m, n \in 1..Len(cell) :
           m < n => /\ d.events[cell[m]].start <= d.events[cell[n]].start
                    /\ cell[m] # cell[n]
                    /\ SameKey(d.events[cell[m]], d.events[cell[n]]) => add_duplicate_events
    BY <1>1 DEF CellRight
  <1>6. ASSUME NEW m \in DOMAIN cell, NEW n \in DOMAIN cell, m < n
        PROVE  LET e == d.events[cell[m]]
                   f == d.events[cell[n]]
               IN  /\ e.start <= f.start
                   /\ cell[m] # cell[n]
                   /\ <<e.start, e.lcd, e.type>> = <<f.start, f.lcd, f.type>> => add_duplicate_events
    <2> PICK e : e = d.events[cell[m]]
      OBVIOUS
    <2> PICK f : f = d.events[cell[n]]
      OBVIOUS
    <2>1. m \in 1..Len(cell) /\ n \in 1..Len(cell)
      BY <1>2
    <2>2. /\ e.start <= f.start
          /\ cell[m] # cell[n]
          /\ SameKey(e, f) => add_duplicate_events
      BY <1>5, <1>6, <2>1
    <2>3. <<e.start, e.lcd, e.type>> = <<f.start, f.lcd, f.type>> => SameKey(e, f)
      BY DEF SameKey
    <2> QED BY <2>2, <2>3
  <1> QED BY <1>4, <1>6

\* the order of the cells,
LEMMA SortedFollows == ImpInv => CellsSorted
  <1> SUFFICES ASSUME ImpInv PROVE CellsSorted
    OBVIOUS
  <1>1. IsData(filter.data) /\ CellsRight(filter.data)
    BY DEF ImpInv, ImportRight, FilterRight, IsFilter
  <1> QED BY <1>1, CellIsSorted, Zenon DEF CellsSorted

\* and the ends of the events.
LEMMA EndedFollows == ImpInv => EndedWhenGone
  <1> SUFFICES ASSUME ImpInv PROVE EndedWhenGone
    OBVIOUS
  <1> PICK d : d = filter.data
    OBVIOUS
  <1>1. IsFilter(filter) /\ OpenRight(d.events, filter.indexes, {}, header) /\ IsSaved(data_file)
    BY DEF ImpInv, ImportRight, FilterRight
  <1>2. Numbers(d) = 1..Len(d.events) /\ filter.indexes \in Seq(Nat \cup {NoEvent})
    BY <1>1 DEF IsFilter, IsData, Numbers
  <1>3. \A x : x \in ToSet(filter.indexes) <=> \E k \in 1..Len(filter.indexes) : filter.indexes[k] = x
    BY <1>2, ToSetElements
  <1>4. ASSUME NEW n \in Numbers(d)
        PROVE  /\ d.events[n].end = TD!Open <=> n \in ToSet(filter.indexes)
               /\ d.events[n].end # TD!Open => d.events[n].end >= d.events[n].start
    <2>1. d.events[n].end = TD!Open <=> n \in ToSet(filter.indexes)
      BY <1>1, <1>2, <1>3 DEF OpenRight
    <2>2. d.events[n].end # TD!Open => d.events[n].start <= d.events[n].end
      BY <1>1, <1>2 DEF OpenRight
    <2>3. d.events[n] \in Event
      BY <1>1, <1>2 DEF IsFilter, IsData
    <2>4. d.events[n].start \in Int /\ d.events[n].end \in Int
      <3>1. d.events[n].start \in Times /\ d.events[n].end \in Nat \cup {TD!Open}
        BY <2>3 DEF Event
      <3>2. d.events[n].start \in Nat
        BY <3>1, TimesNatural, Zenon
      <3> QED BY <3>1, <3>2 DEF TD!Open
    <2> QED BY <2>1, <2>2, <2>4
  <1>5. ASSUME NEW n \in Numbers(data_file) PROVE data_file.events[n].end # TD!Open
    <2> PICK fl : fl = NewFilter(data_file)
      OBVIOUS
    <2>1. fl.data = data_file /\ fl.indexes = <<>>
      BY DEF NewFilter
    <2>2. OpenRight(data_file.events, <<>>, {}, 0) /\ IsData(data_file)
      BY <1>1, <2>1 DEF IsSaved, FilterRight, IsFilter
    <2>3. Numbers(data_file) = 1..Len(data_file.events) /\ \A k \in 1..Len(<<>>) : FALSE
      BY <2>2 DEF IsData, Numbers
    <2> QED BY <2>2, <2>3 DEF OpenRight
  <1> QED BY <1>4, <1>5 DEF EndedWhenGone

\* The invariant holds in every state of tmclog and tmcimport.
THEOREM ImportInvariance == Spec => []ImpInv
  <1>1. ImpInv /\ [Next]_vars => ImpInv'
    BY ImpInvStep
  <1> QED BY <1>1, ImpInvInit, PTL DEF Spec

-----------------------------------------------------------------------------
(* What the records tell of the lists *)

ShownList == [lines : Seq(Lines), time : Nat, first : BOOLEAN, cut : BOOLEAN]

\* A record has the lines of the list that was seen; a repetition stands for the
\* list before it, or for an empty one that a session begins with.
Tells(records, lists, n) ==
    /\ records[n].kind = "tmc" => lists[n].lines = records[n].lines
    /\ records[n].kind = "cut" => lists[n].cut
    /\ records[n].kind = "dup" => \/ lists[n].first /\ lists[n].lines = <<>>
                                  \/ n > 1 /\ lists[n].lines = lists[n - 1].lines

Told(records, lists) ==
    /\ records \in Seq(Record) /\ lists \in Seq(ShownList)
    /\ Len(lists) = Len(records)
    /\ \A n \in 1..Len(records) : Tells(records, lists, n)

\* last_s is what was seen last.
WriterRight ==
    /\ fresh \in BOOLEAN /\ shown \in [Files -> Seq(ShownList)]
    /\ \A f \in Files : Told(log[f], shown[f])
    /\ \A f, g \in logging : f = g
    /\ fresh => last_s = <<>>
    /\ ~fresh => \A f \in logging :
                    f \in Files => /\ Len(shown[f]) > 0
                                   /\ shown[f][Len(shown[f])].lines = last_s

\* A record and its list.
Goes(r, q, lists) ==
    /\ r \in Record /\ q \in ShownList
    /\ r.kind = "tmc" => q.lines = r.lines
    /\ r.kind = "cut" => q.cut
    /\ r.kind = "dup" => \/ q.first /\ q.lines = <<>>
                         \/ Len(lists) > 0 /\ q.lines = lists[Len(lists)].lines

\* A record that tells of one list more.
LEMMA ToldFurther ==
    ASSUME NEW records, NEW lists, Told(records, lists),
           NEW r, NEW q, Goes(r, q, lists)
    PROVE  Told(Append(records, r), Append(lists, q))
  <1> PICK rs : rs = Append(records, r)
    OBVIOUS
  <1> PICK ls : ls = Append(lists, q)
    OBVIOUS
  <1> PICK L : L = Len(records)
    OBVIOUS
  <1>1. /\ records \in Seq(Record) /\ lists \in Seq(ShownList) /\ L = Len(lists) /\ L \in Nat
        /\ r \in Record /\ q \in ShownList
    BY DEF Told, Goes
  <1>2. /\ rs \in Seq(Record) /\ Len(rs) = L + 1 /\ rs[L + 1] = r
        /\ \A n \in 1..L : rs[n] = records[n]
    <2>1. records \in Seq(Record) /\ r \in Record
      BY <1>1
    <2> QED BY <2>1, AppendElements
  <1>3. /\ ls \in Seq(ShownList) /\ Len(ls) = L + 1 /\ ls[L + 1] = q
        /\ \A n \in 1..L : ls[n] = lists[n]
    BY <1>1, AppendElements
  <1>4. ASSUME NEW n \in 1..(L + 1) PROVE Tells(rs, ls, n)
    <2>1. CASE n \in 1..L
      <3>1. Tells(records, lists, n)
        BY <2>1 DEF Told
      <3>2. n > 1 => n - 1 \in 1..L
        BY <2>1
      <3> QED BY <1>2, <1>3, <2>1, <3>1, <3>2 DEF Tells
    <2>2. CASE n = L + 1
      <3>1. rs[n] = r /\ ls[n] = q
        BY <1>2, <1>3, <2>2
      <3>2. L > 0 => n > 1 /\ ls[n - 1] = lists[L]
        BY <1>1, <1>3, <2>2
      <3> QED BY <1>1, <3>1, <3>2 DEF Tells, Goes
    <2> QED BY <1>1, <2>1, <2>2
  <1> QED BY <1>2, <1>3, <1>4 DEF Told

\* One log has a record more.
LEMMA ToldStep ==
    ASSUME LogsRight, WriterRight, NEW f \in Files, NEW r, NEW q, Goes(r, q, shown[f]),
           log' = [log EXCEPT ![f] = Append(@, r)],
           shown' = [shown EXCEPT ![f] = Append(@, q)]
    PROVE  /\ shown' \in [Files -> Seq(ShownList)]
           /\ \A g \in Files : Told(log'[g], shown'[g])
           /\ Len(shown'[f]) > 0 /\ shown'[f][Len(shown'[f])] = q
  <1> PICK rs : rs = Append(log[f], r)
    OBVIOUS
  <1> PICK ls : ls = Append(shown[f], q)
    OBVIOUS
  <1>1. Told(log[f], shown[f]) /\ shown[f] \in Seq(ShownList) /\ q \in ShownList
    BY DEF WriterRight, Told, Goes
  <1>2. Told(rs, ls)
    BY <1>1, ToldFurther
  <1>3. log'[f] = rs /\ \A g \in Files : g # f => log'[g] = log[g]
    BY DEF LogsRight
  <1>4. shown'[f] = ls /\ \A g \in Files : g # f => shown'[g] = shown[g]
    BY DEF WriterRight
  <1>5. \A g \in Files : Told(log'[g], shown'[g])
    BY <1>2, <1>3, <1>4 DEF WriterRight
  <1>6. ls \in Seq(ShownList) /\ Len(ls) > 0 /\ ls[Len(ls)] = q
    BY <1>1
  <1>7. shown' \in [Files -> Seq(ShownList)]
    <2>1. shown' = [shown EXCEPT ![f] = ls]
      OBVIOUS
    <2> QED BY <1>6, <2>1 DEF WriterRight
  <1> QED BY <1>4, <1>5, <1>6, <1>7

\* At first no log has a record.
LEMMA WriterRightInit == Init => WriterRight
  <1> SUFFICES ASSUME Init PROVE WriterRight
    OBVIOUS
  <1>1. /\ fresh = TRUE /\ last_s = <<>> /\ logging = {}
        /\ log = [f \in Files |-> <<>>] /\ shown = [f \in Files |-> <<>>]
    BY DEF Init, LogInit
  <1>2. Told(<<>>, <<>>)
    <2>1. /\ <<>> \in Seq(Record) /\ <<>> \in Seq(ShownList)
          /\ \A n \in 1..Len(<<>>) : FALSE
      OBVIOUS
    <2> QED BY <2>1 DEF Told
  <1>3. /\ shown \in [Files -> Seq(ShownList)]
        /\ \A f \in Files : log[f] = <<>> /\ shown[f] = <<>>
    <2>1. <<>> \in Seq(ShownList)
      OBVIOUS
    <2> QED BY <1>1, <2>1
  <1> QED BY <1>1, <1>2, <1>3 DEF WriterRight

\* Start
LEMMA StartTold ==
    ASSUME LogsRight, WriterRight, NEW f \in Files, NEW append_mode \in BOOLEAN,
           Start(f, append_mode)
    PROVE  WriterRight'
  <1>1. fresh' = TRUE /\ last_s' = <<>> /\ logging' = {f}
    BY DEF Start
  <1>2. CASE append_mode
    <2>1. log' = log /\ shown' = shown
      BY <1>2 DEF Start
    <2> QED BY <1>1, <2>1 DEF WriterRight
  <1>3. CASE ~append_mode
    <2>1. log' = [log EXCEPT ![f] = <<>>] /\ shown' = [shown EXCEPT ![f] = <<>>]
      BY <1>3 DEF Start
    <2>2. /\ <<>> \in Seq(Record) /\ <<>> \in Seq(ShownList)
          /\ \A n \in 1..Len(<<>>) : FALSE
      OBVIOUS
    <2>3. Told(<<>>, <<>>)
      BY <2>2 DEF Told
    <2>4. log'[f] = <<>> /\ \A g \in Files : g # f => log'[g] = log[g]
      BY <2>1 DEF LogsRight
    <2>5. shown'[f] = <<>> /\ \A g \in Files : g # f => shown'[g] = shown[g]
      BY <2>1 DEF WriterRight
    <2>6. \A g \in Files : Told(log'[g], shown'[g])
      BY <2>3, <2>4, <2>5 DEF WriterRight
    <2>7. shown' \in [Files -> Seq(ShownList)]
      BY <2>1, <2>2 DEF WriterRight
    <2> QED BY <1>1, <2>6, <2>7 DEF WriterRight
  <1> QED BY <1>2, <1>3

\* Write
LEMMA WriteTold ==
    ASSUME LogsRight, WriterRight, NEW f \in Files, NEW s \in Lists, NEW time \in Times,
           Write(f, s, time)
    PROVE  WriterRight'
  <1> PICK r : r = IF Repeated(s) THEN [kind |-> "dup", time |-> time, lines |-> <<>>]
                                  ELSE [kind |-> "tmc", time |-> time, lines |-> s]
    OBVIOUS
  <1> PICK q : q = [lines |-> s, time |-> time, first |-> fresh, cut |-> FALSE]
    OBVIOUS
  <1>1. s \in Seq(Lines) /\ <<>> \in Seq(Lines) /\ time \in Nat
    BY ListsAssumption, LogBoundsAssumption
  <1>2. r \in Record /\ q \in ShownList
    BY <1>1 DEF Record, ShownList, WriterRight
  <1>3. f \in logging /\ \A g \in logging : g = f
    BY DEF Write, WriterRight
  <1>4. Goes(r, q, shown[f])
    <2>1. CASE Repeated(s)
      <3>1. r.kind = "dup" /\ q.lines = s /\ (fresh => q.first)
        BY <2>1
      <3>2. s = last_s
        BY <2>1 DEF Repeated
      <3>3. CASE fresh
        BY <1>2, <3>1, <3>2, <3>3 DEF Goes, WriterRight
      <3>4. CASE ~fresh
        BY <1>2, <1>3, <3>1, <3>2, <3>4 DEF Goes, WriterRight
      <3> QED BY <3>3, <3>4
    <2>2. CASE ~Repeated(s)
      <3>1. r.kind = "tmc" /\ q.lines = s /\ r.lines = s
        BY <2>2
      <3> QED BY <1>2, <3>1 DEF Goes
    <2> QED BY <2>1, <2>2
  <1>5. log' = [log EXCEPT ![f] = Append(@, r)] /\ shown' = [shown EXCEPT ![f] = Append(@, q)]
    BY DEF Write
  <1>6. /\ shown' \in [Files -> Seq(ShownList)]
        /\ \A g \in Files : Told(log'[g], shown'[g])
        /\ Len(shown'[f]) > 0 /\ shown'[f][Len(shown'[f])] = q
    BY <1>4, <1>5, ToldStep
  <1>7. last_s' = s /\ fresh' = FALSE /\ logging' = logging /\ q.lines = s
    BY DEF Write
  <1> QED BY <1>3, <1>6, <1>7 DEF WriterRight

\* WriteInterrupted
LEMMA InterruptedTold ==
    ASSUME LogsRight, WriterRight, NEW f \in Files, NEW s \in Lists, NEW time \in Times,
           NEW n \in LinesLeft, WriteInterrupted(f, s, time, n)
    PROVE  WriterRight'
  <1> PICK r : r = [kind |-> IF n = 0 THEN "cut" ELSE "tmc", time |-> time,
                    lines |-> SubSeq(s, 1, n)]
    OBVIOUS
  <1> PICK lines : lines = IF n = 0 /\ shown[f] # <<>> THEN Last(shown[f]).lines
                                                      ELSE SubSeq(s, 1, n)
    OBVIOUS
  <1> PICK q : q = [lines |-> lines, time |-> time, first |-> fresh, cut |-> n = 0]
    OBVIOUS
  <1>1. s \in Seq(Lines) /\ time \in Nat /\ n \in Nat /\ n < Len(s)
    BY ListsAssumption, LogBoundsAssumption DEF WriteInterrupted
  <1>2. SubSeq(s, 1, n) \in Seq(Lines)
    <2>1. CASE n = 0
      BY <2>1
    <2>2. CASE n # 0
      BY <1>1, <2>2
    <2> QED BY <2>1, <2>2
  <1>3. lines \in Seq(Lines)
    <2>1. ASSUME shown[f] # <<>> PROVE Last(shown[f]).lines \in Seq(Lines)
      <3>1. shown[f] \in Seq(ShownList)
        BY DEF WriterRight
      <3>2. Last(shown[f]) \in ShownList
        BY <2>1, <3>1 DEF Last
      <3> QED BY <3>2 DEF ShownList
    <2> QED BY <1>2, <2>1
  <1>4. r \in Record /\ q \in ShownList
    BY <1>1, <1>2, <1>3 DEF Record, ShownList, WriterRight
  <1>5. Goes(r, q, shown[f])
    <2>1. CASE n = 0
      <3>1. r.kind = "cut" /\ q.cut
        BY <2>1
      <3> QED BY <1>4, <3>1 DEF Goes
    <2>2. CASE n # 0
      <3>1. r.kind = "tmc" /\ q.lines = r.lines
        BY <2>2
      <3> QED BY <1>4, <3>1 DEF Goes
    <2> QED BY <2>1, <2>2
  <1>6. log' = [log EXCEPT ![f] = Append(@, r)] /\ shown' = [shown EXCEPT ![f] = Append(@, q)]
    <2>1. log' = [log EXCEPT ![f] = Append(@, r)]
      BY DEF WriteInterrupted
    <2>2. shown' = [shown EXCEPT ![f] = Append(@, q)]
      BY DEF WriteInterrupted
    <2> QED BY <2>1, <2>2
  <1>7. /\ shown' \in [Files -> Seq(ShownList)]
        /\ \A g \in Files : Told(log'[g], shown'[g])
    BY <1>5, <1>6, ToldStep
  <1>8. last_s' = <<>> /\ fresh' = TRUE /\ logging' = {}
    BY DEF WriteInterrupted
  <1> QED BY <1>7, <1>8 DEF WriterRight

\* Every step keeps what the records tell.
LEMMA WriterRightStep ==
    ASSUME LogsRight, WriterRight, [Next]_vars PROVE WriterRight'
  <1>1. CASE LogNext
    <2>1. CASE Stop
      BY <2>1 DEF Stop, WriterRight
    <2> QED BY <1>1, <2>1, StartTold, WriteTold, InterruptedTold DEF LogNext
  <1>2. CASE ImportNext \/ UNCHANGED vars
    <2>1. UNCHANGED <<log, shown, fresh, last_s, logging>>
      BY <1>2 DEF ImportNext, OpenLog, ReadChunk, EndImport, EmptyLogAborts, Abort, logvars, vars
    <2> QED BY <2>1 DEF WriterRight
  <1> QED BY <1>1, <1>2 DEF Next

-----------------------------------------------------------------------------
(* The filter follows the lists. *)

\* What is left of the log that is read, and the list that the filter has.
Followed ==
    source # NoFile =>
        /\ Read \in Nat /\ Len(log[source]) = Read + Len(rest)
        /\ \A n \in 1..Len(rest) : rest[n] = log[source][Read + n]
        /\ Read > 0 /\ rest # <<>> => rest[1].kind # "dup"
        /\ Read > 0 /\ SessionsBeginWithLines(source) =>
              filter.old_strings = shown[source][Read].lines

FollowInv == ImpInv /\ WriterRight /\ Followed

\* A list that is followed by repetitions.
Repeats(lists, a, k) == \A n \in 2..k : lists[a + n].lines = lists[a + n - 1].lines

\* Repetitions have the list of the record they follow.
LEMMA Repetitions ==
    ASSUME NEW lists, NEW a \in Nat, NEW k \in Nat \ {0}, Repeats(lists, a, k)
    PROVE  lists[a + k].lines = lists[a + 1].lines
  <1> DEFINE Good == {n \in Nat : n + 1 <= k => lists[a + (n + 1)].lines = lists[a + 1].lines}
  <1>1. 0 \in Good
    <2>1. 0 + 1 = 1
      OBVIOUS
    <2> QED BY <2>1
  <1>2. ASSUME NEW n \in Nat, n \in Good PROVE n + 1 \in Good
    <2> SUFFICES ASSUME (n + 1) + 1 <= k
                 PROVE  lists[a + ((n + 1) + 1)].lines = lists[a + 1].lines
      BY <1>2
    <2> PICK m : m = (n + 1) + 1
      OBVIOUS
    <2>1. m \in 2..k /\ a + m - 1 = a + (n + 1) /\ n + 1 <= k
      BY <1>2
    <2>2. lists[a + m].lines = lists[a + (n + 1)].lines
      BY <2>1 DEF Repeats
    <2>3. lists[a + (n + 1)].lines = lists[a + 1].lines
      BY <1>2, <2>1
    <2> QED BY <2>2, <2>3
  <1>3. Nat \subseteq Good
    <2> HIDE DEF Good
    <2> QED BY <1>1, <1>2, SetInduction
  <1>4. k - 1 \in Nat /\ (k - 1) + 1 = k
    OBVIOUS
  <1>5. k - 1 \in Good
    <2> HIDE DEF Good
    <2> QED BY <1>3, <1>4
  <1> QED BY <1>4, <1>5

\* OpenLog
LEMMA OpenFollowed ==
    ASSUME ImpInv, NEW f \in Files, OpenLog(f) PROVE Followed'
  <1>1. source' = f /\ rest' = log[f] /\ log' = log
    BY DEF OpenLog, logvars
  <1>2. log[f] \in Seq(Record)
    BY DEF ImpInv, LogsRight
  <1>3. Read' = 0
    <2>1. Read' = Len(log'[source']) - Len(rest')
      BY DEF Read
    <2> QED BY <1>1, <1>2, <2>1
  <1> PICK L : L = log[f]
    OBVIOUS
  <1>4. Len(L) = 0 + Len(L) /\ \A n \in 1..Len(L) : L[n] = L[0 + n]
    BY <1>2
  <1> QED BY <1>1, <1>3, <1>4 DEF Followed

\* A chunk is read, with the repetitions behind it.
LEMMA ChunkFollowed ==
    ASSUME FollowInv, source # NoFile, getChunk(rest).status,
           filter' = addChunk(filter, rest[1].time, rest[1].lines), ~filter'.throws,
           rest' = getChunk(rest).rest, source' = source, log' = log, shown' = shown
    PROVE  Followed'
  <1> PICK L : L = log[source]
    OBVIOUS
  <1> PICK S : S = shown[source]
    OBVIOUS
  <1> PICK k : k = Skipped(rest)
    OBVIOUS
  <1> PICK a : a = Read
    OBVIOUS
  <1>1. rest # <<>> /\ rest[1].kind = "tmc"
    BY DEF getChunk
  <1>2. PICK to \in Nat : InOrder(rest, header, to) /\ header \in Nat
    BY DEF FollowInv, ImpInv, ImportRight
  <1>3. /\ rest \in Seq(Record) /\ rest[1].time \in Times /\ rest[1].time \in Nat /\ header <= rest[1].time
        /\ rest[1].lines \in Seq(Lines) /\ Len(rest) \in Nat
    BY <1>1, <1>2, FirstRecord
  <1>4. /\ a \in Nat /\ Len(L) = a + Len(rest)
        /\ \A n \in 1..Len(rest) : rest[n] = L[a + n]
    BY DEF FollowInv, Followed
  <1>5. /\ k \in 1..Len(rest)
        /\ \A n \in 2..k : rest[n].kind = "dup"
        /\ k < Len(rest) => rest[k + 1].kind # "dup"
    BY <1>1, <1>3, SkippedRange
  <1>6. rest' = SubSeq(rest, k + 1, Len(rest))
    BY DEF getChunk
  <1>7. /\ Len(rest') = Len(rest) - k
        /\ \A n \in 1..(Len(rest) - k) : rest'[n] = rest[n + k]
    <2>1. IsRest(rest', rest, k)
      BY <1>2, <1>3, <1>5, <1>6, RestInOrder
    <2> QED BY <2>1 DEF IsRest
  <1>8. Read' = a + k /\ a + k \in Nat /\ Len(L) = (a + k) + Len(rest')
    <2>1. Read' = Len(L) - Len(rest')
      BY DEF Read
    <2> QED BY <1>3, <1>4, <1>5, <1>7, <2>1
  <1>9. ASSUME NEW n \in 1..Len(rest') PROVE rest'[n] = L[(a + k) + n]
    <2> PICK R : R = Len(rest)
      OBVIOUS
    <2>2. n \in 1..(R - k) /\ R \in Nat /\ k \in Nat /\ a \in Nat
      BY <1>3, <1>4, <1>5, <1>7, <1>9
    <2>3. n + k \in 1..R /\ a + (n + k) = (a + k) + n
      BY <2>2, SMT
    <2>1. n \in 1..(Len(rest) - k) /\ n + k \in 1..Len(rest) /\ a + (n + k) = (a + k) + n
      BY <2>2, <2>3
    <2> QED BY <1>4, <1>7, <2>1
  <1>10. rest' # <<>> => rest'[1].kind # "dup"
    <2> SUFFICES ASSUME rest' # <<>> PROVE rest'[1].kind # "dup"
      OBVIOUS
    <2>1. rest' \in Seq(Record)
      BY <1>3, <1>5, <1>6
    <2>2. Len(rest') > 0
      BY <2>1
    <2>3. k < Len(rest) /\ 1 \in 1..(Len(rest) - k)
      <3> PICK m : m = Len(rest')
        OBVIOUS
      <3> PICK R : R = Len(rest)
        OBVIOUS
      <3>1. m > 0 /\ m = R - k /\ R \in Nat /\ k \in Nat
        BY <1>3, <1>5, <1>7, <2>2
      <3>2. k < R /\ 1 \in 1..(R - k)
        BY <3>1, SMT
      <3> QED BY <3>2
    <2>4. rest'[1] = rest[1 + k]
      BY <1>7, <2>3, Zenon
    <2>5. 1 + k = k + 1
      BY <1>5, SMT
    <2>6. rest[k + 1].kind # "dup"
      BY <1>5, <2>3, Zenon
    <2> QED BY <2>4, <2>5, <2>6, Zenon
  <1>11. ASSUME SessionsBeginWithLines(source) PROVE filter'.old_strings = S[a + k].lines
    <2>1. ChunkTaken(filter', rest[1].time, rest[1].lines)
      BY <1>2, <1>3, ChunkRight DEF FollowInv, ImpInv, ImportRight
    <2>2. filter'.old_strings = rest[1].lines
      BY <2>1 DEF ChunkTaken
    <2>3. source \in Files /\ Told(L, S)
      BY DEF FollowInv, ImpInv, ImportRight, WriterRight
    <2>4. /\ S \in Seq(ShownList) /\ DOMAIN S = 1..Len(L)
          /\ \A n \in 1..Len(L) : Tells(L, S, n)
      BY <2>3 DEF Told
    <2>5. S[a + 1].lines = rest[1].lines
      <3>1. 1 \in 1..Len(rest) /\ a + 1 \in 1..Len(L)
        BY <1>3, <1>4, <1>5
      <3>2. Tells(L, S, a + 1) /\ L[a + 1] = rest[1]
        BY <1>4, <2>4, <3>1
      <3> QED BY <1>1, <3>2 DEF Tells
    <2>6. ASSUME NEW n \in 2..k PROVE S[a + n].lines = S[a + n - 1].lines
      <3> PICK i : i = a + n
        OBVIOUS
      <3>1. n \in 1..Len(rest) /\ i \in 1..Len(L)
        BY <1>3, <1>4, <1>5, <2>6
      <3>2. L[i].kind = "dup" /\ Tells(L, S, i)
        BY <1>4, <1>5, <2>4, <2>6, <3>1
      <3>3. ~(S[i].first /\ S[i].lines = <<>>)
        BY <1>11, <2>4, <3>1 DEF SessionsBeginWithLines
      <3>4. S[i].lines = S[i - 1].lines
        BY <3>2, <3>3, Zenon DEF Tells
      <3>5. a + n - 1 = i - 1
        BY <1>4, <1>5, <2>6
      <3> QED BY <3>4, <3>5
    <2>7. S[a + k].lines = S[a + 1].lines
      <3>1. k \in Nat \ {0}
        BY <1>3, <1>5
      <3>2. Repeats(S, a, k)
        BY <2>6 DEF Repeats
      <3> QED BY <1>4, <3>1, <3>2, Repetitions
    <2> QED BY <2>2, <2>5, <2>7
  <1>12. SessionsBeginWithLines(source)' <=> SessionsBeginWithLines(source)
    BY DEF SessionsBeginWithLines
  <1> QED BY <1>8, <1>9, <1>10, <1>11, <1>12 DEF Followed

\* Every step keeps it.
LEMMA FollowInvStep ==
    ASSUME FollowInv, [Next]_vars PROVE FollowInv'
  <1>1. ImpInv' /\ WriterRight'
    BY ImpInvStep, WriterRightStep DEF FollowInv, ImpInv
  <1>2. CASE source = NoFile /\ LogNext /\ UNCHANGED impvars
    <2>1. source' = NoFile
      BY <1>2 DEF impvars
    <2>2. Followed'
      BY <2>1 DEF Followed
    <2> QED BY <1>1, <2>2 DEF FollowInv
  <1>3. CASE ImportNext
    <2>1. ASSUME NEW f \in Files, OpenLog(f) PROVE Followed'
      BY <2>1, OpenFollowed DEF FollowInv
    <2>2. source' = NoFile => Followed'
      BY DEF Followed
    <2>3. ASSUME ReadChunk, source' # NoFile PROVE Followed'
      <3>1. /\ source # NoFile /\ getChunk(rest).status
            /\ filter' = addChunk(filter, rest[1].time, rest[1].lines) /\ ~filter'.throws
            /\ rest' = getChunk(rest).rest /\ source' = source /\ log' = log /\ shown' = shown
        BY <2>3 DEF ReadChunk, Abort, Quit, logvars
      <3> QED BY <3>1, ChunkFollowed
    <2>4. EndImport \/ EmptyLogAborts => source' = NoFile
      BY DEF EndImport, EmptyLogAborts, Abort, Quit
    <2> QED BY <1>1, <1>3, <2>1, <2>2, <2>3, <2>4 DEF ImportNext, FollowInv
  <1>4. CASE UNCHANGED vars
    <2>1. UNCHANGED <<source, rest, log, shown, filter>>
      BY <1>4 DEF vars, logvars, impvars
    <2>2. Followed'
      BY <2>1 DEF FollowInv, Followed, Read, SessionsBeginWithLines
    <2> QED BY <1>1, <2>2 DEF FollowInv
  <1> QED BY <1>2, <1>3, <1>4 DEF Next

\* The invariant has the property of the runs.
LEMMA FollowsFollows == FollowInv => FilterFollowsLists
  <1> SUFFICES ASSUME FollowInv, source # NoFile, SessionsBeginWithLines(source)
               PROVE  /\ Read > 0 => filter.old_strings = shown[source][Read].lines
                      /\ ~getChunk(rest).status => rest = <<>> \/ shown[source][Read + 1].cut
    BY DEF FilterFollowsLists
  <1>1. Read > 0 => filter.old_strings = shown[source][Read].lines
    BY DEF FollowInv, Followed
  <1>2. ASSUME ~getChunk(rest).status, rest # <<>> PROVE shown[source][Read + 1].cut
    <2> PICK L : L = log[source]
      OBVIOUS
    <2> PICK S : S = shown[source]
      OBVIOUS
    <2> PICK a : a = Read
      OBVIOUS
    <2>1. source \in Files /\ Told(L, S)
      BY DEF FollowInv, ImpInv, ImportRight, WriterRight
    <2>2. PICK to \in Nat : InOrder(rest, header, to)
      BY DEF FollowInv, ImpInv, ImportRight
    <2>3. rest \in Seq(Record) /\ Len(rest) \in Nat \ {0} /\ rest[1] \in Record
      BY <1>2, <2>2 DEF InOrder
    <2>4. a \in Nat /\ Len(L) = a + Len(rest) /\ a + 1 \in 1..Len(L) /\ rest[1] = L[a + 1]
      <3>1. a \in Nat /\ Len(L) = a + Len(rest)
        BY DEF FollowInv, Followed
      <3>2. 1 \in 1..Len(rest) /\ a + 1 \in 1..Len(L)
        BY <2>3, <3>1
      <3> QED BY <3>1, <3>2 DEF FollowInv, Followed
    <2>5. rest[1].kind \in {"cut", "dup"}
      BY <1>2, <2>3 DEF getChunk, Record
    <2>6. /\ S \in Seq(ShownList) /\ DOMAIN S = 1..Len(L) /\ Tells(L, S, a + 1)
      BY <2>1, <2>4 DEF Told
    <2>7. CASE rest[1].kind = "dup"
      <3>1. a = 0
        BY <1>2, <2>4, <2>7 DEF FollowInv, Followed
      <3>2. S[a + 1].first /\ S[a + 1].lines = <<>>
        BY <2>4, <2>6, <2>7, <3>1 DEF Tells
      <3> QED BY <2>4, <2>6, <3>2 DEF SessionsBeginWithLines
    <2>8. CASE rest[1].kind = "cut"
      BY <2>4, <2>6, <2>8 DEF Tells
    <2> QED BY <2>5, <2>7, <2>8
  <1> QED BY <1>1, <1>2

\* At first nothing is read.
LEMMA FollowInvInit == Init => FollowInv
  <1> SUFFICES ASSUME Init PROVE FollowInv
    OBVIOUS
  <1>1. source = NoFile
    BY DEF Init
  <1> QED BY <1>1, ImpInvInit, WriterRightInit DEF FollowInv, Followed

\* The invariant holds in every state of tmclog and tmcimport.
THEOREM FollowInvariance == Spec => []FollowInv
  <1>1. FollowInv /\ [Next]_vars => FollowInv'
    BY FollowInvStep
  <1> QED BY <1>1, FollowInvInit, PTL DEF Spec

-----------------------------------------------------------------------------
(* tmcwebserver *)

\* The data of an import that can be asked.
Saved(d) == IsData(d) /\ CellsRight(d)

\* What has been saved can be asked.
LEMMA SavedData == ImpInv => Saved(data_file)
  <1> SUFFICES ASSUME ImpInv PROVE Saved(data_file)
    OBVIOUS
  <1> PICK fl : fl = NewFilter(data_file)
    OBVIOUS
  <1>1. fl.data = data_file
    BY DEF NewFilter
  <1>2. FilterRight(fl, {}, 0)
    BY DEF ImpInv, ImportRight, IsSaved
  <1> QED BY <1>1, <1>2 DEF FilterRight, IsFilter, Saved

\* What a query without hours finds in a cell.
Between(d, cell, from, to, found) ==
    \E a, b \in 0..Len(cell) :
        /\ found = SubSeq(cell, a + 1, b)
        /\ \A k \in 1..Len(cell) :
              from < d.events[cell[k]].start /\ d.events[cell[k]].start < to
                <=> a < k /\ k <= b

\* getEventsOfIndex() without hours finds the events between the dates.
LEMMA QueryBetween ==
    ASSUME NEW d, Saved(d), NEW c \in Cells, NEW from \in Int, NEW to \in Int
    PROVE  Between(d, d.grid[c], from, to, TD!getEventsOfIndex(d, from, to, 0, 0, c))
  <1> PICK cell : cell = d.grid[c]
    OBVIOUS
  <1>0. IsData(d) /\ CellRight(d.events, cell, c) /\ cell \in Seq(Nat) /\ d.events \in Seq(Event)
    BY DEF Saved, CellsRight, IsData
  <1> PICK a : a = TD!events_upper_bound(d, cell, from)
    OBVIOUS
  <1> PICK b : b = TD!events_lower_bound(d, cell, to)
    OBVIOUS
  <1>1. a \in 0..Len(cell) /\ \A k \in 1..Len(cell) : d.events[cell[k]].start <= from <=> k <= a
    BY <1>0, EventsBounds
  <1>2. b \in 0..Len(cell) /\ \A k \in 1..Len(cell) : d.events[cell[k]].start < to <=> k <= b
    BY <1>0, EventsBounds
  <1>3. TD!getEventsOfIndex(d, from, to, 0, 0, c) = SubSeq(cell, a + 1, b)
    BY DEF TD!getEventsOfIndex, TD!EndBound
  <1>4. ASSUME NEW k \in 1..Len(cell)
        PROVE  from < d.events[cell[k]].start /\ d.events[cell[k]].start < to <=> a < k /\ k <= b
    <2>1. d.events[cell[k]] \in Event
      BY <1>0 DEF CellRight
    <2>2. PICK start : start = d.events[cell[k]].start
      OBVIOUS
    <2>3. start \in Nat
      BY <2>1, <2>2, TimesNatural DEF Event
    <2>4. (start <= from <=> k <= a) /\ (start < to <=> k <= b)
      BY <1>1, <1>2, <2>2
    <2>5. from < start /\ start < to <=> a < k /\ k <= b
      BY <1>1, <1>2, <2>3, <2>4
    <2> QED BY <2>2, <2>5
  <1> QED BY <1>1, <1>2, <1>3, <1>4 DEF Between

\* The times of a query.
LEMMA QueryTimes == Times \cup {Max(Times) + 1} \subseteq Nat
  <1>1. Times \subseteq Nat /\ Times # {} /\ IsFiniteSet(Times)
    BY LogBoundsAssumption
  <1> PICK m : m = Max(Times)
    OBVIOUS
  <1>2. m \in Times
    BY <1>1, GreatestMember
  <1>3. m + 1 \in Nat
    BY <1>1, <1>2
  <1> QED BY <1>1, <1>3

\* That is so in all cells.
LEMMA QueryExact == Saved(data_file) => DateQuery
  <1>1. ASSUME Saved(data_file), NEW c \in Filled,
               NEW from \in Times \cup {Max(Times) + 1}, NEW to \in Times \cup {Max(Times) + 1}
        PROVE  LET cell  == data_file.grid[c]
                   found == TD!getEventsOfIndex(data_file, from, to, 0, 0, c)
               IN  \E a, b \in 0..Len(cell) :
                      /\ found = SubSeq(cell, a + 1, b)
                      /\ \A k \in DOMAIN cell :
                            LET start == data_file.events[cell[k]].start
                            IN  from < start /\ start < to <=> a < k /\ k <= b
    <2>1. c \in Cells /\ from \in Int /\ to \in Int
      BY <1>1, QueryTimes DEF Filled
    <2>2. Between(data_file, data_file.grid[c], from, to, TD!getEventsOfIndex(data_file, from, to, 0, 0, c))
      BY <1>1, <2>1, QueryBetween, Zenon
    <2>3. DOMAIN (data_file.grid[c]) = 1..Len(data_file.grid[c])
      BY <1>1, <2>1 DEF Saved, IsData
    <2> QED BY <2>2, <2>3, Zenon DEF Between
  <1> QED BY <1>1, Zenon DEF DateQuery

\* Between two dates, tmcwebserver's search finds the events of a cell that start between
\* them, and no others, after whatever imports (tmcwebserver/tmcdata.cpp).
THEOREM QueriesExact == Spec => DateQueryExact
  <1>1. ImpInv /\ [Next]_vars => [data_file' # data_file => DateQuery']_vars
    <2> SUFFICES ASSUME ImpInv, [Next]_vars PROVE DateQuery'
      OBVIOUS
    <2>1. ImpInv'
      BY ImpInvStep
    <2>2. Saved(data_file)'
      BY <2>1, SavedData, PTL
    <2>3. (Saved(data_file) => DateQuery)'
      BY QueryExact, PTL
    <2> QED BY <2>2, <2>3
  <1> QED BY <1>1, ImportInvariance, PTL DEF Spec, DateQueryExact

-----------------------------------------------------------------------------
(* The grid *)

\* Products of greater numbers are greater.
LEMMA ProductMonotone ==
    ASSUME NEW a \in Int, NEW b \in Int, a <= b, NEW s \in Nat
    PROVE  a * s <= b * s /\ a * s \in Int /\ b * s \in Int
  OBVIOUS

\* The quotient with a remainder.
LEMMA QuotientFacts ==
    ASSUME NEW n \in Int, NEW d \in Nat \ {0}
    PROVE  /\ n \div d \in Int
           /\ (n \div d) * d <= n /\ n < (n \div d) * d + d
  OBVIOUS

\* A quotient is the greatest number whose product is not greater.
LEMMA QuotientGreatest ==
    ASSUME NEW n \in Int, NEW d \in Nat \ {0}, NEW k \in Int, k * d <= n
    PROVE  k <= n \div d
  <1> PICK q : q = n \div d
    OBVIOUS
  <1>1. q \in Int /\ n < q * d + d
    BY QuotientFacts
  <1>2. SUFFICES ASSUME q + 1 <= k PROVE FALSE
    BY <1>1
  <1>3. (q + 1) * d <= k * d /\ (q + 1) * d \in Int /\ k * d \in Int
    BY <1>1, <1>2, ProductMonotone
  <1>4. (q + 1) * d = q * d + d
    BY <1>1
  <1> QED BY <1>1, <1>3, <1>4

\* The conversion to int of what is not negative, and of what is not greater.
LEMMA TruncatedWhole ==
    ASSUME NEW n \in Nat, NEW d \in Nat \ {0}
    PROVE  Truncated(n, d) = n \div d /\ Truncated(n, d) \in Nat
  <1>1. 0 * d <= n
    OBVIOUS
  <1>2. 0 <= n \div d /\ n \div d \in Int
    <2>1. 0 \in Int /\ n \in Int
      OBVIOUS
    <2> QED BY <1>1, <2>1, QuotientGreatest, QuotientFacts
  <1>3. Truncated(n, d) = n \div d
    BY DEF Truncated
  <1> QED BY <1>2, <1>3

\* That of a smaller number is not greater.
LEMMA TruncatedMonotone ==
    ASSUME NEW m \in Int, NEW n \in Nat, m <= n, NEW d \in Nat \ {0}
    PROVE  Truncated(m, d) \in Int /\ Truncated(m, d) <= Truncated(n, d)
  <1>1. CASE m >= 0
    <2>1. m \in Nat
      BY <1>1
    <2>2. Truncated(m, d) = m \div d /\ Truncated(m, d) \in Nat
      BY <2>1, TruncatedWhole
    <2>3. (m \div d) * d <= m /\ m \div d \in Int
      BY QuotientFacts
    <2>4. (m \div d) * d <= n
      BY <2>3
    <2>5. m \div d <= n \div d
      BY <2>3, <2>4, QuotientGreatest
    <2>6. Truncated(n, d) = n \div d
      BY TruncatedWhole
    <2> QED BY <2>2, <2>5, <2>6
  <1>2. CASE ~(m >= 0)
    <2>1. -m \in Nat
      BY <1>2
    <2>2. (-m) \div d \in Nat
      BY <2>1, TruncatedWhole
    <2>3. Truncated(m, d) = -((-m) \div d)
      BY <1>2 DEF Truncated
    <2>4. Truncated(n, d) \in Nat
      BY TruncatedWhole
    <2> QED BY <2>2, <2>3, <2>4
  <1> QED BY <1>1, <1>2

-----------------------------------------------------------------------------
(* One direction of the grid: the numbers of its cells. *)

Axis(bounds, size) ==
    /\ bounds.min \in Nat /\ bounds.max \in Nat /\ Range1(bounds) > 0
    /\ size \in Nat \ {0} /\ Margin \in Nat /\ Margin * size >= Range1(bounds)

\* A place a cell or more from the lower edge has a number of the grid, and it is
\* among those from any number a margin below it up to, and not with, that of any
\* number a margin above.
LEMMA CellOfPlace ==
    ASSUME NEW bounds, NEW size, Axis(bounds, size), NEW v \in Int, v <= bounds.max,
           CellsInside(v, bounds, size) >= 1,
           NEW low \in Int, low <= v - Margin, NEW high \in Int, v + Margin <= high
    PROVE  LET i == GetIndex(v, bounds, size)
           IN  /\ i \in 0..(size - 1)
               /\ GetIndex(low, bounds, size) \in Int
               /\ GetIndex(low, bounds, size) <= i
               /\ GetIndex(high, bounds, size) \in Int
               /\ i <= GetIndex(high, bounds, size) - 1
  <1> PICK min : min = bounds.min
    OBVIOUS
  <1> PICK range : range = Range1(bounds)
    OBVIOUS
  <1>1. /\ min \in Nat /\ range \in Nat \ {0} /\ bounds.max = min + range
        /\ size \in Nat \ {0} /\ Margin \in Nat /\ range <= Margin * size
    BY DEF Axis, Range1
  <1> PICK margin : margin = Margin
    OBVIOUS
  <1>2. margin \in Nat /\ range <= margin * size /\ margin * size \in Int
    BY <1>1
  <1> PICK q : q = (v - min) * size
    OBVIOUS
  <1> PICK p : p = (low - min) * size
    OBVIOUS
  <1> PICK r : r = (high - min) * size
    OBVIOUS
  <1>3. q \in Int /\ p \in Int /\ r \in Int
    BY <1>1, <1>2
  <1>4. 1 <= q \div range
    BY DEF CellsInside
  <1>5. range <= q
    <2>1. q \div range \in Int /\ (q \div range) * range <= q
      BY <1>1, <1>3, QuotientFacts
    <2>2. 1 * range <= (q \div range) * range
      BY <1>1, <1>4, <2>1, ProductMonotone
    <2>3. 1 * range = range /\ (q \div range) * range \in Int
      BY <1>1, <2>1
    <2> QED BY <1>1, <1>3, <2>1, <2>2, <2>3
  <1>6. q <= range * size
    <2>1. v - min \in Int /\ range \in Int /\ v - min <= range
      BY <1>1
    <2> QED BY <1>1, <2>1, ProductMonotone
  <1>7. p <= q
    <2>1. low - min \in Int /\ v - min \in Int /\ low - min <= v - min
      BY <1>1, <1>2
    <2> QED BY <1>1, <2>1, ProductMonotone
  <1>8. q + range <= r
    <2>1. v + margin - min \in Int /\ high - min \in Int
          /\ v + margin - min <= high - min
      BY <1>1, <1>2
    <2>2. (v + margin - min) * size <= r /\ (v + margin - min) * size \in Int
      BY <1>1, <2>1, ProductMonotone
    <2>3. (v + margin - min) * size = q + margin * size
      BY <1>1, <1>2
    <2> QED BY <1>1, <1>2, <1>3, <2>2, <2>3
  <1> PICK n : n = q - range
    OBVIOUS
  <1>9. /\ GetIndex(v, bounds, size) = Truncated(n, range)
        /\ GetIndex(low, bounds, size) = Truncated(p - range, range)
        /\ GetIndex(high, bounds, size) = Truncated(r - range, range)
    <2>1. \A x : GetIndex(x, bounds, size) = Truncated((x - min) * size - range, range)
      BY Zenon DEF GetIndex
    <2> QED BY <2>1, Zenon
  <1>10. /\ n \in Nat /\ p - range \in Int /\ p - range <= n
         /\ n + range \in Nat /\ r - range \in Nat /\ n + range <= r - range
    BY <1>1, <1>3, <1>5, <1>7, <1>8
  <1>11. /\ Truncated(n, range) \in Nat /\ Truncated(n, range) = n \div range
    BY <1>1, <1>10, TruncatedWhole
  <1>12. Truncated(p - range, range) \in Int /\ Truncated(p - range, range) <= Truncated(n, range)
    BY <1>1, <1>10, TruncatedMonotone
  <1> PICK i : i = n \div range
    OBVIOUS
  <1>13. i \in Nat /\ i * range <= n /\ i * range \in Int
    <2>1. n \in Int /\ range \in Nat \ {0}
      BY <1>1, <1>10
    <2>2. i * range <= n /\ i \in Int
      BY <2>1, QuotientFacts, Zenon
    <2> QED BY <1>11, <2>1, <2>2
  <1>14. i <= size - 1
    <2>1. SUFFICES ASSUME size <= i PROVE FALSE
      BY <1>1, <1>13
    <2>2. size * range <= i * range
      BY <1>1, <1>13, <2>1, ProductMonotone
    <2>3. size * range = range * size /\ range * size \in Int
      BY <1>1
    <2> QED BY <1>1, <1>3, <1>6, <1>13, <2>2, <2>3
  <1>15. i + 1 <= Truncated(r - range, range) /\ Truncated(r - range, range) \in Int
    <2>1. (i + 1) * range <= r - range
      <3>1. (i + 1) * range = i * range + range
        BY <1>1, <1>13
      <3> QED BY <1>1, <1>3, <1>10, <1>13, <3>1
    <2>2. i + 1 <= (r - range) \div range
      <3>1. i + 1 \in Int /\ r - range \in Int /\ range \in Nat \ {0}
        BY <1>1, <1>10, <1>13
      <3> QED BY <2>1, <3>1, QuotientGreatest, Zenon
    <2>3. Truncated(r - range, range) = (r - range) \div range /\ Truncated(r - range, range) \in Nat
      BY <1>1, <1>10, TruncatedWhole
    <2> QED BY <2>2, <2>3
  <1> QED BY <1>1, <1>9, <1>11, <1>12, <1>13, <1>14, <1>15

\* The two directions of the grid.
LEMMA AxesRight == Axis(lcd_x, grid_size_x) /\ Axis(lcd_y, grid_size_y)
  <1>1. /\ lcd_x.min \in Nat /\ lcd_x.max \in Nat /\ Range1(lcd_x) > 0
        /\ lcd_y.min \in Nat /\ lcd_y.max \in Nat /\ Range1(lcd_y) > 0
    <2> PICK x : x = lcd_x
      OBVIOUS
    <2> PICK y : y = lcd_y
      OBVIOUS
    <2>1. x \in [min : Nat, max : Nat] /\ y \in [min : Nat, max : Nat]
          /\ Range1(lcd_x) > 0 /\ Range1(lcd_y) > 0
      BY RangeAssumption
    <2> QED BY <2>1
  <1>2. grid_size_x \in Nat \ {0} /\ grid_size_y \in Nat \ {0} /\ Margin \in Nat
    BY GridAssumption
  <1>3. Margin * grid_size_x >= Range1(lcd_x) /\ Margin * grid_size_y >= Range1(lcd_y)
    BY MarginAssumption
  <1> QED BY <1>1, <1>2, <1>3, Zenon DEF Axis

\* The place of a location with one is within the extent of the places.
LEMMA PlaceRight ==
    ASSUME NEW loc, PlacesOf(loc) # {}
    PROVE  LET p == Place(loc)
           IN  p.x \in Nat /\ p.y \in Nat /\ p.x <= lcd_x.max /\ p.y <= lcd_y.max
  <1> PICK T : T = PlacesOf(loc)
    OBVIOUS
  <1>1. T \subseteq DOMAIN Points /\ DOMAIN Points = 1..Len(Points) /\ Len(Points) \in Nat
    BY PointsAssumption DEF PlacesOf
  <1>2. IsFiniteSet(T) /\ T \subseteq Nat
    <2>1. IsFiniteSet(1..Len(Points))
      BY <1>1, FS_Interval
    <2> QED BY <1>1, <2>1, FS_Subset
  <1> PICK m : m = Max(T)
    OBVIOUS
  <1>3. m \in T
    BY <1>2, GreatestMember
  <1>4. m \in DOMAIN Points /\ Place(loc) = Points[m]
    BY <1>1, <1>3 DEF Place
  <1>5. Points[m] \in [lcd : Locations, x : Nat \ {0}, y : Nat \ {0}]
    <2> DEFINE S == [lcd : Locations, x : Nat \ {0}, y : Nat \ {0}]
    <2>1. Points \in Seq(S) /\ m \in 1..Len(Points)
      BY <1>1, <1>4, PointsAssumption
    <2>2. Points[m] \in S
      <3> HIDE DEF S
      <3> QED BY <2>1
    <2> QED BY <2>2
  <1> QED BY <1>4, <1>5, ExtentAssumption

\* The cell of a place of a view is one of those that are asked.
LEMMA ViewHasCell ==
    ASSUME NEW view \in Views, NEW loc \in Due[view]
    PROVE  grid_ids[loc] \in Cells /\ grid_ids[loc] \in ViewCells[view]
  <1>1. /\ loc \in Locations /\ PlacesOf(loc) # {} /\ grid_ids[loc] \in Cells
        /\ Inside(Place(loc)) /\ InView(Place(loc), view)
    BY DEF Due
  <1> PICK p : p = Place(loc)
    OBVIOUS
  <1>2. p.x \in Nat /\ p.y \in Nat /\ p.x <= lcd_x.max /\ p.y <= lcd_y.max
    BY <1>1, PlaceRight
  <1> PICK ne : ne = view.northEast
    OBVIOUS
  <1> PICK sw : sw = view.southWest
    OBVIOUS
  <1>3. ne.x \in Int /\ ne.y \in Int /\ sw.x \in Int /\ sw.y \in Int
    <2>1. view \in View
      BY ViewsAssumption
    <2>2. ne \in [x : Int, y : Int] /\ sw \in [x : Int, y : Int]
      BY <2>1 DEF View
    <2> QED BY <2>2
  <1>4. Margin \in Nat
    BY GridAssumption
  <1>5. sw.x <= p.x /\ p.x <= ne.x /\ sw.y <= p.y /\ p.y <= ne.y
    BY <1>1 DEF InView
  <1> PICK x : x = getXIndex(p.x)
    OBVIOUS
  <1> PICK y : y = getYIndex(p.y)
    OBVIOUS
  <1> PICK w : w = Widened(view)
    OBVIOUS
  <1>6. /\ w.northEast.x = ne.x + Margin /\ w.northEast.y = ne.y + Margin
        /\ w.southWest.x = sw.x - Margin /\ w.southWest.y = sw.y - Margin
    BY DEF Widened
  <1>7. /\ x \in 0..(grid_size_x - 1)
        /\ x \in getXIndex(w.southWest.x)..(getXIndex(w.northEast.x) - 1)
    <2> PICK low : low = w.southWest.x
      OBVIOUS
    <2> PICK high : high = w.northEast.x
      OBVIOUS
    <2>1. low \in Int /\ high \in Int /\ low <= p.x - Margin /\ p.x + Margin <= high
      BY <1>2, <1>3, <1>4, <1>5, <1>6
    <2>2. CellsInside(p.x, lcd_x, grid_size_x) >= 1
      BY <1>1 DEF Inside
    <2>3. /\ x \in 0..(grid_size_x - 1)
          /\ getXIndex(low) \in Int /\ getXIndex(low) <= x
          /\ getXIndex(high) \in Int /\ x <= getXIndex(high) - 1
      BY <1>2, <2>1, <2>2, AxesRight, CellOfPlace DEF getXIndex
    <2>4. x \in Int
      BY <2>3
    <2> QED BY <2>3, <2>4
  <1>8. /\ y \in 0..(grid_size_y - 1)
        /\ y \in getYIndex(w.southWest.y)..(getYIndex(w.northEast.y) - 1)
    <2> PICK low : low = w.southWest.y
      OBVIOUS
    <2> PICK high : high = w.northEast.y
      OBVIOUS
    <2>1. low \in Int /\ high \in Int /\ low <= p.y - Margin /\ p.y + Margin <= high
      BY <1>2, <1>3, <1>4, <1>5, <1>6
    <2>2. CellsInside(p.y, lcd_y, grid_size_y) >= 1
      BY <1>1 DEF Inside
    <2>3. /\ y \in 0..(grid_size_y - 1)
          /\ getYIndex(low) \in Int /\ getYIndex(low) <= y
          /\ getYIndex(high) \in Int /\ y <= getYIndex(high) - 1
      BY <1>2, <2>1, <2>2, AxesRight, CellOfPlace DEF getYIndex
    <2>4. y \in Int
      BY <2>3
    <2> QED BY <2>3, <2>4
  <1>9. /\ x \in {n \in getXIndex(w.southWest.x)..(getXIndex(w.northEast.x) - 1) :
                    0 <= n /\ n < grid_size_x}
        /\ y \in {n \in getYIndex(w.southWest.y)..(getYIndex(w.northEast.y) - 1) :
                    0 <= n /\ n < grid_size_y}
    <2>1. 0 <= x /\ x < grid_size_x /\ 0 <= y /\ y < grid_size_y
      BY <1>7, <1>8, GridAssumption
    <2> QED BY <1>7, <1>8, <2>1
  <1>10. getGridIndex(x, y) \in getGridIndexes(w)
    <2> PICK X : X = {n \in getXIndex(w.southWest.x)..(getXIndex(w.northEast.x) - 1) :
                         0 <= n /\ n < grid_size_x}
      OBVIOUS
    <2> PICK Y : Y = {n \in getYIndex(w.southWest.y)..(getYIndex(w.northEast.y) - 1) :
                         0 <= n /\ n < grid_size_y}
      OBVIOUS
    <2>1. x \in X /\ y \in Y
      BY <1>9, Zenon
    <2>2. getGridIndexes(w) = {getGridIndex(j, i) : j \in X, i \in Y}
      BY DEF getGridIndexes
    <2> QED BY <2>1, <2>2
  <1>11. grid_ids[loc] = getGridIndex(x, y)
    BY <1>1 DEF grid_ids
  <1>12. ViewCells[view] = getGridIndexes(w)
    BY DEF ViewCells
  <1> QED BY <1>1, <1>10, <1>11, <1>12

\* A slice of a sequence of numbers.
HasNumber(t, x) == t \in Seq(Nat) /\ \E i \in 1..Len(t) : t[i] = x

\* An element of a slice.
LEMMA SliceElement ==
    ASSUME NEW s \in Seq(Nat), NEW a \in 0..Len(s), NEW b \in 0..Len(s),
           NEW k \in 1..Len(s), a < k, k <= b
    PROVE  HasNumber(SubSeq(s, a + 1, b), s[k])
  <1>1. a \in Nat /\ b \in Nat /\ k \in Nat /\ Len(s) \in Nat
    OBVIOUS
  <1> PICK t : t = SubSeq(s, a + 1, b)
    OBVIOUS
  <1>2. t \in Seq(Nat) /\ Len(t) = b - a /\ \A i \in 1..(b - a) : t[i] = s[a + i]
    BY <1>1
  <1>3. k - a \in 1..(b - a) /\ a + (k - a) = k
    BY <1>1
  <1>4. t[k - a] = s[k] /\ k - a \in 1..Len(t)
    BY <1>2, <1>3
  <1> QED BY <1>2, <1>4 DEF HasNumber

\* What a view is to show is found in its cells.
LEMMA ViewFound == Saved(data_file) => ViewShown
  <1> SUFFICES ASSUME Saved(data_file) PROVE ViewShown
    OBVIOUS
  <1> PICK d : d = data_file
    OBVIOUS
  <1> PICK max : max = Max(Times)
    OBVIOUS
  <1>0. max \in Times /\ \A t \in Times : t <= max
    BY LogBoundsAssumption, GreatestMember
  <1>1. IsData(d) /\ CellsRight(d) /\ d.events \in Seq(Event) /\ Numbers(d) = 1..Len(d.events)
    BY DEF Saved, IsData, Numbers
  <1> PICK found : found = [c \in Filled |->
                              ToSet(TD!getEventsOfIndex(d, -1, max + 1, 0, 0, c))]
    OBVIOUS
  <1>2. ASSUME NEW view \in Views, NEW n \in Numbers(d), d.events[n].lcd \in Due[view]
        PROVE  n \in query(view, found)
    <2> PICK c : c = grid_ids[d.events[n].lcd]
      OBVIOUS
    <2>1. c \in Cells /\ c \in ViewCells[view]
      BY <1>2, ViewHasCell
    <2> PICK cell : cell = d.grid[c]
      OBVIOUS
    <2>2. cell \in Seq(Nat) /\ CellRight(d.events, cell, c)
      BY <1>1, <2>1 DEF IsData, CellsRight
    <2>3. PICK k \in 1..Len(cell) : cell[k] = n
      BY <1>1, <1>2, <2>2 DEF CellRight
    <2>4. c \in Filled
      <3>1. cell # <<>>
        <4>1. 1..Len(<<>>) = {}
          OBVIOUS
        <4> QED BY <2>3, <4>1, Zenon
      <3> QED BY <2>1, <3>1 DEF Filled
    <2>5. d.events[n].start \in Times
      <3>1. d.events[n] \in Event
        BY <1>1, <1>2
      <3> QED BY <3>1 DEF Event
    <2>6. -1 < d.events[n].start /\ d.events[n].start < max + 1
      <3>1. d.events[n].start \in Nat /\ max \in Nat
        BY <1>0, <2>5, TimesNatural, Zenon
      <3> QED BY <1>0, <2>5, <3>1
    <2> PICK list : list = TD!getEventsOfIndex(d, -1, max + 1, 0, 0, c)
      OBVIOUS
    <2>7. PICK a, b \in 0..Len(cell) :
             /\ list = SubSeq(cell, a + 1, b)
             /\ \A j \in 1..Len(cell) :
                   -1 < d.events[cell[j]].start /\ d.events[cell[j]].start < max + 1
                     <=> a < j /\ j <= b
      <3>1. -1 \in Int /\ max + 1 \in Int
        BY <1>0, TimesNatural
      <3>2. Saved(d)
        OBVIOUS
      <3>3. Between(d, cell, -1, max + 1, list)
        BY <2>1, <3>1, <3>2, QueryBetween, Zenon
      <3> QED BY <3>3 DEF Between
    <2>8. a < k /\ k <= b
      BY <2>3, <2>6, <2>7
    <2>9. list \in Seq(Nat) /\ \E i \in 1..Len(list) : list[i] = n
      <3>1. HasNumber(SubSeq(cell, a + 1, b), cell[k])
        <4>1. a \in 0..Len(cell) /\ b \in 0..Len(cell) /\ k \in 1..Len(cell) /\ a < k /\ k <= b
          BY <2>3, <2>7, <2>8
        <4> QED BY <2>2, <4>1, SliceElement, Zenon
      <3> QED BY <2>3, <2>7, <3>1 DEF HasNumber
    <2>10. n \in ToSet(list)
      BY <2>9, ToSetElements
    <2>11. n \in found[c] /\ c \in DOMAIN found
      BY <2>4, <2>10
    <2> QED BY <2>1, <2>11 DEF query
  <1>3. \A view \in Views : {n \in Numbers(d) : d.events[n].lcd \in Due[view]} \subseteq query(view, found)
    BY <1>2, Zenon
  <1> QED BY <1>3, Zenon DEF ViewShown

\* tmcwebserver shows all that there is to show: after every import a view of the map has
\* every event whose place is in it, and a cell or more from the edge of the grid in the
\* south and west (TmcData::getGridIndexes(), the margin of handle_request()).
THEOREM ViewsShowTheirEvents == Spec => ViewShowsItsEvents
  <1>1. ImpInv /\ [Next]_vars => [data_file' # data_file => ViewShown']_vars
    <2> SUFFICES ASSUME ImpInv, [Next]_vars PROVE ViewShown'
      OBVIOUS
    <2>1. ImpInv'
      BY ImpInvStep
    <2>2. Saved(data_file)'
      BY <2>1, SavedData, PTL
    <2>3. (Saved(data_file) => ViewShown)'
      BY ViewFound, PTL
    <2> QED BY <2>2, <2>3
  <1> QED BY <1>1, ImportInvariance, PTL DEF Spec, ViewShowsItsEvents

-----------------------------------------------------------------------------
(* The hour index *)

\* Indexed is a recursive function.
IsIndexing(x, events, cell) ==
    /\ x[0] = [h \in TD!Hours |-> <<>>]
    /\ \A n \in 1..Len(cell) :
          x[n] = [x[n - 1] EXCEPT ![TD!getHour(events[cell[n]].start)] = TD!AddToHour(@, n - 1)]

\* The runs after each of the events follow from those after the one before.
LEMMA IndexedRecursion ==
    ASSUME NEW events, NEW cell, Len(cell) \in Nat
    PROVE  IsIndexing(TD!Indexed(events, cell), events, cell)
  <1> PICK first : first = [h \in TD!Hours |-> <<>>]
    OBVIOUS
  <1> DEFINE Next1(r, n) == [r EXCEPT ![TD!getHour(events[cell[n]].start)] = TD!AddToHour(@, n - 1)]
             Step(g, n) == [k \in 0..n |-> IF k = 0 THEN first ELSE Next1(g[k - 1], k)]
             Good == {n \in Nat : \E g : g = Step(g, n)}
             indexed == TD!Indexed(events, cell)
  <1>5. indexed = CHOOSE g : g = Step(g, Len(cell))
    BY DEF TD!Indexed
  <1> HIDE DEF Next1, indexed
  <1>1. 0 \in Good
    <2> DEFINE e == [k \in 0..0 |-> first]
    <2>1. e = Step(e, 0)
      OBVIOUS
    <2> HIDE DEF e, Step
    <2> QED BY <2>1
  <1>2. ASSUME NEW n \in Nat, n \in Good PROVE n + 1 \in Good
    <2>1. PICK g : g = Step(g, n)
      <3> HIDE DEF Step
      <3> QED BY <1>2
    <2>2. PICK new : new = Next1(g[n], n + 1)
      OBVIOUS
    <2> DEFINE h == [k \in 0..(n + 1) |-> IF k = n + 1 THEN new ELSE g[k]]
    <2>3. ASSUME NEW k \in 0..(n + 1)
          PROVE  h[k] = IF k = 0 THEN first ELSE Next1(h[k - 1], k)
      <3>1. CASE k = n + 1
        <4>1. h[k] = new /\ k - 1 = n /\ h[k - 1] = g[n] /\ k # 0
          BY <3>1
        <4> QED BY <2>2, <3>1, <4>1
      <3>2. CASE k # n + 1
        <4>1. k \in 0..n /\ h[k] = g[k] /\ (k # 0 => h[k - 1] = g[k - 1])
          BY <3>2
        <4>2. g[k] = IF k = 0 THEN first ELSE Next1(g[k - 1], k)
          BY <2>1, <4>1
        <4> HIDE DEF h
        <4> QED BY <4>1, <4>2
      <3> QED BY <3>1, <3>2
    <2>4. h = [k \in 0..(n + 1) |-> h[k]]
      OBVIOUS
    <2>5. h = Step(h, n + 1)
      <3> HIDE DEF h
      <3> QED BY <2>3, <2>4
    <2> HIDE DEF h, Step
    <2> QED BY <2>5
  <1>3. Nat \subseteq Good
    <2> HIDE DEF Good
    <2> QED BY <1>1, <1>2, SetInduction
  <1>4. Len(cell) \in Good
    <2> HIDE DEF Good
    <2> QED BY <1>3
  <1>6. indexed = Step(indexed, Len(cell))
    <2>1. \E g : g = Step(g, Len(cell))
      <3> HIDE DEF Step
      <3> QED BY <1>4
    <2> HIDE DEF Step
    <2> QED BY <1>5, <2>1
  <1> PICK x : x = indexed
    OBVIOUS
  <1>7. \A k \in 0..Len(cell) : x[k] = IF k = 0 THEN first ELSE Next1(x[k - 1], k)
    BY <1>6
  <1>8. x[0] = first
    BY <1>7
  <1>9. ASSUME NEW n \in 1..Len(cell) PROVE x[n] = Next1(x[n - 1], n)
    <2>1. n \in 0..Len(cell) /\ n # 0
      BY <1>9
    <2> QED BY <1>7, <2>1
  <1>10. x = TD!Indexed(events, cell)
    BY DEF indexed
  <1> QED BY <1>8, <1>9, <1>10 DEF IsIndexing, Next1

\* The runs of an hour after the first n events: hours has the hour of each event.
Runs == Seq(Nat \X Nat)
First(runs, k) == runs[k][1] + 1
Final(runs, k) == runs[k][1] + runs[k][2] + 1

RunsRight(runs, hours, n, h) ==
    /\ runs \in Runs
    /\ \A k \in 1..Len(runs) : Final(runs, k) <= n
    /\ \A j, k \in 1..Len(runs) : j < k => Final(runs, j) + 1 < First(runs, k)
    /\ \A m \in 1..n : hours[m] = h
          <=> \E k \in 1..Len(runs) : First(runs, k) <= m /\ m <= Final(runs, k)

\* Positions are naturals.
LEMMA RunBounds ==
    ASSUME NEW runs \in Runs, NEW k \in 1..Len(runs)
    PROVE  /\ First(runs, k) \in Nat /\ Final(runs, k) \in Nat
           /\ First(runs, k) >= 1 /\ Final(runs, k) >= First(runs, k)
  <1>1. runs[k] \in Nat \X Nat
    BY DEF Runs
  <1>2. runs[k][1] \in Nat /\ runs[k][2] \in Nat
    BY <1>1
  <1> QED BY <1>2 DEF First, Final

\* An event of another hour, and one of the hour.
LEMMA OtherHour ==
    ASSUME NEW runs, NEW hours, NEW n \in Nat, NEW h, RunsRight(runs, hours, n, h),
           hours[n + 1] # h
    PROVE  RunsRight(runs, hours, n + 1, h)
  <1>1. runs \in Runs /\ Len(runs) \in Nat
    BY DEF RunsRight, Runs
  <1>2. \A k \in 1..Len(runs) : Final(runs, k) <= n /\ Final(runs, k) \in Nat
    BY <1>1, RunBounds DEF RunsRight
  <1>3. \A k \in 1..Len(runs) : Final(runs, k) <= n + 1 /\ ~(n + 1 <= Final(runs, k))
    BY <1>2
  <1>4. ASSUME NEW m \in 1..(n + 1)
        PROVE  hours[m] = h <=> \E k \in 1..Len(runs) : First(runs, k) <= m /\ m <= Final(runs, k)
    <2>1. CASE m = n + 1
      BY <1>3, <2>1
    <2>2. CASE m # n + 1
      <3>1. m \in 1..n
        BY <2>2
      <3> QED BY <3>1 DEF RunsRight
    <2> QED BY <2>1, <2>2
  <1> QED BY <1>1, <1>3, <1>4 DEF RunsRight

\* A run is made one longer, or a new one is begun, so that what is told of runs
\* becomes true of one position more.
Grown(new, runs, n) ==
    /\ new \in Runs /\ Len(new) \in {Len(runs), Len(runs) + 1} /\ Len(new) >= 1
    /\ \A k \in 1..Len(new) :
          k # Len(new) => k \in 1..Len(runs) /\ First(new, k) = First(runs, k)
                                             /\ Final(new, k) = Final(runs, k)
    /\ Final(new, Len(new)) = n + 1
    /\ \/ /\ Len(new) = Len(runs)
          /\ First(new, Len(new)) = First(runs, Len(runs)) /\ Final(runs, Len(runs)) = n
       \/ /\ Len(new) = Len(runs) + 1 /\ First(new, Len(new)) = n + 1
          /\ Len(runs) > 0 => Final(runs, Len(runs)) # n

\* AddToHour() does that.
LEMMA HourAdded ==
    ASSUME NEW runs \in Runs, NEW n \in Nat, NEW new, new = TD!AddToHour(runs, n)
    PROVE  Grown(new, runs, n)
  <1>0. runs \in Seq(Nat \X Nat) /\ Len(runs) \in Nat
    BY DEF Runs
  <1> PICK L : L = Len(runs)
    OBVIOUS
  <1>1. CASE TD!Extends(runs, n)
    <2>1. runs # <<>> /\ runs[L][1] + runs[L][2] + 1 = n
      BY <1>1 DEF TD!Extends, TD!Last
    <2>2. L \in 1..L
      BY <1>0, <2>1
    <2>3. runs[L] \in Nat \X Nat
      BY <1>0, <2>2
    <2> PICK p : p = runs[L][1]
      OBVIOUS
    <2> PICK q : q = runs[L][2]
      OBVIOUS
    <2>4. p \in Nat /\ q \in Nat /\ p + q + 1 = n
      BY <2>1, <2>3
    <2>5. new = [runs EXCEPT ![L] = <<p, q + 1>>]
      BY <1>1 DEF TD!AddToHour
    <2>6. /\ new \in Seq(Nat \X Nat) /\ Len(new) = L /\ new[L] = <<p, q + 1>>
          /\ \A k \in 1..L : k # L => new[k] = runs[k]
      BY <1>0, <2>2, <2>4, <2>5
    <2>7. new[L][1] = p /\ new[L][2] = q + 1
      BY <2>6
    <2>8. First(new, L) = p + 1 /\ Final(new, L) = n + 1 /\ First(runs, L) = p + 1 /\ Final(runs, L) = n
      <3>1. /\ First(new, L) = p + 1 /\ Final(new, L) = p + (q + 1) + 1
            /\ First(runs, L) = p + 1 /\ Final(runs, L) = p + q + 1
        BY <2>7, Zenon DEF First, Final
      <3>2. p + (q + 1) + 1 = n + 1
        BY <2>4, SMTT(40)
      <3> QED BY <2>4, <3>1, <3>2
    <2>9. \A k \in 1..L : k # L => First(new, k) = First(runs, k) /\ Final(new, k) = Final(runs, k)
      BY <2>6 DEF First, Final
    <2> QED BY <1>0, <2>2, <2>6, <2>8, <2>9 DEF Grown, Runs
  <1>2. CASE ~TD!Extends(runs, n)
    <2>1. new = Append(runs, <<n, 0>>)
      BY <1>2 DEF TD!AddToHour
    <2> PICK e : e = <<n, 0>>
      OBVIOUS
    <2>2. e \in Nat \X Nat /\ e[1] = n /\ e[2] = 0
      OBVIOUS
    <2>3. /\ new \in Seq(Nat \X Nat) /\ Len(new) = L + 1 /\ new[L + 1] = e
          /\ \A k \in 1..L : new[k] = runs[k]
      BY <1>0, <2>1, <2>2, AppendElements
    <2>4. First(new, L + 1) = n + 1 /\ Final(new, L + 1) = n + 1
      BY <2>2, <2>3 DEF First, Final
    <2>5. \A k \in 1..L : First(new, k) = First(runs, k) /\ Final(new, k) = Final(runs, k)
      BY <2>3 DEF First, Final
    <2>6. L > 0 => Final(runs, L) # n
      <3> SUFFICES ASSUME L > 0 PROVE Final(runs, L) # n
        OBVIOUS
      <3>1. runs # <<>>
        BY <1>0
      <3> QED BY <1>2, <3>1 DEF TD!Extends, TD!Last, Final
    <2>7. \A k \in 1..(L + 1) : k # L + 1 => k \in 1..L
      BY <1>0
    <2> QED BY <1>0, <2>3, <2>4, <2>5, <2>6, <2>7 DEF Grown, Runs
  <1> QED BY <1>1, <1>2

\* Then the runs of the hour are right after one event more.
LEMMA SameHour ==
    ASSUME NEW runs, NEW hours, NEW n \in Nat, NEW h, RunsRight(runs, hours, n, h),
           hours[n + 1] = h, NEW new, Grown(new, runs, n)
    PROVE  RunsRight(new, hours, n + 1, h)
  <1> PICK L : L = Len(runs)
    OBVIOUS
  <1> PICK K : K = Len(new)
    OBVIOUS
  <1>1. runs \in Runs /\ L \in Nat /\ new \in Runs /\ K \in Nat \ {0} /\ K \in {L, L + 1}
    BY DEF RunsRight, Runs, Grown
  <1>2. \A k \in 1..L : /\ Final(runs, k) \in Nat /\ First(runs, k) \in Nat
                        /\ First(runs, k) <= Final(runs, k) /\ Final(runs, k) <= n
    BY <1>1, RunBounds DEF RunsRight
  <1>3. \A k \in 1..K : k # K => /\ k \in 1..L /\ First(new, k) = First(runs, k)
                                 /\ Final(new, k) = Final(runs, k)
    BY DEF Grown
  <1>4. Final(new, K) = n + 1
    BY DEF Grown
  <1>5. \A k \in 1..K : Final(new, k) <= n + 1
    BY <1>2, <1>3, <1>4
  <1>6. ASSUME NEW j \in 1..K, NEW k \in 1..K, j < k
        PROVE  Final(new, j) + 1 < First(new, k)
    <2>1. j # K /\ j \in 1..L /\ Final(new, j) = Final(runs, j)
      BY <1>1, <1>3, <1>6
    <2>2. CASE k # K
      <3>1. k \in 1..L /\ First(new, k) = First(runs, k)
        BY <1>3, <2>2
      <3> QED BY <1>6, <2>1, <3>1 DEF RunsRight
    <2>3. CASE k = K /\ K = L
      <3>1. k \in 1..L /\ First(new, k) = First(runs, k)
        BY <1>1, <2>3 DEF Grown
      <3> QED BY <1>6, <2>1, <3>1 DEF RunsRight
    <2>4. CASE k = K /\ K = L + 1
      <3>1. First(new, k) = n + 1 /\ Final(runs, L) # n
        BY <1>1, <2>1, <2>4 DEF Grown
      <3>2. CASE j = L
        BY <1>2, <2>1, <3>1, <3>2
      <3>3. CASE j # L
        <4>1. L \in 1..L /\ j < L
          BY <1>1, <2>1, <3>3
        <4>2. Final(runs, j) + 1 < First(runs, L)
          BY <2>1, <4>1 DEF RunsRight
        <4>3. First(runs, L) <= n /\ First(runs, L) \in Nat /\ Final(runs, j) \in Nat
          BY <1>2, <2>1, <4>1
        <4> QED BY <2>1, <3>1, <4>2, <4>3
      <3> QED BY <3>2, <3>3
    <2> QED BY <1>1, <2>2, <2>3, <2>4
  <1>7. ASSUME NEW m \in 1..(n + 1)
        PROVE  hours[m] = h <=> \E k \in 1..K : First(new, k) <= m /\ m <= Final(new, k)
    <2>1. CASE m = n + 1
      <3>1. K \in 1..K /\ First(new, K) <= m /\ m <= Final(new, K)
        <4>1. K \in 1..K
          BY <1>1
        <4>2. First(new, K) <= Final(new, K)
          BY <1>1, <4>1, RunBounds
        <4>3. Final(new, K) = m
          BY <1>4, <2>1
        <4>4. First(new, K) \in Nat
          BY <1>1, <4>1, RunBounds
        <4> QED BY <4>1, <4>2, <4>3, <4>4
      <3> QED BY <2>1, <3>1
    <2>2. CASE m # n + 1
      <3>0. m \in 1..n
        BY <2>2
      <3>1. hours[m] = h <=> \E k \in 1..L : First(runs, k) <= m /\ m <= Final(runs, k)
        BY <3>0 DEF RunsRight
      <3>2. ASSUME NEW k \in 1..L, First(runs, k) <= m, m <= Final(runs, k)
            PROVE  \E i \in 1..K : First(new, i) <= m /\ m <= Final(new, i)
        <4>1. k \in 1..K
          BY <1>1
        <4>2. CASE k # K
          BY <1>3, <3>2, <4>1, <4>2
        <4>3. CASE k = K
          <5>1. K = L
            BY <1>1, <4>3
          <5>2. First(new, K) = First(runs, K)
            BY <1>1, <5>1 DEF Grown
          <5>3. m <= Final(new, K)
            BY <1>4
          <5> QED BY <3>2, <4>1, <4>3, <5>2, <5>3
        <4> QED BY <4>2, <4>3
      <3>3. ASSUME NEW k \in 1..K, First(new, k) <= m, m <= Final(new, k)
            PROVE  \E i \in 1..L : First(runs, i) <= m /\ m <= Final(runs, i)
        <4>1. CASE k # K
          BY <1>3, <3>3, <4>1
        <4>2. CASE k = K /\ K = L
          <5>1. First(new, K) = First(runs, K) /\ Final(runs, K) = n /\ K \in 1..L
            BY <1>1, <4>2 DEF Grown
          <5>2. m <= n
            BY <3>0
          <5> QED BY <3>3, <4>2, <5>1, <5>2
        <4>3. CASE k = K /\ K = L + 1
          <5>1. First(new, K) = n + 1
            BY <1>1, <4>3 DEF Grown
          <5> QED BY <3>0, <3>3, <4>3, <5>1
        <4> QED BY <1>1, <4>1, <4>2, <4>3
      <3> QED BY <3>1, <3>2, <3>3
    <2> QED BY <2>1, <2>2
  <1> QED BY <1>1, <1>5, <1>6, <1>7 DEF RunsRight

\* The runs of each hour.
Hourly(x, hours, n) ==
    /\ x = [h \in TD!Hours |-> x[h]]
    /\ \A h \in TD!Hours : RunsRight(x[h], hours, n, h)

\* The runs of all hours after one event more.
LEMMA HourlyStep ==
    ASSUME NEW x, NEW hours, NEW n \in Nat, Hourly(x, hours, n), hours[n + 1] \in TD!Hours,
           NEW y, y = [x EXCEPT ![hours[n + 1]] = TD!AddToHour(@, n)]
    PROVE  Hourly(y, hours, n + 1)
  <1> PICK g : g = hours[n + 1]
    OBVIOUS
  <1> PICK new : new = TD!AddToHour(x[g], n)
    OBVIOUS
  <1>1. /\ y = [h \in TD!Hours |-> y[h]]
        /\ y[g] = new /\ \A h \in TD!Hours : h # g => y[h] = x[h]
    BY DEF Hourly
  <1>2. ASSUME NEW h \in TD!Hours PROVE RunsRight(y[h], hours, n + 1, h)
    <2>0. RunsRight(x[h], hours, n, h)
      BY DEF Hourly
    <2>1. CASE h = g
      <3>1. x[g] \in Runs
        BY <2>0, <2>1 DEF RunsRight
      <3>2. Grown(new, x[g], n)
        BY <3>1, HourAdded
      <3> QED BY <1>1, <2>0, <2>1, <3>2, SameHour
    <2>2. CASE h # g
      <3>1. RunsRight(x[h], hours, n + 1, h)
        BY <2>0, <2>2, OtherHour
      <3> QED BY <1>1, <2>2, <3>1
    <2> QED BY <2>1, <2>2
  <1> QED BY <1>1, <1>2 DEF Hourly

\* The hours of a day.
LEMMA HourOfTime ==
    ASSUME NEW time \in Nat
    PROVE  TD!getHour(time) \in TD!Hours
  <1> PICK S : S = StepsPerHour
    OBVIOUS
  <1> PICK H : H = HoursOfDay
    OBVIOUS
  <1>1. S \in Nat \ {0} /\ H \in Nat \ {0}
    BY HourAssumption
  <1>2. time \div S \in Int
    BY <1>1, QuotientFacts
  <1>3. (time \div S) % H \in 0..(H - 1)
    <2> PICK t : t = time \div S
      OBVIOUS
    <2> QED BY <1>1, <1>2
  <1> QED BY <1>3 DEF TD!getHour, TD!Hours

\* The hours of the events of a cell.
HoursOf(events, cell) == [n \in 1..Len(cell) |-> TD!getHour(events[cell[n]].start)]

\* The loop over a cell finds the runs of every hour, by induction over its events.
LEMMA CellIndexed ==
    ASSUME NEW d, Saved(d), NEW c \in Cells, NEW cell, cell = d.grid[c]
    PROVE  Hourly(TD!Indexed(d.events, cell)[Len(cell)], HoursOf(d.events, cell), Len(cell))
  <1>1. cell \in Seq(Nat) /\ Len(cell) \in Nat /\ CellRight(d.events, cell, c)
        /\ d.events \in Seq(Event)
    BY DEF Saved, IsData, CellsRight
  <1> PICK L : L = Len(cell)
    OBVIOUS
  <1> PICK hours : hours = HoursOf(d.events, cell)
    OBVIOUS
  <1>2. ASSUME NEW n \in 1..L PROVE hours[n] = TD!getHour(d.events[cell[n]].start) /\ hours[n] \in TD!Hours
    <2>1. d.events[cell[n]] \in Event
      BY <1>1 DEF CellRight
    <2>2. d.events[cell[n]].start \in Times
      BY <2>1 DEF Event
    <2>3. d.events[cell[n]].start \in Nat
      BY <2>2, TimesNatural, Zenon
    <2>4. hours[n] = TD!getHour(d.events[cell[n]].start)
      BY DEF HoursOf
    <2> QED BY <2>3, <2>4, HourOfTime
  <1> PICK x : x = TD!Indexed(d.events, cell)
    OBVIOUS
  <1>3. IsIndexing(x, d.events, cell)
    BY <1>1, IndexedRecursion
  <1> DEFINE Good == {n \in Nat : n <= L => Hourly(x[n], hours, n)}
  <1>4. 0 \in Good
    <2>1. x[0] = [h \in TD!Hours |-> <<>>]
      BY <1>3 DEF IsIndexing
    <2>2. ASSUME NEW h \in TD!Hours PROVE RunsRight(x[0][h], hours, 0, h)
      <3> PICK none : none = <<>>
        OBVIOUS
      <3>1. none \in Seq(Nat \X Nat) /\ Len(none) = 0 /\ x[0][h] = none
        BY <2>1
      <3>2. \A k \in 1..Len(none) : FALSE
        BY <3>1
      <3>3. \A m \in 1..0 : FALSE
        OBVIOUS
      <3>4. RunsRight(none, hours, 0, h)
        BY <3>1, <3>2, <3>3 DEF RunsRight, Runs
      <3> QED BY <3>1, <3>4
    <2> QED BY <2>1, <2>2 DEF Hourly
  <1>5. ASSUME NEW n \in Nat, n \in Good PROVE n + 1 \in Good
    <2> SUFFICES ASSUME n + 1 <= L PROVE Hourly(x[n + 1], hours, n + 1)
      BY <1>5
    <2>1. n \in Nat /\ n + 1 \in 1..L /\ Hourly(x[n], hours, n)
      BY <1>1, <1>5
    <2>2. hours[n + 1] = TD!getHour(d.events[cell[n + 1]].start) /\ hours[n + 1] \in TD!Hours
      BY <1>2, <2>1
    <2>3. (n + 1) - 1 = n
      BY <2>1
    <2>4. x[n + 1] = [x[n] EXCEPT ![hours[n + 1]] = TD!AddToHour(@, n)]
      <3>1. x[n + 1] = [x[(n + 1) - 1] EXCEPT ![TD!getHour(d.events[cell[n + 1]].start)] =
                            TD!AddToHour(@, (n + 1) - 1)]
        BY <1>3, <2>1, Zenon DEF IsIndexing
      <3> QED BY <2>2, <2>3, <3>1
    <2> QED BY <2>1, <2>2, <2>4, HourlyStep
  <1>6. Nat \subseteq Good
    <2> HIDE DEF Good
    <2> QED BY <1>4, <1>5, SetInduction
  <1>7. L \in Good
    <2> HIDE DEF Good
    <2> QED BY <1>1, <1>6
  <1> QED BY <1>1, <1>7

\* The index of the saved events is that of the property.
LEMMA SavedIndexed ==
    ASSUME Saved(data_file), data_file.hour_index = TD!RunsOfHours(data_file)
    PROVE  HourIndex
  <1>1. ASSUME NEW c \in Cells, NEW h \in TD!Hours
        PROVE  LET cell     == data_file.grid[c]
                   runs     == data_file.hour_index[c][h]
                   first(k) == runs[k][1] + 1
                   last(k)  == runs[k][1] + runs[k][2] + 1
               IN  /\ \A k \in DOMAIN runs : last(k) <= Len(cell)
                   /\ \A j, k \in DOMAIN runs : j < k => last(j) + 1 < first(k)
                   /\ \A n \in DOMAIN cell :
                         TD!getHour(data_file.events[cell[n]].start) = h
                           <=> \E k \in DOMAIN runs : first(k) <= n /\ n <= last(k)
    <2> PICK cell : cell = data_file.grid[c]
      OBVIOUS
    <2> PICK x : x = TD!Indexed(data_file.events, cell)[Len(cell)]
      OBVIOUS
    <2> PICK hours : hours = HoursOf(data_file.events, cell)
      OBVIOUS
    <2>0. cell \in Seq(Nat)
      BY DEF Saved, IsData
    <2>1. data_file.hour_index[c] = x
      BY DEF TD!RunsOfHours
    <2> PICK runs : runs = x[h]
      OBVIOUS
    <2>2. RunsRight(runs, hours, Len(cell), h)
      <3>1. Hourly(x, hours, Len(cell))
        BY CellIndexed
      <3> QED BY <3>1 DEF Hourly
    <2>3. DOMAIN runs = 1..Len(runs) /\ DOMAIN cell = 1..Len(cell)
      BY <2>0, <2>2 DEF RunsRight, Runs
    <2>4. \A n \in 1..Len(cell) : hours[n] = TD!getHour(data_file.events[cell[n]].start)
      BY DEF HoursOf
    <2>5. \A k \in 1..Len(runs) : Final(runs, k) <= Len(cell)
      BY <2>2 DEF RunsRight
    <2>6. \A j, k \in 1..Len(runs) : j < k => Final(runs, j) + 1 < First(runs, k)
      BY <2>2 DEF RunsRight
    <2>7. \A n \in 1..Len(cell) : TD!getHour(data_file.events[cell[n]].start) = h
             <=> \E k \in 1..Len(runs) : First(runs, k) <= n /\ n <= Final(runs, k)
      BY <2>2, <2>4 DEF RunsRight
    <2>8. data_file.hour_index[c][h] = runs
      BY <2>1
    <2> QED BY <2>3, <2>5, <2>6, <2>7, <2>8, Zenon DEF First, Final
  <1> QED BY <1>1, Zenon DEF HourIndex

\* What is saved has the index of its own events.
LEMMA SavedWithIndex ==
    ASSUME ImpInv, [Next]_vars, data_file' # data_file
    PROVE  data_file'.hour_index = TD!RunsOfHours(data_file')
  <1>1. EndImport
    BY DEF Next, ImportNext, OpenLog, ReadChunk, EmptyLogAborts, Abort, vars, impvars
  <1>2. PICK e : data_file' = TD!generateHourIndex(e.data)
    BY <1>1 DEF EndImport
  <1> PICK d : d = e.data
    OBVIOUS
  <1> PICK r : r = TD!RunsOfHours(d)
    OBVIOUS
  <1>3. data_file' = [d EXCEPT !.hour_index = r]
    BY <1>2 DEF TD!generateHourIndex
  <1>4. ImpInv'
    BY ImpInvStep
  <1>5. Saved(data_file)'
    BY <1>4, SavedData, PTL
  <1>6. data_file'.hour_index = r /\ data_file'.grid = d.grid /\ data_file'.events = d.events
    BY <1>3, <1>5 DEF Saved, IsData
  <1> PICK f : f = data_file'
    OBVIOUS
  <1>7. TD!RunsOfHours(f) = r
    <2> HIDE <1>1, <1>2
    <2>1. f.grid = d.grid /\ f.events = d.events
      BY <1>6
    <2> QED BY <2>1 DEF TD!RunsOfHours
  <1> QED BY <1>6, <1>7

\* The hour index that an import saves has, for each cell and hour, the events that start
\* in the hour (TmcData::generateHourIndex()).
THEOREM HoursIndexed == Spec => HourIndexExact
  <1>1. ImpInv /\ [Next]_vars => [data_file' # data_file => HourIndex']_vars
    <2> SUFFICES ASSUME ImpInv, [Next]_vars, data_file' # data_file PROVE HourIndex'
      OBVIOUS
    <2>1. ImpInv'
      BY ImpInvStep
    <2>2. Saved(data_file)'
      BY <2>1, SavedData, PTL
    <2>3. (data_file.hour_index = TD!RunsOfHours(data_file))'
      BY SavedWithIndex
    <2>4. (Saved(data_file) /\ data_file.hour_index = TD!RunsOfHours(data_file) => HourIndex)'
      BY SavedIndexed, PTL
    <2> QED BY <2>2, <2>3, <2>4
  <1> QED BY <1>1, ImportInvariance, PTL DEF Spec, HourIndexExact

\* indexes goes with old_strings, every number in it and in ci_index is that of an event
\* or none, and so no access of TmcFilter::processLine() is out of range.
THEOREM ImportTypeCorrect == Spec => []ImportTypeOK
  BY ImportInvariance, TypesFollow, PTL

\* The cells stay sorted by the start of their events, each located event is in its cell
\* once, and none is there twice, whatever logs are imported in whatever order
\* (TmcData::startSingleEvent()).
THEOREM CellsStaySorted == Spec => []CellsSorted
  BY ImportInvariance, SortedFollows, PTL

\* An event is open as long as the filter has its line; all events of an import end, and
\* none before it starts (TmcFilter::addChunk(), main()).
THEOREM EventsEnd == Spec => []EndedWhenGone
  BY ImportInvariance, EndedFollows, PTL

\* The filter has the list that tmclog saw at that point of the log, and the log is read to
\* its end or to a record without lines (TmcWriter::write(), TmcReader::getChunk()).
THEOREM FilterFollows == Spec => []FilterFollowsLists
  BY FollowInvariance, FollowsFollows, PTL

=============================================================================
