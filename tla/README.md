# A TLA+ model of tmc: rdsd, librds, rdsquery and the TMC tools

This directory holds a specification of the programs of this repository, the
TLC configurations that check it on small instances, and proofs that TLAPS
checks. File names below are relative to `src/`.

Run a check with `tlc -config X.cfg M`, a module's proofs with `tlapm M.tla` (the
modules whose names end in `Proofs`, and `ProofFacts`; up to a quarter of an hour each).
`PROJECT.json` maps every definition to the lines it models, and lists the
runs, the hazards they are for, and for every property a small change of the
model (a *mutant*) that violates it.

## 1. The system

A tuner delivers RDS blocks; the daemon **rdsd** assembles and decodes them and
serves the data on sockets; **librds** is the client library, **rdsquery** and
**tmclog** use it. tmclog writes traffic messages (TMC) to a log, **tmcimport**
turns logs into a file of events, **tmcwebserver** shows them on a map.

```
 tuner --blocks--> RDSgroup --groups--> RDSdecoder --events, values--> RDShandler
                                                                         | sockets
                                    rdsquery, tmclog <-- calls -- librds +
 tmclog --log--> tmcimport --data file--> tmcwebserver --> browser
```

### Components, their state, and what makes them correct

| component | state | operations | correct if |
|---|---|---|---|
| block assembly (`rdsgroup.cpp`, `RDSdecoder::AddBytes`) | one group buffer, status, next and last block number, group counters | AddBlock, AddBytes, Clear | a group is decoded from its own four blocks, and an intact one is never missed |
| decoder (`rdsdecoder.cpp`, `rdschanneldata.cpp`) | channels by PI code, the current one, lists under way, date, events | one branch per group type, set_pi_code, FreqChanged | data belong to the station they are served for; a change is announced by its event |
| radio text, AF list, TMC list (`radiotext.cpp`, `altfreqlist.cpp`, `tmclist.cpp`) | buffers with counters; list with status; lines with age | AddGroup, Clear | what is published is whole; lines expire when not repeated |
| source (`rdssource.cpp`) | type, frequency, status, decoder | Open, Process | data of one frequency are not served for another |
| main loop (`rdshandler.cpp`) | listening sockets, client list, all_fds, maxfd | select, accept, delete_client, calc_maxfd | one thread serves all as if each were alone; never blocks on input; every client gets its turn |
| client of the daemon (`rdsclient.cpp`) | descriptor, event masks, read buffer | CheckEvents, Process, ExecCmd | requests are answered in order, events follow the mask |
| connection (`librds/src/rdsconnection.cpp`, `rdsdcommandlist.cpp`) | socket, command table with cached replies, partial message, received events, data kept between two calls | Open, Close, Get..., Get...Buffer, SetEventMask, GetEvent, process | a cached value is current or called off; one request of a kind outstanding; the data copied have the size told |
| rdsquery | counters per event, what it shows | main loop, signal handler | shows as many records as asked for, what it shows becomes current, ends with the daemon |
| tmclog (`tmclog.cpp`, `tmcwriter.cpp`) | log, last list | start, write, stop, signal | the log tells every list, repetitions in short |
| tmcimport (`tmcreader.cpp`, `tmcfilter.cpp`, `tmcdata.cpp`) | list under way with event numbers, events, grid, hour index | getChunk, addChunk, start..., end..., generateHourIndex | events are those of the lists, each once, sorted, ended |
| tmcwebserver (`tmcdata.cpp`, `tmcwebserver.cpp`) | the loaded data, read only | query, getGridIndexes, getEventsOfIndex | a query finds the events of its view, dates and hours |
| rdsd start and end (`rdsd.cpp`, `RDShandler::Init`) | process id file, path of the socket, port, `terminated` | options, check_pid_file, daemonize, bind, sig_proc, clean_exit | one daemon, and the files name it; what a crash leaves does not keep the next one away; a signal ends it |
| configuration, options, tables, log handler, HTTP | | | parsers and formatters; not modelled |

### How they interact, and which behaviours are hard

* rdsd has **one thread**. Nothing runs in parallel in it, but `select()`
  reports descriptors that are used much later in the round, after others were
  accepted, closed and reused; the client list shrinks under the loop's index;
  and clients write, stop reading and close at any time in between. The sockets
  are blocking: `fcntl(F_SETFD, O_NONBLOCK)` (`rdshandler.cpp:248`) does not
  change that, so a read that finds nothing or a write to a full socket stops
  the daemon.
* librds and rdsd talk **asynchronously**: replies carry no request number, an
  event may overtake the reply a call waits for, a call may give up and the
  answer comes later.
* The **radio channel** loses, repeats and corrupts blocks, and the frequency
  changes under the decoder.
* The **TMC tools** talk by files: a log may end anywhere, also by a signal in
  the middle of a record, be continued, be imported again, or after a later one.
* **Several daemons** may start at a time, and any of them may be killed: they
  share the process id file, the path of the Unix domain socket and the port.

`PROJECT.json` lists 40 such hazards with their lines.

## 2. Modules

```
 RdsGroup                                    blocks to groups
 RadioText, AltFreqList, TmcList, RdsClock   objects as records, members as operators
   <- RdsDecoder <- RdsSource <- RdsReception <- MCRdsReception
 RdsProtocol                                 messages and sockets
   <- RdsService                             what rdsd promises: refined by
   <- RdsServer     <- MCRdsServer           rdsd's main loop and clients
   <- RdsConnection                          librds
      RdsServer + RdsConnection <- RdsSystem <- RdsQuery, MCRdsSystem, MCRdsQuery
 RdsStartup                                  processes of rdsd, their files, signals
 TmcLog + TmcGrid + TmcData <- TmcImport <- MCTmcImport

 ProofFacts                                  naturals, sets, sequences, induction
   <- RdsGroupProofs, RdsReceptionProofs, TmcImportProofs
   <- RdsServerProofs <- RdsSystemProofs <- RdsQueryProofs
```

* **RdsGroup**: `AddBlock` and `AddBytes` are the functions of the code. A
  transmitter sends groups 0, 1, 2, ..., and a block's content is the number of
  its group. The driver delivers each block once, twice, with the error bit,
  with an unknown offset, or not at all, and E blocks (offsets 5, 6) in between.
* **RdsDecoder** and the four modules below it: an object is a record, a member
  function an operator from the record before to the record after. A group is a
  record of the fields that the code takes out of its bytes. `set_rds_flag` has
  the code's `rds_flags &= (!flag)`, which clears all flags. `rds_flags` of a
  new channel is not initialised: it is any member of `Junk`.
* **RdsSource**: `Process()` with a file, an I2C device or a radio device.
  `GetRadioFreq()` yields 878000 whatever the tuner says, as in the code.
* **RdsReception**: the stations. Each has its texts, frequencies, messages;
  any of their groups may come next, so losing and repeating groups and
  changing the station are all in `Decode`. A station's next segment may be of any
  text that is not older than the last one heard, so that whole texts are lost too,
  and the A/B flag is then as it was. In a group about another network the flag TP,
  the program type and the flag TA are read from where the code reads them
  (section 3, deviations).
* **RdsProtocol**: messages as records instead of text. A set of event bits is
  a number when it travels, since the code's concatenation of digits matters.
* **RdsServer**: one action per place where the loop calls the system:
  `Select`, `AcceptUnix`, `AcceptInet`, `ServeClient` (CheckEvents, then Process
  up to its read), `ExecCmd` (one request each), `EndOfRound`. Between any two
  of them clients connect, send, receive and close. Descriptors are
  numbers, given lowest first. In this module a source raises any events and
  changes any of the items it raises events for; that this is what the decoder
  does is checked in RdsReception (`ChangesAreAnnounced`, with its exceptions).
  `Crash`, which RdsQuery takes, ends the daemon at any point; the kernel closes its
  sockets.
* **RdsService** is the abstract specification of the daemon: clients with
  masks, one telling of the events per client and round, requests answered in
  order with the value of the moment. There are no descriptors, no list with an
  index, no select(). Its gap is explicit: in a round, as many clients may be
  passed over as have been removed. RdsServer states `ImplementsService` with
  the mapping accepted = the client list as a set, told = the clients served in
  this round, gone = the deletions in it.
* **RdsConnection**: the command table (`status`, `data`), and `process()` in
  the steps Read, ScanReply, ScanEvent. `Read` takes any number of messages,
  also none: the bytes of a message may arrive in parts. Whether answers may be
  late (`delayed`) is chosen at the start. A buffer is asked for in two calls,
  `CallSize` and then `CallText` or `CallTextKept`, with `kept` for
  `have_tmc_data` and the like.
* **RdsSystem** composes the two on their shared sockets; the application may
  make any call at any time. **RdsQuery** replaces it by the `main()` of
  rdsquery, in one of the `Scenarios`: the options, and whether answers are
  late, SIGINT comes, and the daemon crashes.
* **RdsStartup**: processes of rdsd, with a step per system call. Options (`-h`
  and the like lead to clean_exit()), pid file (looked at, created, written),
  fork() (the child checks again and ignores the result), the sockets (unlink,
  bind), the loop, clean_exit() with its unlink. The pid file may fail to be opened,
  or to be written in whole or in part; `check_pid_file()` returns a negative number
  and main() goes on. The loop is its test of `terminated` and its turn; a turn may
  wait in write() for a client (`WaitForClient`), as long as the client does not read
  (`ClientsRead`). `Signal` sets `terminated` or exits, `Crash` leaves everything
  behind. Process ids are used again. The histories `disturbed`, `unnamed` (has
  failed to write its pid file), `left` and `turned_away` say when a property may fail.
* **TmcLog**, **TmcData**, **TmcImport**: the log as a sequence of records, the
  filter's comparison of lists, the data with hour index. An
  assertion or exception (`Abort`) ends the program without saving.
  `WriteInterrupted` is the signal inside write().
* **TmcGrid**: the places, the grid of cells that tmcimport computes from them,
  and the cells that tmcwebserver chooses for a view, with the truncation to int.

* **...Proofs**: the theorems about the module of that name (section 4).
  RdsStartupProofs stands alone; the others share **ProofFacts**.

Each module names its bounds where they are declared (`MaxBlocks`,
`MaxUpdates`, `MaxPending`, `BufSize`, `MaxText`, `MaxTime`, `MaxRead`,
`MaxWrites`, `Times`, `LinesLeft`, `MaxImports`, `MaxRunning`, `MaxMishaps`); they
stand in guards and nowhere else. Of these, `BufSize` is a real limit made small,
that of the kernel's socket buffer: a reply and the events of all sources fit.
Variables called *history* in the comments are only read by properties.
Definitions that end in `Fault` (or stand under a comment `Fault`) are the
mutated forms; no specification uses them.

## 3. What the runs check

| run | question | what it shows |
|---|---|---|
| `group` | blocks lost, repeated, erroneous, of type E | the buffer holds one group and what is decoded is whole *as long as fewer than three blocks were lost since the group began*; intact groups are decoded; statistics come every StatLimit + 1 entries in the counters, and none gets lost at a report |
| `server` | clients come, go, send and stop reading for ever | descriptors stay consistent though reused; no read or accept finds nothing; the daemon implements RdsService; every request is read and every closed connection removed in the end |
| `server_events` | does every client get its events? | **violated**, finding 1 |
| `system` | the TMC list in two calls, masks, timeouts, late answers, close | a WAITING command has exactly one request or reply under way, any other none; without timeouts SetEventMask() returns when the mask is used; the data copied are those the size was told of |
| `events_lost` | does GetEvent() return every event that was sent? | **violated**, finding 2: two event messages in a row are read as one number |
| `calls_return` | does rds_get_event() return what has been received? | **violated**, finding 3 |
| `query` | rdsquery until it has shown enough; for ever, with late answers and a crash of the daemon; at once, with SIGINT | a stale cache entry has an event under way; no event that was read is forgotten before GetEvent(), unless its message was read as part of another number (finding 2); -c counts what was shown unless a call failed; an event leads to a current value on the screen unless the library overlooks it; the cache becomes current; rdsquery ends with the daemon |
| `decoder` | stations, losses, retuning | one channel per code; a text that is published is of its station and made of what was heard since the A/B flag changed, whole if that was one text; frequency lists are whole and of their station; dates are dates; the TMC list is exactly what was heard in its time to live; changes are announced |
| `decoder_flags` | is the traffic flag right? | **violated**, finding 4 |
| `startup` | daemons start, in the foreground or not, fail to write the pid file, are signalled, killed, started again | the daemon in the loop has the port alone; undisturbed, pid file and path lead to it unless it failed to write the file; only a crash or a pid written in part leaves a stale pid file; a crash costs one start at most; a signal in the loop ends the daemon if its clients do not keep it in write() for ever |
| `tmc_import` | logs of several sessions, some ended by a signal, imported in any order | cells stay sorted, with each located event once and no two alike; events end when their line goes or the log stops; the filter follows the lists; what is saved is what was shown; the index and the search by date are exact; a view shows the events in it |
| `tmc_hours` | is the search by hours exact? | **violated**, finding 5 |

### Bounds, and why they are enough

* `group`: 13 block positions are three groups and one block. A mixed group
  needs three losses and a fourth block of the next group, so two groups; the
  third lets the decoder recover. Two group types tell a wrong type, StatLimit 2
  lets the counter wrap. The proofs lift the bound on the stream.
* `server`: two clients, one on each listening socket, suffice for a deletion
  in front of another client and for a descriptor that is reused in the round
  in which it was closed. One request under way each (`MaxPending`), two
  messages in the socket (`BufSize`), so that a client that does not read is
  met. Connections are never exhausted: a client may close and connect for ever,
  which is what makes `EveryClientIsServed` hard.
* `system`: the library with the TMC list, two masks, timeouts at any point, next
  to a client that may do anything, with two messages in a socket. Where answers may
  be late the neighbour stays away (the constraint `OneDelay`): it sends no requests
  and asks for no events, so all it can do is to make the daemon answer later.
  `events_lost` and `calls_return` need two updates of the source and three
  messages, or two, in the socket.
* `query`: three scenarios. Two items, each shown twice, so that one of them has
  its records before the other; one item without end, with timeouts at any
  point and a crash anywhere; one item in direct mode with a signal at any
  point. Two updates of the source: a value can change again while the first
  change is on its way. `ULONG_MAX` is 300 instead of 2^32 - 1 or more, so that two
  event messages in a row can be too large a number. rdsquery is the only client
  (`Conns` = {me}): with another one in front of it in the list it can be passed
  over, finding 1, and then a stale value has no event behind it.
* `startup`: three process ids, two processes at a time and one mishap, that is, a
  crash or a pid file that is not written: a process
  on its way out, one on its way in, and the id of a third in a file. With the
  ids used again a third start meets what two have left behind. One failure to write
  is enough for a daemon that runs without a pid file next to a start that finds none;
  the proofs lift the bounds.
* `decoder`: two stations with three texts each, so that the one between can be lost
  and the A/B flag is as before: the mixture of the first and the third that is served
  then occurs in the run (both are of two segments). A text has at most two segments instead of sixteen and
  `CHAR_MAX` is 1 instead of 127, so that the counters overflow; times at both
  sides of midnight, dates at the ends of months and years and around a leap
  day; a long wave frequency (method A) and a method B list. A behaviour has the
  group types of one of the sets in `MCProgrammes`: the types share little state,
  and the sets put together those that do (text by 2A and 2B; 0A with 0B; 14A
  with the 0A groups of both networks).
* `tmc_import`: two logs, three records, lists of up to three lines, two imports:
  enough for a repetition, a continued log, the same log twice, and a log older
  than one imported before. A day has two hours of two steps and the times are
  0, 1, 2 and 4, so that the hours of successive events can be 0, 0, 1 (a run of
  several events) and 0, 1, 0 (two runs of one hour). A signal leaves a record
  with no line at all (`LinesLeft` = {0}); to leave a line less has the effect of
  another list. A grid of three by two cells has a cell in the first column, one
  in the last, and a place on the edge; four views have places inside and in either
  corner, over one, two and three columns.
  The logs are interchangeable (symmetry). Deadlock is off because the bounds
  end it.

Deadlock is checked where the system never stops (`server`, `decoder`,
`startup`); elsewhere the bounds, or a client that does not read, do stop it.

### Fairness

* `FairSpec` (server): `WF(WorkLoop)`, the daemon's process runs; `WF(Receive(c))`,
  clients read what they are sent. The second is needed: the sockets block in
  write(), and a client that does not read stops the daemon for all. Nothing is
  assumed of connecting, sending or closing, nor that sources have data.
* `SysFairSpec`, `QFairSpec`: weak fairness of the daemon, of the library inside
  a call, and of rdsquery's main; strong fairness of a Read that brings a whole
  message, as messages are finite and TCP delivers. Crashes and signals are never
  forced. A timeout is part of the library and happens only after a Read.
* `FairSpec` (startup): `WF(main(p))`, a process that can go on does so. Nobody has
  to start, signal or kill one, and no client has to read: a daemon may stay in a
  write() for ever, and `TerminationEnds` says so by its hypothesis, that this process is not
  blocked for ever from some time on. select() has a timeout, so a turn that does
  not wait for a client ends.

### Findings

1. `rdshandler.cpp:135` The loop goes on with `++i` after `delete_client()` has
   erased an element, so the next client has no turn; `SetAllEvents(0)` in the
   next round clears events it was never told of.
2. `rdsconnection.cpp:649` An event message is not removed from `read_str`, the
   next one is appended. "0:1" and then "0:5" (FLAGS, then FLAGS and PTY_CODE)
   are read as 1 and as 105 = 0x69: PTY_CODE is missing, and three events that did
   not happen are there. When the number no longer fits an unsigned long it is
   not read at all.
3. `rdsconnection.cpp:238` `GetEvent()` calls `process()`, whose `read()` blocks,
   before it looks at the events that have been received: an event that came while
   another call waited for its answer is returned with the next message only.
4. `rdschanneldata.cpp:81` `rds_flags &= (!flag)` clears all flags.
5. `tmcwebserver/src/tmcdata.cpp:140` A run's second number counts the events
   after its first; the query takes it for the length.

### Further deviations that the models contain

They are part of the actions, and properties are stated around them; none has a
run of its own.

* rdsd start: `clean_exit()` unlinks the pid file whoever it names, so that a
  second daemon that is turned away, or `rdsd -h`, removes that of the first, and
  a third start takes its sockets; the file is checked, created and written
  without exclusion (`disturbed` covers both). After fork() the result of
  `check_pid_file()` is ignored. Where the file cannot be opened or written
  (`rdsd.cpp:67`-`73`) main() goes on too: the daemon runs undisturbed without a pid
  file, or with one that names another process, and the next start takes the path of
  its socket; only the port, if one is configured, keeps that one from its loop (hence
  `unnamed` in `SoleDaemon`). A signal before `WorkLoop()` sets
  `terminated` to false is forgotten (`rdshandler.cpp:90`), and one that comes while the
  daemon waits in write() for a client that does not read need have no effect until it reads.
* rdsd clients: the error reply to `srxfre` lacks the end of line
  (`rdsclient.cpp:145`), so that the client reads the next reply as part of it.
* librds, waiting: `process()` blocks in `read()` and the time is compared only
  after it (`rdsconnection.cpp:628`), so RDS_REQUEST_TIMEOUT ("no response from
  rdsd within the time limit", `librds.h:117`) needs something to arrive.
* librds, closing: after `Close()`, or an `Open()` that failed, the object can never
  be opened again, where `librds.cpp:83` speaks of closing and opening; cached values
  are still returned after it.
* librds, events: `GetEvent()` returns RDS_ILL_SRC_NUM for a source that had no event
  yet, and waits without limit;
  a reply to `esrc` behind the text of an event is booked to that event's
  source; an event mask read with `GetEventMask()` stays cached although
  `SetEventMask()` has changed it; SetEventMask() may return on the answer of an
  earlier call that timed out (so `MaskTakesEffect` has `~delayed`). With two
  sources `OneOutstanding` is false: a reply that is read behind the text of an event
  is booked to that event's source.
* librds, buffers: what is kept between the calls for size and data is one per
  object, not per source; size of one source and data of another do not agree
  (so `TextAsSized` compares the sources).
* rdsquery: `-c` counts records whose call failed, by a timeout or for want of a
  daemon (so `EnoughRecords` has `~delayed` and `pc # "down"`); an event that came
  with an answer is shown only after the next message (`Overlooked`, finding 3).
* Statistics: a bad group is entered in the counters with each of its erroneous blocks
  (`rdsgroup.cpp:47`, `rdsdecoder.cpp:105`), so their sum is not the number of groups.
* Decoder: when all of a text is lost, or sent while another station is tuned, the next
  one has the A/B flag of the one before; the segments in the buffer stay, and a mixture
  of the two can be served as a complete text (`TextStep` says of which texts).
  In a group 14A or 14B the flag TP of the other network is taken from bit 4 of the
  third block's low byte, which holds characters, frequencies or flags, and for a 14B is
  part of the station's own code, as is bit 3 of it, taken for TA; in variant 13 program type and TA are
  taken from the two bytes of the last block, the other network's code
  (`rdsdecoder.cpp:223`, `262`-`267`). When the local date is the first of the next month the day is counted
  on beyond the end of the month (`RolledOver` in `DatesAreRight`); changing to
  another channel changes the AF and TMC lists served, and after FreqChanged()
  the flags, without an event (see `ChangeStep`), so that a client's cache stays
  stale; `is_changed` of the TMC list is never reset; the repetition of a list
  that was opened with a long wave frequency is read as something else; a list of
  another network under way is shared by all of them; FreqChanged() keeps a
  half-assembled group.
* Source: the result of `Process()` is ignored, so a source at its end of file
  is ready in every round and the loop spins.
* TMC: `updateMinMaxDate()` leaves max_date behind if the first time is also the
  latest; a further group without a first one is added to event 0 or throws;
  after a first group that only ends an event it is added to the group before
  (the information is never read); a message that ends an event ends none, as a
  comment says; a list that lost its newest line is compared at the end iterator
  (assertion, nothing saved - or no harm, without assertions); a session that
  begins with an empty list writes "dup:", so a new log is not imported at all,
  and a continued one goes on with the list before
  (`SessionsBeginWithLines`); a query leaves out an event exactly at its start
  date; runs that straddle the dates are taken whole or not at all; tmclog
  writes local time, tmcimport reads it as UTC. A record that a signal has
  left without lines stops the import of that log there, for ever, though the log be
  continued (`ListsRead`). A signal before tmclog has its writer calls the destructor
  of none.
* Map: `insertLcd()` takes a value for the greatest only if it is not the least so
  far, so a first place that has the greatest longitude or latitude does not count
  (`ExtentAssumption` says that it has neither). The index of a cell is `percent * size - 1`, truncated to int. The place with
  the least longitude is filed at the end of the row before or under no location,
  the one with the least latitude has no cell at all (`grid.at()` throws and ends
  the import); a view leaves out its last row and column of cells,
  for which the margin of 0.1 degrees makes up if it is a cell or more
  (assumed in TmcImport), except next to the edge in the south and west (`Inside`).
* tmcwebserver: with more than one thread, requests share the buffer of
  `gmtime()` and `localtime()`.

## 4. What is proved

Seven modules hold the theorems, for every value of the constants that the named
`ASSUME`s allow; ProofFacts holds what they share. Where a theorem needs more than
that, it says so as a hypothesis. `PROJECT.json` lists the results.

### Blocks (RdsGroupProofs)

Any set of group types, any limit of the statistics, any length of the stream.

| theorem | statement |
|---|---|
| `TypeCorrect` | `Spec => []TypeOK` |
| `BufferHoldsOneGroup` | `Spec => []OneGroupInBuffer` |
| `IntactGroupsAreDecoded` | `Spec => []IntactGroupDecoded` |
| `DecodedGroupsAreWhole` | `Spec => DecodedGroupIsWhole` (an action property) |
| `StatisticsReported` | `Spec => []StatisticsPeriod` |

The invariants are not inductive: a buffer that holds one group says nothing of
which group, nor of how far the transmitter is. The inductive invariant is

    IInv == Types /\ Assembly /\ Intact

* `Types`: TypeOK, and the shape AddBytes() leaves behind: a cleared object or
  blocks 0..last with next = last + 1.
* `Assembly`: with fewer than three losses there is a group g that all stored
  blocks are of, and `pos = 4*g + last + 1 + lost`: the decoder is behind the
  transmitter by what was lost. A block is stored only if its number is `next`;
  the next block on air has the number (last + 1 + lost) % 4, and with lost < 3
  that is `next` only if nothing was lost. This is where three is the limit: then
  the next block has the number of the last stored one and passes for a repetition.
* `Intact`: while the group on air has arrived whole, exactly its blocks are in
  the buffer, and at its end in `decoded`.

`AddBytesOutcomes` reduces AddBytes() to four outcomes (cleared, ignored, stored,
decoded), and the steps of the transmitter are proved over these, one lemma per
action and conjunct. The action property follows from IInv and the lemma that a
repeated block is never the next one. The statistics are a sum over all group types;
`CountBelow` sums the types below n, and that one counter more is one group more is
proved by induction over n.

### The daemon (RdsServerProofs)

Any clients, sources, requests and bounds.

| theorem | statement |
|---|---|
| `TypeCorrect` | `Spec => []TypeOK` |
| `Descriptors` | `Spec => []DescriptorsConsistent` |
| `NeverBlocks` | `Spec => []NothingBlocksOnInput` |
| `Refinement` | `Spec => ImplementsService` |

    IInv == TypeOK /\ Connected /\ Queued /\ Listed /\ DescriptorsConsistent
              /\ NothingBlocksOnInput /\ Ready /\ Round

`NothingBlocksOnInput` speaks of the descriptor that is used next; a step later it is
another one. So `Ready` says of *every* place of the list that the loop has still to
visit that what select() reported for its descriptor is still there. A client that
is accepted after select() is the hard case, as it gets a descriptor that another one
may have had: `Ready` has that select() reported only descriptors that were open
then, so the lowest free one is not among them. `Listed` and `Queued` have that
every client is once in the list or in one queue of listen(), and `Round` how
many clients the loop has passed over: no more than it has deleted.

Refinement: the abstract daemon sees clients, masks, events, values, who was told and
how many were removed (`svc`). Every step of the loop is `Tell`, `Forget`, `Answer`
and so on of the service, or leaves `svc` alone. The fairness of the two is
not compared: `ImplementsService` is about safety.

### librds next to the daemon (RdsSystemProofs)

| theorem | statement |
|---|---|
| `SysInvariance` | `NumSources = 1 => (SysSpec => []SysInv)` |
| `Outstanding` | `NumSources = 1 => (SysSpec => []OneOutstanding)` |
| `MaskSet` | `NumSources = 1 => (SysSpec => []MaskTakesEffect)` |
| `SizesAreRight` | `SysSpec => []TextAsSized` |

`SysInv` has the daemon's IInv, the types of the table (`TableTypeOK`), which calls go
with which state of the connection (`CallsInOrder`), `Tracked` and `MaskUnderWay`.
`Tracked` follows a key through the three queues it can be in, the requests sent, the
messages sent back, and those read and not yet scanned: it is there at most
once, and at all exactly if its status is WAITING. `MaskUnderWay` says the same of the
value: the mask in the request is that of the call, and when it is not on its way the
daemon has it. With more than one source `OneOutstanding` is false, and TLC finds the
counterexample: a reply behind an event in `read_str` is booked to the source of the
event. `TextAsSized` needs no part of it: what is kept between the two calls changes
only in them (`SizeInv`).

### rdsquery and the cache (RdsQueryProofs)

| theorem | statement |
|---|---|
| `LibraryInvariance`, `NoEventForgotten` | `SysSpec => []LibInv`, `[]EventsRecorded` |
| `QueryTypeCorrect` | `QSpec => []QTypeOK` |
| `RecordsShown` | `QSpec => []EnoughRecords` |
| `QueryEventsRecorded` | `QSpec => []EventsRecorded` |
| `CacheInvariance`, `CacheIsCoherent` | with one source and rdsquery alone, `QSpec => []CacheInv`, `[]CacheCoherent` |

`LibInv` is that of any application. `QueryInv` adds which call main() is in
(`CallsOfMain`) and what the counters are between the calls (`Records`). For the cache
the invariant is `CacheInv == Gone \/ Live`: when the connection has gone it does not
come back, and until then

* `Coherent`: for each item of the mask, *along the flow of messages*, each value is
  current or an event for the item comes after it: of what the cache has, of each reply
  that is under way, and of the value the daemon would send now. That "comes after"
  is what makes it inductive, as a step takes the head or adds to the tail;
* `MaskFirst` and `MaskKnown`: nothing is asked for before the daemon has the mask;
* `TurnTaken`: an event that is not yet told will be, as the client's turn in
  this round or the next one comes. With another client in front it may not
  (finding 1), hence the hypothesis `Conns = {me}`.

### Reception (RdsReceptionProofs)

Any stations, texts, messages, segments, limits of the counters.

| theorem | statement |
|---|---|
| `ReceptionInvariance` | `RxSpec => []RxInv` |
| `RxTypeCorrect` | `RxSpec => []RxTypeOK` |
| `OneChannelPerCode` | `RxSpec => []ChannelsDistinct` |
| `TextsWhole` | `RxSpec => TextsAreWhole` (an action property) |
| `TmcListIsExact` | `NoProviderParts => (RxSpec => []TmcListExact)` |
| `DatesRight` | `RxSpec => []DatesAreRight` |
| `ChangesAnnounced` | `RxSpec => ChangesAreAnnounced` (an action property) |

`RxInv` has the shape of every object (`IsDecoder`), one channel for each code, and
of each radio text: every character in the buffer is that of a text heard since the
A/B flag last changed, and the flag is that of these texts (`TextsRight`). A text that
becomes complete is therefore made of them, and the whole of it if it is one: with the
carriage return received and every position before it counted, no position is left for
anything else (`CompleteIsMade`). The text needs the codes, as the segments
of a station go to the first channel with its code: with two such channels they
would be divided. Counters of the characters overflow, which only delays: a negative
one is not enough. `TmcInv` relates the lines of the lists to the time each message
was heard last. It supposes that no message has a part of the provider's name
(`NoProviderParts`), because the line of such a message has both parts, the other
one as it was before. `ClockInv` says that what is served was made of one group; the
rest is arithmetic of the calendar, which holds for the days 1901 to 2099
(`ClockAssumption`): the formulas of the RDS standard for the modified Julian day
fail at the centuries.

### Start and end (RdsStartupProofs)

Any number of processes, crashes and failures to write the pid file.

| theorem | statement |
|---|---|
| `TypeCorrect` | `Spec => []StartTypeOK` |
| `PidFiles` | `Spec => []NoStaleFile` |
| `OneDaemon` | `Spec => []SoleDaemon` |
| `Restored` | `Spec => []ServiceRestored` |

The invariant says who has written the pid file (`WrittenByItsProcess`: unless it was
left by a crash or written in part, one that has yet to remove it), who has the port
(`PortHeld`, `PortOnce`), that once a start has been turned away by
a leftover a process is about to remove that (`LeftoverGoes`), and, *while no start has
disturbed another*, that one process at most is starting (`OneStart`), that it has passed
over no daemon but one that failed to write its pid file (`NobodyPassedOver`), and that
what it found is still so, the pid file (`PidFileKept`) and the sockets (`SocketsKept`).
The last two leave out processes in `unnamed`. `OneDaemon` takes the port from PortHeld,
in any state, and file and path from the undisturbed part.

### Logs, imports, queries (TmcImportProofs)

Any lists, logs, sessions, interruptions, options, grids, views and times.

| theorem | statement |
|---|---|
| `ImportInvariance`, `FollowInvariance` | `Spec => []ImpInv`, `[]FollowInv` |
| `ImportTypeCorrect` | `Spec => []ImportTypeOK` |
| `CellsStaySorted` | `Spec => []CellsSorted` |
| `EventsEnd` | `Spec => []EndedWhenGone` |
| `FilterFollows` | `Spec => []FilterFollowsLists` |
| `HoursIndexed` | `Spec => HourIndexExact` |
| `QueriesExact` | `Spec => DateQueryExact` |
| `ViewsShowTheirEvents` | `Spec => ViewShowsItsEvents` |

* `ImpInv`: the records of a log, and what is left of the one that is read, are in the
  order of their time (`LogsRight`, `InOrder`); the filter has as many indexes as lines,
  no number twice, and the open events are exactly those of its lines
  (`FilterRight`); the cells are sorted by the start of their events and have
  each of them once (`CellsRight`); what is saved has no open event. An event
  that ends needs the order of the log, or it would end before it begins. The loops over
  the old and the new lines are recursive functions, and the filter is right after
  *each* of their rounds, where some of the lines are in neither list (`more` in
  FilterRight).
* `FollowInv` adds what the records tell of the lists that tmclog saw
  (`WriterRight`), with repetitions left out or written "dup:", and that the filter is as
  far in them as the reader is in the log (`Followed`).
* The binary search: `BoundCounts`, by induction over the length of the slice that
  is left, finds the place of insertion for a sorted cell. From that follow the order
  of the cells and, with the two searches of a query, `DateQueryExact`.
* The hour index: by induction over the events of a cell, the runs of an hour so far
  are in order, do not touch, and have exactly its events (`RunsRight`).
* The view: `index` rounds percent times size, which is monotone in the place
  (`QuotientFacts`, `ProductMonotone`), and the margin of a cell or more
  (`MarginAssumption`) moves the excluded last row and column beyond the view.

What the constants must satisfy: a list has no line twice (`ListsAssumption`; TmcList
replaces a repeated message), a group has one of six indexes (`LinesAssumption`,
as in `tmclist.cpp`), there are times, finitely many in a run of the programs,
and the places have an extent (`RangeAssumption`, `ExtentAssumption`).

### Only model-checked

* Liveness (`EveryClientIsServed`, `EventsAreShown`, `CacheBecomesCurrent`,
  `EndsWithDaemon`, `TerminationEnds`): TLAPS has no rules here for fairness and
  ENABLED.
* `AltFreqsComplete`: what a list holds when its counter is at its end depends on what
  the network broadcasts, a method A or B list of a certain form, by a recursion
  over the counter.
* `ImportIsExact`: each event from the list it appeared in to that in which it is gone.
  It compares the whole history of a log with the data; the proofs have its two
  halves, that the filter has the list of each record and that the open events are
  those of its lines, but not the history between them.

What recursive functions compute is proved where the induction is over a set of
naturals (`SetInduction` in ProofFacts): CountBelow, the bits of a code, Bound, Compared,
Added, Indexed. The library's induction theorems, which take an operator, cannot be used.

## 5. What is not modelled, and why

* Text: splitting the stream at newlines, formatting and parsing of
  values, `QCommandList`, error replies and the commands `srxfre` and `stat`, with
  `SetTunerFrequency()`; calls on a connection that is closed.
* The output of rdsquery, and its list of sources and tuner frequency, shown once
  before the loop.
* In RdsStartup the contents of the configuration: reading it has two outcomes.
* `conffile.cpp` and the option parsers: read once; their results are constants.
* `loghandler.cpp`, librds's debug buffer: nothing depends on them.
* The location and event tables: their result is the constant `Points`. The
  rounding of floating point numbers in the grid.
* tmcimport's mode that listens to rdsd: it saves nothing.
* The HTTP server, its threads, and the JSON output: from an example of Boost;
  they only read the data.
* `lcl2json.py`, the page in `html/`, templates: scripts outside the programs.
* Several sources at once: the modules have them (`NumSources`), and the theorems
  about RdsServer, the library's events and sizes and rdsquery's records hold for any
  number; the runs have one, and what needs one says so.

## 6. Plan

Done: blocks, decoder, daemon and the service it implements, library with its
two-step calls, rdsquery with a daemon that crashes, start and end of rdsd, logs
and imports, the grid; and proofs of all safety properties that the passing runs
check, but two. What is left:

1. **ImportIsExact, proof**: carry the start of each open event, and the list in which
   each ended one was missed, along FollowInv; no two lines of a list may then have event
   and location in common.
2. **AltFreqsComplete, proof**: say of a method A or B list what its transmitter sends,
   and what the counter has to do with it.
3. **An abstract reception**: a list of TMC lines with ages (what TmcList
   promises), refined by TmcList.
4. **Several sources** in the runs, a change of frequency under a group that is half
   assembled, `srxfre` and `SetTunerFrequency()`.
