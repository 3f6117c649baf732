----------------------------- MODULE RdsStartup -----------------------------
(***************************************************************************)
(* Starts and ends of rdsd (rdsd.cpp, rdshandler.cpp): several processes   *)
(* that share a process id file, the path of the Unix domain socket and    *)
(* the TCP port.                                                           *)
(*                                                                         *)
(* Every system call is a step, and the processes interleave.  A process   *)
(* may be sent a signal to terminate, or be killed or crash, at any step;  *)
(* process ids are used again.  The pid file may fail to be opened or to   *)
(* be written, which rdsd does not look at; one that is there can be read, *)
(* and can be unlinked.  It is the file that rdsd has built in, so that    *)
(* the options -h and -v remove it as well.                                *)
(***************************************************************************)
EXTENDS Integers, FiniteSets

CONSTANTS
    Pids,           \* process ids
    PortGiven,      \* whether tcpip-port is configured
    MaxRunning,     \* bound: processes that run at a time
    MaxMishaps      \* bound: how many crashes and failures to write the pid file there are

ASSUME PidsAssumption       == Pids \subseteq Nat \ {0}
ASSUME PortGivenAssumption  == PortGiven \in BOOLEAN
ASSUME MaxRunningAssumption == MaxRunning \in Nat
ASSUME MaxMishapsAssumption == MaxMishaps \in Nat

\* What a file holds, or a socket leads to, other than a process.
Absent == -1
Empty  == 0         \* the pid file has been created, nothing is written yet
Dead   == 0         \* the path of a socket that nobody listens on any more
Free   == 0         \* nobody listens on the port

VARIABLES
    pc,             \* where each process is
    mode,           \* "foreground"; with -d "parent", and "child" after fork()
    terminated,     \* RDShandler::terminated of each process
    linked,         \* processes whose open pid file is still the one in the directory
    pid_file,       \* the pid file
    unix_path,      \* the path of the Unix domain socket
    port,           \* who listens on the TCP port
    mishaps,        \* bound: crashes and failures so far
    left,           \* history: the pid file was left behind by a process that was killed,
                    \* or has another number in it than the process had to write
    unnamed,        \* history: processes that have failed to write their pid file
    disturbed,      \* history: starts overlapped, or a pid file was taken from its owner
    turned_away     \* history: undisturbed starts in a row that found nobody running
                    \* and were turned away all the same

files == <<pid_file, linked, unix_path, port>>
past  == <<mishaps, left, unnamed, disturbed, turned_away>>
vars  == <<pc, mode, terminated, files, past>>

StartUp ==
    {"conf", "check", "create", "write", "undo", "fork", "init", "unlink_sock",
     "bind_unix", "bind_inet", "open"}

\* WorkLoop(): at the test of the flag, in the loop's body, or waiting there for
\* a client.
Serving == {"loop", "turn", "blocked"}

Running == {p \in Pids : pc[p] # "none"}
Alone(p) == Running = {p}

Init ==
    /\ pc = [p \in Pids |-> "none"]
    /\ mode = [p \in Pids |-> "foreground"]
    /\ terminated = [p \in Pids |-> FALSE]
    /\ linked = {}
    /\ pid_file = Absent
    /\ unix_path = Absent
    /\ port = Free
    /\ mishaps = 0
    /\ left = FALSE
    /\ unnamed = {}
    /\ disturbed = FALSE
    /\ turned_away = 0

Goto(p, to) == pc' = [pc EXCEPT ![p] = to]

-----------------------------------------------------------------------------
(* main() up to the pid file *)

Begin(p) ==
    /\ pc[p] = "none"
    /\ Cardinality(Running) < MaxRunning
    /\ Goto(p, "conf")
    /\ \E m \in {"foreground", "parent"} : mode' = [mode EXCEPT ![p] = m]
    /\ disturbed' = (disturbed \/ \E q \in Pids : pc[q] \in StartUp)
    /\ UNCHANGED <<terminated, files, mishaps, left, unnamed, turned_away>>

\* parse_cmdline() and InitConf(); -h, -v, an unknown option and an error in the
\* configuration lead to clean_exit().
InitConf(p) ==
    /\ pc[p] = "conf"
    /\ \E to \in {"check", "exit"} : Goto(p, to)
    /\ UNCHANGED <<mode, terminated, files, past>>

\* A process is turned away; the count is for undisturbed starts next to nobody.
TurnAway(p) ==
    /\ Goto(p, "exit")
    /\ turned_away' = IF Alone(p) /\ ~disturbed /\ turned_away < 2
                      THEN turned_away + 1 ELSE turned_away
    /\ UNCHANGED <<mishaps, left, unnamed, disturbed>>

\* check_pid_file(): a file with a process id stops the start.  After fork() the
\* result is not looked at.
CheckPidFile(p) ==
    /\ pc[p] = "check"
    /\ \/ /\ pid_file \notin Pids
          /\ Goto(p, "create") /\ UNCHANGED past
       \/ /\ pid_file \in Pids /\ mode[p] = "child"
          /\ Goto(p, "init") /\ UNCHANGED past
       \/ /\ pid_file \in Pids /\ mode[p] # "child"
          /\ TurnAway(p)
    /\ UNCHANGED <<mode, terminated, files>>

\* main() goes on after check_pid_file() unless it has found a process.
GoOn(p) == Goto(p, IF mode[p] = "parent" THEN "undo" ELSE "init")

Mishap ==
    /\ mishaps < MaxMishaps
    /\ mishaps' = mishaps + 1

FailsToWrite(p) == Mishap /\ unnamed' = unnamed \cup {p}

\* open() with O_CREAT and neither O_EXCL nor O_TRUNC; where it fails, main() goes
\* on without a pid file ...
CreatePidFile(p) ==
    /\ pc[p] = "create"
    /\ \/ /\ pid_file' = IF pid_file = Absent THEN Empty ELSE pid_file
          /\ linked' = linked \cup {p}
          /\ Goto(p, "write") /\ UNCHANGED unnamed
          /\ UNCHANGED mishaps
       \/ /\ FailsToWrite(p)
          /\ GoOn(p) /\ UNCHANGED <<pid_file, linked>>
    /\ UNCHANGED <<mode, terminated, unix_path, port, left, disturbed, turned_away>>

\* ... and write(), which goes to a file without a name if it has been unlinked.
\* The file then has the whole id; or some of its digits, which may be the id of
\* any process; or what it had before.  main() goes on in any case.
WritePidFile(p) ==
    /\ pc[p] = "write"
    /\ \E id \in Pids \cup {pid_file} :
          /\ pid_file' = IF p \in linked THEN id ELSE pid_file
          /\ left' = IF pid_file' = pid_file THEN left ELSE id # p
          /\ IF id = p THEN UNCHANGED <<unnamed, mishaps>> ELSE FailsToWrite(p)
    /\ linked' = linked \ {p}
    /\ GoOn(p)
    /\ UNCHANGED <<mode, terminated, unix_path, port, disturbed, turned_away>>

\* unlink() of the pid file, whoever it names.
UnlinkPidFile(p) ==
    /\ pid_file' = Absent
    /\ linked' = {}
    /\ left' = FALSE
    /\ disturbed' = \/ disturbed
                    \/ pid_file \in Running \ {p}
                    \/ linked \ {p} # {}
    /\ UNCHANGED <<unix_path, port, mishaps, unnamed, turned_away>>

-----------------------------------------------------------------------------
(* -d: the child goes on with a process id of its own *)

Undo(p) ==
    /\ pc[p] = "undo"
    /\ UnlinkPidFile(p)
    /\ Goto(p, "fork")
    /\ UNCHANGED <<mode, terminated>>

\* The parent p ends and the child q goes on where it says.
Child(p, q, to) ==
    /\ pc[q] = "none"
    /\ pc' = [pc EXCEPT ![p] = "none", ![q] = to]
    /\ mode' = [mode EXCEPT ![p] = "foreground", ![q] = "child"]
    /\ terminated' = [terminated EXCEPT ![p] = FALSE, ![q] = terminated[p]]
    /\ unnamed' = unnamed \ {p}

\* Fault: the child keeps to the file its parent has written.
ForkWithoutCheck(p) ==
    /\ pc[p] = "fork"
    /\ \E q \in Pids : Child(p, q, "init")
    /\ UNCHANGED <<files, mishaps, left, disturbed, turned_away>>

Fork(p) ==
    /\ pc[p] = "fork"
    /\ \/ \E q \in Pids : Child(p, q, "check")
       \/ Goto(p, "exit") /\ UNCHANGED <<mode, terminated, unnamed>>
    /\ UNCHANGED <<files, mishaps, left, disturbed, turned_away>>

-----------------------------------------------------------------------------
(* RDShandler::Init() and WorkLoop() *)

\* WorkLoop() begins with terminated = false: an earlier signal is forgotten.
InitHandler(p) ==
    /\ pc[p] = "init"
    /\ \/ Goto(p, "unlink_sock") /\ terminated' = [terminated EXCEPT ![p] = FALSE]
       \/ Goto(p, "exit") /\ UNCHANGED terminated
    /\ UNCHANGED <<mode, files, past>>

\* init_server(): whatever is at the path is removed first.
UnlinkSock(p) ==
    /\ pc[p] = "unlink_sock"
    /\ unix_path' = Absent
    /\ Goto(p, "bind_unix")
    /\ UNCHANGED <<mode, terminated, pid_file, linked, port, past>>

BindUnix(p) ==
    /\ pc[p] = "bind_unix"
    /\ \/ /\ unix_path = Absent
          /\ unix_path' = p
          /\ Goto(p, "bind_inet") /\ UNCHANGED past
       \/ /\ unix_path # Absent
          /\ TurnAway(p) /\ UNCHANGED unix_path
       \/ Goto(p, "exit") /\ UNCHANGED <<unix_path, past>>    \* another error
    /\ UNCHANGED <<mode, terminated, pid_file, linked, port>>

\* Fault: a start that does not get the port begins again.
BindInetRetry(p) ==
    /\ pc[p] = "bind_inet"
    /\ port' = IF PortGiven /\ port = Free THEN p ELSE port
    /\ Goto(p, IF port' = p THEN "open" ELSE "init")
    /\ UNCHANGED <<mode, terminated, pid_file, linked, unix_path, past>>

BindInet(p) ==
    /\ pc[p] = "bind_inet"
    /\ \/ /\ PortGiven => port = Free
          /\ port' = IF PortGiven THEN p ELSE port
          /\ Goto(p, "open") /\ UNCHANGED past
       \/ /\ PortGiven /\ port # Free
          /\ TurnAway(p) /\ UNCHANGED port
       \/ Goto(p, "exit") /\ UNCHANGED <<port, past>>         \* another error
    /\ UNCHANGED <<mode, terminated, pid_file, linked, unix_path>>

OpenSources(p) ==
    /\ pc[p] = "open"
    /\ \/ Goto(p, "loop") /\ turned_away' = 0
       \/ Goto(p, "exit") /\ UNCHANGED turned_away
    /\ UNCHANGED <<mode, terminated, files, mishaps, left, unnamed, disturbed>>

\* Fault: the flag is cleared with every turn of the loop.
LoopTestFault(p) ==
    /\ pc[p] = "loop"
    /\ Goto(p, "turn")
    /\ terminated' = [terminated EXCEPT ![p] = FALSE]
    /\ UNCHANGED <<mode, files, past>>

\* The flag is tested once in a turn.
LoopTest(p) ==
    /\ pc[p] = "loop"
    /\ Goto(p, IF terminated[p] THEN "exit" ELSE "turn")
    /\ UNCHANGED <<mode, terminated, files, past>>

\* select() returns after five seconds at the latest, and at a signal; then the
\* sources and the clients have their turns.
TurnEnds(p) ==
    /\ pc[p] = "turn"
    /\ Goto(p, "loop")
    /\ UNCHANGED <<mode, terminated, files, past>>

\* The sockets block: write() to a client that does not read waits for it.  After
\* a signal it begins again, unless it has written a part.
WaitForClient(p) ==
    /\ pc[p] = "turn"
    /\ Goto(p, "blocked")
    /\ UNCHANGED <<mode, terminated, files, past>>

\* The clients have read what the rest of the turn writes to them, or are gone, or
\* a signal has ended the write() that has written a part.
ClientsRead(p) ==
    /\ pc[p] = "blocked"
    /\ Goto(p, "loop")
    /\ UNCHANGED <<mode, terminated, files, past>>

-----------------------------------------------------------------------------
(* The end of a process *)

\* Fault: who is turned away leaves the pid file alone.
CleanExitFault(p) ==
    /\ pc[p] = "exit"
    /\ IF pid_file = p THEN UnlinkPidFile(p) ELSE UNCHANGED <<files, past>>
    /\ Goto(p, "closing")
    /\ UNCHANGED <<mode, terminated>>

\* Fault: only an exit without an error removes the pid file.
CleanExitKeepsFile(p) ==
    /\ pc[p] = "exit"
    /\ IF terminated[p] THEN UnlinkPidFile(p) ELSE UNCHANGED <<files, past>>
    /\ Goto(p, "closing")
    /\ UNCHANGED <<mode, terminated>>

\* clean_exit()
CleanExit(p) ==
    /\ pc[p] = "exit"
    /\ UnlinkPidFile(p)
    /\ Goto(p, "closing")
    /\ UNCHANGED <<mode, terminated>>

\* The kernel closes the sockets; the path of the Unix domain socket stays.
Gone(p) ==
    /\ Goto(p, "none")
    /\ linked' = linked \ {p}
    /\ unix_path' = IF unix_path = p THEN Dead ELSE unix_path
    /\ port' = IF port = p THEN Free ELSE port
    /\ mode' = [mode EXCEPT ![p] = "foreground"]
    /\ terminated' = [terminated EXCEPT ![p] = FALSE]
    /\ unnamed' = unnamed \ {p}
    /\ disturbed' = (disturbed /\ ~Alone(p))
    /\ UNCHANGED pid_file

Exit(p) ==
    /\ pc[p] = "closing"
    /\ Gone(p)
    /\ UNCHANGED <<mishaps, left, turned_away>>

\* SIGKILL, a crash or the end of the machine.
Crash(p) ==
    /\ pc[p] # "none"
    /\ Mishap
    /\ left' = (left \/ pid_file = p)
    /\ turned_away' = 0
    /\ Gone(p)

\* sig_proc(), SIGINT or SIGTERM: before main() has called signal(), the process
\* just ends.
Signal(p) ==
    \/ /\ pc[p] = "conf"
       /\ Gone(p)
       /\ UNCHANGED <<mishaps, left, turned_away>>
    \/ /\ pc[p] \notin {"none", "conf", "exit", "closing"}
       /\ ~terminated[p]
       /\ terminated' = [terminated EXCEPT ![p] = TRUE]
       /\ UNCHANGED <<pc, mode, files, past>>

-----------------------------------------------------------------------------

main(p) ==
    \/ InitConf(p) \/ CheckPidFile(p) \/ CreatePidFile(p) \/ WritePidFile(p)
    \/ Undo(p) \/ Fork(p) \/ InitHandler(p) \/ UnlinkSock(p) \/ BindUnix(p)
    \/ BindInet(p) \/ OpenSources(p) \/ LoopTest(p) \/ TurnEnds(p)
    \/ CleanExit(p) \/ Exit(p)

environment(p) ==
    Begin(p) \/ WaitForClient(p) \/ ClientsRead(p) \/ Crash(p) \/ Signal(p)

Next == \E p \in Pids : main(p) \/ environment(p)

Spec == Init /\ [][Next]_vars

\* A process that can go on does so.  Nothing is said of clients: they need not
\* read.
FairSpec == Spec /\ \A p \in Pids : WF_vars(main(p))

-----------------------------------------------------------------------------
(* Properties *)

\* The types of the variables; only a process that is writing has the pid file
\* open, and a process has its sockets from bind() to its end.
StartTypeOK ==
    /\ pc \in [Pids -> StartUp \cup Serving \cup {"none", "exit", "closing"}]
    /\ mode \in [Pids -> {"foreground", "parent", "child"}]
    /\ terminated \in [Pids -> BOOLEAN]
    /\ linked \subseteq {p \in Pids : pc[p] = "write"}
    /\ linked # {} => pid_file # Absent
    /\ pid_file \in Pids \cup {Absent, Empty}
    /\ unix_path \in Pids \cup {Absent, Dead}
    /\ port \in Pids \cup {Free}
    /\ {unix_path, port} \cap Pids
          \subseteq {p \in Pids : pc[p] \in Serving \cup {"bind_inet", "open", "exit", "closing"}}
    /\ mishaps \in 0..MaxMishaps
    /\ left \in BOOLEAN
    /\ unnamed \subseteq {p \in Pids : pc[p] \notin {"none", "conf", "check", "create", "write"}}
    /\ disturbed \in BOOLEAN
    /\ turned_away \in 0..2

\* A daemon in its loop has the port, where there is one, and is then the only
\* one, whatever happens to files.  As long as starts do not overlap and nobody
\* takes the pid file from a process that lives, a daemon that has been able to
\* write the pid file is the one the pid file names and the one the Unix domain
\* socket leads to: after fork(), after crashes that leave a pid file or a path
\* behind, while the daemon before it is still on its way out, and next to one
\* that has failed to write its pid file, which check_pid_file() reports and
\* main() does not look at.
SoleDaemon ==
    \A p \in Pids :
        pc[p] \in Serving =>
            /\ PortGiven => port = p
            /\ ~disturbed /\ p \notin unnamed => pid_file = p /\ unix_path = p

\* Only a crash, or a write() of a part of an id, leaves a pid file that names a
\* process that is gone: however the starts overlap, and whoever wrote over
\* whose file.
NoStaleFile ==
    pid_file \in Pids /\ pc[pid_file] = "none" => left

\* After a crash one start may be turned away by what the crash left; it removes
\* the pid file, and the next start that finds nobody running is not.
ServiceRestored == turned_away <= 1

\* A signal that comes after WorkLoop() has set terminated to false ends the
\* daemon, and the pid file does not name it any longer, unless a client that
\* never reads keeps the daemon in a write() for ever.  (A signal that comes
\* earlier is forgotten.)
TerminationEnds ==
    \A p \in Pids :
        []<>(pc[p] # "blocked") =>
            ((pc[p] \in Serving \cup {"unlink_sock", "bind_unix", "bind_inet", "open"}
                /\ terminated[p]) ~> (pc[p] = "none" /\ (pid_file = p => left)))

=============================================================================
