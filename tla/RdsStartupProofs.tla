-------------------------- MODULE RdsStartupProofs --------------------------
(***************************************************************************)
(* Proofs about RdsStartup: however many processes there are, in whatever  *)
(* order they start, end, are stopped or crash.                            *)
(***************************************************************************)
EXTENDS RdsStartup, TLAPS

\* Where a process has written the pid file and not yet removed it.
Owning == {"undo", "init", "unlink_sock", "bind_unix", "bind_inet", "open"} \cup Serving

\* A pid file that no crash and no failure has left behind names a process that
\* has written it itself, under the process id it has now, and has yet to remove
\* it.
WrittenByItsProcess ==
    pid_file \in Pids /\ ~left => pc[pid_file] \in Owning \cup {"exit"}

\* Who has the port has it to its end.
PortHeld ==
    \A p \in Pids : pc[p] \in Serving \cup {"open"} /\ PortGiven => port = p

\* Undisturbed, one process starts at a time, ...
OneStart ==
    \A p, q \in Pids : pc[p] \in StartUp /\ pc[q] \in StartUp => p = q

\* ... what it has found in the pid file, or written there, is still so, ...
PidFileKept ==
    \A p \in Pids :
        /\ pc[p] \in {"create", "write"} => pid_file \notin Pids
        /\ pc[p] = "write" => p \in linked
        /\ pc[p] = "fork" \/ (pc[p] = "check" /\ mode[p] = "child") => pid_file = Absent
        /\ pc[p] \in Owning /\ p \notin unnamed => pid_file = p

\* ... no daemon serves that it has passed over, but one without a pid file, ...
NobodyPassedOver ==
    \A p, q \in Pids :
        /\ \/ pc[p] \in StartUp \ {"conf", "check"}
           \/ pc[p] = "check" /\ mode[p] = "child"
        /\ pc[q] \in Serving
        => q \in unnamed

\* ... and so are its sockets.
SocketsKept ==
    \A p \in Pids :
        /\ pc[p] = "bind_unix" => unix_path = Absent
        /\ pc[p] \in {"bind_inet", "open"} => unix_path = p
        /\ pc[p] \in Serving /\ p \notin unnamed => unix_path = p

\* Options are read before fork().
ForkedLater == \A p \in Pids : pc[p] = "conf" => mode[p] # "child"

\* No process tries to get the port that it has.
PortOnce == \A p \in Pids : pc[p] = "bind_inet" => port # p

\* Once a start has been turned away, the pid file that a crash has left is about
\* to go, or it is one that a start under way has failed to write.
LeftoverGoes ==
    (turned_away > 0 /\ left) =>
        \E p \in Pids : pc[p] = "exit" \/ (p \in unnamed /\ pc[p] \in StartUp \ {"fork"})

IInv ==
    /\ StartTypeOK
    /\ WrittenByItsProcess
    /\ PortHeld
    /\ ForkedLater
    /\ PortOnce
    /\ LeftoverGoes
    /\ ServiceRestored
    /\ ~disturbed => OneStart /\ PidFileKept /\ NobodyPassedOver /\ SocketsKept

-----------------------------------------------------------------------------
(* Every step of a process keeps the invariant *)

\* What a file holds or a socket leads to is a process, or else not one.
LEMMA Constants ==
    /\ Pids \subseteq Nat /\ 0 \notin Pids /\ -1 \notin Pids
    /\ Absent = -1 /\ Empty = 0 /\ Dead = 0 /\ Free = 0
    /\ PortGiven \in BOOLEAN /\ MaxMishaps \in Nat
  BY PidsAssumption, PortGivenAssumption, MaxMishapsAssumption DEF Absent, Empty, Dead, Free

\* A start next to another one disturbs it; otherwise it is the only one.
LEMMA BeginStep ==
    ASSUME IInv, NEW p \in Pids, Begin(p)
    PROVE  IInv'
  <1> USE Constants DEF IInv, StartTypeOK, StartUp, Serving, Owning
  <1>1. StartTypeOK'
    BY DEF Begin, files, Goto
  <1>2. WrittenByItsProcess'
    BY DEF WrittenByItsProcess, Begin, files, Goto
  <1>3. PortHeld' /\ PortOnce'
    BY DEF PortHeld, PortOnce, Begin, files, Goto
  <1>4. ForkedLater'
    BY DEF ForkedLater, Begin, files, Goto
  <1>5. LeftoverGoes' /\ ServiceRestored'
    BY DEF LeftoverGoes, ServiceRestored, Begin, files, Goto
  <1>6. ~disturbed' => OneStart'
    <2>1. pc' = [pc EXCEPT ![p] = "conf"]
      BY DEF Begin, Goto
    <2>2. ~disturbed' => \A q \in Pids : pc[q] \notin StartUp
      BY Zenon DEF Begin
    <2> QED BY <2>1, <2>2 DEF OneStart
  <1>7. ~disturbed' => PidFileKept'
    BY DEF PidFileKept, Begin, files, Goto
  <1>8. ~disturbed' => NobodyPassedOver'
    BY DEF NobodyPassedOver, PidFileKept, OneStart, ForkedLater, Begin, files, Goto
  <1>9. ~disturbed' => SocketsKept'
    BY DEF SocketsKept, Begin, files, Goto
  <1> QED BY <1>1, <1>2, <1>3, <1>4, <1>5, <1>6, <1>7, <1>8, <1>9

\* The options and the configuration are read: nothing shared changes.
LEMMA InitConfStep ==
    ASSUME IInv, NEW p \in Pids, InitConf(p)
    PROVE  IInv'
  <1> USE Constants DEF IInv, StartTypeOK, StartUp, Serving, Owning
  <1>1. StartTypeOK'
    BY DEF InitConf, files, past, Goto
  <1>2. WrittenByItsProcess'
    BY DEF WrittenByItsProcess, InitConf, files, past, Goto
  <1>3. PortHeld' /\ PortOnce'
    BY DEF PortHeld, PortOnce, InitConf, files, past, Goto
  <1>4. ForkedLater'
    BY DEF ForkedLater, InitConf, files, past, Goto
  <1>5. LeftoverGoes' /\ ServiceRestored'
    BY DEF LeftoverGoes, ServiceRestored, InitConf, files, past, Goto
  <1>6. ~disturbed' => OneStart'
    BY DEF OneStart, InitConf, files, past, Goto
  <1>7. ~disturbed' => PidFileKept'
    BY DEF PidFileKept, ForkedLater, OneStart, InitConf, files, past, Goto
  <1>8. ~disturbed' => NobodyPassedOver'
    BY DEF NobodyPassedOver, PidFileKept, OneStart, ForkedLater, InitConf, files,
           past, Goto
  <1>9. ~disturbed' => SocketsKept'
    BY DEF SocketsKept, PidFileKept, NobodyPassedOver, OneStart, InitConf, files,
           past, Goto
  <1> QED BY <1>1, <1>2, <1>3, <1>4, <1>5, <1>6, <1>7, <1>8, <1>9

\* Who goes on has found no process in the pid file, and nobody else writes it.
\* A start that is turned away alone finds what a crash has left, and only once.
LEMMA CheckPidFileStep ==
    ASSUME IInv, NEW p \in Pids, CheckPidFile(p)
    PROVE  IInv'
  <1> USE Constants DEF IInv, StartTypeOK, StartUp, Serving, Owning
  <1>1. StartTypeOK'
    <2>1. /\ pc' \in [Pids -> StartUp \cup Serving \cup {"none", "exit", "closing"}]
          /\ mode' = mode /\ terminated' = terminated
      BY DEF CheckPidFile, TurnAway, files, past, Goto
    <2>2. /\ linked' \subseteq {q \in Pids : pc'[q] = "write"}
          /\ linked' # {} => pid_file' # Absent
          /\ pid_file' \in Pids \cup {Absent, Empty}
      BY DEF CheckPidFile, TurnAway, files, past, Goto
    <2>3. /\ unix_path' \in Pids \cup {Absent, Dead} /\ port' \in Pids \cup {Free}
          /\ {unix_path', port'} \cap Pids
                \subseteq {q \in Pids : pc'[q] \in Serving \cup {"bind_inet", "open", "exit", "closing"}}
      BY DEF CheckPidFile, TurnAway, files, past, Goto
    <2>4. unnamed' \subseteq {q \in Pids : pc'[q] \notin {"none", "conf", "check", "create", "write"}}
      BY DEF CheckPidFile, TurnAway, files, past, Goto
    <2>5. mishaps' \in 0..MaxMishaps /\ left' \in BOOLEAN /\ disturbed' = disturbed
      BY DEF CheckPidFile, TurnAway, files, past, Goto
    <2>6. turned_away' \in 0..2
      BY DEF CheckPidFile, TurnAway, files, past, Goto
    <2> QED BY <2>1, <2>2, <2>3, <2>4, <2>5, <2>6
  <1>2. WrittenByItsProcess'
    BY DEF WrittenByItsProcess, CheckPidFile, TurnAway, files, past, Goto
  <1>3. PortHeld' /\ PortOnce'
    BY DEF PortHeld, PortOnce, CheckPidFile, TurnAway, files, past, Goto
  <1>4. ForkedLater'
    BY DEF ForkedLater, CheckPidFile, TurnAway, files, past, Goto
  <1>5. LeftoverGoes' /\ ServiceRestored'
    BY DEF LeftoverGoes, ServiceRestored, WrittenByItsProcess, PortOnce, SocketsKept,
           Alone, Running, CheckPidFile, TurnAway, files, past, Goto
  <1>6. ~disturbed' => OneStart'
    BY DEF OneStart, CheckPidFile, TurnAway, files, past, Goto
  <1>7. ~disturbed' => PidFileKept'
    BY DEF PidFileKept, OneStart, CheckPidFile, TurnAway, files, past, Goto
  <1>8. ~disturbed' => NobodyPassedOver'
    BY DEF NobodyPassedOver, PidFileKept, OneStart, ForkedLater, CheckPidFile,
           TurnAway, files, past, Goto
  <1>9. ~disturbed' => SocketsKept'
    BY DEF SocketsKept, PidFileKept, NobodyPassedOver, OneStart, CheckPidFile,
           TurnAway, files, past, Goto
  <1> QED BY <1>1, <1>2, <1>3, <1>4, <1>5, <1>6, <1>7, <1>8, <1>9

\* The file is created, or the one that is there is opened.
LEMMA CreatePidFileStep ==
    ASSUME IInv, NEW p \in Pids, CreatePidFile(p)
    PROVE  IInv'
  <1> USE Constants DEF IInv, StartTypeOK, StartUp, Serving, Owning
  <1>1. StartTypeOK'
    <2>1. /\ pc' \in [Pids -> StartUp \cup Serving \cup {"none", "exit", "closing"}]
          /\ mode' = mode /\ terminated' = terminated
      BY DEF CreatePidFile, GoOn, FailsToWrite, Mishap, Goto
    <2>2. /\ linked' \subseteq {q \in Pids : pc'[q] = "write"}
          /\ linked' # {} => pid_file' # Absent
          /\ pid_file' \in Pids \cup {Absent, Empty}
      <3>1. CASE /\ pid_file' = IF pid_file = Absent THEN Empty ELSE pid_file
                 /\ linked' = linked \cup {p} /\ Goto(p, "write")
        <4>1. pc' = [pc EXCEPT ![p] = "write"]
          BY <3>1 DEF Goto
        <4>2. pid_file' # Absent /\ pid_file' \in Pids \cup {Absent, Empty}
          BY <3>1
        <4> QED BY <3>1, <4>1, <4>2
      <3>2. CASE /\ UNCHANGED <<pid_file, linked>> /\ GoOn(p)
        BY <3>2 DEF CreatePidFile, GoOn, Goto
      <3> QED BY <3>1, <3>2 DEF CreatePidFile
    <2>3. /\ unix_path' \in Pids \cup {Absent, Dead} /\ port' \in Pids \cup {Free}
          /\ {unix_path', port'} \cap Pids
                \subseteq {q \in Pids : pc'[q] \in Serving \cup {"bind_inet", "open", "exit", "closing"}}
      BY DEF CreatePidFile, GoOn, FailsToWrite, Mishap, Goto
    <2>4. unnamed' \subseteq {q \in Pids : pc'[q] \notin {"none", "conf", "check", "create", "write"}}
      BY DEF CreatePidFile, GoOn, FailsToWrite, Mishap, Goto
    <2>5. mishaps' \in 0..MaxMishaps /\ left' \in BOOLEAN /\ disturbed' = disturbed
      BY DEF CreatePidFile, GoOn, FailsToWrite, Mishap, Goto
    <2>6. turned_away' \in 0..2
      BY DEF CreatePidFile, GoOn, FailsToWrite, Mishap, Goto
    <2> QED BY <2>1, <2>2, <2>3, <2>4, <2>5, <2>6
  <1>2. WrittenByItsProcess'
    BY DEF WrittenByItsProcess, CreatePidFile, GoOn, FailsToWrite, Mishap, Goto
  <1>3. PortHeld' /\ PortOnce'
    BY DEF PortHeld, PortOnce, CreatePidFile, GoOn, FailsToWrite, Mishap, Goto
  <1>4. ForkedLater'
    BY DEF ForkedLater, CreatePidFile, GoOn, FailsToWrite, Mishap, Goto
  <1>5. LeftoverGoes' /\ ServiceRestored'
    BY DEF LeftoverGoes, ServiceRestored, CreatePidFile, GoOn, FailsToWrite, Mishap,
           Goto
  <1>6. ~disturbed' => OneStart'
    BY DEF OneStart, CreatePidFile, GoOn, FailsToWrite, Mishap, Goto
  <1>7. ~disturbed' => PidFileKept'
    BY DEF PidFileKept, OneStart, CreatePidFile, GoOn, FailsToWrite, Mishap, Goto
  <1>8. ~disturbed' => NobodyPassedOver'
    BY DEF NobodyPassedOver, PidFileKept, OneStart, ForkedLater, CreatePidFile, GoOn,
           FailsToWrite, Mishap, Goto
  <1>9. ~disturbed' => SocketsKept'
    BY DEF SocketsKept, PidFileKept, NobodyPassedOver, OneStart, CreatePidFile, GoOn,
           FailsToWrite, Mishap, Goto
  <1> QED BY <1>1, <1>2, <1>3, <1>4, <1>5, <1>6, <1>7, <1>8, <1>9

\* The process writes its id, unless the file has been unlinked meanwhile.
LEMMA WritePidFileStep ==
    ASSUME IInv, NEW p \in Pids, WritePidFile(p)
    PROVE  IInv'
  <1> USE Constants DEF IInv, StartTypeOK, StartUp, Serving, Owning
  <1>1. StartTypeOK'
    <2>1. /\ pc' \in [Pids -> StartUp \cup Serving \cup {"none", "exit", "closing"}]
          /\ mode' = mode /\ terminated' = terminated
      BY DEF WritePidFile, GoOn, FailsToWrite, Mishap, Goto
    <2>2. /\ linked' \subseteq {q \in Pids : pc'[q] = "write"}
          /\ linked' # {} => pid_file' # Absent
          /\ pid_file' \in Pids \cup {Absent, Empty}
      BY DEF WritePidFile, GoOn, FailsToWrite, Mishap, Goto
    <2>3. /\ unix_path' \in Pids \cup {Absent, Dead} /\ port' \in Pids \cup {Free}
          /\ {unix_path', port'} \cap Pids
                \subseteq {q \in Pids : pc'[q] \in Serving \cup {"bind_inet", "open", "exit", "closing"}}
      BY DEF WritePidFile, GoOn, FailsToWrite, Mishap, Goto
    <2>4. unnamed' \subseteq {q \in Pids : pc'[q] \notin {"none", "conf", "check", "create", "write"}}
      BY DEF WritePidFile, GoOn, FailsToWrite, Mishap, Goto
    <2>5. mishaps' \in 0..MaxMishaps /\ left' \in BOOLEAN /\ disturbed' = disturbed
      <3>1. mishaps' \in 0..MaxMishaps
        BY DEF WritePidFile, FailsToWrite, Mishap
      <3>2. left' \in BOOLEAN
        BY Zenon DEF WritePidFile
      <3>3. disturbed' = disturbed
        BY Zenon DEF WritePidFile
      <3> QED BY <3>1, <3>2, <3>3
    <2>6. turned_away' \in 0..2
      BY DEF WritePidFile, GoOn, FailsToWrite, Mishap, Goto
    <2> QED BY <2>1, <2>2, <2>3, <2>4, <2>5, <2>6
  <1>2. WrittenByItsProcess'
    BY DEF WrittenByItsProcess, WritePidFile, GoOn, FailsToWrite, Mishap, Goto
  <1>3. PortHeld' /\ PortOnce'
    BY DEF PortHeld, PortOnce, WritePidFile, GoOn, FailsToWrite, Mishap, Goto
  <1>4. ForkedLater'
    BY DEF ForkedLater, WritePidFile, GoOn, FailsToWrite, Mishap, Goto
  <1>5. LeftoverGoes' /\ ServiceRestored'
    BY DEF LeftoverGoes, ServiceRestored, WritePidFile, GoOn, FailsToWrite, Mishap,
           Goto
  <1>6. ~disturbed' => OneStart'
    BY DEF OneStart, WritePidFile, GoOn, FailsToWrite, Mishap, Goto
  <1>7. ~disturbed' => PidFileKept'
    BY DEF PidFileKept, OneStart, WritePidFile, GoOn, FailsToWrite, Mishap, Goto
  <1>8. ~disturbed' => NobodyPassedOver'
    BY DEF NobodyPassedOver, PidFileKept, OneStart, ForkedLater, WritePidFile, GoOn,
           FailsToWrite, Mishap, Goto
  <1>9. ~disturbed' => SocketsKept'
    BY DEF SocketsKept, PidFileKept, NobodyPassedOver, OneStart, WritePidFile, GoOn,
           FailsToWrite, Mishap, Goto
  <1> QED BY <1>1, <1>2, <1>3, <1>4, <1>5, <1>6, <1>7, <1>8, <1>9

\* -d: the parent takes its own file away.
LEMMA UndoStep ==
    ASSUME IInv, NEW p \in Pids, Undo(p)
    PROVE  IInv'
  <1> USE Constants DEF IInv, StartTypeOK, StartUp, Serving, Owning
  <1>1. StartTypeOK'
    BY DEF Undo, UnlinkPidFile, Running, Goto
  <1>2. WrittenByItsProcess'
    BY DEF WrittenByItsProcess, Undo, UnlinkPidFile, Running, Goto
  <1>3. PortHeld' /\ PortOnce'
    BY DEF PortHeld, PortOnce, Undo, UnlinkPidFile, Running, Goto
  <1>4. ForkedLater'
    BY DEF ForkedLater, Undo, UnlinkPidFile, Running, Goto
  <1>5. LeftoverGoes' /\ ServiceRestored'
    BY DEF LeftoverGoes, ServiceRestored, Undo, UnlinkPidFile, Running, Goto
  <1>6. ~disturbed' => OneStart'
    BY DEF OneStart, Undo, UnlinkPidFile, Running, Goto
  <1>7. ~disturbed' => PidFileKept'
    BY DEF PidFileKept, OneStart, Undo, UnlinkPidFile, Running, Goto
  <1>8. ~disturbed' => NobodyPassedOver'
    BY DEF NobodyPassedOver, PidFileKept, OneStart, ForkedLater, Undo, UnlinkPidFile,
           Running, Goto
  <1>9. ~disturbed' => SocketsKept'
    BY DEF SocketsKept, PidFileKept, NobodyPassedOver, OneStart, Undo, UnlinkPidFile,
           Running, Goto
  <1> QED BY <1>1, <1>2, <1>3, <1>4, <1>5, <1>6, <1>7, <1>8, <1>9

\* The child takes the place of its parent, with an id that no process has.
LEMMA ForkStep ==
    ASSUME IInv, NEW p \in Pids, Fork(p)
    PROVE  IInv'
  <1> USE Constants DEF IInv, StartTypeOK, StartUp, Serving, Owning
  <1>1. ASSUME NEW q \in Pids, Child(p, q, "check")
        PROVE  IInv'
    <2>1. /\ pc[p] = "fork" /\ pc[q] = "none" /\ p # q
          /\ UNCHANGED <<files, mishaps, left, disturbed, turned_away>>
          /\ unnamed' = unnamed \ {p}
      BY <1>1 DEF Fork, Child
    <2>2. \A r \in Pids : pc'[r] = IF r = q THEN "check" ELSE IF r = p THEN "none" ELSE pc[r]
      BY <1>1, <2>1 DEF Child
    <2>3. \A r \in Pids : mode'[r] = IF r = q THEN "child"
                                    ELSE IF r = p THEN "foreground" ELSE mode[r]
      BY <1>1, <2>1 DEF Child
    <2>4. StartTypeOK'
      BY <1>1, <2>1, <2>2 DEF files, Child
    <2>5. WrittenByItsProcess'
      BY <2>1, <2>2 DEF WrittenByItsProcess, files
    <2>6. PortHeld' /\ PortOnce'
      BY <2>1, <2>2 DEF PortHeld, PortOnce, files
    <2>7. ForkedLater'
      BY <2>1, <2>2, <2>3 DEF ForkedLater
    <2>8. LeftoverGoes' /\ ServiceRestored'
      BY <2>1, <2>2 DEF LeftoverGoes, ServiceRestored, files
    <2>9. ~disturbed' => OneStart'
      BY <2>1, <2>2 DEF OneStart
    <2>10. ~disturbed' => PidFileKept'
      BY <2>1, <2>2, <2>3 DEF PidFileKept, OneStart, files
    <2>11. ~disturbed' => NobodyPassedOver'
      BY <2>1, <2>2, <2>3 DEF NobodyPassedOver, PidFileKept, OneStart, files
    <2>12. ~disturbed' => SocketsKept'
      BY <2>1, <2>2 DEF SocketsKept, OneStart, files
    <2> QED BY <2>4, <2>5, <2>6, <2>7, <2>8, <2>9, <2>10, <2>11, <2>12
  <1>2. ASSUME pc[p] = "fork", Goto(p, "exit"), UNCHANGED <<mode, terminated, files, past>>
        PROVE  IInv'
    <2>1. StartTypeOK'
      BY <1>2 DEF Goto, files, past
    <2>2. WrittenByItsProcess' /\ PortHeld' /\ PortOnce' /\ ForkedLater'
      BY <1>2 DEF WrittenByItsProcess, PortHeld, PortOnce, ForkedLater, Goto, files, past
    <2>3. LeftoverGoes' /\ ServiceRestored'
      BY <1>2 DEF LeftoverGoes, ServiceRestored, Goto, files, past
    <2>4. ~disturbed' => OneStart' /\ PidFileKept'
      BY <1>2 DEF OneStart, PidFileKept, Goto, files, past
    <2>5. ~disturbed' => NobodyPassedOver' /\ SocketsKept'
      BY <1>2 DEF NobodyPassedOver, SocketsKept, Goto, files, past
    <2> QED BY <2>1, <2>2, <2>3, <2>4, <2>5
  <1> QED BY <1>1, <1>2 DEF Fork, past

\* Nothing shared changes.
LEMMA InitHandlerStep ==
    ASSUME IInv, NEW p \in Pids, InitHandler(p)
    PROVE  IInv'
  <1> USE Constants DEF IInv, StartTypeOK, StartUp, Serving, Owning
  <1>1. StartTypeOK'
    BY DEF InitHandler, files, past, Goto
  <1>2. WrittenByItsProcess'
    BY DEF WrittenByItsProcess, InitHandler, files, past, Goto
  <1>3. PortHeld' /\ PortOnce'
    BY DEF PortHeld, PortOnce, InitHandler, files, past, Goto
  <1>4. ForkedLater'
    BY DEF ForkedLater, InitHandler, files, past, Goto
  <1>5. LeftoverGoes' /\ ServiceRestored'
    BY DEF LeftoverGoes, ServiceRestored, InitHandler, files, past, Goto
  <1>6. ~disturbed' => OneStart'
    BY DEF OneStart, InitHandler, files, past, Goto
  <1>7. ~disturbed' => PidFileKept'
    BY DEF PidFileKept, OneStart, InitHandler, files, past, Goto
  <1>8. ~disturbed' => NobodyPassedOver'
    BY DEF NobodyPassedOver, PidFileKept, OneStart, ForkedLater, InitHandler, files,
           past, Goto
  <1>9. ~disturbed' => SocketsKept'
    BY DEF SocketsKept, PidFileKept, NobodyPassedOver, OneStart, InitHandler, files,
           past, Goto
  <1> QED BY <1>1, <1>2, <1>3, <1>4, <1>5, <1>6, <1>7, <1>8, <1>9

\* The path is taken from nobody: the process owns the pid file.
LEMMA UnlinkSockStep ==
    ASSUME IInv, NEW p \in Pids, UnlinkSock(p)
    PROVE  IInv'
  <1> USE Constants DEF IInv, StartTypeOK, StartUp, Serving, Owning
  <1>1. StartTypeOK'
    BY DEF UnlinkSock, past, Goto
  <1>2. WrittenByItsProcess'
    BY DEF WrittenByItsProcess, UnlinkSock, past, Goto
  <1>3. PortHeld' /\ PortOnce'
    BY DEF PortHeld, PortOnce, UnlinkSock, past, Goto
  <1>4. ForkedLater'
    BY DEF ForkedLater, UnlinkSock, past, Goto
  <1>5. LeftoverGoes' /\ ServiceRestored'
    BY DEF LeftoverGoes, ServiceRestored, UnlinkSock, past, Goto
  <1>6. ~disturbed' => OneStart'
    BY DEF OneStart, UnlinkSock, past, Goto
  <1>7. ~disturbed' => PidFileKept'
    BY DEF PidFileKept, OneStart, UnlinkSock, past, Goto
  <1>8. ~disturbed' => NobodyPassedOver'
    BY DEF NobodyPassedOver, PidFileKept, OneStart, ForkedLater, UnlinkSock, past,
           Goto
  <1>9. ~disturbed' => SocketsKept'
    BY DEF SocketsKept, PidFileKept, NobodyPassedOver, OneStart, UnlinkSock, past,
           Goto
  <1> QED BY <1>1, <1>2, <1>3, <1>4, <1>5, <1>6, <1>7, <1>8, <1>9

\* The path is free since the step before.
LEMMA BindUnixStep ==
    ASSUME IInv, NEW p \in Pids, BindUnix(p)
    PROVE  IInv'
  <1> USE Constants DEF IInv, StartTypeOK, StartUp, Serving, Owning
  <1>1. StartTypeOK'
    <2>1. /\ pc' \in [Pids -> StartUp \cup Serving \cup {"none", "exit", "closing"}]
          /\ mode' = mode /\ terminated' = terminated
      BY DEF BindUnix, TurnAway, past, Goto
    <2>2. /\ linked' \subseteq {q \in Pids : pc'[q] = "write"}
          /\ linked' # {} => pid_file' # Absent
          /\ pid_file' \in Pids \cup {Absent, Empty}
      BY DEF BindUnix, TurnAway, past, Goto
    <2>3. /\ unix_path' \in Pids \cup {Absent, Dead} /\ port' \in Pids \cup {Free}
          /\ {unix_path', port'} \cap Pids
                \subseteq {q \in Pids : pc'[q] \in Serving \cup {"bind_inet", "open", "exit", "closing"}}
      BY DEF BindUnix, TurnAway, past, Goto
    <2>4. unnamed' \subseteq {q \in Pids : pc'[q] \notin {"none", "conf", "check", "create", "write"}}
      BY DEF BindUnix, TurnAway, past, Goto
    <2>5. mishaps' \in 0..MaxMishaps /\ left' \in BOOLEAN /\ disturbed' = disturbed
      BY DEF BindUnix, TurnAway, past, Goto
    <2>6. turned_away' \in 0..2
      BY DEF BindUnix, TurnAway, past, Goto
    <2> QED BY <2>1, <2>2, <2>3, <2>4, <2>5, <2>6
  <1>2. WrittenByItsProcess'
    BY DEF WrittenByItsProcess, BindUnix, TurnAway, past, Goto
  <1>3. PortHeld' /\ PortOnce'
    BY DEF PortHeld, PortOnce, BindUnix, TurnAway, past, Goto
  <1>4. ForkedLater'
    BY DEF ForkedLater, BindUnix, TurnAway, past, Goto
  <1>5. LeftoverGoes' /\ ServiceRestored'
    BY DEF LeftoverGoes, ServiceRestored, WrittenByItsProcess, PortOnce, SocketsKept,
           Alone, Running, BindUnix, TurnAway, past, Goto
  <1>6. ~disturbed' => OneStart'
    BY DEF OneStart, BindUnix, TurnAway, past, Goto
  <1>7. ~disturbed' => PidFileKept'
    BY DEF PidFileKept, OneStart, BindUnix, TurnAway, past, Goto
  <1>8. ~disturbed' => NobodyPassedOver'
    BY DEF NobodyPassedOver, PidFileKept, OneStart, ForkedLater, BindUnix, TurnAway,
           past, Goto
  <1>9. ~disturbed' => SocketsKept'
    BY DEF SocketsKept, PidFileKept, NobodyPassedOver, OneStart, BindUnix, TurnAway,
           past, Goto
  <1> QED BY <1>1, <1>2, <1>3, <1>4, <1>5, <1>6, <1>7, <1>8, <1>9

\* The port is free, or the process before is still on its way out.
LEMMA BindInetStep ==
    ASSUME IInv, NEW p \in Pids, BindInet(p)
    PROVE  IInv'
  <1> USE Constants DEF IInv, StartTypeOK, StartUp, Serving, Owning
  <1>1. StartTypeOK'
    <2>1. /\ pc' \in [Pids -> StartUp \cup Serving \cup {"none", "exit", "closing"}]
          /\ mode' = mode /\ terminated' = terminated
      BY DEF BindInet, TurnAway, past, Goto
    <2>2. /\ linked' \subseteq {q \in Pids : pc'[q] = "write"}
          /\ linked' # {} => pid_file' # Absent
          /\ pid_file' \in Pids \cup {Absent, Empty}
      BY DEF BindInet, TurnAway, past, Goto
    <2>3. /\ unix_path' \in Pids \cup {Absent, Dead} /\ port' \in Pids \cup {Free}
          /\ {unix_path', port'} \cap Pids
                \subseteq {q \in Pids : pc'[q] \in Serving \cup {"bind_inet", "open", "exit", "closing"}}
      BY DEF BindInet, TurnAway, past, Goto
    <2>4. unnamed' \subseteq {q \in Pids : pc'[q] \notin {"none", "conf", "check", "create", "write"}}
      BY DEF BindInet, TurnAway, past, Goto
    <2>5. mishaps' \in 0..MaxMishaps /\ left' \in BOOLEAN /\ disturbed' = disturbed
      BY DEF BindInet, TurnAway, past, Goto
    <2>6. turned_away' \in 0..2
      BY DEF BindInet, TurnAway, past, Goto
    <2> QED BY <2>1, <2>2, <2>3, <2>4, <2>5, <2>6
  <1>2. WrittenByItsProcess'
    BY DEF WrittenByItsProcess, BindInet, TurnAway, past, Goto
  <1>3. PortHeld' /\ PortOnce'
    BY DEF PortHeld, PortOnce, BindInet, TurnAway, past, Goto
  <1>4. ForkedLater'
    BY DEF ForkedLater, BindInet, TurnAway, past, Goto
  <1>5. LeftoverGoes' /\ ServiceRestored'
    BY DEF LeftoverGoes, ServiceRestored, WrittenByItsProcess, PortOnce, SocketsKept,
           Alone, Running, BindInet, TurnAway, past, Goto
  <1>6. ~disturbed' => OneStart'
    BY DEF OneStart, BindInet, TurnAway, past, Goto
  <1>7. ~disturbed' => PidFileKept'
    BY DEF PidFileKept, OneStart, BindInet, TurnAway, past, Goto
  <1>8. ~disturbed' => NobodyPassedOver'
    BY DEF NobodyPassedOver, PidFileKept, OneStart, ForkedLater, BindInet, TurnAway,
           past, Goto
  <1>9. ~disturbed' => SocketsKept'
    BY DEF SocketsKept, PidFileKept, NobodyPassedOver, OneStart, BindInet, TurnAway,
           past, Goto
  <1> QED BY <1>1, <1>2, <1>3, <1>4, <1>5, <1>6, <1>7, <1>8, <1>9

\* The loop begins, with the pid file and the sockets of this process.
LEMMA OpenSourcesStep ==
    ASSUME IInv, NEW p \in Pids, OpenSources(p)
    PROVE  IInv'
  <1> USE Constants DEF IInv, StartTypeOK, StartUp, Serving, Owning
  <1>1. StartTypeOK'
    BY DEF OpenSources, files, Goto
  <1>2. WrittenByItsProcess'
    BY DEF WrittenByItsProcess, OpenSources, files, Goto
  <1>3. PortHeld' /\ PortOnce'
    BY DEF PortHeld, PortOnce, OpenSources, files, Goto
  <1>4. ForkedLater'
    BY DEF ForkedLater, OpenSources, files, Goto
  <1>5. LeftoverGoes' /\ ServiceRestored'
    BY DEF LeftoverGoes, ServiceRestored, OpenSources, files, Goto
  <1>6. ~disturbed' => OneStart'
    BY DEF OneStart, OpenSources, files, Goto
  <1>7. ~disturbed' => PidFileKept'
    BY DEF PidFileKept, OneStart, OpenSources, files, Goto
  <1>8. ~disturbed' => NobodyPassedOver'
    BY DEF NobodyPassedOver, PidFileKept, OneStart, ForkedLater, OpenSources, files,
           Goto
  <1>9. ~disturbed' => SocketsKept'
    BY DEF SocketsKept, PidFileKept, NobodyPassedOver, OneStart, OpenSources, files,
           Goto
  <1> QED BY <1>1, <1>2, <1>3, <1>4, <1>5, <1>6, <1>7, <1>8, <1>9

\* The loop ends at the test, with the pid file and the sockets as they are.
LEMMA LoopTestStep ==
    ASSUME IInv, NEW p \in Pids, LoopTest(p)
    PROVE  IInv'
  <1> USE Constants DEF IInv, StartTypeOK, StartUp, Serving, Owning
  <1>1. StartTypeOK'
    BY DEF LoopTest, files, past, Goto
  <1>2. WrittenByItsProcess'
    BY DEF WrittenByItsProcess, LoopTest, files, past, Goto
  <1>3. PortHeld' /\ PortOnce'
    BY DEF PortHeld, PortOnce, LoopTest, files, past, Goto
  <1>4. ForkedLater'
    BY DEF ForkedLater, LoopTest, files, past, Goto
  <1>5. LeftoverGoes' /\ ServiceRestored'
    BY DEF LeftoverGoes, ServiceRestored, LoopTest, files, past, Goto
  <1>6. ~disturbed' => OneStart'
    BY DEF OneStart, LoopTest, files, past, Goto
  <1>7. ~disturbed' => PidFileKept'
    BY DEF PidFileKept, OneStart, LoopTest, files, past, Goto
  <1>8. ~disturbed' => NobodyPassedOver'
    BY DEF NobodyPassedOver, PidFileKept, OneStart, ForkedLater, LoopTest, files,
           past, Goto
  <1>9. ~disturbed' => SocketsKept'
    BY DEF SocketsKept, PidFileKept, NobodyPassedOver, OneStart, LoopTest, files,
           past, Goto
  <1> QED BY <1>1, <1>2, <1>3, <1>4, <1>5, <1>6, <1>7, <1>8, <1>9

\* Nothing shared changes in a turn of the loop.
LEMMA TurnEndsStep ==
    ASSUME IInv, NEW p \in Pids, TurnEnds(p)
    PROVE  IInv'
  <1> USE Constants DEF IInv, StartTypeOK, StartUp, Serving, Owning
  <1>1. StartTypeOK'
    BY DEF TurnEnds, files, past, Goto
  <1>2. WrittenByItsProcess'
    BY DEF WrittenByItsProcess, TurnEnds, files, past, Goto
  <1>3. PortHeld' /\ PortOnce'
    BY DEF PortHeld, PortOnce, TurnEnds, files, past, Goto
  <1>4. ForkedLater'
    BY DEF ForkedLater, TurnEnds, files, past, Goto
  <1>5. LeftoverGoes' /\ ServiceRestored'
    BY DEF LeftoverGoes, ServiceRestored, TurnEnds, files, past, Goto
  <1>6. ~disturbed' => OneStart'
    BY DEF OneStart, TurnEnds, files, past, Goto
  <1>7. ~disturbed' => PidFileKept'
    BY DEF PidFileKept, OneStart, TurnEnds, files, past, Goto
  <1>8. ~disturbed' => NobodyPassedOver'
    BY DEF NobodyPassedOver, PidFileKept, OneStart, ForkedLater, TurnEnds, files,
           past, Goto
  <1>9. ~disturbed' => SocketsKept'
    BY DEF SocketsKept, PidFileKept, NobodyPassedOver, OneStart, TurnEnds, files,
           past, Goto
  <1> QED BY <1>1, <1>2, <1>3, <1>4, <1>5, <1>6, <1>7, <1>8, <1>9

\* Nothing shared changes.
LEMMA WaitForClientStep ==
    ASSUME IInv, NEW p \in Pids, WaitForClient(p)
    PROVE  IInv'
  <1> USE Constants DEF IInv, StartTypeOK, StartUp, Serving, Owning
  <1>1. StartTypeOK'
    BY DEF WaitForClient, files, past, Goto
  <1>2. WrittenByItsProcess'
    BY DEF WrittenByItsProcess, WaitForClient, files, past, Goto
  <1>3. PortHeld' /\ PortOnce'
    BY DEF PortHeld, PortOnce, WaitForClient, files, past, Goto
  <1>4. ForkedLater'
    BY DEF ForkedLater, WaitForClient, files, past, Goto
  <1>5. LeftoverGoes' /\ ServiceRestored'
    BY DEF LeftoverGoes, ServiceRestored, WaitForClient, files, past, Goto
  <1>6. ~disturbed' => OneStart'
    BY DEF OneStart, WaitForClient, files, past, Goto
  <1>7. ~disturbed' => PidFileKept'
    BY DEF PidFileKept, OneStart, WaitForClient, files, past, Goto
  <1>8. ~disturbed' => NobodyPassedOver'
    BY DEF NobodyPassedOver, PidFileKept, OneStart, ForkedLater, WaitForClient, files,
           past, Goto
  <1>9. ~disturbed' => SocketsKept'
    BY DEF SocketsKept, PidFileKept, NobodyPassedOver, OneStart, WaitForClient, files,
           past, Goto
  <1> QED BY <1>1, <1>2, <1>3, <1>4, <1>5, <1>6, <1>7, <1>8, <1>9

\* Nothing shared changes.
LEMMA ClientsReadStep ==
    ASSUME IInv, NEW p \in Pids, ClientsRead(p)
    PROVE  IInv'
  <1> USE Constants DEF IInv, StartTypeOK, StartUp, Serving, Owning
  <1>1. StartTypeOK'
    BY DEF ClientsRead, files, past, Goto
  <1>2. WrittenByItsProcess'
    BY DEF WrittenByItsProcess, ClientsRead, files, past, Goto
  <1>3. PortHeld' /\ PortOnce'
    BY DEF PortHeld, PortOnce, ClientsRead, files, past, Goto
  <1>4. ForkedLater'
    BY DEF ForkedLater, ClientsRead, files, past, Goto
  <1>5. LeftoverGoes' /\ ServiceRestored'
    BY DEF LeftoverGoes, ServiceRestored, ClientsRead, files, past, Goto
  <1>6. ~disturbed' => OneStart'
    BY DEF OneStart, ClientsRead, files, past, Goto
  <1>7. ~disturbed' => PidFileKept'
    BY DEF PidFileKept, OneStart, ClientsRead, files, past, Goto
  <1>8. ~disturbed' => NobodyPassedOver'
    BY DEF NobodyPassedOver, PidFileKept, OneStart, ForkedLater, ClientsRead, files,
           past, Goto
  <1>9. ~disturbed' => SocketsKept'
    BY DEF SocketsKept, PidFileKept, NobodyPassedOver, OneStart, ClientsRead, files,
           past, Goto
  <1> QED BY <1>1, <1>2, <1>3, <1>4, <1>5, <1>6, <1>7, <1>8, <1>9

\* The pid file goes, whoever it names: that of another process that runs
\* disturbs it.
LEMMA CleanExitStep ==
    ASSUME IInv, NEW p \in Pids, CleanExit(p)
    PROVE  IInv'
  <1> USE Constants DEF IInv, StartTypeOK, StartUp, Serving, Owning
  <1>1. StartTypeOK'
    BY DEF CleanExit, UnlinkPidFile, Running, Goto
  <1>2. WrittenByItsProcess'
    BY DEF WrittenByItsProcess, CleanExit, UnlinkPidFile, Running, Goto
  <1>3. PortHeld' /\ PortOnce'
    BY DEF PortHeld, PortOnce, CleanExit, UnlinkPidFile, Running, Goto
  <1>4. ForkedLater'
    BY DEF ForkedLater, CleanExit, UnlinkPidFile, Running, Goto
  <1>5. LeftoverGoes' /\ ServiceRestored'
    BY DEF LeftoverGoes, ServiceRestored, CleanExit, UnlinkPidFile, Running, Goto
  <1>6. ~disturbed' => OneStart'
    BY DEF OneStart, CleanExit, UnlinkPidFile, Running, Goto
  <1>7. ~disturbed' => PidFileKept'
    BY DEF PidFileKept, OneStart, CleanExit, UnlinkPidFile, Running, Goto
  <1>8. ~disturbed' => NobodyPassedOver'
    BY DEF NobodyPassedOver, PidFileKept, OneStart, ForkedLater, CleanExit,
           UnlinkPidFile, Running, Goto
  <1>9. ~disturbed' => SocketsKept'
    BY DEF SocketsKept, PidFileKept, NobodyPassedOver, OneStart, CleanExit,
           UnlinkPidFile, Running, Goto
  <1> QED BY <1>1, <1>2, <1>3, <1>4, <1>5, <1>6, <1>7, <1>8, <1>9

\* The kernel closes the sockets; the pid file did not name the process.
LEMMA ExitStep ==
    ASSUME IInv, NEW p \in Pids, Exit(p)
    PROVE  IInv'
  <1> USE Constants DEF IInv, StartTypeOK, StartUp, Serving, Owning
  <1>1. StartTypeOK'
    BY DEF Exit, Gone, Alone, Running, Goto
  <1>2. WrittenByItsProcess'
    BY DEF WrittenByItsProcess, Exit, Gone, Alone, Running, Goto
  <1>3. PortHeld' /\ PortOnce'
    BY DEF PortHeld, PortOnce, Exit, Gone, Alone, Running, Goto
  <1>4. ForkedLater'
    BY DEF ForkedLater, Exit, Gone, Alone, Running, Goto
  <1>5. LeftoverGoes' /\ ServiceRestored'
    BY DEF LeftoverGoes, ServiceRestored, Exit, Gone, Alone, Running, Goto
  <1>6. ~disturbed' => OneStart'
    BY DEF OneStart, Exit, Gone, Alone, Running, Goto
  <1>7. ~disturbed' => PidFileKept'
    BY DEF PidFileKept, OneStart, Exit, Gone, Alone, Running, Goto
  <1>8. ~disturbed' => NobodyPassedOver'
    BY DEF NobodyPassedOver, PidFileKept, OneStart, ForkedLater, Exit, Gone, Alone,
           Running, Goto
  <1>9. ~disturbed' => SocketsKept'
    BY DEF SocketsKept, PidFileKept, NobodyPassedOver, OneStart, Exit, Gone, Alone,
           Running, Goto
  <1> QED BY <1>1, <1>2, <1>3, <1>4, <1>5, <1>6, <1>7, <1>8, <1>9

\* A crash leaves the pid file and the path behind.
LEMMA CrashStep ==
    ASSUME IInv, NEW p \in Pids, Crash(p)
    PROVE  IInv'
  <1> USE Constants DEF IInv, StartTypeOK, StartUp, Serving, Owning
  <1>1. StartTypeOK'
    BY DEF Crash, Mishap, Gone, Alone, Running, Goto
  <1>2. WrittenByItsProcess'
    BY DEF WrittenByItsProcess, Crash, Mishap, Gone, Alone, Running, Goto
  <1>3. PortHeld' /\ PortOnce'
    BY DEF PortHeld, PortOnce, Crash, Mishap, Gone, Alone, Running, Goto
  <1>4. ForkedLater'
    BY DEF ForkedLater, Crash, Mishap, Gone, Alone, Running, Goto
  <1>5. LeftoverGoes' /\ ServiceRestored'
    BY DEF LeftoverGoes, ServiceRestored, Crash, Mishap, Gone, Alone, Running, Goto
  <1>6. ~disturbed' => OneStart'
    BY DEF OneStart, Crash, Mishap, Gone, Alone, Running, Goto
  <1>7. ~disturbed' => PidFileKept'
    BY DEF PidFileKept, OneStart, Crash, Mishap, Gone, Alone, Running, Goto
  <1>8. ~disturbed' => NobodyPassedOver'
    BY DEF NobodyPassedOver, PidFileKept, OneStart, ForkedLater, Crash, Mishap, Gone,
           Alone, Running, Goto
  <1>9. ~disturbed' => SocketsKept'
    BY DEF SocketsKept, PidFileKept, NobodyPassedOver, OneStart, Crash, Mishap, Gone,
           Alone, Running, Goto
  <1> QED BY <1>1, <1>2, <1>3, <1>4, <1>5, <1>6, <1>7, <1>8, <1>9

\* A signal ends a process at once that has written nothing yet.
LEMMA SignalStep ==
    ASSUME IInv, NEW p \in Pids, Signal(p)
    PROVE  IInv'
  <1> USE Constants DEF IInv, StartTypeOK, StartUp, Serving, Owning
  <1>1. StartTypeOK'
    <2>1. CASE pc[p] = "conf" /\ Gone(p) /\ UNCHANGED <<mishaps, left, turned_away>>
      BY <2>1 DEF Gone, Goto
    <2>2. CASE /\ terminated' = [terminated EXCEPT ![p] = TRUE]
               /\ UNCHANGED <<pc, mode, files, past>>
      BY <2>2 DEF files, past
    <2> QED BY <2>1, <2>2 DEF Signal
  <1>2. WrittenByItsProcess'
    BY DEF WrittenByItsProcess, Signal, Gone, files, past, Alone, Running, Goto
  <1>3. PortHeld' /\ PortOnce'
    BY DEF PortHeld, PortOnce, Signal, Gone, files, past, Alone, Running, Goto
  <1>4. ForkedLater'
    BY DEF ForkedLater, Signal, Gone, files, past, Alone, Running, Goto
  <1>5. LeftoverGoes' /\ ServiceRestored'
    BY DEF LeftoverGoes, ServiceRestored, Signal, Gone, files, past, Alone, Running,
           Goto
  <1>6. ~disturbed' => OneStart'
    BY DEF OneStart, Signal, Gone, files, past, Alone, Running, Goto
  <1>7. ~disturbed' => PidFileKept'
    BY DEF PidFileKept, OneStart, Signal, Gone, files, past, Alone, Running, Goto
  <1>8. ~disturbed' => NobodyPassedOver'
    BY DEF NobodyPassedOver, PidFileKept, OneStart, ForkedLater, Signal, Gone, files,
           past, Alone, Running, Goto
  <1>9. ~disturbed' => SocketsKept'
    BY DEF SocketsKept, PidFileKept, NobodyPassedOver, OneStart, Signal, Gone, files,
           past, Alone, Running, Goto
  <1> QED BY <1>1, <1>2, <1>3, <1>4, <1>5, <1>6, <1>7, <1>8, <1>9

-----------------------------------------------------------------------------
(* The invariant and what follows *)

\* Nobody runs and there is no file.
LEMMA InitInv == Init => IInv
  <1> SUFFICES ASSUME Init PROVE IInv
    OBVIOUS
  <1> USE DEF Init
  <1>1. StartTypeOK
    <2>1. {unix_path, port} \cap Pids = {}
      BY Constants
    <2>2. mishaps \in 0..MaxMishaps /\ turned_away \in 0..2
      BY Constants
    <2> QED BY <2>1, <2>2 DEF StartTypeOK
  <1>2. /\ WrittenByItsProcess /\ PortHeld /\ PortOnce /\ ForkedLater
        /\ LeftoverGoes /\ ServiceRestored
    BY Constants DEF WrittenByItsProcess, PortHeld, PortOnce, ForkedLater, LeftoverGoes,
           ServiceRestored, Serving
  <1>3. OneStart /\ PidFileKept /\ NobodyPassedOver /\ SocketsKept
    BY DEF OneStart, PidFileKept, NobodyPassedOver, SocketsKept, StartUp, Serving, Owning
  <1> QED BY <1>1, <1>2, <1>3 DEF IInv

\* Every step keeps the invariant, and so does stuttering.
LEMMA NextInv ==
    ASSUME IInv, [Next]_vars
    PROVE  IInv'
  <1>1. ASSUME NEW p \in Pids, main(p) \/ environment(p)
        PROVE  IInv'
    BY <1>1, BeginStep, InitConfStep, CheckPidFileStep, CreatePidFileStep, WritePidFileStep,
       UndoStep, ForkStep, InitHandlerStep, UnlinkSockStep, BindUnixStep, BindInetStep,
       OpenSourcesStep, LoopTestStep, TurnEndsStep, WaitForClientStep, ClientsReadStep,
       CleanExitStep, ExitStep, CrashStep, SignalStep DEF main, environment
  <1>2. CASE UNCHANGED vars
    BY <1>2 DEF vars, files, past, IInv, StartTypeOK, WrittenByItsProcess, ForkedLater,
       PortHeld, PortOnce, LeftoverGoes, ServiceRestored, OneStart, PidFileKept,
       NobodyPassedOver, SocketsKept
  <1> QED BY <1>1, <1>2 DEF Next

\* However starts, ends and crashes interleave, IInv holds.
THEOREM Invariance == Spec => []IInv
  BY InitInv, NextInv, PTL DEF Spec

\* The state of every process and of what they share is of its type; only a
\* process that writes has the pid file open, only one that has bound a socket
\* has it (StartTypeOK).
THEOREM TypeCorrect == Spec => []StartTypeOK
  <1>1. IInv => StartTypeOK
    BY DEF IInv
  <1> QED BY <1>1, Invariance, PTL

\* A pid file that names no process is one that a crash or a failed write() left
\* behind (NoStaleFile).
THEOREM PidFiles == Spec => []NoStaleFile
  <1>1. IInv => NoStaleFile
    BY DEF IInv, WrittenByItsProcess, Owning, Serving, NoStaleFile
  <1> QED BY <1>1, Invariance, PTL

\* A daemon in its loop has the port; while starts do not disturb each other, one
\* that has not failed to write its pid file is the only such one, and the pid
\* file and the path lead to it (SoleDaemon).
THEOREM OneDaemon == Spec => []SoleDaemon
  <1>1. IInv => SoleDaemon
    BY DEF IInv, PortHeld, PidFileKept, SocketsKept, Owning, SoleDaemon
  <1> QED BY <1>1, Invariance, PTL

\* What a crash leaves behind turns away one start at most (ServiceRestored).
THEOREM Restored == Spec => []ServiceRestored
  <1>1. IInv => ServiceRestored
    BY DEF IInv
  <1> QED BY <1>1, Invariance, PTL

=============================================================================
