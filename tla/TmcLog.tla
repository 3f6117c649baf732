------------------------------- MODULE TmcLog ------------------------------
(***************************************************************************)
(* tmclog: writes the list of TMC messages to a log whenever rdsd says     *)
(* that it has changed (tmclog.cpp, tmcwriter.cpp).  A record is           *)
(*    tmc: <time>   with the lines of the list below it, or                *)
(*    dup: <time>   when the list is the one written last.                 *)
(* A signal ends tmclog, also in the middle of a record; a record is cut   *)
(* between two lines here, not inside one.                                 *)
(*                                                                         *)
(* What rdsd shows from one event to the next may be any of Lists: lines   *)
(* are added and expire, and another channel has another list.  The list   *)
(* is empty when rdsd has nothing but encrypted messages.                  *)
(***************************************************************************)
EXTENDS Integers, Sequences, SequencesExt, FiniteSetsExt

CONSTANTS
    Files,          \* names of logs
    Lists,          \* the lists rdsd may show: sequences of distinct lines
    LinesLeft,      \* bound: how many lines of a list a signal may leave
    MaxWrites,      \* bound: number of records that are written
    Times           \* bound: when a record may be written

\* The lines of the messages.
Lines == UNION {ToSet(l) : l \in Lists}

ASSUME ListsAssumption ==
    \A l \in Lists : l \in Seq(Lines) /\ \A m, n \in DOMAIN l : l[m] = l[n] => m = n
ASSUME LogBoundsAssumption ==
    /\ MaxWrites \in Nat /\ LinesLeft \cup Times \subseteq Nat
    /\ Times # {} /\ IsFiniteSet(Times)

VARIABLES
    log,        \* the records of each log
    logging,    \* the log that is open for writing: at most one
    last_s,     \* TmcWriter::last_s
    fresh,      \* history: nothing written yet in this session
    shown,      \* history: for each record the list, and whether a session began with
                \* it and whether its lines are missing
    now,        \* time of the last record
    writes      \* bound

logvars == <<log, logging, last_s, fresh, shown, now, writes>>

LogInit ==
    /\ log = [f \in Files |-> <<>>]
    /\ logging = {}
    /\ last_s = <<>>
    /\ fresh = TRUE
    /\ shown = [f \in Files |-> <<>>]
    /\ now = 0
    /\ writes = 0

\* main() up to the loop: the log is continued, or cleaned first.
Start(f, append_mode) ==
    /\ logging = {} /\ writes < MaxWrites
    /\ append_mode \/ log[f] # <<>>
    /\ logging' = {f}
    /\ last_s' = <<>>
    /\ fresh' = TRUE
    /\ IF append_mode THEN UNCHANGED <<log, shown>>
                      ELSE /\ log' = [log EXCEPT ![f] = <<>>]
                           /\ shown' = [shown EXCEPT ![f] = <<>>]
    /\ UNCHANGED <<now, writes>>

\* Fault: a list from which lines have gone passes for the same.
RepeatedFault(s) == ToSet(s) \subseteq ToSet(last_s)

Repeated(s) == s = last_s

\* TmcWriter::write() of the list that goes with a TMC event.
Write(f, s, time) ==
    /\ f \in logging /\ writes < MaxWrites
    /\ now' = time
    /\ writes' = writes + 1
    /\ log' = [log EXCEPT ![f] =
                 Append(@, IF Repeated(s) THEN [kind |-> "dup", time |-> time, lines |-> <<>>]
                                          ELSE [kind |-> "tmc", time |-> time, lines |-> s])]
    /\ shown' = [shown EXCEPT ![f] =
                   Append(@, [lines |-> s, time |-> time, first |-> fresh, cut |-> FALSE])]
    /\ last_s' = s
    /\ fresh' = FALSE
    /\ UNCHANGED logging

\* sig_proc() while write() writes a list: the destructor closes the log behind the
\* first n lines.
WriteInterrupted(f, s, time, n) ==
    /\ f \in logging /\ writes < MaxWrites
    /\ ~Repeated(s) /\ n < Len(s)
    /\ now' = time
    /\ writes' = writes + 1
    /\ log' = [log EXCEPT ![f] =
                 Append(@, [kind |-> IF n = 0 THEN "cut" ELSE "tmc", time |-> time,
                            lines |-> SubSeq(s, 1, n)])]
    /\ shown' = [shown EXCEPT ![f] =
                   Append(@, [lines |-> IF n = 0 /\ @ # <<>> THEN Last(@).lines
                                                             ELSE SubSeq(s, 1, n),
                              time |-> time, first |-> fresh, cut |-> n = 0])]
    /\ logging' = {}
    /\ last_s' = <<>> /\ fresh' = TRUE

\* The connection ends, or sig_proc() between two records; the log is closed.
Stop ==
    /\ logging # {} /\ logging' = {}
    /\ last_s' = <<>> /\ fresh' = TRUE
    /\ UNCHANGED <<log, shown, now, writes>>

LogNext ==
    \/ \E f \in Files, append_mode \in BOOLEAN : Start(f, append_mode)
    \/ \E f \in Files, s \in Lists, time \in Times :
          /\ now <= time
          /\ Write(f, s, time) \/ \E n \in LinesLeft : WriteInterrupted(f, s, time, n)
    \/ Stop

-----------------------------------------------------------------------------
(* TmcReader *)

\* getChunk(): the next record and, behind it, the repetitions, which are
\* skipped.  It tells of success only if the record has lines - a blank one
\* for an empty list; a record that is a repetition itself, or has been cut, has
\* none.
Skipped(records) ==
    LET later == {n \in 2..Len(records) : records[n].kind # "dup"}
    IN  IF later = {} THEN Len(records)
        ELSE Min(later) - 1

getChunk(records) ==
    [status |-> records # <<>> /\ records[1].kind = "tmc",
     rest   |-> SubSeq(records, Skipped(records) + 1, Len(records))]

=============================================================================
