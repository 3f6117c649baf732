---------------------------- MODULE MCRdsQuery -----------------------------
(***************************************************************************)
(* Instances of RdsQuery.                                                  *)
(***************************************************************************)
EXTENDS RdsQuery

CONSTANT other

NoRequests == {}
NoMasks    == {}

\* Two items until both are shown twice; one item for ever, with late answers and
\* the end of the daemon; and at once, without waiting, with signals.
Plain == [EventMask |-> {"ptype"}, RecordCount |-> 0, DirectWanted |-> FALSE,
          late |-> FALSE, signal |-> FALSE, crash |-> FALSE]

AllScenarios ==
    {[Plain EXCEPT !.EventMask = {"rflags", "ptype"}, !.RecordCount = 2],
     [Plain EXCEPT !.late = TRUE, !.crash = TRUE],
     [Plain EXCEPT !.DirectWanted = TRUE, !.RecordCount = 1, !.signal = TRUE]}

=============================================================================
