------------------------------ MODULE TmcList ------------------------------
(***************************************************************************)
(* rdsd: the list of TMC messages of a channel (tmclist.cpp).  A group     *)
(* becomes a line of text; a line that is in the list already only gets a  *)
(* new time.  Lines are taken off by age, when the next group comes.       *)
(*                                                                         *)
(* A group is a record of its type, its continuity index CI, and what else *)
(* it says as one value.                                                   *)
(***************************************************************************)
EXTENDS Integers, Sequences

CONSTANT time_to_live   \* in seconds: 600

\* TMClist(); the provider name is sent in two halves.
NewList == [tmc_list |-> <<>>, tmc_provider |-> <<" ", " ">>, is_changed |-> FALSE]

\* The first and the second half of the provider name come with CI 4 and 5.
Provider(tl, g) ==
    IF g.type = "SYSTEM" /\ g.CI \in {4, 5}
    THEN [tl EXCEPT !.tmc_provider[g.CI - 3] = g.says]
    ELSE tl

\* The line that a group becomes: nothing for an encrypted message and for a
\* reserved continuity index.
Line(tl, g) ==
    CASE g.type = "GROUP" /\ g.CI \notin 1..6          -> <<>>
      [] g.type = "SYSTEM" /\ g.CI \in {4, 5}          -> <<"provider", tl.tmc_provider>>
      [] g.type = "SYSTEM" /\ g.CI \in {6, 7}          -> <<"Y">>
      [] OTHER                                         -> <<g.type, g.CI, g.says>>

HasLine(tl, line) == \E n \in DOMAIN tl.tmc_list : tl.tmc_list[n].data = line

\* Fault: a line that is received again keeps its old time.
AddStringFault(tl, line, now) ==
    IF HasLine(tl, line)
    THEN tl
    ELSE [tl EXCEPT !.tmc_list = Append(@, [rx_time |-> now, data |-> line]),
                    !.is_changed = TRUE]

\* add_string()
add_string(tl, line, now) ==
    IF HasLine(tl, line)
    THEN [tl EXCEPT !.tmc_list = [n \in DOMAIN @ |->
                        IF @[n].data = line THEN [@[n] EXCEPT !.rx_time = now] ELSE @[n]]]
    ELSE [tl EXCEPT !.tmc_list = Append(@, [rx_time |-> now, data |-> line]),
                    !.is_changed = TRUE]

\* The lines that are not too old, of the first n of a list.
Kept(list, now) ==
    LET kept[n \in 0..Len(list)] ==
            IF n = 0 THEN <<>>
            ELSE IF now - list[n].rx_time > time_to_live THEN kept[n - 1]
            ELSE Append(kept[n - 1], list[n])
    IN  kept

\* check_timeouts()
check_timeouts(tl, now) ==
    LET kept == Kept(tl.tmc_list, now)[Len(tl.tmc_list)]
    IN  [tl EXCEPT !.tmc_list = kept,
                   !.is_changed = @ \/ Len(kept) < Len(tl.tmc_list)]

\* AddGroup(); is_changed is never reset.
AddGroup(tl, g, now) ==
    LET named == Provider(tl, g)
    IN  check_timeouts(add_string(named, Line(named, g), now), now)

\* AsString(): the lines in the order of their first reception.
Lines(tl) == [n \in DOMAIN tl.tmc_list |-> tl.tmc_list[n].data]

=============================================================================
