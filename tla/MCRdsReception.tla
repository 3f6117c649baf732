--------------------------- MODULE MCRdsReception ---------------------------
(***************************************************************************)
(* Two stations, of the codes D3A1 and D010.  The lists of alternative     *)
(* frequencies follow method A, with a long wave frequency, and method B.  *)
(***************************************************************************)
EXTENDS RdsReception

One == 54177
Two == 53264
MCStations == {One, Two}

MCTP  == [pi \in Stations |-> pi = One]
MCPTY == [pi \in Stations |-> IF pi = One THEN 10 ELSE 11]

MCAltFreqs ==
    [pi \in Stations |->
        IF pi = One THEN {<<226, 10>>, <<250, 30>>}
                  ELSE {<<227, 50>>, <<50, 60>>, <<40, 50>>}]

MCTextLength == [pi \in Stations |-> [t \in 0..MaxText |-> IF pi = One /\ t # 1 THEN 4 ELSE 2]]

MCMessages ==
    {[type |-> "SINGLE", CI |-> 3, says |-> "evt=101"],
     [type |-> "GROUP", CI |-> 0, says |-> "encrypted"]}

\* Last and first days of months and years, with and without leap day.
MCDays == {51603, 51604, 53004, 53005}
MCTimes == {<<0, 31>>, <<23, 29>>}
MCOffsets == {-25, -1, 2}
MCTunerFreqs == {-1}
MCJunk == {{"STEREO"}}

\* Both stations send the same types; or one sends the text in both ways, or
\* reports the other one.
MCProgrammes ==
    {Stations \X types : types \in {{"2A"}, {"0A", "0B"}, {"4A"}, {"8A"}, {"14A"}, {"14B", "3A"}}}
        \cup {{One} \X {"2A", "2B"}, {<<One, "14A">>, <<One, "0A">>, <<Two, "0A">>}}

=============================================================================
