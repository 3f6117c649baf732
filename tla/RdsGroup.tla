------------------------------ MODULE RdsGroup ------------------------------
(***************************************************************************)
(* Assembly of RDS groups from blocks: class RDSgroup (rdsgroup.cpp) and   *)
(* the part of RDSdecoder::AddBytes() that feeds it block by block and     *)
(* keeps the group statistics.                                             *)
(*                                                                         *)
(* A transmitter sends groups 0, 1, 2, ... of four blocks each; the driver *)
(* hands the blocks to the decoder in order and may mark a block as        *)
(* erroneous, deliver one twice, insert E blocks and blocks of an invalid  *)
(* offset, or lose blocks without a trace (an overrun, a retune).  The     *)
(* content of a block is abstracted to the number of the group it belongs  *)
(* to, so that a group pieced together from two groups can be told apart.  *)
(***************************************************************************)
EXTENDS Integers

CONSTANTS
    GroupTypes,         \* the group types on the air, a subset of 0..31
    StatLimit,          \* AddBytes() reports statistics when the count exceeds it
    MaxBlocks           \* bound: number of block positions the run explores

ASSUME GroupTypesAssumption == GroupTypes \subseteq 0..31
ASSUME StatLimitAssumption  == StatLimit \in Nat
ASSUME MaxBlocksAssumption  == MaxBlocks \in Nat

GS_EMPTY      == "GS_EMPTY"
GS_INCOMPLETE == "GS_INCOMPLETE"
GS_ERROR      == "GS_ERROR"
GS_COMPLETE   == "GS_COMPLETE"
GroupStatus   == {GS_EMPTY, GS_INCOMPLETE, GS_ERROR, GS_COMPLETE}

GROUP_UNKNOWN == 32
AllTypes      == GroupTypes \cup {GROUP_UNKNOWN}

NoContent == -1                     \* a byte_buf entry that Clear() zeroed
Content   == Nat \cup {NoContent}   \* the group number a block belongs to

VARIABLES
    group,          \* RDSdecoder::group, an RDSgroup object
    good_group_counters, bad_group_counters, group_counters_cnt,
    stat_events,    \* how often RDS_EVENT_GROUP_STAT was set
    decoded,        \* the last complete group AddBytes() acted on
    pos,            \* transmitter: blocks sent so far (block pos % 4 is next)
    tx_type,        \* transmitter: type of the group being sent
    repeatable,     \* driver: the block sent last was delivered without error
    lost,           \* history: blocks lost since the group in assembly began
    intact          \* history: the group being sent arrived whole so far

decvars == <<group, good_group_counters, bad_group_counters,
             group_counters_cnt, stat_events, decoded>>
vars    == <<decvars, pos, tx_type, repeatable, lost, intact>>

-----------------------------------------------------------------------------
(* RDSgroup *)

Cleared ==
    [status |-> GS_EMPTY, type |-> GROUP_UNKNOWN, next |-> 0, last |-> -1,
     buf |-> [b \in 0..3 |-> NoContent]]

\* A block as the V4L2 interface delivers it: the offset number in the low
\* bits of the status byte, its error bit 0x80, and the data bytes.
Block == [num : 0..7, err : BOOLEAN, content : Nat, type : GroupTypes]

\* Fault: C' is not treated as C.
BlockNumFault(blk) == blk.num

\* C' (offset 4) is treated as C.
BlockNum(blk) == IF blk.num = 4 THEN 2 ELSE blk.num

Ignored(G, blk) ==
    \/ blk.num \in {5, 6}
    \/ /\ blk.num # 7
       /\ \/ BlockNum(blk) = G.last
          \/ G.status = GS_EMPTY /\ BlockNum(blk) # 0

\* Fault: the expected block number is not checked.
OutOfStepFault(G, blk) == blk.num = 7

OutOfStep(G, blk) == blk.num = 7 \/ BlockNum(blk) # G.next

Stored(G, blk) ==
    LET n == BlockNum(blk)
    IN  [status |-> IF n = 3 THEN GS_COMPLETE ELSE GS_INCOMPLETE,
         type   |-> IF n = 1 THEN blk.type ELSE G.type,
         next   |-> n + 1,
         last   |-> n,
         buf    |-> [G.buf EXCEPT ![n] = blk.content]]

AddBlock(G, blk) ==
    IF blk.err THEN [G EXCEPT !.status = GS_ERROR]
    ELSE IF Ignored(G, blk) THEN G
    ELSE IF OutOfStep(G, blk) THEN [G EXCEPT !.status = GS_ERROR]
    ELSE Stored(G, blk)

-----------------------------------------------------------------------------
(* RDSdecoder::AddBytes(), one block *)

\* Fault: the counter is not reset.
CountGroupFault ==
    /\ group_counters_cnt' = group_counters_cnt + 1
    /\ stat_events' = IF group_counters_cnt' > StatLimit
                      THEN stat_events + 1 ELSE stat_events

\* Fault: >= where the code has >, on the other side of the limit.
CountGroupLate ==
    IF group_counters_cnt > StatLimit
    THEN /\ group_counters_cnt' = 0
         /\ stat_events' = stat_events + 1
    ELSE /\ group_counters_cnt' = group_counters_cnt + 1
         /\ UNCHANGED stat_events

CountGroup ==
    IF group_counters_cnt + 1 > StatLimit
    THEN /\ group_counters_cnt' = 0
         /\ stat_events' = stat_events + 1
    ELSE /\ group_counters_cnt' = group_counters_cnt + 1
         /\ UNCHANGED stat_events

AddBytes(blk) ==
    LET G == AddBlock(group, blk)
    IN  \/ /\ G.status = GS_EMPTY
           /\ group' = Cleared
           /\ UNCHANGED <<good_group_counters, bad_group_counters,
                          group_counters_cnt, stat_events, decoded>>
        \/ /\ G.status = GS_ERROR
           /\ bad_group_counters' = [bad_group_counters EXCEPT ![G.type] = @ + 1]
           /\ CountGroup
           /\ group' = Cleared
           /\ UNCHANGED <<good_group_counters, decoded>>
        \/ /\ G.status = GS_INCOMPLETE
           /\ group' = G
           /\ UNCHANGED <<good_group_counters, bad_group_counters,
                          group_counters_cnt, stat_events, decoded>>
        \/ /\ G.status = GS_COMPLETE
           /\ good_group_counters' = [good_group_counters EXCEPT ![G.type] = @ + 1]
           /\ CountGroup
           /\ decoded' = G
           /\ group' = Cleared
           /\ UNCHANGED bad_group_counters

-----------------------------------------------------------------------------
(* The transmitter and the driver *)

Init ==
    /\ group = Cleared
    /\ good_group_counters = [t \in AllTypes |-> 0]
    /\ bad_group_counters  = [t \in AllTypes |-> 0]
    /\ group_counters_cnt = 0
    /\ stat_events = 0
    /\ decoded = Cleared
    /\ pos = 0
    /\ tx_type \in GroupTypes
    /\ repeatable = FALSE
    /\ lost = 0
    /\ intact = FALSE

NextPos ==
    /\ pos < MaxBlocks
    /\ pos' = pos + 1
    /\ IF pos % 4 = 3 THEN tx_type' \in GroupTypes ELSE UNCHANGED tx_type

\* Losses are counted against the group the decoder is assembling.
LostInGroup(n) == lost' = IF group'.status = GS_EMPTY THEN 0 ELSE n

BlockOnAir(num, err) ==
    [num |-> num, err |-> err, content |-> pos \div 4, type |-> tx_type]

DeliverGood ==
    /\ NextPos
    /\ \E num \in 0..4 :
          /\ (IF num = 4 THEN 2 ELSE num) = pos % 4
          /\ AddBytes(BlockOnAir(num, FALSE))
    /\ LostInGroup(lost)
    /\ repeatable' = TRUE
    /\ intact' = IF pos % 4 = 0 THEN group.status = GS_EMPTY \/ lost = 0
                                ELSE intact

DeliverErroneous ==
    /\ NextPos
    /\ AddBytes(BlockOnAir(pos % 4, TRUE))
    /\ LostInGroup(lost)
    /\ repeatable' = FALSE
    /\ intact' = FALSE

\* The block delivered last is delivered once more.
DeliverTwice ==
    /\ repeatable
    /\ AddBytes([num |-> (pos - 1) % 4, err |-> FALSE,
                 content |-> (pos - 1) \div 4, type |-> tx_type])
    /\ LostInGroup(lost)
    /\ UNCHANGED <<pos, tx_type, repeatable, intact>>

\* An E block (offsets 5 and 6), between two blocks of a group.
DeliverE ==
    /\ \E num \in {5, 6} : AddBytes(BlockOnAir(num, FALSE))
    /\ LostInGroup(lost)
    /\ UNCHANGED <<pos, tx_type, repeatable, intact>>

\* A block whose offset the receiver could not determine takes a position.
DeliverInvalid ==
    /\ NextPos
    /\ AddBytes(BlockOnAir(7, FALSE))
    /\ LostInGroup(lost)
    /\ repeatable' = FALSE
    /\ intact' = FALSE

Lose ==
    /\ NextPos
    /\ UNCHANGED decvars
    /\ LostInGroup(lost + 1)
    /\ repeatable' = FALSE
    /\ intact' = FALSE

Next ==
    \/ DeliverGood
    \/ DeliverErroneous
    \/ DeliverTwice
    \/ DeliverE
    \/ DeliverInvalid
    \/ Lose

Spec == Init /\ [][Next]_vars

-----------------------------------------------------------------------------
(* Properties *)

\* The types of the variables; between two blocks a group is empty or
\* incomplete, since AddBytes() clears erroneous and complete groups.
TypeOK ==
    /\ group \in [status : {GS_EMPTY, GS_INCOMPLETE}, type : AllTypes,
                  next : 0..3, last : -1..2, buf : [0..3 -> Content]]
    /\ good_group_counters \in [AllTypes -> Nat]
    /\ bad_group_counters \in [AllTypes -> Nat]
    /\ group_counters_cnt \in 0..StatLimit
    /\ stat_events \in Nat
    /\ decoded \in [status : {GS_EMPTY, GS_COMPLETE}, type : AllTypes,
                    next : 0..4, last : -1..3, buf : [0..3 -> Content]]
    /\ pos \in Nat
    /\ tx_type \in GroupTypes
    /\ repeatable \in BOOLEAN
    /\ lost \in Nat
    /\ intact \in BOOLEAN

\* What is in the buffer is one group: as long as fewer than three blocks
\* were lost since the group began, the blocks AddBytes() has collected in
\* byte_buf all belong to the group the first of them belongs to.  (Three are
\* enough to break it: the block that follows has the number of the last one
\* stored and is dropped as a repetition, and the rest of the next group
\* completes the buffer.)
OneGroupInBuffer ==
    lost < 3 => \A b \in 0..group.last : group.buf[b] = group.buf[0]

\* No intact group is missed: a group whose four blocks all arrived, with
\* any repetitions and E blocks in between, is the group decoded last when
\* its end is reached - provided nothing was lost in the group before it.
IntactGroupDecoded ==
    pos % 4 = 0 /\ intact =>
        /\ decoded.status = GS_COMPLETE
        /\ \A b \in 0..3 : decoded.buf[b] = (pos \div 4) - 1

\* What AddBytes() acts on is one group: a group is decoded only from four
\* blocks, and the type, of the group that is on the air - again as long as
\* fewer than three blocks were lost since it began.
DecodedGroupIsWhole ==
    [][decoded' # decoded /\ lost < 3 =>
           /\ \A b \in 0..3 : decoded'.buf[b] = pos \div 4
           /\ decoded'.type = tx_type]_vars

\* How many groups of the types below n a table of counters has, at n.
CountBelow(counters) ==
    LET count[n \in 0..(GROUP_UNKNOWN + 1)] ==
            IF n = 0 THEN 0
            ELSE count[n - 1] + (IF n - 1 \in DOMAIN counters THEN counters[n - 1] ELSE 0)
    IN  count

\* Statistics are reported after every StatLimit + 1 entries in the counters of
\* good and bad groups, and no entry gets lost at a report: the tables hold what
\* the reports so far had and the count since.  A group on air can have several
\* entries, as a bad one is entered with each of its erroneous blocks.
StatisticsPeriod ==
    LET Sum(counters) == CountBelow(counters)[GROUP_UNKNOWN + 1]
    IN  Sum(good_group_counters) + Sum(bad_group_counters)
            = stat_events * (StatLimit + 1) + group_counters_cnt

=============================================================================
