--------------------------- MODULE RdsGroupProofs ---------------------------
(***************************************************************************)
(* Proofs about RdsGroup: type correctness, that the buffer never holds    *)
(* blocks of two groups, that a decoded group is the one on the air, that  *)
(* an intact group is always decoded, and that the statistics count every  *)
(* group once - for any set of group types, any limit of the statistics    *)
(* and any length of the block stream.                                     *)
(***************************************************************************)
EXTENDS RdsGroup, ProofFacts

\* What AddBytes() leaves behind: an object fresh from Clear(), or blocks
\* 0..last of a group whose type is known from block 1 on.
GroupShape ==
    /\ group.status = GS_EMPTY => group = Cleared
    /\ group.status = GS_INCOMPLETE => /\ group.last \in 0..2
                                       /\ group.next = group.last + 1

\* The group in assembly began at block 0 of group g, the transmitter is
\* last + 1 + lost blocks further on, and all that was stored came from g.
AssembledFrom(g) ==
    /\ pos = 4*g + group.last + 1 + lost
    /\ \A b \in 0..group.last : group.buf[b] = g
    /\ group.last >= 1 /\ pos < 4*g + 4 => group.type = tx_type

Assembly ==
    /\ group.status = GS_EMPTY => lost = 0
    /\ group.status = GS_INCOMPLETE /\ lost < 3 /\ repeatable => lost = 0
    /\ group.status = GS_INCOMPLETE /\ lost < 3 => \E g \in 0..pos : AssembledFrom(g)

\* While a group arrives intact its blocks are in the buffer; at its end they
\* have been decoded.
Intact ==
    intact => IF pos % 4 = 0
              THEN /\ group.status = GS_EMPTY
                   /\ decoded.status = GS_COMPLETE
                   /\ \A b \in 0..3 : decoded.buf[b] = (pos \div 4) - 1
              ELSE /\ group.status = GS_INCOMPLETE
                   /\ group.last = (pos % 4) - 1
                   /\ lost = 0

\* The driver repeats a block only after it has delivered one.
Types == TypeOK /\ GroupShape /\ (repeatable => pos > 0)

\* The inductive invariant.
IInv == Types /\ Assembly /\ Intact

-----------------------------------------------------------------------------

\* The block number and the group number of a position.
LEMMA Position ==
    ASSUME NEW p \in Nat
    PROVE  /\ p % 4 \in 0..3
           /\ p \div 4 \in Nat
           /\ p = 4 * (p \div 4) + (p % 4)
           /\ p % 4 = 3 => (p+1) % 4 = 0 /\ (p+1) \div 4 = (p \div 4) + 1
           /\ p % 4 # 3 => (p+1) % 4 = (p % 4) + 1 /\ (p+1) \div 4 = p \div 4
  OBVIOUS

\* A position is given by its group and block number in one way only.
LEMMA PositionUnique ==
    ASSUME NEW p \in Nat, NEW g \in Nat, NEW r \in 0..3, p = 4*g + r
    PROVE  p \div 4 = g /\ p % 4 = r
  OBVIOUS

-----------------------------------------------------------------------------
(* One block through AddBytes() *)

\* The block is stored: it is the next one of the group.
Accepted(blk) ==
    /\ ~blk.err
    /\ blk.num \in 0..4
    /\ BlockNum(blk) = group.next

\* AddBytes() clears the group, ignores the block, extends the group, or
\* completes and decodes it.
LEMMA AddBytesOutcomes ==
    ASSUME TypeOK, GroupShape, NEW blk \in Block, AddBytes(blk)
    PROVE  \/ group' = Cleared /\ decoded' = decoded
           \/ /\ group' = group /\ decoded' = decoded
              /\ group.status = GS_INCOMPLETE
              /\ ~blk.err /\ (blk.num \in {5, 6} \/ BlockNum(blk) = group.last)
           \/ /\ Accepted(blk) /\ group.next # 3
              /\ group' = Stored(group, blk) /\ decoded' = decoded
           \/ /\ Accepted(blk) /\ group.next = 3 /\ group.status = GS_INCOMPLETE
              /\ group' = Cleared /\ decoded' = Stored(group, blk)
<1> DEFINE G == AddBlock(group, blk)
<1> USE DEF GS_EMPTY, GS_INCOMPLETE, GS_ERROR, GS_COMPLETE
<1>1. group.status \in {GS_EMPTY, GS_INCOMPLETE}
  BY DEF TypeOK
<1>2. CASE G.status = GS_EMPTY \/ G.status = GS_ERROR
  BY <1>2 DEF AddBytes
<1>3. CASE blk.err /\ G.status \notin {GS_EMPTY, GS_ERROR}
  <2>1. G.status = GS_ERROR
    BY <1>3 DEF AddBlock, TypeOK
  <2>. QED  BY <2>1, <1>3
<1>4. CASE ~blk.err /\ Ignored(group, blk) /\ G.status \notin {GS_EMPTY, GS_ERROR}
  <2>1. G = group
    BY <1>4 DEF AddBlock
  <2>2. group.status = GS_INCOMPLETE
    BY <2>1, <1>1, <1>4
  <2>3. group' = group /\ decoded' = decoded
    BY <2>1, <2>2 DEF AddBytes
  <2>4. blk.num \in {5, 6} \/ BlockNum(blk) = group.last
    BY <1>4, <2>2 DEF Ignored
  <2>. QED  BY <2>2, <2>3, <2>4, <1>4
<1>5. CASE ~blk.err /\ ~Ignored(group, blk) /\ G.status \notin {GS_EMPTY, GS_ERROR}
  <2>1. ~OutOfStep(group, blk)
    BY <1>5 DEF AddBlock, TypeOK
  <2>2. G = Stored(group, blk)
    BY <1>5, <2>1 DEF AddBlock
  <2>3. Accepted(blk)
    BY <1>5, <2>1 DEF Accepted, OutOfStep, Ignored, Block
  <2>4. group.next = 3 => group.status = GS_INCOMPLETE
    BY <1>1 DEF GroupShape, Cleared
  <2>5. CASE group.next = 3
    <3>1. G.status = GS_COMPLETE
      BY <2>2, <2>3, <2>5 DEF Stored, Accepted
    <3>2. group' = Cleared /\ decoded' = G
      BY <3>1 DEF AddBytes
    <3>. QED  BY <3>2, <2>2, <2>3, <2>4, <2>5
  <2>6. CASE group.next # 3
    <3>1. G.status = GS_INCOMPLETE
      BY <2>2, <2>3, <2>6 DEF Stored, Accepted
    <3>2. group' = G /\ decoded' = decoded
      BY <3>1 DEF AddBytes
    <3>. QED  BY <3>2, <2>2, <2>3, <2>6
  <2>. QED  BY <2>5, <2>6
<1>. QED  BY <1>2, <1>3, <1>4, <1>5

\* AddBytes() keeps the types of its variables and the shape of the group.
LEMMA AddBytesType ==
    ASSUME TypeOK, GroupShape, NEW blk \in Block, AddBytes(blk)
    PROVE  /\ group' \in [status : {GS_EMPTY, GS_INCOMPLETE}, type : AllTypes,
                          next : 0..3, last : -1..2, buf : [0..3 -> Content]]
           /\ good_group_counters' \in [AllTypes -> Nat]
           /\ bad_group_counters' \in [AllTypes -> Nat]
           /\ group_counters_cnt' \in 0..StatLimit
           /\ stat_events' \in Nat
           /\ decoded' \in [status : {GS_EMPTY, GS_COMPLETE}, type : AllTypes,
                            next : 0..4, last : -1..3, buf : [0..3 -> Content]]
           /\ GroupShape'
<1> USE DEF GS_EMPTY, GS_INCOMPLETE, GS_ERROR, GS_COMPLETE
<1>1. Cleared \in [status : {GS_EMPTY}, type : AllTypes,
                   next : 0..3, last : {-1}, buf : [0..3 -> Content]]
  BY DEF Cleared, AllTypes, Content, NoContent
<1>2. CountGroup => /\ group_counters_cnt' \in 0..StatLimit
                    /\ stat_events' \in Nat
  BY StatLimitAssumption DEF CountGroup, TypeOK
<1>3. /\ group_counters_cnt' \in 0..StatLimit
      /\ stat_events' \in Nat
  BY <1>2 DEF AddBytes, TypeOK
<1>4. /\ good_group_counters' \in [AllTypes -> Nat]
      /\ bad_group_counters' \in [AllTypes -> Nat]
  BY DEF AddBytes, TypeOK
<1>5. ASSUME Accepted(blk)
      PROVE  Stored(group, blk) \in
                [status : {IF group.next = 3 THEN GS_COMPLETE ELSE GS_INCOMPLETE},
                 type : AllTypes, next : {group.next + 1}, last : {group.next},
                 buf : [0..3 -> Content]]
  <2>1. BlockNum(blk) = group.next /\ group.next \in 0..3
    BY <1>5 DEF Accepted, TypeOK
  <2>2. blk.content \in Content /\ blk.type \in AllTypes
    BY DEF Block, Content, AllTypes
  <2>. QED  BY <2>1, <2>2 DEF Stored, TypeOK
<1>6. CASE group' = Cleared /\ decoded' = decoded
  BY <1>1, <1>3, <1>4, <1>6 DEF TypeOK, GroupShape
<1>7. CASE group' = group /\ decoded' = decoded
  BY <1>3, <1>4, <1>7 DEF TypeOK, GroupShape, Cleared
<1>8. CASE /\ Accepted(blk) /\ group.next # 3
           /\ group' = Stored(group, blk) /\ decoded' = decoded
  BY <1>3, <1>4, <1>5, <1>8 DEF TypeOK, GroupShape
<1>9. CASE /\ Accepted(blk) /\ group.next = 3
           /\ group' = Cleared /\ decoded' = Stored(group, blk)
  BY <1>1, <1>3, <1>4, <1>5, <1>9 DEF TypeOK, GroupShape
<1>. QED  BY <1>6, <1>7, <1>8, <1>9, AddBytesOutcomes

-----------------------------------------------------------------------------
(* Type correctness *)

\* Every block the driver delivers is a Block.
LEMMA DeliveredBlocks ==
    ASSUME TypeOK
    PROVE  /\ \A num \in 0..7 : /\ BlockOnAir(num, FALSE) \in Block
                                /\ BlockOnAir(num, TRUE) \in Block
           /\ pos % 4 \in 0..7
           /\ pos > 0 => [num |-> (pos - 1) % 4, err |-> FALSE,
                          content |-> (pos - 1) \div 4, type |-> tx_type] \in Block
  BY DEF TypeOK, Block, BlockOnAir

\* Types is inductive.
LEMMA TypesInit == Init => Types
<1>1. Cleared \in [status : {GS_EMPTY}, type : AllTypes,
                   next : {0}, last : {-1}, buf : [0..3 -> Content]]
  BY DEF Cleared, AllTypes, Content, NoContent
<1>2. Init => TypeOK
  <2>1. Init => /\ group \in [status : {GS_EMPTY}, type : AllTypes, next : {0},
                                last : {-1}, buf : [0..3 -> Content]]
                /\ decoded = group
    BY <1>1 DEF Init
  <2>2. Init => /\ good_group_counters \in [AllTypes -> Nat]
                /\ bad_group_counters \in [AllTypes -> Nat]
                /\ group_counters_cnt \in 0..StatLimit
    BY StatLimitAssumption DEF Init
  <2>3. Init => stat_events \in Nat /\ pos \in Nat /\ lost \in Nat
    BY DEF Init
  <2>4. Init => tx_type \in GroupTypes /\ repeatable \in BOOLEAN /\ intact \in BOOLEAN
    BY Zenon DEF Init
  <2>. QED  BY <2>1, <2>2, <2>3, <2>4 DEF TypeOK
<1>3. Init => GroupShape
  BY DEF Init, GroupShape, Cleared, GS_EMPTY, GS_INCOMPLETE
<1>. QED  BY <1>2, <1>3 DEF Types, Init

\* Every step of the receiver keeps Types.
LEMMA TypesNext ==
    ASSUME Types, [Next]_vars
    PROVE  Types'
<1>1. ASSUME NEW blk \in Block, AddBytes(blk), LostInGroup(lost),
             pos' \in Nat, tx_type' \in GroupTypes,
             repeatable' \in BOOLEAN, repeatable' => pos' > 0, intact' \in BOOLEAN
      PROVE  Types'
  <2>1. lost' \in Nat
    BY <1>1 DEF LostInGroup, Types, TypeOK
  <2>. QED  BY <1>1, <2>1, AddBytesType DEF Types, TypeOK
<1>2. NextPos => pos' \in Nat /\ pos' > 0 /\ tx_type' \in GroupTypes
  BY DEF NextPos, Types, TypeOK
<1>3. CASE DeliverGood
  <2>1. PICK num \in 0..4 : AddBytes(BlockOnAir(num, FALSE))
    BY <1>3 DEF DeliverGood
  <2>2. BlockOnAir(num, FALSE) \in Block
    <3>1. num \in 0..7
      BY <2>1
    <3>. QED  BY <3>1, DeliveredBlocks DEF Types
  <2>3. intact' \in BOOLEAN
    BY <1>3 DEF DeliverGood, Types, TypeOK
  <2>. QED  BY <1>1, <1>2, <1>3, <2>1, <2>2, <2>3 DEF DeliverGood
<1>4. CASE DeliverErroneous
  BY <1>1, <1>2, <1>4, DeliveredBlocks DEF DeliverErroneous, Types
<1>5. CASE DeliverTwice
  <2>1. /\ UNCHANGED <<pos, tx_type, repeatable, intact>>
        /\ pos > 0
    BY <1>5 DEF DeliverTwice, Types
  <2>. QED  BY <1>1, <1>5, <2>1, DeliveredBlocks DEF DeliverTwice, Types, TypeOK
<1>6. CASE DeliverE
  <2>1. PICK num \in {5, 6} : AddBytes(BlockOnAir(num, FALSE))
    BY <1>6 DEF DeliverE
  <2>2. BlockOnAir(num, FALSE) \in Block
    <3>1. num \in 0..7
      BY <2>1
    <3>. QED  BY <3>1, DeliveredBlocks DEF Types
  <2>3. UNCHANGED <<pos, tx_type, repeatable, intact>> /\ LostInGroup(lost)
    BY <1>6 DEF DeliverE
  <2>. QED  BY <1>1, <2>1, <2>2, <2>3 DEF Types, TypeOK
<1>7. CASE DeliverInvalid
  <2>1. BlockOnAir(7, FALSE) \in Block
    <3>1. 7 \in 0..7
      OBVIOUS
    <3>. QED  BY <3>1, DeliveredBlocks DEF Types
  <2>. QED  BY <1>1, <1>2, <1>7, <2>1 DEF DeliverInvalid
<1>8. CASE Lose
  <2>1. lost' \in Nat
    BY <1>8 DEF Lose, LostInGroup, Types, TypeOK
  <2>2. UNCHANGED decvars /\ repeatable' = FALSE /\ intact' = FALSE
    BY <1>8 DEF Lose
  <2>3. TypeOK'
    BY <2>1, <2>2, <1>2, <1>8 DEF Lose, decvars, Types, TypeOK
  <2>4. GroupShape'
    BY <2>2 DEF decvars, Types, GroupShape
  <2>. QED  BY <2>2, <2>3, <2>4 DEF Types
<1>9. CASE UNCHANGED vars
  <2>1. TypeOK'
    BY <1>9 DEF vars, decvars, Types, TypeOK
  <2>2. GroupShape'
    BY <1>9 DEF vars, decvars, Types, GroupShape
  <2>. QED  BY <2>1, <2>2, <1>9 DEF vars, Types
<1>. QED  BY <1>3, <1>4, <1>5, <1>6, <1>7, <1>8, <1>9 DEF Next

\* Every variable keeps its type; between blocks the group under assembly is
\* empty or incomplete.
THEOREM TypeCorrect == Spec => []TypeOK
<1>1. Types => TypeOK
  BY DEF Types
<1>. QED  BY <1>1, TypesInit, TypesNext, PTL DEF Spec

-----------------------------------------------------------------------------
(* One group in the buffer, and intact groups decoded *)

\* The strengthening holds before the first block.
LEMMA IInvInit == Init => IInv
<1>1. Init => Types
  BY TypesInit
<1>2. Init => Assembly
  BY DEF Init, Assembly, Cleared, GS_EMPTY, GS_INCOMPLETE
<1>3. Init => Intact
  BY Zenon DEF Init, Intact
<1>. QED  BY <1>1, <1>2, <1>3 DEF IInv

\* A block that is the next one of the group is stored.
LEMMA AddBytesStores ==
    ASSUME TypeOK, GroupShape, NEW blk \in Block, AddBytes(blk), Accepted(blk)
    PROVE  IF group.next = 3
           THEN group' = Cleared /\ decoded' = Stored(group, blk)
           ELSE group' = Stored(group, blk) /\ decoded' = decoded
<1> USE DEF GS_EMPTY, GS_INCOMPLETE, GS_ERROR, GS_COMPLETE
<1>1. group.next # group.last /\ (group.status = GS_EMPTY => group.next = 0)
  BY DEF TypeOK, GroupShape, Cleared
<1>2. ~Ignored(group, blk) /\ ~OutOfStep(group, blk)
  BY <1>1 DEF Accepted, Ignored, OutOfStep
<1>3. AddBlock(group, blk) = Stored(group, blk)
  BY <1>2 DEF AddBlock, Accepted
<1>. QED  BY <1>3 DEF AddBytes, Stored, Accepted

\* A block that is to be ignored leaves a group in assembly as it is.
LEMMA AddBytesIgnores ==
    ASSUME TypeOK, NEW blk \in Block, AddBytes(blk),
           ~blk.err, Ignored(group, blk), group.status = GS_INCOMPLETE
    PROVE  group' = group /\ decoded' = decoded
  BY DEF AddBytes, AddBlock, GS_EMPTY, GS_INCOMPLETE, GS_ERROR, GS_COMPLETE

\* A block marked erroneous, or of an invalid offset, is never stored.
LEMMA AddBytesRejects ==
    ASSUME TypeOK, GroupShape, NEW blk \in Block, AddBytes(blk),
           blk.err \/ blk.num = 7
    PROVE  group' = Cleared /\ decoded' = decoded
<1>1. ~Accepted(blk)
  BY DEF Accepted
<1>2. ~(blk.num \in {5, 6} \/ BlockNum(blk) = group.last) \/ blk.err
  BY DEF TypeOK, BlockNum
<1>. QED  BY <1>1, <1>2, AddBytesOutcomes

-----------------------------------------------------------------------------
(* Assembly is preserved *)

\* A step that clears the group keeps Assembly, and so does one that leaves
\* the group and the stream as they are.
LEMMA AssemblyCleared ==
    ASSUME group' = Cleared, LostInGroup(lost)
    PROVE  Assembly'
  BY DEF Assembly, LostInGroup, Cleared, GS_EMPTY, GS_INCOMPLETE

\* A step that changes neither the group nor the stream keeps Assembly.
LEMMA AssemblyKept ==
    ASSUME Assembly, UNCHANGED <<group, pos, tx_type, repeatable>>, LostInGroup(lost)
    PROVE  Assembly' /\ lost' = lost
  BY DEF Assembly, LostInGroup, AssembledFrom, GS_EMPTY, GS_INCOMPLETE

\* The next block of the group under assembly, taken from the position just
\* sent, continues the group: nothing was lost in between.
LEMMA NextBlockFits ==
    ASSUME TypeOK, GroupShape, Assembly, lost < 3,
           group.status = GS_INCOMPLETE, group.next = pos % 4
    PROVE  lost = 0 /\ AssembledFrom(pos \div 4)
<1>1. PICK g \in 0..pos : AssembledFrom(g)
  BY DEF Assembly
<1>2. pos \in Nat /\ g \in Nat /\ lost \in 0..2 /\ group.last \in 0..2
      /\ group.next = group.last + 1
  BY DEF TypeOK, GroupShape
<1>3. pos = 4*g + group.last + 1 + lost
  BY <1>1 DEF AssembledFrom
<1>4. pos = 4 * (pos \div 4) + group.last + 1 /\ pos \div 4 \in Nat
  BY <1>2, Position
<1>5. lost = 0 /\ g = pos \div 4
  BY <1>2, <1>3, <1>4
<1>. QED  BY <1>1, <1>5

\* A good block in its place.
LEMMA AssemblyDeliverGood ==
    ASSUME TypeOK, GroupShape, Assembly, DeliverGood
    PROVE  Assembly'
<1> USE DEF GS_EMPTY, GS_INCOMPLETE
<1>1. PICK num \in 0..4 : /\ (IF num = 4 THEN 2 ELSE num) = pos % 4
                          /\ AddBytes(BlockOnAir(num, FALSE))
  BY DEF DeliverGood
<1> DEFINE blk == BlockOnAir(num, FALSE)
<1>2. blk \in Block
  <2>1. num \in 0..7
    BY <1>1
  <2>. QED  BY <2>1, DeliveredBlocks
<1>3. /\ blk.num = num /\ ~blk.err /\ blk.content = pos \div 4 /\ blk.type = tx_type
      /\ BlockNum(blk) = pos % 4
  BY <1>1 DEF BlockOnAir, BlockNum
<1>4. /\ pos' = pos + 1
      /\ pos % 4 # 3 => tx_type' = tx_type
      /\ LostInGroup(lost)
  BY DEF DeliverGood, NextPos
<1>5. /\ pos \in Nat /\ pos % 4 \in 0..3 /\ pos \div 4 \in Nat
      /\ pos = 4 * (pos \div 4) + (pos % 4)
  BY Position DEF TypeOK
<1> HIDE DEF blk
<1>6. CASE group' = Cleared
  BY <1>4, <1>6, AssemblyCleared
<1>7. CASE /\ group' = group /\ group.status = GS_INCOMPLETE
           /\ blk.num \in {5, 6} \/ BlockNum(blk) = group.last
  <2>1. pos % 4 = group.last
    BY <1>1, <1>3, <1>7
  <2>2. lost' = lost /\ lost \in Nat
    BY <1>4, <1>7 DEF LostInGroup, TypeOK
  <2>3. lost < 3 => FALSE
    <3>1. SUFFICES ASSUME lost < 3 PROVE FALSE
      OBVIOUS
    <3>2. PICK g \in 0..pos : AssembledFrom(g)
      BY <1>7, <3>1 DEF Assembly
    <3>3. pos = 4*g + group.last + 1 + lost /\ group.last \in 0..2
      BY <3>2, <1>7 DEF AssembledFrom, GroupShape
    <3>4. pos = 4 * (pos \div 4) + group.last
      BY <2>1, <1>5
    <3>5. pos \div 4 \in Nat /\ g \in Nat
      BY <3>2, <1>5
    <3> DEFINE q == pos \div 4
    <3> HIDE DEF q
    <3>6. 4*q = 4*g + 1 + lost /\ q \in Nat
      BY <3>3, <3>4, <3>5, <2>2 DEF q
    <3>. QED  BY <3>6, <3>5, <3>1, <2>2
  <2>. QED  BY <2>2, <2>3, <1>7 DEF Assembly
<1>8. CASE Accepted(blk) /\ group.next # 3 /\ group' = Stored(group, blk)
  <2> DEFINE n == pos % 4
  <2>1. /\ n = group.next /\ n \in 0..2
        /\ group'.status = GS_INCOMPLETE /\ group'.last = n
        /\ group'.type = IF n = 1 THEN tx_type ELSE group.type
        /\ group'.buf = [group.buf EXCEPT ![n] = pos \div 4]
    BY <1>3, <1>5, <1>8 DEF Accepted, Stored
  <2>2. lost' = lost /\ tx_type' = tx_type
    BY <1>4, <2>1 DEF LostInGroup
  <2>3. ASSUME lost < 3
        PROVE  /\ lost = 0
               /\ \A b \in 0..n : group'.buf[b] = pos \div 4
               /\ n >= 1 => group'.type = tx_type
    <3>1. CASE group.status = GS_EMPTY
      <4>1. n = 0 /\ lost = 0
        BY <3>1, <2>1 DEF GroupShape, Cleared, Assembly
      <4>. QED  BY <4>1, <2>1 DEF TypeOK
    <3>2. CASE group.status = GS_INCOMPLETE
      <4>1. lost = 0 /\ AssembledFrom(pos \div 4)
        BY <3>2, <2>1, <2>3, NextBlockFits
      <4>2. n = group.last + 1 /\ n \in 1..2 /\ group.last \in 0..2
        BY <3>2, <2>1 DEF GroupShape
      <4>3. \A b \in 0..n : group'.buf[b] = pos \div 4
        BY <4>1, <4>2, <2>1 DEF AssembledFrom, TypeOK
      <4>4. group'.type = tx_type
        <5>1. pos < 4 * (pos \div 4) + 4
          BY <1>5
        <5>2. group.last >= 1 => group.type = tx_type
          BY <4>1, <5>1 DEF AssembledFrom
        <5>3. CASE n = 1
          BY <5>3, <2>1
        <5>4. CASE n = 2
          BY <5>4, <5>2, <4>2, <2>1
        <5>. QED  BY <5>3, <5>4, <4>2
      <4>. QED  BY <4>1, <4>3, <4>4
    <3>. QED  BY <3>1, <3>2 DEF TypeOK
  <2>4. lost < 3 => AssembledFrom(pos \div 4)'
    BY <2>1, <2>2, <2>3, <1>4, <1>5 DEF AssembledFrom
  <2>. QED  BY <2>1, <2>2, <2>3, <2>4, <1>4, <1>5 DEF Assembly
<1>. QED  BY <1>6, <1>7, <1>8, <1>1, <1>2, AddBytesOutcomes DEF blk

\* A block repeated by the driver.
LEMMA AssemblyDeliverTwice ==
    ASSUME Types, Assembly, DeliverTwice
    PROVE  Assembly'
<1> USE DEF GS_EMPTY, GS_INCOMPLETE
<1> DEFINE p == pos - 1
           blk == [num |-> p % 4, err |-> FALSE, content |-> p \div 4, type |-> tx_type]
<1>1. /\ repeatable /\ pos > 0 /\ AddBytes(blk)
      /\ UNCHANGED <<pos, tx_type, repeatable>>
      /\ LostInGroup(lost)
      /\ TypeOK /\ GroupShape
  BY DEF DeliverTwice, Types
<1>2. blk \in Block
  BY <1>1, DeliveredBlocks
<1>3. /\ p \in Nat /\ pos = p + 1 /\ p % 4 \in 0..3 /\ p \div 4 \in Nat
      /\ p = 4 * (p \div 4) + (p % 4)
  <2>1. p \in Nat /\ pos = p + 1
    BY <1>1 DEF TypeOK
  <2> HIDE DEF p
  <2>. QED  BY <2>1, Position
<1>4. blk.num = p % 4 /\ ~blk.err /\ blk.content = p \div 4 /\ BlockNum(blk) = p % 4
  BY <1>3 DEF BlockNum
<1> HIDE DEF blk, p
<1>5. CASE group' = Cleared
  BY <1>1, <1>5, AssemblyCleared
<1>6. CASE group' = group
  BY <1>1, <1>6, AssemblyKept
<1>7. CASE Accepted(blk) /\ group.next # 3 /\ group' = Stored(group, blk)
  <2>1. /\ p % 4 = group.next
        /\ group'.status = GS_INCOMPLETE /\ group'.last = p % 4
        /\ group'.buf = [group.buf EXCEPT ![p % 4] = p \div 4]
    BY <1>3, <1>4, <1>7 DEF Accepted, Stored
  <2>2. lost' = lost
    BY <1>1, <2>1 DEF LostInGroup
  <2>3. CASE group.status = GS_EMPTY
    <3>1. p % 4 = 0 /\ lost = 0
      BY <2>1, <2>3, <1>1 DEF GroupShape, Cleared, Assembly
    <3>2. PICK g \in Nat : g = p \div 4 /\ p = 4*g
      BY <3>1, <1>3
    <3>3. \A b \in 0..group'.last : group'.buf[b] = g
      BY <3>1, <3>2, <2>1, <1>1 DEF TypeOK
    <3>4. AssembledFrom(g)'
      BY <3>1, <3>2, <3>3, <2>1, <2>2, <1>1, <1>3 DEF AssembledFrom
    <3>5. g \in 0..pos'
      BY <3>2, <1>1, <1>3
    <3>. QED  BY <3>1, <3>4, <3>5, <2>1, <2>2 DEF Assembly
  <2>4. CASE group.status = GS_INCOMPLETE
    <3>1. ASSUME lost < 3 PROVE FALSE
      <4>1. lost = 0
        BY <3>1, <2>4, <1>1 DEF Assembly
      <4>2. PICK g \in 0..pos : AssembledFrom(g)
        BY <3>1, <2>4 DEF Assembly
      <4>3. /\ p = 4*g + group.last /\ group.last \in 0..2 /\ g \in Nat
            /\ group.next = group.last + 1
        <5>1. group.last \in 0..2 /\ group.next = group.last + 1
          BY <2>4, <1>1 DEF GroupShape
        <5>2. g \in Nat /\ pos = 4*g + group.last + 1 + lost
          BY <4>2, <1>3 DEF AssembledFrom
        <5>3. group.last \in Int
          BY <5>1
        <5>. QED  BY <5>1, <5>2, <5>3, <4>1, <1>3
      <4>4. p % 4 = group.last
        <5>1. group.last \in 0..3
          BY <4>3
        <5>. QED  BY <5>1, <4>3, <1>3, PositionUnique
      <4>. QED  BY <4>3, <4>4, <2>1
    <3>. QED  BY <3>1, <2>1, <2>2 DEF Assembly
  <2>. QED  BY <2>3, <2>4, <1>1 DEF TypeOK
<1>. QED  BY <1>1, <1>2, <1>5, <1>6, <1>7, AddBytesOutcomes DEF blk, p

\* A block lost: the transmitter is one block further ahead.
LEMMA AssemblyLose ==
    ASSUME TypeOK, GroupShape, Assembly, Lose
    PROVE  Assembly'
<1> USE DEF GS_EMPTY, GS_INCOMPLETE
<1>1. /\ group' = group /\ pos' = pos + 1 /\ repeatable' = FALSE
      /\ pos % 4 # 3 => tx_type' = tx_type
      /\ LostInGroup(lost + 1)
  BY DEF Lose, decvars, NextPos
<1>2. pos \in Nat /\ lost \in Nat
  BY DEF TypeOK
<1>3. CASE group.status = GS_EMPTY
  BY <1>1, <1>3 DEF Assembly, LostInGroup
<1>4. CASE group.status = GS_INCOMPLETE
  <2>1. lost' = lost + 1
    BY <1>1, <1>4 DEF LostInGroup
  <2>2. ASSUME lost' < 3 PROVE \E g \in 0..pos' : AssembledFrom(g)'
    <3>1. PICK g \in 0..pos : AssembledFrom(g)
      BY <2>1, <2>2, <1>2, <1>4 DEF Assembly
    <3>2. group.last \in 0..2 /\ g \in Nat
      BY <1>4, <1>2 DEF GroupShape
    <3>3. pos' < 4*g + 4 => tx_type' = tx_type
      <4>1. SUFFICES ASSUME pos' < 4*g + 4 PROVE tx_type' = tx_type
        OBVIOUS
      <4> DEFINE r == group.last + 1 + lost
      <4>2. r \in 0..2 /\ pos = 4*g + r
        BY <4>1, <3>1, <3>2, <1>1, <1>2 DEF AssembledFrom
      <4>3. pos % 4 = r
        <5> HIDE DEF r
        <5>. QED  BY <4>2, <3>2, <1>2, PositionUnique
      <4>. QED  BY <4>2, <4>3, <1>1
    <3>4. AssembledFrom(g)'
      BY <3>1, <3>2, <3>3, <2>1, <1>1, <1>2 DEF AssembledFrom
    <3>. QED  BY <3>1, <3>2, <3>4, <1>1, <1>2
  <2>. QED  BY <1>1, <1>4, <2>2 DEF Assembly
<1>. QED  BY <1>3, <1>4 DEF TypeOK

\* The remaining blocks are dropped, or clear the group.
LEMMA AssemblyNext ==
    ASSUME Types, Assembly, [Next]_vars
    PROVE  Assembly'
<1>1. TypeOK /\ GroupShape
  BY DEF Types
<1>2. CASE DeliverErroneous
  <2>1. BlockOnAir(pos % 4, TRUE) \in Block
    BY <1>1, DeliveredBlocks
  <2>2. BlockOnAir(pos % 4, TRUE).err
    BY DEF BlockOnAir
  <2>3. group' = Cleared /\ LostInGroup(lost)
    BY <1>1, <1>2, <2>1, <2>2, AddBytesRejects DEF DeliverErroneous
  <2>. QED  BY <2>3, AssemblyCleared
<1>3. CASE DeliverInvalid
  <2>1. BlockOnAir(7, FALSE) \in Block
    <3>1. 7 \in 0..7
      OBVIOUS
    <3>. QED  BY <3>1, <1>1, DeliveredBlocks
  <2>2. BlockOnAir(7, FALSE).num = 7
    BY DEF BlockOnAir
  <2>3. group' = Cleared /\ LostInGroup(lost)
    BY <1>1, <1>3, <2>1, <2>2, AddBytesRejects DEF DeliverInvalid
  <2>. QED  BY <2>3, AssemblyCleared
<1>4. CASE DeliverE
  <2>1. PICK num \in {5, 6} : AddBytes(BlockOnAir(num, FALSE))
    BY <1>4 DEF DeliverE
  <2>2. BlockOnAir(num, FALSE) \in Block
    <3>1. num \in 0..7
      BY <2>1
    <3>. QED  BY <3>1, <1>1, DeliveredBlocks
  <2>3. ~Accepted(BlockOnAir(num, FALSE))
    BY <2>1 DEF Accepted, BlockOnAir
  <2>4. group' = Cleared \/ group' = group
    BY <1>1, <2>1, <2>2, <2>3, AddBytesOutcomes
  <2>5. UNCHANGED <<pos, tx_type, repeatable>> /\ LostInGroup(lost)
    BY <1>4 DEF DeliverE
  <2>. QED  BY <2>4, <2>5, AssemblyCleared, AssemblyKept
<1>5. CASE UNCHANGED vars
  BY <1>5 DEF vars, decvars, Assembly, AssembledFrom
<1>. QED  BY <1>1, <1>2, <1>3, <1>4, <1>5, AssemblyDeliverGood, AssemblyDeliverTwice,
             AssemblyLose DEF Next

-----------------------------------------------------------------------------
(* Intact is preserved *)

\* At the start of a group an intact predecessor has left the buffer empty.
LEMMA EmptyAtStart ==
    ASSUME TypeOK, GroupShape, Assembly, pos % 4 = 0, lost = 0
    PROVE  group.status = GS_EMPTY
<1>1. ASSUME group.status = GS_INCOMPLETE PROVE FALSE
  <2>1. PICK g \in 0..pos : AssembledFrom(g)
    BY <1>1 DEF Assembly
  <2>2. /\ group.last + 1 \in 0..3 /\ group.last + 1 # 0
        /\ pos \in Nat /\ g \in Nat
        /\ pos = 4*g + (group.last + 1)
    BY <1>1, <2>1 DEF GroupShape, AssembledFrom, TypeOK
  <2>3. pos % 4 = group.last + 1
    BY <2>2, PositionUnique
  <2>. QED  BY <2>2, <2>3
<1>. QED  BY <1>1 DEF TypeOK

\* The block in its place is the next one of an intact group.
LEMMA IntactDeliverGood ==
    ASSUME TypeOK, GroupShape, Assembly, Intact, DeliverGood
    PROVE  Intact'
<1> USE DEF GS_EMPTY, GS_INCOMPLETE, GS_COMPLETE
<1>1. PICK num \in 0..4 : /\ (IF num = 4 THEN 2 ELSE num) = pos % 4
                          /\ AddBytes(BlockOnAir(num, FALSE))
  BY DEF DeliverGood
<1> DEFINE blk == BlockOnAir(num, FALSE)
<1>2. blk \in Block
  <2>1. num \in 0..7
    BY <1>1
  <2>. QED  BY <2>1, DeliveredBlocks
<1>3. /\ blk.num \in 0..4 /\ ~blk.err /\ blk.content = pos \div 4
      /\ BlockNum(blk) = pos % 4
  BY <1>1 DEF BlockOnAir, BlockNum
<1>4. /\ pos' = pos + 1 /\ LostInGroup(lost)
      /\ pos \in Nat /\ pos % 4 \in 0..3 /\ pos \div 4 \in Nat
      /\ pos % 4 = 3 => (pos+1) % 4 = 0 /\ (pos+1) \div 4 = (pos \div 4) + 1
      /\ pos % 4 # 3 => (pos+1) % 4 = (pos % 4) + 1
  BY Position DEF DeliverGood, NextPos, TypeOK
<1> HIDE DEF blk
<1>5. SUFFICES ASSUME intact' PROVE Intact'
  BY DEF Intact
<1>6. CASE pos % 4 = 0
  <2>1. group.status = GS_EMPTY \/ lost = 0
    BY <1>5, <1>6 DEF DeliverGood
  <2>2. group.status = GS_EMPTY
    BY <2>1, <1>6, EmptyAtStart
  <2>3. group = Cleared /\ lost = 0
    BY <2>2 DEF GroupShape, Assembly
  <2>4. group.next = 0 /\ Accepted(blk)
    BY <2>3, <1>3, <1>6 DEF Accepted, Cleared
  <2>5. group' = Stored(group, blk)
    <3>1. IF group.next = 3
          THEN group' = Cleared /\ decoded' = Stored(group, blk)
          ELSE group' = Stored(group, blk) /\ decoded' = decoded
      BY <2>4, <1>1, <1>2, AddBytesStores DEF blk
    <3>. QED  BY <3>1, <2>4
  <2>6. group'.status = GS_INCOMPLETE /\ group'.last = 0
    BY <2>5, <1>3, <1>6 DEF Stored
  <2>7. lost' = 0
    BY <2>3, <2>6, <1>4 DEF LostInGroup
  <2>8. pos' % 4 = 1
    BY <1>4, <1>6
  <2>. QED  BY <2>6, <2>7, <2>8 DEF Intact
<1>7. CASE pos % 4 # 0
  <2>1. intact
    BY <1>5, <1>7 DEF DeliverGood
  <2>2. /\ group.status = GS_INCOMPLETE /\ group.last = (pos % 4) - 1 /\ lost = 0
        /\ group.next = pos % 4
    BY <2>1, <1>4, <1>7 DEF Intact, GroupShape
  <2>3. Accepted(blk)
    BY <2>2, <1>3 DEF Accepted
  <2>4. IF group.next = 3
        THEN group' = Cleared /\ decoded' = Stored(group, blk)
        ELSE group' = Stored(group, blk) /\ decoded' = decoded
    BY <2>3, <1>1, <1>2, AddBytesStores DEF blk
  <2>5. CASE pos % 4 = 3
    <3>1. group' = Cleared /\ decoded' = Stored(group, blk)
      BY <2>2, <2>4, <2>5
    <3>2. AssembledFrom(pos \div 4)
      BY <2>2, NextBlockFits
    <3>3. \A b \in 0..2 : group.buf[b] = pos \div 4
      BY <3>2, <2>2, <2>5 DEF AssembledFrom
    <3>4. \A b \in 0..3 : decoded'.buf[b] = pos \div 4
      BY <3>1, <3>3, <1>3, <2>5 DEF Stored, TypeOK
    <3>5. decoded'.status = GS_COMPLETE /\ group'.status = GS_EMPTY
      BY <3>1, <1>3, <2>5 DEF Stored, Cleared
    <3>6. pos' % 4 = 0 /\ (pos' \div 4) - 1 = pos \div 4
      BY <1>4, <2>5
    <3>. QED  BY <3>4, <3>5, <3>6 DEF Intact
  <2>6. CASE pos % 4 # 3
    <3>1. group' = Stored(group, blk)
      BY <2>2, <2>4, <2>6
    <3>2. group'.status = GS_INCOMPLETE /\ group'.last = pos % 4
      BY <3>1, <1>3, <2>6 DEF Stored
    <3>3. lost' = 0
      BY <3>2, <2>2, <1>4 DEF LostInGroup
    <3>4. pos' % 4 = (pos % 4) + 1 /\ pos' % 4 # 0
      BY <1>4, <2>6
    <3>. QED  BY <3>2, <3>3, <3>4, <1>4 DEF Intact
  <2>. QED  BY <2>5, <2>6
<1>. QED  BY <1>6, <1>7

\* A block that is ignored leaves an intact group as it is.
LEMMA IntactIgnored ==
    ASSUME TypeOK, GroupShape, Assembly, Intact, NEW blk \in Block, AddBytes(blk),
           ~Accepted(blk), ~blk.err,
           intact /\ group.status = GS_INCOMPLETE => Ignored(group, blk),
           UNCHANGED <<pos, intact>>, LostInGroup(lost)
    PROVE  Intact'
<1> USE DEF GS_EMPTY, GS_INCOMPLETE, GS_COMPLETE
<1>1. CASE intact /\ group.status = GS_INCOMPLETE
  <2>1. group' = group /\ decoded' = decoded
    BY <1>1, AddBytesIgnores
  <2>2. lost' = lost
    BY <1>1, <2>1 DEF LostInGroup
  <2>. QED  BY <2>1, <2>2 DEF Intact
<1>2. CASE intact /\ group.status = GS_EMPTY
  <2>1. group' = Cleared /\ decoded' = decoded
    BY <1>2, AddBytesOutcomes
  <2>2. pos % 4 = 0 /\ group'.status = GS_EMPTY
    BY <1>2, <2>1 DEF Intact, Cleared
  <2>. QED  BY <1>2, <2>1, <2>2 DEF Intact
<1>3. CASE ~intact
  BY <1>3 DEF Intact
<1>. QED  BY <1>1, <1>2, <1>3 DEF TypeOK

\* Every step of the receiver keeps Intact: an intact group is never spoilt.
LEMMA IntactNext ==
    ASSUME Types, Assembly, Intact, [Next]_vars
    PROVE  Intact'
<1>1. TypeOK /\ GroupShape /\ (repeatable => pos > 0)
  BY DEF Types
<1>2. CASE DeliverErroneous \/ DeliverInvalid \/ Lose
  BY <1>2 DEF DeliverErroneous, DeliverInvalid, Lose, Intact
<1>3. CASE DeliverTwice
  <2> DEFINE p == pos - 1
             blk == [num |-> p % 4, err |-> FALSE, content |-> p \div 4, type |-> tx_type]
  <2>1. /\ pos > 0 /\ AddBytes(blk) /\ UNCHANGED <<pos, intact>> /\ LostInGroup(lost)
    BY <1>1, <1>3 DEF DeliverTwice
  <2>2. blk \in Block
    BY <1>1, <2>1, DeliveredBlocks
  <2>3. /\ p \in Nat /\ pos = p + 1 /\ p % 4 \in 0..3
        /\ p % 4 = 3 => pos % 4 = 0
        /\ p % 4 # 3 => pos % 4 = (p % 4) + 1
    <3>1. p \in Nat /\ pos = p + 1
      BY <1>1, <2>1 DEF TypeOK
    <3> HIDE DEF p
    <3>. QED  BY <3>1, Position
  <2>4. blk.num = p % 4 /\ ~blk.err /\ BlockNum(blk) = p % 4
    BY <2>3 DEF BlockNum
  <2> HIDE DEF blk, p
  <2>5. CASE intact /\ pos % 4 = 0
    <3>1. group.status = GS_EMPTY /\ group.next = 0
      BY <1>1, <2>5 DEF Intact, GroupShape, Cleared
    <3>2. p % 4 = 3
      BY <2>3, <2>5
    <3>3. ~Accepted(blk)
      BY <3>1, <3>2, <2>4 DEF Accepted
    <3>4. group.status # GS_INCOMPLETE
      BY <3>1 DEF GS_EMPTY, GS_INCOMPLETE
    <3>. QED  BY <1>1, <2>1, <2>2, <2>4, <3>3, <3>4, IntactIgnored DEF blk, p
  <2>6. CASE intact /\ pos % 4 # 0
    <3>1. group.last = p % 4 /\ group.next = group.last + 1
      BY <1>1, <2>3, <2>6 DEF Intact, GroupShape
    <3>2. ~Accepted(blk) /\ Ignored(group, blk)
      BY <3>1, <2>3, <2>4 DEF Accepted, Ignored
    <3>. QED  BY <1>1, <2>1, <2>2, <2>4, <3>2, IntactIgnored DEF blk, p
  <2>7. CASE ~intact
    BY <2>1, <2>7 DEF Intact
  <2>. QED  BY <2>5, <2>6, <2>7
<1>4. CASE DeliverE
  <2>1. PICK num \in {5, 6} : AddBytes(BlockOnAir(num, FALSE))
    BY <1>4 DEF DeliverE
  <2>2. BlockOnAir(num, FALSE) \in Block
    <3>1. num \in 0..7
      BY <2>1
    <3>. QED  BY <3>1, <1>1, DeliveredBlocks
  <2>3. /\ ~Accepted(BlockOnAir(num, FALSE)) /\ ~BlockOnAir(num, FALSE).err
        /\ Ignored(group, BlockOnAir(num, FALSE))
    BY <2>1 DEF Accepted, BlockOnAir, Ignored
  <2>4. UNCHANGED <<pos, intact>> /\ LostInGroup(lost)
    BY <1>4 DEF DeliverE
  <2>. QED  BY <1>1, <2>1, <2>2, <2>3, <2>4, IntactIgnored
<1>5. CASE UNCHANGED vars
  BY <1>5 DEF vars, decvars, Intact
<1>. QED  BY <1>1, <1>2, <1>3, <1>4, <1>5, IntactDeliverGood DEF Next

-----------------------------------------------------------------------------
(* The theorems *)

\* The strengthening of the safety properties is an invariant.
LEMMA Invariance == Spec => []IInv
<1>1. IInv /\ [Next]_vars => IInv'
  BY TypesNext, AssemblyNext, IntactNext DEF IInv
<1>. QED  BY <1>1, IInvInit, PTL DEF Spec

\* byte_buf never holds blocks of two groups while fewer than three blocks
\* were lost since the group began.
THEOREM BufferHoldsOneGroup == Spec => []OneGroupInBuffer
<1>1. IInv => OneGroupInBuffer
  <2> SUFFICES ASSUME IInv, lost < 3 PROVE \A b \in 0..group.last : group.buf[b] = group.buf[0]
    BY DEF OneGroupInBuffer
  <2>1. CASE group.status = GS_EMPTY
    <3>1. group.last = -1
      BY <2>1 DEF IInv, Types, GroupShape, Cleared
    <3>. QED  BY <3>1
  <2>2. CASE group.status = GS_INCOMPLETE
    <3>1. PICK g \in 0..pos : AssembledFrom(g)
      BY <2>2 DEF IInv, Assembly
    <3>2. group.last \in 0..2
      BY <2>2 DEF IInv, Types, GroupShape
    <3>. QED  BY <3>1, <3>2 DEF AssembledFrom
  <2>. QED  BY <2>1, <2>2 DEF IInv, Types, TypeOK
<1>. QED  BY <1>1, Invariance, PTL

\* A group whose four blocks arrive is always decoded.
THEOREM IntactGroupsAreDecoded == Spec => []IntactGroupDecoded
<1>1. IInv => IntactGroupDecoded
  BY DEF IInv, Intact, IntactGroupDecoded
<1>. QED  BY <1>1, Invariance, PTL

\* A repeated block never completes a group.
LEMMA RepeatedNotNext ==
    ASSUME Types, Assembly, repeatable, lost < 3, group.status = GS_INCOMPLETE
    PROVE  (pos - 1) % 4 # group.next
<1> DEFINE p == pos - 1
<1>1. PICK g \in 0..pos : AssembledFrom(g)
  BY DEF Assembly
<1>2. lost = 0
  BY DEF Assembly
<1>3. /\ pos \in Nat /\ pos > 0 /\ g \in Nat /\ group.last \in 0..3
      /\ group.next = group.last + 1
  BY DEF Types, TypeOK, GroupShape
<1>4. p \in Nat /\ p = 4*g + group.last
  BY <1>1, <1>2, <1>3 DEF AssembledFrom
<1> HIDE DEF p
<1>5. p % 4 = group.last
  BY <1>3, <1>4, PositionUnique
<1>. QED  BY <1>3, <1>5 DEF p

\* A group is decoded from four blocks, and the type, of the group on the air.
THEOREM DecodedGroupsAreWhole == Spec => DecodedGroupIsWhole
<1> USE DEF GS_EMPTY, GS_INCOMPLETE
<1> DEFINE Whole == decoded' # decoded /\ lost < 3 =>
                       /\ \A b \in 0..3 : decoded'.buf[b] = pos \div 4
                       /\ decoded'.type = tx_type
<1>1. ASSUME IInv, Next PROVE Whole
  <2> SUFFICES ASSUME decoded' # decoded, lost < 3
               PROVE  /\ \A b \in 0..3 : decoded'.buf[b] = pos \div 4
                      /\ decoded'.type = tx_type
    OBVIOUS
  <2>1. Types /\ TypeOK /\ GroupShape /\ Assembly
    BY <1>1 DEF IInv, Types
  <2>2. CASE DeliverGood
    <3>1. PICK num \in 0..4 : /\ (IF num = 4 THEN 2 ELSE num) = pos % 4
                              /\ AddBytes(BlockOnAir(num, FALSE))
      BY <2>2 DEF DeliverGood
    <3> DEFINE blk == BlockOnAir(num, FALSE)
    <3>2. blk \in Block
      <4>1. num \in 0..7
        BY <3>1
      <4>. QED  BY <4>1, <2>1, DeliveredBlocks
    <3>3. blk.content = pos \div 4 /\ BlockNum(blk) = pos % 4
      BY <3>1 DEF BlockOnAir, BlockNum
    <3> HIDE DEF blk
    <3>4. /\ Accepted(blk) /\ group.next = 3 /\ group.status = GS_INCOMPLETE
          /\ decoded' = Stored(group, blk)
      BY <3>1, <3>2, <2>1, AddBytesOutcomes DEF blk
    <3>5. AssembledFrom(pos \div 4) /\ lost = 0
      BY <3>3, <3>4, <2>1, NextBlockFits DEF Accepted
    <3>6. group.last = 2 /\ pos % 4 = 3
      BY <3>3, <3>4, <2>1 DEF Accepted, GroupShape
    <3>7. \A b \in 0..2 : group.buf[b] = pos \div 4
      BY <3>5, <3>6 DEF AssembledFrom
    <3>8. group.type = tx_type
      <4>1. pos < 4 * (pos \div 4) + 4
        BY <3>6, <2>1, Position DEF TypeOK
      <4>. QED  BY <4>1, <3>5, <3>6 DEF AssembledFrom
    <3>. QED  BY <3>3, <3>4, <3>6, <3>7, <3>8, <2>1 DEF Stored, TypeOK
  <2>3. CASE DeliverTwice
    <3> DEFINE blk == [num |-> (pos - 1) % 4, err |-> FALSE,
                       content |-> (pos - 1) \div 4, type |-> tx_type]
    <3>1. repeatable /\ pos > 0 /\ AddBytes(blk)
      BY <2>1, <2>3 DEF DeliverTwice, Types
    <3>2. blk \in Block
      BY <3>1, <2>1, DeliveredBlocks
    <3>3. blk.num = (pos - 1) % 4 /\ blk.num # 4
      BY <3>1, <2>1 DEF TypeOK
    <3> HIDE DEF blk
    <3>4. Accepted(blk) /\ group.status = GS_INCOMPLETE
      BY <3>1, <3>2, <2>1, AddBytesOutcomes
    <3>5. (pos - 1) % 4 = group.next
      BY <3>3, <3>4 DEF Accepted, BlockNum
    <3>. QED  BY <3>1, <3>4, <3>5, <2>1, RepeatedNotNext
  <2>4. CASE DeliverErroneous
    <3>1. BlockOnAir(pos % 4, TRUE) \in Block /\ BlockOnAir(pos % 4, TRUE).err
      BY <2>1, DeliveredBlocks DEF BlockOnAir
    <3>. QED  BY <3>1, <2>1, <2>4, AddBytesRejects DEF DeliverErroneous
  <2>5. CASE DeliverInvalid
    <3>1. 7 \in 0..7
      OBVIOUS
    <3>2. BlockOnAir(7, FALSE) \in Block /\ BlockOnAir(7, FALSE).num = 7
      BY <3>1, <2>1, DeliveredBlocks DEF BlockOnAir
    <3>. QED  BY <3>2, <2>1, <2>5, AddBytesRejects DEF DeliverInvalid
  <2>6. CASE DeliverE
    <3>1. PICK num \in {5, 6} : AddBytes(BlockOnAir(num, FALSE))
      BY <2>6 DEF DeliverE
    <3>2. num \in 0..7 /\ ~Accepted(BlockOnAir(num, FALSE))
      BY <3>1 DEF Accepted, BlockOnAir
    <3>3. BlockOnAir(num, FALSE) \in Block
      BY <3>2, <2>1, DeliveredBlocks
    <3>. QED  BY <3>1, <3>2, <3>3, <2>1, AddBytesOutcomes
  <2>7. CASE Lose
    BY <2>7 DEF Lose, decvars
  <2>. QED  BY <1>1, <2>2, <2>3, <2>4, <2>5, <2>6, <2>7 DEF Next
<1>2. ASSUME IInv, [Next]_vars PROVE [Whole]_vars
  BY <1>1, <1>2
<1>. QED  BY <1>2, Invariance, PTL DEF Spec, DecodedGroupIsWhole

-----------------------------------------------------------------------------
(* The statistics *)

\* CountBelow is a recursive function: there is one, for ever longer beginnings
\* of the table.
LEMMA CountRecursion ==
    ASSUME NEW c
    PROVE  LET count == CountBelow(c)
           IN  /\ count[0] = 0
               /\ \A n \in 1..33 :
                     count[n] = count[n - 1] + (IF n - 1 \in DOMAIN c THEN c[n - 1] ELSE 0)
  <1> DEFINE Part(n) == IF n - 1 \in DOMAIN c THEN c[n - 1] ELSE 0
             Step(g, n) == [k \in 0..n |-> IF k = 0 THEN 0 ELSE g[k - 1] + Part(k)]
             Good == {n \in Nat : \E g : g = Step(g, n)}
             count == CountBelow(c)
  <1> HIDE DEF Part
  <1>1. 0 \in Good
    <2> DEFINE e == [k \in 0..0 |-> 0]
    <2>1. e = Step(e, 0)
      OBVIOUS
    <2> HIDE DEF e, Step
    <2> QED BY <2>1
  <1>2. ASSUME NEW n \in Nat, n \in Good PROVE n + 1 \in Good
    <2>1. PICK g : g = Step(g, n)
      <3> HIDE DEF Step
      <3> QED BY <1>2
    <2>2. PICK new : new = g[n] + Part(n + 1)
      OBVIOUS
    <2> DEFINE h == [k \in 0..(n + 1) |-> IF k = n + 1 THEN new ELSE g[k]]
    <2>3. ASSUME NEW k \in 0..(n + 1)
          PROVE  h[k] = IF k = 0 THEN 0 ELSE h[k - 1] + Part(k)
      <3>1. CASE k = n + 1
        <4>1. h[k] = new /\ k - 1 = n /\ h[k - 1] = g[n] /\ k # 0
          BY <3>1
        <4> QED BY <2>2, <3>1, <4>1
      <3>2. CASE k # n + 1
        <4>1. k \in 0..n /\ h[k] = g[k] /\ (k # 0 => h[k - 1] = g[k - 1])
          BY <3>2
        <4>2. g[k] = IF k = 0 THEN 0 ELSE g[k - 1] + Part(k)
          BY <2>1, <4>1
        <4> HIDE DEF h
        <4> QED BY <4>1, <4>2
      <3> QED BY <3>1, <3>2
    <2>4. h = [k \in 0..(n + 1) |-> h[k]]
      OBVIOUS
    <2>5. h = Step(h, n + 1)
      <3> HIDE DEF h
      <3>1. [k \in 0..(n + 1) |-> h[k]] = Step(h, n + 1)
        BY <2>3
      <3> QED BY <2>4, <3>1
    <2> HIDE DEF h, Step
    <2> QED BY <2>5
  <1>3. PICK N \in Nat : N = GROUP_UNKNOWN + 1 /\ N = 33
    BY DEF GROUP_UNKNOWN
  <1>4. N \in Good
    <2>1. Nat \subseteq Good
      <3> HIDE DEF Good
      <3> QED BY <1>1, <1>2, SetInduction
    <2> HIDE DEF Good
    <2> QED BY <2>1
  <1>5. count = Step(count, N)
    <2>1. PICK g : g = Step(g, N)
      <3> HIDE DEF Step
      <3> QED BY <1>4
    <2>2. count = CHOOSE f : f = Step(f, N)
      BY Zenon, <1>3 DEF CountBelow, Part
    <2> HIDE DEF Step, count
    <2> QED BY <2>1, <2>2
  <1>6. count[0] = 0
    <2>1. Step(count, N)[0] = 0
      OBVIOUS
    <2> HIDE DEF Step, count
    <2> QED BY <1>5, <2>1
  <1>7. ASSUME NEW n \in 1..33 PROVE count[n] = count[n - 1] + Part(n)
    <2> HIDE DEF count
    <2>1. Step(count, N)[n] = count[n - 1] + Part(n)
      BY <1>3
    <2> HIDE DEF Step
    <2> QED BY <1>5, <2>1
  <1> QED BY Zenon, <1>6, <1>7 DEF Part

\* How many groups a table has counted, and that one more is one more.
CountOf(c) == CountBelow(c)[GROUP_UNKNOWN + 1]

LEMMA CountIsNat ==
    ASSUME NEW c \in [AllTypes -> Nat]
    PROVE  \A n \in 0..33 : CountBelow(c)[n] \in Nat
  <1> DEFINE Good == {n \in Nat : n <= 33 => CountBelow(c)[n] \in Nat}
  <1>1. 0 \in Good
    BY CountRecursion
  <1>2. ASSUME NEW n \in Nat, n \in Good PROVE n + 1 \in Good
    <2> SUFFICES ASSUME n + 1 <= 33 PROVE CountBelow(c)[n + 1] \in Nat
      OBVIOUS
    <2>1. n + 1 \in 1..33 /\ (n + 1) - 1 = n /\ n <= 33
      OBVIOUS
    <2>2. CountBelow(c)[n + 1] = CountBelow(c)[n] + (IF n \in DOMAIN c THEN c[n] ELSE 0)
      BY <2>1, CountRecursion
    <2>3. CountBelow(c)[n] \in Nat
      BY <1>2, <2>1
    <2> QED BY <2>2, <2>3
  <1>3. Nat \subseteq Good
    <2> HIDE DEF Good
    <2> QED BY <1>1, <1>2, SetInduction
  <1> QED BY <1>3

LEMMA OneMoreCounted ==
    ASSUME NEW c \in [AllTypes -> Nat], NEW t \in AllTypes,
           NEW e, e = [c EXCEPT ![t] = @ + 1]
    PROVE  CountOf(e) = CountOf(c) + 1 /\ CountOf(c) \in Nat
  <1>1. e \in [AllTypes -> Nat] /\ e[t] = c[t] + 1 /\ \A u \in AllTypes : u # t => e[u] = c[u]
    OBVIOUS
  <1>2. t \in 0..32
    BY GroupTypesAssumption DEF AllTypes, GROUP_UNKNOWN
  <1>3. PICK old : old = CountBelow(c)
    OBVIOUS
  <1>4. PICK new : new = CountBelow(e)
    OBVIOUS
  <1>5. /\ old[0] = 0 /\ new[0] = 0
        /\ \A n \in 1..33 :
              /\ old[n] = old[n - 1] + (IF n - 1 \in AllTypes THEN c[n - 1] ELSE 0)
              /\ new[n] = new[n - 1] + (IF n - 1 \in AllTypes THEN e[n - 1] ELSE 0)
    BY <1>1, <1>3, <1>4, CountRecursion
  <1>6. \A n \in 0..33 : old[n] \in Nat
    BY <1>3, CountIsNat
  <1> DEFINE Good == {n \in Nat : n <= 33 => new[n] = old[n] + (IF t < n THEN 1 ELSE 0)}
  <1>7. 0 \in Good
    BY <1>2, <1>5
  <1>8. ASSUME NEW n \in Nat, n \in Good PROVE n + 1 \in Good
    <2> SUFFICES ASSUME n + 1 <= 33 PROVE new[n + 1] = old[n + 1] + (IF t < n + 1 THEN 1 ELSE 0)
      OBVIOUS
    <2>1. n + 1 \in 1..33 /\ (n + 1) - 1 = n /\ n <= 33 /\ n \in 0..33
      OBVIOUS
    <2>2. PICK a \in Nat : a = old[n]
      BY <1>6, <2>1
    <2>3. new[n] = a + (IF t < n THEN 1 ELSE 0)
      BY <1>8, <2>1, <2>2
    <2>4. /\ old[n + 1] = a + (IF n \in AllTypes THEN c[n] ELSE 0)
          /\ new[n + 1] = new[n] + (IF n \in AllTypes THEN e[n] ELSE 0)
      BY <1>5, <2>1, <2>2
    <2>5. CASE n = t
      <3>1. c[n] \in Nat /\ e[n] = c[n] + 1 /\ n \in AllTypes
        BY <1>1, <2>5
      <3>2. new[n] = a
        BY <1>2, <2>3, <2>5
      <3> QED BY <1>2, <2>4, <2>5, <3>1, <3>2
    <2>6. CASE n # t
      <3>1. PICK m \in Nat : /\ m = IF n \in AllTypes THEN c[n] ELSE 0
                             /\ m = IF n \in AllTypes THEN e[n] ELSE 0
        BY <1>1, <2>6
      <3>2. old[n + 1] = a + m /\ new[n + 1] = new[n] + m
        BY <2>4, <3>1
      <3>3. (t < n + 1) = (t < n)
        BY <1>2, <2>6
      <3> QED BY <2>3, <3>2, <3>3
    <2> QED BY <2>5, <2>6
  <1>9. Nat \subseteq Good
    <2> HIDE DEF Good
    <2> QED BY <1>7, <1>8, SetInduction
  <1>10. new[33] = old[33] + 1 /\ old[33] \in Nat
    BY <1>2, <1>6, <1>9
  <1> QED BY <1>3, <1>4, <1>10 DEF CountOf, GROUP_UNKNOWN

LEMMA NothingCounted ==
    ASSUME NEW c, c = [t \in AllTypes |-> 0]
    PROVE  CountOf(c) = 0
  <1>1. PICK count : count = CountBelow(c)
    OBVIOUS
  <1>2. count[0] = 0 /\ \A n \in 1..33 : count[n] = count[n - 1] + 0
    BY <1>1, CountRecursion
  <1> DEFINE Good == {n \in Nat : n <= 33 => count[n] = 0}
  <1>3. 0 \in Good
    BY <1>2
  <1>4. ASSUME NEW n \in Nat, n \in Good PROVE n + 1 \in Good
    <2> SUFFICES ASSUME n + 1 <= 33 PROVE count[n + 1] = 0
      OBVIOUS
    <2>1. n + 1 \in 1..33 /\ (n + 1) - 1 = n /\ n <= 33
      OBVIOUS
    <2> QED BY <1>2, <1>4, <2>1
  <1>5. Nat \subseteq Good
    <2> HIDE DEF Good
    <2> QED BY <1>3, <1>4, SetInduction
  <1> QED BY <1>1, <1>5 DEF CountOf, GROUP_UNKNOWN

\* A block is counted with its group, or nothing is counted.
LEMMA AddBytesCounts ==
    ASSUME TypeOK, StatisticsPeriod, NEW blk \in Block, AddBytes(blk)
    PROVE  StatisticsPeriod'
  <1> DEFINE G == AddBlock(group, blk)
  <1>1. G.type \in AllTypes
    BY DEF AddBlock, Stored, TypeOK, Block, AllTypes
  <1>2. StatisticsPeriod <=> CountOf(good_group_counters) + CountOf(bad_group_counters)
                               = stat_events * (StatLimit + 1) + group_counters_cnt
    BY Zenon DEF StatisticsPeriod, CountOf
  <1>3. StatisticsPeriod' <=> CountOf(good_group_counters') + CountOf(bad_group_counters')
                                = stat_events' * (StatLimit + 1) + group_counters_cnt'
    BY Zenon DEF StatisticsPeriod, CountOf
  <1>4. PICK good \in [AllTypes -> Nat], bad \in [AllTypes -> Nat] :
           good = good_group_counters /\ bad = bad_group_counters
    BY DEF TypeOK
  <1>5. PICK events \in Nat, cnt \in 0..StatLimit : events = stat_events /\ cnt = group_counters_cnt
    BY DEF TypeOK
  <1>6. StatLimit \in Nat
    BY StatLimitAssumption
  <1>7. PICK n \in Nat, m \in Nat : n = CountOf(good) /\ m = CountOf(bad)
    <2>1. CountOf(good) \in Nat /\ CountOf(bad) \in Nat
      BY <1>1, OneMoreCounted
    <2> QED BY <2>1
  <1>8. n + m = events * (StatLimit + 1) + cnt
    BY <1>2, <1>4, <1>5, <1>7
  <1>9. CountGroup => stat_events' * (StatLimit + 1) + group_counters_cnt' = n + m + 1
    <2>1. CASE cnt + 1 > StatLimit
      <3>1. CountGroup => stat_events' = events + 1 /\ group_counters_cnt' = 0
        BY <1>5, <2>1 DEF CountGroup
      <3>2. (events + 1) * (StatLimit + 1) + 0 = events * (StatLimit + 1) + cnt + 1
        BY <1>6, <2>1
      <3> QED BY <1>8, <3>1, <3>2
    <2>2. CASE ~(cnt + 1 > StatLimit)
      <3>1. CountGroup => stat_events' = events /\ group_counters_cnt' = cnt + 1
        BY <1>5, <2>2 DEF CountGroup
      <3>2. events * (StatLimit + 1) + (cnt + 1) = events * (StatLimit + 1) + cnt + 1
        BY <1>6
      <3> QED BY <1>8, <3>1, <3>2
    <2> QED BY <2>1, <2>2
  <1>10. CASE UNCHANGED <<good_group_counters, bad_group_counters, group_counters_cnt, stat_events>>
    BY <1>2, <1>3, <1>10
  <1>11. CASE /\ bad_group_counters' = [bad EXCEPT ![G.type] = @ + 1]
              /\ good_group_counters' = good /\ CountGroup
    <2>1. PICK type \in AllTypes : type = G.type
      BY <1>1
    <2>2. CountOf(bad_group_counters') = m + 1
      BY <1>7, <1>11, <2>1, OneMoreCounted
    <2> QED BY <1>3, <1>7, <1>9, <1>11, <2>2
  <1>12. CASE /\ good_group_counters' = [good EXCEPT ![G.type] = @ + 1]
              /\ bad_group_counters' = bad /\ CountGroup
    <2>1. PICK type \in AllTypes : type = G.type
      BY <1>1
    <2>2. CountOf(good_group_counters') = n + 1
      BY <1>7, <1>12, <2>1, OneMoreCounted
    <2> QED BY <1>3, <1>7, <1>9, <1>12, <2>2
  <1> QED BY <1>4, <1>10, <1>11, <1>12 DEF AddBytes

\* Statistics are reported after every StatLimit + 1 entries in the counters,
\* which hold what the reports so far had and the count since.
THEOREM StatisticsReported == Spec => []StatisticsPeriod
  <1>1. Init => StatisticsPeriod
    <2> SUFFICES ASSUME Init PROVE StatisticsPeriod
      OBVIOUS
    <2>1. PICK c : c = [t \in AllTypes |-> 0]
      OBVIOUS
    <2>2. good_group_counters = c /\ bad_group_counters = c /\ stat_events = 0 /\ group_counters_cnt = 0
      BY <2>1 DEF Init
    <2>3. CountOf(c) = 0
      BY <2>1, NothingCounted
    <2>4. CountOf(good_group_counters) + CountOf(bad_group_counters)
            = stat_events * (StatLimit + 1) + group_counters_cnt
      BY <2>2, <2>3, StatLimitAssumption
    <2> QED BY Zenon, <2>4 DEF StatisticsPeriod, CountOf
  <1>2. ASSUME Types, StatisticsPeriod, [Next]_vars PROVE StatisticsPeriod'
    <2>1. ASSUME NEW blk \in Block, AddBytes(blk) PROVE StatisticsPeriod'
      BY <1>2, <2>1, AddBytesCounts DEF Types
    <2>2. CASE DeliverGood
      <3>1. PICK num \in 0..4 : AddBytes(BlockOnAir(num, FALSE))
        BY <2>2 DEF DeliverGood
      <3>2. num \in 0..7
        BY <3>1
      <3> QED BY <1>2, <2>1, <3>1, <3>2, DeliveredBlocks DEF Types
    <2>3. CASE DeliverErroneous
      BY <1>2, <2>1, <2>3, DeliveredBlocks DEF DeliverErroneous, Types
    <2>4. CASE DeliverTwice
      <3>1. pos > 0
        BY <1>2, <2>4 DEF DeliverTwice, Types
      <3> QED BY <1>2, <2>1, <2>4, <3>1, DeliveredBlocks DEF DeliverTwice, Types
    <2>5. CASE DeliverE
      <3>1. PICK num \in {5, 6} : AddBytes(BlockOnAir(num, FALSE))
        BY <2>5 DEF DeliverE
      <3>2. num \in 0..7
        BY <3>1
      <3> QED BY <1>2, <2>1, <3>1, <3>2, DeliveredBlocks DEF Types
    <2>6. CASE DeliverInvalid
      <3>1. 7 \in 0..7
        OBVIOUS
      <3> QED BY <1>2, <2>1, <2>6, <3>1, DeliveredBlocks DEF DeliverInvalid, Types
    <2>7. CASE UNCHANGED decvars
      BY <1>2, <2>7 DEF decvars, StatisticsPeriod
    <2> QED BY <1>2, <2>2, <2>3, <2>4, <2>5, <2>6, <2>7 DEF Next, Lose, vars
  <1>3. Spec => []Types
    BY TypesInit, TypesNext, PTL DEF Spec
  <1> QED BY <1>1, <1>2, <1>3, PTL DEF Spec

=============================================================================
