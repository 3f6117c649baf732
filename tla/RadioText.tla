----------------------------- MODULE RadioText -----------------------------
(***************************************************************************)
(* rdsd: the radio text of a channel (radiotext.cpp), put together from    *)
(* segments of four characters (groups of type 2A) or two (2B).  A text is *)
(* a record of the object's members; positions count from 1.               *)
(***************************************************************************)
EXTENDS Integers, Sequences

CONSTANTS
    Segments,       \* address codes of a segment: 16
    RequiredCount,  \* required_count: 1
    CHAR_MAX,       \* largest value of the type char: 127
    CR, NUL, Space  \* characters that mean something here

Blank == [Char |-> NUL, Counter |-> 0]

\* RadioText(), and Clear(): the buffer stays as it is.
NewText ==
    [status |-> "EMPTY", type |-> "NONE", ABflag |-> FALSE, RTbuffer |-> <<>>,
     last_radio_text |-> <<>>]
Clear(rt) == [rt EXCEPT !.status = "EMPTY", !.type = "NONE"]

Zeroed(n) == [p \in 1..n |-> Blank]

\* zero_RTbuffer()
zero_RTbuffer(rt) ==
    [rt EXCEPT !.RTbuffer = Zeroed(Len(@)), !.status = "EMPTY"]

Width(type) == IF type = "2A" THEN 4 ELSE 2

\* set_type()
set_type(rt, type) ==
    IF rt.type = type
    THEN rt
    ELSE [rt EXCEPT !.type = type, !.status = "EMPTY",
                    !.RTbuffer = Zeroed(Segments * Width(type))]

\* set_RTbuffer_char(): the counter has the type char.
Counted(cell, char) ==
    [Char |-> char,
     Counter |-> CASE cell.Counter = 0 \/ cell.Char # char -> 1
                   [] cell.Counter = CHAR_MAX /\ cell.Char = char -> -CHAR_MAX - 1
                   [] OTHER -> cell.Counter + 1]

SetChars(rt, first, chars) ==
    [rt EXCEPT !.RTbuffer = [p \in DOMAIN @ |->
                    IF p - first \in DOMAIN chars
                    THEN Counted(@[p], chars[p - first]) ELSE @[p]],
               !.status = IF @ = "COMPLETE" THEN @ ELSE "INCOMPLETE"]

\* The positions before the first carriage return, or all of them.
TextPositions(buf) ==
    {p \in DOMAIN buf : \A q \in 1..p : buf[q].Char # CR}

\* Fault: the carriage return is taken for the end without a look before it.
CompleteFault(buf) ==
    \/ \E p \in DOMAIN buf : buf[p].Char = CR
    \/ \A p \in DOMAIN buf : buf[p].Counter >= RequiredCount

\* check_RTbuffer_status(): complete if every character before the carriage
\* return was seen often enough.
Complete(buf) ==
    /\ \A p \in TextPositions(buf) : buf[p].Counter >= RequiredCount
    /\ \E p \in DOMAIN buf :
          /\ \A q \in 1..(p - 1) : buf[q].Char # CR
          /\ buf[p].Counter >= RequiredCount

check_RTbuffer_status(rt) ==
    IF ~Complete(rt.RTbuffer)
    THEN rt
    ELSE [rt EXCEPT !.status = "COMPLETE",
                    !.last_radio_text =
                        [p \in TextPositions(rt.RTbuffer) |-> rt.RTbuffer[p].Char]]

\* Fault: a new text does not begin with an empty buffer.
NewABflagFault(rt, ab) == [rt EXCEPT !.ABflag = ab]

\* A change of the A/B flag begins a new text.
NewABflag(rt, ab) ==
    IF rt.ABflag = ab THEN rt ELSE zero_RTbuffer([rt EXCEPT !.ABflag = ab])

\* AddGroup() for a group of type 2A or 2B.
AddGroup(rt, type, addr_code, ab, chars) ==
    check_RTbuffer_status(
        SetChars(set_type(NewABflag(rt, ab), type), Width(type) * addr_code, chars))

\* GetBuffer(): a carriage return whose counter is 0 does not end the text.
GetBuffer(rt) ==
    LET Ends(p) == rt.RTbuffer[p].Char = CR /\ rt.RTbuffer[p].Counter # 0
    IN  [p \in {p \in DOMAIN rt.RTbuffer : \A q \in 1..p : ~Ends(q)} |->
            IF rt.RTbuffer[p].Counter = 0 THEN Space ELSE rt.RTbuffer[p].Char]

=============================================================================
