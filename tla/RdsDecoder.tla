----------------------------- MODULE RdsDecoder ----------------------------
(***************************************************************************)
(* rdsd: what a complete group does to the data of a source                *)
(* (rdsdecoder.cpp, rdschanneldata.cpp).  The decoder keeps the data of    *)
(* every channel it has met, by program identification code, and records   *)
(* as events what a client may want to ask for again.                      *)
(*                                                                         *)
(* The decoder is a record of the object's members, and every member       *)
(* function maps it to the record afterwards.  Channels count from 1.      *)
(* How blocks become groups, and the group statistics, are in RdsGroup.    *)
(***************************************************************************)
EXTENDS Integers, Sequences

CONSTANTS
    Segments, RequiredCount, CHAR_MAX, CR, NUL, Space,  \* of RadioText
    time_to_live                        \* of TmcList

ASSUME DecoderAssumption ==
    /\ Segments \in Nat \ {0}
    /\ RequiredCount \in Nat \ {0}
    /\ CHAR_MAX \in Nat \ {0}
    /\ time_to_live \in Nat
    /\ CR \notin {NUL, Space}

RT  == INSTANCE RadioText
AF  == INSTANCE AltFreqList
TMC == INSTANCE TmcList
DT  == INSTANCE RdsClock

NoPI == -1

Flags == {"TP", "TA", "MUSIC", "STEREO", "ARTIFICIAL_HEAD", "COMPRESSED",
          "DYNAMIC_PTY", "TEXT_AB"}

\* The flag that segment 0 to 3 of the program name carries.
DecoderFlag == <<"DYNAMIC_PTY", "COMPRESSED", "ARTIFICIAL_HEAD", "STEREO">>

\* RDSchanneldata(): rds_flags is not initialised, junk is what it holds.
NewChannel(pi_code, junk) ==
    [PIcode |-> pi_code, PTYcode |-> -1, rds_flags |-> junk,
     program_name |-> <<Space, Space, Space, Space>>, AFlist |-> AF!Cleared,
     radio_text |-> RT!NewText, tmc_list |-> TMC!NewList]

set_event(d, evnts) == [d EXCEPT !.events = @ \cup evnts]

\* set_rds_flag(): rds_flags &= (!flag) leaves nothing.
set_rds_flag(d, ch, flag, new_state) ==
    set_event([d EXCEPT !.chlist[ch].rds_flags = IF new_state THEN @ \cup {flag} ELSE {}],
              {"rflags"})

set_pty_code(d, ch, new_code) ==
    set_event([d EXCEPT !.chlist[ch].PTYcode = new_code], {"ptype"})

\* set_prog_name(): two characters; the last two are taken for the whole name.
set_prog_name(d, ch, seg, name) ==
    set_event([d EXCEPT !.chlist[ch].program_name[seg + 1] = name],
              IF seg = 3 /\ ch = d.curchind THEN {"pname"} ELSE {})

HasChannel(d, pi_code) == \E n \in DOMAIN d.chlist : d.chlist[n].PIcode = pi_code

\* lookup_pi_code(): the first channel with the code.
lookup_pi_code(d, pi_code) ==
    CHOOSE n \in DOMAIN d.chlist :
        /\ d.chlist[n].PIcode = pi_code
        /\ \A k \in 1..(n - 1) : d.chlist[k].PIcode # pi_code

\* Fault: a channel that was met before is added again.
KnownChannelFault(d, pi_code, junk) ==
    [d EXCEPT !.chlist = Append(@, NewChannel(pi_code, junk))]

\* add_pi_code(), where lookup_pi_code() finds none.
KnownChannel(d, pi_code, junk) ==
    IF HasChannel(d, pi_code)
    THEN d
    ELSE [d EXCEPT !.chlist = Append(@, NewChannel(pi_code, junk))]

\* Fault: the lists of alternative frequencies under way go on.
ClearListsFault(d) == d
ClearLists(d) == [d EXCEPT !.tmpAFlist = AF!Cleared, !.tmpEONAFlist = AF!Cleared]

NewCodeEvents == {"rxfre", "picode", "pname", "rxsig", "rtxt", "lrtxt", "ptype"}

\* Fault: only the frequency and the code of a new channel are announced.
ChannelEventsFault == {"rxfre", "picode"}
ChannelEvents == NewCodeEvents

\* set_pi_code()
set_pi_code(d, new_code, junk) ==
    LET known == KnownChannel(ClearLists(d), new_code, junk)
        other == [set_event(known, ChannelEvents)
                    EXCEPT !.curchind = lookup_pi_code(known, new_code),
                           !.last_pi_code = new_code]
    IN  set_event(IF d.last_pi_code = new_code THEN d ELSE other, {"picode"})

\* RDSdecoder()
NewDecoder(junk) ==
    set_pi_code([chlist |-> <<>>, curchind |-> 0, last_pi_code |-> -2, events |-> {},
                 tmpAFlist |-> AF!Cleared, tmpEONAFlist |-> AF!Cleared,
                 utc_datetime |-> <<>>, local_datetime |-> <<>>], NoPI, junk)

\* FreqChanged()
FreqChanged(d, junk) == set_pi_code(set_event(d, {"rxfre"}), NoPI, junk)

-----------------------------------------------------------------------------
(* The group types *)

\* Alternative frequencies of the channel.
AddAltFreq(d, b0, b1) ==
    LET af == AF!AddGroup(d.tmpAFlist, b0, b1)
    IN  CASE af.status = "ERROR"    -> [d EXCEPT !.tmpAFlist = AF!Cleared]
          [] af.status = "COMPLETE" ->
                set_event([d EXCEPT !.chlist[d.curchind].AFlist = af,
                                    !.tmpAFlist = AF!Cleared], {"aflist"})
          [] OTHER                  -> [d EXCEPT !.tmpAFlist = af]

\* Types 0A and 0B: flags, the program name, alternative frequencies.
BasicTuning(d, g) ==
    LET ch == d.curchind
        d1 == set_rds_flag(set_rds_flag(d, ch, "TA", g.ta), ch, "MUSIC", g.music)
        d2 == set_prog_name(d1, ch, g.seg, g.name)
        d3 == set_rds_flag(d2, ch, DecoderFlag[g.seg + 1], g.di)
    IN  IF g.type = "0A" THEN AddAltFreq(d3, g.af[1], g.af[2]) ELSE d3

\* Types 2A and 2B: the text of the channel; 2B has the code once more.
Text(d, g, junk) ==
    LET d1 == set_rds_flag(d, d.curchind, "TEXT_AB", g.ab)
        d2 == IF g.type = "2B" THEN set_pi_code(d1, g.pi, junk) ELSE d1
        rt == RT!AddGroup(d2.chlist[d2.curchind].radio_text, g.type, g.addr, g.ab, g.chars)
        complete == rt.status = "COMPLETE"
    IN  set_event([d2 EXCEPT !.chlist[d2.curchind].radio_text =
                        IF complete THEN RT!Clear(rt) ELSE rt],
                  IF complete THEN {"rtxt", "lrtxt"} ELSE {"rtxt"})

\* Type 4A: date and time.
Clock(d, g) ==
    set_event([d EXCEPT
                !.utc_datetime   = <<DT!UtcDate(g.day), g.hour, g.minute>>,
                !.local_datetime = <<DT!LocalDate(g.day, g.hour, g.minute, g.offset),
                                     DT!LocalTime(g.hour, g.minute, g.offset)>>],
              {"utcdt", "locdt"})

\* Type 8A: a TMC message, received at the time now.
Traffic(d, g, now) ==
    LET tl == TMC!AddGroup(d.chlist[d.curchind].tmc_list, g.tmc, now)
    IN  set_event([d EXCEPT !.chlist[d.curchind].tmc_list = tl],
                  IF tl.is_changed THEN {"tmc"} ELSE {})

\* Alternative frequencies of another network, variant 4: one list under way
\* for all of them.
AddOtherAltFreq(d, ch, b0, b1) ==
    LET af == AF!AddGroup(d.tmpEONAFlist, b0, b1)
    IN  CASE af.status = "ERROR"    -> [d EXCEPT !.tmpEONAFlist = AF!Cleared]
          [] af.status = "COMPLETE" -> [d EXCEPT !.chlist[ch].AFlist = af,
                                                 !.tmpEONAFlist = AF!Cleared]
          [] OTHER                  -> [d EXCEPT !.tmpEONAFlist = af]

\* Bit n of a word, and the five highest of its 16 bits.
Bit(n, word) == (word \div 2^n) % 2 = 1
TopFive(word) == word \div 2048

\* Types 14A and 14B: data of another network, by variant.  Its flag TP is
\* taken from the low byte of the third block, whatever this has, and in
\* variant 13 its program type and its flag TA from the bytes of its code.
OtherNetwork(d, g, junk) ==
    LET d0 == KnownChannel(d, g.pio, junk)
        ch == lookup_pi_code(d0, g.pio)
        d1 == set_rds_flag(d0, ch, "TP", Bit(4, g.low))
    IN  CASE g.type = "14B" -> set_rds_flag(d1, ch, "TA", Bit(3, g.low))
          [] g.type = "14A" /\ g.variant \in 0..3 ->
                set_prog_name(d1, ch, g.variant, g.name)
          [] g.type = "14A" /\ g.variant = 4 -> AddOtherAltFreq(d1, ch, g.af[1], g.af[2])
          [] g.type = "14A" /\ g.variant \in 5..9 ->
                [d1 EXCEPT !.chlist[ch].AFlist =
                    AF!AddMappedGroup(@, g.variant, g.af[1], g.af[2])]
          [] g.type = "14A" /\ g.variant = 13 ->
                set_rds_flag(set_pty_code(d1, ch, TopFive(g.pio)), ch, "TA", Bit(0, g.pio))
          [] OTHER -> d1

\* Fault: the channel is changed last, after the flags have been set.
CommonFault(d, g, junk) ==
    set_pi_code(set_pty_code(set_rds_flag(d, d.curchind, "TP", g.tp), d.curchind, g.pty),
                g.pi, junk)

\* What all groups have.
Common(d, g, junk) ==
    LET d1 == set_pi_code(d, g.pi, junk)
    IN  set_pty_code(set_rds_flag(d1, d1.curchind, "TP", g.tp), d1.curchind, g.pty)

\* AddBytes(), from the complete group on.
AddGroup(d, g, now, junk) ==
    LET d1 == Common(d, g, junk)
    IN  CASE g.type \in {"0A", "0B"}   -> BasicTuning(d1, g)
          [] g.type \in {"2A", "2B"}   -> Text(d1, g, junk)
          [] g.type = "4A"             -> Clock(d1, g)
          [] g.type = "8A"             -> Traffic(d1, g, now)
          [] g.type \in {"14A", "14B"} -> OtherNetwork(d1, g, junk)
          [] OTHER                     -> d1

\* The channel that answers requests: the last that was tuned to.
Current(d) == d.chlist[d.curchind]

\* What the commands of a client return.
Item(d, it) ==
    CASE it = "rflags" -> Current(d).rds_flags
      [] it = "picode" -> Current(d).PIcode
      [] it = "ptype"  -> Current(d).PTYcode
      [] it = "pname"  -> Current(d).program_name
      [] it = "rtxt"   -> RT!GetBuffer(Current(d).radio_text)
      [] it = "lrtxt"  -> Current(d).radio_text.last_radio_text
      [] it = "tmc"    -> TMC!Lines(Current(d).tmc_list)
      [] it = "aflist" -> Current(d).AFlist.freq_list
      [] it = "utcdt"  -> d.utc_datetime
      [] it = "locdt"  -> d.local_datetime

=============================================================================
