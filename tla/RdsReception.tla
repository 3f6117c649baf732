---------------------------- MODULE RdsReception ---------------------------
(***************************************************************************)
(* A source of rdsd that receives radio stations.  A station is known by   *)
(* its program identification code; it sends groups of several types, in   *)
(* any order, any of them may be lost, and the receiver may be tuned to    *)
(* another station between any two groups.                                 *)
(***************************************************************************)
EXTENDS RdsSource

CONSTANTS
    Stations,       \* their PI codes
    Programmes,     \* sets of <<station, group type>>; a behaviour has those of one
    TP, PTY,        \* of each station
    AltFreqs,       \* of each station: the pairs of codes of its list
    TextLength,     \* of each text of each station: its characters before the end
    Variants,       \* of groups 14A
    Messages,       \* TMC messages
    Days, Times, Offsets,   \* of groups 4A
    MaxText,        \* bound: number of texts of a station
    MaxTime         \* bound: time, in steps of one second

ASSUME StationsAssumption ==
    /\ \A pi \in Stations : pi \in Nat /\ pi < 65536
    /\ TP \in [Stations -> BOOLEAN] /\ PTY \in [Stations -> 0..31]
    /\ TextLength \in [Stations -> [0..MaxText -> 1..(2 * Segments)]]
    /\ Programmes \subseteq SUBSET (Stations \X {"0A", "0B", "2A", "2B", "3A", "4A", "8A", "14A", "14B"})
    /\ CR \notin Stations \X (0..MaxText)
    /\ {MaxText, MaxTime} \subseteq Nat

\* A station sends days of the years 1901 to 2099.
ASSUME ClockAssumption ==
    /\ Days \subseteq Int /\ \A day \in Days : 15385 <= day /\ day <= 88068
    /\ Times \subseteq (0..23) \X (0..59)
    /\ Offsets \subseteq -31..31

VARIABLES
    sends,      \* the stations and group types of this behaviour
    heardTexts, \* the texts heard of each station since its A/B flag last changed
    heard,      \* when each message was last decoded, by station
    now

airvars == <<sends, heardTexts, heard, now>>
rxvars  == <<Data, srcvars, left, airvars>>

Never == -1

RxInit ==
    /\ SourceInit
    /\ sends \in Programmes
    /\ heardTexts = [pi \in Stations |-> {}]
    /\ heard = [pi \in Stations |-> [g \in Messages |-> Never]]
    /\ now = 0

-----------------------------------------------------------------------------
(* The groups that a station can send *)

\* Characters first + 1 to first + n of text t: they tell which text they are of.
Characters(pi, t, first, n) ==
    [p \in 1..n |->
        CASE first + p <= TextLength[pi][t]     -> <<pi, t>>
          [] first + p = TextLength[pi][t] + 1  -> CR
          [] first + p > TextLength[pi][t] + 1  -> Space]

\* A group has the code, the flag TP and the program type, and more by its type.
Group(pi, type, more) ==
    LET head == [type |-> type, pi |-> pi, tp |-> TP[pi], pty |-> PTY[pi]]
    IN  [f \in DOMAIN head \cup DOMAIN more |-> IF f \in DOMAIN head THEN head[f] ELSE more[f]]

\* A station sends its texts one after the other; any number of them may go
\* by unheard.
Texts(pi) == {t \in 0..MaxText : \A h \in heardTexts[pi] : h <= t}

\* The segments of a text: up to the one with the carriage return.
TextGroups(pi, type) ==
    LET W == RT!Width(type)
    IN  UNION {{Group(pi, type, [of |-> t, ab |-> t % 2 = 1, addr |-> a,
                                 chars |-> Characters(pi, t, W * a, W)]) :
                    a \in {n \in 0..(Segments - 1) : W * n <= TextLength[pi][t]}} : t \in Texts(pi)}

TuningGroups(pi, type) ==
    {Group(pi, type, [ta |-> FALSE, music |-> TRUE, seg |-> IF type = "0A" THEN 3 ELSE 0,
                      di |-> type = "0A", name |-> pi, af |-> af]) : af \in AltFreqs[pi]}

ClockGroups(pi) ==
    {Group(pi, "4A", [day |-> d, hour |-> t[1], minute |-> t[2], offset |-> o]) :
        d \in Days, t \in Times, o \in Offsets}

\* The low byte of the third block of a group about another network: of the
\* code of the station, of a pair of frequencies, with the flag TA, or the
\* second of two characters, with or without bit 4.
LowBytes(pi, type, variant, af) ==
    CASE type = "14B"                      -> {pi % 256}
      [] type = "14A" /\ variant \in 4..9  -> {af[2]}
      [] type = "14A" /\ variant = 13      -> {1}
      [] OTHER                             -> {64, 80}

OtherNetworkGroups(pi, type) ==
    UNION {UNION {{Group(pi, type, [pio |-> other, variant |-> v, name |-> other,
                                    af |-> af, low |-> low]) : low \in LowBytes(pi, type, v, af)} :
                    v \in Variants, af \in AltFreqs[other]} : other \in Stations \ {pi}}

GroupsOf(pi, type) ==
    CASE type \in {"2A", "2B"}   -> TextGroups(pi, type)
      [] type \in {"0A", "0B"}   -> TuningGroups(pi, type)
      [] type = "4A"             -> ClockGroups(pi)
      [] type = "8A"             -> {Group(pi, "8A", [tmc |-> g]) : g \in Messages}
      [] type \in {"14A", "14B"} -> OtherNetworkGroups(pi, type)
      [] type = "3A"             -> {Group(pi, "3A", <<>>)}

-----------------------------------------------------------------------------
(* Steps *)

Tick ==
    /\ \E s \in sends : s[2] = "8A"
    /\ now < MaxTime /\ left = 0
    /\ now' = now + 1
    /\ UNCHANGED <<Data, srcvars, left, sends, heardTexts, heard>>

\* The texts heard under one state of the A/B flag, after a segment of text t.
Joined(texts, t) ==
    IF \A h \in texts : h % 2 = t % 2 THEN texts \cup {t} ELSE {t}

\* A group of any station is decoded.
Decode ==
    \E s \in sends : \E g \in GroupsOf(s[1], s[2]) :
        /\ DecodeGroup(g, now)
        /\ heard' = IF g.type = "8A" THEN [heard EXCEPT ![g.pi][g.tmc] = now] ELSE heard
        /\ heardTexts' =
              IF g.type \in {"2A", "2B"}
              THEN [heardTexts EXCEPT ![g.pi] = Joined(@, g.of)]
              ELSE heardTexts
        /\ UNCHANGED <<sends, now>>

RxNext ==
    \/ Tick \/ Decode
    \/ (Open \/ ProcessRetuned \/ ProcessData \/ ProcessNothing) /\ UNCHANGED airvars
RxSpec == RxInit /\ [][RxNext]_rxvars

-----------------------------------------------------------------------------
(* Properties *)

\* The types of the source, and the shape of the decoder.
RxTypeOK ==
    /\ src_type \in SourceTypes
    /\ status \in {"CLOSED", "WAIT", "OK"}
    /\ tuner_freq_khz \in TunerFreqs \cup {RADIO_FREQ, 0}
    /\ left \in 0..MaxRead
    /\ Data.curchind \in DOMAIN Data.chlist
    /\ \A n \in DOMAIN Data.chlist :
          LET ch == Data.chlist[n]
          IN  /\ ch.rds_flags \subseteq Flags
              /\ ch.PTYcode \in -1..31
              /\ Len(ch.radio_text.RTbuffer) \in {0, 2 * Segments, 4 * Segments}
              /\ ch.AFlist.status \in {"EMPTY", "COMPLETE"}

\* A program identification code has one channel, whether it was met first as
\* the station tuned to or as another network, and the data served are those
\* of the code that was decoded last.
ChannelsDistinct ==
    /\ \A m, n \in DOMAIN Data.chlist :
          Data.chlist[m].PIcode = Data.chlist[n].PIcode => m = n
    /\ Current(Data).PIcode = Data.last_pi_code

\* A string made of characters of these texts of a station: the whole of the
\* text if it is one.
MadeOf(last, pi, texts) ==
    /\ \A p \in DOMAIN last : last[p] \in ({pi} \X texts) \cup {Space}
    /\ \A t \in texts : texts = {t} => last = [p \in 1..TextLength[pi][t] |-> <<pi, t>>]

\* librds.h, RDS_EVENT_LAST_RADIOTEXT: "A radio text string was completed".
\* A last radio text is made of the texts of its station that were heard since
\* the last change of the A/B flag, and is the whole of that text if it was
\* one, whatever segments were lost or repeated, and with the counters of
\* segments that overflow.  If they were several, because all of a text
\* between was lost or sent while another station was tuned, the flag is as
\* before, and what is served can be a mixture of them.
TextStep ==
    \A n \in DOMAIN Data'.chlist :
        LET pi     == Data'.chlist[n].PIcode
            last   == Data'.chlist[n].radio_text.last_radio_text
            before == IF n \in DOMAIN Data.chlist
                      THEN Data.chlist[n].radio_text.last_radio_text ELSE <<>>
        IN  last # before => pi \in Stations /\ MadeOf(last, pi, heardTexts'[pi])
TextsAreWhole == [][TextStep]_rxvars

\* The frequencies that a station's own groups announce.
Announced(pi) ==
    UNION {{AF!freq_in_khz(p[1], FALSE), AF!freq_in_khz(p[2], p[1] = 250)} :
                p \in AltFreqs[pi]} \ {-1, 0, 1}

\* librds.h, RDS_EVENT_AF_LIST: "An alternative frequency list is ready".  The
\* list of a channel is the whole list of its station, whatever groups were
\* lost, repeated or received before the beginning, if at most one other
\* network is reported.
AltFreqsComplete ==
    \A n \in DOMAIN Data.chlist :
        LET list == Data.chlist[n].AFlist.freq_list
            own  == {list[k].Freq : k \in {j \in DOMAIN list : list[j].EonTNMapped = 0}}
        IN  own # {} => own = Announced(Data.chlist[n].PIcode)

\* A UTC date that is served is a date of the calendar, and of a day that was
\* received; the local time is as many half hours away as the group said.  The
\* exception: RDSdecoder::set_datetime_strings() counts the days of a month on
\* when the local day is the first of the next month.
DatesAreRight ==
    Data.utc_datetime # <<>> =>
        LET utc   == Data.utc_datetime[1]
            local == Data.local_datetime[1]
            time  == Data.local_datetime[2]
            Minutes(date, hour, minute) == (DT!JulDate(date) * 24 + hour) * 60 + minute
            RolledOver ==
                /\ DT!JulDate([utc EXCEPT !.D = 1, !.M = 1 + (@ % 12),
                                          !.Y = IF utc.M = 12 THEN @ + 1 ELSE @])
                     = DT!JulDate(utc) + 1
                /\ local.D = utc.D + 1
        IN  /\ DT!IsDate(utc) /\ DT!JulDate(utc) \in Days
            /\ RolledOver
                 \/ /\ DT!IsDate(local)
                    /\ Minutes(local, time.hour, time.minute)
                         - Minutes(utc, Data.utc_datetime[2], Data.utc_datetime[3])
                       \in {o * 30 : o \in Offsets}

\* The line of a message that has no part in the provider name.
LineOf(g) == TMC!Line(TMC!NewList, g)

\* Since its last TMC group the list of a station has one line for every
\* message that had been received in the last time_to_live seconds, and no
\* other (TMClist::AddGroup(), add_string() and check_timeouts()).
TmcListExact ==
    \A n \in DOMAIN Data.chlist :
        LET pi    == Data.chlist[n].PIcode
            list  == Data.chlist[n].tmc_list.tmc_list
            Last  == CHOOSE t \in 0..now :
                        /\ \E g \in Messages : heard[pi][g] = t
                        /\ \A g \in Messages : heard[pi][g] <= t
            fresh == {g \in Messages : heard[pi][g] # Never /\ Last - heard[pi][g] <= time_to_live}
        IN  pi \in Stations =>
              /\ {list[k].data : k \in DOMAIN list} = {LineOf(g) : g \in fresh}
              /\ \A j, k \in DOMAIN list : list[j].data = list[k].data => j = k

\* librds.h, RDS_EVENT_*: what a client can ask for changes together with the
\* event that tells so.  The exceptions: the program name of a channel is
\* announced with its last segment, the lists of another channel are not
\* announced when it becomes the current one, nor are the flags when the
\* frequency has changed and no code is known yet.
Announces(it) ==
    Item(Data, it) # Item(Data', it) => it \in Data'.events
ChangeStep ==
    /\ \A it \in {"picode", "ptype", "rtxt", "lrtxt", "utcdt", "locdt"} : Announces(it)
    /\ Current(Data').PIcode # NoPI => Announces("rflags")
    /\ Data.curchind # Data'.curchind => Announces("pname")
    /\ Data.curchind = Data'.curchind => Announces("aflist") /\ Announces("tmc")
ChangesAreAnnounced == [][ChangeStep]_rxvars

\* librds.h, RDS_FLAG_IS_TP: "Program is a traffic program".  The flag TP of
\* the current channel is the one its station sends.  RDSchanneldata::
\* set_rds_flag() takes all flags away when it is to take one.
FlagsOfTheStation ==
    \A pi \in Stations :
        Current(Data).PIcode = pi => ("TP" \in Current(Data).rds_flags <=> TP[pi])

=============================================================================
