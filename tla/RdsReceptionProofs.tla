------------------------- MODULE RdsReceptionProofs -------------------------
(***************************************************************************)
(* Proofs about a source of rdsd that receives stations (RdsReception):    *)
(* its decoder has one channel for every code and serves the one that was  *)
(* decoded last; a radio text is whole and the station's own; the list of  *)
(* TMC messages is exact; and every change of what a client can ask for is *)
(* announced.                                                              *)
(*                                                                         *)
(* The objects of the decoder are records with members of any kind, so     *)
(* their shapes are stated by what they are made of.                       *)
(***************************************************************************)
EXTENDS RdsReception, ProofFacts

-----------------------------------------------------------------------------
(* The inductive invariant *)

\* A sequence, of whatever elements.
IsSeq(s) == s \in Seq({s[n] : n \in DOMAIN s})

IsAltFreqList(af) ==
    /\ af = [status |-> af.status, first_freq |-> af.first_freq,
             freq_counter |-> af.freq_counter, lfmf_follows |-> af.lfmf_follows,
             freq_list |-> af.freq_list]
    /\ af.status \in {"EMPTY", "INCOMPLETE", "COMPLETE", "ERROR"}

IsCell(cell) ==
    /\ cell = [Char |-> cell.Char, Counter |-> cell.Counter]
    /\ cell.Counter \in Int

IsText(rt) ==
    /\ rt = [status |-> rt.status, type |-> rt.type, ABflag |-> rt.ABflag,
             RTbuffer |-> rt.RTbuffer, last_radio_text |-> rt.last_radio_text]
    /\ IsSeq(rt.RTbuffer)
    /\ \A p \in DOMAIN rt.RTbuffer : IsCell(rt.RTbuffer[p])
    /\ Len(rt.RTbuffer) \in {0, 2 * Segments, 4 * Segments}
    /\ rt.type = "2A" => Len(rt.RTbuffer) = 4 * Segments
    /\ rt.type = "2B" => Len(rt.RTbuffer) = 2 * Segments

\* No two entries of a list have the same line.
Distinct(list) == \A j, k \in DOMAIN list : list[j].data = list[k].data => j = k

IsTmcList(tl) ==
    /\ tl = [tmc_list |-> tl.tmc_list, tmc_provider |-> tl.tmc_provider,
             is_changed |-> tl.is_changed]
    /\ IsSeq(tl.tmc_list)
    /\ \A k \in DOMAIN tl.tmc_list :
          tl.tmc_list[k] = [rx_time |-> tl.tmc_list[k].rx_time, data |-> tl.tmc_list[k].data]
    /\ Distinct(tl.tmc_list)
    /\ tl.is_changed \in BOOLEAN

IsChannel(ch) ==
    /\ ch = [PIcode |-> ch.PIcode, PTYcode |-> ch.PTYcode, rds_flags |-> ch.rds_flags,
             program_name |-> ch.program_name, AFlist |-> ch.AFlist,
             radio_text |-> ch.radio_text, tmc_list |-> ch.tmc_list]
    /\ ch.rds_flags \subseteq Flags
    /\ ch.PTYcode \in -1..31
    /\ IsAltFreqList(ch.AFlist) /\ ch.AFlist.status \in {"EMPTY", "COMPLETE"}
    /\ IsText(ch.radio_text)
    /\ IsTmcList(ch.tmc_list)

IsDecoder(d) ==
    /\ d = [chlist |-> d.chlist, curchind |-> d.curchind, last_pi_code |-> d.last_pi_code,
            events |-> d.events, tmpAFlist |-> d.tmpAFlist, tmpEONAFlist |-> d.tmpEONAFlist,
            utc_datetime |-> d.utc_datetime, local_datetime |-> d.local_datetime]
    /\ IsSeq(d.chlist)
    /\ \A n \in DOMAIN d.chlist : IsChannel(d.chlist[n])
    /\ IsAltFreqList(d.tmpAFlist)
    /\ IsAltFreqList(d.tmpEONAFlist)
    /\ \A m, n \in DOMAIN d.chlist : d.chlist[m].PIcode = d.chlist[n].PIcode => m = n
    /\ d.curchind \in DOMAIN d.chlist
    /\ d.chlist[d.curchind].PIcode = d.last_pi_code

\* Character p of text t of a station.
CharacterAt(pi, t, p) ==
    CASE p <= TextLength[pi][t]     -> <<pi, t>>
      [] p = TextLength[pi][t] + 1  -> CR
      [] p > TextLength[pi][t] + 1  -> Space

\* Texts that have the same state of the A/B flag.
HeardSets == {T \in SUBSET (0..MaxText) : \A h, k \in T : h % 2 = k % 2}

\* What the buffer of a channel has received is of the texts that were heard
\* since the last change of the A/B flag, and the flag is that of these texts.
BufferRight(ch, ht) ==
    LET buf == ch.radio_text.RTbuffer
    IN  \A p \in DOMAIN buf :
           \/ buf[p] = RT!Blank
           \/ /\ ch.PIcode \in Stations
              /\ \E t \in ht[ch.PIcode] : /\ ch.radio_text.ABflag = (t % 2 = 1)
                                          /\ buf[p].Char = CharacterAt(ch.PIcode, t, p)

\* The line of an entry of the TMC list, and when it was heard last.
EntryRight(e, at) ==
    /\ \E g \in Messages : LineOf(g) = e.data /\ at[g] = e.rx_time
    /\ \A g \in Messages : LineOf(g) = e.data => at[g] <= e.rx_time
    /\ e.rx_time \in Nat

LatestAt(at, last) ==
    /\ \E g \in Messages : at[g] = last
    /\ \A g \in Messages : at[g] <= last

\* The entries are those of the messages that are not too old.
ListRight(list, at) ==
    /\ \A k \in DOMAIN list : EntryRight(list[k], at)
    /\ \A last \in Nat : LatestAt(at, last) =>
          /\ \A k \in DOMAIN list : last - list[k].rx_time <= time_to_live
          /\ \A g \in Messages : at[g] # Never /\ last - at[g] <= time_to_live =>
                \E k \in DOMAIN list : list[k].data = LineOf(g)

TextsRight(d, ht) == \A n \in DOMAIN d.chlist : BufferRight(d.chlist[n], ht)

\* The last text of every channel of e is as in d, or is made of what was
\* heard; ht is what was heard until e.
TextsServed(d, e, ht) ==
    \A n \in DOMAIN e.chlist :
        LET last == e.chlist[n].radio_text.last_radio_text
        IN  \/ n \in DOMAIN d.chlist /\ last = d.chlist[n].radio_text.last_radio_text
            \/ n \notin DOMAIN d.chlist /\ last = <<>>
            \/ /\ e.chlist[n].PIcode \in Stations
               /\ MadeOf(last, e.chlist[n].PIcode, ht[e.chlist[n].PIcode])

\* Also: what was heard of a station has given it a channel.
ListsRight(d, at) ==
    \A pi \in Stations :
        /\ \A n \in DOMAIN d.chlist :
              d.chlist[n].PIcode = pi => ListRight(d.chlist[n].tmc_list.tmc_list, at[pi])
        /\ ~HasChannel(d, pi) => \A g \in Messages : at[pi][g] = Never

\* What a group of the clock says.
IsClock(g) ==
    \E day \in Days, t \in Times, o \in Offsets :
        g.day = day /\ g.hour = t[1] /\ g.minute = t[2] /\ g.offset = o

\* What is served is what one group said.
ClockOf(d, g) ==
    /\ d.utc_datetime = <<DT!UtcDate(g.day), g.hour, g.minute>>
    /\ d.local_datetime = <<DT!LocalDate(g.day, g.hour, g.minute, g.offset),
                            DT!LocalTime(g.hour, g.minute, g.offset)>>

ClockRight(d) == d.utc_datetime = <<>> \/ \E g : IsClock(g) /\ ClockOf(d, g)

SourceInv ==
    /\ src_type \in SourceTypes
    /\ status \in {"CLOSED", "WAIT", "OK"}
    /\ tuner_freq_khz \in TunerFreqs \cup {RADIO_FREQ, 0}
    /\ left \in 0..MaxRead

AirInv ==
    /\ sends \in Programmes
    /\ heardTexts \in [Stations -> HeardSets]
    /\ now \in Nat
    /\ heard \in [Stations -> [Messages -> Nat \cup {Never}]]
    /\ \A pi \in Stations, g \in Messages : heard[pi][g] <= now

RxInv == SourceInv /\ AirInv /\ IsDecoder(Data) /\ TextsRight(Data, heardTexts)

\* The lines of the lists do not depend on the provider name.
NoProviderParts == \A g \in Messages : ~(g.type = "SYSTEM" /\ g.CI \in {4, 5})
TmcInv == ListsRight(Data, heard)
ClockInv == ClockRight(Data)

-----------------------------------------------------------------------------
(* Sequences *)

LEMMA SeqIsSeq ==
    ASSUME NEW S, NEW s \in Seq(S)
    PROVE  IsSeq(s)
  <1>1. DOMAIN s = 1..Len(s) /\ Len(s) \in Nat
    OBVIOUS
  <1> QED BY <1>1 DEF IsSeq

LEMMA IsSeqDomain ==
    ASSUME NEW s, IsSeq(s)
    PROVE  Len(s) \in Nat /\ DOMAIN s = 1..Len(s)
  BY DEF IsSeq

LEMMA IsSeqAppend ==
    ASSUME NEW s, IsSeq(s), NEW e
    PROVE  /\ IsSeq(Append(s, e))
           /\ DOMAIN Append(s, e) = DOMAIN s \cup {Len(s) + 1}
           /\ Len(s) + 1 \notin DOMAIN s
           /\ Len(Append(s, e)) = Len(s) + 1
           /\ \A n \in DOMAIN s : Append(s, e)[n] = s[n]
           /\ Append(s, e)[Len(s) + 1] = e
  <1> DEFINE S == {s[n] : n \in DOMAIN s} \cup {e}
  <1>1. s \in Seq(S) /\ e \in S
    <2>1. s \in Seq({s[n] : n \in DOMAIN s})
      BY DEF IsSeq
    <2>2. \A n \in 1..Len(s) : s[n] \in S
      BY <2>1
    <2> QED BY <2>1, <2>2
  <1> HIDE DEF S
  <1>2. /\ Append(s, e) \in Seq(S) /\ Len(Append(s, e)) = Len(s) + 1
        /\ \A n \in 1..Len(s) : Append(s, e)[n] = s[n]
        /\ Append(s, e)[Len(s) + 1] = e
    BY <1>1, AppendElements
  <1>3. IsSeq(Append(s, e))
    BY <1>2, SeqIsSeq
  <1> QED BY <1>2, <1>3, IsSeqDomain

LEMMA IsSeqExcept ==
    ASSUME NEW s, IsSeq(s), NEW n \in DOMAIN s, NEW e
    PROVE  /\ IsSeq([s EXCEPT ![n] = e])
           /\ DOMAIN [s EXCEPT ![n] = e] = DOMAIN s
           /\ Len([s EXCEPT ![n] = e]) = Len(s)
           /\ \A m \in DOMAIN s : [s EXCEPT ![n] = e][m] = IF m = n THEN e ELSE s[m]
  <1> DEFINE S == {s[m] : m \in DOMAIN s} \cup {e}
             t == [s EXCEPT ![n] = e]
  <1>1. s \in Seq(S) /\ e \in S
    <2>1. s \in Seq({s[m] : m \in DOMAIN s})
      BY DEF IsSeq
    <2>2. \A m \in 1..Len(s) : s[m] \in S
      BY <2>1
    <2> QED BY <2>1, <2>2
  <1>2. DOMAIN t = DOMAIN s /\ \A m \in DOMAIN s : t[m] = IF m = n THEN e ELSE s[m]
    OBVIOUS
  <1>3. t \in Seq(S) /\ Len(t) = Len(s)
    <2> HIDE DEF S
    <2> QED BY <1>1, ExceptSeq
  <1> HIDE DEF S
  <1> QED BY <1>2, <1>3, SeqIsSeq

-----------------------------------------------------------------------------
(* How the decoder changes *)

\* e is d with more channels and more events; the new channels are blank.
Follows(d, e) ==
    /\ IsDecoder(e)
    /\ DOMAIN d.chlist \subseteq DOMAIN e.chlist
    /\ \A n \in DOMAIN d.chlist : e.chlist[n].PIcode = d.chlist[n].PIcode
    /\ \A n \in DOMAIN e.chlist \ DOMAIN d.chlist :
          e.chlist[n].radio_text = RT!NewText /\ e.chlist[n].tmc_list = TMC!NewList
    /\ d.events \subseteq e.events

SameTexts(d, e) ==
    \A n \in DOMAIN d.chlist : e.chlist[n].radio_text = d.chlist[n].radio_text
SameLists(d, e) ==
    \A n \in DOMAIN d.chlist : e.chlist[n].tmc_list = d.chlist[n].tmc_list
SameAltFreqs(d, e, n) == e.chlist[n].AFlist = d.chlist[n].AFlist
SameClock(d, e) == e.utc_datetime = d.utc_datetime /\ e.local_datetime = d.local_datetime
SameCurrent(d, e) == e.curchind = d.curchind /\ e.last_pi_code = d.last_pi_code

\* One channel is replaced by another of the same code.
Replaced(d, e, n, ch) ==
    /\ IsDecoder(e)
    /\ DOMAIN e.chlist = DOMAIN d.chlist
    /\ \A m \in DOMAIN d.chlist : e.chlist[m] = IF m = n THEN ch ELSE d.chlist[m]
    /\ d.events \subseteq e.events
    /\ SameClock(d, e) /\ SameCurrent(d, e)

LEMMA ReplacedFollows ==
    ASSUME NEW d, IsDecoder(d), NEW n \in DOMAIN d.chlist, NEW e, NEW ch,
           Replaced(d, e, n, ch), ch.PIcode = d.chlist[n].PIcode
    PROVE  Follows(d, e)
  BY DEF Replaced, Follows

LEMMA EventsChanged ==
    ASSUME NEW d, IsDecoder(d), NEW evnts, NEW e, e = [d EXCEPT !.events = evnts]
    PROVE  /\ IsDecoder(e) /\ e.chlist = d.chlist /\ e.events = evnts
           /\ SameClock(d, e) /\ SameCurrent(d, e)
  <1>1. /\ e.chlist = d.chlist /\ e.events = evnts
        /\ e.curchind = d.curchind /\ e.last_pi_code = d.last_pi_code
        /\ e.tmpAFlist = d.tmpAFlist /\ e.tmpEONAFlist = d.tmpEONAFlist
        /\ e.utc_datetime = d.utc_datetime /\ e.local_datetime = d.local_datetime
    BY DEF IsDecoder
  <1>2. e = [chlist |-> e.chlist, curchind |-> e.curchind, last_pi_code |-> e.last_pi_code,
            events |-> e.events, tmpAFlist |-> e.tmpAFlist, tmpEONAFlist |-> e.tmpEONAFlist,
            utc_datetime |-> e.utc_datetime, local_datetime |-> e.local_datetime]
    BY DEF IsDecoder
  <1>3. IsDecoder(e)
    BY <1>1, <1>2 DEF IsDecoder
  <1> QED BY <1>1, <1>3 DEF SameClock, SameCurrent

LEMMA MoreEvents ==
    ASSUME NEW d, IsDecoder(d), NEW evnts
    PROVE  /\ IsDecoder(set_event(d, evnts))
           /\ set_event(d, evnts).chlist = d.chlist
           /\ set_event(d, evnts).events = d.events \cup evnts
           /\ SameClock(d, set_event(d, evnts)) /\ SameCurrent(d, set_event(d, evnts))
  BY EventsChanged DEF set_event

\* The lists of alternative frequencies under way.
LEMMA ListsUnderWay ==
    ASSUME NEW d, IsDecoder(d), NEW af, IsAltFreqList(af), NEW eon, IsAltFreqList(eon),
           NEW e, e = [d EXCEPT !.tmpAFlist = af, !.tmpEONAFlist = eon]
    PROVE  /\ IsDecoder(e) /\ e.chlist = d.chlist /\ e.events = d.events
           /\ SameClock(d, e) /\ SameCurrent(d, e)
  <1>1. /\ e.chlist = d.chlist /\ e.events = d.events
        /\ e.curchind = d.curchind /\ e.last_pi_code = d.last_pi_code
        /\ e.tmpAFlist = af /\ e.tmpEONAFlist = eon
        /\ e.utc_datetime = d.utc_datetime /\ e.local_datetime = d.local_datetime
    BY DEF IsDecoder
  <1>2. e = [chlist |-> e.chlist, curchind |-> e.curchind, last_pi_code |-> e.last_pi_code,
            events |-> e.events, tmpAFlist |-> e.tmpAFlist, tmpEONAFlist |-> e.tmpEONAFlist,
            utc_datetime |-> e.utc_datetime, local_datetime |-> e.local_datetime]
    BY DEF IsDecoder
  <1>3. IsDecoder(e)
    BY <1>1, <1>2 DEF IsDecoder
  <1> QED BY <1>1, <1>3 DEF SameClock, SameCurrent

LEMMA ChannelReplaced ==
    ASSUME NEW d, IsDecoder(d), NEW n \in DOMAIN d.chlist,
           NEW ch, IsChannel(ch), ch.PIcode = d.chlist[n].PIcode,
           NEW e, e = [d EXCEPT !.chlist = [d.chlist EXCEPT ![n] = ch]]
    PROVE  Replaced(d, e, n, ch) /\ e.events = d.events
  <1>1. /\ e.chlist = [d.chlist EXCEPT ![n] = ch] /\ e.events = d.events
        /\ e.curchind = d.curchind /\ e.last_pi_code = d.last_pi_code
        /\ e.tmpAFlist = d.tmpAFlist /\ e.tmpEONAFlist = d.tmpEONAFlist
        /\ e.utc_datetime = d.utc_datetime /\ e.local_datetime = d.local_datetime
    BY DEF IsDecoder
  <1>2. e = [chlist |-> e.chlist, curchind |-> e.curchind, last_pi_code |-> e.last_pi_code,
            events |-> e.events, tmpAFlist |-> e.tmpAFlist, tmpEONAFlist |-> e.tmpEONAFlist,
            utc_datetime |-> e.utc_datetime, local_datetime |-> e.local_datetime]
    BY DEF IsDecoder
  <1>3. /\ IsSeq(e.chlist) /\ DOMAIN e.chlist = DOMAIN d.chlist
        /\ \A m \in DOMAIN d.chlist : e.chlist[m] = IF m = n THEN ch ELSE d.chlist[m]
    BY <1>1, IsSeqExcept DEF IsDecoder
  <1>4. \A m \in DOMAIN e.chlist : IsChannel(e.chlist[m]) /\ e.chlist[m].PIcode = d.chlist[m].PIcode
    BY <1>3 DEF IsDecoder
  <1>5. IsDecoder(e)
    BY <1>1, <1>2, <1>3, <1>4 DEF IsDecoder
  <1> QED BY <1>1, <1>3, <1>5 DEF Replaced, SameClock, SameCurrent

LEMMA BlankChannel ==
    ASSUME NEW pi_code, NEW junk, junk \subseteq Flags
    PROVE  /\ IsChannel(NewChannel(pi_code, junk))
           /\ NewChannel(pi_code, junk).PIcode = pi_code
           /\ NewChannel(pi_code, junk).radio_text = RT!NewText
           /\ NewChannel(pi_code, junk).tmc_list = TMC!NewList
           /\ IsAltFreqList(AF!Cleared)
  <1>1. IsAltFreqList(AF!Cleared) /\ AF!Cleared.status = "EMPTY"
    BY DEF IsAltFreqList, AF!Cleared
  <1>2. IsText(RT!NewText)
    <2> DEFINE rt == RT!NewText
    <2>1. rt = [status |-> "EMPTY", type |-> "NONE", ABflag |-> FALSE, RTbuffer |-> <<>>,
                last_radio_text |-> <<>>]
      BY DEF RT!NewText
    <2> HIDE DEF rt
    <2>2. rt = [status |-> rt.status, type |-> rt.type, ABflag |-> rt.ABflag,
                RTbuffer |-> rt.RTbuffer, last_radio_text |-> rt.last_radio_text]
      BY <2>1
    <2>3. rt.type = "NONE" /\ rt.RTbuffer = <<>>
      BY <2>1
    <2>4. rt.RTbuffer \in Seq({}) /\ DOMAIN rt.RTbuffer = {} /\ Len(rt.RTbuffer) = 0
      BY <2>3
    <2>5. IsText(rt)
      BY <2>2, <2>3, <2>4, SeqIsSeq DEF IsText
    <2> QED BY <2>5 DEF rt
  <1>3. IsTmcList(TMC!NewList)
    <2> DEFINE tl == TMC!NewList
    <2>1. tl = [tmc_list |-> <<>>, tmc_provider |-> <<" ", " ">>, is_changed |-> FALSE]
      BY DEF TMC!NewList
    <2> HIDE DEF tl
    <2>2. tl = [tmc_list |-> tl.tmc_list, tmc_provider |-> tl.tmc_provider,
                is_changed |-> tl.is_changed]
      BY <2>1
    <2>3. tl.tmc_list = <<>> /\ tl.is_changed = FALSE
      BY <2>1
    <2>4. tl.tmc_list \in Seq({}) /\ DOMAIN tl.tmc_list = {}
      BY <2>3
    <2>5. IsTmcList(tl)
      BY <2>2, <2>3, <2>4, SeqIsSeq DEF IsTmcList, Distinct
    <2> QED BY <2>5 DEF tl
  <1> QED BY <1>1, <1>2, <1>3 DEF NewChannel, IsChannel

\* A channel is added only for a code that has none.
LEMMA KnownChannelFacts ==
    ASSUME NEW d, IsDecoder(d), NEW pi_code, NEW junk, junk \subseteq Flags,
           NEW e, e = KnownChannel(d, pi_code, junk)
    PROVE  /\ Follows(d, e) /\ e.events = d.events
           /\ SameTexts(d, e) /\ SameLists(d, e) /\ SameClock(d, e) /\ SameCurrent(d, e)
           /\ \A n \in DOMAIN d.chlist : SameAltFreqs(d, e, n)
           /\ HasChannel(e, pi_code)
           /\ \A n \in DOMAIN e.chlist \ DOMAIN d.chlist : e.chlist[n].PIcode = pi_code
  <1> DEFINE ch == NewChannel(pi_code, junk)
  <1>1. CASE HasChannel(d, pi_code)
    <2>1. e = d
      BY <1>1 DEF KnownChannel
    <2> QED BY <1>1, <2>1 DEF Follows, SameTexts, SameLists, SameClock, SameCurrent, SameAltFreqs
  <1>2. CASE ~HasChannel(d, pi_code)
    <2>0. e = [d EXCEPT !.chlist = Append(d.chlist, ch)]
      BY <1>2 DEF KnownChannel
    <2>1. /\ IsChannel(ch) /\ ch.PIcode = pi_code
          /\ ch.radio_text = RT!NewText /\ ch.tmc_list = TMC!NewList
      BY BlankChannel
    <2> HIDE DEF ch
    <2>2. /\ e.chlist = Append(d.chlist, ch) /\ e.events = d.events
          /\ e.curchind = d.curchind /\ e.last_pi_code = d.last_pi_code
          /\ e.tmpAFlist = d.tmpAFlist /\ e.tmpEONAFlist = d.tmpEONAFlist
          /\ e.utc_datetime = d.utc_datetime /\ e.local_datetime = d.local_datetime
      BY <2>0 DEF IsDecoder
    <2>3. e = [chlist |-> e.chlist, curchind |-> e.curchind, last_pi_code |-> e.last_pi_code,
              events |-> e.events, tmpAFlist |-> e.tmpAFlist, tmpEONAFlist |-> e.tmpEONAFlist,
              utc_datetime |-> e.utc_datetime, local_datetime |-> e.local_datetime]
      BY <2>0 DEF IsDecoder
    <2>4. PICK new : new = Len(d.chlist) + 1
      OBVIOUS
    <2>5. /\ IsSeq(e.chlist) /\ DOMAIN e.chlist = DOMAIN d.chlist \cup {new}
          /\ new \notin DOMAIN d.chlist
          /\ \A n \in DOMAIN d.chlist : e.chlist[n] = d.chlist[n]
          /\ e.chlist[new] = ch
      BY <2>2, <2>4, IsSeqAppend DEF IsDecoder
    <2>6. \A n \in DOMAIN d.chlist : d.chlist[n].PIcode # pi_code
      BY <1>2 DEF HasChannel
    <2>7. \A n \in DOMAIN e.chlist : IsChannel(e.chlist[n])
      BY <2>1, <2>5 DEF IsDecoder
    <2>8. \A m, n \in DOMAIN e.chlist : e.chlist[m].PIcode = e.chlist[n].PIcode => m = n
      BY <2>1, <2>5, <2>6 DEF IsDecoder
    <2>9. IsDecoder(e)
      BY <2>2, <2>3, <2>5, <2>7, <2>8 DEF IsDecoder
    <2>10. Follows(d, e)
      BY <2>1, <2>2, <2>5, <2>9 DEF Follows
    <2>11. HasChannel(e, pi_code)
      BY <2>1, <2>5 DEF HasChannel
    <2> QED BY <2>1, <2>2, <2>5, <2>10, <2>11
            DEF SameTexts, SameLists, SameClock, SameCurrent, SameAltFreqs
  <1> QED BY <1>1, <1>2

\* A code has at most one channel, so that the first one is the only one.
LEMMA LookupFinds ==
    ASSUME NEW d, IsDecoder(d), NEW pi_code, HasChannel(d, pi_code)
    PROVE  /\ lookup_pi_code(d, pi_code) \in DOMAIN d.chlist
           /\ d.chlist[lookup_pi_code(d, pi_code)].PIcode = pi_code
  <1>1. PICK n \in DOMAIN d.chlist : d.chlist[n].PIcode = pi_code
    BY DEF HasChannel
  <1>2. DOMAIN d.chlist = 1..Len(d.chlist) /\ Len(d.chlist) \in Nat
    BY IsSeqDomain DEF IsDecoder
  <1>3. \A k \in 1..(n - 1) : d.chlist[k].PIcode # pi_code
    <2> SUFFICES ASSUME NEW k \in 1..(n - 1), d.chlist[k].PIcode = pi_code PROVE FALSE
      OBVIOUS
    <2>1. k \in DOMAIN d.chlist /\ k # n
      BY <1>2
    <2> QED BY <1>1, <2>1 DEF IsDecoder
  <1> QED BY <1>1, <1>3 DEF lookup_pi_code

\* What a step does that concerns neither texts nor TMC lists nor the clock.
Tunes(d, e) == Follows(d, e) /\ SameTexts(d, e) /\ SameLists(d, e) /\ SameClock(d, e)

\* The channel that is served stays, with its alternative frequencies.
Serves(d, e) == SameCurrent(d, e) /\ SameAltFreqs(d, e, d.curchind)

LEMMA TunesReflexive ==
    ASSUME NEW d, IsDecoder(d)
    PROVE  Tunes(d, d) /\ Serves(d, d)
  BY DEF Tunes, Follows, SameTexts, SameLists, SameClock, Serves, SameCurrent, SameAltFreqs

LEMMA TunesTransitive ==
    ASSUME NEW d, NEW e, NEW f, Tunes(d, e), Tunes(e, f)
    PROVE  /\ Tunes(d, f)
           /\ Serves(d, e) /\ Serves(e, f) => Serves(d, f)
  <1>1. Follows(d, f)
    <2>1. IsDecoder(f) /\ DOMAIN d.chlist \subseteq DOMAIN f.chlist /\ d.events \subseteq f.events
      BY DEF Tunes, Follows
    <2>2. \A n \in DOMAIN d.chlist : f.chlist[n].PIcode = d.chlist[n].PIcode
      BY DEF Tunes, Follows
    <2>3. ASSUME NEW n \in DOMAIN f.chlist \ DOMAIN d.chlist
          PROVE  f.chlist[n].radio_text = RT!NewText /\ f.chlist[n].tmc_list = TMC!NewList
      <3>1. CASE n \in DOMAIN e.chlist
        BY <3>1 DEF Tunes, Follows, SameTexts, SameLists
      <3>2. CASE n \notin DOMAIN e.chlist
        BY <3>2 DEF Tunes, Follows
      <3> QED BY <3>1, <3>2
    <2> QED BY <2>1, <2>2, <2>3 DEF Follows
  <1>2. SameTexts(d, f) /\ SameLists(d, f) /\ SameClock(d, f)
    BY DEF Tunes, Follows, SameTexts, SameLists, SameClock
  <1>3. Serves(d, e) /\ Serves(e, f) => Serves(d, f)
    BY DEF Serves, SameCurrent, SameAltFreqs
  <1> QED BY <1>1, <1>2, <1>3 DEF Tunes

LEMMA EventsTune ==
    ASSUME NEW d, IsDecoder(d), NEW evnts, NEW e, e = set_event(d, evnts)
    PROVE  Tunes(d, e) /\ Serves(d, e) /\ e.events = d.events \cup evnts /\ e.chlist = d.chlist
  <1>1. /\ IsDecoder(e) /\ e.chlist = d.chlist /\ e.events = d.events \cup evnts
        /\ SameClock(d, e) /\ SameCurrent(d, e)
    BY MoreEvents
  <1> QED BY <1>1 DEF Tunes, Follows, SameTexts, SameLists, Serves, SameAltFreqs

\* A new code: what a client must learn is announced.
LEMMA PiCodeSet ==
    ASSUME NEW d, IsDecoder(d), NEW new_code, NEW junk, junk \subseteq Flags,
           NEW e, e = set_pi_code(d, new_code, junk)
    PROVE  /\ Tunes(d, e) /\ e.last_pi_code = new_code /\ "picode" \in e.events
           /\ d.last_pi_code = new_code => Serves(d, e) /\ e.chlist = d.chlist
           /\ e.curchind # d.curchind => {"picode", "pname", "rtxt", "lrtxt", "ptype"} \subseteq e.events
           /\ \A n \in DOMAIN d.chlist : SameAltFreqs(d, e, n)
           /\ \A n \in DOMAIN e.chlist \ DOMAIN d.chlist : e.chlist[n].PIcode = new_code
  <1>1. CASE d.last_pi_code = new_code
    <2>1. e = set_event(d, {"picode"})
      BY <1>1 DEF set_pi_code
    <2>2. Tunes(d, e) /\ Serves(d, e) /\ e.events = d.events \cup {"picode"} /\ e.chlist = d.chlist
      BY <2>1, EventsTune
    <2> QED BY <1>1, <2>2 DEF Serves, SameCurrent, SameAltFreqs
  <1>2. CASE d.last_pi_code # new_code
    <2> DEFINE cleared == ClearLists(d)
               known == KnownChannel(cleared, new_code, junk)
               told == set_event(known, ChannelEvents)
               ch == lookup_pi_code(known, new_code)
    <2>0. PICK other : other = [told EXCEPT !.curchind = ch, !.last_pi_code = new_code]
      OBVIOUS
    <2>1. e = set_event(other, {"picode"})
      BY <1>2, <2>0 DEF set_pi_code
    <2>2. /\ IsDecoder(cleared) /\ cleared.chlist = d.chlist /\ cleared.events = d.events
          /\ SameClock(d, cleared) /\ SameCurrent(d, cleared)
      <3>1. IsAltFreqList(AF!Cleared)
        BY BlankChannel
      <3> QED BY <3>1, ListsUnderWay DEF ClearLists
    <2>3. Tunes(d, cleared) /\ Serves(d, cleared)
      BY <2>2 DEF Tunes, Follows, SameTexts, SameLists, Serves, SameAltFreqs
    <2> HIDE DEF cleared
    <2>4. /\ Follows(cleared, known) /\ known.events = cleared.events
          /\ SameTexts(cleared, known) /\ SameLists(cleared, known)
          /\ SameClock(cleared, known) /\ SameCurrent(cleared, known)
          /\ \A n \in DOMAIN cleared.chlist : SameAltFreqs(cleared, known, n)
          /\ HasChannel(known, new_code)
          /\ \A n \in DOMAIN known.chlist \ DOMAIN cleared.chlist : known.chlist[n].PIcode = new_code
      BY <2>2, KnownChannelFacts
    <2>5. Tunes(cleared, known) /\ IsDecoder(known)
      BY <2>4 DEF Tunes, Follows
    <2> HIDE DEF known
    <2>6. ch \in DOMAIN known.chlist /\ known.chlist[ch].PIcode = new_code
      BY <2>4, <2>5, LookupFinds
    <2>7. /\ Tunes(known, told) /\ told.events = known.events \cup ChannelEvents
          /\ told.chlist = known.chlist /\ IsDecoder(told)
      BY <2>5, EventsTune DEF Tunes, Follows
    <2> HIDE DEF ch, told
    <2>8. /\ other.chlist = told.chlist /\ other.events = told.events
          /\ other.curchind = ch /\ other.last_pi_code = new_code
          /\ other.tmpAFlist = told.tmpAFlist /\ other.tmpEONAFlist = told.tmpEONAFlist
          /\ other.utc_datetime = told.utc_datetime /\ other.local_datetime = told.local_datetime
      BY <2>0, <2>7 DEF IsDecoder
    <2>9. other = [chlist |-> other.chlist, curchind |-> other.curchind,
                   last_pi_code |-> other.last_pi_code, events |-> other.events,
                   tmpAFlist |-> other.tmpAFlist, tmpEONAFlist |-> other.tmpEONAFlist,
                   utc_datetime |-> other.utc_datetime, local_datetime |-> other.local_datetime]
      BY <2>0, <2>7 DEF IsDecoder
    <2>10. IsDecoder(other)
      BY <2>6, <2>7, <2>8, <2>9 DEF IsDecoder
    <2>11. Tunes(told, other)
      BY <2>8, <2>10 DEF Tunes, Follows, SameTexts, SameLists, SameClock
    <2>12. /\ Tunes(other, e) /\ Serves(other, e) /\ e.events = other.events \cup {"picode"}
           /\ e.chlist = other.chlist
      BY <2>1, <2>10, EventsTune
    <2>13. Tunes(d, e)
      BY <2>3, <2>5, <2>7, <2>11, <2>12, TunesTransitive
    <2>14. e.last_pi_code = new_code
      BY <2>8, <2>12 DEF Serves, SameCurrent
    <2>15. {"picode", "pname", "rtxt", "lrtxt", "ptype"} \subseteq e.events
      BY <2>7, <2>8, <2>12 DEF ChannelEvents, NewCodeEvents
    <2>16. e.chlist = known.chlist
      BY <2>7, <2>8, <2>12
    <2>17. \A n \in DOMAIN d.chlist : SameAltFreqs(d, e, n)
      BY <2>2, <2>4, <2>16 DEF SameAltFreqs
    <2>18. \A n \in DOMAIN e.chlist \ DOMAIN d.chlist : e.chlist[n].PIcode = new_code
      BY <2>2, <2>4, <2>16
    <2> QED BY <1>2, <2>13, <2>14, <2>15, <2>17, <2>18
  <1> QED BY <1>1, <1>2

\* Members of a channel other than texts and lists.
LEMMA MemberSet ==
    ASSUME NEW d, IsDecoder(d), NEW n \in DOMAIN d.chlist,
           NEW ch, IsChannel(ch), ch.PIcode = d.chlist[n].PIcode,
           ch.radio_text = d.chlist[n].radio_text, ch.tmc_list = d.chlist[n].tmc_list,
           ch.AFlist = d.chlist[n].AFlist \/ n # d.curchind,
           NEW e, e = [d EXCEPT !.chlist = [d.chlist EXCEPT ![n] = ch]]
    PROVE  /\ Tunes(d, e) /\ Serves(d, e) /\ e.events = d.events
           /\ DOMAIN e.chlist = DOMAIN d.chlist
  <1>1. Replaced(d, e, n, ch) /\ e.events = d.events
    BY ChannelReplaced
  <1>2. Follows(d, e)
    BY <1>1, ReplacedFollows
  <1>3. d.curchind \in DOMAIN d.chlist
    BY DEF IsDecoder
  <1> QED BY <1>1, <1>2, <1>3
          DEF Replaced, Tunes, Serves, SameTexts, SameLists, SameAltFreqs

LEMMA FlagSet ==
    ASSUME NEW d, IsDecoder(d), NEW n \in DOMAIN d.chlist, NEW flag \in Flags, NEW new_state,
           NEW e, e = set_rds_flag(d, n, flag, new_state)
    PROVE  /\ Tunes(d, e) /\ Serves(d, e) /\ e.events = d.events \cup {"rflags"}
           /\ DOMAIN e.chlist = DOMAIN d.chlist
  <1>0. PICK old : old = d.chlist[n]
    OBVIOUS
  <1>1. PICK flags : flags = IF new_state THEN old.rds_flags \cup {flag} ELSE {}
    OBVIOUS
  <1>2. PICK ch : ch = [old EXCEPT !.rds_flags = flags]
    OBVIOUS
  <1>3. IsChannel(old)
    BY <1>0 DEF IsDecoder
  <1>4. flags \subseteq Flags
    BY <1>1, <1>3 DEF IsChannel
  <1>5. /\ ch.PIcode = old.PIcode /\ ch.radio_text = old.radio_text
        /\ ch.tmc_list = old.tmc_list /\ ch.AFlist = old.AFlist
        /\ ch.rds_flags = flags /\ ch.PTYcode = old.PTYcode
    BY <1>2, <1>3 DEF IsChannel
  <1>6. ch = [PIcode |-> ch.PIcode, PTYcode |-> ch.PTYcode, rds_flags |-> ch.rds_flags,
              program_name |-> ch.program_name, AFlist |-> ch.AFlist,
              radio_text |-> ch.radio_text, tmc_list |-> ch.tmc_list]
    BY <1>2, <1>3 DEF IsChannel
  <1>7. IsChannel(ch)
    BY <1>3, <1>4, <1>5, <1>6 DEF IsChannel
  <1>8. PICK c : c = [d EXCEPT !.chlist = [d.chlist EXCEPT ![n] = ch]]
    OBVIOUS
  <1>9. Tunes(d, c) /\ Serves(d, c) /\ c.events = d.events /\ DOMAIN c.chlist = DOMAIN d.chlist
    BY <1>0, <1>5, <1>7, <1>8, MemberSet
  <1>10. e = set_event(c, {"rflags"})
    BY <1>0, <1>1, <1>2, <1>8 DEF set_rds_flag
  <1>11. /\ Tunes(c, e) /\ Serves(c, e) /\ e.events = c.events \cup {"rflags"}
         /\ e.chlist = c.chlist
    BY <1>9, <1>10, EventsTune DEF Tunes, Follows
  <1> QED BY <1>9, <1>11, TunesTransitive

LEMMA PtyCodeSet ==
    ASSUME NEW d, IsDecoder(d), NEW n \in DOMAIN d.chlist, NEW new_code \in -1..31,
           NEW e, e = set_pty_code(d, n, new_code)
    PROVE  /\ Tunes(d, e) /\ Serves(d, e) /\ e.events = d.events \cup {"ptype"}
           /\ DOMAIN e.chlist = DOMAIN d.chlist
  <1>0. PICK old : old = d.chlist[n]
    OBVIOUS
  <1>2. PICK ch : ch = [old EXCEPT !.PTYcode = new_code]
    OBVIOUS
  <1>3. IsChannel(old)
    BY <1>0 DEF IsDecoder
  <1>5. /\ ch.PIcode = old.PIcode /\ ch.radio_text = old.radio_text
        /\ ch.tmc_list = old.tmc_list /\ ch.AFlist = old.AFlist
        /\ ch.rds_flags = old.rds_flags /\ ch.PTYcode = new_code
    BY <1>2, <1>3 DEF IsChannel
  <1>6. ch = [PIcode |-> ch.PIcode, PTYcode |-> ch.PTYcode, rds_flags |-> ch.rds_flags,
              program_name |-> ch.program_name, AFlist |-> ch.AFlist,
              radio_text |-> ch.radio_text, tmc_list |-> ch.tmc_list]
    BY <1>2, <1>3 DEF IsChannel
  <1>7. IsChannel(ch)
    BY <1>3, <1>5, <1>6 DEF IsChannel
  <1>8. PICK c : c = [d EXCEPT !.chlist = [d.chlist EXCEPT ![n] = ch]]
    OBVIOUS
  <1>9. Tunes(d, c) /\ Serves(d, c) /\ c.events = d.events /\ DOMAIN c.chlist = DOMAIN d.chlist
    BY <1>0, <1>5, <1>7, <1>8, MemberSet
  <1>10. e = set_event(c, {"ptype"})
    BY <1>0, <1>2, <1>8 DEF set_pty_code
  <1>11. /\ Tunes(c, e) /\ Serves(c, e) /\ e.events = c.events \cup {"ptype"}
         /\ e.chlist = c.chlist
    BY <1>9, <1>10, EventsTune DEF Tunes, Follows
  <1> QED BY <1>9, <1>11, TunesTransitive

LEMMA ProgNameSet ==
    ASSUME NEW d, IsDecoder(d), NEW n \in DOMAIN d.chlist, NEW seg, NEW name,
           NEW e, e = set_prog_name(d, n, seg, name)
    PROVE  Tunes(d, e) /\ Serves(d, e) /\ DOMAIN e.chlist = DOMAIN d.chlist
  <1>0. PICK old : old = d.chlist[n]
    OBVIOUS
  <1>1. PICK names : names = [old.program_name EXCEPT ![seg + 1] = name]
    OBVIOUS
  <1>2. PICK ch : ch = [old EXCEPT !.program_name = names]
    OBVIOUS
  <1>3. IsChannel(old)
    BY <1>0 DEF IsDecoder
  <1>5. /\ ch.PIcode = old.PIcode /\ ch.radio_text = old.radio_text
        /\ ch.tmc_list = old.tmc_list /\ ch.AFlist = old.AFlist
        /\ ch.rds_flags = old.rds_flags /\ ch.PTYcode = old.PTYcode
    BY <1>2, <1>3 DEF IsChannel
  <1>6. ch = [PIcode |-> ch.PIcode, PTYcode |-> ch.PTYcode, rds_flags |-> ch.rds_flags,
              program_name |-> ch.program_name, AFlist |-> ch.AFlist,
              radio_text |-> ch.radio_text, tmc_list |-> ch.tmc_list]
    BY <1>2, <1>3 DEF IsChannel
  <1>7. IsChannel(ch)
    BY <1>3, <1>5, <1>6 DEF IsChannel
  <1>8. PICK c : c = [d EXCEPT !.chlist = [d.chlist EXCEPT ![n] = ch]]
    OBVIOUS
  <1>9. Tunes(d, c) /\ Serves(d, c) /\ c.events = d.events /\ DOMAIN c.chlist = DOMAIN d.chlist
    BY <1>0, <1>5, <1>7, <1>8, MemberSet
  <1>10. PICK evnts : evnts = IF seg = 3 /\ n = d.curchind THEN {"pname"} ELSE {}
    OBVIOUS
  <1>11. c.curchind = d.curchind
    BY <1>9 DEF Serves, SameCurrent
  <1>12. e = set_event(c, evnts)
    BY <1>0, <1>1, <1>2, <1>8, <1>10 DEF set_prog_name
  <1>13. Tunes(c, e) /\ Serves(c, e) /\ e.chlist = c.chlist
    BY <1>9, <1>12, EventsTune DEF Tunes, Follows
  <1> QED BY <1>9, <1>13, TunesTransitive

-----------------------------------------------------------------------------
(* Alternative frequencies *)

\* A list with other members is a list, if its status is one.
LEMMA AltFreqMembers ==
    ASSUME NEW af, IsAltFreqList(af), NEW st \in {"EMPTY", "INCOMPLETE", "COMPLETE", "ERROR"},
           NEW first, NEW counter, NEW lfmf, NEW list
    PROVE  /\ IsAltFreqList([af EXCEPT !.status = st])
           /\ IsAltFreqList([af EXCEPT !.lfmf_follows = lfmf])
           /\ IsAltFreqList([af EXCEPT !.freq_counter = counter])
           /\ IsAltFreqList([af EXCEPT !.first_freq = first])
           /\ IsAltFreqList([af EXCEPT !.freq_list = list])
           /\ [af EXCEPT !.status = st].status = st
  BY DEF IsAltFreqList

LEMMA FreqAdded ==
    ASSUME NEW af, IsAltFreqList(af), NEW freq, NEW is_variant, NEW EONTNfreq
    PROVE  IsAltFreqList(AF!add_freq(af, freq, is_variant, EONTNfreq))
  <1>1. CASE af.freq_counter <= 0 /\ EONTNfreq <= 0
    <2>1. AF!add_freq(af, freq, is_variant, EONTNfreq) = [af EXCEPT !.status = "ERROR"]
      BY <1>1 DEF AF!add_freq
    <2> QED BY <2>1, AltFreqMembers
  <1>2. CASE ~(af.freq_counter <= 0 /\ EONTNfreq <= 0) /\ AF!Contains(af, freq, EONTNfreq)
    BY <1>2 DEF AF!add_freq
  <1>3. CASE ~(af.freq_counter <= 0 /\ EONTNfreq <= 0) /\ ~AF!Contains(af, freq, EONTNfreq)
    <2>1. PICK st \in {"COMPLETE", "INCOMPLETE"} :
             st = IF af.freq_counter = 1 THEN "COMPLETE" ELSE "INCOMPLETE"
      OBVIOUS
    <2>2. PICK list : list = Append(af.freq_list, [Freq |-> freq, IsVariant |-> is_variant,
                                                   EonTNMapped |-> EONTNfreq])
      OBVIOUS
    <2>3. AF!add_freq(af, freq, is_variant, EONTNfreq)
            = [af EXCEPT !.freq_list = list, !.freq_counter = @ - 1, !.status = st]
      BY <1>3, <2>1, <2>2 DEF AF!add_freq
    <2> QED BY <2>1, <2>3 DEF IsAltFreqList
  <1> QED BY <1>1, <1>2, <1>3

LEMMA FreqPairHandled ==
    ASSUME NEW af, IsAltFreqList(af), NEW b0, NEW b1
    PROVE  IsAltFreqList(AF!handle_freq_pair(af, b0, b1))
  <1>1. PICK f1 : f1 = AF!freq_in_khz(b0, af.lfmf_follows)
    OBVIOUS
  <1>2. PICK a1 : a1 = [af EXCEPT !.lfmf_follows = AF!LfmfFollows(b0, @)]
    OBVIOUS
  <1>3. PICK f2 : f2 = AF!freq_in_khz(b1, a1.lfmf_follows)
    OBVIOUS
  <1>4. PICK a2 : a2 = [a1 EXCEPT !.lfmf_follows = AF!LfmfFollows(b1, @)]
    OBVIOUS
  <1>5. IsAltFreqList(a1) /\ IsAltFreqList(a2)
    BY <1>2, <1>4, AltFreqMembers
  <1>6. IsAltFreqList(AF!MethodA(a2, f1, f2))
    <2>1. PICK a : a = IF f1 > 1 THEN AF!add_freq(a2, f1, FALSE, 0) ELSE a2
      OBVIOUS
    <2>2. IsAltFreqList(a)
      BY <1>5, <2>1, FreqAdded
    <2> QED BY <2>1, <2>2, FreqAdded DEF AF!MethodA
  <1>7. IsAltFreqList(AF!add_freq(a2, f2, f2 < f1, 0)) /\ IsAltFreqList(AF!add_freq(a2, f1, f2 < f1, 0))
    BY <1>5, FreqAdded
  <1>8. AF!handle_freq_pair(af, b0, b1) =
          CASE f1 < 0                             -> a1
            [] f1 >= 0 /\ f2 < 0                  -> a2
            [] f1 >= 0 /\ f2 >= 0 /\ f1 = af.first_freq
                                                  -> AF!add_freq(a2, f2, f2 < f1, 0)
            [] f1 >= 0 /\ f2 >= 0 /\ f1 # af.first_freq /\ f2 = af.first_freq
                                                  -> AF!add_freq(a2, f1, f2 < f1, 0)
            [] OTHER                              -> AF!MethodA(a2, f1, f2)
    BY <1>1, <1>2, <1>3, <1>4 DEF AF!handle_freq_pair
  <1> QED BY <1>5, <1>6, <1>7, <1>8

LEMMA ListOpened ==
    ASSUME NEW af, IsAltFreqList(af), NEW b0, NEW b1
    PROVE  IsAltFreqList(AF!OpenList(af, b0, b1))
  <1>1. PICK opened : opened = [af EXCEPT !.freq_counter = b0 - 224]
    OBVIOUS
  <1>2. PICK f : f = 100 * (b1 - 1) + 87600
    OBVIOUS
  <1>3. IsAltFreqList(opened)
    <2>1. PICK counter : counter = b0 - 224
      OBVIOUS
    <2>2. opened = [af EXCEPT !.freq_counter = counter]
      BY <1>1, <2>1
    <2> QED BY <2>2 DEF IsAltFreqList
  <1>4. IsAltFreqList([opened EXCEPT !.first_freq = f])
    BY <1>3, AltFreqMembers
  <1>5. IsAltFreqList(AF!add_freq([opened EXCEPT !.first_freq = f], f, FALSE, 0))
    BY <1>4, FreqAdded
  <1>6. IsAltFreqList([opened EXCEPT !.lfmf_follows = TRUE, !.status = "INCOMPLETE"])
    <2>1. PICK a : a = [opened EXCEPT !.lfmf_follows = TRUE, !.status = "INCOMPLETE"]
      OBVIOUS
    <2>2. IsAltFreqList(a)
      BY <1>3, <2>1 DEF IsAltFreqList
    <2> QED BY <2>1, <2>2
  <1>7. AF!OpenList(af, b0, b1) =
          CASE b0 \notin 224..249 -> [af EXCEPT !.status = "ERROR"]
            [] b0 = 224           -> [opened EXCEPT !.status = "COMPLETE"]
            [] b0 \in 225..249 /\ b1 = 250 ->
                  [opened EXCEPT !.lfmf_follows = TRUE, !.status = "INCOMPLETE"]
            [] b0 \in 225..249 /\ b1 \in 1..204 ->
                  AF!add_freq([opened EXCEPT !.first_freq = f], f, FALSE, 0)
            [] OTHER              -> [opened EXCEPT !.status = "ERROR"]
    BY <1>1, <1>2 DEF AF!OpenList
  <1>8. /\ IsAltFreqList([af EXCEPT !.status = "ERROR"])
        /\ IsAltFreqList([opened EXCEPT !.status = "COMPLETE"])
        /\ IsAltFreqList([opened EXCEPT !.status = "ERROR"])
    BY <1>3, AltFreqMembers
  <1> QED BY <1>5, <1>6, <1>7, <1>8

LEMMA AltFreqGroupAdded ==
    ASSUME NEW af, IsAltFreqList(af), NEW b0, NEW b1
    PROVE  IsAltFreqList(AF!AddGroup(af, b0, b1))
  <1>1. /\ af.status = "EMPTY" => AF!AddGroup(af, b0, b1) = AF!OpenList(af, b0, b1)
        /\ af.status = "INCOMPLETE" => AF!AddGroup(af, b0, b1) = AF!handle_freq_pair(af, b0, b1)
        /\ af.status = "ERROR" => AF!AddGroup(af, b0, b1) = AF!Cleared
        /\ af.status = "COMPLETE" => AF!AddGroup(af, b0, b1) = [af EXCEPT !.status = "ERROR"]
    BY DEF AF!AddGroup
  <1>2. IsAltFreqList(AF!Cleared)
    BY DEF IsAltFreqList, AF!Cleared
  <1>3. af.status \in {"EMPTY", "INCOMPLETE", "COMPLETE", "ERROR"}
    BY DEF IsAltFreqList
  <1>4. IsAltFreqList([af EXCEPT !.status = "ERROR"])
    BY AltFreqMembers
  <1> QED BY <1>1, <1>2, <1>3, <1>4, FreqPairHandled, ListOpened

LEMMA MappedGroupAdded ==
    ASSUME NEW af, IsAltFreqList(af), NEW vtype, NEW b0, NEW b1
    PROVE  /\ IsAltFreqList(AF!AddMappedGroup(af, vtype, b0, b1))
           /\ AF!AddMappedGroup(af, vtype, b0, b1).status = "COMPLETE"
  <1>1. PICK EONf : EONf = AF!freq_in_khz(b0, af.lfmf_follows)
    OBVIOUS
  <1>2. PICK lfmf : lfmf = (vtype = 9 \/ AF!LfmfFollows(b0, af.lfmf_follows))
    OBVIOUS
  <1>3. PICK f : f = AF!freq_in_khz(b1, lfmf)
    OBVIOUS
  <1>4. PICK a : a = [af EXCEPT !.lfmf_follows = AF!LfmfFollows(b1, lfmf)]
    OBVIOUS
  <1>5. PICK g : g = AF!add_freq(a, f, FALSE, EONf)
    OBVIOUS
  <1>6. AF!AddMappedGroup(af, vtype, b0, b1) = [g EXCEPT !.status = "COMPLETE"]
    BY <1>1, <1>2, <1>3, <1>4, <1>5 DEF AF!AddMappedGroup
  <1>7. IsAltFreqList(a)
    BY Zenon, <1>4, AltFreqMembers
  <1>8. IsAltFreqList(g)
    BY Zenon, <1>5, <1>7, FreqAdded
  <1>9. IsAltFreqList([g EXCEPT !.status = "COMPLETE"])
    BY <1>8, AltFreqMembers
  <1>10. [g EXCEPT !.status = "COMPLETE"].status = "COMPLETE"
    BY <1>8 DEF IsAltFreqList
  <1> QED BY Zenon, <1>6, <1>9, <1>10

LEMMA ListUnderWay ==
    ASSUME NEW d, IsDecoder(d), NEW af, IsAltFreqList(af), NEW e,
           e = [d EXCEPT !.tmpAFlist = af] \/ e = [d EXCEPT !.tmpEONAFlist = af]
    PROVE  Tunes(d, e) /\ Serves(d, e) /\ e.chlist = d.chlist
  <1>1. PICK own : own = d.tmpAFlist
    OBVIOUS
  <1>2. PICK eon : eon = d.tmpEONAFlist
    OBVIOUS
  <1>3. IsAltFreqList(own) /\ IsAltFreqList(eon)
    BY <1>1, <1>2 DEF IsDecoder
  <1>4. \/ e = [d EXCEPT !.tmpAFlist = af, !.tmpEONAFlist = eon]
        \/ e = [d EXCEPT !.tmpAFlist = own, !.tmpEONAFlist = af]
    <2>1. CASE e = [d EXCEPT !.tmpAFlist = af]
      BY <1>2, <2>1 DEF IsDecoder
    <2>2. CASE e = [d EXCEPT !.tmpEONAFlist = af]
      BY <1>1, <2>2 DEF IsDecoder
    <2> QED BY <2>1, <2>2
  <1>5. /\ IsDecoder(e) /\ e.chlist = d.chlist /\ e.events = d.events
        /\ SameClock(d, e) /\ SameCurrent(d, e)
    BY <1>3, <1>4, ListsUnderWay
  <1> QED BY <1>5 DEF Tunes, Follows, SameTexts, SameLists, Serves, SameAltFreqs

\* A channel gets a list of alternative frequencies.
LEMMA AltFreqListSet ==
    ASSUME NEW d, IsDecoder(d), NEW n \in DOMAIN d.chlist,
           NEW af, IsAltFreqList(af), af.status = "COMPLETE",
           NEW e, e = [d EXCEPT !.chlist[n].AFlist = af]
    PROVE  /\ Tunes(d, e) /\ SameCurrent(d, e) /\ e.events = d.events
           /\ DOMAIN e.chlist = DOMAIN d.chlist
           /\ n # d.curchind => Serves(d, e)
  <1>0. PICK old : old = d.chlist[n]
    OBVIOUS
  <1>1. PICK ch : ch = [old EXCEPT !.AFlist = af]
    OBVIOUS
  <1>2. IsChannel(old)
    BY <1>0 DEF IsDecoder
  <1>3. /\ ch.PIcode = old.PIcode /\ ch.radio_text = old.radio_text
        /\ ch.tmc_list = old.tmc_list /\ ch.AFlist = af
        /\ ch.rds_flags = old.rds_flags /\ ch.PTYcode = old.PTYcode
    BY <1>1, <1>2 DEF IsChannel
  <1>4. ch = [PIcode |-> ch.PIcode, PTYcode |-> ch.PTYcode, rds_flags |-> ch.rds_flags,
              program_name |-> ch.program_name, AFlist |-> ch.AFlist,
              radio_text |-> ch.radio_text, tmc_list |-> ch.tmc_list]
    BY <1>1, <1>2 DEF IsChannel
  <1>5. IsChannel(ch)
    BY <1>2, <1>3, <1>4 DEF IsChannel
  <1>6. e = [d EXCEPT !.chlist = [d.chlist EXCEPT ![n] = ch]]
    BY <1>0, <1>1
  <1>7. Replaced(d, e, n, ch) /\ e.events = d.events
    BY <1>0, <1>3, <1>5, <1>6, ChannelReplaced
  <1>8. Follows(d, e)
    BY <1>0, <1>3, <1>7, ReplacedFollows
  <1>9. Tunes(d, e)
    BY <1>0, <1>3, <1>7, <1>8 DEF Replaced, Tunes, SameTexts, SameLists
  <1>10. n # d.curchind => Serves(d, e)
    <2>1. d.curchind \in DOMAIN d.chlist
      BY DEF IsDecoder
    <2> QED BY <1>7, <2>1 DEF Replaced, Serves, SameAltFreqs
  <1> QED BY <1>7, <1>9, <1>10 DEF Replaced

LEMMA AltFreqAdded ==
    ASSUME NEW d, IsDecoder(d), NEW b0, NEW b1, NEW e, e = AddAltFreq(d, b0, b1)
    PROVE  /\ Tunes(d, e) /\ SameCurrent(d, e)
           /\ Serves(d, e) \/ "aflist" \in e.events
  <1>1. PICK af : af = AF!AddGroup(d.tmpAFlist, b0, b1)
    OBVIOUS
  <1>2. IsAltFreqList(af) /\ IsAltFreqList(AF!Cleared)
    BY <1>1, AltFreqGroupAdded, BlankChannel DEF IsDecoder
  <1>3. CASE af.status = "ERROR"
    <2>1. e = [d EXCEPT !.tmpAFlist = AF!Cleared]
      BY <1>1, <1>3 DEF AddAltFreq
    <2> QED BY <1>2, <2>1, ListUnderWay DEF Serves
  <1>4. CASE af.status = "COMPLETE"
    <2>1. PICK c : c = [d EXCEPT !.chlist[d.curchind].AFlist = af]
      OBVIOUS
    <2>2. PICK f : f = [c EXCEPT !.tmpAFlist = AF!Cleared]
      OBVIOUS
    <2>3. e = set_event(f, {"aflist"})
      BY <1>1, <1>4, <2>1, <2>2 DEF AddAltFreq
    <2>4. Tunes(d, c) /\ SameCurrent(d, c) /\ IsDecoder(c)
      <3>1. d.curchind \in DOMAIN d.chlist
        BY DEF IsDecoder
      <3>2. PICK n \in DOMAIN d.chlist : n = d.curchind
        BY <3>1
      <3>3. c = [d EXCEPT !.chlist[n].AFlist = af]
        BY <2>1, <3>2
      <3> QED BY <1>2, <1>4, <3>3, AltFreqListSet DEF Tunes, Follows
    <2>5. Tunes(c, f) /\ Serves(c, f) /\ IsDecoder(f)
      BY <1>2, <2>2, <2>4, ListUnderWay DEF Tunes, Follows
    <2>6. Tunes(f, e) /\ Serves(f, e) /\ e.events = f.events \cup {"aflist"}
      BY <2>3, <2>5, EventsTune
    <2>7. Tunes(d, e)
      BY <2>4, <2>5, <2>6, TunesTransitive
    <2> QED BY <2>4, <2>5, <2>6, <2>7 DEF Serves, SameCurrent
  <1>5. CASE af.status \notin {"ERROR", "COMPLETE"}
    <2>1. e = [d EXCEPT !.tmpAFlist = af]
      BY <1>1, <1>5 DEF AddAltFreq
    <2> QED BY <1>2, <2>1, ListUnderWay DEF Serves
  <1> QED BY <1>3, <1>4, <1>5

LEMMA OtherAltFreqAdded ==
    ASSUME NEW d, IsDecoder(d), NEW n \in DOMAIN d.chlist, n # d.curchind,
           NEW b0, NEW b1, NEW e, e = AddOtherAltFreq(d, n, b0, b1)
    PROVE  Tunes(d, e) /\ Serves(d, e)
  <1>1. PICK af : af = AF!AddGroup(d.tmpEONAFlist, b0, b1)
    OBVIOUS
  <1>2. IsAltFreqList(af) /\ IsAltFreqList(AF!Cleared)
    BY <1>1, AltFreqGroupAdded, BlankChannel DEF IsDecoder
  <1>3. CASE af.status = "ERROR"
    <2>1. e = [d EXCEPT !.tmpEONAFlist = AF!Cleared]
      BY <1>1, <1>3 DEF AddOtherAltFreq
    <2> QED BY <1>2, <2>1, ListUnderWay
  <1>4. CASE af.status = "COMPLETE"
    <2>1. PICK c : c = [d EXCEPT !.chlist[n].AFlist = af]
      OBVIOUS
    <2>2. e = [c EXCEPT !.tmpEONAFlist = AF!Cleared]
      BY <1>1, <1>4, <2>1 DEF AddOtherAltFreq
    <2>3. Tunes(d, c) /\ Serves(d, c) /\ IsDecoder(c)
      BY <1>2, <1>4, <2>1, AltFreqListSet DEF Tunes, Follows
    <2>4. Tunes(c, e) /\ Serves(c, e)
      BY <1>2, <2>2, <2>3, ListUnderWay
    <2> QED BY <2>3, <2>4, TunesTransitive
  <1>5. CASE af.status \notin {"ERROR", "COMPLETE"}
    <2>1. e = [d EXCEPT !.tmpEONAFlist = af]
      BY <1>1, <1>5 DEF AddOtherAltFreq
    <2> QED BY <1>2, <2>1, ListUnderWay
  <1> QED BY <1>3, <1>4, <1>5

-----------------------------------------------------------------------------
(* The groups that concern neither texts nor TMC messages *)

\* The code, the flag TP and the program type: always announced.
LEMMA CommonFacts ==
    ASSUME NEW d, IsDecoder(d), NEW g, g.pty \in -1..31, NEW junk, junk \subseteq Flags,
           NEW e, e = Common(d, g, junk)
    PROVE  /\ Tunes(d, e) /\ e.last_pi_code = g.pi
           /\ {"picode", "ptype", "rflags"} \subseteq e.events
           /\ e.curchind # d.curchind => {"pname", "rtxt", "lrtxt"} \subseteq e.events
           /\ e.curchind = d.curchind => SameAltFreqs(d, e, d.curchind)
  <1>1. PICK d1 : d1 = set_pi_code(d, g.pi, junk)
    OBVIOUS
  <1>2. PICK d2 : d2 = set_rds_flag(d1, d1.curchind, "TP", g.tp)
    OBVIOUS
  <1>3. e = set_pty_code(d2, d1.curchind, g.pty)
    BY <1>1, <1>2 DEF Common
  <1>4. /\ Tunes(d, d1) /\ d1.last_pi_code = g.pi /\ "picode" \in d1.events
        /\ d1.curchind # d.curchind => {"picode", "pname", "rtxt", "lrtxt", "ptype"} \subseteq d1.events
        /\ \A n \in DOMAIN d.chlist : SameAltFreqs(d, d1, n)
    BY <1>1, PiCodeSet
  <1>5. IsDecoder(d1)
    BY <1>4 DEF Tunes, Follows
  <1>6. PICK n \in DOMAIN d1.chlist : n = d1.curchind
    BY <1>5 DEF IsDecoder
  <1>7. "TP" \in Flags
    BY DEF Flags
  <1>8. /\ Tunes(d1, d2) /\ Serves(d1, d2) /\ d2.events = d1.events \cup {"rflags"}
        /\ DOMAIN d2.chlist = DOMAIN d1.chlist
    BY <1>2, <1>5, <1>6, <1>7, FlagSet
  <1>9. IsDecoder(d2) /\ n \in DOMAIN d2.chlist
    BY <1>6, <1>8 DEF Tunes, Follows
  <1>10. Tunes(d2, e) /\ Serves(d2, e) /\ e.events = d2.events \cup {"ptype"}
    <2>1. e = set_pty_code(d2, n, g.pty)
      BY <1>3, <1>6
    <2> QED BY <1>9, <2>1, PtyCodeSet
  <1>11. Tunes(d1, e) /\ Serves(d1, e)
    BY <1>8, <1>10, TunesTransitive
  <1>12. Tunes(d, e)
    BY <1>4, <1>11, TunesTransitive
  <1>13. e.curchind = d1.curchind /\ e.last_pi_code = g.pi /\ SameAltFreqs(d1, e, d1.curchind)
    BY <1>4, <1>11 DEF Serves, SameCurrent
  <1>14. d.curchind \in DOMAIN d.chlist
    BY DEF IsDecoder
  <1>15. {"picode", "ptype", "rflags"} \subseteq e.events
    BY <1>4, <1>8, <1>10
  <1>16. e.curchind # d.curchind => {"pname", "rtxt", "lrtxt"} \subseteq e.events
    BY <1>4, <1>8, <1>10, <1>13
  <1>17. e.curchind = d.curchind => SameAltFreqs(d, e, d.curchind)
    BY <1>4, <1>13, <1>14 DEF SameAltFreqs
  <1> QED BY <1>12, <1>13, <1>15, <1>16, <1>17

LEMMA BasicTuningFacts ==
    ASSUME NEW d, IsDecoder(d), NEW g, g.seg \in 0..3, NEW e, e = BasicTuning(d, g)
    PROVE  Tunes(d, e) /\ SameCurrent(d, e) /\ (Serves(d, e) \/ "aflist" \in e.events)
  <1>1. PICK n \in DOMAIN d.chlist : n = d.curchind
    BY DEF IsDecoder
  <1>2. PICK d0 : d0 = set_rds_flag(d, n, "TA", g.ta)
    OBVIOUS
  <1>3. PICK d1 : d1 = set_rds_flag(d0, n, "MUSIC", g.music)
    OBVIOUS
  <1>4. PICK d2 : d2 = set_prog_name(d1, n, g.seg, g.name)
    OBVIOUS
  <1>5. PICK flag \in Flags : flag = DecoderFlag[g.seg + 1]
    <2>1. g.seg + 1 \in 1..4
      OBVIOUS
    <2>2. \A k \in 1..4 : DecoderFlag[k] \in Flags
      BY DEF DecoderFlag, Flags
    <2> QED BY <2>1, <2>2
  <1>6. PICK d3 : d3 = set_rds_flag(d2, n, flag, g.di)
    OBVIOUS
  <1>7. e = IF g.type = "0A" THEN AddAltFreq(d3, g.af[1], g.af[2]) ELSE d3
    BY <1>1, <1>2, <1>3, <1>4, <1>5, <1>6 DEF BasicTuning
  <1>8. "TA" \in Flags /\ "MUSIC" \in Flags
    BY DEF Flags
  <1>9. Tunes(d, d0) /\ Serves(d, d0) /\ DOMAIN d0.chlist = DOMAIN d.chlist /\ IsDecoder(d0)
    BY <1>2, <1>8, FlagSet DEF Tunes, Follows
  <1>10. Tunes(d0, d1) /\ Serves(d0, d1) /\ DOMAIN d1.chlist = DOMAIN d.chlist /\ IsDecoder(d1)
    BY <1>3, <1>8, <1>9, FlagSet DEF Tunes, Follows
  <1>11. Tunes(d1, d2) /\ Serves(d1, d2) /\ DOMAIN d2.chlist = DOMAIN d.chlist /\ IsDecoder(d2)
    BY <1>4, <1>10, ProgNameSet DEF Tunes, Follows
  <1>12. Tunes(d2, d3) /\ Serves(d2, d3) /\ IsDecoder(d3)
    BY <1>6, <1>11, FlagSet DEF Tunes, Follows
  <1>13. Tunes(d, d1) /\ Serves(d, d1)
    BY <1>9, <1>10, TunesTransitive
  <1>14. Tunes(d, d2) /\ Serves(d, d2)
    BY <1>11, <1>13, TunesTransitive
  <1>15. Tunes(d, d3) /\ Serves(d, d3)
    BY <1>12, <1>14, TunesTransitive
  <1>16. CASE g.type = "0A"
    <2>1. e = AddAltFreq(d3, g.af[1], g.af[2])
      BY <1>7, <1>16
    <2>2. Tunes(d3, e) /\ SameCurrent(d3, e) /\ (Serves(d3, e) \/ "aflist" \in e.events)
      BY <1>12, <2>1, AltFreqAdded
    <2>3. Tunes(d, e) /\ (Serves(d, e) \/ "aflist" \in e.events)
      BY <1>15, <2>2, TunesTransitive
    <2> QED BY <1>15, <2>2, <2>3 DEF Serves, SameCurrent
  <1>17. CASE g.type # "0A"
    BY <1>7, <1>15, <1>17 DEF Serves
  <1> QED BY <1>16, <1>17

\* Groups about another network leave the channel alone that is served.
LEMMA OtherNetworkFacts ==
    ASSUME NEW d, IsDecoder(d), NEW g, g.pio # d.last_pi_code, TopFive(g.pio) \in -1..31,
           g.type \in {"14A", "14B"},
           NEW junk, junk \subseteq Flags, NEW e, e = OtherNetwork(d, g, junk)
    PROVE  Tunes(d, e) /\ Serves(d, e)
  <1>1. PICK d0 : d0 = KnownChannel(d, g.pio, junk)
    OBVIOUS
  <1>2. /\ Tunes(d, d0) /\ Serves(d, d0) /\ IsDecoder(d0) /\ HasChannel(d0, g.pio)
    <2>1. d.curchind \in DOMAIN d.chlist
      BY DEF IsDecoder
    <2> QED BY <1>1, <2>1, KnownChannelFacts DEF Tunes, Follows, Serves
  <1>3. PICK n \in DOMAIN d0.chlist : n = lookup_pi_code(d0, g.pio) /\ d0.chlist[n].PIcode = g.pio
    BY <1>2, LookupFinds
  <1>4. n # d0.curchind
    BY <1>2, <1>3 DEF Serves, SameCurrent, IsDecoder
  <1>5. PICK d1 : d1 = set_rds_flag(d0, n, "TP", Bit(4, g.low))
    OBVIOUS
  <1>6. "TA" \in Flags /\ "TP" \in Flags
    BY DEF Flags
  <1>7. /\ Tunes(d0, d1) /\ Serves(d0, d1) /\ DOMAIN d1.chlist = DOMAIN d0.chlist
        /\ IsDecoder(d1) /\ n \in DOMAIN d1.chlist
    BY <1>2, <1>5, <1>6, FlagSet DEF Tunes, Follows
  <1>8. Tunes(d, d1) /\ Serves(d, d1)
    BY <1>2, <1>7, TunesTransitive
  <1>9. n # d1.curchind
    BY <1>4, <1>7 DEF Serves, SameCurrent
  <1>10. Tunes(d1, e) /\ Serves(d1, e)
    <2>1. CASE g.type = "14B"
      <3>1. e = set_rds_flag(d1, n, "TA", Bit(3, g.low))
        BY <1>1, <1>3, <1>5, <2>1 DEF OtherNetwork
      <3> QED BY <1>6, <1>7, <3>1, FlagSet
    <2>2. CASE g.type = "14A" /\ g.variant \in 0..3
      <3>1. e = set_prog_name(d1, n, g.variant, g.name)
        BY <1>1, <1>3, <1>5, <2>2 DEF OtherNetwork
      <3> QED BY <1>7, <3>1, ProgNameSet
    <2>3. CASE g.type = "14A" /\ g.variant = 4
      <3>1. e = AddOtherAltFreq(d1, n, g.af[1], g.af[2])
        BY <1>1, <1>3, <1>5, <2>3 DEF OtherNetwork
      <3> QED BY <1>7, <1>9, <3>1, OtherAltFreqAdded
    <2>4. CASE g.type = "14A" /\ g.variant \in 5..9
      <3>1. PICK af : af = AF!AddMappedGroup(d1.chlist[n].AFlist, g.variant, g.af[1], g.af[2])
        OBVIOUS
      <3>2. e = [d1 EXCEPT !.chlist[n].AFlist = af]
        <4>1. g.type # "14B" /\ g.variant \notin 0..3 /\ g.variant # 4
          BY <2>4
        <4> QED BY <1>1, <1>3, <1>5, <2>4, <3>1, <4>1 DEF OtherNetwork
      <3>3. IsAltFreqList(af) /\ af.status = "COMPLETE"
        <4>1. IsAltFreqList(d1.chlist[n].AFlist)
          BY <1>7 DEF IsDecoder, IsChannel
        <4> QED BY <3>1, <4>1, MappedGroupAdded
      <3> QED BY <1>7, <1>9, <3>2, <3>3, AltFreqListSet
    <2>5. CASE g.type = "14A" /\ g.variant = 13
      <3>0. PICK code \in -1..31 : code = TopFive(g.pio)
        OBVIOUS
      <3>1. PICK d2 : d2 = set_pty_code(d1, n, code)
        OBVIOUS
      <3>2. e = set_rds_flag(d2, n, "TA", Bit(0, g.pio))
        BY <1>1, <1>3, <1>5, <2>5, <3>0, <3>1 DEF OtherNetwork
      <3>3. Tunes(d1, d2) /\ Serves(d1, d2) /\ IsDecoder(d2) /\ n \in DOMAIN d2.chlist
        <4>1. Tunes(d1, d2) /\ Serves(d1, d2) /\ DOMAIN d2.chlist = DOMAIN d1.chlist
          BY <1>7, <3>1, PtyCodeSet
        <4> QED BY <1>7, <4>1 DEF Tunes, Follows
      <3>4. Tunes(d2, e) /\ Serves(d2, e)
        BY <1>6, <3>2, <3>3, FlagSet
      <3> QED BY <3>3, <3>4, TunesTransitive
    <2>6. CASE g.type = "14A" /\ g.variant \notin (0..9) \cup {13}
      <3>1. e = d1
        BY <1>1, <1>3, <1>5, <2>6 DEF OtherNetwork
      <3> QED BY <1>7, <3>1, TunesReflexive
    <2> QED BY <2>1, <2>2, <2>3, <2>4, <2>5, <2>6
  <1> QED BY <1>8, <1>10, TunesTransitive

-----------------------------------------------------------------------------
(* Radio text *)

\* A buffer of blank cells and of characters of these texts.
CellsRight(rt, pi, texts) ==
    \A p \in DOMAIN rt.RTbuffer :
        \/ rt.RTbuffer[p] = RT!Blank
        \/ \E t \in texts : /\ rt.ABflag = (t % 2 = 1)
                             /\ rt.RTbuffer[p].Char = CharacterAt(pi, t, p)

LEMMA JoinedFacts ==
    ASSUME NEW texts \in HeardSets, NEW t \in 0..MaxText, NEW all, all = Joined(texts, t)
    PROVE  all \in HeardSets /\ t \in all
  <1>1. all \subseteq 0..MaxText /\ t \in all
    BY DEF Joined, HeardSets
  <1>2. ASSUME NEW h \in all, NEW k \in all PROVE h % 2 = k % 2
    <2>1. CASE \A j \in texts : j % 2 = t % 2
      <3>1. \A j \in texts \cup {t} : j % 2 = t % 2
        BY <2>1
      <3>2. all = texts \cup {t}
        BY <2>1 DEF Joined
      <3> QED BY <3>1, <3>2
    <2>2. CASE ~\A j \in texts : j % 2 = t % 2
      <3>1. all = {t}
        BY <2>2 DEF Joined
      <3> QED BY <3>1
    <2> QED BY <2>1, <2>2
  <1> QED BY <1>1, <1>2 DEF HeardSets

LEMMA ZeroedFacts ==
    ASSUME NEW n \in Nat, NEW buf, buf = RT!Zeroed(n)
    PROVE  /\ IsSeq(buf) /\ DOMAIN buf = 1..n /\ Len(buf) = n
           /\ \A p \in DOMAIN buf : buf[p] = RT!Blank /\ IsCell(buf[p])
  <1>1. DOMAIN buf = 1..n /\ \A p \in 1..n : buf[p] = RT!Blank
    BY DEF RT!Zeroed
  <1>2. buf \in Seq({RT!Blank}) /\ Len(buf) = n
    BY DEF RT!Zeroed
  <1>3. IsCell(RT!Blank)
    BY DEF IsCell, RT!Blank
  <1> QED BY <1>1, <1>2, <1>3, SeqIsSeq

\* A change of the flag empties the buffer; without one the text joins those
\* heard before.
LEMMA FlagHeard ==
    ASSUME NEW rt, IsText(rt), NEW pi, NEW texts \in HeardSets, NEW t \in 0..MaxText,
           NEW ab, ab = (t % 2 = 1), CellsRight(rt, pi, texts),
           NEW r, r = RT!NewABflag(rt, ab), NEW all, all = Joined(texts, t)
    PROVE  /\ IsText(r) /\ CellsRight(r, pi, all) /\ r.ABflag = ab
           /\ r.last_radio_text = rt.last_radio_text
  <1>1. CASE rt.ABflag = ab
    <2>1. r = rt
      BY <1>1 DEF RT!NewABflag
    <2>2. CellsRight(rt, pi, all)
      <3> SUFFICES ASSUME NEW p \in DOMAIN rt.RTbuffer, rt.RTbuffer[p] # RT!Blank
                   PROVE  \E h \in all : /\ rt.ABflag = (h % 2 = 1)
                                         /\ rt.RTbuffer[p].Char = CharacterAt(pi, h, p)
        BY DEF CellsRight
      <3>1. PICK h \in texts : /\ rt.ABflag = (h % 2 = 1)
                               /\ rt.RTbuffer[p].Char = CharacterAt(pi, h, p)
        BY DEF CellsRight
      <3>2. h \in Nat /\ \A k \in texts : k \in Nat /\ k % 2 = h % 2
        BY DEF HeardSets
      <3>3. (h % 2 = 1) <=> (t % 2 = 1)
        BY <1>1, <3>1
      <3>4. h % 2 = t % 2
        BY <3>2, <3>3
      <3>5. \A k \in texts : k % 2 = t % 2
        BY <3>2, <3>4
      <3>6. h \in all
        BY <3>5 DEF Joined
      <3> QED BY <3>1, <3>6
    <2> QED BY <1>1, <2>1, <2>2
  <1>2. CASE rt.ABflag # ab
    <2>1. PICK n \in Nat : n = Len(rt.RTbuffer)
      BY IsSeqDomain DEF IsText
    <2>2. PICK buf : buf = RT!Zeroed(n)
      OBVIOUS
    <2>3. r = [[rt EXCEPT !.ABflag = ab] EXCEPT !.RTbuffer = buf, !.status = "EMPTY"]
      BY <1>2, <2>1, <2>2 DEF RT!NewABflag, RT!zero_RTbuffer, IsText
    <2>4. /\ r.RTbuffer = buf /\ r.type = rt.type /\ r.ABflag = ab
          /\ r.last_radio_text = rt.last_radio_text
      BY <2>3 DEF IsText
    <2>5. r = [status |-> r.status, type |-> r.type, ABflag |-> r.ABflag,
               RTbuffer |-> r.RTbuffer, last_radio_text |-> r.last_radio_text]
      BY <2>3 DEF IsText
    <2>6. /\ IsSeq(buf) /\ Len(buf) = n
          /\ \A p \in DOMAIN buf : buf[p] = RT!Blank /\ IsCell(buf[p])
      BY <2>2, ZeroedFacts
    <2>7. IsText(r)
      BY <2>1, <2>4, <2>5, <2>6 DEF IsText
    <2>8. CellsRight(r, pi, all)
      BY <2>4, <2>6 DEF CellsRight
    <2> QED BY <2>4, <2>7, <2>8
  <1> QED BY <1>1, <1>2

LEMMA TypeHeard ==
    ASSUME NEW rt, IsText(rt), NEW pi, NEW texts, CellsRight(rt, pi, texts), NEW type \in {"2A", "2B"},
           NEW r, r = RT!set_type(rt, type)
    PROVE  /\ IsText(r) /\ CellsRight(r, pi, texts) /\ r.ABflag = rt.ABflag /\ r.type = type
           /\ r.last_radio_text = rt.last_radio_text
  <1>1. CASE rt.type = type
    BY <1>1 DEF RT!set_type
  <1>2. CASE rt.type # type
    <2>1. PICK n \in Nat : n = Segments * RT!Width(type)
      BY DecoderAssumption DEF RT!Width
    <2>2. n = IF type = "2A" THEN 4 * Segments ELSE 2 * Segments
      BY <2>1, DecoderAssumption DEF RT!Width
    <2>3. PICK buf : buf = RT!Zeroed(n)
      OBVIOUS
    <2>4. r = [rt EXCEPT !.type = type, !.status = "EMPTY", !.RTbuffer = buf]
      BY <1>2, <2>1, <2>3 DEF RT!set_type
    <2>5. /\ r.RTbuffer = buf /\ r.type = type /\ r.ABflag = rt.ABflag
          /\ r.last_radio_text = rt.last_radio_text
      BY <2>4 DEF IsText
    <2>6. r = [status |-> r.status, type |-> r.type, ABflag |-> r.ABflag,
               RTbuffer |-> r.RTbuffer, last_radio_text |-> r.last_radio_text]
      BY <2>4 DEF IsText
    <2>7. /\ IsSeq(buf) /\ Len(buf) = n
          /\ \A p \in DOMAIN buf : buf[p] = RT!Blank /\ IsCell(buf[p])
      BY <2>3, ZeroedFacts
    <2>8. IsText(r)
      BY <2>2, <2>5, <2>6, <2>7 DEF IsText
    <2>9. CellsRight(r, pi, texts)
      BY <2>5, <2>7 DEF CellsRight
    <2> QED BY <2>5, <2>8, <2>9
  <1> QED BY <1>1, <1>2

LEMMA FunctionIsSeq ==
    ASSUME NEW n \in Nat, NEW f, NEW s, s = [p \in 1..n |-> f[p]]
    PROVE  IsSeq(s) /\ DOMAIN s = 1..n /\ Len(s) = n
  <1>1. s \in Seq({f[p] : p \in 1..n}) /\ DOMAIN s = 1..n /\ Len(s) = n
    OBVIOUS
  <1> QED BY <1>1, SeqIsSeq

LEMMA CountedFacts ==
    ASSUME NEW cell, IsCell(cell), NEW char, NEW c, c = RT!Counted(cell, char)
    PROVE  IsCell(c) /\ c.Char = char
  <1>1. PICK n \in Int : n = CASE cell.Counter = 0 \/ cell.Char # char -> 1
                               [] cell.Counter = CHAR_MAX /\ cell.Char = char -> -CHAR_MAX - 1
                               [] OTHER -> cell.Counter + 1
    <2>1. cell.Counter \in Int /\ CHAR_MAX \in Int /\ CHAR_MAX # 0
      BY DecoderAssumption DEF IsCell
    <2> QED BY <2>1
  <1>2. c = [Char |-> char, Counter |-> n]
    BY <1>1 DEF RT!Counted
  <1> QED BY <1>2 DEF IsCell

LEMMA CharsHeard ==
    ASSUME NEW rt, IsText(rt), NEW pi, NEW texts, CellsRight(rt, pi, texts),
           NEW t \in texts, rt.ABflag = (t % 2 = 1),
           NEW first, NEW chars, \A k \in DOMAIN chars : chars[k] = CharacterAt(pi, t, first + k),
           DOMAIN chars \subseteq Int, first \in Int,
           NEW r, r = RT!SetChars(rt, first, chars)
    PROVE  /\ IsText(r) /\ CellsRight(r, pi, texts) /\ r.last_radio_text = rt.last_radio_text
           /\ Len(r.RTbuffer) = Len(rt.RTbuffer) /\ r.ABflag = rt.ABflag
  <1>1. PICK n \in Nat : n = Len(rt.RTbuffer)
    BY IsSeqDomain DEF IsText
  <1>2. DOMAIN rt.RTbuffer = 1..n
    BY <1>1, IsSeqDomain DEF IsText
  <1>3. PICK buf : buf = [p \in DOMAIN rt.RTbuffer |->
                            IF p - first \in DOMAIN chars
                            THEN RT!Counted(rt.RTbuffer[p], chars[p - first]) ELSE rt.RTbuffer[p]]
    OBVIOUS
  <1>4. PICK st : st = IF rt.status = "COMPLETE" THEN rt.status ELSE "INCOMPLETE"
    OBVIOUS
  <1>5. r = [rt EXCEPT !.RTbuffer = buf, !.status = st]
    BY <1>3, <1>4 DEF RT!SetChars, IsText
  <1>6. /\ r.RTbuffer = buf /\ r.type = rt.type /\ r.ABflag = rt.ABflag
        /\ r.last_radio_text = rt.last_radio_text
    BY <1>5 DEF IsText
  <1>7. r = [status |-> r.status, type |-> r.type, ABflag |-> r.ABflag,
             RTbuffer |-> r.RTbuffer, last_radio_text |-> r.last_radio_text]
    BY <1>5 DEF IsText
  <1>8. IsSeq(buf) /\ DOMAIN buf = 1..n /\ Len(buf) = n
    <2>1. buf = [p \in 1..n |-> buf[p]]
      BY <1>2, <1>3
    <2> QED BY <2>1, FunctionIsSeq
  <1>9. ASSUME NEW p \in 1..n
        PROVE  /\ IsCell(buf[p])
               /\ \/ buf[p] = RT!Blank
                  \/ \E h \in texts : /\ rt.ABflag = (h % 2 = 1)
                                      /\ buf[p].Char = CharacterAt(pi, h, p)
    <2>0. p \in DOMAIN rt.RTbuffer
      BY <1>2
    <2>1. CASE p - first \in DOMAIN chars
      <3>1. PICK k \in DOMAIN chars : k = p - first
        BY <2>1
      <3>2. first + k = p
        BY <3>1
      <3>3. buf[p] = RT!Counted(rt.RTbuffer[p], chars[k])
        BY <1>3, <2>0, <3>1
      <3>4. IsCell(buf[p]) /\ buf[p].Char = chars[k]
        BY <2>0, <3>3, CountedFacts DEF IsText
      <3>5. chars[k] = CharacterAt(pi, t, p)
        BY <3>2
      <3> QED BY <3>4, <3>5
    <2>2. CASE p - first \notin DOMAIN chars
      <3>1. buf[p] = rt.RTbuffer[p]
        BY <1>3, <2>0, <2>2
      <3> QED BY <2>0, <3>1 DEF IsText, CellsRight
    <2> QED BY <2>1, <2>2
  <1>10. IsText(r)
    BY <1>1, <1>6, <1>7, <1>8, <1>9 DEF IsText
  <1>11. CellsRight(r, pi, texts)
    BY <1>6, <1>8, <1>9 DEF CellsRight
  <1> QED BY <1>1, <1>6, <1>8, <1>10, <1>11

\* The characters of a buffer before its end, and those of a text.
Received(buf) == [p \in RT!TextPositions(buf) |-> buf[p].Char]
WholeText(pi, t) == [p \in 1..TextLength[pi][t] |-> <<pi, t>>]

\* A buffer in which every character before the end was seen often enough has
\* the whole text.
LEMMA CompleteIsWhole ==
    ASSUME NEW rt, IsText(rt), NEW pi \in Stations, NEW t \in 0..MaxText, CellsRight(rt, pi, {t}),
           RT!Complete(rt.RTbuffer)
    PROVE  Received(rt.RTbuffer) = WholeText(pi, t)
  <1>1. PICK buf : buf = rt.RTbuffer
    OBVIOUS
  <1>2. PICK n \in Nat : n = Len(buf) /\ DOMAIN buf = 1..n
    BY <1>1, IsSeqDomain DEF IsText
  <1>3. PICK length \in 1..(2 * Segments) : length = TextLength[pi][t]
    <2>1. TextLength \in [Stations -> [0..MaxText -> 1..(2 * Segments)]]
      BY StationsAssumption
    <2> QED BY <2>1
  <1>4. Segments \in Nat /\ RequiredCount \in Nat /\ RequiredCount > 0 /\ CR \notin {NUL, Space}
    BY DecoderAssumption
  <1>5. CR # <<pi, t>>
    <2>1. <<pi, t>> \in Stations \X (0..MaxText)
      OBVIOUS
    <2> QED BY <2>1, StationsAssumption
  <1>6. length <= n
    <2>1. n # 0
      BY <1>1, <1>2 DEF RT!Complete
    <2>2. n \in {0, 2 * Segments, 4 * Segments}
      BY <1>1, <1>2 DEF IsText
    <2> QED BY <1>4, <2>1, <2>2
  <1>7. ASSUME NEW p \in 1..n
        PROVE  buf[p] = RT!Blank \/ buf[p].Char = CharacterAt(pi, t, p)
    BY <1>1, <1>2 DEF CellsRight
  <1>8. RT!Blank.Char # CR /\ RT!Blank.Counter = 0
    BY <1>4 DEF RT!Blank
  <1>9. ASSUME NEW p \in 1..n, buf[p].Char = CR
        PROVE  p = length + 1
    <2>1. CharacterAt(pi, t, p) = CR
      BY <1>7, <1>8, <1>9
    <2>2. p <= length => CharacterAt(pi, t, p) = <<pi, t>>
      BY <1>3 DEF CharacterAt
    <2>3. p > length + 1 => CharacterAt(pi, t, p) = Space
      BY <1>3 DEF CharacterAt
    <2> QED BY <1>4, <1>5, <2>1, <2>2, <2>3
  <1>10. ASSUME NEW p \in 1..length
         PROVE  p \in RT!TextPositions(buf)
    <2>1. p \in DOMAIN buf /\ \A q \in 1..p : q \in 1..n /\ q # length + 1
      BY <1>2, <1>6
    <2> QED BY <1>9, <2>1 DEF RT!TextPositions
  <1>11. ASSUME NEW p \in RT!TextPositions(buf)
         PROVE  p \in 1..n /\ buf[p].Counter > 0 /\ buf[p].Char = CharacterAt(pi, t, p)
    <2>1. p \in 1..n
      BY <1>2 DEF RT!TextPositions
    <2>2. buf[p].Counter >= RequiredCount
      BY <1>1 DEF RT!Complete
    <2>3. buf[p].Counter \in Int
      BY <1>1, <1>2, <2>1 DEF IsText, IsCell
    <2>4. buf[p].Counter > 0
      BY <1>4, <2>2, <2>3
    <2> QED BY <1>7, <1>8, <2>1, <2>4
  <1>12. ASSUME NEW p \in RT!TextPositions(buf)
         PROVE  p \in 1..length
    <2> SUFFICES ASSUME p > length PROVE FALSE
      BY <1>11
    <2>1. p \in 1..n
      BY <1>11
    <2>2. PICK q \in 1..n : q = length + 1 /\ q \in 1..p
      BY <2>1
    <2>3. \A r \in 1..p : buf[r].Char # CR
      BY DEF RT!TextPositions
    <2>4. q \in RT!TextPositions(buf)
      BY <1>2, <2>1, <2>2, <2>3 DEF RT!TextPositions
    <2>5. buf[q].Char = CharacterAt(pi, t, q)
      BY <1>11, <2>4
    <2>6. CharacterAt(pi, t, q) = CR
      BY <1>3, <2>2 DEF CharacterAt
    <2> QED BY <2>2, <2>3, <2>5, <2>6
  <1>13. RT!TextPositions(buf) = 1..length
    BY <1>10, <1>12
  <1>14. \A p \in 1..length : buf[p].Char = <<pi, t>>
    <2> SUFFICES ASSUME NEW p \in 1..length PROVE buf[p].Char = <<pi, t>>
      OBVIOUS
    <2>1. buf[p].Char = CharacterAt(pi, t, p)
      BY <1>10, <1>11
    <2>2. CharacterAt(pi, t, p) = <<pi, t>>
      BY <1>3 DEF CharacterAt
    <2> QED BY <2>1, <2>2
  <1>15. [p \in RT!TextPositions(buf) |-> buf[p].Char] = [p \in 1..length |-> <<pi, t>>]
    BY <1>13, <1>14
  <1> QED BY <1>1, <1>3, <1>15 DEF Received, WholeText

\* Of several texts it has a mixture.
LEMMA CompleteIsMade ==
    ASSUME NEW rt, IsText(rt), NEW pi \in Stations, NEW texts \in HeardSets,
           CellsRight(rt, pi, texts), RT!Complete(rt.RTbuffer),
           NEW last, last = [p \in RT!TextPositions(rt.RTbuffer) |-> rt.RTbuffer[p].Char]
    PROVE  MadeOf(last, pi, texts)
  <1>1. PICK buf : buf = rt.RTbuffer
    OBVIOUS
  <1>2. RequiredCount \in Nat /\ RequiredCount > 0
    BY DecoderAssumption
  <1>3. ASSUME NEW p \in DOMAIN last PROVE last[p] \in ({pi} \X texts) \cup {Space}
    <2>1. p \in DOMAIN buf /\ p \in RT!TextPositions(buf) /\ last[p] = buf[p].Char
      BY <1>1 DEF RT!TextPositions
    <2>2. buf[p].Counter >= RequiredCount /\ buf[p].Counter \in Int
      BY <1>1, <2>1 DEF RT!Complete, IsText, IsCell
    <2>3. buf[p] # RT!Blank
      <3>1. RT!Blank.Counter = 0
        BY DEF RT!Blank
      <3> QED BY <1>2, <2>2, <3>1
    <2>4. PICK t \in texts : buf[p].Char = CharacterAt(pi, t, p)
      BY <1>1, <2>1, <2>3 DEF CellsRight
    <2>5. buf[p].Char # CR
      <3>1. p \in 1..p
        BY <1>1, <2>1, IsSeqDomain DEF IsText
      <3> QED BY <2>1, <3>1 DEF RT!TextPositions
    <2>6. CharacterAt(pi, t, p) \in {<<pi, t>>, CR, Space}
      <3>1. TextLength[pi][t] \in Int /\ p \in Int
        <4>1. t \in 0..MaxText
          BY DEF HeardSets
        <4> QED BY <1>1, <2>1, <4>1, StationsAssumption, IsSeqDomain DEF IsText
      <3> QED BY <3>1 DEF CharacterAt
    <2> QED BY <2>1, <2>4, <2>5, <2>6
  <1>4. ASSUME NEW t \in texts, texts = {t}
        PROVE  last = [p \in 1..TextLength[pi][t] |-> <<pi, t>>]
    <2>1. t \in 0..MaxText
      BY DEF HeardSets
    <2>2. CellsRight(rt, pi, {t})
      BY <1>4, Zenon
    <2>3. Received(rt.RTbuffer) = WholeText(pi, t)
      BY <2>1, <2>2, CompleteIsWhole, Zenon
    <2> QED BY <2>3, Zenon DEF Received, WholeText
  <1>5. \A p \in DOMAIN last : last[p] \in ({pi} \X texts) \cup {Space}
    BY <1>3, Zenon
  <1>6. \A t \in texts : texts = {t} => last = [p \in 1..TextLength[pi][t] |-> <<pi, t>>]
    BY <1>4, Zenon
  <1> QED BY <1>5, <1>6, Zenon DEF MadeOf

\* A group of a text: one that was heard before, or a later one.
LEMMA TextGroupAdded ==
    ASSUME NEW rt, IsText(rt), NEW pi \in Stations, NEW t \in 0..MaxText,
           NEW texts \in HeardSets, CellsRight(rt, pi, texts), NEW all, all = Joined(texts, t),
           NEW type \in {"2A", "2B"}, NEW addr \in Int,
           NEW ab, ab = (t % 2 = 1), NEW chars, DOMAIN chars \subseteq Int,
           \A k \in DOMAIN chars : chars[k] = CharacterAt(pi, t, RT!Width(type) * addr + k),
           NEW r, r = RT!AddGroup(rt, type, addr, ab, chars)
    PROVE  /\ IsText(r) /\ CellsRight(r, pi, all)
           /\ \/ r.last_radio_text = rt.last_radio_text
              \/ r.status = "COMPLETE" /\ MadeOf(r.last_radio_text, pi, all)
  <1>0. all \in HeardSets /\ t \in all
    BY JoinedFacts
  <1>1. PICK r1 : r1 = RT!NewABflag(rt, ab)
    OBVIOUS
  <1>2. IsText(r1) /\ CellsRight(r1, pi, all) /\ r1.ABflag = ab /\ r1.last_radio_text = rt.last_radio_text
    BY <1>1, FlagHeard
  <1>3. PICK r2 : r2 = RT!set_type(r1, type)
    OBVIOUS
  <1>4. IsText(r2) /\ CellsRight(r2, pi, all) /\ r2.ABflag = ab /\ r2.last_radio_text = rt.last_radio_text
    BY <1>2, <1>3, TypeHeard
  <1>5. PICK first \in Int : first = RT!Width(type) * addr
    BY DEF RT!Width
  <1>6. PICK r3 : r3 = RT!SetChars(r2, first, chars)
    OBVIOUS
  <1>7. /\ IsText(r3) /\ CellsRight(r3, pi, all) /\ r3.last_radio_text = rt.last_radio_text
        /\ r3.ABflag = ab
    BY <1>0, <1>4, <1>5, <1>6, CharsHeard
  <1>8. r = RT!check_RTbuffer_status(r3)
    BY <1>1, <1>3, <1>5, <1>6 DEF RT!AddGroup
  <1>9. CASE ~RT!Complete(r3.RTbuffer)
    BY <1>7, <1>8, <1>9 DEF RT!check_RTbuffer_status
  <1>10. CASE RT!Complete(r3.RTbuffer)
    <2>1. PICK last : last = [p \in RT!TextPositions(r3.RTbuffer) |-> r3.RTbuffer[p].Char]
      OBVIOUS
    <2>2. MadeOf(last, pi, all)
      BY <1>0, <1>7, <1>10, <2>1, CompleteIsMade
    <2>3. r = [r3 EXCEPT !.status = "COMPLETE", !.last_radio_text = last]
      BY <1>8, <1>10, <2>1 DEF RT!check_RTbuffer_status
    <2>4. /\ r.RTbuffer = r3.RTbuffer /\ r.type = r3.type /\ r.ABflag = r3.ABflag
          /\ r.last_radio_text = last /\ r.status = "COMPLETE"
      BY <1>7, <2>3 DEF IsText
    <2>5. r = [status |-> r.status, type |-> r.type, ABflag |-> r.ABflag,
               RTbuffer |-> r.RTbuffer, last_radio_text |-> r.last_radio_text]
      BY <1>7, <2>3 DEF IsText
    <2>6. IsText(r)
      BY <1>7, <2>4, <2>5 DEF IsText
    <2>7. CellsRight(r, pi, all)
      BY <1>7, <2>4 DEF CellsRight
    <2> QED BY <2>2, <2>4, <2>6, <2>7
  <1> QED BY <1>9, <1>10

\* Clear() leaves the buffer as it is, for a type that none has.
LEMMA TextCleared ==
    ASSUME NEW rt, IsText(rt), NEW pi, NEW texts, CellsRight(rt, pi, texts), NEW r, r = RT!Clear(rt)
    PROVE  IsText(r) /\ CellsRight(r, pi, texts) /\ r.last_radio_text = rt.last_radio_text
  <1>1. /\ r.RTbuffer = rt.RTbuffer /\ r.type = "NONE" /\ r.ABflag = rt.ABflag
        /\ r.last_radio_text = rt.last_radio_text
    BY DEF RT!Clear, IsText
  <1>2. r = [status |-> r.status, type |-> r.type, ABflag |-> r.ABflag,
             RTbuffer |-> r.RTbuffer, last_radio_text |-> r.last_radio_text]
    BY DEF RT!Clear, IsText
  <1>3. IsText(r)
    BY <1>1, <1>2 DEF IsText
  <1> QED BY <1>1, <1>3 DEF CellsRight

\* A channel gets a text.
LEMMA TextSet ==
    ASSUME NEW d, IsDecoder(d), NEW n \in DOMAIN d.chlist, NEW rt, IsText(rt),
           NEW e, e = [d EXCEPT !.chlist[n].radio_text = rt]
    PROVE  /\ Follows(d, e) /\ SameLists(d, e) /\ SameClock(d, e) /\ Serves(d, e)
           /\ e.events = d.events /\ e.chlist[n].radio_text = rt
           /\ \A m \in DOMAIN d.chlist : m # n => e.chlist[m].radio_text = d.chlist[m].radio_text
           /\ DOMAIN e.chlist = DOMAIN d.chlist
  <1>0. PICK old : old = d.chlist[n]
    OBVIOUS
  <1>1. PICK ch : ch = [old EXCEPT !.radio_text = rt]
    OBVIOUS
  <1>2. IsChannel(old)
    BY <1>0 DEF IsDecoder
  <1>3. /\ ch.PIcode = old.PIcode /\ ch.radio_text = rt
        /\ ch.tmc_list = old.tmc_list /\ ch.AFlist = old.AFlist
        /\ ch.rds_flags = old.rds_flags /\ ch.PTYcode = old.PTYcode
    BY <1>1, <1>2 DEF IsChannel
  <1>4. ch = [PIcode |-> ch.PIcode, PTYcode |-> ch.PTYcode, rds_flags |-> ch.rds_flags,
              program_name |-> ch.program_name, AFlist |-> ch.AFlist,
              radio_text |-> ch.radio_text, tmc_list |-> ch.tmc_list]
    BY <1>1, <1>2 DEF IsChannel
  <1>5. IsChannel(ch)
    BY <1>2, <1>3, <1>4 DEF IsChannel
  <1>6. e = [d EXCEPT !.chlist = [d.chlist EXCEPT ![n] = ch]]
    BY <1>0, <1>1
  <1>7. Replaced(d, e, n, ch) /\ e.events = d.events
    BY <1>0, <1>3, <1>5, <1>6, ChannelReplaced
  <1>8. Follows(d, e)
    BY <1>0, <1>3, <1>7, ReplacedFollows
  <1>9. d.curchind \in DOMAIN d.chlist
    BY DEF IsDecoder
  <1> QED BY <1>0, <1>3, <1>7, <1>8, <1>9
          DEF Replaced, SameLists, Serves, SameAltFreqs

LEMMA TextFacts ==
    ASSUME NEW d, IsDecoder(d), NEW g, NEW pi \in Stations, d.last_pi_code = pi, g.pi = pi,
           NEW t \in 0..MaxText, NEW texts \in HeardSets,
           CellsRight(Current(d).radio_text, pi, texts), NEW all, all = Joined(texts, t),
           g.type \in {"2A", "2B"}, g.addr \in Int, g.ab = (t % 2 = 1), DOMAIN g.chars \subseteq Int,
           \A k \in DOMAIN g.chars : g.chars[k] = CharacterAt(pi, t, RT!Width(g.type) * g.addr + k),
           NEW junk, junk \subseteq Flags, NEW e, e = Text(d, g, junk)
    PROVE  /\ Follows(d, e) /\ SameLists(d, e) /\ SameClock(d, e) /\ Serves(d, e)
           /\ DOMAIN e.chlist = DOMAIN d.chlist
           /\ \A m \in DOMAIN d.chlist :
                 m # d.curchind => e.chlist[m].radio_text = d.chlist[m].radio_text
           /\ CellsRight(Current(e).radio_text, pi, all)
           /\ "rtxt" \in e.events
           /\ \/ Current(e).radio_text.last_radio_text = Current(d).radio_text.last_radio_text
              \/ /\ "lrtxt" \in e.events
                 /\ MadeOf(Current(e).radio_text.last_radio_text, pi, all)
  <1>1. PICK n \in DOMAIN d.chlist : n = d.curchind
    BY DEF IsDecoder
  <1>2. PICK d1 : d1 = set_rds_flag(d, n, "TEXT_AB", g.ab)
    OBVIOUS
  <1>3. "TEXT_AB" \in Flags
    BY DEF Flags
  <1>4. /\ Tunes(d, d1) /\ Serves(d, d1) /\ DOMAIN d1.chlist = DOMAIN d.chlist
        /\ IsDecoder(d1) /\ d1.last_pi_code = pi
    <2>1. Tunes(d, d1) /\ Serves(d, d1) /\ DOMAIN d1.chlist = DOMAIN d.chlist
      BY <1>2, <1>3, FlagSet
    <2> QED BY <2>1 DEF Tunes, Follows, Serves, SameCurrent
  <1>5. PICK d2 : d2 = IF g.type = "2B" THEN set_pi_code(d1, g.pi, junk) ELSE d1
    OBVIOUS
  <1>6. Tunes(d1, d2) /\ Serves(d1, d2) /\ DOMAIN d2.chlist = DOMAIN d1.chlist
    <2>1. CASE g.type = "2B"
      <3>1. d2 = set_pi_code(d1, pi, junk)
        BY <1>5, <2>1
      <3>2. Tunes(d1, d2) /\ Serves(d1, d2) /\ d2.chlist = d1.chlist
        BY <1>4, <3>1, PiCodeSet
      <3> QED BY <3>2
    <2>2. CASE g.type # "2B"
      BY <1>4, <1>5, <2>2, TunesReflexive
    <2> QED BY <2>1, <2>2
  <1>7. Tunes(d, d2) /\ Serves(d, d2) /\ DOMAIN d2.chlist = DOMAIN d.chlist
    BY <1>4, <1>6, TunesTransitive
  <1>8. IsDecoder(d2) /\ d2.curchind = n /\ d2.chlist[n].radio_text = d.chlist[n].radio_text
    BY <1>1, <1>7 DEF Tunes, Follows, Serves, SameCurrent, SameTexts
  <1>9. PICK old : old = d.chlist[n].radio_text
    OBVIOUS
  <1>10. IsText(old) /\ CellsRight(old, pi, texts)
    BY <1>1, <1>9 DEF IsDecoder, IsChannel, Current
  <1>11. PICK rt : rt = RT!AddGroup(old, g.type, g.addr, g.ab, g.chars)
    OBVIOUS
  <1>12. /\ IsText(rt) /\ CellsRight(rt, pi, all)
         /\ \/ rt.last_radio_text = old.last_radio_text
            \/ rt.status = "COMPLETE" /\ MadeOf(rt.last_radio_text, pi, all)
    <2>1. PICK type \in {"2A", "2B"} : type = g.type
      OBVIOUS
    <2>2. PICK addr \in Int : addr = g.addr
      OBVIOUS
    <2>3. PICK chars : chars = g.chars
      OBVIOUS
    <2>4. PICK ab : ab = g.ab
      OBVIOUS
    <2>5. rt = RT!AddGroup(old, type, addr, ab, chars)
      BY <1>11, <2>1, <2>2, <2>3, <2>4
    <2>6. /\ DOMAIN chars \subseteq Int /\ ab = (t % 2 = 1)
          /\ \A k \in DOMAIN chars : chars[k] = CharacterAt(pi, t, RT!Width(type) * addr + k)
      BY <2>1, <2>2, <2>3, <2>4
    <2> QED BY <1>10, <2>5, <2>6, TextGroupAdded
  <1>13. PICK new : new = IF rt.status = "COMPLETE" THEN RT!Clear(rt) ELSE rt
    OBVIOUS
  <1>14. IsText(new) /\ CellsRight(new, pi, all) /\ new.last_radio_text = rt.last_radio_text
    BY <1>12, <1>13, TextCleared
  <1>15. PICK c : c = [d2 EXCEPT !.chlist[n].radio_text = new]
    OBVIOUS
  <1>16. PICK evnts : evnts = IF rt.status = "COMPLETE" THEN {"rtxt", "lrtxt"} ELSE {"rtxt"}
    OBVIOUS
  <1>17. e = set_event(c, evnts)
    <2>1. d2.chlist[d2.curchind].radio_text = old
      BY <1>8, <1>9
    <2>2. rt = RT!AddGroup(d2.chlist[d2.curchind].radio_text, g.type, g.addr, g.ab, g.chars)
      BY <1>11, <2>1
    <2> QED BY <1>1, <1>2, <1>5, <1>8, <1>13, <1>15, <1>16, <2>2 DEF Text
  <1>18. /\ Follows(d2, c) /\ SameLists(d2, c) /\ SameClock(d2, c) /\ Serves(d2, c)
         /\ c.events = d2.events /\ c.chlist[n].radio_text = new
         /\ \A m \in DOMAIN d2.chlist : m # n => c.chlist[m].radio_text = d2.chlist[m].radio_text
         /\ DOMAIN c.chlist = DOMAIN d2.chlist
    BY <1>7, <1>8, <1>14, <1>15, TextSet
  <1>19. Tunes(c, e) /\ Serves(c, e) /\ e.events = c.events \cup evnts /\ e.chlist = c.chlist
    BY <1>17, <1>18, EventsTune DEF Follows
  <1>20. DOMAIN e.chlist = DOMAIN d.chlist
    BY <1>7, <1>18, <1>19
  <1>21. Follows(d, e)
    BY <1>7, <1>18, <1>19, <1>20 DEF Follows, Tunes
  <1>22. SameLists(d, e) /\ SameClock(d, e)
    BY <1>7, <1>18, <1>19 DEF Tunes, SameLists, SameClock
  <1>23. Serves(d, e)
    BY <1>7, <1>18, <1>19 DEF Serves, SameCurrent, SameAltFreqs
  <1>24. ASSUME NEW m \in DOMAIN d.chlist, m # d.curchind
         PROVE  e.chlist[m].radio_text = d.chlist[m].radio_text
    BY <1>1, <1>7, <1>18, <1>19, <1>24 DEF Tunes, SameTexts
  <1>25. Current(e).radio_text = new /\ Current(d).radio_text = old
    BY <1>1, <1>9, <1>18, <1>19, <1>23 DEF Current, Serves, SameCurrent
  <1>26. "rtxt" \in e.events /\ (rt.status = "COMPLETE" => "lrtxt" \in e.events)
    BY <1>16, <1>19
  <1>27. \/ new.last_radio_text = old.last_radio_text
         \/ "lrtxt" \in e.events /\ MadeOf(new.last_radio_text, pi, all)
    BY <1>12, <1>14, <1>26
  <1> QED BY <1>14, <1>20, <1>21, <1>22, <1>23, <1>24, <1>25, <1>26, <1>27

-----------------------------------------------------------------------------
(* The list of TMC messages *)

\* Kept is a recursive function: that there is one is shown for ever longer
\* beginnings of the list.
LEMMA KeptRecursion ==
    ASSUME NEW list, NEW time, Len(list) \in Nat
    PROVE  LET kept == TMC!Kept(list, time)
           IN  /\ kept[0] = <<>>
               /\ \A n \in 1..Len(list) :
                     kept[n] = IF time - list[n].rx_time > time_to_live THEN kept[n - 1]
                               ELSE Append(kept[n - 1], list[n])
  <1> DEFINE Step(g, n) == [k \in 0..n |->
                 IF k = 0 THEN <<>>
                 ELSE IF time - list[k].rx_time > time_to_live THEN g[k - 1]
                 ELSE Append(g[k - 1], list[k])]
             Good == {n \in Nat : \E g : g = Step(g, n)}
             kept == TMC!Kept(list, time)
  <1>1. 0 \in Good
    <2> DEFINE e == [k \in 0..0 |-> <<>>]
    <2>1. e = Step(e, 0)
      OBVIOUS
    <2> HIDE DEF e, Step
    <2> QED BY <2>1
  <1>2. ASSUME NEW n \in Nat, n \in Good PROVE n + 1 \in Good
    <2>1. PICK g : g = Step(g, n)
      <3> HIDE DEF Step
      <3> QED BY <1>2
    <2>2. PICK new : new = IF time - list[n + 1].rx_time > time_to_live THEN g[n]
                           ELSE Append(g[n], list[n + 1])
      OBVIOUS
    <2> DEFINE h == [k \in 0..(n + 1) |-> IF k = n + 1 THEN new ELSE g[k]]
    <2>3. ASSUME NEW k \in 0..(n + 1)
          PROVE  h[k] = IF k = 0 THEN <<>>
                        ELSE IF time - list[k].rx_time > time_to_live THEN h[k - 1]
                        ELSE Append(h[k - 1], list[k])
      <3>1. CASE k = n + 1
        <4>1. h[k] = new /\ k - 1 = n /\ h[k - 1] = g[n] /\ k # 0
          BY <3>1
        <4> QED BY <2>2, <3>1, <4>1
      <3>2. CASE k # n + 1
        <4>1. k \in 0..n /\ h[k] = g[k] /\ (k # 0 => h[k - 1] = g[k - 1])
          BY <3>2
        <4>2. g[k] = IF k = 0 THEN <<>>
                     ELSE IF time - list[k].rx_time > time_to_live THEN g[k - 1]
                     ELSE Append(g[k - 1], list[k])
          BY <2>1, <4>1
        <4> HIDE DEF h
        <4> QED BY <4>1, <4>2
      <3> QED BY <3>1, <3>2
    <2>4. h = [k \in 0..(n + 1) |-> h[k]]
      OBVIOUS
    <2>5. h = Step(h, n + 1)
      <3> HIDE DEF h
      <3>1. [k \in 0..(n + 1) |-> h[k]] = Step(h, n + 1)
        BY <2>3
      <3> QED BY <2>4, <3>1
    <2> HIDE DEF h, Step
    <2> QED BY <2>5
  <1>3. Len(list) \in Good
    <2>1. Nat \subseteq Good
      <3> HIDE DEF Good
      <3> QED BY <1>1, <1>2, SetInduction
    <2> HIDE DEF Good
    <2> QED BY <2>1
  <1>4. kept = Step(kept, Len(list))
    <2>1. kept = CHOOSE g : g = Step(g, Len(list))
      BY DEF TMC!Kept
    <2>2. \E g : g = Step(g, Len(list))
      <3> HIDE DEF Step
      <3> QED BY <1>3
    <2> HIDE DEF Step, kept
    <2> QED BY <2>1, <2>2
  <1> HIDE DEF kept
  <1>5. kept[0] = <<>>
    <2>1. Step(kept, Len(list))[0] = <<>>
      OBVIOUS
    <2> HIDE DEF Step
    <2> QED BY <1>4, <2>1
  <1>6. ASSUME NEW n \in 1..Len(list)
        PROVE  kept[n] = IF time - list[n].rx_time > time_to_live THEN kept[n - 1]
                         ELSE Append(kept[n - 1], list[n])
    <2>1. Step(kept, Len(list))[n] = IF time - list[n].rx_time > time_to_live THEN kept[n - 1]
                                     ELSE Append(kept[n - 1], list[n])
      OBVIOUS
    <2> HIDE DEF Step
    <2> QED BY <1>4, <2>1
  <1> QED BY <1>5, <1>6 DEF kept

Old(e, time) == time - e.rx_time > time_to_live

\* What is kept of the first n lines of a list.
Selected(out, list, time, n) ==
    /\ IsSeq(out) /\ Len(out) <= n
    /\ \A j \in DOMAIN out : \E k \in 1..n : out[j] = list[k] /\ ~Old(list[k], time)
    /\ \A k \in 1..n : ~Old(list[k], time) => \E j \in DOMAIN out : out[j] = list[k]
    /\ Distinct(out)
    /\ Len(out) = n => \A k \in 1..n : out[k] = list[k]

LEMMA OneMoreSelected ==
    ASSUME NEW list, IsSeq(list), Distinct(list), NEW time, NEW n \in Nat, n < Len(list),
           NEW out, Selected(out, list, time, n), NEW e, e = list[n + 1],
           NEW new, new = IF Old(e, time) THEN out ELSE Append(out, e)
    PROVE  Selected(new, list, time, n + 1)
  <1>1. /\ n + 1 \in 1..(n + 1) /\ n + 1 \in DOMAIN list
        /\ \A k \in 1..(n + 1) : k \in 1..n \/ k = n + 1
        /\ \A k \in 1..n : k \in 1..(n + 1) /\ k \in DOMAIN list /\ k # n + 1
    BY IsSeqDomain
  <1>0. PICK length \in Nat : length = Len(out) /\ length <= n /\ DOMAIN out = 1..length
    BY IsSeqDomain DEF Selected
  <1>2. CASE Old(e, time)
    <2>1. new = out
      BY <1>2
    <2>3. ASSUME NEW j \in DOMAIN out
          PROVE  \E k \in 1..(n + 1) : out[j] = list[k] /\ ~Old(list[k], time)
      BY <1>1 DEF Selected
    <2>4. ASSUME NEW k \in 1..(n + 1), ~Old(list[k], time)
          PROVE  \E j \in DOMAIN out : out[j] = list[k]
      BY <1>1, <1>2, <2>4 DEF Selected
    <2>5. length <= n + 1 /\ length # n + 1
      BY <1>0
    <2>6. IsSeq(out) /\ Distinct(out)
      BY DEF Selected
    <2> QED BY <1>0, <2>1, <2>3, <2>4, <2>5, <2>6 DEF Selected
  <1>3. CASE ~Old(e, time)
    <2>1. PICK m \in Nat : m = Len(out) + 1 /\ m = length + 1
      BY <1>0
    <2>2. /\ IsSeq(new) /\ DOMAIN new = DOMAIN out \cup {m} /\ m \notin DOMAIN out /\ Len(new) = m
          /\ \A j \in DOMAIN out : new[j] = out[j]
          /\ new[m] = e
      BY <1>3, <2>1, IsSeqAppend DEF Selected
    <2>4. Len(new) <= n + 1
      BY <1>0, <2>1, <2>2
    <2>5. ASSUME NEW j \in DOMAIN new
          PROVE  \E k \in 1..(n + 1) : new[j] = list[k] /\ ~Old(list[k], time)
      <3>1. CASE j \in DOMAIN out
        <4>1. PICK k \in 1..n : out[j] = list[k] /\ ~Old(list[k], time)
          BY <3>1 DEF Selected
        <4>2. k \in 1..(n + 1)
          BY <1>1
        <4> QED BY <2>2, <3>1, <4>1, <4>2
      <3>2. CASE j = m
        BY <1>1, <1>3, <2>2, <3>2
      <3> QED BY <2>2, <3>1, <3>2
    <2>6. ASSUME NEW k \in 1..(n + 1), ~Old(list[k], time)
          PROVE  \E j \in DOMAIN new : new[j] = list[k]
      <3>1. CASE k \in 1..n
        <4>1. PICK j \in DOMAIN out : out[j] = list[k]
          BY <2>6, <3>1 DEF Selected
        <4> QED BY <2>2, <4>1
      <3>2. CASE k = n + 1
        BY <2>2, <3>2
      <3> QED BY <1>1, <3>1, <3>2
    <2>7. ASSUME NEW j \in DOMAIN out PROVE out[j].data # e.data
      <3>1. PICK k \in 1..n : out[j] = list[k]
        BY DEF Selected
      <3> QED BY <1>1, <3>1 DEF Distinct
    <2>8. Distinct(new)
      <3> SUFFICES ASSUME NEW i \in DOMAIN new, NEW j \in DOMAIN new, new[i].data = new[j].data
                   PROVE  i = j
        BY DEF Distinct
      <3>1. CASE i \in DOMAIN out /\ j \in DOMAIN out
        BY <2>2, <3>1 DEF Selected, Distinct
      <3>2. CASE i = m \/ j = m
        BY <2>2, <2>7, <3>2
      <3> QED BY <2>2, <3>1, <3>2
    <2>9. ASSUME Len(new) = n + 1, NEW k \in 1..(n + 1) PROVE new[k] = list[k]
      <3>0. m = n + 1
        BY <2>2, <2>9
      <3>1. Len(out) = n /\ m = n + 1
        BY <1>0, <2>1, <3>0
      <3>2. CASE k \in 1..n
        BY <1>0, <2>2, <3>1, <3>2 DEF Selected
      <3>3. CASE k = n + 1
        BY <2>2, <3>1, <3>3
      <3> QED BY <1>1, <3>2, <3>3
    <2> QED BY <2>2, <2>4, <2>5, <2>6, <2>8, <2>9 DEF Selected
  <1> QED BY <1>2, <1>3

LEMMA KeptSelects ==
    ASSUME NEW list, IsSeq(list), Distinct(list), NEW time
    PROVE  Selected(TMC!Kept(list, time)[Len(list)], list, time, Len(list))
  <1>1. PICK length \in Nat : length = Len(list)
    BY IsSeqDomain
  <1>2. PICK kept : kept = TMC!Kept(list, time)
    OBVIOUS
  <1>3. /\ kept[0] = <<>>
        /\ \A n \in 1..length : kept[n] = IF Old(list[n], time) THEN kept[n - 1]
                                          ELSE Append(kept[n - 1], list[n])
    BY <1>1, <1>2, KeptRecursion DEF Old
  <1> DEFINE Good == {n \in Nat : n <= length => Selected(kept[n], list, time, n)}
  <1>4. 0 \in Good
    <2>1. PICK out : out = kept[0]
      OBVIOUS
    <2>2. out \in Seq({}) /\ DOMAIN out = {} /\ Len(out) = 0
      BY <1>3, <2>1
    <2>3. IsSeq(out)
      BY <2>2, SeqIsSeq
    <2>4. Selected(out, list, time, 0)
      BY <2>2, <2>3 DEF Selected, Distinct
    <2> QED BY <2>1, <2>4
  <1>5. ASSUME NEW n \in Nat, n \in Good PROVE n + 1 \in Good
    <2> SUFFICES ASSUME n + 1 <= length PROVE Selected(kept[n + 1], list, time, n + 1)
      OBVIOUS
    <2>1. PICK out : out = kept[n]
      OBVIOUS
    <2>2. Selected(out, list, time, n) /\ n < Len(list)
      BY <1>1, <1>5, <2>1
    <2>3. PICK new : new = kept[n + 1]
      OBVIOUS
    <2>4. new = IF Old(list[n + 1], time) THEN out ELSE Append(out, list[n + 1])
      <3>1. n + 1 \in 1..length /\ (n + 1) - 1 = n
        OBVIOUS
      <3> QED BY <1>3, <2>1, <2>3, <3>1
    <2>5. Selected(new, list, time, n + 1)
      BY <2>2, <2>4, OneMoreSelected
    <2> QED BY <2>3, <2>5
  <1>6. Nat \subseteq Good
    <2> HIDE DEF Good
    <2> QED BY <1>4, <1>5, SetInduction
  <1>7. Selected(kept[length], list, time, length)
    BY <1>6
  <1> QED BY <1>1, <1>2, <1>7

LEMMA StringAdded ==
    ASSUME NEW tl, IsTmcList(tl), NEW line, NEW time, NEW r, r = TMC!add_string(tl, line, time)
    PROVE  /\ IsTmcList(r)
           /\ \E k \in DOMAIN r.tmc_list : r.tmc_list[k].data = line
           /\ \A k \in DOMAIN r.tmc_list :
                 \/ r.tmc_list[k].data = line /\ r.tmc_list[k].rx_time = time
                 \/ /\ r.tmc_list[k].data # line
                    /\ k \in DOMAIN tl.tmc_list /\ r.tmc_list[k] = tl.tmc_list[k]
           /\ \A k \in DOMAIN tl.tmc_list :
                 k \in DOMAIN r.tmc_list /\ r.tmc_list[k].data = tl.tmc_list[k].data
           /\ Len(r.tmc_list) = Len(tl.tmc_list) \/ r.is_changed
  <1>1. PICK old : old = tl.tmc_list
    OBVIOUS
  <1>2. PICK length \in Nat : length = Len(old) /\ DOMAIN old = 1..length
    BY <1>1, IsSeqDomain DEF IsTmcList
  <1>3. /\ IsSeq(old) /\ Distinct(old)
        /\ \A k \in DOMAIN old : old[k] = [rx_time |-> old[k].rx_time, data |-> old[k].data]
    BY <1>1 DEF IsTmcList
  <1>4. CASE TMC!HasLine(tl, line)
    <2>1. PICK new : new = [n \in DOMAIN old |->
                              IF old[n].data = line THEN [old[n] EXCEPT !.rx_time = time] ELSE old[n]]
      OBVIOUS
    <2>2. r = [tl EXCEPT !.tmc_list = new]
      BY <1>1, <1>4, <2>1 DEF TMC!add_string, IsTmcList
    <2>3. r.tmc_list = new /\ r.is_changed = tl.is_changed
      BY <2>2 DEF IsTmcList
    <2>4. r = [tmc_list |-> r.tmc_list, tmc_provider |-> r.tmc_provider,
               is_changed |-> r.is_changed]
      BY <2>2 DEF IsTmcList
    <2>5. ASSUME NEW k \in DOMAIN old
          PROVE  /\ new[k] = [rx_time |-> new[k].rx_time, data |-> new[k].data]
                 /\ new[k].data = old[k].data
                 /\ new[k].data = line => new[k].rx_time = time
                 /\ new[k].data # line => new[k] = old[k]
      <3>1. PICK e : e = old[k] /\ e = [rx_time |-> e.rx_time, data |-> e.data]
        BY <1>3
      <3>2. CASE e.data = line
        <4>1. new[k] = [e EXCEPT !.rx_time = time]
          BY <2>1, <3>1, <3>2
        <4> QED BY <3>1, <3>2, <4>1
      <3>3. CASE e.data # line
        BY <2>1, <3>1, <3>3
      <3> QED BY <3>2, <3>3
    <2>6. IsSeq(new) /\ DOMAIN new = 1..length /\ Len(new) = length
      <3>1. new = [n \in 1..length |-> new[n]]
        BY <1>2, <2>1
      <3> QED BY <3>1, FunctionIsSeq
    <2>7. Distinct(new)
      BY <1>2, <1>3, <2>5, <2>6 DEF Distinct
    <2>8. IsTmcList(r)
      BY <1>2, <2>3, <2>4, <2>5, <2>6, <2>7 DEF IsTmcList
    <2>9. \E k \in DOMAIN new : new[k].data = line
      <3>1. PICK k \in DOMAIN old : old[k].data = line
        BY <1>1, <1>4 DEF TMC!HasLine
      <3> QED BY <1>2, <2>5, <2>6, <3>1
    <2>10. \A k \in DOMAIN new :
              \/ new[k].data = line /\ new[k].rx_time = time
              \/ new[k].data # line /\ k \in DOMAIN old /\ new[k] = old[k]
      BY <1>2, <2>5, <2>6
    <2>11. \A k \in DOMAIN old : k \in DOMAIN new /\ new[k].data = old[k].data
      BY <1>2, <2>5, <2>6
    <2> QED BY <1>1, <1>2, <2>3, <2>6, <2>8, <2>9, <2>10, <2>11
  <1>5. CASE ~TMC!HasLine(tl, line)
    <2>1. PICK e : e = [rx_time |-> time, data |-> line]
      OBVIOUS
    <2>2. PICK new : new = Append(old, e)
      OBVIOUS
    <2>3. r = [tl EXCEPT !.tmc_list = new, !.is_changed = TRUE]
      BY <1>1, <1>5, <2>1, <2>2 DEF TMC!add_string, IsTmcList
    <2>4. r.tmc_list = new /\ r.is_changed = TRUE
      BY <2>3 DEF IsTmcList
    <2>5. r = [tmc_list |-> r.tmc_list, tmc_provider |-> r.tmc_provider,
               is_changed |-> r.is_changed]
      BY <2>3 DEF IsTmcList
    <2>6. PICK m \in Nat : m = length + 1
      OBVIOUS
    <2>7. /\ IsSeq(new) /\ DOMAIN new = DOMAIN old \cup {m} /\ m \notin DOMAIN old
          /\ \A k \in DOMAIN old : new[k] = old[k]
          /\ new[m] = e
      BY <1>2, <1>3, <2>2, <2>6, IsSeqAppend
    <2>8. \A k \in DOMAIN old : old[k].data # line
      BY <1>1, <1>5 DEF TMC!HasLine
    <2>9. e.data = line /\ e.rx_time = time /\ e = [rx_time |-> e.rx_time, data |-> e.data]
      BY <2>1
    <2>10. Distinct(new)
      BY <1>3, <2>7, <2>8, <2>9 DEF Distinct
    <2>11. \A k \in DOMAIN new : new[k] = [rx_time |-> new[k].rx_time, data |-> new[k].data]
      BY <1>3, <2>7, <2>9
    <2>12. IsTmcList(r)
      BY <2>4, <2>5, <2>7, <2>10, <2>11 DEF IsTmcList
    <2> QED BY <1>1, <2>4, <2>7, <2>8, <2>9, <2>12
  <1> QED BY <1>4, <1>5

\* The line of a group, as the list knows it.
LineFor(tl, g) == TMC!Line(TMC!Provider(tl, g), g)

LEMMA ProviderHeard ==
    ASSUME NEW tl, IsTmcList(tl), NEW g, NEW r, r = TMC!Provider(tl, g)
    PROVE  IsTmcList(r) /\ r.tmc_list = tl.tmc_list
  <1>1. CASE r = tl
    BY <1>1
  <1>2. CASE r # tl
    <2>1. PICK provider : provider = [tl.tmc_provider EXCEPT ![g.CI - 3] = g.says]
      OBVIOUS
    <2>2. r = [tl EXCEPT !.tmc_provider = provider]
      BY <1>2, <2>1 DEF TMC!Provider
    <2>3. r.tmc_list = tl.tmc_list /\ r.is_changed = tl.is_changed
      BY <2>2 DEF IsTmcList
    <2>4. r = [tmc_list |-> r.tmc_list, tmc_provider |-> r.tmc_provider,
               is_changed |-> r.is_changed]
      BY <2>2 DEF IsTmcList
    <2> QED BY <2>3, <2>4 DEF IsTmcList
  <1> QED BY <1>1, <1>2

LEMMA TimeoutsChecked ==
    ASSUME NEW tl, IsTmcList(tl), NEW time, NEW r, r = TMC!check_timeouts(tl, time)
    PROVE  /\ IsTmcList(r)
           /\ Selected(r.tmc_list, tl.tmc_list, time, Len(tl.tmc_list))
           /\ r.is_changed <=> tl.is_changed \/ Len(r.tmc_list) < Len(tl.tmc_list)
  <1>1. PICK old : old = tl.tmc_list
    OBVIOUS
  <1>2. PICK length \in Nat : length = Len(old) /\ DOMAIN old = 1..length
    BY <1>1, IsSeqDomain DEF IsTmcList
  <1>3. PICK kept : kept = TMC!Kept(old, time)[Len(old)]
    OBVIOUS
  <1>4. Selected(kept, old, time, length)
    <2>1. IsSeq(old) /\ Distinct(old)
      BY <1>1 DEF IsTmcList
    <2> QED BY <1>2, <1>3, <2>1, KeptSelects
  <1>5. PICK changed \in BOOLEAN : changed <=> tl.is_changed \/ Len(kept) < Len(old)
    OBVIOUS
  <1>6. r = [tl EXCEPT !.tmc_list = kept, !.is_changed = changed]
    <2>1. tl.is_changed \in BOOLEAN
      BY DEF IsTmcList
    <2>2. (tl.is_changed \/ Len(kept) < Len(old)) = changed
      BY <1>5, <2>1
    <2> QED BY <1>1, <1>3, <2>2 DEF TMC!check_timeouts, IsTmcList
  <1>7. r.tmc_list = kept /\ r.is_changed = changed
    BY <1>6 DEF IsTmcList
  <1>8. r = [tmc_list |-> r.tmc_list, tmc_provider |-> r.tmc_provider,
             is_changed |-> r.is_changed]
    BY <1>6 DEF IsTmcList
  <1>9. IsSeq(kept) /\ Distinct(kept)
    BY <1>4 DEF Selected
  <1>10. ASSUME NEW j \in DOMAIN kept
         PROVE  kept[j] = [rx_time |-> kept[j].rx_time, data |-> kept[j].data]
    <2>1. PICK k \in 1..length : kept[j] = old[k]
      BY <1>4 DEF Selected
    <2>2. old[k] = [rx_time |-> old[k].rx_time, data |-> old[k].data]
      BY <1>1, <1>2 DEF IsTmcList
    <2> QED BY <2>1, <2>2
  <1>11. IsTmcList(r)
    BY <1>7, <1>8, <1>9, <1>10 DEF IsTmcList
  <1> QED BY <1>1, <1>2, <1>4, <1>5, <1>7, <1>11

\* A group: its line is new or gets a new time, old lines go, and a change of
\* what a client is told is noted.
LEMMA TmcGroupAdded ==
    ASSUME NEW tl, IsTmcList(tl), NEW g, NEW time, NEW r, r = TMC!AddGroup(tl, g, time),
           NEW line, line = LineFor(tl, g)
    PROVE  /\ IsTmcList(r)
           /\ \A k \in DOMAIN r.tmc_list :
                 /\ ~Old(r.tmc_list[k], time)
                 /\ \/ r.tmc_list[k].data = line /\ r.tmc_list[k].rx_time = time
                    \/ /\ r.tmc_list[k].data # line
                       /\ \E m \in DOMAIN tl.tmc_list : r.tmc_list[k] = tl.tmc_list[m]
           /\ \A m \in DOMAIN tl.tmc_list :
                 tl.tmc_list[m].data # line /\ ~Old(tl.tmc_list[m], time) =>
                    \E k \in DOMAIN r.tmc_list : r.tmc_list[k] = tl.tmc_list[m]
           /\ time \in Int => \E k \in DOMAIN r.tmc_list : r.tmc_list[k].data = line
           /\ TMC!Lines(r) = TMC!Lines(tl) \/ r.is_changed
  <1>1. PICK named : named = TMC!Provider(tl, g)
    OBVIOUS
  <1>2. PICK old : old = tl.tmc_list
    OBVIOUS
  <1>3. IsTmcList(named) /\ named.tmc_list = old
    BY <1>1, <1>2, ProviderHeard
  <1>4. PICK added : added = TMC!add_string(named, line, time)
    OBVIOUS
  <1>5. PICK longer : longer = added.tmc_list
    OBVIOUS
  <1>6. /\ IsTmcList(added)
        /\ \E k \in DOMAIN longer : longer[k].data = line
        /\ \A k \in DOMAIN longer :
              \/ longer[k].data = line /\ longer[k].rx_time = time
              \/ longer[k].data # line /\ k \in DOMAIN old /\ longer[k] = old[k]
        /\ \A k \in DOMAIN old : k \in DOMAIN longer /\ longer[k].data = old[k].data
        /\ Len(longer) = Len(old) \/ added.is_changed
    BY <1>3, <1>4, <1>5, StringAdded
  <1>7. PICK length \in Nat : length = Len(longer) /\ DOMAIN longer = 1..length
    BY <1>5, <1>6, IsSeqDomain DEF IsTmcList
  <1>8. r = TMC!check_timeouts(added, time)
    BY <1>1, <1>4 DEF TMC!AddGroup, LineFor
  <1>9. PICK kept : kept = r.tmc_list
    OBVIOUS
  <1>10. /\ IsTmcList(r) /\ Selected(kept, longer, time, length)
         /\ r.is_changed <=> added.is_changed \/ Len(kept) < length
    BY <1>5, <1>6, <1>7, <1>8, <1>9, TimeoutsChecked
  <1>11. ASSUME NEW k \in DOMAIN kept
         PROVE  /\ ~Old(kept[k], time)
                /\ \/ kept[k].data = line /\ kept[k].rx_time = time
                   \/ kept[k].data # line /\ \E m \in DOMAIN old : kept[k] = old[m]
    <2>1. PICK m \in 1..length : kept[k] = longer[m] /\ ~Old(longer[m], time)
      BY <1>10 DEF Selected
    <2> QED BY <1>6, <1>7, <2>1
  <1>12. ASSUME NEW m \in DOMAIN old, old[m].data # line, ~Old(old[m], time)
         PROVE  \E k \in DOMAIN kept : kept[k] = old[m]
    <2>1. m \in 1..length /\ longer[m].data = old[m].data
      BY <1>6, <1>7
    <2>2. longer[m] = old[m]
      BY <1>6, <1>7, <1>12, <2>1
    <2> QED BY <1>10, <1>12, <2>1, <2>2 DEF Selected
  <1>13. ASSUME time \in Int PROVE \E k \in DOMAIN kept : kept[k].data = line
    <2>1. PICK m \in 1..length : longer[m].data = line
      BY <1>6, <1>7
    <2>2. longer[m].rx_time = time
      BY <1>6, <1>7, <2>1
    <2>3. ~Old(longer[m], time)
      <3>1. time - time = 0 /\ ~(0 > time_to_live)
        BY <1>13, DecoderAssumption
      <3> QED BY <2>2, <3>1 DEF Old
    <2>4. PICK k \in DOMAIN kept : kept[k] = longer[m]
      BY <1>10, <2>3 DEF Selected
    <2> QED BY <2>1, <2>4
  <1>14. ASSUME ~r.is_changed PROVE TMC!Lines(r) = TMC!Lines(tl)
    <2>1. PICK m \in Nat : m = Len(kept) /\ DOMAIN kept = 1..m
      BY <1>9, <1>10, IsSeqDomain DEF IsTmcList
    <2>2. ~added.is_changed /\ ~(m < length) /\ m <= length
      BY <1>10, <1>14, <2>1 DEF Selected
    <2>3. m = length /\ Len(old) = length
      BY <1>6, <1>7, <2>2
    <2>4. DOMAIN old = 1..length
      BY <1>2, <2>3, IsSeqDomain DEF IsTmcList
    <2>5. \A k \in 1..length : kept[k] = longer[k] /\ longer[k].data = old[k].data
      BY <1>6, <1>10, <2>1, <2>3, <2>4 DEF Selected
    <2>6. [n \in DOMAIN kept |-> kept[n].data] = [n \in DOMAIN old |-> old[n].data]
      BY <2>1, <2>3, <2>4, <2>5
    <2> QED BY <1>2, <1>9, <2>6 DEF TMC!Lines
  <1> QED BY <1>2, <1>9, <1>10, <1>11, <1>12, <1>13, <1>14

\* When a message was heard, there is one that was heard last.
LEMMA LatestExists ==
    ASSUME NEW at \in [Messages -> Nat \cup {Never}], NEW time \in Nat,
           \A g \in Messages : at[g] <= time, NEW msg \in Messages, at[msg] # Never
    PROVE  \E last \in Nat : LatestAt(at, last) /\ last <= time /\ at[msg] <= last
  <1>1. PICK T : T = {t \in 0..time : \E g \in Messages : at[g] = t}
    OBVIOUS
  <1>2. T \subseteq Nat /\ IsFiniteSet(T)
    <2>1. IsFiniteSet(0..time)
      BY FS_Interval
    <2> QED BY <1>1, <2>1, FS_Subset
  <1>3. \A g \in Messages : at[g] # Never => at[g] \in T
    BY <1>1 DEF Never
  <1>4. Max(T) \in T /\ \A y \in T : y <= Max(T)
    BY <1>2, <1>3, GreatestMember
  <1>5. PICK last \in T : \A y \in T : y <= last
    BY <1>4
  <1>6. last \in Nat /\ last <= time /\ \E g \in Messages : at[g] = last
    BY <1>1, <1>5
  <1>7. \A g \in Messages : at[g] <= last
    BY <1>3, <1>5, <1>6 DEF Never
  <1> QED BY <1>6, <1>7 DEF LatestAt

\* A message is heard once more: the list stays right.
LEMMA ListStaysRight ==
    ASSUME NoProviderParts, NEW tl, IsTmcList(tl), NEW at \in [Messages -> Nat \cup {Never}],
           NEW msg \in Messages, NEW time \in Nat, \A g \in Messages : at[g] <= time,
           ListRight(tl.tmc_list, at),
           NEW r, r = TMC!AddGroup(tl, msg, time),
           NEW new_at, new_at = [at EXCEPT ![msg] = time]
    PROVE  ListRight(r.tmc_list, new_at)
  <1>1. PICK line : line = LineOf(msg)
    OBVIOUS
  <1>2. line = LineFor(tl, msg)
    BY <1>1 DEF NoProviderParts, LineOf, LineFor, TMC!Provider, TMC!Line
  <1>3. PICK old : old = tl.tmc_list
    OBVIOUS
  <1>4. PICK list : list = r.tmc_list
    OBVIOUS
  <1>5. /\ \A k \in DOMAIN list :
              /\ ~Old(list[k], time)
              /\ \/ list[k].data = line /\ list[k].rx_time = time
                 \/ list[k].data # line /\ \E m \in DOMAIN old : list[k] = old[m]
        /\ \A m \in DOMAIN old :
              old[m].data # line /\ ~Old(old[m], time) => \E k \in DOMAIN list : list[k] = old[m]
        /\ \E k \in DOMAIN list : list[k].data = line
    BY <1>2, <1>3, <1>4, TmcGroupAdded
  <1>6. /\ new_at[msg] = time
        /\ \A g \in Messages : g # msg => new_at[g] = at[g]
        /\ \A g \in Messages : new_at[g] <= time
    BY DEF Never
  <1>7. ASSUME NEW k \in DOMAIN list PROVE EntryRight(list[k], new_at)
    <2>1. PICK e : e = list[k]
      OBVIOUS
    <2>2. CASE e.data = line
      <3>1. e.rx_time = time
        BY <1>5, <2>1, <2>2
      <3> QED BY <1>1, <1>6, <2>1, <2>2, <3>1 DEF EntryRight
    <2>3. CASE e.data # line
      <3>1. PICK m \in DOMAIN old : e = old[m]
        BY <1>5, <2>1, <2>3
      <3>2. EntryRight(e, at)
        BY <1>3, <3>1 DEF ListRight
      <3>3. \A g \in Messages : LineOf(g) = e.data => new_at[g] = at[g]
        BY <1>1, <1>6, <2>3
      <3> QED BY <2>1, <3>2, <3>3 DEF EntryRight
    <2> QED BY <2>2, <2>3
  <1>8. ASSUME NEW last \in Nat, LatestAt(new_at, last)
        PROVE  /\ \A k \in DOMAIN list : last - list[k].rx_time <= time_to_live
               /\ \A g \in Messages : new_at[g] # Never /\ last - new_at[g] <= time_to_live =>
                     \E k \in DOMAIN list : list[k].data = LineOf(g)
    <2>1. last = time
      BY <1>6, <1>8 DEF LatestAt
    <2>2. ASSUME NEW k \in DOMAIN list PROVE last - list[k].rx_time <= time_to_live
      <3>1. PICK rx \in Nat : rx = list[k].rx_time
        BY <1>7 DEF EntryRight
      <3>2. ~(time - rx > time_to_live)
        BY <1>5, <3>1 DEF Old
      <3>3. time_to_live \in Nat
        BY DecoderAssumption
      <3> QED BY <2>1, <3>1, <3>2, <3>3
    <2>3. ASSUME NEW g \in Messages, new_at[g] # Never, last - new_at[g] <= time_to_live
          PROVE  \E k \in DOMAIN list : list[k].data = LineOf(g)
      <3>1. CASE LineOf(g) = line
        BY <1>5, <3>1
      <3>2. CASE LineOf(g) # line
        <4>1. at[g] # Never /\ time - at[g] <= time_to_live
          BY <1>1, <1>6, <2>1, <2>3, <3>2
        <4>2. PICK m \in DOMAIN old : old[m].data = LineOf(g) /\ EntryRight(old[m], at)
          <5>1. PICK latest \in Nat : LatestAt(at, latest) /\ latest <= time /\ at[g] <= latest
            BY <4>1, LatestExists
          <5>2. latest - at[g] <= time_to_live
            BY <4>1, <5>1, DecoderAssumption DEF Never
          <5> QED BY <1>3, <4>1, <5>1, <5>2 DEF ListRight
        <4>3. PICK rx \in Nat : rx = old[m].rx_time /\ at[g] <= rx
          BY <4>2 DEF EntryRight
        <4>4. ~(time - rx > time_to_live)
          BY <4>1, <4>3, DecoderAssumption DEF Never
        <4>5. ~Old(old[m], time)
          BY <4>3, <4>4 DEF Old
        <4> QED BY <1>5, <3>2, <4>2, <4>5
      <3> QED BY <3>1, <3>2
    <2> QED BY <2>2, <2>3
  <1> QED BY <1>4, <1>7, <1>8 DEF ListRight

\* A channel gets a TMC list.
LEMMA TmcSet ==
    ASSUME NEW d, IsDecoder(d), NEW n \in DOMAIN d.chlist, NEW tl, IsTmcList(tl),
           NEW e, e = [d EXCEPT !.chlist[n].tmc_list = tl]
    PROVE  /\ Follows(d, e) /\ SameTexts(d, e) /\ SameClock(d, e) /\ Serves(d, e)
           /\ e.events = d.events /\ e.chlist[n].tmc_list = tl
           /\ \A m \in DOMAIN d.chlist : m # n => e.chlist[m].tmc_list = d.chlist[m].tmc_list
           /\ DOMAIN e.chlist = DOMAIN d.chlist
  <1>0. PICK old : old = d.chlist[n]
    OBVIOUS
  <1>1. PICK ch : ch = [old EXCEPT !.tmc_list = tl]
    OBVIOUS
  <1>2. IsChannel(old)
    BY <1>0 DEF IsDecoder
  <1>3. /\ ch.PIcode = old.PIcode /\ ch.tmc_list = tl
        /\ ch.radio_text = old.radio_text /\ ch.AFlist = old.AFlist
        /\ ch.rds_flags = old.rds_flags /\ ch.PTYcode = old.PTYcode
    BY <1>1, <1>2 DEF IsChannel
  <1>4. ch = [PIcode |-> ch.PIcode, PTYcode |-> ch.PTYcode, rds_flags |-> ch.rds_flags,
              program_name |-> ch.program_name, AFlist |-> ch.AFlist,
              radio_text |-> ch.radio_text, tmc_list |-> ch.tmc_list]
    BY <1>1, <1>2 DEF IsChannel
  <1>5. IsChannel(ch)
    BY <1>2, <1>3, <1>4 DEF IsChannel
  <1>6. e = [d EXCEPT !.chlist = [d.chlist EXCEPT ![n] = ch]]
    BY <1>0, <1>1
  <1>7. Replaced(d, e, n, ch) /\ e.events = d.events
    BY <1>0, <1>3, <1>5, <1>6, ChannelReplaced
  <1>8. Follows(d, e)
    BY <1>0, <1>3, <1>7, ReplacedFollows
  <1>9. d.curchind \in DOMAIN d.chlist
    BY DEF IsDecoder
  <1> QED BY <1>0, <1>3, <1>7, <1>8, <1>9
          DEF Replaced, SameTexts, Serves, SameAltFreqs

LEMMA TrafficFacts ==
    ASSUME NEW d, IsDecoder(d), NEW g, NEW time, NEW e, e = Traffic(d, g, time),
           NEW n, n = d.curchind, NEW tl, tl = d.chlist[n].tmc_list
    PROVE  /\ Follows(d, e) /\ SameTexts(d, e) /\ SameClock(d, e) /\ Serves(d, e)
           /\ DOMAIN e.chlist = DOMAIN d.chlist
           /\ e.chlist[n].tmc_list = TMC!AddGroup(tl, g.tmc, time)
           /\ \A m \in DOMAIN d.chlist : m # n => e.chlist[m].tmc_list = d.chlist[m].tmc_list
           /\ TMC!Lines(e.chlist[n].tmc_list) = TMC!Lines(tl) \/ "tmc" \in e.events
  <1>1. n \in DOMAIN d.chlist
    BY DEF IsDecoder
  <1>2. PICK new : new = TMC!AddGroup(tl, g.tmc, time)
    OBVIOUS
  <1>3. IsTmcList(tl)
    BY <1>1 DEF IsDecoder, IsChannel
  <1>4. IsTmcList(new) /\ (TMC!Lines(new) = TMC!Lines(tl) \/ new.is_changed)
    <2>1. PICK msg : msg = g.tmc
      OBVIOUS
    <2>2. PICK line : line = LineFor(tl, msg)
      OBVIOUS
    <2> QED BY <1>2, <1>3, <2>1, <2>2, TmcGroupAdded
  <1>5. PICK c : c = [d EXCEPT !.chlist[n].tmc_list = new]
    OBVIOUS
  <1>6. PICK evnts : evnts = IF new.is_changed THEN {"tmc"} ELSE {}
    OBVIOUS
  <1>7. e = set_event(c, evnts)
    BY <1>2, <1>5, <1>6 DEF Traffic
  <1>8. /\ Follows(d, c) /\ SameTexts(d, c) /\ SameClock(d, c) /\ Serves(d, c)
        /\ c.events = d.events /\ c.chlist[n].tmc_list = new
        /\ \A m \in DOMAIN d.chlist : m # n => c.chlist[m].tmc_list = d.chlist[m].tmc_list
        /\ DOMAIN c.chlist = DOMAIN d.chlist
    <2>1. PICK k \in DOMAIN d.chlist : k = n
      BY <1>1
    <2>2. c = [d EXCEPT !.chlist[k].tmc_list = new] /\ IsTmcList(new)
      BY <1>4, <1>5, <2>1
    <2>3. /\ Follows(d, c) /\ SameTexts(d, c) /\ SameClock(d, c) /\ Serves(d, c)
          /\ c.events = d.events /\ c.chlist[k].tmc_list = new
          /\ \A m \in DOMAIN d.chlist : m # k => c.chlist[m].tmc_list = d.chlist[m].tmc_list
          /\ DOMAIN c.chlist = DOMAIN d.chlist
      BY <2>2, TmcSet
    <2> QED BY <2>1, <2>3
  <1>9. Tunes(c, e) /\ Serves(c, e) /\ e.events = c.events \cup evnts /\ e.chlist = c.chlist
    BY <1>7, <1>8, EventsTune DEF Follows
  <1>10. Follows(d, e)
    BY <1>8, <1>9 DEF Follows, Tunes
  <1>11. SameTexts(d, e) /\ SameClock(d, e) /\ Serves(d, e)
    BY <1>8, <1>9 DEF Tunes, SameTexts, SameClock, Serves, SameCurrent, SameAltFreqs
  <1>12. new.is_changed => "tmc" \in e.events
    BY <1>6, <1>9
  <1>13. TMC!Lines(e.chlist[n].tmc_list) = TMC!Lines(tl) \/ "tmc" \in e.events
    BY <1>4, <1>8, <1>9, <1>12
  <1> QED BY <1>2, <1>8, <1>9, <1>10, <1>11, <1>13

-----------------------------------------------------------------------------
(* The calendar of RDSdecoder::set_datetime_strings() *)

\* The days for which the code's formula is that of the calendar: a year of it
\* begins in March, from 1900 on.
CodeDays == {n \in Int : 15079 <= n /\ n <= 88127}

\* The year that the code computes begins in March: y the year, q the leap days
\* before it, and doy the day in it.
YearIs(jd, y, q) == DT!Year0(jd) = y /\ DT!Days0(y) = 365 * y + q
LeapDays(y, q) == 4 * q <= y /\ y <= 4 * q + 3
DayIs(jd, y, q, doy) == doy = jd - 15079 - 365 * y - q
LastDay(y, q, doy) == doy = 365 => y = 4 * q + 3
Ranges(y, q, doy) == y \in 0..200 /\ q \in 0..50 /\ doy \in 0..365
DayOfYear(jd, y, q, doy) ==
    Ranges(y, q, doy) /\ YearIs(jd, y, q) /\ LeapDays(y, q) /\ DayIs(jd, y, q, doy)
    /\ LastDay(y, q, doy)

LEMMA YearOfDay ==
    ASSUME NEW jd \in Int, jd \in CodeDays
    PROVE  \E y, q, doy \in Int : DayOfYear(jd, y, q, doy)
  <1>1. PICK y \in Int : y = (jd * 100 - 1507820) \div 36525
    BY SMT
  <1>2. y * 36525 <= jd * 100 - 1507820 /\ jd * 100 - 1507820 < y * 36525 + 36525
    BY SMT, <1>1
  <1>3. y \in 0..200
    <2>1. jd * 100 - 1507820 >= 0 /\ jd * 100 - 1507820 <= 7304880
      BY SMT DEF CodeDays
    <2>2. 0 <= y
      BY SMT, <1>2, <2>1
    <2>3. y <= 200
      BY SMT, <1>2, <2>1
    <2> QED BY SMT, <2>2, <2>3
  <1>4. DT!Year0(jd) = y
    <2>1. jd * 100 - 1507820 >= 0
      BY SMT DEF CodeDays
    <2> QED BY SMT, <1>1, <2>1 DEF DT!Year0, DT!Cut
  <1>5. PICK q \in Int : 4 * q <= y /\ y <= 4 * q + 3
    <2>1. y \div 4 \in Int /\ 4 * (y \div 4) <= y /\ y <= 4 * (y \div 4) + 3
      BY SMT, <1>3
    <2> QED BY SMT, <2>1
  <1>6. q \in 0..50
    BY SMT, <1>3, <1>5
  <1>7. DT!Days0(y) = 365 * y + q
    <2>1. (y * 36525) \div 100 = 365 * y + q
      BY SMT, <1>3, <1>5, <1>6
    <2> QED BY SMT, <1>3, <2>1 DEF DT!Days0, DT!Cut
  <1>8. PICK doy \in Int : doy = jd - 15079 - 365 * y - q
    BY SMT
  <1>9. doy \in 0..365
    BY SMT, <1>2, <1>3, <1>5, <1>6, <1>8
  <1>10. doy = 365 => y = 4 * q + 3
    BY SMT, <1>2, <1>3, <1>5, <1>6, <1>8
  <1>11. jd = 15079 + 365 * y + q + doy
    BY SMT, <1>8
  <1>12. YearIs(jd, y, q)
    BY SMT, <1>4, <1>7 DEF YearIs
  <1>13. LeapDays(y, q)
    BY SMT, <1>5 DEF LeapDays
  <1>14. DayIs(jd, y, q, doy)
    BY SMT, <1>8 DEF DayIs
  <1>16. LastDay(y, q, doy)
    BY SMT, <1>10 DEF LastDay
  <1>15. Ranges(y, q, doy)
    BY SMT, <1>3, <1>6, <1>9 DEF Ranges
  <1> QED BY SMT, <1>12, <1>13, <1>14, <1>15, <1>16 DEF DayOfYear

\* The code counts months from March, as 4, to February: the first day of each
\* in the year, and what UtcDate() makes of it.
InMonth(doy, m, first, day) ==
    /\ (doy * 10000 + 1229000) \div 306001 = m
    /\ (m * 306001) \div 10000 = first + 122
    /\ first <= doy /\ day = doy - first + 1

CivilDate(y, m, day) == IF m > 13 THEN [Y |-> y + 1901, M |-> m - 13, D |-> day]
                                  ELSE [Y |-> y + 1900, M |-> m - 1, D |-> day]

Located(jd, y, q, doy, m, first, day) ==
    /\ jd \in Int /\ jd \in CodeDays /\ y \in Int /\ q \in Int /\ doy \in Int
    /\ DayOfYear(jd, y, q, doy)
    /\ m \in 4..15 /\ first \in 0..365 /\ day \in Int
    /\ InMonth(doy, m, first, day)

LEMMA DateOfDay ==
    ASSUME NEW jd, NEW y, NEW q, NEW doy, NEW m, NEW first, NEW day,
           Located(jd, y, q, doy, m, first, day)
    PROVE  DT!UtcDate(jd) = CivilDate(y, m, day)
  <1>0. /\ jd \in Int /\ jd \in CodeDays /\ y \in Int /\ q \in Int /\ doy \in Int
        /\ DayOfYear(jd, y, q, doy)
        /\ m \in 4..15 /\ first \in 0..365 /\ day \in Int
        /\ InMonth(doy, m, first, day)
    BY SMT DEF Located
  <1>1. y \in 0..200 /\ q \in 0..50 /\ doy \in 0..365
    BY SMT, <1>0 DEF DayOfYear, Ranges
  <1>2. DT!Year0(jd) = y
    BY SMT, <1>0 DEF DayOfYear, YearIs
  <1>3. PICK days \in Int : days = DT!Days0(y) /\ days = 365 * y + q
    BY SMT, <1>0, <1>1 DEF DayOfYear, YearIs
  <1>4. jd - days = doy + 15079
    BY SMT, <1>0, <1>1, <1>3 DEF DayOfYear, DayIs
  <1>5. DT!Month0(jd) = m
    <2>1. jd * 10000 - 149561000 - days * 10000 = doy * 10000 + 1229000
      BY SMT, <1>0, <1>3, <1>4
    <2>2. DT!Month0(jd) = DT!Cut(doy * 10000 + 1229000, 306001)
      BY SMT, <1>0, <1>2, <1>3, <2>1 DEF DT!Month0
    <2>3. doy * 10000 + 1229000 >= 0
      BY SMT, <1>0, <1>1
    <2> QED BY SMT, <1>0, <2>2, <2>3 DEF DT!Cut, InMonth
  <1>6. DT!Day0(jd) = day
    <2>1. DT!Cut(m * 306001, 10000) = first + 122
      BY SMT, <1>0 DEF DT!Cut, InMonth
    <2>2. DT!Day0(jd) = jd - 14956 - days - (first + 122)
      BY SMT, <1>0, <1>2, <1>3, <1>5, <2>1 DEF DT!Day0
    <2> QED BY SMT, <1>0, <1>1, <1>3, <1>4, <2>2 DEF InMonth
  <1>7. CASE m > 13
    <2>1. m \in {14, 15}
      BY SMT, <1>0, <1>7
    <2>2. DT!UtcDate(jd) = [Y |-> y + 1 + 1900, M |-> m - 1 - 1 * 12, D |-> day]
      BY SMT, <1>0, <1>2, <1>5, <1>6, <2>1 DEF DT!UtcDate
    <2>3. y + 1 + 1900 = y + 1901 /\ m - 1 - 1 * 12 = m - 13
      BY SMT, <1>0
    <2> QED BY SMT, <1>0, <1>7, <2>2, <2>3 DEF CivilDate
  <1>8. CASE ~(m > 13)
    <2>1. m \notin {14, 15}
      BY SMT, <1>0, <1>8
    <2>2. DT!UtcDate(jd) = [Y |-> y + 0 + 1900, M |-> m - 1 - 0 * 12, D |-> day]
      BY SMT, <1>0, <1>2, <1>5, <1>6, <2>1 DEF DT!UtcDate
    <2>3. y + 0 + 1900 = y + 1900 /\ m - 1 - 0 * 12 = m - 1
      BY SMT, <1>0, <1>1
    <2> QED BY SMT, <1>0, <1>8, <2>2, <2>3 DEF CivilDate
  <1> QED BY SMT, <1>0, <1>7, <1>8

\* The date of a day is of the calendar, and of that day.
DateRight(jd) == DT!IsDate(DT!UtcDate(jd)) /\ DT!JulDate(DT!UtcDate(jd)) = jd

MonthIs(m, first, doy) ==
    \E length \in 30..31 : /\ DT!month_days[m - 1] = length
                           /\ doy < first + length
                           /\ DT!days_before[m - 1] = first + 59

LEMMA MonthRight ==
    ASSUME NEW jd \in Int, jd \in CodeDays, NEW y \in Int, NEW q \in Int, NEW doy \in Int,
           DayOfYear(jd, y, q, doy),
           NEW m \in 4..13, NEW first \in 0..365, NEW day \in Int,
           InMonth(doy, m, first, day),
           MonthIs(m, first, doy)
    PROVE  DateRight(jd)
  <1>0. PICK length \in 30..31 : /\ DT!month_days[m - 1] = length
                                 /\ doy < first + length
                                 /\ DT!days_before[m - 1] = first + 59
    BY SMT DEF MonthIs
  <1>1. y \in 0..200 /\ q \in 0..50 /\ doy \in 0..365 /\ 4 * q <= y /\ y <= 4 * q + 3
    BY SMT DEF DayOfYear, Ranges, LeapDays
  <1>2. PICK date : date = DT!UtcDate(jd)
    BY SMT
  <1>3. date.Y = y + 1900 /\ date.M = m - 1 /\ date.D = day
    <2>1. m \in 4..15 /\ ~(m > 13)
      BY SMT
    <2>2. date = CivilDate(y, m, day)
      <3>1. Located(jd, y, q, doy, m, first, day)
        BY SMT DEF Located
      <3>2. DT!UtcDate(jd) = CivilDate(y, m, day)
        BY <3>1, DateOfDay
      <3> QED BY SMT, <1>2, <3>2
    <2> QED BY SMT, <2>1, <2>2 DEF CivilDate
  <1>4. date.M # 2 /\ date.M > 2 /\ date.M \in 1..12
    <2>1. m # 3 /\ m - 1 > 2
      BY SMT
    <2> QED BY SMT, <1>3, <2>1
  <1>5. DT!IsDate(date)
    <2>1. DT!month_days[date.M] = length
      BY SMT, <1>0, <1>3
    <2>2. date.D \in 1..length
      BY SMT, <1>0, <1>1, <1>3 DEF InMonth
    <2> QED BY SMT, <1>4, <2>1, <2>2 DEF DT!IsDate
  <1>6. DT!JulDate(date) = jd
    <2>1. PICK leap \in 0..1 : leap = IF DT!Leap(date.Y) THEN 1 ELSE 0
      BY SMT
    <2>2. DT!DaysBeforeMonth(date.Y, date.M) = first + 59 + leap
      BY SMT, <1>0, <1>3, <1>4, <2>1 DEF DT!DaysBeforeMonth
    <2>3. PICK past \in Int : past = (date.Y - 1901) \div 4
      BY SMT, <1>1, <1>3
    <2>4. past + leap = q
      <3>1. date.Y - 1901 = y - 1
        BY SMT, <1>1, <1>3
      <3>2. CASE y = 4 * q
        <4>1. (y + 1900) % 4 = 0
          BY SMT, <1>1, <3>2
        <4>2. (y - 1) \div 4 = q - 1
          BY SMT, <1>1, <3>2
        <4> QED BY SMT, <1>1, <1>3, <2>1, <2>3, <3>1, <4>1, <4>2 DEF DT!Leap
      <3>3. CASE y # 4 * q
        <4>1. (y + 1900) % 4 # 0
          BY SMT, <1>1, <3>3
        <4>2. (y - 1) \div 4 = q
          BY SMT, <1>1, <3>3
        <4> QED BY SMT, <1>1, <1>3, <2>1, <2>3, <3>1, <4>1, <4>2 DEF DT!Leap
      <3> QED BY SMT, <3>2, <3>3
    <2>5. DT!JulDate(date) = 15385 + (date.Y - 1901) * 365 + past + (first + 59 + leap) + date.D - 1
      BY SMT, <2>2, <2>3 DEF DT!JulDate
    <2>6. DT!JulDate(date) = 15385 + (y - 1) * 365 + past + (first + 59 + leap) + day - 1
      <3>1. date.Y - 1901 = y - 1
        BY SMT, <1>1, <1>3
      <3> QED BY SMT, <1>3, <2>5, <3>1
    <2> QED BY SMT, <1>1, <2>4, <2>6 DEF DayOfYear, DayIs, InMonth
  <1> QED BY SMT, <1>2, <1>5, <1>6 DEF DateRight

LateMonthIs(m, first, doy) ==
    \/ m = 14 /\ first = 306 /\ doy <= 336
    \/ m = 15 /\ first = 337

LEMMA WinterRight ==
    ASSUME NEW jd \in Int, jd \in CodeDays, NEW y \in Int, NEW q \in Int, NEW doy \in Int,
           DayOfYear(jd, y, q, doy),
           NEW m \in 14..15, NEW first \in 0..365, NEW day \in Int,
           InMonth(doy, m, first, day),
           LateMonthIs(m, first, doy)
    PROVE  DateRight(jd)
  <1>0. \/ m = 14 /\ first = 306 /\ doy <= 336
        \/ m = 15 /\ first = 337
    BY SMT DEF LateMonthIs
  <1>1. y \in 0..200 /\ q \in 0..50 /\ doy \in 0..365 /\ 4 * q <= y /\ y <= 4 * q + 3
    BY SMT DEF DayOfYear, Ranges, LeapDays
  <1>2. PICK date : date = DT!UtcDate(jd)
    BY SMT
  <1>3. date.Y = y + 1901 /\ date.M = m - 13 /\ date.D = day
    <2>1. m \in 4..15 /\ m > 13
      BY SMT
    <2>2. date = CivilDate(y, m, day)
      <3>1. Located(jd, y, q, doy, m, first, day)
        BY SMT DEF Located
      <3>2. DT!UtcDate(jd) = CivilDate(y, m, day)
        BY <3>1, DateOfDay
      <3> QED BY SMT, <1>2, <3>2
    <2> QED BY SMT, <2>1, <2>2 DEF CivilDate
  <1>4. date.M \in {1, 2} /\ ~(date.M > 2)
    BY SMT, <1>3
  <1>5. DT!IsDate(date)
    <2>1. DT!month_days[1] = 31 /\ DT!month_days[2] = 28
      BY SMT DEF DT!month_days
    <2>2. CASE m = 14
      <3>1. date.M = 1 /\ date.D \in 1..31
        BY SMT, <1>0, <1>1, <1>3, <2>2 DEF InMonth
      <3> QED BY SMT, <2>1, <3>1 DEF DT!IsDate
    <2>3. CASE m = 15 /\ doy < 365
      <3>1. date.M = 2 /\ date.D \in 1..28
        BY SMT, <1>0, <1>1, <1>3, <2>3 DEF InMonth
      <3> QED BY SMT, <2>1, <3>1 DEF DT!IsDate
    <2>4. CASE m = 15 /\ doy = 365
      <3>1. date.M = 2 /\ date.D = 29
        BY SMT, <1>0, <1>1, <1>3, <2>4 DEF InMonth
      <3>2. y = 4 * q + 3
        BY SMT, <2>4 DEF DayOfYear, LastDay
      <3>3. (y + 1901) % 4 = 0
        BY SMT, <1>1, <3>2
      <3>4. DT!Leap(date.Y)
        BY SMT, <1>3, <3>3 DEF DT!Leap
      <3> QED BY SMT, <3>1, <3>4 DEF DT!IsDate
    <2>5. m = 14 \/ (m = 15 /\ doy < 365) \/ (m = 15 /\ doy = 365)
      BY SMT, <1>0, <1>1
    <2> QED BY <2>2, <2>3, <2>4, <2>5
  <1>6. DT!JulDate(date) = jd
    <2>1. DT!days_before[1] = 0 /\ DT!days_before[2] = 31
      BY SMT DEF DT!days_before
    <2>2. DT!DaysBeforeMonth(date.Y, date.M) = first - 306
      BY SMT, <1>0, <1>3, <1>4, <2>1 DEF DT!DaysBeforeMonth
    <2>3. (date.Y - 1901) \div 4 = q
      <3>1. date.Y - 1901 = y
        BY SMT, <1>1, <1>3
      <3>2. y \div 4 = q
        BY SMT, <1>1
      <3> QED BY SMT, <3>1, <3>2
    <2>4. DT!JulDate(date) = 15385 + (date.Y - 1901) * 365 + q + (first - 306) + date.D - 1
      BY SMT, <2>2, <2>3 DEF DT!JulDate
    <2>5. DT!JulDate(date) = 15385 + y * 365 + q + (first - 306) + day - 1
      <3>1. date.Y - 1901 = y
        BY SMT, <1>1, <1>3
      <3> QED BY SMT, <1>3, <2>4, <3>1
    <2> QED BY SMT, <1>1, <2>5 DEF DayOfYear, DayIs, InMonth
  <1> QED BY SMT, <1>2, <1>5, <1>6 DEF DateRight

LEMMA DaysAreRight ==
    ASSUME NEW jd \in Int, jd \in CodeDays
    PROVE  DateRight(jd)
  <1>1. PICK y, q, doy \in Int : DayOfYear(jd, y, q, doy)
    BY SMT, YearOfDay
  <1>2. doy \in 0..365
    BY SMT, <1>1 DEF DayOfYear, Ranges
  <1>3. CASE doy \in 0..30
    <2>1. PICK m \in 4..13, first \in 0..365, day \in Int :
             m = 4 /\ first = 0 /\ day = doy - 0 + 1
      BY SMT
    <2>2. InMonth(doy, m, first, day)
      BY SMT, <1>3, <2>1 DEF InMonth
    <2>3. MonthIs(m, first, doy)
      BY SMT, <1>3, <2>1 DEF MonthIs, DT!month_days, DT!days_before
    <2> QED BY Zenon, <1>1, <2>2, <2>3, MonthRight
  <1>4. CASE doy \in 31..60
    <2>1. PICK m \in 4..13, first \in 0..365, day \in Int :
             m = 5 /\ first = 31 /\ day = doy - 31 + 1
      BY SMT
    <2>2. InMonth(doy, m, first, day)
      BY SMT, <1>4, <2>1 DEF InMonth
    <2>3. MonthIs(m, first, doy)
      BY SMT, <1>4, <2>1 DEF MonthIs, DT!month_days, DT!days_before
    <2> QED BY Zenon, <1>1, <2>2, <2>3, MonthRight
  <1>5. CASE doy \in 61..91
    <2>1. PICK m \in 4..13, first \in 0..365, day \in Int :
             m = 6 /\ first = 61 /\ day = doy - 61 + 1
      BY SMT
    <2>2. InMonth(doy, m, first, day)
      BY SMT, <1>5, <2>1 DEF InMonth
    <2>3. MonthIs(m, first, doy)
      BY SMT, <1>5, <2>1 DEF MonthIs, DT!month_days, DT!days_before
    <2> QED BY Zenon, <1>1, <2>2, <2>3, MonthRight
  <1>6. CASE doy \in 92..121
    <2>1. PICK m \in 4..13, first \in 0..365, day \in Int :
             m = 7 /\ first = 92 /\ day = doy - 92 + 1
      BY SMT
    <2>2. InMonth(doy, m, first, day)
      BY SMT, <1>6, <2>1 DEF InMonth
    <2>3. MonthIs(m, first, doy)
      BY SMT, <1>6, <2>1 DEF MonthIs, DT!month_days, DT!days_before
    <2> QED BY Zenon, <1>1, <2>2, <2>3, MonthRight
  <1>7. CASE doy \in 122..152
    <2>1. PICK m \in 4..13, first \in 0..365, day \in Int :
             m = 8 /\ first = 122 /\ day = doy - 122 + 1
      BY SMT
    <2>2. InMonth(doy, m, first, day)
      BY SMT, <1>7, <2>1 DEF InMonth
    <2>3. MonthIs(m, first, doy)
      BY SMT, <1>7, <2>1 DEF MonthIs, DT!month_days, DT!days_before
    <2> QED BY Zenon, <1>1, <2>2, <2>3, MonthRight
  <1>8. CASE doy \in 153..183
    <2>1. PICK m \in 4..13, first \in 0..365, day \in Int :
             m = 9 /\ first = 153 /\ day = doy - 153 + 1
      BY SMT
    <2>2. InMonth(doy, m, first, day)
      BY SMT, <1>8, <2>1 DEF InMonth
    <2>3. MonthIs(m, first, doy)
      BY SMT, <1>8, <2>1 DEF MonthIs, DT!month_days, DT!days_before
    <2> QED BY Zenon, <1>1, <2>2, <2>3, MonthRight
  <1>9. CASE doy \in 184..213
    <2>1. PICK m \in 4..13, first \in 0..365, day \in Int :
             m = 10 /\ first = 184 /\ day = doy - 184 + 1
      BY SMT
    <2>2. InMonth(doy, m, first, day)
      BY SMT, <1>9, <2>1 DEF InMonth
    <2>3. MonthIs(m, first, doy)
      BY SMT, <1>9, <2>1 DEF MonthIs, DT!month_days, DT!days_before
    <2> QED BY Zenon, <1>1, <2>2, <2>3, MonthRight
  <1>10. CASE doy \in 214..244
    <2>1. PICK m \in 4..13, first \in 0..365, day \in Int :
             m = 11 /\ first = 214 /\ day = doy - 214 + 1
      BY SMT
    <2>2. InMonth(doy, m, first, day)
      BY SMT, <1>10, <2>1 DEF InMonth
    <2>3. MonthIs(m, first, doy)
      BY SMT, <1>10, <2>1 DEF MonthIs, DT!month_days, DT!days_before
    <2> QED BY Zenon, <1>1, <2>2, <2>3, MonthRight
  <1>11. CASE doy \in 245..274
    <2>1. PICK m \in 4..13, first \in 0..365, day \in Int :
             m = 12 /\ first = 245 /\ day = doy - 245 + 1
      BY SMT
    <2>2. InMonth(doy, m, first, day)
      BY SMT, <1>11, <2>1 DEF InMonth
    <2>3. MonthIs(m, first, doy)
      BY SMT, <1>11, <2>1 DEF MonthIs, DT!month_days, DT!days_before
    <2> QED BY Zenon, <1>1, <2>2, <2>3, MonthRight
  <1>12. CASE doy \in 275..305
    <2>1. PICK m \in 4..13, first \in 0..365, day \in Int :
             m = 13 /\ first = 275 /\ day = doy - 275 + 1
      BY SMT
    <2>2. InMonth(doy, m, first, day)
      BY SMT, <1>12, <2>1 DEF InMonth
    <2>3. MonthIs(m, first, doy)
      BY SMT, <1>12, <2>1 DEF MonthIs, DT!month_days, DT!days_before
    <2> QED BY Zenon, <1>1, <2>2, <2>3, MonthRight
  <1>13. CASE doy \in 306..336
    <2>1. PICK m \in 14..15, first \in 0..365, day \in Int :
             m = 14 /\ first = 306 /\ day = doy - 306 + 1
      BY SMT
    <2>2. InMonth(doy, m, first, day)
      BY SMT, <1>13, <2>1 DEF InMonth
    <2>3. LateMonthIs(m, first, doy)
      BY SMT, <1>13, <2>1 DEF LateMonthIs
    <2> QED BY Zenon, <1>1, <2>2, <2>3, WinterRight
  <1>14. CASE doy \in 337..365
    <2>1. PICK m \in 14..15, first \in 0..365, day \in Int :
             m = 15 /\ first = 337 /\ day = doy - 337 + 1
      BY SMT
    <2>2. InMonth(doy, m, first, day)
      BY SMT, <1>14, <2>1 DEF InMonth
    <2>3. LateMonthIs(m, first, doy)
      BY SMT, <1>14, <2>1 DEF LateMonthIs
    <2> QED BY Zenon, <1>1, <2>2, <2>3, WinterRight
  <1> QED BY SMT, <1>2, <1>3, <1>4, <1>5, <1>6, <1>7, <1>8, <1>9, <1>10, <1>11, <1>12, <1>13, <1>14

\* A date of the calendar as its three numbers.
CalendarDate(d, Y, M, D) ==
    /\ d = [Y |-> Y, M |-> M, D |-> D]
    /\ Y \in Nat /\ 0 < Y /\ Y < 3000 /\ M \in 1..12 /\ D \in 1..31
    /\ DT!IsDate(d)

LEMMA UtcCalendarDate ==
    ASSUME NEW jd \in Int, jd \in CodeDays
    PROVE  \E Y, M, D \in Int : CalendarDate(DT!UtcDate(jd), Y, M, D)
  <1>1. PICK y, q, doy \in Int : DayOfYear(jd, y, q, doy)
    BY SMT, YearOfDay
  <1>2. y \in 0..200
    BY SMT, <1>1 DEF DayOfYear, Ranges
  <1>3. PICK k \in {0, 1} : k = IF DT!Month0(jd) \in {14, 15} THEN 1 ELSE 0
    BY SMT
  <1>4. PICK Y, M, D : /\ Y = DT!Year0(jd) + k + 1900 /\ M = DT!Month0(jd) - 1 - k * 12
                       /\ D = DT!Day0(jd)
    BY SMT
  <1>5. DT!UtcDate(jd) = [Y |-> Y, M |-> M, D |-> D]
    BY SMT, <1>3, <1>4 DEF DT!UtcDate
  <1>6. Y \in Nat /\ 0 < Y /\ Y < 3000
    BY SMT, <1>1, <1>2, <1>3, <1>4 DEF DayOfYear, YearIs
  <1>7. DT!IsDate(DT!UtcDate(jd))
    BY DaysAreRight DEF DateRight
  <1>8. M \in 1..12
    BY SMT, <1>5, <1>7 DEF DT!IsDate
  <1>9. D \in 1..31
    <2>1. \A m \in 1..12 : DT!month_days[m] \in 28..31
      BY SMT DEF DT!month_days
    <2>2. D \in 1..29 \/ D \in 1..DT!month_days[M]
      BY SMT, <1>5, <1>7 DEF DT!IsDate
    <2>3. DT!month_days[M] \in 28..31
      BY SMT, <1>8, <2>1
    <2> QED BY SMT, <2>2, <2>3
  <1>10. CalendarDate(DT!UtcDate(jd), Y, M, D)
    BY SMT, <1>5, <1>6, <1>7, <1>8, <1>9 DEF CalendarDate
  <1> QED BY SMT, <1>6, <1>8, <1>9, <1>10

\* A month begins when the one before has ended.
LEMMA MonthsFollow ==
    /\ \A m \in 2..12 : DT!days_before[m] = DT!days_before[m - 1] + DT!month_days[m - 1]
    /\ \A m \in 1..12 : DT!days_before[m] \in 0..334 /\ DT!month_days[m] \in 28..31
    /\ DT!days_before[1] = 0 /\ DT!days_before[12] = 334
    /\ DT!month_days[12] = 31 /\ DT!month_days[2] = 28
  BY SMT DEF DT!days_before, DT!month_days

\* The first day of a month is the one after the last day of the month before.
LengthOf(Y, M) == IF DT!Leap(Y) /\ M = 2 THEN 29 ELSE DT!month_days[M]

FirstOfNext(Y, M) == [Y |-> IF M = 12 THEN Y + 1 ELSE Y, M |-> IF M = 12 THEN 1 ELSE M + 1, D |-> 1]

LastOf(Y, M) == [Y |-> Y, M |-> M, D |-> LengthOf(Y, M)]

LEMMA NextMonth ==
    ASSUME NEW Y \in Nat, Y < 3000, NEW M \in 1..12
    PROVE  DT!JulDate(FirstOfNext(Y, M)) = DT!JulDate(LastOf(Y, M)) + 1
  <1>1. PICK length \in 28..31 : length = LengthOf(Y, M)
    BY SMT, MonthsFollow DEF LengthOf
  <1>2. PICK leap \in 0..1 : leap = IF DT!Leap(Y) THEN 1 ELSE 0
    BY SMT
  <1>3. CASE M = 12
    <2>1. length = 31
      BY SMT, <1>1, <1>3, MonthsFollow DEF LengthOf
    <2>2. DT!JulDate([Y |-> Y, M |-> 12, D |-> length])
            = 15385 + (Y - 1901) * 365 + (Y - 1901) \div 4 + (334 + leap) + 31 - 1
      BY SMT, <1>2, <2>1, MonthsFollow DEF DT!JulDate, DT!DaysBeforeMonth
    <2>3. DT!JulDate([Y |-> Y + 1, M |-> 1, D |-> 1])
            = 15385 + (Y + 1 - 1901) * 365 + (Y + 1 - 1901) \div 4 + 0 + 1 - 1
      BY SMT, MonthsFollow DEF DT!JulDate, DT!DaysBeforeMonth
    <2>4. (Y + 1 - 1901) \div 4 = (Y - 1901) \div 4 + leap
      BY SMT, <1>2 DEF DT!Leap
    <2>5. FirstOfNext(Y, M) = [Y |-> Y + 1, M |-> 1, D |-> 1]
      BY SMT, <1>3 DEF FirstOfNext
    <2> QED BY SMT, <1>1, <1>3, <2>2, <2>3, <2>4, <2>5 DEF LastOf
  <1>4. CASE M # 12
    <2>1. PICK before \in 0..334 : before = DT!days_before[M]
      BY SMT, MonthsFollow
    <2>2. PICK days \in 28..31 : days = DT!month_days[M]
      BY SMT, MonthsFollow
    <2>3. DT!days_before[M + 1] = before + days
      <3>1. M + 1 \in 2..12 /\ (M + 1) - 1 = M
        BY SMT, <1>4
      <3> QED BY SMT, <2>1, <2>2, <3>1, MonthsFollow
    <2>4. PICK past \in Int : past = (Y - 1901) \div 4
      BY SMT
    <2>5. DT!JulDate([Y |-> Y, M |-> M, D |-> length])
            = 15385 + (Y - 1901) * 365 + past + (before + (IF M > 2 THEN leap ELSE 0)) + length - 1
      BY SMT, <1>2, <2>1, <2>4 DEF DT!JulDate, DT!DaysBeforeMonth
    <2>6. DT!JulDate([Y |-> Y, M |-> M + 1, D |-> 1])
            = 15385 + (Y - 1901) * 365 + past + (before + days + (IF M > 1 THEN leap ELSE 0)) + 1 - 1
      BY SMT, <1>2, <2>3, <2>4 DEF DT!JulDate, DT!DaysBeforeMonth
    <2>7. length = days + (IF M = 2 THEN leap ELSE 0)
      BY SMT, <1>1, <1>2, <2>2, MonthsFollow DEF LengthOf
    <2>8. FirstOfNext(Y, M) = [Y |-> Y, M |-> M + 1, D |-> 1]
      BY SMT, <1>4 DEF FirstOfNext
    <2> QED BY SMT, <1>1, <2>5, <2>6, <2>7, <2>8 DEF LastOf
  <1> QED BY <1>3, <1>4

LEMMA DaysBefore ==
    ASSUME NEW Y, Y \in Nat, NEW M, M \in 1..12
    PROVE  DT!DaysBeforeMonth(Y, M) \in Int
  <1>1. PICK days \in Nat : days = DT!days_before[M]
    BY SMT, MonthsFollow
  <1>2. DT!DaysBeforeMonth(Y, M) = days + (IF M > 2 /\ DT!Leap(Y) THEN 1 ELSE 0)
    BY Zenon, <1>1 DEF DT!DaysBeforeMonth
  <1> QED BY SMT, <1>2

LEMMA Lengths ==
    ASSUME NEW Y, NEW M, M \in 1..12
    PROVE  LengthOf(Y, M) \in 28..31
  <1>1. DT!month_days[M] \in 28..31
    BY SMT, MonthsFollow
  <1> QED BY SMT, <1>1 DEF LengthOf

LEMMA DayBefore ==
    ASSUME NEW d, NEW Y, NEW M, NEW D, CalendarDate(d, Y, M, D)
    PROVE  /\ DT!IsDate(DT!PreviousDay(d))
           /\ DT!JulDate(DT!PreviousDay(d)) = DT!JulDate(d) - 1
  <1>1. d = [Y |-> Y, M |-> M, D |-> D] /\ Y \in Nat /\ 0 < Y /\ Y < 3000 /\ M \in 1..12 /\ D \in 1..31
    BY SMT DEF CalendarDate
  <1>2. D \in 1..LengthOf(Y, M)
    BY SMT, <1>1 DEF CalendarDate, DT!IsDate, LengthOf
  <1>3. LengthOf(Y, M) \in 28..31
    BY SMT, <1>1, Lengths
  <1>4. CASE D > 1
    <2>1. DT!PreviousDay(d) = [Y |-> Y, M |-> M, D |-> D - 1]
      BY SMT, <1>1, <1>4 DEF DT!PreviousDay
    <2>2. D - 1 \in 1..LengthOf(Y, M)
      BY SMT, <1>1, <1>2, <1>3, <1>4
    <2>3. DT!IsDate([Y |-> Y, M |-> M, D |-> D - 1])
      BY SMT, <1>1, <2>2 DEF DT!IsDate, LengthOf
    <2>4. PICK day0 \in Int : day0 = 15385 + (Y - 1901) * 365 + (Y - 1901) \div 4
                                        + DT!DaysBeforeMonth(Y, M)
      <3>1. DT!DaysBeforeMonth(Y, M) \in Int
        BY SMT, <1>1, DaysBefore
      <3> QED BY SMT, <1>1, <3>1
    <2>5. DT!JulDate([Y |-> Y, M |-> M, D |-> D - 1]) = day0 + (D - 1) - 1
      BY SMT, <2>4 DEF DT!JulDate
    <2>6. DT!JulDate([Y |-> Y, M |-> M, D |-> D]) = day0 + D - 1
      BY SMT, <2>4 DEF DT!JulDate
    <2>7. DT!JulDate(d) = day0 + D - 1
      BY SMT, <1>1, <2>6
    <2>8. day0 + (D - 1) - 1 = (day0 + D - 1) - 1
      BY SMT, <1>1
    <2> QED BY SMT, <2>1, <2>3, <2>5, <2>7, <2>8
  <1>5. CASE ~(D > 1)
    <2>1. D = 1
      BY SMT, <1>1, <1>5
    <2>2. PICK PY \in Nat, PM \in 1..12 : /\ PY < 3000
                                          /\ PY = IF M = 1 THEN Y - 1 ELSE Y
                                          /\ PM = IF M = 1 THEN 12 ELSE M - 1
      <3>1. (IF M = 1 THEN Y - 1 ELSE Y) \in Nat /\ (IF M = 1 THEN Y - 1 ELSE Y) < 3000
        BY SMT, <1>1
      <3>2. (IF M = 1 THEN 12 ELSE M - 1) \in 1..12
        BY SMT, <1>1
      <3> QED BY <3>1, <3>2
    <2>3. DT!PreviousDay(d) = [Y |-> PY, M |-> PM, D |-> LengthOf(PY, PM)]
      BY SMT, <1>1, <2>1, <2>2 DEF DT!PreviousDay, LengthOf
    <2>4. d = FirstOfNext(PY, PM)
      <3>1. CASE M = 1
        BY SMT, <1>1, <2>1, <2>2, <3>1 DEF FirstOfNext
      <3>2. CASE M # 1
        <4>1. PY = Y /\ PM = M - 1 /\ PM # 12 /\ PM + 1 = M
          BY SMT, <1>1, <2>2, <3>2
        <4> QED BY SMT, <1>1, <2>1, <4>1 DEF FirstOfNext
      <3> QED BY <3>1, <3>2
    <2>5. LengthOf(PY, PM) \in 28..31
      BY SMT, <2>2, Lengths
    <2>6. DT!IsDate([Y |-> PY, M |-> PM, D |-> LengthOf(PY, PM)])
      <3>1. LengthOf(PY, PM) \in 1..LengthOf(PY, PM)
        BY SMT, <2>5
      <3> QED BY SMT, <2>2, <3>1 DEF DT!IsDate, LengthOf
    <2>7. PICK last \in Int : last = DT!JulDate([Y |-> PY, M |-> PM, D |-> LengthOf(PY, PM)])
      <3>1. PICK length \in Int : length = LengthOf(PY, PM)
        BY SMT, <2>5
      <3>2. DT!DaysBeforeMonth(PY, PM) \in Int
        BY SMT, <2>2, DaysBefore
      <3>3. DT!JulDate([Y |-> PY, M |-> PM, D |-> length]) \in Int
        BY SMT, <2>2, <3>1, <3>2 DEF DT!JulDate
      <3> QED BY SMT, <3>1, <3>3
    <2>8. DT!JulDate(d) = last + 1
      <3>1. DT!JulDate(FirstOfNext(PY, PM)) = DT!JulDate(LastOf(PY, PM)) + 1
        BY <2>2, NextMonth
      <3> QED BY SMT, <2>4, <2>7, <3>1 DEF LastOf
    <2> QED BY SMT, <2>3, <2>6, <2>7, <2>8
  <1> QED BY <1>4, <1>5

\* What the code does at the end of a month: it goes on counting the days.
CountsOn(d, local) ==
    /\ DT!JulDate([d EXCEPT !.D = 1, !.M = 1 + (@ % 12), !.Y = IF d.M = 12 THEN @ + 1 ELSE @])
         = DT!JulDate(d) + 1
    /\ local.D = d.D + 1

LEMMA DayAfter ==
    ASSUME NEW d, NEW Y, NEW M, NEW D, CalendarDate(d, Y, M, D)
    PROVE  \/ CountsOn(d, DT!NextDay(d))
           \/ /\ DT!IsDate(DT!NextDay(d))
              /\ DT!JulDate(DT!NextDay(d)) = DT!JulDate(d) + 1
  <1>1. d = [Y |-> Y, M |-> M, D |-> D] /\ Y \in Nat /\ Y < 3000 /\ M \in 1..12 /\ D \in 1..31
    BY SMT DEF CalendarDate
  <1>2. D \in 1..LengthOf(Y, M)
    BY SMT, <1>1 DEF CalendarDate, DT!IsDate, LengthOf
  <1>3. LengthOf(Y, M) \in 28..31
    BY SMT, <1>1, Lengths
  <1>4. CASE D < LengthOf(Y, M)
    <2>1. DT!NextDay(d) = [Y |-> Y, M |-> M, D |-> D + 1]
      BY SMT, <1>1, <1>4 DEF DT!NextDay, LengthOf
    <2>2. D + 1 \in 1..LengthOf(Y, M)
      BY SMT, <1>1, <1>2, <1>3, <1>4
    <2>3. DT!IsDate([Y |-> Y, M |-> M, D |-> D + 1])
      BY SMT, <1>1, <2>2 DEF DT!IsDate, LengthOf
    <2>4. PICK day0 \in Int : day0 = 15385 + (Y - 1901) * 365 + (Y - 1901) \div 4
                                        + DT!DaysBeforeMonth(Y, M)
      <3>1. DT!DaysBeforeMonth(Y, M) \in Int
        BY SMT, <1>1, DaysBefore
      <3> QED BY SMT, <1>1, <3>1
    <2>5. DT!JulDate([Y |-> Y, M |-> M, D |-> D + 1]) = day0 + (D + 1) - 1
      BY SMT, <2>4 DEF DT!JulDate
    <2>6. DT!JulDate([Y |-> Y, M |-> M, D |-> D]) = day0 + D - 1
      BY SMT, <2>4 DEF DT!JulDate
    <2>7. DT!JulDate(d) = day0 + D - 1
      BY SMT, <1>1, <2>6
    <2>8. day0 + (D + 1) - 1 = (day0 + D - 1) + 1
      BY SMT, <1>1
    <2> QED BY SMT, <2>1, <2>3, <2>5, <2>7, <2>8
  <1>5. CASE D = LengthOf(Y, M)
    <2>1. DT!NextDay(d).D = D + 1
      BY SMT, <1>1, <1>5 DEF DT!NextDay, LengthOf
    <2>2. [d EXCEPT !.D = 1, !.M = 1 + (@ % 12), !.Y = IF d.M = 12 THEN @ + 1 ELSE @]
            = FirstOfNext(Y, M)
      <3>1. 1 + (M % 12) = IF M = 12 THEN 1 ELSE M + 1
        BY SMT, <1>1
      <3>2. PICK year \in Nat : year = IF M = 12 THEN Y + 1 ELSE Y
        BY SMT, <1>1
      <3>3. PICK month \in 1..12 : month = 1 + (M % 12)
        BY SMT, <1>1, <3>1
      <3>4. [d EXCEPT !.D = 1, !.M = 1 + (@ % 12), !.Y = IF d.M = 12 THEN @ + 1 ELSE @]
              = [Y |-> year, M |-> month, D |-> 1]
        <4>1. d.M = M /\ d.Y = Y
          BY SMT, <1>1
        <4>2. (IF d.M = 12 THEN d.Y + 1 ELSE d.Y) = year
          BY SMT, <4>1, <3>2
        <4>3. 1 + (d.M % 12) = month
          BY SMT, <4>1, <3>3
        <4>4. [d EXCEPT !.D = 1, !.M = 1 + (@ % 12), !.Y = IF d.M = 12 THEN @ + 1 ELSE @]
                = [d EXCEPT !.D = 1, !.M = 1 + (d.M % 12), !.Y = IF d.M = 12 THEN d.Y + 1 ELSE d.Y]
          BY SMT, <1>1
        <4>5. [d EXCEPT !.D = 1, !.M = month, !.Y = year] = [Y |-> year, M |-> month, D |-> 1]
          <5>1. d = [Y |-> Y, M |-> M, D |-> D]
            BY <1>1
          <5>2. PICK a : a = [d EXCEPT !.D = 1]
            OBVIOUS
          <5>3. a = [Y |-> Y, M |-> M, D |-> 1]
            BY ONLY SMT, <5>1, <5>2
          <5>4. PICK b : b = [a EXCEPT !.M = month]
            OBVIOUS
          <5>5. b = [Y |-> Y, M |-> month, D |-> 1]
            BY ONLY SMT, <5>3, <5>4
          <5>6. [b EXCEPT !.Y = year] = [Y |-> year, M |-> month, D |-> 1]
            BY ONLY SMT, <5>5
          <5>7. [d EXCEPT !.D = 1, !.M = month, !.Y = year] = [b EXCEPT !.Y = year]
            BY ONLY SMT, <5>2, <5>4
          <5> QED BY <5>6, <5>7
        <4> QED BY Zenon, <4>2, <4>3, <4>4, <4>5
      <3>5. FirstOfNext(Y, M) = [Y |-> year, M |-> month, D |-> 1]
        BY SMT, <3>1, <3>2, <3>3 DEF FirstOfNext
      <3> QED BY SMT, <3>4, <3>5
    <2>3. DT!JulDate(FirstOfNext(Y, M)) = DT!JulDate(d) + 1
      <3>1. DT!JulDate(FirstOfNext(Y, M)) = DT!JulDate(LastOf(Y, M)) + 1
        BY <1>1, NextMonth
      <3>2. d = LastOf(Y, M)
        BY SMT, <1>1, <1>5 DEF LastOf
      <3> QED BY SMT, <3>1, <3>2
    <2> QED BY SMT, <1>1, <2>1, <2>2, <2>3 DEF CountsOn
  <1> QED BY SMT, <1>1, <1>2, <1>3, <1>4, <1>5

-----------------------------------------------------------------------------
(* The local time *)

Minutes(date, hour, minute) == (DT!JulDate(date) * 24 + hour) * 60 + minute

HalfHours(utc, hour, minute, local, time, o) ==
    Minutes(local, time.hour, time.minute) - Minutes(utc, hour, minute) = o * 30

\* What the property says of a group of the clock.
LocalIs(utc, hour, minute, local, time, o) ==
    \/ CountsOn(utc, local)
    \/ DT!IsDate(local) /\ HalfHours(utc, hour, minute, local, time, o)

\* The times on the two sides of k days, and the difference that was sent.
Apart(k, h, r, hour, minute, o) ==
    /\ k \in Int /\ h \in Int /\ r \in Int /\ hour \in Int /\ minute \in Int /\ o \in Int
    /\ 60 * h + r = hour * 60 + minute + o * 30

Span(utc, local, time, jd, k, h, r, hour, minute, o) ==
    /\ Apart(k, h, r, hour, minute, o) /\ jd \in Int
    /\ time = [hour |-> h - 24 * k, minute |-> r]
    /\ DT!JulDate(utc) = jd /\ DT!JulDate(local) = jd + k

LEMMA Distance ==
    ASSUME NEW utc, NEW local, NEW time, NEW jd, NEW k, NEW h, NEW r,
           NEW hour, NEW minute, NEW o, Span(utc, local, time, jd, k, h, r, hour, minute, o)
    PROVE  HalfHours(utc, hour, minute, local, time, o)
  <1>1. time.hour = h - 24 * k /\ time.minute = r
    BY DEF Span
  <1>2. Minutes(local, h - 24 * k, r) = ((jd + k) * 24 + (h - 24 * k)) * 60 + r
    BY Zenon DEF Minutes, Span
  <1>3. Minutes(utc, hour, minute) = (jd * 24 + hour) * 60 + minute
    BY Zenon DEF Minutes, Span
  <1>4. PICK a \in Int : a = ((jd + k) * 24 + (h - 24 * k)) * 60 + r
    BY SMT DEF Apart, Span
  <1>5. PICK b \in Int : b = (jd * 24 + hour) * 60 + minute
    BY SMT DEF Apart, Span
  <1>6. a - b = o * 30
    BY SMT, <1>4, <1>5 DEF Apart, Span
  <1>7. a = Minutes(local, time.hour, time.minute)
    BY Zenon, <1>1, <1>2, <1>4
  <1>8. b = Minutes(utc, hour, minute)
    BY Zenon, <1>3, <1>5
  <1> QED BY Zenon, <1>6, <1>7, <1>8 DEF HalfHours

LEMMA LocalRight ==
    ASSUME NEW jd \in Int, jd \in CodeDays,
           NEW hour \in 0..23, NEW minute \in 0..59, NEW o \in -31..31
    PROVE  LocalIs(DT!UtcDate(jd), hour, minute, DT!LocalDate(jd, hour, minute, o),
                   DT!LocalTime(hour, minute, o), o)
  <1>1. PICK lm \in Int : lm = hour * 60 + minute + o * 30
    BY SMT
  <1>2. lm = DT!LocalMinutes(hour, minute, o)
    BY <1>1 DEF DT!LocalMinutes
  <1>3. PICK h \in Int : h = lm \div 60
    BY SMT
  <1>4. PICK r \in Int : r = lm % 60
    BY SMT
  <1>5. 60 * h + r = lm /\ r \in 0..59
    BY SMT, <1>3, <1>4
  <1>6. h \in -16..39
    BY SMT, <1>1, <1>5
  <1>7. PICK utc : utc = DT!UtcDate(jd)
    OBVIOUS
  <1>8. PICK local : local = DT!LocalDate(jd, hour, minute, o)
    OBVIOUS
  <1>9. PICK time : time = DT!LocalTime(hour, minute, o)
    OBVIOUS
  <1>10. time = [hour |-> h % 24, minute |-> r]
    BY Zenon, <1>2, <1>3, <1>4, <1>9 DEF DT!LocalTime
  <1>11. local = CASE h < 0 -> DT!PreviousDay(utc) [] h \in 0..23 -> utc [] h > 23 -> DT!NextDay(utc)
    BY Zenon, <1>2, <1>3, <1>7, <1>8 DEF DT!LocalDate
  <1>12. DT!IsDate(utc) /\ DT!JulDate(utc) = jd
    BY Zenon, <1>7, DaysAreRight DEF DateRight
  <1>13. PICK Y, M, D : CalendarDate(utc, Y, M, D)
    BY Zenon, <1>7, UtcCalendarDate
  <1>14. CASE h < 0
    <2>0. PICK k \in Int : k = -1 /\ Apart(k, h, r, hour, minute, o)
      BY SMT, <1>1, <1>5, <1>6 DEF Apart
    <2>1. local = DT!PreviousDay(utc)
      BY SMT, <1>6, <1>11, <1>14
    <2>2. DT!IsDate(local) /\ DT!JulDate(local) = jd + k
      <3>1. DT!IsDate(local) /\ DT!JulDate(local) = DT!JulDate(utc) - 1
        BY Zenon, <1>13, <2>1, DayBefore
      <3> QED BY SMT, <1>12, <3>1, <2>0
    <2>3. h % 24 = h - 24 * k
      BY SMT, <1>6, <1>14, <2>0
    <2>4. time = [hour |-> h - 24 * k, minute |-> r]
      BY Zenon, <1>10, <2>3
    <2>5. HalfHours(utc, hour, minute, local, time, o)
      <3>1. Span(utc, local, time, jd, k, h, r, hour, minute, o)
        BY Zenon, <1>12, <2>0, <2>2, <2>4 DEF Span
      <3> QED BY Zenon, <3>1, Distance
    <2> QED BY Zenon, <1>7, <1>8, <1>9, <2>2, <2>5 DEF LocalIs
  <1>15. CASE h \in 0..23
    <2>0. PICK k \in Int : k = 0 /\ Apart(k, h, r, hour, minute, o)
      BY SMT, <1>1, <1>5, <1>6 DEF Apart
    <2>1. local = utc
      BY SMT, <1>6, <1>11, <1>15
    <2>2. DT!IsDate(local) /\ DT!JulDate(local) = jd + k
      BY SMT, <1>12, <2>1, <2>0
    <2>3. h % 24 = h - 24 * k
      BY SMT, <1>6, <1>15, <2>0
    <2>4. time = [hour |-> h - 24 * k, minute |-> r]
      BY Zenon, <1>10, <2>3
    <2>5. HalfHours(utc, hour, minute, local, time, o)
      <3>1. Span(utc, local, time, jd, k, h, r, hour, minute, o)
        BY Zenon, <1>12, <2>0, <2>2, <2>4 DEF Span
      <3> QED BY Zenon, <3>1, Distance
    <2> QED BY Zenon, <1>7, <1>8, <1>9, <2>2, <2>5 DEF LocalIs
  <1>16. CASE h > 23
    <2>0. PICK k \in Int : k = 1 /\ Apart(k, h, r, hour, minute, o)
      BY SMT, <1>1, <1>5, <1>6 DEF Apart
    <2>1. local = DT!NextDay(utc)
      BY SMT, <1>6, <1>11, <1>16
    <2>2. CASE CountsOn(utc, local)
      <3>1. LocalIs(utc, hour, minute, local, time, o)
        BY <2>2 DEF LocalIs
      <3> QED BY Zenon, <3>1, <1>7, <1>8, <1>9
    <2>3. CASE DT!IsDate(local) /\ DT!JulDate(local) = DT!JulDate(utc) + 1
      <3>1. DT!JulDate(local) = jd + k
        BY SMT, <1>12, <2>3, <2>0
      <3>2. h % 24 = h - 24 * k
        BY SMT, <1>6, <1>16, <2>0
      <3>3. time = [hour |-> h - 24 * k, minute |-> r]
        BY Zenon, <1>10, <3>2
      <3>4. HalfHours(utc, hour, minute, local, time, o)
        <4>1. Span(utc, local, time, jd, k, h, r, hour, minute, o)
          BY Zenon, <1>12, <2>0, <3>1, <3>3 DEF Span
        <4> QED BY Zenon, <4>1, Distance
      <3> QED BY Zenon, <1>7, <1>8, <1>9, <2>3, <3>4 DEF LocalIs
    <2> QED BY Zenon, <1>13, <2>1, <2>2, <2>3, DayAfter
  <1>17. h < 0 \/ h \in 0..23 \/ h > 23
    BY SMT, <1>6
  <1> QED BY Zenon, <1>14, <1>15, <1>16, <1>17

-----------------------------------------------------------------------------
(* Groups of the other types *)

\* The clock is a member of the decoder.
LEMMA ClockFacts ==
    ASSUME NEW d, IsDecoder(d), NEW g, NEW e, e = Clock(d, g)
    PROVE  /\ Follows(d, e) /\ SameTexts(d, e) /\ SameLists(d, e) /\ Serves(d, e)
           /\ {"utcdt", "locdt"} \subseteq e.events
           /\ ClockOf(e, g)
  <1>1. PICK utc : utc = <<DT!UtcDate(g.day), g.hour, g.minute>>
    OBVIOUS
  <1>2. PICK local : local = <<DT!LocalDate(g.day, g.hour, g.minute, g.offset),
                               DT!LocalTime(g.hour, g.minute, g.offset)>>
    OBVIOUS
  <1>3. PICK c : c = [d EXCEPT !.utc_datetime = utc, !.local_datetime = local]
    OBVIOUS
  <1>4. e = set_event(c, {"utcdt", "locdt"})
    BY <1>1, <1>2, <1>3 DEF Clock
  <1>5. /\ c.chlist = d.chlist /\ c.events = d.events
        /\ c.curchind = d.curchind /\ c.last_pi_code = d.last_pi_code
        /\ c.tmpAFlist = d.tmpAFlist /\ c.tmpEONAFlist = d.tmpEONAFlist
    BY <1>3 DEF IsDecoder
  <1>6. c = [chlist |-> c.chlist, curchind |-> c.curchind, last_pi_code |-> c.last_pi_code,
            events |-> c.events, tmpAFlist |-> c.tmpAFlist, tmpEONAFlist |-> c.tmpEONAFlist,
            utc_datetime |-> c.utc_datetime, local_datetime |-> c.local_datetime]
    BY <1>3 DEF IsDecoder
  <1>7. IsDecoder(c)
    BY <1>5, <1>6 DEF IsDecoder
  <1>8. Tunes(c, e) /\ Serves(c, e) /\ e.events = c.events \cup {"utcdt", "locdt"} /\ e.chlist = c.chlist
    BY <1>4, <1>7, EventsTune
  <1>9. Follows(d, e)
    BY <1>5, <1>8 DEF Follows, Tunes
  <1>10. c.utc_datetime = utc /\ c.local_datetime = local
    BY <1>3 DEF IsDecoder
  <1>11. ClockOf(e, g)
    BY <1>1, <1>2, <1>8, <1>10 DEF Tunes, SameClock, ClockOf
  <1> QED BY <1>5, <1>8, <1>9, <1>11 DEF Tunes, SameTexts, SameLists, Serves, SameCurrent, SameAltFreqs

LEMMA ClockKept ==
    ASSUME NEW d, ClockRight(d), NEW e, SameClock(d, e)
    PROVE  ClockRight(e)
  BY DEF ClockRight, ClockOf, SameClock

LEMMA GroupIs ==
    ASSUME NEW pi, NEW type, NEW more, NEW g, g = Group(pi, type, more)
    PROVE  /\ g.type = type /\ g.pi = pi /\ g.tp = TP[pi] /\ g.pty = PTY[pi]
           /\ \A f \in DOMAIN more \ {"type", "pi", "tp", "pty"} : g[f] = more[f]
  <1>1. PICK head : head = [type |-> type, pi |-> pi, tp |-> TP[pi], pty |-> PTY[pi]]
    OBVIOUS
  <1>2. g = [x \in DOMAIN head \cup DOMAIN more |-> IF x \in DOMAIN head THEN head[x] ELSE more[x]]
    BY <1>1 DEF Group
  <1>3. DOMAIN head = {"type", "pi", "tp", "pty"}
    BY <1>1
  <1> QED BY <1>1, <1>2, <1>3

GroupTypes == {"0A", "0B", "2A", "2B", "3A", "4A", "8A", "14A", "14B"}

\* A character of a segment is the one that the text has there.
LEMMA SegmentCharacters ==
    ASSUME NEW pi \in Stations, NEW t \in 0..MaxText, NEW type \in {"2A", "2B"}, NEW a \in Nat,
           NEW chars, chars = Characters(pi, t, RT!Width(type) * a, RT!Width(type))
    PROVE  /\ DOMAIN chars \subseteq Int
           /\ \A k \in DOMAIN chars : chars[k] = CharacterAt(pi, t, RT!Width(type) * a + k)
  <1>1. PICK W \in Nat : W = RT!Width(type)
    BY DEF RT!Width
  <1>2. PICK first : first = W * a
    OBVIOUS
  <1>3. chars = [p \in 1..W |-> CASE first + p <= TextLength[pi][t]     -> <<pi, t>>
                                  [] first + p = TextLength[pi][t] + 1  -> CR
                                  [] first + p > TextLength[pi][t] + 1  -> Space]
    BY <1>1, <1>2 DEF Characters
  <1>4. ASSUME NEW k \in 1..W PROVE chars[k] = CharacterAt(pi, t, first + k)
    BY <1>3 DEF CharacterAt
  <1>5. DOMAIN chars = 1..W /\ first = RT!Width(type) * a
    BY <1>1, <1>2, <1>3
  <1>6. \A k \in DOMAIN chars : chars[k] = CharacterAt(pi, t, RT!Width(type) * a + k)
    BY <1>4, <1>5
  <1> QED BY <1>5, <1>6

LEMMA TextGroupIs ==
    ASSUME NEW pi \in Stations, NEW type \in {"2A", "2B"}, NEW g, g \in TextGroups(pi, type)
    PROVE  /\ g.type = type /\ g.pi = pi /\ g.pty = PTY[pi]
           /\ g.of \in Texts(pi) /\ g.ab = (g.of % 2 = 1) /\ g.addr \in Nat
           /\ DOMAIN g.chars \subseteq Int
           /\ \A k \in DOMAIN g.chars :
                 g.chars[k] = CharacterAt(pi, g.of, RT!Width(type) * g.addr + k)
  <1>1. PICK t \in Texts(pi), a \in Nat :
           g = Group(pi, type, [of |-> t, ab |-> t % 2 = 1, addr |-> a,
                                chars |-> Characters(pi, t, RT!Width(type) * a, RT!Width(type))])
    BY DEF TextGroups
  <1>2. PICK chars : chars = Characters(pi, t, RT!Width(type) * a, RT!Width(type))
    OBVIOUS
  <1>3. PICK ab \in BOOLEAN : ab = (t % 2 = 1)
    OBVIOUS
  <1>4. PICK more : more = [of |-> t, ab |-> ab, addr |-> a, chars |-> chars]
    OBVIOUS
  <1>5. g = Group(pi, type, more)
    BY <1>1, <1>2, <1>3, <1>4
  <1>6. DOMAIN more = {"of", "ab", "addr", "chars"}
    BY <1>4
  <1>7. /\ g.type = type /\ g.pi = pi /\ g.pty = PTY[pi]
        /\ \A f \in DOMAIN more \ {"type", "pi", "tp", "pty"} : g[f] = more[f]
    BY <1>5, GroupIs
  <1>8. g.of = t /\ g.ab = ab /\ g.addr = a /\ g.chars = chars
    BY <1>4, <1>6, <1>7
  <1>9. t \in 0..MaxText
    BY DEF Texts
  <1>10. /\ DOMAIN chars \subseteq Int
         /\ \A k \in DOMAIN chars : chars[k] = CharacterAt(pi, t, RT!Width(type) * a + k)
    BY <1>2, <1>9, SegmentCharacters
  <1> QED BY <1>3, <1>7, <1>8, <1>10

LEMMA OtherGroupIs ==
    ASSUME NEW pi \in Stations, NEW type \in GroupTypes, type \notin {"2A", "2B"},
           NEW g, g \in GroupsOf(pi, type)
    PROVE  /\ g.type = type /\ g.pi = pi /\ g.pty = PTY[pi]
           /\ type \in {"0A", "0B"} => g.seg \in 0..3
           /\ type = "8A" => g.tmc \in Messages
           /\ type = "4A" => IsClock(g)
           /\ type \in {"14A", "14B"} => g.pio \in Stations \ {pi}
  <1>1. CASE type \in {"0A", "0B"}
    <2>1. PICK seg \in {0, 3} : seg = IF type = "0A" THEN 3 ELSE 0
      OBVIOUS
    <2>2. PICK di : di = (type = "0A")
      OBVIOUS
    <2>3. PICK af : g = Group(pi, type, [ta |-> FALSE, music |-> TRUE, seg |-> seg, di |-> di,
                                         name |-> pi, af |-> af])
      BY <1>1, <2>1, <2>2 DEF GroupsOf, TuningGroups
    <2>4. PICK more : more = [ta |-> FALSE, music |-> TRUE, seg |-> seg, di |-> di,
                              name |-> pi, af |-> af]
      OBVIOUS
    <2>5. DOMAIN more = {"ta", "music", "seg", "di", "name", "af"} /\ more.seg = seg
      BY <2>4
    <2>6. /\ g.type = type /\ g.pi = pi /\ g.pty = PTY[pi]
          /\ \A f \in DOMAIN more \ {"type", "pi", "tp", "pty"} : g[f] = more[f]
      BY <2>3, <2>4, GroupIs
    <2>7. g.seg = seg
      BY <2>5, <2>6
    <2> QED BY <1>1, <2>1, <2>6, <2>7
  <1>2. CASE type = "4A"
    <2>0. PICK x \in Days, t \in Times, o \in Offsets :
             g = Group(pi, type, [day |-> x, hour |-> t[1], minute |-> t[2], offset |-> o])
      BY <1>2 DEF GroupsOf, ClockGroups
    <2>1. PICK more : more = [day |-> x, hour |-> t[1], minute |-> t[2], offset |-> o]
      OBVIOUS
    <2>2. /\ DOMAIN more = {"day", "hour", "minute", "offset"}
          /\ more.day = x /\ more.hour = t[1] /\ more.minute = t[2] /\ more.offset = o
      BY <2>1
    <2>3. /\ g.type = type /\ g.pi = pi /\ g.pty = PTY[pi]
          /\ \A f \in DOMAIN more \ {"type", "pi", "tp", "pty"} : g[f] = more[f]
      BY <2>0, <2>1, GroupIs
    <2>4. g.day = x /\ g.hour = t[1] /\ g.minute = t[2] /\ g.offset = o
      BY <2>2, <2>3
    <2>5. IsClock(g)
      BY <2>4 DEF IsClock
    <2> QED BY <1>2, <2>3, <2>5
  <1>3. CASE type = "8A"
    <2>1. PICK msg \in Messages : g = Group(pi, type, [tmc |-> msg])
      BY <1>3 DEF GroupsOf
    <2>2. PICK more : more = [tmc |-> msg]
      OBVIOUS
    <2>3. DOMAIN more = {"tmc"} /\ more.tmc = msg
      BY <2>2
    <2>4. /\ g.type = type /\ g.pi = pi /\ g.pty = PTY[pi]
          /\ \A f \in DOMAIN more \ {"type", "pi", "tp", "pty"} : g[f] = more[f]
      BY <2>1, <2>2, GroupIs
    <2>5. g.tmc = msg
      BY <2>3, <2>4
    <2> QED BY <1>3, <2>4, <2>5
  <1>4. CASE type \in {"14A", "14B"}
    <2>0. PICK other \in Stations \ {pi} : \E v, af, low :
             g = Group(pi, type, [pio |-> other, variant |-> v, name |-> other, af |-> af, low |-> low])
      <3> DEFINE About(other, v, af) ==
                   {Group(pi, type, [pio |-> other, variant |-> v, name |-> other,
                                     af |-> af, low |-> low]) : low \in LowBytes(pi, type, v, af)}
                 Of(other) == UNION {About(other, v, af) : v \in Variants, af \in AltFreqs[other]}
      <3>1. g \in UNION {Of(other) : other \in Stations \ {pi}}
        BY <1>4 DEF GroupsOf, OtherNetworkGroups
      <3>2. PICK other \in Stations \ {pi} : g \in Of(other)
        <4> HIDE DEF Of
        <4> QED BY <3>1
      <3>3. PICK v \in Variants, af \in AltFreqs[other] : g \in About(other, v, af)
        <4> HIDE DEF About
        <4> QED BY <3>2
      <3> QED BY <3>3
    <2>1. PICK v, af, low :
             g = Group(pi, type, [pio |-> other, variant |-> v, name |-> other, af |-> af, low |-> low])
      BY <2>0
    <2>2. PICK more : more = [pio |-> other, variant |-> v, name |-> other, af |-> af, low |-> low]
      OBVIOUS
    <2>3. DOMAIN more = {"pio", "variant", "name", "af", "low"} /\ more.pio = other
      BY <2>2
    <2>4. /\ g.type = type /\ g.pi = pi /\ g.pty = PTY[pi]
          /\ \A f \in DOMAIN more \ {"type", "pi", "tp", "pty"} : g[f] = more[f]
      BY <2>1, <2>2, GroupIs
    <2>5. g.pio = other
      BY <2>3, <2>4
    <2> QED BY <1>4, <2>4, <2>5
  <1>5. CASE type = "3A"
    <2>1. PICK more : g = Group(pi, type, more)
      BY <1>5 DEF GroupsOf
    <2> QED BY <1>5, <2>1, GroupIs
  <1> QED BY <1>1, <1>2, <1>3, <1>4, <1>5 DEF GroupTypes

-----------------------------------------------------------------------------
(* Changes are announced *)

LEMMA Items ==
    ASSUME NEW d
    PROVE  /\ Item(d, "rflags") = Current(d).rds_flags
           /\ Item(d, "picode") = Current(d).PIcode
           /\ Item(d, "ptype") = Current(d).PTYcode
           /\ Item(d, "pname") = Current(d).program_name
           /\ Item(d, "rtxt") = RT!GetBuffer(Current(d).radio_text)
           /\ Item(d, "lrtxt") = Current(d).radio_text.last_radio_text
           /\ Item(d, "tmc") = TMC!Lines(Current(d).tmc_list)
           /\ Item(d, "aflist") = Current(d).AFlist.freq_list
           /\ Item(d, "utcdt") = d.utc_datetime
           /\ Item(d, "locdt") = d.local_datetime
  <1>1. Item(d, "rflags") = Current(d).rds_flags
    BY DEF Item
  <1>2. Item(d, "picode") = Current(d).PIcode
    BY DEF Item
  <1>3. Item(d, "ptype") = Current(d).PTYcode
    BY DEF Item
  <1>4. Item(d, "pname") = Current(d).program_name
    BY DEF Item
  <1>5. Item(d, "rtxt") = RT!GetBuffer(Current(d).radio_text)
    BY DEF Item
  <1>6. Item(d, "lrtxt") = Current(d).radio_text.last_radio_text
    BY DEF Item
  <1>7. Item(d, "tmc") = TMC!Lines(Current(d).tmc_list)
    BY DEF Item
  <1>8. Item(d, "aflist") = Current(d).AFlist.freq_list
    BY DEF Item
  <1>9. Item(d, "utcdt") = d.utc_datetime /\ Item(d, "locdt") = d.local_datetime
    BY DEF Item
  <1> QED BY <1>1, <1>2, <1>3, <1>4, <1>5, <1>6, <1>7, <1>8, <1>9

\* ChangeStep, of two decoders.
Shown(d, e, it) == Item(d, it) # Item(e, it) => it \in e.events
AllShown(d, e) ==
    /\ \A it \in {"picode", "ptype", "rtxt", "lrtxt", "utcdt", "locdt"} : Shown(d, e, it)
    /\ Current(e).PIcode # NoPI => Shown(d, e, "rflags")
    /\ d.curchind # e.curchind => Shown(d, e, "pname")
    /\ d.curchind = e.curchind => Shown(d, e, "aflist") /\ Shown(d, e, "tmc")

\* What a group changes of the channel that is served, after its code.
ShowsCurrent(d, e) ==
    /\ Follows(d, e) /\ SameCurrent(d, e)
    /\ Current(e).radio_text = Current(d).radio_text \/ "rtxt" \in e.events
    /\ \/ Current(e).radio_text.last_radio_text = Current(d).radio_text.last_radio_text
       \/ "lrtxt" \in e.events
    /\ Current(e).AFlist = Current(d).AFlist \/ "aflist" \in e.events
    /\ TMC!Lines(Current(e).tmc_list) = TMC!Lines(Current(d).tmc_list) \/ "tmc" \in e.events
    /\ SameClock(d, e) \/ {"utcdt", "locdt"} \subseteq e.events

LEMMA TuningShown ==
    ASSUME NEW d, IsDecoder(d), NEW e, Tunes(d, e), SameCurrent(d, e),
           Serves(d, e) \/ "aflist" \in e.events
    PROVE  ShowsCurrent(d, e)
  <1>1. PICK n \in DOMAIN d.chlist : n = d.curchind
    BY DEF IsDecoder
  <1>2. /\ Current(d) = d.chlist[n] /\ Current(e) = e.chlist[n]
    BY <1>1 DEF Current, SameCurrent
  <1>3. Current(e).radio_text = Current(d).radio_text /\ Current(e).tmc_list = Current(d).tmc_list
    BY <1>2 DEF Tunes, SameTexts, SameLists
  <1>4. Current(e).AFlist = Current(d).AFlist \/ "aflist" \in e.events
    BY <1>1, <1>2 DEF Serves, SameAltFreqs
  <1> QED BY <1>3, <1>4 DEF ShowsCurrent, Tunes

\* A group shows all that it changes, and the events of a radio device are
\* none of those.
LEMMA GroupShown ==
    ASSUME NEW d, IsDecoder(d), NEW g, g.pty \in -1..31, NEW junk, junk \subseteq Flags,
           NEW d1, d1 = Common(d, g, junk), NEW d2, ShowsCurrent(d1, d2),
           NEW e, e.chlist = d2.chlist, SameCurrent(d2, e), SameClock(d2, e),
           d2.events \ RadioEvents \subseteq e.events
    PROVE  AllShown(d, e)
  <1>1. /\ Tunes(d, d1) /\ d1.last_pi_code = g.pi
        /\ {"picode", "ptype", "rflags"} \subseteq d1.events
        /\ d1.curchind # d.curchind => {"pname", "rtxt", "lrtxt"} \subseteq d1.events
        /\ d1.curchind = d.curchind => SameAltFreqs(d, d1, d.curchind)
    BY CommonFacts
  <1>2. PICK n \in DOMAIN d.chlist : n = d.curchind
    BY DEF IsDecoder
  <1>3. e.curchind = d1.curchind /\ Current(e) = Current(d2)
    BY DEF ShowsCurrent, SameCurrent, Current
  <1>4. d1.events \subseteq d2.events
    BY DEF ShowsCurrent, Follows
  <1>5. \A it : it \in d2.events /\ it \notin {"rxfre", "rxsig"} => it \in e.events
    BY DEF RadioEvents
  <1>6. {"picode", "ptype", "rflags"} \subseteq e.events
    BY <1>1, <1>4, <1>5
  <1>7. d1.curchind # d.curchind => {"pname", "rtxt", "lrtxt"} \subseteq e.events
    BY <1>1, <1>4, <1>5
  <1>8. /\ Current(e).radio_text = Current(d1).radio_text \/ "rtxt" \in e.events
        /\ \/ Current(e).radio_text.last_radio_text = Current(d1).radio_text.last_radio_text
           \/ "lrtxt" \in e.events
        /\ Current(e).AFlist = Current(d1).AFlist \/ "aflist" \in e.events
        /\ TMC!Lines(Current(e).tmc_list) = TMC!Lines(Current(d1).tmc_list) \/ "tmc" \in e.events
    BY <1>3, <1>5 DEF ShowsCurrent
  <1>9. ASSUME d1.curchind = d.curchind
        PROVE  /\ Current(d1).radio_text = Current(d).radio_text
               /\ Current(d1).AFlist = Current(d).AFlist
               /\ Current(d1).tmc_list = Current(d).tmc_list
    BY <1>1, <1>2, <1>9 DEF Current, Tunes, SameTexts, SameLists, SameAltFreqs
  <1>10. SameClock(d, d1)
    BY <1>1 DEF Tunes
  <1>11. SameClock(d, e) \/ {"utcdt", "locdt"} \subseteq e.events
    BY <1>5, <1>10 DEF ShowsCurrent, SameClock
  <1>12. Shown(d, e, "picode") /\ Shown(d, e, "ptype") /\ Shown(d, e, "rflags")
    BY <1>6 DEF Shown
  <1>13. Shown(d, e, "rtxt") /\ Shown(d, e, "lrtxt")
    <2>1. CASE d1.curchind # d.curchind
      BY <1>7, <2>1 DEF Shown
    <2>2. CASE d1.curchind = d.curchind
      <3>1. Current(e).radio_text = Current(d).radio_text \/ "rtxt" \in e.events
        BY <1>8, <1>9, <2>2
      <3>2. \/ Current(e).radio_text.last_radio_text = Current(d).radio_text.last_radio_text
            \/ "lrtxt" \in e.events
        BY <1>8, <1>9, <2>2
      <3> QED BY <3>1, <3>2, Items DEF Shown
    <2> QED BY <2>1, <2>2
  <1>14. Shown(d, e, "utcdt") /\ Shown(d, e, "locdt")
    BY <1>11, Items DEF Shown, SameClock
  <1>15. d.curchind # e.curchind => Shown(d, e, "pname")
    BY <1>3, <1>7 DEF Shown
  <1>16. d.curchind = e.curchind => Shown(d, e, "aflist") /\ Shown(d, e, "tmc")
    <2> SUFFICES ASSUME d.curchind = e.curchind PROVE Shown(d, e, "aflist") /\ Shown(d, e, "tmc")
      OBVIOUS
    <2>1. Current(e).AFlist = Current(d).AFlist \/ "aflist" \in e.events
      BY <1>3, <1>8, <1>9
    <2>2. TMC!Lines(Current(e).tmc_list) = TMC!Lines(Current(d).tmc_list) \/ "tmc" \in e.events
      BY <1>3, <1>8, <1>9
    <2> QED BY <2>1, <2>2, Items DEF Shown
  <1> QED BY <1>12, <1>13, <1>14, <1>15, <1>16 DEF AllShown

-----------------------------------------------------------------------------
(* Texts and lists stay right *)

LEMMA TextsStayRight ==
    ASSUME NEW d, NEW e, Follows(d, e), SameTexts(d, e), NEW ht, TextsRight(d, ht)
    PROVE  TextsRight(e, ht)
  <1> SUFFICES ASSUME NEW n \in DOMAIN e.chlist PROVE BufferRight(e.chlist[n], ht)
    BY DEF TextsRight
  <1>1. CASE n \in DOMAIN d.chlist
    <2>1. /\ e.chlist[n].radio_text = d.chlist[n].radio_text
          /\ e.chlist[n].PIcode = d.chlist[n].PIcode
      BY <1>1 DEF Follows, SameTexts
    <2>2. BufferRight(d.chlist[n], ht)
      BY <1>1 DEF TextsRight
    <2> QED BY <2>1, <2>2 DEF BufferRight
  <1>2. CASE n \notin DOMAIN d.chlist
    <2>1. e.chlist[n].radio_text = RT!NewText
      BY <1>2 DEF Follows
    <2>2. e.chlist[n].radio_text.RTbuffer = <<>>
      BY <2>1 DEF RT!NewText
    <2> QED BY <2>2 DEF BufferRight
  <1> QED BY <1>1, <1>2

\* Where the texts stay, nothing new is served.
LEMMA TextsKept ==
    ASSUME NEW d, NEW e, Follows(d, e), SameTexts(d, e), NEW ht
    PROVE  TextsServed(d, e, ht)
  <1>1. ASSUME NEW n \in DOMAIN e.chlist \ DOMAIN d.chlist
        PROVE  e.chlist[n].radio_text.last_radio_text = <<>>
    BY <1>1 DEF Follows, RT!NewText
  <1> QED BY <1>1 DEF TextsServed, SameTexts

LEMMA ServedAfterKept ==
    ASSUME NEW d, NEW d1, Follows(d, d1), SameTexts(d, d1), NEW ht, NEW f, TextsServed(d1, f, ht)
    PROVE  TextsServed(d, f, ht)
  <1> SUFFICES ASSUME NEW n \in DOMAIN f.chlist, n \in DOMAIN d1.chlist,
                      f.chlist[n].radio_text.last_radio_text
                        = d1.chlist[n].radio_text.last_radio_text
               PROVE  \/ /\ n \in DOMAIN d.chlist
                         /\ f.chlist[n].radio_text.last_radio_text
                              = d.chlist[n].radio_text.last_radio_text
                      \/ n \notin DOMAIN d.chlist /\ f.chlist[n].radio_text.last_radio_text = <<>>
    BY DEF TextsServed, Follows
  <1>1. CASE n \in DOMAIN d.chlist
    BY <1>1 DEF SameTexts
  <1>2. CASE n \notin DOMAIN d.chlist
    BY <1>2 DEF Follows, RT!NewText
  <1> QED BY <1>1, <1>2

LEMMA ListsStayRight ==
    ASSUME NEW d, NEW e, Follows(d, e), SameLists(d, e), NEW at, ListsRight(d, at)
    PROVE  ListsRight(e, at)
  <1> SUFFICES ASSUME NEW pi \in Stations
               PROVE  /\ \A n \in DOMAIN e.chlist : e.chlist[n].PIcode = pi =>
                            ListRight(e.chlist[n].tmc_list.tmc_list, at[pi])
                      /\ ~HasChannel(e, pi) => \A g \in Messages : at[pi][g] = Never
    BY DEF ListsRight
  <1>1. ASSUME NEW n \in DOMAIN e.chlist, e.chlist[n].PIcode = pi
        PROVE  ListRight(e.chlist[n].tmc_list.tmc_list, at[pi])
    <2>1. CASE n \in DOMAIN d.chlist
      BY <1>1, <2>1 DEF ListsRight, Follows, SameLists
    <2>2. CASE n \notin DOMAIN d.chlist
      <3>1. ASSUME NEW m \in DOMAIN d.chlist, d.chlist[m].PIcode = pi PROVE FALSE
        <4>1. m \in DOMAIN e.chlist /\ e.chlist[m].PIcode = e.chlist[n].PIcode
          BY <1>1, <3>1 DEF Follows
        <4> QED BY <2>2, <4>1 DEF Follows, IsDecoder
      <3>2. \A g \in Messages : at[pi][g] = Never
        BY <3>1 DEF HasChannel, ListsRight
      <3>3. e.chlist[n].tmc_list.tmc_list = <<>>
        <4>1. e.chlist[n].tmc_list = TMC!NewList
          BY <2>2 DEF Follows
        <4>2. PICK tl : tl = e.chlist[n].tmc_list
          OBVIOUS
        <4>3. tl = [tmc_list |-> <<>>, tmc_provider |-> <<" ", " ">>, is_changed |-> FALSE]
          BY <4>1, <4>2 DEF TMC!NewList
        <4>4. tl.tmc_list = <<>>
          BY <4>3
        <4> QED BY <4>2, <4>4
      <3>4. \A last \in Nat : ~LatestAt(at[pi], last)
        BY <3>2 DEF LatestAt, Never
      <3> QED BY <3>3, <3>4 DEF ListRight
    <2> QED BY <2>1, <2>2
  <1>2. ASSUME ~HasChannel(e, pi) PROVE \A g \in Messages : at[pi][g] = Never
    <2>1. ~HasChannel(d, pi)
      BY <1>2 DEF HasChannel, Follows
    <2> QED BY <2>1 DEF ListsRight
  <1> QED BY <1>1, <1>2

\* A text group of the station that is served.
LEMMA TextHeardRight ==
    ASSUME NEW d, IsDecoder(d), NEW pi \in Stations, d.last_pi_code = pi,
           NEW ht \in [Stations -> HeardSets], TextsRight(d, ht), NEW all \in HeardSets,
           NEW new_ht, new_ht = [ht EXCEPT ![pi] = all],
           NEW e, Follows(d, e), SameCurrent(d, e), DOMAIN e.chlist = DOMAIN d.chlist,
           \A m \in DOMAIN d.chlist :
              m # d.curchind => e.chlist[m].radio_text = d.chlist[m].radio_text,
           CellsRight(Current(e).radio_text, pi, all),
           \/ Current(e).radio_text.last_radio_text = Current(d).radio_text.last_radio_text
           \/ MadeOf(Current(e).radio_text.last_radio_text, pi, all)
    PROVE  TextsRight(e, new_ht) /\ TextsServed(d, e, new_ht)
  <1>1. PICK n \in DOMAIN d.chlist : n = d.curchind
    BY DEF IsDecoder
  <1>2. d.chlist[n].PIcode = pi /\ e.chlist[n].PIcode = pi
    BY <1>1 DEF IsDecoder, Follows
  <1>3. Current(d) = d.chlist[n] /\ Current(e) = e.chlist[n]
    BY <1>1 DEF Current, SameCurrent
  <1>4. new_ht[pi] = all /\ \A q \in Stations : q # pi => new_ht[q] = ht[q]
    OBVIOUS
  <1>5. BufferRight(e.chlist[n], new_ht)
    BY <1>2, <1>3, <1>4 DEF BufferRight, CellsRight
  <1>6. \/ e.chlist[n].radio_text.last_radio_text = d.chlist[n].radio_text.last_radio_text
        \/ MadeOf(e.chlist[n].radio_text.last_radio_text, e.chlist[n].PIcode,
                  new_ht[e.chlist[n].PIcode])
    BY <1>2, <1>3, <1>4, Zenon
  <1>7. ASSUME NEW m \in DOMAIN d.chlist, m # n
        PROVE  /\ BufferRight(e.chlist[m], new_ht)
               /\ e.chlist[m].radio_text = d.chlist[m].radio_text
    <2>1. /\ e.chlist[m].radio_text = d.chlist[m].radio_text
          /\ e.chlist[m].PIcode = d.chlist[m].PIcode
      BY <1>1, <1>7 DEF Follows
    <2>2. d.chlist[m].PIcode # pi
      BY <1>2, <1>7 DEF IsDecoder
    <2>3. BufferRight(d.chlist[m], ht)
      BY DEF TextsRight
    <2>5. e.chlist[m].PIcode \in Stations => new_ht[e.chlist[m].PIcode] = ht[d.chlist[m].PIcode]
      BY <1>4, <2>1, <2>2
    <2>6. BufferRight(e.chlist[m], new_ht)
      BY <2>1, <2>3, <2>5 DEF BufferRight
    <2> QED BY <2>1, <2>6
  <1>8. TextsRight(e, new_ht)
    BY <1>5, <1>7 DEF TextsRight
  <1>9. TextsServed(d, e, new_ht)
    BY <1>2, <1>6, <1>7, Zenon DEF TextsServed
  <1> QED BY <1>8, <1>9

\* What has been heard, with a message of a station.
Hearing(at, pi, msg, time) == [at EXCEPT ![pi] = [at[pi] EXCEPT ![msg] = time]]

\* A TMC message of the station that is served.
LEMMA TrafficHeardRight ==
    ASSUME NoProviderParts, NEW d, IsDecoder(d), NEW pi \in Stations, d.last_pi_code = pi,
           NEW at \in [Stations -> [Messages -> Nat \cup {Never}]], ListsRight(d, at),
           NEW time \in Nat, \A q \in Stations, m \in Messages : at[q][m] <= time,
           NEW g, g.tmc \in Messages, NEW e, e = Traffic(d, g, time),
           NEW new_at, new_at = Hearing(at, pi, g.tmc, time)
    PROVE  ListsRight(e, new_at)
  <1>1. PICK n \in DOMAIN d.chlist : n = d.curchind
    BY DEF IsDecoder
  <1>2. PICK tl : tl = d.chlist[n].tmc_list
    OBVIOUS
  <1>3. PICK msg \in Messages : msg = g.tmc
    OBVIOUS
  <1>4. /\ Follows(d, e) /\ Serves(d, e) /\ DOMAIN e.chlist = DOMAIN d.chlist
        /\ e.chlist[n].tmc_list = TMC!AddGroup(tl, msg, time)
        /\ \A m \in DOMAIN d.chlist : m # n => e.chlist[m].tmc_list = d.chlist[m].tmc_list
    BY <1>1, <1>2, <1>3, TrafficFacts
  <1>5. d.chlist[n].PIcode = pi /\ e.chlist[n].PIcode = pi
    BY <1>1, <1>4 DEF IsDecoder, Follows
  <1>6. PICK own : own = at[pi] /\ own \in [Messages -> Nat \cup {Never}]
    OBVIOUS
  <1>7. PICK new : new = [own EXCEPT ![msg] = time]
    OBVIOUS
  <1>8. new_at[pi] = new /\ \A q \in Stations : q # pi => new_at[q] = at[q]
    BY <1>3, <1>6, <1>7 DEF Hearing
  <1>9. ListRight(e.chlist[n].tmc_list.tmc_list, new)
    <2>1. IsTmcList(tl)
      BY <1>2 DEF IsDecoder, IsChannel
    <2>2. ListRight(tl.tmc_list, own)
      BY <1>2, <1>5, <1>6 DEF ListsRight
    <2>3. \A m \in Messages : own[m] <= time
      BY <1>6
    <2>4. PICK r : r = TMC!AddGroup(tl, msg, time)
      OBVIOUS
    <2>6. own \in [Messages -> Nat \cup {Never}]
      BY <1>6
    <2>5. ListRight(r.tmc_list, new)
      BY <2>6, <1>7, <2>1, <2>2, <2>3, <2>4, ListStaysRight
    <2> QED BY <1>4, <2>4, <2>5
  <1>10. ASSUME NEW q \in Stations
         PROVE  /\ \A m \in DOMAIN e.chlist : e.chlist[m].PIcode = q =>
                      ListRight(e.chlist[m].tmc_list.tmc_list, new_at[q])
                /\ ~HasChannel(e, q) => \A m \in Messages : new_at[q][m] = Never
    <2>1. CASE q = pi
      <3>1. \A m \in DOMAIN e.chlist : e.chlist[m].PIcode = pi => m = n
        BY <1>4, <1>5 DEF Follows, IsDecoder
      <3>2. HasChannel(e, pi)
        BY <1>4, <1>5 DEF HasChannel
      <3> QED BY <1>8, <1>9, <2>1, <3>1, <3>2
    <2>2. CASE q # pi
      <3>1. ASSUME NEW m \in DOMAIN e.chlist, e.chlist[m].PIcode = q
            PROVE  ListRight(e.chlist[m].tmc_list.tmc_list, new_at[q])
        <4>1. m \in DOMAIN d.chlist /\ m # n /\ d.chlist[m].PIcode = q
          BY <1>4, <1>5, <2>2, <3>1 DEF Follows
        <4> QED BY <1>4, <1>8, <2>2, <4>1 DEF ListsRight
      <3>2. HasChannel(d, q) => HasChannel(e, q)
        BY <1>4 DEF HasChannel, Follows
      <3> QED BY <1>8, <2>2, <3>1, <3>2 DEF ListsRight
    <2> QED BY <2>1, <2>2
  <1> QED BY <1>10 DEF ListsRight

-----------------------------------------------------------------------------
(* A group is decoded *)

LEMMA GroupIsOf ==
    ASSUME NEW pi \in Stations, NEW type \in GroupTypes, NEW g, g \in GroupsOf(pi, type)
    PROVE  g.type = type /\ g.pi = pi /\ g.pty \in -1..31
  <1>1. PTY[pi] \in -1..31
    BY StationsAssumption
  <1>2. CASE type \in {"2A", "2B"}
    <2>1. g \in TextGroups(pi, type)
      BY <1>2 DEF GroupsOf
    <2> QED BY <1>1, <1>2, <2>1, TextGroupIs
  <1>3. CASE type \notin {"2A", "2B"}
    BY <1>1, <1>3, OtherGroupIs
  <1> QED BY <1>2, <1>3

\* What a group does after its code, by its type.
ByType(d, g, time, junk) ==
    CASE g.type \in {"0A", "0B"}   -> BasicTuning(d, g)
      [] g.type \in {"2A", "2B"}   -> Text(d, g, junk)
      [] g.type = "4A"             -> Clock(d, g)
      [] g.type = "8A"             -> Traffic(d, g, time)
      [] g.type \in {"14A", "14B"} -> OtherNetwork(d, g, junk)
      [] OTHER                     -> d

\* Groups of other types than radio text.
LEMMA OtherGroupDecoded ==
    ASSUME NEW d, IsDecoder(d), NEW pi \in Stations, d.last_pi_code = pi,
           NEW type \in GroupTypes, type \notin {"2A", "2B"}, NEW g, g \in GroupsOf(pi, type),
           NEW junk, junk \subseteq Flags, NEW time,
           NEW e, e = ByType(d, g, time, junk)
    PROVE  /\ Follows(d, e) /\ SameTexts(d, e) /\ ShowsCurrent(d, e)
           /\ type # "8A" => SameLists(d, e)
           /\ type = "8A" => e = Traffic(d, g, time) /\ g.tmc \in Messages
           /\ ClockRight(d) => ClockRight(e)
  <1>1. /\ g.type = type /\ g.pi = pi /\ g.pty = PTY[pi]
        /\ type \in {"0A", "0B"} => g.seg \in 0..3
        /\ type = "8A" => g.tmc \in Messages
        /\ type = "4A" => IsClock(g)
        /\ type \in {"14A", "14B"} => g.pio \in Stations \ {pi}
    BY OtherGroupIs
  <1>2. PICK n \in DOMAIN d.chlist : n = d.curchind
    BY DEF IsDecoder
  <1>3. CASE type \in {"0A", "0B"}
    <2>1. e = BasicTuning(d, g)
      BY <1>1, <1>3 DEF ByType
    <2>2. Tunes(d, e) /\ SameCurrent(d, e) /\ (Serves(d, e) \/ "aflist" \in e.events)
      BY <1>1, <1>3, <2>1, BasicTuningFacts
    <2>3. ShowsCurrent(d, e)
      BY <2>2, TuningShown
    <2>4. ClockRight(d) => ClockRight(e)
      BY <2>2, ClockKept DEF Tunes
    <2> QED BY <1>3, <2>2, <2>3, <2>4 DEF Tunes
  <1>4. CASE type = "4A"
    <2>1. e = Clock(d, g)
      BY <1>1, <1>4 DEF ByType
    <2>2. /\ Follows(d, e) /\ SameTexts(d, e) /\ SameLists(d, e) /\ Serves(d, e)
          /\ {"utcdt", "locdt"} \subseteq e.events
          /\ ClockOf(e, g)
      BY <2>1, ClockFacts
    <2>3. /\ Current(e).radio_text = Current(d).radio_text
          /\ Current(e).AFlist = Current(d).AFlist
          /\ Current(e).tmc_list = Current(d).tmc_list
      <3>1. Current(d) = d.chlist[n] /\ Current(e) = e.chlist[n]
        BY <1>2, <2>2 DEF Current, Serves, SameCurrent
      <3>2. /\ e.chlist[n].radio_text = d.chlist[n].radio_text
            /\ e.chlist[n].tmc_list = d.chlist[n].tmc_list
        BY <2>2 DEF SameTexts, SameLists
      <3>3. e.chlist[n].AFlist = d.chlist[n].AFlist
        BY <1>2, <2>2 DEF Serves, SameAltFreqs
      <3> QED BY <3>1, <3>2, <3>3
    <2>4. ShowsCurrent(d, e)
      BY <2>2, <2>3 DEF ShowsCurrent, Serves
    <2>5. ClockRight(e)
      BY <1>1, <1>4, <2>2 DEF ClockRight
    <2> QED BY <1>4, <2>2, <2>4, <2>5
  <1>5. CASE type = "8A"
    <2>1. e = Traffic(d, g, time)
      BY <1>1, <1>5 DEF ByType
    <2>2. PICK tl : tl = d.chlist[n].tmc_list
      OBVIOUS
    <2>3. /\ Follows(d, e) /\ SameTexts(d, e) /\ SameClock(d, e) /\ Serves(d, e)
          /\ TMC!Lines(e.chlist[n].tmc_list) = TMC!Lines(tl) \/ "tmc" \in e.events
      BY <1>2, <2>1, <2>2, TrafficFacts
    <2>4. /\ Current(e).radio_text = Current(d).radio_text
          /\ Current(e).AFlist = Current(d).AFlist
          /\ Current(e) = e.chlist[n] /\ Current(d).tmc_list = tl
      BY <1>2, <2>2, <2>3 DEF Current, SameTexts, Serves, SameCurrent, SameAltFreqs
    <2>5. ShowsCurrent(d, e)
      BY <2>3, <2>4 DEF ShowsCurrent, Serves
    <2>6. ClockRight(d) => ClockRight(e)
      BY <2>3, ClockKept
    <2> QED BY <1>1, <1>5, <2>1, <2>3, <2>5, <2>6
  <1>6. CASE type \in {"14A", "14B"}
    <2>1. e = OtherNetwork(d, g, junk)
      BY <1>1, <1>6 DEF ByType
    <2>2. g.pio \in Stations /\ g.pio # pi
      BY <1>1, <1>6
    <2>3. TopFive(g.pio) \in -1..31
      <3>1. PICK pio \in Nat : pio = g.pio /\ pio < 65536
        BY <2>2, StationsAssumption
      <3>2. pio \div 2048 \in Nat /\ pio \div 2048 < 32
        BY <3>1
      <3> QED BY <3>1, <3>2 DEF TopFive
    <2>4. Tunes(d, e) /\ Serves(d, e)
      BY <1>1, <1>6, <2>1, <2>2, <2>3, OtherNetworkFacts
    <2>5. ShowsCurrent(d, e)
      BY <2>4, TuningShown DEF Serves
    <2>6. ClockRight(d) => ClockRight(e)
      BY <2>4, ClockKept DEF Tunes
    <2> QED BY <1>6, <2>4, <2>5, <2>6 DEF Tunes
  <1>7. CASE type = "3A"
    <2>1. e = d
      BY <1>1, <1>7 DEF ByType
    <2>2. Tunes(d, e) /\ Serves(d, e)
      BY <2>1, TunesReflexive
    <2>3. ShowsCurrent(d, e)
      BY <2>2, TuningShown DEF Serves
    <2>4. ClockRight(d) => ClockRight(e)
      BY <2>1
    <2> QED BY <1>7, <2>2, <2>3, <2>4 DEF Tunes
  <1> QED BY <1>3, <1>4, <1>5, <1>6, <1>7 DEF GroupTypes

\* Groups of radio text.
LEMMA TextGroupDecoded ==
    ASSUME NEW d, IsDecoder(d), NEW pi \in Stations, d.last_pi_code = pi,
           NEW ht \in [Stations -> HeardSets], ht = heardTexts, TextsRight(d, ht),
           NEW type \in {"2A", "2B"}, NEW g, g \in GroupsOf(pi, type),
           NEW junk, junk \subseteq Flags, NEW e, e = Text(d, g, junk)
    PROVE  /\ Follows(d, e) /\ SameLists(d, e) /\ ShowsCurrent(d, e)
           /\ SameClock(d, e)
           /\ g.of \in 0..MaxText
           /\ TextsRight(e, [ht EXCEPT ![pi] = Joined(ht[pi], g.of)])
           /\ TextsServed(d, e, [ht EXCEPT ![pi] = Joined(ht[pi], g.of)])
  <1>1. /\ g.type = type /\ g.pi = pi
        /\ g.of \in Texts(pi) /\ g.ab = (g.of % 2 = 1) /\ g.addr \in Nat
        /\ DOMAIN g.chars \subseteq Int
        /\ \A k \in DOMAIN g.chars :
              g.chars[k] = CharacterAt(pi, g.of, RT!Width(type) * g.addr + k)
    <2>1. g \in TextGroups(pi, type)
      BY DEF GroupsOf
    <2> QED BY <2>1, TextGroupIs
  <1>2. PICK texts \in HeardSets : texts = ht[pi]
    OBVIOUS
  <1>3. PICK t \in 0..MaxText : t = g.of
    BY <1>1 DEF Texts
  <1>4. PICK all \in HeardSets : all = Joined(texts, t)
    BY JoinedFacts
  <1>5. PICK n \in DOMAIN d.chlist : n = d.curchind
    BY DEF IsDecoder
  <1>6. d.chlist[n].PIcode = pi /\ Current(d) = d.chlist[n]
    BY <1>5 DEF IsDecoder, Current
  <1>7. CellsRight(Current(d).radio_text, pi, texts)
    <2>1. BufferRight(d.chlist[n], ht)
      BY DEF TextsRight
    <2> QED BY <1>2, <1>6, <2>1 DEF BufferRight, CellsRight
  <1>8. /\ Follows(d, e) /\ SameLists(d, e) /\ SameClock(d, e) /\ Serves(d, e)
        /\ DOMAIN e.chlist = DOMAIN d.chlist
        /\ \A m \in DOMAIN d.chlist :
              m # d.curchind => e.chlist[m].radio_text = d.chlist[m].radio_text
        /\ CellsRight(Current(e).radio_text, pi, all)
        /\ "rtxt" \in e.events
        /\ \/ Current(e).radio_text.last_radio_text = Current(d).radio_text.last_radio_text
           \/ /\ "lrtxt" \in e.events
              /\ MadeOf(Current(e).radio_text.last_radio_text, pi, all)
    <2>1. /\ g.type \in {"2A", "2B"} /\ g.addr \in Int /\ g.ab = (t % 2 = 1)
          /\ \A k \in DOMAIN g.chars : g.chars[k] = CharacterAt(pi, t, RT!Width(g.type) * g.addr + k)
      BY <1>1, <1>3
    <2> QED BY <1>1, <1>3, <1>7, <1>4, <2>1, TextFacts
  <1>9. PICK new_ht : new_ht = [ht EXCEPT ![pi] = all]
    OBVIOUS
  <1>10. TextsRight(e, new_ht) /\ TextsServed(d, e, new_ht)
    BY <1>8, <1>9, TextHeardRight DEF Serves
  <1>11. Current(e).AFlist = Current(d).AFlist /\ Current(e).tmc_list = Current(d).tmc_list
    BY <1>5, <1>8 DEF Current, SameLists, Serves, SameCurrent, SameAltFreqs
  <1>12. ShowsCurrent(d, e)
    BY <1>8, <1>11 DEF ShowsCurrent, Serves
  <1>13. [ht EXCEPT ![pi] = Joined(ht[pi], g.of)] = new_ht
    BY <1>2, <1>3, <1>9, <1>4
  <1> QED BY <1>3, <1>8, <1>10, <1>12, <1>13

\* A new decoder has a channel for no code.
LEMMA NewDecoderFacts ==
    ASSUME NEW junk, junk \subseteq Flags, NEW d, d = NewDecoder(junk)
    PROVE  /\ IsDecoder(d) /\ ClockRight(d)
           /\ \A n \in DOMAIN d.chlist : /\ d.chlist[n].PIcode = NoPI
                                         /\ d.chlist[n].radio_text = RT!NewText
  <1> DEFINE cleared == AF!Cleared
             ch == NewChannel(NoPI, junk)
  <1>0. PICK none : none = <<>>
    OBVIOUS
  <1>1. PICK d0 : d0 = [chlist |-> none, curchind |-> 0, last_pi_code |-> -2, events |-> {},
                        tmpAFlist |-> cleared, tmpEONAFlist |-> cleared,
                        utc_datetime |-> none, local_datetime |-> none]
    OBVIOUS
  <1>2. /\ IsChannel(ch) /\ ch.PIcode = NoPI /\ ch.radio_text = RT!NewText
        /\ IsAltFreqList(cleared)
    BY BlankChannel
  <1>3. d = set_pi_code(d0, NoPI, junk)
    BY <1>0, <1>1 DEF NewDecoder
  <1>4. KnownChannel(ClearLists(d0), NoPI, junk) =
           IF HasChannel(ClearLists(d0), NoPI) THEN ClearLists(d0)
           ELSE [ClearLists(d0) EXCEPT !.chlist = Append(@, ch)]
    BY DEF KnownChannel
  <1> HIDE DEF cleared, ch
  <1>5. PICK one : one = Append(none, ch)
    OBVIOUS
  <1>6. IsSeq(one) /\ DOMAIN one = {1} /\ one[1] = ch
    <2>0. <<>> \in Seq({}) /\ DOMAIN <<>> = {} /\ Len(<<>>) = 0
      OBVIOUS
    <2>1. PICK empty \in Seq({}) : empty = none /\ DOMAIN empty = {} /\ Len(empty) = 0
      BY <1>0, <2>0
    <2>2. /\ IsSeq(Append(empty, ch)) /\ DOMAIN Append(empty, ch) = DOMAIN empty \cup {Len(empty) + 1}
          /\ Append(empty, ch)[Len(empty) + 1] = ch
      <3>1. IsSeq(empty)
        BY SeqIsSeq
      <3> QED BY <3>1, IsSeqAppend
    <2> QED BY <1>5, <2>1, <2>2
  <1>7. PICK c : c = ClearLists(d0)
    OBVIOUS
  <1>8. c = d0
    <2>1. c = [d0 EXCEPT !.tmpAFlist = cleared, !.tmpEONAFlist = cleared]
      BY <1>7 DEF ClearLists, cleared
    <2>2. c = [chlist |-> none, curchind |-> 0, last_pi_code |-> -2, events |-> {},
               tmpAFlist |-> cleared, tmpEONAFlist |-> cleared,
               utc_datetime |-> none, local_datetime |-> none]
      BY <1>1, <2>1
    <2> QED BY <1>1, <2>2
  <1>9. ~HasChannel(c, NoPI)
    <2>1. d0.chlist = none /\ DOMAIN <<>> = {}
      BY <1>1
    <2>2. DOMAIN d0.chlist = {}
      BY <1>0, <2>1
    <2> QED BY <1>8, <2>2 DEF HasChannel
  <1>10. PICK known : known = KnownChannel(c, NoPI, junk)
    OBVIOUS
  <1>11. known = [d0 EXCEPT !.chlist = one]
    <2>1. known = [c EXCEPT !.chlist = Append(@, ch)]
      BY <1>4, <1>7, <1>9, <1>10
    <2> QED BY <1>1, <1>5, <1>8, <2>1
  <1>12. /\ known.chlist = one /\ known.events = {}
         /\ known = [chlist |-> one, curchind |-> 0, last_pi_code |-> -2, events |-> {},
                     tmpAFlist |-> cleared, tmpEONAFlist |-> cleared,
                     utc_datetime |-> none, local_datetime |-> none]
    BY <1>1, <1>11
  <1>13. PICK k : k = lookup_pi_code(known, NoPI)
    OBVIOUS
  <1>14. k = 1
    <2>1. 1 \in DOMAIN known.chlist /\ known.chlist[1].PIcode = NoPI
      BY <1>2, <1>6, <1>12
    <2>2. \A m \in 1..(1 - 1) : known.chlist[m].PIcode # NoPI
      OBVIOUS
    <2>3. k \in DOMAIN known.chlist
      BY <1>13, <2>1, <2>2 DEF lookup_pi_code
    <2> QED BY <1>6, <1>12, <2>3
  <1>15. PICK other : other = [set_event(known, ChannelEvents) EXCEPT !.curchind = k,
                                                                     !.last_pi_code = NoPI]
    OBVIOUS
  <1>16. d0.last_pi_code # NoPI
    BY <1>1 DEF NoPI
  <1>17. d = set_event(other, {"picode"})
    BY <1>3, <1>7, <1>10, <1>13, <1>15, <1>16 DEF set_pi_code
  <1>18. d = [chlist |-> one, curchind |-> 1, last_pi_code |-> NoPI,
              events |-> d.events, tmpAFlist |-> cleared, tmpEONAFlist |-> cleared,
              utc_datetime |-> none, local_datetime |-> none]
    <2>1. PICK told : told = set_event(known, ChannelEvents)
      OBVIOUS
    <2>2. PICK evnts : evnts = {} \cup ChannelEvents
      OBVIOUS
    <2>3. told = [known EXCEPT !.events = evnts]
      BY <1>12, <2>1, <2>2 DEF set_event
    <2>4. told = [chlist |-> one, curchind |-> 0, last_pi_code |-> -2, events |-> evnts,
                  tmpAFlist |-> cleared, tmpEONAFlist |-> cleared,
                  utc_datetime |-> none, local_datetime |-> none]
      BY <1>12, <2>3
    <2>5. PICK code : code = NoPI
      OBVIOUS
    <2>6. other = [told EXCEPT !.curchind = k, !.last_pi_code = code]
      BY <1>15, <2>1, <2>5
    <2>7. other = [chlist |-> one, curchind |-> k, last_pi_code |-> code, events |-> evnts,
                   tmpAFlist |-> cleared, tmpEONAFlist |-> cleared,
                   utc_datetime |-> none, local_datetime |-> none]
      BY <2>4, <2>6
    <2>8. PICK more : more = evnts \cup {"picode"}
      OBVIOUS
    <2>9. d = [other EXCEPT !.events = more]
      BY <1>17, <2>7, <2>8 DEF set_event
    <2>10. d = [chlist |-> one, curchind |-> k, last_pi_code |-> code, events |-> more,
                tmpAFlist |-> cleared, tmpEONAFlist |-> cleared,
                utc_datetime |-> none, local_datetime |-> none]
      BY <2>7, <2>9
    <2>11. d.events = more
      BY <2>10
    <2> QED BY <1>14, <2>5, <2>10, <2>11
  <1>19. /\ d.chlist = one /\ d.curchind = 1 /\ d.last_pi_code = NoPI
         /\ d.tmpAFlist = cleared /\ d.tmpEONAFlist = cleared
         /\ d.utc_datetime = none /\ d.local_datetime = none
    BY <1>18
  <1>20. d = [chlist |-> d.chlist, curchind |-> d.curchind, last_pi_code |-> d.last_pi_code,
             events |-> d.events, tmpAFlist |-> d.tmpAFlist, tmpEONAFlist |-> d.tmpEONAFlist,
             utc_datetime |-> d.utc_datetime, local_datetime |-> d.local_datetime]
    BY <1>18, <1>19
  <1>21. IsDecoder(d)
    BY <1>2, <1>6, <1>19, <1>20 DEF IsDecoder
  <1>22. ClockRight(d)
    BY <1>0, <1>19 DEF ClockRight
  <1> QED BY <1>2, <1>6, <1>19, <1>21, <1>22

-----------------------------------------------------------------------------
(* The other steps of a source *)

LEMMA SameShown ==
    ASSUME NEW d, NEW e, e.chlist = d.chlist, SameCurrent(d, e), SameClock(d, e)
    PROVE  AllShown(d, e)
  <1>1. Current(e) = Current(d)
    BY DEF Current, SameCurrent
  <1>2. /\ Item(d, "rflags") = Item(e, "rflags") /\ Item(d, "picode") = Item(e, "picode")
        /\ Item(d, "ptype") = Item(e, "ptype") /\ Item(d, "pname") = Item(e, "pname")
    BY <1>1, Items
  <1>3. /\ Item(d, "rtxt") = Item(e, "rtxt") /\ Item(d, "lrtxt") = Item(e, "lrtxt")
        /\ Item(d, "tmc") = Item(e, "tmc") /\ Item(d, "aflist") = Item(e, "aflist")
    BY <1>1, Items
  <1>4. Item(d, "utcdt") = Item(e, "utcdt") /\ Item(d, "locdt") = Item(e, "locdt")
    BY Items DEF SameClock
  <1> QED BY <1>2, <1>3, <1>4 DEF AllShown, Shown

LEMMA SameChannelsRight ==
    ASSUME NEW d, NEW e, e.chlist = d.chlist
    PROVE  /\ \A ht : TextsRight(d, ht) => TextsRight(e, ht)
           /\ \A at : ListsRight(d, at) => ListsRight(e, at)
  <1>1. \A ht : TextsRight(d, ht) => TextsRight(e, ht)
    BY DEF TextsRight
  <1>2. \A at : ListsRight(d, at) => ListsRight(e, at)
    BY DEF ListsRight, HasChannel
  <1> QED BY <1>1, <1>2

\* The source is tuned to another frequency: there is no code.
LEMMA RetunedFacts ==
    ASSUME NEW d, IsDecoder(d), NEW q, q = [d EXCEPT !.events = {}],
           NEW junk, junk \subseteq Flags, NEW e, e = FreqChanged(q, junk)
    PROVE  /\ IsDecoder(e) /\ AllShown(d, e) /\ SameClock(d, e)
           /\ \A ht : TextsRight(d, ht) => TextsRight(e, ht)
           /\ \A ht : TextsServed(d, e, ht)
           /\ \A at : ListsRight(d, at) => ListsRight(e, at)
  <1>1. /\ IsDecoder(q) /\ q.chlist = d.chlist
        /\ SameClock(d, q) /\ SameCurrent(d, q)
    <2>1. PICK evnts : evnts = {}
      OBVIOUS
    <2>2. q = [d EXCEPT !.events = evnts]
      BY <2>1
    <2> QED BY <2>2, EventsChanged
  <1>2. PICK told : told = set_event(q, {"rxfre"})
    OBVIOUS
  <1>3. Tunes(q, told) /\ Serves(q, told) /\ told.chlist = q.chlist
    BY <1>1, <1>2, EventsTune
  <1>4. IsDecoder(told)
    BY <1>3 DEF Tunes, Follows
  <1>5. e = set_pi_code(told, NoPI, junk)
    BY <1>2 DEF FreqChanged
  <1>6. /\ Tunes(told, e) /\ e.last_pi_code = NoPI /\ "picode" \in e.events
        /\ told.last_pi_code = NoPI => Serves(told, e) /\ e.chlist = told.chlist
        /\ e.curchind # told.curchind => {"picode", "pname", "rtxt", "lrtxt", "ptype"} \subseteq e.events
    BY <1>4, <1>5, PiCodeSet
  <1>7. Tunes(q, e)
    BY <1>3, <1>6, TunesTransitive
  <1>8. IsDecoder(e)
    BY <1>7 DEF Tunes, Follows
  <1>9. ASSUME NEW ht, TextsRight(d, ht) PROVE TextsRight(e, ht)
    <2>1. TextsRight(q, ht)
      BY <1>1, <1>9, SameChannelsRight
    <2> QED BY <1>7, <2>1, TextsStayRight DEF Tunes
  <1>10. ASSUME NEW at, ListsRight(d, at) PROVE ListsRight(e, at)
    <2>1. ListsRight(q, at)
      BY <1>1, <1>10, SameChannelsRight
    <2> QED BY <1>7, <2>1, ListsStayRight DEF Tunes
  <1>11. Current(e).PIcode = NoPI
    BY <1>6, <1>8 DEF IsDecoder, Current
  <1>12. SameClock(d, e)
    BY <1>1, <1>7 DEF Tunes, SameClock
  <1>13. told.curchind = d.curchind
    BY <1>1, <1>3 DEF Serves, SameCurrent
  <1>14. ASSUME NEW ht PROVE TextsServed(d, e, ht)
    <2>1. TextsServed(q, e, ht)
      BY <1>1, <1>7, TextsKept DEF Tunes
    <2> QED BY <1>1, <2>1, Zenon DEF TextsServed
  <1>15. CASE e.curchind # d.curchind
    <2>1. {"picode", "pname", "rtxt", "lrtxt", "ptype"} \subseteq e.events
      BY <1>6, <1>13, <1>15
    <2>2. Shown(d, e, "utcdt") /\ Shown(d, e, "locdt")
      BY <1>12, Items DEF Shown, SameClock
    <2>3. AllShown(d, e)
      BY <1>11, <1>15, <2>1, <2>2 DEF AllShown, Shown
    <2> QED BY <1>8, <1>9, <1>10, <1>12, <1>14, <2>3
  <1>16. CASE e.curchind = d.curchind
    <2>1. PICK n \in DOMAIN told.chlist : n = d.curchind /\ n = e.curchind /\ n = told.curchind
      BY <1>4, <1>13, <1>16 DEF IsDecoder
    <2>2. e.chlist[n].PIcode = told.chlist[n].PIcode
      BY <1>6, <2>1 DEF Tunes, Follows
    <2>3. told.last_pi_code = NoPI
      BY <1>4, <1>6, <1>8, <2>1, <2>2 DEF IsDecoder
    <2>4. e.chlist = d.chlist /\ SameCurrent(d, e)
      BY <1>1, <1>3, <1>6, <2>3 DEF Serves, SameCurrent
    <2>5. AllShown(d, e)
      BY <1>12, <2>4, SameShown
    <2> QED BY <1>8, <1>9, <1>10, <1>12, <1>14, <2>5
  <1> QED BY <1>15, <1>16

-----------------------------------------------------------------------------
(* The steps keep the invariant *)

LEMMA InitRight ==
    ASSUME RxInit
    PROVE  RxInv /\ TmcInv /\ ClockInv
  <1>1. PICK junk \in Junk : Data = NewDecoder(junk)
    BY DEF RxInit, SourceInit
  <1>2. junk \subseteq Flags
    BY SourceAssumption
  <1>3. PICK d : d = Data
    OBVIOUS
  <1>4. /\ IsDecoder(d) /\ ClockRight(d)
        /\ \A n \in DOMAIN d.chlist : /\ d.chlist[n].PIcode = NoPI
                                      /\ d.chlist[n].radio_text = RT!NewText
    BY <1>1, <1>2, <1>3, NewDecoderFacts
  <1>5. SourceInv
    BY SourceAssumption DEF RxInit, SourceInit, SourceInv
  <1>6. AirInv
    <2>1. {} \in HeardSets
      BY DEF HeardSets
    <2> QED BY <2>1, StationsAssumption DEF RxInit, AirInv, Never
  <1>7. TextsRight(d, heardTexts)
    <2>1. ASSUME NEW n \in DOMAIN d.chlist
          PROVE  d.chlist[n].radio_text.RTbuffer = <<>>
      BY <1>4 DEF RT!NewText
    <2> QED BY <2>1 DEF TextsRight, BufferRight
  <1>8. ListsRight(d, heard)
    <2>1. NoPI \notin Stations
      BY StationsAssumption DEF NoPI
    <2>2. \A pi \in Stations, g \in Messages : heard[pi][g] = Never
      BY DEF RxInit
    <2> QED BY <1>4, <2>1, <2>2 DEF ListsRight
  <1> QED BY <1>3, <1>4, <1>5, <1>6, <1>7, <1>8 DEF RxInv, TmcInv, ClockInv

\* Process() takes the events away that only a radio device can have.
LEMMA EventsMasked ==
    ASSUME NEW f, IsDecoder(f), NEW e, e = f \/ e = [f EXCEPT !.events = @ \ RadioEvents]
    PROVE  /\ IsDecoder(e) /\ e.chlist = f.chlist /\ SameCurrent(f, e) /\ SameClock(f, e)
           /\ f.events \ RadioEvents \subseteq e.events
  <1>1. CASE e = f
    BY <1>1 DEF SameCurrent, SameClock
  <1>2. CASE e # f
    <2>1. PICK evnts : evnts = f.events \ RadioEvents
      OBVIOUS
    <2>2. e = [f EXCEPT !.events = evnts]
      BY <1>2, <2>1
    <2> QED BY <2>1, <2>2, EventsChanged
  <1> QED BY <1>1, <1>2

\* The texts that were heard, after a group.
TextOf(ht, g) ==
    IF g.type \in {"2A", "2B"} THEN [ht EXCEPT ![g.pi] = Joined(ht[g.pi], g.of)] ELSE ht

\* The decoder after a group.
LEMMA GroupDecoded ==
    ASSUME NEW d, IsDecoder(d), NEW pi \in Stations, NEW type \in GroupTypes,
           NEW g, g \in GroupsOf(pi, type), NEW junk, junk \subseteq Flags, NEW time,
           NEW ht \in [Stations -> HeardSets], ht = heardTexts, TextsRight(d, ht),
           NEW f, f = AddGroup(d, g, time, junk), NEW d1, d1 = Common(d, g, junk),
           NEW new_ht, new_ht = TextOf(ht, g)
    PROVE  /\ Tunes(d, d1) /\ d1.last_pi_code = pi /\ IsDecoder(d1)
           /\ Follows(d1, f) /\ ShowsCurrent(d1, f)
           /\ new_ht \in [Stations -> HeardSets] /\ TextsRight(f, new_ht) /\ TextsServed(d1, f, new_ht)
           /\ type # "8A" => SameLists(d1, f)
           /\ type = "8A" => f = Traffic(d1, g, time) /\ g.tmc \in Messages
           /\ ClockRight(d) => ClockRight(f)
  <1>1. g.type = type /\ g.pi = pi /\ g.pty \in -1..31
    BY GroupIsOf
  <1>2. Tunes(d, d1) /\ d1.last_pi_code = pi /\ IsDecoder(d1)
    BY <1>1, CommonFacts DEF Tunes, Follows
  <1>3. TextsRight(d1, ht)
    BY <1>2, TextsStayRight DEF Tunes
  <1>4. ClockRight(d) => ClockRight(d1)
    BY <1>2, ClockKept DEF Tunes
  <1>5. f = ByType(d1, g, time, junk)
    BY DEF AddGroup, ByType
  <1>6. CASE type \in {"2A", "2B"}
    <2>1. f = Text(d1, g, junk)
      BY <1>1, <1>5, <1>6 DEF ByType
    <2>2. /\ Follows(d1, f) /\ SameLists(d1, f) /\ ShowsCurrent(d1, f)
          /\ SameClock(d1, f)
          /\ g.of \in 0..MaxText
          /\ TextsRight(f, [ht EXCEPT ![pi] = Joined(ht[pi], g.of)])
          /\ TextsServed(d1, f, [ht EXCEPT ![pi] = Joined(ht[pi], g.of)])
      BY <1>2, <1>3, <1>6, <2>1, TextGroupDecoded
    <2>3. new_ht = [ht EXCEPT ![pi] = Joined(ht[pi], g.of)]
      BY <1>1, <1>6 DEF TextOf
    <2>5. new_ht \in [Stations -> HeardSets]
      <3>1. Joined(ht[pi], g.of) \in HeardSets
        BY <2>2, JoinedFacts
      <3> QED BY <2>3, <3>1
    <2>4. ClockRight(d) => ClockRight(f)
      BY <1>4, <2>2, ClockKept
    <2> QED BY <1>2, <1>6, <2>2, <2>3, <2>4, <2>5
  <1>7. CASE type \notin {"2A", "2B"}
    <2>1. /\ Follows(d1, f) /\ SameTexts(d1, f) /\ ShowsCurrent(d1, f)
          /\ type # "8A" => SameLists(d1, f)
          /\ type = "8A" => f = Traffic(d1, g, time) /\ g.tmc \in Messages
          /\ ClockRight(d1) => ClockRight(f)
      BY <1>2, <1>5, <1>7, OtherGroupDecoded
    <2>2. new_ht = ht
      BY <1>1, <1>7 DEF TextOf
    <2>3. TextsRight(f, ht) /\ TextsServed(d1, f, ht)
      BY <1>3, <2>1, TextsStayRight, TextsKept
    <2> QED BY <1>2, <1>4, <2>1, <2>2, <2>3
  <1> QED BY <1>6, <1>7

LEMMA HearingFacts ==
    ASSUME NEW at \in [Stations -> [Messages -> Nat \cup {Never}]], NEW time \in Nat,
           \A q \in Stations, m \in Messages : at[q][m] <= time,
           NEW pi \in Stations, NEW msg \in Messages, NEW new_at, new_at = Hearing(at, pi, msg, time)
    PROVE  /\ new_at \in [Stations -> [Messages -> Nat \cup {Never}]]
           /\ \A q \in Stations, m \in Messages : new_at[q][m] <= time
  <1>1. PICK own \in [Messages -> Nat \cup {Never}] : own = at[pi]
    OBVIOUS
  <1>2. PICK new : new = [own EXCEPT ![msg] = time]
    OBVIOUS
  <1>3. new_at = [at EXCEPT ![pi] = new]
    BY <1>1, <1>2 DEF Hearing
  <1>4. new \in [Messages -> Nat \cup {Never}] /\ \A m \in Messages : new[m] <= time
    <2>1. \A m \in Messages : own[m] <= time
      BY <1>1
    <2> QED BY <1>2, <2>1
  <1> QED BY <1>3, <1>4

HeardOf(at, pi, g, time) == IF g.type = "8A" THEN Hearing(at, pi, g.tmc, time) ELSE at

LEMMA ListsDecoded ==
    ASSUME NoProviderParts, NEW d, NEW d1, Tunes(d, d1), IsDecoder(d1),
           NEW pi \in Stations, d1.last_pi_code = pi,
           NEW at \in [Stations -> [Messages -> Nat \cup {Never}]], ListsRight(d, at),
           NEW time \in Nat, \A q \in Stations, m \in Messages : at[q][m] <= time,
           NEW g, NEW f, Follows(d1, f),
           g.type # "8A" => SameLists(d1, f),
           g.type = "8A" => f = Traffic(d1, g, time) /\ g.tmc \in Messages,
           NEW new_at, new_at = HeardOf(at, pi, g, time)
    PROVE  ListsRight(f, new_at)
  <1>1. ListsRight(d1, at)
    BY ListsStayRight DEF Tunes
  <1>2. CASE g.type # "8A"
    BY <1>1, <1>2, ListsStayRight DEF HeardOf
  <1>3. CASE g.type = "8A"
    <2>1. new_at = Hearing(at, pi, g.tmc, time)
      BY <1>3 DEF HeardOf
    <2>2. f = Traffic(d1, g, time) /\ g.tmc \in Messages
      BY <1>3
    <2> QED BY <1>1, <2>1, <2>2, TrafficHeardRight
  <1> QED BY <1>2, <1>3

LEMMA DecodeStep ==
    ASSUME RxInv, Decode
    PROVE  RxInv' /\ AllShown(Data, Data') /\ TextsServed(Data, Data', heardTexts')
           /\ (NoProviderParts /\ TmcInv => TmcInv')
           /\ (ClockInv => ClockInv')
  <1>0. PICK s \in sends : \E g \in GroupsOf(s[1], s[2]) :
           /\ DecodeGroup(g, now)
           /\ heard' = IF g.type = "8A" THEN [heard EXCEPT ![g.pi][g.tmc] = now] ELSE heard
           /\ heardTexts' = IF g.type \in {"2A", "2B"}
                            THEN [heardTexts EXCEPT ![g.pi] = Joined(@, g.of)] ELSE heardTexts
           /\ UNCHANGED <<sends, now>>
    BY DEF Decode
  <1>1. PICK g \in GroupsOf(s[1], s[2]) :
           /\ DecodeGroup(g, now)
           /\ heard' = IF g.type = "8A" THEN [heard EXCEPT ![g.pi][g.tmc] = now] ELSE heard
           /\ heardTexts' = IF g.type \in {"2A", "2B"}
                            THEN [heardTexts EXCEPT ![g.pi] = Joined(@, g.of)] ELSE heardTexts
           /\ UNCHANGED <<sends, now>>
    BY <1>0
  <1>2. PICK pi \in Stations, type \in GroupTypes : pi = s[1] /\ type = s[2]
    <2>1. s \in Stations \X GroupTypes
      BY StationsAssumption DEF RxInv, AirInv, GroupTypes
    <2> QED BY <2>1
  <1>3. g \in GroupsOf(pi, type)
    BY <1>1, <1>2
  <1>4. g.type = type /\ g.pi = pi
    BY <1>3, GroupIsOf
  <1>5. PICK d : d = Data
    OBVIOUS
  <1>6. PICK time \in Nat : time = now
    BY DEF RxInv, AirInv
  <1>7. PICK junk \in Junk : LET f == AddGroup(Data, g, now, junk)
                             IN  Data' = IF src_type # "radiodev" /\ left = 1
                                         THEN [f EXCEPT !.events = @ \ RadioEvents] ELSE f
    BY <1>1 DEF DecodeGroup
  <1>8. PICK f : f = AddGroup(d, g, time, junk)
    OBVIOUS
  <1>9. PICK e : e = Data'
    OBVIOUS
  <1>10. e = f \/ e = [f EXCEPT !.events = @ \ RadioEvents]
    BY <1>5, <1>6, <1>7, <1>8, <1>9
  <1>11. PICK ht \in [Stations -> HeardSets] : ht = heardTexts
    BY DEF RxInv, AirInv
  <1>12. PICK new_ht : new_ht = TextOf(ht, g)
    OBVIOUS
  <1>13. new_ht = heardTexts'
    BY <1>1, <1>11, <1>12 DEF TextOf
  <1>14. PICK d1 : d1 = Common(d, g, junk)
    OBVIOUS
  <1>15. /\ Tunes(d, d1) /\ d1.last_pi_code = pi /\ IsDecoder(d1)
         /\ Follows(d1, f) /\ ShowsCurrent(d1, f)
         /\ new_ht \in [Stations -> HeardSets] /\ TextsRight(f, new_ht) /\ TextsServed(d1, f, new_ht)
         /\ type # "8A" => SameLists(d1, f)
         /\ type = "8A" => f = Traffic(d1, g, time) /\ g.tmc \in Messages
         /\ ClockRight(d) => ClockRight(f)
    <2>1. IsDecoder(d) /\ TextsRight(d, ht) /\ junk \subseteq Flags
      BY <1>5, <1>11, SourceAssumption DEF RxInv
    <2> QED BY <1>3, <1>8, <1>11, <1>12, <1>14, <2>1, GroupDecoded
  <1>16. /\ IsDecoder(e) /\ e.chlist = f.chlist /\ SameCurrent(f, e) /\ SameClock(f, e)
         /\ f.events \ RadioEvents \subseteq e.events
    <2>1. IsDecoder(f)
      BY <1>15 DEF Follows
    <2> QED BY <1>10, <2>1, EventsMasked
  <1>17. AllShown(d, e)
    <2>1. IsDecoder(d) /\ junk \subseteq Flags
      BY <1>5, SourceAssumption DEF RxInv
    <2>2. g.pty \in -1..31
      BY <1>3, GroupIsOf
    <2> QED BY <1>14, <1>15, <1>16, <2>1, <2>2, GroupShown
  <1>18. PICK at \in [Stations -> [Messages -> Nat \cup {Never}]] :
            at = heard /\ \A q \in Stations, m \in Messages : at[q][m] <= time
    BY <1>6 DEF RxInv, AirInv
  <1>19. PICK new_at : new_at = HeardOf(at, pi, g, time)
    OBVIOUS
  <1>20. heard' = new_at
    BY <1>1, <1>4, <1>6, <1>18, <1>19 DEF Hearing, HeardOf
  <1>21. /\ new_at \in [Stations -> [Messages -> Nat \cup {Never}]]
          /\ \A q \in Stations, m \in Messages : new_at[q][m] <= time
    BY <1>4, <1>15, <1>18, <1>19, HearingFacts DEF HeardOf
  <1>22. SourceInv'
    BY <1>1, SourceAssumption DEF RxInv, SourceInv, DecodeGroup, srcvars
  <1>23. AirInv'
    BY <1>1, <1>6, <1>13, <1>15, <1>20, <1>21 DEF RxInv, AirInv
  <1>24. RxInv'
    <2>1. TextsRight(e, new_ht)
      BY <1>15, <1>16, SameChannelsRight
    <2>2. IsDecoder(Data') /\ TextsRight(Data', heardTexts')
      BY <1>9, <1>13, <1>16, <2>1
    <2> QED BY <1>22, <1>23, <2>2 DEF RxInv
  <1>25. TextsServed(Data, Data', heardTexts')
    <2>1. TextsServed(d, f, new_ht)
      BY <1>15, ServedAfterKept DEF Tunes
    <2>2. TextsServed(d, e, new_ht)
      BY <1>16, <2>1 DEF TextsServed
    <2> QED BY <1>5, <1>9, <1>13, <2>2
  <1>26. ASSUME NoProviderParts, TmcInv PROVE TmcInv'
    <2>1. ListsRight(d, at)
      BY <1>5, <1>18, <1>26 DEF TmcInv
    <2>2. ListsRight(f, new_at)
      BY <1>4, <1>15, <1>18, <1>19, <1>26, <2>1, ListsDecoded
    <2>3. ListsRight(e, new_at)
      BY <1>16, <2>2, SameChannelsRight
    <2> QED BY <1>9, <1>20, <2>3 DEF TmcInv
  <1>27. ASSUME ClockInv PROVE ClockInv'
    <2>1. ClockRight(f)
      BY <1>5, <1>15, <1>27 DEF ClockInv
    <2>2. ClockRight(e)
      BY <1>16, <2>1, ClockKept
    <2> QED BY <1>9, <2>2 DEF ClockInv
  <1> QED BY <1>5, <1>9, <1>17, <1>24, <1>26, <1>27, <1>25

LEMMA QuietStep ==
    ASSUME RxInv, Data' = Quiet, UNCHANGED airvars, SourceInv'
    PROVE  RxInv' /\ AllShown(Data, Data') /\ TextsServed(Data, Data', heardTexts')
           /\ (TmcInv => TmcInv')
           /\ (ClockInv => ClockInv')
  <1>1. PICK d : d = Data /\ IsDecoder(d)
    BY DEF RxInv
  <1>2. PICK e : e = Data'
    OBVIOUS
  <1>3. PICK evnts : evnts = {}
    OBVIOUS
  <1>4. e = [d EXCEPT !.events = evnts]
    BY <1>1, <1>2, <1>3 DEF Quiet
  <1>5. IsDecoder(e) /\ e.chlist = d.chlist /\ SameClock(d, e) /\ SameCurrent(d, e)
    BY <1>1, <1>4, EventsChanged
  <1>6. AllShown(d, e)
    BY <1>5, SameShown
  <1>7. TextsRight(d, heardTexts) /\ heardTexts' = heardTexts /\ heard' = heard
    BY <1>1 DEF RxInv, airvars
  <1>8. TextsRight(e, heardTexts)
    BY <1>5, <1>7, SameChannelsRight
  <1>9. AirInv'
    BY DEF RxInv, AirInv, airvars
  <1>10. ASSUME TmcInv PROVE TmcInv'
    <2>1. ListsRight(d, heard)
      BY <1>1, <1>10 DEF TmcInv
    <2>2. ListsRight(e, heard)
      BY <1>5, <2>1, SameChannelsRight
    <2> QED BY <1>2, <1>7, <2>2 DEF TmcInv
  <1>11. ASSUME ClockInv PROVE ClockInv'
    <2>1. ClockRight(e)
      BY <1>1, <1>5, <1>11, ClockKept DEF ClockInv
    <2> QED BY <1>2, <2>1 DEF ClockInv
  <1>12. TextsServed(Data, Data', heardTexts')
    BY <1>1, <1>2, <1>5 DEF TextsServed
  <1> QED BY <1>1, <1>2, <1>5, <1>6, <1>7, <1>8, <1>9, <1>10, <1>11, <1>12 DEF RxInv

LEMMA RetunedStep ==
    ASSUME RxInv, ProcessRetuned, UNCHANGED airvars
    PROVE  RxInv' /\ AllShown(Data, Data') /\ TextsServed(Data, Data', heardTexts')
           /\ (TmcInv => TmcInv')
           /\ (ClockInv => ClockInv')
  <1>1. PICK freq \in FreqSeen \ {tuner_freq_khz}, junk \in Junk :
           /\ tuner_freq_khz' = freq
           /\ Data' = FreqChanged(Quiet, junk)
    BY DEF ProcessRetuned
  <1>2. PICK d : d = Data /\ IsDecoder(d)
    BY DEF RxInv
  <1>3. PICK e : e = Data'
    OBVIOUS
  <1>4. PICK q : q = [d EXCEPT !.events = {}]
    OBVIOUS
  <1>5. e = FreqChanged(q, junk)
    BY <1>1, <1>2, <1>3, <1>4 DEF Quiet
  <1>6. junk \subseteq Flags
    BY SourceAssumption
  <1>7. /\ IsDecoder(e) /\ AllShown(d, e) /\ SameClock(d, e)
        /\ \A ht : TextsRight(d, ht) => TextsRight(e, ht)
        /\ \A ht : TextsServed(d, e, ht)
        /\ \A at : ListsRight(d, at) => ListsRight(e, at)
    BY <1>2, <1>4, <1>5, <1>6, RetunedFacts
  <1>8. SourceInv'
    BY <1>1 DEF RxInv, SourceInv, ProcessRetuned, FreqSeen
  <1>9. AirInv'
    BY DEF RxInv, AirInv, airvars
  <1>10. TextsRight(d, heardTexts) /\ heardTexts' = heardTexts /\ heard' = heard
    BY <1>2 DEF RxInv, airvars
  <1>11. TextsRight(e, heardTexts)
    BY <1>7, <1>10
  <1>12. RxInv'
    BY <1>3, <1>7, <1>8, <1>9, <1>10, <1>11 DEF RxInv
  <1>13. ASSUME TmcInv PROVE TmcInv'
    <2>1. ListsRight(d, heard)
      BY <1>2, <1>13 DEF TmcInv
    <2>2. ListsRight(e, heard)
      BY <1>7, <2>1
    <2> QED BY <1>3, <1>10, <2>2 DEF TmcInv
  <1>14. ASSUME ClockInv PROVE ClockInv'
    <2>1. ClockRight(e)
      BY <1>2, <1>7, <1>14, ClockKept DEF ClockInv
    <2> QED BY <1>3, <2>1 DEF ClockInv
  <1> QED BY <1>2, <1>3, <1>7, <1>12, <1>13, <1>14

LEMMA UnheardStep ==
    ASSUME RxInv, Data' = Data, UNCHANGED <<sends, heardTexts, heard>>, now' \in Nat, now' >= now,
           SourceInv'
    PROVE  RxInv' /\ AllShown(Data, Data') /\ TextsServed(Data, Data', heardTexts')
           /\ (TmcInv => TmcInv')
           /\ (ClockInv => ClockInv')
  <1>1. AirInv'
    <2>1. \A pi \in Stations, g \in Messages : heard'[pi][g] <= now'
      BY DEF RxInv, AirInv, Never
    <2> QED BY <2>1 DEF RxInv, AirInv
  <1>2. PICK d : d = Data
    OBVIOUS
  <1>3. AllShown(d, d)
    BY SameShown DEF SameCurrent, SameClock
  <1>4. AllShown(Data, Data')
    BY <1>2, <1>3
  <1>5. TextsServed(Data, Data', heardTexts')
    BY DEF TextsServed
  <1> QED BY <1>1, <1>4, <1>5 DEF RxInv, TmcInv, ClockInv

LEMMA StepRight ==
    ASSUME RxInv, [RxNext]_rxvars
    PROVE  RxInv' /\ AllShown(Data, Data') /\ TextsServed(Data, Data', heardTexts')
           /\ (NoProviderParts /\ TmcInv => TmcInv')
           /\ (ClockInv => ClockInv')
  <1>1. CASE Tick
    <2>1. SourceInv'
      BY <1>1 DEF Tick, RxInv, SourceInv, srcvars
    <2>2. now' \in Nat /\ now' >= now
      BY <1>1 DEF Tick, RxInv, AirInv
    <2> QED BY <1>1, <2>1, <2>2, UnheardStep DEF Tick
  <1>2. CASE Decode
    BY <1>2, DecodeStep
  <1>3. CASE Open /\ UNCHANGED airvars
    <2>1. SourceInv'
      BY <1>3 DEF Open, RxInv, SourceInv
    <2>2. now' \in Nat /\ now' >= now
      BY <1>3 DEF airvars, RxInv, AirInv
    <2> QED BY <1>3, <2>1, <2>2, UnheardStep DEF Open, airvars
  <1>4. CASE ProcessRetuned /\ UNCHANGED airvars
    BY <1>4, RetunedStep
  <1>5. CASE ProcessData /\ UNCHANGED airvars
    <2>1. left' \in 0..MaxRead
      <3>1. MaxRead \in Nat /\ MaxRead >= 1
        BY SourceAssumption
      <3> QED BY <1>5, <3>1 DEF ProcessData
    <2>2. SourceInv'
      BY <1>5, <2>1 DEF ProcessData, RxInv, SourceInv
    <2> QED BY <1>5, <2>2, QuietStep DEF ProcessData
  <1>6. CASE ProcessNothing /\ UNCHANGED airvars
    <2>1. SourceInv'
      BY <1>6 DEF ProcessNothing, srcvars, RxInv, SourceInv
    <2> QED BY <1>6, <2>1, QuietStep DEF ProcessNothing
  <1>7. CASE UNCHANGED rxvars
    <2>1. SourceInv'
      BY <1>7 DEF rxvars, srcvars, RxInv, SourceInv
    <2>2. now' \in Nat /\ now' >= now
      BY <1>7 DEF rxvars, airvars, RxInv, AirInv
    <2> QED BY <1>7, <2>1, <2>2, UnheardStep DEF rxvars, airvars
  <1> QED BY <1>1, <1>2, <1>3, <1>4, <1>5, <1>6, <1>7 DEF RxNext

-----------------------------------------------------------------------------
(* Theorems *)

\* The decoder, its texts and the source are what the code keeps them to be,
\* in every state.
THEOREM ReceptionInvariance == RxSpec => []RxInv
  <1>1. RxInv /\ [RxNext]_rxvars => RxInv'
    BY StepRight
  <1> QED BY <1>1, InitRight, PTL DEF RxSpec

\* The types of the source, and the shape of the decoder: the flags and the
\* program type of every channel, the sizes of a text buffer, and no list of
\* alternative frequencies half done.
THEOREM RxTypeCorrect == RxSpec => []RxTypeOK
  <1>1. ASSUME RxInv PROVE RxTypeOK
    <2>1. PICK d : d = Data /\ IsDecoder(d)
      BY <1>1 DEF RxInv
    <2>2. ASSUME NEW n \in DOMAIN d.chlist
          PROVE  /\ d.chlist[n].rds_flags \subseteq Flags
                 /\ d.chlist[n].PTYcode \in -1..31
                 /\ Len(d.chlist[n].radio_text.RTbuffer) \in {0, 2 * Segments, 4 * Segments}
                 /\ d.chlist[n].AFlist.status \in {"EMPTY", "COMPLETE"}
      BY <2>1 DEF IsDecoder, IsChannel, IsText
    <2>3. d.curchind \in DOMAIN d.chlist
      BY <2>1 DEF IsDecoder
    <2> QED BY <1>1, <2>1, <2>2, <2>3 DEF RxInv, SourceInv, RxTypeOK
  <1> QED BY <1>1, ReceptionInvariance, PTL

\* A program identification code has one channel, whichever way it was met
\* first, and the channel that is served is that of the last code.
THEOREM OneChannelPerCode == RxSpec => []ChannelsDistinct
  <1>1. RxInv => ChannelsDistinct
    BY DEF RxInv, IsDecoder, ChannelsDistinct, Current
  <1> QED BY <1>1, ReceptionInvariance, PTL

\* A last radio text is made of the texts of its own station that were heard
\* since the last change of the A/B flag, and is the whole text if it was one:
\* for any number of texts, whatever segments or whole texts are lost, whatever
\* stations are received in between, and when the counters of segments overflow.
THEOREM TextsWhole == RxSpec => TextsAreWhole
  <1>1. TextsServed(Data, Data', heardTexts') => TextStep
    BY Zenon DEF TextsServed, TextStep
  <1>2. RxInv /\ [RxNext]_rxvars => TextStep
    BY <1>1, StepRight
  <1>3. RxInv /\ [RxNext]_rxvars => [TextStep]_rxvars
    BY <1>2
  <1> QED BY <1>3, ReceptionInvariance, PTL DEF RxSpec, TextsAreWhole

\* Since its last TMC group the list of a station has one line for every
\* message received in the last time_to_live seconds, and no other, if none of
\* the messages carries a part of the provider name.
THEOREM TmcListIsExact ==
    ASSUME NoProviderParts
    PROVE  RxSpec => []TmcListExact
  <1>1. RxInv /\ TmcInv /\ [RxNext]_rxvars => (RxInv /\ TmcInv)'
    BY StepRight
  <1>2. ASSUME RxInv, TmcInv PROVE TmcListExact
    <2> SUFFICES ASSUME NEW n \in DOMAIN Data.chlist, Data.chlist[n].PIcode \in Stations
        PROVE  LET pi     == Data.chlist[n].PIcode
                   list   == Data.chlist[n].tmc_list.tmc_list
                   latest == CHOOSE t \in 0..now :
                                /\ \E g \in Messages : heard[pi][g] = t
                                /\ \A g \in Messages : heard[pi][g] <= t
                   fresh  == {g \in Messages :
                               heard[pi][g] # Never /\ latest - heard[pi][g] <= time_to_live}
               IN  /\ {list[k].data : k \in DOMAIN list} = {LineOf(g) : g \in fresh}
                   /\ \A j, k \in DOMAIN list : list[j].data = list[k].data => j = k
      BY Zenon DEF TmcListExact
    <2> DEFINE pi     == Data.chlist[n].PIcode
               list   == Data.chlist[n].tmc_list.tmc_list
               latest == CHOOSE t \in 0..now :
                            /\ \E g \in Messages : heard[pi][g] = t
                            /\ \A g \in Messages : heard[pi][g] <= t
               fresh  == {g \in Messages :
                           heard[pi][g] # Never /\ latest - heard[pi][g] <= time_to_live}
    <2>1. PICK at \in [Messages -> Nat \cup {Never}] : at = heard[pi]
      BY <1>2 DEF RxInv, AirInv
    <2>2. PICK time \in Nat : time = now /\ \A g \in Messages : at[g] <= time
      BY <1>2, <2>1 DEF RxInv, AirInv
    <2>3. ListRight(list, at)
      BY <1>2, <2>1 DEF TmcInv, ListsRight
    <2>4. Distinct(list)
      BY <1>2 DEF RxInv, IsDecoder, IsChannel, IsTmcList
    <2>5. ASSUME NEW last \in 0..now, LatestAt(at, last)
          PROVE  latest \in 0..now /\ LatestAt(at, latest)
      <3>1. /\ \E g \in Messages : heard[pi][g] = last
            /\ \A g \in Messages : heard[pi][g] <= last
        BY <2>1, <2>5 DEF LatestAt
      <3>2. /\ latest \in 0..now
            /\ \E g \in Messages : heard[pi][g] = latest
            /\ \A g \in Messages : heard[pi][g] <= latest
        <4> HIDE DEF pi
        <4> QED BY <3>1
      <3> QED BY <2>1, <3>2 DEF LatestAt
    <2>6. \A g : g \in fresh <=> /\ g \in Messages /\ at[g] # Never
                                 /\ latest - at[g] <= time_to_live
      <3> HIDE DEF pi, latest
      <3> QED BY <2>1
    <2> HIDE DEF pi, list, latest, fresh
    <2>7. ASSUME NEW g \in Messages, at[g] # Never
          PROVE  latest \in Nat /\ LatestAt(at, latest)
      <3>1. PICK last \in Nat : LatestAt(at, last) /\ last <= time
        BY <2>2, <2>7, LatestExists
      <3>2. last \in 0..now
        BY <2>2, <3>1
      <3> QED BY <2>2, <2>5, <3>1, <3>2
    <2>8. ASSUME NEW k \in DOMAIN list PROVE \E g \in fresh : list[k].data = LineOf(g)
      <3>1. PICK g \in Messages : LineOf(g) = list[k].data /\ at[g] = list[k].rx_time /\ at[g] \in Nat
        BY <2>3 DEF ListRight, EntryRight
      <3>2. at[g] # Never
        BY <3>1 DEF Never
      <3>3. latest - at[g] <= time_to_live
        BY <2>3, <2>7, <3>1, <3>2 DEF ListRight
      <3> QED BY <2>6, <3>1, <3>2, <3>3
    <2>9. ASSUME NEW g \in fresh PROVE \E k \in DOMAIN list : list[k].data = LineOf(g)
      <3>1. g \in Messages /\ at[g] # Never /\ latest - at[g] <= time_to_live
        BY <2>6, <2>9
      <3> QED BY <2>3, <2>7, <3>1 DEF ListRight
    <2>10. {list[k].data : k \in DOMAIN list} = {LineOf(g) : g \in fresh}
      BY <2>8, <2>9
    <2>11. \A j, k \in DOMAIN list : list[j].data = list[k].data => j = k
      BY <2>4 DEF Distinct
    <2> QED BY <2>10, <2>11, Zenon DEF list, fresh, latest, pi
  <1> QED BY <1>1, <1>2, InitRight, PTL DEF RxSpec

DatesFit(utc, local, time, hour, minute) ==
    /\ DT!IsDate(utc) /\ DT!JulDate(utc) \in Days
    /\ \/ CountsOn(utc, local)
       \/ /\ DT!IsDate(local)
          /\ Minutes(local, time.hour, time.minute) - Minutes(utc, hour, minute)
               \in {x * 30 : x \in Offsets}

\* The date that is served is one of the calendar and was received; the local
\* time is as many half hours away as was received, but for the day after the
\* last of a month: for all days of the years 1901 to 2099.
THEOREM DatesRight == RxSpec => []DatesAreRight
  <1>1. ASSUME ClockInv, Data.utc_datetime # <<>> PROVE DatesAreRight
    <2>1. PICK g : IsClock(g) /\ ClockOf(Data, g)
      BY <1>1 DEF ClockInv, ClockRight
    <2>2. PICK day \in Days, t \in Times, o \in Offsets :
             g.day = day /\ g.hour = t[1] /\ g.minute = t[2] /\ g.offset = o
      BY <2>1 DEF IsClock
    <2>3. day \in Int /\ day \in CodeDays
      <3>1. day \in Int /\ 15385 <= day /\ day <= 88068
        BY SMT, ClockAssumption
      <3> QED BY SMT, <3>1 DEF CodeDays
    <2>4. PICK hour \in 0..23, minute \in 0..59 : hour = t[1] /\ minute = t[2]
      <3>1. t \in (0..23) \X (0..59)
        BY SMT, ClockAssumption
      <3> QED BY <3>1
    <2>5. o \in -31..31
      <3>1. Offsets \subseteq -31..31
        BY SMT, ClockAssumption
      <3> QED BY Zenon, <3>1
    <2>6. PICK utc : utc = DT!UtcDate(day)
      OBVIOUS
    <2>7. PICK local : local = DT!LocalDate(day, hour, minute, o)
      OBVIOUS
    <2>8. PICK time : time = DT!LocalTime(hour, minute, o)
      OBVIOUS
    <2>9. Data.utc_datetime = <<utc, hour, minute>> /\ Data.local_datetime = <<local, time>>
      BY Zenon, <2>1, <2>2, <2>4, <2>6, <2>7, <2>8 DEF ClockOf
    <2>10. /\ Data.utc_datetime[1] = utc /\ Data.utc_datetime[2] = hour
           /\ Data.utc_datetime[3] = minute
           /\ Data.local_datetime[1] = local /\ Data.local_datetime[2] = time
      BY <2>9
    <2>11. DT!IsDate(utc) /\ DT!JulDate(utc) \in Days
      BY Zenon, <2>3, <2>6, DaysAreRight DEF DateRight
    <2>12. LocalIs(utc, hour, minute, local, time, o)
      BY Zenon, <2>3, <2>5, <2>6, <2>7, <2>8, LocalRight
    <2>13. DatesFit(utc, local, time, hour, minute)
      <3>1. CASE CountsOn(utc, local)
        BY Zenon, <2>11, <3>1 DEF DatesFit
      <3>2. CASE DT!IsDate(local) /\ HalfHours(utc, hour, minute, local, time, o)
        <4>1. o * 30 \in {x * 30 : x \in Offsets}
          OBVIOUS
        <4>2. Minutes(local, time.hour, time.minute) - Minutes(utc, hour, minute)
                \in {x * 30 : x \in Offsets}
          BY Zenon, <3>2, <4>1 DEF HalfHours
        <4> QED BY Zenon, <2>11, <3>2, <4>2 DEF DatesFit
      <3> QED BY Zenon, <2>12, <3>1, <3>2 DEF LocalIs
    <2>14. DatesFit(Data.utc_datetime[1], Data.local_datetime[1], Data.local_datetime[2],
                    Data.utc_datetime[2], Data.utc_datetime[3])
      BY Zenon, <2>10, <2>13
    <2> QED BY Zenon, <2>14 DEF DatesAreRight, DatesFit, CountsOn, Minutes
  <1>4. ClockInv => DatesAreRight
    BY <1>1 DEF DatesAreRight
  <1>2. RxInv /\ ClockInv /\ [RxNext]_rxvars => ClockInv'
    BY StepRight
  <1>3. RxSpec => []ClockInv
    BY <1>2, InitRight, ReceptionInvariance, PTL DEF RxSpec
  <1> QED BY <1>3, <1>4, PTL

\* Whatever a client can ask for changes in the step whose events say so, apart
\* from the three cases that ChangeStep excepts.
THEOREM ChangesAnnounced == RxSpec => ChangesAreAnnounced
  <1>1. AllShown(Data, Data') => ChangeStep
    BY DEF AllShown, Shown, ChangeStep, Announces
  <1>2. RxInv /\ [RxNext]_rxvars => ChangeStep
    BY <1>1, StepRight
  <1>3. RxInv /\ [RxNext]_rxvars => [ChangeStep]_rxvars
    BY <1>2
  <1> QED BY <1>3, ReceptionInvariance, PTL DEF RxSpec, ChangesAreAnnounced

=============================================================================
