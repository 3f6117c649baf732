---------------------------- MODULE AltFreqList ----------------------------
(***************************************************************************)
(* rdsd: a list of alternative frequencies (altfreqlist.cpp), put together *)
(* from pairs of frequency codes.  A group of type 0A opens a list with    *)
(* the number of frequencies and the first of them, the next groups add    *)
(* one or two each.  A list is a record of the object's members.           *)
(***************************************************************************)
EXTENDS Integers, Sequences

\* freq_in_khz(): 0 for the filler code, 1 for "LF/MF frequency follows", -1
\* for a code that is no frequency; the meaning of a code depends on the code
\* before it.
freq_in_khz(b, lfmf_follows) ==
    CASE b = 205                                       -> 0
      [] b = 250                                       -> 1
      [] lfmf_follows /\ b \in 1..15                   -> (b - 1) * 9 + 153
      [] lfmf_follows /\ b \in 16..135                 -> (b - 16) * 9 + 531
      [] ~lfmf_follows /\ b \in 1..204                 -> (b - 1) * 100 + 87600
      [] OTHER                                         -> -1

LfmfFollows(b, lfmf_follows) == b = 250 \/ (lfmf_follows /\ b = 205)

\* Clear()
Cleared ==
    [status |-> "EMPTY", first_freq |-> -1, freq_counter |-> -1,
     lfmf_follows |-> FALSE, freq_list |-> <<>>]

Contains(af, freq, mapped) ==
    \E n \in DOMAIN af.freq_list :
        af.freq_list[n].Freq = freq /\ af.freq_list[n].EonTNMapped = mapped

\* Fault: a frequency that is already in the list is counted again.
AddFreqFault(af, freq, is_variant, EONTNfreq) ==
    IF af.freq_counter <= 0 /\ EONTNfreq <= 0
    THEN [af EXCEPT !.status = "ERROR"]
    ELSE [af EXCEPT !.freq_list = IF Contains(af, freq, EONTNfreq)
                                  THEN @
                                  ELSE Append(@, [Freq |-> freq, IsVariant |-> is_variant,
                                                  EonTNMapped |-> EONTNfreq]),
                    !.freq_counter = @ - 1,
                    !.status = IF af.freq_counter = 1 THEN "COMPLETE" ELSE "INCOMPLETE"]

\* add_freq(): every frequency counts once.
add_freq(af, freq, is_variant, EONTNfreq) ==
    IF af.freq_counter <= 0 /\ EONTNfreq <= 0
    THEN [af EXCEPT !.status = "ERROR"]
    ELSE IF Contains(af, freq, EONTNfreq)
    THEN af
    ELSE [af EXCEPT !.freq_list = Append(@, [Freq |-> freq, IsVariant |-> is_variant,
                                             EonTNMapped |-> EONTNfreq]),
                    !.freq_counter = @ - 1,
                    !.status = IF af.freq_counter = 1 THEN "COMPLETE" ELSE "INCOMPLETE"]

\* Method A: both codes are frequencies of the list.
MethodA(af, f1, f2) ==
    LET a1 == IF f1 > 1 THEN add_freq(af, f1, FALSE, 0) ELSE af
    IN  IF a1.status = "ERROR" \/ f2 <= 1 THEN a1 ELSE add_freq(a1, f2, FALSE, 0)

\* handle_freq_pair(): with method B one code repeats the first frequency.
handle_freq_pair(af, b0, b1) ==
    LET f1 == freq_in_khz(b0, af.lfmf_follows)
        a1 == [af EXCEPT !.lfmf_follows = LfmfFollows(b0, @)]
        f2 == freq_in_khz(b1, a1.lfmf_follows)
        a2 == [a1 EXCEPT !.lfmf_follows = LfmfFollows(b1, @)]
    IN  CASE f1 < 0                             -> a1
          [] f1 >= 0 /\ f2 < 0                  -> a2
          [] f1 >= 0 /\ f2 >= 0 /\ f1 = af.first_freq
                                                -> add_freq(a2, f2, f2 < f1, 0)
          [] f1 >= 0 /\ f2 >= 0 /\ f1 # af.first_freq /\ f2 = af.first_freq
                                                -> add_freq(a2, f1, f2 < f1, 0)
          [] OTHER                              -> MethodA(a2, f1, f2)

\* The group that opens a list: 224 + the number of frequencies, and the first.
OpenList(af, b0, b1) ==
    LET opened == [af EXCEPT !.freq_counter = b0 - 224]
    IN  CASE b0 \notin 224..249 -> [af EXCEPT !.status = "ERROR"]
          [] b0 = 224           -> [opened EXCEPT !.status = "COMPLETE"]
          [] b0 \in 225..249 /\ b1 = 250 ->
                [opened EXCEPT !.lfmf_follows = TRUE, !.status = "INCOMPLETE"]
          [] b0 \in 225..249 /\ b1 \in 1..204 ->
                LET f == 100 * (b1 - 1) + 87600
                IN  add_freq([opened EXCEPT !.first_freq = f], f, FALSE, 0)
          [] OTHER              -> [opened EXCEPT !.status = "ERROR"]

\* AddGroup() for a group of type 0A, or of type 14A and variant 4.
AddGroup(af, b0, b1) ==
    CASE af.status = "EMPTY"      -> OpenList(af, b0, b1)
      [] af.status = "INCOMPLETE" -> handle_freq_pair(af, b0, b1)
      [] af.status = "ERROR"      -> Cleared
      [] af.status = "COMPLETE"   -> [af EXCEPT !.status = "ERROR"]

\* Fault: the status that add_freq() has set is kept.
AddMappedFault(af, vtype, b0, b1) ==
    add_freq(af, freq_in_khz(b1, vtype = 9), FALSE, freq_in_khz(b0, FALSE))

\* AddGroup() for a group of type 14A and another variant: a frequency of the
\* tuned network and the one it is mapped to.
AddMappedGroup(af, vtype, b0, b1) ==
    LET EONf == freq_in_khz(b0, af.lfmf_follows)
        lfmf == vtype = 9 \/ LfmfFollows(b0, af.lfmf_follows)
        f    == freq_in_khz(b1, lfmf)
        a    == [af EXCEPT !.lfmf_follows = LfmfFollows(b1, lfmf)]
    IN  [add_freq(a, f, FALSE, EONf) EXCEPT !.status = "COMPLETE"]

=============================================================================
