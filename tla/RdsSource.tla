----------------------------- MODULE RdsSource -----------------------------
(***************************************************************************)
(* rdsd: one source of RDS data (rdssource.cpp) with its decoder.  In      *)
(* every round of the main loop the daemon clears the events of the source *)
(* and, if there is something to read, calls Process(): it reads what the  *)
(* device has, and decodes one group after the other.  Which group comes   *)
(* next is a parameter of DecodeGroup: it is up to what was on air.        *)
(***************************************************************************)
EXTENDS RdsDecoder

CONSTANTS
    SourceTypes,    \* of {"radiodev", "file", "i2cdev"}
    TunerFreqs,     \* tunerfreq in the configuration, -1 if there is none
    getfreq,        \* getradiofreq in the configuration
    IoctlsFail,     \* whether VIDIOC_G_FREQUENCY may fail: TRUE, FALSE
    Junk,           \* what memory of the type rds_flags_t may hold
    MaxRead         \* bound: groups that one read() gets

ASSUME SourceAssumption ==
    /\ SourceTypes \subseteq {"radiodev", "file", "i2cdev"}
    /\ TunerFreqs \subseteq Int
    /\ getfreq \in BOOLEAN /\ IoctlsFail \in BOOLEAN
    /\ Junk \subseteq SUBSET Flags
    /\ MaxRead \in Nat \ {0}

VARIABLES
    Data,           \* the decoder
    src_type, tuner_freq_khz, status,
    left            \* groups that have been read and are not decoded yet

srcvars == <<src_type, tuner_freq_khz, status>>

\* GetRadioFreq() does not return the frequency it has got.
RADIO_FREQ == 878000

SourceInit ==
    /\ Data \in {NewDecoder(junk) : junk \in Junk}
    /\ src_type \in SourceTypes
    /\ tuner_freq_khz \in TunerFreqs
    /\ status = "CLOSED"
    /\ left = 0

\* Open(), where it succeeds: the daemon ends where it does not.
Open ==
    /\ status = "CLOSED"
    /\ status' = "WAIT"
    /\ UNCHANGED <<Data, src_type, tuner_freq_khz, left>>

\* SetAllEvents(0) of WorkLoop().
Quiet == [Data EXCEPT !.events = {}]

\* The frequencies that Process() may find: if the ioctl fails, freq is not
\* initialised.
FreqSeen ==
    IF src_type # "radiodev" \/ ~getfreq THEN {tuner_freq_khz}
    ELSE {RADIO_FREQ} \cup (IF IoctlsFail THEN {tuner_freq_khz, 0} ELSE {})

\* Process() finds another frequency, and drops what it has read.
ProcessRetuned ==
    /\ status # "CLOSED" /\ left = 0
    /\ \E freq \in FreqSeen \ {tuner_freq_khz}, junk \in Junk :
          /\ tuner_freq_khz' = freq
          /\ Data' = FreqChanged(Quiet, junk)
    /\ UNCHANGED <<src_type, status, left>>

\* Process() reads what the device has: a file and the I2C device give one
\* block, and so no more than one group.
ProcessData ==
    /\ status # "CLOSED" /\ left = 0
    /\ tuner_freq_khz \in FreqSeen
    /\ left' \in 0..(IF src_type = "radiodev" THEN MaxRead ELSE 1)
    /\ Data' = Quiet
    /\ status' = "OK"
    /\ UNCHANGED <<src_type, tuner_freq_khz>>

\* read() fails or finds the end of the file: the round goes on.
ProcessNothing ==
    /\ status # "CLOSED" /\ left = 0
    /\ tuner_freq_khz \in FreqSeen
    /\ Data' = Quiet
    /\ UNCHANGED <<srcvars, left>>

\* Events that only a radio device can have.
RadioEvents == {"rxfre", "rxsig"}

\* The loop of AddBytes(), and at its end ClearEvents() of Process().
DecodeGroup(g, now) ==
    /\ left > 0
    /\ \E junk \in Junk :
          LET d == AddGroup(Data, g, now, junk)
          IN  Data' = IF src_type # "radiodev" /\ left = 1
                      THEN [d EXCEPT !.events = @ \ RadioEvents] ELSE d
    /\ left' = left - 1
    /\ UNCHANGED srcvars

=============================================================================
