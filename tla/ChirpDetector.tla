--------------------------- MODULE ChirpDetector ---------------------------
(***************************************************************************)
(* multiuser_chirp_detector_cc, which searches the baseband for the first  *)
(* subchirp of the chirp sequence and then goes from subchirp to subchirp, *)
(* over gaps of two lengths that alternate; it cannot see which of the two *)
(* comes first.  The baseband is that of modulate, as the blocks' tests    *)
(* use it, or that of dqcsk_mapper_fc, which takes frames of every size.   *)
(* The receiver may begin at any sample, and subchirps may be too weak.    *)
(*                                                                         *)
(* A window of the correlator is over the threshold when it is at most     *)
(* Slack samples off a subchirp that is not weak and is the one looked     *)
(* for.  An action is a turn of the loop of general_work; where a call     *)
(* ends makes no difference to the turns, since each makes at least one.   *)
(***************************************************************************)
EXTENDS CssModem, FiniteSetsExt

CONSTANTS
    Mapped,         \* the calls whose frames dqcsk_mapper_fc sends, too
    Entries,        \* samples that go by before the receiver begins
    Fadings,        \* names of fadings ...
    IsWeak(_, _),   \* ... and the samples at which a subchirp is weak in them
    Silence,        \* samples behind the last frame
    Slack           \* the correlator's peak is this wide to either side

ASSUME EntryAssumption == Entries \subseteq Nat /\ Silence \in Nat
ASSUME SlackAssumption == Slack \in Nat /\ 4 * Slack < n_sub

VARIABLES
    d_state, d_chirp_ctr, d_subchirp_ctr,
    nitems_read,    \* samples consumed
    entry,          \* history: those before the receiver began
    found           \* samples at which a symbol was detected

counters == <<d_chirp_ctr, d_subchirp_ctr>>
detector == <<d_state, counters, nitems_read, entry, found>>

DetectorInit ==
    /\ Init
    /\ d_state = "SEARCH" /\ d_chirp_ctr = 0 /\ d_subchirp_ctr = 0
    /\ nitems_read = 0 /\ entry = 0 /\ found = {}

\* Where dqcsk_mapper_fc puts the j-th symbol (from 0): with each frame its counters
\* begin anew, so that the gap behind the first chirp is always the first.
MapperPut(j) ==
    LET N == calc_nsym_frame(slow, n)
    IN  (j \div N) * Put(N) + Put((j % N))

\* The flowgraph's sender, frame behind frame.  The phases are left out.
MapFrames ==
    /\ pc = "modulate" /\ call \in Mapped
    /\ pc' = "mapped"
    /\ LET symbols == call.nframes * calc_nsym_frame(slow, n)
           starts == {MapperPut(j) : j \in 0 .. symbols - 1}
       IN  iq' = [len |-> MapperPut(symbols),
                  at  |-> [o \in starts |->
                              [k |-> (CHOOSE j \in 0 .. symbols - 1 : MapperPut(j) = o) % 4, phase |-> 0]]]
    /\ UNCHANGED <<args, frame, rails, loop, bits, sent, detector>>

\* The radio takes either to the detector.
Tune ==
    /\ pc \in {"air", "mapped"}
    /\ pc' = "elsewhere"
    /\ \E e \in Entries, f \in Fadings :
        /\ nitems_read' = e /\ entry' = e
        /\ iq' = [len |-> iq.len + Silence,
                  at  |-> [o \in {o \in DOMAIN iq.at : ~IsWeak(f, o)} |-> iq.at[o]]]
    /\ UNCHANGED <<args, frame, rails, loop, bits, sent, d_state, counters, found>>

\* correlate_current_subchirp and corr_over_threshold.
OverThreshold(p) ==
    \E o \in (p - Slack .. p + Slack) \cap DOMAIN iq.at : iq.at[o].k = d_subchirp_ctr

required_input_items ==
    IF d_state = "SEARCH" THEN n_sub ELSE n_sub + Max({time_gap_1(chirp), time_gap_2(chirp)})

Ended == iq.len - nitems_read < required_input_items
Turning == pc = "elsewhere" /\ ~Ended

\* dist_to_next_subchirp
LastSubchirp == d_subchirp_ctr = 3
ToNextSubchirp ==
    n_sub + IF ~LastSubchirp THEN 0 ELSE IF d_chirp_ctr = 0 THEN time_gap_1(chirp) ELSE time_gap_2(chirp)
Advance ==
    /\ found' = found \cup {nitems_read}
    /\ nitems_read' = nitems_read + ToNextSubchirp
    /\ d_subchirp_ctr' = (d_subchirp_ctr + 1) % 4
    /\ d_chirp_ctr' = IF LastSubchirp THEN 1 - d_chirp_ctr ELSE d_chirp_ctr

\* Turns in which no symbol is detected, up to the next in which one is.
SearchOn ==
    /\ Turning /\ d_state = "SEARCH" /\ ~OverThreshold(nitems_read)
    /\ nitems_read' = Min({p \in nitems_read + 1 .. iq.len - n_sub + 1 :
                              OverThreshold(p) \/ p = iq.len - n_sub + 1})
    /\ UNCHANGED <<vars, d_state, counters, entry, found>>

SearchEnds ==
    /\ Turning /\ d_state = "SEARCH" /\ OverThreshold(nitems_read)
    /\ d_state' = "TRACKING"
    /\ Advance
    /\ UNCHANGED <<vars, entry>>

Track ==
    /\ Turning /\ d_state = "TRACKING" /\ OverThreshold(nitems_read)
    /\ Advance
    /\ UNCHANGED <<vars, d_state, entry>>

KeptChirpCtr == d_chirp_ctr     \* mutant

\* What reset leaves in d_chirp_ctr.
ResetChirpCtr == 0

\* No symbol at its place: reset.
LoseTrack ==
    /\ Turning /\ d_state = "TRACKING" /\ ~OverThreshold(nitems_read)
    /\ nitems_read' = nitems_read + 1
    /\ d_state' = "SEARCH" /\ d_subchirp_ctr' = 0 /\ d_chirp_ctr' = ResetChirpCtr
    /\ UNCHANGED <<vars, entry, found>>

DetectorNext ==
    \/ Next /\ UNCHANGED detector
    \/ MapFrames
    \/ Tune
    \/ SearchOn
    \/ SearchEnds
    \/ Track
    \/ LoseTrack

DetectorSpec == DetectorInit /\ [][DetectorNext]_<<vars, detector>> /\ WF_<<vars, detector>>(DetectorNext)
-----------------------------------------------------------------------------
\* A chirp that the receiver can hear begins here: no subchirp of it is weak, it
\* lies behind the entry, and the longer gap fits behind its last window.
HearableAt(o) ==
    /\ \A k \in 0 .. 3 : o + k * n_sub \in DOMAIN iq.at /\ iq.at[o + k * n_sub].k = k
    /\ entry <= o - Slack
    /\ o + 4 * n_sub + time_gap_2(chirp) + Slack <= iq.len

(* Wherever the receiver begins and whatever it misses, no chirp that it can hear
   is lost, as qa_multiuser_chirp_detector_cc.py:71 ("late-entry") has it: behind a
   chirp that is followed by the other gap than expected the search finds the next
   one, and it finds each symbol once. *)
HearableChirpsFound ==
    (pc = "elsewhere" /\ Ended) =>
        \A o \in DOMAIN iq.at : HearableAt(o) =>
            \A k \in 0 .. 3 :
                Cardinality(found \cap (o + k * n_sub - Slack .. o + k * n_sub + Slack)) = 1
=============================================================================
