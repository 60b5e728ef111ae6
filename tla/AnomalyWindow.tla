---------------------------- MODULE AnomalyWindow ----------------------------
(* One delegator's AnomalyDetector (rbac/dynamic/anomaly.rs): the sliding window of
   recent actions, the history kept during warm-up and the baseline built from it.  The
   owner may install a baseline or ask for a rebuild at any time.

   Frequencies are counts over a length.  How far a profile deviates is left open (the
   band is any of the three) except that a profile equal to the means does not. *)
EXTENDS Naturals, Sequences, FiniteSets

CONSTANTS
    Categories,
    WindowSizes,     \* window sizes a detector may be built with; 0 is legal
    MinSamples,      \* BASELINE_MIN_SAMPLES
    Supplied,        \* baselines the owner may install: [counts, n]
    MaxObserved      \* bound: observations

(* with_baseline installs Some: never the value that stands for None here. *)
ASSUME AnomalyAssumption ==
    /\ MinSamples \in Nat \ {0} /\ WindowSizes \subseteq Nat
    /\ \A b \in Supplied : b.n \in Nat \ {0}

VARIABLES
    window_size, recent_actions, history, baseline, total_observed,
    score,        \* reason of the last AnomalyScore
    observed,         \* ghost: every observation, in order
    provenance    \* ghost: "none", "warm-up", "supplied" or "partial"

dvars == <<window_size, recent_actions, history, baseline, total_observed, score, observed, provenance>>

NoBaseline == [counts |-> [c \in Categories |-> 0], n |-> 0]

Count(s, c) == Cardinality({i \in DOMAIN s : s[i] = c})
Counts(s) == [c \in Categories |-> Count(s, c)]
Newest(s, k) == SubSeq(s, Len(s) - k + 1, Len(s))

AnomalyInit ==
    /\ window_size \in WindowSizes
    /\ recent_actions = <<>> /\ history = <<>> /\ baseline = NoBaseline /\ total_observed = 0
    /\ score = "none" /\ observed = <<>> /\ provenance = "none"

(* with_baseline: the history collected so far stays. *)
WithBaseline(b) ==
    /\ baseline' = b /\ provenance' = "supplied"
    /\ UNCHANGED <<window_size, recent_actions, history, total_observed, score, observed>>

IsBaselineReady(total) == total >= MinSamples

(* Mutant: the window is emptied only once it has outgrown its size. *)
MutSlide(window, record) ==
    Append(IF Len(window) > window_size THEN Tail(window) ELSE window, record)

(* The front goes when the window is full; the new record always enters. *)
Slide(window, record) ==
    Append(IF Len(window) >= window_size /\ window # <<>> THEN Tail(window) ELSE window, record)

(* build_baseline_from_history's result: nothing below the minimum or without history. *)
BuiltFrom(h, total, old) ==
    IF ~ IsBaselineReady(total) \/ h = <<>> THEN old ELSE [counts |-> Counts(h), n |-> Len(h)]

(* recompute_profile and pattern_deviation: does the window's profile match the means?
   A category of the baseline that the window lacks counts when its mean is above 1/100. *)
Matches(window, b) ==
    \A c \in Categories :
        IF Count(window, c) > 0 THEN Count(window, c) * b.n = b.counts[c] * Len(window)
        ELSE b.counts[c] * 100 <= b.n

Reasons == {"normal", "moderate-pattern-deviation", "high-pattern-deviation"}

(* Mutant: the baseline is taken from the window. *)
MutObserve(c) ==
    LET total == total_observed + 1
        window == Slide(recent_actions, c)
        built == IF baseline = NoBaseline THEN BuiltFrom(window, total, baseline) ELSE baseline IN
    /\ Len(observed) < MaxObserved
    /\ total_observed' = total /\ recent_actions' = window /\ observed' = Append(observed, c)
    /\ baseline' = built /\ history' = <<>>
    /\ provenance' = IF built # baseline THEN "warm-up" ELSE provenance
    /\ score' \in IF ~ IsBaselineReady(total) THEN {"insufficient-samples"} ELSE Reasons
    /\ UNCHANGED window_size

(* observe: slide the window, retain the record while there is no baseline, build the
   baseline when the minimum is reached, score against it. *)
Observe(c) ==
    LET total == total_observed + 1
        window == Slide(recent_actions, c)
        cold == baseline = NoBaseline
        kept == IF cold /\ Len(history) < MinSamples THEN Append(history, c) ELSE history
        building == cold /\ IsBaselineReady(total)
        built == IF building THEN BuiltFrom(kept, total, baseline) ELSE baseline IN
    /\ Len(observed) < MaxObserved
    /\ total_observed' = total /\ recent_actions' = window /\ observed' = Append(observed, c)
    /\ history' = IF building THEN <<>> ELSE kept
    /\ baseline' = built
    /\ provenance' = IF building THEN "warm-up" ELSE provenance
    /\ score' \in IF ~ IsBaselineReady(total) THEN {"insufficient-samples"}
                  ELSE IF built = NoBaseline \/ Matches(window, built) THEN {"normal"} ELSE Reasons
    /\ UNCHANGED window_size

(* The public rebuild. *)
BuildBaselineFromHistory ==
    LET built == BuiltFrom(history, total_observed, baseline) IN
    /\ built # baseline
    /\ baseline' = built /\ provenance' = "partial"
    /\ UNCHANGED <<window_size, recent_actions, history, total_observed, score, observed>>

AnomalyNext ==
    \/ \E c \in Categories : Observe(c)
    \/ \E b \in Supplied : WithBaseline(b)
    \/ BuildBaselineFromHistory

AnomalySpec == AnomalyInit /\ [][AnomalyNext]_dvars

-----------------------------------------------------------------------------
AnomalyTypeOK ==
    /\ recent_actions \in Seq(Categories) /\ history \in Seq(Categories)
    /\ Len(history) <= MinSamples /\ baseline.n \in Nat
    /\ score \in Reasons \cup {"none", "insufficient-samples"}

(* The window is the most recent actions and nothing else, however the detector got
   there; a size of 0 behaves as 1. *)
WindowIsRecent ==
    LET cap == IF window_size = 0 THEN 1 ELSE window_size IN
    recent_actions = Newest(observed, IF Len(observed) < cap THEN Len(observed) ELSE cap)

(* "at most `window_size` entries" *)
WindowWithinSize == Len(recent_actions) <= window_size

(* A detector past warm-up always has a baseline to score against, and unless the owner
   installed one it is exactly the first MinSamples observations: later behaviour,
   window eviction and rebuild calls never move it.  A rebuild finds something only when
   a baseline was installed in the middle of the warm-up. *)
BaselineIsWarmup ==
    /\ IsBaselineReady(total_observed) => baseline # NoBaseline
    /\ provenance = "warm-up" =>
           baseline = [counts |-> Counts(SubSeq(observed, 1, MinSamples)), n |-> MinSamples]
    /\ provenance = "partial" =>
           /\ baseline.n \in 1..(MinSamples - 1)
           /\ baseline.counts = Counts(SubSeq(observed, 1, baseline.n))

(* The anomaly window is the most recent actions and nothing else; past warm-up there is a
   baseline, and later behaviour never moves it. *)
DetectorHonest == AnomalyTypeOK /\ WindowIsRecent /\ BaselineIsWarmup

(* The inductive strengthening: the history is a prefix of what was observed, all of it
   while there is no baseline, and never reaches the minimum. *)
HistoryIsPrefix ==
    /\ window_size \in WindowSizes
    /\ observed \in Seq(Categories) /\ total_observed = Len(observed)
    /\ Len(history) < MinSamples /\ Len(history) <= Len(observed)
    /\ history = SubSeq(observed, 1, Len(history))
    /\ baseline = NoBaseline => Len(history) = Len(observed)
    /\ provenance = "warm-up" => MinSamples <= Len(observed)
    /\ provenance = "partial" => baseline.n <= Len(observed)

AnomalyInv == DetectorHonest /\ HistoryIsPrefix
=============================================================================
