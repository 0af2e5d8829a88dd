------------------------------ MODULE Detection ------------------------------
(***************************************************************************)
(* What counts as a deviation: the baseline of one series at one hour of   *)
(* the day, and the judgement of its last windows by it.  The statements   *)
(* of a pass around it are in module Alarms.  Time is counted in windows,  *)
(* all of one length, and a day has the hours of Usual.                    *)
(***************************************************************************)
EXTENDS Integers, Sequences, FiniteSets

CONSTANTS
    WindowsPerHour,
    Usual,          \* what the series reads at each hour of a regular day
    Fault,          \* by how much less it reads while there is a fault
    BaselineDays,   \* BASELINE_DAYS
    MinBuckets,     \* MIN_BASELINE_BUCKETS
    Consecutive,    \* CONSECUTIVE_WINDOWS
    MaxWindows,     \* bound: windows that are measured
    MaxSwitches     \* bound: how often a fault comes or goes

ASSUME DetectionAssumption ==
    /\ {WindowsPerHour, MinBuckets, Consecutive} \subseteq Nat \ {0}
    /\ Consecutive <= WindowsPerHour /\ MinBuckets <= BaselineDays
    /\ Usual \in Seq(Int) /\ Usual # <<>> /\ Fault \in Int /\ BaselineDays \in Nat

VARIABLES
    means,      \* the mean of each window so far, the first one at time 0
    faulty,     \* since which switch, and how many there were
    verdict     \* what a pass made of the windows so far, "pending" before one

detectionVars == <<means, faulty, verdict>>

DetectionInit == means = <<>> /\ faulty = [on |-> FALSE, switches |-> 0] /\ verdict = "pending"

Hours == Len(Usual)
Day == Hours * WindowsPerHour
Now == Len(means)

\* The start of the hour, and its number within the day.
HourStart(time) == time - (time % WindowsPerHour)
HourOf(time) == (time \div WindowsPerHour) % Hours

\* The mean of the window that began at a time, and what it reads on a regular day,
\* where readings are a little different from one window to the next.
MeanAt(time) == means[time + 1]
RegularAt(time) == Usual[HourOf(time) + 1] + (time % 2)

-----------------------------------------------------------------------------
(* The baseline: detector.rs baseline_buckets, baselines, fold_baseline.    *)

\* What if the buckets were those of the hour before?
BaselineBucketsOfBefore(now) ==
    {b \in {HourStart(now) - WindowsPerHour - back * Day : back \in 0 .. BaselineDays} :
        b >= now - BaselineDays * Day /\ b < now}

\* The buckets of this hour on this and on earlier days, no older than the days of
\* the baseline and before now.
BaselineBuckets(now) ==
    {b \in {HourStart(now) - back * Day : back \in 0 .. BaselineDays} :
        b >= now - BaselineDays * Day /\ b < now}

\* The hourly rollups: an hour that is over and has windows.  The mean of a rollup
\* is left as the sum of its windows, its deviation as their range.
Rolled(buckets) == {b \in buckets : b >= 0 /\ b + WindowsPerHour <= Now}

InHour(b) == {MeanAt(b + i) : i \in 0 .. WindowsPerHour - 1}

RollupSum(b) ==
    LET sum[i \in 0 .. WindowsPerHour] == IF i = 0 THEN 0 ELSE sum[i - 1] + MeanAt(b + i - 1)
    IN  sum[WindowsPerHour]

\* How far the windows of an hour are apart, for the deviation the code pools from
\* their deviations and their means: a window here has a mean and no samples.
RollupRange(b) ==
    CHOOSE r \in {x - y : x, y \in InHour(b)} : \A x, y \in InHour(b) : x - y <= r

\* The k-th in order of the values of f.
NthOf(f, k) ==
    CHOOSE v \in {f[b] : b \in DOMAIN f} :
        /\ Cardinality({b \in DOMAIN f : f[b] < v}) < k
        /\ k <= Cardinality({b \in DOMAIN f : f[b] <= v})

\* jobs/mod.rs median, doubled.
Median2Of(f) ==
    LET count == Cardinality(DOMAIN f)
    IN  NthOf(f, (count + 1) \div 2) + NthOf(f, count \div 2 + 1)

Distance(a, b) == IF a < b THEN b - a ELSE a - b

\* fold_baseline: the medians of the means, of their distances from it and of the
\* deviations within the hours.
FoldBaseline(rolled) ==
    LET center2 == Median2Of([b \in rolled |-> RollupSum(b)])
    IN  [center2 |-> center2,
         between4 |-> Median2Of([b \in rolled |-> Distance(2 * RollupSum(b), center2)]),
         within2 |-> Median2Of([b \in rolled |-> RollupRange(b)])]

Square(n) == n * n

\* Four times the root of the squares of 1.4826 times the one spread and of the
\* other, all in units of a quarter of a sum; 1.4826 squared is 2.2.  The spread of at least
\* a millionth the code takes (MINIMUM_SPREAD) is below what integers tell apart.
Outside(value, baseline) ==
    LET distance == 4 * WindowsPerHour * value - 2 * baseline.center2
    IN  10 * Square(distance) >
            16 * (22 * Square(baseline.between4) + 10 * Square(2 * WindowsPerHour * baseline.within2))

-----------------------------------------------------------------------------
(* A pass: detector.rs recent_windows, judge, examine.                      *)

\* The newest windows that began within the last hour.
Recent(now) == {t \in now - Consecutive .. now - 1 : t >= 0 /\ t >= now - WindowsPerHour}

\* All of them are on the same side of the band.
Judge(recent, baseline) ==
    LET low(t) == 4 * WindowsPerHour * MeanAt(t) < 2 * baseline.center2
    IN  IF Cardinality(recent) < Consecutive \/ \E t \in recent : ~Outside(MeanAt(t), baseline)
        THEN "none"
        ELSE IF \A t \in recent : low(t) THEN "below"
        ELSE IF \A t \in recent : ~low(t) THEN "above"
        ELSE "none"

Examine ==
    LET rolled == Rolled(BaselineBuckets(Now)) IN
    /\ verdict' = IF Cardinality(rolled) < MinBuckets THEN "none"
                  ELSE Judge(Recent(Now), FoldBaseline(rolled))
    /\ UNCHANGED <<means, faulty>>

WindowComes ==
    /\ Now < MaxWindows
    /\ means' = Append(means, RegularAt(Now) - (IF faulty.on THEN Fault ELSE 0))
    /\ verdict' = "pending"
    /\ UNCHANGED faulty

Switch ==
    /\ faulty.switches < MaxSwitches
    /\ faulty' = [on |-> ~faulty.on, switches |-> faulty.switches + 1]
    /\ UNCHANGED <<means, verdict>>

DetectionNext == Examine \/ WindowComes \/ Switch

DetectionSpec == DetectionInit /\ [][DetectionNext]_detectionVars

-----------------------------------------------------------------------------
(* Properties.                                                              *)

Regular(time) == MeanAt(time) = RegularAt(time)

\* As long as every day is like the ones before, nothing is a deviation, however
\* much the hours of a day differ, but for one moment: when an hour has begun and
\* has no window of its own, those of the hour before are judged by its baseline.
OnlyTheTurnMisleads ==
    verdict' # "none" /\ (\A t \in 0 .. Now - 1 : Regular(t)) => \A t \in Recent(Now) : t < HourStart(Now)

\* A fault that has lasted for the windows it takes is seen, although the past
\* has faults of its own, as long as more than half of the same hours were without.
FaultsAreSeen ==
    LET rolled == Rolled(BaselineBuckets(Now))
        regular == {b \in rolled : \A i \in 0 .. WindowsPerHour - 1 : Regular(b + i)}
    IN  /\ Cardinality(rolled) >= MinBuckets /\ 2 * Cardinality(regular) > Cardinality(rolled)
        /\ Cardinality(Recent(Now)) = Consecutive
        /\ \A t \in Recent(Now) : t >= HourStart(Now) /\ ~Regular(t)
        => verdict' = "below"

\* A pass neither raises what is regular nor misses what is not.
VerdictsAreJust == [][Examine => OnlyTheTurnMisleads /\ FaultsAreSeen]_detectionVars

=============================================================================
