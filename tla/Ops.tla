--------------------------------- MODULE Ops ---------------------------------
(***************************************************************************)
(* What the server says of itself: the counters of ingest calls, the       *)
(* history of samples the rates are taken from, and the list of problems.    *)
(* Times are in units of the sampling interval.                            *)
(***************************************************************************)
EXTENDS Integers, Sequences, FiniteSets

CONSTANTS
    RateSamples,     \* RATE_SAMPLES
    History,         \* HISTORY
    IngestStall,     \* INGEST_STALL
    DetectorStall,   \* DETECTOR_STALL
    MinCalls,        \* MIN_CALLS_FOR_RATE
    MaxCalls,        \* bound: ingest calls
    MaxNow,          \* bound: the clock
    Unset            \* a counter or a time that was never stored

ASSUME OpsAssumption ==
    /\ RateSamples \in Nat \ {0} /\ History \in Nat /\ History > RateSamples
    /\ {IngestStall, DetectorStall, MinCalls, MaxCalls, MaxNow} \subseteq Nat

Outcomes == {"measurements", "health", "registered", "rejected", "failed"}
Accepted == {"measurements", "health", "registered"}
Sampled == Outcomes \ {"registered"}   \* those that a Sample has

VARIABLES
    uptime,     \* the server's clock, from its start
    counts,     \* how many calls had each outcome
    stamps,     \* last_ingest_at and last_detection_at
    history,    \* the newest samples of the counters, oldest first
    sampled,    \* how many samples were ever taken
    calls       \* the calls there were: outcome, time, and samples taken before (for the properties)

opsVars == <<uptime, counts, stamps, history, sampled, calls>>

OpsInit ==
    /\ uptime = 1 /\ counts = [o \in Outcomes |-> 0]
    /\ stamps = [ingest |-> Unset, detection |-> Unset]
    /\ history = <<>> /\ sampled = 0 /\ calls = <<>>

-----------------------------------------------------------------------------

\* measurement_accepted, health_accepted and registered stamp, the others do not.
Stamps(outcome) == IF outcome \in Accepted THEN [stamps EXCEPT !.ingest = uptime] ELSE stamps

\* grpc/mod.rs count: an ingest call ends.
Call(outcome) ==
    /\ Len(calls) < MaxCalls
    /\ counts' = [counts EXCEPT ![outcome] = @ + 1]
    /\ stamps' = Stamps(outcome)
    /\ calls' = Append(calls, [outcome |-> outcome, at |-> uptime, before |-> sampled])
    /\ UNCHANGED <<uptime, history, sampled>>

\* A detection pass came to its end; one that fails does not stamp.
DetectionFinished ==
    /\ stamps.detection # uptime
    /\ stamps' = [stamps EXCEPT !.detection = uptime]
    /\ UNCHANGED <<uptime, counts, history, sampled, calls>>

\* sample: a loop that was held up takes its samples one after the other.
Sample ==
    /\ sampled < uptime
    /\ history' = Append(IF Len(history) >= History THEN Tail(history) ELSE history,
                         [at |-> uptime, counts |-> [o \in Sampled |-> counts[o]]])
    /\ sampled' = sampled + 1
    /\ UNCHANGED <<uptime, counts, stamps, calls>>

Elapse ==
    /\ uptime < MaxNow
    /\ uptime' = uptime + 1
    /\ UNCHANGED <<counts, stamps, history, sampled, calls>>

OpsNext == (\E o \in Outcomes : Call(o)) \/ DetectionFinished \/ Sample \/ Elapse

-----------------------------------------------------------------------------
(* What is shown: rates and rates_between, problems.                        *)

\* What if the sample was looked up without the one in between?
OldestOfFewer == LET i == Len(history) - RateSamples IN IF i < 0 THEN 1 ELSE i + 1

\* The sample RATE_SAMPLES before the newest, or the first one there is.
Oldest == LET i == Len(history) - (RateSamples + 1) IN IF i < 0 THEN 1 ELSE i + 1

\* Calls of an outcome over the window the rates cover, and its length.
Rate(outcome) == history[Len(history)].counts[outcome] - history[Oldest].counts[outcome]

WindowSeconds == history[Len(history)].at - history[Oldest].at

Refused == counts["rejected"] + counts["failed"]

Counted == Refused + counts["measurements"] + counts["health"] + counts["registered"]

Stale(stamp, limit) == uptime - stamp > limit

Problems(fleet) ==
    {p \in {"silent", "stalled", "detector", "refused", "failing"} :
        \/ p = "silent" /\ fleet > 0 /\ stamps.ingest = Unset
        \/ p = "stalled" /\ fleet > 0 /\ stamps.ingest # Unset /\ Stale(stamps.ingest, IngestStall)
        \/ p = "detector" /\ stamps.detection # Unset /\ Stale(stamps.detection, DetectorStall)
        \/ p = "refused" /\ Counted >= MinCalls /\ 100 * Refused > 33 * Counted
        \/ p = "failing" /\ counts["failed"] > 0 /\ counts["measurements"] = 0}

-----------------------------------------------------------------------------
(* Properties.                                                              *)

\* The rates count the calls that ended after the RATE_SAMPLES-th sample before the
\* newest one, all of them and no others, also while the history is short, after it
\* has begun to forget, and when the sampling was held up.
RatesCountTheirCalls ==
    history # <<>> =>
        \A o \in Sampled :
            Rate(o) = Cardinality({i \in DOMAIN calls :
                                      /\ calls[i].outcome = o /\ calls[i].before < sampled
                                      /\ calls[i].before > 0 /\ calls[i].before >= sampled - RateSamples})

\* A fleet is never healthy when the server took nothing from it for the stall time,
\* however many calls it refused meanwhile.
HealthyMeansHeard ==
    Problems(1) = {} =>
        \E i \in DOMAIN calls : calls[i].outcome \in Accepted /\ calls[i].at >= uptime - IngestStall

\* What the page of the server's own state shows is so: its rates and its silence.
PageIsTrue == RatesCountTheirCalls /\ HealthyMeansHeard

=============================================================================
