-------------------------------- MODULE Rollup --------------------------------
(***************************************************************************)
(* How raw measurement windows become rollups and age out: a pass builds   *)
(* the complete buckets of three resolutions from the raw windows, one     *)
(* statement at a time, and then deletes what is past its retention, while *)
(* nodes deliver windows.                                                  *)
(*                                                                         *)
(* The clock counts hours.  A window is the series it belongs to and the   *)
(* hour it starts in, and a rollup is the set of windows it sums up: its   *)
(* sample_count, min, max, mean and stddev are functions of that set.      *)
(* Only the pass writes rollups, so what it reads of them stays true.      *)
(***************************************************************************)
EXTENDS Naturals, Sequences, FiniteSetsExt

CONSTANTS
    Series,       \* a node's channel and metric
    Day,          \* hours in a day
    DaysInWeek,
    RawDays,      \* RAW_RETENTION_DAYS
    HourlyDays,   \* HOURLY_RETENTION_DAYS
    DailyDays,    \* DAILY_RETENTION_DAYS
    MaxBuckets,   \* MAX_BUCKETS_PER_RUN
    Faults,       \* of "database", "crash"
    MaxLate,      \* bound: windows that miss the hour they start in, at a time
    MaxNow,       \* bound: the hour the behaviour ends in
    MaxWindows,   \* bound: windows delivered and on their way
    None

ASSUME RetentionAssumption ==
    /\ {Day, DaysInWeek, RawDays, HourlyDays, DailyDays, MaxBuckets} \subseteq Nat \ {0}
    /\ RawDays >= DaysInWeek
    /\ HourlyDays >= RawDays /\ DailyDays >= HourlyDays

ASSUME BoundAssumption == MaxNow \in Nat

VARIABLES
    now,         \* the server's clock
    pending,     \* windows the nodes have not delivered yet
    delivered,   \* windows the server has ever stored, and the hour each came in
    raw,         \* the measurements table
    rollups,     \* the rollups table
    pass         \* the pass that runs

vars == <<now, pending, delivered, raw, rollups, pass>>

Resolutions == {"hourly", "daily", "weekly"}
Order == <<"hourly", "daily", "weekly">>

Window == [series : Series, at : 0 .. MaxNow]

Init ==
    /\ now = 0
    /\ pending = {} /\ delivered = {} /\ raw = {} /\ rollups = {}
    /\ pass = None

-----------------------------------------------------------------------------
(* Buckets.                                                                 *)

Span(res) == CASE res = "hourly" -> 1 [] res = "daily" -> Day [] res = "weekly" -> Day * DaysInWeek

BucketStart(res, at) == at - (at % Span(res))

BucketEnd(res, start) == start + Span(res)

InBucket(w, res, start) == w.at >= start /\ w.at < BucketEnd(res, start)

Horizon(days) == IF now < Day * days THEN 0 ELSE BucketStart("daily", now) - Day * days

-----------------------------------------------------------------------------
(* Nodes.                                                                   *)

Measure(w) ==
    /\ w \notin pending \cup raw
    /\ w.at = now
    /\ Cardinality(pending) + Cardinality(delivered) < MaxWindows
    /\ pending' = pending \cup {w}
    /\ UNCHANGED <<now, delivered, raw, rollups, pass>>

Deliver(w) ==
    /\ w \in pending
    /\ pending' = pending \ {w}
    /\ delivered' = delivered \cup {[window |-> w, on |-> now]} /\ raw' = raw \cup {w}
    /\ UNCHANGED <<now, rollups, pass>>

\* A pass may be left out, and none takes longer than an hour.
Tick ==
    /\ now < MaxNow
    /\ Cardinality(pending) <= MaxLate
    /\ pass # None => pass.clock = now
    /\ now' = now + 1
    /\ UNCHANGED <<pending, delivered, raw, rollups, pass>>

-----------------------------------------------------------------------------
(* The pass: jobs/mod.rs once and prune, rollup.rs run_all and run.         *)

StoredFrom(res, start) == {r.start : r \in {q \in rollups : q.res = res /\ q.start >= start}}

StartPass ==
    /\ pass = None
    /\ pass' = [at |-> "read", left |-> Order, clock |-> now, cursor |-> 0, stored |-> {}, built |-> 0]
    /\ UNCHANGED <<now, pending, delivered, raw, rollups>>

NextResolution ==
    [pass EXCEPT !.at = IF Len(pass.left) > 1 THEN "read" ELSE "prune", !.left = Tail(@),
                 !.cursor = 0, !.stored = {}, !.built = 0]

\* The next bucket that no series has, from one on.
Unbuilt(res, from, stored) == Min({from + k * Span(res) : k \in 0 .. MaxNow} \ stored)

\* first_outstanding and stored_buckets: from the bucket of the oldest window.
ReadOutstanding ==
    /\ pass # None /\ pass.at = "read"
    /\ LET res == Head(pass.left)
           first == BucketStart(res, Min({w.at : w \in raw}))
           stored == StoredFrom(res, first)
       IN  pass' = IF raw = {} THEN NextResolution
                   ELSE [pass EXCEPT !.at = "build", !.stored = stored,
                                     !.cursor = Unbuilt(res, first, stored)]
    /\ UNCHANGED <<now, pending, delivered, raw, rollups>>

\* What if a bucket were built before it is over?
OverEarly(res, start) == start < pass.clock

\* A bucket is complete when the pass began after its end.
Over(res, start) == BucketEnd(res, start) <= pass.clock

Building == pass # None /\ pass.at = "build"

Taken(row) == \E r \in rollups : <<r.series, r.res, r.start>> = <<row.series, row.res, row.start>>

\* build: one row for every series with a window in the bucket, unless it has
\* one; an empty bucket counts as built.  Stored ones are passed over.
BuildBucket ==
    /\ Building /\ pass.built < MaxBuckets
    /\ Over(Head(pass.left), pass.cursor)
    /\ LET res == Head(pass.left)
           in == {w \in raw : InBucket(w, res, pass.cursor)}
           row(s) == [series |-> s, res |-> res, start |-> pass.cursor,
                      windows |-> {w \in in : w.series = s}]
       IN  rollups' = rollups \cup {r \in {row(w.series) : w \in in} : ~Taken(r)}
    /\ pass' = [pass EXCEPT !.cursor = Unbuilt(Head(pass.left), BucketEnd(Head(pass.left), @), pass.stored),
                            !.built = @ + 1]
    /\ UNCHANGED <<now, pending, delivered, raw>>

EndResolution ==
    /\ Building
    /\ pass.built = MaxBuckets \/ ~Over(Head(pass.left), pass.cursor)
    /\ pass' = NextResolution
    /\ UNCHANGED <<now, pending, delivered, raw, rollups>>

\* What if old windows went whether or not the rollups could be written?
FailAndPrune ==
    /\ "database" \in Faults
    /\ pass # None /\ pass.at \in {"read", "build"}
    /\ pass' = [pass EXCEPT !.at = "prune", !.left = <<>>]
    /\ UNCHANGED <<now, pending, delivered, raw, rollups>>

\* A statement of run_all fails: nothing is pruned.
Fail ==
    /\ "database" \in Faults
    /\ pass # None /\ pass.at \in {"read", "build"}
    /\ pass' = None
    /\ UNCHANGED <<now, pending, delivered, raw, rollups>>

\* prune_raw and drop_before share a horizon; a failure of either is only logged.
\* A window delivered after the first goes with its partition, or stays when that
\* is the default partition.
PruneRaw ==
    /\ pass # None /\ pass.at = "prune"
    /\ raw' = {w \in raw : w.at >= Horizon(RawDays)} \/ ("database" \in Faults /\ UNCHANGED raw)
    /\ pass' = [pass EXCEPT !.at = "drop", !.cursor = Horizon(RawDays)]
    /\ UNCHANGED <<now, pending, delivered, rollups>>

DropPartitions ==
    /\ pass # None /\ pass.at = "drop"
    /\ raw' = {w \in raw : w.at >= pass.cursor} \/ UNCHANGED raw
    /\ pass' = [pass EXCEPT !.at = "trim", !.cursor = 0]
    /\ UNCHANGED <<now, pending, delivered, rollups>>

Retained(r) ==
    \/ r.res = "weekly"
    \/ r.res = "daily" /\ r.start >= Horizon(DailyDays)
    \/ r.res = "hourly" /\ r.start >= Horizon(HourlyDays)

\* Two DELETEs with nobody in between who writes: either may fail, and a process that
\* stops between them has done the first.
PruneRollups ==
    /\ pass # None /\ pass.at = "trim"
    /\ \E failed \in SUBSET {"hourly", "daily"} :
           /\ failed # {} => Faults # {}
           /\ rollups' = {r \in rollups : Retained(r) \/ r.res \in failed}
    /\ pass' = None
    /\ UNCHANGED <<now, pending, delivered, raw>>

Crash ==
    /\ "crash" \in Faults /\ pass # None
    /\ pass' = None
    /\ UNCHANGED <<now, pending, delivered, raw, rollups>>

-----------------------------------------------------------------------------

Pass ==
    \/ StartPass \/ ReadOutstanding \/ BuildBucket \/ EndResolution
    \/ Fail \/ PruneRaw \/ DropPartitions \/ PruneRollups \/ Crash

Next ==
    \/ \E w \in Window : Measure(w) \/ Deliver(w)
    \/ Tick
    \/ Pass

Spec == Init /\ [][Next]_vars

-----------------------------------------------------------------------------
(* Properties.                                                              *)

\* Whether a window was there before the bucket it belongs to was over.
InTime(d, res) == d.on < BucketEnd(res, BucketStart(res, d.window.at))

\* Every rollup that is not past its retention sums up the windows of its series and
\* bucket that came in before the bucket was over, all of them, although windows age
\* out while rollups of longer buckets are built, and nothing that belongs to another
\* series or bucket.
SumsAreComplete ==
    \A r \in {q \in rollups : Retained(q)} :
        LET due == {d \in delivered : d.window.series = r.series /\ InBucket(d.window, r.res, r.start)}
        IN  /\ {d.window : d \in {c \in due : InTime(c, r.res)}} \subseteq r.windows
            /\ r.windows \subseteq {d.window : d \in due}

SummedUp(w, res) == \E r \in rollups : r.res = res /\ w \in r.windows

\* A window leaves the measurements table only when every rollup it came in time for
\* sums it up, or is itself past its retention, however many passes failed, stopped
\* half-way or did not run in between.
AgedOutIsSummedUp ==
    \A d \in {c \in delivered : c.window \notin raw} :
        /\ InTime(d, "weekly") => SummedUp(d.window, "weekly")
        /\ InTime(d, "daily") => SummedUp(d.window, "daily") \/ d.window.at < Horizon(DailyDays)
        /\ InTime(d, "hourly") => SummedUp(d.window, "hourly") \/ d.window.at < Horizon(HourlyDays)

=============================================================================
