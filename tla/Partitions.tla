------------------------------ MODULE Partitions ------------------------------
(***************************************************************************)
(* The daily partitions of the measurements: a maintenance pass creates    *)
(* those around today, moves the rows that fell into the default one, and  *)
(* drops those that are past the retention, while windows keep coming in.  *)
(* What the pass sums up in between is in module Rollup.                   *)
(***************************************************************************)
EXTENDS Integers, FiniteSets

CONSTANTS
    Retention,    \* RAW_RETENTION_DAYS
    Ahead,        \* PARTITIONS_AHEAD
    MaxDay,       \* bound: the calendar
    MaxRows,      \* bound: windows that come in
    Default       \* measurements_default

ASSUME PartitionsAssumption ==
    {Retention, Ahead, MaxDay, MaxRows} \subseteq Nat /\ Default \notin Int

VARIABLES
    today,
    attached,    \* the days that have a partition
    rows,        \* which window (a number and its day) is in which partition
    seen,        \* how many windows came in
    upkeep,      \* the pass: what it is about to do, and to which day
    ensured      \* the day for which a pass last ensured the whole range

partitionVars == <<today, attached, rows, seen, upkeep, ensured>>

Idle == [at |-> "idle", day |-> 0, until |-> 0]

PartitionInit ==
    /\ today = Retention + 1 /\ attached = {} /\ rows = {} /\ seen = 0
    /\ upkeep = Idle /\ ensured = -1

\* An insert goes to the partition of the day, or to the default one.  Journals of
\* nodes that were away bring windows of any earlier day.
Insert(day) ==
    /\ seen < MaxRows /\ day <= today
    /\ rows' = rows \cup {[id |-> seen, day |-> day, in |-> IF day \in attached THEN day ELSE Default]}
    /\ seen' = seen + 1
    /\ UNCHANGED <<today, attached, upkeep, ensured>>

Midnight ==
    /\ today < MaxDay
    /\ today' = today + 1
    /\ UNCHANGED <<attached, rows, seen, upkeep, ensured>>

-----------------------------------------------------------------------------
(* The pass: jobs/mod.rs once and prune, partitions.rs.                     *)

\* What if partitions were only created forward from today?
BeginForward ==
    /\ upkeep = Idle
    /\ upkeep' = [at |-> "ensure", day |-> today, until |-> today + Ahead]
    /\ UNCHANGED <<today, attached, rows, seen, ensured>>

Begin ==
    /\ upkeep = Idle
    /\ upkeep' = [at |-> "ensure", day |-> today - Retention, until |-> today + Ahead]
    /\ UNCHANGED <<today, attached, rows, seen, ensured>>

\* ensure_day, one transaction: the rows of the day leave the default partition.
EnsureDay ==
    /\ upkeep.at = "ensure" /\ upkeep.day <= upkeep.until
    /\ attached' = attached \cup {upkeep.day}
    /\ rows' = IF upkeep.day \in attached THEN rows
               ELSE {[r EXCEPT !.in = IF @ = Default /\ r.day = upkeep.day THEN r.day ELSE @] : r \in rows}
    /\ upkeep' = [upkeep EXCEPT !.day = @ + 1]
    /\ UNCHANGED <<today, seen, ensured>>

\* ensure_range returns; after a failure the pass goes on all the same.
EnsureRange(failed) ==
    /\ upkeep.at = "ensure" /\ (failed \/ upkeep.day > upkeep.until)
    /\ upkeep' = [upkeep EXCEPT !.at = "rollups"]
    /\ ensured' = IF failed THEN ensured ELSE upkeep.until - Ahead
    /\ UNCHANGED <<today, attached, rows, seen>>

\* The rollups are written, or fail, and then nothing is removed.  The horizon of
\* what is removed is taken from the clock after them.
RunRollups(failed) ==
    /\ upkeep.at = "rollups"
    /\ upkeep' = IF failed THEN Idle
                 ELSE [at |-> "prune", day |-> today - Retention, until |-> today - Retention]
    /\ UNCHANGED <<today, attached, rows, seen, ensured>>

\* rollup.rs prune_raw, one statement; an error is logged.
PruneRaw(failed) ==
    /\ upkeep.at = "prune"
    /\ rows' = IF failed THEN rows ELSE {r \in rows : r.day >= upkeep.day}
    /\ upkeep' = [upkeep EXCEPT !.at = "drop"]
    /\ UNCHANGED <<today, attached, seen, ensured>>

\* What if a partition had aged as soon as it began before the cutoff?
AgedOfStart(day) == day <= upkeep.until

\* The partition ends at or before the cutoff.
Aged(day) == day + 1 <= upkeep.until

\* drop_before, one table after the other: the rows go with it.
DropBefore(day) ==
    /\ upkeep.at = "drop" /\ day \in attached /\ Aged(day)
    /\ attached' = attached \ {day}
    /\ rows' = {r \in rows : r.in # day}
    /\ UNCHANGED <<today, seen, upkeep, ensured>>

\* The list is at its end, or a drop failed.
EndPass ==
    /\ upkeep.at = "drop"
    /\ upkeep' = Idle
    /\ UNCHANGED <<today, attached, rows, seen, ensured>>

PartitionNext ==
    \/ \E day \in 0 .. MaxDay : Insert(day) \/ DropBefore(day)
    \/ Midnight \/ Begin \/ EnsureDay \/ EndPass
    \/ \E failed \in BOOLEAN : EnsureRange(failed) \/ RunRollups(failed) \/ PruneRaw(failed)

-----------------------------------------------------------------------------
(* Properties.                                                              *)

\* While passes keep to their hours no window of the days that are retained, and none
\* of the days ahead, is in the default partition, wherever it fell when it came in:
\* what is backfilled is found by its day.
BackfillLeavesTheDefault ==
    ensured >= 0 =>
        \A r \in rows :
            \/ r.day \notin ensured - Retention .. ensured + Ahead
            \/ r.in = r.day
            \/ r.day \notin attached /\ r.day < today - Retention

\* What leaves the table is past the retention, whether a statement deleted it or its
\* partition was dropped over it, and whatever came in between the two.
OnlyTheAgedLeave ==
    [][\A r \in rows : (\A kept \in rows' : kept.id # r.id) => r.day < today - Retention]_partitionVars

=============================================================================
