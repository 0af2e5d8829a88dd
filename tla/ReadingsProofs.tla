---------------------------- MODULE ReadingsProofs ----------------------------
(***************************************************************************)
(* Theorems about seven of the machines that readings pass through: the    *)
(* partitions they are stored in, the page on which the server says what   *)
(* it took in, the streaming filters of the node, the slots in which nodes *)
(* deliver, the reports that are made of samples, what of them counts as a *)
(* deviation, and the checkwords of RDS.                                   *)
(***************************************************************************)
EXTENDS Streams, Ops, Partitions, Cadence, Windows, Detection, Rds,
        FiniteSetTheorems, SequenceTheorems, WellFoundedInduction, TLAPS

-----------------------------------------------------------------------------
(* Partitions: for any retention and any range of days ahead.               *)

PartitionSpec == PartitionInit /\ [][PartitionNext]_partitionVars

PartitionRow == [id : Int, day : Int, in : Int \cup {Default}]

PartitionTypes ==
    /\ today \in Int /\ attached \subseteq Int /\ rows \subseteq PartitionRow
    /\ seen \in Int /\ ensured \in Int
    /\ upkeep \in [at : {"idle", "ensure", "rollups", "prune", "drop"}, day : Int, until : Int]

\* A row is in the partition of its day or in the default one, and in the default one
\* only as long as its day has no partition.
RowsFollowTheirDay ==
    \A r \in rows :
        /\ r.in = Default \/ r.in = r.day
        /\ r.day \in attached => r.in = r.day

\* What the pass has ensured so far is there: nothing is dropped meanwhile.
EnsuresInTurn ==
    upkeep.at = "ensure" => \A d \in upkeep.until - Ahead - Retention .. upkeep.day - 1 : d \in attached

\* A partition that was ensured has gone only for its age.
EnsuredUnlessAged ==
    ensured >= 0 =>
        \A d \in ensured - Retention .. ensured + Ahead : d \in attached \/ d < today - Retention

\* The cutoff was today's retention when it was taken, and days only pass.
CutoffIsOld ==
    upkeep.at \in {"prune", "drop"} => upkeep.day <= today - Retention /\ upkeep.until <= today - Retention

PartitionInvariant ==
    /\ PartitionTypes /\ RowsFollowTheirDay
    /\ EnsuresInTurn /\ EnsuredUnlessAged /\ CutoffIsOld

LEMMA PartitionNumbers == Retention \in Nat /\ Ahead \in Nat /\ MaxDay \in Nat /\ Default \notin Int
  BY PartitionsAssumption

LEMMA PartitionStart == ASSUME PartitionInit PROVE PartitionInvariant
<1> USE PartitionNumbers DEF PartitionInit, Idle
<1>1. PartitionTypes
  BY DEF PartitionTypes
<1>2. RowsFollowTheirDay /\ EnsuresInTurn /\ EnsuredUnlessAged /\ CutoffIsOld
  BY DEF RowsFollowTheirDay, EnsuresInTurn, EnsuredUnlessAged, CutoffIsOld
<1> QED
  BY <1>1, <1>2 DEF PartitionInvariant

\* Steps that leave the rows and the partitions as they are.
LEMMA UpkeepSteps ==
    ASSUME PartitionInvariant,
           \/ Midnight \/ Begin \/ EndPass
           \/ \E failed \in BOOLEAN : EnsureRange(failed) \/ RunRollups(failed)
    PROVE  PartitionInvariant'
<1> USE PartitionNumbers DEF PartitionInvariant
<1>1. UNCHANGED <<attached, rows, seen>>
  BY DEF Midnight, Begin, EndPass, EnsureRange, RunRollups
<1>2. RowsFollowTheirDay'
  BY <1>1 DEF RowsFollowTheirDay
<1>3. CASE Midnight
  <2>1. today' = today + 1 /\ UNCHANGED <<upkeep, ensured>>
    BY <1>3 DEF Midnight
  <2>2. PartitionTypes'
    BY <1>1, <2>1 DEF PartitionTypes
  <2>3. EnsuresInTurn'
    BY <1>1, <2>1 DEF EnsuresInTurn
  <2>4. EnsuredUnlessAged'
    BY <1>1, <2>1 DEF EnsuredUnlessAged, PartitionTypes
  <2>5. CutoffIsOld'
    BY <2>1 DEF CutoffIsOld, PartitionTypes
  <2> QED
    BY <1>2, <2>2, <2>3, <2>4, <2>5
<1>4. CASE Begin
  <2>1. /\ upkeep' = [at |-> "ensure", day |-> today - Retention, until |-> today + Ahead]
        /\ UNCHANGED <<today, ensured>>
    BY <1>4 DEF Begin
  <2>2. upkeep'.at = "ensure" /\ upkeep'.day = today - Retention /\ upkeep'.until = today + Ahead
    BY <2>1
  <2>3. PartitionTypes'
    BY <1>1, <2>1 DEF PartitionTypes
  <2>4. EnsuresInTurn'
    BY <2>2 DEF EnsuresInTurn, PartitionTypes
  <2>5. EnsuredUnlessAged' /\ CutoffIsOld'
    BY <1>1, <2>1, <2>2 DEF EnsuredUnlessAged, CutoffIsOld
  <2> QED
    BY <1>2, <2>3, <2>4, <2>5
<1>5. CASE EndPass
  <2>1. upkeep' = Idle /\ upkeep'.at = "idle" /\ UNCHANGED <<today, ensured>>
    BY <1>5 DEF EndPass, Idle
  <2>2. PartitionTypes'
    BY <1>1, <2>1 DEF PartitionTypes, Idle
  <2> QED
    BY <1>1, <1>2, <2>1, <2>2 DEF EnsuresInTurn, EnsuredUnlessAged, CutoffIsOld
<1>6. ASSUME NEW failed \in BOOLEAN, EnsureRange(failed) PROVE PartitionInvariant'
  <2>1. /\ upkeep.at = "ensure"
        /\ failed \/ upkeep.day > upkeep.until
        /\ upkeep' = [upkeep EXCEPT !.at = "rollups"]
        /\ ensured' = (IF failed THEN ensured ELSE upkeep.until - Ahead) /\ UNCHANGED today
    BY <1>6 DEF EnsureRange
  <2>2. upkeep'.at = "rollups" /\ upkeep.day \in Int /\ upkeep.until \in Int
    BY <2>1 DEF PartitionTypes
  <2>3. PartitionTypes'
    BY <1>1, <2>1, <2>2 DEF PartitionTypes
  <2>4. EnsuresInTurn' /\ CutoffIsOld'
    BY <2>2 DEF EnsuresInTurn, CutoffIsOld
  <2>5. EnsuredUnlessAged'
    <3>1. CASE failed
      BY <1>1, <2>1, <3>1 DEF EnsuredUnlessAged
    <3>2. CASE ~failed
      <4>1. ensured' = upkeep.until - Ahead /\ upkeep.day > upkeep.until /\ upkeep.at = "ensure"
        BY <2>1, <3>2
      <4>2. \A d \in ensured' - Retention .. ensured' + Ahead : d \in attached
        BY <2>2, <4>1 DEF EnsuresInTurn
      <4> QED
        BY <1>1, <4>2 DEF EnsuredUnlessAged
    <3> QED
      BY <3>1, <3>2
  <2> QED
    BY <1>2, <2>3, <2>4, <2>5
<1>7. ASSUME NEW failed \in BOOLEAN, RunRollups(failed) PROVE PartitionInvariant'
  <2>1. /\ upkeep' = (IF failed THEN Idle
                      ELSE [at |-> "prune", day |-> today - Retention, until |-> today - Retention])
        /\ UNCHANGED <<today, ensured>>
    BY <1>7 DEF RunRollups
  <2>2. /\ upkeep' \in [at : {"idle", "prune"}, day : Int, until : Int]
        /\ upkeep'.at = "prune" => upkeep'.day = today - Retention /\ upkeep'.until = today - Retention
    BY <2>1 DEF Idle, PartitionTypes
  <2>3. PartitionTypes'
    BY <1>1, <2>1, <2>2 DEF PartitionTypes
  <2>4. CutoffIsOld'
    BY <2>1, <2>2 DEF CutoffIsOld, PartitionTypes
  <2> QED
    BY <1>1, <1>2, <2>1, <2>2, <2>3, <2>4 DEF EnsuresInTurn, EnsuredUnlessAged
<1> QED
  BY <1>3, <1>4, <1>5, <1>6, <1>7

LEMMA InsertStep ==
    ASSUME PartitionInvariant, NEW day \in 0 .. MaxDay, Insert(day) PROVE PartitionInvariant'
<1> DEFINE new == [id |-> seen, day |-> day, in |-> IF day \in attached THEN day ELSE Default]
<1>1. rows' = rows \cup {new} /\ seen' = seen + 1 /\ UNCHANGED <<today, attached, upkeep, ensured>>
  BY DEF Insert
<1>2. new \in PartitionRow /\ new.day = day /\ new.in = (IF day \in attached THEN day ELSE Default)
  BY PartitionNumbers DEF PartitionInvariant, PartitionTypes, PartitionRow
<1> HIDE DEF new
<1>3. PartitionTypes'
  BY <1>1, <1>2 DEF PartitionInvariant, PartitionTypes
<1>4. RowsFollowTheirDay'
  BY <1>1, <1>2 DEF PartitionInvariant, RowsFollowTheirDay
<1> QED
  BY <1>1, <1>3, <1>4 DEF PartitionInvariant, EnsuresInTurn, EnsuredUnlessAged, CutoffIsOld

\* What ensure_day makes of one row.
Moved(r) == [r EXCEPT !.in = IF @ = Default /\ r.day = upkeep.day THEN r.day ELSE @]

LEMMA MovedRows ==
    ASSUME NEW r \in PartitionRow
    PROVE  /\ Moved(r) \in PartitionRow /\ Moved(r).id = r.id /\ Moved(r).day = r.day
           /\ Moved(r).in = (IF r.in = Default /\ r.day = upkeep.day THEN r.day ELSE r.in)
  BY DEF Moved, PartitionRow

LEMMA EnsureDayStep == ASSUME PartitionInvariant, EnsureDay PROVE PartitionInvariant'
<1> USE PartitionNumbers
<1>1. /\ upkeep.at = "ensure" /\ attached' = attached \cup {upkeep.day}
      /\ rows' = (IF upkeep.day \in attached THEN rows ELSE {Moved(r) : r \in rows})
      /\ upkeep' = [upkeep EXCEPT !.day = @ + 1] /\ UNCHANGED <<today, seen, ensured>>
  BY DEF EnsureDay, Moved
<1>2. /\ upkeep.day \in Int /\ upkeep.until \in Int /\ rows \subseteq PartitionRow
      /\ upkeep'.at = "ensure" /\ upkeep'.day = upkeep.day + 1 /\ upkeep'.until = upkeep.until
  BY <1>1 DEF PartitionInvariant, PartitionTypes
<1>3. PartitionTypes'
  <2>1. rows' \subseteq PartitionRow
    BY <1>1, <1>2, MovedRows
  <2>2. attached' \subseteq Int
    BY <1>1, <1>2 DEF PartitionInvariant, PartitionTypes
  <2>3. upkeep' \in [at : {"idle", "ensure", "rollups", "prune", "drop"}, day : Int, until : Int]
    BY <1>1, <1>2 DEF PartitionInvariant, PartitionTypes
  <2> QED
    BY <1>1, <2>1, <2>2, <2>3 DEF PartitionInvariant, PartitionTypes
<1>4. RowsFollowTheirDay'
  <2>1. CASE upkeep.day \in attached
    BY <1>1, <2>1 DEF PartitionInvariant, RowsFollowTheirDay
  <2>2. CASE upkeep.day \notin attached
    <3>1. SUFFICES ASSUME NEW r \in rows
                   PROVE  /\ Moved(r).in = Default \/ Moved(r).in = Moved(r).day
                          /\ Moved(r).day \in attached' => Moved(r).in = Moved(r).day
      BY <1>1, <2>2 DEF RowsFollowTheirDay
    <3>2. /\ r.in = Default \/ r.in = r.day
          /\ r.day \in attached => r.in = r.day
      BY DEF PartitionInvariant, RowsFollowTheirDay
    <3>3. Moved(r).day = r.day /\ Moved(r).in = (IF r.in = Default /\ r.day = upkeep.day THEN r.day ELSE r.in)
      BY <1>2, MovedRows
    <3> QED
      BY <1>1, <3>2, <3>3
  <2> QED
    BY <2>1, <2>2
<1>5. EnsuresInTurn'
  BY <1>1, <1>2 DEF PartitionInvariant, EnsuresInTurn
<1>6. EnsuredUnlessAged' /\ CutoffIsOld'
  BY <1>1, <1>2 DEF PartitionInvariant, EnsuredUnlessAged, CutoffIsOld
<1> QED
  BY <1>3, <1>4, <1>5, <1>6 DEF PartitionInvariant

LEMMA PruneStep ==
    ASSUME PartitionInvariant, NEW failed \in BOOLEAN, PruneRaw(failed) PROVE PartitionInvariant'
<1>1. /\ upkeep.at = "prune" /\ rows' \subseteq rows
      /\ upkeep' = [upkeep EXCEPT !.at = "drop"] /\ UNCHANGED <<today, attached, seen, ensured>>
  BY DEF PruneRaw
<1>2. upkeep'.at = "drop" /\ upkeep'.day = upkeep.day /\ upkeep'.until = upkeep.until
  BY <1>1 DEF PartitionInvariant, PartitionTypes
<1>3. PartitionTypes'
  BY <1>1 DEF PartitionInvariant, PartitionTypes
<1>4. RowsFollowTheirDay' /\ EnsuresInTurn' /\ EnsuredUnlessAged'
  BY <1>1, <1>2 DEF PartitionInvariant, RowsFollowTheirDay, EnsuresInTurn, EnsuredUnlessAged
<1>5. CutoffIsOld'
  BY <1>1, <1>2 DEF PartitionInvariant, CutoffIsOld
<1> QED
  BY <1>3, <1>4, <1>5 DEF PartitionInvariant

LEMMA DropStep ==
    ASSUME PartitionInvariant, NEW day \in 0 .. MaxDay, DropBefore(day) PROVE PartitionInvariant'
<1>1. /\ upkeep.at = "drop" /\ day + 1 <= upkeep.until
      /\ attached' = attached \ {day} /\ rows' = {r \in rows : r.in # day}
      /\ UNCHANGED <<today, seen, upkeep, ensured>>
  BY DEF DropBefore, Aged
<1>2. day < today - Retention
  BY <1>1, PartitionNumbers DEF PartitionInvariant, CutoffIsOld, PartitionTypes
<1>3. PartitionTypes' /\ RowsFollowTheirDay'
  BY <1>1 DEF PartitionInvariant, PartitionTypes, RowsFollowTheirDay
<1>4. EnsuredUnlessAged'
  BY <1>1, <1>2 DEF PartitionInvariant, EnsuredUnlessAged
<1>5. EnsuresInTurn' /\ CutoffIsOld'
  BY <1>1 DEF PartitionInvariant, EnsuresInTurn, CutoffIsOld
<1> QED
  BY <1>3, <1>4, <1>5 DEF PartitionInvariant

LEMMA PartitionsStay ==
    ASSUME PartitionInvariant, [PartitionNext]_partitionVars PROVE PartitionInvariant'
<1>1. CASE PartitionNext
  BY <1>1, InsertStep, EnsureDayStep, UpkeepSteps, PruneStep, DropStep DEF PartitionNext
<1>2. CASE UNCHANGED partitionVars
  BY <1>2 DEF partitionVars, PartitionInvariant, PartitionTypes, RowsFollowTheirDay, EnsuresInTurn,
              EnsuredUnlessAged, CutoffIsOld
<1> QED
  BY <1>1, <1>2

\* The rows of every day that a pass has ensured are in the partition of that day, or
\* the day has aged out since: for every retention, every range of days ahead, and
\* whatever is backfilled, fails, or is dropped while it runs.
THEOREM PartitionsTakeTheirRows == PartitionSpec => []BackfillLeavesTheDefault
<1>1. PartitionInit => PartitionInvariant
  BY PartitionStart
<1>2. PartitionInvariant /\ [PartitionNext]_partitionVars => PartitionInvariant'
  BY PartitionsStay
<1>3. PartitionInvariant => BackfillLeavesTheDefault
  BY PartitionNumbers DEF PartitionInvariant, RowsFollowTheirDay, EnsuredUnlessAged, BackfillLeavesTheDefault
<1> QED
  BY <1>1, <1>2, <1>3, PTL DEF PartitionSpec

\* No row leaves the table before its day is past the retention, whatever pass it
\* leaves in: the partitions that are dropped hold rows of their own day only.
LEMMA AgedLeave ==
    ASSUME PartitionInvariant, [PartitionNext]_partitionVars,
           NEW r \in rows, \A kept \in rows' : kept.id # r.id
    PROVE  r.day < today - Retention
<1> USE PartitionNumbers
<1>1. r \notin rows'
  OBVIOUS
<1>2. r \in PartitionRow /\ upkeep.day \in Int /\ upkeep.until \in Int /\ today \in Int
  BY DEF PartitionInvariant, PartitionTypes
<1>3. ~UNCHANGED rows
  BY <1>1
<1>4. ASSUME NEW day \in 0 .. MaxDay, Insert(day) PROVE FALSE
  BY <1>1, <1>4 DEF Insert
<1>5. ASSUME EnsureDay PROVE FALSE
  <2>1. rows' = {Moved(x) : x \in rows}
    BY <1>3, <1>5 DEF EnsureDay, Moved
  <2>2. Moved(r) \in rows' /\ Moved(r).id = r.id
    BY <1>2, <2>1, MovedRows
  <2> QED
    BY <2>2
<1>6. ASSUME NEW failed \in BOOLEAN, PruneRaw(failed) PROVE r.day < today - Retention
  <2>1. upkeep.at = "prune" /\ ~(r.day >= upkeep.day)
    BY <1>1, <1>6 DEF PruneRaw
  <2>2. upkeep.day <= today - Retention
    BY <2>1 DEF PartitionInvariant, CutoffIsOld
  <2>3. r.day \in Int
    BY <1>2 DEF PartitionRow
  <2> QED
    BY <1>2, <2>1, <2>2, <2>3
<1>7. ASSUME NEW day \in 0 .. MaxDay, DropBefore(day) PROVE r.day < today - Retention
  <2>1. upkeep.at = "drop" /\ day + 1 <= upkeep.until /\ r.in = day
    BY <1>1, <1>7 DEF DropBefore, Aged
  <2>2. r.day = day /\ upkeep.until <= today - Retention
    BY <2>1 DEF PartitionInvariant, CutoffIsOld, RowsFollowTheirDay
  <2> QED
    BY <1>2, <2>1, <2>2
<1> QED
  BY <1>3, <1>4, <1>5, <1>6, <1>7
     DEF PartitionNext, partitionVars, Midnight, Begin, EndPass, EnsureRange, RunRollups

\* What leaves the table is past the retention when it does.
THEOREM RowsLeaveOnlyOfAge == PartitionSpec => OnlyTheAgedLeave
<1>1. PartitionInit => PartitionInvariant
  BY PartitionStart
<1>2. PartitionInvariant /\ [PartitionNext]_partitionVars => PartitionInvariant'
  BY PartitionsStay
<1>3. PartitionInvariant /\ [PartitionNext]_partitionVars
        => [\A r \in rows : (\A kept \in rows' : kept.id # r.id) => r.day < today - Retention]_partitionVars
  BY AgedLeave
<1> QED
  BY <1>1, <1>2, <1>3, PTL DEF PartitionSpec, OnlyTheAgedLeave

-----------------------------------------------------------------------------
(* The page of the server's own state: for any lengths of the history, of   *)
(* the window of the rates and of the stalls.                               *)

OpsSpec == OpsInit /\ [][OpsNext]_opsVars

CallRecord == [outcome : Outcomes, at : Nat, before : Nat]
SampleRecord == [at : Nat, counts : [Sampled -> Nat]]

\* The calls of an outcome that ended before the n-th sample was taken.
CallsBefore(o, n) == {i \in DOMAIN calls : calls[i].outcome = o /\ calls[i].before < n}

OpsTypes ==
    /\ uptime \in Nat /\ sampled \in Nat /\ counts \in [Outcomes -> Nat]
    /\ stamps \in [ingest : Nat \cup {Unset}, detection : Nat \cup {Unset}]
    /\ history \in Seq(SampleRecord) /\ calls \in Seq(CallRecord)

CallsAreInTime == \A i \in DOMAIN calls : calls[i].before <= sampled

\* What was stamped is the time of a call that was taken.
StampIsACall ==
    stamps.ingest # Unset =>
        \E i \in DOMAIN calls : calls[i].outcome \in Accepted /\ calls[i].at = stamps.ingest

CountersCount == \A o \in Outcomes : counts[o] = Cardinality(CallsBefore(o, sampled + 1))

HistoryIsFull == Len(history) = IF sampled < History THEN sampled ELSE History

\* The k-th sample kept has the calls that ended before it was taken.
SamplesCount ==
    \A k \in 1 .. Len(history) : \A o \in Sampled :
        history[k].counts[o] = Cardinality(CallsBefore(o, sampled - Len(history) + k))

OpsInvariant ==
    /\ OpsTypes /\ CallsAreInTime /\ StampIsACall
    /\ CountersCount /\ HistoryIsFull /\ SamplesCount

LEMMA OpsNumbers == RateSamples \in Nat /\ RateSamples > 0 /\ History \in Nat /\ History > RateSamples /\ IngestStall \in Nat
  BY OpsAssumption

LEMMA CallsAreFinite ==
    ASSUME OpsTypes, NEW o, NEW n
    PROVE  /\ IsFiniteSet(CallsBefore(o, n)) /\ CallsBefore(o, n) \subseteq 1 .. Len(calls)
           /\ Cardinality(CallsBefore(o, n)) \in Nat
<1>1. DOMAIN calls = 1 .. Len(calls) /\ Len(calls) \in Nat
  BY DEF OpsTypes
<1>2. IsFiniteSet(1 .. Len(calls))
  BY <1>1, FS_Interval
<1>3. CallsBefore(o, n) \subseteq 1 .. Len(calls)
  BY <1>1 DEF CallsBefore
<1> QED
  BY <1>2, <1>3, FS_Subset, FS_CardinalityType

LEMMA CallTypes ==
    ASSUME OpsInvariant
    PROVE  \A i \in DOMAIN calls : calls[i] \in CallRecord /\ calls[i].before \in Nat /\ calls[i].before <= sampled
<1>1. calls \in Seq(CallRecord)
  BY DEF OpsInvariant, OpsTypes
<1>2. \A i \in DOMAIN calls : calls[i] \in CallRecord
  BY <1>1
<1> QED
  BY <1>2 DEF OpsInvariant, CallsAreInTime, CallRecord

LEMMA OpsStart == ASSUME OpsInit PROVE OpsInvariant
<1> USE OpsNumbers DEF OpsInit
<1>1. OpsTypes
  BY DEF OpsTypes
<1>2. \A o, n : CallsBefore(o, n) = {}
  BY DEF CallsBefore
<1>3. Cardinality({}) = 0
  BY FS_EmptySet
<1>4. CountersCount
  BY <1>2, <1>3 DEF CountersCount
<1>5. SamplesCount /\ HistoryIsFull /\ StampIsACall /\ CallsAreInTime
  BY DEF SamplesCount, HistoryIsFull, StampIsACall, CallsAreInTime
<1> QED
  BY <1>1, <1>4, <1>5 DEF OpsInvariant

LEMMA CallStep == ASSUME OpsInvariant, NEW outcome \in Outcomes, Call(outcome) PROVE OpsInvariant'
<1> DEFINE new == [outcome |-> outcome, at |-> uptime, before |-> sampled]
<1>1. /\ counts' = [counts EXCEPT ![outcome] = @ + 1]
      /\ stamps' = (IF outcome \in Accepted THEN [stamps EXCEPT !.ingest = uptime] ELSE stamps)
      /\ calls' = Append(calls, new) /\ UNCHANGED <<uptime, history, sampled>>
  BY DEF Call, Stamps
<1>2. new \in CallRecord /\ new.outcome = outcome /\ new.at = uptime /\ new.before = sampled
  BY DEF OpsInvariant, OpsTypes, CallRecord
<1> HIDE DEF new
<1>3. OpsTypes'
  <2>1. counts' \in [Outcomes -> Nat]
    BY <1>1 DEF OpsInvariant, OpsTypes
  <2>2. stamps' \in [ingest : Nat \cup {Unset}, detection : Nat \cup {Unset}]
    BY <1>1 DEF OpsInvariant, OpsTypes
  <2>3. calls' \in Seq(CallRecord)
    BY <1>1, <1>2 DEF OpsInvariant, OpsTypes
  <2> QED
    BY <1>1, <2>1, <2>2, <2>3 DEF OpsInvariant, OpsTypes
<1>4. /\ calls \in Seq(CallRecord) /\ Len(calls) \in Nat /\ DOMAIN calls = 1 .. Len(calls)
      /\ DOMAIN calls' = 1 .. Len(calls) + 1
      /\ calls'[Len(calls) + 1] = new
      /\ \A i \in DOMAIN calls : calls'[i] = calls[i]
  BY <1>1, <1>2 DEF OpsInvariant, OpsTypes
<1>5. CallsAreInTime'
  BY <1>1, <1>2, <1>4 DEF OpsInvariant, OpsTypes, CallsAreInTime
<1>6. StampIsACall'
  <2>1. CASE outcome \in Accepted
    <3>1. stamps'.ingest = uptime
      BY <1>1, <2>1 DEF OpsInvariant, OpsTypes
    <3> QED
      BY <1>2, <1>4, <2>1, <3>1 DEF StampIsACall
  <2>2. CASE outcome \notin Accepted
    BY <1>1, <1>4, <2>2 DEF OpsInvariant, StampIsACall
  <2> QED
    BY <2>1, <2>2
<1>7. ASSUME NEW o, NEW n \in Int, n <= sampled PROVE CallsBefore(o, n)' = CallsBefore(o, n)
  BY <1>2, <1>4, <1>7 DEF CallsBefore, OpsInvariant, OpsTypes
<1>8. SamplesCount' /\ HistoryIsFull'
  <2>1. \A k \in 1 .. Len(history) : sampled - Len(history) + k \in Int /\ sampled - Len(history) + k <= sampled
    BY DEF OpsInvariant, OpsTypes
  <2>2. history' = history /\ sampled' = sampled
    BY <1>1
  <2> QED
    BY <1>7, <2>1, <2>2 DEF OpsInvariant, SamplesCount, HistoryIsFull
<1>9. CountersCount'
  <2>1. SUFFICES ASSUME NEW o \in Outcomes PROVE counts'[o] = Cardinality(CallsBefore(o, sampled + 1)')
    BY <1>1 DEF CountersCount
  <2>2. counts[o] = Cardinality(CallsBefore(o, sampled + 1)) /\ sampled \in Nat
    BY DEF OpsInvariant, OpsTypes, CountersCount
  <2>3. /\ IsFiniteSet(CallsBefore(o, sampled + 1))
        /\ CallsBefore(o, sampled + 1) \subseteq 1 .. Len(calls)
    BY CallsAreFinite DEF OpsInvariant
  <2>4. CASE o = outcome
    <3>1. CallsBefore(o, sampled + 1)' = CallsBefore(o, sampled + 1) \cup {Len(calls) + 1}
      BY <1>1, <1>2, <1>4, <2>2, <2>4 DEF CallsBefore
    <3>2. Len(calls) + 1 \notin CallsBefore(o, sampled + 1)
      BY <1>4, <2>3
    <3>3. Cardinality(CallsBefore(o, sampled + 1)') = Cardinality(CallsBefore(o, sampled + 1)) + 1
      BY <2>3, <3>1, <3>2, FS_AddElement
    <3>4. counts'[o] = counts[o] + 1
      BY <1>1, <2>4 DEF OpsInvariant, OpsTypes
    <3> QED
      BY <2>2, <3>3, <3>4
  <2>5. CASE o # outcome
    <3>1. CallsBefore(o, sampled + 1)' = CallsBefore(o, sampled + 1)
      BY <1>1, <1>2, <1>4, <2>2, <2>5 DEF CallsBefore
    <3>2. counts'[o] = counts[o]
      BY <1>1, <2>5 DEF OpsInvariant, OpsTypes
    <3> QED
      BY <2>2, <3>1, <3>2
  <2> QED
    BY <2>4, <2>5
<1> QED
  BY <1>3, <1>5, <1>6, <1>8, <1>9 DEF OpsInvariant

LEMMA SampleStep == ASSUME OpsInvariant, Sample PROVE OpsInvariant'
<1> USE OpsNumbers
<1> DEFINE kept == IF Len(history) >= History THEN Tail(history) ELSE history
           new == [at |-> uptime, counts |-> [o \in Sampled |-> counts[o]]]
<1>1. /\ history' = Append(kept, new) /\ sampled' = sampled + 1
      /\ UNCHANGED <<uptime, counts, stamps, calls>>
  BY DEF Sample
<1>2. new \in SampleRecord /\ \A o \in Sampled : new.counts[o] = counts[o]
  BY DEF OpsInvariant, OpsTypes, SampleRecord, Sampled
<1>3. /\ history \in Seq(SampleRecord) /\ Len(history) \in Nat /\ sampled \in Nat
      /\ Len(history) = IF sampled < History THEN sampled ELSE History
  BY DEF OpsInvariant, OpsTypes, HistoryIsFull
<1>4. ASSUME NEW o PROVE /\ \A n \in Int : CallsBefore(o, n)' = CallsBefore(o, n)
                         /\ CallsBefore(o, sampled + 2) = CallsBefore(o, sampled + 1)
  <2>1. \A n \in Int : CallsBefore(o, n)' = CallsBefore(o, n)
    BY <1>1 DEF CallsBefore
  <2>2. \A i \in DOMAIN calls : calls[i].before \in Nat /\ calls[i].before <= sampled
    BY CallTypes
  <2>3. \A i \in DOMAIN calls : calls[i].before < sampled + 2 /\ calls[i].before < sampled + 1
    BY <1>3, <2>2
  <2> QED
    BY <2>1, <2>3 DEF CallsBefore
<1>5. /\ kept \in Seq(SampleRecord) /\ Len(kept) \in Nat
      /\ Len(kept) = IF sampled < History THEN sampled ELSE History - 1
      /\ \A k \in 1 .. Len(kept) : /\ k + (Len(history) - Len(kept)) \in 1 .. Len(history)
                                   /\ kept[k] = history[k + (Len(history) - Len(kept))]
  <2>1. CASE Len(history) >= History
    <3>1. Len(history) = History /\ ~(sampled < History) /\ history # <<>> /\ kept = Tail(history)
      BY <1>3, <2>1
    <3>2. Tail(history) \in Seq(SampleRecord) /\ Len(Tail(history)) = Len(history) - 1
          /\ \A k \in 1 .. Len(history) - 1 : Tail(history)[k] = history[k + 1]
      BY <1>3, <3>1
    <3> HIDE DEF kept
    <3>3. Len(kept) = History - 1 /\ Len(history) - Len(kept) = 1
      BY <1>3, <3>1, <3>2
    <3> QED
      BY <1>3, <3>1, <3>2, <3>3
  <2>2. CASE Len(history) < History
    <3>1. kept = history /\ sampled < History
      BY <1>3, <2>2
    <3> HIDE DEF kept
    <3>2. Len(history) - Len(kept) = 0 /\ \A k \in 1 .. Len(kept) : k + 0 = k
      BY <1>3, <3>1
    <3> QED
      BY <1>3, <3>1, <3>2
  <2>3. Len(history) >= History \/ Len(history) < History
    BY <1>3
  <2> HIDE DEF kept
  <2> QED
    BY <2>1, <2>2, <2>3
<1> HIDE DEF kept, new
<1>6. /\ history' \in Seq(SampleRecord) /\ Len(history') = Len(kept) + 1
      /\ history'[Len(kept) + 1] = new /\ \A k \in 1 .. Len(kept) : history'[k] = kept[k]
  BY <1>1, <1>2, <1>5
<1>7. OpsTypes' /\ CallsAreInTime' /\ StampIsACall'
  <2>1. OpsTypes'
    BY <1>1, <1>3, <1>6 DEF OpsInvariant, OpsTypes
  <2>2. \A i \in DOMAIN calls : calls[i].before \in Nat /\ calls[i].before <= sampled
    BY CallTypes
  <2>3. CallsAreInTime'
    BY <1>1, <1>3, <2>2 DEF CallsAreInTime
  <2>4. StampIsACall'
    BY <1>1 DEF OpsInvariant, StampIsACall
  <2> QED
    BY <2>1, <2>3, <2>4
<1>8. HistoryIsFull'
  BY <1>1, <1>3, <1>5, <1>6 DEF HistoryIsFull
<1>9. CountersCount'
  BY <1>1, <1>3, <1>4 DEF OpsInvariant, CountersCount
<1>10. SamplesCount'
  <2>1. SUFFICES ASSUME NEW k \in 1 .. Len(history'), NEW o \in Sampled
                 PROVE  history'[k].counts[o] = Cardinality(CallsBefore(o, sampled - Len(history) + k)')
    BY DEF SamplesCount
  <2>2. CASE k = Len(kept) + 1
    <3>1. history'[k].counts[o] = counts[o] /\ sampled' - Len(history') + k = sampled + 1
      BY <1>1, <1>2, <1>3, <1>5, <1>6, <2>2
    <3>2. counts[o] = Cardinality(CallsBefore(o, sampled + 1))
      BY DEF OpsInvariant, CountersCount, Sampled
    <3> QED
      BY <1>3, <1>4, <3>1, <3>2
  <2>3. CASE k \in 1 .. Len(kept)
    <3> DEFINE j == k + (Len(history) - Len(kept))
    <3>1. history'[k] = history[j] /\ j \in 1 .. Len(history)
      BY <1>5, <1>6, <2>3
    <3>2. sampled' - Len(history') + k = sampled - Len(history) + j
      BY <1>1, <1>3, <1>5, <1>6, <2>3
    <3> HIDE DEF j
    <3>3. history[j].counts[o] = Cardinality(CallsBefore(o, sampled - Len(history) + j))
      BY <3>1 DEF OpsInvariant, SamplesCount
    <3>4. sampled - Len(history) + j \in Int
      BY <1>3, <3>1
    <3> QED
      BY <1>4, <3>1, <3>2, <3>3, <3>4
  <2> QED
    BY <1>5, <1>6, <2>2, <2>3
<1> QED
  BY <1>7, <1>8, <1>9, <1>10 DEF OpsInvariant

LEMMA OpsStay == ASSUME OpsInvariant, [OpsNext]_opsVars PROVE OpsInvariant'
<1>1. CASE \E outcome \in Outcomes : Call(outcome)
  BY <1>1, CallStep
<1>2. CASE Sample
  BY <1>2, SampleStep
<1>3. CASE DetectionFinished \/ Elapse \/ UNCHANGED opsVars
  <2>1. UNCHANGED <<counts, history, sampled, calls>>
    BY <1>3 DEF DetectionFinished, Elapse, opsVars
  <2>2. \A o, n : CallsBefore(o, n)' = CallsBefore(o, n)
    BY <2>1 DEF CallsBefore
  <2>3. CountersCount' /\ HistoryIsFull' /\ SamplesCount' /\ CallsAreInTime'
    BY <2>1, <2>2 DEF OpsInvariant, CountersCount, HistoryIsFull, SamplesCount, CallsAreInTime
  <2>4. OpsTypes' /\ stamps'.ingest = stamps.ingest
    BY <1>3, <2>1 DEF OpsInvariant, OpsTypes, DetectionFinished, Elapse, opsVars
  <2>5. StampIsACall'
    BY <2>1, <2>4 DEF OpsInvariant, StampIsACall
  <2> QED
    BY <2>3, <2>4, <2>5 DEF OpsInvariant
<1> QED
  BY <1>1, <1>2, <1>3 DEF OpsNext

\* The window of the rates: it goes back to the sample RATE_SAMPLES before the newest,
\* or, while the history is that short, to the first sample that was ever taken.
LEMMA RatesGoBack ==
    ASSUME OpsInvariant, history # <<>>
    PROVE  /\ Oldest \in 1 .. Len(history) /\ Len(history) \in 1 .. Len(history)
           /\ sampled - Len(history) + Oldest = IF sampled > RateSamples THEN sampled - RateSamples ELSE 1
           /\ sampled >= 1
<1> USE OpsNumbers
<1>1. /\ Len(history) \in Nat /\ Len(history) >= 1 /\ sampled \in Nat
      /\ Len(history) = IF sampled < History THEN sampled ELSE History
  BY DEF OpsInvariant, OpsTypes, HistoryIsFull
<1>2. CASE Len(history) - (RateSamples + 1) < 0
  <2>1. Oldest = 1
    BY <1>2 DEF Oldest
  <2> QED
    BY <1>1, <1>2, <2>1
<1>3. CASE ~(Len(history) - (RateSamples + 1) < 0)
  <2>1. Oldest = Len(history) - (RateSamples + 1) + 1
    BY <1>3 DEF Oldest
  <2> QED
    BY <1>1, <1>3, <2>1
<1> QED
  BY <1>2, <1>3

LEMMA RatesAreTheCalls == ASSUME OpsInvariant PROVE RatesCountTheirCalls
<1> USE OpsNumbers
<1> DEFINE from == IF sampled > RateSamples THEN sampled - RateSamples ELSE 1
<1>1. SUFFICES ASSUME history # <<>>, NEW o \in Sampled
               PROVE  Rate(o) = Cardinality({i \in DOMAIN calls :
                                      /\ calls[i].outcome = o /\ calls[i].before < sampled
                                      /\ calls[i].before > 0 /\ calls[i].before >= sampled - RateSamples})
  BY DEF RatesCountTheirCalls
<1>2. /\ Oldest \in 1 .. Len(history) /\ Len(history) \in 1 .. Len(history)
      /\ sampled - Len(history) + Oldest = from /\ sampled >= 1
      /\ sampled \in Nat /\ Len(history) \in Nat
  BY <1>1, RatesGoBack DEF OpsInvariant, OpsTypes
<1>3. sampled - Len(history) + Len(history) = sampled /\ from \in Nat /\ from >= 1 /\ from <= sampled
  BY <1>2
<1>4. Rate(o) = Cardinality(CallsBefore(o, sampled)) - Cardinality(CallsBefore(o, from))
  <2> HIDE DEF from
  <2>1. history[Len(history)].counts[o] = Cardinality(CallsBefore(o, sampled - Len(history) + Len(history)))
    BY <1>2 DEF OpsInvariant, SamplesCount
  <2>2. history[Oldest].counts[o] = Cardinality(CallsBefore(o, sampled - Len(history) + Oldest))
    BY <1>2 DEF OpsInvariant, SamplesCount
  <2> QED
    BY <1>2, <1>3, <2>1, <2>2 DEF Rate
<1>5. {i \in DOMAIN calls : /\ calls[i].outcome = o /\ calls[i].before < sampled
                            /\ calls[i].before > 0 /\ calls[i].before >= sampled - RateSamples}
        = CallsBefore(o, sampled) \ CallsBefore(o, from)
  BY <1>2, CallTypes DEF CallsBefore
<1>6. CallsBefore(o, sampled) \cap CallsBefore(o, from) = CallsBefore(o, from)
  BY <1>2, <1>3, CallTypes DEF CallsBefore
<1> HIDE DEF from
<1>7. IsFiniteSet(CallsBefore(o, sampled))
  BY CallsAreFinite DEF OpsInvariant
<1>8. Cardinality(CallsBefore(o, sampled) \ CallsBefore(o, from))
        = Cardinality(CallsBefore(o, sampled)) - Cardinality(CallsBefore(o, sampled) \cap CallsBefore(o, from))
  BY <1>7, FS_Difference
<1> QED
  BY <1>4, <1>5, <1>6, <1>8

LEMMA HealthIsHeard == ASSUME OpsInvariant PROVE HealthyMeansHeard
<1>1. SUFFICES ASSUME Problems(1) = {}
               PROVE  \E i \in DOMAIN calls : calls[i].outcome \in Accepted /\ calls[i].at >= uptime - IngestStall
  BY DEF HealthyMeansHeard
<1>2. stamps.ingest # Unset
  BY <1>1 DEF Problems
<1>3. ~(uptime - stamps.ingest > IngestStall)
  BY <1>1, <1>2 DEF Problems, Stale
<1>4. stamps.ingest \in Nat /\ uptime \in Nat
  BY <1>2 DEF OpsInvariant, OpsTypes
<1>5. stamps.ingest >= uptime - IngestStall
  BY <1>3, <1>4, OpsNumbers
<1> QED
  BY <1>2, <1>5 DEF OpsInvariant, StampIsACall

\* What the page shows of the server's own state is so: its rates count the calls of
\* their window, no more and no less, for every length of the history and however the
\* sampling was held up, and a fleet it calls healthy was heard within the stall time.
THEOREM ThePageIsTrue == OpsSpec => []PageIsTrue
<1>1. OpsInit => OpsInvariant
  BY OpsStart
<1>2. OpsInvariant /\ [OpsNext]_opsVars => OpsInvariant'
  BY OpsStay
<1>3. OpsInvariant => PageIsTrue
  BY RatesAreTheCalls, HealthIsHeard DEF PageIsTrue
<1> QED
  BY <1>1, <1>2, <1>3, PTL DEF OpsSpec

-----------------------------------------------------------------------------
(* The streaming filters: for any filter, decimation and transform, and     *)
(* blocks of any length.                                                    *)

StreamSpec == StreamInit /\ [][StreamNext]_streamVars

Labelled == Nat \X Nat

\* The samples of a tuning after one place in it and up to another.
SamplesOf(t, from, to) == [i \in 1 .. to - from |-> <<t, from + i>>]

LEMMA SamplesAre ==
    ASSUME NEW t \in Nat, NEW from \in Nat, NEW to \in Nat, from <= to
    PROVE  /\ SamplesOf(t, from, to) \in Seq(Labelled) /\ Len(SamplesOf(t, from, to)) = to - from
           /\ \A i \in 1 .. to - from : SamplesOf(t, from, to)[i] = <<t, from + i>>
<1>1. to - from \in Nat
  OBVIOUS
<1>2. SamplesOf(t, from, to) \in [1 .. to - from -> Labelled]
  BY <1>1 DEF SamplesOf, Labelled
<1>3. SamplesOf(t, from, to) \in Seq(Labelled) /\ Len(SamplesOf(t, from, to)) = to - from
  BY <1>1, <1>2, SeqDef
<1> QED
  BY <1>3 DEF SamplesOf

Joined(t, a, b, c) == SamplesOf(t, a, b) \o SamplesOf(t, b, c) = SamplesOf(t, a, c)

LEMMA SamplesJoin ==
    ASSUME NEW t \in Nat, NEW a \in Nat, NEW b \in Nat, NEW c \in Nat, a <= b, b <= c
    PROVE  Joined(t, a, b, c)
<1> DEFINE first == SamplesOf(t, a, b)
           second == SamplesOf(t, b, c)
           both == SamplesOf(t, a, c)
<1>1. /\ first \in Seq(Labelled) /\ Len(first) = b - a
      /\ \A i \in 1 .. b - a : first[i] = <<t, a + i>>
  BY SamplesAre
<1>2. /\ second \in Seq(Labelled) /\ Len(second) = c - b
      /\ \A i \in 1 .. c - b : second[i] = <<t, b + i>>
  BY SamplesAre
<1>3. /\ both \in Seq(Labelled) /\ Len(both) = c - a
      /\ \A i \in 1 .. c - a : both[i] = <<t, a + i>>
  <2>1. a <= c
    OBVIOUS
  <2> QED
    BY <2>1, SamplesAre
<1> HIDE DEF first, second, both
<1>4. /\ first \o second \in Seq(Labelled) /\ Len(first \o second) = c - a
      /\ \A i \in 1 .. c - a : (first \o second)[i] = IF i <= b - a THEN first[i] ELSE second[i - (b - a)]
  <2>1. (b - a) + (c - b) = c - a
    OBVIOUS
  <2>2. /\ first \o second \in Seq(Labelled) /\ Len(first \o second) = Len(first) + Len(second)
        /\ \A i \in 1 .. Len(first) + Len(second) :
              (first \o second)[i] = IF i <= Len(first) THEN first[i] ELSE second[i - Len(first)]
    BY <1>1, <1>2, ConcatProperties
  <2> QED
    BY <1>1, <1>2, <2>1, <2>2
<1>5. \A i \in 1 .. c - a : (first \o second)[i] = both[i]
  <2>1. SUFFICES ASSUME NEW i \in 1 .. c - a PROVE (first \o second)[i] = <<t, a + i>>
    BY <1>3
  <2>2. CASE i <= b - a
    BY <1>1, <1>4, <2>2
  <2>3. CASE i > b - a
    <3>1. i - (b - a) \in 1 .. c - b /\ b + (i - (b - a)) = a + i /\ ~(i <= b - a)
      BY <2>3
    <3>2. (first \o second)[i] = second[i - (b - a)]
      BY <1>4, <3>1
    <3>3. second[i - (b - a)] = <<t, b + (i - (b - a))>>
      BY <1>2, <3>1
    <3> QED
      BY <3>1, <3>2, <3>3
  <2>4. i <= b - a \/ i > b - a
    OBVIOUS
  <2> QED
    BY <2>2, <2>3, <2>4
<1>6. first \o second = both
  BY <1>3, <1>4, <1>5, SeqEqual
<1> QED
  BY <1>6 DEF first, second, both, Joined

\* The same of a stretch of a tuning, counted from its start.
Stretch(t, a, i, width) ==
    /\ SamplesOf(t, a + i, a + i + width) \in Seq(Labelled)
    /\ Len(SamplesOf(t, a + i, a + i + width)) = width
    /\ \A k \in 1 .. width : SamplesOf(t, a + i, a + i + width)[k] = <<t, a + i + k>>

LEMMA StretchIs ==
    ASSUME NEW t \in Nat, NEW a \in Nat, NEW i \in Nat, NEW width \in Nat
    PROVE  Stretch(t, a, i, width)
<1> DEFINE part == [k \in 1 .. width |-> <<t, a + i + k>>]
<1>1. (a + i + width) - (a + i) = width
  OBVIOUS
<1>2. SamplesOf(t, a + i, a + i + width) = part
  BY <1>1, Zenon DEF SamplesOf
<1>3. part \in [1 .. width -> Labelled]
  BY DEF Labelled
<1>4. part \in Seq(Labelled) /\ Len(part) = width
  <2> HIDE DEF part
  <2> QED
    BY <1>3, SeqDef
<1> QED
  BY <1>2, <1>4 DEF Stretch

LEMMA SamplesCut ==
    ASSUME NEW t \in Nat, NEW a \in Nat, NEW b \in Nat, a <= b,
           NEW i \in Nat, NEW width \in Nat, i + width <= b - a
    PROVE  Segment(SamplesOf(t, a, b), i, width) = SamplesOf(t, a + i, a + i + width)
<1> DEFINE j == i + width
           whole == SamplesOf(t, a, b)
           part == SamplesOf(t, a + i, a + j)
<1>0. j \in Nat /\ i <= j /\ j <= b - a /\ a + j = a + i + width
  OBVIOUS
<1>1. \A k \in 1 .. b - a : whole[k] = <<t, a + k>>
  BY SamplesAre
<1>2. /\ part \in Seq(Labelled) /\ Len(part) = j - i
      /\ \A k \in 1 .. j - i : part[k] = <<t, a + i + k>>
  <2>1. a + i + width = a + j /\ j - i = width
    BY <1>0
  <2>2. part = SamplesOf(t, a + i, a + i + width)
    BY <2>1, Zenon
  <2>3. Stretch(t, a, i, width)
    BY StretchIs
  <2> HIDE DEF part, j
  <2> QED
    BY <2>1, <2>2, <2>3, Zenon DEF Stretch
<1> HIDE DEF whole, part, j
<1>3. \A k \in i + 1 .. j : whole[k] \in Labelled
  <2>1. SUFFICES ASSUME NEW k \in i + 1 .. j PROVE whole[k] \in Labelled
    OBVIOUS
  <2>2. k \in 1 .. b - a /\ a + k \in Nat
    BY <1>0
  <2>3. whole[k] = <<t, a + k>>
    BY <1>1, <2>2
  <2> QED
    BY <2>2, <2>3 DEF Labelled
<1>4. /\ SubSeq(whole, i + 1, j) \in Seq(Labelled)
      /\ Len(SubSeq(whole, i + 1, j)) = j - i
      /\ \A k \in 1 .. j - i : SubSeq(whole, i + 1, j)[k] = whole[i + k]
  BY <1>0, <1>3, SubSeqProperties
<1>5. \A k \in 1 .. j - i : SubSeq(whole, i + 1, j)[k] = part[k]
  <2>1. SUFFICES ASSUME NEW k \in 1 .. j - i PROVE SubSeq(whole, i + 1, j)[k] = part[k]
    OBVIOUS
  <2>2. i + k \in 1 .. b - a /\ a + (i + k) = a + i + k
    BY <1>0
  <2>3. whole[i + k] = <<t, a + (i + k)>>
    BY <1>1, <2>2
  <2>4. part[k] = <<t, a + i + k>> /\ SubSeq(whole, i + 1, j)[k] = whole[i + k]
    BY <1>2, <1>4
  <2> QED
    BY <2>2, <2>3, <2>4
<1>6. SubSeq(whole, i + 1, j) = part
  BY <1>0, <1>2, <1>4, <1>5, SeqEqual
<1> QED
  BY <1>0, <1>6 DEF whole, part, j, Segment

-----------------------------------------------------------------------------
(* How many segments fit.                                                   *)

\* n segments of a width fit from start on, one every step, and no more do.
Fit(n, length, start, width, step) ==
    /\ n \in Nat /\ start + n * step + width > length
    /\ n > 0 => start + (n - 1) * step + width <= length

LEMMA FitsFit ==
    ASSUME NEW length \in Nat, NEW start \in Nat, NEW width \in Nat \ {0}, NEW step \in Nat \ {0}
    PROVE  Fit(Fits(length, start, width, step), length, start, width, step)
<1>1. CASE length < start + width
  BY <1>1 DEF Fit, Fits
<1>2. CASE ~(length < start + width)
  <2> DEFINE left == length - start - width
             times == left \div step
  <2>1. left \in Nat /\ Fits(length, start, width, step) = times + 1
    BY <1>2 DEF Fits
  <2>2. times \in Nat /\ times * step <= left /\ left < (times + 1) * step
    <3> HIDE DEF left
    <3> QED
      BY <2>1
  <2> HIDE DEF times
  <2> QED
    BY <2>1, <2>2 DEF Fit
<1> QED
  BY <1>1, <1>2

LEMMA Products ==
    ASSUME NEW a \in Int, NEW b \in Int, NEW c \in Nat, a <= b
    PROVE  a * c \in Int /\ b * c \in Int /\ a * c <= b * c
<1>1. (b - a) \in Nat
  OBVIOUS
<1>2. (b - a) * c >= 0
  BY <1>1
<1>3. (b - a) * c = b * c - a * c
  OBVIOUS
<1> QED
  BY <1>2, <1>3

LEMMA OnlyOneFits ==
    ASSUME NEW length \in Nat, NEW start \in Nat, NEW width \in Nat \ {0}, NEW step \in Nat \ {0},
           NEW n, NEW m, Fit(n, length, start, width, step), Fit(m, length, start, width, step)
    PROVE  n = m
<1>1. ASSUME NEW x \in Nat, NEW y \in Nat, x < y,
             Fit(x, length, start, width, step), Fit(y, length, start, width, step)
      PROVE  FALSE
  <2>1. start + x * step + width > length /\ start + (y - 1) * step + width <= length
    BY <1>1 DEF Fit
  <2>2. x <= y - 1 /\ y - 1 \in Int
    BY <1>1
  <2>3. x * step <= (y - 1) * step /\ x * step \in Int /\ (y - 1) * step \in Int
    BY <2>2, Products
  <2> QED
    BY <2>1, <2>3
<1>2. n \in Nat /\ m \in Nat
  BY DEF Fit
<1> QED
  BY <1>1, <1>2

-----------------------------------------------------------------------------
(* The segments of a stretch of samples, and of the two parts it is cut in. *)

\* The sample before the k-th segment, and the segments.
Before(at, k, step) == at + (k - 1) * step

Cut(t, at, n, width, step) ==
    [k \in 1 .. n |-> SamplesOf(t, Before(at, k, step), Before(at, k, step) + width)]

IsCut(cut, t, at, n, width, step) ==
    /\ cut \in Seq(Seq(Labelled)) /\ Len(cut) = n
    /\ \A k \in 1 .. n : cut[k] = SamplesOf(t, Before(at, k, step), Before(at, k, step) + width)

LEMMA CutIs ==
    ASSUME NEW t \in Nat, NEW at \in Nat, NEW n \in Nat, NEW width \in Nat, NEW step \in Nat
    PROVE  IsCut(Cut(t, at, n, width, step), t, at, n, width, step)
<1>1. ASSUME NEW k \in 1 .. n
      PROVE  Before(at, k, step) \in Nat /\ SamplesOf(t, Before(at, k, step), Before(at, k, step) + width) \in Seq(Labelled)
  <2>1. k - 1 \in Nat
    OBVIOUS
  <2>2. (k - 1) * step \in Nat
    BY <2>1
  <2>3. Before(at, k, step) \in Nat
    BY <2>2 DEF Before
  <2>4. Before(at, k, step) + width \in Nat /\ Before(at, k, step) <= Before(at, k, step) + width
    BY <2>3
  <2> QED
    BY <2>3, <2>4, SamplesAre
<1>2. Cut(t, at, n, width, step) \in [1 .. n -> Seq(Labelled)]
  BY <1>1 DEF Cut
<1>3. Cut(t, at, n, width, step) \in Seq(Seq(Labelled)) /\ Len(Cut(t, at, n, width, step)) = n
  BY <1>2, SeqDef
<1>4. \A k \in 1 .. n : Cut(t, at, n, width, step)[k]
                          = SamplesOf(t, Before(at, k, step), Before(at, k, step) + width)
  BY DEF Cut
<1> QED
  BY <1>3, <1>4 DEF IsCut

\* The n segments that start at a place in the samples after a.
AreCut(t, a, b, start, width, step, n) ==
    n \in Nat /\ Segments(SamplesOf(t, a, b), start, width, step) = Cut(t, a + start, n, width, step)

LEMMA SegmentsAre ==
    ASSUME NEW t \in Nat, NEW a \in Nat, NEW b \in Nat, a <= b,
           NEW start \in Nat, NEW width \in Nat \ {0}, NEW step \in Nat \ {0},
           NEW n, n = Fits(b - a, start, width, step)
    PROVE  AreCut(t, a, b, start, width, step, n)
<1> DEFINE stream == SamplesOf(t, a, b)
<1>1. b - a \in Nat /\ Len(stream) = b - a
  <2>1. Len(stream) = b - a
    BY SamplesAre, Zenon
  <2> QED
    BY <2>1
<1>2. Fit(n, b - a, start, width, step)
  BY <1>1, FitsFit
<1>3. n \in Nat
  BY <1>2 DEF Fit
<1>4. ASSUME NEW k \in 1 .. n
      PROVE  Segment(stream, start + (k - 1) * step, width)
               = SamplesOf(t, Before(a + start, k, step), Before(a + start, k, step) + width)
  <2> DEFINE i == start + (k - 1) * step
  <2>1. start + (n - 1) * step + width <= b - a
    BY <1>2, <1>3 DEF Fit
  <2>2. k - 1 \in Nat /\ n - 1 \in Int /\ k - 1 <= n - 1 /\ 0 <= k - 1
    BY <1>3
  <2>3. (k - 1) * step <= (n - 1) * step /\ (k - 1) * step \in Int /\ (n - 1) * step \in Int
    BY <2>2, Products
  <2>4. (k - 1) * step \in Nat
    BY <2>2
  <2>5. i \in Nat /\ width \in Nat /\ i + width <= b - a
    BY <2>1, <2>3, <2>4
  <2>6. Before(a + start, k, step) = a + i
    BY <2>4 DEF Before
  <2>7. Segment(stream, i, width) = SamplesOf(t, a + i, a + i + width)
    <3> HIDE DEF i
    <3> QED
      BY <2>5, SamplesCut
  <2> QED
    BY <2>6, <2>7
<1>5. Segments(stream, start, width, step)
        = [k \in 1 .. n |-> Segment(stream, start + (k - 1) * step, width)]
  BY <1>1 DEF Segments
<1> HIDE DEF stream
<1>6. Segments(stream, start, width, step) = Cut(t, a + start, n, width, step)
  BY <1>4, <1>5 DEF Cut
<1> QED
  BY <1>3, <1>6 DEF stream, AreCut

\* The first n segments, and the m that follow them, are the first n + m.
Adjoin(t, n, m, width, step) ==
    Cut(t, 0, n, width, step) \o Cut(t, n * step, m, width, step) = Cut(t, 0, n + m, width, step)

LEMMA CutsJoin ==
    ASSUME NEW t \in Nat, NEW n \in Nat, NEW m \in Nat, NEW width \in Nat, NEW step \in Nat
    PROVE  Adjoin(t, n, m, width, step)
<1>0. SUFFICES ASSUME NEW at, at = n * step, NEW both, both = n + m
               PROVE  Cut(t, 0, n, width, step) \o Cut(t, at, m, width, step) = Cut(t, 0, both, width, step)
  BY DEF Adjoin
<1> DEFINE first == Cut(t, 0, n, width, step)
           second == Cut(t, at, m, width, step)
           all == Cut(t, 0, both, width, step)
<1>1. IsCut(first, t, 0, n, width, step)
  BY CutIs
<1>2. IsCut(second, t, at, m, width, step)
  <2>1. at \in Nat
    BY <1>0
  <2> QED
    BY <2>1, CutIs
<1>3. IsCut(all, t, 0, both, width, step)
  <2>1. both \in Nat
    BY <1>0
  <2> QED
    BY <2>1, CutIs
<1> HIDE DEF first, second, all
<1>4. /\ first \o second \in Seq(Seq(Labelled)) /\ Len(first \o second) = both
      /\ \A k \in 1 .. both : (first \o second)[k] = IF k <= n THEN first[k] ELSE second[k - n]
  <2>1. /\ first \o second \in Seq(Seq(Labelled)) /\ Len(first \o second) = Len(first) + Len(second)
        /\ \A k \in 1 .. Len(first) + Len(second) :
              (first \o second)[k] = IF k <= Len(first) THEN first[k] ELSE second[k - Len(first)]
    BY <1>1, <1>2, ConcatProperties DEF IsCut
  <2> QED
    BY <1>0, <1>1, <1>2, <2>1 DEF IsCut
<1>5. \A k \in 1 .. both : (first \o second)[k] = all[k]
  <2>1. SUFFICES ASSUME NEW k \in 1 .. both PROVE (first \o second)[k] = all[k]
    BY <1>0
  <2>2. CASE k <= n
    <3>1. k \in 1 .. n
      BY <1>0, <2>2
    <3> QED
      BY <1>1, <1>3, <1>4, <3>1, <2>2 DEF IsCut
  <2>3. CASE k > n
    <3>1. k - n \in 1 .. m /\ ~(k <= n)
      BY <1>0, <2>3
    <3>2. (first \o second)[k] = second[k - n]
      BY <1>0, <1>4, <3>1
    <3>3. Before(at, k - n, step) = Before(0, k, step)
      BY <1>0 DEF Before
    <3>4. second[k - n] = SamplesOf(t, Before(0, k, step), Before(0, k, step) + width)
      BY <1>2, <3>1, <3>3 DEF IsCut
    <3>5. all[k] = SamplesOf(t, Before(0, k, step), Before(0, k, step) + width)
      BY <1>3 DEF IsCut
    <3> QED
      BY <3>2, <3>3, <3>4, <3>5
  <2>4. k <= n \/ k > n
    BY <1>0
  <2> QED
    BY <2>2, <2>3, <2>4, Zenon
<1>6. first \o second = all
  BY <1>0, <1>3, <1>4, <1>5, SeqEqual DEF IsCut
<1> QED
  BY <1>6 DEF first, second, all

\* From the n segments put out for the samples up to s, and from the samples after b
\* that are kept with the new ones, come those that are put out for all of them at once.
Agree(t, s, e, width, step, n, b, m) ==
    /\ n \in Nat /\ m \in Nat /\ Fits(e, 0, width, step) = n + m
    /\ Segments(SamplesOf(t, 0, s), 0, width, step)
         \o Segments(SamplesOf(t, b, e), n * step - b, width, step)
         = Segments(SamplesOf(t, 0, e), 0, width, step)
    /\ Len(Segments(SamplesOf(t, b, e), n * step - b, width, step)) = m

LEMMA CutsAgree ==
    ASSUME NEW t \in Nat, NEW s \in Nat, NEW e \in Nat, s <= e,
           NEW width \in Nat \ {0}, NEW step \in Nat \ {0},
           NEW n, n = Fits(s, 0, width, step),
           NEW p, p = n * step, NEW b \in Nat, b <= p, b <= s,
           NEW m, m = Fits(e - b, p - b, width, step)
    PROVE  Agree(t, s, e, width, step, n, b, m)
<1>1. Fit(n, s, 0, width, step)
  BY FitsFit
<1>2. n \in Nat
  BY <1>1 DEF Fit
<1>3. p \in Nat /\ p - b \in Nat /\ e - b \in Nat /\ b <= e
  BY <1>2
<1>4. Fit(m, e - b, p - b, width, step)
  BY <1>3, FitsFit
<1>5. m \in Nat
  BY <1>4 DEF Fit
<1>6. Fits(e, 0, width, step) = n + m
  <2>1. SUFFICES ASSUME NEW both, both = n + m PROVE Fits(e, 0, width, step) = both
    OBVIOUS
  <2>2. Fit(both, e, 0, width, step)
    <3>1. both * step = p + m * step /\ m * step \in Int /\ both \in Nat
      <4>1. (n + m) * step = n * step + m * step /\ m * step \in Int /\ n + m \in Nat
        BY <1>2, <1>5
      <4> QED
        BY <2>1, <4>1
    <3>2. 0 + both * step + width > e
      BY <1>3, <1>4, <3>1 DEF Fit
    <3>3. ASSUME both > 0 PROVE 0 + (both - 1) * step + width <= e
      <4>1. CASE m > 0
        <5>1. (p - b) + (m - 1) * step + width <= e - b
          BY <1>4, <4>1 DEF Fit
        <5>2. (both - 1) * step = p + (m - 1) * step /\ (m - 1) * step \in Int
          BY <1>2, <1>5, <2>1
        <5> QED
          BY <1>3, <5>1, <5>2
      <4>2. CASE m = 0
        <5>1. n > 0 /\ both - 1 = n - 1 /\ (n - 1) * step \in Int
          BY <1>2, <2>1, <3>3, <4>2
        <5>2. 0 + (n - 1) * step + width <= s
          BY <1>1, <5>1 DEF Fit
        <5> QED
          BY <5>1, <5>2
      <4> QED
        BY <1>5, <4>1, <4>2
    <3> QED
      BY <3>1, <3>2, <3>3 DEF Fit
  <2>3. Fit(Fits(e, 0, width, step), e, 0, width, step)
    BY FitsFit
  <2> QED
    BY <2>2, <2>3, OnlyOneFits
<1>7. Segments(SamplesOf(t, 0, s), 0, width, step) = Cut(t, 0, n, width, step)
  <2>1. n = Fits(s - 0, 0, width, step) /\ 0 + 0 = 0
    OBVIOUS
  <2>2. AreCut(t, 0, s, 0, width, step, n)
    BY <2>1, SegmentsAre
  <2> QED
    BY <2>1, <2>2 DEF AreCut
<1>8. Segments(SamplesOf(t, b, e), p - b, width, step) = Cut(t, p, m, width, step)
  <2> DEFINE start == p - b
  <2>1. start \in Nat /\ b + start = p /\ m = Fits(e - b, start, width, step)
    BY <1>3
  <2> HIDE DEF start
  <2>2. AreCut(t, b, e, start, width, step, m)
    BY <1>3, <2>1, SegmentsAre
  <2> QED
    BY <2>1, <2>2 DEF start, AreCut
<1>9. Segments(SamplesOf(t, 0, e), 0, width, step) = Cut(t, 0, n + m, width, step)
  <2>1. SUFFICES ASSUME NEW both, both = n + m
                 PROVE  Segments(SamplesOf(t, 0, e), 0, width, step) = Cut(t, 0, both, width, step)
    OBVIOUS
  <2>2. both = Fits(e - 0, 0, width, step) /\ 0 + 0 = 0
    BY <1>6, <2>1
  <2>3. AreCut(t, 0, e, 0, width, step, both)
    BY <2>2, SegmentsAre
  <2> QED
    BY <2>2, <2>3 DEF AreCut
<1>10. Len(Cut(t, p, m, width, step)) = m
  <2>1. width \in Nat /\ step \in Nat
    OBVIOUS
  <2> QED
    <3>1. IsCut(Cut(t, p, m, width, step), t, p, m, width, step)
      BY <1>3, <1>5, <2>1, CutIs
    <3> QED
      BY <3>1 DEF IsCut
<1>11. Cut(t, 0, n, width, step) \o Cut(t, p, m, width, step) = Cut(t, 0, n + m, width, step)
  <2>1. width \in Nat /\ step \in Nat
    OBVIOUS
  <2> QED
    <3>1. Adjoin(t, n, m, width, step)
      BY <1>2, <1>5, <2>1, CutsJoin
    <3> QED
      BY <3>1 DEF Adjoin
<1> QED
  BY <1>2, <1>5, <1>6, <1>7, <1>8, <1>9, <1>10, <1>11, Zenon DEF Agree

-----------------------------------------------------------------------------
(* What each filter holds after the first s samples of a tuning.            *)

Designs == [width : Nat \ {0}, factor : Nat \ {0}, hop : Nat \ {0}]

StreamTypes ==
    /\ design \in Designs
    /\ tuning \in [number : Nat, samples : Nat]
    /\ tuning.number = 0 => tuning.samples = 0

Earlier(p, s) == IF p < s THEN p ELSE s

\* A decimator keeps the samples from the next segment on, or how far it is beyond.
DecimatorAt(f, t, s) ==
    LET p == Fits(s, 0, f.width, f.factor) * f.factor
    IN  [history |-> SamplesOf(t, Earlier(p, s), s), phase |-> p - Earlier(p, s),
         out |-> Segments(SamplesOf(t, 0, s), 0, f.width, f.factor)]

ReferenceAt(t, s) ==
    [previous |-> IF s = 0 THEN <<>> ELSE SamplesOf(t, s - 1, s), out |-> Segments(SamplesOf(t, 0, s), 0, 2, 1)]

EstimateAt(f, t, s) ==
    [carry |-> SamplesOf(t, Fits(s, 0, 2 * f.hop, f.hop) * f.hop, s),
     segments |-> Segments(SamplesOf(t, 0, s), 0, 2 * f.hop, f.hop)]

StreamInvariant ==
    /\ StreamTypes
    /\ decimator = DecimatorAt(design, tuning.number, tuning.samples)
    /\ reference = ReferenceAt(tuning.number, tuning.samples)
    /\ estimator = EstimateAt(design, tuning.number, tuning.samples)

\* The rest of a stretch of samples is a stretch.
Rest(t, a, b, i) == SubSeq(SamplesOf(t, a, b), i + 1, b - a) = SamplesOf(t, a + i, b)

LEMMA RestOfSamples ==
    ASSUME NEW t \in Nat, NEW a \in Nat, NEW b \in Nat, NEW i \in Nat, a + i <= b
    PROVE  Rest(t, a, b, i)
<1>1. SUFFICES ASSUME NEW width, width = b - a - i
               PROVE  SubSeq(SamplesOf(t, a, b), i + 1, b - a) = SamplesOf(t, a + i, b)
  BY DEF Rest
<1>2. width \in Nat /\ i + width <= b - a /\ i + width = b - a /\ a + i + width = b /\ a <= b
  BY <1>1
<1>3. Segment(SamplesOf(t, a, b), i, width) = SamplesOf(t, a + i, a + i + width)
  BY <1>2, SamplesCut
<1> QED
  BY <1>2, <1>3 DEF Segment

LEMMA DecimatesOn ==
    ASSUME StreamTypes, NEW t \in Nat, NEW s \in Nat, NEW e \in Nat, s <= e
    PROVE  Decimate(DecimatorAt(design, t, s), SamplesOf(t, s, e)) = DecimatorAt(design, t, e)
<1>1. SUFFICES ASSUME NEW width \in Nat \ {0}, NEW step \in Nat \ {0}, width = design.width, step = design.factor
               PROVE  Decimate(DecimatorAt(design, t, s), SamplesOf(t, s, e)) = DecimatorAt(design, t, e)
  BY DEF StreamTypes, Designs
<1> DEFINE n == Fits(s, 0, width, step)
           p == n * step
           b == Earlier(p, s)
           d == DecimatorAt(design, t, s)
           stream == SamplesOf(t, b, e)
           taken == Segments(stream, p - b, width, step)
           m == Fits(e - b, p - b, width, step)
           position == (p - b) + m * step
           start == IF position < e - b THEN position ELSE e - b
           q == Fits(e, 0, width, step) * step
<1>2. /\ d.history = SamplesOf(t, b, s) /\ d.phase = p - b
      /\ d.out = Segments(SamplesOf(t, 0, s), 0, width, step)
  BY <1>1 DEF DecimatorAt
<1>3. n \in Nat
  BY FitsFit DEF Fit
<1>4. p \in Nat /\ b \in Nat /\ b <= p /\ b <= s /\ b <= e
  <2>1. p \in Nat
    BY <1>3
  <2> HIDE DEF p
  <2> QED
    BY <2>1 DEF Earlier
<1>5. d.history \o SamplesOf(t, s, e) = stream
  <2> HIDE DEF p, b, d
  <2> QED
    <3>1. Joined(t, b, s, e)
      BY <1>4, SamplesJoin
    <3> QED
      BY <1>2, <3>1 DEF Joined
<1>6. Len(stream) = e - b
  <2> HIDE DEF p, b, d
  <2> QED
    BY <1>4, SamplesAre
<1>7. /\ m \in Nat /\ Fits(e, 0, width, step) = n + m
      /\ d.out \o taken = Segments(SamplesOf(t, 0, e), 0, width, step) /\ Len(taken) = m
  <2>1. n = Fits(s, 0, width, step) /\ p = n * step /\ m = Fits(e - b, p - b, width, step)
    OBVIOUS
  <2> HIDE DEF n, p, b, d, m
  <2> QED
    <3>1. Agree(t, s, e, width, step, n, b, m)
      BY <1>4, <2>1, CutsAgree
    <3> HIDE DEF stream
    <3> QED
      BY <1>2, <2>1, <3>1 DEF Agree, stream, taken
<1>8. q = p + m * step /\ m * step \in Nat
  <2>1. q = (n + m) * step
    BY <1>7
  <2> HIDE DEF n, m, q
  <2> QED
    BY <1>3, <1>7, <2>1
<1>9. start \in Nat /\ b + start = Earlier(q, e) /\ position - start = q - Earlier(q, e) /\ b + start <= e
  <2>1. position = (p - b) + m * step
    OBVIOUS
  <2> HIDE DEF n, p, b, m, q, position
  <2> QED
    BY <1>4, <1>8, <2>1 DEF Earlier
<1>10. SubSeq(stream, start + 1, e - b) = SamplesOf(t, b + start, e)
  <2> HIDE DEF n, p, b, m, q, position, start
  <2> QED
    <3>1. Rest(t, b, e, start)
      BY <1>4, <1>9, RestOfSamples
    <3> QED
      BY <3>1 DEF Rest
<1>11. Decimate(d, SamplesOf(t, s, e))
         = [history |-> SubSeq(stream, start + 1, e - b), phase |-> position - start, out |-> d.out \o taken]
  <2>1. position = d.phase + Len(taken) * step /\ taken = Segments(stream, d.phase, width, step)
    BY <1>2, <1>7
  <2>2. start = IF position < Len(stream) THEN position ELSE Len(stream)
    BY <1>6
  <2> HIDE DEF n, p, b, d, stream, taken, m, position, start, q
  <2> QED
    BY <1>1, <1>5, <1>6, <2>1, <2>2 DEF Decimate
<1>12. DecimatorAt(design, t, e) = [history |-> SamplesOf(t, Earlier(q, e), e), phase |-> q - Earlier(q, e),
                            out |-> Segments(SamplesOf(t, 0, e), 0, width, step)]
  BY <1>1 DEF DecimatorAt
<1> HIDE DEF n, p, b, stream, taken, m, position, start, q
<1> QED
  BY <1>7, <1>9, <1>10, <1>11, <1>12

LEMMA DiscriminatesOn ==
    ASSUME NEW t \in Nat, NEW s \in Nat, NEW e \in Nat, s <= e
    PROVE  Discriminate(ReferenceAt(t, s), SamplesOf(t, s, e)) = ReferenceAt(t, e)
<1> DEFINE block == SamplesOf(t, s, e)
           r == ReferenceAt(t, s)
           b == IF s = 0 THEN 0 ELSE s - 1
           stream == SamplesOf(t, b, e)
<1>1. /\ block \in Seq(Labelled) /\ Len(block) = e - s
      /\ \A i \in 1 .. e - s : block[i] = <<t, s + i>>
  BY SamplesAre
<1>2. r.previous = (IF s = 0 THEN <<>> ELSE SamplesOf(t, s - 1, s))
      /\ r.out = Segments(SamplesOf(t, 0, s), 0, 2, 1)
  BY DEF ReferenceAt
<1>3. CASE e = s
  <2>1. block = <<>>
    BY <1>1, <1>3
  <2> HIDE DEF block
  <2> QED
    BY <1>3, <2>1 DEF Discriminate, block
<1>4. CASE e > s
  <2>1. block # <<>>
    BY <1>1, <1>4
  <2>2. b \in Nat /\ b <= s
    OBVIOUS
  <2>3. r.previous \o block = stream
    <3>1. CASE s = 0
      <4>1. r.previous = <<>> /\ stream = block
        BY <1>2, <3>1
      <4> HIDE DEF r, block, stream
      <4> QED
        BY <1>1, <4>1, ConcatEmptySeq
    <3>2. CASE s # 0
      <4>1. r.previous = SamplesOf(t, s - 1, s) /\ b = s - 1 /\ s - 1 \in Nat /\ s - 1 <= s
        BY <1>2, <3>2
      <4> HIDE DEF r, b
      <4> QED
        <5>1. Joined(t, b, s, e)
          BY <4>1, SamplesJoin
        <5> QED
          BY <4>1, <5>1 DEF Joined
    <3> QED
      BY <3>1, <3>2
  <2>4. Fits(s, 0, 2, 1) = b
    <3>1. Fit(b, s, 0, 2, 1)
      BY DEF Fit
    <3>2. Fit(Fits(s, 0, 2, 1), s, 0, 2, 1)
      BY FitsFit
    <3> HIDE DEF b
    <3> QED
      BY <3>1, <3>2, OnlyOneFits
  <2>5. r.out \o Segments(stream, 0, 2, 1) = Segments(SamplesOf(t, 0, e), 0, 2, 1)
    <3> DEFINE m == Fits(e - b, b - b, 2, 1)
    <3>1. b = b * 1 /\ b <= b /\ b - b = 0
      BY <2>2
    <3> HIDE DEF b, r
    <3>2. Segments(SamplesOf(t, 0, s), 0, 2, 1) \o Segments(SamplesOf(t, b, e), b - b, 2, 1)
            = Segments(SamplesOf(t, 0, e), 0, 2, 1)
      <4>1. m = Fits(e - b, b - b, 2, 1)
        OBVIOUS
      <4> HIDE DEF m
      <4> QED
        <5>1. ASSUME NEW width, width = 2, NEW step, step = 1 PROVE Agree(t, s, e, width, step, b, b, m)
          <6>1. width \in Nat \ {0} /\ step \in Nat \ {0} /\ b = b * step
            BY <2>2, <5>1
          <6>2. b = Fits(s, 0, width, step) /\ m = Fits(e - b, b - b, width, step)
            BY <2>4, <4>1, <5>1
          <6> QED
            BY <2>2, <3>1, <6>1, <6>2, CutsAgree
        <5> QED
          BY <3>1, <5>1 DEF Agree
    <3> QED
      BY <1>2, <3>1, <3>2
  <2>6. <<Last(block)>> = SamplesOf(t, e - 1, e)
    <3>1. Last(block) = <<t, e>>
      <4>1. e - s \in 1 .. e - s /\ s + (e - s) = e
        BY <1>4
      <4> HIDE DEF block
      <4> QED
        BY <1>1, <4>1 DEF Last
    <3>2. SamplesOf(t, e - 1, e) = [i \in 1 .. 1 |-> <<t, (e - 1) + i>>]
      BY <1>4 DEF SamplesOf
    <3>3. (e - 1) + 1 = e
      BY <1>4
    <3> HIDE DEF block
    <3> QED
      BY <3>1, <3>2, <3>3
  <2>7. ReferenceAt(t, e) = [previous |-> SamplesOf(t, e - 1, e), out |-> Segments(SamplesOf(t, 0, e), 0, 2, 1)]
    BY <1>4 DEF ReferenceAt
  <2> HIDE DEF block, r, stream
  <2>8. Discriminate(r, block) = [previous |-> <<Last(block)>>, out |-> r.out \o Segments(stream, 0, 2, 1)]
    BY <2>1, <2>3 DEF Discriminate
  <2> QED
    BY <2>5, <2>6, <2>7, <2>8 DEF block, r
<1> QED
  BY <1>3, <1>4

LEMMA PushesOn ==
    ASSUME StreamTypes, NEW t \in Nat, NEW s \in Nat, NEW e \in Nat, s <= e
    PROVE  Push(EstimateAt(design, t, s), SamplesOf(t, s, e)) = EstimateAt(design, t, e)
<1>1. SUFFICES ASSUME NEW step \in Nat \ {0}, step = design.hop
               PROVE  Push(EstimateAt(design, t, s), SamplesOf(t, s, e)) = EstimateAt(design, t, e)
  BY DEF StreamTypes, Designs
<1> DEFINE width == 2 * step
           n == Fits(s, 0, width, step)
           p == n * step
           c == EstimateAt(design, t, s)
           stream == SamplesOf(t, p, e)
           taken == Segments(stream, 0, width, step)
           m == Fits(e - p, p - p, width, step)
           q == Fits(e, 0, width, step) * step
<1>2. c.carry = SamplesOf(t, p, s) /\ c.segments = Segments(SamplesOf(t, 0, s), 0, width, step)
  BY <1>1 DEF EstimateAt
<1>3. width \in Nat \ {0}
  OBVIOUS
<1>4. ASSUME NEW x \in Nat, NEW k, k = Fits(x, 0, width, step) PROVE k \in Nat /\ k * step \in Nat /\ k * step <= x
  <2>1. Fit(k, x, 0, width, step)
    BY <1>3, <1>4, FitsFit
  <2>2. k \in Nat /\ (k > 0 => 0 + (k - 1) * step + width <= x)
    BY <2>1 DEF Fit
  <2>3. CASE k = 0
    BY <2>3
  <2>4. CASE k > 0
    <3>1. (k - 1) * step + step = k * step /\ (k - 1) * step \in Int /\ k * step \in Nat
      BY <2>2, <2>4
    <3> QED
      BY <2>2, <2>4, <3>1
  <2> QED
    BY <2>2, <2>3, <2>4
<1>5. n \in Nat /\ p \in Nat /\ p <= s /\ p <= e /\ q \in Nat /\ q <= e
  <2> DEFINE o == Fits(e, 0, width, step)
  <2>1. n \in Nat /\ n * step \in Nat /\ n * step <= s
    BY <1>4
  <2>2. o * step \in Nat /\ o * step <= e
    BY <1>4
  <2>3. p = n * step /\ q = o * step
    OBVIOUS
  <2> HIDE DEF n, p, q, o
  <2> QED
    BY <2>1, <2>2, <2>3
<1>6. c.carry \o SamplesOf(t, s, e) = stream
  <2> HIDE DEF p, c
  <2> QED
    <3>1. Joined(t, p, s, e)
      BY <1>5, SamplesJoin
    <3> QED
      BY <1>2, <3>1 DEF Joined
<1>7. Len(stream) = e - p
  <2> HIDE DEF p
  <2> QED
    BY <1>5, SamplesAre
<1>8. /\ m \in Nat /\ Fits(e, 0, width, step) = n + m
      /\ c.segments \o taken = Segments(SamplesOf(t, 0, e), 0, width, step) /\ Len(taken) = m
  <2>1. n = Fits(s, 0, width, step) /\ p = n * step /\ m = Fits(e - p, p - p, width, step)
    OBVIOUS
  <2> HIDE DEF n, p, c, m, width
  <2>2. p - p = 0 /\ p <= p
    BY <1>5
  <2>3. /\ m \in Nat /\ Fits(e, 0, width, step) = n + m
        /\ Segments(SamplesOf(t, 0, s), 0, width, step) \o Segments(SamplesOf(t, p, e), p - p, width, step)
             = Segments(SamplesOf(t, 0, e), 0, width, step)
        /\ Len(Segments(SamplesOf(t, p, e), p - p, width, step)) = m
    <3>1. Agree(t, s, e, width, step, n, p, m)
      BY <1>3, <1>5, <2>1, <2>2, CutsAgree
    <3> QED
      BY <2>1, <3>1 DEF Agree
  <2> QED
    BY <1>2, <2>2, <2>3
<1>9. m * step \in Nat /\ p + m * step = q
  <2>1. q = (n + m) * step
    BY <1>8
  <2> HIDE DEF n, m, q
  <2> QED
    BY <1>5, <1>8, <2>1
<1>10. SubSeq(stream, m * step + 1, e - p) = SamplesOf(t, q, e)
  <2> DEFINE i == m * step
  <2>1. i \in Nat /\ p + i = q /\ p + i <= e
    BY <1>5, <1>9
  <2> HIDE DEF i, p, q
  <2>2. SubSeq(stream, i + 1, e - p) = SamplesOf(t, p + i, e)
    <3>1. Rest(t, p, e, i)
      BY <1>5, <2>1, RestOfSamples
    <3> QED
      BY <3>1 DEF Rest
  <2> QED
    BY <2>1, <2>2 DEF i
<1>11. Push(c, SamplesOf(t, s, e)) = [carry |-> SubSeq(stream, m * step + 1, e - p), segments |-> c.segments \o taken]
  <2> HIDE DEF n, p, c, stream, m, q
  <2> QED
    BY <1>1, <1>6, <1>7, <1>8 DEF Push
<1>12. EstimateAt(design, t, e) = [carry |-> SamplesOf(t, q, e), segments |-> Segments(SamplesOf(t, 0, e), 0, width, step)]
  BY <1>1 DEF EstimateAt
<1> HIDE DEF n, p, stream, taken, m, q, width
<1> QED
  BY <1>8, <1>10, <1>11, <1>12

-----------------------------------------------------------------------------
(* The steps.                                                               *)

LEMMA NothingFits ==
    ASSUME NEW t \in Nat, NEW width \in Nat \ {0}, NEW step \in Nat \ {0}
    PROVE  /\ SamplesOf(t, 0, 0) = <<>> /\ Fits(0, 0, width, step) = 0
           /\ Segments(SamplesOf(t, 0, 0), 0, width, step) = <<>>
<1>1. SamplesOf(t, 0, 0) = <<>> /\ Len(SamplesOf(t, 0, 0)) = 0
  <2>1. SamplesOf(t, 0, 0) \in Seq(Labelled) /\ Len(SamplesOf(t, 0, 0)) = 0
    BY SamplesAre
  <2> QED
    BY <2>1, EmptySeq
<1>2. Fits(0, 0, width, step) = 0
  BY DEF Fits
<1>3. Segments(SamplesOf(t, 0, 0), 0, width, step) = <<>>
  BY <1>1, <1>2 DEF Segments
<1> QED
  BY <1>1, <1>2, <1>3

LEMMA NewFilters ==
    ASSUME NEW f \in Designs, NEW t \in Nat
    PROVE  DecimatorAt(f, t, 0) = Fresh /\ ReferenceAt(t, 0) = NoReference /\ EstimateAt(f, t, 0) = EmptyEstimate
<1>1. f.width \in Nat \ {0} /\ f.factor \in Nat \ {0} /\ f.hop \in Nat \ {0}
  BY DEF Designs
<1>2. 2 * f.hop \in Nat \ {0}
  BY <1>1
<1>3. SamplesOf(t, 0, 0) = <<>>
  BY <1>1, NothingFits
<1>4. /\ Fits(0, 0, f.width, f.factor) * f.factor = 0
      /\ Segments(SamplesOf(t, 0, 0), 0, f.width, f.factor) = <<>>
  BY <1>1, NothingFits
<1>5. Segments(SamplesOf(t, 0, 0), 0, 2, 1) = <<>>
  <2>1. ASSUME NEW width, width = 2, NEW step, step = 1 PROVE Segments(SamplesOf(t, 0, 0), 0, width, step) = <<>>
    <3>1. width \in Nat \ {0} /\ step \in Nat \ {0}
      BY <2>1
    <3> QED
      BY <3>1, NothingFits
  <2> QED
    BY <2>1
<1>6. /\ Fits(0, 0, 2 * f.hop, f.hop) * f.hop = 0
      /\ Segments(SamplesOf(t, 0, 0), 0, 2 * f.hop, f.hop) = <<>>
  <2>1. ASSUME NEW width, width = 2 * f.hop
        PROVE  /\ Fits(0, 0, width, f.hop) = 0
               /\ Segments(SamplesOf(t, 0, 0), 0, width, f.hop) = <<>>
    <3>1. width \in Nat \ {0}
      BY <1>2, <2>1
    <3> QED
      BY <1>1, <3>1, NothingFits
  <2> QED
    BY <1>1, <2>1
<1>7. DecimatorAt(f, t, 0) = Fresh
  <2>1. Earlier(0, 0) = 0
    BY DEF Earlier
  <2> QED
    BY <1>3, <1>4, <2>1 DEF DecimatorAt, Fresh
<1>8. ReferenceAt(t, 0) = NoReference
  BY <1>5 DEF ReferenceAt, NoReference
<1>9. EstimateAt(f, t, 0) = EmptyEstimate
  BY <1>3, <1>6 DEF EstimateAt, EmptyEstimate
<1> QED
  BY <1>7, <1>8, <1>9

LEMMA StreamStart == ASSUME StreamInit PROVE StreamInvariant
<1>1. /\ design = [width |-> 1, factor |-> 1, hop |-> 1] /\ tuning = [number |-> 0, samples |-> 0]
      /\ decimator = Fresh /\ reference = NoReference /\ estimator = EmptyEstimate
  BY DEF StreamInit
<1>2. StreamTypes /\ tuning.number = 0 /\ tuning.samples = 0
  BY <1>1 DEF StreamTypes, Designs
<1>3. design \in Designs
  BY <1>2 DEF StreamTypes
<1> QED
  BY <1>1, <1>2, <1>3, NewFilters DEF StreamInvariant

LEMMA DesignStep ==
    ASSUME StreamInvariant, NEW width \in Widths, NEW factor \in Factors, NEW hop \in Hops, Design(width, factor, hop)
    PROVE  StreamInvariant'
<1>1. /\ tuning.number = 0 /\ design' = [width |-> width, factor |-> factor, hop |-> hop]
      /\ tuning' = [number |-> 1, samples |-> 0] /\ UNCHANGED <<decimator, reference, estimator>>
  BY DEF Design
<1>2. width \in Nat \ {0} /\ factor \in Nat \ {0} /\ hop \in Nat \ {0}
  BY StreamsAssumption
<1>3. StreamTypes' /\ tuning'.number = 1 /\ tuning'.samples = 0 /\ design' \in Designs
  BY <1>1, <1>2 DEF StreamTypes, Designs
<1>4. tuning.samples = 0 /\ design \in Designs /\ 0 \in Nat /\ 1 \in Nat
  BY <1>1 DEF StreamInvariant, StreamTypes
<1>5. decimator = Fresh /\ reference = NoReference /\ estimator = EmptyEstimate
  BY <1>1, <1>4, NewFilters DEF StreamInvariant
<1>6. /\ DecimatorAt(design', 1, 0) = Fresh /\ ReferenceAt(1, 0) = NoReference
      /\ EstimateAt(design', 1, 0) = EmptyEstimate
  BY <1>3, <1>4, NewFilters
<1> QED
  BY <1>1, <1>3, <1>5, <1>6 DEF StreamInvariant

LEMMA FeedStep ==
    ASSUME StreamInvariant, NEW n \in 0 .. MaxBlock, Feed(n) PROVE StreamInvariant'
<1> DEFINE t == tuning.number
           s == tuning.samples
           block == [i \in 1 .. n |-> <<t, s + i>>]
<1>1. /\ t > 0 /\ tuning' = [tuning EXCEPT !.samples = @ + n]
      /\ decimator' = Decimate(decimator, block) /\ reference' = Discriminate(reference, block)
      /\ estimator' = Push(estimator, block) /\ UNCHANGED design
  BY DEF Feed
<1>2. n \in Nat /\ t \in Nat /\ s \in Nat /\ s + n \in Nat /\ s <= s + n
  BY StreamsAssumption DEF StreamInvariant, StreamTypes
<1>3. block = SamplesOf(t, s, s + n)
  BY <1>2 DEF SamplesOf
<1>4. StreamTypes' /\ tuning'.number = t /\ tuning'.samples = s + n
  BY <1>1, <1>2 DEF StreamInvariant, StreamTypes
<1>5. /\ decimator = DecimatorAt(design, t, s) /\ reference = ReferenceAt(t, s)
      /\ estimator = EstimateAt(design, t, s) /\ StreamTypes
  BY DEF StreamInvariant
<1> HIDE DEF t, s, block
<1>6. decimator' = DecimatorAt(design, t, s + n)
  BY <1>1, <1>2, <1>3, <1>5, DecimatesOn
<1>7. reference' = ReferenceAt(t, s + n)
  BY <1>1, <1>2, <1>3, <1>5, DiscriminatesOn
<1>8. estimator' = EstimateAt(design, t, s + n)
  BY <1>1, <1>2, <1>3, <1>5, PushesOn
<1> QED
  BY <1>1, <1>4, <1>6, <1>7, <1>8 DEF StreamInvariant

LEMMA RetuneStep == ASSUME StreamInvariant, Retune PROVE StreamInvariant'
<1> DEFINE t == tuning.number + 1
<1>1. /\ tuning' = [number |-> t, samples |-> 0] /\ UNCHANGED design
      /\ decimator' = Fresh /\ reference' = NoReference /\ estimator' = EmptyEstimate
  BY DEF Retune
<1>2. t \in Nat /\ t # 0 /\ design \in Designs
  BY DEF StreamInvariant, StreamTypes
<1> HIDE DEF t
<1>3. StreamTypes' /\ tuning'.number = t /\ tuning'.samples = 0
  BY <1>1, <1>2 DEF StreamTypes
<1>4. /\ DecimatorAt(design, t, 0) = Fresh /\ ReferenceAt(t, 0) = NoReference
      /\ EstimateAt(design, t, 0) = EmptyEstimate
  BY <1>2, NewFilters
<1> QED
  BY <1>1, <1>3, <1>4 DEF StreamInvariant

LEMMA StreamsStay ==
    ASSUME StreamInvariant, [StreamNext]_streamVars PROVE StreamInvariant'
<1>1. CASE StreamNext
  BY <1>1, DesignStep, FeedStep, RetuneStep DEF StreamNext
<1>2. CASE UNCHANGED streamVars
  BY <1>2 DEF streamVars, StreamInvariant, StreamTypes
<1> QED
  BY <1>1, <1>2

LEMMA StreamsPutOutTheWhole == ASSUME StreamInvariant PROVE FiltersIgnoreTheCuts
<1>1. tuning.samples - 0 = tuning.samples /\ tuning.samples \in Nat
  BY DEF StreamInvariant, StreamTypes
<1>2. Whole = SamplesOf(tuning.number, 0, tuning.samples)
  BY <1>1 DEF Whole, SamplesOf
<1> QED
  BY <1>2 DEF StreamInvariant, DecimatorAt, ReferenceAt, EstimateAt, FiltersIgnoreTheCuts

\* Where a receiver cuts its samples into blocks cannot be told from what the low-pass,
\* the discriminator and the transform put out: for every number of taps, decimation
\* and length of a transform, and for any blocks, empty ones and ones shorter than the
\* filter among them.
THEOREM FiltersAreOfTheWhole == StreamSpec => []FiltersIgnoreTheCuts
<1>1. StreamInit => StreamInvariant
  BY StreamStart
<1>2. StreamInvariant /\ [StreamNext]_streamVars => StreamInvariant'
  BY StreamsStay
<1>3. StreamInvariant => FiltersIgnoreTheCuts
  BY StreamsPutOutTheWhole
<1> QED
  BY <1>1, <1>2, <1>3, PTL DEF StreamSpec

-----------------------------------------------------------------------------
(* The slots of the nodes: for any cycle, any number of nodes and any time  *)
(* that an answer may take.                                                 *)

CadenceSpec == CadenceInit /\ [][CadenceNext]_cadenceVars

CadenceTypes ==
    /\ cycle = Never \/ cycle \in Nat \ {0}
    /\ phase \in Int /\ due \in [Nodes -> Int] /\ delay \in [Nodes -> Int \cup {Never}]

LEMMA CadenceNumbers ==
    /\ Nodes \subseteq Nat /\ Waits \subseteq Nat /\ Never \notin Int
    /\ Cycles \subseteq Nat
  BY CadenceAssumption

\* What matters of the numbers the code has.
LEMMA Numerals ==
    MaxDeferral \in Nat \ {0} /\ DefaultCycle \in Nat \ {0} /\ Window \in Int /\ SlotSpread \in Int
  BY SMT DEF MaxDeferral, DefaultCycle, Window, SlotSpread

\* A remainder, and what it is of.
LEMMA RemainderIs ==
    ASSUME NEW x \in Int, NEW c \in Nat \ {0}
    PROVE  /\ x % c \in Nat /\ x % c < c /\ x \div c \in Int /\ (x \div c) * c \in Int
           /\ x = (x \div c) * c + (x % c)
  OBVIOUS

LEMMA OnlyRemainder ==
    ASSUME NEW x \in Int, NEW c \in Nat \ {0}, NEW q \in Int, NEW r \in Nat, r < c, x = q * c + r
    PROVE  x % c = r
<1> DEFINE p == x \div c
<1>1. x % c \in Nat /\ x % c < c /\ p \in Int /\ x = p * c + (x % c)
  BY RemainderIs
<1> HIDE DEF p
<1>2. CASE p = q
  BY <1>1, <1>2
<1>3. CASE p < q
  <2>1. (p + 1) * c <= q * c /\ (p + 1) * c \in Int /\ q * c \in Int
    BY <1>1, <1>3, Products
  <2>2. (p + 1) * c = p * c + c /\ p * c \in Int
    BY <1>1
  <2> QED
    BY <1>1, <2>1, <2>2
<1>4. CASE p > q
  <2>1. (q + 1) * c <= p * c /\ (q + 1) * c \in Int /\ p * c \in Int
    BY <1>1, <1>4, Products
  <2>2. (q + 1) * c = q * c + c /\ q * c \in Int
    OBVIOUS
  <2> QED
    BY <1>1, <2>1, <2>2
<1> QED
  BY <1>1, <1>2, <1>3, <1>4

LEMMA LongestIsLongest == ASSUME NEW wait \in Waits PROVE Longest \in Nat /\ wait <= Longest
<1>1. \E w \in Waits : \A v \in Waits : v <= w
  BY CadenceAssumption
<1> QED
  BY <1>1, CadenceNumbers DEF Longest

\* The next time of a slot is after now and no later than a cycle after.
LEMMA SlotIsAhead ==
    ASSUME cycle \in Nat \ {0}, NEW n \in Nodes, NEW now \in 0 .. cycle - 1
    PROVE  /\ Slot(n) \in 0 .. cycle - 1 /\ NextReport(n, now) - now \in 1 .. cycle
           /\ \E e \in {0, 1} : NextReport(n, now) = Slot(n) + e * cycle
<1>1. n * SlotSpread \in Int
  BY CadenceNumbers, Numerals
<1>2. Slot(n) \in 0 .. cycle - 1
  <2> DEFINE x == n * SlotSpread
  <2>1. x \in Int
    BY <1>1
  <2>2. Slot(n) = x % cycle
    BY DEF Slot
  <2> HIDE DEF x
  <2> QED
    BY <2>1, <2>2, RemainderIs
<1>3. CASE Slot(n) <= now
  <2>1. NextReport(n, now) = Slot(n) + cycle /\ 1 * cycle = cycle
    BY <1>3 DEF NextReport
  <2> QED
    BY <1>2, <1>3, <2>1
<1>4. CASE ~(Slot(n) <= now)
  <2>1. NextReport(n, now) = Slot(n) /\ 0 * cycle = 0
    BY <1>4 DEF NextReport
  <2> QED
    BY <1>2, <1>4, <2>1
<1> QED
  BY <1>3, <1>4

\* What a delivery leaves behind: the sleep, and where the clock is in the cycle.
LEMMA Deliveries ==
    ASSUME CadenceTypes, NEW n \in Nodes, NEW wait \in Waits, Delivered(n, wait)
    PROVE  \E at \in 0 .. cycle - 1, gap \in Int, a \in Int, b \in Int :
              /\ cycle \in Nat \ {0} /\ cycle' = cycle
              /\ at = (phase + due[n] + wait) - b * cycle
              /\ phase' = (phase + due[n] + 2 * wait) - a * cycle
              /\ gap = NextReport(n, at) - at
              /\ due'[n] = (IF gap < MaxDeferral THEN gap ELSE MaxDeferral)
              /\ delay' = [delay EXCEPT ![n] = due'[n]]
              /\ phase' \in Int /\ due' \in [Nodes -> Int]
<1> USE CadenceNumbers
<1> DEFINE early == phase + due[n] + wait
           late == phase + due[n] + 2 * wait
           at == early % cycle
           gap == NextReport(n, at) - at
           a == late \div cycle
           b == early \div cycle
<1>1. cycle \in Nat \ {0} /\ cycle' = cycle
  BY DEF CadenceTypes, Delivered, First
<1>2. early \in Int /\ late \in Int /\ due[n] \in Int /\ wait \in Nat
  BY DEF CadenceTypes
<1>3. /\ delay' = [delay EXCEPT ![n] = Sooner(gap, MaxDeferral)]
      /\ due' = Sleeps(n, due[n] + 2 * wait, delay'[n]) /\ phase' = late % cycle
  BY DEF Delivered, ScheduleDelay
<1> HIDE DEF early, late
<1>4. /\ at \in 0 .. cycle - 1 /\ b \in Int /\ at = early - b * cycle
      /\ late % cycle \in Int /\ a \in Int /\ late % cycle = late - a * cycle
  BY <1>1, <1>2, RemainderIs
<1> HIDE DEF at, a, b
<1>5. gap \in 1 .. cycle
  BY <1>1, <1>4, SlotIsAhead
<1> HIDE DEF gap
<1>6. Sooner(gap, MaxDeferral) = (IF gap < MaxDeferral THEN gap ELSE MaxDeferral)
      /\ Sooner(gap, MaxDeferral) \in Int
  BY <1>1, <1>5, Numerals DEF Sooner
<1>7. delay'[n] = Sooner(gap, MaxDeferral)
  BY <1>3 DEF CadenceTypes
<1>8. After(due[n] + 2 * wait) \in [Nodes -> Int]
  BY <1>2 DEF After, CadenceTypes
<1>9. due' \in [Nodes -> Int] /\ due'[n] = Sooner(gap, MaxDeferral)
  <2>1. due' = [After(due[n] + 2 * wait) EXCEPT ![n] = Sooner(gap, MaxDeferral)]
    BY <1>3, <1>6, <1>7 DEF Sleeps
  <2> HIDE DEF After
  <2> QED
    BY <1>6, <1>8, <2>1
<1>10. at = (phase + due[n] + wait) - b * cycle /\ phase' = (phase + due[n] + 2 * wait) - a * cycle
  <2>1. at = early - b * cycle
    BY <1>4, Zenon
  <2>2. phase' = late - a * cycle
    BY <1>3, <1>4, Zenon
  <2>3. early - b * cycle = (phase + due[n] + wait) - b * cycle
    BY DEF early
  <2>4. late - a * cycle = (phase + due[n] + 2 * wait) - a * cycle
    BY DEF late
  <2> QED
    BY <2>1, <2>2, <2>3, <2>4, Zenon
<1>11. gap = NextReport(n, at) - at /\ gap \in Int
  BY <1>1, <1>5 DEF gap
<1>12. delay' = [delay EXCEPT ![n] = due'[n]] /\ phase' \in Int
  BY <1>3, <1>4, <1>9
<1> QED
  BY <1>1, <1>4, <1>6, <1>9, <1>10, <1>11, <1>12

LEMMA CadenceStart == ASSUME CadenceInit PROVE CadenceTypes
  BY Numerals DEF CadenceInit, CadenceTypes

LEMMA CadenceStays == ASSUME CadenceTypes, [CadenceNext]_cadenceVars PROVE CadenceTypes'
<1> USE CadenceNumbers
<1>1. ASSUME NEW c \in Cycles, Configure(c) PROVE CadenceTypes'
  <2>1. cycle' = (IF c > 0 THEN c ELSE DefaultCycle) /\ UNCHANGED <<phase, delay, due>> /\ c \in Nat
    BY <1>1 DEF Configure
  <2> QED
    BY <2>1, Numerals DEF CadenceTypes
<1>2. ASSUME NEW n \in Nodes, NEW wait \in Waits, Delivered(n, wait) PROVE CadenceTypes'
  <2>1. PICK at \in 0 .. cycle - 1, gap \in Int, a \in Int, b \in Int :
              /\ cycle \in Nat \ {0} /\ cycle' = cycle
              /\ due'[n] = (IF gap < MaxDeferral THEN gap ELSE MaxDeferral)
              /\ delay' = [delay EXCEPT ![n] = due'[n]]
              /\ phase' \in Int /\ due' \in [Nodes -> Int]
    BY <1>2, Deliveries
  <2> QED
    BY <2>1 DEF CadenceTypes
<1>3. ASSUME NEW n \in Nodes, Missed(n) PROVE CadenceTypes'
  <2>1. /\ due' = Sleeps(n, due[n], delay[n]) /\ phase' = (phase + due[n]) % cycle
        /\ UNCHANGED <<cycle, delay>> /\ cycle \in Nat \ {0}
    BY <1>3 DEF Missed, First, CadenceTypes
  <2>2. due[n] \in Int /\ phase + due[n] \in Int /\ (delay[n] = Never \/ delay[n] \in Int)
    BY DEF CadenceTypes
  <2>3. phase' \in Int
    BY <2>1, <2>2, RemainderIs
  <2>4. After(due[n]) \in [Nodes -> Int]
    BY <2>2 DEF After, CadenceTypes
  <2>5. due' \in [Nodes -> Int]
    BY <2>1, <2>2, <2>4, Numerals DEF Sleeps
  <2> QED
    BY <2>1, <2>3, <2>5 DEF CadenceTypes
<1>4. ASSUME UNCHANGED <<cycle, phase, delay, due>> PROVE CadenceTypes'
  BY <1>4 DEF CadenceTypes
<1> QED
  BY <1>1, <1>2, <1>3, <1>4 DEF CadenceNext, cadenceVars, SetClock, ReportHealth

LEMMA DeliveriesKeepSlots ==
    ASSUME CadenceTypes, NEW n \in Nodes, NEW wait \in Waits, Delivered(n, wait)
    PROVE  /\ due'[n] \in 1 .. MaxDeferral
           /\ \/ due'[n] = MaxDeferral
              \/ (phase' + due'[n] - Slot(n)) % cycle <= Longest
<1> USE CadenceNumbers
<1>1. PICK at \in 0 .. cycle - 1, gap \in Int, a \in Int, b \in Int :
              /\ cycle \in Nat \ {0} /\ cycle' = cycle
              /\ at = (phase + due[n] + wait) - b * cycle
              /\ phase' = (phase + due[n] + 2 * wait) - a * cycle
              /\ gap = NextReport(n, at) - at
              /\ due'[n] = (IF gap < MaxDeferral THEN gap ELSE MaxDeferral)
              /\ phase' \in Int /\ due' \in [Nodes -> Int]
  BY Deliveries
<1>2. /\ Slot(n) \in 0 .. cycle - 1 /\ gap \in 1 .. cycle
      /\ \E e \in {0, 1} : gap = Slot(n) + e * cycle - at
  BY <1>1, SlotIsAhead
<1>3. due'[n] \in 1 .. MaxDeferral
  <2>1. gap \in Int /\ gap >= 1
    BY <1>1, <1>2
  <2>2. due'[n] = (IF gap < MaxDeferral THEN gap ELSE MaxDeferral)
    BY <1>1
  <2> QED
    BY <2>1, <2>2, Numerals
<1>4. CASE gap < MaxDeferral
  <2>1. due'[n] = gap
    BY <1>1, <1>4
  <2>2. PICK e \in {0, 1} : gap = Slot(n) + e * cycle - at
    BY <1>2
  <2> DEFINE r == wait % cycle
             w == wait \div cycle
             x == phase' + due'[n] - Slot(n)
             q == w + b + e - a
  <2>3. r \in Nat /\ r < cycle /\ w \in Int /\ wait = w * cycle + r /\ wait \in Nat
    BY <1>1, RemainderIs
  <2>4. phase \in Int /\ due[n] \in Int /\ Slot(n) \in Int /\ at \in Int /\ e \in Int
    BY <1>1, <1>2 DEF CadenceTypes
  <2> HIDE DEF r, w
  <2>5. x \in Int /\ q \in Int
    BY <1>1, <2>1, <2>3, <2>4
  <2>6. x = q * cycle + r
    <3>1. q * cycle = w * cycle + b * cycle + e * cycle - a * cycle
      BY <1>1, <2>3, <2>4
    <3>2. /\ w * cycle \in Int /\ b * cycle \in Int /\ e * cycle \in Int /\ a * cycle \in Int
          /\ q * cycle \in Int
      BY <1>1, <2>3, <2>4, <2>5
    <3>3. x = ((phase + due[n] + 2 * wait) - a * cycle) + (Slot(n) + e * cycle - ((phase + due[n] + wait) - b * cycle)) - Slot(n)
      BY <1>1, <2>1, <2>2
    <3> HIDE DEF q, x
    <3> QED
      BY <2>3, <2>4, <3>1, <3>2, <3>3
  <2> HIDE DEF x, q
  <2>7. x % cycle = r
    BY <1>1, <2>3, <2>5, <2>6, OnlyRemainder
  <2>8. r <= wait
    <3>1. CASE wait < cycle
      <4>1. 0 * cycle = 0 /\ wait = 0 * cycle + wait
        BY <1>1, <2>3
      <4>2. r = wait
        BY <1>1, <2>3, <3>1, <4>1, OnlyRemainder DEF r
      <4> QED
        BY <2>3, <4>2
    <3>2. CASE ~(wait < cycle)
      BY <1>1, <2>3, <3>2
    <3> QED
      BY <3>1, <3>2
  <2>9. wait <= Longest /\ Longest \in Nat
    BY LongestIsLongest
  <2>10. x % cycle <= Longest
    BY <2>3, <2>7, <2>8, <2>9
  <2> QED
    BY <1>3, <2>10 DEF x
<1>5. CASE ~(gap < MaxDeferral)
  BY <1>1, <1>3, <1>5
<1> QED
  BY <1>4, <1>5

\* After a delivery that was answered a node comes back in its slot of the server's
\* time, late by the way of the answer at most, or after the longest deferral: for
\* every cycle, every number of nodes and whatever their own clocks read.
THEOREM SlotsStay == CadenceSpec => SlotsAreKept
<1>1. CadenceInit => CadenceTypes
  BY CadenceStart
<1>2. CadenceTypes /\ [CadenceNext]_cadenceVars => CadenceTypes'
  BY CadenceStays
<1>3. CadenceTypes =>
        [\A n \in Nodes : (\E wait \in Waits : Delivered(n, wait)) =>
            /\ due'[n] \in 1 .. MaxDeferral
            /\ \/ due'[n] = MaxDeferral
               \/ (phase' + due'[n] - Slot(n)) % cycle <= Longest]_cadenceVars
  BY DeliveriesKeepSlots
<1> QED
  BY <1>1, <1>2, <1>3, PTL DEF CadenceSpec, SlotsAreKept

-----------------------------------------------------------------------------
(* Windows: for any samples, any ranges of the metrics and any clock.       *)
(* First what can be said of a recursion and of a sum.                      *)

\* What holds of zero, and of every number up to n that follows one it holds of,
\* holds of all of them.
LEMMA UpTo ==
    ASSUME NEW n \in Nat, NEW T, 0 \in T, \A i \in 1 .. n : i - 1 \in T => i \in T
    PROVE  \A i \in 0 .. n : i \in T
<1> DEFINE less == {p \in Nat \X Nat : p[1] < p[2]}
           bad == {i \in 0 .. n : i \notin T}
<1> SUFFICES ASSUME bad # {} PROVE FALSE
  OBVIOUS
<1>1. IsWellFoundedOn(less, Nat)
  BY NatLessThanWellFounded DEF OpToRel
<1>2. bad \subseteq Nat
  OBVIOUS
<1>3. PICK i \in bad : \A j \in bad : ~ (<<j, i>> \in less)
  <2> HIDE DEF less, bad
  <2> QED
    BY <1>1, <1>2, WFMin
<1>4. i \in 1 .. n /\ i - 1 \in 0 .. n /\ <<i - 1, i>> \in less
  OBVIOUS
<1>5. i - 1 \in T
  BY <1>3, <1>4
<1> QED
  BY <1>4, <1>5

\* A function that is computed along 0 .. n, from what it was one before.
Along(f, S, base, n, step) ==
    /\ f \in [0 .. n -> S] /\ f[0] = base
    /\ \A i \in 1 .. n : f[i] = step[<<i, f[i - 1]>>]

\* There is one.
LEMMA Recursion ==
    ASSUME NEW S, NEW base \in S, NEW n \in Nat, NEW step \in [(1 .. n) \X S -> S]
    PROVE  \E f : Along(f, S, base, n, step)
<1> DEFINE solved == {m \in 0 .. n : \E f : Along(f, S, base, m, step)}
<1>1. 0 \in solved
  <2>1. Along([i \in 0 .. 0 |-> base], S, base, 0, step)
    BY DEF Along
  <2> QED
    BY <2>1
<1>2. ASSUME NEW m \in 1 .. n, m - 1 \in solved PROVE m \in solved
  <2>1. PICK f : Along(f, S, base, m - 1, step)
    BY <1>2
  <2> DEFINE g == [i \in 0 .. m |-> IF i = m THEN step[<<m, f[m - 1]>>] ELSE f[i]]
  <2>2. f \in [0 .. m - 1 -> S] /\ f[m - 1] \in S /\ step[<<m, f[m - 1]>>] \in S
    BY <2>1 DEF Along
  <2>3. g \in [0 .. m -> S] /\ g[0] = base
    BY <2>1, <2>2 DEF Along
  <2>4. ASSUME NEW i \in 1 .. m PROVE g[i] = step[<<i, g[i - 1]>>]
    <3>1. g[i - 1] = f[i - 1]
      OBVIOUS
    <3>2. CASE i = m
      <4>1. g[i] = step[<<i, f[i - 1]>>]
        BY <3>2
      <4> QED
        BY <3>1, <4>1
    <3>3. CASE i # m
      <4>1. i \in 1 .. m - 1 /\ g[i] = f[i]
        BY <3>3
      <4> QED
        BY <3>1, <4>1, <2>1 DEF Along
    <3> QED
      BY <3>2, <3>3
  <2> HIDE DEF g
  <2>5. Along(g, S, base, m, step)
    BY <2>3, <2>4 DEF Along
  <2> QED
    BY <2>5
<1>3. n \in solved
  <2> HIDE DEF solved
  <2> QED
    BY <1>1, <1>2, UpTo
<1> QED
  BY <1>3

LEMMA SumIs ==
    ASSUME NEW values \in Seq(Int)
    PROVE  \E t \in [0 .. Len(values) -> Int] :
              /\ t[0] = 0 /\ \A i \in 1 .. Len(values) : t[i] = t[i - 1] + values[i]
              /\ Sum(values) = t[Len(values)]
<1> DEFINE n == Len(values)
           Totals(t) == t = [i \in 0 .. Len(values) |-> IF i = 0 THEN 0 ELSE t[i - 1] + values[i]]
           total == CHOOSE t : Totals(t)
           step == [p \in (1 .. n) \X Int |-> p[2] + values[p[1]]]
<1>1. n \in Nat /\ step \in [(1 .. n) \X Int -> Int] /\ 0 \in Int
  OBVIOUS
<1>2. PICK f : Along(f, Int, 0, n, step)
  <2> HIDE DEF step, n
  <2> QED
    BY <1>1, Recursion
<1>3. Totals(f)
  <2>1. f \in [0 .. n -> Int] /\ f[0] = 0
    BY <1>2 DEF Along
  <2>2. ASSUME NEW i \in 1 .. n PROVE f[i] = f[i - 1] + values[i]
    <3>1. f[i] = step[<<i, f[i - 1]>>]
      BY <1>2, Zenon DEF Along
    <3>2. f[i - 1] \in Int
      BY <2>1
    <3> QED
      BY <3>1, <3>2
  <2> QED
    BY <2>1, <2>2
<1>4. Totals(total)
  <2> HIDE DEF Totals
  <2> QED
    BY <1>3
<1>5. Sum(values) = total[n]
  BY DEF Sum
<1> HIDE DEF total
<1>6. /\ total = [i \in 0 .. n |-> total[i]] /\ total[0] = 0
      /\ \A i \in 1 .. n : total[i] = total[i - 1] + values[i]
  BY <1>4
<1>7. \A i \in 0 .. n : total[i] \in Int
  <2> DEFINE T == {i \in 0 .. n : total[i] \in Int}
  <2>1. 0 \in T /\ \A i \in 1 .. n : i - 1 \in T => i \in T
    BY <1>6
  <2> HIDE DEF T
  <2>2. \A i \in 0 .. n : i \in T
    BY <1>1, <2>1, UpTo
  <2> QED
    BY <2>2 DEF T
<1> QED
  BY <1>5, <1>6, <1>7

LEMMA SumType == ASSUME NEW values \in Seq(Int) PROVE Sum(values) \in Int
<1>1. PICK t \in [0 .. Len(values) -> Int] : Sum(values) = t[Len(values)]
  BY SumIs
<1>2. Len(values) \in 0 .. Len(values)
  OBVIOUS
<1> QED
  BY <1>1, <1>2

\* A sum lies between as many times the least and as many times the greatest.
LEMMA SumBetween ==
    ASSUME NEW values \in Seq(Int), NEW low \in Int, NEW high \in Int,
           \A i \in 1 .. Len(values) : low <= values[i] /\ values[i] <= high
    PROVE  low * Len(values) <= Sum(values) /\ Sum(values) <= high * Len(values)
<1>1. PICK t \in [0 .. Len(values) -> Int] :
        /\ t[0] = 0 /\ \A i \in 1 .. Len(values) : t[i] = t[i - 1] + values[i]
        /\ Sum(values) = t[Len(values)]
  BY SumIs
<1> DEFINE n == Len(values)
           T == {i \in 0 .. n : low * i <= t[i] /\ t[i] <= high * i}
<1>2. n \in Nat /\ \A i \in 1 .. n : values[i] \in Int
  OBVIOUS
<1>3. 0 \in T
  BY <1>1
<1>4. ASSUME NEW i \in 1 .. n, i - 1 \in T PROVE i \in T
  <2> DEFINE a == low * (i - 1)
             b == high * (i - 1)
  <2>0. a \in Int /\ b \in Int
    OBVIOUS
  <2>1. low * i = a + low /\ high * i = b + high
    OBVIOUS
  <2>2. t[i - 1] \in Int /\ t[i] \in Int /\ t[i] = t[i - 1] + values[i]
    <3> HIDE DEF a, b
    <3>1. i \in 0 .. Len(values) /\ i - 1 \in 0 .. Len(values)
      OBVIOUS
    <3> QED
      BY <1>1, <3>1
  <2>3. a <= t[i - 1] /\ t[i - 1] <= b
    BY <1>4
  <2>4. values[i] \in Int /\ low <= values[i] /\ values[i] <= high
    OBVIOUS
  <2>5. a + low <= t[i] /\ t[i] <= b + high
    <3> DEFINE before == t[i - 1]
               now == t[i]
               value == values[i]
    <3>1. /\ before \in Int /\ now \in Int /\ now = before + value
          /\ a <= before /\ before <= b
          /\ value \in Int /\ low <= value /\ value <= high
      BY <2>2, <2>3, <2>4, Zenon
    <3> HIDE DEF a, b, before, now, value
    <3>2. a + low <= now /\ now <= b + high
      BY <2>0, <3>1, SMT
    <3> QED
      BY <3>2 DEF now
  <2> HIDE DEF a, b
  <2> QED
    BY <2>1, <2>5
<1>5. n \in T
  <2> HIDE DEF T
  <2>1. \A i \in 0 .. n : i \in T
    BY <1>2, <1>3, <1>4, UpTo
  <2> QED
    BY <1>2, <2>1
<1> QED
  BY <1>1, <1>5

LEMMA SquareIsPositive == ASSUME NEW x \in Int PROVE x * x \in Int /\ x * x >= 0
  OBVIOUS

LEMMA SumAtLeastZero ==
    ASSUME NEW values \in Seq(Int), \A i \in 1 .. Len(values) : values[i] >= 0
    PROVE  Sum(values) >= 0
<1>1. PICK t \in [0 .. Len(values) -> Int] :
        /\ t[0] = 0 /\ \A i \in 1 .. Len(values) : t[i] = t[i - 1] + values[i]
        /\ Sum(values) = t[Len(values)]
  BY SumIs
<1> DEFINE T == {i \in 0 .. Len(values) : t[i] >= 0}
<1>2. 0 \in T
  BY <1>1
<1>3. ASSUME NEW i \in 1 .. Len(values), i - 1 \in T PROVE i \in T
  <2>1. t[i - 1] \in Int /\ t[i] \in Int /\ t[i - 1] >= 0 /\ values[i] >= 0 /\ values[i] \in Int
    BY <1>3
  <2>2. t[i] = t[i - 1] + values[i]
    BY <1>1
  <2> QED
    BY <2>1, <2>2
<1>4. Len(values) \in T
  <2> HIDE DEF T
  <2>1. Len(values) \in Nat
    OBVIOUS
  <2>2. \A i \in 0 .. Len(values) : i \in T
    BY <1>2, <1>3, <2>1, UpTo
  <2> QED
    BY <2>1, <2>2
<1> QED
  BY <1>1, <1>4

\* What Picked returns, and what of the sequence it was made from at each place.
Picks(p, samples, kept) ==
    /\ p[0] = <<>>
    /\ \A i \in 1 .. Len(samples) :
          p[i] = IF samples[i] \in kept THEN Append(p[i - 1], samples[i]) ELSE p[i - 1]

LEMMA PickedIs ==
    ASSUME NEW S, NEW samples \in Seq(S), NEW kept
    PROVE  \E p \in [0 .. Len(samples) -> Seq(S \cap kept)] :
              Picks(p, samples, kept) /\ Picked(samples, kept) = p[Len(samples)]
<1> DEFINE n == Len(samples)
           Steps(p) == p = [i \in 0 .. Len(samples) |->
                              IF i = 0 THEN <<>>
                              ELSE IF samples[i] \in kept THEN Append(p[i - 1], samples[i]) ELSE p[i - 1]]
           upTo == CHOOSE p : Steps(p)
           K == Seq(S \cap kept)
           step == [p \in (1 .. n) \X K |->
                      IF samples[p[1]] \in kept THEN Append(p[2], samples[p[1]]) ELSE p[2]]
<1>1. n \in Nat /\ <<>> \in K
  OBVIOUS
<1>2. step \in [(1 .. n) \X K -> K]
  <2>1. \A i \in 1 .. n : samples[i] \in S
    OBVIOUS
  <2>2. ASSUME NEW i \in 1 .. n, NEW q \in K
        PROVE  (IF samples[i] \in kept THEN Append(q, samples[i]) ELSE q) \in K
    BY <2>1
  <2>3. \A p \in (1 .. n) \X K :
            (IF samples[p[1]] \in kept THEN Append(p[2], samples[p[1]]) ELSE p[2]) \in K
    <3> HIDE DEF n, K
    <3> QED
      BY <2>2
  <2> HIDE DEF n, K
  <2> QED
    BY <2>3
<1>3. PICK f : Along(f, K, <<>>, n, step)
  <2> HIDE DEF step, n, K
  <2> QED
    BY <1>1, <1>2, Recursion
<1>4. Steps(f)
  <2>1. f \in [0 .. n -> K] /\ f[0] = <<>>
    BY <1>3 DEF Along
  <2>2. ASSUME NEW i \in 1 .. n
        PROVE  f[i] = IF samples[i] \in kept THEN Append(f[i - 1], samples[i]) ELSE f[i - 1]
    <3>1. f[i] = step[<<i, f[i - 1]>>]
      BY <1>3, Zenon DEF Along
    <3> HIDE DEF K
    <3>2. <<i, f[i - 1]>> \in (1 .. n) \X K
      <4>1. i - 1 \in 0 .. n
        BY <1>1
      <4>2. f[i - 1] \in K
        BY <2>1, <4>1, Zenon
      <4> QED
        BY <4>2
    <3> QED
      BY <3>1, <3>2
  <2> HIDE DEF K
  <2> QED
    BY <2>1, <2>2
<1>5. Steps(upTo)
  <2> HIDE DEF Steps
  <2> QED
    BY <1>4
<1>6. Picked(samples, kept) = upTo[n]
  BY DEF Picked
<1> HIDE DEF upTo, K
<1>7. upTo = [i \in 0 .. n |-> upTo[i]] /\ Picks(upTo, samples, kept)
  <2>1. upTo = [i \in 0 .. n |-> upTo[i]]
    BY <1>5
  <2>2. upTo[0] = <<>>
    BY <1>5
  <2>3. ASSUME NEW i \in 1 .. n
        PROVE  upTo[i] = IF samples[i] \in kept THEN Append(upTo[i - 1], samples[i]) ELSE upTo[i - 1]
    <3>1. i \in 0 .. n /\ i # 0
      BY <1>1
    <3>2. upTo[i] = IF i = 0 THEN <<>>
                    ELSE IF samples[i] \in kept THEN Append(upTo[i - 1], samples[i]) ELSE upTo[i - 1]
      BY <1>5, <3>1, Zenon
    <3> QED
      BY <3>1, <3>2
  <2> QED
    BY <2>1, <2>2, <2>3 DEF Picks
<1>8. \A i \in 0 .. n : upTo[i] \in K
  <2> DEFINE T == {i \in 0 .. n : upTo[i] \in K}
  <2>1. 0 \in T
    BY <1>1, <1>7 DEF Picks
  <2>2. ASSUME NEW i \in 1 .. n, i - 1 \in T PROVE i \in T
    <3>1. samples[i] \in S /\ upTo[i - 1] \in K
      BY <2>2
    <3>2. upTo[i] = IF samples[i] \in kept THEN Append(upTo[i - 1], samples[i]) ELSE upTo[i - 1]
      BY <1>7 DEF Picks
    <3>3. upTo[i] \in K
      BY <3>1, <3>2 DEF K
    <3> QED
      BY <3>3
  <2> HIDE DEF T
  <2>3. \A i \in 0 .. n : i \in T
    BY <1>1, <2>1, <2>2, UpTo
  <2> QED
    BY <2>3 DEF T
<1>9. upTo \in [0 .. n -> K]
  BY <1>7, <1>8
<1> QED
  BY <1>6, <1>7, <1>9 DEF K

-----------------------------------------------------------------------------
(* What is picked of a sequence, and what a window has taken.                *)

LEMMA PickedType ==
    ASSUME NEW S, NEW samples \in Seq(S), NEW kept
    PROVE  Picked(samples, kept) \in Seq(S \cap kept)
<1>1. PICK p \in [0 .. Len(samples) -> Seq(S \cap kept)] : Picked(samples, kept) = p[Len(samples)]
  BY PickedIs
<1>2. Len(samples) \in 0 .. Len(samples)
  OBVIOUS
<1> QED
  BY <1>1, <1>2

\* Something is picked if there is something to pick.
LEMMA PickedIfAny ==
    ASSUME NEW S, NEW samples \in Seq(S), NEW kept
    PROVE  Picked(samples, kept) # <<>> <=> \E i \in 1 .. Len(samples) : samples[i] \in kept
<1>1. PICK p \in [0 .. Len(samples) -> Seq(S \cap kept)] :
        Picks(p, samples, kept) /\ Picked(samples, kept) = p[Len(samples)]
  BY PickedIs
<1> DEFINE n == Len(samples)
           T == {i \in 0 .. n : p[i] # <<>> <=> \E j \in 1 .. i : samples[j] \in kept}
<1>2. n \in Nat
  OBVIOUS
<1>3. 0 \in T
  BY <1>1 DEF Picks
<1>4. ASSUME NEW i \in 1 .. n, i - 1 \in T PROVE i \in T
  <2>1. p[i] = IF samples[i] \in kept THEN Append(p[i - 1], samples[i]) ELSE p[i - 1]
    BY <1>1 DEF Picks
  <2>2. CASE samples[i] \in kept
    <3>1. i - 1 \in 0 .. n /\ samples[i] \in S
      BY <1>2
    <3>2. p[i - 1] \in Seq(S \cap kept)
      BY <3>1
    <3>3. Append(p[i - 1], samples[i]) # <<>>
      <4>1. samples[i] \in S \cap kept
        BY <2>2, <3>1
      <4> DEFINE W == S \cap kept
                 before == p[i - 1]
                 e == samples[i]
      <4>2. before \in Seq(W) /\ e \in W
        BY <3>2, <4>1
      <4> HIDE DEF W, before, e
      <4>3. Append(before, e) # <<>>
        BY <4>2, AppendProperties
      <4> QED
        BY <4>3 DEF before, e
    <3>4. p[i] # <<>>
      BY <2>1, <2>2, <3>3, Zenon
    <3> QED
      BY <2>2, <3>4
  <2>3. CASE samples[i] \notin kept
    <3>1. p[i] = p[i - 1]
      BY <2>1, <2>3
    <3>2. (\E j \in 1 .. i : samples[j] \in kept) <=> \E j \in 1 .. i - 1 : samples[j] \in kept
      BY <2>3
    <3> QED
      BY <1>4, <3>1, <3>2
  <2> QED
    BY <2>2, <2>3
<1>5. n \in T
  <2> HIDE DEF T
  <2>1. \A i \in 0 .. n : i \in T
    BY <1>2, <1>3, <1>4, UpTo
  <2> QED
    BY <1>2, <2>1
<1> QED
  BY <1>1, <1>5

Joins(a, b, e) == Append(a \o b, e) = a \o Append(b, e)

LEMMA AppendAfter ==
    ASSUME NEW S, NEW a \in Seq(S), NEW b \in Seq(S), NEW e \in S
    PROVE  Joins(a, b, e)
<1> DEFINE left == Append(a \o b, e)
           right == a \o Append(b, e)
<1>1. left \in Seq(S) /\ right \in Seq(S) /\ Len(left) = Len(right)
  OBVIOUS
<1>2. ASSUME NEW i \in 1 .. Len(left) PROVE left[i] = right[i]
  OBVIOUS
<1> HIDE DEF left, right
<1>3. left = right
  BY <1>1, <1>2, SeqEqual
<1> QED
  BY <1>3 DEF left, right, Joins

\* What is picked of two sequences, one after the other, is picked of each.
LEMMA PickedOfBoth ==
    ASSUME NEW S, NEW a \in Seq(S), NEW b \in Seq(S), NEW kept
    PROVE  Picked(a \o b, kept) = Picked(a, kept) \o Picked(b, kept)
<1> DEFINE both == a \o b
           m == Len(a)
           n == Len(b)
           K == Seq(S \cap kept)
<1>1. /\ both \in Seq(S) /\ m \in Nat /\ n \in Nat /\ Len(both) = m + n
      /\ \A i \in 1 .. m : both[i] = a[i]
      /\ \A i \in 1 .. n : both[m + i] = b[i] /\ b[i] \in S
  OBVIOUS
<1>2. PICK p \in [0 .. m -> K] : Picks(p, a, kept) /\ Picked(a, kept) = p[m]
  BY PickedIs
<1>3. PICK q \in [0 .. n -> K] : Picks(q, b, kept) /\ Picked(b, kept) = q[n]
  BY PickedIs
<1>4. PICK r \in [0 .. m + n -> K] : Picks(r, both, kept) /\ Picked(both, kept) = r[m + n]
  <2> HIDE DEF both
  <2>1. PICK r \in [0 .. Len(both) -> K] : Picks(r, both, kept) /\ Picked(both, kept) = r[Len(both)]
    BY <1>1, PickedIs
  <2> QED
    BY <1>1, <2>1
<1> HIDE DEF K, m, n, both
<1>5. r[m] = p[m]
  <2> DEFINE T == {i \in 0 .. m : r[i] = p[i]}
  <2>1. 0 \in T
    BY <1>1, <1>2, <1>4 DEF Picks
  <2>2. ASSUME NEW i \in 1 .. m, i - 1 \in T PROVE i \in T
    <3>1. i \in 1 .. m + n /\ both[i] = a[i]
      BY <1>1
    <3>2. p[i] = IF a[i] \in kept THEN Append(p[i - 1], a[i]) ELSE p[i - 1]
      BY <1>2 DEF Picks, m
    <3>3. r[i] = IF both[i] \in kept THEN Append(r[i - 1], both[i]) ELSE r[i - 1]
      BY <1>1, <1>4, <3>1 DEF Picks
    <3>4. r[i - 1] = p[i - 1]
      BY <2>2
    <3>5. CASE a[i] \in kept
      <4>1. r[i] = Append(r[i - 1], a[i]) /\ p[i] = Append(p[i - 1], a[i])
        BY <3>1, <3>2, <3>3, <3>5, Zenon
      <4>2. r[i] = p[i]
        BY <3>4, <4>1, Zenon
      <4> QED
        BY <1>1, <4>2
    <3>6. CASE a[i] \notin kept
      <4>1. r[i] = r[i - 1] /\ p[i] = p[i - 1]
        BY <3>1, <3>2, <3>3, <3>6, Zenon
      <4>2. r[i] = p[i]
        BY <3>4, <4>1, Zenon
      <4> QED
        BY <1>1, <4>2
    <3> QED
      BY <3>5, <3>6
  <2> HIDE DEF T
  <2>3. \A i \in 0 .. m : i \in T
    BY <1>1, <2>1, <2>2, UpTo
  <2> QED
    BY <1>1, <2>3 DEF T
<1>6. r[m + n] = p[m] \o q[n]
  <2> DEFINE T == {i \in 0 .. n : r[m + i] = p[m] \o q[i]}
  <2>1. 0 \in T
    <3>1. q[0] = <<>> /\ p[m] \in Seq(S \cap kept)
      BY <1>1, <1>2, <1>3 DEF Picks, K
    <3>2. m + 0 = m /\ p[m] \o <<>> = p[m]
      BY <1>1, <3>1
    <3> QED
      BY <1>1, <1>5, <3>1, <3>2
  <2>2. ASSUME NEW i \in 1 .. n, i - 1 \in T PROVE i \in T
    <3>0. i \in 0 .. n
      BY <1>1
    <3>1. /\ m + i \in 1 .. m + n /\ both[m + i] = b[i] /\ b[i] \in S
          /\ (m + i) - 1 = m + (i - 1) /\ i - 1 \in 0 .. n /\ m \in 0 .. m
      BY <1>1
    <3>2. q[i] = IF b[i] \in kept THEN Append(q[i - 1], b[i]) ELSE q[i - 1]
      BY <1>3 DEF Picks, n
    <3>3. r[m + i] = IF both[m + i] \in kept THEN Append(r[(m + i) - 1], both[m + i]) ELSE r[(m + i) - 1]
      BY <1>1, <1>4, <3>1 DEF Picks
    <3>4. r[m + (i - 1)] = p[m] \o q[i - 1]
      BY <2>2
    <3>5. p[m] \in Seq(S \cap kept) /\ q[i - 1] \in Seq(S \cap kept)
      BY <1>2, <1>3, <3>1 DEF K
    <3>6. CASE b[i] \in kept
      <4>1. r[m + i] = Append(p[m] \o q[i - 1], b[i]) /\ q[i] = Append(q[i - 1], b[i])
        BY <3>1, <3>2, <3>3, <3>4, <3>6, Zenon
      <4>2. b[i] \in S \cap kept
        BY <3>1, <3>6
      <4>3. Append(p[m] \o q[i - 1], b[i]) = p[m] \o Append(q[i - 1], b[i])
        <5> DEFINE W == S \cap kept
                   x == p[m]
                   y == q[i - 1]
                   e == b[i]
        <5>1. x \in Seq(W) /\ y \in Seq(W) /\ e \in W
          BY <3>5, <4>2
        <5> HIDE DEF W, x, y, e
        <5>2. Joins(x, y, e)
          BY <5>1, AppendAfter
        <5> QED
          BY <5>2, Zenon DEF Joins, x, y, e
      <4>4. r[m + i] = p[m] \o q[i]
        BY <4>1, <4>3, Zenon
      <4> QED
        BY <3>0, <4>4
    <3>7. CASE b[i] \notin kept
      <4>1. r[m + i] = p[m] \o q[i - 1] /\ q[i] = q[i - 1]
        BY <3>1, <3>2, <3>3, <3>4, <3>7, Zenon
      <4>2. r[m + i] = p[m] \o q[i]
        BY <4>1, Zenon
      <4> QED
        BY <3>0, <4>2
    <3> QED
      BY <3>6, <3>7
  <2> HIDE DEF T
  <2>3. \A i \in 0 .. n : i \in T
    BY <1>1, <2>1, <2>2, UpTo
  <2>4. n \in T
    BY <1>1, <2>3
  <2> QED
    BY <2>4 DEF T
<1> QED
  BY <1>2, <1>3, <1>4, <1>5, <1>6 DEF both

SampleType == [metric : Metrics, value : Int \cup {NaN}]
DwellType == [frequency : Nat, samples : Seq(SampleType)]

TakesAt(u, i, f, dwells) ==
    u[i] = IF dwells[i].frequency = f THEN u[i - 1] \o dwells[i].samples ELSE u[i - 1]

Takes(u, f, dwells) == u[0] = <<>> /\ \A i \in 1 .. Len(dwells) : TakesAt(u, i, f, dwells)

LEMMA TakenIs ==
    ASSUME NEW f, NEW dwells \in Seq(DwellType)
    PROVE  \E u \in [0 .. Len(dwells) -> Seq(SampleType)] :
              Takes(u, f, dwells) /\ TakenOn(f, dwells) = u[Len(dwells)]
<1> DEFINE n == Len(dwells)
           K == Seq(SampleType)
           Steps(u) == u = [i \in 0 .. Len(dwells) |->
                              IF i = 0 THEN <<>>
                              ELSE IF dwells[i].frequency = f THEN u[i - 1] \o dwells[i].samples
                                   ELSE u[i - 1]]
           upTo == CHOOSE u : Steps(u)
           step == [p \in (1 .. n) \X K |->
                      IF dwells[p[1]].frequency = f THEN p[2] \o dwells[p[1]].samples ELSE p[2]]
<1>1. n \in Nat /\ <<>> \in K
  OBVIOUS
<1>2. ASSUME NEW i \in 1 .. n, NEW q \in K
      PROVE  (IF dwells[i].frequency = f THEN q \o dwells[i].samples ELSE q) \in K
  <2>1. dwells[i] \in DwellType
    OBVIOUS
  <2>2. dwells[i].samples \in K
    BY <2>1 DEF DwellType
  <2> QED
    BY <2>2
<1>3. step \in [(1 .. n) \X K -> K]
  <2>1. \A p \in (1 .. n) \X K :
            (IF dwells[p[1]].frequency = f THEN p[2] \o dwells[p[1]].samples ELSE p[2]) \in K
    <3> HIDE DEF n, K
    <3> QED
      BY <1>2
  <2> HIDE DEF n, K
  <2> QED
    BY <2>1
<1>4. PICK g : Along(g, K, <<>>, n, step)
  <2> HIDE DEF step, n, K
  <2> QED
    BY <1>1, <1>3, Recursion
<1>5. Steps(g)
  <2>1. g \in [0 .. n -> K] /\ g[0] = <<>>
    BY <1>4 DEF Along
  <2>2. ASSUME NEW i \in 1 .. n
        PROVE  g[i] = IF dwells[i].frequency = f THEN g[i - 1] \o dwells[i].samples ELSE g[i - 1]
    <3>1. g[i] = step[<<i, g[i - 1]>>]
      BY <1>4, Zenon DEF Along
    <3> HIDE DEF K
    <3>2. <<i, g[i - 1]>> \in (1 .. n) \X K
      <4>1. i - 1 \in 0 .. n
        BY <1>1
      <4>2. g[i - 1] \in K
        BY <2>1, <4>1, Zenon
      <4> QED
        BY <4>2
    <3> QED
      BY <3>1, <3>2
  <2> HIDE DEF K
  <2>3. \A i \in 0 .. n :
            g[i] = IF i = 0 THEN <<>>
                   ELSE IF dwells[i].frequency = f THEN g[i - 1] \o dwells[i].samples ELSE g[i - 1]
    BY <1>1, <2>1, <2>2
  <2>4. g = [i \in 0 .. n |-> g[i]]
    BY <2>1
  <2> QED
    BY <2>3, <2>4, Zenon
<1>6. Steps(upTo)
  <2> HIDE DEF Steps
  <2> QED
    BY <1>5
<1>7. TakenOn(f, dwells) = upTo[n]
  BY DEF TakenOn
<1> HIDE DEF upTo, K
<1>8. upTo = [i \in 0 .. n |-> upTo[i]] /\ upTo[0] = <<>>
  BY <1>6
<1>9. ASSUME NEW i \in 1 .. n
      PROVE  upTo[i] = IF dwells[i].frequency = f THEN upTo[i - 1] \o dwells[i].samples ELSE upTo[i - 1]
  <2>1. i \in 0 .. n /\ i # 0
    BY <1>1
  <2>2. upTo[i] = IF i = 0 THEN <<>>
                  ELSE IF dwells[i].frequency = f THEN upTo[i - 1] \o dwells[i].samples ELSE upTo[i - 1]
    BY <1>6, <2>1, Zenon
  <2> QED
    BY <2>1, <2>2
<1>10. \A i \in 0 .. n : upTo[i] \in K
  <2> DEFINE T == {i \in 0 .. n : upTo[i] \in K}
  <2>1. 0 \in T
    BY <1>1, <1>8
  <2>2. ASSUME NEW i \in 1 .. n, i - 1 \in T PROVE i \in T
    <3>1. upTo[i - 1] \in K
      BY <2>2
    <3>2. upTo[i] \in K
      BY <1>2, <1>9, <3>1
    <3> QED
      BY <3>2
  <2> HIDE DEF T
  <2>3. \A i \in 0 .. n : i \in T
    BY <1>1, <2>1, <2>2, UpTo
  <2> QED
    BY <2>3 DEF T
<1>11. upTo \in [0 .. n -> K]
  BY <1>8, <1>10
<1> QED
  BY <1>7, <1>8, <1>9, <1>11 DEF K, Takes, TakesAt

\* What was taken on a channel grows by the samples of its own dwells.
LEMMA TakenAfter ==
    ASSUME NEW f, NEW dwells \in Seq(DwellType), NEW d \in DwellType
    PROVE  /\ TakenOn(f, dwells) \in Seq(SampleType)
           /\ TakenOn(f, Append(dwells, d)) =
                IF d.frequency = f THEN TakenOn(f, dwells) \o d.samples ELSE TakenOn(f, dwells)
<1> DEFINE n == Len(dwells)
           more == Append(dwells, d)
           K == Seq(SampleType)
<1>1. /\ n \in Nat /\ more \in Seq(DwellType) /\ Len(more) = n + 1 /\ more[n + 1] = d
      /\ \A i \in 1 .. n : more[i] = dwells[i]
  OBVIOUS
<1>2. PICK u \in [0 .. n -> K] :
        Takes(u, f, dwells) /\ TakenOn(f, dwells) = u[n]
  BY TakenIs
<1>3. PICK v \in [0 .. n + 1 -> K] :
        Takes(v, f, more) /\ TakenOn(f, more) = v[n + 1]
  <2> HIDE DEF more, n, K
  <2>1. \E v \in [0 .. Len(more) -> Seq(SampleType)] :
              Takes(v, f, more) /\ TakenOn(f, more) = v[Len(more)]
    BY <1>1, TakenIs
  <2> QED
    BY <1>1, <2>1 DEF K
<1> HIDE DEF n, K, more
<1>4. v[n] = u[n]
  <2> DEFINE T == {i \in 0 .. n : v[i] = u[i]}
  <2>1. 0 \in T
    BY <1>1, <1>2, <1>3 DEF Takes
  <2>2. ASSUME NEW i \in 1 .. n, i - 1 \in T PROVE i \in T
    <3>1. i \in 0 .. n /\ i \in 1 .. n + 1 /\ more[i] = dwells[i] /\ v[i - 1] = u[i - 1]
      BY <1>1, <2>2
    <3>2. TakesAt(u, i, f, dwells) /\ TakesAt(v, i, f, more)
      BY <1>1, <1>2, <1>3, <3>1 DEF Takes, n
    <3>3. v[i] = u[i]
      BY <3>1, <3>2, Zenon DEF TakesAt
    <3> QED
      BY <3>1, <3>3
  <2> HIDE DEF T
  <2>3. \A i \in 0 .. n : i \in T
    BY <1>1, <2>1, <2>2, UpTo
  <2> QED
    BY <1>1, <2>3 DEF T
<1>5. v[n + 1] = IF d.frequency = f THEN u[n] \o d.samples ELSE u[n]
  <2>1. n + 1 \in 1 .. n + 1 /\ (n + 1) - 1 = n
    BY <1>1
  <2>2. TakesAt(v, n + 1, f, more)
    BY <1>1, <1>3, <2>1 DEF Takes
  <2> QED
    BY <1>1, <1>4, <2>1, <2>2, Zenon DEF TakesAt
<1>6. u[n] \in K
  BY <1>1, <1>2
<1> QED
  BY <1>2, <1>3, <1>5, <1>6 DEF K, more

LEMMA NothingTaken == ASSUME NEW f PROVE TakenOn(f, <<>>) = <<>>
<1>1. <<>> \in Seq(DwellType) /\ Len(<<>>) = 0
  OBVIOUS
<1>2. PICK u \in [0 .. Len(<<>>) -> Seq(SampleType)] : Takes(u, f, <<>>) /\ TakenOn(f, <<>>) = u[Len(<<>>)]
  BY <1>1, TakenIs
<1> QED
  BY <1>1, <1>2 DEF Takes

-----------------------------------------------------------------------------
(* Sorted values.                                                            *)

\* Among any of the values there is a greatest one.
LEMMA Topmost ==
    ASSUME NEW values \in Seq(Int), NEW J \in SUBSET (1 .. Len(values)), J # {}
    PROVE  \E i \in J : \A j \in J : values[j] <= values[i]
<1> DEFINE n == Len(values)
           upTo(m) == {j \in J : j <= m}
           T == {m \in 0 .. n :
                    upTo(m) # {} => \E i \in upTo(m) : \A j \in upTo(m) : values[j] <= values[i]}
<1>1. n \in Nat /\ \A i \in 1 .. n : values[i] \in Int
  OBVIOUS
<1>2. 0 \in T
  <2>1. \A j \in J : j \in Nat /\ j > 0
    BY <1>1
  <2>2. \A j \in J : ~(j <= 0)
    BY <2>1
  <2>3. upTo(0) = {}
    BY <2>2, Zenon
  <2> QED
    BY <1>1, <2>3
<1>3. ASSUME NEW m \in 1 .. n, m - 1 \in T PROVE m \in T
  <2> SUFFICES ASSUME upTo(m) # {}
               PROVE  \E i \in upTo(m) : \A j \in upTo(m) : values[j] <= values[i]
    OBVIOUS
  <2>1. ASSUME NEW j \in upTo(m) PROVE j \in upTo(m - 1) \/ j = m
    <3>1. j \in 1 .. n /\ m \in Nat /\ j <= m /\ j \in J
      OBVIOUS
    <3>2. j <= m - 1 \/ j = m
      BY <3>1
    <3> QED
      BY <3>1, <3>2
  <2>2. upTo(m - 1) \subseteq upTo(m)
    <3>1. ASSUME NEW j \in J, j <= m - 1 PROVE j <= m
      <4>1. j \in Nat /\ m \in Nat
        BY <1>1
      <4> QED
        BY <3>1, <4>1
    <3> QED
      BY <3>1
  <2>3. CASE upTo(m - 1) = {}
    <3>1. \A j \in upTo(m) : j = m
      BY <2>1, <2>3
    <3>2. m \in upTo(m)
      BY <3>1
    <3>3. \A j \in upTo(m) : values[j] <= values[m]
      BY <3>1, <1>1
    <3> QED
      BY <3>2, <3>3
  <2>4. CASE upTo(m - 1) # {}
    <3>1. PICK i \in upTo(m - 1) : \A j \in upTo(m - 1) : values[j] <= values[i]
      BY <1>3, <2>4
    <3>2. \A j \in upTo(m) : values[j] \in Int
      BY <1>1
    <3>3. i \in upTo(m) /\ values[i] \in Int
      BY <2>2, <3>2
    <3>4. CASE m \in J /\ values[i] < values[m]
      <4>1. m \in upTo(m) /\ values[m] \in Int
        BY <3>4, <1>1
      <4>2. ASSUME NEW j \in upTo(m) PROVE values[j] <= values[m]
        <5>1. CASE j = m
          BY <4>1, <5>1
        <5>2. CASE j \in upTo(m - 1)
          <6>1. values[j] <= values[i] /\ values[j] \in Int
            BY <3>1, <3>2, <5>2
          <6> QED
            BY <3>3, <3>4, <4>1, <6>1
        <5> QED
          BY <2>1, <5>1, <5>2
      <4> QED
        BY <4>1, <4>2
    <3>5. CASE ~(m \in J /\ values[i] < values[m])
      <4>1. ASSUME NEW j \in upTo(m) PROVE values[j] <= values[i]
        <5>1. CASE j = m
          BY <3>2, <3>3, <3>5, <5>1
        <5>2. CASE j \in upTo(m - 1)
          BY <3>1, <5>2
        <5> QED
          BY <2>1, <5>1, <5>2
      <4> QED
        BY <3>3, <4>1
    <3> QED
      BY <3>4, <3>5
  <2> QED
    BY <2>3, <2>4
<1>4. n \in T
  <2> HIDE DEF T
  <2>1. \A m \in 0 .. n : m \in T
    BY <1>1, <1>2, <1>3, UpTo
  <2> QED
    BY <1>1, <2>1
<1>5. upTo(n) = J
  <2>1. \A j \in J : j <= n
    BY <1>1
  <2> QED
    BY <2>1
<1> QED
  BY <1>4, <1>5

\* And a least one.
LEMMA Bottommost ==
    ASSUME NEW values \in Seq(Int), NEW J \in SUBSET (1 .. Len(values)), J # {}
    PROVE  \E i \in J : \A j \in J : values[i] <= values[j]
<1> DEFINE turned == [i \in 1 .. Len(values) |-> 0 - values[i]]
<1>1. \A i \in 1 .. Len(values) : values[i] \in Int /\ turned[i] = 0 - values[i]
  OBVIOUS
<1>2. turned \in Seq(Int) /\ Len(turned) = Len(values)
  <2>1. Len(values) \in Nat /\ turned \in [1 .. Len(values) -> Int]
    BY <1>1
  <2> HIDE DEF turned
  <2>2. turned \in Seq(Int) /\ DOMAIN turned = 1 .. Len(values)
    BY <2>1, SeqDef
  <2> QED
    BY <2>1, <2>2, LenProperties
<1> HIDE DEF turned
<1>3. PICK i \in J : \A j \in J : turned[j] <= turned[i]
  BY <1>2, Topmost
<1>4. ASSUME NEW j \in J PROVE values[i] <= values[j]
  <2>1. turned[j] <= turned[i]
    BY <1>3
  <2> QED
    BY <2>1, <1>1
<1> QED
  BY <1>4

LEMMA Extremes ==
    ASSUME NEW values \in Seq(Int), values # <<>>
    PROVE  /\ Min(Range(values)) \in Range(values) /\ Max(Range(values)) \in Range(values)
           /\ \A i \in 1 .. Len(values) : Min(Range(values)) <= values[i] /\ values[i] <= Max(Range(values))
<1> DEFINE R == Range(values)
           n == Len(values)
<1>1. /\ R = {values[i] : i \in 1 .. n} /\ 1 .. n # {} /\ n \in Nat
  <2>1. DOMAIN values = 1 .. n /\ n \in Nat
    OBVIOUS
  <2>2. n # 0
    OBVIOUS
  <2>3. 1 \in 1 .. n
    BY <2>1, <2>2
  <2> HIDE DEF n
  <2> QED
    BY <2>1, <2>3, Zenon DEF Range
<1>2. \E x \in R : \A y \in R : x <= y
  <2>1. PICK i \in 1 .. n : \A j \in 1 .. n : values[i] <= values[j]
    BY <1>1, Bottommost
  <2> HIDE DEF R
  <2>2. values[i] \in R /\ \A y \in R : values[i] <= y
    BY <1>1, <2>1
  <2> QED
    BY <2>2
<1>3. \E x \in R : \A y \in R : x >= y
  <2>1. PICK i \in 1 .. n : \A j \in 1 .. n : values[j] <= values[i]
    BY <1>1, Topmost
  <2> HIDE DEF R
  <2>2. values[i] \in R /\ \A j \in 1 .. n : values[i] >= values[j]
    BY <1>1, <2>1
  <2>3. \A y \in R : values[i] >= y
    BY <1>1, <2>2
  <2> QED
    BY <2>2, <2>3
<1>4. R \subseteq Int
  BY <1>1
<1> HIDE DEF R
<1>5. Min(R) \in R /\ \A y \in R : Min(R) <= y
  BY <1>2 DEF Min
<1>6. Max(R) \in R /\ \A y \in R : Max(R) >= y
  BY <1>3 DEF Max
<1>7. \A i \in 1 .. n : values[i] \in R
  BY <1>1
<1>8. \A i \in 1 .. n : Min(R) <= values[i] /\ values[i] <= Max(R)
  BY <1>4, <1>5, <1>6, <1>7
<1> QED
  BY <1>5, <1>6, <1>8 DEF R

Below(values, v) == {i \in DOMAIN values : values[i] < v}
NotAbove(values, v) == {i \in DOMAIN values : values[i] <= v}

LEMMA CountsAreFinite ==
    ASSUME NEW values \in Seq(Int), NEW K, K \subseteq 1 .. Len(values), NEW L, L \subseteq K
    PROVE  /\ Cardinality(K) \in Nat /\ Cardinality(L) \in Nat
           /\ Cardinality(L) <= Cardinality(K)
<1>1. IsFiniteSet(1 .. Len(values))
  BY FS_Interval
<1>2. IsFiniteSet(K)
  BY <1>1, FS_Subset
<1> QED
  BY <1>2, FS_Subset, FS_CardinalityType

\* There is a k-th value, for every k up to their number.
LEMMA InOrderIs ==
    ASSUME NEW values \in Seq(Int), NEW k \in 1 .. Len(values)
    PROVE  /\ InOrder(values, k) \in Range(values)
           /\ Cardinality(Below(values, InOrder(values, k))) < k
           /\ k <= Cardinality(NotAbove(values, InOrder(values, k)))
<1> DEFINE n == Len(values)
           count(i) == Cardinality(NotAbove(values, values[i]))
           enough == {i \in 1 .. n : k <= count(i)}
<1>1. n \in Nat /\ DOMAIN values = 1 .. n /\ \A i \in 1 .. n : values[i] \in Int
  OBVIOUS
<1>2. enough # {}
  <2>1. PICK i \in 1 .. n : \A j \in 1 .. n : values[j] <= values[i]
    <3>1. 1 .. n # {}
      OBVIOUS
    <3> QED
      BY <3>1, Topmost
  <2>2. NotAbove(values, values[i]) = 1 .. n
    BY <1>1, <2>1 DEF NotAbove
  <2>3. count(i) = n
    <3>1. Cardinality(1 .. n) = n
      <4>1. Cardinality(1 .. n) = IF 1 > n THEN 0 ELSE n - 1 + 1
        <5>1. 1 \in Int /\ n \in Int
          BY <1>1
        <5> QED
          BY <5>1, FS_Interval, Zenon
      <4> QED
        BY <1>1, <4>1
    <3> QED
      BY <2>2, <3>1
  <2> QED
    BY <2>3, <1>1
<1>3. PICK i \in enough : \A j \in enough : values[i] <= values[j]
  <2>1. enough \subseteq 1 .. n
    OBVIOUS
  <2> HIDE DEF enough
  <2> QED
    BY <1>2, <2>1, Bottommost
<1> DEFINE v == values[i]
           less == Below(values, v)
<1>4. less \subseteq 1 .. n /\ v \in Int /\ v \in Range(values) /\ k <= Cardinality(NotAbove(values, v))
  BY <1>1, <1>3 DEF Below, Range
<1>5. Cardinality(less) < k
  <2>1. Cardinality(less) \in Nat
    BY <1>4, CountsAreFinite
  <2> SUFFICES ASSUME k <= Cardinality(less) PROVE FALSE
    BY <2>1, <1>1
  <2>2. less # {}
    <3> SUFFICES ASSUME less = {} PROVE FALSE
      OBVIOUS
    <3>1. Cardinality(less) = 0
      BY FS_EmptySet
    <3> HIDE DEF less
    <3> QED
      BY <3>1
  <2>3. PICK j \in less : \A l \in less : values[l] <= values[j]
    <3> HIDE DEF less
    <3> QED
      BY <1>4, <2>2, Topmost
  <2>4. less \subseteq NotAbove(values, values[j]) /\ NotAbove(values, values[j]) \subseteq 1 .. n
    BY <2>3, <1>1 DEF Below, NotAbove
  <2>5. Cardinality(less) <= count(j) /\ count(j) \in Nat
    <3> HIDE DEF less
    <3> QED
      BY <2>4, CountsAreFinite
  <2>6. j \in 1 .. n /\ values[j] < v
    BY <2>3, <1>1 DEF Below
  <2>7. j \in enough
    <3> HIDE DEF less
    <3> QED
      BY <2>1, <2>5, <2>6
  <2>8. v <= values[j]
    BY <1>3, <2>7
  <2> QED
    BY <1>1, <1>4, <2>6, <2>8
<1> DEFINE Kth(x) ==
        /\ Cardinality({l \in DOMAIN values : values[l] < x}) < k
        /\ k <= Cardinality({l \in DOMAIN values : values[l] <= x})
<1>6. Kth(v) /\ v \in Range(values)
  BY <1>4, <1>5 DEF Below, NotAbove
<1>7. InOrder(values, k) \in Range(values) /\ Kth(InOrder(values, k))
  <2>1. InOrder(values, k) = CHOOSE x \in Range(values) : Kth(x)
    BY DEF InOrder
  <2> HIDE DEF Kth, v
  <2> QED
    BY <1>6, <2>1
<1> QED
  BY <1>7 DEF Below, NotAbove

-----------------------------------------------------------------------------
(* The statistics, the window and what is sent of it.                        *)

LEMMA WindowNumbers ==
    /\ TicksPerSecond \in Nat /\ TicksPerSecond > 0 /\ Clocks \subseteq Nat
    /\ Dwells \subseteq DwellType
    /\ \A m, v : InRange(m, v) => m \in Metrics /\ v \in Int
<1>1. TicksPerSecond \in Nat /\ TicksPerSecond > 0 /\ Clocks \subseteq Nat
  BY WindowsAssumption
<1>2. Dwells \subseteq DwellType
  BY WindowsAssumption, Zenon DEF DwellType, SampleType
<1>3. ASSUME NEW m, NEW v, InRange(m, v) PROVE m \in Metrics /\ v \in Int
  BY <1>3, WindowsAssumption DEF InRange
<1> QED
  BY <1>1, <1>2, <1>3

LEMMA UsableAre == Usable \subseteq [metric : Metrics, value : Int] /\ Usable \subseteq SampleType
  BY DEF Usable, SampleType

\* The rank of p95 is one of the values, and the least that 95 of 100 do not exceed.
LEMMA RankIs ==
    ASSUME NEW count \in Nat \ {0}
    PROVE  /\ Rank(count) \in 1 .. count
           /\ \A k \in Nat : k < Rank(count) <=> 100 * k < 95 * count
  BY DEF Rank

\* The statistics of values that may be reported pass the server's checks.
LEMMA StatsPass ==
    ASSUME NEW m, NEW values \in Seq(Int), values # <<>>,
           \A i \in 1 .. Len(values) : InRange(m, values[i])
    PROVE  StatsAreValid(m, Summarize(values))
<1> DEFINE s == Summarize(values)
           n == Len(values)
           R == Range(values)
           low == Min(R)
           high == Max(R)
           parts == [i \in 1 .. n |-> (n * values[i] - Sum(values)) * (n * values[i] - Sum(values))]
<1>1. n \in Nat \ {0} /\ \A i \in 1 .. n : values[i] \in Int
  OBVIOUS
<1>2. \A v \in R : v \in Int /\ InRange(m, v)
  BY <1>1 DEF Range
<1>3. low \in R /\ high \in R /\ \A i \in 1 .. n : low <= values[i] /\ values[i] <= high
  BY Extremes
<1>4. \A v \in R : low <= v /\ v <= high
  <2> HIDE DEF low, high
  <2> QED
    BY <1>3 DEF Range
<1>5. /\ s.count = n /\ s.min = low /\ s.max = high /\ s.sum = Sum(values) /\ s.spread = Sum(parts)
      /\ s.p95 = InOrder(values, Rank(n))
      /\ s.median2 = IF n % 2 = 1 THEN 2 * InOrder(values, n \div 2 + 1)
                     ELSE InOrder(values, n \div 2) + InOrder(values, n \div 2 + 1)
  BY DEF Summarize
<1>6. low * n <= Sum(values) /\ Sum(values) <= high * n
  <2> HIDE DEF low, high
  <2>1. low \in Int /\ high \in Int
    BY <1>2, <1>3
  <2> QED
    BY <1>3, <2>1, SumBetween
<1>7. Sum(parts) >= 0
  <2>1. n \in Int /\ Sum(values) \in Int
    BY <1>1, SumType
  <2>2. ASSUME NEW i \in 1 .. n PROVE parts[i] \in Int /\ parts[i] >= 0
    <3> DEFINE x == n * values[i] - Sum(values)
    <3>1. x \in Int
      BY <1>1, <2>1
    <3>2. parts[i] = x * x
      OBVIOUS
    <3> HIDE DEF x, parts
    <3> QED
      BY <3>1, <3>2, SquareIsPositive
  <2>3. DOMAIN parts = 1 .. n /\ parts = [i \in 1 .. n |-> parts[i]]
    OBVIOUS
  <2> HIDE DEF parts
  <2>4. parts \in [1 .. n -> Int]
    BY <2>2, <2>3
  <2>5. parts \in Seq(Int) /\ Len(parts) = n
    <3> HIDE DEF n
    <3>1. n \in Nat
      BY <1>1
    <3>2. parts \in Seq(Int)
      BY <2>4, <3>1, SeqDef
    <3> QED
      BY <2>3, <3>1, <3>2, LenProperties
  <2> QED
    BY <2>2, <2>5, SumAtLeastZero
<1>8. \A k \in 1 .. n : InOrder(values, k) \in R
  BY InOrderIs
<1>9. n \div 2 + 1 \in 1 .. n /\ Rank(n) \in 1 .. n /\ (n % 2 # 1 => n \div 2 \in 1 .. n)
  BY <1>1, RankIs
<1> HIDE DEF s, n, R, low, high, parts
<1>10. s.p95 \in R
  BY <1>5, <1>8, <1>9
<1>11. 2 * low <= s.median2 /\ s.median2 <= 2 * high
  <2> DEFINE upper == InOrder(values, n \div 2 + 1)
             lower == InOrder(values, n \div 2)
  <2>1. upper \in R /\ (n % 2 # 1 => lower \in R)
    BY <1>8, <1>9
  <2>2. s.median2 = IF n % 2 = 1 THEN 2 * upper ELSE lower + upper
    BY <1>5
  <2>3. low \in Int /\ high \in Int
    BY <1>2, <1>3
  <2> HIDE DEF upper, lower
  <2> QED
    BY <1>2, <1>4, <2>1, <2>2, <2>3
<1>12. /\ s.min <= s.max /\ s.min <= s.p95 /\ s.p95 <= s.max
       /\ InRange(m, s.min) /\ InRange(m, s.max)
  BY <1>2, <1>3, <1>4, <1>5, <1>10
<1> QED
  <2>1. s.count >= 1
    BY <1>1, <1>5
  <2>2. s.min * s.count <= s.sum /\ s.sum <= s.max * s.count
    BY <1>5, <1>6, Zenon
  <2>3. 2 * s.min <= s.median2 /\ s.median2 <= 2 * s.max
    BY <1>5, <1>11, Zenon
  <2>4. s.spread >= 0
    BY <1>5, <1>7, Zenon
  <2> QED
    BY <1>12, <2>1, <2>2, <2>3, <2>4, Zenon DEF StatsAreValid, s

\* The values of one metric among usable readings.
LEMMA OfIs ==
    ASSUME NEW samples \in Seq(Usable), NEW m \in Metrics
    PROVE  /\ Of(samples, m) \in Seq(Int)
           /\ \A i \in 1 .. Len(Of(samples, m)) : InRange(m, Of(samples, m)[i])
           /\ Of(samples, m) # <<>> <=> \E i \in 1 .. Len(samples) : samples[i].metric = m
<1> DEFINE kept == [metric : {m}, value : Int]
           those == Picked(samples, kept)
           values == Of(samples, m)
<1>1. those \in Seq(Usable \cap kept)
  BY PickedType
<1>2. \A i \in 1 .. Len(samples) : samples[i] \in kept <=> samples[i].metric = m
  BY UsableAre
<1>3. those # <<>> <=> \E i \in 1 .. Len(samples) : samples[i].metric = m
  <2> HIDE DEF kept
  <2> QED
    BY <1>2, PickedIfAny
<1>4. values = [i \in DOMAIN those |-> those[i].value]
  BY DEF Of
<1> HIDE DEF values, those
<1>5. /\ DOMAIN those = 1 .. Len(those) /\ Len(those) \in Nat
      /\ \A i \in 1 .. Len(those) : those[i] \in Usable /\ those[i] \in kept
  <2> HIDE DEF kept
  <2> QED
    BY <1>1
<1>6. \A i \in 1 .. Len(those) : those[i].value \in Int /\ InRange(m, those[i].value)
  BY <1>5 DEF Usable, Reading
<1>7. values \in [1 .. Len(those) -> Int]
  BY <1>4, <1>5, <1>6
<1>8. values \in Seq(Int) /\ Len(values) = Len(those)
  BY <1>5, <1>7
<1>9. values # <<>> <=> those # <<>>
  BY <1>1, <1>8
<1> QED
  BY <1>3, <1>4, <1>5, <1>6, <1>8, <1>9 DEF values

WindowSpec == WindowInit /\ [][WindowNext]_windowVars

\* What a channel has been found to read since the window began.
UsableOn(f, dwells) == Picked(TakenOn(f, dwells), Usable)

WindowTypes == clock \in Nat /\ windowStart \in Nat /\ measured \in Seq(DwellType)

\* What the aggregator holds of a channel is what was measured of it in the window,
\* and of a channel it does not hold nothing was measured that can be used.
HeldIsMeasured ==
    /\ DOMAIN held \subseteq Nat
    /\ \A f \in Nat :
          UsableOn(f, measured) = IF f \in DOMAIN held THEN held[f] ELSE <<>>

WindowInvariant == WindowTypes /\ HeldIsMeasured

LEMMA UsableOnType ==
    ASSUME NEW f, NEW dwells \in Seq(DwellType)
    PROVE  UsableOn(f, dwells) \in Seq(Usable)
<1>1. TakenOn(f, dwells) \in Seq(SampleType)
  <2>1. PICK u \in [0 .. Len(dwells) -> Seq(SampleType)] : TakenOn(f, dwells) = u[Len(dwells)]
    BY TakenIs
  <2>2. Len(dwells) \in 0 .. Len(dwells)
    OBVIOUS
  <2> QED
    BY <2>1, <2>2
<1>2. SampleType \cap Usable = Usable
  BY UsableAre
<1>3. Picked(TakenOn(f, dwells), Usable) \in Seq(SampleType \cap Usable)
  BY <1>1, PickedType
<1> QED
  BY <1>2, <1>3 DEF UsableOn

\* Of one more dwell, the channel that was measured has what is usable of it.
LEMMA UsableAfter ==
    ASSUME NEW f, NEW dwells \in Seq(DwellType), NEW d \in DwellType
    PROVE  UsableOn(f, Append(dwells, d)) =
             IF d.frequency = f THEN UsableOn(f, dwells) \o Picked(d.samples, Usable)
             ELSE UsableOn(f, dwells)
<1>1. /\ TakenOn(f, dwells) \in Seq(SampleType)
      /\ TakenOn(f, Append(dwells, d)) =
            IF d.frequency = f THEN TakenOn(f, dwells) \o d.samples ELSE TakenOn(f, dwells)
  BY TakenAfter
<1>2. d.samples \in Seq(SampleType)
  BY DEF DwellType
<1>3. Picked(TakenOn(f, dwells) \o d.samples, Usable) =
        Picked(TakenOn(f, dwells), Usable) \o Picked(d.samples, Usable)
  BY <1>1, <1>2, PickedOfBoth
<1> QED
  BY <1>1, <1>3 DEF UsableOn

LEMMA NothingUsable == ASSUME NEW f PROVE UsableOn(f, <<>>) = <<>>
<1>1. <<>> \in Seq(SampleType) /\ Len(<<>>) = 0
  OBVIOUS
<1>2. Picked(<<>>, Usable) # <<>> <=> \E i \in 1 .. Len(<<>>) : <<>>[i] \in Usable
  BY <1>1, PickedIfAny
<1>3. 1 .. Len(<<>>) = {}
  BY <1>1
<1>4. Picked(<<>>, Usable) = <<>>
  BY <1>2, <1>3
<1> QED
  BY <1>4, NothingTaken DEF UsableOn

LEMMA WindowInitHolds == WindowInit => WindowInvariant
<1> SUFFICES ASSUME WindowInit PROVE WindowInvariant
  OBVIOUS
<1>1. clock = 0 /\ windowStart = 0 /\ held = <<>> /\ measured = <<>>
  BY DEF WindowInit
<1>2. DOMAIN held = {}
  BY <1>1
<1> QED
  BY <1>1, <1>2, NothingUsable DEF WindowInvariant, WindowTypes, HeldIsMeasured

LEMMA RecordStep ==
    ASSUME WindowInvariant, NEW d \in Dwells, Record(d)
    PROVE  WindowInvariant'
<1> DEFINE g == d.frequency
           found == Picked(d.samples, Usable)
<1>1. d \in DwellType /\ g \in Nat /\ d.samples \in Seq(SampleType)
  BY WindowNumbers DEF DwellType
<1>2. /\ held' = Recorded(held, g, d.samples) /\ measured' = Append(measured, d)
      /\ UNCHANGED <<clock, windowStart>>
  BY DEF Record
<1>3. WindowTypes'
  BY <1>1, <1>2 DEF WindowInvariant, WindowTypes
<1>4. ASSUME NEW f \in Nat
      PROVE  UsableOn(f, measured)' =
                IF g = f THEN UsableOn(f, measured) \o found ELSE UsableOn(f, measured)
  BY <1>1, <1>2, UsableAfter DEF WindowInvariant, WindowTypes
<1>5. ASSUME NEW f \in Nat PROVE UsableOn(f, measured) \o <<>> = UsableOn(f, measured)
  <2>1. UsableOn(f, measured) \in Seq(Usable)
    BY UsableOnType DEF WindowInvariant, WindowTypes
  <2> QED
    BY <2>1
<1>6. CASE d.samples = <<>>
  <2>1. found = <<>>
    <3>1. UsableOn(g, <<>>) = Picked(<<>>, Usable)
      BY NothingTaken DEF UsableOn
    <3> QED
      BY <1>6, <3>1, NothingUsable
  <2>2. held' = held
    BY <1>2, <1>6 DEF Recorded
  <2>3. \A f \in Nat : UsableOn(f, measured)' = UsableOn(f, measured)
    BY <1>4, <1>5, <2>1, Zenon
  <2> QED
    BY <1>3, <2>2, <2>3 DEF WindowInvariant, HeldIsMeasured
<1>7. CASE d.samples # <<>>
  <2>1. held' = [f \in DOMAIN held \cup {g} |->
                    (IF f \in DOMAIN held THEN held[f] ELSE <<>>) \o (IF f = g THEN found ELSE <<>>)]
    BY <1>2, <1>7 DEF Recorded
  <2>2. DOMAIN held' = DOMAIN held \cup {g}
    BY <2>1
  <2>3. ASSUME NEW f \in Nat
        PROVE  UsableOn(f, measured)' = IF f \in DOMAIN held' THEN held'[f] ELSE <<>>
    <3>1. UsableOn(f, measured) = IF f \in DOMAIN held THEN held[f] ELSE <<>>
      BY DEF WindowInvariant, HeldIsMeasured
    <3>2. CASE f = g
      <4>1. held'[f] = UsableOn(f, measured) \o found
        BY <2>1, <3>1, <3>2
      <4> QED
        BY <1>4, <2>2, <3>2, <4>1
    <3>3. CASE f # g /\ f \in DOMAIN held
      <4>1. held'[f] = UsableOn(f, measured) \o <<>>
        BY <2>1, <3>1, <3>3
      <4> QED
        BY <1>4, <1>5, <2>2, <3>3, <4>1
    <3>4. CASE f # g /\ f \notin DOMAIN held
      BY <1>4, <2>2, <3>1, <3>4
    <3> QED
      BY <3>2, <3>3, <3>4
  <2>4. DOMAIN held' \subseteq Nat
    BY <1>1, <2>2 DEF WindowInvariant, HeldIsMeasured
  <2> QED
    BY <1>3, <2>3, <2>4 DEF WindowInvariant, HeldIsMeasured
<1> QED
  BY <1>6, <1>7

LEMMA WindowStep == ASSUME WindowInvariant, [WindowNext]_windowVars PROVE WindowInvariant'
<1>1. ASSUME NEW d \in Dwells, Record(d) PROVE WindowInvariant'
  BY <1>1, RecordStep
<1>2. ASSUME NEW ticks \in Clocks, ClockMoves(ticks) PROVE WindowInvariant'
  BY <1>2, WindowNumbers DEF ClockMoves, WindowInvariant, WindowTypes, HeldIsMeasured
<1>3. CASE Close
  <2>1. held' = <<>> /\ measured' = <<>> /\ windowStart' = clock /\ clock' = clock
    BY <1>3 DEF Close
  <2>2. DOMAIN held' = {}
    BY <2>1
  <2>3. WindowTypes'
    BY <2>1 DEF WindowInvariant, WindowTypes
  <2>4. HeldIsMeasured'
    BY <2>1, <2>2, NothingUsable DEF HeldIsMeasured
  <2> QED
    BY <2>3, <2>4 DEF WindowInvariant
<1>4. CASE UNCHANGED windowVars
  BY <1>4 DEF windowVars, WindowInvariant, WindowTypes, HeldIsMeasured
<1> QED
  BY <1>1, <1>2, <1>3, <1>4 DEF WindowNext

LEMMA WindowInvariantHolds == WindowSpec => []WindowInvariant
<1>1. WindowInit => WindowInvariant
  BY WindowInitHolds
<1>2. WindowInvariant /\ [WindowNext]_windowVars => WindowInvariant'
  BY WindowStep
<1> QED
  BY <1>1, <1>2, PTL DEF WindowSpec

\* The statistics of usable readings, one entry for each of their metrics.
LEMMA ReadingsAre ==
    ASSUME NEW samples \in Seq(Usable)
    PROVE  /\ DOMAIN Readings(samples) = {samples[i].metric : i \in 1 .. Len(samples)}
           /\ \A m \in DOMAIN Readings(samples) :
                 /\ m \in Metrics /\ Of(samples, m) # <<>>
                 /\ Readings(samples)[m] = Summarize(Of(samples, m))
                 /\ StatsAreValid(m, Readings(samples)[m])
<1>1. DOMAIN samples = 1 .. Len(samples)
  OBVIOUS
<1>2. Readings(samples) = [m \in {samples[i].metric : i \in 1 .. Len(samples)} |-> Summarize(Of(samples, m))]
  BY <1>1 DEF Readings
<1>3. ASSUME NEW i \in 1 .. Len(samples) PROVE samples[i].metric \in Metrics
  <2>1. samples[i] \in Usable
    OBVIOUS
  <2> QED
    BY <2>1, UsableAre
<1>4. ASSUME NEW m \in {samples[i].metric : i \in 1 .. Len(samples)}
      PROVE  /\ m \in Metrics /\ Of(samples, m) # <<>>
             /\ Readings(samples)[m] = Summarize(Of(samples, m))
             /\ StatsAreValid(m, Readings(samples)[m])
  <2>1. m \in Metrics /\ \E i \in 1 .. Len(samples) : samples[i].metric = m
    BY <1>3
  <2>2. /\ Of(samples, m) \in Seq(Int) /\ Of(samples, m) # <<>>
        /\ \A i \in 1 .. Len(Of(samples, m)) : InRange(m, Of(samples, m)[i])
    BY <2>1, OfIs
  <2>3. Readings(samples)[m] = Summarize(Of(samples, m))
    BY <1>2
  <2> QED
    BY <2>1, <2>2, <2>3, StatsPass
<1> QED
  BY <1>2, <1>4

\* The seconds of a stamp do not fall as time passes.
LEMMA SecondsFollow ==
    ASSUME NEW a \in Nat, NEW b \in Nat, a <= b
    PROVE  Second(a) <= Second(b) /\ Second(a) \in Nat /\ Second(b) \in Nat
<1> DEFINE t == TicksPerSecond
           x == 2 * a + t
           y == 2 * b + t
           u == 2 * t
<1>1. x \in Nat /\ y \in Nat /\ x <= y /\ u \in Nat /\ u > 0
  BY WindowNumbers
<1> HIDE DEF x, y, u
<1>2. x \div u \in Nat /\ y \div u \in Nat /\ x \div u <= y \div u
  BY <1>1
<1> QED
  BY <1>2 DEF Second, x, y, u

\* A report of usable readings is refused only for the ends of its window.
LEMMA ReportPasses ==
    ASSUME NEW channels, \A f \in DOMAIN channels : channels[f] \in Seq(Usable),
           NEW start \in Nat, NEW end \in Nat,
           NEW r, r = Report(channels, start, end), r # Nothing
    PROVE  /\ IsReport(r) /\ (Accepts(r) \/ Unstorable(r))
           /\ r.start = start /\ r.end = end
           /\ DOMAIN r.channels = {f \in DOMAIN channels : channels[f] # <<>>}
           /\ \A f \in DOMAIN r.channels : r.channels[f] = Readings(channels[f])
<1> DEFINE with == {f \in DOMAIN channels : channels[f] # <<>>}
<1>1. end > start /\ with # {}
  BY DEF Report
<1>2. r = [start |-> start, end |-> end, channels |-> [f \in with |-> Readings(channels[f])]]
  BY <1>1 DEF Report
<1>3. /\ r.start = start /\ r.end = end /\ DOMAIN r.channels = with /\ "channels" \in DOMAIN r
      /\ \A f \in with : r.channels[f] = Readings(channels[f])
  BY <1>2
<1>4. ASSUME NEW f \in with
      PROVE  /\ DOMAIN r.channels[f] # {}
             /\ \A m \in DOMAIN r.channels[f] : StatsAreValid(m, r.channels[f][m])
  <2>1. channels[f] \in Seq(Usable) /\ channels[f] # <<>> /\ r.channels[f] = Readings(channels[f])
    BY <1>3
  <2>2. 1 \in 1 .. Len(channels[f])
    BY <2>1
  <2>3. DOMAIN Readings(channels[f]) = {channels[f][i].metric : i \in 1 .. Len(channels[f])}
    BY <2>1, ReadingsAre
  <2>4. channels[f][1].metric \in DOMAIN Readings(channels[f])
    BY <2>2, <2>3
  <2> QED
    BY <2>1, <2>4, ReadingsAre
<1>5. Second(start) <= Second(end) /\ Second(start) \in Nat /\ Second(end) \in Nat
  BY <1>1, SecondsFollow
<1>6. ASSUME ~Unstorable(r) PROVE Accepts(r)
  <2>1. Second(end) # Second(start) /\ ~(Seconds(end) - Seconds(start) > MaxWindowSeconds)
    BY <1>3, <1>6 DEF Unstorable
  <2>2. Second(end) > Second(start)
    BY <1>5, <2>1
  <2>3. Seconds(end) - Seconds(start) <= MaxWindowSeconds
    <3>1. Seconds(end) \in Int /\ Seconds(start) \in Int /\ MaxWindowSeconds \in Int
      BY WindowNumbers DEF Seconds, MaxWindowSeconds
    <3> QED
      BY <2>1, <3>1
  <2> HIDE DEF with
  <2> QED
    BY <1>1, <1>3, <1>4, <2>2, <2>3, Zenon DEF Accepts
<1> QED
  BY <1>3, <1>6 DEF IsReport

LEMMA HeldAreUsable == ASSUME WindowInvariant PROVE \A f \in DOMAIN held : held[f] \in Seq(Usable)
<1> SUFFICES ASSUME NEW f \in DOMAIN held PROVE held[f] \in Seq(Usable)
  OBVIOUS
<1>1. f \in Nat /\ held[f] = UsableOn(f, measured)
  BY DEF WindowInvariant, HeldIsMeasured
<1> QED
  BY <1>1, UsableOnType DEF WindowInvariant, WindowTypes

LEMMA LivePasses ==
    ASSUME NEW d \in Dwells, Record(d), message' # Nothing
    PROVE  ~IsReport(message') /\ AcceptsLive(message')
<1> DEFINE readings == Picked(d.samples, Usable)
<1>1. d.samples \in Seq(SampleType)
  BY WindowNumbers DEF DwellType
<1>2. readings \in Seq(SampleType \cap Usable)
  BY <1>1, PickedType
<1>3. readings # <<>> /\ message' = [frequency |-> d.frequency, readings |-> readings]
  BY DEF Record
<1>4. ASSUME NEW i \in DOMAIN readings PROVE Reading(readings[i])
  <2> HIDE DEF readings
  <2>1. readings[i] \in Usable
    BY <1>2
  <2> QED
    BY <2>1 DEF Usable
<1> HIDE DEF readings
<1>5. DOMAIN message' = {"frequency", "readings"} /\ message'.readings = readings
  BY <1>3
<1> QED
  BY <1>3, <1>4, <1>5 DEF IsReport, AcceptsLive

\* Whatever the radio delivers, what a node sends is taken by the server, but for
\* a report whose window is too short or too long to be stored.
THEOREM WhatIsSentIsTaken == WindowSpec => []MessagesAreTaken
<1>1. WindowInit => MessagesAreTaken
  BY DEF WindowInit, MessagesAreTaken
<1>2. WindowInvariant /\ MessagesAreTaken /\ [WindowNext]_windowVars => MessagesAreTaken'
  <2> SUFFICES ASSUME WindowInvariant, MessagesAreTaken, [WindowNext]_windowVars
               PROVE  MessagesAreTaken'
    OBVIOUS
  <2>1. ASSUME NEW d \in Dwells, Record(d) PROVE MessagesAreTaken'
    BY <2>1, LivePasses DEF MessagesAreTaken, IsReport, AcceptsLive
  <2>2. CASE Close
    <3>1. message' = Report(held, windowStart, clock)
      BY <2>2 DEF Close
    <3>2. message' # Nothing => IsReport(message') /\ (Accepts(message') \/ Unstorable(message'))
      BY <3>1, HeldAreUsable, ReportPasses DEF WindowInvariant, WindowTypes
    <3> QED
      BY <3>2 DEF MessagesAreTaken, IsReport, Accepts, Unstorable
  <2>3. CASE UNCHANGED message
    BY <2>3 DEF MessagesAreTaken, IsReport, Accepts, Unstorable, AcceptsLive
  <2> QED
    BY <2>1, <2>2, <2>3 DEF WindowNext, ClockMoves, windowVars
<1> QED
  BY <1>1, <1>2, WindowInvariantHolds, PTL DEF WindowSpec

\* p95 is the least value that 95 of 100 do not exceed.
LEMMA P95Is ==
    ASSUME NEW values \in Seq(Int), values # <<>>, NEW v \in Range(values)
    PROVE  v < Summarize(values).p95 <=> 100 * Ranked(values, v) < 95 * Len(values)
<1> DEFINE n == Len(values)
           p == InOrder(values, Rank(n))
<1>1. n \in Nat \ {0} /\ DOMAIN values = 1 .. n /\ v \in Int
  BY DEF Range
<1>2. Rank(n) \in 1 .. n /\ \A k \in Nat : k < Rank(n) <=> 100 * k < 95 * n
  BY <1>1, RankIs
<1>3. p \in Range(values) /\ Cardinality(Below(values, p)) < Rank(n) /\ Rank(n) <= Cardinality(NotAbove(values, p))
  BY <1>2, InOrderIs
<1>4. p \in Int
  BY <1>3 DEF Range
<1>5. Summarize(values).p95 = p
  BY DEF Summarize
<1>6. Ranked(values, v) = Cardinality(NotAbove(values, v))
  BY DEF Ranked, NotAbove
<1> HIDE DEF p
<1>7. /\ NotAbove(values, v) \subseteq 1 .. n /\ NotAbove(values, p) \subseteq 1 .. n
      /\ Below(values, p) \subseteq 1 .. n
  BY <1>1 DEF NotAbove, Below
<1>8. Cardinality(NotAbove(values, v)) \in Nat
  BY <1>7, CountsAreFinite
<1>9. ASSUME v < p PROVE Cardinality(NotAbove(values, v)) < Rank(n)
  <2>1. NotAbove(values, v) \subseteq Below(values, p)
    BY <1>1, <1>4, <1>9 DEF NotAbove, Below
  <2>2. /\ Cardinality(NotAbove(values, v)) <= Cardinality(Below(values, p))
        /\ Cardinality(Below(values, p)) \in Nat
    BY <1>7, <2>1, CountsAreFinite
  <2> QED
    BY <1>2, <1>3, <1>8, <2>2
<1>10. ASSUME ~(v < p) PROVE ~(Cardinality(NotAbove(values, v)) < Rank(n))
  <2>1. NotAbove(values, p) \subseteq NotAbove(values, v)
    BY <1>1, <1>4, <1>10 DEF NotAbove
  <2>2. /\ Cardinality(NotAbove(values, p)) <= Cardinality(NotAbove(values, v))
        /\ Cardinality(NotAbove(values, p)) \in Nat
    BY <1>7, <2>1, CountsAreFinite
  <2> QED
    BY <1>2, <1>3, <1>8, <2>2
<1>11. Cardinality(NotAbove(values, v)) < Rank(n) <=> 100 * Cardinality(NotAbove(values, v)) < 95 * n
  BY <1>2, <1>8
<1> QED
  BY <1>5, <1>6, <1>9, <1>10, <1>11

\* A report is of the samples of its window and of no other, none of them twice or
\* left out, and its p95 is the rank it claims to be.
THEOREM ReportsAreOfTheWindow == WindowSpec => ReportsAreOfTheirWindow
<1> DEFINE Right(f, m) ==
        LET values == Of(Picked(TakenOn(f, measured), Usable), m)
        IN  IF values = <<>>
            THEN f \in DOMAIN message'.channels => m \notin DOMAIN message'.channels[f]
            ELSE LET stats == message'.channels[f][m] IN
                 /\ stats.count = Len(values)
                 /\ stats.sum = Sum(values)
                 /\ \A v \in Range(values) :
                        v < stats.p95 <=> 100 * Ranked(values, v) < 95 * stats.count
<1>1. ASSUME WindowInvariant, Close, message' # Nothing,
             NEW f \in {measured[i].frequency : i \in DOMAIN measured}, NEW m \in Metrics
      PROVE  Right(f, m)
  <2> DEFINE mine == UsableOn(f, measured)
             values == Of(mine, m)
             stats == message'.channels[f][m]
  <2>1. f \in Nat
    <3>1. measured \in Seq(DwellType)
      BY <1>1 DEF WindowInvariant, WindowTypes
    <3>2. \A i \in DOMAIN measured : measured[i] \in DwellType
      BY <3>1
    <3> QED
      BY <3>2 DEF DwellType
  <2>2. mine \in Seq(Usable) /\ mine = IF f \in DOMAIN held THEN held[f] ELSE <<>>
    BY <1>1, <2>1, UsableOnType DEF WindowInvariant, WindowTypes, HeldIsMeasured
  <2>3. /\ DOMAIN message'.channels = {g \in DOMAIN held : held[g] # <<>>}
        /\ \A g \in DOMAIN message'.channels : message'.channels[g] = Readings(held[g])
    BY <1>1, HeldAreUsable, ReportPasses DEF Close, WindowInvariant, WindowTypes
  <2>4. f \in DOMAIN message'.channels => message'.channels[f] = Readings(mine)
    BY <2>2, <2>3
  <2>5. mine # <<>> => f \in DOMAIN message'.channels
    BY <2>2, <2>3
  <2>6. /\ values \in Seq(Int)
        /\ values # <<>> <=> \E i \in 1 .. Len(mine) : mine[i].metric = m
    <3> HIDE DEF mine
    <3> QED
      BY <2>2, OfIs
  <2>7. /\ DOMAIN Readings(mine) = {mine[i].metric : i \in 1 .. Len(mine)}
        /\ \A l \in DOMAIN Readings(mine) : Readings(mine)[l] = Summarize(Of(mine, l))
    <3> HIDE DEF mine
    <3> QED
      BY <2>2, ReadingsAre
  <2>8. values = Of(Picked(TakenOn(f, measured), Usable), m)
    BY DEF UsableOn
  <2> HIDE DEF mine
  <2>9. CASE values = <<>>
    <3>1. m \notin DOMAIN Readings(mine)
      BY <2>6, <2>7, <2>9
    <3> HIDE DEF values
    <3> QED
      BY <2>4, <2>8, <2>9, <3>1
  <2>10. CASE values # <<>>
    <3>1. m \in DOMAIN Readings(mine) /\ mine # <<>>
      BY <2>2, <2>6, <2>7, <2>10
    <3>2. stats = Summarize(values)
      BY <2>4, <2>5, <2>7, <3>1
    <3>3. Summarize(values).count = Len(values) /\ Summarize(values).sum = Sum(values)
      BY DEF Summarize
    <3>4. \A v \in Range(values) :
              v < Summarize(values).p95 <=> 100 * Ranked(values, v) < 95 * Len(values)
      <4> HIDE DEF values
      <4> QED
        BY <2>6, <2>10, P95Is
    <3> HIDE DEF values
    <3>5. /\ stats.count = Len(values) /\ stats.sum = Sum(values)
          /\ \A v \in Range(values) : v < stats.p95 <=> 100 * Ranked(values, v) < 95 * stats.count
      BY <3>2, <3>3, <3>4, Zenon
    <3> QED
      BY <2>8, <2>10, <3>5, Zenon
  <2> QED
    BY <2>9, <2>10
<1>2. WindowInvariant /\ [WindowNext]_windowVars =>
        [Close /\ message' # Nothing =>
            \A f \in {measured[i].frequency : i \in DOMAIN measured}, m \in Metrics : Right(f, m)]_windowVars
  <2> HIDE DEF Right
  <2> QED
    BY <1>1
<1> QED
  BY <1>2, WindowInvariantHolds, PTL DEF WindowSpec, ReportsAreOfTheirWindow

-----------------------------------------------------------------------------
(* Detection: for any regular day, and as many faults as there may be.      *)
(* First what a median is.                                                  *)

\* A finite set of integers has a greatest and a least member.
LEMMA EndsOf ==
    ASSUME NEW V, V \subseteq Int, V # {}, IsFiniteSet(V)
    PROVE  (\E v \in V : \A u \in V : u <= v) /\ (\E v \in V : \A u \in V : v <= u)
<1>1. PICK n \in Nat : ExistsSurjection(1 .. n, V)
  BY FS_NatSurjection
<1>2. PICK f : f \in Surjection(1 .. n, V)
  BY <1>1 DEF ExistsSurjection
<1>3. f \in [1 .. n -> V] /\ \A v \in V : \E i \in 1 .. n : f[i] = v
  BY <1>2 DEF Surjection
<1>4. f \in Seq(Int) /\ Len(f) = n
  <2>1. f \in [1 .. n -> Int]
    BY <1>3
  <2>2. f \in Seq(Int) /\ DOMAIN f = 1 .. n
    BY <2>1, SeqDef
  <2> QED
    BY <2>1, <2>2, LenProperties
<1>5. 1 .. n # {} /\ 1 .. n \in SUBSET (1 .. Len(f))
  BY <1>3, <1>4
<1>6. PICK i \in 1 .. n : \A j \in 1 .. n : f[j] <= f[i]
  BY <1>4, <1>5, Topmost
<1>7. PICK k \in 1 .. n : \A j \in 1 .. n : f[k] <= f[j]
  BY <1>4, <1>5, Bottommost
<1>8. f[i] \in V /\ f[k] \in V
  BY <1>3
<1>9. ASSUME NEW u \in V PROVE u <= f[i] /\ f[k] <= u
  <2>1. PICK j \in 1 .. n : f[j] = u
    BY <1>3
  <2> QED
    BY <1>6, <1>7, <2>1
<1> QED
  BY <1>8, <1>9

\* What a function has of a finite set is finite.
LEMMA ValuesAreFinite ==
    ASSUME NEW S, IsFiniteSet(S), NEW f, DOMAIN f = S
    PROVE  IsFiniteSet({f[b] : b \in S})
<1> DEFINE V == {f[b] : b \in S}
           g == [b \in S |-> f[b]]
<1>1. g \in [S -> V] /\ \A v \in V : \E b \in S : g[b] = v
  OBVIOUS
<1> HIDE DEF g, V
<1>2. g \in Surjection(S, V)
  BY <1>1 DEF Surjection
<1> QED
  BY <1>2, FS_Surjection DEF V

LEMMA PartsAreFinite ==
    ASSUME NEW S, IsFiniteSet(S), NEW K, K \subseteq S, NEW M, M \subseteq K
    PROVE  /\ IsFiniteSet(K) /\ Cardinality(K) \in Nat /\ Cardinality(M) \in Nat
           /\ Cardinality(M) <= Cardinality(K)
<1>1. IsFiniteSet(K)
  BY FS_Subset
<1>2. IsFiniteSet(M) /\ Cardinality(M) <= Cardinality(K)
  BY <1>1, FS_Subset
<1> QED
  BY <1>1, <1>2, FS_CardinalityType

\* There is a k-th value, for every k up to their number.
LEMMA NthOfIs ==
    ASSUME NEW S, IsFiniteSet(S), NEW f \in [S -> Int], NEW k \in Nat \ {0}, k <= Cardinality(S)
    PROVE  /\ NthOf(f, k) \in Int
           /\ Cardinality(Below(f, NthOf(f, k))) < k
           /\ k <= Cardinality(NotAbove(f, NthOf(f, k)))
<1> DEFINE V == {f[b] : b \in S}
           enough == {v \in V : k <= Cardinality(NotAbove(f, v))}
<1>1. DOMAIN f = S /\ V \subseteq Int /\ IsFiniteSet(V)
  BY ValuesAreFinite
<1>2. S # {} /\ V # {}
  <2>1. S # {}
    BY FS_EmptySet
  <2> QED
    BY <2>1
<1>3. enough # {}
  <2>1. PICK v \in V : \A u \in V : u <= v
    <3> HIDE DEF V
    <3> QED
      BY <1>1, <1>2, EndsOf
  <2>2. NotAbove(f, v) = S
    BY <1>1, <2>1 DEF NotAbove
  <2> QED
    BY <2>2
<1>4. PICK v \in enough : \A u \in enough : v <= u
  <2>1. enough \subseteq V /\ enough \subseteq Int
    BY <1>1
  <2> HIDE DEF V, enough
  <2>2. IsFiniteSet(enough)
    BY <1>1, <2>1, FS_Subset
  <2> QED
    BY <1>3, <2>1, <2>2, EndsOf
<1>5. v \in V /\ v \in Int /\ k <= Cardinality(NotAbove(f, v))
  BY <1>1, <1>4
<1> DEFINE less == Below(f, v)
<1>6. Cardinality(less) < k
  <2>1. less \subseteq S
    BY <1>1 DEF Below
  <2>2. IsFiniteSet(less) /\ Cardinality(less) \in Nat
    <3> HIDE DEF less
    <3> QED
      BY <2>1, PartsAreFinite
  <2> SUFFICES ASSUME k <= Cardinality(less) PROVE FALSE
    BY <2>2
  <2>3. less # {}
    BY FS_EmptySet
  <2> DEFINE lower == {u \in V : u < v}
  <2>4. lower # {} /\ lower \subseteq V /\ lower \subseteq Int
    BY <1>1, <2>3 DEF Below
  <2>5. PICK u \in lower : \A w \in lower : w <= u
    <3> HIDE DEF lower, V
    <3>1. IsFiniteSet(lower)
      BY <1>1, <2>4, FS_Subset
    <3> QED
      BY <2>4, <3>1, EndsOf
  <2>6. u \in V /\ u \in Int /\ u < v
    BY <2>4, <2>5
  <2>7. less \subseteq NotAbove(f, u)
    <3> SUFFICES ASSUME NEW b \in S, f[b] < v PROVE f[b] <= u
      BY <1>1 DEF Below, NotAbove
    <3>1. f[b] \in lower
      OBVIOUS
    <3> QED
      BY <2>5, <3>1
  <2>8. NotAbove(f, u) \subseteq S
    BY <1>1 DEF NotAbove
  <2>9. k <= Cardinality(NotAbove(f, u))
    <3> HIDE DEF less
    <3>1. Cardinality(less) <= Cardinality(NotAbove(f, u)) /\ Cardinality(NotAbove(f, u)) \in Nat
      BY <2>7, <2>8, PartsAreFinite
    <3> QED
      BY <2>2, <3>1
  <2>10. u \in enough
    BY <2>6, <2>9
  <2>11. v <= u
    BY <1>4, <2>10
  <2> QED
    BY <1>5, <2>6, <2>11
<1>7. NthOf(f, k) \in V /\ Cardinality(Below(f, NthOf(f, k))) < k /\ k <= Cardinality(NotAbove(f, NthOf(f, k)))
  <2> DEFINE kth(w) == Cardinality(Below(f, w)) < k /\ k <= Cardinality(NotAbove(f, w))
  <2>1. NthOf(f, k) = CHOOSE w \in V : kth(w)
    BY <1>1, Zenon DEF NthOf, Below, NotAbove
  <2>2. kth(v) /\ v \in V
    BY <1>5, <1>6
  <2>3. \E w \in V : kth(w)
    BY <2>2
  <2> HIDE DEF kth, V
  <2>4. kth(CHOOSE w \in V : kth(w)) /\ (CHOOSE w \in V : kth(w)) \in V
    BY <2>3, Zenon
  <2>5. NthOf(f, k) \in V /\ kth(NthOf(f, k))
    BY <2>1, <2>4, Zenon
  <2> QED
    BY <2>5, Zenon DEF kth
<1> QED
  BY <1>1, <1>7

\* A value in the middle is within what more than half of the values are within.
LEMMA MedianWithin ==
    ASSUME NEW S, IsFiniteSet(S), NEW f \in [S -> Int], NEW G, G \subseteq S,
           2 * Cardinality(G) > Cardinality(S),
           NEW low \in Int, NEW high \in Int, \A b \in G : low <= f[b] /\ f[b] <= high
    PROVE  Median2Of(f) \in Int /\ 2 * low <= Median2Of(f) /\ Median2Of(f) <= 2 * high
<1> DEFINE n == Cardinality(S)
           g == Cardinality(G)
<1>1. n \in Nat /\ g \in Nat /\ g <= n /\ DOMAIN f = S
  BY PartsAreFinite
<1>2. Cardinality(S \ G) = n - g
  <2>1. S \cap G = G
    OBVIOUS
  <2> QED
    BY <2>1, FS_Difference
<1>3. ASSUME NEW k \in Nat \ {0}, n - g < k, k <= g
      PROVE  NthOf(f, k) \in Int /\ low <= NthOf(f, k) /\ NthOf(f, k) <= high
  <2> DEFINE v == NthOf(f, k)
  <2>1. v \in Int /\ Cardinality(Below(f, v)) < k /\ k <= Cardinality(NotAbove(f, v))
    <3>1. k <= n
      BY <1>1, <1>3
    <3> QED
      BY <3>1, NthOfIs
  <2> HIDE DEF v
  <2>2. \A b \in S : f[b] \in Int
    OBVIOUS
  <2>3. low <= v
    <3> SUFFICES ASSUME v < low PROVE FALSE
      BY <2>1
    <3>1. NotAbove(f, v) \subseteq S \ G
      <4> SUFFICES ASSUME NEW b \in G, f[b] <= v PROVE FALSE
        BY <1>1 DEF NotAbove
      <4>1. low <= f[b] /\ f[b] \in Int
        BY <2>2
      <4> QED
        BY <4>1, <2>1
    <3>2. Cardinality(NotAbove(f, v)) <= Cardinality(S \ G) /\ Cardinality(NotAbove(f, v)) \in Nat
      <4>1. S \ G \subseteq S
        OBVIOUS
      <4> QED
        BY <3>1, <4>1, PartsAreFinite
    <3> QED
      BY <1>1, <1>2, <1>3, <2>1, <3>2
  <2>4. v <= high
    <3> SUFFICES ASSUME high < v PROVE FALSE
      BY <2>1
    <3>1. G \subseteq Below(f, v) /\ Below(f, v) \subseteq S
      <4> SUFFICES ASSUME NEW b \in G PROVE f[b] < v
        BY <1>1 DEF Below
      <4>1. f[b] <= high /\ f[b] \in Int
        BY <2>2
      <4> QED
        BY <4>1, <2>1
    <3>2. g <= Cardinality(Below(f, v)) /\ Cardinality(Below(f, v)) \in Nat
      BY <3>1, PartsAreFinite
    <3> QED
      BY <1>1, <1>3, <2>1, <3>2
  <2> QED
    BY <2>1, <2>3, <2>4 DEF v
<1> DEFINE lower == (n + 1) \div 2
           upper == n \div 2 + 1
<1>4. /\ lower \in Nat \ {0} /\ n - g < lower /\ lower <= g
      /\ upper \in Nat \ {0} /\ n - g < upper /\ upper <= g
  <2> HIDE DEF n, g
  <2> QED
    BY <1>1 DEF n, g
<1>5. Median2Of(f) = NthOf(f, lower) + NthOf(f, upper)
  BY <1>1, Zenon DEF Median2Of
<1> HIDE DEF lower, upper, n, g
<1>6. /\ NthOf(f, lower) \in Int /\ low <= NthOf(f, lower) /\ NthOf(f, lower) <= high
      /\ NthOf(f, upper) \in Int /\ low <= NthOf(f, upper) /\ NthOf(f, upper) <= high
  BY <1>3, <1>4
<1> QED
  BY <1>5, <1>6

-----------------------------------------------------------------------------
(* Detection: the hours, and what an hour reads.                            *)

LEMMA DetectionNumbers ==
    /\ WindowsPerHour \in Nat \ {0} /\ MinBuckets \in Nat \ {0} /\ Consecutive \in Nat \ {0}
    /\ BaselineDays \in Nat /\ Fault \in Int /\ Hours \in Nat \ {0}
    /\ \A h \in 1 .. Hours : Usual[h] \in Int
  BY DetectionAssumption DEF Hours

LEMMA OnlyQuotient ==
    ASSUME NEW x \in Int, NEW c \in Nat \ {0}, NEW q \in Int, NEW r \in Nat, r < c, x = q * c + r
    PROVE  x \div c = q
<1> DEFINE p == x \div c
<1>1. p \in Int /\ x = p * c + (x % c) /\ p * c \in Int /\ q * c \in Int
  BY RemainderIs
<1>2. x % c = r
  BY OnlyRemainder
<1> HIDE DEF p
<1>3. p * c = q * c
  BY <1>1, <1>2
<1>4. ASSUME NEW m \in Int, NEW k \in Int, m < k, m * c = k * c PROVE FALSE
  <2>1. (m + 1) * c <= k * c
    BY <1>4, Products
  <2>2. (m + 1) * c = m * c + c /\ m * c \in Int /\ k * c \in Int
    OBVIOUS
  <2> QED
    BY <1>4, <2>1, <2>2
<1>5. p = q
  BY <1>1, <1>3, <1>4
<1> QED
  BY <1>5 DEF p

\* The windows of an hour are those from a multiple on.
LEMMA HourIs ==
    ASSUME NEW now \in Nat
    PROVE  LET q == now \div WindowsPerHour IN
           /\ q \in Nat /\ HourStart(now) = q * WindowsPerHour /\ HourStart(now) \in Nat
           /\ HourStart(now) <= now /\ now < HourStart(now) + WindowsPerHour
<1> DEFINE c == WindowsPerHour
           q == now \div c
<1>1. c \in Nat \ {0}
  BY DetectionNumbers
<1>2. now % c \in Nat /\ now % c < c /\ q \in Int /\ q * c \in Int /\ now = q * c + (now % c)
  BY <1>1, RemainderIs
<1>3. HourStart(now) = now - (now % c)
  BY DEF HourStart
<1> HIDE DEF c, q
<1>4. q >= 0
  <2> SUFFICES ASSUME q < 0 PROVE FALSE
    BY <1>2
  <2>1. (q + 1) * c <= 0 * c /\ 0 * c = 0
    BY <1>1, <1>2, Products
  <2>2. (q + 1) * c = q * c + c
    BY <1>1, <1>2
  <2> QED
    BY <1>1, <1>2, <2>1, <2>2
<1>5. HourStart(now) = q * c /\ HourStart(now) <= now /\ now < HourStart(now) + c
  BY <1>1, <1>2, <1>3
<1>6. q * c \in Nat
  BY <1>1, <1>2, <1>4, Products
<1> QED
  BY <1>2, <1>4, <1>5, <1>6 DEF c, q

LEMMA HourWithin ==
    ASSUME NEW q \in Nat, NEW t \in Int, q * WindowsPerHour <= t, t < q * WindowsPerHour + WindowsPerHour
    PROVE  HourOf(t) = q % Hours
<1> DEFINE c == WindowsPerHour
           r == t - q * c
<1>1. c \in Nat \ {0}
  BY DetectionNumbers
<1>2. q * c \in Int
  BY <1>1
<1>3. r \in Nat /\ r < c /\ t = q * c + r
  BY <1>1, <1>2
<1>4. t \div c = q
  <2> HIDE DEF c, r
  <2> QED
    BY <1>1, <1>3, OnlyQuotient
<1> QED
  BY <1>4, Zenon DEF HourOf

\* A bucket of the baseline is an hour with the number of the present one.
LEMMA BucketIs ==
    ASSUME NEW now \in Nat, NEW b \in BaselineBuckets(now), b >= 0
    PROVE  b \in Nat /\ \A i \in 0 .. WindowsPerHour - 1 : HourOf(b + i) = HourOf(HourStart(now))
<1> DEFINE c == WindowsPerHour
           h == Hours
           q == now \div WindowsPerHour
<1>1. c \in Nat \ {0} /\ h \in Nat \ {0} /\ BaselineDays \in Nat
  BY DetectionNumbers
<1>2. q \in Nat /\ HourStart(now) = q * c /\ HourStart(now) \in Nat
  BY HourIs
<1>3. PICK back \in 0 .. BaselineDays : b = HourStart(now) - back * Day
  BY DEF BaselineBuckets
<1>4. Day = h * c
  BY DEF Day
<1> HIDE DEF c, h, q
<1> DEFINE p == q - back * h
<1>5. back \in Nat /\ p \in Int /\ back * h \in Nat
  BY <1>1, <1>2
<1>6. b = p * c /\ b \in Int
  <2>1. b = q * c - back * (h * c)
    BY <1>2, <1>3, <1>4
  <2> QED
    BY <1>1, <1>2, <1>5, <2>1
<1>7. p >= 0
  <2> HIDE DEF p
  <2> SUFFICES ASSUME p < 0 PROVE FALSE
    BY <1>5
  <2>1. (p + 1) * c <= 0 * c /\ 0 * c = 0
    BY <1>1, <1>5, Products
  <2>2. (p + 1) * c = p * c + c /\ p * c \in Int
    BY <1>1, <1>5
  <2> QED
    BY <1>1, <1>6, <2>1, <2>2
<1>8. p % h = q % h
  <2> DEFINE k == q \div h
  <2>1. q % h \in Nat /\ q % h < h /\ k \in Int /\ q = k * h + (q % h)
    BY <1>1, <1>2, RemainderIs
  <2> HIDE DEF k
  <2>2. p = (k - back) * h + (q % h) /\ k - back \in Int
    <3>1. k * h \in Int /\ (k - back) * h = k * h - back * h
      BY <1>1, <1>5, <2>1
    <3> QED
      BY <1>2, <1>5, <2>1, <3>1
  <2> HIDE DEF p
  <2> QED
    BY <1>1, <1>5, <2>1, <2>2, OnlyRemainder
<1>9. HourOf(HourStart(now)) = q % h
  <2>1. q * WindowsPerHour <= HourStart(now) /\ HourStart(now) < q * WindowsPerHour + WindowsPerHour
    BY <1>1, <1>2 DEF c
  <2> QED
    BY <1>2, <2>1, HourWithin DEF h
<1>10. ASSUME NEW i \in 0 .. c - 1 PROVE HourOf(b + i) = q % h
  <2> HIDE DEF p
  <2>1. p \in Nat /\ b + i \in Int /\ p * WindowsPerHour <= b + i /\ b + i < p * WindowsPerHour + WindowsPerHour
    BY <1>1, <1>5, <1>6, <1>7, <1>10 DEF c
  <2>2. HourOf(b + i) = p % h
    BY <2>1, HourWithin DEF h
  <2> QED
    BY <1>8, <2>2
<1> QED
  BY <1>1, <1>2, <1>6, <1>7, <1>9, <1>10, Products DEF c

\* So is what is left of the present hour.
LEMMA ThisHour ==
    ASSUME NEW now \in Nat, NEW t \in Int, HourStart(now) <= t, t < now
    PROVE  HourOf(t) = HourOf(HourStart(now))
<1> DEFINE q == now \div WindowsPerHour
<1>1. q \in Nat /\ HourStart(now) = q * WindowsPerHour /\ HourStart(now) \in Nat
      /\ now < HourStart(now) + WindowsPerHour /\ WindowsPerHour \in Nat \ {0}
  BY HourIs, DetectionNumbers
<1> HIDE DEF q
<1>2. q * WindowsPerHour <= t /\ t < q * WindowsPerHour + WindowsPerHour
      /\ q * WindowsPerHour <= HourStart(now) /\ HourStart(now) < q * WindowsPerHour + WindowsPerHour
  BY <1>1
<1>3. HourOf(t) = q % Hours /\ HourOf(HourStart(now)) = q % Hours
  BY <1>1, <1>2, HourWithin
<1> QED
  BY <1>3

\* What is read at an hour.
LEMMA UsualIs == ASSUME NEW t \in Int PROVE Usual[HourOf(t) + 1] \in Int /\ RegularAt(t) \in Int
<1>1. WindowsPerHour \in Nat \ {0} /\ Hours \in Nat \ {0}
  BY DetectionNumbers
<1>2. t \div WindowsPerHour \in Int
  BY <1>1, RemainderIs
<1>3. HourOf(t) \in Nat /\ HourOf(t) < Hours
  BY <1>1, <1>2, RemainderIs DEF HourOf
<1>4. HourOf(t) + 1 \in 1 .. Hours
  BY <1>1, <1>3
<1>5. Usual[HourOf(t) + 1] \in Int
  BY <1>4, DetectionNumbers
<1> QED
  BY <1>5 DEF RegularAt

\* The sum of the windows of an hour.
LEMMA RollupSumIs ==
    ASSUME means \in Seq(Int), NEW b \in Nat, b + WindowsPerHour <= Now
    PROVE  \E t \in [0 .. WindowsPerHour -> Int] :
              /\ t[0] = 0 /\ \A i \in 1 .. WindowsPerHour : t[i] = t[i - 1] + MeanAt(b + i - 1)
              /\ RollupSum(b) = t[WindowsPerHour]
<1> DEFINE c == WindowsPerHour
           Totals(t) == t = [i \in 0 .. c |-> IF i = 0 THEN 0 ELSE t[i - 1] + MeanAt(b + i - 1)]
           total == CHOOSE t : Totals(t)
           step == [p \in (1 .. c) \X Int |-> p[2] + MeanAt(b + p[1] - 1)]
<1>1. c \in Nat \ {0} /\ 0 \in Int
  BY DetectionNumbers
<1>2. ASSUME NEW i \in 1 .. c PROVE MeanAt(b + i - 1) \in Int
  <2>1. Now \in Nat /\ Now = Len(means) /\ b + c <= Now
    BY DEF Now
  <2> HIDE DEF c
  <2>2. b + i - 1 + 1 \in 1 .. Len(means)
    BY <1>1, <2>1
  <2>3. means[b + i - 1 + 1] \in Int
    BY <2>2
  <2> QED
    BY <2>3 DEF MeanAt
<1>3. step \in [(1 .. c) \X Int -> Int]
  <2> SUFFICES ASSUME NEW p \in (1 .. c) \X Int PROVE p[2] + MeanAt(b + p[1] - 1) \in Int
    BY Zenon
  <2>1. p[1] \in 1 .. c /\ p[2] \in Int
    OBVIOUS
  <2> HIDE DEF c
  <2>2. MeanAt(b + p[1] - 1) \in Int
    BY <2>1, <1>2
  <2> QED
    BY <2>1, <2>2
<1>4. PICK f : Along(f, Int, 0, c, step)
  <2> HIDE DEF step, c
  <2> QED
    BY <1>1, <1>3, Recursion
<1>5. Totals(f)
  <2>1. f \in [0 .. c -> Int] /\ f[0] = 0
    BY <1>4 DEF Along
  <2>2. ASSUME NEW i \in 1 .. c PROVE f[i] = f[i - 1] + MeanAt(b + i - 1)
    <3>1. f[i] = step[<<i, f[i - 1]>>]
      BY <1>4, Zenon DEF Along
    <3>2. f[i - 1] \in Int
      BY <1>1, <2>1
    <3> QED
      BY <3>1, <3>2
  <2> HIDE DEF step, c
  <2> QED
    BY <2>1, <2>2
<1>6. Totals(total)
  <2> HIDE DEF Totals
  <2> QED
    BY <1>5
<1>7. RollupSum(b) = total[c]
  BY DEF RollupSum
<1> HIDE DEF total
<1>8. /\ total = [i \in 0 .. c |-> total[i]] /\ total[0] = 0
      /\ \A i \in 1 .. c : total[i] = total[i - 1] + MeanAt(b + i - 1)
  <2>1. total = [i \in 0 .. c |-> IF i = 0 THEN 0 ELSE total[i - 1] + MeanAt(b + i - 1)]
    BY <1>6
  <2> HIDE DEF c
  <2>2. 0 \in 0 .. c /\ \A i \in 1 .. c : i \in 0 .. c /\ i # 0
    BY <1>1
  <2>3. total = [i \in 0 .. c |-> total[i]]
    BY <2>1
  <2>4. \A i \in 0 .. c : total[i] = IF i = 0 THEN 0 ELSE total[i - 1] + MeanAt(b + i - 1)
    BY <2>1, Zenon
  <2> QED
    BY <2>2, <2>3, <2>4
<1>9. \A i \in 0 .. c : total[i] \in Int
  <2> DEFINE T == {i \in 0 .. c : total[i] \in Int}
  <2>1. 0 \in T
    BY <1>1, <1>8
  <2>2. ASSUME NEW i \in 1 .. c, i - 1 \in T PROVE i \in T
    <3>1. total[i - 1] \in Int /\ total[i] = total[i - 1] + MeanAt(b + i - 1)
      BY <1>8, <2>2
    <3>2. MeanAt(b + i - 1) \in Int
      BY <1>2
    <3>3. i \in 0 .. c
      BY <1>1
    <3> QED
      BY <3>1, <3>2, <3>3
  <2> HIDE DEF T
  <2>3. \A i \in 0 .. c : i \in T
    BY <1>1, <2>1, <2>2, UpTo
  <2> QED
    BY <2>3 DEF T
<1> HIDE DEF c
<1>10. total \in [0 .. c -> Int]
  BY <1>8, <1>9
<1> QED
  BY <1>7, <1>8, <1>10 DEF c

LEMMA RollupSumType ==
    ASSUME means \in Seq(Int), NEW b \in Nat, b + WindowsPerHour <= Now
    PROVE  RollupSum(b) \in Int
<1>1. PICK t \in [0 .. WindowsPerHour -> Int] : RollupSum(b) = t[WindowsPerHour]
  BY RollupSumIs
<1>2. WindowsPerHour \in 0 .. WindowsPerHour
  BY DetectionNumbers
<1> QED
  BY <1>1, <1>2

\* An hour without a fault: every second window reads one more.
Usually(b, usual) == \A i \in 0 .. WindowsPerHour - 1 : MeanAt(b + i) = usual + ((b + i) % 2)

LEMMA RegularSum ==
    ASSUME means \in Seq(Int), NEW b \in Nat, b + WindowsPerHour <= Now, NEW usual \in Int, Usually(b, usual)
    PROVE  /\ WindowsPerHour * usual \in Int
           /\ 2 * RollupSum(b) - 2 * (WindowsPerHour * usual) \in WindowsPerHour - 1 .. WindowsPerHour + 1
<1> DEFINE c == WindowsPerHour
           T == {i \in 0 .. c : \E m \in Int : m = i * usual}
<1>1. c \in Nat \ {0}
  BY DetectionNumbers
<1>2. PICK t \in [0 .. c -> Int] :
          /\ t[0] = 0 /\ \A i \in 1 .. c : t[i] = t[i - 1] + MeanAt(b + i - 1)
          /\ RollupSum(b) = t[c]
  BY RollupSumIs
<1> DEFINE good == {i \in 0 .. c : t[i] = i * usual + ((i + (b % 2)) \div 2)}
<1>3. 0 \in good
  <2>1. (0 + (b % 2)) \div 2 = 0 /\ 0 * usual = 0
    OBVIOUS
  <2> QED
    BY <1>1, <1>2, <2>1
<1>4. ASSUME NEW i \in 1 .. c, i - 1 \in good PROVE i \in good
  <2>1. i - 1 \in 0 .. c - 1 /\ b + i - 1 = b + (i - 1) /\ i \in Nat
    BY <1>1
  <2>2. MeanAt(b + (i - 1)) = usual + ((b + (i - 1)) % 2)
    BY <2>1 DEF Usually
  <2>3. t[i] = t[i - 1] + (usual + ((b + (i - 1)) % 2))
    BY <1>2, <1>4, <2>1, <2>2
  <2>4. t[i - 1] = (i - 1) * usual + ((i - 1 + (b % 2)) \div 2)
    BY <1>4
  <2>5. ((i - 1 + (b % 2)) \div 2) + ((b + (i - 1)) % 2) = (i + (b % 2)) \div 2
    BY <2>1
  <2>6. (i - 1) * usual + usual = i * usual /\ i * usual \in Int /\ (i - 1) * usual \in Int
    BY <2>1
  <2>7. /\ (i - 1 + (b % 2)) \div 2 \in Int /\ (b + (i - 1)) % 2 \in Int
        /\ (i + (b % 2)) \div 2 \in Int
    BY <2>1
  <2>8. t[i] = i * usual + ((i + (b % 2)) \div 2)
    BY <2>3, <2>4, <2>5, <2>6, <2>7
  <2> QED
    BY <1>1, <2>8
<1>5. c \in good
  <2> HIDE DEF good
  <2>1. \A i \in 0 .. c : i \in good
    BY <1>1, <1>3, <1>4, UpTo
  <2> QED
    BY <1>1, <2>1
<1>6. RollupSum(b) = c * usual + ((c + (b % 2)) \div 2)
  BY <1>2, <1>5
<1> HIDE DEF c
<1>7. c * usual \in Int
  BY <1>1
<1>8. (c + (b % 2)) \div 2 \in Int /\ 2 * ((c + (b % 2)) \div 2) \in c - 1 .. c + 1
  BY <1>1
<1> QED
  BY <1>6, <1>7, <1>8 DEF c

\* The range of an hour is a number, and one if there is no fault in it.
LEMMA RollupRangeIs ==
    ASSUME means \in Seq(Int), NEW b \in Nat, b + WindowsPerHour <= Now
    PROVE  /\ RollupRange(b) \in Int
           /\ \A usual \in Int : Usually(b, usual) /\ WindowsPerHour >= 2 => RollupRange(b) = 1
<1> DEFINE c == WindowsPerHour
           I == InHour(b)
           R == {x - y : x, y \in I}
           widest(r) == \A x, y \in I : x - y <= r
<1>1. c \in Nat \ {0}
  BY DetectionNumbers
<1>2. I = {MeanAt(b + i) : i \in 0 .. c - 1}
  BY DEF InHour
<1>3. ASSUME NEW i \in 0 .. c - 1 PROVE MeanAt(b + i) \in Int
  <2>1. Now \in Nat /\ Now = Len(means) /\ b + c <= Now
    BY DEF Now
  <2> HIDE DEF c
  <2>2. b + i + 1 \in 1 .. Len(means)
    BY <1>1, <2>1
  <2>3. means[b + i + 1] \in Int
    BY <2>2
  <2> QED
    BY <2>3 DEF MeanAt
<1>4. I \subseteq Int /\ I # {} /\ IsFiniteSet(I)
  <2> DEFINE g == [i \in 0 .. c - 1 |-> MeanAt(b + i)]
  <2>1. DOMAIN g = 0 .. c - 1 /\ I = {g[i] : i \in 0 .. c - 1}
    BY <1>2
  <2>2. IsFiniteSet(0 .. c - 1)
    BY <1>1, FS_Interval
  <2>3. 0 \in 0 .. c - 1
    BY <1>1
  <2>4. IsFiniteSet({g[i] : i \in 0 .. c - 1})
    <3> HIDE DEF g, c
    <3> QED
      BY <2>1, <2>2, ValuesAreFinite
  <2>5. I \subseteq Int /\ I # {}
    BY <1>2, <1>3, <2>3
  <2> QED
    BY <2>1, <2>4, <2>5
<1>5. RollupRange(b) = CHOOSE r \in R : widest(r)
  BY DEF RollupRange
<1> HIDE DEF I
<1>6. \E r \in R : widest(r)
  <2>1. PICK x \in I : \A u \in I : u <= x
    BY <1>4, EndsOf
  <2>2. PICK y \in I : \A u \in I : y <= u
    BY <1>4, EndsOf
  <2>3. x - y \in R
    OBVIOUS
  <2>4. widest(x - y)
    BY <1>4, <2>1, <2>2
  <2> QED
    BY <2>3, <2>4
<1>7. RollupRange(b) \in R /\ widest(RollupRange(b))
  <2> HIDE DEF R, widest
  <2> QED
    BY <1>5, <1>6, Zenon
<1>8. RollupRange(b) \in Int
  BY <1>4, <1>7
<1>9. ASSUME NEW usual \in Int, Usually(b, usual), c >= 2 PROVE RollupRange(b) = 1
  <2>1. \A i \in 0 .. c - 1 : MeanAt(b + i) = usual + ((b + i) % 2)
    BY <1>9 DEF Usually
  <2>2. I \subseteq {usual, usual + 1}
    <3> SUFFICES ASSUME NEW i \in 0 .. c - 1 PROVE MeanAt(b + i) \in {usual, usual + 1}
      BY <1>2
    <3>1. (b + i) % 2 \in {0, 1}
      OBVIOUS
    <3> QED
      BY <2>1, <3>1
  <2>3. usual \in I /\ usual + 1 \in I
    <3>1. 0 \in 0 .. c - 1 /\ 1 \in 0 .. c - 1
      BY <1>1, <1>9
    <3>2. /\ MeanAt(b + 0) = usual + ((b + 0) % 2) /\ MeanAt(b + 1) = usual + ((b + 1) % 2)
          /\ MeanAt(b + 0) \in I /\ MeanAt(b + 1) \in I
      BY <1>2, <2>1, <3>1
    <3>3. {(b + 0) % 2, (b + 1) % 2} = {0, 1}
      OBVIOUS
    <3>4. CASE (b + 0) % 2 = 0
      BY <3>2, <3>3, <3>4
    <3>5. CASE (b + 0) % 2 = 1
      BY <3>2, <3>3, <3>5
    <3> QED
      BY <3>3, <3>4, <3>5
  <2>4. (usual + 1) - usual <= RollupRange(b)
    BY <1>7, <2>3
  <2>5. RollupRange(b) <= 1
    BY <1>7, <2>2
  <2> QED
    BY <1>8, <2>4, <2>5
<1> QED
  BY <1>8, <1>9 DEF c

-----------------------------------------------------------------------------
(* Detection: a pass.                                                        *)

\* What is measured is what is usual, or that less the fault.
DetectionInvariant ==
    /\ means \in Seq(Int)
    /\ \A t \in 0 .. Now - 1 : MeanAt(t) \in {RegularAt(t), RegularAt(t) - Fault}

LEMMA DetectionInitHolds == DetectionInit => DetectionInvariant
<1> SUFFICES ASSUME DetectionInit PROVE DetectionInvariant
  OBVIOUS
<1>1. means = <<>> /\ Now = 0
  BY DEF DetectionInit, Now
<1> QED
  BY <1>1 DEF DetectionInvariant

LEMMA DetectionStep == ASSUME DetectionInvariant, [DetectionNext]_detectionVars PROVE DetectionInvariant'
<1>1. CASE means' = means
  BY <1>1 DEF DetectionInvariant, Now, MeanAt
<1>2. CASE WindowComes
  <2> DEFINE v == RegularAt(Now) - (IF faulty.on THEN Fault ELSE 0)
  <2>1. means \in Seq(Int) /\ Now = Len(means) /\ Now \in Nat /\ Fault \in Int
    BY DetectionNumbers DEF DetectionInvariant, Now
  <2>2. RegularAt(Now) \in Int
    BY <2>1, UsualIs
  <2>3. v \in Int /\ v \in {RegularAt(Now), RegularAt(Now) - Fault}
    BY <2>1, <2>2
  <2>4. means' = Append(means, v)
    BY <1>2 DEF WindowComes
  <2> HIDE DEF v
  <2>5. means' \in Seq(Int) /\ Now' = Now + 1 /\ means'[Now + 1] = v
        /\ \A i \in 1 .. Now : means'[i] = means[i]
    BY <2>1, <2>3, <2>4 DEF Now
  <2>6. ASSUME NEW t \in 0 .. Now' - 1
        PROVE  means'[t + 1] \in {RegularAt(t), RegularAt(t) - Fault}
    <3>1. CASE t = Now
      BY <2>3, <2>5, <3>1
    <3>2. CASE t # Now
      <4>1. t \in 0 .. Now - 1 /\ t + 1 \in 1 .. Now
        BY <2>1, <2>5, <3>2
      <4>2. means[t + 1] \in {RegularAt(t), RegularAt(t) - Fault}
        BY <4>1 DEF DetectionInvariant, MeanAt
      <4> QED
        BY <2>5, <4>1, <4>2
    <3> QED
      BY <3>1, <3>2
  <2> QED
    BY <2>5, <2>6, Zenon DEF DetectionInvariant, MeanAt
<1> QED
  BY <1>1, <1>2 DEF DetectionNext, Examine, Switch, detectionVars

LEMMA DetectionInvariantHolds == DetectionSpec => []DetectionInvariant
<1>1. DetectionInit => DetectionInvariant
  BY DetectionInitHolds
<1>2. DetectionInvariant /\ [DetectionNext]_detectionVars => DetectionInvariant'
  BY DetectionStep
<1> QED
  BY <1>1, <1>2, PTL DEF DetectionSpec

\* The buckets of a pass that are rolled up, and those of them without a fault.
RolledNow == Rolled(BaselineBuckets(Now))
RegularNow == {b \in RolledNow : \A i \in 0 .. WindowsPerHour - 1 : Regular(b + i)}
UsualNow == Usual[HourOf(HourStart(Now)) + 1]

LEMMA RolledAre ==
    ASSUME DetectionInvariant
    PROVE  /\ Now \in Nat /\ UsualNow \in Int /\ IsFiniteSet(RolledNow)
           /\ \A b \in RolledNow : /\ b \in Nat /\ b + WindowsPerHour <= Now
                                   /\ RollupSum(b) \in Int /\ RollupRange(b) \in Int
           /\ RegularNow \subseteq RolledNow
           /\ \A b \in RegularNow : Usually(b, UsualNow)
<1>1. means \in Seq(Int) /\ Now \in Nat
  BY DEF DetectionInvariant, Now
<1>2. HourStart(Now) \in Nat /\ WindowsPerHour \in Nat \ {0} /\ BaselineDays \in Nat
  BY <1>1, HourIs, DetectionNumbers
<1>3. UsualNow \in Int
  BY <1>2, UsualIs DEF UsualNow
<1>4. IsFiniteSet(RolledNow)
  <2> DEFINE g == [back \in 0 .. BaselineDays |-> HourStart(Now) - back * Day]
             V == {g[back] : back \in 0 .. BaselineDays}
  <2>1. DOMAIN g = 0 .. BaselineDays /\ RolledNow \subseteq V
    BY DEF RolledNow, Rolled, BaselineBuckets
  <2>2. IsFiniteSet(0 .. BaselineDays)
    BY <1>2, FS_Interval
  <2>3. IsFiniteSet(V)
    <3> HIDE DEF g
    <3> QED
      BY <2>1, <2>2, ValuesAreFinite
  <2> HIDE DEF V
  <2> QED
    BY <2>1, <2>3, FS_Subset
<1>5. ASSUME NEW b \in RolledNow
      PROVE  /\ b \in Nat /\ b + WindowsPerHour <= Now
             /\ \A i \in 0 .. WindowsPerHour - 1 : HourOf(b + i) = HourOf(HourStart(Now))
  <2>1. b \in BaselineBuckets(Now) /\ b >= 0 /\ b + WindowsPerHour <= Now
    BY DEF RolledNow, Rolled
  <2> QED
    BY <1>1, <2>1, BucketIs
<1>6. ASSUME NEW b \in RolledNow PROVE RollupSum(b) \in Int /\ RollupRange(b) \in Int
  BY <1>1, <1>5, RollupSumType, RollupRangeIs
<1>7. ASSUME NEW b \in RegularNow PROVE Usually(b, UsualNow)
  <2> SUFFICES ASSUME NEW i \in 0 .. WindowsPerHour - 1
               PROVE  MeanAt(b + i) = UsualNow + ((b + i) % 2)
    BY DEF Usually
  <2>1. b \in RolledNow /\ MeanAt(b + i) = RegularAt(b + i)
    BY DEF RegularNow, Regular
  <2>2. HourOf(b + i) = HourOf(HourStart(Now))
    BY <1>5, <2>1
  <2> QED
    BY <2>1, <2>2, Zenon DEF RegularAt, UsualNow
<1> QED
  BY <1>1, <1>3, <1>4, <1>5, <1>6, <1>7 DEF RegularNow

\* The baseline, if most of its hours were without a fault: within one of what is
\* usual, whatever the others read.
LEMMA BaselineIsUsual ==
    ASSUME DetectionInvariant, WindowsPerHour >= 2, 2 * Cardinality(RegularNow) > Cardinality(RolledNow)
    PROVE  LET baseline == FoldBaseline(RolledNow)
               product == WindowsPerHour * UsualNow
           IN  /\ product \in Int
               /\ baseline.center2 \in Int /\ baseline.between4 \in 0 .. 4 /\ baseline.within2 = 2
               /\ baseline.center2 - 2 * product \in WindowsPerHour - 1 .. WindowsPerHour + 1
<1> DEFINE S == RolledNow
           G == RegularNow
           c == WindowsPerHour
           m == c * UsualNow
           sums == [b \in S |-> RollupSum(b)]
           center2 == Median2Of(sums)
           away == [b \in S |-> Distance(2 * RollupSum(b), center2)]
           ranges == [b \in S |-> RollupRange(b)]
           baseline == FoldBaseline(S)
<1>1. /\ Now \in Nat /\ UsualNow \in Int /\ IsFiniteSet(S) /\ means \in Seq(Int)
      /\ \A b \in S : b \in Nat /\ b + c <= Now /\ RollupSum(b) \in Int /\ RollupRange(b) \in Int
      /\ G \subseteq S /\ \A b \in G : Usually(b, UsualNow)
      /\ 2 * Cardinality(G) > Cardinality(S)
  BY RolledAre DEF DetectionInvariant
<1>2. c \in Nat \ {0} /\ c >= 2 /\ m \in Int
  BY <1>1, DetectionNumbers
<1>3. baseline = [center2 |-> center2, between4 |-> Median2Of(away), within2 |-> Median2Of(ranges)]
  BY Zenon DEF FoldBaseline
<1>4. \A b \in G : 2 * RollupSum(b) - 2 * m \in c - 1 .. c + 1 /\ RollupRange(b) = 1
  <2> SUFFICES ASSUME NEW b \in G
               PROVE  2 * RollupSum(b) - 2 * m \in c - 1 .. c + 1 /\ RollupRange(b) = 1
    OBVIOUS
  <2>1. b \in Nat /\ b + WindowsPerHour <= Now /\ Usually(b, UsualNow) /\ WindowsPerHour >= 2
    BY <1>1, <1>2
  <2> QED
    BY <1>1, <2>1, RegularSum, RollupRangeIs
<1> HIDE DEF m, baseline
<1>5. center2 \in Int /\ center2 - 2 * m \in c - 1 .. c + 1
  <2> DEFINE low == m + c \div 2
             high == m + (c + 1) \div 2
  <2>1. low \in Int /\ high \in Int /\ 2 * low >= 2 * m + c - 1 /\ 2 * high <= 2 * m + c + 1
    BY <1>2
  <2>2. sums \in [S -> Int]
    BY <1>1
  <2>3. \A b \in G : low <= sums[b] /\ sums[b] <= high
    <3> SUFFICES ASSUME NEW b \in G PROVE low <= sums[b] /\ sums[b] <= high
      OBVIOUS
    <3>1. b \in S /\ sums[b] = RollupSum(b) /\ RollupSum(b) \in Int
      BY <1>1
    <3>2. 2 * RollupSum(b) - 2 * m \in c - 1 .. c + 1
      BY <1>4
    <3> QED
      BY <1>2, <3>1, <3>2
  <2> HIDE DEF sums, low, high, S, G
  <2>4. Median2Of(sums) \in Int /\ 2 * low <= Median2Of(sums) /\ Median2Of(sums) <= 2 * high
    BY <1>1, <2>1, <2>2, <2>3, MedianWithin
  <2> HIDE DEF c
  <2> QED
    BY <1>2, <2>1, <2>4
<1> HIDE DEF center2
<1>6. Median2Of(away) \in 0 .. 4
  <2>1. away \in [S -> Int]
    <3> SUFFICES ASSUME NEW b \in S PROVE Distance(2 * RollupSum(b), center2) \in Int
      OBVIOUS
    <3>1. RollupSum(b) \in Int
      BY <1>1
    <3> QED
      BY <1>5, <3>1 DEF Distance
  <2>2. \A b \in G : 0 <= away[b] /\ away[b] <= 2
    <3> SUFFICES ASSUME NEW b \in G PROVE 0 <= away[b] /\ away[b] <= 2
      OBVIOUS
    <3>1. b \in S /\ RollupSum(b) \in Int /\ away[b] = Distance(2 * RollupSum(b), center2)
      BY <1>1
    <3>2. 2 * RollupSum(b) - 2 * m \in c - 1 .. c + 1
      BY <1>4
    <3> HIDE DEF away, c
    <3> QED
      BY <1>2, <1>5, <3>1, <3>2 DEF Distance
  <2> DEFINE low == 0
             high == 2
  <2>3. low \in Int /\ high \in Int /\ \A b \in G : low <= away[b] /\ away[b] <= high
    BY <2>2
  <2> HIDE DEF away, S, G, low, high
  <2>4. Median2Of(away) \in Int /\ 2 * low <= Median2Of(away) /\ Median2Of(away) <= 2 * high
    BY <1>1, <2>1, <2>3, MedianWithin
  <2> QED
    BY <2>4 DEF low, high
<1>7. Median2Of(ranges) = 2
  <2>1. ranges \in [S -> Int]
    BY <1>1
  <2>2. \A b \in G : 1 <= ranges[b] /\ ranges[b] <= 1
    BY <1>1, <1>4
  <2> DEFINE one == 1
  <2>3. one \in Int /\ \A b \in G : one <= ranges[b] /\ ranges[b] <= one
    BY <2>2
  <2> HIDE DEF ranges, S, G, one
  <2>4. Median2Of(ranges) \in Int /\ 2 * one <= Median2Of(ranges) /\ Median2Of(ranges) <= 2 * one
    BY <1>1, <2>1, <2>3, MedianWithin
  <2> QED
    BY <2>4 DEF one
<1>8. baseline.center2 = center2 /\ baseline.between4 = Median2Of(away) /\ baseline.within2 = Median2Of(ranges)
  BY <1>3
<1> HIDE DEF away, ranges
<1> QED
  BY <1>2, <1>5, <1>6, <1>7, <1>8 DEF m, baseline

\* What is near the usual value is not outside, and what is far below it is.
LEMMA NearIsInside ==
    ASSUME NEW c \in Nat, c >= 2, NEW d \in Int, d >= 0 - (2 * c + 2), d <= 2 * c + 2, NEW between \in Int
    PROVE  ~(10 * Square(d) > 16 * (22 * Square(between) + 10 * Square(2 * c * 2)))
<1>1. Square(between) \in Int /\ Square(between) >= 0
  BY SquareIsPositive DEF Square
<1> DEFINE e == 4 * c
<1>2. e \in Nat /\ d <= e /\ 0 - e <= d /\ 2 * c * 2 = e
  OBVIOUS
<1> HIDE DEF e
<1>3. d * d <= e * e /\ d * d \in Int /\ e * e \in Int
  <2>1. (e - d) * (e + d) >= 0
    <3>1. e - d \in Nat /\ e + d \in Nat
      BY <1>2
    <3> QED
      BY <3>1
  <2>2. (e - d) * (e + d) = e * e - d * d /\ d * d \in Int /\ e * e \in Int
    BY <1>2
  <2> QED
    BY <2>1, <2>2
<1>4. Square(d) = d * d /\ Square(2 * c * 2) = e * e
  BY <1>2, Zenon DEF Square
<1> DEFINE x == d * d
           y == e * e
           z == Square(between)
<1>5. x \in Int /\ y \in Int /\ z \in Int /\ x <= y /\ 0 <= z /\ 0 <= y
  BY <1>1, <1>3, <1>2
<1> HIDE DEF x, y, z
<1>6. ~(10 * x > 16 * (22 * z + 10 * y))
  BY <1>5
<1> QED
  BY <1>4, <1>6, Zenon DEF x, y, z

LEMMA FarIsOutside ==
    ASSUME NEW c \in Nat, c >= 2, NEW d \in Int, d <= 0 - 21 * c, NEW between \in 0 .. 4
    PROVE  10 * Square(d) > 16 * (22 * Square(between) + 10 * Square(2 * c * 2))
<1> DEFINE y == c * c
           x == d * d
           z == between * between
<1>1. y \in Int /\ y >= 4
  <2>1. 2 * c <= c * c /\ c * c \in Int
    BY Products
  <2> QED
    BY <2>1
<1>2. x \in Int /\ x >= 441 * y
  <2>1. 0 - d \in Nat /\ 21 * c \in Nat /\ 21 * c <= 0 - d
    OBVIOUS
  <2>2. (21 * c) * (21 * c) <= (0 - d) * (21 * c) /\ (21 * c) * (0 - d) <= (0 - d) * (0 - d)
    BY <2>1, Products
  <2>3. (21 * c) * (21 * c) = 441 * y /\ (0 - d) * (0 - d) = x /\ (0 - d) * (21 * c) = (21 * c) * (0 - d)
    OBVIOUS
  <2>4. x \in Int /\ (0 - d) * (21 * c) \in Int
    BY <2>1
  <2> HIDE DEF x, y
  <2> QED
    BY <1>1, <2>2, <2>3, <2>4
<1>3. z \in Int /\ z <= 16
  <2>1. between \in {0, 1, 2, 3, 4}
    OBVIOUS
  <2> QED
    BY <2>1
<1>4. Square(2 * c * 2) = 16 * y
  BY DEF Square
<1>5. Square(d) = x /\ Square(between) = z
  BY Zenon DEF Square
<1> HIDE DEF x, y, z
<1>6. 10 * x > 16 * (22 * z + 10 * (16 * y))
  BY <1>1, <1>2, <1>3
<1> QED
  BY <1>4, <1>5, <1>6, Zenon

\* The distance of a value that is off by so much from a usual baseline.
LEMMA DistanceIs ==
    ASSUME NEW c \in Nat, c >= 2, NEW usual \in Int, NEW off \in Int, NEW center2 \in Int,
           center2 - 2 * (c * usual) \in c - 1 .. c + 1
    PROVE  LET d == 4 * c * (usual + off) - 2 * center2
           IN  /\ d \in Int
               /\ 4 * (c * off) - 2 * c - 2 <= d /\ d <= 4 * (c * off) - 2 * c + 2
<1> DEFINE m == c * usual
           o == c * off
<1>1. 4 * c * (usual + off) = 4 * m + 4 * o /\ m \in Int /\ o \in Int
  OBVIOUS
<1> HIDE DEF m, o
<1>2. center2 - 2 * m \in c - 1 .. c + 1
  BY DEF m
<1>3. (4 * m + 4 * o) - 2 * center2 \in Int
      /\ 4 * o - 2 * c - 2 <= (4 * m + 4 * o) - 2 * center2
      /\ (4 * m + 4 * o) - 2 * center2 <= 4 * o - 2 * c + 2
  BY <1>1, <1>2
<1> QED
  BY <1>1, <1>3, Zenon DEF o

\* The windows of a pass are those of a stretch of the past.
LEMMA RecentAre ==
    ASSUME Now \in Nat
    PROVE  \A t \in Recent(Now) : t \in 0 .. Now - 1
  BY DetectionNumbers DEF Recent

\* A pass as long as all days are alike.
LEMMA NothingRegularIsRaised ==
    ASSUME DetectionInvariant, WindowsPerHour >= 2, Examine PROVE OnlyTheTurnMisleads
<1> SUFFICES ASSUME verdict' # "none", \A t \in 0 .. Now - 1 : Regular(t),
                    NEW t \in Recent(Now), ~(t < HourStart(Now))
             PROVE  FALSE
  BY DEF OnlyTheTurnMisleads
<1> DEFINE c == WindowsPerHour
           baseline == FoldBaseline(RolledNow)
<1>1. /\ Now \in Nat /\ UsualNow \in Int /\ IsFiniteSet(RolledNow)
      /\ \A b \in RolledNow : b \in Nat /\ b + c <= Now
  BY RolledAre
<1>2. c \in Nat \ {0} /\ c >= 2 /\ HourStart(Now) \in Nat /\ MinBuckets \in Nat \ {0}
  BY <1>1, HourIs, DetectionNumbers
<1>3. t \in Nat /\ t < Now /\ HourStart(Now) <= t
  BY <1>1, <1>2, RecentAre
<1>4. RegularNow = RolledNow
  <2> SUFFICES ASSUME NEW b \in RolledNow, NEW i \in 0 .. WindowsPerHour - 1 PROVE Regular(b + i)
    BY DEF RegularNow
  <2>1. b + i \in 0 .. Now - 1
    BY <1>1, <1>2
  <2> QED
    BY <2>1
<1>5. ~(Cardinality(RolledNow) < MinBuckets) /\ Cardinality(RolledNow) \in Nat
  BY <1>1, FS_CardinalityType DEF Examine, RolledNow
<1>6. 2 * Cardinality(RegularNow) > Cardinality(RolledNow)
  BY <1>2, <1>4, <1>5
<1>7. /\ baseline.center2 \in Int /\ baseline.between4 \in 0 .. 4 /\ baseline.within2 = 2
      /\ baseline.center2 - 2 * (c * UsualNow) \in c - 1 .. c + 1
  BY <1>2, <1>6, BaselineIsUsual
<1>8. MeanAt(t) = UsualNow + (t % 2) /\ t % 2 \in {0, 1}
  <2>1. Regular(t) /\ t % 2 \in {0, 1}
    BY <1>1, <1>3
  <2>2. HourOf(t) = HourOf(HourStart(Now))
    BY <1>1, <1>3, ThisHour
  <2> QED
    BY <2>1, <2>2, Zenon DEF Regular, RegularAt, UsualNow
<1> HIDE DEF baseline
<1> DEFINE d == 4 * c * (UsualNow + (t % 2)) - 2 * baseline.center2
<1>9. d \in Int /\ d >= 0 - (2 * c + 2) /\ d <= 2 * c + 2
  <2>1. t % 2 \in Int
    BY <1>8
  <2>2. d \in Int /\ 4 * (c * (t % 2)) - 2 * c - 2 <= d /\ d <= 4 * (c * (t % 2)) - 2 * c + 2
    <3> HIDE DEF c
    <3> QED
      BY <1>1, <1>2, <1>7, <2>1, DistanceIs
  <2>3. c * (t % 2) \in {0, c}
    BY <1>2, <1>8
  <2> HIDE DEF d, c
  <2> QED
    BY <1>2, <2>2, <2>3
<1>10. ~Outside(MeanAt(t), baseline)
  <2> HIDE DEF d
  <2>1. ~(10 * Square(d) > 16 * (22 * Square(baseline.between4) + 10 * Square(2 * c * 2)))
    <3>1. baseline.between4 \in Int
      BY <1>7
    <3> HIDE DEF c
    <3> QED
      BY <1>2, <1>9, <3>1, NearIsInside
  <2> QED
    BY <1>7, <1>8, <2>1, Zenon DEF Outside, d
<1>11. verdict' = Judge(Recent(Now), baseline)
  BY <1>5 DEF Examine, RolledNow, baseline
<1>12. Judge(Recent(Now), baseline) = "none"
  BY <1>10, Zenon DEF Judge
<1> QED
  BY <1>11, <1>12

\* A pass while there is a fault.
LEMMA FaultsAreRaised ==
    ASSUME DetectionInvariant, WindowsPerHour >= 2, Fault >= 6, Examine PROVE FaultsAreSeen
<1> SUFFICES ASSUME Cardinality(RolledNow) >= MinBuckets,
                    2 * Cardinality(RegularNow) > Cardinality(RolledNow),
                    Cardinality(Recent(Now)) = Consecutive,
                    \A t \in Recent(Now) : t >= HourStart(Now) /\ ~Regular(t)
             PROVE  verdict' = "below"
  BY Zenon DEF FaultsAreSeen, RolledNow, RegularNow
<1> DEFINE c == WindowsPerHour
           baseline == FoldBaseline(RolledNow)
           low(t) == 4 * c * MeanAt(t) < 2 * baseline.center2
<1>1. /\ Now \in Nat /\ UsualNow \in Int /\ IsFiniteSet(RolledNow)
  BY RolledAre
<1>2. /\ c \in Nat \ {0} /\ c >= 2 /\ HourStart(Now) \in Nat
      /\ MinBuckets \in Nat \ {0} /\ Fault \in Int /\ Consecutive \in Nat
  BY <1>1, HourIs, DetectionNumbers
<1>3. /\ baseline.center2 \in Int /\ baseline.between4 \in 0 .. 4 /\ baseline.within2 = 2
      /\ baseline.center2 - 2 * (c * UsualNow) \in c - 1 .. c + 1
  BY <1>2, BaselineIsUsual
<1> HIDE DEF baseline
<1>4. ASSUME NEW t \in Recent(Now) PROVE Outside(MeanAt(t), baseline) /\ low(t)
  <2> DEFINE off == (t % 2) - Fault
             d == 4 * c * (UsualNow + off) - 2 * baseline.center2
  <2>1. t \in 0 .. Now - 1 /\ t \in Nat /\ t < Now /\ HourStart(Now) <= t /\ ~Regular(t)
    BY <1>1, <1>2, <1>4, RecentAre
  <2>2. off \in Int /\ off <= 0 - 5
    BY <1>2, <2>1
  <2>3. MeanAt(t) = UsualNow + off
    <3>1. MeanAt(t) = RegularAt(t) - Fault
      BY <2>1 DEF DetectionInvariant, Regular
    <3>2. HourOf(t) = HourOf(HourStart(Now))
      BY <1>1, <2>1, ThisHour
    <3>3. RegularAt(t) = UsualNow + (t % 2)
      BY <3>2, Zenon DEF RegularAt, UsualNow
    <3>4. t % 2 \in Int
      BY <2>1
    <3> QED
      BY <1>1, <1>2, <3>1, <3>3, <3>4
  <2> HIDE DEF off
  <2>4. d \in Int /\ d <= 4 * (c * off) - 2 * c + 2
    <3> HIDE DEF c
    <3> QED
      BY <1>1, <1>2, <1>3, <2>2, DistanceIs
  <2>5. c * off \in Int /\ c * off <= 0 - 5 * c
    <3>1. off * c <= (0 - 5) * c /\ off * c \in Int
      BY <1>2, <2>2, Products
    <3>2. c * off = off * c /\ (0 - 5) * c = 0 - 5 * c
      BY <1>2, <2>2
    <3> QED
      BY <3>1, <3>2
  <2>6. d <= 0 - 21 * c /\ d < 0
    <3> HIDE DEF d, c
    <3> QED
      BY <1>2, <2>4, <2>5
  <2>7. Outside(MeanAt(t), baseline)
    <3> HIDE DEF d
    <3>1. 10 * Square(d) > 16 * (22 * Square(baseline.between4) + 10 * Square(2 * c * 2))
      <4> HIDE DEF c
      <4> QED
        BY <1>2, <1>3, <2>4, <2>6, FarIsOutside
    <3> QED
      BY <1>3, <2>3, <3>1, Zenon DEF Outside, d
  <2>8. low(t)
    <3> DEFINE e == 4 * c * (UsualNow + off)
    <3>1. e \in Int /\ e - 2 * baseline.center2 < 0
      BY <1>1, <1>2, <2>2, <2>6
    <3> HIDE DEF e
    <3>2. e < 2 * baseline.center2
      BY <1>3, <3>1
    <3> QED
      BY <2>3, <3>2, Zenon DEF e
  <2> QED
    BY <2>7, <2>8
<1>5. verdict' = Judge(Recent(Now), baseline)
  <2>1. ~(Cardinality(RolledNow) < MinBuckets)
    <3>1. Cardinality(RolledNow) \in Nat
      BY <1>1, FS_CardinalityType
    <3> QED
      BY <1>2, <3>1
  <2> QED
    BY <2>1 DEF Examine, RolledNow, baseline
<1>6. ~(Cardinality(Recent(Now)) < Consecutive)
  BY <1>2
<1>7. Judge(Recent(Now), baseline) = "below"
  BY <1>4, <1>6, Zenon DEF Judge
<1> QED
  BY <1>5, <1>7

\* If an hour has two windows or more, and a fault is six times what readings differ
\* by, every pass is right (detector.rs baselines, judge): as long as the days are alike
\* it raises nothing but at the turn of an hour, and it raises a fault that has lasted
\* for the windows it takes, although earlier days have faults too, in less than
\* half of the same hours: medians do not see them.
THEOREM PassesAreJust ==
    ASSUME WindowsPerHour >= 2, Fault >= 6 PROVE DetectionSpec => VerdictsAreJust
<1>1. DetectionSpec => []DetectionInvariant
  BY DetectionInvariantHolds
<1>2. DetectionInvariant /\ [DetectionNext]_detectionVars
        => [Examine => OnlyTheTurnMisleads /\ FaultsAreSeen]_detectionVars
  BY NothingRegularIsRaised, FaultsAreRaised
<1> QED
  BY <1>1, <1>2, PTL DEF DetectionSpec, VerdictsAreJust

-----------------------------------------------------------------------------
(* Rds: for any information.  First sums of bits.                            *)

LEMMA OddOfNone == ~Odd({}) /\ \A x : Odd({x})
<1>1. Cardinality({}) = 0 /\ \A x : Cardinality({x}) = 1
  BY FS_EmptySet, FS_Singleton
<1>2. ~(0 % 2 = 1) /\ 1 % 2 = 1
  OBVIOUS
<1> QED
  BY <1>1, <1>2, Zenon DEF Odd

LEMMA OddOfXor ==
    ASSUME NEW a, NEW b, IsFiniteSet(a), IsFiniteSet(b)
    PROVE  Odd(Xor(a, b)) <=> ~(Odd(a) <=> Odd(b))
<1> DEFINE both == a \cap b
           i == Cardinality(a)
           j == Cardinality(b)
           k == Cardinality(both)
<1>1. IsFiniteSet(a \ b) /\ Cardinality(a \ b) = i - k /\ i \in Nat
  <2>1. IsFiniteSet(a \ b) /\ Cardinality(a \ b) = i - Cardinality(a \cap b)
    BY FS_Difference
  <2>2. i \in Nat
    BY FS_CardinalityType
  <2> QED
    BY <2>1, <2>2
<1>2. IsFiniteSet(b \ a) /\ Cardinality(b \ a) = j - k /\ j \in Nat
  <2>1. b \cap a = both
    OBVIOUS
  <2>2. IsFiniteSet(b \ a) /\ Cardinality(b \ a) = j - Cardinality(b \cap a)
    BY FS_Difference
  <2>3. j \in Nat
    BY FS_CardinalityType
  <2> HIDE DEF both, j
  <2> QED
    BY <2>1, <2>2, <2>3
<1>3. k \in Nat /\ k <= i /\ k <= j
  BY PartsAreFinite
<1>4. Cardinality(Xor(a, b)) = (i - k) + (j - k)
  <2>1. (a \ b) \cap (b \ a) = {}
    OBVIOUS
  <2>2. Cardinality((a \ b) \cup (b \ a))
            = Cardinality(a \ b) + Cardinality(b \ a) - Cardinality((a \ b) \cap (b \ a))
    BY <1>1, <1>2, FS_Union
  <2>3. Cardinality((a \ b) \cap (b \ a)) = 0
    BY <2>1, FS_EmptySet
  <2> QED
    BY <1>1, <1>2, <1>3, <2>2, <2>3 DEF Xor
<1> HIDE DEF i, j, k
<1>5. ((i - k) + (j - k)) % 2 = 1 <=> ~(i % 2 = 1 <=> j % 2 = 1)
  BY <1>1, <1>2, <1>3
<1> QED
  BY <1>4, <1>5 DEF Odd, i, j

\* Bits that are moved are as many.
LEMMA OddOfMoved ==
    ASSUME NEW K, IsFiniteSet(K), K \subseteq Int, NEW by \in Int
    PROVE  LET moved == {b + by : b \in K}
           IN  IsFiniteSet(moved) /\ (Odd(moved) <=> Odd(K))
<1> DEFINE moved == {b + by : b \in K}
           f == [b \in K |-> b + by]
<1>1. f \in [K -> moved]
  OBVIOUS
<1>2. \A a, b \in K : f[a] = f[b] => a = b
  OBVIOUS
<1>3. \A m \in moved : \E b \in K : f[b] = m
  OBVIOUS
<1> HIDE DEF f, moved
<1>4. f \in Bijection(K, moved)
  BY <1>1, <1>2, <1>3 DEF Bijection, Injection, Surjection, IsInjective
<1>5. ExistsBijection(K, moved)
  BY <1>4 DEF ExistsBijection
<1>6. IsFiniteSet(moved) /\ Cardinality(moved) = Cardinality(K)
  BY <1>5, FS_Bijection
<1> QED
  BY <1>6 DEF Odd, moved

-----------------------------------------------------------------------------
(* Rds: the division by the generator.                                       *)

Register == 0 .. 9

Shifted(register) == Reduce({b + 1 : b \in register})

\* A shift moves every bit up, and adds the generator for the one that falls out.
LEMMA ShiftedIs ==
    ASSUME NEW register \in SUBSET Register
    PROVE  /\ Shifted(register) \in SUBSET Register
           /\ \A bit \in Register :
                  bit \in Shifted(register) <=> ~(bit - 1 \in register <=> (bit \in Generator /\ 9 \in register))
<1> DEFINE up == {b + 1 : b \in register}
<1>1. \A bit \in 0 .. 10 : bit \in up <=> bit - 1 \in register
  BY DEF Register
<1>2. up \subseteq 0 .. 10 /\ Generator \subseteq 0 .. 10 /\ 10 \in Generator
  BY DEF Register, Generator
<1>3. 10 \in up <=> 9 \in register
  BY <1>1
<1> HIDE DEF up
<1>4. Shifted(register) = IF 10 \in up THEN (up \ Generator) \cup (Generator \ up) ELSE up
  BY Zenon DEF Shifted, Reduce, Xor, up
<1>5. Shifted(register) \subseteq 0 .. 10 /\ 10 \notin Shifted(register)
  BY <1>2, <1>4
<1>6. \A bit \in Register : bit \in 0 .. 10
  BY DEF Register
<1>7. Shifted(register) \in SUBSET Register
  BY <1>5 DEF Register
<1>8. \A bit \in Register : bit \in Shifted(register) <=> ~(bit \in up <=> (bit \in Generator /\ 10 \in up))
  BY <1>4
<1> QED
  BY <1>1, <1>3, <1>6, <1>7, <1>8

\* No register but the empty one is emptied by a shift: the generator has bit 0.
LEMMA ShiftsKeep ==
    ASSUME NEW register \in SUBSET Register, register # {}
    PROVE  Shifted(register) # {}
<1>1. CASE 9 \in register
  <2>1. 0 \in Register /\ 0 \in Generator /\ 0 - 1 \notin register
    BY DEF Register, Generator
  <2>2. 0 \in Shifted(register)
    BY <1>1, <2>1, ShiftedIs
  <2> QED
    BY <2>2
<1>2. CASE 9 \notin register
  <2>1. PICK b \in register : TRUE
    OBVIOUS
  <2>2. b + 1 \in Register /\ (b + 1) - 1 = b
    BY <1>2 DEF Register
  <2>3. b + 1 \in Shifted(register)
    BY <1>2, <2>1, <2>2, ShiftedIs
  <2> QED
    BY <2>3
<1> QED
  BY <1>1, <1>2

\* What is left of a bit, and of the one after it.
LEMMA RemaindersAre ==
    /\ Remainder \in [0 .. 25 -> SUBSET Register]
    /\ \A bit \in 0 .. 9 : Remainder[bit] = {bit}
    /\ \A bit \in 0 .. 24 : Remainder[bit + 1] = Shifted(Remainder[bit])
<1> DEFINE S == SUBSET Register
           next(i, register) == IF i < 10 THEN {i} ELSE Shifted(register)
           step == [p \in (1 .. 25) \X S |-> next(p[1], p[2])]
           Divides(r) == r = [i \in 0 .. 25 |-> IF i < 10 THEN {i} ELSE Shifted(r[i - 1])]
<1>1. step \in [(1 .. 25) \X S -> S] /\ {0} \in S /\ 25 \in Nat
  <2> SUFFICES ASSUME NEW p \in (1 .. 25) \X S PROVE next(p[1], p[2]) \in S
    BY DEF Register
  <2>1. p[1] \in 1 .. 25 /\ p[2] \in SUBSET Register
    OBVIOUS
  <2>2. Shifted(p[2]) \in S
    BY <2>1, ShiftedIs
  <2>3. p[1] < 10 => {p[1]} \in S
    BY <2>1 DEF Register
  <2> QED
    BY <2>2, <2>3
<1>2. PICK f : Along(f, S, {0}, 25, step)
  <2> DEFINE n == 25
  <2>1. n \in Nat /\ step \in [(1 .. n) \X S -> S] /\ {0} \in S
    BY <1>1
  <2> HIDE DEF step, S, n
  <2>2. \E f : Along(f, S, {0}, n, step)
    BY <2>1, Recursion
  <2> QED
    BY <2>2 DEF n
<1>3. Divides(f)
  <2>1. f \in [0 .. 25 -> S] /\ f[0] = {0}
    BY <1>2 DEF Along
  <2>2. ASSUME NEW i \in 1 .. 25 PROVE f[i] = next(i, f[i - 1])
    <3>1. f[i] = step[<<i, f[i - 1]>>]
      BY <1>2, Zenon DEF Along
    <3>2. f[i - 1] \in S
      BY <2>1
    <3> HIDE DEF next, S
    <3>3. step[<<i, f[i - 1]>>] = next(i, f[i - 1])
      BY <3>2
    <3> QED
      BY <3>1, <3>3
  <2>3. ASSUME NEW i \in 0 .. 25 PROVE f[i] = IF i < 10 THEN {i} ELSE Shifted(f[i - 1])
    <3>1. CASE i = 0
      BY <2>1, <3>1
    <3>2. CASE i # 0
      <4>1. i \in 1 .. 25
        BY <3>2
      <4> QED
        BY <2>2, <4>1, Zenon
    <3> QED
      BY <3>1, <3>2
  <2> QED
    BY <2>1, <2>3
<1>4. Divides(Remainder)
  <2>1. Remainder = CHOOSE r : Divides(r)
    BY Zenon DEF Remainder, Shifted
  <2> HIDE DEF Divides
  <2> QED
    BY <1>3, <2>1, Zenon
<1>5. /\ Remainder = [i \in 0 .. 25 |-> Remainder[i]]
      /\ \A i \in 0 .. 25 : Remainder[i] = IF i < 10 THEN {i} ELSE Shifted(Remainder[i - 1])
  <2> DEFINE g == [i \in 0 .. 25 |-> IF i < 10 THEN {i} ELSE Shifted(Remainder[i - 1])]
  <2>1. Remainder = g
    BY <1>4
  <2>2. DOMAIN g = 0 .. 25 /\ g = [i \in 0 .. 25 |-> g[i]]
        /\ \A i \in 0 .. 25 : g[i] = IF i < 10 THEN {i} ELSE Shifted(Remainder[i - 1])
    BY Zenon
  <2> HIDE DEF g
  <2> QED
    BY <2>1, <2>2, Zenon
<1>6. \A i \in 0 .. 25 : Remainder[i] \in S
  <2> DEFINE n == 25
             T == {i \in 0 .. n : Remainder[i] \in S}
  <2>1. 0 \in T
    BY <1>5 DEF Register
  <2>2. ASSUME NEW i \in 1 .. n, i - 1 \in T PROVE i \in T
    <3>1. CASE i < 10
      BY <1>5, <3>1 DEF Register
    <3>2. CASE ~(i < 10)
      <4>1. Remainder[i] = Shifted(Remainder[i - 1]) /\ Remainder[i - 1] \in SUBSET Register
        BY <1>5, <2>2, <3>2
      <4> QED
        BY <4>1, ShiftedIs
    <3> QED
      BY <3>1, <3>2
  <2>3. n \in Nat
    OBVIOUS
  <2> HIDE DEF T, n
  <2>4. \A i \in 0 .. n : i \in T
    BY <2>1, <2>2, <2>3, UpTo
  <2> QED
    BY <2>4 DEF T, n
<1>7. \A bit \in 0 .. 9 : Remainder[bit] = {bit}
  BY <1>5
<1>8. ASSUME NEW bit \in 0 .. 24 PROVE Remainder[bit + 1] = Shifted(Remainder[bit])
  <2>1. bit + 1 \in 0 .. 25 /\ (bit + 1) - 1 = bit
    OBVIOUS
  <2>2. CASE bit + 1 < 10
    <3>1. Remainder[bit + 1] = {bit + 1} /\ Remainder[bit] = {bit}
      BY <1>5, <2>2
    <3>2. {b + 1 : b \in {bit}} = {bit + 1} /\ 10 \notin {bit + 1}
      BY <2>2
    <3>3. Shifted({bit}) = {bit + 1}
      BY <3>2 DEF Shifted, Reduce
    <3> QED
      BY <3>1, <3>3
  <2>3. CASE ~(bit + 1 < 10)
    BY <1>5, <2>1, <2>3
  <2> QED
    BY <2>2, <2>3
<1> QED
  BY <1>5, <1>6, <1>7, <1>8

-----------------------------------------------------------------------------
(* Rds: what is left of a block.                                             *)

Block == 0 .. 25

\* The sum of what is left of its bits.
LeftOf(block) == {bit \in Register : Odd({b \in block : bit \in Remainder[b]})}

LEMMA BlocksAreFinite == ASSUME NEW block, block \subseteq Block PROVE IsFiniteSet(block)
<1>1. IsFiniteSet(Block)
  <2>1. \A i, j \in Int : IsFiniteSet(i .. j)
    BY FS_Interval
  <2>2. 0 \in Int /\ 25 \in Int
    OBVIOUS
  <2> QED
    BY <2>1, <2>2, Zenon DEF Block
<1> QED
  BY <1>1, FS_Subset

LEMMA LeftOfXor ==
    ASSUME NEW a \in SUBSET Block, NEW b \in SUBSET Block
    PROVE  LeftOf(Xor(a, b)) = Xor(LeftOf(a), LeftOf(b))
<1> DEFINE of(S, bit) == {c \in S : bit \in Remainder[c]}
<1>1. ASSUME NEW bit \in Register
      PROVE  Odd(of(Xor(a, b), bit)) <=> ~(Odd(of(a, bit)) <=> Odd(of(b, bit)))
  <2>1. of(Xor(a, b), bit) = Xor(of(a, bit), of(b, bit))
    BY DEF Xor
  <2>2. of(a, bit) \subseteq Block /\ of(b, bit) \subseteq Block
    OBVIOUS
  <2> HIDE DEF of
  <2>3. IsFiniteSet(of(a, bit)) /\ IsFiniteSet(of(b, bit))
    BY <2>2, BlocksAreFinite
  <2> QED
    BY <2>1, <2>3, OddOfXor
<1>2. \A S : LeftOf(S) = {bit \in Register : Odd(of(S, bit))}
  BY Zenon DEF LeftOf
<1> HIDE DEF of
<1>3. \A bit : bit \in LeftOf(Xor(a, b)) <=> bit \in Xor(LeftOf(a), LeftOf(b))
  BY <1>1, <1>2 DEF Xor
<1> QED
  BY <1>3

\* Of a block one bit up, what is left is shifted once more.
LEMMA LeftOfShifted ==
    ASSUME NEW block \in SUBSET (0 .. 24)
    PROVE  LeftOf({b + 1 : b \in block}) = Shifted(LeftOf(block))
<1> DEFINE up == {b + 1 : b \in block}
           of(bit) == {c \in block : bit \in Remainder[c]}
           into(bit) == {c \in block : bit \in Remainder[c + 1]}
<1>1. LeftOf(block) \in SUBSET Register
  BY DEF LeftOf
<1>2. \A bit \in Register : bit \in LeftOf(block) <=> Odd(of(bit))
  BY DEF LeftOf
<1>3. ASSUME NEW bit \in Int PROVE of(bit) \subseteq block /\ into(bit) \subseteq block
                                   /\ IsFiniteSet(of(bit)) /\ IsFiniteSet(into(bit))
  <2>1. of(bit) \subseteq block /\ into(bit) \subseteq block
    OBVIOUS
  <2> HIDE DEF of, into
  <2>2. of(bit) \subseteq Block /\ into(bit) \subseteq Block
    <3>1. block \subseteq Block
      BY DEF Block
    <3> QED
      BY <2>1, <3>1
  <2> QED
    BY <2>1, <2>2, BlocksAreFinite
<1>4. ASSUME NEW bit \in Register PROVE bit \in LeftOf(up) <=> Odd(into(bit))
  <2>1. {c \in up : bit \in Remainder[c]} = {b + 1 : b \in into(bit)}
    OBVIOUS
  <2> HIDE DEF into, up
  <2>2. into(bit) \subseteq Int /\ IsFiniteSet(into(bit))
    <3>1. bit \in Int
      BY DEF Register
    <3>2. into(bit) \subseteq block /\ IsFiniteSet(into(bit))
      BY <1>3, <3>1
    <3>3. block \subseteq Int
      OBVIOUS
    <3> QED
      BY <3>2, <3>3
  <2>3. Odd({b + 1 : b \in into(bit)}) <=> Odd(into(bit))
    BY <2>2, OddOfMoved
  <2> QED
    BY <2>1, <2>3 DEF LeftOf
<1>5. ASSUME NEW c \in block, NEW bit \in Register
      PROVE  bit \in Remainder[c + 1]
                 <=> ~(bit - 1 \in Remainder[c] <=> (bit \in Generator /\ 9 \in Remainder[c]))
  <2>1. c \in 0 .. 24 /\ c \in 0 .. 25
    OBVIOUS
  <2>2. Remainder[c + 1] = Shifted(Remainder[c]) /\ Remainder[c] \in SUBSET Register
    BY <2>1, RemaindersAre
  <2> QED
    BY <2>2, ShiftedIs
<1>6. ASSUME NEW c \in block PROVE ~(0 - 1 \in Remainder[c])
  <2>1. c \in 0 .. 25
    OBVIOUS
  <2>2. Remainder[c] \in SUBSET Register
    BY <2>1, RemaindersAre
  <2> QED
    BY <2>2 DEF Register
<1>7. ASSUME NEW bit \in Register
      PROVE  bit - 1 \in LeftOf(block) <=> Odd(of(bit - 1))
  <2>1. CASE bit = 0
    <3>0. bit - 1 = 0 - 1
      BY <2>1
    <3>1. of(bit - 1) = {}
      BY <1>6, <3>0
    <3>2. bit - 1 \notin LeftOf(block)
      BY <1>1, <3>0 DEF Register
    <3> HIDE DEF of
    <3> QED
      BY <3>1, <3>2, OddOfNone
  <2>2. CASE bit # 0
    <3>1. bit - 1 \in Register
      BY <2>2 DEF Register
    <3> QED
      BY <1>2, <3>1
  <2> QED
    BY <2>1, <2>2
<1>8. ASSUME NEW bit \in Register
      PROVE  Odd(into(bit)) <=> ~(Odd(of(bit - 1)) <=> (bit \in Generator /\ Odd(of(9))))
  <2>1. bit - 1 \in Int /\ 9 \in Int
    BY DEF Register
  <2>2. CASE bit \in Generator
    <3>1. into(bit) = Xor(of(bit - 1), of(9))
      BY <1>5, <2>2 DEF Xor
    <3> HIDE DEF into, of
    <3>2. IsFiniteSet(of(bit - 1)) /\ IsFiniteSet(of(9))
      BY <1>3, <2>1
    <3> QED
      BY <2>2, <3>1, <3>2, OddOfXor
  <2>3. CASE bit \notin Generator
    <3>1. into(bit) = of(bit - 1)
      BY <1>5, <2>3
    <3> QED
      BY <2>3, <3>1
  <2> QED
    BY <2>2, <2>3
<1>9. 9 \in Register
  BY DEF Register
<1> HIDE DEF of, into
<1>10. \A bit \in Register : bit \in LeftOf(up) <=> bit \in Shifted(LeftOf(block))
  BY <1>1, <1>2, <1>4, <1>7, <1>8, <1>9, ShiftedIs
<1>11. LeftOf(up) \subseteq Register /\ Shifted(LeftOf(block)) \subseteq Register
  BY <1>1, ShiftedIs DEF LeftOf
<1> QED
  BY <1>10, <1>11

\* Something is left of every burst of ten bits or less, wherever it is.
LEMMA BurstsLeaveSomething ==
    ASSUME NEW K \in SUBSET Register, K # {}, NEW first \in Nat, {first + k : k \in K} \subseteq Block
    PROVE  LeftOf({first + k : k \in K}) # {}
<1> DEFINE moved(n) == {n + k : k \in K}
           T == {n \in 0 .. first : LeftOf(moved(n)) # {}}
<1>1. LeftOf(K) = K
  <2>1. ASSUME NEW bit \in Register PROVE bit \in K <=> Odd({b \in K : bit \in Remainder[b]})
    <3>1. \A b \in K : Remainder[b] = {b}
      BY RemaindersAre DEF Register
    <3>2. CASE bit \in K
      <4>1. {b \in K : bit \in Remainder[b]} = {bit}
        BY <3>1, <3>2
      <4> QED
        BY <3>2, <4>1, OddOfNone
    <3>3. CASE bit \notin K
      <4>1. {b \in K : bit \in Remainder[b]} = {}
        BY <3>1, <3>3
      <4> QED
        BY <3>3, <4>1, OddOfNone
    <3> QED
      BY <3>2, <3>3
  <2> QED
    BY <2>1 DEF LeftOf
<1>2. 0 \in T
  <2>1. moved(0) = K
    <3>1. \A k \in K : 0 + k = k
      BY DEF Register
    <3> QED
      BY <3>1, Zenon
  <2>2. LeftOf(moved(0)) # {}
    BY <1>1, <2>1, Zenon
  <2> HIDE DEF moved
  <2> QED
    BY <2>2
<1>3. ASSUME NEW n \in 1 .. first, n - 1 \in T PROVE n \in T
  <2>1. moved(n - 1) \subseteq 0 .. 24
    <3> SUFFICES ASSUME NEW k \in K PROVE n - 1 + k \in 0 .. 24
      OBVIOUS
    <3>1. first + k \in Block /\ k \in Nat
      BY DEF Register
    <3> QED
      BY <3>1 DEF Block
  <2>2. moved(n) = {b + 1 : b \in moved(n - 1)}
    <3>1. \A k \in K : k \in Nat
      BY DEF Register
    <3>2. \A k \in K : (n - 1 + k) + 1 = n + k
      BY <3>1
    <3> QED
      BY <3>2
  <2>3. LeftOf(moved(n - 1)) # {} /\ LeftOf(moved(n - 1)) \in SUBSET Register
    BY <1>3 DEF LeftOf
  <2> HIDE DEF moved
  <2>4. LeftOf(moved(n)) = Shifted(LeftOf(moved(n - 1)))
    BY <2>1, <2>2, LeftOfShifted
  <2>5. LeftOf(moved(n)) # {}
    BY <2>3, <2>4, ShiftsKeep
  <2> QED
    BY <2>5
<1>4. first \in T
  <2> HIDE DEF T
  <2>1. \A n \in 0 .. first : n \in T
    BY <1>2, <1>3, UpTo
  <2> QED
    BY <2>1
<1> QED
  BY <1>4

\* A block validates for an offset whose word is what is left of it.
LEMMA ValidatesIs ==
    ASSUME NEW block \in SUBSET Block, NEW offset
    PROVE  Validates(block, offset) <=> LeftOf(block) = Word[offset]
<1> DEFINE check == block \cap 0 .. 9
           info == Information(block)
           high(bit) == {b \in block : b >= 10 /\ bit \in Remainder[b]}
           sum(bit) == {b \in info : bit \in Remainder[b + 10]}
<1>1. info \subseteq 0 .. 15 /\ info = {b - 10 : b \in {c \in block : c >= 10}}
  <2>1. info = {b - 10 : b \in {c \in block : c >= 10}}
    BY Zenon DEF Information
  <2>2. ASSUME NEW b \in block, b >= 10 PROVE b - 10 \in 0 .. 15
    BY <2>2 DEF Block
  <2> HIDE DEF info
  <2>3. info \subseteq 0 .. 15
    BY <2>1, <2>2
  <2> QED
    BY <2>1, <2>3
<1>2. ASSUME NEW bit \in Register PROVE bit \in Checkword(info) <=> Odd(high(bit))
  <2>1. high(bit) = {b + 10 : b \in sum(bit)}
    <3>1. \A b \in block : b - 10 + 10 = b /\ b \in Int
      BY DEF Block
    <3>2. \A c \in high(bit) : c - 10 \in sum(bit) /\ c = (c - 10) + 10
      BY <1>1, <3>1
    <3>3. \A b \in sum(bit) : b + 10 \in high(bit)
      <4> SUFFICES ASSUME NEW c \in block, c >= 10, bit \in Remainder[c - 10 + 10]
                   PROVE  c - 10 + 10 \in high(bit)
        BY <1>1
      <4> QED
        BY <3>1
    <3> HIDE DEF high, sum
    <3> QED
      BY <3>2, <3>3
  <2>2. sum(bit) \subseteq 0 .. 15
    BY <1>1
  <2> HIDE DEF sum, high, info
  <2>3. sum(bit) \subseteq Block /\ sum(bit) \subseteq Int
    BY <2>2 DEF Block
  <2>4. Odd({b + 10 : b \in sum(bit)}) <=> Odd(sum(bit))
    <3>1. IsFiniteSet(sum(bit)) /\ 10 \in Int
      BY <2>3, BlocksAreFinite
    <3> QED
      BY <2>3, <3>1, OddOfMoved
  <2>5. bit \in Checkword(info) <=> Odd(sum(bit))
    BY DEF Checkword, Register, sum
  <2> QED
    BY <2>1, <2>4, <2>5
<1>3. ASSUME NEW bit \in Register
      PROVE  bit \in LeftOf(block) <=> ~(bit \in check <=> Odd(high(bit)))
  <2> DEFINE own == block \cap {bit}
  <2>1. {b \in block : bit \in Remainder[b]} = Xor(own, high(bit))
    <3>1. ASSUME NEW b \in block, ~(b >= 10) PROVE bit \in Remainder[b] <=> b = bit
      <4>1. b \in 0 .. 9
        BY <3>1 DEF Block
      <4>2. Remainder[b] = {b}
        BY <4>1, RemaindersAre
      <4> QED
        BY <4>2
    <3>2. ~(bit >= 10)
      BY DEF Register
    <3>3. own \cap high(bit) = {}
      BY <3>2
    <3>4. \A b \in block : bit \in Remainder[b] <=> b \in own \/ b \in high(bit)
      BY <3>1, <3>2
    <3> QED
      BY <3>3, <3>4 DEF Xor
  <2>2. own \subseteq Block /\ high(bit) \subseteq Block
    OBVIOUS
  <2>3. Odd(own) <=> bit \in check
    <3>1. CASE bit \in block
      <4>1. own = {bit} /\ bit \in check
        BY <3>1 DEF Register
      <4> QED
        BY <4>1, OddOfNone
    <3>2. CASE bit \notin block
      <4>1. own = {} /\ bit \notin check
        BY <3>2
      <4> QED
        BY <4>1, OddOfNone
    <3> QED
      BY <3>1, <3>2
  <2> HIDE DEF own, high, check
  <2>4. Odd(Xor(own, high(bit))) <=> ~(Odd(own) <=> Odd(high(bit)))
    BY <2>2, BlocksAreFinite, OddOfXor
  <2> QED
    BY <2>1, <2>3, <2>4 DEF LeftOf
<1>4. check \subseteq Register /\ Checkword(info) \subseteq Register /\ LeftOf(block) \subseteq Register
  BY DEF Register, Checkword, LeftOf
<1> HIDE DEF high, sum
<1>5. LeftOf(block) = Xor(check, Checkword(info))
  <2> HIDE DEF check, info
  <2>1. \A bit \in Register : bit \in LeftOf(block) <=> ~(bit \in check <=> bit \in Checkword(info))
    BY <1>2, <1>3
  <2> QED
    BY <1>4, <2>1 DEF Xor
<1>6. Validates(block, offset) <=> check = Xor(Checkword(info), Word[offset])
  BY Zenon DEF Validates
<1> HIDE DEF check, info
<1>7. \A a, b, w : a = Xor(b, w) <=> Xor(a, b) = w
  BY DEF Xor
<1> QED
  BY <1>5, <1>6, <1>7

\* What a transmitter encodes validates.
LEMMA EncodedValidates ==
    ASSUME NEW info \in SUBSET (0 .. 15), NEW offset \in DOMAIN Word
    PROVE  /\ Encode(info, offset) \in SUBSET Block /\ Validates(Encode(info, offset), offset)
           /\ LeftOf(Encode(info, offset)) = Word[offset]
<1> DEFINE block == Encode(info, offset)
           check == Xor(Checkword(info), Word[offset])
<1>1. Word[offset] \subseteq 0 .. 9
  BY DEF Word
<1>2. check \subseteq 0 .. 9
  BY <1>1 DEF Xor, Checkword
<1> HIDE DEF check
<1>3. block = {b + 10 : b \in info} \cup check
  BY Zenon DEF Encode, check
<1>4. block \in SUBSET Block
  <2>1. ASSUME NEW b \in info PROVE b + 10 \in Block
    BY DEF Block
  <2>2. check \subseteq Block
    BY <1>2 DEF Block
  <2> HIDE DEF block
  <2> QED
    BY <1>3, <2>1, <2>2
<1>5. block \cap 0 .. 9 = check
  <2>1. ASSUME NEW b \in info PROVE b + 10 \notin 0 .. 9
    OBVIOUS
  <2> HIDE DEF block
  <2> QED
    BY <1>2, <1>3, <2>1
<1>6. Information(block) = info
  <2>1. {c \in block : c >= 10} = {b + 10 : b \in info}
    <3>1. ASSUME NEW b \in info PROVE b + 10 >= 10
      OBVIOUS
    <3>2. ASSUME NEW c \in check PROVE ~(c >= 10)
      BY <1>2
    <3> HIDE DEF block
    <3> QED
      BY <1>3, <3>1, <3>2
  <2>2. \A b \in info : (b + 10) - 10 = b
    OBVIOUS
  <2>3. {b - 10 : b \in {d + 10 : d \in info}} = info
    BY <2>2
  <2> QED
    BY <2>1, <2>3, Zenon DEF Information
<1>7. Validates(block, offset)
  BY <1>5, <1>6, Zenon DEF Validates, check
<1> HIDE DEF block
<1>8. LeftOf(block) = Word[offset]
  BY <1>4, <1>7, ValidatesIs
<1> QED
  BY <1>4, <1>7, <1>8 DEF block

-----------------------------------------------------------------------------
(* Rds: a burst.                                                             *)

RdsSpec == RdsInit /\ [][RdsNext]_rdsVars

\* What is heard with a burst is one block that was disturbed.
OneIsDisturbed ==
    heard.burst # {} =>
        \E position \in 0 .. 3, info \in Infos, offset \in DOMAIN Word, burst \in Bursts :
            /\ burst \subseteq 0 .. BlockBits - 1 /\ offset \in AtPosition(position)
            /\ heard.block = Xor(Encode(info, offset), burst)
            /\ heard.position = position /\ heard.offset = offset /\ heard.burst = burst

HeardInvariant ==
    /\ heard = [bits |-> heard.bits, block |-> heard.block, position |-> heard.position,
                offset |-> heard.offset, burst |-> heard.burst]
    /\ OneIsDisturbed

LEMMA HeardStep == ASSUME HeardInvariant, [RdsNext]_rdsVars PROVE HeardInvariant'
<1>1. CASE heard' = heard
  BY <1>1 DEF HeardInvariant, OneIsDisturbed
<1>2. ASSUME NEW hit, Receive(hit) PROVE HeardInvariant'
  <2>1. PICK bits : heard' = [heard EXCEPT !.bits = bits] /\ heard = Deaf
    BY <1>2, Zenon DEF Receive
  <2>2. heard' = [bits |-> bits, block |-> {}, position |-> 0, offset |-> "A", burst |-> {}]
    BY <2>1 DEF Deaf
  <2> QED
    BY <2>2 DEF HeardInvariant, OneIsDisturbed
<1>3. ASSUME NEW position \in 0 .. 3, NEW info \in Infos, NEW offset \in DOMAIN Word, NEW burst \in Bursts,
             burst \subseteq 0 .. BlockBits - 1, Disturb(position, info, offset, burst)
      PROVE  HeardInvariant'
  <2> DEFINE block == Xor(Encode(info, offset), burst)
  <2>1. /\ offset \in AtPosition(position)
        /\ heard' = [Deaf EXCEPT !.block = block, !.position = position, !.offset = offset, !.burst = burst]
    BY <1>3, Zenon DEF Disturb
  <2> HIDE DEF block
  <2>2. heard' = [bits |-> <<>>, block |-> block, position |-> position, offset |-> offset, burst |-> burst]
    BY <2>1 DEF Deaf
  <2>3. heard'.block = Xor(Encode(info, offset), burst)
    BY <2>2 DEF block
  <2>4. heard'.position = position /\ heard'.offset = offset /\ heard'.burst = burst
    BY <2>2
  <2>5. OneIsDisturbed'
    BY <1>3, <2>1, <2>3, <2>4, Zenon DEF OneIsDisturbed
  <2> QED
    BY <2>2, <2>5 DEF HeardInvariant
<1>4. Listen => heard' = heard
  BY DEF Listen
<1>5. ASSUME NEW lack, NEW info, NEW third, NEW inverted, Compose(lack, info, third, inverted)
      PROVE  heard' = heard
  BY <1>5, Zenon DEF Compose
<1> QED
  BY <1>1, <1>2, <1>3, <1>4, <1>5, Zenon DEF RdsNext, rdsVars

LEMMA HeardInvariantHolds == RdsSpec => []HeardInvariant
<1>1. RdsInit => HeardInvariant
  BY DEF RdsInit, Deaf, HeardInvariant, OneIsDisturbed
<1>2. HeardInvariant /\ [RdsNext]_rdsVars => HeardInvariant'
  BY HeardStep
<1> QED
  BY <1>1, <1>2, PTL DEF RdsSpec

LEMMA BurstsAre ==
    ASSUME MaxBurst \in Nat, MaxBurst <= 10, NEW burst \in Bursts
    PROVE  \E K \in SUBSET Register, first \in Nat : K # {} /\ burst = {first + k : k \in K}
<1>1. PICK first \in 0 .. BlockBits - 1, more \in SUBSET (1 .. MaxBurst - 1) :
          burst = {first + k : k \in more \cup {0}}
  BY DEF Bursts
<1>2. more \cup {0} \in SUBSET Register /\ more \cup {0} # {} /\ first \in Nat
  BY DEF Register, BlockBits
<1> QED
  BY <1>1, <1>2

\* No burst of up to ten bits goes unnoticed in a block, whatever the block says, but
\* that in the third position a block may pass for one of the other version
\* (dsp/rds.rs Offset::validates, at_position): the generator leaves something of
\* every such burst.
THEOREM NoBurstPasses == ASSUME MaxBurst \in Nat, MaxBurst <= 10 PROVE RdsSpec => []BurstsAreCaught
<1>1. HeardInvariant => BurstsAreCaught
  <2> SUFFICES ASSUME HeardInvariant, heard.burst # {}
               PROVE  /\ ~Validates(heard.block, heard.offset)
                      /\ ValidAt(heard.block, heard.position) => heard.position = 2
    BY Zenon DEF BurstsAreCaught
  <2>1. PICK position \in 0 .. 3, info \in Infos, offset \in DOMAIN Word, burst \in Bursts :
            /\ burst \subseteq 0 .. BlockBits - 1 /\ offset \in AtPosition(position)
            /\ heard.block = Xor(Encode(info, offset), burst)
            /\ heard.position = position /\ heard.offset = offset /\ heard.burst = burst
    BY Zenon DEF HeardInvariant, OneIsDisturbed
  <2> DEFINE whole == Encode(info, offset)
             block == Xor(whole, burst)
  <2>2. info \in SUBSET (0 .. 15)
    BY RdsAssumption
  <2>3. whole \in SUBSET Block /\ LeftOf(whole) = Word[offset]
    BY <2>2, EncodedValidates
  <2>4. burst \in SUBSET Block
    BY <2>1 DEF Block, BlockBits
  <2>5. LeftOf(burst) # {}
    <3>1. PICK K \in SUBSET Register, first \in Nat : K # {} /\ burst = {first + k : k \in K}
      BY BurstsAre
    <3> QED
      BY <2>4, <3>1, BurstsLeaveSomething
  <2> HIDE DEF whole
  <2>6. block \in SUBSET Block /\ LeftOf(block) = Xor(Word[offset], LeftOf(burst))
    <3>1. LeftOf(block) = Xor(LeftOf(whole), LeftOf(burst))
      BY <2>3, <2>4, LeftOfXor
    <3>2. block \in SUBSET Block
      BY <2>3, <2>4 DEF Xor
    <3> QED
      BY <2>3, <3>1, <3>2
  <2>7. LeftOf(block) # Word[offset]
    <3>1. \A a, b : b # {} => Xor(a, b) # a
      BY DEF Xor
    <3> QED
      BY <2>5, <2>6, <3>1, Zenon
  <2> HIDE DEF block
  <2>8. ~Validates(block, offset)
    BY <2>6, <2>7, ValidatesIs
  <2>9. ASSUME ValidAt(block, position) PROVE position = 2
    <3>1. PICK other \in AtPosition(position) : Validates(block, other)
      BY <2>9 DEF ValidAt
    <3>2. other # offset
      BY <2>8, <3>1
    <3>3. position % 4 = position
      OBVIOUS
    <3> QED
      BY <2>1, <3>1, <3>2, <3>3 DEF AtPosition, GroupBlocks
  <2>10. heard.block = block /\ heard.position = position /\ heard.offset = offset
    BY <2>1, Zenon DEF block, whole
  <2> QED
    BY <2>8, <2>9, <2>10
<1> QED
  BY <1>1, HeardInvariantHolds, PTL

=============================================================================
