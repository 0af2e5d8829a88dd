------------------------------- MODULE Windows -------------------------------
(***************************************************************************)
(* What a node makes of its samples and what the server makes of that: the *)
(* aggregator of report.rs, the live readings of live.rs, and the checks   *)
(* of validate.rs and persist.rs that both have to pass.  Metrics are       *)
(* measured in whole units; a mean is its sum and its count, a median is    *)
(* doubled, a deviation is the sum of the squares it is the root of.        *)
(***************************************************************************)
EXTENDS Integers, Sequences, FiniteSets, SequencesExt

CONSTANTS
    Metrics,         \* those a sample may be of
    RangeOf,         \* metric_range, and nothing for the others
    NaN,
    Dwells,          \* bound: what the radio makes of a channel, [frequency, samples]
    MaxDwells,       \* bound: in a window
    TicksPerSecond,
    Clocks,          \* bound: what the clock may read
    Nothing

ASSUME WindowsAssumption ==
    /\ DOMAIN RangeOf \subseteq Metrics /\ \A m \in DOMAIN RangeOf : RangeOf[m] \subseteq Int
    /\ Dwells \subseteq [frequency : Nat, samples : Seq([metric : Metrics, value : Int \cup {NaN}])]
    /\ TicksPerSecond \in Nat \ {0} /\ Clocks \subseteq Nat

VARIABLES
    clock,        \* the system clock, in ticks
    windowStart,  \* Aggregator::window_start
    held,         \* Aggregator::channels: the values of each metric of each channel
    message,      \* what was sent last, a report or a live sample
    measured      \* every dwell since the last window was closed

windowVars == <<clock, windowStart, held, message, measured>>

Sum(values) ==
    LET total[i \in 0 .. Len(values)] == IF i = 0 THEN 0 ELSE total[i - 1] + values[i]
    IN  total[Len(values)]

\* Those of a sequence that are in a set, in their order.
Picked(samples, kept) ==
    LET upTo[i \in 0 .. Len(samples)] ==
            IF i = 0 THEN <<>>
            ELSE IF samples[i] \in kept THEN Append(upTo[i - 1], samples[i]) ELSE upTo[i - 1]
    IN  upTo[Len(samples)]

WindowInit ==
    /\ clock = 0 /\ windowStart = 0
    /\ held = <<>> /\ measured = <<>>
    /\ message = Nothing

-----------------------------------------------------------------------------
(* The node.                                                                *)

InRange(metric, value) ==
    value # NaN /\ metric \in DOMAIN RangeOf /\ value \in RangeOf[metric]

Reading(sample) == InRange(sample.metric, sample.value)
Usable == {sample \in [metric : Metrics, value : Int] : Reading(sample)}

\* Aggregator::record: a channel is entered when it was measured, also when none
\* of its samples can be used.
Recorded(channels, f, samples) ==
    IF samples = <<>> THEN channels
    ELSE [g \in DOMAIN channels \cup {f} |->
            (IF g \in DOMAIN channels THEN channels[g] ELSE <<>>)
                \o (IF g = f THEN Picked(samples, Usable) ELSE <<>>)]

\* ceil(0.95 * count), the nearest rank.
Rank(count) == (95 * count + 99) \div 100

\* The k-th of the values once they are sorted.
InOrder(values, k) ==
    CHOOSE v \in Range(values) :
        /\ Cardinality({i \in DOMAIN values : values[i] < v}) < k
        /\ k <= Cardinality({i \in DOMAIN values : values[i] <= v})

\* summarize, of the values of one metric.
Summarize(values) ==
    LET count == Len(values)
        sum == Sum(values)
        upper == InOrder(values, count \div 2 + 1)
    IN  [count |-> count, min |-> Min(Range(values)), max |-> Max(Range(values)), sum |-> sum,
         median2 |-> IF count % 2 = 1 THEN 2 * upper ELSE InOrder(values, count \div 2) + upper,
         spread |-> Sum([i \in 1 .. count |-> (count * values[i] - sum) * (count * values[i] - sum)]),
         p95 |-> InOrder(values, Rank(count))]

Of(samples, metric) ==
    LET those == Picked(samples, [metric : {metric}, value : Int])
    IN  [i \in DOMAIN those |-> those[i].value]

Readings(samples) ==
    [m \in {samples[i].metric : i \in DOMAIN samples} |-> Summarize(Of(samples, m))]

\* What if a channel without a reading were reported?
ReportOfAll(channels, start, end) ==
    IF end <= start \/ DOMAIN channels = {} THEN Nothing
    ELSE [start |-> start, end |-> end,
          channels |-> [f \in DOMAIN channels |-> Readings(channels[f])]]

\* finish: nothing is reported of a channel without a reading, of no channel, or
\* of a window in which the clock did not advance.
Report(channels, start, end) ==
    LET with == {f \in DOMAIN channels : channels[f] # <<>>} IN
    IF end <= start \/ with = {} THEN Nothing
    ELSE [start |-> start, end |-> end, channels |-> [f \in with |-> Readings(channels[f])]]

\* The channel is measured and the dwell recorded; deliver sends what can be used
\* to whoever inspects the node.
Record(dwell) ==
    LET readings == Picked(dwell.samples, Usable) IN
    /\ Len(measured) < MaxDwells
    /\ held' = Recorded(held, dwell.frequency, dwell.samples)
    /\ measured' = Append(measured, dwell)
    /\ message' = IF readings = <<>> THEN Nothing
                  ELSE [frequency |-> dwell.frequency, readings |-> readings]
    /\ UNCHANGED <<clock, windowStart>>

\* Time passes, or the clock is set.
ClockMoves(ticks) ==
    /\ clock = windowStart
    /\ clock' = ticks
    /\ UNCHANGED <<windowStart, held, message, measured>>

\* What if a window that did not advance were kept for the next one?
CloseAdvanced ==
    /\ windowStart' = clock
    /\ message' = Report(held, windowStart, clock)
    /\ held' = IF clock <= windowStart THEN held ELSE <<>>
    /\ measured' = <<>>
    /\ UNCHANGED clock

\* close_window: the channels are taken and the next window opens in any case.
Close ==
    /\ windowStart' = clock
    /\ message' = Report(held, windowStart, clock)
    /\ held' = <<>> /\ measured' = <<>>
    /\ UNCHANGED clock

WindowNext ==
    \/ \E dwell \in Dwells : Record(dwell)
    \/ \E ticks \in Clocks : ClockMoves(ticks)
    \/ Close

-----------------------------------------------------------------------------
(* The server.                                                              *)

\* The seconds of a stamp on the wire, and the stamp of a row, TIMESTAMP(0), which
\* is rounded to the nearest second, halves up.
Seconds(ticks) == ticks \div TicksPerSecond
Second(ticks) == (2 * ticks + TicksPerSecond) \div (2 * TicksPerSecond)

MaxWindowSeconds == 86400

\* validate_stats.
StatsAreValid(metric, stats) ==
    /\ stats.count >= 1 /\ stats.min <= stats.max
    /\ stats.min * stats.count <= stats.sum /\ stats.sum <= stats.max * stats.count
    /\ 2 * stats.min <= stats.median2 /\ stats.median2 <= 2 * stats.max
    /\ stats.min <= stats.p95 /\ stats.p95 <= stats.max
    /\ stats.spread >= 0
    /\ InRange(metric, stats.min) /\ InRange(metric, stats.max)

\* validate::measurements, and the row's check that its window has a length.
Accepts(report) ==
    /\ report.end > report.start
    /\ Seconds(report.end) - Seconds(report.start) <= MaxWindowSeconds
    /\ Second(report.end) > Second(report.start)
    /\ DOMAIN report.channels # {}
    /\ \A f \in DOMAIN report.channels :
           /\ DOMAIN report.channels[f] # {}
           /\ \A m \in DOMAIN report.channels[f] : StatsAreValid(m, report.channels[f][m])

\* validate::live.
AcceptsLive(sample) ==
    /\ sample.readings # <<>>
    /\ \A i \in DOMAIN sample.readings : Reading(sample.readings[i])

-----------------------------------------------------------------------------
(* Properties.                                                              *)

IsReport(m) == m # Nothing /\ "channels" \in DOMAIN m

\* The windows no report of which is ever stored.
Unstorable(report) ==
    \/ Second(report.end) = Second(report.start)
    \/ Seconds(report.end) - Seconds(report.start) > MaxWindowSeconds

\* Whatever the radio delivers, what a node sends is taken: a report that is
\* refused stays at the head of the journal and holds up all that follow.  Only
\* two kinds of window are refused, one whose ends are the same second once they
\* are rounded and one of more than a day, which a clock that is set makes.
MessagesAreTaken ==
    message # Nothing =>
        IF IsReport(message) THEN Accepts(message) \/ Unstorable(message) ELSE AcceptsLive(message)

\* What was measured on a channel, dwell after dwell.
TakenOn(f, dwells) ==
    LET upTo[i \in 0 .. Len(dwells)] ==
            IF i = 0 THEN <<>>
            ELSE IF dwells[i].frequency = f THEN upTo[i - 1] \o dwells[i].samples ELSE upTo[i - 1]
    IN  upTo[Len(dwells)]

Ranked(values, value) == Cardinality({i \in DOMAIN values : values[i] <= value})

\* A report is of the samples of its window and of no other, none of them twice:
\* a window that is discarded leaves nothing behind, and p95 is the least value
\* that 95 of 100 do not exceed.
ReportsAreOfTheirWindow ==
    [][Close /\ message' # Nothing =>
        \A f \in {measured[i].frequency : i \in DOMAIN measured}, m \in Metrics :
            LET values == Of(Picked(TakenOn(f, measured), Usable), m)
            IN  IF values = <<>>
                THEN f \in DOMAIN message'.channels => m \notin DOMAIN message'.channels[f]
                ELSE LET stats == message'.channels[f][m] IN
                     /\ stats.count = Len(values)
                     /\ stats.sum = Sum(values)
                     /\ \A v \in Range(values) :
                            v < stats.p95 <=> 100 * Ranked(values, v) < 95 * stats.count]_windowVars

=============================================================================
