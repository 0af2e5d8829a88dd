------------------------------ MODULE Delivery ------------------------------
(***************************************************************************)
(* How one node's reports reach the server: aggregation windows closed by  *)
(* a timer, the journal on disk, the delivery loop that submits the        *)
(* journal oldest first, and the ingest handler that stores a window once. *)
(*                                                                         *)
(* A report is named by its place in `built`; the journal holds those      *)
(* names, and Torn for a record that was cut short.  A report carries one  *)
(* series: all its rows share the window and are written in one            *)
(* transaction.  The agent is one select! loop, so while it awaits an      *)
(* answer it neither closes windows nor reads a signal.                    *)
(***************************************************************************)
EXTENDS Naturals, Sequences, FiniteSets

CONSTANTS
    TicksPerSecond,  \* resolution of the node's clock in the model
    Period,          \* ticks between two closings of the window
    Limit,           \* records the journal may hold, 0 for any number
    Faults,          \* of "network", "crash", "disk", "torn", "clock", "suspend"
    MaxReports,      \* bound: reports the node builds
    MaxClock         \* bound: how far the node's clock runs

\* config.rs takes no window shorter than one second.
ASSUME PeriodAssumption ==
    TicksPerSecond \in Nat \ {0} /\ Period \in Nat /\ Period >= TicksPerSecond
ASSUME BoundAssumption == Limit \in Nat /\ MaxReports \in Nat /\ MaxClock \in Nat

VARIABLES
    clock,        \* the node's wall clock, in ticks
    agent,        \* "up", "stopping" after a signal, or "down"
    windowStart,  \* Aggregator.window_start
    nextClose,    \* when the window timer fires next
    built,        \* every report built so far, as its window
    journal,      \* records of the offline journal, oldest first
    evicted,      \* reports the size limit dropped
    unwritten,    \* reports push could not write
    task,         \* "idle", "sending" the batch, or "trimming" the journal
    batch,        \* what deliver read from the journal
    delivered,    \* how many of the batch the server has acknowledged
    rpc,          \* how far the call for the next report has come
    orphans,      \* writes still running at the server after the node gave up
    rows,         \* how many rows the server holds of each report
    suspended     \* whether an administrator has suspended the node

agentVars == <<agent, windowStart, nextClose>>
journalVars == <<built, journal, evicted, unwritten>>
deliverVars == <<task, batch, delivered>>
serverVars == <<orphans, rows, suspended>>
vars == <<clock, agentVars, journalVars, deliverVars, rpc, serverVars>>

Reports == 1 .. MaxReports
Torn == 0

Window == {x \in [start : 0 .. MaxClock, end : 0 .. MaxClock] : x.start < x.end}

Init ==
    /\ clock = 0
    /\ agent = "up"
    /\ windowStart = 0 /\ nextClose = Period
    /\ built = << >> /\ journal = << >>
    /\ evicted = {} /\ unwritten = {}
    /\ task = "idle" /\ batch = << >> /\ delivered = 0
    /\ rpc = "none"
    /\ orphans = {}
    /\ rows = [w \in Reports |-> 0]
    /\ suspended = FALSE

-----------------------------------------------------------------------------
(* The journal: report.rs ReportBuffer.                                     *)

\* decode_all stops at the first record it cannot decode.
Readable(j) ==
    LET good == {n \in 0 .. Len(j) : \A i \in 1 .. n : j[i] # Torn} IN
    SubSeq(j, 1, CHOOSE n \in good : \A m \in good : m <= n)

In(j) == {j[i] : i \in DOMAIN j}

\* What if a full journal dropped its newest reports?
TrimmedFromTheEnd(j) ==
    LET p == Readable(j) IN
    IF Limit = 0 \/ Len(j) <= Limit THEN j ELSE SubSeq(p, 1, Len(p) \div 2)

\* enforce_limit: over the limit the newer half stays.
Trimmed(j) ==
    LET p == Readable(j) IN
    IF Limit = 0 \/ Len(j) <= Limit THEN j
    ELSE SubSeq(p, Len(p) - (Len(p) \div 2) + 1, Len(p))

\* push: append, sync, enforce the limit.
Push(w) ==
    /\ journal' = Trimmed(Append(journal, w))
    /\ evicted' = evicted \cup (In(Append(journal, w)) \ (In(journal') \cup {Torn}))
    /\ UNCHANGED unwritten

\* push fails and close_window only logs it: before the append, after it, when
\* the file is synced or trimmed, or half way.
PushFails(w) ==
    /\ \/ "disk" \in Faults /\ journal' \in {journal, Append(journal, w)}
       \/ "torn" \in Faults /\ journal' = Append(journal, Torn)
    /\ unwritten' = unwritten \cup {w}
    /\ UNCHANGED evicted

\* Aggregator.finish: the next window opens where this one ends.  Without
\* samples, or without any time gone by, there is no report.
Finish(sampled) ==
    /\ windowStart' = clock
    /\ IF sampled /\ clock > windowStart
       THEN /\ Len(built) < MaxReports
            /\ built' = Append(built, [start |-> windowStart, end |-> clock])
            /\ Push(Len(built) + 1) \/ PushFails(Len(built) + 1)
       ELSE UNCHANGED journalVars

-----------------------------------------------------------------------------
(* The agent: main.rs run, close_window, deliver, shutdown.                 *)

Idle == agent = "up" /\ task = "idle"

\* What if delivery ran beside the window timer?
CloseWindowAnyTime(sampled) ==
    /\ agent = "up" /\ clock >= nextClose
    /\ Finish(sampled)
    /\ nextClose' = nextClose + Period
    /\ UNCHANGED <<clock, agent, deliverVars, rpc, serverVars>>

\* The window timer makes up for ticks it missed, one after the other.
CloseWindow(sampled) ==
    /\ Idle /\ clock >= nextClose
    /\ Finish(sampled)
    /\ nextClose' = nextClose + Period
    /\ UNCHANGED <<clock, agent, deliverVars, rpc, serverVars>>

\* A signal, or the sampler gone: the loop ends and the open window is closed.
Stop(sampled) ==
    /\ Idle
    /\ agent' = "stopping"
    /\ Finish(sampled)
    /\ UNCHANGED <<clock, nextClose, deliverVars, rpc, serverVars>>

StartDelivery ==
    /\ agent \in {"up", "stopping"} /\ task = "idle"
    /\ Readable(journal) # << >>
    /\ task' = "sending"
    /\ batch' = Readable(journal)
    /\ delivered' = 0
    /\ UNCHANGED <<clock, agentVars, journalVars, rpc, serverVars>>

\* deliver returns at once when nothing can be read, and the agent is done.
StopEmpty ==
    /\ agent = "stopping" /\ task = "idle"
    /\ Readable(journal) = << >>
    /\ agent' = "down"
    /\ UNCHANGED <<clock, windowStart, nextClose, journalVars, deliverVars, rpc, serverVars>>

Current == batch[delivered + 1]

Submit ==
    /\ task = "sending" /\ rpc = "none"
    /\ rpc' = "sent"
    /\ UNCHANGED <<clock, agentVars, journalVars, deliverVars, serverVars>>

\* deliver is over: nothing was taken, or the journal has been rewritten.
EndDelivery ==
    /\ task' = "idle" /\ batch' = << >> /\ delivered' = 0
    /\ agent' = IF agent = "stopping" THEN "down" ELSE agent
    /\ UNCHANGED <<windowStart, nextClose>>

\* What if the loop went on to the next report after an error?
BreakAndSkip ==
    /\ rpc' = "none"
    /\ delivered' = delivered + 1
    /\ task' = IF delivered' = Len(batch) THEN "trimming" ELSE task
    /\ UNCHANGED <<batch, agentVars>>

\* The loop breaks at the first error.
Break ==
    /\ rpc' = "none"
    /\ IF delivered = 0 THEN EndDelivery
       ELSE task' = "trimming" /\ UNCHANGED <<batch, delivered, agentVars>>

TakeAck ==
    /\ rpc = "acked"
    /\ rpc' = "none"
    /\ delivered' = delivered + 1
    /\ task' = IF delivered' = Len(batch) THEN "trimming" ELSE task
    /\ UNCHANGED <<clock, batch, agentVars, journalVars, serverVars>>

TakeRefusal ==
    /\ rpc = "refused"
    /\ Break
    /\ UNCHANGED <<clock, journalVars, serverVars>>

\* replace writes a second file and renames it over the journal; when that
\* fails the journal stays as it was and the reports go out again.
Trim ==
    /\ task = "trimming"
    /\ \/ journal' = SubSeq(batch, delivered + 1, Len(batch))
       \/ "disk" \in Faults /\ UNCHANGED journal
    /\ EndDelivery
    /\ UNCHANGED <<clock, built, evicted, unwritten, rpc, serverVars>>

-----------------------------------------------------------------------------
(* The server: grpc/mod.rs submit_measurements_inner, persist.rs write.     *)

\* TIMESTAMP(0) rounds to the nearest second, halves up.
Second(t) == (2 * t + TicksPerSecond) \div (2 * TicksPerSecond)

Key(w) == Second(built[w].start)

\* ck_measurements_window compares the rounded stamps.
Storable(w) == Second(built[w].end) > Key(w)

Accept ==
    /\ rpc = "sent"
    /\ rpc' = IF suspended THEN "refused" ELSE "writing"
    /\ UNCHANGED <<clock, agentVars, journalVars, deliverVars, serverVars>>

KeyTaken(w) == \E v \in 1 .. Len(built) : rows[v] > 0 /\ Key(v) = Key(w)

\* What if the table had no unique index on node, channel, metric and start?
StoreAgain(w) ==
    rows' = IF Storable(w) THEN [rows EXCEPT ![w] = @ + 1] ELSE rows

\* ON CONFLICT DO NOTHING on node, channel, metric and window_start.
Store(w) ==
    rows' = IF Storable(w) /\ ~KeyTaken(w) THEN [rows EXCEPT ![w] = @ + 1] ELSE rows

Write ==
    /\ rpc = "writing"
    /\ Store(Current)
    /\ rpc' = IF Storable(Current) THEN "acked" ELSE "refused"
    /\ UNCHANGED <<clock, agentVars, journalVars, deliverVars, orphans, suspended>>

\* A transaction on the pool's thread runs to its end without its client.
WriteOrphan(w) ==
    /\ w \in orphans
    /\ Store(w)
    /\ orphans' = orphans \ {w}
    /\ UNCHANGED <<clock, agentVars, journalVars, deliverVars, rpc, suspended>>

-----------------------------------------------------------------------------
(* The network, the machines and the clock.                                 *)

GaveUp == {o \in {orphans, orphans \cup {Current}} : rpc = "writing" \/ o = orphans}

\* The call fails on the way there, at the server, or on the way back.
LoseCall ==
    /\ "network" \in Faults
    /\ rpc # "none"
    /\ orphans' \in GaveUp
    /\ Break
    /\ UNCHANGED <<clock, journalVars, rows, suspended>>

\* The agent dies; the files stay.
Die ==
    /\ agent' = "down"
    /\ task' = "idle" /\ batch' = << >> /\ delivered' = 0
    /\ rpc' = "none"
    /\ IF rpc = "none" THEN UNCHANGED orphans ELSE orphans' \in GaveUp
    /\ UNCHANGED <<clock, windowStart, nextClose, rows, suspended>>

Crash ==
    /\ "crash" \in Faults
    /\ agent # "down"
    /\ Die
    /\ UNCHANGED journalVars

\* The agent dies while it appends a record.
CrashInPush ==
    /\ "torn" \in Faults
    /\ Idle /\ clock > windowStart /\ Len(built) < MaxReports
    /\ built' = Append(built, [start |-> windowStart, end |-> clock])
    /\ journal' = Append(journal, Torn)
    /\ unwritten' = unwritten \cup {Len(built) + 1}
    /\ UNCHANGED evicted
    /\ Die

\* main: a fresh window opens now, and its timer starts.
Restart ==
    /\ agent = "down"
    /\ agent' = "up"
    /\ windowStart' = clock /\ nextClose' = clock + Period
    /\ UNCHANGED <<clock, journalVars, deliverVars, rpc, serverVars>>

Tick ==
    /\ clock < MaxClock
    /\ clock' = clock + 1
    /\ UNCHANGED <<agentVars, journalVars, deliverVars, rpc, serverVars>>

\* The wall clock is set back; the timer does not follow it.  Bounds: the timer's
\* next firing stays a natural number, and there is a report left to build, as the
\* clock has no say in what becomes of those that are built.
StepBack ==
    /\ "clock" \in Faults
    /\ clock > 0 /\ nextClose > 0
    /\ Len(built) < MaxReports
    /\ clock' = clock - 1
    /\ nextClose' = nextClose - 1
    /\ UNCHANGED <<agent, windowStart, journalVars, deliverVars, rpc, serverVars>>

SetSuspension ==
    /\ "suspend" \in Faults
    /\ suspended' = ~suspended
    /\ UNCHANGED <<clock, agentVars, journalVars, deliverVars, rpc, orphans, rows>>

-----------------------------------------------------------------------------

Deliver == StartDelivery \/ Submit \/ TakeAck \/ TakeRefusal \/ Trim

Agent ==
    \/ \E sampled \in BOOLEAN : CloseWindow(sampled) \/ Stop(sampled)
    \/ Deliver \/ StopEmpty \/ Restart

Server == Accept \/ Write \/ \E w \in Reports : WriteOrphan(w)

Environment ==
    \/ LoseCall \/ Crash \/ CrashInPush
    \/ Tick \/ StepBack \/ SetSuspension

Next == Agent \/ Server \/ Environment

Spec == Init /\ [][Next]_vars

\* The delivery timer keeps firing, a stopped agent is started again, and the
\* connection holds often enough for a call to get through.
FairSpec ==
    /\ Spec
    /\ WF_vars(Restart)
    /\ SF_vars(StartDelivery) /\ SF_vars(Submit) /\ SF_vars(TakeAck)
    /\ SF_vars(TakeRefusal) /\ SF_vars(Trim) /\ SF_vars(Accept) /\ SF_vars(Write)

-----------------------------------------------------------------------------
(* Properties.                                                              *)

\* Every variable holds what its code counterpart can hold.
TypeOK ==
    /\ clock \in 0 .. MaxClock
    /\ agent \in {"up", "stopping", "down"}
    /\ windowStart \in 0 .. MaxClock
    /\ nextClose \in Nat
    /\ built \in Seq(Window)
    /\ Len(built) <= MaxReports
    /\ journal \in Seq(Reports \cup {Torn})
    /\ evicted \subseteq Reports /\ unwritten \subseteq Reports
    /\ task \in {"idle", "sending", "trimming"}
    /\ batch \in Seq(Reports)
    /\ delivered \in 0 .. Len(batch)
    /\ rpc \in {"none", "sent", "writing", "acked", "refused"}
    /\ orphans \subseteq Reports
    /\ rows \in [Reports -> Nat]
    /\ suspended \in BOOLEAN

Stored(w) == rows[w] = 1

\* A report nobody will see again, and nobody was told of.
Lost(w) ==
    /\ w <= Len(built) /\ ~Stored(w)
    /\ w \notin In(Readable(journal)) \cup evicted \cup unwritten

\* Through lost calls, lost answers, writes that outlive their call, failed disk
\* writes, crashes and restarts: a report the node built is waiting in the
\* journal or stored, unless the node said it could not write it or the limit
\* dropped it, and the limit never drops the report that has just been pushed.  A
\* record that was cut short costs the reports that are appended behind it, and none
\* that were there before.
NothingLost ==
    [][/\ \A w \in Reports :
              Lost(w)' => Lost(w) \/ (w > Len(built) /\ Torn \in In(journal))
       /\ \A w \in evicted' \ evicted : w <= Len(built) \/ Torn \in In(journal)]_vars

\* However often a report is sent again, and although a write the node gave up
\* on may still be running when it does, no window is stored twice.
OneRowPerWindow ==
    \A w \in 1 .. Len(built) :
        /\ rows[w] <= 1
        /\ \A v \in 1 .. Len(built) : v # w /\ Stored(v) /\ Stored(w) => Key(v) # Key(w)

\* The server never stores this report, or one that goes before it: deliver stops at
\* the first refusal, and such a record stays where it is.
HeldUp(w) ==
    LET p == Readable(journal) IN
    \E i, k \in DOMAIN p : i <= k /\ p[k] = w /\ ~Storable(p[i])

\* The server has another window of this second, as after a clock that was set back.
SecondTaken(w) ==
    /\ w <= Len(built)
    /\ \E v \in 1 .. Len(built) : v # w /\ Stored(v) /\ Key(v) = Key(w)

\* A report that can be read from the journal gets a row of its own sooner or later,
\* through lost calls, refusals, torn records and a limit that drops some.  There are
\* two exceptions, and the first is an outage without end: a window that rounds to no
\* length is refused every time and holds up whatever is behind it, though nothing
\* before it.  The other is lost: with the clock set back, a window that starts
\* in the second of one that is stored is acknowledged and has no row.
JournalledReportsLand ==
    \A w \in Reports :
        (w \in In(Readable(journal)) /\ ~HeldUp(w))
            ~> (Stored(w) \/ w \in evicted \/ SecondTaken(w))

\* What became of a report, as the rest of the system sees it.
Fate(w) ==
    CASE w > Len(built) -> "unmade"
      [] w <= Len(built) ->
             IF rows[w] > 0 THEN "stored"
             ELSE IF w \in In(Readable(journal)) THEN "waiting" ELSE "gone"

Channel == INSTANCE ReportChannel WITH fate <- [w \in Reports |-> Fate(w)]

\* The journal, the calls and the handler together are no more than a channel that
\* takes each report once and in the order they were made, whatever is sent again,
\* given up on, restarted or trimmed in between.
ReportsLandInOrder == Channel!ChannelSpec

=============================================================================
