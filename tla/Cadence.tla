------------------------------ MODULE Cadence -------------------------------
(***************************************************************************)
(* When nodes deliver, and what clocks have to do with it.  The server     *)
(* answers with its own time and with the time of the node's slot, and the *)
(* node sleeps for the difference, whatever its clock reads; the offset of  *)
(* that clock it reports with its health.  Times are in ms, and the        *)
(* server's is kept within the cycle.                                      *)
(***************************************************************************)
EXTENDS Integers, FiniteSets

CONSTANTS
    Nodes,       \* bound: ids of nodes
    Cycles,      \* nodes.report_cycle_ms, zero for the default
    Waits,       \* bound: how long an answer may be on its way
    Skews,       \* bound: seconds by which a node's clock may be off
    MaxMissed,   \* bound: deliveries without an answer
    Never

\* DEFAULT_CYCLE_MS, and MAX_DEFERRAL, the default of the window, CLOCK_OFFSET_RANGE.
DefaultCycle == 60000
MaxDeferral == 300000
Window == 60000
ClockOffsets == -3600 .. 3600

\* SLOT_SPREAD is 2654435761; 2654400000 is a multiple of every cycle used here.
SlotSpread == 35761

ASSUME CadenceAssumption ==
    /\ Nodes \subseteq Nat /\ Waits \subseteq Nat /\ Never \notin Int
    /\ \E longest \in Waits : \A w \in Waits : w <= longest
    /\ \A c \in Cycles \ {0} : c \in Nat /\ 26544 % (c \div 100000) = 0 /\ c % 100000 = 0

VARIABLES
    cycle,    \* the cycle of the fleet, Never until it is set up
    phase,    \* how far the server's clock is into it
    delay,    \* Client::delivery_delay of each node, Never without an answer
    due,      \* the time to each node's delivery
    missed,   \* its deliveries without an answer
    skew,     \* by how much its clock is off
    observed,   \* Client::clock_offset_seconds, Never without an answer
    health    \* what came of its last health report

cadenceVars == <<cycle, phase, delay, due, missed, skew, observed, health>>

CadenceInit ==
    /\ cycle = Never /\ phase = 0
    /\ delay = [n \in Nodes |-> Never]
    /\ due = [n \in Nodes |-> Window]
    /\ missed = [n \in Nodes |-> 0]
    /\ skew = [n \in Nodes |-> 0]
    /\ observed = [n \in Nodes |-> Never]
    /\ health = [n \in Nodes |-> "none"]

Configure(c) ==
    /\ cycle = Never
    /\ cycle' = IF c > 0 THEN c ELSE DefaultCycle
    /\ UNCHANGED <<phase, delay, due, missed, skew, observed, health>>

\* Nodes are numbered from one, and no product here is wide enough to wrap.
Slot(n) == (n * SlotSpread) % cycle

\* report_schedule: the next time of the slot, strictly after now.
NextReport(n, now) == IF Slot(n) <= now THEN Slot(n) + cycle ELSE Slot(n)

Sooner(a, b) == IF a < b THEN a ELSE b

\* What if the node took its own clock for the server's?
ScheduleDelayByOwnClock(n, issued, next) ==
    LET gap == next - (issued + 1000 * skew[n]) IN Sooner(IF gap < 0 THEN 0 ELSE gap, MaxDeferral)

\* schedule_delay: both times are the server's.
ScheduleDelay(n, issued, next) == Sooner(next - issued, MaxDeferral)

\* What if only the first answer told the node how far it is off?
ObserveFirst(n) == IF observed[n] = Never THEN skew[n] ELSE observed[n]

\* observe_server_time.
Observe(n) == skew[n]

\* The timers of the others run on for so long.
After(time) == [m \in Nodes |-> IF due[m] < time THEN 0 ELSE due[m] - time]

Sleeps(n, time, for) == [After(time) EXCEPT ![n] = IF for = Never THEN Window ELSE for]

First(n) == cycle # Never /\ \A m \in Nodes : due[n] <= due[m]

\* The server takes it once the call is there, and the answer needs as long.
Delivered(n, wait) ==
    LET at == (phase + due[n] + wait) % cycle IN
    /\ First(n)
    /\ delay' = [delay EXCEPT ![n] = ScheduleDelay(n, at, NextReport(n, at))]
    /\ due' = Sleeps(n, due[n] + 2 * wait, delay'[n])
    /\ phase' = (phase + due[n] + 2 * wait) % cycle
    /\ observed' = [observed EXCEPT ![n] = Observe(n)]
    /\ UNCHANGED <<cycle, missed, skew, health>>

\* Nothing was in the journal, or the call was lost: the delay is the old one.
Missed(n) ==
    /\ First(n) /\ missed[n] < MaxMissed
    /\ due' = Sleeps(n, due[n], delay[n])
    /\ phase' = (phase + due[n]) % cycle
    /\ missed' = [missed EXCEPT ![n] = @ + 1]
    /\ UNCHANGED <<cycle, delay, skew, observed, health>>

\* The system clock is set, or is wrong after a restart.
SetClock(n, seconds) ==
    /\ skew[n] # seconds /\ skew' = [skew EXCEPT ![n] = seconds]
    /\ UNCHANGED <<cycle, phase, delay, due, missed, observed, health>>

\* report_health and validate::health: an offset out of range has the whole report
\* refused, and an answer is what tells the node its offset.
ReportHealth(n) ==
    LET accepted == observed[n] = Never \/ observed[n] \in ClockOffsets IN
    /\ health' = [health EXCEPT ![n] = IF accepted THEN "taken" ELSE "refused"]
    /\ observed' = IF accepted THEN [observed EXCEPT ![n] = Observe(n)] ELSE observed
    /\ UNCHANGED <<cycle, phase, delay, due, missed, skew>>

CadenceNext ==
    \/ \E c \in Cycles : Configure(c)
    \/ \E n \in Nodes :
           \/ \E wait \in Waits : Delivered(n, wait)
           \/ Missed(n)
           \/ \E seconds \in Skews : SetClock(n, seconds)
           \/ ReportHealth(n)

\* The server is set up, health is reported on a timer of its own, and a node that has something to
\* deliver is answered again and again.
CadenceFairness ==
    /\ WF_cadenceVars(\E c \in Cycles : Configure(c))
    /\ \A n \in Nodes :
           /\ WF_cadenceVars(ReportHealth(n))
           /\ SF_cadenceVars(\E wait \in Waits : Delivered(n, wait))

-----------------------------------------------------------------------------
(* Properties.                                                              *)

Longest == CHOOSE w \in Waits : \A v \in Waits : v <= w

\* A delivery that was answered has the next one in the node's slot of the
\* server's time, late by the way of the answer at most, or at once five minutes
\* on where the slot is further off than that; no clock that is wrong moves it, and
\* no node is sent back at once to deliver again.
SlotsAreKept ==
    [][\A n \in Nodes : (\E wait \in Waits : Delivered(n, wait)) =>
        /\ due'[n] \in 1 .. MaxDeferral
        /\ \/ due'[n] = MaxDeferral
           \/ (phase' + due'[n] - Slot(n)) % cycle <= Longest]_cadenceVars

\* A node whose clock has been set right is heard again: the offset that had its
\* health refused does not stick, although a refused report teaches it no better.
HealthIsHeardAgain ==
    \A n \in Nodes : <>[](skew[n] \in ClockOffsets) => <>[](health[n] # "refused")

=============================================================================
