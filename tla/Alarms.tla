------------------------------- MODULE Alarms -------------------------------
(***************************************************************************)
(* The alarm life of the server: the detector that raises alarms, the      *)
(* three handlers that move them (transition, dispatch, complete), the     *)
(* work orders, and the broadcast of every change.                         *)
(*                                                                         *)
(* PostgreSQL is modelled by its committed rows.  A handler's transaction  *)
(* takes its row locks (SELECT ... FOR UPDATE) in one step and commits in  *)
(* a later one, so that other handlers and the detector run in between; a  *)
(* lock is held exactly while some request is in the phase that follows    *)
(* the locking read.  The detector takes no locks at all.                  *)
(***************************************************************************)
EXTENDS Naturals, Sequences, FiniteSets

CONSTANTS
    Nodes,        \* measuring nodes
    Series,       \* (node, channel, metric) triples the nodes report
    SeriesNode,   \* the node of each series
    AlarmIds,     \* primary keys the alarms table may hand out
    OrderIds,     \* primary keys the work_orders table may hand out
    Users,
    Role,         \* the role of each user
    Requests,     \* HTTP requests the server works on at once
    Faults,       \* which of "db", "disconnect", "crash" may happen
    None

Roles == {"technician", "operator", "administrator", "reader"}

ASSUME SeriesAssumption == SeriesNode \in [Series -> Nodes] /\ Series \cap Nodes = {}
ASSUME RoleAssumption == Role \in [Users -> Roles]
ASSUME NoneAssumption == None \notin Users \cup AlarmIds \cup OrderIds \cup Series \cup Nodes

VARIABLES
    subject,      \* alarm row: what it is about, a series or a silent node
    state,        \* alarm row: "unraised" stands for a row not inserted yet
    closedAt,     \* alarm row: whether closed_at carries a time
    trail,        \* alarm_events rows of each alarm, oldest first
    order,        \* work_orders rows
    phase,        \* how far each request has come
    call,         \* what each request asks for, and what it read about its user
    from,         \* the alarm state each request read under its row lock
    pass,         \* how far the detection pass has come
    todo,         \* subjects the pass still has to look at
    deviations,   \* alarms detector::run handed back
    silences,     \* alarms detector::silence handed back
    published,    \* alarm events broadcast so far, as <<alarm, state>>
    deviant,      \* series whose last three windows all lie out of band
    contact,      \* whether each node was never seen, is reporting, or is quiet
    suspended     \* nodes an administrator has suspended

rowVars == <<subject, state, closedAt, trail>>
requestVars == <<phase, call, from>>
detectorVars == <<pass, todo, deviations, silences>>
worldVars == <<deviant, contact, suspended>>
vars == <<rowVars, order, requestVars, detectorVars, published, worldVars>>

-----------------------------------------------------------------------------
(* Rows and types. *)

Subjects == Series \cup Nodes

\* alarms.node_id: a silence alarm has neither channel nor metric.
NodeOf(k) == IF k \in Series THEN SeriesNode[k] ELSE k

LifecycleStates == {"open", "acknowledged", "under_verification", "closed"}

Event == [from : LifecycleStates \cup {None}, to : LifecycleStates, by : Users \cup {None}]

NoOrder == [alarm |-> None, technician |-> None, status |-> "absent"]

OrderRow == {NoOrder} \cup
    [alarm : AlarmIds, technician : Users, status : {"assigned", "completed"}]

NoCall == [op |-> "none", by |-> None, alarm |-> None, order |-> None,
           technician |-> None, to |-> None, sees |-> {}]

Transition ==
    [op : {"transition"}, by : Users, alarm : AlarmIds, order : {None},
     technician : {None}, to : LifecycleStates, sees : SUBSET Nodes]

Dispatch ==
    [op : {"dispatch"}, by : Users, alarm : AlarmIds, order : {None},
     technician : Users, to : {"under_verification"}, sees : SUBSET Nodes]

Completion ==
    [op : {"complete"}, by : Users, alarm : AlarmIds \cup {None}, order : OrderIds,
     technician : {None}, to : {"closed"}, sees : SUBSET Nodes]

Call == {NoCall} \cup Transition \cup Dispatch \cup Completion

Phases == {"idle", "resolved", "order_locked", "locked", "committed"}

Passes == {"waiting", "judged", "deviations", "quiet", "silences", "readback", "announcing"}

Init ==
    /\ subject = [a \in AlarmIds |-> None]
    /\ state = [a \in AlarmIds |-> "unraised"]
    /\ closedAt = [a \in AlarmIds |-> FALSE]
    /\ trail = [a \in AlarmIds |-> << >>]
    /\ order = [o \in OrderIds |-> NoOrder]
    /\ phase = [r \in Requests |-> "idle"]
    /\ call = [r \in Requests |-> NoCall]
    /\ from = [r \in Requests |-> None]
    /\ pass = "waiting"
    /\ todo = {}
    /\ deviations = {}
    /\ silences = {}
    /\ published = {}
    /\ deviant = {}
    /\ contact = [n \in Nodes |-> "unseen"]
    /\ suspended = {}

-----------------------------------------------------------------------------
(* What a user may do: api/visibility.rs. *)

\* Every alarm the listing calls open: not closed, whatever step it is on.
Open(a) == state[a] \notin {"unraised", "closed"}

\* What if acknowledged alarms did not count as open?
HasUnacknowledged(k) == \E a \in AlarmIds : state[a] = "open" /\ subject[a] = k

HasOpen(k) == \E a \in AlarmIds : Open(a) /\ subject[a] = k

\* What if technicians saw the fleet?
SeesFleet(u) == Nodes

\* visibility::resolve: a technician sees the nodes behind his own work
\* orders, completed ones included; every other role sees the fleet.
Sees(u) ==
    IF Role[u] = "technician"
    THEN {NodeOf(subject[order[o].alarm]) : o \in {p \in OrderIds :
             order[p].status # "absent" /\ order[p].technician = u}}
    ELSE Nodes

MayAct(u) == Role[u] # "reader"

MayDispatch(u) == Role[u] \in {"operator", "administrator"}

MayComplete(u, assignee) == MayAct(u) /\ (assignee = u \/ Role[u] = "administrator")

\* What if a closed alarm could be reopened?
MayTransitionOrReopen(was, to) ==
    \/ was \in {"open", "closed"} /\ to \in {"open", "acknowledged"} /\ was # to
    \/ was = "acknowledged" /\ to = "under_verification"
    \/ was \in {"open", "acknowledged", "under_verification"} /\ to = "closed"

\* The lifecycle as alarms.rs draws it.
MayTransition(was, to) ==
    \/ was = "open" /\ to = "acknowledged"
    \/ was = "acknowledged" /\ to = "under_verification"
    \/ was \in {"open", "acknowledged", "under_verification"} /\ to = "closed"

-----------------------------------------------------------------------------
(* The handlers.  A request the role check refuses changes nothing and is   *)
(* not a step; one refused later goes back to idle with its transaction     *)
(* rolled back.                                                             *)

Start(r, c) ==
    /\ phase[r] = "idle"
    /\ phase' = [phase EXCEPT ![r] = "resolved"]
    /\ call' = [call EXCEPT ![r] = c]
    /\ UNCHANGED <<from, rowVars, order, detectorVars, published, worldVars>>

StartTransition(r, u, a, to) ==
    /\ MayAct(u)
    /\ Start(r, [op |-> "transition", by |-> u, alarm |-> a, order |-> None,
                 technician |-> None, to |-> to, sees |-> Sees(u)])

\* Bound: as many orders are dispatched, or being dispatched, as OrderIds has
\* keys for.
OrderIdsLeft ==
    Cardinality({o \in OrderIds : order[o].status = "absent"})
        > Cardinality({r \in Requests : call[r].op = "dispatch" /\ phase[r] # "committed"})

\* The technician is only checked by the foreign key: any user will do.
StartDispatch(r, u, a, technician) ==
    /\ MayDispatch(u)
    /\ OrderIdsLeft
    /\ Start(r, [op |-> "dispatch", by |-> u, alarm |-> a, order |-> None,
                 technician |-> technician, to |-> "under_verification", sees |-> Sees(u)])

\* The assignee is read before the transaction; orders are never reassigned.
StartComplete(r, u, o) ==
    /\ order[o].status # "absent"
    /\ MayComplete(u, order[o].technician)
    /\ Start(r, [op |-> "complete", by |-> u, alarm |-> None, order |-> o,
                 technician |-> None, to |-> "closed", sees |-> Sees(u)])

Idle(r) ==
    /\ phase' = [phase EXCEPT ![r] = "idle"]
    /\ call' = [call EXCEPT ![r] = NoCall]
    /\ from' = [from EXCEPT ![r] = None]

\* What if the rows were read without FOR UPDATE?
RowUnlocked(row) == TRUE

OrderFree(o) ==
    \A r \in Requests : phase[r] \in {"order_locked", "locked"} => call[r].order # o

AlarmFree(a) == \A r \in Requests : phase[r] = "locked" => call[r].alarm # a

\* complete: SELECT alarm_id, status FROM work_orders ... FOR UPDATE
LockOrder(r) ==
    /\ phase[r] = "resolved" /\ call[r].op = "complete"
    /\ OrderFree(call[r].order)
    /\ order[call[r].order].status # "completed"
    /\ phase' = [phase EXCEPT ![r] = "order_locked"]
    /\ call' = [call EXCEPT ![r].alarm = order[call[r].order].alarm]
    /\ UNCHANGED <<from, rowVars, order, detectorVars, published, worldVars>>

RefuseOrder(r) ==
    /\ phase[r] = "resolved" /\ call[r].op = "complete"
    /\ OrderFree(call[r].order)
    /\ order[call[r].order].status = "completed"
    /\ Idle(r)
    /\ UNCHANGED <<rowVars, order, detectorVars, published, worldVars>>

ReadyForAlarm(r) ==
    \/ phase[r] = "resolved" /\ call[r].op \in {"transition", "dispatch"}
    \/ phase[r] = "order_locked"

\* What if dispatch did not look at the state it found?
PermittedBlindly(r) ==
    LET a == call[r].alarm IN
    /\ call[r].op = "transition" =>
          /\ NodeOf(subject[a]) \in call[r].sees
          /\ MayTransition(state[a], call[r].to)
    /\ call[r].op = "complete" => state[a] # "unraised"

\* What the handler checks on the alarm row once it holds its lock.  The node
\* is matched against the set resolved before the transaction began.
Permitted(r) ==
    LET a == call[r].alarm IN
    /\ state[a] # "unraised"
    /\ call[r].op = "transition" =>
          /\ NodeOf(subject[a]) \in call[r].sees
          /\ MayTransition(state[a], call[r].to)
    /\ call[r].op = "dispatch" => state[a] # "closed"

\* What if the move were broadcast inside the transaction?
LockAndBroadcast(r) ==
    /\ ReadyForAlarm(r)
    /\ AlarmFree(call[r].alarm)
    /\ Permitted(r)
    /\ phase' = [phase EXCEPT ![r] = "locked"]
    /\ from' = [from EXCEPT ![r] = state[call[r].alarm]]
    /\ published' = published \cup {<<call[r].alarm, call[r].to>>}
    /\ UNCHANGED <<call, rowVars, order, detectorVars, worldVars>>

LockAlarm(r) ==
    /\ ReadyForAlarm(r)
    /\ AlarmFree(call[r].alarm)
    /\ Permitted(r)
    /\ phase' = [phase EXCEPT ![r] = "locked"]
    /\ from' = [from EXCEPT ![r] = state[call[r].alarm]]
    /\ UNCHANGED <<call, rowVars, order, detectorVars, published, worldVars>>

RefuseAlarm(r) ==
    /\ ReadyForAlarm(r)
    /\ AlarmFree(call[r].alarm)
    /\ ~Permitted(r)
    /\ Idle(r)
    /\ UNCHANGED <<rowVars, order, detectorVars, published, worldVars>>

\* Dispatching an alarm already under verification, or completing an order
\* whose alarm is closed, leaves the alarm alone.
Moves(r) == from[r] # call[r].to

\* UPDATE alarms and INSERT INTO alarm_events, both from the state read under
\* the lock.
Record(r) ==
    LET a == call[r].alarm IN
    /\ state' = [state EXCEPT ![a] = call[r].to]
    /\ trail' = [trail EXCEPT ![a] =
                    Append(@, [from |-> from[r], to |-> call[r].to, by |-> call[r].by])]
    /\ UNCHANGED subject

Committed(r) ==
    /\ phase' = [phase EXCEPT ![r] = "committed"]
    /\ UNCHANGED <<call, from, detectorVars, published, worldVars>>

CommitTransition(r) ==
    /\ phase[r] = "locked" /\ call[r].op = "transition"
    /\ Record(r)
    /\ closedAt' = [closedAt EXCEPT ![call[r].alarm] = (call[r].to = "closed")]
    /\ UNCHANGED order
    /\ Committed(r)

CommitDispatch(r, o) ==
    /\ phase[r] = "locked" /\ call[r].op = "dispatch"
    /\ order[o].status = "absent"
    /\ order' = [order EXCEPT ![o] = [alarm |-> call[r].alarm,
                                      technician |-> call[r].technician,
                                      status |-> "assigned"]]
    /\ IF Moves(r) THEN Record(r) ELSE UNCHANGED <<subject, state, trail>>
    /\ UNCHANGED closedAt
    /\ Committed(r)

CommitComplete(r) ==
    /\ phase[r] = "locked" /\ call[r].op = "complete"
    /\ order' = [order EXCEPT ![call[r].order].status = "completed"]
    /\ IF Moves(r)
       THEN Record(r) /\ closedAt' = [closedAt EXCEPT ![call[r].alarm] = TRUE]
       ELSE UNCHANGED rowVars
    /\ Committed(r)

\* publish_alarm(StateChanged), after the commit and only for a real move.
Publish(r) ==
    /\ phase[r] = "committed"
    /\ published' = IF Moves(r) THEN published \cup {<<call[r].alarm, call[r].to>>}
                                ELSE published
    /\ Idle(r)
    /\ UNCHANGED <<rowVars, order, detectorVars, worldVars>>

\* A statement fails: the transaction rolls back and the handler answers 500.
RollBack(r) ==
    /\ "db" \in Faults
    /\ phase[r] \in {"resolved", "order_locked", "locked"}
    /\ Idle(r)
    /\ UNCHANGED <<rowVars, order, detectorVars, published, worldVars>>

\* The client hangs up and the handler's future is dropped at an await.  A
\* transaction already handed to the pool's thread still runs to its end, so
\* the drop falls before it starts or after it has committed.
Abandon(r) ==
    /\ "disconnect" \in Faults
    /\ phase[r] \in {"resolved", "committed"}
    /\ Idle(r)
    /\ UNCHANGED <<rowVars, order, detectorVars, published, worldVars>>

-----------------------------------------------------------------------------
(* The detection pass: jobs/mod.rs detect_once, jobs/detector.rs.           *)

\* detector::run: the recent windows and baselines, judged.
Judge ==
    /\ pass = "waiting"
    /\ pass' = "judged"
    /\ todo' = deviant
    /\ UNCHANGED <<rowVars, order, requestVars, deviations, silences, published, worldVars>>

\* What if an alarm once raised counted for ever?
FilterRaised ==
    /\ pass = "judged"
    /\ pass' = "deviations"
    /\ todo' = {k \in todo : \A a \in AlarmIds : subject[a] # k}
    /\ UNCHANGED <<rowVars, order, requestVars, deviations, silences, published, worldVars>>

\* open_alarms, a later statement outside any transaction.
FilterOpen ==
    /\ pass = "judged"
    /\ pass' = "deviations"
    /\ todo' = {k \in todo : ~HasOpen(k)}
    /\ UNCHANGED <<rowVars, order, requestVars, deviations, silences, published, worldVars>>

\* detector::raise: the alarm and its opening event in one transaction.
Raise(a, k) ==
    /\ state[a] = "unraised"
    /\ subject' = [subject EXCEPT ![a] = k]
    /\ state' = [state EXCEPT ![a] = "open"]
    /\ trail' = [trail EXCEPT ![a] = <<[from |-> None, to |-> "open", by |-> None]>>]
    /\ todo' = todo \ {k}
    /\ UNCHANGED <<closedAt, order, requestVars, pass, published, worldVars>>

RaiseDeviation(a, k) ==
    /\ pass = "deviations" /\ k \in todo
    /\ Raise(a, k)
    /\ deviations' = deviations \cup {a}
    /\ UNCHANGED silences

\* detector::silence: nodes not suspended and not heard from for ten minutes.
ReadQuiet ==
    /\ pass = "deviations" /\ todo = {}
    /\ pass' = "quiet"
    /\ todo' = {n \in Nodes : contact[n] = "quiet" /\ n \notin suspended}
    /\ UNCHANGED <<rowVars, order, requestVars, deviations, silences, published, worldVars>>

FilterSilent ==
    /\ pass = "quiet"
    /\ pass' = "silences"
    /\ todo' = {n \in todo : ~HasOpen(n)}
    /\ UNCHANGED <<rowVars, order, requestVars, deviations, silences, published, worldVars>>

RaiseSilence(a, n) ==
    /\ pass = "silences" /\ n \in todo
    /\ Raise(a, n)
    /\ silences' = silences \cup {a}
    /\ UNCHANGED deviations

\* publish returns at once when the pass raised nothing.
EndSilences ==
    /\ pass = "silences" /\ todo = {}
    /\ pass' = IF deviations \cup silences = {} THEN "waiting" ELSE "readback"
    /\ UNCHANGED <<rowVars, order, requestVars, todo, deviations, silences, published, worldVars>>

\* An error ends detector::run, and the ids it had collected go with it.
FailDeviations ==
    /\ "db" \in Faults
    /\ pass = "judged" \/ (pass = "deviations" /\ todo # {})
    /\ pass' = "deviations"
    /\ todo' = {}
    /\ deviations' = {}
    /\ UNCHANGED <<rowVars, order, requestVars, silences, published, worldVars>>

FailSilences ==
    /\ "db" \in Faults
    /\ pass = "quiet" \/ (pass = "silences" /\ todo # {})
    /\ pass' = "silences"
    /\ todo' = {}
    /\ silences' = {}
    /\ UNCHANGED <<rowVars, order, requestVars, deviations, published, worldVars>>

\* raised_notices reads the alarms back by id before they are announced.
ReadBack ==
    /\ pass = "readback"
    /\ pass' = "announcing"
    /\ UNCHANGED <<rowVars, order, requestVars, todo, deviations, silences, published, worldVars>>

\* A failed read-back is an empty list, and nothing is announced.
FailReadBack ==
    /\ "db" \in Faults
    /\ pass = "readback"
    /\ pass' = "waiting"
    /\ deviations' = {} /\ silences' = {}
    /\ UNCHANGED <<rowVars, order, requestVars, todo, published, worldVars>>

\* What if the loop over the notices stopped after the first?
AnnounceOne(a) ==
    /\ pass = "announcing"
    /\ a \in deviations \cup silences
    /\ published' = published \cup {<<a, "open">>}
    /\ deviations' = {} /\ silences' = {}
    /\ pass' = "waiting"
    /\ UNCHANGED <<rowVars, order, requestVars, todo, worldVars>>

\* publish_alarm(Raised) and the awaited notification, one alarm at a time.
Announce(a) ==
    /\ pass = "announcing"
    /\ a \in deviations \cup silences
    /\ published' = published \cup {<<a, "open">>}
    /\ deviations' = deviations \ {a} /\ silences' = silences \ {a}
    /\ pass' = IF (deviations \cup silences) \ {a} = {} THEN "waiting" ELSE pass
    /\ UNCHANGED <<rowVars, order, requestVars, todo, worldVars>>

-----------------------------------------------------------------------------
(* The world the detector reads, and the end of the process.                *)

\* submit_measurements: windows and last_seen_at in one transaction; a
\* suspended node is turned away before it.
Report(n, bad) ==
    /\ n \notin suspended
    /\ contact' = [contact EXCEPT ![n] = "reporting"]
    /\ deviant' = {k \in deviant : SeriesNode[k] # n} \cup bad
    /\ UNCHANGED <<rowVars, order, requestVars, detectorVars, published, suspended>>

FallQuiet(n) ==
    /\ contact[n] = "reporting"
    /\ contact' = [contact EXCEPT ![n] = "quiet"]
    /\ UNCHANGED <<rowVars, order, requestVars, detectorVars, published, deviant, suspended>>

\* Windows older than an hour no longer count.
AgeOut(n) ==
    /\ contact[n] = "quiet"
    /\ \E k \in deviant : SeriesNode[k] = n
    /\ deviant' = {k \in deviant : SeriesNode[k] # n}
    /\ UNCHANGED <<rowVars, order, requestVars, detectorVars, published, contact, suspended>>

SetSuspension(n) ==
    /\ suspended' = IF n \in suspended THEN suspended \ {n} ELSE suspended \cup {n}
    /\ UNCHANGED <<rowVars, order, requestVars, detectorVars, published, deviant, contact>>

\* The process dies: open transactions roll back, memory is gone.
Crash ==
    /\ "crash" \in Faults
    /\ phase' = [r \in Requests |-> "idle"]
    /\ call' = [r \in Requests |-> NoCall]
    /\ from' = [r \in Requests |-> None]
    /\ pass' = "waiting"
    /\ todo' = {} /\ deviations' = {} /\ silences' = {}
    /\ UNCHANGED <<rowVars, order, published, worldVars>>

-----------------------------------------------------------------------------

Serve(r) ==
    \/ LockOrder(r) \/ RefuseOrder(r)
    \/ LockAlarm(r) \/ RefuseAlarm(r)
    \/ CommitTransition(r)
    \/ \E o \in OrderIds : CommitDispatch(r, o)
    \/ CommitComplete(r)
    \/ Publish(r)

Client(r) ==
    \E u \in Users :
        \/ \E a \in AlarmIds, to \in LifecycleStates : StartTransition(r, u, a, to)
        \/ \E a \in AlarmIds, technician \in Users : StartDispatch(r, u, a, technician)
        \/ \E o \in OrderIds : StartComplete(r, u, o)

Detect ==
    \/ Judge \/ FilterOpen
    \/ \E a \in AlarmIds, k \in Series : RaiseDeviation(a, k)
    \/ ReadQuiet \/ FilterSilent
    \/ \E a \in AlarmIds, n \in Nodes : RaiseSilence(a, n)
    \/ EndSilences \/ ReadBack
    \/ \E a \in AlarmIds : Announce(a)

World ==
    \E n \in Nodes :
        \/ \E bad \in SUBSET {k \in Series : SeriesNode[k] = n} : Report(n, bad)
        \/ FallQuiet(n) \/ AgeOut(n) \/ SetSuspension(n)

Fault ==
    \/ \E r \in Requests : RollBack(r) \/ Abandon(r)
    \/ FailDeviations \/ FailSilences \/ FailReadBack
    \/ Crash

Next ==
    \/ \E r \in Requests : Client(r) \/ Serve(r)
    \/ Detect
    \/ World
    \/ Fault

Spec == Init /\ [][Next]_vars

\* The jobs loop never stops.
FairSpec == Spec /\ WF_vars(Detect)

-----------------------------------------------------------------------------
(* Properties. *)

\* Every variable holds rows, phases and sets of the shape the code gives it.
TypeOK ==
    /\ subject \in [AlarmIds -> Subjects \cup {None}]
    /\ state \in [AlarmIds -> LifecycleStates \cup {"unraised"}]
    /\ closedAt \in [AlarmIds -> BOOLEAN]
    /\ trail \in [AlarmIds -> Seq(Event)]
    /\ order \in [OrderIds -> OrderRow]
    /\ phase \in [Requests -> Phases]
    /\ call \in [Requests -> Call]
    /\ from \in [Requests -> LifecycleStates \cup {None}]
    /\ pass \in Passes
    /\ todo \subseteq Subjects
    /\ deviations \subseteq AlarmIds
    /\ silences \subseteq AlarmIds
    /\ published \subseteq AlarmIds \X LifecycleStates
    /\ deviant \subseteq Series
    /\ contact \in [Nodes -> {"unseen", "reporting", "quiet"}]
    /\ suspended \subseteq Nodes

\* No series and no silent node ever has two alarms open at once, although the
\* detector looks for open alarms in one statement and inserts in another, and
\* no unique index backs it up (idx_alarms_open is a plain index).
OneOpenAlarmPerSubject ==
    \A a, b \in AlarmIds : Open(a) /\ Open(b) /\ subject[a] = subject[b] => a = b

HoldsOrder(r) == phase[r] \in {"order_locked", "locked"} /\ call[r].op = "complete"

\* A request knows what it asks for, a completion names an order that exists,
\* and whoever has locked or moved an alarm knows which.
CallsMatchPhases ==
    \A r \in Requests :
        /\ phase[r] # "idle" => call[r].op # "none"
        /\ phase[r] = "order_locked" => call[r].op = "complete"
        /\ phase[r] \in {"order_locked", "locked", "committed"} => call[r].alarm \in AlarmIds
        /\ call[r].op = "complete" => order[call[r].order].status # "absent"

\* The foreign keys: an alarm in the table has its subject, an order its alarm.
RowsReferToRows ==
    /\ \A a \in AlarmIds : state[a] # "unraised" => subject[a] \in Subjects
    /\ \A o \in OrderIds : order[o].status # "absent" => state[order[o].alarm] # "unraised"

\* While a completion holds its order's row lock the order stays as it was
\* read, and no other request holds it.
OrdersHeld ==
    \A r \in Requests : HoldsOrder(r) =>
        /\ order[call[r].order].status = "assigned"
        /\ order[call[r].order].alarm = call[r].alarm
        /\ \A q \in Requests : HoldsOrder(q) /\ call[q].order = call[r].order => q = r

\* While a request holds its alarm's row lock the alarm stays as it was read,
\* what was checked then still holds, and no other request holds it.
AlarmsHeld ==
    \A r \in Requests : phase[r] = "locked" =>
        /\ from[r] = state[call[r].alarm]
        /\ Permitted(r)
        /\ \A q \in Requests : phase[q] = "locked" /\ call[q].alarm = call[r].alarm => q = r

\* What the pass is about to raise has no open alarm: nobody but the pass itself
\* opens alarms, so the answer it read stays good.
TodoUnopened ==
    pass \in {"deviations", "silences"} => \A k \in todo : ~HasOpen(k)

\* The inductive invariant behind the theorems of AlarmsProofs: the reads that
\* handlers and detector act on are still true when they act.
ReadsStayTrue ==
    /\ TypeOK
    /\ RowsReferToRows
    /\ CallsMatchPhases
    /\ OrdersHeld
    /\ AlarmsHeld
    /\ TodoUnopened
    /\ OneOpenAlarmPerSubject

Visited(a) == {trail[a][i].to : i \in 1 .. Len(trail[a])}

\* The events of an alarm read as one unbroken path from its raising to the
\* state it is in, whichever handlers raced for it, and closed_at is set on
\* exactly the closed ones.
AuditTrail ==
    \A a \in AlarmIds :
        /\ state[a] = "unraised" <=> trail[a] = << >>
        /\ state[a] # "unraised" =>
              /\ trail[a][1].from = None
              /\ trail[a][Len(trail[a])].to = state[a]
              /\ \A i \in 1 .. Len(trail[a]) - 1 : trail[a][i + 1].from = trail[a][i].to
        /\ closedAt[a] <=> state[a] = "closed"

\* A technician's name is on an alarm's history only when that technician was
\* sent to the alarm's node, although what he may touch is resolved before the
\* transaction that touches it.
TechniciansStayOnTheirNodes ==
    \A a \in AlarmIds : \A i \in 1 .. Len(trail[a]) :
        LET u == trail[a][i].by IN
        u # None /\ Role[u] = "technician" =>
            \E o \in OrderIds :
                /\ order[o].status # "absent" /\ order[o].technician = u
                /\ NodeOf(subject[order[o].alarm]) = NodeOf(subject[a])

\* A filed field report always leaves the alarm behind it closed, also when
\* someone else moved the alarm while the technician was on the way.
VisitsCloseTheirAlarm ==
    \A o \in OrderIds : order[o].status = "completed" => state[order[o].alarm] = "closed"

\* Nothing is broadcast that was not committed: a dashboard that fetches the
\* alarm on hearing of it finds the move in its history.
HeardAfterCommitted == \A e \in published : e[2] \in Visited(e[1])

ToBePublished(a, s) ==
    \/ s = "open" /\ a \in deviations \cup silences
    \/ \E r \in Requests : phase[r] = "committed" /\ call[r].alarm = a
                            /\ call[r].to = s /\ Moves(r)

\* While nothing fails, every committed step of every alarm is broadcast or in
\* the hands of a handler or of the detector that will broadcast it.
NoStepGoesUnheard ==
    \A a \in AlarmIds : \A s \in Visited(a) : <<a, s>> \in published \/ ToBePublished(a, s)

\* When the detector rests, every alarm it ever raised has been announced.
RaisedAlarmsAreAnnounced ==
    pass = "waiting" => \A a \in AlarmIds : state[a] # "unraised" => <<a, "open">> \in published

\* The alarms and work orders as their readers see them.
Contract == INSTANCE AlarmContract
ContractSpec == Contract!Spec

\* A deviation that stays gets an open alarm again and again, also after people
\* close the alarm on it, as long as the bound leaves a key to raise one with.
StandingDeviationIsRaised ==
    \A k \in Series :
        <>[](k \in deviant)
            => []<>(HasOpen(k) \/ \A a \in AlarmIds : state[a] # "unraised")

=============================================================================
