-------------------------------- MODULE Feed --------------------------------
(***************************************************************************)
(* What an open dashboard is told.  A handler or a job commits a change    *)
(* and says so afterwards, on a broadcast channel that keeps the newest    *)
(* events and drops the oldest of a socket that falls behind.  An event of *)
(* a node is kept until the next flush and carries what to show; an event  *)
(* of an alarm is passed on at once and has the browser read the alarm.    *)
(***************************************************************************)
EXTENDS Naturals, Sequences, FiniteSets

CONSTANTS
    Nodes, Alarms,  \* what may change under an open dashboard
    Views,          \* the sets of nodes and alarms a user may be let to see
    Capacity,       \* CHANNEL_CAPACITY
    MaxChanges      \* bound on the changes of each

ASSUME ViewsAssumption == \A seen \in Views : seen \subseteq Nodes \cup Alarms

VARIABLES
    value,    \* how often the row of each was changed and committed
    unsaid,   \* committed changes that are not published yet
    last,     \* the last published change of each
    page,     \* "none", "loaded", "resolved", "open" or "closed"
    view,     \* what the socket was let to see when it was upgraded
    queue,    \* the receivers of the socket: the events of nodes, of alarms
    told,     \* what the newest event about was queued here and not dropped
    pending,  \* node events kept for the next flush
    loading,  \* alarms whose stub is being replaced by the row it stands for
    shown     \* what the browser shows

committed == <<value, unsaid, last>>
feedVars == <<committed, page, view, queue, told, pending, loading, shown>>

Items == Nodes \cup Alarms
Channels == {Nodes, Alarms}
Event == [item : Items, change : 1..MaxChanges]

FeedInit ==
    /\ value = [i \in Items |-> 0] /\ unsaid = {} /\ last = value
    /\ page = "none" /\ view = {}
    /\ queue = [c \in Channels |-> <<>>] /\ told = {}
    /\ pending = {} /\ loading = {} /\ shown = value

-----------------------------------------------------------------------------
(* Those who publish: set_suspension, submit_measurements, the detector,    *)
(* transition, dispatch, complete.                                          *)

Commit(i) ==
    /\ value[i] < MaxChanges
    /\ value' = [value EXCEPT ![i] = @ + 1]
    /\ unsaid' = unsaid \cup {[item |-> i, change |-> value'[i]]}
    /\ UNCHANGED <<last, page, view, queue, told, pending, loading, shown>>

\* A full receiver loses its oldest event; its item is not told of any more
\* unless a newer event of it is still queued.
Push(c, event) ==
    LET kept == IF Len(queue[c]) < Capacity THEN queue[c] ELSE Tail(queue[c])
        lost == IF Len(queue[c]) < Capacity THEN {} ELSE {Head(queue[c]).item}
        still == {kept[n].item : n \in DOMAIN kept} IN
    /\ queue' = [queue EXCEPT ![c] = Append(kept, event)]
    /\ told' = (told \ (lost \ still)) \cup {event.item}

\* publish_node, publish_alarm: a send to whoever is subscribed.
Publish(event) ==
    /\ event \in unsaid
    /\ unsaid' = unsaid \ {event}
    /\ last' = [last EXCEPT ![event.item] = event.change]
    /\ IF page = "open"
       THEN \E c \in Channels : event.item \in c /\ Push(c, event)
       ELSE UNCHANGED <<queue, told>>
    /\ UNCHANGED <<value, page, view, pending, loading, shown>>

-----------------------------------------------------------------------------
(* The browser and its socket: dashboard, ws.rs upgrade, run.               *)

\* The page is rendered from the rows.
Load ==
    /\ page = "none" /\ page' = "loaded"
    /\ shown' = value
    /\ UNCHANGED <<committed, view, queue, told, pending, loading>>

\* upgrade resolves what the user may see; run subscribes later.
Resolve ==
    /\ page = "loaded" /\ page' = "resolved"
    /\ view' \in Views
    /\ UNCHANGED <<committed, queue, told, pending, loading, shown>>

Subscribe ==
    /\ page = "resolved" /\ page' = "open"
    /\ UNCHANGED <<committed, view, queue, told, pending, loading, shown>>

\* What if the first event of a node were kept until the flush?
KeepFirst(event) ==
    IF \E kept \in pending : kept.item = event.item THEN pending ELSE pending \cup {event}

\* HashMap::insert: the newest event of a node replaces the one before.
Keep(event) == {kept \in pending : kept.item # event.item} \cup {event}

Receive(c) ==
    /\ page = "open" /\ queue[c] # <<>>
    /\ LET event == Head(queue[c]) IN
       /\ queue' = [queue EXCEPT ![c] = Tail(@)]
       /\ pending' = IF c = Nodes /\ event.item \in view THEN Keep(event) ELSE pending
       /\ loading' = IF c = Alarms /\ event.item \in view THEN loading \cup {event.item} ELSE loading
    /\ UNCHANGED <<committed, page, view, told, shown>>

Flush ==
    /\ page = "open" /\ pending # {}
    /\ shown' = [i \in Items |->
           IF \E kept \in pending : kept.item = i
           THEN (CHOOSE kept \in pending : kept.item = i).change ELSE shown[i]]
    /\ pending' = {}
    /\ UNCHANGED <<committed, page, view, queue, told, loading>>

\* fragments/alarm_stub.html: the browser reads the row.
Fetch(i) ==
    /\ page = "open" /\ i \in loading
    /\ loading' = loading \ {i}
    /\ shown' = [shown EXCEPT ![i] = value[i]]
    /\ UNCHANGED <<committed, page, view, queue, told, pending>>

\* The other end hangs up, or the session has ended.
Close ==
    /\ page = "open" /\ page' = "closed"
    /\ queue' = [c \in Channels |-> <<>>] /\ told' = {}
    /\ pending' = {} /\ loading' = {}
    /\ UNCHANGED <<committed, view, shown>>

-----------------------------------------------------------------------------

FeedNext ==
    \/ \E i \in Items : Commit(i)
    \/ \E event \in unsaid : Publish(event)
    \/ Load \/ Resolve \/ Subscribe
    \/ \E c \in Channels : Receive(c)
    \/ Flush \/ (\E i \in Alarms : Fetch(i)) \/ Close

\* The publishers end, the loop of an open socket selects what is ready again
\* and again, its flush timer keeps firing and the browser's requests end.
FeedFairness ==
    /\ \A event \in Event : WF_feedVars(Publish(event))
    /\ \A c \in Channels : WF_feedVars(Receive(c))
    /\ WF_feedVars(Flush)
    /\ \A i \in Alarms : WF_feedVars(Fetch(i))

-----------------------------------------------------------------------------
(* Properties.                                                              *)

\* Once nothing changes any more, a node's badge shows the last event published
\* about it since the socket subscribed, unless the receiver fell behind and
\* lost it: events of one node that share a flush do not pass each other.
BadgesShowTheLast ==
    <>[](page = "open" => \A i \in (told \cap view) \cap Nodes : shown[i] = last[i])

\* An alarm's row shows what the database has, although two handlers that
\* commit one after the other may publish the other way round.
AlarmRowsAreCurrent ==
    <>[](page = "open" => \A i \in (told \cap view) \cap Alarms : shown[i] = value[i])

\* A dashboard that stays open comes to show what is.
DashboardsCatchUp == BadgesShowTheLast /\ AlarmRowsAreCurrent

=============================================================================
