----------------------------- MODULE LiveSession -----------------------------
(***************************************************************************)
(* Live inspection of one node: viewers open, renew and release a session  *)
(* at the server, the server queues commands on the stream the node holds  *)
(* open, and the node samples until it is told to stop, an ack disowns its *)
(* session, or the session runs out.                                       *)
(*                                                                         *)
(* Every operation of Sessions holds one mutex and is one step here.  Time *)
(* is what is left of a session, at the server and at the node: both count *)
(* from one command, which carries the server's time and the expiry.       *)
(***************************************************************************)
EXTENDS Naturals, Sequences

CONSTANTS
    Viewers,    \* browsers that may have the node's panel open
    Ids,        \* session ids; bound on how many are in use at once
    Ttl,        \* how long a session runs without being renewed
    Capacity,   \* commands the queue of a stream holds
    Faults,     \* of "network", "crash"
    None

ASSUME TtlAssumption == Ttl \in Nat /\ Ttl > 1 /\ Capacity \in Nat \ {0}

VARIABLES
    open,      \* viewers with the panel open
    session,   \* NodeLive.session
    commands,  \* whether the server holds a sender for the node
    queue,     \* commands sent and not received
    receiver,  \* the other end of the queue: "live", "stalled" or "gone"
    issued,    \* ids this server process has given out and that are still about
    watching,  \* whether the node holds a stream
    running,   \* the node's own session
    sample     \* the sample the node awaits an ack for, and the id in the ack

serverVars == <<session, commands, queue, receiver, issued>>
nodeVars == <<watching, running, sample>>
vars == <<open, serverVars, nodeVars>>

Session == [id : Ids, left : 0 .. Ttl]

ASSUME NoneAssumption == None \notin Session

Command == Session \cup {None}
Sample == [id : Ids, ack : Ids \cup {"none", "sent"}]

Init ==
    /\ open = {}
    /\ session = None /\ commands = FALSE
    /\ queue = << >> /\ receiver = "gone"
    /\ issued = {}
    /\ watching = FALSE /\ running = None /\ sample = None

-----------------------------------------------------------------------------
(* The server: live.rs Sessions.                                            *)

Live == session # None /\ session.left > 0

InUse ==
    {i \in Ids : \/ \E s \in {session, running, sample} : s # None /\ s.id = i
                 \/ \E n \in DOMAIN queue : queue[n] # None /\ queue[n].id = i}

\* try_send: a full queue, or one that nobody reads from, loses the sender.
Send(c) ==
    IF commands /\ receiver # "gone" /\ Len(queue) < Capacity
    THEN queue' = Append(queue, c) /\ UNCHANGED <<commands, receiver>>
    ELSE commands' = FALSE /\ UNCHANGED <<queue, receiver>>

\* What if a renewal did not reach the node?
AskOnce(v) ==
    /\ \E i \in Ids :
          /\ IF Live THEN i = session.id ELSE i \notin issued \cap InUse
          /\ session' = [id |-> i, left |-> Ttl]
          /\ issued' = (issued \cap InUse) \cup {i}
    /\ IF Live THEN UNCHANGED <<commands, queue, receiver>> ELSE Send(session')
    /\ UNCHANGED nodeVars

\* open: the session that runs gets all its time back, or another one starts.
Ask(v) ==
    /\ \E i \in Ids :
          /\ IF Live THEN i = session.id ELSE i \notin issued \cap InUse
          /\ session' = [id |-> i, left |-> Ttl]
          /\ issued' = (issued \cap InUse) \cup {i}
    /\ Send(session')
    /\ UNCHANGED nodeVars

OpenPanel(v) == v \notin open /\ open' = open \cup {v} /\ Ask(v)

Renew(v) == v \in open /\ Ask(v) /\ UNCHANGED open

\* The panel goes away without a word.
Leave(v) ==
    /\ v \in open /\ open' = open \ {v}
    /\ UNCHANGED <<serverVars, nodeVars>>

\* release ends the session, whoever else has the panel open.
Release(v) ==
    /\ v \in open /\ open' = open \ {v}
    /\ session' = None
    /\ Send(None)
    /\ UNCHANGED <<issued, nodeVars>>

\* The sweep notices dropped receivers and sessions that ran out.
Sweep ==
    /\ \/ commands /\ receiver = "gone"
       \/ session # None /\ ~Live
    /\ IF session # None /\ ~Live
       THEN session' = None /\ Send(None)
       ELSE commands' = FALSE /\ UNCHANGED <<session, queue, receiver>>
    /\ UNCHANGED <<open, issued, nodeVars>>

\* What if a stream that opens late were not told of the session?
WatchEmpty ==
    /\ ~watching
    /\ watching' = TRUE
    /\ commands' = TRUE /\ receiver' = "live"
    /\ queue' = << >>
    /\ UNCHANGED <<open, session, issued, running, sample>>

\* watch: a new queue takes the old one's place and starts with a live session.
Watch ==
    /\ ~watching
    /\ watching' = TRUE
    /\ commands' = TRUE /\ receiver' = "live"
    /\ queue' = IF Live THEN <<session>> ELSE << >>
    /\ UNCHANGED <<open, session, issued, running, sample>>

\* submit_live: a sample for another session is not published and is acked with
\* no id.
Accept ==
    /\ sample # None /\ sample.ack = "sent"
    /\ sample' = [sample EXCEPT !.ack = IF Live /\ session.id = sample.id THEN sample.id ELSE "none"]
    /\ UNCHANGED <<open, serverVars, watching, running>>

-----------------------------------------------------------------------------
(* The agent: live.rs run, idle, deliver.                                   *)

\* The loop awaits the ack of a sample before it reads the next command.
Receive ==
    /\ watching /\ receiver = "live" /\ queue # << >>
    /\ sample = None
    /\ running' = Head(queue)
    /\ queue' = Tail(queue)
    /\ UNCHANGED <<open, session, commands, receiver, issued, watching, sample>>

\* idle: the node forgets its session and dials again.
Idle == watching' = FALSE /\ running' = None /\ sample' = None

StreamEnds ==
    /\ watching /\ sample = None
    /\ receiver = "gone" \/ (receiver = "live" /\ queue = << >> /\ ~commands)
    /\ Idle
    /\ receiver' = "gone" /\ queue' = << >>
    /\ UNCHANGED <<open, session, commands, issued>>

Submit ==
    /\ watching /\ running # None /\ sample = None
    /\ sample' = [id |-> running.id, ack |-> "sent"]
    /\ UNCHANGED <<open, serverVars, watching, running>>

TakeAck ==
    /\ sample # None /\ sample.ack # "sent"
    /\ sample' = None
    /\ running' = IF running # None /\ sample.ack = running.id THEN running ELSE None
    /\ UNCHANGED <<open, serverVars, watching>>

\* What if the node left it to the server to end a session?
RunOutNever == FALSE /\ UNCHANGED vars

\* The node's own deadline, whatever the network does.
RunOut ==
    /\ running # None /\ running.left = 0 /\ sample = None
    /\ running' = None
    /\ UNCHANGED <<open, serverVars, watching, sample>>

-----------------------------------------------------------------------------
(* Time and the network.                                                    *)

Older(s) == IF s = None \/ s.left = 0 THEN s ELSE [s EXCEPT !.left = @ - 1]

Tick ==
    /\ (session # None /\ session.left > 0) \/ (running # None /\ running.left > 0)
    /\ session' = Older(session) /\ running' = Older(running)
    /\ UNCHANGED <<open, commands, queue, receiver, issued, watching, sample>>

\* The stream stalls, and either side may notice or not.
Stall ==
    /\ "network" \in Faults
    /\ receiver = "live"
    /\ receiver' = "stalled"
    /\ UNCHANGED <<open, session, commands, queue, issued, nodeVars>>

Notice ==
    /\ receiver = "stalled"
    /\ receiver' = "gone" /\ queue' = << >>
    /\ UNCHANGED <<open, session, commands, issued, nodeVars>>

Disconnect ==
    /\ "network" \in Faults
    /\ watching
    /\ Idle
    /\ IF receiver = "live" THEN receiver' = "stalled" ELSE UNCHANGED receiver
    /\ UNCHANGED <<open, session, commands, queue, issued>>

\* A refused or failed sample leaves the session as it is.
LoseSample ==
    /\ "network" \in Faults
    /\ sample # None
    /\ sample' = None
    /\ UNCHANGED <<open, serverVars, watching, running>>

\* Sessions and their counter are in memory: ids start over.
RestartServer ==
    /\ "crash" \in Faults
    /\ session' = None /\ commands' = FALSE
    /\ receiver' = "gone" /\ queue' = << >>
    /\ issued' = {}
    /\ UNCHANGED <<open, nodeVars>>

-----------------------------------------------------------------------------
(* Steps, fairness and properties.                                          *)

Server == Sweep \/ Accept
Agent == Watch \/ Receive \/ StreamEnds \/ Submit \/ TakeAck \/ RunOut
Network == Stall \/ Notice \/ Disconnect \/ LoseSample \/ RestartServer
Panel(v) == OpenPanel(v) \/ Renew(v) \/ Leave(v) \/ Release(v)

Next == Server \/ Agent \/ Network \/ Tick \/ \E v \in Viewers : Panel(v)

Spec == Init /\ [][Next]_vars

\* An open panel polls; the agent's select takes every branch that is ready
\* again and again; a call ends, one way or the other.
FairSpec ==
    /\ Spec
    /\ WF_vars(Tick) /\ WF_vars(Watch) /\ WF_vars(StreamEnds)
    /\ WF_vars(Accept) /\ WF_vars(TakeAck)
    /\ SF_vars(Receive) /\ SF_vars(RunOut)
    /\ \A v \in Viewers : WF_vars(Renew(v))

\* Every piece of state has its type, the node never awaits an ack without a
\* stream and never keeps a session without one (live.rs idle).
TypeOK ==
    /\ open \subseteq Viewers
    /\ session \in Session \cup {None}
    /\ commands \in BOOLEAN
    /\ queue \in Seq(Command) /\ Len(queue) <= Capacity
    /\ receiver \in {"live", "stalled", "gone"}
    /\ issued \subseteq Ids
    /\ watching \in BOOLEAN
    /\ running \in Session \cup {None}
    /\ sample \in Sample \cup {None}
    /\ receiver = "gone" => queue = << >>
    /\ running # None \/ sample # None => watching
    /\ sample # None => running # None /\ running.id = sample.id

\* A node that has read every command on a stream the server still writes to,
\* and awaits no ack, runs the session the server has, for at least as long as
\* the server does, and runs none the server ended: renewals, releases, expiry,
\* replaced streams and late acks leave no other session behind.
NodeFollowsServer ==
    commands /\ receiver = "live" /\ watching /\ queue = << >> /\ sample = None =>
        /\ Live => running # None /\ running.left >= session.left
        /\ running # None => session # None /\ running.id = session.id

\* When every panel is gone for good the node stops sampling, also when stalled
\* streams, lost samples and server restarts keep every stop command from it.
UnwatchedNodeStops == <>[](open = {}) => <>[](running = None)

Faulty == Stall \/ Disconnect \/ LoseSample \/ RestartServer

\* An open panel renews before the session it watches runs out.
InTime == Tick /\ open # {} /\ session # None => session.left # 1

\* A panel that stays open and renews in time has the node sample for it again
\* and again, whatever other viewers open and release and whatever failed
\* before, once nothing fails any more and no stream is left stalled.
WatchedNodeRuns ==
    <>[][~Faulty /\ InTime]_vars /\ <>[](receiver # "stalled") =>
        \A v \in Viewers : <>[](v \in open) => []<>(running # None)

=============================================================================
