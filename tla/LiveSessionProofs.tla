-------------------------- MODULE LiveSessionProofs --------------------------
(***************************************************************************)
(* Theorems about LiveSession, for any viewers, ids, length of a session   *)
(* and capacity of a stream's queue, and with every fault allowed.         *)
(***************************************************************************)
EXTENDS LiveSession, TLAPS

-----------------------------------------------------------------------------
(* The inductive invariant: the newest command is the server's session.     *)

\* What the node runs, or will run when it has read c, is what the server has.
Agrees(c) ==
    /\ Live => c # None /\ c.left >= session.left
    /\ c # None => session # None /\ c.id = session.id

\* An ack that is on its way does not disown the session the server has.
AckKeeps ==
    sample # None /\ sample.ack # "sent" /\ Live => running # None /\ sample.ack = running.id

\* The last command that was sent agrees with the server, and when the node has read
\* it the node does: the commands before it are of no account, and neither is an ack,
\* since the node takes its ack before it reads on.
LastWordAgrees ==
    commands /\ receiver = "live" =>
        /\ queue # << >> => Agrees(queue[Len(queue)])
        /\ queue = << >> => Agrees(running) /\ AckKeeps

Invariant == TypeOK /\ LastWordAgrees

-----------------------------------------------------------------------------
(* The operators the steps are built from.                                  *)

\* A queue that holds commands still does when one is read.
LEMMA ReadFacts ==
    ASSUME NEW q \in Seq(Command), q # << >>
    PROVE  /\ Head(q) \in Command /\ Tail(q) \in Seq(Command) /\ Len(Tail(q)) <= Len(q)
           /\ Tail(q) = << >> => Head(q) = q[Len(q)]
           /\ Tail(q) # << >> => Tail(q)[Len(Tail(q))] = q[Len(q)]
<1>1. Len(q) \in Nat \ {0} /\ Head(q) = q[1] /\ Len(Tail(q)) = Len(q) - 1
  OBVIOUS
<1>2. Tail(q) = << >> <=> Len(Tail(q)) = 0
  <2>1. \A s \in Seq(Command) : s = << >> <=> Len(s) = 0
    OBVIOUS
  <2>2. Tail(q) \in Seq(Command)
    OBVIOUS
  <2> HIDE DEF Command
  <2> QED
    BY ONLY <2>1, <2>2
<1>3. \A n \in 1 .. Len(q) - 1 : Tail(q)[n] = q[n + 1]
  OBVIOUS
<1>4. Head(q) \in Command /\ Tail(q) \in Seq(Command)
  OBVIOUS
<1>5. ASSUME Tail(q) = << >> PROVE Head(q) = q[Len(q)]
  BY <1>1, <1>2, <1>5
<1>6. ASSUME Tail(q) # << >> PROVE Tail(q)[Len(Tail(q))] = q[Len(q)]
  BY <1>1, <1>2, <1>3, <1>4, <1>6
<1> QED
  BY <1>1, <1>4, <1>5, <1>6

\* Send either puts the command last in the queue, or gives the stream up.
LEMMA SendFacts ==
    ASSUME TypeOK, NEW c \in Command, Send(c)
    PROVE  /\ queue' \in Seq(Command) /\ Len(queue') <= Capacity
           /\ commands' \in BOOLEAN /\ receiver' = receiver
           /\ receiver = "gone" => queue' = << >>
           /\ commands' => queue' # << >> /\ queue'[Len(queue')] = c
<1>1. queue \in Seq(Command) /\ Len(queue) <= Capacity /\ Capacity \in Nat /\ Len(queue) \in Nat
  BY TtlAssumption DEF TypeOK
<1>2. CASE commands /\ receiver # "gone" /\ Len(queue) < Capacity
  <2>1. queue' = Append(queue, c) /\ commands' = commands /\ receiver' = receiver
    BY <1>2 DEF Send
  <2>2. Append(queue, c) \in Seq(Command) /\ Len(Append(queue, c)) = Len(queue) + 1
        /\ Append(queue, c)[Len(queue) + 1] = c
    BY <1>1
  <2>3. queue' # << >>
    BY <1>1, <2>1, <2>2
  <2> QED
    BY <1>1, <1>2, <2>1, <2>2, <2>3 DEF TypeOK
<1>3. CASE ~(commands /\ receiver # "gone" /\ Len(queue) < Capacity)
  <2>1. queue' = queue /\ commands' = FALSE /\ receiver' = receiver
    BY <1>3 DEF Send
  <2> QED
    BY <1>1, <2>1 DEF TypeOK
<1> QED
  BY <1>2, <1>3

LEMMA OlderFacts ==
    ASSUME NEW s \in Session \cup {None}
    PROVE  /\ Older(s) \in Session \cup {None}
           /\ s = None => Older(s) = None
           /\ s # None => /\ Older(s) # None /\ Older(s).id = s.id
                          /\ Older(s).left = (IF s.left = 0 THEN 0 ELSE s.left - 1)
<1>1. Ttl \in Nat
  BY TtlAssumption
<1>2. CASE s = None \/ s.left = 0
  BY <1>1, <1>2 DEF Older, Session
<1>3. CASE s # None /\ s.left # 0
  <2>1. s \in Session /\ s.left \in 0 .. Ttl /\ s.left - 1 \in 0 .. Ttl
    BY <1>1, <1>3 DEF Session
  <2>2. Older(s) = [s EXCEPT !.left = s.left - 1]
    BY <1>3 DEF Older
  <2> QED
    BY <1>3, <2>1, <2>2, NoneAssumption DEF Session
<1> QED
  BY <1>2, <1>3

-----------------------------------------------------------------------------
(* Every step keeps the invariant.                                          *)

LEMMA InitInvariant == Init => Invariant
<1> SUFFICES ASSUME Init PROVE Invariant
  OBVIOUS
<1>1. TypeOK
  <2>1. << >> \in Seq(Command) /\ Len(<< >>) <= Capacity
    BY TtlAssumption
  <2> QED
    BY <2>1 DEF Init, TypeOK
<1>2. LastWordAgrees
  BY DEF Init, LastWordAgrees
<1> QED
  BY <1>1, <1>2 DEF Invariant

\* Whatever the server does with its session and then tells the node.
LEMMA ToldStep ==
    ASSUME Invariant, Send(session'), session' \in Command, UNCHANGED nodeVars,
           open' \subseteq Viewers, issued' \subseteq Ids
    PROVE  Invariant'
<1>1. /\ queue' \in Seq(Command) /\ Len(queue') <= Capacity
      /\ commands' \in BOOLEAN /\ receiver' = receiver
      /\ receiver = "gone" => queue' = << >>
      /\ commands' => queue' # << >> /\ queue'[Len(queue')] = session'
  BY SendFacts DEF Invariant
<1>2. TypeOK'
  BY <1>1 DEF Invariant, TypeOK, nodeVars, Command
<1>3. session' # None => session'.left \in 0 .. Ttl /\ Ttl \in Nat
  BY TtlAssumption DEF Command, Session
<1>4. LastWordAgrees'
  <2> SUFFICES ASSUME commands', queue' # << >>, queue'[Len(queue')] = session'
               PROVE  Agrees(queue[Len(queue)])'
    BY <1>1 DEF LastWordAgrees
  <2> QED
    BY <1>3 DEF Agrees, Live
<1> QED
  BY <1>2, <1>4 DEF Invariant

LEMMA AskStep ==
    ASSUME Invariant, NEW v \in Viewers, Ask(v), open' \subseteq Viewers
    PROVE  Invariant'
<1>1. PICK i \in Ids : /\ session' = [id |-> i, left |-> Ttl]
                       /\ issued' = (issued \cap InUse) \cup {i}
  BY DEF Ask
<1>2. session' \in Command
  BY <1>1, TtlAssumption DEF Command, Session
<1>3. issued' \subseteq Ids
  BY <1>1 DEF Invariant, TypeOK
<1> QED
  BY <1>2, <1>3, ToldStep DEF Ask

LEMMA ReleaseStep == ASSUME Invariant, NEW v \in Viewers, Release(v) PROVE Invariant'
<1>1. session' = None /\ Send(None) /\ UNCHANGED <<issued, nodeVars>> /\ open' = open \ {v}
  BY DEF Release
<1>2. Send(session')
  BY <1>1
<1> QED
  BY <1>1, <1>2, ToldStep DEF Invariant, TypeOK, Command

LEMMA SweepStep == ASSUME Invariant, Sweep PROVE Invariant'
<1>1. UNCHANGED <<open, issued, nodeVars>>
  BY DEF Sweep
<1>2. CASE session' = None /\ Send(None)
  <2>1. Send(session')
    BY <1>2
  <2> QED
    BY <1>1, <1>2, <2>1, ToldStep DEF Invariant, TypeOK, Command
<1>3. CASE commands' = FALSE /\ UNCHANGED <<session, queue, receiver>>
  BY <1>1, <1>3 DEF Invariant, TypeOK, LastWordAgrees, nodeVars
<1> QED
  BY <1>2, <1>3 DEF Sweep

LEMMA WatchStep == ASSUME Invariant, Watch PROVE Invariant'
<1>1. /\ ~watching /\ watching' = TRUE /\ commands' = TRUE /\ receiver' = "live"
      /\ queue' = (IF Live THEN <<session>> ELSE << >>)
      /\ UNCHANGED <<open, session, issued, running, sample>>
  BY DEF Watch
<1>2. running = None /\ sample = None
  BY <1>1 DEF Invariant, TypeOK
<1>3. session # None => session \in Session /\ session.left \in 0 .. Ttl /\ Ttl \in Nat
  BY TtlAssumption DEF Invariant, TypeOK, Session
<1>4. CASE Live
  <2>1. queue' = <<session>> /\ Len(queue') = 1 /\ queue'[1] = session /\ queue' # << >>
    BY <1>1, <1>4
  <2>2. queue' \in Seq(Command) /\ 1 <= Capacity
    <3>1. session \in Command
      BY <1>3, <1>4 DEF Live, Command
    <3> QED
      BY <1>1, <1>4, <3>1, TtlAssumption
  <2>3. TypeOK'
    BY <1>1, <1>2, <2>1, <2>2 DEF Invariant, TypeOK
  <2>4. Agrees(queue[Len(queue)])'
    BY <1>1, <1>3, <1>4, <2>1 DEF Agrees, Live
  <2> QED
    BY <2>1, <2>3, <2>4 DEF Invariant, LastWordAgrees
<1>5. CASE ~Live
  <2>1. queue' = << >> /\ << >> \in Seq(Command) /\ Len(<< >>) <= Capacity
    BY <1>1, <1>5, TtlAssumption
  <2>2. TypeOK'
    BY <1>1, <1>2, <2>1 DEF Invariant, TypeOK
  <2>3. Agrees(running)' /\ AckKeeps'
    BY <1>1, <1>2, <1>5 DEF Agrees, AckKeeps, Live
  <2> QED
    BY <2>1, <2>2, <2>3 DEF Invariant, LastWordAgrees
<1> QED
  BY <1>4, <1>5

LEMMA ReceiveStep == ASSUME Invariant, Receive PROVE Invariant'
<1>1. /\ watching /\ receiver = "live" /\ queue # << >> /\ sample = None
      /\ running' = Head(queue) /\ queue' = Tail(queue)
      /\ UNCHANGED <<open, session, commands, receiver, issued, watching, sample>>
  BY DEF Receive
<1>2. /\ Head(queue) \in Command /\ Tail(queue) \in Seq(Command) /\ Len(Tail(queue)) <= Len(queue)
      /\ Tail(queue) = << >> => Head(queue) = queue[Len(queue)]
      /\ Tail(queue) # << >> => Tail(queue)[Len(Tail(queue))] = queue[Len(queue)]
  BY <1>1, ReadFacts DEF Invariant, TypeOK
<1>3. Len(queue') <= Capacity
  <2>1. /\ Len(queue) \in Nat /\ Len(queue') \in Nat /\ Len(queue') <= Len(queue)
        /\ Len(queue) <= Capacity /\ Capacity \in Nat
    BY <1>1, <1>2, TtlAssumption DEF Invariant, TypeOK
  <2> QED
    BY <2>1
<1>4. TypeOK'
  BY <1>1, <1>2, <1>3 DEF Invariant, TypeOK, Command
<1>5. LastWordAgrees'
  <2> SUFFICES ASSUME commands PROVE LastWordAgrees'
    BY <1>1 DEF LastWordAgrees
  <2>1. Agrees(queue[Len(queue)])
    BY <1>1 DEF Invariant, LastWordAgrees
  <2>2. CASE queue' = << >>
    <3>1. Agrees(running')
      BY <1>1, <1>2, <2>1, <2>2
    <3>2. Agrees(running)' /\ AckKeeps'
      BY <1>1, <3>1 DEF Agrees, AckKeeps, Live
    <3> QED
      BY <2>2, <3>2 DEF LastWordAgrees
  <2>3. CASE queue' # << >>
    <3>1. Agrees(queue'[Len(queue')])
      BY <1>1, <1>2, <2>1, <2>3
    <3>2. Agrees(queue[Len(queue)])'
      BY <1>1, <3>1 DEF Agrees, Live
    <3> QED
      BY <2>3, <3>2 DEF LastWordAgrees
  <2> QED
    BY <2>2, <2>3
<1> QED
  BY <1>4, <1>5 DEF Invariant

LEMMA SubmitStep == ASSUME Invariant, Submit PROVE Invariant'
<1>1. /\ watching /\ running # None /\ sample' = [id |-> running.id, ack |-> "sent"]
      /\ UNCHANGED <<open, serverVars, watching, running>>
  BY DEF Submit
<1>2. running.id \in Ids /\ sample' \in Sample /\ sample'.id = running.id /\ sample'.ack = "sent"
  BY <1>1 DEF Invariant, TypeOK, Session, Sample
<1>3. TypeOK'
  BY <1>1, <1>2 DEF Invariant, TypeOK, serverVars
<1>4. Agrees(running)' <=> Agrees(running)
  BY <1>1 DEF Agrees, Live, serverVars
<1>5. Agrees(queue[Len(queue)])' <=> Agrees(queue[Len(queue)])
  BY <1>1 DEF Agrees, Live, serverVars
<1>6. AckKeeps'
  BY <1>2 DEF AckKeeps
<1> QED
  BY <1>1, <1>3, <1>4, <1>5, <1>6 DEF Invariant, LastWordAgrees, serverVars

\* The server acks a sample of its own session with the session's id.
LEMMA AcceptStep == ASSUME Invariant, Accept PROVE Invariant'
<1> DEFINE ack == IF Live /\ session.id = sample.id THEN sample.id ELSE "none"
<1>1. /\ sample # None /\ sample \in Sample /\ sample' = [sample EXCEPT !.ack = ack]
      /\ UNCHANGED <<open, serverVars, watching, running>>
  BY DEF Accept, Invariant, TypeOK
<1>2. running # None /\ running.id = sample.id /\ watching
  BY <1>1 DEF Invariant, TypeOK
<1>3. sample' \in Sample /\ sample'.id = sample.id /\ sample'.ack = ack
  BY <1>1 DEF Sample
<1>4. TypeOK'
  BY <1>1, <1>2, <1>3 DEF Invariant, TypeOK, serverVars
<1>5. Agrees(running)' <=> Agrees(running)
  BY <1>1 DEF Agrees, Live, serverVars
<1>6. Agrees(queue[Len(queue)])' <=> Agrees(queue[Len(queue)])
  BY <1>1 DEF Agrees, Live, serverVars
<1>7. Agrees(running) => AckKeeps'
  BY <1>1, <1>2, <1>3 DEF Agrees, AckKeeps, Live, serverVars
<1> QED
  BY <1>1, <1>4, <1>5, <1>6, <1>7 DEF Invariant, LastWordAgrees, serverVars

LEMMA TakeAckStep == ASSUME Invariant, TakeAck PROVE Invariant'
<1>1. /\ sample # None /\ sample.ack # "sent" /\ sample' = None
      /\ running' = (IF running # None /\ sample.ack = running.id THEN running ELSE None)
      /\ UNCHANGED <<open, serverVars, watching>>
  BY DEF TakeAck
<1>2. TypeOK'
  BY <1>1 DEF Invariant, TypeOK, serverVars
<1>3. Agrees(queue[Len(queue)])' <=> Agrees(queue[Len(queue)])
  BY <1>1 DEF Agrees, Live, serverVars
<1>4. Agrees(running) /\ AckKeeps => Agrees(running)' /\ AckKeeps'
  BY <1>1 DEF Agrees, AckKeeps, Live, serverVars
<1> QED
  BY <1>1, <1>2, <1>3, <1>4 DEF Invariant, LastWordAgrees, serverVars

LEMMA RunOutStep == ASSUME Invariant, RunOut PROVE Invariant'
<1>1. /\ running # None /\ running.left = 0 /\ sample = None /\ running' = None
      /\ UNCHANGED <<open, serverVars, watching, sample>>
  BY DEF RunOut
<1>2. TypeOK'
  BY <1>1 DEF Invariant, TypeOK, serverVars
<1>3. Agrees(queue[Len(queue)])' <=> Agrees(queue[Len(queue)])
  BY <1>1 DEF Agrees, Live, serverVars
<1>4. session # None => session.left \in 0 .. Ttl /\ Ttl \in Nat
  BY TtlAssumption DEF Invariant, TypeOK, Session
<1>5. Agrees(running) => Agrees(running)' /\ AckKeeps'
  BY <1>1, <1>4 DEF Agrees, AckKeeps, Live, serverVars
<1> QED
  BY <1>1, <1>2, <1>3, <1>5 DEF Invariant, LastWordAgrees, serverVars

\* Both sides count down; what waits in the queue does not.
LEMMA TickStep == ASSUME Invariant, Tick PROVE Invariant'
<1>1. /\ session' = Older(session) /\ running' = Older(running)
      /\ UNCHANGED <<open, commands, queue, receiver, issued, watching, sample>>
  BY DEF Tick
<1>2. session \in Session \cup {None} /\ running \in Session \cup {None}
  BY DEF Invariant, TypeOK
<1>3. /\ session' \in Session \cup {None}
      /\ session = None => session' = None
      /\ session # None => /\ session' # None /\ session'.id = session.id
                           /\ session'.left = (IF session.left = 0 THEN 0 ELSE session.left - 1)
  BY <1>1, <1>2, OlderFacts
<1>4. /\ running' \in Session \cup {None}
      /\ running = None => running' = None
      /\ running # None => /\ running' # None /\ running'.id = running.id
                           /\ running'.left = (IF running.left = 0 THEN 0 ELSE running.left - 1)
  BY <1>1, <1>2, OlderFacts
<1>5. /\ session # None => session.left \in Nat
      /\ running # None => running.left \in Nat
      /\ \A n \in DOMAIN queue : queue[n] # None => queue[n].left \in Nat
  <2>1. Ttl \in Nat
    BY TtlAssumption
  <2>2. queue \in Seq(Command)
    BY DEF Invariant, TypeOK
  <2>3. \A n \in DOMAIN queue : queue[n] \in Command
    BY <2>2
  <2> QED
    BY <1>2, <2>1, <2>3 DEF Command, Session
<1>6. TypeOK'
  <2>1. sample # None => running' # None /\ running'.id = sample.id
    BY <1>4 DEF Invariant, TypeOK
  <2>2. running' # None => running # None
    BY <1>4
  <2>3. session' \in Session \cup {None} /\ running' \in Session \cup {None}
    BY <1>3, <1>4
  <2> QED
    BY <1>1, <2>1, <2>2, <2>3 DEF Invariant, TypeOK
\* What is left at the server goes down by one, or is nothing.
<1>live. Live' => /\ Live /\ session'.left = session.left - 1
                 /\ session.left \in Nat /\ session'.left \in Nat
  <2> SUFFICES ASSUME session' # None, session'.left > 0
               PROVE  /\ session # None /\ session.left > 0 /\ session'.left = session.left - 1
                      /\ session.left \in Nat /\ session'.left \in Nat
    BY DEF Live
  <2>1. session # None /\ session.left \in Nat
    BY <1>3, <1>5
  <2>2. session'.left = (IF session.left = 0 THEN 0 ELSE session.left - 1)
    BY <1>3, <2>1
  <2> QED
    BY <2>1, <2>2
<1>7. ASSUME Agrees(running) PROVE Agrees(running)'
  <2>1. ASSUME Live' PROVE running' # None /\ running'.left >= session'.left
    <3>1. /\ running # None /\ running.left \in Nat /\ running.left >= session.left
      BY <1>live, <1>5, <1>7, <2>1 DEF Agrees
    <3>2. running' # None /\ running'.left = (IF running.left = 0 THEN 0 ELSE running.left - 1)
      BY <1>4, <3>1
    <3>3. running.left > 0
      BY <1>live, <2>1, <3>1 DEF Live
    <3> QED
      BY <1>live, <2>1, <3>1, <3>2, <3>3
  <2>2. ASSUME running' # None PROVE session' # None /\ running'.id = session'.id
    <3>1. running # None /\ session # None /\ running.id = session.id
      BY <1>4, <1>7, <2>2 DEF Agrees
    <3> QED
      BY <1>3, <1>4, <3>1
  <2> QED
    BY <2>1, <2>2 DEF Agrees
<1>8. ASSUME AckKeeps PROVE AckKeeps'
  <2> SUFFICES ASSUME sample # None, sample.ack # "sent", Live'
               PROVE  running' # None /\ sample.ack = running'.id
    BY <1>1 DEF AckKeeps
  <2>1. running # None /\ sample.ack = running.id
    BY <1>live, <1>8 DEF AckKeeps
  <2> QED
    BY <1>4, <2>1
<1>9. ASSUME queue # << >>, Agrees(queue[Len(queue)]) PROVE Agrees(queue[Len(queue)])'
  <2>1. Len(queue) \in DOMAIN queue
    BY <1>9 DEF Invariant, TypeOK
  <2>2. queue[Len(queue)] # None => queue[Len(queue)].left \in Nat
    BY <1>5, <2>1
  <2> DEFINE last == queue[Len(queue)]
  <2>3. last' = last
    BY <1>1
  <2>4. Live' => last # None /\ last.left >= session'.left
    BY <1>live, <1>9, <2>2 DEF Agrees
  <2>5. last # None => session' # None /\ last.id = session'.id
    BY <1>3, <1>9 DEF Agrees
  <2> QED
    BY <2>3, <2>4, <2>5 DEF Agrees
<1>10. LastWordAgrees'
  BY <1>1, <1>7, <1>8, <1>9 DEF Invariant, LastWordAgrees
<1> QED
  BY <1>6, <1>10 DEF Invariant

\* A stream that ends, or stalls, holds the node to nothing.
LEMMA StreamGone ==
    ASSUME Invariant, ~ (commands' /\ receiver' = "live"), TypeOK'
    PROVE  Invariant'
  BY DEF Invariant, LastWordAgrees

LEMMA StreamSteps ==
    ASSUME Invariant, StreamEnds \/ Stall \/ Notice \/ Disconnect \/ RestartServer
    PROVE  Invariant'
<1>1. << >> \in Seq(Command) /\ Len(<< >>) <= Capacity
  BY TtlAssumption
<1>2. CASE StreamEnds
  <2>1. TypeOK' /\ receiver' = "gone"
    BY <1>1, <1>2 DEF StreamEnds, Idle, Invariant, TypeOK
  <2> QED
    BY <2>1, StreamGone
<1>3. CASE Stall
  <2>1. TypeOK' /\ receiver' = "stalled"
    BY <1>3 DEF Stall, Invariant, TypeOK, nodeVars
  <2> QED
    BY <2>1, StreamGone
<1>4. CASE Notice
  <2>1. TypeOK' /\ receiver' = "gone"
    BY <1>1, <1>4 DEF Notice, Invariant, TypeOK, nodeVars
  <2> QED
    BY <2>1, StreamGone
<1>5. CASE Disconnect
  <2>1. TypeOK' /\ receiver' # "live"
    BY <1>1, <1>5 DEF Disconnect, Idle, Invariant, TypeOK
  <2> QED
    BY <2>1, StreamGone
<1>6. CASE RestartServer
  <2>1. TypeOK' /\ receiver' = "gone"
    BY <1>1, <1>6 DEF RestartServer, Invariant, TypeOK, nodeVars
  <2> QED
    BY <2>1, StreamGone
<1> QED
  BY <1>2, <1>3, <1>4, <1>5, <1>6

LEMMA LoseSampleStep == ASSUME Invariant, LoseSample PROVE Invariant'
<1>1. sample' = None /\ UNCHANGED <<open, serverVars, watching, running>>
  BY DEF LoseSample
<1>2. TypeOK' /\ AckKeeps'
  BY <1>1 DEF Invariant, TypeOK, AckKeeps, serverVars
<1>3. /\ Agrees(running)' <=> Agrees(running)
      /\ Agrees(queue[Len(queue)])' <=> Agrees(queue[Len(queue)])
  BY <1>1 DEF Agrees, Live, serverVars
<1> QED
  BY <1>1, <1>2, <1>3 DEF Invariant, LastWordAgrees, serverVars

LEMMA StutterStep == ASSUME Invariant, UNCHANGED <<serverVars, nodeVars>>, open' \subseteq Viewers PROVE Invariant'
  BY DEF Invariant, TypeOK, LastWordAgrees, Agrees, AckKeeps, Live, serverVars, nodeVars

LEMMA NextInvariant == ASSUME Invariant, [Next]_vars PROVE Invariant'
<1>1. ASSUME NEW v \in Viewers, Panel(v) PROVE Invariant'
  <2>1. open' \subseteq Viewers
    BY <1>1 DEF Panel, OpenPanel, Renew, Leave, Release, Invariant, TypeOK
  <2>2. ASSUME Leave(v) PROVE Invariant'
    BY <2>1, <2>2, StutterStep DEF Leave
  <2> QED
    BY <1>1, <2>1, <2>2, AskStep, ReleaseStep DEF Panel, OpenPanel, Renew
<1>2. ASSUME UNCHANGED vars PROVE Invariant'
  <2>1. UNCHANGED <<serverVars, nodeVars>> /\ open' \subseteq Viewers
    BY <1>2 DEF vars, Invariant, TypeOK
  <2> QED
    BY <2>1, StutterStep
<1> QED
  BY <1>1, <1>2, SweepStep, AcceptStep, WatchStep, ReceiveStep, SubmitStep, TakeAckStep, RunOutStep,
     TickStep, StreamSteps, LoseSampleStep DEF Next, Server, Agent, Network

LEMMA InvariantHolds == Spec => []Invariant
<1>1. Init => Invariant
  BY InitInvariant
<1>2. Invariant /\ [Next]_vars => Invariant'
  BY NextInvariant
<1> QED
  BY <1>1, <1>2, PTL DEF Spec

-----------------------------------------------------------------------------
(* Theorems.                                                                *)

\* Every piece of state has its type, and the node never awaits an ack without a
\* stream nor keeps a session without one (live.rs idle).
THEOREM TypesHold == Spec => []TypeOK
<1>1. Invariant => TypeOK
  BY DEF Invariant
<1> QED
  BY <1>1, InvariantHolds, PTL

\* However sessions are renewed, released, replaced and swept, and whatever stalls,
\* is lost or restarts: a node that has read all its commands, on a stream the server
\* still writes to, runs the server's session and no other (live.rs open, release,
\* watch and submit_live).
THEOREM NodesFollow == Spec => []NodeFollowsServer
<1>1. Invariant => NodeFollowsServer
  BY DEF Invariant, LastWordAgrees, Agrees, NodeFollowsServer
<1> QED
  BY <1>1, InvariantHolds, PTL

=============================================================================
