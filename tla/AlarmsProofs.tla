---------------------------- MODULE AlarmsProofs ----------------------------
(***************************************************************************)
(* Theorems about Alarms, for any number of nodes, alarms, orders, users   *)
(* and concurrent requests, and with every fault allowed.                  *)
(***************************************************************************)
EXTENDS Alarms, TLAPS

-----------------------------------------------------------------------------
(* What a technician's set is made of. *)

LEMMA SeesType == ASSUME NEW u \in Users, TypeOK, RowsReferToRows
                  PROVE  Sees(u) \in SUBSET Nodes
<1>1. ASSUME NEW o \in OrderIds, order[o].status # "absent"
      PROVE  NodeOf(subject[order[o].alarm]) \in Nodes
  <2>1. order[o].alarm \in AlarmIds
    BY <1>1 DEF TypeOK, OrderRow, NoOrder
  <2>2. subject[order[o].alarm] \in Subjects
    BY <1>1, <2>1 DEF RowsReferToRows
  <2> QED
    BY <2>2, SeriesAssumption DEF NodeOf, Subjects
<1> QED
  BY <1>1 DEF Sees

-----------------------------------------------------------------------------
(* Which record a request carries. *)

LEMMA CallByOp ==
    ASSUME TypeOK, NEW r \in Requests
    PROVE  /\ call[r].op = "transition" => call[r] \in Transition
           /\ call[r].op = "dispatch" => call[r] \in Dispatch
           /\ call[r].op = "complete" => call[r] \in Completion
           /\ call[r].op \in {"none", "transition", "dispatch", "complete"}
<1>1. call[r] \in Call
  BY DEF TypeOK
<1> QED
  BY <1>1 DEF Call, NoCall, Transition, Dispatch, Completion

-----------------------------------------------------------------------------
(* The inductive invariant.  One lemma per group of actions that change the  *)
(* same variables.                                                           *)

LEMMA InitReads == Init => ReadsStayTrue
<1> SUFFICES ASSUME Init PROVE ReadsStayTrue
  OBVIOUS
<1>1. TypeOK
  BY DEF Init, TypeOK, Subjects, OrderRow, Call, Phases, Passes
<1>2. RowsReferToRows /\ CallsMatchPhases
  BY DEF Init, RowsReferToRows, CallsMatchPhases, NoOrder, NoCall
<1>3. OrdersHeld /\ AlarmsHeld
  BY DEF Init, OrdersHeld, AlarmsHeld, HoldsOrder
<1>4. TodoUnopened /\ OneOpenAlarmPerSubject
  BY DEF Init, TodoUnopened, OneOpenAlarmPerSubject, Open
<1> QED
  BY <1>1, <1>2, <1>3, <1>4 DEF ReadsStayTrue

\* A request takes its first step.
LEMMA StartStep ==
    ASSUME ReadsStayTrue, NEW r \in Requests, NEW c \in Call, c.op # "none",
           c.op = "complete" => order[c.order].status # "absent",
           Start(r, c)
    PROVE  ReadsStayTrue'
<1> USE DEF ReadsStayTrue, Start, rowVars, detectorVars, worldVars
<1>1. TypeOK'
  BY DEF TypeOK, Phases
<1>2. RowsReferToRows' /\ CallsMatchPhases'
  BY DEF TypeOK, RowsReferToRows, CallsMatchPhases
<1>3. OrdersHeld'
  BY DEF TypeOK, OrdersHeld, HoldsOrder
<1>4. AlarmsHeld'
  BY DEF TypeOK, AlarmsHeld, Permitted
<1>5. TodoUnopened' /\ OneOpenAlarmPerSubject'
  BY DEF TodoUnopened, HasOpen, Open, OneOpenAlarmPerSubject
<1> QED
  BY <1>1, <1>2, <1>3, <1>4, <1>5

\* A request goes back to idle and no row changes.
LEMMA IdleStep ==
    ASSUME ReadsStayTrue, NEW r \in Requests, Idle(r),
           published' \subseteq AlarmIds \X LifecycleStates,
           UNCHANGED <<rowVars, order, detectorVars, worldVars>>
    PROVE  ReadsStayTrue'
<1> USE DEF ReadsStayTrue, Idle, rowVars, detectorVars, worldVars
<1>1. TypeOK'
  BY DEF TypeOK, Phases, Call
<1>2. RowsReferToRows' /\ CallsMatchPhases'
  BY DEF TypeOK, RowsReferToRows, CallsMatchPhases, NoCall
<1>3. OrdersHeld'
  BY DEF TypeOK, OrdersHeld, HoldsOrder
<1>4. AlarmsHeld'
  BY DEF TypeOK, AlarmsHeld, Permitted
<1>5. TodoUnopened' /\ OneOpenAlarmPerSubject'
  BY DEF TodoUnopened, HasOpen, Open, OneOpenAlarmPerSubject
<1> QED
  BY <1>1, <1>2, <1>3, <1>4, <1>5

LEMMA LockOrderStep ==
    ASSUME ReadsStayTrue, NEW r \in Requests, LockOrder(r)
    PROVE  ReadsStayTrue'
<1> USE DEF ReadsStayTrue, LockOrder, rowVars, detectorVars, worldVars
<1> DEFINE o == call[r].order
<1>0. /\ o \in OrderIds
      /\ order[o].status = "assigned"
      /\ order[o].alarm \in AlarmIds
  <2>1. o \in OrderIds
    BY CallByOp DEF Completion
  <2>2. order[o].status # "absent" /\ order[o].status # "completed"
    BY DEF CallsMatchPhases
  <2>3. order[o] \in OrderRow
    BY <2>1 DEF TypeOK
  <2> QED
    BY <2>1, <2>2, <2>3 DEF OrderRow, NoOrder
<1>1. TypeOK'
  <2>1. [call[r] EXCEPT !.alarm = order[o].alarm] \in Call
    <3>1. call[r] \in Completion
      BY CallByOp
    <3> QED
      BY <3>1, <1>0 DEF Call, Completion
  <2> QED
    BY <2>1 DEF TypeOK, Phases
<1>2. RowsReferToRows' /\ CallsMatchPhases'
  BY <1>0 DEF TypeOK, RowsReferToRows, CallsMatchPhases
<1>3. OrdersHeld'
  BY <1>0 DEF TypeOK, OrdersHeld, HoldsOrder, OrderFree
<1>4. AlarmsHeld'
  BY DEF TypeOK, AlarmsHeld, Permitted
<1>5. TodoUnopened' /\ OneOpenAlarmPerSubject'
  BY DEF TodoUnopened, HasOpen, Open, OneOpenAlarmPerSubject
<1> QED
  BY <1>1, <1>2, <1>3, <1>4, <1>5

LEMMA LockAlarmStep ==
    ASSUME ReadsStayTrue, NEW r \in Requests, LockAlarm(r)
    PROVE  ReadsStayTrue'
<1> USE DEF ReadsStayTrue, LockAlarm, rowVars, detectorVars, worldVars
<1>0. call[r].alarm \in AlarmIds
  <2>1. CASE call[r].op = "complete"
    <3>1. HoldsOrder(r)
      BY <2>1 DEF ReadyForAlarm, HoldsOrder
    <3>2. call[r].order \in OrderIds
      BY <2>1, CallByOp DEF Completion
    <3> QED
      BY <3>1, <3>2 DEF OrdersHeld, TypeOK, OrderRow, NoOrder
  <2>2. CASE call[r].op # "complete"
    BY <2>2, CallByOp DEF ReadyForAlarm, CallsMatchPhases, Transition, Dispatch
  <2> QED
    BY <2>1, <2>2
<1>1. TypeOK'
  <2>1. state[call[r].alarm] \in LifecycleStates
    BY <1>0 DEF TypeOK, Permitted
  <2> QED
    BY <2>1 DEF TypeOK, Phases
<1>2. RowsReferToRows' /\ CallsMatchPhases'
  BY <1>0 DEF TypeOK, RowsReferToRows, CallsMatchPhases, ReadyForAlarm
<1>3. OrdersHeld'
  BY DEF TypeOK, OrdersHeld, HoldsOrder, ReadyForAlarm
<1>4. AlarmsHeld'
  BY DEF TypeOK, AlarmsHeld, Permitted, AlarmFree
<1>5. TodoUnopened' /\ OneOpenAlarmPerSubject'
  BY DEF TodoUnopened, HasOpen, Open, OneOpenAlarmPerSubject
<1> QED
  BY <1>1, <1>2, <1>3, <1>4, <1>5

\* The row a handler commits to is one it may move.
LEMMA LockedAlarm ==
    ASSUME ReadsStayTrue, NEW r \in Requests, phase[r] = "locked"
    PROVE  /\ call[r].alarm \in AlarmIds
           /\ from[r] = state[call[r].alarm]
           /\ from[r] \in LifecycleStates
           /\ call[r].op = "transition" => MayTransition(from[r], call[r].to)
           /\ call[r].op = "dispatch" => from[r] # "closed"
           /\ call[r].op \in {"transition", "dispatch", "complete"}
<1>1. call[r].op \in {"transition", "dispatch", "complete"}
  BY CallByOp DEF ReadsStayTrue, CallsMatchPhases
<1>2. from[r] = state[call[r].alarm] /\ Permitted(r)
  BY DEF ReadsStayTrue, AlarmsHeld
<1>3. call[r].alarm \in AlarmIds
  BY DEF ReadsStayTrue, CallsMatchPhases
<1>4. from[r] \in LifecycleStates
  BY <1>2, <1>3 DEF ReadsStayTrue, TypeOK, Permitted
<1> QED
  BY <1>1, <1>2, <1>3, <1>4 DEF Permitted

\* What a recorded move does: it types, it opens nothing that was not open, and
\* it touches no row another request has locked.
LEMMA RecordMoves ==
    ASSUME ReadsStayTrue, NEW r \in Requests, phase[r] = "locked", Record(r)
    PROVE  /\ state' \in [AlarmIds -> LifecycleStates \cup {"unraised"}]
           /\ trail' \in [AlarmIds -> Seq(Event)]
           /\ subject' = subject
           /\ state'[call[r].alarm] # "unraised"
           /\ \A b \in AlarmIds : state[b] # "unraised" <=> state'[b] # "unraised"
           /\ \A b \in AlarmIds : Open(b)' => Open(b)
           /\ \A q \in Requests : q # r /\ phase[q] = "locked" =>
                 state'[call[q].alarm] = state[call[q].alarm]
<1> DEFINE a == call[r].alarm
<1>1. a \in AlarmIds /\ from[r] = state[a] /\ from[r] \in LifecycleStates
  BY LockedAlarm
<1>2. call[r].to \in LifecycleStates /\ call[r].by \in Users
  BY LockedAlarm, CallByOp DEF ReadsStayTrue, Transition, Dispatch, Completion, LifecycleStates
<1>3. [from |-> from[r], to |-> call[r].to, by |-> call[r].by] \in Event
  BY <1>1, <1>2 DEF Event
<1>4. state' \in [AlarmIds -> LifecycleStates \cup {"unraised"}]
  BY <1>2 DEF ReadsStayTrue, TypeOK, Record
<1>5. trail' \in [AlarmIds -> Seq(Event)]
  BY <1>1, <1>3 DEF ReadsStayTrue, TypeOK, Record
<1>6. state'[a] = call[r].to /\ \A b \in AlarmIds : b # a => state'[b] = state[b]
  BY <1>1 DEF ReadsStayTrue, TypeOK, Record
<1>7. \A b \in AlarmIds : Open(b)' => Open(b)
  <2>1. state'[a] \notin {"unraised", "closed"} => state[a] \notin {"unraised", "closed"}
    <3>1. call[r].op = "complete" => call[r].to = "closed"
      BY CallByOp DEF ReadsStayTrue, Completion
    <3> QED
      BY <1>1, <1>6, <3>1, LockedAlarm DEF Open, MayTransition, LifecycleStates
  <2> QED
    BY <1>6, <2>1 DEF Open
<1>8. \A q \in Requests : q # r /\ phase[q] = "locked" =>
         state'[call[q].alarm] = state[call[q].alarm]
  <2> SUFFICES ASSUME NEW q \in Requests, q # r, phase[q] = "locked"
               PROVE  state'[call[q].alarm] = state[call[q].alarm]
    OBVIOUS
  <2>1. call[q].alarm # a /\ call[q].alarm \in AlarmIds
    BY LockedAlarm DEF ReadsStayTrue, AlarmsHeld
  <2> QED
    BY <2>1, <1>6
<1>9. \A b \in AlarmIds : state[b] # "unraised" <=> state'[b] # "unraised"
  BY <1>1, <1>2, <1>6 DEF LifecycleStates
<1> QED
  BY <1>1, <1>4, <1>5, <1>7, <1>8, <1>9 DEF Record, LifecycleStates

LEMMA CommitTransitionStep ==
    ASSUME ReadsStayTrue, NEW r \in Requests, CommitTransition(r)
    PROVE  ReadsStayTrue'
<1> USE DEF CommitTransition, Committed, detectorVars, worldVars
<1>1. TypeOK'
  BY RecordMoves DEF ReadsStayTrue, TypeOK, Phases
<1>2. RowsReferToRows'
  <2>1. \A o \in OrderIds : order[o].status # "absent" => order[o].alarm \in AlarmIds
    BY DEF ReadsStayTrue, TypeOK, OrderRow, NoOrder
  <2> QED
    BY <2>1, RecordMoves, LockedAlarm DEF ReadsStayTrue, TypeOK, RowsReferToRows, Record
<1>3. CallsMatchPhases'
  BY DEF ReadsStayTrue, TypeOK, CallsMatchPhases
<1>4. OrdersHeld'
  BY DEF ReadsStayTrue, TypeOK, OrdersHeld, HoldsOrder
<1>5. AlarmsHeld'
  BY RecordMoves DEF ReadsStayTrue, TypeOK, AlarmsHeld, Permitted
<1>6. TodoUnopened'
  BY RecordMoves DEF ReadsStayTrue, TypeOK, TodoUnopened, HasOpen
<1>7. OneOpenAlarmPerSubject'
  BY RecordMoves DEF ReadsStayTrue, TypeOK, OneOpenAlarmPerSubject
<1> QED
  BY <1>1, <1>2, <1>3, <1>4, <1>5, <1>6, <1>7 DEF ReadsStayTrue

LEMMA CommitDispatchStep ==
    ASSUME ReadsStayTrue, NEW r \in Requests, NEW o \in OrderIds, CommitDispatch(r, o)
    PROVE  ReadsStayTrue'
<1> USE DEF CommitDispatch, Committed, detectorVars, worldVars
<1> DEFINE new == [alarm |-> call[r].alarm, technician |-> call[r].technician,
                   status |-> "assigned"]
<1>0. /\ state' \in [AlarmIds -> LifecycleStates \cup {"unraised"}]
      /\ trail' \in [AlarmIds -> Seq(Event)]
      /\ subject' = subject
      /\ \A b \in AlarmIds : state[b] # "unraised" <=> state'[b] # "unraised"
      /\ \A b \in AlarmIds : Open(b)' => Open(b)
      /\ \A q \in Requests : q # r /\ phase[q] = "locked" =>
            state'[call[q].alarm] = state[call[q].alarm]
  <2>1. CASE Moves(r)
    BY <2>1, RecordMoves
  <2>2. CASE ~Moves(r)
    BY <2>2 DEF ReadsStayTrue, TypeOK, Open
  <2> QED
    BY <2>1, <2>2
<1>1. new \in OrderRow /\ state[new.alarm] # "unraised"
  BY LockedAlarm, CallByOp DEF ReadsStayTrue, OrderRow, Dispatch, LifecycleStates
<1>2. TypeOK'
  BY <1>0, <1>1 DEF ReadsStayTrue, TypeOK, Phases
<1>3. /\ order'[o] = new
      /\ \A p \in OrderIds : p # o => order'[p] = order[p]
  BY DEF ReadsStayTrue, TypeOK
<1>4. RowsReferToRows'
  <2>1. \A p \in OrderIds : order'[p].status # "absent" =>
           order'[p].alarm \in AlarmIds /\ state[order'[p].alarm] # "unraised"
    BY <1>1, <1>3, LockedAlarm DEF ReadsStayTrue, TypeOK, OrderRow, NoOrder, RowsReferToRows
  <2> QED
    BY <2>1, <1>0 DEF ReadsStayTrue, RowsReferToRows
<1>5. \A q \in Requests : call[q].op = "complete" =>
          /\ call[q].order \in OrderIds /\ call[q].order # o
          /\ order'[call[q].order] = order[call[q].order]
  BY <1>3, CallByOp DEF ReadsStayTrue, CallsMatchPhases, Completion
<1>6. CallsMatchPhases'
  BY <1>5 DEF ReadsStayTrue, TypeOK, CallsMatchPhases
<1>7. OrdersHeld'
  BY <1>5 DEF ReadsStayTrue, TypeOK, OrdersHeld, HoldsOrder
<1>8. AlarmsHeld'
  BY <1>0 DEF ReadsStayTrue, TypeOK, AlarmsHeld, Permitted
<1>9. TodoUnopened'
  BY <1>0 DEF ReadsStayTrue, TypeOK, TodoUnopened, HasOpen
<1>10. OneOpenAlarmPerSubject'
  BY <1>0 DEF ReadsStayTrue, TypeOK, OneOpenAlarmPerSubject
<1> QED
  BY <1>2, <1>4, <1>6, <1>7, <1>8, <1>9, <1>10 DEF ReadsStayTrue

LEMMA CommitCompleteStep ==
    ASSUME ReadsStayTrue, NEW r \in Requests, CommitComplete(r)
    PROVE  ReadsStayTrue'
<1> USE DEF CommitComplete, Committed, detectorVars, worldVars
<1> DEFINE o == call[r].order
<1>0. /\ state' \in [AlarmIds -> LifecycleStates \cup {"unraised"}]
      /\ trail' \in [AlarmIds -> Seq(Event)]
      /\ closedAt' \in [AlarmIds -> BOOLEAN]
      /\ subject' = subject
      /\ \A b \in AlarmIds : state[b] # "unraised" <=> state'[b] # "unraised"
      /\ \A b \in AlarmIds : Open(b)' => Open(b)
      /\ \A q \in Requests : q # r /\ phase[q] = "locked" =>
            state'[call[q].alarm] = state[call[q].alarm]
  <2>1. CASE Moves(r)
    BY <2>1, RecordMoves DEF ReadsStayTrue, TypeOK
  <2>2. CASE ~Moves(r)
    BY <2>2 DEF ReadsStayTrue, TypeOK, Open, rowVars
  <2> QED
    BY <2>1, <2>2
<1>1. o \in OrderIds /\ order[o].status = "assigned" /\ order[o] \in OrderRow
  BY CallByOp DEF ReadsStayTrue, Completion, OrdersHeld, HoldsOrder, TypeOK
<1>2. /\ order'[o] \in OrderRow
      /\ order'[o].alarm = order[o].alarm
      /\ order'[o].status = "completed"
      /\ \A p \in OrderIds : p # o => order'[p] = order[p]
  <2>1. order[o] \in [alarm : AlarmIds, technician : Users, status : {"assigned", "completed"}]
    BY <1>1 DEF OrderRow, NoOrder
  <2>2. order'[o] = [order[o] EXCEPT !.status = "completed"]
    BY <1>1 DEF ReadsStayTrue, TypeOK
  <2>3. \A p \in OrderIds : p # o => order'[p] = order[p]
    BY <1>1 DEF ReadsStayTrue, TypeOK
  <2> QED
    BY <2>1, <2>2, <2>3 DEF OrderRow
<1>3. TypeOK'
  BY <1>0, <1>2 DEF ReadsStayTrue, TypeOK, Phases
<1>4. RowsReferToRows'
  <2>1. \A p \in OrderIds : order'[p].status # "absent" =>
           order'[p].alarm \in AlarmIds /\ state[order'[p].alarm] # "unraised"
    BY <1>1, <1>2 DEF ReadsStayTrue, TypeOK, OrderRow, NoOrder, RowsReferToRows
  <2> QED
    BY <2>1, <1>0 DEF ReadsStayTrue, RowsReferToRows
<1>5. CallsMatchPhases'
  BY <1>2, CallByOp DEF ReadsStayTrue, TypeOK, CallsMatchPhases, Completion
<1>6. \A q \in Requests : q # r /\ HoldsOrder(q) =>
          call[q].order \in OrderIds /\ call[q].order # o
  BY CallByOp DEF ReadsStayTrue, OrdersHeld, HoldsOrder, Completion
<1>7. OrdersHeld'
  BY <1>2, <1>6 DEF ReadsStayTrue, TypeOK, OrdersHeld, HoldsOrder
<1>8. AlarmsHeld'
  BY <1>0 DEF ReadsStayTrue, TypeOK, AlarmsHeld, Permitted
<1>9. TodoUnopened'
  BY <1>0 DEF ReadsStayTrue, TypeOK, TodoUnopened, HasOpen
<1>10. OneOpenAlarmPerSubject'
  BY <1>0 DEF ReadsStayTrue, TypeOK, OneOpenAlarmPerSubject
<1> QED
  BY <1>3, <1>4, <1>5, <1>7, <1>8, <1>9, <1>10 DEF ReadsStayTrue

\* A step of the detector or of the world that reads rows and changes none.
LEMMA QuietStep ==
    ASSUME ReadsStayTrue, TypeOK', TodoUnopened',
           UNCHANGED <<rowVars, order, requestVars>>
    PROVE  ReadsStayTrue'
<1> USE DEF ReadsStayTrue, rowVars, requestVars
<1>1. RowsReferToRows' /\ CallsMatchPhases'
  BY DEF RowsReferToRows, CallsMatchPhases
<1>2. OrdersHeld'
  BY DEF OrdersHeld, HoldsOrder
<1>3. AlarmsHeld'
  BY DEF AlarmsHeld, Permitted
<1>4. OneOpenAlarmPerSubject'
  BY DEF OneOpenAlarmPerSubject, Open
<1> QED
  BY <1>1, <1>2, <1>3, <1>4

\* The detector inserts an alarm for a subject it found unopened.
LEMMA RaiseStep ==
    ASSUME ReadsStayTrue, NEW a \in AlarmIds, NEW k \in Subjects,
           pass \in {"deviations", "silences"}, k \in todo, Raise(a, k),
           deviations' \subseteq AlarmIds, silences' \subseteq AlarmIds,
           UNCHANGED worldVars
    PROVE  ReadsStayTrue'
<1> USE DEF Raise, requestVars, worldVars
<1>1. /\ subject'[a] = k /\ state'[a] = "open"
      /\ \A b \in AlarmIds : b # a => subject'[b] = subject[b] /\ state'[b] = state[b]
  BY DEF ReadsStayTrue, TypeOK
<1>2. TypeOK'
  <2>1. <<[from |-> None, to |-> "open", by |-> None]>> \in Seq(Event)
    BY DEF Event, LifecycleStates
  <2> QED
    BY <2>1 DEF ReadsStayTrue, TypeOK, LifecycleStates
<1>3. RowsReferToRows'
  BY <1>1 DEF ReadsStayTrue, TypeOK, RowsReferToRows, OrderRow, NoOrder
<1>4. CallsMatchPhases' /\ OrdersHeld'
  BY DEF ReadsStayTrue, CallsMatchPhases, OrdersHeld, HoldsOrder
<1>5. AlarmsHeld'
  <2>1. \A r \in Requests : phase[r] = "locked" =>
           /\ call[r].alarm \in AlarmIds /\ call[r].alarm # a
           /\ state'[call[r].alarm] = state[call[r].alarm]
           /\ subject'[call[r].alarm] = subject[call[r].alarm]
    BY <1>1, LockedAlarm DEF LifecycleStates
  <2> QED
    BY <2>1 DEF ReadsStayTrue, AlarmsHeld, Permitted
<1>6. \A b \in AlarmIds : Open(b)' => b = a \/ (Open(b) /\ subject'[b] = subject[b])
  BY <1>1 DEF Open
<1>7. TodoUnopened'
  BY <1>1, <1>6 DEF ReadsStayTrue, TodoUnopened, HasOpen
<1>8. OneOpenAlarmPerSubject'
  BY <1>1, <1>6 DEF ReadsStayTrue, OneOpenAlarmPerSubject, TodoUnopened, HasOpen
<1> QED
  BY <1>2, <1>3, <1>4, <1>5, <1>7, <1>8 DEF ReadsStayTrue

LEMMA ClientStep ==
    ASSUME ReadsStayTrue, NEW r \in Requests, Client(r)
    PROVE  ReadsStayTrue'
<1>1. PICK u \in Users :
        \/ \E a \in AlarmIds, to \in LifecycleStates : StartTransition(r, u, a, to)
        \/ \E a \in AlarmIds, technician \in Users : StartDispatch(r, u, a, technician)
        \/ \E o \in OrderIds : StartComplete(r, u, o)
  BY DEF Client
<1>0. Sees(u) \in SUBSET Nodes
  BY SeesType DEF ReadsStayTrue
<1>2. ASSUME NEW a \in AlarmIds, NEW to \in LifecycleStates, StartTransition(r, u, a, to)
      PROVE  ReadsStayTrue'
  <2> DEFINE c == [op |-> "transition", by |-> u, alarm |-> a, order |-> None,
                   technician |-> None, to |-> to, sees |-> Sees(u)]
  <2>1. c \in Call /\ c.op = "transition"
    BY <1>0 DEF Call, Transition
  <2>2. Start(r, c)
    BY <1>2 DEF StartTransition
  <2> HIDE DEF c
  <2> QED
    BY <2>1, <2>2, StartStep
<1>3. ASSUME NEW a \in AlarmIds, NEW technician \in Users, StartDispatch(r, u, a, technician)
      PROVE  ReadsStayTrue'
  <2> DEFINE c == [op |-> "dispatch", by |-> u, alarm |-> a, order |-> None,
                   technician |-> technician, to |-> "under_verification", sees |-> Sees(u)]
  <2>1. c \in Call /\ c.op = "dispatch"
    BY <1>0 DEF Call, Dispatch
  <2>2. Start(r, c)
    BY <1>3 DEF StartDispatch
  <2> HIDE DEF c
  <2> QED
    BY <2>1, <2>2, StartStep
<1>4. ASSUME NEW o \in OrderIds, StartComplete(r, u, o)
      PROVE  ReadsStayTrue'
  <2> DEFINE c == [op |-> "complete", by |-> u, alarm |-> None, order |-> o,
                   technician |-> None, to |-> "closed", sees |-> Sees(u)]
  <2>1. c \in Call /\ c.op = "complete" /\ order[c.order].status # "absent"
    BY <1>0, <1>4 DEF Call, Completion, StartComplete
  <2>2. Start(r, c)
    BY <1>4 DEF StartComplete
  <2> HIDE DEF c
  <2> QED
    BY <2>1, <2>2, StartStep
<1> QED
  BY <1>1, <1>2, <1>3, <1>4

LEMMA PublishStep ==
    ASSUME ReadsStayTrue, NEW r \in Requests, Publish(r)
    PROVE  ReadsStayTrue'
<1>1. call[r].alarm \in AlarmIds /\ call[r].to \in LifecycleStates
  BY CallByOp DEF Publish, ReadsStayTrue, CallsMatchPhases, Transition, Dispatch,
                  Completion, LifecycleStates
<1>2. published' \subseteq AlarmIds \X LifecycleStates
  BY <1>1 DEF Publish, ReadsStayTrue, TypeOK
<1> QED
  BY <1>2, IdleStep DEF Publish

LEMMA ServeStep ==
    ASSUME ReadsStayTrue, NEW r \in Requests, Serve(r)
    PROVE  ReadsStayTrue'
<1>1. ASSUME RefuseOrder(r) \/ RefuseAlarm(r) PROVE ReadsStayTrue'
  BY <1>1, IdleStep DEF RefuseOrder, RefuseAlarm, ReadsStayTrue, TypeOK
<1> QED
  BY <1>1, LockOrderStep, LockAlarmStep, CommitTransitionStep, CommitDispatchStep,
     CommitCompleteStep, PublishStep DEF Serve

LEMMA DetectStep ==
    ASSUME ReadsStayTrue, Detect
    PROVE  ReadsStayTrue'
<1> USE DEF ReadsStayTrue, rowVars, requestVars, worldVars
<1>1. ASSUME Judge PROVE ReadsStayTrue'
  <2>1. TypeOK' /\ TodoUnopened'
    BY <1>1 DEF Judge, TypeOK, TodoUnopened, Passes, Subjects
  <2> QED
    BY <1>1, <2>1, QuietStep DEF Judge
<1>2. ASSUME FilterOpen PROVE ReadsStayTrue'
  <2>1. TypeOK' /\ TodoUnopened'
    BY <1>2 DEF FilterOpen, TypeOK, TodoUnopened, Passes, HasOpen, Open
  <2> QED
    BY <1>2, <2>1, QuietStep DEF FilterOpen
<1>3. ASSUME NEW a \in AlarmIds, NEW k \in Series, RaiseDeviation(a, k) PROVE ReadsStayTrue'
  BY <1>3, RaiseStep DEF RaiseDeviation, Raise, TypeOK, Subjects
<1>4. ASSUME ReadQuiet PROVE ReadsStayTrue'
  <2>1. TypeOK' /\ TodoUnopened'
    BY <1>4 DEF ReadQuiet, TypeOK, TodoUnopened, Passes, Subjects
  <2> QED
    BY <1>4, <2>1, QuietStep DEF ReadQuiet
<1>5. ASSUME FilterSilent PROVE ReadsStayTrue'
  <2>1. TypeOK' /\ TodoUnopened'
    BY <1>5 DEF FilterSilent, TypeOK, TodoUnopened, Passes, HasOpen, Open
  <2> QED
    BY <1>5, <2>1, QuietStep DEF FilterSilent
<1>6. ASSUME NEW a \in AlarmIds, NEW n \in Nodes, RaiseSilence(a, n) PROVE ReadsStayTrue'
  BY <1>6, RaiseStep DEF RaiseSilence, Raise, TypeOK, Subjects
<1>7. ASSUME EndSilences PROVE ReadsStayTrue'
  <2>1. TypeOK' /\ TodoUnopened'
    BY <1>7 DEF EndSilences, TypeOK, TodoUnopened, Passes
  <2> QED
    BY <1>7, <2>1, QuietStep DEF EndSilences
<1>8. ASSUME ReadBack PROVE ReadsStayTrue'
  <2>1. TypeOK' /\ TodoUnopened'
    BY <1>8 DEF ReadBack, TypeOK, TodoUnopened, Passes
  <2> QED
    BY <1>8, <2>1, QuietStep DEF ReadBack
<1>9. ASSUME NEW a \in AlarmIds, Announce(a) PROVE ReadsStayTrue'
  <2>1. TypeOK' /\ TodoUnopened'
    BY <1>9 DEF Announce, TypeOK, TodoUnopened, Passes, LifecycleStates
  <2> QED
    BY <1>9, <2>1, QuietStep DEF Announce
<1> QED
  BY <1>1, <1>2, <1>3, <1>4, <1>5, <1>6, <1>7, <1>8, <1>9 DEF Detect

LEMMA WorldStep ==
    ASSUME ReadsStayTrue, World
    PROVE  ReadsStayTrue'
<1> USE DEF ReadsStayTrue, rowVars, requestVars, detectorVars
<1>1. PICK n \in Nodes :
        \/ \E bad \in SUBSET {k \in Series : SeriesNode[k] = n} : Report(n, bad)
        \/ FallQuiet(n) \/ AgeOut(n) \/ SetSuspension(n)
  BY DEF World
<1>2. TypeOK'
  BY <1>1 DEF TypeOK, Report, FallQuiet, AgeOut, SetSuspension
<1>3. UNCHANGED <<rowVars, order, requestVars, detectorVars>>
  BY <1>1 DEF Report, FallQuiet, AgeOut, SetSuspension
<1>4. TodoUnopened'
  BY <1>3 DEF TodoUnopened, HasOpen, Open
<1> QED
  BY <1>2, <1>3, <1>4, QuietStep

LEMMA FaultStep ==
    ASSUME ReadsStayTrue, Fault
    PROVE  ReadsStayTrue'
<1> USE DEF rowVars, detectorVars, worldVars
<1>1. ASSUME NEW r \in Requests, RollBack(r) \/ Abandon(r) PROVE ReadsStayTrue'
  BY <1>1, IdleStep DEF RollBack, Abandon, ReadsStayTrue, TypeOK
<1>2. ASSUME FailDeviations \/ FailSilences \/ FailReadBack PROVE ReadsStayTrue'
  <2>1. TypeOK' /\ TodoUnopened'
    BY <1>2 DEF FailDeviations, FailSilences, FailReadBack, ReadsStayTrue, TypeOK,
                TodoUnopened, Passes, requestVars
  <2>2. UNCHANGED <<rowVars, order, requestVars>>
    BY <1>2 DEF FailDeviations, FailSilences, FailReadBack
  <2> QED
    BY <2>1, <2>2, QuietStep
<1>3. ASSUME Crash PROVE ReadsStayTrue'
  <2>1. TypeOK' /\ TodoUnopened'
    BY <1>3 DEF Crash, ReadsStayTrue, TypeOK, TodoUnopened, Passes, Phases, Call
  <2>2. RowsReferToRows' /\ CallsMatchPhases' /\ OrdersHeld' /\ AlarmsHeld'
    BY <1>3 DEF Crash, ReadsStayTrue, RowsReferToRows, CallsMatchPhases, OrdersHeld,
                HoldsOrder, AlarmsHeld, NoCall
  <2>3. OneOpenAlarmPerSubject'
    BY <1>3 DEF Crash, ReadsStayTrue, OneOpenAlarmPerSubject, Open
  <2> QED
    BY <2>1, <2>2, <2>3 DEF ReadsStayTrue
<1> QED
  BY <1>1, <1>2, <1>3 DEF Fault

LEMMA StutterStep ==
    ASSUME ReadsStayTrue, UNCHANGED vars
    PROVE  ReadsStayTrue'
<1> USE DEF vars, ReadsStayTrue
<1>1. UNCHANGED <<rowVars, order, requestVars, detectorVars, published, worldVars>>
  OBVIOUS
<1>2. TypeOK' /\ TodoUnopened'
  BY <1>1 DEF TypeOK, TodoUnopened, HasOpen, Open, rowVars, requestVars, detectorVars, worldVars
<1> QED
  BY <1>1, <1>2, QuietStep

LEMMA NextReads == ReadsStayTrue /\ [Next]_vars => ReadsStayTrue'
  BY ClientStep, ServeStep, DetectStep, WorldStep, FaultStep, StutterStep DEF Next

-----------------------------------------------------------------------------
(* The theorems. *)

\* The reads that handlers and detector act on are still true when they act.
THEOREM ReadsAreSafe == Spec => []ReadsStayTrue
  BY InitReads, NextReads, PTL DEF Spec

\* Every variable keeps its shape.
THEOREM TypesHold == Spec => []TypeOK
<1>1. ReadsStayTrue => TypeOK
  BY DEF ReadsStayTrue
<1> QED
  BY <1>1, ReadsAreSafe, PTL

\* The detector never raises a second alarm over an open one, whatever the
\* handlers, faults and restarts do between its look and its insert.
THEOREM OneOpenAlarm == Spec => []OneOpenAlarmPerSubject
<1>1. ReadsStayTrue => OneOpenAlarmPerSubject
  BY DEF ReadsStayTrue
<1> QED
  BY <1>1, ReadsAreSafe, PTL

-----------------------------------------------------------------------------
(* Alarms implements AlarmContract. *)

LEMMA RaiseImplements ==
    ASSUME ReadsStayTrue, NEW a \in AlarmIds, NEW k \in Subjects,
           pass \in {"deviations", "silences"}, k \in todo, Raise(a, k)
    PROVE  Contract!Next
<1>1. \A b \in AlarmIds : Contract!Active(b) => subject[b] # k
  BY DEF ReadsStayTrue, TodoUnopened, HasOpen, Open, Contract!Active
<1>2. Contract!Raise(a, k)
  BY <1>1 DEF Raise, Contract!Raise
<1> QED
  BY <1>2 DEF Contract!Next

LEMMA TransitionImplements ==
    ASSUME ReadsStayTrue, NEW r \in Requests, CommitTransition(r)
    PROVE  Contract!Next
<1> DEFINE a == call[r].alarm
<1>1. /\ a \in AlarmIds /\ MayTransition(state[a], call[r].to)
  BY LockedAlarm DEF CommitTransition
<1>2. state' = [state EXCEPT ![a] = call[r].to] /\ UNCHANGED <<subject, order>>
  BY DEF CommitTransition, Record
<1>3. Contract!Acknowledge(a) \/ Contract!Verify(a) \/ Contract!Close(a)
  BY <1>1, <1>2 DEF MayTransition, Contract!Acknowledge, Contract!Verify, Contract!Close,
                    Contract!Active
<1> QED
  BY <1>1, <1>3 DEF Contract!Next

LEMMA DispatchImplements ==
    ASSUME ReadsStayTrue, NEW r \in Requests, NEW o \in OrderIds, CommitDispatch(r, o)
    PROVE  Contract!Next
<1> DEFINE a == call[r].alarm
<1>1. /\ a \in AlarmIds /\ from[r] = state[a] /\ from[r] \in LifecycleStates
      /\ from[r] # "closed"
  BY LockedAlarm DEF CommitDispatch
<1>2. call[r].technician \in Users /\ call[r].to = "under_verification"
  BY CallByOp DEF CommitDispatch, ReadsStayTrue, Dispatch
<1>3. state' = [state EXCEPT ![a] = "under_verification"] /\ subject' = subject
  <2>1. CASE Moves(r)
    BY <2>1, <1>2 DEF CommitDispatch, Record
  <2>2. CASE ~Moves(r)
    BY <2>2, <1>1, <1>2 DEF CommitDispatch, Moves, ReadsStayTrue, TypeOK
  <2> QED
    BY <2>1, <2>2
<1>4. order[o] = Contract!Absent
  BY DEF CommitDispatch, ReadsStayTrue, TypeOK, OrderRow, NoOrder, Contract!Absent
<1>5. Contract!Active(a)
  BY <1>1 DEF Contract!Active, LifecycleStates
<1>6. Contract!Dispatch(o, a, call[r].technician)
  BY <1>3, <1>4, <1>5 DEF CommitDispatch, Contract!Dispatch
<1> QED
  BY <1>1, <1>2, <1>6 DEF Contract!Next

LEMMA CompleteImplements ==
    ASSUME ReadsStayTrue, NEW r \in Requests, CommitComplete(r)
    PROVE  Contract!Next
<1> DEFINE a == call[r].alarm
<1> DEFINE o == call[r].order
<1>1. a \in AlarmIds /\ from[r] = state[a] /\ call[r].to = "closed" /\ o \in OrderIds
  BY LockedAlarm, CallByOp DEF CommitComplete, ReadsStayTrue, Completion
<1>2. order[o].status = "assigned" /\ order[o].alarm = a
  BY DEF CommitComplete, ReadsStayTrue, OrdersHeld, HoldsOrder
<1>3. state' = [state EXCEPT ![a] = "closed"] /\ subject' = subject
  <2>1. CASE Moves(r)
    BY <2>1, <1>1 DEF CommitComplete, Record
  <2>2. CASE ~Moves(r)
    BY <2>2, <1>1 DEF CommitComplete, Moves, ReadsStayTrue, TypeOK, rowVars
  <2> QED
    BY <2>1, <2>2
<1>4. Contract!Complete(o)
  BY <1>2, <1>3 DEF CommitComplete, Contract!Complete
<1> QED
  BY <1>1, <1>4 DEF Contract!Next

\* Everything else leaves alarms and orders alone.
LEMMA OthersStutter ==
    ASSUME [Next]_vars,
           \A r \in Requests : /\ ~CommitTransition(r) /\ ~CommitComplete(r)
                               /\ \A o \in OrderIds : ~CommitDispatch(r, o),
           \A a \in AlarmIds : /\ \A k \in Series : ~RaiseDeviation(a, k)
                               /\ \A n \in Nodes : ~RaiseSilence(a, n)
    PROVE  UNCHANGED Contract!vars
<1> USE DEF Contract!vars, rowVars
<1>1. ASSUME NEW r \in Requests, Client(r) PROVE UNCHANGED Contract!vars
  BY <1>1 DEF Client, StartTransition, StartDispatch, StartComplete, Start
<1>2. ASSUME NEW r \in Requests, Serve(r) PROVE UNCHANGED Contract!vars
  BY <1>2 DEF Serve, LockOrder, RefuseOrder, LockAlarm, RefuseAlarm, Publish
<1>3. ASSUME Detect PROVE UNCHANGED Contract!vars
  BY <1>3 DEF Detect, Judge, FilterOpen, ReadQuiet, FilterSilent, EndSilences, ReadBack, Announce
<1>4. ASSUME World PROVE UNCHANGED Contract!vars
  BY <1>4 DEF World, Report, FallQuiet, AgeOut, SetSuspension
<1>5. ASSUME Fault PROVE UNCHANGED Contract!vars
  BY <1>5 DEF Fault, RollBack, Abandon, FailDeviations, FailSilences, FailReadBack, Crash
<1>6. ASSUME UNCHANGED vars PROVE UNCHANGED Contract!vars
  BY <1>6 DEF vars
<1> QED
  BY <1>1, <1>2, <1>3, <1>4, <1>5, <1>6 DEF Next

LEMMA NextImplements == ReadsStayTrue /\ [Next]_vars => [Contract!Next]_(Contract!vars)
<1> SUFFICES ASSUME ReadsStayTrue, [Next]_vars PROVE Contract!Next \/ UNCHANGED Contract!vars
  OBVIOUS
<1>1. \A a \in AlarmIds : \A k \in Series : RaiseDeviation(a, k) => Contract!Next
  BY RaiseImplements DEF RaiseDeviation, Subjects
<1>2. \A a \in AlarmIds : \A n \in Nodes : RaiseSilence(a, n) => Contract!Next
  BY RaiseImplements DEF RaiseSilence, Subjects
<1> QED
  BY <1>1, <1>2, TransitionImplements, DispatchImplements, CompleteImplements, OthersStutter

\* What readers of the alarms and work orders are promised holds of the code:
\* requests, locks, detection passes, faults and restarts are invisible in the rows.
THEOREM ImplementsContract == Spec => ContractSpec
<1>1. Init => Contract!Init
  BY DEF Init, Contract!Init, Contract!Absent, NoOrder
<1> QED
  BY <1>1, NextImplements, ReadsAreSafe, PTL DEF Spec, ContractSpec, Contract!Spec

\* A filed field report leaves its alarm closed for good: the contract closes it
\* in the same step and lets no closed alarm move.
THEOREM VisitsClose == Spec => []VisitsCloseTheirAlarm
<1>1. Init => VisitsCloseTheirAlarm
  BY DEF Init, VisitsCloseTheirAlarm, NoOrder
<1>2. VisitsCloseTheirAlarm /\ ReadsStayTrue /\ [Contract!Next]_(Contract!vars)
         => VisitsCloseTheirAlarm'
  <2> SUFFICES ASSUME VisitsCloseTheirAlarm, ReadsStayTrue, NEW o \in OrderIds,
                      [Contract!Next]_(Contract!vars), order'[o].status = "completed"
               PROVE  state'[order'[o].alarm] = "closed"
    BY DEF VisitsCloseTheirAlarm
  <2> USE DEF VisitsCloseTheirAlarm
  <2>0. /\ state \in [AlarmIds -> LifecycleStates \cup {"unraised"}]
        /\ order \in [OrderIds -> OrderRow]
        /\ \A p \in OrderIds : order[p].status # "absent" => order[p].alarm \in AlarmIds
    BY DEF ReadsStayTrue, TypeOK, OrderRow, NoOrder
  <2>1. CASE UNCHANGED Contract!vars
    BY <2>1 DEF Contract!vars
  <2>2. ASSUME NEW a \in AlarmIds, NEW k \in Subjects, Contract!Raise(a, k)
        PROVE  state'[order'[o].alarm] = "closed"
    BY <2>0, <2>2 DEF Contract!Raise
  <2>3. ASSUME NEW a \in AlarmIds,
               Contract!Acknowledge(a) \/ Contract!Verify(a) \/ Contract!Close(a)
        PROVE  state'[order'[o].alarm] = "closed"
    BY <2>0, <2>3 DEF Contract!Acknowledge, Contract!Verify, Contract!Close, Contract!Active
  <2>4. ASSUME NEW a \in AlarmIds, NEW p \in OrderIds, NEW u \in Users,
               Contract!Dispatch(p, a, u)
        PROVE  state'[order'[o].alarm] = "closed"
    BY <2>0, <2>4 DEF Contract!Dispatch, Contract!Active, Contract!Absent
  <2>5. ASSUME NEW p \in OrderIds, Contract!Complete(p)
        PROVE  state'[order'[o].alarm] = "closed"
    <3>1. order[p].alarm \in AlarmIds /\ state'[order[p].alarm] = "closed"
      BY <2>0, <2>5 DEF Contract!Complete
    <3>2. order'[p].alarm = order[p].alarm /\ (o # p => order'[o] = order[o])
      BY <2>0, <2>5 DEF Contract!Complete
    <3> QED
      BY <2>0, <2>5, <3>1, <3>2 DEF Contract!Complete
  <2> QED
    BY <2>1, <2>2, <2>3, <2>4, <2>5 DEF Contract!Next
<1> QED
  BY <1>1, <1>2, NextImplements, ReadsAreSafe, PTL DEF Spec

-----------------------------------------------------------------------------
(* The audit trail. *)

\* A path that begins with nothing and goes on where it ended is one still.
LEMMA LongerPath ==
    ASSUME NEW t \in Seq(Event), NEW e,
           t # << >>, t[1].from = None, e.from = t[Len(t)].to,
           \A i \in 1 .. Len(t) - 1 : t[i + 1].from = t[i].to
    PROVE  /\ Append(t, e) # << >> /\ Append(t, e)[1].from = None
           /\ Append(t, e)[Len(Append(t, e))].to = e.to
           /\ \A i \in 1 .. Len(Append(t, e)) - 1 : Append(t, e)[i + 1].from = Append(t, e)[i].to
<1> DEFINE u == Append(t, e)
<1>1. Len(t) \in Nat \ {0}
  OBVIOUS
<1>2. /\ Len(u) = Len(t) + 1 /\ u[Len(t) + 1] = e
      /\ \A i \in 1 .. Len(t) : u[i] = t[i]
  OBVIOUS
<1> HIDE DEF u
<1>3. u # << >>
  BY <1>1, <1>2
<1>4. u[1] = t[1] /\ u[Len(u)] = e
  BY <1>1, <1>2
<1>5. \A i \in 1 .. Len(u) - 1 : u[i + 1].from = u[i].to
  <2>1. SUFFICES ASSUME NEW i \in 1 .. Len(u) - 1 PROVE u[i + 1].from = u[i].to
    OBVIOUS
  <2>2. i \in 1 .. Len(t)
    BY <1>1, <1>2
  <2>3. CASE i = Len(t)
    <3>1. u[i + 1] = e /\ u[i] = t[Len(t)]
      BY <2>2, <2>3, <1>2
    <3> QED
      BY <3>1
  <2>4. CASE i # Len(t)
    <3>1. i \in 1 .. Len(t) - 1 /\ i + 1 \in 1 .. Len(t)
      BY <1>1, <2>2, <2>4
    <3>2. u[i + 1] = t[i + 1] /\ u[i] = t[i] /\ t[i + 1].from = t[i].to
      BY <2>2, <3>1, <1>2
    <3> QED
      BY <3>2
  <2> QED
    BY <2>3, <2>4
<1> QED
  BY <1>3, <1>4, <1>5 DEF u

\* Appending the move a handler read and made keeps the path unbroken.
LEMMA RecordContinuesTrail ==
    ASSUME ReadsStayTrue, AuditTrail, NEW r \in Requests, phase[r] = "locked", Record(r),
           closedAt'[call[r].alarm] <=> call[r].to = "closed",
           \A b \in AlarmIds : b # call[r].alarm => closedAt'[b] = closedAt[b]
    PROVE  AuditTrail'
<1> DEFINE a == call[r].alarm
           e == [from |-> from[r], to |-> call[r].to, by |-> call[r].by]
<1>1. /\ a \in AlarmIds /\ from[r] = state[a] /\ state[a] # "unraised"
      /\ trail[a] \in Seq(Event)
  BY LockedAlarm DEF ReadsStayTrue, TypeOK, LifecycleStates
<1>2. /\ state'[a] = e.to /\ e.to # "unraised"
      /\ \A b \in AlarmIds : b # a => state'[b] = state[b] /\ trail'[b] = trail[b]
  <2>1. /\ state' = [state EXCEPT ![a] = e.to]
        /\ trail' = [trail EXCEPT ![a] = Append(@, e)]
    BY DEF Record
  <2>2. state \in [AlarmIds -> LifecycleStates \cup {"unraised"}] /\ trail \in [AlarmIds -> Seq(Event)]
    BY DEF ReadsStayTrue, TypeOK
  <2>3. state'[a] = e.to /\ \A b \in AlarmIds : b # a => state'[b] = state[b] /\ trail'[b] = trail[b]
    BY <1>1, <2>1, <2>2
  <2> QED
    BY <2>3, RecordMoves
<1>3. trail'[a] = Append(trail[a], e) /\ e.from = state[a]
  BY <1>1 DEF ReadsStayTrue, TypeOK, Record
<1>4. /\ trail[a] # << >> /\ trail[a][1].from = None /\ trail[a][Len(trail[a])].to = state[a]
      /\ \A i \in 1 .. Len(trail[a]) - 1 : trail[a][i + 1].from = trail[a][i].to
  BY <1>1 DEF AuditTrail
<1>5. /\ trail'[a] # << >> /\ trail'[a][1].from = None /\ trail'[a][Len(trail'[a])].to = e.to
      /\ \A i \in 1 .. Len(trail'[a]) - 1 : trail'[a][i + 1].from = trail'[a][i].to
  <2> HIDE DEF a, e
  <2> DEFINE t == trail[a]
  <2>1. t \in Seq(Event) /\ t # << >> /\ t[1].from = None /\ e.from = t[Len(t)].to
    BY <1>1, <1>3, <1>4
  <2>2. \A i \in 1 .. Len(t) - 1 : t[i + 1].from = t[i].to
    BY <1>4
  <2>3. trail'[a] = Append(t, e)
    BY <1>3
  <2> HIDE DEF t
  <2> QED
    BY <2>1, <2>2, <2>3, LongerPath
<1>6. closedAt'[a] <=> state'[a] = "closed"
  BY <1>2
<1>7. \A b \in AlarmIds : b # a =>
        state'[b] = state[b] /\ trail'[b] = trail[b] /\ (closedAt'[b] <=> closedAt[b])
  BY <1>2
<1> HIDE DEF a, e
<1> QED
  BY <1>2, <1>5, <1>6, <1>7 DEF AuditTrail

LEMMA RaiseStartsTrail ==
    ASSUME ReadsStayTrue, AuditTrail, NEW a \in AlarmIds, NEW k, Raise(a, k)
    PROVE  AuditTrail'
<1>1. /\ state'[a] = "open" /\ closedAt' = closedAt /\ state[a] = "unraised"
      /\ trail'[a] = <<[from |-> None, to |-> "open", by |-> None]>>
      /\ \A b \in AlarmIds : b # a => state'[b] = state[b] /\ trail'[b] = trail[b]
  BY DEF ReadsStayTrue, TypeOK, Raise
<1>2. Len(trail'[a]) = 1 /\ trail'[a] # << >> /\ trail'[a][1].from = None /\ trail'[a][1].to = "open"
  BY <1>1
<1>3. ~closedAt[a]
  BY <1>1 DEF AuditTrail
<1> SUFFICES ASSUME NEW b \in AlarmIds
             PROVE  /\ state'[b] = "unraised" <=> trail'[b] = << >>
                    /\ state'[b] # "unraised" =>
                          /\ trail'[b][1].from = None
                          /\ trail'[b][Len(trail'[b])].to = state'[b]
                          /\ \A i \in 1 .. Len(trail'[b]) - 1 :
                                trail'[b][i + 1].from = trail'[b][i].to
                    /\ closedAt'[b] <=> state'[b] = "closed"
  BY Zenon DEF AuditTrail
<1>4. CASE b = a
  <2>1. state'[b] = "open" /\ trail'[b] # << >> /\ ~closedAt'[b]
    BY <1>1, <1>2, <1>3, <1>4
  <2>2. Len(trail'[b]) = 1 /\ trail'[b][1].from = None /\ trail'[b][1].to = "open"
    BY <1>2, <1>4
  <2>3. \A i \in 1 .. Len(trail'[b]) - 1 : trail'[b][i + 1].from = trail'[b][i].to
    BY <2>2
  <2>4. trail'[b][Len(trail'[b])].to = state'[b]
    BY <2>1, <2>2
  <2>5. closedAt'[b] <=> state'[b] = "closed"
    BY <2>1
  <2>6. state'[b] = "unraised" <=> trail'[b] = << >>
    BY <2>1
  <2>7. trail'[b][1].from = None
    BY <2>2
  <2> QED
    BY <2>3, <2>4, <2>5, <2>6, <2>7, Zenon
<1>5. CASE b # a
  <2>1. /\ state[b] = "unraised" <=> trail[b] = << >>
        /\ state[b] # "unraised" =>
              /\ trail[b][1].from = None
              /\ trail[b][Len(trail[b])].to = state[b]
              /\ \A i \in 1 .. Len(trail[b]) - 1 : trail[b][i + 1].from = trail[b][i].to
        /\ closedAt[b] <=> state[b] = "closed"
    BY Zenon DEF AuditTrail
  <2>2. state'[b] = state[b] /\ trail'[b] = trail[b] /\ closedAt'[b] = closedAt[b]
    BY <1>1, <1>5
  <2> QED
    BY <2>1, <2>2, Zenon
<1> QED
  BY <1>4, <1>5

LEMMA RowsStepTrail == ASSUME AuditTrail, UNCHANGED rowVars PROVE AuditTrail'
  BY DEF AuditTrail, rowVars

\* The history of every alarm reads as one path from its raising to the state it
\* is in, whichever handlers raced for it, and closed_at agrees with that state.
THEOREM TrailsAreWhole == Spec => []AuditTrail
<1>1. Init => AuditTrail
  BY DEF Init, AuditTrail
<1>2. AuditTrail /\ ReadsStayTrue /\ [Next]_vars => AuditTrail'
  <2> SUFFICES ASSUME AuditTrail, ReadsStayTrue, [Next]_vars PROVE AuditTrail'
    OBVIOUS
  <2>1. ASSUME NEW r \in Requests, Client(r) PROVE AuditTrail'
    BY <2>1, RowsStepTrail DEF Client, StartTransition, StartDispatch, StartComplete, Start
  <2>2. ASSUME NEW r \in Requests, CommitTransition(r) PROVE AuditTrail'
    BY <2>2, RecordContinuesTrail, LockedAlarm DEF CommitTransition, ReadsStayTrue, TypeOK
  <2>3. ASSUME NEW r \in Requests, NEW o \in OrderIds, CommitDispatch(r, o) PROVE AuditTrail'
    <3>1. CASE Moves(r)
      <4>1. call[r].to = "under_verification" /\ call[r].alarm \in AlarmIds
            /\ state[call[r].alarm] # "closed"
        BY <2>3, LockedAlarm, CallByOp DEF CommitDispatch, ReadsStayTrue, Dispatch
      <4>2. closedAt'[call[r].alarm] <=> call[r].to = "closed"
        BY <2>3, <4>1 DEF CommitDispatch, AuditTrail
      <4> QED
        BY <2>3, <3>1, <4>2, RecordContinuesTrail DEF CommitDispatch
    <3>2. CASE ~Moves(r)
      BY <2>3, <3>2, RowsStepTrail DEF CommitDispatch, rowVars
    <3> QED
      BY <3>1, <3>2
  <2>4. ASSUME NEW r \in Requests, CommitComplete(r) PROVE AuditTrail'
    <3>1. CASE Moves(r)
      <4>1. call[r].to = "closed" /\ call[r].alarm \in AlarmIds
        BY <2>4, LockedAlarm, CallByOp DEF CommitComplete, ReadsStayTrue, Completion
      <4>2. /\ closedAt'[call[r].alarm] <=> call[r].to = "closed"
            /\ \A b \in AlarmIds : b # call[r].alarm => closedAt'[b] = closedAt[b]
        BY <2>4, <3>1, <4>1 DEF CommitComplete, ReadsStayTrue, TypeOK
      <4> QED
        BY <2>4, <3>1, <4>2, RecordContinuesTrail DEF CommitComplete
    <3>2. CASE ~Moves(r)
      BY <2>4, <3>2, RowsStepTrail DEF CommitComplete
    <3> QED
      BY <3>1, <3>2
  <2>5. ASSUME NEW r \in Requests, Serve(r) PROVE AuditTrail'
    BY <2>2, <2>3, <2>4, <2>5, RowsStepTrail
       DEF Serve, LockOrder, RefuseOrder, LockAlarm, RefuseAlarm, Publish
  <2>6. ASSUME Detect PROVE AuditTrail'
    BY <2>6, RaiseStartsTrail, RowsStepTrail
       DEF Detect, Judge, FilterOpen, RaiseDeviation, ReadQuiet, FilterSilent, RaiseSilence,
           EndSilences, ReadBack, Announce
  <2>7. ASSUME World \/ Fault PROVE AuditTrail'
    BY <2>7, RowsStepTrail
       DEF World, Report, FallQuiet, AgeOut, SetSuspension, Fault, RollBack, Abandon,
           FailDeviations, FailSilences, FailReadBack, Crash
  <2>8. ASSUME UNCHANGED vars PROVE AuditTrail'
    BY <2>8, RowsStepTrail DEF vars
  <2> QED
    BY <2>1, <2>5, <2>6, <2>7, <2>8 DEF Next
<1> QED
  BY <1>1, <1>2, ReadsAreSafe, PTL DEF Spec

-----------------------------------------------------------------------------
(* What each step adds to the steps of an alarm that count as taken.        *)

LEMMA MoveVisits ==
    ASSUME ReadsStayTrue, NEW r \in Requests, phase[r] = "locked", Record(r)
    PROVE  \A b \in AlarmIds :
              Visited(b)' = IF b = call[r].alarm THEN Visited(b) \cup {call[r].to} ELSE Visited(b)
<1> SUFFICES ASSUME NEW b \in AlarmIds
             PROVE  Visited(b)' =
                       IF b = call[r].alarm THEN Visited(b) \cup {call[r].to} ELSE Visited(b)
  OBVIOUS
<1>1. CASE b = call[r].alarm
  <2> DEFINE e == [from |-> from[r], to |-> call[r].to, by |-> call[r].by]
             n == Len(trail[b])
  <2>1. trail[b] \in Seq(Event) /\ trail'[b] = Append(trail[b], e)
    BY <1>1 DEF Record, ReadsStayTrue, TypeOK
  <2>2. /\ n \in Nat /\ Len(trail'[b]) = n + 1
        /\ trail'[b][n + 1] = e
        /\ \A i \in 1 .. n : trail'[b][i] = trail[b][i]
    BY <2>1
  <2>3. e.to = call[r].to
    OBVIOUS
  <2> HIDE DEF e, n
  <2>4. Visited(b)' = {trail'[b][i].to : i \in 1 .. n} \cup {e.to}
    BY <2>2 DEF Visited
  <2>5. Visited(b) = {trail'[b][i].to : i \in 1 .. n}
    BY <2>2 DEF Visited, n
  <2> QED
    BY <1>1, <2>3, <2>4, <2>5
<1>2. CASE b # call[r].alarm
  <2>1. trail'[b] = trail[b]
    BY <1>2 DEF Record, ReadsStayTrue, TypeOK
  <2> QED
    BY <1>2, <2>1 DEF Visited
<1> QED
  BY <1>1, <1>2

LEMMA RaiseVisits ==
    ASSUME ReadsStayTrue, AuditTrail, NEW a \in AlarmIds, NEW k, Raise(a, k)
    PROVE  \A b \in AlarmIds :
              Visited(b)' = IF b = a THEN Visited(b) \cup {"open"} ELSE Visited(b)
<1>1. /\ trail[a] = << >>
      /\ trail'[a] = <<[from |-> None, to |-> "open", by |-> None]>>
      /\ \A b \in AlarmIds : b # a => trail'[b] = trail[b]
  BY DEF ReadsStayTrue, TypeOK, Raise, AuditTrail
<1>2. Visited(a) = {}
  BY <1>1 DEF Visited
<1>3. Visited(a)' = {"open"}
  BY <1>1 DEF Visited
<1>4. \A b \in AlarmIds : b # a => Visited(b)' = Visited(b)
  BY <1>1 DEF Visited
<1> QED
  BY <1>2, <1>3, <1>4

LEMMA SameVisits == ASSUME UNCHANGED rowVars PROVE \A b : Visited(b)' = Visited(b)
  BY DEF Visited, rowVars

-----------------------------------------------------------------------------
(* What is broadcast has been committed. *)

\* The broadcasts still to come are of committed steps too: the alarms in the
\* detector's hands are raised, and the moves behind a handler are recorded.
AnnouncedAreCommitted ==
    /\ \A e \in published : e[2] \in Visited(e[1])
    /\ \A a \in deviations \cup silences : "open" \in Visited(a)
    /\ \A r \in Requests :
          phase[r] = "committed" /\ Moves(r) => call[r].to \in Visited(call[r].alarm)

\* A commit that moves its alarm, whichever handler it belongs to.
LEMMA MoveAnnounced ==
    ASSUME ReadsStayTrue, AnnouncedAreCommitted, NEW r \in Requests,
           phase[r] = "locked", Record(r), Committed(r)
    PROVE  AnnouncedAreCommitted'
<1>1. \A b \in AlarmIds : Visited(b) \subseteq Visited(b)'
  BY MoveVisits
<1>2. \A b \in AlarmIds : b = call[r].alarm => call[r].to \in Visited(b)'
  BY MoveVisits
<1>3. \A q \in Requests : phase[q] = "committed" => call[q].alarm \in AlarmIds
  BY DEF ReadsStayTrue, CallsMatchPhases
<1>4. \A q \in Requests : q # r => phase'[q] = phase[q]
  BY DEF Committed
<1>5. \A e \in published : e[1] \in AlarmIds
  BY DEF ReadsStayTrue, TypeOK
<1>6. deviations \cup silences \subseteq AlarmIds
  BY DEF ReadsStayTrue, TypeOK
<1>7. UNCHANGED <<call, from, deviations, silences, published>>
  BY DEF Committed, detectorVars
<1>8. \A e \in published : e[2] \in Visited(e[1])'
  BY <1>1, <1>5 DEF AnnouncedAreCommitted
<1>9. \A a \in deviations \cup silences : "open" \in Visited(a)'
  BY <1>1, <1>6 DEF AnnouncedAreCommitted
<1>10. ASSUME NEW q \in Requests, phase'[q] = "committed", from[q] # call[q].to
       PROVE  \A b \in AlarmIds : b = call[q].alarm => call[q].to \in Visited(b)'
  <2>1. CASE q = r
    BY <2>1, <1>2
  <2>2. CASE q # r
    BY <2>2, <1>1, <1>3, <1>4, <1>10 DEF AnnouncedAreCommitted, Moves
  <2> QED
    BY <2>1, <2>2
<1>11. \A q \in Requests : call[q].alarm \in AlarmIds \/ phase'[q] # "committed"
  BY <1>3, <1>4, LockedAlarm
<1> QED
  BY <1>7, <1>8, <1>9, <1>10, <1>11 DEF AnnouncedAreCommitted, Moves

\* A step that writes no alarm row, forgets what it likes and broadcasts nothing
\* but what was waiting to be broadcast.
LEMMA QuietAnnounced ==
    ASSUME AnnouncedAreCommitted, UNCHANGED rowVars,
           \A e \in published' : e \in published \/ e[2] \in Visited(e[1]),
           deviations' \cup silences' \subseteq deviations \cup silences,
           \A r \in Requests : phase'[r] = "committed" =>
               /\ phase[r] = "committed" \/ ~Moves(r)
               /\ call'[r] = call[r] /\ from'[r] = from[r]
    PROVE  AnnouncedAreCommitted'
<1>1. \A b : Visited(b)' = Visited(b)
  BY SameVisits
<1>2. \A e \in published' : e[2] \in Visited(e[1])
  BY DEF AnnouncedAreCommitted
<1>3. \A a \in deviations' \cup silences' : "open" \in Visited(a)
  BY DEF AnnouncedAreCommitted
<1>4. ASSUME NEW r \in Requests, phase'[r] = "committed", Moves(r)'
      PROVE  call'[r].to \in Visited(call'[r].alarm)
  BY <1>4 DEF AnnouncedAreCommitted, Moves
<1> QED
  BY <1>1, <1>2, <1>3, <1>4 DEF AnnouncedAreCommitted

LEMMA IdleAnnounced ==
    ASSUME ReadsStayTrue, AnnouncedAreCommitted, NEW r \in Requests, Idle(r),
           UNCHANGED <<rowVars, detectorVars>>,
           published' = published
              \/ (phase[r] = "committed" /\ Moves(r)
                  /\ published' = published \cup {<<call[r].alarm, call[r].to>>})
    PROVE  AnnouncedAreCommitted'
<1>1. \A e \in published' : e \in published \/ e[2] \in Visited(e[1])
  BY DEF AnnouncedAreCommitted
<1>2. \A q \in Requests : phase'[q] = "committed" =>
          phase[q] = "committed" /\ call'[q] = call[q] /\ from'[q] = from[q]
  BY DEF Idle, ReadsStayTrue, TypeOK
<1> QED
  BY <1>1, <1>2, QuietAnnounced DEF detectorVars

LEMMA NextAnnounced ==
    ASSUME ReadsStayTrue, AuditTrail, AnnouncedAreCommitted, [Next]_vars
    PROVE  AnnouncedAreCommitted'
<1>1. ASSUME NEW r \in Requests, Client(r) PROVE AnnouncedAreCommitted'
  <2>1. PICK c : Start(r, c)
    BY <1>1 DEF Client, StartTransition, StartDispatch, StartComplete
  <2> QED
    BY <2>1, QuietAnnounced DEF Start, ReadsStayTrue, TypeOK, detectorVars
<1>2. ASSUME NEW r \in Requests, LockOrder(r) \/ LockAlarm(r) PROVE AnnouncedAreCommitted'
  BY <1>2, QuietAnnounced
     DEF LockOrder, LockAlarm, ReadyForAlarm, ReadsStayTrue, TypeOK, detectorVars
<1>3. ASSUME NEW r \in Requests, RefuseOrder(r) \/ RefuseAlarm(r) \/ Publish(r)
      PROVE  AnnouncedAreCommitted'
  BY <1>3, IdleAnnounced DEF RefuseOrder, RefuseAlarm, Publish
<1>4. ASSUME NEW r \in Requests, CommitTransition(r) PROVE AnnouncedAreCommitted'
  BY <1>4, MoveAnnounced DEF CommitTransition
<1>5. ASSUME NEW r \in Requests, CommitComplete(r) \/ \E o \in OrderIds : CommitDispatch(r, o)
      PROVE  AnnouncedAreCommitted'
  <2>1. CASE Moves(r)
    BY <1>5, <2>1, MoveAnnounced DEF CommitComplete, CommitDispatch
  <2>2. CASE ~Moves(r)
    <3>1. UNCHANGED rowVars /\ Committed(r)
      BY <1>5, <2>2 DEF CommitComplete, CommitDispatch, rowVars
    <3> QED
      BY <2>2, <3>1, QuietAnnounced DEF Committed, detectorVars, ReadsStayTrue, TypeOK
  <2> QED
    BY <2>1, <2>2
<1>6. ASSUME NEW a \in AlarmIds, NEW k \in Subjects, Raise(a, k),
             deviations' \cup silences' = deviations \cup silences \cup {a}
      PROVE  AnnouncedAreCommitted'
  <2>1. /\ \A b \in AlarmIds : Visited(b) \subseteq Visited(b)'
        /\ "open" \in Visited(a)'
    BY <1>6, RaiseVisits
  <2>2. /\ \A q \in Requests : phase[q] = "committed" => call[q].alarm \in AlarmIds
        /\ \A e \in published : e[1] \in AlarmIds
        /\ deviations \cup silences \subseteq AlarmIds
    BY DEF ReadsStayTrue, TypeOK, CallsMatchPhases
  <2>3. UNCHANGED <<phase, call, from, published>>
    BY <1>6 DEF Raise, requestVars
  <2> QED
    BY <1>6, <2>1, <2>2, <2>3 DEF AnnouncedAreCommitted, Moves
<1>7. ASSUME NEW a \in AlarmIds, Announce(a) PROVE AnnouncedAreCommitted'
  <2>1. \A e \in published' : e \in published \/ e[2] \in Visited(e[1])
    BY <1>7 DEF Announce, AnnouncedAreCommitted
  <2> QED
    BY <1>7, <2>1, QuietAnnounced DEF Announce, requestVars
<1>8. ASSUME Detect PROVE AnnouncedAreCommitted'
  <2>1. ASSUME NEW a \in AlarmIds, NEW k \in Subjects,
               RaiseDeviation(a, k) \/ RaiseSilence(a, k)
        PROVE  AnnouncedAreCommitted'
    BY <2>1, <1>6 DEF RaiseDeviation, RaiseSilence
  <2>2. CASE Judge \/ FilterOpen \/ ReadQuiet \/ FilterSilent \/ EndSilences \/ ReadBack
    BY <2>2, QuietAnnounced
       DEF Judge, FilterOpen, ReadQuiet, FilterSilent, EndSilences, ReadBack, requestVars
  <2> QED
    BY <1>7, <1>8, <2>1, <2>2 DEF Detect, Subjects
<1>9. ASSUME World \/ UNCHANGED vars PROVE AnnouncedAreCommitted'
  <2>1. UNCHANGED <<rowVars, requestVars, detectorVars, published>>
    BY <1>9 DEF World, Report, FallQuiet, AgeOut, SetSuspension, vars
  <2> QED
    BY <2>1, QuietAnnounced DEF requestVars, detectorVars
<1>10. ASSUME Fault PROVE AnnouncedAreCommitted'
  <2>1. ASSUME NEW r \in Requests, RollBack(r) \/ Abandon(r) PROVE AnnouncedAreCommitted'
    BY <2>1, IdleAnnounced DEF RollBack, Abandon
  <2>2. CASE FailDeviations \/ FailSilences \/ FailReadBack
    BY <2>2, QuietAnnounced DEF FailDeviations, FailSilences, FailReadBack, requestVars
  <2>3. CASE Crash
    BY <2>3, QuietAnnounced DEF Crash
  <2> QED
    BY <1>10, <2>1, <2>2, <2>3 DEF Fault
<1> QED
  BY <1>1, <1>2, <1>3, <1>4, <1>5, <1>8, <1>9, <1>10 DEF Next, Serve

\* Nothing is broadcast that was not committed, whatever rolls back, is dropped
\* or dies on the way: a dashboard that fetches the alarm finds the move.
THEOREM HeardIsCommitted == Spec => []HeardAfterCommitted
<1>1. Init => AnnouncedAreCommitted
  BY DEF Init, AnnouncedAreCommitted
<1>2. AnnouncedAreCommitted => HeardAfterCommitted
  BY DEF AnnouncedAreCommitted, HeardAfterCommitted
<1>3. ReadsStayTrue /\ AuditTrail /\ AnnouncedAreCommitted /\ [Next]_vars
         => AnnouncedAreCommitted'
  BY NextAnnounced
<1> QED
  BY <1>1, <1>2, <1>3, ReadsAreSafe, TrailsAreWhole, PTL DEF Spec

-----------------------------------------------------------------------------
(* While nothing fails, what is committed is broadcast. *)

\* A commit leaves its own step to the handler that made it, and takes nobody
\* else's step out of his hands.
LEMMA MoveHeard ==
    ASSUME ReadsStayTrue, NoStepGoesUnheard, NEW r \in Requests,
           phase[r] = "locked", Moves(r), Record(r), Committed(r)
    PROVE  NoStepGoesUnheard'
<1>1. UNCHANGED <<call, from, deviations, silences, published>>
  BY DEF Committed, detectorVars
<1>2. phase'[r] = "committed" /\ \A q \in Requests : q # r => phase'[q] = phase[q]
  BY DEF Committed, ReadsStayTrue, TypeOK
<1>3. ASSUME NEW a, NEW s, ToBePublished(a, s) PROVE ToBePublished(a, s)'
  <2>1. CASE s = "open" /\ a \in deviations \cup silences
    BY <2>1, <1>1 DEF ToBePublished
  <2>2. ASSUME NEW q \in Requests, phase[q] = "committed", call[q].alarm = a,
               call[q].to = s, Moves(q)
        PROVE  ToBePublished(a, s)'
    <3>1. phase'[q] = "committed"
      BY <2>2, <1>2
    <3> QED
      BY <2>2, <3>1, <1>1 DEF ToBePublished, Moves
  <2> QED
    BY <1>3, <2>1, <2>2 DEF ToBePublished
<1>4. ASSUME NEW a, NEW s, a = call[r].alarm, s = call[r].to PROVE ToBePublished(a, s)'
  BY <1>1, <1>2, <1>4 DEF ToBePublished, Moves
<1>5. ASSUME NEW a \in AlarmIds, NEW s \in Visited(a)'
      PROVE  <<a, s>> \in published \/ ToBePublished(a, s)'
  <2>1. CASE s \in Visited(a)
    BY <2>1, <1>3 DEF NoStepGoesUnheard
  <2>2. CASE s \notin Visited(a)
    BY <2>2, <1>4, <1>5, MoveVisits
  <2> QED
    BY <2>1, <2>2
<1> QED
  BY <1>1, <1>5 DEF NoStepGoesUnheard

\* A step that writes no alarm row and takes no broadcast out of its owner's
\* hands but by making it.
LEMMA QuietHeard ==
    ASSUME NoStepGoesUnheard, UNCHANGED rowVars, published \subseteq published',
           \A a \in deviations \cup silences :
               a \in deviations' \cup silences' \/ <<a, "open">> \in published',
           \A r \in Requests : phase[r] = "committed" /\ Moves(r) =>
               \/ phase'[r] = "committed" /\ call'[r] = call[r] /\ from'[r] = from[r]
               \/ <<call[r].alarm, call[r].to>> \in published'
    PROVE  NoStepGoesUnheard'
<1>1. \A b : Visited(b)' = Visited(b)
  BY SameVisits
<1>2. ASSUME NEW a, NEW s, ToBePublished(a, s)
      PROVE  <<a, s>> \in published' \/ ToBePublished(a, s)'
  <2>1. CASE s = "open" /\ a \in deviations \cup silences
    BY <2>1 DEF ToBePublished
  <2>2. ASSUME NEW q \in Requests, phase[q] = "committed", call[q].alarm = a,
               call[q].to = s, Moves(q)
        PROVE  <<a, s>> \in published' \/ ToBePublished(a, s)'
    BY <2>2 DEF ToBePublished, Moves
  <2> QED
    BY <1>2, <2>1, <2>2 DEF ToBePublished
<1> QED
  BY <1>1, <1>2 DEF NoStepGoesUnheard

LEMMA RaiseHeard ==
    ASSUME ReadsStayTrue, AuditTrail, NoStepGoesUnheard,
           NEW a \in AlarmIds, NEW k \in Subjects, Raise(a, k),
           deviations' \cup silences' = deviations \cup silences \cup {a}
    PROVE  NoStepGoesUnheard'
<1>1. UNCHANGED <<phase, call, from, published>>
  BY DEF Raise, requestVars
<1>2. \A b, s : ToBePublished(b, s) => ToBePublished(b, s)'
  BY <1>1 DEF ToBePublished, Moves
<1>3. ToBePublished(a, "open")'
  BY DEF ToBePublished
<1> QED
  BY <1>1, <1>2, <1>3, RaiseVisits DEF NoStepGoesUnheard

LEMMA NextHeard ==
    ASSUME Faults = {}, ReadsStayTrue, AuditTrail, NoStepGoesUnheard, [Next]_vars
    PROVE  NoStepGoesUnheard'
<1>1. ASSUME NEW r \in Requests, Client(r) PROVE NoStepGoesUnheard'
  <2>1. PICK c : Start(r, c)
    BY <1>1 DEF Client, StartTransition, StartDispatch, StartComplete
  <2> QED
    BY <2>1, QuietHeard DEF Start, ReadsStayTrue, TypeOK, detectorVars
<1>2. ASSUME NEW r \in Requests, LockOrder(r) \/ LockAlarm(r) PROVE NoStepGoesUnheard'
  BY <1>2, QuietHeard
     DEF LockOrder, LockAlarm, ReadyForAlarm, ReadsStayTrue, TypeOK, detectorVars
<1>3. ASSUME NEW r \in Requests, Idle(r), UNCHANGED <<rowVars, detectorVars>>,
             \/ phase[r] # "committed" /\ published' = published
             \/ Publish(r)
      PROVE  NoStepGoesUnheard'
  <2>1. \A q \in Requests : q # r =>
           phase'[q] = phase[q] /\ call'[q] = call[q] /\ from'[q] = from[q]
    BY <1>3 DEF Idle, ReadsStayTrue, TypeOK
  <2>2. published \subseteq published'
    BY <1>3 DEF Publish
  <2>3. phase[r] = "committed" /\ Moves(r) => <<call[r].alarm, call[r].to>> \in published'
    BY <1>3 DEF Publish
  <2> QED
    BY <1>3, <2>1, <2>2, <2>3, QuietHeard DEF detectorVars
<1>4. ASSUME NEW r \in Requests, RefuseOrder(r) \/ RefuseAlarm(r) \/ Publish(r)
      PROVE  NoStepGoesUnheard'
  BY <1>3, <1>4 DEF RefuseOrder, RefuseAlarm, ReadyForAlarm, Publish
<1>5. ASSUME NEW r \in Requests, CommitTransition(r) PROVE NoStepGoesUnheard'
  <2>1. Moves(r)
    BY <1>5, LockedAlarm DEF CommitTransition, MayTransition, Moves
  <2> QED
    BY <1>5, <2>1, MoveHeard DEF CommitTransition
<1>6. ASSUME NEW r \in Requests, CommitComplete(r) \/ \E o \in OrderIds : CommitDispatch(r, o)
      PROVE  NoStepGoesUnheard'
  <2>1. CASE Moves(r)
    BY <1>6, <2>1, MoveHeard DEF CommitComplete, CommitDispatch
  <2>2. CASE ~Moves(r)
    <3>1. UNCHANGED rowVars /\ Committed(r) /\ phase[r] = "locked"
      BY <1>6, <2>2 DEF CommitComplete, CommitDispatch, rowVars
    <3> QED
      BY <2>2, <3>1, QuietHeard DEF Committed, detectorVars, ReadsStayTrue, TypeOK
  <2> QED
    BY <2>1, <2>2
<1>7. ASSUME NEW a \in AlarmIds, Announce(a) PROVE NoStepGoesUnheard'
  <2>1. published \subseteq published' /\ <<a, "open">> \in published'
    BY <1>7 DEF Announce
  <2>2. \A b \in deviations \cup silences : b # a => b \in deviations' \cup silences'
    BY <1>7 DEF Announce
  <2> QED
    BY <1>7, <2>1, <2>2, QuietHeard DEF Announce, requestVars
<1>8. ASSUME Detect PROVE NoStepGoesUnheard'
  <2>1. ASSUME NEW a \in AlarmIds, NEW k \in Subjects,
               RaiseDeviation(a, k) \/ RaiseSilence(a, k)
        PROVE  NoStepGoesUnheard'
    BY <2>1, RaiseHeard DEF RaiseDeviation, RaiseSilence
  <2>2. CASE Judge \/ FilterOpen \/ ReadQuiet \/ FilterSilent \/ EndSilences \/ ReadBack
    BY <2>2, QuietHeard
       DEF Judge, FilterOpen, ReadQuiet, FilterSilent, EndSilences, ReadBack, requestVars
  <2> QED
    BY <1>7, <1>8, <2>1, <2>2 DEF Detect, Subjects
<1>9. ASSUME World \/ UNCHANGED vars PROVE NoStepGoesUnheard'
  <2>1. UNCHANGED <<rowVars, requestVars, detectorVars, published>>
    BY <1>9 DEF World, Report, FallQuiet, AgeOut, SetSuspension, vars
  <2> QED
    BY <2>1, QuietHeard DEF requestVars, detectorVars
<1>10. ~Fault
  BY DEF Fault, RollBack, Abandon, FailDeviations, FailSilences, FailReadBack, Crash
<1> QED
  BY <1>1, <1>2, <1>4, <1>5, <1>6, <1>8, <1>9, <1>10 DEF Next, Serve

\* While nothing fails, every committed step of every alarm is broadcast or in the
\* hands of a handler or of the detector that will broadcast it.  Each of the
\* faults breaks it: the broadcast is kept nowhere but in memory.
THEOREM StepsAreHeard == ASSUME Faults = {} PROVE Spec => []NoStepGoesUnheard
<1>1. Init => NoStepGoesUnheard
  BY DEF Init, NoStepGoesUnheard, Visited
<1>2. ReadsStayTrue /\ AuditTrail /\ NoStepGoesUnheard /\ [Next]_vars => NoStepGoesUnheard'
  BY NextHeard
<1> QED
  BY <1>1, <1>2, ReadsAreSafe, TrailsAreWhole, PTL DEF Spec

-----------------------------------------------------------------------------
(* Technicians stay on their nodes. *)

\* An order, open or completed, sends the user to the node.
Sent(u, n) ==
    \E o \in OrderIds :
        /\ order[o].status # "absent" /\ order[o].technician = u
        /\ NodeOf(subject[order[o].alarm]) = n

\* A technician's request was let in for nodes he was sent to, and completes an
\* order of his own.
CallsByTheSent ==
    \A r \in Requests : call[r].op # "none" /\ Role[call[r].by] = "technician" =>
        /\ call[r].op # "dispatch"
        /\ \A n \in call[r].sees : Sent(call[r].by, n)
        /\ call[r].op = "complete" => order[call[r].order].technician = call[r].by

\* Alarms never change what they are about, and orders neither their alarm nor
\* their technician.
RowsKept ==
    /\ \A a \in AlarmIds : state[a] # "unraised" => subject'[a] = subject[a]
    /\ \A o \in OrderIds : order[o].status # "absent" =>
          /\ order'[o].status # "absent"
          /\ order'[o].alarm = order[o].alarm
          /\ order'[o].technician = order[o].technician

LEMMA SentStaysSent ==
    ASSUME ReadsStayTrue, RowsKept, NEW u, NEW n, Sent(u, n)
    PROVE  Sent(u, n)'
<1>1. PICK o \in OrderIds :
        /\ order[o].status # "absent" /\ order[o].technician = u
        /\ NodeOf(subject[order[o].alarm]) = n
  BY DEF Sent
<1>2. order[o].alarm \in AlarmIds /\ state[order[o].alarm] # "unraised"
  BY <1>1 DEF ReadsStayTrue, TypeOK, RowsReferToRows, OrderRow, NoOrder
<1>3. subject'[order'[o].alarm] = subject[order[o].alarm]
  BY <1>1, <1>2 DEF RowsKept
<1> QED
  BY <1>1, <1>3 DEF RowsKept, Sent, NodeOf

LEMMA NextKeepsRows == ASSUME ReadsStayTrue, [Next]_vars PROVE RowsKept
<1>1. ASSUME UNCHANGED <<subject, order>> PROVE RowsKept
  BY <1>1 DEF RowsKept
<1>2. ASSUME NEW r \in Requests, NEW o \in OrderIds, CommitDispatch(r, o) PROVE RowsKept
  BY <1>2 DEF RowsKept, CommitDispatch, Record, ReadsStayTrue, TypeOK
<1>3. ASSUME NEW r \in Requests, CommitComplete(r) PROVE RowsKept
  <2>1. subject' = subject
    BY <1>3 DEF CommitComplete, Record, rowVars
  <2>2. /\ order' = [order EXCEPT ![call[r].order].status = "completed"]
        /\ order \in [OrderIds -> OrderRow] /\ call[r].order \in OrderIds
    BY <1>3, CallByOp DEF CommitComplete, ReadsStayTrue, TypeOK, Completion
  <2>3. order[call[r].order] \in
           [alarm : AlarmIds, technician : Users, status : {"assigned", "completed"}]
    BY <1>3, <2>2 DEF CommitComplete, ReadsStayTrue, CallsMatchPhases, OrderRow, NoOrder
  <2> QED
    BY <2>1, <2>2, <2>3 DEF RowsKept
<1>4. ASSUME NEW a \in AlarmIds, NEW k, Raise(a, k) PROVE RowsKept
  BY <1>4 DEF RowsKept, Raise, ReadsStayTrue, TypeOK
<1>5. ASSUME NEW r \in Requests, Client(r) PROVE RowsKept
  BY <1>1, <1>5 DEF Client, StartTransition, StartDispatch, StartComplete, Start, rowVars
<1>6. ASSUME NEW r \in Requests, Serve(r) PROVE RowsKept
  BY <1>1, <1>2, <1>3, <1>6
     DEF Serve, LockOrder, RefuseOrder, LockAlarm, RefuseAlarm, CommitTransition, Record,
         Publish, rowVars
<1>7. ASSUME Detect PROVE RowsKept
  BY <1>1, <1>4, <1>7
     DEF Detect, Judge, FilterOpen, RaiseDeviation, ReadQuiet, FilterSilent, RaiseSilence,
         EndSilences, ReadBack, Announce, rowVars
<1>8. ASSUME World \/ Fault \/ UNCHANGED vars PROVE RowsKept
  BY <1>1, <1>8
     DEF World, Report, FallQuiet, AgeOut, SetSuspension, Fault, RollBack, Abandon,
         FailDeviations, FailSilences, FailReadBack, Crash, vars, rowVars
<1> QED
  BY <1>5, <1>6, <1>7, <1>8 DEF Next

\* A request that goes on, or that ends, is still one its user was let in for.
LEMMA CallsStayWithTheSent ==
    ASSUME ReadsStayTrue, CallsByTheSent, RowsKept,
           \A r \in Requests : \/ call'[r].op = "none"
                               \/ /\ call'[r].op = call[r].op /\ call'[r].by = call[r].by
                                  /\ call'[r].sees = call[r].sees
                                  /\ call'[r].order = call[r].order
    PROVE  CallsByTheSent'
<1> SUFFICES ASSUME NEW r \in Requests, call'[r].op # "none",
                    Role[call'[r].by] = "technician"
             PROVE  /\ call'[r].op # "dispatch"
                    /\ \A n \in call'[r].sees : \A u : u = call'[r].by => Sent(u, n)'
                    /\ call'[r].op = "complete" =>
                          order'[call'[r].order].technician = call'[r].by
  BY DEF CallsByTheSent
<1>1. /\ call'[r].op = call[r].op /\ call'[r].by = call[r].by
      /\ call'[r].sees = call[r].sees /\ call'[r].order = call[r].order
  OBVIOUS
<1>2. /\ call[r].op # "dispatch"
      /\ \A n \in call[r].sees : Sent(call[r].by, n)
      /\ call[r].op = "complete" => order[call[r].order].technician = call[r].by
  BY <1>1 DEF CallsByTheSent
<1>3. call[r].op = "complete" =>
          call[r].order \in OrderIds /\ order[call[r].order].status # "absent"
  BY CallByOp DEF Completion, ReadsStayTrue, CallsMatchPhases
<1> QED
  BY <1>1, <1>2, <1>3, SentStaysSent DEF RowsKept

\* What the role check and visibility::resolve let in.
LEMMA StartsByTheSent ==
    ASSUME ReadsStayTrue, CallsByTheSent, NEW r \in Requests, Client(r)
    PROVE  CallsByTheSent'
<1>1. PICK u, c :
        /\ u \in Users
        /\ Start(r, c) /\ c.by = u /\ c.sees = Sees(u)
        /\ c.op = "dispatch" => MayDispatch(u)
        /\ c.op = "complete" => MayComplete(u, order[c.order].technician)
  <2>1. PICK u \in Users :
          \/ \E a \in AlarmIds, to \in LifecycleStates : StartTransition(r, u, a, to)
          \/ \E a \in AlarmIds, technician \in Users : StartDispatch(r, u, a, technician)
          \/ \E o \in OrderIds : StartComplete(r, u, o)
    BY DEF Client
  <2>2. ASSUME NEW a \in AlarmIds, NEW to \in LifecycleStates, StartTransition(r, u, a, to)
        PROVE  \E c : /\ Start(r, c) /\ c.by = u /\ c.sees = Sees(u)
                      /\ c.op = "dispatch" => MayDispatch(u)
                      /\ c.op = "complete" => MayComplete(u, order[c.order].technician)
    <3> DEFINE c == [op |-> "transition", by |-> u, alarm |-> a, order |-> None,
                     technician |-> None, to |-> to, sees |-> Sees(u)]
    <3>1. Start(r, c)
      BY <2>2 DEF StartTransition
    <3>2. c.by = u /\ c.sees = Sees(u) /\ c.op = "transition"
      OBVIOUS
    <3> HIDE DEF c
    <3> QED
      BY <3>1, <3>2
  <2>3. ASSUME NEW a \in AlarmIds, NEW technician \in Users, StartDispatch(r, u, a, technician)
        PROVE  \E c : /\ Start(r, c) /\ c.by = u /\ c.sees = Sees(u)
                      /\ c.op = "dispatch" => MayDispatch(u)
                      /\ c.op = "complete" => MayComplete(u, order[c.order].technician)
    <3> DEFINE c == [op |-> "dispatch", by |-> u, alarm |-> a, order |-> None,
                     technician |-> technician, to |-> "under_verification",
                     sees |-> Sees(u)]
    <3>1. Start(r, c) /\ MayDispatch(u)
      BY <2>3 DEF StartDispatch
    <3>2. c.by = u /\ c.sees = Sees(u) /\ c.op = "dispatch"
      OBVIOUS
    <3> HIDE DEF c
    <3> QED
      BY <3>1, <3>2
  <2>4. ASSUME NEW o \in OrderIds, StartComplete(r, u, o)
        PROVE  \E c : /\ Start(r, c) /\ c.by = u /\ c.sees = Sees(u)
                      /\ c.op = "dispatch" => MayDispatch(u)
                      /\ c.op = "complete" => MayComplete(u, order[c.order].technician)
    <3> DEFINE c == [op |-> "complete", by |-> u, alarm |-> None, order |-> o,
                     technician |-> None, to |-> "closed", sees |-> Sees(u)]
    <3>1. Start(r, c) /\ MayComplete(u, order[o].technician)
      BY <2>4 DEF StartComplete
    <3>2. c.by = u /\ c.sees = Sees(u) /\ c.op = "complete" /\ c.order = o
      OBVIOUS
    <3> HIDE DEF c
    <3> QED
      BY <3>1, <3>2
  <2> QED
    BY <2>1, <2>2, <2>3, <2>4
<1>2. UNCHANGED <<subject, order>>
  BY <1>1 DEF Start, rowVars
<1>3. \A v, n : Sent(v, n)' <=> Sent(v, n)
  BY <1>2 DEF Sent, NodeOf
<1>4. call'[r] = c /\ \A q \in Requests : q # r => call'[q] = call[q]
  BY <1>1 DEF Start, ReadsStayTrue, TypeOK
<1>5. ASSUME Role[u] = "technician"
      PROVE  /\ c.op # "dispatch"
             /\ \A n \in c.sees : Sent(u, n)
             /\ c.op = "complete" => order[c.order].technician = u
  <2>1. c.op # "dispatch" /\ (c.op = "complete" => order[c.order].technician = u)
    BY <1>1, <1>5 DEF MayDispatch, MayComplete
  <2>2. \A n \in Sees(u) : Sent(u, n)
    BY <1>5 DEF Sees, Sent
  <2> QED
    BY <1>1, <2>1, <2>2
<1> QED
  BY <1>1, <1>2, <1>3, <1>4, <1>5 DEF CallsByTheSent

LEMMA NextCalls ==
    ASSUME ReadsStayTrue, CallsByTheSent, [Next]_vars
    PROVE  CallsByTheSent'
<1>0. RowsKept
  BY NextKeepsRows
<1>1. ASSUME NEW r \in Requests, Idle(r) PROVE CallsByTheSent'
  BY <1>0, <1>1, CallsStayWithTheSent DEF Idle, ReadsStayTrue, TypeOK, NoCall
<1>2. ASSUME UNCHANGED call PROVE CallsByTheSent'
  BY <1>0, <1>2, CallsStayWithTheSent
<1>3. ASSUME NEW r \in Requests, LockOrder(r) PROVE CallsByTheSent'
  <2>1. call[r] \in Completion
    BY <1>3, CallByOp DEF LockOrder, ReadsStayTrue
  <2> QED
    BY <1>0, <1>3, <2>1, CallsStayWithTheSent
       DEF LockOrder, ReadsStayTrue, TypeOK, Completion
<1>4. ASSUME NEW r \in Requests, Serve(r) PROVE CallsByTheSent'
  BY <1>1, <1>2, <1>3, <1>4
     DEF Serve, RefuseOrder, LockAlarm, RefuseAlarm, CommitTransition, CommitDispatch,
         CommitComplete, Committed, Publish
<1>5. ASSUME Detect \/ World \/ UNCHANGED vars PROVE UNCHANGED call
  <2>1. CASE Detect
    BY <2>1 DEF Detect, Judge, FilterOpen, RaiseDeviation, Raise, ReadQuiet, FilterSilent,
                RaiseSilence, EndSilences, ReadBack, Announce, requestVars
  <2>2. CASE World \/ UNCHANGED vars
    BY <2>2 DEF World, Report, FallQuiet, AgeOut, SetSuspension, vars, requestVars
  <2> QED
    BY <1>5, <2>1, <2>2
<1>6. ASSUME Fault PROVE CallsByTheSent'
  <2>1. CASE Crash
    BY <1>0, <2>1, CallsStayWithTheSent DEF Crash, NoCall
  <2>2. CASE FailDeviations \/ FailSilences \/ FailReadBack
    BY <1>2, <2>2 DEF FailDeviations, FailSilences, FailReadBack, requestVars
  <2> QED
    BY <1>1, <1>6, <2>1, <2>2 DEF Fault, RollBack, Abandon
<1> QED
  BY <1>2, <1>4, <1>5, <1>6, StartsByTheSent DEF Next

\* The name a move adds to a history is one its request was let in for.
LEMMA MoversWereSent ==
    ASSUME ReadsStayTrue, CallsByTheSent, NEW r \in Requests, phase[r] = "locked",
           Role[call[r].by] = "technician"
    PROVE  Sent(call[r].by, NodeOf(subject[call[r].alarm]))
<1>1. call[r].op \in {"transition", "complete"}
  BY LockedAlarm DEF CallsByTheSent
<1>2. CASE call[r].op = "transition"
  BY <1>2 DEF ReadsStayTrue, AlarmsHeld, Permitted, CallsByTheSent
<1>3. CASE call[r].op = "complete"
  <2>1. /\ call[r].order \in OrderIds /\ order[call[r].order].status = "assigned"
        /\ order[call[r].order].alarm = call[r].alarm
        /\ order[call[r].order].technician = call[r].by
    BY <1>3, CallByOp DEF ReadsStayTrue, OrdersHeld, HoldsOrder, CallsByTheSent, Completion
  <2> QED
    BY <2>1 DEF Sent
<1> QED
  BY <1>1, <1>2, <1>3

\* The names on the histories, in the shape the steps preserve.
TrailsByTheSent ==
    \A a \in AlarmIds : \A i \in 1 .. Len(trail[a]) :
        trail[a][i].by # None /\ Role[trail[a][i].by] = "technician"
            => Sent(trail[a][i].by, NodeOf(subject[a]))

LEMMA NamesStaySent ==
    ASSUME ReadsStayTrue, AuditTrail, TrailsByTheSent, RowsKept,
           NEW a \in AlarmIds, NEW i \in 1 .. Len(trail[a]),
           trail[a][i].by # None, Role[trail[a][i].by] = "technician"
    PROVE  /\ subject'[a] = subject[a]
           /\ \A u, n : u = trail[a][i].by /\ n = NodeOf(subject[a]) => Sent(u, n)'
<1>1. subject'[a] = subject[a]
  BY DEF AuditTrail, RowsKept
<1>2. Sent(trail[a][i].by, NodeOf(subject[a]))
  BY DEF TrailsByTheSent
<1>3. ASSUME NEW u, NEW n, u = trail[a][i].by, n = NodeOf(subject[a])
      PROVE  Sent(u, n)'
  BY <1>2, <1>3, SentStaysSent
<1> QED
  BY <1>1, <1>3

\* A step that leaves an alarm's history alone leaves its names to the sent.
LEMMA SameNames ==
    ASSUME ReadsStayTrue, AuditTrail, TrailsByTheSent, RowsKept,
           NEW a \in AlarmIds, trail'[a] = trail[a],
           NEW i \in 1 .. Len(trail'[a]),
           trail'[a][i].by # None, Role[trail'[a][i].by] = "technician"
    PROVE  \A u, n : u = trail'[a][i].by /\ n = NodeOf(subject'[a]) => Sent(u, n)'
<1>1. i \in 1 .. Len(trail[a]) /\ trail[a][i].by # None /\ Role[trail[a][i].by] = "technician"
  OBVIOUS
<1>2. /\ subject'[a] = subject[a]
      /\ \A u, n : u = trail[a][i].by /\ n = NodeOf(subject[a]) => Sent(u, n)'
  BY <1>1, NamesStaySent
<1> QED
  BY <1>2

LEMMA NextNames ==
    ASSUME ReadsStayTrue, AuditTrail, CallsByTheSent, TrailsByTheSent, [Next]_vars
    PROVE  TrailsByTheSent'
<1>0. RowsKept
  BY NextKeepsRows
<1> SUFFICES ASSUME NEW a \in AlarmIds, NEW i \in 1 .. Len(trail'[a]),
                    trail'[a][i].by # None, Role[trail'[a][i].by] = "technician"
             PROVE  \A u, n : u = trail'[a][i].by /\ n = NodeOf(subject'[a]) => Sent(u, n)'
  BY DEF TrailsByTheSent, NodeOf
<1> DEFINE Goal == \A u, n : u = trail'[a][i].by /\ n = NodeOf(subject'[a]) => Sent(u, n)'
<1>1. CASE trail'[a] = trail[a]
  BY <1>0, <1>1, SameNames
<1>2. ASSUME NEW r \in Requests, phase[r] = "locked", Record(r), call[r].alarm = a
      PROVE  Goal
  <2> DEFINE e == [from |-> from[r], to |-> call[r].to, by |-> call[r].by]
             k == Len(trail[a])
  <2>1. trail[a] \in Seq(Event) /\ trail'[a] = Append(trail[a], e)
    BY <1>2 DEF Record, ReadsStayTrue, TypeOK
  <2>2. /\ k \in Nat /\ Len(trail'[a]) = k + 1 /\ trail'[a][k + 1] = e
        /\ \A j \in 1 .. k : trail'[a][j] = trail[a][j]
    BY <2>1
  <2>3. e.by = call[r].by
    OBVIOUS
  <2>4. subject'[a] = subject[a]
    BY <1>2 DEF Record
  <2> HIDE DEF e, k
  <2>5. CASE i = k + 1
    <3>1. Sent(call[r].by, NodeOf(subject[a]))
      BY <1>2, <2>2, <2>3, <2>5, MoversWereSent
    <3>2. ASSUME NEW u, NEW n, u = call[r].by, n = NodeOf(subject[a]) PROVE Sent(u, n)'
      BY <1>0, <3>1, <3>2, SentStaysSent
    <3> QED
      BY <2>2, <2>3, <2>4, <2>5, <3>2 DEF NodeOf
  <2>6. CASE i \in 1 .. k
    <3>1. trail'[a][i] = trail[a][i] /\ i \in 1 .. Len(trail[a])
      BY <2>2, <2>6 DEF k
    <3>2. \A u, n : u = trail[a][i].by /\ n = NodeOf(subject[a]) => Sent(u, n)'
      BY <1>0, <3>1, NamesStaySent
    <3> QED
      BY <3>1, <3>2, <2>4 DEF NodeOf
  <2> QED
    BY <2>2, <2>5, <2>6
<1>3. ASSUME NEW k, Raise(a, k) PROVE FALSE
  <2>1. trail'[a] = <<[from |-> None, to |-> "open", by |-> None]>>
    BY <1>3 DEF Raise, ReadsStayTrue, TypeOK
  <2>2. i = 1
    BY <2>1
  <2> QED
    BY <2>1, <2>2
<1>4. \/ trail'[a] = trail[a]
      \/ \E r \in Requests : phase[r] = "locked" /\ Record(r) /\ call[r].alarm = a
      \/ \E k : Raise(a, k)
  <2>0. trail \in [AlarmIds -> Seq(Event)]
    BY DEF ReadsStayTrue, TypeOK
  <2>1. ASSUME NEW r \in Requests, Client(r) PROVE trail' = trail
    BY <2>1 DEF Client, StartTransition, StartDispatch, StartComplete, Start, rowVars
  <2>2. ASSUME NEW r \in Requests, Serve(r)
        PROVE  trail' = trail \/ (phase[r] = "locked" /\ Record(r))
    BY <2>2 DEF Serve, LockOrder, RefuseOrder, LockAlarm, RefuseAlarm, CommitTransition,
                CommitDispatch, CommitComplete, Publish, rowVars
  <2>3. ASSUME NEW r \in Requests, Record(r), call[r].alarm # a PROVE trail'[a] = trail[a]
    BY <2>0, <2>3 DEF Record
  <2>4. ASSUME Detect PROVE trail' = trail \/ \E b \in AlarmIds : \E k : Raise(b, k)
    BY <2>4 DEF Detect, Judge, FilterOpen, RaiseDeviation, ReadQuiet, FilterSilent,
                RaiseSilence, EndSilences, ReadBack, Announce, rowVars
  <2>5. ASSUME NEW b \in AlarmIds, NEW k, Raise(b, k), b # a PROVE trail'[a] = trail[a]
    BY <2>0, <2>5 DEF Raise
  <2>6. ASSUME World \/ Fault \/ UNCHANGED vars PROVE trail' = trail
    BY <2>6 DEF World, Report, FallQuiet, AgeOut, SetSuspension, Fault, RollBack, Abandon,
                FailDeviations, FailSilences, FailReadBack, Crash, vars, rowVars
  <2> QED
    BY <2>1, <2>2, <2>3, <2>4, <2>5, <2>6 DEF Next
<1> QED
  BY <1>1, <1>2, <1>3, <1>4

\* A technician's name is on an alarm's history only when that technician was
\* sent to the alarm's node: the set read before the transaction may be old, but
\* nobody is ever unsent.
THEOREM TechniciansAreSent == Spec => []TechniciansStayOnTheirNodes
<1>1. Init => CallsByTheSent /\ TrailsByTheSent
  BY DEF Init, CallsByTheSent, TrailsByTheSent, NoCall
<1>2. ReadsStayTrue /\ AuditTrail /\ CallsByTheSent /\ TrailsByTheSent /\ [Next]_vars
         => CallsByTheSent' /\ TrailsByTheSent'
  BY NextCalls, NextNames
<1>3. TrailsByTheSent => TechniciansStayOnTheirNodes
  BY DEF TrailsByTheSent, TechniciansStayOnTheirNodes, Sent
<1> QED
  BY <1>1, <1>2, <1>3, ReadsAreSafe, TrailsAreWhole, PTL DEF Spec

=============================================================================
