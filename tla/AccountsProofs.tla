---------------------------- MODULE AccountsProofs ----------------------------
(***************************************************************************)
(* Theorems about Accounts, for any accounts, sessions, requests, sockets, *)
(* roles and changes, and with handlers that fail anywhere.                *)
(***************************************************************************)
EXTENDS Accounts, TLAPS

AccountsSpec == AccountsInit /\ [][AccountsNext]_accountsVars

-----------------------------------------------------------------------------
(* The invariant: what a cleared request may do to its own caller.          *)

\* A request that was let past the guard does not take its caller's own access,
\* whatever became of the account since.
NoneClearedAgainstItself ==
    \A r \in Requests :
        LET q == request[r] IN
        q.phase = "cleared" /\ q.target = q.user => ~LosesAdmin(q.change)

Invariant == TypeOK /\ NoneClearedAgainstItself

LEMMA InitInvariant == ASSUME AccountsInit PROVE Invariant
<1>1. TypeOK
  BY DEF AccountsInit, TypeOK, Request
<1>2. NoneClearedAgainstItself
  BY DEF AccountsInit, NoneClearedAgainstItself, Idle
<1> QED
  BY <1>1, <1>2 DEF Invariant

\* The shape of a request that is past a phase.
LEMMA RequestFacts ==
    ASSUME TypeOK, NEW r \in Requests
    PROVE  /\ request[r].phase = "verified" => request[r].user \in Users
           /\ request[r].phase = "upgrading" => request[r].target \in Tokens
           /\ request[r].phase \in {"known", "cleared"} =>
                 /\ request[r].user \in Users /\ request[r].target \in Users
                 /\ request[r].change \in Changes
                 /\ request[r] = [phase |-> request[r].phase, user |-> request[r].user,
                                  target |-> request[r].target, change |-> request[r].change]
<1>1. request[r] \in Request
  BY DEF TypeOK
<1>2. CASE request[r] = Idle
  BY <1>2 DEF Idle
<1>3. CASE request[r] \in [phase : {"verified"}, user : Users, target : {None}, change : {None}]
  BY <1>3
<1>4. CASE request[r] \in [phase : {"known", "cleared"}, user : Users, target : Users, change : Changes]
  BY <1>4
<1>5. CASE request[r] \in [phase : {"upgrading"}, user : Users, target : Tokens, change : {None}]
  BY <1>5
<1> QED
  BY <1>1, <1>2, <1>3, <1>4, <1>5 DEF Request

\* A step that moves one request on, to a state that keeps the promise.
LEMMA OneRequest ==
    ASSUME Invariant, NEW r \in Requests, NEW q \in Request,
           request' = [request EXCEPT ![r] = q],
           q.phase = "cleared" /\ q.target = q.user => ~LosesAdmin(q.change)
    PROVE  request' \in [Requests -> Request] /\ NoneClearedAgainstItself'
<1>1. request \in [Requests -> Request]
  BY DEF Invariant, TypeOK
<1>2. request' \in [Requests -> Request]
  BY <1>1
<1>3. ASSUME NEW s \in Requests, request'[s].phase = "cleared", request'[s].target = request'[s].user
      PROVE  ~LosesAdmin(request'[s].change)
  <2>1. CASE s = r
    BY <1>1, <1>3, <2>1
  <2>2. CASE s # r
    <3>1. request'[s] = request[s]
      BY <1>1, <2>2
    <3> QED
      BY <1>3, <3>1 DEF Invariant, NoneClearedAgainstItself
  <2> QED
    BY <2>1, <2>2
<1> QED
  BY <1>2, <1>3 DEF NoneClearedAgainstItself, LosesAdmin

LEMMA BecomesIdle ==
    ASSUME Invariant, NEW r \in Requests, request' = [request EXCEPT ![r] = Idle]
    PROVE  request' \in [Requests -> Request] /\ NoneClearedAgainstItself'
<1>1. Idle \in Request /\ Idle.phase # "cleared"
  BY DEF Request, Idle
<1> QED
  BY <1>1, OneRequest

-----------------------------------------------------------------------------
(* Every step keeps the invariant.                                          *)

LEMMA LoginSteps ==
    ASSUME Invariant, NEW r \in Requests,
           (\E u \in Users : LoginRead(r, u)) \/ (\E t \in Tokens : LoginInsert(r, t))
    PROVE  Invariant'
<1>1. ASSUME NEW u \in Users, LoginRead(r, u) PROVE Invariant'
  <2> DEFINE q == [phase |-> "verified", user |-> u, target |-> None, change |-> None]
  <2>1. [Idle EXCEPT !.phase = "verified", !.user = u] = q
    <3> DEFINE p == [Idle EXCEPT !.phase = "verified", !.user = u]
    <3>1. p = [x \in {"phase", "user", "target", "change"} |-> p[x]]
      BY DEF Idle
    <3>2. q = [x \in {"phase", "user", "target", "change"} |-> q[x]]
      OBVIOUS
    <3>3. p.phase = "verified" /\ p.user = u /\ p.target = None /\ p.change = None
      BY DEF Idle
    <3>4. q.phase = "verified" /\ q.user = u /\ q.target = None /\ q.change = None
      OBVIOUS
    <3> HIDE DEF p, q
    <3>5. p = q
      BY <3>1, <3>2, <3>3, <3>4
    <3> QED
      BY <3>5 DEF p
  <2>2. request' = [request EXCEPT ![r] = q] /\ UNCHANGED <<accountVars, sessionVars, socket>>
    BY <1>1, <2>1 DEF LoginRead
  <2>3. q \in Request /\ q.phase # "cleared"
    BY DEF Request
  <2> HIDE DEF q
  <2>4. request' \in [Requests -> Request] /\ NoneClearedAgainstItself'
    BY <2>2, <2>3, OneRequest
  <2> QED
    BY <2>2, <2>4 DEF Invariant, TypeOK, accountVars, sessionVars
<1>2. ASSUME NEW t \in Tokens, LoginInsert(r, t) PROVE Invariant'
  <2>1. /\ owner' = [owner EXCEPT ![t] = request[r].user] /\ request' = [request EXCEPT ![r] = Idle]
        /\ UNCHANGED <<accountVars, over, socket>> /\ request[r].phase = "verified"
    BY <1>2 DEF LoginInsert
  <2>2. request[r].user \in Users
    BY <2>1, RequestFacts DEF Invariant
  <2>3. request' \in [Requests -> Request] /\ NoneClearedAgainstItself'
    BY <2>1, BecomesIdle
  <2> QED
    BY <2>1, <2>2, <2>3 DEF Invariant, TypeOK, accountVars
<1> QED
  BY <1>1, <1>2

\* The guard of update_user is where the promise is made.
LEMMA ClearStep == ASSUME Invariant, NEW r \in Requests, Clear(r) PROVE Invariant'
<1> DEFINE q == request[r]
           refused == role[q.user] # "administrator"
                      \/ (q.target = q.user /\ Exists(q.target) /\ LosesAdmin(q.change))
           p == [q EXCEPT !.phase = "cleared"]
<1>1. /\ q.phase = "known" /\ request' = [request EXCEPT ![r] = IF refused THEN Idle ELSE p]
      /\ UNCHANGED <<accountVars, sessionVars, socket>>
  BY DEF Clear
<1>2. CASE refused
  <2>1. request' = [request EXCEPT ![r] = Idle]
    BY <1>1, <1>2
  <2> HIDE DEF refused
  <2>2. request' \in [Requests -> Request] /\ NoneClearedAgainstItself'
    BY <2>1, BecomesIdle
  <2> QED
    BY <1>1, <2>2 DEF Invariant, TypeOK, accountVars, sessionVars
<1>3. CASE ~refused
  <2>1. request' = [request EXCEPT ![r] = p]
    BY <1>1, <1>3
  <2>2. /\ q.user \in Users /\ q.target \in Users /\ q.change \in Changes
        /\ q = [phase |-> q.phase, user |-> q.user, target |-> q.target, change |-> q.change]
    BY <1>1, RequestFacts DEF Invariant
  <2>3. p = [phase |-> "cleared", user |-> q.user, target |-> q.target, change |-> q.change]
    BY <2>2
  <2>4. p \in Request
    BY <2>2, <2>3 DEF Request
  <2>5. p.target = p.user => ~LosesAdmin(p.change)
    <3>1. p.target = q.target /\ p.user = q.user /\ p.change = q.change
      BY <2>3
    <3>2. role[q.user] = "administrator"
      BY <1>3
    <3>3. q.target = q.user => Exists(q.target)
      BY <3>2 DEF Exists
    <3>4. q.target = q.user => ~LosesAdmin(q.change)
      BY <1>3, <3>3
    <3> QED
      BY <3>1, <3>4
  <2> HIDE DEF p
  <2>6. request' \in [Requests -> Request] /\ NoneClearedAgainstItself'
    BY <2>1, <2>4, <2>5, OneRequest
  <2> QED
    BY <1>1, <2>6 DEF Invariant, TypeOK, accountVars, sessionVars
<1> QED
  BY <1>2, <1>3

LEMMA AdministerSteps == ASSUME Invariant, NEW r \in Requests, Administer(r) PROVE Invariant'
<1>1. ASSUME NEW t \in Tokens, NEW target \in Users, NEW change \in Changes,
             Authenticate(r, t, target, change)
      PROVE  Invariant'
  <2> DEFINE q == [phase |-> "known", user |-> owner[t], target |-> target, change |-> change]
  <2>1. request' = [request EXCEPT ![r] = q] /\ UNCHANGED <<accountVars, sessionVars, socket>>
    BY <1>1 DEF Authenticate
  <2>2. owner[t] \in Users
    BY <1>1 DEF Authenticate, LiveToken, Invariant, TypeOK
  <2>3. q \in Request /\ q.phase # "cleared"
    BY <2>2 DEF Request
  <2> HIDE DEF q
  <2>4. request' \in [Requests -> Request] /\ NoneClearedAgainstItself'
    BY <2>1, <2>3, OneRequest
  <2> QED
    BY <2>1, <2>4 DEF Invariant, TypeOK, accountVars, sessionVars
<1>2. ASSUME CreateUser(r) \/ UpdateUser(r) PROVE Invariant'
  <2>1. /\ request' = [request EXCEPT ![r] = Idle] /\ request[r].phase = "cleared"
        /\ UNCHANGED <<sessionVars, socket>>
    BY <1>2 DEF CreateUser, UpdateUser
  <2>2. request' \in [Requests -> Request] /\ NoneClearedAgainstItself'
    BY <2>1, BecomesIdle
  <2>3. request[r].target \in Users /\ request[r].change \in Changes
    BY <2>1, RequestFacts DEF Invariant
  <2>4. request[r].change.role # None => request[r].change.role \in Roles
    BY <2>3, ChangesAssumption
  <2>5. role' \in [Users -> Roles \cup {"absent"}]
    BY <1>2, <2>3, <2>4 DEF CreateUser, UpdateUser, Invariant, TypeOK
  <2>6. deactivated' \subseteq Users
    BY <1>2, <2>3 DEF CreateUser, UpdateUser, Invariant, TypeOK
  <2> QED
    BY <2>1, <2>2, <2>5, <2>6 DEF Invariant, TypeOK, sessionVars
<1>3. ASSUME GiveUp(r) PROVE Invariant'
  <2>1. request' = [request EXCEPT ![r] = Idle] /\ UNCHANGED <<accountVars, sessionVars, socket>>
    BY <1>3 DEF GiveUp
  <2>2. request' \in [Requests -> Request] /\ NoneClearedAgainstItself'
    BY <2>1, BecomesIdle
  <2> QED
    BY <2>1, <2>2 DEF Invariant, TypeOK, accountVars, sessionVars
<1> QED
  BY <1>1, <1>2, <1>3, ClearStep DEF Administer

LEMMA WatchSteps == ASSUME Invariant, Watch PROVE Invariant'
<1>1. ASSUME NEW r \in Requests, NEW t \in Tokens, Upgrade(r, t) PROVE Invariant'
  <2> DEFINE q == [phase |-> "upgrading", user |-> owner[t], target |-> t, change |-> None]
  <2>1. request' = [request EXCEPT ![r] = q] /\ UNCHANGED <<accountVars, sessionVars, socket>>
    BY <1>1 DEF Upgrade
  <2>2. owner[t] \in Users
    BY <1>1 DEF Upgrade, LiveToken, Invariant, TypeOK
  <2>3. q \in Request /\ q.phase # "cleared"
    BY <2>2 DEF Request
  <2> HIDE DEF q
  <2>4. request' \in [Requests -> Request] /\ NoneClearedAgainstItself'
    BY <2>1, <2>3, OneRequest
  <2> QED
    BY <2>1, <2>4 DEF Invariant, TypeOK, accountVars, sessionVars
<1>2. ASSUME NEW r \in Requests, NEW k \in Sockets, Connect(r, k) PROVE Invariant'
  <2>1. /\ socket' = [socket EXCEPT ![k] = request[r].target]
        /\ request' = [request EXCEPT ![r] = Idle] /\ UNCHANGED <<accountVars, sessionVars>>
        /\ request[r].phase = "upgrading"
    BY <1>2 DEF Connect
  <2>2. request' \in [Requests -> Request] /\ NoneClearedAgainstItself'
    BY <2>1, BecomesIdle
  <2>3. request[r].target \in Tokens
    BY <2>1, RequestFacts DEF Invariant
  <2> QED
    BY <2>1, <2>2, <2>3 DEF Invariant, TypeOK, accountVars, sessionVars
<1>3. ASSUME NEW k \in Sockets, Revalidate(k) \/ HangUp(k) PROVE Invariant'
  <2>1. socket' = [socket EXCEPT ![k] = None] /\ UNCHANGED <<accountVars, sessionVars, request>>
    BY <1>3 DEF Revalidate, HangUp
  <2> QED
    BY <2>1 DEF Invariant, TypeOK, NoneClearedAgainstItself, accountVars, sessionVars
<1> QED
  BY <1>1, <1>2, <1>3 DEF Watch

LEMMA NextInvariant == ASSUME Invariant, [AccountsNext]_accountsVars PROVE Invariant'
<1>1. ASSUME NEW u \in Users, Bootstrap(u) PROVE Invariant'
  BY <1>1, RolesAssumption
     DEF Bootstrap, Invariant, TypeOK, NoneClearedAgainstItself, sessionVars
<1>2. ASSUME NEW t \in Tokens, EndSession(t) PROVE Invariant'
  BY <1>2 DEF EndSession, Invariant, TypeOK, NoneClearedAgainstItself, accountVars
<1>3. ASSUME UNCHANGED accountsVars PROVE Invariant'
  BY <1>3 DEF Invariant, TypeOK, NoneClearedAgainstItself, accountsVars, accountVars, sessionVars
<1> QED
  BY <1>1, <1>2, <1>3, LoginSteps, AdministerSteps, WatchSteps DEF AccountsNext, Login

LEMMA InvariantHolds == AccountsSpec => []Invariant
<1>1. AccountsInit => Invariant
  BY InitInvariant
<1>2. Invariant /\ [AccountsNext]_accountsVars => Invariant'
  BY NextInvariant
<1> QED
  BY <1>1, <1>2, PTL DEF AccountsSpec

-----------------------------------------------------------------------------
(* Theorems.                                                                *)

\* A caller who still administers when their change is carried out does so after it:
\* it is somebody else's access that it takes, or nobody's.
LEMMA CallerKeepsAccess ==
    ASSUME Invariant, NEW r \in Requests, UpdateUser(r), request[r].user \in Administrators
    PROVE  request[r].user \in Administrators'
<1> DEFINE q == request[r]
<1>1. /\ q.phase = "cleared" /\ q.user \in Users /\ q.target \in Users
      /\ role[q.user] = "administrator" /\ q.user \notin deactivated
  BY RequestFacts DEF UpdateUser, Invariant, Administrators
<1>2. /\ role' = (IF q.change.role = None THEN role ELSE [role EXCEPT ![q.target] = q.change.role])
      /\ deactivated' = CASE q.change.deactivated = None -> deactivated
                          [] q.change.deactivated = TRUE -> deactivated \cup {q.target}
                          [] OTHER -> deactivated \ {q.target}
  BY DEF UpdateUser
<1>3. role \in [Users -> Roles \cup {"absent"}]
  BY DEF Invariant, TypeOK
<1>4. CASE q.target # q.user
  <2>1. role'[q.user] = "administrator"
    BY <1>1, <1>2, <1>3, <1>4
  <2>2. q.user \notin deactivated'
    BY <1>1, <1>2, <1>4
  <2> QED
    BY <1>1, <2>1, <2>2 DEF Administrators
<1>5. CASE q.target = q.user
  <2>1. ~ (q.change.deactivated = TRUE) /\ q.change.role \in {None, "administrator"}
    BY <1>1, <1>5 DEF Invariant, NoneClearedAgainstItself, LosesAdmin
  <2>2. role'[q.user] = "administrator"
    BY <1>1, <1>2, <1>3, <1>5, <2>1
  <2>3. q.user \notin deactivated'
    BY <1>1, <1>2, <2>1
  <2> QED
    BY <1>1, <2>2, <2>3 DEF Administrators
<1> QED
  BY <1>4, <1>5

\* Every variable holds what its code counterpart can hold.
THEOREM TypesHold == AccountsSpec => []TypeOK
<1>1. Invariant => TypeOK
  BY DEF Invariant
<1> QED
  BY <1>1, InvariantHolds, PTL

\* update_user leaves no administrator only when its caller has lost that access
\* since require_admin let them through: the guard, which looks at the caller alone,
\* fails for no other reason.
THEOREM OnlyARaceRemovesTheLast == AccountsSpec => LastAdministratorFallsToARace
<1> DEFINE Falls == \A r \in Requests :
               UpdateUser(r) /\ Administrators # {} /\ Administrators' = {} =>
                   request[r].user \notin Administrators
<1>1. Invariant /\ [AccountsNext]_accountsVars => [Falls]_accountsVars
  <2> SUFFICES ASSUME Invariant, NEW r \in Requests, UpdateUser(r), Administrators' = {}
               PROVE  request[r].user \notin Administrators
    OBVIOUS
  <2> QED
    BY CallerKeepsAccess
<1> HIDE DEF Falls
<1>2. AccountsSpec => [][Falls]_accountsVars
  BY <1>1, InvariantHolds, PTL DEF AccountsSpec
<1> QED
  BY <1>2 DEF LastAdministratorFallsToARace, Falls

=============================================================================
