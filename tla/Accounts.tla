------------------------------ MODULE Accounts ------------------------------
(***************************************************************************)
(* Accounts, sessions and open sockets.  A request is let in by a first    *)
(* statement, cleared by a second and carried out by a third, and a login  *)
(* reads the account, spends its time on the hash and then inserts the     *)
(* session; accounts and sessions change in between.  A socket is let in   *)
(* once and looks after its session again every minute.                    *)
(***************************************************************************)
EXTENDS Naturals, FiniteSets

CONSTANTS
    Users, Tokens, Requests, Sockets,
    Roles,      \* the roles an account may be given, "administrator" among them
    Changes,    \* what update_user may be asked: [role, deactivated], None for no change
    Faults,     \* of "db"
    None

ASSUME RolesAssumption == "administrator" \in Roles /\ "absent" \notin Roles

ASSUME ChangesAssumption ==
    Changes \subseteq [role : Roles \cup {None}, deactivated : BOOLEAN \cup {None}]

VARIABLES
    role,         \* users.role_id, "absent" without an account
    deactivated,  \* the accounts with users.deactivated
    owner,        \* sessions.user_id of each token, None while it is not drawn
    over,         \* tokens whose session is expired or deleted
    request,      \* how far each request has come
    socket        \* the token each open socket was let in with

accountVars == <<role, deactivated>>
sessionVars == <<owner, over>>
accountsVars == <<accountVars, sessionVars, request, socket>>

Idle == [phase |-> "idle", user |-> None, target |-> None, change |-> None]

Request ==
    {Idle}
    \cup [phase : {"verified"}, user : Users, target : {None}, change : {None}]
    \cup [phase : {"known", "cleared"}, user : Users, target : Users, change : Changes]
    \cup [phase : {"upgrading"}, user : Users, target : Tokens, change : {None}]

AccountsInit ==
    /\ role = [u \in Users |-> "absent"] /\ deactivated = {}
    /\ owner = [t \in Tokens |-> None] /\ over = {}
    /\ request = [r \in Requests |-> Idle]
    /\ socket = [k \in Sockets |-> None]

Exists(u) == role[u] # "absent"

\* The accounts that may administer.
Administrators == {u \in Users : role[u] = "administrator" /\ u \notin deactivated}

\* AuthUser and session_is_live: a session, not expired, of an active account.
LiveToken(t) == owner[t] # None /\ t \notin over /\ owner[t] \notin deactivated

-----------------------------------------------------------------------------
(* Sessions: api/auth.rs.                                                   *)

\* bootstrap_admin: the first account, when there is none at all.
Bootstrap(u) ==
    /\ \A v \in Users : ~Exists(v)
    /\ role' = [role EXCEPT ![u] = "administrator"]
    /\ UNCHANGED <<deactivated, sessionVars, request, socket>>

\* The account is read and the password verified outside any statement.
LoginRead(r, u) ==
    /\ request[r] = Idle
    /\ Exists(u) /\ u \notin deactivated
    /\ request' = [request EXCEPT ![r] = [Idle EXCEPT !.phase = "verified", !.user = u]]
    /\ UNCHANGED <<accountVars, sessionVars, socket>>

LoginInsert(r, t) ==
    /\ request[r].phase = "verified" /\ owner[t] = None
    /\ owner' = [owner EXCEPT ![t] = request[r].user]
    /\ request' = [request EXCEPT ![r] = Idle]
    /\ UNCHANGED <<accountVars, over, socket>>

\* logout deletes the session of the cookie; twelve hours end it as well.
EndSession(t) ==
    /\ owner[t] # None /\ t \notin over
    /\ over' = over \cup {t}
    /\ UNCHANGED <<accountVars, owner, request, socket>>

-----------------------------------------------------------------------------
(* Administration: api/admin.rs create_user, update_user.                   *)

\* What the caller's own access would lose.
LosesAdmin(change) ==
    change.deactivated = TRUE \/ change.role \notin {None, "administrator"}

\* AuthUser, for a request to change the account target.
Authenticate(r, t, target, change) ==
    /\ request[r] = Idle /\ LiveToken(t)
    /\ request' = [request EXCEPT ![r] =
           [phase |-> "known", user |-> owner[t], target |-> target, change |-> change]]
    /\ UNCHANGED <<accountVars, sessionVars, socket>>

\* What if anybody could take an administrator's access, themselves included?
ClearSelf(r) ==
    /\ request[r].phase = "known"
    /\ request' = [request EXCEPT ![r] =
           IF role[request[r].user] # "administrator" THEN Idle ELSE [@ EXCEPT !.phase = "cleared"]]
    /\ UNCHANGED <<accountVars, sessionVars, socket>>

\* require_admin reads the role in a statement of its own; the one guard that
\* keeps an administrator is about the caller.
Clear(r) ==
    LET q == request[r] IN
    /\ q.phase = "known"
    /\ request' = [request EXCEPT ![r] =
           IF \/ role[q.user] # "administrator"
              \/ q.target = q.user /\ Exists(q.target) /\ LosesAdmin(q.change)
           THEN Idle ELSE [q EXCEPT !.phase = "cleared"]]
    /\ UNCHANGED <<accountVars, sessionVars, socket>>

\* create_user: a new account is active, with the role that was asked for.
CreateUser(r) ==
    LET q == request[r] IN
    /\ q.phase = "cleared" /\ ~Exists(q.target)
    /\ role' = IF q.change.role = None THEN role ELSE [role EXCEPT ![q.target] = q.change.role]
    /\ request' = [request EXCEPT ![r] = Idle]
    /\ UNCHANGED <<deactivated, sessionVars, socket>>

\* update_user: role and activation in one transaction, sessions untouched.
UpdateUser(r) ==
    LET q == request[r] IN
    /\ q.phase = "cleared" /\ Exists(q.target)
    /\ role' = IF q.change.role = None THEN role ELSE [role EXCEPT ![q.target] = q.change.role]
    /\ deactivated' = CASE q.change.deactivated = None -> deactivated
                        [] q.change.deactivated = TRUE -> deactivated \cup {q.target}
                        [] OTHER -> deactivated \ {q.target}
    /\ request' = [request EXCEPT ![r] = Idle]
    /\ UNCHANGED <<sessionVars, socket>>

-----------------------------------------------------------------------------
(* Sockets: api/ws.rs upgrade, run.                                         *)

Upgrade(r, t) ==
    /\ request[r] = Idle /\ LiveToken(t)
    /\ request' = [request EXCEPT ![r] =
           [phase |-> "upgrading", user |-> owner[t], target |-> t, change |-> None]]
    /\ UNCHANGED <<accountVars, sessionVars, socket>>

Connect(r, k) ==
    /\ request[r].phase = "upgrading" /\ socket[k] = None
    /\ socket' = [socket EXCEPT ![k] = request[r].target]
    /\ request' = [request EXCEPT ![r] = Idle]
    /\ UNCHANGED <<accountVars, sessionVars>>

\* What if the account behind the session was not looked at again?
RevalidateSession(k) ==
    /\ socket[k] # None /\ socket[k] \in over
    /\ socket' = [socket EXCEPT ![k] = None]
    /\ UNCHANGED <<accountVars, sessionVars, request>>

\* session_is_live is false.  While the database cannot be asked it is taken to be
\* true, and the socket stays.
Revalidate(k) ==
    /\ socket[k] # None /\ ~LiveToken(socket[k])
    /\ socket' = [socket EXCEPT ![k] = None]
    /\ UNCHANGED <<accountVars, sessionVars, request>>

\* A handler fails, or the other end hangs up.
GiveUp(r) ==
    /\ "db" \in Faults /\ request[r] # Idle
    /\ request' = [request EXCEPT ![r] = Idle]
    /\ UNCHANGED <<accountVars, sessionVars, socket>>

HangUp(k) ==
    /\ socket[k] # None
    /\ socket' = [socket EXCEPT ![k] = None]
    /\ UNCHANGED <<accountVars, sessionVars, request>>

-----------------------------------------------------------------------------

Login == \E r \in Requests : (\E u \in Users : LoginRead(r, u)) \/ (\E t \in Tokens : LoginInsert(r, t))

Administer(r) ==
    \/ \E t \in Tokens, target \in Users, change \in Changes : Authenticate(r, t, target, change)
    \/ Clear(r) \/ CreateUser(r) \/ UpdateUser(r) \/ GiveUp(r)

Watch ==
    \/ \E r \in Requests : (\E t \in Tokens : Upgrade(r, t)) \/ (\E k \in Sockets : Connect(r, k))
    \/ \E k \in Sockets : Revalidate(k) \/ HangUp(k)

AccountsNext ==
    \/ \E u \in Users : Bootstrap(u)
    \/ Login \/ (\E t \in Tokens : EndSession(t))
    \/ (\E r \in Requests : Administer(r))
    \/ Watch

\* The revalidation timer of an open socket keeps firing, and the database
\* answers it again and again.
AccountsFairness == \A k \in Sockets : SF_accountsVars(Revalidate(k))

-----------------------------------------------------------------------------
(* Properties.                                                              *)

\* Every variable holds what its code counterpart can hold.
TypeOK ==
    /\ role \in [Users -> Roles \cup {"absent"}] /\ deactivated \subseteq Users
    /\ owner \in [Tokens -> Users \cup {None}] /\ over \subseteq Tokens
    /\ request \in [Requests -> Request]
    /\ socket \in [Sockets -> Tokens \cup {None}]

\* update_user promises to refuse what would leave no administrator, and looks
\* only at who is asking.  That keeps one, unless the caller has lost that access
\* to somebody else since it was checked: two administrators who remove each
\* other at once are the only way to be left without.
LastAdministratorFallsToARace ==
    [][\A r \in Requests :
           UpdateUser(r) /\ Administrators # {} /\ Administrators' = {} =>
               request[r].user \notin Administrators]_accountsVars

\* A socket whose session is over, or whose account is deactivated, is closed,
\* although it was let in by an earlier look and although the login raced with
\* the deactivation.
DismissedSocketsClose ==
    \A t \in Tokens : <>[]~LiveToken(t) => \A k \in Sockets : <>[](socket[k] # t)

=============================================================================
