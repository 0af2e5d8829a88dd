----------------------------- MODULE Enrollment -----------------------------
(***************************************************************************)
(* How a box in the field becomes a node of the fleet: an administrator    *)
(* plans a node and hands out its credential, the agent registers with a   *)
(* random identity and keeps what it got in a file, and the server binds   *)
(* the node to the first identity that asks.                               *)
(*                                                                         *)
(* The row lock on the node makes the registering transaction one step;    *)
(* the credential is looked up in a step of its own before it. Two         *)
(* administrators may rotate the same credential at once.                  *)
(***************************************************************************)
EXTENDS Naturals, FiniteSets

CONSTANTS
    Nodes,       \* node rows an administrator may plan
    Boxes,       \* machines that run the agent
    Tokens,      \* credentials the server may mint; bound on plans and rotations
    Identities,  \* random identities
    Rotations,   \* rotate_credential requests that may run at once
    Admin,       \* of "suspend", "wipe": what else administrators do
    Faults,      \* of "network", "crash", "disk", "repeat"
    None

VARIABLES
    owner,      \* node_credentials: the node each minted token belongs to
    revoked,    \* tokens with a revoked_at
    bound,      \* nodes.external_identity
    suspended,  \* nodes an administrator has suspended
    rotation,   \* the node of each rotation under way, and the rows it read
    config,     \* the enrollment token each box is configured with
    file,       \* each box's identity file
    phase,      \* how far each box has come
    trying      \* the registration each box has under way

serverVars == <<owner, revoked, bound, suspended, rotation>>
boxVars == <<config, file, phase, trying>>
vars == <<serverVars, boxVars>>

Registration == [identity : Identities, token : Tokens, node : Nodes \cup {None}]

Identity == [identity : Identities, node : Nodes, credential : Tokens]

ASSUME NoneAssumption ==
    /\ None \notin Nodes /\ None \notin Tokens /\ None \notin Identities
    /\ None \notin Registration /\ None \notin Identity

Phases == {"off", "sent", "authenticated", "accepted", "refused", "waiting", "running"}

Init ==
    /\ owner = [t \in Tokens |-> None]
    /\ revoked = {}
    /\ bound = [n \in Nodes |-> None]
    /\ suspended = {}
    /\ rotation = [r \in Rotations |-> None]
    /\ config = [b \in Boxes |-> None]
    /\ file = [b \in Boxes |-> None]
    /\ phase = [b \in Boxes |-> "off"]
    /\ trying = [b \in Boxes |-> None]

Live(t) == owner[t] # None /\ t \notin revoked

Planned(n) == \E t \in Tokens : owner[t] = n

-----------------------------------------------------------------------------
(* Administrators: api/admin.rs.                                            *)

PlanNode(n, t) ==
    /\ owner[t] = None /\ ~Planned(n)
    /\ owner' = [owner EXCEPT ![t] = n]
    /\ UNCHANGED <<revoked, bound, suspended, rotation, boxVars>>

\* The statement that revokes looks for live rows in the snapshot it starts with.
ReadLive(r, n) ==
    /\ rotation[r] = None /\ Planned(n)
    /\ rotation' = [rotation EXCEPT ![r] = [node |-> n, rows |-> {t \in Tokens : Live(t) /\ owner[t] = n}]]
    /\ UNCHANGED <<owner, revoked, bound, suspended, boxVars>>

\* It waits for the lock on a row and passes over one that was revoked
\* meanwhile. The identity the node is bound to stays.
Mint(r, t) ==
    LET n == rotation[r].node IN
    /\ owner' = [owner EXCEPT ![t] = n]
    /\ revoked' = revoked \cup rotation[r].rows

\* What if two rotations could both insert?
RotateUnindexed(r, t) ==
    /\ rotation[r] # None /\ owner[t] = None
    /\ Mint(r, t)
    /\ rotation' = [rotation EXCEPT ![r] = None]
    /\ UNCHANGED <<bound, suspended, boxVars>>

\* The index on live credentials refuses a second one, and the rotation fails.
Rotate(r, t) ==
    /\ rotation[r] # None /\ owner[t] = None
    /\ IF \E u \in Tokens \ rotation[r].rows : Live(u) /\ owner[u] = rotation[r].node
       THEN UNCHANGED <<owner, revoked>>
       ELSE Mint(r, t)
    /\ rotation' = [rotation EXCEPT ![r] = None]
    /\ UNCHANGED <<bound, suspended, boxVars>>

SetSuspension(n) ==
    /\ "suspend" \in Admin
    /\ Planned(n)
    /\ suspended' = IF n \in suspended THEN suspended \ {n} ELSE suspended \cup {n}
    /\ UNCHANGED <<owner, revoked, bound, rotation, boxVars>>

\* Somebody sets a stopped box up with a credential from the admin page.
Configure(b, t) ==
    /\ phase[b] = "off"
    /\ owner[t] # None /\ config[b] # t
    /\ config' = [config EXCEPT ![b] = t]
    /\ UNCHANGED <<serverVars, file, phase, trying>>

\* A stopped box loses its disk, or a new one takes its place.
Wipe(b) ==
    /\ "wipe" \in Admin
    /\ phase[b] = "off" /\ file[b] # None
    /\ file' = [file EXCEPT ![b] = None]
    /\ UNCHANGED <<serverVars, config, phase, trying>>

-----------------------------------------------------------------------------
(* The agent: client.rs register_or_load, main.rs register.                 *)

Become(b, p) == phase' = [phase EXCEPT ![b] = p]

\* A stored identity is used as it is, whatever the configuration says.
Resume(b) ==
    /\ phase[b] = "off" /\ file[b] # None
    /\ Become(b, "running")
    /\ UNCHANGED <<serverVars, config, file, trying>>

\* Sixteen random bytes never come twice: an identity nobody remembers stands
\* for one that was never drawn.
Fresh(i) ==
    /\ \A n \in Nodes : bound[n] # i
    /\ \A b \in Boxes : file[b] # None => file[b].identity # i
    /\ \A b \in Boxes : trying[b] # None => trying[b].identity # i

\* Every attempt draws an identity of its own.
Register(b, i) ==
    /\ phase[b] \in {"off", "waiting"} /\ file[b] = None
    /\ config[b] # None
    /\ Fresh(i)
    /\ Become(b, "sent")
    /\ trying' = [trying EXCEPT ![b] = [identity |-> i, token |-> config[b], node |-> None]]
    /\ UNCHANGED <<serverVars, config, file>>

\* Without an enrollment token the agent says so every thirty seconds.
MissToken(b) ==
    /\ phase[b] = "off" /\ file[b] = None /\ config[b] = None
    /\ Become(b, "waiting")
    /\ UNCHANGED <<serverVars, config, file, trying>>

GiveUp(b, p) ==
    /\ Become(b, p)
    /\ trying' = [trying EXCEPT ![b] = None]

\* An answer other than ALREADY_EXISTS means another attempt.
Retry(b) ==
    /\ phase[b] = "refused"
    /\ GiveUp(b, "waiting")
    /\ UNCHANGED <<serverVars, config, file>>

\* What if the identity was kept before the server had answered?
StoreFirst(b) ==
    /\ phase[b] \in {"sent", "accepted"}
    /\ file' = [file EXCEPT ![b] = [identity |-> trying[b].identity,
                                    node |-> trying[b].node,
                                    credential |-> trying[b].token]]
    /\ GiveUp(b, "running")
    /\ UNCHANGED <<serverVars, config>>

\* identity::store writes the file and renames it into place.
Store(b) ==
    /\ phase[b] = "accepted"
    /\ file' = [file EXCEPT ![b] = [identity |-> trying[b].identity,
                                    node |-> trying[b].node,
                                    credential |-> trying[b].token]]
    /\ GiveUp(b, "running")
    /\ UNCHANGED <<serverVars, config>>

Stop(b) ==
    /\ phase[b] \in {"running", "waiting"}
    /\ Become(b, "off")
    /\ UNCHANGED <<serverVars, config, file, trying>>

-----------------------------------------------------------------------------
(* The server: grpc/mod.rs authenticate, register_node_inner.               *)

Authenticate(b) ==
    /\ phase[b] = "sent"
    /\ LET t == trying[b].token IN
       IF Live(t) /\ owner[t] \notin suspended
       THEN /\ Become(b, "authenticated")
            /\ trying' = [trying EXCEPT ![b].node = owner[t]]
       ELSE Become(b, "refused") /\ UNCHANGED trying
    /\ UNCHANGED <<serverVars, config, file>>

\* What if a registration took the node over from whoever had it?
BindAnyway(b) ==
    /\ phase[b] = "authenticated"
    /\ bound' = [bound EXCEPT ![trying[b].node] = trying[b].identity]
    /\ Become(b, "accepted")
    /\ UNCHANGED <<owner, revoked, suspended, rotation, config, file, trying>>

\* A node bound to another identity is PERMISSION_DENIED; the same identity
\* may register again.
Bind(b) ==
    /\ phase[b] = "authenticated"
    /\ LET n == trying[b].node i == trying[b].identity IN
       IF bound[n] \in {None, i}
       THEN bound' = [bound EXCEPT ![n] = i] /\ Become(b, "accepted")
       ELSE Become(b, "refused") /\ UNCHANGED bound
    /\ UNCHANGED <<owner, revoked, suspended, rotation, config, file, trying>>

-----------------------------------------------------------------------------
(* What goes wrong.                                                         *)

LoseAnswer(b) ==
    /\ "network" \in Faults
    /\ phase[b] \in {"sent", "authenticated", "accepted", "refused"}
    /\ GiveUp(b, "waiting")
    /\ UNCHANGED <<serverVars, config, file>>

\* The identity file cannot be written: one more failed registration.
FailStore(b) ==
    /\ "disk" \in Faults
    /\ phase[b] = "accepted"
    /\ GiveUp(b, "waiting")
    /\ UNCHANGED <<serverVars, config, file>>

Crash(b) ==
    /\ "crash" \in Faults
    /\ phase[b] # "off"
    /\ GiveUp(b, "off")
    /\ UNCHANGED <<serverVars, config, file>>

\* A registration is sent once more with the identity it had.
Repeat(b) ==
    /\ "repeat" \in Faults
    /\ phase[b] = "accepted"
    /\ Become(b, "sent")
    /\ UNCHANGED <<serverVars, config, file, trying>>

-----------------------------------------------------------------------------

Agent(b) ==
    \/ Resume(b)
    \/ \E i \in Identities : Register(b, i)
    \/ MissToken(b) \/ Retry(b) \/ Store(b)

Server(b) == Authenticate(b) \/ Bind(b)

Administrator ==
    \/ \E n \in Nodes, t \in Tokens : PlanNode(n, t)
    \/ \E r \in Rotations : \/ \E n \in Nodes : ReadLive(r, n)
                            \/ \E t \in Tokens : Rotate(r, t)
    \/ \E n \in Nodes : SetSuspension(n)
    \/ \E b \in Boxes : Wipe(b) \/ Stop(b) \/ \E t \in Tokens : Configure(b, t)

Fault(b) == LoseAnswer(b) \/ FailStore(b) \/ Crash(b) \/ Repeat(b)

Next == Administrator \/ \E b \in Boxes : Agent(b) \/ Server(b) \/ Fault(b)

Spec == Init /\ [][Next]_vars

-----------------------------------------------------------------------------
(* Properties.                                                              *)

\* Every variable holds what its code counterpart can hold.
TypeOK ==
    /\ owner \in [Tokens -> Nodes \cup {None}]
    /\ revoked \subseteq Tokens
    /\ bound \in [Nodes -> Identities \cup {None}]
    /\ suspended \subseteq Nodes
    /\ rotation \in [Rotations -> [node : Nodes, rows : SUBSET Tokens] \cup {None}]
    /\ config \in [Boxes -> Tokens \cup {None}]
    /\ file \in [Boxes -> Identity \cup {None}]
    /\ phase \in [Boxes -> Phases]
    /\ trying \in [Boxes -> Registration \cup {None}]

\* However many boxes were given a node's credential, at once or one after the
\* other, and whatever was rotated in between, one box at most holds an
\* identity file for that node.
OneBoxPerNode ==
    \A b, c \in Boxes :
        file[b] # None /\ file[c] # None /\ file[b].node = file[c].node => b = c

\* A node has one live credential at most, two administrators rotating it at
\* once included: after a rotation the box that has the old one is locked out.
OneLiveCredential ==
    \A t, u \in Tokens : Live(t) /\ Live(u) /\ owner[t] = owner[u] => t = u

\* What an identity file says is what the server knows: the node is bound to
\* the identity in the file, and the credential is one minted for that node.
FilesAgreeWithServer ==
    \A b \in Boxes : file[b] # None =>
        /\ bound[file[b].node] = file[b].identity
        /\ owner[file[b].credential] = file[b].node

=============================================================================
