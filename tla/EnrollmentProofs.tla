--------------------------- MODULE EnrollmentProofs ---------------------------
(***************************************************************************)
(* Why one box at most holds a node, and a node has one live credential at *)
(* most, for any number of boxes, nodes, rotations and retries.            *)
(*                                                                         *)
(* A file agrees with the server because nothing binds a bound node to     *)
(* another identity; for that to be inductive the same must hold of a      *)
(* registration that was accepted and is not stored yet.  Two boxes with   *)
(* files for one node would then have the same identity, and identities    *)
(* are drawn once: no two boxes ever hold or try the same one.             *)
(***************************************************************************)
EXTENDS Enrollment, TLAPS

\* What box b holds or has under way is backed by the server's rows.
Backed(b) ==
    /\ file[b] # None =>
          /\ bound[file[b].node] = file[b].identity
          /\ owner[file[b].credential] = file[b].node
    /\ phase[b] \in {"sent", "authenticated", "accepted", "refused"} => trying[b] # None
    /\ phase[b] \in {"authenticated", "accepted"} =>
          trying[b].node \in Nodes /\ owner[trying[b].token] = trying[b].node
    /\ phase[b] = "accepted" => bound[trying[b].node] = trying[b].identity

Holds(b, i) ==
    \/ file[b] # None /\ file[b].identity = i
    \/ trying[b] # None /\ trying[b].identity = i

Distinct ==
    \A b, c \in Boxes : \A i \in Identities : Holds(b, i) /\ Holds(c, i) => b = c

Invariant ==
    /\ TypeOK
    /\ \A b \in Boxes : Backed(b)
    /\ Distinct
    /\ OneLiveCredential

LEMMA InitHolds == Init => Invariant
BY DEF Init, Invariant, TypeOK, Backed, Distinct, Holds, OneLiveCredential, Live, Phases

-----------------------------------------------------------------------------
(* Administrators only add credentials and revoke them.                     *)

\* A credential given to a node nobody had it for leaves every box as it was.
LEMMA MintingKeeps ==
    ASSUME Invariant, NEW n \in Nodes, NEW t \in Tokens,
           owner[t] = None, owner' = [owner EXCEPT ![t] = n],
           UNCHANGED <<bound, boxVars>>
    PROVE  (\A b \in Boxes : Backed(b)') /\ Distinct'
<1> USE NoneAssumption DEF Invariant, TypeOK, boxVars
<1>1. ASSUME NEW b \in Boxes
      PROVE  Backed(b)'
  <2>1. \A u \in Tokens : owner[u] \in Nodes => owner'[u] = owner[u]
    OBVIOUS
  <2>2. file[b] # None => file[b].credential \in Tokens /\ file[b].node \in Nodes
    BY DEF Identity
  <2>3. trying[b] # None => trying[b].token \in Tokens
    BY DEF Registration
  <2> QED
    BY <2>1, <2>2, <2>3 DEF Backed
<1>2. Distinct'
  BY DEF Distinct, Holds
<1> QED
  BY <1>1, <1>2

LEMMA PlanNodeKeeps ==
    ASSUME Invariant, NEW n \in Nodes, NEW t \in Tokens, PlanNode(n, t)
    PROVE  Invariant'
<1> USE NoneAssumption DEF Invariant, PlanNode, boxVars
<1>1. TypeOK'
  BY DEF TypeOK
<1>2. (\A b \in Boxes : Backed(b)') /\ Distinct'
  BY MintingKeeps
<1>3. OneLiveCredential'
  BY DEF OneLiveCredential, Live, Planned, TypeOK
<1> QED
  BY <1>1, <1>2, <1>3

\* The index on live credentials is what keeps two rotations apart.
LEMMA RotateKeeps ==
    ASSUME Invariant, NEW r \in Rotations, NEW t \in Tokens, Rotate(r, t)
    PROVE  Invariant'
<1> USE NoneAssumption DEF Invariant, boxVars
<1> DEFINE n == rotation[r].node
           rows == rotation[r].rows
<1>1. n \in Nodes /\ rows \subseteq Tokens
  BY DEF Rotate, TypeOK
<1>2. CASE \E u \in Tokens \ rows : Live(u) /\ owner[u] = n
  <2>1. UNCHANGED <<owner, revoked, bound, suspended, boxVars>>
    BY <1>2 DEF Rotate
  <2>2. rotation' = [rotation EXCEPT ![r] = None]
    BY DEF Rotate
  <2> QED
    BY <2>1, <2>2 DEF TypeOK, Backed, Distinct, Holds, OneLiveCredential, Live
<1>3. CASE ~ \E u \in Tokens \ rows : Live(u) /\ owner[u] = n
  <2>1. /\ owner[t] = None /\ owner' = [owner EXCEPT ![t] = n]
        /\ revoked' = revoked \cup rows
        /\ rotation' = [rotation EXCEPT ![r] = None]
        /\ UNCHANGED <<bound, suspended, boxVars>>
    BY <1>3 DEF Rotate, Mint
  <2>2. TypeOK'
    BY <1>1, <2>1 DEF TypeOK
  <2>3. (\A b \in Boxes : Backed(b)') /\ Distinct'
    BY <1>1, <2>1, MintingKeeps
  <2>4. OneLiveCredential'
    BY <1>1, <1>3, <2>1 DEF OneLiveCredential, Live, TypeOK
  <2> QED
    BY <2>2, <2>3, <2>4
<1> QED
  BY <1>2, <1>3

\* ReadLive, SetSuspension and Configure touch nothing a box is backed by.
LEMMA OthersKeep ==
    ASSUME Invariant,
           \/ \E r \in Rotations, n \in Nodes : ReadLive(r, n)
           \/ \E n \in Nodes : SetSuspension(n)
           \/ \E b \in Boxes, t \in Tokens : Configure(b, t)
    PROVE  Invariant'
<1> USE DEF Invariant, boxVars, serverVars
<1>1. UNCHANGED <<owner, revoked, bound, file, phase, trying>>
  BY DEF ReadLive, SetSuspension, Configure
<1>2. TypeOK'
  <2>1. rotation' \in [Rotations -> [node : Nodes, rows : SUBSET Tokens] \cup {None}]
    BY DEF ReadLive, SetSuspension, Configure, TypeOK
  <2>2. suspended' \subseteq Nodes
    BY DEF ReadLive, SetSuspension, Configure, TypeOK
  <2>3. config' \in [Boxes -> Tokens \cup {None}]
    BY DEF ReadLive, SetSuspension, Configure, TypeOK
  <2> QED
    BY <1>1, <2>1, <2>2, <2>3 DEF TypeOK
<1>3. (\A b \in Boxes : Backed(b)') /\ Distinct' /\ OneLiveCredential'
  BY <1>1 DEF Backed, Distinct, Holds, OneLiveCredential, Live
<1> QED
  BY <1>2, <1>3

-----------------------------------------------------------------------------
(* Boxes, and what the server does for them.                                *)

\* Giving up and starting over forgets a registration and no file.
LEMMA ForgettingKeeps ==
    ASSUME Invariant, NEW b \in Boxes,
           \/ Resume(b) \/ MissToken(b) \/ Retry(b) \/ Stop(b)
           \/ LoseAnswer(b) \/ FailStore(b) \/ Crash(b) \/ Repeat(b)
    PROVE  Invariant'
<1> USE NoneAssumption DEF Invariant, Become, GiveUp
<1>1. UNCHANGED <<serverVars, config>>
  BY DEF Resume, MissToken, Retry, Stop, LoseAnswer, FailStore, Crash, Repeat
<1>2. \/ phase' = [phase EXCEPT ![b] = "off"]
      \/ phase' = [phase EXCEPT ![b] = "waiting"]
      \/ phase' = [phase EXCEPT ![b] = "running"]
      \/ phase' = [phase EXCEPT ![b] = "sent"] /\ trying[b] # None
  BY DEF Resume, MissToken, Retry, Stop, LoseAnswer, FailStore, Crash, Repeat,
         Backed
<1>3. file' = file /\ trying' \in {trying, [trying EXCEPT ![b] = None]}
  BY DEF Resume, MissToken, Retry, Stop, LoseAnswer, FailStore, Crash, Repeat
<1>4. phase'[b] = "sent" => trying' = trying
  BY DEF Resume, MissToken, Retry, Stop, LoseAnswer, FailStore, Crash, Repeat, TypeOK
<1>5. TypeOK'
  BY <1>1, <1>2, <1>3 DEF TypeOK, Phases, serverVars
<1>6. \A c \in Boxes : Backed(c)'
  BY <1>1, <1>2, <1>3, <1>4 DEF TypeOK, Backed, serverVars
<1>7. Distinct'
  BY <1>3 DEF TypeOK, Distinct, Holds
<1>8. OneLiveCredential'
  BY <1>1 DEF OneLiveCredential, Live, serverVars
<1> QED
  BY <1>5, <1>6, <1>7, <1>8

LEMMA WipeKeeps ==
    ASSUME Invariant, NEW b \in Boxes, Wipe(b)
    PROVE  Invariant'
<1> USE NoneAssumption DEF Invariant, Wipe, serverVars
<1>1. TypeOK'
  BY DEF TypeOK
<1>2. (\A c \in Boxes : Backed(c)') /\ Distinct'
  BY DEF TypeOK, Backed, Distinct, Holds
<1>3. OneLiveCredential'
  BY DEF OneLiveCredential, Live
<1> QED
  BY <1>1, <1>2, <1>3

\* A fresh identity is nobody else's.
LEMMA RegisterKeeps ==
    ASSUME Invariant, NEW b \in Boxes, NEW i \in Identities, Register(b, i)
    PROVE  Invariant'
<1> USE NoneAssumption DEF Invariant, Register, Become, serverVars
<1>1. config[b] \in Tokens
  BY DEF TypeOK
<1>2. TypeOK'
  BY <1>1 DEF TypeOK, Phases, Registration
<1>3. \A c \in Boxes : Backed(c)'
  <2>1. Backed(b)'
    BY <1>2 DEF TypeOK, Backed, Registration
  <2>2. ASSUME NEW c \in Boxes, c # b
        PROVE  Backed(c)'
    BY <2>2 DEF TypeOK, Backed
  <2> QED
    BY <2>1, <2>2
<1>4. Distinct'
  BY DEF TypeOK, Distinct, Holds, Fresh
<1>5. OneLiveCredential'
  BY DEF OneLiveCredential, Live
<1> QED
  BY <1>2, <1>3, <1>4, <1>5

\* What a box stores is what it was trying, and that was accepted.
LEMMA StoreKeeps ==
    ASSUME Invariant, NEW b \in Boxes, Store(b)
    PROVE  Invariant'
<1> USE NoneAssumption DEF Invariant, Store, Become, GiveUp, serverVars
<1>1. trying[b] \in Registration /\ trying[b] # None /\ trying[b].node \in Nodes
  BY DEF TypeOK, Backed
<1>2. TypeOK'
  BY <1>1 DEF TypeOK, Phases, Registration, Identity
<1>3. \A c \in Boxes : Backed(c)'
  BY <1>1 DEF TypeOK, Backed
<1>4. Distinct'
  BY <1>1 DEF TypeOK, Distinct, Holds
<1>5. OneLiveCredential'
  BY DEF OneLiveCredential, Live
<1> QED
  BY <1>2, <1>3, <1>4, <1>5

LEMMA AuthenticateKeeps ==
    ASSUME Invariant, NEW b \in Boxes, Authenticate(b)
    PROVE  Invariant'
<1> USE NoneAssumption DEF Invariant, Authenticate, Become, serverVars
<1>1. trying[b] \in Registration /\ trying[b] # None
  BY DEF TypeOK, Backed
<1>2. TypeOK'
  BY <1>1 DEF TypeOK, Phases, Registration, Live
<1>3. \A c \in Boxes : Backed(c)'
  <2>1. Backed(b)'
    <3>1. trying'[b] # None
      <4>1. trying'[b] \in Registration
        BY <1>1 DEF TypeOK, Live, Registration
      <4> QED
        BY <4>1
    <3>2. phase'[b] = "authenticated" =>
             trying'[b].node \in Nodes /\ owner[trying'[b].token] = trying'[b].node
      BY <1>1 DEF TypeOK, Live, Registration
    <3>3. phase'[b] \in {"authenticated", "refused"}
      BY DEF TypeOK
    <3> QED
      BY <3>1, <3>2, <3>3 DEF Backed
  <2>2. ASSUME NEW c \in Boxes, c # b
        PROVE  Backed(c)'
    BY <2>2 DEF TypeOK, Backed
  <2> QED
    BY <2>1, <2>2
<1>4. Distinct'
  BY <1>1 DEF TypeOK, Distinct, Holds, Registration
<1>5. OneLiveCredential'
  BY DEF OneLiveCredential, Live
<1> QED
  BY <1>2, <1>3, <1>4, <1>5

\* A bound node keeps its identity, so every file stays backed.
LEMMA BindKeeps ==
    ASSUME Invariant, NEW b \in Boxes, Bind(b)
    PROVE  Invariant'
<1> USE NoneAssumption DEF Invariant, Bind, Become
<1>1. trying[b] \in Registration /\ trying[b] # None /\ trying[b].node \in Nodes
  BY DEF TypeOK, Backed
<1>2. \A n \in Nodes : bound[n] # None => bound'[n] = bound[n]
  BY <1>1 DEF TypeOK
<1>3. TypeOK'
  BY <1>1 DEF TypeOK, Phases, Registration
<1>4. \A c \in Boxes : Backed(c)'
  <2> SUFFICES ASSUME NEW c \in Boxes
               PROVE  Backed(c)'
    OBVIOUS
  <2>1. file[c] # None => file[c].node \in Nodes /\ file[c].identity # None
    BY DEF TypeOK, Identity
  <2>2. trying[c] # None => trying[c].identity # None
    BY DEF TypeOK, Registration
  <2> QED
    BY <1>1, <1>2, <2>1, <2>2 DEF TypeOK, Backed
<1>5. Distinct'
  BY DEF Distinct, Holds
<1>6. OneLiveCredential'
  BY DEF OneLiveCredential, Live
<1> QED
  BY <1>3, <1>4, <1>5, <1>6

-----------------------------------------------------------------------------

LEMMA StepKeeps == Invariant /\ [Next]_vars => Invariant'
<1> SUFFICES ASSUME Invariant, [Next]_vars
             PROVE  Invariant'
  OBVIOUS
<1>1. CASE \E n \in Nodes, t \in Tokens : PlanNode(n, t)
  BY <1>1, PlanNodeKeeps
<1>2. CASE \E r \in Rotations, t \in Tokens : Rotate(r, t)
  BY <1>2, RotateKeeps
<1>3. CASE \/ \E r \in Rotations, n \in Nodes : ReadLive(r, n)
           \/ \E n \in Nodes : SetSuspension(n)
           \/ \E b \in Boxes, t \in Tokens : Configure(b, t)
  BY <1>3, OthersKeep
<1>4. CASE \E b \in Boxes : \/ Resume(b) \/ MissToken(b) \/ Retry(b) \/ Stop(b)
                           \/ LoseAnswer(b) \/ FailStore(b) \/ Crash(b) \/ Repeat(b)
  BY <1>4, ForgettingKeeps
<1>5. CASE \E b \in Boxes : (\E i \in Identities : Register(b, i)) \/ Store(b) \/ Wipe(b)
  BY <1>5, RegisterKeeps, StoreKeeps, WipeKeeps
<1>6. CASE \E b \in Boxes : Server(b)
  BY <1>6, AuthenticateKeeps, BindKeeps DEF Server
<1>7. CASE UNCHANGED vars
  BY <1>7 DEF vars, serverVars, boxVars, Invariant, TypeOK, Backed, Distinct, Holds,
              OneLiveCredential, Live
<1> QED
  BY <1>1, <1>2, <1>3, <1>4, <1>5, <1>6, <1>7 DEF Next, Administrator, Agent, Fault

LEMMA InvariantHolds == Spec => []Invariant
BY InitHolds, StepKeeps, PTL DEF Spec

\* Every variable of the enrolment holds what its code counterpart can hold.
THEOREM TypesHold == Spec => []TypeOK
<1>1. Invariant => TypeOK
  BY DEF Invariant
<1> QED
  BY InvariantHolds, <1>1, PTL

\* register_node_inner binds a node to the first identity that asks: no two boxes
\* ever keep an identity file for one node.
THEOREM OneBoxHoldsANode == Spec => []OneBoxPerNode
<1>1. Invariant => OneBoxPerNode
  <2> SUFFICES ASSUME Invariant, NEW b \in Boxes, NEW c \in Boxes,
                      file[b] # None, file[c] # None, file[b].node = file[c].node
               PROVE  b = c
    BY DEF OneBoxPerNode
  <2>1. file[b].identity = file[c].identity
    BY DEF Invariant, Backed
  <2>2. file[b].identity \in Identities
    BY DEF Invariant, TypeOK, Identity
  <2> QED
    BY <2>1, <2>2 DEF Invariant, Distinct, Holds
<1> QED
  BY InvariantHolds, <1>1, PTL

\* rotate_credential: however many rotations run at once, a node has one live
\* credential at most.
THEOREM CredentialsAreSingle == Spec => []OneLiveCredential
<1>1. Invariant => OneLiveCredential
  BY DEF Invariant
<1> QED
  BY InvariantHolds, <1>1, PTL

\* identity::store: what the file of a box says is what the server knows.
THEOREM FilesAgree == Spec => []FilesAgreeWithServer
<1>1. Invariant => FilesAgreeWithServer
  BY DEF Invariant, Backed, FilesAgreeWithServer
<1> QED
  BY InvariantHolds, <1>1, PTL

=============================================================================
