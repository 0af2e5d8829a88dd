----------------------------- MODULE ChannelPlan -----------------------------
(***************************************************************************)
(* What one node measures: people assign channels, a trigger counts the    *)
(* version of the node's plan up with every row that changes, and the node *)
(* polls for the plan, runs it and keeps a copy on disk for its next start. *)
(*                                                                         *)
(* The server answers a poll from two statements, version first, and in    *)
(* READ COMMITTED each of them sees what is committed by then.             *)
(***************************************************************************)
EXTENDS Naturals, FiniteSets

CONSTANTS
    Channels,    \* channels that may be assigned
    Faults,      \* of "network", "disk", "crash"
    MaxVersion   \* bound: rows inserted or deleted in all

ASSUME ChannelsAssumption == IsFiniteSet(Channels) /\ MaxVersion \in Nat

VARIABLES
    assigned,   \* node_channels: the channels of the node
    version,    \* nodes.channel_plan_version
    phase,      \* how far the node's poll has come
    answer,     \* what the server has read for it so far
    plan,       \* the plan the node runs
    cache       \* the plan on the node's disk

serverVars == <<assigned, version>>
pollVars == <<phase, answer>>
nodeVars == <<plan, cache>>
vars == <<serverVars, pollVars, nodeVars>>

Plan == [version : Nat, channels : SUBSET Channels]

\* Neither a plan that was never served nor a cache that was never written.
NoPlan == [version |-> 0, channels |-> {}]

Init ==
    /\ assigned = {} /\ version = 0
    /\ phase = "idle" /\ answer = NoPlan
    /\ plan = NoPlan /\ cache = NoPlan

-----------------------------------------------------------------------------
(* The server: api/nodes.rs assign, grpc/persist.rs channel_plan.           *)

\* What if only the rows put in counted?
BumpsOfInserts(wanted) == Cardinality(wanted \ assigned)

\* The trigger counts every row put in or taken out.
Bumps(wanted) == Cardinality((assigned \ wanted) \cup (wanted \ assigned))

\* assign holds the node's row from its first statement to its commit; rows
\* that are to stay are neither deleted nor inserted.
Assign(wanted) ==
    /\ version + Bumps(wanted) <= MaxVersion
    /\ assigned' = wanted
    /\ version' = version + Bumps(wanted)
    /\ UNCHANGED <<pollVars, nodeVars>>

ReadVersion ==
    /\ phase = "asked"
    /\ phase' = "half"
    /\ answer' = [answer EXCEPT !.version = version]
    /\ UNCHANGED <<serverVars, nodeVars>>

ReadChannels ==
    /\ phase = "half"
    /\ phase' = "answered"
    /\ answer' = [answer EXCEPT !.channels = assigned]
    /\ UNCHANGED <<serverVars, nodeVars>>

-----------------------------------------------------------------------------
(* The agent: main.rs refresh_plan, main; plan.rs.                          *)

Poll ==
    /\ phase = "idle"
    /\ phase' = "asked" /\ answer' = NoPlan
    /\ UNCHANGED <<serverVars, nodeVars>>

\* What if a plan that could not be cached was not run either?
RefreshIfCached ==
    /\ phase = "answered"
    /\ phase' = "idle" /\ answer' = NoPlan
    /\ \/ plan' = answer /\ cache' = answer
       \/ "disk" \in Faults /\ UNCHANGED nodeVars
    /\ UNCHANGED serverVars

\* The version the node runs already changes nothing; any other plan is cached,
\* or not when that fails, and run.
Refresh ==
    /\ phase = "answered"
    /\ phase' = "idle" /\ answer' = NoPlan
    /\ IF answer.version = plan.version THEN UNCHANGED nodeVars
       ELSE /\ plan' = answer
            /\ \/ cache' = answer
               \/ "disk" \in Faults /\ UNCHANGED cache
    /\ UNCHANGED serverVars

\* The poll fails on the way there or back; the next one is at the next tick.
LosePoll ==
    /\ "network" \in Faults
    /\ phase # "idle"
    /\ phase' = "idle" /\ answer' = NoPlan
    /\ UNCHANGED <<serverVars, nodeVars>>

\* The agent stops and starts from the plan it cached.
Restart ==
    /\ "crash" \in Faults
    /\ phase' = "idle" /\ answer' = NoPlan
    /\ plan' = cache
    /\ UNCHANGED <<serverVars, cache>>

-----------------------------------------------------------------------------

Next ==
    \/ \E wanted \in SUBSET Channels : Assign(wanted)
    \/ ReadVersion \/ ReadChannels
    \/ Poll \/ Refresh \/ LosePoll \/ Restart

Spec == Init /\ [][Next]_vars

-----------------------------------------------------------------------------
(* Properties.                                                              *)

\* Every variable holds what its code counterpart can hold.
TypeOK ==
    /\ assigned \subseteq Channels
    /\ version \in Nat
    /\ phase \in {"idle", "asked", "half", "answered"}
    /\ answer \in Plan /\ plan \in Plan /\ cache \in Plan

Faithful(p) == p.version <= version /\ (p.version = version => p.channels = assigned)

\* A node that runs, or has cached, the version the server is at has the
\* channels the server assigned, although an assignment may be committed between
\* the two statements that read the plan.  Otherwise the node would take the next
\* answer for the plan it runs, and stay on a wrong one.
PlanMatchesVersion == Faithful(plan) /\ Faithful(cache)

=============================================================================
