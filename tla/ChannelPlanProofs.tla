-------------------------- MODULE ChannelPlanProofs --------------------------
(***************************************************************************)
(* Why a node never runs a wrong plan under the current version, for any   *)
(* number of channels, assignments, lost polls and restarts.               *)
(*                                                                         *)
(* PlanMatchesVersion is not inductive: the answer that is on its way must *)
(* match too, and while only its version is read, that version must not be *)
(* ahead of the server's.  The version is read first, so an assignment     *)
(* between the two statements leaves the answer with an old version and    *)
(* newer channels, which the next poll replaces.  The thread that runs the  *)
(* plan, and an agent that ends and starts again, take nothing from that.   *)
(***************************************************************************)
EXTENDS Sampler, FiniteSetTheorems, TLAPS

AnswerFits ==
    /\ phase = "half" => answer.version <= version
    /\ phase = "answered" => Faithful(answer)

Invariant ==
    /\ TypeOK
    /\ version = 0 => assigned = {}
    /\ AnswerFits
    /\ PlanMatchesVersion

\* The trigger counts nothing exactly when nothing changes.
LEMMA BumpsCount ==
    ASSUME TypeOK, NEW wanted \in SUBSET Channels
    PROVE  Bumps(wanted) \in Nat /\ (Bumps(wanted) = 0 <=> wanted = assigned)
<1> DEFINE changed == (assigned \ wanted) \cup (wanted \ assigned)
<1>1. IsFiniteSet(changed)
  <2>1. changed \subseteq Channels
    BY DEF TypeOK
  <2> QED
    BY <2>1, ChannelsAssumption, FS_Subset
<1>2. Cardinality(changed) \in Nat /\ (Cardinality(changed) = 0 <=> changed = {})
  BY <1>1, FS_CardinalityType, FS_EmptySet
<1>3. changed = {} <=> wanted = assigned
  BY DEF TypeOK
<1> QED
  BY <1>2, <1>3 DEF Bumps

LEMMA InitHolds == Init => Invariant
BY DEF Init, NoPlan, Plan, Invariant, TypeOK, AnswerFits, PlanMatchesVersion, Faithful

\* An assignment leaves a plan faithful: it raises the version past the plan's,
\* or changes nothing.
LEMMA AssignKeeps ==
    ASSUME Invariant, NEW wanted \in SUBSET Channels, Assign(wanted)
    PROVE  Invariant'
<1>1. Bumps(wanted) \in Nat /\ (Bumps(wanted) = 0 <=> wanted = assigned)
  BY BumpsCount DEF Invariant
<1>2. TypeOK'
  BY <1>1 DEF Invariant, TypeOK, Assign, pollVars, nodeVars
<1>3. \A p \in Plan : Faithful(p) => Faithful(p)'
  BY <1>1 DEF Invariant, TypeOK, Assign, Faithful, Plan
<1>4. (version = 0 => assigned = {})'
  BY <1>1 DEF Invariant, TypeOK, Assign
<1>5. AnswerFits'
  <2>1. phase' = phase /\ answer' = answer /\ answer \in Plan
    BY DEF Assign, pollVars, Invariant, TypeOK
  <2>2. version <= version'
    BY <1>1 DEF Assign, Invariant, TypeOK
  <2> QED
    BY <1>3, <2>1, <2>2 DEF AnswerFits, Invariant, TypeOK, Plan, Faithful
<1>6. PlanMatchesVersion'
  <2>1. plan' = plan /\ cache' = cache /\ plan \in Plan /\ cache \in Plan
    BY DEF Assign, nodeVars, Invariant, TypeOK
  <2> QED
    BY <1>3, <2>1 DEF PlanMatchesVersion, Invariant, Faithful
<1> QED
  BY <1>2, <1>4, <1>5, <1>6 DEF Invariant

LEMMA StepKeeps == Invariant /\ [Next]_vars => Invariant'
<1> SUFFICES ASSUME Invariant, [Next]_vars
             PROVE  Invariant'
  OBVIOUS
<1> USE DEF Invariant, TypeOK, AnswerFits, PlanMatchesVersion, Faithful, NoPlan, Plan
<1>1. ASSUME NEW wanted \in SUBSET Channels, Assign(wanted)
      PROVE  Invariant'
  BY <1>1, AssignKeeps
<1>2. CASE ReadVersion
  BY <1>2 DEF ReadVersion, serverVars, nodeVars
<1>3. CASE ReadChannels
  BY <1>3 DEF ReadChannels, serverVars, nodeVars
<1>4. CASE Poll
  BY <1>4 DEF Poll, serverVars, nodeVars
<1>5. CASE Refresh
  BY <1>5 DEF Refresh, serverVars, nodeVars
<1>6. CASE LosePoll
  BY <1>6 DEF LosePoll, serverVars, nodeVars
<1>7. CASE Restart
  BY <1>7 DEF Restart, serverVars
<1>8. CASE UNCHANGED vars
  BY <1>8 DEF vars, serverVars, pollVars, nodeVars
<1> QED
  BY <1>1, <1>2, <1>3, <1>4, <1>5, <1>6, <1>7, <1>8 DEF Next

\* Whatever is assigned, lost, kept or forgotten: the current version always
\* stands for the channels that are assigned (assign, channel_plan, refresh_plan).
THEOREM PlansAreFaithful == Spec => []PlanMatchesVersion
<1>1. Invariant => PlanMatchesVersion
  BY DEF Invariant
<1> QED
  BY InitHolds, StepKeeps, <1>1, PTL DEF Spec

-----------------------------------------------------------------------------
(* The same of the node with its thread.                                    *)

\* What the thread does, and what becomes of it, is not the plan's concern.
LEMMA ThreadLeavesPlans ==
    ASSUME ThreadSteps \/ Read \/ DwellFails \/ ThreadDies
    PROVE  UNCHANGED vars
BY DEF ThreadSteps, Borrow, BorrowVersion, EndRound, Tune, DwellEnds, Stops, Read, DwellFails,
       DwellIsOver, ThreadDies, planVars, vars

\* An agent that ends forgets its poll, and one that starts runs what it cached.
LEMMA AgentKeeps == ASSUME Invariant, LoopEnds \/ Starts PROVE Invariant'
BY DEF LoopEnds, Starts, serverVars, nodeVars, pollVars, Invariant, TypeOK, AnswerFits,
       PlanMatchesVersion, Faithful, NoPlan, Plan

LEMMA SamplerStepKeeps == Invariant /\ [SamplerNext]_allVars => Invariant'
<1> SUFFICES ASSUME Invariant, [SamplerNext]_allVars
             PROVE  Invariant'
  OBVIOUS
<1>1. CASE \/ \E wanted \in SUBSET Channels : Assign(wanted)
           \/ ReadVersion \/ ReadChannels \/ LosePoll \/ Poll \/ Refresh \/ Restart
  BY <1>1, StepKeeps DEF Next
<1>2. CASE ThreadSteps \/ Read \/ DwellFails \/ ThreadDies
  BY <1>2, ThreadLeavesPlans, StepKeeps
<1>3. CASE LoopEnds \/ Starts
  BY <1>3, AgentKeeps
<1>4. CASE UNCHANGED allVars
  <2>1. UNCHANGED vars
    BY <1>4 DEF allVars, planVars, vars
  <2> QED
    BY <2>1, StepKeeps
<1> QED
  BY <1>1, <1>2, <1>3, <1>4 DEF SamplerNext, Polling, Signalled, SamplerIsMissed, Crashes

\* The plan stays faithful with the thread that borrows it channels first and
\* version second, with a radio and a thread that fail, and through every end and
\* start of the agent (main.rs run, shutdown and start_sampler).
THEOREM SampledPlansAreFaithful == SamplerSpec => []PlanMatchesVersion
<1>1. SamplerInit => Invariant
  BY InitHolds DEF SamplerInit
<1>2. Invariant => PlanMatchesVersion
  BY DEF Invariant
<1> QED
  BY <1>1, SamplerStepKeeps, <1>2, PTL DEF SamplerSpec

=============================================================================
