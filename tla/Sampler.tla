------------------------------- MODULE Sampler -------------------------------
(***************************************************************************)
(* The node that runs the plan of ChannelPlan.  A thread of its own visits *)
(* the channels of the plan in turn, folds what the radio delivers into    *)
(* one spectrum estimator and hands every reading to the agent's loop,     *)
(* which records it.  The plan changes under the thread's feet, the radio  *)
(* fails in the middle of a dwell, and thread and agent outlive each other *)
(* for a while.                                                            *)
(***************************************************************************)
EXTENDS ChannelPlan

CONSTANT None

ASSUME NoneAssumption == None \notin Channels

VARIABLES
    agent,      \* the agent's loop: "up" or "down"
    thread,     \* where the sampler's thread is
    round,      \* the channels it has left in this round, and their version
    channel,    \* the channel the radio is tuned to
    welch       \* the channels whose samples the estimator holds

threadVars == <<thread, round, channel>>
planVars == <<serverVars, pollVars, nodeVars>>
samplerVars == <<agent, threadVars, welch>>
allVars == <<planVars, samplerVars>>

\* start_sampler: a thread and an estimator of its own for every agent.
SamplerStarts ==
    /\ agent' = "up"
    /\ thread' = "borrow" /\ round' = NoPlan /\ channel' = None
    /\ welch' = {}

SamplerInit ==
    /\ Init
    /\ agent = "up"
    /\ thread = "borrow" /\ round = NoPlan /\ channel = None
    /\ welch = {}

-----------------------------------------------------------------------------
(* The thread: sampler.rs run.  It stops when the agent clears `running` or *)
(* nobody takes its events.                                                 *)

Wanted == agent = "up"

\* The channels are borrowed first, and with none the thread waits for a plan;
Borrow ==
    /\ Wanted /\ thread = "borrow" /\ plan.channels # {}
    /\ round' = [round EXCEPT !.channels = plan.channels]
    /\ thread' = "version"
    /\ UNCHANGED <<planVars, agent, channel, welch>>

\* their version is borrowed after that, and may be another plan's.
BorrowVersion ==
    /\ thread = "version"
    /\ round' = [round EXCEPT !.version = plan.version]
    /\ thread' = "round"
    /\ UNCHANGED <<planVars, agent, channel, welch>>

\* No channel is left, or the plan moved on.
EndRound ==
    /\ Wanted /\ thread = "round"
    /\ round.channels = {} \/ round.version # plan.version
    /\ thread' = "borrow"
    /\ UNCHANGED <<planVars, agent, round, channel, welch>>

\* dwell_on: tune, and throw away what was on its way.
Tune(c) ==
    /\ Wanted /\ thread = "round"
    /\ c \in round.channels /\ round.version = plan.version
    /\ thread' = "dwell" /\ channel' = c
    /\ round' = [round EXCEPT !.channels = @ \ {c}]
    /\ UNCHANGED <<planVars, agent, welch>>

\* A block is folded in, however many segments it completes.
Read ==
    /\ thread = "dwell"
    /\ welch' = welch \cup {channel}
    /\ UNCHANGED <<planVars, agent, threadVars>>

\* What came of the dwell is sent, and the thread ends if nobody takes it.
DwellIsOver ==
    /\ thread = "dwell"
    /\ thread' = IF Wanted THEN "round" ELSE "gone"
    /\ UNCHANGED <<planVars, agent, round, channel>>

\* The radio refuses to tune, to settle or to read: an early return.
DwellFails == "radio" \in Faults /\ DwellIsOver /\ UNCHANGED welch

\* The time is up or the radio has nothing more: finish averages what the
\* estimator holds, if that is a whole segment, and empties it in any case.
DwellEnds == DwellIsOver /\ welch' = {}

Stops ==
    /\ ~Wanted /\ thread \in {"borrow", "round"}
    /\ thread' = "gone"
    /\ UNCHANGED <<planVars, agent, round, channel, welch>>

\* The thread cannot be started, or panics, and drops its end of everything.
ThreadDies ==
    /\ "thread" \in Faults
    /\ thread # "gone" /\ thread' = "gone"
    /\ UNCHANGED <<planVars, agent, round, channel, welch>>

-----------------------------------------------------------------------------
(* The agent: main.rs run and shutdown.                                     *)

\* The loop ends: `running` is cleared, and the process waits for the thread.
LoopEnds ==
    /\ agent = "up" /\ agent' = "down"
    /\ phase' = "idle" /\ answer' = NoPlan
    /\ UNCHANGED <<serverVars, nodeVars, threadVars, welch>>

Signalled == "signal" \in Faults /\ LoopEnds

\* The events end, or a plan was fetched and there is no thread to take it.
SamplerIsMissed == thread = "gone" /\ LoopEnds

Polling == Wanted /\ (Poll \/ Refresh) /\ UNCHANGED samplerVars

\* Once shutdown has joined the thread the process ends, and is started again.
Starts ==
    /\ agent = "down" /\ thread = "gone"
    /\ plan' = cache
    /\ UNCHANGED <<serverVars, pollVars, cache>>
    /\ SamplerStarts

Crashes == Restart /\ SamplerStarts

-----------------------------------------------------------------------------

ThreadSteps ==
    \/ Borrow \/ BorrowVersion \/ EndRound \/ (\E c \in Channels : Tune(c))
    \/ DwellEnds \/ Stops

SamplerNext ==
    \/ /\ \/ \E wanted \in SUBSET Channels : Assign(wanted)
          \/ ReadVersion \/ ReadChannels \/ LosePoll
       /\ UNCHANGED samplerVars
    \/ Polling
    \/ ThreadSteps \/ Read \/ DwellFails \/ ThreadDies
    \/ Signalled \/ SamplerIsMissed \/ Starts \/ Crashes

SamplerSpec == SamplerInit /\ [][SamplerNext]_allVars

\* The thread runs, a dwell takes its time and no longer, a process that ended
\* is started again, and polls go through often enough as in ChannelPlan.
FairSamplerSpec ==
    /\ SamplerSpec
    /\ WF_allVars(ThreadSteps) /\ WF_allVars(SamplerIsMissed) /\ WF_allVars(Starts)
    /\ SF_allVars(Wanted /\ Poll /\ UNCHANGED samplerVars)
    /\ SF_allVars(ReadVersion /\ UNCHANGED samplerVars)
    /\ SF_allVars(ReadChannels /\ UNCHANGED samplerVars)
    /\ SF_allVars(Wanted /\ Refresh /\ UNCHANGED samplerVars)

-----------------------------------------------------------------------------
(* Properties.                                                              *)

\* What finish makes a reading of are samples of the channel it is for.  It is
\* not so: a dwell that fails after the radio has delivered blocks leaves them
\* in the estimator, and the next channel is measured with them.
ReadingsArePure == thread = "dwell" => welch \subseteq {channel}

DwellsOn(c) == thread = "dwell" /\ channel = c

\* Once people stop assigning, a channel that is assigned is measured again and
\* again and any other is left alone, although polls are lost, plans cannot be
\* cached, the radio fails, and the thread reads channels and version of the plan
\* one after the other while it changes; as long as process and thread stay up.
SamplerFollowsPlan ==
    <>[][~Crashes /\ ~Signalled /\ ~ThreadDies]_allVars =>
        \A c \in Channels :
            /\ <>[](c \in assigned) => []<>DwellsOn(c)
            /\ <>[](c \notin assigned) => <>[]~DwellsOn(c)

=============================================================================
