\* Two channels; the radio, the thread, the disk and the network fail, the agent
\* is stopped, and crashes.
CONSTANTS
    Channels = {c1, c2}
    Faults = {"network", "disk", "crash", "radio", "thread", "signal"}
    None = None
    MaxVersion = 3
SPECIFICATION FairSamplerSpec
INVARIANT PlanMatchesVersion
PROPERTY SamplerFollowsPlan
