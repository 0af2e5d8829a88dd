\* Two channels and a radio that fails in the middle of a dwell.
CONSTANTS
    Channels = {c1, c2}
    Faults = {"radio"}
    None = None
    MaxVersion = 2
SPECIFICATION SamplerSpec
INVARIANT ReadingsArePure
