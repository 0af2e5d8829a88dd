----------------------------- MODULE MCReadings -----------------------------
(* What a node makes of its radio, what a server makes of what nodes send,  *)
(* and what it says of itself: the machines share no state, and a behaviour *)
(* is one of any of them.                                                   *)
EXTENDS Streams, Rds, Spectrum, Windows, Cadence, Detection, Ops, Partitions

VARIABLE part

\* Spectrum: block centres of Band III and the tunings tried, in quarters of a
\* kilohertz; 512 bins at each of the two rates of a receiver, beside the tightest
\* gap of the raster too, and two receivers that no DAB channel is announced for.
MCKilohertz == 4000
MCBlocks ==
    {174928, 176640, 178352, 180064, 181936, 183648, 185360, 187072, 188928, 190640,
     192352, 194064, 195936, 197648, 199360, 201072, 202928, 204640, 206352, 208064,
     209936, 211648, 213360, 215072, 216928, 218640, 220352, 222064, 223936, 225648,
     227360, 229072, 230784, 232496, 234208, 235776, 237488, 239200}
MCRaster == {MCKilohertz * k : k \in MCBlocks}
MCReceivers ==
    {[bins |-> 512, width |-> 18750], [bins |-> 512, width |-> 46875],
     [bins |-> 128, width |-> 32000], [bins |-> 256, width |-> 25000]}
MCTunings ==
    [modulation : {"dab"}, frequency : {MCKilohertz * k : k \in {174928, 235776, 239200}}, bandwidth : {0}]
    \cup [modulation : {"fm"}, frequency : {MCKilohertz * 99500}, bandwidth : {0, 500 * 4000, 700 * 4000}]
MCNoise == <<1, 3, 3>>

\* Windows: the ranges of protocol::metric_range, scaled, and dwells at and beyond them.
MCRange == [snr |-> 0 .. 80, offset |-> -200 .. 200]
MCTimes(n, m, v) == [i \in 1 .. n |-> [metric |-> m, value |-> v]]
MCDwells ==
    {[frequency |-> 1, samples |-> MCTimes(1, "snr", 80)],
     [frequency |-> 1, samples |-> MCTimes(19, "snr", 3)],
     [frequency |-> 1, samples |-> MCTimes(1, "snr", 81)],
     [frequency |-> 2, samples |-> MCTimes(1, "offset", NaN) \o MCTimes(1, "snr", 0)],
     [frequency |-> 2, samples |-> MCTimes(2, "unknown", 1)],
     [frequency |-> 2, samples |-> MCTimes(1, "offset", -200)],
     [frequency |-> 2, samples |-> <<>>]}

MCSkews == {0, 7200, -2}
MCUsual == <<10, 20>>

MCRest(p) ==
    /\ IF p = "streams" THEN TRUE ELSE UNCHANGED streamVars
    /\ IF p = "rds" THEN TRUE ELSE UNCHANGED rdsVars
    /\ IF p = "spectrum" THEN TRUE ELSE UNCHANGED spectrumVars
    /\ IF p = "windows" THEN TRUE ELSE UNCHANGED windowVars
    /\ IF p = "cadence" THEN TRUE ELSE UNCHANGED cadenceVars
    /\ IF p = "detection" THEN TRUE ELSE UNCHANGED detectionVars
    /\ IF p = "ops" THEN TRUE ELSE UNCHANGED opsVars
    /\ IF p = "partitions" THEN TRUE ELSE UNCHANGED partitionVars

MCInit ==
    /\ part \in {"streams", "rds", "spectrum", "windows", "cadence", "detection", "ops", "partitions"}
    /\ StreamInit /\ RdsInit /\ SpectrumInit /\ WindowInit
    /\ CadenceInit /\ DetectionInit /\ OpsInit /\ PartitionInit

MCNext ==
    /\ UNCHANGED part
    /\ \/ part = "streams" /\ StreamNext
       \/ part = "rds" /\ RdsNext
       \/ part = "spectrum" /\ SpectrumNext
       \/ part = "windows" /\ WindowNext
       \/ part = "cadence" /\ CadenceNext
       \/ part = "detection" /\ DetectionNext
       \/ part = "ops" /\ OpsNext
       \/ part = "partitions" /\ PartitionNext
    /\ MCRest(part)

MCSpec ==
    /\ MCInit
    /\ [][MCNext]_<<part, streamVars, rdsVars, spectrumVars, windowVars,
                    cadenceVars, detectionVars, opsVars, partitionVars>>
    /\ CadenceFairness
=============================================================================
