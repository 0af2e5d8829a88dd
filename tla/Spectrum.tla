------------------------------ MODULE Spectrum ------------------------------
(***************************************************************************)
(* What a node reads off a power spectrum: dsp/metrics.rs, and the bins of *)
(* dsp/welch.rs.  Frequencies are in quarters of a Hz, relative to the one *)
(* the radio is tuned to; power is linear and in whole units, and a ratio  *)
(* of two readings is left as the two.                                     *)
(***************************************************************************)
EXTENDS Integers, Sequences, FiniteSets, SequencesExt

CONSTANTS
    Receivers,    \* [bins, width]: the transform, and the width of a bin
    Raster,       \* DAB_BLOCKS_HZ
    Tunings,      \* bound: [modulation, frequency, bandwidth] of channels in the plan
    Noise,        \* bound: what bins without a signal read, one after the other
    Levels,       \* bound: how strong a signal may be
    MaxSignals    \* bound: on the air at once

ASSUME SpectrumAssumption ==
    /\ \A r \in Receivers : r.bins % 2 = 0 /\ (r.bins * r.width) % 40 = 0
    /\ \A i \in DOMAIN Noise : Noise[i] > 0

VARIABLES
    receiver,   \* the radio's transform
    spec,       \* the channel that is measured
    signals,    \* what is on the air: [low, high, level]
    derived     \* what derive makes of it

spectrumVars == <<receiver, spec, signals, derived>>

kHz == 4000

FmBandwidth == 180 * kHz
DabBandwidth == 1536 * kHz
DabShoulder == 40 * kHz
MinimumGuardBins == 16
OccupancyThreshold == 4
OffsetGate == 2

NoReading == [strength |-> 0, noise2 |-> 0, bins |-> 0, occupied |-> 0, weight |-> 0, moment |-> 0]
Unread == [NoReading EXCEPT !.strength = -1]
Unmeasured == [modulation |-> "fm", frequency |-> 0, bandwidth |-> 0]

SpectrumInit ==
    /\ receiver = [bins |-> 2, width |-> 40]
    /\ spec = Unmeasured /\ signals = {} /\ derived = Unread

-----------------------------------------------------------------------------
(* The bins: welch.rs Psd.  Bin 0 is the bottom of the spectrum.            *)

Centre == receiver.bins \div 2

Offset(bin) == (bin - Centre) * receiver.width

Clamped(bin) == IF bin < 0 THEN 0 ELSE IF bin > receiver.bins THEN receiver.bins ELSE bin

\* The bin that covers an offset.
IndexAt(offset) == Clamped((offset + Centre * receiver.width) \div receiver.width)

\* From first up to, not including, last.
Bins(first, last) == first .. last - 1

\* The sum over the bins of a range that is not empty.
SumOver(f(_), bins) ==
    LET sum[first, last \in bins] ==
            LET middle == (first + last) \div 2
            IN  IF first = last THEN f(first) ELSE sum[first, middle] + sum[middle + 1, last]
    IN  sum[CHOOSE b \in bins : \A c \in bins : b <= c, CHOOSE b \in bins : \A c \in bins : c <= b]

Band(halfWidth) ==
    LET reach == Clamped(halfWidth \div receiver.width)
    IN  Bins(Clamped(Centre - reach), Clamped(Centre + reach + 1))

\* Each bin has its noise and the strongest of the signals that reach into it.
Power(bin) ==
    LET on == {s.level : s \in {t \in signals : /\ t.low < Offset(bin) + receiver.width
                                               /\ Offset(bin) <= t.high}}
    IN  Noise[(bin % Len(Noise)) + 1]
            + (IF on = {} THEN 0 ELSE CHOOSE level \in on : \A other \in on : other <= level)

Psd == [bin \in Bins(0, receiver.bins) |-> Power(bin)]

-----------------------------------------------------------------------------
(* The noise floor: metrics.rs noise_floor.                                 *)

\* Nineteen twentieths of half the spectrum.
SpanLimit == (Centre * receiver.width * 19) \div 20

DabReach == DabBandwidth \div 2 + DabShoulder

EffectiveBandwidth ==
    IF spec.bandwidth > 0 THEN spec.bandwidth
    ELSE IF spec.modulation = "dab" THEN DabBandwidth ELSE FmBandwidth

HalfWidth == EffectiveBandwidth \div 2

Sides(inner) ==
    Bins(IndexAt(-SpanLimit), IndexAt(-inner)) \cup Bins(IndexAt(inner), IndexAt(SpanLimit))

Beside(inner) == IF inner >= SpanLimit THEN {} ELSE Sides(inner)

Skirt == (HalfWidth * 3) \div 2

\* The sides without what is next to the channel, or all of them where that is too
\* little.
FmGuard ==
    LET wide == Beside(Skirt)
    IN  IF Cardinality(wide) < MinimumGuardBins THEN Beside(HalfWidth) ELSE wide

\* What if only the measured block was left out?
DabGuardOfSides ==
    LET gap == Sides(DabReach) IN IF Cardinality(gap) < MinimumGuardBins THEN {} ELSE gap

\* The bins that no block of the raster reaches, of the blocks that are near enough.
\* Every frequency tuned to here fits the u32 the code converts it to.
DabGuard ==
    LET near(offset) == offset < SpanLimit + DabReach /\ -offset < SpanLimit + DabReach
        blocks == {offset \in {b - spec.frequency : b \in Raster} : near(offset)}
        far(bin, block) == Offset(bin) - block > DabReach \/ block - Offset(bin) > DabReach
        gap == {bin \in Sides(HalfWidth) : \A block \in blocks : far(bin, block)}
    IN  IF Cardinality(gap) < MinimumGuardBins THEN {} ELSE gap

Guard == IF spec.modulation = "dab" THEN DabGuard ELSE FmGuard

\* The k-th in order of power.
Nth(psd, bins, k) ==
    CHOOSE power \in {psd[b] : b \in bins} :
        /\ Cardinality({b \in bins : psd[b] < power}) < k
        /\ Cardinality({b \in bins : psd[b] <= power}) >= k

\* Twice the median, of a set of bins that is not empty.
Median2(psd, bins) ==
    LET count == Cardinality(bins)
    IN  Nth(psd, bins, (count + 1) \div 2) + Nth(psd, bins, count \div 2 + 1)

-----------------------------------------------------------------------------
(* The readings: metrics.rs derive.  The floor stays doubled.               *)

Positive(n) == IF n > 0 THEN n ELSE 0

\* No reading without a floor or a band; the offset only of a channel that stands
\* out from the noise; a total below the noise counts as the noise.
Derive(psd) ==
    LET band == Band(HalfWidth)
        floor2 == Median2(psd, Guard)
        total == SumOver(LAMBDA b : psd[b], band)
        noise2 == floor2 * Cardinality(band)
        excess(b) == Positive(2 * psd[b] - floor2)
        gated == 2 * total < OffsetGate * noise2
    IN  IF band = {} \/ Guard = {} THEN NoReading
        ELSE [strength |-> total, noise2 |-> noise2, bins |-> Cardinality(band),
              occupied |-> Cardinality({b \in band : 2 * psd[b] > OccupancyThreshold * floor2}),
              weight |-> IF gated THEN 0 ELSE SumOver(excess, band),
              moment |-> IF gated THEN 0
                         ELSE SumOver(LAMBDA b : excess(b) * (b - Centre), band)]

\* What if a channel was held to fit that is as wide as the spectrum?
MeasurableAtAll(modulation) ==
    Centre * receiver.width > (IF modulation = "dab" THEN DabBandwidth ELSE FmBandwidth) \div 2

\* measurable, by which a node announces what it can be assigned.
Measurable(modulation) ==
    IF modulation = "dab" THEN SpanLimit > DabReach ELSE SpanLimit > FmBandwidth \div 2

Plug(r) == spec = Unmeasured /\ receiver' = r /\ UNCHANGED <<spec, signals, derived>>

Tuned(channel) ==
    /\ spec = Unmeasured /\ Measurable(channel.modulation)
    /\ spec' = channel /\ UNCHANGED <<receiver, signals, derived>>

\* Something is on the air: the channel itself, all of it or a carrier, with skirts
\* or without, or another one.
Transmit(low, high, level) ==
    /\ spec # Unmeasured /\ derived = Unread /\ Cardinality(signals) < MaxSignals
    /\ signals' = signals \cup {[low |-> low, high |-> high, level |-> level]}
    /\ UNCHANGED <<receiver, spec, derived>>

Measure ==
    /\ spec # Unmeasured /\ derived = Unread
    /\ derived' = Derive(Psd)
    /\ UNCHANGED <<receiver, spec, signals>>

Near(block) == block - spec.frequency \in -SpanLimit - DabReach .. SpanLimit + DabReach

Carriers ==
    IF spec.modulation = "dab"
    THEN {<<b - spec.frequency - DabBandwidth \div 2, b - spec.frequency + DabBandwidth \div 2>> :
              b \in {block \in Raster : Near(block)}}
    ELSE {<<0, 0>>, <<HalfWidth - receiver.width, HalfWidth - 1>>, <<-HalfWidth, HalfWidth>>,
          <<receiver.width - Skirt, Skirt - receiver.width>>,
          <<200 * kHz, 400 * kHz>>, <<-400 * kHz, -200 * kHz>>}

SpectrumNext ==
    \/ \E r \in Receivers : Plug(r)
    \/ \E channel \in Tunings : Tuned(channel)
    \/ \E carrier \in Carriers, level \in Levels : Transmit(carrier[1], carrier[2], level)
    \/ Measure

-----------------------------------------------------------------------------
(* Properties.                                                              *)

\* The stations besides the one that is measured, and its skirts.
Foreign == {s \in signals : s.high > HalfWidth}  \cup {s \in signals : s.low < -HalfWidth}

\* Of FM, at most one is next to the channel, and the skirts leave room for a guard.
Tolerable ==
    spec.modulation = "fm" =>
        /\ Cardinality({s \in Foreign : s.low > 0 \/ s.high < 0}) <= 1
        /\ Skirt + (MinimumGuardBins \div 2) * receiver.width > SpanLimit =>
               \A s \in Foreign : s.low > 0 \/ s.high < 0

Least == CHOOSE n \in Range(Noise) : \A m \in Range(Noise) : n <= m
Greatest == CHOOSE n \in Range(Noise) : \A m \in Range(Noise) : m <= n

\* The floor is the noise's, however strong the channel is, how far its skirts
\* reach and which blocks of the raster are on the air: it does not move with
\* what it is there to measure.
FloorIsNoise ==
    derived \notin {Unread, NoReading} /\ Tolerable =>
        /\ 2 * Least * derived.bins <= derived.noise2
        /\ derived.noise2 <= 2 * Greatest * derived.bins

\* The offset lies within the band, also where a weak carrier at its edge is
\* among noise that is not symmetric, and it is not reported of noise alone.
OffsetStaysInBand ==
    derived \notin {Unread, NoReading} =>
        /\ derived.moment \in -derived.weight * (derived.bins \div 2) .. derived.weight * (derived.bins \div 2)
        /\ signals = {} => derived.weight = 0

\* What is read of a channel is relative to the noise and within the channel.
ReadingsStandOnNoise == FloorIsNoise /\ OffsetStaysInBand

\* A channel that a node announced it can measure gives readings, whatever is on
\* the air and wherever in the raster its block is, unless it was assigned with a
\* bandwidth of its own.  It is a promise for receivers whose bins are fine enough, as
\* those of MCReceivers: `Measurable` looks at the rate alone, and at 256 bins of
\* 2.4 Ms/s, or between 1.702 and 1.708 Ms/s, it announces what gives no reading.
AnnouncedIsMeasured ==
    [][Measure /\ spec.bandwidth = 0 => derived' # NoReading]_spectrumVars

=============================================================================
