------------------------------- MODULE Streams -------------------------------
(***************************************************************************)
(* The node's streaming filters: a decimating low-pass, the FM             *)
(* discriminator and the cutting of samples into transform segments.  Each *)
(* is handed the samples of a tuning in blocks of any length and keeps     *)
(* what it needs of the last block.  A sample is the tuning it was read at *)
(* and its place in it; a filtered sample is the segment it was made from. *)
(***************************************************************************)
EXTENDS Naturals, Sequences, SequencesExt

CONSTANTS
    Widths,      \* numbers of taps
    Factors,     \* decimation factors
    Hops,        \* half the lengths of a transform
    MaxBlock,    \* bound: samples in a block
    MaxSamples,  \* bound: samples of a tuning
    MaxTunings   \* bound

ASSUME StreamsAssumption ==
    /\ Widths \cup Factors \cup Hops \subseteq Nat \ {0}
    /\ {MaxBlock, MaxSamples, MaxTunings} \subseteq Nat

VARIABLES
    design,      \* the parameters the filters were made with
    tuning,      \* the tuning, and the samples read of it so far
    decimator,   \* Decimator: history, phase and what was put out
    reference,   \* Discriminator: the last sample, and what was put out
    estimator    \* Welch: carry and the segments folded in

streamVars == <<design, tuning, decimator, reference, estimator>>

Fresh == [history |-> <<>>, phase |-> 0, out |-> <<>>]
NoReference == [previous |-> <<>>, out |-> <<>>]
EmptyEstimate == [carry |-> <<>>, segments |-> <<>>]

StreamInit ==
    /\ design = [width |-> 1, factor |-> 1, hop |-> 1]
    /\ tuning = [number |-> 0, samples |-> 0]
    /\ decimator = Fresh /\ reference = NoReference /\ estimator = EmptyEstimate

Segment(stream, start, width) == SubSeq(stream, start + 1, start + width)

\* How often a loop can take a segment, first at start and then every step.
Fits(length, start, width, step) ==
    IF length < start + width THEN 0 ELSE (length - start - width) \div step + 1

Segments(stream, start, width, step) ==
    [k \in 1 .. Fits(Len(stream), start, width, step) |->
        Segment(stream, start + (k - 1) * step, width)]

\* What if every block began a new phase?
DecimateAfresh(d, block) ==
    LET stream == d.history \o block
        taken == Segments(stream, 0, design.width, design.factor)
        position == Len(taken) * design.factor
        start == IF position < Len(stream) THEN position ELSE Len(stream)
    IN  [history |-> SubSeq(stream, start + 1, Len(stream)), phase |-> 0, out |-> d.out \o taken]

\* Decimator::process: the first segment starts at the phase; what the next one
\* still needs is kept, or how far it starts beyond the block.
Decimate(d, block) ==
    LET stream == d.history \o block
        taken == Segments(stream, d.phase, design.width, design.factor)
        position == d.phase + Len(taken) * design.factor
        start == IF position < Len(stream) THEN position ELSE Len(stream)
    IN  [history |-> SubSeq(stream, start + 1, Len(stream)),
         phase |-> position - start,
         out |-> d.out \o taken]

\* Discriminator::process: each sample against the one before it.
Discriminate(r, block) ==
    LET stream == r.previous \o block IN
    IF block = <<>> THEN r
    ELSE [previous |-> <<Last(block)>>, out |-> r.out \o Segments(stream, 0, 2, 1)]

\* Welch::push and absorb: segments that overlap by half.
Push(e, block) ==
    LET stream == e.carry \o block
        taken == Segments(stream, 0, 2 * design.hop, design.hop)
    IN  [carry |-> SubSeq(stream, Len(taken) * design.hop + 1, Len(stream)),
         segments |-> e.segments \o taken]

Design(width, factor, hop) ==
    /\ tuning.number = 0
    /\ design' = [width |-> width, factor |-> factor, hop |-> hop]
    /\ tuning' = [number |-> 1, samples |-> 0]
    /\ UNCHANGED <<decimator, reference, estimator>>

Feed(n) ==
    LET block == [i \in 1 .. n |-> <<tuning.number, tuning.samples + i>>] IN
    /\ tuning.number > 0 /\ tuning.samples + n <= MaxSamples
    /\ tuning' = [tuning EXCEPT !.samples = @ + n]
    /\ decimator' = Decimate(decimator, block)
    /\ reference' = Discriminate(reference, block)
    /\ estimator' = Push(estimator, block)
    /\ UNCHANGED design

\* Decimator::reset, Discriminator::reset, Welch::finish.
Retune ==
    /\ tuning.number \in 1 .. MaxTunings - 1
    /\ tuning' = [number |-> tuning.number + 1, samples |-> 0]
    /\ decimator' = Fresh /\ reference' = NoReference /\ estimator' = EmptyEstimate
    /\ UNCHANGED design

StreamNext ==
    \/ \E width \in Widths, factor \in Factors, hop \in Hops : Design(width, factor, hop)
    \/ \E n \in 0 .. MaxBlock : Feed(n)
    \/ Retune

-----------------------------------------------------------------------------
(* Properties.                                                              *)

Whole == [i \in 1 .. tuning.samples |-> <<tuning.number, i>>]

\* Where a receiver cuts its samples into blocks cannot be told from what the
\* filters and the transform make of them: they put out what they would for the
\* whole tuning at once, and nothing of the tuning before, also when a block is
\* shorter than the filter or the next segment starts beyond it.
FiltersIgnoreTheCuts ==
    /\ decimator.out = Segments(Whole, 0, design.width, design.factor)
    /\ reference.out = Segments(Whole, 0, 2, 1)
    /\ estimator.segments = Segments(Whole, 0, 2 * design.hop, design.hop)

=============================================================================
