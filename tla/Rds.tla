--------------------------------- MODULE Rds ---------------------------------
(***************************************************************************)
(* The RDS decoder: differential decoding, the checkword of a block, the   *)
(* search for the start of a group and the count of blocks that fail.  A   *)
(* word is the set of the bits that are set, numbered from the least       *)
(* significant, so that exclusive or is the symmetric difference.          *)
(***************************************************************************)
EXTENDS Naturals, Sequences, FiniteSets

CONSTANTS
    Infos,     \* bound: information words that are sent
    Starts,    \* bound: how many bits of its first group a stream lacks
    Groups,    \* bound: groups in a stream
    MaxBurst   \* bound: bits from the first to the last that a burst flips

ASSUME RdsAssumption == \A info \in Infos : info \subseteq 0 .. 15

VARIABLES
    sent,     \* what was transmitted
    heard,    \* what the decoder was handed
    read      \* what it made of it

rdsVars == <<sent, heard, read>>

Xor(a, b) == (a \ b) \cup (b \ a)

BlockBits == 26
GroupBlocks == 4
SyncGroups == 2
Generator == {10, 8, 7, 5, 4, 3, 0}

\* Offset::word
Word == [A |-> {7, 6, 5, 4, 3, 2}, B |-> {8, 7, 4, 3}, C |-> {8, 6, 5, 3},
         CPrime |-> {9, 8, 6, 4}, D |-> {8, 7, 5, 4, 2}]

\* What if the third block were held to be of one version only?
AtPositionOfVersionA(position) ==
    CASE position % GroupBlocks = 0 -> {"A"} [] position % GroupBlocks = 1 -> {"B"}
      [] position % GroupBlocks = 2 -> {"C"} [] OTHER -> {"D"}

AtPosition(position) ==
    CASE position % GroupBlocks = 0 -> {"A"} [] position % GroupBlocks = 1 -> {"B"}
      [] position % GroupBlocks = 2 -> {"C", "CPrime"} [] OTHER -> {"D"}

Reduce(register) == IF 10 \in register THEN Xor(register, Generator) ELSE register

\* What the division by the generator leaves of each bit of a block.
Remainder[bit \in 0 .. 25] ==
    IF bit < 10 THEN {bit} ELSE Reduce({b + 1 : b \in Remainder[bit - 1]})

Odd(S) == Cardinality(S) % 2 = 1

\* The remainder of the information, shifted: the sum of those of its bits.
Checkword(info) == {bit \in 0 .. 9 : Odd({b \in info : bit \in Remainder[b + 10]})}

Encode(info, offset) == {b + 10 : b \in info} \cup Xor(Checkword(info), Word[offset])

Information(block) == {b - 10 : b \in {c \in block : c >= 10}}

Validates(block, offset) == block \cap 0 .. 9 = Xor(Checkword(Information(block)), Word[offset])

ValidAt(block, position) == \E offset \in AtPosition(position) : Validates(block, offset)

\* Blocks are read most significant bit first; positions count from 0.
ReadBlock(bits, position) == {BlockBits - k : k \in {j \in 1 .. BlockBits : bits[position + j]}}

Reads(bits, position) == position + BlockBits <= Len(bits)

DifferentialDecode(bits) == [i \in 1 .. Len(bits) |-> bits[i] # (i > 1 /\ bits[i - 1])]

\* find_sync: the first start from which two groups validate, or none.
SyncAt(bits, start) ==
    \A index \in 0 .. SyncGroups * GroupBlocks - 1 :
        LET position == start + index * BlockBits IN
        Reads(bits, position) /\ ValidAt(ReadBlock(bits, position), index)

NoSync == [good |-> 0, bad |-> 0, start |-> BlockBits * GroupBlocks]

\* decode: every whole block from there on, valid or not.
Decode(bits) ==
    LET starts == {s \in 0 .. BlockBits * GroupBlocks - 1 : SyncAt(bits, s)} IN
    IF starts = {} THEN NoSync
    ELSE LET start == CHOOSE s \in starts : \A t \in starts : s <= t
             blocks == 0 .. (Len(bits) - start) \div BlockBits - 1
             good == {i \in blocks : ValidAt(ReadBlock(bits, start + i * BlockBits), i)}
         IN  [good |-> Cardinality(good), bad |-> Cardinality(blocks \ good), start |-> start]

-----------------------------------------------------------------------------
(* A transmitter, and what reaches the receiver of it.                      *)

Quiet == [lack |-> 0, blocks |-> <<>>, hit |-> 0, inverted |-> FALSE]
Deaf == [bits |-> <<>>, block |-> {}, position |-> 0, offset |-> "A", burst |-> {}]

Undecoded == [NoSync EXCEPT !.start = @ + 1]

RdsInit == sent = Quiet /\ heard = Deaf /\ read = Undecoded

\* The blocks of a group, of either version; the stream is joined in the middle of
\* one, and whether its carrier is inverted cannot be told.
Compose(lack, info, third, inverted) ==
    /\ sent = Quiet /\ heard = Deaf
    /\ sent' = [lack |-> lack, hit |-> 0, inverted |-> inverted,
                blocks |-> <<Encode(info, "A"), Encode(info, "B"), Encode(info, third), Encode(info, "D")>>]
    /\ UNCHANGED <<heard, read>>

\* Bits are sent as changes of the carrier, from a level that cannot be told, and
\* one of them is heard wrong.
Receive(hit) ==
    LET length == Groups * GroupBlocks * BlockBits - sent.lack
        bit(i) == (BlockBits - 1 - (i % BlockBits)) \in sent.blocks[((i \div BlockBits) % GroupBlocks) + 1]
        changes == {i \in 1 .. length : bit(i - 1 + sent.lack)}
    IN  /\ sent # Quiet /\ heard = Deaf /\ hit <= length
        /\ sent' = [sent EXCEPT !.hit = hit]
        /\ heard' = [heard EXCEPT !.bits = [i \in 1 .. length |->
                        Odd({j \in changes : j <= i}) # ((i = hit) # sent.inverted)]]
        /\ UNCHANGED read

Listen ==
    /\ heard.bits # <<>> /\ read = Undecoded
    /\ read' = Decode(DifferentialDecode(heard.bits))
    /\ UNCHANGED <<sent, heard>>

\* One block, some bits of which are flipped.
Disturb(position, info, offset, burst) ==
    /\ sent = Quiet /\ heard = Deaf
    /\ offset \in AtPosition(position)
    /\ heard' = [Deaf EXCEPT !.block = Xor(Encode(info, offset), burst), !.position = position,
                            !.offset = offset, !.burst = burst]
    /\ UNCHANGED <<sent, read>>

Bursts == {{first + k : k \in more \cup {0}} :
              first \in 0 .. BlockBits - 1, more \in SUBSET (1 .. MaxBurst - 1)}

RdsNext ==
    \/ \E lack \in Starts, info \in Infos, third \in {"C", "CPrime"}, inverted \in BOOLEAN :
           Compose(lack, info, third, inverted)
    \/ \E n \in 0 .. Groups : Receive(n * 100)
    \/ Listen
    \/ \E position \in 0 .. 3, info \in Infos, offset \in DOMAIN Word, burst \in Bursts :
           burst \subseteq 0 .. BlockBits - 1 /\ Disturb(position, info, offset, burst)

-----------------------------------------------------------------------------
(* Properties.                                                              *)

\* No burst of flipped bits lets a block pass where it stands, but in the third
\* position, which is held against two versions, for the one it is not.
BurstsAreCaught ==
    heard.burst # {} =>
        /\ ~Validates(heard.block, heard.offset)
        /\ ValidAt(heard.block, heard.position) => heard.position = 2

\* The bits of the group the stream was joined in.
FirstWhole == IF sent.lack = 0 THEN 0 ELSE BlockBits * GroupBlocks - sent.lack

\* A wrong level makes two changes wrong.
Wrong == Xor(IF sent.hit = 0 THEN {} ELSE {sent.hit, sent.hit + 1} \cap DOMAIN heard.bits,
             IF sent.inverted THEN {1} ELSE {})

\* A stream is read from its first whole group whatever is left of the one before,
\* inverted or not, and every block that was hit is counted as bad and no other; it
\* is not read at all if one of the two groups it would synchronise on was hit.
DecodesAreExact ==
    read # Undecoded =>
        LET total == (Len(heard.bits) - FirstWhole) \div BlockBits
            hit == {(i - 1 - FirstWhole) \div BlockBits : i \in {j \in Wrong : j > FirstWhole}}
        IN  read = IF \E b \in hit : b < SyncGroups * GroupBlocks THEN NoSync
                   ELSE [good |-> total - Cardinality(hit), bad |-> Cardinality(hit), start |-> FirstWhole]

\* The counts of good and of bad blocks, from which the error rate of a station is
\* taken, are those of the blocks that came whole and of those that did not.
BlocksAreCounted == DecodesAreExact /\ BurstsAreCaught

=============================================================================
