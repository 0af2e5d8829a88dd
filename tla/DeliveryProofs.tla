--------------------------- MODULE DeliveryProofs ---------------------------
(***************************************************************************)
(* Theorems about Delivery, for any number of reports, any clock, any limit *)
(* of the journal and any resolution.                                      *)
(***************************************************************************)
EXTENDS Delivery, SequenceTheorems, WellFoundedInduction, TLAPS

-----------------------------------------------------------------------------
(* What can be read from a journal, and what the limit leaves of it.        *)

LEMMA LeastNumber ==
    ASSUME NEW S \in SUBSET Nat, S # {}
    PROVE  \E n \in S : \A m \in S : n <= m
<1> DEFINE less == {p \in Nat \X Nat : p[1] < p[2]}
<1>1. IsWellFoundedOn(less, Nat)
  BY NatLessThanWellFounded DEF OpToRel
<1>2. PICK n \in S : \A m \in S : ~ (<<m, n>> \in less)
  <2> HIDE DEF less
  <2> QED
    BY <1>1, WFMin
<1>3. ASSUME NEW m \in S PROVE n <= m
  <2>1. n \in Nat /\ m \in Nat
    OBVIOUS
  <2>2. <<m, n>> \notin less
    BY <1>2
  <2>3. ~ (m < n)
    BY <2>1, <2>2
  <2> QED
    BY <2>1, <2>3
<1> QED
  BY <1>3

\* decode_all reads up to the first torn record.
LEMMA ReadableEnds ==
    ASSUME NEW j \in Seq(Nat)
    PROVE  \E n \in 0 .. Len(j) :
              /\ Readable(j) = SubSeq(j, 1, n)
              /\ \A i \in 1 .. n : j[i] # Torn
              /\ n < Len(j) => j[n + 1] = Torn
<1> DEFINE good == {n \in 0 .. Len(j) : \A i \in 1 .. n : j[i] # Torn}
           rest == {k \in Nat : Len(j) - k \in good}
<1>1. 0 \in good
  OBVIOUS
<1>2. Len(j) \in rest
  BY <1>1
<1>3. PICK k \in rest : \A m \in rest : k <= m
  BY <1>2, LeastNumber
<1>4. Len(j) - k \in good /\ \A m \in good : m <= Len(j) - k
  <2>1. Len(j) - k \in good
    BY <1>3
  <2>2. ASSUME NEW m \in good PROVE m <= Len(j) - k
    <3>1. Len(j) \in Nat /\ m \in 0 .. Len(j) /\ k \in Nat
      OBVIOUS
    <3>2. Len(j) - m \in rest
      BY <3>1
    <3>3. k <= Len(j) - m
      BY <3>2, <1>3
    <3> QED
      BY <3>1, <3>3
  <2> QED
    BY <2>1, <2>2
<1> DEFINE n == CHOOSE x \in good : \A m \in good : m <= x
<1>5. n \in good /\ \A m \in good : m <= n
  BY <1>4
<1>6. Readable(j) = SubSeq(j, 1, n)
  BY DEF Readable
<1>7. n < Len(j) => j[n + 1] = Torn
  <2> SUFFICES ASSUME n < Len(j), j[n + 1] # Torn PROVE FALSE
    OBVIOUS
  <2> HIDE DEF n
  <2>1. n + 1 \in good
    BY <1>5
  <2> QED
    BY <2>1, <1>5
<1> HIDE DEF n
<1> QED
  BY <1>5, <1>6, <1>7

LEMMA ReadableType ==
    ASSUME NEW j \in Seq(Nat)
    PROVE  /\ Readable(j) \in Seq(Nat)
           /\ Len(Readable(j)) <= Len(j)
           /\ \A i \in 1 .. Len(Readable(j)) : Readable(j)[i] = j[i] /\ j[i] # Torn
           /\ Len(Readable(j)) < Len(j) => j[Len(Readable(j)) + 1] = Torn
           /\ In(Readable(j)) \subseteq In(j) \ {Torn}
           /\ Torn \notin In(j) => Readable(j) = j
<1>1. PICK n \in 0 .. Len(j) :
          /\ Readable(j) = SubSeq(j, 1, n)
          /\ \A i \in 1 .. n : j[i] # Torn
          /\ n < Len(j) => j[n + 1] = Torn
  BY ReadableEnds
<1>2. /\ Readable(j) \in Seq(Nat)
      /\ Len(Readable(j)) = n
      /\ \A i \in 1 .. n : Readable(j)[i] = j[i]
  BY <1>1
<1>3. In(Readable(j)) \subseteq In(j) \ {Torn}
  BY <1>1, <1>2 DEF In
<1>4. Torn \notin In(j) => Readable(j) = j
  <2> SUFFICES ASSUME Torn \notin In(j) PROVE Readable(j) = j
    OBVIOUS
  <2>1. n = Len(j)
    BY <1>1 DEF In
  <2> QED
    BY <2>1, <1>2, SeqEqual
<1> QED
  BY <1>1, <1>2, <1>3, <1>4

Ordered(j) == \A i, k \in DOMAIN j : i < k /\ j[k] # Torn => j[i] < j[k]

LEMMA AppendReadable ==
    ASSUME NEW j \in Seq(Nat), NEW w \in Nat
    PROVE  /\ Append(j, w) \in Seq(Nat)
           /\ In(Append(j, w)) = In(j) \cup {w}
           /\ In(Readable(j)) \subseteq In(Readable(Append(j, w)))
           /\ In(Readable(Append(j, w))) \subseteq In(Readable(j)) \cup ({w} \ {Torn})
           /\ Torn \notin In(j) /\ w # Torn => w \in In(Readable(Append(j, w)))
<1> DEFINE a == Append(j, w)
           m == Len(Readable(j))
           n == Len(Readable(a))
<1>1. /\ a \in Seq(Nat) /\ Len(a) = Len(j) + 1 /\ a[Len(j) + 1] = w
      /\ \A i \in 1 .. Len(j) : a[i] = j[i]
  BY AppendProperties
<1>2. In(a) = In(j) \cup {w}
  <2>1. DOMAIN a = 1 .. Len(j) + 1 /\ DOMAIN j = 1 .. Len(j)
    BY <1>1
  <2> QED
    BY <2>1, <1>1 DEF In
<1>3. /\ m \in 0 .. Len(j) /\ DOMAIN Readable(j) = 1 .. m
      /\ \A i \in 1 .. m : Readable(j)[i] = j[i] /\ j[i] # Torn
      /\ m < Len(j) => j[m + 1] = Torn
  BY ReadableType
<1>4. /\ n \in 0 .. Len(j) + 1 /\ DOMAIN Readable(a) = 1 .. n
      /\ \A i \in 1 .. n : Readable(a)[i] = a[i] /\ a[i] # Torn
      /\ n < Len(j) + 1 => a[n + 1] = Torn
  <2> HIDE DEF a
  <2>1. /\ Readable(a) \in Seq(Nat) /\ n <= Len(a)
        /\ \A i \in 1 .. n : Readable(a)[i] = a[i] /\ a[i] # Torn
        /\ n < Len(a) => a[n + 1] = Torn
    BY <1>1, ReadableType
  <2>2. n \in Nat /\ DOMAIN Readable(a) = 1 .. n
    BY <2>1
  <2> QED
    BY <2>1, <2>2, <1>1
<1> HIDE DEF a, m, n
<1>5. m <= n /\ (m < Len(j) => n = m)
  <2>1. ~ (n < m)
    <3> SUFFICES ASSUME n < m PROVE FALSE
      OBVIOUS
    <3>1. n + 1 \in 1 .. m /\ n + 1 \in 1 .. Len(j) /\ n < Len(j) + 1
      BY <1>3, <1>4
    <3>2. a[n + 1] = j[n + 1] /\ a[n + 1] = Torn
      BY <3>1, <1>1, <1>4
    <3>3. j[n + 1] # Torn
      BY <3>1, <1>3
    <3> QED
      BY <3>2, <3>3
  <2>2. ~ (m < Len(j) /\ m < n)
    <3> SUFFICES ASSUME m < Len(j), m < n PROVE FALSE
      OBVIOUS
    <3>1. m + 1 \in 1 .. n /\ m + 1 \in 1 .. Len(j)
      BY <1>3, <1>4
    <3> QED
      BY <3>1, <1>1, <1>3, <1>4
  <2> QED
    BY <2>1, <2>2, <1>3, <1>4
<1>6. In(Readable(j)) \subseteq In(Readable(a))
  <2> SUFFICES ASSUME NEW i \in 1 .. m PROVE Readable(j)[i] \in In(Readable(a))
    BY <1>3 DEF In
  <2>1. i \in 1 .. n /\ i \in 1 .. Len(j)
    BY <1>3, <1>4, <1>5
  <2>2. Readable(a)[i] = a[i] /\ a[i] = j[i] /\ Readable(j)[i] = j[i]
    BY <2>1, <1>1, <1>3, <1>4, Zenon
  <2> QED
    BY <2>1, <2>2, <1>4, Zenon DEF In
<1>7. In(Readable(a)) \subseteq In(Readable(j)) \cup ({w} \ {Torn})
  <2> SUFFICES ASSUME NEW i \in 1 .. n
               PROVE  Readable(a)[i] \in In(Readable(j)) \cup ({w} \ {Torn})
    BY <1>4 DEF In
  <2>1. Readable(a)[i] = a[i] /\ a[i] # Torn
    BY <1>4, Zenon
  <2>2. CASE i <= m
    <3>1. i \in 1 .. m /\ i \in 1 .. Len(j)
      BY <2>2, <1>3, <1>4
    <3>2. a[i] = j[i] /\ Readable(j)[i] = j[i]
      BY <3>1, <1>1, <1>3, Zenon
    <3> QED
      BY <2>1, <3>1, <3>2, <1>3, Zenon DEF In
  <2>3. CASE ~ (i <= m)
    <3>1. i = Len(j) + 1
      BY <2>3, <1>3, <1>4, <1>5
    <3> QED
      BY <2>1, <3>1, <1>1
  <2> QED
    BY <2>2, <2>3
<1>8. Torn \notin In(j) /\ w # Torn => w \in In(Readable(a))
  <2> SUFFICES ASSUME Torn \notin In(j), w # Torn PROVE w \in In(Readable(a))
    OBVIOUS
  <2>1. m = Len(j)
    BY <1>3 DEF In
  <2>2. n = Len(j) + 1
    BY <2>1, <1>1, <1>4, <1>5
  <2>3. n \in 1 .. n /\ n = Len(j) + 1
    BY <2>2, <1>4
  <2>4. Readable(a)[n] = w
    BY <2>3, <1>1, <1>4, Zenon
  <2> QED
    BY <2>3, <2>4, <1>4, Zenon DEF In
<1> QED
  BY <1>1, <1>2, <1>6, <1>7, <1>8 DEF a

\* enforce_limit keeps what is newest of what can be read.
LEMMA TrimmedKeepsNewest ==
    ASSUME NEW j \in Seq(Nat), Ordered(j)
    PROVE  /\ Trimmed(j) \in Seq(Nat) /\ Ordered(Trimmed(j)) /\ In(Trimmed(j)) \subseteq In(j)
           /\ In(Readable(Trimmed(j))) \subseteq In(Readable(j))
           /\ \A v \in In(Readable(j)) : v \in In(Readable(Trimmed(j))) \/ v \notin In(Trimmed(j))
           /\ \A v \in In(Readable(Trimmed(j))), d \in In(Readable(j)) :
                  d \notin In(Readable(Trimmed(j))) => d < v
<1> DEFINE p == Readable(j)
           k == Len(p) - (Len(p) \div 2)
           t == SubSeq(p, k + 1, Len(p))
<1>1. CASE Limit = 0 \/ Len(j) <= Limit
  <2>1. Trimmed(j) = j
    BY <1>1 DEF Trimmed
  <2> QED
    BY <2>1
<1>2. CASE ~ (Limit = 0 \/ Len(j) <= Limit)
  <2>1. Trimmed(j) = t
    BY <1>2 DEF Trimmed
  <2>2. /\ p \in Seq(Nat) /\ Len(p) \in Nat /\ Len(p) <= Len(j)
        /\ \A i \in 1 .. Len(p) : p[i] = j[i] /\ j[i] # Torn
        /\ In(p) \subseteq In(j) \ {Torn}
    BY ReadableType
  <2>3. k \in 0 .. Len(p)
    BY <2>2
  <2> HIDE DEF p, k
  <2>4. /\ t \in Seq(Nat) /\ Len(t) = Len(p) - k /\ DOMAIN t = 1 .. Len(p) - k
        /\ \A i \in 1 .. Len(p) - k : t[i] = p[k + i]
    BY <2>2, <2>3
  <2> HIDE DEF t
  <2>5. ASSUME NEW i \in 1 .. Len(p), NEW l \in 1 .. Len(p), i < l PROVE p[i] < p[l]
    <3>1. i \in DOMAIN j /\ l \in DOMAIN j
      BY <2>2
    <3>2. p[i] = j[i] /\ p[l] = j[l] /\ j[l] # Torn
      BY <2>2, Zenon
    <3>3. j[i] < j[l]
      BY <2>5, <3>1, <3>2, Zenon DEF Ordered
    <3> QED
      BY <3>2, <3>3
  <2>6. Ordered(t)
    <3> SUFFICES ASSUME NEW i \in 1 .. Len(p) - k, NEW l \in 1 .. Len(p) - k, i < l
                 PROVE  t[i] < t[l]
      BY <2>4 DEF Ordered
    <3>1. k + i \in 1 .. Len(p) /\ k + l \in 1 .. Len(p) /\ k + i < k + l
      BY <2>2, <2>3
    <3> QED
      BY <3>1, <2>4, <2>5
  <2>7. In(t) \subseteq In(p)
    <3> SUFFICES ASSUME NEW i \in 1 .. Len(p) - k PROVE t[i] \in In(p)
      BY <2>4 DEF In
    <3>1. k + i \in 1 .. Len(p) /\ t[i] = p[k + i]
      BY <2>2, <2>3, <2>4
    <3> QED
      BY <3>1, <2>2 DEF In
  <2>8. Torn \notin In(t)
    BY <2>2, <2>7
  <2>9. Readable(t) = t
    BY <2>4, <2>8, ReadableType
  <2>10. \A v \in In(t), d \in In(p) : d \notin In(t) => d < v
    <3> SUFFICES ASSUME NEW l \in 1 .. Len(p) - k, NEW i \in 1 .. Len(p), p[i] \notin In(t)
                 PROVE  p[i] < t[l]
      BY <2>2, <2>4 DEF In
    <3>1. i <= k
      <4> SUFFICES ASSUME i > k PROVE FALSE
        BY <2>2, <2>3
      <4>1. i - k \in 1 .. Len(p) - k /\ k + (i - k) = i
        BY <2>2, <2>3
      <4>2. t[i - k] = p[i]
        BY <4>1, <2>4
      <4> QED
        BY <4>1, <4>2, <2>4 DEF In
    <3> QED
      <4>1. k + l \in 1 .. Len(p) /\ i < k + l /\ t[l] = p[k + l]
        BY <3>1, <2>2, <2>3, <2>4
      <4> QED
        BY <4>1, <2>5
  <2> QED
    BY <2>1, <2>2, <2>4, <2>6, <2>7, <2>9, <2>10 DEF p
<1> QED
  BY <1>1, <1>2

\* What is over the limit is never the record that was appended last.
LEMMA TrimmedKeepsLast ==
    ASSUME NEW j \in Seq(Nat), NEW w \in Nat \ {Torn}, Torn \notin In(j)
    PROVE  w \in In(Trimmed(Append(j, w)))
<1> DEFINE a == Append(j, w)
           half == Len(a) \div 2
           t == SubSeq(a, Len(a) - half + 1, Len(a))
<1>1. /\ a \in Seq(Nat) /\ Len(a) \in Nat /\ Len(a) = Len(j) + 1 /\ a[Len(a)] = w
      /\ Torn \notin In(a) /\ w \in In(a)
  <2>1. a \in Seq(Nat) /\ Len(a) = Len(j) + 1 /\ a[Len(j) + 1] = w /\ Len(j) \in Nat
    BY AppendProperties
  <2>2. In(a) = In(j) \cup {w}
    BY AppendReadable
  <2> QED
    BY <2>1, <2>2
<1>2. Readable(a) = a
  BY <1>1, ReadableType
<1> HIDE DEF a
<1>3. CASE Limit = 0 \/ Len(a) <= Limit
  BY <1>1, <1>3 DEF Trimmed, a
<1>4. CASE ~ (Limit = 0 \/ Len(a) <= Limit)
  <2>1. Trimmed(a) = t
    BY <1>2, <1>4 DEF Trimmed
  <2>2. half \in 1 .. Len(a) /\ Len(a) - half \in Nat
    BY <1>1, <1>4, BoundAssumption
  <2> HIDE DEF half
  <2>3. DOMAIN t = 1 .. half /\ t[half] = a[Len(a)]
    BY <1>1, <2>2
  <2>4. half \in DOMAIN t
    BY <2>2, <2>3
  <2> QED
    BY <1>1, <2>1, <2>3, <2>4 DEF In, a
<1> QED
  BY <1>3, <1>4

-----------------------------------------------------------------------------
(* The inductive invariant, whatever faults there are.                      *)

Known == 1 .. Len(built)

\* The journal names reports that were built, in the order they were built in.
JournalInOrder == In(journal) \subseteq Known \cup {Torn} /\ Ordered(journal)

\* Nothing is appended to the journal between deliver's reading it and its
\* writing back the rest.
BatchIsJournal ==
    /\ task = "idle" => batch = << >> /\ delivered = 0 /\ rpc = "none"
    /\ task # "idle" => agent # "down" /\ batch = Readable(journal)
    /\ task = "sending" => delivered < Len(batch)
    /\ task = "trimming" => rpc = "none"

\* A report has one row at most, and no other report has its key.
RowsAreSingle ==
    /\ \A w \in Reports : rows[w] > 0 => w \in Known /\ rows[w] = 1
    /\ \A v, w \in Known : v # w /\ rows[v] > 0 /\ rows[w] > 0 => Key(v) # Key(w)

Invariant ==
    /\ TypeOK
    /\ JournalInOrder
    /\ BatchIsJournal
    /\ orphans \subseteq Known
    /\ RowsAreSingle

LEMMA InitHolds == Init => Invariant
<1> SUFFICES ASSUME Init PROVE Invariant
  OBVIOUS
<1> USE DEF Init
<1>1. TypeOK
  <2>1. << >> \in Seq(Window) /\ << >> \in Seq(Reports) /\ << >> \in Seq(Reports \cup {Torn})
    OBVIOUS
  <2>2. 0 \in 0 .. MaxClock /\ Period \in Nat
    BY PeriodAssumption, BoundAssumption
  <2>3. rows \in [Reports -> Nat]
    OBVIOUS
  <2>4. Len(built) <= MaxReports /\ delivered \in 0 .. Len(batch)
    BY BoundAssumption
  <2>5. built \in Seq(Window) /\ batch \in Seq(Reports) /\ journal \in Seq(Reports \cup {Torn})
    BY <2>1
  <2> HIDE DEF Init
  <2>6. clock \in 0 .. MaxClock /\ windowStart \in 0 .. MaxClock /\ nextClose \in Nat
    BY <2>2 DEF Init
  <2> QED
    BY <2>3, <2>4, <2>5, <2>6 DEF Init, TypeOK
<1>2. JournalInOrder
  BY DEF JournalInOrder, In, Ordered
<1>3. BatchIsJournal
  BY DEF BatchIsJournal
<1>4. RowsAreSingle
  BY DEF RowsAreSingle, Known, Reports
<1> QED
  BY <1>1, <1>2, <1>3, <1>4 DEF Invariant

LEMMA InvariantTypes ==
    ASSUME Invariant
    PROVE  /\ Len(built) \in Nat /\ Known \subseteq Reports
           /\ journal \in Seq(Nat)
           /\ \A w \in Known : built[w] \in Window
<1>1. journal \in Seq(Nat)
  <2>1. journal \in Seq(Reports \cup {Torn}) /\ Reports \cup {Torn} \subseteq Nat
    BY BoundAssumption DEF Invariant, TypeOK, Reports, Torn
  <2> QED
    BY <2>1, SeqMonotonic
<1>2. built \in Seq(Window) /\ Len(built) <= MaxReports
  BY DEF Invariant, TypeOK
<1>3. Len(built) \in Nat /\ Known \subseteq Reports
  BY <1>2, BoundAssumption DEF Known, Reports
<1>4. \A w \in Known : built[w] \in Window
  BY <1>2 DEF Known
<1> QED
  BY <1>1, <1>3, <1>4

\* What a step that makes a report does to the journal.
Makes(w) ==
    /\ w = Len(built) + 1 /\ w \in Reports
    /\ clock > windowStart
    /\ built' = Append(built, [start |-> windowStart, end |-> clock])
    /\ journal' \in Seq(Nat)
    /\ In(journal') \subseteq In(journal) \cup {w, Torn} /\ Ordered(journal')
    /\ In(Readable(journal')) \subseteq In(Readable(journal)) \cup {w}
    /\ \A v, d \in In(Readable(journal)) :
           v \in In(Readable(journal')) /\ d \notin In(Readable(journal')) => d < v
    /\ evicted \subseteq evicted' /\ unwritten \subseteq unwritten'
    /\ In(Readable(journal)) \subseteq In(Readable(journal')) \cup evicted'
    /\ evicted' \cup unwritten' \subseteq Reports
    /\ Torn \notin In(journal) => w \in In(Readable(journal')) \cup evicted' \cup unwritten'
    /\ Torn \notin In(journal) => evicted' \ evicted \subseteq Known

LEMMA AppendInOrder ==
    ASSUME Invariant, NEW w \in {Len(built) + 1, Torn}
    PROVE  Ordered(Append(journal, w))
<1> DEFINE a == Append(journal, w)
<1>1. /\ a \in Seq(Nat) /\ DOMAIN a = 1 .. Len(journal) + 1 /\ a[Len(journal) + 1] = w
      /\ \A i \in 1 .. Len(journal) : a[i] = journal[i]
  BY InvariantTypes, AppendProperties DEF Torn
<1>2. \A i \in 1 .. Len(journal) : journal[i] <= Len(built)
  BY InvariantTypes DEF Invariant, JournalInOrder, In, Known, Torn
<1> SUFFICES ASSUME NEW i \in DOMAIN a, NEW k \in DOMAIN a, i < k, a[k] # Torn
             PROVE  a[i] < a[k]
  BY DEF Ordered
<1> HIDE DEF a
<1>3. i \in 1 .. Len(journal) /\ a[i] = journal[i]
  BY <1>1
<1>4. CASE k = Len(journal) + 1
  BY <1>1, <1>2, <1>3, <1>4, InvariantTypes
<1>5. CASE k \in 1 .. Len(journal)
  BY <1>1, <1>3, <1>5 DEF Invariant, JournalInOrder, Ordered
<1> QED
  BY <1>1, <1>4, <1>5

LEMMA PushMakes ==
    ASSUME Invariant, clock > windowStart, NEW w, w = Len(built) + 1, w \in Reports,
           built' = Append(built, [start |-> windowStart, end |-> clock]),
           Push(w)
    PROVE  Makes(w)
<1> DEFINE a == Append(journal, w)
<1>1. /\ a \in Seq(Nat) /\ Ordered(a)
      /\ In(a) = In(journal) \cup {w}
      /\ In(Readable(journal)) \subseteq In(Readable(a))
      /\ In(Readable(a)) \subseteq In(Readable(journal)) \cup {w}
      /\ Torn \notin In(journal) => w \in In(Readable(a))
  BY InvariantTypes, AppendReadable, AppendInOrder DEF Torn, Reports
<1>2. In(Readable(a)) \subseteq In(a) \ {Torn}
  BY <1>1, ReadableType
<1> HIDE DEF a
<1>3. /\ journal' \in Seq(Nat) /\ Ordered(journal') /\ In(journal') \subseteq In(a)
      /\ In(Readable(journal')) \subseteq In(Readable(a))
      /\ \A v \in In(Readable(a)) : v \in In(Readable(journal')) \/ v \notin In(journal')
      /\ \A v \in In(Readable(journal')), d \in In(Readable(a)) :
             d \notin In(Readable(journal')) => d < v
  BY <1>1, TrimmedKeepsNewest DEF Push, a
<1>4. evicted' = evicted \cup (In(a) \ (In(journal') \cup {Torn})) /\ unwritten' = unwritten
  BY DEF Push, a
<1>5. \A v \in In(Readable(a)) : v \in In(Readable(journal')) \cup evicted'
  BY <1>2, <1>3, <1>4
<1>6. evicted' \subseteq Reports
  BY <1>1, <1>4, InvariantTypes DEF Invariant, TypeOK, JournalInOrder
<1>7. Torn \notin In(journal) => evicted' \ evicted \subseteq Known
  <2>1. Torn \notin In(journal) => w \in In(journal')
    BY InvariantTypes, TrimmedKeepsLast DEF Push, Torn, Reports
  <2> QED
    BY <1>1, <1>4, <2>1 DEF Invariant, JournalInOrder
<1> QED
  BY <1>1, <1>3, <1>4, <1>5, <1>6, <1>7 DEF Makes, Invariant, TypeOK

LEMMA PushFailsMakes ==
    ASSUME Invariant, clock > windowStart, NEW w, w = Len(built) + 1, w \in Reports,
           built' = Append(built, [start |-> windowStart, end |-> clock]),
           journal' \in {journal, Append(journal, w), Append(journal, Torn)},
           unwritten' = unwritten \cup {w}, evicted' = evicted
    PROVE  Makes(w)
<1>1. /\ journal' \in Seq(Nat) /\ Ordered(journal')
      /\ In(journal') \subseteq In(journal) \cup {w, Torn}
      /\ In(Readable(journal)) \subseteq In(Readable(journal'))
      /\ In(Readable(journal')) \subseteq In(Readable(journal)) \cup {w}
  <2>1. CASE journal' = journal
    BY <2>1, InvariantTypes DEF Invariant, JournalInOrder
  <2>2. CASE journal' = Append(journal, w)
    BY <2>2, InvariantTypes, AppendReadable, AppendInOrder DEF Reports
  <2>3. CASE journal' = Append(journal, Torn)
    <3>1. Torn \in Nat
      BY DEF Torn
    <3> QED
      BY <2>3, <3>1, InvariantTypes, AppendReadable, AppendInOrder
  <2> QED
    BY <2>1, <2>2, <2>3
<1> QED
  BY <1>1 DEF Makes, Invariant, TypeOK

LEMMA FinishMakes ==
    ASSUME Invariant, NEW sampled \in BOOLEAN, Finish(sampled)
    PROVE  windowStart' = clock /\ (UNCHANGED journalVars \/ Makes(Len(built) + 1))
<1>1. CASE sampled /\ clock > windowStart
  <2>1. Len(built) + 1 \in Reports
    BY <1>1, InvariantTypes, BoundAssumption DEF Finish, Reports
  <2>2. built' = Append(built, [start |-> windowStart, end |-> clock])
    BY <1>1 DEF Finish
  <2>3. CASE Push(Len(built) + 1)
    BY <1>1, <2>1, <2>2, <2>3, PushMakes DEF Finish
  <2>4. CASE PushFails(Len(built) + 1)
    BY <1>1, <2>1, <2>2, <2>4, PushFailsMakes DEF Finish, PushFails
  <2> QED
    BY <1>1, <2>3, <2>4 DEF Finish
<1> QED
  BY <1>1 DEF Finish

LEMMA CrashInPushMakes ==
    ASSUME Invariant, CrashInPush
    PROVE  Makes(Len(built) + 1)
<1>1. Len(built) + 1 \in Reports
  BY InvariantTypes, BoundAssumption DEF CrashInPush, Reports
<1> QED
  BY <1>1, PushFailsMakes DEF CrashInPush

LEMMA SeqOfIn ==
    ASSUME NEW j \in Seq(Nat), NEW S, In(j) \subseteq S
    PROVE  j \in Seq(S)
<1>1. \A i \in 1 .. Len(j) : j[i] \in S
  BY DEF In
<1>2. Len(j) \in Nat /\ j \in [1 .. Len(j) -> S]
  BY <1>1
<1> QED
  BY <1>2, SeqDef

\* A report more changes nothing for those there are.
LEMMA MakesKeepsReports ==
    ASSUME Invariant, NEW w, Makes(w), rows' = rows
    PROVE  /\ built' \in Seq(Window) /\ Len(built') <= MaxReports
           /\ Len(built') = w /\ Known' = Known \cup {w} /\ w \notin Known
           /\ \A v \in Known : built'[v] = built[v]
           /\ built'[w] = [start |-> windowStart, end |-> clock]
           /\ journal' \in Seq(Reports \cup {Torn})
           /\ evicted' \subseteq Reports /\ unwritten' \subseteq Reports
           /\ JournalInOrder' /\ RowsAreSingle'
<1>1. [start |-> windowStart, end |-> clock] \in Window
  BY BoundAssumption DEF Makes, Window, Invariant, TypeOK
<1>2. /\ built' \in Seq(Window) /\ Len(built') = w
      /\ \A v \in Known : built'[v] = built[v]
      /\ built'[w] = [start |-> windowStart, end |-> clock]
  BY <1>1, AppendProperties DEF Makes, Invariant, TypeOK, Known
<1>3. Len(built') <= MaxReports /\ Known' = Known \cup {w} /\ w \notin Known
  BY <1>2, InvariantTypes, BoundAssumption DEF Makes, Known, Reports
<1>4. JournalInOrder'
  <2>1. In(journal') \subseteq Known' \cup {Torn}
    BY <1>3 DEF Makes, Invariant, JournalInOrder
  <2> QED
    BY <2>1 DEF Makes, JournalInOrder
<1>5. journal' \in Seq(Reports \cup {Torn})
  <2>1. Known' \subseteq Reports
    BY <1>3, InvariantTypes DEF Makes
  <2> QED
    BY <1>4, <2>1, SeqOfIn DEF Makes, JournalInOrder
<1>6. RowsAreSingle'
  <2>1. \A v \in Reports : rows[v] > 0 => v \in Known
    BY DEF Invariant, RowsAreSingle
  <2>2. \A v \in Known : Key(v)' = Key(v)
    BY <1>2 DEF Key
  <2>3. \A v \in Known' : rows[v] > 0 => v \in Known
    BY <1>3, <2>1, InvariantTypes DEF Makes
  <2> QED
    BY <1>3, <2>1, <2>2, <2>3 DEF Invariant, RowsAreSingle
<1> QED
  BY <1>2, <1>3, <1>4, <1>5, <1>6 DEF Makes

LEMMA CloseKeeps ==
    ASSUME Invariant, NEW sampled \in BOOLEAN, CloseWindow(sampled) \/ Stop(sampled)
    PROVE  Invariant'
<1>1. Finish(sampled) /\ Idle /\ rows' = rows
  BY DEF CloseWindow, Stop, serverVars
<1>2. windowStart' = clock /\ (UNCHANGED journalVars \/ Makes(Len(built) + 1))
  BY <1>1, FinishMakes
<1>3. /\ clock' = clock /\ nextClose' \in Nat /\ agent' \in {"up", "stopping"}
      /\ UNCHANGED <<deliverVars, rpc, serverVars>>
  BY <1>1, PeriodAssumption DEF CloseWindow, Stop, Idle, Invariant, TypeOK, agentVars
<1>4. /\ built' \in Seq(Window) /\ Len(built') <= MaxReports
      /\ journal' \in Seq(Reports \cup {Torn})
      /\ evicted' \subseteq Reports /\ unwritten' \subseteq Reports
      /\ JournalInOrder' /\ RowsAreSingle' /\ Known \subseteq Known'
  <2>1. CASE UNCHANGED journalVars
    BY <1>1, <2>1 DEF Invariant, TypeOK, journalVars, JournalInOrder, RowsAreSingle, Known, Key
  <2>2. CASE Makes(Len(built) + 1)
    BY <1>1, <2>2, MakesKeepsReports
  <2> QED
    BY <1>2, <2>1, <2>2
<1>5. TypeOK'
  BY <1>2, <1>3, <1>4 DEF Invariant, TypeOK, deliverVars, serverVars
<1>6. BatchIsJournal'
  BY <1>1, <1>3 DEF Idle, Invariant, BatchIsJournal, deliverVars
<1>7. (orphans \subseteq Known)'
  BY <1>3, <1>4 DEF Invariant, serverVars
<1> QED
  BY <1>4, <1>5, <1>6, <1>7 DEF Invariant

\* The report whose call is under way is in the journal.
LEMMA CurrentIsRead ==
    ASSUME Invariant, rpc # "none"
    PROVE  /\ task = "sending" /\ batch = Readable(journal) /\ delivered + 1 \in 1 .. Len(batch)
           /\ Current \in In(Readable(journal)) /\ Current \in Known
<1>1. task = "sending" /\ batch = Readable(journal) /\ delivered + 1 \in 1 .. Len(batch)
  BY DEF Invariant, TypeOK, BatchIsJournal
<1>2. Current \in In(Readable(journal))
  BY <1>1 DEF In, Current, Invariant, TypeOK
<1>3. Current \in Known
  BY <1>2, InvariantTypes, ReadableType DEF Invariant, JournalInOrder
<1> QED
  BY <1>1, <1>2, <1>3

LEMMA GaveUpKnown ==
    ASSUME Invariant, rpc # "none"
    PROVE  \A os \in GaveUp : os \subseteq Known
BY CurrentIsRead DEF GaveUp, Invariant

LEMMA DieKeeps ==
    ASSUME Invariant, Die, UNCHANGED journalVars \/ Makes(Len(built) + 1)
    PROVE  Invariant'
<1>1. orphans' \subseteq Known
  BY GaveUpKnown DEF Die, Invariant
<1>2. /\ built' \in Seq(Window) /\ Len(built') <= MaxReports
      /\ journal' \in Seq(Reports \cup {Torn})
      /\ evicted' \subseteq Reports /\ unwritten' \subseteq Reports
      /\ JournalInOrder' /\ RowsAreSingle' /\ Known \subseteq Known'
  <2>1. CASE UNCHANGED journalVars
    BY <2>1 DEF Die, Invariant, TypeOK, journalVars, JournalInOrder, RowsAreSingle, Known, Key
  <2>2. CASE Makes(Len(built) + 1)
    BY <2>2, MakesKeepsReports DEF Die
  <2> QED
    BY <2>1, <2>2
<1>3. TypeOK'
  <2>1. Known \subseteq Reports
    BY InvariantTypes
  <2>2. << >> \in Seq(Reports) /\ Len(<< >>) = 0
    OBVIOUS
  <2> QED
    BY <1>1, <1>2, <2>1, <2>2 DEF Invariant, TypeOK, Die
<1>4. BatchIsJournal'
  BY DEF BatchIsJournal, Die
<1> QED
  BY <1>1, <1>2, <1>3, <1>4 DEF Invariant

\* deliver is over, or its loop: the journal holds what it held.
LEMMA BreakKeeps ==
    ASSUME Invariant, Break, rpc # "none", orphans' \subseteq Known,
           UNCHANGED <<clock, journalVars, rows, suspended>>
    PROVE  Invariant'
<1> USE DEF Break, EndDelivery, journalVars
<1>1. task = "sending" /\ Known' = Known
  BY CurrentIsRead DEF Known
<1>2. TypeOK'
  <2>1. Known \subseteq Reports /\ << >> \in Seq(Reports) /\ Len(<< >>) = 0
    BY InvariantTypes
  <2>2. CASE delivered = 0
    BY <2>1, <2>2 DEF Invariant, TypeOK
  <2>3. CASE delivered # 0
    BY <2>1, <2>3 DEF Invariant, TypeOK, agentVars
  <2> QED
    BY <2>2, <2>3
<1>3. JournalInOrder' /\ RowsAreSingle'
  BY DEF Invariant, JournalInOrder, RowsAreSingle, Known, Key
<1>4. BatchIsJournal'
  BY <1>1 DEF Invariant, BatchIsJournal, agentVars
<1> QED
  BY <1>1, <1>2, <1>3, <1>4 DEF Invariant

LEMMA TrimKeeps ==
    ASSUME Invariant, Trim
    PROVE  Invariant'
<1> USE DEF Trim, EndDelivery
<1>1. /\ batch = Readable(journal) /\ delivered \in 0 .. Len(batch) /\ rpc = "none"
      /\ batch \in Seq(Reports) /\ Known' = Known
  BY DEF Invariant, TypeOK, BatchIsJournal, Known
<1>2. /\ journal' \in Seq(Reports \cup {Torn}) /\ In(journal') \subseteq In(journal) /\ Ordered(journal')
  <2>1. CASE UNCHANGED journal
    BY <2>1 DEF Invariant, TypeOK, JournalInOrder
  <2>2. CASE journal' = SubSeq(batch, delivered + 1, Len(batch))
    <3>1. /\ journal' \in Seq(Reports) /\ DOMAIN journal' = 1 .. Len(batch) - delivered
          /\ \A i \in 1 .. Len(batch) - delivered :
                journal'[i] = batch[delivered + i] /\ delivered + i \in 1 .. Len(batch)
      BY <1>1, <2>2
    <3>2. /\ \A i \in 1 .. Len(batch) : batch[i] = journal[i] /\ i \in DOMAIN journal
      BY <1>1, InvariantTypes, ReadableType
    <3>3. \A i \in DOMAIN journal' : journal'[i] = journal[delivered + i] /\ delivered + i \in DOMAIN journal
      BY <3>1, <3>2
    <3>4. In(journal') \subseteq In(journal)
      BY <3>3 DEF In
    <3>5. Ordered(journal')
      <4> SUFFICES ASSUME NEW i \in DOMAIN journal', NEW k \in DOMAIN journal', i < k, journal'[k] # Torn
                   PROVE  journal'[i] < journal'[k]
        BY DEF Ordered
      <4>1. delivered + i < delivered + k
        BY <1>1, <3>1
      <4> QED
        BY <3>3, <4>1 DEF Invariant, JournalInOrder, Ordered
    <3>6. journal' \in Seq(Reports \cup {Torn})
      BY <3>1, SeqMonotonic
    <3> QED
      BY <3>4, <3>5, <3>6
  <2> QED
    BY <2>1, <2>2
<1>3. TypeOK'
  <2>1. << >> \in Seq(Reports) /\ Len(<< >>) = 0
    OBVIOUS
  <2> QED
    BY <1>2, <2>1 DEF Invariant, TypeOK, serverVars
<1>4. JournalInOrder'
  BY <1>1, <1>2 DEF Invariant, JournalInOrder
<1>5. BatchIsJournal'
  BY <1>1 DEF BatchIsJournal
<1>6. (orphans \subseteq Known)' /\ RowsAreSingle'
  BY <1>1 DEF Invariant, RowsAreSingle, serverVars, Known, Key
<1> QED
  BY <1>3, <1>4, <1>5, <1>6 DEF Invariant

\* A row is added under a key no row has.
LEMMA StoreKeepsSingle ==
    ASSUME Invariant, NEW w \in Known, Store(w), built' = built
    PROVE  RowsAreSingle' /\ rows' \in [Reports -> Nat]
<1>1. Known \subseteq Reports /\ Known' = Known /\ \A v \in Known : Key(v)' = Key(v)
  BY InvariantTypes DEF Known, Key
<1>2. CASE Storable(w) /\ ~KeyTaken(w)
  <2>1. /\ rows' = [rows EXCEPT ![w] = @ + 1] /\ rows \in [Reports -> Nat]
        /\ \A v \in Known : rows[v] > 0 => Key(v) # Key(w)
    BY <1>2 DEF Store, KeyTaken, Invariant, TypeOK, Known
  <2>2. rows[w] = 0
    BY <1>1, <2>1
  <2> QED
    BY <1>1, <2>1, <2>2 DEF Invariant, RowsAreSingle
<1>3. CASE ~ (Storable(w) /\ ~KeyTaken(w))
  BY <1>1, <1>3 DEF Store, Invariant, TypeOK, RowsAreSingle
<1> QED
  BY <1>2, <1>3

LEMMA StoreKeeps ==
    ASSUME Invariant, Write \/ \E w \in Reports : WriteOrphan(w)
    PROVE  Invariant'
<1>1. /\ UNCHANGED <<clock, agentVars, journalVars, deliverVars, suspended>>
      /\ orphans' \subseteq orphans /\ rpc' \in {rpc, "acked", "refused"}
      /\ rpc = "none" => rpc' = "none"
  BY DEF Write, WriteOrphan
<1>2. PICK w \in Known : Store(w)
  BY CurrentIsRead DEF Write, WriteOrphan, Invariant
<1>3. RowsAreSingle' /\ rows' \in [Reports -> Nat]
  BY <1>1, <1>2, StoreKeepsSingle DEF journalVars
<1>4. TypeOK'
  BY <1>1, <1>3 DEF Invariant, TypeOK, agentVars, journalVars, deliverVars
<1>5. JournalInOrder' /\ (orphans \subseteq Known)'
  BY <1>1 DEF Invariant, JournalInOrder, Known, journalVars
<1>6. BatchIsJournal'
  BY <1>1 DEF Invariant, BatchIsJournal, agentVars, journalVars, deliverVars
<1> QED
  BY <1>3, <1>4, <1>5, <1>6 DEF Invariant

LEMMA StepKeeps == Invariant /\ [Next]_vars => Invariant'
<1> SUFFICES ASSUME Invariant, [Next]_vars PROVE Invariant'
  OBVIOUS
<1> USE DEF agentVars, journalVars, deliverVars, serverVars
<1>1. ASSUME NEW sampled \in BOOLEAN, CloseWindow(sampled) \/ Stop(sampled) PROVE Invariant'
  BY <1>1, CloseKeeps
<1>2. CASE StartDelivery
  <2>1. /\ Readable(journal) \in Seq(Reports) /\ Len(Readable(journal)) > 0
    <3>1. Readable(journal) \in Seq(Nat) /\ In(Readable(journal)) \subseteq In(journal) \ {Torn}
      BY InvariantTypes, ReadableType
    <3>2. In(Readable(journal)) \subseteq Reports
      BY <3>1, InvariantTypes DEF Invariant, JournalInOrder
    <3> QED
      BY <1>2, <3>1, <3>2, SeqOfIn, EmptySeq DEF StartDelivery
  <2>2. TypeOK'
    BY <1>2, <2>1 DEF StartDelivery, Invariant, TypeOK
  <2>3. JournalInOrder' /\ (orphans \subseteq Known)' /\ RowsAreSingle'
    BY <1>2 DEF StartDelivery, Invariant, JournalInOrder, RowsAreSingle, Known, Key
  <2>4. BatchIsJournal'
    BY <1>2, <2>1 DEF StartDelivery, Invariant, BatchIsJournal
  <2> QED
    BY <2>2, <2>3, <2>4 DEF Invariant
<1>3. CASE TakeAck
  <2>1. task = "sending" /\ delivered + 1 \in 1 .. Len(batch)
    BY <1>3, CurrentIsRead DEF TakeAck
  <2>2. TypeOK'
    BY <1>3, <2>1 DEF TakeAck, Invariant, TypeOK
  <2>3. JournalInOrder' /\ (orphans \subseteq Known)' /\ RowsAreSingle'
    BY <1>3 DEF TakeAck, Invariant, JournalInOrder, RowsAreSingle, Known, Key
  <2>4. BatchIsJournal'
    BY <1>3, <2>1 DEF TakeAck, Invariant, TypeOK, BatchIsJournal
  <2> QED
    BY <2>2, <2>3, <2>4 DEF Invariant
<1>4. CASE TakeRefusal
  BY <1>4, BreakKeeps DEF TakeRefusal, Invariant
<1>5. CASE LoseCall
  BY <1>5, BreakKeeps, GaveUpKnown DEF LoseCall
<1>6. CASE Trim
  BY <1>6, TrimKeeps
<1>7. CASE Write \/ \E w \in Reports : WriteOrphan(w)
  BY <1>7, StoreKeeps
<1>8. CASE Crash
  BY <1>8, DieKeeps DEF Crash
<1>9. CASE CrashInPush
  BY <1>9, CrashInPushMakes, DieKeeps DEF CrashInPush
<1>10. CASE Submit \/ Accept
  <2>1. TypeOK' /\ BatchIsJournal'
    BY <1>10 DEF Submit, Accept, Invariant, TypeOK, BatchIsJournal
  <2> QED
    BY <1>10, <2>1 DEF Submit, Accept, Invariant, JournalInOrder, RowsAreSingle, Known, Key
<1>11. CASE Restart \/ StopEmpty
  <2>1. task = "idle"
    BY <1>11 DEF Restart, StopEmpty, Invariant, TypeOK, BatchIsJournal
  <2>2. clock + Period \in Nat
    BY PeriodAssumption, BoundAssumption DEF Invariant, TypeOK
  <2>3. TypeOK'
    BY <1>11, <2>2 DEF Restart, StopEmpty, Invariant, TypeOK
  <2>4. BatchIsJournal'
    BY <1>11, <2>1 DEF Restart, StopEmpty, Invariant, BatchIsJournal
  <2> QED
    BY <1>11, <2>3, <2>4 DEF Restart, StopEmpty, Invariant, JournalInOrder, RowsAreSingle, Known, Key
<1>12. CASE Tick \/ StepBack \/ SetSuspension
  <2>1. clock' \in 0 .. MaxClock /\ nextClose' \in Nat
    BY <1>12, BoundAssumption DEF Tick, StepBack, SetSuspension, Invariant, TypeOK
  <2>2. TypeOK'
    BY <1>12, <2>1 DEF Tick, StepBack, SetSuspension, Invariant, TypeOK
  <2> QED
    BY <1>12, <2>2 DEF Tick, StepBack, SetSuspension, Invariant, BatchIsJournal, JournalInOrder,
                       RowsAreSingle, Known, Key
<1>13. CASE UNCHANGED vars
  BY <1>13 DEF vars, Invariant, TypeOK, BatchIsJournal, JournalInOrder, RowsAreSingle, Known, Key
<1> QED
  BY <1>1, <1>2, <1>3, <1>4, <1>5, <1>6, <1>7, <1>8, <1>9, <1>10, <1>11, <1>12, <1>13
     DEF Next, Agent, Server, Environment, Deliver

LEMMA InvariantHolds == Spec => []Invariant
BY InitHolds, StepKeeps, PTL DEF Spec

\* Every variable holds what it should, whatever is lost, torn or set back.
THEOREM TypesHold == Spec => []TypeOK
<1>1. Invariant => TypeOK
  BY DEF Invariant
<1> QED
  BY <1>1, InvariantHolds, PTL

\* However often a report is sent again, and although writes outlive their calls,
\* no window is stored twice: with every fault, and a clock that is set back.
THEOREM RowsStaySingle == Spec => []OneRowPerWindow
<1>1. Invariant => OneRowPerWindow
  <2> SUFFICES ASSUME Invariant, NEW w \in Known
               PROVE  /\ rows[w] <= 1
                      /\ \A v \in Known : v # w /\ Stored(v) /\ Stored(w) => Key(v) # Key(w)
    BY DEF OneRowPerWindow, Known
  <2>1. Known \subseteq Reports /\ rows \in [Reports -> Nat]
    BY InvariantTypes DEF Invariant, TypeOK
  <2> QED
    BY <2>1 DEF Invariant, RowsAreSingle, Stored
<1> QED
  BY <1>1, InvariantHolds, PTL

-----------------------------------------------------------------------------
(* What holds besides as long as the clock is not set back: then windows do  *)
(* not overlap, and no report is acknowledged because another has its key.  *)

WindowsFollow ==
    /\ windowStart <= clock
    /\ \A w \in Known :
           /\ built[w].end <= clock
           /\ agent # "down" => built[w].end <= windowStart
           /\ rows[w] > 0 => Storable(w)
    /\ \A v, w \in Known : v < w => built[v].end <= built[w].start

AckedAreStored ==
    /\ \A i \in 1 .. delivered : Stored(batch[i])
    /\ rpc = "acked" => Stored(Current)

\* A write the node gave up on is of a report older than all that still wait.
OlderAreStored ==
    \A o \in orphans, v \in In(Readable(journal)) : v < o => Stored(v)

Settled == WindowsFollow /\ AckedAreStored /\ OlderAreStored

LEMMA SecondMonotone ==
    ASSUME NEW a \in Nat, NEW b \in Nat, a <= b
    PROVE  Second(a) \in Nat /\ Second(a) <= Second(b)
<1> DEFINE d == 2 * TicksPerSecond
           x == 2 * a + TicksPerSecond
           y == 2 * b + TicksPerSecond
<1>1. d \in Nat /\ d > 0 /\ x \in Nat /\ y \in Nat /\ x <= y
  BY PeriodAssumption
<1>2. Second(a) = x \div d /\ Second(b) = y \div d
  BY DEF Second
<1> HIDE DEF d, x, y
<1>3. x \div d \in Nat /\ y \div d \in Nat /\ x \div d <= y \div d
  BY <1>1
<1> QED
  BY <1>2, <1>3

\* A key that is taken is taken by the report itself.
LEMMA KeysAreOwn ==
    ASSUME Invariant, WindowsFollow, NEW w \in Known, Storable(w), KeyTaken(w)
    PROVE  Stored(w)
<1>1. PICK v \in Known : rows[v] > 0 /\ Key(v) = Key(w)
  BY DEF KeyTaken, Known
<1>2. Storable(v) /\ rows[v] = 1
  BY <1>1, InvariantTypes DEF WindowsFollow, Invariant, RowsAreSingle
<1>3. \A u \in Known : built[u].start \in Nat /\ built[u].end \in Nat
  BY InvariantTypes, BoundAssumption DEF Window
<1>4. \A t, u \in Known : t < u /\ Storable(t) => Key(t) # Key(u)
  <2> SUFFICES ASSUME NEW t \in Known, NEW u \in Known, t < u, Storable(t)
               PROVE  Key(t) < Key(u) /\ Key(t) \in Nat /\ Key(u) \in Nat
    OBVIOUS
  <2>1. Second(built[t].end) <= Second(built[u].start) /\ Second(built[t].end) \in Nat
    BY <1>3, SecondMonotone DEF WindowsFollow
  <2>2. Second(built[u].start) \in Nat /\ Second(built[t].start) \in Nat
    BY <1>3, SecondMonotone
  <2> QED
    BY <2>1, <2>2 DEF Storable, Key
<1>5. v = w
  BY <1>1, <1>2, <1>4 DEF Known
<1> QED
  BY <1>2, <1>5 DEF Stored

LEMMA StoreStores ==
    ASSUME Invariant, WindowsFollow, NEW w \in Known, Store(w)
    PROVE  /\ \A v \in Reports : rows[v] > 0 => rows'[v] = rows[v]
           /\ \A v \in Reports : rows'[v] # rows[v] => v = w /\ rows[v] = 0 /\ rows'[v] = 1 /\ Storable(w)
           /\ Storable(w) => rows'[w] = 1
<1>1. Known \subseteq Reports /\ rows \in [Reports -> Nat]
  BY InvariantTypes DEF Invariant, TypeOK
<1>2. CASE Storable(w) /\ ~KeyTaken(w)
  <2>1. rows' = [rows EXCEPT ![w] = @ + 1] /\ ~ (rows[w] > 0)
    BY <1>2 DEF Store, KeyTaken, Known
  <2>2. rows[w] = 0
    BY <1>1, <2>1
  <2> QED
    BY <1>1, <1>2, <2>1, <2>2
<1>3. CASE ~ (Storable(w) /\ ~KeyTaken(w))
  <2>1. rows' = rows
    BY <1>3 DEF Store
  <2> QED
    BY <1>3, <2>1, KeysAreOwn DEF Stored
<1> QED
  BY <1>2, <1>3

LEMMA InitSettled == Init => Settled
BY DEF Init, Settled, WindowsFollow, AckedAreStored, OlderAreStored, Known

\* The batch is in the order the reports were built in.
LEMMA BatchInOrder ==
    ASSUME Invariant, rpc # "none"
    PROVE  \A v \in In(Readable(journal)) : v < Current => \E i \in 1 .. delivered : v = batch[i]
<1>1. batch = Readable(journal) /\ delivered + 1 \in 1 .. Len(batch) /\ delivered \in Nat
  BY CurrentIsRead DEF Invariant, TypeOK
<1>2. /\ batch \in Seq(Nat) /\ Len(batch) <= Len(journal)
      /\ \A i \in 1 .. Len(batch) : batch[i] = journal[i] /\ journal[i] # Torn
  BY <1>1, InvariantTypes, ReadableType
<1>3. ASSUME NEW i \in 1 .. Len(batch), NEW k \in 1 .. Len(batch), i < k
      PROVE  batch[i] < batch[k]
  <2>1. journal \in Seq(Nat) /\ Ordered(journal)
    BY InvariantTypes DEF Invariant, JournalInOrder
  <2>2. i \in DOMAIN journal /\ k \in DOMAIN journal
    BY <1>2, <2>1
  <2>3. batch[i] = journal[i] /\ batch[k] = journal[k] /\ journal[k] # Torn
    BY <1>2, Zenon
  <2> QED
    BY <1>3, <2>1, <2>2, <2>3, Zenon DEF Ordered
<1> SUFFICES ASSUME NEW k \in 1 .. Len(batch), batch[k] < Current
             PROVE  k \in 1 .. delivered
  <2>1. DOMAIN batch = 1 .. Len(batch)
    BY <1>2
  <2> QED
    BY <1>1, <2>1, Zenon DEF In
<1>4. ~ (delivered + 1 <= k)
  BY <1>1, <1>2, <1>3 DEF Current
<1> QED
  BY <1>1, <1>4

LEMMA GaveUpSettled ==
    ASSUME Invariant, AckedAreStored, OlderAreStored, orphans' \in GaveUp \/ orphans' = orphans, rows' = rows,
           In(Readable(journal')) \subseteq In(Readable(journal)), rpc # "none"
    PROVE  OlderAreStored'
<1> SUFFICES ASSUME NEW o \in orphans', NEW v \in In(Readable(journal)), v < o
             PROVE  Stored(v)
  BY DEF OlderAreStored, Stored
<1>1. o \in orphans \/ o = Current
  BY DEF GaveUp
<1>2. CASE o \in orphans
  BY <1>2 DEF OlderAreStored
<1>3. CASE o = Current
  BY <1>3, BatchInOrder DEF AckedAreStored
<1> QED
  BY <1>1, <1>2, <1>3

LEMMA MakesSettled ==
    ASSUME Invariant, Settled, NEW w, Makes(w), agent # "down", task = "idle",
           clock' = clock, rows' = rows, orphans' = orphans,
           delivered' = 0, rpc' = "none",
           windowStart' = clock \/ (windowStart' = windowStart /\ agent' = "down")
    PROVE  Settled'
<1>1. /\ Known' = Known \cup {w} /\ w \notin Known /\ w = Len(built) + 1
      /\ \A v \in Known : built'[v] = built[v]
      /\ built'[w] = [start |-> windowStart, end |-> clock]
  BY MakesKeepsReports DEF Makes
<1>2. \A v \in Known : v < w /\ v \in Nat /\ built[v].end <= windowStart
  BY <1>1, InvariantTypes DEF Settled, WindowsFollow, Known
<1>3. rows[w] = 0
  BY <1>1, InvariantTypes DEF Makes, Invariant, TypeOK, RowsAreSingle
<1>4. WindowsFollow'
  <2>1. \A v \in Known : Storable(v)' = Storable(v)
    BY <1>1 DEF Storable, Key
  <2>2. windowStart' <= clock'
    BY DEF Settled, WindowsFollow, Invariant, TypeOK
  <2>3. ASSUME NEW v \in Known'
        PROVE  /\ built'[v].end <= clock'
               /\ agent' # "down" => built'[v].end <= windowStart'
               /\ rows'[v] > 0 => Storable(v)'
    <3>1. CASE v = w
      <4>1. clock \in Nat /\ built'[v].end = clock
        BY <1>1, <3>1, BoundAssumption DEF Invariant, TypeOK
      <4> QED
        BY <1>3, <3>1, <4>1
    <3>2. CASE v \in Known
      <4>1. /\ built[v].end <= clock /\ built[v].end <= windowStart
            /\ rows[v] > 0 => Storable(v)
        BY <3>2 DEF Settled, WindowsFollow
      <4> QED
        BY <1>1, <2>1, <3>2, <4>1
    <3> QED
      BY <1>1, <3>1, <3>2
  <2>4. ASSUME NEW u \in Known', NEW v \in Known', u < v
        PROVE  built'[u].end <= built'[v].start
    <3>1. CASE v = w
      BY <1>1, <1>2, <2>4, <3>1, InvariantTypes
    <3>2. CASE v \in Known
      <4>1. u \in Known
        BY <1>1, <1>2, <2>4, <3>2, InvariantTypes
      <4> QED
        BY <1>1, <2>4, <3>2, <4>1 DEF Settled, WindowsFollow
    <3> QED
      BY <1>1, <3>1, <3>2
  <2> QED
    BY <2>2, <2>3, <2>4 DEF WindowsFollow
<1>5. AckedAreStored'
  BY DEF AckedAreStored
<1>6. OlderAreStored'
  <2> SUFFICES ASSUME NEW o \in orphans, NEW v \in In(Readable(journal')), v < o
               PROVE  Stored(v)
    BY DEF OlderAreStored, Stored
  <2>1. o \in Known /\ o < w /\ o \in Nat
    BY <1>2 DEF Invariant
  <2>2. v # w
    BY <1>1, <2>1, InvariantTypes
  <2>3. v \in In(Readable(journal))
    BY <2>2 DEF Makes
  <2> QED
    BY <2>1, <2>3 DEF Settled, OlderAreStored
<1> QED
  BY <1>4, <1>5, <1>6 DEF Settled

\* A row more, and Stored stays true of those it is true of.
LEMMA StoreSettled ==
    ASSUME Invariant, Settled, Write \/ \E w \in Reports : WriteOrphan(w)
    PROVE  Settled'
<1> USE DEF agentVars, journalVars, deliverVars
<1>1. /\ UNCHANGED <<clock, agentVars, journalVars, deliverVars, suspended>>
      /\ orphans' \subseteq orphans
  BY DEF Write, WriteOrphan
<1>2. PICK w \in Known : Store(w) /\ (Write => w = Current)
  BY CurrentIsRead DEF Write, WriteOrphan, Invariant
<1>3. /\ \A v \in Reports : rows[v] > 0 => rows'[v] = rows[v]
      /\ \A v \in Reports : rows'[v] # rows[v] => v = w /\ rows[v] = 0 /\ rows'[v] = 1 /\ Storable(w)
      /\ Storable(w) => rows'[w] = 1
  BY <1>2, StoreStores DEF Settled
<1>4. \A v \in Reports : Stored(v) => Stored(v)'
  BY <1>3 DEF Stored
<1>5. WindowsFollow'
  <2>1. \A v \in Known : Storable(v)' = Storable(v)
    BY <1>1 DEF Storable, Key
  <2>2. \A v \in Known : rows'[v] > 0 => Storable(v)
    <3> SUFFICES ASSUME NEW v \in Known, rows'[v] > 0 PROVE Storable(v)
      OBVIOUS
    <3> QED
      BY <1>3, InvariantTypes DEF Settled, WindowsFollow
  <2> QED
    BY <1>1, <2>1, <2>2 DEF Settled, WindowsFollow, Known
<1>6. AckedAreStored'
  <2>1. \A i \in 1 .. delivered : batch[i] \in Reports
    BY DEF Invariant, TypeOK
  <2>2. \A i \in 1 .. delivered : Stored(batch[i])'
    BY <1>1, <1>4, <2>1 DEF Settled, AckedAreStored, Stored
  <2>3. rpc' = "acked" => Stored(Current)'
    <3>1. CASE Write
      BY <1>1, <1>2, <1>3, <3>1 DEF Write, Stored, Current
    <3>2. CASE \E x \in Reports : WriteOrphan(x)
      <4>1. rpc' = rpc
        BY <3>2 DEF WriteOrphan
      <4> QED
        BY <1>1, <1>4, <4>1, CurrentIsRead, InvariantTypes DEF Settled, AckedAreStored, Stored, Current
    <3> QED
      BY <3>1, <3>2
  <2> QED
    BY <1>1, <2>2, <2>3 DEF AckedAreStored, Stored
<1>7. OlderAreStored'
  <2>1. In(Readable(journal)) \subseteq Reports
    BY InvariantTypes, ReadableType DEF Invariant, JournalInOrder
  <2> QED
    BY <1>1, <1>4, <2>1 DEF Settled, OlderAreStored, Stored
<1> QED
  BY <1>5, <1>6, <1>7 DEF Settled

\* What is left of the batch when its first reports are gone.
LEMMA TrimReadable ==
    ASSUME Invariant, Trim
    PROVE  /\ In(Readable(journal')) \subseteq In(Readable(journal))
           /\ \A v \in In(Readable(journal)) :
                 v \in In(Readable(journal')) \/ \E i \in 1 .. delivered : v = batch[i]
<1>1. /\ batch = Readable(journal) /\ delivered \in 0 .. Len(batch)
  BY DEF Trim, Invariant, TypeOK, BatchIsJournal
<1>2. batch \in Seq(Nat) /\ In(batch) \subseteq In(journal) \ {Torn}
  BY <1>1, InvariantTypes, ReadableType
<1>3. CASE UNCHANGED journal
  BY <1>3
<1>4. CASE journal' = SubSeq(batch, delivered + 1, Len(batch))
  <2>1. /\ journal' \in Seq(Nat) /\ DOMAIN journal' = 1 .. Len(batch) - delivered
        /\ \A i \in 1 .. Len(batch) - delivered :
              journal'[i] = batch[delivered + i] /\ delivered + i \in 1 .. Len(batch)
    BY <1>1, <1>2, <1>4
  <2>2. In(journal') \subseteq In(batch)
    BY <1>2, <2>1 DEF In
  <2>3. Readable(journal') = journal'
    BY <1>2, <2>1, <2>2, ReadableType
  <2>4. ASSUME NEW k \in 1 .. Len(batch), ~ (k \in 1 .. delivered)
        PROVE  batch[k] \in In(journal')
    <3>1. k - delivered \in 1 .. Len(batch) - delivered /\ delivered + (k - delivered) = k
      BY <1>1, <1>2, <2>4
    <3> QED
      BY <2>1, <3>1 DEF In
  <2>5. \A v \in In(batch) : \E k \in 1 .. Len(batch) : v = batch[k]
    BY <1>2 DEF In
  <2> QED
    BY <1>1, <2>2, <2>3, <2>4, <2>5
<1> QED
  BY <1>3, <1>4 DEF Trim

LEMMA StepSettled ==
    ASSUME Invariant, Settled, [Next]_vars, "clock" \notin Faults
    PROVE  Settled'
<1> USE DEF agentVars, journalVars, deliverVars, serverVars
<1>1. ASSUME NEW sampled \in BOOLEAN, CloseWindow(sampled) \/ Stop(sampled) PROVE Settled'
  <2>1. Finish(sampled) /\ Idle
    BY <1>1 DEF CloseWindow, Stop
  <2>2. windowStart' = clock /\ (UNCHANGED journalVars \/ Makes(Len(built) + 1))
    BY <2>1, FinishMakes
  <2>3. /\ UNCHANGED <<clock, deliverVars, rpc, serverVars>>
        /\ agent = "up" /\ task = "idle" /\ delivered = 0 /\ rpc = "none"
    BY <1>1, <2>1 DEF CloseWindow, Stop, Idle, Invariant, BatchIsJournal
  <2>4. CASE UNCHANGED journalVars
    <3>1. \A w \in Known : Storable(w)' = Storable(w)
      BY <2>4 DEF Storable, Key
    <3>2. WindowsFollow'
      BY <2>2, <2>3, <2>4, <3>1 DEF Settled, WindowsFollow, Known, Invariant, TypeOK
    <3> QED
      BY <2>3, <2>4, <3>2 DEF Settled, AckedAreStored, OlderAreStored, Stored
  <2>5. CASE Makes(Len(built) + 1)
    BY <2>2, <2>3, <2>5, MakesSettled
  <2> QED
    BY <2>2, <2>4, <2>5
<1>2. CASE CrashInPush
  BY <1>2, CrashInPushMakes, MakesSettled DEF CrashInPush, Die, Idle, Invariant, BatchIsJournal
<1>3. CASE Write \/ \E w \in Reports : WriteOrphan(w)
  BY <1>3, StoreSettled
<1>4. ASSUME UNCHANGED <<clock, windowStart, built, rows>>, agent' = "down" \/ agent' = agent \/ agent # "down"
      PROVE  WindowsFollow'
  BY <1>4 DEF Settled, WindowsFollow, Known, Storable, Key
<1>5. CASE TakeRefusal \/ LoseCall
  <2>1. /\ Break /\ rpc # "none"
        /\ orphans' \in GaveUp \/ orphans' = orphans
        /\ clock' = clock /\ built' = built /\ rows' = rows /\ journal' = journal
        /\ agent # "down"
    BY <1>5, CurrentIsRead DEF TakeRefusal, LoseCall, Invariant, BatchIsJournal
  <2>2. OlderAreStored'
    <3>1. In(Readable(journal')) \subseteq In(Readable(journal))
      BY <2>1
    <3> QED
      BY <2>1, <3>1, GaveUpSettled DEF Settled
  <2>3. AckedAreStored'
    <3>1. CASE delivered = 0
      BY <2>1, <3>1 DEF AckedAreStored, Break, EndDelivery
    <3>2. CASE delivered # 0
      BY <2>1, <3>2 DEF Settled, AckedAreStored, Break, Stored
    <3> QED
      BY <3>1, <3>2
  <2>4. WindowsFollow'
    BY <1>4, <2>1 DEF Break, EndDelivery
  <2> QED
    BY <2>2, <2>3, <2>4 DEF Settled
<1>6. CASE Crash
  <2>1. /\ Die /\ UNCHANGED journalVars
    BY <1>6 DEF Crash
  <2>2. OlderAreStored'
    <3>1. CASE rpc = "none"
      BY <2>1, <3>1 DEF Die, Settled, OlderAreStored, Stored
    <3>2. CASE rpc # "none"
      BY <2>1, <3>2, GaveUpSettled DEF Die, Settled
    <3> QED
      BY <3>1, <3>2
  <2>3. AckedAreStored'
    BY <2>1 DEF AckedAreStored, Die
  <2>4. WindowsFollow'
    BY <1>4, <2>1 DEF Die
  <2> QED
    BY <2>2, <2>3, <2>4 DEF Settled
<1>7. CASE Trim
  <2>1. WindowsFollow'
    BY <1>4, <1>7 DEF Trim, EndDelivery, Invariant, BatchIsJournal
  <2>2. AckedAreStored'
    BY <1>7 DEF Trim, EndDelivery, AckedAreStored, Invariant, BatchIsJournal
  <2>3. OlderAreStored'
    BY <1>7, TrimReadable DEF Trim, Settled, OlderAreStored, Stored
  <2> QED
    BY <2>1, <2>2, <2>3 DEF Settled
<1>8. CASE TakeAck
  <2>1. WindowsFollow'
    BY <1>4, <1>8 DEF TakeAck
  <2>2. AckedAreStored'
    <3>1. /\ delivered \in Nat /\ delivered' = delivered + 1 /\ rpc' = "none"
          /\ batch' = batch /\ rows' = rows
          /\ \A i \in 1 .. delivered : Stored(batch[i])
          /\ Stored(batch[delivered + 1])
      BY <1>8 DEF TakeAck, Settled, AckedAreStored, Current, Invariant, TypeOK
    <3>2. \A i \in 1 .. delivered' : Stored(batch[i])
      BY <3>1
    <3> QED
      BY <3>1, <3>2 DEF AckedAreStored, Stored
  <2> QED
    BY <1>8, <2>1, <2>2 DEF TakeAck, Settled, OlderAreStored, Stored
<1>9. CASE StartDelivery \/ Submit \/ Accept \/ SetSuspension \/ StopEmpty
  <2>1. WindowsFollow'
    BY <1>4, <1>9 DEF StartDelivery, Submit, Accept, SetSuspension, StopEmpty
  <2>2. AckedAreStored'
    <3>1. rows' = rows
      BY <1>9 DEF StartDelivery, Submit, Accept, SetSuspension, StopEmpty
    <3>2. \/ delivered' = 0 /\ rpc' = "none"
          \/ UNCHANGED deliverVars /\ (rpc' = rpc \/ rpc' # "acked")
      BY <1>9 DEF StartDelivery, Submit, Accept, SetSuspension, StopEmpty, Invariant, BatchIsJournal
    <3> QED
      BY <3>1, <3>2 DEF Settled, AckedAreStored, Stored, Current
  <2>3. OlderAreStored'
    BY <1>9 DEF StartDelivery, Submit, Accept, SetSuspension, StopEmpty, Settled, OlderAreStored, Stored
  <2> QED
    BY <2>1, <2>2, <2>3 DEF Settled
<1>10. CASE Restart \/ Tick
  <2>1. \A w \in Known : Storable(w)' = Storable(w) /\ Known' = Known
    BY <1>10 DEF Restart, Tick, Storable, Key, Known
  <2>2. \A w \in Known : built[w].end \in Nat
    BY InvariantTypes, BoundAssumption DEF Window
  <2>3. WindowsFollow'
    BY <1>10, <2>1, <2>2 DEF Restart, Tick, Settled, WindowsFollow, Invariant, TypeOK, Known
  <2> QED
    BY <1>10, <2>3 DEF Restart, Tick, Settled, AckedAreStored, OlderAreStored, Stored, Current
<1>11. CASE UNCHANGED vars
  <2>1. WindowsFollow'
    BY <1>4, <1>11 DEF vars
  <2> QED
    BY <1>11, <2>1 DEF vars, Settled, AckedAreStored, OlderAreStored, Stored, Current
<1>12. ~ StepBack
  BY DEF StepBack
<1> QED
  BY <1>1, <1>2, <1>3, <1>5, <1>6, <1>7, <1>8, <1>9, <1>10, <1>11, <1>12
     DEF Next, Agent, Server, Environment, Deliver

LEMMA SettledHolds == "clock" \notin Faults => (Spec => [](Invariant /\ Settled))
<1> SUFFICES ASSUME "clock" \notin Faults PROVE Spec => [](Invariant /\ Settled)
  OBVIOUS
<1>1. Init => Invariant /\ Settled
  BY InitHolds, InitSettled
<1>2. Invariant /\ Settled /\ [Next]_vars => (Invariant /\ Settled)'
  BY StepKeeps, StepSettled
<1> QED
  BY <1>1, <1>2, PTL DEF Spec

-----------------------------------------------------------------------------
(* What a step means for each report.                                       *)

Stays == UNCHANGED <<built, journal, rows, evicted, unwritten>>

\* A step makes a report, stores one, trims the journal, or does nothing to any.
LEMMA StepKinds ==
    ASSUME Invariant, [Next]_vars
    PROVE  \/ Makes(Len(built) + 1) /\ rows' = rows
           \/ \E w \in Known : Store(w) /\ UNCHANGED journalVars /\ (w \in orphans \/ (rpc # "none" /\ w = Current))
           \/ Trim /\ UNCHANGED <<built, rows, evicted, unwritten>>
           \/ Stays
<1> USE DEF agentVars, journalVars, deliverVars, serverVars
<1>1. ASSUME NEW sampled \in BOOLEAN, CloseWindow(sampled) \/ Stop(sampled)
      PROVE  (Makes(Len(built) + 1) /\ rows' = rows) \/ Stays
  <2>1. Finish(sampled) /\ rows' = rows
    BY <1>1 DEF CloseWindow, Stop
  <2> QED
    BY <2>1, FinishMakes DEF Stays
<1>2. CASE CrashInPush
  BY <1>2, CrashInPushMakes DEF CrashInPush, Die
<1>3. CASE Write
  <2>1. Current \in Known /\ Store(Current) /\ UNCHANGED journalVars /\ rpc # "none"
    BY <1>3, CurrentIsRead DEF Write
  <2> QED
    BY <2>1
<1>4. ASSUME NEW w \in Reports, WriteOrphan(w)
      PROVE  w \in Known /\ Store(w) /\ UNCHANGED journalVars /\ w \in orphans
  BY <1>4 DEF WriteOrphan, Invariant
<1>5. CASE Trim
  BY <1>5 DEF Trim
<1>6. CASE StartDelivery \/ Submit \/ TakeAck \/ TakeRefusal \/ StopEmpty \/ Restart
  BY <1>6 DEF Stays, StartDelivery, Submit, TakeAck, TakeRefusal, StopEmpty, Restart
<1>7. CASE Accept \/ LoseCall \/ Crash \/ Tick \/ StepBack \/ SetSuspension
  BY <1>7 DEF Stays, Accept, LoseCall, Crash, Die, Tick, StepBack, SetSuspension
<1>8. CASE UNCHANGED vars
  BY <1>8 DEF Stays, vars
<1> QED
  BY <1>1, <1>2, <1>3, <1>4, <1>5, <1>6, <1>7, <1>8 DEF Next, Agent, Server, Environment, Deliver

\* Nothing is lost but what is appended behind a torn record: unless the clock is
\* set back, which may give two windows one key.
THEOREM NothingIsLost ==
    ASSUME "clock" \notin Faults
    PROVE  Spec => NothingLost
<1> DEFINE OnlyBehindTorn ==
        \A w \in Reports : Lost(w)' => Lost(w) \/ (w > Len(built) /\ Torn \in In(journal))
             LastStays == \A w \in evicted' \ evicted : w <= Len(built) \/ Torn \in In(journal)
<1>1. Invariant /\ Settled /\ [Next]_vars => OnlyBehindTorn
  <2> SUFFICES ASSUME Invariant, Settled, [Next]_vars, NEW w \in Reports, Lost(w)', ~ Lost(w)
               PROVE  w > Len(built) /\ Torn \in In(journal)
    OBVIOUS
  <2>1. CASE Makes(Len(built) + 1) /\ rows' = rows
    <3>1. CASE w \in Known
      <4>1. Known' = Known \cup {Len(built) + 1}
        BY <2>1, MakesKeepsReports
      <4>2. ~ Stored(w) /\ w \in In(Readable(journal)) \cup evicted \cup unwritten
        BY <2>1, <3>1, InvariantTypes DEF Lost, Stored, Known
      <4> QED
        BY <2>1, <4>2 DEF Lost, Makes
    <3>2. CASE w \notin Known
      <4>1. w > Len(built) /\ w <= Len(built')
        BY <3>2, InvariantTypes, BoundAssumption DEF Lost, Known, Reports
      <4>2. w = Len(built) + 1
        BY <2>1, <4>1, MakesKeepsReports, InvariantTypes, BoundAssumption DEF Reports
      <4> QED
        BY <2>1, <4>1, <4>2 DEF Lost, Makes
    <3> QED
      BY <3>1, <3>2
  <2>2. ASSUME NEW v \in Known, Store(v), UNCHANGED journalVars PROVE FALSE
    <3>1. rows[w] = 1 => rows'[w] = 1
      BY <2>2, StoreStores DEF Settled
    <3> QED
      BY <2>2, <3>1 DEF Lost, Stored, journalVars
  <2>3. CASE Trim /\ UNCHANGED <<built, rows, evicted, unwritten>>
    <3>1. w \in In(Readable(journal)) /\ ~ Stored(w)
      BY <2>3 DEF Lost, Stored
    <3>2. PICK i \in 1 .. delivered : w = batch[i]
      BY <2>3, <3>1, TrimReadable DEF Lost
    <3> QED
      BY <3>1, <3>2 DEF Settled, AckedAreStored
  <2>4. CASE Stays
    BY <2>4 DEF Stays, Lost, Stored
  <2> QED
    BY <2>1, <2>2, <2>3, <2>4, StepKinds
<1>2. Invariant /\ [Next]_vars => LastStays
  <2> SUFFICES ASSUME Invariant, [Next]_vars, NEW w \in evicted' \ evicted
               PROVE  w <= Len(built) \/ Torn \in In(journal)
    OBVIOUS
  <2>1. CASE Makes(Len(built) + 1)
    BY <2>1, InvariantTypes DEF Makes, Known
  <2>2. CASE evicted' = evicted
    BY <2>2
  <2> QED
    BY <2>1, <2>2, StepKinds DEF journalVars, Stays
<1>3. Invariant /\ Settled /\ [Next]_vars => [OnlyBehindTorn /\ LastStays]_vars
  BY <1>1, <1>2
<1> QED
  BY <1>3, SettledHolds, PTL DEF Spec, NothingLost

-----------------------------------------------------------------------------
(* Delivery implements ReportChannel.                                       *)

Fates == [w \in Reports |-> Fate(w)]

LEMMA FateIs ==
    ASSUME Len(built) \in Nat, NEW w \in Reports
    PROVE  /\ w \notin Known => Fate(w) = "unmade"
           /\ w \in Known /\ rows[w] > 0 => Fate(w) = "stored"
           /\ w \in Known /\ ~ (rows[w] > 0) /\ w \in In(Readable(journal)) => Fate(w) = "waiting"
           /\ w \in Known /\ ~ (rows[w] > 0) /\ w \notin In(Readable(journal)) => Fate(w) = "gone"
<1>1. (w \in Known <=> w <= Len(built)) /\ (w \notin Known <=> w > Len(built))
  BY BoundAssumption DEF Reports, Known
<1> QED
  BY <1>1 DEF Fate

LEMMA FateBecomes ==
    ASSUME Len(built') \in Nat, NEW w \in Reports
    PROVE  /\ w \notin Known' => Fate(w)' = "unmade"
           /\ w \in Known' /\ rows'[w] > 0 => Fate(w)' = "stored"
           /\ w \in Known' /\ ~ (rows'[w] > 0) /\ w \in In(Readable(journal')) => Fate(w)' = "waiting"
           /\ w \in Known' /\ ~ (rows'[w] > 0) /\ w \notin In(Readable(journal')) => Fate(w)' = "gone"
<1>1. (w \in Known' <=> w <= Len(built')) /\ (w \notin Known' <=> w > Len(built'))
  BY BoundAssumption DEF Reports, Known
<1> QED
  BY <1>1 DEF Fate

\* Those that wait are those that can be read and have no row.
LEMMA WaitingIs ==
    ASSUME Invariant
    PROVE  {w \in Reports : Fate(w) = "waiting"} = {w \in In(Readable(journal)) : ~ (rows[w] > 0)}
<1>1. In(Readable(journal)) \subseteq Known /\ Known \subseteq Reports
  BY InvariantTypes, ReadableType DEF Invariant, JournalInOrder
<1>2. ASSUME NEW w \in Reports
      PROVE  Fate(w) = "waiting" <=> w \in In(Readable(journal)) /\ ~ (rows[w] > 0)
  BY <1>1, InvariantTypes, FateIs
<1> QED
  BY <1>1, <1>2

LEMMA MakesMakes ==
    ASSUME Invariant, NEW w, Makes(w), rows' = rows
    PROVE  Channel!ChannelNext
<1> DEFINE waiting == {v \in Reports : Fate(v) = "waiting"}
           dropped == {v \in waiting : v \notin In(Readable(journal'))}
<1>1. /\ w \in Reports /\ w \notin Known /\ Known' = Known \cup {w} /\ w = Len(built) + 1
      /\ Len(built) \in Nat /\ Len(built') \in Nat
  BY MakesKeepsReports, InvariantTypes DEF Makes
<1>2. waiting = {v \in In(Readable(journal)) : ~ (rows[v] > 0)}
  BY WaitingIs
<1>3. \A v \in waiting \ dropped : \A d \in dropped : d < v
  BY <1>2 DEF Makes
<1>4. Fates[w] = "unmade" /\ \A v \in 1 .. w - 1 : Fates[v] # "unmade"
  <2>1. \A v \in 1 .. w - 1 : v \in Known /\ v \in Reports
    BY <1>1, InvariantTypes DEF Known
  <2> QED
    BY <1>1, <2>1, FateIs DEF Fates
<1>5. Fates'[w] \in {"waiting", "gone"}
  <2>1. ~ (rows[w] > 0)
    BY <1>1 DEF Invariant, RowsAreSingle
  <2>2. Fate(w)' \in {"waiting", "gone"}
    <3>1. w \in Known' /\ ~ (rows'[w] > 0)
      BY <1>1, <2>1
    <3> QED
      BY <1>1, <3>1, FateBecomes
  <2> QED
    BY <1>1, <2>2 DEF Fates
<1>6. ASSUME NEW v \in Reports, v # w
      PROVE  Fate(v)' = IF v \in dropped THEN "gone" ELSE Fate(v)
  <2>1. v \in Known' <=> v \in Known
    BY <1>1, <1>6
  <2>2. v \in In(Readable(journal')) => v \in In(Readable(journal))
    BY <1>6 DEF Makes
  <2>3. v \in dropped <=> v \in In(Readable(journal)) /\ ~ (rows[v] > 0) /\ v \notin In(Readable(journal'))
    BY <1>2
  <2>4. v \in In(Readable(journal)) => v \in Known
    BY InvariantTypes, ReadableType DEF Invariant, JournalInOrder
  <2>5. /\ v \notin Known' => Fate(v)' = "unmade"
        /\ v \in Known' /\ rows'[v] > 0 => Fate(v)' = "stored"
        /\ v \in Known' /\ ~ (rows'[v] > 0) /\ v \in In(Readable(journal')) => Fate(v)' = "waiting"
        /\ v \in Known' /\ ~ (rows'[v] > 0) /\ v \notin In(Readable(journal')) => Fate(v)' = "gone"
    BY <1>1, FateBecomes
  <2> HIDE DEF dropped
  <2> QED
    BY <1>1, <2>1, <2>2, <2>3, <2>4, <2>5, FateIs
<1>7. Fates' = [v \in Reports |-> IF v = w THEN Fates'[w] ELSE IF v \in dropped THEN "gone" ELSE Fates[v]]
  BY <1>6 DEF Fates
<1>8. waiting = {v \in DOMAIN Fates : Fates[v] = "waiting"} /\ dropped \in SUBSET waiting /\ DOMAIN Fates = Reports
  BY DEF Fates
<1> HIDE DEF waiting, dropped
<1>9. \E now \in {"waiting", "gone"} :
         Fates' = [v \in DOMAIN Fates |-> IF v = w THEN now ELSE IF v \in dropped THEN "gone" ELSE Fates[v]]
  BY <1>5, <1>7, <1>8
<1> QED
  <2>1. Channel!Waiting = waiting
    BY <1>8 DEF Fates, Channel!Waiting
  <2>2. Channel!Make(w, dropped)
    BY <1>3, <1>4, <1>9, <2>1 DEF Fates, Channel!Make
  <2> QED
    BY <1>1, <1>8, <2>1, <2>2 DEF Fates, Channel!ChannelNext

LEMMA StoreTakes ==
    ASSUME Invariant, Settled, UNCHANGED journalVars, NEW w \in Known, Store(w),
           w \in orphans \/ (rpc # "none" /\ w = Current)
    PROVE  Channel!ChannelNext \/ Fates' = Fates
<1> USE DEF journalVars
<1>1. /\ Known \subseteq Reports /\ Known' = Known
      /\ \A v \in Known : v \in Nat
      /\ Len(built) \in Nat /\ Len(built') \in Nat
  BY InvariantTypes DEF Known
<1>2. /\ \A v \in Reports : rows[v] > 0 => rows'[v] = rows[v]
      /\ \A v \in Reports : rows'[v] # rows[v] => v = w /\ rows[v] = 0 /\ rows'[v] = 1
  BY StoreStores DEF Settled
<1>3. ASSUME NEW v \in Reports, rows'[v] = rows[v] PROVE Fate(v)' = Fate(v)
  BY <1>3 DEF Fate
<1>4. CASE rows'[w] = rows[w]
  <2>1. \A v \in Reports : rows'[v] = rows[v]
    BY <1>2, <1>4
  <2> QED
    BY <1>3, <2>1 DEF Fates
<1>5. CASE rows'[w] # rows[w]
  <2>1. rows[w] = 0 /\ rows'[w] = 1
    BY <1>1, <1>2, <1>5
  <2>2. Fate(w) \in {"waiting", "gone"}
    BY <1>1, <2>1, FateIs
  <2>3. Fate(w)' = "stored"
    BY <1>1, <2>1, FateBecomes
  <2>4. Fates' = [Fates EXCEPT ![w] = "stored"]
    BY <1>1, <1>2, <1>3, <2>3 DEF Fates
  <2>5. \A v \in {v \in Reports : Fate(v) = "waiting"} : v >= w
    <3> SUFFICES ASSUME NEW v \in In(Readable(journal)), ~ (rows[v] > 0) PROVE ~ (v < w)
      BY <1>1, WaitingIs, InvariantTypes, BoundAssumption DEF Reports
    <3>1. CASE w \in orphans
      BY <3>1 DEF Settled, OlderAreStored, Stored
    <3>2. CASE rpc # "none" /\ w = Current
      BY <3>2, BatchInOrder DEF Settled, AckedAreStored, Stored
    <3> QED
      BY <3>1, <3>2
  <2> QED
    BY <1>1, <2>2, <2>4, <2>5 DEF Fates, Channel!ChannelNext, Channel!Take, Channel!Waiting
<1> QED
  BY <1>4, <1>5

LEMMA TrimStutters ==
    ASSUME Invariant, Settled, Trim, UNCHANGED <<built, rows, evicted, unwritten>>
    PROVE  Fates' = Fates
<1> SUFFICES ASSUME NEW w \in Reports PROVE Fate(w)' = Fate(w)
  BY DEF Fates
<1>1. CASE w \in In(Readable(journal)) <=> w \in In(Readable(journal'))
  BY <1>1 DEF Fate
<1>2. CASE \E i \in 1 .. delivered : w = batch[i]
  BY <1>2 DEF Fate, Settled, AckedAreStored, Stored
<1> QED
  BY <1>1, <1>2, TrimReadable

\* Journal, calls and handler together are a channel that takes each report once
\* and in the order they were made: unless the clock is set back.
THEOREM ImplementsReportChannel ==
    ASSUME "clock" \notin Faults
    PROVE  Spec => ReportsLandInOrder
<1>1. Init => Channel!ChannelInit
  <2> SUFFICES ASSUME Init PROVE Fates = [w \in 1 .. MaxReports |-> "unmade"]
    BY DEF Channel!ChannelInit, Fates
  <2>1. ASSUME NEW w \in Reports PROVE Fate(w) = "unmade"
    <3>1. Len(built) \in Nat /\ w \notin Known
      BY DEF Init, Known
    <3> QED
      BY <3>1, FateIs
  <2> QED
    BY <2>1 DEF Fates, Reports
<1>2. Invariant /\ Settled /\ [Next]_vars => [Channel!ChannelNext]_Fates
  <2> SUFFICES ASSUME Invariant, Settled, [Next]_vars PROVE Channel!ChannelNext \/ Fates' = Fates
    OBVIOUS
  <2>1. CASE Stays
    BY <2>1 DEF Stays, Fates, Fate
  <2> QED
    BY <2>1, StepKinds, MakesMakes, StoreTakes, TrimStutters
<1>3. Invariant /\ Settled /\ [Next]_vars => [Channel!ChannelNext]_([w \in Reports |-> Fate(w)])
  BY <1>2 DEF Fates
<1> QED
  BY <1>1, <1>3, SettledHolds, PTL DEF Spec, ReportsLandInOrder, Channel!ChannelSpec

=============================================================================
