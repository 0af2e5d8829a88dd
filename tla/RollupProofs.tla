---------------------------- MODULE RollupProofs ----------------------------
(***************************************************************************)
(* Theorems about Rollup, for any length of a day and of a week, any       *)
(* retention that RetentionAssumption allows, any number of series and     *)
(* windows, and with every fault allowed.                                  *)
(***************************************************************************)
EXTENDS Rollup, WellFoundedInduction, TLAPS

-----------------------------------------------------------------------------
(* Arithmetic: multiples of S, and least elements.                          *)

LEMMA LeastNumber ==
    ASSUME NEW T \in SUBSET Nat, T # {}
    PROVE  \E n \in T : \A m \in T : n <= m
<1> DEFINE less == {p \in Nat \X Nat : p[1] < p[2]}
<1>1. IsWellFoundedOn(less, Nat)
  BY NatLessThanWellFounded DEF OpToRel
<1>2. PICK n \in T : \A m \in T : ~ (<<m, n>> \in less)
  <2> HIDE DEF less
  <2> QED
    BY <1>1, WFMin
<1>3. ASSUME NEW m \in T PROVE n <= m
  <2>1. n \in Nat /\ m \in Nat /\ <<m, n>> \notin less
    BY <1>2
  <2>2. ~ (m < n)
    BY <2>1
  <2> QED
    BY <2>1, <2>2
<1> QED
  BY <1>3

LEMMA LessTimes ==
    ASSUME NEW k \in Int, NEW j \in Int, NEW S \in Nat \ {0}, k < j
    PROVE  k * S + S <= j * S
  OBVIOUS

LEMMA Multiple == ASSUME NEW q \in Int, NEW S \in Nat \ {0} PROVE (q * S) % S = 0
  OBVIOUS

LEMMA Division ==
    ASSUME NEW a \in Nat, NEW S \in Nat \ {0}
    PROVE  /\ a % S \in 0 .. S - 1
           /\ a - (a % S) \in Nat
           /\ (a - (a % S)) % S = 0
<1>1. a % S \in 0 .. S - 1
  OBVIOUS
<1>2. a = (S * (a \div S)) + (a % S) /\ a \div S \in Int
  OBVIOUS
<1>3. a \div S >= 0
  <2> DEFINE q == a \div S
  <2>1. q \in Int /\ a = (q * S) + (a % S) /\ a % S < S
    BY <1>1, <1>2
  <2> HIDE DEF q
  <2> SUFFICES ASSUME q < 0 PROVE FALSE
    BY <2>1 DEF q
  <2>2. q * S + S <= 0 * S
    BY <2>1, LessTimes
  <2> QED
    BY <2>1, <2>2
<1>4. S * (a \div S) >= 0
  BY <1>2, <1>3
<1>5. (a - (a % S)) % S = 0
  <2>1. PICK q \in Int : a - (a % S) = q * S
    BY <1>1, <1>2
  <2> QED
    BY <2>1, Multiple
<1> QED
  BY <1>1, <1>2, <1>4, <1>5

LEMMA Quotient ==
    ASSUME NEW a \in Int, NEW S \in Nat \ {0}, a % S = 0
    PROVE  \E q \in Int : a = q * S
<1>1. a = (S * (a \div S)) + (a % S) /\ a \div S \in Int
  OBVIOUS
<1> QED
  BY <1>1

LEMMA MultiplesAdd ==
    ASSUME NEW a \in Int, NEW k \in Int, NEW S \in Nat \ {0}, a % S = 0
    PROVE  (a + k * S) % S = 0
<1>1. PICK q \in Int : a = q * S
  BY Quotient
<1>2. a + k * S = (q + k) * S
  BY <1>1
<1>3. ((q + k) * S) % S = 0
  BY Multiple
<1> QED
  BY <1>2, <1>3

LEMMA MultiplesBetween ==
    ASSUME NEW a \in Nat, NEW b \in Nat, NEW S \in Nat \ {0}, a % S = 0, b % S = 0, a <= b
    PROVE  \E k \in Nat : b = a + k * S
<1>1. PICK q \in Int : a = q * S
  BY Quotient
<1>2. PICK p \in Int : b = p * S
  BY Quotient
<1>3. p >= q
  <2> SUFFICES ASSUME p < q PROVE FALSE
    BY <1>1, <1>2
  <2>1. p * S + S <= q * S
    BY LessTimes
  <2> QED
    BY <2>1, <1>1, <1>2
<1>4. b = a + (p - q) * S /\ p - q \in Nat
  BY <1>1, <1>2, <1>3
<1> QED
  BY <1>4

LEMMA MultiplesApart ==
    ASSUME NEW a \in Nat, NEW b \in Nat, NEW S \in Nat \ {0}, a % S = 0, b % S = 0, a < b
    PROVE  a + S <= b
<1>1. PICK k \in Nat : b = a + k * S
  <2>1. a <= b
    OBVIOUS
  <2> QED
    BY <2>1, MultiplesBetween
<1>2. k # 0
  BY <1>1
<1>3. k = 1 \/ 1 < k
  BY <1>2
<1>4. CASE 1 < k
  <2>1. 1 * S + S <= k * S
    BY <1>4, LessTimes
  <2> QED
    BY <1>1, <2>1
<1> QED
  BY <1>1, <1>3, <1>4

-----------------------------------------------------------------------------
(* Buckets: every hour is in one, and they follow each other without a gap.  *)

LEMMA SpanType ==
    ASSUME NEW res \in Resolutions
    PROVE  Span(res) \in Nat \ {0} /\ Span(res) <= Day * DaysInWeek
<1>1. Day \in Nat \ {0} /\ DaysInWeek \in Nat \ {0}
  BY RetentionAssumption
<1>2. Day * DaysInWeek \in Nat /\ Day <= Day * DaysInWeek
  <2>1. CASE DaysInWeek = 1
    BY <1>1, <2>1
  <2>2. CASE 1 < DaysInWeek
    <3>1. 1 * Day + Day <= DaysInWeek * Day
      BY <1>1, <2>2, LessTimes
    <3> QED
      BY <1>1, <3>1
  <2> QED
    BY <1>1, <2>1, <2>2
<1>3. 1 <= Day
  BY <1>1
<1> DEFINE w == Day * DaysInWeek
<1>4. w \in Nat \ {0} /\ Day <= w /\ 1 <= w
  BY <1>1, <1>2, <1>3
<1> HIDE DEF w
<1>5. Span(res) = 1 \/ Span(res) = Day \/ Span(res) = w
  BY DEF Span, Resolutions, w
<1> QED
  BY <1>1, <1>4, <1>5 DEF w

\* No bucket is longer than raw windows are kept.
LEMMA SpanFits ==
    ASSUME NEW res \in Resolutions
    PROVE  Day * RawDays \in Nat /\ Span(res) <= Day * RawDays
<1> DEFINE week == Day * DaysInWeek
           days == Day * RawDays
<1>1. Day \in Nat \ {0} /\ DaysInWeek \in Nat \ {0} /\ RawDays \in Nat \ {0}
      /\ DaysInWeek <= RawDays
  BY RetentionAssumption
<1>2. week \in Nat /\ days \in Nat
  BY <1>1
<1>3. week <= days
  <2>1. CASE DaysInWeek = RawDays
    BY <1>2, <2>1
  <2>2. CASE DaysInWeek < RawDays
    <3>1. DaysInWeek * Day + Day <= RawDays * Day
      BY <1>1, <2>2, LessTimes
    <3>2. DaysInWeek * Day = week /\ RawDays * Day = days
      BY <1>1
    <3> HIDE DEF week, days
    <3> QED
      BY <1>1, <1>2, <3>1, <3>2
  <2> QED
    BY <1>1, <2>1, <2>2
<1>4. Span(res) \in Nat /\ Span(res) <= week
  BY SpanType
<1> HIDE DEF week, days
<1>5. Span(res) <= days
  BY <1>2, <1>3, <1>4
<1> QED
  BY <1>2, <1>5 DEF days

\* The start of a bucket.
Starts(res, b) == b % Span(res) = 0

LEMMA BucketFacts ==
    ASSUME NEW res \in Resolutions, NEW at \in Nat
    PROVE  /\ BucketStart(res, at) \in Nat /\ Starts(res, BucketStart(res, at))
           /\ BucketStart(res, at) <= at /\ at < BucketEnd(res, BucketStart(res, at))
<1> DEFINE S == Span(res)
<1>1. S \in Nat \ {0}
  BY SpanType
<1> HIDE DEF S
<1>2. at % S \in 0 .. S - 1 /\ at - (at % S) \in Nat /\ (at - (at % S)) % S = 0
  BY <1>1, Division
<1>3. at - (at % S) <= at /\ at < (at - (at % S)) + S
  BY <1>1, <1>2
<1> QED
  BY <1>2, <1>3 DEF BucketStart, BucketEnd, Starts, S

LEMMA BucketsApart ==
    ASSUME NEW res \in Resolutions, NEW a \in Nat, NEW b \in Nat,
           Starts(res, a), Starts(res, b), a < b
    PROVE  BucketEnd(res, a) <= b
  BY SpanType, MultiplesApart DEF Starts, BucketEnd

LEMMA BucketOf ==
    ASSUME NEW res \in Resolutions, NEW at \in Nat, NEW b \in Nat,
           Starts(res, b), b <= at, at < BucketEnd(res, b)
    PROVE  BucketStart(res, at) = b
<1> DEFINE a == BucketStart(res, at)
<1>1. a \in Nat /\ Starts(res, a) /\ a <= at /\ at < BucketEnd(res, a)
  BY BucketFacts
<1> HIDE DEF a
<1>2. ~ (a < b)
  <2> SUFFICES ASSUME a < b PROVE FALSE
    OBVIOUS
  <2>1. BucketEnd(res, a) <= b
    BY <1>1, BucketsApart
  <2> QED
    BY <1>1, <2>1, SpanType DEF BucketEnd
<1>3. ~ (b < a)
  <2> SUFFICES ASSUME b < a PROVE FALSE
    OBVIOUS
  <2>1. BucketEnd(res, b) <= a
    BY <1>1, BucketsApart
  <2> QED
    BY <1>1, <2>1, SpanType DEF BucketEnd
<1>4. a = b
  BY <1>1, <1>2, <1>3
<1> QED
  BY <1>4 DEF a

LEMMA NextBucket ==
    ASSUME NEW res \in Resolutions, NEW b \in Nat, Starts(res, b)
    PROVE  BucketEnd(res, b) \in Nat /\ Starts(res, BucketEnd(res, b)) /\ b < BucketEnd(res, b)
<1> DEFINE S == Span(res)
<1>1. S \in Nat \ {0}
  BY SpanType
<1> HIDE DEF S
<1>2. b % S = 0
  BY DEF Starts, S
<1>3. (b + S) % S = 0
  <2>0. b \in Int
    OBVIOUS
  <2>1. PICK q \in Int : b = q * S
    BY <2>0, <1>1, <1>2, Quotient
  <2>2. b + S = (q + 1) * S /\ q + 1 \in Int
    BY <1>1, <2>1
  <2> QED
    BY <1>1, <2>2, Multiple
<1>4. b + S \in Nat /\ b < b + S
  BY <1>1
<1> QED
  BY <1>3, <1>4 DEF Starts, BucketEnd, S

\* The bucket a run turns to next is one that was not built, and it passes over
\* no other.
LEMMA UnbuiltFacts ==
    ASSUME NEW res \in Resolutions, NEW from \in Nat, Starts(res, from),
           NEW stored \in SUBSET Nat, \A b \in stored : b < MaxNow, MaxNow \in Nat
    PROVE  /\ Unbuilt(res, from, stored) \in Nat
           /\ Starts(res, Unbuilt(res, from, stored))
           /\ from <= Unbuilt(res, from, stored)
           /\ \A b \in Nat : Starts(res, b) /\ from <= b /\ b < Unbuilt(res, from, stored)
                => b \in stored
<1> DEFINE S == Span(res)
           T == {from + k * S : k \in 0 .. MaxNow} \ stored
<1>1. S \in Nat \ {0}
  BY SpanType
<1> HIDE DEF S
<1>2. \A k \in Nat : k * S \in Nat /\ k <= k * S
  <2> SUFFICES ASSUME NEW k \in Nat PROVE k * S \in Nat /\ k <= k * S
    OBVIOUS
  <2> QED
    BY <1>1
<1>3. T \in SUBSET Nat
  BY <1>2
<1>4. from + MaxNow * S \in T
  BY <1>2
<1>5. PICK n \in T : \A m \in T : n <= m
  BY <1>3, <1>4, LeastNumber
<1> DEFINE c == CHOOSE x \in T : \A y \in T : x <= y
<1>6. c \in T /\ \A y \in T : c <= y
  BY <1>5
<1>7. Unbuilt(res, from, stored) = c
  BY DEF Unbuilt, Min, S
<1> HIDE DEF c
<1>8. PICK k \in 0 .. MaxNow : c = from + k * S
  BY <1>6
<1>9. c % S = 0
  <2>1. from % S = 0 /\ from \in Int /\ k \in Int
    BY DEF Starts, S
  <2>2. (from + k * S) % S = 0
    BY <1>1, <2>1, MultiplesAdd
  <2> QED
    BY <1>8, <2>2
<1>10. ASSUME NEW b \in Nat, Starts(res, b), from <= b, b < c PROVE b \in stored
  <2>1. PICK j \in Nat : b = from + j * S
    BY <1>1, <1>10, MultiplesBetween DEF Starts, S
  <2>2. j < k
    <3> SUFFICES ASSUME k <= j PROVE FALSE
      BY <1>8, <2>1
    <3>1. CASE k = j
      BY <3>1, <1>8, <1>10, <2>1
    <3>2. CASE k < j
      <4>1. k * S + S <= j * S
        BY <3>2, <1>1, LessTimes
      <4> QED
        BY <4>1, <1>1, <1>2, <1>8, <1>10, <2>1
    <3> QED
      BY <3>1, <3>2, <2>1, <1>8
  <2>3. j \in 0 .. MaxNow
    BY <2>2
  <2>4. b \in T \/ b \in stored
    BY <2>1, <2>3
  <2>5. b \notin T
    BY <1>3, <1>6, <1>10
  <2> QED
    BY <2>4, <2>5
<1>11. c \in Nat /\ from <= c
  BY <1>2, <1>8
<1> QED
  BY <1>7, <1>9, <1>10, <1>11 DEF Starts, S

-----------------------------------------------------------------------------
(* Horizons: midnights, which only move forward.                            *)

HorizonOf(n, days) == IF n < Day * days THEN 0 ELSE BucketStart("daily", n) - Day * days

LEMMA HorizonFacts ==
    ASSUME NEW n \in Nat, NEW days \in Nat
    PROVE  /\ HorizonOf(n, days) \in Nat /\ Starts("daily", HorizonOf(n, days))
           /\ Day * days \in Nat
           /\ \A at \in Nat : at < HorizonOf(n, days) => at + Day * days < n
<1> DEFINE D == Day * days
           a == BucketStart("daily", n)
<1>1. Day \in Nat \ {0} /\ Span("daily") = Day
  BY RetentionAssumption DEF Span
<1>2. D \in Nat /\ D = days * Day
  BY <1>1
<1>3. a \in Nat /\ Starts("daily", a) /\ a <= n /\ n < a + Day
  BY <1>1, BucketFacts DEF Resolutions, BucketEnd
<1> HIDE DEF D, a
<1>4. PICK p \in Int : a = p * Day
  <2>1. a % Day = 0 /\ a \in Int
    BY <1>1, <1>3 DEF Starts
  <2> QED
    BY <1>1, <2>1, Quotient
<1>5. ASSUME ~ (n < D) PROVE a - D \in Nat /\ (a - D) % Day = 0
  <2>1. days <= p
    <3> SUFFICES ASSUME p < days PROVE FALSE
      BY <1>4
    <3>1. p * Day + Day <= days * Day
      BY <1>1, <1>4, LessTimes
    <3> QED
      BY <1>1, <1>2, <1>3, <1>4, <1>5, <3>1
  <2>2. a - D = (p - days) * Day /\ p - days \in Nat
    BY <1>1, <1>2, <1>4, <2>1
  <2>3. ((p - days) * Day) % Day = 0
    BY <1>1, <2>2, Multiple
  <2>4. (p - days) * Day \in Nat
    BY <1>1, <2>2
  <2> QED
    BY <2>2, <2>3, <2>4
<1>6. 0 % Day = 0
  BY <1>1
<1>7. HorizonOf(n, days) = IF n < D THEN 0 ELSE a - D
  BY DEF HorizonOf, D, a
<1>8. \A at \in Nat : at < HorizonOf(n, days) => at + D < n
  BY <1>2, <1>3, <1>7
<1> QED
  BY <1>1, <1>2, <1>5, <1>6, <1>7, <1>8 DEF Starts, D

LEMMA HorizonGrows ==
    ASSUME NEW m \in Nat, NEW n \in Nat, m <= n, NEW days \in Nat
    PROVE  HorizonOf(m, days) <= HorizonOf(n, days)
<1> DEFINE D == Day * days
           a == BucketStart("daily", m)
           b == BucketStart("daily", n)
<1>1. D \in Nat /\ HorizonOf(n, days) \in Nat
  BY HorizonFacts
<1>2. /\ a \in Nat /\ Starts("daily", a) /\ a <= m
      /\ b \in Nat /\ Starts("daily", b) /\ n < BucketEnd("daily", b)
  BY BucketFacts DEF Resolutions
<1>3. a <= b
  <2> SUFFICES ASSUME b < a PROVE FALSE
    BY <1>2
  <2>1. BucketEnd("daily", b) <= a
    BY <1>2, BucketsApart DEF Resolutions
  <2>2. BucketEnd("daily", b) \in Nat
    BY <1>2, NextBucket DEF Resolutions
  <2> QED
    BY <1>2, <2>1, <2>2
<1>4. HorizonOf(m, days) = (IF m < D THEN 0 ELSE a - D)
      /\ HorizonOf(n, days) = (IF n < D THEN 0 ELSE b - D)
  BY DEF HorizonOf
<1> HIDE DEF D, a, b
<1> QED
  BY <1>1, <1>2, <1>3, <1>4

-----------------------------------------------------------------------------
(* The inductive invariant.                                                 *)

Steps == {"read", "build", "prune", "drop", "trim"}

Lefts == {Order, <<"daily", "weekly">>, <<"weekly">>, << >>}

Running ==
    [at : Steps, left : Lefts, clock : Nat, cursor : Nat, stored : SUBSET Nat, built : Nat]

TypeOK ==
    /\ MaxNow \in Nat /\ now \in 0 .. MaxNow
    /\ delivered \subseteq [window : Window, on : Nat]
    /\ raw \subseteq Window /\ pending \subseteq Window
    /\ rollups \subseteq [series : Series, res : Resolutions, start : Nat, windows : SUBSET Window]
    /\ pass = None \/ pass \in Running

\* The bucket a delivered window belongs to.
Home(d, res) == BucketStart(res, d.window.at)

Expired(d, res) ==
    \/ res = "daily" /\ d.window.at < Horizon(DailyDays)
    \/ res = "hourly" /\ d.window.at < Horizon(HourlyDays)

\* A rollup sums the window up, or would be past its retention.
Safe(d, res) == SummedUp(d.window, res) \/ Expired(d, res)

\* Rows are of what was delivered; rollups are of buckets that are over.
RowsOfTheirBuckets ==
    /\ \A w \in raw : \E d \in delivered : d.window = w
    /\ \A d \in delivered : d.on <= now
    /\ \A r \in rollups :
          /\ Starts(r.res, r.start) /\ BucketEnd(r.res, r.start) <= now
          /\ \A w \in r.windows :
                /\ w.series = r.series /\ InBucket(w, r.res, r.start)
                /\ \E d \in delivered : d.window = w

RowsAreSingle ==
    \A r, q \in rollups :
        <<r.series, r.res, r.start>> = <<q.series, q.res, q.start>> => r = q

\* A bucket that has a row for any series has one for every series that was in time.
BucketsAreWhole ==
    \A r \in rollups : \A d \in delivered :
        Home(d, r.res) = r.start /\ InTime(d, r.res) => Safe(d, r.res)

NothingMissing ==
    \A d \in delivered, res \in Resolutions : InTime(d, res) => d.window \in raw \/ Safe(d, res)

\* Of the resolution the pass builds, the buckets before the cursor.
BuiltSoFar ==
    \A d \in delivered, res \in Resolutions :
        /\ InTime(d, res) /\ BucketEnd(res, Home(d, res)) <= pass.clock
        /\ res = Head(pass.left) /\ Home(d, res) < pass.cursor
        => Safe(d, res)

\* What this pass may take out of the measurements table is in the rollups.
Finished(res) ==
    \A d \in delivered :
        InTime(d, res) /\ d.window.at + Day * RawDays <= pass.clock => Safe(d, res)

Upcoming(left) == {left[i] : i \in DOMAIN left}

\* How far the pass has come: nothing is removed before every resolution has the
\* buckets of what will be.
PassKeepsUp ==
    pass # None =>
        /\ pass.clock <= now /\ now <= pass.clock + 1
        /\ pass.at \in {"read", "build"} <=> pass.left # << >>
        /\ \A res \in Resolutions : res \notin Upcoming(pass.left) => Finished(res)
        /\ pass.at = "build" =>
              /\ Starts(Head(pass.left), pass.cursor)
              /\ \A b \in pass.stored : \E r \in rollups : r.res = Head(pass.left) /\ r.start = b
              /\ BuiltSoFar
        /\ pass.at = "drop" => pass.cursor <= Horizon(RawDays)

Invariant ==
    /\ TypeOK /\ RowsOfTheirBuckets /\ RowsAreSingle
    /\ BucketsAreWhole /\ NothingMissing /\ PassKeepsUp

\* A run that stops at MAX_BUCKETS_PER_RUN has come as far as the windows that stay
\* in the measurements table.
RunsSuffice ==
    Building /\ pass.built = MaxBuckets => pass.clock < pass.cursor + Day * RawDays

-----------------------------------------------------------------------------
(* What the invariant says.                                                 *)

LEMMA HorizonsAre ==
    ASSUME Invariant
    PROVE  /\ now \in Nat
           /\ \A days : Horizon(days) = HorizonOf(now, days)
           /\ {RawDays, HourlyDays, DailyDays} \subseteq Nat
  BY RetentionAssumption DEF Invariant, TypeOK, Horizon, HorizonOf

LEMMA DeliveryFacts ==
    ASSUME Invariant, NEW d \in delivered, NEW res \in Resolutions
    PROVE  /\ d.window \in Window /\ d.window.at \in Nat /\ d.on \in Nat
           /\ Home(d, res) \in Nat /\ Starts(res, Home(d, res))
           /\ Home(d, res) <= d.window.at /\ d.window.at < BucketEnd(res, Home(d, res))
<1>1. d.window \in Window /\ d.window.at \in Nat /\ d.on \in Nat
  BY DEF Invariant, TypeOK, Window
<1> QED
  BY <1>1, BucketFacts DEF Home

\* A rollup that sums up a window is of its series and of its bucket.
LEMMA SummedAtHome ==
    ASSUME Invariant, NEW d \in delivered, NEW r \in rollups, d.window \in r.windows
    PROVE  r.series = d.window.series /\ r.start = Home(d, r.res)
<1>1. r.res \in Resolutions /\ r.start \in Nat
  BY DEF Invariant, TypeOK
<1>2. /\ Starts(r.res, r.start) /\ d.window.series = r.series
      /\ r.start <= d.window.at /\ d.window.at < BucketEnd(r.res, r.start)
  BY <1>1, DeliveryFacts DEF Invariant, RowsOfTheirBuckets, InBucket
<1> QED
  BY <1>1, <1>2, DeliveryFacts, BucketOf DEF Home

\* A rollup past its retention is of windows past it.
LEMMA NotRetained ==
    ASSUME Invariant, NEW d \in delivered, NEW r \in rollups, r.start = Home(d, r.res),
           ~Retained(r)
    PROVE  Expired(d, r.res)
<1>1. r.res \in Resolutions /\ r.start \in Nat
  BY DEF Invariant, TypeOK
<1>2. d.window.at \in Nat /\ d.window.at < BucketEnd(r.res, r.start) /\ Starts(r.res, r.start)
  BY <1>1, DeliveryFacts
<1>3. CASE r.res = "hourly"
  <2>1. BucketEnd(r.res, r.start) = r.start + 1
    BY <1>3 DEF BucketEnd, Span
  <2>2. Horizon(HourlyDays) \in Nat
    BY HorizonsAre, HorizonFacts
  <2>3. r.start < Horizon(HourlyDays)
    BY <1>1, <1>3, <2>2 DEF Retained
  <2>4. d.window.at < Horizon(HourlyDays)
    BY <1>1, <1>2, <2>1, <2>2, <2>3
  <2> QED
    BY <1>3, <2>4 DEF Expired
<1>4. CASE r.res = "daily"
  <2>1. /\ Horizon(DailyDays) \in Nat /\ Starts("daily", Horizon(DailyDays))
        /\ r.start < Horizon(DailyDays)
    BY <1>1, <1>4, HorizonsAre, HorizonFacts DEF Retained
  <2>2. BucketEnd("daily", r.start) <= Horizon(DailyDays)
    BY <1>1, <1>2, <1>4, <2>1, BucketsApart
  <2>3. BucketEnd("daily", r.start) \in Nat
    BY <1>1, <1>2, <1>4, NextBucket
  <2> QED
    BY <1>2, <1>4, <2>1, <2>2, <2>3 DEF Expired
<1>5. r.res # "weekly"
  BY DEF Retained
<1>6. r.res = "hourly" \/ r.res = "daily"
  BY <1>1, <1>5 DEF Resolutions
<1> QED
  BY <1>3, <1>4, <1>6

\* The other way round: a window in a rollup that is retained is not past it.
LEMMA RetainedNotExpired ==
    ASSUME Invariant, NEW d \in delivered, NEW r \in rollups, r.start = Home(d, r.res),
           Retained(r)
    PROVE  ~Expired(d, r.res)
<1>1. r.res \in Resolutions /\ r.start \in Nat
  BY DEF Invariant, TypeOK
<1>2. d.window.at \in Nat /\ r.start <= d.window.at
  BY <1>1, DeliveryFacts
<1>3. Horizon(HourlyDays) \in Nat /\ Horizon(DailyDays) \in Nat
  BY HorizonsAre, HorizonFacts
<1> QED
  BY <1>1, <1>2, <1>3 DEF Retained, Expired

-----------------------------------------------------------------------------
(* What keeps a window safe.                                                *)

LEMMA ExpiredStays ==
    ASSUME Invariant, NEW d \in delivered, NEW res \in Resolutions, Expired(d, res),
           now' \in Nat, now <= now'
    PROVE  Expired(d, res)'
<1>1. d.window.at \in Nat
  BY DeliveryFacts
<1>2. ASSUME NEW days \in {HourlyDays, DailyDays}, d.window.at < Horizon(days)
      PROVE  d.window.at < Horizon(days)'
  <2>1. Horizon(days)' = HorizonOf(now', days)
    BY DEF Horizon, HorizonOf
  <2>2. /\ HorizonOf(now, days) \in Nat /\ HorizonOf(now', days) \in Nat
        /\ HorizonOf(now, days) <= HorizonOf(now', days)
    BY HorizonsAre, HorizonFacts, HorizonGrows
  <2> QED
    BY <1>1, <1>2, <2>1, <2>2, HorizonsAre
<1> QED
  BY <1>2 DEF Expired

LEMMA SafeStays ==
    ASSUME Invariant, NEW d \in delivered, NEW res \in Resolutions, Safe(d, res),
           now' \in Nat, now <= now',
           \A r \in rollups : r \in rollups' \/ ~Retained(r)
    PROVE  Safe(d, res)'
<1>1. CASE Expired(d, res)
  BY <1>1, ExpiredStays DEF Safe
<1>2. CASE SummedUp(d.window, res)
  <2>1. PICK r \in rollups : r.res = res /\ d.window \in r.windows
    BY <1>2 DEF SummedUp
  <2>2. CASE r \in rollups'
    BY <2>1, <2>2 DEF Safe, SummedUp
  <2>3. CASE ~Retained(r)
    <3>1. r.start = Home(d, r.res)
      BY <2>1, SummedAtHome
    <3>2. Expired(d, res)
      BY <2>1, <2>3, <3>1, NotRetained
    <3> QED
      BY <3>2, ExpiredStays DEF Safe
  <2> QED
    BY <2>2, <2>3
<1> QED
  BY <1>1, <1>2 DEF Safe

\* What a step that touches neither the clock nor the rows leaves to be shown.
LEMMA PassOnly ==
    ASSUME Invariant, UNCHANGED <<now, delivered, raw, rollups>>, TypeOK', PassKeepsUp'
    PROVE  Invariant'
<1>1. \A d, res : Safe(d, res)' <=> Safe(d, res)
  BY DEF Safe, SummedUp, Expired, Horizon
<1>2. RowsOfTheirBuckets' /\ RowsAreSingle'
  BY DEF Invariant, RowsOfTheirBuckets, RowsAreSingle
<1>3. BucketsAreWhole'
  BY <1>1 DEF Invariant, BucketsAreWhole
<1>4. NothingMissing'
  BY <1>1 DEF Invariant, NothingMissing
<1> QED
  BY <1>2, <1>3, <1>4 DEF Invariant

LEMMA LeftFacts ==
    ASSUME NEW left \in Lefts, left # << >>
    PROVE  /\ Head(left) \in Resolutions /\ Tail(left) \in Lefts
           /\ Len(left) > 1 <=> Tail(left) # << >>
           /\ Upcoming(left) = {Head(left)} \cup Upcoming(Tail(left))
<1>0. Upcoming(<<"daily", "weekly">>) = {"daily", "weekly"} /\ Upcoming(<<"weekly">>) = {"weekly"}
      /\ Upcoming(<< >>) = {}
  BY DEF Upcoming
<1>1. CASE left = Order
  <2>1. Head(left) = "hourly"
    BY <1>1 DEF Order
  <2>2. Tail(left) = <<"daily", "weekly">>
    BY <1>1 DEF Order
  <2>3. Len(left) > 1 /\ Tail(left) # << >>
    <3>1. Len(left) = 3
      BY <1>1 DEF Order
    <3>2. Len(<<"daily", "weekly">>) = 2 /\ Len(<< >>) = 0
      OBVIOUS
    <3> QED
      BY <2>2, <3>1, <3>2
  <2>4. Upcoming(left) = {"hourly", "daily", "weekly"}
    BY <1>1 DEF Order, Upcoming
  <2>5. Upcoming(left) = {Head(left)} \cup Upcoming(Tail(left))
    <3>1. Upcoming(Tail(left)) = {"daily", "weekly"}
      BY <1>0, <2>2
    <3> QED
      BY <2>1, <2>4, <3>1
  <2>6. Head(left) \in Resolutions
    BY <2>1 DEF Resolutions
  <2>7. Tail(left) \in Lefts
    BY <2>2 DEF Lefts
  <2> QED
    BY <2>3, <2>5, <2>6, <2>7
<1>2. CASE left = <<"daily", "weekly">>
  <2>1. Head(left) = "daily"
    BY <1>2
  <2>2. Tail(left) = <<"weekly">>
    BY <1>2
  <2>3. Len(left) > 1 /\ Tail(left) # << >>
    <3>1. Len(left) = 2
      BY <1>2
    <3>2. Len(<<"weekly">>) = 1 /\ Len(<< >>) = 0
      OBVIOUS
    <3> QED
      BY <2>2, <3>1, <3>2
  <2>5. Upcoming(left) = {Head(left)} \cup Upcoming(Tail(left))
    <3>1. Upcoming(Tail(left)) = {"weekly"}
      BY <1>0, <2>2
    <3>2. Upcoming(left) = {"daily", "weekly"}
      BY <1>0, <1>2
    <3> QED
      BY <2>1, <3>1, <3>2
  <2>6. Head(left) \in Resolutions
    BY <2>1 DEF Resolutions
  <2>7. Tail(left) \in Lefts
    BY <2>2 DEF Lefts
  <2> QED
    BY <2>3, <2>5, <2>6, <2>7
<1>3. CASE left = <<"weekly">>
  <2>1. Head(left) = "weekly"
    BY <1>3
  <2>2. Tail(left) = << >>
    BY <1>3
  <2>3. ~ (Len(left) > 1)
    BY <1>3
  <2>5. Upcoming(left) = {Head(left)} \cup Upcoming(Tail(left))
    <3>1. Upcoming(Tail(left)) = {}
      BY <1>0, <2>2
    <3>2. Upcoming(left) = {"weekly"}
      BY <1>0, <1>3
    <3> QED
      BY <2>1, <3>1, <3>2
  <2>6. Head(left) \in Resolutions
    BY <2>1 DEF Resolutions
  <2>7. Tail(left) \in Lefts
    BY <2>2 DEF Lefts
  <2> QED
    BY <2>2, <2>3, <2>5, <2>6, <2>7
<1> QED
  BY <1>1, <1>2, <1>3 DEF Lefts

LEMMA NothingUpcoming == Upcoming(<< >>) = {} /\ Upcoming(Order) = Resolutions
  BY DEF Upcoming, Order, Resolutions

\* A resolution ends with every bucket built that was over when the pass began.
LEMMA NextResolutionStep ==
    ASSUME Invariant, pass # None, pass.at \in {"read", "build"},
           Finished(Head(pass.left)), pass' = NextResolution,
           UNCHANGED <<now, delivered, raw, rollups, pending>>
    PROVE  Invariant'
<1>1. pass \in Running /\ pass.left \in Lefts /\ pass.left # << >>
  BY DEF Invariant, TypeOK, PassKeepsUp, Running
<1>2. /\ Head(pass.left) \in Resolutions /\ Tail(pass.left) \in Lefts
      /\ Len(pass.left) > 1 <=> Tail(pass.left) # << >>
      /\ Upcoming(pass.left) = {Head(pass.left)} \cup Upcoming(Tail(pass.left))
  BY <1>1, LeftFacts
<1>3. /\ pass'.at = (IF Tail(pass.left) # << >> THEN "read" ELSE "prune")
      /\ pass'.left = Tail(pass.left) /\ pass'.clock = pass.clock
      /\ pass' \in Running
  BY <1>1, <1>2 DEF NextResolution, Running, Steps
<1>4. TypeOK'
  BY <1>3 DEF Invariant, TypeOK
<1>5. \A res : Finished(res) => Finished(res)'
  BY <1>3 DEF Finished, Safe, SummedUp, Expired, Horizon
<1>6. \A res \in Resolutions : res \notin Upcoming(pass.left) => Finished(res)
  BY DEF Invariant, PassKeepsUp
<1>7. PassKeepsUp'
  <2>1. pass.clock <= now /\ now <= pass.clock + 1
    BY DEF Invariant, PassKeepsUp
  <2>2. \A res \in Resolutions : res \notin Upcoming(pass'.left) => Finished(res)'
    BY <1>2, <1>3, <1>5, <1>6
  <2>3. pass'.at \in {"read", "build"} <=> pass'.left # << >>
    BY <1>3
  <2>4. pass'.at # "build" /\ pass'.at # "drop"
    BY <1>3
  <2> QED
    BY <1>3, <2>1, <2>2, <2>3, <2>4 DEF PassKeepsUp, Upcoming
<1> QED
  BY <1>4, <1>7, PassOnly

\* A step that takes away only rows of windows that are safe.
LEMMA RawShrinks ==
    ASSUME Invariant, UNCHANGED <<now, delivered, rollups>>, raw' \subseteq raw,
           \A d \in delivered, res \in Resolutions :
               InTime(d, res) /\ d.window \in raw /\ d.window \notin raw' => Safe(d, res),
           TypeOK', PassKeepsUp'
    PROVE  Invariant'
<1>1. \A d, res : Safe(d, res)' <=> Safe(d, res)
  BY DEF Safe, SummedUp, Expired, Horizon
<1>2. RowsOfTheirBuckets' /\ RowsAreSingle'
  BY DEF Invariant, RowsOfTheirBuckets, RowsAreSingle
<1>3. BucketsAreWhole'
  BY <1>1 DEF Invariant, BucketsAreWhole
<1>4. NothingMissing'
  BY <1>1 DEF Invariant, NothingMissing
<1> QED
  BY <1>2, <1>3, <1>4 DEF Invariant

\* What the horizon takes away was over long before the pass began.
LEMMA AgedIsSafe ==
    ASSUME Invariant, pass # None, pass.left = << >>, NEW d \in delivered,
           NEW res \in Resolutions, InTime(d, res), d.window.at < Horizon(RawDays)
    PROVE  Safe(d, res)
<1> DEFINE days == Day * RawDays
<1>1. d.window.at \in Nat /\ days \in Nat
  BY DeliveryFacts, SpanFits
<1>2. d.window.at + days < now
  BY <1>1, HorizonsAre, HorizonFacts
<1>3. now \in Nat /\ pass.clock \in Nat /\ now <= pass.clock + 1
  BY HorizonsAre DEF Invariant, TypeOK, PassKeepsUp, Running
<1>4. d.window.at + days <= pass.clock
  <2> HIDE DEF days
  <2> QED
    BY <1>1, <1>2, <1>3
<1>5. Finished(res)
  BY NothingUpcoming DEF Invariant, PassKeepsUp
<1> QED
  BY <1>4, <1>5 DEF Finished

LEMMA MinFacts ==
    ASSUME NEW T \in SUBSET Nat, T # {}
    PROVE  Min(T) \in T /\ \A m \in T : Min(T) <= m
<1>1. PICK n \in T : \A m \in T : n <= m
  BY LeastNumber
<1> DEFINE c == CHOOSE x \in T : \A y \in T : x <= y
<1>2. c \in T /\ \A y \in T : c <= y
  BY <1>1
<1>3. Min(T) = c
  BY DEF Min
<1> HIDE DEF c
<1> QED
  BY <1>2, <1>3

\* The bucket of an earlier hour is not a later bucket.
LEMMA BucketsInOrder ==
    ASSUME NEW res \in Resolutions, NEW m \in Nat, NEW n \in Nat, m <= n
    PROVE  BucketStart(res, m) <= BucketStart(res, n)
<1> DEFINE a == BucketStart(res, m)
           b == BucketStart(res, n)
<1>1. /\ a \in Nat /\ Starts(res, a) /\ a <= m
      /\ b \in Nat /\ Starts(res, b) /\ n < BucketEnd(res, b)
  BY BucketFacts
<1> HIDE DEF a, b
<1>2. a <= b
  <2> SUFFICES ASSUME b < a PROVE FALSE
    BY <1>1
  <2>1. BucketEnd(res, b) <= a
    BY <1>1, BucketsApart
  <2>2. BucketEnd(res, b) \in Nat
    BY <1>1, NextBucket
  <2> QED
    BY <1>1, <2>1, <2>2
<1> QED
  BY <1>2 DEF a, b

-----------------------------------------------------------------------------
(* Every step keeps the invariant.                                          *)

LEMMA InitInvariant == ASSUME Init PROVE Invariant
<1>1. TypeOK
  BY BoundAssumption DEF Init, TypeOK
<1>2. RowsOfTheirBuckets /\ RowsAreSingle /\ BucketsAreWhole /\ NothingMissing /\ PassKeepsUp
  BY DEF Init, RowsOfTheirBuckets, RowsAreSingle, BucketsAreWhole, NothingMissing, PassKeepsUp
<1> QED
  BY <1>1, <1>2 DEF Invariant

LEMMA StartPassStep == ASSUME Invariant, StartPass PROVE Invariant'
<1>1. /\ pass' = [at |-> "read", left |-> Order, clock |-> now, cursor |-> 0, stored |-> {}, built |-> 0]
      /\ UNCHANGED <<now, pending, delivered, raw, rollups>>
  BY DEF StartPass
<1>2. /\ pass'.at = "read" /\ pass'.left = Order /\ pass'.clock = now
      /\ pass' \in Running
  <2>1. Order \in Lefts /\ now \in Nat
    BY HorizonsAre DEF Lefts
  <2> QED
    BY <1>1, <2>1 DEF Running, Steps
<1>3. TypeOK'
  BY <1>1, <1>2 DEF Invariant, TypeOK
<1>4. Upcoming(pass'.left) = Resolutions
  BY <1>2, NothingUpcoming
<1>5. Order # << >>
  BY DEF Order
<1>6. PassKeepsUp'
  BY <1>1, <1>2, <1>4, <1>5, HorizonsAre DEF PassKeepsUp, Upcoming
<1> QED
  BY <1>1, <1>3, <1>6, PassOnly

LEMMA PassEnds ==
    ASSUME Invariant, pass' = None, UNCHANGED <<now, pending, delivered, raw, rollups>>
    PROVE  Invariant'
<1>1. TypeOK'
  BY DEF Invariant, TypeOK
<1>2. PassKeepsUp'
  BY DEF PassKeepsUp
<1> QED
  BY <1>1, <1>2, PassOnly

\* The buckets some series has are over.
LEMMA StoredAreOver ==
    ASSUME Invariant, NEW res \in Resolutions, NEW b, NEW r \in rollups, r.res = res, r.start = b
    PROVE  b \in Nat /\ b < MaxNow /\ MaxNow \in Nat
<1>1. /\ b \in Nat /\ Starts(res, b) /\ BucketEnd(res, b) <= now
      /\ now \in Nat /\ now <= MaxNow /\ MaxNow \in Nat
  BY DEF Invariant, TypeOK, RowsOfTheirBuckets
<1>2. BucketEnd(res, b) \in Nat /\ b < BucketEnd(res, b)
  BY <1>1, NextBucket
<1> QED
  BY <1>1, <1>2

LEMMA ReadOutstandingStep == ASSUME Invariant, ReadOutstanding PROVE Invariant'
<1> DEFINE res == Head(pass.left)
           ats == {w.at : w \in raw}
           first == BucketStart(res, Min(ats))
           stored == StoredFrom(res, first)
           next == Unbuilt(res, first, stored)
<1>1. /\ pass # None /\ pass.at = "read" /\ UNCHANGED <<now, pending, delivered, raw, rollups>>
      /\ pass' = IF raw = {} THEN NextResolution
                 ELSE [pass EXCEPT !.at = "build", !.stored = stored, !.cursor = next]
  BY DEF ReadOutstanding
<1>2. /\ pass \in Running /\ pass.left # << >> /\ pass.left \in Lefts /\ pass.clock \in Nat
  BY <1>1 DEF Invariant, TypeOK, PassKeepsUp, Running
<1>3. res \in Resolutions
  BY <1>2, LeftFacts
<1>4. CASE raw = {}
  <2>1. Finished(res)
    BY <1>3, <1>4 DEF Finished, Invariant, NothingMissing
  <2> QED
    BY <1>1, <1>4, <2>1, NextResolutionStep
<1>5. CASE raw # {}
  <2>1. ats \in SUBSET Nat /\ ats # {}
    BY <1>5 DEF Invariant, TypeOK, Window
  <2>2. Min(ats) \in Nat /\ \A m \in ats : Min(ats) <= m
    BY <2>1, MinFacts
  <2>3. first \in Nat /\ Starts(res, first)
    BY <1>3, <2>2, BucketFacts
  <2>4. \A b \in stored : \E r \in rollups : r.res = res /\ r.start = b
    BY DEF StoredFrom
  <2>5. \A r \in rollups : r.start >= first /\ r.res = res => r.start \in stored
    BY DEF StoredFrom
  <2>6. stored \in SUBSET Nat /\ \A b \in stored : b < MaxNow
    <3> SUFFICES ASSUME NEW b \in stored PROVE b \in Nat /\ b < MaxNow
      OBVIOUS
    <3>1. PICK r \in rollups : r.res = res /\ r.start = b
      BY <2>4
    <3> QED
      BY <1>3, <3>1, StoredAreOver
  <2>7. /\ next \in Nat /\ Starts(res, next) /\ first <= next
        /\ \A b \in Nat : Starts(res, b) /\ first <= b /\ b < next => b \in stored
    <3>1. MaxNow \in Nat
      BY DEF Invariant, TypeOK
    <3> QED
      BY <1>3, <2>3, <2>6, <3>1, UnbuiltFacts
  <2>8. ASSUME NEW d \in delivered, InTime(d, res), Home(d, res) < next PROVE Safe(d, res)
    <3>1. CASE d.window \in raw
      <4>0. d.window.at \in Nat
        BY <1>3, DeliveryFacts
      <4>1. d.window.at \in ats /\ d.window.at \in Nat
        BY <3>1, <4>0
      <4>2. first <= Home(d, res)
        BY <1>3, <2>2, <4>1, BucketsInOrder DEF Home
      <4>3. Home(d, res) \in stored
        BY <1>3, <2>7, <2>8, <4>2, DeliveryFacts
      <4>4. PICK r \in rollups : r.res = res /\ r.start = Home(d, res)
        BY <2>4, <4>3
      <4> QED
        BY <2>8, <4>4 DEF Invariant, BucketsAreWhole
    <3>2. CASE d.window \notin raw
      BY <1>3, <2>8, <3>2 DEF Invariant, NothingMissing
    <3> QED
      BY <3>1, <3>2
  <2>9. /\ pass'.at = "build" /\ pass'.left = pass.left /\ pass'.clock = pass.clock
        /\ pass'.stored = stored /\ pass'.cursor = next /\ pass' \in Running
    <3> HIDE DEF stored, next, res
    <3> QED
      BY <1>1, <1>2, <1>5, <2>6, <2>7 DEF Running, Steps
  <2>10. PICK b \in Resolutions : b = res
    BY <1>3
  <2>11. ASSUME NEW d \in delivered, InTime(d, b), Home(d, b) < next PROVE Safe(d, b)
    BY <2>8, <2>10, <2>11
  <2> HIDE DEF stored, next, first, ats
  <2>12. TypeOK'
    BY <1>1, <2>9 DEF Invariant, TypeOK
  <2>13. \A d, r : Safe(d, r)' <=> Safe(d, r)
    BY <1>1 DEF Safe, SummedUp, Expired, Horizon
  <2>14. \A r \in Resolutions : r \notin Upcoming(pass.left) => Finished(r)'
    BY <1>1, <2>9, <2>13 DEF Invariant, PassKeepsUp, Finished
  <2>15. BuiltSoFar'
    <3> SUFFICES ASSUME NEW d \in delivered', NEW r \in Resolutions, r = Head(pass'.left),
                        InTime(d, r), Home(d, r) < pass'.cursor
                 PROVE  Safe(d, r)'
      BY DEF BuiltSoFar
    <3>1. r = b /\ d \in delivered /\ Home(d, r) < next
      BY <1>1, <2>9, <2>10
    <3> QED
      BY <2>11, <2>13, <3>1
  <2>16. pass.clock <= now /\ now <= pass.clock + 1
    BY <1>1 DEF Invariant, PassKeepsUp
  <2>17. Starts(Head(pass'.left), pass'.cursor)
    BY <2>7, <2>9
  <2>18. \A c \in pass'.stored : \E r \in rollups : r.res = Head(pass'.left) /\ r.start = c
    BY <2>4, <2>9
  <2>19. Upcoming(pass'.left) = Upcoming(pass.left)
    BY <2>9
  <2>20. PassKeepsUp'
    BY <1>1, <1>2, <2>9, <2>14, <2>15, <2>16, <2>17, <2>18, <2>19 DEF PassKeepsUp, Upcoming, Starts
  <2> QED
    BY <1>1, <2>12, <2>20, PassOnly
<1> QED
  BY <1>4, <1>5

LEMMA BuildBucketStep == ASSUME Invariant, BuildBucket PROVE Invariant'
<1> PICK res \in Resolutions, c \in Nat, stored \in SUBSET Nat :
        /\ res = Head(pass.left) /\ c = pass.cursor /\ stored = pass.stored
        /\ pass \in Running /\ pass # None /\ pass.at = "build" /\ pass.left # << >>
        /\ Starts(res, c) /\ \A b \in stored : \E r \in rollups : r.res = res /\ r.start = b
  <2>1. /\ pass \in Running /\ pass # None /\ pass.at = "build" /\ pass.left # << >>
        /\ pass.left \in Lefts
    BY DEF BuildBucket, Building, Invariant, TypeOK, PassKeepsUp, Running
  <2>2. pass.cursor \in Nat /\ pass.stored \in SUBSET Nat /\ Head(pass.left) \in Resolutions
    BY <2>1, LeftFacts DEF Running
  <2> QED
    BY <2>1, <2>2 DEF Invariant, PassKeepsUp
<1> DEFINE in == {w \in raw : InBucket(w, res, c)}
           row(s) == [series |-> s, res |-> res, start |-> c, windows |-> {w \in in : w.series = s}]
           new == {r \in {row(w.series) : w \in in} : ~Taken(r)}
           next == Unbuilt(res, BucketEnd(res, c), stored)
<1>1. /\ rollups' = rollups \cup new /\ UNCHANGED <<now, pending, delivered, raw>>
      /\ Over(res, c)
      /\ pass' = [pass EXCEPT !.cursor = next, !.built = @ + 1]
  BY DEF BuildBucket
<1>2. /\ BucketEnd(res, c) \in Nat /\ Starts(res, BucketEnd(res, c)) /\ c < BucketEnd(res, c)
  BY NextBucket
<1>3. /\ MaxNow \in Nat /\ now \in Nat /\ now <= MaxNow
      /\ pass.clock \in Nat /\ pass.clock <= now /\ BucketEnd(res, c) <= pass.clock
  BY <1>1 DEF Invariant, TypeOK, PassKeepsUp, Running, Over
<1>4. \A b \in stored : b < MaxNow
  <2> SUFFICES ASSUME NEW b \in stored PROVE b < MaxNow
    OBVIOUS
  <2>1. PICK r \in rollups : r.res = res /\ r.start = b
    OBVIOUS
  <2> QED
    BY <2>1, StoredAreOver
<1>5. /\ next \in Nat /\ Starts(res, next)
      /\ \A b \in Nat : Starts(res, b) /\ BucketEnd(res, c) <= b /\ b < next => b \in stored
  BY <1>2, <1>3, <1>4, UnbuiltFacts
<1>6. \A r \in new : /\ r.res = res /\ r.start = c /\ ~Taken(r)
                     /\ r.windows = {w \in in : w.series = r.series}
                     /\ \E w \in in : r = row(w.series)
  OBVIOUS
<1>7. \A d \in delivered, r \in Resolutions : Safe(d, r) => Safe(d, r)'
  BY <1>1, <1>3, SafeStays
<1>8. \A w \in in : w \in raw /\ w \in Window /\ InBucket(w, res, c)
  BY DEF Invariant, TypeOK
\* The bucket at the cursor: every series with a window in it has its row now.
<1>9. ASSUME NEW d \in delivered, InTime(d, res), Home(d, res) = c PROVE Safe(d, res)'
  <2>1. CASE Safe(d, res)
    BY <2>1, <1>7
  <2>2. CASE d.window \in raw
    <3>1. d.window \in in
      BY <2>2, <1>9, DeliveryFacts DEF InBucket
    <3> DEFINE r == row(d.window.series)
    <3>2. CASE Taken(r)
      <4>1. PICK q \in rollups : q.res = res /\ q.start = c
        BY <3>2 DEF Taken
      <4>2. Safe(d, res)
        BY <1>9, <4>1 DEF Invariant, BucketsAreWhole
      <4> QED
        BY <4>2, <1>7
    <3>3. CASE ~Taken(r)
      <4>1. r \in rollups'
        BY <1>1, <3>1, <3>3
      <4>2. r.res = res /\ d.window \in r.windows
        BY <3>1
      <4> QED
        BY <4>1, <4>2 DEF Safe, SummedUp
    <3> QED
      BY <3>2, <3>3
  <2> QED
    BY <1>9, <2>1, <2>2 DEF Invariant, NothingMissing
<1>10. TypeOK'
  <2>1. pass' \in Running
    <3>1. pass \in Running /\ pass.built + 1 \in Nat /\ next \in Nat
      BY <1>5 DEF Running
    <3>2. pass' = [pass EXCEPT !.cursor = next, !.built = pass.built + 1]
      BY <1>1
    <3> HIDE DEF next
    <3> QED
      BY <3>1, <3>2 DEF Running
  <2>2. ASSUME NEW r \in new
        PROVE  r \in [series : Series, res : Resolutions, start : Nat, windows : SUBSET Window]
    <3>1. PICK w \in in : r = row(w.series)
      BY <1>6
    <3>2. w.series \in Series
      BY <1>8 DEF Window
    <3>3. {v \in in : v.series = w.series} \in SUBSET Window
      BY <1>8
    <3> QED
      BY <3>1, <3>2, <3>3
  <2> HIDE DEF new
  <2> QED
    BY <1>1, <2>1, <2>2 DEF Invariant, TypeOK
<1>11. RowsOfTheirBuckets'
  <2>1. ASSUME NEW r \in new
        PROVE  /\ Starts(r.res, r.start) /\ BucketEnd(r.res, r.start) <= now
               /\ \A w \in r.windows : /\ w.series = r.series /\ InBucket(w, r.res, r.start)
                                     /\ \E d \in delivered : d.window = w
    <3>1. \A w \in r.windows : w \in in /\ w.series = r.series
      BY <1>6
    <3>2. \A w \in in : \E d \in delivered : d.window = w
      BY <1>8 DEF Invariant, RowsOfTheirBuckets
    <3> HIDE DEF in
    <3> QED
      BY <1>2, <1>3, <1>6, <1>8, <3>1, <3>2
  <2> HIDE DEF new
  <2> QED
    BY <1>1, <2>1 DEF Invariant, RowsOfTheirBuckets
<1>12. RowsAreSingle'
  <2>1. ASSUME NEW r \in new, NEW q \in rollups,
               <<r.series, r.res, r.start>> = <<q.series, q.res, q.start>>
        PROVE  FALSE
    BY <1>6, <2>1 DEF Taken
  <2>2. ASSUME NEW r \in new, NEW q \in new, r.series = q.series
        PROVE  r = q
    <3>1. PICK w \in in : r = row(w.series)
      BY <1>6
    <3>2. PICK v \in in : q = row(v.series)
      BY <1>6
    <3>3. w.series = v.series
      BY <2>2, <3>1, <3>2
    <3> QED
      BY <3>1, <3>2, <3>3
  <2> HIDE DEF new
  <2> QED
    BY <1>1, <2>1, <2>2 DEF Invariant, RowsAreSingle
<1>13. BucketsAreWhole'
  <2> SUFFICES ASSUME NEW r \in rollups', NEW d \in delivered,
                      Home(d, r.res) = r.start, InTime(d, r.res)
               PROVE  Safe(d, r.res)'
    BY <1>1 DEF BucketsAreWhole
  <2>1. CASE r \in rollups
    <3>1. r.res \in Resolutions /\ Safe(d, r.res)
      BY <2>1 DEF Invariant, TypeOK, BucketsAreWhole
    <3> QED
      BY <3>1, <1>7
  <2>2. CASE r \in new
    BY <1>6, <1>9, <2>2
  <2> QED
    BY <1>1, <2>1, <2>2
<1>14. NothingMissing'
  BY <1>1, <1>7 DEF Invariant, NothingMissing
<1>15. /\ pass'.at = pass.at /\ pass'.left = pass.left /\ pass'.clock = pass.clock
       /\ pass'.stored = stored /\ pass'.cursor = next
  BY <1>1 DEF Running
<1>16. BuiltSoFar'
  <2> SUFFICES ASSUME NEW d \in delivered, InTime(d, res),
                      BucketEnd(res, Home(d, res)) <= pass.clock, Home(d, res) < next
               PROVE  Safe(d, res)'
    BY <1>1, <1>15 DEF BuiltSoFar
  <2>1. Home(d, res) \in Nat /\ Starts(res, Home(d, res))
    BY DeliveryFacts
  <2>2. CASE Home(d, res) < c
    <3>1. Safe(d, res)
      BY <2>2 DEF Invariant, PassKeepsUp, BuiltSoFar
    <3> QED
      BY <3>1, <1>7
  <2>3. CASE Home(d, res) = c
    BY <1>9, <2>3
  <2>4. CASE c < Home(d, res)
    <3>1. BucketEnd(res, c) <= Home(d, res)
      BY <2>1, <2>4, BucketsApart
    <3>2. PICK r \in rollups : r.res = res /\ r.start = Home(d, res)
      BY <1>5, <2>1, <3>1
    <3>3. Safe(d, res)
      BY <3>2 DEF Invariant, BucketsAreWhole
    <3> QED
      BY <3>3, <1>7
  <2> QED
    BY <2>1, <2>2, <2>3, <2>4
<1>17. PassKeepsUp'
  <2>1. \A r \in Resolutions : r \notin Upcoming(pass.left) => Finished(r)'
    BY <1>1, <1>7, <1>15 DEF Invariant, PassKeepsUp, Finished
  <2>2. pass.clock <= now /\ now <= pass.clock + 1
    BY DEF Invariant, PassKeepsUp
  <2>3. \A b \in stored : \E r \in rollups' : r.res = res /\ r.start = b
    BY <1>1
  <2>4. Upcoming(pass'.left) = Upcoming(pass.left) /\ Starts(Head(pass'.left), pass'.cursor)
    BY <1>5, <1>15
  <2> HIDE DEF next
  <2> QED
    BY <1>1, <1>15, <1>16, <2>1, <2>2, <2>3, <2>4 DEF PassKeepsUp, Upcoming, Starts
<1> QED
  BY <1>10, <1>11, <1>12, <1>13, <1>14, <1>17 DEF Invariant

LEMMA EndResolutionStep == ASSUME Invariant, RunsSuffice, EndResolution PROVE Invariant'
<1>1. /\ pass # None /\ pass.at = "build" /\ pass.left # << >> /\ pass.left \in Lefts
      /\ pass \in Running
      /\ pass' = NextResolution /\ UNCHANGED <<now, pending, delivered, raw, rollups>>
  BY DEF EndResolution, Building, Invariant, TypeOK, PassKeepsUp, Running
<1>2. PICK res \in Resolutions : res = Head(pass.left)
  BY <1>1, LeftFacts
<1> DEFINE days == Day * RawDays
<1>3. \/ ~ (pass.cursor + Span(res) <= pass.clock)
      \/ pass.clock < pass.cursor + days
  BY <1>2 DEF EndResolution, RunsSuffice, Over, BucketEnd
<1>4. Finished(res)
  <2> SUFFICES ASSUME NEW d \in delivered, InTime(d, res), d.window.at + days <= pass.clock
               PROVE  Safe(d, res)
    BY DEF Finished
  <2>1. /\ Home(d, res) \in Nat /\ d.window.at \in Nat /\ Home(d, res) <= d.window.at
        /\ pass.cursor \in Nat /\ pass.clock \in Nat
        /\ Span(res) \in Nat /\ days \in Nat /\ Span(res) <= days
    BY <1>1, DeliveryFacts, SpanType, SpanFits DEF Running
  <2>2. Home(d, res) < pass.cursor /\ Home(d, res) + Span(res) <= pass.clock
    <3> HIDE DEF days
    <3> QED
      BY <1>3, <2>1
  <2> QED
    BY <1>1, <1>2, <2>2 DEF Invariant, PassKeepsUp, BuiltSoFar, BucketEnd
<1> QED
  BY <1>1, <1>2, <1>4, NextResolutionStep

\* While a pass removes, every resolution is built, and stays so as long as nothing
\* that is safe is lost.
LEMMA StaysFinished ==
    ASSUME Invariant, pass # None, pass.left = << >>, pass'.left = << >>,
           pass'.clock = pass.clock, pass'.at \in {"drop", "trim"},
           UNCHANGED <<now, delivered, rollups>>,
           pass'.at = "drop" => pass'.cursor <= Horizon(RawDays)
    PROVE  PassKeepsUp'
<1>1. \A d, res : Safe(d, res)' <=> Safe(d, res)
  BY DEF Safe, SummedUp, Expired, Horizon
<1>2. \A res \in Resolutions : Finished(res)'
  BY <1>1, NothingUpcoming DEF Invariant, PassKeepsUp, Finished
<1> QED
  BY <1>2 DEF Invariant, PassKeepsUp, Horizon

LEMMA PruneRawStep == ASSUME Invariant, PruneRaw PROVE Invariant'
<1>1. /\ pass # None /\ pass.at = "prune" /\ UNCHANGED <<now, pending, delivered, rollups>>
      /\ pass' = [pass EXCEPT !.at = "drop", !.cursor = Horizon(RawDays)]
      /\ pass \in Running /\ pass.left = << >>
  BY DEF PruneRaw, Invariant, TypeOK, PassKeepsUp
<1>2. raw' \subseteq raw /\ \A w \in raw : w \notin raw' => ~ (w.at >= Horizon(RawDays))
  BY DEF PruneRaw
<1>3. Horizon(RawDays) \in Nat
  BY HorizonsAre, HorizonFacts
<1>4. /\ pass'.at = "drop" /\ pass'.left = << >> /\ pass'.clock = pass.clock
      /\ pass'.cursor = Horizon(RawDays) /\ pass' \in Running
  BY <1>1, <1>3 DEF Running, Steps
<1>5. TypeOK'
  BY <1>1, <1>2, <1>4 DEF Invariant, TypeOK
<1>6. PassKeepsUp'
  BY <1>1, <1>3, <1>4, StaysFinished
<1>7. ASSUME NEW d \in delivered, NEW res \in Resolutions,
             InTime(d, res), d.window \in raw, d.window \notin raw'
      PROVE  Safe(d, res)
  <2>1. d.window.at < Horizon(RawDays)
    BY <1>2, <1>3, <1>7, DeliveryFacts
  <2> QED
    BY <1>1, <1>7, <2>1, AgedIsSafe
<1> QED
  BY <1>1, <1>2, <1>5, <1>6, <1>7, RawShrinks

LEMMA DropPartitionsStep == ASSUME Invariant, DropPartitions PROVE Invariant'
<1>1. /\ pass # None /\ pass.at = "drop" /\ UNCHANGED <<now, pending, delivered, rollups>>
      /\ pass' = [pass EXCEPT !.at = "trim", !.cursor = 0]
      /\ pass \in Running /\ pass.left = << >> /\ pass.cursor <= Horizon(RawDays)
      /\ pass.cursor \in Nat
  BY DEF DropPartitions, Invariant, TypeOK, PassKeepsUp, Running
<1>2. raw' \subseteq raw /\ \A w \in raw : w \notin raw' => ~ (w.at >= pass.cursor)
  BY DEF DropPartitions
<1>3. Horizon(RawDays) \in Nat
  BY HorizonsAre, HorizonFacts
<1>4. /\ pass'.at = "trim" /\ pass'.left = << >> /\ pass'.clock = pass.clock
      /\ pass' \in Running
  BY <1>1 DEF Running, Steps
<1>5. TypeOK'
  BY <1>1, <1>2, <1>4 DEF Invariant, TypeOK
<1>6. PassKeepsUp'
  BY <1>1, <1>4, StaysFinished
<1>7. ASSUME NEW d \in delivered, NEW res \in Resolutions,
             InTime(d, res), d.window \in raw, d.window \notin raw'
      PROVE  Safe(d, res)
  <2>1. d.window.at \in Nat
    BY DeliveryFacts
  <2>2. d.window.at < Horizon(RawDays)
    BY <1>1, <1>2, <1>3, <1>7, <2>1
  <2> QED
    BY <1>1, <1>7, <2>2, AgedIsSafe
<1> QED
  BY <1>1, <1>2, <1>5, <1>6, <1>7, RawShrinks

\* A step that loses no rollup but those past their retention, while no pass runs on.
LEMMA PruneRollupsStep == ASSUME Invariant, PruneRollups PROVE Invariant'
<1>1. /\ pass' = None /\ UNCHANGED <<now, pending, delivered, raw>>
      /\ rollups' \subseteq rollups /\ \A r \in rollups : r \in rollups' \/ ~Retained(r)
  BY DEF PruneRollups
<1>2. now' \in Nat /\ now <= now'
  BY <1>1, HorizonsAre
<1>3. \A d \in delivered, res \in Resolutions : Safe(d, res) => Safe(d, res)'
  BY <1>1, <1>2, SafeStays
<1>4. TypeOK'
  BY <1>1 DEF Invariant, TypeOK
<1>5. RowsOfTheirBuckets' /\ RowsAreSingle'
  BY <1>1 DEF Invariant, RowsOfTheirBuckets, RowsAreSingle
<1>6. BucketsAreWhole'
  BY <1>1, <1>3 DEF Invariant, BucketsAreWhole, TypeOK
<1>7. NothingMissing'
  BY <1>1, <1>3 DEF Invariant, NothingMissing
<1>8. PassKeepsUp'
  BY <1>1 DEF PassKeepsUp
<1> QED
  BY <1>4, <1>5, <1>6, <1>7, <1>8 DEF Invariant

LEMMA TickStep == ASSUME Invariant, Tick PROVE Invariant'
<1>1. /\ now < MaxNow /\ now' = now + 1 /\ UNCHANGED <<pending, delivered, raw, rollups, pass>>
      /\ pass # None => pass.clock = now
  BY DEF Tick
<1>2. /\ MaxNow \in Nat /\ now \in Nat /\ now' \in Nat /\ now <= now' /\ now' \in 0 .. MaxNow
  BY <1>1 DEF Invariant, TypeOK
<1>3. \A d \in delivered, res \in Resolutions : Safe(d, res) => Safe(d, res)'
  BY <1>1, <1>2, SafeStays
<1>4. TypeOK'
  BY <1>1, <1>2 DEF Invariant, TypeOK
<1>5. RowsOfTheirBuckets'
  <2>1. \A d \in delivered : d.on \in Nat /\ d.on <= now
    BY DEF Invariant, TypeOK, RowsOfTheirBuckets
  <2>2. \A r \in rollups : BucketEnd(r.res, r.start) \in Nat /\ BucketEnd(r.res, r.start) <= now
    BY NextBucket DEF Invariant, TypeOK, RowsOfTheirBuckets
  <2> QED
    BY <1>1, <1>2, <2>1, <2>2 DEF Invariant, RowsOfTheirBuckets
<1>6. RowsAreSingle'
  BY <1>1 DEF Invariant, RowsAreSingle
<1>7. BucketsAreWhole'
  BY <1>1, <1>3 DEF Invariant, BucketsAreWhole, TypeOK
<1>8. NothingMissing'
  BY <1>1, <1>3 DEF Invariant, NothingMissing
<1>9. PassKeepsUp'
  <2> SUFFICES ASSUME pass # None PROVE PassKeepsUp'
    BY <1>1 DEF PassKeepsUp
  <2>1. pass.clock <= now' /\ now' <= pass.clock + 1
    BY <1>1, <1>2
  <2>2. \A res \in Resolutions : res \notin Upcoming(pass.left) => Finished(res)'
    BY <1>1, <1>3 DEF Invariant, PassKeepsUp, Finished
  <2>3. BuiltSoFar => BuiltSoFar'
    BY <1>1, <1>3 DEF BuiltSoFar
  <2>4. pass.at = "drop" => pass.cursor <= Horizon(RawDays)'
    <3> SUFFICES ASSUME pass.at = "drop" PROVE pass.cursor <= Horizon(RawDays)'
      OBVIOUS
    <3>1. pass.cursor \in Nat /\ pass.cursor <= HorizonOf(now, RawDays)
      BY HorizonsAre DEF Invariant, TypeOK, PassKeepsUp, Running
    <3>2. /\ HorizonOf(now, RawDays) <= HorizonOf(now', RawDays)
          /\ HorizonOf(now, RawDays) \in Nat /\ HorizonOf(now', RawDays) \in Nat
      BY <1>2, HorizonsAre, HorizonGrows, HorizonFacts
    <3>3. Horizon(RawDays)' = HorizonOf(now', RawDays)
      BY DEF Horizon, HorizonOf
    <3> QED
      BY <3>1, <3>2, <3>3
  <2> QED
    BY <1>1, <2>1, <2>2, <2>3, <2>4 DEF Invariant, PassKeepsUp, Upcoming, Starts
<1> QED
  BY <1>4, <1>5, <1>6, <1>7, <1>8, <1>9 DEF Invariant

\* A window that comes in now is too late for every bucket that is over.
LEMMA DeliverStep == ASSUME Invariant, NEW w \in Window, Deliver(w) PROVE Invariant'
<1> DEFINE new == [window |-> w, on |-> now]
<1>1. /\ w \in pending /\ pending' = pending \ {w} /\ delivered' = delivered \cup {new}
      /\ raw' = raw \cup {w} /\ UNCHANGED <<now, rollups, pass>>
  BY DEF Deliver
<1>2. now \in Nat /\ w.at \in Nat /\ new.window = w /\ new.on = now
  BY HorizonsAre DEF Window
<1>3. \A d, res : Safe(d, res)' <=> Safe(d, res)
  BY <1>1 DEF Safe, SummedUp, Expired, Horizon
<1>4. TypeOK'
  BY <1>1, <1>2 DEF Invariant, TypeOK
<1>5. RowsOfTheirBuckets'
  <2>1. \A v \in raw' : \E d \in delivered' : d.window = v
    BY <1>1, <1>2 DEF Invariant, RowsOfTheirBuckets
  <2>2. \A d \in delivered' : d.on <= now
    BY <1>1, <1>2 DEF Invariant, RowsOfTheirBuckets
  <2> HIDE DEF new
  <2> QED
    BY <1>1, <2>1, <2>2 DEF Invariant, RowsOfTheirBuckets
<1>6. RowsAreSingle'
  BY <1>1 DEF Invariant, RowsAreSingle
<1>7. BucketsAreWhole'
  <2> SUFFICES ASSUME NEW r \in rollups, NEW d \in delivered',
                      Home(d, r.res) = r.start, InTime(d, r.res)
               PROVE  Safe(d, r.res)
    BY <1>1, <1>3 DEF BucketsAreWhole
  <2>1. CASE d \in delivered
    BY <2>1 DEF Invariant, BucketsAreWhole
  <2>2. CASE d = new
    <3>1. now < BucketEnd(r.res, r.start)
      BY <1>2, <2>2 DEF InTime, Home
    <3>2. BucketEnd(r.res, r.start) <= now /\ BucketEnd(r.res, r.start) \in Nat
      BY NextBucket DEF Invariant, TypeOK, RowsOfTheirBuckets
    <3> QED
      BY <1>2, <3>1, <3>2
  <2> QED
    BY <1>1, <2>1, <2>2
<1>8. NothingMissing'
  BY <1>1, <1>2, <1>3 DEF Invariant, NothingMissing
\* It does not come in time for a bucket the pass may have built or may remove.
<1>9. ASSUME pass # None, NEW res \in Resolutions, InTime(new, res)
      PROVE  pass.clock < BucketEnd(res, Home(new, res))
  <2>1. pass.clock \in Nat /\ pass.clock <= now
    BY <1>9 DEF Invariant, TypeOK, PassKeepsUp, Running
  <2>2. Home(new, res) \in Nat /\ BucketEnd(res, Home(new, res)) \in Nat
    BY <1>2, BucketFacts, NextBucket DEF Home
  <2>3. now < BucketEnd(res, Home(new, res))
    BY <1>2, <1>9 DEF InTime, Home
  <2> HIDE DEF new
  <2> QED
    BY <1>2, <2>1, <2>2, <2>3
<1>10. ASSUME pass # None PROVE \A res \in Resolutions : res \notin Upcoming(pass.left) => Finished(res)'
  <2> SUFFICES ASSUME NEW res \in Resolutions, res \notin Upcoming(pass.left), NEW d \in delivered',
                      InTime(d, res), d.window.at + Day * RawDays <= pass.clock
               PROVE  Safe(d, res)
    BY <1>1, <1>3 DEF Finished
  <2>1. CASE d \in delivered
    BY <1>10, <2>1 DEF Invariant, PassKeepsUp, Finished
  <2>2. CASE d = new
    <3> DEFINE days == Day * RawDays
               home == Home(new, res)
    <3>1. /\ home \in Nat /\ home <= w.at
      BY <1>2, BucketFacts DEF Home
    <3>2. Span(res) \in Nat /\ days \in Nat /\ Span(res) <= days
      BY SpanType, SpanFits
    <3>3. pass.clock < home + Span(res)
      BY <1>9, <1>10, <2>2 DEF BucketEnd
    <3>4. w.at + days <= pass.clock /\ pass.clock \in Nat
      BY <1>2, <1>10, <2>2 DEF Invariant, TypeOK, Running
    <3> HIDE DEF days, home
    <3> QED
      BY <1>2, <3>1, <3>2, <3>3, <3>4
  <2> QED
    BY <1>1, <2>1, <2>2
<1>11. ASSUME pass # None, BuiltSoFar PROVE BuiltSoFar'
  <2> SUFFICES ASSUME NEW d \in delivered', NEW res \in Resolutions, res = Head(pass.left), InTime(d, res),
                      BucketEnd(res, Home(d, res)) <= pass.clock, Home(d, res) < pass.cursor
               PROVE  Safe(d, res)
    BY <1>1, <1>3 DEF BuiltSoFar
  <2>1. CASE d \in delivered
    BY <1>11, <2>1 DEF BuiltSoFar
  <2>2. CASE d = new
    <3>1. BucketEnd(res, Home(new, res)) \in Nat /\ pass.clock \in Nat
      BY <1>2, <1>11, BucketFacts, NextBucket DEF Home, Invariant, TypeOK, Running
    <3>2. pass.clock < BucketEnd(res, Home(new, res))
      BY <1>9, <1>11, <2>2
    <3> HIDE DEF new
    <3> QED
      BY <2>2, <3>1, <3>2
  <2> QED
    BY <1>1, <2>1, <2>2
<1>12. PassKeepsUp'
  <2> HIDE DEF new
  <2> QED
    BY <1>1, <1>10, <1>11 DEF Invariant, PassKeepsUp, Upcoming, Starts, Horizon
<1> QED
  BY <1>4, <1>5, <1>6, <1>7, <1>8, <1>12 DEF Invariant

LEMMA MeasureStep == ASSUME Invariant, NEW w \in Window, Measure(w) PROVE Invariant'
<1>1. pending' = pending \cup {w} /\ UNCHANGED <<now, delivered, raw, rollups, pass>>
  BY DEF Measure
<1>2. TypeOK'
  BY <1>1 DEF Invariant, TypeOK
<1>3. PassKeepsUp'
  BY <1>1 DEF Invariant, PassKeepsUp, Upcoming, Finished, BuiltSoFar, Starts, Safe, SummedUp,
              Expired, Horizon
<1> QED
  BY <1>1, <1>2, <1>3, PassOnly

LEMMA StutterStep == ASSUME Invariant, UNCHANGED vars PROVE Invariant'
<1>1. UNCHANGED <<now, pending, delivered, raw, rollups, pass>>
  BY DEF vars
<1>2. TypeOK'
  BY <1>1 DEF Invariant, TypeOK
<1>3. PassKeepsUp'
  BY <1>1 DEF Invariant, PassKeepsUp, Upcoming, Finished, BuiltSoFar, Starts, Safe, SummedUp,
              Expired, Horizon
<1> QED
  BY <1>1, <1>2, <1>3, PassOnly

LEMMA NextInvariant == ASSUME Invariant, RunsSuffice, [Next]_vars PROVE Invariant'
<1>1. ASSUME Fail \/ Crash PROVE Invariant'
  BY <1>1, PassEnds DEF Fail, Crash
<1> QED
  BY <1>1, StartPassStep, ReadOutstandingStep, BuildBucketStep, EndResolutionStep, PruneRawStep,
     DropPartitionsStep, PruneRollupsStep, TickStep, DeliverStep, MeasureStep, StutterStep
     DEF Next, Pass

-----------------------------------------------------------------------------
(* The rollups are complete wherever the runs suffice.                      *)

\* The invariant holds as long as no run stops short of what is about to be removed.
LEMMA InvariantHolds == Spec /\ []RunsSuffice => []Invariant
<1>1. Init => Invariant
  BY InitInvariant
<1>2. Invariant /\ RunsSuffice /\ [Next]_vars => Invariant'
  BY NextInvariant
<1> QED
  BY <1>1, <1>2, PTL DEF Spec

LEMMA InvariantSums == ASSUME Invariant PROVE SumsAreComplete
<1> SUFFICES ASSUME NEW r \in rollups, Retained(r)
             PROVE  /\ \A d \in delivered :
                          /\ d.window.series = r.series /\ InBucket(d.window, r.res, r.start)
                          /\ InTime(d, r.res)
                          => d.window \in r.windows
                    /\ \A w \in r.windows : \E d \in delivered :
                          /\ d.window = w /\ d.window.series = r.series
                          /\ InBucket(d.window, r.res, r.start)
  BY DEF SumsAreComplete
<1>1. r.res \in Resolutions /\ r.start \in Nat /\ Starts(r.res, r.start)
  BY DEF Invariant, TypeOK, RowsOfTheirBuckets
<1>2. ASSUME NEW d \in delivered, d.window.series = r.series,
             InBucket(d.window, r.res, r.start), InTime(d, r.res)
      PROVE  d.window \in r.windows
  <2>1. d.window.at \in Nat
    BY <1>1, DeliveryFacts
  <2>2. Home(d, r.res) = r.start
    BY <1>1, <1>2, <2>1, BucketOf DEF Home, InBucket
  <2>3. Safe(d, r.res)
    BY <1>2, <2>2 DEF Invariant, BucketsAreWhole
  <2>4. ~Expired(d, r.res)
    BY <2>2, RetainedNotExpired
  <2>5. PICK q \in rollups : q.res = r.res /\ d.window \in q.windows
    BY <2>3, <2>4 DEF Safe, SummedUp
  <2>6. q.series = r.series /\ q.start = r.start
    BY <1>2, <2>2, <2>5, SummedAtHome
  <2>7. q = r
    BY <2>5, <2>6 DEF Invariant, RowsAreSingle
  <2> QED
    BY <2>5, <2>7
<1>3. \A w \in r.windows : \E d \in delivered :
          /\ d.window = w /\ d.window.series = r.series /\ InBucket(d.window, r.res, r.start)
  BY DEF Invariant, RowsOfTheirBuckets
<1> QED
  BY <1>2, <1>3

LEMMA InvariantAged == ASSUME Invariant PROVE AgedOutIsSummedUp
<1> SUFFICES ASSUME NEW d \in delivered, d.window \notin raw
             PROVE  /\ InTime(d, "weekly") => SummedUp(d.window, "weekly")
                    /\ InTime(d, "daily") =>
                          SummedUp(d.window, "daily") \/ d.window.at < Horizon(DailyDays)
                    /\ InTime(d, "hourly") =>
                          SummedUp(d.window, "hourly") \/ d.window.at < Horizon(HourlyDays)
  BY DEF AgedOutIsSummedUp
<1>1. \A res \in Resolutions : InTime(d, res) => SummedUp(d.window, res) \/ Expired(d, res)
  BY DEF Invariant, NothingMissing, Safe
<1>2. ~Expired(d, "weekly") /\ {"weekly", "daily", "hourly"} \subseteq Resolutions
  BY DEF Expired, Resolutions
<1>3. /\ Expired(d, "daily") => d.window.at < Horizon(DailyDays)
      /\ Expired(d, "hourly") => d.window.at < Horizon(HourlyDays)
  BY DEF Expired
<1> QED
  BY <1>1, <1>2, <1>3

\* A rollup that is not past its retention sums up every window of its series and
\* bucket that came in before the bucket was over, and nothing else, whatever fails
\* or stops: rollup.rs writes a row once and never again.
THEOREM RollupsAreComplete == Spec /\ []RunsSuffice => []SumsAreComplete
  BY InvariantHolds, InvariantSums, PTL

\* No window that came in time leaves the measurements table before the rollups have
\* it: prune_raw runs only after run_all went through, and a run that stops at
\* MAX_BUCKETS_PER_RUN has built the buckets of what is removed.
THEOREM NothingAgesOutUnsummed == Spec /\ []RunsSuffice => []AgedOutIsSummedUp
  BY InvariantHolds, InvariantAged, PTL

-----------------------------------------------------------------------------
(* When the runs suffice.                                                   *)

\* No window is in the measurements table for longer than raw windows are kept and
\* as many hours more as a run builds buckets.
BacklogFits == \A w \in raw : now < w.at + Day * RawDays + MaxBuckets

\* A run is never further behind than the buckets it may still build.
BuildsAhead ==
    pass # None =>
        /\ pass.at = "read" => pass.built = 0
        /\ pass.at = "build" =>
              IF pass.built = 0
              THEN pass.clock + 1 < pass.cursor + Span(Head(pass.left)) + Day * RawDays + MaxBuckets
              ELSE pass.clock + pass.built < pass.cursor + Day * RawDays + MaxBuckets

LEMMA AheadSuffices == ASSUME Invariant, BuildsAhead PROVE RunsSuffice
<1> SUFFICES ASSUME pass # None, pass.at = "build", pass.built = MaxBuckets
             PROVE  pass.clock < pass.cursor + Day * RawDays
  BY DEF RunsSuffice, Building
<1> DEFINE days == Day * RawDays
<1>1. pass.clock \in Nat /\ pass.cursor \in Nat /\ MaxBuckets \in Nat \ {0}
  BY RetentionAssumption DEF Invariant, TypeOK, Running
<1>2. days \in Nat
  BY SpanFits DEF Resolutions
<1>3. pass.clock + MaxBuckets < pass.cursor + days + MaxBuckets
  BY <1>1 DEF BuildsAhead
<1> HIDE DEF days
<1> QED
  BY <1>1, <1>2, <1>3 DEF days

\* From the oldest window on, a run begins at most its bucket's length behind.
LEMMA ReadAhead == ASSUME Invariant, BuildsAhead, BacklogFits, ReadOutstanding PROVE BuildsAhead'
<1> DEFINE res == Head(pass.left)
           ats == {w.at : w \in raw}
           oldest == Min(ats)
           first == BucketStart(res, oldest)
           stored == StoredFrom(res, first)
           next == Unbuilt(res, first, stored)
           days == Day * RawDays
<1>1. /\ pass # None /\ pass.at = "read" /\ pass.built = 0
      /\ pass' = IF raw = {} THEN NextResolution
                 ELSE [pass EXCEPT !.at = "build", !.stored = stored, !.cursor = next]
  BY DEF ReadOutstanding, BuildsAhead
<1>2. /\ pass \in Running /\ pass.left # << >> /\ pass.left \in Lefts
      /\ pass.clock \in Nat /\ pass.clock <= now
  BY <1>1 DEF Invariant, TypeOK, PassKeepsUp, Running
<1>3. res \in Resolutions
  BY <1>2, LeftFacts
<1>4. CASE raw = {}
  <2>1. pass'.at # "build" /\ pass'.built = 0
    BY <1>1, <1>2, <1>4 DEF NextResolution, Running
  <2> QED
    BY <2>1 DEF BuildsAhead
<1>5. CASE raw # {}
  <2>1. ats \in SUBSET Nat /\ ats # {}
    BY <1>5 DEF Invariant, TypeOK, Window
  <2>2. oldest \in ats /\ oldest \in Nat
    BY <2>1, MinFacts
  <2>3. now < oldest + days + MaxBuckets
    BY <2>2 DEF BacklogFits
  <2>4. first \in Nat /\ Starts(res, first) /\ oldest < first + Span(res)
    BY <1>3, <2>2, BucketFacts DEF BucketEnd
  <2>5. stored \in SUBSET Nat /\ \A b \in stored : b < MaxNow
    <3> SUFFICES ASSUME NEW b \in stored PROVE b \in Nat /\ b < MaxNow
      OBVIOUS
    <3>1. PICK r \in rollups : r.res = res /\ r.start = b
      BY DEF StoredFrom
    <3> QED
      BY <1>3, <3>1, StoredAreOver
  <2>6. next \in Nat /\ first <= next
    BY <1>3, <2>4, <2>5, UnbuiltFacts, BoundAssumption
  <2>7. days \in Nat /\ Span(res) \in Nat /\ MaxBuckets \in Nat /\ now \in Nat
    BY <1>3, SpanType, SpanFits, HorizonsAre, RetentionAssumption
  <2>8. /\ pass'.at = "build" /\ pass'.left = pass.left /\ pass'.clock = pass.clock
        /\ pass'.built = 0 /\ pass'.cursor = next
    <3> HIDE DEF stored, next
    <3> QED
      BY <1>1, <1>2, <1>5 DEF Running
  <2>9. pass.clock + 1 < next + Span(res) + days + MaxBuckets
    <3> HIDE DEF next, first, oldest, days, res
    <3> QED
      BY <1>2, <2>2, <2>3, <2>4, <2>6, <2>7
  <2> HIDE DEF next
  <2> QED
    BY <2>8, <2>9 DEF BuildsAhead, Span
<1> QED
  BY <1>4, <1>5

\* Every bucket that a run builds, or finds empty, takes it a bucket's length on.
LEMMA BuildAhead == ASSUME Invariant, BuildsAhead, BuildBucket PROVE BuildsAhead'
<1> DEFINE days == Day * RawDays
<1>1. /\ pass # None /\ pass.at = "build" /\ pass \in Running
      /\ pass.left # << >> /\ pass.left \in Lefts
  BY DEF BuildBucket, Building, Invariant, TypeOK, PassKeepsUp, Running
<1>2. PICK res \in Resolutions : res = Head(pass.left)
  BY <1>1, LeftFacts
<1> DEFINE next == Unbuilt(res, BucketEnd(res, pass.cursor), pass.stored)
<1>3. pass' = [pass EXCEPT !.cursor = next, !.built = pass.built + 1]
  BY <1>2 DEF BuildBucket
<1>4. /\ pass.clock \in Nat /\ pass.cursor \in Nat /\ pass.built \in Nat
      /\ pass.stored \in SUBSET Nat
  BY <1>1 DEF Running
<1>5. \A b \in pass.stored : b < MaxNow
  <2> SUFFICES ASSUME NEW b \in pass.stored PROVE b < MaxNow
    OBVIOUS
  <2>1. PICK r \in rollups : r.res = res /\ r.start = b
    BY <1>1, <1>2 DEF Invariant, PassKeepsUp
  <2> QED
    BY <2>1, StoredAreOver
<1>6. Starts(res, pass.cursor)
  BY <1>1, <1>2 DEF Invariant, PassKeepsUp
<1>7. BucketEnd(res, pass.cursor) \in Nat /\ Starts(res, BucketEnd(res, pass.cursor))
  BY <1>4, <1>6, NextBucket
<1>8. next \in Nat /\ pass.cursor + Span(res) <= next
  <2>1. next \in Nat /\ BucketEnd(res, pass.cursor) <= next
    BY <1>4, <1>5, <1>7, UnbuiltFacts, BoundAssumption
  <2> QED
    BY <2>1 DEF BucketEnd
<1>9. /\ pass'.at = "build" /\ pass'.clock = pass.clock /\ pass'.cursor = next
      /\ pass'.built = pass.built + 1
  <2> HIDE DEF next
  <2> QED
    BY <1>1, <1>3 DEF Running
<1>10. pass.clock + (pass.built + 1) < next + days + MaxBuckets
  <2>1. days \in Nat /\ Span(res) \in Nat \ {0} /\ MaxBuckets \in Nat
    BY SpanType, SpanFits, RetentionAssumption
  <2>2. CASE pass.built = 0
    <3>1. pass.clock + 1 < pass.cursor + Span(res) + days + MaxBuckets
      BY <1>1, <1>2, <2>2 DEF BuildsAhead
    <3> HIDE DEF next, days
    <3> QED
      BY <1>4, <1>8, <2>1, <2>2, <3>1
  <2>3. CASE pass.built # 0
    <3>1. pass.clock + pass.built < pass.cursor + days + MaxBuckets
      BY <1>1, <2>3 DEF BuildsAhead
    <3>2. Span(res) \in Nat /\ 1 <= Span(res) /\ days \in Nat /\ MaxBuckets \in Nat
      BY <2>1
    <3> HIDE DEF next, days
    <3>3. pass.cursor + 1 <= next
      BY <1>4, <1>8, <3>2
    <3> QED
      BY <1>4, <1>8, <3>1, <3>2, <3>3
  <2> QED
    BY <2>2, <2>3
<1>11. pass'.built # 0
  BY <1>4, <1>9
<1> HIDE DEF next
<1> QED
  BY <1>9, <1>10, <1>11 DEF BuildsAhead

LEMMA AheadStep == ASSUME Invariant, BuildsAhead, BacklogFits, [Next]_vars PROVE BuildsAhead'
<1>1. ASSUME UNCHANGED pass PROVE BuildsAhead'
  BY <1>1 DEF BuildsAhead, Span
<1>2. ASSUME pass' = None PROVE BuildsAhead'
  BY <1>2 DEF BuildsAhead
<1>3. ASSUME pass'.at \notin {"read", "build"} PROVE BuildsAhead'
  BY <1>3 DEF BuildsAhead
<1>4. CASE StartPass
  BY <1>4 DEF StartPass, BuildsAhead
<1>5. CASE EndResolution
  <2>1. pass \in Running
    BY <1>5 DEF EndResolution, Building, Invariant, TypeOK
  <2>2. pass'.built = 0 /\ pass'.at # "build"
    BY <1>5, <2>1 DEF EndResolution, NextResolution, Running
  <2> QED
    BY <2>2 DEF BuildsAhead
<1>6. ASSUME PruneRaw \/ DropPartitions PROVE pass'.at \in {"drop", "trim"}
  BY <1>6 DEF PruneRaw, DropPartitions, Invariant, TypeOK, Running
<1>7. ASSUME Fail \/ PruneRollups \/ Crash PROVE pass' = None
  BY <1>7 DEF Fail, PruneRollups, Crash
<1>8. ASSUME Tick \/ (\E w \in Window : Measure(w) \/ Deliver(w)) \/ UNCHANGED vars PROVE UNCHANGED pass
  BY <1>8 DEF Tick, Measure, Deliver, vars
<1> QED
  BY <1>1, <1>2, <1>3, <1>4, <1>5, <1>6, <1>7, <1>8, ReadAhead, BuildAhead DEF Next, Pass

\* No run stops short of what is about to be removed unless a window is in the
\* measurements table longer than its retention and MAX_BUCKETS_PER_RUN hours more.
THEOREM BacklogsThatFitSuffice == Spec /\ []BacklogFits => []RunsSuffice
<1>1. Init => Invariant /\ BuildsAhead
  BY InitInvariant DEF Init, BuildsAhead
<1>2. Invariant /\ BuildsAhead => RunsSuffice
  BY AheadSuffices
<1>3. Invariant /\ BuildsAhead /\ BacklogFits /\ [Next]_vars => (Invariant /\ BuildsAhead)'
  BY AheadSuffices, NextInvariant, AheadStep
<1> QED
  BY <1>1, <1>2, <1>3, PTL DEF Spec

=============================================================================
