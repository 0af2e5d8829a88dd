# Spektra: specifications and proofs

Spektra measures radio channels with a fleet of nodes. A node samples with a radio,
aggregates what it measures into windows and reports them to one server, which stores
them, detects deviations and silence, and lets people act on the alarms. This directory
models, in TLA+, the parts of it in which several actors share state and the algorithms they
rely on: TLC checks the modules on small instances, TLAPS proves theorems for all instances.
Source paths are relative to the root of the repository.

## The system

| Component | State it keeps | Operations | Hard because |
|---|---|---|---|
| Alarms and work orders (`server/src/api/alarms.rs`, `work_orders.rs`, `visibility.rs`) | rows `alarms`, `alarm_events`, `work_orders`; broadcast channel | transition, dispatch, complete | handlers read access on one connection, lock and commit on another, broadcast after that; they may fail or be dropped at every await |
| Detector (`server/src/jobs/detector.rs`, `jobs/mod.rs`) | none between passes | a pass: deviations, silences, read-back, announcement | no locks, one transaction per alarm, every statement may fail, handlers run meanwhile |
| Journal and delivery (`node-agent/src/report.rs`, `main.rs`, `client.rs`) | open window, journal file | close a window, push, deliver, trim, shut down, restart | lost answers, torn writes, crashes, a clock that steps, a size limit |
| Ingest (`server/src/grpc/`) | `measurements`, `node_credentials` | authenticate, store once | retries of writes that are still running, rounding of times |
| Enrollment (`node-agent/src/identity.rs`, `client.rs`, `server/src/grpc/mod.rs`, `api/admin.rs`) | identity file; `nodes.external_identity`, `node_credentials` | plan, rotate, register, store | two sides that must agree through lost answers and crashes; racing administrators and boxes |
| Channel plan (`server/src/api/nodes.rs`, `grpc/persist.rs`, `node-agent/src/plan.rs`) | `node_channels`, a version counted by a trigger; plan in memory and on disk | assign, read, refresh, restart | two statements per read; a node that thinks it is up to date never asks again |
| Live inspection (`server/src/live.rs`, `node-agent/src/live.rs`) | session and command queue at the server, session at the node | open, renew, release, sweep, watch, submit | commands, acks and deadlines of the same session cross; streams stall; ids start over |
| Rollups and retention (`server/src/jobs/rollup.rs`, `jobs/mod.rs`, `partitions.rs`) | `measurements`, `rollups` | build buckets, prune | a pass is many statements; deletion is final; windows arrive late |
| Partitions (`server/src/jobs/partitions.rs`, `mod.rs`) | daily tables and the default one | ensure, backfill, delete, drop | rows come in between the statements, and for any earlier day |
| Dashboard feed (`server/src/api/ws.rs`, `state.rs`) | a queue per receiver, node events kept for a flush, what the browser shows | publish, receive, flush, read again | receivers that fall behind, events out of order, access read once |
| Accounts (`server/src/api/auth.rs`, `admin.rs`) | `users`, `sessions`, open sockets | login, logout, create, update, revalidate | the caller is looked at in one statement and the change made in another |
| Report schedule and clocks (`server/src/grpc/mod.rs`, `protocol`, `node-agent/src/client.rs`) | the delay and the clock offset a node was last told | answer, sleep, observe, report | two clocks, answers on their way, a stale offset |
| Sampler (`node-agent/src/sampler.rs`, `main.rs`) | a thread's round, the estimator's samples | borrow a plan, tune, read, finish | plan, radio, thread and agent change or end under each other |
| Signal processing (`node-agent/src/dsp/`) | what a filter carries from block to block | filter, discriminate, transform, synchronise, derive | any cut of the samples; guards that run out at some tunings; bursts |
| Windows and validation (`node-agent/src/report.rs`, `server/src/grpc/validate.rs`) | the open window | record, close, check | both sides must agree on what is valid, or a journal is stuck |
| Baselines and verdicts (`server/src/jobs/detector.rs`) | none | baseline, judge | hours that differ, faults in the past |
| Operational metrics (`server/src/ops.rs`) | counters, stamps, a history of samples | count, sample, rate, list problems | a short or forgetting history, a sampling loop that is held up |
| Health readings, configuration, pages, notifier, emulator, deployment | | | input and output, or read-only |

How they interact: nodes call the server over gRPC (register, submit, health, plan, live
samples) and hold one stream open on which it sends live commands. The server's handlers
and jobs share PostgreSQL in READ COMMITTED and hand events to open dashboards through
broadcast channels. Ingest and the two jobs share one connection pool, the web handlers
have another.

What makes each correct:

- *Alarms*: one open alarm per subject; an unbroken history for each; a completed visit
  closes its alarm; technicians act only on their nodes; dashboards hear of what was
  committed and of all of it; a standing deviation is raised again.
- *Delivery*: no report is lost or stored twice; the oldest leave first; every window that can be stored, and is not behind one that cannot, lands.
- *Enrollment*: one box per node, one live credential per node, a file that agrees with the
  server.
- *Channel plan and sampler*: current version means current channels; every assignment gets to
  the node and its thread; a reading is of its channel.
- *Live inspection*: the node runs the server's session and no other; it stops by itself.
- *Rollups and partitions*: sums of what came in time; nothing leaves before it is summed up and
  past its retention; what is backfilled leaves the default partition.
- *Accounts*: an administrator remains; a dismissed user's socket closes.
- *Feed*: a dashboard comes to show the last event and the current row.
- *Readings*: filters do not see where blocks were cut; a floor is the noise's; RDS counts are
  exact; what a node sends is valid; slots and health survive a wrong clock; a regular day raises
  nothing and a lasting fault is seen; rates count their calls.

## Modules

| Module | Models | State and actions |
|---|---|---|
| `AlarmContract` | what the alarm rows promise, without requests, locks or passes | state of each alarm and order; raise, move, dispatch, complete |
| `Alarms` | handlers, detector and broadcast | committed rows; a phase per request (idle, sent, order locked, locked, publishing), with the access it resolved and the state it read; a phase for the pass and the subjects it has left; faults "db", "disconnect", "crash" |
| `Delivery` | node agent and ingest for one node | reports are numbered; journal as a sequence with torn records; delivery loop with the call's phase; writes that outlive their call; faults "network", "crash", "disk", "torn", "clock", "suspend" |
| `Enrollment` | administrators, boxes and registration | a credential's node and revocation, a node's identity, a rotation between its two statements; each box's token, file, phase and registration under way |
| `ChannelPlan` | assignment, version trigger, polling, cache | `assigned` and `version`; a poll between two statements; plan and cache |
| `LiveSession` | sessions of one node and its viewers | session, queue and receiver at the server; stream, session and awaited ack at the node |
| `Rollup` | maintenance passes | windows with the hour they came in, rollups as the sets of windows they sum up, a pass by statement |
| `Partitions` | the same passes by row and day | which partition each row is in, the days attached; ensure, delete, drop |
| `ReportChannel` | what journal and ingest promise between them | the fate of each report; make, take |
| `Sampler` | extends `ChannelPlan` by the thread that runs the plan | agent, thread, the round it has left, the channels whose samples the estimator holds |
| `Accounts` | requests of users and administrators, sockets | accounts, sessions; a phase per request (verified, known, cleared, upgrading); the token of each socket |
| `Feed` | publishers, one socket, one browser | committed and published changes, two receivers, kept events, what is shown |
| `Cadence` | report slots, delays, clock offsets | the server's clock within its cycle; per node the delay, the time to its delivery, its skew |
| `Windows` | aggregator, live readings, the server's checks | clock, samples held; record, close; `Accepts`, `AcceptsLive` |
| `Detection` | baseline and judgement of one series | the mean of every window; faults that come and go; examine |
| `Streams` | decimator, discriminator, segmentation | samples by tuning and place; filters hold what they carry |
| `Rds` | decoder against a transmitter | words as sets of bits; synchronisation, checkwords, counts |
| `Spectrum` | bins, bands, guards, floor, readings | a receiver, a channel, signals on the air; derive |
| `Ops` | counters and problems | counters, stamps, history |
| `AlarmsProofs`, `DeliveryProofs`, `EnrollmentProofs`, `ChannelPlanProofs`, `LiveSessionProofs`, `RollupProofs`, `AccountsProofs` | theorems | extend the module they are about, `ChannelPlanProofs` by way of `Sampler` |
| `ReadingsProofs` | theorems about seven machines of `MCReadings` | extends `Partitions`, `Ops`, `Streams`, `Cadence`, `Windows`, `Detection`, `Rds` |
| `MCAlarms`, `MCEnrollment`, `MCRollup` | small worlds, symmetry | |
| `MCDashboard`, `MCReadings` | machines that share no state, checked side by side: a behaviour is one of any of them | `part` says which |

Conventions. A statement or transaction of PostgreSQL is one action; a handler that takes a
row lock is split at the lock, so others run in between. The agent's `select!` loop runs one
branch to its end, so there an action is what happens between two awaits of that branch. A mutex
(`live.rs`) makes an operation one action. What fails is listed in `Faults`: a run
leaves a fault out when its question is what holds without it. Operators named after a
mistake (`...Anyway`, `...Blindly`, `...AnyTime`, introduced by "What if") are not part of the
specifications: each is a plausible bug that the property it stands next to catches.

Abstractions. Where the question is one of order and failure, data are left out: in `Rollup` a
rollup is the set of windows it sums up, in `Delivery` a report is the window it covers, in `Alarms`
a series deviates or does not. The arithmetic has modules of its own, over integers: a mean
is left as its sum and its count, a median is doubled, a square root is compared squared, frequencies are
in quarters of a Hz, power is linear and not in dB. In `Streams` a filtered sample is the segment it was
made from, so equality means that the same products are summed in the same order. Left out are the
FFT, window functions and values of taps, and rounding. Tokens and identities are drawn fresh. `Alarms`
restarts the server, but connections to PostgreSQL that outlive it are not modelled. A few
details are left out where no property turns on them: the error of the local oscillator, which `derive` adds to every
offset (`metrics.rs:145`); the protocol's version, the band of a frequency and the length of a label, which the node
takes from the server's own plan and constants (`validate.rs:93`, `validate.rs:122`, `persist.rs:82`); the least spread of a baseline,
a millionth, which integers cannot tell from none (`detector.rs:46`); and products of node numbers that wrap, which take numbers no
database gets to (`grpc/mod.rs:42`). In `Detection` the spread within an hour is the range of its windows, where a rollup pools their
deviations (`rollup.rs:255`); in `Cadence` a delivery is one call, so one that is answered and then fails
for a later report, and sleeps from there, is not one of its steps (`main.rs:271`); in `Rollup` the two DELETEs of rollups
are one step in which either may fail. `Feed`
has one socket, since no state is shared between two; live samples share its loop and change nothing
else.

How the modules meet: `Sampler` extends `ChannelPlan`; `Delivery` implements `ReportChannel` and
`Alarms` implements `AlarmContract`; what `Windows` calls `Unstorable` is what `Delivery` calls
not `Storable`; the passes of `Rollup` and `Partitions` are the same ones, seen by window and by
row; a series that deviates in `Alarms` is a verdict of `Detection`; the events of `Feed` are the broadcasts of
`Alarms`.

## Runs

Runs that pass:

| Run | Question | Bounds |
|---|---|---|
| `alarms_lifecycle` | do handlers that race keep histories whole, act only where they may, close visited alarms, broadcast only what is committed, and implement `AlarmContract`? | 2 requests, 1 alarm, 1 order, a technician and an operator; failed statements, clients that hang up, restarts |
| `alarms_progress` | one open alarm per subject, every step broadcast, a standing deviation raised again? | a series and its node, 2 alarms, an operator; no fault |
| `delivery_outages` | is a report ever lost, or dropped as soon as it is pushed, does the whole behave as `ReportChannel`, which takes reports in order and drops the oldest? | journal of 2, 3 reports, half-second clock of 4; lost calls, crashes, failed writes, torn records, suspension |
| `delivery_lands` | is a window ever stored twice, which reports land, and what keeps the others? | 2 reports, windows down to half a second, half-second clock of 3; lost calls, torn records, a clock set back while there is a report to build |
| `enrollment_races` | one box per node, one credential, agreeing files? | 2 nodes, 2 boxes, 3 tokens, 2 rotations; every fault |
| `sampler_follows` | can a node run other channels under the current version, does an assignment arrive, through poll, cache and plan, at the thread that measures? | 2 channels, 3 changed rows; every fault of network, disk, radio, thread and agent |
| `live_follows` | does the node run the server's session, stop when nobody watches, and sample for a panel that stays open? | 2 viewers, queue of 2, 4 ids; every fault |
| `rollup_passes` | are sums of what came in time complete, and nothing deleted before? | 2 series, 2 windows that may come 2 at a time and late, 9 hours, days of 2 hours, weeks of 2 days; failing, interrupted and missing passes |
| `dashboard` | who can be left without an administrator, do dismissed sockets close, does a page come to show what is? | 2 accounts, 2 tokens, 2 requests, 1 socket, 3 changes of an account; 2 nodes, 1 alarm, receivers of 2, 2 changes of each |
| `readings` | does each of the eight machines of `MCReadings` keep its promise? | see below |

Where a component promises several things of one kind, the run checks their conjunction: `ReadingsStandOnNoise`,
`BlocksAreCounted`, `PageIsTrue`, `VerdictsAreJust` and `DashboardsCatchUp` are made of parts with
names and comments of their own. `TypeOK` of `Delivery`, `LiveSession`, `ChannelPlan` and `Accounts` says what the variables
hold; no run spends a property on it, and all four are proved, as parts of an inductive invariant.

Why the bounds are enough. Every race in the code is between two parties over one row, and
a third can only repeat one of their parts; two requests, boxes, rotations, viewers or accounts
show it. Faults are unlimited in number, only their effects are bounded by the rows there
are. The detector's loop is over subjects, and two, a series and its node, give a pass work before
and after a step of somebody else. A journal of two records makes the limit bite while
a batch is on its way. In `delivery_lands` two reports are one that is refused and one before or behind it, or two of one
second; it has neither crashes nor suspensions, under which no call need ever end well. The two runs of `Alarms` split its faults from its liveness, which no one could
promise under endless restarts; `OneOpenAlarmPerSubject` is proved for both. Rollups need a
week to end and leave the retention: with days of two hours and weeks of two days that is six
hours, of nine. A receiver of two falls behind at the third event. The proofs remove
these bounds where they exist.

In `readings`, every machine has its own:

- `Streams`: up to 9 samples of each of 2 tunings (`MaxSamples`, `MaxTunings`) in blocks of 0 to 4
  (`MaxBlock`), with filters of 1 to 3 taps, factors 1, 2, 4 and half-lengths 1, 2. A block can be
  shorter than the filter and a step longer than a block, which are the two cases there are.
- `Rds`: streams of 3 groups (`Groups`) that lack 0, 26 or 103 bits of the first (`Starts`), of both
  versions, inverted or not, with a wrong level in any of four places, and one block with any pattern of
  flipped bits within 6 (`MaxBurst`) anywhere in it. The generator and the offset words are the code's own. The code is linear, so one
  information word (`Infos`) stands for all as far as bursts go: `NoBurstPasses` proves that, and for bursts of ten bits.
- `Spectrum`: two of the receivers have 512 bins at 2.4 and 6.0 Ms/s, in quarters of a Hz, and two are
  short of what a metric takes; DAB blocks at both ends of the raster and beside a wider gap, FM with
  bandwidths wide enough to run out of a guard; two signals (`MaxSignals`) of two levels (`Levels`).
  `Noise` is not symmetric. `Tunings` and `Levels` are samples, not all there are.
- `Windows`: four dwells (`MaxDwells`) of seven kinds, at and beyond the ranges of a metric, and a clock
  that stands, runs on, or jumps a day (`Clocks`).
- `Cadence`: one node, a short and a long cycle, an answer at once or after 50 s (`Waits`), a clock two
  hours ahead or two seconds behind (`Skews`), two deliveries without an answer (`MaxMissed`). Nodes
  share no state here but the cycle; their slots are what `SlotSpread` makes of their number.
- `Detection`: 22 windows (`MaxWindows`), days of two hours of three windows, four days of
  baseline, a fault that comes, goes and comes again (`MaxSwitches`).
- `Ops`: four units of time (`MaxNow`) with a history of three samples and rates over two, so it is short first and
  forgets later; two calls (`MaxCalls`) of any outcome.
- `Partitions`: six days (`MaxDay`), of which two are retained, and two windows (`MaxRows`) of any day.

Bounds by name, elsewhere: `MaxReports`, `MaxClock` (Delivery), `Tokens`, `Identities` (Enrollment: a box
that finds none left waits), `AlarmIds`, `OrderIds` (Alarms), `MaxVersion` (ChannelPlan), `Ids`
(LiveSession: ids in use at once), `MaxNow`, `MaxWindows`, `MaxLate` (Rollup), `MaxChanges` (Feed),
`Tokens` (Accounts: a token is drawn once). In `rollup_passes` `MaxBuckets` exceeds the hours there are, as 512
exceeds the 336 hours of the raw retention; a pass takes an hour at most. Two runs allow deadlock: in
`readings` the bounds end most machines, in `dashboard` a fleet without an active account is one
nobody can act in.

Fairness. Jobs run on timers, so a pass goes on (`WF` of `Detect`). The agent's timers
keep firing and the network lets calls through again and again, not always
(`SF` of each step of a delivery or a poll; `WF` of polling and restarting); a refusal is an answer, and
a report that is always refused stays, however fair the network. Of an answered call the
task that awaits it goes on. In live sessions `select!` picks among ready branches
at random, so none is passed over for ever (`SF` of `Receive` and `RunOut`), and an open panel
renews (`WF`). The sampler's
thread runs and a dwell ends (`WF` of `ThreadSteps`); an ended process is started again. A socket's timer
revalidates it and the database answers again and again (`SF` of `Revalidate`, since a failed query leaves
the socket open); its loop, its flush and the browser's requests go on (`WF`). Health is reported on a timer (`WF`) and
a node that has something to deliver is answered again and again (`SF` of `Delivered`). Nothing is assumed of people, of faults, or of how long a call takes. That a call
ends at all is assumed, although the agent sets no timeout: with a connection that neither answers nor fails
the agent waits for ever.

Runs that find a violation, each of something the repository says:

| Run | What happens |
|---|---|
| `alarms_unannounced` | a failed statement after a committed raise: the alarm is open and never announced (`docs/Produktrapport.md`, K6) |
| `sampler_mixes` | a dwell that fails in the middle leaves its samples in the estimator, and the next channel is measured with them (`welch.rs:74`, `sampler.rs:43`) |

`PROJECT.json` quotes the lines and tells each story. The modules have more steps of which a
document says otherwise, and no run is spent on them:

- a window that rounds to no length (`Storable`) is refused for ever and holds up the journal (T7,
  `docs/Produktrapport.md:151`, promises "at alle journalførte vinduer lander"). A signal right after a window was closed
  makes one. `JournalledReportsLand` has it, and what is behind it, as an exception (`HeldUp`), and in `delivery_lands`
  TLC finds the property violated without that exception, or if it covers the refused report alone;
- what is appended behind a torn record (`Torn`, `Readable`) is lost, though `push` took it (`report.rs:258`
  holds reports until the server takes them); `NothingLost` allows that and no more: reports before the torn record are safe;
- after the clock was set back a report is acknowledged because another window has its key
  (`KeyTaken`), and is lost; `JournalledReportsLand` has it as its other exception (`SecondTaken`), and is violated without
  it (K3 promises delivery without loss);
- a lost answer, or an identity that cannot be written, leaves a node bound to an identity nobody
  has (`LoseAnswer`, `FailStore`), and every later attempt is refused (`docs/Produktrapport.md:438` promises an identity the
  node keeps across restarts);
- a window that comes after its bucket was built is not in the rollup, ever; `SumsAreComplete` speaks of
  those that came in time (`docs/Produktrapport.md:901`: "Eksakt, Summen");
- two administrators who remove each other at once leave none, where `admin.rs:245` says a change is refused that
  "would leave no admin". `LastAdministratorFallsToARace` has the race as its exception: nothing else leaves none;
- a change of role, or of the orders that let a technician see a node, does not reach a socket that is open:
  `Revalidate` looks at session and activation only; a failed query keeps the socket;
- activating an account again revives the sessions it had (`UpdateUser` leaves them alone);
- the server lists "every ingest call has failed" as soon as one failed and no measurement was taken,
  even if health was; a detector that never finished a pass is no problem of the list (`Problems`);
- `Measurable` looks at the sample rate alone: with 256 bins at 2.4 Ms/s the gap beside block 13D has too few
  bins, and at 1.702 to 1.708 Ms/s so has every DAB block; such a channel is announced and gives no reading.
  `AnnouncedIsMeasured` holds of the receivers in `MCReceivers`, among them none of those;
- when an hour has begun and has no window yet, the windows of the hour before are judged by the new
  hour's baseline (`OnlyTheTurnMisleads`);
- a node whose offset is out of range has its whole health report refused until a measurement
  is answered, although the offset may be of a clock that is right again (`ReportHealth`);
- a window that comes so late that its hour is past the retention of hourly rollups has one built, which
  the same pass trims again; `SumsAreComplete` speaks of rollups within their retention (`Retained`);
- a replaced box is refused for ever although its credential was rotated for it, since nothing
  clears `bound`; a known identity is accepted again, not refused with ALREADY_EXISTS (T1);
- `Send` may lose a command, and the viewer is answered as if the node had been reached
  (`live.rs:41`);
- empty buckets count against `MaxBuckets`, so a window with a stamp from long ago, which the server
  accepts and `Rollup` leaves out, keeps passes busy while other windows are deleted
  unsummarized (K4);
- events are sorted by the time their transactions began (`alarms.rs:154`), which `Alarms`
  leaves out, and need not read as the path the alarm took (`alarms.rs:43`).

## Proofs

The theorems hold for all constants, finite or infinite, that the modules' assumptions allow, and TLAPS
checks them to the last leaf. Nothing else is assumed, but for the theorems with a hypothesis of
their own, which their statements name: `StepsAreHeard` (no fault), `NothingIsLost` and
`ImplementsReportChannel` (no clock that is set back), `PassesAreJust`, `NoBurstPasses`, and those of
`RollupProofs` (below).

*Alarms.* `ReadsStayTrue` is the inductive invariant and at the same time the heart of the matter:
while a request holds a row, what it read and checked is still true, and what the pass is about to raise has
no open alarm. `OneOpenAlarmPerSubject` is not inductive alone, because the detector inserts
without looking again: it needs that nobody but the pass opens alarms (`TodoUnopened`). From
it follow `TypesHold`, `OneOpenAlarm` and `ImplementsContract`: every step is a step of
`AlarmContract` or leaves its variables alone. `VisitsClose` is then derived from the contract's
terms, and `TrailsAreWhole` shows that each event continues the one before it.

Three more are about what is read outside the locks. `HeardIsCommitted`: what a handler or the detector is
about to broadcast is committed already (`AnnouncedAreCommitted`), since no committed step is ever taken back.
`StepsAreHeard` is the converse, and holds only with `Faults = {}`: between commit and broadcast an event
is held in memory alone, so each of the three faults breaks it (`alarms_unannounced` shows one).
`TechniciansAreSent`: a technician's access may be out of date when it is used, but no order is ever deleted or
given to someone else, so whoever was sent to a node once stays among those that were
(`CallsByTheSent`, `RowsKept`).

*Delivery.* `RowsStaySingle` needs the journal in the order of its reports around its torn records, the batch a
copy of what the journal starts with, and that writes which outlive their calls are of reports there
are; a window's row is then stored by one insert alone, with a clock that is set back too. `NothingIsLost`
and `ImplementsReportChannel` assume that the clock is not set back. It is the assumption the code needs: after
such a step two windows can have one key, and the second is acknowledged without a row. The second half of `NothingLost`, that
the limit never drops what was just pushed, is `TrimmedKeepsLast`: over the limit at least the newer half of two records stays. While it only runs on,
windows do not overlap (`WindowsFollow`), what was acknowledged is stored (`AckedAreStored`), and a write
the node gave up on is of a report older than all that wait (`OlderAreStored`), which is
why a late one cannot overtake. The refinement then takes each step to `Make`, `Take`, or
a stutter of the channel. The mapping finds a report's fate in the journal; where it
needs the first record of which something holds, `LeastNumber` gives it, proved from
the library's least-element theorem, as induction over an operator is not available.

*Enrollment.* A file agrees with the server because nothing rebinds a bound node. To be
inductive the same is said of an accepted registration that is not stored yet (`Backed`).
Two boxes with files for one node then hold the same identity, and `Distinct`, that no two boxes
ever hold or try one identity, makes them one box: `OneBoxHoldsANode`. `CredentialsAreSingle` holds
by the unique index alone, whatever rows two rotations saw; `FilesAgree` and `TypesHold` are parts
of the invariant.

*Channel plan.* `PlansAreFaithful`: the invariant adds what may be said of an answer on its way.
While only the version is read it is not ahead of the server's; once the channels are read too, the
answer is faithful, because an assignment in between has moved the version on (`BumpsCount`:
the trigger counts nothing exactly when nothing changes). Reading in the other order would break it.

`SampledPlansAreFaithful` is the same of `Sampler`, which `sampler_follows` runs: its steps are those of
`ChannelPlan`, or leave the plan alone, or end and start the agent, which forgets its poll and
runs what it cached.

*Live inspection.* `NodesFollow` rests on one sentence, `LastWordAgrees`: on a live stream the newest
command, or what the node runs once it has read all, agrees with the server's session. Older commands may
say anything. An ack is the one thing that can end a session from the node's side, and `AckKeeps` says
that one that is on its way is of the session the node runs, so that an answer to an older one
never ends a newer one.

*Rollups.* Two facts carry `RollupsAreComplete` and `NothingAgesOutUnsummed`. `BucketsAreWhole`: a rollup
that is there has all windows that came in before its bucket ended, as it is built after that and nothing
it reads has been removed yet. `PassKeepsUp`: when a pass gets to deletion, every resolution has been built up to what
is deleted. The second is false of a run that stops at `MAX_BUCKETS_PER_RUN` (`rollup.rs:16`) too
early, so the theorems say `Spec /\ []RunsSuffice`: a run that stops there has come as far as
the windows that stay. `BacklogsThatFitSuffice` says when that is so: if no window is in the table for longer
than the retention and `MaxBuckets` hours more, 14 days and 512 hours in the code. A window delivered
weeks late, or passes that fail for weeks, break it, and then the code does delete what it has not summed up.
TLC, with a limit of two buckets, reaches the limit under either hypothesis, and finds `AgedOutIsSummedUp` violated
without one.

*Accounts.* `OnlyARaceRemovesTheLast`: a request that passed the guard does not take its caller's own access
(`NoneClearedAgainstItself`), so whoever removes the last administrator is none any more.

*Readings.* `Partitions`: a row is in its day's partition or in the default one, there only while its day has
none (`RowsFollowTheirDay`), and the cutoff of a pass, taken at its start, is never ahead of the day's
(`CutoffIsOld`); so the default partition is emptied (`PartitionsTakeTheirRows`) and only aged rows go
(`RowsLeaveOnlyOfAge`). `Ops`: a counter, and one in a kept sample, is the number of calls before it
(`CountersCount`, `SamplesCount`), and the difference of two such numbers is a rate (`ThePageIsTrue`).
`Streams`: what each filter carries is a function of the samples read so far and of nothing else
(`DecimatorAt`, `ReferenceAt`, `EstimateAt`); `CutsAgree`, that segments taken from
two blocks are those taken from their concatenation, is the lemma `FiltersAreOfTheWhole` is made of.
`Cadence`: `SlotsStay` is arithmetic of remainders, for any cycle and any delay of an answer.

The other three compute over data of any length. Induction over an operator is not available, but over
the numbers up to a bound it is: `UpTo` derives it from the well-foundedness of `<` and a set in
place of the operator, and `Recursion` derives from it that a function computed along `0 .. n`
exists. What a recursive definition gives is then a lemma with `UpTo` in its proof (`SumIs`, `PickedIs`,
`TakenIs`, `RemaindersAre`), and what a rank or a median is follows from least and greatest members of finite sets
(`Extremes`, `InOrderIs`, `NthOfIs`).

- `Windows`: the invariant `HeldIsMeasured` says that what a window holds is what was measured in it and can be
  used, channel by channel. `WhatIsSentIsTaken` then needs that the server's conditions on a summary follow
  from how it is made (`StatsPass`: the median, the p95 and the mean lie between the least and the greatest value,
  and these in the range), for any samples, NaN among them, and any clock.
  `ReportsAreOfTheWindow` is the same invariant at the step that closes a window.
- `Detection`: `MedianWithin`, that a median lies within whatever more than half of its values lie within, is what makes
  faults of the past harmless. `BucketIs` shows that the buckets of a baseline are the same hour of earlier days,
  `RegularSum` what such an hour sums up to, and `BaselineIsUsual` puts them together: the baseline is within one unit of the usual
  one. `NearIsInside` and `FarIsOutside` are the judgement's inequality of squares at both ends. The two hypotheses
  are needed. With one window in an hour there is no spread within it, and every little difference is a
  deviation; and a fault must be larger than what the spread tolerates: six times what readings differ
  by is enough for any number of windows.
- `Rds`: `NoBurstPasses` is algebra over sets of bits. What is left of a block after division is linear
  (`LeftOfXor`), moving a block up by a bit shifts what is left of it (`LeftOfShifted`), and a shift never empties a register, as
  the generator has bit 0 (`ShiftsKeep`); so a burst of ten bits, wherever it is, leaves something, as it does at the bottom
  of a block. `ValidatesIs` and `EncodedValidates` tie that to the checkword. It is the part `BurstsAreCaught` of
  `BlocksAreCounted`.

Only model-checked, and why:

- liveness and fairness throughout: TLAPS has no reasoning about ENABLED here;
- `DecodesAreExact`, the other part of `BlocksAreCounted`: a group, sent over and over, can be such that it validates out of step
  as well, so the start that is found depends on what is sent;
- `ReadingsStandOnNoise` and `AnnouncedIsMeasured`: they hold of the receivers and of the noise listed in `MCReadings`, and not
  of all: with bins that are wide enough, nothing is left beside a channel that `measurable` accepts;
- every run that ends in a violation.

## What is left

In this order:

1. Conditions on a receiver, in terms of its rate and its bins, under which `ReadingsStandOnNoise` and `AnnouncedIsMeasured` can
   be proved, and on the information for `DecodesAreExact`.
2. Weaker assumptions for the refinement of `ReportChannel`: the channel with a report whose key
   is taken, so that a clock may be set back.
3. Runs for the divergences listed above, for requests that wait for row locks (`SF` of a
   request's steps: PostgreSQL queues waiters), and for alarms of several nodes.
4. The stamps of alarm events, and what a listing sorted by them shows.
5. `Feed` composed with `Alarms`, so that the rows a page loads are those the handlers commit.

Not modelled:

- *FFT, window functions, values of taps, the synthetic source*: floating point; what is said of them would be about rounding.
- *SoapySDR and `/proc`*: input. *Argument parsing*: the limits that matter are assumptions of
  `Delivery` and `Cadence`.
- *Pages, series, templates, errors, OpenAPI*: read-only queries and wording. One edge was met: a series is limited to
  its first 20000 points in ascending order (`series.rs:299`), which cuts the newest.
- *ntfy*: one HTTP call per raised alarm after the broadcast, failures logged. *Emulator, deployment*: tools.
- *Password hashing*: a library; `LoginRead` and `LoginInsert` stand on either side of it.
