# A TLA+ model of the circuit breaker

This directory models the circuit breaker of this repository (`cep21/circuit`)
in TLA+: what its goroutines may do to one another, how a circuit opens and
closes, and what the code promises about it. TLC checks the modules on small
instances, and TLAPS proves its safety properties for any number
of goroutines and any sizes. Paths below are relative to the root of the
repository; line numbers of every modelled definition are in `PROJECT.json`
("map").

## 1. The system

A `Circuit` guards calls to a function that may fail. It is *closed* (calls
run) or *open* (calls are denied, save for probes). Any number of goroutines
call `Execute`; there is no goroutine that belongs to the circuit, so every
step is made by some caller, by a `time.AfterFunc` callback, or by a goroutine
the `Go` wrapper started.

| Component | State | Operations | Works with |
|---|---|---|---|
| circuit transitions (`circuit.go`, `metrics.go`) | `isOpen`, `transitionMu`, `pendingTransitions`, `deliveringTransitions` | `OpenCircuit`, `CloseCircuit`, `transitionTo`, `commitTransition`, `deliverPendingTransitions` | asks and tells the state machines under the lock, calls listeners without it |
| circuit execution (`circuit.go`, `config.go`) | `concurrentCommands`, `concurrentFallbacks`, the atomic configuration | `Execute`, `run`, `fallback`, `SetConfigThreadSafe` | `Allow`, `Prevent`, `ShouldOpen`, `ShouldClose`, the metric collectors, transitions |
| hystrix closer (`closers/hystrix/closer.go`) | `openedAt`, `closedAt`, the success streak, a `TimedCheck` | `Opened`, `Closed`, `Allow`, `Success`, `ErrFailure`, `ErrTimeout`, `ShouldClose` | called by execution with no lock, by transitions under theirs |
| timed check (`faststats/timedcheck.go`) | `isFastFail`, `nextOpenTime`, the event count, a versioned timer | `SleepStart`, `Check`, the timer's callback | owned by the closer |
| rolling counter (`faststats/rolling_bucket.go`, `rolling_counter.go`) | a ring of counters, `LastAbsIndex`, `advanceMu`, `totalSum` | `Inc`, `RollingSumAt`, `Reset`, `Advance`, `rollForward` | owned by the opener and the run statistics |
| hystrix opener (`closers/hystrix/opener.go`) | two rolling counters and thresholds | the run events, `ShouldOpen`, `Opened`, `Closed` | rolling counter |
| simple logic (`closers/simplelogic`) | a count of consecutive errors | the run events, `ShouldOpen` | execution |
| goroutine wrapper (`gowrapper.go`) | two channels per call | `run`, `fallback`, `waitForErrors` | `Circuit.Go`, the context |
| manager (`manager.go`) | the circuits by name, under a lock | `CreateCircuit`, `GetCircuit`, `AllCircuits`, `Var` | the configuration merge |
| configuration (`config.go`) | two copies, one plain and one atomic | `Merge`, `reset` | execution |
| errors (`errors.go`) | none | `IsBadRequest` and the circuit's own errors | execution |
| rolling percentile (`faststats/rolling_percentile.go`) | rings of atomic durations | `AddDuration`, `Snapshot`, percentiles | rolling buckets |
| run statistics (`metrics/rolling`) | a rolling counter per event | the run and fallback events | rolling counter, percentile |
| response time SLO (`metrics/responsetimeslo`) | two counters, a threshold | the run events | execution |
| metric event stream (`metriceventstream`) | a channel per client | `Start`, `ServeHTTP`, `Close` | manager, run statistics |
| pluggable interfaces, hystrix factory, atomics, expvar, test support | little or none | | |

**What is hard.** Reads without the lock that go stale before they are used
(`transitionTo` looks at `isOpen`, `attemptToOpen` asks `ShouldOpen`, `Allow`
loads `openedAt` and then `closedAt`, `ShouldOpen` reads two counters and two
thresholds); user code that runs in the middle of the
breaker's own (listeners that re-enter or panic, state machines that panic); a
flag lowered by a timer that may belong to an older window; a configuration
stored field by field under running calls; counters read bucket by bucket
while the window rolls; latency slots reserved in one step and written in
another; goroutines that outlive the call that started them; constructors that
look at the registry they are filling; clients that stall; and clocks that
disagree between goroutines. The full list, by line, is "hazards" in `PROJECT.json`.

**What makes each part correct.** *Transitions*: each flip is announced once,
in order, eventually, one at a time, and an automatic flip rests on evidence
newer than the previous flip. *Closer and timed check*: armed exactly while the
circuit is open, no probe before the sleep window is over, the circuit closes
on the word of probes, and an open circuit whose calls succeed again closes. *Execution*: the
limit holds, every place taken is given back, the force flags are obeyed, and
no call is reported twice or, where the code keeps its promise, left out. *Rolling counter*: nothing in the window is
lost, nothing outlives it, it never rolls back, and a sum lies between what it
must and what it may count. *Collectors* (openers, run statistics, SLO):
`ShouldOpen` never misses a threshold that was met and not raised since, rates are not
inflated by reading in pieces, a streak holds no failure from before a success,
and the collectors agree with one another at rest. *Rolling percentile*: a
snapshot holds nothing stale and misses nothing it owes. *Goroutine wrapper*:
an outcome is told once, the caller leaves with its context, nothing leaks.
*Manager*: registry and stat factory agree, the documented configuration wins,
nobody deadlocks. *Event stream*: every client is served whatever the others
do, nobody listening means no work, and `Close` ends everything.

## 2. Modules

| Module | Models | Its actions |
|---|---|---|
| `Transition` | transitions, at the grain of one atomic access or critical section | `Begin`, `PreCheck`, `Lock`, `Recheck`, `Flip`, `TellCloser`, `TellOpener`, `Queue`, `StateMachinePanics`; `Deliver`, `CallListener`, `ListenerReturns`, `ListenerPanics`, `Drain`, `Cleanup`; `Evidence`, `Lapse` |
| `ListenerContract` | the abstract specification: what one listener sees of a circuit | a flip, an announcement |
| `TimedCheck` | `faststats.TimedCheck` | `SleepStart`, `CheckGrants`, `CheckDenies`, `TimerFires`, `TimerClears` |
| `HalfOpen` | composes `TimedCheck`, the hystrix `Closer` and the part of `Execute` that drives them | one action per load, store, compare-and-swap and critical section of `Allow`, `Success`, `ErrFailure`, `arm`, `Closed` |
| `RollingCounter` | `RollingCounter` over `RollingBuckets` | `Inc`, `RollingSumAt`, `Reset`; `FastPath`, `AlreadyRolled`, `StartRolling`, `ClearBucket`, `Publish`; `Add`, `ReadBucket`, `WipeBucket` |
| `Execute` | `Execute`, `run`, `fallback` and `SetConfigThreadSafe` | one per read of the configuration, of the state and of a counter, per verdict and per return |
| `Collectors` | the run events of `hystrix.Opener`, `simplelogic.ConsecutiveErrOpener`, `rolling.RunStats` and `responsetimeslo.Tracker`, in the order `RunMetricsCollection` calls them | `Report`, `ErrorPercentageAt`; `DoInc`, `LoadStreak`, `ZeroStreak`, `Judge`, `ReadStreak`, `ReadAttempts`, `ReadErrors`, `GetThreshold`, `DoReturn`; `ResetErrors`, `ResetAttempts`, `ResetStreak`, `SetConfigThreadSafe` |
| `RollingPercentile` | one `durationsBucket` of `RollingPercentile`, and the percentiles of a snapshot | `Advance`, `rollForward`, `Publish`; `clear`, `UnsetSlot`, `ResetIndex`; `Reserve`, `Store`; `ReadSize`, `appendDurations`, `Sort`, `ReturnSnapshot` |
| `GoWrapper` | one call of `Circuit.Go`: the run function and the fallback in `goroutineWrapper.run`, and `waitForErrors` | `Go`, `Fallback`, `NoFallback`, `SelectResult`, `SelectDone`; `FunctionEnds`, `Send`; `LostError`, `Close`; `ContextEnds` |
| `Manager` | `Manager`, `Config.Merge` and `StatFactory.CreateConfig` | `CreateCircuit`, `Lock`, `CheckName`, `MergeGiven`, `CreateConfig`, `UserConstructor`, `ConstructorPanics`, `Insert`; `Var`, `VarDone` |
| `EventStream` | composes `Manager` with `MetricEventStream` | `Tick`, `Collect`, `NextEvent`, `Offer`, `BatchEnds`, `LoopCloses`; `Register`, `HeaderSent`, `SelectBytes`, `WriteEnds`, `SelectDone`, `SelectClosed`, `Unregister`; `Close` |
| `TransitionProofs`, `HalfOpenProofs`, `ExecuteProofs`, `RollingCounterProofs`, `CollectorsProofs`, `RollingPercentileProofs`, `GoWrapperProofs`, `EventStreamProofs` | the theorems about the module of that name, with their inductive invariants and lemmas | |
| `MCTransition`, `MCHalfOpen`, `MCRollingCounter`, `MCExecute`, `MCCollectors`, `MCRollingPercentile` | symmetry sets and configurations for TLC | |

How the state corresponds to the code:

* `Transition`. `transitionMu` is its holder. A queued transition is its target
  state; its context and time are not used by anything modelled.
  `answer[TRUE]` is `ShouldOpen` and `answer[FALSE]` is `ShouldClose`: an
  arbitrary state machine whose evidence may come (`Evidence`) and go (`Lapse`)
  at any time and that `Opened`/`Closed` reset. `nested` says that a
  `transitionTo` was called by a listener: at that depth the goroutine finds
  `deliveringTransitions` up and returns, so one level is enough, which
  `OneDeliverer` states. `heard` and `fresh` are history variables.
* `HalfOpen`. Time is relative to the present: a `Tick` makes every stored time
  one older, down to `-Horizon`, so that time never runs out and the state space
  is finite. A request is at most `MaxAge` old. A transition is one step up to
  the flip and then holds `transitionMu` through every store of `Opened` or
  `Closed`, since `Allow` and `Success` do not take that lock.
  `concurrentSuccessfulAttempts` stops at the required number. The opener may
  say what it likes. `probe`, `proofs`, `flippedAt` and `overtaken` are history
  variables; the last one says that a goroutine had decided to arm the closer
  when the latest close was stored, the race of section 5 that the promises of
  the closer have to except.
* `RollingCounter`. A caller's `now` is the bucket index it falls into, or
  `BeforeStart`; a bucket is the *set* of its events, whose size is the counter
  of the code, so that a property can speak of one event. `lagged` records the
  limitation the code documents for itself (a writer that sleeps for a whole
  window between `Advance` and `Add`): the properties hold until that happens,
  and the run does reach it.
* `Execute`. `runFunc` returns nil, an error or a bad request, late or not, with
  its context done or not, or it panics. Each test of `run` is a step where it
  reads shared state. A transition is one step here and is taken apart in
  `Transition`; `Allow`, `Prevent`, `ShouldOpen` and `ShouldClose` answer freely.
* `Collectors`. Nothing leaves the rolling window, so a counter is a number;
  `RollingCounter` has the ring. `todo` is what a goroutine has yet to do about
  its verdict, one atomic step at a time. `ShouldOpen` reads each sum in one step
  and the threshold for it in a later one (`GetThreshold`), as the code does, so
  that others count and reconfigure between the two. `config` has the `Fields` of
  the opener in place and of the tracker. A transition resets the opener in two
  steps, with `transitionMu` held, hence one transition at a time. `due`, `late`,
  `excused`, `errorsAt` and `streaks` are history: who asked `ShouldOpen` with
  the thresholds met and has seen none of them raised nor the errors reset since;
  errors whose attempt a reset wiped; interrupts within the healthy time, which
  the tracker leaves out; and the failures that a success put an end to.
* `RollingPercentile`. Durations are `Width`-bit integers in two's complement,
  because `encodeDuration` relies on the wrap-around. Samples are numbered for
  the history variables: `from` says whose value a slot holds, `owed` what a
  snapshot must show, and `late` which samples were being added while a clear
  ran, the exception the code documents. `slices.Sort` is modelled by its
  contract: the result is some permutation of the snapshot that is in order.
  Percentiles are computed exactly where the code uses floating point.
* `GoWrapper`. A channel is empty, full or closed; a send on a closed one is
  "crashed". `runtime.Goexit` in a user function leaves nothing to tell and is
  excluded from the promises. `told` is history. What `Execute` does between
  the two parts is left open: it goes on to the fallback or not.
* `Manager`. A configuration has one field that stands for all those `Merge`
  treats alike, and one list of collectors, in which negative numbers are
  `rolling.RunStats`. `creates` counts the calls that have got `createMu`, so that
  the stats of each are numbered apart; `Called`, which bounds a run, adds those
  that wait for it. The configurations
  of a call are merged one per step. `mu` is its readers (`rlocked`) and
  the writer at `insert`, who keeps new readers out as `sync.RWMutex` does.
  User constructors look up a circuit and may panic.
* `EventStream`. A channel is the number of events in it. A run uses the stream
  or not (`loop = "unused"`), so that more creates fit into the second case.

## 3. Runs

| Run | Instance | Shows |
|---|---|---|
| `transition` | 3 goroutines, 1 listener, queue of 2, listeners and state machines panic | `OneDeliverer`, `LockMatchesSection`, `NothingStranded`, `TypeOK` |
| `listener_contract` | 2 goroutines, 2 listeners, no panics, fairness | `LastListenerIsServed` (refinement of `ListenerContract`, liveness included), `FirstListenerAlternates`, `ListenersCaughtUp`, `FlipRestsOnFreshEvidence` |
| `half_open` | 1 request, 2 operators, window 3, age 1, 2 half-open attempts | `ArmedOnlyWhileOpen`, `ProbesWaitForTheWindow`, `TypeOK` |
| `half_open_live` | 1 request, 1 operator, window 2, fairness | `Recovers` |
| `rolling_counter` | 2 callers, 2 buckets, indices -1..3, 2 events | `NoEventLost`, `NoExpiredEventKept`, `SumBracketed`, `NeverRollsBack` |
| `execute` | 2 callers, a configuration with limits and one that overrides everything | `RunsWithinLimit`, `PlacesGivenBack`, `ForceFlagsHonoured`, `OneVerdictPerCall`, `TypeOK` |
| `collectors` | 2 callers, 3 verdicts, two error percentages, consecutive-error thresholds and healthy times | `ErrorsWithinAttempts`, `NeverMissesThreshold`, `PercentageBracketed`, `StreakIsConsecutive`, `BooksBalance` |
| `percentile` | 2 goroutines, 2 slots, 3-bit durations -1 and 3 (the largest), 3 samples, 2 windows | `BeyondIndexUnset`, `NoStaleSample`, `NoSampleMissed`, `PercentilesOrdered` |
| `go_wrapper` | one call with its fallback, fairness | `ToldOnce`, `EndsWithContext`, `EveryOutcomeHeard`, `NothingLeaks` |
| `event_stream` | 2 creators, 1 exporter, 2 names, 2 constructors, 2 given configurations, 3 creates, or 1 create with 2 clients and channels of 1; fairness | `StatsMatchCircuit`, `ConfigPrecedence`, `CreateReturns`, `EveryListenerServed`, `IdleWithoutListeners`, `CloseEndsAll` |
| `half_open_straggler`, `half_open_late_arm` | the smallest that shows it | a statement of the repository that the code does not keep: section 5 |

**Why the bounds are enough.** Three goroutines in `transition` are a deliverer,
a committer that queues behind it and a third that meets both; a queue of two
holds a transition and its reversal; the proofs of section 4 lift these bounds.
Two listeners distinguish the first, whom nobody skips, from one that comes
after another. In `half_open` a request races a close and an opening by two
operators (callers of `OpenCircuit` and `CloseCircuit`), so that every pair of
transitions fits between two of its steps; a window of 3 against an age of 1 keeps "recent" and
"a window ago" apart. Two buckets and indices to 3 let the ring turn once and
be jumped over by more than its length; two events are one that must stay
while another goes. `Execute` needs two callers to contend for a limit of one.
In `collectors` three verdicts reach a volume threshold of two and go beyond it,
on both sides of 50% and at 100%. In `percentile` three samples overflow a
bucket of two, and two windows make one of them old. `GoWrapper` has no bound:
calls share nothing but the callback. In `event_stream` three creates are a
circuit, its duplicate and another; the manager is empty or full at first, so
that a stream sees a circuit appear, and two events per tick; two clients are
one that stalls with a full channel and one that reads.
`MaxPending` only keeps new transitions from beginning; it never delays one
that has.

**Fairness.** `Transition`: a runnable goroutine runs (weak fairness of its
local steps); Go's mutex hands the lock to a waiter that starves (strong
fairness of the steps that take `transitionMu`); a listener returns, however
often it re-enters the circuit first (strong fairness of its return). Nothing
forces anyone to begin a transition or evidence to come. `HalfOpen`: requests
keep coming, goroutines run, timers fire and time passes, all weak. Without
requests an open circuit stays open: `Execute` is the only caller of `Allow`;
and `Recovers` assumes, in its own hypothesis, that runs which are let through
again and again also succeed again and again. `GoWrapper`: goroutines run;
nothing makes a user function return or a context end. `EventStream`:
goroutines run, constructors return and timers fire (weak); a `select` with
several ready cases takes each of them sooner or later, since Go chooses at
random (strong fairness of the branches that see `Close`); nothing makes a
client register, read or leave, or anybody call `Close`. Deadlock is checked
except in `go_wrapper` and `event_stream`, where a call, a stream and a bounded
number of creates do come to an end.

## 4. Proofs

Each theorem holds for every value of the constants that the assumptions of its
module allow: any finite set of goroutines, any number of listeners, buckets,
slots, names or constructors, any thresholds, windows and bounds.

| Module | Theorem | States |
|---|---|---|
| `TransitionProofs` | `TypeCorrect` | `TypeOK` |
| | `DeliverySafe`, `LockSafe`, `NoneStranded` | `OneDeliverer`, `LockMatchesSection`, `NothingStranded`, with panicking listeners and state machines |
| | `ChainHolds`, `Alternation`, `CaughtUp` | `AnnouncementChain`, `FirstListenerAlternates`, `ListenersCaughtUp`, if state machines do not panic |
| | `FirstListenerRefinement` | the safety part of `ListenerContract` for the first listener, under the same assumption |
| | `EveryListenerRefinement`, `LastListenerRefinement`, `AllCaughtUp` | the same for every listener, and `EveryListenerCaughtUp`, if listeners do not panic either |
| | `FreshEvidence` | `FlipRestsOnFreshEvidence`, if state machines do not panic |
| `HalfOpenProofs` | `HalfOpenTypeCorrect`, `ArmedSafe`, `ProbesSafe` | `TypeOK`, `ArmedOnlyWhileOpen`, `ProbesWaitForTheWindow` |
| `ExecuteProofs` | `ExecuteTypeCorrect`, `PlacesSafe`, `LimitSafe`, `FlagsSafe`, `VerdictsSafe` | `TypeOK`, `PlacesGivenBack`, `RunsWithinLimit`, `ForceFlagsHonoured`, `OneVerdictPerCall` |
| `RollingCounterProofs` | `RollsForward`, `CounterKeeps`, `CounterForgets`, `SumSafe` | the action property `NeverRollsBack`; `NoEventLost`, `NoExpiredEventKept`, `SumBracketed` |
| `CollectorsProofs` | `StreakSafe`, `RateSafe`, `PercentageSafe`, `ThresholdSafe`, `BooksSafe` | `StreakIsConsecutive`, `ErrorsWithinAttempts`, `PercentageBracketed`, `NeverMissesThreshold`, `BooksBalance` |
| `RollingPercentileProofs` | `BeyondSafe`, `StaleSafe`, `MissedSafe`, `PercentilesSafe`, `PercentileTypeCorrect` | `BeyondIndexUnset`, `NoStaleSample`, `NoSampleMissed`, `PercentilesOrdered`, `TypeOK` |
| `GoWrapperProofs` | `OutcomeToldOnce` | `ToldOnce` |
| `EventStreamProofs` | `StatsSafe`, `PrecedenceSafe` | `StatsMatchCircuit`, `ConfigPrecedence` |

Hardly one of these properties is inductive as it stands. What was added to
each, and why:

* *Transitions.* `OneDeliverer`, the lock discipline and `NothingStranded` are
  inductive together with the types: a step that takes or gives up the role does
  so with the lock held, and every step that queues leaves its goroutine at
  `deliver`. Alternation needs the `AnnouncementChain`: the announcement on its
  way to the first listener, the queue in order and the flip being committed
  form a chain of alternating targets that begins opposite to what the first
  listener last heard and ends at `isOpen`. A flip extends the chain at its end,
  a delivery shortens it at its front, and nothing else touches it; a state
  machine that panics between the flip and the queueing breaks it, which is why
  these theorems assume `~StateMachineMayPanic`; section 5 shows that they need
  to. Fresh evidence rests on a statement about `answer`: while no commit is in
  progress, a state machine that says yes has evidence since the last flip.
  The listeners after the first need `Abreast`: a transition that is being
  delivered is the last event of exactly the listeners it is no longer on its
  way to, and when nobody delivers all of them have heard the same. Together
  with the chain it gives each listener the alternation of the first. A panic
  of one listener denies the ones after it the event, so this part assumes
  `~ListenerMayPanic` as well.
* *Closer and timed check.* `HolderKept` says which steps hold `transitionMu`
  and what `isOpen` is there. `ArmKept` says that a request that saw the circuit
  open and is overtaken by a close began before the time of that close, so that
  the comparison with `closedAt` will refuse it; and that, unless the close
  overtook somebody past that comparison, nobody is about to arm the closer once
  the time is stored, and nobody has once `openedAt` is cleared. `WindowKept`
  says that the window `Check` looks at is one of this open episode by the time
  `openedAt` is published, and for whoever saw it published since the opening.
* *Execution.* `PlacesGivenBack` is inductive with the types, and bounds the
  counters from below. The limit needs the same claim for every subset of the
  calls that run at once (`EveryGroupWithinLimit`): when a call leaves, the
  witness may be the one that leaves. The flags and the verdicts need what a
  call may still do and has still to tell at each of its locations (`FlagsHeld`,
  `AllVerdictsSoFar`): a call that reports leaves the locations from which it
  could report again.
* *Rolling counter.* `CallsInOrder` relates every location to `advanceMu` and to
  the index that a call is heading for; with it `LastAbsIndex` only grows.
  `WindowKept` says that the buckets a roll has passed are empty and that the
  others hold events of their own index, `LandedKept` that what landed in the
  window is in its bucket, `SumKept` where a reader stands between what it owes
  and what it has seen. All of it until `lagged`, the limitation that the code
  documents.
* *Collectors.* `todo` is a sequence of steps that is only ever consumed from
  its front; `TodoInOrder` says which step may follow which, so that an error is
  never counted before its attempt and never read before it. `RateKept` then
  accounts for the errors between their two increments, `StreakKept` for the
  successes between load and store, `SumsKept` and `DueKept` for a reader in the
  middle of its sums. `DueKept` is the argument for `ThresholdSafe`: for whoever
  asked with the thresholds met, the attempts it has read meet the volume, and
  the errors it has read or is still to read meet the percentage of those
  attempts. Attempts that are counted afterwards do not matter to it, the errors
  only grow until they are reset, and a lowered threshold only helps.
  `BooksBalance` speaks of a moment of rest, so `BooksKept` states it at every
  moment for totals: what a counter holds and the goroutines whose `todo` still
  increments it. It needs `TodoOnce`, that nobody has the same increment to make
  twice. For the SLO it is an equation: what `MeetsSLO` and `FailsSLO` hold or
  will get, the judgements that are still open and the interrupts that were
  excused are together the calls that were no bad requests.
* *Rolling percentile.* `Places` and `SlotsKept` say who may hold a reserved slot
  and whose sample a slot can hold; `SeenKept` and `OwedKept` say the same of a
  snapshot slot by slot. `NeverSentinel` shows that `encodeDuration` never gives
  the unset sentinel, at the wrap-around either. The arithmetic of powers of two
  that this needs is part of `WidthAssumption`, which TLC evaluates.
  `PercentilesOrdered` needs that what a slot holds is the encoding of a sample
  (`EncodedKept`), so that a snapshot decodes to durations that somebody added
  (`RoundTrip`, at the largest duration too) and `Sort` leaves it in order; the
  interpolation is then shown to grow with p in hundredths of a position, first
  within a pair of neighbours (`BetweenGrows`), then across pairs (`AtGrows`).
  `TypeOK` needs `Counted`: the slots handed out and the samples that still wait
  for one are no more than the samples that were begun.
* *Goroutine wrapper.* `Kept`: an outcome is in one place, with its goroutine, in
  its channel or told, and a channel has one receiver.
* *Manager.* `CallsKept`: a call past `createMu` holds it and is for a name
  without a circuit; its collectors hold no stats before `StatFactory`'s
  constructor and afterwards exactly those that are filed under its name, so
  that `FindCommandMetrics` finds them in the circuit that is inserted.
  `SourcesKept` says that at each step of a create the configuration so far is
  what the sources merged so far make of it (`Merged`): its field is that of the
  first that sets it and its collectors are theirs, joined. "Joined" is stated
  by the places where the list can be cut (`Joins`) and not by recursion, so
  that one more source extends it in one step. The theorems speak of
  `EventStream`, the manager under a stream.

*Only model-checked* is liveness, which is out of the prover's reach: `Recovers`,
the eventual half of `LastListenerIsServed`, `EndsWithContext`,
`EveryOutcomeHeard` and `NothingLeaks` of `GoWrapper`, and `CreateReturns`,
`EveryListenerServed`, `IdleWithoutListeners` and `CloseEndsAll` of
`EventStream`. That every snapshot has an ordered permutation, so that `Sort` can
be taken, would be induction over data; it is the contract of `slices.Sort`, and
no safety property rests on it.

## 5. Where the code and its documentation differ

Two runs show it:

1. `half_open_straggler`. `Closer.Success` loads `openedAt` and counts in two
   steps. A request that starts just after the flip of a close may still load the
   old `openedAt`, which `Closed` has yet to clear. When a new opening fits
   between its load and its count, its success is counted for an opening that it
   started before, and may close the circuit without a probe.
2. `half_open_late_arm`. `Allow` decides to arm and then publishes with a
   compare-and-swap against nil. An opening and a closing in between leave
   `openedAt` nil again, so that a closed circuit has an armed closer
   (`NilWhileClosed` is violated). `ArmedOnlyWhileOpen` and
   `ProbesWaitForTheWindow` state, and section 4 proves, what holds when no
   close overtook an arming request in this way.

Both need a goroutine to be descheduled while the circuit goes through two
transitions; the armed closer is set right by the next `Opened` or `Closed`.

Smaller differences, each visible in the model although no run is kept for it:

* `metrics.go` promises listeners events "strictly alternating". A panic of one
  listener unwinds the loop over all of them, so a later one misses an event and
  hears the next as a repetition (`Transition` with `NumListeners = 2` and
  `ListenerMayPanic = TRUE`).
* `commitTransition` flips before it calls the state machines and queues after:
  a panic of a state machine leaves a flip that no listener hears of, against
  "emitted exactly once per real transition" (`ListenersCaughtUp` with
  `StateMachineMayPanic = TRUE` is violated).
* `RunMetrics` is "guaranteed to execute one (and only one)" of its methods per
  attempt (`metrics.go:167`), and so is `FallbackMetrics` per fallback
  (`metrics.go:197`). A `runFunc` or a fallback that panics unwinds `run` and
  `fallback` before anything is reported, and a request that
  `ClosedToOpen.Prevent` denies is reported to no method either: these calls are
  told to nobody. `OneVerdictPerCall` holds "only one" of every call, and "one" of
  all but these.
* `responsetime.go:19-20` says of interrupted requests that they "are not
  considered healthy or unhealthy. It's like they don't happen". `ErrInterrupt`
  (`responsetime.go:166-171`) counts those that took longer than
  `MaximumHealthyTime` in `FailsSLOCount`, as its own comment says.
  `BooksBalance` states what the code does: only interrupts within the healthy
  time are left out.
* `ShouldOpen` (`opener.go:150-157`) is to return true "if rolling count >=
  threshold and error % is high enough". With two attempts and one error at 50%
  it reads the errors; if then the second error is counted and the percentage
  raised to 100 before it is read, the answer is no although the threshold was
  met at every moment. The next error asks again. `NeverMissesThreshold` is
  therefore about thresholds that are not raised meanwhile.
* `config.go` says of `ForceOpen` that "every Execute is short-circuited" and of
  `Disabled` that `Execute` just calls `runFunc`. A circuit with both runs: the
  code looks at `Disabled` first. `ForceFlagsHonoured` is about the calls of
  circuits that are not disabled.
* `ErrorPercentageAt` is documented as `[0.0 - 1.0]`. It sums the attempts before
  the errors, so failures that are reported in between can push it above 1;
  `PercentageBracketed` bounds by how much.

## 6. Not modelled

The JSON, expvar and event rendering, the factory and the test support are
conversion and output. The atomics are the atomic steps of the modules that use
them. `SetConfigNotThreadSafe` of the circuit, the opener and the statistics may
not run beside anything else, so it has no interleavings; that a closer may
join a circuit that is already open, its one delicate case, is `HandAssigned` in
`HalfOpen`. `IsBadRequest` is a pure predicate. `FallbackStats` repeats
`RunStats` with three counters. Contexts and durations are reduced to whether a
deadline has passed. Encoding an event cannot fail for the values it has and is
not modelled as failing. Go's memory model is taken as sequentially consistent
for `sync/atomic`, as it specifies. In `TimedCheck` one timer callback at a time
is kept between its comparison and its store.

## 7. Plan

Every safety invariant and action property that a passing run checks is proved.
What the project could still gain is breadth: several circuits under one
manager at the grain of `Transition`, and the ring of `RollingCounter` under the
opener of `Collectors`. Liveness stays with TLC.
