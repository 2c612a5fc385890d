----------------------------- MODULE Collectors -----------------------------
(***************************************************************************)
(* What becomes of the verdict of a run: the circuit's RunMetricsCollection*)
(* tells the opener (hystrix.Opener or simplelogic.ConsecutiveErrOpener),  *)
(* then rolling.RunStats, then the responsetimeslo.Tracker, each of which  *)
(* changes its counters one atomic step at a time; after an error the      *)
(* goroutine goes on to ask ShouldOpen.  Transitions reset the opener and  *)
(* SetConfigThreadSafe stores new thresholds meanwhile.                    *)
(*                                                                         *)
(* Nothing leaves the rolling window here (RollingCounter has its ring),   *)
(* so that a counter is a number.  What a goroutine still has to do is the *)
(* sequence todo of its steps.                                             *)
(***************************************************************************)
EXTENDS Integers, Sequences, FiniteSets, Functions

CONSTANTS
  Goroutines,
  Settings,   \* field of a configuration -> the values it is given
  Durations,  \* how long a run takes
  MaxCalls    \* bound: verdicts reported

ASSUME GoroutinesAssumption == IsFiniteSet(Goroutines)
ASSUME SettingsAssumption ==
  /\ DOMAIN Settings = {"errorPercentage", "requestVolumeThreshold", "closeThreshold",
                        "MaximumHealthyTime"}
  /\ \A field \in DOMAIN Settings : \A value \in Settings[field] : value \in Int

VARIABLES
  logic,     \* the opener: "hystrix" or "consecutive"
  config,    \* field of the opener or the tracker -> its value
  count,     \* counter -> its value
  resetting, \* the opener is between the two resets of Opened or Closed
  calls,     \* how many verdicts were reported
  todo,      \* goroutine -> the steps before it
  duration,  \* goroutine -> the duration it reports
  got,       \* goroutine -> the two sums it has read: attempts, then errors
  answer,    \* goroutine -> what ShouldOpen told it
  due,       \* history: those who asked with the thresholds met, which were not
             \* raised since, nor the errors reset
  late,      \* history: errors since the last reset whose attempt it wiped
  wasReset,  \* history: has the opener ever been reset
  excused,   \* history: interrupts that the tracker found within the healthy time
  errorsAt,  \* history: RunStats' errors when ErrorPercentageAt was called
  streaks    \* history: failures told to ConsecutiveErrOpener, goroutine -> how
             \* many when its success began, and how many the last one to end knew

asking == <<got, answer, due>>
history == <<late, wasReset, excused, errorsAt, streaks>>
vars == <<logic, config, count, resetting, calls, todo, duration, asking, history>>

Failures == {"ErrFailure", "ErrTimeout"}
Timed == Failures \cup {"Success", "ErrBadRequest", "ErrInterrupt"}
Verdicts == Timed \cup {"ErrConcurrencyLimitReject", "ErrShortCircuit"}
Counters == Verdicts \cup
  {"attempts", "errors", "consecutive", "Latencies", "MeetsSLO", "FailsSLO"}

Step(do, on) == [do |-> do, on |-> on]
Inc(c) == Step("inc", c)
Return == <<Step("return", "Success")>>

-----------------------------------------------------------------------------
(* What each collector does with a verdict.                                *)

(* Mutant of OpenerSteps: an error is counted before its attempt.          *)
ErrorFirst(v) ==
  IF v = "Success" THEN <<Inc("attempts")>>
  ELSE IF v \in Failures THEN <<Inc("errors"), Inc("attempts")>> ELSE <<>>

(* Mutant of OpenerSteps: timeouts are no errors.                          *)
TimeoutsIgnored(v) ==
  IF v = "Success" THEN <<Inc("attempts")>>
  ELSE IF v = "ErrFailure" THEN <<Inc("attempts"), Inc("errors")>> ELSE <<>>

OpenerSteps(v) ==
  CASE v = "Success"                     -> <<Inc("attempts")>>
    [] v \in Failures                    -> <<Inc("attempts"), Inc("errors")>>
    [] v \notin Failures \cup {"Success"} -> <<>>

ConsecutiveErrOpenerSteps(v) ==
  CASE v = "Success"                     -> <<Step("load", "consecutive")>>
    [] v \in Failures                    -> <<Inc("consecutive")>>
    [] v \notin Failures \cup {"Success"} -> <<>>

RunStatsSteps(v) == IF v \in Timed THEN <<Inc(v), Inc("Latencies")>> ELSE <<Inc(v)>>

TrackerSteps(v) ==
  CASE v \in {"Success", "ErrInterrupt"} -> <<Step("judge", v)>>
    [] v = "ErrBadRequest"               -> <<>>
    [] OTHER                             -> <<Inc("FailsSLO")>>

(* Mutant of ShouldOpenSteps: the errors are read before the attempts.     *)
ErrorsReadFirst ==
  IF logic = "hystrix"
    THEN <<Step("second", "errors"), Step("first", "attempts"),
           Step("get", "requestVolumeThreshold"), Step("get", "errorPercentage")>>
    ELSE <<Step("streak", "consecutive"), Step("get", "closeThreshold")>>

ShouldOpenSteps ==
  IF logic = "hystrix"
    THEN <<Step("first", "attempts"), Step("get", "requestVolumeThreshold"),
           Step("second", "errors"), Step("get", "errorPercentage")>>
    ELSE <<Step("streak", "consecutive"), Step("get", "closeThreshold")>>

(* RunStats.ErrorsAt, for one of two sums.                                 *)
ErrorsAt(do) == <<Step(do, "ErrFailure"), Step(do, "ErrTimeout")>>

(* Mutant of LegitimateAttemptsAt: it forgets the errors.                  *)
SuccessesAt == <<Step("first", "Success")>>

LegitimateAttemptsAt == <<Step("first", "Success")>> \o ErrorsAt("first")

-----------------------------------------------------------------------------
(* What the opener and the tracker read of their configurations.           *)
Fields == {"MaximumHealthyTime"} \cup
  (IF logic = "hystrix" THEN {"errorPercentage", "requestVolumeThreshold"}
                        ELSE {"closeThreshold"})

NothingRead == [first |-> 0, second |-> 0]

Init ==
  /\ logic \in {"hystrix", "consecutive"}
  /\ config \in {f \in [Fields -> UNION Range(Settings)] : \A k \in Fields : f[k] \in Settings[k]}
  /\ count = [c \in Counters |-> 0]
  /\ resetting = FALSE
  /\ calls = 0
  /\ todo = [g \in Goroutines |-> <<>>]
  /\ duration = [g \in Goroutines |-> 0]
  /\ got = [g \in Goroutines |-> NothingRead]
  /\ answer = [g \in Goroutines |-> "none"]
  /\ due = {}
  /\ late = 0 /\ wasReset = FALSE /\ excused = 0
  /\ errorsAt = [g \in Goroutines |-> 0]
  /\ streaks = [failures |-> 0, known |-> [g \in Goroutines |-> 0], base |-> 0]

(* The condition ShouldOpen stands for, on the counters as they are.       *)
ThresholdMet ==
  IF logic = "hystrix"
    THEN /\ count["attempts"] # 0
         /\ count["attempts"] >= config["requestVolumeThreshold"]
         /\ count["errors"] * 100 >= config["errorPercentage"] * count["attempts"]
    ELSE count["consecutive"] >= config["closeThreshold"]

(* A run has its verdict: all that its goroutine does about it.            *)
Report(g, v, d) ==
  /\ todo[g] = <<>> /\ calls < MaxCalls
  /\ calls' = calls + 1
  /\ todo' = [todo EXCEPT ![g] =
       (IF logic = "hystrix" THEN OpenerSteps(v) ELSE ConsecutiveErrOpenerSteps(v))
         \o RunStatsSteps(v) \o TrackerSteps(v)
         \o (IF v \in Failures THEN ShouldOpenSteps ELSE <<>>) \o Return]
  /\ duration' = [duration EXCEPT ![g] = d]
  /\ streaks' = [streaks EXCEPT !.known[g] = streaks.failures]
  /\ UNCHANGED <<logic, config, count, resetting, asking, late, wasReset, excused, errorsAt>>

ErrorPercentageAt(g) ==
  /\ todo[g] = <<>>
  /\ todo' = [todo EXCEPT ![g] = LegitimateAttemptsAt \o ErrorsAt("second") \o Return]
  /\ errorsAt' = [errorsAt EXCEPT ![g] = count["ErrFailure"] + count["ErrTimeout"]]
  /\ UNCHANGED <<logic, config, count, resetting, calls, duration, asking, late, wasReset, excused, streaks>>

-----------------------------------------------------------------------------
(* One step of what a goroutine has to do.                                 *)

Does(g, do) == todo[g] # <<>> /\ Head(todo[g]).do = do
On(g) == Head(todo[g]).on
Rest(g) == todo' = [todo EXCEPT ![g] = Tail(@)]
Instead(g, step) == todo' = [todo EXCEPT ![g] = <<step>> \o Tail(@)]

DoInc(g) ==
  /\ Does(g, "inc")
  /\ count' = [count EXCEPT ![On(g)] = @ + 1]
  /\ late' = IF On(g) = "errors" /\ resetting THEN late + 1 ELSE late
  /\ streaks' = [streaks EXCEPT !.failures = IF On(g) = "consecutive" THEN @ + 1 ELSE @]
  /\ Rest(g)
  /\ UNCHANGED <<logic, config, resetting, calls, duration, asking, wasReset, excused, errorsAt>>

(* A success has zeroed the streak or found it at zero.                    *)
StreakOver(g) ==
  streaks' = [streaks EXCEPT !.base = IF streaks.known[g] > @ THEN streaks.known[g] ELSE @]

(* Mutant of StreakToEnd: a streak of one is not reset.                    *)
LongStreakToEnd == count["consecutive"] > 1

StreakToEnd == count["consecutive"] # 0

(* ConsecutiveErrOpener.Success: load before store.                        *)
LoadStreak(g) ==
  /\ Does(g, "load")
  /\ IF StreakToEnd
       THEN Instead(g, Step("zero", "consecutive")) /\ UNCHANGED streaks
       ELSE Rest(g) /\ StreakOver(g)
  /\ UNCHANGED <<logic, config, count, resetting, calls, duration, asking, late, wasReset, excused, errorsAt>>

ZeroStreak(g) ==
  /\ Does(g, "zero")
  /\ count' = [count EXCEPT !["consecutive"] = 0]
  /\ Rest(g) /\ StreakOver(g)
  /\ UNCHANGED <<logic, config, resetting, calls, duration, asking, late, wasReset, excused, errorsAt>>

(* Tracker.Success and ErrInterrupt compare with MaximumHealthyTime.       *)
Healthy(g) == duration[g] <= config["MaximumHealthyTime"]
Judge(g) ==
  /\ Does(g, "judge")
  /\ IF Healthy(g) /\ On(g) = "ErrInterrupt"
       THEN Rest(g)
       ELSE Instead(g, Inc(IF Healthy(g) THEN "MeetsSLO" ELSE "FailsSLO"))
  /\ excused' = IF Healthy(g) /\ On(g) = "ErrInterrupt" THEN excused + 1 ELSE excused
  /\ UNCHANGED <<logic, config, count, resetting, calls, duration, asking, late, wasReset,
                 errorsAt, streaks>>

Asks(g) == due' = IF ThresholdMet THEN due \cup {g} ELSE due

(* ConsecutiveErrOpener.ShouldOpen: the count, before its threshold.       *)
ReadStreak(g) ==
  /\ Does(g, "streak")
  /\ Asks(g)
  /\ got' = [got EXCEPT ![g].first = count["consecutive"]]
  /\ Rest(g)
  /\ UNCHANGED <<logic, config, count, resetting, calls, duration, answer, history>>

(* The sums of Opener.ShouldOpen and of ErrorPercentageAt: no attempts end *)
(* both early.                                                             *)
ReadAttempts(g) ==
  LET sum == got[g].first + count[On(g)]
      ends == todo[g][2].do # "first" /\ sum = 0
  IN
  /\ Does(g, "first")
  /\ IF On(g) = "attempts" THEN Asks(g) ELSE UNCHANGED due
  /\ IF ends
       THEN /\ todo' = [todo EXCEPT ![g] = Return]
            /\ answer' = [answer EXCEPT ![g] = IF On(g) = "attempts" THEN "no" ELSE @]
            /\ UNCHANGED got
       ELSE Rest(g) /\ got' = [got EXCEPT ![g].first = sum] /\ UNCHANGED answer
  /\ UNCHANGED <<logic, config, count, resetting, calls, duration, history>>

ReadErrors(g) ==
  /\ Does(g, "second")
  /\ got' = [got EXCEPT ![g].second = @ + count[On(g)]]
  /\ Rest(g)
  /\ UNCHANGED <<logic, config, count, resetting, calls, duration, answer, due, history>>

(* The comparison with the threshold that is read now.                     *)
AtThreshold(g) ==
  IF On(g) = "errorPercentage"
    THEN got[g].second * 100 >= config["errorPercentage"] * got[g].first
    ELSE got[g].first >= config[On(g)]

(* ShouldOpen reads a threshold after the counter it is for.  The first    *)
(* that is not met answers no, the last that is met yes.                   *)
GetThreshold(g) ==
  /\ Does(g, "get")
  /\ IF AtThreshold(g)
       THEN /\ Rest(g)
            /\ answer' = [answer EXCEPT ![g] =
                 IF On(g) = "requestVolumeThreshold" THEN @ ELSE "yes"]
       ELSE /\ todo' = [todo EXCEPT ![g] = Return]
            /\ answer' = [answer EXCEPT ![g] = "no"]
  /\ UNCHANGED <<logic, config, count, resetting, calls, duration, got, due, history>>

(* The call is over: its locals are gone.                                  *)
DoReturn(g) ==
  /\ Does(g, "return")
  /\ Rest(g)
  /\ duration' = [duration EXCEPT ![g] = 0]
  /\ got' = [got EXCEPT ![g] = NothingRead]
  /\ answer' = [answer EXCEPT ![g] = "none"]
  /\ due' = due \ {g}
  /\ errorsAt' = [errorsAt EXCEPT ![g] = 0]
  /\ streaks' = [streaks EXCEPT !.known[g] = 0]
  /\ UNCHANGED <<logic, config, count, resetting, calls, late, wasReset, excused>>

-----------------------------------------------------------------------------
(* Opened and Closed: the opener starts afresh, one transition at a time.  *)

Pending(c) == {g \in Goroutines : Does(g, "inc") /\ On(g) = c}

ResetErrors ==
  /\ logic = "hystrix" /\ ~resetting
  /\ count' = [count EXCEPT !["errors"] = 0]
  /\ resetting' = TRUE
  /\ late' = 0 /\ wasReset' = TRUE
  /\ due' = {}
  /\ UNCHANGED <<logic, config, calls, todo, duration, got, answer, excused, errorsAt, streaks>>

ResetAttempts ==
  /\ resetting
  /\ count' = [count EXCEPT !["attempts"] = 0]
  /\ resetting' = FALSE
  /\ late' = late + Cardinality(Pending("errors"))
  /\ UNCHANGED <<logic, config, calls, todo, duration, asking, wasReset, excused, errorsAt, streaks>>

ResetStreak ==
  /\ logic = "consecutive"
  /\ count' = [count EXCEPT !["consecutive"] = 0]
  /\ streaks' = [streaks EXCEPT !.base = streaks.failures]
  /\ UNCHANGED <<logic, config, resetting, calls, todo, duration, asking, late, wasReset, excused, errorsAt>>

(* One store of an opener's or the tracker's SetConfigThreadSafe.          *)
SetConfigThreadSafe(field, value) ==
  /\ config[field] # value
  /\ config' = [config EXCEPT ![field] = value]
  /\ due' = IF field # "MaximumHealthyTime" /\ value > config[field] THEN {} ELSE due
  /\ UNCHANGED <<logic, count, resetting, calls, todo, duration, got, answer, history>>

Next ==
  \/ \E g \in Goroutines :
       \/ \E v \in Verdicts, d \in Durations : Report(g, v, d)
       \/ ErrorPercentageAt(g)
       \/ DoInc(g) \/ LoadStreak(g) \/ ZeroStreak(g) \/ Judge(g) \/ DoReturn(g)
       \/ ReadStreak(g) \/ ReadAttempts(g) \/ ReadErrors(g) \/ GetThreshold(g)
  \/ ResetErrors \/ ResetAttempts \/ ResetStreak
  \/ \E field \in Fields : \E value \in Settings[field] :
       SetConfigThreadSafe(field, value)

Spec == Init /\ [][Next]_vars

-----------------------------------------------------------------------------
(* Properties.                                                             *)

(* The opener's error rate is never above 100%, whatever is in between its *)
(* two increments, but for errors whose attempt was wiped by the reset of  *)
(* a transition they overlapped.                                           *)
ErrorsWithinAttempts == count["errors"] <= count["attempts"] + late

(* ShouldOpen reads two counters and two thresholds one after the other,   *)
(* while others count, reset and reconfigure: if volume and error          *)
(* percentage were at their thresholds when it began, and since then no    *)
(* threshold was raised and no transition reset the errors, the answer is  *)
(* yes, whatever is counted and lowered between its reads.                 *)
NeverMissesThreshold == \A g \in due : answer[g] # "no"

(* ErrorPercentageAt "is [0.0 - 1.0]" up to the errors that were reported  *)
(* while it read: it sums the attempts before the errors.  (Whoever is at  *)
(* "get" or has an answer read for ShouldOpen.)                            *)
PercentageBracketed ==
  \A g \in Goroutines : answer[g] = "none" /\ ~Does(g, "get") =>
    got[g].second <= got[g].first + count["ErrFailure"] + count["ErrTimeout"] - errorsAt[g]

(* ConsecutiveErrOpener's count holds no failure from before a success     *)
(* that is over began, although Success loads before it stores.            *)
StreakIsConsecutive == count["consecutive"] <= streaks.failures - streaks.base

(* At rest the three collectors tell the same story: the opener's totals,  *)
(* unless it was reset, are RunStats' legitimate attempts and errors,      *)
(* every timed verdict has its latency, and the SLO judges every verdict   *)
(* once, but for bad requests and for interrupts within the healthy time:  *)
(* an interrupt that took longer fails the SLO, as ErrInterrupt says and   *)
(* the comment on Tracker denies.                                          *)
BooksBalance ==
  LET errors == count["ErrFailure"] + count["ErrTimeout"]
  IN
  (\A g \in Goroutines : todo[g] = <<>>) =>
    /\ logic = "hystrix" /\ ~wasReset =>
         count["errors"] = errors /\ count["attempts"] = errors + count["Success"]
    /\ count["Latencies"] = calls - count["ErrConcurrencyLimitReject"] - count["ErrShortCircuit"]
    /\ count["MeetsSLO"] + count["FailsSLO"] = calls - count["ErrBadRequest"] - excused
    /\ count["MeetsSLO"] <= count["Success"] /\ excused <= count["ErrInterrupt"]
=============================================================================
