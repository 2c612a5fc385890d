----------------------------- MODULE TimedCheck -----------------------------
(***************************************************************************)
(* faststats.TimedCheck: lets a number of events through once per sleep    *)
(* window.  A flag, isFastFail, answers most callers without the lock; a   *)
(* timer lowers it when the window is over.                                *)
(*                                                                         *)
(* Times are relative to the present: the clock always reads 0, and a Tick *)
(* makes every stored time one older, down to -Horizon ("long ago").       *)
(* Requests are at most MaxAge old, and Horizon is so large that no        *)
(* comparison the code makes can tell long ago from longer ago, so nothing *)
(* is lost by forgetting the difference, and time never runs out.          *)
(***************************************************************************)
EXTENDS Integers

CONSTANTS
  Nil,               \* no time, no timer
  SleepWindow,       \* sleepDuration, in ticks
  HalfOpenAttempts,  \* eventCountToAllow
  MaxAge             \* bound: no call lasts longer than this

ASSUME NilAssumption == Nil \notin Int
ASSUME SleepWindowAssumption == SleepWindow \in Nat \ {0}
ASSUME HalfOpenAttemptsAssumption == HalfOpenAttempts \in Int
ASSUME MaxAgeAssumption == MaxAge \in Nat

VARIABLES
  isFastFail,                  \* atomic: deny without taking the lock
  nextOpenTime,                \* no event before this time
  currentlyAllowedEventCount,  \* events let through in this window
  timer,                       \* when lastSetTimer is due, Nil once it fired
  clearing                     \* a callback has compared the version and will
                               \* lower isFastFail whatever happens meanwhile

timedCheckVars == <<isFastFail, nextOpenTime, currentlyAllowedEventCount, timer, clearing>>

Horizon == MaxAge + SleepWindow + 1

Older(t) == IF t = Nil \/ t = -Horizon THEN t ELSE t - 1

TimedCheckInit ==
  /\ isFastFail = FALSE
  /\ nextOpenTime = -Horizon
  /\ currentlyAllowedEventCount = 0
  /\ timer = Nil
  /\ clearing = FALSE

(* SleepStart and resetOpenTimeWithLock, under the lock: the old timer is  *)
(* stopped, and if it is too late for that its callback finds another      *)
(* version.  The new timer runs for SleepWindow from the present, whatever *)
(* now the caller passes.                                                  *)
SleepStart(now) ==
  /\ nextOpenTime' = now + SleepWindow
  /\ currentlyAllowedEventCount' = 0
  /\ isFastFail' = TRUE
  /\ timer' = SleepWindow
  /\ UNCHANGED clearing

(* Mutant of WindowUsedUp: one event too many.                             *)
WindowUsedUpLate == currentlyAllowedEventCount + 1 > HalfOpenAttempts

WindowUsedUp == currentlyAllowedEventCount + 1 >= HalfOpenAttempts

(* Check after isFastFail was found down: deny before nextOpenTime, else   *)
(* let the event through, and sleep again after the last one allowed.  The *)
(* look under the read lock is made again under the write lock.            *)
CheckDenies(now) == nextOpenTime > now /\ UNCHANGED timedCheckVars

CheckGrants(now) ==
  /\ nextOpenTime <= now
  /\ IF WindowUsedUp
       THEN SleepStart(now)
       ELSE /\ currentlyAllowedEventCount' = currentlyAllowedEventCount + 1
            /\ UNCHANGED <<isFastFail, nextOpenTime, timer, clearing>>

(* The timer's callback, on a goroutine of its own and as late as it       *)
(* likes: it compares the version, and then lowers the flag.  One callback *)
(* at a time is kept between the two steps.                                *)
TimerFires ==
  /\ timer # Nil /\ timer <= 0
  /\ ~clearing
  /\ clearing' = TRUE
  /\ timer' = Nil
  /\ UNCHANGED <<isFastFail, nextOpenTime, currentlyAllowedEventCount>>

TimerClears ==
  /\ clearing
  /\ clearing' = FALSE
  /\ isFastFail' = FALSE
  /\ UNCHANGED <<nextOpenTime, currentlyAllowedEventCount, timer>>

TimedCheckAges ==
  /\ nextOpenTime' = Older(nextOpenTime)
  /\ timer' = Older(timer)
  /\ UNCHANGED <<isFastFail, currentlyAllowedEventCount, clearing>>
=============================================================================
