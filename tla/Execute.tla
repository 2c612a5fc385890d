------------------------------ MODULE Execute ------------------------------
(***************************************************************************)
(* Circuit.Execute (circuit.go): one call after another on several         *)
(* goroutines, through run, the classification of its result, and          *)
(* fallback, while SetConfigThreadSafe changes the configuration one       *)
(* atomic field at a time and operators open and close the circuit.        *)
(* The open/close logic (ClosedToOpen, OpenToClosed) and the user's        *)
(* functions answer as they like.  A transition is one step here; module   *)
(* Transition takes it apart.                                              *)
(***************************************************************************)
EXTENDS Integers, Sequences, FiniteSets

CONSTANTS
  Goroutines,     \* the callers of Execute
  Configs,        \* the configurations SetConfigThreadSafe is called with
  MayPrevent,     \* can ClosedToOpen.Prevent answer true
  MayPanic        \* can runFunc and fallbackFunc panic

(* The fields of atomicCircuitConfig, in the order reset stores them.      *)
Fields == <<"ForcedClosed", "ForceOpen", "Disabled", "ExecutionTimeout",
            "MaxConcurrentRequests", "IgnoreInterrupts",
            "FallbackDisabled", "FallbackMaxConcurrentRequests">>

(* A timeout is set or not; a negative limit is no limit.                  *)
Config ==
  [ForcedClosed : BOOLEAN, ForceOpen : BOOLEAN, Disabled : BOOLEAN,
   ExecutionTimeout : BOOLEAN, MaxConcurrentRequests : Int,
   IgnoreInterrupts : BOOLEAN, FallbackDisabled : BOOLEAN,
   FallbackMaxConcurrentRequests : Int]

ASSUME GoroutinesAssumption == IsFiniteSet(Goroutines)
ASSUME ConfigsAssumption == Configs # {} /\ \A c \in Configs : c \in Config
ASSUME MayAssumption == MayPrevent \in BOOLEAN /\ MayPanic \in BOOLEAN

VARIABLES
  config,               \* threadSafeConfig
  newConfig,            \* what SetConfigThreadSafe is storing
  nextField,            \* the field it stores next, 0 when it is not running
  isOpen,               \* Circuit.isOpen
  concurrentCommands,
  concurrentFallbacks,
  pc,                   \* where each goroutine is
  maxConcurrent,        \* run's copy of MaxConcurrentRequests
  hasDeadline,          \* run: was a timeout set
  currentCount,         \* what fallback's Add returned
  result,               \* what run returns
  fallbackResult,       \* what fallback returns, "none" if it calls nothing
  verdicts,             \* history: calls of a RunMetrics method
  fallbackVerdicts,     \* history: calls of a FallbackMetrics method
  heldOpen,             \* history: ForceOpen was set since the call began
  heldClosed            \* history: ForcedClosed was set since the call began

configVars == <<config, newConfig, nextField>>
counters == <<concurrentCommands, concurrentFallbacks>>
locals == <<maxConcurrent, hasDeadline, currentCount, result, fallbackResult>>
held == <<heldOpen, heldClosed>>
history == <<verdicts, fallbackVerdicts, held>>
vars == <<configVars, isOpen, counters, pc, locals, history>>

Init ==
  /\ config \in Configs /\ newConfig = config /\ nextField = 0
  /\ isOpen = FALSE
  /\ concurrentCommands = 0
  /\ concurrentFallbacks = 0
  /\ pc = [g \in Goroutines |-> "idle"]
  /\ maxConcurrent = [g \in Goroutines |-> 0]
  /\ hasDeadline = [g \in Goroutines |-> FALSE]
  /\ currentCount = [g \in Goroutines |-> 0]
  /\ result = [g \in Goroutines |-> "nil"]
  /\ fallbackResult = [g \in Goroutines |-> "none"]
  /\ verdicts = [g \in Goroutines |-> 0]
  /\ fallbackVerdicts = [g \in Goroutines |-> 0]
  /\ heldOpen = [g \in Goroutines |-> FALSE]
  /\ heldClosed = [g \in Goroutines |-> FALSE]

Goto(g, location) == pc' = [pc EXCEPT ![g] = location]
Returns(g, r) == result' = [result EXCEPT ![g] = r]
FallbackReturns(g, r) == fallbackResult' = [fallbackResult EXCEPT ![g] = r]
RunVerdict(g) == verdicts' = [verdicts EXCEPT ![g] = @ + 1]
FallbackVerdict(g) == fallbackVerdicts' = [fallbackVerdicts EXCEPT ![g] = @ + 1]

-----------------------------------------------------------------------------
(* Execute and run, up to runFunc.                                         *)

Call(g) ==
  /\ pc[g] = "idle"
  /\ heldOpen' = [heldOpen EXCEPT ![g] = config.ForceOpen]
  /\ heldClosed' = [heldClosed EXCEPT ![g] = config.ForcedClosed]
  /\ Goto(g, "disabled")
  /\ UNCHANGED <<configVars, isOpen, counters, locals, verdicts, fallbackVerdicts>>

(* A disabled circuit calls runFunc and nothing else.                      *)
ReadDisabled(g) ==
  /\ pc[g] = "disabled"
  /\ Goto(g, IF config.Disabled THEN "bypass" ELSE "limit")
  /\ UNCHANGED <<configVars, isOpen, counters, locals, history>>

Bypass(g) ==
  /\ pc[g] = "bypass"
  /\ Returns(g, "bypassed")
  /\ Goto(g, "returned")
  /\ UNCHANGED <<configVars, isOpen, counters, maxConcurrent, hasDeadline, currentCount,
                 fallbackResult, history>>

(* run: the limit is read once and used three times.                       *)
ReadLimit(g) ==
  /\ pc[g] = "limit"
  /\ maxConcurrent' = [maxConcurrent EXCEPT ![g] = config.MaxConcurrentRequests]
  /\ Goto(g, "forceOpen")
  /\ UNCHANGED <<configVars, isOpen, counters, hasDeadline, currentCount, result,
                 fallbackResult, history>>

(* run, denied by allowNewRun.                                             *)
ShortCircuit(g) ==
  /\ RunVerdict(g)
  /\ Returns(g, "open")
  /\ Goto(g, "fallback")

Admit(g, location) == Goto(g, location) /\ UNCHANGED <<result, verdicts>>

(* Mutant of ForceOpenDenies: forced closed is looked at first.            *)
ForcedClosedWins == config.ForceOpen /\ ~config.ForcedClosed

ForceOpenDenies == config.ForceOpen

(* allowNewRun, one read at a time: ForceOpen ...                          *)
ReadForceOpen(g) ==
  /\ pc[g] = "forceOpen"
  /\ IF ForceOpenDenies THEN ShortCircuit(g) ELSE Admit(g, "forcedClosed")
  /\ UNCHANGED <<configVars, isOpen, counters, maxConcurrent, hasDeadline, currentCount,
                 fallbackResult, fallbackVerdicts, held>>

(* ... ForcedClosed ...                                                    *)
ReadForcedClosed(g) ==
  /\ pc[g] = "forcedClosed"
  /\ Goto(g, IF config.ForcedClosed THEN "prevent" ELSE "state")
  /\ UNCHANGED <<configVars, isOpen, counters, locals, history>>

(* ... the state ...                                                       *)
ReadState(g) ==
  /\ pc[g] = "state"
  /\ Goto(g, IF isOpen THEN "count" ELSE "prevent")
  /\ UNCHANGED <<configVars, isOpen, counters, locals, history>>

(* ... no permit for a request that would be throttled ...                 *)
ReadCount(g) ==
  /\ pc[g] = "count"
  /\ IF maxConcurrent[g] >= 0 /\ concurrentCommands >= maxConcurrent[g]
       THEN ShortCircuit(g) ELSE Admit(g, "allow")
  /\ UNCHANGED <<configVars, isOpen, counters, maxConcurrent, hasDeadline, currentCount,
                 fallbackResult, fallbackVerdicts, held>>

(* ... and OpenToClose.Allow.                                              *)
Allow(g) ==
  /\ pc[g] = "allow"
  /\ ShortCircuit(g) \/ Admit(g, "prevent")
  /\ UNCHANGED <<configVars, isOpen, counters, maxConcurrent, hasDeadline, currentCount,
                 fallbackResult, fallbackVerdicts, held>>

(* ClosedToOpen.Prevent: denied, with no metric.                           *)
Prevented(g) ==
  /\ pc[g] = "prevent"
  /\ MayPrevent
  /\ Returns(g, "prevented")
  /\ Goto(g, "fallback")
  /\ UNCHANGED <<configVars, isOpen, counters, maxConcurrent, hasDeadline, currentCount,
                 fallbackResult, history>>

(* Mutant of OverLimit: one too many.                                      *)
FarOverLimit(count, limit) == limit >= 0 /\ count > limit + 1

OverLimit(count, limit) == limit >= 0 /\ count > limit

Enter(g) ==
  /\ pc[g] = "prevent"
  /\ concurrentCommands' = concurrentCommands + 1
  /\ Goto(g, IF OverLimit(concurrentCommands + 1, maxConcurrent[g]) THEN "throttled" ELSE "timeout")
  /\ UNCHANGED <<configVars, isOpen, concurrentFallbacks, locals, history>>

(* The throttled request reports, and its deferred Add(-1) gives the place *)
(* back.                                                                   *)
Throttled(g) ==
  /\ pc[g] = "throttled"
  /\ RunVerdict(g)
  /\ Returns(g, "throttled")
  /\ concurrentCommands' = concurrentCommands - 1
  /\ Goto(g, "fallback")
  /\ UNCHANGED <<configVars, isOpen, concurrentFallbacks, maxConcurrent, hasDeadline,
                 currentCount, fallbackResult, fallbackVerdicts, held>>

ReadTimeout(g) ==
  /\ pc[g] = "timeout"
  /\ hasDeadline' = [hasDeadline EXCEPT ![g] = config.ExecutionTimeout]
  /\ Goto(g, "run")
  /\ UNCHANGED <<configVars, isOpen, counters, maxConcurrent, currentCount, result,
                 fallbackResult, history>>

-----------------------------------------------------------------------------
(* The result of runFunc.                                                  *)

(* runFunc returns r, after its deadline or not, its caller's context done *)
(* or not.  The tests are made in this order, and the first that applies   *)
(* reports and ends the classification.                                    *)
RunReturns(g, r, late, canceled) ==
  /\ pc[g] = "run"
  /\ late => hasDeadline[g]
  /\ Returns(g, r)
  /\ \/ r = "bad" /\ RunVerdict(g) /\ Goto(g, "leave")
     \/ r # "bad" /\ late /\ RunVerdict(g) /\ Goto(g, "failed")
     \/ r = "err" /\ ~late /\ canceled /\ Goto(g, "interrupt") /\ UNCHANGED verdicts
     \/ r = "err" /\ ~late /\ ~canceled /\ RunVerdict(g) /\ Goto(g, "failed")
     \/ r = "nil" /\ ~late /\ RunVerdict(g) /\ Goto(g, "succeeded")
  /\ UNCHANGED <<configVars, isOpen, counters, maxConcurrent, hasDeadline, currentCount,
                 fallbackResult, fallbackVerdicts, held>>

(* Mutant of Interrupted: an interrupt is reported and not returned.       *)
InterruptedAndFailed(g) ==
  /\ pc[g] = "interrupt"
  /\ verdicts' = [verdicts EXCEPT ![g] = IF config.IgnoreInterrupts THEN @ + 1 ELSE @ + 2]
  /\ Goto(g, "failed")
  /\ UNCHANGED <<configVars, isOpen, counters, locals, fallbackVerdicts, held>>

(* checkErrInterrupt, and checkErrFailure if it says no.  IsErrInterrupt   *)
(* is the user's.                                                          *)
Interrupted(g) ==
  /\ pc[g] = "interrupt"
  /\ RunVerdict(g)
  /\ \/ ~config.IgnoreInterrupts /\ Goto(g, "leave")
     \/ Goto(g, "failed")
  /\ UNCHANGED <<configVars, isOpen, counters, locals, fallbackVerdicts, held>>

(* A panic unwinds Execute: only the deferred calls are made.              *)
RunPanics(g) ==
  /\ pc[g] = "run"
  /\ MayPanic
  /\ Returns(g, "panic")
  /\ Goto(g, "leave")
  /\ UNCHANGED <<configVars, isOpen, counters, maxConcurrent, hasDeadline, currentCount,
                 fallbackResult, history>>

(* checkErrFailure and checkErrTimeout: only a closed circuit opens ...    *)
AfterFailure(g) ==
  /\ pc[g] = "failed"
  /\ Goto(g, IF isOpen THEN "leave" ELSE "mayOpen")
  /\ UNCHANGED <<configVars, isOpen, counters, locals, history>>

(* attemptToOpen: ... unless it is forced closed ...                       *)
MayOpen(g) ==
  /\ pc[g] = "mayOpen"
  /\ Goto(g, IF config.ForcedClosed THEN "leave" ELSE "shouldOpen")
  /\ UNCHANGED <<configVars, isOpen, counters, locals, history>>

(* ... and if ShouldOpen says so.                                          *)
ShouldOpen(g) ==
  /\ pc[g] = "shouldOpen"
  /\ \/ ~isOpen /\ Goto(g, "open")
     \/ Goto(g, "leave")
  /\ UNCHANGED <<configVars, isOpen, counters, locals, history>>

(* checkSuccess: only an open circuit closes ...                           *)
AfterSuccess(g) ==
  /\ pc[g] = "succeeded"
  /\ Goto(g, IF isOpen THEN "mayClose" ELSE "leave")
  /\ UNCHANGED <<configVars, isOpen, counters, locals, history>>

(* ... unless it is forced open, and if ShouldClose says so.               *)
MayClose(g) ==
  /\ pc[g] = "mayClose"
  /\ \/ ~config.ForceOpen /\ Goto(g, "close")
     \/ Goto(g, "leave")
  /\ UNCHANGED <<configVars, isOpen, counters, locals, history>>

(* transitionTo: the state and the predicate are tested again.             *)
Transit(g) ==
  /\ pc[g] \in {"open", "close"}
  /\ \/ isOpen' = (pc[g] = "open")
     \/ UNCHANGED isOpen
  /\ Goto(g, "leave")
  /\ UNCHANGED <<configVars, counters, locals, history>>

(* OpenCircuit and CloseCircuit, on a goroutine of its own.                *)
ByHand ==
  /\ isOpen' = ~isOpen
  /\ UNCHANGED <<configVars, counters, pc, locals, history>>

(* Mutant of LeaveRun: a panic keeps its place.                            *)
LeaveRunUnlessPanicking(g) ==
  /\ pc[g] = "leave"
  /\ concurrentCommands' = IF result[g] = "panic" THEN concurrentCommands ELSE concurrentCommands - 1
  /\ Goto(g, IF result[g] = "err" THEN "fallback" ELSE "returned")
  /\ UNCHANGED <<configVars, isOpen, concurrentFallbacks, locals, history>>

(* Mutant of LeaveRun: the place is given back twice.                      *)
LeaveRunTwice(g) ==
  /\ pc[g] = "leave"
  /\ concurrentCommands' = concurrentCommands - 2
  /\ Goto(g, IF result[g] = "err" THEN "fallback" ELSE "returned")
  /\ UNCHANGED <<configVars, isOpen, concurrentFallbacks, locals, history>>

(* The end of run: its deferred Add(-1); no fallback for nil or a bad      *)
(* request.                                                                *)
LeaveRun(g) ==
  /\ pc[g] = "leave"
  /\ concurrentCommands' = concurrentCommands - 1
  /\ Goto(g, IF result[g] = "err" THEN "fallback" ELSE "returned")
  /\ UNCHANGED <<configVars, isOpen, concurrentFallbacks, locals, history>>

-----------------------------------------------------------------------------
(* fallback.                                                               *)

(* There is a fallbackFunc, and it is not disabled, or there is not.       *)
Fallback(g) ==
  /\ pc[g] = "fallback"
  /\ \/ ~config.FallbackDisabled /\ Goto(g, "enterFallback")
     \/ Goto(g, "returned")
  /\ UNCHANGED <<configVars, isOpen, counters, locals, history>>

EnterFallback(g) ==
  /\ pc[g] = "enterFallback"
  /\ concurrentFallbacks' = concurrentFallbacks + 1
  /\ currentCount' = [currentCount EXCEPT ![g] = concurrentFallbacks + 1]
  /\ Goto(g, "fallbackLimit")
  /\ UNCHANGED <<configVars, isOpen, concurrentCommands, maxConcurrent, hasDeadline, result,
                 fallbackResult, history>>

(* The limit is read after the count was taken.                            *)
ReadFallbackLimit(g) ==
  /\ pc[g] = "fallbackLimit"
  /\ IF OverLimit(currentCount[g], config.FallbackMaxConcurrentRequests)
       THEN /\ FallbackVerdict(g)
            /\ FallbackReturns(g, "throttled")
            /\ concurrentFallbacks' = concurrentFallbacks - 1
            /\ Goto(g, "returned")
       ELSE /\ Goto(g, "runFallback")
            /\ UNCHANGED <<fallbackVerdicts, fallbackResult, concurrentFallbacks>>
  /\ currentCount' = [currentCount EXCEPT ![g] = 0]
  /\ UNCHANGED <<configVars, isOpen, concurrentCommands, maxConcurrent, hasDeadline,
                 result, verdicts, held>>

(* fallbackFunc returns or panics; the deferred Add(-1) is made anyway.    *)
FallbackEnds(g, r) ==
  /\ pc[g] = "runFallback"
  /\ \/ r \in {"nil", "err"} /\ FallbackVerdict(g)
     \/ r = "panic" /\ MayPanic /\ UNCHANGED fallbackVerdicts
  /\ FallbackReturns(g, r)
  /\ concurrentFallbacks' = concurrentFallbacks - 1
  /\ Goto(g, "returned")
  /\ UNCHANGED <<configVars, isOpen, concurrentCommands, maxConcurrent, hasDeadline,
                 currentCount, result, verdicts, held>>

(* Execute is over and its locals are gone.                                *)
Return(g) ==
  /\ pc[g] = "returned"
  /\ Goto(g, "idle")
  /\ maxConcurrent' = [maxConcurrent EXCEPT ![g] = 0]
  /\ hasDeadline' = [hasDeadline EXCEPT ![g] = FALSE]
  /\ Returns(g, "nil")
  /\ FallbackReturns(g, "none")
  /\ verdicts' = [verdicts EXCEPT ![g] = 0]
  /\ fallbackVerdicts' = [fallbackVerdicts EXCEPT ![g] = 0]
  /\ heldOpen' = [heldOpen EXCEPT ![g] = FALSE]
  /\ heldClosed' = [heldClosed EXCEPT ![g] = FALSE]
  /\ UNCHANGED <<configVars, isOpen, counters, currentCount>>

-----------------------------------------------------------------------------
(* SetConfigThreadSafe, one call at a time (notThreadSafeConfigMu).        *)

SetConfigThreadSafe(c) ==
  /\ nextField = 0
  /\ newConfig' = c
  /\ nextField' = 1
  /\ UNCHANGED <<config, isOpen, counters, pc, locals, history>>

(* atomicCircuitConfig.reset stores field after field.                     *)
StoreField ==
  /\ nextField # 0
  /\ config' = [config EXCEPT ![Fields[nextField]] = newConfig[Fields[nextField]]]
  /\ nextField' = (nextField + 1) % (Len(Fields) + 1)
  /\ heldOpen' = [g \in Goroutines |-> heldOpen[g] /\ config'.ForceOpen]
  /\ heldClosed' = [g \in Goroutines |-> heldClosed[g] /\ config'.ForcedClosed]
  /\ UNCHANGED <<newConfig, isOpen, counters, pc, locals, verdicts, fallbackVerdicts>>

-----------------------------------------------------------------------------
Begin(g) ==
  \/ Call(g) \/ ReadDisabled(g) \/ Bypass(g) \/ ReadLimit(g) \/ ReadForceOpen(g)
  \/ ReadForcedClosed(g) \/ ReadState(g) \/ ReadCount(g) \/ Allow(g)
  \/ Prevented(g) \/ Enter(g) \/ Throttled(g) \/ ReadTimeout(g)

End(g) ==
  \/ \E r \in {"nil", "err", "bad"}, late, canceled \in BOOLEAN : RunReturns(g, r, late, canceled)
  \/ RunPanics(g) \/ Interrupted(g)
  \/ AfterFailure(g) \/ MayOpen(g) \/ ShouldOpen(g) \/ AfterSuccess(g) \/ MayClose(g)
  \/ Transit(g) \/ LeaveRun(g) \/ Fallback(g) \/ EnterFallback(g) \/ ReadFallbackLimit(g)
  \/ \E r \in {"nil", "err", "panic"} : FallbackEnds(g, r)
  \/ Return(g)

Next ==
  \/ \E g \in Goroutines : Begin(g) \/ End(g)
  \/ ByHand
  \/ \E c \in Configs : SetConfigThreadSafe(c)
  \/ StoreField

Spec == Init /\ [][Next]_vars

-----------------------------------------------------------------------------
(* Properties.                                                             *)

Locations ==
  {"idle", "disabled", "bypass", "limit", "forceOpen", "forcedClosed", "state", "count",
   "allow", "prevent", "throttled", "timeout", "run", "interrupt", "failed", "mayOpen",
   "shouldOpen", "succeeded", "mayClose", "open", "close", "leave", "fallback",
   "enterFallback", "fallbackLimit", "runFallback", "returned"}

Results ==
  {"nil", "err", "bad", "open", "prevented", "throttled", "panic", "bypassed"}

(* Every variable has its type; no counter goes below zero.                *)
TypeOK ==
  /\ config \in Config /\ newConfig \in Configs /\ nextField \in 0 .. Len(Fields)
  /\ isOpen \in BOOLEAN
  /\ concurrentCommands \in Nat /\ concurrentFallbacks \in Nat
  /\ pc \in [Goroutines -> Locations]
  /\ maxConcurrent \in [Goroutines -> Int]
  /\ hasDeadline \in [Goroutines -> BOOLEAN]
  /\ currentCount \in [Goroutines -> Nat]
  /\ result \in [Goroutines -> Results]
  /\ fallbackResult \in [Goroutines -> {"none", "nil", "err", "throttled", "panic"}]
  /\ verdicts \in [Goroutines -> Nat]
  /\ fallbackVerdicts \in [Goroutines -> Nat]
  /\ heldOpen \in [Goroutines -> BOOLEAN]
  /\ heldClosed \in [Goroutines -> BOOLEAN]

At(locations) == {g \in Goroutines : pc[g] \in locations}

(* Where a call of run holds a place.                                      *)
InRun == {"timeout", "run", "interrupt", "failed", "mayOpen", "shouldOpen", "succeeded",
          "mayClose", "open", "close", "leave"}

(* MaxConcurrentRequests holds although it changes under way: of any set   *)
(* of calls that run at once, one was allowed that many.                   *)
RunsWithinLimit ==
  At(InRun) # {} =>
    \E g \in At(InRun) :
      maxConcurrent[g] < 0 \/ Cardinality(At(InRun)) <= maxConcurrent[g]

(* Every place taken is given back once, on every way out of run and       *)
(* fallback, panics included.                                              *)
PlacesGivenBack ==
  /\ concurrentCommands = Cardinality(At(InRun \cup {"throttled"}))
  /\ concurrentFallbacks = Cardinality(At({"fallbackLimit", "runFallback"}))

(* While ForceOpen or ForcedClosed stays set, for the whole of a call that *)
(* does not bypass the circuit: a call forced open neither runs nor closes *)
(* the circuit, and a call forced closed does not open it.  (A Disabled    *)
(* circuit looks at neither flag: its calls bypass it and run.)            *)
ForceFlagsHonoured ==
  \A g \in Goroutines :
    /\ heldOpen[g] => pc[g] \notin InRun
    /\ heldClosed[g] => pc[g] # "open"

(* "One (and only one)": whatever the configuration did meanwhile, no call *)
(* ever tells the RunMetrics or the FallbackMetrics two things.  A call    *)
(* that is over has told the RunMetrics one, and its fallback, called or   *)
(* throttled, the FallbackMetrics one.  Where the code departs from the    *)
(* interfaces' guarantee, and tells nothing, this asks for no more than    *)
(* "not two": a runFunc or a fallback that panicked, a prevented call.     *)
(* Disabled circuits track nothing, as documented.                         *)
OneVerdictPerCall ==
  \A g \in Goroutines :
    /\ verdicts[g] <= 1 /\ fallbackVerdicts[g] <= 1
    /\ pc[g] = "returned" =>
         /\ result[g] \notin {"panic", "prevented"} =>
              verdicts[g] = IF result[g] = "bypassed" THEN 0 ELSE 1
         /\ fallbackResult[g] # "panic" =>
              fallbackVerdicts[g] = IF fallbackResult[g] = "none" THEN 0 ELSE 1
=============================================================================
