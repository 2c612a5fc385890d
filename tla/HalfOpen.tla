------------------------------ MODULE HalfOpen ------------------------------
(***************************************************************************)
(* How an open circuit recovers: the hystrix Closer (closers/hystrix)      *)
(* around its TimedCheck, driven by requests (Execute in circuit.go) that  *)
(* ask Allow, run, report their result and perhaps flip the circuit, and   *)
(* by manual OpenCircuit/CloseCircuit.  Every load, store, compare-and-    *)
(* swap and critical section is a step of its own.                         *)
(***************************************************************************)
EXTENDS TimedCheck, FiniteSets

CONSTANTS
  Requests,                      \* the goroutines that call Execute
  Operators,                     \* those that call OpenCircuit/CloseCircuit
  NoHolder,                      \* transitionMu while it is free
  RequiredConcurrentSuccessful,  \* closeOnCurrentCount
  HandAssigned                   \* may the closer join a circuit already open

Goroutines == Requests \cup Operators

ASSUME HolderAssumption == NoHolder \notin Goroutines
ASSUME DisjointAssumption == Requests \cap Operators = {}
ASSUME RequiredAssumption == RequiredConcurrentSuccessful \in Nat \ {0}
ASSUME HandAssignedAssumption == HandAssigned \in BOOLEAN

VARIABLES
  isOpen,        \* Circuit.isOpen
  transitionMu,  \* Circuit.transitionMu, held from the flip to the last reset
  openedAt,      \* Closer.openedAt
  closedAt,      \* Closer.closedAt
  concurrentSuccessfulAttempts,
  pc,            \* where each goroutine is
  now,           \* the now each goroutine passes on: its start, or its stamp
  flippedAt,     \* history: when the circuit last opened
  probe,         \* history: requests Allow let through in this open episode
  proofs,        \* history: probes of this episode that succeeded
  overtaken      \* history: was a request about to arm the closer when it was
                 \* last told of a close

lastClose == <<closedAt, overtaken>>
closerVars == <<openedAt, lastClose, concurrentSuccessfulAttempts>>
circuitVars == <<isOpen, transitionMu>>
history == <<flippedAt, probe, proofs>>
vars == <<timedCheckVars, closerVars, circuitVars, pc, now, history>>

Locations ==
  {"idle", "flag", "loadOpened", "loadClosed", "fastFail", "check", "run",
   "success", "credit", "failure", "debit", "decideClose", "decideOpen",
   "open", "close", "forceOpen", "forceClose",
   "stampOpen", "armSleep", "armPublish", "armReset",
   "stampClose", "storeClosed", "clearOpened", "closedReset"}

(* A new circuit is closed and its closer was never told anything.  A      *)
(* closer may also be given to a circuit that is already open (assigned by *)
(* hand, or shared with another circuit).                                  *)
Init ==
  /\ TimedCheckInit
  /\ isOpen \in {FALSE, HandAssigned}
  /\ transitionMu = NoHolder
  /\ openedAt = Nil
  /\ closedAt = Nil
  /\ concurrentSuccessfulAttempts = 0
  /\ pc = [g \in Goroutines |-> "idle"]
  /\ now = [g \in Goroutines |-> 0]
  /\ flippedAt = -Horizon
  /\ probe = {}
  /\ proofs = 0
  /\ overtaken = FALSE

Goto(g, location) == pc' = [pc EXCEPT ![g] = location]

(* The call is over and its locals are gone.                               *)
Done(g) ==
  /\ Goto(g, "idle")
  /\ now' = [now EXCEPT ![g] = 0]
  /\ probe' = probe \ {g}

-----------------------------------------------------------------------------
(* Execute, up to runFunc.                                                 *)

(* run: startTime := c.now().                                              *)
Start(g) ==
  /\ pc[g] = "idle"
  /\ Goto(g, "flag")
  /\ UNCHANGED <<timedCheckVars, closerVars, circuitVars, now, history>>

(* allowNewRun: a closed circuit runs everything, an open one asks Allow.  *)
ReadFlag(g) ==
  /\ pc[g] = "flag"
  /\ Goto(g, IF isOpen THEN "loadOpened" ELSE "run")
  /\ UNCHANGED <<timedCheckVars, closerVars, circuitVars, now, history>>

(* Allow: is the closer armed?                                             *)
LoadOpenedAt(g) ==
  /\ pc[g] = "loadOpened"
  /\ Goto(g, IF openedAt = Nil THEN "loadClosed" ELSE "fastFail")
  /\ UNCHANGED <<timedCheckVars, closerVars, circuitVars, now, history>>

(* Mutant of ClosedRecently: a request that raced a close arms the closer. *)
NeverClosedRecently(g) == FALSE

(* Mutant of ClosedRecently: a missing close time counts as recent.        *)
NilIsRecent(g) == closedAt = Nil \/ now[g] - closedAt < SleepWindow

ClosedRecently(g) == closedAt # Nil /\ now[g] - closedAt < SleepWindow

(* Allow, not armed: deny, and arm unless a close was just heard of.       *)
LoadClosedAt(g) ==
  /\ pc[g] = "loadClosed"
  /\ IF ClosedRecently(g)
       THEN Done(g)
       ELSE Goto(g, "armSleep") /\ UNCHANGED <<now, probe>>
  /\ UNCHANGED <<timedCheckVars, closerVars, circuitVars, flippedAt, proofs>>

(* Check: the flag that saves taking the lock.                             *)
ReadFastFail(g) ==
  /\ pc[g] = "fastFail"
  /\ IF isFastFail
       THEN Done(g)
       ELSE Goto(g, "check") /\ UNCHANGED <<now, probe>>
  /\ UNCHANGED <<timedCheckVars, closerVars, circuitVars, flippedAt, proofs>>

(* Check, under its lock.                                                  *)
CheckWindow(g) ==
  /\ pc[g] = "check"
  /\ \/ CheckDenies(now[g]) /\ Done(g)
     \/ /\ CheckGrants(now[g])
        /\ Goto(g, "run")
        /\ probe' = probe \cup {g}
        /\ UNCHANGED now
  /\ UNCHANGED <<closerVars, circuitVars, flippedAt, proofs>>

-----------------------------------------------------------------------------
(* The result of runFunc, reported to the closer.                          *)

Succeed(g) ==
  /\ pc[g] = "run"
  /\ Goto(g, "success")
  /\ proofs' = IF g \in probe /\ proofs < RequiredConcurrentSuccessful
                 THEN proofs + 1 ELSE proofs
  /\ UNCHANGED <<timedCheckVars, closerVars, circuitVars, now, flippedAt, probe>>

Fail(g) ==
  /\ pc[g] = "run"
  /\ Goto(g, "failure")
  /\ UNCHANGED <<timedCheckVars, closerVars, circuitVars, now, history>>

(* A throttled, bad or interrupted request, or a panic, tells the closer   *)
(* nothing: a probe may be used up without an answer.                      *)
NoVerdict(g) ==
  /\ pc[g] = "run"
  /\ Done(g)
  /\ UNCHANGED <<timedCheckVars, closerVars, circuitVars, flippedAt, proofs>>

(* startedWhileOpen: strictly after the opening the closer knows of.       *)
startedWhileOpen(g) == openedAt # Nil /\ now[g] > openedAt

(* Closer.Success and Closer.ErrFailure/ErrTimeout: load openedAt ...      *)
LoadEpisode(g) ==
  /\ \/ /\ pc[g] = "success"
        /\ Goto(g, IF startedWhileOpen(g) THEN "credit" ELSE "decideClose")
     \/ /\ pc[g] = "failure"
        /\ Goto(g, IF startedWhileOpen(g) THEN "debit" ELSE "decideOpen")
  /\ UNCHANGED <<timedCheckVars, closerVars, circuitVars, now, history>>

(* ... and then change the streak.  Only whether it has reached the        *)
(* required number matters, so it stops counting there.                    *)
Credit(g) ==
  /\ pc[g] = "credit"
  /\ concurrentSuccessfulAttempts' =
       IF concurrentSuccessfulAttempts < RequiredConcurrentSuccessful
         THEN concurrentSuccessfulAttempts + 1
         ELSE concurrentSuccessfulAttempts
  /\ Goto(g, "decideClose")
  /\ UNCHANGED <<timedCheckVars, openedAt, lastClose, circuitVars, now, history>>

Debit(g) ==
  /\ pc[g] = "debit"
  /\ concurrentSuccessfulAttempts' = 0
  /\ Goto(g, "decideOpen")
  /\ UNCHANGED <<timedCheckVars, openedAt, lastClose, circuitVars, now, history>>

ShouldClose == concurrentSuccessfulAttempts >= RequiredConcurrentSuccessful

(* checkSuccess: an open circuit with enough successes is closed.          *)
DecideClose(g) ==
  /\ pc[g] = "decideClose"
  /\ IF isOpen /\ ShouldClose
       THEN Goto(g, "close") /\ UNCHANGED <<now, probe>>
       ELSE Done(g)
  /\ UNCHANGED <<timedCheckVars, closerVars, circuitVars, flippedAt, proofs>>

(* attemptToOpen: the opener (any ClosedToOpen) may want to open.          *)
DecideOpen(g) ==
  /\ pc[g] = "decideOpen"
  /\ \/ ~isOpen /\ Goto(g, "open") /\ UNCHANGED <<now, probe>>
     \/ Done(g)
  /\ UNCHANGED <<timedCheckVars, closerVars, circuitVars, flippedAt, proofs>>

(* OpenCircuit and CloseCircuit.                                           *)
ByHand(g, location) ==
  /\ pc[g] = "idle"
  /\ Goto(g, location)
  /\ UNCHANGED <<timedCheckVars, closerVars, circuitVars, now, history>>

-----------------------------------------------------------------------------
(* commitTransition under transitionMu, and notifyStateMachines.           *)

(* Lock, re-test the state, re-ask, flip.                                  *)
CommitOpen(g) ==
  /\ pc[g] \in {"open", "forceOpen"}
  /\ transitionMu = NoHolder
  /\ \/ /\ ~isOpen
        /\ isOpen' = TRUE
        /\ transitionMu' = g
        /\ Goto(g, "stampOpen")
        /\ flippedAt' = 0
        /\ probe' = {} /\ proofs' = 0
        /\ UNCHANGED now
     \/ /\ isOpen \/ pc[g] = "open"  \* ShouldOpen may have changed its mind
        /\ Done(g)
        /\ UNCHANGED <<circuitVars, flippedAt, proofs>>
  /\ UNCHANGED <<timedCheckVars, closerVars>>

CommitClose(g) ==
  /\ pc[g] \in {"close", "forceClose"}
  /\ transitionMu = NoHolder
  /\ IF isOpen /\ (pc[g] = "close" => ShouldClose)
       THEN /\ isOpen' = FALSE
            /\ transitionMu' = g
            /\ Goto(g, "stampClose")
            /\ probe' = {} /\ proofs' = 0
            /\ UNCHANGED <<now, flippedAt>>
       ELSE Done(g) /\ UNCHANGED <<circuitVars, flippedAt, proofs>>
  /\ UNCHANGED <<timedCheckVars, closerVars>>

(* The time of the transition is read after the flag has flipped.          *)
Stamp(g) ==
  /\ \/ pc[g] = "stampOpen" /\ Goto(g, "armSleep")
     \/ pc[g] = "stampClose" /\ Goto(g, "storeClosed")
  /\ now' = [now EXCEPT ![g] = 0]
  /\ UNCHANGED <<timedCheckVars, closerVars, circuitVars, history>>

(* arm: for Opened (force: under transitionMu) and for a self-arming Allow. *)
ArmSleep(g) ==
  /\ pc[g] = "armSleep"
  /\ SleepStart(now[g])
  /\ Goto(g, "armPublish")
  /\ UNCHANGED <<closerVars, circuitVars, now, history>>

ArmPublish(g) ==
  /\ pc[g] = "armPublish"
  /\ openedAt' = IF transitionMu = g \/ openedAt = Nil THEN now[g] ELSE openedAt
  /\ Goto(g, "armReset")
  /\ UNCHANGED <<timedCheckVars, lastClose, concurrentSuccessfulAttempts,
                 circuitVars, now, history>>

(* The end of arm, and of the critical section when Opened was running.    *)
ArmReset(g) ==
  /\ pc[g] = "armReset"
  /\ concurrentSuccessfulAttempts' = 0
  /\ transitionMu' = IF transitionMu = g THEN NoHolder ELSE transitionMu
  /\ Done(g)
  /\ UNCHANGED <<timedCheckVars, openedAt, lastClose, isOpen, flippedAt, proofs>>

(* Closer.Closed: closedAt first, then openedAt, then the streak.          *)
StoreClosed(g) ==
  /\ pc[g] = "storeClosed"
  /\ closedAt' = now[g]
  /\ overtaken' = (\E h \in Goroutines : pc[h] \in {"armSleep", "armPublish"})
  /\ Goto(g, "clearOpened")
  /\ UNCHANGED <<timedCheckVars, openedAt, concurrentSuccessfulAttempts,
                 circuitVars, now, history>>

(* Mutant of ClearOpened: the closer stays armed.                          *)
StaysArmed(g) ==
  /\ pc[g] = "clearOpened"
  /\ Goto(g, "closedReset")
  /\ UNCHANGED <<timedCheckVars, closerVars, circuitVars, now, history>>

ClearOpened(g) ==
  /\ pc[g] = "clearOpened"
  /\ openedAt' = Nil
  /\ Goto(g, "closedReset")
  /\ UNCHANGED <<timedCheckVars, lastClose, concurrentSuccessfulAttempts,
                 circuitVars, now, history>>

ClosedReset(g) ==
  /\ pc[g] = "closedReset"
  /\ concurrentSuccessfulAttempts' = 0
  /\ transitionMu' = NoHolder
  /\ Done(g)
  /\ UNCHANGED <<timedCheckVars, openedAt, lastClose, isOpen, flippedAt, proofs>>

-----------------------------------------------------------------------------
Timer ==
  /\ TimerFires \/ TimerClears
  /\ UNCHANGED <<closerVars, circuitVars, pc, now, history>>

(* Time passes: no call becomes older than MaxAge.                         *)
Tick ==
  /\ \A g \in Goroutines : pc[g] # "idle" => now[g] > -MaxAge
  /\ TimedCheckAges
  /\ openedAt' = Older(openedAt)
  /\ closedAt' = Older(closedAt)
  /\ flippedAt' = Older(flippedAt)
  /\ now' = [g \in Goroutines |-> IF pc[g] = "idle" THEN 0 ELSE now[g] - 1]
  /\ UNCHANGED <<concurrentSuccessfulAttempts, overtaken, circuitVars, pc, probe, proofs>>

Request(g) ==
  \/ ReadFlag(g) \/ LoadOpenedAt(g) \/ LoadClosedAt(g) \/ ReadFastFail(g)
  \/ CheckWindow(g) \/ Succeed(g) \/ Fail(g) \/ NoVerdict(g) \/ LoadEpisode(g) \/ Credit(g)
  \/ Debit(g) \/ DecideClose(g) \/ DecideOpen(g)

Commit(g) ==
  \/ CommitOpen(g) \/ CommitClose(g) \/ Stamp(g)
  \/ ArmSleep(g) \/ ArmPublish(g) \/ ArmReset(g)
  \/ StoreClosed(g) \/ ClearOpened(g) \/ ClosedReset(g)

Next ==
  \/ \E g \in Requests : Start(g) \/ Request(g)
  \/ \E g \in Operators, location \in {"forceOpen", "forceClose"} : ByHand(g, location)
  \/ \E g \in Goroutines : Commit(g)
  \/ Timer
  \/ Tick

Spec == Init /\ [][Next]_vars

(* Requests keep coming, goroutines and timers run, and time passes.       *)
Fairness ==
  /\ \A g \in Requests : WF_vars(Start(g) \/ Request(g) \/ Commit(g))
  /\ \A g \in Operators : WF_vars(Commit(g))
  /\ WF_vars(Timer)
  /\ WF_vars(Tick)

FairSpec == Spec /\ Fairness

-----------------------------------------------------------------------------
(* Properties.                                                             *)

Times == -Horizon .. 0

(* Every variable has its type; a window that is still accepting probes    *)
(* has let through fewer than HalfOpenAttempts.                            *)
TypeOK ==
  /\ isFastFail \in BOOLEAN /\ clearing \in BOOLEAN
  /\ nextOpenTime \in -Horizon .. SleepWindow
  /\ currentlyAllowedEventCount \in Nat
  /\ currentlyAllowedEventCount > 0 => currentlyAllowedEventCount < HalfOpenAttempts
  /\ timer \in (-Horizon .. SleepWindow) \cup {Nil}
  /\ isOpen \in BOOLEAN
  /\ transitionMu \in Goroutines \cup {NoHolder}
  /\ openedAt \in Times \cup {Nil} /\ overtaken \in BOOLEAN
  /\ closedAt \in Times \cup {Nil}
  /\ concurrentSuccessfulAttempts \in 0 .. RequiredConcurrentSuccessful
  /\ pc \in [Goroutines -> Locations]
  /\ now \in [Goroutines -> -MaxAge .. 0]
  /\ flippedAt \in Times
  /\ probe \subseteq Goroutines
  /\ proofs \in 0 .. RequiredConcurrentSuccessful

(* Closer.openedAt is "nil while closed": once a transition is complete, a *)
(* closed circuit has a closer that is not armed.                          *)
NilWhileClosed ==
  transitionMu = NoHolder /\ ~isOpen => openedAt = Nil

(* closedAt keeps "a request that merely raced a close" from arming the    *)
(* closer: a complete close leaves it unarmed, and nobody about to arm it, *)
(* unless a request had looked at closedAt before that close was stored.   *)
ArmedOnlyWhileOpen ==
  transitionMu = NoHolder /\ ~isOpen /\ ~overtaken =>
    openedAt = Nil /\ \A g \in Goroutines : pc[g] \notin {"armSleep", "armPublish"}

(* No probe before the backend had its rest: a request that began after    *)
(* the circuit opened and that Allow let through began a SleepWindow later *)
(* than the opening, less the age a request can have when it arms the      *)
(* closer itself ("they all start the window at ~now"), unless the closer  *)
(* was still armed by a request that the last close overtook.              *)
ProbesWaitForTheWindow ==
  isOpen /\ ~overtaken =>
    \A g \in probe :
      now[g] > flippedAt => now[g] - flippedAt >= SleepWindow - MaxAge

(* Only "the results of requests that started after [openedAt] count       *)
(* towards closing": whoever has just closed the circuit on the closer's   *)
(* word was preceded by enough successful probes of that open episode.     *)
ClosedByProbes ==
  [][\A g \in Goroutines :
       isOpen /\ ~isOpen' /\ pc[g] = "close" /\ pc'[g] = "stampClose"
         => proofs >= RequiredConcurrentSuccessful]_vars

(* "Rather than never probing again": if the requests that are let run     *)
(* succeed time and again, an open circuit closes, although permits are    *)
(* spent on requests that are then throttled or interrupted, probes fail,  *)
(* and the closer may never have been told of the opening.                 *)
Recovers == (\A g \in Requests : SF_vars(Succeed(g))) => (isOpen ~> ~isOpen)
=============================================================================
