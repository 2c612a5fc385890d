----------------------------- MODULE Transition -----------------------------
(***************************************************************************)
(* The open/closed transitions of one Circuit (circuit.go): transitionTo,  *)
(* commitTransition, notifyStateMachines, deliverPendingTransitions and    *)
(* the fan-out of MetricsCollection to the user's listeners (metrics.go).  *)
(*                                                                         *)
(* A goroutine of this module executes transitionTo: for OpenCircuit and   *)
(* CloseCircuit, for the automatic paths of Execute, or re-entrantly out   *)
(* of a listener that it is itself running.  A listener is user code: it   *)
(* may re-enter the circuit, and it may panic.  The two pluggable state    *)
(* machines (ClosedToOpen, OpenToClosed) are kept as what the circuit asks *)
(* of them: a yes/no answer that evidence switches on and that Opened and  *)
(* Closed switch off.                                                      *)
(***************************************************************************)
EXTENDS Naturals, Sequences

CONSTANTS
  Goroutines,           \* the goroutines that call into the circuit
  NoHolder,             \* the value of transitionMu while nobody holds it
  NumListeners,         \* len(CircuitMetricsCollector)
  Automatic,            \* the targets whose logic may ever say yes: {} with
                        \* neverOpens and neverCloses, BOOLEAN with hystrix
  MaxPending,           \* no transition begins with this many queued
  ListenerMayPanic,     \* may a user listener panic or call Goexit
  StateMachineMayPanic  \* may the pluggable open/close logic panic

ASSUME NoHolderAssumption == NoHolder \notin Goroutines
ASSUME NumListenersAssumption == NumListeners \in Nat \ {0}
ASSUME AutomaticAssumption == Automatic \subseteq BOOLEAN
ASSUME MaxPendingAssumption == MaxPending \in Nat
ASSUME PanicAssumption ==
  ListenerMayPanic \in BOOLEAN /\ StateMachineMayPanic \in BOOLEAN

VARIABLES
  isOpen,                 \* Circuit.isOpen, atomic
  transitionMu,           \* who holds Circuit.transitionMu
  pendingTransitions,     \* the queued transitions, each by its target state
  deliveringTransitions,  \* is the deliverer role taken
  answer,                 \* answer[TRUE] = ShouldOpen, answer[FALSE] = ShouldClose
  pc,                     \* where each goroutine is
  call,                   \* the arguments of its innermost transitionTo
  nested,                 \* is that call made by a listener it is running
  next,                   \* local of the delivery loop: the popped transition
  listener,               \* the listener that is next, or running
  heard,                  \* history: the last event each listener was sent
  fresh                   \* history: evidence that arrived since the last flip

circuitVars == <<isOpen, transitionMu, pendingTransitions, deliveringTransitions>>
localVars == <<call, nested, next, listener>>
vars == <<circuitVars, answer, pc, localVars, heard, fresh>>

Listeners == 1 .. NumListeners

Locations == {"idle", "check", "lock", "commit", "flip", "tellCloser",
              "tellOpener", "queue", "deliver", "call", "listening",
              "drain", "cleanup"}

(* The locals of a goroutine while they are not in use.                    *)
NoCall == [open |-> FALSE, recheck |-> FALSE]

Init ==
  /\ isOpen = FALSE
  /\ transitionMu = NoHolder
  /\ pendingTransitions = << >>
  /\ deliveringTransitions = FALSE
  /\ answer = [target \in BOOLEAN |-> FALSE]
  /\ pc = [g \in Goroutines |-> "idle"]
  /\ call = [g \in Goroutines |-> NoCall]
  /\ nested = [g \in Goroutines |-> FALSE]
  /\ next = [g \in Goroutines |-> FALSE]
  /\ listener = [g \in Goroutines |-> 1]
  /\ heard = [l \in Listeners |-> FALSE]
  /\ fresh = [target \in BOOLEAN |-> FALSE]

-----------------------------------------------------------------------------
(* Control flow shared by the steps.                                       *)

Goto(g, location) == pc' = [pc EXCEPT ![g] = location]

(* transitionTo returns: to the application, or into the listener that     *)
(* called it.                                                              *)
Return(g) ==
  /\ Goto(g, IF nested[g] THEN "listening" ELSE "idle")
  /\ nested' = [nested EXCEPT ![g] = FALSE]
  /\ call' = [call EXCEPT ![g] = NoCall]

(* A panic leaves transitionTo.  The application recovers it (or dies); a  *)
(* listener either recovers it or lets it pass into the delivery loop that *)
(* runs the listener.                                                      *)
Propagate(g) ==
  /\ \E location \in IF nested[g] THEN {"listening", "cleanup"} ELSE {"idle"} :
        Goto(g, location)
  /\ nested' = [nested EXCEPT ![g] = FALSE]
  /\ call' = [call EXCEPT ![g] = NoCall]

Unlock == transitionMu' = NoHolder

(* OpenCircuit/CloseCircuit (no recheck), or attemptToOpen/checkSuccess    *)
(* after their unlocked look at the state and at ShouldOpen/ShouldClose.   *)
Begin(g, open, recheck) ==
  /\ pc[g] \in {"idle", "listening"}
  /\ Len(pendingTransitions) < MaxPending
  /\ recheck => isOpen # open /\ answer[open]
  /\ call' = [call EXCEPT ![g] = [open |-> open, recheck |-> recheck]]
  /\ nested' = [nested EXCEPT ![g] = pc[g] = "listening"]
  /\ Goto(g, "check")
  /\ UNCHANGED <<circuitVars, answer, next, listener, heard, fresh>>

(* transitionTo: the pre-check without the lock.                           *)
PreCheck(g) ==
  /\ pc[g] = "check"
  /\ IF isOpen = call[g].open
       THEN Return(g)
       ELSE Goto(g, "lock") /\ UNCHANGED <<nested, call>>
  /\ UNCHANGED <<circuitVars, answer, next, listener, heard, fresh>>

(* commitTransition: transitionMu.Lock().                                  *)
Lock(g) ==
  /\ pc[g] = "lock"
  /\ transitionMu = NoHolder
  /\ transitionMu' = g
  /\ Goto(g, "commit")
  /\ UNCHANGED <<isOpen, pendingTransitions, deliveringTransitions, answer,
                 localVars, heard, fresh>>

(* Mutants of Stale: no second look at the state, or at the predicate.     *)
StaleByAnswerOnly(g) == call[g].recheck /\ ~answer[call[g].open]
StaleByStateOnly(g) == isOpen = call[g].open

(* commitTransition, under the lock: somebody else got here first, or the  *)
(* re-asked predicate has changed its mind.                                *)
Stale(g) ==
  \/ isOpen = call[g].open
  \/ call[g].recheck /\ ~answer[call[g].open]

(* commitTransition: re-test the state and re-ask the predicate.           *)
Recheck(g) ==
  /\ pc[g] = "commit"
  /\ IF Stale(g)
       THEN Unlock /\ Return(g)
       ELSE Goto(g, "flip") /\ UNCHANGED <<transitionMu, nested, call>>
  /\ UNCHANGED <<isOpen, pendingTransitions, deliveringTransitions, answer,
                 next, listener, heard, fresh>>

(* commitTransition: isOpen.Set(open), visible at once to every goroutine  *)
(* that reads the flag without the lock.                                   *)
Flip(g) ==
  /\ pc[g] = "flip"
  /\ isOpen' = call[g].open
  /\ fresh' = [target \in BOOLEAN |-> FALSE]
  /\ Goto(g, "tellCloser")
  /\ UNCHANGED <<transitionMu, pendingTransitions, deliveringTransitions,
                 answer, localVars, heard>>

(* notifyStateMachines: OpenToClose first, then ClosedToOpen; either starts *)
(* its evidence over.                                                      *)
Tell(g, here, target, after) ==
  /\ pc[g] = here
  /\ answer' = [answer EXCEPT ![target] = FALSE]
  /\ Goto(g, after)
  /\ UNCHANGED <<circuitVars, localVars, heard, fresh>>

TellCloser(g) == Tell(g, "tellCloser", FALSE, "tellOpener")
TellOpener(g) == Tell(g, "tellOpener", TRUE, "queue")

(* Mutant of DeferredUnlock: the unlock is only reached without a panic.   *)
NoDeferredUnlock == UNCHANGED transitionMu

DeferredUnlock == Unlock

(* ShouldOpen/ShouldClose, Opened or Closed of a pluggable state machine   *)
(* panics: commitTransition leaves through its deferred Unlock.            *)
StateMachinePanics(g) ==
  /\ StateMachineMayPanic
  /\ \/ pc[g] = "commit" /\ call[g].recheck /\ isOpen # call[g].open
     \/ pc[g] \in {"tellCloser", "tellOpener"}
  /\ DeferredUnlock
  /\ Propagate(g)
  /\ UNCHANGED <<isOpen, pendingTransitions, deliveringTransitions, answer,
                 next, listener, heard, fresh>>

(* Mutant of Enqueued: the newest transition is delivered first.           *)
EnqueuedInFront(open) == <<open>> \o pendingTransitions

Enqueued(open) == Append(pendingTransitions, open)

(* commitTransition: queue the notification and leave the critical section. *)
Queue(g) ==
  /\ pc[g] = "queue"
  /\ pendingTransitions' = Enqueued(call[g].open)
  /\ Unlock
  /\ Goto(g, "deliver")
  /\ UNCHANGED <<isOpen, deliveringTransitions, answer, localVars, heard, fresh>>

-----------------------------------------------------------------------------
(* deliverPendingTransitions.                                              *)

(* The locals of the delivery loop are gone.                               *)
EndDelivery(g) ==
  /\ next' = [next EXCEPT ![g] = FALSE]
  /\ listener' = [listener EXCEPT ![g] = 1]

(* Mutant of ReleaseRole: the flag stays up.                               *)
KeepRole == UNCHANGED deliveringTransitions

ReleaseRole == deliveringTransitions' = FALSE

(* The head of the loop, with transitionMu held: pop the first transition  *)
(* and call the listeners unlocked, or give up the role and return.        *)
PopOrFinish(g) ==
  IF pendingTransitions # << >>
    THEN /\ deliveringTransitions' = TRUE
         /\ next' = [next EXCEPT ![g] = Head(pendingTransitions)]
         /\ listener' = [listener EXCEPT ![g] = 1]
         /\ pendingTransitions' = Tail(pendingTransitions)
         /\ Goto(g, "call")
         /\ UNCHANGED <<nested, call>>
    ELSE /\ ReleaseRole
         /\ EndDelivery(g)
         /\ Return(g)
         /\ UNCHANGED pendingTransitions

(* Mutant of RoleTaken: every committer delivers.                          *)
RoleNeverTaken == FALSE

RoleTaken == deliveringTransitions

(* Entry: whoever finds no delivery in progress becomes the deliverer, the *)
(* others leave their transition to it.                                    *)
Deliver(g) ==
  /\ pc[g] = "deliver"
  /\ transitionMu = NoHolder
  /\ IF RoleTaken
       THEN /\ Return(g)
            /\ UNCHANGED <<deliveringTransitions, next, listener, pendingTransitions>>
       ELSE PopOrFinish(g)
  /\ UNCHANGED <<isOpen, transitionMu, answer, heard, fresh>>

(* notifyListeners: the next listener of MetricsCollection gets the event. *)
CallListener(g) ==
  /\ pc[g] = "call"
  /\ heard' = [heard EXCEPT ![listener[g]] = next[g]]
  /\ Goto(g, "listening")
  /\ UNCHANGED <<circuitVars, answer, localVars, fresh>>

(* Mutant of HasNextListener: the loop runs one too far.                   *)
HasListenerBeyond(g) == listener[g] <= NumListeners

HasNextListener(g) == listener[g] < NumListeners

(* The loop of MetricsCollection.Opened/Closed goes on to the next         *)
(* listener, or ends.                                                      *)
ListenerReturns(g) ==
  /\ pc[g] = "listening"
  /\ IF HasNextListener(g)
       THEN /\ listener' = [listener EXCEPT ![g] = @ + 1]
            /\ Goto(g, "call")
       ELSE Goto(g, "drain") /\ UNCHANGED listener
  /\ UNCHANGED <<circuitVars, answer, call, nested, next, heard, fresh>>

(* A listener panics or calls runtime.Goexit: the listeners after it are   *)
(* skipped and the deferred cleanup of the delivery loop runs.             *)
ListenerPanics(g) ==
  /\ ListenerMayPanic
  /\ pc[g] = "listening"
  /\ Goto(g, "cleanup")
  /\ UNCHANGED <<circuitVars, answer, localVars, heard, fresh>>

(* The loop takes the lock again after the listeners.                      *)
Drain(g) ==
  /\ pc[g] = "drain"
  /\ transitionMu = NoHolder
  /\ PopOrFinish(g)
  /\ UNCHANGED <<isOpen, transitionMu, answer, heard, fresh>>

(* Mutant of Redeliver: what is queued is left to the next transition.     *)
LeaveQueued(g) == Return(g)

Redeliver(g) == Goto(g, "deliver") /\ UNCHANGED <<nested, call>>

(* The deferred cleanup: give up the role under the lock, unlock, and      *)
(* deliver again from here while unwinding.  The goroutine then leaves     *)
(* with its panic, which the application recovers.                         *)
Cleanup(g) ==
  /\ pc[g] = "cleanup"
  /\ transitionMu = NoHolder
  /\ ReleaseRole
  /\ EndDelivery(g)
  /\ Redeliver(g)
  /\ UNCHANGED <<isOpen, transitionMu, pendingTransitions, answer, heard, fresh>>

-----------------------------------------------------------------------------
(* Execute reports results to the state machines without any lock, so      *)
(* their answers change at any time: towards TRUE with evidence, back to   *)
(* FALSE when the evidence is contradicted or rolls out of its window.     *)
Evidence(target) ==
  /\ answer' = [answer EXCEPT ![target] = TRUE]
  /\ fresh' = [fresh EXCEPT ![target] = TRUE]
  /\ UNCHANGED <<circuitVars, pc, localVars, heard>>

Lapse(target) ==
  /\ answer[target]
  /\ answer' = [answer EXCEPT ![target] = FALSE]
  /\ UNCHANGED <<circuitVars, pc, localVars, heard, fresh>>

Step(g) ==
  \/ PreCheck(g) \/ Lock(g) \/ Recheck(g) \/ Flip(g)
  \/ TellCloser(g) \/ TellOpener(g) \/ StateMachinePanics(g) \/ Queue(g)
  \/ Deliver(g) \/ CallListener(g) \/ ListenerReturns(g) \/ ListenerPanics(g)
  \/ Drain(g) \/ Cleanup(g)

Next ==
  \/ \E g \in Goroutines : Step(g)
  \/ \E g \in Goroutines, open, recheck \in BOOLEAN : Begin(g, open, recheck)
  \/ \E target \in Automatic : Evidence(target) \/ Lapse(target)

Spec == Init /\ [][Next]_vars

(* A goroutine that can run does run; sync.Mutex hands the lock to a       *)
(* starving waiter; a listener returns or panics, however often it         *)
(* re-enters the circuit before.  Nothing makes anyone begin a transition. *)
Fairness ==
  \A g \in Goroutines :
    /\ WF_vars(PreCheck(g) \/ Recheck(g) \/ Flip(g) \/ TellCloser(g)
               \/ TellOpener(g) \/ Queue(g) \/ CallListener(g))
    /\ SF_vars(Lock(g) \/ Deliver(g) \/ Drain(g) \/ Cleanup(g))
    /\ SF_vars(ListenerReturns(g) \/ ListenerPanics(g))

FairSpec == Spec /\ Fairness

-----------------------------------------------------------------------------
(* Where a goroutine stands.                                               *)

(* Inside the critical section of commitTransition.                        *)
InCritical(g) == pc[g] \in {"commit", "flip", "tellCloser", "tellOpener", "queue"}

(* It flipped isOpen and has not queued the notification yet.              *)
Committing(g) == pc[g] \in {"tellCloser", "tellOpener", "queue"}

(* It runs a listener, possibly underneath a nested transitionTo.          *)
Listening(g) == pc[g] = "listening" \/ nested[g]

(* Where a call that a listener made can be: never in a delivery loop.     *)
NestedLocations == {"check", "lock", "commit", "flip", "tellCloser",
                    "tellOpener", "queue", "deliver"}

(* It is between taking and giving up the deliverer role.                  *)
HoldsRole(g) == Listening(g) \/ pc[g] \in {"call", "drain", "cleanup"}

-----------------------------------------------------------------------------
(* Properties.                                                             *)

(* Every variable has its type.                                            *)
TypeOK ==
  /\ isOpen \in BOOLEAN
  /\ transitionMu \in Goroutines \cup {NoHolder}
  /\ pendingTransitions \in Seq(BOOLEAN)
  /\ deliveringTransitions \in BOOLEAN
  /\ answer \in [BOOLEAN -> BOOLEAN]
  /\ pc \in [Goroutines -> Locations]
  /\ call \in [Goroutines -> [open : BOOLEAN, recheck : BOOLEAN]]
  /\ nested \in [Goroutines -> BOOLEAN]
  /\ next \in [Goroutines -> BOOLEAN]
  /\ listener \in [Goroutines -> Listeners]
  /\ heard \in [Listeners -> BOOLEAN]
  /\ fresh \in [BOOLEAN -> BOOLEAN]

(* "Delivered ... one transition at a time" (metrics.go): the role flag is *)
(* up exactly while one goroutine is the deliverer, and there is never a   *)
(* second one, on another goroutine or further up the same stack.          *)
OneDeliverer ==
  /\ deliveringTransitions <=> \E g \in Goroutines : HoldsRole(g)
  /\ \A g, h \in Goroutines : HoldsRole(g) /\ HoldsRole(h) => g = h
  /\ \A g \in Goroutines : nested[g] => pc[g] \in NestedLocations

(* "With no circuit lock held" (metrics.go), "the lock is released even if *)
(* recheck or a state machine panics" (commitTransition): a goroutine      *)
(* holds transitionMu exactly while it is in the critical section, so      *)
(* neither a listener nor a goroutine that left by a panic has it.         *)
LockMatchesSection ==
  \A g \in Goroutines : transitionMu = g <=> InCritical(g)

(* deliverPendingTransitions never queues a transition "forever behind a   *)
(* dead loop": while something is queued some goroutine is the deliverer   *)
(* or is on its way to ask for the role, also after panics.                *)
NothingStranded ==
  pendingTransitions # << >> =>
    \E g \in Goroutines : HoldsRole(g) \/ pc[g] = "deliver"

(* "Delivered in transition order, strictly alternating" (metrics.go): the *)
(* event the first listener, whom no other listener's panic can skip, is   *)
(* about to get is never the one it got last.                              *)
FirstListenerAlternates ==
  \A g \in Goroutines :
    pc[g] = "call" /\ listener[g] = 1 => next[g] # heard[1]

(* No notification is lost or left behind: once no call is in progress the *)
(* first listener's last event is the state the circuit is in.             *)
ListenersCaughtUp ==
  (\A g \in Goroutines : pc[g] = "idle") => heard[1] = isOpen

(* commitTransition re-asks the predicate under the lock "because the      *)
(* caller's unlocked answer may have gone stale": an automatic transition  *)
(* rests on evidence that arrived after the previous transition.           *)
FlipRestsOnFreshEvidence ==
  \A g \in Goroutines :
    pc[g] = "flip" /\ call[g].recheck => fresh[call[g].open]

-----------------------------------------------------------------------------
(* What one listener is promised, as a specification of its own: the flips *)
(* of isOpen it has not heard of are the queued ones, the one that is      *)
(* being committed, and the one that is being delivered to listeners       *)
(* before it.                                                              *)

Count(condition) == IF condition THEN 1 ELSE 0

(* g is delivering a transition that listener l has not heard of yet.      *)
OnItsWay(g, l) ==
  \/ pc[g] = "call" /\ listener[g] <= l
  \/ Listening(g) /\ listener[g] < l

Behind(l) ==
  Len(pendingTransitions)
    + Count(\E g \in Goroutines : Committing(g))
    + Count(\E g \in Goroutines : OnItsWay(g, l))

First == INSTANCE ListenerContract
           WITH open <- isOpen, behind <- Behind(1), heard <- heard[1]
Last == INSTANCE ListenerContract
          WITH open <- isOpen, behind <- Behind(NumListeners), heard <- heard[NumListeners]

(* The first and the last listener see the circuit through                 *)
(* ListenerContract: each flip is announced to them once, in order, and    *)
(* eventually.                                                             *)
FirstListenerIsServed == First!Spec
LastListenerIsServed == Last!Spec
=============================================================================
