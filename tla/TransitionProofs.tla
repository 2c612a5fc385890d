-------------------------- MODULE TransitionProofs --------------------------
(* Proofs about Transition.                                                *)
EXTENDS Transition, SequenceTheorems, TLAPS

(* The locals of a goroutine at rest are well typed.                       *)
LEMMA NoCallType == NoCall \in [open : BOOLEAN, recheck : BOOLEAN]
BY DEF NoCall

(* What a goroutine's return does to its own locals.                       *)
LEMMA ReturnTypes ==
  ASSUME TypeOK, NEW g \in Goroutines, Return(g)
  PROVE  /\ pc' \in [Goroutines -> Locations]
         /\ nested' \in [Goroutines -> BOOLEAN]
         /\ call' \in [Goroutines -> [open : BOOLEAN, recheck : BOOLEAN]]
<1>1. nested' \in [Goroutines -> BOOLEAN]
  BY Zenon DEF TypeOK, Return
<1>2. QED
  BY <1>1, NoCallType DEF TypeOK, Locations, Return, Goto

(* There is a first listener.                                              *)
LEMMA OneIsListener == 1 \in Listeners
BY NumListenersAssumption DEF Listeners

(* A delivery loop that ends leaves its locals well typed.                 *)
LEMMA EndDeliveryTypes ==
  ASSUME TypeOK, NEW g \in Goroutines, EndDelivery(g)
  PROVE  /\ next' \in [Goroutines -> BOOLEAN]
         /\ listener' \in [Goroutines -> Listeners]
BY OneIsListener DEF TypeOK, EndDelivery

(* Every variable of the transition code keeps its type.                   *)
THEOREM TypeCorrect == Spec => []TypeOK
<1>1. Init => TypeOK
  <2> SUFFICES ASSUME Init PROVE TypeOK
    OBVIOUS
  <2>1. isOpen \in BOOLEAN /\ deliveringTransitions \in BOOLEAN
    BY Zenon DEF Init
  <2>2. QED
    BY <2>1, NoCallType, NumListenersAssumption
    DEF Init, TypeOK, Locations, Listeners
<1>2. TypeOK /\ [Next]_vars => TypeOK'
  <2> SUFFICES ASSUME TypeOK, [Next]_vars PROVE TypeOK'
    OBVIOUS
  <2> USE NoCallType, NumListenersAssumption DEF TypeOK, Locations, Goto
  <2>1. ASSUME NEW g \in Goroutines, NEW open \in BOOLEAN, NEW recheck \in BOOLEAN,
               Begin(g, open, recheck)
        PROVE  TypeOK'
    BY <2>1 DEF Begin, circuitVars
  <2>2. ASSUME NEW g \in Goroutines, PreCheck(g) PROVE TypeOK'
    <3>1. CASE Return(g)
      BY <2>2, <3>1, ReturnTypes DEF PreCheck, circuitVars
    <3>2. CASE Goto(g, "lock") /\ UNCHANGED <<nested, call>>
      BY <2>2, <3>2 DEF PreCheck, circuitVars
    <3>3. QED
      BY <2>2, <3>1, <3>2 DEF PreCheck
  <2>3. ASSUME NEW g \in Goroutines, Lock(g) PROVE TypeOK'
    BY <2>3 DEF Lock, localVars
  <2>4. ASSUME NEW g \in Goroutines, Recheck(g) PROVE TypeOK'
    <3>1. CASE Unlock /\ Return(g)
      BY <2>4, <3>1, ReturnTypes DEF Recheck, Unlock
    <3>2. CASE Goto(g, "flip") /\ UNCHANGED <<transitionMu, nested, call>>
      BY <2>4, <3>2 DEF Recheck
    <3>3. QED
      BY <2>4, <3>1, <3>2 DEF Recheck
  <2>5. ASSUME NEW g \in Goroutines, Flip(g) PROVE TypeOK'
    BY <2>5 DEF Flip, localVars
  <2>6. ASSUME NEW g \in Goroutines, TellCloser(g) PROVE TypeOK'
    BY <2>6 DEF TellCloser, Tell, circuitVars, localVars
  <2>7. ASSUME NEW g \in Goroutines, TellOpener(g) PROVE TypeOK'
    BY <2>7 DEF TellOpener, Tell, circuitVars, localVars
  <2>8. ASSUME NEW g \in Goroutines, StateMachinePanics(g) PROVE TypeOK'
    BY <2>8 DEF StateMachinePanics, DeferredUnlock, Unlock, Propagate
  <2>9. ASSUME NEW g \in Goroutines, Queue(g) PROVE TypeOK'
    <3>1. Append(pendingTransitions, call[g].open) \in Seq(BOOLEAN)
      OBVIOUS
    <3>2. QED
      BY <2>9, <3>1 DEF Queue, Enqueued, Unlock, localVars
  <2>10. ASSUME NEW g \in Goroutines, PopOrFinish(g),
                UNCHANGED <<isOpen, transitionMu, answer, heard, fresh>>
         PROVE  TypeOK'
    <3>1. CASE pendingTransitions # << >>
      <4>1. /\ Head(pendingTransitions) \in BOOLEAN
            /\ Tail(pendingTransitions) \in Seq(BOOLEAN)
        BY <3>1
      <4>2. deliveringTransitions' \in BOOLEAN
        BY <2>10, <3>1, Zenon DEF PopOrFinish
      <4>3. next' \in [Goroutines -> BOOLEAN]
        BY <2>10, <3>1, <4>1 DEF PopOrFinish
      <4>4. /\ listener' \in [Goroutines -> Listeners]
            /\ pc' \in [Goroutines -> Locations]
        BY <2>10, <3>1, OneIsListener DEF PopOrFinish
      <4>5. QED
        BY <2>10, <3>1, <4>1, <4>2, <4>3, <4>4 DEF PopOrFinish
    <3>2. CASE pendingTransitions = << >>
      <4>1. deliveringTransitions' \in BOOLEAN
        BY <2>10, <3>2, Zenon DEF PopOrFinish, ReleaseRole
      <4>2. QED
        BY <2>10, <3>2, <4>1, ReturnTypes, EndDeliveryTypes DEF PopOrFinish
    <3>3. QED
      BY <3>1, <3>2
  <2>11. ASSUME NEW g \in Goroutines, Deliver(g) PROVE TypeOK'
    <3>1. CASE deliveringTransitions
      BY <2>11, <3>1, ReturnTypes DEF Deliver, RoleTaken
    <3>2. CASE ~deliveringTransitions
      BY <2>10, <2>11, <3>2 DEF Deliver, RoleTaken
    <3>3. QED
      BY <3>1, <3>2
  <2>12. ASSUME NEW g \in Goroutines, CallListener(g) PROVE TypeOK'
    BY <2>12 DEF CallListener, circuitVars, localVars
  <2>13. ASSUME NEW g \in Goroutines, ListenerReturns(g) PROVE TypeOK'
    <3>1. CASE HasNextListener(g)
      <4>1. listener[g] + 1 \in Listeners
        BY <3>1 DEF HasNextListener, Listeners
      <4>2. listener' \in [Goroutines -> Listeners]
        BY <2>13, <3>1, <4>1 DEF ListenerReturns
      <4>3. pc' \in [Goroutines -> Locations]
        BY <2>13, <3>1 DEF ListenerReturns
      <4>4. QED
        BY <2>13, <4>2, <4>3 DEF ListenerReturns, circuitVars
    <3>2. CASE ~HasNextListener(g)
      BY <2>13, <3>2 DEF ListenerReturns, circuitVars
    <3>3. QED
      BY <3>1, <3>2
  <2>14. ASSUME NEW g \in Goroutines, ListenerPanics(g) PROVE TypeOK'
    BY <2>14 DEF ListenerPanics, circuitVars, localVars
  <2>15. ASSUME NEW g \in Goroutines, Drain(g) PROVE TypeOK'
    BY <2>10, <2>15 DEF Drain
  <2>16. ASSUME NEW g \in Goroutines, Cleanup(g) PROVE TypeOK'
    <3>1. deliveringTransitions' \in BOOLEAN
      BY <2>16, Zenon DEF Cleanup, ReleaseRole
    <3>2. QED
      BY <2>16, <3>1, EndDeliveryTypes DEF Cleanup, Redeliver
  <2>17. ASSUME NEW target \in Automatic, Evidence(target) PROVE TypeOK'
    <3>1. answer' \in [BOOLEAN -> BOOLEAN] /\ fresh' \in [BOOLEAN -> BOOLEAN]
      BY <2>17 DEF Evidence
    <3>2. QED
      BY <2>17, <3>1 DEF Evidence, circuitVars, localVars
  <2>18. ASSUME NEW target \in Automatic, Lapse(target) PROVE TypeOK'
    <3>1. answer' \in [BOOLEAN -> BOOLEAN]
      BY <2>18 DEF Lapse
    <3>2. QED
      BY <2>18, <3>1 DEF Lapse, circuitVars, localVars
  <2>19. CASE UNCHANGED vars
    BY <2>19 DEF vars, circuitVars, localVars
  <2>20. QED
    BY <2>1, <2>2, <2>3, <2>4, <2>5, <2>6, <2>7, <2>8, <2>9, <2>11, <2>12,
       <2>13, <2>14, <2>15, <2>16, <2>17, <2>18, <2>19 DEF Next, Step
<1>3. QED
  BY <1>1, <1>2, PTL DEF Spec

-----------------------------------------------------------------------------
(* transitionMu is held exactly in the critical section of                 *)
(* commitTransition, whoever panics.                                       *)
LEMMA LockStep ==
  ASSUME TypeOK, LockMatchesSection, [Next]_vars
  PROVE  LockMatchesSection'
<1> USE NoHolderAssumption DEF TypeOK, LockMatchesSection, InCritical, Goto, Unlock
<1>1. ASSUME NEW g \in Goroutines, NEW open \in BOOLEAN, NEW recheck \in BOOLEAN,
             Begin(g, open, recheck)
      PROVE  LockMatchesSection'
  BY <1>1 DEF Begin, circuitVars
<1>2. ASSUME NEW g \in Goroutines, PreCheck(g) PROVE LockMatchesSection'
  BY <1>2 DEF PreCheck, Return, circuitVars
<1>3. ASSUME NEW g \in Goroutines, Lock(g) PROVE LockMatchesSection'
  BY <1>3 DEF Lock
<1>4. ASSUME NEW g \in Goroutines, Recheck(g) PROVE LockMatchesSection'
  BY <1>4 DEF Recheck, Return
<1>5. ASSUME NEW g \in Goroutines, Flip(g) PROVE LockMatchesSection'
  BY <1>5 DEF Flip
<1>6. ASSUME NEW g \in Goroutines, TellCloser(g) \/ TellOpener(g)
      PROVE  LockMatchesSection'
  BY <1>6 DEF TellCloser, TellOpener, Tell, circuitVars
<1>7. ASSUME NEW g \in Goroutines, StateMachinePanics(g) PROVE LockMatchesSection'
  BY <1>7 DEF StateMachinePanics, DeferredUnlock, Propagate
<1>8. ASSUME NEW g \in Goroutines, Queue(g) PROVE LockMatchesSection'
  BY <1>8 DEF Queue
<1>9. ASSUME NEW g \in Goroutines, Deliver(g) \/ Drain(g) PROVE LockMatchesSection'
  BY <1>9 DEF Deliver, Drain, PopOrFinish, Return
<1>10. ASSUME NEW g \in Goroutines,
              CallListener(g) \/ ListenerReturns(g) \/ ListenerPanics(g)
       PROVE  LockMatchesSection'
  BY <1>10 DEF CallListener, ListenerReturns, ListenerPanics, circuitVars
<1>11. ASSUME NEW g \in Goroutines, Cleanup(g) PROVE LockMatchesSection'
  BY <1>11 DEF Cleanup, Redeliver
<1>12. CASE (\E target \in Automatic : Evidence(target) \/ Lapse(target)) \/ UNCHANGED vars
  BY <1>12 DEF Evidence, Lapse, vars, circuitVars
<1>13. QED
  BY <1>1, <1>2, <1>3, <1>4, <1>5, <1>6, <1>7, <1>8, <1>9, <1>10, <1>11, <1>12
  DEF Next, Step

(* A step that moves one goroutine without touching the role.              *)
RoleUntouched ==
  /\ \A h \in Goroutines : HoldsRole(h)' <=> HoldsRole(h)
  /\ \A h \in Goroutines : nested'[h] => pc'[h] \in NestedLocations

(* A transitionTo that returns, to the application or into the listener    *)
(* that called it, leaves the deliverer role where it was.                 *)
LEMMA ReturnKeepsRole ==
  ASSUME TypeOK, OneDeliverer, NEW g \in Goroutines, Return(g),
         pc[g] \in {"check", "commit", "deliver"}
  PROVE  RoleUntouched
<1>1. \A h \in Goroutines \ {g} : pc'[h] = pc[h] /\ nested'[h] = nested[h]
  BY DEF TypeOK, Return, Goto
<1>2. ~nested'[g]
  BY DEF TypeOK, Return
<1>3. pc'[g] = IF nested[g] THEN "listening" ELSE "idle"
  BY DEF TypeOK, Return, Goto
<1>4. QED
  BY <1>1, <1>2, <1>3 DEF OneDeliverer, RoleUntouched, HoldsRole, Listening, NestedLocations

(* A step that leaves the role alone preserves OneDeliverer.               *)
LEMMA RoleUntouchedSuffices ==
  ASSUME OneDeliverer, RoleUntouched, deliveringTransitions' = deliveringTransitions
  PROVE  OneDeliverer'
BY DEF OneDeliverer, RoleUntouched

(* The deliverer role: taken only when it is free, given up only by its    *)
(* holder.  A nested call finds it taken by its own goroutine.             *)
LEMMA RoleStep ==
  ASSUME TypeOK, TypeOK', OneDeliverer, [Next]_vars
  PROVE  OneDeliverer'
<1>1. ASSUME NEW g \in Goroutines, NEW open \in BOOLEAN, NEW recheck \in BOOLEAN,
             Begin(g, open, recheck)
      PROVE  OneDeliverer'
  BY <1>1 DEF TypeOK, OneDeliverer, HoldsRole, Listening, NestedLocations, Goto,
              Begin, circuitVars
<1>2. ASSUME NEW g \in Goroutines, PreCheck(g) \/ Recheck(g) PROVE OneDeliverer'
  <2>1. deliveringTransitions' = deliveringTransitions
    BY <1>2 DEF PreCheck, Recheck, circuitVars
  <2>2. CASE Return(g)
    BY <1>2, <2>1, <2>2, ReturnKeepsRole, RoleUntouchedSuffices DEF PreCheck, Recheck
  <2>3. CASE ~Return(g)
    <3>1. nested' = nested /\ pc' = [pc EXCEPT ![g] = pc'[g]] /\ pc'[g] \in {"lock", "flip"}
      BY <1>2, <2>3 DEF TypeOK, PreCheck, Recheck, Goto
    <3>2. RoleUntouched
      BY <1>2, <3>1 DEF TypeOK, OneDeliverer, RoleUntouched, HoldsRole, Listening,
                        NestedLocations, PreCheck, Recheck
    <3>3. QED
      BY <2>1, <3>2, RoleUntouchedSuffices
  <2>4. QED
    BY <2>2, <2>3
<1>3. ASSUME NEW g \in Goroutines,
             Lock(g) \/ Flip(g) \/ TellCloser(g) \/ TellOpener(g) \/ Queue(g)
      PROVE  OneDeliverer'
  <2>1. /\ deliveringTransitions' = deliveringTransitions
        /\ nested' = nested
        /\ \A h \in Goroutines \ {g} : pc'[h] = pc[h]
        /\ pc[g] \in {"lock", "flip", "tellCloser", "tellOpener", "queue"}
        /\ pc'[g] \in {"commit", "tellCloser", "tellOpener", "queue", "deliver"}
    BY <1>3 DEF TypeOK, Lock, Flip, TellCloser, TellOpener, Tell, Queue, Goto,
                circuitVars, localVars
  <2>2. RoleUntouched
    BY <2>1 DEF OneDeliverer, RoleUntouched, HoldsRole, Listening, NestedLocations
  <2>3. QED
    BY <2>1, <2>2, RoleUntouchedSuffices
<1>4. ASSUME NEW g \in Goroutines, StateMachinePanics(g) PROVE OneDeliverer'
  BY <1>4 DEF TypeOK, OneDeliverer, HoldsRole, Listening, NestedLocations, Goto,
              StateMachinePanics, Propagate
<1>5. ASSUME NEW g \in Goroutines, PopOrFinish(g), ~nested[g],
             \A h \in Goroutines \ {g} : ~HoldsRole(h)
      PROVE  OneDeliverer'
  <2>1. /\ \A h \in Goroutines \ {g} : pc'[h] = pc[h] /\ nested'[h] = nested[h]
        /\ ~nested'[g]
    BY <1>5 DEF TypeOK, PopOrFinish, Return, Goto
  <2>2. \A h \in Goroutines \ {g} : ~HoldsRole(h)'
    BY <1>5, <2>1 DEF HoldsRole, Listening
  <2>3. CASE pendingTransitions # << >>
    <3>1. deliveringTransitions' /\ pc'[g] = "call"
      BY <1>5, <2>3 DEF TypeOK, PopOrFinish, Goto
    <3>2. QED
      BY <2>1, <2>2, <3>1 DEF OneDeliverer, HoldsRole, Listening
  <2>4. CASE pendingTransitions = << >>
    <3>1. ~deliveringTransitions' /\ pc'[g] = "idle"
      BY <1>5, <2>4 DEF TypeOK, PopOrFinish, ReleaseRole, Return, Goto
    <3>2. QED
      BY <2>1, <2>2, <3>1 DEF OneDeliverer, HoldsRole, Listening
  <2>5. QED
    BY <2>3, <2>4
<1>6. ASSUME NEW g \in Goroutines, Deliver(g) PROVE OneDeliverer'
  <2>1. CASE deliveringTransitions
    BY <1>6, <2>1, ReturnKeepsRole, RoleUntouchedSuffices DEF Deliver, RoleTaken
  <2>2. CASE ~deliveringTransitions
    BY <1>5, <1>6, <2>2 DEF OneDeliverer, HoldsRole, Listening, Deliver, RoleTaken
  <2>3. QED
    BY <2>1, <2>2
<1>7. ASSUME NEW g \in Goroutines, Drain(g) PROVE OneDeliverer'
  <2>1. HoldsRole(g) /\ ~nested[g]
    BY <1>7 DEF Drain, OneDeliverer, HoldsRole, NestedLocations
  <2>2. QED
    BY <1>5, <1>7, <2>1 DEF Drain, OneDeliverer
<1>8. ASSUME NEW g \in Goroutines,
             CallListener(g) \/ ListenerReturns(g) \/ ListenerPanics(g)
      PROVE  OneDeliverer'
  BY <1>8 DEF TypeOK, OneDeliverer, HoldsRole, Listening, NestedLocations, Goto,
              CallListener, ListenerReturns, ListenerPanics, circuitVars, localVars
<1>9. ASSUME NEW g \in Goroutines, Cleanup(g) PROVE OneDeliverer'
  BY <1>9 DEF TypeOK, OneDeliverer, HoldsRole, Listening, NestedLocations, Goto,
              Cleanup, Redeliver, ReleaseRole
<1>10. CASE (\E target \in Automatic : Evidence(target) \/ Lapse(target)) \/ UNCHANGED vars
  BY <1>10 DEF OneDeliverer, HoldsRole, Listening, Evidence, Lapse, vars, circuitVars, localVars
<1>11. QED
  BY <1>1, <1>2, <1>3, <1>4, <1>6, <1>7, <1>8, <1>9, <1>10 DEF Next, Step

(* Whoever leaves something queued either stays responsible for it or      *)
(* leaves somebody else who is.                                            *)
LEMMA StrandedStep ==
  ASSUME TypeOK, OneDeliverer, OneDeliverer', NothingStranded, [Next]_vars
  PROVE  NothingStranded'
<1> USE DEF NothingStranded
<1>1. ASSUME NEW g \in Goroutines, Queue(g) PROVE NothingStranded'
  BY <1>1 DEF TypeOK, Queue, Goto
<1>2. ASSUME NEW g \in Goroutines, PopOrFinish(g) PROVE NothingStranded'
  BY <1>2 DEF TypeOK, PopOrFinish, Goto, HoldsRole
<1>3. ASSUME NEW g \in Goroutines, Deliver(g) PROVE NothingStranded'
  <2>1. CASE deliveringTransitions
    <3>1. deliveringTransitions'
      BY <1>3, <2>1 DEF Deliver, RoleTaken
    <3>2. QED
      BY <3>1 DEF OneDeliverer
  <2>2. CASE ~deliveringTransitions
    BY <1>2, <1>3, <2>2 DEF Deliver, RoleTaken
  <2>3. QED
    BY <2>1, <2>2
<1>4. ASSUME NEW g \in Goroutines, Drain(g) PROVE NothingStranded'
  BY <1>2, <1>4 DEF Drain
<1>5. ASSUME NEW g \in Goroutines, Cleanup(g) PROVE NothingStranded'
  BY <1>5 DEF TypeOK, Cleanup, Redeliver, Goto
<1>6. ASSUME pendingTransitions' = pendingTransitions,
             deliveringTransitions' = deliveringTransitions,
             \A h \in Goroutines : pc[h] = "deliver" => pc'[h] = "deliver"
      PROVE  NothingStranded'
  <2>1. CASE \E h \in Goroutines : HoldsRole(h)
    BY <1>6, <2>1 DEF OneDeliverer
  <2>2. CASE ~\E h \in Goroutines : HoldsRole(h)
    BY <1>6, <2>2
  <2>3. QED
    BY <2>1, <2>2
<1>7. ASSUME NEW g \in Goroutines, NEW open \in BOOLEAN, NEW recheck \in BOOLEAN,
             Begin(g, open, recheck)
      PROVE  NothingStranded'
  BY <1>6, <1>7 DEF TypeOK, Begin, Goto, circuitVars
<1>8. ASSUME NEW g \in Goroutines, PreCheck(g) \/ Recheck(g) PROVE NothingStranded'
  BY <1>6, <1>8 DEF TypeOK, PreCheck, Recheck, Return, Goto, circuitVars
<1>9. ASSUME NEW g \in Goroutines, Lock(g) \/ Flip(g) \/ TellCloser(g) \/ TellOpener(g)
      PROVE  NothingStranded'
  BY <1>6, <1>9 DEF TypeOK, Lock, Flip, TellCloser, TellOpener, Tell, Goto, circuitVars
<1>10. ASSUME NEW g \in Goroutines, StateMachinePanics(g) PROVE NothingStranded'
  BY <1>6, <1>10 DEF TypeOK, StateMachinePanics, Propagate, Goto
<1>11. ASSUME NEW g \in Goroutines,
              CallListener(g) \/ ListenerReturns(g) \/ ListenerPanics(g)
       PROVE  NothingStranded'
  BY <1>6, <1>11 DEF TypeOK, CallListener, ListenerReturns, ListenerPanics, Goto, circuitVars
<1>12. CASE (\E target \in Automatic : Evidence(target) \/ Lapse(target)) \/ UNCHANGED vars
  BY <1>6, <1>12 DEF Evidence, Lapse, vars, circuitVars
<1>13. QED
  BY <1>1, <1>3, <1>4, <1>5, <1>7, <1>8, <1>9, <1>10, <1>11, <1>12 DEF Next, Step

(* Whatever panics, listener or state machine: one deliverer at a time,    *)
(* the lock held only in the critical section, and no queued transition    *)
(* without a goroutine that will deliver it.                               *)
THEOREM DeliverySafe == Spec => [](LockMatchesSection /\ OneDeliverer /\ NothingStranded)
<1>1. Init => LockMatchesSection /\ OneDeliverer /\ NothingStranded
  BY NoHolderAssumption DEF Init, LockMatchesSection, InCritical, OneDeliverer,
     HoldsRole, Listening, NothingStranded
<1>2. TypeOK /\ TypeOK' /\ LockMatchesSection /\ OneDeliverer /\ NothingStranded /\ [Next]_vars
        => (LockMatchesSection /\ OneDeliverer /\ NothingStranded)'
  BY LockStep, RoleStep, StrandedStep
<1>3. QED
  BY <1>1, <1>2, TypeCorrect, PTL DEF Spec

(* transitionMu is held exactly in the critical section of commitTransition *)
(* whatever panics, so that it is always released.                         *)
THEOREM LockSafe == Spec => []LockMatchesSection
  BY DeliverySafe, PTL

(* A queued transition always has a goroutine that will deliver it, though *)
(* listeners may panic and deliverers may return between two events.       *)
THEOREM NoneStranded == Spec => []NothingStranded
  BY DeliverySafe, PTL

-----------------------------------------------------------------------------
(* What the first listener has been sent, what has been announced to it,   *)
(* and the state of the circuit follow each other: the last event sent,    *)
(* each queued transition and, after the last of them, isOpen alternate.   *)
(* Only between Flip and Queue isOpen is one ahead of the queue.           *)

InHand(g) == pc[g] = "call" /\ listener[g] = 1

Sent == IF \E g \in Goroutines : InHand(g) THEN ~heard[1] ELSE heard[1]

Announced == IF pendingTransitions = << >>
               THEN Sent
               ELSE pendingTransitions[Len(pendingTransitions)]

QueueAlternates ==
  /\ pendingTransitions # << >> => pendingTransitions[1] # Sent
  /\ \A i \in 1 .. Len(pendingTransitions) - 1 :
       pendingTransitions[i + 1] # pendingTransitions[i]

StateIsAnnounced ==
  /\ (\E g \in Goroutines : Committing(g)) => isOpen # Announced
  /\ (\A g \in Goroutines : ~Committing(g)) => isOpen = Announced

FlipsInProgress ==
  \A g \in Goroutines :
    /\ Committing(g) => isOpen = call[g].open
    /\ pc[g] = "flip" => isOpen # call[g].open

AnnouncementChain ==
  /\ FirstListenerAlternates
  /\ QueueAlternates
  /\ StateIsAnnounced
  /\ FlipsInProgress

(* The last event sent to the first listener is a state.                   *)
LEMMA SentIsBoolean ==
  ASSUME TypeOK PROVE Sent \in BOOLEAN
BY OneIsListener DEF TypeOK, Sent

(* The newest announcement is a state.                                     *)
LEMMA AnnouncedIsBoolean ==
  ASSUME TypeOK PROVE Announced \in BOOLEAN
<1>1. CASE pendingTransitions = << >>
  BY <1>1, SentIsBoolean DEF Announced
<1>2. CASE pendingTransitions # << >>
  BY <1>2 DEF TypeOK, Announced
<1>3. QED
  BY <1>1, <1>2

(* A step that moves goroutines without touching what the chain is about.  *)
ChainUntouched ==
  /\ isOpen' = isOpen
  /\ pendingTransitions' = pendingTransitions
  /\ heard'[1] = heard[1]
  /\ \A h \in Goroutines :
       /\ InHand(h)' <=> InHand(h)
       /\ InHand(h) => next'[h] = next[h]
       /\ Committing(h)' <=> Committing(h)
       /\ Committing(h) => call'[h].open = call[h].open
       /\ pc'[h] = "flip" => isOpen # call'[h].open

(* The deliverer takes the next transition off the queue.                  *)
Pops(g) ==
  /\ PopOrFinish(g)
  /\ pc[g] \in {"deliver", "drain"}
  /\ pendingTransitions # << >>
  /\ \A h \in Goroutines : pc[h] # "call"
  /\ isOpen' = isOpen /\ heard' = heard

(* A step that touches no link of the chain preserves it.                  *)
LEMMA ChainKept ==
  ASSUME AnnouncementChain, ChainUntouched
  PROVE  AnnouncementChain'
<1> USE DEF ChainUntouched
<1>1. Sent' = Sent
  BY DEF Sent
<1>2. Announced' = Announced
  BY <1>1 DEF Announced
<1>3. FirstListenerAlternates'
  BY DEF AnnouncementChain, FirstListenerAlternates, InHand
<1>4. QueueAlternates'
  BY <1>1 DEF AnnouncementChain, QueueAlternates
<1>5. StateIsAnnounced'
  BY <1>2 DEF AnnouncementChain, StateIsAnnounced
<1>6. FlipsInProgress'
  BY DEF AnnouncementChain, FlipsInProgress
<1>7. QED
  BY <1>3, <1>4, <1>5, <1>6 DEF AnnouncementChain

(* Flip: the state leaves the newest announcement, and the flipping        *)
(* goroutine is now committing.                                            *)
LEMMA FlipKeepsChain ==
  ASSUME TypeOK, LockMatchesSection, AnnouncementChain,
         NEW g \in Goroutines, Flip(g)
  PROVE  AnnouncementChain'
<1>1. \A h \in Goroutines \ {g} : ~InCritical(h) /\ pc'[h] = pc[h]
  BY DEF TypeOK, LockMatchesSection, InCritical, Flip, Goto
<1>2. pc[g] = "flip" /\ pc'[g] = "tellCloser" /\ call' = call
  BY DEF TypeOK, Flip, Goto, localVars
<1>3. Sent' = Sent
  BY <1>1, <1>2 DEF Sent, InHand, Flip, localVars
<1>4. Announced' = Announced
  BY <1>3 DEF Announced, Flip
<1>5. isOpen = Announced
  BY <1>1, <1>2 DEF AnnouncementChain, StateIsAnnounced, Committing, InCritical
<1>6. isOpen' = call[g].open /\ isOpen' # isOpen
  BY <1>2 DEF Flip, AnnouncementChain, FlipsInProgress
<1>7. FirstListenerAlternates'
  BY <1>1, <1>2 DEF AnnouncementChain, FirstListenerAlternates, Flip, localVars
<1>8. QueueAlternates'
  BY <1>3 DEF AnnouncementChain, QueueAlternates, Flip
<1>9. StateIsAnnounced'
  BY <1>2, <1>4, <1>5, <1>6 DEF StateIsAnnounced, Committing
<1>10. FlipsInProgress'
  BY <1>1, <1>2, <1>6 DEF FlipsInProgress, Committing, InCritical
<1>11. QED
  BY <1>7, <1>8, <1>9, <1>10 DEF AnnouncementChain

(* Queue: the flipped state becomes the newest announcement.               *)
LEMMA QueueKeepsChain ==
  ASSUME TypeOK, LockMatchesSection, AnnouncementChain,
         NEW g \in Goroutines, Queue(g)
  PROVE  AnnouncementChain'
<1>1. \A h \in Goroutines \ {g} : ~InCritical(h) /\ pc'[h] = pc[h]
  BY DEF TypeOK, LockMatchesSection, InCritical, Queue, Goto
<1>2. pc[g] = "queue" /\ pc'[g] = "deliver" /\ call' = call
  BY DEF TypeOK, Queue, Goto, localVars
<1>3. Sent' = Sent
  BY <1>1, <1>2 DEF Sent, InHand, Queue, localVars
<1>4. isOpen = call[g].open /\ isOpen # Announced
  BY <1>2 DEF AnnouncementChain, StateIsAnnounced, FlipsInProgress, Committing
<1>5. pendingTransitions' = Append(pendingTransitions, isOpen) /\ isOpen' = isOpen
  BY <1>4 DEF Queue, Enqueued
<1>6. /\ pendingTransitions \in Seq(BOOLEAN)
      /\ Len(pendingTransitions') = Len(pendingTransitions) + 1
      /\ pendingTransitions'[Len(pendingTransitions) + 1] = isOpen
      /\ \A i \in 1 .. Len(pendingTransitions) : pendingTransitions'[i] = pendingTransitions[i]
  BY <1>5 DEF TypeOK
<1>7. Announced' = isOpen
  BY <1>6 DEF Announced
<1>8. FirstListenerAlternates'
  BY <1>1, <1>2 DEF AnnouncementChain, FirstListenerAlternates, Queue, localVars
<1>9. QueueAlternates'
  <2>1. CASE pendingTransitions = << >>
    BY <1>3, <1>4, <1>6, <2>1 DEF QueueAlternates, Announced
  <2>2. CASE pendingTransitions # << >>
    <3>1. Len(pendingTransitions) \in Nat \ {0}
      BY <1>6, <2>2
    <3>2. pendingTransitions[Len(pendingTransitions)] # isOpen
      BY <1>4, <2>2 DEF Announced
    <3>3. pendingTransitions'[1] # Sent'
      BY <1>3, <1>6, <2>2, <3>1 DEF AnnouncementChain, QueueAlternates
    <3>4. ASSUME NEW i \in 1 .. Len(pendingTransitions)
          PROVE  pendingTransitions'[i + 1] # pendingTransitions'[i]
      <4>1. CASE i = Len(pendingTransitions)
        BY <1>6, <3>1, <3>2, <4>1
      <4>2. CASE i \in 1 .. Len(pendingTransitions) - 1
        BY <1>6, <3>1, <4>2 DEF AnnouncementChain, QueueAlternates
      <4>3. QED
        BY <3>1, <4>1, <4>2
    <3>5. QED
      BY <1>6, <3>1, <3>3, <3>4 DEF QueueAlternates
  <2>3. QED
    BY <2>1, <2>2
<1>10. StateIsAnnounced'
  BY <1>1, <1>2, <1>5, <1>7 DEF StateIsAnnounced, Committing, InCritical
<1>11. FlipsInProgress'
  BY <1>1, <1>2 DEF FlipsInProgress, Committing, InCritical
<1>12. QED
  BY <1>8, <1>9, <1>10, <1>11 DEF AnnouncementChain

(* Popping the queue moves its first announcement into the hand of the     *)
(* deliverer.                                                              *)
LEMMA PopKeepsChain ==
  ASSUME TypeOK, AnnouncementChain, NEW g \in Goroutines, Pops(g)
  PROVE  AnnouncementChain'
<1> USE DEF Pops
<1>1. /\ pendingTransitions' = Tail(pendingTransitions)
      /\ next' = [next EXCEPT ![g] = Head(pendingTransitions)]
      /\ listener' = [listener EXCEPT ![g] = 1]
      /\ pc' = [pc EXCEPT ![g] = "call"]
      /\ call' = call
  BY DEF PopOrFinish, Goto
<1>2. /\ pendingTransitions \in Seq(BOOLEAN)
      /\ Len(pendingTransitions) \in Nat \ {0}
      /\ Head(pendingTransitions) = pendingTransitions[1]
      /\ pendingTransitions[1] \in BOOLEAN
      /\ Len(pendingTransitions') = Len(pendingTransitions) - 1
      /\ \A i \in 1 .. Len(pendingTransitions) - 1 : pendingTransitions'[i] = pendingTransitions[i + 1]
  BY <1>1 DEF TypeOK
<1>3. Sent = heard[1] /\ pendingTransitions[1] # heard[1]
  BY DEF Sent, InHand, AnnouncementChain, QueueAlternates
<1>4. InHand(g)' /\ \A h \in Goroutines \ {g} : pc'[h] = pc[h]
  BY <1>1 DEF TypeOK, InHand
<1>5. Sent' = pendingTransitions[1]
  <2>1. Sent' = ~heard[1]
    BY <1>4 DEF Sent
  <2>2. heard[1] \in BOOLEAN
    BY OneIsListener DEF TypeOK
  <2>3. QED
    BY <1>2, <1>3, <2>1, <2>2
<1>6. Announced' = Announced
  <2>1. CASE Len(pendingTransitions) = 1
    <3>1. pendingTransitions' = << >>
      BY <1>1, <1>2, <2>1
    <3>2. QED
      BY <1>5, <2>1, <3>1 DEF Announced
  <2>2. CASE Len(pendingTransitions) # 1
    <3>1. pendingTransitions' # << >>
      BY <1>2, <2>2
    <3>2. QED
      BY <1>2, <2>2, <3>1 DEF Announced
  <2>3. QED
    BY <2>1, <2>2
<1>7. FirstListenerAlternates'
  BY <1>1, <1>2, <1>3, <1>4 DEF TypeOK, FirstListenerAlternates
<1>8. QueueAlternates'
  <2>1. pendingTransitions' # << >> => pendingTransitions'[1] # Sent'
    BY <1>2, <1>5 DEF AnnouncementChain, QueueAlternates
  <2>2. \A i \in 1 .. Len(pendingTransitions') - 1 : pendingTransitions'[i + 1] # pendingTransitions'[i]
    BY <1>2 DEF AnnouncementChain, QueueAlternates
  <2>3. QED
    BY <2>1, <2>2 DEF QueueAlternates
<1>9. \A h \in Goroutines : Committing(h)' <=> Committing(h)
  BY <1>1 DEF TypeOK, Committing
<1>10. StateIsAnnounced'
  BY <1>6, <1>9 DEF AnnouncementChain, StateIsAnnounced
<1>11. FlipsInProgress'
  BY <1>1, <1>9 DEF TypeOK, AnnouncementChain, FlipsInProgress
<1>12. QED
  BY <1>7, <1>8, <1>10, <1>11 DEF AnnouncementChain

(* CallListener: what was in hand is now what the first listener heard     *)
(* last.                                                                   *)
LEMMA HearingKeepsChain ==
  ASSUME TypeOK, OneDeliverer, AnnouncementChain, NEW g \in Goroutines, CallListener(g)
  PROVE  AnnouncementChain'
<1>1. \A h \in Goroutines \ {g} : pc[h] # "call" /\ pc'[h] = pc[h]
  BY DEF TypeOK, OneDeliverer, HoldsRole, CallListener, Goto
<1>2. pc[g] = "call" /\ pc'[g] = "listening"
  BY DEF TypeOK, CallListener, Goto
<1>3. /\ isOpen' = isOpen /\ pendingTransitions' = pendingTransitions
      /\ call' = call /\ listener' = listener /\ next' = next
  BY DEF CallListener, circuitVars, localVars
<1>4. \A h \in Goroutines : ~InHand(h)'
  BY <1>1, <1>2 DEF InHand
<1>5. heard[1] \in BOOLEAN /\ next[g] \in BOOLEAN
  BY OneIsListener DEF TypeOK
<1>6. heard'[1] = Sent
  <2>1. CASE listener[g] = 1
    <3>1. Sent = ~heard[1]
      BY <1>2, <2>1 DEF Sent, InHand
    <3>2. next[g] # heard[1]
      BY <1>2, <2>1 DEF AnnouncementChain, FirstListenerAlternates
    <3>3. heard'[1] = next[g]
      BY <2>1, OneIsListener DEF TypeOK, CallListener
    <3>4. QED
      BY <1>5, <3>1, <3>2, <3>3
  <2>2. CASE listener[g] # 1
    <3>1. Sent = heard[1]
      BY <1>1, <2>2 DEF Sent, InHand
    <3>2. QED
      BY <2>2, <3>1, OneIsListener DEF TypeOK, CallListener
  <2>3. QED
    BY <2>1, <2>2
<1>7. Sent' = Sent
  BY <1>4, <1>6 DEF Sent
<1>8. Announced' = Announced
  BY <1>3, <1>7 DEF Announced
<1>9. \A h \in Goroutines : Committing(h)' <=> Committing(h)
  BY <1>1, <1>2 DEF Committing
<1>10. QED
  BY <1>1, <1>2, <1>3, <1>4, <1>7, <1>8, <1>9
  DEF AnnouncementChain, FirstListenerAlternates, QueueAlternates, StateIsAnnounced,
      FlipsInProgress, InHand

(* Every step leaves the chain alone, or is one of the four that move an   *)
(* announcement on: flip, queue, pop, hear.                                *)
LEMMA StepShapes ==
  ASSUME ~StateMachineMayPanic, TypeOK, TypeOK', LockMatchesSection, OneDeliverer,
         AnnouncementChain, [Next]_vars
  PROVE  \/ ChainUntouched
         \/ \E g \in Goroutines : Flip(g) \/ Queue(g) \/ Pops(g) \/ CallListener(g)
<1> USE DEF ChainUntouched
<1> DEFINE FlipsKept == \A h \in Goroutines : pc[h] = "flip" => isOpen # call[h].open
<1>1. FlipsKept
  BY DEF AnnouncementChain, FlipsInProgress
<1>2. ASSUME NEW g \in Goroutines, Return(g), pc[g] \in {"check", "commit", "deliver", "drain"},
             isOpen' = isOpen, pendingTransitions' = pendingTransitions, heard' = heard,
             \A h \in Goroutines \ {g} : next'[h] = next[h] /\ listener'[h] = listener[h]
      PROVE  ChainUntouched
  <2>1. /\ \A h \in Goroutines \ {g} : pc'[h] = pc[h] /\ call'[h] = call[h]
        /\ pc'[g] \in {"listening", "idle"}
    BY <1>2 DEF TypeOK, Return, Goto
  <2>2. QED
    BY <1>1, <1>2, <2>1 DEF InHand, Committing
<1>3. ASSUME NEW g \in Goroutines, NEW open \in BOOLEAN, NEW recheck \in BOOLEAN,
             Begin(g, open, recheck)
      PROVE  ChainUntouched
  <2>1. /\ \A h \in Goroutines \ {g} : pc'[h] = pc[h] /\ call'[h] = call[h]
        /\ pc[g] \in {"listening", "idle"} /\ pc'[g] = "check"
        /\ UNCHANGED <<isOpen, pendingTransitions, heard, next, listener>>
    BY <1>3 DEF TypeOK, Begin, Goto, circuitVars
  <2>2. QED
    BY <1>1, <2>1 DEF InHand, Committing
<1>4. ASSUME NEW g \in Goroutines, PreCheck(g) PROVE ChainUntouched
  <2>1. CASE Return(g)
    BY <1>2, <1>4, <2>1 DEF PreCheck, circuitVars
  <2>2. CASE Goto(g, "lock") /\ UNCHANGED <<nested, call>>
    BY <1>1, <1>4, <2>2 DEF TypeOK, PreCheck, Goto, circuitVars, InHand, Committing
  <2>3. QED
    BY <1>4, <2>1, <2>2 DEF PreCheck
<1>5. ASSUME NEW g \in Goroutines, Lock(g) PROVE ChainUntouched
  BY <1>1, <1>5 DEF TypeOK, Lock, Goto, localVars, InHand, Committing
<1>6. ASSUME NEW g \in Goroutines, Recheck(g) PROVE ChainUntouched
  <2>1. CASE Stale(g)
    BY <1>2, <1>6, <2>1 DEF Recheck
  <2>2. CASE ~Stale(g)
    <3>1. isOpen # call[g].open
      BY <2>2 DEF Stale
    <3>2. QED
      BY <1>1, <1>6, <2>2, <3>1 DEF TypeOK, Recheck, Goto, InHand, Committing
  <2>3. QED
    BY <2>1, <2>2
<1>7. ASSUME NEW g \in Goroutines, TellCloser(g) \/ TellOpener(g) PROVE ChainUntouched
  <2>1. /\ \A h \in Goroutines \ {g} : pc'[h] = pc[h]
        /\ Committing(g) /\ Committing(g)' /\ ~InHand(g) /\ ~InHand(g)' /\ pc'[g] # "flip"
        /\ UNCHANGED <<isOpen, pendingTransitions, heard, next, listener, call>>
    BY <1>7 DEF TypeOK, TellCloser, TellOpener, Tell, Goto, circuitVars, localVars,
                InHand, Committing
  <2>2. QED
    BY <1>1, <2>1 DEF InHand, Committing
<1>8. ASSUME NEW g \in Goroutines, PopOrFinish(g), ~Pops(g), pc[g] \in {"deliver", "drain"},
             \A h \in Goroutines : pc[h] # "call",
             isOpen' = isOpen, heard' = heard
      PROVE  ChainUntouched
  <2>1. CASE pendingTransitions # << >>
    BY <1>8, <2>1 DEF Pops
  <2>2. CASE pendingTransitions = << >>
    <3>1. \A h \in Goroutines \ {g} : next'[h] = next[h] /\ listener'[h] = listener[h]
      BY <1>8, <2>2 DEF TypeOK, PopOrFinish, EndDelivery
    <3>2. QED
      BY <1>2, <1>8, <2>2, <3>1 DEF PopOrFinish
  <2>3. QED
    BY <2>1, <2>2
<1>9. ASSUME NEW g \in Goroutines, Deliver(g), ~Pops(g) PROVE ChainUntouched
  <2>1. CASE deliveringTransitions
    BY <1>2, <1>9, <2>1 DEF Deliver, RoleTaken
  <2>2. CASE ~deliveringTransitions
    BY <1>8, <1>9, <2>2 DEF Deliver, RoleTaken, OneDeliverer, HoldsRole
  <2>3. QED
    BY <2>1, <2>2
<1>10. ASSUME NEW g \in Goroutines, Drain(g), ~Pops(g) PROVE ChainUntouched
  <2>1. \A h \in Goroutines : pc[h] # "call"
    BY <1>10 DEF Drain, OneDeliverer, HoldsRole
  <2>2. QED
    BY <1>8, <1>10, <2>1 DEF Drain
<1>11. ASSUME NEW g \in Goroutines, ListenerReturns(g) PROVE ChainUntouched
  <2>1. /\ \A h \in Goroutines \ {g} : pc'[h] = pc[h] /\ listener'[h] = listener[h]
        /\ pc[g] = "listening" /\ pc'[g] \in {"call", "drain"}
        /\ UNCHANGED <<isOpen, pendingTransitions, heard, next, call>>
    BY <1>11 DEF TypeOK, ListenerReturns, Goto, circuitVars
  <2>2. ~InHand(g)'
    BY <1>11 DEF TypeOK, ListenerReturns, Goto, InHand, Listeners
  <2>3. QED
    BY <1>1, <2>1, <2>2 DEF InHand, Committing
<1>12. ASSUME NEW g \in Goroutines, ListenerPanics(g) \/ Cleanup(g) PROVE ChainUntouched
  <2>1. /\ \A h \in Goroutines \ {g} : pc'[h] = pc[h] /\ listener'[h] = listener[h] /\ next'[h] = next[h]
        /\ pc[g] \in {"listening", "cleanup"} /\ pc'[g] \in {"cleanup", "deliver"}
        /\ UNCHANGED <<isOpen, pendingTransitions, heard, call>>
    BY <1>12 DEF TypeOK, ListenerPanics, Cleanup, EndDelivery, Redeliver, Goto,
                 circuitVars, localVars
  <2>2. QED
    BY <1>1, <2>1 DEF InHand, Committing
<1>13. CASE (\E target \in Automatic : Evidence(target) \/ Lapse(target)) \/ UNCHANGED vars
  BY <1>1, <1>13
  DEF Evidence, Lapse, vars, circuitVars, localVars, InHand, Committing
<1>14. QED
  BY <1>3, <1>4, <1>5, <1>6, <1>7, <1>9, <1>10, <1>11, <1>12, <1>13
  DEF Next, Step, StateMachinePanics

(* Every step preserves the chain.                                         *)
LEMMA ChainStep ==
  ASSUME ~StateMachineMayPanic, TypeOK, TypeOK', LockMatchesSection, OneDeliverer,
         AnnouncementChain, [Next]_vars
  PROVE  AnnouncementChain'
BY StepShapes, ChainKept, FlipKeepsChain, QueueKeepsChain, PopKeepsChain, HearingKeepsChain

(* As long as the pluggable logic does not panic, the chain holds ...      *)
THEOREM ChainHolds == ~StateMachineMayPanic /\ Spec => []AnnouncementChain
<1> SUFFICES ASSUME ~StateMachineMayPanic PROVE Spec => []AnnouncementChain
  OBVIOUS
<1>1. Init => AnnouncementChain
  <2> SUFFICES ASSUME Init PROVE AnnouncementChain
    OBVIOUS
  <2>1. \A g \in Goroutines : pc[g] = "idle"
    BY DEF Init
  <2>2. heard[1] = FALSE /\ isOpen = FALSE /\ pendingTransitions = << >>
    BY OneIsListener DEF Init
  <2>3. Sent = heard[1]
    BY <2>1 DEF Sent, InHand
  <2>4. Announced = isOpen
    BY <2>2, <2>3 DEF Announced
  <2>5. QED
    BY <2>1, <2>2, <2>4
    DEF AnnouncementChain, FirstListenerAlternates, QueueAlternates, StateIsAnnounced,
        FlipsInProgress, Committing
<1>2. TypeOK /\ TypeOK' /\ LockMatchesSection /\ OneDeliverer /\ AnnouncementChain /\ [Next]_vars
        => AnnouncementChain'
  BY ChainStep
<1>3. QED
  BY <1>1, <1>2, TypeCorrect, DeliverySafe, PTL DEF Spec

(* ... so the first listener, whatever listeners panic and re-enter, hears *)
(* Opened and Closed strictly alternating ...                              *)
THEOREM Alternation == ~StateMachineMayPanic /\ Spec => []FirstListenerAlternates
<1>1. AnnouncementChain => FirstListenerAlternates
  BY DEF AnnouncementChain
<1>2. QED
  BY <1>1, ChainHolds, PTL

(* ... and has heard the state of the circuit once no call is in progress. *)
THEOREM CaughtUp == ~StateMachineMayPanic /\ Spec => []ListenersCaughtUp
<1>1. AnnouncementChain /\ OneDeliverer /\ NothingStranded => ListenersCaughtUp
  <2> SUFFICES ASSUME AnnouncementChain, OneDeliverer, NothingStranded,
                      \A g \in Goroutines : pc[g] = "idle"
               PROVE  heard[1] = isOpen
    BY DEF ListenersCaughtUp
  <2>1. Sent = heard[1]
    BY DEF Sent, InHand
  <2>2. pendingTransitions = << >>
    BY DEF OneDeliverer, NothingStranded, HoldsRole, Listening, NestedLocations
  <2>3. isOpen = Announced
    BY DEF AnnouncementChain, StateIsAnnounced, Committing
  <2>4. QED
    BY <2>1, <2>2, <2>3 DEF Announced
<1>2. QED
  BY <1>1, ChainHolds, DeliverySafe, PTL

-----------------------------------------------------------------------------
(* The circuit implements what ListenerContract promises the first         *)
(* listener (its safety; that it is served eventually stays with TLC).     *)

(* Only a transition in hand is on its way to the first listener.          *)
LEMMA OnItsWayFirst ==
  ASSUME TypeOK, NEW g \in Goroutines PROVE OnItsWay(g, 1) <=> InHand(g)
<1>1. listener[g] \in Nat /\ listener[g] >= 1
  BY NumListenersAssumption DEF TypeOK, Listeners
<1>2. QED
  BY <1>1 DEF OnItsWay, InHand

(* The same for the next state.                                            *)
LEMMA OnItsWayFirstNext ==
  ASSUME TypeOK', NEW g \in Goroutines PROVE OnItsWay(g, 1)' <=> InHand(g)'
<1>1. listener'[g] \in Nat /\ listener'[g] >= 1
  BY NumListenersAssumption DEF TypeOK, Listeners
<1>2. QED
  BY <1>1 DEF OnItsWay, InHand

InCommit == Count(\E h \in Goroutines : Committing(h))
InDelivery == Count(\E h \in Goroutines : InHand(h))

(* How far the first listener is behind: the queue, the flip being         *)
(* committed and the transition in hand.                                   *)
LEMMA BehindNow ==
  ASSUME TypeOK
  PROVE  /\ Len(pendingTransitions) \in Nat /\ InCommit \in {0, 1} /\ InDelivery \in {0, 1}
         /\ Behind(1) = Len(pendingTransitions) + InCommit + InDelivery
<1>1. (\E h \in Goroutines : OnItsWay(h, 1)) <=> (\E h \in Goroutines : InHand(h))
  BY OnItsWayFirst
<1>2. Len(pendingTransitions) \in Nat
  BY DEF TypeOK
<1>3. InCommit \in {0, 1} /\ InDelivery \in {0, 1}
  BY DEF InCommit, InDelivery, Count
<1>4. Behind(1) = Len(pendingTransitions) + InCommit + InDelivery
  BY <1>1 DEF Behind, InCommit, InDelivery, Count
<1>5. QED
  BY <1>2, <1>3, <1>4

(* The same for the next state.                                            *)
LEMMA BehindNext ==
  ASSUME TypeOK'
  PROVE  /\ Len(pendingTransitions') \in Nat /\ InCommit' \in {0, 1} /\ InDelivery' \in {0, 1}
         /\ Behind(1)' = Len(pendingTransitions') + InCommit' + InDelivery'
<1>1. (\E h \in Goroutines : OnItsWay(h, 1)') <=> (\E h \in Goroutines : InHand(h)')
  BY OnItsWayFirstNext
<1>2. Len(pendingTransitions') \in Nat
  BY DEF TypeOK
<1>3. InCommit' \in {0, 1} /\ InDelivery' \in {0, 1}
  BY DEF InCommit, InDelivery, Count
<1>4. Behind(1)' = Len(pendingTransitions') + InCommit' + InDelivery'
  BY <1>1 DEF Behind, InCommit, InDelivery, Count
<1>5. QED
  BY <1>2, <1>3, <1>4

(* Flip implements the flip of ListenerContract.                           *)
LEMMA FlipIsFlip ==
  ASSUME TypeOK, TypeOK', LockMatchesSection, AnnouncementChain,
         NEW g \in Goroutines, Flip(g)
  PROVE  First!Flip
<1>1. \A h \in Goroutines \ {g} : ~InCritical(h) /\ pc'[h] = pc[h]
  BY DEF TypeOK, LockMatchesSection, InCritical, Flip, Goto
<1>2. pc[g] = "flip" /\ pc'[g] = "tellCloser"
  BY DEF TypeOK, Flip, Goto
<1>3. InCommit = 0 /\ InCommit' = 1
  BY <1>1, <1>2 DEF InCommit, Count, Committing, InCritical
<1>4. InDelivery' = InDelivery
  BY <1>1, <1>2 DEF InDelivery, InHand, Flip, localVars
<1>5. pendingTransitions' = pendingTransitions /\ heard' = heard
  BY DEF Flip
<1>6. Behind(1)' = Behind(1) + 1
  BY <1>3, <1>4, <1>5, BehindNow, BehindNext
<1>7. isOpen' # isOpen /\ isOpen \in BOOLEAN /\ isOpen' \in BOOLEAN
  BY <1>2 DEF Flip, AnnouncementChain, FlipsInProgress, TypeOK
<1>8. isOpen' = ~isOpen
  BY <1>7
<1>9. QED
  BY <1>5, <1>6, <1>8 DEF First!Flip

(* Queueing is invisible to the contract: the listener is as far behind as *)
(* before.                                                                 *)
LEMMA QueueIsHidden ==
  ASSUME TypeOK, TypeOK', LockMatchesSection, NEW g \in Goroutines, Queue(g)
  PROVE  UNCHANGED First!contractVars
<1>1. \A h \in Goroutines \ {g} : ~InCritical(h) /\ pc'[h] = pc[h]
  BY DEF TypeOK, LockMatchesSection, InCritical, Queue, Goto
<1>2. pc[g] = "queue" /\ pc'[g] = "deliver"
  BY DEF TypeOK, Queue, Goto
<1>3. InCommit = 1 /\ InCommit' = 0
  BY <1>1, <1>2 DEF InCommit, Count, Committing, InCritical
<1>4. InDelivery' = InDelivery
  BY <1>1, <1>2 DEF InDelivery, InHand, Queue, localVars
<1>5. Len(pendingTransitions') = Len(pendingTransitions) + 1
  BY DEF TypeOK, Queue, Enqueued
<1>6. Behind(1)' = Behind(1)
  BY <1>3, <1>4, <1>5, BehindNow, BehindNext
<1>7. QED
  BY <1>6 DEF Queue, First!contractVars

(* Popping is invisible to the contract as well.                           *)
LEMMA PopIsHidden ==
  ASSUME TypeOK, TypeOK', NEW g \in Goroutines, Pops(g)
  PROVE  UNCHANGED First!contractVars
<1>1. pc' = [pc EXCEPT ![g] = "call"] /\ listener' = [listener EXCEPT ![g] = 1]
  BY DEF Pops, PopOrFinish, Goto
<1>2. InDelivery = 0 /\ InDelivery' = 1
  BY <1>1 DEF TypeOK, Pops, InDelivery, Count, InHand
<1>3. InCommit' = InCommit
  <2>1. \A h \in Goroutines : Committing(h)' <=> Committing(h)
    BY <1>1 DEF TypeOK, Pops, Committing
  <2>2. QED
    BY <2>1 DEF InCommit
<1>4. Len(pendingTransitions') = Len(pendingTransitions) - 1
  BY DEF TypeOK, Pops, PopOrFinish
<1>5. Behind(1)' = Behind(1)
  BY <1>2, <1>3, <1>4, BehindNow, BehindNext
<1>6. QED
  BY <1>5 DEF Pops, First!contractVars

(* CallListener implements Hear for the first listener, and is invisible   *)
(* to it for the others.                                                   *)
LEMMA CallIsHear ==
  ASSUME TypeOK, TypeOK', OneDeliverer, AnnouncementChain,
         NEW g \in Goroutines, CallListener(g)
  PROVE  First!Hear \/ UNCHANGED First!contractVars
<1>1. \A h \in Goroutines \ {g} : pc[h] # "call" /\ pc'[h] = pc[h]
  BY DEF TypeOK, OneDeliverer, HoldsRole, CallListener, Goto
<1>2. pc[g] = "call" /\ pc'[g] = "listening"
  BY DEF TypeOK, CallListener, Goto
<1>3. pendingTransitions' = pendingTransitions /\ isOpen' = isOpen
  BY DEF CallListener, circuitVars
<1>4. InCommit' = InCommit
  BY <1>1, <1>2 DEF InCommit, Committing
<1>5. InDelivery' = 0
  BY <1>1, <1>2 DEF InDelivery, Count, InHand
<1>6. CASE listener[g] = 1
  <2>1. InDelivery = 1
    BY <1>2, <1>6 DEF InDelivery, Count, InHand
  <2>2. Behind(1) > 0 /\ Behind(1)' = Behind(1) - 1
    BY <1>3, <1>4, <1>5, <2>1, BehindNow, BehindNext
  <2>3. next[g] # heard[1]
    BY <1>2, <1>6 DEF AnnouncementChain, FirstListenerAlternates
  <2>4. heard'[1] = next[g] /\ heard[1] \in BOOLEAN /\ next[g] \in BOOLEAN
    BY <1>6, OneIsListener DEF TypeOK, CallListener
  <2>5. heard'[1] = ~heard[1]
    BY <2>3, <2>4
  <2>6. QED
    BY <1>3, <2>2, <2>5 DEF First!Hear
<1>7. CASE listener[g] # 1
  <2>1. InDelivery = 0
    BY <1>1, <1>7 DEF InDelivery, Count, InHand
  <2>2. Behind(1)' = Behind(1)
    BY <1>3, <1>4, <1>5, <2>1, BehindNow, BehindNext
  <2>3. heard'[1] = heard[1]
    BY <1>7, OneIsListener DEF TypeOK, CallListener
  <2>4. QED
    BY <1>3, <2>2, <2>3 DEF First!contractVars
<1>8. QED
  BY <1>6, <1>7

(* Every behaviour of the transition code in which the pluggable logic     *)
(* does not panic is, seen from the first listener, one of                 *)
(* ListenerContract: every flip of isOpen is announced once, in order.     *)
THEOREM FirstListenerRefinement == ~StateMachineMayPanic /\ Spec => First!SafeSpec
<1> SUFFICES ASSUME ~StateMachineMayPanic PROVE Spec => First!SafeSpec
  OBVIOUS
<1>1. Init => First!Init
  <2> SUFFICES ASSUME Init PROVE First!Init
    OBVIOUS
  <2>1. isOpen = FALSE /\ heard[1] = FALSE
    BY OneIsListener DEF Init
  <2>2. \A g \in Goroutines : ~Committing(g) /\ ~OnItsWay(g, 1)
    BY DEF Init, Committing, OnItsWay, Listening
  <2>3. Len(pendingTransitions) = 0
    BY DEF Init
  <2>4. Behind(1) = 0
    BY <2>2, <2>3 DEF Behind, Count
  <2>5. QED
    BY <2>1, <2>4 DEF First!Init
<1>2. TypeOK /\ TypeOK' /\ LockMatchesSection /\ OneDeliverer /\ AnnouncementChain /\ [Next]_vars
        => [First!Next]_(First!contractVars)
  <2> SUFFICES ASSUME TypeOK, TypeOK', LockMatchesSection, OneDeliverer,
                      AnnouncementChain, [Next]_vars
               PROVE  First!Next \/ UNCHANGED First!contractVars
    OBVIOUS
  <2>1. CASE ChainUntouched
    <3>1. InCommit' = InCommit /\ InDelivery' = InDelivery
      BY <2>1 DEF ChainUntouched, InCommit, InDelivery
    <3>2. pendingTransitions' = pendingTransitions
      BY <2>1 DEF ChainUntouched
    <3>3. Behind(1)' = Behind(1)
      BY <3>1, <3>2, BehindNow, BehindNext
    <3>4. QED
      BY <2>1, <3>3 DEF ChainUntouched, First!contractVars
  <2>2. QED
    BY <2>1, StepShapes, FlipIsFlip, QueueIsHidden, PopIsHidden, CallIsHear DEF First!Next
<1>3. QED
  BY <1>1, <1>2, TypeCorrect, DeliverySafe, ChainHolds, PTL DEF Spec, First!SafeSpec

-----------------------------------------------------------------------------
(* The listeners after the first one.  As long as no listener panics they  *)
(* are abreast of it: a transition that is being delivered is the last one *)
(* heard by exactly those listeners that it is no longer on its way to,    *)
(* and between two deliveries all listeners have heard the same.           *)

Delivering(g) == pc[g] = "call" \/ Listening(g)

Abreast ==
  /\ \A g \in Goroutines : pc[g] # "cleanup"
  /\ \A g \in Goroutines : Delivering(g) =>
       \A l \in Listeners : OnItsWay(g, l) <=> heard[l] # next[g]
  /\ (\A g \in Goroutines : ~Delivering(g)) =>
       \A l \in Listeners : heard[l] = heard[1]

(* A step that touches neither a delivery nor what was heard.              *)
DeliveryUntouched ==
  /\ heard' = heard
  /\ \A h \in Goroutines :
       /\ pc'[h] # "cleanup"
       /\ Delivering(h)' <=> Delivering(h)
       /\ Delivering(h) => next'[h] = next[h]
       /\ \A l \in Listeners : OnItsWay(h, l)' <=> OnItsWay(h, l)

(* Of the others, a step of g touches nothing.                             *)
OthersStay(g) ==
  \A h \in Goroutines \ {g} :
    pc'[h] = pc[h] /\ nested'[h] = nested[h] /\ next'[h] = next[h] /\ listener'[h] = listener[h]

LEMMA DeliveryKept ==
  ASSUME Abreast, NEW g \in Goroutines, OthersStay(g), heard' = heard,
         pc[g] # "call", pc'[g] \notin {"call", "cleanup"},
         Listening(g)' <=> Listening(g),
         Listening(g) => next'[g] = next[g] /\ listener'[g] = listener[g]
  PROVE  DeliveryUntouched
<1>1. ASSUME NEW h \in Goroutines \ {g}
      PROVE  /\ pc'[h] # "cleanup" /\ (Delivering(h)' <=> Delivering(h)) /\ next'[h] = next[h]
             /\ \A l \in Listeners : OnItsWay(h, l)' <=> OnItsWay(h, l)
  BY DEF OthersStay, Abreast, Delivering, OnItsWay, Listening
<1>2. Delivering(g)' <=> Delivering(g)
  BY DEF Delivering
<1>3. \A l \in Listeners : OnItsWay(g, l)' <=> OnItsWay(g, l)
  BY DEF OnItsWay
<1>4. QED
  BY <1>1, <1>2, <1>3 DEF DeliveryUntouched, Delivering

(* A call that returns goes on where its listener was.                     *)
LEMMA ReturnKeepsDelivery ==
  ASSUME TypeOK, OneDeliverer, Abreast, NEW g \in Goroutines, Return(g), heard' = heard,
         pc[g] \in {"check", "commit", "deliver", "drain"},
         \A h \in Goroutines \ {g} : next'[h] = next[h] /\ listener'[h] = listener[h],
         nested[g] => next'[g] = next[g] /\ listener'[g] = listener[g]
  PROVE  DeliveryUntouched
<1>1. OthersStay(g)
  BY DEF TypeOK, Return, Goto, OthersStay
<1>2. pc'[g] = (IF nested[g] THEN "listening" ELSE "idle") /\ ~nested'[g]
  BY DEF TypeOK, Return, Goto
<1>3. Listening(g)' <=> Listening(g)
  BY <1>2 DEF Listening
<1>4. QED
  BY <1>1, <1>2, <1>3, DeliveryKept DEF Listening

(* Every step leaves the deliveries alone, or pops a transition, calls a   *)
(* listener or returns from one.                                           *)
LEMMA DeliveryShapes ==
  ASSUME ~StateMachineMayPanic, ~ListenerMayPanic, TypeOK, OneDeliverer, Abreast, [Next]_vars
  PROVE  \/ DeliveryUntouched
         \/ \E g \in Goroutines :
              \/ Pops(g) /\ (\A h \in Goroutines : ~Delivering(h))
              \/ CallListener(g) \/ ListenerReturns(g)
<1>1. ASSUME NEW g \in Goroutines, NEW open \in BOOLEAN, NEW recheck \in BOOLEAN,
             Begin(g, open, recheck)
      PROVE  DeliveryUntouched
  <2>1. /\ OthersStay(g) /\ UNCHANGED <<heard, next, listener>>
        /\ pc[g] \in {"idle", "listening"} /\ pc'[g] = "check"
        /\ nested'[g] <=> pc[g] = "listening"
    BY <1>1 DEF TypeOK, Begin, Goto, OthersStay
  <2>2. ~nested[g]
    BY <2>1 DEF OneDeliverer, NestedLocations
  <2>3. Listening(g)' <=> Listening(g)
    BY <2>1, <2>2 DEF Listening
  <2>4. QED
    BY <2>1, <2>3, DeliveryKept
<1>2. ASSUME NEW g \in Goroutines, OthersStay(g), UNCHANGED <<heard, next, listener, nested>>,
             pc[g] \notin {"call", "listening"}, pc'[g] \notin {"call", "listening", "cleanup"}
      PROVE  DeliveryUntouched
  <2>1. Listening(g)' <=> Listening(g)
    BY <1>2 DEF Listening
  <2>2. QED
    BY <1>2, <2>1, DeliveryKept
<1>3. ASSUME NEW g \in Goroutines, PreCheck(g) \/ Recheck(g) PROVE DeliveryUntouched
  <2>1. UNCHANGED <<heard, next, listener>> /\ pc[g] \in {"check", "commit"}
    BY <1>3 DEF PreCheck, Recheck
  <2>2. CASE Return(g)
    BY <2>1, <2>2, ReturnKeepsDelivery
  <2>3. CASE ~Return(g)
    <3>1. OthersStay(g) /\ nested' = nested /\ pc'[g] \in {"lock", "flip"}
      BY <1>3, <2>1, <2>3 DEF TypeOK, PreCheck, Recheck, Goto, OthersStay
    <3>2. QED
      BY <1>2, <2>1, <3>1
  <2>4. QED
    BY <2>2, <2>3
<1>4. ASSUME NEW g \in Goroutines, Lock(g) \/ Flip(g) \/ TellCloser(g) \/ TellOpener(g) \/ Queue(g)
      PROVE  DeliveryUntouched
  <2>1. /\ UNCHANGED <<heard, next, listener, nested>>
        /\ pc[g] \in {"lock", "flip", "tellCloser", "tellOpener", "queue"}
    BY <1>4 DEF Lock, Flip, TellCloser, TellOpener, Tell, Queue, localVars
  <2>2. OthersStay(g) /\ pc'[g] \in {"commit", "tellCloser", "tellOpener", "queue", "deliver"}
    BY <1>4, <2>1 DEF TypeOK, Lock, Flip, TellCloser, TellOpener, Tell, Queue, Goto, OthersStay
  <2>3. QED
    BY <1>2, <2>1, <2>2
<1>5. ASSUME NEW g \in Goroutines, PopOrFinish(g), pc[g] \in {"deliver", "drain"},
             \A h \in Goroutines : ~Delivering(h), isOpen' = isOpen, heard' = heard
      PROVE  DeliveryUntouched \/ Pops(g)
  <2>1. CASE pendingTransitions # << >>
    BY <1>5, <2>1 DEF Pops, Delivering
  <2>2. CASE pendingTransitions = << >>
    <3>1. Return(g) /\ ~nested[g]
      BY <1>5, <2>2 DEF PopOrFinish, Delivering, Listening
    <3>2. \A h \in Goroutines \ {g} : next'[h] = next[h] /\ listener'[h] = listener[h]
      BY <1>5, <2>2 DEF TypeOK, PopOrFinish, EndDelivery
    <3>3. QED
      BY <1>5, <3>1, <3>2, ReturnKeepsDelivery
  <2>3. QED
    BY <2>1, <2>2
<1>6. ASSUME NEW g \in Goroutines, Deliver(g)
      PROVE  DeliveryUntouched \/ (Pops(g) /\ \A h \in Goroutines : ~Delivering(h))
  <2>1. CASE deliveringTransitions
    <3>1. Return(g) /\ UNCHANGED <<heard, next, listener>> /\ pc[g] = "deliver"
      BY <1>6, <2>1 DEF Deliver, RoleTaken
    <3>2. QED
      BY <3>1, ReturnKeepsDelivery
  <2>2. CASE ~deliveringTransitions
    <3>1. \A h \in Goroutines : ~Delivering(h)
      BY <2>2 DEF OneDeliverer, HoldsRole, Delivering
    <3>2. PopOrFinish(g) /\ pc[g] = "deliver" /\ isOpen' = isOpen /\ heard' = heard
      BY <1>6, <2>2 DEF Deliver, RoleTaken
    <3>3. QED
      BY <1>5, <3>1, <3>2
  <2>3. QED
    BY <2>1, <2>2
<1>7. ASSUME NEW g \in Goroutines, Drain(g)
      PROVE  DeliveryUntouched \/ (Pops(g) /\ \A h \in Goroutines : ~Delivering(h))
  <2>1. PopOrFinish(g) /\ pc[g] = "drain" /\ isOpen' = isOpen /\ heard' = heard
    BY <1>7 DEF Drain
  <2>2. \A h \in Goroutines : ~Delivering(h)
    BY <2>1 DEF OneDeliverer, HoldsRole, Delivering, Listening, NestedLocations
  <2>3. QED
    BY <1>5, <2>1, <2>2
<1>8. CASE (\E target \in Automatic : Evidence(target) \/ Lapse(target)) \/ UNCHANGED vars
  <2>1. UNCHANGED <<heard, pc, nested, next, listener>>
    BY <1>8 DEF Evidence, Lapse, vars, localVars
  <2>2. QED
    BY <2>1 DEF DeliveryUntouched, Abreast, Delivering, OnItsWay, Listening
<1>9. \A g \in Goroutines : ~Cleanup(g) /\ ~StateMachinePanics(g) /\ ~ListenerPanics(g)
  BY DEF Abreast, Cleanup, StateMachinePanics, ListenerPanics
<1>10. QED
  BY <1>1, <1>3, <1>4, <1>6, <1>7, <1>8, <1>9 DEF Next, Step

(* While one goroutine delivers, no other does.                            *)
LEMMA DeliversAlone ==
  ASSUME OneDeliverer, NEW g \in Goroutines, Delivering(g)
  PROVE  \A h \in Goroutines \ {g} : ~Delivering(h)
BY DEF OneDeliverer, HoldsRole, Delivering

(* What calling a listener, and returning from one, do to deliveries.      *)
LEMMA CallMoves ==
  ASSUME TypeOK, OneDeliverer, NEW g \in Goroutines, CallListener(g)
  PROVE  /\ Delivering(g) /\ Delivering(g)' /\ OthersStay(g) /\ next' = next
         /\ listener[g] \in Listeners /\ heard' = [heard EXCEPT ![listener[g]] = next[g]]
         /\ \A l \in Listeners :
              /\ OnItsWay(g, l) <=> listener[g] <= l
              /\ OnItsWay(g, l)' <=> listener[g] < l
<1>1. /\ pc[g] = "call" /\ pc'[g] = "listening" /\ UNCHANGED <<next, listener, nested>>
      /\ OthersStay(g)
  BY DEF TypeOK, CallListener, Goto, localVars, OthersStay
<1>2. ~nested[g]
  BY <1>1 DEF OneDeliverer, NestedLocations
<1>3. QED
  BY <1>1, <1>2 DEF TypeOK, CallListener, Delivering, Listening, OnItsWay

LEMMA ReturnMoves ==
  ASSUME TypeOK, OneDeliverer, NEW g \in Goroutines, ListenerReturns(g)
  PROVE  /\ Delivering(g) /\ OthersStay(g) /\ next' = next /\ heard' = heard
         /\ pc'[g] \in {"call", "drain"}
         /\ \A l \in Listeners : OnItsWay(g, l)' <=> OnItsWay(g, l)
         /\ Delivering(g)' \/ \A l \in Listeners : ~OnItsWay(g, l)
<1>1. /\ pc[g] = "listening" /\ UNCHANGED <<next, nested, heard>> /\ OthersStay(g)
      /\ \/ /\ listener[g] < NumListeners /\ pc'[g] = "call"
            /\ listener'[g] = listener[g] + 1
         \/ ~(listener[g] < NumListeners) /\ pc'[g] = "drain" /\ listener'[g] = listener[g]
  BY DEF TypeOK, ListenerReturns, HasNextListener, Goto, OthersStay
<1>2. ~nested[g] /\ ~nested'[g]
  BY <1>1 DEF OneDeliverer, NestedLocations
<1>3. PICK k \in 1 .. NumListeners : k = listener[g]
  BY DEF TypeOK, Listeners
<1>n. NumListeners \in Nat
  BY NumListenersAssumption
<1>4. \A l \in Listeners : OnItsWay(g, l) <=> listener[g] < l
  BY <1>1 DEF OnItsWay, Listening
<1>5. CASE listener[g] < NumListeners
  <2>1. pc'[g] = "call" /\ listener'[g] = listener[g] + 1
    BY <1>1, <1>5
  <2>2. \A l \in Listeners : OnItsWay(g, l)' <=> listener[g] + 1 <= l
    BY <1>2, <2>1 DEF OnItsWay, Listening
  <2>3. \A l \in Listeners : listener[g] + 1 <= l <=> listener[g] < l
    <3>1. \A l \in Listeners : k + 1 <= l <=> k < l
      BY <1>n DEF Listeners
    <3>2. QED
      BY <1>3, <3>1
  <2>4. QED
    BY <1>1, <1>4, <2>1, <2>2, <2>3 DEF Delivering, Listening
<1>6. CASE ~(listener[g] < NumListeners)
  <2>1. pc'[g] = "drain"
    BY <1>1, <1>6
  <2>2. \A l \in Listeners : ~OnItsWay(g, l)'
    BY <1>2, <2>1 DEF OnItsWay, Listening
  <2>3. \A l \in Listeners : ~(listener[g] < l)
    <3>1. ~(k < NumListeners)
      BY <1>3, <1>6
    <3>2. \A l \in Listeners : ~(k < l)
      BY <1>n, <3>1 DEF Listeners
    <3>3. QED
      BY <1>3, <3>2
  <2>4. QED
    BY <1>1, <1>4, <2>1, <2>2, <2>3 DEF Delivering, Listening
<1>7. QED
  BY <1>5, <1>6

(* Every step keeps the listeners abreast.                                 *)
LEMMA AbreastStep ==
  ASSUME ~StateMachineMayPanic, ~ListenerMayPanic, TypeOK, TypeOK', OneDeliverer, OneDeliverer',
         AnnouncementChain, Abreast, [Next]_vars
  PROVE  Abreast'
<1>1. CASE DeliveryUntouched
  <2>1. \A h \in Goroutines : pc'[h] # "cleanup"
    BY <1>1 DEF DeliveryUntouched
  <2>2. ASSUME NEW h \in Goroutines, Delivering(h)', NEW l \in Listeners
        PROVE  OnItsWay(h, l)' <=> heard'[l] # next'[h]
    BY <1>1, <2>2 DEF DeliveryUntouched, Abreast
  <2>3. (\A h \in Goroutines : ~Delivering(h)') => \A l \in Listeners : heard'[l] = heard'[1]
    BY <1>1 DEF DeliveryUntouched, Abreast
  <2>4. QED
    BY <2>1, <2>2, <2>3 DEF Abreast
<1>2. ASSUME NEW g \in Goroutines, Delivering(g)', OthersStay(g), pc'[g] # "cleanup",
             \A l \in Listeners : OnItsWay(g, l)' <=> heard'[l] # next'[g]
      PROVE  Abreast'
  <2>1. \A h \in Goroutines : pc'[h] # "cleanup"
    BY <1>2 DEF OthersStay, Abreast
  <2>2. \A h \in Goroutines \ {g} : ~Delivering(h)'
    BY <1>2 DEF OneDeliverer, HoldsRole, Delivering
  <2>3. QED
    BY <1>2, <2>1, <2>2 DEF Abreast
<1>3. ASSUME NEW g \in Goroutines, Pops(g), \A h \in Goroutines : ~Delivering(h)
      PROVE  Abreast'
  <2>1. /\ pc' = [pc EXCEPT ![g] = "call"] /\ listener' = [listener EXCEPT ![g] = 1]
        /\ next' = [next EXCEPT ![g] = Head(pendingTransitions)] /\ nested' = nested
        /\ heard' = heard /\ pendingTransitions # << >>
    BY <1>3 DEF Pops, PopOrFinish, Goto
  <2>2. /\ pc'[g] = "call" /\ listener'[g] = 1 /\ next'[g] = Head(pendingTransitions)
        /\ OthersStay(g) /\ Delivering(g)'
    BY <2>1 DEF TypeOK, OthersStay, Delivering
  <2>3. Sent = heard[1]
    BY <1>3 DEF Sent, InHand, Delivering
  <2>4. next'[g] # heard[1]
    BY <2>1, <2>2, <2>3 DEF TypeOK, AnnouncementChain, QueueAlternates
  <2>5. \A l \in Listeners : heard[l] = heard[1]
    BY <1>3 DEF Abreast
  <2>6. \A l \in Listeners : OnItsWay(g, l)'
    BY <2>2, NumListenersAssumption DEF OnItsWay, Listeners
  <2>7. QED
    BY <1>2, <2>1, <2>2, <2>4, <2>5, <2>6
<1>4. ASSUME NEW g \in Goroutines, CallListener(g) PROVE Abreast'
  <2>1. /\ Delivering(g) /\ Delivering(g)' /\ OthersStay(g) /\ next' = next
        /\ listener[g] \in Listeners /\ heard' = [heard EXCEPT ![listener[g]] = next[g]]
        /\ \A l \in Listeners :
             (OnItsWay(g, l) <=> listener[g] <= l) /\ (OnItsWay(g, l)' <=> listener[g] < l)
    BY <1>4, CallMoves
  <2>2. \A l \in Listeners : OnItsWay(g, l) <=> heard[l] # next[g]
    BY <2>1 DEF Abreast
  <2>3. ASSUME NEW l \in Listeners PROVE OnItsWay(g, l)' <=> heard'[l] # next'[g]
    <3>1. CASE l = listener[g]
      <4>1. heard'[l] = next'[g]
        BY <2>1, <3>1 DEF TypeOK
      <4>2. ~(l < l)
        BY NumListenersAssumption DEF Listeners
      <4>3. QED
        BY <2>1, <3>1, <4>1, <4>2
    <3>2. CASE l # listener[g]
      <4>1. heard'[l] = heard[l]
        BY <2>1, <3>2 DEF TypeOK
      <4>2. listener[g] <= l <=> listener[g] < l
        BY <2>1, <3>2, NumListenersAssumption DEF Listeners
      <4>3. QED
        BY <2>1, <2>2, <4>1, <4>2
    <3>3. QED
      BY <3>1, <3>2
  <2>4. pc'[g] # "cleanup"
    BY <1>4 DEF TypeOK, CallListener, Goto
  <2>5. QED
    BY <1>2, <2>1, <2>3, <2>4
<1>5. ASSUME NEW g \in Goroutines, ListenerReturns(g) PROVE Abreast'
  <2>1. /\ Delivering(g) /\ OthersStay(g) /\ next' = next /\ heard' = heard
        /\ pc'[g] \in {"call", "drain"}
        /\ \A l \in Listeners : OnItsWay(g, l)' <=> OnItsWay(g, l)
        /\ Delivering(g)' \/ \A l \in Listeners : ~OnItsWay(g, l)
    BY <1>5, ReturnMoves
  <2>2. \A l \in Listeners : OnItsWay(g, l) <=> heard[l] # next[g]
    BY <2>1 DEF Abreast
  <2>3. CASE Delivering(g)'
    BY <1>2, <2>1, <2>2, <2>3
  <2>4. CASE ~Delivering(g)'
    <3>1. \A l \in Listeners : heard[l] = next[g]
      BY <2>1, <2>2, <2>4
    <3>2. \A h \in Goroutines : pc'[h] # "cleanup"
      BY <2>1 DEF OthersStay, Abreast
    <3>3. \A h \in Goroutines : ~Delivering(h)'
      <4>1. \A h \in Goroutines \ {g} : ~Delivering(h)
        BY <2>1, DeliversAlone
      <4>2. QED
        BY <2>1, <2>4, <4>1 DEF OthersStay, Delivering, Listening
    <3>4. QED
      BY <2>1, <3>1, <3>2, <3>3, OneIsListener DEF Abreast
  <2>5. QED
    BY <2>3, <2>4
<1>6. QED
  BY <1>1, <1>3, <1>4, <1>5, DeliveryShapes

(* No listener panics and the pluggable logic does not either: the         *)
(* listeners are abreast of each other.                                    *)
LEMMA AllAbreast == ~StateMachineMayPanic /\ ~ListenerMayPanic /\ Spec => []Abreast
<1> SUFFICES ASSUME ~StateMachineMayPanic, ~ListenerMayPanic PROVE Spec => []Abreast
  OBVIOUS
<1>1. Init => Abreast
  BY OneIsListener DEF Init, Abreast, Delivering, Listening
<1>2. TypeOK /\ TypeOK' /\ OneDeliverer /\ OneDeliverer' /\ AnnouncementChain /\ Abreast /\ [Next]_vars
        => Abreast'
  BY AbreastStep
<1>3. QED
  BY <1>1, <1>2, TypeCorrect, DeliverySafe, ChainHolds, PTL DEF Spec

(* A transition is on its way to listener l.                               *)
Underway(l) == Count(\E h \in Goroutines : OnItsWay(h, l))

LEMMA BehindAny ==
  ASSUME TypeOK, NEW l \in Listeners
  PROVE  /\ Len(pendingTransitions) \in Nat /\ InCommit \in {0, 1} /\ Underway(l) \in {0, 1}
         /\ Behind(l) = Len(pendingTransitions) + InCommit + Underway(l)
BY DEF TypeOK, Behind, InCommit, Underway, Count

LEMMA BehindAnyNext ==
  ASSUME TypeOK', NEW l \in Listeners
  PROVE  /\ Len(pendingTransitions') \in Nat /\ InCommit' \in {0, 1} /\ Underway(l)' \in {0, 1}
         /\ Behind(l)' = Len(pendingTransitions') + InCommit' + Underway(l)'
BY DEF TypeOK, Behind, InCommit, Underway, Count

(* Any listener sees the circuit through ListenerContract.                 *)
Of(l) == INSTANCE ListenerContract
           WITH open <- isOpen, behind <- Behind(l), heard <- heard[l]

LEMMA ServedStep ==
  ASSUME ~StateMachineMayPanic, ~ListenerMayPanic, TypeOK, TypeOK', LockMatchesSection,
         OneDeliverer, OneDeliverer', AnnouncementChain, Abreast, [Next]_vars,
         NEW l \in Listeners
  PROVE  Of(l)!Next \/ UNCHANGED Of(l)!contractVars
<1>b. /\ Len(pendingTransitions) \in Nat /\ InCommit \in {0, 1} /\ Underway(l) \in {0, 1}
      /\ Behind(l) = Len(pendingTransitions) + InCommit + Underway(l)
  BY BehindAny
<1>c. /\ Len(pendingTransitions') \in Nat /\ InCommit' \in {0, 1} /\ Underway(l)' \in {0, 1}
      /\ Behind(l)' = Len(pendingTransitions') + InCommit' + Underway(l)'
  BY BehindAnyNext
<1>u. ASSUME DeliveryUntouched PROVE Underway(l)' = Underway(l) /\ heard'[l] = heard[l]
  BY <1>u DEF DeliveryUntouched, Underway
<1>1. ASSUME NEW g \in Goroutines, Flip(g) PROVE Of(l)!Flip
  <2>1. DeliveryUntouched
    <3>1. OthersStay(g) /\ pc[g] = "flip" /\ pc'[g] = "tellCloser"
          /\ UNCHANGED <<heard, next, listener, nested>>
      BY <1>1 DEF TypeOK, Flip, Goto, localVars, OthersStay
    <3>2. QED
      BY <3>1, DeliveryKept DEF Listening
  <2>2. InCommit = 0 /\ InCommit' = 1 /\ pendingTransitions' = pendingTransitions
    <3>1. \A h \in Goroutines \ {g} : ~InCritical(h) /\ pc'[h] = pc[h]
      BY <1>1 DEF TypeOK, LockMatchesSection, InCritical, Flip, Goto
    <3>2. pc[g] = "flip" /\ pc'[g] = "tellCloser" /\ pendingTransitions' = pendingTransitions
      BY <1>1 DEF TypeOK, Flip, Goto
    <3>3. QED
      BY <3>1, <3>2 DEF InCommit, Count, Committing, InCritical
  <2>3. isOpen' = ~isOpen
    <3>1. First!Flip
      BY <1>1, FlipIsFlip
    <3>2. QED
      BY <3>1 DEF First!Flip
  <2>4. Behind(l)' = Behind(l) + 1
    BY <1>b, <1>c, <1>u, <2>1, <2>2
  <2>5. QED
    BY <1>u, <2>1, <2>3, <2>4 DEF Of!Flip
<1>2. ASSUME NEW g \in Goroutines, Queue(g) PROVE UNCHANGED Of(l)!contractVars
  <2>1. DeliveryUntouched
    <3>1. OthersStay(g) /\ pc[g] = "queue" /\ pc'[g] = "deliver"
          /\ UNCHANGED <<heard, next, listener, nested>>
      BY <1>2 DEF TypeOK, Queue, Goto, localVars, OthersStay
    <3>2. QED
      BY <3>1, DeliveryKept DEF Listening
  <2>2. InCommit = 1 /\ InCommit' = 0
    <3>1. \A h \in Goroutines \ {g} : ~InCritical(h) /\ pc'[h] = pc[h]
      BY <1>2 DEF TypeOK, LockMatchesSection, InCritical, Queue, Goto
    <3>2. pc[g] = "queue" /\ pc'[g] = "deliver"
      BY <1>2 DEF TypeOK, Queue, Goto
    <3>3. QED
      BY <3>1, <3>2 DEF InCommit, Count, Committing, InCritical
  <2>3. Len(pendingTransitions') = Len(pendingTransitions) + 1 /\ isOpen' = isOpen
    BY <1>2 DEF TypeOK, Queue, Enqueued
  <2>4. Behind(l)' = Behind(l)
    BY <1>b, <1>c, <1>u, <2>1, <2>2, <2>3
  <2>5. QED
    BY <1>u, <2>1, <2>3, <2>4 DEF Of!contractVars
<1>3. ASSUME NEW g \in Goroutines, Pops(g), \A h \in Goroutines : ~Delivering(h)
      PROVE  UNCHANGED Of(l)!contractVars
  <2>1. pc' = [pc EXCEPT ![g] = "call"] /\ listener' = [listener EXCEPT ![g] = 1]
    BY <1>3 DEF Pops, PopOrFinish, Goto
  <2>2. Underway(l) = 0
    BY <1>3 DEF Underway, Count, OnItsWay, Delivering
  <2>3. Underway(l)' = 1
    <3>1. pc'[g] = "call" /\ listener'[g] = 1
      BY <2>1 DEF TypeOK
    <3>2. OnItsWay(g, l)'
      BY <3>1, NumListenersAssumption DEF OnItsWay, Listeners
    <3>3. QED
      BY <3>2 DEF Underway, Count
  <2>4. InCommit' = InCommit
    <3>1. \A h \in Goroutines : Committing(h)' <=> Committing(h)
      BY <1>3, <2>1 DEF TypeOK, Pops, Committing
    <3>2. QED
      BY <3>1 DEF InCommit
  <2>5. Len(pendingTransitions') = Len(pendingTransitions) - 1 /\ isOpen' = isOpen /\ heard' = heard
    BY <1>3 DEF TypeOK, Pops, PopOrFinish
  <2>6. Behind(l)' = Behind(l)
    BY <1>b, <1>c, <2>2, <2>3, <2>4, <2>5
  <2>7. QED
    BY <2>5, <2>6 DEF Of!contractVars
<1>4. ASSUME NEW g \in Goroutines, CallListener(g)
      PROVE  Of(l)!Hear \/ UNCHANGED Of(l)!contractVars
  <2>1. /\ Delivering(g) /\ Delivering(g)' /\ OthersStay(g) /\ next' = next
        /\ listener[g] \in Listeners /\ heard' = [heard EXCEPT ![listener[g]] = next[g]]
        /\ (OnItsWay(g, l) <=> listener[g] <= l) /\ (OnItsWay(g, l)' <=> listener[g] < l)
    BY <1>4, CallMoves
  <2>2. \A h \in Goroutines \ {g} : ~OnItsWay(h, l) /\ ~OnItsWay(h, l)'
    <3>1. \A h \in Goroutines \ {g} : ~Delivering(h)
      BY <2>1, DeliversAlone
    <3>2. QED
      BY <2>1, <3>1 DEF OthersStay, Delivering, OnItsWay, Listening
  <2>3. pendingTransitions' = pendingTransitions /\ isOpen' = isOpen /\ InCommit' = InCommit
    <3>1. /\ pc' = [pc EXCEPT ![g] = "listening"] /\ pc[g] = "call"
          /\ pendingTransitions' = pendingTransitions /\ isOpen' = isOpen
      BY <1>4 DEF CallListener, Goto, circuitVars
    <3>2. \A h \in Goroutines : Committing(h)' <=> Committing(h)
      BY <3>1 DEF TypeOK, Committing
    <3>3. QED
      BY <3>1, <3>2 DEF InCommit
  <2>4. CASE listener[g] = l
    <3>1. l <= l /\ ~(l < l)
      BY NumListenersAssumption DEF Listeners
    <3>2. OnItsWay(g, l) /\ ~OnItsWay(g, l)'
      BY <2>1, <2>4, <3>1
    <3>3. Underway(l) = 1 /\ Underway(l)' = 0
      BY <2>2, <3>2 DEF Underway, Count
    <3>4. Behind(l) > 0 /\ Behind(l)' = Behind(l) - 1
      BY <1>b, <1>c, <2>3, <3>3
    <3>5. heard[l] # next[g]
      BY <2>1, <3>2 DEF Abreast
    <3>6. heard'[l] = next[g] /\ heard[l] \in BOOLEAN /\ next[g] \in BOOLEAN
      BY <2>1, <2>4 DEF TypeOK
    <3>7. heard'[l] = ~heard[l]
      BY <3>5, <3>6
    <3>8. QED
      BY <2>3, <3>4, <3>7 DEF Of!Hear
  <2>5. CASE listener[g] # l
    <3>1. listener[g] <= l <=> listener[g] < l
      BY <2>1, <2>5, NumListenersAssumption DEF Listeners
    <3>2. OnItsWay(g, l)' <=> OnItsWay(g, l)
      BY <2>1, <3>1
    <3>3. Underway(l)' = Underway(l)
      BY <2>2, <3>2 DEF Underway, Count
    <3>4. Behind(l)' = Behind(l)
      BY <1>b, <1>c, <2>3, <3>3
    <3>5. heard'[l] = heard[l]
      BY <2>1, <2>5 DEF TypeOK
    <3>6. QED
      BY <2>3, <3>4, <3>5 DEF Of!contractVars
  <2>6. QED
    BY <2>4, <2>5
<1>5. ASSUME NEW g \in Goroutines, ListenerReturns(g) PROVE UNCHANGED Of(l)!contractVars
  <2>1. /\ Delivering(g) /\ OthersStay(g) /\ heard' = heard
        /\ OnItsWay(g, l)' <=> OnItsWay(g, l)
    BY <1>5, ReturnMoves
  <2>2. \A h \in Goroutines : OnItsWay(h, l)' <=> OnItsWay(h, l)
    BY <2>1 DEF OthersStay, OnItsWay, Listening
  <2>3. Underway(l)' = Underway(l)
    BY <2>2 DEF Underway
  <2>4. pc[g] = "listening" /\ pc'[g] \in {"call", "drain"}
        /\ pendingTransitions' = pendingTransitions /\ isOpen' = isOpen
    BY <1>5 DEF TypeOK, ListenerReturns, Goto, circuitVars
  <2>5. InCommit' = InCommit
    <3>1. \A h \in Goroutines : Committing(h)' <=> Committing(h)
      BY <2>1, <2>4 DEF OthersStay, Committing
    <3>2. QED
      BY <3>1 DEF InCommit
  <2>6. Behind(l)' = Behind(l)
    BY <1>b, <1>c, <2>3, <2>4, <2>5
  <2>7. QED
    BY <2>1, <2>4, <2>6 DEF Of!contractVars
<1>6. ASSUME DeliveryUntouched, ChainUntouched PROVE UNCHANGED Of(l)!contractVars
  <2>1. InCommit' = InCommit /\ pendingTransitions' = pendingTransitions /\ isOpen' = isOpen
    BY <1>6 DEF ChainUntouched, InCommit
  <2>2. Behind(l)' = Behind(l)
    BY <1>b, <1>c, <1>u, <1>6, <2>1
  <2>3. QED
    BY <1>u, <1>6, <2>1, <2>2 DEF Of!contractVars
<1>7. ASSUME DeliveryUntouched, NEW g \in Goroutines, Pops(g) PROVE FALSE
  <2>1. pc[g] \in {"deliver", "drain"} /\ pc'[g] = "call" /\ nested' = nested
    BY <1>7 DEF TypeOK, Pops, PopOrFinish, Goto
  <2>2. Delivering(g)
    BY <1>7, <2>1 DEF DeliveryUntouched, Delivering
  <2>3. nested'[g]
    BY <2>1, <2>2 DEF Delivering, Listening
  <2>4. QED
    BY <2>1, <2>3 DEF OneDeliverer, NestedLocations
<1>8. QED
  <2>1. CASE DeliveryUntouched
    BY <1>1, <1>2, <1>4, <1>6, <1>7, <2>1, StepShapes DEF Of!Next
  <2>2. CASE ~DeliveryUntouched
    BY <1>3, <1>4, <1>5, <2>2, DeliveryShapes DEF Of!Next
  <2>3. QED
    BY <2>1, <2>2

LEMMA ServedStart ==
  ASSUME Init, NEW l \in Listeners
  PROVE  Of(l)!Init
<1>1. isOpen = FALSE /\ heard[l] = FALSE
  BY DEF Init
<1>2. \A g \in Goroutines : ~Committing(g) /\ ~OnItsWay(g, l)
  BY DEF Init, Committing, OnItsWay, Listening
<1>3. Len(pendingTransitions) = 0
  BY DEF Init
<1>4. Behind(l) = 0
  BY <1>2, <1>3 DEF Behind, Count
<1>5. QED
  BY <1>1, <1>4 DEF Of!Init

(* The circuit implements, for every one of its listeners, what            *)
(* ListenerContract promises: as long as neither a listener nor the        *)
(* pluggable logic panics, each flip of isOpen is announced to each        *)
(* listener once and in order (that a listener is served eventually stays  *)
(* with TLC).                                                              *)
THEOREM EveryListenerRefinement ==
  ASSUME NEW l \in Listeners
  PROVE  ~StateMachineMayPanic /\ ~ListenerMayPanic /\ Spec => Of(l)!SafeSpec
<1> SUFFICES ASSUME ~StateMachineMayPanic, ~ListenerMayPanic PROVE Spec => Of(l)!SafeSpec
  OBVIOUS
<1>1. Init => Of(l)!Init
  BY ServedStart
<1>2. TypeOK /\ TypeOK' /\ LockMatchesSection /\ OneDeliverer /\ OneDeliverer'
      /\ AnnouncementChain /\ Abreast /\ [Next]_vars
        => [Of(l)!Next]_(Of(l)!contractVars)
  BY ServedStep
<1>3. QED
  BY <1>1, <1>2, TypeCorrect, DeliverySafe, ChainHolds, AllAbreast, PTL DEF Spec, Of!SafeSpec

(* In particular the last listener, the one that the listener_contract run *)
(* checks with fairness.                                                   *)
THEOREM LastListenerRefinement ==
  ~StateMachineMayPanic /\ ~ListenerMayPanic /\ Spec => Last!SafeSpec
<1> SUFFICES ASSUME ~StateMachineMayPanic, ~ListenerMayPanic PROVE Spec => Last!SafeSpec
  OBVIOUS
<1>0. NumListeners \in Listeners
  BY NumListenersAssumption DEF Listeners
<1>1. Init => Last!Init
  BY <1>0, ServedStart DEF Of!Init, Last!Init
<1>2. TypeOK /\ TypeOK' /\ LockMatchesSection /\ OneDeliverer /\ OneDeliverer'
      /\ AnnouncementChain /\ Abreast /\ [Next]_vars
        => [Last!Next]_(Last!contractVars)
  BY <1>0, ServedStep DEF Of!Next, Of!Flip, Of!Hear, Of!contractVars,
                          Last!Next, Last!Flip, Last!Hear, Last!contractVars
<1>3. QED
  BY <1>1, <1>2, TypeCorrect, DeliverySafe, ChainHolds, AllAbreast, PTL DEF Spec, Last!SafeSpec

(* Once no call is in progress every listener, not only the first one, has *)
(* heard the state the circuit is in.                                      *)
EveryListenerCaughtUp ==
  (\A g \in Goroutines : pc[g] = "idle") => \A l \in Listeners : heard[l] = isOpen

(* Without panics no listener is left with an event that is out of date.   *)
THEOREM AllCaughtUp ==
  ~StateMachineMayPanic /\ ~ListenerMayPanic /\ Spec => []EveryListenerCaughtUp
<1>1. OneDeliverer /\ Abreast /\ ListenersCaughtUp => EveryListenerCaughtUp
  BY DEF OneDeliverer, NestedLocations, Abreast, Delivering, Listening, ListenersCaughtUp,
         EveryListenerCaughtUp
<1>2. QED
  BY <1>1, CaughtUp, AllAbreast, DeliverySafe, PTL

-----------------------------------------------------------------------------
(* Outside the stretch from Flip to the last state machine having been     *)
(* told, a predicate that says yes has seen evidence since the last flip.  *)
(* Nobody asks inside that stretch: it lies in the critical section.       *)
Current(target) == answer[target] => fresh[target]

EvidenceIsCurrent ==
  /\ (\A g \in Goroutines : ~Committing(g)) => \A target \in BOOLEAN : Current(target)
  /\ \A g \in Goroutines : pc[g] = "tellOpener" => Current(FALSE)
  /\ \A g \in Goroutines : pc[g] = "queue" => \A target \in BOOLEAN : Current(target)
  /\ FlipRestsOnFreshEvidence

(* A step that changes no answer, and enters neither the flip nor the      *)
(* telling, preserves EvidenceIsCurrent.                                   *)
LEMMA EvidenceKept ==
  ASSUME EvidenceIsCurrent,
         answer' = answer, fresh' = fresh,
         \A h \in Goroutines : Committing(h)' <=> Committing(h),
         \A h \in Goroutines : pc'[h] \in {"tellOpener", "queue"} => pc[h] = pc'[h],
         \A h \in Goroutines :
           pc'[h] = "flip" /\ call'[h].recheck => fresh[call'[h].open]
  PROVE  EvidenceIsCurrent'
BY DEF EvidenceIsCurrent, FlipRestsOnFreshEvidence, Current

(* Every step preserves EvidenceIsCurrent.                                 *)
LEMMA EvidenceStep ==
  ASSUME ~StateMachineMayPanic, TypeOK, TypeOK', LockMatchesSection,
         EvidenceIsCurrent, [Next]_vars
  PROVE  EvidenceIsCurrent'
<1>1. \A h \in Goroutines : pc[h] = "flip" /\ call[h].recheck => fresh[call[h].open]
  BY DEF EvidenceIsCurrent, FlipRestsOnFreshEvidence
<1>2. \A g, h \in Goroutines : InCritical(g) /\ InCritical(h) => g = h
  BY DEF LockMatchesSection
<1>3. ASSUME NEW g \in Goroutines, answer' = answer, fresh' = fresh,
             \A h \in Goroutines \ {g} : pc'[h] = pc[h] /\ call'[h] = call[h],
             ~Committing(g),
             pc'[g] \notin {"flip", "tellCloser", "tellOpener", "queue"}
      PROVE  EvidenceIsCurrent'
  BY <1>1, <1>3, EvidenceKept DEF Committing
<1>4. ASSUME NEW g \in Goroutines, NEW open \in BOOLEAN, NEW recheck \in BOOLEAN,
             Begin(g, open, recheck)
      PROVE  EvidenceIsCurrent'
  BY <1>3, <1>4 DEF TypeOK, Begin, Goto, Committing
<1>5. ASSUME NEW g \in Goroutines, PreCheck(g) PROVE EvidenceIsCurrent'
  <2>1. /\ \A h \in Goroutines \ {g} : pc'[h] = pc[h] /\ call'[h] = call[h]
        /\ pc'[g] \in {"listening", "idle", "lock"}
    BY <1>5 DEF TypeOK, PreCheck, Return, Goto
  <2>2. QED
    BY <1>3, <1>5, <2>1 DEF PreCheck, Committing
<1>6. ASSUME NEW g \in Goroutines, Lock(g) PROVE EvidenceIsCurrent'
  BY <1>3, <1>6 DEF TypeOK, Lock, Goto, Committing, localVars
<1>7. ASSUME NEW g \in Goroutines, Recheck(g) PROVE EvidenceIsCurrent'
  <2>1. CASE Stale(g)
    <3>1. /\ \A h \in Goroutines \ {g} : pc'[h] = pc[h] /\ call'[h] = call[h]
          /\ pc'[g] \in {"listening", "idle"}
      BY <1>7, <2>1 DEF TypeOK, Recheck, Return, Goto
    <3>2. QED
      BY <1>3, <1>7, <3>1 DEF Recheck, Committing
  <2>2. CASE ~Stale(g)
    <3>1. /\ pc[g] = "commit" /\ pc' = [pc EXCEPT ![g] = "flip"]
          /\ UNCHANGED <<call, answer, fresh>>
      BY <1>7, <2>2 DEF Recheck, Goto
    <3>2. \A h \in Goroutines : ~Committing(h)
      BY <1>2, <3>1 DEF Committing, InCritical
    <3>3. call[g].recheck => fresh[call[g].open]
      BY <2>2, <3>2 DEF TypeOK, Stale, EvidenceIsCurrent, Current
    <3>4. QED
      BY <1>1, <3>1, <3>2, <3>3, EvidenceKept DEF TypeOK, Committing
  <2>3. QED
    BY <2>1, <2>2
<1>8. ASSUME NEW g \in Goroutines, Flip(g) PROVE EvidenceIsCurrent'
  <2>1. pc'[g] = "tellCloser" /\ \A h \in Goroutines \ {g} : pc'[h] = pc[h] /\ ~InCritical(h)
    BY <1>2, <1>8 DEF TypeOK, Flip, Goto, InCritical
  <2>2. QED
    BY <2>1 DEF EvidenceIsCurrent, FlipRestsOnFreshEvidence, Committing, InCritical
<1>9. ASSUME NEW g \in Goroutines, TellCloser(g) PROVE EvidenceIsCurrent'
  <2>1. /\ pc'[g] = "tellOpener"
        /\ \A h \in Goroutines \ {g} : pc'[h] = pc[h] /\ ~InCritical(h)
        /\ ~answer'[FALSE]
    BY <1>2, <1>9 DEF TypeOK, TellCloser, Tell, Goto, InCritical
  <2>2. QED
    BY <2>1 DEF EvidenceIsCurrent, FlipRestsOnFreshEvidence, Current, Committing, InCritical
<1>10. ASSUME NEW g \in Goroutines, TellOpener(g) PROVE EvidenceIsCurrent'
  <2>1. /\ pc[g] = "tellOpener" /\ pc'[g] = "queue"
        /\ \A h \in Goroutines \ {g} : pc'[h] = pc[h] /\ ~InCritical(h)
        /\ ~answer'[TRUE] /\ answer'[FALSE] = answer[FALSE] /\ fresh' = fresh
    BY <1>2, <1>10 DEF TypeOK, TellOpener, Tell, Goto, InCritical
  <2>2. \A target \in BOOLEAN : Current(target)'
    BY <2>1 DEF EvidenceIsCurrent, Current
  <2>3. QED
    BY <2>1, <2>2 DEF EvidenceIsCurrent, FlipRestsOnFreshEvidence, Committing, InCritical
<1>11. ASSUME NEW g \in Goroutines, Queue(g) PROVE EvidenceIsCurrent'
  <2>1. /\ pc[g] = "queue" /\ pc'[g] = "deliver" /\ answer' = answer /\ fresh' = fresh
        /\ \A h \in Goroutines \ {g} : pc'[h] = pc[h] /\ ~InCritical(h)
    BY <1>2, <1>11 DEF TypeOK, Queue, Goto, InCritical
  <2>2. \A target \in BOOLEAN : Current(target)'
    BY <2>1 DEF EvidenceIsCurrent, Current
  <2>3. QED
    BY <2>1, <2>2 DEF EvidenceIsCurrent, FlipRestsOnFreshEvidence, Committing, InCritical
<1>12. ASSUME NEW g \in Goroutines, Deliver(g) \/ Drain(g) PROVE EvidenceIsCurrent'
  <2>1. /\ \A h \in Goroutines \ {g} : pc'[h] = pc[h] /\ call'[h] = call[h]
        /\ pc'[g] \in {"listening", "idle", "call"}
    BY <1>12 DEF TypeOK, Deliver, Drain, PopOrFinish, Return, Goto
  <2>2. QED
    BY <1>3, <1>12, <2>1 DEF Deliver, Drain, Committing
<1>13. ASSUME NEW g \in Goroutines,
              CallListener(g) \/ ListenerReturns(g) \/ ListenerPanics(g) \/ Cleanup(g)
       PROVE  EvidenceIsCurrent'
  <2>1. /\ pc[g] \in {"call", "listening", "cleanup"}
        /\ \A h \in Goroutines \ {g} : pc'[h] = pc[h] /\ call'[h] = call[h]
        /\ pc'[g] \in {"listening", "call", "drain", "cleanup", "deliver"}
        /\ answer' = answer /\ fresh' = fresh
    BY <1>13 DEF TypeOK, CallListener, ListenerReturns, ListenerPanics, Cleanup, Redeliver,
                 Goto, circuitVars, localVars
  <2>2. QED
    BY <1>3, <2>1 DEF Committing
<1>14. ASSUME NEW target \in Automatic, Evidence(target) PROVE EvidenceIsCurrent'
  <2>1. /\ pc' = pc /\ call' = call
        /\ \A t \in BOOLEAN : Current(t) => Current(t)'
        /\ \A t \in BOOLEAN : fresh[t] => fresh'[t]
    BY <1>14, AutomaticAssumption DEF TypeOK, Evidence, Current, localVars
  <2>2. QED
    BY <2>1 DEF TypeOK, EvidenceIsCurrent, FlipRestsOnFreshEvidence, Committing
<1>15. ASSUME NEW target \in Automatic, Lapse(target) PROVE EvidenceIsCurrent'
  <2>1. /\ pc' = pc /\ call' = call /\ fresh' = fresh
        /\ \A t \in BOOLEAN : Current(t) => Current(t)'
    BY <1>15, AutomaticAssumption DEF TypeOK, Lapse, Current, localVars
  <2>2. QED
    BY <2>1 DEF TypeOK, EvidenceIsCurrent, FlipRestsOnFreshEvidence, Committing
<1>16. CASE UNCHANGED vars
  BY <1>16 DEF EvidenceIsCurrent, FlipRestsOnFreshEvidence, Current, Committing,
               vars, localVars
<1>17. QED
  BY <1>4, <1>5, <1>6, <1>7, <1>8, <1>9, <1>10, <1>11, <1>12, <1>13, <1>14, <1>15, <1>16
  DEF Next, Step, StateMachinePanics

(* An automatic transition is never decided on evidence from before the    *)
(* previous transition, for any number of goroutines.                      *)
THEOREM FreshEvidence == ~StateMachineMayPanic /\ Spec => []FlipRestsOnFreshEvidence
<1> SUFFICES ASSUME ~StateMachineMayPanic PROVE Spec => []FlipRestsOnFreshEvidence
  OBVIOUS
<1>1. Init => EvidenceIsCurrent
  BY DEF Init, EvidenceIsCurrent, FlipRestsOnFreshEvidence, Current, Committing
<1>2. TypeOK /\ TypeOK' /\ LockMatchesSection /\ EvidenceIsCurrent /\ [Next]_vars
        => EvidenceIsCurrent'
  BY EvidenceStep
<1>3. EvidenceIsCurrent => FlipRestsOnFreshEvidence
  BY DEF EvidenceIsCurrent
<1>4. QED
  BY <1>1, <1>2, <1>3, TypeCorrect, DeliverySafe, PTL DEF Spec
=============================================================================
